\* mode once only
SPECIFICATION LiveSpec
CONSTANTS
  Values = {0, 1}
  Modes = {1}
  MaxStarts = 1
PROPERTY OnceInterrupts
