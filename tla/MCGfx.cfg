\* the device restarted once, one spurious wakeup
SPECIFICATION LiveSpec
CONSTANTS
  Side = 2
  Colours = {0, 1}
  Areas <- MCAreas
  MaxStarts = 2
  MaxSpurious = 1
INVARIANTS
  HandledOnce
PROPERTIES
  BusyEnds
  ImplementsTransfer
\* a word written to the command register leaves lockGfx locked
CHECK_DEADLOCK FALSE
