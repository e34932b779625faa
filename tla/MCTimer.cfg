\* repeat mode only, the device restarted once
SPECIFICATION LiveSpec
CONSTANTS
  Values = {0, 1, 2}
  Modes = {0}
  MaxStarts = 2
INVARIANTS
  DelayInForce
  InterruptWhenElapsed
PROPERTIES
  InterruptsRepeat
  StopOfRunningReturns
