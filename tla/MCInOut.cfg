\* two bytes of input, two bytes to OUT with a queue of two, one RESET
CONSTANTS
  MaxInBytes = 2
  MaxInStarts = 2
  QueueSize = 2
  AfterFlush = 0
  MaxBytes = 2
  MaxStarts = 2
SPECIFICATION InOutLiveSpec
INVARIANTS
  NoDeadlyEmbrace
  TakenOnceAfterInterrupt
  NothingLost
  WakeupNotLost
PROPERTIES
  NoByteOverwritten
  NextByteComes
  FirstStopReturns
  LineIsSent
  StopOfSleeperReturns
\* a cancelled thread leaves lockIN locked: the device really may stop
CHECK_DEADLOCK FALSE
