CONSTANTS
  MaxInBytes = 1
  MaxInStarts = 2
SPECIFICATION InLiveSpec
PROPERTY RestartReadsInput
\* a cancelled thread leaves lockIN locked: the device really may stop
CHECK_DEADLOCK FALSE
