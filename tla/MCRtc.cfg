\* eight dates, two seconds from each; a half tick of four instead of 32
SPECIFICATION LiveSpec
CONSTANTS
  HalfTicks = 4
  HostTimes <- MCHostTimes
  CEs <- MCCEs
  CFs <- MCCFs
  MaxSeconds = 2
  MaxStarts = 2
INVARIANTS
  DateIsValid
PROPERTIES
  KeepsTime
  EverySecondIsSignalled
  PulsesRepeat
