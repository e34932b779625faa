SPECIFICATION LiveSpec
CONSTANTS
  Addresses = {1, 2}
  Breakpoints = {2}
  Start = 1
  Counts = {2}
  DebugStop = FALSE
  PollEvery = 2
  Greetings = 1
  MaxSent = 3
  MaxRan = 3
  MaxNested = 0
INVARIANTS StepsAreCounted 
PROPERTIES StopsWhereAsked QuitsOnlyIfAsked ClientIsHeard
CHECK_DEADLOCK FALSE
