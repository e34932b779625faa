SPECIFICATION Spec
CONSTANTS
  Starts <- MCStarts
  Interrupts = {9}
  CodeMaps <- MCCodeMaps
  Stale = {0, 40000}
  StackDepth = 8
INVARIANT SignedComparisonsDecide
CHECK_DEADLOCK FALSE
