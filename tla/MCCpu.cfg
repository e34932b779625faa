SPECIFICATION Spec
CONSTANTS
  Starts <- MCStarts
  Interrupts = {9}
  CodeMaps <- MCCodeMaps
  Stale = {0, 40000}
  StackDepth = 8
INVARIANTS ComparisonsDecide ProgramIsLoaded
PROPERTIES SizeIsTabled ArithmeticIsExact FramesComeBack WordIsTwoBytes
CHECK_DEADLOCK FALSE
