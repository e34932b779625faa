CONSTANTS
  timer = timer
  input = input
  Devices = {timer}
  InterruptNumber <- MCInterruptNumber
  Cpu = Cpu
  NoThread = NoThread
  QueueSize = 2
  MaxFrames = 2
SPECIFICATION LiveSpec
INVARIANTS PendingIsDivZero DeviceHandlerReturnsEnabled
PROPERTIES ClearLeavesOnlyFresh WaitingCpuWakes RaiseIsServed SignalStops
