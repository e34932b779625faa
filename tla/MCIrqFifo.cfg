\* three devices, more interrupt numbers than slots: the full queue happens
CONSTANTS
  timer = timer
  input = input
  rtc = rtc
  Devices = {timer, input, rtc}
  InterruptNumber <- MCInterruptNumber
  Cpu = Cpu
  NoThread = NoThread
  QueueSize = 2
SPECIFICATION FifoSpec
PROPERTY ImplementsQueue
