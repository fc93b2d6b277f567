SPECIFICATION Spec
CONSTANTS
  WatchdogTimeouts = {1}
  SoloTimeouts = {0}
  ShutdownWait = 0
  OffDuration = 0
  RebootDuration = 1
  ChannelCapacity = 2
  MaxLag = 1
  MaxAge = 3
  Stimuli = {"SetWatchdogTimeout", "Other", "Overvoltage"}
INVARIANTS TypeOK CoOpHasTimeout HostHeard
PROPERTIES NoFalseUnresponsive NoFalseReboot
