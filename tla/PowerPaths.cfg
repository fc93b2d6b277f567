SPECIFICATION Spec
CONSTANTS
  WatchdogTimeouts = {1}
  SoloTimeouts = {0, 1}
  ShutdownWait = 1
  OffDuration = 0
  RebootDuration = 0
  ChannelCapacity = 1
  MaxLag = 1
  MaxAge = 2
  Stimuli = {"SetWatchdogTimeout", "Shutdown", "StandbyShutdown", "Off", "PowerButton", "Crash", "Configure"}
INVARIANTS RailsFollowState CmEdgeTracked NotOverstayed NoReturnAfterClick
PROPERTIES ShutdownIsFinal ImplementsSupervisor
