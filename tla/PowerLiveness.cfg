SPECIFICATION FairSpec
CONSTANTS
  WatchdogTimeouts = {1}
  SoloTimeouts = {0}
  ShutdownWait = 1
  OffDuration = 0
  RebootDuration = 0
  ChannelCapacity = 1
  MaxLag = 1
  MaxAge = 2
  Stimuli = {"SetWatchdogTimeout", "Shutdown", "Other"}
PROPERTIES StopEnds CmLossCutsPower HungHostHandled BlackoutRestarts
