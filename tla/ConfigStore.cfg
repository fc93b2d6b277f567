SPECIFICATION FairSpec
CONSTANTS
  setting = setting
  scale = scale
  v0 = v0
  v1 = v1
  port = port
  Loaded = {setting}
  Scales = {scale}
  Guarded = {}
  Values = {v0, v1}
  Default = v0
  Ports = {port}
  QueueCapacity = 2
INVARIANTS
  TypeOK
  FlashCatchesUp
  UsbFollowsRail
PROPERTIES
  ImplementsRegisters
  WriteSaved
