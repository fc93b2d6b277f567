SPECIFICATION Spec
CONSTANTS
  setting = setting
  version = version
  scale = scale
  v0 = v0
  v1 = v1
  port = port
  Loaded = {setting, version}
  Scales = {scale}
  Guarded = {version}
  Values = {v0, v1}
  Default = v0
  Ports = {port}
  QueueCapacity = 2
PROPERTIES
  StoredScalesReturn
