SPECIFICATION Spec
CONSTANTS
  Images = {"next"}
  BadImages = {}
  Factory = "factory"
  NumBlocks = 3
  ImageBlocks = 2
  QueueDepth = 2
  Disturbances = {"Bare"}
INVARIANTS NeverStranded
