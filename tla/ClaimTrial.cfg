SPECIFICATION Spec
CONSTANTS
  Images = {"next", "hangs"}
  BadImages = {"hangs"}
  Factory = "factory"
  NumBlocks = 2
  ImageBlocks = 2
  QueueDepth = 2
  Disturbances = {"Unconfirmed"}
PROPERTIES RevertsToBootedImage
