SPECIFICATION Spec
CONSTANTS
  Images = {"next", "hangs"}
  BadImages = {"hangs"}
  Factory = "factory"
  NumBlocks = 4
  ImageBlocks = 3
  QueueDepth = 2
  Disturbances = {"Corrupt", "Length", "Bare", "Abort", "Restart"}
INVARIANTS TypeOK ReadyIsWhole FlashedIsStaged
PROPERTIES ImplementsSlots
