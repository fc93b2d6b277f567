SPECIFICATION FairSpec
CONSTANTS
  Images = {"next", "hangs"}
  BadImages = {"hangs"}
  Factory = "factory"
  NumBlocks = 2
  ImageBlocks = 2
  QueueDepth = 2
  Disturbances = {"Short", "ShortStart", "Resend", "EarlyCommit", "Again", "FlashError"}
INVARIANTS Recoverable NeverStranded
PROPERTIES AnswerNears CommitAnswered BadImageReverted PreparingEnds
