SPECIFICATION FairSpec
CONSTANTS
  Capacity <- OneEach
INVARIANTS
  TypeOK
  CirclesHoldInputs
  NobodyWaitsForItself
PROPERTIES
  MachineAlive
