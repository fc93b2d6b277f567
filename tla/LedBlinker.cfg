SPECIFICATION FairSpec
CONSTANTS
  States = {co_op, solo}
  CoOp = co_op
  Alarm = alarm
  Commands <- FadeAndJump
  Brightnesses = {dim, bright}
  Room = 2
  Timeout = 3
  Late = 1
INVARIANTS
  TypeOK
  LedsFollow
  StrayIsAlone
PROPERTIES
  FadesAreSmooth
  SilenceEnds
  StrayOverridesEnd
