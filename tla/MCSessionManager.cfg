\* Safety: four sessions created, two kept.
SPECIFICATION ManagerSpec
CONSTANTS
  MaxKeys = 4
  MaxSessions = 2
  Names = {n1}
INVARIANTS SizeBounded ActiveWasHandshaken
PROPERTIES EvictionSparesUseful
CHECK_DEADLOCK FALSE
