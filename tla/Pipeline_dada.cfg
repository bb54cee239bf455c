SPECIFICATION FairSpec
CONSTANTS
  Launchers = {"dada.c"}
  Capacity = 1
  Chunks = 1
PROPERTY LauncherEnds
CHECK_DEADLOCK FALSE
