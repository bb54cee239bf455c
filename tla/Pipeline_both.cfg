SPECIFICATION FairSpec
CONSTANTS
  Launchers = {"dada.c", "sh"}
  Capacity = 2
  Chunks = 4
INVARIANT TypeOK
INVARIANT WholeScript
INVARIANT AllReaped
PROPERTY PipelineEnds
CHECK_DEADLOCK FALSE
