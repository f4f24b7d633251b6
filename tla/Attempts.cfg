SPECIFICATION FairSpec
CONSTANTS
  a = a
  b = b
  c = c
  macros = macros
  Component <- MCComponent
  Macros = macros
  Batch <- MCBatch
  Weight <- MCWeight
  Specified <- MCSeveral
  Reusable <- MCReusable
  Strategy = "only-changed"
  Scratch = FALSE
  MacrosTarget = FALSE
  LongTag = TRUE
  StuckStates = {"init", "build"}
  NumConcurrent = 1
  MaxTask = 3
  Budget <- MCAttempts
INVARIANTS
  TypeOK
  DoneComplete
  TaggedComplete
PROPERTIES
  CompleteStable
  KeepsPromise
  BuildEnds
