SPECIFICATION FairSpec
CONSTANTS
  a = a
  b = b
  c = c
  macros = macros
  Component <- MCComponent
  Macros = macros
  Batch <- MCBatch
  Weight <- MCWeight
  Specified <- MCThree
  Reusable <- MCReusableAC
  Strategy = "changed-and-after"
  Scratch = FALSE
  MacrosTarget = FALSE
  LongTag = FALSE
  StuckStates = {}
  NumConcurrent = 1
  MaxTask = 3
  Budget <- MCPollers
PROPERTIES
  EndsUnlessForgotten
