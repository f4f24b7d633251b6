SPECIFICATION Spec
CONSTANTS
  a = a
  b = b
  c = c
  macros = macros
  Component <- MCComponent
  Macros = macros
  Batch <- MCBatch
  Weight <- MCWeight
  Specified <- MCTwo
  Reusable = {}
  Strategy = "all"
  Scratch = FALSE
  MacrosTarget = FALSE
  LongTag = FALSE
  StuckStates = {"init", "build"}
  NumConcurrent = 1
  MaxTask = 3
  Budget <- MCRefused
PROPERTIES
  RefusalFails
