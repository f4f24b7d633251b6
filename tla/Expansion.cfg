SPECIFICATION Spec
CONSTANTS
  BaseModule <- MCBaseModule
  Sections <- MCSections
  Norm <- MCNorm
  Inheritance <- MCInheritance
  OnlyCompatible = FALSE
  Privileged = {"boot"}
  AllowRepository = FALSE
  Override = "platform"
  Support <- MCSupport
  Shift = 10
  MaxVersion = 810000
  Tables <- MCTables
  Modulemds <- MCModulemds
  Params <- MCParams
INVARIANTS
  BuiltAgainstOlder
  OnlyReadyBases
  Complete
  LocalUnambiguous
  BaseAsked
  DistinctBuilds
CHECK_DEADLOCK FALSE
