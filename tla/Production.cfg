SPECIFICATION Spec
CONSTANTS
  BaseModule <- MCBaseModule
  Sections <- MCSections
  Norm <- MCNorm
  Inheritance <- MCInheritance
  OnlyCompatible = TRUE
  DefaultModules <- MCDefaults
  Rawhide = "f41"
  RawhideBranch = "master"
  MultilibOf <- MCMultilibOf
  Exclusive <- MCAny
  Excluded <- MCAny
  Self = "app"
  SelfStream = "1"
  Table <- MCTable
  Rpms <- MCRpms
  Plans <- MCPlans
  Heads <- MCHeads
  IncludedMmd <- MCIncluded
  Makes <- MCMakes
  Configured <- MCConfigured
  Privileged <- MCPrivileged
  DefaultArches <- MCArches
  Groups <- MCGroups
  CgTag <- MCCgTag
  CgTags <- MCCgTags
  CgDefault = "default"
  MaxRestarts = 2
  MaxMoves = 1
INVARIANTS
  TypeOK
  RecordedAsResolved
  BatchOrder
  DefaultsFit
  NoShadowing
  ReuseSound
  OwnRpmsInstallable
  NotBlockedAgain
  BuildRoot
  Split
  DebugFollows
  TaggedWhenDone
CHECK_DEADLOCK FALSE
