SPECIFICATION Spec
CONSTANTS
  Lowercase <- MCLowercase
  Halves <- MCHalves
  Outside <- MCOutside
  Suffix <- MCSuffix
  Disks <- MCDisks
  Revised <- MCRevised
  Handled <- MCHandled
  Qualified <- MCQualified
INVARIANTS
  PackageGraphsAreSound
  ConditionsEvaluate
  NormalizedIsStable
  DrivenOnce
PROPERTIES
  CatalogIsWhatIsThere
