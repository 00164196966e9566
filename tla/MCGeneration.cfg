SPECIFICATION Spec
CONSTANTS
  Artifacts = {"rtl"}
  InputFiles = {"parameters"}
  MaxCalls = 2
  Lasting <- MCLasting
  Instances <- MCInstances
  OutputKey <- MCOutputKey
  Places <- MCPlaces
  Unusable = {"snapshot"}
  Faulty = {"odd"}
  Package <- MCPackage
  Uncatalogued = {"cpu"}
  Flowless = {"dma"}
  Designs <- MCDesigns
INVARIANTS
  RecordsAreFresh
  SuccessIsDelivered
  InputsAreEmitted
PROPERTIES
  OnlyOwnDirectories
  EveryGenerationReturns
CHECK_DEADLOCK FALSE
