CONSTANTS
  NameMax = 32
  PageLimit = 2
  None = None
  BucketNames <- SomeBuckets
  Stores <- SomeStores
  FileNames <- SomeFiles
  Filters <- SomeFilters
  MintTimes <- SomeTimes
  Lifetimes = {60}
  Delays = {60, 61, 900, 901}
  MaxStored = 5
SPECIFICATION Spec
INVARIANTS
  FilesKeepTheirKeys
  LinksReachObjects
  PagesCoverFolder
  UploadsLandOnPage
  LinksOpenTheirObject
