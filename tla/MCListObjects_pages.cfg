CONSTANTS
  Keys <- SomeKeys
  Temps <- SomeTemps
  Prefixings <- SomePrefixes
  Delimiters <- SomeDelimiters
  MaxKeys = {0, 9}
  PageLimit = 2
  MaxWriters = 2
  None = None
SPECIFICATION FairSpec
INVARIANTS
  StableKeysAreListed
  ListingIsOrdered
  UndisturbedListingIsExact
PROPERTIES
  ListingEnds
