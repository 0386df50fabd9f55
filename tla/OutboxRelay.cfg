SPECIFICATION FairSpec
CONSTANTS
  Events = {1, 2, 3}
  Relays = {r1, r2}
  BatchSize = 2
  SmallintMax = 2
  MaxFaults = 2
  MaxCrashes = 2
  MaxCopies = 5
INVARIANTS DuplicatesBounded
PROPERTIES EventuallyPublished 
