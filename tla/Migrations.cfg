\* Two instances migrate a new or an old database at once; each may crash.
SPECIFICATION FairSpec
CONSTANTS
  i1 = i1  i2 = i2
  Instance = {i1, i2}
  Script <- orderedMigrations
  Item <- AllItems
  Starts <- Upgradable
  MaxCrashes = 1
INVARIANTS TypeOK RecordedComplete ServesComplete
PROPERTIES StableOnceServed EventuallyServes
