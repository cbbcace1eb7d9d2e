\* An old database in use, with two rows in every table.
SPECIFICATION FairSpec
CONSTANTS
  i1 = i1  i2 = i2
  Instance = {i1}
  Script <- orderedMigrations
  Item <- AllItems
  Starts <- InUse
  MaxCrashes = 0
PROPERTIES MigrationsApplied
