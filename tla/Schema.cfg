SPECIFICATION LiveSpec
CONSTANTS
  t1 = t1  t2 = t2
  Threads = {t1, t2}
  Targets = {0, 1, 2, 3}
  Callbacks = {"callback", "null"}
  IntMax = 3
  Apps <- Applications
  MaxFaults = 1
INVARIANTS TypeOK OneRow VersionTrails TrailsInv RepeatsNeedTrouble
PROPERTIES VersionNeverLowered NoCallsOnSameVersion UpgradeCompletes
