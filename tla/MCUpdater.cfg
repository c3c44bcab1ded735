CONSTANTS
  Updaters = {u1}
  Releases = {installed, newer, rebuilt, broken}
  Installed = installed
  newer = newer
  rebuilt = rebuilt
  broken = broken
  Versions <- MCVersions
  VersionOf <- MCVersionOf
  Sound = {installed, newer, rebuilt}
  None = None
  MaxNames = 2
SPECIFICATION LiveSpec
INVARIANTS
  LinksComplete
  SettledOnAccepted
  ComparisonIsPrecedence
PROPERTIES
  NoSilentDowngrade
  OldReleaseServes
