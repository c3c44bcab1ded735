CONSTANTS
  Packages = {p1, p2}
  Keys = {k1}
  Legacy = Legacy
  Edited = Edited
  Default = Default
  Torn = Torn
  None = None
  MaxRuns = 3
  MaxDamaged = 1
SPECIFICATION Spec
SYMMETRY PackageSymmetry
INVARIANTS
  TypeOK
  RolledBack
  RunningIsWhole
  CompletedIsWhole
  
