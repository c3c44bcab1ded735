CONSTANTS
  Packages = {p1, p2}
  Keys = {}
  Legacy = Legacy
  Edited = Edited
  Default = Default
  Torn = Torn
  None = None
  MaxRuns = 3
  MaxDamaged = 1
SPECIFICATION Spec
SYMMETRY PackageSymmetry
INVARIANT FailureRollsBack
