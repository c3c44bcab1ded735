CONSTANTS
  b1 = b1
  b2 = b2
  full = full
  short = short
  Binaries = {b1, b2}
  Size <- MCSize
  Info <- MCInfo
  Versions = {"1.2.0"}
  SemVersions = {"1.2.0"}
  Commits = {full, short}
  Length <- MCLength
  Arches = {amd64, arm64}
  HostArch = amd64
  Keys = {release, other}
  Trusted = release
  Schemas = {1, 2}
  None = None
  MaxBuilt = 2
SPECIFICATION Spec
INVARIANTS
  CandidateIsAsPackaged
  RefusedOnlyForCause
CONSTRAINT FewBuilt
