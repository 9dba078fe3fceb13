CONSTANTS
  u1 = u1
  u2 = u2
  d1 = d1
  d2 = d2
  p1 = p1
  p2 = p2
  User <- MCUser
  Drive <- MCDrive
  Path <- MCPath
  NoMedium = NoMedium
  NoArchive = NoArchive
  NoJob = NoJob
  Base <- DistinctNames
  Tools = {"tgz", "zip", "iso"}
  MaxJobs = 3
SPECIFICATION Spec
SYMMETRY SymmetricUsers
INVARIANT TypeOK
INVARIANT NothingForeign
INVARIANT EmptyForAReason
CHECK_DEADLOCK FALSE
