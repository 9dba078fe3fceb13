CONSTANTS
  c1 = c1
  c2 = c2
  vm1 = vm1
  image = image
  target = target
  l1 = l1
  l2 = l2
  l3 = l3
  l4 = l4
  l5 = l5
  l6 = l6
  m1 = m1
  m2 = m2
  Client <- MCClient
  Name <- MCName
  File <- MCFile
  Given <- MCGiven
  Layer <- MCLayer
  Machine <- MCMachine
  MaxRuns = 2
  MaxWrites = 3
  MaxTasks = 3
  NoLayer = NoLayer
  NoMachine = NoMachine
  NoTask = NoTask
  NoJob = NoJob
SPECIFICATION Spec
SYMMETRY Symmetry
INVARIANT TypeOK
INVARIANT RollbackExact
INVARIANT BackupComplete
INVARIANT DiskExplained
CHECK_DEADLOCK FALSE
