CONSTANTS
  c1 = c1
  c2 = c2
  c3 = c3
  vm1 = vm1
  i1 = i1
  i2 = i2
  NoName = NoName
  NoPid = NoPid
  Client <- MCClient
  Ui <- OneOfEach
  Name <- MCName
  Pid <- MCPid
  MaxStarts = 3
  MaxCrash = 1
SPECIFICATION FairSpec
INVARIANT TypeOK
INVARIANT PidFileTrue
INVARIANT OneQemuPerVm
INVARIANT RunningIsFound
 
CHECK_DEADLOCK FALSE
