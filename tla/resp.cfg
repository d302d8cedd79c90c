SPECIFICATION CSpec
CONSTANTS
  r1 = r1
  r2 = r2
  s1 = s1
  s2 = s2
  NoReq = NoReq
  NoLimit = NoLimit
  Workloads <- MCWorkloads
  OWorkloads <- MCOWorkloads
  Outputs <- MCOutputs
  MaxIterations = 2
  HistoryLimit = 3
  MaxAttempts = 2
  CWorkloads <- MCCWorkloads
  MaxMetadata = 2
  MaxItems = 2
  k1 = k1
  k2 = k2
  k3 = k3
  i1 = i1
  i2 = i2
INVARIANTS ToolLoopsSound CompletedClosesAll FailuresHeard StoresSound
PROPERTIES AllRequestsEnd
