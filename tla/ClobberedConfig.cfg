SPECIFICATION Spec
CONSTANTS
  Procs = {p1, p2}
  Commands = {c1, c2}
  NoProc = NoProc
  Stale = Stale
  MaxFaults = 3
  Ingesters = {k1, k2}
  Waiters = {w1}
  Sockets = {x1}
  Hits = {1, 2}
  MaxEvents = 2
  Buffer = 1
  MaxWire = 1
  Files <- MCFiles
  Native = {claude}
  Configured = {cursor}
  Manual = {cursor}
  Configs <- MCConfigs
  Docs <- MCDocs
  MaxEdits = 1
  MaxDoc = 5
CHECK_DEADLOCK FALSE
PROPERTY NotJSONIsKept
