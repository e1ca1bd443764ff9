CONSTANTS
  Profiles = {p1}
  Endpoints = {e1, e2}
  OtherServer = OtherServer
  UserSecrets = {}
  NoEndpoint = NoEndpoint
  Absent = Absent
  Nil = Nil
  MaxConcurrentReconciles = 1
  MaxChanges = 2
  MaxFaults = 0
SPECIFICATION FreshSpec
INVARIANT SettledMeansUpdated
CHECK_DEADLOCK FALSE
