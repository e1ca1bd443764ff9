CONSTANTS
  Profiles = {p1}
  Endpoints = {e1}
  OtherServer = OtherServer
  UserSecrets = {}
  NoEndpoint = NoEndpoint
  Absent = Absent
  Nil = Nil
  MaxConcurrentReconciles = 1
  MaxChanges = 1
  MaxFaults = 0
SPECIFICATION FreshSpec
INVARIANT DeletedProfileLosesSecret
CHECK_DEADLOCK FALSE
