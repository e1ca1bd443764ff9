CONSTANTS
  Profiles = {p1, p2}
  Endpoints = {e1}
  OtherServer = OtherServer
  UserSecrets <- MCUserSecrets
  NoEndpoint = NoEndpoint
  Absent = Absent
  Nil = Nil
  MaxConcurrentReconciles = 1
  MaxChanges = 2
  MaxFaults = 1
SPECIFICATION FairSpec
INVARIANTS TypeOK NoLostUpdate
PROPERTIES DeletesItsOwn DeletionIsRepaired LiveProfilesFollowed DeadProfilesCleaned
CHECK_DEADLOCK FALSE
