CONSTANTS
  Regions <- MCRegions
  IDs <- MCIDs
  Memberships <- MCMemberships
  Scopes = {s1}
  OtherServer = OtherServer
  UserSecrets <- MCUserSecrets
  NoSecret = NoSecret
  Nil = Nil
  MaxChanges = 2
  MaxFaults = 1
SPECIFICATION FairSpec
INVARIANTS TypeOK RefreshMirrorsFleet
PROPERTIES ClusterKeepsItsSecret OnlyMembersGetSecrets PruneTakesItsOwn Converges TopologyConverges ImplementsMirror
