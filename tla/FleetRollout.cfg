CONSTANTS
  Regions = {"us-east1"}
  IDs = {"a"}
  Memberships <- MCMemberships
  Scopes = {}
  OtherServer = OtherServer
  UserSecrets = {}
  NoSecret = NoSecret
  Nil = Nil
  MaxChanges = 2
  MaxFaults = 1
SPECIFICATION RolloutFairSpec
PROPERTIES ClusterKeepsItsSecretInRollout RolloutConverges
