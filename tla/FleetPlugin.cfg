CONSTANTS
  Regions <- MCRegions
  IDs <- MCIDs
  Memberships <- MCMemberships
  Scopes = {s1}
  OtherServer = OtherServer
  UserSecrets = {}
  NoSecret = NoSecret
  Nil = Nil
  NoScope = NoScope
  MaxChanges = 2
  MaxFaults = 1
SPECIFICATION PluginSpec
INVARIANTS PluginTypeOK RepliesAreAtomic FleetNeverEmpty TenancyMapsAgree TopologyIsCurrent ServesWithTopology
PROPERTIES AnswersFollowTheFleet
