CONSTANTS
  Regions <- MCRegions
  IDs <- MCIDs
  Memberships <- OneMembership
  Scopes = {s1}
  OtherServer = OtherServer
  UserSecrets = {}
  NoSecret = NoSecret
  Nil = Nil
  NoScope = NoScope
  MaxChanges = 1
  MaxFaults = 0
SPECIFICATION PluginSpec
INVARIANT UnknownScopeRefused
