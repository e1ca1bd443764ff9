CONSTANTS
  Memberships <- MCMemberships
  Names <- MCNames
  ProfileOf <- MCProfileOf
  NoProfile = NoProfile
  MaxChanges = 0
  MaxFaults = 1
SPECIFICATION Spec
PROPERTY OnlyObsoleteDeleted
