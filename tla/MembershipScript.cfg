CONSTANTS
  Memberships <- MCMemberships
  Names <- MCNames
  ProfileOf <- MCProfileOf
  NoProfile = NoProfile
  MaxChanges = 2
  MaxFaults = 2
SPECIFICATION FairSpec
INVARIANTS TypeOK RunMirrorsFleet
PROPERTIES LiveProfilesStay ForeignProfilesStay Converges
