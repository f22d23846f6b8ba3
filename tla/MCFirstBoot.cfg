\* Every kind of image, with three faults.
SPECIFICATION FairSpec
CONSTANTS
  Profiles = {"minimal", "desktop", "development", "appliance"}
  Users <- MCUsers
  ValidUsers <- MCValidUsers
  Hashes = {"h1", "h2"}
  Unusable = {"!", "*"}
  Seeds <- MCSeeds
  MaxFaults = 3
INVARIANTS TypeOK DoneMeansComplete PolicyHolds
PROPERTIES DoneIsFinal EventuallyUsable
