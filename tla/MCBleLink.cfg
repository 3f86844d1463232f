SPECIFICATION FairSpec
CONSTANTS
  Preferences <- MCPreferences
  Offers <- MCOffers
  LatencyError = 1
  TimeoutError = 0
  MaxUpdates = 2
  DisconnectOnFail = TRUE
  DefaultMtu = 1
  MaxMtu = 2
  PeerMtus = {0, 2}
  Attributes = {"a", "b"}
  Registered = {"a"}
  Configs <- MCConfigs
  Themes <- MCThemes
  MaxLinks = 2
  MaxPeer = 3
  MaxStarts = 3
  MaxQueue = 2
  Careful = TRUE
INVARIANTS
  BleLinkInv
  ExecutedAsPrepared
PROPERTIES
  FailedIsHonest
  ProceduresEnd
CHECK_DEADLOCK FALSE
