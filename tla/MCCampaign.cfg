CONSTANTS
  Loads <- CampaignLoads
  Watched <- CampaignWatched
  Conns <- CampaignConns
  FiveTuple <- CampaignTuples
  Mask = FALSE
  MaxFaults = 1
  Capacity = 1
SPECIFICATION FairSpec
INVARIANTS JoinKeysAgree SignalsAddUp
PROPERTIES RunEnds ProbeStops
CHECK_DEADLOCK FALSE
