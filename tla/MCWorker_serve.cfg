SPECIFICATION LiveSpec
CHECK_DEADLOCK FALSE
CONSTANTS
  Jobs = {j1, j2}
  Claims = 1
  MaxServing = 1
  MaxWaiting = 1
  MaxTokens = 2
INVARIANTS
  TypeOK
  LaneIsOneAnswer
  AnsweredUnlessGone
  NeverSilent
  OccupancyIsClaimed
  HangupCancels
PROPERTIES
  RefusedOnlyByDepartures
  EveryClaimEnds
