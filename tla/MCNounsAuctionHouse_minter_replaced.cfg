SPECIFICATION FairHistorySpec
CONSTANTS
  Bidders = {b1, b2}
  House = house
  Treasury = treasury
  Nounders = nounders
  OtherMinter = other
  Zero = Zero
  Contracts = {}
  calcDuration <- Duration
  RewardStep = 2
  LastReward = 0
  Minters = {other}
  SeederMayFail = FALSE
  TimeBuffers = {}
  ReservePrices = {}
  Percentages = {}
  InitTimeBuffer = 1
  InitReservePrice = 1
  InitPercentage = 50
  Budget = 1
  MaxNouns = 5
  MaxTime = 4
  LastIds = 2
  BaseDuration = 1
  DoublingTime = 2
  CapInterval = 4
  CapDuration = 4
PROPERTIES
  MinterUpdateIsRemedied
