SPECIFICATION HistorySpec
CONSTANTS
  Bidders = {b1, b2}
  House = house
  Treasury = treasury
  Nounders = nounders
  OtherMinter = other
  Zero = Zero
  Contracts = {b1}
  calcDuration <- Duration
  RewardStep = 2
  LastReward = 0
  Minters = {house, other}
  SeederMayFail = TRUE
  TimeBuffers = {2}
  ReservePrices = {1}
  Percentages = {50}
  InitTimeBuffer = 1
  InitReservePrice = 0
  InitPercentage = 0
  Budget = 2
  MaxNouns = 3
  MaxTime = 4
  LastIds = 0
  BaseDuration = 1
  DoublingTime = 2
  CapInterval = 4
  CapDuration = 4
INVARIANTS
  Solvent
  PayOnlyForWhatIsWon
  SoldOnce
  Custody
  UnpausedHasAuction
PROPERTIES
  AuctionOnlyAdvances
  OutbidHasTimeToAnswer
