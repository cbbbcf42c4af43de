SPECIFICATION HistorySpec
CONSTANTS
  alice = alice
  bob = bob
  Zero = Zero
  Voters = {alice, bob}
  Allocations <- Swing
  InitVetoer = alice
  Vetoers = {bob}
  Ballots <- AllBallots
  ActionLists <- CallTwice
  Actions <- CallTwiceActions
  Settable <- Bounds
  InitConfig <- Clock
  ClockDelay = 1
  ClockPeriod = 1
  InitParams <- InitialParams
  GRACE_PERIOD = 1
  MaxProposals = 2
  MaxBlock = 4
  MaxDepth = 1
  LastChange = 2
  Bps = 10
  CoefficientOne = 10
  MIN_QUORUM_VOTES_BPS_LOWER_BOUND = 1
  MIN_QUORUM_VOTES_BPS_UPPER_BOUND = 6
  MAX_QUORUM_VOTES_BPS_UPPER_BOUND = 6
  quorumVotesBPS = 2
INVARIANTS
  TalliesMatchSnapshot
  OneLiveProposal
CHECK_DEADLOCK FALSE
