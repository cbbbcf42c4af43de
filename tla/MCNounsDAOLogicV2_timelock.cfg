SPECIFICATION HistorySpec
CONSTANTS
  alice = alice
  bob = bob
  Zero = Zero
  Voters = {alice, bob}
  Allocations <- Fixed
  InitVetoer = alice
  Vetoers = {}
  Ballots <- ForOnly
  ActionLists <- SharedCall
  Actions <- SharedCallActions
  Settable <- Bounds
  InitConfig <- Clock
  ClockDelay = 1
  ClockPeriod = 1
  InitParams <- InitialParams
  GRACE_PERIOD = 1
  MaxProposals = 2
  MaxBlock = 7
  MaxDepth = 2
  LastChange = 0
  Bps = 10
  CoefficientOne = 10
  MIN_QUORUM_VOTES_BPS_LOWER_BOUND = 1
  MIN_QUORUM_VOTES_BPS_UPPER_BOUND = 6
  MAX_QUORUM_VOTES_BPS_UPPER_BOUND = 6
  quorumVotesBPS = 2
INVARIANTS
  QueueMatchesProposals
PROPERTIES
  FollowsLifecycle
CHECK_DEADLOCK FALSE
