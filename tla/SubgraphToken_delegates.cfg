SPECIFICATION SubgraphTokenSpec
CONSTANTS
  Zero = Zero
  Accounts = {alice, bob, treasury}
  TokenOwner = treasury
  MaxTransactions = 5
  MaxVotes = 7
  RewardStep = 3
  LastReward = 0
  MaxNouns = 3
  MaxBlock = 1
  Minters = {}
  InitMinter = bob
  InitNounders = alice
  Signatures = {}
  Delegators = {alice, bob}
  Approvers = {}
  Proxies = {}
INVARIANT RepresentedNounsVoteForTheirDelegate
CHECK_DEADLOCK FALSE
