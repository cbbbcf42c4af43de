SPECIFICATION HistorySpec
CONSTANTS
  house = alice
  alice = alice
  bob = bob
  Zero = Zero
  Accounts = {alice, bob}
  RewardStep = 2
  LastReward = 0
  MaxNouns = 2
  MaxBlock = 4
  Minters = {alice}
  InitMinter = alice
  InitNounders = bob
  Signatures <- RivalSignatures
  Delegators = {alice, bob}
  Approvers = {}
  Proxies <- NoProxies
INVARIANTS
  PriorVotesIsHistory
  PastVotesAddUpToSupply
  SignatureCountsOnce
PROPERTIES
  HistoryImmutable
  ImplementsVoteLedger
