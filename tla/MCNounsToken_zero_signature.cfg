SPECIFICATION HistorySpec
CONSTANTS
  house = alice
  alice = alice
  bob = bob
  Zero = Zero
  Accounts = {alice, bob}
  RewardStep = 2
  LastReward = 0
  MaxNouns = 2
  MaxBlock = 2
  Minters = {alice}
  InitMinter = alice
  InitNounders = bob
  Signatures <- ZeroSignature
  Delegators = {alice, bob}
  Approvers = {}
  Proxies <- NoProxies
INVARIANTS
  UndelegatedVoteForThemselves
