SPECIFICATION EnumSpec
CONSTANTS
  house = house
  alice = alice
  bob = bob
  Zero = Zero
  Accounts = {house, alice, bob}
  RewardStep = 2
  LastReward = 0
  MaxNouns = 3
  MaxBlock = 1
  Minters = {house, bob}
  InitMinter = house
  InitNounders = alice
  Signatures <- NoSignatures
  Delegators = {alice}
  Approvers = {alice}
  Proxies <- AlicesProxy
INVARIANTS
  VotesMatchDelegations
  BookkeepingNeverReverts
  EnumerationIsExact
PROPERTIES
  FreshIdsToTheRightHolder
  NoStaleApproval
