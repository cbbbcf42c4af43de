SPECIFICATION OffchainSpec
CONSTANTS
  Zero = Zero  alice = alice  bob = bob
  Accounts = {alice, bob, treasury}  TokenOwner = treasury
  MaxTransactions = 5  MaxVotes = 7  RewardStep = 3  LastReward = 0  MaxNouns = 3  MaxBlock = 1
  Minters = {}  InitMinter = bob  InitNounders = alice  Signatures <- TheSignatures
  Delegators = {alice, bob}  Approvers = {}  Proxies = {}
  Bps = 10  CoefficientOne = 2
  MIN_QUORUM_VOTES_BPS_LOWER_BOUND = 0
  MIN_QUORUM_VOTES_BPS_UPPER_BOUND = 5
  MAX_QUORUM_VOTES_BPS_UPPER_BOUND = 10
  quorumVotesBPS = 2  Proposers <- TheProposers  Weight <- TheWeights  Supplies = {6}
  ParamsChoices <- TheParams  ProposalIds = {1, 2}  ActionsOf <- TheActions
  votingDelay = 1  votingPeriod = 1  timelockDelay = 1  GRACE_PERIOD = 1
  LastBlock = 7  Supports = {0, 1}  MaxSettings = 1  User = "alice"
  Represented <- TheRepresented
  MaxBallots = 3
  AuctionBidders = {"alice"}  ContractBidders = {"alice"}  HouseNouns = {1, 2}
  MintedForNounders = {0}  Amounts = {10, 15}  LeastBid = 5  Increment = 10
  AuctionLength = 2  AuctionBuffer = 2  Transactions = {1, 2}  MaxClock = 3
  AuctionTicks = {1}  GovernanceTicks = {1, 2}  EndingSoon = 1  BotProposals = {1}
  ExpiryLimit = 2  ExpiryWarning = 1
  Visitor = "visitor"  FirstAuction <- TheFirstAuction  Cent = 10  Inputs = {20}
  TaskNames <- AllTasks  Networks = {"mainnet", "sepolia", "zKyoto", "hardhat"}
  FlagSets <- SomeFlags  MaxRuns = 2  MaxForeign = 1
  MAX_BLOCKS_PER_CALL = 3  LogReaders = {"governance", "noun"}  LastLogBlock = 5
  FeedNouns = {9, 10}  FeedAccounts = {"alice"}  LastFeedBlock = 6  MaxNounMoves = 2  MaxFeedProposals = 1
  Candidates <- TheCandidates  EnsNames <- TheNames  AccountVotes = 1
  MaxLookups = 2  MaxDelegations = 2
  Hex = 2  PictureWidth = 3  PictureHeight = 2  Pictures <- ThePictures
  PartFiles <- TheFiles  GivenPalettes <- ThePalettes  MaxPictures = 2
INVARIANTS
  HoldingsFollowTheChain PageShowsContractState OfferedActionIsAccepted
  ModalReportsTheBallots NoDoubleAnnouncement CachedWasAnnounced PageFollowsAuction
  HandedOverIsWired FailsOnlyWhenDisturbed AuctionHandedOverRuns
  LogsFollowTheChain FeedTellsTheNounsStory DelegationGoesWhereEntered ArtDrawsItsPictures
CHECK_DEADLOCK FALSE
