# Nouns DAO in TLA+

This directory models the repository's own logic: the contracts of
`packages/nouns-contracts` (the token whose holders govern the DAO, the auction
house that sells one noun after the other, the governor with its timelock), and
the programs around them, which follow the contracts, act on them or put them
there: the subgraph, the web page, the bots, the scripts that encode the art, and
the deployment tasks. Each module is translated from the source; TLC checks small
instances, and TLAPS proves the properties listed under
[What is proved](#what-is-proved) for every value of the constants.

## The system

### Components, their state and operations

| Component | State | Operations |
|---|---|---|
| `NounsToken` with `ERC721`, `ERC721Checkpointable` | owners, approvals, delegates, vote checkpoints, nonces, next id, nounders DAO, minter and its lock | `mint`, `burn`, transfers, `approve`, `setApprovalForAll`, `delegate`, `delegateBySig`, `setMinter`, `lockMinter`, `setNoundersDAO` |
| `ERC721Enumerable` | index lists of tokens, per owner and of all | its transfer hook |
| `NounsAuctionHouse` | the current auction, paused flag, time buffer, reserve price, minimum increment, its ETH and WETH | `createBid`, `settleAuction`, `settleCurrentAndCreateNewAuction`, `pause`, `unpause`, setters |
| `NounsDAOExecutor` (timelock) | flags of queued transactions, delay, admin | queue, cancel and execute a transaction, `setDelay`, admin handover |
| `NounsDAOLogicV2` (governor) | proposals with tallies and receipts, latest proposal per proposer, settings, quorum checkpoints, vetoer and pending vetoer | `propose`, `castVote*`, `queue`, `execute`, `cancel`, `veto`, veto power handover and burning, setters |
| `NounsDAOLogicV1`, proxies, `NounsSeeder` | as the governor with a fixed quorum; an implementation address; none | the same; delegate every call; pick a seed |
| art, descriptors, renderers | image parts | append parts, render |
| `nouns-subgraph` | accounts, delegates, nouns, auctions, bids, proposals, votes, governance totals, logged events | one handler per contract event |
| `nouns-webapp`, governance | an answered query, receipts, transactions under way; the dialog to vote; the store of chain logs; the panel to delegate | vote, queue, execute, cancel; open and dismiss; ask for logs at each block; look up names, delegate |
| `nouns-webapp`, auction | the Redux slices of the current, the displayed and past auctions; the form to bid | socket events, navigation, typing, bidding |
| `nouns-webapp`, activity feed | none: computed from queries | merge and cut |
| `nouns-bots` | what was announced, in Redis; ticks under way | two timers, setup, restart |
| deployment tasks | the deployer's nonce, contracts, owners, art, terms | the ten tasks that deploy and configure, starting the auction, handing over, verifying |
| `nouns-assets` scripts, `nouns-sdk` images | image files, palettes, encoded data | encode, encode more, merge, draw |
| `nouns-api`, the static site, playground | none of consequence | reading, rendering |

### How they interact

* The auction house is the token's minter. Creating an auction mints (an id
  divisible by 10, up to 1820, is a nounders' reward minted along with the
  auctioned one); settling transfers the noun to the winner, or burns it.
* Every transfer, mint and burn moves one vote between the delegates of the two
  holders and writes checkpoints by block. The governor reads them with
  `getPriorVotes` at the block a proposal was created in.
* The governor is the timelock's admin; the timelock owns the auction house and
  the token, sends the governor's own setters, and holds the treasury. A
  proposal's actions are external calls: whoever is called may call the governor
  again before it returns.
* The subgraph sees the contracts' events only, in order, and rebuilds votes,
  auctions and proposals from them. The bots poll it; the page reads it beside
  contract calls, a websocket and the node's logs, each with its own delay.
* The deployment tasks send one transaction after another and hand everything to
  the timelock at the end.

### What is hard here

Orders of transactions by many actors that no unit test enumerates: votes moving
while they are counted, checkpoint writes that share a block, calls back into
the governor from inside an execution, identical actions of several proposals
sharing one timelock flag, a mint failing inside a settlement, payees that
refuse ETH, parameters changed in the middle of an auction or a vote, and
auctions that must end although nobody is obliged to end them. Around the
contracts: handlers that hold a copy of an entity which a function they call
loads and saves; pages that decide from an old answer and the current block;
answers that overtake each other; ticks that overlap, webhooks that refuse, a
process that dies between a cache write and a message; addresses computed ahead
from a nonce. `PROJECT.json` lists these hazards at their lines with the
properties that cover them.

### What makes each part correct

* Token: votes of an account = nouns whose holders it represents; a finished
  block's votes never change; bookkeeping never blocks a transfer; ids are
  never reused; approvals die with the ownership they were given under; a signature
  counts once and in its time; the enumeration lists hold exactly the nouns they stand for.
* Auction house: it holds exactly the standing bid and, while no other minter burns
  it, the noun on auction; bidders pay for what they win; an auction only advances
  and is settled at last.
* Governor and timelock: tallies are the votes of the snapshot; terms do not
  change under a running proposal; a proposal moves only along its lifecycle;
  flags in the timelock agree with the proposals; notice is given.
* Subgraph and pages: what is indexed and shown is what the contracts hold, and
  what is offered is accepted, whenever the data shown is up to date.
* Bots: nothing is announced twice, no change of status is dropped.
* Deployment: what is handed over is one complete system that runs.
* Art: what is drawn is what was encoded.

## Modules

| Module | Models | Notes |
|---|---|---|
| `CheckpointSearch` | the binary search of `getPriorVotes` and `getDynamicQuorumParamsAt` | a recursive function on index ranges |
| `Checkpoints` | `_writeCheckpoint`, `_moveDelegates`, `getPriorVotes`, `getCurrentVotes` | pure operators; a mapping plus its length becomes a sequence |
| `NounsToken` | `NounsToken.sol`, `ERC721.sol`, `ERC721Checkpointable.sol` | one action per transaction, with its hook and every checkpoint it writes |
| `ERC721Enumerable` | `ERC721Enumerable.sol` | the actions of `NounsToken`, each with the lists its hook maintains |
| `VoteLedger` | what the governor relies on the token for | abstract specification, implemented by `NounsToken`, extended by the governor |
| `NounsAuctionHouse` | `NounsAuctionHouse.sol`, with owners, ids and minter of the token, ETH and WETH | `calcDuration` is a constant operator |
| `AuctionDuration` | `_calcDuration` | the exact floor; the rounding of quadruple precision is not modelled |
| `DynamicQuorum` | dynamic quorum, its checkpoints and setters' requirements | pure operators |
| `NounsDAOLogicV2` | `NounsDAOLogicV2.sol` with `NounsDAOExecutor.sol` | over `VoteLedger`; a stack of executions in progress |
| `ProposalLifecycle` | the states of a proposal and the ways between them | abstract specification, implemented by the governor's `state()` |
| `SubgraphToken` | `nouns-erc-721.ts` with `helpers.ts` | over `NounsToken`: each transaction's events are handled one by one |
| `SubgraphDAO` | `nouns-dao.ts`, `dynamicQuorum.ts` | with the governor as its events show it and the timelock's flags; quorum from `DynamicQuorum` |
| `SubgraphAuction` | `nouns-auction-house.ts` | with the house as its events show it |
| `WebappGovernance` | `pages/Vote`, `ProposalHeader`, `wrappers/nounsDao.ts`, the quorum's curve | over `SubgraphDAO`: an answered query, the current block, the transactions; what the index of the token has each voter represent is a constant, which need not be its votes |
| `VoteModal` | `components/VoteModal` | the dialog, dismissed and reopened while its votes are under way |
| `WebappLogs` | `state/updaters/logs.ts`, `state/slices/logs.ts`, `hooks/useLogs.ts` | ranges, retries, answers in any order, the list of proposals read from them |
| `DelegationPanel` | `ChangeDelegatePannel`, `DelegationCandidateInfo` | ENS lookups that answer late |
| `WebappAuction` | `index.tsx`, the auction slices, `pages/Auction`, `components/Bid` | over `SubgraphAuction`: the socket, fetched blocks, navigation, the form |
| `NounActivity` | `wrappers/nounActivity.ts`, the logged events of the subgraph | the feed as a function of what the queries answer |
| `Bots` | `nouns-bots` | over `SubgraphAuction`: every `await` is a step |
| `DeploymentTasks`, `Deployment` | `nouns-contracts/tasks` | the tasks as lists of steps; the run of a list against a chain |
| `ImageEncoding` | `nouns-assets` scripts, `nouns-sdk/src/image` | run lengths, bounds, palettes, files, drawing |
| `NounsTokenHistory` | `NounsToken` with the supply of past blocks (`supplyAt`) and the signatures that were used (`accepted`) | what the governor relies on it for; the mapping to `VoteLedger` |
| `NounsAuctionHouseHistory` | `NounsAuctionHouse` with the sales made (`sales`) and what other minters burned (`burned`) | what each bidder and the treasury end up with |
| `NounsDAOLogicV2History` | `NounsDAOLogicV2` with the time and delay each proposal was queued at (`queuedAt`) | notice, though delays change |
| `MCNounsToken`, `MCERC721Enumerable`, `MCNounsAuctionHouse`, `MCNounsDAOLogicV2`, `MCOffchain` | instances for TLC | `MCOffchain` runs one program around the contracts per behaviour |
| `InductionTheorems`, `NounsTokenTheorems`, `NounsAuctionHouseTheorems`, `DynamicQuorumTheorems`, `NounsDAOLogicV2Theorems`, `WebappGovernanceTheorems`, `OffchainTheorems`, `DeploymentTheorems` | proofs | each extends what the ones before it prove, where it needs that |

### Correspondence with the code

*Transactions.* One action is one transaction. A `require` that fails, or any
other revert, makes the action not enabled: a reverted transaction changes
nothing. Two places are finer. In the auction house a mint that reverts with a
reason is caught (`try`/`catch Error`) and the house pauses itself, while a panic
in the seeder is not caught and reverts everything. In the governor `execute` is
split into `BeginExecute`, `ContinueExecute` and `EndExecute`, because between two
actions of a proposal the called contract is in control: `Callable` says when it
is, `calls` is the stack of executions, and a nested execution is another entry.
An execution that fails half way is reverted as a whole and is the same as one
that has not begun. (In the model such an execution stays open; nothing but the
end of a block waits for it, and the properties hold in the states before the
revert too, which is more than the contracts promise.)

*Programs.* Outside the contracts an action is what runs between two `await`s,
callbacks or renders: a handler of the subgraph, the answer of one query, a
reducer, one call of a bot. A call that may fail is a disjunct of its own; data
read before it and used after it is kept in the state of whoever read it (a
tick, a query's answer, a lookup). A task of the deployment is a list of steps
and each transaction one action.

*Time.* `block.number` and `block.timestamp` only grow. In the token and the
governor the block number stands for both, since timestamps are compared with
timestamps only; the auction house uses timestamps alone. In the programs
around them a block is one unit of time.

*Numbers.* Votes and balances are natural numbers. The one arithmetic check the
small instances reach is the underflow of `sub96`, which is modelled. Basis
points, the coefficient's fixed point, the size of a palette and of a run are
constants, so that instances can scale them down. Integer division is kept where
the code divides.

*Bounds.* `MaxNouns`, `MaxBlock`, `MaxTime`, `LastIds`, `MaxProposals`, `MaxDepth`
and `LastChange` bound counters in the guards; `Delegators`, `Approvers`,
`Ballots` and `Vetoers` bound who does what. A mint past the last id is not
enabled. The modules around the contracts name theirs the same way
(`MaxTransactions`, `LastBlock`, `MaxBallots`, `MaxClock`, `MaxRuns`,
`MaxForeign`, `LastLogBlock`, `MaxNounMoves`, `MaxLookups`, `MaxPictures`).

*Environment.* The house's owner, the token's owner, replaced minters (who may burn
any noun, also the one on auction), the seeder, and holders who give nouns away (also
to the house) act at any moment.
Delegation signatures are produced off chain: the constant `Signatures` says
which exist. OpenSea's proxy registry is the constant `Proxies`. The Graph
delivers events in order and once; one websocket delivers logs in chain order;
HTTP answers come in any order or not at all.

## What is checked

| Run | Instance | Shows |
|---|---|---|
| `token_votes` | 3 accounts, 3 nouns, 1 block, with the enumeration's lists | votes match delegations, bookkeeping never reverts, no stale approvals, fresh ids to the right holder, lists that enumerate exactly the nouns there are |
| `token_history` | 2 accounts, 2 nouns, 4 blocks, 2 signatures for one nonce | the binary search against its definition, past votes add up to the past supply, a signature counts once and before its expiry, immutable history, `NounsToken` implements `VoteLedger` |
| `token_zero_signature` | 2 accounts, 2 nouns, a signature for address(0) | finding 1 |
| `auction_safety` | 2 bidders (one may refuse ETH), 3 ids, 4 seconds, a reward | solvency, fair payment, no noun sold twice, custody, an unpaused house has an auction, auctions only advance, time to answer |
| `auction_liveness` | 2 bidders (one may refuse ETH), 5 ids, 4 seconds | won nouns are delivered; expired auctions are settled while the house is the minter; both unless another minter burned the noun |
| `auction_minter_replaced` | as above, the minter is replaced | finding 2 |
| `governor_voting` | 2 voters whose votes swing, 2 proposals, 4 blocks | tallies are those of the snapshot, one live proposal per proposer |
| `governor_timelock` | 2 proposals sharing an action, 7 blocks, nested executions | timelock and proposals agree, `state()` implements `ProposalLifecycle` |
| `governor_settings` | 2 proposals out of 4 that change settings, one of them the timelock delay (from 2 to 1), 7 blocks | consistent quorum parameters that rounding does not leave, frozen terms, the delay in force at queueing lies before an execution |
| `governor_queued_twice` | 2 identical proposals, 4 blocks | finding 3 |
| `subgraph_delegates` | 3 accounts, the index alone | finding 4 |
| `offchain` | twelve programs, each in behaviours of its own | the table below |

### The run of the programs around the contracts

`MCOffchain` chooses a program first; the others keep still, so that one run
checks all of them, and each of its invariants speaks of one program. All of them
together have 2.1 million states.

| Program | Instance | Invariants |
|---|---|---|
| token index | 3 accounts, 3 nouns, 5 transactions: mints, burns, transfers (also to oneself), delegations, also by signature and to address(0) | `HoldingsFollowTheChain` |
| proposal page | 1 proposal of the account of the page, from creation to expiry, 2 voters (one the index has nothing of), 2 sets of quorum parameters, 7 blocks | `PageShowsContractState`, `OfferedActionIsAccepted` |
| shared actions | the page of 2 proposals that share an action, 6 blocks | the same |
| vote dialog | 3 votes, dismissed and reopened at will, of a wallet or a contract signer | `ModalReportsTheBallots` |
| auction bot | 2 auctions, 2 bids in any hashes, also two in a transaction; ticks, setup, failing calls, restarts | `NoDoubleAnnouncement` |
| governance bot | 1 proposal through its statuses, 2 overlapping ticks, expiry, restarts | `CachedWasAnnounced` |
| auction page | 2 auctions, 2 transactions with bids, late blocks, the form | `PageFollowsAuction` |
| log reader | 2 readers, 5 blocks, ranges of 3 blocks, answers late or lost | `LogsFollowTheChain` |
| activity feed | 6 blocks, a noun that is auctioned, moved and delegated, 1 proposal; nounder nouns too | `FeedTellsTheNounsStory` |
| deployment | the ten tasks on four kinds of networks, 2 runs, 1 transaction of the deployer in between or pending | `HandedOverIsWired`, `FailsOnlyWhenDisturbed`, `AuctionHandedOverRuns` |
| delegation panel | 2 lookups, 2 delegations, an address and a name | `DelegationGoesWhereEntered` |
| artwork | 18 pictures of 3 by 2 pixels, files of two folders, two palettes | `ArtDrawsItsPictures` |

What these invariants except is stated in their comments, and the exceptions are
behaviours of the code worth knowing; see [Observations](#observations).

### Why the bounds are enough

A vote's bookkeeping involves at most two delegates and one noun at a time; three
accounts give a transfer between two delegates with a bystander, and three nouns
the reward pair and one more. The search of `getPriorVotes` leaves both early
returns and takes both branches with three checkpoints, which four blocks give,
and queries before, between and after them. A holder of up to three nouns loses
the first, the middle one, the last and the only one from lists already out of
order; `EnumerationStaysExact` covers more. Three ids in the auction house are a
reward with its auction and a second auction, so everything that leaks from one
auction to the next (a refund, a payout, an extension, a record not reset) has a
next one to reach; a replaced minter may mint the last of them for itself, or burn
the noun on auction, in the middle of the first auction; the first two auctions last a second each, so four
seconds see both end, extended or not; budget 2 lets a bidder be outbid by each
increment. In the liveness instance the last two ids are kept for the house
(`LastIds`), or a replaced minter could use up the ids the next auction needs. Two
proposals are what it takes to share a flag, to conflict over a setting and to
count as one proposer's; seven blocks let both be proposed, voted on, queued at
the same or at different etas, executed, and expire (delay and periods are one
block each); a nested execution needs depth two. For the notice a delay of two blocks
must be shortened while another proposal waits, which seven blocks leave room for. Two
signatures are rivals for one nonce, with expiries that pass within four blocks. In the voting run votes swing
until block 2, before, in and after the blocks of creation. Basis points are
tenths and supplies three nouns: against votes of none, one and two give the
minimum, a quorum that is rounded and the maximum.

Around the contracts, five transactions let an account receive a noun, delegate,
lose it and receive it again; a page shows one proposal, and others matter to it only
by the flags they share, for which there is a program with two, without changes of the
parameters and vetoes (`SharedActionsNext`); three votes are one more than can be under way after a dismissal;
two ticks are what it takes to overlap; two auctions with a bid that arrives late
are what it takes to confuse the store, and an auction starts with the lowest bid,
or no second one fits (`StartsLow`); the bots make of a veto what they make of a
cancellation (`NoVeto`); three log ranges, of which two share a
block, and two answers of a range are what it takes to overtake; two runs of
tasks and one foreign transaction shift every address of a deployment, and so does one
that is still pending when the second task reads its nonce (`SecondTask`: the second is given the
flags of the first and is disturbed by what that left behind alone, since the first stands
for what comes in between); two pictures and one merge
are what it takes to bring a page to another palette; runs of
pixels are cut at 3 (a byte's 255, as `Hex` scales it), so that pictures of six
pixels have runs below, at and above the limit.

The configurations of the governor and of the programs around the contracts switch
deadlock checking off: at the last block all proposals may be closed, a deployment is
finished, a dialog has no votes left, and nothing is left to do, which is the bound
and not the program.

### Fairness

Only the liveness runs assume any: weak fairness of `Settle`, that is, of
`settleAuction` and `settleCurrentAndCreateNewAuction`. Both are permissionless
and cost only gas, and the winner has an interest in the noun. Nothing is assumed
of bidders, of the owner, of the environment or of time; the properties therefore
speak of auctions that have expired. An auction whose noun another minter burned is
excepted: nobody can settle it, and the standing bid stays in the house. `Due` also requires that the instance has an
id left for the auction that settling starts. The programs around the contracts
promise nothing that must happen: a page may be closed, a bot may stay down.

## Findings

1. `delegateBySig` passes address(0) on to `_delegate` where `delegate` replaces it
   by the sender. The account then counts as its own delegate
   (`ERC721Checkpointable.sol:84-86`) while its votes went to nobody.
2. When the minter is replaced during an auction without bids, `burn` reverts in
   settling, so the house neither settles nor reaches the `catch` that is meant to
   remedy it (`NounsAuctionHouse.sol:220-222`).
3. `cancel` accepts a proposal that is already canceled and clears its timelock
   flags again; an identical proposal queued at the same eta since then stays
   `Queued` but cannot execute.
4. The subgraph makes an account its own delegate with its first noun and forgets
   its delegate with its last, while on chain a delegation outlives the balance:
   the nouns listed as represented by a delegate (`schema.graphql:177`) are then not
   those it votes with.

Each of these is a run that TLC ends with the counterexample. Three more disagreements came
out while modelling; the modules do what the code does there, and the properties except
exactly these cases:

* `nijinouns-populate-descriptor` uploads pages of images, but the seeder counts what
  was uploaded as identifiers (`NounsArt.sol:941`): every mint panics, and
  `nijinouns-deploy-and-configure --start-auction`, which promises to "Start the first
  auction upon deployment completion", fails at the unpausing
  (`FailsOnlyWhenDisturbed`).
* `append-image-data.ts` compares no palettes and a page carries none: merged into a
  file that was encoded anew, or for another of the palettes, its images are drawn in
  other colours (`ArtDrawsItsPictures` speaks of the palette an image was encoded for).
* The activity feed takes every tenth noun for a reward (`nounActivity.ts:284`), while
  the contract stops at 1820: of an auctioned noun 1830 the feed names the auction house
  as the winner (`FeedTellsTheNounsStory`).

## What is proved

All proofs are checked by TLAPS to the last leaf. They assume only the `ASSUME`s
of the modules (which TLC evaluates in every run), and where stated one more.

*Induction over data* (`InductionTheorems`). The library's induction theorems take
an operator as a parameter, which no prover here can instantiate. They are replaced by
induction on sets: `MinimalSet` (strict inclusion is well founded on finite sets)
gives `LeastNatural` and from it `CompleteInduction` over a set of natural numbers and
`SubsetInduction` over the subsets of a finite set. Two results rest on them.
`SearchFindsLast`: over increasing checkpoints of any length the binary search ends
at the last one at or before the block asked for, by complete induction on the
length of the range (`CenterBetween` is why rounding the middle up makes each range
shorter). Sums: the community modules' sum over a finite set is defined by choosing
elements; `SummingExists` and `SummingUnique` show that the order does not matter,
and `SumRemove`, `SumAdd`, `SumReplace`, `SumMonotone` and `SumOfFibres` are what the proofs about
tallies, supplies and proceeds cite. `Quotient` and `ProductMonotone` are the rounding
facts every quotient in the quorum, its curve and the bids goes by. `IterationExists`
is why a recursion along a list ends: some function takes every turn
(`FlatteningExists`, of joining lists).

*Checkpoints* (`NounsTokenTheorems`, first part). `WriteCheckpointShape` says what a write
returns; from it follow the votes after a write, that a write keeps checkpoints
ordered, and that it leaves `VotesAtBlock` of every earlier block alone. The same is
lifted to `MoveDelegates`. `PriorVotesFindsLast` adds the early returns of
`getPriorVotes` to the search.

*Token* (`NounsTokenTheorems`).
`TypeCorrect` is inductive by itself. `StepKeepsHistory` gathers what any
transaction does to checkpoints; `CheckpointsStayOrdered` and
`HistoryStaysImmutable` follow from it, the second using the first: a write can
disturb only a block that is not over because the last checkpoint is never in the
future. `PriorVotesAreHistory` is then the search on ordered checkpoints.
`VotesAlwaysMatch` strengthens the invariant by `UnmintedUnowned` (ids
from `_currentNounId` on have no owner), without which a mint could overwrite an
owned noun and lose its vote. Its two lemmas are `OneNounMoves` (transfers, mints
and burns) and `Redelegation`, each a cardinality argument over the nouns an
account represents. It assumes `SignaturesNameADelegate`: by finding 1 it is false
otherwise. Under it `BookkeepingNeverBlocks` is a consequence;
`TokenImplementsLedger` is the refinement of `VoteLedger`, step by step (a block's
end turns current votes into past ones, by `BlockBecomesPast`; every other
transaction leaves the past alone); and `PastVotesAlwaysAddUp` sums the votes over
the accounts: every noun votes for one account (`SumOfFibres`), so their sum is the
supply while the block lasts, and afterwards neither changes.
`ApprovalsDieWithOwnership` is about steps and needs of the states only what
`UnmintedUnowned` and the types say: every transaction that changes an owner, the mint
included, leaves no approval. `SignaturesAlwaysCountOnce` rests on the invariant that a
signature that was used is for a nonce below its signatory's current one. `IdsGoOnceToTheRightHolder` assumes
`RewardStep > 1` (10 in the code): if every id were a reward, the auctioned one
would be too.

*Enumeration* (`NounsTokenTheorems`, third part). The invariant `AllListed` says of each
list that list and index are inverse to each other on the set it stands for, that
its length is the set's cardinality, and that everything else is cleared;
`EnumerationIsExact` alone is not inductive, since it does not say where the last
entry's index points. `InsertKeepsLists`, `RemoveKeepsLists`, `PushKeepsArray` and
`PopKeepsArray` are the data structure by itself; `AddToOwnerLists` and its three
siblings lift them to the owners' sets; the proof of a transaction chains them in
the order of the hook, with a state between removal and insertion in which nobody
owns the noun. A reward chains two mints, the second at the balance the first left.
`UnmintedUnowned` is needed again: a mint lists a noun that must not be listed yet.
`EnumerationIsAToken` is the simulation that carries the token's theorems over.

*Token index* (`NounsTokenTheorems`, last part). One transaction of the token emits up to
eight events and the index handles them one by one, so what the index shows need not be what
the token has or ever had. `LeadTo` says of a sequence of events that it leads, one event
after the other, from what the index shows to what the token has; each event must fit what
was told before it (a transfer comes from the owner told, a change of votes starts at the
votes told). `TransactionTold` proves that the contracts emit such sequences, the two mints
of a reward included; it needs `UnmintedUnowned` and that the token has an owner
(`SubgraphTokenAssumption`), whom a mint names first. A handler takes the first event away
and does what it says (`HandlesCreated` to `HandlesTransfer`), so that nothing else about
the token is needed there. Counts are not told by events but kept by the handlers:
`HoldingsAddUp` and `VotesAddUp` say that they agree with the index's own entities at every
moment, also between two events of a transaction. An account that sent a noun to itself is
excepted: of the two copies of its entity the one that only gained a noun is saved last.
With nothing left to handle, `HoldingsAlwaysFollow` puts both together. It assumes
nothing of signatures: one that names address(0) gives the index a delegate nobody is,
and takes the votes from its total, which is then the sum of the votes and no longer the
supply.

*Auction house* (`NounsAuctionHouseTheorems`). The inductive invariant `HouseInv`
is types, solvency, custody and `AuctionInv`: a record that is over takes no bids,
a standing amount has a bidder, and the noun on auction was minted before the next
id; custody says which nouns another minter burned. Types alone are not inductive, because a payout subtracts from the house's
balance: only solvency shows that it is covered. `HouseTypeCorrect`,
`AlwaysSolvent`, `CustodyKept` and `UnpausedAlwaysHasAuction` follow.
`StepsOfTheHouse` sorts the transactions by what they do to the auction (it stays, is
bid on, begins, ends). `AuctionAlwaysAdvances` and `OutbidCanAnswer` follow with
`BidOnMinted`: an auction in progress is of an id that was handed out, so that a new
one is never mistaken for it. With the sales recorded, `SalesInv` says that what was
sold was minted before, is not on auction and was sold once; `SoldOnceOnly` adds
`NoRewardSold` and assumes `RewardStep > 1`. `NobodyPaysForMore` is inductive on top
of them, but only as the two sums it is: a bid moves money between two bidders and
the house and leaves both sums alone (`BidMovesMoney`), an end adds one sale to both
sides (`EndMovesMoney`), whether or not payees accept ETH.

*Dynamic quorum* (`DynamicQuorumTheorems`). `QuotientMonotone` says that rounding
down keeps the order; with it `QuorumWithinBounds` and
`QuorumGrowsWithVotesAgainst` follow through all three divisions. `ParamsOfLast` is
the search on the parameters' checkpoints, `WriteParamsKeepsPast` that a write
changes them for its own block and later ones only.

*Governor* (`NounsDAOLogicV2Theorems`). `BurnedVetoPowerIsGone` follows from the
invariant that without a vetoer nobody is pending. Everything else rests on
`StepMoves`: whatever runs, also when called from inside an execution, one of a few
things happens to the proposals: one is added, or one is rewritten by a vote, by
getting its eta, by an execution, a cancel or a veto, each with what its guard knew
(`Edits`). `EditsEvolve` is what all of these leave alone. `CoreInv` is types,
`SettingsInv` (bounds and order of the settings and of the quorum's checkpoints, the
last of which is never in the future) and `SoundInv`: a proposal's blocks are in
order, nobody voted before the start, an eta was set after the end, an execution came
after the eta. `GovernorTypeCorrect` and `QuorumStaysConsistent` follow at once;
`NoticeIsGiven` with `NoticeInv`, which ties the eta to what was recorded when the
proposal was queued; `TermsStayFrozen` since
the parameters in force at a finished block never change;
`OneLiveProposalEach` with `LatestInv`: only the latest proposal of a proposer may
be live, which holds as blocks only pass. `TalliesAreSnapshots` keeps `TalliesInv`: each
of the three tallies is the sum of its receipts, which is where the sums are needed.
`StateFollowsLifecycle` is the refinement of `ProposalLifecycle`: a setter can change
the outcome of a vote only before the vote has begun, since parameters of finished
blocks are fixed. For `QueueAlwaysMatches` the property itself is taken apart into
what each proposal is owed, the timelock's flags and what cancels and vetoes revoked
(`Matching`, with `MatchingIsQueueMatches`), and `StackInv` says of the nested
executions that each is of another, executed proposal and how far it got.

*Web page and artwork* (`OffchainTheorems`, after the bots; the dialog, the panel and the
logs after the proposal page in `WebappGovernanceTheorems`).
`ModalAlwaysReportsTheBallots` needs, besides types, that a vote that counts was
noticed by the governor: the second of two votes can then not count.
`DelegationsGoWhereEntered` needs `PanelInv`: what stands in the panel is the text or
what it resolves to, unless an earlier lookup was answered last (`AddressFollowsText`),
and of a delegation that is the only one the address in the panel is not yet the
delegate's until it is mined (`OnlyDelegation`), which is why the account's votes are
counted once. `PageAlwaysFollowsAuction` compares the house and the page not with each
other but each with the events of the house: all of them tell what the house is at, the
first `received` of them what the page shows (`Tells`), so that a step of the house leaves
the page's half alone and a message the house's. This needs that auctions take turns in
the events (`InTurn`): a creation begins an auction, nothing follows its settlement, so
that what the page takes from a message is never of an auction it has left. Bids are
apart, since their blocks arrive in any order: whatever is in the store, the page stands
at the highest of it, or at what the settlement said (`StandsAt`, `SoldAs`); every bid
received is in the store or being fetched, unless another of its transaction is there.
The bid that is filled in is a matter of rounding: the page's minimum, rounded up to a
cent, is at least the contract's (`FilledInIsAccepted`).

`LogsAlwaysFollow`, of the logs read without the subgraph, has two halves. What one answer
holds: the ranges asked for reach from 0 to the block and two neighbours share one
(`RangesMeet`, by rounding); since proposals are numbered in the order of their blocks, the
logs of a range are a run of consecutive proposals (`LogsOfRun`, `CountExists`), and runs
that overlap flatten to all proposals up to the last end, each once if nothing was created
in a shared block (`FlattenedRuns`, `LogsOfAllRanges`). What the store holds (`LogsInv`):
no block is known, asked for or answered before the chain has it, so an answer that was
true stays true while the chain grows (`BlocksAreFinal`); and what is marked as being
fetched is on its way, or it or something newer is stored (`FetchingIsUnderWay`), which is
why logs that are behind are being caught up with although answers overtake each other.
It assumes only that a range has at least one block (`WebappLogsAssumption`).

`FeedAlwaysTellsTheStory`, of the activity feed, assumes nothing. That the sort lists every
entry once and in order is counting: the entries before each are of another number
(`EachHasAPlace`), so the places are a bijection (`SortedByBlock`), and entries older than
all others are the first (`OlderFirst`). That the four (or two) dropped entries are those
of the birth and the win is the invariant `FeedInv`: while the noun is on auction its mint
is all that is logged; afterwards its second transaction is the settlement, everything
else is logged in no earlier block, the next auction begins no earlier either, and a
proposal is dated later than it was created (`WinIsLogged`, `VotesAreDated`). All of it is
for ids the page and the token agree on; [Findings](#findings) says what happens to the others. TLC checked
`FeedInv` on the feed's instance, where the house may also be sent the noun.

`ArtAlwaysDrawsItsPictures`, of the artwork, first shows that `decodeImage` reads what
`toRLE` wrote. Runs of equal indexes that a byte can tell the
length of expand to the indexes they were made from (`EncodedRuns`), four digits are one
run in both directions (`FlattenedBlocks`, `DecodesWhatWasEncoded`), and the bounds hold
every pixel that is not clear (`BoundsHoldThePicture`). Drawing is an induction over runs
and, within a run, over lines: `DrawRun`'s pen stands at the place in the raster of the
next pixel (`RasterAtPlace`), and what is drawn so far shows exactly the pixels before it
(`RectDrawn`, `RunDrawn`, `SVGDraws`). The files are the second half: a palette is only ever
prolonged, so an image that is encoded early must be drawn rightly by any later palette.
That is what `ArtworkInv` keeps of every image of the encoder (`DrawnUnder`), and of every
image of the published file and of the page for the palette it was encoded for, which the
model keeps beside it: a page is written only when its script found its palette unchanged.
Merging brings images to another file and leaves that palette theirs, whatever the file's
is; that the two agree is not so and not claimed. It assumes
`ImageAssumption`: the sizes of a picture fit a byte, no pixel has the empty colour, which
stands for transparency, and the palettes given to scripts begin with that.

*Governor index and proposal page* (`WebappGovernanceTheorems`). The index lags: between
a transaction and the handling of its event the two sides differ by design.
`IndexInv` therefore compares each proposal with its entity as it will be once the
event under way is handled (`EntityDue`), so that a transaction is one step on both
sides (`CancelMirrors` to `VoteMirrors`) and a handler changes neither
(`HandlesVote`, `HandlesWhatIsDue`). Types and the order of a proposal's life come with
it, since a proposal canceled or queued before it was created would mirror nothing.
`IndexFollowsTheGovernor` is that invariant. `PageAlwaysShowsContractState` then
compares two functions of equal data, the page's status and the contract's
(`EntityShowsState`), and two ways of rounding: `CurveRounds` shows that the curve, which
rounds once, exceeds `dynamicQuorumVotes`, which rounds thrice, by one vote at most and
one more for every `Bps` of the supply. That is of the votes; the nouns the page counts
are those only if the index has the voters represent what they voted with
(`VotesAsIndexed`), which by finding 4 it may not. `OfferedActionAlwaysAccepted` adds the
passing of one block (`ShownState`) and the flags (`TimelockInv`): no flag has an eta beyond the
current block and the delay, so that nothing queued in the next block finds its flag set;
and the flags of a queued proposal are set unless one with the same action and eta was
canceled or vetoed (`Recalled`).

*Bots* (`OffchainTheorems`, first part). `CachedStatusesWentOut` needs `AnnouncedBeforeCached`: a
review that is past its announcements, at whatever `await` it stands, has made them or
found the status in the cache. `NothingIsAnnouncedTwice` rests on three invariants. Of
the house (`HouseInv`): ids and starts of auctions grow, an auction's bids are in blocks
after those of earlier auctions, a transaction bids in one block. Of the index
(`IndexInv`): it has what the handled events say, and `HandlersKeepIndex` that no bid in
it moves to another block. So the bid the query answers is last among all bids, though
the query sorts those of one auction only (`LastIsLast`). Of the bot (`AuctionBotInv`,
while nothing overlaps): nothing beyond the caches was announced, what a tick read of
them is still so, and what it is about to announce is written to the cache and was not
announced; an index that grows between two `await`s disturbs none of it
(`GrowthKeepsBot`).

*Deployment* (`DeploymentTheorems`). The contracts and steps of all ten tasks are data,
so the proof first establishes what the lists have in common, once for the thirteen
contracts of a full deployment (`ContractsListed`) and once for what follows the uploads
(`TailShape`): names are distinct, arguments refer to contracts earlier in the list or to
offsets that are counted right (`IsList`, `Layout`), every part is uploaded, and counted
if the task uploads what is counted, before an unpause, and a house is handed over after one (`IsConfiguration`). Then, of a run, what was
sent is on the chain in the order of the list with its arguments as computed (`SentTo`).
Two addresses suffice to make it one system: if the house and the governor are where the
task announced them, so is the art between them, since whatever came in between would have
shifted the house too (`SystemSent`). A task in use validates those two; on the local chain,
whose task validates nothing, nobody else sends (`RunInv`). The inductive invariant
`DeploymentInv` adds what a step leaves behind (`StepsInv`), that a deployer owns what it
has not handed over (`HeldInv`), and of every earlier run that what an executor owns is
wired and stays so, and that its house's art is counted (`HandedInv`, `HousesRun`): later
runs only add to the chain. `ConfirmedInv` says that no more was seen mined than was sent,
so that a nonce which misses what is pending is too low, never too high: addresses
computed from it are moved and found out, as by a transaction in between. `HandedOverIsAlwaysWired`, `FailsOnlyEverWhenDisturbed` and
`AuctionHandedOverAlwaysRuns` follow, from `DeploymentAssumption` alone: the tasks are
those registered and their flags are booleans. TLC checked `DeploymentInv` on the
instance of the tasks before it was proved.

Only model-checked: liveness under fairness, which is beyond the prover, as is `ENABLED`.
Every invariant and every action property of the passing runs is stated by a theorem.
Proved without a run of their own, since the theorems say more: the types of the token, of
the enumeration, of the house and of the governor, the order of checkpoints, and `VetoPowerStaysBurned`.

## Observations

Met while modelling; where a property depends on one, its comment says so.

*Token index.* A transfer to oneself counts the noun twice; delegating again to the
same delegate lists its nouns twice; `governance.totalDelegates` loses an update when
both delegates of a change appear or vanish; after a burn address(0) counts as a
holder; `proposalsQueued` does not fall when a queued proposal is canceled or vetoed.

*Governance pages.* A proposal that lists an action twice can never be queued, yet the
page offers it; so it does with one whose flag a canceled proposal cleared. The bars of the
votes and the curve count nouns the index lists with the voters. If the quorum parameters
change in the block of a creation, after it, the governor goes by the change and the index
does not. Canceled and vetoed proposals still offer to vote. The quorum's curve uses the parameters of the start block and rounds
once. Queries ask for The Graph's first 100 entries and are not polled.

*Dialog to vote.* After a refused gas estimate the spinner stays; a success and a
failure may show together after a dismissal.

*Log reader.* Consecutive ranges share their boundary block, so a log in it is
listed twice and shifts the descriptions of later proposals. Filter keys drop
`fromBlock`: "Start the log search at the mainnet deployment block to speed up log
queries" (`nounsDao.ts:140`) has no effect. An error is retried at the next block only.

*Activity feed.* A page loaded before the next auction, proposals of a noun without
any, a noun that moves in the block it was won, and two moves in one transaction
each confuse the fixed number of entries that are dropped.

*Delegation panel.* A slow lookup of an earlier name overwrites a newer input;
"already delegated" only styles the button; a deep-linked panel shows a spinner and
no input after "Change".

*Auction house.* A minter other than the house can burn the noun on auction: that
auction can then never be settled, also not by making the house the minter again, and
its standing bid cannot be paid out.

*Auction page.* Bids between the query and the subscription are lost, as is a bid
whose block cannot be fetched and the second of two bids in a transaction. Past
auctions are queried once. The form ignores the reserve price. Of two equal bids, which
the house takes only below `100 / Increment` wei, the page may name either bidder.

*Bots.* Overlapping ticks, or a setup slower than the first tick, announce twice and
may move the cache back; a refused webhook repeats the message on the other; of two
bids between two ticks one is never announced; after a restart statuses are taken
over without being announced.

*Deployment.* `yarn task:deploy-and-configure` runs `nigi-deploy-and-configure`
(`package.json:23`), which transfers no ownership and ignores `startAuction`;
`nouns-contracts/README.md:90` says the task "transfers contract ownership". `deploy*.ts` store the answer of their prompt as `confirm` and test
`result.operation`. `populate-descriptor` passes the data of back decorations to
`addBackgroundDecorationIdentifiers`. Two WETH addresses of `niginouns-deploy` end in
a full stop. `niginouns-deploy-descriptor-v2` runs a task nobody registers. The tasks
`cnnouns-*` are not exported by `tasks/index.ts`. `mint-nigi-noun` makes the deployer
minter, after which starting the auction leaves the house paused.

*Art and seeds.* Images are kept by file name alone: of two files of one name in
different folders one is lost. A palette of more than 256 colours (that of the
repository has 641) does not fit into a byte. `getRandomNounSeed` swaps the lengths of
`back` and `ear`; `getNounSeedFromBlockHash` shifts beyond the hash and throws, as the
traits from `choker` on are always 0 in `NounsSeeder`, which shifts a 256-bit value by
288 bits and more.

## What is not modelled, and why

* Token: descriptor and seeder setters, metadata, seeds. No part of ownership or
  votes depends on them.
* Auction house: the two-step ownership of OpenZeppelin; the owner is the treasury.
  The rounding of `ABDKMathQuad` in `_calcDuration` (`AuctionDuration` is the exact
  floor): quadruple-precision logarithms are out of TLC's reach.
* Governor: gas refunds, `_withdraw`, the admin handover,
  `_setDynamicQuorumParams` after initialization. Timelock: the handover of its
  admin.
* `NounsDAOLogicV1`, and the choice of traits in `NounsSeeder`: see the plan.
* Proxies, descriptors and renderers: data conversion without a protocol.
* Subgraph: seeds and `totalTokensHeld`, which nothing reads.
* Web page: rendering, wording, the wallet connection, countdowns, the form that
  composes a proposal, the playground and the static pages.
* Bots: counters, the text of messages, the announcement of single votes.
* Tasks: `deploy-v2-logic`, `deploy-test-token`, those that create proposals, and
  verification on Etherscan.
* SDK: the clients of the DAO and of the auction; reading PNG files. `nouns-api`: one
  request, one answer.

## Plan

The order follows how much depends on a component: votes first, then the money,
then the governor that counts the votes, then the programs around them. These are
done; what is left:

1. the timelock as a module of its own, with the handover of its admin and the
   governor as its client; the governor's remaining admin operations;
2. `NounsDAOLogicV1` and the upgrade to V2, where the creation block of old
   proposals is recomputed from the current voting delay;
3. `NounsSeeder`, with shifts beyond the width of the hash;
4. a composition of token, house, governor and timelock, where a proposal replaces
   the minter or pauses the house.
