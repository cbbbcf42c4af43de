-------------------------- MODULE NounsAuctionHouse --------------------------
(***************************************************************************)
(* NounsAuctionHouse.sol with the part of NounsToken it works on (who      *)
(* holds which noun, who may mint) and the ETH and WETH it moves.  Every   *)
(* external function of the house is nonReentrant or owner-only, so one    *)
(* action is one transaction; a transaction that reverts is not enabled.   *)
(* A payee that is a contract may refuse ETH (or need more than the 30000  *)
(* gas it gets) on any call: the house then pays it in WETH.               *)
(***************************************************************************)
EXTENDS Integers, FiniteSets

CONSTANTS
  Bidders, House, Treasury,  \* Treasury is owner(), the executor
  Nounders, OtherMinter,     \* who a mint rewards; an address that is not the house
  Zero,                      \* address(0)
  Contracts,                 \* the accounts that may refuse ETH
  calcDuration(_),           \* _calcDuration, see AuctionDuration
  RewardStep, LastReward,    \* NounsToken: ids 0, RewardStep, .. LastReward
  Minters,                   \* what setMinter may be given
  SeederMayFail,             \* whether generateSeed may panic
  TimeBuffers, ReservePrices, Percentages, \* what the owner may set
  InitTimeBuffer, InitReservePrice, InitPercentage,
  Budget,                    \* ETH each bidder starts with
  MaxNouns, MaxTime,         \* bounds on ids and on block.timestamp
  LastIds                    \* bound: the last ids, which only the house mints

Accounts == Bidders \cup {House, Treasury, Nounders, OtherMinter}
Addresses == Accounts \cup {Zero}
Ids == 0 .. MaxNouns - 1

Auction == [nounId : Nat, amount : Nat, startTime : Nat, endTime : Nat,
            bidder : Bidders \cup {Zero}, settled : BOOLEAN]

ASSUME AuctionAssumption ==
  /\ IsFiniteSet(Bidders) /\ Zero \notin Accounts
  /\ {House, Treasury, Nounders, OtherMinter} \cap Bidders = {}
  /\ House \notin {Treasury, Nounders, OtherMinter}
  /\ Contracts \subseteq Accounts /\ Minters \subseteq Accounts
  /\ RewardStep \in Nat \ {0} /\ LastReward \in Nat
  /\ TimeBuffers \subseteq Nat /\ ReservePrices \subseteq Nat /\ Percentages \subseteq Nat
  /\ InitTimeBuffer \in Nat /\ InitReservePrice \in Nat /\ InitPercentage \in Nat
  /\ Budget \in Nat /\ MaxNouns \in Nat /\ LastIds \in Nat /\ MaxTime \in Nat \ {0}
  /\ SeederMayFail \in BOOLEAN
  /\ \A t \in 1 .. MaxTime : calcDuration(t) \in Nat

VARIABLES
  auction, paused,
  timeBuffer, reservePrice, minBidIncrementPercentage,
  eth, weth,              \* balances
  nounOwner, nextNounId,  \* NounsToken: _owners and _currentNounId
  minter, seederFails,    \* NounsToken: minter; whether generateSeed panics now
  now                     \* block.timestamp

params == <<timeBuffer, reservePrice, minBidIncrementPercentage>>
money == <<eth, weth>>
nouns == <<nounOwner, nextNounId>>
tokenAdmin == <<minter, seederFails>>
vars == <<auction, paused, timeBuffer, reservePrice, minBidIncrementPercentage,
          eth, weth, nounOwner, nextNounId, minter, seederFails, now>>

TypeOK ==
  /\ auction \in Auction /\ paused \in BOOLEAN
  /\ timeBuffer \in Nat /\ reservePrice \in Nat /\ minBidIncrementPercentage \in Nat
  /\ eth \in [Accounts -> Nat] /\ weth \in [Accounts -> Nat]
  /\ nounOwner \in [Ids -> Addresses] /\ nextNounId \in Nat
  /\ minter \in Accounts /\ seederFails \in BOOLEAN
  /\ now \in 1 .. MaxTime

\* initialize: paused, with an auction record that is all zeros.
Init ==
  /\ auction = [nounId |-> 0, amount |-> 0, startTime |-> 0, endTime |-> 0,
                bidder |-> Zero, settled |-> FALSE]
  /\ paused = TRUE
  /\ timeBuffer = InitTimeBuffer /\ reservePrice = InitReservePrice
  /\ minBidIncrementPercentage = InitPercentage
  /\ eth = [a \in Accounts |-> IF a \in Bidders THEN Budget ELSE 0]
  /\ weth = [a \in Accounts |-> 0]
  /\ nounOwner = [id \in Ids |-> Zero] /\ nextNounId = 0
  /\ minter = House /\ seederFails = FALSE
  /\ now = 1

-----------------------------------------------------------------------------
Moved(balance, from, to, amount) ==
  LET taken == [balance EXCEPT ![from] = @ - amount]
  IN  [taken EXCEPT ![to] = @ + amount]

\* _safeTransferETHWithFallback out of a house whose ETH balances are e.
Pays(e, to, amount) ==
  \/ /\ eth' = Moved(e, House, to, amount)
     /\ weth' = weth
  \/ /\ to \in Contracts
     /\ eth' = [e EXCEPT ![House] = @ - amount]
     /\ weth' = [weth EXCEPT ![to] = @ + amount]

\* Mutant: the amount is read after the auction was written.
RefundsNewBid(received, value) ==
  IF auction.bidder # Zero THEN Pays(received, auction.bidder, value)
                           ELSE eth' = received /\ weth' = weth

\* What an outbid bidder gets back, once the house has received the new bid of
\* `value`: lastBidder and auction.amount are read before the auction is written.
Refunds(received, value) ==
  IF auction.bidder # Zero THEN Pays(received, auction.bidder, auction.amount)
                           ELSE eth' = received /\ weth' = weth

HasBegun == auction.startTime # 0
Live == HasBegun /\ ~auction.settled
Expired == now >= auction.endTime

(***************************************************************************)
(* _createAuction, entered with the given owners, auction record and pause *)
(* flag.  A mint by an address that is not the minter reverts with a       *)
(* reason: it is caught and the house pauses itself.  A panic in the       *)
(* seeder is not caught: neither branch is enabled, all is reverted.       *)
(***************************************************************************)
\* Mutant: the last reward is left out.
RewardDueTooShort == nextNounId < LastReward /\ nextNounId % RewardStep = 0

RewardDue == nextNounId <= LastReward /\ nextNounId % RewardStep = 0
MintedId == IF RewardDue THEN nextNounId + 1 ELSE nextNounId

\* NounsToken.mint, sent by the minter.
TokenMint(owners) ==
  /\ ~seederFails
  /\ MintedId \in Ids
  /\ nounOwner' = [id \in Ids |-> CASE id = MintedId -> minter
                                    [] RewardDue /\ id = nextNounId -> Nounders
                                    [] OTHER -> owners[id]]
  /\ nextNounId' = MintedId + 1

MintSucceeds(owners, flag) ==
  /\ minter = House
  /\ TokenMint(owners)
  /\ auction' = [nounId |-> MintedId, amount |-> 0, startTime |-> now,
                 endTime |-> now + calcDuration(now), bidder |-> Zero, settled |-> FALSE]
  /\ paused' = flag

\* Mutant: the house does not pause itself.
MintRevertsUnpaused(owners, current, flag) ==
  /\ minter # House
  /\ nounOwner' = owners /\ nextNounId' = nextNounId
  /\ auction' = current
  /\ paused' = flag

MintReverts(owners, current, flag) ==
  /\ minter # House
  /\ ~flag  \* _pause is whenNotPaused
  /\ nounOwner' = owners /\ nextNounId' = nextNounId
  /\ auction' = current
  /\ paused' = TRUE

createAuction(owners, current, flag) ==
  MintSucceeds(owners, flag) \/ MintReverts(owners, current, flag)

\* Mutant: only the minter of the day can settle.
CanSettleAsMinter ==
  /\ Live /\ Expired /\ minter = House
  /\ nounOwner[auction.nounId] # Zero

(***************************************************************************)
(* _settleAuction.  The noun goes to the bidder, or is burned (owner Zero) *)
(* when there is none; burn is onlyMinter.                                 *)
(***************************************************************************)
CanSettle ==
  /\ Live /\ Expired
  /\ IF auction.bidder = Zero
       THEN minter = House /\ nounOwner[auction.nounId] # Zero
       ELSE nounOwner[auction.nounId] = House

OwnersAfterSettling == [nounOwner EXCEPT ![auction.nounId] = auction.bidder]
\* Mutant: the auction is not marked.
SettledAuctionUnmarked == auction
SettledAuction == [auction EXCEPT !.settled = TRUE]

PaysTreasury ==
  IF auction.amount > 0 THEN Pays(eth, Treasury, auction.amount) ELSE UNCHANGED money

settleCurrentAndCreateNewAuction ==
  /\ ~paused /\ CanSettle
  /\ PaysTreasury
  /\ createAuction(OwnersAfterSettling, SettledAuction, paused)
  /\ UNCHANGED <<params, tokenAdmin, now>>

\* Mutant: whenNotPaused in place of whenPaused.
settleAuctionNotPaused ==
  /\ ~paused /\ CanSettle
  /\ PaysTreasury
  /\ nounOwner' = OwnersAfterSettling
  /\ auction' = SettledAuction
  /\ UNCHANGED <<paused, params, nextNounId, tokenAdmin, now>>

settleAuction ==
  /\ paused /\ CanSettle
  /\ PaysTreasury
  /\ nounOwner' = OwnersAfterSettling
  /\ auction' = SettledAuction
  /\ UNCHANGED <<paused, params, nextNounId, tokenAdmin, now>>

\* Mutant: every bid sets the end.
EndAlwaysReset == now + timeBuffer
\* Mutant: no bid extends the auction.
EndNeverExtended == auction.endTime

EndAfterBid == IF auction.endTime - now < timeBuffer THEN now + timeBuffer ELSE auction.endTime

\* A bid needs no unpaused house, only an auction that has not expired.
createBid(sender, nounId, value) ==
  /\ value <= eth[sender]
  /\ auction.nounId = nounId /\ now < auction.endTime
  /\ value >= reservePrice
  /\ value >= auction.amount + ((auction.amount * minBidIncrementPercentage) \div 100)
  /\ Refunds(Moved(eth, sender, House, value), value)
  /\ auction' = [auction EXCEPT !.amount = value, !.bidder = sender, !.endTime = EndAfterBid]
  /\ UNCHANGED <<paused, params, nouns, tokenAdmin, now>>

pause ==
  /\ ~paused
  /\ paused' = TRUE
  /\ UNCHANGED <<auction, params, money, nouns, tokenAdmin, now>>

unpause ==
  /\ paused
  /\ IF ~HasBegun \/ auction.settled
       THEN createAuction(nounOwner, auction, FALSE)
       ELSE paused' = FALSE /\ UNCHANGED <<auction, nouns>>
  /\ UNCHANGED <<params, money, tokenAdmin, now>>

setTimeBuffer(t) ==
  /\ timeBuffer' = t
  /\ UNCHANGED <<auction, paused, reservePrice, minBidIncrementPercentage, money, nouns,
                 tokenAdmin, now>>

setReservePrice(p) ==
  /\ reservePrice' = p
  /\ UNCHANGED <<auction, paused, timeBuffer, minBidIncrementPercentage, money, nouns,
                 tokenAdmin, now>>

setMinBidIncrementPercentage(p) ==
  /\ minBidIncrementPercentage' = p
  /\ UNCHANGED <<auction, paused, timeBuffer, reservePrice, money, nouns, tokenAdmin, now>>

-----------------------------------------------------------------------------
(* The environment: the token's owner, the seeder, holders, and time.       *)

setMinter(m) ==
  /\ minter' = m
  /\ UNCHANGED <<auction, paused, params, money, nouns, seederFails, now>>

\* A minter that is not the house mints for itself and, burn being onlyMinter and
\* nothing else, burns whichever noun it likes, the one on auction included.
OtherMinterMints ==
  /\ minter # House
  /\ MintedId + LastIds \in Ids
  /\ TokenMint(nounOwner)
  /\ UNCHANGED <<auction, paused, params, money, tokenAdmin, now>>

OtherMinterBurns(id) ==
  /\ minter # House /\ nounOwner[id] # Zero
  /\ nounOwner' = [nounOwner EXCEPT ![id] = Zero]
  /\ UNCHANGED <<auction, paused, params, money, nextNounId, tokenAdmin, now>>

\* generateSeed panics while the descriptor it reads has a part with no variant.
SeederChanges ==
  /\ SeederMayFail
  /\ seederFails' = ~seederFails
  /\ UNCHANGED <<auction, paused, params, money, nouns, minter, now>>

\* A holder gives its noun away, possibly to the house; the house itself never
\* approves anyone.
HolderTransfers(id, to) ==
  /\ nounOwner[id] \notin {Zero, House}
  /\ nounOwner' = [nounOwner EXCEPT ![id] = to]
  /\ UNCHANGED <<auction, paused, params, money, nextNounId, tokenAdmin, now>>

Tick ==
  /\ now < MaxTime
  /\ now' = now + 1
  /\ UNCHANGED <<auction, paused, params, money, nouns, tokenAdmin>>

Settle == settleCurrentAndCreateNewAuction \/ settleAuction

OwnerActs ==
  \/ pause \/ unpause
  \/ \E t \in TimeBuffers : setTimeBuffer(t)
  \/ \E p \in ReservePrices : setReservePrice(p)
  \/ \E p \in Percentages : setMinBidIncrementPercentage(p)

Environment ==
  \/ \E m \in Minters : setMinter(m)
  \/ OtherMinterMints
  \/ \E id \in Ids : OtherMinterBurns(id)
  \/ SeederChanges
  \/ \E id \in Ids, to \in Bidders \cup {House} : HolderTransfers(id, to)
  \/ Tick

Next ==
  \/ Settle
  \/ \E b \in Bidders, id \in Ids, value \in 0 .. Budget : createBid(b, id, value)
  \/ OwnerActs
  \/ Environment

Spec == Init /\ [][Next]_vars

\* Settling is permissionless and worth the winner's while: once some settle
\* transaction stays possible, somebody sends one.
FairSpec == Spec /\ WF_vars(Settle)

-----------------------------------------------------------------------------
(* Properties                                                              *)

\* What the house owes: the standing bid of an auction that is not settled.
Escrow == IF Live /\ auction.bidder # Zero THEN auction.amount ELSE 0

\* The house holds exactly the standing bid, in ETH: refunds, extensions, payouts
\* and WETH fallbacks leave nothing behind and never take from the next auction.
Solvent == eth[House] = Escrow /\ weth[House] = 0

\* A house that is not paused always has an auction to bid on or to settle: when
\* no noun can be minted the house ends up paused.
UnpausedHasAuction == ~paused => Live

\* While one noun is on auction its standing bid and its end never go down and
\* its bidder is never forgotten, even when the owner changes every parameter.
AuctionOnlyAdvances ==
  [][Live /\ auction'.nounId = auction.nounId =>
       /\ auction'.amount >= auction.amount /\ auction'.endTime >= auction.endTime
       /\ auction.bidder # Zero => auction'.bidder # Zero]_vars

\* Whoever is outbid has at least timeBuffer to answer (lines 131-135).
OutbidHasTimeToAnswer ==
  [][auction.bidder \notin {Zero, auction'.bidder} /\ auction'.nounId = auction.nounId =>
       auction'.endTime - now >= timeBuffer]_vars

\* The auction of noun id can be settled by time, and the instance has an id left
\* for the auction that settling it starts.
Due(id) == Live /\ Expired /\ auction.nounId = id /\ MintedId \in Ids

SettledOrBurned(id) == ~(Live /\ auction.nounId = id) \/ nounOwner[id] = Zero

\* An expired auction with a bid is settled, paused or not, whoever is the minter by
\* then and though the payee of the treasury's share or of a refund may refuse ETH,
\* unless a minter other than the house burns the noun first: nobody can settle
\* that auction any more, and the standing bid stays in the house.
WonNounIsDelivered ==
  \A id \in Ids : Due(id) /\ auction.bidder # Zero ~> SettledOrBurned(id)

\* An expired auction, with a bid or without, is settled for as long as the house
\* remains the minter and no other minter burned the noun on auction before.
ExpiredAuctionIsSettled ==
  \A id \in Ids : Due(id) ~> SettledOrBurned(id) \/ minter # House

\* Lines 220-222 and 245 promise it for every minter, as long as the noun is there:
\* without bids the noun is burned, and a house whose minter was replaced pauses itself.
MinterUpdateIsRemedied == \A id \in Ids : Due(id) ~> SettledOrBurned(id)
=============================================================================
