---------------------- MODULE NounsAuctionHouseTheorems ----------------------
(***************************************************************************)
(* NounsAuctionHouse for any bidders, budgets, parameters and durations:   *)
(* its types, its custody of the noun on auction, its solvency, that a     *)
(* house which is not paused has an auction, that an auction only advances *)
(* and leaves the outbid time to answer, and what bidders pay for.         *)
(***************************************************************************)
EXTENDS NounsAuctionHouseHistory, InductionTheorems, TLAPS

\* A payment between two accounts that is covered.
LEMMA MovedBalances ==
  ASSUME NEW balance \in [Accounts -> Nat], NEW from \in Accounts, NEW to \in Accounts,
         from # to, NEW amount \in Nat, amount <= balance[from]
  PROVE  /\ Moved(balance, from, to, amount) \in [Accounts -> Nat]
         /\ Moved(balance, from, to, amount)[from] = balance[from] - amount
         /\ Moved(balance, from, to, amount)[to] = balance[to] + amount
<1> DEFINE taken == [balance EXCEPT ![from] = @ - amount]
<1>1. taken \in [Accounts -> Nat] /\ taken[from] = balance[from] - amount /\ taken[to] = balance[to]
  OBVIOUS
<1>2. Moved(balance, from, to, amount) = [taken EXCEPT ![to] = @ + amount]
  BY DEF Moved
<1> HIDE DEF taken
<1> QED  BY <1>1, <1>2

\* Whether in ETH or, when that is refused, in WETH, a payment takes `amount` from
\* the house's ETH and nothing from its WETH.
LEMMA PaysBalances ==
  ASSUME NEW e \in [Accounts -> Nat], weth \in [Accounts -> Nat], NEW to \in Accounts,
         to # House, NEW amount \in Nat, amount <= e[House], Pays(e, to, amount)
  PROVE  /\ eth' \in [Accounts -> Nat] /\ weth' \in [Accounts -> Nat]
         /\ eth'[House] = e[House] - amount /\ weth'[House] = weth[House]
<1>0. House \in Accounts
  BY DEF Accounts
<1>1. CASE eth' = Moved(e, House, to, amount) /\ weth' = weth
  BY <1>0, <1>1, MovedBalances
<1>2. CASE /\ eth' = [e EXCEPT ![House] = @ - amount]
           /\ weth' = [weth EXCEPT ![to] = @ + amount]
  BY <1>0, <1>2
<1> QED  BY <1>1, <1>2 DEF Pays

\* An auction that is over, or has never begun, takes no bids; a standing amount
\* has a bidder; the noun on auction is one that was minted.
AuctionInv ==
  /\ ~Live => auction.endTime <= now
  /\ auction.bidder = Zero => auction.amount = 0
  /\ Live => auction.nounId \in Ids /\ auction.nounId < nextNounId

HouseInv == TypeOK /\ AuctionInv /\ Solvent

\* The facts about the accounts that every step needs.
LEMMA AccountsDiffer ==
  /\ Zero \notin Accounts /\ House \in Accounts /\ Treasury \in Accounts
  /\ Nounders \in Accounts /\ Treasury # House /\ Nounders # House
  /\ Bidders \subseteq Accounts /\ House \notin Bidders /\ Zero \notin Bidders
BY AuctionAssumption DEF Accounts

\* What a mint by the minter changes.
LEMMA TokenMintEffect ==
  ASSUME TypeOK, NEW owners \in [Ids -> Addresses], TokenMint(owners)
  PROVE  /\ nounOwner' \in [Ids -> Addresses] /\ nextNounId' \in Nat
         /\ MintedId \in Ids /\ MintedId \in Nat /\ MintedId >= nextNounId
         /\ nounOwner'[MintedId] = minter /\ nextNounId' = MintedId + 1
         /\ \A id \in Ids : id < nextNounId => nounOwner'[id] = owners[id]
<1>1. nextNounId \in Nat /\ minter \in Addresses /\ Nounders \in Addresses
  BY AccountsDiffer DEF TypeOK, Addresses
<1>2. MintedId \in Nat /\ MintedId >= nextNounId
  BY <1>1 DEF MintedId
<1>3. /\ MintedId \in Ids /\ nextNounId' = MintedId + 1
      /\ nounOwner' = [id \in Ids |-> CASE id = MintedId -> minter
                                        [] RewardDue /\ id = nextNounId -> Nounders
                                        [] OTHER -> owners[id]]
  BY DEF TokenMint
<1>4. RewardDue => MintedId # nextNounId
  BY <1>1 DEF MintedId
<1>5. ASSUME NEW id \in Ids
      PROVE  nounOwner'[id] \in Addresses
  BY <1>1, <1>3, <1>4
<1>6. nounOwner' \in [Ids -> Addresses]
  BY <1>3, <1>5
<1>7. nounOwner'[MintedId] = minter
  BY <1>3, <1>4
<1>8. ASSUME NEW id \in Ids, id < nextNounId
      PROVE  nounOwner'[id] = owners[id]
  <2>1. id # MintedId /\ id # nextNounId
    BY <1>1, <1>2, <1>8 DEF Ids
  <2> QED  BY <1>3, <2>1
<1> QED  BY <1>2, <1>3, <1>6, <1>7, <1>8

\* _createAuction, entered after the house has paid out what it owed and with an
\* auction record that is over, leaves the house in order.
LEMMA CreateAuctionKeeps ==
  ASSUME TypeOK, NEW owners \in [Ids -> Addresses], NEW current \in Auction,
         NEW flag \in BOOLEAN, createAuction(owners, current, flag),
         current.startTime = 0 \/ current.settled,
         current.endTime <= now, current.bidder = Zero => current.amount = 0,
         eth' \in [Accounts -> Nat], weth' \in [Accounts -> Nat],
         eth'[House] = 0, weth'[House] = 0,
         UNCHANGED <<params, tokenAdmin, now>>
  PROVE  HouseInv' /\ (~paused' => Live')
<1> USE DEF TypeOK, params, tokenAdmin
<1>0. now \in 1 .. MaxTime /\ now \in Nat /\ now # 0 /\ calcDuration(now) \in Nat
  <2>1. now \in 1 .. MaxTime
    OBVIOUS
  <2>2. MaxTime \in Nat /\ \A t \in 1 .. MaxTime : calcDuration(t) \in Nat
    BY AuctionAssumption
  <2> QED  BY <2>1, <2>2
<1>1. CASE MintSucceeds(owners, flag)
  <2>1. /\ minter = House /\ TokenMint(owners) /\ paused' = flag
        /\ auction' = [nounId |-> MintedId, amount |-> 0, startTime |-> now,
                       endTime |-> now + calcDuration(now), bidder |-> Zero, settled |-> FALSE]
    BY <1>1 DEF MintSucceeds
  <2>2. /\ nounOwner' \in [Ids -> Addresses] /\ nextNounId' \in Nat
        /\ MintedId \in Ids /\ MintedId \in Nat
        /\ nounOwner'[MintedId] = House /\ nextNounId' = MintedId + 1
    BY <2>1, TokenMintEffect
  <2> DEFINE id == MintedId
             duration == calcDuration(now)
  <2>3. id \in Nat /\ duration \in Nat /\ now + duration \in Nat
    BY <1>0, <2>2
  <2> HIDE DEF id, duration
  <2>4. /\ auction' = [nounId |-> id, amount |-> 0, startTime |-> now,
                       endTime |-> now + duration, bidder |-> Zero, settled |-> FALSE]
        /\ id \in Ids /\ nounOwner'[id] = House /\ nextNounId' = id + 1
    BY <2>1, <2>2 DEF id, duration
  <2>5. auction' \in Auction /\ auction'.bidder = Zero /\ auction'.nounId = id
        /\ auction'.amount = 0 /\ Live'
    BY <1>0, <2>3, <2>4 DEF Auction, Live, HasBegun
  <2>6. TypeOK'
    BY <2>1, <2>2, <2>5
  <2>7. Solvent'
    BY <2>5 DEF Solvent, Escrow
  <2>8. AuctionInv'
    BY <2>3, <2>4, <2>5 DEF AuctionInv
  <2> QED  BY <2>5, <2>6, <2>7, <2>8 DEF HouseInv
<1>2. CASE MintReverts(owners, current, flag)
  <2>1. /\ paused' = TRUE /\ auction' = current /\ nounOwner' = owners
        /\ nextNounId' = nextNounId
    BY <1>2 DEF MintReverts
  <2>2. ~Live'
    BY <2>1 DEF Live, HasBegun
  <2>3. TypeOK'
    BY <2>1
  <2> QED  BY <2>1, <2>2, <2>3 DEF HouseInv, AuctionInv, Solvent, Escrow
<1> QED  BY <1>1, <1>2 DEF createAuction

\* Settling an auction pays out the standing bid and leaves a record that is over.
LEMMA SettleEffect ==
  ASSUME HouseInv, CanSettle, PaysTreasury
  PROVE  /\ eth' \in [Accounts -> Nat] /\ weth' \in [Accounts -> Nat]
         /\ eth'[House] = 0 /\ weth'[House] = 0
         /\ OwnersAfterSettling \in [Ids -> Addresses]
         /\ SettledAuction \in Auction /\ SettledAuction.settled
         /\ SettledAuction.endTime <= now
         /\ SettledAuction.bidder = Zero => SettledAuction.amount = 0
<1> USE DEF HouseInv
<1>0. auction \in Auction /\ eth \in [Accounts -> Nat] /\ weth \in [Accounts -> Nat]
      /\ nounOwner \in [Ids -> Addresses]
  BY DEF TypeOK
<1>1. auction.amount \in Nat /\ auction.endTime \in Nat /\ auction.bidder \in Bidders \cup {Zero}
  BY <1>0 DEF Auction
<1>2. SettledAuction \in Auction /\ SettledAuction.settled
      /\ SettledAuction.endTime = auction.endTime /\ SettledAuction.bidder = auction.bidder
      /\ SettledAuction.amount = auction.amount
  BY <1>0 DEF SettledAuction, Auction
<1>3. auction.endTime <= now /\ (auction.bidder = Zero => auction.amount = 0)
  BY <1>1 DEF CanSettle, Expired, AuctionInv, TypeOK
<1>4. OwnersAfterSettling \in [Ids -> Addresses]
  <2>1. auction.bidder \in Addresses
    BY <1>1, AccountsDiffer DEF Addresses
  <2> QED  BY <1>0, <2>1 DEF OwnersAfterSettling
<1>5. eth[House] = auction.amount /\ weth[House] = 0
  BY <1>3 DEF CanSettle, Solvent, Escrow
<1>6. /\ eth' \in [Accounts -> Nat] /\ weth' \in [Accounts -> Nat]
      /\ eth'[House] = 0 /\ weth'[House] = 0
  <2>1. CASE auction.amount > 0
    <3>1. Pays(eth, Treasury, auction.amount)
      BY <2>1 DEF PaysTreasury
    <3> QED  BY <1>0, <1>1, <1>5, <3>1, AccountsDiffer, PaysBalances
  <2>2. CASE ~(auction.amount > 0)
    BY <1>0, <1>1, <1>5, <2>2 DEF PaysTreasury, money
  <2> QED  BY <2>1, <2>2
<1> QED  BY <1>2, <1>3, <1>4, <1>6

\* A bid adds the new amount to the house and gives the old one back.
LEMMA BidEffect ==
  ASSUME HouseInv, NEW sender \in Bidders, NEW nounId, NEW value \in Nat,
         createBid(sender, nounId, value)
  PROVE  /\ eth' \in [Accounts -> Nat] /\ weth' \in [Accounts -> Nat]
         /\ eth'[House] = value /\ weth'[House] = 0 /\ Live
<1> USE DEF HouseInv
<1>0. auction \in Auction /\ eth \in [Accounts -> Nat] /\ weth \in [Accounts -> Nat]
      /\ now \in Nat
  BY DEF TypeOK
<1>1. auction.amount \in Nat /\ auction.endTime \in Nat /\ auction.bidder \in Bidders \cup {Zero}
  BY <1>0 DEF Auction
<1>2. Live
  BY <1>0, <1>1 DEF createBid, AuctionInv
<1>3. eth[House] = auction.amount /\ weth[House] = 0
      /\ (auction.bidder = Zero => auction.amount = 0)
  BY <1>2 DEF Solvent, Escrow, AuctionInv
<1> DEFINE received == Moved(eth, sender, House, value)
<1>4. /\ received \in [Accounts -> Nat] /\ received[House] = auction.amount + value
      /\ Refunds(received, value)
  <2>1. sender \in Accounts /\ sender # House /\ House \in Accounts /\ value <= eth[sender]
    BY AccountsDiffer DEF createBid
  <2>2. Refunds(received, value)
    BY DEF createBid
  <2>3. received \in [Accounts -> Nat] /\ received[House] = eth[House] + value
    BY <1>0, <2>1, MovedBalances
  <2> QED  BY <1>3, <2>2, <2>3
<1> HIDE DEF received
<1>5. CASE auction.bidder = Zero
  BY <1>0, <1>2, <1>3, <1>4, <1>5 DEF Refunds
<1>6. CASE auction.bidder # Zero
  <2>1. auction.bidder \in Accounts /\ auction.bidder # House
    BY <1>1, <1>6, AccountsDiffer
  <2>2. Pays(received, auction.bidder, auction.amount)
    BY <1>4, <1>6 DEF Refunds
  <2>3. /\ eth' \in [Accounts -> Nat] /\ weth' \in [Accounts -> Nat]
        /\ eth'[House] = received[House] - auction.amount /\ weth'[House] = weth[House]
    <3>1. auction.amount <= received[House]
      BY <1>1, <1>4
    <3> QED  BY <1>0, <1>1, <1>4, <2>1, <2>2, <3>1, PaysBalances
  <2> QED  BY <1>1, <1>2, <1>3, <1>4, <2>3
<1> QED  BY <1>5, <1>6

\* Every transaction and every step of the environment keeps the house in order.
LEMMA HouseInvStep ==
  ASSUME HouseInv, [Next]_vars
  PROVE  HouseInv'
<1> USE DEF params, money, nouns, tokenAdmin
<1>0. /\ TypeOK /\ AuctionInv /\ Solvent
      /\ auction \in Auction /\ nounOwner \in [Ids -> Addresses] /\ nextNounId \in Nat
      /\ auction.nounId \in Nat /\ auction.amount \in Nat /\ auction.endTime \in Nat
      /\ now \in Nat /\ timeBuffer \in Nat
  BY DEF HouseInv, TypeOK, Auction
<1>1. CASE settleCurrentAndCreateNewAuction
  <2>1. /\ CanSettle /\ PaysTreasury
        /\ createAuction(OwnersAfterSettling, SettledAuction, paused)
        /\ UNCHANGED <<params, tokenAdmin, now>>
    BY <1>1 DEF settleCurrentAndCreateNewAuction
  <2>2. paused \in BOOLEAN
    BY <1>0 DEF TypeOK
  <2> QED  BY <1>0, <2>1, <2>2, SettleEffect, CreateAuctionKeeps
<1>2. CASE settleAuction
  <2>1. /\ CanSettle /\ PaysTreasury
        /\ nounOwner' = OwnersAfterSettling /\ auction' = SettledAuction
        /\ UNCHANGED <<paused, params, nextNounId, tokenAdmin, now>>
    BY <1>2 DEF settleAuction
  <2>2. /\ eth' \in [Accounts -> Nat] /\ weth' \in [Accounts -> Nat]
        /\ eth'[House] = 0 /\ weth'[House] = 0
        /\ nounOwner' \in [Ids -> Addresses]
        /\ auction' \in Auction /\ auction'.settled /\ auction'.endTime <= now
        /\ auction'.bidder = Zero => auction'.amount = 0
    BY <2>1, SettleEffect
  <2>3. TypeOK'
    BY <1>0, <2>1, <2>2 DEF TypeOK
  <2> QED  BY <2>1, <2>2, <2>3 DEF HouseInv, AuctionInv, Solvent, Escrow, Live
<1>3. ASSUME NEW b \in Bidders, NEW id \in Ids, NEW value \in 0 .. Budget,
             createBid(b, id, value)
      PROVE  HouseInv'
  <2>1. value \in Nat
    BY AuctionAssumption
  <2>2. /\ eth' \in [Accounts -> Nat] /\ weth' \in [Accounts -> Nat]
        /\ eth'[House] = value /\ weth'[House] = 0 /\ Live
    BY <1>3, <2>1, BidEffect
  <2>3. EndAfterBid \in Nat
    BY <1>0 DEF EndAfterBid
  <2> DEFINE end == EndAfterBid
  <2> HIDE DEF end
  <2>4. /\ auction' = [auction EXCEPT !.amount = value, !.bidder = b, !.endTime = end]
        /\ UNCHANGED <<paused, params, nouns, tokenAdmin, now>>
    BY <1>3 DEF createBid, end
  <2>5. /\ auction' \in Auction /\ auction'.bidder = b /\ auction'.amount = value
        /\ auction'.nounId = auction.nounId /\ Live'
    BY <1>0, <2>1, <2>2, <2>3, <2>4 DEF Auction, Live, HasBegun, end
  <2>6. b # Zero
    BY AccountsDiffer
  <2>7. TypeOK'
    BY <1>0, <2>2, <2>4, <2>5 DEF TypeOK
  <2>8. AuctionInv'
    BY <1>0, <2>2, <2>4, <2>5, <2>6 DEF AuctionInv
  <2>9. Solvent'
    BY <2>2, <2>5, <2>6 DEF Solvent, Escrow
  <2> QED  BY <2>7, <2>8, <2>9 DEF HouseInv
<1>4. ASSUME UNCHANGED <<auction, eth, weth, nounOwner, nextNounId, now>>, TypeOK'
      PROVE  HouseInv'
  BY <1>0, <1>4 DEF HouseInv, AuctionInv, Solvent, Escrow, Live, HasBegun
<1>5. CASE pause
  BY <1>0, <1>4, <1>5 DEF pause, TypeOK
<1>6. CASE unpause
  <2>1. CASE ~HasBegun \/ auction.settled
    <3>1. createAuction(nounOwner, auction, FALSE) /\ UNCHANGED <<params, money, tokenAdmin, now>>
      BY <1>6, <2>1 DEF unpause
    <3>2. auction.startTime = 0 \/ auction.settled
      BY <2>1 DEF HasBegun
    <3>3. ~Live
      BY <2>1 DEF Live
    <3>4. /\ auction.endTime <= now /\ (auction.bidder = Zero => auction.amount = 0)
          /\ eth' \in [Accounts -> Nat] /\ weth' \in [Accounts -> Nat]
          /\ eth'[House] = 0 /\ weth'[House] = 0
      BY <1>0, <3>1, <3>3 DEF AuctionInv, Solvent, Escrow, TypeOK
    <3> QED  BY <1>0, <3>1, <3>2, <3>4, CreateAuctionKeeps
  <2>2. CASE ~(~HasBegun \/ auction.settled)
    BY <1>0, <1>4, <1>6, <2>2 DEF unpause, TypeOK
  <2> QED  BY <2>1, <2>2
<1>7. ASSUME NEW t \in TimeBuffers, setTimeBuffer(t)
      PROVE  HouseInv'
  BY <1>0, <1>4, <1>7, AuctionAssumption DEF setTimeBuffer, TypeOK
<1>8. ASSUME NEW p \in ReservePrices, setReservePrice(p)
      PROVE  HouseInv'
  BY <1>0, <1>4, <1>8, AuctionAssumption DEF setReservePrice, TypeOK
<1>9. ASSUME NEW p \in Percentages, setMinBidIncrementPercentage(p)
      PROVE  HouseInv'
  BY <1>0, <1>4, <1>9, AuctionAssumption DEF setMinBidIncrementPercentage, TypeOK
<1>10. ASSUME NEW m \in Minters, setMinter(m)
       PROVE  HouseInv'
  BY <1>0, <1>4, <1>10, AuctionAssumption DEF setMinter, TypeOK
<1>11. CASE SeederChanges
  BY <1>0, <1>4, <1>11 DEF SeederChanges, TypeOK
<1>12. ASSUME UNCHANGED <<auction, paused, params, money, tokenAdmin, now>>,
              nounOwner' \in [Ids -> Addresses], nextNounId' \in Nat,
              nextNounId' >= nextNounId
       PROVE  HouseInv'
  <2>1. TypeOK'
    BY <1>0, <1>12 DEF TypeOK
  <2> QED  BY <1>0, <1>12, <2>1 DEF HouseInv, AuctionInv, Solvent, Escrow, Live, HasBegun
<1>13. CASE OtherMinterMints
  <2>1. TokenMint(nounOwner) /\ UNCHANGED <<auction, paused, params, money, tokenAdmin, now>>
    BY <1>13 DEF OtherMinterMints
  <2>2. /\ nounOwner' \in [Ids -> Addresses] /\ nextNounId' \in Nat
        /\ MintedId \in Nat /\ MintedId >= nextNounId /\ nextNounId' = MintedId + 1
    BY <1>0, <2>1, TokenMintEffect
  <2> HIDE DEF MintedId
  <2>3. nextNounId' >= nextNounId
    BY <1>0, <2>2
  <2> QED  BY <1>12, <2>1, <2>2, <2>3
<1>14. ASSUME NEW id \in Ids, OtherMinterBurns(id)
       PROVE  HouseInv'
  BY <1>0, <1>12, <1>14 DEF OtherMinterBurns, Addresses
<1>15. ASSUME NEW id \in Ids, NEW to \in Bidders \cup {House}, HolderTransfers(id, to)
       PROVE  HouseInv'
  <2>1. to \in Addresses
    BY AccountsDiffer DEF Addresses
  <2> QED  BY <1>0, <1>12, <1>15, <2>1 DEF HolderTransfers
<1>16. CASE Tick
  <2>1. /\ now' = now + 1 /\ now < MaxTime
        /\ UNCHANGED <<auction, paused, params, money, nouns, tokenAdmin>>
    BY <1>16 DEF Tick
  <2>2. MaxTime \in Nat
    BY AuctionAssumption
  <2>3. TypeOK'
    BY <1>0, <2>1, <2>2 DEF TypeOK
  <2> QED  BY <1>0, <2>1, <2>3 DEF HouseInv, AuctionInv, Solvent, Escrow, Live, HasBegun
<1>17. CASE UNCHANGED vars
  BY <1>0, <1>4, <1>17 DEF vars, TypeOK
<1> QED  BY <1>1, <1>2, <1>3, <1>5, <1>6, <1>7, <1>8, <1>9, <1>10, <1>11, <1>13, <1>14, <1>15,
            <1>16, <1>17 DEF Next, Settle, OwnerActs, Environment

\* The invariant holds from the start.
LEMMA HouseInvariant == Spec => []HouseInv
<1>1. Init => HouseInv
  <2> SUFFICES ASSUME Init
               PROVE  HouseInv
    OBVIOUS
  <2>1. House \in Accounts /\ House \notin Bidders /\ Zero \in Addresses
    BY AccountsDiffer DEF Addresses
  <2>2. ~Live
    BY DEF Init, Live, HasBegun
  <2>3. auction \in Auction /\ auction.endTime = 0 /\ auction.amount = 0
    BY DEF Init, Auction
  <2>4. now \in 1 .. MaxTime /\ now \in Nat
    BY AuctionAssumption DEF Init
  <2>5. eth \in [Accounts -> Nat] /\ weth \in [Accounts -> Nat] /\ eth[House] = 0 /\ weth[House] = 0
    BY <2>1, AuctionAssumption DEF Init
  <2>6. TypeOK
    BY <2>1, <2>3, <2>4, <2>5, AuctionAssumption DEF Init, TypeOK
  <2> QED  BY <2>2, <2>3, <2>4, <2>5, <2>6 DEF HouseInv, AuctionInv, Solvent, Escrow
<1>2. HouseInv /\ [Next]_vars => HouseInv'
  BY HouseInvStep
<1> QED  BY <1>1, <1>2, PTL DEF Spec

\* The house's records, balances and owners keep their types; for its ETH balance
\* this says that no refund and no payout exceeds what the house holds.
THEOREM HouseTypeCorrect == Spec => []TypeOK
BY HouseInvariant, PTL DEF HouseInv

\* The house always holds the standing bid of the auction that is not settled and
\* nothing else, whether payees accept ETH or are paid in WETH.
THEOREM AlwaysSolvent == Spec => []Solvent
BY HouseInvariant, PTL DEF HouseInv

\* A house that is not paused has an auction to bid on or to settle, although the
\* mint inside settling may revert.
THEOREM UnpausedAlwaysHasAuction == Spec => []UnpausedHasAuction
<1>1. Init => UnpausedHasAuction
  BY DEF Init, UnpausedHasAuction
<1>2. HouseInv /\ UnpausedHasAuction /\ [Next]_vars => UnpausedHasAuction'
  <2> SUFFICES ASSUME HouseInv, UnpausedHasAuction, [Next]_vars
               PROVE  UnpausedHasAuction'
    OBVIOUS
  <2>0. TypeOK /\ now \in Nat /\ now # 0 /\ paused \in BOOLEAN
    BY DEF HouseInv, TypeOK
  <2>1. ASSUME NEW owners, NEW current, NEW flag, createAuction(owners, current, flag)
        PROVE  UnpausedHasAuction'
    <3>1. CASE MintSucceeds(owners, flag)
      <4>1. auction'.startTime = now /\ ~auction'.settled
        BY <3>1 DEF MintSucceeds
      <4> QED  BY <2>0, <4>1 DEF UnpausedHasAuction, Live, HasBegun
    <3>2. CASE MintReverts(owners, current, flag)
      BY <3>2 DEF MintReverts, UnpausedHasAuction
    <3> QED  BY <2>1, <3>1, <3>2 DEF createAuction
  <2>2. CASE settleCurrentAndCreateNewAuction
    BY <2>1, <2>2 DEF settleCurrentAndCreateNewAuction
  <2>3. CASE settleAuction
    BY <2>3 DEF settleAuction, UnpausedHasAuction
  <2>4. ASSUME NEW b \in Bidders, NEW id \in Ids, NEW value \in 0 .. Budget,
               createBid(b, id, value)
        PROVE  UnpausedHasAuction'
    <3>1. auction \in Auction
      BY <2>0 DEF TypeOK
    <3>2. auction'.startTime = auction.startTime /\ auction'.settled = auction.settled
          /\ paused' = paused
      BY <2>4, <3>1 DEF createBid, Auction
    <3> QED  BY <3>2 DEF UnpausedHasAuction, Live, HasBegun
  <2>5. CASE unpause
    <3>1. CASE ~HasBegun \/ auction.settled
      BY <2>1, <2>5, <3>1 DEF unpause
    <3>2. CASE ~(~HasBegun \/ auction.settled)
      BY <2>5, <3>2 DEF unpause, nouns, UnpausedHasAuction, Live, HasBegun
    <3> QED  BY <3>1, <3>2
  <2>6. CASE pause
    BY <2>6 DEF pause, UnpausedHasAuction
  <2>7. ASSUME UNCHANGED <<auction, paused>>
        PROVE  UnpausedHasAuction'
    BY <2>7 DEF UnpausedHasAuction, Live, HasBegun
  <2> QED  BY <2>2, <2>3, <2>4, <2>5, <2>6, <2>7
           DEF Next, Settle, OwnerActs, Environment, setTimeBuffer, setReservePrice,
               setMinBidIncrementPercentage, setMinter, OtherMinterMints, OtherMinterBurns,
               SeederChanges, HolderTransfers, Tick, vars
<1> QED  BY <1>1, <1>2, HouseInvariant, PTL DEF Spec

-----------------------------------------------------------------------------
(* What a step does to the auction and to the money, whoever takes it.      *)

Stays == UNCHANGED <<auction, eth, weth>>

Bids == \E b \in Bidders, id \in Ids, value \in 0 .. Budget : createBid(b, id, value)

\* An auction of a noun that has just been minted.
Opens ==
  /\ auction' = [nounId |-> MintedId, amount |-> 0, startTime |-> now,
                 endTime |-> now + calcDuration(now), bidder |-> Zero, settled |-> FALSE]
  /\ nextNounId' = MintedId + 1

Begins == ~Live /\ Opens /\ UNCHANGED <<eth, weth>>

Ends == CanSettle /\ PaysTreasury /\ (auction' = SettledAuction \/ Opens)

\* createAuction opens an auction of a fresh noun or leaves the last one.
LEMMA Creating ==
  ASSUME TypeOK, NEW owners, NEW current, NEW flag, createAuction(owners, current, flag)
  PROVE  nextNounId' \in Nat /\ nextNounId' >= nextNounId /\ (auction' = current \/ Opens)
<1>1. CASE MintSucceeds(owners, flag)
  <2>1. Opens
    BY <1>1 DEF MintSucceeds, TokenMint, Opens
  <2> QED  BY <2>1 DEF Opens, MintedId, TypeOK
<1>2. CASE MintReverts(owners, current, flag)
  BY <1>2 DEF MintReverts, TypeOK
<1> QED  BY <1>1, <1>2 DEF createAuction

\* What a step does to the auction: nothing, a bid, a beginning or an end.
LEMMA StepsOfTheHouse ==
  ASSUME TypeOK, [Next]_vars
  PROVE  /\ nextNounId' \in Nat /\ nextNounId' >= nextNounId
         /\ Stays \/ Bids \/ Begins \/ Ends
<1> USE DEF params, money, nouns, tokenAdmin
<1>0. nextNounId \in Nat /\ nextNounId >= nextNounId
  BY DEF TypeOK
<1>1. CASE settleCurrentAndCreateNewAuction
  BY <1>1, Creating DEF settleCurrentAndCreateNewAuction, Ends
<1>2. CASE settleAuction
  BY <1>0, <1>2 DEF settleAuction, Ends
<1>3. CASE Bids
  BY <1>0, <1>3 DEF Bids, createBid
<1>4. CASE unpause
  <2>1. CASE ~HasBegun \/ auction.settled
    <3>1. createAuction(nounOwner, auction, FALSE) /\ UNCHANGED <<eth, weth>> /\ ~Live
      BY <1>4, <2>1 DEF unpause, Live
    <3> QED  BY <3>1, Creating DEF Begins, Stays
  <2>2. CASE ~(~HasBegun \/ auction.settled)
    BY <1>0, <1>4, <2>2 DEF unpause, Stays
  <2> QED  BY <2>1, <2>2
<1>5. CASE OtherMinterMints
  <2>1. nextNounId' = MintedId + 1 /\ Stays
    BY <1>5 DEF OtherMinterMints, TokenMint, Stays
  <2> QED  BY <1>0, <2>1 DEF MintedId
<1>6. CASE \/ pause \/ SeederChanges \/ Tick
           \/ \E t \in TimeBuffers : setTimeBuffer(t)
           \/ \E p \in ReservePrices : setReservePrice(p)
           \/ \E p \in Percentages : setMinBidIncrementPercentage(p)
           \/ \E m \in Minters : setMinter(m)
  BY <1>0, <1>6 DEF pause, SeederChanges, Tick, setTimeBuffer, setReservePrice,
                    setMinBidIncrementPercentage, setMinter, Stays
<1>7. CASE \/ \E id \in Ids : OtherMinterBurns(id)
           \/ \E id \in Ids, to \in Bidders \cup {House} : HolderTransfers(id, to)
  BY <1>0, <1>7 DEF OtherMinterBurns, HolderTransfers, Stays
<1>8. CASE UNCHANGED vars
  BY <1>0, <1>8 DEF vars, Stays
<1> QED  BY <1>1, <1>2, <1>3, <1>4, <1>5, <1>6, <1>7, <1>8
         DEF Next, Settle, OwnerActs, Environment, Bids

\* Every noun that was bid on or is on auction has been minted: the next one on
\* auction has another id.
BidOnMinted == auction.bidder # Zero \/ Live => auction.nounId < nextNounId

\* The record after a bid.
LEMMA BidRecord ==
  ASSUME TypeOK, NEW b \in Bidders, NEW id, NEW value, createBid(b, id, value)
  PROVE  /\ auction'.nounId = auction.nounId /\ auction'.settled = auction.settled
         /\ auction'.startTime = auction.startTime /\ auction'.bidder = b
         /\ auction'.amount = value /\ auction'.endTime = EndAfterBid
<1> DEFINE end == EndAfterBid
<1>1. auction \in Auction
  BY DEF TypeOK
<1>2. auction' = [auction EXCEPT !.amount = value, !.bidder = b, !.endTime = end]
  BY DEF createBid
<1> HIDE DEF end
<1>3. /\ auction'.nounId = auction.nounId /\ auction'.settled = auction.settled
      /\ auction'.startTime = auction.startTime /\ auction'.bidder = b
      /\ auction'.amount = value /\ auction'.endTime = end
  BY <1>1, <1>2 DEF Auction
<1> QED  BY <1>3 DEF end

\* The record after settling.
LEMMA SettledRecord ==
  ASSUME TypeOK, auction' = SettledAuction
  PROVE  /\ auction'.nounId = auction.nounId /\ auction'.bidder = auction.bidder
         /\ auction'.amount = auction.amount /\ auction'.endTime = auction.endTime
         /\ auction'.settled
BY DEF TypeOK, Auction, SettledAuction

\* The record of an auction that has just begun.
LEMMA OpenedRecord ==
  ASSUME TypeOK, Opens
  PROVE  /\ auction'.nounId = MintedId /\ auction'.bidder = Zero /\ auction'.amount = 0
         /\ ~auction'.settled /\ MintedId \in Nat
         /\ MintedId >= nextNounId /\ nextNounId' = MintedId + 1
<1>1. MintedId \in Nat /\ MintedId >= nextNounId
  BY DEF TypeOK, MintedId
<1> HIDE DEF MintedId
<1> QED  BY <1>1 DEF Opens

\* Every step keeps bids on nouns that were minted.
LEMMA BidOnMintedStep ==
  ASSUME HouseInv, BidOnMinted, [Next]_vars
  PROVE  BidOnMinted'
<1>0. TypeOK /\ nextNounId \in Nat /\ auction.nounId \in Nat
  BY DEF HouseInv, TypeOK, Auction
<1>1. nextNounId' \in Nat /\ nextNounId' >= nextNounId /\ (Stays \/ Bids \/ Begins \/ Ends)
  BY <1>0, StepsOfTheHouse
<1>2. CASE Stays
  BY <1>0, <1>1, <1>2 DEF Stays, BidOnMinted, Live, HasBegun
<1>3. CASE Bids
  <2>1. PICK b \in Bidders, id \in Ids, value \in 0 .. Budget : createBid(b, id, value)
    BY <1>3 DEF Bids
  <2>2. Live /\ auction'.nounId = auction.nounId
    BY <1>0, <2>1, BidRecord, BidEffect
  <2> QED  BY <1>0, <1>1, <2>2 DEF BidOnMinted
<1>4. CASE Opens
  BY <1>0, <1>4, OpenedRecord DEF BidOnMinted
<1>5. CASE auction' = SettledAuction
  BY <1>0, <1>1, <1>5, SettledRecord DEF BidOnMinted, Live
<1> QED  BY <1>1, <1>2, <1>3, <1>4, <1>5 DEF Begins, Ends

\* How an auction goes on, for as long as the noun on auction is the same.
LEMMA AuctionGoesOn ==
  ASSUME HouseInv, BidOnMinted, [Next]_vars, auction'.nounId = auction.nounId
  PROVE  /\ Live => /\ auction'.amount >= auction.amount /\ auction'.endTime >= auction.endTime
                    /\ auction.bidder # Zero => auction'.bidder # Zero
         /\ auction.bidder \notin {Zero, auction'.bidder} => auction'.endTime - now >= timeBuffer
<1>0. /\ TypeOK /\ nextNounId \in Nat /\ auction.nounId \in Nat /\ auction.amount \in Nat
      /\ auction.endTime \in Nat /\ now \in Nat /\ timeBuffer \in Nat
      /\ minBidIncrementPercentage \in Nat
  BY DEF HouseInv, TypeOK, Auction
<1>1. CASE Stays
  BY <1>0, <1>1 DEF Stays
<1>2. CASE Bids
  <2>1. PICK b \in Bidders, id \in Ids, value \in 0 .. Budget : createBid(b, id, value)
    BY <1>2 DEF Bids
  <2> DEFINE increment == (auction.amount * minBidIncrementPercentage) \div 100
  <2>2. increment \in Nat
    <3>1. auction.amount * minBidIncrementPercentage \in Nat
      BY <1>0
    <3> QED  BY <3>1
  <2>3. value \in Int /\ value >= auction.amount + increment
    BY <2>1 DEF createBid
  <2> HIDE DEF increment
  <2>4. EndAfterBid >= auction.endTime /\ EndAfterBid - now >= timeBuffer
    BY <1>0 DEF EndAfterBid
  <2>5. auction'.amount = value /\ auction'.bidder = b /\ auction'.endTime = EndAfterBid
    BY <1>0, <2>1, BidRecord
  <2> QED  BY <1>0, <2>2, <2>3, <2>4, <2>5, AccountsDiffer
<1>3. CASE Opens
  <2>1. ~(auction.bidder # Zero \/ Live)
    BY <1>0, <1>3, OpenedRecord DEF BidOnMinted
  <2> QED  BY <2>1
<1>4. CASE auction' = SettledAuction
  BY <1>0, <1>4, SettledRecord
<1> QED  BY <1>0, <1>1, <1>2, <1>3, <1>4, StepsOfTheHouse DEF Begins, Ends

\* Bids are only ever on nouns that were minted.
LEMMA BidOnMintedAlways == Spec => []BidOnMinted
<1>1. Init => BidOnMinted
  BY DEF Init, BidOnMinted, Live, HasBegun
<1> QED  BY <1>1, BidOnMintedStep, HouseInvariant, PTL DEF Spec

\* While a noun is on auction its standing bid and its end never go down and its
\* bidder is never forgotten, whatever the owner sets and whoever is the minter.
THEOREM AuctionAlwaysAdvances == Spec => AuctionOnlyAdvances
<1>1. HouseInv /\ BidOnMinted /\ [Next]_vars =>
        [Live /\ auction'.nounId = auction.nounId =>
           /\ auction'.amount >= auction.amount /\ auction'.endTime >= auction.endTime
           /\ auction.bidder # Zero => auction'.bidder # Zero]_vars
  BY AuctionGoesOn
<1> QED  BY <1>1, HouseInvariant, BidOnMintedAlways, PTL DEF Spec, AuctionOnlyAdvances

\* A bidder that is outbid has at least timeBuffer left to answer, for any time
\* buffer the owner has set by then and any auction duration.
THEOREM OutbidCanAnswer == Spec => OutbidHasTimeToAnswer
<1>1. HouseInv /\ BidOnMinted /\ [Next]_vars =>
        [auction.bidder \notin {Zero, auction'.bidder} /\ auction'.nounId = auction.nounId =>
           auction'.endTime - now >= timeBuffer]_vars
  BY AuctionGoesOn
<1> QED  BY <1>1, HouseInvariant, BidOnMintedAlways, PTL DEF Spec, OutbidHasTimeToAnswer

-----------------------------------------------------------------------------
(* What is sold, to whom and for how much: sales, of HistorySpec.           *)

\* The invariant holds beside the history of sales.
LEMMA HistoryInvariant == HistorySpec => [](HouseInv /\ BidOnMinted)
<1>1. HistorySpec => Spec
  <2>1. HistoryInit => Init
    BY DEF HistoryInit
  <2>2. [HistoryNext]_historyVars => [Next]_vars
    BY DEF HistoryNext, historyVars
  <2> QED  BY <2>1, <2>2, PTL DEF HistorySpec, Spec
<1> QED  BY <1>1, HouseInvariant, BidOnMintedAlways, PTL

\* Nobody holds a noun that was not minted yet, and none of those was burned.
UnmintedInv ==
  /\ \A id \in Ids : id >= nextNounId => nounOwner[id] = Zero
  /\ \A id \in burned : id \in Ids /\ id < nextNounId

CustodyInv == UnmintedInv /\ Custody

\* A mint leaves the later ids as they were.
LEMMA TokenMintLater ==
  ASSUME TypeOK, NEW owners \in [Ids -> Addresses], TokenMint(owners),
         NEW id \in Ids, id >= nextNounId'
  PROVE  nounOwner'[id] = owners[id]
<1>1. /\ nextNounId' = MintedId + 1 /\ MintedId \in Nat /\ MintedId >= nextNounId
      /\ nextNounId \in Nat /\ id \in Int
  BY TokenMintEffect DEF TypeOK, Ids
<1>2. nounOwner' = [i \in Ids |-> CASE i = MintedId -> minter
                                    [] RewardDue /\ i = nextNounId -> Nounders
                                    [] OTHER -> owners[i]]
  BY DEF TokenMint
<1> HIDE DEF MintedId
<1>3. id # MintedId /\ id # nextNounId
  BY <1>1
<1> QED  BY <1>2, <1>3

\* What createAuction does to the nouns: nothing, or a mint by the house for itself.
LEMMA CreatingOwners ==
  ASSUME HouseInv, NEW owners \in [Ids -> Addresses], NEW current, NEW flag,
         createAuction(owners, current, flag)
  PROVE  /\ \A id \in Ids : id < nextNounId => nounOwner'[id] = owners[id]
         /\ \A id \in Ids : id >= nextNounId' => nounOwner'[id] = owners[id]
         /\ \/ auction' = current
            \/ /\ Opens /\ minter = House
               /\ MintedId \in Ids /\ nounOwner'[MintedId] = House
<1>0. TypeOK
  BY DEF HouseInv
<1>1. CASE MintSucceeds(owners, flag)
  <2>1. TokenMint(owners) /\ minter = House /\ Opens
    BY <1>1 DEF MintSucceeds, TokenMint, Opens
  <2> QED  BY <1>0, <2>1, TokenMintEffect, TokenMintLater
<1>2. CASE MintReverts(owners, current, flag)
  BY <1>2 DEF MintReverts
<1> QED  BY <1>1, <1>2 DEF createAuction

\* Every transaction keeps the noun on auction with the house, or burns it as a
\* minter other than the house.
LEMMA CustodyStep ==
  ASSUME HouseInv, CustodyInv, [HistoryNext]_historyVars
  PROVE  CustodyInv'
<1> USE DEF params, money, nouns, tokenAdmin
<1>0. /\ TypeOK /\ nounOwner \in [Ids -> Addresses] /\ nextNounId \in Nat
      /\ Live => auction.nounId \in Ids /\ auction.nounId < nextNounId
      /\ \A id \in Ids : id \in Int
      /\ \A id \in Ids : nounOwner[id] # Zero => id < nextNounId
      /\ \A id \in burned : id \in Ids /\ id < nextNounId
  <2>1. /\ TypeOK /\ nounOwner \in [Ids -> Addresses] /\ nextNounId \in Nat
        /\ Live => auction.nounId \in Ids /\ auction.nounId < nextNounId
    BY DEF HouseInv, TypeOK, AuctionInv
  <2>2. \A id \in Ids : id \in Int
    BY DEF Ids
  <2>3. ASSUME NEW id \in Ids, nounOwner[id] # Zero
        PROVE  id < nextNounId
    <3>1. ~(id >= nextNounId)
      BY <2>3 DEF CustodyInv, UnmintedInv
    <3> QED  BY <2>1, <2>2, <3>1
  <2>4. \A id \in burned : id \in Ids /\ id < nextNounId
    BY DEF CustodyInv, UnmintedInv
  <2> QED  BY <2>1, <2>2, <2>3, <2>4
<1>1. CASE UNCHANGED historyVars
  BY <1>1 DEF historyVars, vars, CustodyInv, UnmintedInv, Custody, Live, HasBegun
<1>2. CASE HistoryNext
  <2>1. /\ Next /\ nextNounId' \in Nat /\ nextNounId' >= nextNounId
        /\ burned' = IF minter # House THEN burned \cup Destroyed ELSE burned
    BY <1>0, <1>2, StepsOfTheHouse DEF HistoryNext
  <2>2. \A id \in burned' : id \in Ids /\ id < nextNounId'
    <3>1. \A id \in Destroyed : id \in Ids /\ id < nextNounId
      BY <1>0 DEF Destroyed
    <3>2. \A id \in burned' : id \in Ids /\ id < nextNounId
      BY <1>0, <2>1, <3>1
    <3> QED  BY <1>0, <2>1, <3>2
  <2>3. ASSUME \A id \in Ids : id >= nextNounId' => nounOwner'[id] = Zero, ~Live'
        PROVE  CustodyInv'
    BY <2>2, <2>3 DEF CustodyInv, UnmintedInv, Custody
  <2>4. ASSUME \A id \in Ids : id >= nextNounId' => nounOwner'[id] = Zero,
               Opens, minter = House, MintedId \in Ids, nounOwner'[MintedId] = House
        PROVE  CustodyInv'
    <3>1. auction'.nounId = MintedId /\ MintedId \in Nat /\ MintedId >= nextNounId
      BY <1>0, <2>4, OpenedRecord
    <3>2. burned' = burned
      BY <2>1, <2>4
    <3> HIDE DEF MintedId
    <3>3. MintedId \notin burned'
      BY <1>0, <3>1, <3>2
    <3> QED  BY <2>2, <2>4, <3>1, <3>3 DEF CustodyInv, UnmintedInv, Custody
  <2>5. ASSUME \A id \in Ids : id >= nextNounId' => nounOwner'[id] = Zero,
               Live' => Live /\ auction'.nounId = auction.nounId,
               Live => nounOwner'[auction.nounId] = nounOwner[auction.nounId]
        PROVE  CustodyInv'
    <3>1. CASE ~Live'
      BY <2>3, <2>5, <3>1
    <3>2. CASE Live'
      <4>1. /\ Live /\ auction'.nounId = auction.nounId /\ auction.nounId \in Ids
            /\ nounOwner'[auction.nounId] = nounOwner[auction.nounId]
        BY <1>0, <2>5, <3>2
      <4>2. auction.nounId \notin Destroyed
        BY <4>1 DEF Destroyed
      <4>3. auction.nounId \in burned' <=> auction.nounId \in burned
        BY <2>1, <4>2
      <4>4. nounOwner[auction.nounId] = IF auction.nounId \in burned THEN Zero ELSE House
        BY <4>1 DEF CustodyInv, Custody
      <4> QED  BY <2>2, <2>5, <4>1, <4>3, <4>4 DEF CustodyInv, UnmintedInv, Custody
    <3> QED  BY <3>1, <3>2
  <2>6. ASSUME UNCHANGED <<nounOwner, nextNounId>>,
               Live' => Live /\ auction'.nounId = auction.nounId
        PROVE  CustodyInv'
    BY <2>5, <2>6 DEF CustodyInv, UnmintedInv
  <2>7. ASSUME NEW owners \in [Ids -> Addresses], NEW current, NEW flag,
               createAuction(owners, current, flag),
               \A id \in Ids : id >= nextNounId => owners[id] = Zero,
               auction' = current => ~Live'
        PROVE  CustodyInv'
    <3>1. /\ \A id \in Ids : id >= nextNounId' => nounOwner'[id] = owners[id]
          /\ \/ auction' = current
             \/ /\ Opens /\ minter = House
                /\ MintedId \in Ids /\ nounOwner'[MintedId] = House
      BY <2>7, CreatingOwners
    <3>2. \A id \in Ids : id >= nextNounId' => nounOwner'[id] = Zero
      BY <1>0, <2>1, <2>7, <3>1
    <3> QED  BY <2>3, <2>4, <2>7, <3>1, <3>2
  <2>8. ASSUME CanSettle
        PROVE  /\ OwnersAfterSettling \in [Ids -> Addresses]
               /\ \A id \in Ids : id >= nextNounId => OwnersAfterSettling[id] = Zero
               /\ auction' = SettledAuction => ~Live'
    <3>1. Live /\ auction.nounId \in Ids /\ auction.nounId < nextNounId
      BY <1>0, <2>8 DEF CanSettle
    <3>2. auction.bidder \in Addresses
      BY <1>0, AccountsDiffer DEF TypeOK, Auction, Addresses
    <3>3. OwnersAfterSettling \in [Ids -> Addresses]
      BY <1>0, <3>2 DEF OwnersAfterSettling
    <3>4. ASSUME NEW id \in Ids, id >= nextNounId
          PROVE  OwnersAfterSettling[id] = Zero
      <4>1. id # auction.nounId
        BY <1>0, <3>1, <3>4
      <4>2. nounOwner[id] = Zero
        BY <3>4 DEF CustodyInv, UnmintedInv
      <4> QED  BY <1>0, <4>1, <4>2 DEF OwnersAfterSettling
    <3> QED  BY <1>0, <3>3, <3>4, SettledRecord DEF Live
  <2>9. CASE settleCurrentAndCreateNewAuction
    <3>1. CanSettle /\ createAuction(OwnersAfterSettling, SettledAuction, paused)
      BY <2>9 DEF settleCurrentAndCreateNewAuction
    <3> QED  BY <2>7, <2>8, <3>1
  <2>10. CASE settleAuction
    <3>1. /\ CanSettle /\ nounOwner' = OwnersAfterSettling /\ auction' = SettledAuction
          /\ nextNounId' = nextNounId
      BY <2>10 DEF settleAuction
    <3> QED  BY <2>3, <2>8, <3>1
  <2>11. ASSUME NEW b \in Bidders, NEW id \in Ids, NEW value \in 0 .. Budget,
                createBid(b, id, value)
         PROVE  CustodyInv'
    <3>1. UNCHANGED <<nounOwner, nextNounId>>
      BY <2>11 DEF createBid
    <3>2. auction'.nounId = auction.nounId /\ (Live' => Live)
      BY <1>0, <2>11, BidRecord DEF Live, HasBegun
    <3> QED  BY <2>6, <3>1, <3>2
  <2>12. CASE unpause
    <3>1. CASE ~HasBegun \/ auction.settled
      <4>1. createAuction(nounOwner, auction, FALSE)
        BY <2>12, <3>1 DEF unpause
      <4>2. auction' = auction => ~Live'
        BY <3>1 DEF Live, HasBegun
      <4> QED  BY <1>0, <2>7, <4>1, <4>2 DEF CustodyInv, UnmintedInv
    <3>2. CASE ~(~HasBegun \/ auction.settled)
      BY <2>6, <2>12, <3>2 DEF unpause, Live, HasBegun
    <3> QED  BY <3>1, <3>2
  <2>13. CASE \/ pause \/ SeederChanges \/ Tick
              \/ \E t \in TimeBuffers : setTimeBuffer(t)
              \/ \E p \in ReservePrices : setReservePrice(p)
              \/ \E p \in Percentages : setMinBidIncrementPercentage(p)
              \/ \E m \in Minters : setMinter(m)
    <3>1. UNCHANGED <<auction, nounOwner, nextNounId>>
      BY <2>13 DEF pause, SeederChanges, Tick, setTimeBuffer, setReservePrice,
                   setMinBidIncrementPercentage, setMinter
    <3> QED  BY <2>6, <3>1 DEF Live, HasBegun
  <2>14. CASE OtherMinterMints
    <3>1. TokenMint(nounOwner) /\ auction' = auction
      BY <2>14 DEF OtherMinterMints
    <3>2. /\ \A id \in Ids : id < nextNounId => nounOwner'[id] = nounOwner[id]
          /\ \A id \in Ids : id >= nextNounId' => nounOwner'[id] = nounOwner[id]
      BY <1>0, <3>1, TokenMintEffect, TokenMintLater
    <3>3. \A id \in Ids : id >= nextNounId' => nounOwner'[id] = Zero
      <4>1. \A id \in Ids : id >= nextNounId' => id >= nextNounId
        BY <1>0, <2>1
      <4> QED  BY <3>2, <4>1 DEF CustodyInv, UnmintedInv
    <3>4. Live => nounOwner'[auction.nounId] = nounOwner[auction.nounId]
      BY <1>0, <3>2
    <3> QED  BY <2>5, <3>1, <3>3, <3>4 DEF Live, HasBegun
  <2>15. ASSUME NEW id \in Ids, OtherMinterBurns(id)
         PROVE  CustodyInv'
    <3>1. /\ minter # House /\ nounOwner[id] # Zero /\ auction' = auction
          /\ nounOwner' = [nounOwner EXCEPT ![id] = Zero] /\ nextNounId' = nextNounId
      BY <2>15 DEF OtherMinterBurns
    <3>2. \A i \in Ids : nounOwner'[i] = IF i = id THEN Zero ELSE nounOwner[i]
      BY <1>0, <3>1
    <3>3. \A i \in Ids : i >= nextNounId' => nounOwner'[i] = Zero
      BY <3>1, <3>2 DEF CustodyInv, UnmintedInv
    <3>4. CASE Live /\ auction.nounId = id
      <4>1. id \in burned'
        BY <2>1, <3>1, <3>2 DEF Destroyed
      <4> QED  BY <2>2, <3>1, <3>2, <3>3, <3>4, <4>1 DEF CustodyInv, UnmintedInv, Custody
    <3>5. CASE ~(Live /\ auction.nounId = id)
      <4>1. Live => nounOwner'[auction.nounId] = nounOwner[auction.nounId]
        BY <1>0, <3>2, <3>5
      <4> QED  BY <2>5, <3>1, <3>3, <4>1 DEF Live, HasBegun
    <3> QED  BY <3>4, <3>5
  <2>16. ASSUME NEW id \in Ids, NEW to \in Bidders \cup {House}, HolderTransfers(id, to)
         PROVE  CustodyInv'
    <3>1. /\ nounOwner[id] \notin {Zero, House} /\ auction' = auction
          /\ nounOwner' = [nounOwner EXCEPT ![id] = to] /\ nextNounId' = nextNounId
      BY <2>16 DEF HolderTransfers
    <3>2. \A i \in Ids : nounOwner'[i] = IF i = id THEN to ELSE nounOwner[i]
      BY <1>0, <3>1
    <3>3. \A i \in Ids : i >= nextNounId' => nounOwner'[i] = Zero
      BY <1>0, <3>1, <3>2 DEF CustodyInv, UnmintedInv
    <3>4. Live => nounOwner'[auction.nounId] = nounOwner[auction.nounId]
      BY <1>0, <3>1, <3>2 DEF CustodyInv, Custody
    <3> QED  BY <2>5, <3>1, <3>3, <3>4 DEF Live, HasBegun
  <2> QED  BY <2>1, <2>9, <2>10, <2>11, <2>12, <2>13, <2>14, <2>15, <2>16
           DEF Next, Settle, OwnerActs, Environment
<1> QED  BY <1>1, <1>2

\* The noun on auction is the house's until the auction is settled, whoever mints,
\* transfers, refuses a payment or lets a mint fail; the one who can take it away is
\* a minter other than the house, by burning it.
THEOREM CustodyKept == HistorySpec => []Custody
<1>1. HistoryInit => CustodyInv
  BY DEF HistoryInit, Init, CustodyInv, UnmintedInv, Custody, Live, HasBegun
<1>2. HouseInv /\ CustodyInv /\ [HistoryNext]_historyVars => CustodyInv'
  BY CustodyStep
<1>3. CustodyInv => Custody
  BY DEF CustodyInv
<1> QED  BY <1>1, <1>2, <1>3, HistoryInvariant, PTL DEF HistorySpec

SaleRecords == [nounId : Nat, buyer : Bidders, price : Nat]

\* What was sold was minted before, is not on auction, and was sold once.
SalesInv ==
  /\ sales \subseteq SaleRecords /\ IsFiniteSet(sales)
  /\ \A s \in sales : s.nounId < nextNounId /\ (Live => s.nounId # auction.nounId)
  /\ \A s, t \in sales : s.nounId = t.nounId => s = t

\* A sale is recorded exactly when an auction with a bid ends.
LEMMA SalesGrow ==
  ASSUME HouseInv, BidOnMinted, HistoryNext
  PROVE  \/ ~Ends /\ sales' = sales
         \/ Ends /\ ~Live' /\ auction.bidder = Zero /\ sales' = sales
         \/ Ends /\ auction.bidder = Zero /\ Opens /\ sales' = sales
         \/ /\ Ends /\ auction.bidder # Zero /\ sales' = sales \cup {SaleMade}
            /\ ~Live' \/ Opens
<1>0. /\ TypeOK /\ [Next]_vars /\ nextNounId \in Nat /\ auction.nounId \in Nat
      /\ sales' = IF Closes /\ auction.bidder # Zero THEN sales \cup {SaleMade} ELSE sales
  BY DEF HouseInv, TypeOK, Auction, HistoryNext
<1>1. CASE Ends
  <2>1. Live
    BY <1>1 DEF Ends, CanSettle
  <2>2. CASE auction' = SettledAuction
    <3>1. Closes /\ ~Live'
      BY <1>0, <2>1, <2>2, SettledRecord DEF Closes, Live
    <3> QED  BY <1>0, <1>1, <3>1
  <2>3. CASE Opens
    <3>1. Closes
      BY <1>0, <2>1, <2>3, OpenedRecord DEF Closes, BidOnMinted
    <3> QED  BY <1>0, <1>1, <2>3, <3>1
  <2> QED  BY <1>1, <2>2, <2>3 DEF Ends
<1>2. CASE ~Ends
  <2>1. ~Closes
    <3>1. CASE Stays
      BY <3>1 DEF Stays, Closes, Live
    <3>2. CASE Bids
      BY <1>0, <3>2, BidRecord DEF Bids, Closes, Live
    <3>3. CASE Begins
      BY <3>3 DEF Begins, Closes
    <3> QED  BY <1>0, <1>2, <3>1, <3>2, <3>3, StepsOfTheHouse
  <2> QED  BY <1>0, <1>2, <2>1
<1> QED  BY <1>1, <1>2

\* What a settlement records.
LEMMA SaleIsASale ==
  ASSUME TypeOK, auction.bidder # Zero
  PROVE  /\ SaleMade \in SaleRecords /\ SaleMade.nounId = auction.nounId
         /\ SaleMade.buyer = auction.bidder /\ SaleMade.price = auction.amount
BY DEF TypeOK, Auction, SaleMade, SaleRecords

\* Every step keeps the recorded sales apart from the auction that runs.
LEMMA SalesInvStep ==
  ASSUME HouseInv, BidOnMinted, SalesInv, [HistoryNext]_historyVars
  PROVE  SalesInv'
<1>0. TypeOK /\ nextNounId \in Nat /\ auction.nounId \in Nat
  BY DEF HouseInv, TypeOK, Auction
<1>1. CASE UNCHANGED historyVars
  BY <1>1 DEF historyVars, vars, SalesInv, Live, HasBegun
<1>2. CASE HistoryNext
  <2>1. [Next]_vars /\ nextNounId' \in Nat /\ nextNounId' >= nextNounId
    BY <1>0, <1>2, StepsOfTheHouse DEF HistoryNext
  <2>2. \A s \in sales : s.nounId \in Nat
    BY DEF SalesInv, SaleRecords
  <2>3. ASSUME ~Ends, sales' = sales
        PROVE  SalesInv'
    <3>1. CASE Stays
      BY <1>0, <2>1, <2>2, <2>3, <3>1 DEF Stays, SalesInv, Live, HasBegun
    <3>2. CASE Bids
      <4>1. Live /\ auction'.nounId = auction.nounId
        BY <1>0, <3>2, BidRecord, BidEffect DEF Bids
      <4> QED  BY <1>0, <2>1, <2>2, <2>3, <4>1 DEF SalesInv
    <3>3. CASE Begins
      BY <1>0, <2>1, <2>2, <2>3, <3>3, OpenedRecord DEF Begins, SalesInv
    <3> QED  BY <1>0, <2>1, <2>3, <3>1, <3>2, <3>3, StepsOfTheHouse
  <2>4. ASSUME ~Live' \/ Opens, sales' = sales
        PROVE  SalesInv'
    BY <1>0, <2>1, <2>2, <2>4, OpenedRecord DEF SalesInv
  <2>5. ASSUME Ends, auction.bidder # Zero, sales' = sales \cup {SaleMade}, ~Live' \/ Opens
        PROVE  SalesInv'
    <3>1. /\ Live /\ auction.nounId < nextNounId
          /\ SaleMade \in SaleRecords /\ SaleMade.nounId = auction.nounId
      BY <1>0, <2>5, SaleIsASale DEF Ends, CanSettle, BidOnMinted
    <3>2. IsFiniteSet(sales')
      BY <2>5, FS_AddElement DEF SalesInv
    <3>3. \A s \in sales' : s.nounId < nextNounId /\ s.nounId \in Nat
      BY <2>2, <2>5, <3>1, <1>0 DEF SalesInv
    <3>4. \A s \in sales' : s.nounId < nextNounId' /\ (Live' => s.nounId # auction'.nounId)
      BY <1>0, <2>1, <2>5, <3>3, OpenedRecord
    <3>5. \A s, t \in sales' : s.nounId = t.nounId => s = t
      BY <2>5, <3>1 DEF SalesInv
    <3> QED  BY <2>5, <3>1, <3>2, <3>4, <3>5 DEF SalesInv
  <2> QED  BY <1>2, <2>3, <2>4, <2>5, SalesGrow
<1> QED  BY <1>1, <1>2

\* The invariant of the house and of its recorded sales.
LEMMA SalesInvariant == HistorySpec => [](HouseInv /\ BidOnMinted /\ SalesInv)
<1>1. HistoryInit => SalesInv
  BY FS_EmptySet DEF HistoryInit, SalesInv
<1>2. HouseInv /\ BidOnMinted /\ SalesInv /\ [HistoryNext]_historyVars => SalesInv'
  BY SalesInvStep
<1> QED  BY <1>1, <1>2, HistoryInvariant, PTL DEF HistorySpec

\* An id a nounder is rewarded with.
Reward(id) == id % RewardStep = 0 /\ id <= LastReward

\* No reward is on auction, and none was sold.
NoRewardSold == (Live => ~Reward(auction.nounId)) /\ \A s \in sales : ~Reward(s.nounId)

\* No noun is sold twice, and no reward is sold.  (With a step of one the noun
\* minted beside a reward would be due as a reward, too.)
THEOREM SoldOnceOnly ==
  ASSUME RewardStep > 1
  PROVE  HistorySpec => []SoldOnce
<1>1. HistoryInit => NoRewardSold
  BY DEF HistoryInit, Init, NoRewardSold, Live, HasBegun
<1>2. HouseInv /\ BidOnMinted /\ NoRewardSold /\ [HistoryNext]_historyVars => NoRewardSold'
  <2> SUFFICES ASSUME HouseInv, BidOnMinted, NoRewardSold, [HistoryNext]_historyVars
               PROVE  NoRewardSold'
    OBVIOUS
  <2>0. TypeOK /\ nextNounId \in Nat
    BY DEF HouseInv, TypeOK
  <2>1. CASE UNCHANGED historyVars
    BY <2>1 DEF historyVars, vars, NoRewardSold, Live, HasBegun
  <2>2. CASE HistoryNext
    <3>1. Opens => ~Reward(auction'.nounId)
      <4>1. RewardDue => ~Reward(nextNounId + 1)
        BY <2>0, AuctionAssumption, AfterAMultiple DEF RewardDue, Reward
      <4>2. ~RewardDue => ~Reward(nextNounId)
        BY DEF RewardDue, Reward
      <4>3. ~Reward(MintedId)
        BY <4>1, <4>2 DEF MintedId
      <4> QED  BY <2>0, <4>3, OpenedRecord
    <3>2. ~Opens /\ Live' => Live /\ auction'.nounId = auction.nounId
      <4>1. CASE Stays
        BY <4>1 DEF Stays, Live, HasBegun
      <4>2. CASE Bids
        BY <2>0, <4>2, BidRecord, BidEffect DEF Bids
      <4>3. CASE auction' = SettledAuction
        BY <2>0, <4>3, SettledRecord DEF Live
      <4> QED  BY <2>0, <2>2, <4>1, <4>2, <4>3, StepsOfTheHouse DEF HistoryNext, Begins, Ends
    <3>3. \/ sales' = sales
          \/ sales' = sales \cup {SaleMade} /\ auction.bidder # Zero /\ Live
      BY <2>2, SalesGrow DEF Ends, CanSettle
    <3> QED  BY <2>0, <3>1, <3>2, <3>3, SaleIsASale DEF NoRewardSold
  <2> QED  BY <2>1, <2>2
<1>3. SalesInv /\ NoRewardSold => SoldOnce
  BY AuctionAssumption DEF SalesInv, SaleRecords, NoRewardSold, Reward, SoldOnce
<1> QED  BY <1>1, <1>2, <1>3, SalesInvariant, PTL DEF HistorySpec

\* What a payment out of the house does to everybody else.
LEMMA PaysWealth ==
  ASSUME NEW e \in [Accounts -> Nat], weth \in [Accounts -> Nat], NEW to \in Accounts,
         NEW amount \in Nat, amount <= e[House], Pays(e, to, amount),
         NEW a \in Accounts, a # House
  PROVE  eth'[a] + weth'[a] = e[a] + weth[a] + (IF a = to THEN amount ELSE 0)
<1>0. House \in Accounts /\ e[a] \in Nat /\ weth[a] \in Nat
  BY DEF Accounts
<1> DEFINE taken == [e EXCEPT ![House] = @ - amount]
<1>1. DOMAIN taken = Accounts /\ taken[a] = e[a]
  BY <1>0
<1>2. CASE eth' = Moved(e, House, to, amount) /\ weth' = weth
  <2>1. eth' = [taken EXCEPT ![to] = @ + amount]
    BY <1>2 DEF Moved
  <2> HIDE DEF taken
  <2>2. eth'[a] = IF a = to THEN e[a] + amount ELSE e[a]
    BY <1>1, <2>1
  <2> QED  BY <1>0, <1>2, <2>2
<1>3. CASE eth' = taken /\ weth' = [weth EXCEPT ![to] = @ + amount]
  <2> HIDE DEF taken
  <2>1. weth'[a] = (IF a = to THEN weth[a] + amount ELSE weth[a]) /\ eth'[a] = e[a]
    BY <1>1, <1>3
  <2> QED  BY <1>0, <2>1
<1> QED  BY <1>2, <1>3 DEF Pays

Wealth(a) == eth[a] + weth[a]
Deposit(b) == IF auction.bidder = b THEN Escrow ELSE 0

\* A bid moves money between its sender, its predecessor and the house.
LEMMA BidMovesMoney ==
  ASSUME HouseInv, NEW sender \in Bidders, NEW nounId, NEW value \in Nat,
         createBid(sender, nounId, value)
  PROVE  /\ \A b \in Bidders : Wealth(b)' + Deposit(b)' = Wealth(b) + Deposit(b)
         /\ Wealth(Treasury)' = Wealth(Treasury)
<1>0. /\ TypeOK /\ eth \in [Accounts -> Nat] /\ weth \in [Accounts -> Nat]
      /\ auction.amount \in Nat /\ auction.bidder \in Bidders \cup {Zero}
  BY DEF HouseInv, TypeOK, Auction
<1>1. Live /\ Live' /\ auction'.bidder = sender /\ auction'.amount = value
  BY <1>0, BidEffect, BidRecord DEF Live, HasBegun
<1>2. /\ Deposit(sender)' = value
      /\ \A b \in Bidders : b # sender => Deposit(b)' = 0
  BY <1>1, AccountsDiffer DEF Deposit, Escrow
<1>3. \A b \in Bidders : Deposit(b) = IF b = auction.bidder THEN auction.amount ELSE 0
  BY <1>1, AccountsDiffer DEF Deposit, Escrow
<1> DEFINE received == Moved(eth, sender, House, value)
           taken == [eth EXCEPT ![sender] = @ - value]
<1>4. /\ sender \in Accounts /\ sender # House /\ House \in Accounts /\ value <= eth[sender]
      /\ Refunds(received, value)
  BY AccountsDiffer DEF createBid
<1>5. received \in [Accounts -> Nat] /\ received[House] = eth[House] + value
  BY <1>0, <1>4, MovedBalances
<1>6. \A a \in Accounts : a # House =>
        received[a] = IF a = sender THEN eth[a] - value ELSE eth[a]
  <2>1. DOMAIN taken = Accounts
        /\ \A a \in Accounts : taken[a] = IF a = sender THEN eth[a] - value ELSE eth[a]
    BY <1>0, <1>4
  <2>2. received = [taken EXCEPT ![House] = @ + value]
    BY DEF Moved
  <2> HIDE DEF taken, received
  <2> QED  BY <2>1, <2>2
<1> HIDE DEF received
<1>7. \A a \in Accounts : a # House =>
        Wealth(a)' = received[a] + weth[a] + (IF a = auction.bidder THEN auction.amount ELSE 0)
  <2> SUFFICES ASSUME NEW a \in Accounts, a # House
               PROVE  eth'[a] + weth'[a] =
                        received[a] + weth[a] + (IF a = auction.bidder THEN auction.amount ELSE 0)
    BY DEF Wealth
  <2>1. CASE auction.bidder = Zero
    <3>1. a # Zero /\ eth' = received /\ weth' = weth
      BY <1>4, <2>1, AccountsDiffer DEF Refunds
    <3>2. received[a] \in Nat /\ weth[a] \in Nat
      BY <1>0, <1>5
    <3> QED  BY <2>1, <3>1, <3>2
  <2>2. CASE auction.bidder # Zero
    <3>1. auction.bidder \in Accounts /\ Pays(received, auction.bidder, auction.amount)
      BY <1>0, <1>4, <2>2, AccountsDiffer DEF Refunds
    <3>2. auction.amount <= received[House]
      BY <1>0, <1>1, <1>4, <1>5, <2>2 DEF HouseInv, Solvent, Escrow
    <3> QED  BY <1>0, <1>5, <3>1, <3>2, PaysWealth
  <2> QED  BY <2>1, <2>2
<1>8. ASSUME NEW b \in Bidders
      PROVE  Wealth(b)' + Deposit(b)' = Wealth(b) + Deposit(b)
  <2>1. b \in Accounts /\ b # House
    BY AccountsDiffer
  <2>2. eth[b] \in Nat /\ weth[b] \in Nat
    BY <1>0, <2>1
  <2>3. Wealth(b) = eth[b] + weth[b]
    BY DEF Wealth
  <2>4. Deposit(b)' = IF b = sender THEN value ELSE 0
    BY <1>2
  <2> QED  BY <1>0, <1>3, <1>6, <1>7, <2>1, <2>2, <2>3, <2>4
<1>9. Wealth(Treasury)' = Wealth(Treasury)
  <2>1. Treasury \in Accounts /\ Treasury # House /\ Treasury \notin Bidders /\ Treasury # Zero
    BY AuctionAssumption DEF Accounts
  <2>2. eth[Treasury] \in Nat /\ weth[Treasury] \in Nat
    BY <1>0, <2>1
  <2> QED  BY <1>0, <1>6, <1>7, <2>1, <2>2 DEF Wealth
<1> QED  BY <1>8, <1>9

\* The end of an auction moves the standing bid to the treasury.
LEMMA EndMovesMoney ==
  ASSUME HouseInv, Ends
  PROVE  /\ \A b \in Bidders : Wealth(b)' = Wealth(b) /\ Deposit(b)' = 0
         /\ Wealth(Treasury)' = Wealth(Treasury) + auction.amount
<1>0. /\ TypeOK /\ eth \in [Accounts -> Nat] /\ weth \in [Accounts -> Nat]
      /\ auction.amount \in Nat /\ auction.bidder \in Bidders \cup {Zero}
  BY DEF HouseInv, TypeOK, Auction
<1>1. Live
  BY DEF Ends, CanSettle
<1>2. eth[House] = auction.amount
  BY <1>1 DEF HouseInv, AuctionInv, Solvent, Escrow
<1>3. \A b \in Bidders : Deposit(b)' = 0
  <2>1. ~Live' \/ auction'.bidder = Zero
    BY <1>0, SettledRecord, OpenedRecord DEF Ends, Live
  <2> QED  BY <2>1 DEF Deposit, Escrow
<1>4. ASSUME NEW a \in Accounts, a # House
      PROVE  Wealth(a)' = Wealth(a) + (IF a = Treasury THEN auction.amount ELSE 0)
  <2>1. eth[a] \in Nat /\ weth[a] \in Nat
    BY <1>0, <1>4
  <2>2. CASE auction.amount > 0
    <3>1. Pays(eth, Treasury, auction.amount)
      BY <2>2 DEF Ends, PaysTreasury
    <3> QED  BY <1>0, <1>2, <1>4, <3>1, AccountsDiffer, PaysWealth DEF Wealth
  <2>3. CASE ~(auction.amount > 0)
    <3>1. UNCHANGED <<eth, weth>> /\ auction.amount = 0
      BY <1>0, <2>3 DEF Ends, PaysTreasury, money
    <3> QED  BY <2>1, <3>1 DEF Wealth
  <2> QED  BY <2>2, <2>3
<1>5. \A b \in Bidders : b \in Accounts /\ b # House /\ b # Treasury /\ Wealth(b) \in Nat
  <2>1. \A b \in Bidders : b \in Accounts /\ b # House /\ b # Treasury
    BY AuctionAssumption DEF Accounts
  <2> QED  BY <1>0, <2>1 DEF Wealth
<1> QED  BY <1>3, <1>4, <1>5, AccountsDiffer

\* Bidders and the treasury are square with the sales, whatever refunds, payouts
\* and WETH fallbacks there were, and however often the owner interfered.
THEOREM NobodyPaysForMore == HistorySpec => []PayOnlyForWhatIsWon
<1> DEFINE Square ==
             /\ \A b \in Bidders : Wealth(b) + Deposit(b) = Budget - PricePaid(b)
             /\ Wealth(Treasury) = Proceeds(sales)
<1>0. PayOnlyForWhatIsWon <=> Square
  BY DEF PayOnlyForWhatIsWon, Wealth, Deposit
<1>1. HistoryInit => Square
  <2> SUFFICES ASSUME HistoryInit
               PROVE  Square
    OBVIOUS
  <2>1. ~Live /\ sales = {}
    BY DEF HistoryInit, Init, Live, HasBegun
  <2>3. /\ \A b \in Bidders : PricePaid(b) = 0
        /\ Proceeds(sales) = 0
    <3>1. \A b \in Bidders : {s \in sales : s.buyer = b} = {}
      BY <2>1
    <3> QED  BY <2>1, <3>1, SumEmpty DEF PricePaid, Proceeds
  <2>4. ASSUME NEW b \in Bidders
        PROVE  Wealth(b) = Budget /\ Deposit(b) = 0
    <3>1. b \in Accounts /\ eth[b] = Budget /\ weth[b] = 0
      BY AccountsDiffer DEF HistoryInit, Init
    <3> QED  BY <2>1, <3>1, AuctionAssumption DEF Wealth, Deposit, Escrow
  <2>5. Wealth(Treasury) = 0
    <3>1. Treasury \in Accounts /\ Treasury \notin Bidders
      BY AuctionAssumption DEF Accounts
    <3> QED  BY <3>1 DEF Wealth, HistoryInit, Init
  <2> QED  BY <2>3, <2>4, <2>5, AuctionAssumption
<1>2. HouseInv /\ BidOnMinted /\ SalesInv /\ Square /\ [HistoryNext]_historyVars => Square'
  <2> SUFFICES ASSUME HouseInv, BidOnMinted, SalesInv, Square, [HistoryNext]_historyVars
               PROVE  Square'
    OBVIOUS
  <2>0. TypeOK /\ eth \in [Accounts -> Nat] /\ weth \in [Accounts -> Nat]
        /\ auction.amount \in Nat
    BY DEF HouseInv, TypeOK, Auction
  <2>1. ASSUME sales' = sales
        PROVE  (\A b \in Bidders : PricePaid(b)' = PricePaid(b))
               /\ Proceeds(sales)' = Proceeds(sales)
    BY <2>1 DEF PricePaid, Proceeds
  <2>2. ASSUME Stays \/ Begins, sales' = sales
        PROVE  Square'
    <3>1. \A b \in Bidders : Deposit(b)' = Deposit(b)
      BY <2>0, <2>2, OpenedRecord DEF Stays, Begins, Deposit, Escrow, Live, HasBegun
    <3>2. \A a \in Bidders \cup {Treasury} : Wealth(a)' = Wealth(a)
      BY <2>2 DEF Stays, Begins, Wealth
    <3> QED  BY <2>1, <2>2, <3>1, <3>2
  <2>3. ASSUME Bids, sales' = sales
        PROVE  Square'
    <3>1. PICK b \in Bidders, id \in Ids, value \in 0 .. Budget : createBid(b, id, value)
      BY <2>3 DEF Bids
    <3>2. value \in Nat
      BY AuctionAssumption
    <3>3. /\ \A c \in Bidders : Wealth(c)' + Deposit(c)' = Wealth(c) + Deposit(c)
          /\ Wealth(Treasury)' = Wealth(Treasury)
      BY <3>1, <3>2, BidMovesMoney
    <3> QED  BY <2>1, <2>3, <3>3
  <2>4. ASSUME Ends, auction.bidder = Zero, sales' = sales
        PROVE  Square'
    <3>1. auction.amount = 0 /\ Wealth(Treasury) \in Nat
      BY <2>0, <2>4, AccountsDiffer DEF HouseInv, AuctionInv, Wealth
    <3>2. \A b \in Bidders : Deposit(b) = 0
      BY <2>4, AccountsDiffer DEF Deposit, Escrow
    <3> QED  BY <2>1, <2>4, <3>1, <3>2, EndMovesMoney
  <2>5. ASSUME Ends, auction.bidder # Zero, sales' = sales \cup {SaleMade}
        PROVE  Square'
    <3>1. /\ SaleMade \in SaleRecords /\ SaleMade.nounId = auction.nounId /\ Live
          /\ SaleMade.buyer = auction.bidder /\ SaleMade.price = auction.amount
      BY <2>0, <2>5, SaleIsASale DEF Ends, CanSettle
    <3>2. SaleMade \notin sales /\ IsFiniteSet(sales) /\ \A s \in sales : s.price \in Nat
      BY <3>1 DEF SalesInv, SaleRecords
    <3> DEFINE made == SaleMade
               f == [s \in sales |-> s.price]
               g == [s \in sales \cup {made} |-> s.price]
    <3>3. /\ \A sold : Proceeds(sold) = SumFunctionOnSet(f, sold)
          /\ \A b : PricePaid(b)' = SumFunctionOnSet(g, {s \in sales' : s.buyer = b})
          /\ Proceeds(sales)' = SumFunctionOnSet(g, sales')
      BY <2>5 DEF Proceeds, PricePaid
    <3>4. ASSUME NEW sold, sold \subseteq sales
          PROVE  /\ SumFunctionOnSet(f, sold) \in Nat
                 /\ SumFunctionOnSet(g, sold) = SumFunctionOnSet(f, sold)
                 /\ SumFunctionOnSet(g, sold \cup {made})
                      = auction.amount + SumFunctionOnSet(f, sold)
      <4>1. /\ made.price = auction.amount /\ made \notin sales
            /\ \A s \in sales : f[s] = s.price
            /\ \A s \in sales \cup {made} : g[s] = s.price
        BY <3>1, <3>2
      <4> HIDE DEF made, f, g
      <4>2. IsFiniteSet(sold) /\ made \notin sold
        BY <3>2, <3>4, <4>1, FS_Subset
      <4>3. \A s \in sold : f[s] = g[s] /\ f[s] \in Nat
        BY <3>2, <3>4, <4>1
      <4>4. \A s \in sold \cup {made} : g[s] \in Nat
        BY <2>0, <3>2, <3>4, <4>1
      <4>5. SumFunctionOnSet(f, sold) \in Nat
        BY <4>2, <4>3, SumRemove
      <4>6. SumFunctionOnSet(g, sold) = SumFunctionOnSet(f, sold)
        BY <4>2, <4>3, SumSame
      <4>7. SumFunctionOnSet(g, sold \cup {made}) = g[made] + SumFunctionOnSet(g, sold)
        BY <4>2, <4>4, SumAdd
      <4> QED  BY <4>1, <4>5, <4>6, <4>7
    <3>5. Proceeds(sales)' = auction.amount + Proceeds(sales)
      <4>1. sales' = sales \cup {made}
        BY <2>5
      <4> HIDE DEF made, f, g
      <4> QED  BY <3>3, <3>4, <4>1
    <3>6. ASSUME NEW b \in Bidders
          PROVE  /\ PricePaid(b) \in Nat
                 /\ PricePaid(b)' = PricePaid(b)
                                      + (IF b = auction.bidder THEN auction.amount ELSE 0)
      <4> DEFINE sold == {s \in sales : s.buyer = b}
      <4>1. {s \in sales' : s.buyer = b} = IF b = auction.bidder THEN sold \cup {made} ELSE sold
        BY <2>5, <3>1
      <4>2. PricePaid(b) = SumFunctionOnSet(f, sold) /\ sold \subseteq sales
        BY <3>3 DEF PricePaid
      <4>3. PricePaid(b)' = SumFunctionOnSet(g, {s \in sales' : s.buyer = b})
        BY <3>3
      <4> HIDE DEF made, f, g
      <4>4. /\ SumFunctionOnSet(f, sold) \in Nat
            /\ SumFunctionOnSet(g, sold) = SumFunctionOnSet(f, sold)
            /\ SumFunctionOnSet(g, sold \cup {made}) = auction.amount + SumFunctionOnSet(f, sold)
        BY <3>4
      <4> HIDE DEF sold
      <4>5. CASE b = auction.bidder
        <5>1. PricePaid(b)' = SumFunctionOnSet(g, sold \cup {made})
          BY <4>1, <4>3, <4>5
        <5> QED  BY <2>0, <4>2, <4>4, <4>5, <5>1
      <4>6. CASE b # auction.bidder
        <5>1. PricePaid(b)' = SumFunctionOnSet(g, sold)
          BY <4>1, <4>3, <4>6
        <5> QED  BY <4>2, <4>4, <4>6, <5>1
      <4> QED  BY <4>5, <4>6
    <3>7. /\ \A b \in Bidders : Wealth(b)' = Wealth(b) /\ Deposit(b)' = 0
          /\ Wealth(Treasury)' = Wealth(Treasury) + auction.amount
      BY <2>5, EndMovesMoney
    <3>8. \A b \in Bidders : Deposit(b) = IF b = auction.bidder THEN auction.amount ELSE 0
      BY <3>1, AccountsDiffer DEF Deposit, Escrow
    <3>9. ASSUME NEW b \in Bidders
          PROVE  Wealth(b)' + Deposit(b)' = Budget - PricePaid(b)'
      <4>1. Wealth(b) \in Nat /\ Budget \in Nat
        BY <2>0, AccountsDiffer, AuctionAssumption DEF Wealth
      <4>2. Wealth(b) + Deposit(b) = Budget - PricePaid(b)
        OBVIOUS
      <4> HIDE DEF Square
      <4> QED  BY <2>0, <3>6, <3>7, <3>8, <4>1, <4>2
    <3>10. Wealth(Treasury)' = Proceeds(sales)'
      <4>1. Wealth(Treasury) \in Nat /\ Wealth(Treasury) = Proceeds(sales)
        BY <2>0, AccountsDiffer DEF Wealth
      <4> QED  BY <2>0, <3>5, <3>7, <4>1
    <3> QED  BY <3>9, <3>10
  <2>6. CASE UNCHANGED historyVars
    BY <2>2, <2>6 DEF historyVars, vars, Stays
  <2>7. CASE HistoryNext
    <3>1. Stays \/ Bids \/ Begins \/ Ends
      BY <2>0, <2>7, StepsOfTheHouse DEF HistoryNext
    <3> HIDE DEF Square
    <3> QED  BY <2>2, <2>3, <2>4, <2>5, <2>7, <3>1, SalesGrow
  <2> QED  BY <2>6, <2>7
<1> HIDE DEF Square
<1> QED  BY <1>0, <1>1, <1>2, SalesInvariant, PTL DEF HistorySpec
=============================================================================
