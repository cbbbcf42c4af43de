---------------------------- MODULE WebappAuction ----------------------------
(***************************************************************************)
(* The auction page of nouns-webapp: the Redux store that follows the      *)
(* house over a websocket (index.tsx, state/slices), what of it is on      *)
(* display (pages/Auction, components/Auction, AuctionNavigation), and the *)
(* form to bid (components/Bid).  The socket delivers the events of the    *)
(* house in their order; a bid reaches the store only when its block has   *)
(* been fetched, which takes any time.                                     *)
(*                                                                         *)
(* Left out: countdowns (the page knows the time), the wallet connection,  *)
(* and a second send while a first waits for its estimate or signature.    *)
(***************************************************************************)
EXTENDS SubgraphAuction, Integers

CONSTANTS
  Visitor,          \* the account of the page
  FirstAuction,     \* what the page takes for the current auction
  Cent,             \* the step of the amounts the form rounds to
  Inputs            \* bound: what is typed into the form

\* Amounts are in wei, of which the form rounds to a cent of an ETH.
ASSUME WebappAuctionAssumption ==
  /\ Cent \in Nat \ {0} /\ Amounts \subseteq Nat /\ Inputs \subseteq Nat
  /\ LeastBid \in Nat /\ Increment \in Nat
  /\ FirstAuction \in [nounId : Nat, amount : Nat, startTime : Nat, endTime : Nat,
                       bidder : {FirstAuction.bidder}, settled : BOOLEAN]

NoPath == -1          \* undefined

VARIABLES
  activeAuction, storeBids, lastAuctionNounId, onDisplayAuctionNounId, pastAuctions,
  route,            \* the noun of the path /noun/:id, or NoPath on /
  socket,           \* "query" of the last day's bids, "subscribe", "live"
  received,         \* how many events of the house have arrived
  fetching,         \* bids whose block is being fetched
  following,        \* whether nothing was lost since the current auction started
  bidInput,         \* what is typed into the form, 0 for nothing
  placing,          \* the bid that is being sent
  placeBidState, spinner, alertModal

storeVars == <<activeAuction, storeBids, lastAuctionNounId>>
displayVars == <<onDisplayAuctionNounId, pastAuctions, route>>
socketVars == <<socket, received, fetching, following>>
formVars == <<bidInput, placing, placeBidState, spinner, alertModal>>
auctionPageVars == <<storeVars, displayVars, socketVars, formVars>>
webappAuctionVars == <<subgraphAuctionVars, auctionPageVars>>

NothingPlaced == [nounId |-> 0, value |-> 0]

FormIsNew ==
  /\ bidInput' = 0 /\ placing' = NothingPlaced
  /\ placeBidState' = "None" /\ spinner' = FALSE /\ alertModal' = "none"

WebappAuctionInit ==
  /\ activeAuction = FirstAuction /\ storeBids = {}
  /\ lastAuctionNounId = FirstAuction.nounId
  /\ onDisplayAuctionNounId = FirstAuction.nounId /\ pastAuctions = {} /\ route = NoPath
  /\ socket = "query" /\ received = 0 /\ fetching = {} /\ following = FALSE
  /\ bidInput = 0 /\ placing = NothingPlaced
  /\ placeBidState = "None" /\ spinner = FALSE /\ alertModal = "none"

-----------------------------------------------------------------------------
(* What is on display                                                      *)

isNounderNoun(id) == id % 10 = 0

\* Only the noun of a past auction is kept, and of the empty auction that stands for a
\* noun of the nounders.
pastAuction(id) == [NoAuction EXCEPT !.nounId = id]

\* useOnDisplayAuction, of a store that has active for its auction and displays id;
\* NoAuction stands for undefined.
useOnDisplayAuction(active, id) ==
  CASE id = active.nounId -> [active EXCEPT !.settled = FALSE]
    [] id # active.nounId /\ (isNounderNoun(id) \/ id \in pastAuctions) -> pastAuction(id)
    [] OTHER -> NoAuction

\* The effect of the page after each render, with the path at r and id on display.
PageEffect(active, last, r, id) ==
  /\ route' = IF r > last THEN last ELSE r
  /\ onDisplayAuctionNounId' =
       CASE r = NoPath \/ r > last -> last
         [] r # NoPath /\ r <= last /\ useOnDisplayAuction(active, id) = NoAuction -> r
         [] OTHER -> id

\* The query for past auctions is answered, by a subgraph that has handled some of the
\* events; they are never asked for again.
addPastAuctions ==
  /\ pastAuctions = {}
  /\ \E n \in DOMAIN feed :
       pastAuctions' = {feed[i].nounId : i \in {j \in 1 .. n : feed[j].event = "AuctionCreated"}}
  /\ UNCHANGED <<subgraphAuctionVars, storeVars, onDisplayAuctionNounId, route, socketVars,
                 formVars>>

Displayed == useOnDisplayAuction(activeAuction, onDisplayAuctionNounId)
isFirstAuction == Displayed.nounId = 0
isLastAuction == Displayed.nounId = lastAuctionNounId

\* The form is there while the last auction is on display; it forgets what it knew
\* when it goes.
FormFor(last, id) == IF id = last THEN UNCHANGED formVars ELSE FormIsNew
Navigates(r, id) ==
  /\ PageEffect(activeAuction, lastAuctionNounId, r, id)
  /\ FormFor(lastAuctionNounId, onDisplayAuctionNounId')
  /\ UNCHANGED <<subgraphAuctionVars, storeVars, pastAuctions, socketVars>>

prevAuctionHandler ==
  /\ Displayed # NoAuction /\ ~isFirstAuction
  /\ Navigates(Displayed.nounId - 1,
           IF onDisplayAuctionNounId = 0 THEN 0 ELSE onDisplayAuctionNounId - 1)

nextAuctionHandler ==
  /\ Displayed # NoAuction /\ ~isLastAuction
  /\ Navigates(Displayed.nounId + 1,
           IF onDisplayAuctionNounId = lastAuctionNounId THEN onDisplayAuctionNounId
           ELSE onDisplayAuctionNounId + 1)

GoesHome == route # NoPath /\ Navigates(NoPath, onDisplayAuctionNounId)

\* The page is loaded again, at whatever path.
Loads(r) ==
  /\ activeAuction' = FirstAuction /\ storeBids' = {}
  /\ lastAuctionNounId' = FirstAuction.nounId
  /\ PageEffect(NoAuction, FirstAuction.nounId, r, r) /\ pastAuctions' = {}
  /\ socket' = "query" /\ received' = 0 /\ fetching' = {} /\ following' = FALSE
  /\ FormIsNew
  /\ UNCHANGED subgraphAuctionVars

-----------------------------------------------------------------------------
(* The form                                                                *)

auctionEnded(active) == clock >= active.endTime

RoundedUp(n, d) == (n + d - 1) \div d
computeMinimumNextBid(amount) == RoundedUp(amount * (100 + Increment), 100)
minBidEth(minBid) == IF minBid = 0 THEN Cent ELSE RoundedUp(minBid, Cent) * Cent

\* What the form does after a render with this auction and input and the state of its
\* transaction: a bid being mined is a success when it shows up in the store.
Renders(active, input, state) ==
  LET arrived == /\ state \in {"Mining", "mined"}
                 /\ active.bidder = Visitor /\ active.amount = input
  IN IF arrived
     THEN /\ placeBidState' = "Success" /\ alertModal' = "Success" /\ spinner' = FALSE
          /\ bidInput' \in {0, input}  \* cleared, but React may write it back
     ELSE /\ placeBidState' = state /\ bidInput' = input
          /\ spinner' = IF auctionEnded(active) \/ state = placeBidState THEN spinner
                        ELSE state = "Mining" \/ (spinner /\ state \notin {"Fail", "Exception"})
          /\ alertModal' = IF state \in {"Fail", "Exception"} /\ state # placeBidState
                              /\ ~auctionEnded(active)
                           THEN state ELSE alertModal

FormShown == isLastAuction /\ ~isNounderNoun(Displayed.nounId) /\ ~auctionEnded(activeAuction)

bidInputHandler(input) ==
  /\ FormShown /\ input # bidInput
  /\ Renders(activeAuction, input, placeBidState)
  /\ UNCHANGED <<subgraphAuctionVars, storeVars, displayVars, socketVars, placing>>

Sending == placeBidState \in {"estimating", "signing", "Mining", "mined"}

placeBidHandler ==
  /\ FormShown /\ ~Sending /\ bidInput # 0
  /\ LET minBid == computeMinimumNextBid(activeAuction.amount)
     IN IF bidInput < minBid
        THEN /\ alertModal' = "Insufficient" /\ bidInput' = minBidEth(minBid)
             /\ UNCHANGED <<placing, placeBidState>>
        ELSE /\ placing' = [nounId |-> activeAuction.nounId, value |-> bidInput]
             /\ placeBidState' = "estimating"
             /\ UNCHANGED <<alertModal, bidInput>>
  /\ UNCHANGED <<subgraphAuctionVars, storeVars, displayVars, socketVars, spinner>>

\* A bid the house would refuse fails the estimate of its gas: nothing is sent.
estimateBid ==
  /\ placeBidState = "estimating"
  /\ Renders(activeAuction, bidInput,
             IF BidAccepted(placing.nounId, placing.value) THEN "signing" ELSE "None")
  /\ UNCHANGED <<subgraphAuctionVars, storeVars, displayVars, socketVars, placing>>

SignsBid ==
  /\ placeBidState = "signing"
  /\ \E state \in {"Mining", "Exception"} : Renders(activeAuction, bidInput, state)
  /\ UNCHANGED <<subgraphAuctionVars, storeVars, displayVars, socketVars, placing>>

\* The bid is in a block: its event and its receipt are on their way.
BidIsMined(tx) ==
  /\ placeBidState = "Mining" /\ BidAccepted(placing.nounId, placing.value)
  /\ HouseBid(Visitor, placing.value, tx)
  /\ Renders(activeAuction, bidInput, "mined")
  /\ UNCHANGED <<storeVars, displayVars, socketVars, placing>>

BidReceipt ==
  /\ \/ placeBidState = "mined" /\ Renders(activeAuction, bidInput, "Success")
     \/ /\ placeBidState = "Mining" /\ ~BidAccepted(placing.nounId, placing.value)
        /\ Renders(activeAuction, bidInput, "Fail")
  /\ UNCHANGED <<subgraphAuctionVars, storeVars, displayVars, socketVars, placing>>

-----------------------------------------------------------------------------
(* ChainSubscriber and the reducers of the auction slice                   *)

queryFilter ==
  /\ socket = "query" /\ socket' = "subscribe"
  /\ fetching' = BidEvents
  /\ UNCHANGED <<subgraphAuctionVars, storeVars, displayVars, formVars, received, following>>

\* What happened since the query is not delivered.
Subscribes ==
  /\ socket = "subscribe" /\ socket' = "live"
  /\ received' = Len(feed)
  /\ UNCHANGED <<subgraphAuctionVars, storeVars, displayVars, formVars, fetching, following>>

auctionsEqual(e) == activeAuction.nounId = e.nounId

Stores(active) ==
  /\ activeAuction' = active
  /\ IF onDisplayAuctionNounId = lastAuctionNounId
     THEN Renders(active, bidInput, placeBidState) /\ UNCHANGED placing
     ELSE UNCHANGED formVars
  /\ UNCHANGED <<subgraphAuctionVars, lastAuctionNounId, displayVars, socket>>

\* While the new auction is being stored the old one must come from the past ones.
setActiveAuction(e) ==
  LET active == [nounId |-> e.nounId, amount |-> 0, startTime |-> e.startTime,
                 endTime |-> e.endTime, bidder |-> "none", settled |-> FALSE]
  IN /\ activeAuction' = active /\ storeBids' = {}
     /\ lastAuctionNounId' = e.nounId
     /\ onDisplayAuctionNounId' = e.nounId /\ route' = e.nounId
     /\ following' = TRUE
     /\ IF onDisplayAuctionNounId = lastAuctionNounId /\ lastAuctionNounId \in pastAuctions
        THEN Renders(active, bidInput, placeBidState) /\ UNCHANGED placing
        ELSE FormIsNew
     /\ UNCHANGED <<subgraphAuctionVars, pastAuctions, fetching, socket>>

setAuctionExtended(e) ==
  /\ Stores(IF auctionsEqual(e) THEN [activeAuction EXCEPT !.endTime = e.endTime]
            ELSE activeAuction)
  /\ UNCHANGED <<storeBids, following, fetching>>

setAuctionSettled(e) ==
  /\ Stores(IF auctionsEqual(e)
            THEN [activeAuction EXCEPT !.settled = TRUE, !.bidder = e.winner, !.amount = e.amount]
            ELSE activeAuction)
  /\ UNCHANGED <<storeBids, following, fetching>>

processBidFilter ==
  /\ fetching' = fetching \cup {received'}
  /\ UNCHANGED <<subgraphAuctionVars, storeVars, displayVars, formVars, socket, following>>

ReceivesEvent ==
  /\ socket = "live" /\ received < Len(feed)
  /\ received' = received + 1
  /\ LET e == feed[received + 1]
     IN CASE e.event = "AuctionCreated"  -> setActiveAuction(e)
          [] e.event = "AuctionExtended" -> setAuctionExtended(e)
          [] e.event = "AuctionSettled"  -> setAuctionSettled(e)
          [] e.event = "AuctionBid"      -> processBidFilter

containsBid(i) == \E j \in storeBids : feed[j].tx = feed[i].tx
\* Of equal bids it depends on the order they came in, which is left out.
maxBid(bids) == CHOOSE i \in bids : \A j \in bids : feed[j].value <= feed[i].value

WithBid(i) ==
  LET highest == feed[maxBid(storeBids \cup {i})]
  IN /\ storeBids' = storeBids \cup {i}
     /\ Stores([activeAuction EXCEPT !.amount = highest.value, !.bidder = highest.sender])

\* Mutant: a bid is not compared with the auction.
appendBidOfAnyAuction(i) ==
  IF containsBid(i) THEN Stores(activeAuction) /\ UNCHANGED storeBids ELSE WithBid(i)

appendBid(i) ==
  IF ~auctionsEqual(feed[i]) \/ containsBid(i)
  THEN Stores(activeAuction) /\ UNCHANGED storeBids
  ELSE WithBid(i)

BlockFetched(i) ==
  /\ i \in fetching /\ fetching' = fetching \ {i}
  /\ appendBid(i)
  /\ UNCHANGED <<received, following>>

\* The promise is rejected and nobody handles it.
BlockNotFetched(i) ==
  /\ i \in fetching /\ fetching' = fetching \ {i}
  /\ following' = FALSE
  /\ UNCHANGED <<subgraphAuctionVars, storeVars, displayVars, formVars, socket, received>>

-----------------------------------------------------------------------------
WebappAuctionNext ==
  \/ HouseActs /\ UNCHANGED auctionPageVars
  \/ addPastAuctions \/ prevAuctionHandler \/ nextAuctionHandler \/ GoesHome
  \/ \E r \in {NoPath} \cup HouseNouns : Loads(r)
  \/ \E input \in Inputs : bidInputHandler(input)
  \/ placeBidHandler \/ estimateBid \/ SignsBid \/ BidReceipt
  \/ \E tx \in Transactions : BidIsMined(tx)
  \/ queryFilter \/ Subscribes \/ ReceivesEvent
  \/ \E i \in fetching : BlockFetched(i) \/ BlockNotFetched(i)

WebappAuctionSpec ==
  SubgraphAuctionInit /\ WebappAuctionInit /\ [][WebappAuctionNext]_webappAuctionVars

-----------------------------------------------------------------------------
CaughtUp == following /\ received = Len(feed) /\ fetching = {}

OneBidPerTransaction ==
  \A i, j \in BidEvents :
    feed[i].nounId = houseAuction.nounId /\ feed[i].tx = feed[j].tx => i = j

\* A bid of 100 / Increment wei or more must be topped by one wei at least.
NoBidsTie ==
  \A i, j \in BidEvents :
    /\ feed[i].nounId = houseAuction.nounId /\ feed[j].nounId = houseAuction.nounId
    /\ feed[i].value = feed[j].value
    => i = j

\* In whatever order the blocks of the bids arrive, late for the next auction even: a
\* page that was open when the auction started, and lost nothing since, has the
\* auction the house has, and the minimum its form fills in is accepted there.  Of two
\* bids in one transaction it may have only the first, and of two equal bids it may
\* take either for the standing one.
PageFollowsAuction ==
  CaughtUp =>
    /\ activeAuction.nounId = houseAuction.nounId /\ lastAuctionNounId = houseAuction.nounId
    /\ activeAuction.endTime = houseAuction.endTime /\ activeAuction.settled = houseAuction.settled
    /\ OneBidPerTransaction =>
         /\ activeAuction.amount = houseAuction.amount
         /\ NoBidsTie => activeAuction.bidder = houseAuction.bidder
         /\ FormShown /\ Cent >= LeastBid =>
              BidAccepted(Displayed.nounId, minBidEth(computeMinimumNextBid(Displayed.amount)))
=============================================================================
