--------------------------- MODULE SubgraphAuction ---------------------------
(***************************************************************************)
(* The auction house as its events tell it, and the index of its auctions  *)
(* and bids in nouns-subgraph (nouns-auction-house.ts).  The bots and the  *)
(* auction page build on it.  NounsAuctionHouse models the house itself:   *)
(* here only who bids what and when an auction ends are kept.  A block is  *)
(* one step of the clock; a contract may bid twice in one transaction.     *)
(***************************************************************************)
EXTENDS Naturals, Sequences

CONSTANTS
  AuctionBidders, ContractBidders,
  HouseNouns,       \* bound: ids the house may auction, upwards from 1
  MintedForNounders,\* ids that go to the nounders
  Amounts,          \* what may be bid
  LeastBid, Increment,   \* reservePrice and minBidIncrementPercentage
  AuctionLength, AuctionBuffer,  \* duration and timeBuffer
  Transactions,     \* bound: hashes of the transactions that bid
  MaxClock          \* bound on the clock

\* An auction lasts; 0 stands for no auction and for no transaction.
ASSUME SubgraphAuctionAssumption ==
  /\ HouseNouns \subseteq Nat \ {0} /\ Transactions \subseteq Nat \ {0}
  /\ AuctionLength \in Nat \ {0} /\ AuctionBuffer \in Nat

NoAuction == [nounId |-> 0, amount |-> 0, startTime |-> 0, endTime |-> 0,
              bidder |-> "none", settled |-> TRUE]

VARIABLES
  houseAuction, clock,
  feed,             \* the events of the house, oldest first
  handled,          \* how many of them the subgraph has handled
  auctionEntity, bidEntity

houseVars == <<houseAuction, clock, feed>>
indexVars == <<handled, auctionEntity, bidEntity>>
subgraphAuctionVars == <<houseVars, indexVars>>

SubgraphAuctionInit ==
  /\ houseAuction = NoAuction /\ clock = 1 /\ feed = <<>>
  /\ handled = 0 /\ auctionEntity = <<>> /\ bidEntity = <<>>

-----------------------------------------------------------------------------
(* The house                                                               *)

AuctionCreated(id) ==
  [event |-> "AuctionCreated", nounId |-> id, startTime |-> clock,
   endTime |-> clock + AuctionLength]
AuctionBid(sender, value, extended, tx) ==
  [event |-> "AuctionBid", nounId |-> houseAuction.nounId, sender |-> sender,
   value |-> value, extended |-> extended, tx |-> tx, block |-> clock]
AuctionExtended(end) ==
  [event |-> "AuctionExtended", nounId |-> houseAuction.nounId, endTime |-> end]
AuctionSettled ==
  [event |-> "AuctionSettled", nounId |-> houseAuction.nounId,
   winner |-> houseAuction.bidder, amount |-> houseAuction.amount]

NextNoun == IF houseAuction.nounId + 1 \in MintedForNounders THEN houseAuction.nounId + 2
                                                             ELSE houseAuction.nounId + 1

Opens(events) ==
  /\ NextNoun \in HouseNouns
  /\ houseAuction' = [nounId |-> NextNoun, amount |-> 0, startTime |-> clock,
                      endTime |-> clock + AuctionLength, bidder |-> "none",
                      settled |-> FALSE]
  /\ feed' = feed \o Append(events, AuctionCreated(NextNoun))

CanBeSettled == ~houseAuction.settled /\ clock >= houseAuction.endTime

HouseSettlesAndOpens ==
  /\ CanBeSettled /\ Opens(<<AuctionSettled>>)
  /\ UNCHANGED <<clock, indexVars>>

\* While the house is paused.
HouseSettles ==
  /\ CanBeSettled
  /\ houseAuction' = [houseAuction EXCEPT !.settled = TRUE]
  /\ feed' = Append(feed, AuctionSettled)
  /\ UNCHANGED <<clock, indexVars>>

\* The house is unpaused.
HouseOpens ==
  /\ houseAuction.settled /\ Opens(<<>>)
  /\ UNCHANGED <<clock, indexVars>>

BidEvents == {i \in DOMAIN feed : feed[i].event = "AuctionBid"}

\* A transaction of its own, or the one the sender's latest bid is in.
InTransaction(sender, tx) ==
  \/ \A i \in BidEvents : feed[i].tx # tx
  \/ /\ sender \in ContractBidders
     /\ \E i \in BidEvents :
          /\ \A j \in BidEvents : j <= i
          /\ feed[i].tx = tx /\ feed[i].sender = sender /\ feed[i].block = clock

BidAccepted(id, value) ==
  /\ houseAuction.nounId = id /\ clock < houseAuction.endTime
  /\ value >= LeastBid
  /\ value >= houseAuction.amount + ((houseAuction.amount * Increment) \div 100)

HouseBid(sender, value, tx) ==
  LET extended == houseAuction.endTime - clock < AuctionBuffer
      end == IF extended THEN clock + AuctionBuffer ELSE houseAuction.endTime
  IN /\ BidAccepted(houseAuction.nounId, value) /\ InTransaction(sender, tx)
     /\ houseAuction' = [houseAuction EXCEPT !.amount = value, !.bidder = sender, !.endTime = end]
     /\ feed' = Append(feed, AuctionBid(sender, value, extended, tx))
                  \o (IF extended THEN <<AuctionExtended(end)>> ELSE <<>>)
     /\ UNCHANGED <<clock, indexVars>>

HouseBlock ==
  /\ clock < MaxClock /\ clock' = clock + 1
  /\ UNCHANGED <<houseAuction, feed, indexVars>>

-----------------------------------------------------------------------------
(* The handlers, each for the next event e.  The noun of an auction was    *)
(* handled before: its NounCreated precedes in the same transaction.       *)

Saved(entities, id, entity) ==
  [i \in DOMAIN entities \cup {id} |-> IF i = id THEN entity ELSE entities[i]]

handleAuctionCreated(e) ==
  /\ e.event = "AuctionCreated"
  /\ auctionEntity' = Saved(auctionEntity, e.nounId,
       [amount |-> 0, startTime |-> e.startTime, endTime |-> e.endTime,
        bidder |-> "none", settled |-> FALSE])
  /\ UNCHANGED bidEntity

\* The Bid is stored under the hash of its transaction.
handleAuctionBid(e) ==
  /\ e.event = "AuctionBid"
  /\ IF e.nounId \in DOMAIN auctionEntity
     THEN /\ auctionEntity' = [auctionEntity EXCEPT ![e.nounId].amount = e.value,
                                                    ![e.nounId].bidder = e.sender]
          /\ bidEntity' = Saved(bidEntity, e.tx,
               [bidder |-> e.sender, amount |-> e.value, auction |-> e.nounId,
                blockNumber |-> e.block])
     ELSE UNCHANGED <<auctionEntity, bidEntity>>

handleAuctionExtended(e) ==
  /\ e.event = "AuctionExtended"
  /\ auctionEntity' = IF e.nounId \in DOMAIN auctionEntity
                      THEN [auctionEntity EXCEPT ![e.nounId].endTime = e.endTime]
                      ELSE auctionEntity
  /\ UNCHANGED bidEntity

handleAuctionSettled(e) ==
  /\ e.event = "AuctionSettled"
  /\ auctionEntity' = IF e.nounId \in DOMAIN auctionEntity
                      THEN [auctionEntity EXCEPT ![e.nounId].settled = TRUE]
                      ELSE auctionEntity
  /\ UNCHANGED bidEntity

IndexNextEvent ==
  /\ handled < Len(feed)
  /\ handled' = handled + 1
  /\ LET e == feed[handled + 1]
     IN \/ handleAuctionCreated(e) \/ handleAuctionBid(e)
        \/ handleAuctionExtended(e) \/ handleAuctionSettled(e)
  /\ UNCHANGED houseVars

HouseActs ==
  \/ HouseSettlesAndOpens \/ HouseSettles \/ HouseOpens \/ HouseBlock
  \/ \E b \in AuctionBidders, v \in Amounts, tx \in Transactions : HouseBid(b, v, tx)

SubgraphAuctionNext == HouseActs \/ IndexNextEvent
=============================================================================
