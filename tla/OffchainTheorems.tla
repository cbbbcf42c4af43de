--------------------------- MODULE OffchainTheorems ---------------------------
(***************************************************************************)
(* The bots, the auction page, the feed of a noun and the artwork, for any *)
(* number of ticks, restarts, transactions, connections and late answers.  *)
(*                                                                         *)
(* nouns-bots: what it remembers of the proposals was announced, and,      *)
(* while ticks do not overlap, nothing about an auction is announced       *)
(* twice.  The first needs which announcement precedes the write to the    *)
(* cache; the second what a tick read of the caches and of the index stays *)
(* good for, and so how the house orders auctions and bids and the index   *)
(* keeps them.                                                             *)
(*                                                                         *)
(* nouns-webapp: the auction page and the activity feed of a noun.  The    *)
(* proofs need what the events the page has received so far tell of the    *)
(* auction it shows; when the noun was won and what the index logged by    *)
(* then, and that the sort lists every entry once.                         *)
(*                                                                         *)
(* nouns-assets and nouns-sdk: an image is drawn as the picture it was     *)
(* encoded from.  The proof needs what the runs of the data stand for,     *)
(* that a palette only grows at its end, and how far the pen is after      *)
(* every rectangle.                                                        *)
(***************************************************************************)
EXTENDS Bots, WebappAuction, NounActivity, ImageEncoding, InductionTheorems

-----------------------------------------------------------------------------
(* What the bot remembers of the proposals.                                *)

ReviewStages ==
  {"getProposalCache", "handleNewProposal", "handleUpdatedProposalStatus", "atRisk",
   "handleProposalAtRiskOfExpiry", "setProposalExpiryWarningSent", "updateProposalCache"}

\* The stages a review reaches only with a status that went out.
AnnouncedStages ==
  {"atRisk", "handleProposalAtRiskOfExpiry", "setProposalExpiryWarningSent",
   "updateProposalCache"}

ProposalStatuses ==
  {"PENDING", "ACTIVE", "QUEUED", "EXECUTED", "CANCELLED", "VETOED"}
IndexedProposals == [status : ProposalStatuses, eta : Nat]
ProposalReviews == [at : ReviewStages, proposal : IndexedProposals]

ReviewsTypeOK ==
  /\ clock \in Nat
  /\ \A id \in DOMAIN indexedProposal : indexedProposal[id] \in IndexedProposals
  /\ proposalTick \in [GovernanceTicks \X BotProposals -> {Idle} \cup ProposalReviews]

AnnouncedBeforeCached ==
  \A x \in DOMAIN proposalTick :
    ReviewIs(x, "idle") \/ ReviewIs(x, "getProposalCache") \/ ReviewIs(x, "handleNewProposal")
      \/ ReviewIs(x, "handleUpdatedProposalStatus")
      \/ <<x[2], Reviewed(x).status>> \in announcedStatus

ReviewsInv == ReviewsTypeOK /\ AnnouncedBeforeCached /\ CachedWasAnnounced

\* A review under way has a proposal.
LEMMA UnderReview ==
  ASSUME ReviewsTypeOK, NEW x \in DOMAIN proposalTick, ~ReviewIs(x, "idle")
  PROVE  proposalTick[x] \in ProposalReviews
BY DEF ReviewsTypeOK, ReviewIs, Idle

\* A review goes on: it is of the same proposal, and the others stay.
LEMMA ReviewGoesOn ==
  ASSUME ReviewsTypeOK, NEW x \in DOMAIN proposalTick, ~ReviewIs(x, "idle"),
         NEW at \in ReviewStages, ReviewGoesTo(x, at), UNCHANGED <<clock, indexedProposal>>
  PROVE  /\ ReviewsTypeOK' /\ DOMAIN proposalTick' = DOMAIN proposalTick
         /\ proposalTick'[x].at = at /\ proposalTick'[x].proposal = Reviewed(x)
         /\ \A y \in DOMAIN proposalTick : y # x => proposalTick'[y] = proposalTick[y]
<1> DEFINE r == [proposalTick[x] EXCEPT !.at = at]
<1>1. proposalTick[x] \in ProposalReviews
  BY UnderReview
<1>2. r \in ProposalReviews /\ r.at = at /\ r.proposal = Reviewed(x)
  BY <1>1 DEF ProposalReviews, Reviewed
<1>3. proposalTick' = [proposalTick EXCEPT ![x] = r]
  BY DEF ReviewGoesTo, ReviewGoes
<1> HIDE DEF r
<1> QED  BY <1>2, <1>3 DEF ReviewsTypeOK

\* A review that is over leaves the others as they are.
LEMMA ReviewEnds ==
  ASSUME ReviewsTypeOK, NEW x \in DOMAIN proposalTick, ReviewGoes(x, Idle),
         UNCHANGED <<clock, indexedProposal>>
  PROVE  /\ ReviewsTypeOK' /\ DOMAIN proposalTick' = DOMAIN proposalTick
         /\ proposalTick'[x].at = "idle"
         /\ \A y \in DOMAIN proposalTick : y # x => proposalTick'[y] = proposalTick[y]
BY DEF ReviewGoes, ReviewsTypeOK, Idle

\* What is cached after its status went out was announced.
LEMMA CacheRemembers ==
  ASSUME NEW id, NEW p, proposalCache' = Saved(proposalCache, id, p), CachedWasAnnounced,
         announcedStatus \subseteq announcedStatus', <<id, p.status>> \in announcedStatus'
  PROVE  CachedWasAnnounced'
<1>1. \A i \in DOMAIN proposalCache' :
        \/ i = id /\ proposalCache'[i] = p
        \/ i \in DOMAIN proposalCache /\ proposalCache'[i] = proposalCache[i]
  BY DEF Saved
<1> QED  BY <1>1 DEF CachedWasAnnounced

\* A step of a review that leaves the cache alone.
LEMMA ReviewKeepsInv ==
  ASSUME ReviewsInv, NEW x \in DOMAIN proposalTick, ~ReviewIs(x, "idle"),
         NEW at \in ReviewStages, ReviewGoesTo(x, at),
         UNCHANGED <<clock, indexedProposal, proposalCache>>,
         announcedStatus \subseteq announcedStatus',
         \/ at \in {"handleNewProposal", "handleUpdatedProposalStatus"}
         \/ <<x[2], Reviewed(x).status>> \in announcedStatus'
  PROVE  ReviewsInv'
<1>1. /\ ReviewsTypeOK' /\ DOMAIN proposalTick' = DOMAIN proposalTick
      /\ proposalTick'[x].at = at /\ proposalTick'[x].proposal = Reviewed(x)
      /\ \A y \in DOMAIN proposalTick : y # x => proposalTick'[y] = proposalTick[y]
  BY ReviewGoesOn DEF ReviewsInv
<1>2. AnnouncedBeforeCached'
  BY <1>1 DEF ReviewsInv, AnnouncedBeforeCached, ReviewIs, Reviewed
<1>3. CachedWasAnnounced'
  BY DEF ReviewsInv, CachedWasAnnounced
<1> QED  BY <1>1, <1>2, <1>3 DEF ReviewsInv

\* What the subgraph makes of an event of the governor.
LEMMA IndexingKeepsInv ==
  ASSUME ReviewsInv, NEW id \in BotProposals, IndexProposal(id)
  PROVE  ReviewsInv'
<1>1. UNCHANGED <<clock, proposalCache, proposalTick, announcedStatus>>
  BY DEF IndexProposal, subgraphAuctionVars, houseVars, proposalRedis
<1>2. ReviewsTypeOK
  BY DEF ReviewsInv
<1>3. PICK p \in IndexedProposals : indexedProposal' = Saved(indexedProposal, id, p)
  <2>1. CASE id \notin DOMAIN indexedProposal
    <3>1. indexedProposal' = Saved(indexedProposal, id, [status |-> "PENDING", eta |-> 0])
      BY <2>1 DEF IndexProposal
    <3>2. [status |-> "PENDING", eta |-> 0] \in IndexedProposals
      BY DEF IndexedProposals, ProposalStatuses
    <3> QED  BY <3>1, <3>2
  <2>2. CASE id \in DOMAIN indexedProposal
    <3> DEFINE q == indexedProposal[id]
    <3>1. q \in IndexedProposals
      BY <1>2, <2>2 DEF ReviewsTypeOK
    <3>2. \A status \in ProposalStatuses, eta \in Nat :
            /\ [q EXCEPT !.status = status] \in IndexedProposals
            /\ [q EXCEPT !.status = status, !.eta = eta] \in IndexedProposals
      BY <3>1 DEF IndexedProposals
    <3>3. \/ indexedProposal' = Saved(indexedProposal, id, [q EXCEPT !.status = "ACTIVE"])
          \/ indexedProposal' =
               Saved(indexedProposal, id, [q EXCEPT !.status = "QUEUED", !.eta = clock])
          \/ indexedProposal' = Saved(indexedProposal, id, [q EXCEPT !.status = "EXECUTED"])
          \/ indexedProposal' = Saved(indexedProposal, id, [q EXCEPT !.status = "CANCELLED"])
          \/ indexedProposal' = Saved(indexedProposal, id, [q EXCEPT !.status = "VETOED"])
      BY <2>2 DEF IndexProposal
    <3>4. clock \in Nat /\ {"ACTIVE", "QUEUED", "EXECUTED", "CANCELLED", "VETOED"}
                             \subseteq ProposalStatuses
      BY <1>2 DEF ReviewsTypeOK, ProposalStatuses
    <3> HIDE DEF q
    <3> QED  BY <3>2, <3>3, <3>4
  <2> QED  BY <2>1, <2>2
<1>4. \A i \in DOMAIN indexedProposal' : indexedProposal'[i] \in IndexedProposals
  BY <1>2, <1>3 DEF Saved, ReviewsTypeOK
<1> QED  BY <1>1, <1>2, <1>4
         DEF ReviewsInv, ReviewsTypeOK, AnnouncedBeforeCached, CachedWasAnnounced, ReviewIs,
             Reviewed

\* Steps that are not about proposals.
LEMMA ElsewhereKeepsInv ==
  ASSUME ReviewsInv, clock' \in Nat,
         UNCHANGED <<indexedProposal, proposalTick, proposalCache, announcedStatus>>
  PROVE  ReviewsInv'
BY DEF ReviewsInv, ReviewsTypeOK, AnnouncedBeforeCached, CachedWasAnnounced, ReviewIs, Reviewed

\* Every step of the bots keeps the invariant of the reviews.
LEMMA ReviewsInvStep ==
  ASSUME ReviewsInv, [AuctionBotNext \/ GovernanceBotNext]_botVars
  PROVE  ReviewsInv'
<1>1. /\ ReviewsTypeOK /\ clock \in Nat
      /\ proposalTick \in [GovernanceTicks \X BotProposals -> {Idle} \cup ProposalReviews]
  BY DEF ReviewsInv, ReviewsTypeOK
<1>2. CASE SubgraphAuctionNext /\ UNCHANGED <<auctionBotVars, governanceBotVars>>
  <2>1. HouseBlock => clock' \in Nat
    BY <1>1 DEF HouseBlock
  <2>2. ASSUME HouseSettlesAndOpens \/ HouseSettles \/ HouseOpens \/ IndexNextEvent
        PROVE  clock' \in Nat
    BY <1>1, <2>2 DEF HouseSettlesAndOpens, HouseSettles, HouseOpens, IndexNextEvent, houseVars
  <2>3. ASSUME NEW b, NEW v, NEW tx, HouseBid(b, v, tx)
        PROVE  clock' \in Nat
    BY <1>1, <2>3 DEF HouseBid
  <2>4. clock' \in Nat
    BY <1>2, <2>1, <2>2, <2>3 DEF SubgraphAuctionNext, HouseActs
  <2> QED  BY <1>2, <2>4, ElsewhereKeepsInv DEF governanceBotVars, proposalRedis
<1>3. CASE HouseBlock /\ UNCHANGED <<auctionBotVars, governanceBotVars>>
  BY <1>1, <1>3, ElsewhereKeepsInv DEF HouseBlock, governanceBotVars, proposalRedis
<1>4. CASE setupAuction
  BY <1>1, <1>4, ElsewhereKeepsInv
     DEF setupAuction, governanceBotVars, proposalRedis, subgraphAuctionVars, houseVars
<1>5. ASSUME NEW t \in AuctionTicks,
             \/ processAuctionTick(t) \/ ReadsBidCache(t) \/ ReadsEndingSoonCache(t)
             \/ QueriesSubgraph(t) \/ DiscoversAuction(t) \/ handleNewAuction(t)
             \/ DiscoversBid(t) \/ handleNewBid(t) \/ DiscoversEnd(t)
             \/ handleAuctionEndingSoon(t) \/ AuctionTickFails(t)
      PROVE  ReviewsInv'
  <2>1. UNCHANGED <<subgraphAuctionVars, governanceBotVars>>
    BY <1>5 DEF processAuctionTick, ReadsBidCache, ReadsEndingSoonCache, QueriesSubgraph,
       DiscoversAuction, handleNewAuction, DiscoversBid, handleNewBid, DiscoversEnd,
       handleAuctionEndingSoon, AuctionTickFails, auctionTickElse
  <2> QED  BY <1>1, <2>1, ElsewhereKeepsInv
           DEF governanceBotVars, proposalRedis, subgraphAuctionVars, houseVars
<1>6. CASE Restart
  <2>1. UNCHANGED <<clock, indexedProposal, proposalCache, announcedStatus>>
    BY <1>6 DEF Restart, subgraphAuctionVars, houseVars, proposalRedis
  <2>2. proposalTick' = [x \in GovernanceTicks \X BotProposals |-> Idle]
    BY <1>1, <1>6 DEF Restart
  <2>3. ReviewsTypeOK'
    BY <1>1, <2>1, <2>2 DEF ReviewsTypeOK
  <2>4. AnnouncedBeforeCached'
    BY <2>2 DEF AnnouncedBeforeCached, ReviewIs, Idle
  <2> QED  BY <2>1, <2>3, <2>4 DEF ReviewsInv, CachedWasAnnounced
<1>7. ASSUME NEW id \in BotProposals, IndexProposal(id)
      PROVE  ReviewsInv'
  BY <1>7, IndexingKeepsInv
<1>8. CASE setupGovernance
  <2>1. UNCHANGED <<clock, indexedProposal, proposalTick>>
        /\ announcedStatus \subseteq announcedStatus'
    BY <1>8 DEF setupGovernance, subgraphAuctionVars, houseVars
  <2>2. CachedWasAnnounced'
    <3>1. CASE UNCHANGED <<proposalCache, announcedStatus>>
      BY <3>1 DEF ReviewsInv, CachedWasAnnounced
    <3>2. CASE \E id \in DOMAIN governanceSetup.left :
                 /\ proposalCache' = Saved(proposalCache, id, governanceSetup.left[id])
                 /\ announcedStatus' =
                      announcedStatus \cup {<<id, governanceSetup.left[id].status>>}
      BY <2>1, <3>2, CacheRemembers DEF ReviewsInv
    <3> QED  BY <1>8, <3>1, <3>2 DEF setupGovernance
  <2> QED  BY <2>1, <2>2 DEF ReviewsInv, ReviewsTypeOK, AnnouncedBeforeCached, ReviewIs, Reviewed
<1>9. ASSUME NEW t \in GovernanceTicks, processGovernanceTick(t)
      PROVE  ReviewsInv'
  <2>1. /\ UNCHANGED <<clock, indexedProposal, proposalCache, announcedStatus>>
        /\ DOMAIN proposalTick' = DOMAIN proposalTick
        /\ \A x \in DOMAIN proposalTick :
             \/ proposalTick'[x] = proposalTick[x]
             \/ /\ x[2] \in DOMAIN indexedProposal
                /\ proposalTick'[x] =
                     [at |-> "getProposalCache", proposal |-> indexedProposal[x[2]]]
    BY <1>9 DEF processGovernanceTick, proposalTickElse, subgraphAuctionVars, houseVars,
       proposalRedis
  <2>2. \A p \in IndexedProposals :
          /\ [at |-> "getProposalCache", proposal |-> p] \in ProposalReviews
          /\ [at |-> "getProposalCache", proposal |-> p].at = "getProposalCache"
    BY DEF ProposalReviews, ReviewStages
  <2>3. \A x \in DOMAIN proposalTick :
          \/ proposalTick'[x] = proposalTick[x]
          \/ proposalTick'[x] \in ProposalReviews /\ proposalTick'[x].at = "getProposalCache"
    BY <1>1, <2>1, <2>2 DEF ReviewsTypeOK
  <2>4. ReviewsTypeOK'
    <3>1. proposalTick' = [x \in DOMAIN proposalTick |-> proposalTick'[x]]
      BY <1>9, <2>1 DEF processGovernanceTick
    <3> QED  BY <1>1, <2>1, <2>3, <3>1 DEF ReviewsTypeOK
  <2>5. AnnouncedBeforeCached'
    BY <2>1, <2>3 DEF ReviewsInv, AnnouncedBeforeCached, ReviewIs, Reviewed
  <2> QED  BY <2>1, <2>4, <2>5 DEF ReviewsInv, CachedWasAnnounced
<1>10. ASSUME NEW x \in DOMAIN proposalTick, ReadsProposalCache(x)
       PROVE  ReviewsInv'
  <2>1. /\ ~ReviewIs(x, "idle") /\ ReviewGoesTo(x, ReviewAfter(x))
        /\ UNCHANGED <<clock, indexedProposal, proposalCache, announcedStatus>>
    BY <1>10 DEF ReadsProposalCache, ReviewIs, proposalTickElse, subgraphAuctionVars, houseVars,
       proposalRedis
  <2>2. /\ ReviewAfter(x) \in ReviewStages
        /\ \/ ReviewAfter(x) \in {"handleNewProposal", "handleUpdatedProposalStatus"}
           \/ /\ x[2] \in DOMAIN proposalCache
              /\ proposalCache[x[2]].status = Reviewed(x).status
    BY DEF ReviewAfter, ReviewStages
  <2>3. \/ ReviewAfter(x) \in {"handleNewProposal", "handleUpdatedProposalStatus"}
        \/ <<x[2], Reviewed(x).status>> \in announcedStatus'
    BY <2>1, <2>2 DEF ReviewsInv, CachedWasAnnounced
  <2> QED  BY <2>1, <2>2, <2>3, ReviewKeepsInv
<1>11. ASSUME NEW x \in DOMAIN proposalTick,
              handleNewProposal(x) \/ handleUpdatedProposalStatus(x)
       PROVE  ReviewsInv'
  <2>1. PICK at \in {"updateProposalCache", "atRisk"} :
          /\ ~ReviewIs(x, "idle") /\ ReviewGoesTo(x, at)
          /\ announcedStatus' = announcedStatus \cup {<<x[2], Reviewed(x).status>>}
          /\ UNCHANGED <<clock, indexedProposal, proposalCache>>
    BY <1>11 DEF handleNewProposal, handleUpdatedProposalStatus, Announces, ReviewIs,
       proposalTickElse, subgraphAuctionVars, houseVars, proposalRedis
  <2> QED  BY <2>1, ReviewKeepsInv DEF ReviewStages
<1>12. ASSUME NEW x \in DOMAIN proposalTick,
              \/ hasWarnedOfExpiry(x) \/ handleProposalAtRiskOfExpiry(x)
              \/ setProposalExpiryWarningSent(x)
       PROVE  ReviewsInv'
  <2>1. PICK at \in AnnouncedStages :
          /\ proposalTick[x].at \in AnnouncedStages /\ ReviewGoesTo(x, at)
          /\ UNCHANGED <<clock, indexedProposal, proposalCache, announcedStatus>>
    BY <1>12 DEF hasWarnedOfExpiry, handleProposalAtRiskOfExpiry, setProposalExpiryWarningSent,
       ReviewIs, proposalTickElse, subgraphAuctionVars, houseVars, proposalRedis, AnnouncedStages
  <2>2. ~ReviewIs(x, "idle") /\ <<x[2], Reviewed(x).status>> \in announcedStatus
    BY <2>1 DEF ReviewsInv, AnnouncedBeforeCached, ReviewIs, AnnouncedStages
  <2> QED  BY <2>1, <2>2, ReviewKeepsInv DEF AnnouncedStages, ReviewStages
<1>13. ASSUME NEW x \in DOMAIN proposalTick, updateProposalCache(x) \/ ReviewFails(x)
       PROVE  ReviewsInv'
  <2>1. /\ ReviewGoes(x, Idle) /\ UNCHANGED <<clock, indexedProposal, announcedStatus>>
        /\ \/ UNCHANGED proposalCache
           \/ /\ ReviewIs(x, "updateProposalCache")
              /\ proposalCache' = Saved(proposalCache, x[2], Reviewed(x))
    BY <1>13 DEF updateProposalCache, ReviewFails, proposalTickElse, subgraphAuctionVars,
       houseVars, proposalRedis
  <2>2. /\ ReviewsTypeOK' /\ DOMAIN proposalTick' = DOMAIN proposalTick
        /\ proposalTick'[x].at = "idle"
        /\ \A y \in DOMAIN proposalTick : y # x => proposalTick'[y] = proposalTick[y]
    BY <1>1, <2>1, ReviewEnds
  <2>3. AnnouncedBeforeCached'
    BY <2>1, <2>2 DEF ReviewsInv, AnnouncedBeforeCached, ReviewIs, Reviewed
  <2>4. CachedWasAnnounced'
    <3>1. CASE UNCHANGED proposalCache
      BY <2>1, <3>1 DEF ReviewsInv, CachedWasAnnounced
    <3>2. CASE /\ ReviewIs(x, "updateProposalCache")
               /\ proposalCache' = Saved(proposalCache, x[2], Reviewed(x))
      <4>1. <<x[2], Reviewed(x).status>> \in announcedStatus'
        BY <2>1, <3>2 DEF ReviewsInv, AnnouncedBeforeCached, ReviewIs
      <4> QED  BY <2>1, <3>2, <4>1, CacheRemembers DEF ReviewsInv
    <3> QED  BY <2>1, <3>1, <3>2
  <2> QED  BY <2>2, <2>3, <2>4 DEF ReviewsInv
<1>14. CASE UNCHANGED botVars
  BY <1>1, <1>14, ElsewhereKeepsInv
     DEF botVars, governanceBotVars, proposalRedis, subgraphAuctionVars, houseVars
<1> QED  BY <1>2, <1>3, <1>4, <1>5, <1>6, <1>7, <1>8, <1>9, <1>10, <1>11, <1>12, <1>13, <1>14
         DEF AuctionBotNext, GovernanceBotNext

\* However many reviews of a proposal overlap, fail or are cut off by a restart, a
\* status stands in the cache only after every webhook had it, or because the process
\* took it over when it started (index.ts, processGovernanceTick, setupGovernance).
THEOREM CachedStatusesWentOut == BotsSpec => []CachedWasAnnounced
<1>1. SubgraphAuctionInit /\ BotsInit => ReviewsInv
  <2> SUFFICES ASSUME SubgraphAuctionInit, BotsInit
               PROVE  ReviewsInv
    OBVIOUS
  <2>1. /\ clock = 1 /\ indexedProposal = <<>> /\ proposalCache = <<>>
        /\ proposalTick = [x \in GovernanceTicks \X BotProposals |-> Idle]
    BY DEF SubgraphAuctionInit, BotsInit
  <2>2. DOMAIN indexedProposal = {} /\ DOMAIN proposalCache = {}
    BY <2>1
  <2>3. ReviewsTypeOK
    BY <2>1, <2>2 DEF ReviewsTypeOK
  <2>4. AnnouncedBeforeCached /\ CachedWasAnnounced
    BY <2>1, <2>2 DEF AnnouncedBeforeCached, CachedWasAnnounced, ReviewIs, Idle
  <2> QED  BY <2>3, <2>4 DEF ReviewsInv
<1>2. ReviewsInv /\ [AuctionBotNext \/ GovernanceBotNext]_botVars => ReviewsInv'
  BY ReviewsInvStep
<1>3. ReviewsInv => CachedWasAnnounced
  BY DEF ReviewsInv
<1> QED  BY <1>1, <1>2, <1>3, PTL DEF BotsSpec

-----------------------------------------------------------------------------
(* The house's events and the index of them.                               *)

CreatedEvents == [event : {"AuctionCreated"}, nounId : Nat, startTime : Nat, endTime : Nat]
AuctionBidEvents ==
  [event : {"AuctionBid"}, nounId : Nat, sender : AuctionBidders, value : Amounts,
   extended : BOOLEAN, tx : Transactions, block : Nat]
ExtendedEvents == [event : {"AuctionExtended"}, nounId : Nat, endTime : Nat]
SettledEvents ==
  [event : {"AuctionSettled"}, nounId : Nat, winner : AuctionBidders \cup {"none"},
   amount : Amounts \cup {0}]
HouseEvents == CreatedEvents \cup AuctionBidEvents \cup ExtendedEvents \cup SettledEvents

HouseAuctions ==
  [nounId : Nat, amount : Amounts \cup {0}, startTime : Nat, endTime : Nat,
   bidder : AuctionBidders \cup {"none"}, settled : BOOLEAN]

HouseTypeOK == feed \in Seq(HouseEvents) /\ clock \in Nat /\ houseAuction \in HouseAuctions

CreatedIn(events) == {i \in DOMAIN events : events[i].event = "AuctionCreated"}
BidsIn(events) == {i \in DOMAIN events : events[i].event = "AuctionBid"}

\* Auctions follow each other: ids and starts grow, and each starts after the bids of
\* those before it.  A transaction bids in one block, in one auction.
EventsOrdered(events) ==
  /\ \A i, j \in CreatedIn(events) : i < j =>
       events[i].nounId < events[j].nounId /\ events[i].startTime < events[j].startTime
  /\ \A i \in BidsIn(events) :
       \E j \in CreatedIn(events) : j < i /\ events[j].nounId = events[i].nounId
  /\ \A i, j \in BidsIn(events) :
       /\ events[i].nounId < events[j].nounId => events[i].block < events[j].block
       /\ events[i].tx = events[j].tx =>
            events[i].block = events[j].block /\ events[i].nounId = events[j].nounId

\* The events so far, seen from the auction of the house.
EventsUpTo(events, auction, time) ==
  /\ auction.settled => auction.endTime <= time
  /\ auction.startTime <= time
  /\ auction.endTime > 0 => \E j \in CreatedIn(events) : events[j].nounId = auction.nounId
  /\ \A i \in CreatedIn(events) :
       events[i].nounId <= auction.nounId /\ events[i].startTime < auction.endTime
  /\ \A i \in BidsIn(events) :
       /\ events[i].nounId <= auction.nounId /\ events[i].block < auction.endTime
       /\ events[i].nounId < auction.nounId => events[i].block < auction.startTime

HouseInv ==
  HouseTypeOK /\ EventsOrdered(feed) /\ EventsUpTo(feed, houseAuction, clock)

\* The fields of the events of the house.
LEMMA EventFields ==
  ASSUME NEW e \in HouseEvents
  PROVE  /\ e.event = "AuctionCreated" => e \in CreatedEvents
         /\ e.event = "AuctionBid" => e \in AuctionBidEvents
         /\ e.event = "AuctionExtended" => e \in ExtendedEvents
         /\ e.event = "AuctionSettled" => e \in SettledEvents
         /\ e.event \in {"AuctionCreated", "AuctionBid", "AuctionExtended", "AuctionSettled"}
BY DEF HouseEvents, CreatedEvents, AuctionBidEvents, ExtendedEvents, SettledEvents

\* Events are added behind the others.
LEMMA EventsAdded ==
  ASSUME feed \in Seq(HouseEvents), NEW more \in Seq(HouseEvents), feed' = feed \o more
  PROVE  /\ feed' \in Seq(HouseEvents) /\ Len(feed') = Len(feed) + Len(more)
         /\ DOMAIN feed = 1 .. Len(feed) /\ DOMAIN feed' = 1 .. Len(feed) + Len(more)
         /\ \A i \in DOMAIN feed : i \in DOMAIN feed' /\ feed'[i] = feed[i]
         /\ \A i \in DOMAIN feed' \ DOMAIN feed :
              i - Len(feed) \in DOMAIN more /\ feed'[i] = more[i - Len(feed)]
<1>1. /\ feed' \in Seq(HouseEvents) /\ Len(feed') = Len(feed) + Len(more)
      /\ \A i \in 1 .. Len(feed) + Len(more) :
           feed'[i] = IF i <= Len(feed) THEN feed[i] ELSE more[i - Len(feed)]
  BY ConcatProperties
<1>2. /\ DOMAIN feed = 1 .. Len(feed) /\ DOMAIN feed' = 1 .. Len(feed')
      /\ DOMAIN more = 1 .. Len(more) /\ Len(feed) \in Nat /\ Len(more) \in Nat
  BY <1>1
<1> QED  BY <1>1, <1>2

\* The house opens an auction, after one that is over.
LEMMA OpeningKeepsOrder ==
  ASSUME HouseInv, NEW settlement \in Seq(SettledEvents), Len(settlement) <= 1,
         clock >= houseAuction.endTime, Opens(settlement), UNCHANGED clock
  PROVE  HouseInv'
<1> DEFINE created == AuctionCreated(NextNoun)
           more == Append(settlement, created)
           last == Len(feed) + Len(settlement) + 1
<1> USE DEF HouseInv
<1>1. /\ feed \in Seq(HouseEvents) /\ clock \in Nat /\ houseAuction.nounId \in Nat
      /\ houseAuction.startTime \in Nat /\ houseAuction.endTime \in Nat
  BY DEF HouseTypeOK, HouseAuctions
<1>2. NextNoun \in Nat /\ NextNoun > houseAuction.nounId
  BY <1>1 DEF NextNoun
<1>3. clock + AuctionLength \in Nat /\ clock + AuctionLength > clock
  BY <1>1, SubgraphAuctionAssumption
<1>4. /\ houseAuction' \in HouseAuctions /\ houseAuction'.nounId = NextNoun
      /\ houseAuction'.startTime = clock /\ houseAuction'.endTime = clock + AuctionLength
      /\ ~houseAuction'.settled
  BY <1>1, <1>2, <1>3 DEF Opens, HouseAuctions
<1>5. /\ created \in CreatedEvents /\ created.nounId = NextNoun
      /\ created.startTime = clock /\ created.event = "AuctionCreated"
  BY <1>1, <1>2, <1>3 DEF AuctionCreated, CreatedEvents
<1>6. feed' = feed \o more
  BY DEF Opens
<1> HIDE DEF created
<1>7. /\ more \in Seq(HouseEvents) /\ Len(more) = Len(settlement) + 1
      /\ DOMAIN more = 1 .. Len(settlement) + 1
      /\ more[Len(settlement) + 1] = created
      /\ \A i \in 1 .. Len(settlement) : more[i] \in SettledEvents
  <2>1. settlement \in Seq(HouseEvents) /\ created \in HouseEvents
    BY <1>5 DEF HouseEvents
  <2> QED  BY <2>1
<1> HIDE DEF more
<1>8. /\ feed' \in Seq(HouseEvents) /\ Len(feed') = last
      /\ DOMAIN feed = 1 .. Len(feed) /\ DOMAIN feed' = 1 .. last
      /\ \A i \in DOMAIN feed : i \in DOMAIN feed' /\ feed'[i] = feed[i]
      /\ \A i \in DOMAIN feed' \ DOMAIN feed :
           i - Len(feed) \in DOMAIN more /\ feed'[i] = more[i - Len(feed)]
      /\ Len(feed) \in Nat /\ Len(settlement) \in Nat
  BY <1>1, <1>6, <1>7, EventsAdded
<1>9. feed'[last] = created /\ last \in DOMAIN feed' /\ last \notin DOMAIN feed
  BY <1>7, <1>8
<1>10. \A i \in DOMAIN feed' \ DOMAIN feed : i = last \/ feed'[i].event = "AuctionSettled"
  <2> SUFFICES ASSUME NEW i \in DOMAIN feed' \ DOMAIN feed, i # last
               PROVE  feed'[i].event = "AuctionSettled"
    OBVIOUS
  <2>1. i - Len(feed) \in 1 .. Len(settlement) /\ feed'[i] = more[i - Len(feed)]
    BY <1>7, <1>8
  <2> QED  BY <1>7, <2>1 DEF SettledEvents
<1>11. BidsIn(feed') = BidsIn(feed) /\ CreatedIn(feed') = CreatedIn(feed) \cup {last}
  BY <1>5, <1>8, <1>9, <1>10 DEF BidsIn, CreatedIn
<1>12. \A i \in CreatedIn(feed) : i < last /\ feed'[i] = feed[i]
  BY <1>8 DEF CreatedIn
<1>13. \A i \in BidsIn(feed) : feed'[i] = feed[i]
  BY <1>8 DEF BidsIn
<1>14. /\ \A i \in CreatedIn(feed) : /\ feed[i].nounId \in Nat /\ feed[i].startTime \in Nat
       /\ \A i \in BidsIn(feed) : feed[i].nounId \in Nat /\ feed[i].block \in Nat
  BY <1>1, EventFields DEF CreatedIn, BidsIn, CreatedEvents, AuctionBidEvents
<1>15. EventsOrdered(feed')
  <2>1. \A i, j \in CreatedIn(feed') : i < j =>
          feed'[i].nounId < feed'[j].nounId /\ feed'[i].startTime < feed'[j].startTime
    <3> SUFFICES ASSUME NEW i \in CreatedIn(feed'), NEW j \in CreatedIn(feed'), i < j
                 PROVE  feed'[i].nounId < feed'[j].nounId /\ feed'[i].startTime < feed'[j].startTime
      OBVIOUS
    <3>1. i \in CreatedIn(feed) /\ (j \in CreatedIn(feed) \/ j = last)
      BY <1>8, <1>11, <1>12 DEF CreatedIn
    <3>2. CASE j = last
      <4>1. /\ feed[i].nounId <= houseAuction.nounId
            /\ feed[i].startTime < houseAuction.endTime
        BY <3>1 DEF EventsUpTo
      <4>2. feed'[i] = feed[i] /\ feed'[j] = created
        BY <1>9, <1>12, <3>1, <3>2
      <4>3. feed[i].nounId \in Nat /\ feed[i].startTime \in Nat
        BY <1>14, <3>1
      <4>4. feed[i].nounId < created.nounId /\ feed[i].startTime < created.startTime
        BY <1>1, <1>2, <1>5, <4>1, <4>3
      <4> QED  BY <4>2, <4>4
    <3>3. CASE j \in CreatedIn(feed)
      BY <1>12, <3>1, <3>3 DEF EventsOrdered
    <3> QED  BY <3>1, <3>2, <3>3
  <2>2. \A i \in BidsIn(feed') :
          \E j \in CreatedIn(feed') : j < i /\ feed'[j].nounId = feed'[i].nounId
    BY <1>11, <1>12, <1>13 DEF EventsOrdered
  <2>3. \A i, j \in BidsIn(feed') :
          /\ feed'[i].nounId < feed'[j].nounId => feed'[i].block < feed'[j].block
          /\ feed'[i].tx = feed'[j].tx =>
               feed'[i].block = feed'[j].block /\ feed'[i].nounId = feed'[j].nounId
    BY <1>11, <1>13 DEF EventsOrdered
  <2> QED  BY <2>1, <2>2, <2>3 DEF EventsOrdered
<1>16. EventsUpTo(feed', houseAuction', clock')
  <2>1. \A i \in CreatedIn(feed') :
          feed'[i].nounId <= houseAuction'.nounId /\ feed'[i].startTime < houseAuction'.endTime
    <3>1. \A i \in CreatedIn(feed) :
            feed[i].nounId <= houseAuction.nounId /\ feed[i].startTime < houseAuction.endTime
      BY DEF EventsUpTo
    <3> QED  BY <1>1, <1>2, <1>3, <1>4, <1>5, <1>9, <1>11, <1>12, <1>14, <3>1
  <2>2. \A i \in BidsIn(feed') :
          /\ feed'[i].nounId <= houseAuction'.nounId /\ feed'[i].block < houseAuction'.endTime
          /\ feed'[i].nounId < houseAuction'.nounId => feed'[i].block < houseAuction'.startTime
    <3>1. \A i \in BidsIn(feed) :
            feed[i].nounId <= houseAuction.nounId /\ feed[i].block < houseAuction.endTime
      BY DEF EventsUpTo
    <3> QED  BY <1>1, <1>2, <1>3, <1>4, <1>11, <1>13, <1>14, <3>1
  <2>3. \E j \in CreatedIn(feed') : feed'[j].nounId = houseAuction'.nounId
    BY <1>4, <1>5, <1>9, <1>11
  <2> QED  BY <1>1, <1>4, <2>1, <2>2, <2>3 DEF EventsUpTo
<1> QED  BY <1>1, <1>4, <1>8, <1>15, <1>16 DEF HouseTypeOK

\* A bid, and the extension it may bring.
LEMMA BiddingKeepsOrder ==
  ASSUME HouseInv, NEW b \in AuctionBidders, NEW v \in Amounts, NEW tx \in Transactions,
         HouseBid(b, v, tx)
  PROVE  HouseInv'
<1> USE DEF HouseInv
<1> DEFINE extended == houseAuction.endTime - clock < AuctionBuffer
           end == IF extended THEN clock + AuctionBuffer ELSE houseAuction.endTime
           bid == AuctionBid(b, v, extended, tx)
           extension == IF extended THEN <<AuctionExtended(end)>> ELSE <<>>
           more == <<bid>> \o extension
           n == Len(feed) + 1
<1>1. /\ feed \in Seq(HouseEvents) /\ clock \in Nat /\ houseAuction.nounId \in Nat
      /\ houseAuction.startTime \in Nat /\ houseAuction.endTime \in Nat
      /\ houseAuction \in HouseAuctions /\ Len(feed) \in Nat
  BY DEF HouseTypeOK, HouseAuctions
<1>2. clock < houseAuction.endTime /\ InTransaction(b, tx) /\ UNCHANGED clock
  BY DEF HouseBid, BidAccepted
<1>3. end \in Nat /\ clock < end /\ houseAuction.endTime <= end
  BY <1>1, <1>2, SubgraphAuctionAssumption
<1>4. /\ houseAuction' = [houseAuction EXCEPT !.amount = v, !.bidder = b, !.endTime = end]
      /\ feed' = Append(feed, bid) \o extension
  BY DEF HouseBid
<1>5. /\ bid \in AuctionBidEvents /\ bid.nounId = houseAuction.nounId /\ bid.tx = tx
      /\ bid.block = clock /\ bid.event = "AuctionBid"
  BY <1>1 DEF AuctionBid, AuctionBidEvents
<1>6. extension \in Seq(ExtendedEvents)
  <2>1. end \in Nat => AuctionExtended(end) \in ExtendedEvents
    BY <1>1 DEF AuctionExtended, ExtendedEvents
  <2> HIDE DEF end
  <2> QED  BY <1>3, <2>1
<1> HIDE DEF end, bid, extension, extended
<1>7. /\ houseAuction' \in HouseAuctions /\ houseAuction'.nounId = houseAuction.nounId
      /\ houseAuction'.startTime = houseAuction.startTime /\ houseAuction'.endTime = end
      /\ houseAuction'.settled = houseAuction.settled
  BY <1>1, <1>3, <1>4 DEF HouseAuctions
<1>8. /\ more \in Seq(HouseEvents) /\ Len(more) = Len(extension) + 1 /\ more[1] = bid
      /\ \A i \in DOMAIN more : i # 1 => more[i] \in ExtendedEvents
  <2>1. <<bid>> \in Seq(HouseEvents) /\ extension \in Seq(HouseEvents) /\ Len(<<bid>>) = 1
    BY <1>5, <1>6 DEF HouseEvents
  <2>2. /\ more \in Seq(HouseEvents) /\ Len(more) = Len(extension) + 1
        /\ \A i \in 1 .. 1 + Len(extension) :
             more[i] = IF i <= 1 THEN <<bid>>[i] ELSE extension[i - 1]
    BY <2>1, ConcatProperties
  <2>3. DOMAIN more = 1 .. 1 + Len(extension) /\ Len(extension) \in Nat
    BY <1>6, <2>2
  <2> HIDE DEF more
  <2> QED  BY <1>6, <2>2, <2>3
<1>9. feed' = feed \o more
  <2>1. <<bid>> \in Seq(HouseEvents) /\ extension \in Seq(HouseEvents)
    BY <1>5, <1>6 DEF HouseEvents
  <2>2. Append(feed, bid) = feed \o <<bid>>
    BY <1>1
  <2> QED  BY <1>1, <1>4, <2>1, <2>2, ConcatAssociative
<1> HIDE DEF more
<1>10. /\ feed' \in Seq(HouseEvents)
       /\ DOMAIN feed = 1 .. Len(feed) /\ n \in DOMAIN feed' /\ feed'[n] = bid
       /\ \A i \in DOMAIN feed : i \in DOMAIN feed' /\ feed'[i] = feed[i]
       /\ \A i \in DOMAIN feed' \ DOMAIN feed : i = n \/ feed'[i].event = "AuctionExtended"
  <2>1. /\ feed' \in Seq(HouseEvents) /\ DOMAIN feed = 1 .. Len(feed)
        /\ DOMAIN feed' = 1 .. Len(feed) + Len(more)
        /\ \A i \in DOMAIN feed : i \in DOMAIN feed' /\ feed'[i] = feed[i]
        /\ \A i \in DOMAIN feed' \ DOMAIN feed :
              i - Len(feed) \in DOMAIN more /\ feed'[i] = more[i - Len(feed)]
    BY <1>1, <1>8, <1>9, EventsAdded
  <2>2. Len(extension) \in Nat
    BY <1>6
  <2>3. n \in DOMAIN feed' \ DOMAIN feed /\ n - Len(feed) = 1
    BY <1>1, <1>8, <2>1, <2>2
  <2>4. \A i \in DOMAIN feed' \ DOMAIN feed : i # n => i - Len(feed) # 1
    BY <1>1, <2>1
  <2>5. \A e \in ExtendedEvents : e.event = "AuctionExtended"
    BY DEF ExtendedEvents
  <2> QED  BY <1>8, <2>1, <2>3, <2>4, <2>5
<1>11. BidsIn(feed') = BidsIn(feed) \cup {n} /\ CreatedIn(feed') = CreatedIn(feed)
  BY <1>5, <1>10 DEF BidsIn, CreatedIn
<1>12. /\ \A i \in CreatedIn(feed) : feed'[i] = feed[i] /\ i < n
       /\ \A i \in BidsIn(feed) : feed'[i] = feed[i] /\ i < n
  BY <1>1, <1>10 DEF CreatedIn, BidsIn
<1>13. /\ \A i \in CreatedIn(feed) : /\ feed[i].nounId \in Nat /\ feed[i].startTime \in Nat
       /\ \A i \in BidsIn(feed) : feed[i].nounId \in Nat /\ feed[i].block \in Nat
  BY <1>1, EventFields DEF CreatedIn, BidsIn, CreatedEvents, AuctionBidEvents
<1>14. \A i \in BidsIn(feed) : feed[i].tx = tx =>
         feed[i].block = clock /\ feed[i].nounId = houseAuction.nounId
  <2> SUFFICES ASSUME NEW i \in BidsIn(feed), feed[i].tx = tx
               PROVE  feed[i].block = clock /\ feed[i].nounId = houseAuction.nounId
    OBVIOUS
  <2>1. PICK j \in BidsIn(feed) : feed[j].tx = tx /\ feed[j].block = clock
    BY <1>2 DEF InTransaction, BidEvents, BidsIn
  <2>2. feed[i].block = feed[j].block /\ feed[i].nounId = feed[j].nounId
    BY <2>1 DEF EventsOrdered
  <2>3. /\ feed[i].nounId <= houseAuction.nounId
        /\ feed[i].nounId < houseAuction.nounId => feed[i].block < houseAuction.startTime
        /\ houseAuction.startTime <= clock
    BY DEF EventsUpTo
  <2> QED  BY <1>1, <1>13, <2>1, <2>2, <2>3
<1>15. EventsOrdered(feed')
  <2>1. \A i, j \in CreatedIn(feed') : i < j =>
          feed'[i].nounId < feed'[j].nounId /\ feed'[i].startTime < feed'[j].startTime
    BY <1>11, <1>12 DEF EventsOrdered
  <2>2. ASSUME NEW i \in BidsIn(feed')
        PROVE  \E j \in CreatedIn(feed') : j < i /\ feed'[j].nounId = feed'[i].nounId
    <3>1. CASE i = n
      <4>1. houseAuction.endTime > 0
        BY <1>1, <1>2
      <4>2. PICK j \in CreatedIn(feed) : feed[j].nounId = houseAuction.nounId
        BY <4>1 DEF EventsUpTo
      <4> QED  BY <1>5, <1>10, <1>11, <1>12, <3>1, <4>2
    <3>2. CASE i \in BidsIn(feed)
      BY <1>11, <1>12, <3>2 DEF EventsOrdered
    <3> QED  BY <1>11, <3>1, <3>2
  <2>3. ASSUME NEW i \in BidsIn(feed'), NEW j \in BidsIn(feed')
        PROVE  /\ feed'[i].nounId < feed'[j].nounId => feed'[i].block < feed'[j].block
               /\ feed'[i].tx = feed'[j].tx =>
                    feed'[i].block = feed'[j].block /\ feed'[i].nounId = feed'[j].nounId
    <3>1. CASE i \in BidsIn(feed) /\ j \in BidsIn(feed)
      BY <1>12, <3>1 DEF EventsOrdered
    <3>2. CASE i \in BidsIn(feed) /\ j = n
      <4>1. /\ feed[i].nounId < houseAuction.nounId => feed[i].block < houseAuction.startTime
            /\ houseAuction.startTime <= clock
        BY <3>2 DEF EventsUpTo
      <4>2. feed'[i] = feed[i] /\ feed'[j] = bid
        BY <1>10, <1>12, <3>2
      <4>3. feed[i].nounId \in Nat /\ feed[i].block \in Nat
        BY <1>13, <3>2
      <4>4. feed[i].nounId < bid.nounId => feed[i].block < bid.block
        BY <1>1, <1>5, <4>1, <4>3
      <4> QED  BY <1>5, <1>14, <3>2, <4>2, <4>4
    <3>3. CASE i = n /\ j \in BidsIn(feed)
      <4>1. feed[j].nounId <= houseAuction.nounId
        BY <3>3 DEF EventsUpTo
      <4>2. feed'[j] = feed[j] /\ feed'[i] = bid
        BY <1>10, <1>12, <3>3
      <4>3. ~ (bid.nounId < feed[j].nounId)
        <5>1. bid.nounId = houseAuction.nounId /\ houseAuction.nounId \in Nat
          BY <1>1, <1>5
        <5>2. feed[j].nounId \in Nat
          BY <1>13, <3>3
        <5> QED  BY <4>1, <5>1, <5>2
      <4> QED  BY <1>5, <1>14, <3>3, <4>2, <4>3
    <3>4. CASE i = n /\ j = n
      BY <1>1, <1>5, <1>10, <3>4
    <3> QED  BY <1>11, <3>1, <3>2, <3>3, <3>4
  <2> QED  BY <2>1, <2>2, <2>3 DEF EventsOrdered
<1>16. EventsUpTo(feed', houseAuction', clock')
  <2>1. \A i \in CreatedIn(feed') :
          feed'[i].nounId <= houseAuction'.nounId /\ feed'[i].startTime < houseAuction'.endTime
    <3>1. \A i \in CreatedIn(feed) :
            feed[i].nounId <= houseAuction.nounId /\ feed[i].startTime < houseAuction.endTime
      BY DEF EventsUpTo
    <3> QED  BY <1>1, <1>3, <1>7, <1>11, <1>12, <1>13, <3>1
  <2>2. ASSUME NEW i \in BidsIn(feed')
        PROVE  /\ feed'[i].nounId <= houseAuction'.nounId /\ feed'[i].block < houseAuction'.endTime
               /\ feed'[i].nounId < houseAuction'.nounId => feed'[i].block < houseAuction'.startTime
    <3>1. CASE i = n
      BY <1>1, <1>3, <1>5, <1>7, <1>10, <3>1
    <3>2. CASE i \in BidsIn(feed)
      <4>1. /\ feed[i].nounId <= houseAuction.nounId /\ feed[i].block < houseAuction.endTime
            /\ feed[i].nounId < houseAuction.nounId => feed[i].block < houseAuction.startTime
        BY <3>2 DEF EventsUpTo
      <4> QED  BY <1>1, <1>3, <1>7, <1>12, <1>13, <3>2, <4>1
    <3> QED  BY <1>11, <3>1, <3>2
  <2>3. houseAuction'.endTime > 0 =>
          \E j \in CreatedIn(feed') : feed'[j].nounId = houseAuction'.nounId
    <3>1. houseAuction.endTime > 0
      BY <1>1, <1>2
    <3> QED  BY <1>7, <1>11, <1>12, <3>1 DEF EventsUpTo
  <2>4. houseAuction.settled => houseAuction.endTime <= clock
    BY DEF EventsUpTo
  <2>5. ~houseAuction.settled
    BY <1>1, <1>2, <2>4
  <2>6. houseAuction'.startTime <= clock'
    BY <1>2, <1>7 DEF EventsUpTo
  <2> QED  BY <1>7, <2>1, <2>2, <2>3, <2>5, <2>6 DEF EventsUpTo
<1> QED  BY <1>1, <1>2, <1>7, <1>10, <1>15, <1>16 DEF HouseTypeOK

\* Every step keeps the order of the events of the house.
LEMMA HouseInvStep ==
  ASSUME HouseInv, SubgraphAuctionNext \/ UNCHANGED houseVars
  PROVE  HouseInv'
<1> USE DEF HouseInv
<1>1. /\ feed \in Seq(HouseEvents) /\ clock \in Nat /\ houseAuction.nounId \in Nat
      /\ houseAuction \in HouseAuctions /\ houseAuction.endTime \in Nat
      /\ houseAuction.startTime \in Nat
  BY DEF HouseTypeOK, HouseAuctions
<1>2. AuctionSettled \in SettledEvents /\ AuctionSettled.event = "AuctionSettled"
  BY <1>1 DEF AuctionSettled, SettledEvents, HouseAuctions
<1>3. CASE HouseSettlesAndOpens
  <2>1. <<AuctionSettled>> \in Seq(SettledEvents) /\ Len(<<AuctionSettled>>) <= 1
    BY <1>2
  <2> QED  BY <1>3, <2>1, OpeningKeepsOrder DEF HouseSettlesAndOpens, CanBeSettled
<1>4. CASE HouseOpens
  <2>1. <<>> \in Seq(SettledEvents) /\ Len(<<>>) <= 1
    BY EmptySeq
  <2>2. houseAuction.endTime <= clock
    BY <1>4 DEF HouseOpens, EventsUpTo
  <2> QED  BY <1>1, <1>4, <2>1, <2>2, OpeningKeepsOrder DEF HouseOpens
<1>5. CASE HouseSettles
  <2>1. /\ houseAuction' = [houseAuction EXCEPT !.settled = TRUE]
        /\ feed' = Append(feed, AuctionSettled) /\ UNCHANGED clock
        /\ clock >= houseAuction.endTime
    BY <1>5 DEF HouseSettles, CanBeSettled
  <2>2. /\ houseAuction' \in HouseAuctions /\ houseAuction'.nounId = houseAuction.nounId
        /\ houseAuction'.startTime = houseAuction.startTime
        /\ houseAuction'.endTime = houseAuction.endTime
    BY <1>1, <2>1 DEF HouseAuctions
  <2>3. AuctionSettled \in HouseEvents
    BY <1>2 DEF HouseEvents
  <2> DEFINE settled == AuctionSettled
  <2>4. settled.event = "AuctionSettled" /\ settled \in HouseEvents
        /\ feed' = Append(feed, settled)
    BY <1>2, <2>1, <2>3
  <2> HIDE DEF settled
  <2>5. /\ feed' \in Seq(HouseEvents)
        /\ \A i \in DOMAIN feed : i \in DOMAIN feed' /\ feed'[i] = feed[i]
        /\ \A i \in DOMAIN feed' \ DOMAIN feed : feed'[i].event = "AuctionSettled"
    BY <1>1, <2>4
  <2>6. /\ CreatedIn(feed') = CreatedIn(feed) /\ BidsIn(feed') = BidsIn(feed)
        /\ \A i \in CreatedIn(feed) : feed'[i] = feed[i]
        /\ \A i \in BidsIn(feed) : feed'[i] = feed[i]
    BY <2>5 DEF CreatedIn, BidsIn
  <2>7. EventsOrdered(feed')
    BY <2>6 DEF EventsOrdered
  <2>8. EventsUpTo(feed', houseAuction', clock')
    BY <1>1, <2>1, <2>2, <2>6 DEF EventsUpTo
  <2> QED  BY <1>1, <2>1, <2>2, <2>5, <2>7, <2>8 DEF HouseTypeOK
<1>6. ASSUME NEW b \in AuctionBidders, NEW v \in Amounts, NEW tx \in Transactions,
             HouseBid(b, v, tx)
      PROVE  HouseInv'
  BY <1>6, BiddingKeepsOrder
<1>7. CASE HouseBlock
  <2>1. clock' = clock + 1 /\ UNCHANGED <<houseAuction, feed>>
    BY <1>7 DEF HouseBlock
  <2> QED  BY <1>1, <2>1 DEF HouseTypeOK, EventsUpTo
<1>8. CASE UNCHANGED houseVars
  BY <1>8 DEF houseVars, HouseTypeOK
<1> QED  BY <1>3, <1>4, <1>5, <1>6, <1>7, <1>8
         DEF SubgraphAuctionNext, HouseActs, IndexNextEvent

-----------------------------------------------------------------------------
(* What the index has of the events it handled.                            *)

AuctionEntities ==
  [amount : Amounts \cup {0}, startTime : Nat, endTime : Nat,
   bidder : AuctionBidders \cup {"none"}, settled : BOOLEAN]
BidEntities ==
  [bidder : AuctionBidders, amount : Amounts, auction : Nat, blockNumber : Nat]

IndexTypeOK ==
  /\ handled \in Nat /\ handled <= Len(feed)
  /\ auctionEntity \in [DOMAIN auctionEntity -> AuctionEntities]
  /\ bidEntity \in [DOMAIN bidEntity -> BidEntities]
  /\ IsFiniteSet(DOMAIN bidEntity)

\* Every auction and bid in the index is from an event, and no auction is missing.
IndexFollows ==
  /\ \A i \in CreatedIn(feed) : i <= handled => feed[i].nounId \in DOMAIN auctionEntity
  /\ \A a \in DOMAIN auctionEntity : \E i \in CreatedIn(feed) :
       i <= handled /\ feed[i].nounId = a /\ feed[i].startTime = auctionEntity[a].startTime
  /\ \A b \in DOMAIN bidEntity : \E i \in BidsIn(feed) :
       /\ i <= handled /\ feed[i].tx = b
       /\ feed[i].nounId = bidEntity[b].auction /\ feed[i].block = bidEntity[b].blockNumber

IndexInv == IndexTypeOK /\ IndexFollows

\* The order of bids that getLastAuctionBids asks for.
UpTo(b, c) ==
  \/ bidEntity[b].blockNumber < bidEntity[c].blockNumber
  \/ bidEntity[b].blockNumber = bidEntity[c].blockNumber /\ b <= c

\* Nothing leaves the index, and no bid in it moves to another block.
IndexGrows ==
  /\ DOMAIN auctionEntity \subseteq DOMAIN auctionEntity'
  /\ DOMAIN bidEntity \subseteq DOMAIN bidEntity'
  /\ \A b \in DOMAIN bidEntity : bidEntity'[b].blockNumber = bidEntity[b].blockNumber

\* New events do not change what was handled.
LEMMA NewEventsKeepIndex ==
  ASSUME IndexInv, feed \in Seq(HouseEvents), feed' \in Seq(HouseEvents),
         \A i \in DOMAIN feed : i \in DOMAIN feed' /\ feed'[i] = feed[i],
         UNCHANGED indexVars
  PROVE  IndexInv' /\ IndexGrows
<1>1. /\ Len(feed) <= Len(feed') /\ Len(feed) \in Nat /\ Len(feed') \in Nat
      /\ DOMAIN feed = 1 .. Len(feed) /\ DOMAIN feed' = 1 .. Len(feed')
  <2>1. /\ DOMAIN feed = 1 .. Len(feed) /\ DOMAIN feed' = 1 .. Len(feed')
        /\ Len(feed) \in Nat /\ Len(feed') \in Nat
    OBVIOUS
  <2>2. CASE Len(feed) = 0
    BY <2>1, <2>2
  <2>3. CASE Len(feed) # 0
    <3>1. Len(feed) \in DOMAIN feed'
      BY <2>1, <2>3
    <3> QED  BY <2>1, <3>1
  <2> QED  BY <2>1, <2>2, <2>3
<1>2. UNCHANGED <<handled, auctionEntity, bidEntity>>
  BY DEF indexVars
<1>3. /\ \A i \in CreatedIn(feed) : i \in CreatedIn(feed') /\ feed'[i] = feed[i]
      /\ \A i \in BidsIn(feed) : i \in BidsIn(feed') /\ feed'[i] = feed[i]
  BY DEF CreatedIn, BidsIn
<1>4. \A i \in CreatedIn(feed') : i <= handled => i \in CreatedIn(feed)
  <2> SUFFICES ASSUME NEW i \in CreatedIn(feed'), i <= handled
               PROVE  i \in CreatedIn(feed)
    OBVIOUS
  <2>1. i \in DOMAIN feed
    BY <1>1 DEF CreatedIn, IndexInv, IndexTypeOK
  <2> QED  BY <2>1 DEF CreatedIn
<1>5. IndexTypeOK'
  BY <1>1, <1>2 DEF IndexInv, IndexTypeOK
<1>6. IndexFollows'
  BY <1>2, <1>3, <1>4 DEF IndexInv, IndexFollows
<1> QED  BY <1>2, <1>5, <1>6 DEF IndexInv, IndexGrows

\* The house adds events and takes none back.
LEMMA EventsStay ==
  ASSUME HouseInv, HouseInv', HouseActs
  PROVE  \A i \in DOMAIN feed : i \in DOMAIN feed' /\ feed'[i] = feed[i]
<1>1. feed \in Seq(HouseEvents) /\ houseAuction \in HouseAuctions /\ clock \in Nat
  BY DEF HouseInv, HouseTypeOK
<1>2. AuctionSettled \in SettledEvents /\ AuctionSettled \in HouseEvents
  BY <1>1 DEF AuctionSettled, SettledEvents, HouseAuctions, HouseEvents
<1>3. ASSUME NEW more \in Seq(HouseEvents), feed' = feed \o more
      PROVE  \A i \in DOMAIN feed : i \in DOMAIN feed' /\ feed'[i] = feed[i]
  BY <1>1, <1>3, EventsAdded
<1>4. ASSUME NEW settlement \in Seq(SettledEvents), Opens(settlement), clock' = clock
      PROVE  \A i \in DOMAIN feed : i \in DOMAIN feed' /\ feed'[i] = feed[i]
  <2> DEFINE created == AuctionCreated(NextNoun)
  <2>1. NextNoun \in Nat /\ clock + AuctionLength \in Nat
    BY <1>1, SubgraphAuctionAssumption DEF NextNoun, HouseAuctions
  <2>2. created \in HouseEvents
    BY <1>1, <2>1 DEF AuctionCreated, CreatedEvents, HouseEvents
  <2>3. feed' = feed \o Append(settlement, created)
    BY <1>4 DEF Opens
  <2> HIDE DEF created
  <2>4. settlement \in Seq(HouseEvents)
    BY DEF HouseEvents
  <2>5. Append(settlement, created) \in Seq(HouseEvents)
    BY <2>2, <2>4
  <2> QED  BY <1>3, <2>3, <2>5
<1>5. CASE HouseSettlesAndOpens
  <2>1. <<AuctionSettled>> \in Seq(SettledEvents)
    BY <1>2
  <2> QED  BY <1>4, <1>5, <2>1 DEF HouseSettlesAndOpens
<1>6. CASE HouseSettles
  <2>1. feed' = Append(feed, AuctionSettled)
    BY <1>6 DEF HouseSettles
  <2> QED  BY <1>1, <1>2, <2>1
<1>7. CASE HouseOpens
  <2>1. <<>> \in Seq(SettledEvents)
    BY EmptySeq
  <2> QED  BY <1>4, <1>7, <2>1 DEF HouseOpens
<1>8. CASE HouseBlock
  BY <1>8 DEF HouseBlock
<1>9. ASSUME NEW b \in AuctionBidders, NEW v \in Amounts, NEW tx \in Transactions,
             HouseBid(b, v, tx)
      PROVE  \A i \in DOMAIN feed : i \in DOMAIN feed' /\ feed'[i] = feed[i]
  <2> DEFINE extended == houseAuction.endTime - clock < AuctionBuffer
             end == IF extended THEN clock + AuctionBuffer ELSE houseAuction.endTime
             bid == AuctionBid(b, v, extended, tx)
             extension == IF extended THEN <<AuctionExtended(end)>> ELSE <<>>
  <2>1. end \in Nat
    BY <1>1, SubgraphAuctionAssumption DEF HouseAuctions
  <2>2. bid \in HouseEvents
    BY <1>1 DEF AuctionBid, AuctionBidEvents, HouseEvents, HouseAuctions
  <2>3. extension \in Seq(HouseEvents)
    <3>1. AuctionExtended(end) \in HouseEvents
      <4> HIDE DEF end
      <4> QED  BY <1>1, <2>1 DEF AuctionExtended, ExtendedEvents, HouseEvents, HouseAuctions
    <3> QED  BY <3>1
  <2>4. feed' = Append(feed, bid) \o extension
    BY <1>9 DEF HouseBid
  <2> HIDE DEF end, bid, extension, extended
  <2>5. Append(feed, bid) = feed \o <<bid>> /\ <<bid>> \in Seq(HouseEvents)
    BY <1>1, <2>2
  <2>6. feed' = feed \o (<<bid>> \o extension) /\ <<bid>> \o extension \in Seq(HouseEvents)
    BY <1>1, <2>3, <2>4, <2>5, ConcatAssociative, ConcatProperties
  <2> QED  BY <1>3, <2>6
<1> QED  BY <1>5, <1>6, <1>7, <1>8, <1>9 DEF HouseActs

\* The handlers.
LEMMA HandlersKeepIndex ==
  ASSUME HouseInv, IndexInv, IndexNextEvent
  PROVE  IndexInv' /\ IndexGrows
<1> DEFINE n == handled + 1
           e == feed[n]
<1>1. /\ feed \in Seq(HouseEvents) /\ EventsOrdered(feed) /\ handled \in Nat
      /\ handled' = n /\ n \in Nat /\ n <= Len(feed) /\ feed' = feed
      /\ auctionEntity \in [DOMAIN auctionEntity -> AuctionEntities]
      /\ bidEntity \in [DOMAIN bidEntity -> BidEntities] /\ IsFiniteSet(DOMAIN bidEntity)
  BY DEF HouseInv, HouseTypeOK, IndexInv, IndexTypeOK, IndexNextEvent, houseVars
<1>2. n \in DOMAIN feed /\ e \in HouseEvents
  BY <1>1
<1>3. \A i \in DOMAIN feed : i <= n => i <= handled \/ i = n
  BY <1>1
<1>4. /\ CreatedIn(feed') = CreatedIn(feed) /\ BidsIn(feed') = BidsIn(feed)
      /\ CreatedIn(feed) \subseteq DOMAIN feed /\ BidsIn(feed) \subseteq DOMAIN feed
      /\ \A i \in DOMAIN feed : i <= handled => i <= n
  BY <1>1 DEF CreatedIn, BidsIn
<1>5. /\ e.event = "AuctionCreated" <=> n \in CreatedIn(feed)
      /\ e.event = "AuctionBid" <=> n \in BidsIn(feed)
  BY <1>2 DEF CreatedIn, BidsIn
<1>6. /\ e.event = "AuctionCreated" => e \in CreatedEvents
      /\ e.event = "AuctionBid" => e \in AuctionBidEvents
      /\ e.event = "AuctionExtended" => e \in ExtendedEvents
      /\ e.event = "AuctionSettled" => e \in SettledEvents
  BY <1>2, EventFields
<1>7. \/ handleAuctionCreated(e) \/ handleAuctionBid(e)
      \/ handleAuctionExtended(e) \/ handleAuctionSettled(e)
  BY DEF IndexNextEvent
<1> HIDE DEF e
\* What only sets fields of an auction keeps its start.
<1>8. ASSUME e.event # "AuctionCreated",
             DOMAIN auctionEntity' = DOMAIN auctionEntity,
             auctionEntity' \in [DOMAIN auctionEntity' -> AuctionEntities],
             \A a \in DOMAIN auctionEntity :
               auctionEntity'[a].startTime = auctionEntity[a].startTime
      PROVE  /\ \A i \in CreatedIn(feed') :
                  i <= handled' => feed'[i].nounId \in DOMAIN auctionEntity'
             /\ \A a \in DOMAIN auctionEntity' : \E i \in CreatedIn(feed') :
                  /\ i <= handled' /\ feed'[i].nounId = a
                  /\ feed'[i].startTime = auctionEntity'[a].startTime
  BY <1>1, <1>3, <1>4, <1>5, <1>8 DEF IndexInv, IndexFollows
<1>9. ASSUME UNCHANGED bidEntity
      PROVE  /\ \A b \in DOMAIN bidEntity' : \E i \in BidsIn(feed') :
                  /\ i <= handled' /\ feed'[i].tx = b
                  /\ feed'[i].nounId = bidEntity'[b].auction
                  /\ feed'[i].block = bidEntity'[b].blockNumber
             /\ bidEntity' \in [DOMAIN bidEntity' -> BidEntities]
             /\ IsFiniteSet(DOMAIN bidEntity')
             /\ DOMAIN bidEntity \subseteq DOMAIN bidEntity'
             /\ \A b \in DOMAIN bidEntity : bidEntity'[b].blockNumber = bidEntity[b].blockNumber
  BY <1>1, <1>4, <1>9 DEF IndexInv, IndexFollows
<1>10. handled' \in Nat /\ handled' <= Len(feed')
  BY <1>1
<1>11. CASE handleAuctionCreated(e)
  <2> DEFINE entity == [amount |-> 0, startTime |-> e.startTime, endTime |-> e.endTime,
                        bidder |-> "none", settled |-> FALSE]
  <2>1. /\ e.event = "AuctionCreated" /\ UNCHANGED bidEntity
        /\ auctionEntity' = [i \in DOMAIN auctionEntity \cup {e.nounId} |->
                               IF i = e.nounId THEN entity ELSE auctionEntity[i]]
    BY <1>11 DEF handleAuctionCreated, Saved
  <2>2. entity \in AuctionEntities /\ entity.startTime = e.startTime
    BY <1>6, <2>1 DEF CreatedEvents, AuctionEntities
  <2> HIDE DEF entity
  <2>3. /\ DOMAIN auctionEntity' = DOMAIN auctionEntity \cup {e.nounId}
        /\ auctionEntity'[e.nounId] = entity
        /\ \A a \in DOMAIN auctionEntity : a # e.nounId => auctionEntity'[a] = auctionEntity[a]
        /\ auctionEntity' \in [DOMAIN auctionEntity' -> AuctionEntities]
    BY <1>1, <2>1, <2>2
  <2>4. n \in CreatedIn(feed) /\ feed[n] = e
    BY <1>5, <2>1 DEF e
  <2>5. \A i \in CreatedIn(feed') : i <= handled' => feed'[i].nounId \in DOMAIN auctionEntity'
    BY <1>1, <1>3, <1>4, <2>3, <2>4 DEF IndexInv, IndexFollows
  <2>6. ASSUME NEW a \in DOMAIN auctionEntity'
        PROVE  \E i \in CreatedIn(feed') :
                 /\ i <= handled' /\ feed'[i].nounId = a
                 /\ feed'[i].startTime = auctionEntity'[a].startTime
    <3>1. CASE a = e.nounId
      BY <1>1, <1>4, <2>2, <2>3, <2>4, <3>1
    <3>2. CASE a # e.nounId
      BY <1>1, <1>4, <2>3, <3>2 DEF IndexInv, IndexFollows
    <3> QED  BY <3>1, <3>2
  <2> QED  BY <1>9, <1>10, <2>1, <2>3, <2>5, <2>6
           DEF IndexInv, IndexTypeOK, IndexFollows, IndexGrows
<1>12. CASE handleAuctionBid(e) /\ e.nounId \in DOMAIN auctionEntity
  <2> DEFINE entity == [bidder |-> e.sender, amount |-> e.value, auction |-> e.nounId,
                        blockNumber |-> e.block]
             a0 == e.nounId
  <2>1. /\ e.event = "AuctionBid"
        /\ auctionEntity' = [auctionEntity EXCEPT ![a0].amount = e.value, ![a0].bidder = e.sender]
        /\ bidEntity' = [i \in DOMAIN bidEntity \cup {e.tx} |->
                           IF i = e.tx THEN entity ELSE bidEntity[i]]
    BY <1>12 DEF handleAuctionBid, Saved
  <2>2. /\ e.value \in Amounts /\ e.sender \in AuctionBidders /\ e.nounId \in Nat
        /\ e.block \in Nat
    BY <1>6, <2>1 DEF AuctionBidEvents
  <2>3. entity \in BidEntities /\ entity.auction = e.nounId /\ entity.blockNumber = e.block
    BY <2>2 DEF BidEntities
  <2> HIDE DEF entity
  <2>4. /\ DOMAIN auctionEntity' = DOMAIN auctionEntity
        /\ auctionEntity' \in [DOMAIN auctionEntity' -> AuctionEntities]
        /\ \A a \in DOMAIN auctionEntity :
             auctionEntity'[a].startTime = auctionEntity[a].startTime
    <3> DEFINE old == auctionEntity[a0]
               raised == [old EXCEPT !.amount = e.value, !.bidder = e.sender]
    <3>1. a0 \in DOMAIN auctionEntity
      BY <1>12
    <3>2. old \in AuctionEntities
      BY <1>1, <3>1
    <3> HIDE DEF old, a0
    <3>3. raised \in AuctionEntities /\ raised.startTime = old.startTime
      BY <2>2, <3>2 DEF AuctionEntities
    <3> HIDE DEF raised
    <3>4. auctionEntity' = [auctionEntity EXCEPT ![a0] = raised]
      BY <2>1 DEF raised, old, a0
    <3>5. auctionEntity \in [DOMAIN auctionEntity -> AuctionEntities]
      BY <1>1
    <3>6. auctionEntity' = [a \in DOMAIN auctionEntity |->
                              IF a = a0 THEN raised ELSE auctionEntity[a]]
      BY <3>4, <3>5
    <3>7. \A a \in DOMAIN auctionEntity :
            /\ (IF a = a0 THEN raised ELSE auctionEntity[a]) \in AuctionEntities
            /\ (IF a = a0 THEN raised ELSE auctionEntity[a]).startTime
                 = auctionEntity[a].startTime
      BY <3>3, <3>5 DEF old
    <3> QED  BY ONLY <3>6, <3>7
  <2>5. /\ DOMAIN bidEntity' = DOMAIN bidEntity \cup {e.tx} /\ bidEntity'[e.tx] = entity
        /\ \A b \in DOMAIN bidEntity : b # e.tx => bidEntity'[b] = bidEntity[b]
        /\ bidEntity' \in [DOMAIN bidEntity' -> BidEntities]
    BY <1>1, <2>1, <2>3
  <2>6. IsFiniteSet(DOMAIN bidEntity')
    BY <1>1, <2>5, FS_AddElement
  <2>7. n \in BidsIn(feed) /\ feed[n] = e
    BY <1>5, <2>1 DEF e
  <2>8. ASSUME NEW b \in DOMAIN bidEntity'
        PROVE  \E i \in BidsIn(feed') :
                 /\ i <= handled' /\ feed'[i].tx = b
                 /\ feed'[i].nounId = bidEntity'[b].auction
                 /\ feed'[i].block = bidEntity'[b].blockNumber
    <3>1. CASE b = e.tx
      BY <1>1, <1>4, <2>3, <2>5, <2>7, <3>1
    <3>2. CASE b # e.tx
      BY <1>1, <1>4, <2>5, <3>2 DEF IndexInv, IndexFollows
    <3> QED  BY <3>1, <3>2
  <2>9. ASSUME NEW b \in DOMAIN bidEntity
        PROVE  bidEntity'[b].blockNumber = bidEntity[b].blockNumber
    <3>1. CASE b = e.tx
      <4>1. PICK i \in BidsIn(feed) :
              feed[i].tx = b /\ feed[i].block = bidEntity[b].blockNumber
        BY DEF IndexInv, IndexFollows
      <4> QED  BY <1>1, <2>3, <2>5, <2>7, <3>1, <4>1 DEF EventsOrdered
    <3>2. CASE b # e.tx
      BY <2>5, <3>2
    <3> QED  BY <3>1, <3>2
  <2>10. e.event # "AuctionCreated"
    BY <2>1
  <2> QED  BY <1>8, <1>10, <2>4, <2>5, <2>6, <2>8, <2>9, <2>10
           DEF IndexInv, IndexTypeOK, IndexFollows, IndexGrows
<1>13. CASE handleAuctionBid(e) /\ e.nounId \notin DOMAIN auctionEntity
  <2>1. e.event = "AuctionBid" /\ UNCHANGED <<auctionEntity, bidEntity>>
    BY <1>13 DEF handleAuctionBid
  <2> QED  BY <1>1, <1>8, <1>9, <1>10, <2>1
           DEF IndexInv, IndexTypeOK, IndexFollows, IndexGrows
<1>14. ASSUME NEW a0 \in DOMAIN auctionEntity, NEW end \in Nat, e.event # "AuctionCreated",
              \/ auctionEntity' = [auctionEntity EXCEPT ![a0].endTime = end]
              \/ auctionEntity' = [auctionEntity EXCEPT ![a0].settled = TRUE],
              UNCHANGED bidEntity
       PROVE  IndexInv' /\ IndexGrows
  <2>1. /\ DOMAIN auctionEntity' = DOMAIN auctionEntity
        /\ auctionEntity' \in [DOMAIN auctionEntity' -> AuctionEntities]
        /\ \A a \in DOMAIN auctionEntity :
             auctionEntity'[a].startTime = auctionEntity[a].startTime
    <3>1. CASE auctionEntity' = [auctionEntity EXCEPT ![a0].endTime = end]
      BY <1>1, <3>1 DEF AuctionEntities
    <3>2. CASE auctionEntity' = [auctionEntity EXCEPT ![a0].settled = TRUE]
      BY <1>1, <3>2 DEF AuctionEntities
    <3> QED  BY <1>14, <3>1, <3>2
  <2> QED  BY <1>8, <1>9, <1>10, <1>14, <2>1
           DEF IndexInv, IndexTypeOK, IndexFollows, IndexGrows
<1>15. ASSUME e.event # "AuctionCreated", UNCHANGED <<auctionEntity, bidEntity>>
       PROVE  IndexInv' /\ IndexGrows
  BY <1>1, <1>8, <1>9, <1>10, <1>15 DEF IndexInv, IndexTypeOK, IndexFollows, IndexGrows
<1>16. CASE handleAuctionExtended(e)
  <2>1. e.event = "AuctionExtended" /\ UNCHANGED bidEntity
    BY <1>16 DEF handleAuctionExtended
  <2>2. e.endTime \in Nat
    BY <1>6, <2>1 DEF ExtendedEvents
  <2> QED  BY <1>14, <1>15, <1>16, <2>1, <2>2 DEF handleAuctionExtended
<1>17. CASE handleAuctionSettled(e)
  <2>1. e.event = "AuctionSettled" /\ UNCHANGED bidEntity
    BY <1>17 DEF handleAuctionSettled
  <2> QED  BY <1>14, <1>15, <1>17, <2>1 DEF handleAuctionSettled
<1> QED  BY <1>7, <1>11, <1>12, <1>13, <1>16, <1>17

SubgraphInv == HouseInv /\ IndexInv

\* Every step keeps the index of the house, which only grows.
LEMMA SubgraphStep ==
  ASSUME SubgraphInv, SubgraphAuctionNext
  PROVE  SubgraphInv' /\ IndexGrows
<1>1. HouseInv'
  BY HouseInvStep DEF SubgraphInv
<1>2. CASE HouseActs
  <2>1. UNCHANGED indexVars
    BY <1>2 DEF HouseActs, HouseSettlesAndOpens, HouseSettles, HouseOpens, HouseBlock, HouseBid
  <2>2. \A i \in DOMAIN feed : i \in DOMAIN feed' /\ feed'[i] = feed[i]
    BY <1>1, <1>2, EventsStay DEF SubgraphInv
  <2>3. feed \in Seq(HouseEvents) /\ feed' \in Seq(HouseEvents)
    BY <1>1 DEF SubgraphInv, HouseInv, HouseTypeOK
  <2> QED  BY <1>1, <2>1, <2>2, <2>3, NewEventsKeepIndex DEF SubgraphInv
<1>3. CASE IndexNextEvent
  BY <1>1, <1>3, HandlersKeepIndex DEF SubgraphInv
<1> QED  BY <1>2, <1>3 DEF SubgraphAuctionNext

\* Later auctions have larger ids, and their bids are in later blocks.
LEMMA IndexIsOrdered ==
  ASSUME SubgraphInv
  PROVE  /\ \A a \in DOMAIN auctionEntity :
              a \in Nat /\ auctionEntity[a].startTime \in Nat /\ auctionEntity[a].endTime \in Nat
         /\ \A a, b \in DOMAIN auctionEntity :
              a < b => auctionEntity[a].startTime < auctionEntity[b].startTime
         /\ \A b \in DOMAIN bidEntity :
              /\ b \in Transactions /\ bidEntity[b].auction \in DOMAIN auctionEntity
              /\ bidEntity[b].auction \in Nat /\ bidEntity[b].blockNumber \in Nat
         /\ \A b, c \in DOMAIN bidEntity :
              bidEntity[b].auction < bidEntity[c].auction =>
                bidEntity[b].blockNumber < bidEntity[c].blockNumber
<1>1. /\ feed \in Seq(HouseEvents) /\ EventsOrdered(feed) /\ IndexFollows
      /\ handled \in Nat
      /\ auctionEntity \in [DOMAIN auctionEntity -> AuctionEntities]
      /\ bidEntity \in [DOMAIN bidEntity -> BidEntities]
  BY DEF SubgraphInv, HouseInv, HouseTypeOK, IndexInv, IndexTypeOK
<1>2. \A i \in CreatedIn(feed) :
        i \in Nat /\ feed[i].nounId \in Nat /\ feed[i].startTime \in Nat
  BY <1>1, EventFields DEF CreatedIn, CreatedEvents
<1>3. \A i \in BidsIn(feed) :
        /\ i \in Nat /\ feed[i].nounId \in Nat /\ feed[i].block \in Nat
        /\ feed[i].tx \in Transactions
  BY <1>1, EventFields DEF BidsIn, AuctionBidEvents
<1>4. \A a \in DOMAIN auctionEntity :
        a \in Nat /\ auctionEntity[a].startTime \in Nat /\ auctionEntity[a].endTime \in Nat
  BY <1>1, <1>2 DEF IndexFollows, AuctionEntities
<1>5. ASSUME NEW a \in DOMAIN auctionEntity, NEW b \in DOMAIN auctionEntity, a < b
      PROVE  auctionEntity[a].startTime < auctionEntity[b].startTime
  <2>1. PICK i \in CreatedIn(feed) :
          feed[i].nounId = a /\ feed[i].startTime = auctionEntity[a].startTime
    BY <1>1 DEF IndexFollows
  <2>2. PICK j \in CreatedIn(feed) :
          feed[j].nounId = b /\ feed[j].startTime = auctionEntity[b].startTime
    BY <1>1 DEF IndexFollows
  <2>3. i < j
    <3>1. ~(j < i)
      BY <1>1, <1>2, <1>4, <1>5, <2>1, <2>2 DEF EventsOrdered
    <3>2. i # j
      BY <1>4, <1>5, <2>1, <2>2
    <3> QED  BY <1>2, <3>1, <3>2
  <2> QED  BY <1>1, <2>1, <2>2, <2>3 DEF EventsOrdered
<1>6. ASSUME NEW b \in DOMAIN bidEntity
      PROVE  /\ b \in Transactions /\ bidEntity[b].auction \in DOMAIN auctionEntity
             /\ bidEntity[b].auction \in Nat /\ bidEntity[b].blockNumber \in Nat
  <2>1. PICK i \in BidsIn(feed) :
          /\ i <= handled /\ feed[i].tx = b
          /\ feed[i].nounId = bidEntity[b].auction /\ feed[i].block = bidEntity[b].blockNumber
    BY <1>1 DEF IndexFollows
  <2>2. PICK j \in CreatedIn(feed) : j < i /\ feed[j].nounId = feed[i].nounId
    BY <1>1 DEF EventsOrdered
  <2>3. j <= handled
    BY <1>1, <1>2, <1>3, <2>1, <2>2
  <2> QED  BY <1>1, <1>3, <2>1, <2>2, <2>3 DEF IndexFollows
<1>7. ASSUME NEW b \in DOMAIN bidEntity, NEW c \in DOMAIN bidEntity,
             bidEntity[b].auction < bidEntity[c].auction
      PROVE  bidEntity[b].blockNumber < bidEntity[c].blockNumber
  <2>1. PICK i \in BidsIn(feed) :
          feed[i].nounId = bidEntity[b].auction /\ feed[i].block = bidEntity[b].blockNumber
    BY <1>1 DEF IndexFollows
  <2>2. PICK j \in BidsIn(feed) :
          feed[j].nounId = bidEntity[c].auction /\ feed[j].block = bidEntity[c].blockNumber
    BY <1>1 DEF IndexFollows
  <2> QED  BY <1>1, <1>7, <2>1, <2>2 DEF EventsOrdered
<1> QED  BY <1>4, <1>5, <1>6, <1>7

\* Some auction has the latest start.
LEMMA NewestExists ==
  ASSUME SubgraphInv, NEW some \in DOMAIN auctionEntity
  PROVE  \E a \in DOMAIN auctionEntity : \A b \in DOMAIN auctionEntity :
           auctionEntity[a].startTime >= auctionEntity[b].startTime
<1> DEFINE P == {i \in CreatedIn(feed) : i <= handled}
           n == Len(feed)
<1>1. /\ feed \in Seq(HouseEvents) /\ EventsOrdered(feed) /\ IndexFollows
      /\ handled \in Nat
  BY DEF SubgraphInv, HouseInv, HouseTypeOK, IndexInv, IndexTypeOK
<1>2. n \in Nat /\ P \subseteq 1 .. n
  BY <1>1 DEF CreatedIn
<1>3. P # {}
  BY <1>1 DEF IndexFollows
<1>4. PICK m \in P : \A j \in P : j <= m
  <2> HIDE DEF P, n
  <2> QED  BY <1>2, <1>3, LastExists
<1>5. \A i \in CreatedIn(feed) :
        i \in Nat /\ feed[i].nounId \in Nat /\ feed[i].startTime \in Nat
  BY <1>1, EventFields DEF CreatedIn, CreatedEvents
<1> DEFINE a == feed[m].nounId
<1>6. a \in DOMAIN auctionEntity
  BY <1>1 DEF IndexFollows
<1>7. PICK k \in P : feed[k].nounId = a /\ feed[k].startTime = auctionEntity[a].startTime
  BY <1>1, <1>6 DEF IndexFollows
<1>8. k = m
  <2>1. k <= m /\ k \in Nat /\ m \in Nat
    BY <1>4, <1>5
  <2>2. ~(k < m)
    BY <1>1, <1>5, <1>7 DEF EventsOrdered
  <2> QED  BY <2>1, <2>2
<1>9. ASSUME NEW b \in DOMAIN auctionEntity
      PROVE  auctionEntity[a].startTime >= auctionEntity[b].startTime
  <2>1. PICK j \in P : feed[j].startTime = auctionEntity[b].startTime
    BY <1>1 DEF IndexFollows
  <2>2. j < m \/ j = m
    BY <1>4, <1>5
  <2>3. feed[j].startTime <= feed[m].startTime
    BY <1>1, <1>5, <2>2 DEF EventsOrdered
  <2> QED  BY <1>5, <1>7, <1>8, <2>1, <2>3
<1> QED  BY <1>6, <1>9

\* Any bids have a last one.
LEMMA LastBidExists ==
  ASSUME SubgraphInv, NEW bids \in SUBSET DOMAIN bidEntity, bids # {}
  PROVE  \E b \in bids : \A c \in bids : UpTo(c, b)
<1> DEFINE S == DOMAIN bidEntity
           HasLast(T) == \E b \in T : \A c \in T : UpTo(c, b)
           G == {T \in SUBSET S : T # {} => HasLast(T)}
<1>1. /\ IsFiniteSet(S)
      /\ \A b \in S : b \in Nat /\ bidEntity[b].blockNumber \in Nat
  BY IndexIsOrdered, SubgraphAuctionAssumption DEF SubgraphInv, IndexInv, IndexTypeOK
<1>2. ASSUME NEW T \in SUBSET S, \A U \in SUBSET T : U # T => U \in G
      PROVE  T \in G
  <2> SUFFICES ASSUME T # {}
               PROVE  HasLast(T)
    OBVIOUS
  <2>1. PICK x \in T : TRUE
    OBVIOUS
  <2>2. T \ {x} \in G
    BY <1>2, <2>1
  <2>3. CASE T \ {x} = {}
    <3>1. \A c \in T : c = x
      BY <2>3
    <3> QED  BY <1>1, <3>1 DEF UpTo
  <2>4. CASE T \ {x} # {}
    <3>1. PICK y \in T \ {x} : \A c \in T \ {x} : UpTo(c, y)
      BY <2>2, <2>4
    <3>2. CASE UpTo(x, y)
      BY <3>1, <3>2
    <3>3. CASE ~UpTo(x, y)
      <4>1. \A c \in T : UpTo(c, x)
        BY <1>1, <3>1, <3>3 DEF UpTo
      <4> QED  BY <4>1
    <3> QED  BY <3>2, <3>3
  <2> QED  BY <2>3, <2>4
<1>3. G = SUBSET S
  <2> HIDE DEF S
  <2>1. G \in SUBSET SUBSET S
    OBVIOUS
  <2> HIDE DEF G
  <2> QED  BY <1>1, <1>2, <2>1, SubsetInduction
<1> QED  BY <1>3

\* What a tick is told is the newest auction, and the last of all bids if it has any.
LEMMA LastIsLast ==
  ASSUME SubgraphInv, auctionEntity # <<>>
  PROVE  LET last == getLastAuctionBids
         IN /\ last \in [id : DOMAIN auctionEntity, endTime : Nat, bid : Nat]
            /\ \A a \in DOMAIN auctionEntity : a <= last.id
            /\ last.bid # NoBid =>
                 last.bid \in DOMAIN bidEntity /\ \A c \in DOMAIN bidEntity : UpTo(c, last.bid)
<1> DEFINE Newest(i) == \A j \in DOMAIN auctionEntity :
                          auctionEntity[i].startTime >= auctionEntity[j].startTime
           id == CHOOSE i \in DOMAIN auctionEntity : Newest(i)
           bids == {b \in DOMAIN bidEntity : bidEntity[b].auction = id}
           bid == IF bids = {} THEN NoBid ELSE CHOOSE b \in bids : \A c \in bids : UpTo(c, b)
<1>1. getLastAuctionBids = [id |-> id, endTime |-> auctionEntity[id].endTime, bid |-> bid]
  BY DEF getLastAuctionBids, UpTo
<1>2. DOMAIN auctionEntity # {}
  <2> SUFFICES ASSUME DOMAIN auctionEntity = {}
               PROVE  FALSE
    OBVIOUS
  <2>1. auctionEntity \in [{} -> AuctionEntities]
    BY DEF SubgraphInv, IndexInv, IndexTypeOK
  <2>2. <<>> \in [{} -> AuctionEntities]
    OBVIOUS
  <2>3. \A f, g \in [{} -> AuctionEntities] : f = g
    OBVIOUS
  <2> QED  BY <2>1, <2>2, <2>3
<1>3. id \in DOMAIN auctionEntity /\ Newest(id)
  <2>1. \E i \in DOMAIN auctionEntity : Newest(i)
    BY <1>2, NewestExists
  <2> QED  BY <2>1
<1>4. \A a \in DOMAIN auctionEntity : a <= id
  <2>1. ASSUME NEW k \in DOMAIN auctionEntity, Newest(k), NEW a \in DOMAIN auctionEntity
        PROVE  a <= k
    <3>1. /\ a \in Nat /\ auctionEntity[a].startTime \in Nat
          /\ k \in Nat /\ auctionEntity[k].startTime \in Nat
          /\ k < a => auctionEntity[k].startTime < auctionEntity[a].startTime
      BY IndexIsOrdered
    <3>2. auctionEntity[k].startTime >= auctionEntity[a].startTime
      BY <2>1
    <3> QED  BY <3>1, <3>2
  <2> HIDE DEF Newest, id
  <2> QED  BY <1>3, <2>1
<1> HIDE DEF id
<1>5. bids # {} => bid \in bids /\ \A c \in bids : UpTo(c, bid)
  <2>1. bids \in SUBSET DOMAIN bidEntity
    OBVIOUS
  <2> HIDE DEF bids
  <2> QED  BY <2>1, LastBidExists
<1>6. bid \in Nat
  BY <1>5, IndexIsOrdered, SubgraphAuctionAssumption DEF NoBid
<1>7. ASSUME bids # {}, NEW c \in DOMAIN bidEntity
      PROVE  UpTo(c, bid)
  <2>1. /\ bidEntity[c].auction \in DOMAIN auctionEntity /\ bidEntity[c].auction \in Nat
        /\ id \in Nat /\ bidEntity[bid].auction = id /\ bid \in DOMAIN bidEntity
    BY <1>3, <1>5, <1>7, IndexIsOrdered
  <2>2. bidEntity[c].auction = id \/ bidEntity[c].auction < id
    BY <1>4, <2>1
  <2>3. CASE bidEntity[c].auction = id
    BY <1>5, <1>7, <2>3
  <2>4. CASE bidEntity[c].auction < id
    BY <2>1, <2>4, IndexIsOrdered DEF UpTo
  <2> QED  BY <2>2, <2>3, <2>4
<1>8. auctionEntity[id].endTime \in Nat
  BY <1>3, IndexIsOrdered
<1>9. bid # NoBid => bids # {}
  OBVIOUS
<1> HIDE DEF bid
<1> QED  BY <1>1, <1>3, <1>4, <1>5, <1>6, <1>7, <1>8, <1>9

-----------------------------------------------------------------------------
(* The bot of the auctions, while nothing overlaps.                        *)

Unsent(subject) == \A x \in DOMAIN sent : x[2] = subject => sent[x] = 0

LastAuctions == [id : Nat, endTime : Nat, bid : Nat]
AfterQuery == {"auction", "handleNewAuction", "bid", "handleNewBid", "ending",
               "handleAuctionEndingSoon"}
CachesRead == {"auction", "handleNewAuction"}
BidCacheRead == CachesRead \cup {"bid"}
EndingCacheRead == BidCacheRead \cup {"handleNewBid", "ending"}

\* The query told of an auction in the index, and of a bid none was announced after.
LastOK(last) ==
  /\ last.id \in DOMAIN auctionEntity
  /\ last.bid # NoBid =>
       last.bid \in DOMAIN bidEntity /\ (bidCache # NoBid => UpTo(bidCache, last.bid))

\* What a tick read of the caches is still so, until it writes them itself; what it
\* is about to announce is remembered, and was not announced.
AfterQueryOK(tick) ==
  /\ tick \in [at : AfterQuery, auction : Nat, bid : Nat, ending : Nat, last : LastAuctions]
  /\ LastOK(tick.last)
  /\ tick.at = "auction" => tick.auction = auctionCache
  /\ tick.at \in BidCacheRead => tick.bid = bidCache
  /\ tick.at \in EndingCacheRead => tick.ending = endingSoonCache
  /\ tick.at = "handleNewAuction" =>
       auctionCache = tick.last.id /\ Unsent(<<"auction", tick.last.id>>)
  /\ tick.at = "handleNewBid" =>
       bidCache = tick.last.bid /\ bidCache # NoBid /\ Unsent(<<"bid", tick.last.bid>>)
  /\ tick.at = "handleAuctionEndingSoon" =>
       endingSoonCache = tick.last.id /\ Unsent(<<"ending", tick.last.id>>)

TickOK(tick) ==
  \/ tick \in [at : {"getBidCache"}, auction : {auctionCache}]
  \/ tick \in [at : {"getAuctionEndingSoonCache"}, auction : {auctionCache}, bid : {bidCache}]
  \/ tick \in [at : {"getLastAuctionBids"}, auction : {auctionCache}, bid : {bidCache},
               ending : {endingSoonCache}]
  \/ AfterQueryOK(tick)

\* A tick under way is alone.
TicksOK ==
  /\ auctionTick \in [AuctionTicks -> {auctionTick[t] : t \in AuctionTicks}]
  /\ \A t \in AuctionTicks : auctionTick[t] # Idle =>
       /\ TickOK(auctionTick[t]) /\ auctionSetup = Idle
       /\ \A u \in AuctionTicks : u # t => auctionTick[u] = Idle

SetupOK ==
  \/ auctionSetup \in {Idle, [at |-> "query"]}
  \/ /\ auctionSetup \in [at : {"update"}, id : DOMAIN auctionEntity]
     /\ auctionSetup.id >= auctionCache

\* Nothing past what is remembered was announced.
SentOK ==
  /\ \A x \in DOMAIN sent : sent[x] \in {0, 1}
  /\ \A id \in Nat : /\ id > auctionCache => Unsent(<<"auction", id>>)
                     /\ id > endingSoonCache => Unsent(<<"ending", id>>)
  /\ \A b \in Nat : \/ Unsent(<<"bid", b>>)
                    \/ b \in DOMAIN bidEntity /\ bidCache # NoBid /\ UpTo(b, bidCache)

CachesOK ==
  /\ auctionCache \in {0} \cup DOMAIN auctionEntity
  /\ bidCache \in {NoBid} \cup DOMAIN bidEntity
  /\ endingSoonCache \in Nat

AuctionBotInv == ~overlapped => TicksOK /\ SetupOK /\ SentOK /\ CachesOK

\* The order of bids is kept, when the index grows.
LEMMA OrderStays ==
  ASSUME IndexGrows
  PROVE  \A b, c \in DOMAIN bidEntity : UpTo(b, c) => UpTo(b, c)'
BY DEF IndexGrows, UpTo

\* What the subgraph does meanwhile disturbs nothing.
LEMMA GrowthKeepsBot ==
  ASSUME AuctionBotInv, IndexGrows, UNCHANGED auctionBotVars
  PROVE  AuctionBotInv'
<1> SUFFICES ASSUME ~overlapped'
             PROVE  TicksOK' /\ SetupOK' /\ SentOK' /\ CachesOK'
  BY DEF AuctionBotInv
<1>1. /\ UNCHANGED <<auctionCache, bidCache, endingSoonCache, replyTweet>>
      /\ UNCHANGED <<auctionTick, auctionSetup, sent, overlapped>>
  BY DEF auctionBotVars, auctionRedis
<1>2. TicksOK /\ SetupOK /\ SentOK /\ CachesOK
  BY <1>1 DEF AuctionBotInv
<1>3. CachesOK'
  BY <1>1, <1>2 DEF CachesOK, IndexGrows
<1>4. SetupOK'
  BY <1>1, <1>2 DEF SetupOK, IndexGrows
<1>5. \A s : Unsent(s)' <=> Unsent(s)
  BY <1>1 DEF Unsent
<1>6. SentOK'
  <2>1. ASSUME NEW b \in DOMAIN bidEntity, bidCache # NoBid, UpTo(b, bidCache)
        PROVE  UpTo(b, bidCache)'
    BY <1>1, <1>2, <2>1, OrderStays DEF CachesOK
  <2> QED  BY <1>1, <1>2, <1>5, <2>1 DEF SentOK, IndexGrows
<1>7. ASSUME NEW last, LastOK(last)
      PROVE  LastOK(last)'
  <2>1. bidCache \in {NoBid} \cup DOMAIN bidEntity
    BY <1>2 DEF CachesOK
  <2> QED  BY <1>1, <1>7, <2>1, OrderStays DEF LastOK, IndexGrows
<1>8. ASSUME NEW tick, TickOK(tick)
      PROVE  TickOK(tick)'
  BY <1>1, <1>5, <1>7, <1>8 DEF TickOK, AfterQueryOK
<1>9. TicksOK'
  BY <1>1, <1>2, <1>8 DEF TicksOK
<1> QED  BY <1>3, <1>4, <1>6, <1>9

\* A tick under way goes on by itself.
LEMMA TickMoves ==
  ASSUME TicksOK, NEW t \in AuctionTicks, auctionTick[t] # Idle,
         NEW to, TickGoes(t, to), UNCHANGED auctionSetup,
         to = Idle \/ TickOK(to)'
  PROVE  TicksOK' /\ SetupOK'
<1>1. /\ auctionSetup = Idle /\ auctionSetup' = Idle
      /\ \A u \in AuctionTicks : u # t => auctionTick[u] = Idle
      /\ DOMAIN auctionTick = AuctionTicks
  BY DEF TicksOK
<1>2. /\ DOMAIN auctionTick' = AuctionTicks /\ auctionTick'[t] = to
      /\ \A u \in AuctionTicks : u # t => auctionTick'[u] = Idle
      /\ auctionTick' \in [AuctionTicks -> {auctionTick'[u] : u \in AuctionTicks}]
  BY <1>1 DEF TickGoes
<1>3. TicksOK'
  <2> HIDE DEF Idle
  <2> QED  BY <1>1, <1>2 DEF TicksOK
<1>4. SetupOK'
  BY <1>1 DEF SetupOK
<1> QED  BY <1>3, <1>4

\* What is sent is what was announced before, and the subject at hand.
LEMMA DeliversOnce ==
  ASSUME SentOK, ~overlapped, NEW handlers, NEW subject, Delivers(handlers, subject),
         Unsent(subject)
  PROVE  /\ \A x \in DOMAIN sent' : sent'[x] \in {0, 1}
         /\ \A s : s # subject /\ Unsent(s) => Unsent(s)'
<1>1. /\ DOMAIN sent' = DOMAIN sent
      /\ \A x \in DOMAIN sent : x[2] # subject => sent'[x] = sent[x]
      /\ \A x \in DOMAIN sent : x[2] = subject => sent'[x] \in {sent[x], Twice(sent[x])}
  BY DEF Delivers
<1>2. \A x \in DOMAIN sent : x[2] = subject => sent'[x] \in {0, 1}
  BY <1>1 DEF Unsent, Twice
<1> QED  BY <1>1, <1>2 DEF SentOK, Unsent

AuctionTickActs(t) ==
  \/ processAuctionTick(t) \/ ReadsBidCache(t) \/ ReadsEndingSoonCache(t)
  \/ QueriesSubgraph(t) \/ DiscoversAuction(t) \/ handleNewAuction(t)
  \/ DiscoversBid(t) \/ handleNewBid(t) \/ DiscoversEnd(t)
  \/ handleAuctionEndingSoon(t) \/ AuctionTickFails(t)

\* A tick's step keeps the invariant of the bot.
LEMMA TickKeepsBot ==
  ASSUME SubgraphInv, AuctionBotInv, NEW t \in AuctionTicks, AuctionTickActs(t)
  PROVE  AuctionBotInv'
<1> SUFFICES ASSUME ~overlapped'
             PROVE  TicksOK' /\ SetupOK' /\ SentOK' /\ CachesOK'
  BY DEF AuctionBotInv
<1>1. ~overlapped /\ UNCHANGED <<auctionSetup, auctionEntity, bidEntity>>
  <2>1. CASE processAuctionTick(t)
    BY <2>1 DEF processAuctionTick, subgraphAuctionVars, indexVars
  <2>2. CASE UNCHANGED auctionTickElse
    BY <2>2 DEF auctionTickElse, subgraphAuctionVars, indexVars
  <2>3. processAuctionTick(t) \/ UNCHANGED auctionTickElse
    BY DEF AuctionTickActs, ReadsBidCache, ReadsEndingSoonCache, QueriesSubgraph,
           DiscoversAuction, handleNewAuction, DiscoversBid, handleNewBid,
           DiscoversEnd, handleAuctionEndingSoon, AuctionTickFails, auctionTickElse
  <2> QED  BY <2>1, <2>2, <2>3
<1>2. TicksOK /\ SetupOK /\ SentOK /\ CachesOK
  BY <1>1 DEF AuctionBotInv
<1>3. /\ auctionCache \in Nat /\ bidCache \in Nat /\ endingSoonCache \in Nat
      /\ \A b \in DOMAIN bidEntity : b \in Nat /\ bidEntity[b].blockNumber \in Nat
      /\ \A a \in DOMAIN auctionEntity : a \in Nat
  <2>1. /\ \A b \in DOMAIN bidEntity : b \in Nat /\ bidEntity[b].blockNumber \in Nat
        /\ \A a \in DOMAIN auctionEntity : a \in Nat
    BY IndexIsOrdered, SubgraphAuctionAssumption
  <2> QED  BY <1>2, <2>1 DEF CachesOK, NoBid
<1>0. PICK tick : tick = auctionTick[t]
  OBVIOUS
<1> DEFINE last == tick.last
\* By the time it announces, a tick is past its query.
<1>4. ASSUME tick.at \in AfterQuery
      PROVE  /\ tick # Idle /\ AfterQueryOK(tick) /\ last = LastOf(t)
             /\ last.id \in Nat /\ last.bid \in Nat /\ LastOK(last)
             /\ tick \in [at : AfterQuery, auction : Nat, bid : Nat, ending : Nat,
                          last : LastAuctions]
  <2>1. tick # Idle
    BY <1>4 DEF AfterQuery, Idle
  <2>2. TickOK(tick)
    BY <1>0, <1>2, <2>1 DEF TicksOK
  <2>3. AfterQueryOK(tick)
    BY <1>4, <2>2 DEF TickOK, AfterQuery
  <2> QED  BY <1>0, <2>1, <2>3 DEF AfterQueryOK, LastAuctions, LastOf
<1>5. ASSUME NEW at \in AfterQuery, tick.at \in AfterQuery
      PROVE  /\ [tick EXCEPT !.at = at] \in
                  [at : AfterQuery, auction : Nat, bid : Nat, ending : Nat, last : LastAuctions]
             /\ [tick EXCEPT !.at = at].at = at
             /\ [tick EXCEPT !.at = at].auction = tick.auction
             /\ [tick EXCEPT !.at = at].bid = tick.bid
             /\ [tick EXCEPT !.at = at].ending = tick.ending
             /\ [tick EXCEPT !.at = at].last = tick.last
  BY <1>4, <1>5
<1>6. ASSUME UNCHANGED <<auctionCache, bidCache, endingSoonCache, sent>>
      PROVE  SentOK' /\ CachesOK'
  BY <1>1, <1>2, <1>6 DEF SentOK, CachesOK, Unsent, UpTo
<1>7. CASE processAuctionTick(t)
  <2>1. PICK to : to = [at |-> "getBidCache", auction |-> auctionCache]
    OBVIOUS
  <2>2. /\ tick.at = "idle" /\ auctionSetup = Idle
        /\ \A u \in AuctionTicks : auctionTick[u].at = "idle"
        /\ TickGoes(t, to)
        /\ UNCHANGED <<auctionCache, bidCache, endingSoonCache, sent>>
    BY <1>0, <1>7, <2>1 DEF processAuctionTick, TickIs, auctionRedis
  <2>3. \A u \in AuctionTicks : auctionTick[u] = Idle
    <3> SUFFICES ASSUME NEW u \in AuctionTicks, auctionTick[u] # Idle
                 PROVE  FALSE
      OBVIOUS
    <3>1. TickOK(auctionTick[u])
      BY <1>2 DEF TicksOK
    <3> QED  BY <2>2, <3>1 DEF TickOK, AfterQueryOK, AfterQuery
  <2>4. TickOK(to)'
    BY <2>1, <2>2 DEF TickOK
  <2>5. auctionTick' = [auctionTick EXCEPT ![t] = to] /\ DOMAIN auctionTick = AuctionTicks
    BY <1>2, <2>2 DEF TickGoes, TicksOK
  <2> HIDE DEF Idle
  <2>6. /\ auctionTick'[t] = to /\ \A u \in AuctionTicks : u # t => auctionTick'[u] = Idle
        /\ auctionTick' \in [AuctionTicks -> {auctionTick'[u] : u \in AuctionTicks}]
    BY <2>3, <2>5
  <2>7. TicksOK'
    BY <1>1, <2>2, <2>4, <2>6 DEF TicksOK
  <2>8. SetupOK'
    BY <1>1, <2>2 DEF SetupOK
  <2> QED  BY <1>6, <2>2, <2>7, <2>8
<1>8. CASE ReadsBidCache(t)
  <2>1. PICK to : to = [at |-> "getAuctionEndingSoonCache", auction |-> tick.auction,
                        bid |-> bidCache]
    OBVIOUS
  <2>2. /\ tick.at = "getBidCache" /\ TickGoes(t, to)
        /\ UNCHANGED <<auctionCache, bidCache, endingSoonCache, sent>>
    BY <1>0, <1>8, <2>1 DEF ReadsBidCache, TickIs, auctionRedis
  <2>3. tick # Idle
    BY <2>2 DEF Idle
  <2>4. tick.auction = auctionCache
    BY <1>0, <1>2, <2>2, <2>3 DEF TicksOK, TickOK, AfterQueryOK, AfterQuery
  <2>5. TickOK(to)'
    BY <2>1, <2>2, <2>4 DEF TickOK
  <2> QED  BY <1>0, <1>1, <1>2, <1>6, <2>2, <2>3, <2>5, TickMoves
<1>9. CASE ReadsEndingSoonCache(t)
  <2>1. PICK to : to = [at |-> "getLastAuctionBids", auction |-> tick.auction,
                        bid |-> tick.bid, ending |-> endingSoonCache]
    OBVIOUS
  <2>2. /\ tick.at = "getAuctionEndingSoonCache" /\ TickGoes(t, to)
        /\ UNCHANGED <<auctionCache, bidCache, endingSoonCache, sent>>
    BY <1>0, <1>9, <2>1 DEF ReadsEndingSoonCache, TickIs, auctionRedis
  <2>3. tick # Idle
    BY <2>2 DEF Idle
  <2>4. tick.auction = auctionCache /\ tick.bid = bidCache
    BY <1>0, <1>2, <2>2, <2>3 DEF TicksOK, TickOK, AfterQueryOK, AfterQuery
  <2>5. TickOK(to)'
    BY <2>1, <2>2, <2>4 DEF TickOK
  <2> QED  BY <1>0, <1>1, <1>2, <1>6, <2>2, <2>3, <2>5, TickMoves
<1>10. CASE QueriesSubgraph(t)
  <2>0. PICK answer : answer = getLastAuctionBids
    OBVIOUS
  <2>1. PICK to : to = [at |-> "auction", auction |-> tick.auction, bid |-> tick.bid,
                        ending |-> tick.ending, last |-> answer]
    OBVIOUS
  <2>2. /\ tick.at = "getLastAuctionBids" /\ auctionEntity # <<>> /\ TickGoes(t, to)
        /\ UNCHANGED <<auctionCache, bidCache, endingSoonCache, sent>>
    BY <1>0, <1>10, <2>0, <2>1 DEF QueriesSubgraph, TickIs, auctionRedis
  <2>3. tick # Idle
    BY <2>2 DEF Idle
  <2>4. /\ tick.auction = auctionCache /\ tick.bid = bidCache
        /\ tick.ending = endingSoonCache
    BY <1>0, <1>2, <2>2, <2>3 DEF TicksOK, TickOK, AfterQueryOK, AfterQuery
  <2>5. /\ answer \in LastAuctions /\ answer.id \in DOMAIN auctionEntity
        /\ answer.bid # NoBid => /\ answer.bid \in DOMAIN bidEntity
                                 /\ \A c \in DOMAIN bidEntity : UpTo(c, answer.bid)
    BY <1>3, <2>0, <2>2, LastIsLast DEF LastAuctions
  <2>6. LastOK(answer)
    BY <1>2, <2>5 DEF LastOK, CachesOK
  <2>7. AfterQueryOK(to)
    BY <1>3, <2>1, <2>4, <2>5, <2>6
       DEF AfterQueryOK, AfterQuery, BidCacheRead, EndingCacheRead, CachesRead
  <2>8. AfterQueryOK(to)'
    BY <1>1, <2>2, <2>7 DEF AfterQueryOK, LastOK, UpTo, Unsent
  <2> QED  BY <1>0, <1>1, <1>2, <1>6, <2>2, <2>3, <2>8, TickMoves DEF TickOK
\* A tick that goes on goes on from where it was.
<1>11. ASSUME NEW at \in AfterQuery, tick.at \in AfterQuery, TickGoesTo(t, at),
              LastOK(last)',
              at = "auction" => tick.auction = auctionCache',
              at \in BidCacheRead => tick.bid = bidCache',
              at \in EndingCacheRead => tick.ending = endingSoonCache',
              at = "handleNewAuction" =>
                auctionCache' = last.id /\ Unsent(<<"auction", last.id>>)',
              at = "handleNewBid" =>
                bidCache' = last.bid /\ bidCache' # NoBid /\ Unsent(<<"bid", last.bid>>)',
              at = "handleAuctionEndingSoon" =>
                endingSoonCache' = last.id /\ Unsent(<<"ending", last.id>>)'
       PROVE  TicksOK' /\ SetupOK'
  <2>1. PICK to : to = [tick EXCEPT !.at = at]
    OBVIOUS
  <2>2. TickGoes(t, to)
    BY <1>0, <1>11, <2>1 DEF TickGoesTo
  <2>3. /\ to \in [at : AfterQuery, auction : Nat, bid : Nat, ending : Nat, last : LastAuctions]
        /\ to.at = at /\ to.auction = tick.auction /\ to.bid = tick.bid
        /\ to.ending = tick.ending /\ to.last = tick.last
    BY <1>5, <1>11, <2>1
  <2>4. AfterQueryOK(to)'
    BY <1>11, <2>3 DEF AfterQueryOK
  <2>5. tick # Idle
    BY <1>4, <1>11
  <2> QED  BY <1>0, <1>1, <1>2, <2>2, <2>4, <2>5, TickMoves DEF TickOK
\* Or it ends.
<1>12. ASSUME tick # Idle, TickGoes(t, Idle)
       PROVE  TicksOK' /\ SetupOK'
  BY <1>0, <1>1, <1>2, <1>12, TickMoves
<1>13. CASE DiscoversAuction(t)
  <2>1. /\ tick.at = "auction" /\ tick.at \in AfterQuery
        /\ UNCHANGED <<bidCache, endingSoonCache, sent>>
    BY <1>0, <1>13 DEF DiscoversAuction, TickIs, AfterQuery
  <2>2. /\ tick # Idle /\ AfterQueryOK(tick) /\ last = LastOf(t) /\ last.id \in Nat
        /\ LastOK(last)
    BY <1>4, <2>1
  <2>3. /\ tick.auction = auctionCache /\ tick.bid = bidCache
        /\ tick.ending = endingSoonCache
    BY <2>1, <2>2 DEF AfterQueryOK, BidCacheRead, EndingCacheRead, CachesRead
  <2>4. LastOK(last)'
    BY <1>1, <2>1, <2>2 DEF LastOK, UpTo
  <2>5. \A s : Unsent(s)' <=> Unsent(s)
    BY <2>1 DEF Unsent
  <2>6. CASE IsNewAuction(t)
    <3>1. auctionCache' = last.id /\ TickGoesTo(t, "handleNewAuction")
      BY <1>13, <2>2, <2>6 DEF DiscoversAuction
    <3>2. auctionCache < last.id
      BY <1>0, <2>2, <2>3, <2>6 DEF IsNewAuction
    <3>3. Unsent(<<"auction", last.id>>)
      BY <1>2, <2>2, <3>2, <1>3 DEF SentOK
    <3>4. CachesOK'
      BY <1>1, <1>2, <2>1, <2>2, <3>1 DEF CachesOK, LastOK
    <3>5. SentOK'
      <4>1. \A id \in Nat : id > auctionCache' => id > auctionCache
        BY <1>3, <2>2, <3>1, <3>2
      <4> QED  BY <1>1, <1>2, <2>1, <2>5, <4>1 DEF SentOK, UpTo
    <3>6. TicksOK' /\ SetupOK'
      BY <1>11, <2>1, <2>3, <2>4, <2>5, <3>1, <3>3
         DEF AfterQuery, BidCacheRead, EndingCacheRead, CachesRead
    <3> QED  BY <3>4, <3>5, <3>6
  <2>7. CASE ~IsNewAuction(t)
    <3>1. auctionCache' = auctionCache /\ TickGoesTo(t, "bid")
      BY <1>13, <2>7 DEF DiscoversAuction
    <3>2. TicksOK' /\ SetupOK'
      BY <1>11, <2>1, <2>3, <2>4, <3>1
         DEF AfterQuery, BidCacheRead, EndingCacheRead, CachesRead
    <3> QED  BY <1>6, <2>1, <3>1, <3>2
  <2> QED  BY <2>6, <2>7
<1>14. CASE handleNewAuction(t)
  <2>1. /\ tick.at = "handleNewAuction" /\ tick.at \in AfterQuery
        /\ UNCHANGED <<auctionCache, bidCache, endingSoonCache>>
    BY <1>0, <1>14 DEF handleNewAuction, TickIs, AfterQuery
  <2>2. /\ tick # Idle /\ AfterQueryOK(tick) /\ last = LastOf(t) /\ last.id \in Nat
        /\ LastOK(last)
    BY <1>4, <2>1
  <2>3. /\ auctionCache = last.id /\ Unsent(<<"auction", last.id>>)
        /\ tick.bid = bidCache /\ tick.ending = endingSoonCache
    BY <2>1, <2>2 DEF AfterQueryOK, BidCacheRead, EndingCacheRead, CachesRead
  <2>4. LastOK(last)'
    BY <1>1, <2>1, <2>2 DEF LastOK, UpTo
  <2>5. PICK o \in Outcomes(Handlers) :
          Delivers(o[1], <<"auction", last.id>>) /\ GoesOn(t, o[2], "bid")
    BY <1>14, <2>2 DEF handleNewAuction
  <2>6. /\ \A x \in DOMAIN sent' : sent'[x] \in {0, 1}
        /\ \A s : s # <<"auction", last.id>> /\ Unsent(s) => Unsent(s)'
    BY <1>1, <1>2, <2>3, <2>5, DeliversOnce
  <2>7. SentOK'
    <3>1. \A id \in Nat : id > auctionCache' =>
            <<"auction", id>> # <<"auction", last.id>>
      BY <1>3, <2>1, <2>2, <2>3
    <3>2. \A id \in Nat : /\ <<"ending", id>> # <<"auction", last.id>>
                          /\ <<"bid", id>> # <<"auction", last.id>>
      OBVIOUS
    <3> QED  BY <1>1, <1>2, <2>1, <2>6, <3>1, <3>2 DEF SentOK, UpTo
  <2>8. CachesOK'
    BY <1>1, <1>2, <2>1 DEF CachesOK
  <2>9. CASE TickGoesTo(t, "bid")
    BY <1>11, <2>1, <2>3, <2>4, <2>7, <2>8, <2>9
       DEF AfterQuery, BidCacheRead, EndingCacheRead, CachesRead
  <2>10. CASE TickGoes(t, Idle)
    BY <1>12, <2>2, <2>7, <2>8, <2>10
  <2> QED  BY <2>5, <2>9, <2>10 DEF GoesOn
<1>15. CASE DiscoversBid(t)
  <2>1. /\ tick.at = "bid" /\ tick.at \in AfterQuery
        /\ UNCHANGED <<auctionCache, endingSoonCache, sent>>
    BY <1>0, <1>15 DEF DiscoversBid, TickIs, AfterQuery
  <2>2. /\ tick # Idle /\ AfterQueryOK(tick) /\ last = LastOf(t) /\ last.bid \in Nat
        /\ LastOK(last)
    BY <1>4, <2>1
  <2>3. tick.bid = bidCache /\ tick.ending = endingSoonCache
    BY <2>1, <2>2 DEF AfterQueryOK, BidCacheRead, EndingCacheRead
  <2>4. \A s : Unsent(s)' <=> Unsent(s)
    BY <2>1 DEF Unsent
  <2>5. CASE IsNewBid(t)
    <3>1. bidCache' = last.bid /\ TickGoesTo(t, "handleNewBid")
      BY <1>15, <2>2, <2>5 DEF DiscoversBid
    <3>2. /\ last.bid # NoBid /\ bidCache # last.bid /\ last.bid \in DOMAIN bidEntity
          /\ bidCache # NoBid => UpTo(bidCache, last.bid)
      BY <1>0, <2>2, <2>3, <2>5 DEF IsNewBid, LastOK
    <3>3. bidCache # NoBid => bidCache \in DOMAIN bidEntity
      BY <1>2 DEF CachesOK
    <3>4. Unsent(<<"bid", last.bid>>)
      <4>1. \/ Unsent(<<"bid", last.bid>>)
            \/ bidCache # NoBid /\ UpTo(last.bid, bidCache)
        BY <1>2, <2>2 DEF SentOK
      <4>2. ~ (bidCache # NoBid /\ UpTo(last.bid, bidCache))
        BY <1>3, <3>2, <3>3 DEF UpTo
      <4> QED  BY <4>1, <4>2
    <3>5. ASSUME NEW b \in DOMAIN bidEntity, bidCache # NoBid, UpTo(b, bidCache)
          PROVE  UpTo(b, last.bid)
      BY <1>3, <3>2, <3>3, <3>5 DEF UpTo
    <3>6. SentOK'
      <4>1. \A b \in DOMAIN bidEntity : UpTo(b, last.bid) => UpTo(b, bidCache)'
        BY <1>1, <3>1 DEF UpTo
      <4> QED  BY <1>1, <1>2, <2>1, <2>4, <3>1, <3>2, <3>5, <4>1 DEF SentOK
    <3>7. CachesOK'
      BY <1>1, <1>2, <2>1, <3>1, <3>2 DEF CachesOK
    <3>8. LastOK(last)'
      BY <1>1, <1>3, <2>2, <3>1, <3>2 DEF LastOK, UpTo
    <3>9. TicksOK' /\ SetupOK'
      BY <1>11, <2>1, <2>3, <2>4, <3>1, <3>2, <3>4, <3>8
         DEF AfterQuery, BidCacheRead, EndingCacheRead, CachesRead
    <3> QED  BY <3>6, <3>7, <3>9
  <2>6. CASE ~IsNewBid(t)
    <3>1. bidCache' = bidCache /\ TickGoesTo(t, "ending")
      BY <1>15, <2>6 DEF DiscoversBid
    <3>2. LastOK(last)'
      BY <1>1, <2>2, <3>1 DEF LastOK, UpTo
    <3>3. TicksOK' /\ SetupOK'
      BY <1>11, <2>1, <2>3, <3>1, <3>2
         DEF AfterQuery, BidCacheRead, EndingCacheRead, CachesRead
    <3> QED  BY <1>6, <2>1, <3>1, <3>3
  <2> QED  BY <2>5, <2>6
<1>16. CASE handleNewBid(t)
  <2>1. /\ tick.at = "handleNewBid" /\ tick.at \in AfterQuery
        /\ UNCHANGED <<auctionCache, bidCache, endingSoonCache>>
    BY <1>0, <1>16 DEF handleNewBid, TickIs, AfterQuery, auctionRedis
  <2>2. /\ tick # Idle /\ AfterQueryOK(tick) /\ last = LastOf(t) /\ last.bid \in Nat
        /\ LastOK(last)
    BY <1>4, <2>1
  <2>3. /\ bidCache = last.bid /\ bidCache # NoBid /\ Unsent(<<"bid", last.bid>>)
        /\ tick.ending = endingSoonCache
    BY <2>1, <2>2 DEF AfterQueryOK, EndingCacheRead
  <2>4. LastOK(last)'
    BY <1>1, <2>1, <2>2 DEF LastOK, UpTo
  <2>5. PICK failed \in SUBSET Repliers(Handlers) :
          /\ Delivers(Repliers(Handlers) \ failed, <<"bid", last.bid>>)
          /\ GoesOn(t, failed, "ending")
    BY <1>16, <2>2 DEF handleNewBid
  <2>6. /\ \A x \in DOMAIN sent' : sent'[x] \in {0, 1}
        /\ \A s : s # <<"bid", last.bid>> /\ Unsent(s) => Unsent(s)'
    BY <1>1, <1>2, <2>3, <2>5, DeliversOnce
  <2>7. SentOK'
    <3>1. last.bid \in DOMAIN bidEntity /\ UpTo(last.bid, last.bid)
      BY <1>3, <2>2, <2>3 DEF LastOK, UpTo
    <3>2. \A b \in Nat : b = last.bid \/ <<"bid", b>> # <<"bid", last.bid>>
      OBVIOUS
    <3>3. \A id \in Nat : /\ <<"ending", id>> # <<"bid", last.bid>>
                          /\ <<"auction", id>> # <<"bid", last.bid>>
      OBVIOUS
    <3>4. \A b : UpTo(b, bidCache)' <=> UpTo(b, bidCache)
      BY <1>1, <2>1 DEF UpTo
    <3> QED  BY <1>1, <1>2, <2>1, <2>3, <2>6, <3>1, <3>2, <3>3, <3>4 DEF SentOK
  <2>8. CachesOK'
    BY <1>1, <1>2, <2>1 DEF CachesOK
  <2>9. CASE TickGoesTo(t, "ending")
    BY <1>11, <2>1, <2>3, <2>4, <2>7, <2>8, <2>9
       DEF AfterQuery, BidCacheRead, EndingCacheRead, CachesRead
  <2>10. CASE TickGoes(t, Idle)
    BY <1>12, <2>2, <2>7, <2>8, <2>10
  <2> QED  BY <2>5, <2>9, <2>10 DEF GoesOn
<1>17. CASE DiscoversEnd(t)
  <2>1. /\ tick.at = "ending" /\ tick.at \in AfterQuery
        /\ UNCHANGED <<auctionCache, bidCache, sent>>
    BY <1>0, <1>17 DEF DiscoversEnd, TickIs, AfterQuery
  <2>2. /\ tick # Idle /\ AfterQueryOK(tick) /\ last = LastOf(t) /\ last.id \in Nat
        /\ LastOK(last)
    BY <1>4, <2>1
  <2>3. tick.ending = endingSoonCache
    BY <2>1, <2>2 DEF AfterQueryOK, EndingCacheRead
  <2>4. LastOK(last)'
    BY <1>1, <2>1, <2>2 DEF LastOK, UpTo
  <2>5. \A s : Unsent(s)' <=> Unsent(s)
    BY <2>1 DEF Unsent
  <2>6. CASE IsEndingSoon(t)
    <3>1. endingSoonCache' = last.id /\ TickGoesTo(t, "handleAuctionEndingSoon")
      BY <1>17, <2>2, <2>6 DEF DiscoversEnd
    <3>2. endingSoonCache < last.id
      BY <1>0, <2>2, <2>3, <2>6 DEF IsEndingSoon
    <3>3. Unsent(<<"ending", last.id>>)
      BY <1>2, <1>3, <2>2, <3>2 DEF SentOK
    <3>4. CachesOK'
      BY <1>1, <1>2, <2>1, <2>2, <3>1 DEF CachesOK
    <3>5. SentOK'
      <4>1. \A id \in Nat : id > endingSoonCache' => id > endingSoonCache
        BY <1>3, <2>2, <3>1, <3>2
      <4> QED  BY <1>1, <1>2, <2>1, <2>5, <4>1 DEF SentOK, UpTo
    <3>6. TicksOK' /\ SetupOK'
      BY <1>11, <2>1, <2>4, <2>5, <3>1, <3>3
         DEF AfterQuery, BidCacheRead, EndingCacheRead, CachesRead
    <3> QED  BY <3>4, <3>5, <3>6
  <2>7. CASE ~IsEndingSoon(t)
    <3>1. endingSoonCache' = endingSoonCache /\ TickGoes(t, Idle)
      BY <1>17, <2>7 DEF DiscoversEnd
    <3> QED  BY <1>6, <1>12, <2>1, <2>2, <3>1
  <2> QED  BY <2>6, <2>7
<1>18. CASE handleAuctionEndingSoon(t)
  <2>1. /\ tick.at = "handleAuctionEndingSoon" /\ tick.at \in AfterQuery
        /\ TickGoes(t, Idle) /\ UNCHANGED <<auctionCache, bidCache, endingSoonCache>>
    BY <1>0, <1>18 DEF handleAuctionEndingSoon, TickIs, AfterQuery, auctionRedis
  <2>2. /\ tick # Idle /\ AfterQueryOK(tick) /\ last = LastOf(t) /\ last.id \in Nat
    BY <1>4, <2>1
  <2>3. endingSoonCache = last.id /\ Unsent(<<"ending", last.id>>)
    BY <2>1, <2>2 DEF AfterQueryOK
  <2>4. PICK failed \in SUBSET Repliers({"twitter"}) :
          Delivers(Repliers({"twitter"}) \ failed, <<"ending", last.id>>)
    BY <1>18, <2>2 DEF handleAuctionEndingSoon
  <2>5. /\ \A x \in DOMAIN sent' : sent'[x] \in {0, 1}
        /\ \A s : s # <<"ending", last.id>> /\ Unsent(s) => Unsent(s)'
    BY <1>1, <1>2, <2>3, <2>4, DeliversOnce
  <2>6. SentOK'
    <3>1. \A id \in Nat : id > endingSoonCache' =>
            <<"ending", id>> # <<"ending", last.id>>
      BY <1>3, <2>1, <2>2, <2>3
    <3>2. \A id \in Nat : /\ <<"auction", id>> # <<"ending", last.id>>
                          /\ <<"bid", id>> # <<"ending", last.id>>
      OBVIOUS
    <3> QED  BY <1>1, <1>2, <2>1, <2>5, <3>1, <3>2 DEF SentOK, UpTo
  <2>7. CachesOK'
    BY <1>1, <1>2, <2>1 DEF CachesOK
  <2> QED  BY <1>12, <2>1, <2>2, <2>6, <2>7
<1>19. CASE AuctionTickFails(t)
  <2>1. /\ tick.at # "idle" /\ TickGoes(t, Idle)
        /\ UNCHANGED <<auctionCache, bidCache, endingSoonCache, sent>>
    BY <1>0, <1>19 DEF AuctionTickFails, TickIs, auctionRedis
  <2>2. tick # Idle
    BY <2>1 DEF Idle
  <2> QED  BY <1>6, <1>12, <2>1, <2>2
<1> QED  BY <1>7, <1>8, <1>9, <1>10, <1>13, <1>14, <1>15, <1>16, <1>17, <1>18, <1>19
         DEF AuctionTickActs

\* So does the set-up,
LEMMA SetupKeepsBot ==
  ASSUME SubgraphInv, AuctionBotInv, setupAuction
  PROVE  AuctionBotInv'
<1> SUFFICES ASSUME ~overlapped'
             PROVE  TicksOK' /\ SetupOK' /\ SentOK' /\ CachesOK'
  BY DEF AuctionBotInv
<1>1. /\ ~overlapped
      /\ UNCHANGED <<auctionEntity, bidEntity, bidCache, endingSoonCache, auctionTick, sent>>
  BY DEF setupAuction, subgraphAuctionVars, indexVars
<1>2. TicksOK /\ SetupOK /\ SentOK /\ CachesOK
  BY <1>1 DEF AuctionBotInv
<1>3. auctionSetup # Idle
  BY DEF setupAuction, Idle
<1>4. \A t \in AuctionTicks : auctionTick[t] = Idle
  BY <1>2, <1>3 DEF TicksOK
<1>5. TicksOK'
  BY <1>1, <1>2, <1>4 DEF TicksOK
<1>6. auctionCache \in Nat /\ \A a \in DOMAIN auctionEntity : a \in Nat
  BY <1>2, IndexIsOrdered DEF CachesOK
<1>7. CASE auctionSetup.at = "query"
  <2>1. PICK answer : answer = getLastAuctionBids
    OBVIOUS
  <2>2. /\ auctionEntity # <<>> /\ auctionSetup' = [at |-> "update", id |-> answer.id]
        /\ auctionCache' = auctionCache
    BY <1>7, <2>1 DEF setupAuction
  <2>3. /\ answer.id \in DOMAIN auctionEntity
        /\ \A a \in DOMAIN auctionEntity : a <= answer.id
    BY <2>1, <2>2, LastIsLast
  <2>4. answer.id >= auctionCache
    BY <1>2, <1>6, <2>3 DEF CachesOK
  <2>5. SetupOK'
    BY <1>1, <2>2, <2>3, <2>4 DEF SetupOK
  <2>6. SentOK' /\ CachesOK'
    BY <1>1, <1>2, <2>2 DEF SentOK, CachesOK, Unsent, UpTo
  <2> QED  BY <1>5, <2>5, <2>6
<1>8. CASE auctionSetup.at = "update"
  <2>1. auctionSetup' = Idle /\ auctionCache' = auctionSetup.id
    BY <1>8 DEF setupAuction
  <2>2. auctionSetup.id \in DOMAIN auctionEntity /\ auctionSetup.id >= auctionCache
    BY <1>2, <1>3, <1>8 DEF SetupOK
  <2>3. SetupOK'
    BY <2>1 DEF SetupOK
  <2>4. CachesOK'
    BY <1>1, <1>2, <2>1, <2>2 DEF CachesOK
  <2>5. \A id \in Nat : id > auctionCache' => id > auctionCache
    BY <1>6, <2>1, <2>2
  <2>6. SentOK'
    BY <1>1, <1>2, <2>5 DEF SentOK, Unsent, UpTo
  <2> QED  BY <1>5, <2>3, <2>4, <2>6
<1> QED  BY <1>7, <1>8 DEF setupAuction

\* and a restart.
LEMMA RestartKeepsBot ==
  ASSUME AuctionBotInv, Restart
  PROVE  AuctionBotInv'
<1> SUFFICES ASSUME ~overlapped'
             PROVE  TicksOK' /\ SetupOK' /\ SentOK' /\ CachesOK'
  BY DEF AuctionBotInv
<1>1. /\ ~overlapped
      /\ UNCHANGED <<auctionEntity, bidEntity, auctionCache, bidCache, endingSoonCache, sent>>
      /\ auctionTick' = [t \in AuctionTicks |-> Idle] /\ auctionSetup' = [at |-> "query"]
  BY DEF Restart, subgraphAuctionVars, indexVars, auctionRedis
<1>2. SentOK /\ CachesOK
  BY <1>1 DEF AuctionBotInv
<1>3. TicksOK' /\ SetupOK'
  BY <1>1 DEF TicksOK, SetupOK
<1> QED  BY <1>1, <1>2, <1>3 DEF SentOK, CachesOK, Unsent, UpTo

\* A step of the subgraph or of the bot of the auctions, or of neither.
LEMMA BotSteps ==
  ASSUME [AuctionBotNext \/ GovernanceBotNext]_botVars
  PROVE  \/ SubgraphAuctionNext /\ UNCHANGED auctionBotVars
         \/ /\ UNCHANGED subgraphAuctionVars
            /\ \/ UNCHANGED auctionBotVars \/ setupAuction \/ Restart
               \/ \E t \in AuctionTicks : AuctionTickActs(t)
<1>1. CASE UNCHANGED botVars
  BY <1>1 DEF botVars
<1>2. CASE setupAuction \/ Restart
  BY <1>2 DEF setupAuction, Restart
<1>3. CASE SubgraphAuctionNext /\ UNCHANGED auctionBotVars
  BY <1>3
<1>4. ASSUME NEW t \in AuctionTicks, AuctionTickActs(t)
      PROVE  UNCHANGED subgraphAuctionVars
  <2>1. UNCHANGED auctionTickElse => UNCHANGED subgraphAuctionVars
    BY DEF auctionTickElse
  <2> QED
    BY <1>4, <2>1
       DEF AuctionTickActs, processAuctionTick, ReadsBidCache, ReadsEndingSoonCache,
           QueriesSubgraph, DiscoversAuction, handleNewAuction, DiscoversBid,
           handleNewBid, DiscoversEnd, handleAuctionEndingSoon, AuctionTickFails
<1>5. CASE GovernanceBotNext
  <2>1. UNCHANGED proposalTickElse => UNCHANGED <<subgraphAuctionVars, auctionBotVars>>
    BY DEF proposalTickElse
  <2>2. ASSUME NEW x \in DOMAIN proposalTick,
               \/ ReadsProposalCache(x) \/ handleNewProposal(x) \/ handleUpdatedProposalStatus(x)
               \/ hasWarnedOfExpiry(x) \/ handleProposalAtRiskOfExpiry(x)
               \/ setProposalExpiryWarningSent(x) \/ updateProposalCache(x) \/ ReviewFails(x)
        PROVE  UNCHANGED <<subgraphAuctionVars, auctionBotVars>>
    BY <2>1, <2>2
       DEF ReadsProposalCache, handleNewProposal, handleUpdatedProposalStatus,
           hasWarnedOfExpiry, handleProposalAtRiskOfExpiry, setProposalExpiryWarningSent,
           updateProposalCache, ReviewFails
  <2>3. ASSUME NEW id \in BotProposals, IndexProposal(id)
        PROVE  UNCHANGED <<subgraphAuctionVars, auctionBotVars>>
    BY <2>3 DEF IndexProposal
  <2>4. ASSUME NEW t \in GovernanceTicks, processGovernanceTick(t)
        PROVE  UNCHANGED <<subgraphAuctionVars, auctionBotVars>>
    BY <2>1, <2>4 DEF processGovernanceTick
  <2>5. CASE setupGovernance
    BY <2>5 DEF setupGovernance
  <2>6. CASE HouseBlock /\ UNCHANGED <<auctionBotVars, governanceBotVars>>
    BY <2>6 DEF SubgraphAuctionNext, HouseActs
  <2> QED  BY <1>2, <1>5, <2>2, <2>3, <2>4, <2>5, <2>6 DEF GovernanceBotNext
<1>6. CASE AuctionBotNext
  BY <1>2, <1>3, <1>4, <1>6 DEF AuctionBotNext, AuctionTickActs
<1> QED  BY <1>1, <1>5, <1>6

\* NoDoubleAnnouncement (index.ts, processAuctionTick): while the ticks keep out of each
\* other's way and of the setup's, no handler announces an auction, a bid or an ending
\* twice, whatever the house does, whatever fails and however often the bot is started.
THEOREM NothingIsAnnouncedTwice == BotsSpec => []NoDoubleAnnouncement
<1>1. SubgraphAuctionInit /\ BotsInit => SubgraphInv /\ AuctionBotInv
  <2> SUFFICES ASSUME SubgraphAuctionInit, BotsInit
               PROVE  SubgraphInv /\ AuctionBotInv
    OBVIOUS
  <2>1. HouseInv
    <3>1. /\ feed = <<>> /\ clock = 1 /\ houseAuction = NoAuction
          /\ feed \in Seq(HouseEvents) /\ DOMAIN feed = {}
      BY DEF SubgraphAuctionInit
    <3>2. NoAuction \in HouseAuctions /\ NoAuction.endTime = 0 /\ NoAuction.startTime = 0
      BY DEF NoAuction, HouseAuctions
    <3>3. CreatedIn(feed) = {} /\ BidsIn(feed) = {}
      BY <3>1 DEF CreatedIn, BidsIn
    <3> QED  BY <3>1, <3>2, <3>3 DEF HouseInv, HouseTypeOK, EventsOrdered, EventsUpTo
  <2>2. IndexInv
    <3>1. /\ handled = 0 /\ Len(feed) = 0 /\ DOMAIN feed = {}
          /\ auctionEntity = <<>> /\ bidEntity = <<>>
          /\ DOMAIN auctionEntity = {} /\ DOMAIN bidEntity = {}
      BY DEF SubgraphAuctionInit
    <3>2. <<>> \in [{} -> AuctionEntities] /\ <<>> \in [{} -> BidEntities]
      OBVIOUS
    <3>3. CreatedIn(feed) = {}
      BY <3>1 DEF CreatedIn
    <3> QED  BY <3>1, <3>2, <3>3, FS_EmptySet DEF IndexInv, IndexTypeOK, IndexFollows
  <2>3. SentOK
    BY DEF BotsInit, SentOK, Unsent
  <2>4. TicksOK /\ SetupOK /\ CachesOK
    BY DEF BotsInit, TicksOK, SetupOK, CachesOK
  <2> QED  BY <2>1, <2>2, <2>3, <2>4 DEF SubgraphInv, AuctionBotInv
<1>2. SubgraphInv /\ AuctionBotInv /\ [AuctionBotNext \/ GovernanceBotNext]_botVars
        => (SubgraphInv /\ AuctionBotInv)'
  <2> SUFFICES ASSUME SubgraphInv, AuctionBotInv, [AuctionBotNext \/ GovernanceBotNext]_botVars
               PROVE  SubgraphInv' /\ AuctionBotInv'
    OBVIOUS
  <2>1. CASE /\ UNCHANGED subgraphAuctionVars
             /\ \/ UNCHANGED auctionBotVars \/ setupAuction \/ Restart
                \/ \E t \in AuctionTicks : AuctionTickActs(t)
    <3>1. SubgraphInv'
      BY <2>1 DEF subgraphAuctionVars, houseVars, indexVars, SubgraphInv, HouseInv,
                  HouseTypeOK, IndexInv, IndexTypeOK, IndexFollows
    <3>2. IndexGrows
      BY <2>1 DEF subgraphAuctionVars, indexVars, IndexGrows
    <3>3. CASE UNCHANGED auctionBotVars
      BY <3>1, <3>2, <3>3, GrowthKeepsBot
    <3>4. CASE setupAuction
      BY <3>1, <3>4, SetupKeepsBot
    <3>5. CASE Restart
      BY <3>1, <3>5, RestartKeepsBot
    <3>6. CASE \E t \in AuctionTicks : AuctionTickActs(t)
      BY <3>1, <3>6, TickKeepsBot
    <3> QED  BY <2>1, <3>3, <3>4, <3>5, <3>6
  <2>2. CASE SubgraphAuctionNext /\ UNCHANGED auctionBotVars
    BY <2>2, SubgraphStep, GrowthKeepsBot
  <2> QED  BY <2>1, <2>2, BotSteps
<1>3. AuctionBotInv => NoDoubleAnnouncement
  BY DEF AuctionBotInv, SentOK, NoDoubleAnnouncement
<1> QED  BY <1>1, <1>2, <1>3, PTL DEF BotsSpec

-----------------------------------------------------------------------------
(* The auction page: what the events of the house tell.                    *)

PageBidders == AuctionBidders \cup {Visitor, "none", FirstAuction.bidder}
PageAuctions ==
  [nounId : Nat, amount : Nat, startTime : Nat, endTime : Nat, bidder : PageBidders,
   settled : BOOLEAN]

PlacedEvents ==
  [event : {"AuctionBid"}, nounId : Nat, sender : PageBidders, value : Nat,
   extended : BOOLEAN, tx : Transactions, block : Nat]
SoldEvents ==
  [event : {"AuctionSettled"}, nounId : Nat, winner : PageBidders, amount : Nat]
AuctionEvents == CreatedEvents \cup PlacedEvents \cup ExtendedEvents \cup SoldEvents

\* One auction follows another: ids grow, an auction begins with its creation, and
\* nothing comes after its settlement.
InTurn(events) ==
  /\ \A i, j \in DOMAIN events : i < j =>
       /\ events[i].nounId <= events[j].nounId
       /\ events[j].event = "AuctionCreated" \/ events[i].event = "AuctionSettled" =>
            events[i].nounId < events[j].nounId
  /\ \A j \in DOMAIN events :
       \E i \in DOMAIN events :
         i <= j /\ events[i].event = "AuctionCreated" /\ events[i].nounId = events[j].nounId

\* The events of an auction that say when it ends, those that settle it, its bids.
EndsOf(events, id) ==
  {i \in DOMAIN events : /\ events[i].nounId = id
                         /\ events[i].event \in {"AuctionCreated", "AuctionExtended"}}
SettlementsOf(events, id) ==
  {i \in DOMAIN events : events[i].nounId = id /\ events[i].event = "AuctionSettled"}
BidsOf(events, id) ==
  {i \in DOMAIN events : events[i].nounId = id /\ events[i].event = "AuctionBid"}

\* The first n events tell of auction a, but for its bids.
Tells(events, n, a) ==
  /\ \A i \in DOMAIN events : i <= n => events[i].nounId <= a.nounId
  /\ \E k \in EndsOf(events, a.nounId) :
       /\ k <= n /\ events[k].endTime = a.endTime
       /\ \A j \in EndsOf(events, a.nounId) : j <= n => j <= k
  /\ a.settled <=> \E k \in SettlementsOf(events, a.nounId) : k <= n

IsHighest(events, bids, i) ==
  i \in bids /\ \A j \in bids : events[j].value <= events[i].value

\* Auction a stands at the highest of the bids.
StandsAt(events, bids, a) ==
  /\ bids = {} => a.amount = 0 /\ a.bidder = "none"
  /\ bids # {} => \E i \in bids : /\ IsHighest(events, bids, i)
                                  /\ a.amount = events[i].value /\ a.bidder = events[i].sender

SoldAs(event, a) == event.amount = a.amount /\ event.winner = a.bidder

HouseTells(events, a) ==
  /\ events \in Seq(AuctionEvents) /\ a \in PageAuctions
  /\ InTurn(events)
  /\ a.nounId = 0 => events = <<>> /\ a = NoAuction
  /\ a.nounId # 0 =>
       /\ Tells(events, Len(events), a)
       /\ StandsAt(events, BidsOf(events, a.nounId), a)
       /\ \A k \in SettlementsOf(events, a.nounId) : SoldAs(events[k], a)

HouseTold ==
  /\ clock \in Nat /\ (houseAuction.settled => houseAuction.endTime <= clock)
  /\ HouseTells(feed, houseAuction)

-----------------------------------------------------------------------------
(* The auction page: what it makes of them.                                *)

PageFollowing ==
  LET id == activeAuction.nounId
  IN /\ lastAuctionNounId = id
     /\ Tells(feed, received, activeAuction)
     /\ storeBids \subseteq BidsOf(feed, id)
     /\ \A i \in BidsOf(feed, id) : i <= received => i \in fetching \/ containsBid(i)
     /\ \/ StandsAt(feed, storeBids, activeAuction)
        \/ \E k \in SettlementsOf(feed, id) : SoldAs(feed[k], activeAuction)

StoreInv ==
  /\ activeAuction \in PageAuctions
  /\ received \in 0 .. Len(feed)
  /\ fetching \subseteq BidEvents
  /\ storeBids \subseteq BidEvents
  /\ storeBids # {} => \E i \in storeBids : IsHighest(feed, storeBids, i)
  /\ following \in BOOLEAN
  /\ following => socket = "live" /\ PageFollowing

FormInv == bidInput \in Nat /\ placing.value \in Nat

PageInv == HouseTold /\ StoreInv /\ FormInv

-----------------------------------------------------------------------------
(* The auction page: the house.                                            *)

\* The kinds of events and their fields.
LEMMA EventKinds ==
  ASSUME NEW e \in AuctionEvents
  PROVE  /\ e.nounId \in Nat
         /\ e.event \in {"AuctionCreated", "AuctionBid", "AuctionExtended", "AuctionSettled"}
         /\ e.event \in {"AuctionCreated", "AuctionExtended"} => e.endTime \in Nat
         /\ e.event = "AuctionCreated" => e.startTime \in Nat
         /\ e.event = "AuctionBid" => e.value \in Nat /\ e.sender \in PageBidders
         /\ e.event = "AuctionSettled" => e.amount \in Nat /\ e.winner \in PageBidders
BY DEF AuctionEvents, CreatedEvents, PlacedEvents, ExtendedEvents, SoldEvents

\* The parts of a sequence of events.
LEMMA SequenceOfEvents ==
  ASSUME NEW events \in Seq(AuctionEvents)
  PROVE  /\ Len(events) \in Nat /\ DOMAIN events = 1 .. Len(events)
         /\ \A i \in DOMAIN events :
              /\ i \in Nat /\ events[i] \in AuctionEvents /\ events[i].nounId \in Nat
              /\ events[i].event = "AuctionBid" => events[i].value \in Nat
BY EventKinds

\* The events so far stay as they are when others follow.
Continues(events, more) ==
  /\ events \in Seq(AuctionEvents) /\ more \in Seq(AuctionEvents)
  /\ DOMAIN events \subseteq DOMAIN more /\ \A i \in DOMAIN events : more[i] = events[i]

\* A sequence with one event more.
LEMMA OneEventMore ==
  ASSUME NEW events \in Seq(AuctionEvents), NEW e \in AuctionEvents,
         NEW more, more = Append(events, e)
  PROVE  /\ Continues(events, more)
         /\ Len(more) = Len(events) + 1 /\ more[Len(events) + 1] = e
         /\ DOMAIN more = DOMAIN events \cup {Len(events) + 1}
         /\ Len(events) + 1 \notin DOMAIN events
BY DEF Continues

\* What events tell of an auction, later events do not untell.
LEMMA TellsMore ==
  ASSUME NEW events, NEW more, Continues(events, more), NEW n \in Nat, n <= Len(events),
         NEW a, Tells(events, n, a)
  PROVE  Tells(more, n, a)
<1>1. \A i : i \in DOMAIN more /\ i <= n => i \in DOMAIN events /\ more[i] = events[i]
  BY SequenceOfEvents DEF Continues
<1>2. \A i : i <= n => (i \in EndsOf(more, a.nounId) <=> i \in EndsOf(events, a.nounId))
  BY <1>1 DEF EndsOf, Continues
<1>3. \A i : i <= n =>
        (i \in SettlementsOf(more, a.nounId) <=> i \in SettlementsOf(events, a.nounId))
  BY <1>1 DEF SettlementsOf, Continues
<1>4. \A i \in EndsOf(events, a.nounId) : more[i] = events[i]
  BY DEF EndsOf, Continues
<1> QED  BY <1>1, <1>2, <1>3, <1>4 DEF Tells

\* The next event but a creation is of the auction told of so far, which is not settled.
LEMMA NextIsOfIt ==
  ASSUME NEW events \in Seq(AuctionEvents), InTurn(events), NEW n \in Nat,
         n + 1 \in DOMAIN events, NEW a, a.nounId \in Nat, Tells(events, n, a)
  PROVE  /\ events[n + 1].event = "AuctionCreated" => a.nounId < events[n + 1].nounId
         /\ events[n + 1].event # "AuctionCreated" =>
              events[n + 1].nounId = a.nounId /\ ~a.settled
<1>1. PICK k \in EndsOf(events, a.nounId) : k <= n
  BY DEF Tells
<1>2. k \in DOMAIN events /\ k < n + 1 /\ events[k].nounId = a.nounId
  BY <1>1, SequenceOfEvents DEF EndsOf
<1>3. /\ a.nounId <= events[n + 1].nounId
      /\ events[n + 1].event = "AuctionCreated" => a.nounId < events[n + 1].nounId
  BY <1>2 DEF InTurn
<1>4. ASSUME events[n + 1].event # "AuctionCreated"
      PROVE  events[n + 1].nounId = a.nounId
  <2>1. PICK i \in DOMAIN events : /\ i <= n + 1 /\ events[i].event = "AuctionCreated"
                                   /\ events[i].nounId = events[n + 1].nounId
    BY DEF InTurn
  <2>2. i # n + 1
    BY <1>4, <2>1
  <2>3. i <= n
    BY <2>1, <2>2, SequenceOfEvents
  <2>4. events[n + 1].nounId <= a.nounId
    BY <2>1, <2>3 DEF Tells
  <2> QED  BY <1>3, <2>4, SequenceOfEvents
<1>5. ASSUME events[n + 1].nounId = a.nounId, a.settled
      PROVE  FALSE
  <2>1. PICK s \in SettlementsOf(events, a.nounId) : s <= n
    BY <1>5 DEF Tells
  <2>2. s \in DOMAIN events /\ s < n + 1 /\ events[s].event = "AuctionSettled"
    BY <2>1, SequenceOfEvents DEF SettlementsOf
  <2>3. events[s].nounId = a.nounId
    BY <2>1 DEF SettlementsOf
  <2>4. events[s].nounId < events[n + 1].nounId
    BY <2>2 DEF InTurn
  <2>5. events[n + 1].nounId \in Nat
    BY SequenceOfEvents
  <2> QED  BY <1>5, <2>3, <2>4, <2>5
<1> QED  BY <1>3, <1>4, <1>5

\* An auction just created is told by its creation alone.
LEMMA CreationTells ==
  ASSUME NEW events \in Seq(AuctionEvents), InTurn(events), NEW n \in DOMAIN events,
         events[n].event = "AuctionCreated",
         NEW a, a.nounId = events[n].nounId, a.endTime = events[n].endTime, ~a.settled
  PROVE  /\ Tells(events, n, a)
         /\ \A i \in DOMAIN events : i <= n /\ events[i].nounId = a.nounId => i = n
<1>0. n \in Nat /\ \A i \in DOMAIN events : i \in Nat /\ events[i].nounId \in Nat
  BY SequenceOfEvents
<1>6. \A i \in DOMAIN events : i < n => events[i].nounId < events[n].nounId
  BY DEF InTurn
<1>1. \A i \in DOMAIN events : i <= n /\ events[i].nounId = a.nounId => i = n
  BY ONLY a.nounId = events[n].nounId, n \in DOMAIN events, <1>0, <1>6
<1>2. \A i \in DOMAIN events : i <= n => events[i].nounId <= a.nounId
  BY ONLY a.nounId = events[n].nounId, n \in DOMAIN events, <1>0, <1>6
<1>3. n \in EndsOf(events, a.nounId) /\ n <= n
  BY SequenceOfEvents DEF EndsOf
<1>4. \A j \in EndsOf(events, a.nounId) : j <= n => j <= n
  OBVIOUS
<1>5. ~ \E k \in SettlementsOf(events, a.nounId) : k <= n
  BY <1>1 DEF SettlementsOf
<1> QED  BY <1>1, <1>2, <1>3, <1>4, <1>5 DEF Tells

\* What an event of the auction adds.
LEMMA EventTells ==
  ASSUME NEW events \in Seq(AuctionEvents), NEW n \in Nat, n + 1 \in DOMAIN events,
         events[n + 1].event # "AuctionCreated",
         NEW a, a.nounId \in Nat, Tells(events, n, a), a.settled \in BOOLEAN,
         events[n + 1].nounId = a.nounId,
         NEW b, b.nounId = a.nounId, b.settled \in BOOLEAN,
         IF events[n + 1].event = "AuctionExtended" THEN b.endTime = events[n + 1].endTime
                                                    ELSE b.endTime = a.endTime,
         b.settled <=> a.settled \/ events[n + 1].event = "AuctionSettled"
  PROVE  Tells(events, n + 1, b)
<1>1. \A i \in DOMAIN events : i <= n + 1 => i <= n \/ i = n + 1
  BY SequenceOfEvents
<1>2. \A i \in DOMAIN events : i <= n + 1 => events[i].nounId <= b.nounId
  BY <1>1 DEF Tells
<1>3. \E k \in EndsOf(events, b.nounId) :
        /\ k <= n + 1 /\ events[k].endTime = b.endTime
        /\ \A j \in EndsOf(events, b.nounId) : j <= n + 1 => j <= k
  <2>1. CASE events[n + 1].event = "AuctionExtended"
    <3>1. n + 1 \in EndsOf(events, b.nounId) /\ events[n + 1].endTime = b.endTime
      BY <2>1 DEF EndsOf
    <3> QED  BY <3>1
  <2>2. CASE events[n + 1].event # "AuctionExtended"
    <3>1. PICK k \in EndsOf(events, a.nounId) :
            /\ k <= n /\ events[k].endTime = a.endTime
            /\ \A j \in EndsOf(events, a.nounId) : j <= n => j <= k
      BY DEF Tells
    <3>2. n + 1 \notin EndsOf(events, b.nounId)
      BY <2>2 DEF EndsOf
    <3>3. \A j \in EndsOf(events, b.nounId) : j <= n + 1 => j <= n
      BY <1>1, <3>2 DEF EndsOf
    <3>4. k <= n + 1
      BY <3>1, SequenceOfEvents DEF EndsOf
    <3> QED  BY <2>2, <3>1, <3>3, <3>4
  <2> QED  BY <2>1, <2>2
<1>4. b.settled <=> \E k \in SettlementsOf(events, b.nounId) : k <= n + 1
  <2>1. \A k \in SettlementsOf(events, b.nounId) :
          k <= n + 1 <=> k <= n \/ (k = n + 1 /\ events[n + 1].event = "AuctionSettled")
    BY SequenceOfEvents DEF SettlementsOf
  <2>2. events[n + 1].event = "AuctionSettled" => n + 1 \in SettlementsOf(events, b.nounId)
    BY DEF SettlementsOf
  <2> QED  BY <2>1, <2>2 DEF Tells
<1> QED  BY <1>2, <1>3, <1>4 DEF Tells

\* What the house emits comes in turn.
LEMMA TurnKept ==
  ASSUME NEW events \in Seq(AuctionEvents), InTurn(events), NEW e \in AuctionEvents, NEW a,
         a.nounId \in Nat,
         \/ /\ e.event = "AuctionCreated"
            /\ \A i \in DOMAIN events : events[i].nounId < e.nounId
         \/ /\ e.event # "AuctionCreated" /\ e.nounId = a.nounId /\ ~a.settled
            /\ Tells(events, Len(events), a),
         NEW more, more = Append(events, e)
  PROVE  InTurn(more)
<1> DEFINE n == Len(events)
<1>1. /\ n \in Nat /\ DOMAIN events = 1 .. n /\ DOMAIN more = DOMAIN events \cup {n + 1}
      /\ more[n + 1] = e /\ \A i \in DOMAIN events : more[i] = events[i]
  BY SequenceOfEvents, OneEventMore DEF Continues
<1>2. ASSUME NEW i \in DOMAIN events
      PROVE  /\ events[i].nounId <= e.nounId
             /\ e.event = "AuctionCreated" \/ events[i].event = "AuctionSettled" =>
                  events[i].nounId < e.nounId
  <2>1. events[i].nounId \in Nat /\ e.nounId \in Nat /\ i <= n
    BY <1>1, SequenceOfEvents, EventKinds
  <2>2. CASE e.event = "AuctionCreated"
    BY <2>1, <2>2
  <2>3. CASE e.event # "AuctionCreated"
    <3>1. events[i].nounId <= a.nounId /\ e.nounId = a.nounId
      BY <2>1, <2>3 DEF Tells
    <3>2. events[i].event = "AuctionSettled" => events[i].nounId # a.nounId
      BY <2>1, <2>3 DEF Tells, SettlementsOf
    <3> QED  BY <2>1, <2>3, <3>1, <3>2
  <2> QED  BY <2>2, <2>3
<1>3. ASSUME NEW i \in DOMAIN more, NEW j \in DOMAIN more, i < j
      PROVE  /\ more[i].nounId <= more[j].nounId
             /\ more[j].event = "AuctionCreated" \/ more[i].event = "AuctionSettled" =>
                  more[i].nounId < more[j].nounId
  <2>1. i \in DOMAIN events
    BY <1>1, <1>3
  <2>2. CASE j = n + 1
    BY <1>1, <1>2, <2>1, <2>2
  <2>3. CASE j \in DOMAIN events
    BY <1>1, <1>3, <2>1, <2>3 DEF InTurn
  <2> QED  BY <1>1, <2>2, <2>3
<1>4. ASSUME NEW j \in DOMAIN more
      PROVE  \E i \in DOMAIN more :
               i <= j /\ more[i].event = "AuctionCreated" /\ more[i].nounId = more[j].nounId
  <2>1. CASE j \in DOMAIN events
    <3>1. PICK i \in DOMAIN events :
            /\ i <= j /\ events[i].event = "AuctionCreated"
            /\ events[i].nounId = events[j].nounId
      BY <2>1 DEF InTurn
    <3> QED  BY <1>1, <2>1, <3>1
  <2>2. CASE j = n + 1 /\ e.event = "AuctionCreated"
    <3>1. j <= j
      BY <1>1, <2>2
    <3> QED  BY <1>1, <2>2, <3>1
  <2>3. CASE j = n + 1 /\ e.event # "AuctionCreated"
    <3>1. PICK k \in EndsOf(events, a.nounId) : k <= n
      BY <2>3 DEF Tells
    <3>2. k \in DOMAIN events /\ events[k].nounId = a.nounId
      BY <3>1 DEF EndsOf
    <3>3. PICK i \in DOMAIN events :
            /\ i <= k /\ events[i].event = "AuctionCreated"
            /\ events[i].nounId = events[k].nounId
      BY <3>2 DEF InTurn
    <3>4. i <= j /\ i \in DOMAIN more
      BY <1>1, <2>3, <3>3
    <3> QED  BY <1>1, <2>3, <3>2, <3>3, <3>4
  <2> QED  BY <1>1, <2>1, <2>2, <2>3
<1> QED  BY <1>3, <1>4 DEF InTurn

\* The house opens an auction.
LEMMA CreatingTells ==
  ASSUME NEW events, NEW a, HouseTells(events, a), NEW e \in CreatedEvents,
         a.nounId < e.nounId, NEW more, more = Append(events, e),
         NEW b \in PageAuctions, b.nounId = e.nounId, b.amount = 0, b.bidder = "none",
         b.endTime = e.endTime, ~b.settled
  PROVE  HouseTells(more, b)
<1> DEFINE n == Len(events) + 1
<1>1. /\ events \in Seq(AuctionEvents) /\ a \in PageAuctions /\ InTurn(events)
      /\ e \in AuctionEvents /\ e.event = "AuctionCreated"
  BY DEF HouseTells, AuctionEvents, CreatedEvents
<1>2. a.nounId \in Nat /\ e.nounId \in Nat
  BY <1>1, EventKinds DEF PageAuctions
<1>3. \A i \in DOMAIN events : events[i].nounId < e.nounId
  <2>1. CASE a.nounId = 0
    BY <2>1 DEF HouseTells
  <2>2. CASE a.nounId # 0
    <3>1. \A i \in DOMAIN events : events[i].nounId <= a.nounId
      BY <1>1, <2>2, SequenceOfEvents DEF HouseTells, Tells
    <3> QED  BY <1>1, <1>2, <3>1, SequenceOfEvents
  <2> QED  BY <2>1, <2>2
<1>4. InTurn(more)
  BY <1>1, <1>2, <1>3, TurnKept
<1>5. /\ more \in Seq(AuctionEvents) /\ Len(more) = n /\ more[n] = e /\ n \in DOMAIN more
      /\ DOMAIN more = 1 .. n /\ n \in Nat
  BY <1>1, OneEventMore, SequenceOfEvents DEF Continues
<1>6. /\ Tells(more, Len(more), b)
      /\ \A i \in DOMAIN more : i <= n /\ more[i].nounId = b.nounId => i = n
  BY <1>1, <1>4, <1>5, CreationTells
<1>7. BidsOf(more, b.nounId) = {} /\ SettlementsOf(more, b.nounId) = {}
  BY <1>1, <1>5, <1>6 DEF BidsOf, SettlementsOf
<1>8. b.nounId # 0
  BY <1>2
<1> QED  BY <1>4, <1>5, <1>6, <1>7, <1>8 DEF HouseTells, StandsAt

\* The house extends or settles its auction, or is bid at.
LEMMA GoingOnTells ==
  ASSUME NEW events, NEW a, HouseTells(events, a), a.nounId # 0, ~a.settled,
         NEW e \in AuctionEvents, e.event # "AuctionCreated", e.nounId = a.nounId,
         e.event = "AuctionBid" => a.amount <= e.value,
         NEW more, more = Append(events, e),
         NEW b \in PageAuctions, b.nounId = a.nounId,
         IF e.event = "AuctionBid" THEN b.amount = e.value /\ b.bidder = e.sender
                                   ELSE b.amount = a.amount /\ b.bidder = a.bidder,
         IF e.event = "AuctionExtended" THEN b.endTime = e.endTime ELSE b.endTime = a.endTime,
         b.settled <=> e.event = "AuctionSettled",
         e.event = "AuctionSettled" => SoldAs(e, a)
  PROVE  HouseTells(more, b)
<1> DEFINE n == Len(events)
<1>1. /\ events \in Seq(AuctionEvents) /\ a \in PageAuctions /\ InTurn(events)
      /\ a.nounId \in Nat /\ a.amount \in Nat /\ a.settled \in BOOLEAN /\ b.settled \in BOOLEAN
  BY DEF HouseTells, PageAuctions
<1>2. /\ Tells(events, n, a) /\ StandsAt(events, BidsOf(events, a.nounId), a)
      /\ \A k \in SettlementsOf(events, a.nounId) : SoldAs(events[k], a)
  BY DEF HouseTells
<1>3. InTurn(more)
  BY <1>1, <1>2, TurnKept
<1>4. /\ Continues(events, more) /\ more \in Seq(AuctionEvents) /\ Len(more) = n + 1
      /\ more[n + 1] = e /\ DOMAIN more = DOMAIN events \cup {n + 1} /\ n \in Nat
      /\ n + 1 \in DOMAIN more /\ \A i \in DOMAIN events : more[i] = events[i]
      /\ n + 1 \notin DOMAIN events
  BY <1>1, OneEventMore, SequenceOfEvents DEF Continues
<1>5. Tells(more, n, a)
  BY <1>2, <1>4, TellsMore
<1>6. Tells(more, n + 1, b)
  BY <1>1, <1>4, <1>5, EventTells
<1>7. SettlementsOf(events, a.nounId) = {}
  <2>1. \A k \in SettlementsOf(events, a.nounId) : k <= n
    BY <1>1, SequenceOfEvents DEF SettlementsOf
  <2> QED  BY <1>2, <2>1 DEF Tells
<1>8. \A k \in SettlementsOf(more, b.nounId) : SoldAs(more[k], b)
  <2> SUFFICES ASSUME NEW k \in SettlementsOf(more, b.nounId)
               PROVE  SoldAs(more[k], b)
    OBVIOUS
  <2>1. k = n + 1 /\ e.event = "AuctionSettled"
    BY <1>4, <1>7 DEF SettlementsOf
  <2> QED  BY <1>4, <2>1 DEF SoldAs
<1>9. StandsAt(more, BidsOf(more, b.nounId), b)
  <2> DEFINE bids == BidsOf(events, a.nounId)
  <2>1. \A i \in bids : i \in DOMAIN events /\ more[i] = events[i] /\ events[i].value \in Nat
    BY <1>1, <1>4, SequenceOfEvents DEF BidsOf
  <2>0. StandsAt(events, bids, a)
    BY <1>2
  <2>2. CASE e.event # "AuctionBid"
    <3>1. BidsOf(more, b.nounId) = bids
      BY <1>4, <2>2 DEF BidsOf
    <3> HIDE DEF bids
    <3> QED  BY <2>0, <2>1, <2>2, <3>1 DEF StandsAt, IsHighest
  <2>3. CASE e.event = "AuctionBid"
    <3>1. BidsOf(more, b.nounId) = bids \cup {n + 1}
      BY <1>4, <2>3 DEF BidsOf
    <3>2. e.value \in Nat
      BY <2>3, EventKinds
    <3>3. \A i \in bids : events[i].value <= a.amount
      <4> HIDE DEF bids
      <4> QED  BY <2>0 DEF StandsAt, IsHighest
    <3> HIDE DEF bids
    <3>4. \A i \in bids : more[i].value <= e.value
      BY <1>1, <2>1, <2>3, <3>2, <3>3
    <3>5. IsHighest(more, bids \cup {n + 1}, n + 1)
      <4>1. more[n + 1] = e /\ e.value <= e.value
        BY <1>4, <3>2
      <4> HIDE DEF n
      <4> QED  BY <3>4, <4>1 DEF IsHighest
    <3> QED  BY <1>4, <2>3, <3>1, <3>5 DEF StandsAt
  <2> QED  BY <2>2, <2>3
<1> QED  BY <1>3, <1>4, <1>6, <1>8, <1>9 DEF HouseTells

\* The parts of the house.
LEMMA HouseFields ==
  ASSUME HouseTold
  PROVE  /\ feed \in Seq(AuctionEvents) /\ clock \in Nat
         /\ houseAuction \in PageAuctions
         /\ houseAuction.nounId \in Nat /\ houseAuction.amount \in Nat
         /\ houseAuction.endTime \in Nat /\ houseAuction.settled \in BOOLEAN
         /\ houseAuction.bidder \in PageBidders
         /\ ~houseAuction.settled \/ houseAuction.endTime # 0 => houseAuction.nounId # 0
  BY DEF HouseTold, HouseTells, PageAuctions, NoAuction

\* The house opens its next auction, after the events told so far.
LEMMA OpeningTells ==
  ASSUME clock \in Nat, NEW events, NEW a, HouseTells(events, a),
         a.nounId = houseAuction.nounId, a.nounId \in Nat, NextNoun \in HouseNouns,
         houseAuction' = [nounId |-> NextNoun, amount |-> 0, startTime |-> clock,
                          endTime |-> clock + AuctionLength, bidder |-> "none",
                          settled |-> FALSE],
         UNCHANGED clock, feed' = Append(events, AuctionCreated(NextNoun))
  PROVE  HouseTold' /\ Continues(events, feed')
<1>1. NextNoun \in Nat /\ a.nounId < NextNoun
  BY DEF NextNoun
<1>2. clock + AuctionLength \in Nat
  BY SubgraphAuctionAssumption
<1> DEFINE e == AuctionCreated(NextNoun)
<1>3. /\ e \in CreatedEvents /\ e.nounId = NextNoun /\ e.endTime = clock + AuctionLength
      /\ e \in AuctionEvents
  <2> HIDE DEF NextNoun
  <2> QED  BY <1>1, <1>2 DEF AuctionCreated, CreatedEvents, AuctionEvents
<1>4. /\ houseAuction' \in PageAuctions /\ houseAuction'.nounId = NextNoun
      /\ houseAuction'.amount = 0 /\ houseAuction'.bidder = "none" /\ ~houseAuction'.settled
      /\ houseAuction'.endTime = clock + AuctionLength
  BY <1>1, <1>2 DEF PageAuctions, PageBidders
<1>5. feed' = Append(events, e)
  OBVIOUS
<1> HIDE DEF e
<1>6. HouseTells(feed', houseAuction')
  BY <1>1, <1>3, <1>4, <1>5, CreatingTells
<1>7. Continues(events, feed')
  BY <1>3, <1>5, OneEventMore DEF HouseTells
<1> QED  BY <1>4, <1>6, <1>7 DEF HouseTold

\* The house's settlement, before what may follow it.
LEMMA SettlingTells ==
  ASSUME HouseTold, CanBeSettled,
         NEW b, b = [houseAuction EXCEPT !.settled = TRUE],
         NEW more, more = Append(feed, AuctionSettled)
  PROVE  HouseTells(more, b) /\ b.nounId = houseAuction.nounId /\ Continues(feed, more)
<1> DEFINE e == AuctionSettled
<1>1. /\ ~houseAuction.settled /\ houseAuction.nounId # 0 /\ HouseTells(feed, houseAuction)
      /\ houseAuction \in PageAuctions /\ feed \in Seq(AuctionEvents)
  BY HouseFields DEF CanBeSettled, HouseTold
<1>2. /\ e \in AuctionEvents /\ e.event = "AuctionSettled" /\ e.nounId = houseAuction.nounId
      /\ SoldAs(e, houseAuction)
  BY HouseFields DEF AuctionSettled, SoldEvents, AuctionEvents, SoldAs
<1>3. /\ b \in PageAuctions /\ b.nounId = houseAuction.nounId /\ b.settled
      /\ b.amount = houseAuction.amount /\ b.bidder = houseAuction.bidder
      /\ b.endTime = houseAuction.endTime
  BY <1>1 DEF PageAuctions
<1>4. more = Append(feed, e)
  OBVIOUS
<1> HIDE DEF e
<1>5. HouseTells(more, b)
  BY <1>1, <1>2, <1>3, <1>4, GoingOnTells
<1>6. Continues(feed, more)
  BY <1>1, <1>2, <1>4, OneEventMore
<1> QED  BY <1>3, <1>5, <1>6

\* A bid at the house is told by its event.
LEMMA BiddingTells ==
  ASSUME HouseTold, NEW sender \in PageBidders, NEW value \in Nat, NEW tx \in Transactions,
         HouseBid(sender, value, tx)
  PROVE  HouseTold' /\ Continues(feed, feed')
<1> DEFINE extended == houseAuction.endTime - clock < AuctionBuffer
           end == IF extended THEN clock + AuctionBuffer ELSE houseAuction.endTime
           bid == AuctionBid(sender, value, extended, tx)
           extension == AuctionExtended(end)
           bidAt == [houseAuction EXCEPT !.amount = value, !.bidder = sender]
           told == Append(feed, bid)
<1>1. /\ clock < houseAuction.endTime
      /\ value >= houseAuction.amount + ((houseAuction.amount * Increment) \div 100)
      /\ UNCHANGED clock
      /\ houseAuction' = [houseAuction EXCEPT !.amount = value, !.bidder = sender, !.endTime = end]
      /\ feed' = told \o (IF extended THEN <<extension>> ELSE <<>>)
  BY DEF HouseBid, BidAccepted
<1>2. /\ clock \in Nat /\ houseAuction.endTime \in Nat /\ houseAuction.amount \in Nat
      /\ houseAuction.nounId \in Nat /\ houseAuction.nounId # 0 /\ ~houseAuction.settled
      /\ houseAuction \in PageAuctions /\ feed \in Seq(AuctionEvents)
      /\ HouseTells(feed, houseAuction)
  BY <1>1, HouseFields DEF HouseTold
<1>3. end \in Nat /\ extended \in BOOLEAN
  BY <1>2, SubgraphAuctionAssumption
<1>4. houseAuction.amount <= value
  <2> DEFINE raised == houseAuction.amount * Increment
  <2>1. houseAuction.amount \in Nat /\ Increment \in Nat
    BY <1>2, WebappAuctionAssumption DEF PageAuctions
  <2>2. raised \in Nat
    BY <2>1
  <2>3. houseAuction.amount + (raised \div 100) <= value
    BY <1>1, <2>1
  <2> HIDE DEF raised
  <2>4. raised \div 100 \in Nat
    BY <2>2, Quotient
  <2> QED  BY <1>2, <2>1, <2>3, <2>4
<1> HIDE DEF extended, end
<1>5. /\ bid \in AuctionEvents /\ bid.event = "AuctionBid" /\ bid.nounId = houseAuction.nounId
      /\ bid.value = value /\ bid.sender = sender
  BY <1>2, <1>3 DEF AuctionBid, AuctionEvents, PlacedEvents
<1>6. /\ extension \in AuctionEvents /\ extension.event = "AuctionExtended"
      /\ extension.nounId = houseAuction.nounId /\ extension.endTime = end
  BY <1>2, <1>3 DEF AuctionExtended, AuctionEvents, ExtendedEvents
<1>7. /\ bidAt \in PageAuctions /\ bidAt.nounId = houseAuction.nounId /\ bidAt.amount = value
      /\ bidAt.bidder = sender /\ bidAt.endTime = houseAuction.endTime /\ ~bidAt.settled
  BY <1>2 DEF PageAuctions
<1>8. /\ houseAuction' \in PageAuctions /\ houseAuction'.nounId = houseAuction.nounId
      /\ houseAuction'.amount = value /\ houseAuction'.bidder = sender
      /\ houseAuction'.endTime = end /\ ~houseAuction'.settled
  BY <1>1, <1>2, <1>3 DEF PageAuctions
<1>9. ~extended => houseAuction' = bidAt
  <2>1. ~extended => end = houseAuction.endTime
    BY DEF end
  <2> QED  BY <1>1, <1>2, <2>1 DEF PageAuctions
<1> HIDE DEF bid, extension, bidAt
<1>10. told \in Seq(AuctionEvents) /\ Continues(feed, told)
  BY <1>2, <1>5, OneEventMore DEF Continues
<1>11. HouseTells(told, bidAt)
  BY <1>2, <1>4, <1>5, <1>7, GoingOnTells
<1> HIDE DEF told
<1>12. CASE extended
  <2>1. feed' = Append(told, extension)
    BY <1>1, <1>6, <1>10, <1>12
  <2>2. HouseTells(feed', houseAuction')
    BY <1>2, <1>6, <1>7, <1>8, <1>11, <2>1, GoingOnTells
  <2>3. Continues(told, feed')
    BY <1>6, <1>10, <2>1, OneEventMore
  <2> QED  BY <1>1, <1>2, <1>8, <1>10, <2>2, <2>3 DEF HouseTold, Continues
<1>13. CASE ~extended
  <2>1. feed' = told
    BY <1>1, <1>10, <1>13
  <2> QED  BY <1>1, <1>2, <1>8, <1>9, <1>10, <1>11, <1>13, <2>1 DEF HouseTold
<1> QED  BY <1>12, <1>13

\* Every step of the house is told by the events it adds.
LEMMA HouseStep ==
  ASSUME HouseTold,
         \/ HouseActs \/ UNCHANGED houseVars
         \/ \E value \in Nat, tx \in Transactions : HouseBid(Visitor, value, tx)
  PROVE  HouseTold' /\ Continues(feed, feed')
<1>1. /\ feed \in Seq(AuctionEvents) /\ clock \in Nat /\ houseAuction.nounId \in Nat
      /\ HouseTells(feed, houseAuction) /\ houseAuction.endTime \in Nat
  BY HouseFields DEF HouseTold
<1> DEFINE settled == AuctionSettled
           told == Append(feed, settled)
           over == [houseAuction EXCEPT !.settled = TRUE]
<1>2. ASSUME CanBeSettled
      PROVE  /\ HouseTells(told, over) /\ over.nounId = houseAuction.nounId
             /\ Continues(feed, told)
  BY <1>2, SettlingTells
<1>3. CASE HouseSettlesAndOpens
  <2> DEFINE created == AuctionCreated(NextNoun)
  <2>1. CanBeSettled /\ Opens(<<settled>>) /\ UNCHANGED clock
    BY <1>3 DEF HouseSettlesAndOpens
  <2>2. feed' = feed \o Append(<<settled>>, created) /\ told = Append(feed, settled)
    BY <2>1 DEF Opens
  <2>3. settled \in AuctionEvents /\ created \in AuctionEvents
    <3>1. NextNoun \in Nat /\ clock + AuctionLength \in Nat
      BY <1>1, SubgraphAuctionAssumption DEF NextNoun
    <3> HIDE DEF NextNoun
    <3>2. created \in AuctionEvents
      BY <1>1, <3>1 DEF AuctionCreated, CreatedEvents, AuctionEvents
    <3>3. settled \in AuctionEvents
      BY HouseFields DEF AuctionSettled, SoldEvents, AuctionEvents
    <3> QED  BY <3>2, <3>3
  <2> HIDE DEF settled, created
  <2>4. feed' = Append(told, created)
    BY <1>1, <2>2, <2>3
  <2> HIDE DEF told, over
  <2>5. HouseTold' /\ Continues(told, feed')
    BY <1>1, <1>2, <2>1, <2>4, OpeningTells DEF Opens, created
  <2> QED  BY <1>2, <2>1, <2>5 DEF Continues
<1>4. CASE HouseSettles
  <2>1. CanBeSettled /\ houseAuction' = over /\ feed' = told /\ UNCHANGED clock
    BY <1>4 DEF HouseSettles
  <2>2. over.endTime = houseAuction.endTime /\ houseAuction.endTime <= clock
    BY <1>1, <2>1, HouseFields DEF CanBeSettled, PageAuctions
  <2> HIDE DEF told, over
  <2> QED  BY <1>1, <1>2, <2>1, <2>2 DEF HouseTold
<1>5. CASE HouseOpens
  <2> DEFINE created == AuctionCreated(NextNoun)
  <2>1. Opens(<<>>) /\ UNCHANGED clock /\ feed' = feed \o Append(<<>>, created)
    BY <1>5 DEF HouseOpens, Opens
  <2>2. feed' = Append(feed, created)
    <3> HIDE DEF created
    <3> QED  BY <1>1, <2>1
  <2> QED  BY <1>1, <2>1, <2>2, OpeningTells DEF Opens
<1>6. CASE HouseBlock
  <2>1. UNCHANGED <<houseAuction, feed>> /\ clock' = clock + 1
    BY <1>6 DEF HouseBlock
  <2> QED  BY <1>1, <2>1, HouseFields DEF HouseTold, Continues
<1>7. ASSUME NEW b \in AuctionBidders, NEW v \in Amounts, NEW tx \in Transactions,
             HouseBid(b, v, tx)
      PROVE  HouseTold' /\ Continues(feed, feed')
  BY <1>7, BiddingTells, WebappAuctionAssumption DEF PageBidders
<1>8. ASSUME NEW v \in Nat, NEW tx \in Transactions, HouseBid(Visitor, v, tx)
      PROVE  HouseTold' /\ Continues(feed, feed')
  BY <1>8, BiddingTells DEF PageBidders
<1>9. CASE UNCHANGED houseVars
  BY <1>1, <1>9 DEF houseVars, HouseTold, Continues
<1> QED  BY <1>3, <1>4, <1>5, <1>6, <1>7, <1>8, <1>9 DEF HouseActs

-----------------------------------------------------------------------------
(* The auction page: its store.                                            *)

\* The parts of the store of the page.
LEMMA StoreFields ==
  ASSUME HouseTold, StoreInv
  PROVE  /\ feed \in Seq(AuctionEvents) /\ DOMAIN feed = 1 .. Len(feed) /\ Len(feed) \in Nat
         /\ received \in Nat /\ received <= Len(feed)
         /\ activeAuction \in PageAuctions /\ activeAuction.nounId \in Nat
         /\ activeAuction.amount \in Nat /\ activeAuction.settled \in BOOLEAN
         /\ \A i \in BidEvents : /\ i \in DOMAIN feed /\ feed[i].event = "AuctionBid"
                                 /\ feed[i].value \in Nat /\ feed[i].sender \in PageBidders
<1>1. /\ feed \in Seq(AuctionEvents) /\ DOMAIN feed = 1 .. Len(feed) /\ Len(feed) \in Nat
      /\ \A i \in DOMAIN feed : feed[i] \in AuctionEvents
  BY HouseFields, SequenceOfEvents
<1>2. \A i \in BidEvents : /\ i \in DOMAIN feed /\ feed[i].event = "AuctionBid"
                           /\ feed[i].value \in Nat /\ feed[i].sender \in PageBidders
  BY <1>1, EventKinds DEF BidEvents
<1> QED  BY <1>1, <1>2 DEF StoreInv, PageAuctions

\* Whatever the house emits meanwhile, what the page received stays so.
LEMMA EmittingKeepsStore ==
  ASSUME StoreInv, Continues(feed, feed'), UNCHANGED <<storeVars, socketVars>>
  PROVE  StoreInv'
<1>1. UNCHANGED <<activeAuction, storeBids, lastAuctionNounId, socket, received, fetching,
                  following>>
  BY DEF storeVars, socketVars
<1>2. /\ Len(feed) \in Nat /\ Len(feed') \in Nat /\ DOMAIN feed = 1 .. Len(feed)
      /\ DOMAIN feed' = 1 .. Len(feed') /\ feed \in Seq(AuctionEvents)
      /\ \A i \in DOMAIN feed : i \in DOMAIN feed' /\ feed'[i] = feed[i]
  BY SequenceOfEvents DEF Continues
<1>3. Len(feed) <= Len(feed')
  BY <1>2
<1>4. received \in Nat /\ received <= Len(feed)
  BY <1>2 DEF StoreInv
<1>5. \A i \in BidEvents : i \in BidEvents' /\ feed'[i] = feed[i]
  BY <1>2 DEF BidEvents
<1>6. \A i \in storeBids : i \in BidEvents
  BY DEF StoreInv
<1>7. \A i : IsHighest(feed, storeBids, i) => IsHighest(feed', storeBids, i)
  BY <1>5, <1>6 DEF IsHighest
<1>8. ASSUME PageFollowing
      PROVE  PageFollowing'
  <2> DEFINE id == activeAuction.nounId
  <2>1. Tells(feed', received, activeAuction)
    BY <1>3, <1>4, <1>8, TellsMore DEF PageFollowing
  <2>2. /\ \A i \in BidsOf(feed, id) : i \in BidsOf(feed', id)
        /\ \A i \in BidsOf(feed', id) : i <= received => i \in BidsOf(feed, id)
        /\ \A k \in SettlementsOf(feed, id) : k \in SettlementsOf(feed', id) /\ feed'[k] = feed[k]
    BY <1>2, <1>4 DEF BidsOf, SettlementsOf
  <2>3. \A i \in BidEvents : containsBid(i) => containsBid(i)'
    BY <1>1, <1>5, <1>6 DEF containsBid
  <2>4. \A i \in BidsOf(feed, id) : i \in BidEvents
    BY DEF BidsOf, BidEvents
  <2>5. StandsAt(feed, storeBids, activeAuction) => StandsAt(feed', storeBids, activeAuction)
    BY <1>5, <1>6, <1>7 DEF StandsAt
  <2>6. \A i \in BidsOf(feed', id) : i <= received => i \in fetching \/ containsBid(i)'
    BY <1>8, <2>2, <2>3, <2>4 DEF PageFollowing
  <2> QED  BY <1>1, <1>8, <2>1, <2>2, <2>5, <2>6 DEF PageFollowing
<1>9. received' \in 0 .. Len(feed')
  BY <1>1, <1>2, <1>3, <1>4
<1>10. storeBids # {} => \E i \in storeBids : IsHighest(feed', storeBids, i)
  BY <1>7 DEF StoreInv
<1> QED  BY <1>1, <1>5, <1>6, <1>8, <1>9, <1>10 DEF StoreInv

\* The event of a new auction keeps the store.
LEMMA CreationKeepsStore ==
  ASSUME HouseTold, StoreInv, received < Len(feed), received' = received + 1, socket = "live",
         feed[received + 1].event = "AuctionCreated", setActiveAuction(feed[received + 1])
  PROVE  StoreInv'
<1> DEFINE n == received + 1
           e == feed[n]
<1>1. /\ feed \in Seq(AuctionEvents) /\ n \in DOMAIN feed /\ InTurn(feed)
      /\ received' \in 0 .. Len(feed)
  BY StoreFields DEF HouseTold, HouseTells
<1>2. /\ e \in AuctionEvents /\ e.nounId \in Nat /\ e.startTime \in Nat /\ e.endTime \in Nat
  BY <1>1, EventKinds, SequenceOfEvents
<1>3. /\ activeAuction' = [nounId |-> e.nounId, amount |-> 0, startTime |-> e.startTime,
                           endTime |-> e.endTime, bidder |-> "none", settled |-> FALSE]
      /\ storeBids' = {} /\ lastAuctionNounId' = e.nounId /\ following' = TRUE
      /\ UNCHANGED <<feed, fetching, socket>>
  BY DEF setActiveAuction, subgraphAuctionVars, houseVars
<1> HIDE DEF e
<1>4. /\ activeAuction' \in PageAuctions /\ activeAuction'.nounId = e.nounId
      /\ activeAuction'.endTime = e.endTime /\ ~activeAuction'.settled
      /\ activeAuction'.amount = 0 /\ activeAuction'.bidder = "none"
  BY <1>2, <1>3 DEF PageAuctions, PageBidders
<1>5. /\ Tells(feed, n, activeAuction')
      /\ \A i \in DOMAIN feed : i <= n /\ feed[i].nounId = e.nounId => i = n
  BY <1>1, <1>4, CreationTells DEF e
<1>6. \A i \in BidsOf(feed, e.nounId) : ~(i <= n)
  BY <1>5 DEF BidsOf
<1>7. PageFollowing'
  BY <1>3, <1>4, <1>5, <1>6 DEF PageFollowing, StandsAt
<1>8. BidEvents' = BidEvents
  BY <1>3 DEF BidEvents
<1> QED  BY <1>1, <1>3, <1>4, <1>7, <1>8 DEF StoreInv

\* The page receives what goes on in the auction it has.
LEMMA GoingOnKeepsStore ==
  ASSUME HouseTold, StoreInv, received < Len(feed), received' = received + 1, socket = "live",
         UNCHANGED <<feed, storeBids, lastAuctionNounId, socket, following>>,
         feed[received + 1].event # "AuctionCreated",
         fetching' = IF feed[received + 1].event = "AuctionBid" THEN fetching \cup {received'}
                                                                ELSE fetching,
         activeAuction' =
           CASE feed[received + 1].event = "AuctionExtended"
                  /\ activeAuction.nounId = feed[received + 1].nounId ->
                    [activeAuction EXCEPT !.endTime = feed[received + 1].endTime]
             [] feed[received + 1].event = "AuctionSettled"
                  /\ activeAuction.nounId = feed[received + 1].nounId ->
                    [activeAuction EXCEPT !.settled = TRUE, !.bidder = feed[received + 1].winner,
                                          !.amount = feed[received + 1].amount]
             [] OTHER -> activeAuction
  PROVE  StoreInv'
<1> DEFINE n == received + 1
           e == feed[n]
<1>1. /\ feed \in Seq(AuctionEvents) /\ n \in DOMAIN feed /\ InTurn(feed)
      /\ received' \in 0 .. Len(feed) /\ received \in Nat
      /\ activeAuction \in PageAuctions /\ activeAuction.nounId \in Nat
      /\ activeAuction.settled \in BOOLEAN
  BY StoreFields DEF HouseTold, HouseTells
<1>2. /\ e \in AuctionEvents /\ e.nounId \in Nat
      /\ e.event \in {"AuctionBid", "AuctionExtended", "AuctionSettled"}
      /\ e.event = "AuctionExtended" => e.endTime \in Nat
      /\ e.event = "AuctionSettled" => e.amount \in Nat /\ e.winner \in PageBidders
  BY <1>1, EventKinds, SequenceOfEvents
<1>3. BidEvents' = BidEvents
  BY DEF BidEvents
<1>4. fetching' \subseteq BidEvents
  BY <1>1 DEF StoreInv, BidEvents
<1> HIDE DEF e
<1> DEFINE extended == [activeAuction EXCEPT !.endTime = e.endTime]
           settled == [activeAuction EXCEPT !.settled = TRUE, !.bidder = e.winner,
                                            !.amount = e.amount]
<1>5. activeAuction' =
        CASE e.event = "AuctionExtended" /\ activeAuction.nounId = e.nounId -> extended
          [] e.event = "AuctionSettled" /\ activeAuction.nounId = e.nounId -> settled
          [] OTHER -> activeAuction
  BY DEF e
<1>6. /\ e.event = "AuctionExtended" => extended \in PageAuctions
      /\ e.event = "AuctionSettled" => settled \in PageAuctions
  BY <1>1, <1>2 DEF PageAuctions
<1>7. activeAuction' \in PageAuctions
  <2> HIDE DEF extended, settled
  <2> QED  BY <1>1, <1>5, <1>6
<1>8. ASSUME following
      PROVE  PageFollowing'
  <2>1. PageFollowing
    BY <1>8 DEF StoreInv
  <2>2. Tells(feed, received, activeAuction) /\ e.nounId = activeAuction.nounId
    BY <1>1, <2>1, NextIsOfIt DEF PageFollowing, e
  <2>3. /\ activeAuction'.nounId = activeAuction.nounId /\ activeAuction'.settled \in BOOLEAN
        /\ IF e.event = "AuctionExtended" THEN activeAuction'.endTime = e.endTime
                                          ELSE activeAuction'.endTime = activeAuction.endTime
        /\ activeAuction'.settled <=> activeAuction.settled \/ e.event = "AuctionSettled"
        /\ IF e.event = "AuctionSettled" THEN SoldAs(e, activeAuction')
                                         ELSE /\ activeAuction'.amount = activeAuction.amount
                                              /\ activeAuction'.bidder = activeAuction.bidder
    <3>1. CASE e.event = "AuctionExtended"
      <4>1. activeAuction' = extended
        <5> HIDE DEF extended, settled
        <5> QED  BY <1>5, <2>2, <3>1
      <4> QED  BY <1>1, <3>1, <4>1 DEF PageAuctions
    <3>2. CASE e.event = "AuctionSettled"
      <4>1. activeAuction' = settled
        <5> HIDE DEF extended, settled
        <5> QED  BY <1>5, <2>2, <3>2
      <4> QED  BY <1>1, <3>2, <4>1 DEF PageAuctions, SoldAs
    <3>3. CASE e.event = "AuctionBid"
      <4>1. activeAuction' = activeAuction
        <5> HIDE DEF extended, settled
        <5> QED  BY <1>5, <3>3
      <4> QED  BY <1>1, <3>3, <4>1
    <3> QED  BY <1>2, <3>1, <3>2, <3>3
  <2> DEFINE id == activeAuction.nounId
  <2>4. Tells(feed, n, activeAuction')
    BY <1>1, <2>2, <2>3, EventTells DEF e
  <2>5. \A i \in BidsOf(feed, id) : i <= n => i \in fetching' \/ containsBid(i)'
    <3> SUFFICES ASSUME NEW i \in BidsOf(feed, id), i <= n
                 PROVE  i \in fetching' \/ containsBid(i)'
      OBVIOUS
    <3>1. CASE i = n
      <4>1. e.event = "AuctionBid"
        BY <3>1 DEF BidsOf, e
      <4> QED  BY <3>1, <4>1 DEF e
    <3>2. CASE i # n
      <4>1. i <= received
        BY <1>1, <3>2, SequenceOfEvents DEF BidsOf
      <4>2. i \in fetching \/ containsBid(i)
        BY <2>1, <4>1 DEF PageFollowing
      <4> QED  BY <4>2 DEF containsBid
    <3> QED  BY <3>1, <3>2
  <2>6. \/ StandsAt(feed, storeBids, activeAuction')
        \/ \E k \in SettlementsOf(feed, id) : SoldAs(feed[k], activeAuction')
    <3>1. CASE e.event = "AuctionSettled"
      <4>1. n \in SettlementsOf(feed, id)
        BY <1>1, <2>2, <3>1 DEF SettlementsOf, e
      <4> QED  BY <2>3, <3>1, <4>1 DEF e
    <3>2. CASE e.event # "AuctionSettled"
      BY <2>1, <2>3, <3>2 DEF PageFollowing, StandsAt, SoldAs
    <3> QED  BY <3>1, <3>2
  <2> QED  BY <2>1, <2>3, <2>4, <2>5, <2>6 DEF PageFollowing
<1>9. storeBids' # {} => \E i \in storeBids' : IsHighest(feed', storeBids', i)
  BY DEF StoreInv
<1> QED  BY <1>1, <1>3, <1>4, <1>7, <1>8, <1>9 DEF StoreInv

\* Any event received keeps the store.
LEMMA ReceivingKeepsStore ==
  ASSUME HouseTold, StoreInv, ReceivesEvent
  PROVE  StoreInv'
<1> DEFINE e == feed[received + 1]
<1>1. /\ received < Len(feed) /\ received' = received + 1 /\ socket = "live"
      /\ e.event \in {"AuctionCreated", "AuctionBid", "AuctionExtended", "AuctionSettled"}
  <2>1. /\ received < Len(feed) /\ received' = received + 1 /\ socket = "live"
    BY DEF ReceivesEvent
  <2>2. received + 1 \in DOMAIN feed
    BY <2>1, StoreFields
  <2> QED  BY <2>1, <2>2, StoreFields, SequenceOfEvents, EventKinds
<1>2. CASE e.event = "AuctionCreated"
  <2>1. setActiveAuction(e)
    BY <1>2 DEF ReceivesEvent
  <2> QED  BY <1>1, <1>2, <2>1, CreationKeepsStore
<1>3. CASE e.event = "AuctionExtended"
  <2>1. setAuctionExtended(e)
    BY <1>3 DEF ReceivesEvent
  <2>2. /\ UNCHANGED <<feed, storeBids, lastAuctionNounId, socket, following, fetching>>
        /\ activeAuction' = IF activeAuction.nounId = e.nounId
                            THEN [activeAuction EXCEPT !.endTime = e.endTime] ELSE activeAuction
    BY <2>1 DEF setAuctionExtended, Stores, auctionsEqual, subgraphAuctionVars, houseVars
  <2> QED  BY <1>1, <1>3, <2>2, GoingOnKeepsStore
<1>4. CASE e.event = "AuctionSettled"
  <2>1. setAuctionSettled(e)
    BY <1>4 DEF ReceivesEvent
  <2>2. /\ UNCHANGED <<feed, storeBids, lastAuctionNounId, socket, following, fetching>>
        /\ activeAuction' = IF activeAuction.nounId = e.nounId
                            THEN [activeAuction EXCEPT !.settled = TRUE, !.bidder = e.winner,
                                                       !.amount = e.amount]
                            ELSE activeAuction
    BY <2>1 DEF setAuctionSettled, Stores, auctionsEqual, subgraphAuctionVars, houseVars
  <2> QED  BY <1>1, <1>4, <2>2, GoingOnKeepsStore
<1>5. CASE e.event = "AuctionBid"
  <2>1. processBidFilter
    BY <1>5 DEF ReceivesEvent
  <2>2. /\ UNCHANGED <<feed, activeAuction, storeBids, lastAuctionNounId, socket, following>>
        /\ fetching' = fetching \cup {received'}
    BY <2>1 DEF processBidFilter, storeVars, subgraphAuctionVars, houseVars
  <2> QED  BY <1>1, <1>5, <2>2, GoingOnKeepsStore
<1> QED  BY <1>1, <1>2, <1>3, <1>4, <1>5

\* Of the bids in the store and one more there is a highest.
LEMMA HighestExists ==
  ASSUME HouseTold, StoreInv, NEW i \in BidEvents
  PROVE  IsHighest(feed, storeBids \cup {i}, maxBid(storeBids \cup {i}))
<1> DEFINE bids == storeBids \cup {i}
<1>1. \A j \in bids : feed[j].value \in Nat
  BY StoreFields DEF StoreInv
<1>2. \E k \in bids : \A j \in bids : feed[j].value <= feed[k].value
  <2>1. CASE storeBids = {}
    BY <1>1, <2>1
  <2>2. CASE storeBids # {}
    <3>1. PICK m \in storeBids : \A j \in storeBids : feed[j].value <= feed[m].value
      BY <2>2 DEF StoreInv, IsHighest
    <3>2. CASE feed[m].value <= feed[i].value
      <4>1. \A j \in bids : feed[j].value <= feed[i].value
        BY <1>1, <3>1, <3>2
      <4> QED  BY <4>1
    <3>3. CASE ~(feed[m].value <= feed[i].value)
      <4>1. \A j \in bids : feed[j].value <= feed[m].value
        BY <1>1, <3>1, <3>3
      <4> QED  BY <3>1, <4>1
    <3> QED  BY <3>2, <3>3
  <2> QED  BY <2>1, <2>2
<1> HIDE DEF bids
<1>3. IsHighest(feed, bids, maxBid(bids))
  BY <1>2 DEF maxBid, IsHighest
<1> QED  BY <1>3 DEF bids

\* The answer for the block of a bid keeps the store.
LEMMA FetchedKeepsStore ==
  ASSUME HouseTold, StoreInv, NEW i \in fetching, BlockFetched(i)
  PROVE  StoreInv'
<1>1. /\ UNCHANGED <<feed, lastAuctionNounId, socket, received, following>>
      /\ fetching' = fetching \ {i} /\ i \in BidEvents
  BY DEF BlockFetched, appendBid, WithBid, Stores, StoreInv, subgraphAuctionVars, houseVars
<1>2. BidEvents' = BidEvents
  BY <1>1 DEF BidEvents
<1>3. CASE ~auctionsEqual(feed[i]) \/ containsBid(i)
  <2>1. UNCHANGED <<activeAuction, storeBids>>
    BY <1>3 DEF BlockFetched, appendBid, Stores
  <2>2. ASSUME PageFollowing
        PROVE  PageFollowing'
    <3>1. \A j \in BidsOf(feed, activeAuction.nounId) :
            j <= received => j \in fetching' \/ containsBid(j)
      <4>1. i \in BidsOf(feed, activeAuction.nounId) => containsBid(i)
        BY <1>3 DEF auctionsEqual, BidsOf
      <4> QED  BY <1>1, <2>2, <4>1 DEF PageFollowing
    <3>2. \A j : containsBid(j)' <=> containsBid(j)
      BY <1>1, <2>1 DEF containsBid
    <3> QED  BY <1>1, <2>1, <2>2, <3>1, <3>2 DEF PageFollowing
  <2> QED  BY <1>1, <1>2, <2>1, <2>2 DEF StoreInv
<1>4. CASE ~(~auctionsEqual(feed[i]) \/ containsBid(i))
  <2> DEFINE bids == storeBids \cup {i}
             m == maxBid(bids)
  <2>1. /\ storeBids' = bids
        /\ activeAuction' = [activeAuction EXCEPT !.amount = feed[m].value,
                                                  !.bidder = feed[m].sender]
    BY <1>4 DEF BlockFetched, appendBid, WithBid, Stores
  <2>2. IsHighest(feed, bids, m) /\ m \in bids
    BY <1>1, HighestExists DEF IsHighest
  <2>3. bids \subseteq BidEvents
    BY <1>1 DEF StoreInv
  <2> HIDE DEF m
  <2>4. feed[m].value \in Nat /\ feed[m].sender \in PageBidders
    BY <2>2, <2>3, StoreFields
  <2>5. /\ activeAuction' \in PageAuctions /\ activeAuction'.nounId = activeAuction.nounId
        /\ activeAuction'.endTime = activeAuction.endTime
        /\ activeAuction'.settled = activeAuction.settled
        /\ activeAuction'.amount = feed[m].value /\ activeAuction'.bidder = feed[m].sender
    BY <2>1, <2>4, StoreFields DEF PageAuctions
  <2> HIDE DEF bids
  <2>6. ASSUME PageFollowing
        PROVE  PageFollowing'
    <3> DEFINE id == activeAuction.nounId
    <3>1. Tells(feed, received, activeAuction')
      BY <2>5, <2>6 DEF PageFollowing, Tells
    <3>2. bids \subseteq BidsOf(feed, id)
      <4>1. i \in BidsOf(feed, id)
        BY <1>1, <1>4 DEF auctionsEqual, BidsOf, BidEvents
      <4> QED  BY <2>6, <4>1 DEF PageFollowing, bids
    <3>3. StandsAt(feed, bids, activeAuction')
      BY <2>2, <2>5 DEF StandsAt
    <3>4. \A j \in BidsOf(feed, id) : j <= received => j \in fetching' \/ containsBid(j)'
      <4> SUFFICES ASSUME NEW j \in BidsOf(feed, id), j <= received
                   PROVE  j \in fetching' \/ containsBid(j)'
        OBVIOUS
      <4>1. CASE j = i
        BY <1>1, <2>1, <4>1 DEF containsBid, bids
      <4>2. CASE j # i
        BY <1>1, <2>1, <2>6, <4>2 DEF PageFollowing, containsBid, bids
      <4> QED  BY <4>1, <4>2
    <3> QED  BY <1>1, <2>1, <2>5, <2>6, <3>1, <3>2, <3>3, <3>4 DEF PageFollowing
  <2> QED  BY <1>1, <1>2, <2>1, <2>2, <2>3, <2>5, <2>6 DEF StoreInv
<1> QED  BY <1>3, <1>4

-----------------------------------------------------------------------------
(* The auction page: its form.                                             *)

\* Amounts in the form are in wei, whatever was typed or filled in.
LEMMA MinimumIsAmount ==
  ASSUME NEW amount \in Nat
  PROVE  /\ computeMinimumNextBid(amount) \in Nat
         /\ amount + ((amount * Increment) \div 100) <= computeMinimumNextBid(amount)
<1>0. Increment \in Nat
  BY WebappAuctionAssumption
<1> DEFINE q == (amount * Increment) \div 100
           m == (amount * (100 + Increment) + 100 - 1) \div 100
           p == amount * Increment
<1>1. amount * (100 + Increment) = 100 * amount + p /\ p \in Nat
  BY <1>0
<1> HIDE DEF p
<1>2. m = (100 * amount + p + 99) \div 100 /\ q = p \div 100
  <2>1. amount * (100 + Increment) + 100 - 1 = 100 * amount + p + 99
    BY <1>1
  <2> QED  BY <2>1 DEF p
<1>3. m \in Nat /\ amount + q <= m
  <2> HIDE DEF m, q
  <2> QED  BY <1>1, <1>2
<1> QED  BY <1>3 DEF computeMinimumNextBid, RoundedUp

\* The bid filled in is at least the least one, and a cent.
LEMMA FilledInIsEnough ==
  ASSUME NEW minBid \in Nat
  PROVE  /\ minBidEth(minBid) \in Nat /\ minBid <= minBidEth(minBid)
         /\ Cent <= minBidEth(minBid)
<1>0. Cent \in Nat /\ Cent # 0
  BY WebappAuctionAssumption
<1>1. CASE minBid = 0
  BY <1>0, <1>1 DEF minBidEth
<1>2. CASE minBid # 0
  <2> DEFINE r == (minBid + Cent - 1) \div Cent
  <2>1. /\ r \in Nat /\ Cent * r <= minBid + Cent - 1 /\ minBid + Cent - 1 < Cent * r + Cent
    BY <1>0, <1>2, Quotient
  <2> HIDE DEF r
  <2>2. r # 0
    BY <1>0, <1>2, <2>1
  <2>3. Cent <= r * Cent /\ r * Cent \in Nat /\ r * Cent = Cent * r
    BY <1>0, <2>1, <2>2, ProductMonotone
  <2> QED  BY <1>0, <1>2, <2>1, <2>3 DEF minBidEth, RoundedUp, r
<1> QED  BY <1>1, <1>2

\* A render leaves amounts in the form.
LEMMA RendersAmounts ==
  ASSUME FormInv, NEW active, NEW input \in Nat, NEW state,
         Renders(active, input, state), UNCHANGED placing
  PROVE  FormInv'
<1>1. bidInput' \in {0, input}
  BY DEF Renders
<1> QED  BY <1>1 DEF FormInv

\* A new form is one of amounts.
LEMMA FormKept ==
  ASSUME FormInv, FormIsNew \/ UNCHANGED formVars
  PROVE  FormInv'
BY DEF FormInv, FormIsNew, formVars, NothingPlaced

\* Going to another noun keeps the form.
LEMMA NavigatingKeepsForm ==
  ASSUME FormInv, NEW r, NEW id, Navigates(r, id)
  PROVE  FormInv' /\ UNCHANGED <<houseVars, storeVars, socketVars>>
<1>1. FormIsNew \/ UNCHANGED formVars
  BY DEF Navigates, FormFor
<1> QED  BY <1>1, FormKept DEF Navigates, subgraphAuctionVars

\* What the visitor does with the form, and what the wallet answers.
FormActs ==
  \/ \E input \in Inputs : bidInputHandler(input)
  \/ placeBidHandler \/ estimateBid \/ SignsBid \/ BidReceipt

\* What the visitor does in the form keeps it.
LEMMA FormActsKeepForm ==
  ASSUME HouseTold, StoreInv, FormInv, FormActs
  PROVE  FormInv' /\ UNCHANGED <<houseVars, storeVars, socketVars>>
<1>1. bidInput \in Nat /\ activeAuction.amount \in Nat
  BY StoreFields DEF FormInv
<1>2. ASSUME NEW input \in Inputs, bidInputHandler(input)
      PROVE  FormInv' /\ UNCHANGED <<houseVars, storeVars, socketVars>>
  <2>1. input \in Nat
    BY WebappAuctionAssumption
  <2> QED  BY <1>2, <2>1, RendersAmounts DEF bidInputHandler, subgraphAuctionVars
<1>3. CASE placeBidHandler
  <2> DEFINE minBid == computeMinimumNextBid(activeAuction.amount)
             filledIn == minBidEth(minBid)
  <2>1. filledIn \in Nat
    <3>1. minBid \in Nat
      BY <1>1, MinimumIsAmount
    <3> QED  BY <3>1, FilledInIsEnough
  <2>2. \/ bidInput' = filledIn /\ UNCHANGED placing
        \/ /\ placing' = [nounId |-> activeAuction.nounId, value |-> bidInput]
           /\ UNCHANGED bidInput
    BY <1>3 DEF placeBidHandler
  <2>3. UNCHANGED <<houseVars, storeVars, socketVars>>
    BY <1>3 DEF placeBidHandler, subgraphAuctionVars
  <2> HIDE DEF filledIn
  <2> QED  BY <1>1, <2>1, <2>2, <2>3 DEF FormInv
<1>4. CASE estimateBid
  BY <1>1, <1>4, RendersAmounts DEF estimateBid, subgraphAuctionVars
<1>5. CASE SignsBid
  BY <1>1, <1>5, RendersAmounts DEF SignsBid, subgraphAuctionVars
<1>6. CASE BidReceipt
  BY <1>1, <1>6, RendersAmounts DEF BidReceipt, subgraphAuctionVars
<1> QED  BY <1>2, <1>3, <1>4, <1>5, <1>6 DEF FormActs

\* Of the reducers only those that store an auction render the form.
LEMMA SocketKeepsForm ==
  ASSUME HouseTold, StoreInv, FormInv,
         \/ ReceivesEvent \/ queryFilter \/ Subscribes
         \/ \E i \in fetching : BlockFetched(i) \/ BlockNotFetched(i)
  PROVE  FormInv' /\ UNCHANGED houseVars
<1>1. bidInput \in Nat
  BY DEF FormInv
<1>2. ASSUME NEW active, Stores(active)
      PROVE  FormInv' /\ UNCHANGED houseVars
  <2>1. \/ Renders(active, bidInput, placeBidState) /\ UNCHANGED placing
        \/ UNCHANGED formVars
    BY <1>2 DEF Stores
  <2>2. UNCHANGED houseVars
    BY <1>2 DEF Stores, subgraphAuctionVars
  <2> QED  BY <1>1, <2>1, <2>2, RendersAmounts, FormKept
<1>3. ASSUME NEW e, setActiveAuction(e)
      PROVE  FormInv' /\ UNCHANGED houseVars
  <2>1. \/ \E active : Renders(active, bidInput, placeBidState) /\ UNCHANGED placing
        \/ FormIsNew
    BY <1>3 DEF setActiveAuction
  <2>2. UNCHANGED houseVars
    BY <1>3 DEF setActiveAuction, subgraphAuctionVars
  <2> QED  BY <1>1, <2>1, <2>2, RendersAmounts, FormKept
<1>4. CASE ReceivesEvent
  <2> DEFINE e == feed[received + 1]
  <2>1. received + 1 \in DOMAIN feed
    BY <1>4, StoreFields DEF ReceivesEvent
  <2>2. e.event \in {"AuctionCreated", "AuctionBid", "AuctionExtended", "AuctionSettled"}
    BY <2>1, StoreFields, SequenceOfEvents, EventKinds
  <2>3. CASE e.event = "AuctionCreated"
    <3>1. setActiveAuction(e)
      BY <1>4, <2>3 DEF ReceivesEvent
    <3> QED  BY <1>3, <3>1
  <2>4. CASE e.event = "AuctionExtended"
    <3>1. setAuctionExtended(e)
      BY <1>4, <2>4 DEF ReceivesEvent
    <3>2. \E active : Stores(active)
      BY <3>1 DEF setAuctionExtended
    <3> QED  BY <1>2, <3>2
  <2>5. CASE e.event = "AuctionSettled"
    <3>1. setAuctionSettled(e)
      BY <1>4, <2>5 DEF ReceivesEvent
    <3>2. \E active : Stores(active)
      BY <3>1 DEF setAuctionSettled
    <3> QED  BY <1>2, <3>2
  <2>6. CASE e.event = "AuctionBid"
    <3>1. processBidFilter
      BY <1>4, <2>6 DEF ReceivesEvent
    <3> QED  BY <3>1, FormKept DEF processBidFilter, subgraphAuctionVars
  <2> QED  BY <2>2, <2>3, <2>4, <2>5, <2>6
<1>5. CASE queryFilter
  BY <1>5, FormKept DEF queryFilter, subgraphAuctionVars
<1>6. CASE Subscribes
  BY <1>6, FormKept DEF Subscribes, subgraphAuctionVars
<1>7. ASSUME NEW i \in fetching, BlockFetched(i)
      PROVE  FormInv' /\ UNCHANGED houseVars
  <2>1. \E active : Stores(active)
    BY <1>7 DEF BlockFetched, appendBid, WithBid
  <2> QED  BY <1>2, <2>1
<1>8. ASSUME NEW i \in fetching, BlockNotFetched(i)
      PROVE  FormInv' /\ UNCHANGED houseVars
  BY <1>8, FormKept DEF BlockNotFetched, subgraphAuctionVars
<1> QED  BY <1>4, <1>5, <1>6, <1>7, <1>8

\* What arrives over the socket keeps the store.
LEMMA SocketKeepsStore ==
  ASSUME HouseTold, StoreInv,
         \/ ReceivesEvent \/ queryFilter \/ Subscribes
         \/ \E i \in fetching : BlockFetched(i) \/ BlockNotFetched(i)
  PROVE  StoreInv'
<1>1. CASE queryFilter
  <2>1. /\ UNCHANGED <<feed, activeAuction, storeBids, received, following>>
        /\ fetching' = BidEvents /\ socket = "query"
    BY <1>1 DEF queryFilter, storeVars, subgraphAuctionVars, houseVars
  <2>2. ~following
    BY <2>1 DEF StoreInv
  <2>3. BidEvents' = BidEvents
    BY <2>1 DEF BidEvents
  <2> QED  BY <2>1, <2>2, <2>3 DEF StoreInv
<1>2. CASE Subscribes
  <2>1. /\ UNCHANGED <<feed, activeAuction, storeBids, fetching, following>>
        /\ received' = Len(feed) /\ socket = "subscribe"
    BY <1>2 DEF Subscribes, storeVars, subgraphAuctionVars, houseVars
  <2>2. ~following
    BY <2>1 DEF StoreInv
  <2>3. BidEvents' = BidEvents
    BY <2>1 DEF BidEvents
  <2>4. received' \in 0 .. Len(feed')
    BY <2>1, StoreFields
  <2> QED  BY <2>1, <2>2, <2>3, <2>4 DEF StoreInv
<1>3. ASSUME NEW i \in fetching, BlockNotFetched(i)
      PROVE  StoreInv'
  <2>1. /\ UNCHANGED <<feed, activeAuction, storeBids, received>>
        /\ fetching' = fetching \ {i} /\ following' = FALSE
    BY <1>3 DEF BlockNotFetched, storeVars, subgraphAuctionVars, houseVars
  <2>2. BidEvents' = BidEvents
    BY <2>1 DEF BidEvents
  <2> QED  BY <2>1, <2>2 DEF StoreInv
<1> QED  BY <1>1, <1>2, <1>3, ReceivingKeepsStore, FetchedKeepsStore

\* Every step keeps the invariant of the page.
LEMMA AuctionPageStep ==
  ASSUME PageInv, [WebappAuctionNext]_webappAuctionVars
  PROVE  PageInv'
<1> USE DEF PageInv
<1>1. ASSUME HouseTold' /\ Continues(feed, feed'), UNCHANGED <<storeVars, socketVars>>, FormInv'
      PROVE  PageInv'
  BY <1>1, EmittingKeepsStore
<1>2. ASSUME UNCHANGED <<houseVars, storeVars, socketVars>>, FormInv'
      PROVE  PageInv'
  BY <1>1, <1>2, HouseStep
<1>3. CASE HouseActs /\ UNCHANGED auctionPageVars
  BY <1>1, <1>3, HouseStep, FormKept DEF auctionPageVars
<1>4. CASE addPastAuctions
  BY <1>2, <1>4, FormKept DEF addPastAuctions, subgraphAuctionVars
<1>5. CASE prevAuctionHandler \/ nextAuctionHandler \/ GoesHome
  <2>1. \E r, id : Navigates(r, id)
    BY <1>5 DEF prevAuctionHandler, nextAuctionHandler, GoesHome
  <2> QED  BY <1>2, <2>1, NavigatingKeepsForm
<1>6. ASSUME NEW r, Loads(r)
      PROVE  PageInv'
  <2>1. /\ activeAuction' = FirstAuction /\ storeBids' = {} /\ received' = 0
        /\ fetching' = {} /\ following' = FALSE /\ FormIsNew /\ UNCHANGED houseVars
    BY <1>6 DEF Loads, subgraphAuctionVars
  <2>2. HouseTold' /\ FormInv'
    BY <2>1, HouseStep, FormKept
  <2>3. FirstAuction \in PageAuctions
    BY WebappAuctionAssumption DEF PageAuctions, PageBidders
  <2>4. received' \in 0 .. Len(feed')
    BY <2>1, <2>2, HouseFields, StoreFields DEF houseVars
  <2> QED  BY <2>1, <2>2, <2>3, <2>4 DEF StoreInv
<1>7. CASE FormActs
  BY <1>2, <1>7, FormActsKeepForm
<1>8. ASSUME NEW tx \in Transactions, BidIsMined(tx)
      PROVE  PageInv'
  <2>1. /\ HouseBid(Visitor, placing.value, tx) /\ placing.value \in Nat
        /\ UNCHANGED <<storeVars, socketVars>>
    BY <1>8 DEF BidIsMined, FormInv
  <2>2. FormInv'
    BY <1>8, RendersAmounts DEF BidIsMined, FormInv
  <2> QED  BY <1>1, <2>1, <2>2, HouseStep
<1>9. CASE \/ ReceivesEvent \/ queryFilter \/ Subscribes
           \/ \E i \in fetching : BlockFetched(i) \/ BlockNotFetched(i)
  <2>1. FormInv' /\ UNCHANGED houseVars
    BY <1>9, SocketKeepsForm
  <2>2. StoreInv'
    BY <1>9, SocketKeepsStore
  <2> QED  BY <2>1, <2>2, HouseStep
<1>10. CASE UNCHANGED webappAuctionVars
  BY <1>2, <1>10, FormKept DEF webappAuctionVars, subgraphAuctionVars, auctionPageVars
<1> QED  BY <1>3, <1>4, <1>5, <1>6, <1>7, <1>8, <1>9, <1>10 DEF WebappAuctionNext, FormActs

\* The page starts in the invariant.
LEMMA AuctionPageStarts ==
  ASSUME SubgraphAuctionInit, WebappAuctionInit
  PROVE  PageInv
<1>1. NoAuction \in PageAuctions /\ NoAuction.nounId = 0
  BY DEF NoAuction, PageAuctions, PageBidders
<1>2. <<>> \in Seq(AuctionEvents) /\ Len(<<>>) = 0 /\ DOMAIN <<>> = {}
  OBVIOUS
<1>3. HouseTold
  BY <1>1, <1>2 DEF SubgraphAuctionInit, HouseTold, HouseTells, InTurn, NoAuction
<1>4. FirstAuction \in PageAuctions
  BY WebappAuctionAssumption DEF PageAuctions, PageBidders
<1>5. StoreInv
  <2>1. /\ feed = <<>> /\ activeAuction = FirstAuction /\ storeBids = {} /\ received = 0
        /\ fetching = {} /\ following = FALSE
    BY DEF SubgraphAuctionInit, WebappAuctionInit
  <2>2. received \in 0 .. Len(feed)
    BY <1>2, <2>1
  <2> QED  BY <1>4, <2>1, <2>2 DEF StoreInv
<1>6. FormInv
  BY DEF WebappAuctionInit, FormInv, NothingPlaced
<1> QED  BY <1>3, <1>5, <1>6 DEF PageInv

\* The same events tell of one auction only.
LEMMA OneAuctionTold ==
  ASSUME NEW events \in Seq(AuctionEvents), NEW n \in Nat,
         NEW a \in PageAuctions, Tells(events, n, a), NEW b \in PageAuctions, Tells(events, n, b)
  PROVE  a.nounId = b.nounId /\ a.endTime = b.endTime /\ a.settled = b.settled
<1>1. /\ a.nounId \in Nat /\ b.nounId \in Nat /\ a.settled \in BOOLEAN /\ b.settled \in BOOLEAN
  BY DEF PageAuctions
<1>2. PICK k \in EndsOf(events, a.nounId) :
        /\ k <= n /\ events[k].endTime = a.endTime
        /\ \A j \in EndsOf(events, a.nounId) : j <= n => j <= k
  BY DEF Tells
<1>3. PICK l \in EndsOf(events, b.nounId) :
        /\ l <= n /\ events[l].endTime = b.endTime
        /\ \A j \in EndsOf(events, b.nounId) : j <= n => j <= l
  BY DEF Tells
<1>4. /\ k \in DOMAIN events /\ events[k].nounId = a.nounId /\ k \in Nat
      /\ l \in DOMAIN events /\ events[l].nounId = b.nounId /\ l \in Nat
  BY <1>2, <1>3, SequenceOfEvents DEF EndsOf
<1>5. a.nounId <= b.nounId /\ b.nounId <= a.nounId
  BY <1>2, <1>3, <1>4 DEF Tells
<1>6. a.nounId = b.nounId
  BY <1>1, <1>5
<1>7. k = l
  BY <1>2, <1>3, <1>4, <1>6
<1> QED  BY <1>1, <1>2, <1>3, <1>6, <1>7 DEF Tells

\* The minimum the form fills in, of the amount the house has.
LEMMA FilledInIsAccepted ==
  ASSUME PageInv, Cent >= LeastBid, FormShown,
         activeAuction.nounId = houseAuction.nounId, houseAuction.nounId # 0,
         lastAuctionNounId = houseAuction.nounId,
         activeAuction.endTime = houseAuction.endTime,
         activeAuction.amount = houseAuction.amount
  PROVE  BidAccepted(Displayed.nounId, minBidEth(computeMinimumNextBid(Displayed.amount)))
<1>1. Displayed.nounId = houseAuction.nounId /\ Displayed.amount = houseAuction.amount
  <2>1. Displayed.nounId = houseAuction.nounId
    BY DEF FormShown, isLastAuction
  <2>2. \A id : pastAuction(id).nounId = id
    BY DEF pastAuction, NoAuction
  <2>3. onDisplayAuctionNounId = activeAuction.nounId
    <3> SUFFICES ASSUME onDisplayAuctionNounId # activeAuction.nounId
                 PROVE  FALSE
      OBVIOUS
    <3>1. Displayed = pastAuction(onDisplayAuctionNounId) \/ Displayed = NoAuction
      BY DEF Displayed, useOnDisplayAuction
    <3>2. NoAuction.nounId = 0
      BY DEF NoAuction
    <3> QED  BY <2>1, <2>2, <3>1, <3>2
  <2>4. Displayed = [activeAuction EXCEPT !.settled = FALSE]
    BY <2>3 DEF Displayed, useOnDisplayAuction
  <2>5. activeAuction \in PageAuctions
    BY DEF PageInv, StoreInv
  <2> QED  BY <2>1, <2>4, <2>5 DEF PageAuctions
<1>2. clock < houseAuction.endTime
  <2>1. clock \in Nat /\ houseAuction.endTime \in Nat
    BY HouseFields DEF PageInv
  <2> QED  BY <2>1 DEF FormShown, auctionEnded
<1> DEFINE amount == houseAuction.amount
           minBid == computeMinimumNextBid(amount)
           filledIn == minBidEth(minBid)
           least == amount + ((amount * Increment) \div 100)
<1>3. minBid \in Nat /\ least <= minBid /\ least \in Nat
  <2>1. amount \in Nat
    BY HouseFields DEF PageInv
  <2>2. (amount * Increment) \div 100 \in Nat
    <3>1. amount * Increment \in Nat
      BY <2>1, WebappAuctionAssumption
    <3> HIDE DEF amount
    <3> QED  BY <3>1, Quotient
  <2> QED  BY <2>1, <2>2, MinimumIsAmount
<1>4. filledIn \in Nat /\ minBid <= filledIn /\ Cent <= filledIn
  <2> HIDE DEF minBid
  <2> QED  BY <1>3, FilledInIsEnough
<1>5. filledIn >= LeastBid /\ filledIn >= least
  <2> HIDE DEF filledIn, minBid, least
  <2> QED  BY <1>3, <1>4, WebappAuctionAssumption
<1> QED  BY <1>1, <1>2, <1>5 DEF BidAccepted

\* In whatever order blocks of bids arrive, and however the house acts meanwhile: a page that
\* lost nothing since the auction started has the auction the house has, and the
\* minimum its form fills in is accepted there.
THEOREM PageAlwaysFollowsAuction == WebappAuctionSpec => []PageFollowsAuction
<1>1. SubgraphAuctionInit /\ WebappAuctionInit => PageInv
  BY AuctionPageStarts
<1>2. PageInv /\ [WebappAuctionNext]_webappAuctionVars => PageInv'
  BY AuctionPageStep
<1>3. PageInv => PageFollowsAuction
  <2> SUFFICES ASSUME PageInv, CaughtUp
               PROVE  PageFollowsAuction
    BY DEF PageFollowsAuction
  <2> DEFINE id == activeAuction.nounId
  <2>1. /\ following /\ received = Len(feed) /\ fetching = {} /\ PageFollowing
        /\ HouseTold /\ StoreInv
    BY DEF CaughtUp, PageInv, StoreInv
  <2>2. /\ feed \in Seq(AuctionEvents) /\ Len(feed) \in Nat /\ DOMAIN feed = 1 .. Len(feed)
        /\ activeAuction \in PageAuctions /\ houseAuction \in PageAuctions
        /\ houseAuction.nounId \in Nat
    BY <2>1, StoreFields, HouseFields
  <2>3. Tells(feed, Len(feed), activeAuction) /\ lastAuctionNounId = id
    BY <2>1 DEF PageFollowing
  <2>4. houseAuction.nounId # 0
    <3>1. feed # <<>>
      BY <2>2, <2>3 DEF Tells, EndsOf
    <3> QED  BY <2>1, <3>1 DEF HouseTold, HouseTells
  <2>5. /\ Tells(feed, Len(feed), houseAuction)
        /\ StandsAt(feed, BidsOf(feed, houseAuction.nounId), houseAuction)
        /\ \A k \in SettlementsOf(feed, houseAuction.nounId) : SoldAs(feed[k], houseAuction)
    BY <2>1, <2>4 DEF HouseTold, HouseTells
  <2>6. /\ id = houseAuction.nounId /\ activeAuction.endTime = houseAuction.endTime
        /\ activeAuction.settled = houseAuction.settled
    BY <2>2, <2>3, <2>5, OneAuctionTold
  <2>7. ASSUME OneBidPerTransaction
        PROVE  /\ activeAuction.amount = houseAuction.amount
               /\ NoBidsTie => activeAuction.bidder = houseAuction.bidder
    <3> DEFINE bids == BidsOf(feed, houseAuction.nounId)
    <3>1. \A i \in bids : /\ i \in BidEvents /\ i <= Len(feed)
                          /\ feed[i].nounId = houseAuction.nounId /\ feed[i].value \in Nat
      BY <2>2, SequenceOfEvents DEF BidsOf, BidEvents
    <3>2. storeBids = bids
      <4>1. storeBids \subseteq bids
        BY <2>1, <2>6 DEF PageFollowing
      <4>2. ASSUME NEW i \in bids
            PROVE  i \in storeBids
        <5>1. PICK j \in storeBids : feed[j].tx = feed[i].tx
          BY <2>1, <2>6, <3>1 DEF PageFollowing, containsBid
        <5>2. i = j
          BY <2>7, <3>1, <4>1, <5>1 DEF OneBidPerTransaction
        <5> QED  BY <5>1, <5>2
      <4> QED  BY <4>1, <4>2
    <3>3. CASE \E k \in SettlementsOf(feed, id) : SoldAs(feed[k], activeAuction)
      BY <2>5, <2>6, <3>3 DEF SoldAs
    <3>4. CASE StandsAt(feed, bids, activeAuction)
      <4>1. StandsAt(feed, bids, houseAuction)
        BY <2>5
      <4> HIDE DEF bids
      <4>2. CASE bids = {}
        BY <3>4, <4>1, <4>2 DEF StandsAt
      <4>3. CASE bids # {}
        <5>1. PICK i \in bids :
                /\ IsHighest(feed, bids, i) /\ activeAuction.amount = feed[i].value
                /\ activeAuction.bidder = feed[i].sender
          BY <3>4, <4>3 DEF StandsAt
        <5>2. PICK j \in bids :
                /\ IsHighest(feed, bids, j) /\ houseAuction.amount = feed[j].value
                /\ houseAuction.bidder = feed[j].sender
          BY <4>1, <4>3 DEF StandsAt
        <5>3. feed[i].value = feed[j].value
          BY <3>1, <5>1, <5>2 DEF IsHighest
        <5>4. NoBidsTie => i = j
          BY <3>1, <5>3 DEF NoBidsTie
        <5> QED  BY <5>1, <5>2, <5>3, <5>4
      <4> QED  BY <4>2, <4>3
    <3> QED  BY <2>1, <3>2, <3>3, <3>4 DEF PageFollowing
  <2>8. ASSUME OneBidPerTransaction, FormShown, Cent >= LeastBid
        PROVE  BidAccepted(Displayed.nounId,
                           minBidEth(computeMinimumNextBid(Displayed.amount)))
    BY <2>3, <2>4, <2>6, <2>7, <2>8, FilledInIsAccepted
  <2> QED  BY <2>3, <2>6, <2>7, <2>8 DEF PageFollowsAuction
<1> QED  BY <1>1, <1>2, <1>3, PTL DEF WebappAuctionSpec

-----------------------------------------------------------------------------
(* The activity feed of a noun: the sort.                                  *)

FeedEntries ==
  [type : {"PROPOSAL_VOTE", "TRANSFER", "DELEGATION"}, block : Nat, of : Nat]

\* The entries sorted before one of them.
SortedBefore(entries, e) == {f \in entries : SortsBefore(f, e)}

\* Of two entries one is sorted before the other, never both, and what is sorted before
\* the earlier one is sorted before the later one.
LEMMA SortIsStrict ==
  ASSUME NEW e \in FeedEntries, NEW f \in FeedEntries
  PROVE  /\ ~(SortsBefore(e, f) /\ SortsBefore(f, e)) /\ ~SortsBefore(e, e)
         /\ e # f => SortsBefore(e, f) \/ SortsBefore(f, e)
         /\ e.block < f.block => SortsBefore(e, f)
         /\ SortsBefore(e, f) => e.block <= f.block
         /\ \A g \in FeedEntries : SortsBefore(e, f) /\ SortsBefore(f, g) => SortsBefore(e, g)
<1> DEFINE Kinds == {"PROPOSAL_VOTE", "TRANSFER", "DELEGATION"}
<1>1. \A g \in FeedEntries :
        /\ g.type \in Kinds /\ g.block \in Nat /\ g.of \in Nat
        /\ g = [type |-> g.type, block |-> g.block, of |-> g.of]
  BY DEF FeedEntries
<1>2. /\ \A t \in Kinds : Listed[t] \in Nat
      /\ \A t, u \in Kinds : t # u => Listed[t] # Listed[u]
  BY DEF Listed
<1>3. /\ ~(SortsBefore(e, f) /\ SortsBefore(f, e)) /\ ~SortsBefore(e, e)
      /\ e.block < f.block => SortsBefore(e, f)
      /\ SortsBefore(e, f) => e.block <= f.block
  BY <1>1, <1>2 DEF SortsBefore
<1>4. ASSUME e # f
      PROVE  SortsBefore(e, f) \/ SortsBefore(f, e)
  <2>1. e.type # f.type \/ e.block # f.block \/ e.of # f.of
    BY <1>1, <1>4
  <2> QED
    BY <1>1, <1>2, <2>1 DEF SortsBefore
<1>5. ASSUME NEW g \in FeedEntries, SortsBefore(e, f), SortsBefore(f, g)
      PROVE  SortsBefore(e, g)
  BY <1>1, <1>2, <1>5 DEF SortsBefore
<1> QED
  BY <1>3, <1>4, <1>5

\* The places of the entries are the numbers up to how many there are.
LEMMA EachHasAPlace ==
  ASSUME NEW entries, IsFiniteSet(entries), entries \subseteq FeedEntries
  PROVE  /\ \A e \in entries :
              /\ IsFiniteSet(SortedBefore(entries, e))
              /\ Cardinality(SortedBefore(entries, e)) + 1 \in 1..Cardinality(entries)
         /\ \A n \in 1..Cardinality(entries) :
              \E e \in entries : Cardinality(SortedBefore(entries, e)) + 1 = n
         /\ \A e, f \in entries :
              SortsBefore(e, f) => Cardinality(SortedBefore(entries, e))
                                     < Cardinality(SortedBefore(entries, f))
<1> DEFINE N == Cardinality(entries)
           place == [e \in entries |-> Cardinality(SortedBefore(entries, e)) + 1]
<1>1. N \in Nat
  BY FS_CardinalityType
<1>2. ASSUME NEW e \in entries
      PROVE  /\ IsFiniteSet(SortedBefore(entries, e))
             /\ Cardinality(SortedBefore(entries, e)) \in Nat
             /\ Cardinality(SortedBefore(entries, e)) + 1 \in 1..N
  <2>1. SortedBefore(entries, e) \in SUBSET (entries \ {e})
    BY SortIsStrict DEF SortedBefore
  <2>2. IsFiniteSet(entries \ {e}) /\ Cardinality(entries \ {e}) = N - 1
    BY FS_RemoveElement
  <2>3. /\ IsFiniteSet(SortedBefore(entries, e))
        /\ Cardinality(SortedBefore(entries, e)) <= N - 1
    BY <2>1, <2>2, FS_Subset
  <2>4. Cardinality(SortedBefore(entries, e)) \in Nat
    BY <2>3, FS_CardinalityType
  <2> QED
    BY <1>1, <2>3, <2>4
<1>3. ASSUME NEW e \in entries, NEW f \in entries, SortsBefore(e, f)
      PROVE  Cardinality(SortedBefore(entries, e)) < Cardinality(SortedBefore(entries, f))
  <2>1. SortedBefore(entries, e) \subseteq SortedBefore(entries, f)
    <3>1. ASSUME NEW g \in SortedBefore(entries, e)
          PROVE  g \in SortedBefore(entries, f)
      <4>1. g \in entries /\ g \in FeedEntries /\ SortsBefore(g, e)
        BY DEF SortedBefore
      <4>2. SortsBefore(g, f)
        BY <1>3, <4>1, SortIsStrict
      <4> QED
        BY <4>1, <4>2 DEF SortedBefore
    <3> QED
      BY <3>1
  <2>2. e \in SortedBefore(entries, f) /\ e \notin SortedBefore(entries, e)
    BY <1>3, SortIsStrict DEF SortedBefore
  <2>3. /\ Cardinality(SortedBefore(entries, e)) <= Cardinality(SortedBefore(entries, f))
        /\ Cardinality(SortedBefore(entries, e)) # Cardinality(SortedBefore(entries, f))
    BY <1>2, <2>1, <2>2, FS_Subset
  <2> QED
    BY <1>2, <2>3
<1>4. place \in Injection(entries, 1..N)
  <2>1. place \in [entries -> 1..N]
    BY <1>2
  <2>2. ASSUME NEW e \in entries, NEW f \in entries, place[e] = place[f]
        PROVE  e = f
    <3>1. Cardinality(SortedBefore(entries, e)) = Cardinality(SortedBefore(entries, f))
      BY <1>2, <2>2
    <3>2. ~SortsBefore(e, f) /\ ~SortsBefore(f, e)
      BY <1>2, <1>3, <3>1
    <3> QED
      BY <3>2, SortIsStrict
  <2> QED
    BY <2>1, <2>2 DEF Injection, IsInjective
<1>5. IsFiniteSet(1..N) /\ Cardinality(1..N) = N
  BY <1>1, FS_Interval
<1>6. place \in Surjection(entries, 1..N)
  BY <1>4, <1>5, FS_Injection
<1>7. \A n \in 1..N : \E e \in entries : place[e] = n
  BY <1>6 DEF Surjection
<1> QED
  BY <1>2, <1>3, <1>7

\* ByBlock lists every entry once, in order.
LEMMA SortedByBlock ==
  ASSUME NEW entries, IsFiniteSet(entries), entries \subseteq FeedEntries
  PROVE  /\ ByBlock(entries) \in [1..Cardinality(entries) -> entries]
         /\ \A n \in 1..Cardinality(entries) :
              Cardinality(SortedBefore(entries, ByBlock(entries)[n])) + 1 = n
         /\ \A e \in entries : \E n \in 1..Cardinality(entries) : ByBlock(entries)[n] = e
         /\ \A m, n \in 1..Cardinality(entries) :
              m < n => SortsBefore(ByBlock(entries)[m], ByBlock(entries)[n])
<1> DEFINE N == Cardinality(entries)
           place == [e \in entries |-> Cardinality(SortedBefore(entries, e)) + 1]
           sorted == ByBlock(entries)
<1>1. N \in Nat
  BY FS_CardinalityType
<1>2. sorted = [n \in 1..N |-> CHOOSE e \in entries : place[e] = n]
  BY DEF ByBlock, SortedBefore
<1>3. ASSUME NEW n \in 1..N
      PROVE  sorted[n] \in entries /\ Cardinality(SortedBefore(entries, sorted[n])) + 1 = n
  <2>1. \E e \in entries : place[e] = n
    BY EachHasAPlace
  <2>2. sorted[n] = CHOOSE e \in entries : place[e] = n
    BY <1>2
  <2>3. sorted[n] \in entries /\ place[sorted[n]] = n
    BY <2>1, <2>2
  <2> QED
    BY <2>3
<1>4. ASSUME NEW m \in 1..N, NEW n \in 1..N, m < n
      PROVE  SortsBefore(sorted[m], sorted[n])
  <2> DEFINE e == sorted[m]
             f == sorted[n]
  <2>1. /\ e \in entries /\ f \in entries
        /\ Cardinality(SortedBefore(entries, e)) + 1 = m
        /\ Cardinality(SortedBefore(entries, f)) + 1 = n
    BY <1>3
  <2>2. /\ Cardinality(SortedBefore(entries, e)) \in Nat
        /\ Cardinality(SortedBefore(entries, f)) \in Nat
    BY <2>1, EachHasAPlace, FS_CardinalityType
  <2> HIDE DEF e, f
  <2>3. Cardinality(SortedBefore(entries, e)) < Cardinality(SortedBefore(entries, f))
    BY <1>4, <2>1, <2>2
  <2>4. e # f
    BY <2>2, <2>3
  <2>5. ~SortsBefore(f, e)
    <3>1. SUFFICES ASSUME SortsBefore(f, e)
                   PROVE  FALSE
      OBVIOUS
    <3>2. Cardinality(SortedBefore(entries, f)) < Cardinality(SortedBefore(entries, e))
      BY <2>1, <3>1, EachHasAPlace
    <3> QED
      BY <2>2, <2>3, <3>2
  <2>6. SortsBefore(e, f)
    BY <2>1, <2>4, <2>5, SortIsStrict
  <2> QED
    BY <2>6 DEF e, f
<1>5. ASSUME NEW e \in entries
      PROVE  \E n \in 1..N : sorted[n] = e
  <2> DEFINE n == Cardinality(SortedBefore(entries, e)) + 1
  <2>1. n \in 1..N
    BY EachHasAPlace
  <2> DEFINE f == sorted[n]
  <2>2. f \in entries /\ Cardinality(SortedBefore(entries, f)) + 1 = n
    BY <1>3, <2>1
  <2>3. /\ Cardinality(SortedBefore(entries, e)) \in Nat
        /\ Cardinality(SortedBefore(entries, f)) \in Nat
    BY <2>2, EachHasAPlace, FS_CardinalityType
  <2>4. ~SortsBefore(e, f) /\ ~SortsBefore(f, e)
    BY <2>2, <2>3, EachHasAPlace
  <2>5. f = e
    BY <2>2, <2>4, SortIsStrict
  <2> QED
    BY <2>1, <2>5
<1>6. sorted \in [1..N -> entries]
  BY <1>2, <1>3
<1> QED
  BY <1>3, <1>4, <1>5, <1>6

\* Entries older than all others are the first of the sorted ones.
LEMMA OlderFirst ==
  ASSUME NEW entries, IsFiniteSet(entries), entries \subseteq FeedEntries,
         NEW past, past \subseteq entries,
         \A e \in past, f \in entries \ past : e.block < f.block
  PROVE  \A n \in 1..Cardinality(entries) :
           ByBlock(entries)[n] \in past <=> n <= Cardinality(past)
<1>1. IsFiniteSet(past) /\ Cardinality(past) \in Nat
  BY FS_Subset, FS_CardinalityType
<1>2. TAKE n \in 1..Cardinality(entries)
<1> DEFINE e == ByBlock(entries)[n]
<1>3. e \in entries /\ Cardinality(SortedBefore(entries, e)) + 1 = n
  BY SortedByBlock
<1> HIDE DEF e
<1>4. IsFiniteSet(SortedBefore(entries, e)) /\ Cardinality(SortedBefore(entries, e)) \in Nat
  BY <1>3, EachHasAPlace, FS_CardinalityType
<1>5. CASE e \in past
  <2>1. SortedBefore(entries, e) \in SUBSET (past \ {e})
    <3>1. ASSUME NEW f \in SortedBefore(entries, e)
          PROVE  f \in past \ {e}
      <4>1. f \in entries /\ SortsBefore(f, e) /\ f \in FeedEntries /\ e \in FeedEntries
        BY <1>3 DEF SortedBefore
      <4>2. f # e /\ f.block <= e.block
        BY <4>1, SortIsStrict
      <4>3. ~(e.block < f.block)
        BY <4>1, <4>2 DEF FeedEntries
      <4> QED
        BY <1>5, <4>1, <4>2, <4>3
    <3> QED
      BY <3>1
  <2>2. IsFiniteSet(past \ {e}) /\ Cardinality(past \ {e}) = Cardinality(past) - 1
    BY <1>1, <1>5, FS_RemoveElement
  <2>3. Cardinality(SortedBefore(entries, e)) <= Cardinality(past) - 1
    BY <2>1, <2>2, FS_Subset
  <2> QED
    BY <1>1, <1>3, <1>4, <1>5, <2>3 DEF e
<1>6. CASE e \notin past
  <2>1. past \in SUBSET SortedBefore(entries, e)
    <3>1. ASSUME NEW f \in past
          PROVE  SortsBefore(f, e)
      BY <1>3, <1>6, SortIsStrict
    <3> QED
      BY <3>1 DEF SortedBefore
  <2>2. Cardinality(past) <= Cardinality(SortedBefore(entries, e))
    BY <1>4, <2>1, FS_Subset
  <2> QED
    BY <1>1, <1>3, <1>4, <1>6, <2>2 DEF e
<1> QED
  BY <1>5, <1>6

-----------------------------------------------------------------------------
(* The activity feed of a noun: what the chain and the index hold.         *)

FeedHolders == FeedAccounts \cup {FeedHouse, FeedNounders, NoWinner}

FeedProposalRecords ==
  [created : Nat, endBlock : Nat, voted : BOOLEAN, cancelled : BOOLEAN]

FeedTypeOK ==
  /\ feedBlock \in Nat \ {0} /\ nextAuction \in Nat /\ knowsNext \in BOOLEAN
  /\ noun \in [id : Nat, holder : FeedHolders, wonIn : Nat, winner : FeedHolders]
  /\ feedProposals \in Seq(FeedProposalRecords)
  /\ delegationEvents \in Seq([block : Nat]) /\ delegationEvents # <<>>
  /\ DOMAIN transferEvents \subseteq DOMAIN delegationEvents
  /\ DOMAIN nounVotes \subseteq DOMAIN feedProposals

\* The transactions that brought the noun to its winner.
FeedPast == IF IsReward THEN {1} ELSE {1, 2}

\* The block of the last of them.
WonIn == IF IsReward THEN 1 ELSE noun.wonIn

\* A transaction is logged in its block, whatever is logged of it.
LogsAreDated ==
  /\ \A tx \in DOMAIN transferEvents : transferEvents[tx].block = delegationEvents[tx].block
  /\ \A tx \in DOMAIN delegationEvents :
       1 <= delegationEvents[tx].block /\ delegationEvents[tx].block <= feedBlock

\* Until the auction is settled nothing follows the mint; after that the log begins with
\* the transactions that brought the noun to its winner, and nothing precedes them.
WinIsLogged ==
  /\ OnAuction => delegationEvents = <<[block |-> 1]>> /\ nextAuction = FeedNever
                    /\ noun.holder = FeedHouse
  /\ 1 \in DOMAIN transferEvents /\ delegationEvents[1].block = 1
  /\ IsReward => nextAuction = 1 /\ transferEvents[1].to = noun.winner
  /\ ~IsReward /\ ~OnAuction =>
       /\ 2 \in DOMAIN transferEvents /\ transferEvents[2].to = noun.winner
       /\ delegationEvents[2].block = noun.wonIn /\ 1 < noun.wonIn
       /\ \A tx \in DOMAIN delegationEvents \ {1} : noun.wonIn <= delegationEvents[tx].block
       /\ nextAuction # FeedNever => noun.wonIn <= nextAuction

\* A proposal is voted on, or dated, well after its creation.
VotesAreDated ==
  /\ \A p \in DOMAIN feedProposals : feedProposals[p].endBlock = feedProposals[p].created + 3
  /\ \A p \in DOMAIN nounVotes :
       nounVotes[p].block \in Nat /\ nounVotes[p].block > feedProposals[p].created + 1

FeedInv ==
  /\ FeedTypeOK /\ LogsAreDated /\ WinIsLogged /\ VotesAreDated
  /\ knowsNext => nextAuction # FeedNever

\* It holds at the start.
LEMMA FeedInitInv ==
  ASSUME FeedInit
  PROVE  FeedInv
<1>1. PICK id \in FeedNouns :
        LET first == IF MintedForReward(id) THEN FeedNounders ELSE FeedHouse
        IN /\ noun = [id |-> id, holder |-> first, wonIn |-> FeedNever,
                      winner |-> IF MintedForReward(id) THEN FeedNounders ELSE NoWinner]
           /\ transferEvents = [tx \in {1} |-> [block |-> 1, from |-> "owner", to |-> first]]
           /\ nextAuction = IF MintedForReward(id) THEN 1 ELSE FeedNever
  BY DEF FeedInit
<1>2. /\ feedBlock = 1 /\ delegationEvents = <<[block |-> 1]>> /\ feedProposals = <<>>
      /\ nounVotes = [p \in {} |-> [block |-> 0]] /\ knowsNext = FALSE
  BY DEF FeedInit
<1>3. DOMAIN transferEvents = {1} /\ DOMAIN delegationEvents = {1} /\ DOMAIN nounVotes = {}
      /\ transferEvents[1].block = 1
  BY <1>1, <1>2
<1>4. FeedTypeOK
  <2>1. noun \in [id : Nat, holder : FeedHolders, wonIn : Nat,
                  winner : FeedHolders]
    BY <1>1, FeedAssumption DEF FeedHolders, FeedNever
  <2>2. nextAuction \in Nat
    BY <1>1 DEF FeedNever
  <2>3. delegationEvents \in Seq([block : Nat]) /\ delegationEvents # <<>>
    BY <1>2
  <2>4. feedProposals \in Seq(FeedProposalRecords)
    BY <1>2
  <2>5. DOMAIN transferEvents \subseteq DOMAIN delegationEvents
        /\ DOMAIN nounVotes \subseteq DOMAIN feedProposals
    BY <1>3
  <2>6. knowsNext \in BOOLEAN
    BY <1>2
  <2>7. feedBlock \in Nat \ {0}
    BY <1>2
  <2> QED
    BY <2>1, <2>2, <2>3, <2>4, <2>5, <2>6, <2>7, Zenon DEF FeedTypeOK
<1>5. LogsAreDated
  BY <1>2, <1>3 DEF LogsAreDated
<1>6. WinIsLogged
  BY <1>1, <1>2, <1>3 DEF WinIsLogged, OnAuction, IsReward, FeedNever
<1>7. VotesAreDated
  BY <1>2, <1>3 DEF VotesAreDated
<1> QED
  BY <1>2, <1>4, <1>5, <1>6, <1>7 DEF FeedInv

\* The transaction of this block comes after those logged.
LEMMA TransactionLogged ==
  ASSUME FeedTypeOK, LogsAreDated,
         delegationEvents' = Append(delegationEvents, ChangedDelegate), UNCHANGED feedBlock
  PROVE  /\ delegationEvents' \in Seq([block : Nat]) /\ delegationEvents' # <<>>
         /\ FeedTx \in Nat /\ FeedTx > 1 /\ FeedTx \notin DOMAIN delegationEvents
         /\ DOMAIN delegationEvents' = DOMAIN delegationEvents \cup {FeedTx}
         /\ delegationEvents'[FeedTx].block = feedBlock
         /\ \A tx \in DOMAIN delegationEvents : delegationEvents'[tx] = delegationEvents[tx]
         /\ \A tx \in DOMAIN delegationEvents' :
              1 <= delegationEvents'[tx].block /\ delegationEvents'[tx].block <= feedBlock'
<1>1. delegationEvents \in Seq([block : Nat]) /\ delegationEvents # <<>> /\ feedBlock \in Nat \ {0}
  BY DEF FeedTypeOK
<1>2. [block |-> feedBlock] \in [block : Nat]
  BY <1>1
<1>3. /\ delegationEvents' \in Seq([block : Nat])
      /\ Len(delegationEvents') = Len(delegationEvents) + 1
      /\ delegationEvents'[Len(delegationEvents) + 1] = [block |-> feedBlock]
      /\ \A tx \in 1..Len(delegationEvents) : delegationEvents'[tx] = delegationEvents[tx]
  BY <1>1, <1>2 DEF ChangedDelegate
<1>4. /\ DOMAIN delegationEvents = 1..Len(delegationEvents) /\ Len(delegationEvents) \in Nat
      /\ Len(delegationEvents) > 0 /\ DOMAIN delegationEvents' = 1..Len(delegationEvents')
  BY <1>1, <1>3
<1>5. /\ FeedTx \in Nat /\ FeedTx > 1 /\ FeedTx \notin DOMAIN delegationEvents
      /\ DOMAIN delegationEvents' = DOMAIN delegationEvents \cup {FeedTx}
      /\ delegationEvents'[FeedTx].block = feedBlock
      /\ \A tx \in DOMAIN delegationEvents : delegationEvents'[tx] = delegationEvents[tx]
  BY <1>3, <1>4 DEF FeedTx
<1>6. \A tx \in DOMAIN delegationEvents' :
        1 <= delegationEvents'[tx].block /\ delegationEvents'[tx].block <= feedBlock'
  BY <1>1, <1>5 DEF LogsAreDated
<1>7. delegationEvents' # <<>>
  BY <1>3, <1>4
<1> QED
  BY <1>3, <1>5, <1>6, <1>7

\* The same, of a transaction that moves the noun.
LEMMA TransferLogged ==
  ASSUME FeedTypeOK, LogsAreDated, NEW to, LogsTransfer(to), UNCHANGED feedBlock
  PROVE  /\ DOMAIN transferEvents' = DOMAIN transferEvents \cup {FeedTx}
         /\ transferEvents'[FeedTx].to = to
         /\ \A tx \in DOMAIN transferEvents : transferEvents'[tx] = transferEvents[tx]
         /\ DOMAIN transferEvents' \subseteq DOMAIN delegationEvents'
         /\ LogsAreDated'
<1>1. /\ DOMAIN transferEvents \subseteq DOMAIN delegationEvents
      /\ transferEvents' = LogUnder(transferEvents, FeedTx, FeedMoved(noun.holder, to))
      /\ delegationEvents' = Append(delegationEvents, ChangedDelegate)
  BY DEF FeedTypeOK, LogsTransfer
<1>2. /\ DOMAIN transferEvents' = DOMAIN transferEvents \cup {FeedTx}
      /\ transferEvents'[FeedTx] = FeedMoved(noun.holder, to)
      /\ \A tx \in DOMAIN transferEvents : transferEvents'[tx] = transferEvents[tx]
  <2>1. /\ DOMAIN LogUnder(transferEvents, FeedTx, FeedMoved(noun.holder, to))
             = DOMAIN transferEvents \cup {FeedTx}
        /\ LogUnder(transferEvents, FeedTx, FeedMoved(noun.holder, to))[FeedTx]
             = FeedMoved(noun.holder, to)
        /\ \A tx \in DOMAIN transferEvents : tx # FeedTx =>
             LogUnder(transferEvents, FeedTx, FeedMoved(noun.holder, to))[tx]
               = transferEvents[tx]
    BY DEF LogUnder
  <2>2. FeedTx \notin DOMAIN delegationEvents
    BY <1>1, TransactionLogged
  <2> QED
    BY <1>1, <2>1, <2>2
<1>3. transferEvents'[FeedTx].to = to /\ transferEvents'[FeedTx].block = feedBlock
  BY <1>2 DEF FeedMoved
<1>4. LogsAreDated'
  BY <1>1, <1>2, <1>3, TransactionLogged DEF LogsAreDated
<1> QED
  BY <1>1, <1>2, <1>3, <1>4, TransactionLogged

\* The invariant relates the noun and the logs, and apart from them the proposals and
\* their votes.
LEMMA FeedPartsKept ==
  ASSUME FeedInv, UNCHANGED <<noun, transferEvents, delegationEvents, nextAuction>>,
         feedBlock' \in Nat, feedBlock <= feedBlock'
  PROVE  LogsAreDated' /\ WinIsLogged'
<1>1. feedBlock \in Nat /\ \A tx \in DOMAIN delegationEvents : delegationEvents[tx].block \in Nat
  <2>1. delegationEvents \in Seq([block : Nat]) /\ feedBlock \in Nat
    BY DEF FeedInv, FeedTypeOK
  <2>2. DOMAIN delegationEvents = 1..Len(delegationEvents)
    BY <2>1
  <2>3. \A tx \in 1..Len(delegationEvents) : delegationEvents[tx] \in [block : Nat]
    BY <2>1, ElementOfSeq
  <2> QED
    BY <2>1, <2>2, <2>3
<1>2. LogsAreDated'
  BY <1>1 DEF FeedInv, LogsAreDated
<1>3. WinIsLogged'
  BY DEF FeedInv, WinIsLogged, OnAuction, IsReward
<1> QED
  BY <1>2, <1>3

\* The same of proposals and votes.
LEMMA FeedVotesKept ==
  ASSUME FeedInv, UNCHANGED <<feedProposals, nounVotes>>
  PROVE  VotesAreDated'
BY DEF FeedInv, VotesAreDated

\* A block passes.
LEMMA BlockEndsKeepsFeed ==
  ASSUME FeedInv, FeedBlockEnds
  PROVE  FeedInv'
<1>1. /\ feedBlock \in Nat \ {0} /\ feedBlock' = feedBlock + 1
      /\ UNCHANGED <<noun, nextAuction, feedProposals, transferEvents, delegationEvents,
                     nounVotes, knowsNext>>
  BY DEF FeedBlockEnds, FeedInv, FeedTypeOK
<1>2. feedBlock' \in Nat \ {0} /\ feedBlock <= feedBlock'
  BY <1>1
<1>3. LogsAreDated' /\ WinIsLogged'
  BY <1>1, <1>2, FeedPartsKept
<1>4. VotesAreDated'
  BY <1>1, FeedVotesKept
<1>5. FeedTypeOK'
  BY <1>1, <1>2 DEF FeedInv, FeedTypeOK
<1> QED
  BY <1>1, <1>3, <1>4, <1>5 DEF FeedInv

\* The noun is won: its second transaction is logged.
LEMMA SettlesKeepsFeed ==
  ASSUME FeedInv, NEW winner \in FeedAccounts, NEW paused \in BOOLEAN,
         FeedSettles(winner, paused)
  PROVE  FeedInv'
<1>1. /\ FeedTypeOK /\ LogsAreDated /\ WinIsLogged /\ OnAuction /\ feedBlock > 1
      /\ LogsTransfer(winner)
      /\ noun' = [noun EXCEPT !.holder = winner, !.winner = winner, !.wonIn = feedBlock]
      /\ nextAuction' = IF paused THEN FeedNever ELSE feedBlock
      /\ UNCHANGED <<feedBlock, feedProposals, nounVotes, knowsNext>>
  BY DEF FeedInv, FeedSettles
<1>2. /\ noun \in [id : Nat, holder : FeedHolders, wonIn : Nat,
                   winner : FeedHolders]
      /\ feedBlock \in Nat \ {0}
  BY <1>1 DEF FeedTypeOK
<1>3. /\ noun' \in [id : Nat, holder : FeedHolders, wonIn : Nat,
                    winner : FeedHolders]
      /\ noun'.id = noun.id /\ noun'.wonIn = feedBlock
      /\ noun'.winner = winner
  BY <1>1, <1>2 DEF FeedHolders
<1>4. delegationEvents = <<[block |-> 1]>> /\ nextAuction = FeedNever /\ 1 \in DOMAIN transferEvents
  BY <1>1 DEF WinIsLogged
<1>5. DOMAIN delegationEvents = {1} /\ FeedTx = 2 /\ delegationEvents[1].block = 1
  BY <1>4 DEF FeedTx
<1>6. delegationEvents' = Append(delegationEvents, ChangedDelegate)
  BY <1>1 DEF LogsTransfer
<1>7. /\ delegationEvents' \in Seq([block : Nat]) /\ delegationEvents' # <<>>
      /\ DOMAIN delegationEvents' = {1, 2} /\ delegationEvents'[2].block = feedBlock
      /\ delegationEvents'[1] = delegationEvents[1]
  BY <1>1, <1>5, <1>6, TransactionLogged
<1>8. /\ DOMAIN transferEvents' = DOMAIN transferEvents \cup {2}
      /\ transferEvents'[2].to = winner
      /\ DOMAIN transferEvents' \subseteq DOMAIN delegationEvents'
      /\ LogsAreDated'
  BY <1>1, <1>5, TransferLogged
<1>9. nextAuction' \in Nat /\ ~OnAuction' /\ ~IsReward'
  <2>1. nextAuction' \in Nat
    BY <1>1, <1>2 DEF FeedNever
  <2>2. ~IsReward /\ noun'.wonIn # FeedNever
    BY <1>1, <1>2, <1>3 DEF OnAuction, FeedNever
  <2>3. ~IsReward'
    BY <1>3, <2>2 DEF IsReward
  <2> QED
    BY <2>1, <2>2, <2>3 DEF OnAuction
<1>10. FeedTypeOK'
  BY <1>1, <1>2, <1>3, <1>7, <1>8, <1>9 DEF FeedTypeOK
<1>11. WinIsLogged'
  BY <1>1, <1>2, <1>3, <1>4, <1>5, <1>7, <1>8, <1>9 DEF WinIsLogged, FeedNever
<1>12. VotesAreDated'
  BY <1>1, FeedVotesKept
<1>13. ~knowsNext'
  BY <1>1, <1>4 DEF FeedInv
<1> QED
  BY <1>8, <1>10, <1>11, <1>12, <1>13 DEF FeedInv

\* The next auction begins later.
LEMMA UnpausesKeepsFeed ==
  ASSUME FeedInv, FeedUnpauses
  PROVE  FeedInv'
<1>1. /\ FeedTypeOK /\ LogsAreDated /\ WinIsLogged
      /\ ~OnAuction /\ nextAuction = FeedNever /\ nextAuction' = feedBlock
      /\ UNCHANGED <<feedBlock, noun, feedProposals, transferEvents, delegationEvents, nounVotes,
                     knowsNext>>
  BY DEF FeedInv, FeedUnpauses
<1>2. feedBlock \in Nat \ {0}
  BY <1>1 DEF FeedTypeOK
<1>3. FeedTypeOK' /\ LogsAreDated'
  BY <1>1, <1>2 DEF FeedTypeOK, LogsAreDated
<1>4. ~IsReward => noun.wonIn <= feedBlock
  <2>1. ~IsReward =>
          2 \in DOMAIN delegationEvents /\ delegationEvents[2].block = noun.wonIn
    BY <1>1 DEF WinIsLogged, FeedTypeOK
  <2> QED
    BY <1>1, <2>1 DEF LogsAreDated
<1>5. ~IsReward
  BY <1>1 DEF WinIsLogged, FeedNever
<1>6. WinIsLogged'
  BY <1>1, <1>4, <1>5 DEF WinIsLogged, OnAuction, IsReward
<1>7. VotesAreDated'
  BY <1>1, FeedVotesKept
<1>8. nextAuction' # FeedNever
  BY <1>1, <1>2 DEF FeedNever
<1> QED
  BY <1>3, <1>6, <1>7, <1>8 DEF FeedInv

\* A transaction of the noun after it was won.
LEMMA LaterTransactionKeepsFeed ==
  ASSUME FeedInv, noun.holder # FeedHouse,
         delegationEvents' = Append(delegationEvents, ChangedDelegate),
         DOMAIN transferEvents' \subseteq DOMAIN transferEvents \cup {FeedTx},
         DOMAIN transferEvents \subseteq DOMAIN transferEvents',
         \A tx \in DOMAIN transferEvents : transferEvents'[tx] = transferEvents[tx],
         LogsAreDated',
         noun' \in [id : Nat, holder : FeedHolders, wonIn : Nat,
                    winner : FeedHolders],
         noun'.id = noun.id, noun'.wonIn = noun.wonIn,
         noun'.winner = noun.winner,
         UNCHANGED <<feedBlock, nextAuction, feedProposals, nounVotes, knowsNext>>
  PROVE  FeedInv'
<1>1. FeedTypeOK /\ LogsAreDated /\ WinIsLogged /\ ~OnAuction
  BY DEF FeedInv, WinIsLogged
<1>2. /\ delegationEvents' \in Seq([block : Nat]) /\ delegationEvents' # <<>>
      /\ FeedTx \in Nat /\ FeedTx > 1 /\ FeedTx \notin DOMAIN delegationEvents
      /\ DOMAIN delegationEvents' = DOMAIN delegationEvents \cup {FeedTx}
      /\ delegationEvents'[FeedTx].block = feedBlock
      /\ \A tx \in DOMAIN delegationEvents : delegationEvents'[tx] = delegationEvents[tx]
  BY <1>1, TransactionLogged
<1>3. /\ DOMAIN transferEvents \subseteq DOMAIN delegationEvents
      /\ DOMAIN transferEvents' \subseteq DOMAIN delegationEvents'
  BY <1>1, <1>2 DEF FeedTypeOK
<1>4. FeedTypeOK'
  BY <1>1, <1>2, <1>3 DEF FeedTypeOK
<1>5. ~OnAuction' /\ IsReward' = IsReward
  BY <1>1 DEF OnAuction, IsReward
<1>6. 1 \in DOMAIN transferEvents' /\ transferEvents'[1] = transferEvents[1]
      /\ delegationEvents'[1] = delegationEvents[1]
  BY <1>1, <1>2, <1>3 DEF WinIsLogged
<1>7. ASSUME ~IsReward
      PROVE  /\ 2 \in DOMAIN transferEvents' /\ transferEvents'[2] = transferEvents[2]
             /\ delegationEvents'[2] = delegationEvents[2]
             /\ \A tx \in DOMAIN delegationEvents' \ {1} :
                  noun.wonIn <= delegationEvents'[tx].block
  <2>1. 2 \in DOMAIN transferEvents /\ 2 \in DOMAIN delegationEvents
        /\ delegationEvents[2].block = noun.wonIn
        /\ \A tx \in DOMAIN delegationEvents \ {1} : noun.wonIn <= delegationEvents[tx].block
    BY <1>1, <1>3, <1>7 DEF WinIsLogged
  <2>2. noun.wonIn <= feedBlock
    BY <1>1, <2>1 DEF LogsAreDated
  <2> QED
    BY <1>2, <2>1, <2>2
<1>8. WinIsLogged'
  BY <1>1, <1>5, <1>6, <1>7 DEF WinIsLogged
<1>9. VotesAreDated'
  BY FeedVotesKept
<1> QED
  BY <1>4, <1>8, <1>9 DEF FeedInv

\* The noun is sent on.
LEMMA SendsKeepsFeed ==
  ASSUME FeedInv, NEW to \in FeedAccounts, FeedSends(to)
  PROVE  FeedInv'
<1>1. /\ FeedTypeOK /\ LogsAreDated
      /\ noun.holder # FeedHouse
      /\ LogsTransfer(to) /\ noun' = [noun EXCEPT !.holder = to]
      /\ UNCHANGED <<feedBlock, nextAuction, feedProposals, nounVotes, knowsNext>>
  BY DEF FeedSends, FeedInv
<1>2. noun \in [id : Nat, holder : FeedHolders, wonIn : Nat, winner : FeedHolders]
  BY <1>1 DEF FeedTypeOK
<1>3. /\ noun' \in [id : Nat, holder : FeedHolders, wonIn : Nat,
                    winner : FeedHolders]
      /\ noun'.id = noun.id /\ noun'.wonIn = noun.wonIn
      /\ noun'.winner = noun.winner
  BY <1>1, <1>2 DEF FeedHolders
<1>4. delegationEvents' = Append(delegationEvents, ChangedDelegate)
  BY <1>1 DEF LogsTransfer
<1>5. /\ DOMAIN transferEvents' = DOMAIN transferEvents \cup {FeedTx} /\ LogsAreDated'
      /\ \A tx \in DOMAIN transferEvents : transferEvents'[tx] = transferEvents[tx]
  BY <1>1, TransferLogged
<1> QED
  BY <1>1, <1>3, <1>4, <1>5, LaterTransactionKeepsFeed

\* Its holder delegates.
LEMMA DelegatesKeepsFeed ==
  ASSUME FeedInv, FeedDelegates
  PROVE  FeedInv'
<1>1. /\ FeedTypeOK /\ LogsAreDated /\ noun.holder # FeedHouse
      /\ delegationEvents' = Append(delegationEvents, ChangedDelegate)
      /\ UNCHANGED <<transferEvents, feedBlock, noun, nextAuction, feedProposals, nounVotes,
                     knowsNext>>
  BY DEF FeedDelegates, LogsDelegation, FeedInv
<1>2. noun' \in [id : Nat, holder : FeedHolders, wonIn : Nat, winner : FeedHolders]
      /\ DOMAIN transferEvents \subseteq DOMAIN delegationEvents
  BY <1>1 DEF FeedTypeOK
<1>3. LogsAreDated'
  BY <1>1, <1>2, TransactionLogged DEF LogsAreDated
<1> QED
  BY <1>1, <1>2, <1>3, LaterTransactionKeepsFeed

\* A step of the governor leaves the noun and its logs as they are.
LEMMA ProposalsKeepFeed ==
  ASSUME FeedInv, feedProposals' \in Seq(FeedProposalRecords),
         DOMAIN nounVotes' \subseteq DOMAIN feedProposals', VotesAreDated',
         UNCHANGED <<feedBlock, noun, nextAuction, transferEvents, delegationEvents, knowsNext>>
  PROVE  FeedInv'
<1>1. feedBlock \in Nat /\ feedBlock <= feedBlock' /\ feedBlock' \in Nat
  BY DEF FeedInv, FeedTypeOK
<1>2. LogsAreDated' /\ WinIsLogged'
  BY <1>1, FeedPartsKept
<1>3. FeedTypeOK'
  BY DEF FeedInv, FeedTypeOK
<1> QED
  BY <1>2, <1>3 DEF FeedInv

\* A proposal is created.
LEMMA ProposesKeepsFeed ==
  ASSUME FeedInv, FeedProposes
  PROVE  FeedInv'
<1> DEFINE proposal == [created |-> feedBlock, endBlock |-> feedBlock + 3, voted |-> FALSE,
                        cancelled |-> FALSE]
<1>1. /\ feedProposals' = Append(feedProposals, proposal)
      /\ UNCHANGED <<feedBlock, noun, nextAuction, transferEvents, delegationEvents, nounVotes,
                     knowsNext>>
      /\ feedProposals \in Seq(FeedProposalRecords) /\ VotesAreDated
      /\ feedBlock \in Nat /\ DOMAIN nounVotes \subseteq DOMAIN feedProposals
  BY DEF FeedProposes, FeedInv, FeedTypeOK
<1>2. proposal \in FeedProposalRecords /\ proposal.endBlock = proposal.created + 3
  BY <1>1 DEF FeedProposalRecords
<1> HIDE DEF proposal
<1>3. /\ feedProposals' \in Seq(FeedProposalRecords)
      /\ DOMAIN feedProposals' = 1..(Len(feedProposals) + 1) /\ Len(feedProposals) \in Nat
      /\ DOMAIN feedProposals = 1..Len(feedProposals)
      /\ feedProposals'[Len(feedProposals) + 1] = proposal
      /\ \A p \in DOMAIN feedProposals : feedProposals'[p] = feedProposals[p]
  BY <1>1, <1>2
<1>4. VotesAreDated'
  BY <1>1, <1>2, <1>3 DEF VotesAreDated
<1>5. DOMAIN nounVotes' \subseteq DOMAIN feedProposals'
  BY <1>1, <1>3
<1> QED
  BY <1>1, <1>3, <1>4, <1>5, ProposalsKeepFeed

\* Marking a proposal changes neither when it was created nor when it ends.
LEMMA MarkedProposal ==
  ASSUME FeedInv, NEW p \in DOMAIN feedProposals, NEW mark \in FeedProposalRecords,
         mark.created = feedProposals[p].created, mark.endBlock = feedProposals[p].endBlock,
         feedProposals' = [feedProposals EXCEPT ![p] = mark]
  PROVE  /\ feedProposals' \in Seq(FeedProposalRecords)
         /\ DOMAIN feedProposals' = DOMAIN feedProposals
         /\ \A q \in DOMAIN feedProposals :
              /\ feedProposals'[q].created = feedProposals[q].created
              /\ feedProposals'[q].endBlock = feedProposals[q].endBlock
<1>1. feedProposals \in Seq(FeedProposalRecords)
  BY DEF FeedInv, FeedTypeOK
<1>2. p \in 1..Len(feedProposals)
  BY <1>1
<1>3. feedProposals' \in Seq(FeedProposalRecords)
  BY <1>1, <1>2, ExceptSeq
<1> QED
  BY <1>1, <1>2, <1>3

\* A vote is cast, for the noun or not.
LEMMA VotesKeepsFeed ==
  ASSUME FeedInv, NEW p \in DOMAIN feedProposals, NEW namesNoun \in BOOLEAN,
         NEW weighs \in BOOLEAN, FeedVotes(p, namesNoun, weighs)
  PROVE  FeedInv'
<1> DEFINE mark == [feedProposals[p] EXCEPT !.voted = @ \/ weighs]
<1>1. /\ FeedVoting(p)
      /\ nounVotes' \in {nounVotes, LogUnder(nounVotes, p, [block |-> feedBlock])}
      /\ feedProposals' = [feedProposals EXCEPT ![p].voted = @ \/ weighs]
      /\ UNCHANGED <<feedBlock, noun, nextAuction, transferEvents, delegationEvents, knowsNext>>
  BY DEF FeedVotes
<1>2. /\ feedProposals \in Seq(FeedProposalRecords) /\ VotesAreDated /\ feedBlock \in Nat
      /\ DOMAIN nounVotes \subseteq DOMAIN feedProposals
  BY DEF FeedInv, FeedTypeOK
<1>3. feedProposals[p] \in FeedProposalRecords
  BY <1>2, ElementOfSeq
<1>4. /\ mark \in FeedProposalRecords
      /\ mark.created = feedProposals[p].created /\ mark.endBlock = feedProposals[p].endBlock
  BY <1>3 DEF FeedProposalRecords
<1>5. feedProposals' = [feedProposals EXCEPT ![p] = mark]
  BY <1>1
<1> HIDE DEF mark
<1>6. /\ feedProposals' \in Seq(FeedProposalRecords)
      /\ DOMAIN feedProposals' = DOMAIN feedProposals
      /\ \A q \in DOMAIN feedProposals :
           /\ feedProposals'[q].created = feedProposals[q].created
           /\ feedProposals'[q].endBlock = feedProposals[q].endBlock
  BY <1>4, <1>5, MarkedProposal
<1>7. /\ DOMAIN nounVotes' \subseteq DOMAIN nounVotes \cup {p}
      /\ \A q \in DOMAIN nounVotes' : \/ q \in DOMAIN nounVotes /\ nounVotes'[q] = nounVotes[q]
                                      \/ q = p /\ nounVotes'[q] = [block |-> feedBlock]
  BY <1>1 DEF LogUnder
<1>8. feedBlock > feedProposals[p].created + 1
  BY <1>1 DEF FeedVoting
<1>9. \A q \in DOMAIN nounVotes' :
        nounVotes'[q].block \in Nat /\ nounVotes'[q].block > feedProposals'[q].created + 1
  BY <1>2, <1>6, <1>7, <1>8 DEF VotesAreDated
<1>10. VotesAreDated'
  BY <1>2, <1>6, <1>9 DEF VotesAreDated
<1> QED
  BY <1>1, <1>2, <1>6, <1>7, <1>10, ProposalsKeepFeed

\* A proposal is cancelled.
LEMMA CancelsKeepsFeed ==
  ASSUME FeedInv, NEW p \in DOMAIN feedProposals, FeedCancels(p)
  PROVE  FeedInv'
<1> DEFINE mark == [feedProposals[p] EXCEPT !.cancelled = TRUE]
<1>1. /\ feedProposals' = [feedProposals EXCEPT ![p].cancelled = TRUE]
      /\ UNCHANGED <<feedBlock, noun, nextAuction, transferEvents, delegationEvents, nounVotes,
                     knowsNext>>
  BY DEF FeedCancels
<1>2. /\ feedProposals \in Seq(FeedProposalRecords) /\ VotesAreDated
      /\ DOMAIN nounVotes \subseteq DOMAIN feedProposals
  BY DEF FeedInv, FeedTypeOK
<1>3. feedProposals[p] \in FeedProposalRecords
  BY <1>2, ElementOfSeq
<1>4. /\ mark \in FeedProposalRecords
      /\ mark.created = feedProposals[p].created /\ mark.endBlock = feedProposals[p].endBlock
  BY <1>3 DEF FeedProposalRecords
<1>5. feedProposals' = [feedProposals EXCEPT ![p] = mark]
  BY <1>1
<1> HIDE DEF mark
<1>6. /\ feedProposals' \in Seq(FeedProposalRecords)
      /\ DOMAIN feedProposals' = DOMAIN feedProposals
      /\ \A q \in DOMAIN feedProposals :
           /\ feedProposals'[q].created = feedProposals[q].created
           /\ feedProposals'[q].endBlock = feedProposals[q].endBlock
  BY <1>4, <1>5, MarkedProposal
<1>7. VotesAreDated'
  BY <1>1, <1>2, <1>6 DEF VotesAreDated
<1> QED
  BY <1>1, <1>2, <1>6, <1>7, ProposalsKeepFeed

\* The page is loaded.
LEMMA PageLoadsKeepsFeed ==
  ASSUME FeedInv, FeedPageLoads
  PROVE  FeedInv'
<1>1. /\ knowsNext' = (nextAuction # FeedNever)
      /\ UNCHANGED <<feedBlock, noun, nextAuction, feedProposals, transferEvents,
                     delegationEvents, nounVotes>>
  BY DEF FeedPageLoads
<1>2. feedBlock \in Nat /\ feedBlock <= feedBlock' /\ feedBlock' \in Nat
  BY <1>1 DEF FeedInv, FeedTypeOK
<1>3. LogsAreDated' /\ WinIsLogged' /\ VotesAreDated'
  BY <1>1, <1>2, FeedPartsKept, FeedVotesKept
<1>4. knowsNext' \in BOOLEAN /\ (knowsNext' => nextAuction' # FeedNever)
  BY <1>1, Zenon
<1>5. FeedTypeOK'
  BY <1>1, <1>4 DEF FeedInv, FeedTypeOK
<1> QED
  BY <1>3, <1>4, <1>5 DEF FeedInv

\* Every step keeps the invariant.
LEMMA FeedStep ==
  ASSUME FeedInv, [NounActivityNext]_feedVars
  PROVE  FeedInv'
<1>1. CASE UNCHANGED feedVars
  <2>1. UNCHANGED <<feedBlock, noun, nextAuction, feedProposals, transferEvents,
                    delegationEvents, nounVotes, knowsNext>>
    BY <1>1 DEF feedVars
  <2> QED
    BY <2>1 DEF FeedInv, FeedTypeOK, LogsAreDated, WinIsLogged, VotesAreDated, OnAuction,
                IsReward
<1>2. CASE FeedBlockEnds \/ FeedUnpauses \/ FeedDelegates \/ FeedProposes \/ FeedPageLoads
  BY <1>2, BlockEndsKeepsFeed, UnpausesKeepsFeed, DelegatesKeepsFeed, ProposesKeepsFeed,
     PageLoadsKeepsFeed
<1>3. CASE \E winner \in FeedAccounts, paused \in BOOLEAN : FeedSettles(winner, paused)
  BY <1>3, SettlesKeepsFeed
<1>4. CASE \E to \in FeedAccounts : FeedSends(to)
  BY <1>4, SendsKeepsFeed
<1>5. CASE \E p \in DOMAIN feedProposals : FeedCancels(p)
  BY <1>5, CancelsKeepsFeed
<1>6. CASE \E p \in DOMAIN feedProposals, namesNoun, weighs \in BOOLEAN :
             FeedVotes(p, namesNoun, weighs)
  BY <1>6, VotesKeepsFeed
<1> QED
  BY <1>1, <1>2, <1>3, <1>4, <1>5, <1>6 DEF NounActivityNext

-----------------------------------------------------------------------------
(* The activity feed of a noun: what the page shows of them.               *)

\* The entries that precede the win, or are it.
PastEntries ==
  {FeedEntry("TRANSFER", delegationEvents[tx].block, tx) : tx \in FeedPast}
    \cup {FeedEntry("DELEGATION", delegationEvents[tx].block, tx) : tx \in FeedPast}

AllEntries == useNounProposalVoteEvents \cup useNounTransferEvents \cup useDelegationEvents

\* The proposals the feed is to show.
FeedListed ==
  {p \in DOMAIN feedProposals :
     /\ feedProposals[p].created >= nextAuction
     /\ feedProposals[p].cancelled => feedProposals[p].voted}

\* Once the noun is won and did not move on at once, the log tells the past from the rest.
LEMMA PastIsPast ==
  ASSUME FeedInv, nextAuction # FeedNever, ~MovedAgainWhenWon
  PROVE  /\ FeedPast \subseteq DOMAIN transferEvents
         /\ FeedPast \subseteq DOMAIN delegationEvents
         /\ WonIn \in Nat /\ WonIn >= 1 /\ WonIn <= nextAuction
         /\ \A tx \in FeedPast : delegationEvents[tx].block <= WonIn
         /\ \A tx \in DOMAIN delegationEvents \ FeedPast : delegationEvents[tx].block > WonIn
         /\ LET last == IF IsReward THEN 1 ELSE 2
            IN /\ delegationEvents[last].block = WonIn /\ transferEvents[last].to = noun.winner
               /\ \A tx \in FeedPast \ {last} : delegationEvents[tx].block < WonIn
         /\ \A tx \in DOMAIN delegationEvents : delegationEvents[tx].block \in Nat
<1> DEFINE last == IF IsReward THEN 1 ELSE 2
           then == {tx \in DOMAIN delegationEvents : delegationEvents[tx].block = WonIn}
<1>1. FeedTypeOK /\ LogsAreDated /\ WinIsLogged /\ ~OnAuction
  BY DEF FeedInv, WinIsLogged
<1>2. /\ DOMAIN delegationEvents = 1..Len(delegationEvents) /\ Len(delegationEvents) \in Nat
      /\ \A tx \in DOMAIN delegationEvents : delegationEvents[tx].block \in Nat
      /\ noun.wonIn \in Nat
  <2>1. delegationEvents \in Seq([block : Nat])
    BY <1>1 DEF FeedTypeOK
  <2>2. DOMAIN delegationEvents = 1..Len(delegationEvents) /\ Len(delegationEvents) \in Nat
    BY <2>1
  <2>3. \A tx \in DOMAIN delegationEvents : delegationEvents[tx] \in [block : Nat]
    BY <2>1, <2>2, ElementOfSeq
  <2>4. noun.wonIn \in Nat
    BY <1>1 DEF FeedTypeOK
  <2> QED
    BY <2>2, <2>3, <2>4
<1>3. /\ FeedPast \subseteq DOMAIN transferEvents /\ FeedPast \subseteq DOMAIN delegationEvents
      /\ WonIn \in Nat /\ WonIn >= 1 /\ WonIn <= nextAuction /\ last \in FeedPast
      /\ \A tx \in FeedPast : delegationEvents[tx].block <= WonIn
      /\ delegationEvents[last].block = WonIn /\ transferEvents[last].to = noun.winner
      /\ \A tx \in FeedPast \ {last} : delegationEvents[tx].block < WonIn
      /\ \A tx \in DOMAIN delegationEvents : delegationEvents[tx].block >= WonIn \/ tx \in FeedPast
  <2>1. CASE IsReward
    <3>1. FeedPast = {1} /\ WonIn = 1 /\ last = 1
      BY <2>1 DEF FeedPast, WonIn
    <3> QED
      BY <1>1, <1>2, <2>1, <3>1 DEF WinIsLogged, LogsAreDated, FeedTypeOK
  <2>2. CASE ~IsReward
    <3>1. FeedPast = {1, 2} /\ WonIn = noun.wonIn /\ last = 2
      BY <2>2 DEF FeedPast, WonIn
    <3> QED
      BY <1>1, <1>2, <2>2, <3>1 DEF WinIsLogged, LogsAreDated, FeedTypeOK
  <2> QED
    BY <2>1, <2>2
<1>4. IsFiniteSet(then) /\ Cardinality(then) \in Nat /\ Cardinality(then) <= 1
  <2>1. then \in SUBSET DOMAIN delegationEvents /\ IsFiniteSet(DOMAIN delegationEvents)
    <3>1. IsFiniteSet(1..Len(delegationEvents))
      BY <1>2, FS_Interval
    <3> QED
      BY <1>2, <3>1
  <2>2. IsFiniteSet(then) /\ Cardinality(then) \in Nat
    BY <2>1, FS_Subset, FS_CardinalityType
  <2>3. ~(Cardinality(then) > 1)
    BY DEF MovedAgainWhenWon, WonIn
  <2> QED
    BY <2>2, <2>3
<1>5. ASSUME NEW tx \in DOMAIN delegationEvents, tx \notin FeedPast
      PROVE  delegationEvents[tx].block > WonIn
  <2>1. SUFFICES ASSUME delegationEvents[tx].block = WonIn
                 PROVE  FALSE
    BY <1>2, <1>3, <1>5
  <2>2. last \in then /\ tx \in then /\ last # tx
    BY <1>3, <1>5, <2>1
  <2>3. IsFiniteSet(then \ {last}) /\ Cardinality(then \ {last}) = Cardinality(then) - 1
    BY <1>4, <2>2, FS_RemoveElement
  <2>4. Cardinality(then \ {last}) \in Nat
    BY <2>3, FS_CardinalityType
  <2>5. Cardinality(then \ {last}) = 0
    BY <1>4, <2>3, <2>4
  <2> HIDE DEF then
  <2>6. then \ {last} = {}
    BY <2>3, <2>5, FS_EmptySet
  <2> QED
    BY <2>2, <2>6
<1> QED
  BY <1>2, <1>3, <1>5

\* Entries that are each of another number of a finite set are finitely many.
LEMMA EntriesFinite ==
  ASSUME NEW S, IsFiniteSet(S), NEW entries, \A e \in entries : e.of \in S,
         \A e, f \in entries : e.of = f.of => e = f
  PROVE  IsFiniteSet(entries)
<1> DEFINE number == [e \in entries |-> e.of]
<1>1. number \in Injection(entries, S)
  BY DEF Injection, IsInjective
<1> QED
  BY <1>1, FS_Injection

\* What is logged, and what is listed of the proposals.
LEMMA LoggedEntries ==
  ASSUME FeedInv, nextAuction # FeedNever, knowsNext, ~MovedAgainWhenWon
  PROVE  /\ IsFiniteSet(AllEntries) /\ AllEntries \subseteq FeedEntries
         /\ IsFiniteSet(useNounTransferEvents) /\ useNounTransferEvents \subseteq FeedEntries
         /\ \A e \in AllEntries :
              \/ e.type = "PROPOSAL_VOTE" /\ e.of \in FeedListed /\ e.block > WonIn
              \/ /\ e.type = "TRANSFER" /\ e.of \in DOMAIN transferEvents
                 /\ e = FeedEntry("TRANSFER", delegationEvents[e.of].block, e.of)
              \/ /\ e.type = "DELEGATION" /\ e.of \in DOMAIN delegationEvents
                 /\ e = FeedEntry("DELEGATION", delegationEvents[e.of].block, e.of)
         /\ \A p \in FeedListed : \E e \in AllEntries : e.type = "PROPOSAL_VOTE" /\ e.of = p
         /\ \A tx \in DOMAIN delegationEvents :
              FeedEntry("DELEGATION", delegationEvents[tx].block, tx) \in AllEntries
         /\ useNounTransferEvents =
              {FeedEntry("TRANSFER", delegationEvents[tx].block, tx) : tx \in DOMAIN transferEvents}
<1> DEFINE date == [p \in FeedListed |-> IF p \in DOMAIN nounVotes THEN nounVotes[p].block
                                                                 ELSE feedProposals[p].endBlock]
           logged == [tx \in DOMAIN delegationEvents |-> delegationEvents[tx].block]
<1>1. /\ FeedTypeOK /\ LogsAreDated /\ VotesAreDated
      /\ feedProposals \in Seq(FeedProposalRecords) /\ delegationEvents \in Seq([block : Nat])
      /\ nextAuction \in Nat /\ DOMAIN transferEvents \subseteq DOMAIN delegationEvents
  BY DEF FeedInv, FeedTypeOK
<1>2. /\ DOMAIN feedProposals = 1..Len(feedProposals) /\ Len(feedProposals) \in Nat
      /\ DOMAIN delegationEvents = 1..Len(delegationEvents) /\ Len(delegationEvents) \in Nat
  BY <1>1
<1>3. \A p \in DOMAIN feedProposals :
        feedProposals[p].created \in Nat /\ feedProposals[p].endBlock \in Nat
  <2>1. \A p \in DOMAIN feedProposals : feedProposals[p] \in FeedProposalRecords
    BY <1>1, <1>2, ElementOfSeq
  <2> QED
    BY <2>1 DEF FeedProposalRecords
<1>4. /\ WonIn \in Nat /\ WonIn <= nextAuction
      /\ \A tx \in DOMAIN delegationEvents : delegationEvents[tx].block \in Nat
  BY PastIsPast
<1>5. FeedListed = {q \in DOMAIN feedProposals :
                      /\ ~BornAfter(feedProposals[q])
                      /\ ~(feedProposals[q].cancelled /\ ~feedProposals[q].voted)}
  <2>1. \A q \in DOMAIN feedProposals :
          ~BornAfter(feedProposals[q]) <=> feedProposals[q].created >= nextAuction
    BY <1>1, <1>3 DEF BornAfter, useNounCanVoteTimestamp
  <2> QED
    BY <2>1 DEF FeedListed
<1>6. ASSUME NEW p \in FeedListed
      PROVE  date[p] \in Nat /\ date[p] > WonIn
  <2>1. p \in DOMAIN feedProposals /\ feedProposals[p].created >= nextAuction
    BY DEF FeedListed
  <2> QED
    BY <1>1, <1>3, <1>4, <2>1 DEF VotesAreDated
<1>7. useNounProposalVoteEvents = {FeedEntry("PROPOSAL_VOTE", date[p], p) : p \in FeedListed}
  <2>1. \A p \in FeedListed :
          FeedEntry("PROPOSAL_VOTE", IF p \in DOMAIN nounVotes THEN nounVotes[p].block
                                     ELSE feedProposals[p].endBlock, p)
            = FeedEntry("PROPOSAL_VOTE", date[p], p)
    OBVIOUS
  <2> QED
    BY <1>5, <2>1 DEF useNounProposalVoteEvents
<1>8. /\ useNounTransferEvents =
           {FeedEntry("TRANSFER", logged[tx], tx) : tx \in DOMAIN transferEvents}
      /\ useNounTransferEvents =
           {FeedEntry("TRANSFER", delegationEvents[tx].block, tx) : tx \in DOMAIN transferEvents}
  BY <1>1 DEF useNounTransferEvents, LoggedAs, LogsAreDated
<1>9. useDelegationEvents =
        {FeedEntry("DELEGATION", logged[tx], tx) : tx \in DOMAIN delegationEvents}
  BY DEF useDelegationEvents, LoggedAs
<1>10. /\ IsFiniteSet(FeedListed) /\ IsFiniteSet(DOMAIN delegationEvents)
       /\ IsFiniteSet(DOMAIN transferEvents)
  <2>1. FeedListed \in SUBSET (1..Len(feedProposals))
    BY <1>2 DEF FeedListed
  <2>2. IsFiniteSet(1..Len(feedProposals)) /\ IsFiniteSet(1..Len(delegationEvents))
    BY <1>2, FS_Interval
  <2> QED
    BY <1>1, <1>2, <2>1, <2>2, FS_Subset
<1> HIDE DEF date, logged
<1>11. /\ IsFiniteSet(useNounProposalVoteEvents) /\ IsFiniteSet(useNounTransferEvents)
       /\ IsFiniteSet(useDelegationEvents)
  <2>1. /\ \A e \in useNounProposalVoteEvents :
             e.of \in FeedListed /\ e = FeedEntry("PROPOSAL_VOTE", date[e.of], e.of)
        /\ \A e \in useNounTransferEvents :
             e.of \in DOMAIN transferEvents /\ e = FeedEntry("TRANSFER", logged[e.of], e.of)
        /\ \A e \in useDelegationEvents :
             e.of \in DOMAIN delegationEvents /\ e = FeedEntry("DELEGATION", logged[e.of], e.of)
    BY <1>7, <1>8, <1>9 DEF FeedEntry
  <2>2. IsFiniteSet(useNounProposalVoteEvents)
    BY <1>10, <2>1, EntriesFinite
  <2>3. IsFiniteSet(useNounTransferEvents)
    BY <1>10, <2>1, EntriesFinite
  <2>4. IsFiniteSet(useDelegationEvents)
    BY <1>10, <2>1, EntriesFinite
  <2> QED
    BY <2>2, <2>3, <2>4
<1>12. IsFiniteSet(AllEntries)
  BY <1>11, FS_Union DEF AllEntries
<1> USE DEF logged
<1>13. ASSUME NEW e \in AllEntries
       PROVE  /\ e \in FeedEntries
              /\ \/ e.type = "PROPOSAL_VOTE" /\ e.of \in FeedListed /\ e.block > WonIn
                 \/ /\ e.type = "TRANSFER" /\ e.of \in DOMAIN transferEvents
                    /\ e = FeedEntry("TRANSFER", delegationEvents[e.of].block, e.of)
                 \/ /\ e.type = "DELEGATION" /\ e.of \in DOMAIN delegationEvents
                    /\ e = FeedEntry("DELEGATION", delegationEvents[e.of].block, e.of)
  <2>1. CASE e \in useNounProposalVoteEvents
    <3>1. PICK p \in FeedListed : e = FeedEntry("PROPOSAL_VOTE", date[p], p)
      BY <1>7, <2>1
    <3>2. p \in Nat /\ date[p] \in Nat /\ date[p] > WonIn
      BY <1>2, <1>6 DEF FeedListed
    <3> QED
      BY <3>1, <3>2 DEF FeedEntry, FeedEntries
  <2>2. CASE e \in useNounTransferEvents
    <3>1. PICK tx \in DOMAIN transferEvents :
            e = FeedEntry("TRANSFER", delegationEvents[tx].block, tx)
      BY <1>8, <2>2
    <3>2. tx \in Nat /\ delegationEvents[tx].block \in Nat
      BY <1>1, <1>2, <1>4
    <3> QED
      BY <3>1, <3>2 DEF FeedEntry, FeedEntries
  <2>3. CASE e \in useDelegationEvents
    <3>1. PICK tx \in DOMAIN delegationEvents :
            e = FeedEntry("DELEGATION", delegationEvents[tx].block, tx)
      BY <1>9, <2>3
    <3>2. tx \in Nat /\ delegationEvents[tx].block \in Nat
      BY <1>2, <1>4
    <3> QED
      BY <3>1, <3>2 DEF FeedEntry, FeedEntries
  <2> QED
    BY <2>1, <2>2, <2>3 DEF AllEntries
<1>14. ASSUME NEW p \in FeedListed
       PROVE  \E e \in AllEntries : e.type = "PROPOSAL_VOTE" /\ e.of = p
  <2>1. FeedEntry("PROPOSAL_VOTE", date[p], p) \in AllEntries
    BY <1>7 DEF AllEntries
  <2> QED
    BY <2>1 DEF FeedEntry
<1>15. \A tx \in DOMAIN delegationEvents :
         FeedEntry("DELEGATION", delegationEvents[tx].block, tx) \in AllEntries
  BY <1>9 DEF AllEntries
<1>16. useNounTransferEvents \subseteq FeedEntries
  BY <1>13 DEF AllEntries
<1> QED
  BY <1>8, <1>11, <1>12, <1>13, <1>14, <1>15, <1>16

\* How many entries tell of the birth and the win.
PastCount == IF IsReward THEN 2 ELSE 4

\* The entries of the birth and the win are older than all others.
LEMMA PastEntriesFirst ==
  ASSUME FeedInv, nextAuction # FeedNever, knowsNext, ~MovedAgainWhenWon
  PROVE  /\ PastEntries \subseteq AllEntries /\ Cardinality(PastEntries) = PastCount
         /\ \A e \in PastEntries : e.block <= WonIn
         /\ \A e \in AllEntries \ PastEntries : e.block > WonIn
<1> DEFINE transfer(tx) == FeedEntry("TRANSFER", delegationEvents[tx].block, tx)
           delegation(tx) == FeedEntry("DELEGATION", delegationEvents[tx].block, tx)
<1>1. /\ FeedPast \subseteq DOMAIN transferEvents /\ FeedPast \subseteq DOMAIN delegationEvents
      /\ \A tx \in FeedPast : delegationEvents[tx].block <= WonIn
      /\ \A tx \in DOMAIN delegationEvents \ FeedPast : delegationEvents[tx].block > WonIn
      /\ DOMAIN transferEvents \subseteq DOMAIN delegationEvents
  BY PastIsPast DEF FeedInv, FeedTypeOK
<1>2. ASSUME NEW e \in PastEntries
      PROVE  e \in AllEntries /\ e.block <= WonIn
  <2>1. PICK tx \in FeedPast : e = transfer(tx) \/ e = delegation(tx)
    BY DEF PastEntries
  <2>2. e.block = delegationEvents[tx].block
    BY <2>1 DEF FeedEntry
  <2>3. tx \in DOMAIN transferEvents /\ tx \in DOMAIN delegationEvents
    BY <1>1
  <2>4. transfer(tx) \in useNounTransferEvents
    BY <2>3, LoggedEntries
  <2>5. delegation(tx) \in AllEntries
    BY <2>3, LoggedEntries
  <2> QED
    BY <1>1, <2>1, <2>2, <2>4, <2>5 DEF AllEntries
<1>3. ASSUME NEW e \in AllEntries, e \notin PastEntries
      PROVE  e.block > WonIn
  <2>1. CASE e.type = "PROPOSAL_VOTE"
    BY <2>1, LoggedEntries
  <2>2. CASE e.type # "PROPOSAL_VOTE"
    <3>1. e.of \in DOMAIN delegationEvents /\ (e = transfer(e.of) \/ e = delegation(e.of))
      BY <1>1, <2>2, LoggedEntries
    <3>2. e.of \notin FeedPast
      BY <1>3, <3>1 DEF PastEntries
    <3>3. e.block = delegationEvents[e.of].block
      BY <3>1 DEF FeedEntry
    <3> QED
      BY <1>1, <3>1, <3>2, <3>3
  <2> QED
    BY <2>1, <2>2
<1>4. Cardinality(PastEntries) = PastCount
  <2>1. /\ transfer(1) # delegation(1) /\ transfer(1) # delegation(2) /\ transfer(1) # transfer(2)
        /\ delegation(1) # transfer(2) /\ delegation(1) # delegation(2)
        /\ transfer(2) # delegation(2)
    BY DEF FeedEntry
  <2> DEFINE one == {transfer(1)} two == one \cup {delegation(1)}
             three == two \cup {transfer(2)} four == three \cup {delegation(2)}
  <2>2. IsFiniteSet(one) /\ Cardinality(one) = 1
    BY FS_Singleton
  <2>3. delegation(1) \notin one
    BY <2>1
  <2>4. transfer(2) \notin two
    BY <2>1
  <2>5. delegation(2) \notin three
    BY <2>1
  <2>6. IsReward => PastEntries = two
    BY DEF PastEntries, FeedPast
  <2>7. ~IsReward => PastEntries = four
    BY DEF PastEntries, FeedPast
  <2> HIDE DEF one, transfer, delegation
  <2>8. IsFiniteSet(two) /\ Cardinality(two) = 2
    BY <2>2, <2>3, FS_AddElement
  <2> HIDE DEF two
  <2>9. IsFiniteSet(three) /\ Cardinality(three) = 3
    BY <2>4, <2>8, FS_AddElement
  <2> HIDE DEF three
  <2>10. Cardinality(four) = 4
    BY <2>5, <2>9, FS_AddElement
  <2> QED
    BY <2>6, <2>7, <2>8, <2>10 DEF PastCount
<1> QED
  BY <1>2, <1>3, <1>4

\* Of the transfers, sorted, the first or second brought the noun to its winner.
LEMMA WinningTransfer ==
  ASSUME FeedInv, nextAuction # FeedNever, knowsNext, ~MovedAgainWhenWon
  PROVE  LET won == IF IsReward THEN 1 ELSE 2
             win == ByBlock(useNounTransferEvents)[won]
         IN /\ won \in 1..Cardinality(useNounTransferEvents)
            /\ win.block = WonIn /\ transferEvents[win.of].to = noun.winner
<1> DEFINE won == IF IsReward THEN 1 ELSE 2
           transfers == useNounTransferEvents
           transfer(tx) == FeedEntry("TRANSFER", delegationEvents[tx].block, tx)
           sorted == ByBlock(transfers)
           past == {transfer(tx) : tx \in FeedPast}
<1>1. /\ FeedPast \subseteq DOMAIN transferEvents
      /\ DOMAIN transferEvents \subseteq DOMAIN delegationEvents
      /\ WonIn \in Nat /\ \A tx \in DOMAIN delegationEvents : delegationEvents[tx].block \in Nat
      /\ \A tx \in FeedPast : delegationEvents[tx].block <= WonIn
      /\ \A tx \in DOMAIN delegationEvents \ FeedPast : delegationEvents[tx].block > WonIn
      /\ delegationEvents[won].block = WonIn /\ transferEvents[won].to = noun.winner
      /\ \A tx \in FeedPast \ {won} : delegationEvents[tx].block < WonIn
  BY PastIsPast DEF FeedInv, FeedTypeOK
<1>2. /\ IsFiniteSet(transfers) /\ transfers \subseteq FeedEntries
      /\ transfers = {transfer(tx) : tx \in DOMAIN transferEvents}
  BY LoggedEntries
<1>3. past \subseteq transfers
  BY <1>1, <1>2
<1>4. ASSUME NEW e \in past, NEW f \in transfers, f \notin past
      PROVE  e.block < f.block
  <2>1. PICK tx \in FeedPast : e = transfer(tx)
    OBVIOUS
  <2>2. PICK ux \in DOMAIN transferEvents : f = transfer(ux)
    BY <1>2
  <2>3. ux \notin FeedPast
    BY <1>4, <2>2
  <2>4. e.block = delegationEvents[tx].block /\ f.block = delegationEvents[ux].block
    BY <2>1, <2>2 DEF FeedEntry
  <2> QED
    BY <1>1, <2>2, <2>3, <2>4
<1>5. Cardinality(past) = won
  <2>1. CASE IsReward
    <3>1. past = {transfer(1)}
      BY <2>1 DEF FeedPast
    <3> QED
      BY <2>1, <3>1, FS_Singleton
  <2>2. CASE ~IsReward
    <3>1. past = {transfer(1)} \cup {transfer(2)}
      BY <2>2 DEF FeedPast
    <3>2. transfer(2) \notin {transfer(1)}
      BY DEF FeedEntry
    <3> DEFINE one == {transfer(1)} second == transfer(2)
    <3>3. IsFiniteSet(one) /\ Cardinality(one) = 1
      BY FS_Singleton
    <3>4. second \notin one /\ past = one \cup {second}
      BY <3>1, <3>2
    <3> HIDE DEF one, second, past
    <3>5. Cardinality(one \cup {second}) = 2
      BY <3>3, <3>4, FS_AddElement
    <3> QED
      BY <2>2, <3>4, <3>5
  <2> QED
    BY <2>1, <2>2
<1>6. won \in Nat /\ won >= 1 /\ won \in FeedPast
  BY DEF FeedPast
<1> DEFINE N == Cardinality(transfers)
<1>7. N \in Nat /\ won <= N
  BY <1>2, <1>3, <1>5, FS_Subset, FS_CardinalityType
<1>8. won \in 1..N
  BY <1>6, <1>7
<1>9. transfer(won) \in past /\ transfer(won) \in transfers
  BY <1>3, <1>6
<1> HIDE DEF transfers, past, N
<1>10. \A n \in 1..Cardinality(transfers) : sorted[n] \in past <=> n <= Cardinality(past)
  BY <1>2, <1>3, <1>4, OlderFirst
<1>11. PICK n \in 1..N : sorted[n] = transfer(won)
  <2>1. \A e \in transfers : \E n \in 1..Cardinality(transfers) : sorted[n] = e
    BY <1>2, SortedByBlock
  <2> QED
    BY <1>9, <2>1 DEF N
<1>12. n <= won /\ sorted[won] \in past
  BY <1>5, <1>6, <1>8, <1>9, <1>10, <1>11 DEF N
<1>13. sorted[won] = transfer(won)
  <2>1. CASE n = won
    BY <1>11, <2>1
  <2>2. CASE n < won
    <3>1. SortsBefore(sorted[n], sorted[won])
      BY <1>2, <1>8, <2>2, SortedByBlock DEF N
    <3>2. sorted[won] \in FeedEntries /\ sorted[n] \in FeedEntries
      BY <1>2, <1>3, <1>9, <1>11, <1>12
    <3>3. sorted[n].block <= sorted[won].block /\ sorted[n].block = WonIn
      BY <1>1, <1>11, <3>1, <3>2, SortIsStrict DEF FeedEntry
    <3>4. PICK tx \in FeedPast : sorted[won] = transfer(tx)
      BY <1>12 DEF past
    <3>5. sorted[won].block = delegationEvents[tx].block
      BY <3>4 DEF FeedEntry
    <3>6. tx = won
      BY <1>1, <3>3, <3>4, <3>5
    <3> QED
      BY <3>4, <3>6
  <2> QED
    BY <1>6, <1>12, <2>1, <2>2
<1>14. sorted[won].block = WonIn /\ sorted[won].of = won
  BY <1>1, <1>13 DEF FeedEntry
<1> QED
  BY <1>1, <1>8, <1>14 DEF transfers, N

\* The feed is the entries since, from the last to the first, and then the win.
LEMMA FeedShows ==
  ASSUME FeedInv, nextAuction # FeedNever, knowsNext, ~MovedAgainWhenWon,
         TakenForReward(noun.id) = IsReward
  PROVE  LET since == Cardinality(AllEntries) - PastCount
         IN /\ since \in Nat
            /\ useNounActivity \in [1..(since + 1) ->
                 FeedEntries \cup {FeedEntry("AUCTION_WIN", WonIn, noun.winner)}]
            /\ useNounActivity \in
                 Seq(FeedEntries \cup {FeedEntry("AUCTION_WIN", WonIn, noun.winner)})
            /\ useNounActivity[since + 1] = FeedEntry("AUCTION_WIN", WonIn, noun.winner)
            /\ \A n \in 1..since :
                 useNounActivity[n] = ByBlock(AllEntries)[Cardinality(AllEntries) - n + 1]
<1> DEFINE N == Cardinality(AllEntries)
           since == N - PastCount
           sorted == ByBlock(AllEntries)
           events == Reverse(sorted)
           shown == WithoutLast(events, PastCount)
           won == IF IsReward THEN 1 ELSE 2
           win == ByBlock(useNounTransferEvents)[won]
           winEntry == FeedEntry("AUCTION_WIN", WonIn, noun.winner)
<1>1. IsFiniteSet(AllEntries) /\ N \in Nat /\ AllEntries \subseteq FeedEntries
  BY LoggedEntries, FS_CardinalityType
<1>2. PastCount \in Nat /\ PastCount <= N
  <2>1. PastEntries \in SUBSET AllEntries /\ Cardinality(PastEntries) = PastCount
    BY PastEntriesFirst
  <2>2. Cardinality(PastEntries) <= N
    BY <1>1, <2>1, FS_Subset
  <2> QED
    BY <2>1, <2>2 DEF PastCount
<1>3. sorted \in [1..N -> AllEntries]
  BY <1>1, SortedByBlock
<1> HIDE DEF sorted
<1>4. sorted \in Seq(FeedEntries) /\ Len(sorted) = N
  BY <1>1, <1>3
<1>5. /\ events \in Seq(FeedEntries) /\ Len(events) = N
      /\ \A n \in 1..N : events[n] = sorted[N - n + 1]
  <2>1. events = [n \in 1..N |-> sorted[(N - n) + 1]]
    BY <1>4 DEF Reverse
  <2>2. \A n \in 1..N : sorted[(N - n) + 1] \in FeedEntries
    <3>1. TAKE n \in 1..N
    <3>2. (N - n) + 1 \in 1..N
      BY <1>1
    <3> QED
      BY <1>1, <1>3, <3>2
  <2>3. events \in Seq(FeedEntries) /\ Len(events) = N
    BY <1>1, <2>1, <2>2
  <2> QED
    BY <1>1, <2>1, <2>3
<1> HIDE DEF events, N
<1>6. /\ shown \in Seq(FeedEntries) /\ Len(shown) = since
      /\ \A n \in 1..since : shown[n] = events[n]
  <2>1. shown = SubSeq(events, 1, since)
    BY <1>1, <1>2, <1>5 DEF WithoutLast
  <2>2. since \in Nat /\ since <= N
    BY <1>1, <1>2 DEF PastCount
  <2> HIDE DEF since
  <2> QED
    BY <1>1, <1>5, <2>1, <2>2
<1>7. since \in Nat
  BY <1>1, <1>2
<1>8. win.block = WonIn /\ transferEvents[win.of].to = noun.winner
      /\ ~(Cardinality(useNounTransferEvents) < won)
  <2>1. /\ won \in 1..Cardinality(useNounTransferEvents)
        /\ win.block = WonIn /\ transferEvents[win.of].to = noun.winner
    BY WinningTransfer
  <2>2. Cardinality(useNounTransferEvents) \in Nat
    BY LoggedEntries, FS_CardinalityType
  <2> QED
    BY <2>1, <2>2
<1>9. useNounActivity = Append(shown, winEntry)
  <2>1. events = Reverse(ByBlock(useNounProposalVoteEvents \cup useNounTransferEvents
                                   \cup useDelegationEvents))
    BY DEF events, sorted, AllEntries
  <2> HIDE DEF win
  <2>2. useNounActivity =
          IF Cardinality(useNounTransferEvents) < won THEN shown
          ELSE Append(shown, FeedEntry("AUCTION_WIN", win.block, transferEvents[win.of].to))
    BY <2>1 DEF useNounActivity, PastCount, win
  <2> QED
    BY <1>8, <2>2
<1> HIDE DEF shown, since, winEntry
<1>10. /\ useNounActivity \in Seq(FeedEntries \cup {winEntry})
       /\ Len(useNounActivity) = since + 1 /\ useNounActivity[since + 1] = winEntry
       /\ \A n \in 1..since : useNounActivity[n] = shown[n]
  <2>1. shown \in Seq(FeedEntries \cup {winEntry})
    BY <1>6
  <2> QED
    BY <1>6, <1>7, <1>9, <2>1
<1>11. \A n \in 1..since : useNounActivity[n] = sorted[N - n + 1]
  BY <1>1, <1>2, <1>5, <1>6, <1>10 DEF since
<1>12. useNounActivity \in [1..(since + 1) -> FeedEntries \cup {winEntry}]
  BY <1>7, <1>10
<1> QED
  BY <1>7, <1>10, <1>11, <1>12 DEF since, N, sorted, winEntry

\* The invariant makes the feed tell the story.
LEMMA FeedInvTellsTheStory ==
  ASSUME FeedInv
  PROVE  FeedTellsTheNounsStory
<1>1. SUFFICES ASSUME FeedShown, knowsNext, ~MovedAgainWhenWon,
                      TakenForReward(noun.id) = IsReward
               PROVE  LET story == useNounActivity
                          past == IF IsReward THEN {1} ELSE {1, 2}
                          since == Front(story)
                          Of(type) == {e.of : e \in {f \in ToSet(since) : f.type = type}}
                      IN /\ Last(story).type = "AUCTION_WIN" /\ Last(story).of = noun.winner
                         /\ Cardinality(ToSet(since)) = Len(since)
                         /\ Of("TRANSFER") = DOMAIN transferEvents \ past
                         /\ Of("DELEGATION") = DOMAIN delegationEvents \ past
                         /\ Of("PROPOSAL_VOTE") = {p \in DOMAIN feedProposals :
                              feedProposals[p].created >= nextAuction
                                /\ (feedProposals[p].cancelled => feedProposals[p].voted)}
                         /\ \A i, j \in DOMAIN story : i < j => story[i].block >= story[j].block
  BY DEF FeedTellsTheNounsStory
<1>2. nextAuction # FeedNever
  BY <1>1 DEF FeedShown
<1> DEFINE N == Cardinality(AllEntries)
           count == N - PastCount
           sorted == ByBlock(AllEntries)
           shownFeed == useNounActivity
           rest == Front(shownFeed)
           winEntry == FeedEntry("AUCTION_WIN", WonIn, noun.winner)
           shownSince == AllEntries \ PastEntries
           OfType(type) == {e.of : e \in {f \in shownSince : f.type = type}}
<1>3. /\ IsFiniteSet(AllEntries) /\ AllEntries \subseteq FeedEntries /\ N \in Nat
      /\ PastEntries \subseteq AllEntries /\ Cardinality(PastEntries) = PastCount
      /\ PastCount \in Nat /\ WonIn \in Nat
  BY <1>1, <1>2, LoggedEntries, PastEntriesFirst, PastIsPast, FS_CardinalityType DEF PastCount
<1>4. /\ count \in Nat
      /\ shownFeed \in Seq(FeedEntries \cup {winEntry}) /\ Len(shownFeed) = count + 1
      /\ shownFeed[count + 1] = winEntry
      /\ \A n \in 1..count : shownFeed[n] = sorted[N - n + 1]
  <2>1. /\ count \in Nat
        /\ shownFeed \in [1..(count + 1) -> FeedEntries \cup {winEntry}]
        /\ shownFeed \in Seq(FeedEntries \cup {winEntry})
        /\ shownFeed[count + 1] = winEntry
        /\ \A n \in 1..count : shownFeed[n] = sorted[N - n + 1]
    BY <1>1, <1>2, FeedShows
  <2>2. Len(shownFeed) = count + 1
    BY <2>1
  <2> QED
    BY <2>1, <2>2
<1>5. /\ sorted \in [1..N -> AllEntries]
      /\ \A e \in AllEntries : \E n \in 1..N : sorted[n] = e
      /\ \A m, n \in 1..N : m < n => SortsBefore(sorted[m], sorted[n])
      /\ \A n \in 1..N : sorted[n] \in PastEntries <=> n <= PastCount
  <2>1. \A e \in PastEntries, f \in AllEntries \ PastEntries : e.block < f.block
    <3>1. \A e \in AllEntries : e.block \in Nat
      BY <1>3 DEF FeedEntries
    <3> QED
      BY <1>1, <1>2, <1>3, <3>1, PastEntriesFirst
  <2> QED
    BY <1>3, <2>1, SortedByBlock, OlderFirst
<1> HIDE DEF N, sorted, shownFeed, winEntry
<1>6. /\ rest \in Seq(FeedEntries \cup {winEntry}) /\ Len(rest) = count
      /\ \A n \in 1..count : rest[n] = sorted[N - n + 1]
  <2>1. rest = SubSeq(shownFeed, 1, count)
    BY <1>4 DEF Front
  <2> HIDE DEF count, rest
  <2> QED
    BY <1>4, <2>1
<1> HIDE DEF rest
<1>7. \A n \in 1..count : /\ N - n + 1 \in 1..N /\ sorted[N - n + 1] \in AllEntries
                          /\ sorted[N - n + 1] \notin PastEntries
  <2>1. TAKE n \in 1..count
  <2>2. N - n + 1 \in 1..N /\ ~(N - n + 1 <= PastCount)
    BY <1>3, <1>4
  <2> HIDE DEF count
  <2>3. sorted[N - n + 1] \in AllEntries
    BY <1>5, <2>2
  <2>4. sorted[N - n + 1] \notin PastEntries
    BY <1>5, <2>2
  <2> QED
    BY <2>2, <2>3, <2>4
<1>8. ToSet(rest) = shownSince
  <2>1. ToSet(rest) = {rest[n] : n \in 1..count}
    BY <1>6 DEF ToSet
  <2>2. ASSUME NEW n \in 1..count
        PROVE  rest[n] \in shownSince
    BY <1>6, <1>7
  <2>3. ASSUME NEW e \in shownSince
        PROVE  \E n \in 1..count : rest[n] = e
    <3>1. PICK m \in 1..N : sorted[m] = e
      BY <1>5
    <3>2. m > PastCount
      BY <1>3, <1>5, <3>1
    <3>3. N - m + 1 \in 1..count /\ N - (N - m + 1) + 1 = m
      BY <1>3, <3>2
    <3> HIDE DEF count
    <3> QED
      BY <1>6, <3>1, <3>3
  <2> QED
    BY <2>1, <2>2, <2>3
<1>9. Cardinality(ToSet(rest)) = Len(rest)
  <2>1. IsFiniteSet(PastEntries) /\ IsFiniteSet(shownSince)
    BY <1>3, FS_Subset
  <2>2. PastEntries \cup shownSince = AllEntries /\ PastEntries \cap shownSince = {}
    BY <1>3
  <2>3. Cardinality(PastEntries \cup shownSince)
          = Cardinality(PastEntries) + Cardinality(shownSince)
              - Cardinality(PastEntries \cap shownSince)
    BY <2>1, FS_Union
  <2>4. Cardinality(shownSince) \in Nat /\ Cardinality(PastEntries \cap shownSince) = 0
    BY <2>1, <2>2, FS_EmptySet, FS_CardinalityType
  <2>5. N = PastCount + Cardinality(shownSince)
    <3>1. N = Cardinality(PastEntries \cup shownSince)
      BY <2>2 DEF N
    <3> HIDE DEF shownSince
    <3> QED
      BY <1>3, <2>3, <2>4, <3>1
  <2> QED
    BY <1>3, <1>6, <1>8, <2>4, <2>5
<1>10. Last(shownFeed).type = "AUCTION_WIN" /\ Last(shownFeed).of = noun.winner
  BY <1>4 DEF Last, FeedEntry, winEntry
<1>11. \A i, j \in DOMAIN shownFeed : i < j => shownFeed[i].block >= shownFeed[j].block
  <2>1. SUFFICES ASSUME NEW i \in 1..(count + 1), NEW j \in 1..(count + 1), i < j
                 PROVE  shownFeed[i].block >= shownFeed[j].block
    BY <1>4
  <2> DEFINE e == shownFeed[i]
  <2>2. i \in 1..count
    BY <1>4, <2>1
  <2>3. e = sorted[N - i + 1] /\ e \in AllEntries /\ e \notin PastEntries
    BY <1>4, <1>7, <2>2
  <2>4. e.block \in Nat /\ e.block > WonIn
    BY <1>1, <1>2, <1>3, <2>3, PastEntriesFirst DEF FeedEntries
  <2>5. CASE j = count + 1
    <3>1. shownFeed[j].block = WonIn
      BY <1>4, <2>5 DEF winEntry, FeedEntry
    <3> QED
      BY <1>3, <2>4, <3>1
  <2>6. CASE j # count + 1
    <3> DEFINE f == shownFeed[j]
    <3>1. j \in 1..count
      BY <1>4, <2>6
    <3>2. f = sorted[N - j + 1] /\ f \in AllEntries
      BY <1>4, <1>7, <3>1
    <3>3. N - j + 1 < N - i + 1
      BY <1>3, <1>4, <2>1
    <3>4. SortsBefore(f, e)
      BY <1>5, <1>7, <2>2, <2>3, <3>1, <3>2, <3>3
    <3>5. f.block <= e.block /\ f.block \in Nat
      BY <1>3, <2>3, <3>2, <3>4, SortIsStrict DEF FeedEntries
    <3> QED
      BY <2>4, <3>5
  <2> QED
    BY <2>5, <2>6
<1>12. DOMAIN transferEvents \subseteq DOMAIN delegationEvents
  BY DEF FeedInv, FeedTypeOK
<1>13. \A e \in PastEntries : e.type # "PROPOSAL_VOTE" /\ e.of \in FeedPast
  BY DEF PastEntries, FeedEntry
<1>14. OfType("TRANSFER") = DOMAIN transferEvents \ FeedPast
  <2>1. ASSUME NEW e \in shownSince, e.type = "TRANSFER"
        PROVE  e.of \in DOMAIN transferEvents \ FeedPast
    <3>1. e.of \in DOMAIN transferEvents
          /\ e = FeedEntry("TRANSFER", delegationEvents[e.of].block, e.of)
      BY <1>1, <1>2, <2>1, LoggedEntries
    <3>2. e.of \notin FeedPast
      BY <3>1 DEF PastEntries
    <3> QED
      BY <3>1, <3>2
  <2>2. ASSUME NEW tx \in DOMAIN transferEvents, tx \notin FeedPast
        PROVE  tx \in OfType("TRANSFER")
    <3> DEFINE e == FeedEntry("TRANSFER", delegationEvents[tx].block, tx)
    <3>1. e \in AllEntries
      BY <1>1, <1>2, LoggedEntries DEF AllEntries
    <3>2. e.of = tx /\ e.type = "TRANSFER"
      BY DEF FeedEntry
    <3>3. e \in shownSince
      BY <1>13, <2>2, <3>1, <3>2
    <3> QED
      BY <3>2, <3>3
  <2> QED
    BY <2>1, <2>2
<1>15. OfType("DELEGATION") = DOMAIN delegationEvents \ FeedPast
  <2>1. ASSUME NEW e \in shownSince, e.type = "DELEGATION"
        PROVE  e.of \in DOMAIN delegationEvents \ FeedPast
    <3>1. e.of \in DOMAIN delegationEvents
          /\ e = FeedEntry("DELEGATION", delegationEvents[e.of].block, e.of)
      BY <1>1, <1>2, <2>1, LoggedEntries
    <3>2. e.of \notin FeedPast
      BY <3>1 DEF PastEntries
    <3> QED
      BY <3>1, <3>2
  <2>2. ASSUME NEW tx \in DOMAIN delegationEvents, tx \notin FeedPast
        PROVE  tx \in OfType("DELEGATION")
    <3> DEFINE e == FeedEntry("DELEGATION", delegationEvents[tx].block, tx)
    <3>1. e \in AllEntries
      BY <1>1, <1>2, LoggedEntries
    <3>2. e.of = tx /\ e.type = "DELEGATION"
      BY DEF FeedEntry
    <3>3. e \in shownSince
      BY <1>13, <2>2, <3>1, <3>2
    <3> QED
      BY <3>2, <3>3
  <2> QED
    BY <2>1, <2>2
<1>16. OfType("PROPOSAL_VOTE") = FeedListed
  <2>1. ASSUME NEW e \in shownSince, e.type = "PROPOSAL_VOTE"
        PROVE  e.of \in FeedListed
    BY <1>1, <1>2, <2>1, LoggedEntries
  <2>2. ASSUME NEW p \in FeedListed
        PROVE  p \in OfType("PROPOSAL_VOTE")
    <3>1. PICK e \in AllEntries : e.type = "PROPOSAL_VOTE" /\ e.of = p
      BY <1>1, <1>2, LoggedEntries
    <3>2. e \in shownSince
      BY <1>13, <3>1
    <3> QED
      BY <3>1, <3>2
  <2> QED
    BY <2>1, <2>2
<1> HIDE DEF shownSince
<1> QED
  BY <1>8, <1>9, <1>10, <1>11, <1>14, <1>15, <1>16 DEF FeedPast, FeedListed, shownFeed, rest

\* The feed of a noun that the page takes for a reward when it is one tells its whole
\* story, once and in order, whatever happened to it and however many transactions and
\* proposals there were (useNounActivity).
THEOREM FeedAlwaysTellsTheStory == NounActivitySpec => []FeedTellsTheNounsStory
<1>1. FeedInit => FeedInv
  BY FeedInitInv
<1>2. FeedInv /\ [NounActivityNext]_feedVars => FeedInv'
  BY FeedStep
<1>3. FeedInv => FeedTellsTheNounsStory
  BY FeedInvTellsTheStory
<1> QED
  BY <1>1, <1>2, <1>3, PTL DEF NounActivitySpec

-----------------------------------------------------------------------------
(* The artwork: bytes.                                                     *)

Bytes == 0 .. MaxRun

\* A number is its quotient and its remainder, and these are unique.
LEMMA DivMod ==
  ASSUME NEW q \in Nat, NEW w \in Nat \ {0}, NEW r \in 0 .. w - 1
  PROVE  (q * w + r) \div w = q /\ (q * w + r) % w = r
OBVIOUS

LEMMA QuotientAndRemainder ==
  ASSUME NEW c \in Nat, NEW w \in Nat \ {0}
  PROVE  (c \div w) * w + (c % w) = c /\ c % w \in 0 .. w - 1 /\ c \div w \in Nat
OBVIOUS

\* Rows of a width do not overlap.
LEMMA RowsApart ==
  ASSUME NEW w \in Nat, NEW a \in Nat, NEW b \in Nat, a < b
  PROVE  a * w + w <= b * w
OBVIOUS

\* A byte has two digits.
LEMMA HexFacts ==
  /\ Hex \in Nat \ {0} /\ Hex * Hex \in Nat
  /\ MaxRun \in Nat /\ MaxRun >= 1 /\ MaxRun + 1 = Hex * Hex
<1>1. Hex \in Nat /\ Hex > 1
  BY ZenonT(20), ImageAssumption
<1>2. Hex \in Nat \ {0} /\ Hex > 1
  BY <1>1
<1>3. Hex * Hex \in Nat /\ Hex * Hex > 1
  BY <1>2
<1> DEFINE square == Hex * Hex
<1> HIDE DEF square
<1>4. square \in Nat /\ square > 1 /\ MaxRun = square - 1
  BY <1>3 DEF square, MaxRun
<1>5. MaxRun \in Nat /\ MaxRun >= 1 /\ MaxRun + 1 = square
  BY <1>4
<1> QED
  BY <1>2, <1>3, <1>5 DEF square

\* Two digits say what a byte is.
LEMMA PaddedByte ==
  ASSUME NEW c \in Bytes
  PROVE  /\ toPaddedHex(c) \in Seq(Nat) /\ Len(toPaddedHex(c)) = 2
         /\ toPaddedHex(c)[1] * Hex + toPaddedHex(c)[2] = c
<1>1. c \in Nat /\ c < Hex * Hex
  BY HexFacts DEF Bytes
<1>2. toPaddedHex(c) = <<c \div Hex, c % Hex>>
  BY <1>1 DEF toPaddedHex
<1>3. (c \div Hex) * Hex + (c % Hex) = c /\ c % Hex \in Nat /\ c \div Hex \in Nat
  BY <1>1, HexFacts, QuotientAndRemainder
<1> QED
  BY <1>2, <1>3

\* Sequences of one size, joined.
LEMMA FlattenedBlocks ==
  ASSUME NEW n \in Nat, NEW size \in Nat, NEW seqs \in [1 .. n -> Seq(Nat)],
         \A i \in 1 .. n : Len(seqs[i]) = size
  PROVE  /\ FlattenSeq(seqs) \in Seq(Nat) /\ Len(FlattenSeq(seqs)) = n * size
         /\ \A i \in 1 .. n, j \in 1 .. size :
              FlattenSeq(seqs)[(i - 1) * size + j] = seqs[i][j]
<1>1. Len(seqs) = n
  OBVIOUS
<1>2. CASE n = 0
  <2>1. FlattenSeq(seqs) = seqs /\ seqs = <<>>
    BY <1>1, <1>2 DEF FlattenSeq
  <2> QED
    BY <1>2, <2>1
<1>3. CASE n # 0
  <2> DEFINE f == CHOOSE g : Flattens(seqs, n, g)
  <2>1. \E g : Flattens(seqs, n, g)
    BY FlatteningExists
  <2>2. Flattens(seqs, n, f)
    BY <2>1
  <2>3. FlattenSeq(seqs) = f[n]
    BY <1>1, <1>3 DEF FlattenSeq, Flattens
  <2> HIDE DEF f
  <2>4. \A i \in 1 .. n : f[i] = IF i = 1 THEN seqs[i] ELSE f[i - 1] \o seqs[i]
    BY <2>2 DEF Flattens
  <2> DEFINE Flat(m) ==
        /\ f[m] \in Seq(Nat) /\ Len(f[m]) = m * size
        /\ \A i \in 1 .. m, j \in 1 .. size : f[m][(i - 1) * size + j] = seqs[i][j]
  <2> DEFINE T == {m \in Nat : m + 1 <= n => Flat(m + 1)}
  <2>5. 0 \in T
    <3>1. f[1] = seqs[1]
      BY <1>3, <2>4
    <3>2. seqs[1] \in Seq(Nat) /\ Len(seqs[1]) = size
      BY <1>3
    <3>3. \A i \in 1 .. 1, j \in 1 .. size : (i - 1) * size + j = j /\ i = 1
      OBVIOUS
    <3>4. Flat(1)
      BY <3>1, <3>2, <3>3
    <3> HIDE DEF Flat
    <3> QED
      BY <3>4
  <2>6. ASSUME NEW k \in 1 .. n, k + 1 <= n, Flat(k)
        PROVE  Flat(k + 1)
    <3> DEFINE s == f[k] t == seqs[k + 1] before == k * size
    <3>1. k \in Nat /\ k + 1 \in 1 .. n /\ k + 1 # 1 /\ (k + 1) - 1 = k
      BY <2>6
    <3>2. f[k + 1] = s \o t
      BY <2>4, <3>1
    <3>3. s \in Seq(Nat) /\ t \in Seq(Nat) /\ Len(s) = before /\ Len(t) = size
      BY <2>6, <3>1
    <3>4. before + size = (k + 1) * size /\ before \in Nat
      BY <3>1
    <3>5. \A i \in 1 .. k, j \in 1 .. size : s[(i - 1) * size + j] = seqs[i][j]
      BY <2>6
    <3>6. t = seqs[k + 1] /\ before = k * size
      OBVIOUS
    <3> HIDE DEF s, t, before, Flat
    <3>7. /\ s \o t \in Seq(Nat) /\ Len(s \o t) = before + size
          /\ \A p \in 1 .. before + size :
               (s \o t)[p] = IF p <= before THEN s[p] ELSE t[p - before]
      BY <3>3, ConcatProperties
    <3>8. ASSUME NEW i \in 1 .. k + 1, NEW j \in 1 .. size
          PROVE  (s \o t)[(i - 1) * size + j] = seqs[i][j]
      <4>1. CASE i <= k
        <5>1. i \in 1 .. k /\ i - 1 \in Nat /\ i - 1 < k
          BY <3>1, <4>1
        <5> DEFINE a == (i - 1) * size
        <5>2. a + size <= before /\ a \in Nat
          BY <3>1, <3>6, <5>1, RowsApart
        <5> HIDE DEF a
        <5>3. a + j \in 1 .. before + size /\ a + j <= before
          BY <3>4, <5>2
        <5>4. (s \o t)[a + j] = s[a + j]
          BY <3>7, <5>3
        <5> QED
          BY <3>5, <5>1, <5>4 DEF a
      <4>2. CASE i = k + 1
        <5>1. (i - 1) * size + j = before + j
          BY <3>1, <3>6, <4>2
        <5>2. before + j \in 1 .. before + size /\ ~(before + j <= before)
              /\ (before + j) - before = j
          BY <3>4
        <5>3. (s \o t)[before + j] = t[j]
          BY <3>7, <5>2
        <5> QED
          BY <3>6, <4>2, <5>1, <5>3
      <4>3. i <= k \/ i = k + 1
        BY <3>1
      <4> QED
        BY <4>1, <4>2, <4>3
    <3> QED
      BY <3>2, <3>7, <3>4, <3>8 DEF Flat
  <2> HIDE DEF Flat
  <2>7. ASSUME NEW m \in T
        PROVE  m + 1 \in T
    <3>1. m \in Nat /\ m + 1 \in Nat
      OBVIOUS
    <3>2. CASE m + 2 <= n
      <4>1. m + 1 \in 1 .. n /\ (m + 1) + 1 <= n /\ Flat(m + 1)
        BY <3>1, <3>2
      <4>2. Flat((m + 1) + 1)
        BY <2>6, <4>1
      <4> QED
        BY <3>1, <4>2
    <3>3. CASE ~(m + 2 <= n)
      BY <3>1, <3>3
    <3> QED
      BY <3>2, <3>3
  <2>8. T = Nat
    <3>1. T \in SUBSET Nat
      OBVIOUS
    <3> HIDE DEF T
    <3> QED
      BY <2>5, <2>7, <3>1, SimpleInduction
  <2>9. Flat(n)
    <3>1. n - 1 \in Nat /\ (n - 1) + 1 = n
      BY <1>3
    <3>2. n - 1 \in T
      <4> HIDE DEF T
      <4> QED
        BY <2>8, <3>1
    <3>3. (n - 1) + 1 <= n => Flat((n - 1) + 1)
      BY <3>2
    <3> QED
      BY <3>1, <3>3
  <2> QED
    BY <2>3, <2>9 DEF Flat
<1> QED
  BY <1>2, <1>3

-----------------------------------------------------------------------------
(* The artwork: runs.                                                      *)

RunRecords == [length : 1 .. MaxRun, color : Bytes]

\* The runs, of which run r ends at position at[r], say what the first n indexes are.
TellsRuns(runs, at, indexes, n) ==
  /\ at \in [0 .. Len(runs) -> Nat] /\ at[0] = 0 /\ at[Len(runs)] = n
  /\ \A r \in 1 .. Len(runs) : at[r] = at[r - 1] + runs[r].length
  /\ \A r \in 1 .. Len(runs) : \A p \in Nat :
       at[r - 1] < p /\ p <= at[r] => indexes[p] = runs[r].color

\* A pixel that makes a run of its own.
LEMMA RunBegins ==
  ASSUME NEW runs \in Seq(RunRecords), NEW at, NEW indexes, NEW n \in Nat,
         TellsRuns(runs, at, indexes, n), indexes[n + 1] \in Bytes
  PROVE  LET more == Append(runs, [length |-> 1, color |-> indexes[n + 1]])
         IN more \in Seq(RunRecords) /\ \E on : TellsRuns(more, on, indexes, n + 1)
<1> DEFINE run == [length |-> 1, color |-> indexes[n + 1]]
           more == Append(runs, run)
           len == Len(runs)
           on == [r \in 0 .. len + 1 |-> IF r = len + 1 THEN n + 1 ELSE at[r]]
<1>1. run \in RunRecords /\ run.length = 1 /\ run.color = indexes[n + 1]
  BY HexFacts DEF RunRecords
<1> HIDE DEF run
<1>2. /\ more \in Seq(RunRecords) /\ len \in Nat /\ Len(more) = len + 1
      /\ more[len + 1] = run /\ \A r \in 1 .. len : more[r] = runs[r]
  BY <1>1
<1>3. /\ at \in [0 .. len -> Nat] /\ at[0] = 0 /\ at[len] = n
      /\ \A r \in 1 .. len : at[r] = at[r - 1] + runs[r].length
      /\ \A r \in 1 .. len : \A p \in Nat :
           at[r - 1] < p /\ p <= at[r] => indexes[p] = runs[r].color
  BY DEF TellsRuns
<1> HIDE DEF more, len
<1>4. /\ on \in [0 .. len + 1 -> Nat] /\ on[0] = 0 /\ on[len + 1] = n + 1
      /\ on[len] = n /\ \A r \in 0 .. len : on[r] = at[r]
  BY <1>2, <1>3
<1> HIDE DEF on
<1>5. ASSUME NEW r \in 1 .. len + 1
      PROVE  /\ on[r] = on[r - 1] + more[r].length
             /\ \A p \in Nat : on[r - 1] < p /\ p <= on[r] => indexes[p] = more[r].color
  <2>1. CASE r = len + 1
    <3>1. r - 1 = len /\ on[r] = n + 1 /\ on[r - 1] = n /\ more[r] = run
      BY <1>2, <1>4, <2>1
    <3>2. \A p \in Nat : n < p /\ p <= n + 1 => p = n + 1
      OBVIOUS
    <3>3. \A p \in Nat : on[r - 1] < p /\ p <= on[r] => indexes[p] = more[r].color
      BY <1>1, <3>1, <3>2
    <3> QED
      BY <1>1, <3>1, <3>3
  <2>2. CASE r # len + 1
    <3>1. r \in 1 .. len /\ r - 1 \in 0 .. len /\ r \in 0 .. len
      BY <1>2, <2>2
    <3>2. on[r] = at[r] /\ on[r - 1] = at[r - 1] /\ more[r] = runs[r]
      BY <1>2, <1>4, <3>1
    <3> QED
      BY <1>3, <3>1, <3>2
  <2> QED
    BY <2>1, <2>2
<1>6. TellsRuns(more, on, indexes, n + 1)
  BY <1>2, <1>4, <1>5 DEF TellsRuns
<1> QED
  BY <1>2, <1>6 DEF more, run

\* A pixel that the last run goes on to.
LEMMA RunGrows ==
  ASSUME NEW runs \in Seq(RunRecords), NEW at, NEW indexes, NEW n \in Nat,
         TellsRuns(runs, at, indexes, n), runs # <<>>,
         Last(runs).color = indexes[n + 1], Last(runs).length < MaxRun
  PROVE  LET more == [runs EXCEPT ![Len(runs)].length = @ + 1]
         IN more \in Seq(RunRecords) /\ \E on : TellsRuns(more, on, indexes, n + 1)
<1> DEFINE len == Len(runs)
           run == runs[len]
           longer == [run EXCEPT !.length = @ + 1]
           more == [runs EXCEPT ![len] = longer]
           on == [at EXCEPT ![len] = n + 1]
<1>1. /\ len \in Nat \ {0} /\ len \in 1 .. len /\ run \in RunRecords
      /\ run.color = indexes[n + 1] /\ run.length < MaxRun
      /\ \A r \in 1 .. len : runs[r] \in RunRecords
  BY DEF Last
<1> HIDE DEF run
<1>2. run.length + 1 \in 1 .. MaxRun
  BY <1>1, HexFacts DEF RunRecords
<1>3. longer \in RunRecords /\ longer.length = run.length + 1 /\ longer.color = indexes[n + 1]
  BY <1>1, <1>2 DEF RunRecords
<1> HIDE DEF longer
<1>4. /\ more \in Seq(RunRecords) /\ Len(more) = len /\ more[len] = longer
      /\ \A r \in 1 .. len : r # len => more[r] = runs[r]
  BY <1>1, <1>3
<1>5. /\ at \in [0 .. len -> Nat] /\ at[0] = 0 /\ at[len] = n
      /\ \A r \in 1 .. len : at[r] = at[r - 1] + runs[r].length
      /\ \A r \in 1 .. len : \A p \in Nat :
           at[r - 1] < p /\ p <= at[r] => indexes[p] = runs[r].color
  BY DEF TellsRuns
<1>6. runs[len] = run
  BY DEF run
<1> HIDE DEF more, len
<1>7. /\ on \in [0 .. len -> Nat] /\ on[0] = 0 /\ on[len] = n + 1
      /\ \A r \in 0 .. len : r # len => on[r] = at[r]
  BY <1>1, <1>5
<1> HIDE DEF on
<1>8. ASSUME NEW r \in 1 .. len
      PROVE  /\ on[r] = on[r - 1] + more[r].length
             /\ \A p \in Nat : on[r - 1] < p /\ p <= on[r] => indexes[p] = more[r].color
  <2>1. r - 1 \in 0 .. len /\ r - 1 # len /\ on[r - 1] = at[r - 1]
    BY <1>1, <1>7
  <2>2. CASE r = len
    <3>1. on[r] = n + 1 /\ more[r] = longer /\ n = at[r - 1] + run.length
      BY <1>4, <1>5, <1>7, <1>6, <2>2
    <3>2. \A p \in Nat : at[r - 1] < p /\ p <= n => indexes[p] = run.color
      BY <1>5, <1>6, <2>2
    <3>3. \A p \in Nat : p <= n + 1 => p <= n \/ p = n + 1
      OBVIOUS
    <3>4. \A p \in Nat : on[r - 1] < p /\ p <= on[r] => indexes[p] = more[r].color
      BY <1>1, <1>3, <2>1, <3>1, <3>2, <3>3
    <3>5. run.length \in Nat /\ at[r - 1] \in Nat
      BY <1>1, <1>5, <2>1, HexFacts DEF RunRecords
    <3> QED
      BY <1>3, <2>1, <3>1, <3>4, <3>5
  <2>3. CASE r # len
    <3>1. on[r] = at[r] /\ more[r] = runs[r]
      BY <1>4, <1>7, <2>3
    <3> QED
      BY <1>5, <2>1, <3>1
  <2> QED
    BY <2>2, <2>3
<1>9. TellsRuns(more, on, indexes, n + 1)
  BY <1>4, <1>7, <1>8 DEF TellsRuns
<1>10. more = [runs EXCEPT ![Len(runs)].length = @ + 1]
  BY DEF more, len, longer, run
<1> QED
  BY <1>4, <1>9, <1>10

\* The indexes are told pixel by pixel.
LEMMA RunsOn ==
  ASSUME NEW runs \in Seq(RunRecords), NEW at, NEW indexes, NEW n \in Nat,
         TellsRuns(runs, at, indexes, n), indexes[n + 1] \in Bytes
  PROVE  /\ RunOn(runs, indexes[n + 1]) \in Seq(RunRecords)
         /\ \E on : TellsRuns(RunOn(runs, indexes[n + 1]), on, indexes, n + 1)
<1>1. CASE runs # <<>> /\ Last(runs).color = indexes[n + 1] /\ Last(runs).length < MaxRun
  BY <1>1, RunGrows DEF RunOn
<1>2. CASE ~(runs # <<>> /\ Last(runs).color = indexes[n + 1] /\ Last(runs).length < MaxRun)
  BY <1>2, RunBegins DEF RunOn
<1> QED
  BY <1>1, <1>2

\* The runs after the first n indexes, for every n up to their number.
RunsSoFar(indexes, len, f) ==
  f = [n \in 0 .. len |-> IF n = 0 THEN <<>> ELSE RunOn(f[n - 1], indexes[n])]

\* A run more is a run, and the runs so far are sequences of them.
LEMMA RunOnIsRuns ==
  ASSUME NEW runs \in Seq(RunRecords), NEW index \in Bytes
  PROVE  RunOn(runs, index) \in Seq(RunRecords)
<1>1. CASE runs # <<>> /\ Last(runs).color = index /\ Last(runs).length < MaxRun
  <2> DEFINE len == Len(runs)
             run == runs[len]
             longer == [run EXCEPT !.length = @ + 1]
  <2>1. len \in 1 .. Len(runs) /\ run \in RunRecords /\ run.length < MaxRun
    BY <1>1 DEF Last
  <2> HIDE DEF run
  <2>2. run.length + 1 \in 1 .. MaxRun
    BY <2>1, HexFacts DEF RunRecords
  <2>3. longer \in RunRecords
    BY <2>1, <2>2 DEF RunRecords
  <2> HIDE DEF longer
  <2>4. [runs EXCEPT ![len] = longer] \in Seq(RunRecords)
    BY <2>1, <2>3
  <2> QED
    BY <1>1, <2>4 DEF RunOn, longer, run
<1>2. CASE ~(runs # <<>> /\ Last(runs).color = index /\ Last(runs).length < MaxRun)
  <2>1. [length |-> 1, color |-> index] \in RunRecords
    BY HexFacts DEF RunRecords
  <2> QED
    BY <1>2, <2>1 DEF RunOn
<1> QED
  BY <1>1, <1>2

\* The recursion over the indexes ends.
LEMMA RunsSoFarExists ==
  ASSUME NEW len \in Nat, NEW indexes \in [1 .. len -> Bytes]
  PROVE  \E f : RunsSoFar(indexes, len, f)
<1> DEFINE Q == Seq(RunRecords)
           turn == [n \in 1 .. len |-> [runs \in Q |-> RunOn(runs, indexes[n])]]
<1>1. <<>> \in Q /\ turn \in [1 .. len -> [Q -> Q]]
  <2>1. \A n \in 1 .. len, runs \in Q : RunOn(runs, indexes[n]) \in Q
    BY RunOnIsRuns
  <2>2. <<>> \in Q
    OBVIOUS
  <2> HIDE DEF Q
  <2> QED
    BY <2>1, <2>2
<1>2. PICK g : Iterates(Q, <<>>, len, turn, g)
  <2> HIDE DEF Q, turn
  <2> QED
    BY <1>1, IterationExists
<1>3. /\ g \in [0 .. len -> Q] /\ g[0] = <<>>
      /\ \A n \in 1 .. len : g[n] = turn[n][g[n - 1]]
  BY <1>2 DEF Iterates
<1> HIDE DEF Q
<1>4. ASSUME NEW n \in 0 .. len
      PROVE  g[n] = IF n = 0 THEN <<>> ELSE RunOn(g[n - 1], indexes[n])
  <2>1. CASE n = 0
    BY <1>3, <2>1
  <2>2. CASE n # 0
    <3>1. n \in 1 .. len /\ n - 1 \in 0 .. len
      BY <2>2
    <3>2. g[n - 1] \in Q
      BY <1>3, <3>1
    <3> QED
      BY <1>3, <2>2, <3>1, <3>2
  <2> QED
    BY <2>1, <2>2
<1> DEFINE h == [n \in 0 .. len |-> IF n = 0 THEN <<>> ELSE RunOn(g[n - 1], indexes[n])]
<1>5. g = [n \in 0 .. len |-> g[n]] /\ h = [n \in 0 .. len |-> h[n]]
  BY <1>3
<1>6. \A n \in 0 .. len : g[n] = h[n]
  BY <1>4
<1> HIDE DEF h
<1>7. g = h
  BY <1>5, <1>6
<1> QED
  BY <1>7 DEF RunsSoFar, h

\* The runs so far tell the indexes so far.
LEMMA RunsSoFarTell ==
  ASSUME NEW len \in Nat, NEW indexes \in [1 .. len -> Bytes], NEW f,
         RunsSoFar(indexes, len, f)
  PROVE  f[len] \in Seq(RunRecords) /\ \E at : TellsRuns(f[len], at, indexes, len)
<1> DEFINE Told(n) == f[n] \in Seq(RunRecords) /\ \E at : TellsRuns(f[n], at, indexes, n)
           T == {n \in Nat : n <= len => Told(n)}
<1>1. f[0] = <<>> /\ \A n \in 1 .. len : f[n] = RunOn(f[n - 1], indexes[n])
  BY DEF RunsSoFar
<1>2. Told(0)
  <2>1. <<>> \in Seq(RunRecords) /\ Len(<<>>) = 0
    OBVIOUS
  <2>2. TellsRuns(<<>>, [r \in 0 .. 0 |-> 0], indexes, 0)
    BY <2>1 DEF TellsRuns
  <2> QED
    BY <1>1, <2>1, <2>2
<1>3. ASSUME NEW n \in Nat, n + 1 <= len, Told(n)
      PROVE  Told(n + 1)
  <2>1. n + 1 \in 1 .. len /\ (n + 1) - 1 = n
    BY <1>3
  <2>2. f[n + 1] = RunOn(f[n], indexes[n + 1]) /\ indexes[n + 1] \in Bytes
    BY <1>1, <2>1
  <2>3. PICK at : TellsRuns(f[n], at, indexes, n)
    BY <1>3
  <2> QED
    BY <1>3, <2>2, <2>3, RunsOn
<1> HIDE DEF Told
<1>4. \A n \in T : n + 1 \in T
  BY <1>3
<1>5. 0 \in T /\ T \in SUBSET Nat
  BY <1>2
<1>6. T = Nat
  <2> HIDE DEF T
  <2> QED
    BY <1>4, <1>5, SimpleInduction
<1>7. Told(len)
  BY <1>6
<1> QED
  BY <1>7 DEF Told

\* What is encoded is runs that tell the indexes, four digits each.
LEMMA EncodedRuns ==
  ASSUME NEW len \in Nat, NEW indexes \in [1 .. len -> Bytes]
  PROVE  \E runs \in Seq(RunRecords) : \E at :
           /\ TellsRuns(runs, at, indexes, len)
           /\ encode(indexes) =
                FlattenSeq([r \in 1 .. Len(runs) |->
                              toPaddedHex(runs[r].length) \o toPaddedHex(runs[r].color)])
<1> DEFINE f == CHOOSE g : RunsSoFar(indexes, len, g)
<1>1. RunsSoFar(indexes, len, f)
  BY RunsSoFarExists
<1>2. Len(indexes) = len
  OBVIOUS
<1>3. encode(indexes) = FlattenSeq([r \in DOMAIN f[len] |->
                          toPaddedHex(f[len][r].length) \o toPaddedHex(f[len][r].color)])
  BY <1>2 DEF encode, RunsSoFar
<1> HIDE DEF f
<1>4. f[len] \in Seq(RunRecords) /\ \E at : TellsRuns(f[len], at, indexes, len)
  BY <1>1, RunsSoFarTell
<1>5. DOMAIN f[len] = 1 .. Len(f[len])
  BY <1>4
<1> QED
  BY <1>3, <1>4, <1>5

-----------------------------------------------------------------------------
(* The artwork: what is encoded is decoded.                                *)

\* A byte of the data is its two digits.
LEMMA ByteOfDigits ==
  ASSUME NEW data \in Seq(Nat), NEW n \in Nat \ {0}, 2 * n <= Len(data)
  PROVE  Byte(data, n) = data[2 * n - 1] * Hex + data[2 * n]
<1> DEFINE digits == SubSeq(data, 2 * n - 1, 2 * n)
<1>1. digits[1] = data[2 * n - 1] /\ digits[2] = data[2 * n]
  <2>1. 2 * n - 1 \in 1 .. Len(data) /\ 2 * n \in 1 .. Len(data)
    OBVIOUS
  <2>2. \A i \in 1 .. 2 : digits[i] = data[(2 * n - 1) + i - 1]
    BY <2>1, SubSeqProperties
  <2>3. (2 * n - 1) + 1 - 1 = 2 * n - 1 /\ (2 * n - 1) + 2 - 1 = 2 * n
    OBVIOUS
  <2>4. 1 \in 1 .. 2 /\ 2 \in 1 .. 2
    OBVIOUS
  <2> HIDE DEF digits
  <2> QED
    BY <2>2, <2>3, <2>4
<1> HIDE DEF digits
<1>2. Byte(data, n) = digits[1] * Hex + digits[2]
  BY DEF Byte, parseInt, digits
<1> QED
  BY <1>1, <1>2

\* The data of an image: five bytes and two for every run.
DataOf(metadata, runs) ==
  FlattenSeq([n \in 1 .. 5 |-> toPaddedHex(metadata[n])])
    \o FlattenSeq([r \in 1 .. Len(runs) |->
                     toPaddedHex(runs[r].length) \o toPaddedHex(runs[r].color)])

\* Two pairs, joined.
LEMMA TwoPairs ==
  ASSUME NEW s \in Seq(Nat), NEW t \in Seq(Nat), Len(s) = 2, Len(t) = 2
  PROVE  /\ s \o t \in Seq(Nat) /\ Len(s \o t) = 4
         /\ (s \o t)[1] = s[1] /\ (s \o t)[2] = s[2]
         /\ (s \o t)[3] = t[1] /\ (s \o t)[4] = t[2]
<1>1. /\ s \o t \in Seq(Nat) /\ Len(s \o t) = Len(s) + Len(t)
      /\ \A p \in 1 .. Len(s) + Len(t) :
           (s \o t)[p] = IF p <= Len(s) THEN s[p] ELSE t[p - Len(s)]
  BY ConcatProperties
<1> DEFINE u == s \o t
<1> HIDE DEF u
<1>2. u \in Seq(Nat) /\ Len(u) = 4
  BY <1>1 DEF u
<1>3. \A p \in 1 .. 4 : u[p] = IF p <= 2 THEN s[p] ELSE t[p - 2]
  BY <1>1 DEF u
<1>4. u[1] = s[1] /\ u[2] = s[2] /\ u[3] = t[1] /\ u[4] = t[2]
  BY <1>3
<1> QED
  BY <1>2, <1>4 DEF u

\* The digits of the data.
LEMMA DataDigits ==
  ASSUME NEW metadata \in [1 .. 5 -> Bytes], NEW runs \in Seq(RunRecords)
  PROVE  LET data == DataOf(metadata, runs)
         IN /\ data \in Seq(Nat) /\ Len(data) = 10 + 4 * Len(runs)
            /\ \A n \in 1 .. 5 :
                 data[2 * n - 1] * Hex + data[2 * n] = metadata[n]
            /\ \A r \in 1 .. Len(runs) :
                 /\ data[4 * r + 7] * Hex + data[4 * r + 8] = runs[r].length
                 /\ data[4 * r + 9] * Hex + data[4 * r + 10] = runs[r].color
<1> DEFINE len == Len(runs)
           pairs == [n \in 1 .. 5 |-> toPaddedHex(metadata[n])]
           quads == [r \in 1 .. len |->
                       toPaddedHex(runs[r].length) \o toPaddedHex(runs[r].color)]
           head == FlattenSeq(pairs)
           tail == FlattenSeq(quads)
           data == head \o tail
<1>1. \A n \in 1 .. 5 : /\ pairs[n] \in Seq(Nat) /\ Len(pairs[n]) = 2
                        /\ pairs[n][1] * Hex + pairs[n][2] = metadata[n]
  BY PaddedByte
<1>2. ASSUME NEW r \in 1 .. len
      PROVE  /\ quads[r] \in Seq(Nat) /\ Len(quads[r]) = 4
             /\ quads[r][1] * Hex + quads[r][2] = runs[r].length
             /\ quads[r][3] * Hex + quads[r][4] = runs[r].color
  <2> DEFINE s == toPaddedHex(runs[r].length) t == toPaddedHex(runs[r].color)
  <2>1. runs[r] \in RunRecords
    OBVIOUS
  <2>2. runs[r].length \in Bytes /\ runs[r].color \in Bytes
    <3>1. runs[r].length \in 1 .. MaxRun /\ runs[r].color \in Bytes
      BY <2>1 DEF RunRecords
    <3> QED
      BY <3>1, HexFacts DEF Bytes
  <2>3. /\ s \in Seq(Nat) /\ Len(s) = 2 /\ s[1] * Hex + s[2] = runs[r].length
        /\ t \in Seq(Nat) /\ Len(t) = 2 /\ t[1] * Hex + t[2] = runs[r].color
    BY <2>2, PaddedByte
  <2>4. quads[r] = s \o t
    OBVIOUS
  <2> HIDE DEF s, t, quads
  <2>5. /\ s \o t \in Seq(Nat) /\ Len(s \o t) = 4
        /\ (s \o t)[1] = s[1] /\ (s \o t)[2] = s[2]
        /\ (s \o t)[3] = t[1] /\ (s \o t)[4] = t[2]
    BY <2>3, TwoPairs
  <2> QED
    BY <2>3, <2>4, <2>5
<1>3. len \in Nat /\ pairs \in [1 .. 5 -> Seq(Nat)] /\ quads \in [1 .. len -> Seq(Nat)]
  <2>1. len \in Nat
    OBVIOUS
  <2>2. pairs = [n \in 1 .. 5 |-> pairs[n]] /\ quads = [r \in 1 .. len |-> quads[r]]
    OBVIOUS
  <2> HIDE DEF pairs, quads, len
  <2> QED
    BY <1>1, <1>2, <2>1, <2>2
<1> HIDE DEF pairs, quads, len
<1>4. /\ head \in Seq(Nat) /\ Len(head) = 5 * 2
      /\ \A n \in 1 .. 5, j \in 1 .. 2 : head[(n - 1) * 2 + j] = pairs[n][j]
  <2>1. 5 \in Nat /\ 2 \in Nat /\ \A n \in 1 .. 5 : Len(pairs[n]) = 2
    BY <1>1
  <2> QED
    BY <1>3, <2>1, FlattenedBlocks, Zenon
<1>5. /\ tail \in Seq(Nat) /\ Len(tail) = len * 4
      /\ \A r \in 1 .. len, j \in 1 .. 4 : tail[(r - 1) * 4 + j] = quads[r][j]
  <2>1. 4 \in Nat /\ \A r \in 1 .. len : Len(quads[r]) = 4
    BY <1>2
  <2> QED
    BY <1>3, <2>1, FlattenedBlocks, Zenon
<1> HIDE DEF head, tail
<1>6. /\ data \in Seq(Nat) /\ Len(data) = 10 + 4 * len
      /\ \A p \in 1 .. 10 : data[p] = head[p]
      /\ \A p \in 1 .. 4 * len : data[10 + p] = tail[p]
  <2>1. /\ data \in Seq(Nat) /\ Len(data) = Len(head) + Len(tail)
        /\ \A p \in 1 .. Len(head) + Len(tail) :
             data[p] = IF p <= Len(head) THEN head[p] ELSE tail[p - Len(head)]
    BY <1>4, <1>5, ConcatProperties
  <2>2. Len(head) = 10 /\ Len(tail) = 4 * len
    BY <1>3, <1>4, <1>5
  <2> HIDE DEF data
  <2>3. ASSUME NEW p \in 1 .. 10
        PROVE  data[p] = head[p]
    <3>1. p \in 1 .. 10 + 4 * len /\ p <= 10
      BY <1>3
    <3> QED  BY ONLY <2>1, <2>2, <3>1
  <2>4. ASSUME NEW p \in 1 .. 4 * len
        PROVE  data[10 + p] = tail[p]
    <3>1. 10 + p \in 1 .. 10 + 4 * len /\ ~(10 + p <= 10) /\ (10 + p) - 10 = p
      BY <1>3
    <3> QED
      BY <2>1, <2>2, <3>1
  <2> QED
    BY <1>3, <2>1, <2>2, <2>3, <2>4
<1> HIDE DEF data
<1>7. ASSUME NEW n \in 1 .. 5
      PROVE  data[2 * n - 1] * Hex + data[2 * n] = metadata[n]
  <2>1. /\ 2 * n - 1 \in 1 .. 10 /\ 2 * n \in 1 .. 10
        /\ (n - 1) * 2 + 1 = 2 * n - 1 /\ (n - 1) * 2 + 2 = 2 * n
    OBVIOUS
  <2>2. 1 \in 1 .. 2 /\ 2 \in 1 .. 2
    OBVIOUS
  <2>3. head[(n - 1) * 2 + 1] = pairs[n][1] /\ head[(n - 1) * 2 + 2] = pairs[n][2]
    BY <1>4, <2>2, Zenon
  <2>4. data[2 * n - 1] = head[2 * n - 1] /\ data[2 * n] = head[2 * n]
    BY <1>6, <2>1
  <2>5. data[2 * n - 1] = pairs[n][1] /\ data[2 * n] = pairs[n][2]
    BY <2>1, <2>3, <2>4
  <2> QED
    BY <1>1, <2>5
<1>8. ASSUME NEW r \in 1 .. len
      PROVE  /\ data[4 * r + 7] * Hex + data[4 * r + 8] = runs[r].length
             /\ data[4 * r + 9] * Hex + data[4 * r + 10] = runs[r].color
  <2>1. ASSUME NEW j \in 1 .. 4
        PROVE  data[4 * r + 6 + j] = quads[r][j]
    <3>1. (r - 1) * 4 + j \in 1 .. 4 * len /\ 10 + ((r - 1) * 4 + j) = 4 * r + 6 + j
      BY <1>3
    <3>2. data[10 + ((r - 1) * 4 + j)] = tail[(r - 1) * 4 + j]
      BY <1>6, <3>1
    <3> QED
      BY <1>5, <3>1, <3>2
  <2>2. /\ 4 * r + 6 + 1 = 4 * r + 7 /\ 4 * r + 6 + 2 = 4 * r + 8
        /\ 4 * r + 6 + 3 = 4 * r + 9 /\ 4 * r + 6 + 4 = 4 * r + 10
    OBVIOUS
  <2>3. /\ data[4 * r + 7] = quads[r][1] /\ data[4 * r + 8] = quads[r][2]
        /\ data[4 * r + 9] = quads[r][3] /\ data[4 * r + 10] = quads[r][4]
    BY <2>1, <2>2
  <2> QED
    BY <1>2, <2>3
<1>9. data = DataOf(metadata, runs)
  BY DEF data, head, tail, pairs, quads, len, DataOf
<1> QED
  BY <1>6, <1>7, <1>8, <1>9 DEF len

\* The bounds and the runs that were encoded are those that are decoded.
LEMMA DecodesWhatWasEncoded ==
  ASSUME NEW metadata \in [1 .. 5 -> Bytes], NEW runs \in Seq(RunRecords)
  PROVE  LET image == decodeImage(DataOf(metadata, runs))
         IN /\ image.bounds = [top |-> metadata[2], right |-> metadata[3],
                               bottom |-> metadata[4], left |-> metadata[5]]
            /\ Len(image.rects) = Len(runs)
            /\ \A r \in 1 .. Len(runs) : image.rects[r] = runs[r]
<1> DEFINE data == DataOf(metadata, runs)
           len == Len(runs)
<1>1. len \in Nat /\ \A r \in 1 .. len : runs[r] \in RunRecords
  OBVIOUS
<1>2. /\ data \in Seq(Nat) /\ Len(data) = 10 + 4 * len
      /\ \A n \in 1 .. 5 : data[2 * n - 1] * Hex + data[2 * n] = metadata[n]
      /\ \A r \in 1 .. len :
           /\ data[4 * r + 7] * Hex + data[4 * r + 8] = runs[r].length
           /\ data[4 * r + 9] * Hex + data[4 * r + 10] = runs[r].color
  BY DataDigits
<1>3. data \in Seq(Nat) /\ Len(data) = 10 + 4 * len
  BY <1>2
<1> HIDE DEF data, len
<1>4. \A n \in 1 .. 5 : Byte(data, n) = metadata[n]
  <2> SUFFICES ASSUME NEW n \in 1 .. 5
               PROVE  Byte(data, n) = metadata[n]
    OBVIOUS
  <2>1. n \in Nat \ {0} /\ 2 * n <= Len(data)
    BY <1>1, <1>3
  <2> QED
    BY <1>2, <2>1, ByteOfDigits
<1>5. ASSUME NEW r \in 1 .. len
      PROVE  Byte(data, 2 * r + 4) = runs[r].length /\ Byte(data, 2 * r + 5) = runs[r].color
  <2> DEFINE a == 2 * r + 4 b == 2 * r + 5
  <2>1. /\ a \in Nat \ {0} /\ 2 * a <= Len(data) /\ b \in Nat \ {0} /\ 2 * b <= Len(data)
        /\ 2 * a - 1 = 4 * r + 7 /\ 2 * a = 4 * r + 8
        /\ 2 * b - 1 = 4 * r + 9 /\ 2 * b = 4 * r + 10
    BY <1>1, <1>3
  <2> HIDE DEF a, b
  <2>2. /\ Byte(data, a) = data[2 * a - 1] * Hex + data[2 * a]
        /\ Byte(data, b) = data[2 * b - 1] * Hex + data[2 * b]
    BY <1>2, <2>1, ByteOfDigits
  <2> QED
    BY <1>2, <2>1, <2>2 DEF a, b
<1>6. (Len(data) - 10) \div 4 = len
  BY <1>1, <1>3
<1> DEFINE rects == [r \in 1 .. len |-> [length |-> Byte(data, 2 * r + 4),
                                         color |-> Byte(data, 2 * r + 5)]]
<1>7. decodeImage(data).rects = rects
  BY <1>6 DEF decodeImage
<1>8. \A r \in 1 .. len : rects[r] = runs[r]
  <2> SUFFICES ASSUME NEW r \in 1 .. len
               PROVE  rects[r] = runs[r]
    OBVIOUS
  <2>1. rects[r] = [length |-> runs[r].length, color |-> runs[r].color]
    BY <1>5
  <2>2. runs[r] \in RunRecords
    BY <1>1
  <2>3. runs[r] = [length |-> runs[r].length, color |-> runs[r].color]
    BY <2>2 DEF RunRecords
  <2> QED
    BY <2>1, <2>3
<1>9. Len(rects) = len
  BY <1>1
<1> HIDE DEF rects
<1>10. decodeImage(data).bounds = [top |-> metadata[2], right |-> metadata[3],
                                  bottom |-> metadata[4], left |-> metadata[5]]
  BY <1>4 DEF decodeImage
<1> QED
  BY <1>7, <1>8, <1>9, <1>10 DEF data, len

-----------------------------------------------------------------------------
(* The artwork: the palette.                                               *)

\* The colours, the one of no colour among them.
Colors == STRING \cup {Transparent}
Pixels == [clear : BOOLEAN, color : Colors]
Palettes == {colors \in Seq(Colors) : colors # <<>> /\ colors[1] = Transparent}

\* The colours of a palette are where they were.
Prolongs(palette, colors) ==
  Len(colors) <= Len(palette) /\ \A n \in 1 .. Len(colors) : palette[n] = colors[n]

\* A colour more leaves the others where they are.
LEMMA ColorJoins ==
  ASSUME NEW colors \in Palettes, NEW color \in Colors
  PROVE  /\ WithColor(colors, color) \in Palettes
         /\ Prolongs(WithColor(colors, color), colors)
         /\ \E n \in 1 .. Len(WithColor(colors, color)) : WithColor(colors, color)[n] = color
<1> DEFINE len == Len(colors)
<1>1. colors \in Seq(Colors) /\ len \in Nat \ {0} /\ colors[1] = Transparent
  BY DEF Palettes
<1>2. CASE color \in ToSet(colors)
  <2>1. WithColor(colors, color) = colors
    BY <1>2 DEF WithColor
  <2>2. \E n \in 1 .. len : colors[n] = color
    BY <1>1, <1>2 DEF ToSet
  <2>3. Prolongs(colors, colors)
    BY <1>1 DEF Prolongs
  <2> QED
    BY <2>1, <2>2, <2>3
<1>3. CASE color \notin ToSet(colors)
  <2> DEFINE more == Append(colors, color)
  <2>1. /\ more \in Seq(Colors) /\ Len(more) = len + 1 /\ more[len + 1] = color
        /\ \A n \in 1 .. len : more[n] = colors[n]
    BY <1>1, AppendProperties
  <2> HIDE DEF more, len
  <2>2. len + 1 \in 1 .. Len(more) /\ 1 \in 1 .. len /\ len <= Len(more)
    BY <1>1, <2>1
  <2>3. more \in Palettes
    BY <1>1, <2>1, <2>2 DEF Palettes
  <2>4. Prolongs(more, colors)
    BY <2>1, <2>2 DEF Prolongs, len
  <2>5. WithColor(colors, color) = more
    BY <1>3 DEF WithColor, more
  <2> QED
    BY <2>1, <2>2, <2>3, <2>4, <2>5
<1> QED
  BY <1>2, <1>3

\* What prolongs a palette that prolongs another prolongs that one.
LEMMA ProlongsFurther ==
  ASSUME NEW a \in Palettes, NEW b \in Palettes, NEW c \in Palettes,
         Prolongs(c, b), Prolongs(b, a)
  PROVE  Prolongs(c, a)
BY DEF Prolongs, Palettes

\* The colours known after the first n pixels.
ColorsSoFar(colors, pixels, len, f) ==
  f = [n \in 0 .. len |-> IF n = 0 THEN colors ELSE WithColor(f[n - 1], pixels[n].color)]

\* The recursion over the pixels ends.
LEMMA ColorsSoFarExist ==
  ASSUME NEW len \in Nat, NEW pixels \in [1 .. len -> Pixels], NEW colors \in Palettes
  PROVE  \E f : ColorsSoFar(colors, pixels, len, f)
<1> DEFINE turn == [n \in 1 .. len |-> [q \in Palettes |-> WithColor(q, pixels[n].color)]]
<1>1. turn \in [1 .. len -> [Palettes -> Palettes]]
  <2>1. \A n \in 1 .. len : pixels[n].color \in Colors
    BY DEF Pixels
  <2>2. \A n \in 1 .. len, q \in Palettes : WithColor(q, pixels[n].color) \in Palettes
    BY <2>1, ColorJoins
  <2> QED
    BY <2>2
<1>2. PICK g : Iterates(Palettes, colors, len, turn, g)
  <2> HIDE DEF turn
  <2> QED
    BY <1>1, IterationExists
<1>3. /\ g \in [0 .. len -> Palettes] /\ g[0] = colors
      /\ \A n \in 1 .. len : g[n] = turn[n][g[n - 1]]
  BY <1>2 DEF Iterates
<1>4. ASSUME NEW n \in 0 .. len
      PROVE  g[n] = IF n = 0 THEN colors ELSE WithColor(g[n - 1], pixels[n].color)
  <2>1. CASE n = 0
    BY <1>3, <2>1
  <2>2. CASE n # 0
    <3>1. n \in 1 .. len /\ n - 1 \in 0 .. len
      BY <2>2
    <3>2. g[n - 1] \in Palettes
      BY <1>3, <3>1
    <3> QED
      BY <1>3, <2>2, <3>1, <3>2
  <2> QED
    BY <2>1, <2>2
<1> DEFINE h == [n \in 0 .. len |->
                   IF n = 0 THEN colors ELSE WithColor(g[n - 1], pixels[n].color)]
<1>5. g = [n \in 0 .. len |-> g[n]] /\ h = [n \in 0 .. len |-> h[n]]
  BY <1>3
<1>6. \A n \in 0 .. len : g[n] = h[n]
  BY <1>4
<1> HIDE DEF h
<1>7. g = h
  BY <1>5, <1>6
<1> QED
  BY <1>7 DEF ColorsSoFar, h

\* In the end every pixel's colour is known, and no colour has moved.
LEMMA AllColorsKnown ==
  ASSUME NEW len \in Nat, NEW pixels \in [1 .. len -> Pixels], NEW colors \in Palettes,
         NEW f, ColorsSoFar(colors, pixels, len, f)
  PROVE  /\ f[len] \in Palettes /\ Prolongs(f[len], colors)
         /\ \A p \in 1 .. len : \E n \in 1 .. Len(f[len]) : f[len][n] = pixels[p].color
<1> DEFINE Known(m) == /\ f[m] \in Palettes /\ Prolongs(f[m], colors)
                       /\ \A p \in 1 .. m : \E n \in 1 .. Len(f[m]) : f[m][n] = pixels[p].color
           T == {m \in Nat : m <= len => Known(m)}
<1>1. f[0] = colors /\ \A n \in 1 .. len : f[n] = WithColor(f[n - 1], pixels[n].color)
  BY DEF ColorsSoFar
<1>2. Known(0)
  <2>1. Prolongs(colors, colors)
    BY DEF Prolongs, Palettes
  <2> QED
    BY <1>1, <2>1
<1>3. ASSUME NEW m \in Nat, m + 1 <= len, Known(m)
      PROVE  Known(m + 1)
  <2> DEFINE more == f[m + 1] color == pixels[m + 1].color
  <2>1. m + 1 \in 1 .. len /\ (m + 1) - 1 = m
    BY <1>3
  <2>2. pixels[m + 1] \in Pixels
    BY <2>1
  <2>3. color \in Colors
    BY <2>2 DEF Pixels
  <2>4. more = WithColor(f[m], color)
    BY <1>1, <2>1
  <2>5. f[m] \in Palettes
    BY <1>3
  <2> HIDE DEF more
  <2>6. color = pixels[m + 1].color
    OBVIOUS
  <2> HIDE DEF color
  <2>7. /\ more \in Palettes /\ Prolongs(more, f[m])
        /\ \E n \in 1 .. Len(more) : more[n] = color
    BY <2>3, <2>4, <2>5, ColorJoins
  <2>8. Prolongs(more, colors)
    BY <1>3, <2>7, ProlongsFurther
  <2>9. ASSUME NEW p \in 1 .. m + 1
        PROVE  \E n \in 1 .. Len(more) : more[n] = pixels[p].color
    <3>1. CASE p = m + 1
      BY <2>7, <2>6, <3>1
    <3>2. CASE p # m + 1
      <4>1. p \in 1 .. m
        BY <3>2
      <4>2. PICK n \in 1 .. Len(f[m]) : f[m][n] = pixels[p].color
        BY <1>3, <4>1
      <4>3. Len(f[m]) \in Nat /\ Len(more) \in Nat /\ Len(f[m]) <= Len(more)
        BY <2>5, <2>7 DEF Prolongs, Palettes
      <4>4. n \in 1 .. Len(more) /\ more[n] = f[m][n]
        BY <2>7, <4>3 DEF Prolongs
      <4> QED
        BY <4>2, <4>4
    <3> QED
      BY <3>1, <3>2
  <2> QED
    BY <2>7, <2>8, <2>9 DEF more
<1> HIDE DEF Known
<1>4. \A m \in T : m + 1 \in T
  BY <1>3
<1>5. 0 \in T /\ T \in SUBSET Nat
  BY <1>2
<1>6. T = Nat
  <2> HIDE DEF T
  <2> QED
    BY <1>4, <1>5, SimpleInduction
<1>7. Known(len)
  BY <1>6
<1> QED
  BY <1>7 DEF Known

\* The index of a colour that is known.
LEMMA IndexOfKnown ==
  ASSUME NEW colors \in Palettes, NEW color, \E n \in 1 .. Len(colors) : colors[n] = color
  PROVE  /\ IndexOf(colors, color) \in 0 .. Len(colors) - 1
         /\ colors[IndexOf(colors, color) + 1] = color
         /\ color # Transparent => IndexOf(colors, color) # 0
<1> DEFINE k == CHOOSE n \in DOMAIN colors : colors[n] = color
<1>1. DOMAIN colors = 1 .. Len(colors) /\ Len(colors) \in Nat /\ colors[1] = Transparent
  BY DEF Palettes
<1>2. k \in 1 .. Len(colors) /\ colors[k] = color
  BY <1>1
<1>3. IndexOf(colors, color) = k - 1
  BY DEF IndexOf
<1> HIDE DEF k
<1>4. k - 1 \in 0 .. Len(colors) - 1 /\ (k - 1) + 1 = k /\ (k - 1 = 0 => k = 1)
  BY <1>1, <1>2
<1> QED
  BY <1>1, <1>2, <1>3, <1>4

-----------------------------------------------------------------------------
(* The artwork: what is inside the bounds.                                 *)

\* The assumption on the pictures: every position has a pixel with a colour.
LEMMA PictureFacts ==
  ASSUME NEW picture \in Pictures
  PROVE  /\ DOMAIN picture = (0 .. PictureWidth - 1) \X (0 .. PictureHeight - 1)
         /\ \A x \in 0 .. PictureWidth - 1, y \in 0 .. PictureHeight - 1 :
              picture[<<x, y>>] \in Pixels /\ picture[<<x, y>>].color # Transparent
<1>1. /\ DOMAIN picture = (0 .. PictureWidth - 1) \X (0 .. PictureHeight - 1)
      /\ \A position \in DOMAIN picture :
           picture[position] \in [clear : BOOLEAN, color : STRING] /\ picture[position].color # ""
  BY ImageAssumption, Zenon
<1>2. ASSUME NEW x \in 0 .. PictureWidth - 1, NEW y \in 0 .. PictureHeight - 1
      PROVE  picture[<<x, y>>] \in Pixels /\ picture[<<x, y>>].color # Transparent
  <2>1. <<x, y>> \in DOMAIN picture
    BY <1>1
  <2> QED
    BY <1>1, <2>1, Zenon DEF Pixels, Colors, Transparent
<1> QED
  BY <1>1, <1>2

\* The sizes of a picture.
LEMMA SizeFacts ==
  /\ PictureWidth \in Nat \ {0} /\ PictureWidth <= MaxRun
  /\ PictureHeight \in Nat \ {0} /\ PictureHeight <= MaxRun + 1
<1>1. PictureWidth \in 1 .. Hex * Hex - 1 /\ PictureHeight \in 1 .. Hex * Hex
  BY ImageAssumption, Zenon
<1> DEFINE square == Hex * Hex
<1>2. square \in Nat /\ MaxRun + 1 = square /\ MaxRun \in Nat
  BY HexFacts
<1>3. PictureWidth \in 1 .. square - 1 /\ PictureHeight \in 1 .. square
  BY <1>1
<1> HIDE DEF square
<1> QED
  BY <1>2, <1>3

\* The least and the greatest of a set of numbers below n.
LEMMA MinAndMax ==
  ASSUME NEW n \in Nat, NEW S \in SUBSET (0 .. n - 1), S # {}
  PROVE  /\ Min(S) \in S /\ \A k \in S : Min(S) <= k
         /\ Max(S) \in S /\ \A k \in S : k <= Max(S)
<1>1. \E m \in S : \A k \in S : m <= k
  <2>1. S \in SUBSET Nat
    OBVIOUS
  <2> QED
    BY <2>1, LeastNatural
<1>2. \E m \in S : \A k \in S : m >= k
  <2> DEFINE P == {k + 1 : k \in S}
  <2>1. \A k \in S : k \in Nat /\ k + 1 \in 1 .. n
    OBVIOUS
  <2>2. P \subseteq 1 .. n /\ P # {}
    BY <2>1
  <2>3. PICK p \in P : \A j \in P : j <= p
    <3> HIDE DEF P
    <3> QED
      BY <2>2, LastExists
  <2>4. PICK m \in S : p = m + 1
    OBVIOUS
  <2>5. \A k \in S : k + 1 <= m + 1
    BY <2>3, <2>4
  <2>6. \A k \in S : m >= k
    BY <2>1, <2>5
  <2> QED
    BY <2>6
<1>3. Min(S) \in S /\ \A k \in S : Min(S) <= k
  BY <1>1, Zenon DEF Min
<1>4. Max(S) \in S /\ \A k \in S : Max(S) >= k
  BY <1>2, Zenon DEF Max
<1>5. \A k \in S : k <= Max(S)
  <2>1. \A k \in S : k \in Int
    OBVIOUS
  <2> QED
    BY <1>4, <2>1
<1> QED
  BY <1>3, <1>4, <1>5

\* Bounds that lie in a picture and hold every pixel that is not clear.
Bound(b, picture) ==
  /\ b.top \in Nat /\ b.right \in Nat /\ b.bottom \in Nat /\ b.left \in Nat
  /\ b.left <= b.right /\ b.right <= PictureWidth
  /\ b.top <= b.bottom /\ b.bottom <= PictureHeight - 1
  /\ \A x \in 0 .. PictureWidth - 1, y \in 0 .. PictureHeight - 1 :
       ~picture[<<x, y>>].clear =>
         b.left <= x /\ x < b.right /\ b.top <= y /\ y <= b.bottom

\* calcBounds finds such bounds.
LEMMA BoundsHoldThePicture ==
  ASSUME NEW picture \in Pictures
  PROVE  Bound(calcBounds(picture), picture)
<1> DEFINE rows == {y \in 0 .. PictureHeight - 1 : ~isTransparentRow(picture, y)}
           columns == {x \in 0 .. PictureWidth - 1 : ~isTransparentColumn(picture, x)}
           b == calcBounds(picture)
<1>1. ASSUME NEW x \in 0 .. PictureWidth - 1, NEW y \in 0 .. PictureHeight - 1,
             ~picture[<<x, y>>].clear
      PROVE  x \in columns /\ y \in rows
  BY <1>1 DEF isTransparentRow, isTransparentColumn
<1>2. columns # {} => rows # {}
  <2> SUFFICES ASSUME NEW x \in columns
               PROVE  rows # {}
    OBVIOUS
  <2>1. PICK y \in 0 .. PictureHeight - 1 : ~picture[<<x, y>>].clear
    BY DEF isTransparentColumn
  <2>2. x \in 0 .. PictureWidth - 1
    OBVIOUS
  <2> HIDE DEF rows, columns
  <2> QED
    BY <1>1, <2>1, <2>2
<1>3. columns \in SUBSET (0 .. PictureWidth - 1) /\ rows \in SUBSET (0 .. PictureHeight - 1)
  OBVIOUS
<1>4. b = IF columns = {} THEN [top |-> 0, right |-> 0, bottom |-> 0, left |-> 0]
          ELSE [top |-> Min(rows), right |-> Max(columns) + 1,
                bottom |-> Max(rows), left |-> Min(columns)]
  BY DEF calcBounds
<1> HIDE DEF rows, columns, b
<1>5. CASE columns = {}
  <2>1. b.top = 0 /\ b.right = 0 /\ b.bottom = 0 /\ b.left = 0
    BY <1>4, <1>5
  <2> QED
    BY <1>1, <1>5, <2>1, SizeFacts DEF Bound, b
<1>6. CASE columns # {}
  <2>1. /\ Min(rows) \in rows /\ \A y \in rows : Min(rows) <= y
        /\ Max(rows) \in rows /\ \A y \in rows : y <= Max(rows)
    BY <1>2, <1>3, <1>6, SizeFacts, MinAndMax
  <2>2. /\ Min(columns) \in columns /\ \A x \in columns : Min(columns) <= x
        /\ Max(columns) \in columns /\ \A x \in columns : x <= Max(columns)
    BY <1>3, <1>6, SizeFacts, MinAndMax
  <2>3. /\ b.top = Min(rows) /\ b.right = Max(columns) + 1
        /\ b.bottom = Max(rows) /\ b.left = Min(columns)
    BY <1>4, <1>6
  <2>4. /\ b.top \in 0 .. PictureHeight - 1 /\ b.bottom \in 0 .. PictureHeight - 1
        /\ b.left \in 0 .. PictureWidth - 1 /\ b.right \in 1 .. PictureWidth
        /\ b.top <= b.bottom /\ b.left <= b.right
    <3>1. Min(rows) <= Max(rows) /\ Min(columns) <= Max(columns)
      BY <2>1, <2>2
    <3>2. /\ Min(rows) \in 0 .. PictureHeight - 1 /\ Max(rows) \in 0 .. PictureHeight - 1
          /\ Min(columns) \in 0 .. PictureWidth - 1 /\ Max(columns) \in 0 .. PictureWidth - 1
      BY <1>3, <2>1, <2>2
    <3> QED
      BY <2>3, <3>1, <3>2, SizeFacts
  <2>5. ASSUME NEW x \in 0 .. PictureWidth - 1, NEW y \in 0 .. PictureHeight - 1,
               ~picture[<<x, y>>].clear
        PROVE  b.left <= x /\ x < b.right /\ b.top <= y /\ y <= b.bottom
    <3>1. x \in columns /\ y \in rows
      BY <1>1, <2>5
    <3>2. b.left <= x /\ x <= Max(columns) /\ b.top <= y /\ y <= b.bottom
      BY <2>1, <2>2, <2>3, <3>1
    <3>3. Max(columns) \in 0 .. PictureWidth - 1
      BY <1>3, <2>2
    <3> QED
      BY <2>3, <3>2, <3>3
  <2> QED
    BY <2>4, <2>5, SizeFacts DEF Bound, b
<1> QED
  BY <1>5, <1>6

\* Where a position is in the raster.
PlaceOf(b, x, y) == (y - b.top) * (b.right - b.left) + (x - b.left) + 1

\* Number of the pixels inside the bounds.
PixelsIn(b) == (b.right - b.left) * (b.bottom - b.top + 1)

\* A quotient is below h where the number is below h times the divisor.
LEMMA QuotientBelow ==
  ASSUME NEW c \in Nat, NEW w \in Nat \ {0}, NEW h \in Nat, c < w * h
  PROVE  c \div w < h
OBVIOUS

\* Every entry of the raster is a position of the picture.
LEMMA RasterInPicture ==
  ASSUME NEW picture, NEW b, Bound(b, picture)
  PROVE  /\ PixelsIn(b) \in Nat /\ DOMAIN Raster(b) = 1 .. PixelsIn(b)
         /\ \A n \in 1 .. PixelsIn(b) :
              \E x \in 0 .. PictureWidth - 1, y \in 0 .. PictureHeight - 1 :
                 Raster(b)[n] = <<x, y>>
<1> DEFINE w == b.right - b.left
           h == b.bottom - b.top + 1
<1>1. /\ b.top \in Nat /\ b.right \in Nat /\ b.bottom \in Nat /\ b.left \in Nat
      /\ b.left <= b.right /\ b.right <= PictureWidth
      /\ b.top <= b.bottom /\ b.bottom <= PictureHeight - 1
  BY DEF Bound
<1>2. w \in Nat /\ h \in Nat /\ w + b.left = b.right /\ h + b.top = b.bottom + 1
  BY <1>1
<1> HIDE DEF w, h
<1>3. PixelsIn(b) = w * h
  BY DEF PixelsIn, w, h
<1>4. w * h \in Nat
  BY <1>2
<1>5. Raster(b) = [n \in 1 .. w * h |-> <<b.left + ((n - 1) % w), b.top + ((n - 1) \div w)>>]
  BY DEF Raster, w, h
<1>6. ASSUME NEW n \in 1 .. w * h
      PROVE  \E x \in 0 .. PictureWidth - 1, y \in 0 .. PictureHeight - 1 :
                Raster(b)[n] = <<x, y>>
  <2> DEFINE c == n - 1 size == w * h
  <2>1. c \in Nat /\ c < size
    <3> HIDE DEF size
    <3>1. size \in Nat /\ n \in 1 .. size
      BY <1>4 DEF size
    <3> QED
      BY <3>1
  <2>2. w # 0
    <3>1. w = 0 => size = 0
      BY <1>2
    <3> HIDE DEF size
    <3> QED
      BY <2>1, <3>1
  <2>3. c % w \in 0 .. w - 1 /\ c \div w \in Nat /\ c \div w < h
    <3> HIDE DEF c
    <3>1. c % w \in 0 .. w - 1 /\ c \div w \in Nat
      BY <1>2, <2>1, <2>2, QuotientAndRemainder
    <3>2. c < w * h
      BY <2>1
    <3>3. c \div w < h
      BY <1>2, <2>1, <2>2, <3>2, QuotientBelow
    <3> QED
      BY <3>1, <3>3
  <2> DEFINE x == b.left + (c % w) y == b.top + (c \div w)
  <2>4. Raster(b)[n] = <<x, y>>
    BY <1>5
  <2>5. x \in 0 .. PictureWidth - 1 /\ y \in 0 .. PictureHeight - 1
    <3> DEFINE r == c % w q == c \div w
    <3>1. r \in 0 .. w - 1 /\ q \in Nat /\ q < h
      BY <2>3
    <3> HIDE DEF r, q, c
    <3>2. b.left + r \in 0 .. PictureWidth - 1 /\ b.top + q \in 0 .. PictureHeight - 1
      BY <1>1, <1>2, <3>1, SizeFacts
    <3> QED
      BY <3>2 DEF r, q
  <2> HIDE DEF x, y
  <2> QED
    BY <2>4, <2>5
<1> QED
  BY <1>3, <1>4, <1>5, <1>6

\* The raster holds a position inside the bounds at its place.
LEMMA RasterAtPlace ==
  ASSUME NEW picture, NEW b, Bound(b, picture),
         NEW x \in Nat, NEW y \in Nat,
         b.left <= x, x < b.right, b.top <= y, y <= b.bottom
  PROVE  PlaceOf(b, x, y) \in 1 .. PixelsIn(b) /\ Raster(b)[PlaceOf(b, x, y)] = <<x, y>>
<1> DEFINE w == b.right - b.left
           h == b.bottom - b.top + 1
           q == y - b.top
           r == x - b.left
<1>1. /\ b.top \in Nat /\ b.right \in Nat /\ b.bottom \in Nat /\ b.left \in Nat
      /\ b.left <= b.right /\ b.top <= b.bottom
  BY DEF Bound
<1>2. /\ w \in Nat \ {0} /\ h \in Nat /\ q \in Nat /\ q < h /\ r \in 0 .. w - 1
      /\ b.left + r = x /\ b.top + q = y
  BY <1>1
<1>3. PlaceOf(b, x, y) = q * w + r + 1 /\ PixelsIn(b) = w * h
  BY DEF PlaceOf, PixelsIn
<1>4. Raster(b) = [n \in 1 .. w * h |-> <<b.left + ((n - 1) % w), b.top + ((n - 1) \div w)>>]
  BY DEF Raster
<1> HIDE DEF w, h, q, r
<1>5. q * w \in Nat /\ w * h \in Nat /\ q * w + w <= w * h
  <2>1. q * w + w <= h * w
    BY <1>2, RowsApart
  <2>2. h * w = w * h
    BY <1>2
  <2> QED
    BY <1>2, <2>1, <2>2
<1>6. (q * w + r) \div w = q /\ (q * w + r) % w = r
  BY <1>2, DivMod
<1> DEFINE base == q * w size == w * h
<1>7. base \in Nat /\ size \in Nat /\ base + w <= size
  BY <1>5
<1>8. (base + r) \div w = q /\ (base + r) % w = r
  BY <1>6
<1>9. Raster(b) = [n \in 1 .. size |-> <<b.left + ((n - 1) % w), b.top + ((n - 1) \div w)>>]
  BY <1>4
<1>10. PlaceOf(b, x, y) = base + r + 1 /\ PixelsIn(b) = size
  BY <1>3
<1> HIDE DEF base, size
<1>11. base + r + 1 \in 1 .. size /\ (base + r + 1) - 1 = base + r
  BY <1>2, <1>7
<1>12. Raster(b)[base + r + 1] = <<b.left + r, b.top + q>>
  BY <1>8, <1>9, <1>11
<1> QED
  BY <1>2, <1>11, <1>12, <1>10

-----------------------------------------------------------------------------
(* The artwork: what is drawn.                                             *)

RectRecords == [x : Nat, y : Nat, width : Nat, color : Nat]
Pens == [rects : SUBSET RectRecords, x : Nat, y : Nat, drawLength : Nat]

Inside(b, x, y) == b.left <= x /\ x < b.right /\ b.top <= y /\ y <= b.bottom

\* The color indexes of the rectangles that cover a position.
Colored(rects, x, y) == {r.color : r \in {q \in rects : q.y = y /\ x \in q.x .. q.x + q.width - 1}}

\* The pixels up to the nth of the raster are drawn, and nothing else is.
DrawnUpTo(b, indexes, rects, n) ==
  \A x \in Nat, y \in Nat :
    Colored(rects, x, y) =
      IF Inside(b, x, y) /\ PlaceOf(b, x, y) <= n /\ indexes[PlaceOf(b, x, y)] # 0
      THEN {indexes[PlaceOf(b, x, y)]} ELSE {}

\* The pen has drawn n pixels, and d pixels of the run are left.
PenAt(b, indexes, pen, n, d) ==
  /\ pen \in Pens /\ pen.drawLength = d
  /\ DrawnUpTo(b, indexes, pen.rects, n)
  /\ \E row \in Nat, col \in Nat :
       /\ col < b.right - b.left /\ n = row * (b.right - b.left) + col
       /\ pen.x = b.left + col /\ pen.y = b.top + row

\* The pixels of a part of a row are those whose places follow each other.
LEMMA PlacesOfARow ==
  ASSUME NEW w \in Nat \ {0}, NEW row \in Nat, NEW col \in Nat, NEW length \in Nat,
         col + length <= w, NEW q \in Nat, NEW r \in Nat, r < w
  PROVE  row * w + col < q * w + r + 1 /\ q * w + r + 1 <= row * w + col + length
           <=> q = row /\ col <= r /\ r < col + length
<1> DEFINE a == row * w e == q * w
<1>1. a \in Nat /\ e \in Nat
  OBVIOUS
<1>2. row < q => a + w <= e
  BY RowsApart
<1>3. q < row => e + w <= a
  BY RowsApart
<1>4. q = row => e = a
  OBVIOUS
<1> HIDE DEF a, e
<1>5. q < row \/ q = row \/ row < q
  OBVIOUS
<1>6. a + col < e + r + 1 /\ e + r + 1 <= a + col + length
        <=> q = row /\ col <= r /\ r < col + length
  <2>1. CASE q < row
    BY <1>1, <1>3, <2>1
  <2>2. CASE row < q
    BY <1>1, <1>2, <2>2
  <2>3. CASE q = row
    BY <1>1, <1>4, <2>3
  <2> QED
    BY <1>5, <2>1, <2>2, <2>3
<1> QED
  BY <1>6 DEF a, e

\* While pixels are left, the pen is in a row of the picture.
LEMMA PenInARow ==
  ASSUME NEW w \in Nat \ {0}, NEW h \in Nat, NEW row \in Nat, NEW col \in Nat,
         row * w + col < w * h
  PROVE  row < h
<1>1. CASE ~(row < h)
  <2>1. h = row \/ h < row
    BY <1>1
  <2>2. h < row => h * w + w <= row * w
    BY RowsApart
  <2> DEFINE a == row * w e == h * w
  <2>3. a \in Nat /\ e \in Nat /\ (h = row => e = a) /\ w * h = e
    OBVIOUS
  <2>4. (h < row => e + w <= a) /\ a + col < e
    BY <2>2, <2>3
  <2> HIDE DEF a, e
  <2> QED
    BY <2>1, <2>3, <2>4
<1> QED
  BY <1>1

\* A rectangle more covers the positions in it.
LEMMA RectColors ==
  ASSUME NEW rects, NEW rect, NEW x, NEW y
  PROVE  Colored(rects \cup {rect}, x, y) =
           Colored(rects, x, y) \cup
             (IF rect.y = y /\ x \in rect.x .. rect.x + rect.width - 1 THEN {rect.color} ELSE {})
BY DEF Colored

\* A turn of the loop draws the next pixels of the run.
LEMMA RectDrawn ==
  ASSUME NEW picture, NEW b, Bound(b, picture), b.left # b.right,
         NEW indexes, NEW pen, NEW n \in Nat, NEW d \in Nat, NEW c \in Nat,
         PenAt(b, indexes, pen, n, d), n + d <= PixelsIn(b),
         \A p \in Nat : n < p /\ p <= n + d => indexes[p] = c
  PROVE  \E l \in Nat : /\ l <= d /\ (d # 0 => l # 0)
                        /\ PenAt(b, indexes, DrawRect(pen, c, b), n + l, d - l)
<1> DEFINE w == b.right - b.left
           h == b.bottom - b.top + 1
<1>1. /\ b.top \in Nat /\ b.right \in Nat /\ b.bottom \in Nat /\ b.left \in Nat
      /\ b.left <= b.right /\ b.top <= b.bottom
  BY DEF Bound
<1>2. w \in Nat \ {0} /\ h \in Nat /\ b.left + w = b.right /\ b.top + h = b.bottom + 1
  BY <1>1
<1>3. /\ pen \in Pens /\ pen.drawLength = d /\ DrawnUpTo(b, indexes, pen.rects, n)
      /\ \E row \in Nat, col \in Nat :
           /\ col < w /\ n = row * w + col /\ pen.x = b.left + col /\ pen.y = b.top + row
  BY DEF PenAt
<1>4. PICK row \in Nat, col \in Nat :
        col < w /\ n = row * w + col /\ pen.x = b.left + col /\ pen.y = b.top + row
  BY <1>3
<1>5. PixelsIn(b) = w * h
  BY DEF PixelsIn
<1>6. \A x, y : PlaceOf(b, x, y) = (y - b.top) * w + (x - b.left) + 1
  BY DEF PlaceOf
<1>7. b.right - pen.x = w - col /\ pen.x \in Nat /\ pen.y \in Nat
  BY <1>1, <1>2, <1>4
<1>8. w = b.right - b.left
  OBVIOUS
<1> HIDE DEF w, h
<1> DEFINE l == getRectLength(pen.x, pen.drawLength, b.right)
           rect == [x |-> pen.x, y |-> pen.y, width |-> l, color |-> c]
           lineEnds == pen.x + l = b.right
           rects == IF c = 0 THEN pen.rects ELSE pen.rects \cup {rect}
           next == [rects |-> rects,
                    x |-> IF lineEnds THEN b.left ELSE pen.x + l,
                    y |-> IF lineEnds THEN pen.y + 1 ELSE pen.y,
                    drawLength |-> pen.drawLength - l]
<1>9. DrawRect(pen, c, b) = IF l <= 0 THEN pen ELSE next
  BY DEF DrawRect
<1>10. l = IF d <= w - col THEN d ELSE w - col
  <2>1. l = Min({d, w - col})
    BY <1>3, <1>7 DEF getRectLength
  <2>2. d \in Int /\ w - col \in Int
    BY <1>2, <1>4
  <2> DEFINE e == w - col
  <2> HIDE DEF e
  <2>3. Min({d, e}) = IF d <= e THEN d ELSE e
    <3>1. e \in Int
      BY <2>2 DEF e
    <3> QED
      BY <3>1 DEF Min
  <2> QED
    BY <2>1, <2>3 DEF e
<1> HIDE DEF l
<1>11. l \in Nat /\ l <= d /\ col + l <= w /\ (d # 0 => l # 0)
  BY <1>2, <1>4, <1>10
<1>12. CASE l = 0
  <2>1. d = 0 /\ DrawRect(pen, c, b) = pen /\ n + 0 = n /\ d - 0 = d
    BY <1>9, <1>11, <1>12
  <2> QED
    BY <2>1
<1>13. CASE l # 0
  <2>1. DrawRect(pen, c, b) = next
    BY <1>9, <1>11, <1>13
  <2>2. row < h
    <3> DEFINE at == row * w size == w * h
    <3>1. n + d <= size /\ n = at + col /\ at \in Nat /\ size \in Nat
      BY <1>2, <1>4, <1>5
    <3> HIDE DEF at, size
    <3>2. at + col < size
      BY <1>11, <1>13, <3>1
    <3> QED
      BY <1>2, <3>2, PenInARow DEF at, size
  <2>3. rect \in RectRecords
    BY <1>11, <1>7 DEF RectRecords
  <2>4. ASSUME NEW x \in Nat, NEW y \in Nat
        PROVE  rect.y = y /\ x \in rect.x .. rect.x + rect.width - 1
                 <=> Inside(b, x, y) /\ n < PlaceOf(b, x, y) /\ PlaceOf(b, x, y) <= n + l
    <3>1. rect.y = pen.y /\ rect.x = pen.x /\ rect.width = l
      OBVIOUS
    <3>2. CASE Inside(b, x, y)
      <4> DEFINE q == y - b.top r == x - b.left
      <4>1. q \in Nat /\ r \in Nat /\ r < w
        BY <1>1, <1>2, <3>2 DEF Inside
      <4>2. q = row /\ col <= r /\ r < col + l
              <=> y = pen.y /\ pen.x <= x /\ x < pen.x + l
        BY <1>1, <1>4, <1>11
      <4>3. PlaceOf(b, x, y) = q * w + r + 1
        BY <1>6
      <4> HIDE DEF q, r
      <4>4. row * w + col < q * w + r + 1 /\ q * w + r + 1 <= row * w + col + l
              <=> q = row /\ col <= r /\ r < col + l
        BY <1>2, <1>11, <4>1, PlacesOfARow
      <4>5. n < PlaceOf(b, x, y) /\ PlaceOf(b, x, y) <= n + l
              <=> y = pen.y /\ pen.x <= x /\ x < pen.x + l
        BY <1>4, <4>2, <4>3, <4>4
      <4>6. x \in pen.x .. pen.x + l - 1 <=> pen.x <= x /\ x < pen.x + l
        BY <1>11, <1>7
      <4> HIDE DEF rect
      <4> QED
        BY <3>1, <3>2, <4>5, <4>6
    <3>3. CASE ~Inside(b, x, y)
      <4> SUFFICES ASSUME y = pen.y, x \in pen.x .. pen.x + l - 1
                   PROVE  Inside(b, x, y)
        BY <3>1, <3>3
      <4> QED
        BY <1>1, <1>2, <1>4, <1>11, <2>2 DEF Inside
    <3> QED
      BY <3>2, <3>3
  <2>5. DrawnUpTo(b, indexes, rects, n + l)
    <3> SUFFICES ASSUME NEW x \in Nat, NEW y \in Nat
                 PROVE  Colored(rects, x, y) =
                          IF Inside(b, x, y) /\ PlaceOf(b, x, y) <= n + l
                               /\ indexes[PlaceOf(b, x, y)] # 0
                          THEN {indexes[PlaceOf(b, x, y)]} ELSE {}
      BY DEF DrawnUpTo
    <3> DEFINE place == PlaceOf(b, x, y)
    <3>1. Colored(pen.rects, x, y) =
            IF Inside(b, x, y) /\ place <= n /\ indexes[place] # 0 THEN {indexes[place]} ELSE {}
      BY <1>3 DEF DrawnUpTo
    <3>2. rect.color = c
      OBVIOUS
    <3>3. Colored(pen.rects \cup {rect}, x, y) =
            Colored(pen.rects, x, y) \cup
              (IF Inside(b, x, y) /\ n < place /\ place <= n + l THEN {c} ELSE {})
      <4>1. rect.y = y /\ x \in rect.x .. rect.x + rect.width - 1
              <=> Inside(b, x, y) /\ n < place /\ place <= n + l
        BY <2>4
      <4> HIDE DEF rect, place
      <4>2. Colored(pen.rects \cup {rect}, x, y) =
              Colored(pen.rects, x, y) \cup
                (IF rect.y = y /\ x \in rect.x .. rect.x + rect.width - 1
                 THEN {rect.color} ELSE {})
        <5> DEFINE drawn == pen.rects
        <5> HIDE DEF drawn
        <5>1. Colored(drawn \cup {rect}, x, y) =
                Colored(drawn, x, y) \cup
                  (IF rect.y = y /\ x \in rect.x .. rect.x + rect.width - 1
                   THEN {rect.color} ELSE {})
          BY DEF Colored
        <5> QED  BY <5>1 DEF drawn
      <4>3. (IF rect.y = y /\ x \in rect.x .. rect.x + rect.width - 1 THEN {rect.color} ELSE {})
              = (IF Inside(b, x, y) /\ n < place /\ place <= n + l THEN {c} ELSE {})
        <5>1. CASE Inside(b, x, y) /\ n < place /\ place <= n + l
          BY ONLY <3>2, <4>1, <5>1
        <5>2. CASE ~(Inside(b, x, y) /\ n < place /\ place <= n + l)
          BY ONLY <4>1, <5>2
        <5> QED  BY ONLY <5>1, <5>2
      <4> QED
        BY ONLY <4>2, <4>3
    <3>4. Inside(b, x, y) => place \in Nat
      <4> SUFFICES ASSUME Inside(b, x, y)
                   PROVE  place \in Nat
        OBVIOUS
      <4>1. y - b.top \in Nat /\ x - b.left \in Nat
        BY <1>1 DEF Inside
      <4>2. (y - b.top) * w \in Nat
        BY <1>2, <4>1
      <4> QED
        BY <1>6, <4>1, <4>2
    <3>5. Inside(b, x, y) /\ n < place /\ place <= n + l => indexes[place] = c
      <4> HIDE DEF place
      <4> QED
        BY <1>11, <3>4
    <3>6. CASE c = 0
      <4>1. rects = pen.rects
        BY <3>6
      <4> HIDE DEF place, rects
      <4>2. Inside(b, x, y) /\ place <= n + l /\ indexes[place] # 0 =>
              place <= n
        BY <3>4, <3>5, <3>6
      <4>3. Inside(b, x, y) /\ place <= n => place <= n + l
        BY <1>11, <3>4
      <4>4. Colored(rects, x, y) =
              IF Inside(b, x, y) /\ place <= n + l /\ indexes[place] # 0
              THEN {indexes[place]} ELSE {}
        BY <3>1, <4>1, <4>2, <4>3, Zenon
      <4> QED
        BY <4>4 DEF place
    <3>7. CASE c # 0
      <4>1. rects = pen.rects \cup {rect}
        BY <3>7
      <4> HIDE DEF place, rects, rect
      <4>2. CASE Inside(b, x, y) /\ place <= n
        <5>1. ~(n < place) /\ place <= n + l
          BY <1>11, <3>4, <4>2
        <5> QED
          BY <3>1, <3>3, <4>1, <4>2, <5>1 DEF place
      <4>3. CASE Inside(b, x, y) /\ ~(place <= n)
        <5>1. n < place
          BY <3>4, <4>3
        <5>2. Colored(pen.rects, x, y) = {}
          BY <3>1, <4>3
        <5>3. CASE place <= n + l
          <6>1. indexes[place] = c
            BY <3>5, <4>3, <5>1, <5>3
          <6>2. Colored(rects, x, y) = {c}
            BY <3>3, <4>1, <4>3, <5>1, <5>2, <5>3
          <6> QED
            BY <3>7, <4>3, <5>3, <6>1, <6>2 DEF place
        <5>4. CASE ~(place <= n + l)
          BY <3>3, <4>1, <5>2, <5>4 DEF place
        <5> QED
          BY <5>3, <5>4
      <4>4. CASE ~Inside(b, x, y)
        BY <3>1, <3>3, <4>1, <4>4 DEF place
      <4> QED
        BY <4>2, <4>3, <4>4
    <3> QED
      BY <3>6, <3>7
  <2>6. rects \in SUBSET RectRecords
    <3>1. pen.rects \in SUBSET RectRecords
      BY <1>3 DEF Pens
    <3> HIDE DEF rect
    <3> QED
      BY <2>3, <3>1
  <2> HIDE DEF rects, rect
  <2>7. next \in Pens /\ next.drawLength = d - l /\ next.rects = rects
    <3>1. pen.drawLength - l \in Nat /\ pen.drawLength - l = d - l
      BY <1>3, <1>11
    <3> QED
      BY <1>1, <1>11, <1>7, <2>6, <3>1 DEF Pens
  <2>8. \E atRow \in Nat, atCol \in Nat :
          /\ atCol < w /\ n + l = atRow * w + atCol
          /\ next.x = b.left + atCol /\ next.y = b.top + atRow
    <3> DEFINE at == row * w
    <3>1. at \in Nat /\ n = at + col /\ (row + 1) * w = at + w
      BY <1>2, <1>4
    <3>2. CASE lineEnds
      <4>1. col + l = w
        BY <1>1, <1>2, <1>4, <1>11, <3>2
      <4>2. next.x = b.left + 0 /\ next.y = b.top + (row + 1)
        BY <1>1, <1>4, <3>2
      <4> HIDE DEF at, next, lineEnds
      <4>3. n + l = (row + 1) * w + 0
        BY <1>2, <1>11, <3>1, <4>1
      <4>4. 0 < w /\ row + 1 \in Nat /\ 0 \in Nat
        BY <1>2
      <4> QED
        BY <4>2, <4>3, <4>4
    <3>3. CASE ~lineEnds
      <4>1. col + l # w
        BY <1>1, <1>2, <1>4, <1>11, <3>3
      <4>2. next.x = b.left + (col + l) /\ next.y = b.top + row
        BY <1>1, <1>4, <1>11, <3>3
      <4>3. n + l = row * w + (col + l)
        <5> HIDE DEF at
        <5>1. n + l = at + (col + l)
          BY <1>11, <3>1
        <5> QED
          BY <5>1 DEF at
      <4>4. col + l \in Nat /\ col + l < w
        BY <1>2, <1>11, <4>1
      <4> HIDE DEF at, next, lineEnds
      <4> QED
        BY <4>2, <4>3, <4>4
    <3> QED
      BY <3>2, <3>3
  <2> HIDE DEF next
  <2>9. PenAt(b, indexes, next, n + l, d - l)
    BY <1>8, <2>5, <2>7, <2>8 DEF PenAt
  <2> QED
    BY <1>11, <2>1, <2>9
<1> QED
  BY <1>12, <1>13

\* No run ends after the last pixel.
LEMMA RunsEndInTime ==
  ASSUME NEW runs \in Seq(RunRecords), NEW at, NEW indexes, NEW n \in Nat,
         TellsRuns(runs, at, indexes, n)
  PROVE  \A r \in 0 .. Len(runs) : at[r] <= n
<1> DEFINE len == Len(runs)
           T == {k \in Nat : k <= len => at[len - k] <= n}
<1>1. /\ len \in Nat /\ at \in [0 .. len -> Nat] /\ at[len] = n
      /\ \A r \in 1 .. len : at[r] = at[r - 1] + runs[r].length /\ runs[r].length \in Nat
  <2>1. \A r \in 1 .. len : runs[r] \in RunRecords
    OBVIOUS
  <2>2. \A r \in 1 .. len : runs[r].length \in 1 .. MaxRun
    BY <2>1 DEF RunRecords
  <2>3. \A r \in 1 .. len : runs[r].length \in Nat
    BY <2>2, HexFacts
  <2> QED
    BY <2>3 DEF TellsRuns
<1> HIDE DEF len
<1>2. 0 \in T /\ T \in SUBSET Nat
  BY <1>1
<1>3. ASSUME NEW k \in T
      PROVE  k + 1 \in T
  <2> SUFFICES ASSUME k + 1 <= len
               PROVE  at[len - (k + 1)] <= n
    OBVIOUS
  <2> DEFINE r == len - k
  <2>1. k \in Nat /\ r \in 1 .. len /\ r - 1 \in 0 .. len /\ len - (k + 1) = r - 1 /\ at[r] <= n
    BY <1>1
  <2> HIDE DEF r
  <2>2. at[r] = at[r - 1] + runs[r].length /\ runs[r].length \in Nat /\ at[r - 1] \in Nat
    BY <1>1, <2>1
  <2> QED
    BY <2>1, <2>2
<1>4. T = Nat
  <2> HIDE DEF T
  <2> QED
    BY <1>2, <1>3, SimpleInduction
<1>5. ASSUME NEW r \in 0 .. len
      PROVE  at[r] <= n
  <2>1. len - r \in Nat /\ len - r <= len /\ len - (len - r) = r
    BY <1>1
  <2>2. len - r \in T
    BY <1>4, <2>1
  <2> QED
    BY <2>1, <2>2
<1> QED
  BY <1>5 DEF len

\* A turn of the loop leaves a pen.
LEMMA RectLeavesAPen ==
  ASSUME NEW picture, NEW b, Bound(b, picture), NEW pen \in Pens, NEW c \in Nat
  PROVE  DrawRect(pen, c, b) \in Pens
<1> DEFINE l == getRectLength(pen.x, pen.drawLength, b.right)
           rect == [x |-> pen.x, y |-> pen.y, width |-> l, color |-> c]
           lineEnds == pen.x + l = b.right
           rects == IF c = 0 THEN pen.rects ELSE pen.rects \cup {rect}
           next == [rects |-> rects,
                    x |-> IF lineEnds THEN b.left ELSE pen.x + l,
                    y |-> IF lineEnds THEN pen.y + 1 ELSE pen.y,
                    drawLength |-> pen.drawLength - l]
<1>1. DrawRect(pen, c, b) = IF l <= 0 THEN pen ELSE next
  BY DEF DrawRect
<1>2. b.left \in Nat /\ b.right \in Nat
  BY DEF Bound
<1>3. /\ pen.rects \in SUBSET RectRecords /\ pen.x \in Nat /\ pen.y \in Nat
      /\ pen.drawLength \in Nat
  BY DEF Pens
<1>4. l \in Int /\ l <= pen.drawLength
  <2> DEFINE d == pen.drawLength e == b.right - pen.x
  <2>1. d \in Int /\ e \in Int /\ l = Min({d, e})
    BY <1>2, <1>3 DEF getRectLength
  <2> HIDE DEF d, e, l
  <2>2. Min({d, e}) = IF d <= e THEN d ELSE e
    BY <2>1 DEF Min
  <2> QED
    BY <2>1, <2>2 DEF d
<1> HIDE DEF l
<1>5. ASSUME ~(l <= 0)
      PROVE  next \in Pens
  <2>1. l \in Nat /\ pen.drawLength - l \in Nat
    BY <1>3, <1>4, <1>5
  <2>2. rect \in RectRecords
    BY <1>3, <2>1 DEF RectRecords
  <2> HIDE DEF rect
  <2>3. rects \in SUBSET RectRecords
    BY <1>3, <2>2
  <2> HIDE DEF rects
  <2> QED
    BY <1>2, <1>3, <2>1, <2>3 DEF Pens
<1> HIDE DEF next
<1> QED
  BY <1>1, <1>5

\* The pen after each turn of the loop that draws a run.
TurnsTaken(pen, run, b, f) ==
  f = [n \in 0 .. run.length |->
         IF n = 0 THEN [pen EXCEPT !.drawLength = run.length]
         ELSE DrawRect(f[n - 1], run.color, b)]

\* The loop ends.
LEMMA TurnsExist ==
  ASSUME NEW picture, NEW b, Bound(b, picture), NEW pen \in Pens, NEW run \in RunRecords
  PROVE  \E f : TurnsTaken(pen, run, b, f)
<1> DEFINE len == run.length
           c == run.color
           start == [pen EXCEPT !.drawLength = len]
           turn == [n \in 1 .. len |-> [q \in Pens |-> DrawRect(q, c, b)]]
<1>1. len \in Nat /\ c \in Nat
  BY HexFacts DEF RunRecords, Bytes
<1>2. start \in Pens
  BY <1>1 DEF Pens
<1>3. start = [pen EXCEPT !.drawLength = run.length]
  OBVIOUS
<1>4. len = run.length /\ c = run.color
  OBVIOUS
<1> HIDE DEF len, c, start
<1>5. turn \in [1 .. len -> [Pens -> Pens]]
  <2>1. \A n \in 1 .. len, q \in Pens : DrawRect(q, c, b) \in Pens
    BY <1>1, RectLeavesAPen
  <2> QED
    BY <2>1
<1>6. PICK g : Iterates(Pens, start, len, turn, g)
  <2> HIDE DEF turn
  <2> QED
    BY <1>1, <1>2, <1>5, IterationExists
<1>7. /\ g \in [0 .. len -> Pens] /\ g[0] = start
      /\ \A n \in 1 .. len : g[n] = turn[n][g[n - 1]]
  BY <1>6 DEF Iterates
<1>8. ASSUME NEW n \in 0 .. len
      PROVE  g[n] = IF n = 0 THEN start ELSE DrawRect(g[n - 1], c, b)
  <2>1. CASE n = 0
    BY <1>7, <2>1
  <2>2. CASE n # 0
    <3>1. n \in 1 .. len /\ n - 1 \in 0 .. len
      BY <1>1, <2>2
    <3>2. g[n - 1] \in Pens
      BY <1>7, <3>1
    <3> QED
      BY <1>7, <2>2, <3>1, <3>2
  <2> QED
    BY <2>1, <2>2
<1> DEFINE h == [n \in 0 .. len |-> IF n = 0 THEN start ELSE DrawRect(g[n - 1], c, b)]
<1>9. g = [n \in 0 .. len |-> g[n]] /\ h = [n \in 0 .. len |-> h[n]]
  BY <1>7
<1>10. \A n \in 0 .. len : g[n] = h[n]
  BY <1>8
<1> HIDE DEF h
<1>11. g = h
  BY <1>9, <1>10
<1> QED
  BY <1>11, <1>3, <1>4 DEF TurnsTaken, h

\* A run is drawn: the pen is where its pixels end.
LEMMA RunDrawn ==
  ASSUME NEW picture, NEW b, Bound(b, picture), b.left # b.right,
         NEW indexes, NEW pen, NEW n \in Nat, NEW d \in Nat, NEW run \in RunRecords,
         PenAt(b, indexes, pen, n, d), n + run.length <= PixelsIn(b),
         \A p \in Nat : n < p /\ p <= n + run.length => indexes[p] = run.color
  PROVE  PenAt(b, indexes, DrawRun(pen, run, b), n + run.length, 0)
<1> DEFINE f == CHOOSE g : TurnsTaken(pen, run, b, g)
           len == run.length
           c == run.color
           Drew(m) == \E s \in Nat : m <= s /\ s <= len /\ PenAt(b, indexes, f[m], n + s, len - s)
           T == {m \in Nat : m <= len => Drew(m)}
<1>1. len \in Nat /\ c \in Nat
  BY HexFacts DEF RunRecords, Bytes
<1>2. pen \in Pens
  BY DEF PenAt
<1>3. TurnsTaken(pen, run, b, f)
  <2>1. \E g : TurnsTaken(pen, run, b, g)
    BY <1>2, TurnsExist
  <2> QED
    BY <2>1
<1>4. DrawRun(pen, run, b) = f[len]
  BY DEF DrawRun, TurnsTaken
<1> HIDE DEF f
<1>5. /\ f[0] = [pen EXCEPT !.drawLength = len]
      /\ \A m \in 1 .. len : f[m] = DrawRect(f[m - 1], c, b)
  <2> DEFINE start == [pen EXCEPT !.drawLength = len]
  <2>1. f = [m \in 0 .. len |-> IF m = 0 THEN start ELSE DrawRect(f[m - 1], c, b)]
    BY <1>3 DEF TurnsTaken
  <2> HIDE DEF start, len, c
  <2>2. f[0] = start /\ \A m \in 1 .. len : f[m] = DrawRect(f[m - 1], c, b)
    BY <1>1, <2>1
  <2> QED
    BY <2>2 DEF start
<1>6. n + len <= PixelsIn(b) /\ \A p \in Nat : n < p /\ p <= n + len => indexes[p] = c
  OBVIOUS
<1>7. n + len = n + run.length
  OBVIOUS
<1> HIDE DEF len, c
<1>8. Drew(0)
  <2> DEFINE first == f[0]
  <2>1. /\ first \in Pens /\ first.drawLength = len /\ first.rects = pen.rects
        /\ first.x = pen.x /\ first.y = pen.y
    BY <1>1, <1>2, <1>5 DEF Pens
  <2> HIDE DEF first
  <2>2. PenAt(b, indexes, first, n, len)
    BY <2>1 DEF PenAt
  <2>3. n + 0 = n /\ len - 0 = len /\ 0 <= len /\ 0 \in Nat
    BY <1>1
  <2>4. PenAt(b, indexes, first, n + 0, len - 0)
    BY <2>2, <2>3
  <2> QED
    BY <2>3, <2>4 DEF first
<1>9. ASSUME NEW m \in Nat, m + 1 <= len, Drew(m)
      PROVE  Drew(m + 1)
  <2>1. PICK s \in Nat : m <= s /\ s <= len /\ PenAt(b, indexes, f[m], n + s, len - s)
    BY <1>9
  <2>2. f[m + 1] = DrawRect(f[m], c, b)
    <3>1. m + 1 \in 1 .. len /\ (m + 1) - 1 = m
      BY <1>1, <1>9
    <3> QED
      BY <1>5, <3>1
  <2> DEFINE k == n + s e == len - s
  <2>3. /\ k \in Nat /\ e \in Nat /\ k + e = n + len
        /\ PenAt(b, indexes, f[m], k, e)
    BY <1>1, <2>1
  <2>4. k + e <= PixelsIn(b)
    BY <1>6, <2>3
  <2>5. \A p \in Nat : k < p /\ p <= k + e => indexes[p] = c
    BY <1>1, <1>6, <2>3
  <2>6. \A l \in Nat : e - l = len - (s + l) /\ k + l = n + (s + l)
    BY <1>1
  <2>7. (e = 0 <=> s = len) /\ s + e = len
    BY <1>1, <2>1
  <2> HIDE DEF k, e
  <2>8. PICK l \in Nat : /\ l <= e /\ (e # 0 => l # 0)
                         /\ PenAt(b, indexes, DrawRect(f[m], c, b), k + l, e - l)
    BY <1>1, <2>3, <2>4, <2>5, RectDrawn
  <2>9. m + 1 <= s + l /\ s + l <= len /\ s + l \in Nat
    BY <1>1, <1>9, <2>1, <2>3, <2>7, <2>8
  <2>10. PenAt(b, indexes, f[m + 1], n + (s + l), len - (s + l))
    BY <2>2, <2>6, <2>8
  <2> QED
    BY <2>9, <2>10
<1> HIDE DEF Drew
<1>10. \A m \in T : m + 1 \in T
  BY <1>1, <1>9
<1>11. 0 \in T /\ T \in SUBSET Nat
  BY <1>8
<1>12. T = Nat
  <2> HIDE DEF T
  <2> QED
    BY <1>10, <1>11, SimpleInduction
<1>13. Drew(len)
  BY <1>1, <1>12
<1>14. PenAt(b, indexes, f[len], n + len, 0)
  <2>1. PICK s \in Nat : len <= s /\ s <= len /\ PenAt(b, indexes, f[len], n + s, len - s)
    BY <1>13 DEF Drew
  <2>2. s = len /\ len - s = 0
    BY <1>1, <2>1
  <2> QED
    BY <2>1, <2>2
<1> QED
  BY <1>4, <1>7, <1>14

\* A run that is drawn leaves a pen.
LEMMA RunLeavesAPen ==
  ASSUME NEW picture, NEW b, Bound(b, picture), NEW pen \in Pens, NEW run \in RunRecords
  PROVE  DrawRun(pen, run, b) \in Pens
<1> DEFINE f == CHOOSE g : TurnsTaken(pen, run, b, g)
           len == run.length
           c == run.color
           start == [pen EXCEPT !.drawLength = len]
           T == {m \in Nat : m <= len => f[m] \in Pens}
<1>1. len \in Nat /\ c \in Nat
  BY HexFacts DEF RunRecords, Bytes
<1>2. start \in Pens
  BY <1>1 DEF Pens
<1>3. TurnsTaken(pen, run, b, f)
  <2>1. \E g : TurnsTaken(pen, run, b, g)
    BY TurnsExist
  <2> QED
    BY <2>1
<1>4. DrawRun(pen, run, b) = f[len]
  BY DEF DrawRun, TurnsTaken
<1> HIDE DEF f
<1>5. f = [m \in 0 .. len |-> IF m = 0 THEN start ELSE DrawRect(f[m - 1], c, b)]
  BY <1>3 DEF TurnsTaken
<1> HIDE DEF start, len, c
<1>6. f[0] = start /\ \A m \in 1 .. len : f[m] = DrawRect(f[m - 1], c, b)
  BY <1>1, <1>5
<1>7. ASSUME NEW m \in Nat, m + 1 <= len, f[m] \in Pens
      PROVE  f[m + 1] \in Pens
  <2>1. m + 1 \in 1 .. len /\ (m + 1) - 1 = m
    BY <1>1, <1>7
  <2>2. f[m + 1] = DrawRect(f[m], c, b)
    BY <1>6, <2>1
  <2> QED
    BY <1>1, <1>7, <2>2, RectLeavesAPen
<1>8. 0 \in T /\ T \in SUBSET Nat /\ \A m \in T : m + 1 \in T
  BY <1>1, <1>2, <1>6, <1>7
<1>9. T = Nat
  <2> HIDE DEF T
  <2> QED
    BY <1>8, SimpleInduction
<1> QED
  BY <1>1, <1>4, <1>9

\* The pen after each run.
RunsTaken(start, runs, b, len, f) ==
  f = [r \in 0 .. len |-> IF r = 0 THEN start ELSE DrawRun(f[r - 1], runs[r], b)]

\* The loop over the runs ends.
LEMMA RunsTakenExist ==
  ASSUME NEW picture, NEW b, Bound(b, picture), NEW start \in Pens,
         NEW len \in Nat, NEW runs, \A r \in 1 .. len : runs[r] \in RunRecords
  PROVE  \E f : RunsTaken(start, runs, b, len, f)
<1> DEFINE turn == [r \in 1 .. len |-> [q \in Pens |-> DrawRun(q, runs[r], b)]]
<1>1. turn \in [1 .. len -> [Pens -> Pens]]
  <2>1. \A r \in 1 .. len, q \in Pens : DrawRun(q, runs[r], b) \in Pens
    BY RunLeavesAPen
  <2> QED
    BY <2>1
<1>2. PICK g : Iterates(Pens, start, len, turn, g)
  <2> HIDE DEF turn
  <2> QED
    BY <1>1, IterationExists
<1>3. /\ g \in [0 .. len -> Pens] /\ g[0] = start
      /\ \A r \in 1 .. len : g[r] = turn[r][g[r - 1]]
  BY <1>2 DEF Iterates
<1>4. ASSUME NEW r \in 0 .. len
      PROVE  g[r] = IF r = 0 THEN start ELSE DrawRun(g[r - 1], runs[r], b)
  <2>1. CASE r = 0
    BY <1>3, <2>1
  <2>2. CASE r # 0
    <3>1. r \in 1 .. len /\ r - 1 \in 0 .. len
      BY <2>2
    <3>2. g[r - 1] \in Pens
      BY <1>3, <3>1
    <3> QED
      BY <1>3, <2>2, <3>1, <3>2
  <2> QED
    BY <2>1, <2>2
<1> DEFINE h == [r \in 0 .. len |-> IF r = 0 THEN start ELSE DrawRun(g[r - 1], runs[r], b)]
<1>5. g = [r \in 0 .. len |-> g[r]] /\ h = [r \in 0 .. len |-> h[r]]
  BY <1>3
<1>6. \A r \in 0 .. len : g[r] = h[r]
  BY <1>4
<1> HIDE DEF h
<1>7. g = h
  BY <1>5, <1>6
<1> QED
  BY <1>7 DEF RunsTaken, h

\* All runs drawn: every pixel of the raster has its rectangle, and no position more.
LEMMA AllRunsDrawn ==
  ASSUME NEW picture, NEW b, Bound(b, picture),
         NEW runs \in Seq(RunRecords), NEW at, NEW indexes,
         TellsRuns(runs, at, indexes, PixelsIn(b)),
         NEW rects, \A r \in 1 .. Len(runs) : rects[r] = runs[r],
         NEW start, start = [rects |-> {}, x |-> b.left, y |-> b.top, drawLength |-> 0],
         NEW f, RunsTaken(start, rects, b, Len(runs), f)
  PROVE  DrawnUpTo(b, indexes, f[Len(runs)].rects, PixelsIn(b))
<1> DEFINE len == Len(runs)
           total == PixelsIn(b)
           w == b.right - b.left
           Drew(r) == \E d \in Nat : PenAt(b, indexes, f[r], at[r], d)
           T == {r \in Nat : r <= len => Drew(r)}
<1>1. /\ b.top \in Nat /\ b.right \in Nat /\ b.bottom \in Nat /\ b.left \in Nat
      /\ b.left <= b.right /\ b.top <= b.bottom
  BY DEF Bound
<1>2. total \in Nat
  BY RasterInPicture
<1>3. len \in Nat /\ \A r \in 1 .. len : runs[r] \in RunRecords /\ rects[r] = runs[r]
  OBVIOUS
<1>4. /\ at \in [0 .. len -> Nat] /\ at[0] = 0 /\ at[len] = total
      /\ \A r \in 1 .. len : at[r] = at[r - 1] + runs[r].length
      /\ \A r \in 1 .. len : \A p \in Nat :
           at[r - 1] < p /\ p <= at[r] => indexes[p] = runs[r].color
  BY DEF TellsRuns
<1>5. \A r \in 0 .. len : at[r] <= total
  BY <1>2, RunsEndInTime
<1>6. f[0] = start /\ \A r \in 1 .. len : f[r] = DrawRun(f[r - 1], rects[r], b)
  <2>1. f = [r \in 0 .. len |-> IF r = 0 THEN start ELSE DrawRun(f[r - 1], rects[r], b)]
    BY DEF RunsTaken
  <2>2. 0 \in 0 .. len /\ \A r \in 1 .. len : r \in 0 .. len /\ r # 0
    BY <1>3
  <2> HIDE DEF len
  <2>3. f[0] = start
    BY <2>1, <2>2, Zenon
  <2>4. \A r \in 1 .. len : f[r] = DrawRun(f[r - 1], rects[r], b)
    BY <2>1, <2>2, Zenon
  <2> QED
    BY <2>3, <2>4
<1>7. start \in Pens
  BY <1>1 DEF Pens
<1>8. DrawnUpTo(b, indexes, start.rects, 0)
  <2>1. start.rects = {}
    OBVIOUS
  <2>2. \A x, y : Colored({}, x, y) = {}
    BY DEF Colored
  <2>3. ASSUME NEW x \in Nat, NEW y \in Nat, Inside(b, x, y)
        PROVE  ~(PlaceOf(b, x, y) <= 0)
    <3>1. PlaceOf(b, x, y) \in 1 .. PixelsIn(b)
      BY <2>3, RasterAtPlace DEF Inside
    <3> QED
      BY <1>2, <3>1
  <2> QED
    BY <2>1, <2>2, <2>3 DEF DrawnUpTo
<1>9. CASE b.left = b.right
  <2>1. w = 0
    BY <1>1, <1>9
  <2>2. \A h \in Nat : w * h = 0
    BY <2>1
  <2>3. total = 0
    BY <1>1, <2>2 DEF PixelsIn
  <2>4. len = 0
    <3> SUFFICES ASSUME len # 0
                 PROVE  FALSE
      OBVIOUS
    <3>1. 1 \in 1 .. len /\ 1 \in 0 .. len
      BY <1>3
    <3>2. runs[1].length \in 1 .. MaxRun
      BY <1>3, <3>1 DEF RunRecords
    <3>3. at[1] = at[0] + runs[1].length /\ at[1] <= total
      BY <1>4, <1>5, <3>1
    <3> QED
      BY <1>4, <2>3, <3>2, <3>3, HexFacts
  <2> QED
    BY <1>6, <1>8, <2>3, <2>4
<1>10. CASE b.left # b.right
  <2>1. Drew(0)
    <3>1. 0 < b.right - b.left /\ 0 = 0 * (b.right - b.left) + 0
          /\ b.left = b.left + 0 /\ b.top = b.top + 0
      BY <1>1, <1>10
    <3>2. start.x = b.left /\ start.y = b.top /\ start.drawLength = 0
      OBVIOUS
    <3>3. PenAt(b, indexes, start, 0, 0)
      BY <1>7, <1>8, <3>1, <3>2 DEF PenAt
    <3> QED
      BY <1>4, <1>6, <3>3
  <2>2. ASSUME NEW r \in Nat, r + 1 <= len, Drew(r)
        PROVE  Drew(r + 1)
    <3> DEFINE run == runs[r + 1] n == at[r]
    <3>1. r + 1 \in 1 .. len /\ (r + 1) - 1 = r /\ r \in 0 .. len /\ r + 1 \in 0 .. len
      BY <1>3, <2>2
    <3>2. PICK d \in Nat : PenAt(b, indexes, f[r], n, d)
      BY <2>2
    <3>3. run \in RunRecords /\ f[r + 1] = DrawRun(f[r], run, b)
      BY <1>3, <1>6, <3>1
    <3>4. /\ n \in Nat /\ n + run.length = at[r + 1] /\ n + run.length <= PixelsIn(b)
          /\ \A p \in Nat : n < p /\ p <= n + run.length => indexes[p] = run.color
      <4>1. n \in Nat
        BY <1>4, <3>1
      <4>2. at[r + 1] = n + run.length
        BY <1>4, <3>1
      <4>3. at[r + 1] <= total
        BY <1>5, <3>1
      <4>4. \A p \in Nat : n < p /\ p <= at[r + 1] => indexes[p] = run.color
        BY <1>4, <3>1
      <4> HIDE DEF n, run
      <4> QED  BY ONLY <4>1, <4>2, <4>3, <4>4
    <3> HIDE DEF run, n
    <3>5. PenAt(b, indexes, DrawRun(f[r], run, b), n + run.length, 0)
      <4> DEFINE pen == f[r]
      <4>1. PenAt(b, indexes, pen, n, d) /\ b.left # b.right /\ Bound(b, picture)
        BY <1>10, <3>2
      <4> HIDE DEF pen
      <4>2. PenAt(b, indexes, DrawRun(pen, run, b), n + run.length, 0)
        BY ONLY d \in Nat, <3>3, <3>4, <4>1, RunDrawn
      <4> QED  BY <4>2 DEF pen
    <3> QED
      BY <3>3, <3>4, <3>5
  <2> HIDE DEF Drew
  <2>3. 0 \in T /\ T \in SUBSET Nat /\ \A r \in T : r + 1 \in T
    BY <1>3, <2>1, <2>2
  <2>4. T = Nat
    <3> HIDE DEF T
    <3> QED
      BY <2>3, SimpleInduction
  <2>5. Drew(len)
    BY <1>3, <2>4
  <2> QED
    BY <1>4, <2>5 DEF Drew, PenAt
<1> QED
  BY <1>9, <1>10

\* buildSVG draws the indexes of the data.
LEMMA SVGDraws ==
  ASSUME NEW picture, NEW b, Bound(b, picture),
         NEW runs \in Seq(RunRecords), NEW at, NEW indexes,
         TellsRuns(runs, at, indexes, PixelsIn(b)),
         NEW data, decodeImage(data).bounds = b,
         Len(decodeImage(data).rects) = Len(runs),
         \A r \in 1 .. Len(runs) : decodeImage(data).rects[r] = runs[r]
  PROVE  DrawnUpTo(b, indexes, buildSVG(data), PixelsIn(b))
<1> DEFINE len == Len(runs)
           rects == decodeImage(data).rects
           start == [rects |-> {}, x |-> b.left, y |-> b.top, drawLength |-> 0]
           f == CHOOSE g : RunsTaken(start, rects, b, len, g)
<1>1. len \in Nat /\ \A r \in 1 .. len : runs[r] \in RunRecords /\ rects[r] = runs[r]
  OBVIOUS
<1>2. start \in Pens
  BY DEF Pens, Bound
<1>3. \E g : RunsTaken(start, rects, b, len, g)
  <2>1. \A r \in 1 .. len : rects[r] \in RunRecords
    BY <1>1
  <2> HIDE DEF start, rects, len
  <2> QED
    BY <1>1, <1>2, <2>1, RunsTakenExist
<1>4. RunsTaken(start, rects, b, len, f)
  BY <1>3
<1>5. buildSVG(data) = f[len].rects
  BY DEF buildSVG, RunsTaken
<1> HIDE DEF f
<1>6. DrawnUpTo(b, indexes, f[len].rects, PixelsIn(b))
  <2>1. start = [rects |-> {}, x |-> b.left, y |-> b.top, drawLength |-> 0]
    OBVIOUS
  <2>2. \A r \in 1 .. Len(runs) : rects[r] = runs[r]
    BY <1>1
  <2>3. RunsTaken(start, rects, b, Len(runs), f)
    BY <1>4
  <2> HIDE DEF start, rects
  <2> QED
    BY <2>1, <2>2, <2>3, AllRunsDrawn
<1> QED
  BY <1>5, <1>6

-----------------------------------------------------------------------------
(* The artwork: a picture is drawn again.                                  *)

\* Every pixel has the index of its colour, a clear one has none.
IndexesOf(indexes, colors, picture, b) ==
  \A n \in 1 .. PixelsIn(b) :
    LET pixel == picture[Raster(b)[n]]
    IN IF pixel.clear THEN indexes[n] = 0
       ELSE /\ indexes[n] \in 1 .. Len(colors) - 1
            /\ colors[indexes[n] + 1] = pixel.color

\* The bounds of a picture are four numbers.
LEMMA BoundsAreFour ==
  ASSUME NEW picture
  PROVE  LET b == calcBounds(picture)
         IN b = [top |-> b.top, right |-> b.right, bottom |-> b.bottom, left |-> b.left]
<1> DEFINE columns == {x \in 0 .. PictureWidth - 1 : ~isTransparentColumn(picture, x)}
           rows == {y \in 0 .. PictureHeight - 1 : ~isTransparentRow(picture, y)}
<1>1. calcBounds(picture) =
        IF columns = {} THEN [top |-> 0, right |-> 0, bottom |-> 0, left |-> 0]
        ELSE [top |-> Min(rows), right |-> Max(columns) + 1,
              bottom |-> Max(rows), left |-> Min(columns)]
  BY DEF calcBounds
<1> HIDE DEF columns, rows
<1> QED
  BY <1>1

\* toRLE adds to the palette, and its data are runs that tell the colours.
LEMMA PictureEncoded ==
  ASSUME NEW picture \in Pictures, NEW colors \in Palettes
  PROVE  LET rle == toRLE(picture, colors)
             b == calcBounds(picture)
         IN /\ rle.colors \in Palettes /\ Prolongs(rle.colors, colors)
            /\ Len(rle.colors) <= Hex * Hex =>
                 \E runs \in Seq(RunRecords) : \E at, indexes :
                   /\ TellsRuns(runs, at, indexes, PixelsIn(b))
                   /\ rle.data = DataOf(<<0, b.top, b.right, b.bottom, b.left>>, runs)
                   /\ IndexesOf(indexes, rle.colors, picture, b)
<1> DEFINE b == calcBounds(picture)
           len == PixelsIn(b)
           pixels == [n \in 1 .. len |-> picture[Raster(b)[n]]]
           f == CHOOSE g : ColorsSoFar(colors, pixels, len, g)
           all == f[len]
           indexes == [n \in 1 .. len |->
                         IF pixels[n].clear THEN 0 ELSE IndexOf(all, pixels[n].color)]
           metadata == <<0, b.top, b.right, b.bottom, b.left>>
           rle == toRLE(picture, colors)
<1>1. Bound(b, picture)
  BY BoundsHoldThePicture
<1>2. /\ len \in Nat /\ DOMAIN Raster(b) = 1 .. len
      /\ \A n \in 1 .. len :
           \E x \in 0 .. PictureWidth - 1, y \in 0 .. PictureHeight - 1 : Raster(b)[n] = <<x, y>>
  BY <1>1, RasterInPicture
<1>3. \A n \in 1 .. len : pixels[n] \in Pixels /\ pixels[n].color # Transparent
  <2> SUFFICES ASSUME NEW n \in 1 .. len
               PROVE  pixels[n] \in Pixels /\ pixels[n].color # Transparent
    OBVIOUS
  <2>1. PICK x \in 0 .. PictureWidth - 1, y \in 0 .. PictureHeight - 1 : Raster(b)[n] = <<x, y>>
    BY <1>2
  <2>2. pixels[n] = picture[<<x, y>>]
    BY <2>1
  <2> QED
    BY <2>2, PictureFacts
<1>4. pixels \in [1 .. len -> Pixels] /\ Len(pixels) = len /\ DOMAIN pixels = 1 .. len
  BY <1>2, <1>3
<1>5. rle = [colors |-> all,
             data |-> FlattenSeq([n \in 1 .. 5 |-> toPaddedHex(metadata[n])])
                        \o encode(indexes)]
  BY <1>2, <1>4 DEF toRLE, ColorsSoFar
<1>6. ColorsSoFar(colors, pixels, len, f)
  <2>1. \E g : ColorsSoFar(colors, pixels, len, g)
    <3> HIDE DEF pixels, len
    <3> QED
      BY <1>2, <1>4, ColorsSoFarExist
  <2> QED
    BY <2>1
<1> HIDE DEF f
<1>7. /\ all \in Palettes /\ Prolongs(all, colors)
      /\ \A p \in 1 .. len : \E n \in 1 .. Len(all) : all[n] = pixels[p].color
  <2> HIDE DEF pixels, len
  <2> QED
    BY <1>2, <1>4, <1>6, AllColorsKnown
<1> HIDE DEF all
<1>8. ASSUME NEW n \in 1 .. len
      PROVE  IF pixels[n].clear THEN indexes[n] = 0
             ELSE indexes[n] \in 1 .. Len(all) - 1 /\ all[indexes[n] + 1] = pixels[n].color
  <2> HIDE DEF pixels
  <2>1. CASE pixels[n].clear
    BY <2>1
  <2>2. CASE ~pixels[n].clear
    <3>1. indexes[n] = IndexOf(all, pixels[n].color)
      BY <2>2
    <3>2. /\ IndexOf(all, pixels[n].color) \in 0 .. Len(all) - 1
          /\ all[IndexOf(all, pixels[n].color) + 1] = pixels[n].color
          /\ IndexOf(all, pixels[n].color) # 0
      <4>1. \E k \in 1 .. Len(all) : all[k] = pixels[n].color
        BY <1>7
      <4>2. pixels[n].color # Transparent
        BY <1>3
      <4> QED
        BY <1>7, <4>1, <4>2, IndexOfKnown
    <3> HIDE DEF indexes
    <3>3. Len(all) \in Nat
      BY <1>7 DEF Palettes
    <3> QED
      BY <2>2, <3>1, <3>2, <3>3
  <2> QED
    BY <2>1, <2>2
<1>9. ASSUME Len(all) <= Hex * Hex
      PROVE  indexes \in [1 .. len -> Bytes]
  <2>1. Len(all) \in Nat /\ Len(all) - 1 <= MaxRun
    <3> DEFINE square == Hex * Hex
    <3>1. square \in Nat /\ MaxRun + 1 = square /\ MaxRun \in Nat /\ Len(all) <= square
      BY <1>9, HexFacts
    <3> HIDE DEF square
    <3>2. Len(all) \in Nat
      BY <1>7 DEF Palettes
    <3> QED
      BY <3>1, <3>2
  <2>2. ASSUME NEW n \in 1 .. len
        PROVE  indexes[n] \in Bytes
    <3>1. indexes[n] = 0 \/ indexes[n] \in 1 .. Len(all) - 1
      BY <1>8
    <3> HIDE DEF indexes
    <3> QED
      BY <2>1, <3>1, HexFacts DEF Bytes
  <2>3. indexes = [n \in 1 .. len |-> indexes[n]]
    OBVIOUS
  <2> HIDE DEF indexes
  <2> QED
    BY <2>2, <2>3
<1>10. ASSUME Len(all) <= Hex * Hex
       PROVE  \E runs \in Seq(RunRecords) : \E at, ixs :
                   /\ TellsRuns(runs, at, ixs, len)
                   /\ rle.data = DataOf(metadata, runs)
                   /\ IndexesOf(ixs, all, picture, b)
  <2>1. indexes \in [1 .. len -> Bytes]
    BY <1>9, <1>10
  <2>2. IndexesOf(indexes, all, picture, b)
    BY <1>8 DEF IndexesOf
  <2>3. rle.data = FlattenSeq([n \in 1 .. 5 |-> toPaddedHex(metadata[n])]) \o encode(indexes)
    <3> HIDE DEF indexes, rle, metadata, all
    <3> QED
      BY ONLY <1>5
  <2> HIDE DEF indexes, rle, metadata, len, b
  <2>4. PICK runs \in Seq(RunRecords) : \E at :
          /\ TellsRuns(runs, at, indexes, len)
          /\ encode(indexes) =
               FlattenSeq([r \in 1 .. Len(runs) |->
                             toPaddedHex(runs[r].length) \o toPaddedHex(runs[r].color)])
    BY <1>2, <2>1, EncodedRuns
  <2>5. PICK at : TellsRuns(runs, at, indexes, len)
    BY <2>4
  <2>6. rle.data = DataOf(metadata, runs)
    BY <2>3, <2>4 DEF DataOf
  <2> QED
    BY <2>2, <2>6, <2>5
<1>11. rle.colors = all
  BY <1>5
<1> QED
  BY <1>7, <1>10, <1>11

\* A picture is drawn from its data, with every palette that goes on with the encoder's
\* colours and of which a byte can tell the colours.
LEMMA PictureDrawn ==
  ASSUME NEW picture \in Pictures, NEW colors \in Palettes, NEW palette \in Palettes,
         Prolongs(palette, toRLE(picture, colors).colors), Len(palette) <= Hex * Hex
  PROVE  Draws(toRLE(picture, colors).data, palette, picture)
<1> DEFINE b == calcBounds(picture)
           all == toRLE(picture, colors).colors
           data == toRLE(picture, colors).data
           metadata == <<0, b.top, b.right, b.bottom, b.left>>
           svg == buildSVG(data)
<1>1. Bound(b, picture)
  BY BoundsHoldThePicture
<1>2. all \in Palettes /\ Len(all) <= Hex * Hex
  <2>1. all \in Palettes
    BY PictureEncoded
  <2> DEFINE square == Hex * Hex
  <2>2. Len(all) \in Nat /\ Len(palette) \in Nat /\ square \in Nat
    BY <2>1, HexFacts DEF Palettes
  <2>3. Len(all) <= Len(palette) /\ Len(palette) <= square
    BY DEF Prolongs
  <2> HIDE DEF all, square
  <2>4. Len(all) <= square
    BY <2>2, <2>3
  <2> QED
    BY <2>1, <2>4 DEF square
<1>3. PICK runs \in Seq(RunRecords) : \E at, indexes :
        /\ TellsRuns(runs, at, indexes, PixelsIn(b))
        /\ data = DataOf(metadata, runs)
        /\ IndexesOf(indexes, all, picture, b)
  BY <1>2, PictureEncoded
<1>4. PICK at, indexes :
        /\ TellsRuns(runs, at, indexes, PixelsIn(b))
        /\ data = DataOf(metadata, runs)
        /\ IndexesOf(indexes, all, picture, b)
  BY <1>3
<1>5. Prolongs(palette, all)
  OBVIOUS
<1>6. b = [top |-> b.top, right |-> b.right, bottom |-> b.bottom, left |-> b.left]
  BY BoundsAreFour
<1>7. Draws(data, palette, picture) =
        \A x \in 0 .. PictureWidth - 1, y \in 0 .. PictureHeight - 1 :
          DrawnAt(svg, palette, x, y) =
            IF picture[<<x, y>>].clear THEN {} ELSE {picture[<<x, y>>].color}
  BY DEF Draws
<1>8. /\ metadata[1] = 0 /\ metadata[2] = b.top /\ metadata[3] = b.right
      /\ metadata[4] = b.bottom /\ metadata[5] = b.left /\ metadata = [n \in 1 .. 5 |-> metadata[n]]
  OBVIOUS
<1> HIDE DEF all, data, b, metadata, svg
<1>9. metadata \in [1 .. 5 -> Bytes]
  <2>1. /\ b.top \in Nat /\ b.right \in Nat /\ b.bottom \in Nat /\ b.left \in Nat
        /\ b.left <= b.right /\ b.right <= PictureWidth
        /\ b.top <= b.bottom /\ b.bottom <= PictureHeight - 1
    BY <1>1 DEF Bound
  <2>2. /\ 0 \in Bytes /\ b.top \in Bytes /\ b.right \in Bytes
        /\ b.bottom \in Bytes /\ b.left \in Bytes
    BY <2>1, SizeFacts, HexFacts DEF Bytes
  <2>3. \A n \in 1 .. 5 : n = 1 \/ n = 2 \/ n = 3 \/ n = 4 \/ n = 5
    OBVIOUS
  <2>4. \A n \in 1 .. 5 : metadata[n] \in Bytes
    BY <1>8, <2>2, <2>3
  <2> QED
    BY <1>8, <2>4
<1>10. /\ decodeImage(data).bounds = b
      /\ Len(decodeImage(data).rects) = Len(runs)
      /\ \A r \in 1 .. Len(runs) : decodeImage(data).rects[r] = runs[r]
  BY <1>4, <1>9, <1>6, <1>8, DecodesWhatWasEncoded
<1>11. DrawnUpTo(b, indexes, svg, PixelsIn(b))
  BY <1>1, <1>4, <1>10, SVGDraws DEF svg
<1>12. ASSUME NEW x \in 0 .. PictureWidth - 1, NEW y \in 0 .. PictureHeight - 1
      PROVE  DrawnAt(svg, palette, x, y) =
               IF picture[<<x, y>>].clear THEN {} ELSE {picture[<<x, y>>].color}
  <2> DEFINE place == PlaceOf(b, x, y)
             pixel == picture[<<x, y>>]
             c == indexes[place]
  <2>1. DrawnAt(svg, palette, x, y) = {hexColor(palette, k) : k \in Colored(svg, x, y)}
    BY DEF DrawnAt, Colored
  <2>2. x \in Nat /\ y \in Nat
    BY SizeFacts
  <2>3. Colored(svg, x, y) =
          IF Inside(b, x, y) /\ place <= PixelsIn(b) /\ c # 0 THEN {c} ELSE {}
    BY <1>11, <2>2 DEF DrawnUpTo
  <2>4. CASE ~Inside(b, x, y)
    <3>1. pixel.clear
      BY <1>1, <2>4 DEF Bound, Inside
    <3> HIDE DEF place, c
    <3> QED
      BY <2>1, <2>3, <2>4, <3>1
  <2>5. CASE Inside(b, x, y)
    <3>1. place \in 1 .. PixelsIn(b) /\ Raster(b)[place] = <<x, y>>
      BY <1>1, <2>2, <2>5, RasterAtPlace DEF Inside
    <3>2. PixelsIn(b) \in Nat
      BY <1>1, RasterInPicture
    <3>3. IF pixel.clear THEN c = 0
          ELSE c \in 1 .. Len(all) - 1 /\ all[c + 1] = pixel.color
      BY <1>4, <3>1 DEF IndexesOf
    <3> HIDE DEF place, c
    <3>4. CASE pixel.clear
      <4>1. Colored(svg, x, y) = {}
        BY <2>3, <3>3, <3>4
      <4> QED
        BY <2>1, <3>4, <4>1
    <3>5. CASE ~pixel.clear
      <4>1. c \in 1 .. Len(all) - 1 /\ all[c + 1] = pixel.color
        BY <3>3, <3>5
      <4>2. /\ Len(all) \in Nat /\ Len(palette) \in Nat /\ Len(all) <= Len(palette)
            /\ \A n \in 1 .. Len(all) : palette[n] = all[n]
        BY <1>2, <1>5 DEF Palettes, Prolongs
      <4>3. c < Len(palette) /\ c + 1 \in 1 .. Len(all) /\ c # 0 /\ place <= PixelsIn(b)
        BY <3>1, <3>2, <4>1, <4>2
      <4>4. hexColor(palette, c) = pixel.color
        BY <4>1, <4>2, <4>3 DEF hexColor
      <4>5. Colored(svg, x, y) = {c}
        BY <2>3, <2>5, <4>3
      <4> QED
        BY <2>1, <3>5, <4>4, <4>5
    <3> QED
      BY <3>4, <3>5
  <2> QED
    BY <2>4, <2>5
<1> QED
  BY <1>12, <1>7 DEF data

-----------------------------------------------------------------------------
(* The artwork: the scripts.                                               *)

\* The data draws the picture with every palette that goes on with the colours.
DrawnUnder(data, picture, colors) ==
  \A palette \in Palettes :
    Prolongs(palette, colors) /\ Len(palette) <= Hex * Hex => Draws(data, palette, picture)

ListedOnce(folders, n) ==
  \A m \in 1 .. Len(folders) : m # n => folders[m].filename # folders[n].filename

\* What an encoder has encoded under a name of its own can be drawn.
EncoderInv(encoder) ==
  /\ encoder.colors \in Palettes
  /\ \E S : encoder.folders \in Seq(S)
  /\ \A n \in 1 .. Len(encoder.folders) :
       /\ encoder.folders[n].filename \in DOMAIN encoder.images
       /\ ListedOnce(encoder.folders, n) =>
            DrawnUnder(encoder.images[encoder.folders[n].filename],
                       encoder.folders[n].picture, encoder.colors)

\* Images that can be drawn with the palette each was encoded for.
ImagesInv(images) ==
  /\ \E S : images \in Seq(S)
  /\ \A n \in 1 .. Len(images) :
       /\ images[n].palette \in Palettes
       /\ NamedOnce(images, n) =>
            DrawnUnder(images[n].data, images[n].picture, images[n].palette)

\* A file of images, with its palette.
ArtInv(art) ==
  \/ art = NoArt
  \/ /\ art = [palette |-> art.palette, images |-> art.images]
     /\ art.palette \in Palettes
     /\ ImagesInv(art.images)

ScriptInv ==
  script # NoScript =>
    /\ script = [name |-> script.name, at |-> script.at, palette |-> script.palette,
                 encoder |-> script.encoder]
    /\ EncoderInv(script.encoder)

ArtworkInv == ScriptInv /\ ArtInv(published) /\ ImagesInv(page)

\* What is drawn with every palette that goes on with the colours is drawn with every
\* palette that goes on with more.
LEMMA DrawnUnderMore ==
  ASSUME NEW data, NEW picture, NEW colors \in Palettes, NEW more \in Palettes,
         Prolongs(more, colors), DrawnUnder(data, picture, colors)
  PROVE  DrawnUnder(data, picture, more)
<1> SUFFICES ASSUME NEW palette \in Palettes, Prolongs(palette, more), Len(palette) <= Hex * Hex
             PROVE  Draws(data, palette, picture)
  BY DEF DrawnUnder
<1>1. Prolongs(palette, colors)
  BY ProlongsFurther
<1> QED
  BY <1>1 DEF DrawnUnder

\* A new encoder has encoded nothing.
LEMMA NewEncoderInv ==
  ASSUME NEW colors, colors = <<>> \/ colors \in Palettes
  PROVE  EncoderInv(NewEncoder(colors))
<1> DEFINE encoder == NewEncoder(colors)
           first == IF colors = <<>> THEN <<Transparent>> ELSE colors
<1>1. first \in Palettes
  <2>1. CASE colors = <<>>
    <3>1. Transparent \in Colors
      BY DEF Colors
    <3>2. <<Transparent>> \in Seq(Colors) /\ <<Transparent>> # <<>>
      BY <3>1
    <3> QED
      BY <2>1, <3>2 DEF Palettes
  <2>2. CASE colors # <<>>
    BY <2>2
  <2> QED
    BY <2>1, <2>2
<1> HIDE DEF first
<1>2. encoder.colors = first /\ encoder.folders = <<>>
  BY DEF NewEncoder, NoEncoder, first
<1> HIDE DEF encoder
<1>3. encoder.folders \in Seq({}) /\ Len(encoder.folders) = 0
  BY <1>2
<1>4. \A n \in 1 .. Len(encoder.folders) : FALSE
  BY <1>3
<1>5. \E S : encoder.folders \in Seq(S)
  BY <1>3
<1> QED
  BY <1>1, <1>2, <1>4, <1>5 DEF EncoderInv, encoder

\* Encoding one more picture.
LEMMA EncoderGoesOn ==
  ASSUME NEW encoder, EncoderInv(encoder), NEW filename, NEW picture \in Pictures, NEW folder
  PROVE  EncoderInv(encodeImage(encoder, filename, picture, folder))
<1> DEFINE next == encodeImage(encoder, filename, picture, folder)
           rle == toRLE(picture, encoder.colors)
           file == [folder |-> folder, filename |-> filename, picture |-> picture]
           len == Len(encoder.folders)
<1>1. /\ next.colors = rle.colors /\ next.folders = Append(encoder.folders, file)
      /\ next.images = [name \in DOMAIN encoder.images \cup {filename} |->
                          IF name = filename THEN rle.data ELSE encoder.images[name]]
  BY DEF encodeImage
<1>2. encoder.colors \in Palettes
  BY DEF EncoderInv
<1>3. rle.colors \in Palettes /\ Prolongs(rle.colors, encoder.colors)
  BY <1>2, PictureEncoded
<1>4. DrawnUnder(rle.data, picture, rle.colors)
  BY <1>2, PictureDrawn DEF DrawnUnder
<1> HIDE DEF rle, next
<1>5. file.filename = filename /\ file.picture = picture
  OBVIOUS
<1> HIDE DEF file
<1>6. PICK S : encoder.folders \in Seq(S)
  BY DEF EncoderInv
<1>7. /\ len \in Nat /\ \E Q : next.folders \in Seq(Q)
      /\ Len(next.folders) = len + 1 /\ next.folders[len + 1] = file
      /\ \A n \in 1 .. len : next.folders[n] = encoder.folders[n]
  <2> DEFINE Q == S \cup {file}
  <2>1. encoder.folders \in Seq(Q) /\ file \in Q
    BY <1>6
  <2> HIDE DEF Q
  <2> QED
    BY <1>1, <2>1, AppendProperties
<1>8. /\ filename \in DOMAIN next.images /\ next.images[filename] = rle.data
      /\ \A name \in DOMAIN encoder.images :
           name \in DOMAIN next.images
             /\ (name # filename => next.images[name] = encoder.images[name])
  BY <1>1
<1>9. ASSUME NEW n \in 1 .. len + 1
      PROVE  /\ next.folders[n].filename \in DOMAIN next.images
             /\ ListedOnce(next.folders, n) =>
                  DrawnUnder(next.images[next.folders[n].filename],
                             next.folders[n].picture, next.colors)
  <2>1. CASE n = len + 1
    BY <1>1, <1>4, <1>7, <1>8, <1>5, <2>1
  <2>2. CASE n # len + 1
    <3>1. n \in 1 .. len /\ next.folders[n] = encoder.folders[n]
      BY <1>7, <2>2
    <3> DEFINE name == encoder.folders[n].filename
    <3>2. /\ name \in DOMAIN encoder.images
          /\ ListedOnce(encoder.folders, n) =>
               DrawnUnder(encoder.images[name], encoder.folders[n].picture, encoder.colors)
      BY <3>1 DEF EncoderInv
    <3>3. ASSUME ListedOnce(next.folders, n)
          PROVE  ListedOnce(encoder.folders, n) /\ name # filename
      <4>1. \A m \in 1 .. len + 1 : m # n => next.folders[m].filename # next.folders[n].filename
        BY <1>7, <3>3 DEF ListedOnce
      <4>2. len + 1 \in 1 .. len + 1 /\ len + 1 # n /\ \A m \in 1 .. len : m \in 1 .. len + 1
        BY <1>7, <2>2
      <4>3. \A m \in 1 .. len : m # n => encoder.folders[m].filename # name
        BY <1>7, <3>1, <4>1, <4>2
      <4>4. filename # name
        BY <1>7, <1>5, <3>1, <4>1, <4>2
      <4> QED
        BY <4>3, <4>4 DEF ListedOnce
    <3> HIDE DEF name
    <3>4. ASSUME ListedOnce(next.folders, n)
          PROVE  DrawnUnder(next.images[name], encoder.folders[n].picture, next.colors)
      <4>1. DrawnUnder(encoder.images[name], encoder.folders[n].picture, encoder.colors)
        BY <3>2, <3>3, <3>4
      <4>2. DrawnUnder(encoder.images[name], encoder.folders[n].picture, rle.colors)
        BY <1>2, <1>3, <4>1, DrawnUnderMore
      <4>3. next.images[name] = encoder.images[name]
        BY <1>8, <3>2, <3>3, <3>4
      <4> QED
        BY <1>1, <4>2, <4>3
    <3> QED
      BY <1>8, <3>1, <3>2, <3>4 DEF name
  <2> QED
    BY <2>1, <2>2
<1> QED
  BY <1>1, <1>3, <1>7, <1>9 DEF EncoderInv, next

\* What an encoder writes can be drawn.
LEMMA WrittenArt ==
  ASSUME NEW encoder, EncoderInv(encoder), NEW palette, palette = encoder.colors
  PROVE  palette \in Palettes /\ ImagesInv(format(encoder, palette))
<1> DEFINE images == format(encoder, palette)
           len == Len(encoder.folders)
<1>1. PICK S : encoder.folders \in Seq(S)
  BY DEF EncoderInv
<1>2. len \in Nat /\ DOMAIN encoder.folders = 1 .. len
  BY <1>1
<1>3. images = [n \in 1 .. len |->
        LET file == encoder.folders[n]
        IN [folder |-> file.folder, filename |-> file.filename, picture |-> file.picture,
            palette |-> palette,
            data |-> IF \E m \in 1 .. n - 1 : encoder.folders[m].filename = file.filename
                     THEN Undefined ELSE encoder.images[file.filename]]]
  BY <1>2 DEF format
<1> HIDE DEF images
<1>6. \A n \in 1 .. len :
        /\ images[n].filename = encoder.folders[n].filename
        /\ images[n].picture = encoder.folders[n].picture
        /\ images[n].palette = palette
        /\ (~ \E m \in 1 .. n - 1 : encoder.folders[m].filename = encoder.folders[n].filename)
             => images[n].data = encoder.images[encoder.folders[n].filename]
  BY <1>3
<1>7. (\E Q : images \in Seq(Q)) /\ Len(images) = len /\ DOMAIN images = 1 .. len
  <2> DEFINE Q == {images[n] : n \in 1 .. len}
  <2>1. images = [n \in 1 .. len |-> images[n]]
    BY <1>3
  <2>2. \A n \in 1 .. len : images[n] \in Q
    OBVIOUS
  <2> HIDE DEF Q
  <2>3. images \in [1 .. len -> Q]
    BY <2>1, <2>2
  <2>4. images \in Seq(Q) /\ Len(images) = len
    BY <1>2, <2>3
  <2>5. DOMAIN images = 1 .. len
    BY <2>3
  <2> QED
    BY <2>4, <2>5
<1>8. ASSUME NEW n \in 1 .. len, NamedOnce(images, n)
      PROVE  DrawnUnder(images[n].data, images[n].picture, images[n].palette)
  <2>1. \A m \in 1 .. len : m # n => encoder.folders[m].filename # encoder.folders[n].filename
    <3>1. \A m \in 1 .. len : m # n => images[m].filename # images[n].filename
      BY <1>7, <1>8 DEF NamedOnce
    <3> QED
      BY <1>6, <3>1
  <2>2. \A m \in 1 .. n - 1 : m \in 1 .. len /\ m # n
    BY <1>2
  <2>3. images[n].data = encoder.images[encoder.folders[n].filename]
    BY <1>6, <2>1, <2>2
  <2>4. ListedOnce(encoder.folders, n)
    BY <2>1 DEF ListedOnce
  <2>5. DrawnUnder(encoder.images[encoder.folders[n].filename],
                   encoder.folders[n].picture, encoder.colors)
    BY <2>4 DEF EncoderInv
  <2> QED
    BY <1>6, <2>3, <2>5
<1>9. palette \in Palettes
  BY DEF EncoderInv
<1>10. \A n \in 1 .. len : images[n].palette \in Palettes
  BY <1>6, <1>9
<1>11. ImagesInv(images)
  BY <1>7, <1>8, <1>10 DEF ImagesInv
<1> QED
  BY <1>9, <1>11 DEF images

\* A palette that is given is a palette.
LEMMA GivenPalettesFit ==
  ASSUME NEW name \in DOMAIN GivenPalettes
  PROVE  GivenPalettes[name] \in Palettes
<1>1. GivenPalettes[name] \in Seq(STRING) \ {<<>>} /\ GivenPalettes[name][1] = ""
  BY ImageAssumption, Zenon
<1>2. GivenPalettes[name] \in Seq(Colors)
  <2> DEFINE S == STRING p == GivenPalettes[name]
  <2>1. p \in Seq(S)
    BY <1>1, Zenon
  <2>2. S \subseteq Colors
    BY Zenon DEF Colors
  <2> HIDE DEF S, p
  <2>3. p \in Seq(Colors)
    BY <2>1, <2>2
  <2> QED
    BY <2>3 DEF p
<1>3. GivenPalettes[name] # <<>>
  BY <1>1, Zenon
<1> QED
  BY <1>1, <1>2, <1>3, Zenon DEF Palettes, Transparent

\* A script that starts has encoded nothing.
LEMMA ScriptStarts ==
  ASSUME NEW name, NEW palette, palette = <<>> \/ palette \in Palettes,
         ArtworkInv, StartScript(name, palette)
  PROVE  ArtworkInv'
<1>1. EncoderInv(NewEncoder(palette))
  BY NewEncoderInv
<1> DEFINE encoder == NewEncoder(palette)
<1> HIDE DEF encoder
<1>2. /\ script' = [name |-> name, at |-> 0, palette |-> palette, encoder |-> encoder]
      /\ published' = published /\ page' = page
  BY DEF StartScript, encoder
<1>3. script'.encoder = encoder /\ EncoderInv(encoder)
  BY <1>1, <1>2 DEF encoder
<1>4. script' = [name |-> script'.name, at |-> script'.at, palette |-> script'.palette,
                 encoder |-> script'.encoder]
  BY <1>2
<1>5. EncoderInv(script'.encoder)
  BY <1>3
<1>6. ScriptInv'
  BY <1>4, <1>5 DEF ScriptInv
<1>7. ArtInv(published') /\ ImagesInv(page')
  BY <1>2 DEF ArtworkInv
<1> QED
  BY <1>6, <1>7 DEF ArtworkInv

\* A page is written only with the colours of the palette it is for.
LEMMA PageWritten ==
  ASSUME ArtworkInv, script # NoScript, WritePage
  PROVE  ArtworkInv'
<1>1. EncoderInv(script.encoder)
  BY DEF ArtworkInv, ScriptInv
<1>2. ImagesInv(page')
  <2>1. CASE PaletteUnchanged
    <3>1. script.palette = script.encoder.colors
      BY <2>1 DEF PaletteUnchanged
    <3>2. page' = format(script.encoder, script.palette)
      BY <2>1 DEF WritePage
    <3> QED
      BY <1>1, <3>1, <3>2, WrittenArt
  <2>2. CASE ~PaletteUnchanged
    BY <2>2 DEF WritePage, ArtworkInv
  <2> QED
    BY <2>1, <2>2
<1>3. script' = NoScript /\ published' = published
  BY DEF WritePage
<1>4. ArtInv(published')
  BY <1>3 DEF ArtworkInv
<1> QED
  BY <1>2, <1>3, <1>4 DEF ArtworkInv, ScriptInv

\* What is merged stays drawn with the palette it was encoded for, that of the file or not.
LEMMA PageMerged ==
  ASSUME ArtworkInv, merge
  PROVE  ArtworkInv'
<1> DEFINE s == published.images t == page all == s \o t
<1>2. ImagesInv(t)
  BY DEF ArtworkInv
<1>1. t # <<>> /\ FoldersOf(t) \subseteq FoldersOf(s)
  BY DEF merge, NoPage
<1>3. published # NoArt
  <2> SUFFICES ASSUME s = <<>>
               PROVE  FALSE
    BY DEF NoArt
  <2>1. FoldersOf(s) = {}
    BY DEF FoldersOf
  <2>2. PICK S : t \in Seq(S)
    BY <1>2 DEF ImagesInv
  <2> HIDE DEF s, t
  <2>3. 1 \in DOMAIN t
    BY <1>1, <2>2
  <2>4. t[1].folder \in FoldersOf(t)
    BY <2>3 DEF FoldersOf
  <2> QED
    BY <1>1, <2>1, <2>4
<1>4. /\ published = [palette |-> published.palette, images |-> s]
      /\ published.palette \in Palettes /\ ImagesInv(s)
  BY <1>3 DEF ArtworkInv, ArtInv
<1>6. published' = [palette |-> published.palette, images |-> all]
  BY <1>4 DEF merge
<1>7. PICK S, T : s \in Seq(S) /\ t \in Seq(T)
  BY <1>2, <1>4 DEF ImagesInv
<1>8. /\ Len(s) \in Nat /\ Len(t) \in Nat /\ \E Q : all \in Seq(Q)
      /\ Len(all) = Len(s) + Len(t) /\ DOMAIN all = 1 .. Len(s) + Len(t)
      /\ DOMAIN s = 1 .. Len(s) /\ DOMAIN t = 1 .. Len(t)
      /\ \A n \in 1 .. Len(s) : all[n] = s[n]
      /\ \A n \in 1 .. Len(t) : all[Len(s) + n] = t[n]
  <2> DEFINE Q == S \cup T
  <2>1. s \in Seq(Q) /\ t \in Seq(Q) /\ Len(s) \in Nat /\ Len(t) \in Nat
    BY <1>7
  <2>2. DOMAIN s = 1 .. Len(s) /\ DOMAIN t = 1 .. Len(t)
    BY <1>7
  <2> HIDE DEF Q, s, t, all
  <2>3. /\ all \in Seq(Q) /\ Len(all) = Len(s) + Len(t)
        /\ \A n \in 1 .. Len(s) + Len(t) :
             all[n] = IF n <= Len(s) THEN s[n] ELSE t[n - Len(s)]
    BY <2>1, ConcatProperties DEF all
  <2>4. \A n \in 1 .. Len(s) : all[n] = s[n]
    BY <2>1, <2>3
  <2>5. ASSUME NEW n \in 1 .. Len(t)
        PROVE  all[Len(s) + n] = t[n]
    <3>1. /\ Len(s) + n \in 1 .. Len(s) + Len(t) /\ ~(Len(s) + n <= Len(s))
          /\ (Len(s) + n) - Len(s) = n
      BY <2>1
    <3> QED
      BY <2>3, <3>1
  <2>6. DOMAIN all = 1 .. Len(s) + Len(t)
    BY <2>3
  <2> QED
    BY <2>1, <2>3, <2>4, <2>5, <2>2, <2>6
<1> HIDE DEF s, t, all
<1>9. \A n \in 1 .. Len(all) :
        \/ n \in 1 .. Len(s) /\ all[n] = s[n]
        \/ n - Len(s) \in 1 .. Len(t) /\ all[n] = t[n - Len(s)]
  <2> SUFFICES ASSUME NEW n \in 1 .. Len(s) + Len(t), ~(n <= Len(s))
               PROVE  n - Len(s) \in 1 .. Len(t) /\ all[n] = t[n - Len(s)]
    BY <1>8
  <2>1. n - Len(s) \in 1 .. Len(t) /\ Len(s) + (n - Len(s)) = n
    BY <1>8
  <2> QED
    BY <1>8, <2>1
<1>10. ASSUME NEW n \in 1 .. Len(all)
       PROVE  all[n].palette \in Palettes
  <2>1. \A m \in 1 .. Len(s) : s[m].palette \in Palettes
    BY <1>4 DEF ImagesInv
  <2>2. \A m \in 1 .. Len(t) : t[m].palette \in Palettes
    BY <1>2 DEF ImagesInv
  <2> QED
    BY <1>9, <2>1, <2>2
<1>11. ASSUME NEW n \in 1 .. Len(all), NamedOnce(all, n)
       PROVE  DrawnUnder(all[n].data, all[n].picture, all[n].palette)
  <2>1. \A m \in 1 .. Len(s) + Len(t) : m # n => all[m].filename # all[n].filename
    BY <1>8, <1>11 DEF NamedOnce
  <2>2. CASE n \in 1 .. Len(s) /\ all[n] = s[n]
    <3>1. \A m \in 1 .. Len(s) : m \in 1 .. Len(s) + Len(t)
      BY <1>8
    <3>2. \A m \in 1 .. Len(s) : m # n => s[m].filename # s[n].filename
      BY <1>8, <2>1, <2>2, <3>1
    <3>3. NamedOnce(s, n)
      BY <1>8, <3>2 DEF NamedOnce
    <3> QED
      BY <1>4, <2>2, <3>3 DEF ImagesInv
  <2>3. CASE n - Len(s) \in 1 .. Len(t) /\ all[n] = t[n - Len(s)]
    <3>1. PICK k \in 1 .. Len(t) : k = n - Len(s)
      BY <2>3
    <3>2. \A m \in 1 .. Len(t) : /\ Len(s) + m \in 1 .. Len(s) + Len(t)
                                 /\ m # k => Len(s) + m # n
      BY <1>8, <3>1
    <3>3. \A m \in 1 .. Len(t) : m # k => t[m].filename # t[k].filename
      BY <1>8, <2>1, <2>3, <3>1, <3>2
    <3>4. NamedOnce(t, k)
      BY <1>8, <3>3 DEF NamedOnce
    <3>5. DrawnUnder(t[k].data, t[k].picture, t[k].palette)
      BY <1>2, <3>4 DEF ImagesInv
    <3> QED
      BY <2>3, <3>1, <3>5
  <2> QED
    BY <1>9, <2>2, <2>3
<1>12. ImagesInv(all)
  BY <1>8, <1>10, <1>11 DEF ImagesInv
<1>13. ArtInv(published')
  <2> DEFINE art == [palette |-> published.palette, images |-> all]
  <2>1. /\ art = [palette |-> art.palette, images |-> art.images]
        /\ art.palette = published.palette /\ art.images = all
    OBVIOUS
  <2> HIDE DEF art
  <2>2. ArtInv(art)
    BY <1>4, <1>12, <2>1 DEF ArtInv
  <2> QED
    BY <1>6, <2>2 DEF art
<1>14. page' = page /\ script' = script
  BY DEF merge
<1> QED
  BY <1>13, <1>14 DEF ArtworkInv, ScriptInv

\* A step of any script keeps the invariant.
LEMMA ArtworkStep ==
  ASSUME ArtworkInv, [ImageNext]_imageVars
  PROVE  ArtworkInv'
<1>1. CASE EncodeNextFile
  <2>1. /\ script = [name |-> script.name, at |-> script.at, palette |-> script.palette,
                     encoder |-> script.encoder]
        /\ EncoderInv(script.encoder) /\ script # NoScript
    BY <1>1 DEF EncodeNextFile, ArtworkInv, ScriptInv
  <2>2. PICK n \in script.at + 1 .. Len(PartFiles), picture \in Pictures :
          script' = [script EXCEPT !.at = n,
                       !.encoder = encodeImage(@, PartFiles[n][2], picture, PartFiles[n][1])]
    BY <1>1 DEF EncodeNextFile
  <2> DEFINE encoder == encodeImage(script.encoder, PartFiles[n][2], picture, PartFiles[n][1])
  <2>3. EncoderInv(encoder)
    BY <2>1, EncoderGoesOn
  <2>4. encoder = encodeImage(script.encoder, PartFiles[n][2], picture, PartFiles[n][1])
    OBVIOUS
  <2> HIDE DEF encoder
  <2>5. script' = [name |-> script.name, at |-> n, palette |-> script.palette,
                   encoder |-> encoder]
    BY <2>1, <2>2, <2>4
  <2>6. /\ script' = [name |-> script'.name, at |-> script'.at, palette |-> script'.palette,
                      encoder |-> script'.encoder]
        /\ script'.encoder = encoder
    BY <2>5
  <2>7. ScriptInv'
    BY <2>3, <2>6 DEF ScriptInv
  <2>8. published' = published /\ page' = page
    BY <1>1 DEF EncodeNextFile
  <2> QED
    BY <2>7, <2>8 DEF ArtworkInv
<1>2. CASE encodeAll
  <2>1. script # NoScript /\ EncoderInv(script.encoder)
    BY <1>2 DEF encodeAll, NoScript, ArtworkInv, ScriptInv
  <2> DEFINE images == format(script.encoder, script.encoder.colors)
             colors == script.encoder.colors
  <2>2. published' = [palette |-> colors, images |-> images]
    BY <1>2 DEF encodeAll, dataOf
  <2>5. colors \in Palettes /\ ImagesInv(images)
    BY <2>1, WrittenArt
  <2> HIDE DEF images, colors
  <2>3. ArtInv(published')
    BY <2>2, <2>5 DEF ArtInv
  <2>4. script' = NoScript /\ page' = page
    BY <1>2 DEF encodeAll
  <2> QED
    BY <2>3, <2>4 DEF ArtworkInv, ScriptInv
<1>3. CASE \/ encodeMore \/ encodeMoreNigi32 \/ encodeMoreNigi48 \/ encodeMoreNigi64
           \/ encodeMoreNigi80 \/ encodeMoreNigi96 \/ encodeMoreNigi120
  <2>1. WritePage /\ script # NoScript
    BY <1>3 DEF NoScript, encodeMore, encodeMoreNigi32, encodeMoreNigi48, encodeMoreNigi64,
                encodeMoreNigi80, encodeMoreNigi96, encodeMoreNigi120
  <2> QED
    BY <2>1, PageWritten
<1>4. CASE merge
  BY <1>4, PageMerged
<1>5. CASE StartScript("encode", <<>>)
  BY <1>5, ScriptStarts
<1>6. CASE published # NoArt /\ StartScript("encode-more", published.palette)
  <2>1. published.palette \in Palettes
    BY <1>6 DEF ArtworkInv, ArtInv
  <2> QED
    BY <1>6, <2>1, ScriptStarts
<1>7. ASSUME NEW name \in DOMAIN GivenPalettes, StartScript(name, GivenPalettes[name])
      PROVE  ArtworkInv'
  BY <1>7, GivenPalettesFit, ScriptStarts
<1>8. CASE UNCHANGED imageVars
  BY <1>8 DEF imageVars, ArtworkInv, ScriptInv
<1> QED
  BY <1>1, <1>2, <1>3, <1>4, <1>5, <1>6, <1>7, <1>8 DEF ImageNext

\* The images of every file draw their pictures (ArtDrawsItsPictures).
LEMMA ArtworkImplies ==
  ASSUME ArtworkInv
  PROVE  ArtDrawsItsPictures
<1> SUFFICES ASSUME NEW images \in {published.images, page}, NEW n \in DOMAIN images,
                    Len(images[n].palette) <= Hex * Hex, NamedOnce(images, n)
             PROVE  Draws(images[n].data, images[n].palette, images[n].picture)
  BY DEF ArtDrawsItsPictures
<1>1. ImagesInv(images)
  <2>1. CASE images = page
    BY <2>1 DEF ArtworkInv
  <2>2. CASE images = published.images
    <3>1. published # NoArt
      BY <2>2 DEF NoArt
    <3> QED
      BY <2>2, <3>1 DEF ArtworkInv, ArtInv
  <2> QED
    BY <2>1, <2>2
<1>2. PICK S : images \in Seq(S)
  BY <1>1 DEF ImagesInv
<1>3. n \in 1 .. Len(images)
  BY <1>2
<1>4. /\ images[n].palette \in Palettes
      /\ DrawnUnder(images[n].data, images[n].picture, images[n].palette)
  BY <1>1, <1>3 DEF ImagesInv
<1>5. Prolongs(images[n].palette, images[n].palette)
  BY <1>4 DEF Prolongs, Palettes
<1> QED
  BY <1>4, <1>5 DEF DrawnUnder

\* Whatever the scripts encoded, wrote and merged, in any order, an image is drawn, with the
\* palette it was encoded for, as the picture it was made from (encode.ts, encode-more.ts,
\* the Image class and buildSVG).  The palette of the file it was merged into is that one
\* or not: append-image-data.ts compares none.
THEOREM ArtAlwaysDrawsItsPictures == ImageSpec => []ArtDrawsItsPictures
<1>1. ImageInit => ArtworkInv
  <2>1. ImageInit => script = NoScript /\ published = NoArt /\ page = <<>>
    BY DEF ImageInit, NoPage
  <2>2. <<>> \in Seq({}) /\ Len(<<>>) = 0
    OBVIOUS
  <2>3. ImagesInv(<<>>)
    BY <2>2 DEF ImagesInv
  <2> QED
    BY <2>1, <2>3 DEF ArtworkInv, ScriptInv, ArtInv
<1>2. ArtworkInv /\ [ImageNext]_imageVars => ArtworkInv'
  BY ArtworkStep
<1>3. ArtworkInv => ArtDrawsItsPictures
  BY ArtworkImplies
<1> QED
  BY <1>1, <1>2, <1>3, PTL DEF ImageSpec
=============================================================================
