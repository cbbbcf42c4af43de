-------------------------------- MODULE Bots --------------------------------
(***************************************************************************)
(* nouns-bots: it polls the subgraph on two timers, announces what is new  *)
(* and remembers in Redis what it announced.  The timers do not wait for a *)
(* tick to end, so ticks overlap; every await is a point where another     *)
(* tick goes on, where the call may fail, or where the process dies.  A    *)
(* call that fails ends its tick.  Redis outlives the process.             *)
(*                                                                         *)
(* Left out: counters, logging, the text of the messages, and all of a     *)
(* proposal but its status and ETA (SubgraphDAO has the rest).  The votes  *)
(* of a proposal are announced beside its review, which does not wait for  *)
(* them: whether that fails is of no consequence.                          *)
(***************************************************************************)
EXTENDS SubgraphAuction, FiniteSets

CONSTANTS
  AuctionTicks, GovernanceTicks,  \* bound: ticks under way at once
  EndingSoon,             \* 20 minutes
  BotProposals,           \* ids of proposals
  ExpiryLimit, ExpiryWarning  \* 14 days and 2 days

VARIABLES
  \* Redis
  auctionCache, bidCache, endingSoonCache, replyTweet, proposalCache, warningSent,
  \* the process
  auctionTick, proposalTick, auctionSetup, governanceSetup,
  \* the proposals in the subgraph
  indexedProposal,
  \* history: how often what was sent where, until two users of the auction caches
  \* run at once, whether they did, and which statuses reached everybody or were taken over
  sent, announcedStatus, overlapped

auctionRedis == <<auctionCache, bidCache, endingSoonCache, replyTweet>>
auctionBotVars == <<auctionRedis, auctionTick, auctionSetup, sent, overlapped>>
proposalRedis == <<proposalCache, warningSent>>
governanceBotVars ==
  <<proposalRedis, proposalTick, governanceSetup, indexedProposal, announcedStatus>>
botVars == <<subgraphAuctionVars, auctionBotVars, governanceBotVars>>

Handlers == {"twitter", "discord"}
Subjects == ({"auction"} \X HouseNouns) \cup ({"bid"} \X Transactions)
            \cup ({"ending"} \X HouseNouns)

Idle == [at |-> "idle"]
NoBid == 0

BotsInit ==
  /\ auctionCache = 0 /\ bidCache = NoBid /\ endingSoonCache = 0 /\ replyTweet = 0
  /\ proposalCache = <<>> /\ warningSent = {}
  /\ auctionTick = [t \in AuctionTicks |-> Idle]
  /\ proposalTick = [t \in GovernanceTicks \X BotProposals |-> Idle]
  /\ auctionSetup = [at |-> "query"] /\ governanceSetup = [at |-> "query"]
  /\ indexedProposal = <<>>
  /\ sent = [x \in Handlers \X Subjects |-> 0]
  /\ announcedStatus = {}
  /\ overlapped = FALSE

-----------------------------------------------------------------------------
(* Auctions                                                                *)

\* The newest auction and its newest bid; bids of one block are ordered by hash.
getLastAuctionBids ==
  LET id == CHOOSE i \in DOMAIN auctionEntity :
              \A j \in DOMAIN auctionEntity :
                auctionEntity[i].startTime >= auctionEntity[j].startTime
      bids == {b \in DOMAIN bidEntity : bidEntity[b].auction = id}
      NotAfter(b, c) == LET x == bidEntity[b].blockNumber y == bidEntity[c].blockNumber
                        IN x < y \/ (x = y /\ b <= c)
  IN [id |-> id, endTime |-> auctionEntity[id].endTime,
      bid |-> IF bids = {} THEN NoBid ELSE CHOOSE b \in bids : \A c \in bids : NotAfter(c, b)]

\* setupAuction: the query, then the write of its answer.
setupAuction ==
  /\ \/ /\ auctionSetup.at = "query" /\ auctionEntity # <<>>
        /\ auctionSetup' = [at |-> "update", id |-> getLastAuctionBids.id]
        /\ UNCHANGED auctionCache
     \/ /\ auctionSetup.at = "update" /\ auctionSetup' = Idle
        /\ auctionCache' = auctionSetup.id
  /\ UNCHANGED <<subgraphAuctionVars, bidCache, endingSoonCache, replyTweet, auctionTick,
                 sent, overlapped, governanceBotVars>>

TickIs(t, at) == auctionTick[t].at = at
TickGoes(t, to) == auctionTick' = [auctionTick EXCEPT ![t] = to]
TickGoesTo(t, at) == TickGoes(t, [auctionTick[t] EXCEPT !.at = at])

\* The timer fires and the tick asks for the first cache.
processAuctionTick(t) ==
  /\ TickIs(t, "idle")
  /\ TickGoes(t, [at |-> "getBidCache", auction |-> auctionCache])
  /\ overlapped' = (overlapped \/ auctionSetup # Idle \/ \E u \in AuctionTicks : ~TickIs(u, "idle"))
  /\ UNCHANGED <<subgraphAuctionVars, auctionRedis, auctionSetup, sent, governanceBotVars>>

auctionTickElse == <<subgraphAuctionVars, auctionSetup, overlapped, governanceBotVars>>

ReadsBidCache(t) ==
  /\ TickIs(t, "getBidCache")
  /\ TickGoes(t, [at |-> "getAuctionEndingSoonCache", auction |-> auctionTick[t].auction,
                  bid |-> bidCache])
  /\ UNCHANGED <<auctionTickElse, auctionRedis, sent>>

ReadsEndingSoonCache(t) ==
  /\ TickIs(t, "getAuctionEndingSoonCache")
  /\ TickGoes(t, [at |-> "getLastAuctionBids", auction |-> auctionTick[t].auction,
                  bid |-> auctionTick[t].bid, ending |-> endingSoonCache])
  /\ UNCHANGED <<auctionTickElse, auctionRedis, sent>>

\* Without an auction in the subgraph the tick throws.
QueriesSubgraph(t) ==
  /\ TickIs(t, "getLastAuctionBids") /\ auctionEntity # <<>>
  /\ TickGoes(t, [at |-> "auction", auction |-> auctionTick[t].auction,
                  bid |-> auctionTick[t].bid, ending |-> auctionTick[t].ending,
                  last |-> getLastAuctionBids])
  /\ UNCHANGED <<auctionTickElse, auctionRedis, sent>>

\* How a tick goes on when what it announced is sent, or fails at a handler.
GoesOn(t, failed, at) == IF failed = {} THEN TickGoesTo(t, at) ELSE TickGoes(t, Idle)

Twice(n) == IF n = 2 THEN 2 ELSE n + 1
Delivers(handlers, subject) ==
  sent' = [x \in DOMAIN sent |->
             IF ~overlapped /\ x[2] = subject /\ x[1] \in handlers THEN Twice(sent[x]) ELSE sent[x]]
\* What the handlers make of an announcement: those that skip it do not fail.
Outcomes(able) == {o \in (SUBSET able) \X (SUBSET able) : o[1] \cap o[2] = {}}

LastOf(t) == auctionTick[t].last
IsNewAuction(t) == auctionTick[t].auction < LastOf(t).id
IsNewBid(t) == LastOf(t).bid # NoBid /\ auctionTick[t].bid # LastOf(t).bid
IsEndingSoon(t) ==
  LastOf(t).endTime < clock + EndingSoon /\ auctionTick[t].ending < LastOf(t).id

DiscoversAuction(t) ==
  /\ TickIs(t, "auction")
  /\ IF IsNewAuction(t)
     THEN auctionCache' = LastOf(t).id /\ TickGoesTo(t, "handleNewAuction")
     ELSE auctionCache' = auctionCache /\ TickGoesTo(t, "bid")
  /\ UNCHANGED <<auctionTickElse, bidCache, endingSoonCache, replyTweet, sent>>

\* A handler that cannot fetch the picture of the noun sends nothing.
handleNewAuction(t) ==
  /\ TickIs(t, "handleNewAuction")
  /\ \E o \in Outcomes(Handlers) :
       /\ Delivers(o[1], <<"auction", LastOf(t).id>>)
       /\ replyTweet' = IF "twitter" \in o[1] THEN LastOf(t).id ELSE replyTweet
       /\ GoesOn(t, o[2], "bid")
  /\ UNCHANGED <<auctionTickElse, auctionCache, bidCache, endingSoonCache>>

\* Mutant: the bid is not remembered before it is announced.
DiscoversBidUncached(t) ==
  /\ TickIs(t, "bid")
  /\ TickGoesTo(t, IF IsNewBid(t) THEN "handleNewBid" ELSE "ending")
  /\ UNCHANGED <<auctionTickElse, auctionRedis, sent>>

DiscoversBid(t) ==
  /\ TickIs(t, "bid")
  /\ IF IsNewBid(t)
     THEN bidCache' = LastOf(t).bid /\ TickGoesTo(t, "handleNewBid")
     ELSE bidCache' = bidCache /\ TickGoesTo(t, "ending")
  /\ UNCHANGED <<auctionTickElse, auctionCache, endingSoonCache, replyTweet, sent>>

\* Twitter replies to the thread of the last auction it announced, if there is one.
Repliers(handlers) == IF replyTweet = 0 THEN handlers \ {"twitter"} ELSE handlers

handleNewBid(t) ==
  /\ TickIs(t, "handleNewBid")
  /\ \E failed \in SUBSET Repliers(Handlers) :
       /\ Delivers(Repliers(Handlers) \ failed, <<"bid", LastOf(t).bid>>)
       /\ GoesOn(t, failed, "ending")
  /\ UNCHANGED <<auctionTickElse, auctionRedis>>

DiscoversEnd(t) ==
  /\ TickIs(t, "ending")
  /\ IF IsEndingSoon(t)
     THEN endingSoonCache' = LastOf(t).id /\ TickGoesTo(t, "handleAuctionEndingSoon")
     ELSE endingSoonCache' = endingSoonCache /\ TickGoes(t, Idle)
  /\ UNCHANGED <<auctionTickElse, auctionCache, bidCache, replyTweet, sent>>

\* Only Twitter has a handler for it.
handleAuctionEndingSoon(t) ==
  /\ TickIs(t, "handleAuctionEndingSoon")
  /\ \E failed \in SUBSET Repliers({"twitter"}) :
       Delivers(Repliers({"twitter"}) \ failed, <<"ending", LastOf(t).id>>)
  /\ TickGoes(t, Idle)
  /\ UNCHANGED <<auctionTickElse, auctionRedis>>

AuctionTickFails(t) ==
  /\ ~TickIs(t, "idle") /\ TickGoes(t, Idle)
  /\ UNCHANGED <<auctionTickElse, auctionRedis, sent>>

-----------------------------------------------------------------------------
(* Proposals                                                               *)

\* What the handlers of nouns-dao.ts make of the governor's events.
IndexProposal(id) ==
  LET known == id \in DOMAIN indexedProposal
      p == indexedProposal[id]
      Becomes(q) == indexedProposal' = Saved(indexedProposal, id, q)
  IN /\ \/ ~known /\ Becomes([status |-> "PENDING", eta |-> 0])
        \/ known /\ p.status = "PENDING" /\ Becomes([p EXCEPT !.status = "ACTIVE"])
        \/ /\ known /\ p.status = "ACTIVE"
           /\ Becomes([p EXCEPT !.status = "QUEUED", !.eta = clock])
        \/ /\ known /\ p.status = "QUEUED" /\ Becomes([p EXCEPT !.status = "EXECUTED"])
        \/ /\ known /\ p.status \in {"PENDING", "ACTIVE", "QUEUED"}
           /\ \E status \in {"CANCELLED", "VETOED"} : Becomes([p EXCEPT !.status = status])
     /\ UNCHANGED <<subgraphAuctionVars, auctionBotVars, proposalRedis, proposalTick,
                    governanceSetup, announcedStatus>>

proposalTickElse ==
  <<subgraphAuctionVars, auctionBotVars, governanceSetup, indexedProposal>>

\* setupGovernance: the query, then one write per proposal, in any order.
setupGovernance ==
  /\ \/ /\ governanceSetup.at = "query"
        /\ governanceSetup' = [at |-> "update", left |-> indexedProposal]
        /\ UNCHANGED <<proposalCache, announcedStatus>>
     \/ /\ governanceSetup.at = "update"
        /\ \E id \in DOMAIN governanceSetup.left :
             LET p == governanceSetup.left[id]
                 left == [i \in DOMAIN governanceSetup.left \ {id} |-> governanceSetup.left[i]]
             IN /\ proposalCache' = Saved(proposalCache, id, p)
                /\ announcedStatus' = announcedStatus \cup {<<id, p.status>>}
                /\ governanceSetup' = [governanceSetup EXCEPT !.left = left]
  /\ UNCHANGED <<subgraphAuctionVars, auctionBotVars, warningSent, proposalTick, indexedProposal>>

Reviews(t) == {x \in DOMAIN proposalTick : x[1] = t}
ReviewIs(x, at) == proposalTick[x].at = at
ReviewGoes(x, to) == proposalTick' = [proposalTick EXCEPT ![x] = to]
ReviewGoesTo(x, at) == ReviewGoes(x, [proposalTick[x] EXCEPT !.at = at])
Reviewed(x) == proposalTick[x].proposal

\* All proposals are fetched, then each is reviewed on its own.
processGovernanceTick(t) ==
  /\ \A x \in Reviews(t) : ReviewIs(x, "idle")
  /\ indexedProposal # <<>>
  /\ proposalTick' = [x \in DOMAIN proposalTick |->
       IF x \in Reviews(t) /\ x[2] \in DOMAIN indexedProposal
       THEN [at |-> "getProposalCache", proposal |-> indexedProposal[x[2]]]
       ELSE proposalTick[x]]
  /\ UNCHANGED <<proposalTickElse, proposalRedis, announcedStatus>>

ReviewAfter(x) ==
  CASE x[2] \notin DOMAIN proposalCache -> "handleNewProposal"
    [] x[2] \in DOMAIN proposalCache /\ proposalCache[x[2]].status # Reviewed(x).status
         -> "handleUpdatedProposalStatus"
    [] OTHER -> "atRisk"

\* Mutant: the cache is updated before the announcements.
ReadsAndUpdatesProposalCache(x) ==
  /\ ReviewIs(x, "getProposalCache") /\ ReviewGoesTo(x, ReviewAfter(x))
  /\ proposalCache' = Saved(proposalCache, x[2], Reviewed(x))
  /\ UNCHANGED <<proposalTickElse, warningSent, announcedStatus>>

ReadsProposalCache(x) ==
  /\ ReviewIs(x, "getProposalCache") /\ ReviewGoesTo(x, ReviewAfter(x))
  /\ UNCHANGED <<proposalTickElse, proposalRedis, announcedStatus>>

\* A message goes to both webhooks; when one refuses it, whether or not the other had
\* it, the review ends there (ReviewFails).
Announces(x, then) ==
  /\ announcedStatus' = announcedStatus \cup {<<x[2], Reviewed(x).status>>}
  /\ ReviewGoesTo(x, then)

handleNewProposal(x) ==
  /\ ReviewIs(x, "handleNewProposal") /\ Announces(x, "updateProposalCache")
  /\ UNCHANGED <<proposalTickElse, proposalRedis>>

handleUpdatedProposalStatus(x) ==
  /\ ReviewIs(x, "handleUpdatedProposalStatus") /\ Announces(x, "atRisk")
  /\ UNCHANGED <<proposalTickElse, proposalRedis>>

isAtRiskOfExpiry(p) ==
  /\ p.status = "QUEUED"
  /\ p.eta + ExpiryLimit > clock /\ p.eta + ExpiryLimit <= clock + ExpiryWarning

hasWarnedOfExpiry(x) ==
  /\ ReviewIs(x, "atRisk")
  /\ ReviewGoesTo(x, IF isAtRiskOfExpiry(Reviewed(x)) /\ x[2] \notin warningSent
                     THEN "handleProposalAtRiskOfExpiry" ELSE "updateProposalCache")
  /\ UNCHANGED <<proposalTickElse, proposalRedis, announcedStatus>>

handleProposalAtRiskOfExpiry(x) ==
  /\ ReviewIs(x, "handleProposalAtRiskOfExpiry")
  /\ ReviewGoesTo(x, "setProposalExpiryWarningSent")
  /\ UNCHANGED <<proposalTickElse, proposalRedis, announcedStatus>>

setProposalExpiryWarningSent(x) ==
  /\ ReviewIs(x, "setProposalExpiryWarningSent")
  /\ warningSent' = warningSent \cup {x[2]}
  /\ ReviewGoesTo(x, "updateProposalCache")
  /\ UNCHANGED <<proposalTickElse, proposalCache, announcedStatus>>

updateProposalCache(x) ==
  /\ ReviewIs(x, "updateProposalCache")
  /\ proposalCache' = Saved(proposalCache, x[2], Reviewed(x))
  /\ ReviewGoes(x, Idle)
  /\ UNCHANGED <<proposalTickElse, warningSent, announcedStatus>>

ReviewFails(x) ==
  /\ ~ReviewIs(x, "idle") /\ ReviewGoes(x, Idle)
  /\ UNCHANGED <<proposalTickElse, proposalRedis, announcedStatus>>

-----------------------------------------------------------------------------
\* The process dies and is started again.
Restart ==
  /\ auctionTick' = [t \in AuctionTicks |-> Idle]
  /\ proposalTick' = [x \in DOMAIN proposalTick |-> Idle]
  /\ auctionSetup' = [at |-> "query"] /\ governanceSetup' = [at |-> "query"]
  /\ UNCHANGED <<subgraphAuctionVars, auctionRedis, sent, overlapped, proposalRedis,
                 indexedProposal, announcedStatus>>

AuctionBotNext ==
  \/ SubgraphAuctionNext /\ UNCHANGED <<auctionBotVars, governanceBotVars>>
  \/ setupAuction \/ Restart
  \/ \E t \in AuctionTicks :
       \/ processAuctionTick(t) \/ ReadsBidCache(t) \/ ReadsEndingSoonCache(t)
       \/ QueriesSubgraph(t) \/ DiscoversAuction(t) \/ handleNewAuction(t)
       \/ DiscoversBid(t) \/ handleNewBid(t) \/ DiscoversEnd(t)
       \/ handleAuctionEndingSoon(t) \/ AuctionTickFails(t)

GovernanceBotNext ==
  \/ HouseBlock /\ UNCHANGED <<auctionBotVars, governanceBotVars>>
  \/ \E id \in BotProposals : IndexProposal(id)
  \/ setupGovernance \/ Restart
  \/ \E t \in GovernanceTicks : processGovernanceTick(t)
  \/ \E x \in DOMAIN proposalTick :
       \/ ReadsProposalCache(x) \/ handleNewProposal(x) \/ handleUpdatedProposalStatus(x)
       \/ hasWarnedOfExpiry(x) \/ handleProposalAtRiskOfExpiry(x)
       \/ setProposalExpiryWarningSent(x) \/ updateProposalCache(x) \/ ReviewFails(x)

BotsSpec == SubgraphAuctionInit /\ BotsInit /\ [][AuctionBotNext \/ GovernanceBotNext]_botVars

-----------------------------------------------------------------------------
\* As long as the ticks keep out of each other's way, and of the setup's, nothing
\* about an auction is announced twice, whatever call fails and however often the
\* process is started again (handlers/twitter.ts:31).
NoDoubleAnnouncement == ~overlapped => \A x \in DOMAIN sent : sent[x] <= 1

\* However ticks overlap and fail, the status a proposal has in the cache has
\* reached every webhook, or was taken over when the process started: a change is
\* never dropped because a message was (index.ts, processGovernanceTick).
CachedWasAnnounced ==
  \A id \in DOMAIN proposalCache : <<id, proposalCache[id].status>> \in announcedStatus
=============================================================================
