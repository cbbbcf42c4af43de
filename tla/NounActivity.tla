---------------------------- MODULE NounActivity ----------------------------
(***************************************************************************)
(* The activity feed of a noun in nouns-webapp: votes, transfers and       *)
(* delegations the subgraph logged for the noun, merged and sorted, with   *)
(* the four (or, of a nounder noun, two) oldest entries replaced by one    *)
(* that tells who won it.  The feed is computed from what the queries      *)
(* answer now and from the past auctions, which were read when the page    *)
(* was loaded.                                                             *)
(*                                                                         *)
(* A block number stands for the block's timestamp too.  Whose delegate an *)
(* event names is left out.  Bound: a transaction moves the noun once.     *)
(* The token's reward rule ends at id 1820, the page's never does.         *)
(***************************************************************************)
EXTENDS Integers, Sequences, SequencesExt, FiniteSets

CONSTANTS
  FeedNouns,        \* the ids of which one has its feed on display
  FeedAccounts,     \* accounts that win, hold and are sent the noun
  LastFeedBlock,    \* bound: blocks
  MaxNounMoves,     \* bound: transactions of the noun after its mint
  MaxFeedProposals  \* bound: proposals

\* NounsToken.mint: whether the nounders are given the noun.
MintedForReward(id) == id <= 1820 /\ id % 10 = 0

\* The page, of every id.
TakenForReward(id) == id % 10 = 0

\* Left out: the noun before one that is auctioned and taken for a reward (1829, 1839,
\* ...), for which the page asks for the auction after the next.
ASSUME FeedAssumption ==
  \A id \in FeedNouns : id \in Nat /\ MintedForReward(id + 1) = TakenForReward(id + 1)

VARIABLES
  feedBlock,         \* the block being built
  noun,              \* of the chain: its id, its holder, the account it was won by
  nextAuction,       \* the block the next auction began in
  feedProposals,     \* of the chain, in order of creation
  transferEvents,    \* of the index, by transaction
  delegationEvents,  \* of the index: one of each transaction
  nounVotes,         \* of the index: the vote cast for the noun, by proposal
  knowsNext          \* whether the page knows of the next noun's auction

feedVars ==
  <<feedBlock, noun, nextAuction, feedProposals, transferEvents, delegationEvents, nounVotes,
    knowsNext>>

FeedHouse == "house"
FeedNounders == "nounders"
FeedNever == 0
NoWinner == ""

FeedMoved(from, to) == [block |-> feedBlock, from |-> from, to |-> to]
ChangedDelegate == [block |-> feedBlock]

\* What is logged under a key, an entity's id: an earlier entry is overwritten.
LogUnder(events, key, event) ==
  [k \in DOMAIN events \cup {key} |-> IF k = key THEN event ELSE events[k]]

\* mint: the token's owner is named as creator, and the event of the transfer from
\* address(0) is overwritten by that of the transfer from the owner.
FeedInit ==
  /\ feedBlock = 1
  /\ \E id \in FeedNouns :
       LET first == IF MintedForReward(id) THEN FeedNounders ELSE FeedHouse
       IN /\ noun = [id |-> id, holder |-> first, wonIn |-> FeedNever,
                     winner |-> IF MintedForReward(id) THEN FeedNounders ELSE NoWinner]
          /\ transferEvents = [tx \in {1} |-> [block |-> 1, from |-> "owner", to |-> first]]
          /\ nextAuction = IF MintedForReward(id) THEN 1 ELSE FeedNever
  /\ delegationEvents = <<[block |-> 1]>>
  /\ feedProposals = <<>> /\ nounVotes = [p \in {} |-> [block |-> 0]]
  /\ knowsNext = FALSE

FeedTx == Len(delegationEvents) + 1

FeedBlockEnds ==
  /\ feedBlock < LastFeedBlock /\ feedBlock' = feedBlock + 1
  /\ UNCHANGED <<noun, nextAuction, feedProposals, transferEvents, delegationEvents, nounVotes,
                 knowsNext>>

-----------------------------------------------------------------------------
(* The noun's transactions, with what the index logs of them.              *)

\* handleTransfer logs a transfer and a delegation.
LogsTransfer(to) ==
  /\ transferEvents' = LogUnder(transferEvents, FeedTx, FeedMoved(noun.holder, to))
  /\ delegationEvents' = Append(delegationEvents, ChangedDelegate)

\* handleDelegateChanged logs a delegation for each noun of the account.
LogsDelegation ==
  /\ delegationEvents' = Append(delegationEvents, ChangedDelegate)
  /\ UNCHANGED transferEvents

IsReward == MintedForReward(noun.id)
OnAuction == ~IsReward /\ noun.wonIn = FeedNever

\* The auction is settled, at least a block after the mint; the next one begins
\* with it, or later if the house is paused.
FeedSettles(winner, paused) ==
  /\ OnAuction /\ feedBlock > 1
  /\ LogsTransfer(winner)
  /\ noun' = [noun EXCEPT !.holder = winner, !.winner = winner, !.wonIn = feedBlock]
  /\ nextAuction' = IF paused THEN FeedNever ELSE feedBlock
  /\ UNCHANGED <<feedBlock, feedProposals, nounVotes, knowsNext>>

FeedUnpauses ==
  /\ ~OnAuction /\ nextAuction = FeedNever
  /\ nextAuction' = feedBlock
  /\ UNCHANGED <<feedBlock, noun, feedProposals, transferEvents, delegationEvents, nounVotes,
                 knowsNext>>

FeedSends(to) ==
  /\ noun.holder # FeedHouse /\ FeedTx <= MaxNounMoves + 1
  /\ LogsTransfer(to) /\ noun' = [noun EXCEPT !.holder = to]
  /\ UNCHANGED <<feedBlock, nextAuction, feedProposals, nounVotes, knowsNext>>

FeedDelegates ==
  /\ noun.holder # FeedHouse /\ FeedTx <= MaxNounMoves + 1
  /\ LogsDelegation
  /\ UNCHANGED <<feedBlock, noun, nextAuction, feedProposals, nounVotes, knowsNext>>

-----------------------------------------------------------------------------
(* Proposals.  Voting starts at least a block after the creation.          *)

FeedProposes ==
  /\ Len(feedProposals) < MaxFeedProposals
  /\ feedProposals' = Append(feedProposals,
       [created |-> feedBlock, endBlock |-> feedBlock + 3, voted |-> FALSE, cancelled |-> FALSE])
  /\ UNCHANGED <<feedBlock, noun, nextAuction, transferEvents, delegationEvents, nounVotes,
                 knowsNext>>

FeedVoting(p) ==
  /\ ~feedProposals[p].cancelled
  /\ feedBlock > feedProposals[p].created + 1 /\ feedBlock <= feedProposals[p].endBlock

\* A vote names the nouns its voter represents when it is cast, and may have no
\* weight; of two votes that name the noun the page keeps the one listed last.
FeedVotes(p, namesNoun, weighs) ==
  /\ FeedVoting(p)
  /\ \/ /\ namesNoun /\ noun.holder # FeedHouse
        /\ nounVotes' = LogUnder(nounVotes, p, [block |-> feedBlock])
     \/ /\ namesNoun => p \in DOMAIN nounVotes
        /\ UNCHANGED nounVotes
  /\ feedProposals' = [feedProposals EXCEPT ![p].voted = @ \/ weighs]
  /\ UNCHANGED <<feedBlock, noun, nextAuction, transferEvents, delegationEvents, knowsNext>>

FeedCancels(p) ==
  /\ ~feedProposals[p].cancelled
  /\ feedProposals' = [feedProposals EXCEPT ![p].cancelled = TRUE]
  /\ UNCHANGED <<feedBlock, noun, nextAuction, transferEvents, delegationEvents, nounVotes,
                 knowsNext>>

\* The page is loaded, and with it the auctions so far.
FeedPageLoads ==
  /\ knowsNext # (nextAuction # FeedNever)
  /\ knowsNext' = (nextAuction # FeedNever)
  /\ UNCHANGED <<feedBlock, noun, nextAuction, feedProposals, transferEvents, delegationEvents,
                 nounVotes>>

NounActivityNext ==
  \/ FeedBlockEnds
  \/ \E winner \in FeedAccounts, paused \in BOOLEAN : FeedSettles(winner, paused)
  \/ FeedUnpauses \/ FeedDelegates \/ FeedProposes \/ FeedPageLoads
  \/ \E to \in FeedAccounts : FeedSends(to)
  \/ \E p \in DOMAIN feedProposals : FeedCancels(p)
  \/ \E p \in DOMAIN feedProposals, namesNoun, weighs \in BOOLEAN : FeedVotes(p, namesNoun, weighs)

NounActivitySpec == FeedInit /\ [][NounActivityNext]_feedVars

-----------------------------------------------------------------------------
(* The feed.                                                               *)

\* useNounCanVoteTimestamp: when the next noun's auction began, as far as known.
useNounCanVoteTimestamp == IF knowsNext THEN nextAuction ELSE 0

\* Mutant: proposals from before the noun was born are not left out.
BornAfterNone(p) == FALSE

BornAfter(p) == useNounCanVoteTimestamp > p.created

FeedEntry(type, block, of) == [type |-> type, block |-> block, of |-> of]

\* A proposal without a vote for the noun is dated to the end of its voting.
useNounProposalVoteEvents ==
  {FeedEntry("PROPOSAL_VOTE",
             IF p \in DOMAIN nounVotes THEN nounVotes[p].block ELSE feedProposals[p].endBlock, p) :
     p \in {q \in DOMAIN feedProposals :
              /\ ~BornAfter(feedProposals[q])
              /\ ~(feedProposals[q].cancelled /\ ~feedProposals[q].voted)}}

LoggedAs(type, events) == {FeedEntry(type, events[tx].block, tx) : tx \in DOMAIN events}
useNounTransferEvents == LoggedAs("TRANSFER", transferEvents)
useDelegationEvents == LoggedAs("DELEGATION", delegationEvents)

\* The sort is stable: of one block, the votes come first and the delegations last, as
\* they are concatenated, each by proposal or transaction (which the index does not
\* promise of transactions, whose entries it lists by hash).
Listed == [PROPOSAL_VOTE |-> 1, TRANSFER |-> 2, DELEGATION |-> 3]

SortsBefore(e, f) ==
  \/ e.block < f.block
  \/ e.block = f.block /\ Listed[e.type] < Listed[f.type]
  \/ e.block = f.block /\ e.type = f.type /\ e.of < f.of

ByBlock(entries) ==
  LET place == [e \in entries |-> Cardinality({f \in entries : SortsBefore(f, e)}) + 1]
  IN [n \in 1..Cardinality(entries) |-> CHOOSE e \in entries : place[e] = n]

\* slice(0, length - count): of a list that is too short, a negative end counts from
\* the end again.
WithoutLast(entries, count) ==
  LET kept == Len(entries) - count
  IN SubSeq(entries, 1, IF kept >= 0 THEN kept ELSE Len(entries) + kept)

useNounActivity ==
  LET transfers == useNounTransferEvents
      events == Reverse(ByBlock(useNounProposalVoteEvents \cup transfers \cup useDelegationEvents))
      shown_events == WithoutLast(events, IF TakenForReward(noun.id) THEN 2 ELSE 4)
      won == IF TakenForReward(noun.id) THEN 1 ELSE 2
  IN IF Cardinality(transfers) < won THEN shown_events
     ELSE LET win == ByBlock(transfers)[won]
          IN Append(shown_events, FeedEntry("AUCTION_WIN", win.block, transferEvents[win.of].to))

-----------------------------------------------------------------------------
\* The feed is there once the page knows of a later auction than this noun's; while
\* there is no proposal at all it is loading (useNounProposalVoteEvents).
FeedShown == nextAuction # FeedNever /\ feedProposals # <<>>

MovedAgainWhenWon ==
  Cardinality({tx \in DOMAIN delegationEvents :
                 delegationEvents[tx].block = IF IsReward THEN 1 ELSE noun.wonIn}) > 1

\* The feed tells the whole story, once and in order: it ends with the account that
\* won the noun; before that come exactly the transfers, delegations and
\* proposals since then, newest first.  A page loaded before the next auction, a noun
\* that moves on in the block it was won, or an id that the page alone takes for a
\* reward, confuses it (useNounActivity).
FeedTellsTheNounsStory ==
  FeedShown /\ knowsNext /\ ~MovedAgainWhenWon /\ TakenForReward(noun.id) = IsReward =>
    LET feed == useNounActivity
        past == IF IsReward THEN {1} ELSE {1, 2}
        since == Front(feed)
        Of(type) == {e.of : e \in {f \in ToSet(since) : f.type = type}}
    IN /\ Last(feed).type = "AUCTION_WIN" /\ Last(feed).of = noun.winner
       /\ Cardinality(ToSet(since)) = Len(since)
       /\ Of("TRANSFER") = DOMAIN transferEvents \ past
       /\ Of("DELEGATION") = DOMAIN delegationEvents \ past
       /\ Of("PROPOSAL_VOTE") = {p \in DOMAIN feedProposals :
            feedProposals[p].created >= nextAuction
              /\ (feedProposals[p].cancelled => feedProposals[p].voted)}
       /\ \A i, j \in DOMAIN feed : i < j => feed[i].block >= feed[j].block
=============================================================================
