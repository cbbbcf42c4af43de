--------------------------- MODULE WebappGovernance ---------------------------
(***************************************************************************)
(* The proposal page of nouns-webapp (pages/Vote, wrappers/nounsDao.ts,    *)
(* components/ProposalHeader) of one account, on top of the subgraph and   *)
(* the governor.  The page shows an entity as it was when the query was    *)
(* answered, next to the current block, which the wallet keeps reporting;  *)
(* contract calls (receipts, quorum) are answered at once.                 *)
(*                                                                         *)
(* A transaction of the account goes through the states of useDApp.  Left  *)
(* out: the page before its data has loaded, and a second click on a       *)
(* button while the wallet still asks for a signature for the first.       *)
(***************************************************************************)
EXTENDS SubgraphDAO, FiniteSetsExt

CONSTANTS
  User,          \* the account of the wallet
  Represented    \* Represented[v]: the nouns that the index of the token has v represent
                 \* at the creation of a proposal, which need not be the votes of v

ASSUME WebappGovernanceAssumption == Represented \in [Voters -> Nat]

VARIABLES
  shown,         \* <<id, entity>> of the page, or <<>>
  pending        \* isQueuePending, isExecutePending, isCancelPending

pageVars == <<shown, pending>>
governancePageVars == <<subgraphDAOVars, pageVars>>

Actions == {"queue", "execute", "cancel"}

PageInit ==
  /\ shown = <<>> /\ pending = {}

-----------------------------------------------------------------------------
(* What the page makes of an entity.                                       *)

\* getProposalState, of a page that knows the block and its timestamp.
getProposalState(blockNumber, entity) ==
  LET status == IF entity.status = "PENDING" /\ blockNumber > entity.startBlock
                THEN "ACTIVE" ELSE entity.status
  IN CASE status = "ACTIVE" /\ blockNumber > entity.endBlock ->
            IF entity.forVotes <= entity.againstVotes \/ entity.forVotes < entity.quorumVotes
            THEN "DEFEATED"
            ELSE IF entity.executionETA = 0 THEN "SUCCEEDED" ELSE "ACTIVE"
       [] status = "QUEUED" /\ blockNumber >= entity.executionETA + GRACE_PERIOD -> "EXPIRED"
       [] OTHER -> status

PageId == shown[1]
PageEntity == shown[2]
parseSubgraphProposal == [PageEntity EXCEPT !.status = getProposalState(block, PageEntity)]
PageStatus == parseSubgraphProposal.status

\* The list of proposals: from the subgraph, or from the contract if that fails.
useAllProposals(id, subgraphFailed) ==
  IF subgraphFailed THEN contractState(id) ELSE getProposalState(block, proposalEntity[id])

\* The threshold shown: of a proposal with a dynamic quorum what the contract says.
ThresholdShown ==
  IF PageEntity.params.quorumCoefficient > 0 THEN quorumVotes(proposals[PageId])
  ELSE PageEntity.quorumVotes

\* The voters of a support who voted with anything.
VotedWith(support) ==
  {v \in Voters : /\ <<v, PageId>> \in DOMAIN voteEntity /\ Weight[v] > 0
                  /\ voteEntity[<<v, PageId>>].support = support}

\* getNounVotes: the nouns that they represented at the creation, by the index.
getNounVotes(support) == SumFunctionOnSet(Represented, VotedWith(support))

\* DynamicQuorumInfoModal: the parameters are those of the start block, and nothing is
\* rounded but the result.
useDynamicQuorumProps == ParamsAt(quorumParams, PageEntity.startBlock)
dqmFunction(bps) ==
  LET p == useDynamicQuorumProps
  IN Smaller(CoefficientOne * p.minQuorumVotesBPS + p.quorumCoefficient * bps,
             CoefficientOne * p.maxQuorumVotesBPS)
QuorumDrawn ==
  LET supply == PageEntity.totalSupply
      againstVotesBps == (getNounVotes(0) * Bps) \div supply
  IN (dqmFunction(againstVotesBps) * supply) \div (Bps * CoefficientOne)

hasSucceeded == PageStatus = "SUCCEEDED"
isInNonFinalState == PageStatus \in {"PENDING", "ACTIVE", "SUCCEEDED", "QUEUED"}
isCancellable == isInNonFinalState /\ PageEntity.proposer = User
isAwaitingStateChange ==
  hasSucceeded \/ (PageStatus = "QUEUED" /\ block >= PageEntity.executionETA)

\* Mutant: the last block of the voting period still counts.
MayBeActiveForVotingAtTheEnd == PageEntity.startBlock <= block /\ block <= PageEntity.endBlock

\* The dates are estimated from the distance in blocks: at the first block itself
\* the start may or may not lie before the moment the page is drawn.
MayBeActiveForVoting == PageEntity.startBlock <= block /\ block < PageEntity.endBlock
useHasVotedOnProposal == User \in proposals[PageId].voted
useUserVotesAsOfBlock == IF User \in Voters THEN Weight[User] ELSE 0
disableVoteButton == useUserVotesAsOfBlock = 0 \/ useHasVotedOnProposal

Offered(action) ==
  CASE action = "queue"   -> hasSucceeded
    [] action = "execute" -> isAwaitingStateChange /\ ~hasSucceeded
    [] action = "cancel"  -> isCancellable
    [] action = "vote"    -> MayBeActiveForVoting /\ ~disableVoteButton

-----------------------------------------------------------------------------
\* The page is opened or reloaded: its query is answered.
useProposal(id) ==
  /\ id \in DOMAIN proposalEntity
  /\ shown' = <<id, proposalEntity[id]>>
  /\ shown = <<>> \/ shown # shown'
  /\ pending' = {}
  /\ UNCHANGED subgraphDAOVars

\* moveStateAction and destructiveStateAction.  Queueing and executing disable each
\* other's button while one is mined.
Click(action) ==
  /\ shown # <<>> /\ Offered(action)
  /\ IF action = "cancel" THEN "cancel" \notin pending ELSE pending \cap {"queue", "execute"} = {}
  /\ pending' = pending \cup {action}
  /\ UNCHANGED <<subgraphDAOVars, shown>>

\* onTransactionStateChange: the transaction is mined, or refused, or not signed.
OnMined(action) ==
  /\ action \in pending
  /\ CASE action = "queue" -> Queue(PageId) [] action = "execute" -> Execute(PageId)
       [] action = "cancel" -> Cancel(PageId)
  /\ pending' = pending \ {action}
  /\ UNCHANGED shown

OnNotMined(action) ==
  /\ action \in pending /\ pending' = pending \ {action}
  /\ UNCHANGED <<subgraphDAOVars, shown>>

GovernancePageNext ==
  \/ SubgraphDAONext /\ UNCHANGED pageVars
  \/ \E id \in ProposalIds : useProposal(id)
  \/ \E a \in Actions : Click(a) \/ OnMined(a) \/ OnNotMined(a)

GovernancePageSpec ==
  SubgraphDAOInit /\ PageInit /\ [][GovernancePageNext]_governancePageVars

-----------------------------------------------------------------------------
\* The page was loaded after the last event was handled.
Fresh == shown # <<>> /\ emitted = NoEvent /\ PageEntity = proposalEntity[PageId]

\* The index of the token has the voters against represent what they voted with, as it
\* has those who did not begin or end with delegating to themselves (SubgraphToken).
VotesAsIndexed == \A v \in VotedWith(0) : Represented[v] = Weight[v]

\* The quorum parameters did not change later in the block of the creation, which
\* the contract goes by the end of.
TermsAsIndexed(id) ==
  ParamsAt(quorumParams, proposals[id].creationBlock) = proposals[id].atCreation

\* Whatever order things happened in, up-to-date entities show the state the
\* governor is in and the quorum it goes by (getProposalState, nouns-dao.ts);
\* only one that is vetoed and canceled may show as either.  The curve of the quorum
\* is that of the proposal, but for rounding (one vote, and one more for every Bps of
\* the supply), if the parameters did not change before its start and the nouns
\* the page counts are the votes.  Proposals in whose own block the parameters changed
\* after them are left out: the contract goes by the change, the index does not.
PageShowsContractState ==
  emitted = NoEvent =>
    \A id \in Created : TermsAsIndexed(id) =>
      /\ \A failed \in BOOLEAN :
           \/ useAllProposals(id, failed) = contractState(id)
           \/ proposals[id].vetoed /\ proposals[id].canceled
      /\ Fresh /\ PageId = id =>
           /\ ThresholdShown = quorumVotes(proposals[id])
           /\ useDynamicQuorumProps = proposals[id].atCreation /\ VotesAsIndexed =>
                QuorumDrawn - quorumVotes(proposals[id]) \in
                  0 .. 1 + proposals[id].totalSupply \div Bps

\* The flag of a transaction was cleared for a proposal that was canceled or vetoed.
Recalled(tx) ==
  \E other \in Created : /\ proposals[other].canceled \/ proposals[other].vetoed
                         /\ tx \in ActionsAtEta(other, proposals[other].eta)

\* What an up-to-date page offers the governor and the timelock accept as the first
\* transaction of the next block, whatever proposals share actions.  The exceptions:
\* a proposal that lists an action twice can never be queued; a queued one may expire
\* with the block, or have lost a flag to a canceled one with the same action and
\* ETA; and votes are also offered on proposals that were canceled or vetoed.
OfferedActionIsAccepted ==
  Fresh =>
    LET next == stateAt(PageId, block + 1)
        p == proposals[PageId]
        txs == ActionsAtEta(PageId, p.eta)
    IN /\ Offered("queue") /\ TermsAsIndexed(PageId) =>
            next = "SUCCEEDED" /\ (ListsOnce(PageId) => CanQueue(PageId, block + 1 + timelockDelay))
       /\ Offered("execute") =>
            /\ next = "QUEUED" \/ block + 1 = p.eta + GRACE_PERIOD
            /\ block >= p.eta
            /\ txs \subseteq queuedTransactions \/ \E tx \in txs : Recalled(tx)
       /\ Offered("cancel") => ~p.executed
       /\ Offered("vote") /\ ~p.canceled /\ ~p.vetoed => next = "ACTIVE" /\ User \notin p.voted
=============================================================================
