--------------------------- MODULE NounsDAOLogicV2 ---------------------------
(***************************************************************************)
(* The governor NounsDAOLogicV2.sol with the timelock NounsDAOExecutor.sol *)
(* it is the admin of, over the votes of VoteLedger.                       *)
(*                                                                         *)
(* An action is one transaction, except execute: the calls of a proposal   *)
(* leave the DAO, and whoever is called may call the governor again before *)
(* it returns.  execute is therefore BeginExecute, which runs the first    *)
(* action, a ContinueExecute for each other one and EndExecute, with a     *)
(* stack of the executions in progress; other transactions may run in      *)
(* between only while a called contract is in control.  An execution that  *)
(* fails is reverted as a whole: it is the same as not having begun.       *)
(*                                                                         *)
(* block.timestamp grows with block.number and is compared only with       *)
(* timestamps, so the block number stands for it.                          *)
(***************************************************************************)
EXTENDS VoteLedger, DynamicQuorum, FiniteSets, Functions

CONSTANTS
  Zero,             \* address(0)
  InitVetoer, Vetoers,  \* the first one; those the power may be handed to
  Ballots,          \* bound: the kinds of votes that are cast, of 0 .. 2
  Actions,          \* the actions proposals may contain: [target, value]
  ActionLists,      \* the lists of actions accounts propose
  Settable,         \* Settable[f]: what the setter of f accepts
  InitConfig,       \* delay, votingDelay, votingPeriod, proposalThreshold
  InitParams,       \* dynamic quorum parameters
  GRACE_PERIOD,
  MaxProposals, MaxBlock, MaxDepth, LastChange  \* bounds

ConfigFields == {"delay", "votingDelay", "votingPeriod", "proposalThreshold"}
QuorumFields == {"minQuorumVotesBPS", "maxQuorumVotesBPS", "quorumCoefficient"}
Action == [target : ConfigFields \cup QuorumFields \cup {"call"}, value : Nat]

\* MIN_VOTING_DELAY, MIN_VOTING_PERIOD, MIN_PROPOSAL_THRESHOLD and MINIMUM_DELAY
\* are all positive.
ASSUME GovernorAssumption ==
  /\ IsFiniteSet(Voters) /\ Zero \notin Voters /\ Zero \notin Vetoers
  /\ Ballots \subseteq 0 .. 2
  /\ Actions \subseteq Action
  /\ ActionLists \subseteq Seq(Actions) \ {<<>>}
  /\ Settable \in [ConfigFields -> SUBSET (Nat \ {0})]
  /\ InitConfig \in [ConfigFields -> Nat \ {0}]
  /\ InitParams \in Params /\ InitialParamsAllowed(InitParams)
  /\ GRACE_PERIOD \in Nat \ {0}
  /\ MaxProposals \in Nat /\ MaxBlock \in Nat /\ MaxDepth \in Nat /\ LastChange \in Nat

VARIABLES
  proposals,               \* _proposals, 1 .. proposalCount
  latestProposalIds,
  config,                  \* timelock.delay, votingDelay, votingPeriod, proposalThreshold
  quorumParamsCheckpoints,
  vetoer, pendingVetoer,
  queuedTransactions,      \* timelock: the set of [action, eta] whose flag is true
  calls                    \* executions in progress, innermost first

settings == <<config, quorumParamsCheckpoints>>
veto_power == <<vetoer, pendingVetoer>>
vars == <<votes, past, blockNumber, proposals, latestProposalIds, config,
          quorumParamsCheckpoints, vetoer, pendingVetoer, queuedTransactions, calls>>

timestamp == blockNumber
ProposalIds == 1 .. MaxProposals
Exists(id) == id \in DOMAIN proposals

Receipt == [voter : Voters, support : 0 .. 2, votes : Nat]
Proposal == [proposer : Voters, actions : ActionLists, proposalThreshold : Nat,
             startBlock : Nat, endBlock : Nat, eta : Nat,
             forVotes : Nat, againstVotes : Nat, abstainVotes : Nat,
             canceled : BOOLEAN, vetoed : BOOLEAN, executed : BOOLEAN,
             receipts : SUBSET Receipt, totalSupply : Nat, creationBlock : Nat]

TypeOK ==
  /\ LedgerTypeOK
  /\ proposals \in Seq(Proposal) /\ Len(proposals) <= MaxProposals
  /\ latestProposalIds \in [Voters -> 0 .. MaxProposals]
  /\ config \in [ConfigFields -> Nat]
  /\ \A f \in ConfigFields : config[f] \in Settable[f] \cup {InitConfig[f]}
  /\ quorumParamsCheckpoints \in Seq(ParamsCheckpoint)
  /\ {vetoer, pendingVetoer} \subseteq Vetoers \cup {InitVetoer, Zero}
  /\ queuedTransactions \subseteq [action : Actions, eta : Nat]
  /\ calls \in Seq([id : ProposalIds, next : Nat])

Init ==
  /\ LedgerInit
  /\ proposals = <<>>
  /\ latestProposalIds = [v \in Voters |-> 0]
  /\ config = InitConfig
  /\ quorumParamsCheckpoints = <<[fromBlock |-> 1, params |-> InitParams]>>
  /\ vetoer = InitVetoer /\ pendingVetoer = Zero
  /\ queuedTransactions = {}
  /\ calls = <<>>

-----------------------------------------------------------------------------
totalSupply == SumFunction(votes)

getPriorVotes(v, block) == past[block][v]

quorumVotes(p) ==
  IF p.totalSupply = 0 THEN 0
  ELSE dynamicQuorumVotes(p.againstVotes, p.totalSupply,
                          ParamsAt(quorumParamsCheckpoints, p.creationBlock))

VoteFailed(p) == p.forVotes <= p.againstVotes \/ p.forVotes < quorumVotes(p)

\* Mutant: expiry is tested before execution.
stateExpiryFirst(id) ==
  LET p == proposals[id]
  IN  CASE p.vetoed -> "Vetoed"
        [] ~p.vetoed /\ p.canceled -> "Canceled"
        [] OTHER ->
             IF blockNumber <= p.startBlock      THEN "Pending"
             ELSE IF blockNumber <= p.endBlock   THEN "Active"
             ELSE IF VoteFailed(p)               THEN "Defeated"
             ELSE IF p.eta = 0                   THEN "Succeeded"
             ELSE IF timestamp >= p.eta + GRACE_PERIOD THEN "Expired"
             ELSE IF p.executed                  THEN "Executed"
             ELSE "Queued"

state(id) ==
  LET p == proposals[id]
  IN  CASE p.vetoed -> "Vetoed"
        [] ~p.vetoed /\ p.canceled -> "Canceled"
        [] OTHER ->
             IF blockNumber <= p.startBlock      THEN "Pending"
             ELSE IF blockNumber <= p.endBlock   THEN "Active"
             ELSE IF VoteFailed(p)               THEN "Defeated"
             ELSE IF p.eta = 0                   THEN "Succeeded"
             ELSE IF p.executed                  THEN "Executed"
             ELSE IF timestamp >= p.eta + GRACE_PERIOD THEN "Expired"
             ELSE "Queued"

Transactions(p) == {[action |-> p.actions[i], eta |-> p.eta] : i \in DOMAIN p.actions}

\* An account can call when nothing is executing, or when the action just executed
\* was a call that leaves the DAO and has not returned.
Callable ==
  calls # <<>> => proposals[calls[1].id].actions[calls[1].next - 1].target = "call"

-----------------------------------------------------------------------------
\* Mutant: only a proposal that is being voted on is live.
HasLiveProposalActive(sender) ==
  latestProposalIds[sender] # 0 /\ state(latestProposalIds[sender]) = "Active"

HasLiveProposal(sender) ==
  latestProposalIds[sender] # 0 /\ state(latestProposalIds[sender]) \in {"Active", "Pending"}

propose(sender, actions) ==
  /\ Callable
  /\ Len(proposals) < MaxProposals
  /\ getPriorVotes(sender, blockNumber - 1) >= config["proposalThreshold"]
  /\ ~HasLiveProposal(sender)
  /\ LET start == blockNumber + config["votingDelay"]
     IN  proposals' = Append(proposals,
           [proposer |-> sender, actions |-> actions,
            proposalThreshold |-> config["proposalThreshold"],
            startBlock |-> start, endBlock |-> start + config["votingPeriod"],
            eta |-> 0, forVotes |-> 0, againstVotes |-> 0, abstainVotes |-> 0,
            canceled |-> FALSE, vetoed |-> FALSE, executed |-> FALSE, receipts |-> {},
            totalSupply |-> totalSupply, creationBlock |-> blockNumber])
  /\ latestProposalIds' = [latestProposalIds EXCEPT ![sender] = Len(proposals) + 1]
  /\ UNCHANGED <<ledger, settings, veto_power, queuedTransactions, calls>>

\* Mutant: votes of the block before the vote is cast.
VotingPowerNow(voter, id) == getPriorVotes(voter, blockNumber - 1)

VotingPower(voter, id) == getPriorVotes(voter, proposals[id].creationBlock)

\* A proposal with one more vote on it.
Tallied(p, receipt) ==
  LET counted(support) == IF receipt.support = support THEN receipt.votes ELSE 0
  IN  [p EXCEPT !.againstVotes = @ + counted(0), !.forVotes = @ + counted(1),
                !.abstainVotes = @ + counted(2), !.receipts = @ \cup {receipt}]

\* castVote, castVoteWithReason, castVoteBySig and castRefundableVote (gas refunds
\* are left out); votes count as of the block the proposal was created in.
castVote(voter, id, support) ==
  /\ Callable
  /\ Exists(id) /\ state(id) = "Active"
  /\ \A r \in proposals[id].receipts : r.voter # voter
  /\ proposals' = [proposals EXCEPT ![id] =
                     Tallied(@, [voter |-> voter, support |-> support,
                                 votes |-> VotingPower(voter, id)])]
  /\ UNCHANGED <<ledger, latestProposalIds, settings, veto_power, queuedTransactions, calls>>

Eta == timestamp + config["delay"]

\* An action that is already queued at the same eta, by this proposal or another,
\* reverts the whole transaction; so does an eta the executor finds too early.
queue(id) ==
  /\ Callable
  /\ Exists(id) /\ state(id) = "Succeeded"
  /\ LET queued == [proposals[id] EXCEPT !.eta = Eta]
     IN  /\ queued.eta >= timestamp + config["delay"]
         /\ \A i, j \in DOMAIN queued.actions :
              i # j => queued.actions[i] # queued.actions[j]
         /\ Transactions(queued) \cap queuedTransactions = {}
         /\ proposals' = [proposals EXCEPT ![id] = queued]
         /\ queuedTransactions' = queuedTransactions \cup Transactions(queued)
  /\ UNCHANGED <<ledger, latestProposalIds, settings, veto_power, calls>>

(***************************************************************************)
(* What the target of an action does: a setter of the executor or of the   *)
(* governor (each sent by the executor), or a call that leaves the DAO.    *)
(***************************************************************************)
SetsConfig(action) ==
  /\ action.target \in ConfigFields
  /\ action.value \in Settable[action.target]
  /\ config' = [config EXCEPT ![action.target] = action.value]
  /\ UNCHANGED quorumParamsCheckpoints

SetsQuorum(action) ==
  /\ action.target \in QuorumFields
  /\ LET params == [ParamsAt(quorumParamsCheckpoints, blockNumber)
                      EXCEPT ![action.target] = action.value]
     IN  /\ SetterAllows(action.target, params)
         /\ quorumParamsCheckpoints' = WriteParams(quorumParamsCheckpoints, blockNumber, params)
  /\ UNCHANGED config

Performs(action) ==
  \/ SetsConfig(action)
  \/ SetsQuorum(action)
  \/ action.target = "call" /\ UNCHANGED settings

\* Mutant: the eta is not compared with the time.
executeTransactionEarly(p, i) ==
  LET tx == [action |-> p.actions[i], eta |-> p.eta]
  IN  /\ tx \in queuedTransactions
      /\ timestamp <= p.eta + GRACE_PERIOD
      /\ queuedTransactions' = queuedTransactions \ {tx}
      /\ Performs(tx.action)

\* NounsDAOExecutor.executeTransaction clears the flag before it calls the target.
executeTransaction(p, i) ==
  LET tx == [action |-> p.actions[i], eta |-> p.eta]
  IN  /\ tx \in queuedTransactions
      /\ timestamp >= p.eta /\ timestamp <= p.eta + GRACE_PERIOD
      /\ queuedTransactions' = queuedTransactions \ {tx}
      /\ Performs(tx.action)

\* The proposal is marked as executed before its first action runs.
BeginExecute(id) ==
  /\ Callable /\ Len(calls) < MaxDepth
  /\ Exists(id) /\ state(id) = "Queued"
  /\ proposals' = [proposals EXCEPT ![id].executed = TRUE]
  /\ executeTransaction(proposals[id], 1)
  /\ calls' = <<[id |-> id, next |-> 2]>> \o calls
  /\ UNCHANGED <<ledger, latestProposalIds, veto_power>>

ContinueExecute ==
  /\ calls # <<>>
  /\ calls[1].next <= Len(proposals[calls[1].id].actions)
  /\ executeTransaction(proposals[calls[1].id], calls[1].next)
  /\ calls' = [calls EXCEPT ![1].next = @ + 1]
  /\ UNCHANGED <<ledger, proposals, latestProposalIds, veto_power>>

EndExecute ==
  /\ calls # <<>>
  /\ calls[1].next > Len(proposals[calls[1].id].actions)
  /\ calls' = Tail(calls)
  /\ UNCHANGED <<ledger, proposals, latestProposalIds, settings, veto_power, queuedTransactions>>

\* Mutant: the transactions stay queued.
cancelTransactionsNot(p) == UNCHANGED queuedTransactions

\* NounsDAOExecutor.cancelTransaction, for every action of the proposal.
cancelTransactions(p) == queuedTransactions' = queuedTransactions \ Transactions(p)

cancel(sender, id) ==
  /\ Callable
  /\ Exists(id) /\ state(id) # "Executed"
  /\ \/ sender = proposals[id].proposer
     \/ getPriorVotes(proposals[id].proposer, blockNumber - 1) < proposals[id].proposalThreshold
  /\ proposals' = [proposals EXCEPT ![id].canceled = TRUE]
  /\ cancelTransactions(proposals[id])
  /\ UNCHANGED <<ledger, latestProposalIds, settings, veto_power, calls>>

veto(id) ==
  /\ Callable
  /\ vetoer # Zero
  /\ Exists(id) /\ state(id) # "Executed"
  /\ proposals' = [proposals EXCEPT ![id].vetoed = TRUE]
  /\ cancelTransactions(proposals[id])
  /\ UNCHANGED <<ledger, latestProposalIds, settings, veto_power, calls>>

_setPendingVetoer(v) ==
  /\ Callable
  /\ vetoer # Zero
  /\ pendingVetoer' = v
  /\ UNCHANGED <<ledger, proposals, latestProposalIds, settings, vetoer,
                 queuedTransactions, calls>>

_acceptVetoer ==
  /\ Callable
  /\ pendingVetoer # Zero
  /\ vetoer' = pendingVetoer /\ pendingVetoer' = Zero
  /\ UNCHANGED <<ledger, proposals, latestProposalIds, settings, queuedTransactions, calls>>

_burnVetoPower ==
  /\ Callable
  /\ vetoer # Zero
  /\ vetoer' = Zero /\ pendingVetoer' = Zero
  /\ UNCHANGED <<ledger, proposals, latestProposalIds, settings, queuedTransactions, calls>>

\* The ledger moves on: within a block also while a called contract is in control,
\* to the next block only between transactions.
LedgerStep ==
  /\ \/ Callable /\ blockNumber <= LastChange /\ VotesChange
     \/ calls = <<>> /\ blockNumber < MaxBlock /\ BlockEnds
  /\ UNCHANGED <<proposals, latestProposalIds, settings, veto_power, queuedTransactions, calls>>

Next ==
  \/ \E v \in Voters, actions \in ActionLists : propose(v, actions)
  \/ \E v \in Voters, id \in ProposalIds, support \in Ballots : castVote(v, id, support)
  \/ \E id \in ProposalIds : queue(id) \/ BeginExecute(id) \/ veto(id)
  \/ \E v \in Voters, id \in ProposalIds : cancel(v, id)
  \/ ContinueExecute \/ EndExecute
  \/ \E v \in Vetoers \cup {Zero} : _setPendingVetoer(v)
  \/ _acceptVetoer \/ _burnVetoPower
  \/ LedgerStep

Spec == Init /\ [][Next]_vars

-----------------------------------------------------------------------------
(* Properties                                                              *)

\* What is left to run of a proposal: all of it once it is queued, what follows
\* the current action while it is executing, nothing otherwise.
Outstanding(id) ==
  LET p == proposals[id]
      left(i) == \/ ~p.executed
                 \/ \E c \in DOMAIN calls : calls[c].id = id /\ calls[c].next <= i
  IN  IF p.eta = 0 \/ p.canceled \/ p.vetoed THEN {}
      ELSE {[action |-> p.actions[i], eta |-> p.eta] : i \in {i \in DOMAIN p.actions : left(i)}}

\* A transaction some canceled or vetoed proposal also contains, at the same eta.
\* Canceling or vetoing that proposal again clears the flag again.
Revoked(tx) ==
  \E id \in DOMAIN proposals :
    /\ proposals[id].canceled \/ proposals[id].vetoed
    /\ tx \in Transactions(proposals[id])

\* The timelock's flags and the governor's proposals agree at every moment, also
\* for a contract called in the middle of an execution: whatever is queued is
\* outstanding for some proposal, and whatever is outstanding is queued, for that
\* proposal alone, unless an identical transaction was revoked.
QueueMatchesProposals ==
  /\ queuedTransactions \subseteq UNION {Outstanding(id) : id \in DOMAIN proposals}
  /\ \A id \in DOMAIN proposals : \A tx \in Outstanding(id) :
       \/ Revoked(tx)
       \/ /\ tx \in queuedTransactions
          /\ \A other \in DOMAIN proposals \ {id} : tx \notin Outstanding(other)

\* NounsDAOLogicV2.sol:335: execute executes a queued proposal.  For that the
\* timelock must still have all of its transactions.
QueuedIsExecutable ==
  \A id \in DOMAIN proposals :
    state(id) = "Queued" => Transactions(proposals[id]) \subseteq queuedTransactions

\* One live proposal per proposer (lines 225-236).
OneLiveProposal ==
  \A i, j \in DOMAIN proposals :
    /\ i # j /\ proposals[i].proposer = proposals[j].proposer
    /\ state(i) \in {"Pending", "Active"}
    => state(j) \notin {"Pending", "Active"}

\* The lifecycle every proposal follows, by what state() derives for it.
Lifecycle == INSTANCE ProposalLifecycle WITH
  status <- [id \in ProposalIds |-> IF Exists(id) THEN state(id) ELSE "None"]

\* state() moves along the edges of ProposalLifecycle only, whatever is voted, set,
\* queued, executed or vetoed in between, and from inside an execution too.
FollowsLifecycle == Lifecycle!Spec

Sum(p, support) ==
  SumFunction([r \in {r \in p.receipts : r.support = support} |-> r.votes])

\* The tallies are the votes of the receipts, one receipt per voter, each worth
\* what its voter had at the end of the block the proposal was created in; so they
\* never exceed all votes of that block (line 624).
TalliesMatchSnapshot ==
  \A id \in DOMAIN proposals :
    LET p == proposals[id]
    IN  /\ p.againstVotes = Sum(p, 0) /\ p.forVotes = Sum(p, 1) /\ p.abstainVotes = Sum(p, 2)
        /\ \A r, s \in p.receipts : r.voter = s.voter => r = s
        /\ \A r \in p.receipts : r.votes = past[p.creationBlock][r.voter]

\* Once the block of its creation is over, the terms of a proposal are settled:
\* neither setters nor later proposals change the quorum its votes are held to, nor
\* when its vote ends, nor what it will do.
TermsAreFrozen ==
  [][\A id \in DOMAIN proposals :
       LET p == proposals[id]
           q == proposals'[id]
       IN  blockNumber > p.creationBlock =>
             /\ ParamsAt(quorumParamsCheckpoints', p.creationBlock)
                  = ParamsAt(quorumParamsCheckpoints, p.creationBlock)
             /\ q.endBlock = p.endBlock /\ q.actions = p.actions
             /\ q.totalSupply = p.totalSupply]_vars

\* The quorum's minimum never exceeds its maximum, nor either of them its bounds,
\* though each has a setter of its own that proposals may call in any order; and for
\* a supply of up to Bps nouns rounding never takes the quorum outside the two.
QuorumParamsConsistent ==
  \A i \in DOMAIN quorumParamsCheckpoints :
    LET params == quorumParamsCheckpoints[i].params
    IN  /\ InitialParamsAllowed(params)
        /\ \A supply \in 1 .. Bps : \A against \in 0 .. supply :
             LET quorum == dynamicQuorumVotes(against, supply, params)
             IN  /\ bps2Uint(params.minQuorumVotesBPS, supply) <= quorum
                 /\ quorum <= bps2Uint(params.maxQuorumVotesBPS, supply)

\* _burnVetoPower destroys the veto power forever (lines 902-905).
VetoPowerStaysBurned == [][vetoer = Zero => vetoer' = Zero]_vars
=============================================================================
