----------------------------- MODULE SubgraphDAO -----------------------------
(***************************************************************************)
(* nouns-subgraph/src/nouns-dao.ts: the proposals, votes and quorum        *)
(* parameters rebuilt from the governor's events.  The contract side is    *)
(* NounsDAOLogicV2 as its events show it: time, votes of fixed voters, and *)
(* the transactions that emit something the subgraph handles, with what    *)
(* the timelock's flags have to say of them.  One event is under way at a  *)
(* time; blocks may pass before it is handled.                             *)
(*                                                                         *)
(* A block is one unit of time.  Left out: what the actions call, which    *)
(* may make an execution fail of itself, description and title.            *)
(***************************************************************************)
EXTENDS DynamicQuorum, FiniteSets

CONSTANTS
  Proposers, Weight,     \* Weight[v]: the votes of v, who may be without any
  Supplies,              \* the supplies of nouns at a creation
  ParamsChoices,         \* what the quorum parameters may be set to
  ActionsOf,             \* ActionsOf[id]: the list of actions of proposal id
  ProposalIds, votingDelay, votingPeriod, timelockDelay, GRACE_PERIOD,
  Supports,              \* bound: the votes cast, of 0 .. 2
  LastBlock,             \* bound on block.number
  MaxSettings            \* bound: changes of the quorum parameters

\* The governor requires a delay of at least one block (MIN_VOTING_DELAY), and nouns are
\* minted before anything is proposed.
ASSUME SubgraphDAOAssumption ==
  /\ IsFiniteSet(DOMAIN Weight) /\ Weight \in [DOMAIN Weight -> Nat]
  /\ Supplies \subseteq Nat \ {0} /\ ParamsChoices \subseteq Params
  /\ votingDelay \in Nat \ {0} /\ votingPeriod \in Nat
  /\ timelockDelay \in Nat /\ GRACE_PERIOD \in Nat
  /\ Supports \subseteq 0 .. 2

VARIABLES
  block,
  proposals,             \* the contract's proposals: [id -> record], those created
  quorumParams,          \* the contract's quorumParamsCheckpoints
  emitted,               \* the event under way, or none
  queuedTransactions,    \* the timelock's flags: the <<action, eta>> that are set
  proposalEntity,        \* Proposal entities
  voteEntity,            \* Vote entities, by <<voter, id>>
  latestParams,          \* the DynamicQuorumParams entity
  proposalsQueued,       \* of the Governance entity
  settings

chainGovernance == <<block, proposals, quorumParams, queuedTransactions, settings>>
indexedGovernance == <<proposalEntity, voteEntity, latestParams, proposalsQueued>>
subgraphDAOVars == <<chainGovernance, emitted, indexedGovernance>>

Voters == DOMAIN Weight
NoEvent == [event |-> "none"]
Created == DOMAIN proposals
NoFunction == [x \in {} |-> 0]
Put(f, x, y) == [z \in DOMAIN f \cup {x} |-> IF z = x THEN y ELSE f[z]]

\* The contracts are initialized in block 1, with one of ParamsChoices.
SubgraphDAOInit ==
  /\ block = 2 /\ proposals = NoFunction /\ queuedTransactions = {} /\ settings = 0
  /\ \E params \in ParamsChoices :
       /\ InitialParamsAllowed(params)
       /\ quorumParams = <<[fromBlock |-> 1, params |-> params]>>
       /\ latestParams = [params |-> params, dynamicQuorumStartBlock |-> 1]
  /\ emitted = NoEvent /\ proposalEntity = NoFunction /\ voteEntity = NoFunction
  /\ proposalsQueued = 0

-----------------------------------------------------------------------------
(* The contract.                                                           *)

quorumVotes(p) ==
  dynamicQuorumVotes(p.againstVotes, p.totalSupply, ParamsAt(quorumParams, p.creationBlock))

\* state(id), called in block b.
stateAt(id, b) ==
  LET p == proposals[id]
  IN IF p.vetoed THEN "VETOED"
     ELSE IF p.canceled THEN "CANCELLED"
     ELSE IF b <= p.startBlock THEN "PENDING"
     ELSE IF b <= p.endBlock THEN "ACTIVE"
     ELSE IF p.forVotes <= p.againstVotes \/ p.forVotes < quorumVotes(p) THEN "DEFEATED"
     ELSE IF p.eta = 0 THEN "SUCCEEDED"
     ELSE IF p.executed THEN "EXECUTED"
     ELSE IF b >= p.eta + GRACE_PERIOD THEN "EXPIRED"
     ELSE "QUEUED"
contractState(id) == stateAt(id, block)

Emits(e) ==
  /\ emitted = NoEvent /\ emitted' = e
  /\ UNCHANGED indexedGovernance

\* The latest proposal of the proposer is the only one of its that can be live.
Propose(id, proposer, supply) ==
  /\ id \notin Created /\ \A other \in ProposalIds : other < id => other \in Created
  /\ \A other \in Created : proposals[other].proposer = proposer =>
                             contractState(other) \notin {"PENDING", "ACTIVE"}
  /\ proposals' = Put(proposals, id,
       [proposer |-> proposer, creationBlock |-> block, startBlock |-> block + votingDelay,
        endBlock |-> block + votingDelay + votingPeriod, totalSupply |-> supply,
        forVotes |-> 0, againstVotes |-> 0, abstainVotes |-> 0, eta |-> 0,
        canceled |-> FALSE, vetoed |-> FALSE, executed |-> FALSE, voted |-> {},
        atCreation |-> quorumParams[Len(quorumParams)].params])
  /\ Emits([event |-> "ProposalCreated", id |-> id, proposer |-> proposer, block |-> block,
            startBlock |-> block + votingDelay, endBlock |-> block + votingDelay + votingPeriod,
            totalSupply |-> supply,
            quorumVotes |->
              bps2Uint(quorumParams[Len(quorumParams)].params.minQuorumVotesBPS, supply)])
  /\ UNCHANGED <<block, quorumParams, queuedTransactions, settings>>

VoteFields == <<"againstVotes", "forVotes", "abstainVotes">>

CastVote(id, voter, support) ==
  /\ contractState(id) = "ACTIVE" /\ voter \notin proposals[id].voted
  /\ proposals' = [proposals EXCEPT ![id][VoteFields[support + 1]] = @ + Weight[voter],
                                    ![id].voted = @ \cup {voter}]
  /\ Emits([event |-> "VoteCast", id |-> id, voter |-> voter, support |-> support,
            votes |-> Weight[voter]])
  /\ UNCHANGED <<block, quorumParams, queuedTransactions, settings>>

\* What the timelock tells apart: the actions of a proposal with an ETA.
ActionsAtEta(id, eta) == {<<ActionsOf[id][i], eta>> : i \in DOMAIN ActionsOf[id]}
ListsOnce(id) ==
  \A i, j \in DOMAIN ActionsOf[id] : i # j => ActionsOf[id][i] # ActionsOf[id][j]

\* queueOrRevertInternal, of one action after the other.
CanQueue(id, eta) == ListsOnce(id) /\ ActionsAtEta(id, eta) \cap queuedTransactions = {}

Queue(id) ==
  /\ contractState(id) = "SUCCEEDED" /\ CanQueue(id, block + timelockDelay)
  /\ queuedTransactions' = queuedTransactions \cup ActionsAtEta(id, block + timelockDelay)
  /\ proposals' = [proposals EXCEPT ![id].eta = block + timelockDelay]
  /\ Emits([event |-> "ProposalQueued", id |-> id, eta |-> block + timelockDelay])
  /\ UNCHANGED <<block, quorumParams, settings>>

\* executeTransaction, of one action after the other: each clears its flag, and no
\* action that is queued is listed twice.
CanExecute(id) ==
  /\ contractState(id) = "QUEUED" /\ block >= proposals[id].eta
  /\ ActionsAtEta(id, proposals[id].eta) \subseteq queuedTransactions
ClearsFlags(id) ==
  queuedTransactions' = queuedTransactions \ ActionsAtEta(id, proposals[id].eta)

Execute(id) ==
  /\ CanExecute(id)
  /\ proposals' = [proposals EXCEPT ![id].executed = TRUE] /\ ClearsFlags(id)
  /\ Emits([event |-> "ProposalExecuted", id |-> id])
  /\ UNCHANGED <<block, quorumParams, settings>>

\* Also a canceled or vetoed proposal can be canceled, and a canceled one vetoed: the
\* flags are cleared again.
Cancel(id) ==
  /\ contractState(id) # "EXECUTED"
  /\ proposals' = [proposals EXCEPT ![id].canceled = TRUE] /\ ClearsFlags(id)
  /\ Emits([event |-> "ProposalCanceled", id |-> id])
  /\ UNCHANGED <<block, quorumParams, settings>>

Veto(id) ==
  /\ contractState(id) # "EXECUTED"
  /\ proposals' = [proposals EXCEPT ![id].vetoed = TRUE] /\ ClearsFlags(id)
  /\ Emits([event |-> "ProposalVetoed", id |-> id])
  /\ UNCHANGED <<block, quorumParams, settings>>

SetParams(field, params) ==
  /\ settings < MaxSettings
  /\ LET last == quorumParams[Len(quorumParams)].params
         new  == [last EXCEPT ![field] = params[field]]
     IN /\ SetterAllows(field, new) /\ new # last
        /\ quorumParams' = WriteParams(quorumParams, block, new)
  /\ settings' = settings + 1
  /\ Emits([event |-> "ParamsSet", field |-> field, to |-> params[field], block |-> block])
  /\ UNCHANGED <<block, proposals, queuedTransactions>>

MineBlock ==
  /\ block < LastBlock /\ block' = block + 1
  /\ UNCHANGED <<proposals, quorumParams, queuedTransactions, settings, emitted,
                 indexedGovernance>>

-----------------------------------------------------------------------------
(* The handlers.                                                           *)

\* handleProposalCreatedWithRequirements.  totalSupply is the Governance entity's
\* totalTokenHolders, the supply as of the event (SubgraphToken).
handleProposalCreated(e) ==
  /\ proposalEntity' = Put(proposalEntity, e.id,
       [proposer |-> e.proposer, createdBlock |-> e.block, startBlock |-> e.startBlock,
        endBlock |-> e.endBlock, totalSupply |-> e.totalSupply, quorumVotes |-> e.quorumVotes,
        forVotes |-> 0, againstVotes |-> 0, abstainVotes |-> 0, params |-> latestParams.params,
        status |-> IF e.block >= e.startBlock THEN "ACTIVE" ELSE "PENDING",
        executionETA |-> 0])
  /\ UNCHANGED <<voteEntity, latestParams, proposalsQueued>>

WithStatus(e, status) == proposalEntity' = [proposalEntity EXCEPT ![e.id].status = status]

handleProposalCanceled(e) ==
  WithStatus(e, "CANCELLED") /\ UNCHANGED <<voteEntity, latestParams, proposalsQueued>>
handleProposalVetoed(e) ==
  WithStatus(e, "VETOED") /\ UNCHANGED <<voteEntity, latestParams, proposalsQueued>>

handleProposalQueued(e) ==
  /\ proposalEntity' = [proposalEntity EXCEPT ![e.id].status = "QUEUED",
                                              ![e.id].executionETA = e.eta]
  /\ proposalsQueued' = proposalsQueued + 1
  /\ UNCHANGED <<voteEntity, latestParams>>

handleProposalExecuted(e) ==
  /\ proposalEntity' = [proposalEntity EXCEPT ![e.id].status = "EXECUTED",
                                              ![e.id].executionETA = 0]
  /\ proposalsQueued' = proposalsQueued - 1
  /\ UNCHANGED <<voteEntity, latestParams>>

\* Mutant: the quorum is computed from the votes before this one.
QuorumBeforeVote(before, after) ==
  IF latestParams.dynamicQuorumStartBlock < after.createdBlock
  THEN dynamicQuorumVotes(before.againstVotes, after.totalSupply, after.params)
  ELSE after.quorumVotes

QuorumAfterVote(before, after) ==
  IF latestParams.dynamicQuorumStartBlock < after.createdBlock
  THEN dynamicQuorumVotes(after.againstVotes, after.totalSupply, after.params)
  ELSE after.quorumVotes

handleVoteCast(e) ==
  LET before == proposalEntity[e.id]
      after == [before EXCEPT ![VoteFields[e.support + 1]] = @ + e.votes,
                              !.status = IF @ = "PENDING" THEN "ACTIVE" ELSE @]
  IN /\ voteEntity' = Put(voteEntity, <<e.voter, e.id>>, [support |-> e.support, votes |-> e.votes])
     /\ proposalEntity' = [proposalEntity EXCEPT
          ![e.id] = [after EXCEPT !.quorumVotes = QuorumAfterVote(before, after)]]
     /\ UNCHANGED <<latestParams, proposalsQueued>>

\* handleMinQuorumVotesBPSSet, handleMaxQuorumVotesBPSSet, handleQuorumCoefficientSet.
\* The start block is the block of the first of them.
handleParamsSet(e) ==
  /\ latestParams' = [latestParams EXCEPT !.params[e.field] = e.to]
  /\ UNCHANGED <<proposalEntity, voteEntity, proposalsQueued>>

HandlesGovernance(e) ==
  CASE e.event = "ProposalCreated"  -> handleProposalCreated(e)
    [] e.event = "ProposalCanceled" -> handleProposalCanceled(e)
    [] e.event = "ProposalVetoed"   -> handleProposalVetoed(e)
    [] e.event = "ProposalQueued"   -> handleProposalQueued(e)
    [] e.event = "ProposalExecuted" -> handleProposalExecuted(e)
    [] e.event = "VoteCast"         -> handleVoteCast(e)
    [] e.event = "ParamsSet"        -> handleParamsSet(e)

IndexGovernance ==
  /\ emitted # NoEvent
  /\ HandlesGovernance(emitted) /\ emitted' = NoEvent
  /\ UNCHANGED chainGovernance

SubgraphDAONext ==
  \/ \E id \in ProposalIds, proposer \in Proposers, supply \in Supplies :
       Propose(id, proposer, supply)
  \/ \E id \in Created, voter \in Voters, support \in Supports : CastVote(id, voter, support)
  \/ \E id \in Created : Queue(id) \/ Execute(id) \/ Cancel(id) \/ Veto(id)
  \/ \E field \in {"minQuorumVotesBPS", "maxQuorumVotesBPS", "quorumCoefficient"},
        params \in ParamsChoices : SetParams(field, params)
  \/ MineBlock
  \/ IndexGovernance
=============================================================================
