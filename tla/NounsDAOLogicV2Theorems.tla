----------------------- MODULE NounsDAOLogicV2Theorems -----------------------
(***************************************************************************)
(* NounsDAOLogicV2 for any voters, proposals and settings.                 *)
(***************************************************************************)
EXTENDS NounsDAOLogicV2History, DynamicQuorumTheorems, TLAPS

\* Without a vetoer nobody is waiting to become one: _burnVetoPower clears both,
\* and only a vetoer names a successor.
NoHeirToBurnedPower == vetoer = Zero => pendingVetoer = Zero

\* Once _burnVetoPower was called no sequence of _setPendingVetoer, _acceptVetoer,
\* executions and calls back into the governor brings the veto power back.
THEOREM BurnedVetoPowerIsGone == Spec => VetoPowerStaysBurned
<1> USE DEF NoHeirToBurnedPower
<1>1. Init => NoHeirToBurnedPower
  BY DEF Init
<1>2. ASSUME NoHeirToBurnedPower, [Next]_vars
      PROVE  NoHeirToBurnedPower' /\ (vetoer = Zero => vetoer' = Zero)
  <2>1. ASSUME UNCHANGED <<vetoer, pendingVetoer>>
        PROVE  NoHeirToBurnedPower' /\ (vetoer = Zero => vetoer' = Zero)
    BY <1>2, <2>1
  <2>2. ASSUME NEW v \in Vetoers \cup {Zero}, _setPendingVetoer(v)
        PROVE  NoHeirToBurnedPower' /\ (vetoer = Zero => vetoer' = Zero)
    BY <2>2 DEF _setPendingVetoer
  <2>3. CASE _acceptVetoer
    BY <1>2, <2>3 DEF _acceptVetoer
  <2>4. CASE _burnVetoPower
    BY <2>4 DEF _burnVetoPower
  <2>5. ASSUME NEW v \in Voters, NEW id \in ProposalIds,
               (\E support \in Ballots : castVote(v, id, support)) \/ cancel(v, id)
        PROVE  UNCHANGED <<vetoer, pendingVetoer>>
    BY <2>5 DEF castVote, cancel, veto_power
  <2>6. ASSUME NEW v \in Voters, NEW actions \in ActionLists, propose(v, actions)
        PROVE  UNCHANGED <<vetoer, pendingVetoer>>
    BY <2>6 DEF propose, veto_power
  <2>7. ASSUME NEW id \in ProposalIds, queue(id) \/ BeginExecute(id) \/ veto(id)
        PROVE  UNCHANGED <<vetoer, pendingVetoer>>
    BY <2>7 DEF queue, BeginExecute, veto, veto_power
  <2>8. ASSUME ContinueExecute \/ EndExecute \/ LedgerStep
        PROVE  UNCHANGED <<vetoer, pendingVetoer>>
    BY <2>8 DEF ContinueExecute, EndExecute, LedgerStep, veto_power
  <2>9. CASE UNCHANGED vars
    BY <2>1, <2>9 DEF vars
  <2> QED  BY <1>2, <2>1, <2>2, <2>3, <2>4, <2>5, <2>6, <2>7, <2>8, <2>9 DEF Next
<1>3. NoHeirToBurnedPower /\ [Next]_vars => NoHeirToBurnedPower'
  BY <1>2
<1>4. NoHeirToBurnedPower /\ [Next]_vars => [vetoer = Zero => vetoer' = Zero]_vars
  BY <1>2
<1> QED  BY <1>1, <1>3, <1>4, PTL DEF Spec, VetoPowerStaysBurned

-----------------------------------------------------------------------------
(* What a step does, in three parts: to the ledger, to the settings and to *)
(* the proposals.                                                          *)

\* What state() derives, as a function of the proposal, the block and the settings.
Failed(p, cps) ==
  \/ p.forVotes <= p.againstVotes
  \/ p.forVotes < IF p.totalSupply = 0 THEN 0
                  ELSE dynamicQuorumVotes(p.againstVotes, p.totalSupply,
                                          ParamsAt(cps, p.creationBlock))

StateAt(p, now, cps) ==
  IF p.vetoed THEN "Vetoed"
  ELSE IF p.canceled THEN "Canceled"
  ELSE IF now <= p.startBlock THEN "Pending"
  ELSE IF now <= p.endBlock THEN "Active"
  ELSE IF Failed(p, cps) THEN "Defeated"
  ELSE IF p.eta = 0 THEN "Succeeded"
  ELSE IF p.executed THEN "Executed"
  ELSE IF now >= p.eta + GRACE_PERIOD THEN "Expired"
  ELSE "Queued"

\* The ways a transaction rewrites a proposal p into q, each with what its guard
\* says of p.
Derived(p) == StateAt(p, blockNumber, quorumParamsCheckpoints)

Votes(p, q) ==
  \E r \in Receipt :
    /\ Derived(p) = "Active"
    /\ \A s \in p.receipts : s.voter # r.voter
    /\ r.votes = past[p.creationBlock][r.voter]
    /\ q = Tallied(p, r)

GetsEta(p, q) ==
  /\ Derived(p) = "Succeeded"
  /\ \A i, j \in DOMAIN p.actions : i # j => p.actions[i] # p.actions[j]
  /\ q = [p EXCEPT !.eta = Eta]

GetsExecuted(p, q) ==
  /\ Derived(p) = "Queued" /\ p.eta <= blockNumber
  /\ q = [p EXCEPT !.executed = TRUE]

GetsCanceled(p, q) == Derived(p) # "Executed" /\ q = [p EXCEPT !.canceled = TRUE]

GetsVetoed(p, q) == Derived(p) # "Executed" /\ q = [p EXCEPT !.vetoed = TRUE]

Edits(p, q) ==
  Votes(p, q) \/ GetsEta(p, q) \/ GetsExecuted(p, q) \/ GetsCanceled(p, q) \/ GetsVetoed(p, q)

Rewrites(id, q) ==
  /\ id \in DOMAIN proposals /\ Edits(proposals[id], q)
  /\ proposals' = [proposals EXCEPT ![id] = q]
  /\ UNCHANGED <<ledger, latestProposalIds>>

ProposalsMove ==
  \/ UNCHANGED <<proposals, latestProposalIds>>
  \/ \E v \in Voters, actions \in ActionLists : propose(v, actions)
  \/ \E id \in ProposalIds, q \in Proposal : Rewrites(id, q)

SettingsMove ==
  \/ UNCHANGED settings
  \/ UNCHANGED ledger /\ \E action \in Actions : SetsConfig(action) \/ SetsQuorum(action)

LedgerMoves ==
  \/ UNCHANGED ledger
  \/ VotesChange
  \/ BlockEnds /\ UNCHANGED <<proposals, latestProposalIds, settings, queuedTransactions, calls>>

\* The settings are positive, because their setters accept nothing else.
LEMMA SettingsArePositive ==
  ASSUME TypeOK
  PROVE  \A f \in ConfigFields : config[f] \in Nat \ {0}
<1>1. \A f \in ConfigFields : Settable[f] \subseteq Nat \ {0} /\ InitConfig[f] \in Nat \ {0}
  BY GovernorAssumption
<1> QED  BY <1>1 DEF TypeOK

\* The fields of a proposal.
LEMMA ProposalFields ==
  ASSUME NEW p \in Proposal
  PROVE  /\ p.proposer \in Voters /\ p.actions \in ActionLists /\ p.proposalThreshold \in Nat
         /\ p.startBlock \in Nat /\ p.endBlock \in Nat /\ p.eta \in Nat
         /\ p.forVotes \in Nat /\ p.againstVotes \in Nat /\ p.abstainVotes \in Nat
         /\ p.canceled \in BOOLEAN /\ p.vetoed \in BOOLEAN /\ p.executed \in BOOLEAN
         /\ p.receipts \subseteq Receipt /\ p.totalSupply \in Nat /\ p.creationBlock \in Nat
BY DEF Proposal

\* What a vote adds to a proposal, and what it leaves alone.
LEMMA TalliedIsProposal ==
  ASSUME NEW p \in Proposal, NEW r \in Receipt
  PROVE  LET q == Tallied(p, r)
         IN  /\ q \in Proposal
             /\ q.receipts = p.receipts \cup {r}
             /\ q.againstVotes = p.againstVotes + (IF r.support = 0 THEN r.votes ELSE 0)
             /\ q.forVotes = p.forVotes + (IF r.support = 1 THEN r.votes ELSE 0)
             /\ q.abstainVotes = p.abstainVotes + (IF r.support = 2 THEN r.votes ELSE 0)
             /\ q.proposer = p.proposer /\ q.actions = p.actions
             /\ q.startBlock = p.startBlock /\ q.endBlock = p.endBlock /\ q.eta = p.eta
             /\ q.canceled = p.canceled /\ q.vetoed = p.vetoed /\ q.executed = p.executed
             /\ q.totalSupply = p.totalSupply /\ q.creationBlock = p.creationBlock
<1>1. r.support \in {0, 1, 2} /\ r.votes \in Nat
  BY DEF Receipt
<1> DEFINE counted(support) == IF r.support = support THEN r.votes ELSE 0
<1>2. counted(0) \in Nat /\ counted(1) \in Nat /\ counted(2) \in Nat
  BY <1>1
<1>3. Tallied(p, r) = [p EXCEPT !.againstVotes = @ + counted(0), !.forVotes = @ + counted(1),
                                !.abstainVotes = @ + counted(2), !.receipts = @ \cup {r}]
  BY DEF Tallied
<1> HIDE DEF counted
<1>4. p.receipts \cup {r} \in SUBSET Receipt
  BY DEF Proposal
<1>5. /\ p.againstVotes + counted(0) \in Nat /\ p.forVotes + counted(1) \in Nat
      /\ p.abstainVotes + counted(2) \in Nat
  BY <1>2 DEF Proposal
<1> DEFINE q == [p EXCEPT !.againstVotes = @ + counted(0), !.forVotes = @ + counted(1),
                          !.abstainVotes = @ + counted(2), !.receipts = @ \cup {r}]
<1>6. q \in Proposal
  BY <1>4, <1>5 DEF Proposal
<1>7. /\ q.receipts = p.receipts \cup {r} /\ q.againstVotes = p.againstVotes + counted(0)
      /\ q.forVotes = p.forVotes + counted(1) /\ q.abstainVotes = p.abstainVotes + counted(2)
  BY DEF Proposal
<1>8. /\ q.proposer = p.proposer /\ q.actions = p.actions
      /\ q.startBlock = p.startBlock /\ q.endBlock = p.endBlock /\ q.eta = p.eta
      /\ q.canceled = p.canceled /\ q.vetoed = p.vetoed /\ q.executed = p.executed
      /\ q.totalSupply = p.totalSupply /\ q.creationBlock = p.creationBlock
  BY DEF Proposal
<1>9. Tallied(p, r) = q
  BY <1>3
<1> HIDE DEF q
<1> QED  BY <1>6, <1>7, <1>8, <1>9 DEF counted

\* The terms of a proposal never change, and what happened to it stays.
Evolves(p, q) ==
  /\ q.proposer = p.proposer /\ q.actions = p.actions /\ q.totalSupply = p.totalSupply
  /\ q.startBlock = p.startBlock /\ q.endBlock = p.endBlock
  /\ q.creationBlock = p.creationBlock
  /\ p.canceled => q.canceled
  /\ p.vetoed => q.vetoed
  /\ p.executed => q.executed
  /\ p.eta # 0 \/ p.canceled \/ p.vetoed => q.eta = p.eta

\* A call edits a proposal without touching its terms.
LEMMA EditsEvolve ==
  ASSUME NEW p \in Proposal, NEW q, Edits(p, q)
  PROVE  Evolves(p, q)
<1>1. CASE Votes(p, q)
  <2>1. PICK r \in Receipt : q = Tallied(p, r)
    BY <1>1 DEF Votes
  <2> QED  BY <2>1, TalliedIsProposal DEF Evolves
<1>2. CASE GetsEta(p, q)
  BY <1>2 DEF GetsEta, Derived, StateAt, Evolves, Proposal
<1>3. CASE GetsExecuted(p, q)
  BY <1>3 DEF GetsExecuted, Evolves, Proposal
<1>4. CASE GetsCanceled(p, q)
  BY <1>4 DEF GetsCanceled, Evolves, Proposal
<1>5. CASE GetsVetoed(p, q)
  BY <1>5 DEF GetsVetoed, Evolves, Proposal
<1> QED  BY <1>1, <1>2, <1>3, <1>4, <1>5 DEF Edits

\* state as a function of the record, now and after a step.
LEMMA StateIs ==
  ASSUME NEW id
  PROVE  /\ state(id) = Derived(proposals[id])
         /\ state(id)' = StateAt(proposals'[id], blockNumber', quorumParamsCheckpoints')
<1>1. state(id) = Derived(proposals[id])
  BY DEF Derived, state, StateAt, Failed, VoteFailed, quorumVotes, timestamp
<1>2. state(id)' = StateAt(proposals'[id], blockNumber', quorumParamsCheckpoints')
  BY DEF state, StateAt, Failed, VoteFailed, quorumVotes, timestamp
<1> QED  BY <1>1, <1>2

\* What a guard on it learns.
LEMMA StateMeans ==
  ASSUME blockNumber \in Nat, NEW p \in Proposal
  PROVE  /\ Derived(p) \in {"Pending", "Active"} <=>
              /\ ~p.vetoed /\ ~p.canceled
              /\ blockNumber <= p.startBlock \/ blockNumber <= p.endBlock
         /\ Derived(p) = "Active" => p.startBlock < blockNumber
         /\ Derived(p) = "Succeeded" => p.eta = 0 /\ p.endBlock < blockNumber
         /\ Derived(p) = "Queued" => p.eta # 0 /\ ~p.executed
<1>1. p.startBlock \in Nat /\ p.endBlock \in Nat
  BY DEF Proposal
<1> QED  BY <1>1 DEF Derived, StateAt

\* A proposal's vote begins after the block that created it and ends after it began;
\* nobody votes before, it is queued only after, without repeating an action, and
\* executed no earlier than its eta.
Sound(p, now) ==
  /\ p.creationBlock <= now /\ p.creationBlock < p.startBlock /\ p.startBlock < p.endBlock
  /\ p.receipts # {} => p.startBlock < now
  /\ p.eta # 0 => /\ p.endBlock < now
                  /\ \A i, j \in DOMAIN p.actions : i # j => p.actions[i] # p.actions[j]
  /\ p.executed => p.eta # 0 /\ p.eta <= now

SoundInv == \A id \in DOMAIN proposals : Sound(proposals[id], blockNumber)

\* A rewrite of one proposal.
LEMMA RewriteMoves ==
  ASSUME TypeOK, NEW id \in ProposalIds, Exists(id), NEW q \in Proposal, Edits(proposals[id], q),
         proposals' = [proposals EXCEPT ![id] = q], UNCHANGED <<ledger, latestProposalIds>>
  PROVE  ProposalsMove
BY DEF ProposalsMove, Rewrites, Exists

\* A vote edits one proposal.
LEMMA CastVoteMoves ==
  ASSUME TypeOK, SoundInv, NEW v \in Voters, NEW id \in ProposalIds, NEW support \in Ballots,
         castVote(v, id, support)
  PROVE  ProposalsMove
<1> DEFINE p == proposals[id]
           r == [voter |-> v, support |-> support, votes |-> VotingPower(v, id)]
<1>1. /\ id \in DOMAIN proposals /\ p \in Proposal /\ Sound(p, blockNumber)
      /\ blockNumber \in Nat /\ Derived(p) = "Active"
  BY StateIs DEF castVote, Exists, TypeOK, LedgerTypeOK, SoundInv
<1>2. p.startBlock < blockNumber
  BY <1>1, StateMeans
<1>3. p.creationBlock \in 0 .. blockNumber - 1
  BY <1>1, <1>2, ProposalFields DEF Sound
<1>4. VotingPower(v, id) = past[p.creationBlock][v] /\ VotingPower(v, id) \in Nat
  BY <1>3 DEF VotingPower, getPriorVotes, TypeOK, LedgerTypeOK
<1>5. support \in 0 .. 2
  BY GovernorAssumption
<1>6. r \in Receipt /\ r.votes = past[p.creationBlock][r.voter] /\ r.voter = v
  BY <1>4, <1>5 DEF Receipt
<1>7. /\ proposals' = [proposals EXCEPT ![id] = Tallied(p, r)]
      /\ \A s \in p.receipts : s.voter # v
      /\ UNCHANGED <<ledger, latestProposalIds>>
  BY DEF castVote
<1> HIDE DEF r
<1>8. Votes(p, Tallied(p, r))
  BY <1>1, <1>6, <1>7 DEF Votes
<1>9. Tallied(p, r) \in Proposal
  BY <1>1, <1>6, TalliedIsProposal
<1> HIDE DEF p
<1> QED  BY <1>1, <1>7, <1>8, <1>9, RewriteMoves DEF Edits, p, Exists

\* Queueing edits one proposal.
LEMMA QueueMoves ==
  ASSUME TypeOK, NEW id \in ProposalIds, queue(id)
  PROVE  ProposalsMove
<1> DEFINE p == proposals[id]
           q == [p EXCEPT !.eta = Eta]
<1>1. /\ id \in DOMAIN proposals /\ p \in Proposal /\ blockNumber \in Nat
      /\ Derived(p) = "Succeeded"
  BY StateIs DEF queue, Exists, TypeOK, LedgerTypeOK
<1>2. Eta \in Nat
  BY <1>1, SettingsArePositive DEF Eta, timestamp, ConfigFields
<1>3. q \in Proposal /\ q.actions = p.actions
  BY <1>1, <1>2 DEF Proposal
<1>4. /\ \A i, j \in DOMAIN q.actions : i # j => q.actions[i] # q.actions[j]
      /\ proposals' = [proposals EXCEPT ![id] = q] /\ UNCHANGED <<ledger, latestProposalIds>>
  BY DEF queue
<1>5. GetsEta(p, q)
  BY <1>1, <1>3, <1>4 DEF GetsEta
<1> QED  BY <1>1, <1>3, <1>4, <1>5, RewriteMoves DEF Edits, Exists

\* The call to execute edits one proposal.
LEMMA BeginExecuteMoves ==
  ASSUME TypeOK, NEW id \in ProposalIds, BeginExecute(id)
  PROVE  ProposalsMove
<1> DEFINE p == proposals[id]
           q == [p EXCEPT !.executed = TRUE]
<1>1. /\ id \in DOMAIN proposals /\ p \in Proposal /\ blockNumber \in Nat
      /\ Derived(p) = "Queued" /\ p.eta <= blockNumber
  <2>1. /\ id \in DOMAIN proposals /\ p \in Proposal /\ blockNumber \in Nat
        /\ Derived(p) = "Queued" /\ executeTransaction(p, 1)
    BY StateIs DEF BeginExecute, Exists, TypeOK, LedgerTypeOK
  <2>2. blockNumber >= p.eta
    BY <2>1 DEF executeTransaction, timestamp
  <2> QED  BY <2>1, <2>2, ProposalFields
<1>2. q \in Proposal
  BY <1>1 DEF Proposal
<1>3. proposals' = [proposals EXCEPT ![id] = q] /\ UNCHANGED <<ledger, latestProposalIds>>
  BY <1>1 DEF BeginExecute
<1>4. GetsExecuted(p, q)
  BY <1>1 DEF GetsExecuted
<1> QED  BY <1>1, <1>2, <1>3, <1>4, RewriteMoves DEF Edits, Exists

\* Cancelling or vetoing edits one proposal.
LEMMA CancelMoves ==
  ASSUME TypeOK, NEW id \in ProposalIds, (\E v \in Voters : cancel(v, id)) \/ veto(id)
  PROVE  ProposalsMove
<1> DEFINE p == proposals[id]
           q == [p EXCEPT !.canceled = TRUE]
           w == [p EXCEPT !.vetoed = TRUE]
<1>1. /\ id \in DOMAIN proposals /\ p \in Proposal /\ UNCHANGED <<ledger, latestProposalIds>>
      /\ Derived(p) # "Executed"
  BY StateIs DEF cancel, veto, Exists, TypeOK
<1>2. q \in Proposal /\ w \in Proposal
  BY <1>1 DEF Proposal
<1>3. Edits(p, q) /\ Edits(p, w)
  BY <1>1 DEF Edits, GetsCanceled, GetsVetoed
<1>4. proposals' = [proposals EXCEPT ![id] = q] \/ proposals' = [proposals EXCEPT ![id] = w]
  BY DEF cancel, veto
<1> QED  BY <1>1, <1>2, <1>3, <1>4, RewriteMoves DEF Exists

\* A transaction sent by the timelock leaves the ledger and the proposals alone.
LEMMA ExecutionMoves ==
  ASSUME TypeOK, NEW p, NEW i, executeTransaction(p, i), UNCHANGED ledger
  PROVE  SettingsMove
<1> DEFINE action == p.actions[i]
<1>1. [action |-> action, eta |-> p.eta] \in queuedTransactions /\ Performs(action)
  BY DEF executeTransaction
<1>2. action \in Actions
  BY <1>1 DEF TypeOK
<1> QED  BY <1>1, <1>2 DEF Performs, SettingsMove

\* What a step may do to the proposals, the settings and the ledger.
LEMMA StepMoves ==
  ASSUME TypeOK, SoundInv, [Next]_vars
  PROVE  ProposalsMove /\ SettingsMove /\ LedgerMoves
<1>1. ASSUME NEW v \in Voters, NEW actions \in ActionLists, propose(v, actions)
      PROVE  ProposalsMove /\ SettingsMove /\ LedgerMoves
  <2>1. UNCHANGED <<ledger, settings>>
    BY <1>1 DEF propose
  <2> QED  BY <1>1, <2>1 DEF ProposalsMove, SettingsMove, LedgerMoves
<1>2. ASSUME NEW v \in Voters, NEW id \in ProposalIds, NEW support \in Ballots,
             castVote(v, id, support)
      PROVE  ProposalsMove /\ SettingsMove /\ LedgerMoves
  <2>1. UNCHANGED <<ledger, settings>>
    BY <1>2 DEF castVote
  <2> QED  BY <1>2, <2>1, CastVoteMoves DEF SettingsMove, LedgerMoves
<1>3. ASSUME NEW id \in ProposalIds, queue(id)
      PROVE  ProposalsMove /\ SettingsMove /\ LedgerMoves
  <2>1. UNCHANGED <<ledger, settings>>
    BY <1>3 DEF queue
  <2> QED  BY <1>3, <2>1, QueueMoves DEF SettingsMove, LedgerMoves
<1>4. ASSUME NEW id \in ProposalIds, BeginExecute(id)
      PROVE  ProposalsMove /\ SettingsMove /\ LedgerMoves
  <2>1. UNCHANGED ledger /\ executeTransaction(proposals[id], 1)
    BY <1>4 DEF BeginExecute
  <2> QED  BY <1>4, <2>1, BeginExecuteMoves, ExecutionMoves DEF LedgerMoves
<1>5. CASE ContinueExecute
  <2>1. /\ UNCHANGED <<ledger, proposals, latestProposalIds>>
        /\ executeTransaction(proposals[calls[1].id], calls[1].next)
    BY <1>5 DEF ContinueExecute
  <2> QED  BY <2>1, ExecutionMoves DEF LedgerMoves, ProposalsMove
<1>6. ASSUME NEW id \in ProposalIds, (\E v \in Voters : cancel(v, id)) \/ veto(id)
      PROVE  ProposalsMove /\ SettingsMove /\ LedgerMoves
  <2>1. UNCHANGED <<ledger, settings>>
    BY <1>6 DEF cancel, veto
  <2> QED  BY <1>6, <2>1, CancelMoves DEF SettingsMove, LedgerMoves
<1>7. CASE LedgerStep
  BY <1>7 DEF LedgerStep, LedgerMoves, SettingsMove, ProposalsMove
<1>8. CASE \/ EndExecute \/ (\E v \in Vetoers \cup {Zero} : _setPendingVetoer(v))
           \/ _acceptVetoer \/ _burnVetoPower \/ UNCHANGED vars
  <2>1. UNCHANGED <<ledger, settings, proposals, latestProposalIds>>
    BY <1>8 DEF EndExecute, _setPendingVetoer, _acceptVetoer, _burnVetoPower, ledger, settings,
                vars
  <2> QED  BY <2>1 DEF SettingsMove, LedgerMoves, ProposalsMove
<1> QED  BY <1>1, <1>2, <1>3, <1>4, <1>5, <1>6, <1>7, <1>8 DEF Next

-----------------------------------------------------------------------------
(* The settings: what setters write, and what they cannot change.          *)

\* There is a checkpoint of the parameters, none lies in the future (the setters' read
\* of this block therefore finds the one that was written last), and all of them are
\* within bounds.
SettingsInv ==
  /\ quorumParamsCheckpoints # <<>>
  /\ InTime(quorumParamsCheckpoints, blockNumber)
  /\ \A i \in 1 .. Len(quorumParamsCheckpoints) :
       InitialParamsAllowed(quorumParamsCheckpoints[i].params)

\* A setter that looks at one field keeps the parameters consistent, if they were.
LEMMA SetterKeepsConsistent ==
  ASSUME NEW old \in Params, InitialParamsAllowed(old), NEW field \in QuorumFields,
         NEW value \in Nat, SetterAllows(field, [old EXCEPT ![field] = value])
  PROVE  /\ [old EXCEPT ![field] = value] \in Params
         /\ InitialParamsAllowed([old EXCEPT ![field] = value])
<1> DEFINE new == [old EXCEPT ![field] = value]
<1>1. CASE field = "minQuorumVotesBPS"
  BY <1>1 DEF Params, InitialParamsAllowed, SetterAllows
<1>2. CASE field = "maxQuorumVotesBPS"
  BY <1>2 DEF Params, InitialParamsAllowed, SetterAllows
<1>3. CASE field = "quorumCoefficient"
  BY <1>3 DEF Params, InitialParamsAllowed, SetterAllows
<1> QED  BY <1>1, <1>2, <1>3 DEF QuorumFields

\* What a setter of the quorum writes.
LEMMA SetsQuorumWrites ==
  ASSUME TypeOK, SettingsInv, NEW action \in Actions, SetsQuorum(action)
  PROVE  \E params \in Params :
           /\ InitialParamsAllowed(params)
           /\ ParamsWritten(quorumParamsCheckpoints', quorumParamsCheckpoints, blockNumber, params)
<1> DEFINE cps == quorumParamsCheckpoints
           old == ParamsAt(cps, blockNumber)
           new == [old EXCEPT ![action.target] = action.value]
<1>1. /\ cps \in Seq(ParamsCheckpoint) /\ cps # <<>> /\ Len(cps) \in 1 .. Len(cps)
      /\ blockNumber \in Nat
  BY DEF TypeOK, LedgerTypeOK, SettingsInv
<1>2. cps[Len(cps)].fromBlock <= blockNumber
  BY <1>1 DEF SettingsInv, InTime
<1>3. old = cps[Len(cps)].params
  BY <1>1, <1>2 DEF ParamsAt
<1>4. old \in Params /\ InitialParamsAllowed(old)
  <2>1. cps[Len(cps)] \in ParamsCheckpoint
    BY <1>1
  <2>2. InitialParamsAllowed(cps[Len(cps)].params)
    BY <1>1 DEF SettingsInv
  <2> HIDE DEF old
  <2> QED  BY <1>3, <2>1, <2>2 DEF ParamsCheckpoint
<1>5. /\ action.target \in QuorumFields /\ SetterAllows(action.target, new)
      /\ cps' = WriteParams(cps, blockNumber, new)
  BY DEF SetsQuorum
<1>6. action.value \in Nat
  BY GovernorAssumption DEF Action
<1> HIDE DEF old
<1>7. new \in Params /\ InitialParamsAllowed(new)
  BY <1>4, <1>5, <1>6, SetterKeepsConsistent
<1> HIDE DEF new
<1>8. ParamsWritten(WriteParams(cps, blockNumber, new), cps, blockNumber, new)
  BY <1>1, <1>7, WriteParamsShape
<1> QED  BY <1>5, <1>7, <1>8

\* Setters keep the settings within what they accept, and the parameters of every
\* finished block as they were.
LEMMA SettingsKept ==
  ASSUME TypeOK, SettingsInv, SettingsMove, blockNumber' = blockNumber
  PROVE  /\ config' \in [ConfigFields -> Nat]
         /\ \A f \in ConfigFields : config'[f] \in Settable[f] \cup {InitConfig[f]}
         /\ quorumParamsCheckpoints' \in Seq(ParamsCheckpoint)
         /\ SettingsInv'
         /\ \A b \in Nat : b < blockNumber =>
              ParamsAt(quorumParamsCheckpoints', b) = ParamsAt(quorumParamsCheckpoints, b)
<1>1. CASE UNCHANGED settings
  <2>1. UNCHANGED <<config, quorumParamsCheckpoints>>
    BY <1>1 DEF settings
  <2> QED  BY <2>1 DEF TypeOK, SettingsInv
<1>2. ASSUME NEW action \in Actions, SetsConfig(action)
      PROVE  /\ config' \in [ConfigFields -> Nat]
             /\ \A f \in ConfigFields : config'[f] \in Settable[f] \cup {InitConfig[f]}
             /\ UNCHANGED quorumParamsCheckpoints
  <2>1. /\ action.target \in ConfigFields /\ action.value \in Settable[action.target]
        /\ config' = [config EXCEPT ![action.target] = action.value]
        /\ UNCHANGED quorumParamsCheckpoints
    BY <1>2 DEF SetsConfig
  <2>2. action.value \in Nat
    BY GovernorAssumption DEF Action
  <2> QED  BY <2>1, <2>2 DEF TypeOK
<1>3. ASSUME NEW action \in Actions, SetsQuorum(action)
      PROVE  /\ UNCHANGED config
             /\ quorumParamsCheckpoints' \in Seq(ParamsCheckpoint)
             /\ SettingsInv'
             /\ \A b \in Nat : b < blockNumber =>
                  ParamsAt(quorumParamsCheckpoints', b) = ParamsAt(quorumParamsCheckpoints, b)
  <2> DEFINE cps == quorumParamsCheckpoints
  <2>1. PICK params \in Params : /\ InitialParamsAllowed(params)
                                 /\ ParamsWritten(cps', cps, blockNumber, params)
    BY <1>3, SetsQuorumWrites
  <2>2. /\ InTime(cps', blockNumber)
        /\ \A b \in Nat : b < blockNumber => ParamsAt(cps', b) = ParamsAt(cps, b)
    BY <2>1, WriteParamsKeepsPast DEF TypeOK, LedgerTypeOK, SettingsInv
  <2>3. cps' \in Seq(ParamsCheckpoint) /\ Len(cps') \in 1 .. Len(cps')
    BY <2>1 DEF ParamsWritten
  <2>4. ASSUME NEW i \in 1 .. Len(cps')
        PROVE  InitialParamsAllowed(cps'[i].params)
    <3>1. CASE i = Len(cps')
      BY <2>1, <3>1 DEF ParamsWritten
    <3>2. CASE i # Len(cps')
      BY <2>1, <3>2 DEF ParamsWritten, SettingsInv
    <3> QED  BY <3>1, <3>2
  <2>5. cps' # <<>>
    BY <2>3
  <2>6. UNCHANGED config
    BY <1>3 DEF SetsQuorum
  <2> QED  BY <2>2, <2>3, <2>4, <2>5, <2>6 DEF SettingsInv
<1>4. ASSUME UNCHANGED quorumParamsCheckpoints
      PROVE  SettingsInv' /\ quorumParamsCheckpoints' \in Seq(ParamsCheckpoint)
  BY <1>4 DEF SettingsInv, TypeOK
<1>5. UNCHANGED config => /\ config' \in [ConfigFields -> Nat]
                          /\ \A f \in ConfigFields : config'[f] \in Settable[f] \cup {InitConfig[f]}
  BY DEF TypeOK
<1> QED  BY <1>1, <1>2, <1>3, <1>4, <1>5 DEF SettingsMove

-----------------------------------------------------------------------------
(* The proposals: what is appended, and how the others evolve.             *)

\* The supply is a number of nouns.
LEMMA SupplyIsNat ==
  ASSUME TypeOK
  PROVE  totalSupply \in Nat
<1>1. votes \in [Voters -> Nat]
  BY DEF TypeOK, LedgerTypeOK
<1>2. SumFunctionOnSet(votes, Voters) \in Nat
  BY <1>1, SumRemove, GovernorAssumption
<1> QED  BY <1>1, <1>2 DEF totalSupply, SumFunction

\* What propose appends.
LEMMA ProposeAppends ==
  ASSUME TypeOK, NEW v \in Voters, NEW actions \in ActionLists, propose(v, actions)
  PROVE  LET n == Len(proposals) + 1
             q == proposals'[n]
         IN  /\ q \in Proposal /\ Sound(q, blockNumber) /\ q.proposer = v /\ q.eta = 0
             /\ ~q.canceled /\ ~q.vetoed /\ ~q.executed /\ q.receipts = {}
             /\ q.forVotes = 0 /\ q.againstVotes = 0 /\ q.abstainVotes = 0
             /\ q.creationBlock = blockNumber
             /\ proposals' \in Seq(Proposal) /\ n \in ProposalIds
             /\ DOMAIN proposals = 1 .. Len(proposals) /\ DOMAIN proposals' = 1 .. n
             /\ \A id \in DOMAIN proposals : proposals'[id] = proposals[id]
<1> DEFINE start == blockNumber + config["votingDelay"]
           q == [proposer |-> v, actions |-> actions,
                 proposalThreshold |-> config["proposalThreshold"],
                 startBlock |-> start, endBlock |-> start + config["votingPeriod"],
                 eta |-> 0, forVotes |-> 0, againstVotes |-> 0, abstainVotes |-> 0,
                 canceled |-> FALSE, vetoed |-> FALSE, executed |-> FALSE, receipts |-> {},
                 totalSupply |-> totalSupply, creationBlock |-> blockNumber]
<1>1. /\ proposals \in Seq(Proposal) /\ blockNumber \in Nat /\ Len(proposals) < MaxProposals
      /\ proposals' = Append(proposals, q)
  BY DEF TypeOK, LedgerTypeOK, propose
<1>2. /\ config["votingDelay"] \in Nat \ {0} /\ config["votingPeriod"] \in Nat \ {0}
      /\ config["proposalThreshold"] \in Nat
  BY SettingsArePositive DEF ConfigFields
<1>3. start \in Nat /\ start + config["votingPeriod"] \in Nat
  BY <1>1, <1>2
<1>4. totalSupply \in Nat
  BY SupplyIsNat
<1>5. q \in Proposal
  BY <1>1, <1>2, <1>3, <1>4 DEF Proposal
<1>6. Sound(q, blockNumber)
  BY <1>1, <1>2 DEF Sound
<1>7. /\ q.proposer = v /\ q.eta = 0
      /\ ~q.canceled /\ ~q.vetoed /\ ~q.executed /\ q.receipts = {}
      /\ q.forVotes = 0 /\ q.againstVotes = 0 /\ q.abstainVotes = 0
      /\ q.creationBlock = blockNumber
  OBVIOUS
<1> HIDE DEF q
<1>8. /\ proposals' \in Seq(Proposal) /\ proposals'[Len(proposals) + 1] = q
      /\ DOMAIN proposals = 1 .. Len(proposals) /\ DOMAIN proposals' = 1 .. Len(proposals) + 1
      /\ \A id \in DOMAIN proposals : proposals'[id] = proposals[id]
  BY <1>1, <1>5
<1>9. Len(proposals) + 1 \in ProposalIds
  BY <1>1, GovernorAssumption DEF ProposalIds
<1> QED  BY <1>5, <1>6, <1>7, <1>8, <1>9

\* What a rewrite leaves of the others.
LEMMA RewriteOne ==
  ASSUME TypeOK, NEW id \in ProposalIds, NEW q \in Proposal, Rewrites(id, q)
  PROVE  /\ proposals' \in Seq(Proposal) /\ Len(proposals') = Len(proposals)
         /\ DOMAIN proposals' = DOMAIN proposals
         /\ proposals[id] \in Proposal /\ Evolves(proposals[id], q)
         /\ \A i \in DOMAIN proposals : proposals'[i] = IF i = id THEN q ELSE proposals[i]
<1>1. /\ proposals \in Seq(Proposal) /\ id \in DOMAIN proposals
      /\ proposals' = [proposals EXCEPT ![id] = q]
  BY DEF TypeOK, Rewrites
<1>2. proposals[id] \in Proposal
  BY <1>1
<1>3. Evolves(proposals[id], q)
  BY <1>2, EditsEvolve DEF Rewrites
<1> QED  BY <1>1, <1>2, <1>3

\* In every step the proposals that exist evolve.
LEMMA ProposalsEvolve ==
  ASSUME TypeOK, ProposalsMove
  PROVE  /\ proposals' \in Seq(Proposal) /\ Len(proposals') <= MaxProposals
         /\ \A id \in DOMAIN proposals :
              /\ id \in DOMAIN proposals' /\ proposals[id] \in Proposal
              /\ Evolves(proposals[id], proposals'[id])
<1>1. proposals \in Seq(Proposal) /\ Len(proposals) <= MaxProposals
  BY DEF TypeOK
<1>2. \A id \in DOMAIN proposals : /\ proposals[id] \in Proposal
                                   /\ Evolves(proposals[id], proposals[id])
  BY <1>1 DEF Evolves
<1>3. CASE UNCHANGED <<proposals, latestProposalIds>>
  BY <1>1, <1>2, <1>3
<1>4. ASSUME NEW v \in Voters, NEW actions \in ActionLists, propose(v, actions)
      PROVE  /\ proposals' \in Seq(Proposal) /\ Len(proposals') <= MaxProposals
             /\ \A id \in DOMAIN proposals :
                  /\ id \in DOMAIN proposals' /\ proposals[id] \in Proposal
                  /\ Evolves(proposals[id], proposals'[id])
  <2>1. /\ proposals' \in Seq(Proposal) /\ Len(proposals) + 1 \in ProposalIds
        /\ DOMAIN proposals = 1 .. Len(proposals)
        /\ DOMAIN proposals' = 1 .. Len(proposals) + 1
        /\ \A id \in DOMAIN proposals : proposals'[id] = proposals[id]
    BY <1>4, ProposeAppends
  <2>2. Len(proposals') = Len(proposals) + 1
    BY <1>1, <2>1
  <2> QED  BY <1>1, <1>2, <2>1, <2>2 DEF ProposalIds
<1>5. ASSUME NEW id \in ProposalIds, NEW q \in Proposal, Rewrites(id, q)
      PROVE  /\ proposals' \in Seq(Proposal) /\ Len(proposals') <= MaxProposals
             /\ \A i \in DOMAIN proposals :
                  /\ i \in DOMAIN proposals' /\ proposals[i] \in Proposal
                  /\ Evolves(proposals[i], proposals'[i])
  BY <1>1, <1>2, <1>5, RewriteOne
<1> QED  BY <1>3, <1>4, <1>5 DEF ProposalsMove

\* An edit keeps a proposal sound, and so does time.
LEMMA SoundSurvives ==
  ASSUME TypeOK, NEW p \in Proposal, NEW q, Edits(p, q) \/ q = p, Sound(p, blockNumber),
         NEW now \in Nat, now >= blockNumber
  PROVE  Sound(q, now)
<1>1. blockNumber \in Nat /\ config["delay"] \in Nat
  BY SettingsArePositive DEF TypeOK, LedgerTypeOK, ConfigFields
<1>2. /\ p.startBlock \in Nat /\ p.endBlock \in Nat /\ p.creationBlock \in Nat /\ p.eta \in Nat
  BY ProposalFields
<1>3. Sound(p, now)
  BY <1>1, <1>2 DEF Sound
<1>4. ASSUME q.receipts = p.receipts, Evolves(p, q), q.eta = p.eta, q.executed = p.executed
      PROVE  Sound(q, now)
  BY <1>3, <1>4 DEF Sound, Evolves
<1>5. CASE Votes(p, q)
  <2>1. PICK r \in Receipt : p.startBlock < blockNumber /\ q = Tallied(p, r)
    BY <1>1, <1>5, StateMeans DEF Votes
  <2>2. Evolves(p, q) /\ q.eta = p.eta /\ q.executed = p.executed
    BY <1>5, <2>1, TalliedIsProposal, EditsEvolve DEF Edits
  <2>3. p.startBlock < now
    BY <1>1, <1>2, <2>1
  <2> QED  BY <1>3, <2>2, <2>3 DEF Sound, Evolves
<1>6. CASE GetsEta(p, q)
  <2>1. /\ Evolves(p, q) /\ q.eta = blockNumber + config["delay"]
        /\ q.receipts = p.receipts /\ q.executed = p.executed
    BY <1>6, EditsEvolve DEF Edits, GetsEta, Eta, timestamp, Proposal
  <2>2. /\ p.endBlock < blockNumber /\ p.eta = 0
        /\ \A i, j \in DOMAIN p.actions : i # j => p.actions[i] # p.actions[j]
    BY <1>1, <1>6, StateMeans DEF GetsEta
  <2>3. p.endBlock < now /\ q.eta > p.endBlock + config["delay"]
    BY <1>1, <1>2, <2>1, <2>2
  <2>4. ~p.executed
    BY <1>3, <2>2 DEF Sound
  <2> QED  BY <1>1, <1>3, <2>1, <2>2, <2>3, <2>4 DEF Sound, Evolves
<1>7. CASE GetsExecuted(p, q)
  <2>1. /\ Evolves(p, q) /\ q.eta = p.eta /\ q.receipts = p.receipts
        /\ p.eta # 0 /\ p.eta <= blockNumber
    BY <1>1, <1>7, StateMeans, EditsEvolve DEF Edits, GetsExecuted, Proposal
  <2>2. p.eta <= now
    BY <1>1, <1>2, <2>1
  <2> QED  BY <1>3, <2>1, <2>2 DEF Sound, Evolves
<1>8. CASE GetsCanceled(p, q)
  BY <1>4, <1>8, EditsEvolve DEF Edits, GetsCanceled, Proposal
<1>9. CASE GetsVetoed(p, q)
  BY <1>4, <1>9, EditsEvolve DEF Edits, GetsVetoed, Proposal
<1> QED  BY <1>3, <1>5, <1>6, <1>7, <1>8, <1>9 DEF Edits

\* Proposals stay sound while time passes and calls edit them.
LEMMA SoundInvSurvives ==
  ASSUME TypeOK, SoundInv, ProposalsMove, blockNumber' \in Nat, blockNumber' >= blockNumber,
         blockNumber' = blockNumber \/ UNCHANGED proposals
  PROVE  SoundInv'
<1>1. ASSUME NEW id \in DOMAIN proposals
      PROVE  proposals[id] \in Proposal /\ Sound(proposals[id], blockNumber')
  <2>1. proposals[id] \in Proposal /\ Sound(proposals[id], blockNumber)
    BY DEF TypeOK, SoundInv
  <2> QED  BY <2>1, SoundSurvives
<1>2. CASE UNCHANGED proposals
  BY <1>1, <1>2 DEF SoundInv
<1>3. ASSUME NEW v \in Voters, NEW actions \in ActionLists, propose(v, actions)
      PROVE  SoundInv'
  <2>1. blockNumber' = blockNumber
    BY <1>3 DEF propose, ledger
  <2>2. /\ Sound(proposals'[Len(proposals) + 1], blockNumber)
        /\ DOMAIN proposals = 1 .. Len(proposals) /\ DOMAIN proposals' = 1 .. Len(proposals) + 1
        /\ \A id \in DOMAIN proposals : proposals'[id] = proposals[id]
    BY <1>3, ProposeAppends
  <2>3. Len(proposals) \in Nat
    BY DEF TypeOK
  <2>4. \A id \in DOMAIN proposals' : id \in DOMAIN proposals \/ id = Len(proposals) + 1
    BY <2>2, <2>3
  <2> QED  BY <1>1, <2>1, <2>2, <2>4 DEF SoundInv
<1>4. ASSUME NEW id \in ProposalIds, NEW q \in Proposal, Rewrites(id, q)
      PROVE  SoundInv'
  <2>1. /\ DOMAIN proposals' = DOMAIN proposals /\ id \in DOMAIN proposals
        /\ \A i \in DOMAIN proposals : proposals'[i] = IF i = id THEN q ELSE proposals[i]
        /\ proposals[id] \in Proposal /\ Edits(proposals[id], q)
        /\ Sound(proposals[id], blockNumber)
    BY <1>4, RewriteOne DEF Rewrites, SoundInv
  <2>2. Sound(q, blockNumber')
    BY <2>1, SoundSurvives
  <2> QED  BY <1>1, <2>1, <2>2 DEF SoundInv
<1> QED  BY <1>2, <1>3, <1>4 DEF ProposalsMove

-----------------------------------------------------------------------------
(* Types.                                                                  *)

\* What the actions do to the timelock's flags and to the stack of executions.
QueueTypeOK ==
  /\ queuedTransactions \subseteq [action : Actions, eta : Nat]
  /\ calls \in Seq([id : ProposalIds, next : Nat])

\* Every step keeps the types of the timelock's queue.
LEMMA QueueTypes ==
  ASSUME TypeOK, [Next]_vars
  PROVE  QueueTypeOK'
<1> DEFINE Tx == [action : Actions, eta : Nat]
           Call == [id : ProposalIds, next : Nat]
<1>1. queuedTransactions \subseteq Tx /\ calls \in Seq(Call) /\ proposals \in Seq(Proposal)
  BY DEF TypeOK
<1>2. ASSUME queuedTransactions' \subseteq queuedTransactions, UNCHANGED calls
      PROVE  QueueTypeOK'
  BY <1>1, <1>2 DEF QueueTypeOK
<1>3. ASSUME NEW v \in Voters, NEW actions \in ActionLists, propose(v, actions)
      PROVE  QueueTypeOK'
  BY <1>2, <1>3 DEF propose
<1>4. ASSUME NEW v \in Voters, NEW id \in ProposalIds, NEW support \in Ballots,
             castVote(v, id, support)
      PROVE  QueueTypeOK'
  BY <1>2, <1>4 DEF castVote
<1>5. ASSUME NEW id \in ProposalIds, queue(id)
      PROVE  QueueTypeOK'
  <2> DEFINE q == [proposals[id] EXCEPT !.eta = Eta]
  <2>1. /\ UNCHANGED calls /\ id \in DOMAIN proposals
        /\ queuedTransactions' = queuedTransactions \cup Transactions(q)
    BY <1>5 DEF queue, Exists
  <2>2. proposals[id] \in Proposal
    BY <1>1, <2>1
  <2>3. Eta \in Nat
    BY SettingsArePositive DEF Eta, timestamp, ConfigFields, TypeOK, LedgerTypeOK
  <2>4. q.actions = proposals[id].actions /\ q.eta = Eta
    BY <2>2 DEF Proposal
  <2>5. q.actions \in Seq(Actions) /\ q.eta \in Nat
    BY <2>2, <2>3, <2>4, ProposalFields, GovernorAssumption
  <2> HIDE DEF q
  <2>6. Transactions(q) \subseteq Tx
    BY <2>5 DEF Transactions
  <2> QED  BY <1>1, <2>1, <2>6 DEF QueueTypeOK
<1>6. ASSUME NEW id \in ProposalIds, BeginExecute(id)
      PROVE  QueueTypeOK'
  <2>1. calls' = <<[id |-> id, next |-> 2]>> \o calls
        /\ queuedTransactions' \subseteq queuedTransactions
    BY <1>6 DEF BeginExecute, executeTransaction
  <2>2. [id |-> id, next |-> 2] \in Call
    OBVIOUS
  <2> HIDE DEF Call
  <2>3. calls' \in Seq(Call)
    BY <1>1, <2>1, <2>2
  <2> QED  BY <1>1, <2>1, <2>3 DEF QueueTypeOK, Call
<1>7. CASE ContinueExecute
  <2>1. /\ calls # <<>> /\ calls' = [calls EXCEPT ![1].next = @ + 1]
        /\ queuedTransactions' \subseteq queuedTransactions
    BY <1>7 DEF ContinueExecute, executeTransaction
  <2>2. 1 \in DOMAIN calls /\ calls[1] \in Call
    <3> HIDE DEF Call
    <3> QED  BY <1>1, <2>1
  <2>3. [calls[1] EXCEPT !.next = @ + 1] \in Call
    BY <2>2
  <2>4. calls' = [calls EXCEPT ![1] = [calls[1] EXCEPT !.next = @ + 1]]
    BY <2>1
  <2>5. calls' \in Seq(Call)
    BY <1>1, <2>2, <2>3, <2>4
  <2> QED  BY <1>1, <2>1, <2>5 DEF QueueTypeOK
<1>8. CASE EndExecute
  <2>1. UNCHANGED queuedTransactions /\ calls # <<>> /\ calls' = Tail(calls)
    BY <1>8 DEF EndExecute
  <2>2. Tail(calls) \in Seq(Call)
    <3> HIDE DEF Call
    <3> QED  BY <1>1, <2>1
  <2> QED  BY <1>1, <2>1, <2>2 DEF QueueTypeOK
<1>9. ASSUME NEW id \in ProposalIds, (\E v \in Voters : cancel(v, id)) \/ veto(id)
      PROVE  QueueTypeOK'
  BY <1>2, <1>9 DEF cancel, veto, cancelTransactions
<1>10. CASE \/ LedgerStep \/ (\E v \in Vetoers \cup {Zero} : _setPendingVetoer(v))
            \/ _acceptVetoer \/ _burnVetoPower \/ UNCHANGED vars
  BY <1>2, <1>10 DEF LedgerStep, _setPendingVetoer, _acceptVetoer, _burnVetoPower, vars
<1> QED  BY <1>3, <1>4, <1>5, <1>6, <1>7, <1>8, <1>9, <1>10 DEF Next

\* The veto power stays with accounts that can hold it.
LEMMA VetoerTypes ==
  ASSUME TypeOK, [Next]_vars
  PROVE  {vetoer, pendingVetoer}' \subseteq Vetoers \cup {InitVetoer, Zero}
<1>1. /\ vetoer \in Vetoers \cup {InitVetoer, Zero}
      /\ pendingVetoer \in Vetoers \cup {InitVetoer, Zero}
  BY DEF TypeOK
<1>2. ASSUME UNCHANGED veto_power
      PROVE  {vetoer, pendingVetoer}' \subseteq Vetoers \cup {InitVetoer, Zero}
  BY <1>1, <1>2 DEF veto_power
<1>3. ASSUME NEW v \in Vetoers \cup {Zero}, _setPendingVetoer(v)
      PROVE  {vetoer, pendingVetoer}' \subseteq Vetoers \cup {InitVetoer, Zero}
  BY <1>1, <1>3 DEF _setPendingVetoer
<1>4. CASE _acceptVetoer \/ _burnVetoPower
  BY <1>1, <1>4 DEF _acceptVetoer, _burnVetoPower
<1>5. CASE \/ \E v \in Voters, actions \in ActionLists : propose(v, actions)
           \/ \E v \in Voters, id \in ProposalIds, support \in Ballots : castVote(v, id, support)
           \/ \E id \in ProposalIds : queue(id) \/ BeginExecute(id) \/ veto(id)
           \/ \E v \in Voters, id \in ProposalIds : cancel(v, id)
           \/ ContinueExecute \/ EndExecute \/ LedgerStep \/ UNCHANGED vars
  <2>1. UNCHANGED veto_power
    BY <1>5 DEF propose, castVote, queue, BeginExecute, veto, cancel, ContinueExecute,
                EndExecute, LedgerStep, vars, veto_power
  <2> QED  BY <1>2, <2>1
<1> QED  BY <1>3, <1>4, <1>5 DEF Next

\* The past is kept, and only the end of a block, which does nothing else, adds to it.
LEMMA LedgerKept ==
  ASSUME TypeOK, LedgerMoves
  PROVE  /\ LedgerTypeOK' /\ blockNumber' \in Nat /\ blockNumber' >= blockNumber
         /\ \/ blockNumber' = blockNumber
            \/ /\ blockNumber' = blockNumber + 1
               /\ UNCHANGED <<proposals, latestProposalIds, settings, queuedTransactions, calls>>
         /\ \A b \in 0 .. blockNumber - 1 : past'[b] = past[b]
<1>1. /\ votes \in [Voters -> Nat] /\ blockNumber \in Nat \ {0}
      /\ past \in [0 .. blockNumber - 1 -> [Voters -> Nat]]
  BY DEF TypeOK, LedgerTypeOK
<1>2. CASE UNCHANGED ledger
  BY <1>1, <1>2 DEF ledger, LedgerTypeOK
<1>3. CASE VotesChange
  <2>1. votes' \in [Voters -> Nat]
    BY <1>3, LedgerAssumption DEF VotesChange
  <2> QED  BY <1>1, <1>3, <2>1 DEF VotesChange, LedgerTypeOK
<1>4. CASE /\ BlockEnds
           /\ UNCHANGED <<proposals, latestProposalIds, settings, queuedTransactions, calls>>
  <2>1. /\ past' = [b \in 0 .. blockNumber |-> IF b = blockNumber THEN votes ELSE past[b]]
        /\ blockNumber' = blockNumber + 1 /\ votes' = votes
    BY <1>4 DEF BlockEnds
  <2>2. past' \in [0 .. blockNumber -> [Voters -> Nat]]
    BY <1>1, <2>1
  <2>3. blockNumber' - 1 = blockNumber
    BY <1>1, <2>1
  <2>4. \A b \in 0 .. blockNumber - 1 : past'[b] = past[b]
    BY <1>1, <2>1
  <2>5. LedgerTypeOK'
    BY <1>1, <2>1, <2>2, <2>3 DEF LedgerTypeOK
  <2> QED  BY <1>1, <1>4, <2>1, <2>4, <2>5
<1> QED  BY <1>2, <1>3, <1>4 DEF LedgerMoves

CoreInv == TypeOK /\ SettingsInv /\ SoundInv

\* The governor starts in the invariant.
LEMMA CoreInit == Init => CoreInv
<1> SUFFICES ASSUME Init
             PROVE  CoreInv
  OBVIOUS
<1> DEFINE cp == [fromBlock |-> 1, params |-> InitParams]
<1>1. LedgerTypeOK /\ blockNumber = 1
  <2>1. votes \in [Voters -> Nat] /\ blockNumber = 1 /\ past = [b \in {0} |-> votes]
    BY LedgerAssumption DEF Init, LedgerInit
  <2>2. 0 .. 1 - 1 = {0}
    OBVIOUS
  <2> QED  BY <2>1, <2>2 DEF LedgerTypeOK
<1>2. proposals = <<>> /\ proposals \in Seq(Proposal) /\ Len(proposals) = 0 /\ DOMAIN proposals = {}
  BY DEF Init
<1>3. 0 <= MaxProposals /\ latestProposalIds \in [Voters -> 0 .. MaxProposals]
  BY GovernorAssumption DEF Init
<1>4. /\ config \in [ConfigFields -> Nat]
      /\ \A f \in ConfigFields : config[f] \in Settable[f] \cup {InitConfig[f]}
  BY GovernorAssumption DEF Init
<1>5. cp \in ParamsCheckpoint
  BY GovernorAssumption DEF ParamsCheckpoint
<1>6. cp.fromBlock = 1 /\ InitialParamsAllowed(cp.params)
  BY GovernorAssumption
<1> HIDE DEF cp
<1>7. /\ quorumParamsCheckpoints \in Seq(ParamsCheckpoint) /\ quorumParamsCheckpoints # <<>>
      /\ Len(quorumParamsCheckpoints) = 1 /\ quorumParamsCheckpoints[1] = cp
  BY <1>5 DEF Init, cp
<1>8. SettingsInv
  BY <1>1, <1>6, <1>7 DEF SettingsInv, InTime, Increasing
<1>9. {vetoer, pendingVetoer} \subseteq Vetoers \cup {InitVetoer, Zero}
  BY DEF Init
<1>10. /\ queuedTransactions \subseteq [action : Actions, eta : Nat]
       /\ calls \in Seq([id : ProposalIds, next : Nat])
  BY DEF Init
<1>11. TypeOK
  BY <1>1, <1>2, <1>3, <1>4, <1>7, <1>9, <1>10 DEF TypeOK
<1> QED  BY <1>2, <1>8, <1>11 DEF CoreInv, SoundInv

\* Every step keeps the invariant, and the past of the quorum parameters.
LEMMA CoreStep ==
  ASSUME CoreInv, [Next]_vars
  PROVE  /\ CoreInv' /\ ProposalsMove /\ SettingsMove /\ LedgerMoves
         /\ \A b \in Nat : b < blockNumber =>
              ParamsAt(quorumParamsCheckpoints', b) = ParamsAt(quorumParamsCheckpoints, b)
<1> USE DEF CoreInv
<1>1. ProposalsMove /\ SettingsMove /\ LedgerMoves
  BY StepMoves
<1>2. /\ LedgerTypeOK' /\ blockNumber' \in Nat /\ blockNumber' >= blockNumber
      /\ \/ blockNumber' = blockNumber
         \/ /\ blockNumber' = blockNumber + 1
            /\ UNCHANGED <<proposals, latestProposalIds, settings, queuedTransactions, calls>>
  BY <1>1, LedgerKept
<1>3. SoundInv'
  BY <1>1, <1>2, SoundInvSurvives
<1>4. /\ config' \in [ConfigFields -> Nat]
      /\ \A f \in ConfigFields : config'[f] \in Settable[f] \cup {InitConfig[f]}
      /\ quorumParamsCheckpoints' \in Seq(ParamsCheckpoint)
      /\ SettingsInv'
      /\ \A b \in Nat : b < blockNumber =>
           ParamsAt(quorumParamsCheckpoints', b) = ParamsAt(quorumParamsCheckpoints, b)
  <2>1. CASE blockNumber' = blockNumber
    BY <1>1, <2>1, SettingsKept
  <2>2. CASE blockNumber' = blockNumber + 1 /\ UNCHANGED settings
    <3>1. UNCHANGED <<config, quorumParamsCheckpoints>> /\ blockNumber \in Nat
      BY <2>2 DEF settings, TypeOK, LedgerTypeOK
    <3>2. SettingsInv'
      <4>1. ASSUME NEW i \in 1 .. Len(quorumParamsCheckpoints)
            PROVE  quorumParamsCheckpoints[i].fromBlock <= blockNumber + 1
        <5>1. /\ quorumParamsCheckpoints[i].fromBlock \in Nat
              /\ quorumParamsCheckpoints[i].fromBlock <= blockNumber
          BY DEF SettingsInv, InTime, Increasing
        <5> QED  BY <3>1, <5>1
      <4> QED  BY <2>2, <3>1, <4>1 DEF SettingsInv, InTime
    <3> QED  BY <3>1, <3>2 DEF TypeOK
  <2> QED  BY <1>2, <2>1, <2>2
<1>5. proposals' \in Seq(Proposal) /\ Len(proposals') <= MaxProposals
  BY <1>1, ProposalsEvolve
<1>6. latestProposalIds' \in [Voters -> 0 .. MaxProposals]
  <2>1. CASE UNCHANGED latestProposalIds
    BY <2>1 DEF TypeOK
  <2>2. ASSUME NEW v \in Voters, NEW actions \in ActionLists, propose(v, actions)
        PROVE  latestProposalIds' \in [Voters -> 0 .. MaxProposals]
    <3>1. /\ latestProposalIds' = [latestProposalIds EXCEPT ![v] = Len(proposals) + 1]
          /\ Len(proposals) < MaxProposals
      BY <2>2 DEF propose
    <3>2. Len(proposals) + 1 \in 0 .. MaxProposals
      BY <3>1, GovernorAssumption DEF TypeOK
    <3> QED  BY <3>1, <3>2 DEF TypeOK
  <2> QED  BY <1>1, <2>1, <2>2 DEF ProposalsMove, Rewrites
<1>7. QueueTypeOK'
  BY QueueTypes
<1>8. {vetoer, pendingVetoer}' \subseteq Vetoers \cup {InitVetoer, Zero}
  BY VetoerTypes
<1>9. TypeOK'
  BY <1>2, <1>4, <1>5, <1>6, <1>7, <1>8 DEF TypeOK, QueueTypeOK
<1> QED  BY <1>1, <1>3, <1>4, <1>9

\* The invariant of the governor.
LEMMA CoreInvariant == Spec => []CoreInv
<1>1. CoreInv /\ [Next]_vars => CoreInv'
  BY CoreStep
<1> QED  BY <1>1, CoreInit, PTL DEF Spec

\* Every variable keeps its type; in particular the tallies stay natural numbers and
\* the settings within what their setters accept, from inside an execution too.
THEOREM GovernorTypeCorrect == Spec => []TypeOK
BY CoreInvariant, PTL DEF CoreInv

-----------------------------------------------------------------------------
(* What follows for proposals and their quorum.                            *)

\* Whatever proposals set, whoever calls back from an execution: once the block of
\* its creation is over, the quorum a proposal is held to, the end of its vote and
\* what it will do never change.
THEOREM TermsStayFrozen == Spec => TermsAreFrozen
<1>1. ASSUME CoreInv, [Next]_vars
      PROVE  \A id \in DOMAIN proposals :
               LET p == proposals[id]
                   q == proposals'[id]
               IN  blockNumber > p.creationBlock =>
                     /\ ParamsAt(quorumParamsCheckpoints', p.creationBlock)
                          = ParamsAt(quorumParamsCheckpoints, p.creationBlock)
                     /\ q.endBlock = p.endBlock /\ q.actions = p.actions
                     /\ q.totalSupply = p.totalSupply
  <2> TAKE id \in DOMAIN proposals
  <2>1. proposals[id] \in Proposal /\ Evolves(proposals[id], proposals'[id])
    BY <1>1, CoreStep, ProposalsEvolve DEF CoreInv
  <2>2. proposals[id].creationBlock \in Nat
    BY <2>1, ProposalFields
  <2>3. blockNumber > proposals[id].creationBlock =>
          ParamsAt(quorumParamsCheckpoints', proposals[id].creationBlock)
            = ParamsAt(quorumParamsCheckpoints, proposals[id].creationBlock)
    BY <1>1, <2>2, CoreStep DEF CoreInv, TypeOK, LedgerTypeOK
  <2> QED  BY <2>1, <2>3 DEF Evolves
<1>2. CoreInv /\ [Next]_vars =>
        [\A id \in DOMAIN proposals :
           LET p == proposals[id]
               q == proposals'[id]
           IN  blockNumber > p.creationBlock =>
                 /\ ParamsAt(quorumParamsCheckpoints', p.creationBlock)
                      = ParamsAt(quorumParamsCheckpoints, p.creationBlock)
                 /\ q.endBlock = p.endBlock /\ q.actions = p.actions
                 /\ q.totalSupply = p.totalSupply]_vars
  BY <1>1
<1> QED  BY <1>2, CoreInvariant, PTL DEF Spec, TermsAreFrozen

\* A queued proposal has the eta of the moment it was queued at, after its vote.
Noticed(p, when) ==
  p.eta # 0 => p.endBlock < when.time /\ p.eta = when.time + when.delay

NoticeInv ==
  /\ queuedAt \in [ProposalIds -> [time : Nat, delay : Nat]]
  /\ \A id \in DOMAIN proposals : Noticed(proposals[id], queuedAt[id])

\* A step of the governor gives an eta by queueing, with the delay in force, or not at
\* all.
LEMMA EtaIsGiven ==
  ASSUME CoreInv, ProposalsMove, NEW id \in DOMAIN proposals
  PROVE  \/ proposals'[id].eta = proposals[id].eta /\ proposals'[id].endBlock = proposals[id].endBlock
         \/ /\ Queues(id) /\ proposals'[id].endBlock < blockNumber
            /\ proposals'[id].eta = blockNumber + config["delay"]
<1> DEFINE Goal ==
      \/ proposals'[id].eta = proposals[id].eta /\ proposals'[id].endBlock = proposals[id].endBlock
      \/ /\ Queues(id) /\ proposals'[id].endBlock < blockNumber
         /\ proposals'[id].eta = blockNumber + config["delay"]
<1>1. /\ TypeOK /\ blockNumber \in Nat /\ proposals[id] \in Proposal
      /\ Evolves(proposals[id], proposals'[id])
  BY ProposalsEvolve DEF CoreInv, TypeOK, LedgerTypeOK
<1>2. proposals'[id].endBlock = proposals[id].endBlock
  BY <1>1 DEF Evolves
<1>3. CASE UNCHANGED proposals
  BY <1>3
<1>4. ASSUME NEW v \in Voters, NEW actions \in ActionLists, propose(v, actions)
      PROVE  Goal
  <2>1. proposals'[id] = proposals[id]
    BY <1>1, <1>4, ProposeAppends
  <2> QED  BY <2>1
<1>5. ASSUME NEW other \in ProposalIds, NEW q \in Proposal, Rewrites(other, q)
      PROVE  Goal
  <2>1. proposals'[id] = IF id = other THEN q ELSE proposals[id]
    BY <1>1, <1>5, RewriteOne
  <2>2. CASE id # other
    BY <2>1, <2>2
  <2>3. CASE id = other
    <3>1. proposals'[id] = q /\ Edits(proposals[id], q)
      BY <1>5, <2>1, <2>3 DEF Rewrites
    <3>2. CASE GetsEta(proposals[id], q)
      <4>1. q.eta = blockNumber + config["delay"]
        BY <1>1, <3>2 DEF GetsEta, Eta, timestamp, Proposal
      <4>2. proposals[id].eta = 0 /\ proposals[id].endBlock < blockNumber
        BY <1>1, <3>2, StateMeans DEF GetsEta
      <4>3. config["delay"] \in Nat \ {0}
        BY <1>1, SettingsArePositive DEF ConfigFields
      <4>4. q.eta # 0
        BY <1>1, <4>1, <4>3
      <4> QED  BY <1>2, <3>1, <4>1, <4>2, <4>4 DEF Queues
    <3>3. CASE Votes(proposals[id], q)
      <4>1. q.eta = proposals[id].eta
        BY <1>1, <3>3, TalliedIsProposal DEF Votes
      <4> QED  BY <1>2, <3>1, <4>1
    <3>4. CASE \/ GetsExecuted(proposals[id], q) \/ GetsCanceled(proposals[id], q)
               \/ GetsVetoed(proposals[id], q)
      <4>1. q.eta = proposals[id].eta
        BY <1>1, <3>4 DEF GetsExecuted, GetsCanceled, GetsVetoed, Proposal
      <4> QED  BY <1>2, <3>1, <4>1
    <3> QED  BY <3>1, <3>2, <3>3, <3>4 DEF Edits
  <2> QED  BY <2>2, <2>3
<1> QED  BY <1>3, <1>4, <1>5 DEF ProposalsMove

\* What a transaction proposes is not queued yet.
LEMMA NewIsNotQueued ==
  ASSUME CoreInv, ProposalsMove, NEW id \in DOMAIN proposals', id \notin DOMAIN proposals
  PROVE  proposals'[id].eta = 0 /\ id \in ProposalIds
<1>1. TypeOK
  BY DEF CoreInv
<1>2. DOMAIN proposals' # DOMAIN proposals
  OBVIOUS
<1>3. PICK v \in Voters, actions \in ActionLists : propose(v, actions)
  <2>1. ~UNCHANGED proposals
    BY <1>2
  <2>2. \A other \in ProposalIds, q \in Proposal : ~Rewrites(other, q)
    BY <1>1, <1>2, RewriteOne
  <2> QED  BY <2>1, <2>2 DEF ProposalsMove
<1>4. /\ DOMAIN proposals = 1 .. Len(proposals) /\ DOMAIN proposals' = 1 .. Len(proposals) + 1
      /\ Len(proposals) + 1 \in ProposalIds /\ Len(proposals) \in Nat
  BY <1>1, <1>3, ProposeAppends DEF TypeOK
<1>5. id = Len(proposals) + 1
  BY <1>4
<1>6. proposals' = Append(proposals, proposals'[id]) /\ proposals'[id].eta = 0
  BY <1>3, <1>4, <1>5 DEF propose
<1> QED  BY <1>4, <1>5, <1>6

\* The history of the queue is kept.
LEMMA NoticeStep ==
  ASSUME CoreInv, NoticeInv, [HistoryNext]_historyVars
  PROVE  NoticeInv'
<1>1. [Next]_vars
  BY DEF HistoryNext, historyVars
<1>2. ProposalsMove
  BY <1>1, CoreStep
<1>3. blockNumber \in Nat /\ config["delay"] \in Nat
  BY SettingsArePositive DEF CoreInv, TypeOK, LedgerTypeOK, ConfigFields
<1>4. CASE UNCHANGED historyVars
  <2>1. UNCHANGED <<proposals, queuedAt>>
    BY <1>4 DEF historyVars, vars
  <2> QED  BY <2>1 DEF NoticeInv
<1>5. CASE HistoryNext
  <2> DEFINE at(id) == IF Queues(id) THEN [time |-> timestamp, delay |-> config["delay"]]
                       ELSE queuedAt[id]
  <2>1. queuedAt' = [id \in ProposalIds |-> at(id)]
    BY <1>5 DEF HistoryNext
  <2>2. \A id \in ProposalIds : at(id) \in [time : Nat, delay : Nat]
    BY <1>3 DEF NoticeInv, timestamp
  <2>3. queuedAt' \in [ProposalIds -> [time : Nat, delay : Nat]]
    <3> HIDE DEF at
    <3> QED  BY <2>1, <2>2
  <2>4. ASSUME NEW id \in DOMAIN proposals'
        PROVE  Noticed(proposals'[id], queuedAt'[id])
    <3>1. CASE id \notin DOMAIN proposals
      BY <1>2, <3>1, NewIsNotQueued DEF Noticed
    <3>2. CASE id \in DOMAIN proposals
      <4>1. id \in ProposalIds /\ Noticed(proposals[id], queuedAt[id])
        BY <3>2, GovernorAssumption DEF CoreInv, TypeOK, ProposalIds, NoticeInv
      <4>2. queuedAt'[id] = at(id)
        BY <2>1, <4>1
      <4>3. CASE Queues(id)
        <5>1. /\ proposals'[id].endBlock < blockNumber
              /\ proposals'[id].eta = blockNumber + config["delay"]
          BY <1>2, <3>2, <4>3, EtaIsGiven DEF Queues
        <5>2. queuedAt'[id] = [time |-> blockNumber, delay |-> config["delay"]]
          BY <4>2, <4>3 DEF timestamp
        <5> QED  BY <5>1, <5>2 DEF Noticed
      <4>4. CASE ~Queues(id)
        <5>1. /\ proposals'[id].eta = proposals[id].eta
              /\ proposals'[id].endBlock = proposals[id].endBlock
          BY <1>2, <3>2, <4>4, EtaIsGiven
        <5>2. queuedAt'[id] = queuedAt[id]
          BY <4>2, <4>4
        <5> QED  BY <4>1, <5>1, <5>2 DEF Noticed
      <4> QED  BY <4>3, <4>4
    <3> QED  BY <3>1, <3>2
  <2> QED  BY <2>3, <2>4 DEF NoticeInv
<1> QED  BY <1>4, <1>5

\* Whatever delays proposals set while others are queued: between the transaction that
\* queued a proposal, after the last vote on it, and its execution lies the timelock
\* delay that was in force when it was queued.
THEOREM NoticeIsGiven == HistorySpec => []NoticeBeforeExecution
<1>1. HistoryInit => CoreInv /\ NoticeInv
  <2> SUFFICES ASSUME HistoryInit
               PROVE  CoreInv /\ NoticeInv
    OBVIOUS
  <2>1. CoreInv /\ proposals = <<>>
    BY CoreInit DEF HistoryInit, Init
  <2>2. queuedAt \in [ProposalIds -> [time : Nat, delay : Nat]]
    BY DEF HistoryInit
  <2>3. DOMAIN proposals = {}
    BY <2>1
  <2> QED  BY <2>1, <2>2, <2>3 DEF NoticeInv
<1>2. CoreInv /\ NoticeInv /\ [HistoryNext]_historyVars => CoreInv' /\ NoticeInv'
  <2>1. [HistoryNext]_historyVars => [Next]_vars
    BY DEF HistoryNext, historyVars
  <2> QED  BY <2>1, CoreStep, NoticeStep
<1>3. CoreInv /\ NoticeInv => NoticeBeforeExecution
  <2> SUFFICES ASSUME CoreInv, NoticeInv, NEW id \in DOMAIN proposals, proposals[id].executed
               PROVE  /\ proposals[id].endBlock < queuedAt[id].time
                      /\ queuedAt[id].time + queuedAt[id].delay <= timestamp
    BY DEF NoticeBeforeExecution
  <2>1. Sound(proposals[id], blockNumber) /\ Noticed(proposals[id], queuedAt[id])
    BY DEF CoreInv, SoundInv, NoticeInv
  <2>2. proposals[id].eta # 0 /\ proposals[id].eta <= blockNumber
    BY <2>1 DEF Sound
  <2> QED  BY <2>1, <2>2 DEF Noticed, timestamp
<1> QED  BY <1>1, <1>2, <1>3, PTL DEF HistorySpec

\* Whichever setters proposals call, in whatever order and in whatever block: the
\* minimum and the maximum of the quorum keep their bounds and their order, and the
\* quorum stays between them.
THEOREM QuorumStaysConsistent == Spec => []QuorumParamsConsistent
<1>1. ASSUME CoreInv
      PROVE  QuorumParamsConsistent
  <2>1. ASSUME NEW i \in DOMAIN quorumParamsCheckpoints
        PROVE  /\ quorumParamsCheckpoints[i].params \in Params
               /\ InitialParamsAllowed(quorumParamsCheckpoints[i].params)
    <3>1. /\ quorumParamsCheckpoints[i] \in ParamsCheckpoint
          /\ i \in 1 .. Len(quorumParamsCheckpoints)
      BY <1>1 DEF CoreInv, TypeOK
    <3>2. InitialParamsAllowed(quorumParamsCheckpoints[i].params)
      BY <1>1, <3>1 DEF CoreInv, SettingsInv
    <3> QED  BY <3>1, <3>2 DEF ParamsCheckpoint
  <2>2. ASSUME NEW params \in Params, InitialParamsAllowed(params),
               NEW supply \in 1 .. Bps, NEW against \in 0 .. supply
        PROVE  LET quorum == dynamicQuorumVotes(against, supply, params)
               IN  /\ bps2Uint(params.minQuorumVotesBPS, supply) <= quorum
                   /\ quorum <= bps2Uint(params.maxQuorumVotesBPS, supply)
    <3>1. supply \in Nat \ {0} /\ against \in Nat
      BY QuorumAssumption
    <3> QED  BY <2>2, <3>1, QuorumWithinBounds DEF InitialParamsAllowed
  <2> QED  BY <2>1, <2>2 DEF QuorumParamsConsistent
<1> QED  BY <1>1, CoreInvariant, PTL

-----------------------------------------------------------------------------
(* One live proposal per proposer.                                         *)

Live(p, now) ==
  /\ ~p.vetoed /\ ~p.canceled
  /\ now <= p.startBlock \/ now <= p.endBlock

\* Only the latest proposal of its proposer may be live.
LatestInv ==
  \A id \in DOMAIN proposals :
    Live(proposals[id], blockNumber) => id = latestProposalIds[proposals[id].proposer]

\* Neither time nor an edit brings a proposal back to life.
LEMMA LiveOnlyEnds ==
  ASSUME CoreInv, ProposalsMove, LedgerMoves, NEW id \in DOMAIN proposals,
         Live(proposals'[id], blockNumber')
  PROVE  /\ Live(proposals[id], blockNumber)
         /\ proposals'[id].proposer = proposals[id].proposer
         /\ proposals[id].proposer \in Voters
<1>1. proposals[id] \in Proposal /\ Evolves(proposals[id], proposals'[id])
  BY ProposalsEvolve DEF CoreInv
<1>2. blockNumber \in Nat /\ blockNumber' \in Nat /\ blockNumber' >= blockNumber
  BY LedgerKept DEF CoreInv, TypeOK, LedgerTypeOK
<1>3. proposals[id].startBlock \in Nat /\ proposals[id].endBlock \in Nat
      /\ proposals[id].proposer \in Voters
  BY <1>1, ProposalFields
<1> QED  BY <1>1, <1>2, <1>3 DEF Evolves, Live

\* Every step keeps a live proposal the latest of its proposer.
LEMMA LatestStep ==
  ASSUME CoreInv, LatestInv, ProposalsMove, LedgerMoves
  PROVE  LatestInv'
<1>1. CASE UNCHANGED <<proposals, latestProposalIds>>
  BY <1>1, LiveOnlyEnds DEF LatestInv
<1>2. ASSUME NEW id \in ProposalIds, NEW q \in Proposal, Rewrites(id, q)
      PROVE  LatestInv'
  <2>1. DOMAIN proposals' = DOMAIN proposals /\ latestProposalIds' = latestProposalIds
    BY <1>2, RewriteOne DEF CoreInv, Rewrites
  <2> QED  BY <2>1, LiveOnlyEnds DEF LatestInv
<1>3. ASSUME NEW v \in Voters, NEW actions \in ActionLists, propose(v, actions)
      PROVE  LatestInv'
  <2> DEFINE n == Len(proposals) + 1
  <2>1. /\ proposals'[n].proposer = v /\ Len(proposals) \in Nat
        /\ DOMAIN proposals = 1 .. Len(proposals) /\ DOMAIN proposals' = 1 .. n
    BY <1>3, ProposeAppends DEF CoreInv, TypeOK
  <2>2. /\ latestProposalIds' = [latestProposalIds EXCEPT ![v] = n]
        /\ blockNumber' = blockNumber /\ ~HasLiveProposal(v)
        /\ latestProposalIds \in [Voters -> 0 .. MaxProposals]
    BY <1>3 DEF propose, ledger, CoreInv, TypeOK
  <2>3. ASSUME NEW id \in DOMAIN proposals, Live(proposals[id], blockNumber)
        PROVE  proposals[id].proposer # v
    <3> SUFFICES ASSUME proposals[id].proposer = v
                 PROVE  FALSE
      OBVIOUS
    <3>1. id = latestProposalIds[v] /\ id # 0
      BY <2>1, <2>3 DEF LatestInv
    <3>2. state(id) \in {"Pending", "Active"}
      <4>1. proposals[id] \in Proposal /\ blockNumber \in Nat
        BY DEF CoreInv, TypeOK, LedgerTypeOK
      <4> QED  BY <2>3, <4>1, StateMeans, StateIs DEF Live
    <3> QED  BY <2>2, <3>1, <3>2 DEF HasLiveProposal
  <2>4. ASSUME NEW id \in DOMAIN proposals, Live(proposals'[id], blockNumber')
        PROVE  id = latestProposalIds'[proposals'[id].proposer]
    <3>1. /\ Live(proposals[id], blockNumber) /\ proposals[id].proposer \in Voters
          /\ proposals'[id].proposer = proposals[id].proposer
      BY <2>4, LiveOnlyEnds
    <3>2. proposals[id].proposer # v /\ id = latestProposalIds[proposals[id].proposer]
      BY <2>3, <3>1 DEF LatestInv
    <3> QED  BY <2>2, <3>1, <3>2
  <2>5. n = latestProposalIds'[proposals'[n].proposer]
    BY <2>1, <2>2
  <2>6. \A id \in DOMAIN proposals' : id = n \/ id \in DOMAIN proposals
    BY <2>1
  <2> QED  BY <2>4, <2>5, <2>6 DEF LatestInv
<1> QED  BY <1>1, <1>2, <1>3 DEF ProposalsMove

\* However proposals are canceled, vetoed, voted on and executed in between, also
\* from inside an execution: a proposer never has two proposals that are pending
\* or active, although propose looks at the latest one only.
THEOREM OneLiveProposalEach == Spec => []OneLiveProposal
<1>1. Init => LatestInv
  BY DEF Init, LatestInv
<1>2. CoreInv /\ LatestInv /\ [Next]_vars => LatestInv'
  BY CoreStep, LatestStep
<1>3. CoreInv /\ LatestInv => OneLiveProposal
  <2> SUFFICES ASSUME CoreInv, LatestInv, NEW i \in DOMAIN proposals, NEW j \in DOMAIN proposals,
                      proposals[i].proposer = proposals[j].proposer,
                      state(i) \in {"Pending", "Active"}, state(j) \in {"Pending", "Active"}
               PROVE  i = j
    BY DEF OneLiveProposal
  <2>1. Live(proposals[i], blockNumber) /\ Live(proposals[j], blockNumber)
    BY StateMeans, StateIs DEF Live, CoreInv, TypeOK, LedgerTypeOK
  <2> QED  BY <2>1 DEF LatestInv
<1> QED  BY <1>1, <1>2, <1>3, CoreInvariant, PTL DEF Spec

-----------------------------------------------------------------------------
(* The tallies.                                                            *)

Ballot(p, support) == {r \in p.receipts : r.support = support}
Weights == [r \in Receipt |-> r.votes]
Tally(p, support) == SumFunctionOnSet(Weights, Ballot(p, support))

\* The tallies of a proposal are the sums of its receipts, of which there are finitely
\* many: one per voter, worth what that voter had when the proposal was created.
Tallies(p, history) ==
  /\ IsFiniteSet(p.receipts)
  /\ p.againstVotes = Tally(p, 0) /\ p.forVotes = Tally(p, 1) /\ p.abstainVotes = Tally(p, 2)
  /\ \A r, s \in p.receipts : r.voter = s.voter => r = s
  /\ \A r \in p.receipts : r.votes = history[p.creationBlock][r.voter]

TalliesInv == \A id \in DOMAIN proposals : Tallies(proposals[id], past)

\* The sum the property is stated with is this one.
LEMMA SumIsTally ==
  ASSUME NEW p \in Proposal, NEW support, IsFiniteSet(p.receipts)
  PROVE  Sum(p, support) = Tally(p, support)
<1> DEFINE f == [r \in {r \in p.receipts : r.support = support} |-> r.votes]
<1>1. Sum(p, support) = SumFunctionOnSet(f, Ballot(p, support))
  BY DEF Sum, SumFunction, Ballot
<1>2. IsFiniteSet(Ballot(p, support)) /\ Ballot(p, support) \subseteq Receipt
  BY FS_Subset, ProposalFields DEF Ballot
<1>3. \A r \in Ballot(p, support) : f[r] = Weights[r]
  BY <1>2 DEF Ballot, Weights
<1> HIDE DEF f
<1> QED  BY <1>1, <1>2, <1>3, SumSame DEF Tally

\* A ballot grows by the receipt that is added, if that is of its kind.
LEMMA TallyGrows ==
  ASSUME NEW p \in Proposal, IsFiniteSet(p.receipts), NEW r \in Receipt, r \notin p.receipts,
         NEW q, q.receipts = p.receipts \cup {r}, NEW support
  PROVE  Tally(q, support) = Tally(p, support) + (IF r.support = support THEN r.votes ELSE 0)
<1>1. IsFiniteSet(Ballot(p, support)) /\ Ballot(p, support) \subseteq Receipt
  BY FS_Subset, ProposalFields DEF Ballot
<1>2. \A s \in Receipt : Weights[s] = s.votes /\ Weights[s] \in Nat
  BY DEF Weights, Receipt
<1>3. CASE r.support = support
  <2>1. Ballot(q, support) = Ballot(p, support) \cup {r} /\ r \notin Ballot(p, support)
    BY <1>3 DEF Ballot
  <2>2. SumFunctionOnSet(Weights, Ballot(p, support) \cup {r})
          = Weights[r] + SumFunctionOnSet(Weights, Ballot(p, support))
    BY <1>1, <1>2, <2>1, SumAdd
  <2>3. SumFunctionOnSet(Weights, Ballot(p, support)) \in Nat
    BY <1>1, <1>2, SumRemove
  <2> QED  BY <1>2, <1>3, <2>1, <2>2, <2>3 DEF Tally
<1>4. CASE r.support # support
  <2>1. Ballot(q, support) = Ballot(p, support)
    BY <1>4 DEF Ballot
  <2>2. SumFunctionOnSet(Weights, Ballot(p, support)) \in Nat
    BY <1>1, <1>2, SumRemove
  <2> QED  BY <1>4, <2>1, <2>2 DEF Tally
<1> QED  BY <1>3, <1>4

\* An edit counts one ballot more, of votes held at the snapshot, or none.
LEMMA TalliesSurvive ==
  ASSUME NEW p \in Proposal, NEW q, Edits(p, q), Tallies(p, past)
  PROVE  Tallies(q, past)
<1>1. ASSUME q.receipts = p.receipts, q.creationBlock = p.creationBlock,
             q.againstVotes = p.againstVotes, q.forVotes = p.forVotes,
             q.abstainVotes = p.abstainVotes
      PROVE  Tallies(q, past)
  BY <1>1 DEF Tallies, Tally, Ballot
<1>2. CASE Votes(p, q)
  <2>1. PICK r \in Receipt : /\ \A s \in p.receipts : s.voter # r.voter
                             /\ r.votes = past[p.creationBlock][r.voter]
                             /\ q = Tallied(p, r)
    BY <1>2 DEF Votes
  <2>2. r \notin p.receipts
    BY <2>1
  <2>3. /\ q.receipts = p.receipts \cup {r} /\ q.creationBlock = p.creationBlock
        /\ q.againstVotes = p.againstVotes + (IF r.support = 0 THEN r.votes ELSE 0)
        /\ q.forVotes = p.forVotes + (IF r.support = 1 THEN r.votes ELSE 0)
        /\ q.abstainVotes = p.abstainVotes + (IF r.support = 2 THEN r.votes ELSE 0)
    BY <2>1, TalliedIsProposal
  <2>4. q.againstVotes = Tally(q, 0) /\ q.forVotes = Tally(q, 1) /\ q.abstainVotes = Tally(q, 2)
    BY <2>2, <2>3, TallyGrows DEF Tallies
  <2>5. IsFiniteSet(q.receipts)
    BY <2>3, FS_AddElement DEF Tallies
  <2>6. \A s, t \in q.receipts : s.voter = t.voter => s = t
    BY <2>1, <2>3 DEF Tallies
  <2>7. \A s \in q.receipts : s.votes = past[q.creationBlock][s.voter]
    BY <2>1, <2>3 DEF Tallies
  <2> QED  BY <2>4, <2>5, <2>6, <2>7 DEF Tallies
<1>3. CASE GetsEta(p, q)
  BY <1>1, <1>3 DEF GetsEta, Proposal
<1>4. CASE GetsExecuted(p, q)
  BY <1>1, <1>4 DEF GetsExecuted, Proposal
<1>5. CASE GetsCanceled(p, q)
  BY <1>1, <1>5 DEF GetsCanceled, Proposal
<1>6. CASE GetsVetoed(p, q)
  BY <1>1, <1>6 DEF GetsVetoed, Proposal
<1> QED  BY <1>2, <1>3, <1>4, <1>5, <1>6 DEF Edits

\* The votes of the block a proposal was created in are settled before anyone votes.
LEMMA TalliesKeptByLedger ==
  ASSUME CoreInv, LedgerMoves, NEW p \in Proposal, Sound(p, blockNumber), Tallies(p, past)
  PROVE  Tallies(p, past')
<1>1. \A b \in 0 .. blockNumber - 1 : past'[b] = past[b]
  BY LedgerKept DEF CoreInv
<1>2. p.receipts # {} => p.creationBlock \in 0 .. blockNumber - 1
  BY ProposalFields DEF Sound, CoreInv, TypeOK, LedgerTypeOK
<1> QED  BY <1>1, <1>2 DEF Tallies

\* Every step keeps the tallies those of the ballots and of the snapshot.
LEMMA TalliesStep ==
  ASSUME CoreInv, TalliesInv, ProposalsMove, LedgerMoves
  PROVE  TalliesInv'
<1>1. \A id \in DOMAIN proposals :
        /\ proposals[id] \in Proposal /\ Sound(proposals[id], blockNumber)
        /\ Tallies(proposals[id], past)
  BY DEF CoreInv, TypeOK, SoundInv, TalliesInv
<1>2. \A id \in DOMAIN proposals : Tallies(proposals[id], past')
  BY <1>1, TalliesKeptByLedger
<1>3. CASE UNCHANGED proposals
  BY <1>2, <1>3 DEF TalliesInv
<1>4. ASSUME NEW v \in Voters, NEW actions \in ActionLists, propose(v, actions)
      PROVE  TalliesInv'
  <2> DEFINE n == Len(proposals) + 1
             q == proposals'[n]
  <2>1. /\ q.receipts = {} /\ q.forVotes = 0 /\ q.againstVotes = 0 /\ q.abstainVotes = 0
        /\ Len(proposals) \in Nat
        /\ DOMAIN proposals = 1 .. Len(proposals) /\ DOMAIN proposals' = 1 .. n
        /\ \A id \in DOMAIN proposals : proposals'[id] = proposals[id]
    BY <1>4, ProposeAppends DEF CoreInv, TypeOK
  <2>2. \A support : Ballot(q, support) = {}
    BY <2>1 DEF Ballot
  <2>3. \A support : Tally(q, support) = 0
    BY <2>2, SumEmpty DEF Tally
  <2>4. Tallies(q, past')
    BY <2>1, <2>3, FS_EmptySet DEF Tallies
  <2>5. \A id \in DOMAIN proposals' : id = n \/ id \in DOMAIN proposals
    BY <2>1
  <2> QED  BY <1>2, <2>1, <2>4, <2>5 DEF TalliesInv
<1>5. ASSUME NEW id \in ProposalIds, NEW q \in Proposal, Rewrites(id, q)
      PROVE  TalliesInv'
  <2>1. /\ DOMAIN proposals' = DOMAIN proposals /\ id \in DOMAIN proposals
        /\ \A i \in DOMAIN proposals : proposals'[i] = IF i = id THEN q ELSE proposals[i]
        /\ Edits(proposals[id], q) /\ past' = past
    BY <1>5, RewriteOne DEF Rewrites, CoreInv, ledger
  <2>2. Tallies(q, past')
    BY <1>1, <2>1, TalliesSurvive
  <2> QED  BY <1>2, <2>1, <2>2 DEF TalliesInv
<1> QED  BY <1>3, <1>4, <1>5 DEF ProposalsMove

\* For any number of voters, proposals and transfers between the blocks: the tallies
\* are the sums of the receipts, one per voter, each worth the votes its voter had in
\* the block of the proposal's creation.
THEOREM TalliesAreSnapshots == Spec => []TalliesMatchSnapshot
<1>1. Init => TalliesInv
  BY DEF Init, TalliesInv
<1>2. CoreInv /\ TalliesInv /\ [Next]_vars => TalliesInv'
  BY CoreStep, TalliesStep
<1>3. ASSUME CoreInv, TalliesInv
      PROVE  TalliesMatchSnapshot
  <2>1. ASSUME NEW id \in DOMAIN proposals
        PROVE  /\ proposals[id] \in Proposal /\ Tallies(proposals[id], past)
               /\ \A support : Sum(proposals[id], support) = Tally(proposals[id], support)
    <3>1. proposals[id] \in Proposal /\ Tallies(proposals[id], past)
      BY <1>3 DEF CoreInv, TypeOK, TalliesInv
    <3> QED  BY <3>1, SumIsTally DEF Tallies
  <2> QED  BY <2>1 DEF TalliesMatchSnapshot, Tallies
<1> QED  BY <1>1, <1>2, <1>3, CoreInvariant, PTL DEF Spec

-----------------------------------------------------------------------------
(* The lifecycle: state() moves along the edges of ProposalLifecycle.      *)

Status == [id \in ProposalIds |-> IF Exists(id) THEN state(id) ELSE "None"]

\* The status of the life cycle as derived from the record.
LEMMA StatusIs ==
  ASSUME NEW id \in ProposalIds
  PROVE  /\ Status[id] = IF id \in DOMAIN proposals THEN Derived(proposals[id]) ELSE "None"
         /\ Status'[id] = IF id \in DOMAIN proposals'
                          THEN StateAt(proposals'[id], blockNumber', quorumParamsCheckpoints')
                          ELSE "None"
BY StateIs DEF Status, Exists

\* Every derived state is one of the life cycle.
LEMMA StateInStates ==
  ASSUME NEW p, NEW now, NEW cps
  PROVE  StateAt(p, now, cps) \in Lifecycle!States
BY DEF StateAt, Lifecycle!States

\* Setters do not decide a vote that is over anew.
LEMMA SettingsKeepState ==
  ASSUME blockNumber \in Nat, NEW p \in Proposal, Sound(p, blockNumber), NEW cps,
         \A b \in Nat : b < blockNumber => ParamsAt(cps, b) = ParamsAt(quorumParamsCheckpoints, b)
  PROVE  StateAt(p, blockNumber, cps) = Derived(p)
<1>1. /\ p.startBlock \in Nat /\ p.endBlock \in Nat /\ p.creationBlock \in Nat
      /\ p.creationBlock < p.startBlock
  BY ProposalFields DEF Sound
<1>2. CASE blockNumber <= p.startBlock
  BY <1>2 DEF StateAt, Derived
<1>3. CASE p.startBlock < blockNumber
  <2>1. ParamsAt(cps, p.creationBlock) = ParamsAt(quorumParamsCheckpoints, p.creationBlock)
    BY <1>1, <1>3
  <2>2. Failed(p, cps) = Failed(p, quorumParamsCheckpoints)
    BY <2>1 DEF Failed
  <2> QED  BY <2>2 DEF StateAt, Derived
<1> QED  BY <1>1, <1>2, <1>3

\* An edit moves a proposal along an edge for transactions, or not at all.
LEMMA EditFollows ==
  ASSUME TypeOK, NEW p \in Proposal, Sound(p, blockNumber), NEW q \in Proposal, Edits(p, q)
  PROVE  Derived(q) = Derived(p) \/ <<Derived(p), Derived(q)>> \in Lifecycle!ByTransaction
<1>1. /\ blockNumber \in Nat /\ p.startBlock \in Nat /\ p.endBlock \in Nat /\ p.eta \in Nat
      /\ Derived(p) \in Lifecycle!States
  BY ProposalFields, StateInStates DEF TypeOK, LedgerTypeOK, Derived
<1>2. Evolves(p, q)
  BY EditsEvolve
<1>3. CASE Votes(p, q)
  <2>1. PICK r \in Receipt : Derived(p) = "Active" /\ q = Tallied(p, r)
    BY <1>3 DEF Votes
  <2>2. q.canceled = p.canceled /\ q.vetoed = p.vetoed
    BY <2>1, TalliedIsProposal
  <2> QED  BY <1>1, <1>2, <2>1, <2>2 DEF Derived, StateAt, Evolves
<1>4. CASE GetsEta(p, q)
  <2>1. /\ Derived(p) = "Succeeded" /\ q.eta = blockNumber + config["delay"]
        /\ q.canceled = p.canceled /\ q.vetoed = p.vetoed /\ q.executed = p.executed
        /\ Failed(q, quorumParamsCheckpoints) = Failed(p, quorumParamsCheckpoints)
    BY <1>4 DEF GetsEta, Eta, timestamp, Proposal, Failed
  <2>2. config["delay"] \in Nat \ {0} /\ GRACE_PERIOD \in Nat
    BY SettingsArePositive, GovernorAssumption DEF ConfigFields
  <2>3. q.eta # 0 /\ ~(blockNumber >= q.eta + GRACE_PERIOD)
    BY <1>1, <2>1, <2>2
  <2>4. p.eta = 0 /\ p.endBlock < blockNumber
    BY <1>1, <2>1, StateMeans
  <2>5. ~p.executed
    BY <2>4 DEF Sound
  <2>6. Derived(q) = "Queued"
    BY <1>2, <2>1, <2>3, <2>5 DEF Derived, StateAt, Evolves
  <2> QED  BY <2>1, <2>6 DEF Lifecycle!ByTransaction
<1>5. CASE GetsExecuted(p, q)
  <2>1. /\ Derived(p) = "Queued" /\ q.eta = p.eta /\ q.executed
        /\ q.canceled = p.canceled /\ q.vetoed = p.vetoed
        /\ Failed(q, quorumParamsCheckpoints) = Failed(p, quorumParamsCheckpoints)
    BY <1>5 DEF GetsExecuted, Proposal, Failed
  <2>2. Derived(q) = "Executed"
    BY <1>2, <2>1 DEF Derived, StateAt, Evolves
  <2> QED  BY <2>1, <2>2 DEF Lifecycle!ByTransaction
<1>6. CASE GetsCanceled(p, q)
  <2>1. Derived(p) # "Executed" /\ q.canceled /\ q.vetoed = p.vetoed
    BY <1>6 DEF GetsCanceled, Proposal
  <2>2. Derived(q) = IF p.vetoed THEN "Vetoed" ELSE "Canceled"
    BY <2>1 DEF Derived, StateAt
  <2>3. p.vetoed => Derived(p) = "Vetoed"
    BY DEF Derived, StateAt
  <2>4. ~p.vetoed => Derived(p) # "Vetoed"
    BY DEF Derived, StateAt
  <2> QED  BY <1>1, <2>1, <2>2, <2>3, <2>4 DEF Lifecycle!ByTransaction
<1>7. CASE GetsVetoed(p, q)
  <2>1. Derived(p) # "Executed" /\ q.vetoed
    BY <1>7 DEF GetsVetoed, Proposal
  <2>2. Derived(q) = "Vetoed"
    BY <2>1 DEF Derived, StateAt
  <2> QED  BY <1>1, <2>1, <2>2 DEF Lifecycle!ByTransaction, Lifecycle!States
<1> QED  BY <1>3, <1>4, <1>5, <1>6, <1>7 DEF Edits

\* A block moves a proposal along an edge for time, or not at all.
LEMMA TimeFollows ==
  ASSUME TypeOK, NEW p \in Proposal, Sound(p, blockNumber)
  PROVE  LET after == StateAt(p, blockNumber + 1, quorumParamsCheckpoints)
         IN  after = Derived(p) \/ <<Derived(p), after>> \in Lifecycle!ByTime
<1> DEFINE after == StateAt(p, blockNumber + 1, quorumParamsCheckpoints)
<1>1. /\ blockNumber \in Nat /\ p.startBlock \in Nat /\ p.endBlock \in Nat /\ p.eta \in Nat
      /\ GRACE_PERIOD \in Nat /\ p.startBlock < p.endBlock
      /\ p.eta # 0 => p.endBlock < blockNumber
  BY ProposalFields, GovernorAssumption DEF TypeOK, LedgerTypeOK, Sound
<1>2. CASE p.vetoed \/ p.canceled
  BY <1>2 DEF Derived, StateAt
<1>3. CASE ~p.vetoed /\ ~p.canceled /\ blockNumber <= p.endBlock
  <2>1. p.eta = 0
    BY <1>1, <1>3
  <2>2. Derived(p) = IF blockNumber <= p.startBlock THEN "Pending" ELSE "Active"
    BY <1>3 DEF Derived, StateAt
  <2>3. CASE blockNumber <= p.startBlock
    <3>1. after \in {"Pending", "Active"}
      BY <1>1, <1>3, <2>3 DEF StateAt
    <3> QED  BY <2>2, <2>3, <3>1 DEF Lifecycle!ByTime
  <2>4. CASE ~(blockNumber <= p.startBlock)
    <3>1. after \in {"Active", "Defeated", "Succeeded"}
      BY <1>1, <1>3, <2>1, <2>4 DEF StateAt
    <3> QED  BY <2>2, <2>4, <3>1 DEF Lifecycle!ByTime
  <2> QED  BY <2>3, <2>4
<1>4. CASE ~p.vetoed /\ ~p.canceled /\ p.endBlock < blockNumber
  <2>1. after = Derived(p) \/ (Derived(p) = "Queued" /\ after = "Expired")
    BY <1>1, <1>4 DEF Derived, StateAt
  <2> QED  BY <2>1 DEF Lifecycle!ByTime
<1> QED  BY <1>1, <1>2, <1>3, <1>4

\* Every step of the governor is one of the life cycle, or none.
LEMMA StepFollows ==
  ASSUME CoreInv, [Next]_vars
  PROVE  Lifecycle!Next \/ UNCHANGED Status
<1> USE DEF CoreInv
<1>1. /\ ProposalsMove /\ LedgerMoves /\ blockNumber \in Nat
      /\ \A b \in Nat : b < blockNumber =>
           ParamsAt(quorumParamsCheckpoints', b) = ParamsAt(quorumParamsCheckpoints, b)
      /\ \/ blockNumber' = blockNumber
         \/ blockNumber' = blockNumber + 1 /\ UNCHANGED <<proposals, settings>>
  BY CoreStep, LedgerKept DEF TypeOK, LedgerTypeOK
<1>2. \A id \in DOMAIN proposals : /\ id \in ProposalIds /\ proposals[id] \in Proposal
                                   /\ Sound(proposals[id], blockNumber)
  <2>1. proposals \in Seq(Proposal) /\ Len(proposals) <= MaxProposals
    BY DEF TypeOK
  <2>2. DOMAIN proposals \subseteq ProposalIds
    BY <2>1, GovernorAssumption DEF ProposalIds
  <2> QED  BY <2>1, <2>2 DEF SoundInv
<1>3. DOMAIN Status = ProposalIds /\ DOMAIN Status' = ProposalIds
      /\ Status' = [id \in ProposalIds |-> Status'[id]]
      /\ Status = [id \in ProposalIds |-> Status[id]]
  BY DEF Status
<1>4. CASE blockNumber' = blockNumber + 1 /\ UNCHANGED <<proposals, settings>>
  <2>1. quorumParamsCheckpoints' = quorumParamsCheckpoints
    BY <1>4 DEF settings
  <2>2. ASSUME NEW id \in ProposalIds
        PROVE  /\ Status'[id] \in Lifecycle!States \cup {"None"}
               /\ Status'[id] # Status[id] => <<Status[id], Status'[id]>> \in Lifecycle!ByTime
    <3>1. CASE id \in DOMAIN proposals
      BY <1>2, <1>4, <2>1, <3>1, StatusIs, StateInStates, TimeFollows
    <3>2. CASE id \notin DOMAIN proposals
      BY <1>4, <3>2, StatusIs
    <3> QED  BY <3>1, <3>2
  <2>3. Status' \in [ProposalIds -> Lifecycle!States \cup {"None"}]
    BY <1>3, <2>2
  <2>4. Lifecycle!TimePasses
    BY <2>2, <2>3 DEF Lifecycle!TimePasses, Status
  <2> QED  BY <2>4 DEF Lifecycle!Next
<1>5. ASSUME blockNumber' = blockNumber, NEW id \in DOMAIN proposals, id \in DOMAIN proposals',
             NEW q \in Proposal, proposals'[id] = q, Sound(q, blockNumber)
      PROVE  Status'[id] = Derived(q)
  BY <1>1, <1>2, <1>5, StatusIs, SettingsKeepState
<1>6. CASE blockNumber' = blockNumber /\ UNCHANGED proposals
  <2>1. \A id \in ProposalIds : Status'[id] = Status[id]
    BY <1>2, <1>5, <1>6, StatusIs
  <2> QED  BY <1>3, <2>1
<1>7. ASSUME NEW v \in Voters, NEW actions \in ActionLists, propose(v, actions)
      PROVE  Lifecycle!Next
  <2> DEFINE n == Len(proposals) + 1
             q == proposals'[n]
  <2>1. /\ q \in Proposal /\ Sound(q, blockNumber) /\ ~q.canceled /\ ~q.vetoed
        /\ q.creationBlock = blockNumber /\ n \in ProposalIds /\ Len(proposals) \in Nat
        /\ DOMAIN proposals = 1 .. Len(proposals) /\ DOMAIN proposals' = 1 .. n
        /\ \A id \in DOMAIN proposals : proposals'[id] = proposals[id]
    BY <1>7, ProposeAppends DEF TypeOK
  <2>2. blockNumber' = blockNumber
    BY <1>7 DEF propose, ledger
  <2>3. n \in DOMAIN proposals' /\ n \notin DOMAIN proposals
    BY <2>1
  <2> HIDE DEF q
  <2>4. blockNumber <= q.startBlock
    BY <1>1, <2>1, ProposalFields DEF Sound
  <2>5. Status[n] = "None" /\ Status'[n] = "Pending"
    BY <2>1, <2>2, <2>3, <2>4, StatusIs DEF StateAt, q
  <2>6. \A id \in ProposalIds : id # n => Status'[id] = Status[id]
    BY <1>2, <1>5, <2>1, <2>2, StatusIs
  <2>7. Status' = [Status EXCEPT ![n] = "Pending"]
    BY <1>3, <2>1, <2>5, <2>6
  <2>8. <<Status[n], "Pending">> \in Lifecycle!ByTransaction /\ "Pending" \in Lifecycle!States
    BY <2>5 DEF Lifecycle!ByTransaction, Lifecycle!States
  <2>9. Lifecycle!Transact
    BY <2>1, <2>7, <2>8 DEF Lifecycle!Transact, Status
  <2> QED  BY <2>9 DEF Lifecycle!Next
<1>8. ASSUME NEW id \in ProposalIds, NEW q \in Proposal, Rewrites(id, q)
      PROVE  Lifecycle!Next \/ UNCHANGED Status
  <2> DEFINE p == proposals[id]
  <2>1. /\ DOMAIN proposals' = DOMAIN proposals /\ id \in DOMAIN proposals
        /\ \A i \in DOMAIN proposals : proposals'[i] = IF i = id THEN q ELSE proposals[i]
        /\ Edits(p, q) /\ blockNumber' = blockNumber
    BY <1>8, RewriteOne DEF Rewrites, ledger
  <2>2. p \in Proposal /\ Sound(p, blockNumber)
    BY <1>2, <2>1
  <2>3. Sound(q, blockNumber)
    BY <1>1, <2>1, <2>2, SoundSurvives
  <2>4. Status[id] = Derived(p) /\ Status'[id] = Derived(q)
    BY <1>5, <2>1, <2>3, StatusIs
  <2>5. \A i \in ProposalIds : i # id => Status'[i] = Status[i]
    BY <1>2, <1>5, <2>1, StatusIs
  <2>6. Status' = [Status EXCEPT ![id] = Derived(q)]
    BY <1>3, <2>4, <2>5
  <2>7. CASE Derived(q) = Derived(p)
    <3>1. \A i \in ProposalIds : Status'[i] = Status[i]
      BY <2>4, <2>5, <2>7
    <3> QED  BY <1>3, <3>1
  <2>8. CASE <<Derived(p), Derived(q)>> \in Lifecycle!ByTransaction
    <3>1. Derived(q) \in Lifecycle!States
      BY StateInStates DEF Derived
    <3>2. <<Status[id], Derived(q)>> \in Lifecycle!ByTransaction
      BY <2>4, <2>8
    <3>3. Lifecycle!Transact
      BY <2>6, <3>1, <3>2 DEF Lifecycle!Transact, Status
    <3> QED  BY <3>3 DEF Lifecycle!Next
  <2> QED  BY <2>1, <2>2, <2>7, <2>8, EditFollows
<1> QED  BY <1>1, <1>4, <1>6, <1>7, <1>8 DEF ProposalsMove

\* state(), derived anew each time it is asked, implements the lifecycle: whatever is
\* voted, set, queued, executed or vetoed in between, and from inside an execution, no
\* proposal takes a way that is not in ProposalLifecycle.
THEOREM StateFollowsLifecycle == Spec => FollowsLifecycle
<1>1. Init => Lifecycle!Init
  BY DEF Init, Lifecycle!Init, Exists
<1>2. CoreInv /\ [Next]_vars => [Lifecycle!Next]_Status
  BY StepFollows
<1> QED  BY <1>1, <1>2, CoreInvariant, PTL DEF Spec, FollowsLifecycle, Lifecycle!Spec, Status

-----------------------------------------------------------------------------
(* The timelock's flags and the governor's proposals.                      *)

\* A proposal is executed at most once at a time, and an execution in progress is one
\* of an executed proposal, between its first action and its end.
StackInv ==
  /\ \A c \in DOMAIN calls :
       /\ calls[c].id \in DOMAIN proposals /\ proposals[calls[c].id].executed
       /\ calls[c].next \in 2 .. Len(proposals[calls[c].id].actions) + 1
  /\ \A c, d \in DOMAIN calls : calls[c].id = calls[d].id => c = d

\* What is left to run of a proposal, as a function of it and of the stack.
Tx(p, i) == [action |-> p.actions[i], eta |-> p.eta]

Remains(stack, id, i) == \E c \in DOMAIN stack : stack[c].id = id /\ stack[c].next <= i

Owing(p, id, stack) ==
  IF p.eta = 0 \/ p.canceled \/ p.vetoed THEN {}
  ELSE {Tx(p, i) : i \in {i \in DOMAIN p.actions : ~p.executed \/ Remains(stack, id, i)}}

Owed == [id \in DOMAIN proposals |-> Owing(proposals[id], id, calls)]

RevokedTxs ==
  UNION {Transactions(proposals[id]) : id \in {id \in DOMAIN proposals :
                                                 proposals[id].canceled \/ proposals[id].vetoed}}

\* QueueMatchesProposals, of what is owed for each proposal, the timelock's flags and
\* the revoked transactions.
Matching(owed, flags, revoked) ==
  /\ \A tx \in flags : \E id \in DOMAIN owed : tx \in owed[id]
  /\ \A id \in DOMAIN owed : \A tx \in owed[id] :
       \/ tx \in revoked
       \/ /\ tx \in flags
          /\ \A other \in DOMAIN owed \ {id} : tx \notin owed[other]

QueueInv == Matching(Owed, queuedTransactions, RevokedTxs)

\* The property, in terms of what every proposal still owes.
LEMMA MatchingIsQueueMatches == QueueInv <=> QueueMatchesProposals
<1>1. \A id \in DOMAIN proposals : Outstanding(id) = Owed[id]
  BY DEF Owed, Owing, Outstanding, Tx, Remains
<1>2. \A tx : Revoked(tx) <=> tx \in RevokedTxs
  BY DEF Revoked, RevokedTxs
<1>3. DOMAIN Owed = DOMAIN proposals
  BY DEF Owed
<1>4. queuedTransactions \subseteq UNION {Outstanding(id) : id \in DOMAIN proposals}
        <=> \A tx \in queuedTransactions : \E id \in DOMAIN proposals : tx \in Outstanding(id)
  OBVIOUS
<1> QED  BY <1>1, <1>2, <1>3, <1>4 DEF QueueInv, Matching, QueueMatchesProposals

\* The four ways the flags change together with what is owed: nothing that was owed
\* changes; a proposal is queued; it is revoked; one of its transactions is executed.
LEMMA MatchingKept ==
  ASSUME NEW owed, NEW after, NEW flags, NEW revoked, NEW more, Matching(owed, flags, revoked),
         revoked \subseteq more, DOMAIN owed \subseteq DOMAIN after,
         \A id \in DOMAIN owed : after[id] = owed[id],
         \A id \in DOMAIN after \ DOMAIN owed : after[id] = {}
  PROVE  Matching(after, flags, more)
BY DEF Matching

\* Queueing a proposal queues transactions that were not queued.
LEMMA MatchingQueues ==
  ASSUME NEW owed, NEW after, NEW flags, NEW revoked, NEW more, Matching(owed, flags, revoked),
         revoked \subseteq more, NEW id \in DOMAIN owed, NEW txs,
         DOMAIN after = DOMAIN owed, owed[id] = {}, after[id] = txs, txs \cap flags = {},
         \A other \in DOMAIN owed \ {id} : after[other] = owed[other]
  PROVE  Matching(after, flags \cup txs, more)
<1>1. ASSUME NEW tx \in flags \cup txs
      PROVE  \E i \in DOMAIN after : tx \in after[i]
  BY <1>1 DEF Matching
<1>2. ASSUME NEW tx \in txs, tx \notin more
      PROVE  \A other \in DOMAIN after \ {id} : tx \notin after[other]
  BY <1>2 DEF Matching
<1>3. ASSUME NEW i \in DOMAIN after \ {id}, NEW tx \in after[i], tx \notin more
      PROVE  tx \in flags /\ \A other \in DOMAIN after \ {i} : tx \notin after[other]
  BY <1>3 DEF Matching
<1> QED  BY <1>1, <1>2, <1>3 DEF Matching

\* Cancelling a proposal revokes its transactions.
LEMMA MatchingRevokes ==
  ASSUME NEW owed, NEW after, NEW flags, NEW revoked, NEW more, Matching(owed, flags, revoked),
         NEW txs, revoked \cup txs \subseteq more, NEW id \in DOMAIN owed,
         DOMAIN after = DOMAIN owed, owed[id] \subseteq txs, after[id] = {},
         \A other \in DOMAIN owed \ {id} : after[other] = owed[other]
  PROVE  Matching(after, flags \ txs, more)
BY DEF Matching

\* Executing a transaction takes it off the queue.
LEMMA MatchingExecutes ==
  ASSUME NEW owed, NEW after, NEW flags, NEW revoked, NEW more, Matching(owed, flags, revoked),
         revoked \subseteq more, NEW id \in DOMAIN owed, NEW tx, tx \in owed[id] \/ tx \in revoked,
         DOMAIN after = DOMAIN owed, after[id] = owed[id] \ {tx},
         \A other \in DOMAIN owed \ {id} : after[other] = owed[other]
  PROVE  Matching(after, flags \ {tx}, more)
<1>1. ASSUME NEW x \in flags \ {tx}
      PROVE  \E i \in DOMAIN after : x \in after[i]
  BY <1>1 DEF Matching
<1>2. ASSUME NEW i \in DOMAIN after, NEW x \in after[i], x \notin more
      PROVE  x \in flags \ {tx} /\ \A other \in DOMAIN after \ {i} : x \notin after[other]
  <2>1. x \in owed[i] /\ x \notin revoked
    BY <1>2
  <2>2. x \in flags /\ \A other \in DOMAIN owed \ {i} : x \notin owed[other]
    BY <1>2, <2>1 DEF Matching
  <2>3. x # tx
    BY <1>2, <2>1, <2>2
  <2> QED  BY <1>2, <2>2, <2>3
<1> QED  BY <1>1, <1>2 DEF Matching

\* What a proposal owes depends on five of its fields and on its place in the stack.
LEMMA OwingSame ==
  ASSUME NEW p, NEW q, NEW id, NEW s, NEW t,
         q.eta = p.eta, q.canceled = p.canceled, q.vetoed = p.vetoed, q.executed = p.executed,
         q.actions = p.actions,
         \A i \in DOMAIN p.actions : Remains(t, id, i) <=> Remains(s, id, i)
  PROVE  Owing(q, id, t) = Owing(p, id, s)
BY DEF Owing, Tx

\* Executing an action takes it from what is owed: no two actions are the same.
LEMMA OwingExecutes ==
  ASSUME NEW p, NEW q, NEW id, NEW s, NEW t, NEW k \in DOMAIN p.actions,
         q.eta = p.eta, q.canceled = p.canceled, q.vetoed = p.vetoed, q.actions = p.actions,
         q.executed, \A i, j \in DOMAIN p.actions : i # j => p.actions[i] # p.actions[j],
         \A i \in DOMAIN p.actions :
           Remains(t, id, i) <=> (~p.executed \/ Remains(s, id, i)) /\ i # k
  PROVE  Owing(q, id, t) = Owing(p, id, s) \ {Tx(p, k)}
BY DEF Owing, Tx

\* Pushing, advancing and popping an execution.
LEMMA PushRemains ==
  ASSUME NEW S, NEW s \in Seq(S), NEW e \in S, NEW id, NEW i
  PROVE  Remains(<<e>> \o s, id, i) <=> (e.id = id /\ e.next <= i) \/ Remains(s, id, i)
<1> DEFINE t == <<e>> \o s
<1>1. /\ Len(s) \in Nat /\ DOMAIN s = 1 .. Len(s) /\ DOMAIN t = 1 .. Len(s) + 1 /\ t[1] = e
      /\ \A c \in 1 .. Len(s) : t[c + 1] = s[c]
  OBVIOUS
<1> HIDE DEF t
<1>2. \A c \in DOMAIN t : c = 1 \/ (c - 1 \in 1 .. Len(s) /\ t[c] = s[c - 1])
  BY <1>1
<1>3. 1 \in DOMAIN t /\ \A c \in DOMAIN s : c + 1 \in DOMAIN t
  BY <1>1
<1>4. Remains(t, id, i) <=> (e.id = id /\ e.next <= i) \/ Remains(s, id, i)
  BY <1>1, <1>2, <1>3 DEF Remains
<1> QED  BY <1>4 DEF t

\* What remains to execute is in the frame on top or below it.
LEMMA PopRemains ==
  ASSUME NEW S, NEW s \in Seq(S), s # <<>>, NEW id, NEW i
  PROVE  Remains(s, id, i) <=> (s[1].id = id /\ s[1].next <= i) \/ Remains(Tail(s), id, i)
<1> DEFINE t == Tail(s)
<1>1. /\ Len(s) \in Nat /\ Len(s) > 0 /\ DOMAIN s = 1 .. Len(s) /\ DOMAIN t = 1 .. Len(s) - 1
      /\ \A c \in 1 .. Len(s) - 1 : t[c] = s[c + 1]
  OBVIOUS
<1> HIDE DEF t
<1>2. \A c \in DOMAIN s : c = 1 \/ (c - 1 \in DOMAIN t /\ t[c - 1] = s[c])
  BY <1>1
<1>3. 1 \in DOMAIN s /\ \A c \in DOMAIN t : c + 1 \in DOMAIN s
  BY <1>1
<1>4. Remains(s, id, i) <=> (s[1].id = id /\ s[1].next <= i) \/ Remains(t, id, i)
  BY <1>1, <1>2, <1>3 DEF Remains
<1> QED  BY <1>4 DEF t

\* What was revoked stays revoked.
LEMMA RevokedStay ==
  ASSUME TypeOK, ProposalsMove
  PROVE  RevokedTxs \subseteq RevokedTxs'
<1> SUFFICES ASSUME NEW id \in DOMAIN proposals,
                    proposals[id].canceled \/ proposals[id].vetoed
             PROVE  /\ id \in DOMAIN proposals'
                    /\ proposals'[id].canceled \/ proposals'[id].vetoed
                    /\ Transactions(proposals[id]) = Transactions(proposals'[id])
  BY DEF RevokedTxs
<1>1. id \in DOMAIN proposals' /\ Evolves(proposals[id], proposals'[id])
  BY ProposalsEvolve
<1> QED  BY <1>1 DEF Evolves, Transactions

\* A step that moves no flag and changes nothing of what is owed.
LEMMA QuietStep ==
  ASSUME TypeOK, QueueInv, ProposalsMove, UNCHANGED queuedTransactions,
         \A id \in DOMAIN proposals :
           /\ proposals'[id].eta = proposals[id].eta
           /\ proposals'[id].canceled = proposals[id].canceled
           /\ proposals'[id].vetoed = proposals[id].vetoed
           /\ proposals'[id].executed = proposals[id].executed
           /\ \A i \in DOMAIN proposals[id].actions :
                Remains(calls', id, i) <=> Remains(calls, id, i),
         \A id \in DOMAIN proposals' \ DOMAIN proposals : proposals'[id].eta = 0
  PROVE  QueueInv'
<1>1. \A id \in DOMAIN proposals : /\ id \in DOMAIN proposals'
                                   /\ proposals'[id].actions = proposals[id].actions
  BY ProposalsEvolve DEF Evolves
<1>2. \A id \in DOMAIN proposals :
        Owing(proposals'[id], id, calls') = Owing(proposals[id], id, calls)
  BY <1>1, OwingSame
<1>3. \A id \in DOMAIN proposals' \ DOMAIN proposals : Owing(proposals'[id], id, calls') = {}
  BY DEF Owing
<1>4. /\ DOMAIN Owed = DOMAIN proposals /\ DOMAIN Owed' = DOMAIN proposals'
      /\ \A id \in DOMAIN Owed : Owed'[id] = Owed[id]
      /\ \A id \in DOMAIN Owed' \ DOMAIN Owed : Owed'[id] = {}
  BY <1>1, <1>2, <1>3 DEF Owed
<1>5. RevokedTxs \subseteq RevokedTxs'
  BY RevokedStay
<1>6. Matching(Owed', queuedTransactions, RevokedTxs')
  BY <1>1, <1>4, <1>5, MatchingKept DEF QueueInv
<1> QED  BY <1>6 DEF QueueInv

\* A step that rewrites one proposal, of what is owed for the others.
LEMMA OwedElsewhere ==
  ASSUME TypeOK, NEW id \in ProposalIds, NEW q \in Proposal, Rewrites(id, q),
         \A other \in DOMAIN proposals \ {id} : \A i \in DOMAIN proposals[other].actions :
           Remains(calls', other, i) <=> Remains(calls, other, i)
  PROVE  /\ DOMAIN Owed' = DOMAIN Owed /\ id \in DOMAIN Owed
         /\ Owed[id] = Owing(proposals[id], id, calls) /\ Owed'[id] = Owing(q, id, calls')
         /\ \A other \in DOMAIN Owed \ {id} : Owed'[other] = Owed[other]
<1>1. /\ DOMAIN proposals' = DOMAIN proposals /\ id \in DOMAIN proposals
      /\ \A i \in DOMAIN proposals : proposals'[i] = IF i = id THEN q ELSE proposals[i]
  BY RewriteOne DEF Rewrites
<1>2. \A other \in DOMAIN proposals \ {id} :
        Owing(proposals'[other], other, calls') = Owing(proposals[other], other, calls)
  BY <1>1, OwingSame
<1> QED  BY <1>1, <1>2 DEF Owed

\* queue keeps queue and proposals matched.
LEMMA QueueQueues ==
  ASSUME CoreInv, QueueInv, NEW id \in ProposalIds, queue(id)
  PROVE  QueueInv'
<1> USE DEF CoreInv
<1> DEFINE p == proposals[id]
           q == [p EXCEPT !.eta = Eta]
<1>1. /\ id \in DOMAIN proposals /\ p \in Proposal /\ Sound(p, blockNumber)
      /\ blockNumber \in Nat /\ Derived(p) = "Succeeded"
  BY StateIs DEF queue, Exists, TypeOK, LedgerTypeOK, SoundInv
<1>2. /\ proposals' = [proposals EXCEPT ![id] = q] /\ UNCHANGED <<ledger, latestProposalIds, calls>>
      /\ Transactions(q) \cap queuedTransactions = {}
      /\ queuedTransactions' = queuedTransactions \cup Transactions(q)
      /\ \A i, j \in DOMAIN q.actions : i # j => q.actions[i] # q.actions[j]
  BY DEF queue
<1>3. /\ ~p.canceled /\ ~p.vetoed /\ p.eta = 0 /\ ~p.executed
  <2>1. ~p.canceled /\ ~p.vetoed /\ p.eta = 0
    BY <1>1 DEF Derived, StateAt
  <2> QED  BY <1>1, <2>1 DEF Sound
<1>4. Eta \in Nat \ {0}
  BY <1>1, SettingsArePositive DEF Eta, timestamp, ConfigFields
<1>5. /\ q \in Proposal /\ q.actions = p.actions /\ q.eta = Eta /\ ~q.canceled /\ ~q.vetoed
      /\ ~q.executed
  BY <1>1, <1>3, <1>4 DEF Proposal
<1>6. Rewrites(id, q)
  BY <1>1, <1>2, <1>5 DEF Rewrites, Edits, GetsEta
<1>7. Owing(p, id, calls) = {}
  BY <1>3 DEF Owing
<1>8. Owing(q, id, calls') = Transactions(q)
  BY <1>4, <1>5 DEF Owing, Transactions, Tx
<1> HIDE DEF p, q
<1>9. /\ DOMAIN Owed' = DOMAIN Owed /\ id \in DOMAIN Owed
      /\ Owed[id] = {} /\ Owed'[id] = Transactions(q)
      /\ \A other \in DOMAIN Owed \ {id} : Owed'[other] = Owed[other]
  BY <1>2, <1>5, <1>6, <1>7, <1>8, OwedElsewhere DEF p
<1>10. RevokedTxs \subseteq RevokedTxs'
  BY <1>5, <1>6, RevokedStay DEF ProposalsMove
<1>11. Matching(Owed', queuedTransactions \cup Transactions(q), RevokedTxs')
  BY <1>2, <1>9, <1>10, MatchingQueues DEF QueueInv
<1> QED  BY <1>2, <1>11 DEF QueueInv

\* cancel and veto keep queue and proposals matched.
LEMMA QueueRevokes ==
  ASSUME CoreInv, QueueInv, NEW id \in ProposalIds, (\E v \in Voters : cancel(v, id)) \/ veto(id)
  PROVE  QueueInv'
<1> USE DEF CoreInv
<1> DEFINE p == proposals[id]
<1>1. /\ id \in DOMAIN proposals /\ p \in Proposal /\ Derived(p) # "Executed"
      /\ UNCHANGED <<ledger, latestProposalIds, calls>>
      /\ queuedTransactions' = queuedTransactions \ Transactions(p)
  BY StateIs DEF cancel, veto, cancelTransactions, Exists, TypeOK
<1>2. PICK q : /\ q = [p EXCEPT !.canceled = TRUE] \/ q = [p EXCEPT !.vetoed = TRUE]
               /\ proposals' = [proposals EXCEPT ![id] = q]
  BY DEF cancel, veto
<1>3. /\ q \in Proposal /\ q.eta = p.eta /\ q.actions = p.actions
      /\ q.canceled \/ q.vetoed
  BY <1>1, <1>2 DEF Proposal
<1>4. Rewrites(id, q)
  BY <1>1, <1>2 DEF Rewrites, Edits, GetsCanceled, GetsVetoed
<1>5. Owing(q, id, calls') = {} /\ Owing(p, id, calls) \subseteq Transactions(p)
  BY <1>2, <1>3 DEF Owing, Transactions, Tx
<1>6. DOMAIN proposals' = DOMAIN proposals /\ proposals'[id] = q
  BY <1>1, <1>2
<1>7. Transactions(p) \subseteq RevokedTxs'
  BY <1>1, <1>3, <1>6 DEF RevokedTxs, Transactions
<1> HIDE DEF p
<1>8. /\ DOMAIN Owed' = DOMAIN Owed /\ id \in DOMAIN Owed
      /\ Owed[id] \subseteq Transactions(p) /\ Owed'[id] = {}
      /\ \A other \in DOMAIN Owed \ {id} : Owed'[other] = Owed[other]
  BY <1>1, <1>3, <1>4, <1>5, OwedElsewhere DEF p
<1>9. RevokedTxs \subseteq RevokedTxs'
  BY <1>3, <1>4, RevokedStay DEF ProposalsMove
<1>10. Matching(Owed', queuedTransactions \ Transactions(p), RevokedTxs')
  BY <1>7, <1>8, <1>9, MatchingRevokes DEF QueueInv
<1> QED  BY <1>1, <1>10 DEF QueueInv

\* What an action of an execution in progress or about to begin owes, k being the
\* action executed and p and q the proposal before and after.
LEMMA QueueExecutes ==
  ASSUME CoreInv, QueueInv, ProposalsMove,
         NEW id \in DOMAIN proposals, id \in DOMAIN proposals',
         NEW k \in DOMAIN proposals[id].actions,
         executeTransaction(proposals[id], k),
         proposals[id].eta # 0, proposals'[id].executed,
         proposals'[id].canceled = proposals[id].canceled,
         proposals'[id].vetoed = proposals[id].vetoed,
         DOMAIN proposals' = DOMAIN proposals,
         \A other \in DOMAIN proposals \ {id} : proposals'[other] = proposals[other],
         ~proposals[id].executed \/ Remains(calls, id, k),
         \A i \in DOMAIN proposals[id].actions :
           Remains(calls', id, i) <=>
             (~proposals[id].executed \/ Remains(calls, id, i)) /\ i # k,
         \A other \in DOMAIN proposals \ {id} : \A i \in DOMAIN proposals[other].actions :
           Remains(calls', other, i) <=> Remains(calls, other, i)
  PROVE  QueueInv'
<1> USE DEF CoreInv
<1> DEFINE p == proposals[id]
           q == proposals'[id]
<1>1. queuedTransactions' = queuedTransactions \ {Tx(p, k)}
  BY DEF executeTransaction, Tx
<1>2. q.eta = p.eta /\ q.actions = p.actions
  BY ProposalsEvolve DEF Evolves
<1>3. \A i, j \in DOMAIN p.actions : i # j => p.actions[i] # p.actions[j]
  BY DEF SoundInv, Sound
<1>4. Owing(q, id, calls') = Owing(p, id, calls) \ {Tx(p, k)}
  BY <1>2, <1>3, OwingExecutes
<1>5. Tx(p, k) \in Owing(p, id, calls) \/ Tx(p, k) \in RevokedTxs
  <2>1. CASE p.canceled \/ p.vetoed
    BY <2>1 DEF RevokedTxs, Transactions, Tx
  <2>2. CASE ~(p.canceled \/ p.vetoed)
    BY <2>2 DEF Owing
  <2> QED  BY <2>1, <2>2
<1>6. \A other \in DOMAIN proposals \ {id} :
        Owing(proposals'[other], other, calls') = Owing(proposals[other], other, calls)
  BY OwingSame
<1>7. /\ DOMAIN Owed = DOMAIN proposals /\ DOMAIN Owed' = DOMAIN Owed
      /\ Owed[id] = Owing(p, id, calls) /\ Owed'[id] = Owing(q, id, calls')
      /\ \A other \in DOMAIN Owed \ {id} : Owed'[other] = Owed[other]
  BY <1>6 DEF Owed
<1>8. RevokedTxs \subseteq RevokedTxs'
  BY RevokedStay
<1> HIDE DEF p, q
<1>9. Matching(Owed', queuedTransactions \ {Tx(p, k)}, RevokedTxs')
  BY <1>4, <1>5, <1>7, <1>8, MatchingExecutes DEF QueueInv
<1> QED  BY <1>1, <1>9 DEF QueueInv

\* The call to execute keeps queue and proposals matched.
LEMMA QueueBegins ==
  ASSUME CoreInv, StackInv, QueueInv, NEW id \in ProposalIds, BeginExecute(id)
  PROVE  QueueInv'
<1> USE DEF CoreInv
<1> DEFINE p == proposals[id]
           q == [p EXCEPT !.executed = TRUE]
           e == [id |-> id, next |-> 2]
           Call == [id : ProposalIds, next : Nat]
<1>1. /\ id \in DOMAIN proposals /\ p \in Proposal /\ calls \in Seq(Call) /\ e \in Call
      /\ p.eta # 0 /\ ~p.executed
  <2>1. id \in DOMAIN proposals /\ p \in Proposal /\ Derived(p) = "Queued"
    BY StateIs DEF BeginExecute, Exists, TypeOK
  <2> QED  BY <2>1, StateMeans DEF TypeOK, LedgerTypeOK
<1>2. /\ proposals' = [proposals EXCEPT ![id] = q] /\ calls' = <<e>> \o calls
      /\ executeTransaction(p, 1)
  BY <1>1 DEF BeginExecute
<1>3. /\ DOMAIN proposals' = DOMAIN proposals /\ proposals'[id] = q
      /\ \A other \in DOMAIN proposals \ {id} : proposals'[other] = proposals[other]
  BY <1>1, <1>2
<1>4. q.executed /\ q.canceled = p.canceled /\ q.vetoed = p.vetoed
  BY <1>1 DEF Proposal
<1>5. DOMAIN p.actions \subseteq Nat \ {0} /\ 1 \in DOMAIN p.actions
  <2>1. p.actions \in Seq(Actions) /\ p.actions # <<>>
    BY <1>1, ProposalFields, GovernorAssumption
  <2> QED  BY <2>1
<1>6. ProposalsMove
  BY BeginExecuteMoves
<1> HIDE DEF q, Call
<1>7. \A j, i : Remains(calls', j, i) <=> (j = id /\ 2 <= i) \/ Remains(calls, j, i)
  <2>1. \A j, i : Remains(calls', j, i) <=> (e.id = j /\ e.next <= i) \/ Remains(calls, j, i)
    <3> HIDE DEF e
    <3> QED  BY <1>1, <1>2, PushRemains
  <2> QED  BY <2>1
<1>8. \A i : ~Remains(calls, id, i)
  BY <1>1 DEF StackInv, Remains
<1>9. \A i \in DOMAIN p.actions :
        Remains(calls', id, i) <=> (~p.executed \/ Remains(calls, id, i)) /\ i # 1
  BY <1>1, <1>5, <1>7, <1>8
<1>10. \A other \in DOMAIN proposals \ {id} : \A i \in DOMAIN proposals[other].actions :
         Remains(calls', other, i) <=> Remains(calls, other, i)
  BY <1>7
<1> QED  BY <1>1, <1>2, <1>3, <1>4, <1>5, <1>6, <1>9, <1>10, QueueExecutes

\* Executing one more transaction keeps queue and proposals matched.
LEMMA QueueContinues ==
  ASSUME CoreInv, StackInv, QueueInv, ContinueExecute
  PROVE  QueueInv'
<1> USE DEF CoreInv
<1> DEFINE id == calls[1].id
           k == calls[1].next
           p == proposals[id]
           Call == [id : ProposalIds, next : Nat]
<1>1. /\ calls \in Seq(Call) /\ 1 \in DOMAIN calls /\ calls[1] \in Call /\ k \in Nat
  <2>1. calls \in Seq(Call) /\ calls # <<>>
    BY DEF TypeOK, ContinueExecute
  <2>2. 1 \in DOMAIN calls /\ calls[1] \in Call
    <3> HIDE DEF Call
    <3> QED  BY <2>1
  <2> QED  BY <2>1, <2>2
<1>2. /\ UNCHANGED <<proposals, latestProposalIds>> /\ executeTransaction(p, k)
      /\ k <= Len(p.actions) /\ calls' = [calls EXCEPT ![1].next = @ + 1]
  BY DEF ContinueExecute
<1>3. /\ id \in DOMAIN proposals /\ p.executed /\ p \in Proposal /\ p.eta # 0
      /\ 2 <= k
  <2>1. id \in DOMAIN proposals /\ p.executed /\ k \in 2 .. Len(p.actions) + 1
    BY <1>1 DEF StackInv
  <2>2. p \in Proposal /\ Sound(p, blockNumber)
    BY <2>1 DEF TypeOK, SoundInv
  <2>3. Len(p.actions) \in Nat
    BY <2>2, ProposalFields, GovernorAssumption
  <2> QED  BY <2>1, <2>2, <2>3 DEF Sound
<1>4. k \in DOMAIN p.actions /\ DOMAIN p.actions \subseteq Nat
  <2>1. p.actions \in Seq(Actions)
    BY <1>3, ProposalFields, GovernorAssumption
  <2> HIDE DEF p, k
  <2> QED  BY <1>1, <1>2, <1>3, <2>1
<1>5. /\ DOMAIN calls' = DOMAIN calls /\ calls'[1] = [id |-> id, next |-> k + 1]
      /\ \A c \in DOMAIN calls \ {1} : calls'[c] = calls[c]
  BY <1>1, <1>2
<1> HIDE DEF Call
<1>6. \A c \in DOMAIN calls : calls[c].id = id => c = 1
  BY <1>1 DEF StackInv
<1>7. \A i : /\ Remains(calls, id, i) <=> k <= i
             /\ Remains(calls', id, i) <=> k + 1 <= i
  BY <1>1, <1>5, <1>6 DEF Remains
<1>8. \A other : other # id =>
        \A i : Remains(calls', other, i) <=> Remains(calls, other, i)
  BY <1>1, <1>5 DEF Remains
<1>9. \A i \in DOMAIN p.actions :
        Remains(calls', id, i) <=> (~p.executed \/ Remains(calls, id, i)) /\ i # k
  BY <1>1, <1>3, <1>4, <1>7
<1>10. Remains(calls, id, k)
  BY <1>1, <1>7
<1>11. ProposalsMove
  BY <1>2 DEF ProposalsMove
<1> HIDE DEF id, k
<1> QED  BY <1>2, <1>3, <1>4, <1>8, <1>9, <1>10, <1>11, QueueExecutes

\* The end of an execution keeps queue and proposals matched.
LEMMA QueueEnds ==
  ASSUME CoreInv, StackInv, QueueInv, EndExecute
  PROVE  QueueInv'
<1> USE DEF CoreInv
<1> DEFINE Call == [id : ProposalIds, next : Nat]
<1>1. /\ calls \in Seq(Call) /\ calls # <<>> /\ calls' = Tail(calls)
      /\ UNCHANGED <<proposals, latestProposalIds, queuedTransactions>>
      /\ calls[1].next > Len(proposals[calls[1].id].actions)
  BY DEF EndExecute, TypeOK
<1> HIDE DEF Call
<1>2. ASSUME NEW id \in DOMAIN proposals, NEW i \in DOMAIN proposals[id].actions
      PROVE  Remains(calls', id, i) <=> Remains(calls, id, i)
  <2>1. Remains(calls, id, i)
          <=> (calls[1].id = id /\ calls[1].next <= i) \/ Remains(calls', id, i)
    BY <1>1, PopRemains
  <2>2. i \in 1 .. Len(proposals[id].actions) /\ Len(proposals[id].actions) \in Nat
    <3>1. proposals[id].actions \in Seq(Actions)
      BY ProposalFields, GovernorAssumption DEF TypeOK
    <3> QED  BY <3>1
  <2>3. calls[1].next \in Nat
    <3>1. calls[1] \in Call
      BY <1>1
    <3> QED  BY <3>1 DEF Call
  <2> QED  BY <1>1, <2>1, <2>2, <2>3
<1>3. ProposalsMove
  BY <1>1 DEF ProposalsMove
<1> QED  BY <1>1, <1>2, <1>3, QuietStep

\* Every step keeps queue and proposals matched.
LEMMA QueueStep ==
  ASSUME CoreInv, StackInv, QueueInv, [Next]_vars
  PROVE  QueueInv'
<1> USE DEF CoreInv
<1>1. ProposalsMove
  BY CoreStep
<1>2. ASSUME NEW v \in Voters, NEW actions \in ActionLists, propose(v, actions)
      PROVE  QueueInv'
  <2>1. UNCHANGED <<queuedTransactions, calls>>
    BY <1>2 DEF propose
  <2>2. /\ proposals'[Len(proposals) + 1].eta = 0 /\ Len(proposals) \in Nat
        /\ DOMAIN proposals = 1 .. Len(proposals) /\ DOMAIN proposals' = 1 .. Len(proposals) + 1
        /\ \A id \in DOMAIN proposals : proposals'[id] = proposals[id]
    BY <1>2, ProposeAppends DEF TypeOK
  <2>3. \A id \in DOMAIN proposals' \ DOMAIN proposals : id = Len(proposals) + 1
    BY <2>2
  <2> QED  BY <1>1, <2>1, <2>2, <2>3, QuietStep
<1>3. ASSUME NEW v \in Voters, NEW id \in ProposalIds, NEW support \in Ballots,
             castVote(v, id, support)
      PROVE  QueueInv'
  <2> DEFINE p == proposals[id]
             r == [voter |-> v, support |-> support, votes |-> VotingPower(v, id)]
  <2>1. /\ UNCHANGED <<queuedTransactions, calls>> /\ id \in DOMAIN proposals
        /\ p \in Proposal /\ proposals' = [proposals EXCEPT ![id] = Tallied(p, r)]
    BY <1>3 DEF castVote, Exists, TypeOK
  <2> HIDE DEF r
  <2>2. LET q == Tallied(p, r)
        IN  q.eta = p.eta /\ q.canceled = p.canceled /\ q.vetoed = p.vetoed
            /\ q.executed = p.executed
    BY <2>1 DEF Tallied, Proposal
  <2>3. /\ DOMAIN proposals' = DOMAIN proposals /\ proposals'[id] = Tallied(p, r)
        /\ \A other \in DOMAIN proposals \ {id} : proposals'[other] = proposals[other]
    BY <2>1
  <2> QED  BY <1>1, <2>1, <2>2, <2>3, QuietStep
<1>4. CASE \/ LedgerStep \/ (\E v \in Vetoers \cup {Zero} : _setPendingVetoer(v))
           \/ _acceptVetoer \/ _burnVetoPower \/ UNCHANGED vars
  <2>1. UNCHANGED <<queuedTransactions, calls, proposals>>
    BY <1>4 DEF LedgerStep, _setPendingVetoer, _acceptVetoer, _burnVetoPower, vars
  <2> QED  BY <1>1, <2>1, QuietStep
<1> QED  BY <1>2, <1>3, <1>4, QueueQueues, QueueRevokes, QueueBegins, QueueContinues, QueueEnds
         DEF Next

\* Every step keeps the executions under way well formed.
LEMMA StackStep ==
  ASSUME CoreInv, StackInv, [Next]_vars
  PROVE  StackInv'
<1> USE DEF CoreInv
<1> DEFINE Call == [id : ProposalIds, next : Nat]
<1>1. calls \in Seq(Call)
  BY DEF TypeOK
<1>2. \A id \in DOMAIN proposals : /\ id \in DOMAIN proposals'
                                   /\ proposals'[id].actions = proposals[id].actions
                                   /\ proposals[id].executed => proposals'[id].executed
  BY CoreStep, ProposalsEvolve DEF Evolves
<1>3. CASE UNCHANGED calls
  BY <1>2, <1>3 DEF StackInv
<1>4. ASSUME NEW id \in ProposalIds, BeginExecute(id)
      PROVE  StackInv'
  <2> DEFINE e == [id |-> id, next |-> 2]
             p == proposals[id]
  <2>1. /\ id \in DOMAIN proposals /\ p \in Proposal /\ ~p.executed
        /\ proposals' = [proposals EXCEPT ![id] = [p EXCEPT !.executed = TRUE]]
        /\ calls' = <<e>> \o calls
    <3>1. id \in DOMAIN proposals /\ p \in Proposal /\ Derived(p) = "Queued"
      BY <1>4, StateIs DEF BeginExecute, Exists, TypeOK
    <3>2. ~p.executed
      BY <3>1, StateMeans DEF TypeOK, LedgerTypeOK
    <3> QED  BY <1>4, <3>1, <3>2 DEF BeginExecute
  <2>2. proposals'[id].executed /\ p.actions # <<>> /\ p.actions \in Seq(Actions)
    <3>1. proposals'[id] = [p EXCEPT !.executed = TRUE]
      BY <2>1
    <3>2. proposals'[id].executed
      BY <2>1, <3>1 DEF Proposal
    <3> QED  BY <2>1, <3>2, ProposalFields, GovernorAssumption
  <2>3. 2 \in 2 .. Len(p.actions) + 1
    BY <2>2
  <2> HIDE DEF e, Call
  <2>4. /\ Len(calls) \in Nat /\ DOMAIN calls = 1 .. Len(calls)
        /\ DOMAIN calls' = 1 .. Len(calls) + 1 /\ calls'[1] = e
        /\ \A c \in 1 .. Len(calls) : calls'[c + 1] = calls[c]
    <3>1. e \in Call
      BY DEF e, Call
    <3> QED  BY <1>1, <2>1, <3>1
  <2>5. \A c \in DOMAIN calls' : c = 1 \/ (c - 1 \in DOMAIN calls /\ calls'[c] = calls[c - 1])
    BY <2>4
  <2>6. ASSUME NEW c \in DOMAIN calls'
        PROVE  /\ calls'[c].id \in DOMAIN proposals' /\ proposals'[calls'[c].id].executed
               /\ calls'[c].next \in 2 .. Len(proposals'[calls'[c].id].actions) + 1
    <3>1. CASE c = 1
      BY <1>2, <2>1, <2>2, <2>3, <2>4, <3>1 DEF e
    <3>2. CASE c - 1 \in DOMAIN calls /\ calls'[c] = calls[c - 1]
      BY <1>2, <3>2 DEF StackInv
    <3> QED  BY <2>5, <3>1, <3>2
  <2>7. \A c \in DOMAIN calls : calls[c].id # id
    BY <2>1 DEF StackInv
  <2>8. ASSUME NEW c \in DOMAIN calls', NEW d \in DOMAIN calls', calls'[c].id = calls'[d].id
        PROVE  c = d
    <3>1. CASE c = 1 \/ d = 1
      BY <2>4, <2>5, <2>7, <2>8, <3>1 DEF e
    <3>2. CASE c # 1 /\ d # 1
      <4>1. c - 1 = d - 1
        BY <2>5, <2>8, <3>2 DEF StackInv
      <4> QED  BY <2>4, <4>1
    <3> QED  BY <3>1, <3>2
  <2> QED  BY <2>6, <2>8 DEF StackInv
<1>5. CASE ContinueExecute
  <2>1. /\ calls # <<>> /\ UNCHANGED proposals /\ calls' = [calls EXCEPT ![1].next = @ + 1]
        /\ calls[1].next <= Len(proposals[calls[1].id].actions)
    BY <1>5 DEF ContinueExecute
  <2>2. 1 \in DOMAIN calls /\ calls[1] \in Call
    <3> HIDE DEF Call
    <3> QED  BY <1>1, <2>1
  <2>3. /\ DOMAIN calls' = DOMAIN calls
        /\ calls'[1].id = calls[1].id /\ calls'[1].next = calls[1].next + 1
        /\ \A c \in DOMAIN calls \ {1} : calls'[c] = calls[c]
    BY <1>1, <2>1, <2>2
  <2>4. calls[1].next + 1 \in 2 .. Len(proposals[calls[1].id].actions) + 1
    <3>1. calls[1].next \in 2 .. Len(proposals[calls[1].id].actions) + 1
          /\ calls[1].id \in DOMAIN proposals
      BY <2>2 DEF StackInv
    <3>2. Len(proposals[calls[1].id].actions) \in Nat
      <4>1. proposals[calls[1].id] \in Proposal
        BY <3>1 DEF TypeOK
      <4> QED  BY <4>1, ProposalFields, GovernorAssumption
    <3> QED  BY <2>1, <3>1, <3>2
  <2> HIDE DEF Call
  <2>5. \A c \in DOMAIN calls : calls'[c].id = calls[c].id
    BY <2>3
  <2>6. \A c \in DOMAIN calls' :
          /\ calls'[c].id \in DOMAIN proposals' /\ proposals'[calls'[c].id].executed
          /\ calls'[c].next \in 2 .. Len(proposals'[calls'[c].id].actions) + 1
    BY <2>1, <2>2, <2>3, <2>4 DEF StackInv
  <2>7. \A c, d \in DOMAIN calls' : calls'[c].id = calls'[d].id => c = d
    BY <2>3, <2>5 DEF StackInv
  <2> QED  BY <2>6, <2>7 DEF StackInv
<1>6. CASE EndExecute
  <2>1. calls # <<>> /\ UNCHANGED proposals /\ calls' = Tail(calls)
    BY <1>6 DEF EndExecute
  <2> HIDE DEF Call
  <2>2. /\ Len(calls) \in Nat /\ DOMAIN calls = 1 .. Len(calls)
        /\ DOMAIN calls' = 1 .. Len(calls) - 1
        /\ \A c \in 1 .. Len(calls) - 1 : calls'[c] = calls[c + 1]
    BY <1>1, <2>1
  <2>3. \A c \in DOMAIN calls' : c + 1 \in DOMAIN calls /\ calls'[c] = calls[c + 1]
    BY <2>2
  <2>4. ASSUME NEW c \in DOMAIN calls', NEW d \in DOMAIN calls', calls'[c].id = calls'[d].id
        PROVE  c = d
    <3>1. c + 1 = d + 1
      BY <2>3, <2>4 DEF StackInv
    <3> QED  BY <2>2, <3>1
  <2> QED  BY <2>1, <2>3, <2>4 DEF StackInv
<1>7. CASE \/ \E v \in Voters, actions \in ActionLists : propose(v, actions)
           \/ \E v \in Voters, id \in ProposalIds, support \in Ballots : castVote(v, id, support)
           \/ \E id \in ProposalIds : queue(id) \/ veto(id)
           \/ \E v \in Voters, id \in ProposalIds : cancel(v, id)
           \/ \E v \in Vetoers \cup {Zero} : _setPendingVetoer(v)
           \/ _acceptVetoer \/ _burnVetoPower \/ LedgerStep \/ UNCHANGED vars
  <2>1. UNCHANGED calls
    BY <1>7 DEF propose, castVote, queue, veto, cancel, _setPendingVetoer, _acceptVetoer,
                _burnVetoPower, LedgerStep, vars
  <2> QED  BY <1>3, <2>1
<1> QED  BY <1>4, <1>5, <1>6, <1>7 DEF Next

\* However executions call back into the governor to queue, cancel, veto or execute
\* more: at every moment the timelock's flags are what the proposals still owe, each
\* for one proposal alone, but for transactions that were revoked with another's.
THEOREM QueueAlwaysMatches == Spec => []QueueMatchesProposals
<1>1. ASSUME Init
      PROVE  StackInv /\ QueueInv
  <2>1. proposals = <<>> /\ calls = <<>> /\ queuedTransactions = {}
    BY <1>1 DEF Init
  <2>2. DOMAIN proposals = {} /\ DOMAIN calls = {}
    BY <2>1
  <2> QED  BY <2>1, <2>2 DEF StackInv, QueueInv, Matching, Owed
<1>2. CoreInv /\ StackInv /\ QueueInv /\ [Next]_vars => StackInv' /\ QueueInv'
  BY StackStep, QueueStep
<1> QED  BY <1>1, <1>2, MatchingIsQueueMatches, CoreInvariant, PTL DEF Spec
=============================================================================
