----------------------- MODULE WebappGovernanceTheorems -----------------------
(***************************************************************************)
(* The index of the governor and the proposal page above it, for any       *)
(* voters, weights, supplies, quorum parameters, delays and numbers of     *)
(* proposals: an up-to-date page shows the state the governor is in, and   *)
(* offers what the governor accepts.                                       *)
(*                                                                         *)
(* The invariant compares each proposal with its entity as it will be once *)
(* the event under way is handled: a transaction and a handler then become *)
(* the same step on the two sides, one on the proposal, one on the entity. *)
(*                                                                         *)
(* And the rest of the governance pages: the dialog to vote, the panel to  *)
(* delegate and the logs that are read without the subgraph, for any       *)
(* clicks, transactions and late or failing answers.  The proofs need what *)
(* the page knows while a call is under way: that a vote that counts has   *)
(* been noticed, which text an address stands for, and which of the logs   *)
(* asked for the newest answer stands for.                                 *)
(***************************************************************************)
EXTENDS WebappGovernance, VoteModal, DelegationPanel, WebappLogs,
        DynamicQuorumTheorems

-----------------------------------------------------------------------------
(* The quorum that is drawn and the one that is counted.                   *)

\* A product that is smaller by a whole multiple.
LEMMA ProductCancels ==
  ASSUME NEW a \in Nat, NEW b \in Nat, NEW n \in Nat \ {0}, n * a < n * b
  PROVE  a < b
<1>1. SUFFICES ASSUME b <= a PROVE FALSE
  OBVIOUS
<1>2. n * b <= n * a /\ n * b \in Nat /\ n * a \in Nat
  BY <1>1, ProductMonotone
<1> QED  BY <1>2

\* Rounding the share once, at the end, gives at most a basis point more than rounding
\* the adjustment before.
LEMMA ShareBeforeRounding ==
  ASSUME NEW min \in Nat, NEW max \in Nat, min <= max, NEW a \in Nat, NEW C \in Nat \ {0}
  PROVE  LET q == Smaller(max, min + a \div C)
             t == Smaller(C * min + a, C * max)
         IN  /\ q \in Nat /\ t \in Nat
             /\ C * q <= t /\ t <= C * q + C
<1> DEFINE d == a \div C
<1>1. d \in Nat /\ C * d <= a /\ a < C * d + C
  BY Quotient
<1> HIDE DEF d
<1>2. C * min \in Nat /\ C * max \in Nat /\ C * d \in Nat
  BY <1>1
<1>3. C * (min + d) = C * min + C * d /\ C * (min + d + 1) = C * min + C * d + C
  BY <1>1
<1>4. CASE min + d < max
  <2>1. min + d + 1 <= max /\ min + d + 1 \in Nat
    BY <1>1, <1>4
  <2>2. C * (min + d + 1) <= C * max
    BY <2>1, ProductMonotone
  <2>3. C * min + a < C * max
    BY <1>1, <1>2, <1>3, <2>2
  <2>4. Smaller(C * min + a, C * max) = C * min + a /\ Smaller(max, min + d) = min + d
    BY <1>1, <1>2, <1>4, <2>3 DEF Smaller
  <2>5. C * (min + d) <= C * min + a /\ C * min + a <= C * (min + d) + C
    BY <1>1, <1>2, <1>3
  <2> QED  BY <1>1, <1>2, <2>4, <2>5 DEF d
<1>5. CASE ~(min + d < max)
  <2>1. max <= min + d /\ min + d \in Nat
    BY <1>1, <1>5
  <2>2. C * max <= C * (min + d)
    BY <2>1, ProductMonotone
  <2>3. C * max <= C * min + a
    BY <1>1, <1>2, <1>3, <2>2
  <2>4. Smaller(C * min + a, C * max) = C * max /\ Smaller(max, min + d) = max
    BY <1>1, <1>2, <2>1, <2>3 DEF Smaller
  <2> QED  BY <1>2, <2>4 DEF d
<1> QED  BY <1>4, <1>5

\* The curve of the quorum (useDynamicQuorumProps), which rounds at the end only, is
\* never below the quorum of the contract, and above it by less than the votes a basis
\* point stands for.
LEMMA CurveRounds ==
  ASSUME NEW against \in Nat, NEW supply \in Nat \ {0}, NEW p \in Params,
         p.minQuorumVotesBPS <= p.maxQuorumVotesBPS
  PROVE  LET bps   == (against * Bps) \div supply
             curve == Smaller(CoefficientOne * p.minQuorumVotesBPS + p.quorumCoefficient * bps,
                              CoefficientOne * p.maxQuorumVotesBPS)
         IN  (curve * supply) \div (Bps * CoefficientOne)
               - dynamicQuorumVotes(against, supply, p) \in 0 .. 1 + supply \div Bps
<1> DEFINE C == CoefficientOne
           B == Bps
           bps == (against * B) \div supply
           a == p.quorumCoefficient * bps
           min == p.minQuorumVotesBPS
           max == p.maxQuorumVotesBPS
           q == Smaller(max, min + a \div C)
           t == Smaller(C * min + a, C * max)
           Q == (supply * q) \div B
           D == (t * supply) \div (B * C)
           S == supply \div B
<1>1. C \in Nat \ {0} /\ B \in Nat \ {0}
  BY QuorumAssumption
<1>2. min \in Nat /\ max \in Nat /\ min <= max /\ p.quorumCoefficient \in Nat
  BY DEF Params
<1>3. bps \in Nat /\ bps = (Bps * against) \div supply
  <2>1. against * B = B * against /\ against * B \in Nat
    BY <1>1
  <2> QED  BY <2>1, Quotient
<1>4. dynamicQuorumVotes(against, supply, p) = Q
  BY <1>3 DEF dynamicQuorumVotes, bps2Uint
<1> HIDE DEF bps
<1>5. a \in Nat
  BY <1>2, <1>3
<1> SUFFICES D - Q \in 0 .. 1 + S
  BY <1>4 DEF bps
<1> HIDE DEF a, min, max
<1> HIDE DEF C, B
<1>6. q \in Nat /\ t \in Nat /\ C * q <= t /\ t <= C * q + C
  BY <1>1, <1>2, <1>5, ShareBeforeRounding
<1> HIDE DEF q, t
<1>7. /\ supply * q \in Nat /\ t * supply \in Nat /\ B * C \in Nat \ {0}
      /\ C * q \in Nat
  BY <1>1, <1>6
<1>8. Q \in Nat /\ B * Q <= supply * q /\ supply * q < B * Q + B
  BY <1>1, <1>7, Quotient
<1>9. D \in Nat /\ (B * C) * D <= t * supply /\ t * supply < (B * C) * D + B * C
  BY <1>7, Quotient
<1>10. S \in Nat /\ B * S <= supply /\ supply < B * S + B
  BY <1>1, Quotient
<1> HIDE DEF Q, D, S
<1>11. Q < D + 1
  <2>1. C * (B * Q) <= C * (supply * q)
    <3>1. B * Q \in Nat
      BY <1>1, <1>8
    <3> QED  BY <1>1, <1>7, <1>8, <3>1, ProductMonotone
  <2>2. C * (supply * q) = supply * (C * q)
    BY <1>1, <1>6
  <2>3. supply * (C * q) <= supply * t
    BY <1>6, <1>7, ProductMonotone
  <2>4. supply * t = t * supply
    BY <1>6
  <2>5. C * (B * Q) = (B * C) * Q /\ (B * C) * (D + 1) = (B * C) * D + B * C
    BY <1>1, <1>8, <1>9
  <2>6. (B * C) * Q \in Nat /\ supply * (C * q) \in Nat /\ (B * C) * D \in Nat
    BY <1>7, <1>8, <1>9
  <2> DEFINE n == B * C
             x == n * Q
             y == n * (D + 1)
  <2>7. x <= t * supply /\ t * supply < y
    <3>1. x <= t * supply
      BY <2>1, <2>2, <2>3, <2>4, <2>5, <2>6, <1>7
    <3> QED  BY <3>1, <1>9, <2>5
  <2>8. n \in Nat \ {0} /\ x \in Nat /\ y \in Nat
    BY <1>7, <2>6, <1>9
  <2>9. x < y
    BY <2>7, <2>8, <1>7
  <2> QED
    <3> HIDE DEF n
    <3>1. D + 1 \in Nat
      BY <1>9
    <3> QED  BY <2>8, <2>9, <1>8, <3>1, ProductCancels
<1>12. D < Q + S + 2
  <2> DEFINE n == B * C
             over == C * (supply * q + supply)
  <2>1. t * supply <= over
    <3>1. supply * t <= supply * (C * q + C)
      <4>1. C * q + C \in Nat
        BY <1>1, <1>7
      <4> QED  BY <1>6, <4>1, ProductMonotone
    <3>2. supply * (C * q + C) = over /\ supply * t = t * supply
      BY <1>1, <1>6
    <3> QED  BY <3>1, <3>2
  <2>2. over < C * (B * (Q + S + 2))
    <3>1. B * (Q + S + 2) = (B * Q + B) + (B * S + B)
      BY <1>1, <1>8, <1>10
    <3>2. B * Q \in Nat /\ B * S \in Nat
      BY <1>1, <1>8, <1>10
    <3> DEFINE u == supply * q + supply
               v == B * (Q + S + 2)
    <3>3. u \in Nat /\ v \in Nat /\ u < v
      BY <3>1, <3>2, <1>1, <1>7, <1>8, <1>10
    <3> HIDE DEF u, v
    <3>4. C * (u + 1) <= C * v
      BY <3>3, <1>1, ProductMonotone
    <3>5. C * (u + 1) = C * u + C /\ C * u \in Nat /\ C * v \in Nat
      BY <3>3, <1>1
    <3>6. C * u < C * v
      BY <3>4, <3>5, <1>1
    <3> QED  BY <3>6 DEF u, v
  <2>3. C * (B * (Q + S + 2)) = n * (Q + S + 2)
    BY <1>1, <1>8, <1>10
  <2>4. n * D <= t * supply
    BY <1>9
  <2>5. n \in Nat \ {0} /\ n * D \in Nat /\ n * (Q + S + 2) \in Nat /\ over \in Nat
    BY <1>1, <1>6, <1>7, <1>8, <1>9, <1>10
  <2>6. n * D < n * (Q + S + 2)
    <3> HIDE DEF over, n
    <3> QED  BY <2>1, <2>2, <2>3, <2>4, <2>5, <1>7
  <2> HIDE DEF n
  <2>7. Q + S + 2 \in Nat
    BY <1>8, <1>10
  <2> QED  BY <2>5, <2>6, <2>7, <1>9, ProductCancels
<1> QED  BY <1>8, <1>9, <1>10, <1>11, <1>12

-----------------------------------------------------------------------------
(* The invariant.                                                          *)

ProposalRecord ==
  [proposer : Proposers, creationBlock : Nat, startBlock : Nat, endBlock : Nat,
   totalSupply : Nat \ {0}, forVotes : Nat, againstVotes : Nat, abstainVotes : Nat, eta : Nat,
   canceled : BOOLEAN, vetoed : BOOLEAN, executed : BOOLEAN, voted : SUBSET Voters,
   atCreation : Params]

Settable == {"minQuorumVotesBPS", "maxQuorumVotesBPS", "quorumCoefficient"}

Events ==
  {NoEvent}
    \cup [event : {"ProposalCreated"}, id : ProposalIds, proposer : Proposers, block : Nat,
          startBlock : Nat, endBlock : Nat, totalSupply : Nat, quorumVotes : Nat]
    \cup [event : {"VoteCast"}, id : ProposalIds, voter : Voters, support : 0 .. 2, votes : Nat]
    \cup [event : {"ProposalQueued"}, id : ProposalIds, eta : Nat]
    \cup [event : {"ProposalExecuted", "ProposalCanceled", "ProposalVetoed"}, id : ProposalIds]
    \cup [event : {"ParamsSet"}, field : Settable, to : Nat, block : Nat]

\* The proposal an event is about.
Concerns(e, id) == e.event \notin {"none", "ParamsSet"} /\ e.id = id

Ordered(params) == params.minQuorumVotesBPS <= params.maxQuorumVotesBPS

\* The checkpoints of the quorum parameters.
ParamsInv ==
  /\ block \in Nat /\ block >= 2
  /\ quorumParams \in Seq(ParamsCheckpoint) /\ Len(quorumParams) >= 1
  /\ InTime(quorumParams, block)
  /\ Ordered(quorumParams[Len(quorumParams)].params)

\* One proposal: its dates follow from its creation; votes, queueing and execution
\* each presuppose what came before, and what the governor found then still holds.
ProposalInv(p) ==
  /\ p \in ProposalRecord
  /\ p.creationBlock >= 2 /\ p.creationBlock <= block
  /\ p.startBlock = p.creationBlock + votingDelay
  /\ p.endBlock = p.startBlock + votingPeriod
  /\ Ordered(p.atCreation)
  /\ p.voted # {} => block > p.startBlock
  /\ p.eta # 0 => block > p.endBlock /\ ~(p.forVotes <= p.againstVotes)
                  /\ ~(p.forVotes < quorumVotes(p))
  /\ p.executed => p.eta # 0 /\ ~p.canceled /\ ~p.vetoed

GovernorInv ==
  /\ ParamsInv
  /\ Created \subseteq ProposalIds
  /\ proposals = [id \in Created |-> proposals[id]]
  /\ \A id \in Created : ProposalInv(proposals[id])

EventInv ==
  /\ emitted \in Events
  /\ emitted.event \notin {"none", "ParamsSet"} => emitted.id \in Created

\* The statuses an entity of a proposal may have.
StatusesOf(p) ==
  IF p.canceled \/ p.vetoed
    THEN {s \in {"CANCELLED", "VETOED"} : IF s = "VETOED" THEN p.vetoed ELSE p.canceled}
  ELSE IF p.executed THEN {"EXECUTED"}
  ELSE IF p.eta # 0 THEN {"QUEUED"}
  ELSE {s \in {"PENDING", "ACTIVE"} : s = "ACTIVE" => p.voted # {}}

EntityFor(p, status) ==
  [proposer |-> p.proposer, createdBlock |-> p.creationBlock, startBlock |-> p.startBlock,
   endBlock |-> p.endBlock, totalSupply |-> p.totalSupply,
   quorumVotes |-> dynamicQuorumVotes(p.againstVotes, p.totalSupply, p.atCreation),
   forVotes |-> p.forVotes, againstVotes |-> p.againstVotes, abstainVotes |-> p.abstainVotes,
   params |-> p.atCreation, status |-> status,
   executionETA |-> IF p.executed THEN 0 ELSE p.eta]

Mirrors(x, p) == \E status \in StatusesOf(p) : x = EntityFor(p, status)

\* The entity a creation makes, and what the other events make of one.
EntityOf(e, params) ==
  [proposer |-> e.proposer, createdBlock |-> e.block, startBlock |-> e.startBlock,
   endBlock |-> e.endBlock, totalSupply |-> e.totalSupply, quorumVotes |-> e.quorumVotes,
   forVotes |-> 0, againstVotes |-> 0, abstainVotes |-> 0, params |-> params,
   status |-> IF e.block >= e.startBlock THEN "ACTIVE" ELSE "PENDING", executionETA |-> 0]

WithVotes(x, e) ==
  LET after == [x EXCEPT ![VoteFields[e.support + 1]] = @ + e.votes,
                         !.status = IF @ = "PENDING" THEN "ACTIVE" ELSE @]
  IN [after EXCEPT !.quorumVotes =
        dynamicQuorumVotes(after.againstVotes, after.totalSupply, after.params)]

Applied(x, e) ==
  CASE e.event = "ProposalCanceled" -> [x EXCEPT !.status = "CANCELLED"]
    [] e.event = "ProposalVetoed"   -> [x EXCEPT !.status = "VETOED"]
    [] e.event = "ProposalQueued"   -> [x EXCEPT !.status = "QUEUED", !.executionETA = e.eta]
    [] e.event = "ProposalExecuted" -> [x EXCEPT !.status = "EXECUTED", !.executionETA = 0]
    [] e.event = "VoteCast"         -> WithVotes(x, e)

\* The entity of a proposal once the event under way is handled.
EntityDue(id) ==
  IF ~Concerns(emitted, id) THEN proposalEntity[id]
  ELSE IF emitted.event = "ProposalCreated" THEN EntityOf(emitted, latestParams.params)
  ELSE Applied(proposalEntity[id], emitted)

EntityInv ==
  /\ DOMAIN proposalEntity =
       IF emitted.event = "ProposalCreated" THEN Created \ {emitted.id} ELSE Created
  /\ proposalEntity = [id \in DOMAIN proposalEntity |-> proposalEntity[id]]
  /\ \A id \in Created : Mirrors(EntityDue(id), proposals[id])

\* The parameters likewise.
ParamsDue ==
  IF emitted.event = "ParamsSet" THEN [latestParams.params EXCEPT ![emitted.field] = emitted.to]
  ELSE latestParams.params

LatestInv ==
  /\ latestParams \in [params : Params, dynamicQuorumStartBlock : {1}]
  /\ ParamsDue = quorumParams[Len(quorumParams)].params

\* The votes likewise: they add up to what the contract counted.
VotesDue ==
  IF emitted.event = "VoteCast"
  THEN Put(voteEntity, <<emitted.voter, emitted.id>>,
           [support |-> emitted.support, votes |-> emitted.votes])
  ELSE voteEntity

VotersAgainst(votes, id) ==
  {v \in Voters : <<v, id>> \in DOMAIN votes /\ Weight[v] > 0 /\ votes[<<v, id>>].support = 0}

VotesInv ==
  /\ \A id \in ProposalIds \ Created, v \in Voters : <<v, id>> \notin DOMAIN VotesDue
  /\ \A id \in Created :
       /\ \A v \in Voters : <<v, id>> \in DOMAIN VotesDue => v \in proposals[id].voted
       /\ proposals[id].againstVotes = SumFunctionOnSet(Weight, VotersAgainst(VotesDue, id))

ShownInv ==
  /\ shown # <<>> => shown[1] \in DOMAIN proposalEntity
  /\ pending # {} => shown # <<>>

IndexInv ==
  GovernorInv /\ EventInv /\ EntityInv /\ LatestInv /\ VotesInv /\ ShownInv

DaoInv == GovernorInv /\ EventInv /\ EntityInv /\ LatestInv /\ VotesInv

-----------------------------------------------------------------------------
(* A proposal and its entity, step by step.                                *)

\* With no votes against it, the quorum is the minimum.
LEMMA QuorumWithoutVotes ==
  ASSUME NEW supply \in Nat \ {0}, NEW params \in Params, Ordered(params)
  PROVE  /\ dynamicQuorumVotes(0, supply, params) = bps2Uint(params.minQuorumVotesBPS, supply)
         /\ bps2Uint(params.minQuorumVotesBPS, supply) \in Nat
<1> DEFINE min == params.minQuorumVotesBPS
           max == params.maxQuorumVotesBPS
           c == params.quorumCoefficient
<1>1. min \in Nat /\ max \in Nat /\ c \in Nat /\ min <= max
  BY DEF Params, Ordered
<1>2. (Bps * 0) \div supply = 0
  <2>1. Bps * 0 = 0
    BY QuorumAssumption
  <2> QED  BY <2>1
<1>3. (c * 0) \div CoefficientOne = 0
  <2>1. c * 0 = 0
    BY <1>1
  <2> QED  BY <2>1, QuorumAssumption
<1>4. Smaller(max, min + 0) = min
  BY <1>1 DEF Smaller
<1>5. bps2Uint(min, supply) \in Nat
  BY <1>1, ShareMonotone
<1> QED  BY <1>2, <1>3, <1>4, <1>5 DEF dynamicQuorumVotes

\* The statuses of the four events that end or queue a proposal.
LEMMA CancelMirrors ==
  ASSUME NEW p \in ProposalRecord, NEW x, Mirrors(x, p), NEW e, e.event = "ProposalCanceled",
         ~p.executed
  PROVE  Mirrors(Applied(x, e), [p EXCEPT !.canceled = TRUE])
<1> DEFINE q == [p EXCEPT !.canceled = TRUE]
<1>1. PICK s \in StatusesOf(p) : x = EntityFor(p, s)
  BY DEF Mirrors
<1>2. Applied(x, e) = [x EXCEPT !.status = "CANCELLED"]
  BY DEF Applied
<1>3. [EntityFor(p, s) EXCEPT !.status = "CANCELLED"] = EntityFor(p, "CANCELLED")
  BY DEF EntityFor
<1>4. EntityFor(q, "CANCELLED") = EntityFor(p, "CANCELLED")
  BY DEF EntityFor, ProposalRecord
<1>5. "CANCELLED" \in StatusesOf(q)
  BY DEF StatusesOf, ProposalRecord
<1> QED  BY <1>1, <1>2, <1>3, <1>4, <1>5 DEF Mirrors

\* ProposalVetoed is mirrored.
LEMMA VetoMirrors ==
  ASSUME NEW p \in ProposalRecord, NEW x, Mirrors(x, p), NEW e, e.event = "ProposalVetoed",
         ~p.executed
  PROVE  Mirrors(Applied(x, e), [p EXCEPT !.vetoed = TRUE])
<1> DEFINE q == [p EXCEPT !.vetoed = TRUE]
<1>1. PICK s \in StatusesOf(p) : x = EntityFor(p, s)
  BY DEF Mirrors
<1>2. Applied(x, e) = [x EXCEPT !.status = "VETOED"]
  BY DEF Applied
<1>3. [EntityFor(p, s) EXCEPT !.status = "VETOED"] = EntityFor(p, "VETOED")
  BY DEF EntityFor
<1>4. EntityFor(q, "VETOED") = EntityFor(p, "VETOED")
  BY DEF EntityFor, ProposalRecord
<1>5. "VETOED" \in StatusesOf(q)
  BY DEF StatusesOf, ProposalRecord
<1> QED  BY <1>1, <1>2, <1>3, <1>4, <1>5 DEF Mirrors

\* ProposalQueued is mirrored.
LEMMA QueueMirrors ==
  ASSUME NEW p \in ProposalRecord, NEW x, Mirrors(x, p), NEW e, e.event = "ProposalQueued",
         e.eta \in Nat \ {0}, ~p.executed, ~p.canceled, ~p.vetoed
  PROVE  Mirrors(Applied(x, e), [p EXCEPT !.eta = e.eta])
<1> DEFINE q == [p EXCEPT !.eta = e.eta]
<1>1. PICK s \in StatusesOf(p) : x = EntityFor(p, s)
  BY DEF Mirrors
<1>2. Applied(x, e) = [x EXCEPT !.status = "QUEUED", !.executionETA = e.eta]
  BY DEF Applied
<1>3. [EntityFor(p, s) EXCEPT !.status = "QUEUED", !.executionETA = e.eta]
        = EntityFor(q, "QUEUED")
  <2> DEFINE eta == e.eta
  <2>1. /\ q.proposer = p.proposer /\ q.creationBlock = p.creationBlock
        /\ q.startBlock = p.startBlock /\ q.endBlock = p.endBlock
        /\ q.totalSupply = p.totalSupply /\ q.atCreation = p.atCreation
        /\ q.forVotes = p.forVotes /\ q.againstVotes = p.againstVotes
        /\ q.abstainVotes = p.abstainVotes /\ q.executed = p.executed /\ q.eta = eta
    BY DEF ProposalRecord
  <2> HIDE DEF eta, q
  <2> DEFINE y == [EntityFor(p, s) EXCEPT !.status = "QUEUED"]
  <2>2. y = EntityFor(p, "QUEUED")
    BY DEF EntityFor
  <2>3. [EntityFor(p, s) EXCEPT !.status = "QUEUED", !.executionETA = eta]
          = [y EXCEPT !.executionETA = eta]
    OBVIOUS
  <2> HIDE DEF y
  <2>4. [y EXCEPT !.executionETA = eta] = EntityFor(q, "QUEUED")
    BY <2>1, <2>2 DEF EntityFor
  <2> QED  BY <2>3, <2>4 DEF eta
<1>4. "QUEUED" \in StatusesOf(q)
  BY DEF StatusesOf, ProposalRecord
<1> QED  BY <1>1, <1>2, <1>3, <1>4 DEF Mirrors

\* ProposalExecuted is mirrored.
LEMMA ExecuteMirrors ==
  ASSUME NEW p \in ProposalRecord, NEW x, Mirrors(x, p), NEW e, e.event = "ProposalExecuted",
         ~p.canceled, ~p.vetoed
  PROVE  Mirrors(Applied(x, e), [p EXCEPT !.executed = TRUE])
<1> DEFINE q == [p EXCEPT !.executed = TRUE]
<1>1. PICK s \in StatusesOf(p) : x = EntityFor(p, s)
  BY DEF Mirrors
<1>2. Applied(x, e) = [x EXCEPT !.status = "EXECUTED", !.executionETA = 0]
  BY DEF Applied
<1>3. [EntityFor(p, s) EXCEPT !.status = "EXECUTED", !.executionETA = 0]
        = EntityFor(q, "EXECUTED")
  <2> DEFINE y == [EntityFor(p, s) EXCEPT !.status = "EXECUTED"]
  <2>1. /\ q.proposer = p.proposer /\ q.creationBlock = p.creationBlock
        /\ q.startBlock = p.startBlock /\ q.endBlock = p.endBlock
        /\ q.totalSupply = p.totalSupply /\ q.atCreation = p.atCreation
        /\ q.forVotes = p.forVotes /\ q.againstVotes = p.againstVotes
        /\ q.abstainVotes = p.abstainVotes /\ q.executed
    BY DEF ProposalRecord
  <2>2. y = EntityFor(p, "EXECUTED")
    BY DEF EntityFor
  <2>3. [EntityFor(p, s) EXCEPT !.status = "EXECUTED", !.executionETA = 0]
          = [y EXCEPT !.executionETA = 0]
    OBVIOUS
  <2> HIDE DEF y, q
  <2>4. [y EXCEPT !.executionETA = 0] = EntityFor(q, "EXECUTED")
    BY <2>1, <2>2 DEF EntityFor
  <2> QED  BY <2>3, <2>4
<1>4. "EXECUTED" \in StatusesOf(q)
  BY DEF StatusesOf, ProposalRecord
<1> QED  BY <1>1, <1>2, <1>3, <1>4 DEF Mirrors

\* A vote: both count it, and the entity's quorum follows.
WithBallot(p, voter, support) ==
  [p EXCEPT ![VoteFields[support + 1]] = @ + Weight[voter], !.voted = @ \cup {voter}]

\* What a ballot changes in a proposal.
LEMMA BallotFields ==
  ASSUME NEW p \in ProposalRecord, NEW voter \in Voters, NEW support \in 0 .. 2
  PROVE  LET q == WithBallot(p, voter, support)
         IN  /\ q.forVotes = IF support = 1 THEN p.forVotes + Weight[voter] ELSE p.forVotes
             /\ q.againstVotes = IF support = 0 THEN p.againstVotes + Weight[voter]
                                 ELSE p.againstVotes
             /\ q.abstainVotes = IF support = 2 THEN p.abstainVotes + Weight[voter]
                                 ELSE p.abstainVotes
             /\ q.voted = p.voted \cup {voter}
             /\ q.proposer = p.proposer /\ q.creationBlock = p.creationBlock
             /\ q.startBlock = p.startBlock /\ q.endBlock = p.endBlock
             /\ q.totalSupply = p.totalSupply /\ q.atCreation = p.atCreation
             /\ q.eta = p.eta /\ q.canceled = p.canceled /\ q.vetoed = p.vetoed
             /\ q.executed = p.executed
             /\ q \in ProposalRecord
<1> DEFINE w == Weight[voter]
           q == WithBallot(p, voter, support)
<1>1. w \in Nat
  BY SubgraphDAOAssumption DEF Voters
<1> SUFFICES /\ q.forVotes = IF support = 1 THEN p.forVotes + w ELSE p.forVotes
             /\ q.againstVotes = IF support = 0 THEN p.againstVotes + w ELSE p.againstVotes
             /\ q.abstainVotes = IF support = 2 THEN p.abstainVotes + w ELSE p.abstainVotes
             /\ q.voted = p.voted \cup {voter}
             /\ q.proposer = p.proposer /\ q.creationBlock = p.creationBlock
             /\ q.startBlock = p.startBlock /\ q.endBlock = p.endBlock
             /\ q.totalSupply = p.totalSupply /\ q.atCreation = p.atCreation
             /\ q.eta = p.eta /\ q.canceled = p.canceled /\ q.vetoed = p.vetoed
             /\ q.executed = p.executed
             /\ q \in ProposalRecord
  OBVIOUS
<1> HIDE DEF w, q
<1>2. CASE support = 0
  <2> DEFINE counted == [p EXCEPT !.againstVotes = @ + w]
  <2>1. VoteFields[support + 1] = "againstVotes"
    BY <1>2 DEF VoteFields
  <2>2. q = [counted EXCEPT !.voted = @ \cup {voter}]
    BY <2>1 DEF WithBallot, ProposalRecord, w, q
  <2>3. counted \in ProposalRecord
    BY <1>1 DEF ProposalRecord
  <2>4. /\ counted.againstVotes = p.againstVotes + w
        /\ counted.forVotes = p.forVotes /\ counted.abstainVotes = p.abstainVotes
        /\ counted.voted = p.voted
        /\ counted.proposer = p.proposer /\ counted.creationBlock = p.creationBlock
        /\ counted.startBlock = p.startBlock /\ counted.endBlock = p.endBlock
        /\ counted.totalSupply = p.totalSupply /\ counted.atCreation = p.atCreation
        /\ counted.eta = p.eta /\ counted.canceled = p.canceled
        /\ counted.vetoed = p.vetoed /\ counted.executed = p.executed
    BY DEF ProposalRecord
  <2> HIDE DEF counted
  <2>5. /\ q.forVotes = counted.forVotes /\ q.againstVotes = counted.againstVotes
        /\ q.abstainVotes = counted.abstainVotes
        /\ q.voted = counted.voted \cup {voter}
        /\ q.proposer = counted.proposer /\ q.creationBlock = counted.creationBlock
        /\ q.startBlock = counted.startBlock /\ q.endBlock = counted.endBlock
        /\ q.totalSupply = counted.totalSupply /\ q.atCreation = counted.atCreation
        /\ q.eta = counted.eta /\ q.canceled = counted.canceled
        /\ q.vetoed = counted.vetoed /\ q.executed = counted.executed
    BY <2>2, <2>3 DEF ProposalRecord
  <2>6. q \in ProposalRecord
    BY <2>2, <2>3 DEF ProposalRecord
  <2> QED  BY <1>2, <2>4, <2>5, <2>6
<1>3. CASE support = 1
  <2> DEFINE counted == [p EXCEPT !.forVotes = @ + w]
  <2>1. VoteFields[support + 1] = "forVotes"
    BY <1>3 DEF VoteFields
  <2>2. q = [counted EXCEPT !.voted = @ \cup {voter}]
    BY <2>1 DEF WithBallot, ProposalRecord, w, q
  <2>3. counted \in ProposalRecord
    BY <1>1 DEF ProposalRecord
  <2>4. /\ counted.forVotes = p.forVotes + w
        /\ counted.againstVotes = p.againstVotes /\ counted.abstainVotes = p.abstainVotes
        /\ counted.voted = p.voted
        /\ counted.proposer = p.proposer /\ counted.creationBlock = p.creationBlock
        /\ counted.startBlock = p.startBlock /\ counted.endBlock = p.endBlock
        /\ counted.totalSupply = p.totalSupply /\ counted.atCreation = p.atCreation
        /\ counted.eta = p.eta /\ counted.canceled = p.canceled
        /\ counted.vetoed = p.vetoed /\ counted.executed = p.executed
    BY DEF ProposalRecord
  <2> HIDE DEF counted
  <2>5. /\ q.forVotes = counted.forVotes /\ q.againstVotes = counted.againstVotes
        /\ q.abstainVotes = counted.abstainVotes
        /\ q.voted = counted.voted \cup {voter}
        /\ q.proposer = counted.proposer /\ q.creationBlock = counted.creationBlock
        /\ q.startBlock = counted.startBlock /\ q.endBlock = counted.endBlock
        /\ q.totalSupply = counted.totalSupply /\ q.atCreation = counted.atCreation
        /\ q.eta = counted.eta /\ q.canceled = counted.canceled
        /\ q.vetoed = counted.vetoed /\ q.executed = counted.executed
    BY <2>2, <2>3 DEF ProposalRecord
  <2>6. q \in ProposalRecord
    BY <2>2, <2>3 DEF ProposalRecord
  <2> QED  BY <1>3, <2>4, <2>5, <2>6
<1>4. CASE support = 2
  <2> DEFINE counted == [p EXCEPT !.abstainVotes = @ + w]
  <2>1. VoteFields[support + 1] = "abstainVotes"
    BY <1>4 DEF VoteFields
  <2>2. q = [counted EXCEPT !.voted = @ \cup {voter}]
    BY <2>1 DEF WithBallot, ProposalRecord, w, q
  <2>3. counted \in ProposalRecord
    BY <1>1 DEF ProposalRecord
  <2>4. /\ counted.abstainVotes = p.abstainVotes + w
        /\ counted.againstVotes = p.againstVotes /\ counted.forVotes = p.forVotes
        /\ counted.voted = p.voted
        /\ counted.proposer = p.proposer /\ counted.creationBlock = p.creationBlock
        /\ counted.startBlock = p.startBlock /\ counted.endBlock = p.endBlock
        /\ counted.totalSupply = p.totalSupply /\ counted.atCreation = p.atCreation
        /\ counted.eta = p.eta /\ counted.canceled = p.canceled
        /\ counted.vetoed = p.vetoed /\ counted.executed = p.executed
    BY DEF ProposalRecord
  <2> HIDE DEF counted
  <2>5. /\ q.forVotes = counted.forVotes /\ q.againstVotes = counted.againstVotes
        /\ q.abstainVotes = counted.abstainVotes
        /\ q.voted = counted.voted \cup {voter}
        /\ q.proposer = counted.proposer /\ q.creationBlock = counted.creationBlock
        /\ q.startBlock = counted.startBlock /\ q.endBlock = counted.endBlock
        /\ q.totalSupply = counted.totalSupply /\ q.atCreation = counted.atCreation
        /\ q.eta = counted.eta /\ q.canceled = counted.canceled
        /\ q.vetoed = counted.vetoed /\ q.executed = counted.executed
    BY <2>2, <2>3 DEF ProposalRecord
  <2>6. q \in ProposalRecord
    BY <2>2, <2>3 DEF ProposalRecord
  <2> QED  BY <1>4, <2>4, <2>5, <2>6
<1> QED  BY <1>2, <1>3, <1>4

\* VoteCast is mirrored.
LEMMA VoteMirrors ==
  ASSUME NEW p \in ProposalRecord, NEW x, Mirrors(x, p), NEW voter \in Voters,
         NEW support \in 0 .. 2, NEW e, e.event = "VoteCast", e.support = support,
         e.votes = Weight[voter], ~p.canceled, ~p.vetoed, ~p.executed, p.eta = 0
  PROVE  Mirrors(Applied(x, e), WithBallot(p, voter, support))
<1> DEFINE q == WithBallot(p, voter, support)
           w == Weight[voter]
           entity(status, for, against, abstain, quorum) ==
             [proposer |-> p.proposer, createdBlock |-> p.creationBlock,
              startBlock |-> p.startBlock, endBlock |-> p.endBlock,
              totalSupply |-> p.totalSupply, quorumVotes |-> quorum, forVotes |-> for,
              againstVotes |-> against, abstainVotes |-> abstain, params |-> p.atCreation,
              status |-> status, executionETA |-> 0]
           old == dynamicQuorumVotes(p.againstVotes, p.totalSupply, p.atCreation)
           quorum == dynamicQuorumVotes(q.againstVotes, q.totalSupply, q.atCreation)
<1>1. PICK s \in StatusesOf(p) : x = EntityFor(p, s)
  BY DEF Mirrors
<1>2. s \in {"PENDING", "ACTIVE"}
  BY <1>1 DEF StatusesOf
<1>3. /\ q.forVotes = IF support = 1 THEN p.forVotes + w ELSE p.forVotes
      /\ q.againstVotes = IF support = 0 THEN p.againstVotes + w ELSE p.againstVotes
      /\ q.abstainVotes = IF support = 2 THEN p.abstainVotes + w ELSE p.abstainVotes
      /\ q.voted = p.voted \cup {voter}
      /\ q.proposer = p.proposer /\ q.creationBlock = p.creationBlock
      /\ q.startBlock = p.startBlock /\ q.endBlock = p.endBlock
      /\ q.totalSupply = p.totalSupply /\ q.atCreation = p.atCreation
      /\ q.eta = p.eta /\ q.canceled = p.canceled /\ q.vetoed = p.vetoed
      /\ q.executed = p.executed
  BY BallotFields
<1> HIDE DEF q
<1>4. "ACTIVE" \in StatusesOf(q)
  BY <1>3 DEF StatusesOf
<1>5. x = entity(s, p.forVotes, p.againstVotes, p.abstainVotes, old)
  BY <1>1 DEF EntityFor
<1>6. EntityFor(q, "ACTIVE") =
        entity("ACTIVE", q.forVotes, q.againstVotes, q.abstainVotes, quorum)
  BY <1>3 DEF EntityFor
<1> DEFINE after == [x EXCEPT ![VoteFields[e.support + 1]] = @ + e.votes,
                              !.status = IF @ = "PENDING" THEN "ACTIVE" ELSE @]
<1>7. Applied(x, e) = [after EXCEPT !.quorumVotes =
                dynamicQuorumVotes(after.againstVotes, after.totalSupply, after.params)]
  BY DEF Applied, WithVotes
<1> HIDE DEF old, quorum, w, after
<1>8. after = entity("ACTIVE", q.forVotes, q.againstVotes, q.abstainVotes, old)
  <2>0. w = e.votes
    BY DEF w
  <2>1. CASE support = 0
    <3>1. VoteFields[e.support + 1] = "againstVotes"
      BY <2>1 DEF VoteFields
    <3>2. /\ q.forVotes = p.forVotes /\ q.againstVotes = p.againstVotes + w
          /\ q.abstainVotes = p.abstainVotes
      BY <1>3, <2>1
    <3> DEFINE y == [x EXCEPT !.againstVotes = @ + w]
    <3>3. y = entity(s, q.forVotes, q.againstVotes, q.abstainVotes, old)
      BY <1>5, <3>2
    <3>4. after = [y EXCEPT !.status = IF @ = "PENDING" THEN "ACTIVE" ELSE @]
      BY <2>0, <3>1 DEF after
    <3> HIDE DEF y
    <3> QED  BY <1>2, <3>3, <3>4
  <2>2. CASE support = 1
    <3>1. VoteFields[e.support + 1] = "forVotes"
      BY <2>2 DEF VoteFields
    <3>2. /\ q.forVotes = p.forVotes + w /\ q.againstVotes = p.againstVotes
          /\ q.abstainVotes = p.abstainVotes
      BY <1>3, <2>2
    <3> DEFINE y == [x EXCEPT !.forVotes = @ + w]
    <3>3. y = entity(s, q.forVotes, q.againstVotes, q.abstainVotes, old)
      BY <1>5, <3>2
    <3>4. after = [y EXCEPT !.status = IF @ = "PENDING" THEN "ACTIVE" ELSE @]
      BY <2>0, <3>1 DEF after
    <3> HIDE DEF y
    <3> QED  BY <1>2, <3>3, <3>4
  <2>3. CASE support = 2
    <3>1. VoteFields[e.support + 1] = "abstainVotes"
      BY <2>3 DEF VoteFields
    <3>2. /\ q.forVotes = p.forVotes /\ q.againstVotes = p.againstVotes
          /\ q.abstainVotes = p.abstainVotes + w
      BY <1>3, <2>3
    <3> DEFINE y == [x EXCEPT !.abstainVotes = @ + w]
    <3>3. y = entity(s, q.forVotes, q.againstVotes, q.abstainVotes, old)
      BY <1>5, <3>2
    <3>4. after = [y EXCEPT !.status = IF @ = "PENDING" THEN "ACTIVE" ELSE @]
      BY <2>0, <3>1 DEF after
    <3> HIDE DEF y
    <3> QED  BY <1>2, <3>3, <3>4
  <2> QED  BY <2>1, <2>2, <2>3
<1>9. /\ after.againstVotes = q.againstVotes /\ after.totalSupply = q.totalSupply
      /\ after.params = q.atCreation
  BY <1>3, <1>8
<1>10. Applied(x, e) = [after EXCEPT !.quorumVotes = quorum]
  BY <1>7, <1>9 DEF quorum
<1>11. [after EXCEPT !.quorumVotes = quorum] = EntityFor(q, "ACTIVE")
  BY <1>6, <1>8
<1> QED  BY <1>4, <1>10, <1>11 DEF Mirrors, q

-----------------------------------------------------------------------------
(* The governor's transactions.                                            *)

\* The invariant of a proposal speaks of time and of the parameters at its creation.
LEMMA ProposalInvStays ==
  ASSUME NEW p, ProposalInv(p), UNCHANGED <<block, quorumParams>>
  PROVE  ProposalInv(p)'
<1>1. quorumVotes(p)' = quorumVotes(p)
  BY DEF quorumVotes
<1> QED  BY <1>1 DEF ProposalInv

\* A transaction on one proposal, and its event.
LEMMA OneProposalChanges ==
  ASSUME DaoInv, NEW id \in Created, NEW q, NEW e, emitted = NoEvent, emitted' = e, e \in Events,
         Concerns(e, id), e.event # "ProposalCreated",
         proposals' = [proposals EXCEPT ![id] = q],
         UNCHANGED <<block, quorumParams, indexedGovernance>>,
         ProposalInv(q), Mirrors(Applied(proposalEntity[id], e), q)
  PROVE  /\ Created' = Created
         /\ proposals'[id] = q
         /\ \A other \in Created : other # id => proposals'[other] = proposals[other]
         /\ GovernorInv' /\ EventInv' /\ EntityInv' /\ LatestInv'
<1>1. Created' = Created
  BY DEF Created
<1>2. /\ proposals'[id] = q
      /\ \A other \in Created : other # id => proposals'[other] = proposals[other]
  BY DEF Created
<1>3. GovernorInv'
  <2>1. ParamsInv'
    BY DEF DaoInv, GovernorInv, ParamsInv
  <2>2. proposals' = [x \in Created |-> proposals'[x]]
    BY DEF DaoInv, GovernorInv, Created
  <2>3. ASSUME NEW x \in Created
        PROVE  ProposalInv(proposals[x])'
    <3>1. PICK p : p = proposals'[x]
      OBVIOUS
    <3>2. ProposalInv(p)
      BY <1>2, <3>1 DEF DaoInv, GovernorInv
    <3>3. ProposalInv(p)'
      BY <3>2, ProposalInvStays DEF indexedGovernance
    <3> QED  BY <3>1, <3>3
  <2> QED  BY <1>1, <2>1, <2>2, <2>3 DEF DaoInv, GovernorInv
<1>4. EventInv'
  BY <1>1 DEF EventInv, Concerns
<1>5. EntityInv'
  <2>1. proposalEntity' = proposalEntity /\ latestParams' = latestParams
    BY DEF indexedGovernance
  <2>2. NoEvent.event = "none"
    BY DEF NoEvent
  <2>3. DOMAIN proposalEntity' = Created
    BY <2>1, <2>2 DEF DaoInv, EntityInv
  <2>4. ASSUME NEW x \in Created
        PROVE  Mirrors(EntityDue(x), proposals[x])'
    <3>1. CASE x = id
      <4>1. EntityDue(x)' = Applied(proposalEntity[id], e)
        BY <2>1, <3>1 DEF EntityDue, Concerns, Applied, WithVotes
      <4>2. PICK a : a = EntityDue(x)'
        OBVIOUS
      <4>3. Mirrors(a, q)
        BY <4>1, <4>2
      <4>4. Mirrors(EntityDue(x), proposals[x])' <=> Mirrors(a, q)
        BY <1>2, <3>1, <4>2 DEF Mirrors
      <4> QED  BY <4>3, <4>4
    <3>2. CASE x # id
      <4>1. EntityDue(x)' = proposalEntity[x]
        BY <2>1, <3>2 DEF EntityDue, Concerns
      <4>2. EntityDue(x) = proposalEntity[x]
        BY <2>2 DEF EntityDue, Concerns
      <4>3. Mirrors(proposalEntity[x], proposals[x])
        BY <4>2 DEF DaoInv, EntityInv
      <4> QED  BY <1>2, <3>2, <4>1, <4>3 DEF Mirrors
    <3> QED  BY <3>1, <3>2
  <2>5. proposalEntity' = [x \in DOMAIN proposalEntity' |-> proposalEntity'[x]]
    BY <2>1 DEF DaoInv, EntityInv
  <2>6. emitted'.event # "ProposalCreated"
    OBVIOUS
  <2> QED  BY <1>1, <2>3, <2>4, <2>5, <2>6 DEF EntityInv
<1>6. LatestInv'
  <2>1. ParamsDue' = latestParams.params
    BY DEF ParamsDue, Concerns, indexedGovernance
  <2>2. ParamsDue = latestParams.params
    BY DEF ParamsDue, NoEvent
  <2> QED  BY <2>1, <2>2 DEF DaoInv, LatestInv, indexedGovernance
<1> QED  BY <1>1, <1>2, <1>3, <1>4, <1>5, <1>6

\* If it is no vote, the votes are those there were.
LEMMA VotesStay ==
  ASSUME VotesInv, emitted = NoEvent, emitted'.event # "VoteCast", voteEntity' = voteEntity,
         Created' = Created,
         \A id \in Created : /\ proposals'[id].voted = proposals[id].voted
                             /\ proposals'[id].againstVotes = proposals[id].againstVotes
  PROVE  VotesInv'
<1>1. VotesDue' = VotesDue
  BY DEF VotesDue, NoEvent
<1>2. \A id \in Created : VotersAgainst(VotesDue, id)' = VotersAgainst(VotesDue, id)
  BY <1>1 DEF VotersAgainst
<1> QED  BY <1>1, <1>2 DEF VotesInv

\* What is known of a proposal when no event is under way.
LEMMA WhenIndexed ==
  ASSUME DaoInv, emitted = NoEvent, NEW id \in Created
  PROVE  /\ id \in DOMAIN proposalEntity /\ id \in ProposalIds
         /\ proposals[id] \in ProposalRecord /\ ProposalInv(proposals[id])
         /\ Mirrors(proposalEntity[id], proposals[id])
<1>1. NoEvent.event = "none"
  BY DEF NoEvent
<1>2. EntityDue(id) = proposalEntity[id]
  BY <1>1 DEF EntityDue, Concerns
<1> QED  BY <1>1, <1>2 DEF DaoInv, EntityInv, GovernorInv, ProposalInv

\* An executed proposal stays executed.
LEMMA ExecutedIsFinal ==
  ASSUME NEW id \in Created, ProposalInv(proposals[id]), proposals[id].executed, block \in Nat
  PROVE  contractState(id) = "EXECUTED"
<1> DEFINE p == proposals[id]
<1>1. /\ ~p.vetoed /\ ~p.canceled /\ p.eta # 0 /\ block > p.endBlock
      /\ ~(p.forVotes <= p.againstVotes) /\ ~(p.forVotes < quorumVotes(p))
  BY DEF ProposalInv
<1>2. p.startBlock \in Nat /\ p.endBlock = p.startBlock + votingPeriod /\ votingPeriod \in Nat
  BY SubgraphDAOAssumption DEF ProposalInv, ProposalRecord
<1>3. ~(block <= p.startBlock) /\ ~(block <= p.endBlock)
  BY <1>1, <1>2
<1> QED  BY <1>1, <1>3 DEF contractState, stateAt

\* Cancelling keeps the invariant of governor and index,
LEMMA CancelStep ==
  ASSUME DaoInv, NEW id \in Created, Cancel(id)
  PROVE  DaoInv'
<1> DEFINE p == proposals[id]
           e == [event |-> "ProposalCanceled", id |-> id]
<1>1. PICK q : q = [p EXCEPT !.canceled = TRUE]
  OBVIOUS
<1>2. /\ emitted = NoEvent /\ emitted' = e /\ contractState(id) # "EXECUTED"
      /\ proposals' = [proposals EXCEPT ![id] = q]
      /\ UNCHANGED <<block, quorumParams, indexedGovernance>>
  BY <1>1 DEF Cancel, Emits
<1>3. /\ id \in ProposalIds /\ p \in ProposalRecord /\ ProposalInv(p)
      /\ Mirrors(proposalEntity[id], p)
  BY <1>2, WhenIndexed
<1>4. ~p.executed
  <2>1. block \in Nat
    BY DEF DaoInv, GovernorInv, ParamsInv
  <2> QED  BY <1>2, <1>3, <2>1, ExecutedIsFinal
<1>5. e \in Events /\ Concerns(e, id) /\ e.event # "ProposalCreated"
  BY <1>3 DEF Events, Concerns
<1>6. ProposalInv(q) /\ q.voted = p.voted /\ q.againstVotes = p.againstVotes
  <2>1. q \in ProposalRecord
    BY <1>1, <1>3 DEF ProposalRecord
  <2>2. /\ q.creationBlock = p.creationBlock /\ q.startBlock = p.startBlock
        /\ q.endBlock = p.endBlock /\ q.atCreation = p.atCreation /\ q.voted = p.voted
        /\ q.eta = p.eta /\ q.forVotes = p.forVotes /\ q.againstVotes = p.againstVotes
        /\ q.totalSupply = p.totalSupply /\ q.executed = p.executed
    BY <1>1, <1>3 DEF ProposalRecord
  <2>3. quorumVotes(q) = quorumVotes(p)
    BY <2>2 DEF quorumVotes
  <2> QED  BY <1>3, <1>4, <2>1, <2>2, <2>3 DEF ProposalInv
<1>7. Mirrors(Applied(proposalEntity[id], e), q)
  BY <1>1, <1>3, <1>4, CancelMirrors
<1> DEFINE changed == /\ Created' = Created
                      /\ proposals'[id] = q
                      /\ \A other \in Created : other # id =>
                                                  proposals'[other] = proposals[other]
<1>8. changed /\ GovernorInv' /\ EventInv' /\ EntityInv' /\ LatestInv'
  <2>1. PICK f : f = e
    OBVIOUS
  <2> QED  BY <1>2, <1>5, <1>6, <1>7, <2>1, OneProposalChanges
<1>9. VotesInv'
  <2>1. emitted'.event # "VoteCast" /\ voteEntity' = voteEntity
    BY <1>2 DEF indexedGovernance
  <2>2. \A x \in Created : /\ proposals'[x].voted = proposals[x].voted
                           /\ proposals'[x].againstVotes = proposals[x].againstVotes
    BY <1>6, <1>8
  <2> QED  BY <1>2, <1>8, <2>1, <2>2, VotesStay DEF DaoInv
<1> QED  BY <1>8, <1>9 DEF DaoInv

\* and so does vetoing,
LEMMA VetoStep ==
  ASSUME DaoInv, NEW id \in Created, Veto(id)
  PROVE  DaoInv'
<1> DEFINE p == proposals[id]
           e == [event |-> "ProposalVetoed", id |-> id]
<1>1. PICK q : q = [p EXCEPT !.vetoed = TRUE]
  OBVIOUS
<1>2. /\ emitted = NoEvent /\ emitted' = e /\ contractState(id) # "EXECUTED"
      /\ proposals' = [proposals EXCEPT ![id] = q]
      /\ UNCHANGED <<block, quorumParams, indexedGovernance>>
  BY <1>1 DEF Veto, Emits
<1>3. /\ id \in ProposalIds /\ p \in ProposalRecord /\ ProposalInv(p)
      /\ Mirrors(proposalEntity[id], p)
  BY <1>2, WhenIndexed
<1>4. ~p.executed
  <2>1. block \in Nat
    BY DEF DaoInv, GovernorInv, ParamsInv
  <2> QED  BY <1>2, <1>3, <2>1, ExecutedIsFinal
<1>5. e \in Events /\ Concerns(e, id) /\ e.event # "ProposalCreated"
  BY <1>3 DEF Events, Concerns
<1>6. ProposalInv(q) /\ q.voted = p.voted /\ q.againstVotes = p.againstVotes
  <2>1. q \in ProposalRecord
    BY <1>1, <1>3 DEF ProposalRecord
  <2>2. /\ q.creationBlock = p.creationBlock /\ q.startBlock = p.startBlock
        /\ q.endBlock = p.endBlock /\ q.atCreation = p.atCreation /\ q.voted = p.voted
        /\ q.eta = p.eta /\ q.forVotes = p.forVotes /\ q.againstVotes = p.againstVotes
        /\ q.totalSupply = p.totalSupply /\ q.executed = p.executed
    BY <1>1, <1>3 DEF ProposalRecord
  <2>3. quorumVotes(q) = quorumVotes(p)
    BY <2>2 DEF quorumVotes
  <2> QED  BY <1>3, <1>4, <2>1, <2>2, <2>3 DEF ProposalInv
<1>7. Mirrors(Applied(proposalEntity[id], e), q)
  BY <1>1, <1>3, <1>4, VetoMirrors
<1> DEFINE changed == /\ Created' = Created
                      /\ proposals'[id] = q
                      /\ \A other \in Created : other # id =>
                                                  proposals'[other] = proposals[other]
<1>8. changed /\ GovernorInv' /\ EventInv' /\ EntityInv' /\ LatestInv'
  <2>1. PICK f : f = e
    OBVIOUS
  <2> QED  BY <1>2, <1>5, <1>6, <1>7, <2>1, OneProposalChanges
<1>9. VotesInv'
  <2>1. emitted'.event # "VoteCast" /\ voteEntity' = voteEntity
    BY <1>2 DEF indexedGovernance
  <2>2. \A x \in Created : /\ proposals'[x].voted = proposals[x].voted
                           /\ proposals'[x].againstVotes = proposals[x].againstVotes
    BY <1>6, <1>8
  <2> QED  BY <1>2, <1>8, <2>1, <2>2, VotesStay DEF DaoInv
<1> QED  BY <1>8, <1>9 DEF DaoInv

\* and queueing,
LEMMA QueueStep ==
  ASSUME DaoInv, NEW id \in Created, Queue(id)
  PROVE  DaoInv'
<1> DEFINE p == proposals[id]
           e == [event |-> "ProposalQueued", id |-> id, eta |-> block + timelockDelay]
<1>1. PICK q : q = [p EXCEPT !.eta = block + timelockDelay]
  OBVIOUS
<1>2. /\ emitted = NoEvent /\ emitted' = e /\ contractState(id) = "SUCCEEDED"
      /\ proposals' = [proposals EXCEPT ![id] = q]
      /\ UNCHANGED <<block, quorumParams, indexedGovernance>>
  BY <1>1 DEF Queue, Emits
<1>3. /\ id \in ProposalIds /\ p \in ProposalRecord /\ ProposalInv(p)
      /\ Mirrors(proposalEntity[id], p)
  BY <1>2, WhenIndexed
<1>4. /\ ~p.executed /\ ~p.canceled /\ ~p.vetoed /\ block > p.endBlock
      /\ ~(p.forVotes <= p.againstVotes) /\ ~(p.forVotes < quorumVotes(p))
  <2>1. /\ p.eta = 0 /\ ~p.canceled /\ ~p.vetoed /\ ~(block <= p.endBlock)
        /\ ~(p.forVotes <= p.againstVotes) /\ ~(p.forVotes < quorumVotes(p))
    BY <1>2 DEF contractState, stateAt
  <2>2. block \in Nat /\ p.endBlock \in Nat
    BY <1>3 DEF DaoInv, GovernorInv, ParamsInv, ProposalRecord
  <2> QED  BY <1>3, <2>1, <2>2 DEF ProposalInv
<1>0. e.eta \in Nat \ {0}
  BY SubgraphDAOAssumption DEF DaoInv, GovernorInv, ParamsInv
<1>5. e \in Events /\ Concerns(e, id) /\ e.event # "ProposalCreated"
  BY <1>0, <1>3 DEF Events, Concerns
<1>6. ProposalInv(q) /\ q.voted = p.voted /\ q.againstVotes = p.againstVotes
  <2>1. q \in ProposalRecord
    BY <1>0, <1>1, <1>3 DEF ProposalRecord
  <2>2. /\ q.creationBlock = p.creationBlock /\ q.startBlock = p.startBlock
        /\ q.endBlock = p.endBlock /\ q.atCreation = p.atCreation /\ q.voted = p.voted
        /\ q.canceled = p.canceled /\ q.vetoed = p.vetoed
        /\ q.forVotes = p.forVotes /\ q.againstVotes = p.againstVotes
        /\ q.totalSupply = p.totalSupply /\ q.executed = p.executed
    BY <1>1, <1>3 DEF ProposalRecord
  <2>3. quorumVotes(q) = quorumVotes(p)
    BY <2>2 DEF quorumVotes
  <2> QED  BY <1>3, <1>4, <2>1, <2>2, <2>3 DEF ProposalInv
<1>7. Mirrors(Applied(proposalEntity[id], e), q)
  BY <1>0, <1>1, <1>3, <1>4, QueueMirrors
<1> DEFINE changed == /\ Created' = Created
                      /\ proposals'[id] = q
                      /\ \A other \in Created : other # id =>
                                                  proposals'[other] = proposals[other]
<1>8. changed /\ GovernorInv' /\ EventInv' /\ EntityInv' /\ LatestInv'
  <2>1. PICK f : f = e
    OBVIOUS
  <2> QED  BY <1>2, <1>5, <1>6, <1>7, <2>1, OneProposalChanges
<1>9. VotesInv'
  <2>1. emitted'.event # "VoteCast" /\ voteEntity' = voteEntity
    BY <1>2 DEF indexedGovernance
  <2>2. \A x \in Created : /\ proposals'[x].voted = proposals[x].voted
                           /\ proposals'[x].againstVotes = proposals[x].againstVotes
    BY <1>6, <1>8
  <2> QED  BY <1>2, <1>8, <2>1, <2>2, VotesStay DEF DaoInv
<1> QED  BY <1>8, <1>9 DEF DaoInv

\* and executing,
LEMMA ExecuteStep ==
  ASSUME DaoInv, NEW id \in Created, Execute(id)
  PROVE  DaoInv'
<1> DEFINE p == proposals[id]
           e == [event |-> "ProposalExecuted", id |-> id]
<1>1. PICK q : q = [p EXCEPT !.executed = TRUE]
  OBVIOUS
<1>2. /\ emitted = NoEvent /\ emitted' = e /\ contractState(id) = "QUEUED"
      /\ proposals' = [proposals EXCEPT ![id] = q]
      /\ UNCHANGED <<block, quorumParams, indexedGovernance>>
  BY <1>1 DEF Execute, CanExecute, Emits
<1>3. /\ id \in ProposalIds /\ p \in ProposalRecord /\ ProposalInv(p)
      /\ Mirrors(proposalEntity[id], p)
  BY <1>2, WhenIndexed
<1>4. p.eta # 0 /\ ~p.canceled /\ ~p.vetoed
  BY <1>2 DEF contractState, stateAt
<1>5. e \in Events /\ Concerns(e, id) /\ e.event # "ProposalCreated"
  BY <1>3 DEF Events, Concerns
<1>6. ProposalInv(q) /\ q.voted = p.voted /\ q.againstVotes = p.againstVotes
  <2>1. q \in ProposalRecord
    BY <1>1, <1>3 DEF ProposalRecord
  <2>2. /\ q.creationBlock = p.creationBlock /\ q.startBlock = p.startBlock
        /\ q.endBlock = p.endBlock /\ q.atCreation = p.atCreation /\ q.voted = p.voted
        /\ q.eta = p.eta /\ q.forVotes = p.forVotes /\ q.againstVotes = p.againstVotes
        /\ q.totalSupply = p.totalSupply /\ q.canceled = p.canceled /\ q.vetoed = p.vetoed
    BY <1>1, <1>3 DEF ProposalRecord
  <2>3. quorumVotes(q) = quorumVotes(p)
    BY <2>2 DEF quorumVotes
  <2> QED  BY <1>3, <1>4, <2>1, <2>2, <2>3 DEF ProposalInv
<1>7. Mirrors(Applied(proposalEntity[id], e), q)
  BY <1>1, <1>3, <1>4, ExecuteMirrors
<1> DEFINE changed == /\ Created' = Created
                      /\ proposals'[id] = q
                      /\ \A other \in Created : other # id =>
                                                  proposals'[other] = proposals[other]
<1>8. changed /\ GovernorInv' /\ EventInv' /\ EntityInv' /\ LatestInv'
  <2>1. PICK f : f = e
    OBVIOUS
  <2> QED  BY <1>2, <1>5, <1>6, <1>7, <2>1, OneProposalChanges
<1>9. VotesInv'
  <2>1. emitted'.event # "VoteCast" /\ voteEntity' = voteEntity
    BY <1>2 DEF indexedGovernance
  <2>2. \A x \in Created : /\ proposals'[x].voted = proposals[x].voted
                           /\ proposals'[x].againstVotes = proposals[x].againstVotes
    BY <1>6, <1>8
  <2> QED  BY <1>2, <1>8, <2>1, <2>2, VotesStay DEF DaoInv
<1> QED  BY <1>8, <1>9 DEF DaoInv

\* A vote is added to the votes of its support.
LEMMA VoteIsCounted ==
  ASSUME NEW votes, NEW id, NEW voter \in Voters, <<voter, id>> \notin DOMAIN votes,
         NEW support \in 0 .. 2, NEW n
  PROVE  LET after == Put(votes, <<voter, id>>, [support |-> support, votes |-> n])
         IN  /\ SumFunctionOnSet(Weight, VotersAgainst(after, id)) =
                  SumFunctionOnSet(Weight, VotersAgainst(votes, id))
                    + (IF support = 0 THEN Weight[voter] ELSE 0)
             /\ \A other : other # id =>
                  VotersAgainst(after, other) = VotersAgainst(votes, other)
<1> DEFINE after == Put(votes, <<voter, id>>, [support |-> support, votes |-> n])
           old == VotersAgainst(votes, id)
<1>1. /\ IsFiniteSet(Voters) /\ \A v \in Voters : Weight[v] \in Nat
  BY SubgraphDAOAssumption DEF Voters
<1>2. old \subseteq Voters /\ IsFiniteSet(old) /\ voter \notin old
  <2>1. old \subseteq Voters /\ voter \notin old
    BY DEF VotersAgainst
  <2> QED  BY <1>1, <2>1, FS_Subset
<1>3. /\ DOMAIN after = DOMAIN votes \cup {<<voter, id>>}
      /\ after[<<voter, id>>].support = support
      /\ \A z \in DOMAIN votes : z # <<voter, id>> => after[z] = votes[z]
  BY DEF Put
<1> HIDE DEF after
<1>4. SumFunctionOnSet(Weight, old) \in Nat
  BY <1>1, <1>2, SumRemove
<1>5. ASSUME NEW other, other # id
      PROVE  VotersAgainst(after, other) = VotersAgainst(votes, other)
  <2>1. ASSUME NEW v \in Voters
        PROVE  v \in VotersAgainst(after, other) <=> v \in VotersAgainst(votes, other)
    <3>1. <<v, other>> # <<voter, id>>
      BY <1>5
    <3> QED  BY <1>3, <3>1 DEF VotersAgainst
  <2>2. VotersAgainst(after, other) \subseteq Voters /\ VotersAgainst(votes, other) \subseteq Voters
    BY DEF VotersAgainst
  <2> QED  BY <2>1, <2>2
<1>6. CASE support = 0 /\ Weight[voter] > 0
  <2>1. VotersAgainst(after, id) = old \cup {voter}
    <3>1. ASSUME NEW v \in Voters, v # voter
          PROVE  v \in VotersAgainst(after, id) <=> v \in old
      <4>1. <<v, id>> # <<voter, id>>
        BY <3>1
      <4> QED  BY <1>3, <4>1 DEF VotersAgainst
    <3>2. voter \in VotersAgainst(after, id)
      BY <1>3, <1>6 DEF VotersAgainst
    <3>3. VotersAgainst(after, id) \subseteq Voters
      BY DEF VotersAgainst
    <3> QED  BY <1>2, <3>1, <3>2, <3>3
  <2>2. SumFunctionOnSet(Weight, old \cup {voter}) = Weight[voter] + SumFunctionOnSet(Weight, old)
    BY <1>1, <1>2, SumAdd
  <2>3. Weight[voter] \in Nat
    BY <1>1
  <2> DEFINE total == SumFunctionOnSet(Weight, old)
             castNow == Weight[voter]
  <2>4. SumFunctionOnSet(Weight, VotersAgainst(after, id)) = castNow + total
    BY <2>1, <2>2
  <2>5. total \in Nat /\ castNow \in Nat /\ (IF support = 0 THEN castNow ELSE 0) = castNow
    BY <1>4, <1>6, <2>3
  <2> HIDE DEF total, castNow
  <2>6. SumFunctionOnSet(Weight, VotersAgainst(after, id)) =
          total + (IF support = 0 THEN castNow ELSE 0)
    BY <2>4, <2>5
  <2> QED  BY <2>6, <1>5 DEF after, total, castNow
<1>7. CASE ~(support = 0 /\ Weight[voter] > 0)
  <2>1. VotersAgainst(after, id) = old
    <3>1. ASSUME NEW v \in Voters
          PROVE  v \in VotersAgainst(after, id) <=> v \in old
      <4>1. CASE v = voter
        BY <1>2, <1>3, <1>7, <4>1 DEF VotersAgainst
      <4>2. CASE v # voter
        <5>1. <<v, id>> # <<voter, id>>
          BY <4>2
        <5> QED  BY <1>3, <5>1 DEF VotersAgainst
      <4> QED  BY <4>1, <4>2
    <3>2. VotersAgainst(after, id) \subseteq Voters
      BY DEF VotersAgainst
    <3> QED  BY <1>2, <3>1, <3>2
  <2>2. (IF support = 0 THEN Weight[voter] ELSE 0) = 0
    BY <1>1, <1>7
  <2> QED  BY <1>4, <2>1, <2>2, <1>5 DEF after
<1> QED  BY <1>6, <1>7

\* and voting,
LEMMA CastVoteStep ==
  ASSUME DaoInv, NEW id \in Created, NEW voter \in Voters, NEW support \in Supports,
         CastVote(id, voter, support)
  PROVE  DaoInv'
<1> DEFINE p == proposals[id]
           e == [event |-> "VoteCast", id |-> id, voter |-> voter, support |-> support,
                 votes |-> Weight[voter]]
<1>0. support \in 0 .. 2 /\ Weight[voter] \in Nat
  BY SubgraphDAOAssumption DEF Voters
<1>1. PICK q : q = WithBallot(p, voter, support)
  OBVIOUS
<1>2. /\ emitted = NoEvent /\ emitted' = e /\ contractState(id) = "ACTIVE"
      /\ voter \notin p.voted
      /\ proposals' = [proposals EXCEPT ![id] = q]
      /\ UNCHANGED <<block, quorumParams, indexedGovernance>>
  BY <1>1 DEF CastVote, Emits, WithBallot
<1>3. /\ id \in ProposalIds /\ p \in ProposalRecord /\ ProposalInv(p)
      /\ Mirrors(proposalEntity[id], p)
  BY <1>2, WhenIndexed
<1>4. /\ ~p.canceled /\ ~p.vetoed /\ block > p.startBlock /\ block <= p.endBlock
      /\ p.eta = 0 /\ ~p.executed
  <2>1. block \in Nat /\ p.endBlock \in Nat /\ p.startBlock \in Nat
    BY <1>3 DEF DaoInv, GovernorInv, ParamsInv, ProposalRecord
  <2>2. ~p.canceled /\ ~p.vetoed /\ ~(block <= p.startBlock)
    BY <1>2 DEF contractState, stateAt
  <2>3. block <= p.endBlock
    <3>1. CASE ~(block <= p.endBlock)
      <4>1. contractState(id) # "ACTIVE"
        BY <2>2, <3>1 DEF contractState, stateAt
      <4> QED  BY <1>2, <4>1
    <3> QED  BY <3>1
  <2>4. p.eta = 0
    BY <1>3, <2>1, <2>3 DEF ProposalInv
  <2> QED  BY <1>3, <2>1, <2>2, <2>3, <2>4 DEF ProposalInv
<1>5. e \in Events /\ Concerns(e, id) /\ e.event # "ProposalCreated"
  BY <1>0, <1>3 DEF Events, Concerns
<1>6. /\ ProposalInv(q) /\ q.voted = p.voted \cup {voter}
      /\ q.againstVotes = IF support = 0 THEN p.againstVotes + Weight[voter] ELSE p.againstVotes
  <2>1. /\ q \in ProposalRecord
        /\ q.creationBlock = p.creationBlock /\ q.startBlock = p.startBlock
        /\ q.endBlock = p.endBlock /\ q.atCreation = p.atCreation
        /\ q.eta = p.eta /\ q.executed = p.executed /\ q.voted = p.voted \cup {voter}
        /\ q.againstVotes = IF support = 0 THEN p.againstVotes + Weight[voter]
                            ELSE p.againstVotes
    BY <1>0, <1>1, <1>3, BallotFields
  <2> QED  BY <1>3, <1>4, <2>1 DEF ProposalInv
<1>7. Mirrors(Applied(proposalEntity[id], e), q)
  <2>1. PICK f : f = e
    OBVIOUS
  <2>2. f.event = "VoteCast" /\ f.support = support /\ f.votes = Weight[voter]
    BY <2>1
  <2> QED  BY <1>0, <1>1, <1>3, <1>4, <2>1, <2>2, VoteMirrors
<1> DEFINE changed == /\ Created' = Created
                      /\ proposals'[id] = q
                      /\ \A other \in Created : other # id =>
                                                  proposals'[other] = proposals[other]
<1>8. changed /\ GovernorInv' /\ EventInv' /\ EntityInv' /\ LatestInv'
  <2>1. PICK f : f = e
    OBVIOUS
  <2> QED  BY <1>2, <1>5, <1>6, <1>7, <2>1, OneProposalChanges
<1>9. VotesInv'
  <2>1. voteEntity' = voteEntity /\ VotesDue = voteEntity
    BY <1>2 DEF indexedGovernance, VotesDue, NoEvent
  <2>2. VotesDue' = Put(voteEntity, <<voter, id>>, [support |-> support, votes |-> Weight[voter]])
    BY <1>2, <2>1 DEF VotesDue
  <2>3. PICK votes : votes = voteEntity
    OBVIOUS
  <2>4. PICK after : after = Put(votes, <<voter, id>>,
                                 [support |-> support, votes |-> Weight[voter]])
    OBVIOUS
  <2>5. <<voter, id>> \notin DOMAIN votes
    BY <1>2, <2>1, <2>3 DEF DaoInv, VotesInv
  <2>6. /\ SumFunctionOnSet(Weight, VotersAgainst(after, id)) =
             SumFunctionOnSet(Weight, VotersAgainst(votes, id))
               + (IF support = 0 THEN Weight[voter] ELSE 0)
        /\ \A other : other # id => VotersAgainst(after, other) = VotersAgainst(votes, other)
    BY <1>0, <2>4, <2>5, VoteIsCounted
  <2>7. \A z : z \in DOMAIN after => z \in DOMAIN votes \/ z = <<voter, id>>
    BY <2>4 DEF Put
  <2>8. VotesDue' = after /\ VotesDue = votes
    BY <2>1, <2>2, <2>3, <2>4
  <2>9. ASSUME NEW x \in ProposalIds \ Created, NEW v \in Voters
        PROVE  <<v, x>> \notin DOMAIN after
    <3>1. <<v, x>> # <<voter, id>>
      BY <2>9
    <3> QED  BY <2>7, <2>8, <3>1 DEF DaoInv, VotesInv
  <2>10. ASSUME NEW x \in Created
         PROVE  /\ \A v \in Voters : <<v, x>> \in DOMAIN after => v \in proposals'[x].voted
                /\ proposals'[x].againstVotes = SumFunctionOnSet(Weight, VotersAgainst(after, x))
    <3>1. /\ \A v \in Voters : <<v, x>> \in DOMAIN votes => v \in proposals[x].voted
          /\ proposals[x].againstVotes = SumFunctionOnSet(Weight, VotersAgainst(votes, x))
      BY <2>8 DEF DaoInv, VotesInv
    <3>2. CASE x = id
      <4>1. p.againstVotes \in Nat
        BY <1>3 DEF ProposalRecord
      <4>2. ASSUME NEW v \in Voters, <<v, x>> \in DOMAIN after
            PROVE  v \in proposals'[x].voted
        <5>1. v = voter \/ <<v, x>> \in DOMAIN votes
          BY <2>7, <4>2
        <5> QED  BY <1>6, <1>8, <3>1, <3>2, <5>1
      <4>3. q.againstVotes = p.againstVotes + (IF support = 0 THEN Weight[voter] ELSE 0)
        BY <1>6, <4>1
      <4> QED  BY <1>8, <2>6, <3>1, <3>2, <4>2, <4>3
    <3>3. CASE x # id
      <4>1. ASSUME NEW v \in Voters, <<v, x>> \in DOMAIN after
            PROVE  v \in proposals'[x].voted
        <5>1. <<v, x>> # <<voter, id>>
          BY <3>3
        <5> QED  BY <1>8, <2>7, <3>1, <3>3, <4>1, <5>1
      <4> QED  BY <1>8, <2>6, <3>1, <3>3, <4>1
    <3> QED  BY <3>2, <3>3
  <2> QED  BY <1>8, <2>8, <2>9, <2>10 DEF VotesInv
<1> QED  BY <1>8, <1>9 DEF DaoInv

\* and proposing,
LEMMA ProposeStep ==
  ASSUME DaoInv, NEW id \in ProposalIds, NEW proposer \in Proposers, NEW supply \in Supplies,
         Propose(id, proposer, supply)
  PROVE  DaoInv'
<1> DEFINE last == quorumParams[Len(quorumParams)].params
           quorum == bps2Uint(last.minQuorumVotesBPS, supply)
           start == block + votingDelay
           end == start + votingPeriod
           e == [event |-> "ProposalCreated", id |-> id, proposer |-> proposer, block |-> block,
                 startBlock |-> start, endBlock |-> end, totalSupply |-> supply,
                 quorumVotes |-> quorum]
           new == [proposer |-> proposer, creationBlock |-> block, startBlock |-> start,
                   endBlock |-> end, totalSupply |-> supply,
                   forVotes |-> 0, againstVotes |-> 0, abstainVotes |-> 0, eta |-> 0,
                   canceled |-> FALSE, vetoed |-> FALSE, executed |-> FALSE, voted |-> {},
                   atCreation |-> last]
<1>1. /\ id \notin Created /\ proposals' = Put(proposals, id, new)
      /\ emitted = NoEvent /\ emitted' = e
      /\ UNCHANGED <<block, quorumParams, indexedGovernance>>
  BY DEF Propose, Emits
<1>2. /\ block \in Nat /\ block >= 2 /\ start \in Nat /\ end \in Nat /\ start > block
      /\ supply \in Nat \ {0} /\ last \in Params /\ Ordered(last)
  <2>1. last \in Params
    <3>1. quorumParams[Len(quorumParams)] \in ParamsCheckpoint
      BY DEF DaoInv, GovernorInv, ParamsInv
    <3> QED  BY <3>1 DEF ParamsCheckpoint
  <2> QED  BY <2>1, SubgraphDAOAssumption DEF DaoInv, GovernorInv, ParamsInv
<1>3. /\ dynamicQuorumVotes(0, supply, last) = quorum /\ quorum \in Nat
  BY <1>2, QuorumWithoutVotes
<1>4. /\ Created' = Created \cup {id} /\ proposals'[id] = new
      /\ \A x \in Created : proposals'[x] = proposals[x]
      /\ proposals' = [x \in Created' |-> proposals'[x]]
  BY <1>1 DEF Put, Created
<1>5. latestParams.params = last /\ proposalEntity' = proposalEntity
      /\ latestParams' = latestParams /\ voteEntity' = voteEntity
  BY <1>1 DEF DaoInv, LatestInv, ParamsDue, NoEvent, indexedGovernance
<1> HIDE DEF last, quorum, start, end
<1>6. GovernorInv'
  <2>1. ParamsInv'
    BY <1>1 DEF DaoInv, GovernorInv, ParamsInv
  <2>2. ASSUME NEW x \in Created
        PROVE  ProposalInv(proposals[x])'
    <3>1. PICK p : p = proposals[x]
      OBVIOUS
    <3>2. ProposalInv(p)
      BY <3>1 DEF DaoInv, GovernorInv
    <3>3. ProposalInv(p)'
      BY <1>1, <3>2, ProposalInvStays
    <3> QED  BY <1>4, <3>1, <3>3
  <2>3. PICK p : p = new
    OBVIOUS
  <2>4. ProposalInv(p)
    <3>1. new \in ProposalRecord
      BY <1>2 DEF ProposalRecord
    <3>2. new.endBlock = new.startBlock + votingPeriod /\ new.startBlock = block + votingDelay
      BY DEF start, end
    <3> QED  BY <1>2, <2>3, <3>1, <3>2 DEF ProposalInv
  <2>5. ProposalInv(p)'
    BY <1>1, <2>4, ProposalInvStays
  <2>6. ProposalInv(proposals[id])'
    BY <1>4, <2>3, <2>5
  <2> QED  BY <1>4, <2>1, <2>2, <2>6 DEF DaoInv, GovernorInv
<1>7. EventInv'
  <2>1. e \in Events
    BY <1>2, <1>3 DEF Events
  <2> QED  BY <1>1, <1>4, <2>1 DEF EventInv
<1>8. EntityInv'
  <2>1. DOMAIN proposalEntity' = Created' \ {id}
    BY <1>1, <1>4, <1>5 DEF DaoInv, EntityInv, NoEvent
  <2>2. ASSUME NEW x \in Created
        PROVE  Mirrors(EntityDue(x), proposals[x])'
    <3>1. x # id
      BY <1>1
    <3>2. EntityDue(x)' = proposalEntity[x]
      BY <1>1, <1>5, <3>1 DEF EntityDue, Concerns
    <3>3. Mirrors(proposalEntity[x], proposals[x])
      BY <1>1, WhenIndexed
    <3> QED  BY <1>4, <3>2, <3>3 DEF Mirrors
  <2>3. EntityDue(id)' = EntityFor(new, "PENDING")
    <3>1. EntityDue(id)' = EntityOf(e, last)
      BY <1>1, <1>5 DEF EntityDue, Concerns
    <3>2. ~(block >= start)
      BY <1>2
    <3> QED  BY <1>3, <3>1, <3>2 DEF EntityOf, EntityFor
  <2>4. "PENDING" \in StatusesOf(new)
    BY DEF StatusesOf
  <2>5. Mirrors(EntityDue(id), proposals[id])'
    BY <1>4, <2>3, <2>4 DEF Mirrors
  <2>6. emitted'.event = "ProposalCreated" /\ emitted'.id = id
    BY <1>1
  <2>7. proposalEntity' = [x \in DOMAIN proposalEntity' |-> proposalEntity'[x]]
    BY <1>5 DEF DaoInv, EntityInv
  <2> QED  BY <1>4, <2>1, <2>2, <2>5, <2>6, <2>7 DEF EntityInv
<1>9. LatestInv'
  <2>1. ParamsDue' = latestParams.params
    BY <1>1, <1>5 DEF ParamsDue
  <2> QED  BY <1>1, <1>5, <2>1 DEF DaoInv, LatestInv, last
<1>10. VotesInv'
  <2>1. VotesDue' = VotesDue
    BY <1>1, <1>5 DEF VotesDue, NoEvent
  <2>2. ASSUME NEW x
        PROVE  VotersAgainst(VotesDue, x)' = VotersAgainst(VotesDue, x)
    BY <2>1 DEF VotersAgainst
  <2>3. \A v \in Voters : <<v, id>> \notin DOMAIN VotesDue
    BY <1>1 DEF DaoInv, VotesInv
  <2>4. VotersAgainst(VotesDue, id) = {}
    BY <2>3 DEF VotersAgainst
  <2>5. SumFunctionOnSet(Weight, VotersAgainst(VotesDue, id)) = 0
    BY <2>4, SumEmpty
  <2> QED  BY <1>4, <2>1, <2>2, <2>3, <2>5 DEF DaoInv, VotesInv
<1> QED  BY <1>6, <1>7, <1>8, <1>9, <1>10 DEF DaoInv

\* A setter: no proposal that was queued loses the parameters it was counted with, since
\* its creation lies in an earlier block.
LEMMA SetParamsStep ==
  ASSUME DaoInv, NEW field \in Settable, NEW params \in ParamsChoices, SetParams(field, params)
  PROVE  DaoInv'
<1> DEFINE last == quorumParams[Len(quorumParams)].params
           new == [last EXCEPT ![field] = params[field]]
           e == [event |-> "ParamsSet", field |-> field, to |-> params[field], block |-> block]
<1>1. /\ SetterAllows(field, new)
      /\ quorumParams' = WriteParams(quorumParams, block, new)
      /\ emitted = NoEvent /\ emitted' = e
      /\ UNCHANGED <<block, proposals, indexedGovernance>>
  BY DEF SetParams, Emits
<1>2. /\ block \in Nat /\ block >= 2 /\ last \in Params /\ Ordered(last) /\ params \in Params
      /\ quorumParams \in Seq(ParamsCheckpoint) /\ InTime(quorumParams, block)
  <2>1. last \in Params
    <3>1. quorumParams[Len(quorumParams)] \in ParamsCheckpoint
      BY DEF DaoInv, GovernorInv, ParamsInv
    <3> QED  BY <3>1 DEF ParamsCheckpoint
  <2> QED  BY <2>1, SubgraphDAOAssumption DEF DaoInv, GovernorInv, ParamsInv
<1> HIDE DEF last
<1>3. new \in Params /\ params[field] \in Nat
  BY <1>2 DEF Settable, Params
<1>4. Ordered(new)
  <2>1. CASE field = "minQuorumVotesBPS"
    BY <1>1, <2>1 DEF SetterAllows, Ordered
  <2>2. CASE field = "maxQuorumVotesBPS"
    BY <1>1, <2>2 DEF SetterAllows, Ordered
  <2>3. CASE field = "quorumCoefficient"
    BY <1>2, <2>3 DEF Ordered, Params
  <2> QED  BY <2>1, <2>2, <2>3 DEF Settable
<1> HIDE DEF new
<1>5. ParamsWritten(quorumParams', quorumParams, block, new)
  BY <1>1, <1>2, <1>3, WriteParamsShape
<1>6. /\ InTime(quorumParams', block)
      /\ \A b \in Nat : b < block => ParamsAt(quorumParams', b) = ParamsAt(quorumParams, b)
  BY <1>2, <1>5, WriteParamsKeepsPast
<1>7. quorumParams'[Len(quorumParams')].params = new
  BY <1>5 DEF ParamsWritten
<1>8. Created' = Created
  BY <1>1 DEF Created
<1>9. GovernorInv'
  <2>1. ParamsInv'
    BY <1>1, <1>2, <1>4, <1>5, <1>6, <1>7 DEF ParamsInv, ParamsWritten
  <2>2. ASSUME NEW x \in Created
        PROVE  ProposalInv(proposals[x])'
    <3>1. PICK p : p = proposals[x]
      OBVIOUS
    <3>2. ProposalInv(p)
      BY <3>1 DEF DaoInv, GovernorInv
    <3>3. p.eta # 0 => quorumVotes(p)' = quorumVotes(p)
      <4>1. p.creationBlock \in Nat /\ p.startBlock \in Nat /\ p.endBlock \in Nat
        BY <3>2 DEF ProposalInv, ProposalRecord
      <4>2. p.eta # 0 => p.creationBlock < block
        BY <1>2, <3>2, <4>1, SubgraphDAOAssumption DEF ProposalInv
      <4>3. p.eta # 0 => ParamsAt(quorumParams', p.creationBlock)
                           = ParamsAt(quorumParams, p.creationBlock)
        BY <1>6, <4>1, <4>2
      <4> QED  BY <4>3 DEF quorumVotes
    <3>4. ProposalInv(p)'
      BY <1>1, <3>2, <3>3 DEF ProposalInv
    <3> QED  BY <1>1, <3>1, <3>4
  <2> QED  BY <1>1, <1>8, <2>1, <2>2 DEF DaoInv, GovernorInv
<1>10. EventInv'
  <2>1. e \in Events
    BY <1>2, <1>3 DEF Events
  <2> QED  BY <1>1, <2>1 DEF EventInv
<1>11. EntityInv'
  <2>1. ASSUME NEW x \in Created
        PROVE  Mirrors(EntityDue(x), proposals[x])'
    <3>1. EntityDue(x)' = proposalEntity[x]
      BY <1>1 DEF EntityDue, Concerns, indexedGovernance
    <3>2. Mirrors(proposalEntity[x], proposals[x])
      BY <1>1, WhenIndexed
    <3> QED  BY <1>1, <3>1, <3>2 DEF Mirrors
  <2> QED  BY <1>1, <1>8, <2>1 DEF DaoInv, EntityInv, NoEvent, indexedGovernance
<1>12. LatestInv'
  <2>1. latestParams.params = last
    BY <1>1 DEF DaoInv, LatestInv, ParamsDue, NoEvent, last
  <2>2. ParamsDue' = new
    BY <1>1, <2>1 DEF ParamsDue, indexedGovernance, new
  <2> QED  BY <1>1, <1>7, <2>2 DEF DaoInv, LatestInv, indexedGovernance
<1>13. VotesInv'
  <2>1. emitted'.event # "VoteCast" /\ voteEntity' = voteEntity
    BY <1>1 DEF indexedGovernance
  <2> QED  BY <1>1, <1>8, <2>1, VotesStay DEF DaoInv
<1> QED  BY <1>9, <1>10, <1>11, <1>12, <1>13 DEF DaoInv

\* and a new block.
LEMMA MineBlockStep ==
  ASSUME DaoInv, MineBlock
  PROVE  DaoInv'
<1>1. /\ block' = block + 1 /\ block \in Nat
      /\ UNCHANGED <<proposals, quorumParams, emitted, indexedGovernance>>
  BY DEF MineBlock, DaoInv, GovernorInv, ParamsInv
<1>2. Created' = Created
  BY <1>1 DEF Created
<1>3. GovernorInv'
  <2>1. ParamsInv'
    <3>1. InTime(quorumParams, block + 1)
      <4>1. \A i \in 1 .. Len(quorumParams) :
               quorumParams[i].fromBlock \in Nat /\ quorumParams[i].fromBlock <= block
        BY DEF DaoInv, GovernorInv, ParamsInv, InTime, Increasing
      <4>2. \A i \in 1 .. Len(quorumParams) : quorumParams[i].fromBlock <= block + 1
        BY <1>1, <4>1
      <4> QED  BY <4>2 DEF DaoInv, GovernorInv, ParamsInv, InTime
    <3> QED  BY <1>1, <3>1 DEF DaoInv, GovernorInv, ParamsInv
  <2>2. ASSUME NEW x \in Created
        PROVE  ProposalInv(proposals[x])'
    <3>1. PICK p : p = proposals[x]
      OBVIOUS
    <3>2. ProposalInv(p)
      BY <3>1 DEF DaoInv, GovernorInv
    <3>3. p.startBlock \in Nat /\ p.endBlock \in Nat /\ p.creationBlock \in Nat
      BY <3>2 DEF ProposalInv, ProposalRecord
    <3>4. quorumVotes(p)' = quorumVotes(p)
      BY <1>1 DEF quorumVotes
    <3>5. ProposalInv(p)'
      BY <1>1, <3>2, <3>3, <3>4 DEF ProposalInv
    <3> QED  BY <1>1, <3>1, <3>5
  <2> QED  BY <1>1, <1>2, <2>1, <2>2 DEF DaoInv, GovernorInv
<1>4. EventInv'
  BY <1>1, <1>2 DEF DaoInv, EventInv
<1>5. EntityInv'
  <2>1. \A x : EntityDue(x)' = EntityDue(x)
    BY <1>1 DEF EntityDue, Concerns, indexedGovernance, Applied, WithVotes, EntityOf
  <2> QED  BY <1>1, <1>2, <2>1 DEF DaoInv, EntityInv, Mirrors, indexedGovernance
<1>6. LatestInv'
  <2>1. ParamsDue' = ParamsDue
    BY <1>1 DEF ParamsDue, indexedGovernance
  <2> QED  BY <1>1, <2>1 DEF DaoInv, LatestInv, indexedGovernance
<1>7. VotesInv'
  <2>1. VotesDue' = VotesDue
    BY <1>1 DEF VotesDue, indexedGovernance
  <2>2. \A x : VotersAgainst(VotesDue, x)' = VotersAgainst(VotesDue, x)
    BY <2>1 DEF VotersAgainst
  <2> QED  BY <1>1, <1>2, <2>1, <2>2 DEF DaoInv, VotesInv
<1> QED  BY <1>3, <1>4, <1>5, <1>6, <1>7 DEF DaoInv

-----------------------------------------------------------------------------
(* The handlers: each makes of the index what was due.                     *)

\* What a handler of an event on one entity leaves to say.
LEMMA OneEntityChanges ==
  ASSUME DaoInv, NEW id \in Created, Concerns(emitted, id), emitted.event # "ProposalCreated",
         NEW x, x = Applied(proposalEntity[id], emitted),
         proposalEntity' = [proposalEntity EXCEPT ![id] = x]
  PROVE  /\ DOMAIN proposalEntity' = Created
         /\ proposalEntity' = [y \in DOMAIN proposalEntity' |-> proposalEntity'[y]]
         /\ \A y \in Created : proposalEntity'[y] = EntityDue(y)
<1>1. DOMAIN proposalEntity = Created
  BY DEF DaoInv, EntityInv
<1>2. ASSUME NEW y \in Created
      PROVE  proposalEntity'[y] = EntityDue(y)
  <2>1. CASE y = id
    BY <1>1, <2>1 DEF EntityDue
  <2>2. CASE y # id
    <3>1. EntityDue(y) = proposalEntity[y]
      BY <2>2 DEF EntityDue, Concerns
    <3> QED  BY <1>1, <2>2, <3>1
  <2> QED  BY <2>1, <2>2
<1>3. proposalEntity = [y \in DOMAIN proposalEntity |-> proposalEntity[y]]
  BY DEF DaoInv, EntityInv
<1> QED  BY <1>1, <1>2, <1>3

\* The quorum is computed with the votes counted, since the dynamic quorum was in force
\* from the first block on.
LEMMA HandlesVote ==
  ASSUME DaoInv, emitted.event = "VoteCast", handleVoteCast(emitted)
  PROVE  /\ proposalEntity' =
              [proposalEntity EXCEPT ![emitted.id] = Applied(proposalEntity[emitted.id], emitted)]
         /\ voteEntity' = VotesDue
<1> DEFINE e == emitted
           before == proposalEntity[e.id]
           after == [before EXCEPT ![VoteFields[e.support + 1]] = @ + e.votes,
                                   !.status = IF @ = "PENDING" THEN "ACTIVE" ELSE @]
           dynamic == dynamicQuorumVotes(after.againstVotes, after.totalSupply, after.params)
<1>1. /\ voteEntity' =
           Put(voteEntity, <<e.voter, e.id>>, [support |-> e.support, votes |-> e.votes])
      /\ proposalEntity' = [proposalEntity EXCEPT
           ![e.id] = [after EXCEPT !.quorumVotes = QuorumAfterVote(before, after)]]
  BY DEF handleVoteCast
<1>2. Applied(before, e) = [after EXCEPT !.quorumVotes = dynamic]
  BY DEF Applied, WithVotes
<1>3. after.createdBlock >= 2 /\ after.createdBlock \in Nat
  <2>1. e.id \in Created
    BY DEF DaoInv, EventInv
  <2>2. EntityDue(e.id) = Applied(before, e)
    BY <2>1 DEF EntityDue, Concerns
  <2>3. PICK s : Applied(before, e) = EntityFor(proposals[e.id], s)
    BY <2>1, <2>2 DEF DaoInv, EntityInv, Mirrors
  <2>4. proposals[e.id].creationBlock >= 2 /\ proposals[e.id].creationBlock \in Nat
    BY <2>1 DEF DaoInv, GovernorInv, ProposalInv, ProposalRecord
  <2> HIDE DEF after, dynamic
  <2>5. PICK z : z = [after EXCEPT !.quorumVotes = dynamic]
    OBVIOUS
  <2>6. "createdBlock" \in DOMAIN z /\ z.createdBlock = proposals[e.id].creationBlock
    BY <1>2, <2>3, <2>5 DEF EntityFor
  <2>7. DOMAIN z = DOMAIN after
    BY <2>5
  <2>8. z.createdBlock = after.createdBlock
    BY <2>5, <2>6, <2>7
  <2> QED  BY <2>4, <2>6, <2>8
<1>4. latestParams.dynamicQuorumStartBlock = 1
  BY DEF DaoInv, LatestInv
<1> HIDE DEF after
<1>5. QuorumAfterVote(before, after) = dynamic
  BY <1>3, <1>4 DEF QuorumAfterVote
<1>6. voteEntity' = VotesDue
  BY <1>1 DEF VotesDue
<1> QED  BY <1>1, <1>2, <1>5, <1>6

\* Handling an event writes the entity that is due.
LEMMA HandlesWhatIsDue ==
  ASSUME DaoInv, emitted # NoEvent, HandlesGovernance(emitted)
  PROVE  /\ DOMAIN proposalEntity' = Created
         /\ proposalEntity' = [y \in DOMAIN proposalEntity' |-> proposalEntity'[y]]
         /\ \A y \in Created : proposalEntity'[y] = EntityDue(y)
         /\ latestParams' \in [params : Params, dynamicQuorumStartBlock : {1}]
         /\ latestParams'.params = ParamsDue
         /\ voteEntity' = VotesDue
<1> DEFINE e == emitted
           Entities == /\ DOMAIN proposalEntity' = Created
                       /\ proposalEntity' = [y \in DOMAIN proposalEntity' |-> proposalEntity'[y]]
                       /\ \A y \in Created : proposalEntity'[y] = EntityDue(y)
           Latest == /\ latestParams' \in [params : Params, dynamicQuorumStartBlock : {1}]
                     /\ latestParams'.params = ParamsDue
<1>0. e \in Events
  BY DEF DaoInv, EventInv
<1>1. latestParams \in [params : Params, dynamicQuorumStartBlock : {1}]
  BY DEF DaoInv, LatestInv
<1>2. ASSUME e.event \in {"ProposalCanceled", "ProposalVetoed",
                           "ProposalQueued", "ProposalExecuted"},
             proposalEntity' = [proposalEntity EXCEPT ![e.id] = Applied(proposalEntity[e.id], e)],
             UNCHANGED <<voteEntity, latestParams>>
      PROVE  Entities /\ Latest /\ voteEntity' = VotesDue
  <2>1. PICK id : id = e.id
    OBVIOUS
  <2>2. PICK x : x = Applied(proposalEntity[id], e)
    OBVIOUS
  <2>3. id \in Created /\ Concerns(e, id) /\ e.event # "ProposalCreated"
    BY <1>2, <2>1 DEF DaoInv, EventInv, Concerns
  <2>4. Entities
    BY <1>2, <2>1, <2>2, <2>3, OneEntityChanges
  <2> QED  BY <1>1, <1>2, <2>4 DEF VotesDue, ParamsDue
<1>3. CASE e.event = "ProposalCreated"
  <2>1. handleProposalCreated(e)
    BY <1>3 DEF HandlesGovernance
  <2>2. /\ proposalEntity' = Put(proposalEntity, e.id, EntityOf(e, latestParams.params))
        /\ UNCHANGED <<voteEntity, latestParams>>
    BY <2>1 DEF handleProposalCreated, EntityOf
  <2>3. DOMAIN proposalEntity = Created \ {e.id} /\ e.id \in Created
    BY <1>3 DEF DaoInv, EntityInv, EventInv
  <2>4. DOMAIN proposalEntity' = Created
    BY <2>2, <2>3 DEF Put
  <2>5. \A y \in Created : proposalEntity'[y] = EntityDue(y)
    BY <1>3, <2>2, <2>3 DEF Put, EntityDue, Concerns
  <2>6. proposalEntity' = [y \in DOMAIN proposalEntity' |-> proposalEntity'[y]]
    BY <2>2 DEF Put
  <2> QED  BY <1>1, <1>3, <2>2, <2>4, <2>5, <2>6 DEF VotesDue, ParamsDue
<1>4. CASE e.event = "ProposalCanceled"
  <2>1. handleProposalCanceled(e)
    BY <1>4 DEF HandlesGovernance
  <2>2. /\ proposalEntity' = [proposalEntity EXCEPT ![e.id] = Applied(proposalEntity[e.id], e)]
        /\ UNCHANGED <<voteEntity, latestParams>>
    BY <1>4, <2>1 DEF handleProposalCanceled, WithStatus, Applied
  <2> QED  BY <1>2, <1>4, <2>2
<1>5. CASE e.event = "ProposalVetoed"
  <2>1. handleProposalVetoed(e)
    BY <1>5 DEF HandlesGovernance
  <2>2. /\ proposalEntity' = [proposalEntity EXCEPT ![e.id] = Applied(proposalEntity[e.id], e)]
        /\ UNCHANGED <<voteEntity, latestParams>>
    BY <1>5, <2>1 DEF handleProposalVetoed, WithStatus, Applied
  <2> QED  BY <1>2, <1>5, <2>2
<1>6. CASE e.event = "ProposalQueued"
  <2>1. handleProposalQueued(e)
    BY <1>6 DEF HandlesGovernance
  <2>2. /\ proposalEntity' = [proposalEntity EXCEPT ![e.id] = Applied(proposalEntity[e.id], e)]
        /\ UNCHANGED <<voteEntity, latestParams>>
    BY <1>6, <2>1 DEF handleProposalQueued, Applied
  <2> QED  BY <1>2, <1>6, <2>2
<1>7. CASE e.event = "ProposalExecuted"
  <2>1. handleProposalExecuted(e)
    BY <1>7 DEF HandlesGovernance
  <2>2. /\ proposalEntity' = [proposalEntity EXCEPT ![e.id] = Applied(proposalEntity[e.id], e)]
        /\ UNCHANGED <<voteEntity, latestParams>>
    BY <1>7, <2>1 DEF handleProposalExecuted, Applied
  <2> QED  BY <1>2, <1>7, <2>2
<1>8. CASE e.event = "VoteCast"
  <2>1. handleVoteCast(e)
    BY <1>8 DEF HandlesGovernance
  <2>2. /\ proposalEntity' = [proposalEntity EXCEPT ![e.id] = Applied(proposalEntity[e.id], e)]
        /\ voteEntity' = VotesDue
    BY <1>8, <2>1, HandlesVote
  <2>3. latestParams' = latestParams
    BY <2>1 DEF handleVoteCast
  <2>4. PICK id : id = e.id
    OBVIOUS
  <2>5. PICK x : x = Applied(proposalEntity[id], e)
    OBVIOUS
  <2>6. id \in Created /\ Concerns(e, id) /\ e.event # "ProposalCreated"
    BY <1>8, <2>4 DEF DaoInv, EventInv, Concerns
  <2>7. Entities
    BY <2>2, <2>4, <2>5, <2>6, OneEntityChanges
  <2> QED  BY <1>1, <1>8, <2>2, <2>3, <2>7 DEF ParamsDue
<1>9. CASE e.event = "ParamsSet"
  <2>1. handleParamsSet(e)
    BY <1>9 DEF HandlesGovernance
  <2>2. /\ latestParams' = [latestParams EXCEPT !.params[e.field] = e.to]
        /\ UNCHANGED <<proposalEntity, voteEntity>>
    BY <2>1 DEF handleParamsSet
  <2>3. e.field \in Settable /\ e.to \in Nat
    BY <1>0, <1>9 DEF Events, NoEvent
  <2>4. ParamsDue \in Params
    BY <1>1, <1>9, <2>3 DEF ParamsDue, Params, Settable
  <2>5. latestParams' = [latestParams EXCEPT !.params = ParamsDue]
    BY <1>1, <1>9, <2>2 DEF ParamsDue
  <2>6. Latest
    BY <1>1, <2>4, <2>5
  <2>7. \A y \in Created : EntityDue(y) = proposalEntity[y]
    BY <1>9 DEF EntityDue, Concerns
  <2>8. Entities
    BY <1>9, <2>2, <2>7 DEF DaoInv, EntityInv
  <2> QED  BY <1>9, <2>2, <2>6, <2>8 DEF VotesDue
<1>10. e.event \in {"ProposalCreated", "ProposalCanceled", "ProposalVetoed", "ProposalQueued",
                   "ProposalExecuted", "VoteCast", "ParamsSet"}
  BY <1>0 DEF Events
<1> QED  BY <1>3, <1>4, <1>5, <1>6, <1>7, <1>8, <1>9, <1>10

\* Indexing keeps the invariant of governor and index.
LEMMA IndexStep ==
  ASSUME DaoInv, IndexGovernance
  PROVE  DaoInv'
<1>1. /\ emitted # NoEvent /\ HandlesGovernance(emitted) /\ emitted' = NoEvent
      /\ UNCHANGED chainGovernance
  BY DEF IndexGovernance
<1>2. /\ DOMAIN proposalEntity' = Created
      /\ proposalEntity' = [y \in DOMAIN proposalEntity' |-> proposalEntity'[y]]
      /\ \A y \in Created : proposalEntity'[y] = EntityDue(y)
      /\ latestParams' \in [params : Params, dynamicQuorumStartBlock : {1}]
      /\ latestParams'.params = ParamsDue
      /\ voteEntity' = VotesDue
  BY <1>1, HandlesWhatIsDue
<1>3. Created' = Created /\ UNCHANGED <<block, proposals, quorumParams>>
  BY <1>1 DEF Created, chainGovernance
<1>4. GovernorInv'
  <2>1. \A p : ProposalInv(p) => ProposalInv(p)'
    BY <1>3, ProposalInvStays
  <2>2. ASSUME NEW x \in Created
        PROVE  ProposalInv(proposals[x])'
    <3>1. PICK p : p = proposals[x]
      OBVIOUS
    <3> QED  BY <1>3, <2>1, <3>1 DEF DaoInv, GovernorInv
  <2> QED  BY <1>3, <2>2 DEF DaoInv, GovernorInv, ParamsInv
<1>5. EventInv'
  BY <1>1 DEF EventInv, NoEvent, Events
<1>6. EntityInv'
  <2>1. ASSUME NEW x \in Created
        PROVE  Mirrors(EntityDue(x), proposals[x])'
    <3>1. EntityDue(x)' = proposalEntity'[x]
      BY <1>1 DEF EntityDue, Concerns, NoEvent
    <3>2. EntityDue(x)' = EntityDue(x)
      BY <1>2, <3>1
    <3>3. Mirrors(EntityDue(x), proposals[x])
      BY DEF DaoInv, EntityInv
    <3> QED  BY <1>3, <3>2, <3>3 DEF Mirrors
  <2> QED  BY <1>1, <1>2, <1>3, <2>1 DEF EntityInv, NoEvent
<1>7. LatestInv'
  <2>1. ParamsDue' = latestParams'.params
    BY <1>1 DEF ParamsDue, NoEvent
  <2> QED  BY <1>2, <1>3, <2>1 DEF DaoInv, LatestInv
<1>8. VotesInv'
  <2>1. VotesDue' = VotesDue
    BY <1>1, <1>2 DEF VotesDue, NoEvent
  <2>2. \A x : VotersAgainst(VotesDue, x)' = VotersAgainst(VotesDue, x)
    BY <2>1 DEF VotersAgainst
  <2> QED  BY <1>3, <2>1, <2>2 DEF DaoInv, VotesInv
<1> QED  BY <1>4, <1>5, <1>6, <1>7, <1>8 DEF DaoInv

-----------------------------------------------------------------------------
(* All steps together.                                                     *)

\* Governor and index start in the invariant.
LEMMA DaoInit ==
  ASSUME SubgraphDAOInit
  PROVE  DaoInv
<1>1. PICK params \in ParamsChoices :
        /\ InitialParamsAllowed(params)
        /\ quorumParams = <<[fromBlock |-> 1, params |-> params]>>
        /\ latestParams = [params |-> params, dynamicQuorumStartBlock |-> 1]
  BY DEF SubgraphDAOInit
<1>2. /\ block = 2 /\ proposals = NoFunction /\ emitted = NoEvent
      /\ proposalEntity = NoFunction /\ voteEntity = NoFunction
  BY DEF SubgraphDAOInit
<1>3. params \in Params /\ Ordered(params)
  BY <1>1, SubgraphDAOAssumption DEF InitialParamsAllowed, Ordered
<1>4. Created = {} /\ DOMAIN proposalEntity = {} /\ DOMAIN voteEntity = {}
  BY <1>2 DEF Created, NoFunction
<1>5. GovernorInv
  <2>1. ParamsInv
    <3>1. [fromBlock |-> 1, params |-> params] \in ParamsCheckpoint
      BY <1>3 DEF ParamsCheckpoint
    <3>2. /\ quorumParams \in Seq(ParamsCheckpoint) /\ Len(quorumParams) = 1
          /\ quorumParams[1].fromBlock = 1 /\ quorumParams[1].params = params
      BY <1>1, <3>1
    <3>3. InTime(quorumParams, block)
      BY <1>2, <3>2 DEF InTime, Increasing
    <3> QED  BY <1>2, <1>3, <3>2, <3>3 DEF ParamsInv
  <2>2. proposals = [id \in Created |-> proposals[id]]
    BY <1>2, <1>4 DEF NoFunction
  <2> QED  BY <1>4, <2>1, <2>2 DEF GovernorInv
<1>6. EventInv
  BY <1>2 DEF EventInv, Events, NoEvent
<1>7. EntityInv
  <2>1. proposalEntity = [id \in DOMAIN proposalEntity |-> proposalEntity[id]]
    BY <1>2, <1>4 DEF NoFunction
  <2> QED  BY <1>2, <1>4, <2>1 DEF EntityInv, NoEvent
<1>8. LatestInv
  BY <1>1, <1>2, <1>3 DEF LatestInv, ParamsDue, NoEvent
<1>9. VotesInv
  BY <1>2, <1>4 DEF VotesInv, VotesDue, NoEvent
<1> QED  BY <1>5, <1>6, <1>7, <1>8, <1>9 DEF DaoInv

\* A step of others keeps it.
LEMMA DaoStutters ==
  ASSUME DaoInv, UNCHANGED subgraphDAOVars
  PROVE  DaoInv'
<1>1. UNCHANGED <<block, proposals, quorumParams, emitted,
                  proposalEntity, voteEntity, latestParams>>
  BY DEF subgraphDAOVars, chainGovernance, indexedGovernance
<1>2. Created' = Created
  BY <1>1 DEF Created
<1>3. GovernorInv'
  <2>1. \A p : ProposalInv(p) => ProposalInv(p)'
    BY <1>1, ProposalInvStays
  <2>2. ASSUME NEW x \in Created
        PROVE  ProposalInv(proposals[x])'
    <3>1. PICK p : p = proposals[x]
      OBVIOUS
    <3> QED  BY <1>1, <2>1, <3>1 DEF DaoInv, GovernorInv
  <2> QED  BY <1>1, <1>2, <2>2 DEF DaoInv, GovernorInv, ParamsInv
<1>4. EventInv'
  BY <1>1, <1>2 DEF DaoInv, EventInv
<1>5. EntityInv'
  <2>1. \A x : EntityDue(x)' = EntityDue(x)
    BY <1>1 DEF EntityDue, Concerns, Applied, WithVotes, EntityOf
  <2> QED  BY <1>1, <1>2, <2>1 DEF DaoInv, EntityInv, Mirrors
<1>6. LatestInv'
  <2>1. ParamsDue' = ParamsDue
    BY <1>1 DEF ParamsDue
  <2> QED  BY <1>1, <2>1 DEF DaoInv, LatestInv
<1>7. VotesInv'
  <2>1. VotesDue' = VotesDue
    BY <1>1 DEF VotesDue
  <2>2. \A x : VotersAgainst(VotesDue, x)' = VotersAgainst(VotesDue, x)
    BY <2>1 DEF VotersAgainst
  <2> QED  BY <1>1, <1>2, <2>1, <2>2 DEF DaoInv, VotesInv
<1> QED  BY <1>3, <1>4, <1>5, <1>6, <1>7 DEF DaoInv

\* Every step keeps it.
LEMMA DaoStep ==
  ASSUME DaoInv, [SubgraphDAONext]_subgraphDAOVars
  PROVE  DaoInv'
<1>1. ASSUME NEW id \in ProposalIds, NEW proposer \in Proposers, NEW supply \in Supplies,
             Propose(id, proposer, supply)
      PROVE  DaoInv'
  BY <1>1, ProposeStep
<1>2. ASSUME NEW id \in Created, NEW voter \in Voters, NEW support \in Supports,
             CastVote(id, voter, support)
      PROVE  DaoInv'
  BY <1>2, CastVoteStep
<1>3. ASSUME NEW id \in Created, Queue(id) \/ Execute(id) \/ Cancel(id) \/ Veto(id)
      PROVE  DaoInv'
  BY <1>3, QueueStep, ExecuteStep, CancelStep, VetoStep
<1>4. ASSUME NEW field \in Settable, NEW params \in ParamsChoices, SetParams(field, params)
      PROVE  DaoInv'
  BY <1>4, SetParamsStep
<1>5. CASE MineBlock
  BY <1>5, MineBlockStep
<1>6. CASE IndexGovernance
  BY <1>6, IndexStep
<1>7. CASE UNCHANGED subgraphDAOVars
  BY <1>7, DaoStutters
<1> QED  BY <1>1, <1>2, <1>3, <1>4, <1>5, <1>6, <1>7 DEF SubgraphDAONext, Settable

\* Entities are never removed.
LEMMA EntitiesStay ==
  ASSUME DaoInv, DaoInv', [SubgraphDAONext]_subgraphDAOVars
  PROVE  DOMAIN proposalEntity \subseteq DOMAIN proposalEntity'
<1>1. CASE UNCHANGED indexedGovernance
  BY <1>1 DEF indexedGovernance
<1>2. CASE IndexGovernance
  <2>1. /\ emitted # NoEvent /\ HandlesGovernance(emitted)
    BY <1>2 DEF IndexGovernance
  <2>2. DOMAIN proposalEntity' = Created
    BY <2>1, HandlesWhatIsDue
  <2>3. DOMAIN proposalEntity \subseteq Created
    BY DEF DaoInv, EntityInv
  <2> QED  BY <2>2, <2>3
<1>3. UNCHANGED indexedGovernance \/ IndexGovernance
  <2>1. CASE UNCHANGED subgraphDAOVars
    BY <2>1 DEF subgraphDAOVars
  <2>2. CASE SubgraphDAONext
    BY <2>2 DEF SubgraphDAONext, Propose, CastVote, Queue, Execute, Cancel, Veto, SetParams,
                MineBlock, Emits
  <2> QED  BY <2>1, <2>2
<1> QED  BY <1>1, <1>2, <1>3

\* Every step of the page keeps its invariant.
LEMMA PageStep ==
  ASSUME IndexInv, [GovernancePageNext]_governancePageVars
  PROVE  IndexInv'
<1>0. DaoInv /\ ShownInv
  BY DEF IndexInv, DaoInv
<1>1. SUFFICES ASSUME DaoInv', DOMAIN proposalEntity \subseteq DOMAIN proposalEntity',
                      \/ shown' = shown
                      \/ \E id \in DOMAIN proposalEntity : shown' = <<id, proposalEntity[id]>>,
                      pending' \subseteq pending \/ shown' # <<>>
               PROVE  IndexInv'
  <2>1. ASSUME [SubgraphDAONext]_subgraphDAOVars
        PROVE  DaoInv' /\ DOMAIN proposalEntity \subseteq DOMAIN proposalEntity'
    BY <1>0, <2>1, DaoStep, EntitiesStay
  <2>2. CASE (SubgraphDAONext /\ UNCHANGED pageVars) \/ UNCHANGED governancePageVars
    BY <1>1, <2>1, <2>2 DEF governancePageVars, pageVars
  <2>3. ASSUME NEW id \in ProposalIds, useProposal(id)
        PROVE  IndexInv'
    BY <1>1, <2>1, <2>3 DEF useProposal
  <2>4. ASSUME NEW a \in Actions, Click(a) \/ OnNotMined(a)
        PROVE  IndexInv'
    BY <1>1, <2>1, <2>4 DEF Click, OnNotMined
  <2>5. ASSUME NEW a \in Actions, OnMined(a)
        PROVE  IndexInv'
    <3>1. PageId \in Created
      <4>1. shown # <<>>
        BY <1>0, <2>5 DEF OnMined, ShownInv
      <4> QED  BY <1>0, <4>1 DEF ShownInv, PageId, DaoInv, EntityInv
    <3>2. Queue(PageId) \/ Execute(PageId) \/ Cancel(PageId)
      BY <2>5 DEF OnMined, Actions
    <3>3. SubgraphDAONext
      BY <3>1, <3>2 DEF SubgraphDAONext
    <3>4. shown' = shown /\ pending' \subseteq pending
      BY <2>5 DEF OnMined
    <3> QED  BY <1>1, <2>1, <3>3, <3>4
  <2> QED  BY <2>2, <2>3, <2>4, <2>5 DEF GovernancePageNext
<1>2. ShownInv'
  <2>1. shown' # <<>> => shown'[1] \in DOMAIN proposalEntity'
    BY <1>0, <1>1 DEF ShownInv
  <2>2. pending' # {} => shown' # <<>>
    BY <1>0, <1>1 DEF ShownInv
  <2> QED  BY <2>1, <2>2 DEF ShownInv
<1> QED  BY <1>1, <1>2 DEF IndexInv, DaoInv

\* Of every entity, parameter and vote the index holds what the governor has done, but for
\* the event under way, and the governor has done it in an order it allows.
THEOREM IndexFollowsTheGovernor == GovernancePageSpec => []IndexInv
<1>1. SubgraphDAOInit /\ PageInit => IndexInv
  <2> SUFFICES ASSUME SubgraphDAOInit, PageInit PROVE IndexInv
    OBVIOUS
  <2>1. DaoInv
    BY DaoInit
  <2>2. ShownInv
    BY DEF PageInit, ShownInv
  <2> QED  BY <2>1, <2>2 DEF IndexInv, DaoInv
<1>2. IndexInv /\ [GovernancePageNext]_governancePageVars => IndexInv'
  BY PageStep
<1> QED  BY <1>1, <1>2, PTL DEF GovernancePageSpec

-----------------------------------------------------------------------------
(* The timelock's flags.                                                   *)

\* A proposal that is queued, and nothing more happened to it.
Live(id) ==
  LET p == proposals[id] IN p.eta # 0 /\ ~p.canceled /\ ~p.vetoed /\ ~p.executed

FlagsOf(id) == ActionsAtEta(id, proposals[id].eta)

\* A queued proposal has its flags, but for one that was recalled; and it shares none
\* with another queued proposal, but for one that was recalled.
TimelockInv ==
  /\ \A tx \in queuedTransactions : tx[2] \in Nat /\ tx[2] <= block + timelockDelay
  /\ \A id \in Created : Live(id) =>
       \A tx \in FlagsOf(id) :
         /\ tx \in queuedTransactions \/ Recalled(tx)
         /\ \A other \in Created : other # id /\ Live(other) /\ tx \in FlagsOf(other) =>
                                     Recalled(tx)

\* What two moments have in common for the flags of a proposal.
SameFlags(id) ==
  /\ proposals'[id].eta = proposals[id].eta
  /\ proposals'[id].canceled = proposals[id].canceled
  /\ proposals'[id].vetoed = proposals[id].vetoed
  /\ proposals'[id].executed = proposals[id].executed

LEMMA SameFlagsKeep ==
  ASSUME NEW id, SameFlags(id)
  PROVE  FlagsOf(id)' = FlagsOf(id) /\ (Live(id)' <=> Live(id))
BY DEF SameFlags, FlagsOf, Live, ActionsAtEta

\* A recalled transaction stays recalled.
LEMMA RecalledStays ==
  ASSUME NEW tx, Recalled(tx), Created \subseteq Created',
         \A x \in Created : /\ proposals[x].canceled \/ proposals[x].vetoed =>
                                 /\ proposals'[x].canceled \/ proposals'[x].vetoed
                                 /\ proposals'[x].eta = proposals[x].eta
  PROVE  Recalled(tx)'
<1>1. PICK x \in Created : /\ proposals[x].canceled \/ proposals[x].vetoed
                           /\ tx \in ActionsAtEta(x, proposals[x].eta)
  BY DEF Recalled
<1>2. /\ x \in Created' /\ (proposals'[x].canceled \/ proposals'[x].vetoed)
      /\ proposals'[x].eta = proposals[x].eta
  BY <1>1
<1>3. tx \in ActionsAtEta(x, proposals'[x].eta)
  BY <1>1, <1>2
<1> QED  BY <1>2, <1>3 DEF Recalled, ActionsAtEta

\* A step that touches neither the flags nor what they depend on.
LEMMA TimelockKept ==
  ASSUME TimelockInv, block \in Nat, block' \in Nat, block <= block',
         queuedTransactions' = queuedTransactions, Created \subseteq Created',
         \A x \in Created : SameFlags(x),
         \A x \in Created' : x \notin Created => proposals'[x].eta = 0
  PROVE  TimelockInv'
<1>1. \A tx : Recalled(tx) => Recalled(tx)'
  BY RecalledStays DEF SameFlags
<1>2. \A tx \in queuedTransactions' : tx[2] \in Nat /\ tx[2] <= block' + timelockDelay
  BY SubgraphDAOAssumption DEF TimelockInv
<1>3. \A x \in Created' : Live(x)' => x \in Created /\ Live(x) /\ FlagsOf(x)' = FlagsOf(x)
  <2>1. ASSUME NEW x \in Created', Live(x)'
        PROVE  x \in Created /\ Live(x) /\ FlagsOf(x)' = FlagsOf(x)
    <3>1. x \in Created
      BY <2>1 DEF Live
    <3> QED  BY <2>1, <3>1, SameFlagsKeep
  <2> QED  BY <2>1
<1>4. ASSUME NEW id \in Created', Live(id)', NEW tx \in FlagsOf(id)'
      PROVE  /\ tx \in queuedTransactions' \/ Recalled(tx)'
             /\ \A other \in Created' : other # id /\ Live(other)' /\ tx \in FlagsOf(other)' =>
                                          Recalled(tx)'
  <2>1. id \in Created /\ Live(id) /\ tx \in FlagsOf(id)
    BY <1>3, <1>4
  <2>2. /\ tx \in queuedTransactions \/ Recalled(tx)
        /\ \A other \in Created : other # id /\ Live(other) /\ tx \in FlagsOf(other) =>
                                    Recalled(tx)
    BY <2>1 DEF TimelockInv
  <2> QED  BY <1>1, <1>3, <2>2
<1> QED  BY <1>2, <1>4 DEF TimelockInv

\* An execution, a cancellation or a veto: the flags of the proposal are cleared, and it
\* is live no more; if it was executed, no other live one had one of its flags.
LEMMA FlagsCleared ==
  ASSUME TimelockInv, NEW id \in Created, ClearsFlags(id), Created' = Created, block' = block,
         \A x \in Created : x # id => SameFlags(x),
         proposals'[id].eta = proposals[id].eta,
         proposals[id].canceled => proposals'[id].canceled,
         proposals[id].vetoed => proposals'[id].vetoed,
         \/ proposals'[id].canceled \/ proposals'[id].vetoed
         \/ Live(id) /\ proposals'[id].executed
  PROVE  TimelockInv'
<1>1. \A tx : Recalled(tx) => Recalled(tx)'
  BY RecalledStays DEF SameFlags
<1>2. ~Live(id)'
  BY DEF Live
<1>3. \A x \in Created' : Live(x)' => x # id /\ Live(x) /\ FlagsOf(x)' = FlagsOf(x)
  BY <1>2, SameFlagsKeep
<1>4. queuedTransactions' = queuedTransactions \ FlagsOf(id)
  BY DEF ClearsFlags, FlagsOf
<1>5. \A tx \in queuedTransactions' : tx[2] \in Nat /\ tx[2] <= block' + timelockDelay
  BY <1>4 DEF TimelockInv
<1>6. ASSUME NEW x \in Created', Live(x)', NEW tx \in FlagsOf(x)'
      PROVE  /\ tx \in queuedTransactions' \/ Recalled(tx)'
             /\ \A other \in Created' : other # x /\ Live(other)' /\ tx \in FlagsOf(other)' =>
                                          Recalled(tx)'
  <2>1. x \in Created /\ x # id /\ Live(x) /\ tx \in FlagsOf(x)
    BY <1>3, <1>6
  <2>2. /\ tx \in queuedTransactions \/ Recalled(tx)
        /\ \A other \in Created : other # x /\ Live(other) /\ tx \in FlagsOf(other) =>
                                    Recalled(tx)
    BY <2>1 DEF TimelockInv
  <2>3. tx \in queuedTransactions' \/ Recalled(tx)'
    <3>1. CASE tx \notin FlagsOf(id)
      BY <1>1, <1>4, <2>2, <3>1
    <3>2. CASE tx \in FlagsOf(id) /\ Live(id)
      <4>1. Recalled(tx)
        BY <2>1, <2>2, <3>2
      <4> QED  BY <1>1, <4>1
    <3>3. CASE tx \in FlagsOf(id) /\ (proposals'[id].canceled \/ proposals'[id].vetoed)
      <4>1. tx \in ActionsAtEta(id, proposals'[id].eta)
        BY <3>3 DEF FlagsOf
      <4>2. id \in Created'
        OBVIOUS
      <4> QED  BY <3>3, <4>1, <4>2 DEF Recalled, ActionsAtEta
    <3> QED  BY <3>1, <3>2, <3>3
  <2> QED  BY <1>1, <1>3, <2>2, <2>3
<1> QED  BY <1>5, <1>6 DEF TimelockInv

\* Queueing sets flags none of which is set.
LEMMA FlagsSet ==
  ASSUME TimelockInv, block \in Nat, NEW id \in Created, NEW eta, eta = block + timelockDelay,
         CanQueue(id, eta), queuedTransactions' = queuedTransactions \cup ActionsAtEta(id, eta),
         Created' = Created, block' = block, \A x \in Created : x # id => SameFlags(x),
         ~proposals[id].canceled, ~proposals[id].vetoed, proposals[id].eta = 0,
         proposals'[id].eta = eta
  PROVE  TimelockInv'
<1>0. eta \in Nat
  BY SubgraphDAOAssumption
<1>1. \A tx : Recalled(tx) => Recalled(tx)'
  <2>1. \A x \in Created : proposals[x].canceled \/ proposals[x].vetoed => x # id
    OBVIOUS
  <2> QED  BY <2>1, RecalledStays DEF SameFlags
<1>2. FlagsOf(id)' = ActionsAtEta(id, eta)
  BY DEF FlagsOf, ActionsAtEta
<1>3. \A x \in Created : x # id /\ Live(x)' => Live(x) /\ FlagsOf(x)' = FlagsOf(x)
  BY SameFlagsKeep
<1>4. \A tx \in queuedTransactions' : tx[2] \in Nat /\ tx[2] <= block' + timelockDelay
  <2>1. \A tx \in ActionsAtEta(id, eta) : tx[2] = eta
    BY DEF ActionsAtEta
  <2> QED  BY <1>0, <2>1 DEF TimelockInv
<1>5. ASSUME NEW x \in Created, x # id, Live(x)', NEW tx \in FlagsOf(x)',
             tx \in ActionsAtEta(id, eta)
      PROVE  Recalled(tx)'
  <2>1. tx \notin queuedTransactions
    BY <1>5 DEF CanQueue
  <2>2. Live(x) /\ tx \in FlagsOf(x)
    BY <1>3, <1>5
  <2>3. Recalled(tx)
    BY <2>1, <2>2 DEF TimelockInv
  <2> QED  BY <1>1, <2>3
<1>6. ASSUME NEW x \in Created, Live(x)', NEW tx \in FlagsOf(x)'
      PROVE  /\ tx \in queuedTransactions' \/ Recalled(tx)'
             /\ \A other \in Created : other # x /\ Live(other)' /\ tx \in FlagsOf(other)' =>
                                         Recalled(tx)'
  <2>1. CASE x = id
    <3>1. tx \in ActionsAtEta(id, eta)
      BY <1>2, <1>6, <2>1
    <3> QED  BY <1>5, <2>1, <3>1
  <2>2. CASE x # id
    <3>1. Live(x) /\ tx \in FlagsOf(x)
      BY <1>3, <1>6, <2>2
    <3>2. /\ tx \in queuedTransactions \/ Recalled(tx)
          /\ \A other \in Created : other # x /\ Live(other) /\ tx \in FlagsOf(other) =>
                                      Recalled(tx)
      BY <3>1 DEF TimelockInv
    <3>3. tx \in queuedTransactions' \/ Recalled(tx)'
      BY <1>1, <3>2
    <3>4. ASSUME NEW other \in Created, other # x, Live(other)', tx \in FlagsOf(other)'
          PROVE  Recalled(tx)'
      <4>1. CASE other = id
        <5>1. tx \in ActionsAtEta(id, eta)
          BY <1>2, <3>4, <4>1
        <5> QED  BY <1>5, <1>6, <2>2, <5>1
      <4>2. CASE other # id
        <5>1. Live(other) /\ tx \in FlagsOf(other)
          BY <1>3, <3>4, <4>2
        <5>2. Recalled(tx)
          BY <3>2, <3>4, <5>1
        <5> QED  BY <1>1, <5>2
      <4> QED  BY <4>1, <4>2
    <3> QED  BY <3>3, <3>4
  <2> QED  BY <2>1, <2>2
<1> QED  BY <1>4, <1>6 DEF TimelockInv

\* One proposal changes: the others keep their flags.
LEMMA OthersKeepFlags ==
  ASSUME NEW id \in Created, NEW q, proposals' = [proposals EXCEPT ![id] = q]
  PROVE  /\ Created' = Created /\ proposals'[id] = q
         /\ \A x \in Created : x # id => SameFlags(x)
BY DEF Created, SameFlags

\* Every step of the governor keeps what the flags stand for.
LEMMA TimelockStep ==
  ASSUME DaoInv, DaoInv', TimelockInv, [SubgraphDAONext]_subgraphDAOVars
  PROVE  TimelockInv'
<1>0. block \in Nat /\ block' \in Nat
  BY DEF DaoInv, GovernorInv, ParamsInv
<1>1. ASSUME NEW id \in ProposalIds, NEW proposer \in Proposers, NEW supply \in Supplies,
             Propose(id, proposer, supply)
      PROVE  TimelockInv'
  <2>1. /\ id \notin Created /\ block' = block /\ queuedTransactions' = queuedTransactions
        /\ \E new : new.eta = 0 /\ proposals' = Put(proposals, id, new)
    <3>1. PICK new : new.eta = 0 /\ proposals' = Put(proposals, id, new)
      BY <1>1 DEF Propose
    <3> QED  BY <1>1, <3>1 DEF Propose
  <2>2. /\ Created' = Created \cup {id} /\ proposals'[id].eta = 0
        /\ \A x \in Created : proposals'[x] = proposals[x]
    BY <2>1 DEF Put, Created
  <2>3. \A x \in Created : SameFlags(x)
    BY <2>2 DEF SameFlags
  <2> QED  BY <1>0, <2>1, <2>2, <2>3, TimelockKept
<1>2. ASSUME NEW id \in Created, NEW voter \in Voters, NEW support \in Supports,
             CastVote(id, voter, support)
      PROVE  TimelockInv'
  <2>1. PICK q : q = WithBallot(proposals[id], voter, support)
    OBVIOUS
  <2>2. /\ proposals' = [proposals EXCEPT ![id] = q] /\ emitted = NoEvent
        /\ block' = block /\ queuedTransactions' = queuedTransactions
    BY <1>2, <2>1 DEF CastVote, Emits, WithBallot
  <2>3. proposals[id] \in ProposalRecord /\ support \in 0 .. 2
    BY <2>2, WhenIndexed, SubgraphDAOAssumption
  <2>4. /\ q.eta = proposals[id].eta /\ q.canceled = proposals[id].canceled
        /\ q.vetoed = proposals[id].vetoed /\ q.executed = proposals[id].executed
    BY <2>1, <2>3, BallotFields
  <2>5. Created' = Created /\ \A x \in Created : SameFlags(x)
    <3>1. /\ Created' = Created /\ proposals'[id] = q
          /\ \A x \in Created : x # id => SameFlags(x)
      BY <2>2, OthersKeepFlags
    <3> QED  BY <2>4, <3>1 DEF SameFlags
  <2> QED  BY <1>0, <2>2, <2>5, TimelockKept
<1>3. ASSUME NEW id \in Created, Queue(id)
      PROVE  TimelockInv'
  <2> DEFINE p == proposals[id]
  <2>1. PICK eta : eta = block + timelockDelay
    OBVIOUS
  <2>2. PICK q : q = [p EXCEPT !.eta = eta]
    OBVIOUS
  <2>3. /\ proposals' = [proposals EXCEPT ![id] = q] /\ emitted = NoEvent
        /\ block' = block /\ contractState(id) = "SUCCEEDED" /\ CanQueue(id, eta)
        /\ queuedTransactions' = queuedTransactions \cup ActionsAtEta(id, eta)
    BY <1>3, <2>1, <2>2 DEF Queue, Emits
  <2>4. ~p.canceled /\ ~p.vetoed /\ p.eta = 0
    BY <2>3 DEF contractState, stateAt
  <2>5. p \in ProposalRecord
    BY <2>3, WhenIndexed
  <2>6. q.eta = eta
    BY <2>2, <2>5 DEF ProposalRecord
  <2>7. /\ Created' = Created /\ proposals'[id] = q
        /\ \A x \in Created : x # id => SameFlags(x)
    BY <2>3, OthersKeepFlags
  <2> QED  BY <1>0, <2>1, <2>3, <2>4, <2>6, <2>7, FlagsSet
<1>4. ASSUME NEW id \in Created, NEW q,
             proposals' = [proposals EXCEPT ![id] = q], ClearsFlags(id), block' = block,
             q.eta = proposals[id].eta,
             proposals[id].canceled => q.canceled, proposals[id].vetoed => q.vetoed,
             q.canceled \/ q.vetoed \/ (Live(id) /\ q.executed)
      PROVE  TimelockInv'
  <2>1. /\ Created' = Created /\ proposals'[id] = q
        /\ \A x \in Created : x # id => SameFlags(x)
    BY <1>4, OthersKeepFlags
  <2> QED  BY <1>4, <2>1, FlagsCleared
<1>5. ASSUME NEW id \in Created, Execute(id)
      PROVE  TimelockInv'
  <2> DEFINE p == proposals[id]
  <2>1. PICK q : q = [p EXCEPT !.executed = TRUE]
    OBVIOUS
  <2>2. /\ proposals' = [proposals EXCEPT ![id] = q] /\ emitted = NoEvent /\ ClearsFlags(id)
        /\ block' = block /\ contractState(id) = "QUEUED"
    BY <1>5, <2>1 DEF Execute, CanExecute, Emits
  <2>3. ~p.canceled /\ ~p.vetoed /\ p.eta # 0 /\ ~p.executed
    BY <2>2 DEF contractState, stateAt
  <2>4. p \in ProposalRecord
    BY <2>2, WhenIndexed
  <2>5. q.eta = p.eta /\ q.canceled = p.canceled /\ q.vetoed = p.vetoed /\ q.executed
    BY <2>1, <2>4 DEF ProposalRecord
  <2>6. Live(id)
    BY <2>3 DEF Live
  <2> QED  BY <1>4, <2>2, <2>3, <2>5, <2>6
<1>6. ASSUME NEW id \in Created, Cancel(id)
      PROVE  TimelockInv'
  <2> DEFINE p == proposals[id]
  <2>1. PICK q : q = [p EXCEPT !.canceled = TRUE]
    OBVIOUS
  <2>2. /\ proposals' = [proposals EXCEPT ![id] = q] /\ emitted = NoEvent /\ ClearsFlags(id)
        /\ block' = block
    BY <1>6, <2>1 DEF Cancel, Emits
  <2>3. p \in ProposalRecord
    BY <2>2, WhenIndexed
  <2>4. q.eta = p.eta /\ q.canceled /\ q.vetoed = p.vetoed
    BY <2>1, <2>3 DEF ProposalRecord
  <2> QED  BY <1>4, <2>2, <2>4
<1>7. ASSUME NEW id \in Created, Veto(id)
      PROVE  TimelockInv'
  <2> DEFINE p == proposals[id]
  <2>1. PICK q : q = [p EXCEPT !.vetoed = TRUE]
    OBVIOUS
  <2>2. /\ proposals' = [proposals EXCEPT ![id] = q] /\ emitted = NoEvent /\ ClearsFlags(id)
        /\ block' = block
    BY <1>7, <2>1 DEF Veto, Emits
  <2>3. p \in ProposalRecord
    BY <2>2, WhenIndexed
  <2>4. q.eta = p.eta /\ q.canceled = p.canceled /\ q.vetoed
    BY <2>1, <2>3 DEF ProposalRecord
  <2> QED  BY <1>4, <2>2, <2>4
<1>8. ASSUME UNCHANGED <<proposals, queuedTransactions>>, block' = block \/ block' = block + 1
      PROVE  TimelockInv'
  <2>1. Created' = Created /\ \A x \in Created : SameFlags(x)
    BY <1>8 DEF Created, SameFlags
  <2>2. block <= block'
    BY <1>0, <1>8
  <2> QED  BY <1>0, <1>8, <2>1, <2>2, TimelockKept
<1>9. ASSUME NEW field \in Settable, NEW params \in ParamsChoices, SetParams(field, params)
      PROVE  TimelockInv'
  BY <1>8, <1>9 DEF SetParams
<1>10. CASE MineBlock
  BY <1>8, <1>10 DEF MineBlock
<1>11. CASE IndexGovernance
  BY <1>8, <1>11 DEF IndexGovernance, chainGovernance
<1>12. CASE UNCHANGED subgraphDAOVars
  BY <1>8, <1>12 DEF subgraphDAOVars, chainGovernance
<1> QED  BY <1>1, <1>2, <1>3, <1>5, <1>6, <1>7, <1>9, <1>10, <1>11, <1>12
         DEF SubgraphDAONext, Settable

\* A step of the page is one of the governor or of the index, or neither.
LEMMA PageStepIsOne ==
  ASSUME DaoInv, ShownInv, [GovernancePageNext]_governancePageVars
  PROVE  [SubgraphDAONext]_subgraphDAOVars
<1>1. CASE (SubgraphDAONext /\ UNCHANGED pageVars) \/ UNCHANGED governancePageVars
  BY <1>1 DEF governancePageVars
<1>2. ASSUME NEW id \in ProposalIds, useProposal(id)
      PROVE  [SubgraphDAONext]_subgraphDAOVars
  BY <1>2 DEF useProposal
<1>3. ASSUME NEW a \in Actions, Click(a) \/ OnNotMined(a)
      PROVE  [SubgraphDAONext]_subgraphDAOVars
  BY <1>3 DEF Click, OnNotMined
<1>4. ASSUME NEW a \in Actions, OnMined(a)
      PROVE  [SubgraphDAONext]_subgraphDAOVars
  <2>1. PageId \in Created
    <3>1. shown # <<>>
      BY <1>4 DEF OnMined, ShownInv
    <3> QED  BY <3>1 DEF ShownInv, PageId, DaoInv, EntityInv
  <2>2. Queue(PageId) \/ Execute(PageId) \/ Cancel(PageId)
    BY <1>4 DEF OnMined, Actions
  <2> QED  BY <2>1, <2>2 DEF SubgraphDAONext
<1> QED  BY <1>1, <1>2, <1>3, <1>4 DEF GovernancePageNext

\* The flags stand for what was queued, in every reachable state.
LEMMA FlagsFollowTheProposals == GovernancePageSpec => []TimelockInv
<1>1. SubgraphDAOInit => TimelockInv
  BY DEF SubgraphDAOInit, TimelockInv, Created, NoFunction
<1>2. IndexInv /\ IndexInv' /\ TimelockInv /\ [GovernancePageNext]_governancePageVars
        => TimelockInv'
  <2> SUFFICES ASSUME IndexInv, IndexInv', TimelockInv, [GovernancePageNext]_governancePageVars
               PROVE  TimelockInv'
    OBVIOUS
  <2>1. DaoInv /\ DaoInv' /\ ShownInv
    BY DEF IndexInv, DaoInv
  <2>2. [SubgraphDAONext]_subgraphDAOVars
    BY <2>1, PageStepIsOne
  <2> QED  BY <2>1, <2>2, TimelockStep
<1> QED  BY <1>1, <1>2, IndexFollowsTheGovernor, PTL DEF GovernancePageSpec

-----------------------------------------------------------------------------
(* What the page makes of the index.                                       *)

\* The parameters of the proposal are those the contract goes by, if they did not change
\* later in the block of its creation.
LEMMA TermsOfTheContract ==
  ASSUME NEW id \in Created, TermsAsIndexed(id), NEW status
  PROVE  quorumVotes(proposals[id]) = EntityFor(proposals[id], status).quorumVotes
BY DEF TermsAsIndexed, quorumVotes, EntityFor

\* The dates of a proposal.
LEMMA DatesOf ==
  ASSUME DaoInv, NEW id \in Created
  PROVE  LET p == proposals[id]
         IN  /\ block \in Nat /\ p.startBlock \in Nat /\ p.endBlock \in Nat /\ p.eta \in Nat
             /\ p.startBlock <= p.endBlock /\ GRACE_PERIOD \in Nat
             /\ p.vetoed \in BOOLEAN /\ p.canceled \in BOOLEAN /\ p.executed \in BOOLEAN
<1>1. ProposalInv(proposals[id]) /\ block \in Nat
  BY DEF DaoInv, GovernorInv, ParamsInv
<1> QED  BY <1>1, SubgraphDAOAssumption DEF ProposalInv, ProposalRecord

\* A status only matters while the proposal is open or queued.
LEMMA StateOfFinal ==
  ASSUME NEW blockNumber, NEW x, x.status \in {"CANCELLED", "VETOED", "EXECUTED"}
  PROVE  getProposalState(blockNumber, x) = x.status
BY DEF getProposalState

\* How the page derives the state of a queued proposal.
LEMMA StateOfQueued ==
  ASSUME NEW blockNumber, NEW x, x.status = "QUEUED"
  PROVE  getProposalState(blockNumber, x) =
           IF blockNumber >= x.executionETA + GRACE_PERIOD THEN "EXPIRED" ELSE "QUEUED"
BY DEF getProposalState

\* How the page derives the state of a proposal not queued yet.
LEMMA StateOfOpen ==
  ASSUME NEW blockNumber \in Nat, NEW x, x.status \in {"PENDING", "ACTIVE"},
         x.status = "ACTIVE" => blockNumber > x.startBlock,
         x.startBlock \in Nat, x.endBlock \in Nat, x.startBlock <= x.endBlock, x.executionETA = 0
  PROVE  getProposalState(blockNumber, x) =
           IF blockNumber <= x.startBlock THEN "PENDING"
           ELSE IF blockNumber <= x.endBlock THEN "ACTIVE"
           ELSE IF x.forVotes <= x.againstVotes \/ x.forVotes < x.quorumVotes THEN "DEFEATED"
           ELSE "SUCCEEDED"
<1> DEFINE status == IF x.status = "PENDING" /\ blockNumber > x.startBlock THEN "ACTIVE"
                     ELSE x.status
<1>1. CASE blockNumber <= x.startBlock
  <2>1. status = "PENDING"
    BY <1>1
  <2> QED  BY <1>1, <2>1 DEF getProposalState
<1>2. CASE ~(blockNumber <= x.startBlock) /\ blockNumber <= x.endBlock
  <2>1. status = "ACTIVE" /\ ~(blockNumber > x.endBlock)
    BY <1>2
  <2> QED  BY <1>2, <2>1 DEF getProposalState
<1>3. CASE ~(blockNumber <= x.endBlock)
  <2>1. status = "ACTIVE" /\ blockNumber > x.endBlock /\ ~(blockNumber <= x.startBlock)
    BY <1>3
  <2> QED  BY <1>3, <2>1 DEF getProposalState
<1> QED  BY <1>1, <1>2, <1>3

\* An entity shows the state the governor is in.
LEMMA EntityShowsState ==
  ASSUME DaoInv, emitted = NoEvent, NEW id \in Created, TermsAsIndexed(id),
         ~(proposals[id].vetoed /\ proposals[id].canceled)
  PROVE  getProposalState(block, proposalEntity[id]) = contractState(id)
<1> DEFINE p == proposals[id]
           x == proposalEntity[id]
<1>1. ProposalInv(p) /\ Mirrors(x, p)
  BY WhenIndexed
<1>2. PICK s \in StatusesOf(p) : x = EntityFor(p, s)
  BY <1>1 DEF Mirrors
<1>3. /\ x.status = s /\ x.startBlock = p.startBlock /\ x.endBlock = p.endBlock
      /\ x.forVotes = p.forVotes /\ x.againstVotes = p.againstVotes
      /\ x.quorumVotes = quorumVotes(p) /\ x.executionETA = IF p.executed THEN 0 ELSE p.eta
  BY <1>2, TermsOfTheContract DEF EntityFor
<1>4. /\ block \in Nat /\ p.startBlock \in Nat /\ p.endBlock \in Nat /\ p.eta \in Nat
      /\ p.startBlock <= p.endBlock /\ GRACE_PERIOD \in Nat
      /\ p.vetoed \in BOOLEAN /\ p.canceled \in BOOLEAN /\ p.executed \in BOOLEAN
  BY DatesOf
<1>5. CASE p.vetoed \/ p.canceled
  <2>1. s = IF p.vetoed THEN "VETOED" ELSE "CANCELLED"
    BY <1>2, <1>5 DEF StatusesOf
  <2>2. contractState(id) = s
    BY <1>5, <2>1 DEF contractState, stateAt
  <2> QED  BY <1>3, <2>1, <2>2, StateOfFinal
<1>6. CASE p.executed
  <2>1. s = "EXECUTED"
    BY <1>1, <1>2, <1>6 DEF StatusesOf, ProposalInv
  <2>2. contractState(id) = "EXECUTED"
    BY <1>1, <1>4, <1>6, ExecutedIsFinal
  <2> QED  BY <1>3, <2>1, <2>2, StateOfFinal
<1>7. CASE ~p.vetoed /\ ~p.canceled /\ ~p.executed /\ p.eta # 0
  <2>1. s = "QUEUED" /\ x.executionETA = p.eta
    BY <1>2, <1>3, <1>7 DEF StatusesOf
  <2>2. /\ block > p.endBlock /\ ~(p.forVotes <= p.againstVotes)
        /\ ~(p.forVotes < quorumVotes(p))
    BY <1>1, <1>7 DEF ProposalInv
  <2>3. ~(block <= p.startBlock) /\ ~(block <= p.endBlock)
    BY <1>4, <2>2
  <2>4. contractState(id) = IF block >= p.eta + GRACE_PERIOD THEN "EXPIRED" ELSE "QUEUED"
    BY <1>7, <2>2, <2>3 DEF contractState, stateAt
  <2> QED  BY <1>3, <2>1, <2>4, StateOfQueued
<1>8. CASE ~p.vetoed /\ ~p.canceled /\ ~p.executed /\ p.eta = 0
  <2>1. s \in {"PENDING", "ACTIVE"} /\ (s = "ACTIVE" => p.voted # {}) /\ x.executionETA = 0
    BY <1>2, <1>3, <1>8 DEF StatusesOf
  <2>2. s = "ACTIVE" => block > p.startBlock
    BY <1>1, <2>1 DEF ProposalInv
  <2>3. contractState(id) =
           IF block <= p.startBlock THEN "PENDING"
           ELSE IF block <= p.endBlock THEN "ACTIVE"
           ELSE IF p.forVotes <= p.againstVotes \/ p.forVotes < quorumVotes(p) THEN "DEFEATED"
           ELSE "SUCCEEDED"
    BY <1>8 DEF contractState, stateAt
  <2>4. getProposalState(block, x) =
           IF block <= x.startBlock THEN "PENDING"
           ELSE IF block <= x.endBlock THEN "ACTIVE"
           ELSE IF x.forVotes <= x.againstVotes \/ x.forVotes < x.quorumVotes THEN "DEFEATED"
           ELSE "SUCCEEDED"
    <3> HIDE DEF x, p
    <3> QED  BY <1>3, <1>4, <2>1, <2>2, StateOfOpen
  <2> QED  BY <1>3, <2>3, <2>4
<1> QED  BY <1>4, <1>5, <1>6, <1>7, <1>8

\* The nouns that are counted for the curve are the votes the governor counted, if the
\* index of the token has the voters represent what they voted with.
LEMMA DrawnVotes ==
  ASSUME DaoInv, emitted = NoEvent, PageId \in Created, VotesAsIndexed
  PROVE  getNounVotes(0) = proposals[PageId].againstVotes
<1>1. PICK id : id = PageId
  OBVIOUS
<1>2. VotesDue = voteEntity
  BY DEF VotesDue, NoEvent
<1>3. VotersAgainst(VotesDue, id) = VotedWith(0)
  BY <1>1, <1>2 DEF VotersAgainst, VotedWith
<1>4. proposals[id].againstVotes = SumFunctionOnSet(Weight, VotedWith(0))
  BY <1>1, <1>3 DEF DaoInv, VotesInv
<1>5. IsFiniteSet(VotedWith(0))
  <2>1. IsFiniteSet(Voters) /\ VotedWith(0) \subseteq Voters
    BY SubgraphDAOAssumption DEF Voters, VotedWith
  <2> QED  BY <2>1, FS_Subset
<1>6. SumFunctionOnSet(Represented, VotedWith(0)) = SumFunctionOnSet(Weight, VotedWith(0))
  BY <1>5, SumSame DEF VotesAsIndexed
<1> QED  BY <1>1, <1>4, <1>6 DEF getNounVotes

\* The quorum the page draws is the contract's or barely above it.
LEMMA DrawnQuorum ==
  ASSUME DaoInv, emitted = NoEvent, NEW id \in Created, id = PageId, TermsAsIndexed(id),
         PageEntity = proposalEntity[id], useDynamicQuorumProps = proposals[id].atCreation,
         VotesAsIndexed
  PROVE  QuorumDrawn - quorumVotes(proposals[id]) \in 0 .. 1 + proposals[id].totalSupply \div Bps
<1>1. PICK p : p = proposals[id]
  OBVIOUS
<1>2. ProposalInv(p) /\ Mirrors(PageEntity, p)
  BY <1>1, WhenIndexed
<1>3. PageEntity.totalSupply = p.totalSupply
  BY <1>2 DEF Mirrors, EntityFor
<1>4. p \in ProposalRecord /\ Ordered(p.atCreation)
  BY <1>2 DEF ProposalInv
<1>5. PICK against \in Nat : against = p.againstVotes
  BY <1>4 DEF ProposalRecord
<1>6. PICK supply \in Nat \ {0} : supply = p.totalSupply
  BY <1>4 DEF ProposalRecord
<1>7. PICK params \in Params : params = p.atCreation
  BY <1>4 DEF ProposalRecord
<1>8. getNounVotes(0) = against
  BY <1>1, <1>5, DrawnVotes
<1>9. quorumVotes(p) = dynamicQuorumVotes(against, supply, params)
  BY <1>1, <1>5, <1>6, <1>7 DEF quorumVotes, TermsAsIndexed
<1> DEFINE bps == (against * Bps) \div supply
           curve == Smaller(CoefficientOne * params.minQuorumVotesBPS
                              + params.quorumCoefficient * bps,
                            CoefficientOne * params.maxQuorumVotesBPS)
<1>10. QuorumDrawn = (curve * supply) \div (Bps * CoefficientOne)
  <2>1. useDynamicQuorumProps = params
    BY <1>1, <1>7
  <2> QED  BY <1>3, <1>6, <1>8, <2>1 DEF QuorumDrawn, dqmFunction
<1>11. params.minQuorumVotesBPS <= params.maxQuorumVotesBPS
  BY <1>4, <1>7 DEF Ordered
<1>12. (curve * supply) \div (Bps * CoefficientOne) - dynamicQuorumVotes(against, supply, params)
         \in 0 .. 1 + supply \div Bps
  BY <1>11, CurveRounds
<1> QED  BY <1>1, <1>6, <1>9, <1>10, <1>12

\* PageShowsContractState: the list of proposals and an up-to-date page show the state the
\* governor is in and the quorum it goes by, in every reachable state, for any constants,
\* if the quorum parameters did not change after the proposal in its own block; and the
\* curve is off by rounding only, if the nouns that are counted for it are the votes.
THEOREM PageAlwaysShowsContractState == GovernancePageSpec => []PageShowsContractState
<1>1. IndexInv => PageShowsContractState
  <2> SUFFICES ASSUME IndexInv, emitted = NoEvent, NEW id \in Created, TermsAsIndexed(id)
               PROVE  /\ \A failed \in BOOLEAN :
                           \/ useAllProposals(id, failed) = contractState(id)
                           \/ proposals[id].vetoed /\ proposals[id].canceled
                      /\ Fresh /\ PageId = id =>
                           /\ ThresholdShown = quorumVotes(proposals[id])
                           /\ useDynamicQuorumProps = proposals[id].atCreation /\ VotesAsIndexed =>
                                QuorumDrawn - quorumVotes(proposals[id]) \in
                                  0 .. 1 + proposals[id].totalSupply \div Bps
    BY DEF PageShowsContractState
  <2>1. DaoInv
    BY DEF IndexInv, DaoInv
  <2>2. ASSUME NEW failed \in BOOLEAN, ~(proposals[id].vetoed /\ proposals[id].canceled)
        PROVE  useAllProposals(id, failed) = contractState(id)
    BY <2>1, <2>2, EntityShowsState DEF useAllProposals
  <2>3. ASSUME Fresh, PageId = id
        PROVE  ThresholdShown = quorumVotes(proposals[id])
    <3>1. PageEntity = proposalEntity[id]
      BY <2>3 DEF Fresh
    <3>2. PICK s : proposalEntity[id] = EntityFor(proposals[id], s)
      BY <2>1, WhenIndexed DEF Mirrors
    <3> QED  BY <2>3, <3>1, <3>2, TermsOfTheContract DEF ThresholdShown
  <2>4. ASSUME Fresh, PageId = id, useDynamicQuorumProps = proposals[id].atCreation,
               VotesAsIndexed
        PROVE  QuorumDrawn - quorumVotes(proposals[id])
                 \in 0 .. 1 + proposals[id].totalSupply \div Bps
    BY <2>1, <2>4, DrawnQuorum DEF Fresh
  <2> QED  BY <2>2, <2>3, <2>4
<1> QED  BY <1>1, IndexFollowsTheGovernor, PTL

-----------------------------------------------------------------------------
(* What an up-to-date page offers.                                         *)

\* What a state of the page tells of the proposal.
LEMMA ShownState ==
  ASSUME DaoInv, ShownInv, Fresh
  PROVE  LET p == proposals[PageId]
         IN  /\ PageId \in Created /\ ProposalInv(p)
             /\ PageEntity.startBlock = p.startBlock /\ PageEntity.endBlock = p.endBlock
             /\ \/ PageStatus \in {"CANCELLED", "VETOED", "EXECUTED", "EXPIRED"}
                \/ /\ PageStatus = "QUEUED" /\ p.eta # 0 /\ PageEntity.executionETA = p.eta
                   /\ ~p.canceled /\ ~p.vetoed /\ ~p.executed
                   /\ ~(block >= p.eta + GRACE_PERIOD)
                \/ /\ PageStatus \in {"PENDING", "ACTIVE", "DEFEATED", "SUCCEEDED"} /\ p.eta = 0
                   /\ ~p.canceled /\ ~p.vetoed /\ ~p.executed
                   /\ PageStatus = "SUCCEEDED" =>
                        /\ ~(block <= p.endBlock) /\ ~(p.forVotes <= p.againstVotes)
                        /\ ~(p.forVotes < PageEntity.quorumVotes)
<1>1. PICK id : id = PageId
  OBVIOUS
<1> DEFINE p == proposals[id]
           x == PageEntity
<1>2. id \in Created /\ emitted = NoEvent /\ x = proposalEntity[id]
  BY <1>1 DEF Fresh, ShownInv, DaoInv, EntityInv, NoEvent, PageId
<1>3. ProposalInv(p) /\ Mirrors(x, p)
  BY <1>2, WhenIndexed
<1>4. PICK s \in StatusesOf(p) : x = EntityFor(p, s)
  BY <1>3 DEF Mirrors
<1>5. /\ x.status = s /\ x.startBlock = p.startBlock /\ x.endBlock = p.endBlock
      /\ x.forVotes = p.forVotes /\ x.againstVotes = p.againstVotes
      /\ x.executionETA = IF p.executed THEN 0 ELSE p.eta
  BY <1>4 DEF EntityFor
<1>6. PageStatus = getProposalState(block, x)
  <2>1. DOMAIN x = DOMAIN EntityFor(p, s) /\ "status" \in DOMAIN x
    BY <1>4 DEF EntityFor
  <2> QED  BY <2>1 DEF PageStatus, parseSubgraphProposal
<1>7. /\ block \in Nat /\ p.startBlock \in Nat /\ p.endBlock \in Nat /\ p.eta \in Nat
      /\ p.startBlock <= p.endBlock /\ GRACE_PERIOD \in Nat
      /\ p.vetoed \in BOOLEAN /\ p.canceled \in BOOLEAN /\ p.executed \in BOOLEAN
  BY <1>2, DatesOf
<1> HIDE DEF x, p
<1>8. CASE p.vetoed \/ p.canceled \/ p.executed
  <2>1. s \in {"CANCELLED", "VETOED", "EXECUTED"}
    BY <1>3, <1>4, <1>8 DEF StatusesOf, ProposalInv
  <2>2. PageStatus \in {"CANCELLED", "VETOED", "EXECUTED"}
    BY <1>5, <1>6, <2>1, StateOfFinal
  <2> QED  BY <1>1, <1>2, <1>3, <1>5, <2>2 DEF p, x
<1>9. CASE ~p.vetoed /\ ~p.canceled /\ ~p.executed /\ p.eta # 0
  <2>1. s = "QUEUED" /\ x.executionETA = p.eta
    BY <1>4, <1>5, <1>9 DEF StatusesOf
  <2>2. PageStatus = IF block >= p.eta + GRACE_PERIOD THEN "EXPIRED" ELSE "QUEUED"
    BY <1>5, <1>6, <2>1, StateOfQueued
  <2> QED  BY <1>1, <1>2, <1>3, <1>5, <1>9, <2>1, <2>2 DEF p, x
<1>10. CASE ~p.vetoed /\ ~p.canceled /\ ~p.executed /\ p.eta = 0
  <2>1. s \in {"PENDING", "ACTIVE"} /\ (s = "ACTIVE" => p.voted # {}) /\ x.executionETA = 0
    BY <1>4, <1>5, <1>10 DEF StatusesOf
  <2>2. s = "ACTIVE" => block > p.startBlock
    BY <1>3, <2>1 DEF ProposalInv
  <2>3. PageStatus = IF block <= x.startBlock THEN "PENDING"
           ELSE IF block <= x.endBlock THEN "ACTIVE"
           ELSE IF x.forVotes <= x.againstVotes \/ x.forVotes < x.quorumVotes THEN "DEFEATED"
           ELSE "SUCCEEDED"
    BY <1>5, <1>6, <1>7, <2>1, <2>2, StateOfOpen
  <2>4. PageStatus = "SUCCEEDED" => /\ ~(block <= p.endBlock) /\ ~(p.forVotes <= p.againstVotes)
                                    /\ ~(p.forVotes < x.quorumVotes)
    BY <1>5, <2>3
  <2>5. PageStatus \in {"PENDING", "ACTIVE", "DEFEATED", "SUCCEEDED"}
    BY <2>3
  <2> QED  BY <1>1, <1>2, <1>3, <1>5, <1>10, <2>4, <2>5 DEF p, x
<1> QED  BY <1>7, <1>8, <1>9, <1>10

\* OfferedActionIsAccepted: what an up-to-date page offers the governor and the timelock
\* accept in the next block, whatever has happened before and whatever actions proposals
\* share, but for the exceptions it names.
THEOREM OfferedActionAlwaysAccepted == GovernancePageSpec => []OfferedActionIsAccepted
<1>1. IndexInv /\ TimelockInv => OfferedActionIsAccepted
  <2> SUFFICES ASSUME IndexInv, TimelockInv, Fresh PROVE OfferedActionIsAccepted
    BY DEF OfferedActionIsAccepted
  <2> DEFINE p == proposals[PageId]
             next == stateAt(PageId, block + 1)
             txs == ActionsAtEta(PageId, p.eta)
  <2>1. DaoInv /\ ShownInv
    BY DEF IndexInv, DaoInv
  <2>2. /\ PageId \in Created /\ ProposalInv(p)
        /\ PageEntity.startBlock = p.startBlock /\ PageEntity.endBlock = p.endBlock
        /\ \/ PageStatus \in {"CANCELLED", "VETOED", "EXECUTED", "EXPIRED"}
           \/ /\ PageStatus = "QUEUED" /\ p.eta # 0 /\ PageEntity.executionETA = p.eta
              /\ ~p.canceled /\ ~p.vetoed /\ ~p.executed
              /\ ~(block >= p.eta + GRACE_PERIOD)
           \/ /\ PageStatus \in {"PENDING", "ACTIVE", "DEFEATED", "SUCCEEDED"} /\ p.eta = 0
              /\ ~p.canceled /\ ~p.vetoed /\ ~p.executed
              /\ PageStatus = "SUCCEEDED" =>
                   /\ ~(block <= p.endBlock) /\ ~(p.forVotes <= p.againstVotes)
                   /\ ~(p.forVotes < PageEntity.quorumVotes)
    BY <2>1, ShownState
  <2>3. /\ block \in Nat /\ p.startBlock \in Nat /\ p.endBlock \in Nat /\ p.eta \in Nat
        /\ p.startBlock <= p.endBlock /\ GRACE_PERIOD \in Nat
    BY <2>1, <2>2, DatesOf
  <2>4. next = IF p.vetoed THEN "VETOED"
               ELSE IF p.canceled THEN "CANCELLED"
               ELSE IF block + 1 <= p.startBlock THEN "PENDING"
               ELSE IF block + 1 <= p.endBlock THEN "ACTIVE"
               ELSE IF p.forVotes <= p.againstVotes \/ p.forVotes < quorumVotes(p)
                    THEN "DEFEATED"
               ELSE IF p.eta = 0 THEN "SUCCEEDED"
               ELSE IF p.executed THEN "EXECUTED"
               ELSE IF block + 1 >= p.eta + GRACE_PERIOD THEN "EXPIRED"
               ELSE "QUEUED"
    BY DEF stateAt
  <2> HIDE DEF p, next, txs
  <2>5. ASSUME Offered("queue"), TermsAsIndexed(PageId)
        PROVE  next = "SUCCEEDED"
    <3>1. PageStatus = "SUCCEEDED"
      BY <2>5 DEF Offered, hasSucceeded
    <3>2. quorumVotes(p) = PageEntity.quorumVotes
      <4>1. PICK id \in Created : id = PageId
        BY <2>2
      <4>2. PICK s : proposalEntity[id] = EntityFor(proposals[id], s)
        BY <2>1, WhenIndexed DEF Mirrors, Fresh
      <4>3. TermsAsIndexed(id) /\ proposalEntity[id] = PageEntity /\ proposals[id] = p
        BY <2>5, <4>1 DEF Fresh, p
      <4> QED  BY <4>2, <4>3, TermsOfTheContract
    <3>3. ~(block + 1 <= p.startBlock) /\ ~(block + 1 <= p.endBlock)
      BY <2>2, <2>3, <3>1
    <3> QED  BY <2>2, <2>4, <3>1, <3>2, <3>3
  <2>9. ListsOnce(PageId) => CanQueue(PageId, block + 1 + timelockDelay)
    <3> DEFINE eta == block + 1 + timelockDelay
    <3>1. \A tx \in ActionsAtEta(PageId, eta) : tx[2] = eta
      BY DEF ActionsAtEta
    <3>2. \A tx \in queuedTransactions : tx[2] \in Nat /\ tx[2] <= block + timelockDelay
      BY DEF TimelockInv
    <3>3. \A n \in Nat : n <= block + timelockDelay => n # eta
      BY <2>3, SubgraphDAOAssumption
    <3> HIDE DEF eta
    <3>4. ActionsAtEta(PageId, eta) \cap queuedTransactions = {}
      BY <3>1, <3>2, <3>3
    <3> QED  BY <3>4 DEF CanQueue, eta
  <2>6. ASSUME Offered("execute")
        PROVE  /\ next = "QUEUED" \/ block + 1 = p.eta + GRACE_PERIOD
               /\ block >= p.eta
               /\ txs \subseteq queuedTransactions \/ \E tx \in txs : Recalled(tx)
    <3>1. PageStatus = "QUEUED" /\ block >= PageEntity.executionETA
      BY <2>6 DEF Offered, isAwaitingStateChange
    <3>2. /\ p.eta # 0 /\ PageEntity.executionETA = p.eta /\ ~p.canceled /\ ~p.vetoed
          /\ ~p.executed /\ ~(block >= p.eta + GRACE_PERIOD)
      BY <2>2, <3>1
    <3>3. /\ block > p.endBlock /\ ~(p.forVotes <= p.againstVotes)
          /\ ~(p.forVotes < quorumVotes(p))
      BY <2>2, <3>2 DEF ProposalInv
    <3>4. ~(block + 1 <= p.startBlock) /\ ~(block + 1 <= p.endBlock)
      BY <2>3, <3>3
    <3>5. block + 1 >= p.eta + GRACE_PERIOD => block + 1 = p.eta + GRACE_PERIOD
      BY <2>3, <3>2
    <3>6. Live(PageId) /\ FlagsOf(PageId) = txs
      BY <3>2 DEF Live, FlagsOf, txs, p
    <3>7. \A tx \in txs : tx \in queuedTransactions \/ Recalled(tx)
      BY <2>2, <3>6 DEF TimelockInv
    <3>8. next = "QUEUED" \/ block + 1 = p.eta + GRACE_PERIOD
      BY <2>4, <3>2, <3>3, <3>4, <3>5
    <3> QED  BY <3>1, <3>2, <3>7, <3>8
  <2>7. ASSUME Offered("cancel")
        PROVE  ~p.executed
    BY <2>2, <2>7 DEF Offered, isCancellable, isInNonFinalState
  <2>8. ASSUME Offered("vote"), ~p.canceled, ~p.vetoed
        PROVE  next = "ACTIVE" /\ User \notin p.voted
    <3>1. /\ p.startBlock <= block /\ block < p.endBlock
          /\ User \notin p.voted
      BY <2>2, <2>8 DEF Offered, MayBeActiveForVoting, disableVoteButton,
                        useHasVotedOnProposal, p
    <3>2. ~(block + 1 <= p.startBlock) /\ block + 1 <= p.endBlock
      BY <2>3, <3>1
    <3> QED  BY <2>4, <2>8, <3>1, <3>2
  <2> QED  BY <2>5, <2>6, <2>7, <2>8, <2>9 DEF OfferedActionIsAccepted, p, next, txs
<1> QED  BY <1>1, IndexFollowsTheGovernor, FlagsFollowTheProposals, PTL

-----------------------------------------------------------------------------
(* The dialog to vote.                                                     *)

Stages == {"estimating", "signing", "mining", "counted", "failed", "refused"}

ModalTypeOK ==
  /\ ballots \in Seq(Stages)
  /\ isLoading \in BOOLEAN /\ isVoteSuccessful \in BOOLEAN /\ isVoteFailed \in BOOLEAN
  /\ hasVoted \in BOOLEAN /\ votingOpen \in BOOLEAN

CountedIsKnown == Some({"counted"}) => hasVoted

ModalInv == ModalTypeOK /\ ModalReportsTheBallots /\ CountedIsKnown

\* What one vote's step does to the list of them.
LEMMA MovesOne ==
  ASSUME ballots \in Seq(Stages), NEW b \in DOMAIN ballots, NEW from, NEW to \in Stages,
         Moves(b, from, to)
  PROVE  /\ ballots' \in Seq(Stages) /\ DOMAIN ballots' = DOMAIN ballots
         /\ ballots[b] = from /\ ballots'[b] = to
         /\ \A c \in DOMAIN ballots : c # b => ballots'[c] = ballots[c]
BY DEF Moves

\* The dialog, dismissed and opened again at any moment, reports what its votes have
\* come to: a success only for a vote that counts, a failure only for one that
\* failed, and of its votes at most one counts.
THEOREM ModalAlwaysReportsTheBallots == VoteModalSpec => []ModalReportsTheBallots
<1>1. ASSUME VoteModalInit
      PROVE  ModalInv
  <2>1. ballots \in Seq(Stages) /\ DOMAIN ballots = {}
    BY <1>1 DEF VoteModalInit
  <2>2. ModalTypeOK
    BY <1>1, <2>1 DEF VoteModalInit, ModalTypeOK
  <2>3. ModalReportsTheBallots /\ CountedIsKnown
    BY <1>1, <2>1 DEF VoteModalInit, ModalReportsTheBallots, CountedIsKnown, Some
  <2> QED  BY <2>2, <2>3 DEF ModalInv
<1>2. ASSUME ModalInv, [VoteModalNext]_voteModalVars
      PROVE  ModalInv'
  <2> USE DEF ModalInv, ModalTypeOK
  <2>1. ASSUME UNCHANGED <<ballots, isVoteSuccessful>>, isLoading' => isLoading,
               isVoteFailed' => isVoteFailed, hasVoted => hasVoted',
               isLoading' \in BOOLEAN, isVoteFailed' \in BOOLEAN,
               hasVoted' \in BOOLEAN, votingOpen' \in BOOLEAN
        PROVE  ModalInv'
    BY <1>2, <2>1 DEF ModalReportsTheBallots, CountedIsKnown, Some
  <2>2. CASE SubmitVote
    <3> DEFINE first == IF signerIsContract THEN "signing" ELSE "estimating"
               n     == Len(ballots) + 1
    <3>1. /\ ballots' = Append(ballots, first) /\ isLoading' = TRUE
          /\ UNCHANGED <<governor, isVoteSuccessful, isVoteFailed>>
      BY <2>2 DEF SubmitVote
    <3>2. /\ ballots' \in Seq(Stages) /\ n \in DOMAIN ballots' /\ ballots'[n] = first
          /\ \A c \in DOMAIN ballots' : c # n => c \in DOMAIN ballots /\ ballots'[c] = ballots[c]
          /\ \A c \in DOMAIN ballots : c \in DOMAIN ballots' /\ ballots'[c] = ballots[c]
      <4>1. first \in Stages
        BY DEF Stages
      <4> HIDE DEF first
      <4> QED  BY <1>2, <3>1, <4>1
    <3>3. \A stages : Some(stages) => Some(stages)'
      BY <3>2 DEF Some
    <3>4. Some({"estimating", "signing", "mining", "refused"})'
      BY <3>2 DEF Some
    <3>5. \A c \in DOMAIN ballots' : ballots'[c] = "counted" =>
            c \in DOMAIN ballots /\ ballots[c] = "counted"
      BY <3>2
    <3> QED  BY <1>2, <3>1, <3>2, <3>3, <3>4, <3>5
             DEF ModalReportsTheBallots, CountedIsKnown, Some, governor
  <2>3. ASSUME NEW b \in DOMAIN ballots, estimateGas(b)
        PROVE  ModalInv'
    <3>1. PICK to \in {"signing", "refused"} : Moves(b, "estimating", to)
      BY <2>3 DEF estimateGas
    <3>2. UNCHANGED <<votingOpen, hasVoted, isLoading, isVoteSuccessful, isVoteFailed>>
      BY <2>3 DEF estimateGas, governor, dialog
    <3>3. /\ ballots' \in Seq(Stages) /\ DOMAIN ballots' = DOMAIN ballots
          /\ ballots[b] = "estimating" /\ ballots'[b] = to
          /\ \A c \in DOMAIN ballots : c # b => ballots'[c] = ballots[c]
      BY <1>2, <3>1, MovesOne DEF Stages
    <3> QED  BY <1>2, <3>2, <3>3 DEF ModalReportsTheBallots, CountedIsKnown, Some
  <2>4. ASSUME NEW b \in DOMAIN ballots, Sign(b)
        PROVE  ModalInv'
    <3>1. /\ ballots' \in Seq(Stages) /\ DOMAIN ballots' = DOMAIN ballots
          /\ ballots[b] = "signing" /\ ballots'[b] = "mining"
          /\ \A c \in DOMAIN ballots : c # b => ballots'[c] = ballots[c]
      BY <1>2, <2>4, MovesOne DEF Sign, Stages
    <3>2. /\ isLoading' = TRUE /\ isVoteSuccessful' = isVoteSuccessful
          /\ isVoteFailed' = isVoteFailed /\ UNCHANGED <<votingOpen, hasVoted>>
      BY <1>2, <2>4 DEF Sign, handleVoteStateChange, governor
    <3> QED  BY <1>2, <3>1, <3>2 DEF ModalReportsTheBallots, CountedIsKnown, Some
  <2>5. ASSUME NEW b \in DOMAIN ballots, RefuseToSign(b)
        PROVE  ModalInv'
    <3>1. /\ ballots' \in Seq(Stages) /\ DOMAIN ballots' = DOMAIN ballots
          /\ ballots[b] = "signing" /\ ballots'[b] = "failed"
          /\ \A c \in DOMAIN ballots : c # b => ballots'[c] = ballots[c]
      BY <1>2, <2>5, MovesOne DEF RefuseToSign, Stages
    <3>2. /\ isLoading' = FALSE /\ isVoteSuccessful' = isVoteSuccessful
          /\ isVoteFailed' = TRUE /\ UNCHANGED <<votingOpen, hasVoted>>
      BY <1>2, <2>5 DEF RefuseToSign, handleVoteStateChange, governor
    <3> QED  BY <1>2, <3>1, <3>2 DEF ModalReportsTheBallots, CountedIsKnown, Some
  <2>6. ASSUME NEW b \in DOMAIN ballots, Mine(b), VoteAccepted
        PROVE  ModalInv'
    <3>1. /\ ballots' \in Seq(Stages) /\ DOMAIN ballots' = DOMAIN ballots
          /\ ballots[b] = "mining" /\ ballots'[b] = "counted"
          /\ \A c \in DOMAIN ballots : c # b => ballots'[c] = ballots[c]
      BY <1>2, <2>6, MovesOne DEF Mine, Stages
    <3>2. /\ isLoading' = FALSE /\ isVoteSuccessful' = TRUE
          /\ isVoteFailed' = isVoteFailed /\ hasVoted' = TRUE /\ UNCHANGED votingOpen
      BY <1>2, <2>6 DEF Mine, handleVoteStateChange
    <3>3. \A c \in DOMAIN ballots : ballots[c] # "counted"
      BY <1>2, <2>6 DEF VoteAccepted, CountedIsKnown, Some
    <3> QED  BY <1>2, <3>1, <3>2, <3>3 DEF ModalReportsTheBallots, CountedIsKnown, Some
  <2>7. ASSUME NEW b \in DOMAIN ballots, Mine(b), ~VoteAccepted
        PROVE  ModalInv'
    <3>1. /\ ballots' \in Seq(Stages) /\ DOMAIN ballots' = DOMAIN ballots
          /\ ballots[b] = "mining" /\ ballots'[b] = "failed"
          /\ \A c \in DOMAIN ballots : c # b => ballots'[c] = ballots[c]
      BY <1>2, <2>7, MovesOne DEF Mine, Stages
    <3>2. /\ isLoading' = FALSE /\ isVoteSuccessful' = isVoteSuccessful
          /\ isVoteFailed' = TRUE /\ UNCHANGED <<votingOpen, hasVoted>>
      BY <1>2, <2>7 DEF Mine, handleVoteStateChange
    <3> QED  BY <1>2, <3>1, <3>2 DEF ModalReportsTheBallots, CountedIsKnown, Some
  <2>8. CASE VotingEnds \/ VoteElsewhere
    BY <1>2, <2>1, <2>8 DEF VotingEnds, VoteElsewhere, dialog
  <2>9. CASE submitButtonClickHandler \/ (\E support \in Support : setVote(support))
    BY <1>2, <2>1, <2>9 DEF submitButtonClickHandler, setVote, governor
  <2>10. CASE resetNonSuccessStateAndHideModal \/ onHide
    BY <1>2, <2>1, <2>10 DEF resetNonSuccessStateAndHideModal, onHide, governor
  <2>11. CASE UNCHANGED voteModalVars
    BY <1>2, <2>1, <2>11 DEF voteModalVars, governor, dialog
  <2> QED  BY <1>2, <2>2, <2>3, <2>4, <2>5, <2>6, <2>7, <2>8, <2>9, <2>10, <2>11
           DEF VoteModalNext
<1>3. ModalInv => ModalReportsTheBallots
  BY DEF ModalInv
<1> QED  BY <1>1, <1>2, <1>3, PTL DEF VoteModalSpec

-----------------------------------------------------------------------------
(* The panel to delegate.                                                  *)

PanelTexts == PanelInputs \cup {NoText} \cup {EnsNames[text] : text \in DOMAIN EnsNames}
PanelStates == {"ENTER_DELEGATE_ADDRESS", "CHANGING", "CHANGE_SUCCESS", "CHANGE_FAILURE"}
DelegationStages == {"signing", "mining", "mined", "reverted", "refused", "counted", "failed"}
Panels == [state : PanelStates, text : PanelTexts, address : PanelTexts]
SentDelegations ==
  [to : PanelTexts, entered : PanelTexts, overtaken : BOOLEAN, already : BOOLEAN,
   stage : DelegationStages, here : BOOLEAN]

PanelTypeOK ==
  /\ delegateTo \in PanelTexts /\ panel \in Panels
  /\ lookups \in Seq(DOMAIN EnsNames) /\ delegations \in Seq(SentDelegations)
  /\ overtaken \in BOOLEAN /\ willHaveVoteCount \in Nat

\* What stands in the panel is the text or what the text resolves to, unless an
\* earlier lookup was answered last.
AddressFollowsText ==
  /\ overtaken \/ panel.address \in {panel.text, resolveName(panel.text)}
  /\ \A b \in DOMAIN delegations :
       delegations[b].overtaken \/ delegations[b].to = resolveName(delegations[b].entered)

\* What the panel tells is what one of its transactions has come to.
PanelTells ==
  /\ panel.state = "CHANGING" => FromHere({"mining", "mined", "reverted"})
  /\ panel.state = "CHANGE_SUCCESS" => FromHere({"counted"})
  /\ panel.state = "CHANGE_FAILURE" => FromHere({"refused", "failed"})

\* A delegation that is the only one, sent from here, with nothing entered since: it
\* is to the address in the panel, which is the account's delegate once it is mined
\* and, unless it was before, not until then; and the votes are counted once.
OnlyDelegation ==
  Len(delegations) = 1 /\ ~editedWhileChanging /\ delegations[1].here =>
    LET d == delegations[1]
    IN /\ d.to = panel.address /\ isAddress(panel.address) /\ AccountVotes > 0
       /\ d.stage \in {"signing", "mining", "refused"} /\ ~d.already => panel.address # delegatee
       /\ panel.state = "CHANGING" /\ ~d.already =>
            willHaveVoteCount = Candidates[panel.address] + AccountVotes

CountStartsAtZero == panel.state = "ENTER_DELEGATE_ADDRESS" => willHaveVoteCount = 0

PanelInv == PanelTypeOK /\ AddressFollowsText /\ PanelTells /\ OnlyDelegation /\ CountStartsAtZero

\* The parts of the panel.
LEMMA PanelRecord ==
  ASSUME PanelTypeOK
  PROVE  /\ panel.state \in PanelStates /\ panel.text \in PanelTexts
         /\ panel.address \in PanelTexts
         /\ Len(delegations) \in Nat /\ DOMAIN delegations = 1 .. Len(delegations)
         /\ \A b \in DOMAIN delegations : delegations[b] \in SentDelegations
BY DEF PanelTypeOK, Panels

\* The count is that of the candidate shown: with the account's votes added once or,
\* for its present delegate, twice.
LEMMA CandidateCount ==
  ASSUME PanelTypeOK, panel' \in Panels, DelegationCandidateInfo
  PROVE  /\ willHaveVoteCount' \in Nat
         /\ panel'.state = "ENTER_DELEGATE_ADDRESS" => willHaveVoteCount' = 0
<1>1. panel'.state = "ENTER_DELEGATE_ADDRESS" => willHaveVoteCount' = 0
  BY DEF DelegationCandidateInfo
<1>2. isAddress(panel'.address) => useAccountVotes(panel'.address, delegatee') \in Nat
  BY DelegationAssumption DEF useAccountVotes, isAddress
<1>3. InfoShown(panel', delegatee') => isAddress(panel'.address)
  BY DEF InfoShown
<1>4. willHaveVoteCount' \in Nat
  BY <1>2, <1>3, DelegationAssumption DEF DelegationCandidateInfo, PanelTypeOK
<1> QED  BY <1>1, <1>4

\* A text that is a name is looked up.
LEMMA LookingUp ==
  ASSUME NEW text
  PROVE  LookUp(text) \in Seq(DOMAIN EnsNames)
<1>1. CASE text \in DOMAIN EnsNames
  BY <1>1 DEF LookUp
<1>2. CASE text \notin DOMAIN EnsNames
  BY <1>2, EmptySeq DEF LookUp
<1> QED  BY <1>1, <1>2

\* An answered lookup is taken off the list.
LEMMA LookupAnswered ==
  ASSUME NEW S, NEW s \in Seq(S), NEW n \in DOMAIN s
  PROVE  RemoveAt(s, n) \in Seq(S)
<1>1. n \in Nat /\ n >= 1 /\ n <= Len(s) /\ Len(s) \in Nat
  OBVIOUS
<1>2. SubSeq(s, 1, n - 1) \in Seq(S)
  BY <1>1, SubSeqProperties
<1>3. SubSeq(s, n + 1, Len(s)) \in Seq(S)
  BY <1>1, SubSeqProperties
<1> QED  BY <1>2, <1>3, ConcatProperties DEF RemoveAt

\* A step of one delegation.
LEMMA Reported ==
  ASSUME PanelTypeOK, NEW b \in DOMAIN delegations, NEW stage \in DelegationStages,
         delegations' = [delegations EXCEPT ![b].stage = stage]
  PROVE  /\ delegations' \in Seq(SentDelegations) /\ DOMAIN delegations' = DOMAIN delegations
         /\ Len(delegations') = Len(delegations)
         /\ delegations'[b].stage = stage
         /\ \A c \in DOMAIN delegations : c # b => delegations'[c] = delegations[c]
         /\ \A c \in DOMAIN delegations :
              /\ delegations'[c].to = delegations[c].to
              /\ delegations'[c].entered = delegations[c].entered
              /\ delegations'[c].overtaken = delegations[c].overtaken
              /\ delegations'[c].already = delegations[c].already
              /\ delegations'[c].here = delegations[c].here
<1> DEFINE d == [delegations[b] EXCEPT !.stage = stage]
<1>1. /\ delegations[b] \in SentDelegations /\ delegations \in Seq(SentDelegations)
  BY DEF PanelTypeOK
<1>2. d \in SentDelegations
  BY <1>1 DEF SentDelegations
<1>3. /\ d.stage = stage /\ d.to = delegations[b].to /\ d.entered = delegations[b].entered
      /\ d.overtaken = delegations[b].overtaken /\ d.already = delegations[b].already
      /\ d.here = delegations[b].here
  BY <1>1 DEF SentDelegations
<1>4. delegations' = [delegations EXCEPT ![b] = d]
  OBVIOUS
<1> HIDE DEF d
<1> QED  BY <1>1, <1>2, <1>3, <1>4, ExceptSeq

\* What a report on one delegation does to the panel, for a new state that fits.
LEMMA ReportKeepsPanel ==
  ASSUME PanelInv, NEW b \in DOMAIN delegations, NEW stage \in DelegationStages,
         DelegationReports(b, stage),
         stage # "signing" /\ stage # "mined" /\ stage # "reverted",
         \/ delegations[b].stage = "signing" /\ stage \in {"mining", "refused"}
         \/ delegations[b].stage = "mined" /\ stage = "counted"
         \/ delegations[b].stage = "reverted" /\ stage = "failed"
  PROVE  PanelInv'
<1> USE DEF PanelInv
<1>0. PanelTypeOK /\ panel \in Panels /\ b \in 1 .. Len(delegations) /\ Len(delegations) \in Nat
      /\ DOMAIN delegations = 1 .. Len(delegations)
  BY PanelRecord DEF PanelTypeOK
<1>1. /\ delegations' = [delegations EXCEPT ![b].stage = stage]
      /\ UNCHANGED <<delegatee, delegateTo, lookups, overtaken, editedWhileChanging>>
      /\ DelegationCandidateInfo
  BY DEF DelegationReports
<1>2. /\ delegations' \in Seq(SentDelegations) /\ DOMAIN delegations' = DOMAIN delegations
      /\ Len(delegations') = Len(delegations)
      /\ delegations'[b].stage = stage
      /\ \A c \in DOMAIN delegations : c # b => delegations'[c] = delegations[c]
      /\ \A c \in DOMAIN delegations :
           /\ delegations'[c].to = delegations[c].to
           /\ delegations'[c].entered = delegations[c].entered
           /\ delegations'[c].overtaken = delegations[c].overtaken
           /\ delegations'[c].already = delegations[c].already
           /\ delegations'[c].here = delegations[c].here
  BY <1>0, <1>1, Reported
<1>3. /\ PanelState(stage) \in PanelStates
      /\ PanelState(stage) # "ENTER_DELEGATE_ADDRESS"
      /\ PanelState(stage) = "CHANGING" <=> stage = "mining"
      /\ PanelState(stage) = "CHANGE_SUCCESS" <=> stage = "counted"
  BY DEF PanelState, PanelStates
<1>4. /\ panel' \in Panels /\ panel'.text = panel.text /\ panel'.address = panel.address
      /\ panel'.state = IF delegations[b].here THEN PanelState(stage) ELSE panel.state
  BY <1>0, <1>3 DEF DelegationReports, Panels
<1>5. PanelTypeOK'
  BY <1>0, <1>1, <1>2, <1>4, CandidateCount DEF PanelTypeOK
<1>6. AddressFollowsText'
  BY <1>1, <1>2, <1>4 DEF AddressFollowsText
<1>7. CountStartsAtZero'
  BY <1>0, <1>1, <1>4, CandidateCount DEF CountStartsAtZero
<1>8. PanelTells'
  <2>1. CASE delegations[b].here
    <3>1. panel'.state = PanelState(stage) /\ delegations'[b].here /\ b \in DOMAIN delegations'
      BY <1>2, <1>4, <2>1
    <3>2. stage \in {"mining", "refused", "counted", "failed"}
      OBVIOUS
    <3> QED  BY <1>2, <1>3, <3>1, <3>2 DEF PanelTells, FromHere, PanelState
  <2>2. CASE ~delegations[b].here
    <3>1. ASSUME NEW stages, FromHere(stages)
          PROVE  FromHere(stages)'
      <4>1. PICK c \in DOMAIN delegations : delegations[c].here /\ delegations[c].stage \in stages
        BY <3>1 DEF FromHere
      <4>2. c # b /\ delegations'[c] = delegations[c] /\ c \in DOMAIN delegations'
        BY <1>2, <2>2, <4>1
      <4> QED  BY <4>1, <4>2 DEF FromHere
    <3>2. panel'.state = panel.state
      BY <1>4, <2>2
    <3>3. /\ FromHere({"mining", "mined", "reverted"}) => FromHere({"mining", "mined", "reverted"})'
          /\ FromHere({"counted"}) => FromHere({"counted"})'
          /\ FromHere({"refused", "failed"}) => FromHere({"refused", "failed"})'
      BY <3>1
    <3> QED  BY <3>2, <3>3 DEF PanelTells
  <2> QED  BY <2>1, <2>2
<1>9. OnlyDelegation'
  <2> SUFFICES ASSUME Len(delegations') = 1, ~editedWhileChanging', delegations'[1].here
               PROVE  LET d == delegations'[1]
                      IN /\ d.to = panel'.address /\ isAddress(panel'.address) /\ AccountVotes > 0
                         /\ d.stage \in {"signing", "mining", "refused"} /\ ~d.already =>
                              panel'.address # delegatee'
                         /\ panel'.state = "CHANGING" /\ ~d.already =>
                              willHaveVoteCount' = Candidates[panel'.address] + AccountVotes
    BY DEF OnlyDelegation
  <2>1. /\ Len(delegations) = 1 /\ b = 1 /\ ~editedWhileChanging /\ delegations[1].here
        /\ delegations'[1].to = delegations[1].to
        /\ delegations'[1].already = delegations[1].already
        /\ delegations'[1].stage = stage
    BY <1>0, <1>1, <1>2
  <2>2. /\ delegations[1].to = panel.address /\ isAddress(panel.address) /\ AccountVotes > 0
        /\ delegations[1].stage \in {"signing", "mining", "refused"} /\ ~delegations[1].already =>
             panel.address # delegatee
    BY <2>1 DEF OnlyDelegation
  <2>3. ASSUME panel'.state = "CHANGING", ~delegations[1].already
        PROVE  willHaveVoteCount' = Candidates[panel'.address] + AccountVotes
    <3>1. stage = "mining" /\ delegations[1].stage = "signing"
      BY <1>3, <1>4, <2>1, <2>3
    <3>2. ~FromHere({"mining", "mined", "reverted"}) /\ ~FromHere({"counted"})
          /\ ~FromHere({"refused", "failed"})
      BY <1>0, <2>1, <3>1 DEF FromHere
    <3>3. panel.state = "ENTER_DELEGATE_ADDRESS"
      BY <1>0, <3>2, PanelRecord DEF PanelTells, PanelStates
    <3>4. ~(willHaveVoteCount > 0)
      BY <3>3 DEF CountStartsAtZero
    <3>5. InfoShown(panel', delegatee')
      BY <1>4, <2>2, <2>3 DEF InfoShown
    <3>6. willHaveVoteCount' = useAccountVotes(panel'.address, delegatee') + AccountVotes
      BY <1>1, <2>3, <3>4, <3>5 DEF DelegationCandidateInfo
    <3>7. panel'.address # delegatee'
      BY <1>1, <1>4, <2>2, <2>3, <3>1
    <3>8. Candidates[panel'.address] \in Nat
      BY <1>4, <2>2, DelegationAssumption DEF isAddress
    <3> QED  BY <3>6, <3>7, <3>8 DEF useAccountVotes
  <2>4. stage \in {"signing", "mining", "refused"} => delegations[1].stage = "signing"
    BY <2>1
  <2> QED  BY <1>1, <1>4, <2>1, <2>2, <2>3, <2>4
<1> QED  BY <1>5, <1>6, <1>7, <1>8, <1>9

\* A delegation is mined, or reverts: the panel hears of it later.
LEMMA MiningKeepsPanel ==
  ASSUME PanelInv, NEW b \in DOMAIN delegations, NEW succeeds \in BOOLEAN,
         MineDelegation(b, succeeds)
  PROVE  PanelInv'
<1> USE DEF PanelInv
<1>0. PanelTypeOK /\ panel \in Panels /\ b \in 1 .. Len(delegations) /\ Len(delegations) \in Nat
      /\ DOMAIN delegations = 1 .. Len(delegations) /\ willHaveVoteCount \in Nat
  BY PanelRecord DEF PanelTypeOK
<1> DEFINE stage == IF succeeds THEN "mined" ELSE "reverted"
<1>1. /\ delegations' = [delegations EXCEPT ![b].stage = stage]
      /\ delegatee' = IF succeeds THEN delegations[b].to ELSE delegatee
      /\ UNCHANGED <<delegateTo, panel, lookups, overtaken, editedWhileChanging>>
      /\ DelegationCandidateInfo /\ delegations[b].stage = "mining"
  BY DEF MineDelegation
<1>2. stage \in DelegationStages /\ stage \in {"mined", "reverted"}
  BY DEF DelegationStages
<1> HIDE DEF stage
<1>3. /\ delegations' \in Seq(SentDelegations) /\ DOMAIN delegations' = DOMAIN delegations
      /\ Len(delegations') = Len(delegations)
      /\ delegations'[b].stage = stage
      /\ \A c \in DOMAIN delegations : c # b => delegations'[c] = delegations[c]
      /\ \A c \in DOMAIN delegations :
           /\ delegations'[c].to = delegations[c].to
           /\ delegations'[c].entered = delegations[c].entered
           /\ delegations'[c].overtaken = delegations[c].overtaken
           /\ delegations'[c].already = delegations[c].already
           /\ delegations'[c].here = delegations[c].here
  BY <1>0, <1>1, <1>2, Reported
<1>4. PanelTypeOK'
  BY <1>0, <1>1, <1>3, CandidateCount DEF PanelTypeOK
<1>5. AddressFollowsText' /\ CountStartsAtZero'
  BY <1>0, <1>1, <1>3, CandidateCount DEF AddressFollowsText, CountStartsAtZero
<1>6. PanelTells'
  <2>1. ASSUME FromHere({"mining", "mined", "reverted"})
        PROVE  FromHere({"mining", "mined", "reverted"})'
    BY <1>1, <1>2, <1>3, <2>1 DEF FromHere
  <2>2. ASSUME NEW stages, "mining" \notin stages, FromHere(stages)
        PROVE  FromHere(stages)'
    BY <1>1, <1>3, <2>2 DEF FromHere
  <2>3. /\ FromHere({"counted"}) => FromHere({"counted"})'
        /\ FromHere({"refused", "failed"}) => FromHere({"refused", "failed"})'
    BY <2>2
  <2> QED  BY <1>1, <2>1, <2>3 DEF PanelTells
<1>7. OnlyDelegation'
  <2> SUFFICES ASSUME Len(delegations') = 1, ~editedWhileChanging', delegations'[1].here
               PROVE  LET d == delegations'[1]
                      IN /\ d.to = panel'.address /\ isAddress(panel'.address) /\ AccountVotes > 0
                         /\ d.stage \in {"signing", "mining", "refused"} /\ ~d.already =>
                              panel'.address # delegatee'
                         /\ panel'.state = "CHANGING" /\ ~d.already =>
                              willHaveVoteCount' = Candidates[panel'.address] + AccountVotes
    BY DEF OnlyDelegation
  <2>1. /\ Len(delegations) = 1 /\ b = 1 /\ ~editedWhileChanging /\ delegations[1].here
        /\ delegations'[1].to = delegations[1].to
        /\ delegations'[1].already = delegations[1].already
        /\ delegations'[1].stage \in {"mined", "reverted"}
    BY <1>0, <1>1, <1>2, <1>3
  <2>2. /\ delegations[1].to = panel.address /\ isAddress(panel.address) /\ AccountVotes > 0
        /\ panel.state = "CHANGING" /\ ~delegations[1].already =>
             willHaveVoteCount = Candidates[panel.address] + AccountVotes
    BY <2>1 DEF OnlyDelegation
  <2>3. ASSUME panel.state = "CHANGING", ~delegations[1].already
        PROVE  willHaveVoteCount' = willHaveVoteCount
    <3>1. Candidates[panel.address] \in Nat /\ AccountVotes \in Nat
      BY <2>2, DelegationAssumption DEF isAddress
    <3>2. willHaveVoteCount > 0
      BY <2>2, <2>3, <3>1
    <3>3. InfoShown(panel', delegatee') /\ InfoShown(panel, delegatee)
      BY <1>1, <2>2, <2>3 DEF InfoShown
    <3> QED  BY <1>1, <2>3, <3>2, <3>3 DEF DelegationCandidateInfo
  <2> QED  BY <1>1, <2>1, <2>2, <2>3
<1> QED  BY <1>4, <1>5, <1>6, <1>7

\* What is entered, or answered, only changes what is in the panel's input.
LEMMA EditingKeepsPanel ==
  ASSUME PanelInv, panel' \in Panels, panel'.state \in {panel.state, "ENTER_DELEGATE_ADDRESS"},
         overtaken' \in BOOLEAN, lookups' \in Seq(DOMAIN EnsNames),
         overtaken' \/ panel'.address \in {panel'.text, resolveName(panel'.text)},
         editedWhileChanging', UNCHANGED <<delegatee, delegateTo, delegations>>,
         DelegationCandidateInfo
  PROVE  PanelInv'
<1> USE DEF PanelInv
<1>1. PanelTypeOK' /\ CountStartsAtZero'
  BY CandidateCount DEF PanelTypeOK, CountStartsAtZero
<1>2. AddressFollowsText' /\ PanelTells' /\ OnlyDelegation'
  BY DEF AddressFollowsText, PanelTells, FromHere, OnlyDelegation
<1> QED  BY <1>1, <1>2

\* Every step keeps the invariant of the panel.
LEMMA PanelInvStep ==
  ASSUME PanelInv, [DelegationPanelNext]_delegationPanelVars
  PROVE  PanelInv'
<1> USE DEF PanelInv
<1>0. /\ PanelTypeOK /\ panel \in Panels /\ Len(delegations) \in Nat
      /\ DOMAIN delegations = 1 .. Len(delegations) /\ panel.state \in PanelStates
      /\ panel.text \in PanelTexts /\ panel.address \in PanelTexts /\ delegateTo \in PanelTexts
  BY PanelRecord DEF PanelTypeOK
<1>1. ASSUME NEW text \in PanelInputs \cup {NoText}, onChange(text)
      PROVE  PanelInv'
  <2>1. text \in PanelTexts
    BY DEF PanelTexts
  <2>2. /\ panel' \in Panels /\ panel'.state = panel.state
        /\ panel'.text = text /\ panel'.address = text
    BY <1>0, <1>1, <2>1 DEF onChange, Panels
  <2>3. lookups' \in Seq(DOMAIN EnsNames)
    BY <1>0, <1>1, LookingUp, ConcatProperties DEF onChange, PanelTypeOK
  <2> QED  BY <1>1, <2>2, <2>3, EditingKeepsPanel DEF onChange
<1>2. ASSUME NEW n \in DOMAIN lookups, checkIsValidENS(n)
      PROVE  PanelInv'
  <2>1. lookups \in Seq(DOMAIN EnsNames) /\ lookups[n] \in DOMAIN EnsNames
    BY <1>0 DEF PanelTypeOK
  <2>2. resolveName(lookups[n]) \in PanelTexts
    BY <2>1 DEF resolveName, PanelTexts
  <2>3. /\ panel' \in Panels /\ panel'.state = panel.state /\ panel'.text = panel.text
        /\ panel'.address = resolveName(lookups[n])
    BY <1>0, <1>2, <2>2 DEF checkIsValidENS, setDelegateAddress, Panels
  <2>4. lookups' \in Seq(DOMAIN EnsNames)
    BY <1>2, <2>1, LookupAnswered DEF checkIsValidENS
  <2>5. overtaken' = (lookups[n] # panel.text)
    BY <1>2 DEF checkIsValidENS
  <2>6. overtaken' \in BOOLEAN /\ (overtaken' \/ panel'.address = resolveName(panel'.text))
    BY <2>3, <2>5
  <2> QED  BY <1>2, <2>3, <2>4, <2>6, EditingKeepsPanel DEF checkIsValidENS, setDelegateAddress
<1>3. CASE changeAgain
  <2>1. panel' \in Panels /\ panel'.state = "ENTER_DELEGATE_ADDRESS" /\ panel'.text = panel'.address
    BY <1>3 DEF changeAgain, StartsOver, Panels, PanelStates, PanelTexts
  <2>2. lookups' \in Seq(DOMAIN EnsNames)
    BY <1>0, <1>3 DEF changeAgain, PanelTypeOK
  <2> QED  BY <1>3, <2>1, <2>2, EditingKeepsPanel DEF changeAgain
<1>4. CASE onDismiss
  <2>1. /\ panel' \in Panels /\ panel'.state = "ENTER_DELEGATE_ADDRESS"
        /\ panel'.text = panel'.address
    BY <1>0, <1>4 DEF onDismiss, NewPanel, Panels, PanelStates
  <2>2. /\ delegations' = [b \in DOMAIN delegations |-> [delegations[b] EXCEPT !.here = FALSE]]
        /\ lookups' = LookUp(delegateTo) /\ willHaveVoteCount' = 0 /\ overtaken' = FALSE
        /\ UNCHANGED <<delegatee, delegateTo>>
    BY <1>4 DEF onDismiss
  <2>3. \A b \in DOMAIN delegations : delegations[b] \in SentDelegations
    BY <1>0 DEF PanelTypeOK
  <2>4. \A b \in DOMAIN delegations : delegations'[b] = [delegations[b] EXCEPT !.here = FALSE]
    BY <2>2
  <2>5. \A b \in DOMAIN delegations :
          /\ delegations'[b] \in SentDelegations /\ ~delegations'[b].here
          /\ delegations'[b].to = delegations[b].to
          /\ delegations'[b].entered = delegations[b].entered
          /\ delegations'[b].overtaken = delegations[b].overtaken
    BY <2>3, <2>4 DEF SentDelegations
  <2>6. DOMAIN delegations' = DOMAIN delegations /\ delegations' \in Seq(SentDelegations)
        /\ Len(delegations') = Len(delegations)
    BY <1>0, <2>2, <2>5
  <2>7. PanelTypeOK'
    BY <1>0, <2>1, <2>2, <2>6, LookingUp DEF PanelTypeOK
  <2>8. AddressFollowsText' /\ PanelTells' /\ CountStartsAtZero'
    BY <2>1, <2>2, <2>5, <2>6 DEF AddressFollowsText, PanelTells, CountStartsAtZero
  <2>9. OnlyDelegation'
    BY <1>0, <2>5, <2>6 DEF OnlyDelegation
  <2> QED  BY <2>7, <2>8, <2>9
<1>5. CASE delegateVotes
  <2> DEFINE d == [to |-> panel.address, entered |-> panel.text, overtaken |-> overtaken,
                   already |-> panel.address = delegatee, stage |-> "signing", here |-> TRUE]
             n == Len(delegations) + 1
  <2>1. /\ delegations' = Append(delegations, d) /\ editedWhileChanging' = FALSE
        /\ panel.state = "ENTER_DELEGATE_ADDRESS" /\ isAddress(panel.address)
        /\ AccountVotes > 0
        /\ UNCHANGED <<delegatee, delegateTo, panel, willHaveVoteCount, lookups, overtaken>>
    BY <1>5 DEF delegateVotes
  <2>2. d \in SentDelegations
    BY <1>0 DEF SentDelegations, DelegationStages, PanelTypeOK
  <2>3. d.overtaken \/ d.to = resolveName(d.entered)
    <3>1. panel.address = panel.text => resolveName(panel.text) = panel.address
      BY <2>1, DelegationAssumption DEF isAddress, resolveName
    <3> QED  BY <3>1 DEF AddressFollowsText
  <2>4. /\ d.to = panel.address /\ (d.already <=> panel.address = delegatee)
    OBVIOUS
  <2> HIDE DEF d
  <2>5. /\ delegations' \in Seq(SentDelegations) /\ Len(delegations') = n
        /\ DOMAIN delegations' = 1 .. n /\ delegations'[n] = d
        /\ \A b \in DOMAIN delegations : delegations'[b] = delegations[b]
    BY <1>0, <2>1, <2>2 DEF PanelTypeOK
  <2>6. PanelTypeOK' /\ CountStartsAtZero'
    BY <1>0, <2>1, <2>5 DEF PanelTypeOK, CountStartsAtZero
  <2>7. AddressFollowsText'
    <3>1. \A b \in DOMAIN delegations' : b \in DOMAIN delegations \/ b = n
      BY <1>0, <2>5
    <3> QED  BY <2>1, <2>3, <2>5, <3>1 DEF AddressFollowsText
  <2>8. PanelTells'
    BY <2>1 DEF PanelTells
  <2>9. OnlyDelegation'
    <3>1. Len(delegations') = 1 => n = 1 /\ delegations'[1] = d
      BY <2>5
    <3> QED  BY <2>1, <2>4, <3>1 DEF OnlyDelegation
  <2> QED  BY <2>6, <2>7, <2>8, <2>9
<1>6. ASSUME NEW b \in DOMAIN delegations,
             SignDelegation(b) \/ RefuseDelegation(b) \/ NoticeDelegation(b)
      PROVE  PanelInv'
  BY <1>6, ReportKeepsPanel DEF SignDelegation, RefuseDelegation, NoticeDelegation, DelegationStages
<1>7. ASSUME NEW b \in DOMAIN delegations, NEW succeeds \in BOOLEAN, MineDelegation(b, succeeds)
      PROVE  PanelInv'
  BY <1>7, MiningKeepsPanel
<1>8. CASE UNCHANGED delegationPanelVars
  BY <1>8 DEF delegationPanelVars, PanelTypeOK, AddressFollowsText, PanelTells, FromHere,
              OnlyDelegation, CountStartsAtZero
<1> QED  BY <1>1, <1>2, <1>3, <1>4, <1>5, <1>6, <1>7, <1>8 DEF DelegationPanelNext

\* Whatever is typed, looked up late, dismissed and sent again: votes go to whom the
\* text names unless an earlier lookup was answered last, the panel tells what a
\* delegation of its own has come to, and counts the account's votes once.
THEOREM DelegationsGoWhereEntered == DelegationPanelSpec => []DelegationGoesWhereEntered
<1>1. DelegationPanelInit => PanelInv
  <2> SUFFICES ASSUME DelegationPanelInit
               PROVE  PanelInv
    OBVIOUS
  <2>1. /\ delegateTo \in PanelTexts /\ delegations = <<>> /\ panel = NewPanel
        /\ lookups = LookUp(delegateTo) /\ willHaveVoteCount = 0 /\ overtaken = FALSE
    BY DEF DelegationPanelInit, PanelTexts
  <2>2. /\ panel \in Panels /\ panel.state = "ENTER_DELEGATE_ADDRESS"
        /\ panel.text = panel.address
    BY <2>1 DEF NewPanel, Panels, PanelStates
  <2>3. PanelTypeOK
    BY <2>1, <2>2, LookingUp, EmptySeq DEF PanelTypeOK
  <2>4. Len(delegations) = 0 /\ DOMAIN delegations = {}
    BY <2>1
  <2> QED  BY <2>1, <2>2, <2>3, <2>4
           DEF PanelInv, AddressFollowsText, PanelTells, OnlyDelegation, CountStartsAtZero
<1>2. PanelInv /\ [DelegationPanelNext]_delegationPanelVars => PanelInv'
  BY PanelInvStep
<1>3. ASSUME PanelInv
      PROVE  DelegationGoesWhereEntered
  <2>1. ASSUME panel.state = "CHANGING", Len(delegations) = 1, ~editedWhileChanging,
               ~delegations[1].already
        PROVE  willHaveVoteCount = Candidates[panel.address] + AccountVotes
    <3>1. DOMAIN delegations = {1}
      BY <1>3, <2>1, PanelRecord DEF PanelInv
    <3>2. delegations[1].here
      BY <1>3, <2>1, <3>1 DEF PanelInv, PanelTells, FromHere
    <3> QED  BY <1>3, <2>1, <3>2 DEF PanelInv, OnlyDelegation
  <2> QED  BY <1>3, <2>1 DEF PanelInv, AddressFollowsText, PanelTells, DelegationGoesWhereEntered
<1> QED  BY <1>1, <1>2, <1>3, PTL DEF DelegationPanelSpec

-----------------------------------------------------------------------------
(* The logs read without the subgraph: what the ranges together give.      *)

\* The numbers after a, up to b.
RunOf(a, b) == [i \in 1 .. b - a |-> a + i]

\* What a run is and holds.
LEMMA RunOfIsSeq ==
  ASSUME NEW a \in Nat, NEW b \in Nat, a <= b
  PROVE  /\ RunOf(a, b) \in Seq(Nat) /\ Len(RunOf(a, b)) = b - a
         /\ ToSet(RunOf(a, b)) = a + 1 .. b
<1>1. b - a \in Nat /\ \A i \in 1 .. b - a : a + i \in Nat
  OBVIOUS
<1>2. RunOf(a, b) \in Seq(Nat) /\ Len(RunOf(a, b)) = b - a
  BY <1>1 DEF RunOf
<1>3. ToSet(RunOf(a, b)) = {a + i : i \in 1 .. b - a}
  BY <1>1 DEF RunOf, ToSet
<1>4. \A p \in a + 1 .. b : p - a \in 1 .. b - a /\ p = a + (p - a)
  OBVIOUS
<1>5. \A i \in 1 .. b - a : a + i \in a + 1 .. b
  OBVIOUS
<1>6. {a + i : i \in 1 .. b - a} = a + 1 .. b
  BY <1>4, <1>5
<1> QED  BY <1>2, <1>3, <1>6

\* The logs up to a proposal, one proposal after the other.
LogsUpTo(range, f) ==
  f = [p \in 0 .. Len(createdIn) |->
         IF p = 0 THEN <<>>
         ELSE IF createdIn[p] \in range THEN Append(f[p - 1], p)
         ELSE f[p - 1]]

\* The recursion over the proposals ends.
LEMMA LogsExist ==
  ASSUME NEW range, Len(createdIn) \in Nat
  PROVE  \E f : LogsUpTo(range, f)
<1> DEFINE n == Len(createdIn)
           turn == [p \in 1 .. n |-> [q \in Seq(Nat) |->
                      IF createdIn[p] \in range THEN Append(q, p) ELSE q]]
<1>1. n \in Nat /\ <<>> \in Seq(Nat)
  OBVIOUS
<1>2. turn \in [1 .. n -> [Seq(Nat) -> Seq(Nat)]]
  OBVIOUS
<1>3. PICK f \in [0 .. n -> Seq(Nat)] :
        f[0] = <<>> /\ \A p \in 1 .. n : f[p] = turn[p][f[p - 1]]
  <2> DEFINE S == Seq(Nat)
             start == <<>>
  <2>1. start \in S /\ n \in Nat /\ turn \in [1 .. n -> [S -> S]]
    BY <1>1, <1>2
  <2> HIDE DEF turn, n, S, start
  <2>2. \E f : Iterates(S, start, n, turn, f)
    BY <2>1, IterationExists
  <2> QED  BY <2>2 DEF S, start, Iterates
<1>4. ASSUME NEW p \in 0 .. n
      PROVE  f[p] = IF p = 0 THEN <<>>
                    ELSE IF createdIn[p] \in range THEN Append(f[p - 1], p)
                    ELSE f[p - 1]
  <2>1. CASE p = 0
    BY <1>3, <2>1
  <2>2. CASE p # 0
    <3>1. p \in 1 .. n /\ p - 1 \in 0 .. n
      BY <1>1, <2>2
    <3>2. f[p - 1] \in Seq(Nat) /\ f[p] = turn[p][f[p - 1]]
      BY <1>3, <3>1
    <3> QED  BY <2>2, <3>1, <3>2
  <2> QED  BY <2>1, <2>2
<1> HIDE DEF turn
<1>5. LogsUpTo(range, f)
  <2> DEFINE h == [p \in 0 .. n |->
         IF p = 0 THEN <<>>
         ELSE IF createdIn[p] \in range THEN Append(f[p - 1], p)
         ELSE f[p - 1]]
  <2>1. \A p \in 0 .. n : f[p] = h[p]
    BY <1>4
  <2>2. f = [p \in 0 .. n |-> f[p]] /\ h = [p \in 0 .. n |-> h[p]]
    BY <1>3
  <2> HIDE DEF h
  <2>3. f = h
    BY <2>1, <2>2
  <2> QED  BY <2>3 DEF LogsUpTo, h
<1> QED  BY <1>5

\* The logs of a range are those of the proposals in it, in order.
LEMMA LogsOfRun ==
  ASSUME NEW range, NEW n \in Nat, n = Len(createdIn), NEW a \in 0 .. n, NEW b \in a .. n,
         \A p \in 1 .. n : createdIn[p] \in range <=> a < p /\ p <= b
  PROVE  getLogs(range) = RunOf(a, b)
<1>0. a \in Nat /\ b \in Nat /\ a <= b /\ b <= n
  OBVIOUS
<1> DEFINE f == CHOOSE g : LogsUpTo(range, g)
<1>1. LogsUpTo(range, f)
  BY LogsExist
<1>2. getLogs(range) = f[n]
  BY DEF getLogs, LogsUpTo
<1> HIDE DEF f
<1> DEFINE Last_(p) == IF p <= a THEN a ELSE IF p <= b THEN p ELSE b
           T == {p \in Nat : p <= n => f[p] = RunOf(a, Last_(p))}
<1>3. 0 \in T
  <2>1. f[0] = <<>>
    BY <1>1 DEF LogsUpTo
  <2>2. RunOf(a, a) = <<>>
    <3>1. RunOf(a, a) \in Seq(Nat) /\ Len(RunOf(a, a)) = 0
      BY RunOfIsSeq
    <3> QED  BY <3>1
  <2>3. Last_(0) = a
    OBVIOUS
  <2> QED  BY <2>1, <2>2, <2>3
<1>4. ASSUME NEW q \in T
      PROVE  q + 1 \in T
  <2> DEFINE p == q + 1
  <2>0. q \in Nat /\ p \in Nat /\ p - 1 = q
    OBVIOUS
  <2>1. SUFFICES ASSUME p <= n
                 PROVE  f[p] = RunOf(a, Last_(p))
    <3> HIDE DEF p
    <3> QED  BY <2>0 DEF p
  <2>2. f[q] = RunOf(a, Last_(q)) /\ p \in 1 .. n
    BY <2>0, <2>1
  <2>3. f[p] = IF createdIn[p] \in range THEN Append(f[q], p) ELSE f[q]
    <3>1. p \in 0 .. Len(createdIn) /\ p # 0
      BY <2>0, <2>2
    <3>2. f[p] = IF p = 0 THEN <<>>
                 ELSE IF createdIn[p] \in range THEN Append(f[p - 1], p)
                 ELSE f[p - 1]
      <4> HIDE DEF p
      <4> QED  BY <1>1, <3>1 DEF LogsUpTo
    <3> HIDE DEF p
    <3> QED  BY <2>0, <3>1, <3>2
  <2> HIDE DEF p
  <2>4. CASE a < p /\ p <= b
    <3>1. Last_(p) = p /\ Last_(q) = q /\ a <= q
      BY <2>0, <2>4
    <3>2. f[p] = Append(RunOf(a, q), p)
      BY <2>2, <2>3, <2>4, <3>1
    <3>3. RunOf(a, q) \in Seq(Nat) /\ Len(RunOf(a, q)) = q - a
      BY <1>0, <2>0, <3>1, RunOfIsSeq
    <3>4. RunOf(a, p) \in Seq(Nat) /\ Len(RunOf(a, p)) = p - a
      <4>1. a \in Nat /\ p \in Nat /\ a <= p
        BY <1>0, <2>0, <2>4
      <4> QED  BY ONLY <4>1, RunOfIsSeq
    <3> DEFINE s == Append(RunOf(a, q), p)
               r == RunOf(a, p)
    <3>5. s \in Seq(Nat) /\ Len(s) = p - a
      BY <2>0, <3>3
    <3>6. \A i \in 1 .. p - a : s[i] = a + i
      <4> SUFFICES ASSUME NEW i \in 1 .. p - a
                   PROVE  s[i] = a + i
        OBVIOUS
      <4>0. i \in Nat /\ i <= p - a /\ a \in Nat
        BY <1>0, <2>0
      <4>1. CASE i <= q - a
        <5>1. s[i] = RunOf(a, q)[i]
          BY <2>0, <3>1, <3>3, <4>1
        <5> QED  BY <2>0, <3>1, <4>1, <5>1 DEF RunOf
      <4>2. CASE i = p - a
        <5>1. i = Len(RunOf(a, q)) + 1 /\ a + i = p
          BY <2>0, <3>3, <4>2
        <5> QED  BY <3>3, <5>1
      <4>3. i <= q - a \/ i = p - a
        BY <2>0, <4>0
      <4> QED  BY <4>1, <4>2, <4>3
    <3>7. \A i \in 1 .. p - a : r[i] = a + i
      BY DEF RunOf
    <3> HIDE DEF s, r
    <3>8. s = r
      <4>1. s = [i \in 1 .. p - a |-> s[i]] /\ r = [i \in 1 .. p - a |-> r[i]]
        BY <3>4, <3>5 DEF r
      <4>2. [i \in 1 .. p - a |-> s[i]] = [i \in 1 .. p - a |-> r[i]]
        BY <3>6, <3>7
      <4> QED  BY <4>1, <4>2
    <3> QED  BY <3>1, <3>2, <3>8 DEF s, r
  <2>5. CASE ~(a < p /\ p <= b)
    <3>1. f[p] = f[q]
      BY <2>2, <2>3, <2>5
    <3>2. Last_(p) = Last_(q)
      BY <2>0, <2>5
    <3> QED  BY <2>2, <3>1, <3>2
  <2> QED  BY <2>4, <2>5
<1>5. T = Nat
  <2> HIDE DEF T
  <2>1. T \in SUBSET Nat
    BY DEF T
  <2> QED  BY <1>3, <1>4, <2>1, SimpleInduction
<1>6. f[n] = RunOf(a, Last_(n)) /\ Last_(n) = b
  BY <1>5
<1> QED  BY <1>2, <1>6

\* Where the elements of two sequences are in their concatenation.
IsJoin(r, s, t) ==
  /\ Len(r) = Len(s) + Len(t)
  /\ \A i \in 1 .. Len(s) : r[i] = s[i]
  /\ \A i \in 1 .. Len(t) : r[Len(s) + i] = t[i]

\* Concatenation joins.
LEMMA Joined ==
  ASSUME NEW S, NEW s \in Seq(S), NEW t \in Seq(S)
  PROVE  s \o t \in Seq(S) /\ IsJoin(s \o t, s, t)
<1>1. /\ s \o t \in Seq(S) /\ Len(s \o t) = Len(s) + Len(t)
      /\ \A i \in 1 .. Len(s) + Len(t) : (s \o t)[i] = IF i <= Len(s) THEN s[i] ELSE t[i - Len(s)]
  BY ConcatProperties
<1>2. Len(s) \in Nat /\ Len(t) \in Nat
  OBVIOUS
<1> DEFINE m == Len(s)
           n == Len(t)
<1>3. \A i \in 1 .. m : i \in 1 .. m + n /\ i <= m
  <2> HIDE DEF m, n
  <2> QED  BY <1>2 DEF m, n
<1>4. \A i \in 1 .. n : m + i \in 1 .. m + n /\ ~(m + i <= m) /\ (m + i) - m = i
  BY <1>2
<1> DEFINE r == s \o t
<1>5. Len(r) = m + n /\ \A i \in 1 .. m + n : r[i] = IF i <= m THEN s[i] ELSE t[i - m]
  BY <1>1
<1> HIDE DEF r
<1>6. IsJoin(r, s, t)
  BY <1>3, <1>4, <1>5 DEF IsJoin
<1> QED  BY <1>1, <1>6 DEF r

\* What is joined holds what both hold.
LEMMA SetOfJoin ==
  ASSUME NEW S, NEW s \in Seq(S), NEW t \in Seq(S), NEW r \in Seq(S), IsJoin(r, s, t)
  PROVE  ToSet(r) = ToSet(s) \cup ToSet(t)
<1> DEFINE m == Len(s)
           n == Len(t)
<1>1. /\ m \in Nat /\ n \in Nat /\ DOMAIN s = 1 .. m /\ DOMAIN t = 1 .. n
      /\ DOMAIN r = 1 .. m + n
  BY DEF IsJoin
<1>2. (\A i \in 1 .. m : r[i] = s[i]) /\ \A i \in 1 .. n : r[m + i] = t[i]
  BY DEF IsJoin
<1> HIDE DEF m, n
<1>3. ASSUME NEW x \in ToSet(r)
      PROVE  x \in ToSet(s) \cup ToSet(t)
  <2>1. PICK i \in 1 .. m + n : x = r[i]
    BY <1>1 DEF ToSet
  <2>2. CASE i <= m
    <3>1. i \in 1 .. m
      BY <1>1, <2>2
    <3> QED  BY <1>1, <1>2, <2>1, <3>1 DEF ToSet
  <2>3. CASE m < i
    <3>1. i - m \in 1 .. n /\ m + (i - m) = i
      BY <1>1, <2>3
    <3> QED  BY <1>1, <1>2, <2>1, <3>1 DEF ToSet
  <2> QED  BY <1>1, <2>2, <2>3
<1>4. ASSUME NEW x \in ToSet(s)
      PROVE  x \in ToSet(r)
  <2>1. PICK i \in 1 .. m : x = s[i]
    BY <1>1 DEF ToSet
  <2>2. i \in 1 .. m + n
    BY <1>1
  <2> QED  BY <1>1, <1>2, <2>1, <2>2 DEF ToSet
<1>5. ASSUME NEW x \in ToSet(t)
      PROVE  x \in ToSet(r)
  <2>1. PICK i \in 1 .. n : x = t[i]
    BY <1>1 DEF ToSet
  <2>2. m + i \in 1 .. m + n
    BY <1>1
  <2> QED  BY <1>1, <1>2, <2>1, <2>2 DEF ToSet
<1> QED  BY <1>3, <1>4, <1>5

\* Runs that each begin where the one before ended, or within it.
RunsOverlap(n, a, b) ==
  /\ a \in [1 .. n -> Nat] /\ b \in [1 .. n -> Nat]
  /\ a[1] = 0 /\ \A k \in 1 .. n : a[k] <= b[k]
  /\ \A k \in 2 .. n : a[k] <= b[k - 1] /\ b[k - 1] <= b[k]

\* Such runs flatten to the numbers up to the last end: each once if none begins before.
LEMMA FlattenedRuns ==
  ASSUME NEW n \in Nat \ {0}, NEW a, NEW b, RunsOverlap(n, a, b),
         NEW seqs, seqs = [k \in 1 .. n |-> RunOf(a[k], b[k])]
  PROVE  /\ FlattenSeq(seqs) \in Seq(Nat) /\ ToSet(FlattenSeq(seqs)) = 1 .. b[n]
         /\ (\A k \in 2 .. n : a[k] = b[k - 1]) => FlattenSeq(seqs) = RunOf(0, b[n])
<1> USE DEF RunsOverlap
<1>1. \A k \in 1 .. n : /\ seqs[k] = RunOf(a[k], b[k]) /\ seqs[k] \in Seq(Nat)
                        /\ Len(seqs[k]) = b[k] - a[k] /\ ToSet(seqs[k]) = a[k] + 1 .. b[k]
  BY RunOfIsSeq
<1>2. seqs \in [1 .. n -> Seq(Nat)] /\ Len(seqs) = n
  BY <1>1
<1> DEFINE f == CHOOSE g : Flattens(seqs, n, g)
<1>3. Flattens(seqs, n, f)
  BY <1>2, FlatteningExists
<1>4. FlattenSeq(seqs) = f[n]
  BY <1>2 DEF FlattenSeq, Flattens
<1> HIDE DEF f
<1> DEFINE exact == \A k \in 2 .. n : a[k] = b[k - 1]
           Joins(k) == /\ f[k] \in Seq(Nat) /\ ToSet(f[k]) = 1 .. b[k]
                       /\ exact => f[k] = RunOf(0, b[k])
           T == {m \in Nat : m + 1 <= n => Joins(m + 1)}
<1>5. 0 \in T
  <2>1. f[1] = seqs[1] /\ 1 \in 1 .. n
    BY <1>3 DEF Flattens
  <2>2. Joins(1)
    BY <1>1, <2>1
  <2> QED  BY <2>2
<1>6. ASSUME NEW m \in T
      PROVE  m + 1 \in T
  <2> DEFINE j == m + 1
             k == m + 2
  <2>1. j \in Nat /\ k \in Nat /\ k = j + 1 /\ j = k - 1 /\ k # 1
    OBVIOUS
  <2>2. SUFFICES ASSUME k <= n
                 PROVE  Joins(k)
    <3> HIDE DEF Joins
    <3>1. k = (m + 1) + 1 /\ m + 1 \in Nat
      OBVIOUS
    <3> QED  BY <3>1
  <2>3. Joins(j)
    <3> HIDE DEF Joins
    <3> QED  BY <2>1, <2>2
  <2> HIDE DEF j, k
  <2>4. k \in 1 .. n /\ j \in 1 .. n /\ k \in 2 .. n /\ j \in Nat \ {0}
    BY <2>1, <2>2 DEF j
  <2>5. f[k] = f[j] \o seqs[k]
    BY <1>3, <2>1, <2>4 DEF Flattens
  <2>6. /\ a[k] \in Nat /\ b[k] \in Nat /\ b[j] \in Nat
        /\ a[k] <= b[j] /\ b[j] <= b[k] /\ a[k] <= b[k]
    BY <2>1, <2>4
  <2>7. f[k] \in Seq(Nat) /\ IsJoin(f[k], f[j], seqs[k])
    <3>1. f[j] \in Seq(Nat) /\ seqs[k] \in Seq(Nat)
      BY <1>1, <2>3, <2>4
    <3> QED  BY ONLY <2>5, <3>1, Joined
  <2>8. ToSet(f[k]) = ToSet(f[j]) \cup ToSet(seqs[k])
    <3>1. f[j] \in Seq(Nat) /\ seqs[k] \in Seq(Nat)
      BY <1>1, <2>3, <2>4
    <3> QED  BY ONLY <2>7, <3>1, SetOfJoin
  <2>9. ToSet(f[k]) = 1 .. b[k]
    <3>1. ToSet(f[j]) = 1 .. b[j] /\ ToSet(seqs[k]) = a[k] + 1 .. b[k]
      BY <1>1, <2>3, <2>4
    <3>2. (1 .. b[j]) \cup (a[k] + 1 .. b[k]) = 1 .. b[k]
      BY <2>6
    <3> QED  BY <2>8, <3>1, <3>2
  <2>10. ASSUME exact
         PROVE  f[k] = RunOf(0, b[k])
    <3>1. a[k] = b[j]
      BY <2>1, <2>4, <2>10
    <3>2. f[j] = RunOf(0, b[j])
      BY <2>3, <2>10
    <3>3. f[j] \in Seq(Nat) /\ Len(f[j]) = b[j]
      <4>1. 0 \in Nat /\ 0 <= b[j] /\ b[j] - 0 = b[j] /\ b[j] \in Nat
        BY <2>6
      <4> QED  BY ONLY <3>2, <4>1, RunOfIsSeq
    <3>4. seqs[k] = RunOf(b[j], b[k]) /\ Len(seqs[k]) = b[k] - b[j]
      BY <1>1, <2>4, <3>1
    <3>5. Len(f[k]) = b[k]
      BY <2>6, <2>7, <3>3, <3>4 DEF IsJoin
    <3>6. ASSUME NEW i \in 1 .. b[k]
          PROVE  f[k][i] = i
      <4>1. CASE i <= b[j]
        <5>1. i \in 1 .. Len(f[j]) /\ i \in 1 .. b[j] - 0
          BY <2>6, <3>3, <4>1
        <5>2. f[k][i] = f[j][i]
          BY <2>7, <5>1 DEF IsJoin
        <5>3. RunOf(0, b[j])[i] = 0 + i /\ 0 + i = i
          BY <5>1 DEF RunOf
        <5> QED  BY <3>2, <5>2, <5>3
      <4>2. CASE b[j] < i
        <5> DEFINE d == i - b[j]
        <5>1. d \in 1 .. b[k] - b[j] /\ i = b[j] + d
          BY <2>6, <4>2
        <5> HIDE DEF d
        <5>2. f[k][i] = seqs[k][d]
          BY <2>7, <3>3, <3>4, <5>1 DEF IsJoin
        <5>3. RunOf(b[j], b[k])[d] = b[j] + d
          BY <5>1 DEF RunOf
        <5> QED  BY <3>4, <5>1, <5>2, <5>3
      <4>3. i <= b[j] \/ b[j] < i
        <5>1. i \in Nat
          BY <2>6
        <5> QED  BY <2>6, <5>1
      <4> QED  BY <4>1, <4>2, <4>3
    <3>7. RunOf(0, b[k]) \in Seq(Nat) /\ Len(RunOf(0, b[k])) = b[k]
      <4>1. 0 \in Nat /\ 0 <= b[k] /\ b[k] - 0 = b[k] /\ b[k] \in Nat
        BY <2>6
      <4> QED  BY ONLY <4>1, RunOfIsSeq
    <3>8. \A i \in 1 .. b[k] : RunOf(0, b[k])[i] = i
      BY <2>6 DEF RunOf
    <3> DEFINE s == f[k]
               t == RunOf(0, b[k])
    <3>9. s \in Seq(Nat) /\ t \in Seq(Nat) /\ Len(s) = b[k] /\ Len(t) = b[k]
          /\ \A i \in 1 .. b[k] : s[i] = t[i]
      BY <2>7, <3>5, <3>6, <3>7, <3>8
    <3> HIDE DEF s, t
    <3>10. s = t
      BY <3>9, SeqEqual
    <3> QED  BY <3>10 DEF s, t
  <2> QED  BY <2>7, <2>9, <2>10
<1>7. T = Nat
  <2> HIDE DEF T
  <2>1. T \in SUBSET Nat
    BY DEF T
  <2> QED  BY <1>5, <1>6, <2>1, SimpleInduction
<1>8. Joins(n)
  <2> HIDE DEF Joins
  <2>0. n - 1 \in Nat /\ (n - 1) + 1 = n
    OBVIOUS
  <2>1. n - 1 \in T
    <3> HIDE DEF T
    <3> QED  BY <1>7, <2>0
  <2> QED  BY <2>0, <2>1
<1> QED  BY <1>4, <1>8

\* The lesser of two numbers.
LEMMA LessOf ==
  ASSUME NEW x \in Int, NEW y \in Int
  PROVE  Min({x, y}) = IF x <= y THEN x ELSE y
<1>1. \E z \in {x, y} : \A w \in {x, y} : z <= w
  OBVIOUS
<1>2. Min({x, y}) \in {x, y} /\ Min({x, y}) <= x /\ Min({x, y}) <= y
  BY <1>1 DEF Min
<1> QED  BY <1>2

\* The ranges asked for reach from 0 to the block, and two neighbours share a block.
LEMMA RangesMeet ==
  ASSUME NEW B \in Nat
  PROVE  \E K \in Nat \ {0} : \E lo, hi \in [1 .. K -> Nat] :
           /\ ranges(B) = [k \in 1 .. K |-> lo[k] .. hi[k]]
           /\ lo[1] = 0 /\ hi[K] = B
           /\ \A k \in 1 .. K : lo[k] <= hi[k] /\ hi[k] <= B
           /\ \A k \in 2 .. K : lo[k] = hi[k - 1] /\ SharedByRanges(lo[k])
<1> DEFINE M == MAX_BLOCKS_PER_CALL
           q == B \div M
           K == q + 1
           at == [k \in 0 .. K |-> k * M]
           lo == [k \in 1 .. K |-> at[k - 1]]
           hi == [k \in 1 .. K |-> IF k < K THEN at[k] ELSE B]
<1>1. M \in Nat \ {0}
  BY WebappLogsAssumption
<1>2. q \in Nat /\ K \in Nat \ {0} /\ K - 1 = q
  <2>1. q \in Nat
    BY <1>1, Quotient
  <2> HIDE DEF q
  <2> QED  BY <2>1
<1>3. at[q] <= B /\ B < at[q] + M
  <2>1. M * q <= B /\ B < M * q + M /\ M * q = q * M
    BY <1>1, Quotient
  <2>2. at[q] = q * M
    <3> HIDE DEF M, q
    <3> QED  BY <1>2
  <2> HIDE DEF M, q, at
  <2> QED  BY <2>1, <2>2
<1>4. \A k \in 0 .. K : at[k] \in Nat /\ at[k] % M = 0
  <2> HIDE DEF M, q
  <2> QED  BY <1>1, <1>2
<1>5. \A k \in 1 .. K : at[k - 1] + M = at[k]
  <2> HIDE DEF M, q
  <2> QED  BY <1>1, <1>2
<1>6. \A k \in 0 .. q : at[k] <= B
  <2> SUFFICES ASSUME NEW k \in 0 .. q
               PROVE  at[k] <= B
    OBVIOUS
  <2>1. at[k] = k * M /\ at[q] = q * M /\ k \in Nat /\ k <= q
    <3> HIDE DEF M, q
    <3> QED  BY <1>2
  <2>2. M * k <= M * q /\ M * k = k * M /\ M * q = q * M
    <3> HIDE DEF q, K, at, lo, hi
    <3> QED  BY <1>1, <1>2, <2>1, ProductMonotone
  <2>3. at[k] \in Nat /\ at[q] \in Nat
    <3>1. k \in 0 .. K /\ q \in 0 .. K
      <4> HIDE DEF q
      <4> QED  BY <1>2
    <3> HIDE DEF at, K, q
    <3> QED  BY <1>4, <3>1
  <2>4. at[k] <= at[q]
    <3> HIDE DEF at, K, q, M
    <3> QED  BY <2>1, <2>2
  <2> HIDE DEF at
  <2> QED  BY <1>3, <2>3, <2>4
<1>7. at[0] = 0
  <2> HIDE DEF M, q
  <2> QED  BY <1>1, <1>2
<1>8. \A k \in 1 .. K \ {1} : at[k - 1] > 0
  <2> SUFFICES ASSUME NEW k \in 1 .. K, k # 1
               PROVE  at[k - 1] > 0
    OBVIOUS
  <2>1. k - 1 \in 1 .. K /\ (k - 1) - 1 \in 0 .. K
    <3> HIDE DEF q
    <3> QED  BY <1>2
  <2> DEFINE j == k - 1
  <2> HIDE DEF M, q, at, j
  <2>2. at[j] = at[j - 1] + M
    BY <1>5, <2>1 DEF j
  <2>3. at[j - 1] \in Nat
    BY <1>4, <2>1 DEF j
  <2> QED  BY <1>1, <2>2, <2>3 DEF j
<1>9. ranges(B) = [k \in 1 .. K |-> lo[k] .. hi[k]]
  <2> DEFINE from(k) == fromBlockOfKey + (k - 1) * M
             g == [k \in 1 .. K |-> from(k) .. Min({from(k) + M, B})]
             h == [k \in 1 .. K |-> lo[k] .. hi[k]]
  <2>1. ranges(B) = g
    <3>1. (B - fromBlockOfKey) \div MAX_BLOCKS_PER_CALL + 1 = K
      BY DEF fromBlockOfKey
    <3> QED  BY <3>1 DEF ranges
  <2>2. ASSUME NEW k \in 1 .. K
        PROVE  g[k] = h[k]
    <3>1. k - 1 \in 0 .. K /\ (k # K => k \in 0 .. q) /\ (k < K \/ k = K) /\ k \in Int
      <4> HIDE DEF q
      <4> QED  BY <1>2
    <3>2. from(k) = at[k - 1]
      <4>1. at[k - 1] = (k - 1) * M
        <5> HIDE DEF M, q
        <5> QED  BY <3>1
      <4>2. (k - 1) * M \in Int
        BY <1>1, <3>1
      <4> DEFINE x == (k - 1) * M
      <4>3. x \in Int => 0 + x = x
        OBVIOUS
      <4> QED  BY <4>1, <4>2, <4>3 DEF fromBlockOfKey
    <3>3. from(k) + M = at[k]
      BY <1>5, <3>2
    <3>4. at[k] \in Int /\ B \in Int
      <4>1. k \in 0 .. K
        <5> HIDE DEF q
        <5> QED  BY <1>2
      <4> HIDE DEF at, K, q
      <4> QED  BY <1>4, <4>1
    <3> HIDE DEF q, from, at, M
    <3>5. Min({at[k], B}) = IF at[k] <= B THEN at[k] ELSE B
      BY <3>4, LessOf
    <3>6. CASE k # K
      <4>1. at[k] <= B
        BY <1>6, <3>1, <3>6
      <4> QED  BY <3>1, <3>2, <3>3, <3>5, <3>6, <4>1
    <3>7. CASE k = K
      <4>1. B < at[k]
        <5>1. at[k - 1] + M = at[k] /\ k - 1 = q
          BY <1>2, <1>5, <3>7
        <5> QED  BY <1>3, <5>1
      <4>2. Min({at[k], B}) = B
        BY <3>4, <3>5, <4>1
      <4>3. ~(k < K)
        <5> HIDE DEF K
        <5> QED  BY <1>2, <3>7
      <4>4. g[k] = from(k) .. Min({from(k) + M, B}) /\ h[k] = lo[k] .. hi[k]
        <5> HIDE DEF lo, hi
        <5> QED  OBVIOUS
      <4>5. lo[k] = at[k - 1] /\ hi[k] = B
        BY <4>3
      <4> HIDE DEF g, h, lo, hi
      <4> QED  BY <3>2, <3>3, <4>2, <4>4, <4>5
    <3> QED  BY <3>6, <3>7
  <2>3. g = [k \in 1 .. K |-> g[k]] /\ h = [k \in 1 .. K |-> h[k]]
    OBVIOUS
  <2>4. [k \in 1 .. K |-> g[k]] = [k \in 1 .. K |-> h[k]]
    <3> HIDE DEF g, h, K
    <3> QED  BY <2>2
  <2> HIDE DEF g, h
  <2> QED  BY <2>1, <2>3, <2>4 DEF h
<1> HIDE DEF at, q
<1>10. \A k \in 1 .. K : k - 1 \in 0 .. q /\ k \in 0 .. K /\ (k < K => k \in 0 .. q)
                         /\ (k < K \/ k = K)
  BY <1>2
<1>11. lo \in [1 .. K -> Nat] /\ hi \in [1 .. K -> Nat]
  <2>1. \A k \in 1 .. K : k - 1 \in 0 .. K
    BY <1>2
  <2> HIDE DEF K
  <2> QED  BY <1>4, <1>10, <2>1
<1>12. lo[1] = 0 /\ hi[K] = B
  BY <1>2, <1>7
<1>13. ASSUME NEW k \in 1 .. K
       PROVE  lo[k] <= hi[k] /\ hi[k] <= B
  <2>1. lo[k] = at[k - 1] /\ at[k - 1] <= B /\ at[k - 1] \in Nat
    <3>1. k - 1 \in 0 .. K
      BY <1>2
    <3> QED  BY <1>4, <1>6, <1>10, <3>1
  <2>2. CASE k < K
    <3>1. hi[k] = at[k] /\ at[k] <= B /\ at[k] \in Nat /\ at[k] = at[k - 1] + M
      <4> HIDE DEF M, lo, K
      <4> QED  BY <1>4, <1>5, <1>6, <1>10, <2>2
    <3> HIDE DEF lo, hi, M
    <3> QED  BY <1>1, <2>1, <3>1
  <2>3. CASE k = K
    <3>1. hi[k] = B
      BY <1>12, <2>3
    <3> HIDE DEF lo, hi
    <3> QED  BY <2>1, <3>1
  <2> QED  BY <1>10, <2>2, <2>3
<1>14. ASSUME NEW k \in 2 .. K
       PROVE  lo[k] = hi[k - 1] /\ SharedByRanges(lo[k])
  <2>1. k \in 1 .. K /\ k # 1 /\ k - 1 \in 1 .. K /\ k - 1 < K /\ k - 1 \in 0 .. K
    BY <1>2
  <2>2. lo[k] = at[k - 1] /\ hi[k - 1] = at[k - 1]
    BY <2>1
  <2>3. at[k - 1] > 0 /\ at[k - 1] % M = 0
    BY <1>4, <1>8, <2>1
  <2> QED  BY <2>2, <2>3 DEF SharedByRanges, fromBlockOfKey
<1> HIDE DEF lo, hi, K
<1> QED  BY <1>2, <1>9, <1>11, <1>12, <1>13, <1>14

\* Proposals are numbered in the order of the blocks they were created in.
CreatedInOrder ==
  /\ createdIn \in Seq(Nat)
  /\ \A p, q \in 1 .. Len(createdIn) : p < q => createdIn[p] < createdIn[q]

\* c is the number of proposals created up to a block.
IsCount(atBlock, c) ==
  /\ c \in 0 .. Len(createdIn)
  /\ \A p \in 1 .. Len(createdIn) : createdIn[p] <= atBlock <=> p <= c

\* So many proposals were created up to a block.
LEMMA CountExists ==
  ASSUME CreatedInOrder, NEW atBlock \in Int
  PROVE  \E c : IsCount(atBlock, c)
<1> DEFINE n == Len(createdIn)
           P == {p \in 1 .. n : createdIn[p] <= atBlock}
<1>1. n \in Nat /\ \A p \in 1 .. n : createdIn[p] \in Nat
  BY DEF CreatedInOrder
<1>2. CASE P = {}
  <2>1. \A p \in 1 .. n : ~(createdIn[p] <= atBlock) /\ ~(p <= 0)
    BY <1>1, <1>2
  <2> QED  BY <1>1, <2>1 DEF IsCount
<1>3. CASE P # {}
  <2>1. PICK c \in P : \A j \in P : j <= c
    <3> DEFINE Q == P
    <3>1. Q \subseteq 1 .. n /\ Q # {}
      BY <1>3
    <3> HIDE DEF Q
    <3>2. \E c \in Q : \A j \in Q : j <= c
      BY <1>1, <3>1, LastExists
    <3> QED  BY <3>2 DEF Q
  <2>2. ASSUME NEW p \in 1 .. n, p <= c
        PROVE  createdIn[p] <= atBlock
    <3>1. c \in 1 .. n /\ createdIn[c] <= atBlock
      BY <2>1
    <3>2. p = c \/ createdIn[p] < createdIn[c]
      BY <1>1, <2>2, <3>1 DEF CreatedInOrder
    <3> QED  BY <1>1, <3>1, <3>2
  <2>3. ASSUME NEW p \in 1 .. n, createdIn[p] <= atBlock
        PROVE  p <= c
    BY <2>1, <2>3
  <2> QED  BY <2>1, <2>2, <2>3 DEF IsCount
<1> QED  BY <1>2, <1>3

\* More are created up to a later block, and as many if none is created between the two.
LEMMA CountsGrow ==
  ASSUME CreatedInOrder, NEW x \in Int, NEW y \in Int, x <= y,
         NEW c, IsCount(x, c), NEW d, IsCount(y, d)
  PROVE  /\ c \in Nat /\ d \in Nat /\ c <= d
         /\ (\A p \in 1 .. Len(createdIn) : ~(x < createdIn[p] /\ createdIn[p] <= y)) => c = d
<1>1. Len(createdIn) \in Nat /\ \A p \in 1 .. Len(createdIn) : createdIn[p] \in Nat
  BY DEF CreatedInOrder
<1>2. c \in Nat /\ d \in Nat /\ c <= Len(createdIn) /\ d <= Len(createdIn)
  BY <1>1 DEF IsCount
<1>3. c <= d
  <2> SUFFICES ASSUME d < c
               PROVE  FALSE
    BY <1>2
  <2>1. c \in 1 .. Len(createdIn) /\ ~(c <= d)
    BY <1>1, <1>2
  <2>2. createdIn[c] <= x
    BY <1>2, <2>1 DEF IsCount
  <2>3. ~(createdIn[c] <= y)
    BY <2>1 DEF IsCount
  <2> QED  BY <1>1, <2>1, <2>2, <2>3
<1>4. ASSUME c < d
      PROVE  \E p \in 1 .. Len(createdIn) : x < createdIn[p] /\ createdIn[p] <= y
  <2>1. d \in 1 .. Len(createdIn) /\ ~(d <= c)
    BY <1>1, <1>2, <1>4
  <2>2. ~(createdIn[d] <= x)
    BY <2>1 DEF IsCount
  <2>3. createdIn[d] <= y
    BY <1>2, <2>1 DEF IsCount
  <2> QED  BY <1>1, <2>1, <2>2, <2>3
<1> QED  BY <1>2, <1>3, <1>4

\* The logs of all ranges are those of the proposals up to the block, and in order
\* unless a proposal was made in a block two ranges share.
LEMMA LogsOfAllRanges ==
  ASSUME CreatedInOrder, NEW B \in Nat
  PROVE  /\ AllLogs(B) \in Seq(Nat) /\ ToSet(AllLogs(B)) = CreatedBy(B)
         /\ (\A p \in CreatedBy(B) : ~SharedByRanges(createdIn[p])) =>
              \A i \in DOMAIN AllLogs(B) : AllLogs(B)[i] = i
<1> DEFINE n == Len(createdIn)
<1>1. n \in Nat /\ DOMAIN createdIn = 1 .. n /\ \A p \in 1 .. n : createdIn[p] \in Nat
  BY DEF CreatedInOrder
<1>0. PICK K \in Nat \ {0} : \E lo, hi \in [1 .. K -> Nat] :
        /\ ranges(B) = [k \in 1 .. K |-> lo[k] .. hi[k]]
        /\ lo[1] = 0 /\ hi[K] = B
        /\ \A k \in 1 .. K : lo[k] <= hi[k] /\ hi[k] <= B
        /\ \A k \in 2 .. K : lo[k] = hi[k - 1] /\ SharedByRanges(lo[k])
  BY RangesMeet
<1>2. PICK lo, hi \in [1 .. K -> Nat] :
        /\ ranges(B) = [k \in 1 .. K |-> lo[k] .. hi[k]]
        /\ lo[1] = 0 /\ hi[K] = B
        /\ \A k \in 1 .. K : lo[k] <= hi[k] /\ hi[k] <= B
        /\ \A k \in 2 .. K : lo[k] = hi[k - 1] /\ SharedByRanges(lo[k])
  BY <1>0
<1> DEFINE count(x) == CHOOSE c : IsCount(x, c)
           a == [k \in 1 .. K |-> count(lo[k] - 1)]
           b == [k \in 1 .. K |-> count(hi[k])]
<1>3. \A x \in Int : IsCount(x, count(x))
  BY CountExists
<1> HIDE DEF count
<1>4. \A k \in 1 .. K : /\ lo[k] \in Nat /\ hi[k] \in Nat /\ lo[k] - 1 \in Int /\ hi[k] \in Int
                        /\ lo[k] - 1 <= hi[k]
  BY <1>2
<1>5. \A k \in 1 .. K : /\ IsCount(lo[k] - 1, a[k]) /\ IsCount(hi[k], b[k])
                        /\ a[k] \in Nat /\ b[k] \in Nat /\ a[k] <= b[k]
  <2> SUFFICES ASSUME NEW k \in 1 .. K
               PROVE  /\ IsCount(lo[k] - 1, a[k]) /\ IsCount(hi[k], b[k])
                      /\ a[k] \in Nat /\ b[k] \in Nat /\ a[k] <= b[k]
    OBVIOUS
  <2>1. IsCount(lo[k] - 1, a[k]) /\ IsCount(hi[k], b[k])
    BY <1>3, <1>4
  <2> HIDE DEF a, b
  <2>2. lo[k] - 1 \in Int /\ hi[k] \in Int /\ lo[k] - 1 <= hi[k]
    BY <1>4
  <2> QED  BY <2>1, <2>2, CountsGrow
<1>6. a \in [1 .. K -> Nat] /\ b \in [1 .. K -> Nat]
  <2>1. a = [k \in 1 .. K |-> a[k]] /\ b = [k \in 1 .. K |-> b[k]]
    OBVIOUS
  <2> HIDE DEF a, b
  <2> QED  BY <1>5, <2>1
<1> HIDE DEF a, b
<1>7. a[1] = 0
  <2>1. 1 \in 1 .. K /\ lo[1] - 1 = -1
    BY <1>2
  <2>2. IsCount(-1, a[1]) /\ a[1] \in Nat
    BY <1>5, <2>1
  <2> SUFFICES ASSUME a[1] # 0
               PROVE  FALSE
    OBVIOUS
  <2>3. 1 \in 1 .. n /\ 1 <= a[1]
    BY <1>1, <2>2 DEF IsCount
  <2>4. createdIn[1] <= -1 /\ createdIn[1] \in Nat
    BY <1>1, <2>2, <2>3 DEF IsCount
  <2> QED  BY <2>4
<1>8. ASSUME NEW k \in 2 .. K
      PROVE  /\ a[k] <= b[k - 1] /\ b[k - 1] <= b[k]
             /\ (\A p \in CreatedBy(B) : ~SharedByRanges(createdIn[p])) => a[k] = b[k - 1]
  <2> DEFINE j == k - 1
  <2>1. k \in 1 .. K /\ j \in 1 .. K /\ lo[k] = hi[j] /\ SharedByRanges(lo[k])
    BY <1>2
  <2> HIDE DEF j
  <2>2. /\ IsCount(lo[k] - 1, a[k]) /\ IsCount(hi[j], b[j]) /\ IsCount(hi[k], b[k])
    BY <1>5, <2>1
  <2>3. /\ lo[k] - 1 \in Int /\ hi[j] \in Int /\ hi[k] \in Int
        /\ lo[k] - 1 <= hi[j] /\ hi[j] <= hi[k] /\ hi[j] <= B /\ lo[k] \in Nat
    <3>1. /\ lo[k] \in Nat /\ hi[k] \in Nat /\ hi[j] \in Nat
          /\ lo[k] <= hi[k] /\ hi[j] <= B
      BY ONLY <1>2, <1>4, <2>1
    <3> QED  BY ONLY <2>1, <3>1
  <2>4. b[j] <= b[k]
    BY ONLY CreatedInOrder, <2>2, <2>3, CountsGrow
  <2>5. /\ a[k] <= b[j]
        /\ (\A p \in 1 .. n : ~(lo[k] - 1 < createdIn[p] /\ createdIn[p] <= hi[j])) => a[k] = b[j]
    BY ONLY CreatedInOrder, <2>2, <2>3, CountsGrow
  <2>6. ASSUME \A p \in CreatedBy(B) : ~SharedByRanges(createdIn[p]), NEW p \in 1 .. n,
               lo[k] - 1 < createdIn[p], createdIn[p] <= hi[j]
        PROVE  FALSE
    <3>1. createdIn[p] = lo[k] /\ createdIn[p] <= B
      BY <1>1, <2>1, <2>3, <2>6
    <3>2. p \in CreatedBy(B)
      BY <1>1, <3>1 DEF CreatedBy
    <3> QED  BY <2>1, <2>6, <3>1, <3>2
  <2> QED  BY <2>4, <2>5, <2>6 DEF j
<1> DEFINE seqs == [k \in DOMAIN ranges(B) |-> getLogs(ranges(B)[k])]
<1>9. seqs = [k \in 1 .. K |-> RunOf(a[k], b[k])]
  <2>1. DOMAIN ranges(B) = 1 .. K /\ \A k \in 1 .. K : ranges(B)[k] = lo[k] .. hi[k]
    BY <1>2
  <2>2. ASSUME NEW k \in 1 .. K
        PROVE  getLogs(ranges(B)[k]) = RunOf(a[k], b[k])
    <3>1. /\ a[k] \in 0 .. n /\ b[k] \in a[k] .. n
          /\ \A p \in 1 .. n : createdIn[p] <= lo[k] - 1 <=> p <= a[k]
          /\ \A p \in 1 .. n : createdIn[p] <= hi[k] <=> p <= b[k]
      <4>1. a[k] \in Nat /\ b[k] \in Nat /\ a[k] <= b[k]
        BY <1>5
      <4>2. IsCount(lo[k] - 1, a[k]) /\ IsCount(hi[k], b[k])
        BY <1>5
      <4> QED  BY <1>1, <4>1, <4>2 DEF IsCount
    <3>2. \A p \in 1 .. n : createdIn[p] \in lo[k] .. hi[k] <=> a[k] < p /\ p <= b[k]
      <4> SUFFICES ASSUME NEW p \in 1 .. n
                   PROVE  createdIn[p] \in lo[k] .. hi[k] <=> a[k] < p /\ p <= b[k]
        OBVIOUS
      <4>1. createdIn[p] \in Nat /\ lo[k] \in Nat /\ hi[k] \in Nat
        BY <1>1, <1>4
      <4>2. createdIn[p] \in lo[k] .. hi[k] <=>
              ~(createdIn[p] <= lo[k] - 1) /\ createdIn[p] <= hi[k]
        BY <4>1
      <4>3. p \in Nat /\ a[k] \in Nat /\ (~(p <= a[k]) <=> a[k] < p)
        BY <1>1, <3>1
      <4> QED  BY <3>1, <4>2, <4>3
    <3> DEFINE range == ranges(B)[k]
               x == a[k]
               y == b[k]
    <3>3. /\ n = Len(createdIn) /\ n \in Nat /\ x \in 0 .. n /\ y \in x .. n
          /\ \A p \in 1 .. n : createdIn[p] \in range <=> x < p /\ p <= y
      BY <1>1, <2>1, <3>1, <3>2
    <3> HIDE DEF range, x, y, n
    <3>4. getLogs(range) = RunOf(x, y)
      BY ONLY <3>3, LogsOfRun
    <3> QED  BY <3>4 DEF range, x, y
  <2> QED  BY <2>1, <2>2
<1>10. AllLogs(B) = FlattenSeq(seqs)
  BY DEF AllLogs
<1> HIDE DEF seqs
<1> DEFINE all == FlattenSeq(seqs)
           bK == b[K]
<1>11. /\ all \in Seq(Nat) /\ ToSet(all) = 1 .. bK
       /\ (\A k \in 2 .. K : a[k] = b[k - 1]) => all = RunOf(0, bK)
  <2>1. RunsOverlap(K, a, b)
    BY ONLY <1>5, <1>6, <1>7, <1>8 DEF RunsOverlap
  <2>2. K \in Nat \ {0}
    OBVIOUS
  <2> HIDE DEF all, bK
  <2>3. /\ FlattenSeq(seqs) \in Seq(Nat) /\ ToSet(FlattenSeq(seqs)) = 1 .. b[K]
        /\ (\A k \in 2 .. K : a[k] = b[k - 1]) => FlattenSeq(seqs) = RunOf(0, b[K])
    BY ONLY <1>9, <2>1, <2>2, FlattenedRuns
  <2> QED  BY <2>3 DEF all, bK
<1>12. bK \in Nat /\ IsCount(B, bK) /\ K \in 1 .. K
  BY <1>2, <1>5
<1>13. CreatedBy(B) = 1 .. bK
  BY <1>1, <1>12 DEF CreatedBy, IsCount
<1>14. ASSUME \A p \in CreatedBy(B) : ~SharedByRanges(createdIn[p])
       PROVE  \A i \in DOMAIN all : all[i] = i
  <2>1. all = RunOf(0, bK)
    BY <1>8, <1>11, <1>14
  <2> HIDE DEF all, bK
  <2> QED  BY <1>12, <2>1 DEF RunOf
<1> QED  BY <1>10, <1>11, <1>13, <1>14

-----------------------------------------------------------------------------
(* The logs read without the subgraph: the store and its updater.          *)

\* Every stored answer, NoResults included.
AnswerTypes == [blockNumber : Nat \cup {Absent}, error : BOOLEAN, logs : Seq(Nat)]

LogsTypes ==
  /\ chainHead \in Nat /\ IsFiniteSet(readers)
  /\ logsSlice \in [listeners : Nat, fetchingBlockNumber : Nat \cup {Absent},
                    results : AnswerTypes]
  /\ pageBlock \in Nat \cup {Absent} /\ logRequests \in SUBSET Nat

\* An answer tells what the chain held up to its block, and will always hold.
Truthful(results) ==
  \/ results = NoResults
  \/ /\ ~results.error => ToSet(results.logs) = CreatedBy(results.blockNumber)
     /\ (\A p \in CreatedBy(results.blockNumber) : ~SharedByRanges(createdIn[p])) =>
          \A i \in DOMAIN results.logs : results.logs[i] = i

\* No block is known, asked for or answered before it is there.
KnownInOrder ==
  /\ pageBlock <= chainHead
  /\ \A p \in 1 .. Len(createdIn) : createdIn[p] <= chainHead
  /\ \A atBlock \in logRequests : atBlock <= pageBlock
  /\ logsSlice.fetchingBlockNumber <= pageBlock
  /\ logsSlice.results.blockNumber <= pageBlock

\* What is marked as being fetched is on its way, or is stored, or newer is.
FetchingIsUnderWay ==
  \/ logsSlice.fetchingBlockNumber \in logRequests \cup {Absent}
  \/ logsSlice.fetchingBlockNumber <= logsSlice.results.blockNumber

\* The inductive invariant.
LogsInv ==
  /\ LogsTypes /\ CreatedInOrder /\ KnownInOrder /\ FetchingIsUnderWay
  /\ logsSlice.listeners = Cardinality(readers)
  /\ Truthful(logsSlice.results)

\* At first nothing was asked for.
LEMMA LogsInitInv == LogsInit => LogsInv
<1> SUFFICES ASSUME LogsInit
             PROVE  LogsInv
  OBVIOUS
<1> USE DEF LogsInit, NoEntry, NoResults, Absent
<1>1. createdIn = <<>> /\ Len(createdIn) = 0 /\ createdIn \in Seq(Nat)
  OBVIOUS
<1>2. CreatedInOrder
  BY <1>1 DEF CreatedInOrder
<1>3. IsFiniteSet(readers) /\ Cardinality(readers) = 0
  BY FS_EmptySet
<1>4. LogsTypes
  BY <1>3 DEF LogsTypes, AnswerTypes
<1>5. KnownInOrder
  BY <1>1 DEF KnownInOrder
<1> QED  BY <1>2, <1>3, <1>4, <1>5 DEF LogsInv, FetchingIsUnderWay, Truthful

\* What was created up to a block that is there stays what it was.
LEMMA BlocksAreFinal ==
  ASSUME LogsInv, MineLogBlock, NEW B \in Nat \cup {Absent}, B <= chainHead
  PROVE  /\ CreatedBy(B)' = CreatedBy(B)
         /\ \A p \in CreatedBy(B) : createdIn'[p] = createdIn[p]
<1> DEFINE n == Len(createdIn)
<1>1. /\ n \in Nat /\ DOMAIN createdIn = 1 .. n /\ chainHead \in Nat /\ chainHead' = chainHead + 1
      /\ \A p \in 1 .. n : createdIn[p] \in Nat
  BY DEF LogsInv, LogsTypes, CreatedInOrder, MineLogBlock
<1>2. B \in Int
  BY DEF Absent
<1>3. CASE UNCHANGED createdIn
  BY <1>3 DEF CreatedBy
<1>4. CASE createdIn' = Append(createdIn, chainHead')
  <2>1. createdIn \in Seq(Nat) /\ chainHead' \in Nat
    BY <1>1 DEF LogsInv, CreatedInOrder
  <2>2. /\ DOMAIN createdIn' = 1 .. n + 1 /\ createdIn'[n + 1] = chainHead + 1
        /\ \A p \in 1 .. n : createdIn'[p] = createdIn[p]
    BY <1>1, <1>4, <2>1, AppendProperties
  <2>3. ~(createdIn'[n + 1] <= B)
    BY <1>1, <1>2, <2>2
  <2>4. \A p \in 1 .. n + 1 : p \in 1 .. n \/ p = n + 1
    BY <1>1
  <2>5. \A p \in 1 .. n : p \in 1 .. n + 1
    BY <1>1
  <2> HIDE DEF n
  <2>6. CreatedBy(B)' = {p \in 1 .. n + 1 : createdIn'[p] <= B}
    BY <2>2 DEF CreatedBy
  <2>7. CreatedBy(B) = {p \in 1 .. n : createdIn[p] <= B}
    BY <1>1 DEF CreatedBy
  <2> QED  BY <2>2, <2>3, <2>4, <2>5, <2>6, <2>7
<1> QED  BY <1>3, <1>4 DEF MineLogBlock

\* A block with or without a proposal leaves every answer true.
LEMMA MineLogBlockInv ==
  ASSUME LogsInv, MineLogBlock
  PROVE  LogsInv'
<1> DEFINE n == Len(createdIn)
           answer == logsSlice.results
<1>0. UNCHANGED <<readers, logsSlice, pageBlock, logRequests>>
  BY DEF MineLogBlock
<1>1. /\ n \in Nat /\ createdIn \in Seq(Nat) /\ chainHead \in Nat /\ chainHead' = chainHead + 1
      /\ chainHead' \in Nat /\ \A p \in 1 .. n : createdIn[p] \in Nat /\ createdIn[p] <= chainHead
  BY DEF LogsInv, LogsTypes, CreatedInOrder, MineLogBlock, KnownInOrder
<1>2. CreatedInOrder' /\ \A p \in 1 .. Len(createdIn') : createdIn'[p] <= chainHead'
  <2>1. CASE UNCHANGED createdIn
    BY <1>1, <2>1 DEF LogsInv, CreatedInOrder
  <2>2. CASE createdIn' = Append(createdIn, chainHead')
    <3>1. /\ createdIn' \in Seq(Nat) /\ Len(createdIn') = n + 1
          /\ createdIn'[n + 1] = chainHead + 1 /\ \A p \in 1 .. n : createdIn'[p] = createdIn[p]
      BY <1>1, <2>2, AppendProperties
    <3>2. \A p \in 1 .. n + 1 : p \in 1 .. n \/ p = n + 1
      BY <1>1
    <3>3. ASSUME NEW p \in 1 .. n + 1
          PROVE  createdIn'[p] <= chainHead'
      BY <1>1, <3>1, <3>2
    <3>4. ASSUME NEW p \in 1 .. n + 1, NEW q \in 1 .. n + 1, p < q
          PROVE  createdIn'[p] < createdIn'[q]
      <4>1. p \in 1 .. n
        BY <1>1, <3>4
      <4>2. CASE q \in 1 .. n
        BY <3>1, <3>4, <4>1, <4>2 DEF LogsInv, CreatedInOrder
      <4>3. CASE q = n + 1
        <5>1. createdIn'[p] \in Nat /\ createdIn'[p] <= chainHead
          BY <1>1, <3>1, <4>1
        <5> QED  BY <1>1, <3>1, <4>3, <5>1
      <4> QED  BY <3>2, <4>2, <4>3
    <3> HIDE DEF n
    <3> QED  BY <3>1, <3>3, <3>4 DEF CreatedInOrder
  <2> QED  BY <2>1, <2>2 DEF MineLogBlock
<1>3. answer.blockNumber \in Nat \cup {Absent} /\ answer.blockNumber <= chainHead
  <2>1. /\ answer.blockNumber \in Nat \cup {Absent} /\ pageBlock \in Nat \cup {Absent}
        /\ answer.blockNumber <= pageBlock /\ pageBlock <= chainHead
    BY DEF LogsInv, LogsTypes, AnswerTypes, KnownInOrder
  <2> HIDE DEF answer
  <2> QED  BY <1>1, <2>1 DEF Absent
<1>4. Truthful(answer)'
  <2>1. /\ CreatedBy(answer.blockNumber)' = CreatedBy(answer.blockNumber)
        /\ \A p \in CreatedBy(answer.blockNumber) : createdIn'[p] = createdIn[p]
    <3> DEFINE B == answer.blockNumber
    <3>1. B \in Nat \cup {Absent} /\ B <= chainHead /\ B' = B
      BY <1>0, <1>3
    <3> HIDE DEF B
    <3>2. /\ {p \in DOMAIN createdIn' : createdIn'[p] <= B} = CreatedBy(B)
          /\ \A p \in CreatedBy(B) : createdIn'[p] = createdIn[p]
      BY <3>1, BlocksAreFinal DEF CreatedBy
    <3> QED  BY <3>1, <3>2 DEF CreatedBy, B
  <2> QED  BY <1>0, <2>1 DEF LogsInv, Truthful, SharedByRanges
<1>5. LogsTypes' /\ KnownInOrder'
  <2>1. pageBlock <= chainHead /\ pageBlock \in Nat \cup {Absent}
    BY DEF LogsInv, LogsTypes, KnownInOrder
  <2>2. pageBlock <= chainHead'
    BY <1>1, <2>1 DEF Absent
  <2> QED  BY <1>0, <1>1, <1>2, <2>2 DEF LogsInv, LogsTypes, KnownInOrder
<1> QED  BY <1>0, <1>2, <1>4, <1>5 DEF LogsInv, FetchingIsUnderWay

\* The page moves on to a block the chain has.
LEMMA LearnBlockInv ==
  ASSUME LogsInv, LearnBlock
  PROVE  LogsInv'
<1>0. UNCHANGED <<createdIn, chainHead, readers, logsSlice, logRequests>> /\ pageBlock' = chainHead
  BY DEF LearnBlock
<1>1. CreatedInOrder' /\ FetchingIsUnderWay' /\ Truthful(logsSlice.results)'
  BY <1>0 DEF LogsInv, CreatedInOrder, FetchingIsUnderWay, Truthful, CreatedBy, SharedByRanges
<1>2. LogsTypes'
  BY <1>0 DEF LogsInv, LogsTypes
<1>3. KnownInOrder'
  <2>1. pageBlock <= chainHead /\ pageBlock \in Int /\ chainHead \in Int
    BY DEF LogsInv, LogsTypes, KnownInOrder, Absent
  <2>2. \A x \in Int : x <= pageBlock => x <= chainHead
    BY <2>1
  <2>3. /\ logsSlice.fetchingBlockNumber \in Int /\ logsSlice.results.blockNumber \in Int
        /\ logRequests \subseteq Int
    BY DEF LogsInv, LogsTypes, AnswerTypes, Absent
  <2>4. /\ logsSlice.fetchingBlockNumber <= pageBlock
        /\ logsSlice.results.blockNumber <= pageBlock
        /\ \A atBlock \in logRequests : atBlock <= pageBlock
        /\ \A p \in 1 .. Len(createdIn) : createdIn[p] <= chainHead
    BY DEF LogsInv, KnownInOrder
  <2>5. /\ logsSlice.fetchingBlockNumber <= chainHead
        /\ logsSlice.results.blockNumber <= chainHead
    BY <2>2, <2>3, <2>4
  <2>6. \A atBlock \in logRequests : atBlock <= chainHead
    BY <2>2, <2>3, <2>4
  <2>7. chainHead <= chainHead
    BY <2>1
  <2> QED  BY <1>0, <2>4, <2>5, <2>6, <2>7 DEF KnownInOrder
<1> QED  BY <1>0, <1>1, <1>2, <1>3 DEF LogsInv

\* The components come and go without a change to what was answered.
LEMMA ListenerInv ==
  ASSUME LogsInv, NEW reader, addListener(reader) \/ removeListener(reader)
  PROVE  LogsInv'
<1>0. /\ UNCHANGED <<createdIn, chainHead, pageBlock, logRequests>>
      /\ logsSlice \in [listeners : Nat, fetchingBlockNumber : Nat \cup {Absent},
                        results : AnswerTypes]
      /\ IsFiniteSet(readers) /\ logsSlice.listeners = Cardinality(readers)
  BY DEF addListener, removeListener, LogsInv, LogsTypes
<1>1. /\ IsFiniteSet(readers') /\ Cardinality(readers') \in Nat
      /\ logsSlice' = [logsSlice EXCEPT !.listeners = Cardinality(readers')]
  <2>1. CASE addListener(reader)
    <3>1. IsFiniteSet(readers') /\ Cardinality(readers') = Cardinality(readers) + 1
      BY <1>0, <2>1, FS_AddElement DEF addListener
    <3>2. Cardinality(readers) \in Nat
      BY <1>0, FS_CardinalityType
    <3>3. logsSlice' = [logsSlice EXCEPT !.listeners = logsSlice.listeners + 1]
      BY <2>1 DEF addListener
    <3>4. Cardinality(readers') = logsSlice.listeners + 1 /\ Cardinality(readers') \in Nat
      BY <1>0, <3>1, <3>2
    <3> QED  BY <3>1, <3>3, <3>4
  <2>2. CASE removeListener(reader)
    <3>1. IsFiniteSet(readers') /\ Cardinality(readers') = Cardinality(readers) - 1
      BY <1>0, <2>2, FS_RemoveElement DEF removeListener
    <3>2. Cardinality(readers') \in Nat
      BY <3>1, FS_CardinalityType
    <3>3. logsSlice' = [logsSlice EXCEPT !.listeners = logsSlice.listeners - 1]
      BY <2>2 DEF removeListener
    <3>4. Cardinality(readers') = logsSlice.listeners - 1
      BY <1>0, <3>1
    <3> QED  BY <3>1, <3>2, <3>3, <3>4
  <2> QED  BY <2>1, <2>2
<1>2. /\ logsSlice'.listeners = Cardinality(readers')
      /\ logsSlice'.fetchingBlockNumber = logsSlice.fetchingBlockNumber
      /\ logsSlice'.results = logsSlice.results
      /\ logsSlice' \in [listeners : Nat, fetchingBlockNumber : Nat \cup {Absent},
                         results : AnswerTypes]
  BY <1>0, <1>1
<1>3. CreatedInOrder' /\ FetchingIsUnderWay' /\ KnownInOrder'
  BY <1>0, <1>2 DEF LogsInv, CreatedInOrder, FetchingIsUnderWay, KnownInOrder
<1>4. Truthful(logsSlice.results)'
  BY <1>0, <1>2 DEF LogsInv, Truthful, CreatedBy, SharedByRanges
<1>5. LogsTypes'
  <2>1. AnswerTypes' = AnswerTypes
    BY DEF AnswerTypes
  <2> QED  BY <1>0, <1>1, <1>2, <2>1 DEF LogsInv, LogsTypes
<1> QED  BY <1>2, <1>3, <1>4, <1>5 DEF LogsInv

\* What is marked as being fetched is asked for in the same step.
LEMMA FetchingLogsInv ==
  ASSUME LogsInv, fetchingLogs
  PROVE  LogsInv'
<1>0. /\ UNCHANGED <<createdIn, chainHead, readers, pageBlock>>
      /\ logsSlice' = [logsSlice EXCEPT !.fetchingBlockNumber = pageBlock]
      /\ logRequests' = logRequests \cup {pageBlock} /\ pageBlock # Absent
  BY DEF fetchingLogs, filterNeedsFetch
<1>1. /\ logsSlice \in [listeners : Nat, fetchingBlockNumber : Nat \cup {Absent},
                        results : AnswerTypes]
      /\ pageBlock \in Nat /\ logRequests \in SUBSET Nat
  BY <1>0 DEF LogsInv, LogsTypes
<1>2. /\ logsSlice'.listeners = logsSlice.listeners /\ logsSlice'.results = logsSlice.results
      /\ logsSlice'.fetchingBlockNumber = pageBlock
      /\ logsSlice' \in [listeners : Nat, fetchingBlockNumber : Nat \cup {Absent},
                         results : AnswerTypes]
  BY <1>0, <1>1
<1>3. CreatedInOrder' /\ Truthful(logsSlice.results)'
  BY <1>0, <1>2 DEF LogsInv, CreatedInOrder, Truthful, CreatedBy, SharedByRanges
<1>4. KnownInOrder' /\ FetchingIsUnderWay'
  BY <1>0, <1>1, <1>2 DEF LogsInv, KnownInOrder, FetchingIsUnderWay
<1>5. LogsTypes'
  <2>1. AnswerTypes' = AnswerTypes
    BY DEF AnswerTypes
  <2>2. logRequests' \in SUBSET Nat
    BY <1>0, <1>1
  <2> QED  BY <1>0, <1>2, <2>1, <2>2 DEF LogsInv, LogsTypes
<1> QED  BY <1>0, <1>2, <1>3, <1>4, <1>5 DEF LogsInv

\* What answers a request is true of the chain, an error included.
LEMMA AnswersAreTruthful ==
  ASSUME LogsInv, NEW atBlock \in logRequests,
         NEW answer,
         \/ answer = [blockNumber |-> atBlock, error |-> FALSE, logs |-> AllLogs(atBlock)]
         \/ answer = [blockNumber |-> atBlock, error |-> TRUE, logs |-> <<>>]
  PROVE  answer \in AnswerTypes /\ answer.blockNumber = atBlock /\ Truthful(answer)
<1>1. CreatedInOrder /\ atBlock \in Nat
  BY DEF LogsInv, LogsTypes
<1>2. /\ AllLogs(atBlock) \in Seq(Nat) /\ ToSet(AllLogs(atBlock)) = CreatedBy(atBlock)
      /\ (\A p \in CreatedBy(atBlock) : ~SharedByRanges(createdIn[p])) =>
           \A i \in DOMAIN AllLogs(atBlock) : AllLogs(atBlock)[i] = i
  BY <1>1, LogsOfAllRanges
<1>3. CASE answer = [blockNumber |-> atBlock, error |-> FALSE, logs |-> AllLogs(atBlock)]
  BY <1>1, <1>2, <1>3 DEF AnswerTypes, Truthful
<1>4. CASE answer = [blockNumber |-> atBlock, error |-> TRUE, logs |-> <<>>]
  <2>1. answer.error /\ DOMAIN answer.logs = {} /\ answer.logs \in Seq(Nat)
    BY <1>4
  <2> QED  BY <1>1, <1>4, <2>1 DEF AnswerTypes, Truthful
<1> QED  BY <1>3, <1>4

\* Whatever order answers come in, the newest is kept.
LEMMA LogsAnsweredInv ==
  ASSUME LogsInv, NEW atBlock \in logRequests, LogsAnswered(atBlock)
  PROVE  LogsInv'
<1>0. /\ UNCHANGED <<createdIn, chainHead, readers, pageBlock>>
      /\ logRequests' = logRequests \ {atBlock}
  BY DEF LogsAnswered
<1>1. PICK answer : /\ \/ answer = [blockNumber |-> atBlock, error |-> FALSE,
                                    logs |-> AllLogs(atBlock)]
                       \/ answer = [blockNumber |-> atBlock, error |-> TRUE, logs |-> <<>>]
                    /\ logsSlice' = Stored(answer)
  BY DEF LogsAnswered, fetchedLogs, fetchedLogsError
<1>2. answer \in AnswerTypes /\ answer.blockNumber = atBlock /\ Truthful(answer)
  BY <1>1, AnswersAreTruthful
<1>3. /\ logsSlice \in [listeners : Nat, fetchingBlockNumber : Nat \cup {Absent},
                        results : AnswerTypes]
      /\ atBlock \in Nat /\ logRequests \in SUBSET Nat /\ atBlock <= pageBlock
      /\ logsSlice.results.blockNumber \in Int /\ logsSlice.fetchingBlockNumber \in Int
  BY DEF LogsInv, LogsTypes, KnownInOrder, AnswerTypes, Absent
<1>4. /\ logsSlice'.listeners = logsSlice.listeners
      /\ logsSlice'.fetchingBlockNumber = logsSlice.fetchingBlockNumber
      /\ logsSlice' \in [listeners : Nat, fetchingBlockNumber : Nat \cup {Absent},
                         results : AnswerTypes]
      /\ \/ logsSlice'.results = answer /\ logsSlice.results.blockNumber <= atBlock
         \/ logsSlice'.results = logsSlice.results /\ atBlock < logsSlice.results.blockNumber
  <2>1. CASE NotOutdated(answer)
    <3>1. logsSlice' = [logsSlice EXCEPT !.results = answer]
      BY <1>1, <2>1 DEF Stored
    <3>2. logsSlice.results.blockNumber <= atBlock
      BY <1>2, <2>1 DEF NotOutdated
    <3> HIDE <1>1
    <3> QED  BY <1>2, <1>3, <3>1, <3>2
  <2>2. CASE ~NotOutdated(answer)
    <3>1. logsSlice' = logsSlice
      BY <1>1, <2>2 DEF Stored
    <3>2. atBlock < logsSlice.results.blockNumber
      BY <1>2, <1>3, <2>2 DEF NotOutdated
    <3> QED  BY <1>3, <3>1, <3>2
  <2> QED  BY <2>1, <2>2
<1>5. logsSlice'.results.blockNumber \in {atBlock, logsSlice.results.blockNumber}
      /\ atBlock <= logsSlice'.results.blockNumber
      /\ logsSlice.results.blockNumber <= logsSlice'.results.blockNumber
  BY <1>2, <1>3, <1>4
<1>6. CreatedInOrder' /\ Truthful(logsSlice.results)'
  <2>1. /\ CreatedInOrder /\ Truthful(logsSlice.results)
    BY DEF LogsInv
  <2>2. Truthful(logsSlice'.results)
    BY <1>2, <1>4, <2>1
  <2> QED  BY <1>0, <2>1, <2>2 DEF CreatedInOrder, Truthful, CreatedBy, SharedByRanges
<1>7. KnownInOrder'
  <2>1. /\ pageBlock <= chainHead /\ \A p \in 1 .. Len(createdIn) : createdIn[p] <= chainHead
        /\ \A b \in logRequests : b <= pageBlock
        /\ logsSlice.fetchingBlockNumber <= pageBlock
        /\ logsSlice.results.blockNumber <= pageBlock
    BY DEF LogsInv, KnownInOrder
  <2>2. \A b \in logRequests' : b <= pageBlock
    BY <1>0, <2>1
  <2>3. logsSlice'.results.blockNumber <= pageBlock
    BY <1>3, <1>5, <2>1
  <2>4. logsSlice'.fetchingBlockNumber <= pageBlock
    BY <1>4, <2>1
  <2> QED  BY <1>0, <2>1, <2>2, <2>3, <2>4 DEF KnownInOrder
<1>8. FetchingIsUnderWay'
  <2> DEFINE marked == logsSlice.fetchingBlockNumber
             old == logsSlice.results.blockNumber
             new == logsSlice'.results.blockNumber
  <2>1. marked \in logRequests \cup {Absent} \/ marked <= old
    BY DEF LogsInv, FetchingIsUnderWay
  <2>2. marked \in Int /\ old \in Int /\ new \in Int /\ old <= new /\ atBlock <= new
    BY <1>3, <1>5
  <2>3. logsSlice'.fetchingBlockNumber = marked
    BY <1>4
  <2> HIDE DEF marked, old, new
  <2>4. marked \in logRequests' \cup {Absent} \/ marked <= new
    BY <1>0, <2>1, <2>2
  <2> QED  BY <2>3, <2>4 DEF FetchingIsUnderWay, new
<1>9. LogsTypes'
  <2>1. AnswerTypes' = AnswerTypes
    BY DEF AnswerTypes
  <2>2. logRequests' \in SUBSET Nat
    BY <1>0, <1>3
  <2> QED  BY <1>0, <1>4, <2>1, <2>2 DEF LogsInv, LogsTypes
<1> QED  BY <1>0, <1>4, <1>6, <1>7, <1>8, <1>9 DEF LogsInv

\* Every step keeps the invariant.
LEMMA LogsNextInv == LogsInv /\ [WebappLogsNext]_logsVars => LogsInv'
<1> SUFFICES ASSUME LogsInv, [WebappLogsNext]_logsVars
             PROVE  LogsInv'
  OBVIOUS
<1>1. CASE MineLogBlock
  BY <1>1, MineLogBlockInv
<1>2. CASE LearnBlock
  BY <1>2, LearnBlockInv
<1>3. CASE ReadProposals \/ UNCHANGED logsVars
  BY <1>3 DEF ReadProposals, logsVars, LogsInv, LogsTypes, CreatedInOrder, KnownInOrder,
              FetchingIsUnderWay, Truthful, CreatedBy, SharedByRanges, AnswerTypes
<1>4. ASSUME NEW reader \in LogReaders, addListener(reader) \/ removeListener(reader)
      PROVE  LogsInv'
  BY <1>4, ListenerInv
<1>5. CASE fetchingLogs
  BY <1>5, FetchingLogsInv
<1>6. ASSUME NEW atBlock \in logRequests, LogsAnswered(atBlock)
      PROVE  LogsInv'
  BY <1>6, LogsAnsweredInv
<1> QED  BY <1>1, <1>2, <1>3, <1>4, <1>5, <1>6 DEF WebappLogsNext

\* What the page shows and lists, from the invariant.
LEMMA InvFollowsTheChain == LogsInv => LogsFollowTheChain
<1> SUFFICES ASSUME LogsInv
             PROVE  LogsFollowTheChain
  OBVIOUS
<1> DEFINE results == logsSlice.results
           marked == logsSlice.fetchingBlockNumber
<1>1. /\ results \in AnswerTypes /\ Truthful(results)
      /\ results.blockNumber \in Int /\ pageBlock \in Int /\ marked \in Nat \cup {Absent}
      /\ results.blockNumber <= pageBlock /\ marked <= pageBlock
  BY DEF LogsInv, LogsTypes, KnownInOrder, AnswerTypes, Absent
<1>2. useLogs.state = "SYNCED" => ToSet(useLogs.logs) = CreatedBy(pageBlock)
  <2> SUFFICES ASSUME useLogs.state = "SYNCED"
               PROVE  ToSet(useLogs.logs) = CreatedBy(pageBlock)
    OBVIOUS
  <2>1. /\ results.blockNumber # Absent /\ ~results.error /\ results.blockNumber >= pageBlock
        /\ useLogs.logs = results.logs
    BY <1>1 DEF useLogs, AnswerTypes
  <2>2. results.blockNumber = pageBlock /\ results # NoResults
    BY <1>1, <2>1 DEF NoResults
  <2> QED  BY <1>1, <2>1, <2>2 DEF Truthful
<1>3. useLogs.state \in {"LOADING", "SYNCING"} /\ readers # {} =>
        filterNeedsFetch \/ \E atBlock \in logRequests : atBlock > logsSlice.results.blockNumber
  <2> SUFFICES ASSUME useLogs.state \in {"LOADING", "SYNCING"}, readers # {}
               PROVE  filterNeedsFetch \/ \E atBlock \in logRequests : atBlock > results.blockNumber
    OBVIOUS
  <2>1. pageBlock # Absent /\ results.blockNumber < pageBlock
    <3>1. pageBlock # Absent /\ pageBlock # 0
      BY DEF useLogs
    <3>2. results.blockNumber = Absent \/ ~(results.blockNumber >= pageBlock)
      BY <1>1 DEF useLogs, AnswerTypes
    <3>3. pageBlock \in Nat
      BY <3>1 DEF LogsInv, LogsTypes
    <3> QED  BY <1>1, <3>1, <3>2, <3>3 DEF Absent
  <2>2. logsSlice.listeners > 0
    <3>1. IsFiniteSet(readers) /\ logsSlice.listeners = Cardinality(readers)
      BY DEF LogsInv, LogsTypes
    <3>2. Cardinality(readers) \in Nat /\ Cardinality(readers) # 0
      BY <3>1, FS_CardinalityType, FS_EmptySet
    <3> QED  BY <3>1, <3>2
  <2>3. CASE marked < pageBlock
    BY <2>1, <2>2, <2>3 DEF filterNeedsFetch
  <2>4. CASE marked = pageBlock
    <3>1. marked \in logRequests \cup {Absent} \/ marked <= results.blockNumber
      BY DEF LogsInv, FetchingIsUnderWay
    <3>2. pageBlock \in logRequests
      BY <1>1, <2>1, <2>4, <3>1
    <3> QED  BY <1>1, <2>1, <3>2
  <2>5. marked \in Int
    BY <1>1 DEF Absent
  <2> QED  BY <1>1, <2>3, <2>4, <2>5
<1>4. ASSUME ~\E p \in CreatedBy(results.blockNumber) : SharedByRanges(createdIn[p]),
             NEW i \in DOMAIN useAllProposalsViaChain
      PROVE  useAllProposalsViaChain[i] \in {i, Untitled}
  <2>1. \A j \in DOMAIN useLogs.logs : useLogs.logs[j] = j
    <3>1. useLogs.logs = <<>> \/ useLogs.logs = results.logs
      BY <1>1 DEF useLogs, AnswerTypes
    <3>2. \A j \in DOMAIN results.logs : results.logs[j] = j
      BY <1>1, <1>4 DEF Truthful, NoResults
    <3> QED  BY <3>1, <3>2
  <2>2. useLogs.logs \in Seq(Nat)
    BY <1>1 DEF useLogs, AnswerTypes
  <2> DEFINE d == useFormattedProposalCreatedLogs
  <2>3. d \in Seq(Nat) /\ \A j \in DOMAIN d : d[j] = j
    BY <2>1, <2>2 DEF useFormattedProposalCreatedLogs
  <2>4. CASE listed > 0 /\ d = <<>>
    BY <1>4, <2>4 DEF useAllProposalsViaChain
  <2>5. CASE ~(listed > 0 /\ d = <<>>)
    <3>1. useAllProposalsViaChain = [j \in 1 .. listed |-> IF j <= Len(d) THEN d[j] ELSE Untitled]
      BY <2>5 DEF useAllProposalsViaChain
    <3> HIDE DEF d
    <3>2. i \in 1 .. listed /\ useAllProposalsViaChain[i] = IF i <= Len(d) THEN d[i] ELSE Untitled
      BY <1>4, <3>1
    <3>3. i <= Len(d) => i \in DOMAIN d
      BY <2>3, <3>2
    <3> QED  BY <2>3, <3>2, <3>3
  <2> QED  BY <2>4, <2>5
<1> QED  BY <1>2, <1>3, <1>4 DEF LogsFollowTheChain

\* LogsFollowTheChain for ranges of any length, any number of components and any chain:
\* whatever order the answers come in and however many fail, SYNCED logs are those of the
\* chain, older ones are shown only while newer ones are asked for or about to be, and no
\* proposal gets the description of another unless two ranges share its block (useLogs,
\* fetchedLogs and the Updater of updaters/logs.ts).
THEOREM LogsAlwaysFollow == WebappLogsSpec => []LogsFollowTheChain
BY LogsInitInv, LogsNextInv, InvFollowsTheChain, PTL DEF WebappLogsSpec
=============================================================================
