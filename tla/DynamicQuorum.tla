---------------------------- MODULE DynamicQuorum ----------------------------
(***************************************************************************)
(* The dynamic quorum of NounsDAOLogicV2.sol as operators: the quorum of a *)
(* proposal grows with the votes against it, between a minimum and a       *)
(* maximum, and its parameters are checkpointed by block.                  *)
(* Bps and CoefficientOne scale 10000 and 1e6 down to TLC's integers.      *)
(***************************************************************************)
EXTENDS CheckpointSearch

CONSTANTS
  Bps,            \* 10000: basis points of one
  CoefficientOne, \* 1e6: the fixed point one of quorumCoefficient
  MIN_QUORUM_VOTES_BPS_LOWER_BOUND,
  MIN_QUORUM_VOTES_BPS_UPPER_BOUND,
  MAX_QUORUM_VOTES_BPS_UPPER_BOUND,
  quorumVotesBPS  \* the fixed quorum of V1, used before the first checkpoint

ASSUME QuorumAssumption ==
  /\ Bps \in Nat \ {0} /\ CoefficientOne \in Nat \ {0}
  /\ MIN_QUORUM_VOTES_BPS_LOWER_BOUND \in Nat /\ MIN_QUORUM_VOTES_BPS_UPPER_BOUND \in Nat
  /\ MAX_QUORUM_VOTES_BPS_UPPER_BOUND \in 0 .. Bps
  /\ quorumVotesBPS \in Nat

Params == [minQuorumVotesBPS : Nat, maxQuorumVotesBPS : Nat, quorumCoefficient : Nat]
ParamsCheckpoint == [fromBlock : Nat, params : Params]

bps2Uint(bps, number) == (number * bps) \div Bps

Smaller(a, b) == IF a < b THEN a ELSE b

dynamicQuorumVotes(againstVotes, totalSupply, params) ==
  LET againstVotesBPS == (Bps * againstVotes) \div totalSupply
      adjustmentBPS   == (params.quorumCoefficient * againstVotesBPS) \div CoefficientOne
      quorumBPS       == Smaller(params.maxQuorumVotesBPS,
                                 params.minQuorumVotesBPS + adjustmentBPS)
  IN  bps2Uint(quorumBPS, totalSupply)

FixedParams == [minQuorumVotesBPS |-> quorumVotesBPS,
                maxQuorumVotesBPS |-> quorumVotesBPS, quorumCoefficient |-> 0]

\* getDynamicQuorumParamsAt: early returns and search as in getPriorVotes.
ParamsAt(cps, block) ==
  IF cps = <<>> THEN FixedParams
  ELSE IF cps[Len(cps)].fromBlock <= block THEN cps[Len(cps)].params
  ELSE IF cps[1].fromBlock > block THEN FixedParams
  ELSE cps[Search(cps, block)].params

\* Mutant: the last checkpoint is overwritten whatever block it is of.
WriteParamsOverwrites(cps, block, params) ==
  IF cps # <<>> THEN [cps EXCEPT ![Len(cps)] = [fromBlock |-> block, params |-> params]]
                ELSE <<[fromBlock |-> block, params |-> params]>>

WriteParams(cps, block, params) ==
  IF cps # <<>> /\ cps[Len(cps)].fromBlock = block
    THEN [cps EXCEPT ![Len(cps)] = [fromBlock |-> block, params |-> params]]
    ELSE Append(cps, [fromBlock |-> block, params |-> params])

InitialParamsAllowed(params) ==
  /\ params.minQuorumVotesBPS >= MIN_QUORUM_VOTES_BPS_LOWER_BOUND
  /\ params.minQuorumVotesBPS <= MIN_QUORUM_VOTES_BPS_UPPER_BOUND
  /\ params.maxQuorumVotesBPS <= MAX_QUORUM_VOTES_BPS_UPPER_BOUND
  /\ params.minQuorumVotesBPS <= params.maxQuorumVotesBPS

\* Mutant: the setter of the maximum does not look at the minimum.
SetterAllowsSmallMaximum(field, params) ==
  CASE field = "minQuorumVotesBPS" ->
         /\ params.minQuorumVotesBPS >= MIN_QUORUM_VOTES_BPS_LOWER_BOUND
         /\ params.minQuorumVotesBPS <= MIN_QUORUM_VOTES_BPS_UPPER_BOUND
         /\ params.minQuorumVotesBPS <= params.maxQuorumVotesBPS
    [] field = "maxQuorumVotesBPS" ->
         params.maxQuorumVotesBPS <= MAX_QUORUM_VOTES_BPS_UPPER_BOUND
    [] field = "quorumCoefficient" -> TRUE

\* What the setter of one field requires of the parameters it is about to store.
SetterAllows(field, params) ==
  CASE field = "minQuorumVotesBPS" ->
         /\ params.minQuorumVotesBPS >= MIN_QUORUM_VOTES_BPS_LOWER_BOUND
         /\ params.minQuorumVotesBPS <= MIN_QUORUM_VOTES_BPS_UPPER_BOUND
         /\ params.minQuorumVotesBPS <= params.maxQuorumVotesBPS
    [] field = "maxQuorumVotesBPS" ->
         /\ params.maxQuorumVotesBPS <= MAX_QUORUM_VOTES_BPS_UPPER_BOUND
         /\ params.minQuorumVotesBPS <= params.maxQuorumVotesBPS
    [] field = "quorumCoefficient" -> TRUE
=============================================================================
