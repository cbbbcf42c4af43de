----------------------- MODULE DynamicQuorumTheorems ------------------------
(***************************************************************************)
(* What dynamicQuorumVotes promises, for any votes, supply and parameters: *)
(* it rounds down three times, and none of the three takes it outside its  *)
(* bounds or makes a vote against lower the quorum.  And what the          *)
(* checkpoints of its parameters keep: a setter that runs in this block    *)
(* leaves the parameters of every earlier block as they were.              *)
(***************************************************************************)
EXTENDS DynamicQuorum, InductionTheorems

\* Rounding down keeps the order.
LEMMA QuotientMonotone ==
  ASSUME NEW a \in Nat, NEW b \in Nat, NEW n \in Nat \ {0}, a <= b
  PROVE  a \div n <= b \div n
<1> DEFINE p == a \div n
           q == b \div n
<1>1. p \in Nat /\ q \in Nat /\ n * p <= a /\ b < n * q + n
  BY Quotient
<1> HIDE DEF p, q
<1>2. SUFFICES ASSUME q + 1 <= p PROVE FALSE
  BY <1>1 DEF p, q
<1>3. n * (q + 1) <= n * p
  BY <1>1, <1>2, ProductMonotone
<1>4. n * (q + 1) = n * q + n
  BY <1>1
<1>5. n * q \in Nat /\ n * p \in Nat
  BY <1>1
<1> QED  BY <1>1, <1>3, <1>4, <1>5

\* Shares of the supply keep the order of the basis points.
LEMMA ShareMonotone ==
  ASSUME NEW supply \in Nat, NEW low \in Nat, NEW high \in Nat, low <= high
  PROVE  /\ bps2Uint(low, supply) \in Nat /\ bps2Uint(high, supply) \in Nat
         /\ bps2Uint(low, supply) <= bps2Uint(high, supply)
<1>1. supply * low \in Nat /\ supply * high \in Nat /\ supply * low <= supply * high
  BY ProductMonotone
<1> QED  BY <1>1, Quotient, QuotientMonotone, QuorumAssumption DEF bps2Uint

\* The basis points a quorum is raised by for the votes against a proposal.
Adjustment(against, supply, params) ==
  (params.quorumCoefficient * ((Bps * against) \div supply)) \div CoefficientOne

\* More votes against never lower the adjustment.
LEMMA AdjustmentMonotone ==
  ASSUME NEW supply \in Nat \ {0}, NEW params \in Params,
         NEW fewer \in Nat, NEW more \in Nat, fewer <= more
  PROVE  /\ Adjustment(fewer, supply, params) \in Nat /\ Adjustment(more, supply, params) \in Nat
         /\ Adjustment(fewer, supply, params) <= Adjustment(more, supply, params)
<1> DEFINE a == Bps * fewer
           b == Bps * more
           p == a \div supply
           q == b \div supply
           c == params.quorumCoefficient
<1>1. a \in Nat /\ b \in Nat /\ a <= b
  BY ProductMonotone, QuorumAssumption
<1> HIDE DEF a, b
<1>2. p \in Nat /\ q \in Nat /\ p <= q
  BY <1>1, Quotient, QuotientMonotone
<1>3. c \in Nat
  BY DEF Params
<1> HIDE DEF p, q, c
<1>4. c * p \in Nat /\ c * q \in Nat /\ c * p <= c * q
  BY <1>2, <1>3, ProductMonotone
<1>5. /\ (c * p) \div CoefficientOne \in Nat /\ (c * q) \div CoefficientOne \in Nat
      /\ (c * p) \div CoefficientOne <= (c * q) \div CoefficientOne
  BY <1>4, Quotient, QuotientMonotone, QuorumAssumption
<1> QED  BY <1>5 DEF Adjustment, a, b, p, q, c

\* However many votes are against a proposal, the quorum lies between the shares of
\* the supply that the minimum and the maximum stand for.
THEOREM QuorumWithinBounds ==
  ASSUME NEW against \in Nat, NEW supply \in Nat \ {0}, NEW params \in Params,
         params.minQuorumVotesBPS <= params.maxQuorumVotesBPS
  PROVE  /\ bps2Uint(params.minQuorumVotesBPS, supply)
               <= dynamicQuorumVotes(against, supply, params)
         /\ dynamicQuorumVotes(against, supply, params)
               <= bps2Uint(params.maxQuorumVotesBPS, supply)
<1> DEFINE min == params.minQuorumVotesBPS
           max == params.maxQuorumVotesBPS
           quorumBPS == Smaller(max, min + Adjustment(against, supply, params))
<1>1. min \in Nat /\ max \in Nat /\ min <= max
  BY DEF Params
<1>2. Adjustment(against, supply, params) \in Nat
  BY AdjustmentMonotone
<1>3. dynamicQuorumVotes(against, supply, params) = bps2Uint(quorumBPS, supply)
  BY DEF dynamicQuorumVotes, Adjustment
<1> HIDE DEF min, max
<1>4. quorumBPS \in Nat /\ min <= quorumBPS /\ quorumBPS <= max
  BY <1>1, <1>2 DEF Smaller
<1> HIDE DEF quorumBPS
<1>5. bps2Uint(min, supply) <= bps2Uint(quorumBPS, supply)
  BY <1>1, <1>4, ShareMonotone
<1>6. bps2Uint(quorumBPS, supply) <= bps2Uint(max, supply)
  BY <1>1, <1>4, ShareMonotone
<1> QED  BY <1>3, <1>5, <1>6 DEF min, max

\* A vote against a proposal never makes it easier to pass: the quorum grows with
\* the votes against it, although both quotients are rounded down.
THEOREM QuorumGrowsWithVotesAgainst ==
  ASSUME NEW supply \in Nat \ {0}, NEW params \in Params,
         NEW fewer \in Nat, NEW more \in Nat, fewer <= more
  PROVE  dynamicQuorumVotes(fewer, supply, params) <= dynamicQuorumVotes(more, supply, params)
<1> DEFINE min == params.minQuorumVotesBPS
           max == params.maxQuorumVotesBPS
           low == Smaller(max, min + Adjustment(fewer, supply, params))
           high == Smaller(max, min + Adjustment(more, supply, params))
<1>1. min \in Nat /\ max \in Nat
  BY DEF Params
<1>2. low \in Nat /\ high \in Nat /\ low <= high
  BY <1>1, AdjustmentMonotone DEF Smaller
<1>3. /\ dynamicQuorumVotes(fewer, supply, params) = bps2Uint(low, supply)
      /\ dynamicQuorumVotes(more, supply, params) = bps2Uint(high, supply)
  BY DEF dynamicQuorumVotes, Adjustment
<1> HIDE DEF low, high
<1> QED  BY <1>2, <1>3, ShareMonotone

-----------------------------------------------------------------------------
(* The checkpoints of the parameters.                                      *)

\* Increasing in time, none in the future.
InTime(cps, block) == Increasing(cps) /\ \A i \in 1 .. Len(cps) : cps[i].fromBlock <= block

\* getDynamicQuorumParamsAt finds the last checkpoint at or before the block.
LEMMA ParamsOfLast ==
  ASSUME NEW cps, Len(cps) \in Nat, Increasing(cps), NEW b \in Nat, NEW i,
         IsLastAtOrBefore(cps, b, i)
  PROVE  ParamsAt(cps, b) = cps[i].params
<1>1. /\ i \in 1 .. Len(cps) /\ 1 \in 1 .. Len(cps) /\ Len(cps) \in 1 .. Len(cps)
      /\ cps[i].fromBlock <= b
  BY DEF IsLastAtOrBefore
<1>2. cps # <<>>
  <2>1. Len(<<>>) = 0
    OBVIOUS
  <2> QED  BY <1>1, <2>1
<1>3. CASE cps[Len(cps)].fromBlock <= b
  <2>1. IsLastAtOrBefore(cps, b, Len(cps))
    BY <1>1, <1>3 DEF IsLastAtOrBefore
  <2>2. Len(cps) = i
    BY <2>1, OneLast
  <2> QED  BY <1>2, <1>3, <2>2 DEF ParamsAt
<1>4. CASE ~(cps[Len(cps)].fromBlock <= b)
  <2>1. cps[1].fromBlock <= b /\ cps[1].fromBlock \in Nat
    <3>1. i = 1 \/ cps[1].fromBlock < cps[i].fromBlock
      BY <1>1 DEF Increasing
    <3>2. cps[1].fromBlock \in Nat /\ cps[i].fromBlock \in Nat
      BY <1>1 DEF Increasing
    <3> QED  BY <1>1, <3>1, <3>2
  <2>2. IsLastAtOrBefore(cps, b, Search(cps, b))
    BY <1>1, <2>1, SearchFindsLast
  <2>3. Search(cps, b) = i
    BY <2>2, OneLast
  <2> QED  BY <1>2, <1>4, <2>1, <2>3 DEF ParamsAt
<1> QED  BY <1>3, <1>4

\* Before the first checkpoint the fixed quorum of V1 is in force.
LEMMA ParamsOfNone ==
  ASSUME NEW cps, Len(cps) \in Nat, Increasing(cps), NEW b \in Nat,
         \A i \in 1 .. Len(cps) : ~(cps[i].fromBlock <= b)
  PROVE  ParamsAt(cps, b) = FixedParams
<1>1. CASE cps = <<>>
  BY <1>1 DEF ParamsAt
<1>2. CASE cps # <<>> /\ Len(cps) # 0
  <2>1. 1 \in 1 .. Len(cps) /\ Len(cps) \in 1 .. Len(cps)
    BY <1>2
  <2>2. cps[1].fromBlock > b
    BY <2>1 DEF Increasing
  <2> QED  BY <1>2, <2>1, <2>2 DEF ParamsAt
<1>3. CASE cps # <<>> /\ Len(cps) = 0
  <2>1. 1 .. Len(cps) = {}
    BY <1>3
  <2> QED  BY <1>3, <2>1 DEF ParamsAt
<1> QED  BY <1>1, <1>2, <1>3

\* `after` is cps with one more checkpoint, of this block, or with the last one
\* replaced when that is of this block.
ParamsWritten(after, cps, block, params) ==
  /\ after \in Seq(ParamsCheckpoint) /\ Len(after) \in 1 .. Len(after)
  /\ after[Len(after)] = [fromBlock |-> block, params |-> params]
  /\ \/ Len(after) = Len(cps) /\ cps[Len(cps)].fromBlock = block
     \/ Len(after) = Len(cps) + 1 /\ (cps # <<>> => cps[Len(cps)].fromBlock # block)
  /\ \A i \in 1 .. Len(after) : i # Len(after) => i \in 1 .. Len(cps) /\ after[i] = cps[i]

\* That is what _writeQuorumParamsCheckpoint does.
LEMMA WriteParamsShape ==
  ASSUME NEW cps \in Seq(ParamsCheckpoint), NEW block \in Nat, NEW params \in Params
  PROVE  ParamsWritten(WriteParams(cps, block, params), cps, block, params)
<1> DEFINE after == WriteParams(cps, block, params)
           cp == [fromBlock |-> block, params |-> params]
<1>1. cp \in ParamsCheckpoint
  BY DEF ParamsCheckpoint
<1> HIDE DEF cp
<1> SUFFICES ParamsWritten(after, cps, block, params)
  OBVIOUS
<1>2. CASE cps # <<>> /\ cps[Len(cps)].fromBlock = block
  <2>1. after = [cps EXCEPT ![Len(cps)] = cp]
    BY <1>2 DEF WriteParams, cp
  <2>2. Len(cps) \in 1 .. Len(cps)
    BY <1>2
  <2>3. after \in Seq(ParamsCheckpoint) /\ Len(after) = Len(cps)
    BY <1>1, <2>1, <2>2
  <2>4. after[Len(cps)] = cp /\ \A i \in 1 .. Len(cps) : i # Len(cps) => after[i] = cps[i]
    BY <2>1, <2>2
  <2> HIDE DEF after
  <2> QED  BY <1>2, <2>2, <2>3, <2>4 DEF ParamsWritten, cp
<1>3. CASE ~(cps # <<>> /\ cps[Len(cps)].fromBlock = block)
  <2>1. after = Append(cps, cp)
    BY <1>3 DEF WriteParams, cp
  <2>2. /\ after \in Seq(ParamsCheckpoint) /\ Len(after) = Len(cps) + 1
        /\ after[Len(cps) + 1] = cp /\ \A i \in 1 .. Len(cps) : after[i] = cps[i]
    BY <1>1, <2>1
  <2> HIDE DEF after
  <2>3. Len(cps) \in Nat /\ Len(after) \in 1 .. Len(after)
    BY <2>2
  <2> QED  BY <1>3, <2>2, <2>3 DEF ParamsWritten, cp
<1> QED  BY <1>2, <1>3 DEF after

\* A write keeps the checkpoints in time, and the parameters of every earlier block.
LEMMA WriteParamsKeepsPast ==
  ASSUME NEW cps \in Seq(ParamsCheckpoint), NEW block \in Nat, InTime(cps, block),
         NEW after, NEW params, ParamsWritten(after, cps, block, params)
  PROVE  /\ InTime(after, block)
         /\ \A b \in Nat : b < block => ParamsAt(after, b) = ParamsAt(cps, b)
<1> DEFINE n == Len(after)
<1>1. /\ n \in Nat /\ n \in 1 .. n /\ Len(cps) \in Nat /\ after[n].fromBlock = block
      /\ \/ n = Len(cps) /\ cps[Len(cps)].fromBlock = block
         \/ n = Len(cps) + 1 /\ (cps # <<>> => cps[Len(cps)].fromBlock # block)
      /\ \A i \in 1 .. n : i # n => i \in 1 .. Len(cps) /\ after[i] = cps[i]
  BY DEF ParamsWritten
<1>2. /\ \A i \in 1 .. Len(cps) : cps[i].fromBlock \in Nat /\ cps[i].fromBlock <= block
      /\ \A i, j \in 1 .. Len(cps) : i < j => cps[i].fromBlock < cps[j].fromBlock
  BY DEF InTime, Increasing
<1> HIDE DEF n
<1>3. ASSUME NEW i \in 1 .. n, i # n
      PROVE  after[i].fromBlock < block
  <2>1. i \in 1 .. Len(cps) /\ after[i] = cps[i] /\ Len(cps) \in 1 .. Len(cps)
    BY <1>1, <1>3
  <2>2. i = Len(cps) \/ cps[i].fromBlock < cps[Len(cps)].fromBlock
    BY <1>2, <2>1
  <2>3. n = Len(cps) => i # Len(cps)
    BY <1>3
  <2>4. cps # <<>>
    BY <2>1
  <2> QED  BY <1>1, <1>2, <2>1, <2>2, <2>3, <2>4
<1>4. InTime(after, block)
  <2>1. \A i \in 1 .. n : after[i].fromBlock \in Nat /\ after[i].fromBlock <= block
    BY <1>1, <1>2
  <2>2. ASSUME NEW i \in 1 .. n, NEW j \in 1 .. n, i < j
        PROVE  after[i].fromBlock < after[j].fromBlock
    <3>1. i # n
      BY <1>1, <2>2
    <3>2. CASE j = n
      BY <1>1, <1>3, <3>1, <3>2
    <3>3. CASE j # n
      BY <1>1, <1>2, <2>2, <3>1, <3>3
    <3> QED  BY <3>2, <3>3
  <2> QED  BY <2>1, <2>2 DEF InTime, Increasing, n
<1>5. ASSUME NEW b \in Nat, b < block
      PROVE  ParamsAt(after, b) = ParamsAt(cps, b)
  <2>1. \A i \in 1 .. n : after[i].fromBlock <= b <=> i \in 1 .. Len(cps) /\ cps[i].fromBlock <= b
                                                      /\ after[i] = cps[i]
    BY <1>1, <1>5
  <2>2. \A i \in 1 .. Len(cps) : cps[i].fromBlock <= b => i \in 1 .. n /\ after[i] = cps[i]
    BY <1>1, <1>5
  <2> DEFINE early == {i \in 1 .. Len(cps) : cps[i].fromBlock <= b}
  <2>3. CASE early = {}
    <3>1. ParamsAt(cps, b) = FixedParams
      BY <1>1, <2>3, ParamsOfNone DEF InTime
    <3>2. ParamsAt(after, b) = FixedParams
      <4>1. \A i \in 1 .. Len(after) : ~(after[i].fromBlock <= b)
        BY <2>1, <2>3 DEF n
      <4> QED  BY <1>1, <1>4, <4>1, ParamsOfNone DEF InTime, n
    <3> QED  BY <3>1, <3>2
  <2>4. CASE early # {}
    <3>1. PICK i \in early : \A j \in early : j <= i
      <4>1. early \subseteq 1 .. Len(cps)
        OBVIOUS
      <4> HIDE DEF early
      <4> QED  BY <1>1, <2>4, <4>1, LastExists
    <3>2. IsLastAtOrBefore(cps, b, i)
      BY <3>1 DEF IsLastAtOrBefore
    <3>3. IsLastAtOrBefore(after, b, i) /\ after[i] = cps[i]
      BY <2>1, <2>2, <3>1 DEF IsLastAtOrBefore, n
    <3>4. ParamsAt(cps, b) = cps[i].params
      BY <1>1, <3>2, ParamsOfLast DEF InTime
    <3>5. ParamsAt(after, b) = after[i].params
      BY <1>1, <1>4, <3>3, ParamsOfLast DEF InTime, n
    <3> QED  BY <3>3, <3>4, <3>5
  <2> QED  BY <2>3, <2>4
<1> QED  BY <1>4, <1>5
=============================================================================
