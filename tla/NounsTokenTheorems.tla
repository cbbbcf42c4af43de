------------------------- MODULE NounsTokenTheorems -------------------------
(***************************************************************************)
(* NounsToken for every set of accounts, every number of nouns and every   *)
(* set of signatures: types, the immutable history of votes, and, when no  *)
(* signature names address(0), the vote bookkeeping itself.  Then its      *)
(* enumeration lists: each enumerates exactly the set it stands for.       *)
(* Last its index in the subgraph: what the token's transactions tell, and *)
(* what the handlers make of it.                                           *)
(***************************************************************************)
EXTENDS ERC721Enumerable, NounsTokenHistory, SubgraphToken, InductionTheorems

-----------------------------------------------------------------------------
(* What _writeCheckpoint and _moveDelegates return, preserve and leave     *)
(* alone, for checkpoints of any length.                                   *)

\* The latest votes of an account are a natural number.
LEMMA CurrentVotesType ==
  ASSUME NEW cps \in Seq(Checkpoint)
  PROVE  CurrentVotes(cps) \in Nat
<1>1. CASE cps = <<>>
  BY <1>1 DEF CurrentVotes
<1>2. CASE cps # <<>>
  <2>1. cps[Len(cps)] \in Checkpoint
    BY <1>2
  <2> QED  BY <1>2, <2>1 DEF CurrentVotes, Checkpoint
<1> QED  BY <1>1, <1>2

\* `after` is cps with a checkpoint added, or with the last one replaced when that
\* is of the same block; nothing else changed.
Written(after, cps, block, newVotes) ==
  /\ after \in Seq(Checkpoint)
  /\ Len(after) \in 1 .. Len(after)
  /\ after[Len(after)] = [fromBlock |-> block, votes |-> newVotes]
  /\ \/ Len(after) = Len(cps) /\ cps[Len(cps)].fromBlock = block
     \/ Len(after) = Len(cps) + 1 /\ (cps # <<>> => cps[Len(cps)].fromBlock # block)
  /\ \A i \in 1 .. Len(after) : i # Len(after) => i \in 1 .. Len(cps) /\ after[i] = cps[i]

\* That is what _writeCheckpoint does.
LEMMA WriteCheckpointShape ==
  ASSUME NEW cps \in Seq(Checkpoint), NEW block \in Nat, NEW newVotes \in Nat
  PROVE  Written(WriteCheckpoint(cps, block, newVotes), cps, block, newVotes)
<1> DEFINE after == WriteCheckpoint(cps, block, newVotes)
<1> DEFINE cp == [fromBlock |-> block, votes |-> newVotes]
<1>1. cp \in Checkpoint
  BY DEF Checkpoint
<1> HIDE DEF cp
<1> SUFFICES Written(after, cps, block, newVotes)
  OBVIOUS
<1>2. CASE cps # <<>> /\ cps[Len(cps)].fromBlock = block
  <2>1. after = [cps EXCEPT ![Len(cps)] = cp]
    BY <1>2 DEF WriteCheckpoint, cp
  <2>2. Len(cps) \in 1 .. Len(cps)
    BY <1>2
  <2>3. after \in Seq(Checkpoint) /\ Len(after) = Len(cps)
    BY <1>1, <2>1, <2>2
  <2>4. after[Len(cps)] = cp /\ \A i \in 1 .. Len(cps) : i # Len(cps) => after[i] = cps[i]
    BY <2>1, <2>2
  <2> HIDE DEF after
  <2>5. Len(after) \in 1 .. Len(after)
    BY <2>2, <2>3
  <2> QED  BY <1>2, <2>3, <2>4, <2>5 DEF Written, cp
<1>3. CASE ~(cps # <<>> /\ cps[Len(cps)].fromBlock = block)
  <2>1. after = Append(cps, cp)
    BY <1>3 DEF WriteCheckpoint, cp
  <2>2. /\ after \in Seq(Checkpoint) /\ Len(after) = Len(cps) + 1
        /\ after[Len(cps) + 1] = cp /\ \A i \in 1 .. Len(cps) : after[i] = cps[i]
    BY <1>1, <2>1
  <2> HIDE DEF after
  <2>3. Len(cps) \in Nat /\ Len(after) \in 1 .. Len(after)
    BY <2>2
  <2> QED  BY <1>3, <2>2, <2>3 DEF Written, cp
<1> QED  BY <1>2, <1>3 DEF after

\* After a write the latest votes are the written ones.
LEMMA WriteCheckpointVotes ==
  ASSUME NEW cps \in Seq(Checkpoint), NEW block \in Nat, NEW newVotes \in Nat
  PROVE  /\ WriteCheckpoint(cps, block, newVotes) \in Seq(Checkpoint)
         /\ CurrentVotes(WriteCheckpoint(cps, block, newVotes)) = newVotes
<1> DEFINE after == WriteCheckpoint(cps, block, newVotes)
<1>1. Written(after, cps, block, newVotes)
  BY WriteCheckpointShape
<1> HIDE DEF after
<1>2. after # <<>> /\ after \in Seq(Checkpoint)
  BY <1>1 DEF Written
<1>3. CurrentVotes(after) = newVotes
  BY <1>1, <1>2 DEF CurrentVotes, Written
<1> QED  BY <1>2, <1>3 DEF after

\* A write in the current block keeps checkpoints strictly ordered by block.
LEMMA WriteCheckpointOrdered ==
  ASSUME NEW cps \in Seq(Checkpoint), NEW block \in Nat, NEW newVotes \in Nat,
         Ordered(cps, block)
  PROVE  Ordered(WriteCheckpoint(cps, block, newVotes), block)
<1> DEFINE after == WriteCheckpoint(cps, block, newVotes)
           n == Len(after)
<1>0. Written(after, cps, block, newVotes)
  BY WriteCheckpointShape
<1> HIDE DEF after
<1>1. /\ after \in Seq(Checkpoint) /\ n \in Nat
      /\ after[n].fromBlock = block
      /\ \/ n = Len(cps) /\ cps[Len(cps)].fromBlock = block
         \/ n = Len(cps) + 1 /\ (cps # <<>> => cps[Len(cps)].fromBlock # block)
      /\ \A i \in 1 .. n : i # n => i \in 1 .. Len(cps) /\ after[i] = cps[i]
  BY <1>0 DEF Written
<1>2. \A i \in 1 .. Len(cps) : cps[i].fromBlock \in Nat
  <2>1. \A i \in 1 .. Len(cps) : cps[i] \in Checkpoint
    OBVIOUS
  <2> QED  BY <2>1 DEF Checkpoint
<1>3. \A i \in 1 .. n : i # n => after[i].fromBlock < block
  <2> SUFFICES ASSUME NEW i \in 1 .. n, i # n
               PROVE  cps[i].fromBlock < block
    BY <1>1
  <2>1. i \in 1 .. Len(cps)
    BY <1>1
  <2>2. CASE n = Len(cps) /\ cps[Len(cps)].fromBlock = block
    BY <1>2, <2>1, <2>2 DEF Ordered
  <2>3. CASE n = Len(cps) + 1 /\ cps[Len(cps)].fromBlock # block
    <3>1. Len(cps) \in 1 .. Len(cps)
      BY <2>1
    <3>2. cps[Len(cps)].fromBlock < block
      BY <1>2, <2>3, <3>1 DEF Ordered
    <3>3. i = Len(cps) \/ cps[i].fromBlock < cps[Len(cps)].fromBlock
      BY <2>1, <3>1 DEF Ordered
    <3> QED  BY <1>2, <2>1, <3>1, <3>2, <3>3
  <2> QED  BY <1>1, <2>1, <2>2, <2>3
<1>4. \A i \in 1 .. n : after[i].fromBlock <= block
  BY <1>1, <1>2, <1>3
<1>5. \A i, j \in 1 .. n : i < j => after[i].fromBlock < after[j].fromBlock
  <2> SUFFICES ASSUME NEW i \in 1 .. n, NEW j \in 1 .. n, i < j
               PROVE  after[i].fromBlock < after[j].fromBlock
    OBVIOUS
  <2>1. i # n
    BY <1>1
  <2>2. CASE j = n
    BY <1>1, <1>3, <2>1, <2>2
  <2>3. CASE j # n
    BY <1>1, <2>1, <2>3 DEF Ordered
  <2> QED  BY <2>2, <2>3
<1> QED  BY <1>4, <1>5 DEF Ordered, after

\* A write in the current block leaves the votes of every earlier block alone.
LEMMA WriteCheckpointHistory ==
  ASSUME NEW cps \in Seq(Checkpoint), NEW block \in Nat, NEW newVotes \in Nat,
         Ordered(cps, block), NEW b \in Nat, b < block
  PROVE  VotesAtBlock(WriteCheckpoint(cps, block, newVotes), b) = VotesAtBlock(cps, b)
<1> DEFINE after == WriteCheckpoint(cps, block, newVotes)
           past  == {i \in 1 .. Len(cps) : cps[i].fromBlock <= b}
           pastAfter == {i \in 1 .. Len(after) : after[i].fromBlock <= b}
<1>1. Written(after, cps, block, newVotes)
  BY WriteCheckpointShape
<1> HIDE DEF after
<1>2. \A i \in past : i # Len(after)
  BY <1>1 DEF Written
<1>3. pastAfter = past
  <2>1. \A i \in pastAfter : i # Len(after)
    BY <1>1 DEF Written
  <2> QED  BY <1>1, <1>2, <2>1 DEF Written
<1>4. \A i \in past : after[i] = cps[i]
  BY <1>1, <1>2 DEF Written
<1>5. CASE past = {}
  BY <1>3, <1>5 DEF VotesAtBlock, after
<1>6. CASE past # {}
  <2> DEFINE last == CHOOSE i \in past : \A j \in past : j <= i
  <2>1. \E i \in past : \A j \in past : j <= i
    <3> HIDE DEF past
    <3>1. past \subseteq 1 .. Len(cps) /\ Len(cps) \in Nat
      BY DEF past
    <3> QED  BY <1>6, <3>1, LastExists
  <2>2. last \in past
    <3> HIDE DEF past
    <3> QED  BY <2>1
  <2>3. VotesAtBlock(cps, b) = cps[last].votes
    BY <1>6 DEF VotesAtBlock
  <2>4. VotesAtBlock(after, b) = after[CHOOSE i \in pastAfter : \A j \in pastAfter : j <= i].votes
    BY <1>3, <1>6 DEF VotesAtBlock
  <2>5. VotesAtBlock(after, b) = after[last].votes
    BY <1>3, <2>4
  <2> QED  BY <1>4, <2>2, <2>3, <2>5 DEF after
<1> QED  BY <1>5, <1>6

\* _moveDelegates leaves the checkpoints of an account as they are or writes one
\* checkpoint of the current block to them.
LEMMA MoveDelegatesShape ==
  ASSUME NEW h \in Histories, NEW block \in Nat, NEW src, NEW dst, NEW amount \in Nat,
         CanMove(h, src, dst, amount)
  PROVE  /\ MoveDelegates(h, block, src, dst, amount) \in Histories
         /\ \A a \in Accounts :
              \/ MoveDelegates(h, block, src, dst, amount)[a] = h[a]
              \/ \E v \in Nat :
                   MoveDelegates(h, block, src, dst, amount)[a] = WriteCheckpoint(h[a], block, v)
<1> DEFINE after == MoveDelegates(h, block, src, dst, amount)
<1>1. \A a \in Accounts : h[a] \in Seq(Checkpoint) /\ CurrentVotes(h[a]) \in Nat
  <2>1. \A a \in Accounts : h[a] \in Seq(Checkpoint)
    BY DEF Histories
  <2> QED  BY <2>1, CurrentVotesType
<1>2. CASE src = dst \/ amount = 0
  <2>1. after = h
    BY <1>2 DEF MoveDelegates
  <2> QED  BY <2>1
<1>3. CASE src # dst /\ amount > 0
  <2>1. after = [a \in Accounts |->
                   CASE a = src -> WriteCheckpoint(h[a], block, CurrentVotes(h[a]) - amount)
                     [] a = dst -> WriteCheckpoint(h[a], block, CurrentVotes(h[a]) + amount)
                     [] OTHER   -> h[a]]
    BY <1>3 DEF MoveDelegates
  <2> HIDE DEF after
  <2>2. ASSUME NEW a \in Accounts
        PROVE  /\ after[a] \in Seq(Checkpoint)
               /\ \/ after[a] = h[a]
                  \/ \E v \in Nat : after[a] = WriteCheckpoint(h[a], block, v)
    <3>1. CASE a = src
      <4>1. CurrentVotes(h[a]) - amount \in Nat
        BY <1>1, <1>3, <3>1, ZeroAssumption DEF CanMove
      <4>2. after[a] = WriteCheckpoint(h[a], block, CurrentVotes(h[a]) - amount)
        BY <1>3, <2>1, <3>1
      <4> QED  BY <1>1, <4>1, <4>2, WriteCheckpointVotes
    <3>2. CASE a # src /\ a = dst
      <4>1. CurrentVotes(h[a]) + amount \in Nat
        BY <1>1
      <4>2. after[a] = WriteCheckpoint(h[a], block, CurrentVotes(h[a]) + amount)
        BY <2>1, <3>2
      <4> QED  BY <1>1, <4>1, <4>2, WriteCheckpointVotes
    <3>3. CASE a # src /\ a # dst
      <4>1. after[a] = h[a]
        BY <2>1, <3>3
      <4> QED  BY <1>1, <4>1
    <3> QED  BY <3>1, <3>2, <3>3
  <2>3. after \in Histories
    BY <2>1, <2>2 DEF Histories
  <2> QED  BY <2>2, <2>3 DEF after
<1> QED  BY <1>2, <1>3

\* It moves `amount` votes from src to dst and changes nobody else's.
LEMMA MoveDelegatesVotes ==
  ASSUME NEW h \in Histories, NEW block \in Nat, NEW src, NEW dst, NEW amount \in Nat,
         CanMove(h, src, dst, amount), src # dst, amount > 0, NEW a \in Accounts
  PROVE  CurrentVotes(MoveDelegates(h, block, src, dst, amount)[a])
           = IF a = src THEN CurrentVotes(h[a]) - amount
             ELSE IF a = dst THEN CurrentVotes(h[a]) + amount
             ELSE CurrentVotes(h[a])
<1> DEFINE after == MoveDelegates(h, block, src, dst, amount)
<1>1. h[a] \in Seq(Checkpoint) /\ CurrentVotes(h[a]) \in Nat
  <2>1. h[a] \in Seq(Checkpoint)
    BY DEF Histories
  <2> QED  BY <2>1, CurrentVotesType
<1>2. after[a] = CASE a = src -> WriteCheckpoint(h[a], block, CurrentVotes(h[a]) - amount)
                   [] a = dst -> WriteCheckpoint(h[a], block, CurrentVotes(h[a]) + amount)
                   [] OTHER   -> h[a]
  BY DEF MoveDelegates
<1> HIDE DEF after
<1>3. CASE a = src
  <2>1. CurrentVotes(h[a]) - amount \in Nat
    BY <1>1, <1>3, ZeroAssumption DEF CanMove
  <2>2. after[a] = WriteCheckpoint(h[a], block, CurrentVotes(h[a]) - amount)
    BY <1>2, <1>3
  <2>3. CurrentVotes(after[a]) = CurrentVotes(h[a]) - amount
    BY <1>1, <2>1, <2>2, WriteCheckpointVotes
  <2> QED  BY <1>3, <2>3 DEF after
<1>4. CASE a # src /\ a = dst
  <2>1. CurrentVotes(h[a]) + amount \in Nat
    BY <1>1
  <2>2. after[a] = WriteCheckpoint(h[a], block, CurrentVotes(h[a]) + amount)
    BY <1>2, <1>4
  <2>3. CurrentVotes(after[a]) = CurrentVotes(h[a]) + amount
    BY <1>1, <2>1, <2>2, WriteCheckpointVotes
  <2> QED  BY <1>4, <2>3 DEF after
<1>5. CASE a # src /\ a # dst
  <2>1. after[a] = h[a]
    BY <1>2, <1>5
  <2> QED  BY <1>5, <2>1 DEF after
<1> QED  BY <1>3, <1>4, <1>5

\* It keeps every account's checkpoints ordered, and the votes of every earlier
\* block as they were.
LEMMA MoveDelegatesKeepsHistory ==
  ASSUME NEW h \in Histories, NEW block \in Nat, NEW src, NEW dst, NEW amount \in Nat,
         CanMove(h, src, dst, amount), NEW a \in Accounts, Ordered(h[a], block)
  PROVE  /\ Ordered(MoveDelegates(h, block, src, dst, amount)[a], block)
         /\ \A b \in 0 .. block - 1 :
              VotesAtBlock(MoveDelegates(h, block, src, dst, amount)[a], b)
                = VotesAtBlock(h[a], b)
<1> DEFINE after == MoveDelegates(h, block, src, dst, amount)[a]
<1>1. h[a] \in Seq(Checkpoint)
  BY DEF Histories
<1>2. after = h[a] \/ \E v \in Nat : after = WriteCheckpoint(h[a], block, v)
  BY MoveDelegatesShape
<1> HIDE DEF after
<1>3. CASE after = h[a]
  BY <1>3 DEF after
<1>4. CASE \E v \in Nat : after = WriteCheckpoint(h[a], block, v)
  <2>1. PICK v \in Nat : after = WriteCheckpoint(h[a], block, v)
    BY <1>4
  <2>2. Ordered(after, block)
    BY <1>1, <2>1, WriteCheckpointOrdered
  <2>3. ASSUME NEW b \in 0 .. block - 1
        PROVE  VotesAtBlock(after, b) = VotesAtBlock(h[a], b)
    <3>1. b \in Nat /\ b < block
      OBVIOUS
    <3> QED  BY <1>1, <2>1, <3>1, WriteCheckpointHistory
  <2> QED  BY <2>2, <2>3 DEF after
<1> QED  BY <1>2, <1>3, <1>4

\* A later block does not put ordered checkpoints in the future.
LEMMA OrderedLater ==
  ASSUME NEW cps \in Seq(Checkpoint), NEW block \in Nat, Ordered(cps, block)
  PROVE  Ordered(cps, block + 1)
<1>1. \A i \in 1 .. Len(cps) : cps[i].fromBlock \in Nat
  <2>1. \A i \in 1 .. Len(cps) : cps[i] \in Checkpoint
    OBVIOUS
  <2> QED  BY <2>1 DEF Checkpoint
<1> QED  BY <1>1 DEF Ordered

-----------------------------------------------------------------------------
(* What is read back.                                                      *)

\* Ordered checkpoints are what the binary search needs.
LEMMA OrderedIncreasing ==
  ASSUME NEW cps \in Seq(Checkpoint), NEW block \in Nat, Ordered(cps, block)
  PROVE  Increasing(cps)
<1>1. \A i \in 1 .. Len(cps) : cps[i] \in Checkpoint
  OBVIOUS
<1> QED  BY <1>1 DEF Checkpoint, Ordered, Increasing

\* The votes of a block are those of the last checkpoint at or before it.
LEMMA VotesOfLast ==
  ASSUME NEW cps \in Seq(Checkpoint), NEW b, NEW i, IsLastAtOrBefore(cps, b, i)
  PROVE  VotesAtBlock(cps, b) = cps[i].votes
<1> DEFINE past == {j \in 1 .. Len(cps) : cps[j].fromBlock <= b}
<1>1. i \in past /\ \A j \in past : j <= i
  BY DEF IsLastAtOrBefore
<1>2. \A j \in past : j \in Int
  OBVIOUS
<1> HIDE DEF past
<1>3. (CHOOSE k \in past : \A j \in past : j <= k) = i
  BY <1>1, <1>2
<1> QED  BY <1>1, <1>3 DEF VotesAtBlock, past

\* getPriorVotes, with its early returns and its search, answers with the votes of
\* the last checkpoint at or before the block.
LEMMA PriorVotesFindsLast ==
  ASSUME NEW cps \in Seq(Checkpoint), NEW block \in Nat, Ordered(cps, block), NEW b \in Nat
  PROVE  PriorVotes(cps, b) = VotesAtBlock(cps, b)
<1>1. Increasing(cps) /\ Len(cps) \in Nat
  BY OrderedIncreasing
<1>2. CASE cps = <<>>
  <2>1. 1 .. Len(cps) = {}
    BY <1>2
  <2> QED  BY <1>2, <2>1 DEF PriorVotes, VotesAtBlock
<1>3. CASE cps # <<>> /\ cps[Len(cps)].fromBlock <= b
  <2>1. IsLastAtOrBefore(cps, b, Len(cps))
    BY <1>1, <1>3 DEF IsLastAtOrBefore
  <2> QED  BY <1>3, <2>1, VotesOfLast DEF PriorVotes
<1>4. CASE cps # <<>> /\ ~(cps[Len(cps)].fromBlock <= b) /\ cps[1].fromBlock > b
  <2>1. 1 \in 1 .. Len(cps)
    BY <1>4
  <2>2. ASSUME NEW j \in 1 .. Len(cps), cps[j].fromBlock <= b
        PROVE  FALSE
    <3>1. j = 1 \/ cps[1].fromBlock < cps[j].fromBlock
      BY <1>1, <2>1 DEF Increasing
    <3>2. cps[1].fromBlock \in Nat /\ cps[j].fromBlock \in Nat
      BY <1>1, <2>1 DEF Increasing
    <3> QED  BY <1>4, <2>2, <3>1, <3>2
  <2> QED  BY <1>4, <2>2 DEF PriorVotes, VotesAtBlock
<1>5. CASE cps # <<>> /\ ~(cps[Len(cps)].fromBlock <= b) /\ ~(cps[1].fromBlock > b)
  <2>1. 1 \in 1 .. Len(cps) /\ Len(cps) \in Nat \ {0}
    BY <1>5
  <2>2. cps[1].fromBlock <= b
    BY <1>1, <1>5, <2>1 DEF Increasing
  <2>3. IsLastAtOrBefore(cps, b, Search(cps, b))
    BY <1>1, <2>1, <2>2, SearchFindsLast
  <2> QED  BY <1>5, <2>3, VotesOfLast DEF PriorVotes
<1> QED  BY <1>2, <1>3, <1>4, <1>5

\* The votes of the current block are the latest ones.
LEMMA VotesNow ==
  ASSUME NEW cps \in Seq(Checkpoint), NEW block \in Nat, Ordered(cps, block)
  PROVE  VotesAtBlock(cps, block) = CurrentVotes(cps)
<1>1. CASE cps = <<>>
  <2>1. 1 .. Len(cps) = {}
    BY <1>1
  <2> QED  BY <1>1, <2>1 DEF VotesAtBlock, CurrentVotes
<1>2. CASE cps # <<>>
  <2>1. Len(cps) \in 1 .. Len(cps)
    BY <1>2
  <2>2. IsLastAtOrBefore(cps, block, Len(cps))
    BY <2>1 DEF Ordered, IsLastAtOrBefore
  <2> QED  BY <1>2, <2>2, VotesOfLast DEF CurrentVotes
<1> QED  BY <1>1, <1>2

-----------------------------------------------------------------------------
(* The token.                                                              *)

\* There are finitely many ids, so balances and votes are natural numbers.
LEMMA IdsFinite ==
  /\ IsFiniteSet(Ids)
  /\ \A S \in SUBSET Ids : IsFiniteSet(S) /\ Cardinality(S) \in Nat
<1>1. IsFiniteSet(Ids)
  BY NounsTokenAssumption, FS_Interval DEF Ids
<1> QED  BY <1>1, FS_Subset, FS_CardinalityType

\* Moving no vote on to address(0)'s behalf never underflows: address(0) has no
\* checkpoints.
LEMMA CanMoveFromZero ==
  ASSUME NEW h, NEW dst, NEW amount
  PROVE  CanMove(h, Zero, dst, amount)
BY DEF CanMove

\* What a transaction in the current block may do to the checkpoints.
HistoryKept(before, after, block) ==
  /\ after \in Histories
  /\ \A a \in Accounts : Ordered(before[a], block) =>
       /\ Ordered(after[a], block)
       /\ \A b \in 0 .. block - 1 : VotesAtBlock(after[a], b) = VotesAtBlock(before[a], b)

\* One _moveDelegates keeps the history.
LEMMA MoveKeepsHistory ==
  ASSUME NEW h \in Histories, NEW block \in Nat, NEW src, NEW dst, NEW amount \in Nat,
         CanMove(h, src, dst, amount)
  PROVE  HistoryKept(h, MoveDelegates(h, block, src, dst, amount), block)
BY MoveDelegatesShape, MoveDelegatesKeepsHistory DEF HistoryKept

\* So does the hook of a mint, whatever the recipient's delegate.
LEMMA MintHookKeepsHistory ==
  ASSUME NEW h \in Histories, blockNumber \in Nat, NEW to
  PROVE  HistoryKept(h, Hook(h, Zero, to), blockNumber)
<1>1. delegates(Zero) = Zero
  BY DEF delegates
<1> QED  BY <1>1, CanMoveFromZero, MoveKeepsHistory DEF Hook

\* Every transaction keeps the history.
LEMMA StepKeepsHistory ==
  ASSUME TypeOK, Next, blockNumber' = blockNumber
  PROVE  HistoryKept(checkpoints, checkpoints', blockNumber)
<1> USE DEF TypeOK
<1>0. HistoryKept(checkpoints, checkpoints, blockNumber)
  BY DEF HistoryKept
<1>1. CASE mint
  <2>1. CASE MintReward
    <3> DEFINE between == Hook(checkpoints, Zero, noundersDAO)
               after   == Hook(between, Zero, minter)
    <3>1. HistoryKept(checkpoints, between, blockNumber)
      BY MintHookKeepsHistory
    <3>2. checkpoints' = after
      BY <2>1 DEF MintReward
    <3> HIDE DEF between
    <3>3. between \in Histories
      BY <3>1 DEF HistoryKept
    <3>4. HistoryKept(between, after, blockNumber)
      BY <3>3, MintHookKeepsHistory
    <3> HIDE DEF after
    <3> QED  BY <3>1, <3>2, <3>4 DEF HistoryKept
  <2>2. CASE MintOne
    BY <2>2, MintHookKeepsHistory DEF MintOne
  <2> QED  BY <1>1, <2>1, <2>2 DEF mint
<1>2. ASSUME NEW id \in Ids, burn(id)
      PROVE  HistoryKept(checkpoints, checkpoints', blockNumber)
  BY <1>2, MoveKeepsHistory DEF burn, CanHook, Hook
<1>3. ASSUME NEW sender \in Accounts, NEW to \in Addresses, NEW id \in Ids,
             transferFrom(sender, owner[id], to, id)
      PROVE  HistoryKept(checkpoints, checkpoints', blockNumber)
  BY <1>3, MoveKeepsHistory DEF transferFrom, CanHook, Hook
<1>4. ASSUME NEW delegator \in Accounts, NEW delegatee \in Addresses,
             DelegateTo(delegator, delegatee)
      PROVE  HistoryKept(checkpoints, checkpoints', blockNumber)
  <2>1. balanceOf(delegator) \in Nat
    BY IdsFinite DEF balanceOf, NounsOf
  <2> QED  BY <1>4, <2>1, MoveKeepsHistory DEF DelegateTo
<1>5. ASSUME NEW sender \in Delegators, NEW delegatee \in Addresses,
             Delegate(sender, delegatee)
      PROVE  HistoryKept(checkpoints, checkpoints', blockNumber)
  <2>1. sender \in Accounts /\ sender \in Addresses
    BY NounsTokenAssumption DEF Addresses
  <2> QED  BY <1>4, <1>5, <2>1 DEF Delegate
<1>6. ASSUME NEW sig \in Signatures, delegateBySig(sig)
      PROVE  HistoryKept(checkpoints, checkpoints', blockNumber)
  <2>1. sig.signatory \in Accounts /\ sig.delegatee \in Addresses
    BY NounsTokenAssumption DEF Signature
  <2> QED  BY <1>4, <1>6, <2>1 DEF delegateBySig
<1>7. ASSUME UNCHANGED checkpoints
      PROVE  HistoryKept(checkpoints, checkpoints', blockNumber)
  BY <1>0, <1>7
<1> QED  BY <1>1, <1>2, <1>3, <1>5, <1>6, <1>7
         DEF Next, approve, setApprovalForAll, setNoundersDAO, setMinter, lockMinter, NextBlock

\* The token starts in its types.
LEMMA StartsTyped ==
  ASSUME Init
  PROVE  TypeOK
<1>1. checkpoints \in Histories
  <2>1. <<>> \in Seq(Checkpoint)
    OBVIOUS
  <2> QED  BY <2>1 DEF Init, Histories
<1>2. nonces \in [Accounts -> Nat] /\ currentNounId \in Nat /\ blockNumber \in Nat
  BY DEF Init
<1> QED  BY <1>1, <1>2, NounsTokenAssumption DEF Init, TypeOK, Addresses

\* Every step keeps the types.
LEMMA StepKeepsTypes ==
  ASSUME TypeOK, [Next]_vars
  PROVE  TypeOK'
<1> USE DEF TypeOK, ownership, delegation, admin
<1>1. ASSUME Next, blockNumber' = blockNumber
      PROVE  checkpoints' \in Histories
  BY <1>1, StepKeepsHistory DEF HistoryKept
<1>2. CASE mint
  <2>1. checkpoints' \in Histories
    BY <1>1, <1>2 DEF Next, mint, MintReward, MintOne
  <2> QED  BY <1>2, <2>1 DEF mint, MintReward, MintOne
<1>3. ASSUME NEW id \in Ids, burn(id)
      PROVE  TypeOK'
  <2>1. checkpoints' \in Histories
    BY <1>1, <1>3 DEF Next, burn
  <2> QED  BY <1>3, <2>1 DEF burn, Addresses
<1>4. ASSUME NEW sender \in Accounts, NEW to \in Addresses, NEW id \in Ids,
             transferFrom(sender, owner[id], to, id)
      PROVE  TypeOK'
  <2>1. checkpoints' \in Histories
    BY <1>1, <1>4 DEF Next, transferFrom
  <2> QED  BY <1>4, <2>1 DEF transferFrom, Addresses
<1>5. ASSUME NEW sender \in Approvers, NEW to \in Addresses, NEW id \in Ids,
             approve(sender, to, id)
      PROVE  TypeOK'
  BY <1>5 DEF approve
<1>6. ASSUME NEW sender \in Approvers, NEW operator \in Accounts, NEW allow \in BOOLEAN,
             setApprovalForAll(sender, operator, allow)
      PROVE  TypeOK'
  <2>1. <<sender, operator>> \in Accounts \X Accounts
    BY NounsTokenAssumption
  <2>2. operators' \subseteq Accounts \X Accounts
    BY <1>6, <2>1 DEF setApprovalForAll
  <2> QED  BY <1>6, <2>2 DEF setApprovalForAll
<1>7. ASSUME NEW sender \in Delegators, NEW delegatee \in Addresses,
             Delegate(sender, delegatee)
      PROVE  TypeOK'
  <2>1. checkpoints' \in Histories
    BY <1>1, <1>7 DEF Next, Delegate
  <2>2. sender \in Addresses
    BY NounsTokenAssumption DEF Addresses
  <2> QED  BY <1>7, <2>1, <2>2 DEF Delegate, DelegateTo
<1>8. ASSUME NEW sig \in Signatures, delegateBySig(sig)
      PROVE  TypeOK'
  <2>1. checkpoints' \in Histories
    BY <1>1, <1>8 DEF Next, delegateBySig
  <2>2. sig.signatory \in Accounts /\ sig.delegatee \in Addresses
    BY NounsTokenAssumption DEF Signature
  <2> QED  BY <1>8, <2>1, <2>2 DEF delegateBySig, DelegateTo
<1>9. ASSUME NEW dao \in Minters, setNoundersDAO(dao)
      PROVE  TypeOK'
  BY <1>9, NounsTokenAssumption DEF setNoundersDAO
<1>10. ASSUME NEW newMinter \in Minters, setMinter(newMinter)
       PROVE  TypeOK'
  BY <1>10, NounsTokenAssumption DEF setMinter
<1>11. CASE lockMinter
  BY <1>11 DEF lockMinter
<1>12. CASE NextBlock
  BY <1>12 DEF NextBlock
<1>13. CASE UNCHANGED vars
  BY <1>13 DEF vars
<1> QED  BY <1>2, <1>3, <1>4, <1>5, <1>6, <1>7, <1>8, <1>9, <1>10, <1>11, <1>12, <1>13
         DEF Next

\* Every variable keeps the type the contract declares for it; for the
\* checkpoints this says that sub96 never underflows in a step that is taken.
THEOREM TypeCorrect == Spec => []TypeOK
<1>1. Init => TypeOK
  BY StartsTyped
<1>2. TypeOK /\ [Next]_vars => TypeOK'
  BY StepKeepsTypes
<1> QED  BY <1>1, <1>2, PTL DEF Spec

\* A block ends only by NextBlock, which leaves the checkpoints alone.
LEMMA BlockSteps ==
  ASSUME [Next]_vars
  PROVE  \/ Next /\ blockNumber' = blockNumber
         \/ blockNumber' = blockNumber + 1 /\ checkpoints' = checkpoints
         \/ UNCHANGED vars
BY DEF Next, mint, MintReward, MintOne, burn, transferFrom, approve, setApprovalForAll,
       Delegate, delegateBySig, setNoundersDAO, setMinter, lockMinter, NextBlock

\* What the binary search of getPriorVotes relies on: in every account's
\* checkpoints the blocks increase strictly, and none is in the future.
THEOREM CheckpointsStayOrdered == Spec => []CheckpointsOrdered
<1>1. Init => CheckpointsOrdered
  <2> SUFFICES ASSUME Init, NEW a \in Accounts
               PROVE  Ordered(checkpoints[a], blockNumber)
    BY DEF CheckpointsOrdered
  <2>1. checkpoints[a] = <<>>
    BY DEF Init
  <2>2. 1 .. Len(<<>>) = {}
    OBVIOUS
  <2> QED  BY <2>1, <2>2 DEF Ordered
<1>2. TypeOK /\ CheckpointsOrdered /\ [Next]_vars => CheckpointsOrdered'
  <2> SUFFICES ASSUME TypeOK, CheckpointsOrdered, [Next]_vars, NEW a \in Accounts
               PROVE  Ordered(checkpoints[a], blockNumber)'
    BY DEF CheckpointsOrdered
  <2>0. checkpoints[a] \in Seq(Checkpoint) /\ blockNumber \in Nat
        /\ Ordered(checkpoints[a], blockNumber)
    BY DEF TypeOK, Histories, CheckpointsOrdered
  <2>1. CASE Next /\ blockNumber' = blockNumber
    BY <2>0, <2>1, StepKeepsHistory DEF HistoryKept
  <2>2. CASE blockNumber' = blockNumber + 1 /\ checkpoints' = checkpoints
    BY <2>0, <2>2, OrderedLater
  <2>3. CASE UNCHANGED vars
    BY <2>0, <2>3 DEF vars
  <2> QED  BY <2>1, <2>2, <2>3, BlockSteps
<1> QED  BY <1>1, <1>2, TypeCorrect, PTL DEF Spec

\* No transaction, of whatever kind and whoever sends it, changes the votes an
\* account had at a block that is over: what NounsDAOLogicV2 counts for a proposal
\* is fixed by the proposal's own block.
THEOREM HistoryStaysImmutable == Spec => HistoryImmutable
<1>1. TypeOK /\ CheckpointsOrdered /\ [Next]_vars =>
        [\A a \in Accounts, b \in 0 .. blockNumber - 1 :
           VotesAtBlock(checkpoints'[a], b) = VotesAtBlock(checkpoints[a], b)]_vars
  <2> SUFFICES ASSUME TypeOK, CheckpointsOrdered, [Next]_vars,
                      NEW a \in Accounts, NEW b \in 0 .. blockNumber - 1
               PROVE  VotesAtBlock(checkpoints'[a], b) = VotesAtBlock(checkpoints[a], b)
    OBVIOUS
  <2>1. CASE Next /\ blockNumber' = blockNumber
    BY <2>1, StepKeepsHistory DEF HistoryKept, CheckpointsOrdered
  <2>2. CASE checkpoints' = checkpoints
    BY <2>2
  <2> QED  BY <2>1, <2>2, BlockSteps DEF vars
<1> QED  BY <1>1, TypeCorrect, CheckpointsStayOrdered, PTL DEF Spec, HistoryImmutable

\* The search of getPriorVotes finds the votes of every finished block, however
\* many checkpoints an account has and wherever the block lies among them.
THEOREM PriorVotesAreHistory == Spec => []PriorVotesIsHistory
<1>1. ASSUME TypeOK, CheckpointsOrdered
      PROVE  PriorVotesIsHistory
  <2> SUFFICES ASSUME NEW a \in Accounts, NEW b \in 0 .. blockNumber - 1
               PROVE  PriorVotes(checkpoints[a], b) = VotesAtBlock(checkpoints[a], b)
    BY DEF PriorVotesIsHistory
  <2>1. checkpoints[a] \in Seq(Checkpoint) /\ Ordered(checkpoints[a], blockNumber)
    BY <1>1 DEF TypeOK, Histories, CheckpointsOrdered
  <2>2. b \in Nat /\ blockNumber \in Nat
    BY <1>1 DEF TypeOK
  <2> QED  BY <2>1, <2>2, PriorVotesFindsLast
<1> QED  BY <1>1, TypeCorrect, CheckpointsStayOrdered, PTL

-----------------------------------------------------------------------------
(* The vote bookkeeping: owners and delegates determine the votes.         *)

\* delegates, for any map of delegates.
Representative(dlg, a) == IF a = Zero \/ dlg[a] = Zero THEN a ELSE dlg[a]

\* The nouns whose votes belong to d.
Voters(own, dlg, d) == {id \in Ids : Representative(dlg, own[id]) = d}

\* Every account has exactly the votes of the nouns it represents.
Balanced(h, own, dlg) ==
  \A d \in Accounts : CurrentVotes(h[d]) = Cardinality(Voters(own, dlg, d))

\* That is what the invariant says of the current owners and delegates.
LEMMA BalancedIsVotesMatch ==
  ASSUME owner \in [Ids -> Addresses]
  PROVE  /\ VotesMatchDelegations <=> Balanced(checkpoints, owner, delegate)
         /\ \A a : delegates(a) = Representative(delegate, a)
<1>1. \A a : delegates(a) = Representative(delegate, a)
  BY DEF delegates, Representative
<1>2. ASSUME NEW d \in Accounts
      PROVE  VotersFor(d) = Voters(owner, delegate, d)
  <2>1. \A id \in Ids : ~Exists(id) => delegates(owner[id]) # d
    BY ZeroAssumption DEF Exists, delegates
  <2> QED  BY <1>1, <2>1 DEF VotersFor, Voters
<1> QED  BY <1>1, <1>2 DEF VotesMatchDelegations, Balanced

\* Giving one noun to another holder (a transfer, a mint to `to`, or a burn to
\* address(0)) together with the hook's move of one vote keeps the books balanced.
LEMMA OneNounMoves ==
  ASSUME NEW h \in Histories, NEW block \in Nat, NEW own \in [Ids -> Addresses], NEW dlg,
         NEW id \in Ids, NEW to \in Addresses, Balanced(h, own, dlg),
         CanMove(h, Representative(dlg, own[id]), Representative(dlg, to), 1)
  PROVE  Balanced(MoveDelegates(h, block, Representative(dlg, own[id]),
                                Representative(dlg, to), 1),
                  [own EXCEPT ![id] = to], dlg)
<1> DEFINE src   == Representative(dlg, own[id])
           dst   == Representative(dlg, to)
           after == MoveDelegates(h, block, src, dst, 1)
           new   == [own EXCEPT ![id] = to]
<1> SUFFICES ASSUME NEW d \in Accounts
             PROVE  CurrentVotes(after[d]) = Cardinality(Voters(new, dlg, d))
  BY DEF Balanced
<1> DEFINE before == Voters(own, dlg, d)
<1>1. IsFiniteSet(before) /\ Cardinality(before) \in Nat /\ CurrentVotes(h[d]) = Cardinality(before)
  BY IdsFinite DEF Balanced, Voters
<1>2. \A i \in Ids : new[i] = IF i = id THEN to ELSE own[i]
  OBVIOUS
<1> HIDE DEF new
<1>3. CASE src = dst
  <2>1. after = h
    BY <1>3 DEF MoveDelegates
  <2>2. Voters(new, dlg, d) = before
    BY <1>2, <1>3 DEF Voters
  <2> QED  BY <1>1, <2>1, <2>2
<1>4. CASE src # dst
  <2>1. CurrentVotes(after[d]) = IF d = src THEN CurrentVotes(h[d]) - 1
                                 ELSE IF d = dst THEN CurrentVotes(h[d]) + 1
                                 ELSE CurrentVotes(h[d])
    BY <1>4, MoveDelegatesVotes
  <2> HIDE DEF after
  <2>2. CASE d = src
    <3>1. Voters(new, dlg, d) = before \ {id} /\ id \in before
      BY <1>2, <1>4, <2>2 DEF Voters
    <3> HIDE DEF before, src, dst
    <3> QED  BY <1>1, <2>1, <2>2, <3>1, FS_RemoveElement
  <2>3. CASE d # src /\ d = dst
    <3>1. Voters(new, dlg, d) = before \cup {id} /\ id \notin before
      BY <1>2, <1>4, <2>3 DEF Voters
    <3> HIDE DEF before, src, dst
    <3>2. Cardinality(before \cup {id}) = Cardinality(before) + 1
      BY ONLY <1>1, <3>1, FS_AddElement
    <3> QED  BY <1>1, <2>1, <2>3, <3>1, <3>2
  <2>4. CASE d # src /\ d # dst
    <3>1. Voters(new, dlg, d) = before
      BY <1>2, <2>4 DEF Voters
    <3> QED  BY <1>1, <2>1, <2>4, <3>1
  <2> QED  BY <2>2, <2>3, <2>4
<1> QED  BY <1>3, <1>4

\* Changing one account's delegate together with the move of as many votes as it
\* holds nouns keeps the books balanced, unless the new delegate is address(0).
LEMMA Redelegation ==
  ASSUME NEW h \in Histories, NEW block \in Nat, NEW own \in [Ids -> Addresses],
         NEW dlg \in [Accounts -> Addresses], NEW a \in Accounts, NEW dst \in Accounts,
         Balanced(h, own, dlg),
         CanMove(h, Representative(dlg, a), dst, Cardinality({id \in Ids : own[id] = a}))
  PROVE  Balanced(MoveDelegates(h, block, Representative(dlg, a), dst,
                                Cardinality({id \in Ids : own[id] = a})),
                  own, [dlg EXCEPT ![a] = dst])
<1> DEFINE src    == Representative(dlg, a)
           nouns  == {id \in Ids : own[id] = a}
           amount == Cardinality(nouns)
           after  == MoveDelegates(h, block, src, dst, amount)
           new    == [dlg EXCEPT ![a] = dst]
<1> SUFFICES ASSUME NEW d \in Accounts
             PROVE  CurrentVotes(after[d]) = Cardinality(Voters(own, new, d))
  BY DEF Balanced
<1> DEFINE before == Voters(own, dlg, d)
<1>1. IsFiniteSet(before) /\ Cardinality(before) \in Nat /\ CurrentVotes(h[d]) = Cardinality(before)
  BY IdsFinite DEF Balanced, Voters
<1>2. IsFiniteSet(nouns) /\ amount \in Nat
  BY IdsFinite
<1>3. \A i \in Ids : Representative(new, own[i]) = IF i \in nouns THEN dst
                                                   ELSE Representative(dlg, own[i])
  BY ZeroAssumption DEF Representative, Addresses
<1>4. \A i \in nouns : Representative(dlg, own[i]) = src
  OBVIOUS
<1> HIDE DEF new, src
<1>5. CASE src = dst \/ amount = 0
  <2>1. after = h
    BY <1>5 DEF MoveDelegates
  <2>2. src = dst \/ nouns = {}
    <3> HIDE DEF nouns
    <3> QED  BY <1>2, <1>5, FS_EmptySet
  <2>3. Voters(own, new, d) = before
    <3> HIDE DEF nouns
    <3> QED  BY <1>3, <1>4, <2>2 DEF Voters
  <2> QED  BY <1>1, <2>1, <2>3
<1>6. CASE src # dst /\ amount > 0
  <2>1. CurrentVotes(after[d]) = IF d = src THEN CurrentVotes(h[d]) - amount
                                 ELSE IF d = dst THEN CurrentVotes(h[d]) + amount
                                 ELSE CurrentVotes(h[d])
    <3>1. CanMove(h, src, dst, amount)
      BY DEF src
    <3> HIDE DEF amount
    <3> QED  BY <1>2, <1>6, <3>1, MoveDelegatesVotes
  <2>2. nouns \subseteq Ids
    OBVIOUS
  <2> HIDE DEF after, nouns
  <2>3. CASE d = src
    <3>1. Voters(own, new, d) = before \ nouns /\ before \cap nouns = nouns
      BY <1>3, <1>4, <1>6, <2>2, <2>3 DEF Voters
    <3> HIDE DEF before
    <3>2. Cardinality(before \ nouns) = Cardinality(before) - Cardinality(before \cap nouns)
      BY <1>1, FS_Difference, Zenon
    <3>3. Cardinality(before \ nouns) = Cardinality(before) - amount
      BY <3>1, <3>2, Zenon
    <3> QED  BY <1>1, <2>1, <2>3, <3>1, <3>3
  <2>4. CASE d # src /\ d = dst
    <3>1. Voters(own, new, d) = before \cup nouns /\ before \cap nouns = {}
      BY <1>3, <1>4, <1>6, <2>2, <2>4 DEF Voters
    <3> HIDE DEF before
    <3>2. Cardinality(before \cup nouns)
            = Cardinality(before) + amount - Cardinality(before \cap nouns)
      BY <1>1, <1>2, FS_Union, Zenon
    <3>3. Cardinality(before \cap nouns) = 0
      BY <3>1, FS_EmptySet, Zenon
    <3>4. Cardinality(before \cup nouns) = Cardinality(before) + amount
      BY <1>1, <1>2, <3>2, <3>3
    <3> QED  BY <1>1, <2>1, <2>4, <3>1, <3>4
  <2>5. CASE d # src /\ d # dst
    <3>1. Voters(own, new, d) = before
      BY <1>3, <1>4, <2>5 DEF Voters
    <3> QED  BY <1>1, <2>1, <2>5, <3>1
  <2> QED  BY <2>3, <2>4, <2>5
<1> QED  BY <1>2, <1>5, <1>6

\* No signature delegates to address(0), as delegateBySig would let it.
SignaturesNameADelegate == \A sig \in Signatures : sig.delegatee # Zero

\* Ids that mint has not reached have no owner, so a mint takes no noun away.
UnmintedUnowned == \A id \in Ids : id >= currentNounId => owner[id] = Zero

\* Everything the bookkeeping needs to stay balanced.
VotesInv == TypeOK /\ UnmintedUnowned /\ VotesMatchDelegations

\* One mint to `to` keeps the books balanced when nobody owns the id.
LEMMA MintKeepsBalance ==
  ASSUME NEW h \in Histories, NEW own \in [Ids -> Addresses], NEW id \in Ids,
         NEW to \in Addresses, own[id] = Zero, blockNumber \in Nat,
         owner \in [Ids -> Addresses], Balanced(h, own, delegate)
  PROVE  /\ Balanced(Hook(h, Zero, to), [own EXCEPT ![id] = to], delegate)
         /\ Hook(h, Zero, to) \in Histories
<1>1. \A a : delegates(a) = Representative(delegate, a)
  BY BalancedIsVotesMatch
<1>2. Representative(delegate, Zero) = Zero
  BY DEF Representative
<1>3. CanMove(h, Zero, Representative(delegate, to), 1)
  BY CanMoveFromZero
<1>4. Hook(h, Zero, to) = MoveDelegates(h, blockNumber, Zero, Representative(delegate, to), 1)
  BY <1>1, <1>2 DEF Hook
<1>5. Hook(h, Zero, to) \in Histories
  BY <1>3, <1>4, MoveDelegatesShape
<1>6. Balanced(Hook(h, Zero, to), [own EXCEPT ![id] = to], delegate)
  BY <1>2, <1>3, <1>4, OneNounMoves
<1> QED  BY <1>5, <1>6

\* Every transaction keeps the books balanced, delegateBySig where no signature names
\* address(0).
LEMMA StepKeepsVotes ==
  ASSUME SignaturesNameADelegate \/ UNCHANGED nonces, VotesInv, TypeOK', [Next]_vars
  PROVE  VotesMatchDelegations'
<1> USE DEF VotesInv
<1>1. owner \in [Ids -> Addresses] /\ delegate \in [Accounts -> Addresses]
      /\ checkpoints \in Histories /\ blockNumber \in Nat
  BY DEF TypeOK
<1>2. Balanced(checkpoints, owner, delegate)
      /\ \A a : delegates(a) = Representative(delegate, a)
  BY <1>1, BalancedIsVotesMatch
<1>3. owner' \in [Ids -> Addresses]
  BY DEF TypeOK
<1> SUFFICES Balanced(checkpoints', owner', delegate')
  <2>1. ASSUME NEW d \in Accounts
        PROVE  VotersFor(d)' = Voters(owner', delegate', d)
    BY ZeroAssumption DEF VotersFor, Voters, Exists, delegates, Representative
  <2> QED  BY <2>1 DEF VotesMatchDelegations, Balanced
<1>4. CASE MintReward
  <2> DEFINE between == Hook(checkpoints, Zero, noundersDAO)
             own     == [owner EXCEPT ![currentNounId] = noundersDAO]
  <2>0. currentNounId \in Nat /\ noundersDAO \in Addresses /\ minter \in Addresses
    BY DEF TypeOK
  <2>1. /\ currentNounId \in Ids /\ currentNounId + 1 \in Ids
        /\ currentNounId + 1 # currentNounId
        /\ noundersDAO \in Addresses /\ minter \in Addresses
        /\ owner[currentNounId] = Zero /\ owner[currentNounId + 1] = Zero
    <3>1. currentNounId + 1 \in Ids
      BY <1>4 DEF MintReward
    <3>2. currentNounId \in Ids
      BY <2>0, <3>1, NounsTokenAssumption DEF Ids
    <3> QED  BY <2>0, <3>1, <3>2 DEF UnmintedUnowned
  <2>2. Balanced(between, own, delegate) /\ between \in Histories
    BY <1>1, <1>2, <2>1, MintKeepsBalance
  <2>3. own \in [Ids -> Addresses] /\ own[currentNounId + 1] = Zero
    BY <1>1, <2>1
  <2>4. owner' = [own EXCEPT ![currentNounId + 1] = minter]
        /\ checkpoints' = Hook(between, Zero, minter) /\ delegate' = delegate
    BY <1>1, <1>4, <2>1 DEF MintReward, delegation
  <2> HIDE DEF between, own
  <2> QED  BY <1>1, <2>1, <2>2, <2>3, <2>4, MintKeepsBalance
<1>5. CASE MintOne
  <2>1. currentNounId \in Ids /\ minter \in Addresses /\ owner[currentNounId] = Zero
    BY <1>5 DEF MintOne, TypeOK, Ids, UnmintedUnowned
  <2>2. owner' = [owner EXCEPT ![currentNounId] = minter]
        /\ checkpoints' = Hook(checkpoints, Zero, minter) /\ delegate' = delegate
    BY <1>5 DEF MintOne, delegation
  <2> QED  BY <1>1, <1>2, <2>1, <2>2, MintKeepsBalance
<1>6. ASSUME NEW id \in Ids, NEW to \in Addresses, CanHook(owner[id], to),
             owner' = [owner EXCEPT ![id] = to], delegate' = delegate,
             checkpoints' = Hook(checkpoints, owner[id], to)
      PROVE  Balanced(checkpoints', owner', delegate')
  BY <1>1, <1>2, <1>6, OneNounMoves DEF CanHook, Hook
<1>7. ASSUME NEW id \in Ids, burn(id)
      PROVE  Balanced(checkpoints', owner', delegate')
  BY <1>6, <1>7 DEF burn, delegation, Addresses
<1>8. ASSUME NEW sender \in Accounts, NEW to \in Addresses, NEW id \in Ids,
             transferFrom(sender, owner[id], to, id)
      PROVE  Balanced(checkpoints', owner', delegate')
  BY <1>6, <1>8 DEF transferFrom, delegation
<1>9. ASSUME NEW a \in Accounts, NEW dst \in Accounts, DelegateTo(a, dst), owner' = owner
      PROVE  Balanced(checkpoints', owner', delegate')
  BY <1>1, <1>2, <1>9, Redelegation DEF DelegateTo, balanceOf, NounsOf
<1>10. ASSUME NEW sender \in Delegators, NEW delegatee \in Addresses,
              Delegate(sender, delegatee)
       PROVE  Balanced(checkpoints', owner', delegate')
  <2> DEFINE dst == IF delegatee = Zero THEN sender ELSE delegatee
  <2>1. sender \in Accounts /\ dst \in Accounts
    BY NounsTokenAssumption DEF Addresses
  <2>2. DelegateTo(sender, dst) /\ owner' = owner
    BY <1>10 DEF Delegate, ownership
  <2> HIDE DEF dst
  <2> QED  BY <1>9, <2>1, <2>2
<1>11. ASSUME NEW sig \in Signatures, delegateBySig(sig)
       PROVE  Balanced(checkpoints', owner', delegate')
  <2>0. nonces' # nonces
    BY <1>11, NounsTokenAssumption DEF delegateBySig, TypeOK, Signature
  <2>1. sig.signatory \in Accounts /\ sig.delegatee \in Accounts
    BY <2>0, NounsTokenAssumption DEF Signature, Addresses, SignaturesNameADelegate
  <2> QED  BY <1>9, <1>11, <2>1 DEF delegateBySig, ownership
<1>12. ASSUME UNCHANGED <<owner, delegate, checkpoints>>
       PROVE  Balanced(checkpoints', owner', delegate')
  BY <1>2, <1>12
<1> QED  BY <1>4, <1>5, <1>7, <1>8, <1>10, <1>11, <1>12
         DEF Next, mint, approve, setApprovalForAll, setNoundersDAO, setMinter,
             lockMinter, NextBlock, ownership, delegation, vars

\* The counter of mint stays ahead of every owned id.
LEMMA StepKeepsUnminted ==
  ASSUME TypeOK, UnmintedUnowned, [Next]_vars
  PROVE  UnmintedUnowned'
<1> SUFFICES ASSUME NEW i \in Ids, i >= currentNounId'
             PROVE  owner'[i] = Zero
  BY DEF UnmintedUnowned
<1> USE DEF ownership
<1>0. owner \in [Ids -> Addresses] /\ currentNounId \in Nat /\ i \in Nat
  BY DEF TypeOK, Ids
<1>1. CASE mint
  BY <1>0, <1>1 DEF mint, MintReward, MintOne, UnmintedUnowned
<1>2. ASSUME NEW id \in Ids, burn(id)
      PROVE  owner'[i] = Zero
  BY <1>0, <1>2 DEF burn, UnmintedUnowned
<1>3. ASSUME NEW sender \in Accounts, NEW to \in Addresses, NEW id \in Ids,
             transferFrom(sender, owner[id], to, id)
      PROVE  owner'[i] = Zero
  BY <1>0, <1>3 DEF transferFrom, isApprovedOrOwner, Exists, UnmintedUnowned
<1>4. ASSUME UNCHANGED <<owner, currentNounId>>
      PROVE  owner'[i] = Zero
  BY <1>4 DEF UnmintedUnowned
<1> QED  BY <1>1, <1>2, <1>3, <1>4
         DEF Next, approve, setApprovalForAll, Delegate, delegateBySig, setNoundersDAO,
             setMinter, lockMinter, NextBlock, vars

\* No noun, no vote.
LEMMA StartsBalanced ==
  ASSUME Init
  PROVE  UnmintedUnowned /\ VotesMatchDelegations
<1>1. UnmintedUnowned
  BY DEF Init, UnmintedUnowned
<1>2. ASSUME NEW d \in Accounts
      PROVE  CurrentVotes(checkpoints[d]) = Cardinality(VotersFor(d))
  <2>1. VotersFor(d) = {} /\ CurrentVotes(checkpoints[d]) = 0
    BY DEF Init, VotersFor, Exists, CurrentVotes
  <2> QED  BY <2>1, FS_EmptySet
<1> QED  BY <1>1, <1>2 DEF VotesMatchDelegations

\* Mints, burns, transfers and delegations in any order, by any accounts and in
\* any blocks, neither lose a vote nor count one twice: the latest checkpoint of
\* an account is the number of nouns whose holders it represents.  A signature
\* that names address(0) is excluded: delegateBySig then takes the votes away
\* while delegates() still returns the signatory.
THEOREM VotesAlwaysMatch ==
  ASSUME SignaturesNameADelegate
  PROVE  Spec => []VotesMatchDelegations
<1>1. Init => UnmintedUnowned /\ VotesMatchDelegations
  BY StartsBalanced
<1>2. TypeOK /\ UnmintedUnowned /\ VotesMatchDelegations /\ TypeOK' /\ [Next]_vars
        => UnmintedUnowned' /\ VotesMatchDelegations'
  BY StepKeepsVotes, StepKeepsUnminted DEF VotesInv
<1> QED  BY <1>1, <1>2, TypeCorrect, PTL DEF Spec

\* Hence the underflow check of sub96 reverts nobody's transfer, burn or
\* delegation: whoever holds a noun can always move it and its vote.
THEOREM BookkeepingNeverBlocks ==
  ASSUME SignaturesNameADelegate
  PROVE  Spec => []BookkeepingNeverReverts
<1>1. TypeOK /\ VotesMatchDelegations => BookkeepingNeverReverts
  <2> SUFFICES ASSUME TypeOK, VotesMatchDelegations
               PROVE  BookkeepingNeverReverts
    OBVIOUS
  <2>1. ASSUME NEW d \in Accounts, NEW S, S \subseteq VotersFor(d)
        PROVE  CurrentVotes(checkpoints[d]) >= Cardinality(S)
    <3>1. VotersFor(d) \in SUBSET Ids
      BY DEF VotersFor
    <3>2. IsFiniteSet(VotersFor(d)) /\ Cardinality(VotersFor(d)) \in Nat
      BY <3>1, IdsFinite
    <3>3. Cardinality(S) <= Cardinality(VotersFor(d))
      BY <2>1, <3>2, FS_Subset
    <3>4. Cardinality(S) \in Nat
      BY <2>1, <3>1, IdsFinite
    <3>5. CurrentVotes(checkpoints[d]) = Cardinality(VotersFor(d))
      BY DEF VotesMatchDelegations
    <3> QED  BY <3>2, <3>3, <3>4, <3>5
  <2>2. \A a \in Accounts : delegates(a) \in Accounts
    BY DEF delegates, TypeOK, Addresses
  <2>3. ASSUME NEW id \in Ids, NEW to \in Addresses, Exists(id)
        PROVE  CanHook(owner[id], to)
    <3>1. owner[id] \in Accounts
      BY <2>3 DEF TypeOK, Exists, Addresses
    <3>2. {id} \subseteq VotersFor(delegates(owner[id]))
      BY <2>3 DEF VotersFor
    <3>3. Cardinality({id}) = 1
      BY FS_Singleton
    <3>4. CurrentVotes(checkpoints[delegates(owner[id])]) >= Cardinality({id})
      BY <2>1, <2>2, <3>1, <3>2
    <3> QED  BY <3>3, <3>4 DEF CanHook, CanMove
  <2>4. ASSUME NEW a \in Accounts, NEW d \in Accounts
        PROVE  CanMove(checkpoints, delegates(a), d, balanceOf(a))
    <3>1. NounsOf(a) \subseteq VotersFor(delegates(a))
      BY ZeroAssumption DEF NounsOf, VotersFor, Exists
    <3>2. CurrentVotes(checkpoints[delegates(a)]) >= Cardinality(NounsOf(a))
      BY <2>1, <2>2, <3>1
    <3> QED  BY <3>2 DEF CanMove, balanceOf
  <2> QED  BY <2>3, <2>4 DEF BookkeepingNeverReverts
<1> QED  BY <1>1, TypeCorrect, VotesAlwaysMatch, PTL

-----------------------------------------------------------------------------
(* Approvals and ids.                                                      *)

\* Only a noun that exists has an account approved for it.
ApprovalsInv == \A id \in Ids : approved[id] # Zero => Exists(id)

\* Every transaction that takes a noun from its holder clears its approval.
LEMMA StepClearsApprovals ==
  ASSUME TypeOK, UnmintedUnowned, ApprovalsInv, [Next]_vars, NEW i \in Ids
  PROVE  /\ owner'[i] # owner[i] => approved'[i] = Zero
         /\ approved'[i] \notin {Zero, approved[i]} =>
              Exists(i) /\ owner'[i] = owner[i] /\ approved'[i] # owner[i]
         /\ approved'[i] # Zero => owner'[i] # Zero
<1> DEFINE Goal ==
      /\ owner'[i] # owner[i] => approved'[i] = Zero
      /\ approved'[i] \notin {Zero, approved[i]} =>
           owner[i] # Zero /\ owner'[i] = owner[i] /\ approved'[i] # owner[i]
      /\ approved'[i] # Zero => owner'[i] # Zero
<1>0. /\ currentNounId \in Nat /\ owner \in [Ids -> Addresses]
      /\ approved \in [Ids -> Addresses] /\ i \in Nat
      /\ approved[i] # Zero => owner[i] # Zero
      /\ i >= currentNounId => owner[i] = Zero
  BY DEF TypeOK, Ids, UnmintedUnowned, ApprovalsInv, Exists
<1> SUFFICES Goal
  BY DEF Exists
<1>1. CASE mint
  <2>1. approved' = approved
    BY <1>1 DEF mint, MintReward, MintOne
  <2>2. owner'[i] # owner[i] => i >= currentNounId /\ owner'[i] # Zero
    BY <1>0, <1>1 DEF mint, MintReward, MintOne
  <2>3. owner'[i] # owner[i] => approved[i] = Zero
    BY <1>0, <2>2
  <2> QED  BY <1>0, <2>1, <2>2, <2>3
<1>2. ASSUME NEW id \in Ids, burn(id)
      PROVE  Goal
  BY <1>0, <1>2 DEF burn
<1>3. ASSUME NEW sender \in Accounts, NEW to \in Addresses, NEW id \in Ids,
             transferFrom(sender, owner[id], to, id)
      PROVE  Goal
  BY <1>0, <1>3 DEF transferFrom
<1>4. ASSUME NEW sender \in Approvers, NEW to \in Addresses, NEW id \in Ids,
             approve(sender, to, id)
      PROVE  Goal
  BY <1>0, <1>4 DEF approve, Exists
<1>5. CASE UNCHANGED ownership
  BY <1>0, <1>5 DEF ownership
<1>6. CASE \/ \E sender \in Approvers, operator \in Accounts, allow \in BOOLEAN :
               setApprovalForAll(sender, operator, allow)
           \/ \E sender \in Delegators, delegatee \in Addresses : Delegate(sender, delegatee)
           \/ \E sig \in Signatures : delegateBySig(sig)
           \/ \E dao \in Minters : setNoundersDAO(dao)
           \/ \E newMinter \in Minters : setMinter(newMinter)
           \/ lockMinter \/ NextBlock \/ UNCHANGED vars
  <2>1. UNCHANGED ownership
    BY <1>6 DEF setApprovalForAll, Delegate, delegateBySig, setNoundersDAO, setMinter,
                lockMinter, NextBlock, ownership, vars
  <2> QED  BY <1>5, <2>1
<1> HIDE DEF Goal
<1> QED  BY <1>1, <1>2, <1>3, <1>4, <1>6 DEF Next

\* No approval outlives the ownership it was given under: whoever sells, burns,
\* approves or mints, a noun that leaves its holder leaves with nobody approved for
\* it, and its next holder begins without.
THEOREM ApprovalsDieWithOwnership == Spec => NoStaleApproval
<1>1. Init => UnmintedUnowned /\ ApprovalsInv
  BY DEF Init, UnmintedUnowned, ApprovalsInv
<1>2. TypeOK /\ UnmintedUnowned /\ ApprovalsInv /\ [Next]_vars => ApprovalsInv'
  BY StepClearsApprovals DEF ApprovalsInv, Exists
<1>3. TypeOK /\ UnmintedUnowned /\ [Next]_vars => UnmintedUnowned'
  BY StepKeepsUnminted
<1>4. TypeOK /\ UnmintedUnowned /\ ApprovalsInv /\ [Next]_vars =>
        [\A id \in Ids :
           /\ owner'[id] # owner[id] => approved'[id] = Zero
           /\ approved'[id] \notin {Zero, approved[id]} =>
                Exists(id) /\ owner'[id] = owner[id] /\ approved'[id] # owner[id]]_vars
  BY StepClearsApprovals
<1> QED  BY <1>1, <1>2, <1>3, <1>4, TypeCorrect, PTL DEF Spec, NoStaleApproval

\* No id is ever handed out twice, a burned noun does not come back, and every
\* new one goes where the reward rule says, however the minter, the nounders DAO
\* and the holders change in between.  (With a step of one the noun minted beside a
\* reward would be due as a reward, too.)
THEOREM IdsGoOnceToTheRightHolder ==
  ASSUME RewardStep > 1
  PROVE  Spec => FreshIdsToTheRightHolder
<1> DEFINE Fresh ==
      \A id \in Ids : ~Exists(id) /\ owner'[id] # Zero =>
        /\ id >= currentNounId /\ id < currentNounId'
        /\ owner'[id] = IF id % RewardStep = 0 /\ id <= LastReward
                           THEN noundersDAO ELSE minter
<1>1. ASSUME TypeOK, [Next]_vars
      PROVE  Fresh
  <2> SUFFICES ASSUME NEW i \in Ids, owner[i] = Zero, owner'[i] # Zero
               PROVE  /\ i >= currentNounId /\ i < currentNounId'
                      /\ owner'[i] = IF i % RewardStep = 0 /\ i <= LastReward
                                        THEN noundersDAO ELSE minter
    BY DEF Exists
  <2>0. currentNounId \in Nat /\ owner \in [Ids -> Addresses] /\ i \in Nat
    BY <1>1 DEF TypeOK, Ids
  <2>1. CASE MintReward
    <3>1. i \in {currentNounId, currentNounId + 1}
      BY <2>0, <2>1 DEF MintReward
    <3>2. (currentNounId + 1) % RewardStep # 0
      BY <2>0, <2>1, AfterAMultiple, NounsTokenAssumption DEF MintReward, RewardDue
    <3> QED  BY <2>0, <2>1, <3>1, <3>2 DEF MintReward, RewardDue
  <2>2. CASE MintOne
    <3>1. i = currentNounId
      BY <2>0, <2>2 DEF MintOne
    <3> QED  BY <2>0, <2>2, <3>1 DEF MintOne, RewardDue
  <2>3. ~(\E id \in Ids : burn(id))
    BY <2>0 DEF burn
  <2>4. ~(\E sender \in Accounts, to \in Addresses, id \in Ids :
            transferFrom(sender, owner[id], to, id))
    BY <2>0 DEF transferFrom, isApprovedOrOwner, Exists
  <2>5. ~UNCHANGED owner
    BY <2>0
  <2> QED  BY <1>1, <2>1, <2>2, <2>3, <2>4, <2>5
           DEF Next, mint, approve, setApprovalForAll, Delegate, delegateBySig, setNoundersDAO,
               setMinter, lockMinter, NextBlock, ownership, vars
<1> QED  BY <1>1, TypeCorrect, PTL DEF Spec, FreshIdsToTheRightHolder

-----------------------------------------------------------------------------
(* What the governor relies on the token for.                              *)

\* What the last vote of a block leaves is what getPriorVotes answers for it later.
LEMMA BlockBecomesPast ==
  ASSUME TypeOK, CheckpointsOrdered, NEW a \in Accounts
  PROVE  /\ PriorVotes(checkpoints[a], blockNumber) = CurrentVotes(checkpoints[a])
         /\ VotesAtBlock(checkpoints[a], blockNumber) = CurrentVotes(checkpoints[a])
<1>1. checkpoints[a] \in Seq(Checkpoint) /\ Ordered(checkpoints[a], blockNumber)
      /\ blockNumber \in Nat
  BY DEF TypeOK, Histories, CheckpointsOrdered
<1> QED  BY <1>1, PriorVotesFindsLast, VotesNow

\* When every vote is one noun's, an account has at most as many as there are ids.
LEMMA VotesBounded ==
  ASSUME TypeOK, VotesMatchDelegations, NEW a \in Accounts
  PROVE  CurrentVotes(checkpoints[a]) \in 0 .. MaxNouns
<1>1. VotersFor(a) \in SUBSET Ids
  BY DEF VotersFor
<1>2. Cardinality(Ids) = MaxNouns
  <2>1. MaxNouns \in Nat
    BY NounsTokenAssumption
  <2>2. CASE MaxNouns = 0
    <3>1. Ids = {}
      BY <2>2 DEF Ids
    <3> QED  BY <2>2, <3>1, FS_EmptySet
  <2>3. CASE MaxNouns # 0
    BY <2>1, <2>3, FS_Interval DEF Ids
  <2> QED  BY <2>2, <2>3
<1>3. Cardinality(VotersFor(a)) <= MaxNouns
  BY <1>1, <1>2, IdsFinite, FS_Subset
<1>4. Cardinality(VotersFor(a)) \in Nat /\ MaxNouns \in Nat
  BY <1>1, IdsFinite, NounsTokenAssumption
<1> QED  BY <1>3, <1>4 DEF VotesMatchDelegations

\* The token implements the ledger the governor counts votes with: transactions
\* move votes within the current block only, and when a block ends its votes become
\* what getPriorVotes answers for it, for good.
THEOREM TokenImplementsLedger ==
  ASSUME SignaturesNameADelegate
  PROVE  Spec => ImplementsVoteLedger
<1> DEFINE votes == [a \in Accounts |-> CurrentVotes(checkpoints[a])]
           past  == [b \in 0 .. blockNumber - 1 |->
                       [a \in Accounts |-> PriorVotes(checkpoints[a], b)]]
           Inv   == /\ TypeOK /\ CheckpointsOrdered /\ PriorVotesIsHistory
                    /\ VotesMatchDelegations
<1>1. TypeOK /\ VotesMatchDelegations => votes \in [Accounts -> 0 .. MaxNouns]
  BY VotesBounded
<1>2. (TypeOK /\ VotesMatchDelegations => votes \in [Accounts -> 0 .. MaxNouns])'
  BY <1>1, PTL
<1>3. ASSUME Init
      PROVE  Ledger!LedgerInit
  <2>1. blockNumber = 1 /\ \A a \in Accounts : checkpoints[a] = <<>>
    BY <1>3 DEF Init
  <2>2. \A a \in Accounts : votes[a] = 0 /\ PriorVotes(checkpoints[a], 0) = 0
    BY <2>1 DEF CurrentVotes, PriorVotes
  <2>3. votes \in [Accounts -> 0 .. MaxNouns]
    BY <2>2, NounsTokenAssumption
  <2>4. 0 .. blockNumber - 1 = {0}
    BY <2>1
  <2>5. past = [b \in {0} |-> votes]
    BY <2>2, <2>4
  <2> QED  BY <2>1, <2>3, <2>5 DEF Ledger!LedgerInit
<1>4. ASSUME Inv, Inv', [Next]_vars
      PROVE  [Ledger!LedgerNext]_(Ledger!ledger)
  <2>1. votes' \in [Accounts -> 0 .. MaxNouns]
    BY <1>4, <1>2
  <2>2. CASE Next /\ blockNumber' = blockNumber
    <3>1. ASSUME NEW a \in Accounts, NEW b \in 0 .. blockNumber - 1
          PROVE  PriorVotes(checkpoints'[a], b) = PriorVotes(checkpoints[a], b)
      <4>1. PriorVotes(checkpoints[a], b) = VotesAtBlock(checkpoints[a], b)
        BY <1>4 DEF PriorVotesIsHistory
      <4>2. PriorVotes(checkpoints'[a], b) = VotesAtBlock(checkpoints'[a], b)
        BY <1>4, <2>2 DEF PriorVotesIsHistory
      <4>3. VotesAtBlock(checkpoints'[a], b) = VotesAtBlock(checkpoints[a], b)
        BY <1>4, <2>2, StepKeepsHistory DEF HistoryKept, CheckpointsOrdered
      <4> QED  BY <4>1, <4>2, <4>3
    <3>2. past' = past
      BY <2>2, <3>1
    <3> QED  BY <2>1, <2>2, <3>2 DEF Ledger!LedgerNext, Ledger!VotesChange
  <2>3. CASE blockNumber' = blockNumber + 1 /\ checkpoints' = checkpoints
    <3>1. blockNumber \in Nat
      BY <1>4 DEF TypeOK
    <3>2. \A a \in Accounts : PriorVotes(checkpoints[a], blockNumber) = votes[a]
      BY <1>4, BlockBecomesPast
    <3>3. 0 .. blockNumber' - 1 = 0 .. blockNumber
      BY <2>3, <3>1
    <3>4. ASSUME NEW b \in 0 .. blockNumber
          PROVE  [a \in Accounts |-> PriorVotes(checkpoints[a], b)]
                   = IF b = blockNumber THEN votes ELSE past[b]
      BY <3>1, <3>2
    <3>5. past' = [b \in 0 .. blockNumber |-> IF b = blockNumber THEN votes ELSE past[b]]
      BY <2>3, <3>3, <3>4
    <3> QED  BY <2>3, <3>5 DEF Ledger!LedgerNext, Ledger!BlockEnds
  <2>4. CASE UNCHANGED vars
    BY <2>4 DEF vars, Ledger!ledger
  <2> QED  BY <1>4, <2>2, <2>3, <2>4, BlockSteps
<1>5. Init /\ [][Next]_vars => []Inv
  BY TypeCorrect, CheckpointsStayOrdered, PriorVotesAreHistory, VotesAlwaysMatch, PTL DEF Spec
<1>6. Inv /\ Inv' /\ [Next]_vars => [Ledger!LedgerNext]_(Ledger!ledger)
  BY <1>4
<1> HIDE DEF Inv
<1> QED  BY <1>3, <1>5, <1>6, PTL DEF Spec, ImplementsVoteLedger, Ledger!LedgerSpec

-----------------------------------------------------------------------------
(* The supply of every finished block.                                     *)

VotesOfBlock(b) == [a \in Accounts |-> VotesAtBlock(checkpoints[a], b)]

\* There is a supply for every block that is over, and the votes add up to it.
SupplyInv ==
  /\ supplyAt \in Seq(Nat) /\ Len(supplyAt) = blockNumber - 1
  /\ \A b \in 1 .. Len(supplyAt) : SumFunction(VotesOfBlock(b)) = supplyAt[b]

\* Now, all votes are all nouns: every noun has a holder and every holder a delegate.
LEMMA VotesAddUpNow ==
  ASSUME TypeOK, VotesMatchDelegations
  PROVE  /\ SumFunction([a \in Accounts |-> CurrentVotes(checkpoints[a])]) = nounSupply
         /\ nounSupply \in Nat
<1> DEFINE voter == [id \in Ids |-> IF Exists(id) THEN delegates(owner[id]) ELSE Zero]
           votes == [a \in Accounts |-> CurrentVotes(checkpoints[a])]
<1>1. ASSUME NEW a \in Accounts
      PROVE  votes[a] = Cardinality(InverseImage(Ids, voter, {a}))
  <2>1. VotersFor(a) = InverseImage(Ids, voter, {a})
    BY ZeroAssumption DEF VotersFor, InverseImage
  <2> QED  BY <2>1 DEF VotesMatchDelegations
<1>2. InverseImage(Ids, voter, Accounts) = {id \in Ids : Exists(id)}
  <2>1. \A id \in Ids : Exists(id) => delegates(owner[id]) \in Accounts
    BY DEF TypeOK, Exists, delegates, Addresses
  <2> QED  BY <2>1, ZeroAssumption DEF InverseImage
<1>3. DOMAIN votes = Accounts
  OBVIOUS
<1> HIDE DEF voter, votes
<1>4. SumFunctionOnSet(votes, Accounts) = Cardinality(InverseImage(Ids, voter, Accounts))
  <2>1. IsFiniteSet(Ids)
    BY IdsFinite
  <2> QED  BY <1>1, <2>1, SumOfFibres, NounsTokenAssumption
<1>5. nounSupply \in Nat
  BY IdsFinite DEF nounSupply
<1> QED  BY <1>2, <1>3, <1>4, <1>5 DEF SumFunction, nounSupply, votes

\* A transaction leaves the votes of finished blocks alone, and the end of a block
\* adds the supply that its votes add up to.
LEMMA StepKeepsSupply ==
  ASSUME TypeOK, CheckpointsOrdered, VotesMatchDelegations, SupplyInv,
         [HistoryNext]_historyVars
  PROVE  SupplyInv'
<1>0. blockNumber \in Nat /\ [Next]_vars
  BY DEF TypeOK, HistoryNext, historyVars
<1>1. CASE Next /\ blockNumber' = blockNumber
  <2>1. supplyAt' = supplyAt
    BY <1>1 DEF HistoryNext, historyVars
  <2>2. ASSUME NEW b \in 1 .. Len(supplyAt)
        PROVE  VotesOfBlock(b)' = VotesOfBlock(b)
    <3>1. b \in 0 .. blockNumber - 1
      BY <1>0 DEF SupplyInv
    <3>2. \A a \in Accounts :
            VotesAtBlock(checkpoints'[a], b) = VotesAtBlock(checkpoints[a], b)
      BY <1>1, <3>1, StepKeepsHistory DEF HistoryKept, CheckpointsOrdered
    <3> QED  BY <3>2 DEF VotesOfBlock
  <2> QED  BY <1>1, <2>1, <2>2 DEF SupplyInv
<1>2. CASE blockNumber' = blockNumber + 1 /\ checkpoints' = checkpoints
  <2>1. supplyAt' = Append(supplyAt, nounSupply)
    BY <1>0, <1>2 DEF HistoryNext, historyVars, vars
  <2>2. /\ SumFunction([a \in Accounts |-> CurrentVotes(checkpoints[a])]) = nounSupply
        /\ nounSupply \in Nat
    BY VotesAddUpNow
  <2>3. SumFunction(VotesOfBlock(blockNumber)) = nounSupply
    <3>1. VotesOfBlock(blockNumber) = [a \in Accounts |-> CurrentVotes(checkpoints[a])]
      BY BlockBecomesPast DEF VotesOfBlock
    <3> QED  BY <2>2, <3>1
  <2>4. \A b : VotesOfBlock(b)' = VotesOfBlock(b)
    BY <1>2 DEF VotesOfBlock
  <2> HIDE DEF nounSupply
  <2>5. /\ supplyAt' \in Seq(Nat) /\ Len(supplyAt') = blockNumber
        /\ supplyAt'[blockNumber] = nounSupply
        /\ \A b \in 1 .. Len(supplyAt) : supplyAt'[b] = supplyAt[b]
    BY <1>0, <2>1, <2>2 DEF SupplyInv
  <2>6. ASSUME NEW b \in 1 .. blockNumber
        PROVE  SumFunction(VotesOfBlock(b)) = supplyAt'[b]
    <3>1. b = blockNumber \/ b \in 1 .. Len(supplyAt)
      BY <1>0 DEF SupplyInv
    <3> QED  BY <2>3, <2>5, <3>1 DEF SupplyInv
  <2>7. Len(supplyAt') = blockNumber' - 1
    BY <1>0, <1>2, <2>5
  <2>8. \A b \in 1 .. Len(supplyAt') : SumFunction(VotesOfBlock(b)') = supplyAt'[b]
    BY <2>4, <2>5, <2>6
  <2> QED  BY <2>5, <2>7, <2>8 DEF SupplyInv
<1>3. CASE UNCHANGED vars
  <2>1. UNCHANGED <<checkpoints, blockNumber>>
    BY <1>3 DEF vars
  <2>2. supplyAt' = supplyAt
    BY <2>1 DEF HistoryNext, historyVars
  <2> QED  BY <2>1, <2>2 DEF SupplyInv, VotesOfBlock
<1> QED  BY <1>0, <1>1, <1>2, <1>3, BlockSteps

\* At the end of every block the votes of all accounts add up to the supply of that
\* block, and later transactions do not change what they add up to: no proposal is
\* ever decided with more votes, or fewer, than there were nouns.
THEOREM PastVotesAlwaysAddUp ==
  ASSUME SignaturesNameADelegate
  PROVE  HistorySpec => []PastVotesAddUpToSupply
<1>1. HistoryInit /\ [][HistoryNext]_historyVars => Init /\ [][Next]_vars
  <2>1. HistoryInit => Init
    BY DEF HistoryInit
  <2>2. [HistoryNext]_historyVars => [Next]_vars
    BY DEF HistoryNext, historyVars
  <2> QED  BY <2>1, <2>2, PTL
<1>2. HistoryInit => SupplyInv
  <2> SUFFICES ASSUME HistoryInit
               PROVE  SupplyInv
    OBVIOUS
  <2>1. supplyAt = <<>> /\ blockNumber = 1
    BY DEF HistoryInit, Init
  <2>2. Len(supplyAt) = 0 /\ 1 .. Len(supplyAt) = {} /\ supplyAt \in Seq(Nat)
    BY <2>1
  <2> QED  BY <2>1, <2>2 DEF SupplyInv
<1>3. TypeOK /\ CheckpointsOrdered /\ VotesMatchDelegations /\ SupplyInv
        /\ [HistoryNext]_historyVars => SupplyInv'
  BY StepKeepsSupply
<1>4. ASSUME TypeOK, PriorVotesIsHistory, SupplyInv
      PROVE  PastVotesAddUpToSupply
  <2> SUFFICES ASSUME NEW b \in DOMAIN supplyAt
               PROVE  SumFunction([a \in Accounts |-> PriorVotes(checkpoints[a], b)]) = supplyAt[b]
    BY DEF PastVotesAddUpToSupply
  <2>1. b \in 1 .. Len(supplyAt) /\ b \in 0 .. blockNumber - 1
    BY <1>4 DEF SupplyInv, TypeOK
  <2>2. [a \in Accounts |-> PriorVotes(checkpoints[a], b)] = VotesOfBlock(b)
    BY <1>4, <2>1 DEF PriorVotesIsHistory, VotesOfBlock
  <2> QED  BY <1>4, <2>1, <2>2 DEF SupplyInv
<1> QED  BY <1>1, <1>2, <1>3, <1>4, TypeCorrect, CheckpointsStayOrdered, PriorVotesAreHistory,
            VotesAlwaysMatch, PTL DEF HistorySpec, Spec

\* Every accepted signature was accepted in its time, and its nonce is used up.
SignatureInv ==
  /\ accepted \in Seq([sig : Signatures, at : Nat])
  /\ \A i \in 1 .. Len(accepted) :
       /\ accepted[i].sig.nonce < nonces[accepted[i].sig.signatory]
       /\ accepted[i].at <= accepted[i].sig.expiry
  /\ \A i, j \in 1 .. Len(accepted) :
       accepted[i].sig.signatory = accepted[j].sig.signatory
         /\ accepted[i].sig.nonce = accepted[j].sig.nonce => i = j

\* A signature that is accepted is the first for its nonce and uses the nonce up.
LEMMA AcceptingKeepsSignatures ==
  ASSUME TypeOK, SignatureInv, NEW sig \in Signatures, delegateBySig(sig),
         accepted' = Append(accepted, [sig |-> sig, at |-> blockNumber])
  PROVE  SignatureInv'
<1> DEFINE entry == [sig |-> sig, at |-> blockNumber]
           n == Len(accepted)
           Entries == [sig : Signatures, at : Nat]
<1>1. /\ nonces \in [Accounts -> Nat] /\ blockNumber \in Nat
      /\ sig.signatory \in Accounts /\ sig.nonce \in Nat /\ sig.expiry \in Nat
      /\ sig.nonce = nonces[sig.signatory] /\ blockNumber <= sig.expiry
      /\ nonces' = [nonces EXCEPT ![sig.signatory] = @ + 1]
  BY NounsTokenAssumption DEF TypeOK, Signature, delegateBySig
<1>2. /\ accepted \in Seq(Entries) /\ n \in Nat
      /\ entry \in Entries
      /\ entry.sig = sig /\ entry.at = blockNumber
  BY <1>1 DEF SignatureInv
<1> HIDE DEF entry
<1>3. accepted' = Append(accepted, entry)
  BY DEF entry
<1>4. /\ accepted' \in Seq(Entries) /\ Len(accepted') = n + 1
      /\ accepted'[n + 1] = entry
      /\ \A i \in 1 .. n : accepted[i] \in Entries /\ accepted'[i] = accepted[i]
  <2> HIDE DEF Entries
  <2> QED  BY <1>2, <1>3
<1>5. \A i \in 1 .. n :
        /\ accepted[i].sig \in Signatures
        /\ accepted[i].sig.signatory \in Accounts /\ accepted[i].sig.nonce \in Nat
        /\ accepted[i].sig.nonce < nonces[accepted[i].sig.signatory]
        /\ accepted[i].at <= accepted[i].sig.expiry
  <2>1. \A i \in 1 .. n : accepted[i] \in Entries
    BY <1>4
  <2>2. \A s \in Signatures : s.signatory \in Accounts /\ s.nonce \in Nat
    BY NounsTokenAssumption DEF Signature
  <2>3. \A i \in 1 .. n : /\ accepted[i].sig.nonce < nonces[accepted[i].sig.signatory]
                          /\ accepted[i].at <= accepted[i].sig.expiry
    BY DEF SignatureInv
  <2>4. \A i \in 1 .. n : accepted[i].sig \in Signatures
    BY <2>1
  <2> QED  BY <2>2, <2>3, <2>4
<1>6. \A a \in Accounts : nonces'[a] = IF a = sig.signatory THEN nonces[a] + 1 ELSE nonces[a]
  BY <1>1
<1>7. \A i \in 1 .. Len(accepted') : i = n + 1 \/ i \in 1 .. n
  BY <1>2, <1>4
<1> HIDE DEF n
<1>8. ASSUME NEW i \in 1 .. Len(accepted')
      PROVE  /\ accepted'[i].sig.nonce < nonces'[accepted'[i].sig.signatory]
             /\ accepted'[i].at <= accepted'[i].sig.expiry
  <2>1. CASE i = n + 1
    BY <1>1, <1>2, <1>4, <1>6, <2>1
  <2>2. CASE i \in 1 .. n
    BY <1>1, <1>4, <1>5, <1>6, <2>2
  <2> QED  BY <1>7, <2>1, <2>2
<1>9. ASSUME NEW i \in 1 .. Len(accepted'), NEW j \in 1 .. Len(accepted'),
             accepted'[i].sig.signatory = accepted'[j].sig.signatory,
             accepted'[i].sig.nonce = accepted'[j].sig.nonce
      PROVE  i = j
  <2>1. \A k \in 1 .. n : ~(accepted[k].sig.signatory = sig.signatory
                              /\ accepted[k].sig.nonce = sig.nonce)
    BY <1>1, <1>5
  <2>2. CASE i \in 1 .. n /\ j \in 1 .. n
    BY <1>4, <1>9, <2>2 DEF SignatureInv, n
  <2>3. CASE i = n + 1 \/ j = n + 1
    BY <1>2, <1>4, <1>7, <1>9, <2>1, <2>3
  <2> QED  BY <1>7, <2>2, <2>3
<1> QED  BY <1>4, <1>8, <1>9 DEF SignatureInv

\* A delegation that was signed counts at most once and in its time, for any
\* signatures, however they are ordered, repeated or mixed with direct delegations.
THEOREM SignaturesAlwaysCountOnce == HistorySpec => []SignatureCountsOnce
<1>1. HistoryInit /\ [][HistoryNext]_historyVars => Init /\ [][Next]_vars
  <2>1. HistoryInit => Init
    BY DEF HistoryInit
  <2>2. [HistoryNext]_historyVars => [Next]_vars
    BY DEF HistoryNext, historyVars
  <2> QED  BY <2>1, <2>2, PTL
<1>2. HistoryInit => SignatureInv
  BY DEF HistoryInit, SignatureInv
<1>3. ASSUME TypeOK, SignatureInv, [HistoryNext]_historyVars
      PROVE  SignatureInv'
  <2>1. ASSUME UNCHANGED <<nonces, accepted>>
        PROVE  SignatureInv'
    BY <1>3, <2>1 DEF SignatureInv
  <2>2. CASE UNCHANGED historyVars
    BY <2>1, <2>2 DEF historyVars, vars
  <2>3. CASE HistoryNext
    <3>1. CASE \E sig \in Signatures : delegateBySig(sig)
                  /\ accepted' = Append(accepted, [sig |-> sig, at |-> blockNumber])
      BY <1>3, <3>1, AcceptingKeepsSignatures
    <3>2. CASE ~(\E sig \in Signatures : delegateBySig(sig)) /\ accepted' = accepted
      <4>1. nonces' = nonces
        BY <2>3, <3>2
           DEF HistoryNext, Next, mint, MintReward, MintOne, burn, transferFrom, approve,
               setApprovalForAll, Delegate, setNoundersDAO, setMinter, lockMinter,
               NextBlock, delegation
      <4> QED  BY <2>1, <3>2, <4>1
    <3> QED  BY <2>3, <3>1, <3>2 DEF HistoryNext
  <2> QED  BY <1>3, <2>2, <2>3
<1>4. SignatureInv => SignatureCountsOnce
  <2> SUFFICES ASSUME SignatureInv
               PROVE  SignatureCountsOnce
    OBVIOUS
  <2>1. DOMAIN accepted = 1 .. Len(accepted)
    BY DEF SignatureInv
  <2> QED  BY <2>1 DEF SignatureInv, SignatureCountsOnce
<1>5. TypeOK /\ SignatureInv /\ [HistoryNext]_historyVars => SignatureInv'
  BY <1>3
<1> QED  BY <1>1, <1>2, <1>4, <1>5, TypeCorrect, PTL DEF HistorySpec, Spec

-----------------------------------------------------------------------------
(* The enumeration.  The invariant says of every list that it and its index *)
(* are inverse to each other on the set it enumerates; lemmas say how an    *)
(* insertion and a swap-and-pop removal keep that, and the proof of a       *)
(* transaction chains them in the order of the hook.                        *)

\* The first n slots and the index are inverse to each other on S, and the
\* slots behind them are empty.
Lists(slots, index, S, n) ==
  /\ \A i \in 0 .. n - 1 : slots[i] \in S /\ index[slots[i]] = i
  /\ \A x \in S : index[x] \in 0 .. n - 1 /\ slots[index[x]] = x
  /\ \A i \in Ids : i >= n => slots[i] = 0

\* The same for an array, whose slots are counted from 1 here.
ArrayLists(array, index, S) ==
  /\ \A i \in 1 .. Len(array) : array[i] \in S /\ index[array[i]] = i - 1
  /\ \A x \in S : index[x] \in 0 .. Len(array) - 1 /\ array[index[x] + 1] = x

\* A noun is appended at the first free slot.
LEMMA InsertKeepsLists ==
  ASSUME NEW slots \in [Ids -> Ids], NEW index \in [Ids -> Ids], NEW S \in SUBSET Ids,
         NEW n \in Ids, NEW x \in Ids \ S, Lists(slots, index, S, n)
  PROVE  Lists([slots EXCEPT ![n] = x], [index EXCEPT ![x] = n], S \cup {x}, n + 1)
<1> DEFINE newSlots == [slots EXCEPT ![n] = x]
           newIndex == [index EXCEPT ![x] = n]
<1>1. \A i \in Ids : newSlots[i] = IF i = n THEN x ELSE slots[i]
  OBVIOUS
<1>2. \A y \in Ids : newIndex[y] = IF y = x THEN n ELSE index[y]
  OBVIOUS
<1>3. n \in Nat /\ 0 .. n \subseteq Ids
  BY NounsTokenAssumption DEF Ids
<1> HIDE DEF newSlots, newIndex
<1>4. ASSUME NEW i \in 0 .. n
      PROVE  newSlots[i] \in S \cup {x} /\ newIndex[newSlots[i]] = i
  <2>1. CASE i = n
    BY <1>1, <1>2, <2>1
  <2>2. CASE i # n
    <3>1. i \in 0 .. n - 1
      BY <1>3, <1>4, <2>2
    <3>2. slots[i] \in S /\ index[slots[i]] = i
      BY <3>1 DEF Lists
    <3> QED  BY <1>1, <1>2, <1>3, <2>2, <3>2
  <2> QED  BY <2>1, <2>2
<1>5. ASSUME NEW y \in S \cup {x}
      PROVE  newIndex[y] \in 0 .. n /\ newSlots[newIndex[y]] = y
  <2>1. CASE y = x
    BY <1>1, <1>2, <1>3, <2>1
  <2>2. CASE y # x
    <3>1. index[y] \in 0 .. n - 1 /\ slots[index[y]] = y /\ y \in Ids
      BY <1>5, <2>2 DEF Lists
    <3> QED  BY <1>1, <1>2, <1>3, <2>2, <3>1
  <2> QED  BY <2>1, <2>2
<1>6. \A i \in Ids : i >= n + 1 => newSlots[i] = 0
  <2>1. \A i \in Ids : i >= n + 1 => i >= n /\ i # n
    BY <1>3 DEF Ids
  <2> QED  BY <1>1, <2>1 DEF Lists
<1>7. (n + 1) - 1 = n
  BY <1>3
<1>8. Lists(newSlots, newIndex, S \cup {x}, n + 1)
  BY <1>4, <1>5, <1>6, <1>7 DEF Lists
<1> QED  BY <1>8 DEF newSlots, newIndex

\* The index of a noun that is not in the list does not matter to it.
LEMMA OtherIndexKeepsLists ==
  ASSUME NEW slots \in [Ids -> Ids], NEW index \in [Ids -> Ids], NEW S \in SUBSET Ids,
         NEW n \in Nat, NEW x \in Ids \ S, NEW k, Lists(slots, index, S, n)
  PROVE  Lists(slots, [index EXCEPT ![x] = k], S, n)
BY NounsTokenAssumption DEF Lists, Ids

\* Swap and pop: the last noun takes the slot of the removed one, unless they
\* are the same, and both entries of the end of the list are deleted.
LEMMA RemoveKeepsLists ==
  ASSUME NEW slots \in [Ids -> Ids], NEW index \in [Ids -> Ids], NEW S \in SUBSET Ids,
         NEW n \in Nat, NEW x \in S, Lists(slots, index, S, n)
  PROVE  LET last   == n - 1
             slot   == index[x]
             moved  == slots[last]
             slots1 == IF slot = last THEN slots ELSE [slots EXCEPT ![slot] = moved]
             index1 == IF slot = last THEN index ELSE [index EXCEPT ![moved] = slot]
         IN  Lists([slots1 EXCEPT ![last] = 0], [index1 EXCEPT ![x] = 0], S \ {x}, n - 1)
<1> DEFINE last   == n - 1
           slot   == index[x]
           moved  == slots[last]
<1>1. x \in Ids /\ slot \in 0 .. last /\ slots[slot] = x /\ last \in 0 .. n - 1
  BY DEF Lists
<1>2. slot \in Ids /\ last \in Nat
  BY <1>1
<1>3. moved \in S /\ index[moved] = last
  BY <1>1 DEF Lists
<1>4. last \in Ids
  BY <1>3
<1>5. CASE slot = last
  <2> DEFINE newSlots == [slots EXCEPT ![last] = 0]
             newIndex == [index EXCEPT ![x] = 0]
  <2>1. \A i \in Ids : newSlots[i] = IF i = last THEN 0 ELSE slots[i]
    BY <1>4
  <2>2. \A y \in Ids : newIndex[y] = IF y = x THEN 0 ELSE index[y]
    BY <1>1
  <2> HIDE DEF newSlots, newIndex
  <2>3. ASSUME NEW i \in 0 .. last - 1
        PROVE  newSlots[i] \in S \ {x} /\ newIndex[newSlots[i]] = i
    <3>1. i \in Ids /\ i # last /\ i \in 0 .. n - 1
      BY <1>4, <2>3, NounsTokenAssumption DEF Ids
    <3>2. slots[i] \in S /\ index[slots[i]] = i /\ slots[i] # x
      BY <1>5, <3>1 DEF Lists
    <3> QED  BY <2>1, <2>2, <3>1, <3>2
  <2>4. ASSUME NEW y \in S \ {x}
        PROVE  newIndex[y] \in 0 .. last - 1 /\ newSlots[newIndex[y]] = y
    <3>1. index[y] \in 0 .. n - 1 /\ slots[index[y]] = y /\ y \in Ids /\ index[y] \in Ids
      BY <2>4 DEF Lists
    <3>2. index[y] # last
      BY <1>1, <1>5, <2>4, <3>1
    <3> QED  BY <2>1, <2>2, <2>4, <3>1, <3>2
  <2>5. \A i \in Ids : i >= last => newSlots[i] = 0
    <3>1. \A i \in Ids : i >= n => slots[i] = 0
      BY DEF Lists
    <3> QED  BY <1>1, <2>1, <3>1 DEF Ids
  <2>6. Lists(newSlots, newIndex, S \ {x}, n - 1)
    BY <2>3, <2>4, <2>5 DEF Lists
  <2> QED  BY <1>5, <2>6 DEF newSlots, newIndex
<1>6. CASE slot # last
  <2> DEFINE newSlots == [[slots EXCEPT ![slot] = moved] EXCEPT ![last] = 0]
             newIndex == [[index EXCEPT ![moved] = slot] EXCEPT ![x] = 0]
  <2>1. \A i \in Ids : newSlots[i] = IF i = last THEN 0 ELSE IF i = slot THEN moved ELSE slots[i]
    BY <1>2, <1>4
  <2>2. \A y \in Ids : newIndex[y] = IF y = x THEN 0 ELSE IF y = moved THEN slot ELSE index[y]
    BY <1>1, <1>3
  <2>3. moved # x
    BY <1>1, <1>3, <1>6
  <2> HIDE DEF newSlots, newIndex
  <2>4. ASSUME NEW i \in 0 .. last - 1
        PROVE  newSlots[i] \in S \ {x} /\ newIndex[newSlots[i]] = i
    <3>1. i \in Ids /\ i # last /\ i \in 0 .. n - 1
      BY <1>4, <2>4, NounsTokenAssumption DEF Ids
    <3>2. slots[i] \in S /\ index[slots[i]] = i
      BY <3>1 DEF Lists
    <3>3. i = slot \/ (slots[i] # x /\ slots[i] # moved)
      BY <1>3, <3>1, <3>2
    <3>4. moved \in Ids
      BY <1>3
    <3> HIDE DEF last, slot, moved
    <3> QED  BY <1>3, <2>1, <2>2, <2>3, <3>1, <3>2, <3>3, <3>4
  <2>5. ASSUME NEW y \in S \ {x}
        PROVE  newIndex[y] \in 0 .. last - 1 /\ newSlots[newIndex[y]] = y
    <3>1. index[y] \in 0 .. n - 1 /\ slots[index[y]] = y /\ y \in Ids /\ index[y] \in Ids
      BY <2>5 DEF Lists
    <3>2. CASE y = moved
      BY <1>1, <1>2, <1>6, <2>1, <2>2, <2>3, <3>2
    <3>3. CASE y # moved
      <4>1. index[y] # last /\ index[y] # slot
        BY <1>1, <2>5, <3>1, <3>3
      <4> QED  BY <2>1, <2>2, <2>5, <3>1, <3>3, <4>1
    <3> QED  BY <3>2, <3>3
  <2>6. \A i \in Ids : i >= last => newSlots[i] = 0
    <3>1. \A i \in Ids : i >= n => slots[i] = 0
      BY DEF Lists
    <3> QED  BY <1>1, <2>1, <3>1 DEF Ids
  <2>7. Lists(newSlots, newIndex, S \ {x}, n - 1)
    BY <2>4, <2>5, <2>6 DEF Lists
  <2> QED  BY <1>6, <2>7 DEF newSlots, newIndex
<1> QED  BY <1>5, <1>6

\* push, on the array of all nouns.
LEMMA PushKeepsArray ==
  ASSUME NEW array \in Seq(Ids), NEW index \in [Ids -> Ids], NEW S \in SUBSET Ids,
         NEW x \in Ids \ S, ArrayLists(array, index, S)
  PROVE  ArrayLists(Append(array, x), [index EXCEPT ![x] = Len(array)], S \cup {x})
<1> DEFINE new == Append(array, x)
<1>1. Len(array) \in Nat /\ Len(new) = Len(array) + 1
  OBVIOUS
<1>2. \A i \in 1 .. Len(new) : new[i] = IF i = Len(array) + 1 THEN x ELSE array[i]
  OBVIOUS
<1> HIDE DEF new
<1> QED  BY <1>1, <1>2 DEF ArrayLists

\* Swap and pop, on the array of all nouns: the swap is unconditional, and the
\* index is deleted after it.
LEMMA PopKeepsArray ==
  ASSUME NEW array \in Seq(Ids), NEW index \in [Ids -> Ids], NEW S \in SUBSET Ids,
         NEW x \in S, ArrayLists(array, index, S)
  PROVE  LET slot   == index[x]
             moved  == array[Len(array)]
             array1 == [array EXCEPT ![slot + 1] = moved]
             index1 == [index EXCEPT ![moved] = slot]
         IN  ArrayLists(SubSeq(array1, 1, Len(array) - 1), [index1 EXCEPT ![x] = 0], S \ {x})
<1> DEFINE slot     == index[x]
           last     == Len(array)
           moved    == array[last]
           newArray == SubSeq([array EXCEPT ![slot + 1] = moved], 1, last - 1)
           newIndex == [[index EXCEPT ![moved] = slot] EXCEPT ![x] = 0]
<1>1. last \in Nat /\ slot \in 0 .. last - 1 /\ array[slot + 1] = x /\ x \in Ids
  BY DEF ArrayLists
<1>2. moved \in S /\ index[moved] = last - 1
  BY <1>1 DEF ArrayLists
<1>3. Len(newArray) = last - 1
      /\ \A i \in 1 .. last - 1 : newArray[i] = IF i = slot + 1 THEN moved ELSE array[i]
  <2>1. [array EXCEPT ![slot + 1] = moved] \in Seq(Ids)
        /\ Len([array EXCEPT ![slot + 1] = moved]) = last
    BY <1>1, <1>2
  <2> QED  BY <1>1, <2>1
<1>4. \A y \in Ids : newIndex[y] = IF y = x THEN 0 ELSE IF y = moved THEN slot ELSE index[y]
  BY <1>1, <1>2
<1> HIDE DEF newArray, newIndex
<1>5. ASSUME NEW i \in 1 .. last - 1
      PROVE  newArray[i] \in S \ {x} /\ newIndex[newArray[i]] = i - 1
  <2>1. array[i] \in S /\ index[array[i]] = i - 1
    BY <1>1, <1>5 DEF ArrayLists
  <2>2. CASE i = slot + 1
    <3>1. moved # x
      BY <1>1, <1>2, <1>5, <2>2
    <3>2. newArray[i] = moved /\ moved \in Ids
      BY <1>2, <1>3, <1>5, <2>2
    <3>3. newIndex[moved] = i - 1
      BY <1>1, <1>4, <2>2, <3>1, <3>2
    <3> HIDE DEF moved
    <3> QED  BY <1>2, <3>1, <3>2, <3>3
  <2>3. CASE i # slot + 1
    <3>1. array[i] # x /\ array[i] # moved
      BY <1>1, <1>2, <1>5, <2>1, <2>3
    <3>2. newArray[i] = array[i] /\ array[i] \in Ids
      BY <1>3, <1>5, <2>1, <2>3
    <3> HIDE DEF slot, last, moved
    <3>3. newIndex[array[i]] = index[array[i]]
      BY <1>4, <3>1, <3>2
    <3> QED  BY <2>1, <3>1, <3>2, <3>3
  <2> QED  BY <2>2, <2>3
<1>6. ASSUME NEW y \in S \ {x}
      PROVE  newIndex[y] \in 0 .. last - 2 /\ newArray[newIndex[y] + 1] = y
  <2>1. index[y] \in 0 .. last - 1 /\ array[index[y] + 1] = y /\ y \in Ids
    BY <1>6 DEF ArrayLists
  <2>2. CASE y = moved
    <3>1. slot # last - 1
      BY <1>1, <1>6, <2>2
    <3> QED  BY <1>1, <1>3, <1>4, <1>6, <2>2, <3>1
  <2>3. CASE y # moved
    <3>1. index[y] # last - 1 /\ index[y] # slot
      BY <1>1, <1>6, <2>1, <2>3
    <3> HIDE DEF slot, moved
    <3> QED  BY <1>1, <1>3, <1>4, <1>6, <2>1, <2>3, <3>1
  <2> QED  BY <2>2, <2>3
<1>7. ArrayLists(newArray, newIndex, S \ {x})
  BY <1>1, <1>3, <1>5, <1>6 DEF ArrayLists
<1> QED  BY <1>7 DEF newArray, newIndex

-----------------------------------------------------------------------------
(* The lists of a token whose owners are own.                               *)

Holds(own, a) == {id \in Ids : own[id] = a}
Minted(own) == {id \in Ids : own[id] # Zero}

OwnersListed(l, own) ==
  /\ \A a \in Accounts :
       Lists(l.owned[a], l.ownedIndex, Holds(own, a), Cardinality(Holds(own, a)))
  /\ \A id \in Ids : own[id] = Zero => l.ownedIndex[id] = 0

SupplyListed(l, own) ==
  /\ ArrayLists(l.all, l.allIndex, Minted(own))
  /\ Len(l.all) = Cardinality(Minted(own))
  /\ \A id \in Ids : own[id] = Zero => l.allIndex[id] = 0

\* Whoever lacks a noun has a free slot for it.
LEMMA FreeSlot ==
  ASSUME NEW own \in [Ids -> Addresses], NEW id \in Ids, NEW to \in Addresses, own[id] # to
  PROVE  Cardinality(Holds(own, to)) \in Ids
<1> DEFINE more == Holds(own, to) \cup {id}
<1>1. more \in SUBSET Ids
  BY DEF Holds
<1>2. IsFiniteSet(Holds(own, to)) /\ Cardinality(Holds(own, to)) \in Nat
  BY IdsFinite DEF Holds
<1>3. Cardinality(more) = Cardinality(Holds(own, to)) + 1
  BY <1>2, FS_AddElement DEF Holds
<1>4. Cardinality(more) <= Cardinality(Ids)
  BY <1>1, IdsFinite, FS_Subset
<1>5. Cardinality(Ids) = MaxNouns
  BY id \in Ids, NounsTokenAssumption, FS_Interval DEF Ids
<1> HIDE DEF more
<1> QED  BY <1>2, <1>3, <1>4, <1>5, NounsTokenAssumption DEF Ids

\* _addTokenToOwnerEnumeration lists a noun nobody holds for its new holder.
LEMMA AddToOwnerLists ==
  ASSUME NEW l \in EnumerationLists, NEW own \in [Ids -> Addresses],
         NEW id \in Ids, own[id] = Zero, NEW to \in Accounts, OwnersListed(l, own)
  PROVE  LET r == AddToOwner(l, to, id, Cardinality(Holds(own, to)))
         IN  /\ r \in EnumerationLists
             /\ r.all = l.all /\ r.allIndex = l.allIndex
             /\ OwnersListed(r, [own EXCEPT ![id] = to])
<1> DEFINE n   == Cardinality(Holds(own, to))
           r   == AddToOwner(l, to, id, n)
           new == [own EXCEPT ![id] = to]
<1>1. to \in Addresses /\ own[id] # to
  BY ZeroAssumption DEF Addresses
<1>0. /\ Holds(new, to) = Holds(own, to) \cup {id}
      /\ \A a \in Addresses : a # to /\ a # own[id] => Holds(new, a) = Holds(own, a)
  <2>1. \A x \in Ids : new[x] = IF x = id THEN to ELSE own[x]
    BY <1>1
  <2> HIDE DEF new
  <2> QED  BY <1>1, <2>1 DEF Holds
<1>2. n \in Ids
  BY <1>1, FreeSlot
<1>3. /\ r \in EnumerationLists /\ r.all = l.all /\ r.allIndex = l.allIndex
      /\ r.ownedIndex = [l.ownedIndex EXCEPT ![id] = n]
      /\ r.owned = [l.owned EXCEPT ![to] = [l.owned[to] EXCEPT ![n] = id]]
  <2> HIDE DEF n
  <2> QED  BY <1>2 DEF AddToOwner, EnumerationLists
<1> HIDE DEF r
<1>4. ASSUME NEW a \in Accounts
      PROVE  Lists(r.owned[a], r.ownedIndex, Holds(new, a), Cardinality(Holds(new, a)))
  <2>1. /\ l.owned[a] \in [Ids -> Ids] /\ l.ownedIndex \in [Ids -> Ids]
        /\ Holds(own, a) \in SUBSET Ids /\ Cardinality(Holds(own, a)) \in Nat
        /\ Lists(l.owned[a], l.ownedIndex, Holds(own, a), Cardinality(Holds(own, a)))
    BY IdsFinite DEF EnumerationLists, OwnersListed, Holds
  <2>2. id \notin Holds(own, a)
    BY ZeroAssumption DEF Holds
  <2>3. CASE a = to
    <3>1. r.owned[a] = [l.owned[a] EXCEPT ![n] = id]
      BY <1>3, <2>3 DEF EnumerationLists
    <3>2. Holds(new, a) = Holds(own, a) \cup {id}
      BY <1>0, <2>3
    <3>4. IsFiniteSet(Holds(own, a))
      BY <2>1, IdsFinite
    <3>5. Cardinality(Holds(new, a)) = n + 1
      BY <2>2, <2>3, <3>2, <3>4, FS_AddElement
    <3>3. Lists([l.owned[a] EXCEPT ![n] = id], [l.ownedIndex EXCEPT ![id] = n],
                Holds(own, a) \cup {id}, n + 1)
      BY <1>2, <2>1, <2>2, <2>3, InsertKeepsLists
    <3> QED  BY <1>3, <3>1, <3>2, <3>3, <3>5
  <2>4. CASE a # to
    <3>1. r.owned[a] = l.owned[a]
      BY <1>3, <2>4 DEF EnumerationLists
    <3>2. Holds(new, a) = Holds(own, a)
      BY <1>0, <2>4, ZeroAssumption DEF Addresses
    <3>3. Lists(l.owned[a], [l.ownedIndex EXCEPT ![id] = n], Holds(own, a),
                Cardinality(Holds(own, a)))
      BY <2>1, <2>2, OtherIndexKeepsLists
    <3> QED  BY <1>3, <3>1, <3>2, <3>3
  <2> QED  BY <2>3, <2>4
<1>5. \A x \in Ids : new[x] = Zero => r.ownedIndex[x] = 0
  <2> SUFFICES ASSUME NEW x \in Ids, new[x] = Zero
               PROVE  r.ownedIndex[x] = 0
    OBVIOUS
  <2>1. x # id /\ own[x] = Zero
    BY ZeroAssumption
  <2>2. l.ownedIndex \in [Ids -> Ids]
    BY DEF EnumerationLists
  <2> QED  BY <1>3, <2>1, <2>2 DEF OwnersListed
<1>6. OwnersListed(r, new)
  BY <1>4, <1>5 DEF OwnersListed
<1> QED  BY <1>3, <1>6 DEF r

\* _removeTokenFromOwnerEnumeration takes a noun off its holder's list.
LEMMA RemoveFromOwnerLists ==
  ASSUME NEW l \in EnumerationLists, owner \in [Ids -> Addresses],
         NEW id \in Ids, owner[id] # Zero, OwnersListed(l, owner)
  PROVE  LET r == RemoveFromOwner(l, owner[id], id)
         IN  /\ r \in EnumerationLists
             /\ r.all = l.all /\ r.allIndex = l.allIndex
             /\ OwnersListed(r, [owner EXCEPT ![id] = Zero])
<1> DEFINE from  == owner[id]
           n     == balanceOf(from)
           last  == n - 1
           slot  == l.ownedIndex[id]
           moved == l.owned[from][last]
           slots == IF slot = last THEN l.owned[from] ELSE [l.owned[from] EXCEPT ![slot] = moved]
           index == IF slot = last THEN l.ownedIndex ELSE [l.ownedIndex EXCEPT ![moved] = slot]
           r     == RemoveFromOwner(l, from, id)
           new   == [owner EXCEPT ![id] = Zero]
<1>1. from \in Accounts /\ from # Zero /\ from \in Addresses /\ Zero \in Addresses
  BY ZeroAssumption DEF Addresses
<1>2. /\ l.owned[from] \in [Ids -> Ids] /\ l.ownedIndex \in [Ids -> Ids]
      /\ l.owned \in [Accounts -> [Ids -> Ids]]
      /\ Holds(owner, from) \in SUBSET Ids /\ id \in Holds(owner, from)
      /\ n \in Nat /\ n = Cardinality(Holds(owner, from))
      /\ Lists(l.owned[from], l.ownedIndex, Holds(owner, from), n)
  BY <1>1, IdsFinite DEF EnumerationLists, OwnersListed, Holds, balanceOf, NounsOf
<1>0. /\ Holds(new, from) = Holds(owner, from) \ {id}
      /\ \A a \in Addresses : a # Zero /\ a # from => Holds(new, a) = Holds(owner, a)
  <2>1. \A x \in Ids : new[x] = IF x = id THEN Zero ELSE owner[x]
    BY <1>1
  <2> HIDE DEF new
  <2> QED  BY <1>1, <2>1 DEF Holds
<1>3. slot \in 0 .. last /\ slot \in Ids /\ last \in 0 .. n - 1 /\ l.owned[from][slot] = id
  BY <1>2 DEF Lists
<1>4. moved \in Holds(owner, from) /\ moved \in Ids /\ l.ownedIndex[moved] = last /\ last \in Ids
  BY <1>2, <1>3 DEF Lists
<1>5. 0 \in Ids
  BY <1>3, NounsTokenAssumption DEF Ids
<1>6. /\ r \in EnumerationLists /\ r.all = l.all /\ r.allIndex = l.allIndex
      /\ r.ownedIndex = [index EXCEPT ![id] = 0]
      /\ r.owned = [l.owned EXCEPT ![from] = [slots EXCEPT ![last] = 0]]
  <2>1. CASE slot = last
    BY <1>1, <1>2, <1>4, <1>5, <2>1 DEF RemoveFromOwner, EnumerationLists
  <2>2. CASE slot # last
    BY <1>1, <1>2, <1>3, <1>4, <1>5, <2>2 DEF RemoveFromOwner, EnumerationLists
  <2> QED  BY <2>1, <2>2
<1> HIDE DEF r
<1>7. ASSUME NEW a \in Accounts
      PROVE  Lists(r.owned[a], r.ownedIndex, Holds(new, a), Cardinality(Holds(new, a)))
  <2>1. CASE a = from
    <3>1. r.owned[a] = [slots EXCEPT ![last] = 0]
      BY <1>1, <1>2, <1>6, <2>1
    <3>2. Holds(new, a) = Holds(owner, from) \ {id}
      BY <1>0, <2>1
    <3>4. IsFiniteSet(Holds(owner, from))
      BY <1>2, IdsFinite
    <3>5. Cardinality(Holds(new, a)) = n - 1
      <4> DEFINE S == Holds(owner, from)
      <4>1. n = Cardinality(S) /\ id \in S /\ IsFiniteSet(S) /\ Holds(new, a) = S \ {id}
        BY <1>2, <3>2, <3>4
      <4> HIDE DEF n, S, new
      <4> QED  BY <4>1, FS_RemoveElement
    <3>3. Lists([slots EXCEPT ![last] = 0], [index EXCEPT ![id] = 0],
                Holds(owner, from) \ {id}, n - 1)
      BY <1>2, RemoveKeepsLists
    <3> QED  BY <1>6, <3>1, <3>2, <3>3, <3>5
  <2>2. CASE a # from
    <3> DEFINE S == Holds(owner, a)
    <3>1. r.owned[a] = l.owned[a] /\ l.owned[a] \in [Ids -> Ids]
      BY <1>2, <1>6, <2>2
    <3>2. Holds(new, a) = S
      BY <1>0, <2>2, ZeroAssumption DEF Addresses
    <3>3. S \in SUBSET Ids /\ Cardinality(S) \in Nat /\ id \notin S /\ moved \notin S
      BY <1>4, <2>2, IdsFinite DEF Holds
    <3>4. Lists(l.owned[a], l.ownedIndex, S, Cardinality(S))
      BY DEF OwnersListed
    <3> HIDE DEF S, moved, slot
    <3>5. index \in [Ids -> Ids] /\ Lists(l.owned[a], index, S, Cardinality(S))
      BY <1>2, <1>3, <1>4, <3>1, <3>3, <3>4, OtherIndexKeepsLists
    <3>6. Lists(l.owned[a], [index EXCEPT ![id] = 0], S, Cardinality(S))
      BY <3>1, <3>3, <3>5, OtherIndexKeepsLists
    <3> QED  BY <1>6, <3>1, <3>2, <3>6
  <2> QED  BY <2>1, <2>2
<1>8. \A x \in Ids : new[x] = Zero => r.ownedIndex[x] = 0
  <2> SUFFICES ASSUME NEW x \in Ids, new[x] = Zero
               PROVE  r.ownedIndex[x] = 0
    OBVIOUS
  <2>1. index \in [Ids -> Ids]
    BY <1>2, <1>3, <1>4
  <2>2. CASE x = id
    BY <1>6, <2>1, <2>2
  <2>3. CASE x # id
    <3>1. owner[x] = Zero /\ x # moved
      BY <1>1, <1>4, <2>3 DEF Holds
    <3>2. l.ownedIndex[x] = 0
      BY <3>1 DEF OwnersListed
    <3>3. index[x] = l.ownedIndex[x]
      BY <1>2, <1>4, <3>1
    <3> QED  BY <1>6, <2>1, <2>3, <3>2, <3>3
  <2> QED  BY <2>2, <2>3
<1>9. OwnersListed(r, new)
  BY <1>7, <1>8 DEF OwnersListed
<1> QED  BY <1>6, <1>9 DEF r

\* _addTokenToAllTokensEnumeration lists a new noun.
LEMMA AddToAllLists ==
  ASSUME NEW l \in EnumerationLists, NEW own \in [Ids -> Addresses],
         NEW id \in Ids, own[id] = Zero, NEW to \in Accounts, SupplyListed(l, own),
         Len(l.all) \in Ids
  PROVE  LET r == AddToAll(l, id)
         IN  /\ r \in EnumerationLists
             /\ r.owned = l.owned /\ r.ownedIndex = l.ownedIndex
             /\ SupplyListed(r, [own EXCEPT ![id] = to])
<1> DEFINE r   == AddToAll(l, id)
           new == [own EXCEPT ![id] = to]
           S   == Minted(own)
<1>1. /\ r \in EnumerationLists /\ r.owned = l.owned /\ r.ownedIndex = l.ownedIndex
      /\ r.all = Append(l.all, id) /\ r.allIndex = [l.allIndex EXCEPT ![id] = Len(l.all)]
  <2> DEFINE pushed == Append(l.all, id)
             k      == Len(l.all)
  <2>1. pushed \in Seq(Ids) /\ k \in Ids
    BY DEF EnumerationLists
  <2>2. r = [l EXCEPT !.all = pushed, !.allIndex[id] = k]
    BY DEF AddToAll, EnumerationLists
  <2> HIDE DEF r, pushed, k
  <2>3. /\ r \in EnumerationLists /\ r.owned = l.owned /\ r.ownedIndex = l.ownedIndex
        /\ r.all = pushed /\ r.allIndex = [l.allIndex EXCEPT ![id] = k]
    BY <2>1, <2>2 DEF EnumerationLists
  <2> QED  BY <2>3 DEF pushed, k
<1>2. l.all \in Seq(Ids) /\ l.allIndex \in [Ids -> Ids]
  BY DEF EnumerationLists
<1>3. \A x \in Ids : new[x] = IF x = id THEN to ELSE own[x]
  OBVIOUS
<1> HIDE DEF r, new
<1>4. Minted(new) = S \cup {id} /\ id \notin S /\ S \in SUBSET Ids
  BY <1>3, ZeroAssumption DEF Minted
<1>5. ArrayLists(l.all, l.allIndex, S) /\ Len(l.all) = Cardinality(S)
  BY DEF SupplyListed
<1>6. IsFiniteSet(S)
  BY <1>4, IdsFinite
<1> HIDE DEF S
<1>7. ArrayLists(r.all, r.allIndex, Minted(new))
  <2>1. ArrayLists(Append(l.all, id), [l.allIndex EXCEPT ![id] = Len(l.all)], S \cup {id})
    BY <1>2, <1>4, <1>5, PushKeepsArray
  <2> QED  BY <1>1, <1>4, <2>1
<1>8. Len(r.all) = Cardinality(Minted(new))
  <2>1. Cardinality(S \cup {id}) = Cardinality(S) + 1
    BY <1>4, <1>6, FS_AddElement
  <2> QED  BY <1>1, <1>2, <1>4, <1>5, <2>1
<1>9. \A x \in Ids : new[x] = Zero => r.allIndex[x] = 0
  BY <1>1, <1>2, <1>3, ZeroAssumption DEF SupplyListed
<1>10. SupplyListed(r, new)
  BY <1>7, <1>8, <1>9 DEF SupplyListed
<1> QED  BY <1>1, <1>10 DEF r, new

\* _removeTokenFromAllTokensEnumeration takes a burned noun off the list.
LEMMA RemoveFromAllLists ==
  ASSUME NEW l \in EnumerationLists, NEW own \in [Ids -> Addresses],
         NEW id \in Ids, own[id] # Zero, SupplyListed(l, own)
  PROVE  LET r == RemoveFromAll(l, id)
         IN  /\ r \in EnumerationLists
             /\ r.owned = l.owned /\ r.ownedIndex = l.ownedIndex
             /\ SupplyListed(r, [own EXCEPT ![id] = Zero])
<1> DEFINE r     == RemoveFromAll(l, id)
           new   == [own EXCEPT ![id] = Zero]
           S     == Minted(own)
           last  == Len(l.all)
           slot  == l.allIndex[id]
           moved == l.all[last]
           array == [l.all EXCEPT ![slot + 1] = moved]
           index == [l.allIndex EXCEPT ![moved] = slot]
<1>1. \A x \in Ids : new[x] = IF x = id THEN Zero ELSE own[x]
  BY DEF Addresses
<1> HIDE DEF new
<1>2. Minted(new) = S \ {id} /\ id \in S /\ S \in SUBSET Ids
  BY <1>1 DEF Minted
<1>3. ArrayLists(l.all, l.allIndex, S) /\ last = Cardinality(S)
  BY DEF SupplyListed
<1>4. IsFiniteSet(S)
  BY <1>2, IdsFinite
<1> HIDE DEF S
<1>5. l.all \in Seq(Ids) /\ l.allIndex \in [Ids -> Ids] /\ last \in Nat
  BY DEF EnumerationLists
<1>6. slot \in 0 .. last - 1 /\ slot \in Ids
  BY <1>2, <1>3, <1>5 DEF ArrayLists
<1>7. moved \in S /\ moved \in Ids /\ l.allIndex[moved] = last - 1
  BY <1>2, <1>3, <1>5, <1>6 DEF ArrayLists
<1>8. /\ array \in Seq(Ids) /\ Len(array) = last
      /\ SubSeq(array, 1, last - 1) \in Seq(Ids) /\ Len(SubSeq(array, 1, last - 1)) = last - 1
  BY <1>5, <1>6, <1>7
<1>9. 0 \in Ids
  BY <1>6, NounsTokenAssumption DEF Ids
<1>10. /\ r \in EnumerationLists /\ r.owned = l.owned /\ r.ownedIndex = l.ownedIndex
       /\ r.all = SubSeq(array, 1, last - 1)
       /\ r.allIndex = [index EXCEPT ![id] = 0]
  BY <1>5, <1>6, <1>7, <1>8, <1>9 DEF RemoveFromAll, EnumerationLists
<1> HIDE DEF r
<1>11. ArrayLists(r.all, r.allIndex, Minted(new))
  <2>1. ArrayLists(SubSeq(array, 1, last - 1), [index EXCEPT ![id] = 0], S \ {id})
    BY <1>2, <1>3, <1>5, PopKeepsArray
  <2> HIDE DEF array, index, last
  <2> QED  BY <1>2, <1>10, <2>1
<1>12. Len(r.all) = Cardinality(Minted(new))
  <2>1. Cardinality(S \ {id}) = Cardinality(S) - 1
    BY <1>2, <1>4, FS_RemoveElement
  <2> QED  BY <1>2, <1>3, <1>8, <1>10, <2>1
<1>13. \A x \in Ids : new[x] = Zero => r.allIndex[x] = 0
  <2> SUFFICES ASSUME NEW x \in Ids, new[x] = Zero
               PROVE  r.allIndex[x] = 0
    OBVIOUS
  <2>1. index \in [Ids -> Ids]
    BY <1>5, <1>6, <1>7
  <2>2. CASE x = id
    BY <1>10, <2>1, <2>2
  <2>3. CASE x # id
    <3>1. own[x] = Zero
      BY <1>1, <2>3
    <3>2. x # moved
      BY <1>7, <3>1 DEF S, Minted
    <3>3. l.allIndex[x] = 0
      BY <3>1 DEF SupplyListed
    <3>4. index[x] = l.allIndex[x]
      BY <1>5, <1>7, <3>2
    <3> QED  BY <1>10, <2>1, <2>3, <3>3, <3>4
  <2> QED  BY <2>2, <2>3
<1>14. SupplyListed(r, new)
  BY <1>11, <1>12, <1>13 DEF SupplyListed
<1> QED  BY <1>10, <1>14 DEF r, new

-----------------------------------------------------------------------------
(* Transactions.                                                            *)

\* Both kinds of list are right for the owners own.
AllListed(l, own) ==
  l \in EnumerationLists /\ OwnersListed(l, own) /\ SupplyListed(l, own)

\* The array of all nouns has room for one that does not exist.
LEMMA FreeArraySlot ==
  ASSUME NEW l, NEW own \in [Ids -> Addresses], NEW id \in Ids, own[id] = Zero,
         SupplyListed(l, own)
  PROVE  Len(l.all) \in Ids
<1> DEFINE more == Minted(own) \cup {id}
<1>1. more \in SUBSET Ids /\ Minted(own) \in SUBSET Ids /\ id \notin Minted(own)
  BY DEF Minted
<1>2. IsFiniteSet(Minted(own)) /\ Cardinality(Minted(own)) \in Nat
  BY <1>1, IdsFinite
<1>3. Cardinality(more) = Cardinality(Minted(own)) + 1
  BY <1>1, <1>2, FS_AddElement
<1>4. Cardinality(more) <= Cardinality(Ids)
  BY <1>1, IdsFinite, FS_Subset
<1>5. Cardinality(Ids) = MaxNouns
  BY id \in Ids, NounsTokenAssumption, FS_Interval DEF Ids
<1> HIDE DEF more
<1> QED  BY <1>2, <1>3, <1>4, <1>5, NounsTokenAssumption DEF SupplyListed, Ids

\* The hook of one mint.
LEMMA MintListed ==
  ASSUME NEW l, NEW own \in [Ids -> Addresses], NEW id \in Ids, own[id] = Zero,
         NEW to \in Accounts, AllListed(l, own)
  PROVE  AllListed(AddToOwner(AddToAll(l, id), to, id, Cardinality(Holds(own, to))),
                   [own EXCEPT ![id] = to])
<1> DEFINE pushed == AddToAll(l, id)
           new    == [own EXCEPT ![id] = to]
           r      == AddToOwner(pushed, to, id, Cardinality(Holds(own, to)))
<1>1. l \in EnumerationLists /\ OwnersListed(l, own) /\ SupplyListed(l, own)
  BY DEF AllListed
<1>2. Len(l.all) \in Ids
  BY <1>1, FreeArraySlot
<1>3. /\ pushed \in EnumerationLists
      /\ pushed.owned = l.owned /\ pushed.ownedIndex = l.ownedIndex
      /\ SupplyListed(pushed, new)
  BY <1>1, <1>2, AddToAllLists
<1> HIDE DEF pushed
<1>4. OwnersListed(pushed, own)
  BY <1>1, <1>3 DEF OwnersListed
<1>5. /\ r \in EnumerationLists /\ r.all = pushed.all /\ r.allIndex = pushed.allIndex
      /\ OwnersListed(r, new)
  BY <1>3, <1>4, AddToOwnerLists
<1> HIDE DEF r, new
<1>6. SupplyListed(r, new)
  BY <1>3, <1>5 DEF SupplyListed
<1>7. AllListed(r, new)
  BY <1>5, <1>6 DEF AllListed
<1> QED  BY <1>7 DEF r, new, pushed

\* The hook of a burn finds the noun in both lists.
LEMMA BurnListed ==
  ASSUME owner \in [Ids -> Addresses], NEW id \in Ids, owner[id] # Zero,
         AllListed(lists, owner)
  PROVE  AllListed(RemoveFromAll(RemoveFromOwner(lists, owner[id], id), id),
                   [owner EXCEPT ![id] = Zero])
<1> DEFINE kept == RemoveFromOwner(lists, owner[id], id)
           new  == [owner EXCEPT ![id] = Zero]
           r    == RemoveFromAll(kept, id)
<1>1. lists \in EnumerationLists /\ OwnersListed(lists, owner) /\ SupplyListed(lists, owner)
  BY DEF AllListed
<1>2. /\ kept \in EnumerationLists
      /\ kept.all = lists.all /\ kept.allIndex = lists.allIndex
      /\ OwnersListed(kept, new)
  BY <1>1, RemoveFromOwnerLists
<1> HIDE DEF kept
<1>3. SupplyListed(kept, owner)
  BY <1>1, <1>2 DEF SupplyListed
<1>4. /\ r \in EnumerationLists
      /\ r.owned = kept.owned /\ r.ownedIndex = kept.ownedIndex
      /\ SupplyListed(r, new)
  BY <1>2, <1>3, RemoveFromAllLists
<1> HIDE DEF r, new
<1>5. OwnersListed(r, new)
  BY <1>2, <1>4 DEF OwnersListed
<1>6. AllListed(r, new)
  BY <1>4, <1>5 DEF AllListed
<1> QED  BY <1>6 DEF r, new, kept

\* The hook of a transfer between two holders: between the removal and the
\* insertion the noun is on nobody's list.
LEMMA TransferListed ==
  ASSUME owner \in [Ids -> Addresses], NEW id \in Ids, owner[id] # Zero,
         NEW to \in Accounts, to # owner[id], AllListed(lists, owner)
  PROVE  AllListed(AddToOwner(RemoveFromOwner(lists, owner[id], id), to, id, balanceOf(to)),
                   [owner EXCEPT ![id] = to])
<1> DEFINE kept    == RemoveFromOwner(lists, owner[id], id)
           between == [owner EXCEPT ![id] = Zero]
           new     == [owner EXCEPT ![id] = to]
           r       == AddToOwner(kept, to, id, balanceOf(to))
<1>1. lists \in EnumerationLists /\ OwnersListed(lists, owner) /\ SupplyListed(lists, owner)
  BY DEF AllListed
<1>2. /\ kept \in EnumerationLists
      /\ kept.all = lists.all /\ kept.allIndex = lists.allIndex
      /\ OwnersListed(kept, between)
  BY <1>1, RemoveFromOwnerLists
<1> HIDE DEF kept
<1>3. between \in [Ids -> Addresses] /\ between[id] = Zero /\ new = [between EXCEPT ![id] = to]
  BY DEF Addresses
<1>4. Holds(between, to) = Holds(owner, to)
  BY ZeroAssumption DEF Holds
<1>5. balanceOf(to) = Cardinality(Holds(between, to))
  BY <1>4 DEF balanceOf, NounsOf, Holds
<1>6. Minted(new) = Minted(owner) /\ \A x \in Ids : new[x] = Zero => owner[x] = Zero
  BY ZeroAssumption DEF Minted
<1> HIDE DEF between, new
<1>7. /\ r \in EnumerationLists /\ r.all = kept.all /\ r.allIndex = kept.allIndex
      /\ OwnersListed(r, new)
  <2>1. r = AddToOwner(kept, to, id, Cardinality(Holds(between, to)))
    BY <1>5
  <2> HIDE DEF r
  <2> QED  BY <1>2, <1>3, <2>1, AddToOwnerLists
<1> HIDE DEF r
<1>8. SupplyListed(r, new)
  BY <1>1, <1>2, <1>6, <1>7 DEF SupplyListed
<1>9. AllListed(r, new)
  BY <1>7, <1>8 DEF AllListed
<1> QED  BY <1>9 DEF r, new, kept

\* The inductive invariant: the lists fit the owners, and the next id is free.
EnumInv == TypeOK /\ UnmintedUnowned /\ AllListed(lists, owner)

\* Every transaction keeps the lists in step with the owners.
LEMMA StepKeepsLists ==
  ASSUME EnumInv, EnumNext
  PROVE  AllListed(lists', owner')
<1>1. owner \in [Ids -> Addresses] /\ AllListed(lists, owner)
  BY DEF EnumInv, TypeOK
<1>2. \A a : balanceOf(a) = Cardinality(Holds(owner, a))
  BY DEF balanceOf, NounsOf, Holds
<1>3. \A a \in Addresses : a # Zero => a \in Accounts
  BY DEF Addresses
<1>4. \A id \in Ids : id >= currentNounId => owner[id] = Zero
  BY DEF EnumInv, UnmintedUnowned
<1>5. currentNounId \in Nat /\ minter \in Addresses /\ noundersDAO \in Addresses
  BY DEF EnumInv, TypeOK
<1>6. CASE EnumMintReward
  <2> DEFINE id      == currentNounId
             middle  == [owner EXCEPT ![id] = noundersDAO]
             reward  == AddToOwner(AddToAll(lists, id), noundersDAO, id, balanceOf(noundersDAO))
             length  == IF minter = noundersDAO THEN balanceOf(minter) + 1 ELSE balanceOf(minter)
  <2>1. /\ id + 1 \in Ids /\ minter \in Accounts /\ noundersDAO \in Accounts
        /\ owner' = [owner EXCEPT ![id] = noundersDAO, ![id + 1] = minter]
        /\ lists' = AddToOwner(AddToAll(reward, id + 1), minter, id + 1, length)
    BY <1>3, <1>5, <1>6 DEF EnumMintReward, MintReward
  <2>2. id \in Ids /\ owner[id] = Zero /\ owner[id + 1] = Zero /\ id # id + 1
    BY <1>4, <1>5, <2>1, NounsTokenAssumption DEF Ids
  <2>3. AllListed(reward, middle)
    BY <1>1, <1>2, <2>1, <2>2, MintListed
  <2>4. middle \in [Ids -> Addresses] /\ middle[id + 1] = Zero
    BY <1>1, <1>5, <2>1, <2>2
  <2>5. owner' = [middle EXCEPT ![id + 1] = minter]
    BY <2>1
  <2>6. length = Cardinality(Holds(middle, minter))
    <3>1. IsFiniteSet(Holds(owner, minter))
      BY IdsFinite DEF Holds
    <3>2. CASE minter = noundersDAO
      <4>1. Holds(middle, minter) = Holds(owner, minter) \cup {id} /\ id \notin Holds(owner, minter)
        BY <1>1, <2>1, <2>2, <3>2, ZeroAssumption DEF Holds
      <4>2. Cardinality(Holds(middle, minter)) = Cardinality(Holds(owner, minter)) + 1
        BY <3>1, <4>1, FS_AddElement
      <4> QED  BY <1>2, <3>2, <4>2
    <3>3. CASE minter # noundersDAO
      <4>1. Holds(middle, minter) = Holds(owner, minter)
        BY <1>1, <2>1, <2>2, <3>3, ZeroAssumption DEF Holds
      <4> QED  BY <1>2, <3>3, <4>1
    <3> QED  BY <3>2, <3>3
  <2> HIDE DEF reward, middle, length
  <2>7. AllListed(AddToOwner(AddToAll(reward, id + 1), minter, id + 1,
                             Cardinality(Holds(middle, minter))),
                  [middle EXCEPT ![id + 1] = minter])
    BY <2>1, <2>3, <2>4, MintListed
  <2> QED  BY <2>1, <2>5, <2>6, <2>7
<1>7. CASE EnumMintOne
  <2>1. /\ currentNounId \in Ids /\ minter \in Accounts
        /\ owner' = [owner EXCEPT ![currentNounId] = minter]
        /\ lists' = AddToOwner(AddToAll(lists, currentNounId), minter, currentNounId,
                               Cardinality(Holds(owner, minter)))
    BY <1>2, <1>3, <1>5, <1>7 DEF EnumMintOne, MintOne
  <2>2. owner[currentNounId] = Zero
    BY <1>4, <1>5, <2>1 DEF Ids
  <2> QED  BY <1>1, <2>1, <2>2, MintListed
<1>8. ASSUME NEW id \in Ids, EnumBurn(id)
      PROVE  AllListed(lists', owner')
  BY <1>1, <1>8, BurnListed DEF EnumBurn, burn, Exists
<1>9. ASSUME NEW sender \in Accounts, NEW to \in Addresses, NEW id \in Ids,
             EnumTransferFrom(sender, owner[id], to, id)
      PROVE  AllListed(lists', owner')
  <2>1. owner[id] # Zero /\ to \in Accounts /\ owner' = [owner EXCEPT ![id] = to]
    BY <1>3, <1>9 DEF EnumTransferFrom, transferFrom, isApprovedOrOwner, Exists
  <2>2. CASE owner[id] = to
    <3>1. owner' = owner
      BY <1>1, <2>1, <2>2
    <3> QED  BY <1>1, <1>9, <2>2, <3>1 DEF EnumTransferFrom
  <2>3. CASE owner[id] # to
    BY <1>1, <1>9, <2>1, <2>3, TransferListed DEF EnumTransferFrom
  <2> QED  BY <2>2, <2>3
<1>10. CASE NoHook
  BY <1>1, <1>10 DEF NoHook
<1> QED  BY <1>6, <1>7, <1>8, <1>9, <1>10 DEF EnumNext

\* Lists that are inverse to their indexes enumerate exactly their sets.
LEMMA ListedIsExact ==
  ASSUME EnumInv
  PROVE  ListsTypeOK /\ OwnerListIsExact /\ SupplyListIsExact /\ NothingLeftBehind
<1>1. lists \in EnumerationLists /\ OwnersListed(lists, owner) /\ SupplyListed(lists, owner)
  BY DEF EnumInv, AllListed
<1>2. ASSUME NEW a \in Accounts
      PROVE  /\ NounsOf(a) \in SUBSET Ids /\ balanceOf(a) \in Nat
             /\ Lists(lists.owned[a], lists.ownedIndex, NounsOf(a), balanceOf(a))
  <2>1. NounsOf(a) = Holds(owner, a)
    BY DEF NounsOf, Holds
  <2>2. NounsOf(a) \in SUBSET Ids
    BY DEF NounsOf
  <2> QED  BY <1>1, <2>1, <2>2, IdsFinite DEF OwnersListed, balanceOf
<1>3. OwnerListIsExact
  <2> SUFFICES ASSUME NEW a \in Accounts
               PROVE  /\ {tokenOfOwnerByIndex(a, i) : i \in 0 .. balanceOf(a) - 1} = NounsOf(a)
                      /\ \A id \in NounsOf(a) :
                           /\ lists.ownedIndex[id] < balanceOf(a)
                           /\ tokenOfOwnerByIndex(a, lists.ownedIndex[id]) = id
    BY DEF OwnerListIsExact
  <2> HIDE DEF balanceOf, NounsOf
  <2>1. \A i \in 0 .. balanceOf(a) - 1 : lists.owned[a][i] \in NounsOf(a)
    BY <1>2 DEF Lists
  <2>2. \A id \in NounsOf(a) : /\ lists.ownedIndex[id] \in 0 .. balanceOf(a) - 1
                               /\ lists.owned[a][lists.ownedIndex[id]] = id
    BY <1>2 DEF Lists
  <2>3. {tokenOfOwnerByIndex(a, i) : i \in 0 .. balanceOf(a) - 1} = NounsOf(a)
    BY <2>1, <2>2 DEF tokenOfOwnerByIndex
  <2> QED  BY <1>2, <2>2, <2>3 DEF tokenOfOwnerByIndex
<1>4. SupplyListIsExact
  <2>1. {id \in Ids : Exists(id)} = Minted(owner)
    BY DEF Exists, Minted
  <2>2. Len(lists.all) \in Nat
    BY <1>1 DEF EnumerationLists
  <2>3. totalSupply = Cardinality(Minted(owner))
    BY <1>1 DEF SupplyListed, totalSupply
  <2>4. \A id \in Minted(owner) : /\ lists.allIndex[id] < totalSupply
                                  /\ tokenByIndex(lists.allIndex[id]) = id
    BY <1>1, <2>2 DEF SupplyListed, ArrayLists, totalSupply, tokenByIndex
  <2> QED  BY <2>1, <2>3, <2>4 DEF SupplyListIsExact
<1>5. NothingLeftBehind
  BY <1>1, <1>2 DEF NothingLeftBehind, OwnersListed, SupplyListed, Lists, Exists
<1> QED  BY <1>1, <1>3, <1>4, <1>5 DEF ListsTypeOK

\* The lists add to the token and take nothing away: with them forgotten, every
\* behaviour is one of NounsToken, so its theorems hold here too.
THEOREM EnumerationIsAToken == EnumSpec => Spec
<1>1. EnumInit => Init
  BY DEF EnumInit
<1>2. EnumNext => Next
  BY DEF EnumNext, EnumMintReward, EnumMintOne, EnumBurn, EnumTransferFrom, NoHook, Next, mint
<1>3. [EnumNext]_enumVars => [Next]_vars
  BY <1>2 DEF enumVars
<1> QED  BY <1>1, <1>3, PTL DEF EnumSpec, Spec

\* EnumInv is inductive, given the token's types.
LEMMA EnumInvariant == EnumSpec => []EnumInv
<1>1. EnumInit /\ TypeOK => EnumInv
  <2> SUFFICES ASSUME EnumInit, TypeOK
               PROVE  EnumInv
    OBVIOUS
  <2>1. UnmintedUnowned
    BY DEF EnumInit, Init, UnmintedUnowned
  <2>3. \A id \in Ids : owner[id] = Zero /\ 0 \in Ids
    BY NounsTokenAssumption DEF EnumInit, Init, Ids
  <2>4. lists \in EnumerationLists
    <3>1. <<>> \in Seq(Ids)
      OBVIOUS
    <3> QED  BY <2>3, <3>1 DEF EnumInit, EnumerationLists
  <2>5. \A a \in Accounts : Holds(owner, a) = {}
    BY <2>3, ZeroAssumption DEF Holds
  <2>6. Minted(owner) = {}
    BY <2>3 DEF Minted
  <2>7. OwnersListed(lists, owner)
    <3>1. ASSUME NEW a \in Accounts
          PROVE  Lists(lists.owned[a], lists.ownedIndex, {}, 0)
      <4>1. \A i \in Ids : lists.owned[a][i] = 0
        BY DEF EnumInit
      <4> QED  BY <4>1 DEF Lists
    <3>2. \A id \in Ids : lists.ownedIndex[id] = 0
      BY DEF EnumInit
    <3> QED  BY <2>5, <3>1, <3>2, FS_EmptySet DEF OwnersListed
  <2>8. SupplyListed(lists, owner)
    BY <2>6, FS_EmptySet DEF EnumInit, SupplyListed, ArrayLists
  <2> QED  BY <2>1, <2>4, <2>7, <2>8 DEF EnumInv, AllListed
<1>2. EnumInv /\ TypeOK' /\ [Next]_vars /\ [EnumNext]_enumVars => EnumInv'
  <2> SUFFICES ASSUME EnumInv, TypeOK', [Next]_vars, [EnumNext]_enumVars
               PROVE  EnumInv'
    OBVIOUS
  <2>2. UnmintedUnowned'
    BY StepKeepsUnminted DEF EnumInv
  <2>3. AllListed(lists', owner')
    <3>1. CASE EnumNext
      BY <3>1, StepKeepsLists
    <3>2. CASE UNCHANGED enumVars
      BY <3>2 DEF enumVars, vars, EnumInv
    <3> QED  BY <3>1, <3>2
  <2> QED  BY <2>2, <2>3 DEF EnumInv, AllListed
<1> QED  BY <1>1, <1>2, EnumerationIsAToken, TypeCorrect, PTL DEF EnumSpec, Spec

\* Whatever mints, burns and transfers happen, in any order and among any number of
\* accounts: tokenOfOwnerByIndex enumerates exactly an account's nouns, totalSupply
\* and tokenByIndex exactly those that exist, so the array accesses of a burn are
\* always in bounds, and deleted slots and indexes are really cleared.
THEOREM EnumerationStaysExact == EnumSpec => []EnumerationIsExact
<1>1. EnumInv => EnumerationIsExact
  BY ListedIsExact DEF EnumerationIsExact
<1> QED  BY <1>1, EnumInvariant, PTL

-----------------------------------------------------------------------------
(* The token's index.  What it shows at any moment, what the token has, and *)
(* how events lead from one to the other.                                   *)

TokenEvents ==
  [event : {"DelegateVotesChanged"}, delegate : Accounts, before : Nat, after : Nat]
    \cup [event : {"Transfer"}, from : Addresses, to : Addresses, id : Ids]
    \cup [event : {"NounCreated"}, id : Ids]
    \cup [event : {"DelegateChanged"}, delegator : Accounts, from : Accounts, to : Addresses]

Tales == [owner : [Ids -> Addresses \cup {Null}], seeded : SUBSET Ids,
          votes : [Accounts -> Nat]]

VotesIn(h) == [d \in Accounts |-> CurrentVotes(h[d])]

Shown == [owner  |-> [id \in Ids |-> nounEntity[id].owner],
          seeded |-> {id \in Ids : nounEntity[id].seeded},
          votes  |-> [d \in Accounts |-> representative[d].delegatedVotes]]

Tale(own, next, h) ==
  [owner |-> [id \in Ids |-> IF id < next THEN own[id] ELSE Null],
   seeded |-> {id \in Ids : id < next}, votes |-> VotesIn(h)]

OnChain == Tale(owner, currentNounId, checkpoints)

\* Event e is of a token that was as s says, and now is as t says; who sends a noun to
\* itself is in sent.
Leads(sent, s, e, t) ==
  \/ /\ e.event = "Transfer"
     /\ \/ e.from = Zero /\ e.to # Zero /\ s.owner[e.id] = Null
        \/ e.from # Zero /\ s.owner[e.id] = e.from
     /\ e.from = e.to => e.to \in sent
     /\ t = [s EXCEPT !.owner = [@ EXCEPT ![e.id] = e.to]]
  \/ /\ e.event = "NounCreated" /\ s.owner[e.id] # Null
     /\ t = [s EXCEPT !.seeded = @ \cup {e.id}]
  \/ /\ e.event = "DelegateVotesChanged"
     /\ e.before = s.votes[e.delegate] /\ e.before # e.after
     /\ t = [s EXCEPT !.votes = [@ EXCEPT ![e.delegate] = e.after]]
  \/ /\ e.event = "DelegateChanged" /\ t = s

Step(sent, w, es, i) == Leads(sent, w[i - 1], es[i], w[i])

\* So do the events of a sequence, one after the other.
LeadTo(sent, s, es, t) ==
  \E w \in [0 .. Len(es) -> Tales] :
    w[0] = s /\ w[Len(es)] = t /\ \A i \in 1 .. Len(es) : Step(sent, w, es, i)

\* No event leads nowhere else.
LEMMA LeadNowhere ==
  ASSUME NEW sent, NEW s \in Tales
  PROVE  /\ LeadTo(sent, s, <<>>, s)
         /\ \A t : LeadTo(sent, s, <<>>, t) => t = s
<1>1. LeadTo(sent, s, <<>>, s)
  <2> DEFINE w == [i \in 0 .. 0 |-> s]
  <2>1. w \in [0 .. Len(<<>>) -> Tales] /\ w[0] = s /\ w[Len(<<>>)] = s
    OBVIOUS
  <2>2. 1 .. Len(<<>>) = {}
    OBVIOUS
  <2> QED  BY <2>1, <2>2, Zenon DEF LeadTo
<1>2. ASSUME NEW t, LeadTo(sent, s, <<>>, t)
      PROVE  t = s
  <2>1. Len(<<>>) = 0
    OBVIOUS
  <2> QED  BY <1>2, <2>1, Zenon DEF LeadTo
<1> QED  BY <1>1, <1>2

\* One event leads where it leads.
LEMMA LeadOne ==
  ASSUME NEW sent, NEW s \in Tales, NEW t \in Tales, NEW e, Leads(sent, s, e, t)
  PROVE  LeadTo(sent, s, <<e>>, t)
<1> DEFINE w == [i \in 0 .. 1 |-> IF i = 0 THEN s ELSE t]
<1>1. w \in [0 .. 1 -> Tales] /\ w[0] = s /\ w[1] = t
  OBVIOUS
<1>2. Len(<<e>>) = 1 /\ <<e>>[1] = e
  OBVIOUS
<1>3. ASSUME NEW i \in 1 .. 1
      PROVE  Step(sent, w, <<e>>, i)
  <2>1. i = 1 /\ i - 1 = 0
    OBVIOUS
  <2> HIDE DEF w
  <2> QED  BY <1>1, <1>2, <2>1 DEF Step
<1> HIDE DEF w
<1> QED  BY <1>1, <1>2, <1>3, Zenon DEF LeadTo

\* Two runs of events lead on from one another.
LEMMA LeadBoth ==
  ASSUME NEW sent, NEW s, NEW t, NEW u, NEW a \in Seq(TokenEvents), NEW b \in Seq(TokenEvents),
         LeadTo(sent, s, a, t), LeadTo(sent, t, b, u)
  PROVE  LeadTo(sent, s, a \o b, u) /\ a \o b \in Seq(TokenEvents)
<1>1. PICK v \in [0 .. Len(a) -> Tales] :
        v[0] = s /\ v[Len(a)] = t /\ \A i \in 1 .. Len(a) : Step(sent, v, a, i)
  BY DEF LeadTo
<1>2. PICK w \in [0 .. Len(b) -> Tales] :
        w[0] = t /\ w[Len(b)] = u /\ \A i \in 1 .. Len(b) : Step(sent, w, b, i)
  BY DEF LeadTo
<1> DEFINE es == a \o b
           x  == [i \in 0 .. Len(es) |-> IF i <= Len(a) THEN v[i] ELSE w[i - Len(a)]]
<1>3. /\ es \in Seq(TokenEvents) /\ Len(a) \in Nat /\ Len(b) \in Nat
      /\ Len(es) = Len(a) + Len(b)
      /\ \A i \in 1 .. Len(es) : es[i] = IF i <= Len(a) THEN a[i] ELSE b[i - Len(a)]
  OBVIOUS
<1> HIDE DEF es
<1>4. x \in [0 .. Len(es) -> Tales]
  <2> SUFFICES ASSUME NEW i \in 0 .. Len(es)
               PROVE  (IF i <= Len(a) THEN v[i] ELSE w[i - Len(a)]) \in Tales
    OBVIOUS
  <2>1. CASE i <= Len(a)
    <3>1. i \in 0 .. Len(a)
      BY <1>3, <2>1
    <3> QED  BY <1>1, <2>1, <3>1
  <2>2. CASE ~(i <= Len(a))
    <3>1. i - Len(a) \in 0 .. Len(b)
      BY <1>3, <2>2
    <3> QED  BY <1>2, <2>2, <3>1
  <2> QED  BY <2>1, <2>2
<1>5. /\ \A i \in 0 .. Len(a) : x[i] = v[i]
      /\ \A i \in 0 .. Len(b) : x[Len(a) + i] = w[i]
  <2>1. \A i \in 0 .. Len(a) : x[i] = v[i]
    BY <1>3
  <2>2. ASSUME NEW i \in 0 .. Len(b)
        PROVE  x[Len(a) + i] = w[i]
    <3>1. CASE i = 0
      <4>1. Len(a) + i = Len(a) /\ Len(a) \in 0 .. Len(a)
        BY <1>3, <3>1
      <4> HIDE DEF x
      <4> QED  BY <1>1, <1>2, <2>1, <3>1, <4>1
    <3>2. CASE i # 0
      <4>1. /\ Len(a) + i \in 0 .. Len(es) /\ ~(Len(a) + i <= Len(a))
            /\ Len(a) + i - Len(a) = i
        BY <1>3, <3>2
      <4> QED  BY <4>1
    <3> QED  BY <3>1, <3>2
  <2> QED  BY <2>1, <2>2
<1> HIDE DEF x
<1>6. ASSUME NEW i \in 1 .. Len(es)
      PROVE  Step(sent, x, es, i)
  <2>1. CASE i <= Len(a)
    <3>1. i \in 1 .. Len(a) /\ i \in 0 .. Len(a) /\ i - 1 \in 0 .. Len(a)
      BY <1>3, <2>1
    <3>2. es[i] = a[i]
      BY <1>3, <2>1
    <3> QED  BY <1>1, <1>5, <3>1, <3>2 DEF Step
  <2>2. CASE ~(i <= Len(a))
    <3> DEFINE j == i - Len(a)
    <3>1. /\ j \in 1 .. Len(b) /\ j \in 0 .. Len(b) /\ j - 1 \in 0 .. Len(b)
          /\ Len(a) + j = i /\ Len(a) + (j - 1) = i - 1
      BY <1>3, <2>2
    <3>2. es[i] = b[j]
      BY <1>3, <2>2
    <3> HIDE DEF j
    <3>3. x[i] = w[j] /\ x[i - 1] = w[j - 1]
      BY <1>5, <3>1
    <3> QED  BY <1>2, <3>1, <3>2, <3>3 DEF Step
  <2> QED  BY <2>1, <2>2
<1>7. x[0] = s /\ x[Len(es)] = u
  <2>1. 0 \in 0 .. Len(a) /\ Len(b) \in 0 .. Len(b)
    BY <1>3
  <2> QED  BY <1>1, <1>2, <1>3, <1>5, <2>1
<1>8. LeadTo(sent, s, es, u)
  BY <1>4, <1>6, <1>7, Zenon DEF LeadTo
<1> QED  BY <1>3, <1>8 DEF es

\* Handling the first event leaves a sequence that leads on from there.
LEMMA LeadFirst ==
  ASSUME NEW sent, NEW s, NEW u, NEW es \in Seq(TokenEvents), es # <<>>, LeadTo(sent, s, es, u)
  PROVE  /\ Head(es) \in TokenEvents /\ Tail(es) \in Seq(TokenEvents)
         /\ \E t \in Tales : Leads(sent, s, Head(es), t) /\ LeadTo(sent, t, Tail(es), u)
<1>1. PICK w \in [0 .. Len(es) -> Tales] :
        w[0] = s /\ w[Len(es)] = u /\ \A i \in 1 .. Len(es) : Step(sent, w, es, i)
  BY DEF LeadTo
<1> DEFINE rest == Tail(es)
           x    == [i \in 0 .. Len(rest) |-> w[i + 1]]
<1>2. /\ Head(es) \in TokenEvents /\ Head(es) = es[1] /\ rest \in Seq(TokenEvents)
      /\ Len(es) \in Nat /\ Len(rest) \in Nat /\ Len(es) = Len(rest) + 1
      /\ \A i \in 1 .. Len(rest) : rest[i] = es[i + 1]
  OBVIOUS
<1> HIDE DEF rest
<1>3. /\ 1 \in 1 .. Len(es) /\ 1 \in 0 .. Len(es) /\ 0 \in 0 .. Len(rest)
      /\ Len(rest) \in 0 .. Len(rest) /\ 1 - 1 = 0
      /\ \A i \in 0 .. Len(rest) : i + 1 \in 0 .. Len(es)
      /\ \A i \in 1 .. Len(rest) : /\ i \in 0 .. Len(rest) /\ i - 1 \in 0 .. Len(rest)
                                   /\ i + 1 \in 1 .. Len(es) /\ i + 1 - 1 = i /\ i - 1 + 1 = i
  BY <1>2
<1>4. x \in [0 .. Len(rest) -> Tales] /\ \A i \in 0 .. Len(rest) : x[i] = w[i + 1]
  BY <1>1, <1>3
<1> HIDE DEF x
<1>5. x[0] = w[1] /\ x[Len(rest)] = u /\ w[1] \in Tales
  BY <1>1, <1>2, <1>3, <1>4
<1>6. \A i \in 1 .. Len(rest) : Step(sent, x, rest, i)
  BY <1>1, <1>2, <1>3, <1>4 DEF Step
<1>7. LeadTo(sent, w[1], rest, u)
  BY <1>4, <1>5, <1>6, Zenon DEF LeadTo
<1>8. Leads(sent, s, Head(es), w[1])
  BY <1>1, <1>2, <1>3 DEF Step
<1> QED  BY <1>2, <1>5, <1>7, <1>8 DEF rest

-----------------------------------------------------------------------------
(* The token's index: what the token's transactions tell.                  *)

\* The votes told by the checkpoints are numbers.
LEMMA VotesInType ==
  ASSUME NEW h \in Histories
  PROVE  /\ VotesIn(h) \in [Accounts -> Nat]
         /\ \A d \in Accounts : CurrentVotes(h[d]) \in Nat
<1>1. \A d \in Accounts : h[d] \in Seq(Checkpoint)
  BY DEF Histories
<1>2. \A d \in Accounts : CurrentVotes(h[d]) \in Nat
  BY <1>1, CurrentVotesType
<1> QED  BY <1>2 DEF VotesIn

\* The events of _moveDelegates.
LEMMA MoveTold ==
  ASSUME NEW sent, NEW h \in Histories, NEW block \in Nat, NEW src \in Addresses,
         NEW dst \in Addresses, NEW amount \in Nat, CanMove(h, src, dst, amount),
         NEW s \in Tales, s.votes = VotesIn(h)
  PROVE  /\ MoveEvents(h, src, dst, amount) \in Seq(TokenEvents)
         /\ MoveDelegates(h, block, src, dst, amount) \in Histories
         /\ LeadTo(sent, s, MoveEvents(h, src, dst, amount),
                   [s EXCEPT !.votes = VotesIn(MoveDelegates(h, block, src, dst, amount))])
         /\ [s EXCEPT !.votes = VotesIn(MoveDelegates(h, block, src, dst, amount))] \in Tales
<1> DEFINE after == MoveDelegates(h, block, src, dst, amount)
           last  == [s EXCEPT !.votes = VotesIn(after)]
<1>1. after \in Histories
  BY MoveDelegatesShape
<1>2. VotesIn(h) \in [Accounts -> Nat] /\ \A d \in Accounts : CurrentVotes(h[d]) \in Nat
  BY VotesInType
<1>3. VotesIn(after) \in [Accounts -> Nat]
  BY <1>1, VotesInType
<1>4. CASE src = dst \/ amount = 0
  <2>1. after = h /\ MoveEvents(h, src, dst, amount) = <<>>
    BY <1>4 DEF MoveDelegates, MoveEvents
  <2>2. last = s
    BY <2>1 DEF Tales
  <2>3. <<>> \in Seq(TokenEvents)
    OBVIOUS
  <2> HIDE DEF after, last
  <2> QED  BY <1>1, <2>1, <2>2, <2>3, LeadNowhere DEF after, last
<1>5. CASE src # dst /\ amount > 0
  <2> DEFINE less   == [d \in Accounts |-> IF d = src THEN CurrentVotes(h[d]) - amount
                                           ELSE CurrentVotes(h[d])]
             mid    == [s EXCEPT !.votes = less]
             first  == IF src = Zero THEN <<>>
                       ELSE <<VotesChanged(src, CurrentVotes(h[src]),
                                           CurrentVotes(h[src]) - amount)>>
             second == IF dst = Zero THEN <<>>
                       ELSE <<VotesChanged(dst, CurrentVotes(h[dst]),
                                           CurrentVotes(h[dst]) + amount)>>
  <2>1. \A d \in Accounts :
          VotesIn(after)[d] = IF d = src THEN CurrentVotes(h[d]) - amount
                              ELSE IF d = dst THEN CurrentVotes(h[d]) + amount
                              ELSE CurrentVotes(h[d])
    BY <1>5, MoveDelegatesVotes DEF VotesIn
  <2>2. MoveEvents(h, src, dst, amount) = first \o second
    BY <1>5 DEF MoveEvents
  <2>3. src # Zero => CurrentVotes(h[src]) - amount \in Nat /\ src \in Accounts
    BY <1>2, <1>5 DEF CanMove, Addresses
  <2>4. less \in [Accounts -> Nat]
    BY <1>2, <2>3, ZeroAssumption
  <2> HIDE DEF after, less
  <2>5. mid \in Tales /\ last \in Tales /\ mid.votes = less
    BY <1>3, <2>4 DEF Tales
  <2>6. LeadTo(sent, s, first, mid) /\ first \in Seq(TokenEvents)
    <3>1. CASE src = Zero
      <4>1. less = VotesIn(h)
        BY <3>1, ZeroAssumption DEF less, VotesIn
      <4>2. mid = s
        BY <4>1 DEF Tales
      <4>3. first = <<>> /\ <<>> \in Seq(TokenEvents)
        BY <3>1
      <4> HIDE DEF mid, first
      <4> QED  BY <4>2, <4>3, LeadNowhere
    <3>2. CASE src # Zero
      <4> DEFINE e == VotesChanged(src, CurrentVotes(h[src]), CurrentVotes(h[src]) - amount)
      <4>1. first = <<e>>
        BY <3>2
      <4>2. e \in TokenEvents
        BY <1>2, <2>3, <3>2 DEF VotesChanged, TokenEvents
      <4>3. less = [s.votes EXCEPT ![src] = CurrentVotes(h[src]) - amount]
        BY <2>3, <3>2 DEF less, VotesIn
      <4>4. /\ e.event = "DelegateVotesChanged" /\ e.delegate = src
            /\ e.before = CurrentVotes(h[src]) /\ e.after = CurrentVotes(h[src]) - amount
        BY DEF VotesChanged
      <4>5. s.votes[src] = CurrentVotes(h[src])
        BY <2>3, <3>2 DEF VotesIn
      <4>6. CurrentVotes(h[src]) # CurrentVotes(h[src]) - amount
        BY <1>2, <1>5, <2>3, <3>2
      <4> HIDE DEF e
      <4>7. Leads(sent, s, e, mid)
        BY <4>3, <4>4, <4>5, <4>6 DEF Leads, Tales
      <4> HIDE DEF mid, first
      <4>8. <<e>> \in Seq(TokenEvents)
        BY <4>2
      <4> QED  BY <2>5, <4>1, <4>7, <4>8, LeadOne
    <3> QED  BY <3>1, <3>2
  <2>7. LeadTo(sent, mid, second, last) /\ second \in Seq(TokenEvents)
    <3>1. CASE dst = Zero
      <4>1. \A d \in Accounts : VotesIn(after)[d] = less[d]
        BY <2>1, <3>1, ZeroAssumption DEF less
      <4>2. VotesIn(after) = less
        BY <1>3, <2>4, <4>1
      <4>3. last = mid
        BY <4>2
      <4>4. second = <<>> /\ <<>> \in Seq(TokenEvents)
        BY <3>1
      <4> HIDE DEF mid, second, last
      <4> QED  BY <2>5, <4>3, <4>4, LeadNowhere
    <3>2. CASE dst # Zero
      <4> DEFINE e == VotesChanged(dst, CurrentVotes(h[dst]), CurrentVotes(h[dst]) + amount)
      <4>0. dst \in Accounts
        BY <3>2 DEF Addresses
      <4>1. second = <<e>>
        BY <3>2
      <4>2. e \in TokenEvents
        BY <1>2, <4>0 DEF VotesChanged, TokenEvents
      <4>3. VotesIn(after) = [less EXCEPT ![dst] = CurrentVotes(h[dst]) + amount]
        <5>1. \A d \in Accounts :
                VotesIn(after)[d] = [less EXCEPT ![dst] = CurrentVotes(h[dst]) + amount][d]
          BY <1>5, <2>1, <4>0 DEF less
        <5> QED  BY <1>2, <1>3, <2>4, <4>0, <5>1
      <4>4. /\ e.event = "DelegateVotesChanged" /\ e.delegate = dst
            /\ e.before = CurrentVotes(h[dst]) /\ e.after = CurrentVotes(h[dst]) + amount
        BY DEF VotesChanged
      <4>5. less[dst] = CurrentVotes(h[dst])
        BY <1>5, <4>0 DEF less
      <4>6. CurrentVotes(h[dst]) # CurrentVotes(h[dst]) + amount
        BY <1>2, <1>5, <4>0
      <4> HIDE DEF e
      <4>7. last = [mid EXCEPT !.votes = [less EXCEPT ![dst] = CurrentVotes(h[dst]) + amount]]
        BY <4>3 DEF Tales
      <4>8. Leads(sent, mid, e, last)
        <5> HIDE DEF mid, last
        <5> QED  BY <2>5, <4>4, <4>5, <4>6, <4>7 DEF Leads
      <4> HIDE DEF mid, last, second
      <4>9. <<e>> \in Seq(TokenEvents)
        BY <4>2
      <4> QED  BY <2>5, <4>1, <4>8, <4>9, LeadOne
    <3> QED  BY <3>1, <3>2
  <2> HIDE DEF mid, first, second, last
  <2>8. LeadTo(sent, s, first \o second, last) /\ first \o second \in Seq(TokenEvents)
    BY <2>6, <2>7, LeadBoth
  <2> QED  BY <1>1, <2>2, <2>5, <2>8 DEF last, after
<1> QED  BY <1>4, <1>5

\* Three events lead on from one another.
LEMMA LeadThree ==
  ASSUME NEW sent, NEW s \in Tales, NEW t \in Tales, NEW u \in Tales, NEW v \in Tales,
         NEW d, NEW e, NEW f, Leads(sent, s, d, t), Leads(sent, t, e, u), Leads(sent, u, f, v)
  PROVE  LeadTo(sent, s, <<d, e, f>>, v)
<1> DEFINE w  == [i \in 0 .. 3 |-> IF i = 0 THEN s ELSE IF i = 1 THEN t
                                   ELSE IF i = 2 THEN u ELSE v]
           es == <<d, e, f>>
<1>1. w \in [0 .. 3 -> Tales] /\ w[0] = s /\ w[1] = t /\ w[2] = u /\ w[3] = v
  OBVIOUS
<1>2. Len(es) = 3 /\ es[1] = d /\ es[2] = e /\ es[3] = f
  OBVIOUS
<1> HIDE DEF w, es
<1>3. ASSUME NEW i \in 1 .. 3
      PROVE  Step(sent, w, es, i)
  <2>1. \/ i = 1 /\ i - 1 = 0
        \/ i = 2 /\ i - 1 = 1
        \/ i = 3 /\ i - 1 = 2
    OBVIOUS
  <2> QED  BY <1>1, <1>2, <2>1 DEF Step
<1>4. LeadTo(sent, s, es, v)
  BY <1>1, <1>2, <1>3, Zenon DEF LeadTo
<1> QED  BY <1>4 DEF es

\* A Transfer tells who owns the noun.
LEMMA TransferTold ==
  ASSUME NEW sent, NEW s \in Tales, NEW id \in Ids, NEW from \in Addresses,
         NEW to \in Addresses, from = to => to \in sent,
         \/ from = Zero /\ to # Zero /\ s.owner[id] = Null
         \/ from # Zero /\ s.owner[id] = from
  PROVE  /\ [s EXCEPT !.owner = [@ EXCEPT ![id] = to]] \in Tales
         /\ Leads(sent, s, Transfer(from, to, id), [s EXCEPT !.owner = [@ EXCEPT ![id] = to]])
         /\ LeadTo(sent, s, <<Transfer(from, to, id)>>,
                   [s EXCEPT !.owner = [@ EXCEPT ![id] = to]])
         /\ <<Transfer(from, to, id)>> \in Seq(TokenEvents)
<1> DEFINE e == Transfer(from, to, id)
           t == [s EXCEPT !.owner = [@ EXCEPT ![id] = to]]
<1>1. e.event = "Transfer" /\ e.from = from /\ e.to = to /\ e.id = id /\ e \in TokenEvents
  BY DEF Transfer, TokenEvents
<1>2. t \in Tales
  BY DEF Tales
<1> HIDE DEF e
<1>3. Leads(sent, s, e, t)
  BY <1>1 DEF Leads
<1> HIDE DEF t
<1> QED  BY <1>1, <1>2, <1>3, LeadOne DEF t, e

\* Between the tales s and t noun id went to an account.
Given(s, t, id, to, created, h) ==
  /\ t.owner = [s.owner EXCEPT ![id] = to]
  /\ t.seeded = s.seeded \cup created
  /\ t.votes = VotesIn(h)

\* The events of one mint.
LEMMA MintTold ==
  ASSUME NEW sent, NEW h \in Histories, delegate \in [Accounts -> Addresses],
         blockNumber \in Nat, NEW to \in Accounts, NEW id \in Ids,
         NEW s \in Tales, s.owner[id] = Null, s.votes = VotesIn(h),
         TokenOwner = to => TokenOwner \in sent
  PROVE  /\ MintEvents(h, to, id) \in Seq(TokenEvents) /\ Hook(h, Zero, to) \in Histories
         /\ \E t \in Tales : /\ LeadTo(sent, s, MintEvents(h, to, id), t)
                             /\ Given(s, t, id, to, {id}, Hook(h, Zero, to))
<1> DEFINE moved  == MoveEvents(h, Zero, delegates(to), 1)
           s1     == [s EXCEPT !.votes = VotesIn(Hook(h, Zero, to))]
           s2     == [s1 EXCEPT !.owner = [@ EXCEPT ![id] = TokenOwner]]
           s3     == [s2 EXCEPT !.owner = [@ EXCEPT ![id] = to]]
           s4     == [s3 EXCEPT !.seeded = @ \cup {id}]
           first  == Transfer(Zero, TokenOwner, id)
           second == Transfer(TokenOwner, to, id)
           third  == [event |-> "NounCreated", id |-> id]
<1>1. delegates(Zero) = Zero /\ delegates(to) \in Addresses
  BY DEF delegates, Addresses
<1>2. Hook(h, Zero, to) = MoveDelegates(h, blockNumber, Zero, delegates(to), 1)
  BY <1>1 DEF Hook
<1>3. /\ moved \in Seq(TokenEvents) /\ Hook(h, Zero, to) \in Histories
      /\ LeadTo(sent, s, moved, s1) /\ s1 \in Tales
  <2>1. CanMove(h, Zero, delegates(to), 1) /\ Zero \in Addresses /\ 1 \in Nat
    BY CanMoveFromZero DEF Addresses
  <2> QED  BY <1>1, <1>2, <2>1, MoveTold
<1>4. s1.owner = s.owner /\ s1.seeded = s.seeded /\ s1.votes = VotesIn(Hook(h, Zero, to))
  BY <1>3 DEF Tales
<1> HIDE DEF s1, moved
<1>5. TokenOwner \in Addresses /\ to \in Addresses /\ Zero \in Addresses
      /\ TokenOwner # Zero /\ to # Zero
  BY SubgraphTokenAssumption, ZeroAssumption DEF Addresses
<1>6. s2 \in Tales /\ Leads(sent, s1, first, s2)
  BY <1>3, <1>4, <1>5, TransferTold
<1>7. /\ s2.owner = [s.owner EXCEPT ![id] = TokenOwner] /\ s2.owner[id] = TokenOwner
      /\ s2.seeded = s.seeded /\ s2.votes = s1.votes
  BY <1>3, <1>4 DEF Tales
<1> HIDE DEF s2, first, second
<1>8. s3 \in Tales /\ Leads(sent, s2, second, s3)
  BY <1>5, <1>6, <1>7, TransferTold DEF second
<1>9. /\ s3.owner = [s.owner EXCEPT ![id] = to] /\ s3.owner[id] = to
      /\ s3.seeded = s.seeded /\ s3.votes = s1.votes
  BY <1>6, <1>7 DEF Tales
<1> HIDE DEF s3
<1>10. s4 \in Tales /\ Leads(sent, s3, third, s4)
  <2>1. third.event = "NounCreated" /\ third.id = id
    OBVIOUS
  <2>2. s4 \in Tales
    BY <1>8 DEF Tales
  <2>3. to # Null
    BY <1>5, SubgraphTokenAssumption
  <2> HIDE DEF third
  <2>4. Leads(sent, s3, third, s4)
    BY <1>9, <2>1, <2>3 DEF Leads
  <2> QED  BY <2>2, <2>4
<1>11. s4.owner = s3.owner /\ s4.seeded = s3.seeded \cup {id} /\ s4.votes = s3.votes
  BY <1>8 DEF Tales
<1>12. <<first, second, third>> \in Seq(TokenEvents)
  <2>1. first \in TokenEvents /\ second \in TokenEvents /\ third \in TokenEvents
    BY <1>5 DEF first, second, Transfer, TokenEvents
  <2> HIDE DEF third
  <2> QED  BY <2>1
<1> HIDE DEF s4, third
<1> DEFINE rest == <<first, second, third>>
<1>13. MintEvents(h, to, id) = moved \o rest
  BY DEF MintEvents, moved, first, second, third
<1>14. LeadTo(sent, s1, rest, s4)
  BY <1>3, <1>6, <1>8, <1>10, LeadThree
<1> HIDE DEF rest
<1>15. LeadTo(sent, s, moved \o rest, s4) /\ moved \o rest \in Seq(TokenEvents)
  <2>1. rest \in Seq(TokenEvents)
    BY <1>12 DEF rest
  <2> QED  BY <1>3, <1>14, <2>1, LeadBoth
<1>16. Given(s, s4, id, to, {id}, Hook(h, Zero, to))
  BY <1>4, <1>9, <1>11 DEF Given
<1> QED  BY <1>3, <1>10, <1>13, <1>15, <1>16

\* The events of a transfer or a burn.
LEMMA SendTold ==
  ASSUME NEW sent, TypeOK, NEW s \in Tales, NEW id \in Ids, NEW to \in Addresses, Exists(id),
         CanHook(owner[id], to), owner[id] = to => to \in sent,
         s.owner[id] = owner[id], s.votes = VotesIn(checkpoints)
  PROVE  /\ SendEvents(owner[id], to, id) \in Seq(TokenEvents)
         /\ \E t \in Tales : /\ LeadTo(sent, s, SendEvents(owner[id], to, id), t)
                             /\ Given(s, t, id, to, {}, Hook(checkpoints, owner[id], to))
<1> DEFINE from  == owner[id]
           moved == MoveEvents(checkpoints, delegates(from), delegates(to), 1)
           s1    == [s EXCEPT !.votes = VotesIn(Hook(checkpoints, from, to))]
           s2    == [s1 EXCEPT !.owner = [@ EXCEPT ![id] = to]]
<1>1. /\ from \in Addresses /\ from # Zero /\ blockNumber \in Nat
      /\ checkpoints \in Histories
      /\ delegates(from) \in Addresses /\ delegates(to) \in Addresses
  BY DEF TypeOK, Exists, delegates, Addresses
<1>2. /\ moved \in Seq(TokenEvents) /\ LeadTo(sent, s, moved, s1) /\ s1 \in Tales
  BY <1>1, MoveTold DEF CanHook, Hook
<1>3. s1.owner = s.owner /\ s1.seeded = s.seeded /\ s1.votes = VotesIn(Hook(checkpoints, from, to))
  BY <1>2 DEF Tales
<1> HIDE DEF s1, moved
<1>4. /\ s2 \in Tales /\ LeadTo(sent, s1, <<Transfer(from, to, id)>>, s2)
      /\ <<Transfer(from, to, id)>> \in Seq(TokenEvents)
  BY <1>1, <1>2, <1>3, TransferTold
<1>5. s2.owner = [s.owner EXCEPT ![id] = to] /\ s2.seeded = s1.seeded /\ s2.votes = s1.votes
  BY <1>2, <1>3 DEF Tales
<1> HIDE DEF s2
<1>6. SendEvents(from, to, id) = moved \o <<Transfer(from, to, id)>>
  <2> DEFINE e == Transfer(from, to, id)
  <2>1. SendEvents(from, to, id) = Append(moved, e)
    BY DEF SendEvents, moved
  <2>2. e \in TokenEvents
    BY <1>1 DEF Transfer, TokenEvents
  <2> HIDE DEF e, from
  <2>3. Append(moved, e) = moved \o <<e>>
    BY <1>2, <2>2
  <2> QED  BY <2>1, <2>3 DEF e
<1>7. /\ LeadTo(sent, s, moved \o <<Transfer(from, to, id)>>, s2)
      /\ moved \o <<Transfer(from, to, id)>> \in Seq(TokenEvents)
  BY <1>2, <1>4, LeadBoth
<1>8. Given(s, s2, id, to, {}, Hook(checkpoints, from, to))
  BY <1>3, <1>5 DEF Given
<1> QED  BY <1>4, <1>6, <1>7, <1>8

\* Tale t is of a token with these owners, next id and checkpoints.
Agrees(t, own, next, h) ==
  /\ t \in Tales /\ own \in [Ids -> Addresses] /\ next \in Nat /\ h \in Histories
  /\ \A id \in Ids : t.owner[id] = IF id < next THEN own[id] ELSE Null
  /\ \A id \in Ids : id \in t.seeded <=> id < next
  /\ t.votes = VotesIn(h)

\* A tale that agrees with the chain is the one the chain tells.
LEMMA SameTale ==
  ASSUME NEW t, NEW own, NEW next, NEW h, Agrees(t, own, next, h)
  PROVE  t = Tale(own, next, h)
<1>1. t = [owner |-> t.owner, seeded |-> t.seeded, votes |-> t.votes]
  BY DEF Tales, Agrees
<1>2. t.owner = [id \in Ids |-> IF id < next THEN own[id] ELSE Null]
  BY DEF Tales, Agrees
<1>3. t.seeded = {id \in Ids : id < next}
  BY DEF Tales, Agrees
<1> QED  BY <1>1, <1>2, <1>3 DEF Tale, Agrees

\* The chain agrees with its own tale.
LEMMA OnChainAgrees ==
  ASSUME TypeOK
  PROVE  Agrees(OnChain, owner, currentNounId, checkpoints)
<1>1. VotesIn(checkpoints) \in [Accounts -> Nat]
  BY VotesInType DEF TypeOK
<1>2. owner \in [Ids -> Addresses] /\ currentNounId \in Nat /\ checkpoints \in Histories
  BY DEF TypeOK
<1> QED  BY <1>1, <1>2 DEF OnChain, Tale, Tales, Agrees

\* A mint, and a transfer or a burn.
LEMMA MintAgrees ==
  ASSUME NEW s, NEW t \in Tales, NEW own, NEW next, NEW h, NEW g \in Histories,
         NEW to \in Addresses, next \in Ids, Agrees(s, own, next, h),
         Given(s, t, next, to, {next}, g)
  PROVE  Agrees(t, [own EXCEPT ![next] = to], next + 1, g)
<1>1. next \in Nat /\ own \in [Ids -> Addresses] /\ s \in Tales
  BY DEF Agrees
<1> SUFFICES ASSUME NEW id \in Ids
             PROVE  /\ t.owner[id] = IF id < next + 1 THEN [own EXCEPT ![next] = to][id] ELSE Null
                    /\ id \in t.seeded <=> id < next + 1
  BY <1>1 DEF Agrees, Given
<1>2. id < next + 1 <=> id < next \/ id = next
  BY <1>1 DEF Ids
<1>3. ~(next < next)
  BY <1>1
<1> QED  BY <1>1, <1>2, <1>3 DEF Agrees, Given, Tales

\* A noun given away is given away in the tale.
LEMMA SendAgrees ==
  ASSUME NEW s, NEW t \in Tales, NEW own, NEW next, NEW h, NEW g \in Histories,
         NEW to \in Addresses, NEW id \in Ids, id < next, Agrees(s, own, next, h),
         Given(s, t, id, to, {}, g)
  PROVE  Agrees(t, [own EXCEPT ![id] = to], next, g)
<1>1. own \in [Ids -> Addresses] /\ s \in Tales
  BY DEF Agrees
<1> QED  BY <1>1 DEF Agrees, Given, Tales

TokenTransaction ==
  \/ Mints
  \/ \E id \in Ids : Burns(id)
  \/ \E id \in Ids, to \in Accounts : Sends(id, to)
  \/ \E a \in Delegators, d \in Addresses : Delegates(a, d)
  \/ \E sig \in Signatures : DelegatesBySig(sig)

\* What a transaction tells leads from the token before it to the token after.
LEMMA TransactionTold ==
  ASSUME TypeOK, TypeOK', UnmintedUnowned, TokenTransaction
  PROVE  /\ LeadTo(selfSent', OnChain, events', OnChain')
         /\ events' \in Seq(TokenEvents)
         /\ UNCHANGED indexed /\ selfSent \subseteq selfSent'
<1>1. /\ owner \in [Ids -> Addresses] /\ owner' \in [Ids -> Addresses]
      /\ delegate \in [Accounts -> Addresses]
      /\ checkpoints \in Histories /\ checkpoints' \in Histories
      /\ blockNumber \in Nat /\ currentNounId \in Nat
      /\ minter \in Addresses /\ noundersDAO \in Addresses
      /\ Ids \subseteq Nat
  BY DEF TypeOK, Ids
<1>2. Agrees(OnChain, owner, currentNounId, checkpoints)
  BY OnChainAgrees
<1>3. ASSUME NEW t, Agrees(t, owner', currentNounId', checkpoints')
      PROVE  t = OnChain'
  <2>1. t = Tale(owner', currentNounId', checkpoints')
    BY <1>3, SameTale
  <2> QED  BY <2>1 DEF OnChain, Tale
<1> HIDE DEF OnChain
<1>4. ASSUME NEW s, NEW own, NEW next, NEW h, NEW to \in Accounts, next \in Ids,
             Agrees(s, own, next, h), TokenOwner = to => TokenOwner \in selfSent'
      PROVE  /\ MintEvents(h, to, next) \in Seq(TokenEvents)
             /\ \E t \in Tales :
                  /\ LeadTo(selfSent', s, MintEvents(h, to, next), t)
                  /\ Agrees(t, [own EXCEPT ![next] = to], next + 1, Hook(h, Zero, to))
  <2>1. /\ s \in Tales /\ h \in Histories /\ s.votes = VotesIn(h) /\ s.owner[next] = Null
        /\ to \in Addresses
    <3>1. next \in Nat
      BY <1>4 DEF Agrees
    <3>2. ~(next < next)
      BY <3>1
    <3> QED  BY <1>4, <3>2 DEF Agrees, Addresses
  <2> DEFINE es == MintEvents(h, to, next)
             g  == Hook(h, Zero, to)
  <2>2. /\ es \in Seq(TokenEvents) /\ g \in Histories
        /\ \E t \in Tales : LeadTo(selfSent', s, es, t) /\ Given(s, t, next, to, {next}, g)
    BY <1>1, <1>4, <2>1, MintTold
  <2> HIDE DEF es, g
  <2>3. PICK t \in Tales : LeadTo(selfSent', s, es, t) /\ Given(s, t, next, to, {next}, g)
    BY <2>2
  <2>4. Agrees(t, [own EXCEPT ![next] = to], next + 1, g)
    BY <1>4, <2>1, <2>2, <2>3, MintAgrees
  <2> QED  BY <2>2, <2>3, <2>4 DEF es, g
<1>5. ASSUME Mints
      PROVE  LeadTo(selfSent', OnChain, events', OnChain') /\ events' \in Seq(TokenEvents)
  <2>1. CASE MintOne
    <3>1. /\ ~RewardDue /\ currentNounId \in Ids /\ minter \in Accounts
          /\ owner' = [owner EXCEPT ![currentNounId] = minter]
          /\ checkpoints' = Hook(checkpoints, Zero, minter)
          /\ currentNounId' = currentNounId + 1
      BY <1>1, <2>1 DEF MintOne, Addresses
    <3>2. /\ events' = MintEvents(checkpoints, minter, currentNounId)
          /\ TokenOwner = minter => TokenOwner \in selfSent'
      BY <1>5, <3>1 DEF Mints, Transacts
    <3> DEFINE es == MintEvents(checkpoints, minter, currentNounId)
    <3>3. /\ es \in Seq(TokenEvents)
          /\ \E t \in Tales :
               /\ LeadTo(selfSent', OnChain, es, t)
               /\ Agrees(t, [owner EXCEPT ![currentNounId] = minter], currentNounId + 1,
                         Hook(checkpoints, Zero, minter))
      BY <1>2, <1>4, <3>1, <3>2
    <3> HIDE DEF es
    <3>4. PICK t \in Tales : /\ LeadTo(selfSent', OnChain, es, t)
                             /\ Agrees(t, owner', currentNounId', checkpoints')
      BY <3>1, <3>3
    <3> QED  BY <1>3, <3>2, <3>3, <3>4 DEF es
  <2>2. CASE MintReward
    <3> DEFINE h    == Hook(checkpoints, Zero, noundersDAO)
               next == currentNounId + 1
               own  == [owner EXCEPT ![currentNounId] = noundersDAO]
               first  == MintEvents(checkpoints, noundersDAO, currentNounId)
               second == MintEvents(h, minter, next)
    <3>1. /\ RewardDue /\ currentNounId \in Ids /\ next \in Ids
          /\ minter \in Accounts /\ noundersDAO \in Accounts
          /\ owner' = [own EXCEPT ![next] = minter]
          /\ checkpoints' = Hook(h, Zero, minter)
          /\ currentNounId' = next + 1
      <4>1. currentNounId \in Ids
        BY <1>1, <2>2, NounsTokenAssumption DEF MintReward, Ids
      <4> QED  BY <1>1, <2>2, <4>1 DEF MintReward, Addresses
    <3>2. /\ events' = first \o second
          /\ TokenOwner = minter \/ TokenOwner = noundersDAO => TokenOwner \in selfSent'
      BY <1>5, <3>1 DEF Mints, Transacts
    <3>3. /\ first \in Seq(TokenEvents)
          /\ \E t \in Tales :
               LeadTo(selfSent', OnChain, first, t) /\ Agrees(t, own, next, h)
      BY <1>2, <1>4, <3>1, <3>2
    <3> HIDE DEF h, own, next, first
    <3>4. PICK s \in Tales : LeadTo(selfSent', OnChain, first, s) /\ Agrees(s, own, next, h)
      BY <3>3
    <3>5. /\ second \in Seq(TokenEvents)
          /\ \E t \in Tales :
               /\ LeadTo(selfSent', s, second, t)
               /\ Agrees(t, [own EXCEPT ![next] = minter], next + 1, Hook(h, Zero, minter))
      BY <1>4, <3>1, <3>2, <3>4
    <3> HIDE DEF second
    <3>6. PICK t \in Tales : /\ LeadTo(selfSent', s, second, t)
                             /\ Agrees(t, owner', currentNounId', checkpoints')
      BY <3>1, <3>5
    <3>7. LeadTo(selfSent', OnChain, first \o second, t) /\ first \o second \in Seq(TokenEvents)
      BY <3>3, <3>4, <3>5, <3>6, LeadBoth
    <3> QED  BY <1>3, <3>2, <3>6, <3>7
  <2> QED  BY <1>5, <2>1, <2>2 DEF Mints, mint
<1>6. ASSUME NEW id \in Ids, NEW to \in Addresses, Exists(id), CanHook(owner[id], to),
             owner[id] = to => to \in selfSent', events' = SendEvents(owner[id], to, id),
             owner' = [owner EXCEPT ![id] = to], currentNounId' = currentNounId,
             checkpoints' = Hook(checkpoints, owner[id], to)
      PROVE  LeadTo(selfSent', OnChain, events', OnChain') /\ events' \in Seq(TokenEvents)
  <2>1. id < currentNounId
    BY <1>1, <1>6 DEF UnmintedUnowned, Exists
  <2>2. OnChain \in Tales /\ OnChain.owner[id] = owner[id] /\ OnChain.votes = VotesIn(checkpoints)
    BY <1>2, <2>1 DEF Agrees
  <2> DEFINE es == SendEvents(owner[id], to, id)
  <2>3. /\ es \in Seq(TokenEvents)
        /\ \E t \in Tales :
             /\ LeadTo(selfSent', OnChain, es, t)
             /\ Given(OnChain, t, id, to, {}, Hook(checkpoints, owner[id], to))
    BY <1>6, <2>2, SendTold
  <2> HIDE DEF es
  <2>4. PICK t \in Tales : /\ LeadTo(selfSent', OnChain, es, t)
                           /\ Given(OnChain, t, id, to, {}, checkpoints')
    BY <1>6, <2>3
  <2>5. Agrees(t, owner', currentNounId', checkpoints')
    BY <1>1, <1>2, <1>6, <2>1, <2>4, SendAgrees
  <2> QED  BY <1>3, <1>6, <2>3, <2>4, <2>5 DEF es
<1>7. ASSUME NEW id \in Ids, Burns(id)
      PROVE  LeadTo(selfSent', OnChain, events', OnChain') /\ events' \in Seq(TokenEvents)
  <2>1. /\ Exists(id) /\ CanHook(owner[id], Zero) /\ owner[id] # Zero /\ Zero \in Addresses
        /\ owner' = [owner EXCEPT ![id] = Zero] /\ currentNounId' = currentNounId
        /\ checkpoints' = Hook(checkpoints, owner[id], Zero)
        /\ events' = SendEvents(owner[id], Zero, id)
    BY <1>7 DEF Burns, burn, Transacts, Exists, Addresses
  <2> QED  BY <1>6, <2>1
<1>8. ASSUME NEW id \in Ids, NEW to \in Accounts, Sends(id, to)
      PROVE  LeadTo(selfSent', OnChain, events', OnChain') /\ events' \in Seq(TokenEvents)
  <2>1. /\ Exists(id) /\ CanHook(owner[id], to) /\ to \in Addresses
        /\ owner' = [owner EXCEPT ![id] = to] /\ currentNounId' = currentNounId
        /\ checkpoints' = Hook(checkpoints, owner[id], to)
        /\ events' = SendEvents(owner[id], to, id)
        /\ owner[id] = to => to \in selfSent'
    BY <1>8 DEF Sends, transferFrom, isApprovedOrOwner, Transacts, Addresses
  <2> QED  BY <1>6, <2>1
<1>9. ASSUME NEW a \in Accounts, NEW delegatee \in Addresses, DelegateTo(a, delegatee),
             events' = DelegateEvents(a, delegatee), UNCHANGED <<owner, currentNounId>>
      PROVE  LeadTo(selfSent', OnChain, events', OnChain') /\ events' \in Seq(TokenEvents)
  <2> DEFINE amount    == balanceOf(a)
             e         == [event |-> "DelegateChanged", delegator |-> a,
                           from |-> delegates(a), to |-> delegatee]
             moved     == MoveEvents(checkpoints, delegates(a), delegatee, amount)
             after     == MoveDelegates(checkpoints, blockNumber, delegates(a), delegatee, amount)
  <2>1. delegates(a) \in Accounts
    BY <1>1, ZeroAssumption DEF Addresses, delegates
  <2>2. amount \in Nat
    BY IdsFinite DEF balanceOf, NounsOf
  <2>3. /\ CanMove(checkpoints, delegates(a), delegatee, amount)
        /\ checkpoints' = after /\ owner' = owner /\ currentNounId' = currentNounId
        /\ events' = <<e>> \o moved
    BY <1>9 DEF DelegateTo, DelegateEvents
  <2>4. e \in TokenEvents /\ e.event = "DelegateChanged"
    BY <2>1 DEF TokenEvents
  <2>5. OnChain \in Tales /\ OnChain.votes = VotesIn(checkpoints)
    BY <1>2 DEF Agrees
  <2> HIDE DEF e, amount
  <2>6. LeadTo(selfSent', OnChain, <<e>>, OnChain) /\ <<e>> \in Seq(TokenEvents)
    <3>1. Leads(selfSent', OnChain, e, OnChain)
      BY <2>4 DEF Leads
    <3> QED  BY <2>4, <2>5, <3>1, LeadOne
  <2> DEFINE t == [OnChain EXCEPT !.votes = VotesIn(after)]
  <2>7. moved \in Seq(TokenEvents) /\ LeadTo(selfSent', OnChain, moved, t) /\ t \in Tales
    <3>1. delegates(a) \in Addresses /\ delegatee \in Addresses
      BY <2>1 DEF Addresses
    <3> QED  BY <1>1, <2>2, <2>3, <2>5, <3>1, MoveTold
  <2>8. t.owner = OnChain.owner /\ t.seeded = OnChain.seeded /\ t.votes = VotesIn(checkpoints')
    BY <2>3, <2>5 DEF Tales
  <2> HIDE DEF t, moved, after
  <2>9. LeadTo(selfSent', OnChain, <<e>> \o moved, t) /\ <<e>> \o moved \in Seq(TokenEvents)
    BY <2>6, <2>7, LeadBoth
  <2>10. Agrees(t, owner', currentNounId', checkpoints')
    BY <1>1, <1>2, <2>3, <2>7, <2>8 DEF Agrees
  <2> QED  BY <1>3, <2>3, <2>9, <2>10
<1>10. ASSUME NEW a \in Delegators, NEW d \in Addresses, Delegates(a, d)
       PROVE  LeadTo(selfSent', OnChain, events', OnChain') /\ events' \in Seq(TokenEvents)
  <2> DEFINE delegatee == IF d = Zero THEN a ELSE d
  <2>1. a \in Accounts /\ delegatee \in Addresses
    BY NounsTokenAssumption DEF Addresses
  <2>2. /\ DelegateTo(a, delegatee) /\ events' = DelegateEvents(a, delegatee)
        /\ UNCHANGED <<owner, currentNounId>>
    BY <1>10 DEF Delegates, Delegate, Transacts, ownership
  <2> HIDE DEF delegatee
  <2> QED  BY <1>9, <2>1, <2>2
<1>11. ASSUME NEW sig \in Signatures, DelegatesBySig(sig)
       PROVE  LeadTo(selfSent', OnChain, events', OnChain') /\ events' \in Seq(TokenEvents)
  <2>1. sig.signatory \in Accounts /\ sig.delegatee \in Addresses
    BY NounsTokenAssumption DEF Signature
  <2>2. /\ DelegateTo(sig.signatory, sig.delegatee)
        /\ events' = DelegateEvents(sig.signatory, sig.delegatee)
        /\ UNCHANGED <<owner, currentNounId>>
    BY <1>11 DEF DelegatesBySig, delegateBySig, Transacts, ownership
  <2> QED  BY <1>9, <2>1, <2>2
<1>12. UNCHANGED indexed /\ selfSent \subseteq selfSent'
  BY DEF TokenTransaction, Mints, Burns, Sends, Delegates, DelegatesBySig, Transacts
<1> QED  BY <1>5, <1>7, <1>8, <1>10, <1>11, <1>12 DEF TokenTransaction

-----------------------------------------------------------------------------
(* The token's index: what the handlers make of the events.                *)

AccountEntities == [balance : Int, nouns : [Ids -> Nat], delegate : Addresses \cup {Null}]
DelegateEntities ==
  [exists : BOOLEAN, delegatedVotes : Nat, holders : Int, nounsRepresented : [Ids -> Nat]]
GovernanceEntities ==
  [totalTokenHolders : Int, currentTokenHolders : Int, currentDelegates : Int,
   totalDelegates : Int, delegatedVotes : Int]
NounEntities == [owner : Addresses \cup {Null}, seeded : BOOLEAN]

EntitiesTypeOK ==
  /\ account \in [Addresses -> AccountEntities]
  /\ representative \in [Addresses -> DelegateEntities]
  /\ governance \in GovernanceEntities
  /\ nounEntity \in [Ids -> NounEntities]

IndexedNounsOf(a) == {id \in Ids : nounEntity[id].owner = a}
NounsInCirculation == {id \in Ids : nounEntity[id].owner \in Accounts}
IndexedVotes == [d \in Accounts |-> representative[d].delegatedVotes]
Voting == {d \in Accounts : representative[d].delegatedVotes > 0}

\* The entities agree with each other, whatever is still to be handled.
HoldingsAddUp ==
  /\ \A a \in Accounts \ selfSent :
       /\ NounsIn(account[a].nouns) = IndexedNounsOf(a)
       /\ account[a].balance = Cardinality(IndexedNounsOf(a))
  /\ selfSent = {} => governance.currentTokenHolders = Cardinality(Holders)
  /\ account[Zero].balance >= 0
  /\ governance.totalTokenHolders = Cardinality(NounsInCirculation)

VotesAddUp ==
  /\ governance.delegatedVotes = SumFunctionOnSet(IndexedVotes, Accounts)
  /\ governance.currentDelegates = Cardinality(Voting)

\* The accounts are finitely many.
LEMMA AccountsFinite ==
  /\ IsFiniteSet(Accounts) /\ IsFiniteSet(Addresses)
  /\ \A S \in SUBSET Addresses : IsFiniteSet(S) /\ Cardinality(S) \in Nat
  /\ \A S \in SUBSET Accounts : IsFiniteSet(S) /\ Cardinality(S) \in Nat
<1>1. IsFiniteSet(Accounts)
  BY NounsTokenAssumption
<1>2. IsFiniteSet(Addresses)
  BY <1>1, FS_AddElement DEF Addresses
<1> QED  BY <1>1, <1>2, FS_Subset, FS_CardinalityType

\* Creating a delegate changes nobody's votes.
LEMMA CreatedDelegate ==
  ASSUME NEW reps \in [Addresses -> DelegateEntities], NEW d
  PROVE  /\ getOrCreateDelegate(reps, d) \in [Addresses -> DelegateEntities]
         /\ \A a \in Addresses :
              getOrCreateDelegate(reps, d)[a].delegatedVotes = reps[a].delegatedVotes
BY DEF getOrCreateDelegate, DelegateEntities

\* A delegate's holders and nouns are rewritten without its votes.
LEMMA DelegateReplaced ==
  ASSUME NEW r \in DelegateEntities, NEW n \in Int, NEW bag \in [Ids -> Nat]
  PROVE  /\ [r EXCEPT !.holders = n, !.nounsRepresented = bag] \in DelegateEntities
         /\ [r EXCEPT !.holders = n, !.nounsRepresented = bag].delegatedVotes = r.delegatedVotes
BY DEF DelegateEntities

\* The Governance entity with other counts.
Votes(gov, x, y) == [gov EXCEPT !.currentDelegates = x, !.delegatedVotes = y]
Counts(gov, x, y) == [gov EXCEPT !.totalTokenHolders = x, !.currentTokenHolders = y]

\* The votes of the governance entity are rewritten without its holders.
LEMMA GovernanceReplaced ==
  ASSUME NEW gov \in GovernanceEntities, NEW x \in Int, NEW y \in Int
  PROVE  /\ Votes(gov, x, y) \in GovernanceEntities
         /\ Votes(gov, x, y).totalTokenHolders = gov.totalTokenHolders
         /\ Votes(gov, x, y).currentTokenHolders = gov.currentTokenHolders
         /\ Votes(gov, x, y).currentDelegates = x /\ Votes(gov, x, y).delegatedVotes = y
         /\ Counts(gov, x, y) \in GovernanceEntities
         /\ Counts(gov, x, y).totalTokenHolders = x
         /\ Counts(gov, x, y).currentTokenHolders = y
         /\ Counts(gov, x, y).currentDelegates = gov.currentDelegates
         /\ Counts(gov, x, y).delegatedVotes = gov.delegatedVotes
BY DEF GovernanceEntities, Votes, Counts

\* Counting new delegates leaves the holders alone.
LEMMA CountedCreated ==
  ASSUME NEW gov \in GovernanceEntities, NEW reps, NEW ds, ds \subseteq Addresses
  PROVE  /\ CountCreated(gov, reps, ds) \in GovernanceEntities
         /\ CountCreated(gov, reps, ds).totalTokenHolders = gov.totalTokenHolders
         /\ CountCreated(gov, reps, ds).currentTokenHolders = gov.currentTokenHolders
         /\ CountCreated(gov, reps, ds).currentDelegates = gov.currentDelegates
         /\ CountCreated(gov, reps, ds).delegatedVotes = gov.delegatedVotes
<1> DEFINE n == Cardinality({d \in ds \ {Zero} : ~reps[d].exists})
<1>1. n \in Nat
  <2>1. {d \in ds \ {Zero} : ~reps[d].exists} \in SUBSET Addresses
    OBVIOUS
  <2> QED  BY <2>1, AccountsFinite
<1>2. CountCreated(gov, reps, ds) = [gov EXCEPT !.totalDelegates = @ + n]
  BY DEF CountCreated
<1> HIDE DEF n
<1> QED  BY <1>1, <1>2 DEF GovernanceEntities

\* Shown and the sums look at these fields only.
LEMMA SameVotes ==
  ASSUME EntitiesTypeOK, EntitiesTypeOK', VotesAddUp,
         \A d \in Accounts : representative'[d].delegatedVotes = representative[d].delegatedVotes,
         governance'.delegatedVotes = governance.delegatedVotes,
         governance'.currentDelegates = governance.currentDelegates
  PROVE  VotesAddUp' /\ Shown'.votes = Shown.votes
<1>1. IndexedVotes' = IndexedVotes /\ Voting' = Voting
  BY DEF IndexedVotes, Voting
<1>2. VotesAddUp'
  BY <1>1 DEF VotesAddUp
<1> QED  BY <1>1, <1>2 DEF Shown, IndexedVotes

\* What touches no holding leaves them adding up.
LEMMA SameHoldings ==
  ASSUME EntitiesTypeOK, EntitiesTypeOK', HoldingsAddUp, selfSent \subseteq selfSent',
         \A a \in Addresses : /\ account'[a].nouns = account[a].nouns
                              /\ account'[a].balance = account[a].balance,
         \A id \in Ids : nounEntity'[id].owner = nounEntity[id].owner,
         governance'.totalTokenHolders = governance.totalTokenHolders,
         governance'.currentTokenHolders = governance.currentTokenHolders
  PROVE  HoldingsAddUp' /\ Shown'.owner = Shown.owner
<1>1. /\ Holders' = Holders /\ NounsInCirculation' = NounsInCirculation
      /\ \A a : IndexedNounsOf(a)' = IndexedNounsOf(a)
  BY DEF Holders, NounsInCirculation, IndexedNounsOf
<1>2. Accounts \subseteq Addresses /\ selfSent' = {} => selfSent = {}
  BY DEF Addresses
<1>3. \A a \in Accounts \ selfSent' :
        /\ NounsIn(account'[a].nouns) = IndexedNounsOf(a)'
        /\ account'[a].balance = Cardinality(IndexedNounsOf(a)')
  BY <1>1 DEF HoldingsAddUp, Addresses
<1>4. account'[Zero].balance >= 0
  BY DEF HoldingsAddUp, Addresses
<1>5. HoldingsAddUp'
  BY <1>1, <1>2, <1>3, <1>4 DEF HoldingsAddUp
<1> QED  BY <1>5 DEF Shown

\* handleNounCreated.
LEMMA HandlesCreated ==
  ASSUME EntitiesTypeOK, HoldingsAddUp, VotesAddUp, NEW e \in TokenEvents,
         e.event = "NounCreated", NEW t, Leads(selfSent, Shown, e, t),
         handleNounCreated(e), UNCHANGED selfSent
  PROVE  EntitiesTypeOK' /\ HoldingsAddUp' /\ VotesAddUp' /\ Shown' = t
<1>1. /\ e.id \in Ids /\ Shown.owner[e.id] # Null
      /\ t = [Shown EXCEPT !.seeded = @ \cup {e.id}]
  BY DEF Leads, TokenEvents
<1>2. nounEntity[e.id].owner # Null
  BY <1>1 DEF Shown
<1>3. /\ nounEntity' = [nounEntity EXCEPT ![e.id].seeded = TRUE]
      /\ account' = account /\ representative' = representative /\ governance' = governance
  BY <1>2 DEF handleNounCreated
<1>4. EntitiesTypeOK'
  BY <1>1, <1>3 DEF EntitiesTypeOK, NounEntities
<1>5. \A id \in Ids : /\ nounEntity'[id].owner = nounEntity[id].owner
                      /\ nounEntity'[id].seeded = IF id = e.id THEN TRUE ELSE nounEntity[id].seeded
  BY <1>1, <1>3 DEF EntitiesTypeOK, NounEntities
<1>6. HoldingsAddUp' /\ Shown'.owner = Shown.owner
  BY <1>3, <1>4, <1>5, SameHoldings
<1>7. VotesAddUp' /\ Shown'.votes = Shown.votes
  BY <1>3, <1>4, SameVotes
<1>8. Shown'.seeded = Shown.seeded \cup {e.id}
  BY <1>1, <1>5 DEF Shown
<1>9. Shown' = t
  BY <1>1, <1>6, <1>7, <1>8 DEF Shown
<1> QED  BY <1>4, <1>6, <1>7, <1>9

\* handleDelegateChanged.
LEMMA HandlesDelegation ==
  ASSUME EntitiesTypeOK, HoldingsAddUp, VotesAddUp, NEW e \in TokenEvents,
         e.event = "DelegateChanged", NEW t, Leads(selfSent, Shown, e, t),
         handleDelegateChanged(e), UNCHANGED selfSent
  PROVE  EntitiesTypeOK' /\ HoldingsAddUp' /\ VotesAddUp' /\ Shown' = t
<1>1. /\ e.delegator \in Addresses /\ e.from \in Addresses /\ e.to \in Addresses
      /\ t = Shown
  BY DEF Leads, TokenEvents, Addresses
<1> DEFINE held     == account[e.delegator].nouns
           reps     == getOrCreateDelegate(getOrCreateDelegate(representative, e.from), e.to)
           previous == [reps[e.from] EXCEPT !.holders = @ - 1,
                                            !.nounsRepresented = Without(@, NounsIn(held))]
           new      == [reps[e.to] EXCEPT !.holders = @ + 1,
                                          !.nounsRepresented = [id \in Ids |-> @[id] + held[id]]]
<1>2. /\ account' = [account EXCEPT ![e.delegator].delegate = e.to]
      /\ representative' = [[reps EXCEPT ![e.from] = previous] EXCEPT ![e.to] = new]
      /\ governance' = CountCreated(governance, representative, {e.from, e.to})
      /\ nounEntity' = nounEntity
  BY DEF handleDelegateChanged
<1>3. held \in [Ids -> Nat]
  BY <1>1 DEF EntitiesTypeOK, AccountEntities
<1>4. /\ reps \in [Addresses -> DelegateEntities]
      /\ \A a \in Addresses : reps[a].delegatedVotes = representative[a].delegatedVotes
  <2> DEFINE first == getOrCreateDelegate(representative, e.from)
  <2>1. /\ first \in [Addresses -> DelegateEntities]
        /\ \A a \in Addresses : first[a].delegatedVotes = representative[a].delegatedVotes
    BY CreatedDelegate DEF EntitiesTypeOK
  <2>2. reps = getOrCreateDelegate(first, e.to)
    OBVIOUS
  <2> HIDE DEF first, reps
  <2> QED  BY <2>1, <2>2, CreatedDelegate
<1> HIDE DEF held, reps
<1>5. previous \in DelegateEntities /\ previous.delegatedVotes = reps[e.from].delegatedVotes
  <2> DEFINE n   == reps[e.from].holders - 1
             bag == Without(reps[e.from].nounsRepresented, NounsIn(held))
  <2>1. previous = [reps[e.from] EXCEPT !.holders = n, !.nounsRepresented = bag]
    OBVIOUS
  <2>2. reps[e.from] \in DelegateEntities /\ n \in Int /\ bag \in [Ids -> Nat]
    BY <1>1, <1>4 DEF DelegateEntities, Without
  <2> HIDE DEF n, bag, previous
  <2> QED  BY <2>1, <2>2, DelegateReplaced
<1>6. new \in DelegateEntities /\ new.delegatedVotes = reps[e.to].delegatedVotes
  <2> DEFINE n   == reps[e.to].holders + 1
             bag == [id \in Ids |-> reps[e.to].nounsRepresented[id] + held[id]]
  <2>1. new = [reps[e.to] EXCEPT !.holders = n, !.nounsRepresented = bag]
    OBVIOUS
  <2>2. reps[e.to] \in DelegateEntities /\ n \in Int /\ bag \in [Ids -> Nat]
    BY <1>1, <1>3, <1>4 DEF DelegateEntities
  <2> HIDE DEF n, bag, new
  <2> QED  BY <2>1, <2>2, DelegateReplaced
<1> HIDE DEF previous, new
<1>7. /\ representative' \in [Addresses -> DelegateEntities]
      /\ \A a \in Addresses :
           representative'[a].delegatedVotes = representative[a].delegatedVotes
  BY <1>1, <1>2, <1>4, <1>5, <1>6
<1>8. /\ account' \in [Addresses -> AccountEntities]
      /\ \A a \in Addresses : /\ account'[a].nouns = account[a].nouns
                              /\ account'[a].balance = account[a].balance
  BY <1>1, <1>2 DEF EntitiesTypeOK, AccountEntities
<1>9. /\ governance' \in GovernanceEntities
      /\ governance'.totalTokenHolders = governance.totalTokenHolders
      /\ governance'.currentTokenHolders = governance.currentTokenHolders
      /\ governance'.currentDelegates = governance.currentDelegates
      /\ governance'.delegatedVotes = governance.delegatedVotes
  <2>1. {e.from, e.to} \subseteq Addresses /\ governance \in GovernanceEntities
    BY <1>1 DEF EntitiesTypeOK
  <2> QED  BY <1>2, <2>1, CountedCreated
<1>10. EntitiesTypeOK'
  BY <1>2, <1>7, <1>8, <1>9 DEF EntitiesTypeOK
<1>11. HoldingsAddUp' /\ Shown'.owner = Shown.owner
  BY <1>2, <1>8, <1>9, <1>10, SameHoldings
<1>12. VotesAddUp' /\ Shown'.votes = Shown.votes
  BY <1>7, <1>9, <1>10, SameVotes DEF Addresses
<1>13. Shown'.seeded = Shown.seeded
  BY <1>2 DEF Shown
<1>14. Shown' = t
  BY <1>1, <1>11, <1>12, <1>13 DEF Shown
<1> QED  BY <1>10, <1>11, <1>12, <1>14

\* handleDelegateVotesChanged.
LEMMA HandlesVotes ==
  ASSUME EntitiesTypeOK, HoldingsAddUp, VotesAddUp, NEW e \in TokenEvents,
         e.event = "DelegateVotesChanged", NEW t, Leads(selfSent, Shown, e, t),
         handleDelegateVotesChanged(e), UNCHANGED selfSent
  PROVE  EntitiesTypeOK' /\ HoldingsAddUp' /\ VotesAddUp' /\ Shown' = t
<1> DEFINE d == e.delegate
           reps == getOrCreateDelegate(representative, d)
<1>1. /\ d \in Accounts /\ d \in Addresses /\ e.before \in Nat /\ e.after \in Nat
      /\ e.before = representative[d].delegatedVotes /\ e.before # e.after
      /\ t = [Shown EXCEPT !.votes = [@ EXCEPT ![d] = e.after]]
  <2>1. d \in Accounts /\ e.before \in Nat /\ e.after \in Nat
    BY DEF TokenEvents
  <2>2. /\ e.before = Shown.votes[d] /\ e.before # e.after
        /\ t = [Shown EXCEPT !.votes = [@ EXCEPT ![d] = e.after]]
    BY DEF Leads
  <2> QED  BY <2>1, <2>2 DEF Shown, Addresses
<1>2. /\ representative' = [reps EXCEPT ![d].delegatedVotes = e.after]
      /\ governance' = [governance EXCEPT
           !.currentDelegates = @ + (IF e.before = 0 /\ e.after > 0 THEN 1 ELSE 0)
                                  - (IF e.after = 0 THEN 1 ELSE 0),
           !.delegatedVotes = @ + (e.after - e.before)]
      /\ account' = account /\ nounEntity' = nounEntity
  BY DEF handleDelegateVotesChanged, VotesDifference
<1>3. /\ reps \in [Addresses -> DelegateEntities]
      /\ \A a \in Addresses : reps[a].delegatedVotes = representative[a].delegatedVotes
  BY CreatedDelegate DEF EntitiesTypeOK
<1> HIDE DEF reps, d
<1>4. /\ representative' \in [Addresses -> DelegateEntities]
      /\ \A a \in Addresses : representative'[a].delegatedVotes
                                = IF a = d THEN e.after ELSE representative[a].delegatedVotes
  BY <1>1, <1>2, <1>3 DEF DelegateEntities
<1>5. /\ governance' \in GovernanceEntities
      /\ governance'.totalTokenHolders = governance.totalTokenHolders
      /\ governance'.currentTokenHolders = governance.currentTokenHolders
      /\ governance'.delegatedVotes = governance.delegatedVotes + (e.after - e.before)
      /\ governance'.currentDelegates
           = governance.currentDelegates + (IF e.before = 0 /\ e.after > 0 THEN 1 ELSE 0)
               - (IF e.after = 0 THEN 1 ELSE 0)
  <2> DEFINE x == governance.currentDelegates + (IF e.before = 0 /\ e.after > 0 THEN 1 ELSE 0)
                    - (IF e.after = 0 THEN 1 ELSE 0)
             y == governance.delegatedVotes + (e.after - e.before)
  <2>1. governance \in GovernanceEntities
    BY DEF EntitiesTypeOK
  <2>2. x \in Int /\ y \in Int
    BY <1>1, <2>1 DEF GovernanceEntities
  <2>3. governance' = Votes(governance, x, y)
    BY <1>2 DEF Votes
  <2> HIDE DEF x, y
  <2>4. /\ governance' \in GovernanceEntities
        /\ governance'.totalTokenHolders = governance.totalTokenHolders
        /\ governance'.currentTokenHolders = governance.currentTokenHolders
        /\ governance'.currentDelegates = x /\ governance'.delegatedVotes = y
    BY <2>1, <2>2, <2>3, GovernanceReplaced
  <2> QED  BY <2>4 DEF x, y
<1>6. EntitiesTypeOK'
  BY <1>2, <1>4, <1>5 DEF EntitiesTypeOK
<1>7. HoldingsAddUp' /\ Shown'.owner = Shown.owner
  BY <1>2, <1>5, <1>6, SameHoldings
<1>8. /\ \A a \in Accounts : IndexedVotes[a] \in Nat /\ IndexedVotes'[a] \in Nat
      /\ \A a \in Accounts \ {d} : IndexedVotes[a] = IndexedVotes'[a]
      /\ IndexedVotes[d] = e.before /\ IndexedVotes'[d] = e.after
  <2>1. \A a \in Accounts : a \in Addresses
    BY DEF Addresses
  <2>2. \A a \in Accounts : /\ representative[a].delegatedVotes \in Nat
                            /\ representative'[a].delegatedVotes \in Nat
    BY <1>4, <2>1 DEF EntitiesTypeOK, DelegateEntities
  <2> QED  BY <1>1, <1>4, <2>1, <2>2 DEF IndexedVotes
<1>9. governance'.delegatedVotes = SumFunctionOnSet(IndexedVotes', Accounts)
  <2>1. SumFunctionOnSet(IndexedVotes', Accounts)
          = SumFunctionOnSet(IndexedVotes, Accounts) - e.before + e.after
    BY <1>1, <1>8, SumReplace, AccountsFinite
  <2>2. SumFunctionOnSet(IndexedVotes, Accounts) \in Nat
    BY <1>8, SumRemove, AccountsFinite
  <2> QED  BY <1>1, <1>5, <2>1, <2>2 DEF VotesAddUp
<1>10. governance'.currentDelegates = Cardinality(Voting')
  <2>0. Voting \in SUBSET Accounts /\ IsFiniteSet(Voting) /\ Cardinality(Voting) \in Nat
        /\ governance.currentDelegates = Cardinality(Voting)
    BY AccountsFinite DEF Voting, VotesAddUp
  <2>1. \A a \in Accounts : /\ a \in Voting <=> IndexedVotes[a] > 0
                            /\ a \in Voting' <=> IndexedVotes'[a] > 0
    BY DEF Voting, IndexedVotes
  <2>2. \A a \in Accounts \ {d} : a \in Voting <=> a \in Voting'
    BY <1>8, <2>1
  <2>3. Voting' \in SUBSET Accounts
    BY DEF Voting
  <2>4. d \in Voting <=> e.before > 0
    BY <1>1, <1>8, <2>1
  <2>5. d \in Voting' <=> e.after > 0
    BY <1>1, <1>8, <2>1
  <2> HIDE DEF Voting
  <2>6. CASE e.before = 0
    <3>1. Voting' = Voting \cup {d} /\ d \notin Voting
      BY <1>1, <2>0, <2>2, <2>3, <2>4, <2>5, <2>6
    <3>2. Cardinality(Voting') = Cardinality(Voting) + 1
      BY <2>0, <3>1, FS_AddElement
    <3> QED  BY <1>1, <1>5, <2>0, <2>6, <3>2
  <2>7. CASE e.after = 0
    <3>1. Voting' = Voting \ {d} /\ d \in Voting
      BY <1>1, <2>0, <2>2, <2>3, <2>4, <2>5, <2>7
    <3>2. Cardinality(Voting') = Cardinality(Voting) - 1
      BY <2>0, <3>1, FS_RemoveElement
    <3> QED  BY <1>1, <1>5, <2>0, <2>7, <3>2
  <2>8. CASE e.before # 0 /\ e.after # 0
    <3>1. Voting' = Voting
      BY <1>1, <2>0, <2>2, <2>3, <2>4, <2>5, <2>8
    <3> QED  BY <1>1, <1>5, <2>0, <2>8, <3>1
  <2> QED  BY <2>6, <2>7, <2>8
<1>11. VotesAddUp'
  BY <1>9, <1>10 DEF VotesAddUp
<1>12. Shown' = t
  <2>1. Shown'.votes = [Shown.votes EXCEPT ![d] = e.after]
    <3>1. \A a \in Accounts : a \in Addresses
      BY DEF Addresses
    <3> QED  BY <1>1, <1>4, <3>1 DEF Shown
  <2>2. Shown'.seeded = Shown.seeded
    BY <1>2 DEF Shown
  <2> QED  BY <1>1, <1>7, <2>1, <2>2 DEF Shown
<1> QED  BY <1>6, <1>7, <1>11, <1>12

\* An account with another balance, other nouns and another delegate.
Holding(r, n, bag, d) == [r EXCEPT !.balance = n, !.nouns = bag, !.delegate = d]

\* An account with another holding.
LEMMA HoldingReplaced ==
  ASSUME NEW r \in AccountEntities, NEW n \in Int, NEW bag \in [Ids -> Nat],
         NEW d \in Addresses \cup {Null}
  PROVE  /\ Holding(r, n, bag, d) \in AccountEntities
         /\ Holding(r, n, bag, d).balance = n /\ Holding(r, n, bag, d).nouns = bag
BY DEF AccountEntities, Holding

\* Both holders of a transfer.
LEMMA HolderEntities ==
  ASSUME account \in [Addresses -> AccountEntities], NEW e, e.from \in Addresses,
         e.to \in Addresses, e.id \in Ids
  PROVE  /\ AfterSending(e) \in AccountEntities
         /\ AfterSending(e).balance = account[e.from].balance - 1
         /\ AfterSending(e).nouns = Without(account[e.from].nouns, {e.id})
         /\ AfterReceiving(e) \in AccountEntities
         /\ AfterReceiving(e).balance = account[e.to].balance + 1
         /\ AfterReceiving(e).nouns = Pushed(account[e.to].nouns, e.id)
<1> DEFINE r == account[e.from]
           q == account[e.to]
<1>1. /\ r \in AccountEntities /\ r.balance \in Int /\ r.nouns \in [Ids -> Nat]
      /\ r.delegate \in Addresses \cup {Null}
      /\ q \in AccountEntities /\ q.balance \in Int /\ q.nouns \in [Ids -> Nat]
      /\ q.delegate \in Addresses \cup {Null}
  BY DEF AccountEntities
<1> HIDE DEF r, q
<1> DEFINE n == r.balance - 1
           bag == Without(r.nouns, {e.id})
           d == IF r.balance = 1 THEN Null ELSE r.delegate
           m == q.balance + 1
           bug == Pushed(q.nouns, e.id)
           f == IF q.balance = 0 THEN e.to ELSE q.delegate
<1>2. n \in Int /\ bag \in [Ids -> Nat] /\ d \in Addresses \cup {Null}
  BY <1>1 DEF Without
<1>3. m \in Int /\ bug \in [Ids -> Nat] /\ f \in Addresses \cup {Null}
  BY <1>1 DEF Pushed
<1>4. AfterSending(e) = Holding(r, n, bag, d)
  BY DEF AfterSending, Holding, r
<1>5. AfterReceiving(e) = Holding(q, m, bug, f)
  BY DEF AfterReceiving, Holding, q
<1> HIDE DEF n, bag, d, m, bug, f
<1>6. AfterSending(e) \in AccountEntities /\ AfterSending(e).balance = n
      /\ AfterSending(e).nouns = bag
  <2>1. /\ Holding(r, n, bag, d) \in AccountEntities
        /\ Holding(r, n, bag, d).balance = n /\ Holding(r, n, bag, d).nouns = bag
    BY <1>1, <1>2, HoldingReplaced
  <2> QED  BY <1>4, <2>1
<1>7. AfterReceiving(e) \in AccountEntities /\ AfterReceiving(e).balance = m
      /\ AfterReceiving(e).nouns = bug
  <2>1. /\ Holding(q, m, bug, f) \in AccountEntities
        /\ Holding(q, m, bug, f).balance = m /\ Holding(q, m, bug, f).nouns = bug
    BY <1>1, <1>3, HoldingReplaced
  <2> QED  BY <1>5, <2>1
<1> QED  BY <1>6, <1>7 DEF n, bag, m, bug, r, q

\* What handleTransfer leaves behind, field by field.
Transferred(e) ==
  /\ \A a \in Addresses :
       /\ account'[a].balance = IF a = e.to THEN account[a].balance + 1
                                ELSE IF a = e.from /\ a # Zero THEN account[a].balance - 1
                                ELSE account[a].balance
       /\ account'[a].nouns = IF a = e.to THEN Pushed(account[a].nouns, e.id)
                              ELSE IF a = e.from /\ a # Zero THEN Without(account[a].nouns, {e.id})
                              ELSE account[a].nouns
       /\ representative'[a].delegatedVotes = representative[a].delegatedVotes
  /\ \A id \in Ids : /\ nounEntity'[id].owner = IF id = e.id THEN e.to ELSE nounEntity[id].owner
                     /\ nounEntity'[id].seeded = nounEntity[id].seeded
  /\ governance'.delegatedVotes = governance.delegatedVotes
  /\ governance'.currentDelegates = governance.currentDelegates
  /\ governance'.totalTokenHolders = governance.totalTokenHolders
       + (IF e.from = Zero THEN 1 ELSE 0) - (IF e.to = Zero THEN 1 ELSE 0)
  /\ governance'.currentTokenHolders = governance.currentTokenHolders
       - (IF e.from # Zero /\ account[e.from].balance = 1 THEN 1 ELSE 0)
       + (IF account[e.to].balance = 0 THEN 1 ELSE 0)

\* What handleTransfer writes.
LEMMA TransferWrites ==
  ASSUME EntitiesTypeOK, NEW e, e.from \in Addresses, e.to \in Addresses, e.id \in Ids,
         handleTransfer(e)
  PROVE  EntitiesTypeOK' /\ Transferred(e)
<1> DEFINE minted   == e.from = Zero
           d        == account[e.from].delegate
           receiver == IF account[e.to].delegate = Null THEN e.to ELSE account[e.to].delegate
           lostOne  == IF minted \/ d = Null THEN representative
                       ELSE [getOrCreateDelegate(representative, d)
                               EXCEPT ![d].nounsRepresented = Without(@, {e.id})]
           emptied  == ~minted /\ account[e.from].balance = 1
           first    == account[e.to].balance = 0
           created  == (IF minted \/ emptied \/ e.to = Zero THEN {} ELSE {d} \ {Null})
                         \cup {receiver}
           x        == governance.totalTokenHolders + (IF minted THEN 1 ELSE 0)
                         - (IF e.to = Zero THEN 1 ELSE 0)
           y        == governance.currentTokenHolders - (IF emptied THEN 1 ELSE 0)
                         + (IF first THEN 1 ELSE 0)
           counted  == Counts(governance, x, y)
<1>1. /\ account \in [Addresses -> AccountEntities]
      /\ representative \in [Addresses -> DelegateEntities]
      /\ governance \in GovernanceEntities
      /\ nounEntity \in [Ids -> NounEntities]
  BY DEF EntitiesTypeOK
<1>2. d \in Addresses \cup {Null} /\ receiver \in Addresses /\ created \subseteq Addresses
  BY <1>1 DEF AccountEntities
<1>3. x \in Int /\ y \in Int
  BY <1>1 DEF GovernanceEntities
<1>4. /\ account' = [[account EXCEPT ![e.from] = IF minted THEN @ ELSE AfterSending(e)]
                       EXCEPT ![e.to] = AfterReceiving(e)]
      /\ representative' = [getOrCreateDelegate(lostOne, receiver)
                              EXCEPT ![receiver].nounsRepresented = Pushed(@, e.id)]
      /\ governance' = IF first THEN counted ELSE CountCreated(counted, representative, created)
      /\ nounEntity' = [nounEntity EXCEPT ![e.id].owner = e.to]
  BY DEF handleTransfer, Counts
<1>5. /\ counted \in GovernanceEntities
      /\ counted.totalTokenHolders = x /\ counted.currentTokenHolders = y
      /\ counted.currentDelegates = governance.currentDelegates
      /\ counted.delegatedVotes = governance.delegatedVotes
  <2> HIDE DEF x, y
  <2> QED  BY <1>1, <1>3, GovernanceReplaced
<1> HIDE DEF counted
<1>6. /\ governance' \in GovernanceEntities
      /\ governance'.totalTokenHolders = x /\ governance'.currentTokenHolders = y
      /\ governance'.currentDelegates = governance.currentDelegates
      /\ governance'.delegatedVotes = governance.delegatedVotes
  <2> HIDE DEF x, y, created, first
  <2>1. /\ CountCreated(counted, representative, created) \in GovernanceEntities
        /\ CountCreated(counted, representative, created).totalTokenHolders = x
        /\ CountCreated(counted, representative, created).currentTokenHolders = y
        /\ CountCreated(counted, representative, created).currentDelegates
             = governance.currentDelegates
        /\ CountCreated(counted, representative, created).delegatedVotes
             = governance.delegatedVotes
    BY <1>2, <1>5, CountedCreated
  <2>2. CASE first
    BY <1>4, <1>5, <2>2
  <2>3. CASE ~first
    BY <1>4, <2>1, <2>3
  <2> QED  BY <2>2, <2>3
<1>7. /\ lostOne \in [Addresses -> DelegateEntities]
      /\ \A a \in Addresses : lostOne[a].delegatedVotes = representative[a].delegatedVotes
  <2>1. CASE minted \/ d = Null
    BY <1>1, <2>1
  <2>2. CASE ~(minted \/ d = Null)
    <3> DEFINE reps == getOrCreateDelegate(representative, d)
    <3>1. /\ reps \in [Addresses -> DelegateEntities]
          /\ \A a \in Addresses : reps[a].delegatedVotes = representative[a].delegatedVotes
      BY <1>1, CreatedDelegate
    <3>2. lostOne = [reps EXCEPT ![d].nounsRepresented = Without(@, {e.id})]
      BY <2>2
    <3> HIDE DEF reps, lostOne, d
    <3> QED  BY <1>2, <2>2, <3>1, <3>2 DEF DelegateEntities, Without
  <2> QED  BY <2>1, <2>2
<1> HIDE DEF lostOne, receiver
<1>8. /\ representative' \in [Addresses -> DelegateEntities]
      /\ \A a \in Addresses :
           representative'[a].delegatedVotes = representative[a].delegatedVotes
  <2> DEFINE reps == getOrCreateDelegate(lostOne, receiver)
  <2>1. /\ reps \in [Addresses -> DelegateEntities]
        /\ \A a \in Addresses : reps[a].delegatedVotes = lostOne[a].delegatedVotes
    BY <1>7, CreatedDelegate
  <2>2. representative' = [reps EXCEPT ![receiver].nounsRepresented = Pushed(@, e.id)]
    BY <1>4
  <2> HIDE DEF reps
  <2>3. representative' \in [Addresses -> DelegateEntities]
    BY <1>2, <2>1, <2>2 DEF DelegateEntities, Pushed
  <2>4. \A a \in Addresses : representative'[a].delegatedVotes = reps[a].delegatedVotes
    BY <1>2, <2>1, <2>2 DEF DelegateEntities
  <2> QED  BY <1>7, <2>1, <2>3, <2>4
<1>9. /\ nounEntity' \in [Ids -> NounEntities]
      /\ \A id \in Ids :
           /\ nounEntity'[id].owner = IF id = e.id THEN e.to ELSE nounEntity[id].owner
           /\ nounEntity'[id].seeded = nounEntity[id].seeded
  BY <1>1, <1>4 DEF NounEntities
<1>10. /\ account' \in [Addresses -> AccountEntities]
       /\ \A a \in Addresses :
            account'[a] = IF a = e.to THEN AfterReceiving(e)
                          ELSE IF a = e.from /\ a # Zero THEN AfterSending(e)
                          ELSE account[a]
  <2>1. AfterSending(e) \in AccountEntities /\ AfterReceiving(e) \in AccountEntities
    BY <1>1, HolderEntities
  <2> QED  BY <1>1, <1>4, <2>1
<1>11. \A a \in Addresses :
         /\ account'[a].balance = IF a = e.to THEN account[a].balance + 1
                                  ELSE IF a = e.from /\ a # Zero THEN account[a].balance - 1
                                  ELSE account[a].balance
         /\ account'[a].nouns = IF a = e.to THEN Pushed(account[a].nouns, e.id)
                                ELSE IF a = e.from /\ a # Zero
                                     THEN Without(account[a].nouns, {e.id})
                                ELSE account[a].nouns
  BY <1>1, <1>10, HolderEntities
<1>12. EntitiesTypeOK'
  BY <1>6, <1>8, <1>9, <1>10 DEF EntitiesTypeOK
<1> QED  BY <1>6, <1>8, <1>9, <1>11, <1>12 DEF Transferred

\* A noun pushed or filtered is in the holding or out of it.
LEMMA NounsOfBags ==
  ASSUME NEW bag \in [Ids -> Nat], NEW id \in Ids
  PROVE  /\ NounsIn(Pushed(bag, id)) = NounsIn(bag) \cup {id}
         /\ NounsIn(Without(bag, {id})) = NounsIn(bag) \ {id}
<1>1. \A i \in Ids : /\ Pushed(bag, id)[i] > 0 <=> bag[i] > 0 \/ i = id
                     /\ Without(bag, {id})[i] > 0 <=> bag[i] > 0 /\ i # id
  BY DEF Pushed, Without
<1> QED  BY <1>1 DEF NounsIn

\* A transfer, with who had the noun before.
Gives(e) ==
  /\ e.from \in Addresses /\ e.to \in Addresses /\ e.id \in Ids
  /\ \/ e.from = Zero /\ e.to # Zero /\ nounEntity[e.id].owner = Null
     \/ e.from # Zero /\ nounEntity[e.id].owner = e.from
  /\ e.from = e.to => e.to \in selfSent

\* A Transfer moves the noun from one holding to the other.
LEMMA TransferOfOwner ==
  ASSUME EntitiesTypeOK, NEW e, Gives(e), Transferred(e), NEW a \in Addresses, e.from # e.to
  PROVE  /\ a = e.to => /\ e.id \notin IndexedNounsOf(a)
                        /\ IndexedNounsOf(a)' = IndexedNounsOf(a) \cup {e.id}
         /\ a = e.from /\ a # Zero => /\ e.id \in IndexedNounsOf(a)
                                      /\ IndexedNounsOf(a)' = IndexedNounsOf(a) \ {e.id}
         /\ a # e.to /\ (a # e.from \/ a = Zero) => IndexedNounsOf(a)' = IndexedNounsOf(a)
<1>1. Null \notin Addresses
  BY SubgraphTokenAssumption
<1>2. \A id \in Ids : nounEntity'[id].owner = IF id = e.id THEN e.to ELSE nounEntity[id].owner
  BY DEF Transferred
<1>3. a = e.to => nounEntity[e.id].owner # a
  BY <1>1 DEF Gives
<1>4. a = e.from /\ a # Zero => nounEntity[e.id].owner = a
  BY DEF Gives
<1>5. a # e.to /\ (a # e.from \/ a = Zero) => nounEntity[e.id].owner # a
  BY <1>1 DEF Gives
<1>6. e.id \in Ids
  BY DEF Gives
<1> QED  BY <1>2, <1>3, <1>4, <1>5, <1>6 DEF IndexedNounsOf

\* The nouns are finitely many.
LEMMA NounsFinite ==
  \A S \in SUBSET Ids : IsFiniteSet(S) /\ Cardinality(S) \in Nat
BY IdsFinite, FS_Subset, FS_CardinalityType

\* The nouns and the balance of every account that never sent a noun to itself.
LEMMA TransferKeepsNouns ==
  ASSUME EntitiesTypeOK, HoldingsAddUp, NEW e, Gives(e), Transferred(e),
         NEW a \in Accounts \ selfSent
  PROVE  /\ NounsIn(account'[a].nouns) = IndexedNounsOf(a)'
         /\ account'[a].balance = Cardinality(IndexedNounsOf(a)')
<1>1. /\ a \in Addresses /\ a # Zero /\ e.id \in Ids
      /\ NounsIn(account[a].nouns) = IndexedNounsOf(a)
      /\ account[a].balance = Cardinality(IndexedNounsOf(a))
      /\ account[a].nouns \in [Ids -> Nat]
  BY ZeroAssumption DEF HoldingsAddUp, Addresses, EntitiesTypeOK, AccountEntities, Gives
<1>2. IsFiniteSet(IndexedNounsOf(a)) /\ Cardinality(IndexedNounsOf(a)) \in Nat
  BY NounsFinite DEF IndexedNounsOf
<1>3. CASE e.from = e.to
  <2>1. a # e.to /\ a # e.from
    BY <1>3 DEF Gives
  <2>2. nounEntity[e.id].owner # a /\ e.to # a
    BY <1>1, <2>1, SubgraphTokenAssumption DEF Gives
  <2>3. IndexedNounsOf(a)' = IndexedNounsOf(a)
    BY <2>2 DEF IndexedNounsOf, Transferred
  <2> QED  BY <1>1, <2>1, <2>3 DEF Transferred
<1>4. CASE e.from # e.to
  <2>1. CASE a = e.to
    <3>1. /\ e.id \notin IndexedNounsOf(a)
          /\ IndexedNounsOf(a)' = IndexedNounsOf(a) \cup {e.id}
      BY <1>1, <1>4, <2>1, TransferOfOwner
    <3>2. /\ account'[a].balance = account[a].balance + 1
          /\ account'[a].nouns = Pushed(account[a].nouns, e.id)
      BY <1>1, <2>1 DEF Transferred
    <3>3. Cardinality(IndexedNounsOf(a) \cup {e.id}) = Cardinality(IndexedNounsOf(a)) + 1
      BY <1>2, <3>1, FS_AddElement
    <3>4. NounsIn(Pushed(account[a].nouns, e.id)) = NounsIn(account[a].nouns) \cup {e.id}
      BY <1>1, NounsOfBags
    <3> QED  BY <1>1, <3>1, <3>2, <3>3, <3>4
  <2>2. CASE a = e.from
    <3>1. /\ e.id \in IndexedNounsOf(a)
          /\ IndexedNounsOf(a)' = IndexedNounsOf(a) \ {e.id}
      BY <1>1, <1>4, <2>2, TransferOfOwner
    <3>2. /\ account'[a].balance = account[a].balance - 1
          /\ account'[a].nouns = Without(account[a].nouns, {e.id})
      BY <1>1, <1>4, <2>2 DEF Transferred
    <3>3. Cardinality(IndexedNounsOf(a) \ {e.id}) = Cardinality(IndexedNounsOf(a)) - 1
      BY <1>2, <3>1, FS_RemoveElement
    <3>4. NounsIn(Without(account[a].nouns, {e.id})) = NounsIn(account[a].nouns) \ {e.id}
      BY <1>1, NounsOfBags
    <3> QED  BY <1>1, <3>1, <3>2, <3>3, <3>4
  <2>3. CASE a # e.to /\ a # e.from
    <3>1. IndexedNounsOf(a)' = IndexedNounsOf(a)
      BY <1>1, <1>4, <2>3, TransferOfOwner
    <3>2. account'[a].balance = account[a].balance /\ account'[a].nouns = account[a].nouns
      BY <1>1, <2>3 DEF Transferred
    <3> QED  BY <1>1, <3>1, <3>2
  <2> QED  BY <2>1, <2>2, <2>3
<1> QED  BY <1>3, <1>4

\* The supply.
LEMMA TransferKeepsSupply ==
  ASSUME EntitiesTypeOK, HoldingsAddUp, NEW e, Gives(e), Transferred(e)
  PROVE  governance'.totalTokenHolders = Cardinality(NounsInCirculation')
<1>1. /\ IsFiniteSet(NounsInCirculation) /\ Cardinality(NounsInCirculation) \in Nat
      /\ governance.totalTokenHolders = Cardinality(NounsInCirculation)
  BY NounsFinite DEF NounsInCirculation, HoldingsAddUp
<1>2. /\ NounsInCirculation \subseteq Ids /\ NounsInCirculation' \subseteq Ids
      /\ \A id \in Ids \ {e.id} : id \in NounsInCirculation' <=> id \in NounsInCirculation
  BY DEF NounsInCirculation, Transferred
<1>3. e.id \in Ids /\ (e.id \in NounsInCirculation' <=> e.to # Zero)
  BY ZeroAssumption DEF NounsInCirculation, Transferred, Gives, Addresses
<1>4. e.id \in NounsInCirculation <=> e.from # Zero
  BY SubgraphTokenAssumption DEF NounsInCirculation, Gives, Addresses
<1>5. governance'.totalTokenHolders = governance.totalTokenHolders
        + (IF e.from = Zero THEN 1 ELSE 0) - (IF e.to = Zero THEN 1 ELSE 0)
  BY DEF Transferred
<1>6. CASE e.from = Zero
  <2>1. e.to # Zero
    BY <1>6 DEF Gives
  <2>2. NounsInCirculation' = NounsInCirculation \cup {e.id} /\ e.id \notin NounsInCirculation
    BY <1>2, <1>3, <1>4, <1>6, <2>1
  <2>3. Cardinality(NounsInCirculation') = Cardinality(NounsInCirculation) + 1
    BY <1>1, <2>2, FS_AddElement
  <2> QED  BY <1>1, <1>5, <1>6, <2>1, <2>3
<1>7. CASE e.from # Zero /\ e.to = Zero
  <2>2. NounsInCirculation' = NounsInCirculation \ {e.id} /\ e.id \in NounsInCirculation
    BY <1>2, <1>3, <1>4, <1>7
  <2>3. Cardinality(NounsInCirculation') = Cardinality(NounsInCirculation) - 1
    BY <1>1, <2>2, FS_RemoveElement
  <2> QED  BY <1>1, <1>5, <1>7, <2>3
<1>8. CASE e.from # Zero /\ e.to # Zero
  <2>1. NounsInCirculation' = NounsInCirculation
    BY <1>2, <1>3, <1>4, <1>8
  <2> QED  BY <1>1, <1>5, <1>8, <2>1
<1> QED  BY <1>6, <1>7, <1>8

\* The number of holders.
LEMMA TransferKeepsHolders ==
  ASSUME EntitiesTypeOK, HoldingsAddUp, NEW e, Gives(e), Transferred(e), selfSent = {}
  PROVE  governance'.currentTokenHolders = Cardinality(Holders')
<1> DEFINE from == e.from
           to == e.to
           emptied == from # Zero /\ account[from].balance = 1
           first == account[to].balance = 0
           H == IF emptied THEN Holders \ {from} ELSE Holders
<1>1. /\ IsFiniteSet(Holders) /\ Cardinality(Holders) \in Nat /\ Holders \in SUBSET Addresses
      /\ governance.currentTokenHolders = Cardinality(Holders)
  BY AccountsFinite DEF Holders, HoldingsAddUp
<1>2. from \in Addresses /\ to \in Addresses /\ from # to /\ e.id \in Ids
  BY DEF Gives
<1>3. \A a \in Addresses : account[a].balance \in Nat
  <2>1. ASSUME NEW a \in Accounts
        PROVE  account[a].balance \in Nat
    <3>1. account[a].balance = Cardinality(IndexedNounsOf(a))
      BY DEF HoldingsAddUp
    <3>2. Cardinality(IndexedNounsOf(a)) \in Nat
      BY NounsFinite DEF IndexedNounsOf
    <3> QED  BY <3>1, <3>2
  <2>2. account[Zero].balance \in Nat
    BY DEF EntitiesTypeOK, AccountEntities, HoldingsAddUp, Addresses
  <2> QED  BY <2>1, <2>2 DEF Addresses
<1>4. from # Zero => account[from].balance > 0
  <2>1. SUFFICES ASSUME from # Zero
                 PROVE  account[from].balance > 0
    OBVIOUS
  <2>2. from \in Accounts /\ e.id \in IndexedNounsOf(from)
    BY <1>2, <2>1 DEF Gives, IndexedNounsOf, Addresses
  <2>3. account[from].balance = Cardinality(IndexedNounsOf(from))
    BY <2>2 DEF HoldingsAddUp
  <2>4. IsFiniteSet(IndexedNounsOf(from)) /\ Cardinality(IndexedNounsOf(from)) \in Nat
    BY NounsFinite DEF IndexedNounsOf
  <2>5. Cardinality(IndexedNounsOf(from)) # 0
    BY <2>2, <2>4, FS_EmptySet
  <2> QED  BY <2>3, <2>4, <2>5
<1>5. \A a \in Addresses :
        account'[a].balance = IF a = to THEN account[a].balance + 1
                              ELSE IF a = from /\ a # Zero THEN account[a].balance - 1
                              ELSE account[a].balance
  BY DEF Transferred
<1>6. governance'.currentTokenHolders
        = governance.currentTokenHolders - (IF emptied THEN 1 ELSE 0) + (IF first THEN 1 ELSE 0)
  BY DEF Transferred
<1>7. \A a \in Addresses : a \in Holders <=> account[a].balance > 0
  BY DEF Holders
<1>8. \A a \in Addresses : a \in Holders' <=> account'[a].balance > 0
  BY DEF Holders
<1>9. Holders' \subseteq Addresses
  BY DEF Holders
<1> HIDE DEF from, to
<1>10. /\ to \in Holders' /\ (to \in Holders <=> ~first)
       /\ from # Zero => from \in Holders /\ (from \in Holders' <=> ~emptied)
       /\ \A a \in Addresses : a # to /\ (a # from \/ a = Zero)
                               => (a \in Holders' <=> a \in Holders)
  <2>1. account'[to].balance = account[to].balance + 1 /\ account[to].balance \in Nat
    BY <1>2, <1>3, <1>5
  <2>2. from # Zero => /\ account'[from].balance = account[from].balance - 1
                       /\ account[from].balance \in Nat
    BY <1>2, <1>3, <1>5
  <2>3. \A a \in Addresses : a # to /\ (a # from \/ a = Zero)
                               => account'[a].balance = account[a].balance
    BY <1>5
  <2>4. to \in Holders' /\ (to \in Holders <=> ~first)
    BY <1>2, <1>7, <1>8, <2>1
  <2>5. from # Zero => from \in Holders /\ (from \in Holders' <=> ~emptied)
    BY <1>2, <1>4, <1>7, <1>8, <2>2
  <2> QED  BY <1>7, <1>8, <2>3, <2>4, <2>5
<1>11. emptied => from # Zero
  OBVIOUS
<1> HIDE DEF emptied, first, Holders
<1>12. Holders' = H \cup {to} /\ (to \in H <=> ~first)
  BY <1>1, <1>2, <1>9, <1>10, <1>11
<1>13. /\ IsFiniteSet(H) /\ Cardinality(H) \in Nat
       /\ Cardinality(H) = Cardinality(Holders) - (IF emptied THEN 1 ELSE 0)
  <2>1. CASE emptied
    <3>1. Cardinality(Holders \ {from}) = Cardinality(Holders) - 1 /\ IsFiniteSet(Holders \ {from})
      BY <1>1, <1>10, <1>11, <2>1, FS_RemoveElement
    <3> QED  BY <2>1, <3>1, FS_CardinalityType
  <2>2. CASE ~emptied
    BY <1>1, <2>2
  <2> QED  BY <2>1, <2>2
<1> HIDE DEF H
<1>14. Cardinality(Holders') = Cardinality(H) + (IF first THEN 1 ELSE 0)
  <2>1. CASE first
    <3>1. Cardinality(H \cup {to}) = Cardinality(H) + 1
      BY <1>12, <1>13, <2>1, FS_AddElement
    <3> QED  BY <1>12, <2>1, <3>1
  <2>2. CASE ~first
    <3>1. H \cup {to} = H
      BY <1>12, <2>2
    <3>2. Cardinality(Holders') = Cardinality(H)
      BY <1>12, <3>1
    <3>3. (IF first THEN 1 ELSE 0) = 0 /\ Cardinality(H) \in Nat
      BY <1>13, <2>2
    <3> HIDE DEF first
    <3> QED  BY <3>2, <3>3
  <2> QED  BY <2>1, <2>2
<1> QED  BY <1>1, <1>6, <1>13, <1>14

\* handleTransfer.
LEMMA HandlesTransfer ==
  ASSUME EntitiesTypeOK, HoldingsAddUp, VotesAddUp, NEW e \in TokenEvents,
         e.event = "Transfer", NEW t, Leads(selfSent, Shown, e, t),
         handleTransfer(e), UNCHANGED selfSent
  PROVE  EntitiesTypeOK' /\ HoldingsAddUp' /\ VotesAddUp' /\ Shown' = t
<1>1. e.from \in Addresses /\ e.to \in Addresses /\ e.id \in Ids
  BY DEF TokenEvents
<1>2. EntitiesTypeOK' /\ Transferred(e)
  BY <1>1, TransferWrites
<1>3. Gives(e) /\ t = [Shown EXCEPT !.owner = [@ EXCEPT ![e.id] = e.to]]
  BY <1>1 DEF Leads, Gives, Shown
<1>4. \A a \in Accounts \ selfSent' :
        /\ NounsIn(account'[a].nouns) = IndexedNounsOf(a)'
        /\ account'[a].balance = Cardinality(IndexedNounsOf(a)')
  BY <1>2, <1>3, TransferKeepsNouns
<1>5. selfSent' = {} => governance'.currentTokenHolders = Cardinality(Holders')
  BY <1>2, <1>3, TransferKeepsHolders
<1>6. governance'.totalTokenHolders = Cardinality(NounsInCirculation')
  BY <1>2, <1>3, TransferKeepsSupply
<1>7. account'[Zero].balance >= 0
  <2>1. account[Zero].balance \in Nat
    BY DEF EntitiesTypeOK, AccountEntities, HoldingsAddUp, Addresses
  <2>2. account'[Zero].balance = IF Zero = e.to THEN account[Zero].balance + 1
                                 ELSE account[Zero].balance
    BY <1>2 DEF Transferred, Addresses
  <2> QED  BY <2>1, <2>2
<1>8. HoldingsAddUp'
  BY <1>4, <1>5, <1>6, <1>7 DEF HoldingsAddUp
<1>9. VotesAddUp' /\ Shown'.votes = Shown.votes
  BY <1>2, SameVotes DEF Transferred, Addresses
<1>10. Shown' = t
  <2>1. Shown'.owner = [Shown.owner EXCEPT ![e.id] = e.to]
    BY <1>1, <1>2 DEF Shown, Transferred
  <2>2. Shown'.seeded = Shown.seeded
    BY <1>2 DEF Shown, Transferred
  <2> QED  BY <1>3, <1>9, <2>1, <2>2 DEF Shown
<1> QED  BY <1>2, <1>8, <1>9, <1>10

-----------------------------------------------------------------------------
(* The token's index: every step.                                          *)

\* The token is as sound as without an index, the entities agree with each other,
\* and the events that wait lead from what they show to what the token has.
IndexInv ==
  /\ TypeOK /\ UnmintedUnowned
  /\ EntitiesTypeOK /\ HoldingsAddUp /\ VotesAddUp
  /\ events \in Seq(TokenEvents) /\ LeadTo(selfSent, Shown, events, OnChain)

\* The index tells a tale.
LEMMA ShownIsATale ==
  ASSUME EntitiesTypeOK
  PROVE  Shown \in Tales
<1>1. \A d \in Accounts : d \in Addresses
  BY DEF Addresses
<1> QED  BY <1>1 DEF Shown, Tales, EntitiesTypeOK, NounEntities, DelegateEntities

\* When nothing waits, the index shows what the token has.
LEMMA ShownIsOnChain ==
  ASSUME EntitiesTypeOK, LeadTo(selfSent, Shown, events, OnChain), events = <<>>
  PROVE  Shown = OnChain
<1> DEFINE s == Shown
           t == OnChain
<1>1. LeadTo(selfSent, s, <<>>, t) /\ s \in Tales
  BY ShownIsATale
<1> HIDE DEF s, t
<1>2. t = s
  BY <1>1, LeadNowhere
<1> QED  BY <1>2 DEF s, t

\* Then the votes the index counts are those the token counts.
LEMMA IndexedVotesAddUp ==
  ASSUME Shown.votes = OnChain.votes
  PROVE  /\ SumFunctionOnSet(IndexedVotes, Accounts) =
              SumFunction([d \in Accounts |-> CurrentVotes(checkpoints[d])])
         /\ Voting = {d \in Accounts : CurrentVotes(checkpoints[d]) > 0}
         /\ \A d \in Accounts : representative[d].delegatedVotes = CurrentVotes(checkpoints[d])
<1> DEFINE votes == [d \in Accounts |-> CurrentVotes(checkpoints[d])]
<1>1. IndexedVotes = votes /\ DOMAIN votes = Accounts
  BY DEF Shown, OnChain, Tale, VotesIn, IndexedVotes
<1>2. \A d \in Accounts : representative[d].delegatedVotes = CurrentVotes(checkpoints[d])
  <2>1. \A d \in Accounts : IndexedVotes[d] = CurrentVotes(checkpoints[d])
    BY <1>1
  <2>2. \A d \in Accounts : IndexedVotes[d] = representative[d].delegatedVotes
    BY DEF IndexedVotes
  <2> QED  BY <2>1, <2>2
<1>3. SumFunctionOnSet(IndexedVotes, Accounts) = SumFunction(votes)
  <2> HIDE DEF votes
  <2> QED  BY <1>1 DEF SumFunction
<1> QED  BY <1>2, <1>3 DEF Voting

\* Chain and index start in the invariant.
LEMMA IndexStarts ==
  ASSUME Init, SubgraphTokenInit
  PROVE  IndexInv
<1>1. TypeOK /\ UnmintedUnowned
  BY StartsTyped, StartsBalanced
<1>2. /\ events = <<>> /\ selfSent = {}
      /\ account = [a \in Addresses |-> [balance |-> 0, nouns |-> NoNouns, delegate |-> Null]]
      /\ representative = [a \in Addresses |-> [exists |-> FALSE, delegatedVotes |-> 0,
                                                holders |-> 0, nounsRepresented |-> NoNouns]]
      /\ governance = [totalTokenHolders |-> 0, currentTokenHolders |-> 0,
                       currentDelegates |-> 0, totalDelegates |-> 0, delegatedVotes |-> 0]
      /\ nounEntity = [id \in Ids |-> [owner |-> Null, seeded |-> FALSE]]
  BY DEF SubgraphTokenInit
<1>3. NoNouns \in [Ids -> Nat] /\ NounsIn(NoNouns) = {}
  BY DEF NoNouns, NounsIn
<1>4. EntitiesTypeOK
  <2>1. account \in [Addresses -> AccountEntities]
    BY <1>2, <1>3 DEF AccountEntities
  <2>2. representative \in [Addresses -> DelegateEntities]
    BY <1>2, <1>3 DEF DelegateEntities
  <2>3. governance \in GovernanceEntities
    BY <1>2 DEF GovernanceEntities
  <2>4. nounEntity \in [Ids -> NounEntities]
    BY <1>2 DEF NounEntities
  <2> QED  BY <2>1, <2>2, <2>3, <2>4 DEF EntitiesTypeOK
<1>5. Shown = OnChain
  <2>1. \A id \in Ids : ~(id < currentNounId)
    BY DEF Init, Ids
  <2>2. \A d \in Accounts : CurrentVotes(checkpoints[d]) = 0
    BY DEF Init, CurrentVotes
  <2>3. \A d \in Accounts : d \in Addresses
    BY DEF Addresses
  <2> QED  BY <1>2, <2>1, <2>2, <2>3 DEF Shown, OnChain, Tale, VotesIn
<1>6. HoldingsAddUp
  <2>1. \A a \in Accounts : IndexedNounsOf(a) = {}
    BY <1>2, SubgraphTokenAssumption DEF IndexedNounsOf, Addresses
  <2>2. Holders = {} /\ NounsInCirculation = {}
    BY <1>2, SubgraphTokenAssumption DEF Holders, NounsInCirculation, Addresses
  <2>3. Cardinality({}) = 0
    BY FS_EmptySet
  <2>4. \A a \in Addresses : account[a].balance = 0 /\ account[a].nouns = NoNouns
    BY <1>2
  <2>5. governance.currentTokenHolders = 0 /\ governance.totalTokenHolders = 0
    BY <1>2
  <2> QED  BY <1>3, <2>1, <2>2, <2>3, <2>4, <2>5 DEF HoldingsAddUp, Addresses
<1>7. VotesAddUp
  <2> DEFINE votes == IndexedVotes
  <2>1. Accounts \subseteq Addresses
    BY DEF Addresses
  <2>2. \A d \in Accounts : representative[d].delegatedVotes = 0
    BY <1>2, <2>1
  <2>3. \A d \in Accounts : votes[d] = 0
    BY <2>2 DEF IndexedVotes
  <2>4. SumFunctionOnSet(votes, Accounts) = 0
    <3> HIDE DEF votes
    <3> QED  BY <2>3, AccountsFinite, SumOfZeros
  <2>5. Voting = {} /\ Cardinality({}) = 0
    BY <2>2, FS_EmptySet DEF Voting
  <2>6. governance.delegatedVotes = 0 /\ governance.currentDelegates = 0
    BY <1>2
  <2> QED  BY <2>4, <2>5, <2>6 DEF VotesAddUp
<1>8. LeadTo(selfSent, Shown, events, OnChain) /\ events \in Seq(TokenEvents)
  <2> DEFINE s == Shown
  <2>1. s \in Tales
    BY <1>4, ShownIsATale
  <2>2. events = <<>> /\ OnChain = s
    BY <1>2, <1>5
  <2>3. <<>> \in Seq(TokenEvents)
    OBVIOUS
  <2> HIDE DEF s
  <2>4. LeadTo(selfSent, s, events, OnChain)
    BY <2>1, <2>2, LeadNowhere
  <2> QED  BY <2>2, <2>3, <2>4 DEF s
<1> QED  BY <1>1, <1>4, <1>6, <1>7, <1>8 DEF IndexInv

\* Behind the token, the index leaves it what it is: its transactions are those of
\* NounsToken.
LEMMA IndexedStep ==
  ASSUME TypeOK, [SubgraphTokenNext]_<<vars, subgraphTokenVars>>
  PROVE  [Next]_vars
<1>1. CASE Mints
  BY <1>1 DEF Mints, mint, MintReward, MintOne, Next
<1>2. ASSUME NEW id \in Ids, Burns(id)
      PROVE  [Next]_vars
  BY <1>2 DEF Burns, burn, Next
<1>3. ASSUME NEW id \in Ids, NEW to \in Accounts, Sends(id, to)
      PROVE  [Next]_vars
  <2>1. transferFrom(owner[id], owner[id], to, id) /\ to \in Addresses
    BY <1>3 DEF Sends, Addresses
  <2>2. owner[id] \in Accounts
    BY <2>1 DEF transferFrom, isApprovedOrOwner, Exists, TypeOK, Addresses
  <2> QED  BY <2>1, <2>2 DEF Next
<1>4. ASSUME NEW a \in Delegators, NEW d \in Addresses, Delegates(a, d)
      PROVE  [Next]_vars
  <2>1. Delegate(a, d)
    BY <1>4 DEF Delegates
  <2> QED  BY <2>1 DEF Next
<1>5. ASSUME NEW sig \in Signatures, DelegatesBySig(sig)
      PROVE  [Next]_vars
  BY <1>5 DEF DelegatesBySig, Next
<1>6. CASE IndexToken
  BY <1>6 DEF IndexToken, vars
<1>7. CASE UNCHANGED <<vars, subgraphTokenVars>>
  BY <1>7 DEF vars
<1> QED  BY <1>1, <1>2, <1>3, <1>4, <1>5, <1>6, <1>7 DEF SubgraphTokenNext

\* An event handled moves the index one event on in the tale.
LEMMA HandlesEvent ==
  ASSUME EntitiesTypeOK, HoldingsAddUp, VotesAddUp, NEW e \in TokenEvents, NEW t,
         Leads(selfSent, Shown, e, t), Handles(e), UNCHANGED selfSent
  PROVE  EntitiesTypeOK' /\ HoldingsAddUp' /\ VotesAddUp' /\ Shown' = t
<1>1. \/ e.event = "NounCreated" /\ handleNounCreated(e)
      \/ e.event = "DelegateChanged" /\ handleDelegateChanged(e)
      \/ e.event = "DelegateVotesChanged" /\ handleDelegateVotesChanged(e)
      \/ e.event = "Transfer" /\ handleTransfer(e)
  <2>1. e.event \in {"NounCreated", "DelegateChanged", "DelegateVotesChanged", "Transfer"}
    BY DEF TokenEvents
  <2> QED  BY <2>1 DEF Handles
<1> QED  BY <1>1, HandlesCreated, HandlesDelegation, HandlesVotes, HandlesTransfer

\* Every step of chain or index keeps the invariant.
LEMMA IndexSteps ==
  ASSUME IndexInv, [SubgraphTokenNext]_<<vars, subgraphTokenVars>>
  PROVE  IndexInv'
<1>1. /\ TypeOK /\ UnmintedUnowned
      /\ EntitiesTypeOK /\ HoldingsAddUp /\ VotesAddUp
      /\ events \in Seq(TokenEvents) /\ LeadTo(selfSent, Shown, events, OnChain)
  BY DEF IndexInv
<1>2. [Next]_vars
  BY <1>1, IndexedStep
<1>3. TypeOK'
  BY <1>1, <1>2, StepKeepsTypes
<1>4. UnmintedUnowned'
  BY <1>1, <1>2, StepKeepsUnminted
<1>5. ASSUME UNCHANGED indexed, selfSent \subseteq selfSent'
      PROVE  EntitiesTypeOK' /\ HoldingsAddUp' /\ VotesAddUp' /\ Shown' = Shown
  <2>1. UNCHANGED <<account, representative, governance, nounEntity>>
    BY <1>5 DEF indexed
  <2>2. EntitiesTypeOK'
    BY <1>1, <2>1 DEF EntitiesTypeOK
  <2>3. HoldingsAddUp'
    BY <1>1, <1>5, <2>1, <2>2, SameHoldings
  <2>4. VotesAddUp'
    BY <1>1, <2>1, <2>2, SameVotes
  <2> QED  BY <2>1, <2>2, <2>3, <2>4 DEF Shown
<1>6. CASE TokenTransaction
  <2>1. events = <<>>
    BY <1>6 DEF TokenTransaction, Mints, Burns, Sends, Delegates, DelegatesBySig, Transacts
  <2>2. /\ LeadTo(selfSent', OnChain, events', OnChain') /\ events' \in Seq(TokenEvents)
        /\ UNCHANGED indexed /\ selfSent \subseteq selfSent'
    BY <1>1, <1>3, <1>6, TransactionTold
  <2>3. EntitiesTypeOK' /\ HoldingsAddUp' /\ VotesAddUp' /\ Shown' = OnChain
    BY <1>1, <1>5, <2>1, <2>2, ShownIsOnChain
  <2>4. LeadTo(selfSent', Shown', events', OnChain')
    BY <2>2, <2>3, Zenon
  <2> QED  BY <1>3, <1>4, <2>2, <2>3, <2>4 DEF IndexInv
<1>7. CASE IndexToken
  <2>1. /\ events # <<>> /\ Handles(Head(events)) /\ events' = Tail(events)
        /\ UNCHANGED vars /\ UNCHANGED selfSent
    BY <1>7 DEF IndexToken
  <2> DEFINE chain == OnChain
             e     == Head(events)
  <2>2. /\ e \in TokenEvents /\ Tail(events) \in Seq(TokenEvents)
        /\ \E t \in Tales : Leads(selfSent, Shown, e, t) /\ LeadTo(selfSent, t, Tail(events), chain)
    BY <1>1, <2>1, LeadFirst
  <2>3. OnChain' = chain
    BY <2>1 DEF vars, OnChain
  <2> HIDE DEF chain, e
  <2>4. PICK t \in Tales :
          Leads(selfSent, Shown, e, t) /\ LeadTo(selfSent, t, Tail(events), chain)
    BY <2>2
  <2>5. EntitiesTypeOK' /\ HoldingsAddUp' /\ VotesAddUp' /\ Shown' = t
    BY <1>1, <2>1, <2>2, <2>4, HandlesEvent DEF e
  <2>6. LeadTo(selfSent', Shown', events', OnChain')
    BY <2>1, <2>3, <2>4, <2>5, Zenon
  <2> QED  BY <1>3, <1>4, <2>1, <2>2, <2>5, <2>6 DEF IndexInv
<1>8. CASE UNCHANGED <<vars, subgraphTokenVars>>
  <2>1. UNCHANGED <<owner, currentNounId, checkpoints, events, selfSent>> /\ UNCHANGED indexed
    BY <1>8 DEF vars, subgraphTokenVars
  <2>2. OnChain' = OnChain
    BY <2>1 DEF OnChain
  <2>3. EntitiesTypeOK' /\ HoldingsAddUp' /\ VotesAddUp' /\ Shown' = Shown
    BY <1>5, <2>1
  <2>4. LeadTo(selfSent', Shown', events', OnChain')
    BY <1>1, <2>1, <2>2, <2>3, Zenon
  <2> QED  BY <1>1, <1>3, <1>4, <2>1, <2>3, <2>4 DEF IndexInv
<1> QED  BY <1>6, <1>7, <1>8 DEF SubgraphTokenNext, TokenTransaction

\* What the index holds, from the invariant.
LEMMA HoldingsFollow ==
  ASSUME IndexInv
  PROVE  HoldingsFollowTheChain
<1> SUFFICES ASSUME events = <<>>
             PROVE  HoldingsFollowTheChain
  BY DEF HoldingsFollowTheChain
<1>1. /\ TypeOK /\ UnmintedUnowned
      /\ EntitiesTypeOK /\ HoldingsAddUp /\ VotesAddUp
  BY DEF IndexInv
<1>2. Shown = OnChain
  BY ShownIsOnChain DEF IndexInv
<1>3. \A id \in Ids : /\ nounEntity[id].owner = IF id < currentNounId THEN owner[id] ELSE Null
                      /\ nounEntity[id].seeded <=> id < currentNounId
  <2>1. Shown.owner = OnChain.owner /\ Shown.seeded = OnChain.seeded
    BY <1>2
  <2>2. \A id \in Ids : /\ Shown.owner[id] = nounEntity[id].owner
                         /\ OnChain.owner[id] = IF id < currentNounId THEN owner[id] ELSE Null
    BY DEF Shown, OnChain, Tale
  <2>3. Shown.seeded = {id \in Ids : nounEntity[id].seeded}
    BY DEF Shown
  <2>4. OnChain.seeded = {id \in Ids : id < currentNounId}
    BY DEF OnChain, Tale
  <2>5. \A id \in Ids : nounEntity[id].seeded \in BOOLEAN
    BY <1>1 DEF EntitiesTypeOK, NounEntities
  <2>6. \A id \in Ids : nounEntity[id].seeded <=> id < currentNounId
    BY <2>1, <2>3, <2>4, <2>5, Zenon
  <2> HIDE DEF Shown, OnChain
  <2> QED  BY <2>1, <2>2, <2>6
<1>4. \A id \in Ids : id < currentNounId =>
        nounEntity[id] = [owner |-> owner[id], seeded |-> TRUE]
  <2> SUFFICES ASSUME NEW id \in Ids, id < currentNounId
               PROVE  nounEntity[id] = [owner |-> owner[id], seeded |-> TRUE]
    OBVIOUS
  <2>1. nounEntity[id] \in NounEntities
    BY <1>1 DEF EntitiesTypeOK
  <2>2. nounEntity[id] = [owner |-> nounEntity[id].owner, seeded |-> nounEntity[id].seeded]
        /\ nounEntity[id].seeded \in BOOLEAN
    BY <2>1 DEF NounEntities
  <2>3. nounEntity[id].owner = owner[id] /\ nounEntity[id].seeded = TRUE
    BY <1>3, <2>2
  <2> QED  BY <2>2, <2>3
<1>5. \A id \in Ids : ~(id < currentNounId) => owner[id] = Zero
  BY <1>1 DEF UnmintedUnowned, TypeOK, Ids
<1>6. \A a \in Accounts : IndexedNounsOf(a) = NounsOf(a)
  BY <1>3, <1>5, ZeroAssumption, SubgraphTokenAssumption DEF IndexedNounsOf, NounsOf, Addresses
<1>7. NounsInCirculation = {id \in Ids : Exists(id)}
  <2>1. \A id \in Ids : owner[id] \in Accounts <=> owner[id] # Zero
    BY <1>1, ZeroAssumption DEF TypeOK, Addresses
  <2>2. Null \notin Accounts
    BY SubgraphTokenAssumption DEF Addresses
  <2> QED  BY <1>3, <1>5, <2>1, <2>2 DEF NounsInCirculation, Exists
<1>8. /\ SumFunctionOnSet(IndexedVotes, Accounts) =
           SumFunction([d \in Accounts |-> CurrentVotes(checkpoints[d])])
      /\ Voting = {d \in Accounts : CurrentVotes(checkpoints[d]) > 0}
      /\ \A d \in Accounts : representative[d].delegatedVotes = CurrentVotes(checkpoints[d])
  BY <1>1, <1>2, IndexedVotesAddUp
<1>9. \A a \in Accounts \ selfSent :
        account[a].balance = balanceOf(a) /\ NounsIn(account[a].nouns) = NounsOf(a)
  BY <1>1, <1>6 DEF HoldingsAddUp, balanceOf
<1>10. governance.totalTokenHolders = Cardinality({id \in Ids : Exists(id)})
       /\ (selfSent = {} => governance.currentTokenHolders = Cardinality(Holders))
  BY <1>1, <1>7 DEF HoldingsAddUp
<1>11. /\ governance.delegatedVotes =
            SumFunction([d \in Accounts |-> CurrentVotes(checkpoints[d])])
       /\ governance.currentDelegates =
            Cardinality({d \in Accounts : CurrentVotes(checkpoints[d]) > 0})
  BY <1>1, <1>8 DEF VotesAddUp
<1> QED  BY <1>4, <1>8, <1>9, <1>10, <1>11 DEF HoldingsFollowTheChain

\* Whatever the token's accounts do, in any order, by signature or not, the index tells
\* it right when no event waits: owners, votes, supply, delegates, and the holdings of every account that
\* did not send a noun to itself.  In between its counts agree with its own entities.
THEOREM HoldingsAlwaysFollow == SubgraphTokenSpec => []HoldingsFollowTheChain
<1>1. Init /\ SubgraphTokenInit => IndexInv
  BY IndexStarts
<1>2. IndexInv /\ [SubgraphTokenNext]_<<vars, subgraphTokenVars>> => IndexInv'
  BY IndexSteps
<1>3. IndexInv => HoldingsFollowTheChain
  BY HoldingsFollow
<1> QED  BY <1>1, <1>2, <1>3, PTL DEF SubgraphTokenSpec
=============================================================================
