---------------------------- MODULE Checkpoints ----------------------------
(***************************************************************************)
(* The vote checkpoints of ERC721Checkpointable.sol as operators: one      *)
(* account's checkpoints are a sequence of records, oldest first.  In the  *)
(* contract `checkpoints[a]` is a mapping from 0 .. numCheckpoints[a]-1;   *)
(* here index i + 1 of the sequence stands for index i of the mapping.     *)
(* Votes are uint96 and block numbers uint32 in the contract; both stay    *)
(* below their width in every instance, so only the underflow of sub96,    *)
(* which the small instances do reach, is modelled (CanMove).              *)
(***************************************************************************)
EXTENDS CheckpointSearch

CONSTANTS Accounts,   \* addresses that can hold nouns or votes
          Zero        \* address(0)

ASSUME ZeroAssumption == Zero \notin Accounts

Addresses == Accounts \cup {Zero}

Checkpoint == [fromBlock : Nat, votes : Nat]

Histories == [Accounts -> Seq(Checkpoint)]

CurrentVotes(cps) == IF cps = <<>> THEN 0 ELSE cps[Len(cps)].votes

\* Mutant: the last checkpoint is overwritten whatever block it is of.
WriteCheckpointOverwrites(cps, block, newVotes) ==
  IF cps # <<>> THEN [cps EXCEPT ![Len(cps)] = [fromBlock |-> block, votes |-> newVotes]]
                ELSE <<[fromBlock |-> block, votes |-> newVotes]>>

\* A second write in the block of the last checkpoint overwrites it.
WriteCheckpoint(cps, block, newVotes) ==
  IF cps # <<>> /\ cps[Len(cps)].fromBlock = block
    THEN [cps EXCEPT ![Len(cps)] = [fromBlock |-> block, votes |-> newVotes]]
    ELSE Append(cps, [fromBlock |-> block, votes |-> newVotes])

(***************************************************************************)
(* _moveDelegates: CanMove is the sub96 check, MoveDelegates the writes.   *)
(***************************************************************************)
CanMove(h, src, dst, amount) ==
  src # dst /\ amount > 0 /\ src # Zero => CurrentVotes(h[src]) >= amount

\* Mutant: source and destination are swapped in the writes.
MoveDelegatesSwapped(h, block, src, dst, amount) ==
  IF src = dst \/ amount = 0 THEN h
  ELSE [a \in Accounts |->
          CASE a = dst -> WriteCheckpoint(h[a], block, CurrentVotes(h[a]) - amount)
            [] a = src -> WriteCheckpoint(h[a], block, CurrentVotes(h[a]) + amount)
            [] OTHER   -> h[a]]

MoveDelegates(h, block, src, dst, amount) ==
  IF src = dst \/ amount = 0 THEN h
  ELSE [a \in Accounts |->
          CASE a = src -> WriteCheckpoint(h[a], block, CurrentVotes(h[a]) - amount)
            [] a = dst -> WriteCheckpoint(h[a], block, CurrentVotes(h[a]) + amount)
            [] OTHER   -> h[a]]

\* Mutant: without the early return for a block before the first checkpoint, the
\* search ends at that checkpoint.
PriorVotesBeforeFirst(cps, block) ==
  LET Indices == {i \in 1 .. Len(cps) : i = 1 \/ cps[i].fromBlock <= block}
  IN  IF cps = <<>> THEN 0
      ELSE cps[CHOOSE i \in Indices : \A j \in Indices : j <= i].votes

(***************************************************************************)
(* getPriorVotes for a block before the current one: the early returns for *)
(* a block the checkpoints do not span, and the binary search for others.  *)
(***************************************************************************)
PriorVotes(cps, block) ==
  IF cps = <<>> THEN 0
  ELSE IF cps[Len(cps)].fromBlock <= block THEN cps[Len(cps)].votes
  ELSE IF cps[1].fromBlock > block THEN 0
  ELSE cps[Search(cps, block)].votes

\* What the search is for: the votes of the last checkpoint at or before the
\* block, found by its definition and not by searching.
VotesAtBlock(cps, block) ==
  LET past == {i \in 1 .. Len(cps) : cps[i].fromBlock <= block}
  IN  IF past = {} THEN 0
      ELSE cps[CHOOSE i \in past : \A j \in past : j <= i].votes

\* The shape _writeCheckpoint keeps: strictly increasing blocks, none in the
\* future of `block`.
Ordered(cps, block) ==
  /\ \A i, j \in 1 .. Len(cps) : i < j => cps[i].fromBlock < cps[j].fromBlock
  /\ \A i \in 1 .. Len(cps) : cps[i].fromBlock <= block
=============================================================================
