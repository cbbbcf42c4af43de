-------------------------- MODULE CheckpointSearch --------------------------
(***************************************************************************)
(* The binary search two contracts run over checkpoints, oldest first:     *)
(* getPriorVotes (ERC721Checkpointable.sol) over the votes of an account,  *)
(* and getDynamicQuorumParamsAt (NounsDAOLogicV2.sol) over the parameters  *)
(* of the quorum.  Both return early when the block lies outside of what   *)
(* the checkpoints span, and on an exact hit.                              *)
(***************************************************************************)
EXTENDS Integers, Sequences

\* The middle is rounded up, so that a range of two does not repeat itself.
Center(lower, upper) == upper - ((upper - lower) \div 2)

\* The position the search ends at.
Search(cps, block) ==
  LET Indices == 1 .. Len(cps)
      search[range \in Indices \X Indices] ==
        LET lower  == range[1]
            upper  == range[2]
            center == Center(lower, upper)
        IN  IF upper <= lower                      THEN lower
            ELSE IF cps[center].fromBlock = block  THEN center
            ELSE IF cps[center].fromBlock < block  THEN search[<<center, upper>>]
            ELSE search[<<lower, center - 1>>]
  IN  search[<<1, Len(cps)>>]

\* What it searches for: the last checkpoint at or before the block, if there is one.
IsLastAtOrBefore(cps, block, i) ==
  /\ i \in 1 .. Len(cps) /\ cps[i].fromBlock <= block
  /\ \A j \in 1 .. Len(cps) : cps[j].fromBlock <= block => j <= i

\* Strictly increasing blocks.
Increasing(cps) ==
  /\ \A i \in 1 .. Len(cps) : cps[i].fromBlock \in Nat
  /\ \A i, j \in 1 .. Len(cps) : i < j => cps[i].fromBlock < cps[j].fromBlock
=============================================================================
