----------------------------- MODULE VoteLedger -----------------------------
(***************************************************************************)
(* What the governor relies on the token for (NounsTokenLike in            *)
(* NounsDAOInterfaces.sol): the votes of every account in the current      *)
(* block, and what getPriorVotes answers for each finished block.          *)
(* NounsToken is shown to implement this.                                  *)
(***************************************************************************)
EXTENDS Integers

CONSTANTS Voters,      \* accounts that may hold votes
          Allocations  \* the ways votes may be spread over the voters

ASSUME LedgerAssumption == Allocations \subseteq [Voters -> Nat]

VARIABLES votes,       \* getCurrentVotes
          past,        \* past[b][v] = getPriorVotes(v, b), for b < blockNumber
          blockNumber

ledger == <<votes, past, blockNumber>>

LedgerTypeOK ==
  /\ votes \in [Voters -> Nat]
  /\ blockNumber \in Nat \ {0}
  /\ past \in [0 .. blockNumber - 1 -> [Voters -> Nat]]

LedgerInit ==
  /\ votes \in Allocations
  /\ past = [b \in {0} |-> votes]
  /\ blockNumber = 1

\* Mints, burns, transfers and delegations, within a block.
VotesChange ==
  /\ votes' \in Allocations
  /\ UNCHANGED <<past, blockNumber>>

BlockEnds ==
  /\ past' = [b \in 0 .. blockNumber |-> IF b = blockNumber THEN votes ELSE past[b]]
  /\ blockNumber' = blockNumber + 1
  /\ UNCHANGED votes

LedgerNext == VotesChange \/ BlockEnds

LedgerSpec == LedgerInit /\ [][LedgerNext]_ledger
=============================================================================
