------------------------- MODULE NounsTokenHistory --------------------------
(***************************************************************************)
(* NounsToken with what no contract stores, in history variables: the      *)
(* supply at the end of each finished block (supplyAt), and the signatures *)
(* that delegateBySig was called with, each with its block (accepted).     *)
(* Here the token is compared with what the governor relies on it for.     *)
(***************************************************************************)
EXTENDS NounsToken, Functions

VARIABLES supplyAt, accepted

historyVars == <<vars, supplyAt, accepted>>

nounSupply == Cardinality({id \in Ids : Exists(id)})

HistoryInit == Init /\ supplyAt = <<>> /\ accepted = <<>>

HistoryNext ==
  /\ Next
  /\ supplyAt' = IF blockNumber' = blockNumber THEN supplyAt
                                               ELSE Append(supplyAt, nounSupply)
  /\ \/ \E sig \in Signatures :
          delegateBySig(sig) /\ accepted' = Append(accepted, [sig |-> sig, at |-> blockNumber])
     \/ ~(\E sig \in Signatures : delegateBySig(sig)) /\ accepted' = accepted

HistorySpec == HistoryInit /\ [][HistoryNext]_historyVars

\* At the end of every block the votes of all accounts add up to the supply of
\* that block, whatever happened since: what proposals count as "all votes" is
\* the number of nouns (ERC721Checkpointable getPriorVotes, totalSupply).
PastVotesAddUpToSupply ==
  \A b \in DOMAIN supplyAt :
    SumFunction([a \in Accounts |-> PriorVotes(checkpoints[a], b)]) = supplyAt[b]

\* Of the signatures an account made for one nonce at most one is ever accepted, once,
\* and none after its expiry: however often and in whatever order they are sent, and
\* whatever its signatory delegates by itself in between.
SignatureCountsOnce ==
  /\ \A i, j \in DOMAIN accepted :
       accepted[i].sig.signatory = accepted[j].sig.signatory
         /\ accepted[i].sig.nonce = accepted[j].sig.nonce => i = j
  /\ \A i \in DOMAIN accepted : accepted[i].at <= accepted[i].sig.expiry

\* NounsToken is the token the governor relies on: current votes change within a
\* block, and what getPriorVotes answers for a block is fixed when the block ends.
Ledger == INSTANCE VoteLedger WITH
  Voters      <- Accounts,
  Allocations <- [Accounts -> 0 .. MaxNouns],
  votes       <- [a \in Accounts |-> CurrentVotes(checkpoints[a])],
  past        <- [b \in 0 .. blockNumber - 1 |->
                    [a \in Accounts |-> PriorVotes(checkpoints[a], b)]]

ImplementsVoteLedger == Ledger!LedgerSpec
=============================================================================
