-------------------------- MODULE ProposalLifecycle --------------------------
(***************************************************************************)
(* What the governor promises about the life of a proposal: the states of  *)
(* ProposalState (NounsDAOInterfaces.sol) and the ways from one to the     *)
(* next.  The contract stores no state: state() derives it from blocks,    *)
(* votes, the quorum and three flags each time it is asked.  That what it  *)
(* derives moves only along these edges is what the refinement shows.      *)
(***************************************************************************)
CONSTANT ProposalIds

VARIABLE status

States == {"Pending", "Active", "Canceled", "Defeated", "Succeeded", "Queued",
           "Expired", "Executed", "Vetoed"}

Init == status = [id \in ProposalIds |-> "None"]

\* Time alone opens and closes the vote, decides it, and lets a queued proposal
\* expire.
ByTime == {<<"Pending", "Active">>, <<"Active", "Defeated">>, <<"Active", "Succeeded">>,
           <<"Queued", "Expired">>}

\* A transaction creates a proposal, queues it once it succeeded, executes it once
\* it is queued.  It may be canceled or vetoed any time before it was executed, and
\* vetoed even after it was canceled; nothing leaves Executed or Vetoed.
ByTransaction ==
  {<<"None", "Pending">>, <<"Succeeded", "Queued">>, <<"Queued", "Executed">>}
    \cup (States \ {"Executed", "Vetoed", "Canceled"}) \X {"Canceled"}
    \cup (States \ {"Executed", "Vetoed"}) \X {"Vetoed"}

TimePasses ==
  /\ status' \in [ProposalIds -> States \cup {"None"}]
  /\ \A id \in ProposalIds :
       status'[id] # status[id] => <<status[id], status'[id]>> \in ByTime

Transact ==
  \E id \in ProposalIds, s \in States :
    /\ <<status[id], s>> \in ByTransaction
    /\ status' = [status EXCEPT ![id] = s]

Next == TimePasses \/ Transact

Spec == Init /\ [][Next]_status
=============================================================================
