------------------------ MODULE NounsDAOLogicV2History ------------------------
(***************************************************************************)
(* NounsDAOLogicV2 with what neither contract stores, in a history         *)
(* variable: when a proposal was queued, and the timelock delay in force   *)
(* then.  Both are read off the transaction, not off the eta it computes.  *)
(***************************************************************************)
EXTENDS NounsDAOLogicV2

VARIABLE queuedAt

historyVars == <<vars, queuedAt>>

\* The transaction queues the proposal.
Queues(id) ==
  id \in DOMAIN proposals /\ proposals[id].eta = 0 /\ proposals'[id].eta # 0

HistoryInit == Init /\ queuedAt = [id \in ProposalIds |-> [time |-> 0, delay |-> 0]]

HistoryNext ==
  /\ Next
  /\ queuedAt' = [id \in ProposalIds |->
       IF Queues(id) THEN [time |-> timestamp, delay |-> config["delay"]] ELSE queuedAt[id]]

HistorySpec == HistoryInit /\ [][HistoryNext]_historyVars

\* Whoever opposes a proposal has the timelock delay to leave: between the transaction
\* that queued it, which came after the last vote, and its execution lies the delay
\* that was in force then, whatever shorter or longer delay proposals executed in
\* between have set.
NoticeBeforeExecution ==
  \A id \in DOMAIN proposals :
    proposals[id].executed =>
      /\ proposals[id].endBlock < queuedAt[id].time
      /\ queuedAt[id].time + queuedAt[id].delay <= timestamp
=============================================================================
