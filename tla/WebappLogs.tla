----------------------------- MODULE WebappLogs -----------------------------
(***************************************************************************)
(* How the webapp reads the governor's ProposalCreated logs when the       *)
(* subgraph is out of reach: components register a filter with the store,  *)
(* an updater asks the node for the logs at every block the page learns    *)
(* of, and the answers come back in any order, or not at all.  The list of *)
(* proposals pairs these logs with the governor's proposals by position.   *)
(***************************************************************************)
EXTENDS Integers, Sequences, SequencesExt, FiniteSetsExt

CONSTANTS
  MAX_BLOCKS_PER_CALL,  \* blocks asked for at once (1000000 in the code)
  LogReaders,           \* components that list the proposals
  LastLogBlock          \* bound: blocks of the chain

ASSUME WebappLogsAssumption == MAX_BLOCKS_PER_CALL \in Nat \ {0}

VARIABLES
  createdIn,    \* of the chain: the block every proposal was created in, in order
  chainHead,    \* of the chain: its last block
  readers,      \* the components that are mounted
  logsSlice,    \* the filter's entry in the store: listeners, fetchingBlockNumber, results
  pageBlock,    \* the block the page knows of (useBlockNumber)
  logRequests,  \* the blocks up to which logs were asked for and not yet answered
  listed        \* the number of proposals the governor last answered with

logsVars ==
  <<createdIn, chainHead, readers, logsSlice, pageBlock, logRequests, listed>>

Absent == -1
NoResults == [blockNumber |-> Absent, error |-> FALSE, logs |-> <<>>]
NoEntry == [listeners |-> 0, fetchingBlockNumber |-> Absent, results |-> NoResults]

LogsInit ==
  /\ createdIn = <<>> /\ chainHead = 1
  /\ readers = {} /\ logsSlice = NoEntry
  /\ pageBlock = Absent /\ logRequests = {} /\ listed = 0

-----------------------------------------------------------------------------
(* The chain, and what the page reads of it.                               *)

\* A block is mined, with a proposal or without.
MineLogBlock ==
  /\ chainHead < LastLogBlock /\ chainHead' = chainHead + 1
  /\ \/ createdIn' = Append(createdIn, chainHead') \/ UNCHANGED createdIn
  /\ UNCHANGED <<readers, logsSlice, pageBlock, logRequests, listed>>

LearnBlock ==
  /\ pageBlock # chainHead /\ pageBlock' = chainHead
  /\ UNCHANGED <<createdIn, chainHead, readers, logsSlice, logRequests, listed>>

\* proposalCount and proposals are read from the governor.
ReadProposals ==
  /\ listed # Len(createdIn) /\ listed' = Len(createdIn)
  /\ UNCHANGED <<createdIn, chainHead, readers, logsSlice, pageBlock, logRequests>>

-----------------------------------------------------------------------------
(* The store.  All components use one key: a key holds the address and the *)
(* topics of a filter but not its fromBlock, which is lost with it.        *)

addListener(reader) ==
  /\ reader \notin readers /\ readers' = readers \cup {reader}
  /\ logsSlice' = [logsSlice EXCEPT !.listeners = @ + 1]
  /\ UNCHANGED <<createdIn, chainHead, pageBlock, logRequests, listed>>

removeListener(reader) ==
  /\ reader \in readers /\ readers' = readers \ {reader}
  /\ logsSlice' = [logsSlice EXCEPT !.listeners = @ - 1]
  /\ UNCHANGED <<createdIn, chainHead, pageBlock, logRequests, listed>>

\* Mutant: answers are stored in the order they come in.
InAnyOrder(results) == TRUE

\* fetchedLogs and fetchedLogsError drop what is older than the stored results.
NotOutdated(results) == logsSlice.results.blockNumber <= results.blockNumber

Stored(results) ==
  IF NotOutdated(results) THEN [logsSlice EXCEPT !.results = results] ELSE logsSlice

fromBlockOfKey == 0

-----------------------------------------------------------------------------
(* The updater.                                                            *)

filterNeedsFetch ==
  /\ pageBlock # Absent
  /\ logsSlice.listeners > 0
  /\ logsSlice.fetchingBlockNumber < pageBlock
  /\ logsSlice.results.blockNumber < pageBlock

fetchingLogs ==
  /\ filterNeedsFetch
  /\ logsSlice' = [logsSlice EXCEPT !.fetchingBlockNumber = pageBlock]
  /\ logRequests' = logRequests \cup {pageBlock}
  /\ UNCHANGED <<createdIn, chainHead, readers, pageBlock, listed>>

\* Both ends of a range are included, and the next one starts where it ends.
ranges(blockNumber) ==
  LET from(k) == fromBlockOfKey + (k - 1) * MAX_BLOCKS_PER_CALL
  IN [k \in 1 .. (blockNumber - fromBlockOfKey) \div MAX_BLOCKS_PER_CALL + 1 |->
        from(k) .. Min({from(k) + MAX_BLOCKS_PER_CALL, blockNumber})]

\* A log is the number of the proposal it tells of; the node answers in their order.
getLogs(range) ==
  LET logs[p \in 0 .. Len(createdIn)] ==
        IF p = 0 THEN <<>>
        ELSE IF createdIn[p] \in range THEN Append(logs[p - 1], p)
        ELSE logs[p - 1]
  IN  logs[Len(createdIn)]
AllLogs(blockNumber) ==
  FlattenSeq([k \in DOMAIN ranges(blockNumber) |-> getLogs(ranges(blockNumber)[k])])

fetchedLogs(blockNumber) ==
  logsSlice' = Stored([blockNumber |-> blockNumber, error |-> FALSE,
                       logs |-> AllLogs(blockNumber)])

fetchedLogsError(blockNumber) ==
  logsSlice' = Stored([blockNumber |-> blockNumber, error |-> TRUE, logs |-> <<>>])

\* Promise.all settles: every range has been answered, or one was refused.
LogsAnswered(blockNumber) ==
  /\ blockNumber \in logRequests /\ logRequests' = logRequests \ {blockNumber}
  /\ fetchedLogs(blockNumber) \/ fetchedLogsError(blockNumber)
  /\ UNCHANGED <<createdIn, chainHead, readers, pageBlock, listed>>

WebappLogsNext ==
  \/ MineLogBlock \/ LearnBlock \/ ReadProposals
  \/ \E reader \in LogReaders : addListener(reader) \/ removeListener(reader)
  \/ fetchingLogs
  \/ \E blockNumber \in logRequests : LogsAnswered(blockNumber)

WebappLogsSpec == LogsInit /\ [][WebappLogsNext]_logsVars

-----------------------------------------------------------------------------
(* What is displayed.                                                      *)

useLogs ==
  LET results == logsSlice.results
      Shown(state, logs) == [state |-> state, logs |-> logs]
  IN IF pageBlock \in {Absent, 0} THEN Shown("INVALID", <<>>)
     ELSE IF results.blockNumber = Absent THEN Shown("LOADING", <<>>)
     ELSE IF results.error THEN Shown("ERROR", <<>>)
     ELSE IF results.blockNumber >= pageBlock THEN Shown("SYNCED", results.logs)
     ELSE Shown("SYNCING", results.logs)

Untitled == 0

\* The description in a log is that of the proposal with the log's number.
useFormattedProposalCreatedLogs == useLogs.logs

\* While there are proposals and no logs the list is loading, and empty.
useAllProposalsViaChain ==
  LET descriptions == useFormattedProposalCreatedLogs
  IN IF listed > 0 /\ descriptions = <<>> THEN <<>>
     ELSE [i \in 1 .. listed |-> IF i <= Len(descriptions) THEN descriptions[i] ELSE Untitled]

CreatedBy(block) == {p \in DOMAIN createdIn : createdIn[p] <= block}
SharedByRanges(block) == block > fromBlockOfKey /\ block % MAX_BLOCKS_PER_CALL = 0

\* SYNCED logs are those of the chain up to the page's block; older ones, or none
\* yet, are shown only while newer ones are asked for or about to be, although
\* answers overtake each other; and every proposal is listed with its own
\* description or none.  The last fails for a proposal made in a block two ranges
\* share: its log comes twice and moves the descriptions after it (useLogs,
\* fetchedLogs and the Updater of updaters/logs.ts).
LogsFollowTheChain ==
  /\ useLogs.state = "SYNCED" => ToSet(useLogs.logs) = CreatedBy(pageBlock)
  /\ useLogs.state \in {"LOADING", "SYNCING"} /\ readers # {} =>
       filterNeedsFetch \/ \E block \in logRequests : block > logsSlice.results.blockNumber
  /\ (\E p \in CreatedBy(logsSlice.results.blockNumber) : SharedByRanges(createdIn[p]))
     \/ \A i \in DOMAIN useAllProposalsViaChain : useAllProposalsViaChain[i] \in {i, Untitled}
=============================================================================
