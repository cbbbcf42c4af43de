------------------------------ MODULE VoteModal ------------------------------
(***************************************************************************)
(* components/VoteModal of nouns-webapp: the dialog in which an account    *)
(* votes on a proposal.  It can be dismissed and opened again while a vote *)
(* is under way, and reports whatever its transactions report.  Of the     *)
(* governor only what decides on a vote is kept: whether voting is open    *)
(* and whether the account has voted, perhaps from another page.           *)
(*                                                                         *)
(* The four functions to vote (with a reason or without, with a refund or  *)
(* without) are one: their states are reported alike.  Messages and the    *)
(* reason are left out.                                                    *)
(***************************************************************************)
EXTENDS Naturals, Sequences

CONSTANT MaxBallots  \* bound: votes sent from the dialog

VARIABLES
  votingOpen, hasVoted,  \* of the governor
  signerIsContract,      \* whether the account has code
  show, vote, isLoading, isVoteSuccessful, isVoteFailed,
  ballots                \* how far the votes sent have come

governor == <<votingOpen, hasVoted, signerIsContract>>
dialog == <<show, vote, isLoading, isVoteSuccessful, isVoteFailed>>
voteModalVars == <<governor, dialog, ballots>>

Support == {"AGAINST", "FOR", "ABSTAIN"}

VoteModalInit ==
  /\ votingOpen = TRUE /\ hasVoted = FALSE /\ signerIsContract \in BOOLEAN
  /\ show = FALSE /\ vote = "undefined"
  /\ isLoading = FALSE /\ isVoteSuccessful = FALSE /\ isVoteFailed = FALSE
  /\ ballots = <<>>

\* The governor counts a vote while voting is open, once.
VoteAccepted == votingOpen /\ ~hasVoted

VotingEnds ==
  /\ votingOpen /\ votingOpen' = FALSE
  /\ UNCHANGED <<hasVoted, signerIsContract, dialog, ballots>>

VoteElsewhere ==
  /\ VoteAccepted /\ hasVoted' = TRUE
  /\ UNCHANGED <<votingOpen, signerIsContract, dialog, ballots>>

-----------------------------------------------------------------------------
\* The button of the proposal's header is there for an account that has not voted.
submitButtonClickHandler ==
  /\ ~show /\ VoteAccepted /\ show' = TRUE
  /\ UNCHANGED <<governor, vote, isLoading, isVoteSuccessful, isVoteFailed, ballots>>

VoteContent == show /\ ~isVoteFailed /\ ~isVoteSuccessful

setVote(support) ==
  /\ VoteContent /\ vote # support /\ vote' = support
  /\ UNCHANGED <<governor, show, isLoading, isVoteSuccessful, isVoteFailed, ballots>>

SubmitVote ==
  /\ VoteContent /\ vote # "undefined" /\ ~isLoading /\ Len(ballots) < MaxBallots
  /\ isLoading' = TRUE
  /\ ballots' = Append(ballots, IF signerIsContract THEN "signing" ELSE "estimating")
  /\ UNCHANGED <<governor, show, vote, isVoteSuccessful, isVoteFailed>>

Moves(b, from, to) == ballots[b] = from /\ ballots' = [ballots EXCEPT ![b] = to]

\* castRefundableVote awaits an estimate of its gas.  An estimate that is refused
\* throws: nothing is sent, and no status is ever reported.
estimateGas(b) ==
  /\ IF VoteAccepted THEN Moves(b, "estimating", "signing") ELSE Moves(b, "estimating", "refused")
  /\ UNCHANGED <<governor, dialog>>

\* Mutant: a vote being mined is taken for one that counts.
handleVoteStateChangeEager(status) ==
  /\ isLoading' = FALSE
  /\ isVoteSuccessful' = (isVoteSuccessful \/ status \in {"Mining", "Success"})
  /\ isVoteFailed' = (isVoteFailed \/ status \in {"Fail", "Exception"})

\* Whatever vote the status is of.
handleVoteStateChange(status) ==
  /\ isLoading' = (status = "Mining")
  /\ isVoteSuccessful' = (isVoteSuccessful \/ status = "Success")
  /\ isVoteFailed' = (isVoteFailed \/ status \in {"Fail", "Exception"})

Sign(b) ==
  /\ Moves(b, "signing", "mining") /\ handleVoteStateChange("Mining")
  /\ UNCHANGED <<governor, show, vote>>

RefuseToSign(b) ==
  /\ Moves(b, "signing", "failed") /\ handleVoteStateChange("Exception")
  /\ UNCHANGED <<governor, show, vote>>

Mine(b) ==
  /\ IF VoteAccepted
     THEN /\ Moves(b, "mining", "counted") /\ handleVoteStateChange("Success")
          /\ hasVoted' = TRUE
     ELSE /\ Moves(b, "mining", "failed") /\ handleVoteStateChange("Fail")
          /\ UNCHANGED hasVoted
  /\ UNCHANGED <<votingOpen, signerIsContract, show, vote>>

resetNonSuccessStateAndHideModal ==
  /\ show /\ show' = FALSE /\ isLoading' = FALSE /\ isVoteFailed' = FALSE
  /\ UNCHANGED <<governor, vote, isVoteSuccessful, ballots>>

\* Three seconds after a success the dialog closes by itself; hiding it resets the
\* failure.
onHide ==
  /\ show /\ isVoteSuccessful /\ show' = FALSE /\ isVoteFailed' = FALSE
  /\ UNCHANGED <<governor, vote, isLoading, isVoteSuccessful, ballots>>

VoteModalNext ==
  \/ VotingEnds \/ VoteElsewhere
  \/ submitButtonClickHandler \/ SubmitVote \/ resetNonSuccessStateAndHideModal \/ onHide
  \/ \E support \in Support : setVote(support)
  \/ \E b \in DOMAIN ballots : estimateGas(b) \/ Sign(b) \/ RefuseToSign(b) \/ Mine(b)

VoteModalSpec == VoteModalInit /\ [][VoteModalNext]_voteModalVars

-----------------------------------------------------------------------------
Some(stages) == \E b \in DOMAIN ballots : ballots[b] \in stages

\* However often it is dismissed and opened again: the dialog reports a success only
\* if one of its votes counts, a failure only if one of them was mined in vain or
\* not signed, and loads only while one is under way or after one was refused by
\* the estimate; of its votes at most one counts.
ModalReportsTheBallots ==
  /\ isVoteSuccessful => hasVoted /\ Some({"counted"})
  /\ isVoteFailed => Some({"failed"})
  /\ isLoading => Some({"estimating", "signing", "mining", "refused"})
  /\ \A b, c \in DOMAIN ballots : ballots[b] = "counted" /\ ballots[c] = "counted" => b = c
=============================================================================
