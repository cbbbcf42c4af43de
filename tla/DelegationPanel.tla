--------------------------- MODULE DelegationPanel ---------------------------
(***************************************************************************)
(* components/ChangeDelegatePannel of nouns-webapp with the information on *)
(* the candidate: the account enters an address or an ENS name and sends a *)
(* delegation.  Names are looked up while the account goes on typing, and  *)
(* no lookup is cancelled; a transaction is mined before the page notices. *)
(*                                                                         *)
(* An address is resolved to itself at once, and other text to nothing:    *)
(* only names are looked up.  Of the token only the account's delegate is  *)
(* kept: other votes stay, and the account delegates from here alone.      *)
(***************************************************************************)
EXTENDS Integers, Sequences, SequencesExt

CONSTANTS
  Candidates,      \* addresses, with the votes they have without this account's
  EnsNames,        \* the address of every name
  AccountVotes,    \* nouns of the account
  MaxLookups,      \* bound: lookups under way
  MaxDelegations   \* bound: transactions sent from the panel

\* An address is not a name.
ASSUME DelegationAssumption ==
  /\ Candidates \in [DOMAIN Candidates -> Nat] /\ AccountVotes \in Nat
  /\ DOMAIN Candidates \cap DOMAIN EnsNames = {}

VARIABLES
  delegatee,           \* of the token: the delegate of the account
  delegateTo,          \* of the page's address: a delegate to begin with, or nothing
  panel,               \* changeDelegateState, delegateInputText and delegateAddress
  willHaveVoteCount,   \* of the candidate's information
  lookups,             \* names being resolved
  delegations,         \* transactions sent
  overtaken,           \* history: delegateAddress is the answer for an earlier text
  editedWhileChanging  \* history: delegateAddress changed since a transaction was sent

delegationPanelVars ==
  <<delegatee, delegateTo, panel, willHaveVoteCount, lookups, delegations, overtaken,
    editedWhileChanging>>

NoText == ""
Account == "account"
isAddress(text) == text \in DOMAIN Candidates
resolveName(text) == IF text \in DOMAIN EnsNames THEN EnsNames[text] ELSE text
PanelInputs == DOMAIN Candidates \cup DOMAIN EnsNames

\* getCurrentVotes of the token.
useAccountVotes(address, delegate) ==
  Candidates[address] + (IF address = delegate THEN AccountVotes ELSE 0)

\* The candidate's information is there for an address that can be delegated to.
InfoShown(p, delegate) ==
  isAddress(p.address) /\ ~(p.state = "ENTER_DELEGATE_ADDRESS" /\ p.address = delegate)

\* The count to come is taken once, when the change begins.
DelegationCandidateInfo ==
  willHaveVoteCount' =
    IF ~InfoShown(panel', delegatee') \/ panel'.state = "ENTER_DELEGATE_ADDRESS" THEN 0
    ELSE IF InfoShown(panel, delegatee) /\ willHaveVoteCount > 0 THEN willHaveVoteCount
    ELSE useAccountVotes(panel'.address, delegatee') + AccountVotes

LookUp(text) == IF text \in DOMAIN EnsNames THEN <<text>> ELSE <<>>

NewPanel ==
  [state |-> "ENTER_DELEGATE_ADDRESS", text |-> delegateTo, address |-> delegateTo]

DelegationPanelInit ==
  /\ delegatee = Account /\ delegateTo \in PanelInputs \cup {NoText}
  /\ panel = NewPanel /\ willHaveVoteCount = 0 /\ lookups = LookUp(delegateTo)
  /\ delegations = <<>> /\ overtaken = FALSE /\ editedWhileChanging = FALSE

-----------------------------------------------------------------------------
setDelegateAddress(address) ==
  /\ panel' = [panel EXCEPT !.address = address]
  /\ editedWhileChanging' = TRUE

\* The input of a panel that was not given a delegate.
onChange(text) ==
  /\ delegateTo = NoText /\ panel.state # "CHANGE_FAILURE" /\ text # panel.text
  /\ Len(lookups) < MaxLookups
  /\ panel' = [panel EXCEPT !.text = text, !.address = text]
  /\ lookups' = lookups \o LookUp(text)
  /\ overtaken' = FALSE /\ editedWhileChanging' = TRUE
  /\ UNCHANGED <<delegatee, delegateTo, delegations>>
  /\ DelegationCandidateInfo

\* A lookup is answered, whatever the text is by now.
checkIsValidENS(n) ==
  /\ setDelegateAddress(resolveName(lookups[n]))
  /\ overtaken' = (lookups[n] # panel.text)
  /\ lookups' = RemoveAt(lookups, n)
  /\ UNCHANGED <<delegatee, delegateTo, delegations>>
  /\ DelegationCandidateInfo

\* The button can be pressed again until the first transaction is signed.
delegateVotes ==
  /\ panel.state = "ENTER_DELEGATE_ADDRESS" /\ isAddress(panel.address)
  /\ AccountVotes > 0 /\ Len(delegations) < MaxDelegations
  /\ delegations' = Append(delegations,
       [to |-> panel.address, entered |-> panel.text, overtaken |-> overtaken,
        already |-> panel.address = delegatee, stage |-> "signing", here |-> TRUE])
  /\ editedWhileChanging' = FALSE
  /\ UNCHANGED <<delegatee, delegateTo, panel, willHaveVoteCount, lookups, overtaken>>

\* The panel follows the status of whichever transaction reports.
PanelState(stage) ==
  CASE stage = "mining" -> "CHANGING"
    [] stage = "counted" -> "CHANGE_SUCCESS"
    [] OTHER -> "CHANGE_FAILURE"

DelegationReports(b, stage) ==
  /\ delegations' = [delegations EXCEPT ![b].stage = stage]
  /\ panel' = IF delegations[b].here THEN [panel EXCEPT !.state = PanelState(stage)] ELSE panel
  /\ UNCHANGED <<delegatee, delegateTo, lookups, overtaken, editedWhileChanging>>
  /\ DelegationCandidateInfo

SignDelegation(b) == delegations[b].stage = "signing" /\ DelegationReports(b, "mining")
RefuseDelegation(b) == delegations[b].stage = "signing" /\ DelegationReports(b, "refused")
NoticeDelegation(b) ==
  \/ delegations[b].stage = "mined" /\ DelegationReports(b, "counted")
  \/ delegations[b].stage = "reverted" /\ DelegationReports(b, "failed")

\* The page reads the token again with every block.
MineDelegation(b, succeeds) ==
  /\ delegations[b].stage = "mining"
  /\ delegations' =
       [delegations EXCEPT ![b].stage = IF succeeds THEN "mined" ELSE "reverted"]
  /\ delegatee' = IF succeeds THEN delegations[b].to ELSE delegatee
  /\ UNCHANGED <<delegateTo, panel, lookups, overtaken, editedWhileChanging>>
  /\ DelegationCandidateInfo

\* Mutant: the address of the last delegation stays.
KeepsAddress == [panel EXCEPT !.state = "ENTER_DELEGATE_ADDRESS", !.text = NoText]

StartsOver == [state |-> "ENTER_DELEGATE_ADDRESS", text |-> NoText, address |-> NoText]

\* Change: a panel that was given a delegate has no input then.
changeAgain ==
  /\ panel.state = "CHANGE_SUCCESS"
  /\ panel' = StartsOver /\ overtaken' = FALSE /\ editedWhileChanging' = TRUE
  /\ UNCHANGED <<delegatee, delegateTo, lookups, delegations>>
  /\ DelegationCandidateInfo

\* The panel is closed, and another one opened: it knows of no transaction.
onDismiss ==
  /\ panel' = NewPanel /\ lookups' = LookUp(delegateTo)
  /\ delegations' = [b \in DOMAIN delegations |-> [delegations[b] EXCEPT !.here = FALSE]]
  /\ willHaveVoteCount' = 0 /\ overtaken' = FALSE /\ editedWhileChanging' = FALSE
  /\ UNCHANGED <<delegatee, delegateTo>>

DelegationPanelNext ==
  \/ \E text \in PanelInputs \cup {NoText} : onChange(text)
  \/ \E n \in DOMAIN lookups : checkIsValidENS(n)
  \/ delegateVotes \/ changeAgain \/ onDismiss
  \/ \E b \in DOMAIN delegations :
       \/ SignDelegation(b) \/ RefuseDelegation(b) \/ NoticeDelegation(b)
       \/ \E succeeds \in BOOLEAN : MineDelegation(b, succeeds)

DelegationPanelSpec == DelegationPanelInit /\ [][DelegationPanelNext]_delegationPanelVars

-----------------------------------------------------------------------------
FromHere(stages) ==
  \E b \in DOMAIN delegations : delegations[b].here /\ delegations[b].stage \in stages

\* What the panel sends and tells is what the account asked for and got: votes are
\* delegated to whom the text names, unless an earlier lookup was answered last;
\* a success or a failure is that of a delegation sent from here; and the votes the
\* candidate will have count the account's once, mined or not, if there was one
\* delegation to someone new and nothing was entered since (checkIsValidENS,
\* useDelegateVotes, DelegationCandidateInfo).
DelegationGoesWhereEntered ==
  /\ \A b \in DOMAIN delegations :
       delegations[b].overtaken \/ delegations[b].to = resolveName(delegations[b].entered)
  /\ panel.state = "CHANGE_SUCCESS" => FromHere({"counted"})
  /\ panel.state = "CHANGE_FAILURE" => FromHere({"refused", "failed"})
  /\ panel.state = "CHANGING" /\ Len(delegations) = 1 /\ ~editedWhileChanging =>
       (~delegations[1].already =>
          willHaveVoteCount = Candidates[panel.address] + AccountVotes)
=============================================================================
