---------------------------- MODULE SubgraphToken ----------------------------
(***************************************************************************)
(* nouns-subgraph/src/nouns-erc-721.ts with the entities of helpers.ts it  *)
(* works on, behind NounsToken: a transaction of the token emits its       *)
(* events, in the order the contracts emit them, and the indexer handles   *)
(* them one by one.  The next transaction waits until it is done: handlers *)
(* see nothing but the events and the store, so lag changes no result.     *)
(*                                                                         *)
(* An entity is a copy: a handler loads it, another function may load and  *)
(* save it again, and the copy saved last wins.  Lists of nouns are bags,  *)
(* since push and filter can leave a noun in one twice.  Left out: seeds   *)
(* and totalTokensHeld, which nothing reads, the log entities              *)
(* (DelegationEvent, TransferEvent), which NounActivity models, and the    *)
(* token's transactions that emit nothing a handler takes: approvals and   *)
(* setters (the minter and the nounders DAO are any two accounts).         *)
(***************************************************************************)
EXTENDS NounsToken, Sequences, FiniteSetsExt

CONSTANTS
  TokenOwner,   \* owner() of the token, which a mint names as creator
  MaxTransactions

Null == "null"

\* Mints name an account as creator: the token has an owner.
ASSUME SubgraphTokenAssumption == TokenOwner \in Accounts /\ Null \notin Addresses

VARIABLES
  events,        \* events the indexer has not handled yet
  account,       \* Account entities; one that was not created holds the defaults
  representative,\* Delegate entities
  governance,    \* the Governance entity
  nounEntity,    \* Noun entities
  selfSent,      \* history: accounts that sent a noun to themselves
  transactions

indexed == <<account, representative, governance, nounEntity>>
subgraphTokenVars == <<events, indexed, selfSent, transactions>>

NoNouns == [id \in Ids |-> 0]
Pushed(bag, id) == [bag EXCEPT ![id] = @ + 1]
Without(bag, ids) == [id \in Ids |-> IF id \in ids THEN 0 ELSE bag[id]]
NounsIn(bag) == {id \in Ids : bag[id] > 0}

SubgraphTokenInit ==
  /\ events = <<>>
  /\ account = [a \in Addresses |-> [balance |-> 0, nouns |-> NoNouns, delegate |-> Null]]
  /\ representative = [a \in Addresses |-> [exists |-> FALSE, delegatedVotes |-> 0,
                                            holders |-> 0, nounsRepresented |-> NoNouns]]
  /\ governance = [totalTokenHolders |-> 0, currentTokenHolders |-> 0, currentDelegates |-> 0,
                   totalDelegates |-> 0, delegatedVotes |-> 0]
  /\ nounEntity = [id \in Ids |-> [owner |-> Null, seeded |-> FALSE]]
  /\ selfSent = {} /\ transactions = 0

-----------------------------------------------------------------------------
(* The events of the token's transactions.                                 *)

VotesChanged(d, before, after) ==
  [event |-> "DelegateVotesChanged", delegate |-> d, before |-> before, after |-> after]
Transfer(from, to, id) == [event |-> "Transfer", from |-> from, to |-> to, id |-> id]

\* _moveDelegates writes, and reports, the source before the destination.
MoveEvents(h, src, dst, amount) ==
  IF src = dst \/ amount = 0 THEN <<>>
  ELSE (IF src = Zero THEN <<>>
        ELSE <<VotesChanged(src, CurrentVotes(h[src]), CurrentVotes(h[src]) - amount)>>)
       \o (IF dst = Zero THEN <<>>
           ELSE <<VotesChanged(dst, CurrentVotes(h[dst]), CurrentVotes(h[dst]) + amount)>>)

\* Every minted noun goes to the token's owner first, in the log alone.
MintEvents(h, to, id) ==
  MoveEvents(h, Zero, delegates(to), 1)
    \o <<Transfer(Zero, TokenOwner, id), Transfer(TokenOwner, to, id),
         [event |-> "NounCreated", id |-> id]>>

SendEvents(from, to, id) ==
  Append(MoveEvents(checkpoints, delegates(from), delegates(to), 1), Transfer(from, to, id))

Transacts(emitted) ==
  /\ events = <<>> /\ transactions < MaxTransactions
  /\ events' = emitted /\ transactions' = transactions + 1
  /\ UNCHANGED indexed

Mints ==
  /\ mint
  /\ Transacts(IF RewardDue
               THEN MintEvents(checkpoints, noundersDAO, currentNounId)
                      \o MintEvents(Hook(checkpoints, Zero, noundersDAO), minter, currentNounId + 1)
               ELSE MintEvents(checkpoints, minter, currentNounId))
  /\ selfSent' = selfSent \cup
       ({TokenOwner} \cap ({minter} \cup (IF RewardDue THEN {noundersDAO} ELSE {})))

Burns(id) ==
  /\ burn(id) /\ Transacts(SendEvents(owner[id], Zero, id))
  /\ UNCHANGED selfSent

Sends(id, to) ==
  /\ transferFrom(owner[id], owner[id], to, id)
  /\ Transacts(SendEvents(owner[id], to, id))
  /\ selfSent' = IF owner[id] = to THEN selfSent \cup {to} ELSE selfSent

DelegateEvents(a, delegatee) ==
  <<[event |-> "DelegateChanged", delegator |-> a, from |-> delegates(a), to |-> delegatee]>>
    \o MoveEvents(checkpoints, delegates(a), delegatee, balanceOf(a))

Delegates(a, d) ==
  /\ Delegate(a, d)
  /\ Transacts(DelegateEvents(a, IF d = Zero THEN a ELSE d))
  /\ UNCHANGED selfSent

\* A delegatee of address(0) gets a Delegate entity, and its votes are nobody's.
DelegatesBySig(sig) ==
  /\ delegateBySig(sig)
  /\ Transacts(DelegateEvents(sig.signatory, sig.delegatee))
  /\ UNCHANGED selfSent

-----------------------------------------------------------------------------
(* The handlers.                                                           *)

\* getOrCreateDelegate: creating one counts it, in a copy of the Governance
\* entity of its own, which is saved.
getOrCreateDelegate(reps, d) == [reps EXCEPT ![d].exists = TRUE]
CountCreated(gov, reps, ds) ==
  [gov EXCEPT !.totalDelegates = @ + Cardinality({d \in ds \ {Zero} : ~reps[d].exists})]

handleNounCreated(e) ==
  /\ nounEntity' = IF nounEntity[e.id].owner = Null THEN nounEntity
                   ELSE [nounEntity EXCEPT ![e.id].seeded = TRUE]
  /\ UNCHANGED <<account, representative, governance>>

\* The previous and the new delegate are two copies, even of one entity: the new
\* one is saved last.
handleDelegateChanged(e) ==
  LET held == account[e.delegator].nouns
      reps == getOrCreateDelegate(getOrCreateDelegate(representative, e.from), e.to)
      previous == [reps[e.from] EXCEPT !.holders = @ - 1,
                                       !.nounsRepresented = Without(@, NounsIn(held))]
      new == [reps[e.to] EXCEPT !.holders = @ + 1,
                                !.nounsRepresented = [id \in Ids |-> @[id] + held[id]]]
  IN /\ account' = [account EXCEPT ![e.delegator].delegate = e.to]
     /\ representative' = [[reps EXCEPT ![e.from] = previous] EXCEPT ![e.to] = new]
     /\ governance' = CountCreated(governance, representative, {e.from, e.to})
     /\ UNCHANGED nounEntity

\* Mutant: the votes of all delegates grow by the new balance.
VotesDifferenceIsBalance(e) == e.after

VotesDifference(e) == e.after - e.before

\* The Governance entity is loaded before the delegate may be created and counted:
\* saving it loses the count.
handleDelegateVotesChanged(e) ==
  /\ representative' = [getOrCreateDelegate(representative, e.delegate)
                          EXCEPT ![e.delegate].delegatedVotes = e.after]
  /\ governance' = [governance EXCEPT
       !.currentDelegates = @ + (IF e.before = 0 /\ e.after > 0 THEN 1 ELSE 0)
                              - (IF e.after = 0 THEN 1 ELSE 0),
       !.delegatedVotes = @ + VotesDifference(e)]
  /\ UNCHANGED <<account, nounEntity>>

\* The sender: one noun less, also for its delegate.  Losing the last noun it loses
\* its delegate, which on chain it keeps.
AfterSending(e) ==
  LET holder == account[e.from]
  IN [holder EXCEPT !.balance = @ - 1, !.nouns = Without(@, {e.id}),
                    !.delegate = IF holder.balance = 1 THEN Null ELSE @]

\* The recipient: one noun more, for its delegate if it has one.  With its first
\* noun it becomes its own delegate, whatever it is on chain.
AfterReceiving(e) ==
  LET holder == account[e.to]
  IN [holder EXCEPT !.balance = @ + 1, !.nouns = Pushed(@, e.id),
                    !.delegate = IF holder.balance = 0 THEN e.to ELSE @]

\* Both holders and the Governance entity are loaded first and saved last, the
\* recipient after the sender.
handleTransfer(e) ==
  LET minted == e.from = Zero
      d == account[e.from].delegate
      receiver == IF account[e.to].delegate = Null THEN e.to ELSE account[e.to].delegate
      lostOne == IF minted \/ d = Null THEN representative
                 ELSE [getOrCreateDelegate(representative, d)
                         EXCEPT ![d].nounsRepresented = Without(@, {e.id})]
      emptied == ~minted /\ account[e.from].balance = 1
      first == account[e.to].balance = 0
      \* the delegates created since that copy was last saved
      created == (IF minted \/ emptied \/ e.to = Zero THEN {} ELSE {d} \ {Null}) \cup {receiver}
      counted == [governance EXCEPT
        !.totalTokenHolders = @ + (IF minted THEN 1 ELSE 0) - (IF e.to = Zero THEN 1 ELSE 0),
        !.currentTokenHolders = @ - (IF emptied THEN 1 ELSE 0) + (IF first THEN 1 ELSE 0)]
  IN /\ account' = [[account EXCEPT ![e.from] = IF minted THEN @ ELSE AfterSending(e)]
                      EXCEPT ![e.to] = AfterReceiving(e)]
     /\ representative' = [getOrCreateDelegate(lostOne, receiver)
                             EXCEPT ![receiver].nounsRepresented = Pushed(@, e.id)]
     /\ governance' = IF first THEN counted ELSE CountCreated(counted, representative, created)
     /\ nounEntity' = [nounEntity EXCEPT ![e.id].owner = e.to]

Handles(e) ==
  CASE e.event = "NounCreated"          -> handleNounCreated(e)
    [] e.event = "DelegateChanged"      -> handleDelegateChanged(e)
    [] e.event = "DelegateVotesChanged" -> handleDelegateVotesChanged(e)
    [] e.event = "Transfer"             -> handleTransfer(e)

IndexToken ==
  /\ events # <<>>
  /\ Handles(Head(events)) /\ events' = Tail(events)
  /\ UNCHANGED <<vars, selfSent, transactions>>

SubgraphTokenNext ==
  \/ Mints
  \/ \E id \in Ids : Burns(id)
  \/ \E id \in Ids, to \in Accounts : Sends(id, to)
  \/ \E a \in Delegators, d \in Addresses : Delegates(a, d)
  \/ \E sig \in Signatures : DelegatesBySig(sig)
  \/ IndexToken

SubgraphTokenSpec == Init /\ SubgraphTokenInit /\ [][SubgraphTokenNext]_<<vars, subgraphTokenVars>>

-----------------------------------------------------------------------------
Holders == {a \in Addresses : account[a].balance > 0}

\* Once its events are handled, a transaction has left the entities as the token
\* is: the owner of every noun, the votes of every delegate and of all of them, the
\* supply (totalTokenHolders), and the balance and the nouns of every account that
\* did not send a noun to itself.  Counts of holders, who include address(0) once a
\* noun was burned, need that nobody did.  The votes of all are those the token
\* counts: fewer than its nouns once a signature has delegated to address(0).
HoldingsFollowTheChain ==
  events = <<>> =>
    /\ \A id \in Ids : id < currentNounId =>
         nounEntity[id] = [owner |-> owner[id], seeded |-> TRUE]
    /\ \A a \in Accounts \ selfSent :
         account[a].balance = balanceOf(a) /\ NounsIn(account[a].nouns) = NounsOf(a)
    /\ \A d \in Accounts : representative[d].delegatedVotes = CurrentVotes(checkpoints[d])
    /\ governance.delegatedVotes =
         SumFunction([d \in Accounts |-> CurrentVotes(checkpoints[d])])
    /\ governance.totalTokenHolders = Cardinality({id \in Ids : Exists(id)})
    /\ governance.currentDelegates = Cardinality({d \in Accounts : CurrentVotes(checkpoints[d]) > 0})
    /\ selfSent = {} => governance.currentTokenHolders = Cardinality(Holders)

\* schema.graphql:177: the nouns a delegate represents are those it votes with.
RepresentedNounsVoteForTheirDelegate ==
  events = <<>> =>
    \A d \in Accounts : NounsIn(representative[d].nounsRepresented) = VotersFor(d)
=============================================================================
