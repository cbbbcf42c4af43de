----------------------------- MODULE NounsToken -----------------------------
(***************************************************************************)
(* NounsToken.sol with the base contracts it inherits that keep owners,    *)
(* approvals and votes (ERC721.sol, ERC721Checkpointable.sol).  One action *)
(* is one transaction: the whole handler, the _beforeTokenTransfer hook    *)
(* and every checkpoint it writes.  A transaction that a `require` would   *)
(* revert is not enabled.  The enumeration lists are in ERC721Enumerable.  *)
(*                                                                         *)
(* Block timestamps grow with block numbers, so a signature's expiry is    *)
(* compared with the block number.  Seeds, the descriptor and the seeder   *)
(* (metadata and randomness) are left out.                                 *)
(***************************************************************************)
EXTENDS Checkpoints, FiniteSets

CONSTANTS
  RewardStep,   \* 10: one noun in RewardStep goes to the nounders
  LastReward,   \* 1820: the last id that can be a nounders reward
  MaxNouns,     \* bound: ids are 0 .. MaxNouns - 1
  MaxBlock,     \* bound on block.number
  Minters,      \* what the owner may set the minter to
  InitMinter,
  InitNounders,
  Signatures,   \* delegation signatures accounts have produced off chain
  Delegators,   \* bound: the accounts that delegate by themselves
  Approvers,    \* bound: the accounts that grant approvals
  Proxies       \* pairs <<owner, operator>> of OpenSea's proxy registry

Ids == 0 .. MaxNouns - 1

Signature == [signatory : Accounts, delegatee : Addresses, nonce : Nat, expiry : Nat]

ASSUME NounsTokenAssumption ==
  /\ IsFiniteSet(Accounts)
  /\ RewardStep \in Nat \ {0} /\ LastReward \in Nat
  /\ MaxNouns \in Nat /\ MaxBlock \in Nat
  /\ Minters \subseteq Addresses
  /\ InitMinter \in Addresses /\ InitNounders \in Addresses
  /\ Signatures \subseteq Signature
  /\ Delegators \subseteq Accounts /\ Approvers \subseteq Accounts
  /\ Proxies \subseteq Accounts \X Accounts

VARIABLES
  owner,         \* _owners: Zero for an id that does not exist
  approved,      \* _tokenApprovals
  operators,     \* _operatorApprovals, as the set of pairs that are true
  delegate,      \* _delegates: Zero until an account delegates
  checkpoints,   \* checkpoints and numCheckpoints
  nonces,        \* the nonce the next signature of an account must carry
  currentNounId, \* _currentNounId
  noundersDAO,
  minter,
  isMinterLocked,
  blockNumber    \* block.number

ownership == <<owner, approved>>
delegation == <<delegate, nonces>>
admin == <<noundersDAO, minter, isMinterLocked>>
vars == <<owner, approved, operators, delegate, checkpoints, nonces,
          currentNounId, noundersDAO, minter, isMinterLocked,
          blockNumber>>

Exists(id) == owner[id] # Zero
NounsOf(a) == {id \in Ids : owner[id] = a}
balanceOf(a) == Cardinality(NounsOf(a))

\* Mutant: an account that has not delegated has no delegate.
delegatesWithoutDefault(a) == IF a = Zero THEN Zero ELSE delegate[a]

\* delegates(a): an account that has not delegated is its own delegate, and so
\* is address(0).
delegates(a) == IF a = Zero \/ delegate[a] = Zero THEN a ELSE delegate[a]

isApprovedForAll(o, spender) == <<o, spender>> \in operators \cup Proxies

isApprovedOrOwner(spender, id) ==
  /\ Exists(id)
  /\ spender = owner[id] \/ approved[id] = spender \/ isApprovedForAll(owner[id], spender)

TypeOK ==
  /\ owner \in [Ids -> Addresses] /\ approved \in [Ids -> Addresses]
  /\ operators \subseteq Accounts \X Accounts
  /\ delegate \in [Accounts -> Addresses]
  /\ checkpoints \in Histories
  /\ nonces \in [Accounts -> Nat]
  /\ currentNounId \in Nat /\ blockNumber \in Nat
  /\ noundersDAO \in Addresses
  /\ minter \in Addresses /\ isMinterLocked \in BOOLEAN

Init ==
  /\ owner = [id \in Ids |-> Zero] /\ approved = [id \in Ids |-> Zero]
  /\ operators = {}
  /\ delegate = [a \in Accounts |-> Zero]
  /\ checkpoints = [a \in Accounts |-> <<>>]
  /\ nonces = [a \in Accounts |-> 0]
  /\ currentNounId = 0
  /\ noundersDAO = InitNounders
  /\ minter = InitMinter
  /\ isMinterLocked = FALSE
  /\ blockNumber = 1

-----------------------------------------------------------------------------
(* The hook of a transfer, mint or burn: one vote moves between delegates.  *)

CanHook(from, to) == CanMove(checkpoints, delegates(from), delegates(to), 1)
Hook(h, from, to) == MoveDelegates(h, blockNumber, delegates(from), delegates(to), 1)

(***************************************************************************)
(* mint, called by the minter: on a reward id one noun for the nounders    *)
(* comes first, in the same transaction.                                   *)
(***************************************************************************)
\* Mutant: the last reward is left out.
RewardDueTooShort == currentNounId < LastReward /\ currentNounId % RewardStep = 0

RewardDue == currentNounId <= LastReward /\ currentNounId % RewardStep = 0

MintReward ==
  /\ RewardDue
  /\ currentNounId + 1 \in Ids
  /\ minter # Zero /\ noundersDAO # Zero
  /\ owner' = [owner EXCEPT ![currentNounId] = noundersDAO, ![currentNounId + 1] = minter]
  /\ checkpoints' = Hook(Hook(checkpoints, Zero, noundersDAO), Zero, minter)
  /\ currentNounId' = currentNounId + 2
  /\ UNCHANGED <<approved, operators, delegation, admin, blockNumber>>

MintOne ==
  /\ ~RewardDue
  /\ currentNounId \in Ids
  /\ minter # Zero
  /\ owner' = [owner EXCEPT ![currentNounId] = minter]
  /\ checkpoints' = Hook(checkpoints, Zero, minter)
  /\ currentNounId' = currentNounId + 1
  /\ UNCHANGED <<approved, operators, delegation, admin, blockNumber>>

mint == MintReward \/ MintOne

burn(id) ==
  /\ minter # Zero /\ Exists(id)
  /\ CanHook(owner[id], Zero)
  /\ owner' = [owner EXCEPT ![id] = Zero]
  /\ approved' = [approved EXCEPT ![id] = Zero]
  /\ checkpoints' = Hook(checkpoints, owner[id], Zero)
  /\ UNCHANGED <<operators, delegation, currentNounId, admin, blockNumber>>

\* Mutant: the approval of the sold noun stays.
transferFromKeepsApproval(sender, from, to, id) ==
  /\ isApprovedOrOwner(sender, id)
  /\ owner[id] = from /\ to # Zero
  /\ CanHook(from, to)
  /\ owner' = [owner EXCEPT ![id] = to]
  /\ checkpoints' = Hook(checkpoints, from, to)
  /\ UNCHANGED <<approved, operators, delegation, currentNounId, admin, blockNumber>>

\* safeTransferFrom is the same transaction when the recipient accepts.
transferFrom(sender, from, to, id) ==
  /\ isApprovedOrOwner(sender, id)
  /\ owner[id] = from /\ to # Zero
  /\ CanHook(from, to)
  /\ owner' = [owner EXCEPT ![id] = to]
  /\ approved' = [approved EXCEPT ![id] = Zero]
  /\ checkpoints' = Hook(checkpoints, from, to)
  /\ UNCHANGED <<operators, delegation, currentNounId, admin, blockNumber>>

approve(sender, to, id) ==
  /\ Exists(id) /\ to # owner[id]
  /\ sender = owner[id] \/ isApprovedForAll(owner[id], sender)
  /\ approved' = [approved EXCEPT ![id] = to]
  /\ UNCHANGED <<owner, operators, delegation, checkpoints, currentNounId, admin, blockNumber>>

setApprovalForAll(sender, operator, allow) ==
  /\ operator # sender
  /\ operators' = IF allow THEN operators \cup {<<sender, operator>>}
                           ELSE operators \ {<<sender, operator>>}
  /\ UNCHANGED <<ownership, delegation, checkpoints, currentNounId, admin, blockNumber>>

\* Mutant: the current delegate is read after the new one was written.
DelegateToReadsLate(delegator, delegatee) ==
  /\ delegate' = [delegate EXCEPT ![delegator] = delegatee]
  /\ UNCHANGED checkpoints

(***************************************************************************)
(* _delegate: every noun of the delegator moves from its current delegate. *)
(* A delegatee of address(0) is replaced by the sender in delegate, and    *)
(* kept as it is in delegateBySig.                                         *)
(***************************************************************************)
DelegateTo(delegator, delegatee) ==
  /\ CanMove(checkpoints, delegates(delegator), delegatee, balanceOf(delegator))
  /\ delegate' = [delegate EXCEPT ![delegator] = delegatee]
  /\ checkpoints' = MoveDelegates(checkpoints, blockNumber, delegates(delegator),
                                  delegatee, balanceOf(delegator))

Delegate(sender, delegatee) ==
  /\ DelegateTo(sender, IF delegatee = Zero THEN sender ELSE delegatee)
  /\ UNCHANGED <<ownership, operators, nonces, currentNounId, admin, blockNumber>>

\* Mutant: the nonce is not counted up.
delegateBySigKeepsNonce(sig) ==
  /\ sig.nonce = nonces[sig.signatory]
  /\ blockNumber <= sig.expiry
  /\ nonces' = nonces
  /\ DelegateTo(sig.signatory, sig.delegatee)
  /\ UNCHANGED <<ownership, operators, currentNounId, admin, blockNumber>>

delegateBySig(sig) ==
  /\ sig.nonce = nonces[sig.signatory]
  /\ blockNumber <= sig.expiry
  /\ nonces' = [nonces EXCEPT ![sig.signatory] = @ + 1]
  /\ DelegateTo(sig.signatory, sig.delegatee)
  /\ UNCHANGED <<ownership, operators, currentNounId, admin, blockNumber>>

-----------------------------------------------------------------------------
setNoundersDAO(dao) ==
  /\ noundersDAO # Zero   \* only the nounders DAO itself may call
  /\ noundersDAO' = dao
  /\ UNCHANGED <<ownership, operators, delegation, checkpoints, currentNounId,
                 minter, isMinterLocked, blockNumber>>

setMinter(newMinter) ==
  /\ ~isMinterLocked
  /\ minter' = newMinter
  /\ UNCHANGED <<ownership, operators, delegation, checkpoints, currentNounId,
                 noundersDAO, isMinterLocked, blockNumber>>

lockMinter ==
  /\ ~isMinterLocked
  /\ isMinterLocked' = TRUE
  /\ UNCHANGED <<ownership, operators, delegation, checkpoints, currentNounId,
                 noundersDAO, minter, blockNumber>>

NextBlock ==
  /\ blockNumber < MaxBlock
  /\ blockNumber' = blockNumber + 1
  /\ UNCHANGED <<ownership, operators, delegation, checkpoints, currentNounId, admin>>

Next ==
  \/ mint
  \/ \E id \in Ids : burn(id)
  \/ \E sender \in Accounts, to \in Addresses, id \in Ids :
       transferFrom(sender, owner[id], to, id)
  \/ \E sender \in Approvers, to \in Addresses, id \in Ids : approve(sender, to, id)
  \/ \E sender \in Approvers, operator \in Accounts, allow \in BOOLEAN :
       setApprovalForAll(sender, operator, allow)
  \/ \E sender \in Delegators, delegatee \in Addresses : Delegate(sender, delegatee)
  \/ \E sig \in Signatures : delegateBySig(sig)
  \/ \E dao \in Minters : setNoundersDAO(dao)
  \/ \E newMinter \in Minters : setMinter(newMinter)
  \/ lockMinter
  \/ NextBlock

Spec == Init /\ [][Next]_vars

-----------------------------------------------------------------------------
(* Properties                                                              *)

VotersFor(d) == {id \in Ids : Exists(id) /\ delegates(owner[id]) = d}

\* The votes of every account are exactly the nouns whose holders it
\* represents: transfers, mints, burns and redelegations, in any order and in
\* any block, neither lose a vote nor count one twice.
VotesMatchDelegations ==
  \A d \in Accounts : CurrentVotes(checkpoints[d]) = Cardinality(VotersFor(d))

\* The checkpoints getPriorVotes searches are strictly ordered by block and
\* none is in the future.
CheckpointsOrdered == \A a \in Accounts : Ordered(checkpoints[a], blockNumber)

\* getPriorVotes, with its early returns and its binary search, finds for every
\* finished block the votes of the last checkpoint at or before that block.
PriorVotesIsHistory ==
  \A a \in Accounts, b \in 0 .. blockNumber - 1 :
    PriorVotes(checkpoints[a], b) = VotesAtBlock(checkpoints[a], b)

\* What a finished block recorded is final: no later transaction changes the
\* votes a proposal of that block counts.
HistoryImmutable ==
  [][\A a \in Accounts, b \in 0 .. blockNumber - 1 :
       VotesAtBlock(checkpoints'[a], b) = VotesAtBlock(checkpoints[a], b)]_vars

\* The vote bookkeeping never stands in the way of its users: sub96 cannot
\* revert a transfer, a burn or a delegation.
BookkeepingNeverReverts ==
  /\ \A id \in Ids, to \in Addresses : Exists(id) => CanHook(owner[id], to)
  /\ \A a, d \in Accounts :
       CanMove(checkpoints, delegates(a), d, balanceOf(a))

\* ERC721Checkpointable.sol:84-86: an account that has not delegated is its own
\* delegate, so at least its own nouns are among its votes.
UndelegatedVoteForThemselves ==
  \A a \in Accounts :
    delegate[a] = Zero => CurrentVotes(checkpoints[a]) >= balanceOf(a)

\* An approval never outlives the ownership it was given under: whoever takes a
\* noun from its holder (a sale by the approved account or by an operator, a burn)
\* leaves nobody approved for it, and an approval only appears on a noun that
\* somebody holds and goes on holding, for somebody else.
NoStaleApproval ==
  [][\A id \in Ids :
       /\ owner'[id] # owner[id] => approved'[id] = Zero
       /\ approved'[id] \notin {Zero, approved[id]} =>
            Exists(id) /\ owner'[id] = owner[id] /\ approved'[id] # owner[id]]_vars

\* Ids are never reused: a burned noun does not come back, and mint only hands
\* out ids nobody has held, the reward ids to the nounders, the rest to the
\* minter.
FreshIdsToTheRightHolder ==
  [][\A id \in Ids : ~Exists(id) /\ owner'[id] # Zero =>
       /\ id >= currentNounId /\ id < currentNounId'
       /\ owner'[id] = IF id % RewardStep = 0 /\ id <= LastReward
                          THEN noundersDAO ELSE minter]_vars
=============================================================================
