-------------------------- MODULE ERC721Enumerable --------------------------
(***************************************************************************)
(* base/ERC721Enumerable.sol: the lists a NounsToken keeps so that all     *)
(* nouns, and the nouns of one holder, can be enumerated.  A removal moves *)
(* the last entry into the freed slot and shortens the list, so every      *)
(* mint, transfer and burn has to keep lists and index mappings inverse to *)
(* each other, and both in step with ERC721's owners and balances.         *)
(*                                                                         *)
(* The actions are those of NounsToken with the part of the                *)
(* _beforeTokenTransfer hook that module leaves out: it runs before the    *)
(* balances change.  Slots count from 0, as in the code.                   *)
(***************************************************************************)
EXTENDS NounsToken

VARIABLE
  lists   \* owned: _ownedTokens, ownedIndex: _ownedTokensIndex,
          \* all: _allTokens, allIndex: _allTokensIndex

enumVars == <<vars, lists>>

\* A list of distinct ids fits in MaxNouns slots.  A deleted entry is 0.
EnumerationLists ==
  [owned : [Accounts -> [Ids -> Ids]], ownedIndex : [Ids -> Ids],
   all : Seq(Ids), allIndex : [Ids -> Ids]]

ListsTypeOK == lists \in EnumerationLists

EnumInit ==
  /\ Init
  /\ lists = [owned |-> [a \in Accounts |-> [slot \in Ids |-> 0]],
              ownedIndex |-> [id \in Ids |-> 0],
              all |-> <<>>, allIndex |-> [id \in Ids |-> 0]]

AddToOwner(l, to, id, length) ==
  [l EXCEPT !.owned[to][length] = id, !.ownedIndex[id] = length]

AddToAll(l, id) == [l EXCEPT !.all = Append(@, id), !.allIndex[id] = Len(l.all)]

\* No swap when the noun is its holder's last; both entries of the end of the
\* list are deleted after the swap.
RemoveFromOwner(l, from, id) ==
  LET last == balanceOf(from) - 1
      slot == l.ownedIndex[id]
      moved == l.owned[from][last]
      swapped == IF slot = last THEN l
                 ELSE [l EXCEPT !.owned[from][slot] = moved, !.ownedIndex[moved] = slot]
  IN [swapped EXCEPT !.ownedIndex[id] = 0, !.owned[from][last] = 0]

\* Mutant: the index is deleted before the moved noun's is written.
RemoveFromAllDeletesFirst(l, id) ==
  LET slot == l.allIndex[id]
      moved == l.all[Len(l.all)]
      deleted == [l EXCEPT !.allIndex[id] = 0]
      swapped == [deleted EXCEPT !.all[slot + 1] = moved, !.allIndex[moved] = slot]
  IN [swapped EXCEPT !.all = SubSeq(@, 1, Len(l.all) - 1)]

\* The last noun takes the slot even when it is the burned one itself, so the
\* delete must come after the write.
RemoveFromAll(l, id) ==
  LET slot == l.allIndex[id]
      moved == l.all[Len(l.all)]
      swapped == [l EXCEPT !.all[slot + 1] = moved, !.allIndex[moved] = slot]
  IN [swapped EXCEPT !.allIndex[id] = 0, !.all = SubSeq(@, 1, Len(l.all) - 1)]

-----------------------------------------------------------------------------
\* A reward transaction runs the hook twice; the second one sees the balance
\* the first mint left, which matters when the minter is the nounders DAO.
EnumMintReward ==
  /\ MintReward
  /\ LET reward == AddToOwner(AddToAll(lists, currentNounId), noundersDAO,
                              currentNounId, balanceOf(noundersDAO))
         length == IF minter = noundersDAO THEN balanceOf(minter) + 1 ELSE balanceOf(minter)
     IN lists' = AddToOwner(AddToAll(reward, currentNounId + 1), minter,
                            currentNounId + 1, length)

EnumMintOne ==
  /\ MintOne
  /\ lists' = AddToOwner(AddToAll(lists, currentNounId), minter,
                         currentNounId, balanceOf(minter))

\* The two array accesses of the removal are in bounds, or the burn reverts.
EnumBurn(id) ==
  /\ burn(id)
  /\ lists.allIndex[id] < Len(lists.all)
  /\ lists' = RemoveFromAll(RemoveFromOwner(lists, owner[id], id), id)

\* A transfer to oneself leaves the lists alone.
EnumTransferFrom(sender, from, to, id) ==
  /\ transferFrom(sender, from, to, id)
  /\ lists' = IF from = to THEN lists
              ELSE AddToOwner(RemoveFromOwner(lists, from, id), to, id, balanceOf(to))

\* Every other transaction calls no hook.
NoHook == Next /\ owner' = owner /\ UNCHANGED lists

EnumNext ==
  \/ EnumMintReward
  \/ EnumMintOne
  \/ \E id \in Ids : EnumBurn(id)
  \/ \E sender \in Accounts, to \in Addresses, id \in Ids :
       EnumTransferFrom(sender, owner[id], to, id)
  \/ NoHook

EnumSpec == EnumInit /\ [][EnumNext]_enumVars

-----------------------------------------------------------------------------
totalSupply == Len(lists.all)
tokenByIndex(i) == lists.all[i + 1]
tokenOfOwnerByIndex(a, i) == lists.owned[a][i]

\* A holder's list, read up to its balance, is exactly the nouns it owns, each
\* at the slot its index names: whatever the order of mints, sales and burns
\* (self-transfers included), no noun is listed twice, missing, or listed for a
\* former holder.
OwnerListIsExact ==
  \A a \in Accounts :
    /\ {tokenOfOwnerByIndex(a, i) : i \in 0 .. balanceOf(a) - 1} = NounsOf(a)
    /\ \A id \in NounsOf(a) :
         /\ lists.ownedIndex[id] < balanceOf(a)
         /\ tokenOfOwnerByIndex(a, lists.ownedIndex[id]) = id

\* totalSupply counts the nouns that exist, and the list of all nouns holds
\* each of them once, at the slot its index names, so that a burn finds it.
SupplyListIsExact ==
  LET existing == {id \in Ids : Exists(id)}
  IN /\ totalSupply = Cardinality(existing)
     /\ \A id \in existing :
          /\ lists.allIndex[id] < totalSupply
          /\ tokenByIndex(lists.allIndex[id]) = id

\* Deletes reach what the comments say they reach: no entry past the end of a
\* list and no index of a burned noun survives, also when the noun removed is
\* the one at the end of the list.
NothingLeftBehind ==
  /\ \A a \in Accounts, slot \in Ids : slot >= balanceOf(a) => lists.owned[a][slot] = 0
  /\ \A id \in Ids : ~Exists(id) => lists.ownedIndex[id] = 0 /\ lists.allIndex[id] = 0

\* The enumeration as a whole, after any mints, burns and transfers: the lists are
\* exact for every holder and for the supply, and nothing outlives its noun.
EnumerationIsExact == OwnerListIsExact /\ SupplyListIsExact /\ NothingLeftBehind
=============================================================================
