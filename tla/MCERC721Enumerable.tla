------------------------ MODULE MCERC721Enumerable ------------------------
(***************************************************************************)
(* An instance of ERC721Enumerable for TLC: the token with its lists, in   *)
(* one block, with one account that delegates and one that approves.       *)
(***************************************************************************)
EXTENDS ERC721Enumerable

CONSTANTS house, alice, bob

NoSignatures == {}
AlicesProxy == {<<alice, bob>>}
=============================================================================
