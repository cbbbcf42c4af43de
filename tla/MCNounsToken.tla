---------------------------- MODULE MCNounsToken ----------------------------
(***************************************************************************)
(* Instances of NounsToken for TLC.                                        *)
(***************************************************************************)
EXTENDS NounsTokenHistory

CONSTANTS house, alice, bob

NoSignatures == {}
Sig(s, d, n, e) == [signatory |-> s, delegatee |-> d, nonce |-> n, expiry |-> e]
\* Two signatures for one nonce, of which one can be used.
RivalSignatures == {Sig(alice, bob, 0, 2), Sig(alice, alice, 0, 3)}
\* A signature that names address(0).
ZeroSignature == {Sig(alice, Zero, 0, 3)}

NoProxies == {}
AlicesProxy == {<<alice, bob>>}
=============================================================================
