--------------------------- MODULE AuctionDuration ---------------------------
(***************************************************************************)
(* _calcDuration of NounsAuctionHouse.sol: the duration of an auction that *)
(* starts `interval` seconds after the house was initialized.  The         *)
(* contract computes floor(2^(interval / DoublingTime) * baseDuration) in  *)
(* quadruple precision; here the floor is the largest d whose              *)
(* DoublingTime-th power is at most that of the product, which is exact.   *)
(***************************************************************************)
EXTENDS Integers, FiniteSetsExt

CONSTANTS BaseDuration,   \* 86400
          DoublingTime,   \* 1460 * 86400, four years
          CapInterval,    \* 1135296000, nine doublings
          CapDuration     \* 44236800, 512 days

ASSUME DurationAssumption ==
  /\ BaseDuration \in Nat \ {0} /\ DoublingTime \in Nat \ {0}
  /\ CapInterval \in Nat /\ CapDuration \in Nat

\* floor(2^(interval / DoublingTime) * BaseDuration)
GrownDuration(interval) ==
  LET power  == BaseDuration ^ DoublingTime * 2 ^ interval
      bound  == BaseDuration * 2 ^ (1 + interval \div DoublingTime)
  IN  Max({d \in 0 .. bound : d ^ DoublingTime <= power})

DurationAfter(interval) ==
  IF interval >= CapInterval THEN CapDuration ELSE GrownDuration(interval)
=============================================================================
