------------------------- MODULE MCNounsAuctionHouse -------------------------
(***************************************************************************)
(* Instances of NounsAuctionHouse for TLC.                                 *)
(***************************************************************************)
EXTENDS NounsAuctionHouseHistory, AuctionDuration

Duration(t) == DurationAfter(t - 1)
=============================================================================
