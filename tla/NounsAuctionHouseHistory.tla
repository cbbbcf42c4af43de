----------------------- MODULE NounsAuctionHouseHistory -----------------------
(***************************************************************************)
(* NounsAuctionHouse with what no contract stores, in history variables:   *)
(* the nouns sold so far, with their buyer and price (sales), and the      *)
(* nouns burned by a minter that is not the house (burned).                *)
(***************************************************************************)
EXTENDS NounsAuctionHouse, Functions

VARIABLES sales, burned

historyVars == <<vars, sales, burned>>

\* The auction is over: settled, or already followed by that of another noun.
Closes == Live /\ (auction'.settled \/ auction'.nounId # auction.nounId)

SaleMade == [nounId |-> auction.nounId, buyer |-> auction.bidder, price |-> auction.amount]

\* The nouns that somebody held and nobody holds after the transaction.
Destroyed == {id \in Ids : nounOwner[id] # Zero /\ nounOwner'[id] = Zero}

HistoryInit == Init /\ sales = {} /\ burned = {}

HistoryNext ==
  /\ Next
  /\ sales' = IF Closes /\ auction.bidder # Zero THEN sales \cup {SaleMade} ELSE sales
  /\ burned' = IF minter # House THEN burned \cup Destroyed ELSE burned

HistorySpec == HistoryInit /\ [][HistoryNext]_historyVars
FairHistorySpec == HistorySpec /\ WF_vars(Settle)

Proceeds(sold) == SumFunctionOnSet([s \in sales |-> s.price], sold)
PricePaid(b) == Proceeds({s \in sales : s.buyer = b})

\* The noun on auction stays with the house from its mint to its settlement, unless
\* a minter other than the house burned it: no transfer, no other mint, no refund
\* and no failed settlement takes it away.
Custody ==
  Live => /\ auction.nounId \in Ids
          /\ nounOwner[auction.nounId] = IF auction.nounId \in burned THEN Zero ELSE House

\* A bidder pays for the nouns it wins, once each, and for nothing else: what it
\* has in ETH and WETH, with its standing bid, is its budget less those prices;
\* the treasury has the rest.
PayOnlyForWhatIsWon ==
  /\ \A b \in Bidders :
       eth[b] + weth[b] + (IF auction.bidder = b THEN Escrow ELSE 0) = Budget - PricePaid(b)
  /\ eth[Treasury] + weth[Treasury] = Proceeds(sales)

\* A noun is sold at most once, and what is sold is never a nounders reward.
SoldOnce ==
  /\ \A s, t \in sales : s.nounId = t.nounId => s = t
  /\ \A s \in sales : s.nounId % RewardStep # 0 \/ s.nounId > LastReward
=============================================================================
