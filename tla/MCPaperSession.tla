--------------------------- MODULE MCPaperSession ---------------------------
(***************************************************************************)
(* Values for the constants of PaperSession: one mint, a spike above the   *)
(* sanity cap among the quotes, a ladder whose second leg leaves nothing,  *)
(* and a log of five trades from before, so that the adaptive size is in   *)
(* play.                                                                   *)
(***************************************************************************)
EXTENDS PaperSession

MCPrices == {200, 1200}
MCSpotPrices == {200}
MCTakeProfit == <<[gain |-> 50, sell |-> 25], [gain |-> 310, sell |-> 99]>>

(* Three wins and two losses: the adaptive size starts hot and cools.      *)
Past == [i \in 1..5 |-> [lot |-> 0, final |-> TRUE, won |-> i <= 3, at |-> 0]]
MCHistories == {Past}

=============================================================================
