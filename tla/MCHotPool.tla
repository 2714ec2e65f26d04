----------------------------- MODULE MCHotPool -----------------------------
(* Instances of HotPool: the account pool and its like, and the price pool. *)
EXTENDS HotPool

CONSTANT none

\* More than any pool has: the prices have no ticker, the others no caller.
AllThree == {"listener", "ticker", "caller"}
Prices == {"listener", "caller"}
=============================================================================
