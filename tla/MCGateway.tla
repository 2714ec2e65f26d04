------------------------------ MODULE MCGateway ------------------------------
(***************************************************************************)
(* Instances of Gateway for TLC: oauth is an account with one slot and two  *)
(* endpoints whose token is refreshed, second the account after it, without  *)
(* a cap, whose token is refreshed too.                                     *)
(***************************************************************************)
EXTENDS Gateway, TLC

CONSTANTS oauth, second, sess

Requests == Permutations(Request)

\* One failure opens, the next tick allows a trial, one success closes.
Quick == [threshold |-> 1, openDuration |-> 0, quota |-> 1]
QuickConfigs == {Quick}
AllQuick == [x \in Account |-> Quick]

OneSession == [r \in Request |-> sess]
TwoTiers == [x \in Account |-> IF x = oauth THEN 0 ELSE 1]
OneSlot == [x \in Account |-> IF x = oauth THEN 1 ELSE 0]
TwoEndpoints == [x \in Account |-> IF x = oauth THEN 2 ELSE 1]
=============================================================================
