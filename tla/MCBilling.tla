------------------------------ MODULE MCBilling ------------------------------
(***************************************************************************)
(* Instances of Billing for TLC: two requests, on the wallet, the plan or  *)
(* both, whose costs together exceed grant and funds; a step of the columns*)
(* is three units, and no cost is a multiple of it.                        *)
(***************************************************************************)
EXTENDS Billing

CONSTANTS r1, r2

\* A wallet key for the cheap request and a plan key for the dear one are
\* left out: the other way round, money is as short.
Meeting == {m \in [Request -> allModes] : m[r1] = Plan \/ m[r2] = Payg}

Costs == [r \in Request |-> IF r = r1 THEN 4 ELSE 5]
=============================================================================
