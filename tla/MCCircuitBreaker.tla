-------------------------- MODULE MCCircuitBreaker --------------------------
(***************************************************************************)
(* Instances of CircuitBreaker for TLC.                                    *)
(***************************************************************************)
EXTENDS CircuitBreaker

Cfg(t, d, q) == [threshold |-> t, openDuration |-> d, quota |-> q]

\* Two failures trip and two successes close; an operator changes the policy
\* while requests are out, or turns it off.
SeveralConfigs == {Cfg(2, 1, 2), Cfg(1, 0, 1), Cfg(0, 1, 1)}
=============================================================================
