------------------------------ MODULE MCProber ------------------------------
(***************************************************************************)
(* Instances of Prober for TLC: one account, one request at a time and the *)
(* prober.                                                                 *)
(***************************************************************************)
EXTENDS Prober

Cfg(t, d, q) == [threshold |-> t, openDuration |-> d, quota |-> q]

\* Two failures open, two successes close.
OneConfig == {Cfg(2, 0, 2)}
\* An operator turns the breaker of an account off and on.
OnAndOff == OneConfig \cup {Cfg(0, 0, 1)}
=============================================================================
