----------------------------- MODULE MCAuthGuard -----------------------------
(* Two requests on one account, a short streak.                            *)
EXTENDS AuthGuard

CONSTANTS r1, r2

Requests == {r1, r2}
=============================================================================
