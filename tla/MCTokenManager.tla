--------------------------- MODULE MCTokenManager ---------------------------
(* One account, two requests and the sweep.                                *)
EXTENDS TokenManager

CONSTANTS r1, r2, sw, nothing

Requests == {r1, r2}
OneRequest == {r1}
Credentials == 1..4
=============================================================================
