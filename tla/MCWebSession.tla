---------------------------- MODULE MCWebSession ----------------------------
(* Two tabs, or one, and few tokens.                                       *)
EXTENDS WebSession

CONSTANTS b1, b2, a1, p1, p2, none

TwoTabs == {b1, b2}
OneTab == {b1}
TwoSlots == {1, 2}
Tokens == [r \in Realm |-> IF r = "portal" THEN {p1, p2} ELSE {a1}]
=============================================================================
