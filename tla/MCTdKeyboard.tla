---------------------------- MODULE MCTdKeyboard ----------------------------
EXTENDS TdKeyboard

CONSTANTS u1, u2, x1, p1

\* Two users who do not show a number have the same, empty one.
MCPhoneOf == [u \in Caller |-> x1]
=============================================================================
