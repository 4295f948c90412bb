--------------------------- MODULE MCAuthSession ---------------------------
EXTENDS AuthSession, TLC

CONSTANTS l1, l2, r1, r2, r3

Sym == Permutations(Session) \cup Permutations(Request)
=============================================================================
