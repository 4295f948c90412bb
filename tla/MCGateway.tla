------------------------------ MODULE MCGateway ------------------------------
EXTENDS Gateway, TLC

CONSTANTS s1, s2, i1, i2, u1, u2, name, number, junk


\* The two users are reached by different extensions where both are in the run.
MCExtKind == [e \in Ext |-> CASE e = name -> "username" [] e = number -> "id" [] e = junk -> "invalid"]
MCExtUser == [e \in Ext |-> IF e = name /\ u2 \in User THEN u2 ELSE u1]

\* PJSIP ids are interchangeable; Telegram ids are when all of them may ring or none.
SlotSym == Permutations(Slot)
CallSym == Permutations(Slot) \cup Permutations(TgId)
=============================================================================
