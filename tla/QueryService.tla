---------------------------- MODULE QueryService ----------------------------
(***************************************************************************)
(* What send_query_async (tg.cpp) promises its caller: a query is asked     *)
(* once, and its future receives at most one answer, the one to that query. *)
(* Answers may come in any order.                                          *)
(***************************************************************************)
CONSTANT Query

VARIABLES
  asked,    \* the queries somebody holds a future for
  answer    \* what each future received: nothing, or one object

Init == asked = {} /\ answer = [q \in Query |-> {}]

Ask(q) ==
  /\ q \notin asked
  /\ asked' = asked \cup {q}
  /\ UNCHANGED answer

Answer(q) ==
  /\ q \in asked
  /\ answer[q] = {}
  /\ answer' = [answer EXCEPT ![q] = {q}]
  /\ UNCHANGED asked

Next == \E q \in Query : Ask(q) \/ Answer(q)

Spec == Init /\ [][Next]_<<asked, answer>>
=============================================================================
