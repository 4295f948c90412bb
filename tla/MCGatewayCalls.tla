--------------------------- MODULE MCGatewayCalls ---------------------------
(***************************************************************************)
(* The gateway with and without a callback_uri, as the settings it reads   *)
(* when it starts have it.                                                 *)
(***************************************************************************)
EXTENDS MCGateway

VARIABLE callback   \* settings.callback_uri() is not empty

Unset == INSTANCE Gateway WITH CallbackSet <- ~CallbackSet

EitherInit == Init /\ callback \in BOOLEAN

EitherNext ==
  /\ UNCHANGED callback
  /\ \/ callback = CallbackSet /\ Next
     \/ callback # CallbackSet /\ Unset!Next

EitherSpec == EitherInit /\ [][EitherNext]_<<vars, callback>>
=============================================================================
