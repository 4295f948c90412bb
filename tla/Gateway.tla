------------------------------- MODULE Gateway -------------------------------
(***************************************************************************)
(* The voice gateway (tg2sip/tg2sip/gateway.cpp): a loop that polls three  *)
(* queues and drives one state machine per call, a bridge, which joins one *)
(* Telegram call with one SIP call.                                        *)
(*                                                                         *)
(* Only the gateway thread changes bridges; each poll of a queue is one    *)
(* action, since the thread takes no other event while it handles one      *)
(* (the queries it sends to TDLib are awaited with .get()).  The PJSIP     *)
(* threads and TDLib run in between and only append to the queues.         *)
(*                                                                         *)
(* Abstractions: time is the number of units until block_until, a name or  *)
(* number dialled is a member of Ext, the text of errors and the hang-up   *)
(* code are left out, and only a context that survives its first event     *)
(* gets an id (the others are deleted in the same step and leave nothing). *)
(***************************************************************************)
EXTENDS SipClient, Functions

CONSTANTS
  TgId,         \* ids of Telegram calls
  NoTg,         \* Context::tg_call_id of a bridge without a Telegram call: 0
  NoUser,       \* Context::user_id before it is known: 0
  NoExt,        \* ext_phone and ext_username both empty
  ExtKind,      \* how AcceptIncomingSip classifies an extension
  ExtUser,      \* the user an extension resolves to
  CallbackSet,  \* settings.callback_uri() is not empty
  RetryWait,    \* "retry after" seconds plus extra_wait_time
  PeerFloodTime,\* settings.peer_flood_time()
  CanRing,      \* Telegram calls that others may make to the gateway (bound)
  MaxMessages   \* messages waiting in the queue at the same time (bound)

ASSUME NoneAssumption == NoTg \notin TgId /\ NoUser \notin User /\ NoExt \notin Ext
ASSUME ExtAssumption ==
  /\ ExtKind \in [Ext -> {"username", "phone", "id", "invalid"}]
  /\ ExtUser \in [Ext -> User]
ASSUME BlockAssumption == RetryWait \in Nat /\ PeerFloodTime \in Nat
ASSUME BoundAssumption == MaxMessages \in Nat /\ CanRing \subseteq TgId
ASSUME CallbackAssumption == CallbackSet \in BOOLEAN

VARIABLES
  bridges,    \* Gateway::bridges, a context for each live id
  ctxCounter, \* Context::next_ctx_id
  intQ,       \* internal_events_: the contexts of the InternalErrors
  tgQ,        \* tg_events_
  cache,      \* cache_: the names and phones with a known user id
  block,      \* time left until block_until
  phase,      \* which queue the loop polls next
  mode,       \* the process: running, stopped by a signal, or aborted
  tg          \* external: TDLib's calls

vars == <<sip, calls, sipQ, bridges, ctxCounter, intQ, tgQ, cache, block, phase, mode, tg>>

(***************************************************************************)
(* States of a bridge: sub-machine and state of the sml tables.            *)
(***************************************************************************)
FromTg  == {"tg_wait_media", "tg_wait_tg", "tg_wait_dtmf"}
FromSip == {"sip_wait_confirm", "sip_wait_tg", "sip_wait_media", "sip_wait_dtmf"}
WaitDtmf == {"tg_wait_dtmf", "sip_wait_dtmf"}

Context ==
  [st : FromTg \cup FromSip, sip : Slot \cup {NoSip}, tg : TgId \cup {NoTg},
   user : User \cup {NoUser}, ext : Ext \cup {NoExt}, audio : BOOLEAN]

(***************************************************************************)
(* A Telegram call: `pending` (rings), `received` (rings, and the pending  *)
(* state was reported once more), `exchange` (accepted), `ready`, `closing`*)
(* (the gateway sent discardCall), `ended`.  The update Ended stands for    *)
(* callStateDiscarded and callStateError, which every table treats alike.  *)
(***************************************************************************)
TgState == {"unused", "pending", "received", "exchange", "ready", "closing", "ended"}
TgUpdate == {"Pending", "Ready", "Ended"}

TgEvent ==
  [kind : {"updateCall"}, id : TgId, state : TgUpdate]
    \cup [kind : {"updateNewMessage"}, sender : {"user", "chat"}, from : User, dtmf : BOOLEAN]

Update(id, st) == [kind |-> "updateCall", id |-> id, state |-> st]
TgLive(id) == tg[id].st \notin {"unused", "ended"}

TgCall == [st : TgState, out : BOOLEAN, user : User \cup {NoUser}]

BridgesTypeOK ==
  /\ ctxCounter \in Nat
  /\ DOMAIN bridges \subseteq 1..ctxCounter
  /\ bridges \in [DOMAIN bridges -> Context]

TypeOK ==
  /\ SipTypeOK
  /\ BridgesTypeOK
  /\ tg \in [TgId -> TgCall]
  /\ intQ \in Seq(Nat)
  /\ tgQ \in Seq(TgEvent)
  /\ cache \subseteq Ext
  /\ block \in Nat
  /\ phase \in {"internal", "tg", "sip"}
  /\ mode \in {"run", "stopped", "aborted"}

\* load_cache fills the cache with any of the known contacts: it stops at the
\* first one without access, and at an error.
Named == {e \in Ext : ExtKind[e] \in {"username", "phone"}}

Init ==
  /\ SipInit
  /\ bridges = [c \in {} |-> NoTg] /\ ctxCounter = 0
  /\ intQ = <<>> /\ tgQ = <<>>
  /\ cache \in SUBSET Named
  /\ block = 0
  /\ phase = "internal" /\ mode = "run"
  /\ tg = [i \in TgId |-> [st |-> "unused", out |-> FALSE, user |-> NoUser]]

-----------------------------------------------------------------------------
(* The queues as the poll of this step leaves them.                         *)

Rest(q, name) == IF phase = name /\ q # <<>> THEN Tail(q) ELSE q
intRest == Rest(intQ, "internal")
tgRest  == Rest(tgQ, "tg")
sipRest == Rest(sipQ, "sip")

\* internal_events.emplace(InternalError{ctx.id(), ...})
Raise(c) == intQ' = Append(intRest, c)
NoError  == intQ' = intRest

SipSame  == UNCHANGED <<sip, calls>> /\ sipQ' = sipRest
DialSame == UNCHANGED <<cache, block>>

\* search_call takes the first bridge of the vector whose leg f has the id.
\* New bridges go to the end, so the first one has the least context id.
Mutant_MatchAnswered(f, id) ==
  {c \in DOMAIN bridges : bridges[c][f] = id /\ bridges[c].st # "tg_wait_media"}

Matches(f, id) == {c \in DOMAIN bridges : bridges[c][f] = id}
First(c, S) == c \in S /\ \A d \in S : c <= d

Mutant_IdFromVectorSize == Cardinality(DOMAIN bridges) + 1

NewCtx == ctxCounter + 1
NewContext(st) ==
  [st |-> st, sip |-> NoSip, tg |-> NoTg, user |-> NoUser, ext |-> NoExt,
   audio |-> FALSE]

Mutant_OpenUncounted(b) ==
  /\ UNCHANGED ctxCounter
  /\ bridges' = [c \in DOMAIN bridges \cup {NewCtx} |-> IF c = NewCtx THEN b ELSE bridges[c]]

\* The state machine accepted its first event: the bridge joins the vector.
Open(b) ==
  /\ ctxCounter' = NewCtx
  /\ bridges' = [c \in DOMAIN bridges \cup {NewCtx} |-> IF c = NewCtx THEN b ELSE bridges[c]]

Put(c, b) == bridges' = [bridges EXCEPT ![c] = b] /\ UNCHANGED ctxCounter

Mutant_DiscardAnswered(id) ==
  tg' = IF id # NoTg /\ tg[id].st \in {"exchange", "ready"} THEN [tg EXCEPT ![id].st = "closing"] ELSE tg

\* discardCall: an error is only logged.
Discard(id) == tg' = IF id # NoTg /\ TgLive(id) THEN [tg EXCEPT ![id].st = "closing"] ELSE tg

Mutant_CleanUpOneLeg(b) ==
  /\ Discard(b.tg)
  /\ IF b.sip # NoSip /\ b.tg = NoTg THEN Hangup(b.sip, sipRest) ELSE SipSame

\* Entry of X: CleanUp, then the bridge is deleted and erased.  b is the
\* context as the transition's action left it.
CleanUp(b) ==
  /\ Discard(b.tg)
  /\ IF b.sip # NoSip THEN Hangup(b.sip, sipRest) ELSE SipSame

Close(c, b) ==
  /\ CleanUp(b)
  /\ bridges' = Restrict(bridges, DOMAIN bridges \ {c})
  /\ NoError
  /\ UNCHANGED ctxCounter
  /\ DialSame

\* An event without a transition in the bridge's state, or a bridge that goes
\* from init to X and has nothing to clean up.
Ignore == NoError /\ SipSame /\ DialSame /\ UNCHANGED <<bridges, ctxCounter, tg>>

-----------------------------------------------------------------------------
(* Events from Telegram. *)

Mutant_DialFailureSilent(id) ==
  LET b == [NewContext("tg_wait_media") EXCEPT !.tg = id, !.user = tg[id].user]
  IN  /\ \/ \E s \in Slot : Dial(s, sipRest) /\ Open([b EXCEPT !.sip = s])
         \/ Open(b) /\ SipSame
      /\ NoError /\ DialSame /\ UNCHANGED tg

\* init, a call that rings, callback_uri set: StoreTgId, StoreTgUserId,
\* DialSip.  The Dial may fail; the bridge then waits for its InternalError.
StartFromTg(id) ==
  LET b == [NewContext("tg_wait_media") EXCEPT !.tg = id, !.user = tg[id].user]
  IN  /\ \/ \E s \in Slot : Dial(s, sipRest) /\ Open([b EXCEPT !.sip = s]) /\ NoError
         \/ Open(b) /\ SipSame /\ Raise(NewCtx)
      /\ DialSame /\ UNCHANGED tg

Mutant_RefuseWithoutId(id) == Ignore

\* init, a call that rings, no callback_uri: StoreTgId, then X discards it.
RefuseFromTg(id) ==
  /\ CleanUp([NewContext("tg_wait_media") EXCEPT !.tg = id])
  /\ NoError /\ DialSame /\ UNCHANGED <<bridges, ctxCounter>>

\* DialSip: getUser failed; nobody catches the exception and the process ends.
LookupAborts(id) == CallbackSet /\ Ignore

Rings(id, st) == ~tg[id].out /\ st = "Pending"

Mutant_BridgeFailureSilent(c) ==
  LET b == [bridges[c] EXCEPT !.st = "tg_wait_dtmf"]
  IN  /\ \/ CanBridgeAudio(b.sip) /\ Put(c, [b EXCEPT !.audio = TRUE])
         \/ Put(c, b)
      /\ NoError /\ SipSame /\ DialSame /\ UNCHANGED tg

\* from_tg: CreateTgVoip, BridgeAudio
BridgeFromTg(c) ==
  LET b == [bridges[c] EXCEPT !.st = "tg_wait_dtmf"]
  IN  /\ \/ CanBridgeAudio(b.sip) /\ Put(c, [b EXCEPT !.audio = TRUE]) /\ NoError
         \/ Put(c, b) /\ Raise(c)
      /\ SipSame /\ DialSame /\ UNCHANGED tg

\* from_sip: StoreTgUserId, CreateTgVoip, AnswerSip
AnswerSip(c, id) ==
  /\ Put(c, [bridges[c] EXCEPT !.st = "sip_wait_media", !.user = tg[id].user])
  /\ \/ AnswerOk(bridges[c].sip, sipRest) /\ NoError
     \/ SipSame /\ Raise(c)
  /\ DialSame /\ UNCHANGED tg

Mutant_TgEndUnhandled(c) ==
  IF bridges[c].st \in FromTg THEN Close(c, [bridges[c] EXCEPT !.tg = NoTg]) ELSE Ignore

\* CleanTgId and X
TgEnded(c) == Close(c, [bridges[c] EXCEPT !.tg = NoTg])

\* The transitions of a bridge for updateCall.
BridgeOnUpdateCall(c, id, st) ==
  \/ st = "Ready" /\ bridges[c].st = "tg_wait_tg" /\ BridgeFromTg(c)
  \/ st = "Ready" /\ bridges[c].st = "sip_wait_tg" /\ AnswerSip(c, id)
  \/ st = "Ready" /\ bridges[c].st \notin {"tg_wait_tg", "sip_wait_tg"} /\ Ignore
  \/ st = "Pending" /\ Ignore
  \/ st = "Ended" /\ TgEnded(c)

\* Gateway::process_event(updateCall)
OnUpdateCall(id, st) ==
  LET M == Matches("tg", id)
  IN  \/ M = {} /\ Rings(id, st) /\ CallbackSet /\ StartFromTg(id)
      \/ M = {} /\ Rings(id, st) /\ ~CallbackSet /\ RefuseFromTg(id)
      \/ M = {} /\ ~Rings(id, st) /\ Ignore
      \/ \E c \in DOMAIN bridges : First(c, M) /\ BridgeOnUpdateCall(c, id, st)

\* DialDtmf in wait_dtmf: the digits go to the SIP call; on a dead call the
\* pj::Error is logged.
DialDtmf(c, m) ==
  LET s == bridges[c].sip
  IN  /\ bridges[c].st \in WaitDtmf /\ m.dtmf /\ s \in calls
      /\ sip' = IF Live(s) THEN [sip EXCEPT ![s].dtmf = @ \cup {m.from}] ELSE sip
      /\ sipQ' = sipRest
      /\ NoError /\ DialSame /\ UNCHANGED <<calls, bridges, ctxCounter, tg>>

\* Client::DialDtmf throws CALL_NOT_FOUND, which DialDtmf does not catch.
DtmfAborts(c, m) ==
  bridges[c].st \in WaitDtmf /\ m.dtmf /\ bridges[c].sip \notin calls /\ Ignore

(***************************************************************************)
(* Gateway::process_event(updateNewMessage).  A message sent by a user is  *)
(* dropped; that of a chat is read as if its sender were a user, so the    *)
(* chat's id is compared with the user ids of the bridges (both are int64, *)
(* and the id of a private chat is that of its user).                      *)
(***************************************************************************)
Mutant_AnyBridge(m) == IF m.sender = "user" THEN {} ELSE DOMAIN bridges

Addressee(m) == IF m.sender = "user" THEN {} ELSE Matches("user", m.from)
Routed(m, c) == Addressee(m) = {c}

OnNewMessage(m) ==
  \/ \E c \in DOMAIN bridges : Routed(m, c) /\ DialDtmf(c, m)
  \/ /\ \A c \in DOMAIN bridges : Routed(m, c) => bridges[c].st \notin WaitDtmf \/ ~m.dtmf
     /\ Ignore

-----------------------------------------------------------------------------
(* Events from SIP. *)

\* init, IncomingCall: StoreSipId, AcceptIncomingSip.
StartFromSip(s, e) ==
  LET b == [NewContext("sip_wait_confirm") EXCEPT
              !.sip = s,
              !.ext = IF e \in Named THEN e ELSE NoExt,
              !.user = IF ExtKind[e] = "id" THEN ExtUser[e] ELSE NoUser]
  IN  /\ Open(b)
      /\ \/ ExtKind[e] # "invalid" /\ AnswerRinging(s, sipRest) /\ NoError
         \/ SipSame /\ Raise(NewCtx)
      /\ DialSame /\ UNCHANGED tg

\* from_tg: AnswerTg sends acceptCall, which TDLib may refuse.
AnswerTg(c) ==
  LET b == [bridges[c] EXCEPT !.st = "tg_wait_tg"]
  IN  /\ Put(c, b)
      /\ \/ /\ tg[b.tg].st \in {"pending", "received"}
            /\ tg' = [tg EXCEPT ![b.tg].st = "exchange"]
            /\ NoError
         \/ UNCHANGED tg /\ Raise(c)
      /\ SipSame /\ DialSame

\* parse_error: what an error of a query does to block_until.
BlockAfter(err) ==
  CASE err = "too_many_requests" -> RetryWait
    [] err = "peer_flood"        -> PeerFloodTime
    [] OTHER                     -> block
QueryError == {"too_many_requests", "peer_flood", "other"}

\* FLOOD_WAIT: TDLib is not asked.
DialBlocked(c) ==
  block > 0 /\ Raise(c) /\ DialSame /\ UNCHANGED tg /\ Put(c, [bridges[c] EXCEPT !.st = "sip_wait_tg"])

\* importContacts or searchPublicChat: an error, or an answer that is no user
\* (which parse_error does not see).
LookupFails(c) ==
  /\ block = 0
  /\ bridges[c].ext \in Named \ cache
  /\ \E err \in QueryError : block' = BlockAfter(err)
  /\ Raise(c) /\ UNCHANGED <<cache, tg>>
  /\ Put(c, [bridges[c] EXCEPT !.st = "sip_wait_tg"])

Mutant_CallWhileBlocked(c) ==
  LET b == [bridges[c] EXCEPT !.st = "sip_wait_tg"]
  IN  /\ cache' = cache \cup ({b.ext} \cap Named)
      /\ \E err \in QueryError : block' = BlockAfter(err)
      /\ Put(c, b) /\ Raise(c) /\ UNCHANGED tg

\* The extension is an id, is cached or was found, and is cached from now on;
\* dial_by_id sends createCall.
Callee(b) == IF b.ext \in Named THEN ExtUser[b.ext] ELSE b.user

CreateCall(c) ==
  LET b == [bridges[c] EXCEPT !.st = "sip_wait_tg"]
  IN  /\ block = 0
      /\ cache' = cache \cup ({b.ext} \cap Named)
      /\ \/ \E id \in TgId :
              /\ tg[id].st = "unused"
              /\ tg' = [tg EXCEPT ![id] = [st |-> "pending", out |-> TRUE, user |-> Callee(b)]]
              /\ Put(c, [b EXCEPT !.tg = id])
              /\ NoError /\ UNCHANGED block
         \/ /\ \E err \in QueryError : block' = BlockAfter(err)
            /\ Put(c, b) /\ Raise(c) /\ UNCHANGED tg

DialTg(c) == (DialBlocked(c) \/ LookupFails(c) \/ CreateCall(c)) /\ SipSame

Mutant_BridgeSilent(c) ==
  LET b == [bridges[c] EXCEPT !.st = "sip_wait_dtmf"]
  IN  /\ \/ CanBridgeAudio(b.sip) /\ Put(c, [b EXCEPT !.audio = TRUE])
         \/ Put(c, b)
      /\ NoError /\ SipSame /\ DialSame /\ UNCHANGED tg

\* from_sip: BridgeAudio
BridgeFromSip(c) ==
  LET b == [bridges[c] EXCEPT !.st = "sip_wait_dtmf"]
  IN  /\ \/ CanBridgeAudio(b.sip) /\ Put(c, [b EXCEPT !.audio = TRUE]) /\ NoError
         \/ Put(c, b) /\ Raise(c)
      /\ SipSame /\ DialSame /\ UNCHANGED tg

Mutant_SipEndUnhandled(c) ==
  IF bridges[c].st = "tg_wait_media" THEN Ignore ELSE Close(c, [bridges[c] EXCEPT !.sip = NoSip])

\* CleanSipId and X
SipEnded(c) == Close(c, [bridges[c] EXCEPT !.sip = NoSip])

\* The transitions of a bridge for the events of its SIP call: in every state
\* DISCONNECTED closes it, an event without a transition is dropped.
BridgeOnCallState(c, state) ==
  \/ state = "DISCONNECTED" /\ SipEnded(c)
  \/ state = "EARLY" /\ bridges[c].st = "sip_wait_confirm" /\ DialTg(c)
  \/ state = "EARLY" /\ bridges[c].st # "sip_wait_confirm" /\ Ignore

BridgeOnCallMedia(c, has_media) ==
  \/ has_media /\ bridges[c].st = "tg_wait_media" /\ AnswerTg(c)
  \/ has_media /\ bridges[c].st = "sip_wait_media" /\ BridgeFromSip(c)
  \/ ~(has_media /\ bridges[c].st \in {"tg_wait_media", "sip_wait_media"}) /\ Ignore

\* Gateway::process_event(TSipEvent)
OnSipEvent(e) ==
  LET M == Matches("sip", e.id)
  IN  \/ M = {} /\ e.kind = "IncomingCall" /\ StartFromSip(e.id, e.ext)
      \/ M = {} /\ e.kind # "IncomingCall" /\ Ignore
      \/ \E c \in DOMAIN bridges :
           /\ First(c, M)
           /\ \/ e.kind = "IncomingCall" /\ Ignore
              \/ e.kind = "CallStateUpdate" /\ BridgeOnCallState(c, e.state)
              \/ e.kind = "CallMediaStateUpdate" /\ BridgeOnCallMedia(c, e.has_media)

Mutant_EraseWithoutX(c) ==
  /\ bridges' = Restrict(bridges, DOMAIN bridges \ {c})
  /\ NoError /\ SipSame /\ DialSame /\ UNCHANGED <<ctxCounter, tg>>

\* Gateway::process_event(InternalError): SetHangupPrm and X, unless the
\* bridge is gone.
OnInternalError(c) ==
  IF c \in DOMAIN bridges THEN Close(c, bridges[c]) ELSE Ignore

-----------------------------------------------------------------------------
(* The loop of Gateway::start: one event of each queue in a round. *)

Poll(here, next) == mode = "run" /\ phase = here /\ phase' = next

PollInternal ==
  /\ Poll("internal", "tg")
  /\ IF intQ = <<>> THEN Ignore ELSE OnInternalError(Head(intQ))
  /\ UNCHANGED <<tgQ, mode>>

PollTg ==
  /\ Poll("tg", "sip")
  /\ tgQ' = tgRest
  /\ UNCHANGED mode
  /\ \/ tgQ = <<>> /\ Ignore
     \/ /\ tgQ # <<>> /\ Head(tgQ).kind = "updateCall"
        /\ OnUpdateCall(Head(tgQ).id, Head(tgQ).state)
     \/ /\ tgQ # <<>> /\ Head(tgQ).kind = "updateNewMessage"
        /\ OnNewMessage(Head(tgQ))

PollSip ==
  /\ Poll("sip", "internal")
  /\ IF sipQ = <<>> THEN Ignore ELSE OnSipEvent(Head(sipQ))
  /\ UNCHANGED <<tgQ, mode>>

\* An exception that no handler catches ends the process.
Abort ==
  /\ Poll("tg", "tg")
  /\ tgQ # <<>> /\ tgQ' = tgRest
  /\ mode' = "aborted"
  /\ LET e == Head(tgQ)
     IN  \/ e.kind = "updateCall" /\ Matches("tg", e.id) = {} /\ Rings(e.id, e.state) /\ LookupAborts(e.id)
         \/ /\ e.kind = "updateNewMessage"
            /\ \E c \in DOMAIN bridges : Routed(e, c) /\ DtmfAborts(c, e)

\* SIGINT or SIGTERM: the loop ends between two rounds, the bridges stay.
Stop ==
  /\ mode = "run" /\ phase = "internal" /\ mode' = "stopped"
  /\ UNCHANGED <<sip, calls, sipQ, bridges, ctxCounter, intQ, tgQ, cache, block, phase, tg>>

\* Time passes until block_until.
Clock ==
  /\ mode = "run" /\ block > 0 /\ block' = block - 1
  /\ UNCHANGED <<sip, calls, sipQ, bridges, ctxCounter, intQ, tgQ, cache, phase, mode, tg>>

-----------------------------------------------------------------------------
(* TDLib, external: its calls, and the updates process_update queues. *)

Report(id, st, update) ==
  /\ tg' = [tg EXCEPT ![id].st = st]
  /\ tgQ' = Append(tgQ, Update(id, update))

TgRings(id, u) ==
  /\ tg[id].st = "unused" /\ id \in CanRing
  /\ tg' = [tg EXCEPT ![id] = [st |-> "pending", out |-> FALSE, user |-> u]]
  /\ tgQ' = Append(tgQ, Update(id, "Pending"))

\* The pending state is reported again when is_received changes.
TgReceived(id) == tg[id].st = "pending" /\ Report(id, "received", "Pending")

\* The keys are exchanged after acceptCall, or the callee answered.
TgReady(id) ==
  /\ tg[id].st \in IF tg[id].out THEN {"pending", "received"} ELSE {"exchange"}
  /\ Report(id, "ready", "Ready")

\* Either side, the network or the gateway ended the call.
TgEnds(id) == TgLive(id) /\ Report(id, "ended", "Ended")

TgMessage ==
  /\ Cardinality({i \in DOMAIN tgQ : tgQ[i].kind = "updateNewMessage"}) < MaxMessages
  /\ \E sender \in {"user", "chat"}, u \in User, digits \in BOOLEAN :
       tgQ' = Append(tgQ, [kind |-> "updateNewMessage", sender |-> sender, from |-> u, dtmf |-> digits])
  /\ UNCHANGED tg

TdLib ==
  /\ mode = "run"
  /\ \/ \E id \in TgId : \/ \E u \in User : TgRings(id, u)
                         \/ TgReceived(id) \/ TgReady(id) \/ TgEnds(id)
     \/ TgMessage
  /\ UNCHANGED <<sip, calls, sipQ, bridges, ctxCounter, intQ, cache, block, phase, mode>>

Sip ==
  /\ mode = "run"
  /\ PjsipThread
  /\ UNCHANGED <<bridges, ctxCounter, intQ, tgQ, cache, block, phase, mode, tg>>

Loop == PollInternal \/ PollTg \/ PollSip
Next == Loop \/ Abort \/ Stop \/ Clock \/ TdLib \/ Sip

Spec == Init /\ [][Next]_vars

\* The loop ticks every 10 ms; nothing else has to happen.
FairSpec == Spec /\ WF_vars(Loop)

-----------------------------------------------------------------------------
(* Properties.                                                              *)

ErrorFor(c) == c \in Range(intQ)

\* Two bridges never share a Telegram call: search_call finds the bridge of an
\* existing call before it makes one, and createCall returns fresh ids.
OneBridgePerTgCall ==
  \A c, d \in DOMAIN bridges : bridges[c].tg # NoTg /\ bridges[c].tg = bridges[d].tg => c = d

\* The SIP id of a bridge always has an entry in sip::Client::calls, so that
\* neither Answer nor BridgeAudio reports CALL_NOT_FOUND and DialDtmf does not
\* end the process with it.
BridgeHasEntry == \A c \in DOMAIN bridges : bridges[c].sip # NoSip => bridges[c].sip \in calls

\* While the gateway runs, a Telegram call that it has not discarded belongs to
\* a bridge or is about to get one from an update still in the queue: CleanUp
\* leaves no party in a call that nobody serves.
NoOrphanTg ==
  mode = "run" =>
    \A id \in TgId :
      tg[id].st \in {"pending", "received", "exchange", "ready"} =>
        \/ Matches("tg", id) # {}
        \/ Update(id, "Pending") \in Range(tgQ)

\* The same for SIP calls, for the first call of each slot: once PJSIP has used
\* an id again, a DISCONNECTED of the call before can close the bridge.
NoOrphanSip ==
  mode = "run" =>
    \A s \in Slot :
      Live(s) /\ sip[s].lap = 1 =>
        \/ Matches("sip", s) # {}
        \/ \E e \in Ext : IncomingCall(s, e) \in Range(sipQ)

\* No party is answered before there is somebody to talk to: a Telegram caller
\* only once the SIP call had media, a SIP caller only once the Telegram callee
\* answered.  The media event of a call before may reach the bridge of a later
\* call in the same slot, so the first part is about the first call of a slot.
AnswerOrder ==
  \A c \in DOMAIN bridges :
    LET b == bridges[c]
    IN  b.tg # NoTg /\ b.sip # NoSip =>
          /\ b.st \in FromTg /\ tg[b.tg].st \in {"exchange", "ready"} /\ sip[b.sip].lap = 1
               => sip[b.sip].media # "none"
          /\ b.st \in FromSip /\ sip[b.sip].st = "confirmed" => tg[b.tg].st \in {"ready", "ended"}

\* A bridge that misses something its state stands for (a leg, the accepted
\* call, the joined audio) has an InternalError in the queue: no failed step
\* leaves a bridge that nothing will ever close.
FailureReported ==
  \A c \in DOMAIN bridges :
    LET b == bridges[c]
    IN  \/ ErrorFor(c)
        \/ /\ b.sip # NoSip
           /\ b.st # "sip_wait_confirm" => b.tg # NoTg
           /\ b.st = "tg_wait_tg" => tg[b.tg].st \notin {"pending", "received"}
           /\ b.st = "sip_wait_confirm" => sip[b.sip].st # "invited"
           /\ b.st \in {"sip_wait_media", "sip_wait_dtmf"} => sip[b.sip].st \notin {"invited", "early"}
           /\ b.st \in WaitDtmf => b.audio

\* Digits played into a SIP call come from the Telegram user at the other end
\* of its bridge.
DtmfFromPeer ==
  \A c \in DOMAIN bridges :
    bridges[c].sip # NoSip => sip[bridges[c].sip].dtmf \subseteq {bridges[c].user}

\* The gateway implements CallBridge: whatever fails and in whatever order events
\* come, a bridge keeps its calls from first to last, a caller is answered only after the
\* other side, and no bridge goes while one of its calls is up.  Of a SIP id this is
\* said of its first call (see NoOrphanSip); later ones count as over.
TgLine(id) ==
  CASE tg[id].st = "unused"                   -> "idle"
    [] tg[id].st \in {"pending", "received"} -> "ringing"
    [] tg[id].st \in {"exchange", "ready"}   -> "answered"
    [] OTHER                                 -> "over"

SipLine(s) ==
  IF sip[s].lap = 0 THEN "idle"
  ELSE IF sip[s].lap > 1 \/ ~Live(s) THEN "over"
  ELSE IF sip[s].st = "confirmed" \/ sip[s].media # "none" THEN "answered"
  ELSE "ringing"

Pair(b) == [from |-> IF b.st \in FromTg THEN "tg" ELSE "sip", tg |-> b.tg, sip |-> b.sip]

TgLines  == [id \in TgId |-> TgLine(id)]
SipLines == [s \in Slot |-> SipLine(s)]
Pairs    == [c \in DOMAIN bridges |-> Pair(bridges[c])]
Joins    == {c \in DOMAIN bridges : bridges[c].audio}

Promise == INSTANCE CallBridge WITH
  tgLine <- TgLines, sipLine <- SipLines, bridge <- Pairs, joined <- Joins, last <- ctxCounter
BridgesCalls == Promise!Spec

\* A block that TDLib's flood limit set lasts for its time, however many bridges dial in it:
\* no later answer moves block_until back, though each one writes it unconditionally.
BlockNotShortened == [][block' >= block - 1]_vars

\* A context id is never used again, so an InternalError that outlives its
\* bridge cannot close the bridge of another call.
ContextNotReused ==
  [][\A c \in DOMAIN bridges' : c \in DOMAIN bridges \/ c > ctxCounter]_vars

\* When one leg of a bridge is over the bridge is closed.
TgEndCloses ==
  \A id \in TgId : (tg[id].st = "ended" /\ Matches("tg", id) # {})
                     ~> (Matches("tg", id) = {} \/ mode # "run")
SipEndCloses ==
  \A s \in Slot : (~Live(s) /\ Matches("sip", s) # {})
                    ~> (Matches("sip", s) = {} \/ mode # "run")

\* A bridge whose call is up on both sides joins the audio or is closed.
BothUp(id) ==
  tg[id].st = "ready" /\ \E c \in Matches("tg", id) :
    bridges[c].sip # NoSip /\ sip[bridges[c].sip].media = "active"
Joined(id) == \E c \in Matches("tg", id) : bridges[c].audio
BothUpJoins ==
  \A id \in TgId : BothUp(id) ~> (Joined(id) \/ Matches("tg", id) = {} \/ mode # "run")
=============================================================================
