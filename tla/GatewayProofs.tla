---------------------------- MODULE GatewayProofs ----------------------------
(***************************************************************************)
(* Theorems about the gateway, for every set of slots, calls, extensions   *)
(* and users, and every bound.                                             *)
(***************************************************************************)
EXTENDS Gateway, TLAPS

\* What a poll leaves of a queue is a queue.
LEMMA RestType ==
  ASSUME NEW S, NEW q \in Seq(S), NEW name
  PROVE  Rest(q, name) \in Seq(S)
BY DEF Rest

\* An element taken from a queue that is not empty.
LEMMA HeadType ==
  ASSUME NEW S, NEW q \in Seq(S), q # <<>>
  PROVE  Head(q) \in S
OBVIOUS

-----------------------------------------------------------------------------
(* Type correctness of the SIP client. *)

\* Every event a callback builds belongs to the queue's type.
LEMMA SipEventType ==
  ASSUME NEW s \in Slot
  PROVE  /\ \A e \in Ext : IncomingCall(s, e) \in SipEvent
         /\ \A st \in {"EARLY", "DISCONNECTED"} : CallState(s, st) \in SipEvent
         /\ \A has \in BOOLEAN : CallMedia(s, has) \in SipEvent
BY DEF IncomingCall, CallState, CallMedia, SipEvent

\* Changing the state of one slot keeps the type of all.
LEMMA EnterType ==
  ASSUME sip \in [Slot -> SipCall], NEW s \in Slot, NEW st \in SipState
  PROVE  Enter(s, st) \in [Slot -> SipCall]
BY DEF Enter, SipCall

\* So does a new call in a slot.
LEMMA NewCallType ==
  ASSUME sip \in [Slot -> SipCall], NEW s \in Slot, NEW st \in SipState
  PROVE  [sip EXCEPT ![s] = NewCall(s, st)] \in [Slot -> SipCall]
BY DEF NewCall, SipCall, Media

\* Dialling a slot keeps the type of the SIP client.
LEMMA DialType ==
  ASSUME SipTypeOK, NEW s \in Slot, NEW q \in Seq(SipEvent), Dial(s, q)
  PROVE  SipTypeOK'
<1>1. sip' \in [Slot -> SipCall]
  BY NewCallType DEF SipTypeOK, Dial, SipState
<1> QED BY <1>1 DEF SipTypeOK, Dial

\* Answering keeps the type of the SIP client.
LEMMA AnswerType ==
  ASSUME SipTypeOK, NEW s \in Slot, NEW q \in Seq(SipEvent),
         AnswerRinging(s, q) \/ AnswerOk(s, q)
  PROVE  SipTypeOK'
<1>1. sip' \in [Slot -> SipCall]
  BY EnterType DEF SipTypeOK, AnswerRinging, AnswerOk, SipState
<1>2. sipQ' \in Seq(SipEvent)
  BY SipEventType DEF AnswerRinging, AnswerOk
<1> QED BY <1>1, <1>2 DEF SipTypeOK, AnswerRinging, AnswerOk

\* Hanging up keeps it.
LEMMA HangupType ==
  ASSUME SipTypeOK, NEW s \in Slot, NEW q \in Seq(SipEvent), Hangup(s, q)
  PROVE  SipTypeOK'
<1>1. sip' \in [Slot -> SipCall]
  BY EnterType DEF SipTypeOK, Hangup, SipState
<1>2. sipQ' \in Seq(SipEvent)
  BY SipEventType DEF Hangup
<1> QED BY <1>1, <1>2 DEF SipTypeOK, Hangup

\* The callbacks keep it.
LEMMA PjsipThreadType ==
  ASSUME SipTypeOK, PjsipThread
  PROVE  SipTypeOK'
<1>1. PICK s \in Slot : \/ \E e \in Ext : OnIncomingCall(s, e)
                        \/ OnCallMediaState(s)
                        \/ OnCallDisconnected(s)
  BY DEF PjsipThread
<1>2. CASE \E e \in Ext : OnIncomingCall(s, e)
  <2>1. sip' \in [Slot -> SipCall]
    BY <1>2, NewCallType DEF SipTypeOK, OnIncomingCall, SipState
  <2> QED BY <1>2, <2>1, SipEventType DEF SipTypeOK, OnIncomingCall
<1>3. CASE OnCallMediaState(s)
  <2>1. sip' \in [Slot -> SipCall]
    BY <1>3 DEF SipTypeOK, OnCallMediaState, SipCall, Media
  <2>2. PICK e \in SipEvent : sipQ' = Append(sipQ, e)
    BY <1>3, SipEventType DEF OnCallMediaState
  <2> QED BY <1>3, <2>1, <2>2 DEF SipTypeOK, OnCallMediaState
<1>4. CASE OnCallDisconnected(s)
  <2>1. sip' \in [Slot -> SipCall]
    BY <1>4, EnterType DEF SipTypeOK, OnCallDisconnected, SipState
  <2> QED BY <1>4, <2>1, SipEventType DEF SipTypeOK, OnCallDisconnected
<1> QED BY <1>1, <1>2, <1>3, <1>4

-----------------------------------------------------------------------------
(* Type correctness of the gateway: the part of TypeOK that a handler of    *)
(* the loop may change.                                                     *)

HandlerType ==
  /\ SipTypeOK
  /\ BridgesTypeOK
  /\ tg \in [TgId -> TgCall]
  /\ intQ \in Seq(Nat)
  /\ cache \subseteq Ext
  /\ block \in Nat

\* The three queues after the poll.
LEMMA RestsType ==
  ASSUME TypeOK
  PROVE  sipRest \in Seq(SipEvent) /\ intRest \in Seq(Nat) /\ tgRest \in Seq(TgEvent)
BY RestType DEF TypeOK, SipTypeOK, sipRest, intRest, tgRest

\* Raising an error, or none, keeps the type of the errors.
LEMMA ErrorType ==
  ASSUME TypeOK, NoError \/ \E c \in Nat : Raise(c)
  PROVE  intQ' \in Seq(Nat)
BY RestsType DEF NoError, Raise

\* A handler that leaves the SIP client alone keeps its type.
LEMMA SipSameType ==
  ASSUME TypeOK, SipSame
  PROVE  SipTypeOK'
BY RestsType DEF TypeOK, SipTypeOK, SipSame

\* A handler that dials nobody keeps the cache and the block.
LEMMA DialSameType ==
  ASSUME TypeOK, DialSame
  PROVE  (cache \subseteq Ext)' /\ (block \in Nat)'
BY DEF TypeOK, DialSame

\* Adding, changing and erasing a bridge.
LEMMA OpenType ==
  ASSUME BridgesTypeOK, NEW b \in Context, Open(b)
  PROVE  BridgesTypeOK'
<1>1. DOMAIN bridges' = DOMAIN bridges \cup {NewCtx}
  BY DEF Open
<1>2. \A c \in DOMAIN bridges' : bridges'[c] \in Context
  BY DEF BridgesTypeOK, Open
<1>3. DOMAIN bridges' \subseteq 1..ctxCounter'
  BY <1>1 DEF BridgesTypeOK, Open, NewCtx
<1>4. bridges' = [c \in DOMAIN bridges' |-> bridges'[c]]
  BY DEF Open
<1> QED BY <1>2, <1>3, <1>4 DEF BridgesTypeOK, Open, NewCtx

\* Changing one.
LEMMA PutType ==
  ASSUME BridgesTypeOK, NEW c \in DOMAIN bridges, NEW b \in Context, Put(c, b)
  PROVE  BridgesTypeOK'
BY DEF BridgesTypeOK, Put

\* Erasing one.
LEMMA EraseType ==
  ASSUME BridgesTypeOK, NEW c, UNCHANGED ctxCounter,
         bridges' = Restrict(bridges, DOMAIN bridges \ {c})
  PROVE  BridgesTypeOK'
<1>1. DOMAIN bridges' = DOMAIN bridges \ {c}
  BY DEF Restrict
<1>2. \A d \in DOMAIN bridges' : bridges'[d] = bridges[d]
  BY DEF Restrict
<1>3. bridges' = [d \in DOMAIN bridges' |-> bridges'[d]]
  BY DEF Restrict
<1> QED BY <1>1, <1>2, <1>3 DEF BridgesTypeOK

\* The context that init hands to the first action.
LEMMA NewContextType ==
  ASSUME NEW st \in FromTg \cup FromSip
  PROVE  NewContext(st) \in Context
BY DEF NewContext, Context

\* Changing the state of one Telegram call keeps the type of all.
LEMMA TgEnterType ==
  ASSUME tg \in [TgId -> TgCall], NEW id \in TgId, NEW st \in TgState
  PROVE  [tg EXCEPT ![id].st = st] \in [TgId -> TgCall]
BY DEF TgCall

\* X ends both legs.
LEMMA CleanUpType ==
  ASSUME TypeOK, NEW b \in Context, CleanUp(b)
  PROVE  SipTypeOK' /\ tg' \in [TgId -> TgCall]
<1>1. b.tg \in TgId \cup {NoTg} /\ b.sip \in Slot \cup {NoSip}
  BY DEF Context
<1>2. tg' \in [TgId -> TgCall]
  BY <1>1, TgEnterType DEF CleanUp, Discard, TypeOK, TgState
<1>3. SipTypeOK'
  <2>1. CASE b.sip # NoSip
    BY <1>1, <2>1, HangupType, RestsType DEF CleanUp, TypeOK
  <2>2. CASE b.sip = NoSip
    BY <2>2, SipSameType DEF CleanUp
  <2> QED BY <2>1, <2>2
<1> QED BY <1>2, <1>3

\* X and the erasure of the bridge.
LEMMA CloseType ==
  ASSUME TypeOK, NEW c, NEW b \in Context, Close(c, b)
  PROVE  HandlerType'
<1>1. BridgesTypeOK'
  BY EraseType DEF Close, TypeOK
<1> QED BY <1>1, CleanUpType, ErrorType, DialSameType DEF Close, HandlerType

\* A dropped event.
LEMMA IgnoreType ==
  ASSUME TypeOK, Ignore
  PROVE  HandlerType'
<1>1. BridgesTypeOK' /\ (tg \in [TgId -> TgCall])'
  BY DEF Ignore, TypeOK, BridgesTypeOK
<1> QED BY <1>1, ErrorType, SipSameType, DialSameType DEF Ignore, HandlerType

\* The context of a live bridge.
LEMMA BridgeType ==
  ASSUME BridgesTypeOK, NEW c \in DOMAIN bridges
  PROVE  bridges[c] \in Context /\ c \in Nat
BY DEF BridgesTypeOK

\* A call that rings, with a callback_uri.
LEMMA StartFromTgType ==
  ASSUME TypeOK, NEW id \in TgId, StartFromTg(id)
  PROVE  HandlerType'
<1> DEFINE b == [NewContext("tg_wait_media") EXCEPT !.tg = id, !.user = tg[id].user]
<1>1. b \in Context /\ \A s \in Slot : [b EXCEPT !.sip = s] \in Context
  BY DEF TypeOK, TgCall, NewContext, Context, FromTg
<1>2. UNCHANGED tg /\ DialSame
  BY DEF StartFromTg
<1>3. CASE \E s \in Slot : Dial(s, sipRest) /\ Open([b EXCEPT !.sip = s]) /\ NoError
  <2>1. PICK s \in Slot : Dial(s, sipRest) /\ Open([b EXCEPT !.sip = s]) /\ NoError
    BY <1>3
  <2>2. SipTypeOK'
    BY <2>1, DialType, RestsType DEF TypeOK
  <2>3. BridgesTypeOK'
    BY <1>1, <2>1, OpenType DEF TypeOK
  <2> QED BY <1>2, <2>1, <2>2, <2>3, ErrorType, DialSameType DEF HandlerType, TypeOK
<1>4. CASE Open(b) /\ SipSame /\ Raise(NewCtx)
  <2>1. BridgesTypeOK'
    BY <1>1, <1>4, OpenType DEF TypeOK
  <2>2. NewCtx \in Nat
    BY DEF TypeOK, BridgesTypeOK, NewCtx
  <2> QED BY <1>2, <1>4, <2>1, <2>2, ErrorType, SipSameType, DialSameType DEF HandlerType, TypeOK
<1> QED BY <1>3, <1>4 DEF StartFromTg

\* A call that rings, without one.
LEMMA RefuseFromTgType ==
  ASSUME TypeOK, NEW id \in TgId, RefuseFromTg(id)
  PROVE  HandlerType'
<1> DEFINE b == [NewContext("tg_wait_media") EXCEPT !.tg = id]
<1>1. b \in Context
  BY DEF NewContext, Context, FromTg
<1>2. BridgesTypeOK'
  BY DEF RefuseFromTg, TypeOK, BridgesTypeOK
<1> QED BY <1>1, <1>2, CleanUpType, ErrorType, DialSameType DEF RefuseFromTg, HandlerType

\* A handler that changes one context, leaves the SIP client and the Telegram
\* calls alone and may raise an error.
LEMMA PutHandlerType ==
  ASSUME TypeOK, NEW c \in DOMAIN bridges, NEW b \in Context, Put(c, b),
         NoError \/ Raise(c), SipSame, DialSame,
         tg' \in [TgId -> TgCall]
  PROVE  HandlerType'
<1>1. BridgesTypeOK' /\ c \in Nat
  BY PutType, BridgeType DEF TypeOK
<1> QED BY <1>1, ErrorType, SipSameType, DialSameType DEF HandlerType

\* BridgeAudio for a Telegram caller.
LEMMA BridgeFromTgType ==
  ASSUME TypeOK, NEW c \in DOMAIN bridges, BridgeFromTg(c)
  PROVE  HandlerType'
<1> DEFINE b == [bridges[c] EXCEPT !.st = "tg_wait_dtmf"]
<1>1. b \in Context /\ [b EXCEPT !.audio = TRUE] \in Context
  BY BridgeType DEF TypeOK, Context, FromTg
<1>2. SipSame /\ DialSame /\ tg' \in [TgId -> TgCall]
  BY DEF BridgeFromTg, TypeOK
<1> QED BY <1>1, <1>2, PutHandlerType DEF BridgeFromTg

\* BridgeAudio for a SIP caller.
LEMMA BridgeFromSipType ==
  ASSUME TypeOK, NEW c \in DOMAIN bridges, BridgeFromSip(c)
  PROVE  HandlerType'
<1> DEFINE b == [bridges[c] EXCEPT !.st = "sip_wait_dtmf"]
<1>1. b \in Context /\ [b EXCEPT !.audio = TRUE] \in Context
  BY BridgeType DEF TypeOK, Context, FromSip
<1>2. SipSame /\ DialSame /\ tg' \in [TgId -> TgCall]
  BY DEF BridgeFromSip, TypeOK
<1> QED BY <1>1, <1>2, PutHandlerType DEF BridgeFromSip

\* acceptCall.
LEMMA AnswerTgType ==
  ASSUME TypeOK, NEW c \in DOMAIN bridges, AnswerTg(c)
  PROVE  HandlerType'
<1> DEFINE b == [bridges[c] EXCEPT !.st = "tg_wait_tg"]
<1>1. b \in Context /\ b.tg \in TgId \cup {NoTg}
  BY BridgeType DEF TypeOK, Context, FromTg
<1>2. tg' \in [TgId -> TgCall]
  BY DEF AnswerTg, TypeOK, TgCall, TgState
<1> QED BY <1>1, <1>2, PutHandlerType DEF AnswerTg

\* 200 to the SIP caller.
LEMMA AnswerSipType ==
  ASSUME TypeOK, NEW c \in DOMAIN bridges, NEW id \in TgId, AnswerSip(c, id)
  PROVE  HandlerType'
<1> DEFINE b == [bridges[c] EXCEPT !.st = "sip_wait_media", !.user = tg[id].user]
<1>1. b \in Context
  BY BridgeType DEF TypeOK, Context, FromSip, TgCall
<1>2. BridgesTypeOK' /\ c \in Nat
  BY <1>1, PutType, BridgeType DEF AnswerSip, TypeOK
<1>3. DialSame /\ tg' \in [TgId -> TgCall]
  BY DEF AnswerSip, TypeOK
<1>4. SipTypeOK' /\ intQ' \in Seq(Nat)
  <2>1. CASE AnswerOk(bridges[c].sip, sipRest) /\ NoError
    <3>1. bridges[c].sip \in Slot
      BY <2>1 DEF AnswerOk, CanAnswer, TypeOK, SipTypeOK
    <3> QED BY <2>1, <3>1, AnswerType, RestsType, ErrorType DEF TypeOK
  <2>2. CASE SipSame /\ Raise(c)
    BY <1>2, <2>2, SipSameType, ErrorType
  <2> QED BY <2>1, <2>2 DEF AnswerSip
<1> QED BY <1>2, <1>3, <1>4, DialSameType DEF HandlerType

\* A leg that ended.
LEMMA LegEndedType ==
  ASSUME TypeOK, NEW c \in DOMAIN bridges, TgEnded(c) \/ SipEnded(c)
  PROVE  HandlerType'
<1>1. /\ [bridges[c] EXCEPT !.tg = NoTg] \in Context
      /\ [bridges[c] EXCEPT !.sip = NoSip] \in Context
  BY BridgeType DEF TypeOK, Context
<1> QED BY <1>1, CloseType DEF TgEnded, SipEnded

\* An InternalError.
LEMMA OnInternalErrorType ==
  ASSUME TypeOK, NEW c, OnInternalError(c)
  PROVE  HandlerType'
BY BridgeType, CloseType, IgnoreType DEF OnInternalError, TypeOK

\* Digits for the SIP call.
LEMMA DialDtmfType ==
  ASSUME TypeOK, NEW c \in DOMAIN bridges, NEW m, m.from \in User, DialDtmf(c, m)
  PROVE  HandlerType'
<1>1. sip' \in [Slot -> SipCall]
  BY DEF DialDtmf, TypeOK, SipTypeOK, SipCall
<1>2. SipTypeOK'
  BY <1>1, RestsType DEF DialDtmf, TypeOK, SipTypeOK
<1>3. BridgesTypeOK' /\ tg' \in [TgId -> TgCall]
  BY DEF DialDtmf, TypeOK, BridgesTypeOK
<1> QED BY <1>2, <1>3, ErrorType, DialSameType DEF DialDtmf, HandlerType

\* A SIP call that is announced.
LEMMA StartFromSipType ==
  ASSUME TypeOK, NEW s \in Slot, NEW e \in Ext, StartFromSip(s, e)
  PROVE  HandlerType'
<1> DEFINE b == [NewContext("sip_wait_confirm") EXCEPT
                   !.sip = s,
                   !.ext = IF e \in Named THEN e ELSE NoExt,
                   !.user = IF ExtKind[e] = "id" THEN ExtUser[e] ELSE NoUser]
<1>1. b \in Context
  BY ExtAssumption DEF NewContext, Context, FromSip
<1>2. BridgesTypeOK' /\ NewCtx \in Nat
  BY <1>1, OpenType DEF StartFromSip, TypeOK, BridgesTypeOK, NewCtx
<1>3. SipTypeOK' /\ intQ' \in Seq(Nat)
  <2>1. CASE AnswerRinging(s, sipRest) /\ NoError
    BY <2>1, AnswerType, RestsType, ErrorType DEF TypeOK
  <2>2. CASE SipSame /\ Raise(NewCtx)
    BY <1>2, <2>2, SipSameType, ErrorType
  <2> QED BY <2>1, <2>2 DEF StartFromSip
<1>4. DialSame /\ tg' \in [TgId -> TgCall]
  BY DEF StartFromSip, TypeOK
<1> QED BY <1>2, <1>3, <1>4, DialSameType DEF HandlerType

\* The Telegram call of a SIP caller: blocked, not found, made or refused.
LEMMA DialTgType ==
  ASSUME TypeOK, NEW c \in DOMAIN bridges, DialTg(c)
  PROVE  HandlerType'
<1> DEFINE b == [bridges[c] EXCEPT !.st = "sip_wait_tg"]
<1>1. b \in Context /\ c \in Nat /\ b.user \in User \cup {NoUser}
      /\ \A id \in TgId : [b EXCEPT !.tg = id] \in Context
  BY BridgeType DEF TypeOK, Context, FromSip
<1>2. SipTypeOK'
  BY SipSameType DEF DialTg
<1>3. BridgesTypeOK'
  BY <1>1, PutType DEF DialTg, DialBlocked, LookupFails, CreateCall, TypeOK
<1>4. intQ' \in Seq(Nat)
  BY <1>1, ErrorType DEF DialTg, DialBlocked, LookupFails, CreateCall
<1>5. cache' \subseteq Ext
  BY DEF DialTg, DialBlocked, LookupFails, CreateCall, DialSame, TypeOK, Named
<1>6. block' \in Nat
  BY BlockAssumption
  DEF DialTg, DialBlocked, LookupFails, CreateCall, DialSame, TypeOK, BlockAfter
<1>7. tg' \in [TgId -> TgCall]
  <2>1. Callee(b) \in User \cup {NoUser}
    BY <1>1, ExtAssumption DEF Callee, Named
  <2>2. [st |-> "pending", out |-> TRUE, user |-> Callee(b)] \in TgCall
    BY <2>1 DEF TgCall, TgState
  <2>3. CASE CreateCall(c)
    BY <2>2, <2>3 DEF CreateCall, TypeOK
  <2>4. CASE DialBlocked(c) \/ LookupFails(c)
    BY <2>4 DEF DialBlocked, LookupFails, TypeOK
  <2> QED BY <2>3, <2>4 DEF DialTg
<1> QED BY <1>2, <1>3, <1>4, <1>5, <1>6, <1>7 DEF HandlerType

-----------------------------------------------------------------------------
(* The handlers of the three queues. *)

\* Every transition for updateCall.
LEMMA OnUpdateCallType ==
  ASSUME TypeOK, NEW id \in TgId, NEW st, OnUpdateCall(id, st)
  PROVE  HandlerType'
<1>1. CASE StartFromTg(id) \/ RefuseFromTg(id) \/ Ignore
  BY <1>1, StartFromTgType, RefuseFromTgType, IgnoreType
<1>2. ASSUME NEW c \in DOMAIN bridges, BridgeOnUpdateCall(c, id, st)
      PROVE  HandlerType'
  BY <1>2, BridgeFromTgType, AnswerSipType, LegEndedType, IgnoreType DEF BridgeOnUpdateCall
<1> QED BY <1>1, <1>2 DEF OnUpdateCall

\* Every transition for updateNewMessage.
LEMMA OnNewMessageType ==
  ASSUME TypeOK, NEW m, m.from \in User, OnNewMessage(m)
  PROVE  HandlerType'
BY DialDtmfType, IgnoreType DEF OnNewMessage

\* Every transition for an event of SIP.
LEMMA OnSipEventType ==
  ASSUME TypeOK, NEW e \in SipEvent, OnSipEvent(e)
  PROVE  HandlerType'
<1>1. CASE Ignore
  BY <1>1, IgnoreType
<1>2. CASE e.kind = "IncomingCall" /\ StartFromSip(e.id, e.ext)
  <2>1. e.id \in Slot /\ e.ext \in Ext
    BY <1>2 DEF SipEvent
  <2> QED BY <1>2, <2>1, StartFromSipType
<1>3. ASSUME NEW c \in DOMAIN bridges,
             BridgeOnCallState(c, e.state) \/ BridgeOnCallMedia(c, e.has_media)
      PROVE  HandlerType'
  BY <1>3, LegEndedType, DialTgType, AnswerTgType, BridgeFromSipType, IgnoreType
  DEF BridgeOnCallState, BridgeOnCallMedia
<1> QED BY <1>1, <1>2, <1>3 DEF OnSipEvent

-----------------------------------------------------------------------------
(* Type correctness of every step. *)

\* The loop, and its end by an exception.
LEMMA LoopType ==
  ASSUME TypeOK, Loop \/ Abort
  PROVE  TypeOK'
<1>1. tgRest \in Seq(TgEvent)
  BY RestsType
<1>2. CASE PollInternal
  <2>1. HandlerType'
    BY <1>2, OnInternalErrorType, IgnoreType DEF PollInternal
  <2> QED BY <1>2, <2>1 DEF PollInternal, Poll, HandlerType, TypeOK
<1>3. CASE PollTg
  <2>1. HandlerType'
    <3>1. CASE Ignore
      BY <3>1, IgnoreType
    <3>2. CASE tgQ # <<>> /\ Head(tgQ).kind = "updateCall"
               /\ OnUpdateCall(Head(tgQ).id, Head(tgQ).state)
      <4>1. Head(tgQ) \in TgEvent
        BY <3>2, HeadType DEF TypeOK
      <4>2. Head(tgQ).id \in TgId
        BY <3>2, <4>1 DEF TgEvent
      <4> QED BY <3>2, <4>2, OnUpdateCallType
    <3>3. CASE tgQ # <<>> /\ Head(tgQ).kind = "updateNewMessage" /\ OnNewMessage(Head(tgQ))
      <4>1. Head(tgQ) \in TgEvent
        BY <3>3, HeadType DEF TypeOK
      <4>2. Head(tgQ).from \in User
        BY <3>3, <4>1 DEF TgEvent
      <4> QED BY <3>3, <4>2, OnNewMessageType
    <3> QED BY <1>3, <3>1, <3>2, <3>3 DEF PollTg
  <2> QED BY <1>1, <1>3, <2>1 DEF PollTg, Poll, HandlerType, TypeOK
<1>4. CASE PollSip
  <2>1. HandlerType'
    BY <1>4, HeadType, OnSipEventType, IgnoreType DEF PollSip, TypeOK, SipTypeOK
  <2> QED BY <1>4, <2>1 DEF PollSip, Poll, HandlerType, TypeOK
<1>5. CASE Abort
  <2>1. Ignore
    BY <1>5 DEF Abort, LookupAborts, DtmfAborts
  <2>2. HandlerType'
    BY <2>1, IgnoreType
  <2> QED BY <1>1, <1>5, <2>2 DEF Abort, Poll, HandlerType, TypeOK
<1> QED BY <1>2, <1>3, <1>4, <1>5 DEF Loop

\* What TDLib reports.
LEMMA TdLibType ==
  ASSUME TypeOK, TdLib
  PROVE  TypeOK'
<1>1. tg' \in [TgId -> TgCall] /\ tgQ' \in Seq(TgEvent)
  <2>1. CASE TgMessage
    BY <2>1 DEF TgMessage, TypeOK, TgEvent
  <2>2. ASSUME NEW id \in TgId, NEW u \in User, TgRings(id, u)
        PROVE  tg' \in [TgId -> TgCall] /\ tgQ' \in Seq(TgEvent)
    <3>1. Update(id, "Pending") \in TgEvent
      BY DEF Update, TgEvent, TgUpdate
    <3> QED BY <2>2, <3>1 DEF TgRings, TypeOK, TgCall, TgState
  <2>3. ASSUME NEW id \in TgId, NEW st \in TgState, NEW up \in TgUpdate, Report(id, st, up)
        PROVE  tg' \in [TgId -> TgCall] /\ tgQ' \in Seq(TgEvent)
    <3>1. Update(id, up) \in TgEvent
      BY DEF Update, TgEvent
    <3> QED BY <2>3, <3>1, TgEnterType DEF Report, TypeOK
  <2>4. ASSUME NEW id \in TgId, TgReceived(id) \/ TgReady(id) \/ TgEnds(id)
        PROVE  tg' \in [TgId -> TgCall] /\ tgQ' \in Seq(TgEvent)
    BY <2>3, <2>4 DEF TgReceived, TgReady, TgEnds, TgState, TgUpdate
  <2> QED BY <2>1, <2>2, <2>4 DEF TdLib
<1> QED BY <1>1 DEF TdLib, TypeOK, SipTypeOK, BridgesTypeOK

\* Every step keeps every type.
LEMMA NextType == TypeOK /\ [Next]_vars => TypeOK'
<1> SUFFICES ASSUME TypeOK, [Next]_vars PROVE TypeOK'
  OBVIOUS
<1>1. CASE Loop \/ Abort
  BY <1>1, LoopType
<1>2. CASE TdLib
  BY <1>2, TdLibType
<1>3. CASE Sip
  BY <1>3, PjsipThreadType DEF Sip, TypeOK, BridgesTypeOK
<1>4. CASE Stop \/ Clock \/ UNCHANGED vars
  BY <1>4 DEF Stop, Clock, vars, TypeOK, SipTypeOK, BridgesTypeOK
<1> QED BY <1>1, <1>2, <1>3, <1>4 DEF Next

\* The initial state has them.
LEMMA InitType == Init => TypeOK
<1> SUFFICES ASSUME Init PROVE TypeOK
  OBVIOUS
<1>1. SipTypeOK
  BY DEF Init, SipInit, SipTypeOK, SipCall, SipState, Media
<1>2. BridgesTypeOK
  BY DEF Init, BridgesTypeOK
<1> QED BY <1>1, <1>2 DEF Init, TypeOK, TgCall, TgState, Named

\* Every variable keeps its type, for every instance of the constants.
THEOREM TypeCorrect == Spec => []TypeOK
BY InitType, NextType, PTL DEF Spec
=============================================================================
