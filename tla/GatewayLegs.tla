----------------------------- MODULE GatewayLegs -----------------------------
(***************************************************************************)
(* Safety of the context ids, of the flood block, of the Telegram legs and *)
(* of the SIP legs, for every instance of the gateway and every reuse of   *)
(* PJSIP ids.                                                              *)
(***************************************************************************)
EXTENDS GatewayProofs

-----------------------------------------------------------------------------
(* Queues: what Append and Tail do to the set of queued elements. *)

\* An element appended is there, and the others stay.
LEMMA RangeAppend ==
  ASSUME NEW S, NEW q \in Seq(S), NEW e \in S
  PROVE  /\ e \in Range(Append(q, e))
         /\ \A x \in Range(q) : x \in Range(Append(q, e))
         /\ \A x \in Range(Append(q, e)) : x \in Range(q) \/ x = e
<1>1. DOMAIN q = 1..Len(q) /\ Len(q) \in Nat
  OBVIOUS
<1>2. DOMAIN Append(q, e) = 1..(Len(q) + 1)
  OBVIOUS
<1>3. \A i \in 1..Len(q) : Append(q, e)[i] = q[i]
  OBVIOUS
<1>4. Append(q, e)[Len(q) + 1] = e
  OBVIOUS
<1>5. e \in Range(Append(q, e))
  <2>1. Len(q) + 1 \in DOMAIN Append(q, e)
    BY <1>1, <1>2
  <2> QED BY <1>4, <2>1 DEF Range
<1>6. ASSUME NEW x \in Range(q) PROVE x \in Range(Append(q, e))
  <2>1. PICK i \in DOMAIN q : x = q[i]
    BY <1>6 DEF Range
  <2>2. i \in DOMAIN Append(q, e) /\ Append(q, e)[i] = x
    BY <1>1, <1>2, <1>3, <2>1
  <2> QED BY <2>2 DEF Range
<1>7. ASSUME NEW x \in Range(Append(q, e)) PROVE x \in Range(q) \/ x = e
  <2>1. PICK i \in DOMAIN Append(q, e) : x = Append(q, e)[i]
    BY <1>7 DEF Range
  <2>2. CASE i = Len(q) + 1
    BY <1>4, <2>1, <2>2
  <2>3. CASE i \in 1..Len(q)
    <3>1. i \in DOMAIN q /\ x = q[i]
      BY <1>1, <1>3, <2>1, <2>3
    <3> QED BY <3>1 DEF Range
  <2> QED BY <1>1, <1>2, <2>1, <2>2, <2>3
<1> QED BY <1>5, <1>6, <1>7

\* Without its first element a queue keeps all others.
LEMMA RangeTail ==
  ASSUME NEW S, NEW q \in Seq(S), q # <<>>
  PROVE  /\ Head(q) \in Range(q)
         /\ \A x \in Range(Tail(q)) : x \in Range(q)
         /\ \A x \in Range(q) : x \in Range(Tail(q)) \/ x = Head(q)
<1>1. DOMAIN q = 1..Len(q) /\ Len(q) \in Nat /\ Len(q) > 0 /\ Head(q) = q[1]
  OBVIOUS
<1>2. DOMAIN Tail(q) = 1..(Len(q) - 1)
  OBVIOUS
<1>3. \A i \in 1..(Len(q) - 1) : Tail(q)[i] = q[i + 1]
  OBVIOUS
<1>4. Head(q) \in Range(q)
  BY <1>1 DEF Range
<1>5. ASSUME NEW x \in Range(Tail(q)) PROVE x \in Range(q)
  <2>1. PICK i \in DOMAIN Tail(q) : x = Tail(q)[i]
    BY <1>5 DEF Range
  <2>2. i + 1 \in DOMAIN q /\ q[i + 1] = x
    BY <1>1, <1>2, <1>3, <2>1
  <2> QED BY <2>2 DEF Range
<1>6. ASSUME NEW x \in Range(q) PROVE x \in Range(Tail(q)) \/ x = Head(q)
  <2>1. PICK i \in DOMAIN q : x = q[i]
    BY <1>6 DEF Range
  <2>2. CASE i = 1
    BY <1>1, <2>1, <2>2
  <2>3. CASE i # 1
    <3>1. i - 1 \in 1..(Len(q) - 1) /\ (i - 1) + 1 = i
      BY <1>1, <2>1, <2>3
    <3>2. Tail(q)[i - 1] = x
      BY <1>3, <2>1, <3>1
    <3> QED BY <1>2, <3>1, <3>2 DEF Range
  <2> QED BY <2>2, <2>3
<1> QED BY <1>4, <1>5, <1>6

\* What is queued has the type of the queue.
LEMMA RangeSubset ==
  ASSUME NEW S, NEW q \in Seq(S)
  PROVE  \A x \in Range(q) : x \in S
BY DEF Range

-----------------------------------------------------------------------------
(* Context ids. *)

\* Every handler changes, erases or adds one bridge, and a new one gets the
\* next id.
DomainStep == DOMAIN bridges' \subseteq DOMAIN bridges \cup {NewCtx}

\* The four things a handler does to the vector of bridges.
LEMMA BridgeSteps ==
  ASSUME NEW c, NEW b,
         \/ Open(b) \/ Put(c, b) \/ Close(c, b) \/ UNCHANGED bridges
  PROVE  DomainStep
<1>1. CASE Open(b)
  BY <1>1 DEF Open, DomainStep
<1>2. CASE Put(c, b)
  BY <1>2 DEF Put, DomainStep
<1>3. CASE Close(c, b)
  BY <1>3 DEF Close, Restrict, DomainStep
<1>4. CASE UNCHANGED bridges
  BY <1>4 DEF DomainStep
<1> QED BY <1>1, <1>2, <1>3, <1>4

\* Updates of Telegram calls.
LEMMA OnUpdateCallDomain ==
  ASSUME NEW id, NEW st, OnUpdateCall(id, st)
  PROVE  DomainStep
<1>1. CASE StartFromTg(id)
  BY <1>1, BridgeSteps DEF StartFromTg
<1>2. CASE RefuseFromTg(id) \/ Ignore
  BY <1>2, BridgeSteps DEF RefuseFromTg, Ignore
<1>3. ASSUME NEW c \in DOMAIN bridges, BridgeOnUpdateCall(c, id, st)
      PROVE  DomainStep
  BY <1>3, BridgeSteps DEF BridgeOnUpdateCall, BridgeFromTg, AnswerSip, TgEnded, Ignore
<1> QED BY <1>1, <1>2, <1>3 DEF OnUpdateCall

\* Events of SIP.
LEMMA OnSipEventDomain ==
  ASSUME NEW e, OnSipEvent(e)
  PROVE  DomainStep
<1>1. CASE StartFromSip(e.id, e.ext)
  BY <1>1, BridgeSteps DEF StartFromSip
<1>2. CASE Ignore
  BY <1>2, BridgeSteps DEF Ignore
<1>3. ASSUME NEW c \in DOMAIN bridges, BridgeOnCallState(c, e.state)
      PROVE  DomainStep
  BY <1>3, BridgeSteps
  DEF BridgeOnCallState, SipEnded, Ignore, DialTg, DialBlocked, LookupFails, CreateCall
<1>4. ASSUME NEW c \in DOMAIN bridges, BridgeOnCallMedia(c, e.has_media)
      PROVE  DomainStep
  BY <1>4, BridgeSteps DEF BridgeOnCallMedia, AnswerTg, BridgeFromSip, Ignore
<1> QED BY <1>1, <1>2, <1>3, <1>4 DEF OnSipEvent

\* Every step.
LEMMA NextDomain ==
  ASSUME [Next]_vars
  PROVE  DomainStep
<1>1. CASE PollInternal
  BY <1>1, BridgeSteps DEF PollInternal, OnInternalError, Ignore
<1>2. CASE PollTg
  <2>1. CASE Ignore
    BY <2>1, BridgeSteps DEF Ignore
  <2>2. CASE OnUpdateCall(Head(tgQ).id, Head(tgQ).state)
    BY <2>2, OnUpdateCallDomain
  <2>3. CASE OnNewMessage(Head(tgQ))
    BY <2>3, BridgeSteps DEF OnNewMessage, DialDtmf, Ignore
  <2> QED BY <1>2, <2>1, <2>2, <2>3 DEF PollTg
<1>3. CASE PollSip
  BY <1>3, OnSipEventDomain, BridgeSteps DEF PollSip, Ignore
<1>4. CASE Abort
  BY <1>4, BridgeSteps DEF Abort, LookupAborts, DtmfAborts, Ignore, DialSame
<1>5. CASE Stop \/ Clock \/ TdLib \/ Sip \/ UNCHANGED vars
  BY <1>5, BridgeSteps DEF Stop, Clock, TdLib, Sip, vars
<1> QED BY <1>1, <1>2, <1>3, <1>4, <1>5 DEF Next, Loop

\* The ids of bridges stay below ctxCounter, so that a new one was never used.
THEOREM ContextsFresh == Spec => ContextNotReused
<1>1. ASSUME TypeOK, [Next]_vars
      PROVE  \A c \in DOMAIN bridges' : c \in DOMAIN bridges \/ c > ctxCounter
  BY <1>1, NextDomain DEF DomainStep, NewCtx, TypeOK, BridgesTypeOK
<1> QED BY <1>1, TypeCorrect, PTL DEF Spec, ContextNotReused

-----------------------------------------------------------------------------
(* The flood block. *)

\* What a handler of the loop may do while TDLib must be left alone.
FloodStep ==
  block > 0 =>
    /\ block' = block /\ cache' = cache
    /\ \A id \in TgId : tg[id].st = "unused" => tg'[id].st = "unused"

\* discardCall brings no unused call to life.
LEMMA DiscardFlood ==
  ASSUME TypeOK, NEW i \in TgId \cup {NoTg}, Discard(i), NEW id \in TgId, tg[id].st = "unused"
  PROVE  tg'[id].st = "unused"
BY DEF Discard, TgLive, TypeOK, TgCall

\* A bridge that goes leaves the block alone.
LEMMA CloseFlood ==
  ASSUME TypeOK, NEW c, NEW b, b.tg \in TgId \cup {NoTg}, Close(c, b)
  PROVE  FloodStep
BY DiscardFlood DEF Close, CleanUp, DialSame, FloodStep

\* The tg leg of a live bridge is an id or NoTg.
LEMMA LegType ==
  ASSUME TypeOK, NEW c \in DOMAIN bridges
  PROVE  /\ bridges[c].tg \in TgId \cup {NoTg}
         /\ [bridges[c] EXCEPT !.tg = NoTg].tg = NoTg
         /\ [bridges[c] EXCEPT !.sip = NoSip].tg = bridges[c].tg
BY BridgeType DEF TypeOK, Context

\* Updates of Telegram calls make no query that floods.
LEMMA OnUpdateCallFlood ==
  ASSUME TypeOK, NEW id \in TgId, NEW st, OnUpdateCall(id, st)
  PROVE  FloodStep
<1>1. CASE StartFromTg(id) \/ Ignore
  BY <1>1 DEF StartFromTg, Ignore, DialSame, FloodStep
<1>2. CASE RefuseFromTg(id)
  <2>1. [NewContext("tg_wait_media") EXCEPT !.tg = id].tg = id
    BY DEF NewContext
  <2> QED BY <1>2, <2>1, DiscardFlood DEF RefuseFromTg, CleanUp, DialSame, FloodStep
<1>3. ASSUME NEW c \in DOMAIN bridges, BridgeOnUpdateCall(c, id, st)
      PROVE  FloodStep
  <2>1. CASE BridgeFromTg(c) \/ AnswerSip(c, id) \/ Ignore
    BY <2>1 DEF BridgeFromTg, AnswerSip, Ignore, DialSame, FloodStep
  <2>2. CASE TgEnded(c)
    BY <2>2, LegType, CloseFlood DEF TgEnded
  <2> QED BY <1>3, <2>1, <2>2 DEF BridgeOnUpdateCall
<1> QED BY <1>1, <1>2, <1>3 DEF OnUpdateCall

\* Events of SIP make one only if the block is over.
LEMMA OnSipEventFlood ==
  ASSUME TypeOK, NEW e, OnSipEvent(e)
  PROVE  FloodStep
<1>1. CASE StartFromSip(e.id, e.ext) \/ Ignore
  BY <1>1 DEF StartFromSip, Ignore, DialSame, FloodStep
<1>2. ASSUME NEW c \in DOMAIN bridges, SipEnded(c)
      PROVE  FloodStep
  BY <1>2, LegType, CloseFlood DEF SipEnded
<1>3. ASSUME NEW c \in DOMAIN bridges, DialTg(c)
      PROVE  FloodStep
  <2>1. CASE DialBlocked(c)
    BY <2>1 DEF DialBlocked, DialSame, FloodStep
  <2>2. CASE LookupFails(c) \/ CreateCall(c)
    <3>1. block = 0
      BY <2>2 DEF LookupFails, CreateCall
    <3> QED BY <3>1 DEF FloodStep
  <2> QED BY <1>3, <2>1, <2>2 DEF DialTg
<1>4. ASSUME NEW c \in DOMAIN bridges, AnswerTg(c)
      PROVE  FloodStep
  <2> DEFINE b == [bridges[c] EXCEPT !.st = "tg_wait_tg"]
  <2>1. \/ UNCHANGED tg
        \/ tg[b.tg].st \in {"pending", "received"} /\ tg' = [tg EXCEPT ![b.tg].st = "exchange"]
    BY <1>4 DEF AnswerTg
  <2>2. \A id \in TgId : tg[id].st = "unused" => tg'[id].st = "unused"
    BY <2>1 DEF TypeOK, TgCall
  <2> QED BY <1>4, <2>2 DEF AnswerTg, DialSame, FloodStep
<1>5. ASSUME NEW c \in DOMAIN bridges, BridgeFromSip(c)
      PROVE  FloodStep
  BY <1>5 DEF BridgeFromSip, DialSame, FloodStep
<1> QED BY <1>1, <1>2, <1>3, <1>4, <1>5 DEF OnSipEvent, BridgeOnCallState, BridgeOnCallMedia

\* Every poll respects the block.
LEMMA LoopFlood ==
  ASSUME TypeOK, Loop
  PROVE  FloodStep
<1>1. CASE Ignore
  BY <1>1 DEF Ignore, DialSame, FloodStep
<1>2. CASE PollInternal
  <2>1. ASSUME NEW c \in DOMAIN bridges, Close(c, bridges[c])
        PROVE  FloodStep
    BY <2>1, LegType, CloseFlood
  <2> QED BY <1>1, <1>2, <2>1 DEF PollInternal, OnInternalError
<1>3. CASE PollTg
  <2>1. CASE tgQ # <<>> /\ Head(tgQ).kind = "updateCall"
             /\ OnUpdateCall(Head(tgQ).id, Head(tgQ).state)
    <3>1. Head(tgQ) \in TgEvent
      BY <2>1, HeadType DEF TypeOK
    <3>2. Head(tgQ).id \in TgId
      BY <2>1, <3>1 DEF TgEvent
    <3> QED BY <2>1, <3>2, OnUpdateCallFlood
  <2>2. CASE OnNewMessage(Head(tgQ))
    BY <1>1, <2>2 DEF OnNewMessage, DialDtmf, DialSame, FloodStep
  <2> QED BY <1>1, <1>3, <2>1, <2>2 DEF PollTg
<1>4. CASE PollSip
  BY <1>1, <1>4, OnSipEventFlood DEF PollSip
<1> QED BY <1>2, <1>3, <1>4 DEF Loop

\* No answer shortens a block: only the clock does, and the loop leaves a block that runs.
THEOREM BlockRuns == Spec => BlockNotShortened
<1>1. ASSUME TypeOK, TypeOK', [Next]_vars
      PROVE  block' >= block - 1
  <2>1. CASE Loop
    <3>1. block > 0 => block' = block
      BY <1>1, <2>1, LoopFlood DEF FloodStep
    <3> QED BY <1>1, <3>1 DEF TypeOK
  <2>2. CASE Clock
    BY <1>1, <2>2 DEF TypeOK, Clock
  <2>3. CASE block' = block
    BY <1>1, <2>3 DEF TypeOK
  <2>4. CASE Abort
    BY <2>3, <2>4 DEF Abort, LookupAborts, DtmfAborts, Ignore, DialSame
  <2> QED BY <1>1, <2>1, <2>2, <2>3, <2>4 DEF Next, Stop, TdLib, Sip, vars
<1> QED BY <1>1, TypeCorrect, PTL DEF Spec, BlockNotShortened

-----------------------------------------------------------------------------
(* The Telegram legs.  The inductive invariant says more than               *)
(* OneBridgePerTgCall and NoOrphanTg: ids of bridges and of queued updates  *)
(* are in use, an Ended in the queue is true, a bridge that waits for its   *)
(* SIP caller to ring has no Telegram call, and a call the gateway made is  *)
(* served by a bridge, not by an update.                                    *)

Held(id) == tg[id].st \in {"pending", "received", "exchange", "ready"}

ServedBy(id, q) ==
  Held(id) => \/ Matches("tg", id) # {}
              \/ tg[id].out = FALSE /\ Update(id, "Pending") \in Range(q)

Known(q) ==
  \A e \in Range(q) :
    e.kind = "updateCall" =>
      tg[e.id].st # "unused" /\ (e.state = "Ended" => tg[e.id].st = "ended")

LegsUsed ==
  \A c \in DOMAIN bridges :
    /\ bridges[c].tg # NoTg => tg[bridges[c].tg].st # "unused"
    /\ bridges[c].st = "sip_wait_confirm" => bridges[c].tg = NoTg

LegInv == TypeOK /\ OneBridgePerTgCall /\ LegsUsed

LegsInv ==
  /\ LegInv
  /\ Known(tgQ)
  /\ mode = "run" => \A id \in TgId : ServedBy(id, tgQ)

\* A handler that leaves the queue q to be handled keeps the legs in order.
LegsKept(q) ==
  /\ (OneBridgePerTgCall /\ LegsUsed)'
  /\ Known(q)'
  /\ \A id \in TgId : ServedBy(id, q) => ServedBy(id, q)'

\* search_call's candidates, in the form the proofs use.
LEMMA MatchesTg ==
  ASSUME NEW id
  PROVE  /\ \A c \in DOMAIN bridges : bridges[c].tg = id => Matches("tg", id) # {}
         /\ Matches("tg", id) # {} => \E c \in DOMAIN bridges : bridges[c].tg = id
         /\ \A c \in Matches("tg", id) : c \in DOMAIN bridges /\ bridges[c].tg = id
BY DEF Matches

\* Telegram calls only move forward while a handler runs.
TgForward ==
  \A id \in TgId :
    /\ tg[id].st # "unused" => tg'[id].st # "unused"
    /\ tg[id].st = "ended" => tg'[id].st = "ended"

\* What the queue says of a call stays true while calls move forward.
LEMMA KnownKept ==
  ASSUME NEW q \in Seq(TgEvent), Known(q), TgForward
  PROVE  Known(q)'
<1> SUFFICES ASSUME NEW e \in Range(q), e.kind = "updateCall"
             PROVE  tg'[e.id].st # "unused" /\ (e.state = "Ended" => tg'[e.id].st = "ended")
  BY DEF Known
<1>1. e \in TgEvent
  BY RangeSubset
<1>2. e.id \in TgId
  BY <1>1 DEF TgEvent
<1> QED BY <1>2 DEF Known, TgForward

\* Handlers that change neither the set of bridges nor their Telegram calls.
QuietStep ==
  /\ DOMAIN bridges' = DOMAIN bridges
  /\ \A c \in DOMAIN bridges :
       /\ bridges'[c].tg = bridges[c].tg
       /\ bridges'[c].st = "sip_wait_confirm" => bridges[c].st = "sip_wait_confirm"
  /\ \A id \in TgId :
       /\ tg'[id].out = tg[id].out
       /\ \/ tg'[id].st = tg[id].st
          \/ tg[id].st \in {"pending", "received"} /\ tg'[id].st = "exchange"

\* They keep the legs in order.
LEMMA QuietKept ==
  ASSUME NEW q \in Seq(TgEvent), LegInv, Known(q), QuietStep
  PROVE  LegsKept(q)
<1>1. TgForward
  BY DEF QuietStep, TgForward
<1>2. OneBridgePerTgCall'
  BY DEF OneBridgePerTgCall, LegInv, QuietStep
<1>3. LegsUsed'
  <2> SUFFICES ASSUME NEW c \in DOMAIN bridges
               PROVE  /\ bridges'[c].tg # NoTg => tg'[bridges'[c].tg].st # "unused"
                      /\ bridges'[c].st = "sip_wait_confirm" => bridges'[c].tg = NoTg
    BY DEF QuietStep, LegsUsed
  <2>1. bridges'[c].tg = bridges[c].tg /\ bridges[c].tg \in TgId \cup {NoTg}
    BY LegType DEF QuietStep, LegInv
  <2> QED BY <1>1, <2>1 DEF QuietStep, LegsUsed, LegInv, TgForward
<1>4. ASSUME NEW id \in TgId, ServedBy(id, q)
      PROVE  ServedBy(id, q)'
  <2>1. Held(id)' => Held(id)
    BY DEF Held, QuietStep
  <2>2. Matches("tg", id) # {} => Matches("tg", id)' # {}
    BY DEF Matches, QuietStep
  <2>3. tg'[id].out = tg[id].out
    BY DEF QuietStep
  <2> QED BY <1>4, <2>1, <2>2, <2>3 DEF ServedBy
<1> QED BY <1>1, <1>2, <1>3, <1>4, KnownKept DEF LegsKept

\* Handlers that only add a bridge: it has no Telegram call or one that no
\* other bridge has.
LEMMA OpenKept ==
  ASSUME NEW q \in Seq(TgEvent), LegInv, Known(q), NEW b, Open(b), UNCHANGED tg,
         b.tg # NoTg => Matches("tg", b.tg) = {} /\ tg[b.tg].st # "unused",
         b.st = "sip_wait_confirm" => b.tg = NoTg
  PROVE  LegsKept(q) /\ Matches("tg", b.tg)' # {}
<1>1. NewCtx \notin DOMAIN bridges
  BY DEF LegInv, TypeOK, BridgesTypeOK, NewCtx
<1>2. /\ DOMAIN bridges' = DOMAIN bridges \cup {NewCtx}
      /\ bridges'[NewCtx] = b
      /\ \A c \in DOMAIN bridges : bridges'[c] = bridges[c]
  BY <1>1 DEF Open
<1>3. \A c \in DOMAIN bridges : b.tg # NoTg => bridges[c].tg # b.tg
  BY DEF Matches
<1>4. OneBridgePerTgCall'
  BY <1>2, <1>3 DEF OneBridgePerTgCall, LegInv
<1>5. LegsUsed'
  BY <1>2 DEF LegsUsed, LegInv
<1>6. Known(q)'
  BY KnownKept DEF TgForward
<1>7. ASSUME NEW id \in TgId, ServedBy(id, q)
      PROVE  ServedBy(id, q)'
  <2>1. Matches("tg", id) # {} => Matches("tg", id)' # {}
    BY <1>2 DEF Matches
  <2> QED BY <1>7, <2>1 DEF ServedBy, Held
<1>8. NewCtx \in Matches("tg", b.tg)'
  BY <1>2 DEF Matches
<1> QED BY <1>4, <1>5, <1>6, <1>7, <1>8 DEF LegsKept

\* What discardCall does to the calls.
LEMMA DiscardForward ==
  ASSUME TypeOK, NEW i \in TgId \cup {NoTg}, Discard(i)
  PROVE  /\ TgForward
         /\ \A id \in TgId : /\ tg'[id].out = tg[id].out
                             /\ Held(id)' => Held(id) /\ id # i
<1>1. CASE UNCHANGED tg /\ (i # NoTg => ~TgLive(i))
  BY <1>1, NoneAssumption DEF TgForward, Held, TgLive
<1>2. CASE i \in TgId /\ TgLive(i) /\ tg' = [tg EXCEPT ![i].st = "closing"]
  <2>1. \A id \in TgId : id # i => tg'[id] = tg[id]
    BY <1>2 DEF TypeOK
  <2>2. tg'[i].st = "closing" /\ tg'[i].out = tg[i].out
    BY <1>2 DEF TypeOK, TgCall
  <2> QED BY <1>2, <2>1, <2>2 DEF TgForward, Held, TgLive
<1> QED BY <1>1, <1>2, NoneAssumption DEF Discard

\* Erasing a bridge: its Telegram call is discarded, or it is over.
LEMMA CloseKept ==
  ASSUME NEW q \in Seq(TgEvent), LegInv, Known(q), NEW c \in DOMAIN bridges, NEW b, Close(c, b),
         b.tg \in {bridges[c].tg, NoTg},
         b.tg = NoTg => bridges[c].tg = NoTg \/ tg[bridges[c].tg].st = "ended"
  PROVE  LegsKept(q)
<1>1. b.tg \in TgId \cup {NoTg} /\ bridges[c].tg \in TgId \cup {NoTg}
  BY LegType DEF LegInv
<1>2. /\ TgForward
      /\ \A id \in TgId : /\ tg'[id].out = tg[id].out
                          /\ Held(id)' => Held(id) /\ id # b.tg
  BY <1>1, DiscardForward DEF Close, CleanUp, LegInv
<1>3. /\ DOMAIN bridges' = DOMAIN bridges \ {c}
      /\ \A d \in DOMAIN bridges' : bridges'[d] = bridges[d]
  BY DEF Close, Restrict
<1>4. OneBridgePerTgCall'
  BY <1>3 DEF OneBridgePerTgCall, LegInv
<1>5. LegsUsed'
  <2> SUFFICES ASSUME NEW d \in DOMAIN bridges'
               PROVE  /\ bridges[d].tg # NoTg => tg'[bridges[d].tg].st # "unused"
                      /\ bridges[d].st = "sip_wait_confirm" => bridges[d].tg = NoTg
    BY <1>3 DEF LegsUsed
  <2>1. d \in DOMAIN bridges
    BY <1>3
  <2>2. bridges[d].tg \in TgId \cup {NoTg}
    BY <2>1, LegType DEF LegInv
  <2> QED BY <1>2, <2>1, <2>2 DEF LegsUsed, LegInv, TgForward
<1>6. Known(q)'
  BY <1>2, KnownKept
<1>7. ASSUME NEW id \in TgId, ServedBy(id, q), Held(id)'
      PROVE  \/ Matches("tg", id)' # {}
             \/ tg'[id].out = FALSE /\ Update(id, "Pending") \in Range(q)
  <2>1. Held(id) /\ id # b.tg /\ tg'[id].out = tg[id].out
    BY <1>2, <1>7
  <2>2. CASE Matches("tg", id) # {}
    <3>1. PICK d \in DOMAIN bridges : bridges[d].tg = id
      BY <2>2, MatchesTg
    <3>2. d # c
      BY <2>1, <3>1, NoneAssumption DEF Held
    <3>3. d \in DOMAIN bridges' /\ bridges'[d].tg = id
      BY <1>3, <3>1, <3>2
    <3>4. d \in Matches("tg", id)'
      BY <3>3 DEF Matches
    <3> QED BY <3>4
  <2> QED BY <1>7, <2>1, <2>2 DEF ServedBy
<1>8. \A id \in TgId : ServedBy(id, q) => ServedBy(id, q)'
  BY <1>7 DEF ServedBy
<1> QED BY <1>4, <1>5, <1>6, <1>8 DEF LegsKept

\* createCall succeeded: the bridge, which had no Telegram call, has a new one.
LEMMA CallKept ==
  ASSUME NEW q \in Seq(TgEvent), LegInv, Known(q), NEW c \in DOMAIN bridges,
         bridges[c].tg = NoTg, NEW b, Put(c, b), b.st # "sip_wait_confirm",
         NEW id \in TgId, b.tg = id, tg[id].st = "unused",
         NEW u, tg' = [tg EXCEPT ![id] = [st |-> "pending", out |-> TRUE, user |-> u]]
  PROVE  LegsKept(q)
<1>1. /\ DOMAIN bridges' = DOMAIN bridges
      /\ bridges'[c] = b
      /\ \A d \in DOMAIN bridges : d # c => bridges'[d] = bridges[d]
  BY DEF Put
<1>2. /\ tg'[id].st = "pending"
      /\ \A i \in TgId : i # id => tg'[i] = tg[i]
  BY DEF LegInv, TypeOK
<1>3. TgForward
  BY <1>2 DEF TgForward
<1>4. \A d \in DOMAIN bridges : bridges[d].tg # id
  BY NoneAssumption DEF LegInv, LegsUsed
<1>5. OneBridgePerTgCall'
  BY <1>1, <1>4 DEF OneBridgePerTgCall, LegInv
<1>6. LegsUsed'
  <2> SUFFICES ASSUME NEW d \in DOMAIN bridges
               PROVE  /\ bridges'[d].tg # NoTg => tg'[bridges'[d].tg].st # "unused"
                      /\ bridges'[d].st = "sip_wait_confirm" => bridges'[d].tg = NoTg
    BY <1>1 DEF LegsUsed
  <2>1. CASE d = c
    BY <1>1, <1>2, <2>1
  <2>2. CASE d # c
    <3>1. bridges[d].tg \in TgId \cup {NoTg}
      BY LegType DEF LegInv
    <3> QED BY <1>1, <1>3, <2>2, <3>1 DEF LegsUsed, LegInv, TgForward
  <2> QED BY <2>1, <2>2
<1>7. Known(q)'
  BY <1>3, KnownKept
<1>8. ASSUME NEW i \in TgId, ServedBy(i, q)
      PROVE  ServedBy(i, q)'
  <2>1. CASE i = id
    <3>1. c \in Matches("tg", i)'
      BY <1>1, <2>1 DEF Matches
    <3> QED BY <3>1 DEF ServedBy
  <2>2. CASE i # id
    <3>1. tg'[i] = tg[i]
      BY <1>2, <2>2
    <3>2. ASSUME Matches("tg", i) # {} PROVE Matches("tg", i)' # {}
      <4>1. PICK d \in DOMAIN bridges : bridges[d].tg = i
        BY <3>2, MatchesTg
      <4>2. d # c
        BY <4>1, NoneAssumption
      <4>3. d \in Matches("tg", i)'
        BY <1>1, <4>1, <4>2 DEF Matches
      <4> QED BY <4>3
    <3> QED BY <1>8, <3>1, <3>2 DEF ServedBy, Held
  <2> QED BY <2>1, <2>2
<1> QED BY <1>5, <1>6, <1>7, <1>8 DEF LegsKept

\* The handlers.

\* A record written without a new Telegram call is quiet.
LEMMA QuietPut ==
  ASSUME NEW c \in DOMAIN bridges, NEW b, Put(c, b), b.tg = bridges[c].tg,
         b.st # "sip_wait_confirm", UNCHANGED tg
  PROVE  QuietStep
BY DEF Put, QuietStep

\* A dropped event is quiet.
LEMMA IgnoreQuiet ==
  ASSUME Ignore
  PROVE  QuietStep
BY DEF Ignore, QuietStep

\* A bridge whose record is changed in another field keeps its Telegram call.
LEMMA ContextFields ==
  ASSUME TypeOK, NEW c \in DOMAIN bridges, NEW st, NEW u
  PROVE  /\ [bridges[c] EXCEPT !.st = st].tg = bridges[c].tg
         /\ [bridges[c] EXCEPT !.st = st].st = st
         /\ [[bridges[c] EXCEPT !.st = st] EXCEPT !.audio = TRUE].tg = bridges[c].tg
         /\ [[bridges[c] EXCEPT !.st = st] EXCEPT !.audio = TRUE].st = st
         /\ [bridges[c] EXCEPT !.st = st, !.user = u].tg = bridges[c].tg
         /\ [bridges[c] EXCEPT !.st = st, !.user = u].st = st
BY BridgeType DEF TypeOK, Context

\* BridgeAudio, whether it succeeds or not.
LEMMA JoinQuiet ==
  ASSUME TypeOK, NEW c \in DOMAIN bridges, NEW st, st # "sip_wait_confirm", UNCHANGED tg,
         \/ Put(c, [[bridges[c] EXCEPT !.st = st] EXCEPT !.audio = TRUE])
         \/ Put(c, [bridges[c] EXCEPT !.st = st])
  PROVE  QuietStep
<1> DEFINE b == [bridges[c] EXCEPT !.st = st]
           d == [[bridges[c] EXCEPT !.st = st] EXCEPT !.audio = TRUE]
<1>1. b.tg = bridges[c].tg /\ b.st = st /\ d.tg = bridges[c].tg /\ d.st = st
  BY ContextFields
<1>2. Put(c, d) \/ Put(c, b)
  OBVIOUS
<1> HIDE DEF b, d
<1> QED BY <1>1, <1>2, QuietPut

\* Answering the SIP caller is quiet.
LEMMA AnswerSipQuiet ==
  ASSUME TypeOK, NEW c \in DOMAIN bridges, NEW id, AnswerSip(c, id)
  PROVE  QuietStep
<1> DEFINE b == [bridges[c] EXCEPT !.st = "sip_wait_media", !.user = tg[id].user]
<1>1. b.tg = bridges[c].tg /\ b.st = "sip_wait_media"
  BY ContextFields
<1>2. Put(c, b) /\ UNCHANGED tg
  BY DEF AnswerSip
<1> HIDE DEF b
<1> QED BY <1>1, <1>2, QuietPut

\* A bridge takes the Telegram call that rings.
LEMMA StartFromTgKept ==
  ASSUME NEW q \in Seq(TgEvent), LegInv, Known(q), NEW id \in TgId, StartFromTg(id),
         Matches("tg", id) = {}, tg[id].st # "unused"
  PROVE  LegsKept(q) /\ Matches("tg", id)' # {}
<1> DEFINE b == [NewContext("tg_wait_media") EXCEPT !.tg = id, !.user = tg[id].user]
<1>1. b.tg = id /\ b.st = "tg_wait_media"
  BY DEF NewContext
<1>2. \A s \in Slot : [b EXCEPT !.sip = s].tg = id /\ [b EXCEPT !.sip = s].st = "tg_wait_media"
  BY DEF NewContext
<1>3. UNCHANGED tg
  BY DEF StartFromTg
<1>4. CASE Open(b)
  BY <1>1, <1>3, <1>4, OpenKept
<1>5. ASSUME NEW s \in Slot, Open([b EXCEPT !.sip = s])
      PROVE  LegsKept(q) /\ Matches("tg", id)' # {}
  <2> DEFINE d == [b EXCEPT !.sip = s]
  <2>1. d.tg = id /\ d.st = "tg_wait_media" /\ Open(d)
    BY <1>2, <1>5
  <2> HIDE DEF d
  <2> QED BY <1>3, <2>1, OpenKept
<1> QED BY <1>4, <1>5 DEF StartFromTg

\* A call that is refused is not held any more.
LEMMA RefuseFromTgKept ==
  ASSUME NEW q \in Seq(TgEvent), LegInv, Known(q), NEW id \in TgId, RefuseFromTg(id)
  PROVE  LegsKept(q) /\ ~Held(id)'
<1>1. [NewContext("tg_wait_media") EXCEPT !.tg = id].tg = id
  BY DEF NewContext
<1>2. Discard(id) /\ UNCHANGED bridges
  BY <1>1 DEF RefuseFromTg, CleanUp
<1>3. /\ TgForward
      /\ \A i \in TgId : /\ tg'[i].out = tg[i].out
                         /\ Held(i)' => Held(i) /\ i # id
  BY <1>2, DiscardForward DEF LegInv
<1>4. OneBridgePerTgCall'
  BY <1>2 DEF OneBridgePerTgCall, LegInv
<1>5. LegsUsed'
  <2> SUFFICES ASSUME NEW c \in DOMAIN bridges
               PROVE  /\ bridges[c].tg # NoTg => tg'[bridges[c].tg].st # "unused"
                      /\ bridges[c].st = "sip_wait_confirm" => bridges[c].tg = NoTg
    BY <1>2 DEF LegsUsed
  <2>1. bridges[c].tg \in TgId \cup {NoTg}
    BY LegType DEF LegInv
  <2> QED BY <1>3, <2>1 DEF LegsUsed, LegInv, TgForward
<1>6. \A i \in TgId : ServedBy(i, q) => ServedBy(i, q)'
  BY <1>2, <1>3 DEF ServedBy, Matches
<1> QED BY <1>3, <1>4, <1>5, <1>6, KnownKept DEF LegsKept

\* Every transition for updateCall; a call that rang has its bridge or is over.
LEMMA OnUpdateCallKept ==
  ASSUME NEW q \in Seq(TgEvent), LegInv, Known(q), NEW id \in TgId, NEW st,
         OnUpdateCall(id, st),
         tg[id].st # "unused", st = "Ended" => tg[id].st = "ended"
  PROVE  /\ LegsKept(q)
         /\ Rings(id, st) => Matches("tg", id)' # {} \/ ~Held(id)'
<1>1. CASE Matches("tg", id) = {} /\ StartFromTg(id)
  BY <1>1, StartFromTgKept
<1>2. CASE RefuseFromTg(id)
  BY <1>2, RefuseFromTgKept
<1>3. CASE ~Rings(id, st) /\ Ignore
  BY <1>3, IgnoreQuiet, QuietKept
<1>4. ASSUME NEW c \in DOMAIN bridges, First(c, Matches("tg", id)), BridgeOnUpdateCall(c, id, st)
      PROVE  /\ LegsKept(q)
             /\ Rings(id, st) => Matches("tg", id)' # {}
  <2>1. c \in Matches("tg", id) /\ bridges[c].tg = id
    BY <1>4, MatchesTg DEF First
  <2>2. CASE Ignore
    <3>1. LegsKept(q)
      BY <2>2, IgnoreQuiet, QuietKept
    <3>2. Matches("tg", id)' # {}
      BY <2>1, <2>2 DEF Ignore, Matches
    <3> QED BY <3>1, <3>2
  <2>3. CASE st = "Ready" /\ (BridgeFromTg(c) \/ AnswerSip(c, id))
    <3>1. TypeOK
      BY DEF LegInv
    <3>2. CASE BridgeFromTg(c)
      <4>1. QuietStep
        BY <3>1, <3>2, JoinQuiet DEF BridgeFromTg
      <4> QED BY <2>3, <4>1, QuietKept DEF Rings
    <3>3. CASE AnswerSip(c, id)
      <4>1. QuietStep
        BY <3>1, <3>3, AnswerSipQuiet
      <4> QED BY <2>3, <4>1, QuietKept DEF Rings
    <3> QED BY <2>3, <3>2, <3>3
  <2>4. CASE st = "Ended" /\ TgEnded(c)
    <3>1. [bridges[c] EXCEPT !.tg = NoTg].tg = NoTg
      BY LegType DEF LegInv
    <3>2. LegsKept(q)
      BY <2>1, <2>4, <3>1, CloseKept DEF TgEnded
    <3> QED BY <2>4, <3>2 DEF Rings
  <2> QED BY <1>4, <2>2, <2>3, <2>4 DEF BridgeOnUpdateCall
<1> QED BY <1>1, <1>2, <1>3, <1>4 DEF OnUpdateCall

\* createCall, or its failure.
LEMMA DialTgKept ==
  ASSUME NEW q \in Seq(TgEvent), LegInv, Known(q), NEW c \in DOMAIN bridges,
         bridges[c].st = "sip_wait_confirm", DialTg(c)
  PROVE  LegsKept(q)
<1> DEFINE b == [bridges[c] EXCEPT !.st = "sip_wait_tg"]
<1>1. TypeOK /\ bridges[c].tg = NoTg
  BY DEF LegInv, LegsUsed
<1>2. b.tg = NoTg /\ b.st = "sip_wait_tg"
  BY <1>1, ContextFields
<1>3. CASE Put(c, b) /\ UNCHANGED tg
  <2>1. QuietStep
    BY <1>1, <1>2, <1>3, QuietPut
  <2> QED BY <2>1, QuietKept
<1>4. ASSUME NEW id \in TgId, tg[id].st = "unused", NEW u,
             tg' = [tg EXCEPT ![id] = [st |-> "pending", out |-> TRUE, user |-> u]],
             Put(c, [b EXCEPT !.tg = id])
      PROVE  LegsKept(q)
  <2> DEFINE d == [b EXCEPT !.tg = id]
  <2>1. d.tg = id /\ d.st = "sip_wait_tg" /\ Put(c, d)
    BY <1>1, <1>2, <1>4, BridgeType DEF TypeOK, Context
  <2> HIDE DEF d
  <2> QED BY <1>1, <1>4, <2>1, CallKept
<1> QED BY <1>3, <1>4 DEF DialTg, DialBlocked, LookupFails, CreateCall

\* acceptCall, or its failure.
LEMMA AnswerTgKept ==
  ASSUME NEW q \in Seq(TgEvent), LegInv, Known(q), NEW c \in DOMAIN bridges, AnswerTg(c)
  PROVE  LegsKept(q)
<1> DEFINE b == [bridges[c] EXCEPT !.st = "tg_wait_tg"]
<1>1. b.tg = bridges[c].tg /\ b.st = "tg_wait_tg"
  BY ContextFields DEF LegInv
<1>2. \/ UNCHANGED tg
      \/ tg[b.tg].st \in {"pending", "received"} /\ tg' = [tg EXCEPT ![b.tg].st = "exchange"]
  BY DEF AnswerTg
<1>3. \A id \in TgId :
        /\ tg'[id].out = tg[id].out
        /\ \/ tg'[id].st = tg[id].st
           \/ tg[id].st \in {"pending", "received"} /\ tg'[id].st = "exchange"
  <2> HIDE DEF b
  <2> QED BY <1>2 DEF LegInv, TypeOK, TgCall
<1>4. Put(c, b)
  BY DEF AnswerTg
<1>5. QuietStep
  <2> HIDE DEF b
  <2> QED BY <1>1, <1>3, <1>4 DEF Put, QuietStep
<1> QED BY <1>5, QuietKept

\* Every transition for an event of SIP.
LEMMA OnSipEventKept ==
  ASSUME NEW q \in Seq(TgEvent), LegInv, Known(q), NEW e, OnSipEvent(e)
  PROVE  LegsKept(q)
<1>1. CASE StartFromSip(e.id, e.ext)
  <2> DEFINE b == [NewContext("sip_wait_confirm") EXCEPT
                     !.sip = e.id,
                     !.ext = IF e.ext \in Named THEN e.ext ELSE NoExt,
                     !.user = IF ExtKind[e.ext] = "id" THEN ExtUser[e.ext] ELSE NoUser]
  <2>1. b.tg = NoTg
    BY DEF NewContext
  <2>2. Open(b) /\ UNCHANGED tg
    BY <1>1 DEF StartFromSip
  <2> HIDE DEF b
  <2> QED BY <2>1, <2>2, OpenKept
<1>2. CASE Ignore
  BY <1>2, IgnoreQuiet, QuietKept
<1>3. ASSUME NEW c \in DOMAIN bridges, BridgeOnCallState(c, e.state)
      PROVE  LegsKept(q)
  <2>1. CASE SipEnded(c)
    <3>1. [bridges[c] EXCEPT !.sip = NoSip].tg = bridges[c].tg
      BY LegType DEF LegInv
    <3> QED BY <2>1, <3>1, CloseKept DEF SipEnded
  <2>2. CASE bridges[c].st = "sip_wait_confirm" /\ DialTg(c)
    BY <2>2, DialTgKept
  <2> QED BY <1>2, <1>3, <2>1, <2>2 DEF BridgeOnCallState
<1>4. ASSUME NEW c \in DOMAIN bridges, BridgeOnCallMedia(c, e.has_media)
      PROVE  LegsKept(q)
  <2>1. CASE AnswerTg(c)
    BY <2>1, AnswerTgKept
  <2>2. CASE BridgeFromSip(c)
    <3>1. QuietStep
      BY <2>2, JoinQuiet DEF BridgeFromSip, LegInv
    <3> QED BY <3>1, QuietKept
  <2> QED BY <1>2, <1>4, <2>1, <2>2 DEF BridgeOnCallMedia
<1> QED BY <1>1, <1>2, <1>3, <1>4 DEF OnSipEvent

\* The loop.

\* A handler that leaves the queue as it is.
LEMMA LoopKept ==
  ASSUME LegsInv, UNCHANGED tgQ, LegsKept(tgQ), TypeOK', mode = "run"
  PROVE  LegsInv'
BY DEF LegsInv, LegInv, LegsKept, Known, ServedBy

\* The poll that takes an update from the queue.
LEMMA PollTgKept ==
  ASSUME LegsInv, PollTg, TypeOK'
  PROVE  LegsInv'
<1>0. LegInv /\ Known(tgQ) /\ mode = "run" /\ TypeOK /\ tgQ \in Seq(TgEvent) /\ tgQ' = tgRest
  BY DEF LegsInv, LegInv, TypeOK, PollTg, Poll
<1>1. CASE tgQ = <<>>
  <2>1. tgQ' = tgQ /\ Ignore
    BY <1>0, <1>1 DEF PollTg, tgRest, Rest
  <2>2. LegsKept(tgQ)
    BY <1>0, <2>1, IgnoreQuiet, QuietKept
  <2> QED BY <1>0, <2>1, <2>2, LoopKept
<1>2. CASE tgQ # <<>>
  <2>0. PICK e \in TgEvent : e = Head(tgQ)
    BY <1>0, <1>2, HeadType
  <2>1. PICK q \in Seq(TgEvent) : q = Tail(tgQ) /\ tgQ' = q
    BY <1>0, <1>2, RestsType DEF PollTg, Poll, tgRest, Rest
  <2>2. /\ e \in Range(tgQ)
        /\ \A x \in Range(q) : x \in Range(tgQ)
        /\ \A x \in Range(tgQ) : x \in Range(q) \/ x = e
    BY <1>0, <1>2, <2>0, <2>1, RangeTail
  <2>3. Known(q)
    BY <1>0, <2>2 DEF Known
  <2>4. ASSUME NEW id \in TgId, e # Update(id, "Pending") \/ tg[id].out
        PROVE  ServedBy(id, q)
    BY <1>0, <2>2, <2>4 DEF LegsInv, ServedBy
  <2>5. CASE e.kind = "updateCall" /\ OnUpdateCall(e.id, e.state)
    <3>1. /\ e.id \in TgId /\ e.state \in TgUpdate
          /\ e = Update(e.id, e.state)
          /\ tg[e.id].st # "unused" /\ (e.state = "Ended" => tg[e.id].st = "ended")
      BY <1>0, <2>0, <2>2, <2>5 DEF TgEvent, Update, Known
    <3>2. /\ LegsKept(q)
          /\ Rings(e.id, e.state) => Matches("tg", e.id)' # {} \/ ~Held(e.id)'
      BY <1>0, <2>3, <2>5, <3>1, OnUpdateCallKept
    <3>3. ASSUME NEW id \in TgId PROVE ServedBy(id, q)'
      <4>1. CASE id = e.id /\ Rings(e.id, e.state)
        BY <3>2, <4>1 DEF ServedBy
      <4>2. CASE ~(id = e.id /\ Rings(e.id, e.state))
        <5>1. e # Update(id, "Pending") \/ tg[id].out
          BY <3>1, <4>2 DEF Update, Rings
        <5>2. ServedBy(id, q)
          BY <2>4, <5>1
        <5> QED BY <3>2, <5>2 DEF LegsKept
      <4> QED BY <4>1, <4>2
    <3>4. Known(tgQ)' /\ \A id \in TgId : ServedBy(id, tgQ)'
      BY <2>1, <3>2, <3>3 DEF LegsKept, Known, ServedBy
    <3> QED BY <3>2, <3>4 DEF LegsKept, LegsInv, LegInv
  <2>6. CASE e.kind = "updateNewMessage" /\ OnNewMessage(e)
    <3>1. QuietStep
      BY <2>6, IgnoreQuiet DEF OnNewMessage, DialDtmf, QuietStep
    <3>2. LegsKept(q)
      BY <1>0, <2>3, <3>1, QuietKept
    <3>3. ASSUME NEW id \in TgId PROVE ServedBy(id, q)
      <4>1. e # Update(id, "Pending")
        BY <2>6 DEF Update
      <4> QED BY <2>4, <4>1
    <3>4. Known(tgQ)' /\ \A id \in TgId : ServedBy(id, tgQ)'
      BY <2>1, <3>2, <3>3 DEF LegsKept, Known, ServedBy
    <3> QED BY <3>2, <3>4 DEF LegsKept, LegsInv, LegInv
  <2> QED BY <1>2, <2>0, <2>5, <2>6 DEF PollTg
<1> QED BY <1>1, <1>2

\* TDLib: the queue grows by one update.
LEMMA TdLibKept ==
  ASSUME LegsInv, TdLib, TypeOK'
  PROVE  LegsInv'
<1>0. LegInv /\ Known(tgQ) /\ mode = "run" /\ TypeOK /\ tgQ \in Seq(TgEvent) /\ UNCHANGED bridges
  BY DEF LegsInv, LegInv, TypeOK, TdLib
<1>1. ASSUME NEW id \in TgId, NEW st, NEW up \in TgUpdate,
             tgQ' = Append(tgQ, Update(id, up)),
             \A i \in TgId : i # id => tg'[i] = tg[i],
             tg'[id].st = st, st # "unused", up = "Ended" <=> st = "ended",
             tg[id].st # "ended",
             \/ tg[id].st # "unused" /\ tg'[id].out = tg[id].out /\ (Held(id)' => Held(id))
             \/ tg'[id].out = FALSE /\ up = "Pending"
      PROVE  LegsInv'
  <2>1. Update(id, up) \in TgEvent /\ Update(id, up).id = id /\ Update(id, up).state = up
    BY <1>1 DEF Update, TgEvent
  <2>2. TgForward
    BY <1>1 DEF TgForward
  <2>3. OneBridgePerTgCall'
    BY <1>0 DEF OneBridgePerTgCall, LegInv
  <2>4. LegsUsed'
    <3> SUFFICES ASSUME NEW c \in DOMAIN bridges
                 PROVE  /\ bridges[c].tg # NoTg => tg'[bridges[c].tg].st # "unused"
                        /\ bridges[c].st = "sip_wait_confirm" => bridges[c].tg = NoTg
      BY <1>0 DEF LegsUsed
    <3>1. bridges[c].tg \in TgId \cup {NoTg}
      BY <1>0, LegType
    <3> QED BY <1>0, <2>2, <3>1 DEF LegsUsed, LegInv, TgForward
  <2>5. /\ Update(id, up) \in Range(tgQ')
        /\ \A x \in Range(tgQ) : x \in Range(tgQ')
        /\ \A x \in Range(tgQ') : x \in Range(tgQ) \/ x = Update(id, up)
    BY <1>0, <1>1, <2>1, RangeAppend
  <2>6. Known(tgQ)'
    <3> SUFFICES ASSUME NEW x \in Range(tgQ'), x.kind = "updateCall"
                 PROVE  tg'[x.id].st # "unused" /\ (x.state = "Ended" => tg'[x.id].st = "ended")
      BY DEF Known
    <3>1. CASE x = Update(id, up)
      BY <1>1, <2>1, <3>1
    <3>2. CASE x \in Range(tgQ)
      <4>1. x.id \in TgId
        BY <1>0, <3>2, RangeSubset DEF TgEvent
      <4> QED BY <1>0, <2>2, <3>2, <4>1 DEF Known, TgForward
    <3> QED BY <2>5, <3>1, <3>2
  <2>7. ASSUME NEW i \in TgId PROVE ServedBy(i, tgQ)'
    <3>1. ServedBy(i, tgQ) /\ Matches("tg", i)' = Matches("tg", i)
      BY <1>0 DEF LegsInv, Matches
    <3>2. CASE i # id
      BY <1>1, <2>5, <3>1, <3>2 DEF ServedBy, Held
    <3>3. CASE i = id /\ tg'[id].out = tg[id].out /\ (Held(id)' => Held(id))
      BY <2>5, <3>1, <3>3 DEF ServedBy
    <3>4. CASE i = id /\ tg'[id].out = FALSE /\ up = "Pending"
      BY <2>5, <3>4 DEF ServedBy
    <3> QED BY <1>1, <3>2, <3>3, <3>4
  <2> QED BY <2>3, <2>4, <2>6, <2>7 DEF LegsInv, LegInv
<1>2. ASSUME NEW id \in TgId, NEW u \in User, TgRings(id, u)
      PROVE  LegsInv'
  <2>1. /\ tg'[id].st = "pending" /\ tg'[id].out = FALSE /\ tg[id].st = "unused"
        /\ \A i \in TgId : i # id => tg'[i] = tg[i]
        /\ tgQ' = Append(tgQ, Update(id, "Pending"))
    BY <1>0, <1>2 DEF TgRings, TypeOK
  <2> QED BY <1>1, <2>1 DEF TgUpdate
<1>3. ASSUME NEW id \in TgId, NEW st, NEW up, Report(id, st, up)
      PROVE  /\ tg'[id].st = st /\ tg'[id].out = tg[id].out
             /\ \A i \in TgId : i # id => tg'[i] = tg[i]
             /\ tgQ' = Append(tgQ, Update(id, up))
  BY <1>0, <1>3 DEF Report, TypeOK, TgCall
<1>4. ASSUME NEW id \in TgId, TgReceived(id) PROVE LegsInv'
  <2>1. tg[id].st = "pending" /\ Report(id, "received", "Pending")
    BY <1>4 DEF TgReceived
  <2> QED BY <1>1, <1>3, <2>1 DEF TgUpdate, Held
<1>5. ASSUME NEW id \in TgId, TgReady(id) PROVE LegsInv'
  <2>1. tg[id].st \in {"pending", "received", "exchange"} /\ Report(id, "ready", "Ready")
    BY <1>5 DEF TgReady
  <2>2. /\ tg'[id].st = "ready" /\ tg'[id].out = tg[id].out
        /\ \A i \in TgId : i # id => tg'[i] = tg[i]
        /\ tgQ' = Append(tgQ, Update(id, "Ready"))
    BY <1>3, <2>1
  <2>3. Held(id)
    BY <2>1 DEF Held
  <2> QED BY <1>1, <2>1, <2>2, <2>3 DEF TgUpdate
<1>6. ASSUME NEW id \in TgId, TgEnds(id) PROVE LegsInv'
  <2>1. tg[id].st \notin {"unused", "ended"} /\ Report(id, "ended", "Ended")
    BY <1>6 DEF TgEnds, TgLive
  <2> QED BY <1>1, <1>3, <2>1 DEF TgUpdate, Held
<1>7. ASSUME TgMessage PROVE LegsInv'
  <2>1. PICK m : /\ m.kind = "updateNewMessage" /\ m \in TgEvent
                 /\ tgQ' = Append(tgQ, m) /\ UNCHANGED tg
    BY <1>7 DEF TgMessage, TgEvent
  <2>2. /\ \A x \in Range(tgQ) : x \in Range(tgQ')
        /\ \A x \in Range(tgQ') : x \in Range(tgQ) \/ x = m
    BY <1>0, <2>1, RangeAppend
  <2>3. Known(tgQ)'
    BY <1>0, <2>1, <2>2 DEF Known
  <2>4. \A id \in TgId : ServedBy(id, tgQ)'
    BY <1>0, <2>1, <2>2 DEF LegsInv, ServedBy, Held, Matches
  <2> QED BY <1>0, <2>1, <2>3, <2>4 DEF LegsInv, LegInv, OneBridgePerTgCall, LegsUsed
<1> QED BY <1>2, <1>4, <1>5, <1>6, <1>7 DEF TdLib

\* There are no legs at the start.
LEMMA LegsInit ==
  ASSUME Init
  PROVE  LegsInv
<1>1. TypeOK
  BY InitType
<1>2. OneBridgePerTgCall /\ LegsUsed
  BY DEF Init, OneBridgePerTgCall, LegsUsed
<1>3. Known(tgQ)
  BY DEF Init, Known, Range
<1>4. \A id \in TgId : ServedBy(id, tgQ)
  BY DEF Init, ServedBy, Held
<1> QED BY <1>1, <1>2, <1>3, <1>4 DEF LegsInv, LegInv

\* Every step of the gateway and its environment keeps them in order.
LEMMA LegsNext ==
  ASSUME LegsInv, TypeOK', [Next]_vars
  PROVE  LegsInv'
<1>0. LegInv /\ Known(tgQ) /\ TypeOK /\ tgQ \in Seq(TgEvent)
  BY DEF LegsInv, LegInv, TypeOK
<1>1. CASE PollInternal
  <2>1. mode = "run" /\ UNCHANGED tgQ
    BY <1>1 DEF PollInternal, Poll
  <2>2. ASSUME NEW c \in DOMAIN bridges, Close(c, bridges[c])
        PROVE  LegsKept(tgQ)
    BY <1>0, <2>2, CloseKept
  <2>3. LegsKept(tgQ)
    BY <1>0, <1>1, <2>2, IgnoreQuiet, QuietKept DEF PollInternal, OnInternalError
  <2> QED BY <2>1, <2>3, LoopKept
<1>2. CASE PollTg
  BY <1>2, PollTgKept
<1>3. CASE PollSip
  <2>1. mode = "run" /\ UNCHANGED tgQ
    BY <1>3 DEF PollSip, Poll
  <2>2. PICK e : e = Head(sipQ)
    OBVIOUS
  <2>3. LegsKept(tgQ)
    BY <1>0, <1>3, <2>2, OnSipEventKept, IgnoreQuiet, QuietKept DEF PollSip
  <2> QED BY <2>1, <2>3, LoopKept
<1>4. CASE Abort
  <2>1. mode' = "aborted" /\ tgQ' = Tail(tgQ) /\ tgQ # <<>> /\ UNCHANGED <<bridges, tg>>
    BY <1>4 DEF Abort, Poll, tgRest, Rest, LookupAborts, DtmfAborts, Ignore
  <2>2. Known(tgQ)'
    BY <1>0, <2>1, RangeTail DEF Known
  <2> QED BY <1>0, <2>1, <2>2 DEF LegsInv, LegInv, OneBridgePerTgCall, LegsUsed
<1>5. CASE TdLib
  BY <1>5, TdLibKept
<1>6. CASE Stop \/ Clock \/ Sip \/ UNCHANGED vars
  <2>1. UNCHANGED <<bridges, tg, tgQ>> /\ (mode' = "run" => mode = "run")
    BY <1>6 DEF Stop, Clock, Sip, vars
  <2> QED BY <1>0, <2>1
    DEF LegsInv, LegInv, OneBridgePerTgCall, LegsUsed, Known, ServedBy, Held, Matches
<1> QED BY <1>1, <1>2, <1>3, <1>4, <1>5, <1>6 DEF Next, Loop

\* The inductive invariant, which TypeCorrect helps to keep.
THEOREM LegsInvariant == Spec => []LegsInv
BY LegsInit, LegsNext, TypeCorrect, PTL DEF Spec

\* Two bridges never share a Telegram call.
THEOREM TgLegOnce == Spec => []OneBridgePerTgCall
BY LegsInvariant, PTL DEF LegsInv, LegInv

\* A Telegram call the running gateway has not discarded belongs to a bridge or
\* is about to get one.
THEOREM TgCallServed == Spec => []NoOrphanTg
<1>1. LegsInv => NoOrphanTg
  BY DEF LegsInv, ServedBy, Held, NoOrphanTg
<1> QED BY <1>1, LegsInvariant, PTL

-----------------------------------------------------------------------------
(* The SIP legs: the entries of sip::Client::calls, and the SIP calls that  *)
(* nobody serves.                                                           *)

\* Where the queue q announces a call that PJSIP received in slot s.
Calling(s, q) == {i \in DOMAIN q : q[i].kind = "IncomingCall" /\ q[i].id = s}

Holds(s) == \E c \in DOMAIN bridges : bridges[c].sip = s

\* A call that is up, has a bridge or is announced has its entry.
Entered(s, q) == Live(s) \/ Holds(s) \/ Calling(s, q) # {} => s \in calls

\* A call that is up belongs to one bridge or is announced once, not both.  (A
\* slot that is over may be held by several bridges: Dial returns it although
\* its old entry is still there.)
Sole(s, q) ==
  Live(s) =>
    /\ \A c, d \in DOMAIN bridges : bridges[c].sip = s /\ bridges[d].sip = s => c = d
    /\ \A i, j \in Calling(s, q) : i = j
    /\ Calling(s, q) # {} => ~Holds(s)

\* What a queued event says of the first call of its slot is true of it.
TrueEvent(s, e) ==
  e.id = s =>
    /\ sip[s].lap > 0
    /\ sip[s].lap = 1 =>
         /\ e = CallState(s, "DISCONNECTED") => ~Live(s)
         /\ e = CallMedia(s, TRUE) => sip[s].media # "none"

Truthful(s, q) ==
  /\ Live(s) \/ Holds(s) => sip[s].lap > 0
  /\ \A e \in Range(q) : TrueEvent(s, e)

Settled(s, q) == Entered(s, q) /\ Sole(s, q) /\ Truthful(s, q)

ServedSip(s, q) == Live(s) /\ sip[s].lap = 1 => Holds(s) \/ Calling(s, q) # {}

SipInv == /\ \A s \in Slot : Settled(s, sipQ)
          /\ mode = "run" => \A s \in Slot : ServedSip(s, sipQ)

\* A handler that leaves the queue q to be handled keeps the slot in order.
SlotKept(s, q) ==
  /\ Settled(s, q) => Settled(s, sipQ)'
  /\ Settled(s, q) /\ ServedSip(s, q) => ServedSip(s, sipQ)'

-----------------------------------------------------------------------------
(* The announcements in the queue. *)

\* An event at the end adds an announcement or none.
LEMMA CallingAppend ==
  ASSUME NEW q \in Seq(SipEvent), NEW e \in SipEvent, NEW s
  PROVE  /\ ~(e.kind = "IncomingCall" /\ e.id = s) => Calling(s, Append(q, e)) = Calling(s, q)
         /\ e.kind = "IncomingCall" /\ e.id = s =>
              Calling(s, Append(q, e)) = Calling(s, q) \cup {Len(q) + 1}
<1>1. /\ DOMAIN q = 1..Len(q) /\ Len(q) \in Nat
      /\ DOMAIN Append(q, e) = 1..(Len(q) + 1)
      /\ \A i \in 1..Len(q) : Append(q, e)[i] = q[i]
      /\ Append(q, e)[Len(q) + 1] = e
  OBVIOUS
<1> QED BY <1>1 DEF Calling

\* Without the first event the announcements move up by one.
LEMMA CallingTail ==
  ASSUME NEW q \in Seq(SipEvent), q # <<>>, NEW s
  PROVE  /\ \A i \in Calling(s, Tail(q)) : i \in Nat /\ i > 0 /\ i + 1 \in Calling(s, q)
         /\ \A i \in Calling(s, q) : i \in Nat /\ (i # 1 => i - 1 \in Calling(s, Tail(q)))
         /\ 1 \in Calling(s, q) <=> Head(q).kind = "IncomingCall" /\ Head(q).id = s
<1>1. /\ DOMAIN q = 1..Len(q) /\ Len(q) \in Nat /\ Len(q) > 0 /\ Head(q) = q[1]
      /\ DOMAIN Tail(q) = 1..(Len(q) - 1)
      /\ \A i \in 1..(Len(q) - 1) : Tail(q)[i] = q[i + 1]
  OBVIOUS
<1>2. ASSUME NEW i \in Calling(s, Tail(q))
      PROVE  i \in Nat /\ i > 0 /\ i + 1 \in Calling(s, q)
  BY <1>1, <1>2 DEF Calling
<1>3. ASSUME NEW i \in Calling(s, q), i # 1
      PROVE  i - 1 \in Calling(s, Tail(q))
  <2>1. i \in 1..Len(q) /\ q[i].kind = "IncomingCall" /\ q[i].id = s
    BY <1>1, <1>3 DEF Calling
  <2>2. i - 1 \in 1..(Len(q) - 1) /\ (i - 1) + 1 = i
    BY <1>1, <1>3, <2>1
  <2>3. Tail(q)[i - 1] = q[i]
    BY <1>1, <2>2
  <2> QED BY <1>1, <2>1, <2>2, <2>3 DEF Calling
<1>4. \A i \in Calling(s, q) : i \in Nat
  BY <1>1 DEF Calling
<1>5. 1 \in Calling(s, q) <=> Head(q).kind = "IncomingCall" /\ Head(q).id = s
  BY <1>1 DEF Calling
<1> QED BY <1>2, <1>3, <1>4, <1>5

\* Taking the first event keeps what is known of every slot.
LEMMA SettledTail ==
  ASSUME TypeOK, sipQ # <<>>, NEW s \in Slot, Settled(s, sipQ)
  PROVE  /\ Settled(s, Tail(sipQ))
         /\ ServedSip(s, sipQ) =>
              \/ ServedSip(s, Tail(sipQ))
              \/ Head(sipQ).kind = "IncomingCall" /\ Head(sipQ).id = s
         /\ TrueEvent(s, Head(sipQ))
<1>1. PICK q \in Seq(SipEvent) : q = sipQ /\ q # <<>>
  BY DEF TypeOK, SipTypeOK
<1>2. /\ \A i \in Calling(s, Tail(q)) : i \in Nat /\ i > 0 /\ i + 1 \in Calling(s, q)
      /\ \A i \in Calling(s, q) : i \in Nat /\ (i # 1 => i - 1 \in Calling(s, Tail(q)))
      /\ 1 \in Calling(s, q) <=> Head(q).kind = "IncomingCall" /\ Head(q).id = s
  BY <1>1, CallingTail
<1>3. /\ Head(q) \in Range(q)
      /\ \A x \in Range(Tail(q)) : x \in Range(q)
  BY <1>1, RangeTail
<1>4. Entered(s, Tail(q))
  BY <1>1, <1>2 DEF Settled, Entered
<1>5. Sole(s, Tail(q))
  <2>1. ASSUME NEW i \in Calling(s, Tail(q)), NEW j \in Calling(s, Tail(q)), Live(s)
        PROVE  i = j
    BY <1>1, <1>2, <2>1 DEF Settled, Sole
  <2>2. Calling(s, Tail(q)) # {} => Calling(s, q) # {}
    BY <1>2
  <2> QED BY <1>1, <2>1, <2>2 DEF Settled, Sole
<1>6. Truthful(s, Tail(q)) /\ TrueEvent(s, Head(q))
  BY <1>1, <1>3 DEF Settled, Truthful
<1>7. ASSUME ServedSip(s, q), ~(Head(q).kind = "IncomingCall" /\ Head(q).id = s)
      PROVE  ServedSip(s, Tail(q))
  <2>1. Calling(s, q) # {} => Calling(s, Tail(q)) # {}
    BY <1>2, <1>7
  <2> QED BY <1>7, <2>1 DEF ServedSip
<1> QED BY <1>1, <1>4, <1>5, <1>6, <1>7 DEF Settled

-----------------------------------------------------------------------------
(* Slots that a step leaves alone, or on which the call only ends, gets     *)
(* media or is answered.                                                    *)

SameHolders(s) ==
  \A c : c \in DOMAIN bridges' /\ bridges'[c].sip = s <=> c \in DOMAIN bridges /\ bridges[c].sip = s

\* An event that the step appends about the live call of slot s.
NewsOf(s, e) ==
  e.id = s =>
    /\ Live(s)
    /\ e = CallState(s, "DISCONNECTED") => ~Live(s)'
    /\ e = CallMedia(s, TRUE) => sip'[s].media # "none"

SipQuiet(s, q) ==
  /\ sip'[s].lap = sip[s].lap
  /\ Live(s)' => Live(s)
  /\ sip[s].media # "none" => sip'[s].media # "none"
  /\ Calling(s, sipQ') = Calling(s, q)
  /\ \A e \in Range(sipQ') : e \in Range(q) \/ NewsOf(s, e)

EntryQuiet(s, q) == SipQuiet(s, q) /\ (s \in calls => s \in calls')

SlotQuiet(s, q) == EntryQuiet(s, q) /\ SameHolders(s)

\* A slot on which nothing new begins stays in order.
LEMMA SlotQuietKept ==
  ASSUME NEW s \in Slot, NEW q, SlotQuiet(s, q)
  PROVE  SlotKept(s, q)
<1>1. Holds(s)' <=> Holds(s)
  BY DEF SlotQuiet, SameHolders, Holds
<1>2. ASSUME Settled(s, q) PROVE Settled(s, sipQ)'
  <2>1. Entered(s, sipQ)'
    BY <1>1, <1>2 DEF Settled, Entered, SlotQuiet, EntryQuiet, SipQuiet
  <2>2. Sole(s, sipQ)'
    BY <1>1, <1>2 DEF Settled, Sole, SlotQuiet, EntryQuiet, SipQuiet, SameHolders
  <2>3. ASSUME NEW e \in Range(sipQ') PROVE TrueEvent(s, e)'
    BY <1>2, <2>3 DEF Settled, Truthful, TrueEvent, SlotQuiet, EntryQuiet, SipQuiet, NewsOf
  <2>4. (Live(s) \/ Holds(s) => sip[s].lap > 0)'
    BY <1>1, <1>2 DEF Settled, Truthful, SlotQuiet, EntryQuiet, SipQuiet
  <2> QED BY <2>1, <2>2, <2>3, <2>4 DEF Settled, Truthful
<1>3. ASSUME ServedSip(s, q) PROVE ServedSip(s, sipQ)'
  BY <1>1, <1>3 DEF ServedSip, SlotQuiet, EntryQuiet, SipQuiet
<1> QED BY <1>2, <1>3 DEF SlotKept

\* The bridges' side.
LEMMA PutHolders ==
  ASSUME NEW c \in DOMAIN bridges, NEW b, Put(c, b), b.sip = bridges[c].sip, NEW s
  PROVE  SameHolders(s)
BY DEF Put, SameHolders

\* A new bridge holds its own slot and no other.
LEMMA OpenHolders ==
  ASSUME TypeOK, NEW b, Open(b)
  PROVE  /\ NewCtx \notin DOMAIN bridges
         /\ \A s : b.sip # s => SameHolders(s)
         /\ \A c : c \in DOMAIN bridges' /\ bridges'[c].sip = b.sip
                     <=> (c \in DOMAIN bridges /\ bridges[c].sip = b.sip) \/ c = NewCtx
<1>1. NewCtx \notin DOMAIN bridges
  BY DEF TypeOK, BridgesTypeOK, NewCtx
<1>2. /\ DOMAIN bridges' = DOMAIN bridges \cup {NewCtx}
      /\ bridges'[NewCtx] = b
      /\ \A c \in DOMAIN bridges : bridges'[c] = bridges[c]
  BY <1>1 DEF Open
<1> QED BY <1>1, <1>2 DEF SameHolders

\* Without a bridge the slots of the others are held as before.
LEMMA CloseHolders ==
  ASSUME NEW c \in DOMAIN bridges, NEW b, Close(c, b)
  PROVE  /\ \A s : bridges[c].sip # s => SameHolders(s)
         /\ \A d : d \in DOMAIN bridges' <=> d \in DOMAIN bridges /\ d # c
         /\ \A d \in DOMAIN bridges' : bridges'[d] = bridges[d]
<1>1. /\ \A d : d \in DOMAIN bridges' <=> d \in DOMAIN bridges /\ d # c
      /\ \A d \in DOMAIN bridges' : bridges'[d] = bridges[d]
  BY DEF Close, Restrict
<1> QED BY <1>1 DEF SameHolders

\* The SIP client's side: nothing happens.
LEMMA SipSameQuiet ==
  ASSUME NEW q, UNCHANGED <<sip, calls>>, sipQ' = q, NEW s \in Slot
  PROVE  EntryQuiet(s, q)
BY DEF EntryQuiet, SipQuiet, Live

\* What a callback appends to the queue is no announcement, and true.
LEMMA QueueQuiet ==
  ASSUME NEW q \in Seq(SipEvent), NEW e \in SipEvent, e.kind # "IncomingCall",
         NEW s, sipQ' = q \/ (sipQ' = Append(q, e) /\ NewsOf(s, e))
  PROVE  /\ Calling(s, sipQ') = Calling(s, q)
         /\ \A x \in Range(sipQ') : x \in Range(q) \/ NewsOf(s, x)
<1>1. CASE sipQ' = q
  BY <1>1
<1>2. CASE sipQ' = Append(q, e) /\ NewsOf(s, e)
  BY <1>2, CallingAppend, RangeAppend
<1> QED BY <1>1, <1>2

\* Call.st of one slot is replaced.
LEMMA EnterFields ==
  ASSUME TypeOK, NEW s \in Slot, NEW st, sip' = Enter(s, st)
  PROVE  /\ sip'[s].st = st /\ sip'[s].lap = sip[s].lap
         /\ sip'[s].media = sip[s].media /\ sip'[s].dtmf = sip[s].dtmf
         /\ \A r \in Slot : r # s => sip'[r] = sip[r]
BY DEF Enter, TypeOK, SipTypeOK, SipCall

\* The call is answered.
LEMMA AnswerQuiet ==
  ASSUME TypeOK, NEW s \in Slot, NEW q \in Seq(SipEvent), AnswerRinging(s, q) \/ AnswerOk(s, q),
         NEW r \in Slot
  PROVE  EntryQuiet(r, q)
<1>1. PICK e \in SipEvent : e = CallState(s, "EARLY") /\ e.kind = "CallStateUpdate" /\ e.id = s
  BY SipEventType DEF CallState
<1>2. Live(s) /\ UNCHANGED calls
  BY DEF AnswerRinging, AnswerOk, CanAnswer
<1>3. /\ sip'[r].lap = sip[r].lap /\ sip'[r].media = sip[r].media
      /\ Live(r)' => Live(r)
  <2>1. sip' = Enter(s, "early") \/ sip' = Enter(s, "confirmed")
    BY DEF AnswerRinging, AnswerOk
  <2>2. /\ sip'[s].lap = sip[s].lap /\ sip'[s].media = sip[s].media
        /\ r # s => sip'[r] = sip[r]
    BY <2>1, EnterFields
  <2> QED BY <1>2, <2>2 DEF Live
<1>4. NewsOf(r, e)
  BY <1>1, <1>2 DEF NewsOf, CallState, CallMedia
<1>5. sipQ' = q \/ sipQ' = Append(q, e)
  BY <1>1 DEF AnswerRinging, AnswerOk
<1> QED BY <1>1, <1>2, <1>3, <1>4, <1>5, QueueQuiet DEF EntryQuiet, SipQuiet

\* Hangup: the call is over and has no entry, or nothing changed.
LEMMA HangupQuiet ==
  ASSUME TypeOK, NEW s \in Slot, NEW q \in Seq(SipEvent), Hangup(s, q)
  PROVE  /\ \A r \in Slot : SipQuiet(r, q) /\ (r # s => EntryQuiet(r, q))
         /\ s \in calls /\ Live(s) => ~Live(s)'
         /\ ~(s \in calls /\ Live(s)) => EntryQuiet(s, q)
<1>1. PICK e \in SipEvent : e = CallState(s, "DISCONNECTED") /\ e.kind = "CallStateUpdate" /\ e.id = s
  BY SipEventType DEF CallState
<1>2. CASE s \in calls /\ Live(s)
  <2>1. \A r \in Slot : /\ sip'[r].lap = sip[r].lap /\ sip'[r].media = sip[r].media
                        /\ Live(r)' => Live(r)
    BY <1>2, EnterFields DEF Hangup, Live
  <2>2. ~Live(s)'
    BY <1>2, EnterFields DEF Hangup, Live
  <2>3. \A r \in Slot : NewsOf(r, e)
    BY <1>1, <1>2, <2>2 DEF NewsOf, CallState, CallMedia
  <2>4. sipQ' = q \/ sipQ' = Append(q, e)
    BY <1>1, <1>2 DEF Hangup
  <2>5. ASSUME NEW r \in Slot PROVE SipQuiet(r, q)
    <3>1. /\ Calling(r, sipQ') = Calling(r, q)
          /\ \A x \in Range(sipQ') : x \in Range(q) \/ NewsOf(r, x)
      BY <1>1, <2>3, <2>4, QueueQuiet
    <3>2. /\ sip'[r].lap = sip[r].lap /\ sip'[r].media = sip[r].media
          /\ Live(r)' => Live(r)
      BY <2>1 DEF Live
    <3> QED BY <3>1, <3>2 DEF SipQuiet
  <2>6. \A r \in Slot : r # s /\ r \in calls => r \in calls'
    BY <1>2 DEF Hangup
  <2> QED BY <1>2, <2>2, <2>5, <2>6 DEF EntryQuiet
<1>3. CASE ~(s \in calls /\ Live(s))
  <2>1. UNCHANGED <<sip, calls>> /\ sipQ' = q
    BY <1>3 DEF Hangup
  <2> QED BY <1>3, <2>1, SipSameQuiet DEF EntryQuiet
<1> QED BY <1>2, <1>3

\* What was said of an earlier call of the slot.
LEMMA OldEvent ==
  ASSUME NEW s, sip[s].lap \in Nat, sip'[s].lap = sip[s].lap + 1, NEW e, TrueEvent(s, e)
  PROVE  TrueEvent(s, e)'
<1>1. PICK n \in Nat : n = sip[s].lap
  OBVIOUS
<1>2. e.id = s => n > 0
  BY <1>1 DEF TrueEvent
<1>3. e.id = s => n + 1 > 0 /\ n + 1 # 1
  BY <1>2
<1>4. sip'[s].lap = n + 1
  BY <1>1
<1> QED BY <1>3, <1>4 DEF TrueEvent

\* A new call in slot s: its events and bridges so far were those of earlier
\* calls.
LEMMA NewCallQuiet ==
  ASSUME TypeOK, NEW s \in Slot, NEW st \in SipState,
         Free(s), sip' = [sip EXCEPT ![s] = NewCall(s, IF s \in calls THEN "over" ELSE st)],
         calls' = calls \cup {s}, NEW q \in Seq(SipEvent)
  PROVE  /\ sip'[s].lap = sip[s].lap + 1 /\ sip[s].lap \in Nat /\ s \in calls'
         /\ ~Live(s) /\ (s \in calls => ~Live(s)')
         /\ Truthful(s, q) => \A e \in Range(q) : TrueEvent(s, e)'
         /\ \A r \in Slot : r # s => sip'[r] = sip[r] /\ (r \in calls <=> r \in calls')
<1>1. /\ sip'[s].lap = sip[s].lap + 1 /\ sip[s].lap \in Nat /\ s \in calls'
      /\ ~Live(s) /\ (s \in calls => ~Live(s)')
  BY DEF Free, NewCall, Live, TypeOK, SipTypeOK, SipCall
<1>2. ASSUME NEW e, TrueEvent(s, e) PROVE TrueEvent(s, e)'
  BY <1>1, <1>2, OldEvent
<1>3. \A r \in Slot : r # s => sip'[r] = sip[r] /\ (r \in calls <=> r \in calls')
  BY DEF TypeOK, SipTypeOK
<1> QED BY <1>1, <1>2, <1>3 DEF Truthful

-----------------------------------------------------------------------------
(* The slots that do change hands. *)

\* A bridge takes the new call of slot s, which it dialled.
LEMMA DialledKept ==
  ASSUME TypeOK, NEW s \in Slot, NEW q \in Seq(SipEvent), Dial(s, q), NEW b, Open(b), b.sip = s
  PROVE  \A r \in Slot : SlotKept(r, q)
<1>1. /\ sip'[s].lap = sip[s].lap + 1 /\ sip[s].lap \in Nat /\ s \in calls'
      /\ ~Live(s) /\ (s \in calls => ~Live(s)')
      /\ Truthful(s, q) => \A e \in Range(q) : TrueEvent(s, e)'
      /\ \A r \in Slot : r # s => sip'[r] = sip[r] /\ (r \in calls <=> r \in calls')
  BY NewCallQuiet DEF Dial, SipState
<1>2. /\ NewCtx \notin DOMAIN bridges
      /\ \A r : b.sip # r => SameHolders(r)
      /\ \A c : c \in DOMAIN bridges' /\ bridges'[c].sip = s
                  <=> (c \in DOMAIN bridges /\ bridges[c].sip = s) \/ c = NewCtx
  BY OpenHolders
<1>3. sipQ' = q
  BY DEF Dial
<1>4. ASSUME NEW r \in Slot, r # s PROVE SlotKept(r, q)
  <2>1. SlotQuiet(r, q)
    BY <1>1, <1>2, <1>3, <1>4 DEF SlotQuiet, EntryQuiet, SipQuiet, Live
  <2> QED BY <2>1, SlotQuietKept
<1>5. Holds(s)'
  BY <1>2 DEF Holds
<1>6. ASSUME Settled(s, q) PROVE Settled(s, sipQ)'
  <2>1. Entered(s, sipQ)'
    BY <1>1 DEF Entered
  <2>2. s \notin calls => ~Holds(s) /\ Calling(s, q) = {}
    BY <1>6 DEF Settled, Entered
  <2>3. Sole(s, sipQ)'
    <3>1. CASE s \in calls
      BY <1>1, <3>1 DEF Sole
    <3>2. CASE s \notin calls
      <4>1. \A c : c \in DOMAIN bridges' /\ bridges'[c].sip = s <=> c = NewCtx
        BY <1>2, <2>2, <3>2 DEF Holds
      <4>2. Calling(s, sipQ') = {}
        BY <1>3, <2>2, <3>2
      <4> QED BY <4>1, <4>2 DEF Sole
    <3> QED BY <3>1, <3>2
  <2>4. \A e \in Range(sipQ') : TrueEvent(s, e)'
    BY <1>1, <1>3, <1>6 DEF Settled
  <2>5. sip'[s].lap > 0
    BY <1>1
  <2> QED BY <2>1, <2>3, <2>4, <2>5 DEF Settled, Truthful
<1>7. ServedSip(s, sipQ)'
  BY <1>5 DEF ServedSip
<1>8. SlotKept(s, q)
  BY <1>6, <1>7 DEF SlotKept
<1> QED BY <1>4, <1>8

\* The bridge of slot s goes, and with it the call; or the call is over.
LEMMA CloseSipKept ==
  ASSUME TypeOK, NEW q \in Seq(SipEvent), q = sipRest, NEW c \in DOMAIN bridges,
         NEW b, Close(c, b), b.sip \in {bridges[c].sip, NoSip},
         b.sip = NoSip /\ bridges[c].sip # NoSip /\ sip[bridges[c].sip].lap = 1
           => ~Live(bridges[c].sip)
  PROVE  \A s \in Slot : SlotKept(s, q)
<1>1. /\ \A s : bridges[c].sip # s => SameHolders(s)
      /\ \A d : d \in DOMAIN bridges' <=> d \in DOMAIN bridges /\ d # c
      /\ \A d \in DOMAIN bridges' : bridges'[d] = bridges[d]
  BY CloseHolders
<1>2. bridges[c].sip \in Slot \cup {NoSip}
  BY BridgeType DEF TypeOK, Context
<1>3. CASE b.sip = NoSip
  <2>1. \A s \in Slot : EntryQuiet(s, q)
    BY <1>3, SipSameQuiet DEF Close, CleanUp, SipSame
  <2>2. ASSUME NEW s \in Slot, bridges[c].sip # s PROVE SlotKept(s, q)
    BY <1>1, <2>1, <2>2, SlotQuietKept DEF SlotQuiet
  <2>3. ASSUME NEW s \in Slot, bridges[c].sip = s PROVE SlotKept(s, q)
    <3>1. UNCHANGED <<sip, calls>> /\ sipQ' = q
      BY <1>3 DEF Close, CleanUp, SipSame
    <3>2. Holds(s)' => Holds(s)
      BY <1>1 DEF Holds
    <3>3. ASSUME Settled(s, q) PROVE Settled(s, sipQ)'
      <4>1. Entered(s, sipQ)'
        BY <3>1, <3>2, <3>3 DEF Settled, Entered, Live
      <4>2. Sole(s, sipQ)'
        BY <1>1, <3>1, <3>2, <3>3 DEF Settled, Sole, Live
      <4>3. Truthful(s, sipQ)'
        BY <3>1, <3>2, <3>3 DEF Settled, Truthful, TrueEvent, Live
      <4> QED BY <4>1, <4>2, <4>3 DEF Settled
    <3>4. sip[s].lap = 1 => ~Live(s)
      BY <1>3, <2>3, NoSipAssumption
    <3>5. ServedSip(s, sipQ)'
      BY <3>1, <3>4 DEF ServedSip, Live
    <3> QED BY <3>3, <3>5 DEF SlotKept
  <2> QED BY <2>2, <2>3
<1>4. CASE b.sip # NoSip
  <2>0. PICK s \in Slot : s = b.sip /\ s = bridges[c].sip
    BY <1>2, <1>4
  <2>1. /\ \A r \in Slot : SipQuiet(r, q) /\ (r # s => EntryQuiet(r, q))
        /\ s \in calls /\ Live(s) => ~Live(s)'
        /\ ~(s \in calls /\ Live(s)) => EntryQuiet(s, q)
    BY <1>4, <2>0, HangupQuiet DEF Close, CleanUp
  <2>2. ASSUME NEW r \in Slot, r # s PROVE SlotKept(r, q)
    BY <1>1, <2>0, <2>1, <2>2, SlotQuietKept DEF SlotQuiet
  <2>3. Holds(s)' => Holds(s)
    BY <1>1 DEF Holds
  <2>4. ASSUME Settled(s, q)
        PROVE  Settled(s, sipQ)' /\ ~Live(s)'
    <3>1. ~Live(s)'
      BY <2>1, <2>4 DEF Settled, Entered, SipQuiet
    <3>2. Entered(s, sipQ)'
      <4>1. CASE s \in calls /\ Live(s)
        <5>1. \A d \in DOMAIN bridges : bridges[d].sip = s => d = c
          BY <2>0, <2>4, <4>1 DEF Settled, Sole
        <5>2. ~Holds(s)'
          BY <1>1, <5>1 DEF Holds
        <5>3. Calling(s, q) = {}
          BY <2>0, <2>4, <4>1 DEF Settled, Sole, Holds
        <5>4. Calling(s, sipQ') = {}
          BY <2>1, <5>3 DEF SipQuiet
        <5> QED BY <3>1, <5>2, <5>4 DEF Entered
      <4>2. CASE ~(s \in calls /\ Live(s))
        BY <2>1, <2>3, <2>4, <3>1, <4>2 DEF Settled, Entered, EntryQuiet, SipQuiet
      <4> QED BY <4>1, <4>2
    <3>3. ASSUME NEW e \in Range(sipQ') PROVE TrueEvent(s, e)'
      BY <2>1, <2>4, <3>1, <3>3 DEF Settled, Truthful, TrueEvent, SipQuiet, NewsOf
    <3>4. (Live(s) \/ Holds(s) => sip[s].lap > 0)'
      BY <2>1, <2>3, <2>4, <3>1 DEF Settled, Truthful, SipQuiet
    <3> QED BY <3>1, <3>2, <3>3, <3>4 DEF Settled, Truthful, Sole
  <2>5. SlotKept(s, q)
    BY <2>4 DEF SlotKept, ServedSip
  <2> QED BY <2>2, <2>5
<1> QED BY <1>3, <1>4

\* A bridge takes the call of slot s that the first event of the queue, taken
\* by this step, announced.
LEMMA TakenKept ==
  ASSUME TypeOK, sipQ # <<>>, NEW q \in Seq(SipEvent), q = Tail(sipQ),
         NEW s \in Slot, Head(sipQ).kind = "IncomingCall", Head(sipQ).id = s,
         Matches("sip", s) = {}, Settled(s, sipQ), NEW b, Open(b), b.sip = s,
         EntryQuiet(s, q)
  PROVE  Settled(s, sipQ)' /\ ServedSip(s, sipQ)'
<1>1. PICK p \in Seq(SipEvent) : p = sipQ /\ p # <<>>
  BY DEF TypeOK, SipTypeOK
<1>2. /\ \A i \in Calling(s, q) : i \in Nat /\ i > 0 /\ i + 1 \in Calling(s, p)
      /\ 1 \in Calling(s, p)
  BY <1>1, CallingTail
<1>3. Settled(s, q)
  BY <1>1, SettledTail
<1>4. ~Holds(s)
  BY DEF Holds, Matches
<1>5. /\ NewCtx \notin DOMAIN bridges
      /\ \A c : c \in DOMAIN bridges' /\ bridges'[c].sip = s
                  <=> (c \in DOMAIN bridges /\ bridges[c].sip = s) \/ c = NewCtx
  BY OpenHolders
<1>6. \A c : c \in DOMAIN bridges' /\ bridges'[c].sip = s <=> c = NewCtx
  BY <1>4, <1>5 DEF Holds
<1>7. s \in calls' /\ sip[s].lap > 0
  <2>1. s \in calls
    BY <1>1, <1>2 DEF Settled, Entered
  <2>2. TrueEvent(s, Head(sipQ))
    BY SettledTail
  <2> QED BY <2>1, <2>2 DEF EntryQuiet, TrueEvent
<1>8. Live(s)' => Calling(s, sipQ') = {}
  <2>1. ASSUME Live(s), NEW i \in Calling(s, q) PROVE FALSE
    <3>1. i + 1 = 1
      BY <1>1, <1>2, <2>1 DEF Settled, Sole
    <3> QED BY <1>2, <2>1, <3>1
  <2> QED BY <2>1 DEF EntryQuiet, SipQuiet
<1>9. Settled(s, sipQ)'
  <2>1. Entered(s, sipQ)'
    BY <1>7 DEF Entered
  <2>2. Sole(s, sipQ)'
    BY <1>6, <1>8 DEF Sole
  <2>3. ASSUME NEW e \in Range(sipQ') PROVE TrueEvent(s, e)'
    BY <1>3, <1>7, <2>3 DEF Settled, Truthful, TrueEvent, EntryQuiet, SipQuiet, NewsOf
  <2>4. (Live(s) \/ Holds(s) => sip[s].lap > 0)'
    BY <1>7 DEF EntryQuiet, SipQuiet
  <2> QED BY <2>1, <2>2, <2>3, <2>4 DEF Settled, Truthful
<1>10. Holds(s)'
  BY <1>6 DEF Holds
<1> QED BY <1>9, <1>10 DEF ServedSip

-----------------------------------------------------------------------------
(* The handlers. *)

\* A bridge whose record is changed in another field keeps its SIP call.
LEMMA ContextSip ==
  ASSUME TypeOK, NEW c \in DOMAIN bridges, NEW st, NEW u
  PROVE  /\ [bridges[c] EXCEPT !.st = st].sip = bridges[c].sip
         /\ [[bridges[c] EXCEPT !.st = st] EXCEPT !.audio = TRUE].sip = bridges[c].sip
         /\ [[bridges[c] EXCEPT !.st = st] EXCEPT !.tg = u].sip = bridges[c].sip
         /\ [bridges[c] EXCEPT !.st = st, !.user = u].sip = bridges[c].sip
         /\ [bridges[c] EXCEPT !.tg = NoTg].sip = bridges[c].sip
         /\ [bridges[c] EXCEPT !.sip = NoSip].sip = NoSip
BY BridgeType DEF TypeOK, Context

\* Handlers that leave the SIP client and the bridges' SIP calls alone.
LEMMA StillKept ==
  ASSUME NEW q, q = sipRest, SipSame, \A s \in Slot : SameHolders(s)
  PROVE  \A s \in Slot : SlotKept(s, q)
BY SipSameQuiet, SlotQuietKept DEF SipSame, SlotQuiet

\* A dropped event touches no slot.
LEMMA IgnoreSipKept ==
  ASSUME NEW q, q = sipRest, Ignore
  PROVE  \A s \in Slot : SlotKept(s, q)
BY StillKept DEF Ignore, SameHolders

\* A bridge that keeps its SIP call keeps its slot in order.
LEMMA PutSipKept ==
  ASSUME NEW q, q = sipRest, SipSame, NEW c \in DOMAIN bridges, NEW b, Put(c, b),
         b.sip = bridges[c].sip
  PROVE  \A s \in Slot : SlotKept(s, q)
BY StillKept, PutHolders

\* DialSip takes a slot, or none when it fails.
LEMMA StartFromTgSip ==
  ASSUME TypeOK, NEW q \in Seq(SipEvent), q = sipRest, NEW id \in TgId, StartFromTg(id)
  PROVE  \A s \in Slot : SlotKept(s, q)
<1> DEFINE b == [NewContext("tg_wait_media") EXCEPT !.tg = id, !.user = tg[id].user]
<1>1. b.sip = NoSip /\ \A s : [b EXCEPT !.sip = s].sip = s
  BY DEF NewContext
<1>2. CASE Open(b) /\ SipSame
  <2>1. \A s \in Slot : SameHolders(s)
    <3> HIDE DEF b
    <3> QED BY <1>1, <1>2, OpenHolders, NoSipAssumption
  <2> QED BY <1>2, <2>1, StillKept
<1>3. ASSUME NEW s \in Slot, Dial(s, sipRest), Open([b EXCEPT !.sip = s])
      PROVE  \A r \in Slot : SlotKept(r, q)
  <2> DEFINE d == [b EXCEPT !.sip = s]
  <2>1. d.sip = s /\ Open(d) /\ Dial(s, q)
    BY <1>1, <1>3
  <2> HIDE DEF d
  <2> QED BY <2>1, DialledKept
<1> QED BY <1>2, <1>3 DEF StartFromTg

\* 200 to the caller keeps the slots in order.
LEMMA AnswerSipKept ==
  ASSUME TypeOK, NEW q \in Seq(SipEvent), q = sipRest, NEW c \in DOMAIN bridges, NEW id,
         AnswerSip(c, id)
  PROVE  \A s \in Slot : SlotKept(s, q)
<1> DEFINE b == [bridges[c] EXCEPT !.st = "sip_wait_media", !.user = tg[id].user]
<1>1. b.sip = bridges[c].sip
  BY ContextSip
<1>2. Put(c, b)
  BY DEF AnswerSip
<1> HIDE DEF b
<1>3. CASE SipSame
  BY <1>1, <1>2, <1>3, PutSipKept
<1>4. CASE AnswerOk(bridges[c].sip, sipRest)
  <2>1. bridges[c].sip \in Slot
    BY <1>4 DEF AnswerOk, CanAnswer, TypeOK, SipTypeOK
  <2>2. \A s \in Slot : EntryQuiet(s, q)
    BY <1>4, <2>1, AnswerQuiet
  <2>3. \A s \in Slot : SameHolders(s)
    BY <1>1, <1>2, PutHolders
  <2> QED BY <2>2, <2>3, SlotQuietKept DEF SlotQuiet
<1> QED BY <1>3, <1>4 DEF AnswerSip

\* BridgeAudio, whether it succeeds or not.
LEMMA JoinSipKept ==
  ASSUME TypeOK, NEW q \in Seq(SipEvent), q = sipRest, NEW c \in DOMAIN bridges,
         BridgeFromTg(c) \/ BridgeFromSip(c)
  PROVE  \A s \in Slot : SlotKept(s, q)
<1>1. PICK st \in {"tg_wait_dtmf", "sip_wait_dtmf"} :
        /\ SipSame
        /\ \/ Put(c, [[bridges[c] EXCEPT !.st = st] EXCEPT !.audio = TRUE])
           \/ Put(c, [bridges[c] EXCEPT !.st = st])
  BY DEF BridgeFromTg, BridgeFromSip
<1>2. PICK b : Put(c, b) /\ b.sip = bridges[c].sip
  BY <1>1, ContextSip
<1> QED BY <1>1, <1>2, PutSipKept

\* Every transition for an update of a Telegram call.
LEMMA OnUpdateCallSip ==
  ASSUME TypeOK, NEW q \in Seq(SipEvent), q = sipRest, NEW id \in TgId, NEW st,
         OnUpdateCall(id, st)
  PROVE  \A s \in Slot : SlotKept(s, q)
<1>1. CASE StartFromTg(id)
  BY <1>1, StartFromTgSip
<1>2. CASE Ignore
  BY <1>2, IgnoreSipKept
<1>3. CASE RefuseFromTg(id)
  <2>1. [NewContext("tg_wait_media") EXCEPT !.tg = id].sip = NoSip
    BY DEF NewContext
  <2> QED BY <1>3, <2>1, StillKept DEF RefuseFromTg, CleanUp, SameHolders
<1>4. ASSUME NEW c \in DOMAIN bridges, BridgeOnUpdateCall(c, id, st)
      PROVE  \A s \in Slot : SlotKept(s, q)
  <2>1. CASE BridgeFromTg(c)
    BY <2>1, JoinSipKept
  <2>2. CASE AnswerSip(c, id)
    BY <2>2, AnswerSipKept
  <2>3. CASE TgEnded(c)
    <3>1. PICK b : b.sip = bridges[c].sip /\ Close(c, b)
      BY <2>3, ContextSip DEF TgEnded
    <3> QED BY <3>1, CloseSipKept
  <2> QED BY <1>2, <1>4, <2>1, <2>2, <2>3 DEF BridgeOnUpdateCall
<1> QED BY <1>1, <1>2, <1>3, <1>4 DEF OnUpdateCall

\* Digits change neither the entry nor the holder of a slot.
LEMMA DialDtmfSip ==
  ASSUME TypeOK, NEW q \in Seq(SipEvent), q = sipRest, NEW c \in DOMAIN bridges, NEW m,
         DialDtmf(c, m)
  PROVE  \A s \in Slot : SlotKept(s, q)
<1>1. ASSUME NEW s \in Slot PROVE SlotQuiet(s, q)
  <2>1. /\ sip'[s].lap = sip[s].lap /\ sip'[s].media = sip[s].media
        /\ sip'[s].st = sip[s].st
    BY DEF DialDtmf, TypeOK, SipTypeOK, SipCall
  <2>2. sipQ' = q /\ UNCHANGED <<calls, bridges>>
    BY DEF DialDtmf
  <2> QED BY <2>1, <2>2 DEF SlotQuiet, EntryQuiet, SipQuiet, SameHolders, Live
<1> QED BY <1>1, SlotQuietKept

\* Making the Telegram call leaves the slots alone.
LEMMA DialTgSip ==
  ASSUME TypeOK, NEW q \in Seq(SipEvent), q = sipRest, NEW c \in DOMAIN bridges, DialTg(c)
  PROVE  \A s \in Slot : SlotKept(s, q)
<1> DEFINE b == [bridges[c] EXCEPT !.st = "sip_wait_tg"]
<1>1. b.sip = bridges[c].sip /\ \A id : [b EXCEPT !.tg = id].sip = bridges[c].sip
  BY ContextSip
<1>2. Put(c, b) \/ \E id : Put(c, [b EXCEPT !.tg = id])
  BY DEF DialTg, DialBlocked, LookupFails, CreateCall
<1> HIDE DEF b
<1>3. PICK d : Put(c, d) /\ d.sip = bridges[c].sip
  BY <1>1, <1>2
<1> QED BY <1>3, PutSipKept DEF DialTg

\* So does accepting it.
LEMMA AnswerTgSip ==
  ASSUME TypeOK, NEW q \in Seq(SipEvent), q = sipRest, NEW c \in DOMAIN bridges, AnswerTg(c)
  PROVE  \A s \in Slot : SlotKept(s, q)
<1>1. PICK b : Put(c, b) /\ b.sip = bridges[c].sip
  BY ContextSip DEF AnswerTg
<1> QED BY <1>1, PutSipKept DEF AnswerTg

\* The queue of the other loops' polls.
LEMMA SipRestQ ==
  ASSUME phase # "sip" \/ sipQ = <<>>
  PROVE  sipRest = sipQ
BY DEF sipRest, Rest

\* A handler that leaves the queue as it is.
LEMMA SipLoopKept ==
  ASSUME SipInv, mode = "run", \A s \in Slot : SlotKept(s, sipQ)
  PROVE  SipInv'
BY DEF SipInv, SlotKept

\* Events of SIP: the first event of the queue is taken.
LEMMA OnSipEventSip ==
  ASSUME TypeOK, phase = "sip", sipQ # <<>>, NEW e \in SipEvent, e = Head(sipQ),
         \A s \in Slot : Settled(s, sipQ), OnSipEvent(e)
  PROVE  \A s \in Slot : Settled(s, sipQ)' /\ (ServedSip(s, sipQ) => ServedSip(s, sipQ)')
<1>1. PICK q \in Seq(SipEvent) : q = sipRest /\ q = Tail(sipQ)
  BY RestsType DEF sipRest, Rest
<1>2. \A s \in Slot :
        /\ Settled(s, q)
        /\ ServedSip(s, sipQ) => ServedSip(s, q) \/ (e.kind = "IncomingCall" /\ e.id = s)
        /\ TrueEvent(s, e)
  BY <1>1, SettledTail
<1>3. e.id \in Slot
  BY DEF SipEvent
<1>4. ASSUME \A s \in Slot : SlotKept(s, q), e.kind = "IncomingCall" => Holds(e.id)
      PROVE  \A s \in Slot : Settled(s, sipQ)' /\ (ServedSip(s, sipQ) => ServedSip(s, sipQ)')
  <2> TAKE s \in Slot
  <2>1. ServedSip(s, sipQ) => ServedSip(s, q)
    BY <1>2, <1>4 DEF ServedSip
  <2> QED BY <1>2, <1>4, <2>1 DEF SlotKept
<1>5. CASE Matches("sip", e.id) = {} /\ e.kind = "IncomingCall" /\ StartFromSip(e.id, e.ext)
  <2> DEFINE b == [NewContext("sip_wait_confirm") EXCEPT
                     !.sip = e.id,
                     !.ext = IF e.ext \in Named THEN e.ext ELSE NoExt,
                     !.user = IF ExtKind[e.ext] = "id" THEN ExtUser[e.ext] ELSE NoUser]
  <2>1. b.sip = e.id
    BY DEF NewContext
  <2>2. Open(b)
    BY <1>5 DEF StartFromSip
  <2> HIDE DEF b
  <2>3. \A s \in Slot : EntryQuiet(s, q)
    BY <1>1, <1>3, <1>5, AnswerQuiet, SipSameQuiet DEF StartFromSip, SipSame
  <2>4. ASSUME NEW s \in Slot, s # e.id
        PROVE  Settled(s, sipQ)' /\ (ServedSip(s, sipQ) => ServedSip(s, sipQ)')
    <3>1. SameHolders(s)
      BY <2>1, <2>2, <2>4, OpenHolders
    <3>2. SlotKept(s, q)
      BY <2>3, <3>1, SlotQuietKept DEF SlotQuiet
    <3> QED BY <1>2, <2>4, <3>2 DEF SlotKept
  <2>5. Settled(e.id, sipQ)' /\ ServedSip(e.id, sipQ)'
    BY <1>1, <1>3, <1>5, <2>1, <2>2, <2>3, TakenKept
  <2> QED BY <2>4, <2>5
<1>6. CASE Matches("sip", e.id) = {} /\ e.kind # "IncomingCall" /\ Ignore
  BY <1>1, <1>4, <1>6, IgnoreSipKept
<1>7. ASSUME NEW c \in DOMAIN bridges, First(c, Matches("sip", e.id)),
             \/ Ignore
             \/ e.kind = "CallStateUpdate" /\ BridgeOnCallState(c, e.state)
             \/ BridgeOnCallMedia(c, e.has_media)
      PROVE  \A s \in Slot : Settled(s, sipQ)' /\ (ServedSip(s, sipQ) => ServedSip(s, sipQ)')
  <2>1. bridges[c].sip = e.id /\ Holds(e.id)
    BY <1>7 DEF First, Matches, Holds
  <2>2. CASE Ignore
    BY <1>1, <1>4, <2>1, <2>2, IgnoreSipKept
  <2>3. CASE e.kind = "CallStateUpdate" /\ e.state = "DISCONNECTED" /\ SipEnded(c)
    <3>1. e = CallState(e.id, "DISCONNECTED")
      BY <2>3 DEF SipEvent, CallState
    <3>2. sip[e.id].lap = 1 => ~Live(e.id)
      BY <1>2, <1>3, <3>1 DEF TrueEvent
    <3>3. PICK b : b.sip = NoSip /\ Close(c, b)
      BY <2>3, ContextSip DEF SipEnded
    <3> QED BY <1>1, <1>4, <2>1, <3>2, <3>3, CloseSipKept
  <2>4. CASE DialTg(c)
    BY <1>1, <1>4, <2>1, <2>4, DialTgSip
  <2>5. CASE AnswerTg(c)
    BY <1>1, <1>4, <2>1, <2>5, AnswerTgSip
  <2>6. CASE BridgeFromSip(c)
    BY <1>1, <1>4, <2>1, <2>6, JoinSipKept
  <2> QED BY <1>7, <2>2, <2>3, <2>4, <2>5, <2>6 DEF BridgeOnCallState, BridgeOnCallMedia
<1> QED BY <1>5, <1>6, <1>7 DEF OnSipEvent

-----------------------------------------------------------------------------
(* The callbacks of the PJSIP threads. *)

\* A call is announced.
LEMMA OnIncomingCallSip ==
  ASSUME TypeOK, NEW s \in Slot, NEW x \in Ext, OnIncomingCall(s, x), UNCHANGED bridges,
         NEW q \in Seq(SipEvent), q = sipQ
  PROVE  \A r \in Slot : SlotKept(r, q)
<1> DEFINE e == IncomingCall(s, x)
<1>0. e \in SipEvent /\ e.kind = "IncomingCall" /\ e.id = s
  BY SipEventType DEF IncomingCall
<1>1. /\ sip'[s].lap = sip[s].lap + 1 /\ sip[s].lap \in Nat /\ s \in calls'
      /\ ~Live(s) /\ (s \in calls => ~Live(s)')
      /\ Truthful(s, q) => \A y \in Range(q) : TrueEvent(s, y)'
      /\ \A r \in Slot : r # s => sip'[r] = sip[r] /\ (r \in calls <=> r \in calls')
  BY NewCallQuiet DEF OnIncomingCall, SipState
<1>2. /\ \A r : r # s => Calling(r, sipQ') = Calling(r, q)
      /\ Calling(s, sipQ') = Calling(s, q) \cup {Len(q) + 1}
      /\ \A y \in Range(sipQ') : y \in Range(q) \/ y = e
  <2>1. sipQ' = Append(q, e)
    BY DEF OnIncomingCall
  <2> HIDE DEF e
  <2> QED BY <1>0, <2>1, CallingAppend, RangeAppend
<1>3. e # CallState(s, "DISCONNECTED") /\ e # CallMedia(s, TRUE)
  BY DEF IncomingCall, CallState, CallMedia
<1> HIDE DEF e
<1>4. ASSUME NEW r \in Slot, r # s PROVE SlotKept(r, q)
  <2>1. EntryQuiet(r, q)
    BY <1>0, <1>1, <1>2, <1>4 DEF EntryQuiet, SipQuiet, Live, NewsOf
  <2>2. SameHolders(r)
    BY DEF SameHolders
  <2> QED BY <2>1, <2>2, SlotQuietKept DEF SlotQuiet
<1>5. ASSUME Settled(s, q) PROVE Settled(s, sipQ)'
  <2>1. Entered(s, sipQ)'
    BY <1>1 DEF Entered
  <2>2. Sole(s, sipQ)'
    <3>1. CASE s \in calls
      BY <1>1, <3>1 DEF Sole
    <3>2. CASE s \notin calls
      <4>1. Calling(s, sipQ') = {Len(q) + 1} /\ ~Holds(s)
        BY <1>2, <1>5, <3>2 DEF Settled, Entered
      <4>2. ~Holds(s)' /\ \A c \in DOMAIN bridges' : bridges'[c].sip # s
        BY <4>1 DEF Holds
      <4> QED BY <4>1, <4>2 DEF Sole
    <3> QED BY <3>1, <3>2
  <2>3. sip'[s].lap > 0
    BY <1>1
  <2>4. TrueEvent(s, e)'
    BY <1>3, <2>3 DEF TrueEvent
  <2>5. \A y \in Range(sipQ') : TrueEvent(s, y)'
    BY <1>1, <1>2, <1>5, <2>4 DEF Settled
  <2> QED BY <2>1, <2>2, <2>3, <2>5 DEF Settled, Truthful
<1>6. ServedSip(s, sipQ)'
  BY <1>2 DEF ServedSip
<1>7. SlotKept(s, q)
  BY <1>5, <1>6 DEF SlotKept
<1> QED BY <1>4, <1>7

\* The media of a call comes up or is lost, or the remote side ends the call.
LEMMA CallbackSip ==
  ASSUME TypeOK, NEW s \in Slot, OnCallMediaState(s) \/ OnCallDisconnected(s), UNCHANGED bridges,
         NEW q \in Seq(SipEvent), q = sipQ
  PROVE  \A r \in Slot : SlotKept(r, q)
<1>1. /\ Live(s) /\ UNCHANGED calls
      /\ \A r \in Slot : r # s => sip'[r] = sip[r]
      /\ sip'[s].lap = sip[s].lap /\ (sip[s].media # "none" => sip'[s].media # "none")
  BY DEF OnCallMediaState, OnCallDisconnected, Enter, Live, TypeOK, SipTypeOK, SipCall
<1>2. PICK e \in SipEvent :
        /\ e.kind # "IncomingCall" /\ e.id = s /\ sipQ' = Append(q, e)
        /\ e = CallState(s, "DISCONNECTED") => ~Live(s)'
        /\ e = CallMedia(s, TRUE) => sip'[s].media # "none"
  <2>1. CASE OnCallDisconnected(s)
    <3>1. /\ CallState(s, "DISCONNECTED") \in SipEvent
          /\ CallState(s, "DISCONNECTED").kind = "CallStateUpdate"
          /\ CallState(s, "DISCONNECTED").id = s
          /\ CallState(s, "DISCONNECTED") # CallMedia(s, TRUE)
      BY SipEventType DEF CallState, CallMedia
    <3>2. ~Live(s)' /\ sipQ' = Append(q, CallState(s, "DISCONNECTED"))
      BY <2>1, EnterFields DEF OnCallDisconnected, Live
    <3> QED BY <3>1, <3>2
  <2>2. CASE OnCallMediaState(s)
    <3>1. \A has \in BOOLEAN :
            /\ CallMedia(s, has) \in SipEvent
            /\ CallMedia(s, has).kind = "CallMediaStateUpdate"
            /\ CallMedia(s, has).id = s
            /\ CallMedia(s, has) # CallState(s, "DISCONNECTED")
      BY SipEventType DEF CallState, CallMedia
    <3>2. PICK has \in BOOLEAN : sipQ' = Append(q, CallMedia(s, has))
      BY <2>2 DEF OnCallMediaState
    <3>3. sip'[s].media # "none"
      BY <2>2 DEF OnCallMediaState, TypeOK, SipTypeOK, SipCall
    <3> QED BY <3>1, <3>2, <3>3
  <2> QED BY <2>1, <2>2
<1>3. ASSUME NEW r \in Slot PROVE SlotQuiet(r, q)
  <2>1. NewsOf(r, e)
    BY <1>1, <1>2 DEF NewsOf
  <2>2. /\ Calling(r, sipQ') = Calling(r, q)
        /\ \A x \in Range(sipQ') : x \in Range(q) \/ NewsOf(r, x)
    BY <1>2, <2>1, QueueQuiet
  <2>3. SameHolders(r)
    BY DEF SameHolders
  <2> QED BY <1>1, <2>2, <2>3 DEF SlotQuiet, EntryQuiet, SipQuiet, Live
<1> QED BY <1>3, SlotQuietKept

-----------------------------------------------------------------------------
(* The invariant. *)

\* No slot is in use at the start.
LEMMA SipInitInv ==
  ASSUME Init
  PROVE  SipInv
<1>1. /\ sip = [s \in Slot |-> [st |-> "over", media |-> "none", dtmf |-> {}, lap |-> 0]]
      /\ DOMAIN bridges = {} /\ sipQ = <<>>
  BY DEF Init, SipInit
<1>2. \A s \in Slot : ~Live(s) /\ ~Holds(s)
  BY <1>1 DEF Live, Holds
<1>3. \A s \in Slot : Calling(s, sipQ) = {} /\ Range(sipQ) = {}
  BY <1>1 DEF Calling, Range
<1> QED BY <1>2, <1>3 DEF SipInv, Settled, Entered, Sole, Truthful, ServedSip

\* Every step of the gateway and its environment keeps the SIP legs in order.
LEMMA SipNextInv ==
  ASSUME SipInv, TypeOK, [Next]_vars
  PROVE  SipInv'
<1>0. PICK q \in Seq(SipEvent) : q = sipQ
  BY DEF TypeOK, SipTypeOK
<1>1. CASE PollInternal
  <2>1. mode = "run" /\ q = sipRest
    BY <1>0, <1>1, SipRestQ DEF PollInternal, Poll
  <2>2. ASSUME NEW c \in DOMAIN bridges, Close(c, bridges[c])
        PROVE  \A s \in Slot : SlotKept(s, q)
    <3>1. PICK b : b = bridges[c]
      OBVIOUS
    <3>2. b.sip = NoSip /\ bridges[c].sip # NoSip => FALSE
      BY <3>1
    <3> QED BY <2>1, <2>2, <3>1, <3>2, CloseSipKept
  <2>3. \A s \in Slot : SlotKept(s, q)
    BY <1>1, <2>1, <2>2, IgnoreSipKept DEF PollInternal, OnInternalError
  <2> QED BY <1>0, <2>1, <2>3, SipLoopKept
<1>2. CASE PollTg
  <2>1. mode = "run" /\ q = sipRest
    BY <1>0, <1>2, SipRestQ DEF PollTg, Poll
  <2>2. CASE tgQ # <<>> /\ Head(tgQ).kind = "updateCall"
             /\ OnUpdateCall(Head(tgQ).id, Head(tgQ).state)
    <3>1. Head(tgQ) \in TgEvent
      BY <2>2, HeadType DEF TypeOK
    <3>2. Head(tgQ).id \in TgId
      BY <2>2, <3>1 DEF TgEvent
    <3>3. \A s \in Slot : SlotKept(s, q)
      BY <2>1, <2>2, <3>2, OnUpdateCallSip
    <3> QED BY <1>0, <2>1, <3>3, SipLoopKept
  <2>3. CASE OnNewMessage(Head(tgQ))
    <3>1. PICK m : m = Head(tgQ)
      OBVIOUS
    <3>2. \A s \in Slot : SlotKept(s, q)
      BY <2>1, <2>3, <3>1, DialDtmfSip, IgnoreSipKept DEF OnNewMessage
    <3> QED BY <1>0, <2>1, <3>2, SipLoopKept
  <2>4. CASE Ignore
    BY <1>0, <2>1, <2>4, IgnoreSipKept, SipLoopKept
  <2> QED BY <1>2, <2>2, <2>3, <2>4 DEF PollTg
<1>3. CASE PollSip
  <2>1. mode = "run" /\ phase = "sip" /\ UNCHANGED mode
    BY <1>3 DEF PollSip, Poll
  <2>2. CASE sipQ = <<>> /\ Ignore
    <3>1. q = sipRest
      BY <1>0, <2>2, SipRestQ
    <3> QED BY <1>0, <2>1, <2>2, <3>1, IgnoreSipKept, SipLoopKept
  <2>3. CASE sipQ # <<>> /\ OnSipEvent(Head(sipQ))
    <3>1. PICK e \in SipEvent : e = Head(sipQ)
      BY <2>3, HeadType DEF TypeOK, SipTypeOK
    <3>2. \A s \in Slot : Settled(s, sipQ)
      BY DEF SipInv
    <3>3. \A s \in Slot : Settled(s, sipQ)' /\ (ServedSip(s, sipQ) => ServedSip(s, sipQ)')
      BY <2>1, <2>3, <3>1, <3>2, OnSipEventSip
    <3> QED BY <2>1, <3>3 DEF SipInv
  <2> QED BY <1>3, <2>2, <2>3 DEF PollSip
<1>4. CASE Abort
  <2>1. mode' = "aborted" /\ phase = "tg" /\ Ignore
    BY <1>4 DEF Abort, Poll, LookupAborts, DtmfAborts
  <2>2. \A s \in Slot : SlotKept(s, q)
    BY <1>0, <2>1, SipRestQ, IgnoreSipKept
  <2> QED BY <1>0, <2>1, <2>2 DEF SipInv, SlotKept
<1>5. CASE Sip
  <2>1. mode = "run" /\ UNCHANGED bridges /\ PjsipThread
    BY <1>5 DEF Sip
  <2>2. \A r \in Slot : SlotKept(r, q)
    BY <1>0, <2>1, OnIncomingCallSip, CallbackSip DEF PjsipThread
  <2> QED BY <1>0, <2>1, <2>2, SipLoopKept
<1>6. CASE Stop \/ Clock \/ TdLib \/ UNCHANGED vars
  <2>1. UNCHANGED <<sip, calls, sipQ, bridges>> /\ (mode' = "run" => mode = "run")
    BY <1>6 DEF Stop, Clock, TdLib, vars
  <2> QED BY <2>1
    DEF SipInv, Settled, Entered, Sole, Truthful, TrueEvent, ServedSip, Live, Holds
<1> QED BY <1>1, <1>2, <1>3, <1>4, <1>5, <1>6 DEF Next, Loop

\* The inductive invariant of the SIP legs.
THEOREM SipInvariant == Spec => []SipInv
BY SipInitInv, SipNextInv, TypeCorrect, PTL DEF Spec

\* A live bridge never names a SIP call without an entry in `calls`, however
\* often PJSIP uses an id again.
THEOREM EntryKept == Spec => []BridgeHasEntry
<1>1. TypeOK /\ SipInv => BridgeHasEntry
  <2> SUFFICES ASSUME TypeOK, SipInv, NEW c \in DOMAIN bridges, bridges[c].sip # NoSip
               PROVE  bridges[c].sip \in calls
    BY DEF BridgeHasEntry
  <2>1. bridges[c].sip \in Slot
    BY BridgeType DEF TypeOK, Context
  <2> QED BY <2>1 DEF SipInv, Settled, Entered, Holds
<1> QED BY <1>1, SipInvariant, TypeCorrect, PTL

\* The first SIP call of a slot is served by a bridge or announced as long as it
\* lives and the gateway runs.
THEOREM SipCallServed == Spec => []NoOrphanSip
<1>1. TypeOK /\ SipInv => NoOrphanSip
  <2> SUFFICES ASSUME TypeOK, SipInv, mode = "run", NEW s \in Slot, Live(s), sip[s].lap = 1,
                      Matches("sip", s) = {}
               PROVE  \E e \in Ext : IncomingCall(s, e) \in Range(sipQ)
    BY DEF NoOrphanSip
  <2>1. ~Holds(s)
    BY DEF Holds, Matches
  <2>2. PICK i \in DOMAIN sipQ : sipQ[i].kind = "IncomingCall" /\ sipQ[i].id = s
    BY <2>1 DEF SipInv, ServedSip, Calling
  <2>3. sipQ[i] \in SipEvent /\ sipQ[i] \in Range(sipQ)
    BY DEF TypeOK, SipTypeOK, Range
  <2>4. PICK e \in Ext : sipQ[i] = IncomingCall(s, e)
    BY <2>2, <2>3 DEF SipEvent, IncomingCall
  <2> QED BY <2>3, <2>4
<1> QED BY <1>1, SipInvariant, TypeCorrect, PTL
=============================================================================
