---------------------------- MODULE GatewayAnswers ----------------------------
(***************************************************************************)
(* What the bridges promise to the two parties, for every instance and     *)
(* every reuse of PJSIP ids: nobody is answered too early, a failed step   *)
(* is always reported, and digits reach the peer's call only.              *)
(***************************************************************************)
EXTENDS GatewayLegs

\* States of a bridge whose SIP caller is not answered yet.
Unanswered == {"sip_wait_confirm", "sip_wait_tg"}

\* The legs of a bridge are of its direction: the gateway made the Telegram
\* call of a SIP caller's bridge, and nothing but its bridge discards it.
Sided(b) ==
  /\ b.st \in FromSip => b.sip # NoSip
  /\ b.tg # NoTg =>
       /\ tg[b.tg].out <=> b.st \in FromSip
       /\ b.st \in FromSip => tg[b.tg].st \in {"pending", "received", "ready", "ended"}

\* The SIP caller rings until the callee answered.
RingsFirst(b) ==
  /\ b.st \in Unanswered => sip[b.sip].st \in {"invited", "early", "over"}
  /\ b.st \in FromSip /\ sip[b.sip].st = "confirmed" =>
       b.tg # NoTg /\ tg[b.tg].st \in {"ready", "ended"}

\* The Telegram caller waits until the SIP call had media.
MediaFirst(b) ==
  /\ b.st \in FromTg /\ b.tg # NoTg /\ b.sip # NoSip
  /\ tg[b.tg].st \in {"exchange", "ready"} /\ sip[b.sip].lap = 1
  => sip[b.sip].media # "none"

\* No digits before the audio is joined, then those of the bridge's user.
PeerOnly(b) ==
  b.sip # NoSip =>
    /\ b.st \notin WaitDtmf => sip[b.sip].dtmf = {}
    /\ sip[b.sip].dtmf \subseteq {b.user}

\* The gateway calls a SIP party only for a Telegram caller, and waits for audio only
\* once the Telegram side answered.
Met(b) ==
  /\ b.sip # NoSip /\ sip[b.sip].st = "calling" => b.st \in FromTg
  /\ b.st \in {"sip_wait_media"} \cup WaitDtmf =>
       b.tg # NoTg /\ tg[b.tg].st \in {"ready", "closing", "ended"}

\* The bridge misses nothing of what its state stands for.
Whole(b) ==
  /\ b.sip # NoSip
  /\ b.st # "sip_wait_confirm" => b.tg # NoTg
  /\ b.st = "tg_wait_tg" => tg[b.tg].st \notin {"pending", "received"}
  /\ b.st = "sip_wait_confirm" => sip[b.sip].st # "invited"
  /\ b.st \in {"sip_wait_media", "sip_wait_dtmf"} => sip[b.sip].st \notin {"invited", "early"}
  /\ b.st \in WaitDtmf => b.audio

BridgeOK(c) ==
  LET b == bridges[c]
  IN  /\ Sided(b) /\ RingsFirst(b) /\ MediaFirst(b) /\ PeerOnly(b) /\ Met(b)
      /\ ErrorFor(c) \/ Whole(b)

\* An accepted Telegram call has its bridge, also when the process is ending.
ExchangeServed ==
  \A id \in TgId :
    ~tg[id].out /\ tg[id].st \in {"exchange", "ready"} =>
      \E c \in DOMAIN bridges : bridges[c].tg = id

\* A Ready in the queue is true, or was.
ReadyKnown ==
  \A e \in Range(tgQ) :
    e.kind = "updateCall" /\ e.state = "Ready" => tg[e.id].st \in {"ready", "closing", "ended"}

\* A call that is announced has not been answered and got no digits.
Fresh(s, q) == Calling(s, q) # {} => sip[s].st \in {"invited", "over"} /\ sip[s].dtmf = {}

Orderly ==
  /\ \A c \in DOMAIN bridges : BridgeOK(c)
  /\ ExchangeServed
  /\ \A s \in Slot : Fresh(s, sipQ)

AnswersInv == Orderly /\ ReadyKnown

\* What the other invariants say before and after a step.
Prior == TypeOK /\ LegsInv /\ SipInv

-----------------------------------------------------------------------------
(* Frames: what a step may do to the legs of the bridges it does not touch. *)

SlotSteady(s) ==
  /\ sip'[s].st \in {sip[s].st, "over"}
  /\ sip'[s].dtmf \subseteq sip[s].dtmf
  /\ sip'[s].lap = 1 /\ sip[s].lap > 0 =>
       sip[s].lap = 1 /\ (sip[s].media # "none" => sip'[s].media # "none")

CallSteady(id) ==
  /\ tg'[id].out = tg[id].out
  /\ \/ tg'[id].st \in {tg[id].st, "ended"}
     \/ tg[id].st = "pending" /\ tg'[id].st = "received"
     \/ tg[id].out /\ tg[id].st \in {"pending", "received"} /\ tg'[id].st = "ready"
     \/ ~tg[id].out /\ tg[id].st = "exchange" /\ tg'[id].st = "ready"

\* The step changes no bridge but c, and drops no error of another one.
BridgeFrame(c) ==
  \A d \in DOMAIN bridges' :
    d # c => /\ d \in DOMAIN bridges /\ bridges'[d] = bridges[d]
             /\ ErrorFor(d) => ErrorFor(d)'

\* It changes only the SIP call that bridge c has afterwards, or one that it
\* announces.
SipFrame(c) ==
  \A s \in Slot :
    \/ /\ SlotSteady(s) \/ (Live(s)' /\ c \in DOMAIN bridges' /\ bridges'[c].sip = s)
       /\ Calling(s, sipQ') # {} => Calling(s, sipQ) # {}
    \/ Fresh(s, sipQ)' /\ (SlotSteady(s) \/ ~Holds(s)')

\* And only the Telegram call of c, or one that has no bridge and is not up.
TgFrame(c) ==
  \A id \in TgId :
    \/ CallSteady(id)
    \/ c \in DOMAIN bridges' /\ bridges'[c].tg = id
    \/ /\ tg'[id].st \notin {"exchange", "ready"}
       /\ \A d \in DOMAIN bridges' : bridges'[d].tg # id

\* A Telegram call that is up does not lose its bridge.
LegsStay ==
  \A d \in DOMAIN bridges :
    bridges[d].tg # NoTg =>
      \/ d \in DOMAIN bridges' /\ bridges'[d].tg = bridges[d].tg
      \/ tg'[bridges[d].tg].st \notin {"exchange", "ready"}

Frame(c) == BridgeFrame(c) /\ SipFrame(c) /\ TgFrame(c) /\ LegsStay

\* A bridge nobody touches stays in order.
LEMMA SteadyKept ==
  ASSUME TypeOK, NEW c \in DOMAIN bridges, c \in DOMAIN bridges', bridges'[c] = bridges[c],
         bridges[c].sip # NoSip => SlotSteady(bridges[c].sip) /\ sip[bridges[c].sip].lap > 0,
         bridges[c].tg # NoTg => CallSteady(bridges[c].tg),
         ErrorFor(c) => ErrorFor(c)', BridgeOK(c)
  PROVE  BridgeOK(c)'
<1>1. PICK b \in Context : b = bridges[c] /\ b = bridges'[c]
  BY BridgeType DEF TypeOK
<1>2. Sided(b)'
  BY <1>1 DEF BridgeOK, Sided, CallSteady
<1>3. RingsFirst(b)'
  BY <1>1 DEF BridgeOK, RingsFirst, Sided, SlotSteady, CallSteady, Unanswered, FromSip
<1>4. MediaFirst(b)'
  BY <1>1 DEF BridgeOK, Sided, MediaFirst, SlotSteady, CallSteady, FromTg, FromSip
<1>5. PeerOnly(b)'
  BY <1>1 DEF BridgeOK, PeerOnly, SlotSteady
<1>6. Whole(b) => Whole(b)'
  BY <1>1 DEF Whole, SlotSteady, CallSteady
<1>7. Met(b)'
  BY <1>1 DEF BridgeOK, Met, SlotSteady, CallSteady
<1> QED BY <1>1, <1>2, <1>3, <1>4, <1>5, <1>6, <1>7 DEF BridgeOK

\* A step with a frame keeps the invariant if it leaves its own bridge in order.
LEMMA FrameKept ==
  ASSUME Prior, Prior', NEW c, Frame(c), AnswersInv,
         c \in DOMAIN bridges' => BridgeOK(c)'
  PROVE  Orderly'
<1>1. ASSUME NEW d \in DOMAIN bridges', d # c PROVE BridgeOK(d)'
  <2>1. d \in DOMAIN bridges /\ bridges'[d] = bridges[d] /\ (ErrorFor(d) => ErrorFor(d)')
    BY <1>1 DEF Frame, BridgeFrame
  <2>2. bridges[d].sip \in Slot \cup {NoSip} /\ bridges[d].tg \in TgId \cup {NoTg}
    BY <2>1, BridgeType DEF Prior, TypeOK, Context
  <2>3. ASSUME NEW s \in Slot, bridges[d].sip = s
        PROVE  SlotSteady(s) /\ sip[s].lap > 0
    <3>1. sip[s].lap > 0
      BY <2>1, <2>3 DEF Prior, SipInv, Settled, Truthful, Holds
    <3>2. ASSUME Live(s)', c \in DOMAIN bridges', bridges'[c].sip = s PROVE FALSE
      <4>1. Sole(s, sipQ)'
        BY DEF Prior, SipInv, Settled
      <4> QED BY <1>1, <2>1, <2>3, <3>2, <4>1 DEF Sole
    <3>3. Holds(s)'
      BY <2>1, <2>3 DEF Holds
    <3> QED BY <3>1, <3>2, <3>3 DEF Frame, SipFrame
  <2>4. ASSUME NEW id \in TgId, bridges[d].tg = id
        PROVE  CallSteady(id)
    <3>1. ASSUME c \in DOMAIN bridges', bridges'[c].tg = id PROVE FALSE
      <4>1. OneBridgePerTgCall'
        BY DEF Prior, LegsInv, LegInv
      <4>2. id # NoTg
        BY NoneAssumption
      <4> QED BY <1>1, <2>1, <2>4, <3>1, <4>1, <4>2 DEF OneBridgePerTgCall
    <3> QED BY <1>1, <2>1, <2>4, <3>1 DEF Frame, TgFrame
  <2>5. BridgeOK(d)
    BY <2>1 DEF AnswersInv, Orderly
  <2> QED BY <2>1, <2>2, <2>3, <2>4, <2>5, SteadyKept DEF Prior
<1>2. ASSUME NEW id \in TgId, ~tg'[id].out, tg'[id].st \in {"exchange", "ready"}
      PROVE  \E d \in DOMAIN bridges' : bridges'[d].tg = id
  <2>1. CASE c \in DOMAIN bridges' /\ bridges'[c].tg = id
    BY <2>1
  <2>2. CASE CallSteady(id)
    <3>1. ~tg[id].out /\ tg[id].st \in {"exchange", "ready"}
      BY <1>2, <2>2 DEF CallSteady
    <3>2. PICK d \in DOMAIN bridges : bridges[d].tg = id
      BY <3>1 DEF AnswersInv, Orderly, ExchangeServed
    <3> QED BY <1>2, <3>2, NoneAssumption DEF Frame, LegsStay
  <2> QED BY <1>2, <2>1, <2>2 DEF Frame, TgFrame
<1>3. ASSUME NEW s \in Slot, Calling(s, sipQ') # {}, ~Fresh(s, sipQ)'
      PROVE  FALSE
  <2>1. ASSUME Live(s)', c \in DOMAIN bridges', bridges'[c].sip = s PROVE FALSE
    <3>1. Sole(s, sipQ)' /\ Holds(s)'
      BY <2>1 DEF Prior, SipInv, Settled, Holds
    <3> QED BY <1>3, <2>1, <3>1 DEF Sole
  <2>2. SlotSteady(s) /\ Fresh(s, sipQ) /\ Calling(s, sipQ) # {}
    BY <1>3, <2>1 DEF Frame, SipFrame, AnswersInv, Orderly
  <2> QED BY <1>3, <2>2 DEF Fresh, SlotSteady
<1>4. ExchangeServed'
  BY <1>2 DEF ExchangeServed
<1>5. \A s \in Slot : Fresh(s, sipQ)'
  BY <1>3 DEF Fresh
<1> QED BY <1>1, <1>4, <1>5 DEF Orderly

-----------------------------------------------------------------------------
(* The errors in the queue. *)

\* Errors stay, and one that a handler raises is there.
LEMMA ErrorsStay ==
  ASSUME TypeOK, NoError \/ \E x \in Nat : Raise(x)
  PROVE  /\ \A d \in Range(intRest) : ErrorFor(d)'
         /\ \A x \in Nat : Raise(x) => ErrorFor(x)'
<1>1. PICK q \in Seq(Nat) : q = intRest
  BY RestsType
<1>2. \A x \in Nat : /\ x \in Range(Append(q, x))
                     /\ \A d \in Range(q) : d \in Range(Append(q, x))
  BY RangeAppend
<1>3. CASE NoError
  <2>1. \A d \in Range(intRest) : ErrorFor(d)'
    BY <1>3 DEF NoError, ErrorFor
  <2>2. \A x \in Nat : Raise(x) => ErrorFor(x)'
    BY <1>1, <1>2 DEF Raise, ErrorFor
  <2> QED BY <2>1, <2>2
<1>4. ASSUME NEW x \in Nat, Raise(x)
      PROVE  \A d \in Range(intRest) : ErrorFor(d)'
  BY <1>1, <1>2, <1>4 DEF Raise, ErrorFor
<1>5. \A x \in Nat : Raise(x) => ErrorFor(x)'
  BY <1>1, <1>2 DEF Raise, ErrorFor
<1> QED BY <1>3, <1>4, <1>5

\* Outside of PollInternal no error is taken.
LEMMA ErrorsAll ==
  ASSUME TypeOK, intRest = intQ, NoError \/ \E x \in Nat : Raise(x)
  PROVE  \A d : ErrorFor(d) => ErrorFor(d)'
BY ErrorsStay DEF ErrorFor

\* The bridges' side of a frame.
LEMMA PutFrame ==
  ASSUME TypeOK, intRest = intQ, NEW c \in DOMAIN bridges, NEW b, Put(c, b), NoError \/ Raise(c)
  PROVE  /\ BridgeFrame(c)
         /\ c \in DOMAIN bridges' /\ bridges'[c] = b /\ DOMAIN bridges' = DOMAIN bridges
         /\ ErrorFor(c) => ErrorFor(c)'
         /\ Raise(c) => ErrorFor(c)'
         /\ b.tg = bridges[c].tg \/ bridges[c].tg = NoTg => LegsStay
<1>1. c \in Nat
  BY BridgeType DEF TypeOK
<1>2. /\ \A d : ErrorFor(d) => ErrorFor(d)'
      /\ Raise(c) => ErrorFor(c)'
  BY <1>1, ErrorsAll, ErrorsStay
<1>3. /\ DOMAIN bridges' = DOMAIN bridges /\ bridges'[c] = b
      /\ \A d \in DOMAIN bridges : d # c => bridges'[d] = bridges[d]
  BY DEF Put
<1>4. BridgeFrame(c)
  BY <1>2, <1>3 DEF BridgeFrame
<1>5. b.tg = bridges[c].tg \/ bridges[c].tg = NoTg => LegsStay
  BY <1>3 DEF LegsStay
<1> QED BY <1>2, <1>3, <1>4, <1>5

\* A new bridge comes with its own error and keeps those of the others.
LEMMA OpenFrame ==
  ASSUME TypeOK, intRest = intQ, NEW n \in Nat, n = NewCtx, NEW b, Open(b),
         NoError \/ Raise(n)
  PROVE  /\ BridgeFrame(n)
         /\ n \in DOMAIN bridges' /\ bridges'[n] = b
         /\ Raise(n) => ErrorFor(n)'
         /\ LegsStay
<1>1. n \notin DOMAIN bridges
  BY DEF TypeOK, BridgesTypeOK, NewCtx
<1>2. /\ \A d : ErrorFor(d) => ErrorFor(d)'
      /\ Raise(n) => ErrorFor(n)'
  BY ErrorsAll, ErrorsStay
<1>3. /\ DOMAIN bridges' = DOMAIN bridges \cup {n} /\ bridges'[n] = b
      /\ \A d \in DOMAIN bridges : bridges'[d] = bridges[d]
  BY <1>1 DEF Open
<1>4. BridgeFrame(n)
  BY <1>2, <1>3 DEF BridgeFrame
<1>5. LegsStay
  BY <1>3 DEF LegsStay
<1> QED BY <1>2, <1>3, <1>4, <1>5

\* The SIP client's side.
LEMMA RestCalling ==
  ASSUME TypeOK, NEW s
  PROVE  Calling(s, sipRest) # {} => Calling(s, sipQ) # {}
<1>1. PICK q \in Seq(SipEvent) : q = sipQ
  BY DEF TypeOK, SipTypeOK
<1>2. CASE sipRest = sipQ
  BY <1>2
<1>3. CASE q # <<>> /\ sipRest = Tail(q)
  BY <1>1, <1>3, CallingTail
<1> QED BY <1>1, <1>2, <1>3 DEF sipRest, Rest

\* A step that leaves the SIP client alone has every frame.
LEMMA SipSameFrame ==
  ASSUME TypeOK, SipSame, NEW c
  PROVE  SipFrame(c)
<1>1. UNCHANGED sip /\ sipQ' = sipRest
  BY DEF SipSame
<1> QED BY <1>1, RestCalling DEF SipFrame, SlotSteady

\* Hangup only ends a call.
LEMMA HangupFrame ==
  ASSUME TypeOK, NEW s \in Slot, Hangup(s, sipRest), NEW c
  PROVE  SipFrame(c)
<1>1. PICK q \in Seq(SipEvent) : q = sipRest
  BY RestsType
<1>2. \A r \in Slot : Calling(r, sipQ') = Calling(r, q)
  BY <1>1, HangupQuiet DEF SipQuiet
<1>3. \A r \in Slot : SlotSteady(r)
  <2>1. CASE sip' = Enter(s, "over")
    BY <2>1, EnterFields DEF SlotSteady
  <2>2. CASE UNCHANGED sip
    BY <2>2 DEF SlotSteady
  <2> QED BY <2>1, <2>2 DEF Hangup
<1> QED BY <1>1, <1>2, <1>3, RestCalling DEF SipFrame

\* An answer only changes the call of the bridge that answers.
LEMMA AnswerFrame ==
  ASSUME TypeOK, NEW s \in Slot, AnswerRinging(s, sipRest) \/ AnswerOk(s, sipRest),
         NEW c \in DOMAIN bridges', bridges'[c].sip = s
  PROVE  /\ SipFrame(c)
         /\ sip'[s].dtmf = sip[s].dtmf /\ sip'[s].lap = sip[s].lap
         /\ AnswerRinging(s, sipRest) => sip'[s].st = "early"
         /\ AnswerOk(s, sipRest) => sip'[s].st = "confirmed"
<1>1. PICK q \in Seq(SipEvent) : q = sipRest
  BY RestsType
<1>2. \A r \in Slot : Calling(r, sipQ') = Calling(r, q)
  BY <1>1, AnswerQuiet DEF EntryQuiet, SipQuiet
<1>3. /\ sip'[s].lap = sip[s].lap /\ sip'[s].dtmf = sip[s].dtmf
      /\ \A r \in Slot : r # s => sip'[r] = sip[r]
      /\ AnswerRinging(s, sipRest) => sip'[s].st = "early"
      /\ AnswerOk(s, sipRest) => sip'[s].st = "confirmed"
      /\ sip'[s].st # "over"
  BY EnterFields DEF AnswerRinging, AnswerOk
<1>4. \A r \in Slot : SlotSteady(r) \/ r = s
  BY <1>3 DEF SlotSteady
<1>5. Live(s)'
  BY <1>3 DEF Live
<1> QED BY <1>1, <1>2, <1>3, <1>4, <1>5, RestCalling DEF SipFrame

\* Dial only changes the slot it takes, and the new call has no digits.
LEMMA DialFrame ==
  ASSUME TypeOK, NEW s \in Slot, Dial(s, sipRest), NEW c \in DOMAIN bridges', bridges'[c].sip = s
  PROVE  SipFrame(c) /\ sip'[s].dtmf = {}
<1>1. PICK q \in Seq(SipEvent) : q = sipRest
  BY RestsType
<1>2. /\ sip'[s].lap = sip[s].lap + 1 /\ sip[s].lap \in Nat
      /\ \A r \in Slot : r # s => sip'[r] = sip[r]
  BY <1>1, NewCallQuiet DEF Dial, SipState
<1>3. /\ sip'[s].dtmf = {}
      /\ sip'[s].st = IF s \in calls THEN "over" ELSE "calling"
  BY DEF Dial, NewCall, TypeOK, SipTypeOK
<1>4. \A r \in Slot : r # s => SlotSteady(r)
  BY <1>2 DEF SlotSteady
<1>5. CASE s \in calls
  <2>1. ~(sip'[s].lap = 1 /\ sip[s].lap > 0)
    BY <1>2
  <2>2. SlotSteady(s)
    BY <1>3, <1>5, <2>1 DEF SlotSteady
  <2> QED BY <1>3, <1>4, <2>2, RestCalling DEF SipFrame, Dial
<1>6. CASE s \notin calls
  <2>1. Live(s)'
    BY <1>3, <1>6 DEF Live
  <2> QED BY <1>3, <1>4, <2>1, RestCalling DEF SipFrame, Dial
<1> QED BY <1>5, <1>6

\* The Telegram side.
LEMMA TgSameFrame ==
  ASSUME UNCHANGED tg, NEW c
  PROVE  TgFrame(c)
BY DEF TgFrame, CallSteady

\* discardCall only closes a call that has no bridge any more.
LEMMA DiscardFrame ==
  ASSUME TypeOK, NEW i \in TgId \cup {NoTg}, Discard(i), NEW c,
         \A d \in DOMAIN bridges' : i # NoTg => bridges'[d].tg # i
  PROVE  /\ TgFrame(c)
         /\ i # NoTg => tg'[i].st \notin {"exchange", "ready"}
<1>1. CASE UNCHANGED tg /\ (i # NoTg => ~TgLive(i))
  BY <1>1, TgSameFrame DEF TgLive
<1>2. CASE i \in TgId /\ TgLive(i) /\ tg' = [tg EXCEPT ![i].st = "closing"]
  <2>1. /\ tg'[i].st = "closing"
        /\ \A id \in TgId : id # i => tg'[id] = tg[id]
    BY <1>2 DEF TypeOK, TgCall
  <2>2. \A id \in TgId : id # i => CallSteady(id)
    BY <2>1 DEF CallSteady
  <2>3. \A d \in DOMAIN bridges' : bridges'[d].tg # i
    BY <1>2, NoneAssumption
  <2> QED BY <2>1, <2>2, <2>3 DEF TgFrame
<1> QED BY <1>1, <1>2, NoneAssumption DEF Discard

-----------------------------------------------------------------------------
(* Steps that leave every bridge alone, and those that erase one. *)

\* No bridge changes, and no error is lost.
LEMMA UntouchedKept ==
  ASSUME Prior, Prior', AnswersInv, UNCHANGED bridges,
         \A d \in DOMAIN bridges : ErrorFor(d) => ErrorFor(d)',
         \A c : SipFrame(c) /\ TgFrame(c)
  PROVE  Orderly'
<1>1. PICK n \in Nat : n \notin DOMAIN bridges
  <2>1. NewCtx \in Nat /\ NewCtx \notin DOMAIN bridges
    BY DEF Prior, TypeOK, BridgesTypeOK, NewCtx
  <2> QED BY <2>1
<1>2. BridgeFrame(n) /\ LegsStay
  BY DEF BridgeFrame, LegsStay
<1> QED BY <1>1, <1>2, FrameKept DEF Frame

\* An event that is dropped disturbs no bridge.
LEMMA IgnoreKept ==
  ASSUME Prior, Prior', AnswersInv, Ignore,
         \A d \in DOMAIN bridges : ErrorFor(d) => d \in Range(intRest)
  PROVE  Orderly'
<1>1. \A d \in DOMAIN bridges : ErrorFor(d) => ErrorFor(d)'
  BY DEF Ignore, NoError, ErrorFor
<1> QED BY <1>1, UntouchedKept, SipSameFrame, TgSameFrame DEF Ignore, Prior

\* The bridge goes, and its Telegram call is discarded or over.
LEMMA CloseServed ==
  ASSUME Prior, Prior', AnswersInv, NEW c \in DOMAIN bridges, NEW b, Close(c, b),
         b.tg \in {bridges[c].tg, NoTg}, b.sip \in {bridges[c].sip, NoSip},
         b.tg = NoTg => bridges[c].tg = NoTg \/ tg[bridges[c].tg].st = "ended",
         \A d \in DOMAIN bridges : d # c /\ ErrorFor(d) => d \in Range(intRest)
  PROVE  Orderly'
<1>1. /\ \A d : d \in DOMAIN bridges' <=> d \in DOMAIN bridges /\ d # c
      /\ \A d \in DOMAIN bridges' : bridges'[d] = bridges[d]
  BY CloseHolders
<1>2. bridges[c].sip \in Slot \cup {NoSip} /\ bridges[c].tg \in TgId \cup {NoTg}
  BY BridgeType DEF Prior, TypeOK, Context
<1>3. BridgeFrame(c)
  <2>1. \A d \in DOMAIN bridges : d # c /\ ErrorFor(d) => ErrorFor(d)'
    BY DEF Close, NoError, ErrorFor
  <2> QED BY <1>1, <2>1 DEF BridgeFrame
<1>4. SipFrame(c)
  <2>1. CASE b.sip = NoSip
    BY <2>1, SipSameFrame DEF Close, CleanUp, Prior
  <2>2. CASE b.sip # NoSip
    <3>1. PICK s \in Slot : s = b.sip
      BY <1>2, <2>2
    <3>2. Hangup(s, sipRest)
      BY <2>2, <3>1 DEF Close, CleanUp
    <3> QED BY <3>2, HangupFrame DEF Prior
  <2> QED BY <2>1, <2>2
<1>5. PICK i \in TgId \cup {NoTg} : i = b.tg
  BY <1>2
<1>6. Discard(i)
  BY <1>5 DEF Close, CleanUp
<1>7. \A d \in DOMAIN bridges' : i # NoTg => bridges'[d].tg # i
  BY <1>1, <1>5 DEF Prior, LegsInv, LegInv, OneBridgePerTgCall
<1>8. TgFrame(c) /\ (i # NoTg => tg'[i].st \notin {"exchange", "ready"})
  BY <1>6, <1>7, DiscardFrame DEF Prior
<1>9. LegsStay
  <2>1. i = NoTg => UNCHANGED tg
    BY <1>6 DEF Discard
  <2> QED BY <1>1, <1>5, <1>8, <2>1 DEF LegsStay
<1> QED BY <1>1, <1>3, <1>4, <1>8, <1>9, FrameKept DEF Frame

\* The events of the end of a leg, and errors.
LEMMA TgEndedKept ==
  ASSUME Prior, Prior', AnswersInv, intRest = intQ, NEW c \in DOMAIN bridges, TgEnded(c),
         bridges[c].tg # NoTg => tg[bridges[c].tg].st = "ended"
  PROVE  Orderly'
<1>1. PICK b : /\ Close(c, b) /\ b.sip = bridges[c].sip /\ b.tg = NoTg
  BY BridgeType DEF TgEnded, Prior, TypeOK, Context
<1>2. \A d \in DOMAIN bridges : ErrorFor(d) => d \in Range(intRest)
  BY DEF ErrorFor
<1> QED BY <1>1, <1>2, CloseServed

\* The SIP side is over: the Telegram call is discarded.
LEMMA SipEndedKept ==
  ASSUME Prior, Prior', AnswersInv, intRest = intQ, NEW c \in DOMAIN bridges, SipEnded(c)
  PROVE  Orderly'
<1>1. PICK b : /\ Close(c, b) /\ b.sip = NoSip /\ b.tg = bridges[c].tg
  BY BridgeType DEF SipEnded, Prior, TypeOK, Context
<1>2. \A d \in DOMAIN bridges : ErrorFor(d) => d \in Range(intRest)
  BY DEF ErrorFor
<1> QED BY <1>1, <1>2, CloseServed

\* The error that is taken is that of the bridge that goes.
LEMMA PollInternalKept ==
  ASSUME Prior, Prior', AnswersInv, PollInternal
  PROVE  Orderly'
<1>1. CASE intQ = <<>> /\ Ignore
  BY <1>1, IgnoreKept DEF intRest, Rest, ErrorFor
<1>2. CASE intQ # <<>> /\ OnInternalError(Head(intQ))
  <2>1. PICK q \in Seq(Nat) : q = intQ
    BY DEF Prior, TypeOK
  <2>2. PICK c \in Nat : c = Head(q)
    BY <1>2, <2>1
  <2>3. intRest = Tail(q)
    BY <1>2, <2>1 DEF intRest, Rest, PollInternal, Poll
  <2>4. \A d : d # c /\ ErrorFor(d) => d \in Range(intRest)
    BY <1>2, <2>1, <2>2, <2>3, RangeTail DEF ErrorFor
  <2>5. CASE c \notin DOMAIN bridges
    BY <1>2, <2>1, <2>2, <2>4, <2>5, IgnoreKept DEF OnInternalError
  <2>6. CASE c \in DOMAIN bridges
    <3>1. PICK b : b = bridges[c]
      OBVIOUS
    <3>2. Close(c, b)
      BY <1>2, <2>1, <2>2, <2>6, <3>1 DEF OnInternalError
    <3> QED BY <2>4, <2>6, <3>1, <3>2, CloseServed
  <2> QED BY <2>5, <2>6
<1> QED BY <1>1, <1>2 DEF PollInternal

-----------------------------------------------------------------------------
(* Updates of Telegram calls and messages. *)

\* The context that init hands to the first action.
LEMMA NewFields ==
  ASSUME NEW st
  PROVE  /\ NewContext(st).st = st /\ NewContext(st).sip = NoSip /\ NewContext(st).tg = NoTg
         /\ \A id, u : LET b == [NewContext(st) EXCEPT !.tg = id, !.user = u]
                       IN  /\ b.st = st /\ b.sip = NoSip /\ b.tg = id /\ b.user = u
                           /\ \A s : LET d == [b EXCEPT !.sip = s]
                                     IN  d.st = st /\ d.sip = s /\ d.tg = id /\ d.user = u
BY DEF NewContext

\* A bridge of its caller: DialSip may have failed, which is reported.
LEMMA StartFromTgOK ==
  ASSUME Prior, NEW n \in Nat, n = NewCtx, intRest = intQ, AnswersInv,
         NEW id \in TgId, StartFromTg(id), Matches("tg", id) = {}, ~tg[id].out
  PROVE  Frame(n) /\ BridgeOK(n)'
<1> DEFINE b == [NewContext("tg_wait_media") EXCEPT !.tg = id, !.user = tg[id].user]
<1>1. /\ b.st = "tg_wait_media" /\ b.sip = NoSip /\ b.tg = id
      /\ \A s : [b EXCEPT !.sip = s].st = "tg_wait_media" /\ [b EXCEPT !.sip = s].sip = s
                  /\ [b EXCEPT !.sip = s].tg = id
  BY NewFields
<1>2. UNCHANGED tg /\ NoTg # id /\ TypeOK
  BY NoneAssumption DEF StartFromTg, Prior
<1>3. tg[id].st \notin {"exchange", "ready"}
  BY DEF Matches, AnswersInv, Orderly, ExchangeServed
<1>4. ASSUME NEW s \in Slot, Dial(s, sipRest), Open([b EXCEPT !.sip = s]), NoError
      PROVE  Frame(n) /\ BridgeOK(n)'
  <2>1. PICK d : /\ d.st = "tg_wait_media" /\ d.sip = s /\ d.tg = id /\ Open(d)
    BY <1>1, <1>4
  <2>2. /\ BridgeFrame(n) /\ LegsStay
        /\ n \in DOMAIN bridges' /\ bridges'[n] = d
    BY <1>2, <1>4, <2>1, OpenFrame
  <2>3. SipFrame(n) /\ sip'[s].dtmf = {}
    BY <1>2, <1>4, <2>1, <2>2, DialFrame
  <2>4. TgFrame(n)
    BY <1>2, TgSameFrame
  <2>5. /\ Sided(d)' /\ RingsFirst(d)' /\ MediaFirst(d)' /\ PeerOnly(d)' /\ Met(d)' /\ Whole(d)'
    BY <1>2, <1>3, <2>1, <2>3, NoSipAssumption
    DEF Sided, RingsFirst, MediaFirst, PeerOnly, Met, Whole, FromSip, FromTg, Unanswered, WaitDtmf
  <2> QED BY <2>2, <2>3, <2>4, <2>5 DEF Frame, BridgeOK
<1>5. CASE Open(b) /\ SipSame /\ Raise(NewCtx)
  <2>1. PICK d : /\ d.st = "tg_wait_media" /\ d.sip = NoSip /\ d.tg = id /\ Open(d)
    BY <1>1, <1>5
  <2>2. Raise(n)
    BY <1>5 DEF Raise
  <2>3. /\ BridgeFrame(n) /\ LegsStay /\ ErrorFor(n)'
        /\ n \in DOMAIN bridges' /\ bridges'[n] = d
    BY <1>2, <2>1, <2>2, OpenFrame
  <2>4. SipFrame(n) /\ TgFrame(n)
    BY <1>2, <1>5, SipSameFrame, TgSameFrame
  <2>5. /\ Sided(d)' /\ RingsFirst(d)' /\ MediaFirst(d)' /\ PeerOnly(d)' /\ Met(d)'
    BY <1>2, <1>3, <2>1
    DEF Sided, RingsFirst, MediaFirst, PeerOnly, Met, FromSip, FromTg, Unanswered, WaitDtmf
  <2> QED BY <2>3, <2>4, <2>5 DEF Frame, BridgeOK
<1>6. \/ \E s \in Slot : Dial(s, sipRest) /\ Open([b EXCEPT !.sip = s]) /\ NoError
      \/ Open(b) /\ SipSame /\ Raise(NewCtx)
  BY DEF StartFromTg
<1> HIDE DEF b
<1> QED BY <1>4, <1>5, <1>6

\* The new bridge and all others are in order.
LEMMA StartFromTgServed ==
  ASSUME Prior, Prior', intRest = intQ, AnswersInv,
         NEW id \in TgId, StartFromTg(id), Matches("tg", id) = {}, ~tg[id].out
  PROVE  Orderly'
<1>1. PICK n \in Nat : n = NewCtx
  BY DEF Prior, TypeOK, BridgesTypeOK, NewCtx
<1>2. Frame(n) /\ BridgeOK(n)'
  BY <1>1, StartFromTgOK
<1> QED BY <1>2, FrameKept

\* Without a callback_uri the call is discarded and no bridge is made.
LEMMA RefuseFromTgServed ==
  ASSUME Prior, Prior', intRest = intQ, AnswersInv,
         NEW id \in TgId, RefuseFromTg(id), Matches("tg", id) = {}
  PROVE  Orderly'
<1>1. SipSame /\ Discard(id) /\ UNCHANGED bridges /\ NoError
  <2> DEFINE b == [NewContext("tg_wait_media") EXCEPT !.tg = id]
  <2>1. b.sip = NoSip /\ b.tg = id
    BY DEF NewContext
  <2>2. CleanUp(b) /\ UNCHANGED bridges /\ NoError
    BY DEF RefuseFromTg
  <2> HIDE DEF b
  <2> QED BY <2>1, <2>2 DEF CleanUp
<1>2. \A d \in DOMAIN bridges' : bridges'[d].tg # id
  BY <1>1 DEF Matches
<1>3. \A c : TgFrame(c)
  BY <1>1, <1>2, DiscardFrame DEF Prior
<1>4. \A d : ErrorFor(d) => ErrorFor(d)'
  BY <1>1 DEF NoError, ErrorFor
<1> QED BY <1>1, <1>3, <1>4, UntouchedKept, SipSameFrame DEF Prior

\* A handler that writes the record b of bridge c.
LEMMA PutServed ==
  ASSUME Prior, Prior', intRest = intQ, AnswersInv, NEW c \in DOMAIN bridges, NEW b, Put(c, b),
         NoError \/ Raise(c), b.tg = bridges[c].tg \/ bridges[c].tg = NoTg,
         c \in DOMAIN bridges' /\ bridges'[c] = b => SipFrame(c) /\ TgFrame(c),
         Sided(b)', RingsFirst(b)', MediaFirst(b)', PeerOnly(b)', Met(b)',
         ErrorFor(c) \/ Raise(c) \/ Whole(b)'
  PROVE  Orderly'
<1>1. /\ BridgeFrame(c) /\ LegsStay
      /\ c \in DOMAIN bridges' /\ bridges'[c] = b
      /\ ErrorFor(c) => ErrorFor(c)'
      /\ Raise(c) => ErrorFor(c)'
  BY PutFrame DEF Prior
<1>2. BridgeOK(c)'
  BY <1>1 DEF BridgeOK
<1> QED BY <1>1, <1>2, FrameKept DEF Frame

\* BridgeAudio: the audio is joined, or the failure is reported.
LEMMA JoinServed ==
  ASSUME Prior, Prior', intRest = intQ, AnswersInv, NEW c \in DOMAIN bridges,
         \/ /\ BridgeFromTg(c) /\ bridges[c].st = "tg_wait_tg" /\ bridges[c].tg # NoTg
            /\ tg[bridges[c].tg].st \in {"ready", "closing", "ended"}
         \/ BridgeFromSip(c) /\ bridges[c].st = "sip_wait_media"
  PROVE  Orderly'
<1>1. PICK b :
        /\ Put(c, b) /\ SipSame /\ UNCHANGED tg
        /\ b.sip = bridges[c].sip /\ b.tg = bridges[c].tg /\ b.user = bridges[c].user
        /\ b.st = IF bridges[c].st = "tg_wait_tg" THEN "tg_wait_dtmf" ELSE "sip_wait_dtmf"
        /\ \/ CanBridgeAudio(b.sip) /\ b.audio /\ NoError
           \/ Raise(c)
  <2>1. PICK st : st = IF bridges[c].st = "tg_wait_tg" THEN "tg_wait_dtmf" ELSE "sip_wait_dtmf"
    OBVIOUS
  <2> DEFINE b == [bridges[c] EXCEPT !.st = st]
             d == [b EXCEPT !.audio = TRUE]
  <2>2. /\ b.sip = bridges[c].sip /\ b.tg = bridges[c].tg /\ b.user = bridges[c].user /\ b.st = st
        /\ d.sip = bridges[c].sip /\ d.tg = bridges[c].tg /\ d.user = bridges[c].user /\ d.st = st
        /\ d.audio
    BY BridgeType DEF Prior, TypeOK, Context
  <2>3. /\ SipSame /\ UNCHANGED tg
        /\ \/ CanBridgeAudio(b.sip) /\ Put(c, d) /\ NoError
           \/ Put(c, b) /\ Raise(c)
    BY <2>1 DEF BridgeFromTg, BridgeFromSip
  <2> HIDE DEF b, d
  <2> QED BY <2>1, <2>2, <2>3
<1>2. BridgeOK(c) /\ UNCHANGED sip
  BY <1>1 DEF AnswersInv, Orderly, SipSame
<1>3. PICK a \in Context :
        /\ a = bridges[c] /\ a.st \in {"tg_wait_tg", "sip_wait_media"}
        /\ a.st = "tg_wait_tg" => a.tg # NoTg /\ tg[a.tg].st \in {"ready", "closing", "ended"}
  BY BridgeType DEF Prior, TypeOK
<1>4. /\ Sided(a) /\ RingsFirst(a) /\ MediaFirst(a) /\ PeerOnly(a) /\ Met(a)
      /\ ErrorFor(c) \/ Whole(a)
  BY <1>2, <1>3 DEF BridgeOK
<1>5. Sided(b)' /\ RingsFirst(b)' /\ MediaFirst(b)' /\ PeerOnly(b)'
  BY <1>1, <1>2, <1>3, <1>4
  DEF Sided, RingsFirst, MediaFirst, PeerOnly, FromSip, FromTg, Unanswered, WaitDtmf
<1>6. ErrorFor(c) \/ Raise(c) \/ Whole(b)'
  <2>1. CanBridgeAudio(b.sip) => b.sip # NoSip
    BY NoSipAssumption DEF CanBridgeAudio, Prior, TypeOK, SipTypeOK
  <2> QED BY <1>1, <1>2, <1>3, <1>4, <2>1 DEF Whole, WaitDtmf
<1>7. Met(b)'
  BY <1>1, <1>2, <1>3, <1>4 DEF Met, FromTg, WaitDtmf
<1> QED BY <1>1, <1>5, <1>6, <1>7, PutServed, SipSameFrame, TgSameFrame DEF Prior

\* AnswerSip: 200 to the SIP caller, only after TDLib reported Ready.
LEMMA AnswerSipServed ==
  ASSUME Prior, Prior', intRest = intQ, AnswersInv, NEW c \in DOMAIN bridges, NEW id \in TgId,
         AnswerSip(c, id), bridges[c].st = "sip_wait_tg", bridges[c].tg = id,
         tg[id].st \in {"ready", "closing", "ended"}
  PROVE  Orderly'
<1>1. PICK a \in Context : a = bridges[c] /\ a.st = "sip_wait_tg" /\ a.tg = id
  BY BridgeType DEF Prior, TypeOK
<1>2. PICK b : /\ Put(c, b) /\ UNCHANGED tg
               /\ b.st = "sip_wait_media" /\ b.sip = a.sip /\ b.tg = id
  <2> DEFINE b == [bridges[c] EXCEPT !.st = "sip_wait_media", !.user = tg[id].user]
  <2>1. b.st = "sip_wait_media" /\ b.sip = a.sip /\ b.tg = id
    BY <1>1 DEF Context
  <2>2. Put(c, b) /\ UNCHANGED tg
    BY DEF AnswerSip
  <2> HIDE DEF b
  <2> QED BY <2>1, <2>2
<1>3. BridgeOK(c) /\ id # NoTg
  BY NoneAssumption DEF AnswersInv, Orderly
<1>4. Sided(a) /\ RingsFirst(a) /\ PeerOnly(a) /\ Met(a)
  BY <1>1, <1>3 DEF BridgeOK
<1>5. Sided(b)' /\ MediaFirst(b)' /\ RingsFirst(b)'
  BY <1>1, <1>2, <1>3, <1>4 DEF Sided, MediaFirst, RingsFirst, FromSip, FromTg, Unanswered
<1>6. CASE AnswerOk(a.sip, sipRest) /\ NoError
  <2>1. PICK s \in Slot : s = a.sip
    BY <1>6 DEF AnswerOk, CanAnswer, Prior, TypeOK, SipTypeOK
  <2>2. c \in DOMAIN bridges' /\ bridges'[c] = b
    BY <1>2 DEF Put
  <2>3. SipFrame(c) /\ sip'[s].dtmf = sip[s].dtmf /\ sip'[s].st = "confirmed"
    BY <1>2, <1>6, <2>1, <2>2, AnswerFrame DEF Prior
  <2>4. PeerOnly(b)' /\ Whole(b)' /\ Met(b)'
    BY <1>1, <1>2, <1>3, <1>4, <2>1, <2>3, NoSipAssumption DEF PeerOnly, Whole, Met, WaitDtmf
  <2> QED BY <1>2, <1>3, <1>5, <1>6, <2>3, <2>4, PutServed, TgSameFrame
<1>7. CASE SipSame /\ Raise(c)
  <2>1. PeerOnly(b)' /\ Met(b)'
    BY <1>1, <1>2, <1>3, <1>4, <1>7 DEF PeerOnly, Met, FromTg, WaitDtmf, SipSame
  <2> QED BY <1>1, <1>2, <1>5, <1>7, <2>1, PutServed, SipSameFrame, TgSameFrame DEF Prior
<1> QED BY <1>1, <1>6, <1>7 DEF AnswerSip

\* Every transition for an update; what the queue says of Ready and Ended is
\* true.
LEMMA OnUpdateCallServed ==
  ASSUME Prior, Prior', intRest = intQ, AnswersInv, NEW id \in TgId, NEW st, OnUpdateCall(id, st),
         st = "Ready" => tg[id].st \in {"ready", "closing", "ended"},
         st = "Ended" => tg[id].st = "ended"
  PROVE  Orderly'
<1>1. CASE Ignore
  BY <1>1, IgnoreKept DEF ErrorFor
<1>2. CASE Matches("tg", id) = {} /\ Rings(id, st) /\ StartFromTg(id)
  BY <1>2, StartFromTgServed DEF Rings
<1>3. CASE Matches("tg", id) = {} /\ RefuseFromTg(id)
  BY <1>3, RefuseFromTgServed
<1>4. ASSUME NEW c \in DOMAIN bridges, First(c, Matches("tg", id)), BridgeOnUpdateCall(c, id, st)
      PROVE  Orderly'
  <2>1. bridges[c].tg = id /\ id # NoTg
    BY <1>4, NoneAssumption DEF First, Matches
  <2>2. CASE st = "Ready" /\ bridges[c].st = "tg_wait_tg" /\ BridgeFromTg(c)
    BY <2>1, <2>2, JoinServed
  <2>3. CASE st = "Ready" /\ bridges[c].st = "sip_wait_tg" /\ AnswerSip(c, id)
    BY <2>1, <2>3, AnswerSipServed
  <2>4. CASE st = "Ended" /\ TgEnded(c)
    BY <2>1, <2>4, TgEndedKept
  <2> QED BY <1>1, <1>4, <2>2, <2>3, <2>4 DEF BridgeOnUpdateCall
<1> QED BY <1>1, <1>2, <1>3, <1>4 DEF OnUpdateCall

\* Digits go to the bridge of their sender.
LEMMA DialDtmfServed ==
  ASSUME Prior, Prior', intRest = intQ, AnswersInv, NEW c \in DOMAIN bridges, NEW m,
         DialDtmf(c, m), bridges[c].user = m.from
  PROVE  Orderly'
<1>1. PICK b \in Context : b = bridges[c]
  BY BridgeType DEF Prior, TypeOK
<1>2. PICK s \in Slot : s = b.sip /\ s \in calls
  BY <1>1 DEF DialDtmf, Prior, TypeOK, SipTypeOK
<1>3. /\ sip' = IF Live(s) THEN [sip EXCEPT ![s].dtmf = @ \cup {m.from}] ELSE sip
      /\ sipQ' = sipRest /\ UNCHANGED <<bridges, tg>> /\ NoError /\ b.st \in WaitDtmf
  BY <1>1, <1>2 DEF DialDtmf
<1>4. /\ sip'[s].st = sip[s].st /\ sip'[s].lap = sip[s].lap /\ sip'[s].media = sip[s].media
      /\ sip'[s].dtmf \subseteq sip[s].dtmf \cup {m.from}
      /\ \A r \in Slot : r # s => sip'[r] = sip[r]
      /\ ~Live(s) => sip'[s] = sip[s]
  BY <1>3 DEF Prior, TypeOK, SipTypeOK, SipCall
<1>5. SipFrame(c)
  <2>1. Live(s) => Live(s)' /\ c \in DOMAIN bridges' /\ bridges'[c].sip = s
    BY <1>1, <1>2, <1>3, <1>4 DEF Live
  <2>2. \A r \in Slot : SlotSteady(r) \/ (r = s /\ Live(s))
    BY <1>4 DEF SlotSteady
  <2> QED BY <1>3, <2>1, <2>2, RestCalling DEF SipFrame, Prior
<1>6. BridgeFrame(c) /\ LegsStay /\ (ErrorFor(c) => ErrorFor(c)')
  BY <1>3 DEF BridgeFrame, LegsStay, NoError, ErrorFor
<1>7. /\ Sided(b) /\ RingsFirst(b) /\ MediaFirst(b) /\ PeerOnly(b) /\ Met(b)
      /\ ErrorFor(c) \/ Whole(b)
  BY <1>1 DEF AnswersInv, Orderly, BridgeOK
<1>8. /\ Sided(b)' /\ RingsFirst(b)' /\ MediaFirst(b)' /\ PeerOnly(b)' /\ Met(b)'
      /\ Whole(b) => Whole(b)'
  BY <1>1, <1>2, <1>3, <1>4, <1>7 DEF Sided, RingsFirst, MediaFirst, PeerOnly, Met, Whole
<1>9. BridgeOK(c)'
  BY <1>1, <1>3, <1>6, <1>7, <1>8 DEF BridgeOK
<1> QED BY <1>3, <1>5, <1>6, <1>9, FrameKept, TgSameFrame DEF Frame

\* No poll of the other queues takes an error.
LEMMA IntRestQ ==
  ASSUME phase # "internal"
  PROVE  intRest = intQ
BY DEF intRest, Rest

\* The first Telegram event, whatever it is, leaves the bridges in order.
LEMMA PollTgServed ==
  ASSUME Prior, Prior', AnswersInv, PollTg
  PROVE  Orderly'
<1>1. intRest = intQ
  BY IntRestQ DEF PollTg, Poll
<1>2. CASE Ignore
  BY <1>1, <1>2, IgnoreKept DEF ErrorFor
<1>3. ASSUME tgQ # <<>>
      PROVE  Head(tgQ) \in TgEvent /\ Head(tgQ) \in Range(tgQ)
  BY <1>3, HeadType, RangeTail DEF Prior, TypeOK
<1>4. CASE tgQ # <<>> /\ Head(tgQ).kind = "updateCall"
           /\ OnUpdateCall(Head(tgQ).id, Head(tgQ).state)
  <2>1. PICK e \in TgEvent : e = Head(tgQ) /\ e \in Range(tgQ)
    BY <1>3, <1>4
  <2>2. e.id \in TgId /\ e.kind = "updateCall"
    BY <1>4, <2>1 DEF TgEvent
  <2>3. /\ e.state = "Ready" => tg[e.id].st \in {"ready", "closing", "ended"}
        /\ e.state = "Ended" => tg[e.id].st = "ended"
    BY <2>1, <2>2 DEF AnswersInv, ReadyKnown, Prior, LegsInv, Known
  <2> QED BY <1>1, <1>4, <2>1, <2>2, <2>3, OnUpdateCallServed
<1>5. CASE tgQ # <<>> /\ OnNewMessage(Head(tgQ))
  <2>1. PICK m : m = Head(tgQ)
    OBVIOUS
  <2>2. ASSUME NEW c \in DOMAIN bridges, Routed(m, c), DialDtmf(c, m)
        PROVE  Orderly'
    <3>1. c \in Matches("user", m.from)
      BY <2>2 DEF Routed, Addressee
    <3>2. bridges[c].user = m.from
      BY <3>1 DEF Matches
    <3> QED BY <1>1, <2>2, <3>2, DialDtmfServed
  <2> QED BY <1>2, <1>5, <2>1, <2>2 DEF OnNewMessage
<1> QED BY <1>2, <1>4, <1>5 DEF PollTg

-----------------------------------------------------------------------------
(* Events of SIP. *)

\* A bridge of its caller, who rings; a failed 180 is reported.
LEMMA StartFromSipOK ==
  ASSUME Prior, NEW n \in Nat, n = NewCtx, intRest = intQ, AnswersInv,
         NEW s \in Slot, NEW x \in Ext, StartFromSip(s, x),
         sip[s].st \in {"invited", "over"}, sip[s].dtmf = {}
  PROVE  Frame(n) /\ BridgeOK(n)'
<1>1. PICK b : b.st = "sip_wait_confirm" /\ b.sip = s /\ b.tg = NoTg /\ Open(b)
  <2> DEFINE b == [NewContext("sip_wait_confirm") EXCEPT
                     !.sip = s,
                     !.ext = IF x \in Named THEN x ELSE NoExt,
                     !.user = IF ExtKind[x] = "id" THEN ExtUser[x] ELSE NoUser]
  <2>1. b.st = "sip_wait_confirm" /\ b.sip = s /\ b.tg = NoTg
    BY DEF NewContext
  <2>2. Open(b)
    BY DEF StartFromSip
  <2> HIDE DEF b
  <2> QED BY <2>1, <2>2
<1>2. /\ UNCHANGED tg
      /\ \/ AnswerRinging(s, sipRest) /\ NoError
         \/ SipSame /\ Raise(n)
  BY DEF StartFromSip, Raise
<1>3. /\ BridgeFrame(n) /\ LegsStay /\ (Raise(n) => ErrorFor(n)')
      /\ n \in DOMAIN bridges' /\ bridges'[n] = b
  BY <1>1, <1>2, OpenFrame DEF Prior
<1>4. TgFrame(n)
  BY <1>2, TgSameFrame
<1>5. Sided(b)' /\ MediaFirst(b)'
  BY <1>1, NoSipAssumption DEF Sided, MediaFirst, FromTg
<1>6. CASE AnswerRinging(s, sipRest)
  <2>1. SipFrame(n) /\ sip'[s].dtmf = sip[s].dtmf /\ sip'[s].st = "early"
    BY <1>1, <1>3, <1>6, AnswerFrame DEF Prior
  <2>2. RingsFirst(b)' /\ PeerOnly(b)' /\ Met(b)' /\ Whole(b)'
    BY <1>1, <2>1, NoSipAssumption DEF RingsFirst, PeerOnly, Met, Whole, Unanswered, WaitDtmf
  <2> QED BY <1>3, <1>4, <1>5, <2>1, <2>2 DEF Frame, BridgeOK
<1>7. CASE SipSame /\ Raise(n)
  <2>1. SipFrame(n) /\ UNCHANGED sip
    BY <1>7, SipSameFrame DEF SipSame, Prior
  <2>2. RingsFirst(b)' /\ PeerOnly(b)' /\ Met(b)'
    BY <1>1, <2>1 DEF RingsFirst, PeerOnly, Met, Unanswered, WaitDtmf
  <2> QED BY <1>3, <1>4, <1>5, <1>7, <2>1, <2>2 DEF Frame, BridgeOK
<1> QED BY <1>2, <1>6, <1>7

\* The new bridge and all others are in order.
LEMMA StartFromSipServed ==
  ASSUME Prior, Prior', intRest = intQ, AnswersInv,
         NEW s \in Slot, NEW x \in Ext, StartFromSip(s, x),
         sip[s].st \in {"invited", "over"}, sip[s].dtmf = {}
  PROVE  Orderly'
<1>1. PICK n \in Nat : n = NewCtx
  BY DEF Prior, TypeOK, BridgesTypeOK, NewCtx
<1>2. Frame(n) /\ BridgeOK(n)'
  BY <1>1, StartFromSipOK
<1> QED BY <1>2, FrameKept

\* acceptCall: only after the media of the SIP call came up.
LEMMA AnswerTgServed ==
  ASSUME Prior, Prior', intRest = intQ, AnswersInv, NEW c \in DOMAIN bridges,
         AnswerTg(c), bridges[c].st = "tg_wait_media",
         sip[bridges[c].sip].lap = 1 => sip[bridges[c].sip].media # "none"
  PROVE  Orderly'
<1>1. PICK a \in Context : a = bridges[c] /\ a.st = "tg_wait_media"
  BY BridgeType DEF Prior, TypeOK
<1>2. /\ Sided(a) /\ RingsFirst(a) /\ MediaFirst(a) /\ PeerOnly(a) /\ Met(a)
      /\ ErrorFor(c) \/ Whole(a)
  BY <1>1 DEF AnswersInv, Orderly, BridgeOK
<1>3. PICK b \in Context : b = [a EXCEPT !.st = "tg_wait_tg"]
  BY <1>1 DEF Context, FromTg
<1>4. b.st = "tg_wait_tg" /\ b.sip = a.sip /\ b.tg = a.tg /\ b.user = a.user
  BY <1>1, <1>3 DEF Context
<1>5. /\ Put(c, b) /\ SipSame
      /\ \/ /\ tg[b.tg].st \in {"pending", "received"}
            /\ tg' = [tg EXCEPT ![b.tg].st = "exchange"]
            /\ NoError
         \/ UNCHANGED tg /\ Raise(c)
  BY <1>1, <1>3 DEF AnswerTg
<1>6. UNCHANGED sip
  BY <1>5 DEF SipSame
<1>7. PeerOnly(b)' /\ MediaFirst(b)' /\ RingsFirst(b)' /\ Met(b)'
  BY <1>1, <1>2, <1>4, <1>6
  DEF PeerOnly, MediaFirst, RingsFirst, Met, Unanswered, FromSip, FromTg, WaitDtmf
<1>8. CASE UNCHANGED tg /\ Raise(c)
  <2>1. Sided(b)'
    BY <1>1, <1>2, <1>4, <1>8 DEF Sided, FromSip
  <2> QED BY <1>1, <1>4, <1>5, <1>7, <1>8, <2>1, PutServed, SipSameFrame, TgSameFrame DEF Prior
<1>9. CASE tg' = [tg EXCEPT ![b.tg].st = "exchange"] /\ NoError
  <2>1. /\ \A id \in TgId : tg'[id].out = tg[id].out
        /\ \A id \in TgId : id # b.tg => tg'[id] = tg[id]
        /\ b.tg \in TgId => tg'[b.tg].st = "exchange"
        /\ b.tg # NoTg => b.tg \in TgId
    BY <1>9 DEF Prior, TypeOK, TgCall, Context
  <2>2. Sided(b)'
    BY <1>1, <1>2, <1>4, <2>1 DEF Sided, FromSip
  <2>3. Whole(a) => Whole(b)'
    BY <1>1, <1>4, <2>1 DEF Whole, WaitDtmf
  <2>4. c \in DOMAIN bridges' /\ bridges'[c] = b
    BY <1>5 DEF Put
  <2>5. TgFrame(c)
    BY <2>1, <2>4 DEF TgFrame, CallSteady
  <2> QED BY <1>1, <1>2, <1>4, <1>5, <1>7, <1>9, <2>2, <2>3, <2>5, PutServed, SipSameFrame DEF Prior
<1> QED BY <1>5, <1>8, <1>9

\* The Telegram call of a SIP caller, who still rings; failures are reported.
LEMMA DialTgServed ==
  ASSUME Prior, Prior', intRest = intQ, AnswersInv, NEW c \in DOMAIN bridges,
         DialTg(c), bridges[c].st = "sip_wait_confirm"
  PROVE  Orderly'
<1>1. PICK a \in Context : a = bridges[c] /\ a.st = "sip_wait_confirm" /\ a.tg = NoTg
  BY BridgeType DEF Prior, TypeOK, LegsInv, LegInv, LegsUsed
<1>2. Sided(a) /\ RingsFirst(a) /\ PeerOnly(a) /\ Met(a)
  BY <1>1 DEF AnswersInv, Orderly, BridgeOK
<1>3. SipSame /\ UNCHANGED sip
  BY DEF DialTg, SipSame
<1> DEFINE w == [bridges[c] EXCEPT !.st = "sip_wait_tg"]
<1>4. /\ w.st = "sip_wait_tg" /\ w.sip = a.sip /\ w.tg = NoTg
      /\ \A id : /\ [w EXCEPT !.tg = id].st = "sip_wait_tg"
                 /\ [w EXCEPT !.tg = id].sip = a.sip /\ [w EXCEPT !.tg = id].tg = id
  BY <1>1 DEF Context
<1>5. \/ Put(c, w) /\ Raise(c) /\ UNCHANGED tg
      \/ \E id \in TgId :
           /\ tg' = [tg EXCEPT ![id] = [st |-> "pending", out |-> TRUE, user |-> Callee(w)]]
           /\ Put(c, [w EXCEPT !.tg = id]) /\ NoError
  BY DEF DialTg, DialBlocked, LookupFails, CreateCall
<1> HIDE DEF w
<1>6. ASSUME NEW b, b.st = "sip_wait_tg", b.sip = a.sip
      PROVE  RingsFirst(b)' /\ MediaFirst(b)' /\ PeerOnly(b)' /\ Met(b)'
  BY <1>1, <1>2, <1>3, <1>6
  DEF Sided, RingsFirst, MediaFirst, PeerOnly, Met, Unanswered, FromSip, FromTg, WaitDtmf
<1>7. a.sip # NoSip
  BY <1>1, <1>2 DEF Sided, FromSip
<1>8. CASE Put(c, w) /\ Raise(c) /\ UNCHANGED tg
  <2>1. PICK b : b.st = "sip_wait_tg" /\ b.sip = a.sip /\ b.tg = NoTg /\ Put(c, b)
    BY <1>4, <1>8
  <2>2. Sided(b)'
    BY <1>7, <2>1 DEF Sided
  <2> QED BY <1>1, <1>3, <1>6, <1>8, <2>1, <2>2, PutServed, SipSameFrame, TgSameFrame DEF Prior
<1>9. ASSUME NEW id \in TgId,
             tg' = [tg EXCEPT ![id] = [st |-> "pending", out |-> TRUE, user |-> Callee(w)]],
             Put(c, [w EXCEPT !.tg = id]), NoError
      PROVE  Orderly'
  <2>1. PICK b : b.st = "sip_wait_tg" /\ b.sip = a.sip /\ b.tg = id /\ Put(c, b)
    BY <1>4, <1>9
  <2>2. /\ tg'[id].st = "pending" /\ tg'[id].out
        /\ \A i \in TgId : i # id => tg'[i] = tg[i]
    BY <1>9 DEF Prior, TypeOK
  <2>3. c \in DOMAIN bridges' /\ bridges'[c] = b
    BY <2>1 DEF Put
  <2>4. TgFrame(c)
    BY <2>1, <2>2, <2>3 DEF TgFrame, CallSteady
  <2>5. Sided(b)' /\ Whole(b)'
    BY <1>7, <2>1, <2>2, NoneAssumption DEF Sided, Whole, FromSip, WaitDtmf
  <2> QED BY <1>1, <1>3, <1>6, <1>9, <2>1, <2>4, <2>5, PutServed, SipSameFrame DEF Prior
<1> QED BY <1>5, <1>8, <1>9

\* Every transition for an event of SIP.
LEMMA OnSipEventServed ==
  ASSUME Prior, Prior', intRest = intQ, AnswersInv, sipQ # <<>>, NEW e \in SipEvent,
         e = Head(sipQ), OnSipEvent(e)
  PROVE  Orderly'
<1>1. e.id \in Slot
  BY DEF SipEvent
<1>2. TrueEvent(e.id, e)
  BY <1>1, SettledTail DEF Prior, SipInv
<1>3. CASE Ignore
  BY <1>3, IgnoreKept DEF ErrorFor
<1>4. CASE e.kind = "IncomingCall" /\ StartFromSip(e.id, e.ext)
  <2>1. e.ext \in Ext
    BY <1>4 DEF SipEvent
  <2>2. Calling(e.id, sipQ) # {}
    <3>1. PICK q \in Seq(SipEvent) : q = sipQ
      BY DEF Prior, TypeOK, SipTypeOK
    <3> QED BY <1>4, <3>1, CallingTail
  <2>3. Fresh(e.id, sipQ)
    BY <1>1 DEF AnswersInv, Orderly
  <2>4. sip[e.id].st \in {"invited", "over"} /\ sip[e.id].dtmf = {}
    BY <2>2, <2>3 DEF Fresh
  <2> QED BY <1>1, <1>4, <2>1, <2>4, StartFromSipServed
<1>5. ASSUME NEW c \in DOMAIN bridges, bridges[c].sip = e.id,
             \/ BridgeOnCallState(c, e.state)
             \/ e.kind = "CallMediaStateUpdate" /\ BridgeOnCallMedia(c, e.has_media)
      PROVE  Orderly'
  <2>1. CASE SipEnded(c)
    BY <2>1, SipEndedKept
  <2>2. CASE bridges[c].st = "sip_wait_confirm" /\ DialTg(c)
    BY <2>2, DialTgServed
  <2>3. CASE bridges[c].st = "sip_wait_media" /\ BridgeFromSip(c)
    BY <2>3, JoinServed
  <2>4. CASE /\ e.kind = "CallMediaStateUpdate" /\ e.has_media
             /\ bridges[c].st = "tg_wait_media" /\ AnswerTg(c)
    <3>1. e = CallMedia(e.id, TRUE)
      BY <2>4 DEF SipEvent, CallMedia
    <3>2. sip[e.id].lap = 1 => sip[e.id].media # "none"
      BY <1>2, <3>1 DEF TrueEvent
    <3> QED BY <1>5, <2>4, <3>2, AnswerTgServed
  <2> QED BY <1>3, <1>5, <2>1, <2>2, <2>3, <2>4 DEF BridgeOnCallState, BridgeOnCallMedia
<1>6. \A c \in DOMAIN bridges : First(c, Matches("sip", e.id)) => bridges[c].sip = e.id
  BY DEF First, Matches
<1> QED BY <1>3, <1>4, <1>5, <1>6 DEF OnSipEvent

\* The first SIP event, whatever it is, leaves the bridges in order.
LEMMA PollSipServed ==
  ASSUME Prior, Prior', AnswersInv, PollSip
  PROVE  Orderly'
<1>1. intRest = intQ
  BY IntRestQ DEF PollSip, Poll
<1>2. CASE Ignore
  BY <1>1, <1>2, IgnoreKept DEF ErrorFor
<1>3. CASE sipQ # <<>> /\ OnSipEvent(Head(sipQ))
  <2>1. PICK e \in SipEvent : e = Head(sipQ)
    BY <1>3, HeadType DEF Prior, TypeOK, SipTypeOK
  <2> QED BY <1>1, <1>3, <2>1, OnSipEventServed
<1> QED BY <1>2, <1>3 DEF PollSip

\* A call is announced: it has no digits, and no bridge unless it is dead.
LEMMA OnIncomingCallServed ==
  ASSUME Prior, Prior', AnswersInv, NEW s \in Slot, NEW x \in Ext, OnIncomingCall(s, x),
         UNCHANGED <<bridges, intQ, tg>>
  PROVE  Orderly'
<1>1. PICK q \in Seq(SipEvent) : q = sipQ
  BY DEF Prior, TypeOK, SipTypeOK
<1>2. PICK e \in SipEvent : /\ e.kind = "IncomingCall" /\ e.id = s /\ sipQ' = Append(q, e)
  BY <1>1, SipEventType DEF OnIncomingCall, IncomingCall
<1>3. /\ sip'[s].lap = sip[s].lap + 1 /\ sip[s].lap \in Nat
      /\ \A r \in Slot : r # s => sip'[r] = sip[r]
  BY <1>1, NewCallQuiet DEF OnIncomingCall, SipState, Prior
<1>4. /\ sip'[s].dtmf = {}
      /\ sip'[s].st = IF s \in calls THEN "over" ELSE "invited"
  BY DEF OnIncomingCall, NewCall, Prior, TypeOK, SipTypeOK
<1>5. SlotSteady(s) \/ ~Holds(s)'
  <2>1. CASE s \in calls
    <3>1. ~(sip'[s].lap = 1 /\ sip[s].lap > 0)
      BY <1>3
    <3> QED BY <1>4, <2>1, <3>1 DEF SlotSteady
  <2>2. CASE s \notin calls
    BY <2>2 DEF Prior, SipInv, Settled, Entered, Holds
  <2> QED BY <2>1, <2>2
<1>6. Fresh(s, sipQ)'
  BY <1>4 DEF Fresh
<1>7. ASSUME NEW r \in Slot, r # s
      PROVE  SlotSteady(r) /\ Calling(r, sipQ') = Calling(r, sipQ)
  BY <1>1, <1>2, <1>3, <1>7, CallingAppend DEF SlotSteady
<1>8. \A c : SipFrame(c)
  BY <1>5, <1>6, <1>7 DEF SipFrame
<1> QED BY <1>8, UntouchedKept, TgSameFrame DEF ErrorFor

\* The media of a call comes up or is lost, or the remote side ends the call.
LEMMA CallbackServed ==
  ASSUME Prior, Prior', AnswersInv, NEW s \in Slot, OnCallMediaState(s) \/ OnCallDisconnected(s),
         UNCHANGED <<bridges, intQ, tg>>
  PROVE  Orderly'
<1>1. PICK q \in Seq(SipEvent) : q = sipQ
  BY DEF Prior, TypeOK, SipTypeOK
<1>2. PICK e \in SipEvent : e.kind # "IncomingCall" /\ sipQ' = Append(q, e)
  <2>1. \A has \in BOOLEAN : CallMedia(s, has) \in SipEvent /\ CallMedia(s, has).kind # "IncomingCall"
    BY SipEventType DEF CallMedia
  <2>2. /\ CallState(s, "DISCONNECTED") \in SipEvent
        /\ CallState(s, "DISCONNECTED").kind # "IncomingCall"
    BY SipEventType DEF CallState
  <2>3. \/ sipQ' = Append(q, CallMedia(s, TRUE))
        \/ sipQ' = Append(q, CallMedia(s, FALSE))
        \/ sipQ' = Append(q, CallState(s, "DISCONNECTED"))
    BY <1>1 DEF OnCallMediaState, OnCallDisconnected
  <2> QED BY <2>1, <2>2, <2>3
<1>3. \A r \in Slot : SlotSteady(r)
  <2>1. /\ \A r \in Slot : r # s => sip'[r] = sip[r]
        /\ sip'[s].st \in {sip[s].st, "over"} /\ sip'[s].dtmf = sip[s].dtmf
        /\ sip'[s].lap = sip[s].lap /\ (sip[s].media # "none" => sip'[s].media # "none")
    <3>1. CASE OnCallDisconnected(s)
      BY <3>1, EnterFields DEF OnCallDisconnected, Prior
    <3>2. CASE OnCallMediaState(s)
      <4>1. PICK m \in {"active", "lost"} : sip' = [sip EXCEPT ![s].media = m]
        BY <3>2 DEF OnCallMediaState
      <4>2. m # "none" /\ sip \in [Slot -> SipCall]
        BY DEF Prior, TypeOK, SipTypeOK
      <4> QED BY <4>1, <4>2 DEF SipCall
    <3> QED BY <3>1, <3>2
  <2> QED BY <2>1 DEF SlotSteady
<1>4. \A r \in Slot : Calling(r, sipQ') = Calling(r, sipQ)
  BY <1>1, <1>2, CallingAppend
<1>5. \A c : SipFrame(c)
  BY <1>3, <1>4 DEF SipFrame
<1> QED BY <1>5, UntouchedKept, TgSameFrame DEF ErrorFor

\* What TDLib reports of its calls.
LEMMA TdLibServed ==
  ASSUME Prior, Prior', AnswersInv, TdLib
  PROVE  Orderly'
<1>1. UNCHANGED <<sip, sipQ, bridges, intQ>>
  BY DEF TdLib
<1>2. \A c : SipFrame(c)
  BY <1>1 DEF SipFrame, SlotSteady
<1>3. ASSUME NEW c, NEW id \in TgId, NEW u, TgRings(id, u)
      PROVE  TgFrame(c)
  <2>1. tg[id].st = "unused" /\ tg'[id].st = "pending" /\ \A i \in TgId : i # id => tg'[i] = tg[i]
    BY <1>3 DEF TgRings, Prior, TypeOK
  <2>2. \A d \in DOMAIN bridges' : bridges'[d].tg # id
    BY <1>1, <2>1, NoneAssumption DEF Prior, LegsInv, LegInv, LegsUsed
  <2> QED BY <2>1, <2>2 DEF TgFrame, CallSteady
<1>4. ASSUME NEW c, NEW id \in TgId, TgReceived(id) \/ TgReady(id) \/ TgEnds(id)
      PROVE  TgFrame(c)
  <2>1. /\ \A i \in TgId : i # id => tg'[i] = tg[i]
        /\ tg'[id].out = tg[id].out
        /\ TgReceived(id) => tg[id].st = "pending" /\ tg'[id].st = "received"
        /\ TgReady(id) => tg'[id].st = "ready"
        /\ TgEnds(id) => tg'[id].st = "ended"
    BY <1>4 DEF TgReceived, TgReady, TgEnds, Report, Prior, TypeOK, TgCall
  <2>2. CallSteady(id)
    BY <1>4, <2>1 DEF CallSteady, TgReady, TgReceived, TgEnds
  <2> QED BY <2>1, <2>2 DEF TgFrame, CallSteady
<1>5. \A c : TgFrame(c)
  BY <1>3, <1>4, TgSameFrame DEF TdLib, TgMessage
<1> QED BY <1>1, <1>2, <1>5, UntouchedKept DEF ErrorFor

-----------------------------------------------------------------------------
(* A Telegram call that is up does not ring again: what the queue says of   *)
(* Ready stays true.                                                        *)

Onward ==
  \A id \in TgId :
    tg[id].st \in {"ready", "closing", "ended"} => tg'[id].st \in {"ready", "closing", "ended"}

\* One call moves on from another state, or is closed, or ends.
LEMMA OneCallOnward ==
  ASSUME TypeOK, NEW id \in TgId,
         \A i \in TgId : i # id => tg'[i] = tg[i],
         \/ tg[id].st \notin {"ready", "closing", "ended"}
         \/ tg'[id].st \in {"ready", "closing", "ended"}
  PROVE  Onward
BY DEF Onward

\* discardCall moves a call on.
LEMMA DiscardOnward ==
  ASSUME TypeOK, NEW i \in TgId \cup {NoTg}, Discard(i)
  PROVE  Onward
<1>1. CASE UNCHANGED tg
  BY <1>1 DEF Onward
<1>2. CASE i \in TgId /\ tg' = [tg EXCEPT ![i].st = "closing"]
  BY <1>2, OneCallOnward DEF TypeOK, TgCall
<1> QED BY <1>1, <1>2, NoneAssumption DEF Discard

\* The handlers of the loop.
LEMMA HandlersOnward ==
  ASSUME TypeOK,
         \/ UNCHANGED tg
         \/ \E b : b.tg \in TgId \cup {NoTg} /\ CleanUp(b)
         \/ \E c \in DOMAIN bridges : AnswerTg(c) \/ DialTg(c)
  PROVE  Onward
<1>1. CASE UNCHANGED tg
  BY <1>1 DEF Onward
<1>2. ASSUME NEW b, b.tg \in TgId \cup {NoTg}, CleanUp(b)
      PROVE  Onward
  BY <1>2, DiscardOnward DEF CleanUp
<1>3. ASSUME NEW c \in DOMAIN bridges, AnswerTg(c)
      PROVE  Onward
  <2>1. PICK i : \/ UNCHANGED tg
                 \/ tg[i].st \in {"pending", "received"} /\ tg' = [tg EXCEPT ![i].st = "exchange"]
    BY <1>3 DEF AnswerTg
  <2>2. CASE i \in TgId /\ tg[i].st \in {"pending", "received"}
    BY <1>1, <2>1, <2>2, OneCallOnward DEF TypeOK
  <2>3. CASE i \notin TgId
    BY <1>1, <2>1, <2>3 DEF TypeOK, Onward
  <2> QED BY <1>1, <2>1, <2>2, <2>3
<1>4. ASSUME NEW c \in DOMAIN bridges, DialTg(c)
      PROVE  Onward
  <2>1. \/ UNCHANGED tg
        \/ \E i \in TgId : \E r : tg[i].st = "unused" /\ tg' = [tg EXCEPT ![i] = r]
    BY <1>4 DEF DialTg, DialBlocked, LookupFails, CreateCall
  <2>2. ASSUME NEW i \in TgId, NEW r, tg[i].st = "unused", tg' = [tg EXCEPT ![i] = r]
        PROVE  Onward
    BY <2>2, OneCallOnward DEF TypeOK
  <2> QED BY <1>1, <2>1, <2>2
<1> QED BY <1>1, <1>2, <1>3, <1>4

\* A bridge that ends, with or without one of its legs.
LEMMA CloseOnward ==
  ASSUME TypeOK, NEW c \in DOMAIN bridges,
         Close(c, bridges[c]) \/ TgEnded(c) \/ SipEnded(c)
  PROVE  Onward
<1>1. PICK b : b.tg \in TgId \cup {NoTg} /\ CleanUp(b)
  <2> DEFINE t == [bridges[c] EXCEPT !.tg = NoTg]
             s == [bridges[c] EXCEPT !.sip = NoSip]
  <2>1. /\ bridges[c].tg \in TgId \cup {NoTg} /\ t.tg = NoTg /\ s.tg = bridges[c].tg
    BY BridgeType DEF TypeOK, Context
  <2>2. CleanUp(bridges[c]) \/ CleanUp(t) \/ CleanUp(s)
    BY DEF Close, TgEnded, SipEnded
  <2> HIDE DEF s, t
  <2> QED BY <2>1, <2>2
<1> QED BY <1>1, HandlersOnward

\* No poll takes a Telegram call back.
LEMMA LoopOnward ==
  ASSUME TypeOK, Loop
  PROVE  Onward
<1>1. CASE UNCHANGED tg
  BY <1>1, HandlersOnward
<1>2. CASE PollInternal
  BY <1>1, <1>2, CloseOnward DEF PollInternal, OnInternalError, Ignore
<1>3. CASE PollTg
  <2>1. ASSUME tgQ # <<>>, Head(tgQ).kind = "updateCall", RefuseFromTg(Head(tgQ).id)
        PROVE  Onward
    <3>1. Head(tgQ) \in TgEvent
      BY <2>1, HeadType DEF TypeOK
    <3>2. PICK id \in TgId : id = Head(tgQ).id
      BY <2>1, <3>1 DEF TgEvent
    <3> DEFINE b == [NewContext("tg_wait_media") EXCEPT !.tg = id]
    <3>3. b.tg = id /\ CleanUp(b)
      BY <2>1, <3>2 DEF RefuseFromTg, NewContext
    <3> HIDE DEF b
    <3> QED BY <3>3, HandlersOnward
  <2>2. ASSUME NEW id, NEW st, OnUpdateCall(id, st)
        PROVE  Onward \/ RefuseFromTg(id)
    <3>1. CASE StartFromTg(id)
      BY <1>1, <3>1 DEF StartFromTg
    <3>2. ASSUME NEW c \in DOMAIN bridges, BridgeOnUpdateCall(c, id, st)
          PROVE  Onward
      BY <1>1, <3>2, CloseOnward DEF BridgeOnUpdateCall, BridgeFromTg, AnswerSip, Ignore
    <3> QED BY <1>1, <2>2, <3>1, <3>2 DEF OnUpdateCall, Ignore
  <2>3. CASE Ignore \/ OnNewMessage(Head(tgQ))
    BY <1>1, <2>3 DEF Ignore, OnNewMessage, DialDtmf
  <2> QED BY <1>3, <2>1, <2>2, <2>3 DEF PollTg
<1>4. CASE PollSip
  <2>1. ASSUME NEW e, OnSipEvent(e)
        PROVE  Onward
    <3>1. CASE StartFromSip(e.id, e.ext) \/ Ignore
      BY <1>1, <3>1 DEF StartFromSip, Ignore
    <3>2. ASSUME NEW c \in DOMAIN bridges,
                 BridgeOnCallState(c, e.state) \/ BridgeOnCallMedia(c, e.has_media)
          PROVE  Onward
      BY <1>1, <3>2, CloseOnward, HandlersOnward
      DEF BridgeOnCallState, BridgeOnCallMedia, BridgeFromSip, Ignore
    <3> QED BY <2>1, <3>1, <3>2 DEF OnSipEvent
  <2> QED BY <1>1, <1>4, <2>1 DEF PollSip, Ignore
<1> QED BY <1>2, <1>3, <1>4 DEF Loop

\* Taking an update keeps what the queue says of Ready.
LEMMA OnwardReady ==
  ASSUME TypeOK, ReadyKnown, Onward, \A e \in Range(tgQ') : e \in Range(tgQ)
  PROVE  ReadyKnown'
<1>1. \A e \in Range(tgQ) : e.kind = "updateCall" => e.id \in TgId
  <2>1. \A e \in Range(tgQ) : e \in TgEvent
    BY RangeSubset DEF TypeOK
  <2> QED BY <2>1 DEF TgEvent
<1> QED BY <1>1 DEF ReadyKnown, Onward

\* TDLib queues a Ready only for a call that is up.
LEMMA TdLibReady ==
  ASSUME TypeOK, ReadyKnown, TdLib
  PROVE  ReadyKnown'
<1>1. PICK q \in Seq(TgEvent) : q = tgQ
  BY DEF TypeOK
<1>2. \A e \in Range(q) : e.kind = "updateCall" => e.id \in TgId
  BY <1>1, RangeSubset DEF TgEvent
<1>3. ASSUME Onward, NEW x \in TgEvent, tgQ' = Append(q, x),
             x.kind = "updateCall" /\ x.state = "Ready" => tg'[x.id].st = "ready"
      PROVE  ReadyKnown'
  <2>1. \A e \in Range(tgQ') : e \in Range(q) \/ e = x
    BY <1>3, RangeAppend
  <2> QED BY <1>1, <1>2, <1>3, <2>1 DEF ReadyKnown, Onward
<1>4. CASE TgMessage
  <2>1. PICK x \in TgEvent : tgQ' = Append(q, x) /\ x.kind = "updateNewMessage"
    BY <1>1, <1>4 DEF TgMessage, TgEvent
  <2>2. Onward
    BY <1>4 DEF TgMessage, Onward
  <2> QED BY <1>3, <2>1, <2>2
<1>5. ASSUME NEW id \in TgId, NEW u, TgRings(id, u)
      PROVE  ReadyKnown'
  <2>1. Onward
    BY <1>5, OneCallOnward DEF TgRings, TypeOK
  <2>2. PICK x \in TgEvent : tgQ' = Append(q, x) /\ x.state = "Pending"
    BY <1>1, <1>5 DEF TgRings, Update, TgEvent, TgUpdate
  <2> QED BY <1>3, <2>1, <2>2
<1>6. ASSUME NEW id \in TgId, TgReceived(id) \/ TgReady(id) \/ TgEnds(id)
      PROVE  ReadyKnown'
  <2>1. PICK st \in {"Pending", "Ready", "Ended"} :
          /\ tgQ' = Append(q, Update(id, st))
          /\ \A i \in TgId : i # id => tg'[i] = tg[i]
          /\ tg[id].st = "pending" \/ tg'[id].st \in {"ready", "ended"}
          /\ st = "Ready" => tg'[id].st = "ready"
    BY <1>1, <1>6 DEF TgReceived, TgReady, TgEnds, Report, TypeOK, TgCall
  <2>2. Onward
    BY <2>1, OneCallOnward
  <2>3. Update(id, st) \in TgEvent /\ Update(id, st).id = id /\ Update(id, st).state = st
    BY DEF Update, TgEvent, TgUpdate
  <2> QED BY <1>3, <2>1, <2>2, <2>3
<1> QED BY <1>4, <1>5, <1>6 DEF TdLib

-----------------------------------------------------------------------------
(* The invariant. *)

\* There is no bridge at the start.
LEMMA AnswersInit ==
  ASSUME Init
  PROVE  AnswersInv
<1>1. /\ DOMAIN bridges = {} /\ sipQ = <<>> /\ tgQ = <<>>
      /\ \A id \in TgId : tg[id].st = "unused"
  BY DEF Init, SipInit
<1>2. Range(tgQ) = {} /\ \A s : Calling(s, sipQ) = {}
  BY <1>1 DEF Range, Calling
<1> QED BY <1>1, <1>2 DEF AnswersInv, Orderly, ExchangeServed, ReadyKnown, Fresh

\* Every step of the gateway and its environment keeps the promises.
LEMMA AnswersNext ==
  ASSUME Prior, Prior', AnswersInv, [Next]_vars
  PROVE  AnswersInv'
<1>1. CASE Loop
  <2>1. Orderly'
    BY <1>1, PollInternalKept, PollTgServed, PollSipServed DEF Loop
  <2>2. \A e \in Range(tgQ') : e \in Range(tgQ)
    <3>1. tgQ' = tgQ \/ (tgQ # <<>> /\ tgQ' = Tail(tgQ))
      BY <1>1 DEF Loop, PollInternal, PollTg, PollSip, tgRest, Rest
    <3> QED BY <3>1, RangeTail DEF Prior, TypeOK
  <2> QED BY <1>1, <2>1, <2>2, LoopOnward, OnwardReady DEF AnswersInv, Prior
<1>2. CASE Abort
  <2>1. Ignore /\ intRest = intQ /\ tgQ # <<>> /\ tgQ' = Tail(tgQ)
    BY <1>2, IntRestQ DEF Abort, LookupAborts, DtmfAborts, Poll, tgRest, Rest
  <2>2. Orderly'
    BY <2>1, IgnoreKept DEF ErrorFor
  <2>3. Onward
    BY <2>1 DEF Ignore, Onward
  <2>4. \A e \in Range(tgQ') : e \in Range(tgQ)
    BY <2>1, RangeTail DEF Prior, TypeOK
  <2> QED BY <2>2, <2>3, <2>4, OnwardReady DEF AnswersInv, Prior
<1>3. CASE TdLib
  BY <1>3, TdLibServed, TdLibReady DEF AnswersInv, Prior
<1>4. CASE Sip
  <2>1. UNCHANGED <<bridges, intQ, tg, tgQ>> /\ PjsipThread
    BY <1>4 DEF Sip
  <2>2. Orderly'
    BY <2>1, OnIncomingCallServed, CallbackServed DEF PjsipThread
  <2> QED BY <2>1, <2>2 DEF AnswersInv, ReadyKnown
<1>5. CASE Stop \/ Clock \/ UNCHANGED vars
  <2>1. UNCHANGED <<sip, sipQ, bridges, intQ, tg, tgQ>>
    BY <1>5 DEF Stop, Clock, vars
  <2>2. \A c : SipFrame(c) /\ TgFrame(c)
    BY <2>1, TgSameFrame DEF SipFrame, SlotSteady
  <2> QED BY <2>1, <2>2, UntouchedKept DEF AnswersInv, ReadyKnown, ErrorFor
<1> QED BY <1>1, <1>2, <1>3, <1>4, <1>5 DEF Next

\* The inductive invariant of the promises.
THEOREM AnswersInvariant == Spec => []AnswersInv
BY AnswersInit, AnswersNext, TypeCorrect, LegsInvariant, SipInvariant, PTL DEF Spec, Prior

\* Nobody is answered before there is somebody to talk to, whatever the order
\* of the events and however often PJSIP uses an id again.
THEOREM AnsweredInOrder == Spec => []AnswerOrder
<1>1. AnswersInv => AnswerOrder
  BY DEF AnswersInv, Orderly, BridgeOK, RingsFirst, MediaFirst, AnswerOrder
<1> QED BY <1>1, AnswersInvariant, PTL

\* A failed step never leaves a bridge without the InternalError that closes it.
THEOREM FailureQueued == Spec => []FailureReported
<1>1. AnswersInv => FailureReported
  BY DEF AnswersInv, Orderly, BridgeOK, Whole, FailureReported
<1> QED BY <1>1, AnswersInvariant, PTL

\* Digits only reach the SIP call of the bridge whose user sent them.
THEOREM DigitsReachPeer == Spec => []DtmfFromPeer
<1>1. AnswersInv => DtmfFromPeer
  BY DEF AnswersInv, Orderly, BridgeOK, PeerOnly, DtmfFromPeer
<1> QED BY <1>1, AnswersInvariant, PTL
=============================================================================
