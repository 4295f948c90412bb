--------------------------- MODULE GatewayBridge ---------------------------
(***************************************************************************)
(* The gateway implements CallBridge, for every instance and every reuse   *)
(* of PJSIP ids: with one more invariant, of the SIP client's slots, every *)
(* handler and every step of its environment is a step of CallBridge or    *)
(* shows nothing of itself.                                                *)
(***************************************************************************)
EXTENDS GatewayAnswers

-----------------------------------------------------------------------------
(* The calls and bridges in the terms of the abstract specification.        *)

\* What the other party of a Telegram call sees.
LEMMA TgLineIs ==
  ASSUME TypeOK, TypeOK', NEW id \in TgId
  PROVE  /\ TgLines[id] = "idle" <=> tg[id].st = "unused"
         /\ TgLines[id] = "ringing" <=> tg[id].st \in {"pending", "received"}
         /\ TgLines[id] = "answered" <=> tg[id].st \in {"exchange", "ready"}
         /\ TgLines[id] = "over" <=> tg[id].st \in {"closing", "ended"}
         /\ TgLines'[id] = "ringing" <=> tg'[id].st \in {"pending", "received"}
         /\ TgLines'[id] = "answered" <=> tg'[id].st \in {"exchange", "ready"}
         /\ TgLines'[id] = "over" <=> tg'[id].st \in {"closing", "ended"}
<1>1. tg[id].st \in TgState /\ tg'[id].st \in TgState
  BY DEF TypeOK, TgCall
<1> QED BY <1>1 DEF TgLines, TgLine, TgState

\* What the other party of the first SIP call of a slot sees.
LEMMA SipLineIs ==
  ASSUME TypeOK, TypeOK', NEW s \in Slot
  PROVE  /\ SipLines[s] = "idle" <=> sip[s].lap = 0
         /\ SipLines[s] = "over" <=> sip[s].lap > 0 /\ (sip[s].lap > 1 \/ ~Live(s))
         /\ SipLines[s] = "ringing" <=>
              sip[s].lap = 1 /\ Live(s) /\ sip[s].st # "confirmed" /\ sip[s].media = "none"
         /\ SipLines[s] = "answered" <=>
              sip[s].lap = 1 /\ Live(s) /\ (sip[s].st = "confirmed" \/ sip[s].media # "none")
         /\ SipLines'[s] = "over" <=> sip'[s].lap > 0 /\ (sip'[s].lap > 1 \/ sip'[s].st = "over")
         /\ SipLines'[s] = "ringing" <=>
              /\ sip'[s].lap = 1 /\ sip'[s].st # "over"
              /\ sip'[s].st # "confirmed" /\ sip'[s].media = "none"
         /\ SipLines'[s] = "answered" <=>
              /\ sip'[s].lap = 1 /\ sip'[s].st # "over"
              /\ sip'[s].st = "confirmed" \/ sip'[s].media # "none"
<1>1. sip[s].lap \in Nat /\ sip'[s].lap \in Nat
  BY DEF TypeOK, SipTypeOK, SipCall
<1> QED BY <1>1 DEF SipLines, SipLine, Live

\* A step that changes one call changes one line at most.
LEMMA OneLine ==
  /\ UNCHANGED tg => UNCHANGED TgLines
  /\ UNCHANGED sip => UNCHANGED SipLines
  /\ \A id \in TgId :
       (\A i \in TgId : i # id => tg'[i] = tg[i]) =>
         /\ TgLines' = [TgLines EXCEPT ![id] = TgLines'[id]]
         /\ TgLines'[id] = TgLines[id] => UNCHANGED TgLines
  /\ \A s \in Slot :
       (\A r \in Slot : r # s => sip'[r] = sip[r]) =>
         /\ SipLines' = [SipLines EXCEPT ![s] = SipLines'[s]]
         /\ SipLines'[s] = SipLines[s] => UNCHANGED SipLines
<1>1. \A id \in TgId : tg'[id] = tg[id] => TgLines'[id] = TgLines[id]
  BY DEF TgLines, TgLine
<1>2. \A s \in Slot : sip'[s] = sip[s] => SipLines'[s] = SipLines[s]
  BY DEF SipLines, SipLine, Live
<1>3. UNCHANGED tg => UNCHANGED TgLines
  BY <1>1 DEF TgLines
<1>4. UNCHANGED sip => UNCHANGED SipLines
  BY <1>2 DEF SipLines
<1>5. /\ TgLines = [i \in TgId |-> TgLines[i]] /\ TgLines' = [i \in TgId |-> TgLines'[i]]
      /\ SipLines = [r \in Slot |-> SipLines[r]] /\ SipLines' = [r \in Slot |-> SipLines'[r]]
  BY DEF TgLines, SipLines
<1>6. ASSUME NEW id \in TgId, \A i \in TgId : i # id => tg'[i] = tg[i]
      PROVE  /\ TgLines' = [TgLines EXCEPT ![id] = TgLines'[id]]
             /\ TgLines'[id] = TgLines[id] => UNCHANGED TgLines
  BY <1>1, <1>5, <1>6
<1>7. ASSUME NEW s \in Slot, \A r \in Slot : r # s => sip'[r] = sip[r]
      PROVE  /\ SipLines' = [SipLines EXCEPT ![s] = SipLines'[s]]
             /\ SipLines'[s] = SipLines[s] => UNCHANGED SipLines
  BY <1>2, <1>5, <1>7
<1> QED BY <1>3, <1>4, <1>6, <1>7

\* Bridges, new ones, changed ones and erased ones.
LEMMA PairIs ==
  /\ DOMAIN Pairs = DOMAIN bridges
  /\ \A c \in DOMAIN bridges :
       /\ Pairs[c].tg = bridges[c].tg /\ Pairs[c].sip = bridges[c].sip
       /\ Pairs[c].from = IF bridges[c].st \in FromTg THEN "tg" ELSE "sip"
       /\ Pairs[c] = Pair(bridges[c])
  /\ UNCHANGED bridges => UNCHANGED <<Pairs, Joins>>
BY DEF Pairs, Pair, Joins

\* A record that is written.
LEMMA PairsPut ==
  ASSUME NEW c \in DOMAIN bridges, NEW b, Put(c, b)
  PROVE  /\ Pairs' = [Pairs EXCEPT ![c] = Pair(b)]
         /\ Pair(b) = Pair(bridges[c]) => UNCHANGED Pairs
         /\ b.audio = bridges[c].audio => UNCHANGED Joins
         /\ b.audio => Joins' = Joins \cup {c}
         /\ UNCHANGED ctxCounter
<1>1. /\ DOMAIN bridges' = DOMAIN bridges /\ bridges'[c] = b
      /\ \A d \in DOMAIN bridges : d # c => bridges'[d] = bridges[d]
  BY DEF Put
<1>2. (b.audio = bridges[c].audio => UNCHANGED Joins) /\ (b.audio => Joins' = Joins \cup {c})
  BY <1>1 DEF Joins
<1> QED BY <1>2 DEF Pairs, Put, Pair

\* A bridge that is made.
LEMMA PairsOpen ==
  ASSUME TypeOK, NEW b, Open(b), ~b.audio
  PROVE  /\ ctxCounter' = ctxCounter + 1 /\ UNCHANGED Joins
         /\ Pairs' = [c \in DOMAIN Pairs \cup {ctxCounter'} |->
                        IF c = ctxCounter' THEN Pair(b) ELSE Pairs[c]]
<1>1. /\ ctxCounter' = NewCtx /\ NewCtx \notin DOMAIN bridges
      /\ DOMAIN bridges' = DOMAIN bridges \cup {NewCtx} /\ bridges'[NewCtx] = b
      /\ \A d \in DOMAIN bridges : bridges'[d] = bridges[d]
  BY DEF Open, NewCtx, TypeOK, BridgesTypeOK
<1>2. UNCHANGED Joins
  BY <1>1 DEF Joins
<1> QED BY <1>2 DEF Pairs, Open, NewCtx, Pair

\* A bridge that is erased.
LEMMA PairsClose ==
  ASSUME NEW c \in DOMAIN bridges, NEW b, Close(c, b)
  PROVE  /\ Pairs' = [d \in DOMAIN Pairs \ {c} |-> Pairs[d]]
         /\ Joins' = Joins \ {c} /\ UNCHANGED ctxCounter
<1>1. Joins' = Joins \ {c}
  BY CloseHolders DEF Joins
<1> QED BY <1>1, CloseHolders DEF Pairs, Pair, Close, Restrict

-----------------------------------------------------------------------------
(* What the SIP client's slots say of the calls that had them. *)

\* A slot with an entry was used, and media comes only to a call that the gateway made
\* or answered.
SlotOK(s) ==
  /\ s \in calls => sip[s].lap > 0
  /\ sip[s].media # "none" => sip[s].st \in {"confirmed", "calling", "over"}
SlotsInv == \A s \in Slot : SlotOK(s)

\* What an operation of the SIP client or a callback does to the slots.
SlotStep(s) ==
  \/ sip' = [sip EXCEPT ![s] = NewCall(s, sip'[s].st)] /\ calls' = calls \cup {s}
  \/ /\ calls' \subseteq calls
     /\ \/ UNCHANGED sip
        \/ \E st \in {"confirmed", "over"} : sip' = Enter(s, st)
        \/ sip[s].st = "invited" /\ sip' = Enter(s, "early")
        \/ \E m \in Media :
             /\ sip' = [sip EXCEPT ![s].media = m]
             /\ sip[s].st \in {"confirmed", "calling"} \/ sip[s].media # "none"
        \/ \E d : sip' = [sip EXCEPT ![s].dtmf = d]

\* None of them breaks that.
LEMMA SlotStepKept ==
  ASSUME TypeOK, SlotsInv, NEW s \in Slot, SlotStep(s)
  PROVE  SlotsInv'
<1>1. sip \in [Slot -> SipCall] /\ \A r \in Slot : SlotOK(r) /\ sip[r].lap \in Nat
  BY DEF TypeOK, SipTypeOK, SipCall, SlotsInv
<1>2. CASE sip' = [sip EXCEPT ![s] = NewCall(s, sip'[s].st)] /\ calls' = calls \cup {s}
  <2>1. sip'[s].lap = sip[s].lap + 1 /\ sip'[s].media = "none"
    BY <1>1, <1>2 DEF NewCall
  <2>2. \A r \in Slot : r # s => sip'[r] = sip[r] /\ (r \in calls' => r \in calls)
    BY <1>1, <1>2
  <2> QED BY <1>1, <2>1, <2>2 DEF SlotsInv, SlotOK
<1>3. ASSUME calls' \subseteq calls, sip'[s].lap = sip[s].lap,
             sip'[s].media # "none" => sip'[s].st \in {"confirmed", "calling", "over"},
             \A r \in Slot : r # s => sip'[r] = sip[r]
      PROVE  SlotsInv'
  BY <1>1, <1>3 DEF SlotsInv, SlotOK
<1>4. CASE calls' \subseteq calls /\ UNCHANGED sip
  BY <1>4 DEF SlotsInv, SlotOK
<1>5. ASSUME NEW st, sip' = Enter(s, st), calls' \subseteq calls,
             st \in {"confirmed", "over"} \/ sip[s].st = "invited"
      PROVE  SlotsInv'
  BY <1>1, <1>3, <1>5, EnterFields DEF SlotOK
<1>6. ASSUME NEW m, sip' = [sip EXCEPT ![s].media = m], calls' \subseteq calls,
             sip[s].st \in {"confirmed", "calling"} \/ sip[s].media # "none"
      PROVE  SlotsInv'
  BY <1>1, <1>3, <1>6 DEF SlotOK, SipCall
<1>7. ASSUME NEW d, sip' = [sip EXCEPT ![s].dtmf = d], calls' \subseteq calls
      PROVE  SlotsInv'
  BY <1>1, <1>3, <1>7 DEF SlotOK, SipCall
<1> QED BY <1>2, <1>4, <1>5, <1>6, <1>7 DEF SlotStep

\* Every step is one of them, or leaves the slots alone.
LEMMA SlotSteps ==
  ASSUME Prior, AnswersInv, [Next]_vars
  PROVE  (\E s \in Slot : SlotStep(s)) \/ UNCHANGED <<sip, calls>>
<1>1. sip \in [Slot -> SipCall] /\ calls \subseteq Slot
  BY DEF Prior, TypeOK, SipTypeOK
<1>2. ASSUME NEW s \in Slot, NEW q, Dial(s, q) \/ Hangup(s, q) \/ AnswerOk(s, q)
      PROVE  SlotStep(s) \/ UNCHANGED <<sip, calls>>
  BY <1>1, <1>2 DEF Dial, Hangup, AnswerOk, SlotStep, NewCall
<1>3. ASSUME NEW s \in Slot, NEW x, OnIncomingCall(s, x) \/ OnCallMediaState(s) \/ OnCallDisconnected(s)
      PROVE  SlotStep(s) \/ UNCHANGED <<sip, calls>>
  BY <1>1, <1>3 DEF OnIncomingCall, OnCallMediaState, OnCallDisconnected, SlotStep, NewCall, Media
<1>4. ASSUME NEW b, CleanUp(b)
      PROVE  (\E s \in Slot : SlotStep(s)) \/ UNCHANGED <<sip, calls>>
  <2>1. CASE b.sip \in Slot /\ Hangup(b.sip, sipRest)
    BY <1>2, <2>1
  <2>2. CASE UNCHANGED <<sip, calls>>
    BY <2>2
  <2> QED BY <1>1, <1>4, <2>1, <2>2 DEF CleanUp, SipSame, Hangup
<1>5. CASE UNCHANGED <<sip, calls>>
  BY <1>5
<1>6. CASE \E b : CleanUp(b)
  BY <1>4, <1>6
<1>7. CASE \E id : StartFromTg(id)
  BY <1>2, <1>5, <1>7 DEF StartFromTg, SipSame
<1>8. CASE \E c, id : AnswerSip(c, id)
  <2>1. PICK c, id : AnswerSip(c, id)
    BY <1>8
  <2>2. CASE AnswerOk(bridges[c].sip, sipRest)
    BY <1>1, <1>2, <2>2 DEF AnswerOk, CanAnswer
  <2> QED BY <1>5, <2>1, <2>2 DEF AnswerSip, SipSame
<1>9. CASE \E c, m : DialDtmf(c, m)
  <2>1. PICK c, m : DialDtmf(c, m)
    BY <1>9
  <2>2. PICK s \in Slot : s = bridges[c].sip
    BY <1>1, <2>1 DEF DialDtmf
  <2>3. /\ sip' = IF Live(s) THEN [sip EXCEPT ![s].dtmf = @ \cup {m.from}] ELSE sip
        /\ UNCHANGED calls
    BY <2>1, <2>2 DEF DialDtmf
  <2> QED BY <2>3 DEF SlotStep
<1>10. CASE PollInternal
  BY <1>5, <1>6, <1>10 DEF PollInternal, Ignore, SipSame, OnInternalError, Close
<1>11. CASE PollTg
  <2>1. CASE \E id, st : OnUpdateCall(id, st)
    BY <1>5, <1>6, <1>7, <1>8, <2>1
    DEF OnUpdateCall, BridgeOnUpdateCall, RefuseFromTg, TgEnded, Close, BridgeFromTg, Ignore, SipSame
  <2>2. CASE Ignore \/ \E m : OnNewMessage(m)
    BY <1>5, <1>9, <2>2 DEF OnNewMessage, Ignore, SipSame
  <2> QED BY <1>11, <2>1, <2>2 DEF PollTg
<1>12. CASE PollSip
  <2>1. CASE Ignore
    BY <1>5, <2>1 DEF Ignore, SipSame
  <2>2. CASE sipQ # <<>> /\ OnSipEvent(Head(sipQ))
    <3>1. PICK e \in SipEvent : e = Head(sipQ) /\ OnSipEvent(e)
      BY <2>2, HeadType DEF Prior, TypeOK, SipTypeOK
    <3>2. CASE e.kind = "IncomingCall" /\ StartFromSip(e.id, e.ext)
      <4>1. PICK s \in Slot : s = e.id
        BY <3>1 DEF SipEvent
      <4>2. sip[s].st \in {"invited", "over"}
        <5>1. PICK q \in Seq(SipEvent) : q = sipQ
          BY DEF Prior, TypeOK, SipTypeOK
        <5>2. Calling(s, sipQ) # {}
          BY <2>2, <3>1, <3>2, <4>1, <5>1, CallingTail
        <5> QED BY <5>2 DEF AnswersInv, Orderly, Fresh
      <4>3. UNCHANGED <<sip, calls>> \/ AnswerRinging(s, sipRest)
        BY <3>2, <4>1 DEF StartFromSip, SipSame
      <4> QED BY <1>5, <4>2, <4>3 DEF AnswerRinging, CanAnswer, Live, SlotStep
    <3>3. ASSUME NEW c, BridgeOnCallState(c, e.state) \/ BridgeOnCallMedia(c, e.has_media)
          PROVE  (\E b : CleanUp(b)) \/ UNCHANGED <<sip, calls>>
      BY <3>3 DEF BridgeOnCallState, BridgeOnCallMedia, SipEnded, Close, DialTg, AnswerTg,
                  BridgeFromSip, Ignore, SipSame
    <3> QED BY <1>5, <1>6, <2>1, <3>1, <3>2, <3>3 DEF OnSipEvent
  <2> QED BY <1>12, <2>1, <2>2 DEF PollSip
<1>13. CASE Sip
  BY <1>3, <1>13 DEF Sip, PjsipThread
<1>14. CASE Abort \/ Stop \/ Clock \/ TdLib \/ UNCHANGED vars
  BY <1>5, <1>14 DEF Abort, LookupAborts, DtmfAborts, Ignore, SipSame, Stop, Clock, TdLib, vars
<1> QED BY <1>10, <1>11, <1>12, <1>13, <1>14 DEF Next, Loop

\* The invariant of the slots.
LEMMA SlotsNext ==
  ASSUME Prior, AnswersInv, SlotsInv, [Next]_vars
  PROVE  SlotsInv'
<1>1. CASE UNCHANGED <<sip, calls>>
  BY <1>1 DEF SlotsInv, SlotOK
<1> QED BY <1>1, SlotSteps, SlotStepKept DEF Prior

\* No slot has an entry at the start.
LEMMA SlotsInit == Init => SlotsInv
BY DEF Init, SipInit, SlotsInv, SlotOK

-----------------------------------------------------------------------------
(* The handlers, as steps of CallBridge. *)

\* Nothing that the abstract specification speaks of changes.
Unseen == UNCHANGED <<TgLines, SipLines, Pairs, Joins, ctxCounter>>
Seen == Promise!Next \/ Unseen

\* discardCall ends a call that is in use.
LEMMA DiscardEnds ==
  ASSUME TypeOK, NEW i \in TgId \cup {NoTg}, Discard(i)
  PROVE  /\ \A id \in TgId : id # i => tg'[id] = tg[id]
         /\ i \in TgId /\ tg[i].st # "unused" => tg'[i].st \in {"closing", "ended"}
         /\ i = NoTg => UNCHANGED tg
<1>1. tg \in [TgId -> TgCall]
  BY DEF TypeOK
<1> QED BY <1>1, NoneAssumption DEF Discard, TgLive, TgCall

\* So does Hangup with a call that has an entry.
LEMMA HangupEnds ==
  ASSUME TypeOK, NEW s \in Slot, NEW q, Hangup(s, q), s \in calls
  PROVE  /\ \A r \in Slot : r # s => sip'[r] = sip[r]
         /\ sip'[s].st = "over" /\ sip'[s].lap = sip[s].lap
<1>1. CASE Live(s)
  BY <1>1, EnterFields DEF Hangup
<1>2. CASE ~Live(s)
  BY <1>2 DEF Hangup, Live
<1> QED BY <1>1, <1>2

\* A bridge that goes leaves neither of its calls up.
LEMMA CloseFinishes ==
  ASSUME Prior, Prior', NEW c \in DOMAIN bridges, NEW b, Close(c, b),
         b.tg \in {bridges[c].tg, NoTg}, b.sip \in {bridges[c].sip, NoSip},
         b.tg = NoTg => bridges[c].tg = NoTg \/ tg[bridges[c].tg].st = "ended",
         b.sip = NoSip /\ bridges[c].sip # NoSip =>
           sip[bridges[c].sip].lap > 1 \/ ~Live(bridges[c].sip)
  PROVE  Promise!Next
<1>1. TypeOK /\ TypeOK'
  BY DEF Prior
<1>2. PICK i \in TgId \cup {NoTg}, s \in Slot \cup {NoSip} : i = bridges[c].tg /\ s = bridges[c].sip
  BY <1>1, BridgeType DEF TypeOK, Context
<1>3. TgLines' = [id \in TgId |-> IF i = id THEN "over" ELSE TgLines[id]]
  <2>1. PICK j \in TgId \cup {NoTg} : j = b.tg /\ Discard(j)
    BY <1>2 DEF Close, CleanUp
  <2>2. \A id \in TgId : id # i => tg'[id] = tg[id]
    BY <1>1, <1>2, <2>1, DiscardEnds
  <2>3. i \in TgId => tg'[i].st \in {"closing", "ended"}
    <3>1. i \in TgId => tg[i].st # "unused"
      BY <1>2, NoneAssumption DEF Prior, LegsInv, LegInv, LegsUsed
    <3> QED BY <1>1, <1>2, <2>1, <3>1, DiscardEnds, NoneAssumption
  <2> QED BY <2>2, <2>3 DEF TgLines, TgLine
<1>4. SipLines' = [r \in Slot |-> IF s = r THEN "over" ELSE SipLines[r]]
  <2>1. s \in Slot => s \in calls /\ sip[s].lap > 0 /\ sip[s].lap \in Nat
    BY <1>1, <1>2 DEF Prior, SipInv, Settled, Entered, Truthful, Holds, TypeOK, SipTypeOK, SipCall
  <2>2. \A r \in Slot : r # s => sip'[r] = sip[r]
    <3>1. CASE b.sip = NoSip
      BY <3>1 DEF Close, CleanUp, SipSame
    <3>2. CASE b.sip # NoSip
      <4>1. s \in Slot /\ Hangup(s, sipRest)
        BY <1>2, <3>2 DEF Close, CleanUp
      <4> QED BY <1>1, <2>1, <4>1, HangupEnds
    <3> QED BY <3>1, <3>2
  <2>3. s \in Slot => sip'[s].lap = sip[s].lap /\ (sip'[s].lap > 1 \/ sip'[s].st = "over")
    <3>1. CASE b.sip = NoSip
      BY <1>2, <3>1, NoSipAssumption DEF Close, CleanUp, SipSame, Live
    <3>2. CASE b.sip # NoSip
      <4>1. s \in Slot /\ Hangup(s, sipRest)
        BY <1>2, <3>2 DEF Close, CleanUp
      <4> QED BY <1>1, <2>1, <4>1, HangupEnds
    <3> QED BY <3>1, <3>2
  <2> QED BY <2>1, <2>2, <2>3 DEF SipLines, SipLine, Live
<1>5. /\ Pairs' = [d \in DOMAIN Pairs \ {c} |-> Pairs[d]] /\ Joins' = Joins \ {c}
      /\ UNCHANGED ctxCounter /\ c \in DOMAIN Pairs /\ Pairs[c].tg = i /\ Pairs[c].sip = s
  BY <1>2, PairsClose, PairIs
<1>6. Promise!Finish(c)
  BY <1>3, <1>4, <1>5 DEF Promise!Finish
<1> QED BY <1>5, <1>6 DEF Promise!Next

\* A dropped event shows nothing.
LEMMA IgnoreUnseen == Ignore => Unseen
BY OneLine, PairIs DEF Ignore, SipSame, Unseen

-----------------------------------------------------------------------------
(* Updates of Telegram calls. *)

\* What a new call in a slot looks like: it rings if the slot was never used.
LEMMA NewCallLine ==
  ASSUME TypeOK, TypeOK', SlotsInv, NEW s \in Slot, NEW st \in {"calling", "invited"},
         sip' = [sip EXCEPT ![s] = NewCall(s, IF s \in calls THEN "over" ELSE st)], Free(s)
  PROVE  /\ SipLines' = [SipLines EXCEPT ![s] = SipLines'[s]]
         /\ \/ SipLines[s] = "idle" /\ SipLines'[s] = "ringing"
            \/ SipLines[s] = "over" /\ SipLines'[s] = "over"
<1>1. /\ \A r \in Slot : r # s => sip'[r] = sip[r]
      /\ sip'[s].lap = sip[s].lap + 1 /\ sip[s].lap \in Nat /\ sip'[s].media = "none"
      /\ sip'[s].st = (IF s \in calls THEN "over" ELSE st)
  BY DEF NewCall, TypeOK, SipTypeOK, SipCall
<1>2. s \in calls => sip[s].lap > 0
  BY DEF SlotsInv, SlotOK
<1>3. ~Live(s)
  BY DEF Free
<1>4. SipLines' = [SipLines EXCEPT ![s] = SipLines'[s]]
  BY <1>1, OneLine
<1>5. CASE sip[s].lap = 0
  BY <1>1, <1>2, <1>3, <1>4, <1>5, SipLineIs
<1>6. CASE sip[s].lap > 0
  BY <1>1, <1>2, <1>3, <1>4, <1>6, SipLineIs
<1> QED BY <1>1, <1>5, <1>6

\* A bridge for a Telegram caller.
LEMMA StartFromTgSeen ==
  ASSUME Prior, Prior', AnswersInv, SlotsInv, NEW id \in TgId, StartFromTg(id),
         Matches("tg", id) = {}, ~tg[id].out, tg[id].st # "unused"
  PROVE  Seen
<1>1. TypeOK /\ TypeOK'
  BY DEF Prior
<1>2. UNCHANGED tg /\ UNCHANGED TgLines
  BY OneLine DEF StartFromTg
<1>3. PICK s, d :
        /\ s \in Slot \cup {NoSip} /\ Open(d) /\ d.st = "tg_wait_media" /\ d.tg = id /\ d.sip = s /\ d.audio = FALSE
        /\ \/ s \in Slot /\ Dial(s, sipRest)
           \/ s = NoSip /\ UNCHANGED sip
  <2> DEFINE b == [NewContext("tg_wait_media") EXCEPT !.tg = id, !.user = tg[id].user]
  <2>1. /\ b.st = "tg_wait_media" /\ b.sip = NoSip /\ b.tg = id /\ b.audio = FALSE
        /\ \A s : LET d == [b EXCEPT !.sip = s]
                  IN  d.st = "tg_wait_media" /\ d.sip = s /\ d.tg = id /\ d.audio = FALSE
    BY DEF NewContext
  <2>2. \/ \E s \in Slot : Dial(s, sipRest) /\ Open([b EXCEPT !.sip = s])
        \/ Open(b) /\ UNCHANGED sip
    BY DEF StartFromTg, SipSame
  <2> HIDE DEF b
  <2> QED BY <2>1, <2>2
<1>4. /\ Pair(d) = [from |-> "tg", tg |-> id, sip |-> s]
      /\ Promise!New(Pair(d))
  BY <1>1, <1>3, PairsOpen DEF Pair, FromTg, Promise!New
<1>5. TgLines[id] \in {"ringing", "over"} /\ ~Promise!HasTg(id)
  <2>1. \A c \in DOMAIN bridges : bridges[c].tg # id
    BY DEF Matches
  <2>2. tg[id].st \notin {"exchange", "ready"}
    BY <2>1 DEF AnswersInv, Orderly, ExchangeServed
  <2>3. tg[id].st \in TgState
    BY <1>1 DEF TypeOK, TgCall
  <2> QED BY <1>1, <2>1, <2>2, <2>3, TgLineIs, PairIs DEF TgState, Promise!HasTg
<1>6. \/ s = NoSip /\ UNCHANGED SipLines
      \/ Promise!Sip(s, {"idle"}, "ringing")
      \/ Promise!Sip(s, {"over"}, "over")
  <2>1. CASE s = NoSip /\ UNCHANGED sip
    BY <2>1, OneLine
  <2>2. CASE s \in Slot /\ Dial(s, sipRest)
    BY <1>1, <2>2, NewCallLine DEF Dial, Promise!Sip
  <2> QED BY <1>3, <2>1, <2>2
<1>7. Promise!TakeTg(id, s)
  BY <1>2, <1>4, <1>5, <1>6 DEF Promise!TakeTg
<1> QED BY <1>3, <1>7 DEF Seen, Promise!Next

\* One Telegram call is discarded, and nothing else happens.
LEMMA DiscardSeen ==
  ASSUME Prior, Prior', NEW id \in TgId, tg[id].st # "unused", Discard(id),
         UNCHANGED <<sip, bridges, ctxCounter>>
  PROVE  Seen
<1>1. TypeOK /\ TypeOK'
  BY DEF Prior
<1>2. /\ \A i \in TgId : i # id => tg'[i] = tg[i]
      /\ tg'[id].st \in {"closing", "ended"} /\ tg[id].st \in TgState
  BY <1>1, DiscardEnds DEF TypeOK, TgCall
<1>3. /\ TgLines' = [TgLines EXCEPT ![id] = "over"]
      /\ TgLines[id] \in {"ringing", "answered", "over"}
      /\ TgLines[id] = "over" => UNCHANGED TgLines
  BY <1>1, <1>2, OneLine, TgLineIs DEF TgState
<1>4. UNCHANGED <<SipLines, Pairs, Joins, ctxCounter>>
  BY OneLine, PairIs
<1>5. CASE TgLines[id] # "over"
  <2>1. Promise!TgHangsUp(id)
    BY <1>3, <1>4, <1>5 DEF Promise!TgHangsUp, Promise!Tg, Promise!Up
  <2> QED BY <2>1 DEF Seen, Promise!Next
<1> QED BY <1>3, <1>4, <1>5 DEF Seen, Unseen

\* A call that is refused.
LEMMA RefuseFromTgSeen ==
  ASSUME Prior, Prior', NEW id \in TgId, RefuseFromTg(id), tg[id].st # "unused"
  PROVE  Seen
<1> DEFINE b == [NewContext("tg_wait_media") EXCEPT !.tg = id]
<1>1. b.sip = NoSip /\ b.tg = id
  BY DEF NewContext
<1>2. CleanUp(b) /\ UNCHANGED <<bridges, ctxCounter>>
  BY DEF RefuseFromTg
<1> HIDE DEF b
<1>3. Discard(id) /\ UNCHANGED sip
  BY <1>1, <1>2 DEF CleanUp, SipSame
<1> QED BY <1>2, <1>3, DiscardSeen

\* A bridge writes its record: unless the audio is joined, it keeps its pair.
LEMMA PutUnseen ==
  ASSUME NEW c \in DOMAIN bridges, NEW b, Put(c, b), b.tg = bridges[c].tg, b.sip = bridges[c].sip,
         b.audio = bridges[c].audio, b.st \in FromTg <=> bridges[c].st \in FromTg
  PROVE  UNCHANGED <<Pairs, Joins, ctxCounter>>
BY PairsPut DEF Pair

\* Audio is joined between two parties that answered.
LEMMA JoinSeen ==
  ASSUME Prior, Prior', AnswersInv, SlotsInv, NEW c \in DOMAIN bridges, bridges[c].tg # NoTg,
         tg[bridges[c].tg].st \in {"ready", "closing", "ended"},
         \/ BridgeFromTg(c) /\ bridges[c].st = "tg_wait_tg"
         \/ BridgeFromSip(c) /\ bridges[c].st = "sip_wait_media"
  PROVE  Seen
<1>1. TypeOK /\ TypeOK'
  BY DEF Prior
<1>2. PICK a \in Context : a = bridges[c]
  BY <1>1, BridgeType DEF TypeOK
<1>3. UNCHANGED <<TgLines, SipLines>>
  BY OneLine DEF BridgeFromTg, BridgeFromSip, SipSame
<1>4. PICK b :
        /\ b.sip = a.sip /\ b.tg = a.tg /\ (b.st \in FromTg <=> a.st \in FromTg)
        /\ Put(c, b)
        /\ b.audio = a.audio \/ (b.audio /\ CanBridgeAudio(a.sip))
  <2>1. PICK st : /\ st = IF a.st = "tg_wait_tg" THEN "tg_wait_dtmf" ELSE "sip_wait_dtmf"
                  /\ st \in FromTg <=> a.st \in FromTg
    BY <1>2 DEF FromTg
  <2> DEFINE b == [a EXCEPT !.st = st]
             d == [b EXCEPT !.audio = TRUE]
  <2>2. /\ b.sip = a.sip /\ b.tg = a.tg /\ b.st = st /\ b.audio = a.audio
        /\ d.sip = a.sip /\ d.tg = a.tg /\ d.st = st /\ d.audio
    BY <1>2 DEF Context
  <2>3. \/ CanBridgeAudio(b.sip) /\ Put(c, d)
        \/ Put(c, b)
    BY <1>2, <2>1 DEF BridgeFromTg, BridgeFromSip
  <2> HIDE DEF b, d
  <2> QED BY <2>1, <2>2, <2>3
<1>5. CASE b.audio = a.audio
  BY <1>2, <1>3, <1>4, <1>5, PutUnseen DEF Seen, Unseen
<1>6. CASE b.audio = TRUE /\ CanBridgeAudio(a.sip)
  <2>1. PICK s \in Slot, id \in TgId : s = a.sip /\ id = a.tg
    BY <1>1, <1>2, <1>6 DEF CanBridgeAudio, TypeOK, SipTypeOK, Context
  <2>2. TgLines[id] \in {"answered", "over"}
    BY <1>1, <1>2, <2>1, TgLineIs
  <2>3. SipLines[s] \in {"answered", "over"}
    <3>1. /\ sip[s].lap > 0 /\ sip[s].lap \in Nat /\ sip[s].media # "none" /\ Live(s)
      BY <1>1, <1>6, <2>1 DEF CanBridgeAudio, SlotsInv, SlotOK, TypeOK, SipTypeOK, SipCall
    <3> QED BY <1>1, <3>1, SipLineIs
  <2>4. /\ Pairs[c].tg = id /\ Pairs[c].sip = s /\ c \in DOMAIN Pairs
        /\ UNCHANGED <<Pairs, ctxCounter>> /\ Joins' = Joins \cup {c}
    <3>1. Pair(b) = Pair(a)
      BY <1>4 DEF Pair
    <3> QED BY <1>2, <1>4, <1>6, <2>1, <3>1, PairIs, PairsPut
  <2>5. id # NoTg /\ s # NoSip
    BY NoneAssumption, NoSipAssumption
  <2>6. Promise!Join(c)
    BY <1>3, <2>2, <2>3, <2>4, <2>5 DEF Promise!Join, Promise!Past
  <2> QED BY <2>4, <2>6 DEF Seen, Promise!Next
<1> QED BY <1>2, <1>4, <1>5, <1>6 DEF Context

\* A SIP caller is answered after the callee.
LEMMA AnswerSipSeen ==
  ASSUME Prior, Prior', AnswersInv, SlotsInv, NEW c \in DOMAIN bridges, NEW id \in TgId,
         AnswerSip(c, id), bridges[c].st = "sip_wait_tg", bridges[c].tg = id,
         tg[id].st \in {"ready", "closing", "ended"}
  PROVE  Seen
<1>1. TypeOK /\ TypeOK'
  BY DEF Prior
<1>2. PICK a \in Context : a = bridges[c]
  BY <1>1, BridgeType DEF TypeOK
<1>3. UNCHANGED <<TgLines, Pairs, Joins, ctxCounter>>
  <2>1. PICK b : /\ Put(c, b) /\ b.st = "sip_wait_media" /\ b.sip = a.sip /\ b.tg = a.tg
                 /\ b.audio = a.audio
    <3> DEFINE b == [a EXCEPT !.st = "sip_wait_media", !.user = tg[id].user]
    <3>1. b.st = "sip_wait_media" /\ b.sip = a.sip /\ b.tg = a.tg /\ b.audio = a.audio
      BY <1>2 DEF Context
    <3>2. Put(c, b)
      BY <1>2 DEF AnswerSip
    <3> HIDE DEF b
    <3> QED BY <3>1, <3>2
  <2> QED BY <1>2, <2>1, PutUnseen, OneLine DEF FromTg, AnswerSip
<1>4. CASE UNCHANGED sip
  BY <1>3, <1>4, OneLine DEF Seen, Unseen
<1>5. CASE AnswerOk(a.sip, sipRest)
  <2>1. PICK s \in Slot : s = a.sip
    BY <1>1, <1>5 DEF AnswerOk, CanAnswer, TypeOK, SipTypeOK
  <2>2. /\ Live(s) /\ sip[s].lap > 0 /\ sip[s].lap \in Nat /\ sip[s].st \in {"invited", "early"}
        /\ sip[s].media = "none"
    BY <1>1, <1>2, <1>5, <2>1
    DEF AnswersInv, Orderly, BridgeOK, RingsFirst, Unanswered, AnswerOk, CanAnswer, Live,
        SlotsInv, SlotOK, TypeOK, SipTypeOK, SipCall
  <2>3. /\ sip'[s].st = "confirmed" /\ sip'[s].lap = sip[s].lap
        /\ \A r \in Slot : r # s => sip'[r] = sip[r]
    BY <1>1, <1>5, <2>1, EnterFields DEF AnswerOk
  <2>4. SipLines' = [SipLines EXCEPT ![s] = SipLines'[s]]
    BY <2>3, OneLine
  <2>5. CASE sip[s].lap > 1
    <3>1. SipLines'[s] = SipLines[s]
      BY <1>1, <2>2, <2>3, <2>5, SipLineIs
    <3> QED BY <1>3, <2>3, <3>1, OneLine DEF Seen, Unseen
  <2>6. CASE sip[s].lap = 1
    <3>1. SipLines[s] = "ringing" /\ SipLines'[s] = "answered"
      BY <1>1, <2>2, <2>3, <2>6, SipLineIs
    <3>2. TgLines[id] \in {"answered", "over"} /\ id # NoTg
      BY <1>1, TgLineIs, NoneAssumption
    <3>3. Pairs[c].from = "sip" /\ Pairs[c].tg = id /\ Pairs[c].sip = s /\ c \in DOMAIN Pairs
      BY <1>2, <2>1, PairIs DEF FromTg
    <3>4. Promise!AnswerSip(c)
      BY <1>3, <2>4, <3>1, <3>2, <3>3 DEF Promise!AnswerSip, Promise!Sip, Promise!Past
    <3> QED BY <3>3, <3>4 DEF Seen, Promise!Next
  <2> QED BY <2>2, <2>5, <2>6
<1> QED BY <1>2, <1>4, <1>5 DEF AnswerSip, SipSame

\* Every transition for an update of a Telegram call, which the queue reports truly.
LEMMA OnUpdateCallSeen ==
  ASSUME Prior, Prior', AnswersInv, SlotsInv, NEW id \in TgId, NEW st, OnUpdateCall(id, st),
         tg[id].st # "unused",
         st = "Ready" => tg[id].st \in {"ready", "closing", "ended"},
         st = "Ended" => tg[id].st = "ended"
  PROVE  Seen
<1>1. CASE Ignore
  BY <1>1, IgnoreUnseen DEF Seen
<1>2. CASE Matches("tg", id) = {} /\ Rings(id, st) /\ StartFromTg(id)
  BY <1>2, StartFromTgSeen DEF Rings
<1>3. CASE RefuseFromTg(id)
  BY <1>3, RefuseFromTgSeen
<1>4. ASSUME NEW c \in DOMAIN bridges, First(c, Matches("tg", id)), BridgeOnUpdateCall(c, id, st)
      PROVE  Seen
  <2>1. bridges[c].tg = id /\ id # NoTg
    BY <1>4, NoneAssumption DEF First, Matches
  <2>2. CASE st = "Ready" /\ bridges[c].st = "tg_wait_tg" /\ BridgeFromTg(c)
    BY <2>1, <2>2, JoinSeen
  <2>3. CASE st = "Ready" /\ bridges[c].st = "sip_wait_tg" /\ AnswerSip(c, id)
    BY <2>1, <2>3, AnswerSipSeen
  <2>4. CASE st = "Ended" /\ TgEnded(c)
    <3>1. PICK b : Close(c, b) /\ b.sip = bridges[c].sip /\ b.tg = NoTg
      BY <2>4, BridgeType DEF TgEnded, Prior, TypeOK, Context
    <3> QED BY <2>1, <2>4, <3>1, CloseFinishes DEF Seen
  <2> QED BY <1>1, <1>4, <2>2, <2>3, <2>4 DEF BridgeOnUpdateCall
<1> QED BY <1>1, <1>2, <1>3, <1>4 DEF OnUpdateCall

\* Digits show nothing.
LEMMA DialDtmfUnseen ==
  ASSUME Prior, Prior', NEW c, NEW m, DialDtmf(c, m)
  PROVE  Unseen
<1>1. TypeOK /\ TypeOK' /\ UNCHANGED <<bridges, ctxCounter, tg>>
  BY DEF Prior, DialDtmf
<1>2. PICK s \in Slot : s = bridges[c].sip
  BY <1>1 DEF DialDtmf, TypeOK, SipTypeOK
<1>3. sip' = IF Live(s) THEN [sip EXCEPT ![s].dtmf = @ \cup {m.from}] ELSE sip
  BY <1>2 DEF DialDtmf
<1>4. /\ sip'[s].st = sip[s].st /\ sip'[s].lap = sip[s].lap /\ sip'[s].media = sip[s].media
      /\ \A r \in Slot : r # s => sip'[r] = sip[r]
  BY <1>1, <1>3 DEF TypeOK, SipTypeOK, SipCall
<1>5. SipLines'[s] = SipLines[s]
  BY <1>4 DEF SipLines, SipLine, Live
<1> QED BY <1>1, <1>4, <1>5, OneLine, PairIs DEF Unseen

-----------------------------------------------------------------------------
(* Events of SIP. *)

\* A bridge for a SIP caller, who rings.
LEMMA StartFromSipSeen ==
  ASSUME Prior, Prior', AnswersInv, SlotsInv, NEW s \in Slot, NEW x \in Ext, StartFromSip(s, x),
         Matches("sip", s) = {}, sip[s].lap > 0, sip[s].st \in {"invited", "over"}
  PROVE  Seen
<1>1. TypeOK /\ TypeOK'
  BY DEF Prior
<1>2. PICK b : b.st = "sip_wait_confirm" /\ b.sip = s /\ b.tg = NoTg /\ b.audio = FALSE /\ Open(b)
  <2> DEFINE b == [NewContext("sip_wait_confirm") EXCEPT
                     !.sip = s,
                     !.ext = IF x \in Named THEN x ELSE NoExt,
                     !.user = IF ExtKind[x] = "id" THEN ExtUser[x] ELSE NoUser]
  <2>1. b.st = "sip_wait_confirm" /\ b.sip = s /\ b.tg = NoTg /\ b.audio = FALSE
    BY DEF NewContext
  <2>2. Open(b)
    BY DEF StartFromSip
  <2> HIDE DEF b
  <2> QED BY <2>1, <2>2
<1>3. /\ Pair(b) = [from |-> "sip", tg |-> NoTg, sip |-> s]
      /\ Promise!New(Pair(b))
  BY <1>1, <1>2, PairsOpen DEF Pair, FromTg, Promise!New
<1>4. /\ sip[s].media # "none" => sip[s].st = "over"
      /\ sip[s].lap \in Nat
  BY <1>1 DEF SlotsInv, SlotOK, TypeOK, SipTypeOK, SipCall
<1>5. SipLines[s] \in {"ringing", "over"} /\ ~Promise!HasSip(s)
  <2>1. \A c \in DOMAIN bridges : bridges[c].sip # s
    BY DEF Matches
  <2>2. SipLines[s] \in {"ringing", "over"}
    BY <1>4 DEF SipLines, SipLine, Live
  <2> QED BY <2>1, <2>2, PairIs DEF Promise!HasSip
<1>6. UNCHANGED SipLines
  <2>1. CASE UNCHANGED sip
    BY <2>1, OneLine
  <2>2. CASE AnswerRinging(s, sipRest)
    <3>1. /\ sip'[s].st = "early" /\ sip'[s].lap = sip[s].lap /\ sip'[s].media = sip[s].media
          /\ \A r \in Slot : r # s => sip'[r] = sip[r]
      BY <1>1, <2>2, EnterFields DEF AnswerRinging
    <3>2. sip[s].st = "invited"
      BY <2>2 DEF AnswerRinging, CanAnswer, Live
    <3>3. SipLines'[s] = SipLines[s]
      BY <3>1, <3>2 DEF SipLines, SipLine, Live
    <3> QED BY <3>1, <3>3, OneLine
  <2> QED BY <2>1, <2>2 DEF StartFromSip, SipSame
<1>7. Promise!TakeSip(s)
  BY <1>3, <1>5, <1>6, OneLine DEF Promise!TakeSip, StartFromSip
<1> QED BY <1>7 DEF Seen, Promise!Next

\* A Telegram caller is answered after the SIP side.
LEMMA AnswerTgSeen ==
  ASSUME Prior, Prior', SlotsInv, NEW c \in DOMAIN bridges, AnswerTg(c),
         bridges[c].st = "tg_wait_media", NEW s \in Slot, bridges[c].sip = s, sip[s].lap > 0,
         sip[s].lap = 1 => sip[s].media # "none"
  PROVE  Seen
<1>1. TypeOK /\ TypeOK'
  BY DEF Prior
<1>2. PICK a \in Context : a = bridges[c]
  BY <1>1, BridgeType DEF TypeOK
<1>3. PICK b : /\ b = [a EXCEPT !.st = "tg_wait_tg"] /\ b.st = "tg_wait_tg"
               /\ b.tg = a.tg /\ b.sip = a.sip /\ b.audio = a.audio
  <2> DEFINE b == [a EXCEPT !.st = "tg_wait_tg"]
  <2>1. b.st = "tg_wait_tg" /\ b.tg = a.tg /\ b.sip = a.sip /\ b.audio = a.audio
    BY <1>2 DEF Context
  <2> HIDE DEF b
  <2>2. b = [a EXCEPT !.st = "tg_wait_tg"]
    BY DEF b
  <2> QED BY <2>1, <2>2
<1>4. /\ Put(c, b) /\ UNCHANGED sip
      /\ \/ /\ tg[b.tg].st \in {"pending", "received"}
            /\ tg' = [tg EXCEPT ![b.tg].st = "exchange"]
         \/ UNCHANGED tg
  BY <1>2, <1>3 DEF AnswerTg, SipSame
<1>5. UNCHANGED <<SipLines, Pairs, Joins, ctxCounter>>
  BY <1>2, <1>3, <1>4, PutUnseen, OneLine DEF FromTg
<1>6. CASE UNCHANGED tg
  BY <1>5, <1>6, OneLine DEF Seen, Unseen
<1>7. CASE b.tg \notin TgId /\ tg' = [tg EXCEPT ![b.tg].st = "exchange"]
  <2>1. UNCHANGED tg
    BY <1>1, <1>7 DEF TypeOK
  <2> QED BY <1>6, <2>1
<1>8. CASE /\ b.tg \in TgId /\ tg[b.tg].st \in {"pending", "received"}
           /\ tg' = [tg EXCEPT ![b.tg].st = "exchange"]
  <2>1. PICK id \in TgId : id = a.tg /\ id = b.tg
    BY <1>3, <1>8
  <2>2. tg'[id].st = "exchange" /\ \A i \in TgId : i # id => tg'[i] = tg[i]
    BY <1>1, <1>8, <2>1 DEF TypeOK, TgCall
  <2>3. /\ TgLines[id] = "ringing" /\ TgLines'[id] = "answered"
        /\ TgLines' = [TgLines EXCEPT ![id] = TgLines'[id]]
    BY <1>1, <1>8, <2>1, <2>2, TgLineIs, OneLine
  <2>4. SipLines[s] \in {"answered", "over"} /\ s # NoSip
    <3>1. sip[s].lap \in Nat
      BY <1>1 DEF TypeOK, SipTypeOK, SipCall
    <3> QED BY <3>1, NoSipAssumption DEF SipLines, SipLine, Live
  <2>5. Pairs[c].from = "tg" /\ Pairs[c].tg = id /\ Pairs[c].sip = s /\ c \in DOMAIN Pairs
    BY <1>2, <2>1, PairIs DEF FromTg
  <2>6. Promise!AnswerTg(c)
    BY <1>5, <2>3, <2>4, <2>5 DEF Promise!AnswerTg, Promise!Tg, Promise!Past
  <2> QED BY <2>5, <2>6 DEF Seen, Promise!Next
<1> QED BY <1>4, <1>6, <1>7, <1>8

\* The Telegram call of a SIP caller.
LEMMA DialTgSeen ==
  ASSUME Prior, Prior', NEW c \in DOMAIN bridges, DialTg(c), bridges[c].st = "sip_wait_confirm"
  PROVE  Seen
<1>1. TypeOK /\ TypeOK'
  BY DEF Prior
<1>2. PICK a \in Context : a = bridges[c] /\ a.tg = NoTg
  BY <1>1, BridgeType DEF Prior, TypeOK, LegsInv, LegInv, LegsUsed
<1> DEFINE w == [bridges[c] EXCEPT !.st = "sip_wait_tg"]
<1>3. /\ w.st = "sip_wait_tg" /\ w.sip = a.sip /\ w.tg = NoTg /\ w.audio = a.audio
      /\ \A id : LET d == [w EXCEPT !.tg = id]
                 IN  d.st = "sip_wait_tg" /\ d.sip = a.sip /\ d.tg = id /\ d.audio = a.audio
  BY <1>2 DEF Context
<1>4. /\ UNCHANGED sip
      /\ \/ Put(c, w) /\ UNCHANGED tg
         \/ \E id \in TgId :
              /\ tg[id].st = "unused"
              /\ tg' = [tg EXCEPT ![id] = [st |-> "pending", out |-> TRUE, user |-> Callee(w)]]
              /\ Put(c, [w EXCEPT !.tg = id])
  BY DEF DialTg, DialBlocked, LookupFails, CreateCall, SipSame
<1> HIDE DEF w
<1>5. CASE Put(c, w) /\ UNCHANGED tg
  BY <1>2, <1>3, <1>4, <1>5, PutUnseen, OneLine DEF FromTg, Seen, Unseen
<1>6. ASSUME NEW id \in TgId, tg[id].st = "unused",
             tg' = [tg EXCEPT ![id] = [st |-> "pending", out |-> TRUE, user |-> Callee(w)]],
             Put(c, [w EXCEPT !.tg = id])
      PROVE  Seen
  <2>1. PICK b : /\ b.st = "sip_wait_tg" /\ b.sip = a.sip /\ b.tg = id /\ b.audio = a.audio
                 /\ Put(c, b)
    BY <1>3, <1>6
  <2>2. tg'[id].st = "pending" /\ \A i \in TgId : i # id => tg'[i] = tg[i]
    BY <1>1, <1>6 DEF TypeOK
  <2>3. /\ TgLines[id] = "idle" /\ TgLines'[id] = "ringing"
        /\ TgLines' = [TgLines EXCEPT ![id] = TgLines'[id]]
    BY <1>1, <1>6, <2>2, TgLineIs, OneLine
  <2>4. /\ c \in DOMAIN Pairs /\ Pairs[c].from = "sip" /\ Pairs[c].tg = NoTg
        /\ Pairs' = [Pairs EXCEPT ![c].tg = id] /\ UNCHANGED <<Joins, ctxCounter>>
    <3>1. Pairs[c] = [from |-> "sip", tg |-> NoTg, sip |-> a.sip]
      BY <1>2, PairIs DEF Pair, FromTg
    <3>2. Pair(b) = [from |-> "sip", tg |-> id, sip |-> a.sip]
      BY <2>1 DEF Pair, FromTg
    <3>3. [Pairs[c] EXCEPT !.tg = id] = Pair(b)
      BY <3>1, <3>2
    <3>4. /\ Pairs' = [Pairs EXCEPT ![c] = Pair(b)]
          /\ UNCHANGED <<Joins, ctxCounter>> /\ c \in DOMAIN Pairs
      BY <1>2, <2>1, PairsPut, PairIs
    <3>5. Pairs' = [Pairs EXCEPT ![c].tg = id]
      BY <3>3, <3>4
    <3>6. Pairs[c].from = "sip" /\ Pairs[c].tg = NoTg
      BY <3>1
    <3> QED BY <3>4, <3>5, <3>6, Zenon
  <2>5. UNCHANGED SipLines
    BY <1>4, OneLine
  <2>6. Promise!CallTg(c, id)
    BY <2>3, <2>4, <2>5 DEF Promise!CallTg, Promise!Tg
  <2> QED BY <2>4, <2>6 DEF Seen, Promise!Next
<1> QED BY <1>4, <1>5, <1>6

\* Every transition for an event of SIP.
LEMMA OnSipEventSeen ==
  ASSUME Prior, Prior', AnswersInv, SlotsInv, sipQ # <<>>, NEW e \in SipEvent, e = Head(sipQ),
         OnSipEvent(e)
  PROVE  Seen
<1>1. PICK s \in Slot : s = e.id
  BY DEF SipEvent
<1>2. TrueEvent(s, e) /\ sip[s].lap > 0 /\ sip[s].lap \in Nat
  BY <1>1, SettledTail DEF Prior, SipInv, TrueEvent, TypeOK, SipTypeOK, SipCall
<1>3. CASE Ignore
  BY <1>3, IgnoreUnseen DEF Seen
<1>4. CASE Matches("sip", s) = {} /\ e.kind = "IncomingCall" /\ StartFromSip(s, e.ext)
  <2>1. PICK x \in Ext : x = e.ext
    BY <1>4 DEF SipEvent
  <2>2. sip[s].st \in {"invited", "over"}
    <3>1. PICK q \in Seq(SipEvent) : q = sipQ
      BY DEF Prior, TypeOK, SipTypeOK
    <3>2. Calling(s, sipQ) # {}
      BY <1>1, <1>4, <3>1, CallingTail
    <3> QED BY <3>2 DEF AnswersInv, Orderly, Fresh
  <2> QED BY <1>2, <1>4, <2>1, <2>2, StartFromSipSeen
<1>5. ASSUME NEW c \in DOMAIN bridges, bridges[c].sip = s,
             \/ e.kind = "CallStateUpdate" /\ BridgeOnCallState(c, e.state)
             \/ e.kind = "CallMediaStateUpdate" /\ BridgeOnCallMedia(c, e.has_media)
      PROVE  Seen
  <2>1. CASE e.kind = "CallStateUpdate" /\ e.state = "DISCONNECTED" /\ SipEnded(c)
    <3>1. PICK b : Close(c, b) /\ b.sip = NoSip /\ b.tg = bridges[c].tg
      BY <2>1, BridgeType DEF SipEnded, Prior, TypeOK, Context
    <3>2. e = CallState(s, "DISCONNECTED")
      BY <1>1, <2>1 DEF SipEvent, CallState
    <3>3. sip[s].lap = 1 => ~Live(s)
      BY <1>1, <1>2, <3>2 DEF TrueEvent
    <3>4. sip[s].lap > 1 \/ ~Live(s)
      BY <1>2, <3>3
    <3> QED BY <1>5, <3>1, <3>4, CloseFinishes DEF Seen
  <2>2. CASE bridges[c].st = "sip_wait_confirm" /\ DialTg(c)
    BY <2>2, DialTgSeen
  <2>3. CASE bridges[c].st = "sip_wait_media" /\ BridgeFromSip(c)
    <3>1. bridges[c].tg # NoTg /\ tg[bridges[c].tg].st \in {"ready", "closing", "ended"}
      BY <2>3 DEF AnswersInv, Orderly, BridgeOK, Met
    <3> QED BY <2>3, <3>1, JoinSeen
  <2>4. CASE /\ e.kind = "CallMediaStateUpdate" /\ e.has_media
             /\ bridges[c].st = "tg_wait_media" /\ AnswerTg(c)
    <3>1. e = CallMedia(s, TRUE)
      BY <1>1, <2>4 DEF SipEvent, CallMedia
    <3>2. sip[s].lap = 1 => sip[s].media # "none"
      BY <1>1, <1>2, <3>1 DEF TrueEvent
    <3> QED BY <1>2, <1>5, <2>4, <3>2, AnswerTgSeen
  <2> QED BY <1>3, <1>5, <2>1, <2>2, <2>3, <2>4 DEF BridgeOnCallState, BridgeOnCallMedia
<1>6. \A c \in DOMAIN bridges : First(c, Matches("sip", s)) => bridges[c].sip = s
  BY DEF First, Matches
<1> QED BY <1>1, <1>3, <1>4, <1>5, <1>6 DEF OnSipEvent

\* Every step of the loop.
LEMMA LoopSeen ==
  ASSUME Prior, Prior', AnswersInv, SlotsInv, Loop \/ Abort
  PROVE  Seen
<1>1. CASE Ignore
  BY <1>1, IgnoreUnseen DEF Seen
<1>2. CASE PollInternal
  <2>1. ASSUME NEW c \in DOMAIN bridges, Close(c, bridges[c])
        PROVE  Seen
    <3>1. PICK b : b = bridges[c]
      OBVIOUS
    <3>2. b.tg \in TgId \cup {NoTg} /\ b.sip \in Slot \cup {NoSip}
      BY <3>1, BridgeType DEF Prior, TypeOK, Context
    <3> QED BY <2>1, <3>1, <3>2, CloseFinishes DEF Seen
  <2> QED BY <1>1, <1>2, <2>1 DEF PollInternal, OnInternalError
<1>3. CASE PollTg
  <2>1. CASE tgQ # <<>> /\ Head(tgQ).kind = "updateCall"
             /\ OnUpdateCall(Head(tgQ).id, Head(tgQ).state)
    <3>1. Head(tgQ) \in TgEvent /\ Head(tgQ) \in Range(tgQ)
      BY <2>1, HeadType, RangeTail DEF Prior, TypeOK
    <3>2. PICK e \in TgEvent : e = Head(tgQ) /\ e \in Range(tgQ)
      BY <3>1
    <3>3. e.id \in TgId /\ e.kind = "updateCall"
      BY <2>1, <3>2 DEF TgEvent
    <3>4. /\ tg[e.id].st # "unused"
          /\ e.state = "Ready" => tg[e.id].st \in {"ready", "closing", "ended"}
          /\ e.state = "Ended" => tg[e.id].st = "ended"
      BY <3>2, <3>3 DEF AnswersInv, ReadyKnown, Prior, LegsInv, Known
    <3> QED BY <2>1, <3>2, <3>3, <3>4, OnUpdateCallSeen
  <2>2. CASE tgQ # <<>> /\ OnNewMessage(Head(tgQ))
    BY <1>1, <2>2, DialDtmfUnseen DEF OnNewMessage, Seen
  <2> QED BY <1>1, <1>3, <2>1, <2>2 DEF PollTg
<1>4. CASE PollSip
  <2>1. CASE sipQ # <<>> /\ OnSipEvent(Head(sipQ))
    <3>1. PICK e \in SipEvent : e = Head(sipQ)
      BY <2>1, HeadType DEF Prior, TypeOK, SipTypeOK
    <3> QED BY <2>1, <3>1, OnSipEventSeen
  <2> QED BY <1>1, <1>4, <2>1 DEF PollSip
<1>5. CASE Abort
  BY <1>1, <1>5 DEF Abort, LookupAborts, DtmfAborts
<1> QED BY <1>2, <1>3, <1>4, <1>5 DEF Loop

-----------------------------------------------------------------------------
(* The environment. *)

\* A Telegram call begins, is answered or ends.
LEMMA TdLibSeen ==
  ASSUME Prior, Prior', AnswersInv, TdLib
  PROVE  Seen
<1>1. /\ TypeOK /\ TypeOK' /\ tg \in [TgId -> TgCall]
      /\ UNCHANGED <<SipLines, Pairs, Joins, ctxCounter>>
  BY OneLine, PairIs DEF Prior, TypeOK, TdLib
<1>2. CASE UNCHANGED tg
  BY <1>1, <1>2, OneLine DEF Seen, Unseen
<1>3. ASSUME NEW id \in TgId, \A i \in TgId : i # id => tg'[i] = tg[i]
      PROVE  /\ TgLines' = [TgLines EXCEPT ![id] = TgLines'[id]]
             /\ TgLines'[id] = TgLines[id] => Seen
  BY <1>1, <1>3, OneLine DEF Seen, Unseen
<1>4. ASSUME NEW id \in TgId, NEW u, TgRings(id, u)
      PROVE  Seen
  <2>1. tg[id].st = "unused" /\ tg'[id].st = "pending" /\ \A i \in TgId : i # id => tg'[i] = tg[i]
    BY <1>1, <1>4 DEF TgRings
  <2>2. TgLines[id] = "idle" /\ TgLines'[id] = "ringing"
    BY <1>1, <2>1, TgLineIs
  <2>3. Promise!TgRings(id)
    BY <1>1, <1>3, <2>1, <2>2 DEF Promise!TgRings, Promise!Tg
  <2> QED BY <2>3 DEF Seen, Promise!Next
<1>5. ASSUME NEW id \in TgId, TgReceived(id)
      PROVE  Seen
  <2>1. /\ tg[id].st = "pending" /\ tg'[id].st = "received"
        /\ \A i \in TgId : i # id => tg'[i] = tg[i]
    BY <1>1, <1>5 DEF TgReceived, Report, TgCall
  <2> QED BY <1>1, <1>3, <2>1, TgLineIs
<1>6. ASSUME NEW id \in TgId, TgReady(id)
      PROVE  Seen
  <2>1. /\ tg[id].st \in IF tg[id].out THEN {"pending", "received"} ELSE {"exchange"}
        /\ tg'[id].st = "ready" /\ \A i \in TgId : i # id => tg'[i] = tg[i]
    BY <1>1, <1>6 DEF TgReady, Report, TgCall
  <2>2. CASE ~tg[id].out
    BY <1>1, <1>3, <2>1, <2>2, TgLineIs
  <2>3. CASE tg[id].out
    <3>1. PICK c \in DOMAIN bridges : bridges[c].tg = id
      <4>1. ServedBy(id, tgQ)
        BY DEF TdLib, Prior, LegsInv
      <4>2. Matches("tg", id) # {}
        BY <2>1, <2>3, <4>1 DEF ServedBy, Held
      <4> QED BY <4>2, MatchesTg
    <3>2. /\ c \in DOMAIN Pairs /\ Pairs[c].tg = id /\ Pairs[c].from = "sip"
      <4>1. id # NoTg
        BY NoneAssumption
      <4>2. bridges[c].st \in FromSip
        BY <2>3, <3>1, <4>1 DEF AnswersInv, Orderly, BridgeOK, Sided
      <4> QED BY <3>1, <4>2, PairIs DEF FromSip, FromTg
    <3>3. TgLines[id] = "ringing" /\ TgLines'[id] = "answered"
      BY <1>1, <2>1, <2>3, TgLineIs
    <3>4. Promise!TgAnswers(c)
      BY <1>1, <1>3, <2>1, <3>2, <3>3 DEF Promise!TgAnswers, Promise!Tg
    <3> QED BY <3>2, <3>4 DEF Seen, Promise!Next
  <2> QED BY <2>2, <2>3
<1>7. ASSUME NEW id \in TgId, TgEnds(id)
      PROVE  Seen
  <2>1. /\ tg[id].st \in TgState \ {"unused", "ended"} /\ tg'[id].st = "ended"
        /\ \A i \in TgId : i # id => tg'[i] = tg[i]
    BY <1>1, <1>7 DEF TgEnds, TgLive, Report, TgCall
  <2>2. TgLines'[id] = "over" /\ TgLines[id] \in {"ringing", "answered", "over"}
    BY <1>1, <2>1, TgLineIs DEF TgState
  <2>3. CASE TgLines[id] # "over"
    <3>1. Promise!TgHangsUp(id)
      BY <1>1, <1>3, <2>1, <2>2, <2>3 DEF Promise!TgHangsUp, Promise!Tg, Promise!Up
    <3> QED BY <3>1 DEF Seen, Promise!Next
  <2> QED BY <1>3, <2>1, <2>2, <2>3
<1> QED BY <1>2, <1>4, <1>5, <1>6, <1>7 DEF TdLib, TgMessage

\* A SIP call begins, is answered or ends.
LEMMA PjsipSeen ==
  ASSUME Prior, Prior', AnswersInv, SlotsInv, Sip
  PROVE  Seen
<1>1. /\ TypeOK /\ TypeOK' /\ sip \in [Slot -> SipCall]
      /\ UNCHANGED <<TgLines, Pairs, Joins, ctxCounter>>
  BY OneLine, PairIs DEF Prior, TypeOK, SipTypeOK, Sip
<1>2. ASSUME NEW s \in Slot, \A r \in Slot : r # s => sip'[r] = sip[r]
      PROVE  /\ SipLines' = [SipLines EXCEPT ![s] = SipLines'[s]]
             /\ SipLines'[s] = SipLines[s] => Seen
  BY <1>1, <1>2, OneLine DEF Seen, Unseen
<1>3. ASSUME NEW s \in Slot, NEW x, OnIncomingCall(s, x)
      PROVE  Seen
  <2>1. \A r \in Slot : r # s => sip'[r] = sip[r]
    BY <1>1, <1>3 DEF OnIncomingCall
  <2>2. /\ SipLines' = [SipLines EXCEPT ![s] = SipLines'[s]]
        /\ \/ SipLines[s] = "idle" /\ SipLines'[s] = "ringing"
           \/ SipLines[s] = "over" /\ SipLines'[s] = "over"
    BY <1>1, <1>3, NewCallLine DEF OnIncomingCall
  <2>3. CASE SipLines[s] = "idle" /\ SipLines'[s] = "ringing"
    <3>1. Promise!SipRings(s)
      BY <1>1, <2>2, <2>3 DEF Promise!SipRings, Promise!Sip
    <3> QED BY <3>1 DEF Seen, Promise!Next
  <2> QED BY <1>2, <2>1, <2>2, <2>3
<1>4. ASSUME NEW s \in Slot
      PROVE  sip[s].lap > 0 \/ ~Live(s)
  BY DEF Prior, SipInv, Settled, Truthful
<1>5. ASSUME NEW s \in Slot, OnCallMediaState(s)
      PROVE  Seen
  <2>1. PICK m \in {"active", "lost"} :
          /\ sip' = [sip EXCEPT ![s].media = m]
          /\ sip[s].media # "none" \/ sip[s].st \in {"confirmed", "calling"}
    BY <1>5 DEF OnCallMediaState
  <2>2. /\ \A r \in Slot : r # s => sip'[r] = sip[r]
        /\ sip'[s].st = sip[s].st /\ sip'[s].lap = sip[s].lap /\ sip'[s].media # "none"
        /\ sip[s].lap \in Nat
    BY <1>1, <2>1 DEF SipCall
  <2>3. CASE ~(sip[s].st = "calling" /\ sip[s].media = "none" /\ sip[s].lap = 1)
    <3>1. SipLines'[s] = SipLines[s]
      BY <2>1, <2>2, <2>3 DEF SipLines, SipLine, Live
    <3> QED BY <1>2, <2>2, <3>1
  <2>4. CASE sip[s].st = "calling" /\ sip[s].media = "none" /\ sip[s].lap = 1
    <3>1. SipLines[s] = "ringing" /\ SipLines'[s] = "answered"
      BY <2>2, <2>4 DEF SipLines, SipLine, Live
    <3>2. PICK c \in DOMAIN bridges : bridges[c].sip = s
      <4>1. Live(s) /\ ServedSip(s, sipQ)
        BY <2>4 DEF Live, Sip, Prior, SipInv
      <4>2. Calling(s, sipQ) = {}
        BY <2>4 DEF AnswersInv, Orderly, Fresh
      <4> QED BY <2>4, <4>1, <4>2 DEF ServedSip, Holds
    <3>3. c \in DOMAIN Pairs /\ Pairs[c].sip = s /\ Pairs[c].from = "tg"
      <4>1. bridges[c].st \in FromTg
        BY <2>4, <3>2, NoSipAssumption DEF AnswersInv, Orderly, BridgeOK, Met
      <4> QED BY <3>2, <4>1, PairIs
    <3>4. Promise!SipAnswers(c)
      BY <1>1, <1>2, <2>2, <3>1, <3>3 DEF Promise!SipAnswers, Promise!Sip
    <3> QED BY <3>3, <3>4 DEF Seen, Promise!Next
  <2> QED BY <2>3, <2>4
<1>6. ASSUME NEW s \in Slot, OnCallDisconnected(s)
      PROVE  Seen
  <2>1. /\ sip'[s].st = "over" /\ sip'[s].lap = sip[s].lap /\ sip[s].lap \in Nat /\ sip[s].lap > 0
        /\ \A r \in Slot : r # s => sip'[r] = sip[r]
    BY <1>1, <1>4, <1>6, EnterFields DEF OnCallDisconnected, SipCall
  <2>2. SipLines'[s] = "over" /\ SipLines[s] \in {"ringing", "answered", "over"}
    BY <2>1 DEF SipLines, SipLine, Live
  <2>3. CASE SipLines[s] # "over"
    <3>1. Promise!SipHangsUp(s)
      BY <1>1, <1>2, <2>1, <2>2, <2>3 DEF Promise!SipHangsUp, Promise!Sip, Promise!Up
    <3> QED BY <3>1 DEF Seen, Promise!Next
  <2> QED BY <1>2, <2>1, <2>2, <2>3
<1> QED BY <1>3, <1>5, <1>6 DEF Sip, PjsipThread

-----------------------------------------------------------------------------
(* The refinement. *)

\* Every step of the gateway and its environment is a step of CallBridge or shows
\* nothing of itself.
LEMMA NextSeen ==
  ASSUME Prior, Prior', AnswersInv, SlotsInv, [Next]_vars
  PROVE  [Promise!Next]_<<TgLines, SipLines, Pairs, Joins, ctxCounter>>
<1>1. CASE Stop \/ Clock \/ UNCHANGED vars
  <2>1. UNCHANGED <<sip, tg, bridges, ctxCounter>>
    BY <1>1 DEF Stop, Clock, vars
  <2> QED BY <2>1, OneLine, PairIs DEF Seen, Unseen
<1>2. CASE ~(Stop \/ Clock \/ UNCHANGED vars)
  <2>1. Seen
    BY <1>2, LoopSeen, TdLibSeen, PjsipSeen DEF Next
  <2> QED BY <2>1 DEF Seen, Unseen
<1> QED BY <1>1, <1>2

\* All calls are idle at the start.
LEMMA InitSeen == Init => Promise!Init
<1> SUFFICES ASSUME Init PROVE Promise!Init
  OBVIOUS
<1>1. TgLines = [id \in TgId |-> "idle"] /\ SipLines = [s \in Slot |-> "idle"]
  BY DEF Init, SipInit, TgLines, TgLine, SipLines, SipLine
<1>2. DOMAIN bridges = {} /\ ctxCounter = 0
  BY DEF Init
<1>3. Pairs = [c \in {} |-> NoTg] /\ Joins = {}
  BY <1>2 DEF Pairs, Joins
<1> QED BY <1>1, <1>2, <1>3 DEF Promise!Init

\* The gateway implements CallBridge, for every instance.
THEOREM CallsBridged == Spec => BridgesCalls
<1>1. Prior /\ Prior' /\ AnswersInv /\ SlotsInv /\ [Next]_vars
        => [Promise!Next]_<<TgLines, SipLines, Pairs, Joins, ctxCounter>>
  BY NextSeen
<1>2. Prior /\ AnswersInv /\ SlotsInv /\ [Next]_vars => SlotsInv'
  BY SlotsNext
<1>3. Spec => []Prior
  BY TypeCorrect, LegsInvariant, SipInvariant, PTL DEF Prior
<1>4. Spec => []SlotsInv
  BY <1>2, <1>3, SlotsInit, AnswersInvariant, PTL DEF Spec
<1> QED BY <1>1, <1>3, <1>4, InitSeen, AnswersInvariant, PTL DEF Spec, BridgesCalls, Promise!Spec, Promise!vars
=============================================================================
