------------------------------ MODULE SipClient ------------------------------
(***************************************************************************)
(* The SIP side of the gateway (tg2sip/tg2sip/sip.cpp): the map `calls` of *)
(* sip::Client, the operations the gateway thread runs on it, and the      *)
(* pjsua2 callbacks which a PJSIP worker thread runs and which only queue  *)
(* an event.  The PJSIP stack itself is external: `sip` is what it knows   *)
(* about each of its call slots.                                           *)
(*                                                                         *)
(* A slot is a pjsua_call_id.  PJSIP hands the same id out again once the  *)
(* call that had it is over; the code uses the id as the key of `calls`    *)
(* and as the identity of a call in every event.  MaxLaps bounds how often *)
(* a slot is handed out: 1 is the first lap of PJSIP's round robin, in     *)
(* which every call has an id of its own, 2 lets ids be reused.            *)
(***************************************************************************)
EXTENDS Integers, Sequences, FiniteSets

CONSTANTS
  Slot,     \* pjsua call ids
  NoSip,    \* PJSUA_INVALID_ID
  MaxLaps,  \* how many calls may get the same id (bound)
  Ext,      \* what a SIP caller may dial
  User      \* Telegram users, whose digits may be played into a call

ASSUME NoSipAssumption == NoSip \notin Slot
ASSUME LapsAssumption == MaxLaps \in Nat

VARIABLES
  sip,      \* external: the PJSIP call of each slot
  calls,    \* sip::Client::calls, the ids that have an entry
  sipQ      \* sip_events, the queue from the PJSIP threads to the gateway

(***************************************************************************)
(* A call is `invited` (INVITE received), `early` (180 sent), `confirmed`  *)
(* (200 sent) or, when the gateway dials, `calling`; an unused slot or one *)
(* whose call is over is `over`.  `media` is what hasMedia() answers:      *)
(* media may become active once and be lost once (hold).  `dtmf` collects  *)
(* the Telegram users whose digits were played into the call.              *)
(***************************************************************************)
SipState == {"over", "invited", "early", "confirmed", "calling"}
Media    == {"none", "active", "lost"}

SipEvent ==
  [kind : {"IncomingCall"}, id : Slot, ext : Ext]
    \cup [kind : {"CallStateUpdate"}, id : Slot, state : {"EARLY", "DISCONNECTED"}]
    \cup [kind : {"CallMediaStateUpdate"}, id : Slot, has_media : BOOLEAN]

IncomingCall(s, e)  == [kind |-> "IncomingCall", id |-> s, ext |-> e]
CallState(s, st)    == [kind |-> "CallStateUpdate", id |-> s, state |-> st]
CallMedia(s, has)   == [kind |-> "CallMediaStateUpdate", id |-> s, has_media |-> has]

Live(s) == sip[s].st # "over"
Free(s) == ~Live(s) /\ sip[s].lap < MaxLaps

\* The call that takes slot s.
NewCall(s, st) == [st |-> st, media |-> "none", dtmf |-> {}, lap |-> sip[s].lap + 1]

\* Call.st of slot s replaced.
Enter(s, st) == [sip EXCEPT ![s].st = st]

SipCall == [st : SipState, media : Media, dtmf : SUBSET User, lap : Nat]

SipTypeOK ==
  /\ sip \in [Slot -> SipCall]
  /\ calls \subseteq Slot
  /\ sipQ \in Seq(SipEvent)

SipInit ==
  /\ sip = [s \in Slot |-> [st |-> "over", media |-> "none", dtmf |-> {}, lap |-> 0]]
  /\ calls = {}
  /\ sipQ = <<>>

-----------------------------------------------------------------------------
(* Operations of the gateway thread.  Each takes the queue q it leaves to   *)
(* the callbacks that fire while it runs.                                   *)

(***************************************************************************)
(* Client::Dial: makeCall, then calls.emplace.  emplace keeps an entry     *)
(* that is already there, so the new Call object dies at the end of Dial   *)
(* and its destructor ends the call: no callback reports it, the handlers  *)
(* hold a weak_ptr.                                                        *)
(***************************************************************************)
Dial(s, q) ==
  /\ Free(s)
  /\ sip' = [sip EXCEPT ![s] = NewCall(s, IF s \in calls THEN "over" ELSE "calling")]
  /\ calls' = calls \cup {s}
  /\ sipQ' = q

\* Client::Answer: CALL_NOT_FOUND without an entry, pj::Error on a dead call.
CanAnswer(s) == s \in calls /\ Live(s)

Mutant_RingWith200(s, q) ==
  /\ CanAnswer(s)
  /\ sip' = Enter(s, "confirmed")
  /\ sipQ' = Append(q, CallState(s, "EARLY"))
  /\ UNCHANGED calls

\* 180 makes PJSIP report the early state while answer() runs, 200 reports
\* only states the gateway ignores.
AnswerRinging(s, q) ==
  /\ CanAnswer(s)
  /\ sip' = Enter(s, "early")
  /\ sipQ' = Append(q, CallState(s, "EARLY"))
  /\ UNCHANGED calls

AnswerOk(s, q) ==
  /\ CanAnswer(s)
  /\ sip' = Enter(s, "confirmed")
  /\ sipQ' = q
  /\ UNCHANGED calls

Mutant_HangupErasesFirst(s, q) ==
  /\ calls' = calls \ {s}
  /\ sip' = Enter(s, "over")
  /\ sipQ' = q

(***************************************************************************)
(* Client::Hangup: nothing without an entry; on a call that is already     *)
(* over hangup() throws and the entry stays; otherwise the entry goes, and *)
(* PJSIP may report the disconnection before the Call object dies.         *)
(***************************************************************************)
Hangup(s, q) ==
  IF s \in calls /\ Live(s)
    THEN /\ sip' = Enter(s, "over")
         /\ calls' = calls \ {s}
         /\ sipQ' \in {q, Append(q, CallState(s, "DISCONNECTED"))}
    ELSE UNCHANGED <<sip, calls>> /\ sipQ' = q

\* Client::BridgeAudio: CALL_NOT_FOUND or SIP_MEDIA_NOT_READY otherwise.
CanBridgeAudio(s) == s \in calls /\ Live(s) /\ sip[s].media = "active"

-----------------------------------------------------------------------------
(* Callbacks of the PJSIP threads. *)

\* The onIncomingCall handler: a Call for the id, calls.emplace (see Dial for
\* what happens when the id has an entry), then the event.
OnIncomingCall(s, e) ==
  /\ Free(s)
  /\ sip' = [sip EXCEPT ![s] = NewCall(s, IF s \in calls THEN "over" ELSE "invited")]
  /\ calls' = calls \cup {s}
  /\ sipQ' = Append(sipQ, IncomingCall(s, e))

\* The onCallMediaState handler: the media of the call came up or was lost.
OnCallMediaState(s) ==
  /\ UNCHANGED calls
  /\ \/ /\ sip[s].st \in {"confirmed", "calling"} /\ sip[s].media = "none"
        /\ sip' = [sip EXCEPT ![s].media = "active"]
        /\ sipQ' = Append(sipQ, CallMedia(s, TRUE))
     \/ /\ Live(s) /\ sip[s].media = "active"
        /\ sip' = [sip EXCEPT ![s].media = "lost"]
        /\ sipQ' = Append(sipQ, CallMedia(s, FALSE))

Mutant_EraseOnDisconnect(s) ==
  /\ Live(s)
  /\ sip' = Enter(s, "over")
  /\ sipQ' = Append(sipQ, CallState(s, "DISCONNECTED"))
  /\ calls' = calls \ {s}

\* The onCallState handler for PJSIP_INV_STATE_DISCONNECTED: the remote side
\* ended the call.  The entry in `calls` stays.
OnCallDisconnected(s) ==
  /\ Live(s)
  /\ sip' = Enter(s, "over")
  /\ sipQ' = Append(sipQ, CallState(s, "DISCONNECTED"))
  /\ UNCHANGED calls

PjsipThread ==
  \E s \in Slot :
    \/ \E e \in Ext : OnIncomingCall(s, e)
    \/ OnCallMediaState(s)
    \/ OnCallDisconnected(s)
=============================================================================
