----------------------------- MODULE CallBridge -----------------------------
(***************************************************************************)
(* What the two parties of a call may expect of the gateway, without its   *)
(* queues, events and failures.  Somebody calls, a bridge takes the call   *)
(* and calls the other side; the caller is answered once the other side    *)
(* did, audio is joined between two answered parties, and a bridge that    *)
(* goes leaves nobody behind.  A bridge keeps its calls from first to last *)
(* and no two have one that is up.                                         *)
(***************************************************************************)
EXTENDS Naturals

CONSTANTS TgId, NoTg, Slot, NoSip

VARIABLES
  tgLine,   \* each Telegram call, as its party sees it
  sipLine,  \* each SIP call, as its party sees it
  bridge,   \* of each bridge: who called, and its two calls
  joined,   \* the bridges that joined the audio
  last      \* the bridge that was made last

vars == <<tgLine, sipLine, bridge, joined, last>>

\* A call is "idle", then "ringing", "answered" and "over".
Up   == {"ringing", "answered"}
Past == {"answered", "over"}     \* answered, if only until just now

HasTg(id) == \E c \in DOMAIN bridge : bridge[c].tg = id
HasSip(s) == \E c \in DOMAIN bridge : bridge[c].sip = s

Init ==
  /\ tgLine = [id \in TgId |-> "idle"] /\ sipLine = [s \in Slot |-> "idle"]
  /\ bridge = [c \in {} |-> NoTg] /\ joined = {} /\ last = 0

Tg(id, from, to) ==
  id \in TgId /\ tgLine[id] \in from /\ tgLine' = [tgLine EXCEPT ![id] = to]
Sip(s, from, to) ==
  s \in Slot /\ sipLine[s] \in from /\ sipLine' = [sipLine EXCEPT ![s] = to]

\* A party calls.
TgRings(id) == Tg(id, {"idle"}, "ringing") /\ UNCHANGED <<sipLine, bridge, joined, last>>
SipRings(s) == Sip(s, {"idle"}, "ringing") /\ UNCHANGED <<tgLine, bridge, joined, last>>

New(b) ==
  /\ last' = last + 1
  /\ bridge' = [c \in DOMAIN bridge \cup {last'} |-> IF c = last' THEN b ELSE bridge[c]]
  /\ UNCHANGED joined

\* A new bridge takes a Telegram call that has none, and calls the SIP side.  That may fail,
\* and the Telegram call may be over by now.
TakeTg(id, s) ==
  /\ New([from |-> "tg", tg |-> id, sip |-> s])
  /\ tgLine[id] \in {"ringing", "over"} /\ ~HasTg(id)
  /\ \/ s = NoSip /\ UNCHANGED sipLine
     \/ Sip(s, {"idle"}, "ringing")
     \/ Sip(s, {"over"}, "over")
  /\ UNCHANGED tgLine

\* A new bridge takes a SIP call that has none.
TakeSip(s) ==
  /\ New([from |-> "sip", tg |-> NoTg, sip |-> s])
  /\ sipLine[s] \in {"ringing", "over"} /\ ~HasSip(s)
  /\ UNCHANGED <<tgLine, sipLine>>

\* It calls the Telegram side, once.
CallTg(c, id) ==
  /\ bridge[c].from = "sip" /\ bridge[c].tg = NoTg
  /\ Tg(id, {"idle"}, "ringing")
  /\ bridge' = [bridge EXCEPT ![c].tg = id]
  /\ UNCHANGED <<sipLine, joined, last>>

\* The side that the bridge called answers.
TgAnswers(c) ==
  /\ bridge[c].from = "sip" /\ Tg(bridge[c].tg, {"ringing"}, "answered")
  /\ UNCHANGED <<sipLine, bridge, joined, last>>
SipAnswers(c) ==
  /\ bridge[c].from = "tg" /\ Sip(bridge[c].sip, {"ringing"}, "answered")
  /\ UNCHANGED <<tgLine, bridge, joined, last>>

\* Only then is the caller answered.
AnswerTg(c) ==
  /\ bridge[c].from = "tg" /\ bridge[c].sip # NoSip /\ sipLine[bridge[c].sip] \in Past
  /\ Tg(bridge[c].tg, {"ringing"}, "answered")
  /\ UNCHANGED <<sipLine, bridge, joined, last>>
AnswerSip(c) ==
  /\ bridge[c].from = "sip" /\ bridge[c].tg # NoTg /\ tgLine[bridge[c].tg] \in Past
  /\ Sip(bridge[c].sip, {"ringing"}, "answered")
  /\ UNCHANGED <<tgLine, bridge, joined, last>>

Join(c) ==
  /\ bridge[c].tg # NoTg /\ tgLine[bridge[c].tg] \in Past
  /\ bridge[c].sip # NoSip /\ sipLine[bridge[c].sip] \in Past
  /\ joined' = joined \cup {c}
  /\ UNCHANGED <<tgLine, sipLine, bridge, last>>

\* A party hangs up, or is refused; its bridge goes later.
TgHangsUp(id) == Tg(id, Up, "over") /\ UNCHANGED <<sipLine, bridge, joined, last>>
SipHangsUp(s) == Sip(s, Up, "over") /\ UNCHANGED <<tgLine, bridge, joined, last>>

\* A bridge goes, and its calls with it.
Finish(c) ==
  /\ tgLine' = [id \in TgId |-> IF bridge[c].tg = id THEN "over" ELSE tgLine[id]]
  /\ sipLine' = [s \in Slot |-> IF bridge[c].sip = s THEN "over" ELSE sipLine[s]]
  /\ bridge' = [d \in DOMAIN bridge \ {c} |-> bridge[d]] /\ joined' = joined \ {c}
  /\ UNCHANGED last

Next ==
  \/ \E id \in TgId : TgRings(id) \/ TgHangsUp(id) \/ \E s \in Slot \cup {NoSip} : TakeTg(id, s)
  \/ \E s \in Slot : SipRings(s) \/ SipHangsUp(s) \/ TakeSip(s)
  \/ \E c \in DOMAIN bridge :
       \/ TgAnswers(c) \/ SipAnswers(c) \/ AnswerTg(c) \/ AnswerSip(c) \/ Join(c) \/ Finish(c)
       \/ \E id \in TgId : CallTg(c, id)

Spec == Init /\ [][Next]_vars
=============================================================================
