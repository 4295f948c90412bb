----------------------------- MODULE TdKeyboard -----------------------------
(***************************************************************************)
(* td-keyboard in its two roles, with what they share.  The listener        *)
(* (`td-keyboard -u`, tg-client.go) is logged in as the account that users  *)
(* call and write to: it is one goroutine over a queue of updates.  It      *)
(* sends a keyboard to a user who calls, takes it back after the call,      *)
(* plays digits a user writes and answers other texts.  The bot             *)
(* (tg-bot.go) serves the buttons of these keyboards, each press in a       *)
(* goroutine of its own.  The channel of a user's call is in Redis, where   *)
(* agi-bin/saveSipHeadersInRedis.php puts it.                               *)
(*                                                                         *)
(* External: TDLib reports in order, deletes what it is told to, and may    *)
(* fail a query; Asterisk does not use the name of a channel again.         *)
(***************************************************************************)
EXTENDS Integers, Sequences

CONSTANTS
  Caller,       \* the users
  Phone,        \* their phone numbers
  PhoneOf,      \* the number a user shows
  EmptyText,    \* autoAnswerText is '', as it is when an account is added
  Press,        \* presses of buttons under way at a time
  MaxCalls,     \* bound: calls of users
  MaxTurns      \* bound: repeated reports of a ringing call, texts, and ends of the listener

ASSUME CallerAssumption == Caller # {}
ASSUME PhoneAssumption == PhoneOf \in [Caller -> Phone]
ASSUME TextAssumption == EmptyText \in BOOLEAN
ASSUME BoundAssumption == MaxCalls \in Nat /\ MaxTurns \in Nat

VARIABLES
  call,      \* external: the call of each user to the account
  count,     \* bound: calls and turns so far
  owner,     \* external: the user of each channel the PBX ever had
  redis,     \* the channel stored for each user, 0 for none
  shown,     \* external: the keyboards in the chat with each user
  cards,     \* external: users who have a visiting card with a callback button
  sent,      \* external: how many keyboards there were
  updates,   \* the queue of the listener
  at,        \* the listener's goroutine
  cache,     \* clientCacheManager: the entry under a user's id
  lost,      \* keyboards whose entry was overwritten, ran out or ended with the listener
  press,     \* the goroutines of the bot
  dialled    \* cacheManager of the bot: numbers with a dial: entry

outside  == <<call, count, owner, redis>>
chat     == <<shown, cards, sent>>
caches   == <<cache, lost>>
listener == <<updates, at, caches>>
bot      == <<press, dialled>>
vars     == <<outside, chat, listener, bot>>

MaxSent == MaxCalls + MaxTurns

\* A message id, the text of an auto-answer or of a removed keyboard, or nothing.
Entry   == [type : {"none", "id", "text"}, id : Nat]
None    == [type |-> "none", id |-> 0]
Text    == [type |-> "text", id |-> 0]
Id(k)   == [type |-> "id", id |-> k]

UpdateType == {"pending", "ended", "missed", "digits", "text"}
Update(t, u) == [type |-> t, user |-> u]

\* A goroutine and the user it serves, before it knows a channel.
Goroutine(pc, u) == [pc |-> pc, user |-> u, channel |-> 0]
Nobody  == CHOOSE u \in Caller : TRUE
Idle    == Goroutine("idle", Nobody)
NoPress == Goroutine("none", Nobody)

TypeOK ==
  /\ call \in [Caller -> {"none", "ringing", "talking"}]
  /\ count \in [calls : 0..MaxCalls, turns : 0..MaxTurns]
  /\ owner \in Seq(Caller) /\ redis \in [Caller -> 0..Len(owner)]
  /\ shown \in [Caller -> SUBSET (1..sent)] /\ cards \subseteq Caller /\ sent \in Nat
  /\ updates \in Seq([type : UpdateType, user : Caller])
  /\ at \in [pc : UpdateType \cup {"idle", "read", "say", "play", "panic", "down"},
             user : Caller, channel : 0..Len(owner)]
  /\ cache \in [Caller -> Entry] /\ lost \subseteq Nat
  /\ press \in [Press -> [pc : {"none", "digit", "play", "dial", "order", "set"},
                          user : Caller, channel : 0..Len(owner)]]
  /\ at.pc = "play" => at.channel # 0
  /\ \A p \in Press : press[p].pc = "play" => press[p].channel # 0
  /\ dialled \subseteq Phone

Init ==
  /\ call = [u \in Caller |-> "none"] /\ owner = <<>> /\ redis = [u \in Caller |-> 0]
  /\ count = [calls |-> 0, turns |-> 0]
  /\ shown = [u \in Caller |-> {}] /\ cards = {} /\ sent = 0
  /\ updates = <<>> /\ at = Idle
  /\ cache = [u \in Caller |-> None] /\ lost = {}
  /\ press = [p \in Press |-> NoPress] /\ dialled = {}

-----------------------------------------------------------------------------
(***************************************************************************)
(* Telegram and the PBX (external).  A listener that is down gets nothing.  *)
(***************************************************************************)
Counted(f, max) == count[f] < max /\ count' = [count EXCEPT ![f] = @ + 1]

Report(t, u) == updates' = IF at.pc = "down" THEN updates ELSE Append(updates, Update(t, u))

Ring(u) ==
  /\ call[u] = "none" /\ Counted("calls", MaxCalls)
  /\ call' = [call EXCEPT ![u] = "ringing"]
  /\ Report("pending", u)
  /\ UNCHANGED <<owner, redis, chat, at, caches, bot>>

RingRepeated(u) ==
  /\ call[u] = "ringing" /\ Counted("turns", MaxTurns)
  /\ Report("pending", u)
  /\ UNCHANGED <<call, owner, redis, chat, at, caches, bot>>

\* Mutant: the key in Redis is the prefix alone.
Mutant_OneKey(u) ==
  /\ call[u] = "ringing"
  /\ call' = [call EXCEPT ![u] = "talking"]
  /\ owner' = Append(owner, u)
  /\ redis' = [v \in Caller |-> Len(owner')]
  /\ UNCHANGED <<count, chat, listener, bot>>

\* The gateway has dialled the PBX, whose dial plan runs saveSipHeadersInRedis.php.
SaveSipHeaders(u) ==
  /\ call[u] = "ringing"
  /\ call' = [call EXCEPT ![u] = "talking"]
  /\ owner' = Append(owner, u)
  /\ redis' = [redis EXCEPT ![u] = Len(owner')]
  /\ UNCHANGED <<count, chat, listener, bot>>

\* The entry in Redis outlives the call, by up to 600 s.
HangUp(u) ==
  /\ call[u] # "none"
  /\ call' = [call EXCEPT ![u] = "none"]
  /\ Report("ended", u)
  /\ UNCHANGED <<count, owner, redis, chat, at, caches, bot>>

Forget(u) ==
  /\ redis[u] # 0
  /\ redis' = [redis EXCEPT ![u] = 0]
  /\ UNCHANGED <<call, count, owner, chat, listener, bot>>

\* The user writes, or did not take a call of the account.
Writes(u) ==
  /\ Counted("turns", MaxTurns)
  /\ \E t \in {"digits", "text", "missed"} : Report(t, u)
  /\ UNCHANGED <<call, owner, redis, chat, at, caches, bot>>

Presses(p, u) ==
  /\ press[p].pc = "none"
  /\ \/ shown[u] # {} /\ press' = [press EXCEPT ![p] = Goroutine("digit", u)]
     \/ u \in cards /\ press' = [press EXCEPT ![p] = Goroutine("dial", u)]
  /\ UNCHANGED <<outside, chat, listener, dialled>>

-----------------------------------------------------------------------------
(***************************************************************************)
(* The listener.                                                           *)
(***************************************************************************)
Take ==
  /\ at.pc = "idle" /\ updates # <<>>
  /\ at' = Goroutine(Head(updates).type, Head(updates).user)
  /\ updates' = Tail(updates)
  /\ UNCHANGED <<outside, chat, caches, bot>>

Done == at' = Idle

\* Mutant: the id of a failed query, 0, is kept as well.
Mutant_KeepAnyId ==
  LET old == cache[at.user]  k == sent + 1 IN
  /\ at.pc = "pending" /\ Done
  /\ \E ok \in BOOLEAN :
       /\ sent' = IF ok THEN k ELSE sent
       /\ shown' = IF ok THEN [shown EXCEPT ![at.user] = @ \cup {k}] ELSE shown
       /\ cache' = [cache EXCEPT ![at.user] = Id(IF ok THEN k ELSE 0)]
       /\ lost' = IF old.type = "id" THEN lost \cup {old.id} ELSE lost
  /\ UNCHANGED <<outside, cards, updates, bot>>

\* Mutant: the entry of the first keyboard stays when the call is reported again.
Mutant_KeepFirstId ==
  LET k == sent + 1 IN
  /\ at.pc = "pending" /\ Done
  /\ \/ UNCHANGED <<shown, sent, cache, lost>>
     \/ /\ sent' = k
        /\ shown' = [shown EXCEPT ![at.user] = @ \cup {k}]
        /\ cache' = [cache EXCEPT ![at.user] = IF @ = None THEN Id(k) ELSE @]
        /\ UNCHANGED lost
  /\ UNCHANGED <<outside, cards, updates, bot>>

\* sendMsgFromBot: two queries, either may fail; a keyboard's id is kept under the user's id.
SendKeyboard ==
  LET old == cache[at.user]  k == sent + 1 IN
  /\ at.pc = "pending" /\ Done
  /\ \/ UNCHANGED <<shown, sent, cache, lost>>
     \/ /\ sent' = k
        /\ shown' = [shown EXCEPT ![at.user] = @ \cup {k}]
        /\ cache' = [cache EXCEPT ![at.user] = Id(k)]
        /\ lost' = IF old.type = "id" THEN lost \cup {old.id} ELSE lost
  /\ UNCHANGED <<outside, cards, updates, bot>>

SendCard ==
  /\ at.pc = "missed" /\ Done
  /\ cards' = cards \/ cards' = cards \cup {at.user}
  /\ UNCHANGED <<outside, shown, sent, updates, caches, bot>>

\* After the keyboard was removed the entry is '' for a second.
RemoveKeyboard ==
  LET old == cache[at.user] IN
  /\ at.pc = "ended"
  /\ \/ old.type = "none" /\ Done /\ UNCHANGED <<shown, cache>>
     \/ /\ old.type = "id" /\ Done
        /\ shown' = [shown EXCEPT ![at.user] = @ \ {old.id}]
        /\ cache' = [cache EXCEPT ![at.user] = Text]
     \/ old.type = "text" /\ at' = [at EXCEPT !.pc = "panic"] /\ UNCHANGED <<shown, cache>>
  /\ UNCHANGED <<outside, cards, sent, updates, lost, bot>>

\* Whether a bot writes is asked, unless the answer of the last 60 s is kept.  The update
\* is dropped if the query fails.
IsBot ==
  /\ at.pc \in {"digits", "text"}
  /\ \/ at' = [at EXCEPT !.pc = IF @ = "digits" THEN "read" ELSE "say"]
     \/ Done
  /\ UNCHANGED <<outside, chat, updates, caches, bot>>

\* Mutant: the empty channel is not looked for.
Mutant_NoChannelTest ==
  /\ at.pc = "read"
  /\ at' = [at EXCEPT !.pc = "play", !.channel = redis[at.user]]
  /\ UNCHANGED <<outside, chat, updates, caches, bot>>

GetChannel ==
  /\ at.pc = "read"
  /\ at' = IF redis[at.user] = 0 THEN [at EXCEPT !.pc = "say"]
                                 ELSE [at EXCEPT !.pc = "play", !.channel = redis[at.user]]
  /\ UNCHANGED <<outside, chat, updates, caches, bot>>

\* playDtmf, digit after digit; on a channel that is gone the PBX refuses.
PlayDigits ==
  /\ at.pc = "play" /\ Done
  /\ UNCHANGED <<outside, chat, updates, caches, bot>>

\* sendMessage: the key is the user's id and the text, so with an empty text the id alone.
SendMessage ==
  /\ at.pc = "say" /\ Done
  /\ cache' = IF EmptyText /\ cache[at.user] = None THEN [cache EXCEPT ![at.user] = Text] ELSE cache
  /\ UNCHANGED <<outside, chat, updates, lost, bot>>

\* An entry runs out: a keyboard's after 600 s, the others sooner.
Expire(u) ==
  /\ at.pc # "down"
  /\ cache[u] # None
  /\ cache' = [cache EXCEPT ![u] = None]
  /\ lost' = IF cache[u].type = "id" THEN lost \cup {cache[u].id} ELSE lost
  /\ UNCHANGED <<outside, chat, updates, at, bot>>

Ends ==
  /\ at' = Goroutine("down", Nobody) /\ updates' = <<>>
  /\ cache' = [u \in Caller |-> None]
  /\ lost' = 1..sent
  /\ UNCHANGED <<call, owner, redis, chat, bot>>

Panics == at.pc = "panic" /\ Ends /\ UNCHANGED count

\* A launcher kills it, or TDLib ends it.
Killed == at.pc \notin {"down", "panic"} /\ Counted("turns", MaxTurns) /\ Ends

\* The next launcher starts it.
Restart ==
  /\ at.pc = "down" /\ Done
  /\ UNCHANGED <<outside, chat, updates, caches, bot>>

Listener ==
  \/ Take \/ SendKeyboard \/ SendCard \/ RemoveKeyboard \/ IsBot \/ GetChannel
  \/ PlayDigits \/ SendMessage \/ Panics \/ Restart

-----------------------------------------------------------------------------
(***************************************************************************)
(* The bot.                                                                *)
(***************************************************************************)
Step(p, pc) == press' = [press EXCEPT ![p].pc = pc]
Return(p) == press' = [press EXCEPT ![p] = NoPress]

BotGetChannel(p) ==
  LET channel == redis[press[p].user] IN
  /\ press[p].pc = "digit"
  /\ IF channel = 0 THEN Return(p)
     ELSE press' = [press EXCEPT ![p].pc = "play", ![p].channel = channel]
  /\ UNCHANGED <<outside, chat, listener, dialled>>

BotPlaysDigit(p) ==
  /\ press[p].pc = "play" /\ Return(p)
  /\ UNCHANGED <<outside, chat, listener, dialled>>

\* Presses for a number that was dialled within 10 s are dropped.
BotLooks(p) ==
  /\ press[p].pc = "dial"
  /\ IF PhoneOf[press[p].user] \in dialled THEN Return(p) ELSE Step(p, "order")
  /\ UNCHANGED <<outside, chat, listener, dialled>>

\* startCallback, whether or not the PBX can be reached.
BotOrders(p) ==
  /\ press[p].pc = "order" /\ Step(p, "set")
  /\ UNCHANGED <<outside, chat, listener, dialled>>

BotSets(p) ==
  /\ press[p].pc = "set" /\ Return(p)
  /\ dialled' = dialled \cup {PhoneOf[press[p].user]}
  /\ UNCHANGED <<outside, chat, listener>>

BotForgets(x) ==
  /\ x \in dialled
  /\ dialled' = dialled \ {x}
  /\ UNCHANGED <<outside, chat, listener, press>>

Bot ==
  \/ \E p \in Press : BotGetChannel(p) \/ BotPlaysDigit(p) \/ BotLooks(p) \/ BotOrders(p) \/ BotSets(p)
  \/ \E x \in Phone : BotForgets(x)

World ==
  \/ \E u \in Caller : Ring(u) \/ RingRepeated(u) \/ SaveSipHeaders(u) \/ HangUp(u) \/ Forget(u)
                       \/ Writes(u) \/ Expire(u)
  \/ \E p \in Press, u \in Caller : Presses(p, u)
  \/ Killed

Next == World \/ Listener \/ Bot

Spec == Init /\ [][Next]_vars

\* The listener's goroutine runs, the queries it waits for return, and cron starts it again.
FairSpec == Spec /\ WF_vars(Listener)

-----------------------------------------------------------------------------
(***************************************************************************)
(* Properties.                                                             *)
(***************************************************************************)

\* Digits are played into a call of the user who wrote or pressed them, however listener,
\* bot and dial plan overlap and however old the entry in Redis is.
DigitsToCaller ==
  /\ at.pc = "play" => owner[at.channel] = at.user
  /\ \A p \in Press : press[p].pc = "play" => owner[press[p].channel] = press[p].user

\* The listener never holds the id of a keyboard it has deleted or that is in another chat.
EntryIsShown == \A u \in Caller : cache[u].type = "id" => cache[u].id \in shown[u]

\* A keyboard does not stay in the chat after the call, unless a repeated report of the
\* call, 600 s or the end of the listener made it forget the keyboard.
KeyboardTakenBack ==
  \A k \in 1..MaxSent :
    (\E u \in Caller : k \in shown[u] /\ call[u] = "none")
      ~> (k \in lost \/ \A u \in Caller : k \notin shown[u])

\* Claimed by the assertion at tg-client.go:207: what is kept under the id of a user who
\* called is a message id.  It can be the mark of a removed keyboard or, with an empty
\* auto-answer, the mark of a text that was answered; the listener then ends.
KeptIsMessageId == at.pc # "panic"
=============================================================================
