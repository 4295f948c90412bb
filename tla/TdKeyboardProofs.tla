-------------------------- MODULE TdKeyboardProofs --------------------------
(***************************************************************************)
(* Theorems about listener, bot and the channel cache, for every number of  *)
(* users, presses, calls and texts.                                         *)
(***************************************************************************)
EXTENDS TdKeyboard, TLAPS

\* The type invariant taken apart.
CallOK    == call \in [Caller -> {"none", "ringing", "talking"}]
CountOK   == count \in [calls : 0..MaxCalls, turns : 0..MaxTurns]
ChannelOK == owner \in Seq(Caller) /\ redis \in [Caller -> 0..Len(owner)]
ChatOK    == shown \in [Caller -> SUBSET (1..sent)] /\ cards \subseteq Caller /\ sent \in Nat
UpdatesOK == updates \in Seq([type : UpdateType, user : Caller])
AtOK ==
  /\ at \in [pc : UpdateType \cup {"idle", "read", "say", "play", "panic", "down"},
             user : Caller, channel : 0..Len(owner)]
  /\ at.pc = "play" => at.channel # 0
CachesOK  == cache \in [Caller -> Entry] /\ lost \subseteq Nat
PressType == [pc : {"none", "digit", "play", "dial", "order", "set"},
              user : Caller, channel : 0..Len(owner)]
BotOK ==
  /\ press \in [Press -> PressType]
  /\ \A p \in Press : press[p].pc = "play" => press[p].channel # 0
  /\ dialled \subseteq Phone

LEMMA TypeParts ==
  /\ TypeOK <=> CallOK /\ CountOK /\ ChannelOK /\ ChatOK /\ UpdatesOK /\ AtOK /\ CachesOK /\ BotOK
  /\ TypeOK' <=> CallOK' /\ CountOK' /\ ChannelOK' /\ ChatOK' /\ UpdatesOK' /\ AtOK' /\ CachesOK'
                 /\ BotOK'
BY DEF TypeOK, CallOK, CountOK, ChannelOK, ChatOK, UpdatesOK, AtOK, CachesOK, BotOK,
       PressType

-----------------------------------------------------------------------------
(* Type correctness. *)

\* There is a user for a goroutine at rest to name.
LEMMA NobodyType == Nobody \in Caller
BY CallerAssumption DEF Nobody

\* At the start everything is empty.
LEMMA TypeInit == Init => TypeOK
<1> SUFFICES ASSUME Init PROVE TypeOK
  OBVIOUS
<1>1. CallOK /\ CountOK /\ ChannelOK /\ ChatOK /\ UpdatesOK
  BY BoundAssumption DEF Init, CallOK, CountOK, ChannelOK, ChatOK, UpdatesOK
<1>2. AtOK /\ BotOK
  BY <1>1, NobodyType DEF Init, AtOK, BotOK, PressType, ChannelOK, Idle, NoPress, Goroutine
<1>3. CachesOK
  BY DEF Init, CachesOK, Entry, None
<1> QED BY <1>1, <1>2, <1>3, TypeParts

\* A queue with one more and with one less.
LEMMA QueueType ==
  ASSUME NEW S, NEW q \in Seq(S)
  PROVE  /\ \A x \in S : Append(q, x) \in Seq(S)
         /\ q # <<>> => Head(q) \in S /\ Tail(q) \in Seq(S)
OBVIOUS

\* A reported update is of the queue's type, and a count stays in its bound.
LEMMA ReportType ==
  ASSUME UpdatesOK, NEW t \in UpdateType, NEW u \in Caller, Report(t, u)
  PROVE  UpdatesOK'
<1>1. Update(t, u) \in [type : UpdateType, user : Caller]
  BY DEF Update
<1> QED BY <1>1, QueueType DEF UpdatesOK, Report

LEMMA CountedType ==
  ASSUME CountOK, Counted("calls", MaxCalls) \/ Counted("turns", MaxTurns)
  PROVE  CountOK'
BY BoundAssumption DEF CountOK, Counted

\* A goroutine of the bot goes on.
LEMMA PressGoesOn ==
  ASSUME BotOK, NEW p \in Press, NEW x \in PressType, x.pc = "play" => x.channel # 0,
         press' = [press EXCEPT ![p] = x], UNCHANGED owner, dialled' \subseteq Phone
  PROVE  BotOK'
<1>1. PressType' = PressType
  BY DEF PressType
<1>2. press' \in [Press -> PressType]
  BY DEF BotOK
<1>3. \A q \in Press : press'[q].pc = "play" => press'[q].channel # 0
  BY DEF BotOK
<1> QED BY <1>1, <1>2, <1>3 DEF BotOK

\* One that takes a press up, or is done.
LEMMA GoroutineType ==
  ASSUME ChannelOK, NEW u \in Caller, NEW pc \in {"none", "digit", "dial"}
  PROVE  Goroutine(pc, u) \in PressType /\ Goroutine(pc, u).pc # "play"
BY DEF ChannelOK, Goroutine, PressType

\* What users, Telegram and the PBX do keeps the types.
LEMMA WorldType ==
  ASSUME TypeOK, NEW u \in Caller,
         \/ Ring(u) \/ RingRepeated(u) \/ SaveSipHeaders(u) \/ HangUp(u) \/ Forget(u)
         \/ Writes(u) \/ Expire(u) \/ \E p \in Press : Presses(p, u)
  PROVE  TypeOK'
<1> USE TypeParts DEF outside, chat, caches, listener, bot
<1>0. {"pending", "ended", "missed", "digits", "text"} \subseteq UpdateType
  BY DEF UpdateType
<1>1. CASE Ring(u)
  <2>1. CallOK' /\ CountOK' /\ UpdatesOK'
    BY <1>0, <1>1, ReportType, CountedType DEF Ring, CallOK
  <2> QED BY <1>1, <2>1 DEF Ring, ChannelOK, ChatOK, AtOK, CachesOK, BotOK, PressType
<1>2. CASE RingRepeated(u)
  <2>1. CountOK' /\ UpdatesOK'
    BY <1>0, <1>2, ReportType, CountedType DEF RingRepeated
  <2> QED BY <1>2, <2>1 DEF RingRepeated, CallOK, ChannelOK, ChatOK, AtOK, CachesOK, BotOK,
        PressType
<1>3. CASE SaveSipHeaders(u)
  <2>1. /\ owner' \in Seq(Caller) /\ Len(owner') = Len(owner) + 1 /\ Len(owner) \in Nat
        /\ 0..Len(owner) \subseteq 0..Len(owner')
    BY <1>3 DEF SaveSipHeaders, ChannelOK
  <2>2. CallOK' /\ ChannelOK'
    BY <1>3, <2>1 DEF SaveSipHeaders, CallOK, ChannelOK
  <2>3. AtOK' /\ BotOK'
    BY <1>3, <2>1 DEF SaveSipHeaders, AtOK, BotOK, PressType
  <2> QED BY <1>3, <2>2, <2>3 DEF SaveSipHeaders, CountOK, ChatOK, UpdatesOK, CachesOK
<1>4. CASE HangUp(u)
  <2>1. CallOK' /\ UpdatesOK'
    BY <1>0, <1>4, ReportType DEF HangUp, CallOK
  <2> QED BY <1>4, <2>1 DEF HangUp, CountOK, ChannelOK, ChatOK, AtOK, CachesOK, BotOK, PressType
<1>5. CASE Forget(u)
  <2>1. ChannelOK'
    BY <1>5 DEF Forget, ChannelOK
  <2> QED BY <1>5, <2>1 DEF Forget, CallOK, CountOK, ChatOK, UpdatesOK, AtOK, CachesOK, BotOK,
        PressType
<1>6. CASE Writes(u)
  <2>1. CountOK' /\ UpdatesOK'
    BY <1>0, <1>6, ReportType, CountedType DEF Writes
  <2> QED BY <1>6, <2>1 DEF Writes, CallOK, ChannelOK, ChatOK, AtOK, CachesOK, BotOK, PressType
<1>7. CASE Expire(u)
  <2>1. CachesOK'
    BY <1>7 DEF Expire, CachesOK, Entry, None
  <2> QED BY <1>7, <2>1 DEF Expire, CallOK, CountOK, ChannelOK, ChatOK, UpdatesOK, AtOK, BotOK,
        PressType
<1>8. ASSUME NEW p \in Press, Presses(p, u) PROVE TypeOK'
  <2>1. BotOK'
    <3>1. PICK pc \in {"digit", "dial"} : press' = [press EXCEPT ![p] = Goroutine(pc, u)]
      BY <1>8 DEF Presses
    <3>2. UNCHANGED owner /\ dialled' \subseteq Phone
      BY <1>8 DEF Presses, BotOK
    <3> QED BY <3>1, <3>2, GoroutineType, PressGoesOn
  <2> QED BY <1>8, <2>1 DEF Presses, CallOK, CountOK, ChannelOK, ChatOK, UpdatesOK, AtOK, CachesOK
<1> QED BY <1>1, <1>2, <1>3, <1>4, <1>5, <1>6, <1>7, <1>8

\* So does the listener: no message it serves leaves it anywhere it cannot go on from.
LEMMA ListenerType ==
  ASSUME TypeOK, Listener \/ Killed
  PROVE  TypeOK'
<1> USE TypeParts, NobodyType DEF outside, chat, caches, listener, bot, Done, Idle, Goroutine
<1>0. at.user \in Caller
  BY DEF AtOK
<1>1. CASE Take
  <2>1. Head(updates) \in [type : UpdateType, user : Caller] /\ UpdatesOK'
    BY <1>1, QueueType DEF Take, UpdatesOK
  <2>2. Head(updates).type \in UpdateType /\ Head(updates).user \in Caller
    BY <2>1
  <2>3. UpdateType \subseteq UpdateType \cup {"idle", "read", "say", "play", "panic", "down"}
        /\ "play" \notin UpdateType
    BY DEF UpdateType
  <2>4. AtOK'
    BY <1>1, <2>2, <2>3 DEF Take, AtOK, ChannelOK
  <2> QED BY <1>1, <2>1, <2>4 DEF Take, CallOK, CountOK, ChannelOK, ChatOK, CachesOK, BotOK,
        PressType
<1>2. CASE SendKeyboard
  <2>1. AtOK'
    BY <1>2 DEF SendKeyboard, AtOK, ChannelOK
  <2>2. ChatOK'
    BY <1>0, <1>2 DEF SendKeyboard, ChatOK
  <2>3. CachesOK'
    <3>1. cache[at.user] \in Entry /\ Id(sent + 1) \in Entry
      BY <1>0 DEF CachesOK, ChatOK, Entry, Id
    <3>2. cache[at.user].id \in Nat
      BY <3>1 DEF Entry
    <3> QED BY <1>0, <1>2, <3>1, <3>2 DEF SendKeyboard, CachesOK
  <2> QED BY <1>2, <2>1, <2>2, <2>3 DEF SendKeyboard, CallOK, CountOK, ChannelOK, UpdatesOK,
        BotOK, PressType
<1>3. CASE SendCard
  <2>1. AtOK' /\ ChatOK'
    BY <1>0, <1>3 DEF SendCard, AtOK, ChatOK, ChannelOK
  <2> QED BY <1>3, <2>1 DEF SendCard, CallOK, CountOK, ChannelOK, UpdatesOK, CachesOK, BotOK,
        PressType
<1>4. CASE RemoveKeyboard
  <2>1. AtOK'
    BY <1>4 DEF RemoveKeyboard, AtOK, ChannelOK
  <2>2. ChatOK'
    BY <1>0, <1>4 DEF RemoveKeyboard, ChatOK
  <2>3. CachesOK'
    BY <1>0, <1>4 DEF RemoveKeyboard, CachesOK, Entry, Text
  <2> QED BY <1>4, <2>1, <2>2, <2>3 DEF RemoveKeyboard, CallOK, CountOK, ChannelOK, UpdatesOK,
        BotOK, PressType
<1>5. CASE IsBot
  <2>1. AtOK'
    BY <1>5 DEF IsBot, AtOK, ChannelOK
  <2> QED BY <1>5, <2>1 DEF IsBot, CallOK, CountOK, ChannelOK, ChatOK, UpdatesOK, CachesOK,
        BotOK, PressType
<1>6. CASE GetChannel
  <2>1. AtOK'
    BY <1>0, <1>6 DEF GetChannel, AtOK, ChannelOK
  <2> QED BY <1>6, <2>1 DEF GetChannel, CallOK, CountOK, ChannelOK, ChatOK, UpdatesOK, CachesOK,
        BotOK, PressType
<1>7. CASE PlayDigits
  <2>1. AtOK'
    BY <1>7 DEF PlayDigits, AtOK, ChannelOK
  <2> QED BY <1>7, <2>1 DEF PlayDigits, CallOK, CountOK, ChannelOK, ChatOK, UpdatesOK, CachesOK,
        BotOK, PressType
<1>8. CASE SendMessage
  <2>1. AtOK'
    BY <1>8 DEF SendMessage, AtOK, ChannelOK
  <2>2. CachesOK'
    BY <1>0, <1>8 DEF SendMessage, CachesOK, Entry, Text
  <2> QED BY <1>8, <2>1, <2>2 DEF SendMessage, CallOK, CountOK, ChannelOK, ChatOK, UpdatesOK,
        BotOK, PressType
<1>9. CASE Panics \/ Killed
  <2>1. AtOK' /\ UpdatesOK'
    <3>1. at' = Goroutine("down", Nobody) /\ updates' = <<>> /\ UNCHANGED owner
      BY <1>9 DEF Panics, Killed, Ends
    <3>2. AtOK'
      BY <3>1 DEF AtOK, ChannelOK
    <3> QED BY <3>1, <3>2 DEF UpdatesOK
  <2>2. CachesOK'
    BY <1>9 DEF Panics, Killed, Ends, CachesOK, Entry, None, ChatOK
  <2>3. CountOK'
    BY <1>9, CountedType DEF Panics, Killed, CountOK
  <2> QED BY <1>9, <2>1, <2>2, <2>3 DEF Panics, Killed, Ends, CallOK, ChannelOK, ChatOK, BotOK,
        PressType
<1>10. CASE Restart
  <2>1. AtOK'
    BY <1>10 DEF Restart, AtOK, ChannelOK
  <2> QED BY <1>10, <2>1 DEF Restart, CallOK, CountOK, ChannelOK, ChatOK, UpdatesOK, CachesOK,
        BotOK, PressType
<1> QED BY <1>1, <1>2, <1>3, <1>4, <1>5, <1>6, <1>7, <1>8, <1>9, <1>10 DEF Listener

\* And the bot.
LEMMA BotType ==
  ASSUME TypeOK, Bot
  PROVE  TypeOK'
<1> USE TypeParts, NobodyType DEF outside, chat, caches, listener
<1>1. ASSUME NEW p \in Press,
             BotGetChannel(p) \/ BotPlaysDigit(p) \/ BotLooks(p) \/ BotOrders(p) \/ BotSets(p)
      PROVE  TypeOK'
  <2>1. press[p].user \in Caller /\ PhoneOf[press[p].user] \in Phone
    BY <1>1, PhoneAssumption DEF BotOK, PressType
  <2>2. UNCHANGED owner /\ dialled' \subseteq Phone
    BY <1>1, <2>1 DEF BotGetChannel, BotPlaysDigit, BotLooks, BotOrders, BotSets, BotOK
  <2>3. press[p] \in PressType
    BY DEF BotOK
  <2>4. \E x \in PressType : (x.pc = "play" => x.channel # 0) /\ press' = [press EXCEPT ![p] = x]
    <3>1. CASE Return(p)
      BY <3>1, GoroutineType DEF Return, NoPress
    <3>2. CASE BotGetChannel(p) /\ ~Return(p)
      <4>1. redis[press[p].user] \in 0..Len(owner) \ {0}
        BY <2>1, <3>2 DEF BotGetChannel, ChannelOK
      <4>2. [press[p] EXCEPT !.pc = "play", !.channel = redis[press[p].user]] \in PressType
        BY <2>3, <4>1 DEF PressType
      <4>3. [press[p] EXCEPT !.pc = "play", !.channel = redis[press[p].user]].channel # 0
        BY <2>3, <4>1 DEF PressType
      <4>4. press' = [press EXCEPT ![p] =
                        [press[p] EXCEPT !.pc = "play", !.channel = redis[press[p].user]]]
        BY <3>2 DEF BotGetChannel, BotOK
      <4> QED BY <4>2, <4>3, <4>4
    <3>3. CASE (BotLooks(p) \/ BotOrders(p)) /\ ~Return(p)
      <4>1. PICK pc \in {"order", "set"} : Step(p, pc)
        BY <3>3 DEF BotLooks, BotOrders
      <4>2. [press[p] EXCEPT !.pc = pc] \in PressType /\ [press[p] EXCEPT !.pc = pc].pc # "play"
        BY <2>3 DEF PressType
      <4>3. press' = [press EXCEPT ![p] = [press[p] EXCEPT !.pc = pc]]
        BY <4>1 DEF Step, BotOK
      <4> QED BY <4>2, <4>3
    <3> QED BY <1>1, <3>1, <3>2, <3>3 DEF BotGetChannel, BotPlaysDigit, BotLooks, BotOrders, BotSets
  <2>6. BotOK'
    BY <2>2, <2>4, PressGoesOn
  <2> QED BY <1>1, <2>6 DEF BotGetChannel, BotPlaysDigit, BotLooks, BotOrders, BotSets, CallOK,
       CountOK, ChannelOK, ChatOK, UpdatesOK, AtOK, CachesOK
<1>2. ASSUME NEW x \in Phone, BotForgets(x) PROVE TypeOK'
  BY <1>2 DEF BotForgets, BotOK, PressType, CallOK, CountOK, ChannelOK, ChatOK, UpdatesOK, AtOK,
        CachesOK
<1> QED BY <1>1, <1>2 DEF Bot

\* Every step keeps the types.
LEMMA TypeNext == TypeOK /\ [Next]_vars => TypeOK'
<1>1. ASSUME TypeOK, UNCHANGED vars PROVE TypeOK'
  BY <1>1 DEF TypeOK, vars, outside, chat, caches, listener, bot
<1> QED BY <1>1, WorldType, ListenerType, BotType DEF Next, World

\* Whatever users write, press and call, the program stays in the declared states: what is
\* played has a channel, and only keyboards that were sent are in a chat.
THEOREM TypeCorrect == Spec => []TypeOK
BY TypeInit, TypeNext, PTL DEF Spec

-----------------------------------------------------------------------------
(***************************************************************************)
(* Whose digits and whose keyboards.  A channel has one user for ever, and  *)
(* Redis keeps it under that user; so whoever looks it up, at whatever      *)
(* time, has a channel of the user it looks for.                            *)
(***************************************************************************)
RedisOwner == \A u \in Caller : redis[u] # 0 => owner[redis[u]] = u

ChannelInv == RedisOwner /\ DigitsToCaller

\* No one has a channel at the start.
LEMMA ChannelInit == Init => ChannelInv
BY DEF Init, ChannelInv, RedisOwner, DigitsToCaller, Idle, NoPress, Goroutine

\* A new channel leaves the users of the others as they are.
LEMMA NewChannel ==
  ASSUME TypeOK, ChannelInv, NEW u \in Caller, SaveSipHeaders(u)
  PROVE  ChannelInv'
<1> USE TypeParts DEF chat, listener, bot, caches
<1>1. /\ Len(owner) \in Nat /\ Len(owner') = Len(owner) + 1 /\ owner'[Len(owner')] = u
      /\ \A c \in 1..Len(owner) : owner'[c] = owner[c]
  BY DEF SaveSipHeaders, ChannelOK
<1>2. RedisOwner'
  BY <1>1 DEF SaveSipHeaders, ChannelOK, ChannelInv, RedisOwner
<1>3. at.pc = "play" => at.channel \in 1..Len(owner)
  BY DEF AtOK, ChannelOK
<1>4. \A p \in Press : press[p].pc = "play" => press[p].channel \in 1..Len(owner)
  BY DEF BotOK, PressType, ChannelOK
<1> QED BY <1>1, <1>2, <1>3, <1>4 DEF SaveSipHeaders, ChannelInv, DigitsToCaller

\* Nothing else changes whose a channel is; a goroutine that plays took the channel of the
\* user it serves.
LEMMA ChannelsKept ==
  ASSUME TypeOK, ChannelInv, UNCHANGED owner,
         \A u \in Caller : redis'[u] \in {0, redis[u]},
         \/ at' = at
         \/ at'.pc # "play"
         \/ GetChannel,
         \/ press' = press
         \/ \E p \in Press, x \in PressType : x.pc # "play" /\ press' = [press EXCEPT ![p] = x]
         \/ \E p \in Press : BotGetChannel(p)
  PROVE  ChannelInv'
<1> USE TypeParts
<1>1. RedisOwner'
  BY DEF ChannelInv, RedisOwner
<1>2. (at.pc = "play" => owner[at.channel] = at.user)'
  <2>1. CASE at' = at \/ at'.pc # "play"
    BY <2>1 DEF ChannelInv, DigitsToCaller
  <2>2. CASE GetChannel
    BY <2>2 DEF GetChannel, AtOK, ChannelInv, RedisOwner
  <2> QED BY <2>1, <2>2
<1>3. ASSUME NEW q \in Press, press'[q].pc = "play" PROVE owner'[press'[q].channel] = press'[q].user
  <2>1. CASE press'[q] = press[q]
    BY <1>3, <2>1 DEF ChannelInv, DigitsToCaller
  <2>2. ASSUME NEW p \in Press, NEW x \in PressType, x.pc # "play", press' = [press EXCEPT ![p] = x]
        PROVE  press'[q] = press[q]
    BY <1>3, <2>2 DEF BotOK
  <2>3. ASSUME BotGetChannel(q), press'[q] # press[q]
        PROVE  owner'[press'[q].channel] = press'[q].user
    <3>1. press[q] \in PressType /\ press[q].user \in Caller
      BY DEF BotOK, PressType
    <3>2. CASE Return(q)
      BY <1>3, <3>2 DEF Return, NoPress, Goroutine, BotOK
    <3>3. CASE ~Return(q)
      <4>1. /\ redis[press[q].user] # 0
            /\ press'[q] = [press[q] EXCEPT !.pc = "play", !.channel = redis[press[q].user]]
        BY <2>3, <3>3 DEF BotGetChannel, BotOK
      <4>2. press'[q].channel = redis[press[q].user] /\ press'[q].user = press[q].user
        BY <3>1, <4>1 DEF PressType
      <4> QED BY <3>1, <4>1, <4>2 DEF ChannelInv, RedisOwner
    <3> QED BY <3>2, <3>3
  <2>4. ASSUME NEW p \in Press, p # q, BotGetChannel(p) PROVE press'[q] = press[q]
    BY <2>4 DEF BotGetChannel, Return, BotOK
  <2> QED BY <2>1, <2>2, <2>3, <2>4
<1> QED BY <1>1, <1>2, <1>3 DEF ChannelInv, DigitsToCaller

\* Every step is of one of these two kinds.
LEMMA ChannelNext == TypeOK /\ ChannelInv /\ [Next]_vars => ChannelInv'
<1> SUFFICES ASSUME TypeOK, ChannelInv, [Next]_vars PROVE ChannelInv'
  OBVIOUS
<1> USE TypeParts DEF vars, outside, chat, caches, listener, bot
<1>1. CASE UNCHANGED vars
  BY <1>1 DEF ChannelInv, RedisOwner, DigitsToCaller
<1>2. ASSUME NEW u \in Caller, Ring(u) \/ RingRepeated(u) \/ HangUp(u) \/ Forget(u) \/ Writes(u) \/ Expire(u)
      PROVE  ChannelInv'
  <2>1. UNCHANGED <<owner, at, press>> /\ \A v \in Caller : redis'[v] \in {0, redis[v]}
    BY <1>2 DEF Ring, RingRepeated, HangUp, Forget, Writes, Expire, ChannelOK
  <2> QED BY <2>1, ChannelsKept
<1>3. ASSUME NEW u \in Caller, NEW p \in Press, Presses(p, u) PROVE ChannelInv'
  <2>1. UNCHANGED <<owner, at, redis>>
    BY <1>3 DEF Presses
  <2>2. \E x \in PressType : x.pc # "play" /\ press' = [press EXCEPT ![p] = x]
    BY <1>3, GoroutineType DEF Presses
  <2> QED BY <2>1, <2>2, ChannelsKept
<1>4. CASE Listener \/ Killed
  <2>1. UNCHANGED <<owner, redis, press>>
    BY <1>4 DEF Listener, Take, SendKeyboard, SendCard, RemoveKeyboard, IsBot, GetChannel,
          PlayDigits,
       SendMessage, Panics, Killed, Ends, Restart
  <2>2. at' = at \/ at'.pc # "play" \/ GetChannel
    <3>1. CASE Take
      <4>1. Head(updates) \in [type : UpdateType, user : Caller]
        BY <3>1, QueueType DEF Take, UpdatesOK
      <4> QED BY <3>1, <4>1 DEF Take, Goroutine, UpdateType
    <3>2. CASE RemoveKeyboard \/ IsBot
      BY <3>2 DEF RemoveKeyboard, IsBot, Done, Idle, Goroutine, AtOK
    <3> QED BY <1>4, <3>1, <3>2 DEF Listener, SendKeyboard, SendCard, PlayDigits, SendMessage,
          Panics,
         Killed, Ends, Restart, Done, Idle, Goroutine
  <2> QED BY <2>1, <2>2, ChannelsKept
<1>5. CASE Bot
  <2>1. UNCHANGED <<owner, redis, at>>
    BY <1>5 DEF Bot, BotGetChannel, BotPlaysDigit, BotLooks, BotOrders, BotSets, BotForgets
  <2>2. ASSUME NEW p \in Press, BotPlaysDigit(p) \/ BotLooks(p) \/ BotOrders(p) \/ BotSets(p)
        PROVE  \E x \in PressType : x.pc # "play" /\ press' = [press EXCEPT ![p] = x]
    <3>1. press[p] \in PressType
      BY DEF BotOK
    <3>2. CASE Return(p)
      BY <3>2, GoroutineType, NobodyType DEF Return, NoPress
    <3>3. ASSUME NEW pc \in {"order", "set"}, Step(p, pc)
          PROVE  \E x \in PressType : x.pc # "play" /\ press' = [press EXCEPT ![p] = x]
      <4>1. [press[p] EXCEPT !.pc = pc] \in PressType /\ [press[p] EXCEPT !.pc = pc].pc # "play"
        BY <3>1 DEF PressType
      <4>2. press' = [press EXCEPT ![p] = [press[p] EXCEPT !.pc = pc]]
        BY <3>3 DEF Step, BotOK
      <4> QED BY <4>1, <4>2
    <3> QED BY <2>2, <3>2, <3>3 DEF BotPlaysDigit, BotLooks, BotOrders, BotSets
  <2>3. ASSUME NEW x \in Phone, BotForgets(x) PROVE press' = press
    BY <2>3 DEF BotForgets
  <2> QED BY <1>5, <2>1, <2>2, <2>3, ChannelsKept DEF Bot
<1> QED BY <1>1, <1>2, <1>3, <1>4, <1>5, NewChannel DEF Next, World

\* For any number of users, calls, presses and texts, and however late an entry in Redis is
\* used or replaced, digits are played only into a call of the user they came from.
THEOREM DigitsStay == Spec => []DigitsToCaller
<1>1. TypeOK /\ ChannelInv => DigitsToCaller
  BY DEF ChannelInv
<1> QED BY <1>1, TypeInit, TypeNext, ChannelInit, ChannelNext, PTL DEF Spec

-----------------------------------------------------------------------------
(* The entry under a user's id. *)

\* No keyboard is known at the start.
LEMMA EntryInit == Init => EntryIsShown
BY DEF Init, EntryIsShown, None

\* A keyboard leaves the chat only together with its entry.
LEMMA EntryNext == TypeOK /\ EntryIsShown /\ [Next]_vars => EntryIsShown'
<1> SUFFICES ASSUME TypeOK, EntryIsShown, [Next]_vars PROVE EntryIsShown'
  OBVIOUS
<1> USE TypeParts DEF vars, outside, chat, caches, listener, bot
<1>1. CASE UNCHANGED <<shown, cache>>
  BY <1>1 DEF EntryIsShown
<1>2. ASSUME NEW u \in Caller, Expire(u) PROVE EntryIsShown'
  BY <1>2 DEF Expire, EntryIsShown, CachesOK, None
<1>3. at.user \in Caller
  BY DEF AtOK
<1>4. CASE SendKeyboard
  BY <1>3, <1>4 DEF SendKeyboard, EntryIsShown, CachesOK, ChatOK, Id
<1>5. CASE RemoveKeyboard
  BY <1>3, <1>5 DEF RemoveKeyboard, EntryIsShown, CachesOK, ChatOK, Text
<1>6. CASE SendMessage
  BY <1>3, <1>6 DEF SendMessage, EntryIsShown, CachesOK, Text
<1>7. CASE Panics \/ Killed
  BY <1>7 DEF Panics, Killed, Ends, EntryIsShown, None
<1> QED BY <1>1, <1>2, <1>4, <1>5, <1>6, <1>7 DEF Next, World, Listener, Bot, Ring, RingRepeated,
     SaveSipHeaders, HangUp, Forget, Writes, Presses, Take, SendCard, IsBot, GetChannel, PlayDigits,
     Restart, BotGetChannel, BotPlaysDigit, BotLooks, BotOrders, BotSets, BotForgets

\* For any number of users and calls, the listener holds the id of a keyboard only while that
\* keyboard is in the chat of the user it is kept for: it never deletes another message.
THEOREM EntriesShown == Spec => []EntryIsShown
BY TypeInit, TypeNext, EntryInit, EntryNext, PTL DEF Spec
=============================================================================
