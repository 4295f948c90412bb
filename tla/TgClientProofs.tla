--------------------------- MODULE TgClientProofs ---------------------------
(***************************************************************************)
(* Theorems about TgClient, for any number of contacts and queries.         *)
(***************************************************************************)
EXTENDS TgClient, TLAPS

Later   == Query \cup SignOn
Sending == [step : {"no", "counted", "emplace"}, id : Nat, q : Later \cup {NoQuery}]

\* The type invariant taken apart.
FlagsOK ==
  /\ raced \in BOOLEAN /\ closed \in BOOLEAN /\ stop \in BOOLEAN
  /\ ready \in {"unset", "true", "false"} /\ process \in {"runs", "exited", "aborted"}
  /\ auth \in AuthState
MainOK ==
  /\ main \in [at : {"wait", "search", "users", "collect", "loop", "join"}, n : Nat]
  /\ asked \subseteq Query /\ answer \in [Query -> SUBSET Query]
SendOK == send \in [Thread -> Sending]
TgOK ==
  tg \in [at : {"test", "receive", "find", "found", "called", "erase", "sign", "ended"},
          got : Incoming, todo : Seq(SignOn)]
TdlibOK == tdIn \subseteq [id : Nat, q : Later] /\ tdOut \in Seq(Incoming)
TableOK ==
  /\ counter \in Nat /\ DOMAIN handlers \subseteq 1..counter
  /\ \A id \in DOMAIN handlers : handlers[id] \in Later

\* The type invariant is the conjunction of its parts.
LEMMA TypeParts ==
  TypeOK <=> FlagsOK /\ MainOK /\ SendOK /\ TgOK /\ TdlibOK /\ TableOK
BY DEF TypeOK, FlagsOK, MainOK, SendOK, Sending, TgOK, TdlibOK, TableOK, Later

(***************************************************************************)
(* The inductive invariant.                                                *)
(***************************************************************************)
Serving == {"search", "users", "collect", "loop"}
Asking  == {"WaitTdlibParameters", "WaitEncryptionKey"}

\* Who may be in send_query: the TDLib thread until the authorisation, then the main thread.
TurnsInv ==
  /\ send["tg"].step # "no" => tg.at = "sign"
  /\ send["main"].step # "no" => ready = "true"
  /\ main.at \in Serving => ready = "true"
  /\ ready = "true" => tg.at # "sign"

\* TDLib's reports: after Ready nothing asks for a sign-on.
ReportsInv ==
  /\ ready = "true" =>
       auth \in {"Ready", "LoggingOut"} /\ \A i \in 1..Len(tdOut) : tdOut[i].state \notin Asking
  /\ \A i \in 1..Len(tdOut) : tdOut[i].state = "Ready" =>
       /\ auth \in {"Ready", "LoggingOut"}
       /\ \A j \in (i + 1)..Len(tdOut) : tdOut[j].state \notin Asking
  /\ auth = "LoggingOut" /\ process = "runs" /\ ready # "false" =>
       \E i \in 1..Len(tdOut) : tdOut[i].state = "LoggingOut"
  /\ \A i \in 1..Len(tdOut) : tdOut[i].id # 0 => tdOut[i].state = "none"

\* The id that is being sent is a new one.
FreshInv ==
  \A t \in Thread : send[t].step # "no" =>
    /\ send[t].id = IF send[t].step = "counted" THEN counter + 1 ELSE counter
    /\ send[t].id # 0
    /\ send[t].q \in SignOn \cup asked
    /\ send[t].id \notin DOMAIN handlers

\* A query TDLib was sent, or the response to it: a handler of that id is the query's.
Known(r) ==
  /\ r.id \in 1..counter
  /\ r.q \in SignOn \cup asked
  /\ r.id \in DOMAIN handlers => handlers[r.id] = r.q
  /\ \A t \in Thread : send[t].step # "no" => send[t].id # r.id

KnownInv ==
  /\ \A r \in tdIn : Known(r)
  /\ \A i \in 1..Len(tdOut) : tdOut[i].id # 0 => Known(tdOut[i])
  /\ tg.at \in {"find", "found", "called", "erase"} => Known(tg.got)
  /\ tg.at = "found" => tg.got.id \in DOMAIN handlers

\* What the main thread asked so far.
AskedInv ==
  /\ Search \in asked => main.at # "wait" /\ ~(main.at = "search" /\ main.n = 0)
  /\ \A k \in 1..Contacts : <<"getUser", k>> \in asked =>
       main.at \in {"collect", "loop", "join"} \/ (main.at = "users" /\ k < main.n)
  /\ \A k \in 1..Calls : <<"call", k>> \in asked =>
       main.at = "join" \/ (main.at = "loop" /\ k < main.n)

Inv == TypeOK /\ TurnsInv /\ ReportsInv /\ FreshInv /\ KnownInv /\ AskedInv

-----------------------------------------------------------------------------
(***************************************************************************)
(* Queries and sequences.                                                  *)
(***************************************************************************)
\* The queries of signing on, of the main thread, and no query are distinct.
LEMMA Queries ==
  /\ SignOn \cap Query = {} /\ NoQuery \notin Later /\ Search \in Query
  /\ \A k \in 1..Contacts : <<"getUser", k>> \in Query
  /\ \A k \in 1..Calls : <<"call", k>> \in Query
BY DEF Later, Query, SignOn, NoQuery, Search, User, Call, SetParameters, CheckKey, SetProxy

\* A sequence with two more elements.
LEMMA AddedTwo ==
  ASSUME NEW S, NEW s \in Seq(S), NEW a \in S, NEW b \in S
  PROVE  /\ s \o <<a, b>> \in Seq(S)
         /\ Len(s \o <<a, b>>) = Len(s) + 2
         /\ \A i \in 1..Len(s) : (s \o <<a, b>>)[i] = s[i]
         /\ (s \o <<a, b>>)[Len(s) + 1] = a
         /\ (s \o <<a, b>>)[Len(s) + 2] = b
<1>1. <<a, b>> \in Seq(S) /\ Len(<<a, b>>) = 2 /\ <<a, b>>[1] = a /\ <<a, b>>[2] = b
  OBVIOUS
<1>2. ASSUME NEW t \in Seq(S)
      PROVE  /\ s \o t \in Seq(S) /\ Len(s \o t) = Len(s) + Len(t)
             /\ \A i \in 1..Len(s) : (s \o t)[i] = s[i]
             /\ \A i \in 1..Len(t) : (s \o t)[Len(s) + i] = t[i]
  OBVIOUS
<1> QED BY <1>1, <1>2

\* A sequence without its first element.
LEMMA FirstTaken ==
  ASSUME NEW S, NEW s \in Seq(S), s # << >>
  PROVE  /\ Head(s) \in S /\ Head(s) = s[1] /\ Tail(s) \in Seq(S)
         /\ Len(s) \in Nat \ {0} /\ Len(Tail(s)) = Len(s) - 1
         /\ \A i \in 1..Len(Tail(s)) : Tail(s)[i] = s[i + 1]
OBVIOUS

\* A sequence with one more element.
LEMMA OneAdded ==
  ASSUME NEW S, NEW s \in Seq(S), NEW a \in S
  PROVE  /\ Append(s, a) \in Seq(S) /\ Len(s) \in Nat /\ Len(Append(s, a)) = Len(s) + 1
         /\ \A i \in 1..Len(s) : Append(s, a)[i] = s[i]
         /\ Append(s, a)[Len(s) + 1] = a
OBVIOUS

-----------------------------------------------------------------------------
(***************************************************************************)
(* Type correctness.                                                       *)
(***************************************************************************)
\* The flags, the promise and the states of process and TDLib keep their types.
LEMMA FlagsStep ==
  ASSUME TypeOK, Next
  PROVE  FlagsOK'
<1> USE TypeParts DEF FlagsOK
<1>1. CASE TgThread
  BY <1>1 DEF TgThread, TestClosed, ReceiveNothing, ReceiveResponse, Find, CallHandler, BeginErase,
       Erase, ReceiveUpdate, Decide, Sign, Signed, SendQuery, BeginEmplace, EmplaceAndSend, Enter,
       client, tdlib
<1>2. CASE MainThread
  BY <1>2 DEF MainThread, Authorised, NotAuthorised, AskSearch, SearchDone, AskUser, AskedUsers,
       CollectUser, Collected, AskCall, Stopped, Close, Join, Ask, MainTo, SendQuery, BeginEmplace,
       EmplaceAndSend, Enter, client, tdlib
<1>3. CASE Signal \/ Crash \/ TdLogOut
  BY <1>3 DEF Signal, Crash, TdLogOut, client, tdlib, AuthState
<1>4. ASSUME NEW r \in tdIn, TdAnswer(r) PROVE FlagsOK'
  BY <1>4 DEF TdAnswer, Follows, client, AuthState
<1> QED BY <1>1, <1>2, <1>3, <1>4 DEF Next, TdAnswers

\* The place of the main thread, its questions and their answers keep their types.
LEMMA MainStep ==
  ASSUME Inv, Next
  PROVE  MainOK'
<1> USE TypeParts, CallsAssumption, ContactsAssumption DEF MainOK, Inv
<1>1. CASE CallHandler
  <2>1. handlers[tg.got.id] = tg.got.q
    BY <1>1 DEF CallHandler, KnownInv, Known
  <2> QED BY <1>1, <2>1 DEF CallHandler
<1>2. ASSUME TgThread, ~CallHandler PROVE UNCHANGED <<main, asked, answer>>
  BY <1>2 DEF TgThread, TestClosed, ReceiveNothing, ReceiveResponse, Find, BeginErase, Erase,
       ReceiveUpdate, Sign, Signed, SendQuery, BeginEmplace, EmplaceAndSend, future
<1>3. CASE AskSearch \/ AskUser \/ AskCall
  BY <1>3, Queries DEF AskSearch, AskUser, AskCall, Ask
<1>4. CASE Authorised \/ NotAuthorised \/ SearchDone \/ AskedUsers \/ CollectUser \/ Collected \/ Stopped
  BY <1>4 DEF Authorised, NotAuthorised, SearchDone, AskedUsers, CollectUser, Collected, Stopped,
       MainTo, future
<1>5. CASE Close \/ Join \/ SendQuery("main")
  BY <1>5 DEF Close, Join, SendQuery, BeginEmplace, EmplaceAndSend, future
<1>6. CASE Signal \/ Crash \/ TdAnswers \/ TdLogOut
  BY <1>6 DEF Signal, Crash, TdAnswers, TdAnswer, TdLogOut, future
<1> QED BY <1>1, <1>2, <1>3, <1>4, <1>5, <1>6 DEF Next, MainThread

\* Where the threads are in send_query keeps its type.
LEMMA SendStep ==
  ASSUME TypeOK, Next
  PROVE  SendOK'
<1> USE TypeParts, CallsAssumption, ContactsAssumption DEF SendOK
<1>1. ASSUME NEW t \in Thread, NEW q \in Later, NextQueryId(t, q) PROVE SendOK'
  BY <1>1 DEF NextQueryId, Sending, TableOK
<1>2. ASSUME NEW t \in Thread, BeginEmplace(t) PROVE SendOK'
  BY <1>2 DEF BeginEmplace, Sending
<1>3. ASSUME NEW t \in Thread, EmplaceAndSend(t) PROVE SendOK'
  BY <1>3 DEF EmplaceAndSend, Sending, Idle
<1>4. CASE Sign
  <2>1. Head(tg.todo) \in Later BY <1>4 DEF Sign, TgOK, Later
  <2> QED BY <1>4, <1>1, <2>1 DEF Sign, Thread
<1>5. CASE AskSearch \/ AskUser \/ AskCall
  BY <1>5, <1>1, Queries DEF AskSearch, AskUser, AskCall, Ask, Later, Thread
<1>6. CASE TestClosed \/ ReceiveNothing \/ ReceiveResponse \/ Find \/ CallHandler \/ BeginErase
           \/ Erase \/ ReceiveUpdate \/ Signed
  BY <1>6 DEF TestClosed, ReceiveNothing, ReceiveResponse, Find, CallHandler, BeginErase, Erase,
       ReceiveUpdate, Signed, client
<1>7. CASE Authorised \/ NotAuthorised \/ SearchDone \/ AskedUsers \/ CollectUser \/ Collected
           \/ Stopped \/ Close \/ Join
  BY <1>7 DEF Authorised, NotAuthorised, SearchDone, AskedUsers, CollectUser, Collected, Stopped,
       Close, Join, MainTo, client
<1>8. CASE Signal \/ Crash \/ TdAnswers \/ TdLogOut
  BY <1>8 DEF Signal, Crash, TdAnswers, TdAnswer, TdLogOut, client
<1> QED BY <1>2, <1>3, <1>4, <1>5, <1>6, <1>7, <1>8 DEF Next, TgThread, MainThread, SendQuery, Thread

\* The place of the TDLib thread keeps its type.
LEMMA TgStep ==
  ASSUME TypeOK, Next
  PROVE  TgOK'
<1> USE TypeParts DEF TgOK
<1>1. CASE ReceiveResponse
  BY <1>1, FirstTaken DEF ReceiveResponse, TdlibOK
<1>2. CASE ReceiveUpdate
  <2>1. Requests(Head(tdOut).state) \in Seq(SignOn)
    <3>1. <<SetParameters>> \in Seq(SignOn) /\ <<CheckKey, SetProxy>> \in Seq(SignOn) /\ << >> \in Seq(SignOn)
      BY DEF SignOn
    <3> QED BY <3>1 DEF Requests
  <2> QED BY <1>2, <2>1 DEF ReceiveUpdate
<1>3. CASE Sign
  BY <1>3 DEF Sign
<1>4. CASE TestClosed \/ ReceiveNothing \/ CallHandler \/ BeginErase \/ Signed \/ SendQuery("tg")
  BY <1>4 DEF TestClosed, ReceiveNothing, CallHandler, BeginErase, Signed, SendQuery, BeginEmplace,
       EmplaceAndSend
<1>7. CASE Find \/ Erase
  <2>1. Nothing \in Incoming
    BY DEF Nothing, Incoming
  <2> QED BY <1>7, <2>1 DEF Find, Erase
<1>5. CASE MainThread
  BY <1>5 DEF MainThread, Authorised, NotAuthorised, AskSearch, SearchDone, AskUser, AskedUsers,
       CollectUser, Collected, AskCall, Stopped, Close, Join, Ask, MainTo, SendQuery, BeginEmplace,
       EmplaceAndSend
<1>6. CASE Signal \/ Crash \/ TdAnswers \/ TdLogOut
  BY <1>6 DEF Signal, Crash, TdAnswers, TdAnswer, TdLogOut
<1> QED BY <1>1, <1>2, <1>3, <1>4, <1>5, <1>6, <1>7 DEF Next, TgThread

\* TDLib's responses and updates are what the queue holds.
LEMMA Announced ==
  /\ \A r \in [id : Nat, q : Later] : Response(r) \in Incoming
  /\ \A state \in AuthState : Update(state) \in Incoming
BY DEF Response, Update, Incoming, Later

\* TDLib's queries and its queue keep their types.
LEMMA TdlibStep ==
  ASSUME Inv, Next
  PROVE  TdlibOK'
<1> USE TypeParts DEF TdlibOK, Inv
<1>1. CASE ReceiveResponse \/ ReceiveUpdate
  BY <1>1, FirstTaken DEF ReceiveResponse, ReceiveUpdate
<1>2. ASSUME NEW t \in Thread, EmplaceAndSend(t) PROVE TdlibOK'
  <2>1. send[t].q \in Later /\ send[t].id \in Nat
    BY <1>2, Queries DEF EmplaceAndSend, SendOK, Sending, FreshInv, MainOK, Later
  <2> QED BY <1>2, <2>1 DEF EmplaceAndSend
<1>3. ASSUME NEW t \in Thread, BeginEmplace(t) PROVE TdlibOK'
  BY <1>3 DEF BeginEmplace, tdlib
<1>4. ASSUME NEW r \in tdIn, TdAnswer(r) PROVE TdlibOK'
  <2>1. Response(r) \in Incoming /\ tdIn' \subseteq tdIn
    BY <1>4, Announced DEF TdAnswer
  <2>2. CASE tdOut' = Append(tdOut, Response(r))
    BY <2>1, <2>2
  <2>3. ASSUME auth' \in Follows(r.q),
               \/ tdOut' = tdOut \o <<Response(r), Update(auth')>>
               \/ tdOut' = tdOut \o <<Update(auth'), Response(r)>>
        PROVE  TdlibOK'
    <3>1. Update(auth') \in Incoming
      BY <2>3, Announced DEF Follows, AuthState
    <3>2. \A a, b \in Incoming : tdOut \o <<a, b>> \in Seq(Incoming)
      BY AddedTwo
    <3>3. tdOut' \in Seq(Incoming)
      BY <2>1, <2>3, <3>1, <3>2, Zenon
    <3> QED BY <2>1, <3>3
  <2> QED BY <1>4, <2>2, <2>3 DEF TdAnswer
<1>5. CASE TdLogOut
  BY <1>5, Announced DEF TdLogOut, AuthState
<1>6. CASE TestClosed \/ ReceiveNothing \/ Find \/ CallHandler \/ BeginErase \/ Erase \/ Sign \/ Signed
  BY <1>6 DEF TestClosed, ReceiveNothing, Find, CallHandler, BeginErase, Erase, Sign, Signed, tdlib
<1>7. ASSUME MainThread, ~SendQuery("main") PROVE UNCHANGED tdlib
  BY <1>7 DEF MainThread, Authorised, NotAuthorised, AskSearch, SearchDone, AskUser, AskedUsers,
       CollectUser, Collected, AskCall, Stopped, Close, Join, Ask, MainTo
<1>8. CASE Signal \/ Crash
  BY <1>8 DEF Signal, Crash, tdlib
<1> QED
  BY <1>1, <1>2, <1>3, <1>4, <1>5, <1>6, <1>7, <1>8 DEF Next, TgThread, SendQuery, Thread, TdAnswers, tdlib

\* Only the end of a query's sending and of a search change the table.
LEMMA TableKept ==
  ASSUME Next, ~Erase, \A t \in Thread : ~BeginEmplace(t) /\ ~EmplaceAndSend(t)
  PROVE  UNCHANGED <<counter, handlers>>
<1>1. ASSUME TgThread PROVE UNCHANGED <<counter, handlers>>
  BY <1>1 DEF TgThread, TestClosed, ReceiveNothing, ReceiveResponse, Find, CallHandler, BeginErase,
       ReceiveUpdate, Sign, Signed, SendQuery, client, Thread
<1>2. ASSUME MainThread PROVE UNCHANGED <<counter, handlers>>
  BY <1>2 DEF MainThread, Authorised, NotAuthorised, AskSearch, SearchDone, AskUser, AskedUsers,
       CollectUser, Collected, AskCall, Stopped, Close, Join, Ask, MainTo, SendQuery, client, Thread
<1>3. CASE Signal \/ Crash \/ TdAnswers \/ TdLogOut
  BY <1>3 DEF Signal, Crash, TdAnswers, TdAnswer, TdLogOut, client
<1> QED BY <1>1, <1>2, <1>3 DEF Next

\* The ids in the table stay below the counter.
LEMMA TableStep ==
  ASSUME Inv, Next
  PROVE  TableOK'
<1> USE TypeParts DEF TableOK, Inv
<1>1. ASSUME NEW t \in Thread, BeginEmplace(t) PROVE TableOK'
  BY <1>1 DEF BeginEmplace, FreshInv
<1>2. ASSUME NEW t \in Thread, EmplaceAndSend(t) PROVE TableOK'
  <2>1. send[t].id = counter /\ send[t].id # 0 /\ send[t].q \in Later
    BY <1>2 DEF EmplaceAndSend, FreshInv, MainOK, Later
  <2> QED BY <1>2, <2>1 DEF EmplaceAndSend, With
<1>3. CASE Erase
  BY <1>3 DEF Erase, Without
<1> QED BY <1>1, <1>2, <1>3, TableKept

-----------------------------------------------------------------------------
(***************************************************************************)
(* Who sends, and what TDLib reported.                                     *)
(***************************************************************************)
\* The TDLib thread signs on before the authorisation, the main thread asks after it.
LEMMA TurnsStep ==
  ASSUME Inv, Next
  PROVE  TurnsInv'
<1> USE TypeParts DEF Inv, TurnsInv
<1>1. CASE TestClosed \/ ReceiveNothing \/ Find \/ CallHandler \/ BeginErase \/ Erase
  BY <1>1 DEF TestClosed, ReceiveNothing, Find, CallHandler, BeginErase, Erase, client, TgOK, SendOK, Sending
<1>2. CASE ReceiveResponse
  BY <1>2 DEF ReceiveResponse, TgOK
<1>3. CASE ReceiveUpdate
  <2>1. Head(tdOut) = tdOut[1] /\ 1 \in 1..Len(tdOut)
    BY <1>3, FirstTaken DEF ReceiveUpdate, TdlibOK
  <2>2. ASSUME Requests(Head(tdOut).state) # << >>
        PROVE  ready # "true"
    BY <2>1, <2>2 DEF Requests, ReportsInv, Asking
  <2> QED BY <1>3, <2>2 DEF ReceiveUpdate, Decide, TgOK, client
<1>4. CASE Sign \/ Signed
  BY <1>4 DEF Sign, Signed, NextQueryId, TgOK, SendOK, Thread, client
<1>5. ASSUME NEW t \in Thread, SendQuery(t) PROVE TurnsInv'
  BY <1>5 DEF SendQuery, BeginEmplace, EmplaceAndSend, Idle, SendOK, Thread
<1>6. CASE AskSearch \/ AskUser \/ AskCall
  BY <1>6 DEF AskSearch, AskUser, AskCall, Ask, NextQueryId, MainOK, SendOK, Thread, Serving
<1>7. CASE Authorised \/ NotAuthorised \/ SearchDone \/ AskedUsers \/ CollectUser \/ Collected \/ Stopped
  BY <1>7 DEF Authorised, NotAuthorised, SearchDone, AskedUsers, CollectUser, Collected, Stopped,
       MainTo, client, MainOK, Serving
<1>8. CASE Close \/ Join \/ Signal \/ Crash \/ TdAnswers \/ TdLogOut
  BY <1>8 DEF Close, Join, Signal, Crash, TdAnswers, TdAnswer, TdLogOut, client
<1> QED BY <1>1, <1>2, <1>3, <1>4, <1>5, <1>6, <1>7, <1>8 DEF Next, TgThread, MainThread, Thread

\* A report is taken from the front of the queue.
LEMMA ReportTaken ==
  ASSUME Inv, Next, ReceiveResponse \/ ReceiveUpdate
  PROVE  ReportsInv'
<1> USE TypeParts DEF Inv, ReportsInv
<1> DEFINE first == tdOut[1]
<1>1. /\ first = Head(tdOut) /\ Len(tdOut) \in Nat \ {0} /\ Len(tdOut') = Len(tdOut) - 1
      /\ \A i \in 1..Len(tdOut') : tdOut'[i] = tdOut[i + 1]
  BY FirstTaken DEF ReceiveResponse, ReceiveUpdate, TdlibOK
<1>2. auth' = auth
  BY DEF ReceiveResponse, ReceiveUpdate
<1>3. \A i \in 1..Len(tdOut') : tdOut'[i].state = "Ready" =>
        /\ auth' \in {"Ready", "LoggingOut"}
        /\ \A j \in (i + 1)..Len(tdOut') : tdOut'[j].state \notin Asking
  BY <1>1, <1>2
<1>4. ASSUME auth = "LoggingOut", process = "runs", ready # "false", first.state # "LoggingOut"
      PROVE  \E i \in 1..Len(tdOut') : tdOut'[i].state = "LoggingOut"
  <2>1. PICK i \in 1..Len(tdOut) : tdOut[i].state = "LoggingOut"
    BY <1>4
  <2>2. i - 1 \in 1..Len(tdOut') /\ tdOut'[i - 1] = tdOut[i]
    BY <1>1, <1>4, <2>1
  <2> QED BY <2>1, <2>2
<1>5. \A i \in 1..Len(tdOut') : tdOut'[i].id # 0 => tdOut'[i].state = "none"
  BY <1>1
<1>6. CASE ReceiveResponse
  <2>1. ready' = ready /\ process' = process /\ first.state = "none"
    BY <1>1, <1>6 DEF ReceiveResponse
  <2> QED BY <1>1, <1>2, <1>3, <1>4, <1>5, <2>1
<1>7. CASE ReceiveUpdate
  <2>1. ready' = "true" =>
          auth' \in {"Ready", "LoggingOut"} /\ \A i \in 1..Len(tdOut') : tdOut'[i].state \notin Asking
    BY <1>1, <1>2, <1>7 DEF ReceiveUpdate, Decide
  <2>2. auth' = "LoggingOut" /\ process' = "runs" /\ ready' # "false" =>
          \E i \in 1..Len(tdOut') : tdOut'[i].state = "LoggingOut"
    <3> SUFFICES ASSUME auth' = "LoggingOut", process' = "runs", ready' # "false"
                 PROVE  ready # "false" /\ first.state # "LoggingOut" /\ process = "runs"
      BY <1>2, <1>4
    <3>1. process = "runs"
      BY DEF Next, Running
    <3>2. ready # "false"
      BY <1>7 DEF ReceiveUpdate, Decide
    <3>3. first.state # "LoggingOut"
      BY <1>1, <1>7 DEF ReceiveUpdate, Decide, Requests
    <3> QED BY <3>1, <3>2, <3>3
  <2> QED BY <1>3, <1>5, <2>1, <2>2
<1> QED BY <1>6, <1>7

\* A response, and the report of a new state, are put at its end.
LEMMA ReportAdded ==
  ASSUME Inv, Next, TdAnswers \/ TdLogOut
  PROVE  ReportsInv'
<1> USE TypeParts DEF Inv, ReportsInv
<1>1. UNCHANGED <<ready, process>>
  BY DEF TdAnswers, TdAnswer, TdLogOut
<1>2. CASE TdLogOut
  <2>1. /\ Len(tdOut) \in Nat /\ Len(tdOut') = Len(tdOut) + 1
        /\ \A i \in 1..Len(tdOut) : tdOut'[i] = tdOut[i]
        /\ tdOut'[Len(tdOut) + 1] = Update("LoggingOut")
    BY <1>2, OneAdded, Announced DEF TdLogOut, TdlibOK, AuthState
  <2> QED BY <1>1, <1>2, <2>1 DEF TdLogOut, Update, Asking
<1>3. ASSUME NEW r \in tdIn, TdAnswer(r) PROVE ReportsInv'
  <2>1. Response(r) \in Incoming /\ Response(r).state = "none"
    BY Announced DEF TdlibOK, Response
  <2>2. CASE tdOut' = Append(tdOut, Response(r)) /\ auth' = auth
    <3>1. /\ Len(tdOut) \in Nat /\ Len(tdOut') = Len(tdOut) + 1
          /\ \A i \in 1..Len(tdOut) : tdOut'[i] = tdOut[i]
          /\ tdOut'[Len(tdOut) + 1] = Response(r)
      BY <2>1, <2>2, OneAdded DEF TdlibOK
    <3> QED BY <1>1, <2>1, <2>2, <3>1 DEF Asking
  <2>3. ASSUME auth' \in Follows(r.q),
               \/ tdOut' = tdOut \o <<Response(r), Update(auth')>>
               \/ tdOut' = tdOut \o <<Update(auth'), Response(r)>>
        PROVE  ReportsInv'
    <3>1. /\ auth \in Asking /\ auth' \in {"WaitEncryptionKey", "Ready", "WaitPhoneNumber"}
          /\ Update(auth') \in Incoming /\ Update(auth').state = auth' /\ Update(auth').id = 0
      BY <2>3, Announced DEF Follows, Asking, AuthState, Update
    <3>2. ready' # "true" /\ \A i \in 1..Len(tdOut) : tdOut[i].state # "Ready"
      BY <1>1, <3>1 DEF Asking
    <3>3. \A a, b \in Incoming :
            /\ Len(tdOut) \in Nat /\ Len(tdOut \o <<a, b>>) = Len(tdOut) + 2
            /\ \A i \in 1..Len(tdOut) : (tdOut \o <<a, b>>)[i] = tdOut[i]
            /\ (tdOut \o <<a, b>>)[Len(tdOut) + 1] = a
            /\ (tdOut \o <<a, b>>)[Len(tdOut) + 2] = b
      BY AddedTwo DEF TdlibOK
    <3>4. PICK a, b \in Incoming :
            /\ tdOut' = tdOut \o <<a, b>>
            /\ {a, b} = {Response(r), Update(auth')}
      BY <2>1, <2>3, <3>1, Zenon
    <3>5. /\ Len(tdOut) \in Nat /\ Len(tdOut') = Len(tdOut) + 2
          /\ \A i \in 1..Len(tdOut) : tdOut'[i] = tdOut[i]
          /\ tdOut'[Len(tdOut) + 1] = a /\ tdOut'[Len(tdOut) + 2] = b
      BY <3>3, <3>4
    <3>6. \A i \in 1..Len(tdOut') : tdOut'[i].id # 0 => tdOut'[i].state = "none"
      BY <2>1, <3>1, <3>4, <3>5
    <3>7. \A i \in 1..Len(tdOut') : tdOut'[i].state = "Ready" =>
            auth' = "Ready" /\ \A j \in (i + 1)..Len(tdOut') : tdOut'[j].state \notin Asking
      <4>1. /\ a.state \in {"none", auth'} /\ b.state \in {"none", auth'}
        BY <2>1, <3>1, <3>4
      <4>2. \A i \in 1..Len(tdOut') : i > Len(tdOut) => tdOut'[i].state \in {"none", auth'}
        BY <3>5, <4>1
      <4>3. \A i \in 1..Len(tdOut') : tdOut'[i].state = "Ready" => i > Len(tdOut) /\ auth' = "Ready"
        BY <3>2, <3>5, <4>2
      <4> QED BY <3>5, <4>2, <4>3 DEF Asking
    <3> QED BY <3>1, <3>2, <3>6, <3>7
  <2> QED BY <1>3, <2>2, <2>3 DEF TdAnswer
<1> QED BY <1>2, <1>3 DEF TdAnswers

\* The order of the reports is kept by every step.
LEMMA ReportsStep ==
  ASSUME Inv, Next
  PROVE  ReportsInv'
<1>1. CASE ReceiveResponse \/ ReceiveUpdate
  BY <1>1, ReportTaken
<1>2. CASE TdAnswers \/ TdLogOut
  BY <1>2, ReportAdded
<1>3. ASSUME ~(ReceiveResponse \/ ReceiveUpdate), TgThread PROVE UNCHANGED <<ready, process, tdOut, auth>>
  BY <1>3 DEF TgThread, TestClosed, ReceiveNothing, Find, CallHandler, BeginErase, Erase, Sign,
       Signed, SendQuery, BeginEmplace, EmplaceAndSend, tdlib
<1>4. ASSUME MainThread PROVE UNCHANGED <<ready, tdOut, auth>> /\ (process' = "runs" => process = "runs")
  BY <1>4 DEF MainThread, Authorised, NotAuthorised, AskSearch, SearchDone, AskUser, AskedUsers,
       CollectUser, Collected, AskCall, Stopped, Close, Join, Ask, MainTo, SendQuery, BeginEmplace,
       EmplaceAndSend, tdlib
<1>5. ASSUME Signal \/ Crash PROVE UNCHANGED <<ready, tdOut, auth>> /\ (process' = "runs" => process = "runs")
  BY <1>5 DEF Signal, Crash, tdlib
<1> QED BY <1>1, <1>2, <1>3, <1>4, <1>5 DEF Next, Inv, ReportsInv

-----------------------------------------------------------------------------
(***************************************************************************)
(* Ids and what they stand for.                                            *)
(***************************************************************************)
\* While one thread sends, the other one does not.
LEMMA OneSends ==
  ASSUME Inv, NEW t \in Thread, NEW u \in Thread, send[t].step # "no", u # t
  PROVE  send[u].step = "no"
BY DEF Inv, TurnsInv, Thread

\* Who asks takes the next id, everybody else leaves what was asked and is being sent alone.
LEMMA AskerStep ==
  ASSUME Inv, Next, \A t \in Thread : ~BeginEmplace(t) /\ ~EmplaceAndSend(t)
  PROVE  \/ UNCHANGED <<send, asked>>
         \/ \E t \in Thread : \E q \in SignOn \cup asked' :
              NextQueryId(t, q) /\ asked \subseteq asked' /\ UNCHANGED <<counter, handlers, tdIn, tdOut>>
              /\ \A u \in Thread : send[u].step = "no"
<1> USE TypeParts DEF Inv
<1>1. CASE Sign
  <2>1. Head(tg.todo) \in SignOn
    BY <1>1 DEF Sign, TgOK
  <2>2. \A u \in Thread : send[u].step = "no"
    BY <1>1 DEF Sign, NextQueryId, TurnsInv, Thread
  <2> QED BY <1>1, <2>1, <2>2 DEF Sign, Thread, tdlib, future
<1>2. ASSUME NEW q \in Query, Ask(q), main.at \in Serving
      PROVE  \E t \in Thread : \E p \in SignOn \cup asked' :
               NextQueryId(t, p) /\ asked \subseteq asked' /\ UNCHANGED <<counter, handlers, tdIn, tdOut>>
               /\ \A u \in Thread : send[u].step = "no"
  <2>1. \A u \in Thread : send[u].step = "no"
    BY <1>2 DEF Ask, NextQueryId, TurnsInv, Thread
  <2> QED BY <1>2, <2>1 DEF Ask, Thread, tdlib
<1>3. CASE AskSearch \/ AskUser \/ AskCall
  BY <1>2, <1>3, Queries DEF AskSearch, AskUser, AskCall, Serving
<1>4. CASE TestClosed \/ ReceiveNothing \/ ReceiveResponse \/ Find \/ CallHandler \/ BeginErase
           \/ Erase \/ ReceiveUpdate \/ Signed
  BY <1>4 DEF TestClosed, ReceiveNothing, ReceiveResponse, Find, CallHandler, BeginErase, Erase,
       ReceiveUpdate, Signed, client, future
<1>5. CASE Authorised \/ NotAuthorised \/ SearchDone \/ AskedUsers \/ CollectUser \/ Collected
           \/ Stopped \/ Close \/ Join
  BY <1>5 DEF Authorised, NotAuthorised, SearchDone, AskedUsers, CollectUser, Collected, Stopped,
       Close, Join, MainTo, client, future
<1>6. CASE Signal \/ Crash \/ TdAnswers \/ TdLogOut
  BY <1>6 DEF Signal, Crash, TdAnswers, TdAnswer, TdLogOut, client, future
<1> QED BY <1>1, <1>3, <1>4, <1>5, <1>6 DEF Next, TgThread, MainThread, SendQuery, Thread

\* Two queries never get one id.
LEMMA FreshStep ==
  ASSUME Inv, Next
  PROVE  FreshInv'
<1> USE TypeParts DEF Inv, FreshInv
<1>1. ASSUME NEW t \in Thread, BeginEmplace(t) PROVE FreshInv'
  <2>1. \A u \in Thread \ {t} : send[u].step = "no"
    BY <1>1, OneSends DEF BeginEmplace
  <2> QED BY <1>1, <2>1 DEF BeginEmplace, SendOK, Sending, TableOK, future
<1>2. ASSUME NEW t \in Thread, EmplaceAndSend(t) PROVE FreshInv'
  <2>1. \A u \in Thread \ {t} : send[u].step = "no"
    BY <1>2, OneSends DEF EmplaceAndSend
  <2> QED BY <1>2, <2>1 DEF EmplaceAndSend, SendOK, Idle
<1>3. CASE Erase
  BY <1>3 DEF Erase, Without, future
<1>4. ASSUME \A t \in Thread : ~BeginEmplace(t) /\ ~EmplaceAndSend(t), ~Erase PROVE FreshInv'
  <2>1. UNCHANGED <<counter, handlers>>
    BY <1>4, TableKept
  <2>2. ASSUME NEW t \in Thread, NEW q \in SignOn \cup asked', NextQueryId(t, q),
               \A u \in Thread : send[u].step = "no"
        PROVE  FreshInv'
    BY <2>1, <2>2 DEF NextQueryId, SendOK, TableOK
  <2> QED BY <1>4, <2>1, <2>2, AskerStep
<1> QED BY <1>1, <1>2, <1>3, <1>4

\* Once known, a query or response stays so.
LEMMA KnownStep ==
  ASSUME Inv, Next, NEW r, Known(r)
  PROVE  Known(r)'
<1> USE TypeParts DEF Inv, Known
<1>1. ASSUME NEW t \in Thread, BeginEmplace(t) PROVE Known(r)'
  <2>1. counter' = counter + 1
    BY <1>1 DEF BeginEmplace, FreshInv
  <2> QED BY <1>1, <2>1 DEF BeginEmplace, SendOK, TableOK, future
<1>2. ASSUME NEW t \in Thread, EmplaceAndSend(t) PROVE Known(r)'
  <2>1. r.id # send[t].id
    BY <1>2 DEF EmplaceAndSend
  <2>2. r.id \in DOMAIN handlers' => handlers'[r.id] = r.q
    BY <1>2, <2>1 DEF EmplaceAndSend, With
  <2> QED BY <1>2, <2>2 DEF EmplaceAndSend, SendOK, Idle, future
<1>3. CASE Erase
  BY <1>3 DEF Erase, Without, future
<1>4. ASSUME \A t \in Thread : ~BeginEmplace(t) /\ ~EmplaceAndSend(t), ~Erase PROVE Known(r)'
  <2>1. UNCHANGED <<counter, handlers>>
    BY <1>4, TableKept
  <2>2. ASSUME NEW t \in Thread, NEW q \in SignOn \cup asked', NextQueryId(t, q), asked \subseteq asked'
        PROVE  Known(r)'
    BY <2>1, <2>2 DEF NextQueryId, SendOK, TableOK
  <2> QED BY <1>4, <2>1, <2>2, AskerStep
<1> QED BY <1>1, <1>2, <1>3, <1>4

\* What TDLib is sent, what it answers, and what is received.
LEMMA KnownInvStep ==
  ASSUME Inv, Next
  PROVE  KnownInv'
<1> USE TypeParts DEF Inv, KnownInv
<1>1. \A r \in tdIn' : Known(r)'
  <2>1. ASSUME NEW t \in Thread, EmplaceAndSend(t) PROVE \A r \in tdIn' : Known(r)'
    <3>1. PICK new : new = [id |-> send[t].id, q |-> send[t].q]
      OBVIOUS
    <3>2. send[t].id = counter /\ send[t].id # 0 /\ send[t].id \notin DOMAIN handlers
          /\ send[t].q \in SignOn \cup asked
      BY <2>1 DEF EmplaceAndSend, FreshInv
    <3>3. \A u \in Thread \ {t} : send[u].step = "no"
      BY <2>1, OneSends DEF EmplaceAndSend
    <3>4. Known(new)'
      BY <2>1, <3>1, <3>2, <3>3 DEF EmplaceAndSend, Known, With, SendOK, Idle, TableOK, future
    <3> QED BY <2>1, <3>1, <3>4, KnownStep DEF EmplaceAndSend
  <2>2. ASSUME \A t \in Thread : ~EmplaceAndSend(t) PROVE tdIn' \subseteq tdIn
    <3>1. ASSUME TgThread PROVE UNCHANGED tdIn
      BY <2>2, <3>1 DEF TgThread, TestClosed, ReceiveNothing, ReceiveResponse, Find, CallHandler,
           BeginErase, Erase, ReceiveUpdate, Sign, Signed, SendQuery, BeginEmplace, tdlib, Thread
    <3>2. ASSUME MainThread PROVE UNCHANGED tdIn
      BY <2>2, <3>2 DEF MainThread, Authorised, NotAuthorised, AskSearch, SearchDone, AskUser,
           AskedUsers, CollectUser, Collected, AskCall, Stopped, Close, Join, Ask, MainTo, SendQuery,
           BeginEmplace, tdlib, Thread
    <3>3. ASSUME Signal \/ Crash \/ TdAnswers \/ TdLogOut PROVE tdIn' \subseteq tdIn
      BY <3>3 DEF Signal, Crash, TdAnswers, TdAnswer, TdLogOut, tdlib
    <3> QED BY <3>1, <3>2, <3>3 DEF Next
  <2> QED BY <2>1, <2>2, KnownStep
<1>2. (\A i \in 1..Len(tdOut) : tdOut[i].id # 0 => Known(tdOut[i]))'
  <2>1. ASSUME NEW x, NEW i \in 1..Len(tdOut'), x = tdOut'[i], x.id # 0
        PROVE  Known(x)'
    <3>1. CASE ReceiveResponse \/ ReceiveUpdate
      <4>1. i + 1 \in 1..Len(tdOut) /\ x = tdOut[i + 1]
        BY <2>1, <3>1, FirstTaken DEF ReceiveResponse, ReceiveUpdate, TdlibOK
      <4> QED BY <2>1, <4>1, KnownStep
    <3>2. CASE TdLogOut
      <4>1. Len(tdOut') = Len(tdOut) + 1 /\ Len(tdOut) \in Nat
            /\ (\A j \in 1..Len(tdOut) : tdOut'[j] = tdOut[j])
            /\ tdOut'[Len(tdOut) + 1] = Update("LoggingOut")
        BY <3>2, OneAdded, Announced DEF TdLogOut, TdlibOK, AuthState
      <4>2. i \in 1..Len(tdOut) /\ x = tdOut[i]
        BY <2>1, <4>1 DEF Update
      <4> QED BY <2>1, <4>2, KnownStep
    <3>3. ASSUME NEW r \in tdIn, TdAnswer(r) PROVE Known(x)'
      <4>1. Response(r) \in Incoming /\ Known(Response(r))
        BY <3>3, Announced DEF TdlibOK, Response, Known
      <4>2. CASE tdOut' = Append(tdOut, Response(r))
        <5>1. Len(tdOut') = Len(tdOut) + 1 /\ Len(tdOut) \in Nat
              /\ (\A j \in 1..Len(tdOut) : tdOut'[j] = tdOut[j])
              /\ tdOut'[Len(tdOut) + 1] = Response(r)
          BY <4>1, <4>2, OneAdded DEF TdlibOK
        <5>2. (i \in 1..Len(tdOut) /\ x = tdOut[i]) \/ x = Response(r)
          BY <2>1, <5>1
        <5> QED BY <2>1, <4>1, <5>2, KnownStep
      <4>3. ASSUME auth' \in Follows(r.q),
                   \/ tdOut' = tdOut \o <<Response(r), Update(auth')>>
                   \/ tdOut' = tdOut \o <<Update(auth'), Response(r)>>
            PROVE  Known(x)'
        <5>1. Update(auth') \in Incoming /\ Update(auth').id = 0
          BY <4>3, Announced DEF Follows, AuthState, Update
        <5>2. \A a, b \in Incoming :
                /\ Len(tdOut) \in Nat /\ Len(tdOut \o <<a, b>>) = Len(tdOut) + 2
                /\ \A j \in 1..Len(tdOut) : (tdOut \o <<a, b>>)[j] = tdOut[j]
                /\ (tdOut \o <<a, b>>)[Len(tdOut) + 1] = a
                /\ (tdOut \o <<a, b>>)[Len(tdOut) + 2] = b
          BY AddedTwo DEF TdlibOK
        <5>3. PICK a, b \in Incoming :
                /\ tdOut' = tdOut \o <<a, b>>
                /\ {a, b} = {Response(r), Update(auth')}
          BY <4>1, <4>3, <5>1, Zenon
        <5>4. (i \in 1..Len(tdOut) /\ x = tdOut[i]) \/ x \in {a, b}
          BY <2>1, <5>2, <5>3
        <5>5. (i \in 1..Len(tdOut) /\ x = tdOut[i]) \/ x = Response(r)
          BY <2>1, <5>1, <5>3, <5>4
        <5> QED BY <2>1, <4>1, <5>5, KnownStep
      <4> QED BY <3>3, <4>2, <4>3 DEF TdAnswer
    <3>4. ASSUME ~(ReceiveResponse \/ ReceiveUpdate \/ TdLogOut \/ TdAnswers) PROVE tdOut' = tdOut
      <4>1. ASSUME TgThread PROVE tdOut' = tdOut
        BY <3>4, <4>1 DEF TgThread, TestClosed, ReceiveNothing, Find, CallHandler, BeginErase, Erase,
             Sign, Signed, SendQuery, BeginEmplace, EmplaceAndSend, tdlib
      <4>2. ASSUME MainThread PROVE tdOut' = tdOut
        BY <4>2 DEF MainThread, Authorised, NotAuthorised, AskSearch, SearchDone, AskUser,
             AskedUsers, CollectUser, Collected, AskCall, Stopped, Close, Join, Ask, MainTo,
             SendQuery, BeginEmplace, EmplaceAndSend, tdlib
      <4>3. ASSUME Signal \/ Crash PROVE tdOut' = tdOut
        BY <4>3 DEF Signal, Crash, tdlib
      <4> QED BY <3>4, <4>1, <4>2, <4>3 DEF Next
    <3> QED BY <2>1, <3>1, <3>2, <3>3, <3>4, KnownStep DEF TdAnswers
  <2> QED BY <2>1
<1>3. /\ (tg.at \in {"find", "found", "called", "erase"} => Known(tg.got))'
      /\ (tg.at = "found" => tg.got.id \in DOMAIN handlers)'
  <2>1. CASE ReceiveResponse
    <3>1. Head(tdOut) = tdOut[1] /\ 1 \in 1..Len(tdOut)
      BY <2>1, FirstTaken DEF ReceiveResponse, TdlibOK
    <3>2. Known(tdOut[1])
      BY <2>1, <3>1 DEF ReceiveResponse
    <3> QED BY <2>1, <3>1, <3>2, KnownStep DEF ReceiveResponse, TgOK, Known
  <2>2. CASE Find \/ CallHandler \/ BeginErase
    BY <2>2, KnownStep DEF Find, CallHandler, BeginErase, TgOK, Known, client
  <2>3. CASE TestClosed \/ ReceiveNothing \/ Erase \/ ReceiveUpdate \/ Sign \/ Signed
    BY <2>3 DEF TestClosed, ReceiveNothing, Erase, ReceiveUpdate, Sign, Signed, TgOK
  <2>4. ASSUME NEW t \in Thread, SendQuery(t) PROVE tg' = tg /\ DOMAIN handlers \subseteq DOMAIN handlers'
    BY <2>4 DEF SendQuery, BeginEmplace, EmplaceAndSend, With
  <2>5. ASSUME MainThread, ~SendQuery("main") PROVE tg' = tg /\ handlers' = handlers
    BY <2>5 DEF MainThread, Authorised, NotAuthorised, AskSearch, SearchDone, AskUser, AskedUsers,
         CollectUser, Collected, AskCall, Stopped, Close, Join, Ask, MainTo, client
  <2>6. CASE Signal \/ Crash \/ TdAnswers \/ TdLogOut
    BY <2>6, KnownStep DEF Signal, Crash, TdAnswers, TdAnswer, TdLogOut, client, Known
  <2> QED BY <2>1, <2>2, <2>3, <2>4, <2>5, <2>6, KnownStep DEF Next, TgThread, Thread, Known
<1> QED BY <1>1, <1>2, <1>3

\* The main thread asks each query once.
LEMMA AskedStep ==
  ASSUME Inv, Next
  PROVE  AskedInv'
<1> USE TypeParts DEF Inv, AskedInv, MainOK
<1>1. CASE AskSearch
  BY <1>1 DEF AskSearch, Ask, Search
<1>2. CASE AskUser
  BY <1>2 DEF AskUser, Ask, Search
<1>3. CASE AskCall
  BY <1>3 DEF AskCall, Ask, Search
<1>4. CASE Authorised \/ NotAuthorised \/ SearchDone \/ AskedUsers \/ CollectUser \/ Collected \/ Stopped
  BY <1>4 DEF Authorised, NotAuthorised, SearchDone, AskedUsers, CollectUser, Collected, Stopped,
       MainTo, future
<1>5. CASE Close \/ Join \/ SendQuery("main")
  BY <1>5 DEF Close, Join, SendQuery, BeginEmplace, EmplaceAndSend, future
<1>6. CASE TgThread
  BY <1>6 DEF TgThread, TestClosed, ReceiveNothing, ReceiveResponse, Find, CallHandler, BeginErase,
       Erase, ReceiveUpdate, Sign, Signed, SendQuery, BeginEmplace, EmplaceAndSend, future
<1>7. CASE Signal \/ Crash \/ TdAnswers \/ TdLogOut
  BY <1>7 DEF Signal, Crash, TdAnswers, TdAnswer, TdLogOut, future
<1> QED BY <1>1, <1>2, <1>3, <1>4, <1>5, <1>6, <1>7 DEF Next, MainThread

-----------------------------------------------------------------------------
(***************************************************************************)
(* The theorems.                                                           *)
(***************************************************************************)
\* The invariant holds at the start,
LEMMA InvInit == Init => Inv
<1> SUFFICES ASSUME Init PROVE Inv
  OBVIOUS
<1>1. FlagsOK /\ MainOK
  BY DEF Init, FlagsOK, MainOK, AuthState
<1>2. SendOK /\ TgOK /\ TableOK
  BY DEF Init, SendOK, Sending, TgOK, TableOK, Idle, Nothing, Incoming
<1>3. TdlibOK /\ tdOut[1] = Update("WaitTdlibParameters") /\ Len(tdOut) = 1
  BY Announced DEF Init, TdlibOK, AuthState
<1>4. TurnsInv /\ FreshInv /\ AskedInv
  BY DEF Init, TurnsInv, FreshInv, AskedInv, Idle, Serving, Thread
<1>5. ReportsInv /\ KnownInv
  BY <1>3 DEF Init, ReportsInv, KnownInv, Update
<1> QED BY <1>1, <1>2, <1>3, <1>4, <1>5, TypeParts DEF Inv

\* is kept by every step,
LEMMA InvNext == Inv /\ [Next]_vars => Inv'
<1> SUFFICES ASSUME Inv, [Next]_vars PROVE Inv'
  OBVIOUS
<1>1. CASE Next
  <2>1. TypeOK'
    BY <1>1, FlagsStep, MainStep, SendStep, TgStep, TdlibStep, TableStep, TypeParts
       DEF Inv, TypeOK, FlagsOK, MainOK, SendOK, Sending, TgOK, TdlibOK, TableOK, Later
  <2> QED BY <1>1, <2>1, TurnsStep, ReportsStep, FreshStep, KnownInvStep, AskedStep DEF Inv
<1>2. CASE UNCHANGED vars
  BY <1>2 DEF vars, client, future, tdlib, Inv, TypeOK, TurnsInv, ReportsInv, FreshInv, KnownInv,
       Known, AskedInv
<1> QED BY <1>1, <1>2

\* and so always holds.
LEMMA Invariance == Spec => []Inv
BY InvInit, InvNext, PTL DEF Spec

\* The table, the counter and the queues stay of their types: in particular an id is never
\* above the counter, whatever order the threads run in.
THEOREM TypeCorrect == Spec => []TypeOK
<1>1. Inv => TypeOK
  BY DEF Inv
<1> QED BY <1>1, Invariance, PTL

\* The two threads are never both in send_query, however long the sign-on takes and whatever
\* TDLib reports.
THEOREM SendersTakeTurns == Spec => []OneSender
<1>1. Inv => OneSender
  BY DEF Inv, TurnsInv, OneSender
<1> QED BY <1>1, Invariance, PTL

\* The gateway serves with an authorised TDLib, or the report of the logout is on its way.
THEOREM GatewayAuthorised == Spec => []ServesAuthorised
<1>1. Inv => ServesAuthorised
  BY DEF Inv, TurnsInv, ReportsInv, ServesAuthorised, Serving, Running
<1> QED BY <1>1, Invariance, PTL

\* For any number of contacts and queries, each future receives its own answer and no other,
\* also when overlapping accesses have damaged the table: TgClient implements QueryService.
THEOREM ServiceImplemented == Spec => EachItsOwnAnswer
<1>1. Init => Service!Init
  BY DEF Init, Service!Init
<1>2. Inv /\ [Next]_vars => [Service!Next]_<<asked, answer>>
  <2> SUFFICES ASSUME Inv, Next PROVE Service!Next \/ UNCHANGED <<asked, answer>>
    BY DEF vars, future
  <2> USE TypeParts DEF Inv
  <2>1. CASE CallHandler
    <3>1. handlers[tg.got.id] = tg.got.q /\ tg.got.q \in SignOn \cup asked
      BY <2>1 DEF CallHandler, KnownInv, Known
    <3>2. CASE tg.got.q \in Query /\ answer[tg.got.q] = {}
      <4>1. Service!Answer(tg.got.q)
        BY <2>1, <3>1, <3>2, Queries DEF CallHandler, Service!Answer, MainOK
      <4> QED BY <3>2, <4>1 DEF Service!Next
    <3>3. CASE ~(tg.got.q \in Query /\ answer[tg.got.q] = {})
      BY <2>1, <3>1, <3>3 DEF CallHandler, MainOK
    <3> QED BY <3>2, <3>3
  <2>2. ASSUME NEW q \in Query, Ask(q), q \notin asked PROVE Service!Next
    BY <2>2 DEF Ask, Service!Next, Service!Ask
  <2>3. CASE AskSearch \/ AskUser \/ AskCall
    BY <2>2, <2>3, Queries DEF AskSearch, AskUser, AskCall, AskedInv, MainOK
  <2>4. ASSUME TgThread, ~CallHandler PROVE UNCHANGED <<asked, answer>>
    BY <2>4 DEF TgThread, TestClosed, ReceiveNothing, ReceiveResponse, Find, BeginErase, Erase,
         ReceiveUpdate, Sign, Signed, SendQuery, BeginEmplace, EmplaceAndSend, future
  <2>5. ASSUME MainThread, ~(AskSearch \/ AskUser \/ AskCall) PROVE UNCHANGED <<asked, answer>>
    BY <2>5 DEF MainThread, Authorised, NotAuthorised, SearchDone, AskedUsers, CollectUser,
         Collected, Stopped, Close, Join, MainTo, SendQuery, BeginEmplace, EmplaceAndSend, future
  <2>6. CASE Signal \/ Crash \/ TdAnswers \/ TdLogOut
    BY <2>6 DEF Signal, Crash, TdAnswers, TdAnswer, TdLogOut, future
  <2> QED BY <2>1, <2>3, <2>4, <2>5, <2>6 DEF Next
<1> QED BY <1>1, <1>2, Invariance, PTL DEF Spec, Service!Spec, EachItsOwnAnswer

-----------------------------------------------------------------------------
(***************************************************************************)
(* No answer is lost while the accesses of the table do not overlap.       *)
(***************************************************************************)

\* A thread at rest sends nothing; who has been called was answered.
LossInv ==
  /\ \A t \in Thread : send[t].step = "no" => send[t].q = NoQuery
  /\ tg.at \in {"called", "erase"} /\ tg.got.q \in Query => answer[tg.got.q] # {}
  /\ AnswerNotLost

\* Where the answer of q is under way, apart from the main thread.
UnderWay(q) ==
  \/ \E r \in tdIn : Held(q, r)
  \/ \E i \in 1..Len(tdOut) : Held(q, tdOut[i])
  \/ tg.at \in {"find", "found"} /\ Held(q, tg.got)

\* The property in these terms.
LEMMA NotLostParts ==
  /\ AnswerNotLost <=> \A q \in asked : answer[q] = {} /\ ~raced => send["main"].q = q \/ UnderWay(q)
  /\ AnswerNotLost' <=>
       \A q \in asked' : answer'[q] = {} /\ ~raced' => send'["main"].q = q \/ UnderWay(q)'
BY DEF AnswerNotLost, UnderWay

\* An access never mends the table.
LEMMA RacedStays ==
  ASSUME TypeOK, Next
  PROVE  raced => raced'
<1>1. CASE TgThread
  BY <1>1 DEF TgThread, TestClosed, ReceiveNothing, ReceiveResponse, Find, CallHandler, BeginErase,
       Erase, ReceiveUpdate, Sign, Signed, SendQuery, BeginEmplace, EmplaceAndSend, Enter, client
<1>2. CASE MainThread
  BY <1>2 DEF MainThread, Authorised, NotAuthorised, AskSearch, SearchDone, AskUser, AskedUsers,
       CollectUser, Collected, AskCall, Stopped, Close, Join, Ask, MainTo, SendQuery, BeginEmplace,
       EmplaceAndSend, Enter, client
<1>3. CASE Signal \/ Crash \/ TdAnswers \/ TdLogOut
  BY <1>3 DEF Signal, Crash, TdAnswers, TdAnswer, TdLogOut, client
<1> QED BY <1>1, <1>2, <1>3 DEF Next

\* What is under way stays so, or is answered.
LEMMA UnderWayStep ==
  ASSUME Inv, LossInv, Next, ~raced', NEW q \in Query, UnderWay(q)
  PROVE  answer'[q] # {} \/ UnderWay(q)'
<1> USE TypeParts DEF Inv
<1>0. ~raced
  BY RacedStays
<1>1. CASE ReceiveResponse \/ ReceiveUpdate
  <2>1. /\ Len(tdOut) \in Nat \ {0} /\ Head(tdOut) = tdOut[1] /\ Len(tdOut') = Len(tdOut) - 1
        /\ \A i \in 1..Len(tdOut') : tdOut'[i] = tdOut[i + 1]
    BY <1>1, FirstTaken DEF ReceiveResponse, ReceiveUpdate, TdlibOK
  <2>2. UNCHANGED <<handlers, tdIn>>
    BY <1>1 DEF ReceiveResponse, ReceiveUpdate, client
  <2>3. ASSUME NEW i \in 1..Len(tdOut), Held(q, tdOut[i]), i # 1 PROVE UnderWay(q)'
    <3>1. i - 1 \in 1..Len(tdOut') /\ tdOut'[i - 1] = tdOut[i]
      BY <2>1, <2>3
    <3> QED BY <2>2, <2>3, <3>1 DEF UnderWay, Held
  <2>4. CASE Held(q, tdOut[1])
    <3>1. tdOut[1].id # 0
      BY <2>4 DEF Held, TableOK
    <3> QED BY <1>1, <2>1, <2>2, <2>4, <3>1 DEF ReceiveResponse, ReceiveUpdate, UnderWay, Held, TgOK
  <2>5. tg.at = "receive"
    BY <1>1 DEF ReceiveResponse, ReceiveUpdate
  <2> QED BY <2>2, <2>3, <2>4, <2>5 DEF UnderWay, Held
<1>2. CASE Find
  BY <1>0, <1>2 DEF Find, UnderWay, Held, TgOK, client, tdlib
<1>3. CASE CallHandler
  <2>1. handlers[tg.got.id] = tg.got.q /\ q \in Query
    BY <1>3 DEF CallHandler, KnownInv, Known
  <2>2. q = tg.got.q => answer'[q] # {}
    BY <1>3, <2>1 DEF CallHandler, MainOK
  <2> QED BY <1>3, <2>1, <2>2 DEF CallHandler, UnderWay, Held, client, tdlib
<1>4. CASE Erase
  <2>1. tg.got.id \in DOMAIN handlers => handlers[tg.got.id] = tg.got.q
    BY <1>4 DEF Erase, KnownInv, Known
  <2>2. CASE q = tg.got.q
    BY <1>4, <2>2 DEF Erase, LossInv, future
  <2>3. CASE q # tg.got.q
    BY <1>4, <2>1, <2>3 DEF Erase, UnderWay, Held, Without, tdlib
  <2> QED BY <2>2, <2>3
<1>5. ASSUME NEW t \in Thread, EmplaceAndSend(t) PROVE UnderWay(q)'
  BY <1>5 DEF EmplaceAndSend, UnderWay, Held, With
<1>6. ASSUME NEW r \in tdIn, TdAnswer(r) PROVE UnderWay(q)'
  <2>1. Response(r) \in Incoming /\ Response(r).id = r.id /\ Response(r).q = r.q
    BY <1>6, Announced DEF TdlibOK, Response
  <2>2. /\ \A i \in 1..Len(tdOut) : i \in 1..Len(tdOut') /\ tdOut'[i] = tdOut[i]
        /\ \E i \in 1..Len(tdOut') : tdOut'[i] = Response(r)
    <3>1. CASE tdOut' = Append(tdOut, Response(r))
      BY <2>1, <3>1, OneAdded DEF TdlibOK
    <3>2. ASSUME auth' \in Follows(r.q),
                 \/ tdOut' = tdOut \o <<Response(r), Update(auth')>>
                 \/ tdOut' = tdOut \o <<Update(auth'), Response(r)>>
          PROVE  /\ \A i \in 1..Len(tdOut) : i \in 1..Len(tdOut') /\ tdOut'[i] = tdOut[i]
                 /\ \E i \in 1..Len(tdOut') : tdOut'[i] = Response(r)
      <4>1. Update(auth') \in Incoming
        BY <3>2, Announced DEF Follows, AuthState
      <4>2. \A a, b \in Incoming :
              /\ Len(tdOut) \in Nat /\ Len(tdOut \o <<a, b>>) = Len(tdOut) + 2
              /\ \A j \in 1..Len(tdOut) : (tdOut \o <<a, b>>)[j] = tdOut[j]
              /\ (tdOut \o <<a, b>>)[Len(tdOut) + 1] = a
              /\ (tdOut \o <<a, b>>)[Len(tdOut) + 2] = b
        BY AddedTwo DEF TdlibOK
      <4>3. PICK a, b \in Incoming :
              tdOut' = tdOut \o <<a, b>> /\ Response(r) \in {a, b}
        BY <2>1, <3>2, <4>1, Zenon
      <4> QED BY <4>2, <4>3
    <3> QED BY <1>6, <3>1, <3>2 DEF TdAnswer
  <2> QED BY <1>6, <2>1, <2>2 DEF TdAnswer, UnderWay, Held, client
<1>7. CASE TdLogOut
  <2>1. \A i \in 1..Len(tdOut) : i \in 1..Len(tdOut') /\ tdOut'[i] = tdOut[i]
    BY <1>7, OneAdded, Announced DEF TdLogOut, TdlibOK, AuthState
  <2> QED BY <1>7, <2>1 DEF TdLogOut, UnderWay, Held, client
<1>8. CASE TestClosed \/ ReceiveNothing \/ BeginErase \/ Sign \/ Signed
  BY <1>8 DEF TestClosed, ReceiveNothing, BeginErase, Sign, Signed, UnderWay, Held, client, tdlib
<1>9. ASSUME NEW t \in Thread, BeginEmplace(t) PROVE UnderWay(q)'
  BY <1>9 DEF BeginEmplace, UnderWay, Held, tdlib
<1>10. CASE AskSearch \/ AskUser \/ AskCall
  BY <1>10 DEF AskSearch, AskUser, AskCall, Ask, UnderWay, Held, tdlib
<1>11. CASE Authorised \/ NotAuthorised \/ SearchDone \/ AskedUsers \/ CollectUser \/ Collected
            \/ Stopped \/ Close \/ Join
  BY <1>11 DEF Authorised, NotAuthorised, SearchDone, AskedUsers, CollectUser, Collected, Stopped,
       Close, Join, MainTo, UnderWay, Held, client, tdlib
<1>12. CASE Signal \/ Crash
  BY <1>12 DEF Signal, Crash, UnderWay, Held, client, tdlib
<1> QED BY <1>1, <1>2, <1>3, <1>4, <1>5, <1>6, <1>7, <1>8, <1>9, <1>10, <1>11, <1>12
       DEF Next, TgThread, MainThread, SendQuery, Thread, TdAnswers

\* What is being sent by the main thread gets its handler and is given to TDLib.
LEMMA SentStep ==
  ASSUME Inv, LossInv, Next, ~raced', NEW q \in asked, send["main"].q = q
  PROVE  send'["main"].q = q \/ UnderWay(q)'
<1> USE TypeParts DEF Inv
<1>0. ~raced /\ q \in Query /\ send["main"].step # "no"
  BY RacedStays, Queries DEF LossInv, MainOK, Thread, Later
<1>1. CASE EmplaceAndSend("main")
  <2>1. send["main"].id \notin DOMAIN handlers
    BY <1>1 DEF EmplaceAndSend, FreshInv, Thread
  <2>2. send["main"].id \in DOMAIN handlers' /\ handlers'[send["main"].id] = q
    BY <1>0, <1>1, <2>1 DEF EmplaceAndSend, With
  <2>3. [id |-> send["main"].id, q |-> q] \in tdIn'
    BY <1>1 DEF EmplaceAndSend
  <2>4. PICK r \in tdIn' : r.id = send["main"].id /\ r.q = q
    BY <2>3
  <2> QED BY <2>2, <2>4 DEF UnderWay, Held
<1>2. ASSUME NEW t \in Thread, EmplaceAndSend(t), t # "main" PROVE send'["main"] = send["main"]
  BY <1>2 DEF EmplaceAndSend, SendOK, Thread
<1>3. ASSUME NEW t \in Thread, BeginEmplace(t) PROVE send'["main"].q = q
  BY <1>3 DEF BeginEmplace, SendOK, Sending, Thread
<1>4. ASSUME \A t \in Thread : ~BeginEmplace(t) /\ ~EmplaceAndSend(t) PROVE send'["main"] = send["main"]
  BY <1>0, <1>4, AskerStep DEF Thread
<1> QED BY <1>1, <1>2, <1>3, <1>4

\* No step loses an answer.
LEMMA LossStep ==
  ASSUME Inv, LossInv, Next
  PROVE  LossInv'
<1> USE TypeParts DEF Inv
<1>1. (\A t \in Thread : send[t].step = "no" => send[t].q = NoQuery)'
  <2>1. ASSUME NEW t \in Thread, SendQuery(t) PROVE \A u \in Thread : send'[u].step = "no" => send'[u].q = NoQuery
    BY <2>1 DEF SendQuery, BeginEmplace, EmplaceAndSend, Idle, SendOK, Sending, LossInv
  <2>2. ASSUME \A t \in Thread : ~BeginEmplace(t) /\ ~EmplaceAndSend(t)
        PROVE  \A u \in Thread : send'[u].step = "no" => send'[u].q = NoQuery
    BY <2>2, AskerStep DEF NextQueryId, SendOK, LossInv
  <2> QED BY <2>1, <2>2 DEF SendQuery
<1>2. (tg.at \in {"called", "erase"} /\ tg.got.q \in Query => answer[tg.got.q] # {})'
  <2>1. CASE CallHandler
    <3>1. handlers[tg.got.id] = tg.got.q
      BY <2>1 DEF CallHandler, KnownInv, Known
    <3> QED BY <2>1, <3>1 DEF CallHandler, TgOK, MainOK
  <2>2. CASE TestClosed \/ ReceiveNothing \/ ReceiveResponse \/ Find \/ BeginErase \/ Erase
             \/ ReceiveUpdate \/ Sign \/ Signed
    BY <2>2 DEF TestClosed, ReceiveNothing, ReceiveResponse, Find, BeginErase, Erase, ReceiveUpdate,
         Sign, Signed, TgOK, future, LossInv
  <2>3. ASSUME MainThread \/ SendQuery("tg") PROVE UNCHANGED <<tg, answer>>
    BY <2>3 DEF MainThread, Authorised, NotAuthorised, AskSearch, SearchDone, AskUser, AskedUsers,
         CollectUser, Collected, AskCall, Stopped, Close, Join, Ask, MainTo, SendQuery, BeginEmplace,
         EmplaceAndSend, future
  <2>4. ASSUME Signal \/ Crash \/ TdAnswers \/ TdLogOut PROVE UNCHANGED <<tg, answer>>
    BY <2>4 DEF Signal, Crash, TdAnswers, TdAnswer, TdLogOut, future
  <2> QED BY <2>1, <2>2, <2>3, <2>4 DEF Next, TgThread, LossInv
<1>3. AnswerNotLost'
  <2> SUFFICES ASSUME NEW q \in asked', answer'[q] = {}, ~raced'
               PROVE  send'["main"].q = q \/ UnderWay(q)'
    BY NotLostParts
  <2>1. q \in Query
    BY MainStep DEF MainOK
  <2>2. CASE q \in asked /\ answer[q] = {}
    <3>1. send["main"].q = q \/ UnderWay(q)
      BY <2>2, RacedStays, NotLostParts DEF LossInv
    <3> QED BY <2>1, <2>2, <3>1, SentStep, UnderWayStep
  <2>3. CASE q \in asked /\ answer[q] # {}
    <3>1. answer'[q] = answer[q] \/ CallHandler
      <4>1. ASSUME TgThread, ~CallHandler PROVE answer' = answer
        BY <4>1 DEF TgThread, TestClosed, ReceiveNothing, ReceiveResponse, Find, BeginErase, Erase,
             ReceiveUpdate, Sign, Signed, SendQuery, BeginEmplace, EmplaceAndSend, future
      <4>2. ASSUME MainThread PROVE answer' = answer
        BY <4>2 DEF MainThread, Authorised, NotAuthorised, AskSearch, SearchDone, AskUser,
             AskedUsers, CollectUser, Collected, AskCall, Stopped, Close, Join, Ask, MainTo,
             SendQuery, BeginEmplace, EmplaceAndSend, future
      <4>3. ASSUME Signal \/ Crash \/ TdAnswers \/ TdLogOut PROVE answer' = answer
        BY <4>3 DEF Signal, Crash, TdAnswers, TdAnswer, TdLogOut, future
      <4> QED BY <4>1, <4>2, <4>3 DEF Next
    <3> QED BY <2>1, <2>3, <3>1 DEF CallHandler
  <2>4. CASE q \notin asked
    <3>1. AskSearch \/ AskUser \/ AskCall
      <4>1. ASSUME TgThread PROVE asked' = asked
        BY <4>1 DEF TgThread, TestClosed, ReceiveNothing, ReceiveResponse, Find, CallHandler,
             BeginErase, Erase, ReceiveUpdate, Sign, Signed, SendQuery, BeginEmplace, EmplaceAndSend,
             future
      <4>2. ASSUME MainThread, ~(AskSearch \/ AskUser \/ AskCall) PROVE asked' = asked
        BY <4>2 DEF MainThread, Authorised, NotAuthorised, SearchDone, AskedUsers, CollectUser,
             Collected, Stopped, Close, Join, MainTo, SendQuery, BeginEmplace, EmplaceAndSend, future
      <4>3. ASSUME Signal \/ Crash \/ TdAnswers \/ TdLogOut PROVE asked' = asked
        BY <4>3 DEF Signal, Crash, TdAnswers, TdAnswer, TdLogOut, future
      <4> QED BY <2>4, <4>1, <4>2, <4>3 DEF Next
    <3>2. ASSUME NEW p, Ask(p) PROVE send'["main"].q = q
      BY <2>4, <3>2 DEF Ask, NextQueryId, SendOK, Thread
    <3> QED BY <3>1, <3>2 DEF AskSearch, AskUser, AskCall
  <2> QED BY <2>2, <2>3, <2>4
<1> QED BY <1>1, <1>2, <1>3 DEF LossInv

\* For any number of queries, an answer the main thread waits for is being sent, at TDLib or
\* on its way back with its handler in the table, as long as no two accesses overlapped.
THEOREM AnswersKept == Spec => []AnswerNotLost
<1>1. Init => LossInv
  BY DEF Init, LossInv, AnswerNotLost, Idle, Thread
<1>2. Inv /\ LossInv /\ [Next]_vars => LossInv'
  <2>1. ASSUME Inv, LossInv, UNCHANGED vars PROVE LossInv'
    BY <2>1 DEF vars, client, future, tdlib, LossInv, AnswerNotLost, Held
  <2> QED BY <2>1, LossStep
<1>3. LossInv => AnswerNotLost
  BY DEF LossInv
<1> QED BY <1>1, <1>2, <1>3, Invariance, PTL DEF Spec
=============================================================================
