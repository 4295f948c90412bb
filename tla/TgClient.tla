------------------------------ MODULE TgClient ------------------------------
(***************************************************************************)
(* tg::Client (tg.cpp) between its two threads: the main thread, which      *)
(* starts it, awaits the authorisation (main.cpp) and then, as the gateway, *)
(* fills the contact cache and asks its queries; and the TDLib thread,      *)
(* which receives TDLib's responses, signs on and keeps the promises.       *)
(*                                                                         *)
(* The table `handlers` and the counter of query ids have no lock.  An      *)
(* access of the table has a begin and an end, `raced` records that two of  *)
(* them, one a change, overlapped.  From then on, any access may lose its    *)
(* effect or end the process: what std::map does is undefined.              *)
(* Updates of calls and messages only pass through to the gateway's queue   *)
(* and are left out, and so is what an answer says.                         *)
(***************************************************************************)
EXTENDS Naturals, Sequences

CONSTANTS
  Contacts,   \* how many users searchContacts finds
  Calls       \* how many queries the gateway asks after that

ASSUME ContactsAssumption == Contacts \in Nat
ASSUME CallsAssumption == Calls \in Nat

VARIABLES
  counter,    \* current_query_id
  handlers,   \* the query whose promise the handler of each id keeps
  raced,      \* two threads were in `handlers` at the same time
  ready,      \* the promise is_ready_
  closed,     \* is_closed
  send,       \* where each thread is in send_query
  tg,         \* where the TDLib thread is, the response it handles, what it is to send
  main,       \* where the main thread is, and how many users or calls it has come to
  asked,      \* the queries the main thread has a future of
  answer,     \* what these futures received
  stop,       \* e_flag, set by a signal
  process,    \* whether the process runs
  tdIn,       \* external: queries TDLib has not answered
  tdOut,      \* external: responses and updates not received yet
  auth        \* external: TDLib's authorisation state

client == <<counter, handlers, raced, send>>
future == <<asked, answer>>
tdlib  == <<tdIn, tdOut, auth>>
vars   == <<client, ready, closed, tg, main, future, stop, process, tdlib>>

(***************************************************************************)
(* Queries and TDLib's responses.                                          *)
(***************************************************************************)
Search == <<"searchContacts", 0>>
User   == {"getUser"} \X (1..Contacts)
Call   == {"call"} \X (1..Calls)
Query  == {Search} \cup User \cup Call

SetParameters == <<"setTdlibParameters", 0>>
CheckKey      == <<"checkDatabaseEncryptionKey", 0>>
SetProxy      == <<"proxy", 0>>
SignOn        == {SetParameters, CheckKey, SetProxy}
NoQuery       == <<"none", 0>>

AuthState == {"WaitTdlibParameters", "WaitEncryptionKey", "Ready", "WaitPhoneNumber", "LoggingOut"}

\* A response carries the id of its query; an update has id 0.
Response(r)   == [id |-> r.id, q |-> r.q, state |-> "none"]
Update(state) == [id |-> 0, q |-> NoQuery, state |-> state]
Nothing       == [id |-> 0, q |-> NoQuery, state |-> "none"]

Thread == {"main", "tg"}

Incoming == [id : Nat, q : Query \cup SignOn \cup {NoQuery}, state : AuthState \cup {"none"}]

TypeOK ==
  /\ counter \in Nat
  /\ DOMAIN handlers \subseteq 1..counter
  /\ \A id \in DOMAIN handlers : handlers[id] \in Query \cup SignOn
  /\ raced \in BOOLEAN /\ closed \in BOOLEAN /\ stop \in BOOLEAN
  /\ ready \in {"unset", "true", "false"}
  /\ send \in [Thread -> [step : {"no", "counted", "emplace"}, id : Nat,
                          q : Query \cup SignOn \cup {NoQuery}]]
  /\ tg \in [at : {"test", "receive", "find", "found", "called", "erase", "sign", "ended"},
             got : Incoming, todo : Seq(SignOn)]
  /\ main \in [at : {"wait", "search", "users", "collect", "loop", "join"}, n : Nat]
  /\ asked \subseteq Query
  /\ answer \in [Query -> SUBSET Query]
  /\ process \in {"runs", "exited", "aborted"}
  /\ tdIn \subseteq [id : Nat, q : Query \cup SignOn]
  /\ tdOut \in Seq(Incoming)
  /\ auth \in AuthState

Idle == [step |-> "no", id |-> 0, q |-> NoQuery]

Init ==
  /\ counter = 0 /\ handlers = << >> /\ raced = FALSE
  /\ ready = "unset" /\ closed = FALSE
  /\ send = [t \in Thread |-> Idle]
  /\ tg = [at |-> "test", got |-> Nothing, todo |-> << >>]
  /\ main = [at |-> "wait", n |-> 0]
  /\ asked = {} /\ answer = [q \in Query |-> {}]
  /\ stop = FALSE /\ process = "runs"
  /\ tdIn = {} /\ tdOut = <<Update("WaitTdlibParameters")>> /\ auth = "WaitTdlibParameters"

-----------------------------------------------------------------------------
(***************************************************************************)
(* The table of handlers.                                                  *)
(***************************************************************************)
InTable(t) == send[t].step = "emplace" \/ (t = "tg" /\ tg.at \in {"find", "erase"})

\* Thread t begins an access.
Enter(t) == raced' = (raced \/ \E u \in Thread \ {t} : InTable(u))

With(id, q) == [i \in DOMAIN handlers \cup {id} |-> IF i \in DOMAIN handlers THEN handlers[i] ELSE q]
Without(id) == [i \in DOMAIN handlers \ {id} |-> handlers[i]]

(***************************************************************************)
(* send_query: next_query_id, handlers.emplace, client->send.              *)
(***************************************************************************)

\* Mutant: current_query_id++.
Mutant_PostIncrement(t, q) ==
  /\ send[t].step = "no"
  /\ send' = [send EXCEPT ![t] = [step |-> "counted", id |-> counter, q |-> q]]

\* `++current_query_id` reads the counter.
NextQueryId(t, q) ==
  /\ send[t].step = "no"
  /\ send' = [send EXCEPT ![t] = [step |-> "counted", id |-> counter + 1, q |-> q]]

\* It writes it back, and the insertion begins.
BeginEmplace(t) ==
  /\ send[t].step = "counted"
  /\ counter' = send[t].id
  /\ Enter(t)
  /\ send' = [send EXCEPT ![t].step = "emplace"]
  /\ UNCHANGED <<handlers, ready, closed, tg, main, future, stop, process, tdlib>>

EmplaceAndSend(t) ==
  /\ send[t].step = "emplace"
  /\ \/ handlers' = With(send[t].id, send[t].q)
     \/ raced /\ UNCHANGED handlers
  /\ tdIn' = tdIn \cup {[id |-> send[t].id, q |-> send[t].q]}
  /\ send' = [send EXCEPT ![t] = Idle]
  /\ UNCHANGED <<counter, raced, ready, closed, tg, main, future, stop, process, tdOut, auth>>

SendQuery(t) == BeginEmplace(t) \/ EmplaceAndSend(t)

-----------------------------------------------------------------------------
(***************************************************************************)
(* The TDLib thread: loop, process_response, process_update.               *)
(***************************************************************************)
TestClosed ==
  /\ tg.at = "test"
  /\ tg' = [tg EXCEPT !.at = IF closed THEN "ended" ELSE "receive"]
  /\ UNCHANGED <<client, ready, closed, main, future, stop, process, tdlib>>

\* Mutant: the loop ends when nothing was received.
Mutant_EndOnNothing ==
  /\ tg.at = "receive" /\ tdOut = << >>
  /\ tg' = [tg EXCEPT !.at = "ended"]
  /\ UNCHANGED <<client, ready, closed, main, future, stop, process, tdlib>>

\* receive returns nothing after WAIT_TIMEOUT.
ReceiveNothing ==
  /\ tg.at = "receive" /\ tdOut = << >>
  /\ tg' = [tg EXCEPT !.at = "test"]
  /\ UNCHANGED <<client, ready, closed, main, future, stop, process, tdlib>>

\* A response to a query: the search for its handler begins.
ReceiveResponse ==
  /\ tg.at = "receive" /\ tdOut # << >> /\ Head(tdOut).id # 0
  /\ tg' = [tg EXCEPT !.at = "find", !.got = Head(tdOut)]
  /\ tdOut' = Tail(tdOut)
  /\ Enter("tg")
  /\ UNCHANGED <<counter, handlers, send, ready, closed, main, future, stop, process, tdIn, auth>>

Find ==
  /\ tg.at = "find"
  /\ \/ tg.got.id \in DOMAIN handlers /\ tg' = [tg EXCEPT !.at = "found"]
     \/ /\ tg.got.id \notin DOMAIN handlers \/ raced
        /\ tg' = [tg EXCEPT !.at = "test", !.got = Nothing]
  /\ UNCHANGED <<client, ready, closed, main, future, stop, process, tdlib>>

\* Mutant: answers are taken to arrive in the order of the queries.
Mutant_CallOldest ==
  /\ tg.at = "found"
  /\ LET oldest == CHOOSE i \in DOMAIN handlers : \A j \in DOMAIN handlers : i <= j
         q == handlers[oldest] IN
       answer' = [p \in Query |-> IF p = q /\ answer[p] = {} THEN {tg.got.q} ELSE answer[p]]
  /\ tg' = [tg EXCEPT !.at = "called"]
  /\ UNCHANGED <<client, ready, closed, main, asked, stop, process, tdlib>>

\* The handler sets the promise, or, while signing on, only logs an error.
CallHandler ==
  /\ tg.at = "found"
  /\ LET q == handlers[tg.got.id] IN
       answer' = [p \in Query |-> IF p = q /\ answer[p] = {} THEN {tg.got.q} ELSE answer[p]]
  /\ tg' = [tg EXCEPT !.at = "called"]
  /\ UNCHANGED <<client, ready, closed, main, asked, stop, process, tdlib>>

BeginErase ==
  /\ tg.at = "called"
  /\ tg' = [tg EXCEPT !.at = "erase"]
  /\ Enter("tg")
  /\ UNCHANGED <<counter, handlers, send, ready, closed, main, future, stop, process, tdlib>>

\* Mutant: the oldest entry is erased.
Mutant_EraseOldest ==
  /\ tg.at = "erase"
  /\ handlers' = Without(CHOOSE i \in DOMAIN handlers : \A j \in DOMAIN handlers : i <= j)
  /\ tg' = [tg EXCEPT !.at = "test", !.got = Nothing]
  /\ UNCHANGED <<counter, raced, send, ready, closed, main, future, stop, process, tdlib>>

Erase ==
  /\ tg.at = "erase"
  /\ handlers' = Without(tg.got.id) \/ (raced /\ UNCHANGED handlers)
  /\ tg' = [tg EXCEPT !.at = "test", !.got = Nothing]
  /\ UNCHANGED <<counter, raced, send, ready, closed, main, future, stop, process, tdlib>>

(***************************************************************************)
(* on_authorization_state_update.  A promise is set once: the second        *)
(* set_value throws, nobody catches it in this thread, the process aborts.  *)
(***************************************************************************)
Requests(state) ==
  CASE state = "WaitTdlibParameters" -> <<SetParameters>>
    [] state = "WaitEncryptionKey"   -> <<CheckKey, SetProxy>>
    [] OTHER                         -> << >>

\* Mutant: the exception of a second set_value is caught.
Mutant_DecideCaught(value) ==
  /\ ready' = IF ready = "unset" THEN value ELSE ready
  /\ UNCHANGED process

Decide(value) ==
  \/ ready = "unset" /\ ready' = value /\ UNCHANGED process
  \/ ready # "unset" /\ process' = "aborted" /\ UNCHANGED ready

ReceiveUpdate ==
  /\ tg.at = "receive" /\ tdOut # << >> /\ Head(tdOut).id = 0
  /\ LET state == Head(tdOut).state IN
     \/ /\ Requests(state) # << >>
        /\ tg' = [tg EXCEPT !.at = "sign", !.todo = Requests(state)]
        /\ UNCHANGED <<ready, process>>
     \/ /\ Requests(state) = << >>
        /\ tg' = [tg EXCEPT !.at = "test"]
        /\ Decide(IF state = "Ready" THEN "true" ELSE "false")
  /\ tdOut' = Tail(tdOut)
  /\ UNCHANGED <<client, closed, main, future, stop, tdIn, auth>>

Sign ==
  /\ tg.at = "sign" /\ tg.todo # << >>
  /\ NextQueryId("tg", Head(tg.todo))
  /\ tg' = [tg EXCEPT !.todo = Tail(@)]
  /\ UNCHANGED <<counter, handlers, raced, ready, closed, main, future, stop, process, tdlib>>

Signed ==
  /\ tg.at = "sign" /\ tg.todo = << >> /\ send["tg"].step = "no"
  /\ tg' = [tg EXCEPT !.at = "test"]
  /\ UNCHANGED <<client, ready, closed, main, future, stop, process, tdlib>>

TgThread ==
  \/ TestClosed \/ ReceiveNothing \/ ReceiveResponse \/ Find \/ CallHandler \/ BeginErase
  \/ Erase \/ ReceiveUpdate \/ Sign \/ Signed \/ SendQuery("tg")

-----------------------------------------------------------------------------
(***************************************************************************)
(* The main thread: main, Gateway::start, load_cache, and the queries of    *)
(* the handlers, each awaited where it is asked.                            *)
(***************************************************************************)
Free == send["main"].step = "no"

Got(q) == answer[q] # {}

\* send_query_async, up to the read of the counter.
Ask(q) ==
  /\ NextQueryId("main", q)
  /\ asked' = asked \cup {q}
  /\ UNCHANGED <<counter, handlers, raced, ready, closed, tg, answer, stop, process, tdlib>>

MainTo(at, n) ==
  /\ main' = [at |-> at, n |-> n]
  /\ UNCHANGED <<client, ready, closed, tg, future, stop, process, tdlib>>

\* Mutant: main does not wait for the authorisation.
Mutant_NoWait == main.at = "wait" /\ MainTo("search", 0)

\* Mutant: main looks whether the promise is kept, not at its value.
Mutant_ValueIgnored == main.at = "wait" /\ ready # "unset" /\ MainTo("search", 0)

Authorised == main.at = "wait" /\ ready = "true" /\ MainTo("search", 0)

\* wait_for(5s) has waited in vain, or the sign-on failed.
NotAuthorised == main.at = "wait" /\ ready # "true" /\ MainTo("join", 0)

AskSearch == main.at = "search" /\ main.n = 0 /\ Ask(Search) /\ main' = [main EXCEPT !.n = 1]

\* The list of contacts is there, or an error that ends load_cache.
SearchDone ==
  /\ main.at = "search" /\ main.n = 1 /\ Free /\ Got(Search)
  /\ MainTo("users", 1) \/ MainTo("loop", 1)

AskUser ==
  /\ main.at = "users" /\ main.n \in 1..Contacts
  /\ Ask(<<"getUser", main.n>>) /\ main' = [main EXCEPT !.n = @ + 1]

AskedUsers == main.at = "users" /\ main.n > Contacts /\ Free /\ MainTo("collect", 1)

\* A user without access ends load_cache; the other futures are dropped.
CollectUser ==
  /\ main.at = "collect" /\ main.n \in 1..Contacts /\ Got(<<"getUser", main.n>>)
  /\ MainTo("collect", main.n + 1) \/ MainTo("loop", 1)

Collected == main.at = "collect" /\ main.n > Contacts /\ MainTo("loop", 1)

\* The last query has been answered.
Awaited == Free /\ (main.n > 1 => Got(<<"call", main.n - 1>>))

AskCall ==
  /\ main.at = "loop" /\ main.n \in 1..Calls /\ Awaited
  /\ Ask(<<"call", main.n>>) /\ main' = [main EXCEPT !.n = @ + 1]

Stopped == main.at = "loop" /\ stop /\ Awaited /\ MainTo("join", 0)

\* Mutant: the destructor joins before it sets is_closed.
Mutant_JoinFirst ==
  /\ main.at = "join" /\ ~closed /\ tg.at = "ended" /\ closed' = TRUE
  /\ UNCHANGED <<client, ready, tg, main, future, stop, process, tdlib>>

\* ~Client
Close ==
  /\ main.at = "join" /\ ~closed /\ closed' = TRUE
  /\ UNCHANGED <<client, ready, tg, main, future, stop, process, tdlib>>

Join ==
  /\ main.at = "join" /\ closed /\ tg.at = "ended" /\ process' = "exited"
  /\ UNCHANGED <<client, ready, closed, tg, main, future, stop, tdlib>>

MainThread ==
  \/ Authorised \/ NotAuthorised \/ AskSearch \/ SearchDone \/ AskUser \/ AskedUsers
  \/ CollectUser \/ Collected \/ AskCall \/ Stopped \/ Close \/ Join \/ SendQuery("main")

-----------------------------------------------------------------------------
(***************************************************************************)
(* Outside.                                                                *)
(***************************************************************************)

\* A signal, once the loop has its handlers installed.
Signal ==
  /\ main.at = "loop" /\ ~stop /\ stop' = TRUE
  /\ UNCHANGED <<client, ready, closed, tg, main, future, process, tdlib>>

\* A broken table ends the process, in the thread that uses it.
Crash ==
  /\ raced /\ (\E t \in Thread : InTable(t)) /\ process' = "aborted"
  /\ UNCHANGED <<client, ready, closed, tg, main, future, stop, tdlib>>

\* The state that follows the one TDLib is in once it is told what it waits for.
Follows(q) ==
  CASE q = SetParameters /\ auth = "WaitTdlibParameters" -> {"WaitEncryptionKey"}
    [] q = CheckKey /\ auth = "WaitEncryptionKey"        -> {"Ready", "WaitPhoneNumber"}
    [] OTHER                                             -> {}

\* TDLib answers its queries in any order; an answer may be an error.
TdAnswer(r) ==
  /\ tdIn' = tdIn \ {r}
  /\ \/ tdOut' = Append(tdOut, Response(r)) /\ UNCHANGED auth
     \/ /\ auth' \in Follows(r.q)
        /\ \/ tdOut' = tdOut \o <<Response(r), Update(auth')>>
           \/ tdOut' = tdOut \o <<Update(auth'), Response(r)>>
  /\ UNCHANGED <<client, ready, closed, tg, main, future, stop, process>>

\* The session is ended from another device, or the account is gone.
TdLogOut ==
  /\ auth = "Ready" /\ auth' = "LoggingOut"
  /\ tdOut' = Append(tdOut, Update("LoggingOut"))
  /\ UNCHANGED <<client, ready, closed, tg, main, future, stop, process, tdIn>>

TdAnswers == \E r \in tdIn : TdAnswer(r)

Running == process = "runs"

Next ==
  /\ Running
  /\ TgThread \/ MainThread \/ Signal \/ Crash \/ TdAnswers \/ TdLogOut

Spec == Init /\ [][Next]_vars

\* Both threads are scheduled, 5 s and 10 s pass, and TDLib answers every query.
FairSpec ==
  /\ Spec
  /\ WF_vars(Running /\ TgThread)
  /\ WF_vars(Running /\ MainThread)
  /\ \A r \in [id : 1..(Contacts + Calls + 4), q : Query \cup SignOn] :
       WF_vars(Running /\ r \in tdIn /\ TdAnswer(r))

-----------------------------------------------------------------------------
(***************************************************************************)
(* Properties.                                                             *)
(***************************************************************************)

\* send_query_async keeps its promise to the caller (QueryService): each future gets
\* one answer at most, and its own, although answers arrive in any order and the
\* table may be damaged.
Service == INSTANCE QueryService WITH Query <- Query, asked <- asked, answer <- answer
EachItsOwnAnswer == Service!Spec

\* The two threads are never both in send_query: the TDLib thread asks nothing after
\* the authorisation the main thread waits for.  Else `++current_query_id` (tg.cpp:166)
\* could give two queries one id.
OneSender == send["main"].step = "no" \/ send["tg"].step = "no"

Held(q, r) == r.q = q /\ r.id \in DOMAIN handlers /\ handlers[r.id] = q

\* A query the main thread waits for is still being sent, at TDLib or on its way back
\* with its handler in the table: only overlapping accesses of the table
\* (tg.cpp:107, 138) can lose an answer.
AnswerNotLost ==
  \A q \in asked : answer[q] = {} /\ ~raced =>
    \/ send["main"].q = q
    \/ \E r \in tdIn \cup {tdOut[i] : i \in 1..Len(tdOut)} : Held(q, r)
    \/ tg.at \in {"find", "found"} /\ Held(q, tg.got)

\* The gateway only runs with an authorised TDLib, or one that has just been logged
\* out: the report of that, which ends the process, is still to be handled.
ServesAuthorised ==
  main.at \in {"search", "users", "collect", "loop"} /\ Running =>
    auth = "Ready" \/ \E i \in 1..Len(tdOut) : tdOut[i].state = "LoggingOut"

\* A query is answered unless the process ends or the table was damaged.
QueryAnswered ==
  \A q \in Query : q \in asked ~> Got(q) \/ ~Running \/ raced

\* A process whose account was logged out ends: the exception of the second set_value
\* does it, whatever the gateway thread waits for.
LogOutEnds == (auth = "LoggingOut") ~> ~Running

\* A signal ends the process, and so does a failed sign-on: no thread waits for ever,
\* unless an answer was lost in a damaged table.
StopEnds == (stop \/ main.at = "join") ~> (~Running \/ raced)
=============================================================================
