----------------------------- MODULE AuthSession -----------------------------
(***************************************************************************)
(* Logging one account in: the browser's calls to the REST API             *)
(* (TelegramProviderConf::startAuth, enterCommand), the script             *)
(* bin/sip2tg-auth.php with its TelegramAuth object, which starts gen_db   *)
(* for the gateway and then td-keyboard for the listener, answers their    *)
(* prompts and tries the bot, and the status files these processes share   *)
(* without a lock.                                                         *)
(*                                                                         *)
(* A session is one run of the script, a request one call of enterCommand; *)
(* the text a request carries is named by the request.  A status file      *)
(* counts only with what the code tests of it: its status, its `output`    *)
(* when that is a prompt, and its `data`; `by` is a note of who wrote it.  *)
(* Of the launcher only what it does to the status file is here, alerts to *)
(* the browser are left out.  The phone number is stored as digits, so     *)
(* that every lookup of the account finds it.                              *)
(***************************************************************************)
CONSTANTS
  Session,   \* runs of sip2tg-auth.php
  Request,   \* calls of enterCommand
  NoText     \* no data, nothing entered

ASSUME NoTextAssumption == NoText \notin Request

VARIABLES
  file,      \* the status file of each key
  session,   \* the TelegramAuth object of each run and where the run is
  child,     \* the program the session started, and its output not read yet
  request,   \* the calls of enterCommand
  loggedIn   \* external: the keys whose TDLib database is authorised

vars == <<file, session, child, request, loggedIn>>

(***************************************************************************)
(* Types.                                                                  *)
(***************************************************************************)
Key    == {"gw", "user", "bot"}
Prompt == {"phone", "code", "password", "first", "last"}
Status == {"none", "StartAuth", "WaitInput", "WaitTgResponse", "Error", "Done"}
Text   == Request \cup {NoText}

StatusFile == [status : Status, output : Prompt \cup {"none"}, data : Text,
               by : {"login", "launcher"}]

Talking == {"loop", "ask", "poll", "answered", "tell", "errors", "close"}

Pc == {"off", "begin", "title", "probe", "gateway", "killall", "genDb", "keyboard",
       "keyboardTitle", "listener", "tdKeyboard", "bot", "botAuth", "destruct", "end", "killed"}
      \cup Talking

\* late: the 120 s of the loop are over; over: they were when this round of the loop
\* began; due: the 120 s of getInputData are over.
TelegramAuth ==
  [pc : Pc, title : {"none", "gen_db", "auth_keyboard"}, dir : Key,
   prompt : Prompt \cup {"none"}, text : Text,
   error : BOOLEAN, late : BOOLEAN, over : BOOLEAN, due : BOOLEAN]

\* A child that is `busy` waits for Telegram's answer to what it was told at prompt
\* `at`; one that `reads` is blocked at that prompt; one that is `empty` read the end of
\* its input there and waits for the answer to the empty string.
Program ==
  [st : {"exited", "busy", "reads", "empty"}, at : Prompt \cup {"start"},
   out : Prompt \cup {"none", "OK"}, err : SUBSET {"error", "prompt"}]

Command == [pc : {"new", "write", "ok", "failed"}, key : Key, copy : StatusFile]

TypeOK ==
  /\ file \in [Key -> StatusFile]
  /\ session \in [Session -> TelegramAuth]
  /\ child \in [Session -> Program]
  /\ request \in [Request -> Command]
  /\ loggedIn \in SUBSET Key

\* What proc_open starts, and what is left of it when the pipes are closed.
Fresh == [st |-> "busy", at |-> "start", out |-> "none", err |-> {}]
Gone  == [Fresh EXCEPT !.st = "exited"]

NoFile == [status |-> "none", output |-> "none", data |-> NoText, by |-> "login"]

Init ==
  /\ loggedIn \in SUBSET {"gw", "user"}
  /\ file = [k \in Key |-> IF k \in loggedIn THEN [NoFile EXCEPT !.status = "Done"] ELSE NoFile]
  /\ session = [s \in Session |->
       [pc |-> "off", title |-> "none", dir |-> "gw", prompt |-> "none", text |-> NoText,
        error |-> FALSE, late |-> FALSE, over |-> FALSE, due |-> FALSE]]
  /\ child = [s \in Session |-> Gone]
  /\ request = [r \in Request |-> [pc |-> "new", key |-> "gw", copy |-> NoFile]]

-----------------------------------------------------------------------------
At(s, pc)    == session[s].pc = pc
Become(s, x) == session' = [session EXCEPT ![s] = x]
Goto(s, pc)  == Become(s, [session[s] EXCEPT !.pc = pc])

\* updateStatus of session s.
UpdateStatus(s, status) ==
  file' = [file EXCEPT ![session[s].dir] = [NoFile EXCEPT !.status = status]]

\* Titles by which getPidOfProcess finds a session that is still running.
Titled(s, title) == session[s].title = title /\ session[s].pc \notin {"end", "killed"}

\* A writer of the status file of k may be between truncating and filling it.
BeingWritten(k) ==
  \/ \E s \in Session :
       /\ session[s].dir = k
       /\ session[s].pc \in {"off", "probe", "loop", "ask", "answered", "errors", "destruct"}
  \/ \E r \in Request : request[r].pc = "write" /\ request[r].key = k

\* The child of s ended; what it wrote can still be read.
Exited(s) == [child[s] EXCEPT !.st = "exited", !.at = "start"]

\* The next round of the loop, or its end.
LoopPc(over) == IF over THEN "close" ELSE "loop"

-----------------------------------------------------------------------------
(***************************************************************************)
(* The REST calls.                                                         *)
(***************************************************************************)

\* startAuth: no gateway process runs; one that does leaves everything as it is.
StartAuth(s) ==
  /\ At(s, "off")
  /\ Goto(s, "begin")
  /\ file' = [file EXCEPT !["gw"] = [NoFile EXCEPT !.status = "StartAuth"]]
  /\ UNCHANGED <<child, request, loggedIn>>

\* enterCommand up to the test of the status.  `??` binds weaker than `===`, so the
\* test holds whenever the file has a status at all.
ReadFile(r, k) ==
  /\ request[r].pc = "new"
  /\ \/ /\ file[k].status # "none"
        /\ request' = [request EXCEPT ![r] = [pc |-> "write", key |-> k, copy |-> file[k]]]
     \/ /\ file[k].status = "none" \/ BeingWritten(k)
        /\ request' = [request EXCEPT ![r].pc = "failed"]
  /\ UNCHANGED <<file, session, child, loggedIn>>

\* The rest of it: the whole copy goes back into the file, with the text.
WriteFile(r) ==
  /\ request[r].pc = "write"
  /\ file' = [file EXCEPT ![request[r].key] = [request[r].copy EXCEPT !.data = r]]
  /\ request' = [request EXCEPT ![r].pc = "ok"]
  /\ UNCHANGED <<session, child, loggedIn>>

-----------------------------------------------------------------------------
(***************************************************************************)
(* start(): the gateway's login.                                           *)
(***************************************************************************)

\* kill -9 of the sessions that carry the title; no destructor runs.
Begin(s) ==
  /\ At(s, "begin")
  /\ session' = [t \in Session |->
       IF t = s THEN [session[s] EXCEPT !.pc = "title"]
       ELSE IF Titled(t, "gen_db") THEN [session[t] EXCEPT !.pc = "killed"] ELSE session[t]]
  /\ UNCHANGED <<file, child, request, loggedIn>>

TakeTitle(s) ==
  /\ At(s, "title")
  /\ Become(s, [session[s] EXCEPT !.pc = "probe", !.title = "gen_db"])
  /\ UNCHANGED <<file, child, request, loggedIn>>

\* makeSettingsFile lets gen_db run for half a second.
Probe(s) ==
  /\ At(s, "probe")
  /\ Goto(s, "gateway")
  /\ \/ "gw" \in loggedIn /\ UpdateStatus(s, "Done")
     \/ UNCHANGED file
  /\ UNCHANGED <<child, request, loggedIn>>

\* A gateway that was started in the meantime needs no login.
FindGateway(s) ==
  /\ At(s, "gateway")
  /\ \/ "gw" \in loggedIn /\ Goto(s, "keyboard")
     \/ Goto(s, "killall")
  /\ UNCHANGED <<file, child, request, loggedIn>>

KillallGenDb(s) ==
  /\ At(s, "killall")
  /\ Goto(s, "genDb")
  /\ child' = [t \in Session |->
       IF session[t].dir = "gw" THEN Exited(t) ELSE child[t]]
  /\ UNCHANGED <<file, request, loggedIn>>

OpenGenDb(s) ==
  /\ At(s, "genDb")
  /\ Goto(s, "loop")
  /\ child' = [child EXCEPT ![s] = Fresh]
  /\ UNCHANGED <<file, request, loggedIn>>

-----------------------------------------------------------------------------
(***************************************************************************)
(* The loop of start() and startKeyboard(), which differ only in the       *)
(* program they talk to.                                                   *)
(***************************************************************************)

\* readOutput: the child's standard output is empty.
ReadNothing(s) ==
  /\ At(s, "loop")
  /\ child[s].out = "none"
  /\ Goto(s, LoopPc(session[s].late))
  /\ UNCHANGED <<file, child, request, loggedIn>>

\* checkOutput: the child is logged in.
ReadOk(s) ==
  /\ At(s, "loop")
  /\ child[s].out = "OK"
  /\ UpdateStatus(s, "Done")
  /\ child' = [child EXCEPT ![s].out = "none"]
  /\ Goto(s, "close")
  /\ UNCHANGED <<request, loggedIn>>

\* invokeAction: the phone number is told at once, the rest has to be asked for.
ReadPrompt(s) ==
  /\ At(s, "loop")
  /\ child[s].out \in Prompt
  /\ child' = [child EXCEPT ![s].out = "none"]
  /\ Become(s, [session[s] EXCEPT !.pc = IF child[s].out = "phone" THEN "tell" ELSE "ask",
                                  !.prompt = child[s].out, !.over = session[s].late])
  /\ UNCHANGED <<file, request, loggedIn>>

\* Mutant: the file of WaitInput is written like the others, without `data`.
Mutant_AskNoData(s) ==
  /\ At(s, "ask")
  /\ file' = [file EXCEPT ![session[s].dir] =
                [status |-> "WaitInput", output |-> session[s].prompt, by |-> "login"]]
  /\ Goto(s, "poll")
  /\ UNCHANGED <<child, request, loggedIn>>

\* getInputData.
Ask(s) ==
  /\ At(s, "ask")
  /\ file' = [file EXCEPT ![session[s].dir] =
                [NoFile EXCEPT !.status = "WaitInput", !.output = session[s].prompt]]
  /\ Goto(s, "poll")
  /\ UNCHANGED <<child, request, loggedIn>>

\* Mutant: the prompt in the file is not compared.
Mutant_AnyText(s) ==
  /\ At(s, "poll")
  /\ LET f == file[session[s].dir]
     IN /\ f.data # NoText
        /\ Become(s, [session[s] EXCEPT !.pc = "answered", !.text = f.data, !.due = FALSE])
  /\ UNCHANGED <<file, child, request, loggedIn>>

\* Mutant: no limit of time.
Mutant_WaitOn(s) ==
  /\ At(s, "poll")
  /\ \/ file[session[s].dir].output # session[s].prompt
     \/ BeingWritten(session[s].dir)
  /\ Become(s, [session[s] EXCEPT !.pc = "answered", !.due = FALSE])
  /\ UNCHANGED <<file, child, request, loggedIn>>

\* One look at the file that ends the wait: there is a text, or none will come because
\* the file is about something else, cannot be read, or the time is over.
FoundText(s) ==
  /\ At(s, "poll")
  /\ LET f == file[session[s].dir]
     IN /\ f.output = session[s].prompt
        /\ f.data # NoText
        /\ Become(s, [session[s] EXCEPT !.pc = "answered", !.text = f.data, !.due = FALSE])
  /\ UNCHANGED <<file, child, request, loggedIn>>

GaveUp(s) ==
  /\ At(s, "poll")
  /\ LET f == file[session[s].dir]
     IN \/ f.output # session[s].prompt
        \/ BeingWritten(session[s].dir)
        \/ f.data = NoText /\ session[s].due
  /\ Become(s, [session[s] EXCEPT !.pc = "answered", !.due = FALSE])
  /\ UNCHANGED <<file, child, request, loggedIn>>

Answered(s) ==
  /\ At(s, "answered")
  /\ UpdateStatus(s, "WaitTgResponse")
  /\ \/ /\ session[s].text = NoText
        /\ Become(s, [session[s] EXCEPT !.pc = "errors", !.prompt = "none"])
     \/ /\ session[s].text # NoText
        /\ Goto(s, "tell")
  /\ UNCHANGED <<child, request, loggedIn>>

\* writeCommand; a child that is gone does not get it.
Tell(s) ==
  /\ At(s, "tell")
  /\ child' = IF child[s].st = "reads" THEN [child EXCEPT ![s].st = "busy"] ELSE child
  /\ Become(s, [session[s] EXCEPT !.pc = "errors", !.prompt = "none", !.text = NoText])
  /\ UNCHANGED <<file, request, loggedIn>>

\* readOutput(true): whatever is on standard error is the error.
ReadErrors(s) ==
  /\ At(s, "errors")
  /\ \/ /\ child[s].err = {}
        /\ Become(s, [session[s] EXCEPT !.pc = LoopPc(session[s].over), !.over = FALSE])
        /\ UNCHANGED <<file, child>>
     \/ /\ child[s].err # {}
        /\ Become(s, [session[s] EXCEPT !.pc = "close", !.error = TRUE, !.over = FALSE])
        /\ UpdateStatus(s, "Error")
        /\ child' = [child EXCEPT ![s].err = {}]
  /\ UNCHANGED <<request, loggedIn>>

\* proc_close closes the pipes and waits for the child.
Close(s) ==
  /\ At(s, "close")
  /\ child[s].st = "exited"
  /\ Become(s, [session[s] EXCEPT !.pc = IF session[s].dir = "gw" THEN "keyboard" ELSE "bot",
                                  !.late = FALSE])
  /\ child' = [child EXCEPT ![s] = Gone]
  /\ UNCHANGED <<file, request, loggedIn>>

-----------------------------------------------------------------------------
(***************************************************************************)
(* startKeyboard(): the listener's login, then the bot's.                  *)
(***************************************************************************)

\* Another session is at it already, or not.
FindKeyboard(s) ==
  /\ At(s, "keyboard")
  /\ Goto(s, IF \E t \in Session \ {s} : Titled(t, "auth_keyboard")
             THEN "destruct" ELSE "keyboardTitle")
  /\ UNCHANGED <<file, child, request, loggedIn>>

\* The title is set and workDir becomes the listener's directory.
TakeKeyboardTitle(s) ==
  /\ At(s, "keyboardTitle")
  /\ Become(s, [session[s] EXCEPT !.pc = "listener", !.title = "auth_keyboard", !.dir = "user"])
  /\ UNCHANGED <<file, child, request, loggedIn>>

\* Programs that run with the listener's settings: the listener, another session's login
\* or its attempt for the bot.
FindListener(s) ==
  /\ At(s, "listener")
  /\ LET other == \E t \in Session \ {s} :
                     \/ session[t].dir = "user" /\ child[t].st # "exited"
                     \/ At(t, "botAuth")
     IN \/ (other \/ "user" \in loggedIn) /\ Goto(s, "bot")
        \/ ~other /\ Goto(s, "tdKeyboard")
  /\ UNCHANGED <<file, child, request, loggedIn>>

OpenTdKeyboard(s) ==
  /\ At(s, "tdKeyboard")
  /\ Goto(s, "loop")
  /\ child' = [child EXCEPT ![s] = Fresh]
  /\ UNCHANGED <<file, request, loggedIn>>

\* Mutant: workDir stays the listener's directory.
Mutant_BotKeepsDir(s) ==
  /\ At(s, "bot")
  /\ Goto(s, "botAuth")
  /\ file' = [file EXCEPT !["bot"] = [NoFile EXCEPT !.status = "StartAuth"]]
  /\ UNCHANGED <<child, request, loggedIn>>

\* startKeyboard after the listener.
Bot(s) ==
  /\ At(s, "bot")
  /\ Become(s, [session[s] EXCEPT !.pc = "botAuth", !.dir = "bot"])
  /\ file' = [file EXCEPT !["bot"] = [NoFile EXCEPT !.status = "StartAuth"]]
  /\ UNCHANGED <<child, request, loggedIn>>

\* td-keyboard -auth for 2 s, with or without success.
BotAuth(s) ==
  /\ At(s, "botAuth")
  /\ Goto(s, "destruct")
  /\ \/ UpdateStatus(s, "Done")
     \/ UNCHANGED file
  /\ UNCHANGED <<child, request, loggedIn>>

\* The destructor: DONE unless an error was seen.
Destruct(s) ==
  /\ At(s, "destruct")
  /\ Goto(s, "end")
  /\ IF session[s].error THEN UNCHANGED file ELSE UpdateStatus(s, "Done")
  /\ UNCHANGED <<child, request, loggedIn>>

-----------------------------------------------------------------------------
(***************************************************************************)
(* The child: gen_db for the gateway, the interactor of td-keyboard for    *)
(* the listener.  The session holds the pipes until it closes them or is   *)
(* killed.  A closed pipe ends neither program: PHP ignores SIGPIPE, its   *)
(* children inherit that, and gen_db tests cin for nothing.                *)
(***************************************************************************)
Closed(s) == session[s].pc \in {"close", "killed"}

\* What a child writes into a closed pipe is lost.
Heard(s, x) == IF Closed(s) THEN [x EXCEPT !.out = "none", !.err = {}] ELSE x

\* What TDLib may want next once it took what it was told at p.
After(p) ==
  CASE p = "start"    -> {"phone"}
    [] p = "phone"    -> {"code"}
    [] p = "code"     -> {"password", "first", "ready"}
    [] p = "password" -> {"ready"}
    [] p = "first"    -> {"last"}
    [] p = "last"     -> {"ready"}

\* gen_db writes the prompt for a password to standard error.
OnStderr(s, p) == session[s].dir = "gw" /\ p = "password"

Prompted(s, p) ==
  IF OnStderr(s, p) THEN [child[s] EXCEPT !.st = "reads", !.at = p, !.err = @ \cup {"prompt"}]
                    ELSE [child[s] EXCEPT !.st = "reads", !.at = p, !.out = p]

\* `std::cin >> x` after the pipes are closed: x is empty, and is sent like any other text
\* (at the first name with a last name that is as empty).
EndOfInput(s) ==
  /\ Closed(s)
  /\ child[s].st = "reads"
  /\ child' = [child EXCEPT ![s] = Heard(s, [child[s] EXCEPT !.st = "empty"])]
  /\ UNCHANGED <<file, session, request, loggedIn>>

\* The last step of the login, which takes an empty last name too.
Ready(s) ==
  /\ child[s].st = "busy" \/ (child[s].st = "empty" /\ child[s].at = "last")
  /\ \/ "ready" \in After(child[s].at)
     \/ child[s].at = "start" /\ session[s].dir \in loggedIn
  /\ loggedIn' = loggedIn \cup {session[s].dir}
  /\ child' = [child EXCEPT ![s] = Heard(s, [Exited(s) EXCEPT !.out = "OK"])]
  /\ UNCHANGED <<file, session, request>>

\* The next prompt; td-keyboard does not register new users and ends.
NextPrompt(s) ==
  /\ child[s].st = "busy"
  /\ \E p \in After(child[s].at) \ {"ready"} :
       child' = [child EXCEPT ![s] =
         Heard(s, IF session[s].dir = "user" /\ p = "first" THEN Exited(s) ELSE Prompted(s, p))]
  /\ UNCHANGED <<file, session, request, loggedIn>>

\* Telegram refuses, also the empty string: gen_db reports it and asks again, td-keyboard
\* ends.
Rejected(s) ==
  /\ child[s].at \in Prompt
  /\ child[s].st = "empty" \/ (child[s].st = "busy" /\ child[s].at # "first")
  /\ LET again == IF child[s].at = "last" THEN "first" ELSE child[s].at
     IN child' = [child EXCEPT ![s] =
          Heard(s, IF session[s].dir = "user" THEN Exited(s)
                   ELSE [Prompted(s, again) EXCEPT !.err = @ \cup {"error"}])]
  /\ UNCHANGED <<file, session, request, loggedIn>>

-----------------------------------------------------------------------------
(***************************************************************************)
(* Time: the 120 s of the loop, and those of getInputData, which started   *)
(* later.                                                                  *)
(***************************************************************************)
LoopTime(s) ==
  /\ session[s].pc \in Talking \ {"close"}
  /\ ~session[s].late
  /\ Become(s, [session[s] EXCEPT !.late = TRUE])
  /\ UNCHANGED <<file, child, request, loggedIn>>

PollTime(s) ==
  /\ At(s, "poll")
  /\ ~session[s].due
  /\ Become(s, [session[s] EXCEPT !.late = TRUE, !.due = TRUE])
  /\ UNCHANGED <<file, child, request, loggedIn>>

-----------------------------------------------------------------------------
Login(s) ==
  \/ Begin(s) \/ TakeTitle(s) \/ Probe(s) \/ FindGateway(s) \/ KillallGenDb(s) \/ OpenGenDb(s)
  \/ ReadNothing(s) \/ ReadOk(s) \/ ReadPrompt(s) \/ Ask(s) \/ FoundText(s) \/ GaveUp(s)
  \/ Answered(s) \/ Tell(s) \/ ReadErrors(s) \/ Close(s)
  \/ FindKeyboard(s) \/ TakeKeyboardTitle(s) \/ FindListener(s) \/ OpenTdKeyboard(s)
  \/ Bot(s) \/ BotAuth(s) \/ Destruct(s)

Child(s) == Ready(s) \/ NextPrompt(s) \/ Rejected(s) \/ EndOfInput(s)

Clock(s) == LoopTime(s) \/ PollTime(s)

Browser ==
  \/ \E s \in Session : StartAuth(s)
  \/ \E r \in Request, k \in {"gw", "user"} : ReadFile(r, k)
  \/ \E r \in Request : WriteFile(r)

\* A launcher, of cron or started at the end of a login: the TelegramAuth object in
\* startSipTg dies without an error and with the last account's workDir, here this one's.
LauncherDone ==
  /\ file' = [file EXCEPT !["gw"] = [NoFile EXCEPT !.status = "Done", !.by = "launcher"]]
  /\ UNCHANGED <<session, child, request, loggedIn>>

Next == Browser \/ LauncherDone \/ \E s \in Session : Login(s) \/ Child(s) \/ Clock(s)

Spec == Init /\ [][Next]_vars

\* A process runs on, time passes, and Telegram answers.
FairSpec ==
  /\ Spec
  /\ \A s \in Session : WF_vars(Login(s)) /\ WF_vars(Child(s)) /\ WF_vars(Clock(s))

-----------------------------------------------------------------------------
(***************************************************************************)
(* Properties.                                                             *)
(***************************************************************************)

\* What a child gets at a prompt other than the phone number was entered by a request
\* that named this login and saw this prompt: neither a late request nor a second
\* session hands a code to a password prompt (TelegramAuth::getInputData).
AnswerMatchesPrompt ==
  [][\A s \in Session :
       child[s].st = "reads" /\ child[s].at # "phone" /\ child'[s].st = "busy" =>
         \E r \in Request :
           /\ session[s].text = r
           /\ request[r].key = session[s].dir
           /\ request[r].copy.output = child[s].at]_vars

\* A session that found another one in startKeyboard ended with workDir still the
\* gateway's.
TurnedAway == \E s \in Session : At(s, "end") /\ session[s].dir = "gw"

\* DONE in the file of the gateway or the listener means that this login succeeded, also
\* after sessions that ended without an answer, whose destructor writes DONE all the
\* same (TelegramAuth::__destruct): only one that was turned away writes it wrongly, and
\* a launcher, whatever came of the login.
DoneMeansLoggedIn ==
  /\ file["user"].status = "Done" => "user" \in loggedIn
  /\ file["gw"].status = "Done" /\ file["gw"].by = "login" => "gw" \in loggedIn \/ TurnedAway

\* proc_close of gen_db, which may ask Telegram for ever with empty strings.
WaitsForGenDb(s) == At(s, "close") /\ session[s].dir = "gw" /\ child[s].st # "exited"

\* Whatever is entered and whatever Telegram answers, a login that does not end waits in
\* proc_close for gen_db: neither a loop nor a wait for input nor td-keyboard holds it for
\* ever (TelegramAuth::start, startKeyboard, getInputData).
SessionEnds ==
  \A s \in Session : <>[](session[s].pc \in {"off", "end", "killed"} \/ WaitsForGenDb(s))

\* A session fails only over an error of Telegram's, and the prompt for a password, one of
\* expectActions (TelegramAuth.php:65), is none.
PromptIsNotError ==
  [][\A s \in Session :
       session'[s].error /\ ~session[s].error => "error" \in child[s].err]_vars
=============================================================================
