------------------------------ MODULE Launcher ------------------------------
(***************************************************************************)
(* The supervision of the processes: bin/sip2tg-launcher.php, run by cron   *)
(* every minute and by startLauncher with `restart <id>`, and the hooks of  *)
(* TelegramProviderConf for enabling and disabling the module and for       *)
(* logging an account out.  Each of them is a job, a PHP process or a       *)
(* request, that looks for processes by title and then kills or starts      *)
(* them; jobs run at the same time and hold no lock.                        *)
(*                                                                         *)
(* A gateway (tg2sip), its test run, the probe of its login (gen_db) and a  *)
(* listener (td-keyboard -u) need the lock of a TDLib database, which is    *)
(* TDLib's (external): one that finds it taken, or is not logged in, ends.  *)
(* A gateway and a test run bind the SIP port of their settings.ini before, *)
(* and abort if another one holds it.                                      *)
(* A listener's files are not modelled, and the listener and the gateway of *)
(* an account are logged in together.  killByTittle waits for what it       *)
(* killed, but 15 s at most, so that its wait excludes no interleaving.     *)
(***************************************************************************)
EXTENDS Naturals

CONSTANTS
  Accounts,     \* how many accounts there are; 1 is the first row of the table
  Guarded,      \* accounts whose id begins with the digit 1
  SeesItself,   \* getPidOfProcess also finds the process that asks (external)
  CronJob,      \* the job that cron starts
  OtherJob,     \* bound: other jobs at a time
  Initially,    \* bound: the sets of accounts that may be logged in at first
  Records,      \* bound: whose record is changed; SIPPort for the port of the PBX
  MaxChanges    \* bound: what the administrator does

\* The other argument of startLauncher.
SIPPort == 0

ASSUME AccountsAssumption == Accounts \in Nat \ {0} /\ Guarded \subseteq 1..Accounts
ASSUME SeesItselfAssumption == SeesItself \in BOOLEAN
ASSUME BoundAssumption ==
  /\ Initially \subseteq SUBSET (1..Accounts) /\ Records \subseteq {SIPPort} \cup 1..Accounts
  /\ MaxChanges \in Nat

VARIABLES
  enabled,    \* the module is enabled
  loggedIn,   \* external: the accounts that are logged in
  changes,    \* how much the administrator did
  requests,   \* `restart` commands in the background that did not begin
  job,        \* the jobs
  file,       \* settings.ini of each account: whose record it was made of, or 0
  script,     \* /tmp/<time>_nohup.sh, by the job that wrote it first: the account, or 0
  shell,      \* the script each job has told a shell to run, or the job itself
  pending,    \* the jobs whose shell has not run yet
  test,       \* the test run of each job
  gateway,    \* the gateway of each account that holds the lock, and whose settings it has
  listener,   \* the listener of each account that holds the lock
  doomed,     \* the processes that got no lock: their titles, and SIP ports or 0
  bots        \* whether bots serve, and whether bots are ending

admin  == <<enabled, loggedIn, changes>>
files  == <<file, script, shell, pending>>
procs  == <<test, gateway, listener, doomed, bots>>
vars   == <<admin, requests, job, files, procs>>

Account == 1..Accounts
Job     == {CronJob} \cup OtherJob

Pc == {"off", "begin", "guard", "kill", "remove", "file", "look", "probe", "probed", "tested",
       "script", "destroy", "bot", "listen", "listener", "startBot", "stopSipTg",
       "stopTdKeyboard"}

Titles   == {"gateway"} \X Account \X (0..Accounts) \cup {"listener"} \X Account \X {0}
State    == {"none", "serving", "dying"}
Gateway  == [st : State, of : 0..Accounts]
TestRun  == [st : State \cup {"doomed", "failed"}, port : 0..Accounts]

TypeOK ==
  /\ enabled \in BOOLEAN /\ changes \in Nat
  /\ loggedIn \subseteq Account
  /\ requests \subseteq 0..Accounts
  /\ job \in [Job -> [pc : Pc, kind : {"cron", "restart", "enable", "disable", "logout"},
                      arg : 0..Accounts, n : Account, what : {"gateway", "listener", "bot"},
                      seen : BOOLEAN]]
  /\ file \in [Account -> 0..Accounts]
  /\ script \in [Job -> 0..Accounts] /\ shell \in [Job -> Job] /\ pending \subseteq Job
  /\ test \in [Job -> TestRun]
  /\ gateway \in [Account -> Gateway]
  /\ listener \in [Account -> State]
  /\ doomed \subseteq Titles
  /\ bots \in [serving : BOOLEAN, dying : BOOLEAN]

NoFile    == 0
NoGateway == [st |-> "none", of |-> NoFile]
NoTest    == [st |-> "none", port |-> 0]
NoJob     == [pc |-> "off", kind |-> "cron", arg |-> 0, n |-> 1, what |-> "gateway", seen |-> FALSE]

Init ==
  /\ enabled = TRUE /\ changes = 0 /\ loggedIn \in Initially
  /\ requests = {} /\ job = [j \in Job |-> NoJob]
  /\ file = [a \in Account |-> IF a \in loggedIn THEN a ELSE NoFile]
  /\ script = [j \in Job |-> 0] /\ shell = [j \in Job |-> j] /\ pending = {}
  /\ test = [j \in Job |-> NoTest] /\ gateway = [a \in Account |-> NoGateway]
  /\ listener = [a \in Account |-> "none"] /\ doomed = {}
  /\ bots = [serving |-> FALSE, dying |-> FALSE]

-----------------------------------------------------------------------------
At(j, pc) == job[j].pc = pc
Goto(j, pc) == job' = [job EXCEPT ![j].pc = pc]
End(j) == job' = [job EXCEPT ![j] = NoJob]

\* The account of this round of a loop over the accounts.
This(j) == job[j].n

\* Mutant: one round too many.
Mutant_OneMore(j, pc, after) ==
  job' = [job EXCEPT ![j] = IF This(j) <= Accounts THEN [@ EXCEPT !.n = This(j) + 1, !.pc = pc]
                                                   ELSE [@ EXCEPT !.n = 1, !.pc = after]]

\* The next round begins at pc, after the last one the job goes on at `after`.
NextRound(j, pc, after) ==
  job' = [job EXCEPT ![j] = IF This(j) < Accounts THEN [@ EXCEPT !.n = This(j) + 1, !.pc = pc]
                                                  ELSE [@ EXCEPT !.n = 1, !.pc = after]]

(***************************************************************************)
(* The processes, by title, and who has the lock of a gateway's database   *)
(* and the SIP port.                                                       *)
(***************************************************************************)
TestOf(j, a) == This(j) = a /\ test[j].st # "none"

Doomed(what, a) == {d \in doomed : d[1] = what /\ d[2] = a}

GatewayTitle(a) ==
  \/ gateway[a].st # "none" \/ Doomed("gateway", a) # {}
  \/ \E j \in Job : TestOf(j, a)

ListenerTitle(a) == listener[a] # "none" \/ Doomed("listener", a) # {}

BotTitle == bots.serving \/ bots.dying

Locked(a) ==
  \/ gateway[a].st # "none"
  \/ \E j \in Job : This(j) = a /\ (At(j, "probed") \/ test[j].st \in {"serving", "dying"})

\* 30000 and the id of the account whose record made the file; a file that is gone has none.
Port(a) == file[a]

PortTaken(p) ==
  /\ p # 0
  /\ \/ \E a \in Account : gateway[a].st # "none" /\ gateway[a].of = p
     \/ \E j \in Job : test[j].st \notin {"none", "failed"} /\ test[j].port = p
     \/ \E d \in doomed : d[3] = p

\* What becomes of a tg2sip started in the directory of a, which binds its port and then
\* opens the database.
Fate(a, locked) ==
  CASE PortTaken(Port(a))                                   -> "failed"
    [] ~PortTaken(Port(a)) /\ (locked \/ a \notin loggedIn) -> "doomed"
    [] ~PortTaken(Port(a)) /\ ~locked /\ a \in loggedIn     -> "serving"

Ended(st) == IF st = "serving" THEN "dying" ELSE st

\* SIGTERM to the gateways of A with their test runs, to the listeners of A, to the bots.
TermGateways(A) ==
  /\ gateway' = [a \in Account |-> IF a \in A THEN [gateway[a] EXCEPT !.st = Ended(@)] ELSE gateway[a]]
  /\ test' = [j \in Job |-> IF This(j) \in A THEN [test[j] EXCEPT !.st = Ended(@)] ELSE test[j]]
TermListeners(A) == listener' = [a \in Account |-> IF a \in A THEN Ended(listener[a]) ELSE listener[a]]
TermBots == bots' = [serving |-> FALSE, dying |-> BotTitle]

-----------------------------------------------------------------------------
(***************************************************************************)
(* What begins a job.                                                      *)
(***************************************************************************)
NewJob(j, x) == At(j, "off") /\ job' = [job EXCEPT ![j] = x]

\* The launcher of one minute has ended, and its shells have run, before the next one starts.
Cron ==
  /\ CronJob \notin pending
  /\ NewJob(CronJob, [NoJob EXCEPT !.pc = "begin"])
  /\ UNCHANGED <<admin, requests, files, procs>>

Restart(j) ==
  /\ \E id \in requests :
       /\ NewJob(j, [NoJob EXCEPT !.pc = "begin", !.kind = "restart", !.arg = id])
       /\ requests' = requests \ {id}
  /\ UNCHANGED <<admin, files, procs>>

Change == changes < MaxChanges /\ changes' = changes + 1

\* onAfterModuleEnable, onAfterModuleDisable
Enable(j) ==
  /\ Change /\ ~enabled /\ enabled' = TRUE
  /\ NewJob(j, [NoJob EXCEPT !.pc = "bot", !.kind = "enable"])
  /\ UNCHANGED <<loggedIn, requests, files, procs>>

Disable(j) ==
  /\ Change /\ enabled /\ enabled' = FALSE
  /\ NewJob(j, [NoJob EXCEPT !.pc = "stopSipTg", !.kind = "disable"])
  /\ UNCHANGED <<loggedIn, requests, files, procs>>

Logout(j) ==
  /\ Change
  /\ \E a \in loggedIn : NewJob(j, [NoJob EXCEPT !.pc = "kill", !.kind = "logout", !.arg = a])
  /\ UNCHANGED <<enabled, loggedIn, requests, files, procs>>

\* modelsEventChangeData: an account's record, or the port of the PBX (SIPPort), was changed.
\* The restart of SIPPort finds no process of that name and ends none but the bot.
EventChangeData(arg) ==
  /\ Change
  /\ requests' = requests \cup {arg}
  /\ UNCHANGED <<enabled, loggedIn, job, files, procs>>

\* A TelegramAuth object of the account alone makes its settings first.
StartLogin(a) ==
  /\ a \notin loggedIn
  /\ file' = [file EXCEPT ![a] = a]
  /\ UNCHANGED <<admin, requests, job, script, shell, pending, procs>>

\* The end of TelegramAuth.
Login(a) ==
  /\ Change /\ a \notin loggedIn /\ file[a] # NoFile
  /\ loggedIn' = loggedIn \cup {a}
  /\ requests' = requests \cup {a}
  /\ UNCHANGED <<enabled, job, files, procs>>

-----------------------------------------------------------------------------
(***************************************************************************)
(* sip2tg-launcher.php                                                     *)
(***************************************************************************)
\* Mutant: a restart does not ask whether the module is enabled.
Mutant_RestartAnyway(j) ==
  /\ At(j, "begin")
  /\ \/ job[j].kind = "restart" /\ Goto(j, "guard")
     \/ job[j].kind # "restart" /\ Goto(j, IF enabled THEN "file" ELSE "stopSipTg")
  /\ UNCHANGED <<admin, requests, files, procs>>

Begin(j) ==
  /\ At(j, "begin")
  /\ \/ ~enabled /\ Goto(j, "stopSipTg")
     \/ enabled /\ Goto(j, IF job[j].kind = "restart" THEN "guard" ELSE "file")
  /\ UNCHANGED <<admin, requests, files, procs>>

\* Mutant: the launcher leaves itself out of what it looks for.
Mutant_NotItself(j) ==
  \E k \in Job \ {j} : ~At(k, "off") /\ job[k].kind = "restart" /\ job[k].arg \in Guarded

\* The title looked for is `restart 1`, whatever the argument.
TurnedAway(j) ==
  \E k \in Job : /\ k = j => SeesItself
                 /\ ~At(k, "off") /\ job[k].kind = "restart" /\ job[k].arg \in Guarded

Guard(j) ==
  /\ At(j, "guard")
  /\ IF TurnedAway(j) THEN End(j) ELSE Goto(j, "kill")
  /\ UNCHANGED <<admin, requests, files, procs>>

\* killByTittle: the gateway, then the listener, and for a restart the bot.
KillGateway(j) ==
  /\ At(j, "kill") /\ job[j].what = "gateway"
  /\ job' = [job EXCEPT ![j].what = "listener"]
  /\ \/ /\ job[j].kind = "restart"
        /\ TermGateways({job[j].arg}) /\ UNCHANGED doomed
     \/ /\ job[j].kind = "logout"
        /\ gateway' = [gateway EXCEPT ![job[j].arg] = NoGateway]
        /\ test' = [k \in Job |-> IF TestOf(k, job[j].arg) THEN [NoTest EXCEPT !.st = "failed"]
                                                          ELSE test[k]]
        /\ doomed' = doomed \ Doomed("gateway", job[j].arg)
  /\ UNCHANGED <<admin, requests, files, listener, bots>>

KillListener(j) ==
  /\ At(j, "kill") /\ job[j].what = "listener"
  /\ \/ /\ job[j].kind = "restart"
        /\ TermListeners({job[j].arg}) /\ UNCHANGED doomed
        /\ job' = [job EXCEPT ![j].what = "bot"]
     \/ /\ job[j].kind = "logout"
        /\ listener' = [listener EXCEPT ![job[j].arg] = "none"]
        /\ doomed' = doomed \ Doomed("listener", job[j].arg)
        /\ Goto(j, "remove")
  /\ UNCHANGED <<admin, requests, files, test, gateway, bots>>

KillBot(j) ==
  /\ At(j, "kill") /\ job[j].what = "bot"
  /\ TermBots
  /\ Goto(j, "file")
  /\ UNCHANGED <<admin, requests, files, test, gateway, listener, doomed>>

\* logout: the directories are removed, with the databases and the settings in them.
Remove(j) ==
  /\ At(j, "remove")
  /\ loggedIn' = loggedIn \ {job[j].arg}
  /\ file' = [file EXCEPT ![job[j].arg] = NoFile]
  /\ End(j)
  /\ UNCHANGED <<enabled, changes, requests, script, shell, pending, procs>>

-----------------------------------------------------------------------------
(***************************************************************************)
(* startSipTg                                                              *)
(***************************************************************************)
NextGateway(j) == NextRound(j, "file", "destroy")

\* makeSettingsFile takes the record of its `login`, which stays the first account's.
MakeSettingsFile(j) ==
  /\ At(j, "file")
  /\ file' = [file EXCEPT ![This(j)] = 1]
  /\ Goto(j, "look")
  /\ UNCHANGED <<admin, requests, script, shell, pending, procs>>

LookForGateway(j) ==
  /\ At(j, "look")
  /\ IF GatewayTitle(This(j)) THEN NextGateway(j) ELSE Goto(j, "probe")
  /\ UNCHANGED <<admin, requests, files, procs>>

\* gen_db runs for two seconds: it is logged in if it can open the database.
Probe(j) ==
  /\ At(j, "probe")
  /\ IF Locked(This(j)) \/ This(j) \notin loggedIn THEN NextGateway(j) ELSE Goto(j, "probed")
  /\ UNCHANGED <<admin, requests, files, procs>>

\* mwNohup: the test run, once the probe has ended and left it the lock.
Test(j) ==
  /\ At(j, "probed")
  /\ test' = [test EXCEPT ![j] = [st |-> Fate(This(j), FALSE), port |-> Port(This(j))]]
  /\ Goto(j, "tested")
  /\ UNCHANGED <<admin, requests, files, gateway, listener, doomed, bots>>


\* It passes if SIGSYS has to end it after 3 s, also without a login.  One that ended
\* before has failed, as on a port that is bound (code 134), unless it was terminated and
\* left its loop.
Tested(j) ==
  /\ At(j, "tested")
  /\ \/ test[j].st # "failed" /\ Goto(j, "script")
     \/ test[j].st \in {"none", "dying", "failed"} /\ NextGateway(j)
  /\ test' = [test EXCEPT ![j] = NoTest]
  /\ UNCHANGED <<admin, requests, files, gateway, listener, doomed, bots>>

\* The script is named by the second: a job may overwrite that of another one.
Nohup(j) ==
  /\ At(j, "script") /\ j \notin pending
  /\ \E name \in {j} \cup {k \in Job : script[k] # 0} :
       /\ script' = [script EXCEPT ![name] = This(j)]
       /\ shell' = [shell EXCEPT ![j] = name]
  /\ pending' = pending \cup {j}
  /\ NextGateway(j)
  /\ UNCHANGED <<admin, requests, file, procs>>

\* sh runs the script, which removes itself and starts the gateway.
StartGateway(j) ==
  /\ j \in pending /\ pending' = pending \ {j}
  /\ script' = [script EXCEPT ![shell[j]] = 0]
  /\ shell' = [shell EXCEPT ![j] = j]
  /\ LET a == script[shell[j]] IN
       \/ a = 0 /\ UNCHANGED <<gateway, doomed>>
       \/ /\ a # 0 /\ Fate(a, Locked(a)) = "failed"
          /\ doomed' = doomed \cup {<<"gateway", a, 0>>} /\ UNCHANGED gateway
       \/ /\ a # 0 /\ Fate(a, Locked(a)) = "doomed"
          /\ doomed' = doomed \cup {<<"gateway", a, Port(a)>>} /\ UNCHANGED gateway
       \/ /\ a # 0 /\ Fate(a, Locked(a)) = "serving"
          /\ gateway' = [gateway EXCEPT ![a] = [st |-> "serving", of |-> file[a]]]
          /\ UNCHANGED doomed
  /\ UNCHANGED <<admin, requests, job, file, test, listener, bots>>

\* The TelegramAuth object, which has the id of the first account and no error, is
\* destroyed, and its destructor starts a launcher.
Destroy(j) ==
  /\ At(j, "destroy")
  /\ requests' = requests \cup {1}
  /\ IF job[j].kind = "enable" THEN End(j) ELSE Goto(j, "bot")
  /\ UNCHANGED <<admin, files, procs>>

-----------------------------------------------------------------------------
(***************************************************************************)
(* startTdKeyboard                                                         *)
(***************************************************************************)
NextListener(j) == NextRound(j, "listen", "startBot")

LookForBot(j) ==
  /\ At(j, "bot")
  /\ job' = [job EXCEPT ![j].seen = BotTitle, ![j].pc = "listen"]
  /\ UNCHANGED <<admin, requests, files, procs>>

LookForListener(j) ==
  /\ At(j, "listen")
  /\ IF ListenerTitle(This(j)) THEN NextListener(j) ELSE Goto(j, "listener")
  /\ UNCHANGED <<admin, requests, files, procs>>

\* A listener that is not logged in, or finds the database open, ends.
StartListener(j) ==
  /\ At(j, "listener")
  /\ \/ /\ listener[This(j)] = "none" /\ This(j) \in loggedIn
        /\ listener' = [listener EXCEPT ![This(j)] = "serving"] /\ UNCHANGED doomed
     \/ /\ listener[This(j)] # "none" \/ This(j) \notin loggedIn
        /\ doomed' = doomed \cup {<<"listener", This(j), 0>>} /\ UNCHANGED listener
  /\ NextListener(j)
  /\ UNCHANGED <<admin, requests, files, test, gateway, bots>>

\* What is started is decided by the look before the listeners.
StartBot(j) ==
  /\ At(j, "startBot")
  /\ bots' = [bots EXCEPT !.serving = @ \/ ~job[j].seen]
  /\ IF job[j].kind = "enable" THEN Goto(j, "file") ELSE End(j)
  /\ UNCHANGED <<admin, requests, files, test, gateway, listener, doomed>>

-----------------------------------------------------------------------------
StopSipTg(j) ==
  /\ At(j, "stopSipTg")
  /\ TermGateways(Account)
  /\ Goto(j, "stopTdKeyboard")
  /\ UNCHANGED <<admin, requests, files, listener, doomed, bots>>

\* Mutant: the bot is left.
Mutant_BotLeft(j) ==
  /\ At(j, "stopTdKeyboard")
  /\ TermListeners(Account)
  /\ End(j)
  /\ UNCHANGED <<admin, requests, files, test, gateway, doomed, bots>>

StopTdKeyboard(j) ==
  /\ At(j, "stopTdKeyboard")
  /\ TermListeners(Account) /\ TermBots
  /\ End(j)
  /\ UNCHANGED <<admin, requests, files, test, gateway, doomed>>

JobStep(j) ==
  \/ Begin(j) \/ Guard(j) \/ KillGateway(j) \/ KillListener(j) \/ KillBot(j) \/ Remove(j)
  \/ MakeSettingsFile(j) \/ LookForGateway(j) \/ Probe(j) \/ Test(j) \/ Tested(j) \/ Nohup(j)
  \/ Destroy(j) \/ LookForBot(j) \/ LookForListener(j) \/ StartListener(j) \/ StartBot(j)
  \/ StopSipTg(j) \/ StopTdKeyboard(j)

-----------------------------------------------------------------------------
(***************************************************************************)
(* The processes (external).                                               *)
(***************************************************************************)
GatewayExits(a) ==
  /\ gateway[a].st = "dying"
  /\ gateway' = [gateway EXCEPT ![a] = NoGateway]
  /\ UNCHANGED <<admin, requests, job, files, test, listener, doomed, bots>>

\* A gateway that serves may abort.
GatewayAborts(a) ==
  /\ gateway[a].st = "serving"
  /\ gateway' = [gateway EXCEPT ![a] = NoGateway]
  /\ UNCHANGED <<admin, requests, job, files, test, listener, doomed, bots>>

TestExits(j) ==
  /\ test[j].st = "dying"
  /\ test' = [test EXCEPT ![j] = NoTest]
  /\ UNCHANGED <<admin, requests, job, files, gateway, listener, doomed, bots>>

ListenerExits(a) ==
  /\ listener[a] = "dying"
  /\ listener' = [listener EXCEPT ![a] = "none"]
  /\ UNCHANGED <<admin, requests, job, files, test, gateway, doomed, bots>>

DoomedExits(d) ==
  /\ d \in doomed
  /\ doomed' = doomed \ {d}
  /\ UNCHANGED <<admin, requests, job, files, test, gateway, listener, bots>>

BotsExit ==
  /\ bots.dying
  /\ bots' = [bots EXCEPT !.dying = FALSE]
  /\ UNCHANGED <<admin, requests, job, files, test, gateway, listener, doomed>>

Administrator ==
  \/ \E j \in OtherJob : Enable(j) \/ Disable(j) \/ Logout(j)
  \/ \E arg \in Records : EventChangeData(arg)
  \/ \E a \in Account : StartLogin(a) \/ Login(a)

Next ==
  \/ Cron
  \/ \E j \in OtherJob : Restart(j)
  \/ \E j \in Job : JobStep(j) \/ StartGateway(j) \/ TestExits(j)
  \/ \E a \in Account : GatewayExits(a) \/ GatewayAborts(a) \/ ListenerExits(a)
  \/ \E d \in Titles : DoomedExits(d)
  \/ BotsExit
  \/ Administrator

Spec == Init /\ [][Next]_vars

GatewayEnds(a)  == GatewayExits(a) \/ \E d \in Doomed("gateway", a) : DoomedExits(d)
ListenerEnds(a) == ListenerExits(a) \/ \E d \in Doomed("listener", a) : DoomedExits(d)

\* Every job runs on, itself or its shell, cron starts a launcher again and again, and a gateway that was
\* told to end or got no lock does.  Nothing is assumed of the administrator, and a restart
\* in the background may never begin.
GatewayFair ==
  /\ Spec
  /\ WF_vars(Cron)
  /\ \A j \in Job : WF_vars(JobStep(j) \/ StartGateway(j))
  /\ \A a \in Account : WF_vars(GatewayEnds(a))

\* Restarts begin, and listeners and bots end, too.
FairSpec ==
  /\ GatewayFair
  /\ WF_vars(\E j \in OtherJob : Restart(j))
  /\ \A a \in Account : WF_vars(ListenerEnds(a))
  /\ WF_vars(BotsExit)

-----------------------------------------------------------------------------
(***************************************************************************)
(* Properties.                                                             *)
(***************************************************************************)


\* Once the module stays disabled nothing serves any more, also not what a launcher
\* that was under way started later: the next launcher of cron stops it.
DisabledStops ==
  <>[]~enabled => <>[](/\ \A a \in Account : gateway[a].st = "none" /\ listener[a] = "none"
                       /\ ~BotTitle)

\* Claimed by the page, which gives `127.0.0.1:` and 30000 with the id of a row as its
\* gateway's address (module-telegram-provider-index.js:292): a gateway serves with its
\* account's settings.  All files are made of the first account's record.
OwnSettings ==
  \A a \in Account : gateway[a].st = "serving" => gateway[a].of = a

\* No job is under way that starts something, and no shell.
Quiet ==
  /\ ~enabled /\ pending = {}
  /\ \A j \in Job : \/ job[j].pc \in {"off", "begin", "stopSipTg", "stopTdKeyboard", "remove"}
                    \/ At(j, "kill") /\ job[j].kind = "logout" /\ job[j].what # "bot"

\* Nothing serves that did not before, and no process is there that was not.
StartsNothing ==
  /\ \A a \in Account : /\ gateway[a].st = "none" => gateway'[a].st = "none"
                       /\ listener[a] = "none" => listener'[a] = "none"
  /\ \A j \in Job : test[j].st = "none" => test'[j].st = "none"
  /\ doomed' \subseteq doomed
  /\ bots'.serving => bots.serving

\* Once the jobs that found the module enabled are over, a disabled module starts nothing:
\* no restart that comes late, no cron and no logout, and so until it is enabled.
StaysStopped == [][Quiet /\ ~enabled' => Quiet' /\ StartsNothing]_vars

\* The launcher that each startSipTg starts through its TelegramAuth object is turned
\* away: the restarts do not go on for ever.
KillsEnd == <>[](\A j \in Job : ~At(j, "kill"))
=============================================================================
