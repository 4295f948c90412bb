--------------------------- MODULE LauncherProofs ---------------------------
(***************************************************************************)
(* Theorems about the supervision of the processes, for every number of    *)
(* accounts and jobs and whatever the administrator does.                  *)
(***************************************************************************)
EXTENDS Launcher, TLAPS

\* What a job is.
JobState == [pc : Pc, kind : {"cron", "restart", "enable", "disable", "logout"},
             arg : 0..Accounts, n : Account, what : {"gateway", "listener", "bot"},
             seen : BOOLEAN]

\* The type of each group of variables.
AdminOK ==
  /\ enabled \in BOOLEAN /\ changes \in Nat
  /\ loggedIn \subseteq Account
RequestsOK == requests \subseteq 0..Accounts
JobsOK     == job \in [Job -> JobState]
FilesOK ==
  /\ file \in [Account -> 0..Accounts]
  /\ script \in [Job -> 0..Accounts] /\ shell \in [Job -> Job] /\ pending \subseteq Job
GatewaysOK ==
  /\ test \in [Job -> TestRun]
  /\ gateway \in [Account -> Gateway]
OthersOK ==
  /\ listener \in [Account -> State]
  /\ doomed \subseteq Titles
  /\ bots \in [serving : BOOLEAN, dying : BOOLEAN]

\* The type invariant taken apart, so that a lemma can speak of one group of variables.
LEMMA TypeParts ==
  /\ TypeOK <=> AdminOK /\ RequestsOK /\ JobsOK /\ FilesOK /\ GatewaysOK /\ OthersOK
  /\ TypeOK' <=> AdminOK' /\ RequestsOK' /\ JobsOK' /\ FilesOK' /\ GatewaysOK' /\ OthersOK'
BY DEF TypeOK, AdminOK, RequestsOK, JobsOK, FilesOK, GatewaysOK, OthersOK, JobState

\* A step that leaves a group of variables alone leaves its type alone.
LEMMA Untouched ==
  /\ AdminOK /\ UNCHANGED admin => AdminOK'
  /\ RequestsOK /\ UNCHANGED requests => RequestsOK'
  /\ JobsOK /\ UNCHANGED job => JobsOK'
  /\ FilesOK /\ UNCHANGED files => FilesOK'
  /\ GatewaysOK /\ UNCHANGED <<test, gateway>> => GatewaysOK'
  /\ OthersOK /\ UNCHANGED <<listener, doomed, bots>> => OthersOK'
BY DEF AdminOK, RequestsOK, JobsOK, FilesOK, GatewaysOK, OthersOK, admin, files

\* There is an account, and 0 names none.
LEMMA AccountNumbers ==
  /\ Accounts \in Nat /\ 1 \in Account /\ 1 \in 0..Accounts /\ 0 \in 0..Accounts
  /\ \A a \in Account : a \in 0..Accounts
  /\ \A a \in 0..Accounts : a # 0 => a \in Account
  /\ \A a \in Account : a < Accounts => a + 1 \in Account
  /\ CronJob \in Job /\ OtherJob \subseteq Job
BY AccountsAssumption DEF Account, Job

-----------------------------------------------------------------------------
(* The jobs. *)

\* How a job's round, argument and kind are typed.
LEMMA JobFields ==
  ASSUME JobsOK, NEW j \in Job
  PROVE  job[j] \in JobState /\ This(j) \in Account /\ job[j].arg \in 0..Accounts
BY DEF JobsOK, JobState, This

\* A job that goes on at another place.
LEMMA GotoType ==
  ASSUME JobsOK, NEW j \in Job, NEW pc \in Pc, Goto(j, pc)
  PROVE  JobsOK'
BY DEF JobsOK, JobState, Goto

\* No job is a job too.
LEMMA NoJobType == NoJob \in JobState
BY AccountNumbers DEF NoJob, JobState, Pc

\* The end of a job.
LEMMA EndType ==
  ASSUME JobsOK, NEW j \in Job, End(j)
  PROVE  JobsOK'
BY NoJobType DEF JobsOK, End

\* The next round stays within the table of the accounts.
LEMMA NextRoundType ==
  ASSUME JobsOK, NEW j \in Job, NEW pc \in Pc, NEW after \in Pc, NextRound(j, pc, after)
  PROVE  JobsOK'
<1>1. job[j] \in JobState /\ This(j) \in Account /\ 1 \in Account
  BY JobFields, AccountNumbers
<1>2. CASE This(j) < Accounts
  <2> DEFINE x == [job[j] EXCEPT !.n = This(j) + 1, !.pc = pc]
  <2>1. This(j) + 1 \in Account
    BY <1>1, <1>2, AccountNumbers
  <2>2. x \in JobState
    BY <1>1, <2>1 DEF JobState
  <2>3. job' = [job EXCEPT ![j] = x]
    BY <1>2 DEF NextRound
  <2> QED BY <2>2, <2>3 DEF JobsOK
<1>3. CASE ~(This(j) < Accounts)
  <2> DEFINE x == [job[j] EXCEPT !.n = 1, !.pc = after]
  <2>1. x \in JobState
    BY <1>1 DEF JobState
  <2>2. job' = [job EXCEPT ![j] = x]
    BY <1>3 DEF NextRound
  <2> QED BY <2>1, <2>2 DEF JobsOK
<1> QED BY <1>2, <1>3

\* A job that begins.
LEMMA NewJobType ==
  ASSUME JobsOK, NEW j \in Job, NEW x \in JobState, NewJob(j, x)
  PROVE  JobsOK'
BY DEF JobsOK, NewJob

\* The jobs that are begun.
LEMMA FirstSteps ==
  /\ [NoJob EXCEPT !.pc = "begin"] \in JobState
  /\ \A id \in 0..Accounts :
       [NoJob EXCEPT !.pc = "begin", !.kind = "restart", !.arg = id] \in JobState
  /\ [NoJob EXCEPT !.pc = "bot", !.kind = "enable"] \in JobState
  /\ [NoJob EXCEPT !.pc = "stopSipTg", !.kind = "disable"] \in JobState
  /\ \A a \in Account : [NoJob EXCEPT !.pc = "kill", !.kind = "logout", !.arg = a] \in JobState
BY NoJobType, AccountNumbers DEF JobState, Pc

-----------------------------------------------------------------------------
(* The processes. *)

\* What is terminated is none, serving or dying still.
LEMMA EndedType == /\ \A st \in State : Ended(st) \in State
                   /\ \A x \in TestRun : [x EXCEPT !.st = Ended(@)] \in TestRun
BY DEF Ended, State, TestRun

\* So are the gateways and test runs that are terminated.
LEMMA TermGatewaysType ==
  ASSUME GatewaysOK, NEW A, TermGateways(A)
  PROVE  GatewaysOK'
<1>1. gateway' \in [Account -> Gateway]
  <2>1. ASSUME NEW a \in Account
        PROVE  [gateway[a] EXCEPT !.st = Ended(@)] \in Gateway
    BY EndedType DEF GatewaysOK, Gateway
  <2> QED BY <2>1 DEF TermGateways, GatewaysOK
<1>2. test' \in [Job -> TestRun]
  <2>1. ASSUME NEW j \in Job
        PROVE  [test[j] EXCEPT !.st = Ended(@)] \in TestRun
    BY EndedType DEF GatewaysOK
  <2> QED BY <2>1 DEF TermGateways, GatewaysOK
<1> QED BY <1>1, <1>2 DEF GatewaysOK

\* The listeners that are terminated.
LEMMA TermListenersType ==
  ASSUME OthersOK, NEW A, TermListeners(A)
  PROVE  listener' \in [Account -> State]
BY EndedType DEF TermListeners, OthersOK

\* And the bots.
LEMMA TermBotsType ==
  ASSUME OthersOK, TermBots
  PROVE  bots' \in [serving : BOOLEAN, dying : BOOLEAN]
BY DEF TermBots, BotTitle, OthersOK

\* No gateway and no test run are of the type, and one that is started is.
LEMMA ProcessTypes ==
  /\ NoFile \in 0..Accounts /\ NoGateway \in Gateway
  /\ NoTest \in TestRun /\ [NoTest EXCEPT !.st = "failed"] \in TestRun
  /\ \A a : \A locked : Fate(a, locked) \in State \cup {"doomed", "failed"}
BY AccountNumbers DEF NoFile, NoGateway, Gateway, NoTest, TestRun, State, Fate

-----------------------------------------------------------------------------
(* Type correctness. *)

\* Before the first step every variable is of its type.
LEMMA TypeInit == Init => TypeOK
<1> SUFFICES ASSUME Init PROVE TypeOK
  OBVIOUS
<1>1. AdminOK /\ RequestsOK
  BY BoundAssumption DEF Init, AdminOK, RequestsOK, Account
<1>2. JobsOK
  BY NoJobType DEF Init, JobsOK
<1>3. FilesOK
  BY ProcessTypes, AccountNumbers DEF Init, FilesOK
<1>4. GatewaysOK /\ OthersOK
  BY ProcessTypes DEF Init, GatewaysOK, OthersOK, State
<1> QED BY <1>1, <1>2, <1>3, <1>4, TypeParts

\* Cron, the administrator and the commands that begin a job.
LEMMA BeginningType ==
  ASSUME TypeOK, Cron \/ (\E j \in OtherJob : Restart(j)) \/ Administrator
  PROVE  TypeOK'
<1> USE TypeParts, Untouched
<1>1. CASE Cron
  BY <1>1, NewJobType, FirstSteps, AccountNumbers DEF Cron, procs
<1>2. ASSUME NEW j \in OtherJob, Restart(j) PROVE TypeOK'
  <2>1. PICK id \in requests :
          /\ NewJob(j, [NoJob EXCEPT !.pc = "begin", !.kind = "restart", !.arg = id])
          /\ requests' = requests \ {id}
    BY <1>2 DEF Restart
  <2>2. JobsOK'
    <3> DEFINE x == [NoJob EXCEPT !.pc = "begin", !.kind = "restart", !.arg = id]
    <3>1. x \in JobState
      BY <2>1, FirstSteps DEF RequestsOK
    <3> HIDE DEF x
    <3> QED BY <2>1, <3>1, NewJobType, AccountNumbers DEF x
  <2>3. RequestsOK'
    BY <2>1 DEF RequestsOK
  <2> QED BY <1>2, <2>2, <2>3 DEF Restart, procs
<1>3. ASSUME NEW j \in OtherJob, Enable(j) PROVE TypeOK'
  <2>1. JobsOK'
    BY <1>3, NewJobType, FirstSteps, AccountNumbers DEF Enable
  <2>2. AdminOK'
    BY <1>3 DEF Enable, Change, AdminOK
  <2> QED BY <1>3, <2>1, <2>2 DEF Enable, procs
<1>4. ASSUME NEW j \in OtherJob, Disable(j) PROVE TypeOK'
  <2>1. JobsOK'
    BY <1>4, NewJobType, FirstSteps, AccountNumbers DEF Disable
  <2>2. AdminOK'
    <3>1. enabled' = FALSE /\ loggedIn' = loggedIn
      BY <1>4 DEF Disable
    <3>2. changes' \in Nat
      BY <1>4 DEF Disable, Change, AdminOK
    <3> QED BY <3>1, <3>2 DEF AdminOK
  <2> QED BY <1>4, <2>1, <2>2 DEF Disable, procs
<1>5. ASSUME NEW j \in OtherJob, Logout(j) PROVE TypeOK'
  <2>1. PICK a \in loggedIn : NewJob(j, [NoJob EXCEPT !.pc = "kill", !.kind = "logout", !.arg = a])
    BY <1>5 DEF Logout
  <2>2. JobsOK'
    <3> DEFINE x == [NoJob EXCEPT !.pc = "kill", !.kind = "logout", !.arg = a]
    <3>1. x \in JobState
      BY <2>1, FirstSteps DEF AdminOK
    <3> HIDE DEF x
    <3> QED BY <2>1, <3>1, NewJobType, AccountNumbers DEF x
  <2>3. AdminOK'
    BY <1>5 DEF Logout, Change, AdminOK
  <2> QED BY <1>5, <2>2, <2>3 DEF Logout, procs
<1>6. ASSUME NEW arg \in Records, EventChangeData(arg) PROVE TypeOK'
  <2>1. AdminOK' /\ RequestsOK'
    BY <1>6, BoundAssumption, AccountsAssumption
    DEF EventChangeData, Change, AdminOK, RequestsOK, SIPPort, Account
  <2> QED BY <1>6, <2>1 DEF EventChangeData, procs
<1>7. ASSUME NEW a \in Account, StartLogin(a) PROVE TypeOK'
  <2>1. FilesOK'
    BY <1>7, AccountNumbers DEF StartLogin, FilesOK
  <2> QED BY <1>7, <2>1 DEF StartLogin, procs
<1>8. ASSUME NEW a \in Account, Login(a) PROVE TypeOK'
  <2>1. AdminOK' /\ RequestsOK'
    BY <1>8, AccountNumbers DEF Login, Change, AdminOK, RequestsOK
  <2> QED BY <1>8, <2>1 DEF Login, procs
<1> QED BY <1>1, <1>2, <1>3, <1>4, <1>5, <1>6, <1>7, <1>8 DEF Administrator

\* The launcher up to its loops: what it ends, and what a logout removes.
LEMMA KillType ==
  ASSUME TypeOK, NEW j \in Job, Begin(j) \/ Guard(j) \/ KillGateway(j) \/ KillListener(j) \/
       KillBot(j) \/ Remove(j) \/ StopSipTg(j) \/ StopTdKeyboard(j)
  PROVE  TypeOK'
<1> USE TypeParts, Untouched
<1>1. CASE Begin(j)
  <2>1. PICK pc \in {"stopSipTg", "guard", "file"} : Goto(j, pc)
    BY <1>1 DEF Begin
  <2>2. JobsOK'
    BY <2>1, GotoType DEF Pc
  <2> QED BY <1>1, <2>2 DEF Begin, procs
<1>2. CASE Guard(j)
  <2>1. JobsOK'
    BY <1>2, EndType, GotoType DEF Guard, Pc
  <2> QED BY <1>2, <2>1 DEF Guard, procs
<1>3. CASE KillGateway(j)
  <2>1. JobsOK'
    BY <1>3 DEF KillGateway, JobsOK, JobState
  <2>2. GatewaysOK'
    <3>1. CASE TermGateways({job[j].arg})
      BY <3>1, TermGatewaysType
    <3>2. CASE /\ gateway' = [gateway EXCEPT ![job[j].arg] = NoGateway]
               /\ test' = [k \in Job |-> IF TestOf(k, job[j].arg) THEN [NoTest EXCEPT !.st = "failed"]
                                                                ELSE test[k]]
      BY <3>2, ProcessTypes DEF GatewaysOK
    <3> QED BY <1>3, <3>1, <3>2 DEF KillGateway
  <2>3. OthersOK'
    BY <1>3 DEF KillGateway, OthersOK
  <2> QED BY <1>3, <2>1, <2>2, <2>3 DEF KillGateway, files
<1>4. CASE KillListener(j)
  <2>1. JobsOK'
    <3>1. CASE job' = [job EXCEPT ![j].what = "bot"]
      BY <3>1 DEF JobsOK, JobState
    <3>2. CASE Goto(j, "remove")
      BY <3>2, GotoType DEF Pc
    <3> QED BY <1>4, <3>1, <3>2 DEF KillListener
  <2>2. listener' \in [Account -> State]
    BY <1>4, TermListenersType DEF KillListener, OthersOK, State
  <2>3. OthersOK'
    BY <1>4, <2>2 DEF KillListener, OthersOK
  <2> QED BY <1>4, <2>1, <2>3 DEF KillListener, files
<1>5. CASE KillBot(j)
  <2>1. JobsOK'
    BY <1>5, GotoType DEF KillBot, Pc
  <2>2. OthersOK'
    BY <1>5, TermBotsType DEF KillBot, OthersOK
  <2> QED BY <1>5, <2>1, <2>2 DEF KillBot, files
<1>6. CASE Remove(j)
  <2>1. JobsOK'
    BY <1>6, EndType DEF Remove
  <2>2. AdminOK'
    BY <1>6 DEF Remove, AdminOK
  <2>3. FilesOK'
    BY <1>6, ProcessTypes DEF Remove, FilesOK
  <2> QED BY <1>6, <2>1, <2>2, <2>3 DEF Remove, procs
<1>7. CASE StopSipTg(j)
  <2>1. JobsOK'
    BY <1>7, GotoType DEF StopSipTg, Pc
  <2>2. GatewaysOK'
    BY <1>7, TermGatewaysType DEF StopSipTg
  <2> QED BY <1>7, <2>1, <2>2 DEF StopSipTg, files
<1>8. CASE StopTdKeyboard(j)
  <2>1. JobsOK'
    BY <1>8, EndType DEF StopTdKeyboard
  <2>2. OthersOK'
    BY <1>8, TermListenersType, TermBotsType DEF StopTdKeyboard, OthersOK
  <2> QED BY <1>8, <2>1, <2>2 DEF StopTdKeyboard, files
<1> QED BY <1>1, <1>2, <1>3, <1>4, <1>5, <1>6, <1>7, <1>8

\* startSipTg.
LEMMA StartSipTgType ==
  ASSUME TypeOK, NEW j \in Job, MakeSettingsFile(j) \/ LookForGateway(j) \/ Probe(j) \/
       Test(j) \/ Tested(j) \/ Nohup(j) \/ Destroy(j)
  PROVE  TypeOK'
<1> USE TypeParts, Untouched
<1>0. NextGateway(j) => JobsOK'
  BY NextRoundType DEF NextGateway, Pc
<1>1. CASE MakeSettingsFile(j)
  <2>1. JobsOK'
    BY <1>1, GotoType DEF MakeSettingsFile, Pc
  <2>2. FilesOK'
    BY <1>1, ProcessTypes, AccountNumbers DEF MakeSettingsFile, FilesOK, AdminOK
  <2> QED BY <1>1, <2>1, <2>2 DEF MakeSettingsFile, procs
<1>2. CASE LookForGateway(j)
  <2>1. JobsOK'
    BY <1>0, <1>2, GotoType DEF LookForGateway, Pc
  <2> QED BY <1>2, <2>1 DEF LookForGateway, procs
<1>3. CASE Probe(j)
  <2>1. JobsOK'
    BY <1>0, <1>3, GotoType DEF Probe, Pc
  <2> QED BY <1>3, <2>1 DEF Probe, procs
<1>4. CASE Test(j)
  <2>1. JobsOK'
    BY <1>4, GotoType DEF Test, Pc
  <2>2. GatewaysOK'
    <3> DEFINE x == [st |-> Fate(This(j), FALSE), port |-> Port(This(j))]
    <3>1. Port(This(j)) \in 0..Accounts
      BY JobFields DEF Port, FilesOK
    <3>2. x \in TestRun
      BY <3>1, ProcessTypes DEF TestRun
    <3>3. test' = [test EXCEPT ![j] = x] /\ gateway' = gateway
      BY <1>4 DEF Test
    <3> HIDE DEF x
    <3> QED BY <3>2, <3>3 DEF GatewaysOK
  <2> QED BY <1>4, <2>1, <2>2 DEF Test
<1>5. CASE Tested(j)
  <2>1. JobsOK'
    BY <1>0, <1>5, GotoType DEF Tested, Pc
  <2>2. GatewaysOK'
    BY <1>5, ProcessTypes DEF Tested, GatewaysOK
  <2> QED BY <1>5, <2>1, <2>2 DEF Tested
<1>6. CASE Nohup(j)
  <2>1. JobsOK'
    BY <1>0, <1>6 DEF Nohup
  <2>2. PICK name \in Job : /\ script' = [script EXCEPT ![name] = This(j)]
                            /\ shell' = [shell EXCEPT ![j] = name]
    BY <1>6 DEF Nohup
  <2>3. FilesOK'
    BY <1>6, <2>2, JobFields, AccountNumbers DEF Nohup, FilesOK
  <2> QED BY <1>6, <2>1, <2>3 DEF Nohup, procs
<1>7. CASE Destroy(j)
  <2>1. JobsOK'
    BY <1>7, EndType, GotoType DEF Destroy, Pc
  <2>2. RequestsOK'
    BY <1>7, AccountNumbers DEF Destroy, RequestsOK
  <2> QED BY <1>7, <2>1, <2>2 DEF Destroy, procs
<1> QED BY <1>1, <1>2, <1>3, <1>4, <1>5, <1>6, <1>7

\* The look for the bot leaves a job a job.
LEMMA LookedType ==
  ASSUME NEW x \in JobState, NEW seen \in BOOLEAN
  PROVE  [x EXCEPT !.seen = seen, !.pc = "listen"] \in JobState
BY DEF JobState, Pc

\* startTdKeyboard.
LEMMA StartTdKeyboardType ==
  ASSUME TypeOK, NEW j \in Job,
         LookForBot(j) \/ LookForListener(j) \/ StartListener(j) \/ StartBot(j)
  PROVE  TypeOK'
<1> USE TypeParts, Untouched
<1>0. NextListener(j) => JobsOK'
  BY NextRoundType DEF NextListener, Pc
<1>1. CASE LookForBot(j)
  <2>1. PICK seen \in BOOLEAN : job' = [job EXCEPT ![j].seen = seen, ![j].pc = "listen"]
    BY <1>1 DEF LookForBot, BotTitle, OthersOK
  <2>2. [job[j] EXCEPT !.seen = seen, !.pc = "listen"] \in JobState
    BY LookedType DEF JobsOK
  <2>3. job' = [job EXCEPT ![j] = [job[j] EXCEPT !.seen = seen, !.pc = "listen"]]
    BY <2>1 DEF JobsOK
  <2>4. JobsOK'
    BY <2>2, <2>3 DEF JobsOK
  <2> QED BY <1>1, <2>4 DEF LookForBot, procs
<1>2. CASE LookForListener(j)
  <2>1. JobsOK'
    BY <1>0, <1>2, GotoType DEF LookForListener, Pc
  <2> QED BY <1>2, <2>1 DEF LookForListener, procs
<1>3. CASE StartListener(j)
  <2>1. JobsOK'
    BY <1>0, <1>3 DEF StartListener
  <2>2. OthersOK'
    BY <1>3, JobFields, AccountNumbers DEF StartListener, OthersOK, State, Titles
  <2> QED BY <1>3, <2>1, <2>2 DEF StartListener, files
<1>4. CASE StartBot(j)
  <2>1. JobsOK'
    BY <1>4, EndType, GotoType DEF StartBot, Pc
  <2>2. OthersOK'
    BY <1>4, JobFields DEF StartBot, OthersOK, JobState
  <2> QED BY <1>4, <2>1, <2>2 DEF StartBot, files
<1> QED BY <1>1, <1>2, <1>3, <1>4

\* The shells and the processes.
LEMMA ProcessType ==
  ASSUME TypeOK,
         \/ \E j \in Job : StartGateway(j) \/ TestExits(j)
         \/ \E a \in Account : GatewayExits(a) \/ GatewayAborts(a) \/ ListenerExits(a)
         \/ \E d \in Titles : DoomedExits(d)
         \/ BotsExit
  PROVE  TypeOK'
<1> USE TypeParts, Untouched
<1>1. ASSUME NEW j \in Job, StartGateway(j) PROVE TypeOK'
  <2> DEFINE a == script[shell[j]]
  <2>1. shell[j] \in Job /\ a \in 0..Accounts
    BY DEF FilesOK
  <2>2. FilesOK'
    BY <1>1, <2>1, AccountNumbers DEF StartGateway, FilesOK
  <2>3. \/ UNCHANGED <<gateway, doomed>>
        \/ /\ a # 0 /\ UNCHANGED gateway
           /\ \E p \in {0, file[a]} : doomed' = doomed \cup {<<"gateway", a, p>>}
        \/ /\ a # 0
           /\ gateway' = [gateway EXCEPT ![a] = [st |-> "serving", of |-> file[a]]]
           /\ UNCHANGED doomed
    BY <1>1 DEF StartGateway, Port
  <2>4. a # 0 => a \in Account /\ file[a] \in 0..Accounts
    BY <2>1, AccountNumbers DEF FilesOK
  <2> HIDE DEF a
  <2>5. test' = test /\ listener' = listener /\ bots' = bots
    BY <1>1 DEF StartGateway
  <2>6. GatewaysOK'
    BY <2>3, <2>4, <2>5 DEF GatewaysOK, Gateway, State
  <2>7. OthersOK'
    BY <2>3, <2>4, <2>5, AccountNumbers DEF OthersOK, Titles
  <2> QED BY <1>1, <2>2, <2>6, <2>7 DEF StartGateway
<1>2. ASSUME NEW j \in Job, TestExits(j) PROVE TypeOK'
  <2>1. GatewaysOK'
    BY <1>2, ProcessTypes DEF TestExits, GatewaysOK
  <2> QED BY <1>2, <2>1 DEF TestExits
<1>3. ASSUME NEW a \in Account, GatewayExits(a) \/ GatewayAborts(a) PROVE TypeOK'
  <2>1. GatewaysOK'
    BY <1>3, ProcessTypes DEF GatewayExits, GatewayAborts, GatewaysOK
  <2> QED BY <1>3, <2>1 DEF GatewayExits, GatewayAborts
<1>4. ASSUME NEW a \in Account, ListenerExits(a) PROVE TypeOK'
  <2>1. OthersOK'
    BY <1>4 DEF ListenerExits, OthersOK, State
  <2> QED BY <1>4, <2>1 DEF ListenerExits
<1>5. ASSUME NEW d \in Titles, DoomedExits(d) PROVE TypeOK'
  <2>1. OthersOK'
    BY <1>5 DEF DoomedExits, OthersOK
  <2> QED BY <1>5, <2>1 DEF DoomedExits
<1>6. CASE BotsExit
  <2>1. OthersOK'
    BY <1>6 DEF BotsExit, OthersOK
  <2> QED BY <1>6, <2>1 DEF BotsExit
<1> QED BY <1>1, <1>2, <1>3, <1>4, <1>5, <1>6

\* Every step keeps the types.
LEMMA TypeNext == TypeOK /\ [Next]_vars => TypeOK'
<1> SUFFICES ASSUME TypeOK, [Next]_vars PROVE TypeOK'
  OBVIOUS
<1>1. CASE UNCHANGED vars
  BY <1>1, TypeParts, Untouched DEF vars, procs
<1>2. ASSUME NEW j \in Job, JobStep(j) PROVE TypeOK'
  BY <1>2, KillType, StartSipTgType, StartTdKeyboardType DEF JobStep
<1> QED BY <1>1, <1>2, BeginningType, ProcessType DEF Next

\* For any number of accounts and jobs that kill, start and overwrite each other's scripts:
\* every loop stays within the table of the accounts, and whatever a shell runs is the
\* gateway of an account.
THEOREM TypeCorrect == Spec => []TypeOK
BY TypeInit, TypeNext, PTL DEF Spec

-----------------------------------------------------------------------------
(***************************************************************************)
(* The argument for StaysStopped.  At each place where a job of a quiet,   *)
(* disabled module can be, its next step is to stop something, to remove   *)
(* an account or to end; a job that begins then is at such a place.        *)
(***************************************************************************)

\* A job that starts nothing while the module is disabled.
StopsOnly(x) == \/ x.pc \in {"off", "begin", "stopSipTg", "stopTdKeyboard", "remove"}
                \/ x.pc = "kill" /\ x.kind = "logout" /\ x.what # "bot"

\* A step that starts nothing and leaves the module as quiet as it was.
QuietStep == Quiet' /\ StartsNothing

\* Quiet, job by job.
LEMMA QuietJobs ==
  /\ Quiet <=> ~enabled /\ pending = {} /\ \A j \in Job : StopsOnly(job[j])
  /\ Quiet' <=> ~enabled' /\ pending' = {} /\ \A j \in Job : StopsOnly(job'[j])
BY DEF Quiet, StopsOnly, At

\* A job that goes to a place where it starts nothing leaves the module quiet.
LEMMA JobStaysQuiet ==
  ASSUME JobsOK, Quiet, ~enabled', pending' = pending, NEW j \in Job, NEW x, StopsOnly(x),
         job' = [job EXCEPT ![j] = x]
  PROVE  Quiet'
<1>1. \A k \in Job : job'[k] = IF k = j THEN x ELSE job[k]
  BY DEF JobsOK
<1> QED BY <1>1, QuietJobs

\* So does one that only moves on, or ends.
LEMMA MoveStaysQuiet ==
  ASSUME JobsOK, Quiet, ~enabled', pending' = pending, NEW j \in Job
  PROVE  /\ \A pc \in {"stopSipTg", "stopTdKeyboard", "remove"} : Goto(j, pc) => Quiet'
         /\ End(j) => Quiet'
         /\ UNCHANGED job => Quiet'
<1>1. ASSUME NEW pc \in {"stopSipTg", "stopTdKeyboard", "remove"}, Goto(j, pc) PROVE Quiet'
  <2> DEFINE x == [job[j] EXCEPT !.pc = pc]
  <2>1. StopsOnly(x)
    BY DEF StopsOnly, JobsOK, JobState
  <2>2. job' = [job EXCEPT ![j] = x]
    BY <1>1 DEF Goto
  <2> HIDE DEF x
  <2> QED BY <2>1, <2>2, JobStaysQuiet
<1>2. ASSUME End(j) PROVE Quiet'
  <2>1. StopsOnly(NoJob)
    BY DEF StopsOnly, NoJob
  <2> QED BY <1>2, <2>1, JobStaysQuiet DEF End
<1>3. ASSUME UNCHANGED job PROVE Quiet'
  BY <1>3, QuietJobs
<1> QED BY <1>1, <1>2, <1>3

\* Signals start nothing.
LEMMA SignalsEnd ==
  ASSUME TypeOK
  PROVE  /\ \A A : TermGateways(A) /\ UNCHANGED <<listener, doomed, bots>> => StartsNothing
         /\ \A A : TermListeners(A) /\ TermBots /\ UNCHANGED <<gateway, test, doomed>> => StartsNothing
<1> USE TypeParts
<1>1. ASSUME NEW A, TermGateways(A), UNCHANGED <<listener, doomed, bots>> PROVE StartsNothing
  <2>1. ASSUME NEW a \in Account, gateway[a].st = "none" PROVE gateway'[a].st = "none"
    BY <1>1, <2>1 DEF TermGateways, Ended, GatewaysOK, Gateway
  <2>2. ASSUME NEW j \in Job, test[j].st = "none" PROVE test'[j].st = "none"
    BY <1>1, <2>2 DEF TermGateways, Ended, GatewaysOK, TestRun
  <2> QED BY <1>1, <2>1, <2>2 DEF StartsNothing
<1>2. ASSUME NEW A, TermListeners(A), TermBots, UNCHANGED <<gateway, test, doomed>>
      PROVE  StartsNothing
  <2>1. ASSUME NEW a \in Account, listener[a] = "none" PROVE listener'[a] = "none"
    BY <1>2, <2>1 DEF TermListeners, Ended
  <2>2. bots'.serving = FALSE
    BY <1>2 DEF TermBots
  <2> QED BY <1>2, <2>1, <2>2 DEF StartsNothing
<1> QED BY <1>1, <1>2

\* The steps of the jobs of a quiet module.
LEMMA StepStaysQuiet ==
  ASSUME TypeOK, Quiet, ~enabled', NEW j \in Job, JobStep(j)
  PROVE  QuietStep
<1> USE TypeParts
<1>1. StopsOnly(job[j]) /\ ~enabled
  BY QuietJobs
<1>2. CASE Begin(j)
  <2>1. Goto(j, "stopSipTg") /\ UNCHANGED <<pending, procs>>
    BY <1>1, <1>2 DEF Begin, files
  <2> QED BY <2>1, MoveStaysQuiet DEF QuietStep, StartsNothing, procs
<1>3. CASE StopSipTg(j)
  <2>1. Goto(j, "stopTdKeyboard") /\ pending' = pending
    BY <1>3 DEF StopSipTg, files
  <2>2. StartsNothing
    BY <1>3, SignalsEnd DEF StopSipTg
  <2> QED BY <2>1, <2>2, MoveStaysQuiet DEF QuietStep
<1>4. CASE StopTdKeyboard(j)
  <2>1. End(j) /\ pending' = pending
    BY <1>4 DEF StopTdKeyboard, files
  <2>2. StartsNothing
    BY <1>4, SignalsEnd DEF StopTdKeyboard
  <2> QED BY <2>1, <2>2, MoveStaysQuiet DEF QuietStep
<1>5. CASE Remove(j)
  <2>1. End(j) /\ UNCHANGED <<pending, procs>>
    BY <1>5 DEF Remove
  <2> QED BY <2>1, MoveStaysQuiet DEF QuietStep, StartsNothing, procs
<1>6. CASE KillGateway(j)
  <2>1. job[j].kind = "logout" /\ job[j].pc = "kill"
    BY <1>1, <1>6 DEF KillGateway, At, StopsOnly
  <2>2. Quiet'
    <3> DEFINE x == [job[j] EXCEPT !.what = "listener"]
    <3>1. StopsOnly(x)
      BY <2>1 DEF StopsOnly, JobsOK, JobState
    <3>2. job' = [job EXCEPT ![j] = x] /\ pending' = pending
      BY <1>6 DEF KillGateway, files
    <3> HIDE DEF x
    <3> QED BY <3>1, <3>2, JobStaysQuiet
  <2>3. /\ gateway' = [gateway EXCEPT ![job[j].arg] = NoGateway]
        /\ test' = [k \in Job |-> IF TestOf(k, job[j].arg) THEN [NoTest EXCEPT !.st = "failed"]
                                                         ELSE test[k]]
        /\ doomed' \subseteq doomed /\ UNCHANGED <<listener, bots>>
    BY <1>6, <2>1 DEF KillGateway
  <2>4. StartsNothing
    BY <2>3 DEF StartsNothing, GatewaysOK, NoGateway, TestOf
  <2> QED BY <2>2, <2>4 DEF QuietStep
<1>7. CASE KillListener(j)
  <2>1. job[j].kind = "logout"
    BY <1>1, <1>7 DEF KillListener, At, StopsOnly
  <2>2. /\ Goto(j, "remove") /\ listener' = [listener EXCEPT ![job[j].arg] = "none"]
        /\ doomed' \subseteq doomed /\ UNCHANGED <<pending, gateway, test, bots>>
    BY <1>7, <2>1 DEF KillListener, files
  <2>3. StartsNothing
    BY <2>2 DEF StartsNothing, OthersOK
  <2> QED BY <2>2, <2>3, MoveStaysQuiet DEF QuietStep
<1>8. CASE ~(Begin(j) \/ StopSipTg(j) \/ StopTdKeyboard(j) \/ Remove(j) \/ KillGateway(j) \/
             KillListener(j))
  <2>1. job[j].pc \notin {"guard", "file", "look", "probe", "probed", "tested", "script", "destroy",
                          "bot", "listen", "listener", "startBot"}
        /\ ~(job[j].pc = "kill" /\ job[j].what = "bot")
    BY <1>1 DEF StopsOnly
  <2>2. /\ ~Guard(j) /\ ~KillBot(j) /\ ~MakeSettingsFile(j) /\ ~LookForGateway(j) /\ ~Probe(j)
        /\ ~Test(j) /\ ~Tested(j) /\ ~Nohup(j) /\ ~Destroy(j)
    BY <2>1 DEF At, Guard, KillBot, MakeSettingsFile, LookForGateway, Probe, Test, Tested, Nohup,
       Destroy
  <2>3. ~LookForBot(j) /\ ~LookForListener(j) /\ ~StartListener(j) /\ ~StartBot(j)
    BY <2>1 DEF At, LookForBot, LookForListener, StartListener, StartBot
  <2> QED BY <1>8, <2>2, <2>3 DEF JobStep
<1> QED BY <1>2, <1>3, <1>4, <1>5, <1>6, <1>7, <1>8

\* What begins while the module is disabled.
LEMMA BeginsQuiet ==
  ASSUME TypeOK, Quiet, ~enabled', Cron \/ (\E j \in OtherJob : Restart(j)) \/ Administrator
  PROVE  QuietStep
<1> USE TypeParts, AccountNumbers
<1>1. pending' = pending /\ UNCHANGED procs
  BY DEF Cron, Restart, Administrator, Enable, Disable, Logout, EventChangeData, StartLogin, Login,
     files
<1>2. StartsNothing
  BY <1>1 DEF StartsNothing, procs
<1>3. ASSUME NEW j \in Job, NEW x, StopsOnly(x), NewJob(j, x) PROVE Quiet'
  BY <1>1, <1>3, JobStaysQuiet DEF NewJob
<1>4. CASE Cron
  <2>1. StopsOnly([NoJob EXCEPT !.pc = "begin"])
    BY DEF StopsOnly, NoJob
  <2> QED BY <1>2, <1>3, <1>4, <2>1 DEF Cron, QuietStep
<1>5. ASSUME NEW j \in OtherJob, Restart(j) PROVE QuietStep
  <2>1. PICK id : NewJob(j, [NoJob EXCEPT !.pc = "begin", !.kind = "restart", !.arg = id])
    BY <1>5 DEF Restart
  <2>2. StopsOnly([NoJob EXCEPT !.pc = "begin", !.kind = "restart", !.arg = id])
    BY DEF StopsOnly, NoJob
  <2> QED BY <1>2, <1>3, <2>1, <2>2 DEF QuietStep
<1>6. ASSUME NEW j \in OtherJob, Enable(j) \/ Disable(j) PROVE QuietStep
  BY <1>6 DEF Enable, Disable, Quiet
<1>7. ASSUME NEW j \in OtherJob, Logout(j) PROVE QuietStep
  <2>1. PICK a : NewJob(j, [NoJob EXCEPT !.pc = "kill", !.kind = "logout", !.arg = a])
    BY <1>7 DEF Logout
  <2>2. StopsOnly([NoJob EXCEPT !.pc = "kill", !.kind = "logout", !.arg = a])
    BY DEF StopsOnly, NoJob
  <2> QED BY <1>2, <1>3, <2>1, <2>2 DEF QuietStep
<1>8. CASE UNCHANGED job
  BY <1>1, <1>2, <1>8, MoveStaysQuiet DEF QuietStep
<1> QED BY <1>4, <1>5, <1>6, <1>7, <1>8 DEF Administrator, EventChangeData, StartLogin, Login

\* For any number of accounts and jobs: while the module is disabled, and once what found it
\* enabled is over, no restart, cron, login or logout starts a process.
THEOREM QuietKept == Spec => StaysStopped
<1>1. ASSUME TypeOK, [Next]_vars, Quiet, ~enabled' PROVE QuietStep
  <2> USE <1>1, TypeParts
  <2>1. CASE UNCHANGED vars
    BY <2>1, QuietJobs DEF QuietStep, StartsNothing, vars, admin, files, procs
  <2>2. ASSUME NEW j \in Job, StartGateway(j) PROVE FALSE
    BY <2>2 DEF StartGateway, Quiet
  <2>3. ASSUME \/ \E j \in Job : TestExits(j)
               \/ \E a \in Account : GatewayExits(a) \/ GatewayAborts(a) \/ ListenerExits(a)
               \/ \E d \in Titles : DoomedExits(d)
               \/ BotsExit
        PROVE  QuietStep
    <3>1. UNCHANGED <<job, pending>>
      BY <2>3 DEF TestExits, GatewayExits, GatewayAborts, ListenerExits, DoomedExits, BotsExit, files
    <3>2. Quiet'
      BY <3>1, QuietJobs
    <3>3. StartsNothing
      BY <2>3 DEF StartsNothing, TestExits, GatewayExits, GatewayAborts, ListenerExits, DoomedExits,
         BotsExit, GatewaysOK, OthersOK, NoGateway, NoTest
    <3> QED BY <3>2, <3>3 DEF QuietStep
  <2> QED BY <2>1, <2>2, <2>3, StepStaysQuiet, BeginsQuiet DEF Next
<1>2. TypeOK /\ [Next]_vars => [Quiet /\ ~enabled' => Quiet' /\ StartsNothing]_vars
  BY <1>1 DEF QuietStep
<1> QED BY <1>2, TypeCorrect, PTL DEF Spec, StaysStopped
=============================================================================
