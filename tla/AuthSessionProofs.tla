------------------------- MODULE AuthSessionProofs -------------------------
(***************************************************************************)
(* Theorems about the login, for every number of sessions and requests.    *)
(***************************************************************************)
EXTENDS AuthSession, TLAPS

\* The type of each variable.
FileOK    == file \in [Key -> StatusFile]
SessionOK == session \in [Session -> TelegramAuth]
ChildOK   == child \in [Session -> Program]
RequestOK == request \in [Request -> Command]

\* The type invariant taken apart, so that a lemma can speak of one variable.
LEMMA TypeParts ==
  /\ TypeOK <=> FileOK /\ SessionOK /\ ChildOK /\ RequestOK /\ loggedIn \in SUBSET Key
  /\ TypeOK' <=> FileOK' /\ SessionOK' /\ ChildOK' /\ RequestOK' /\ loggedIn' \in SUBSET Key
BY DEF TypeOK, FileOK, SessionOK, ChildOK, RequestOK

-----------------------------------------------------------------------------
(* What the operators that several actions share keep of the types. *)

\* The places of a session that several actions lead to.
LEMMA PcNames ==
  /\ "probe" \in Pc    /\ "loop" \in Pc      /\ "ask" \in Pc       /\ "answered" \in Pc
  /\ "tell" \in Pc     /\ "errors" \in Pc    /\ "close" \in Pc     /\ "keyboard" \in Pc
  /\ "listener" \in Pc /\ "bot" \in Pc       /\ "botAuth" \in Pc
BY DEF Pc, Talking

\* Moving a session on.
LEMMA BecomeType ==
  ASSUME SessionOK, NEW s \in Session, NEW x \in TelegramAuth, Become(s, x)
  PROVE  SessionOK'
BY DEF SessionOK, Become

\* Moving a session on without touching its other fields.
LEMMA GotoType ==
  ASSUME SessionOK, NEW s \in Session, NEW pc \in Pc, Goto(s, pc)
  PROVE  SessionOK'
<1>1. [session[s] EXCEPT !.pc = pc] \in TelegramAuth
  BY DEF SessionOK, TelegramAuth
<1> QED BY <1>1, BecomeType DEF Goto

\* The fields of a session, and the text in a status file.
LEMMA SessionFields ==
  ASSUME SessionOK, NEW s \in Session
  PROVE  /\ session[s] \in TelegramAuth
         /\ session[s].dir \in Key
         /\ session[s].prompt \in Prompt \cup {"none"}
         /\ session[s].late \in BOOLEAN
BY DEF SessionOK, TelegramAuth

\* What getInputData reads of a status file is a text.
LEMMA FileText ==
  ASSUME FileOK, NEW k \in Key
  PROVE  file[k].data \in Text
BY DEF FileOK, StatusFile

\* A status written by a session.
LEMMA StatusType ==
  ASSUME FileOK, SessionOK, NEW s \in Session, NEW st \in Status, UpdateStatus(s, st)
  PROVE  FileOK'
<1>1. session[s].dir \in Key
  BY DEF SessionOK, TelegramAuth
<1>2. [NoFile EXCEPT !.status = st] \in StatusFile
  BY DEF NoFile, StatusFile, Text
<1> QED BY <1>1, <1>2 DEF FileOK, UpdateStatus

\* The file of a session that asks.
LEMMA AskType ==
  ASSUME NEW p \in Prompt \cup {"none"}
  PROVE  [NoFile EXCEPT !.status = "WaitInput", !.output = p] \in StatusFile
BY DEF NoFile, StatusFile, Status, Text

\* Where a program was last told something.
LEMMA ChildAt ==
  ASSUME ChildOK, NEW s \in Session
  PROVE  child[s].at \in Prompt \cup {"start"}
BY DEF ChildOK, Program

\* A program stays one when what it wrote is lost.
LEMMA HeardType ==
  ASSUME NEW s \in Session, NEW x \in Program
  PROVE  Heard(s, x) \in Program
BY DEF Heard, Program

\* What a program can be when it starts, ends or prompts.
LEMMA ChildTypes ==
  ASSUME ChildOK, NEW s \in Session
  PROVE  /\ Fresh \in Program
         /\ Gone \in Program
         /\ Exited(s) \in Program
         /\ [Exited(s) EXCEPT !.out = "OK"] \in Program
         /\ \A p \in Prompt : Prompted(s, p) \in Program
         /\ \A p \in Prompt : [Prompted(s, p) EXCEPT !.err = @ \cup {"error"}] \in Program
<1>1. child[s] \in Program
  BY DEF ChildOK
<1>2. Fresh \in Program /\ Gone \in Program
  BY DEF Fresh, Gone, Program
<1>3. Exited(s) \in Program /\ [Exited(s) EXCEPT !.out = "OK"] \in Program
  BY <1>1 DEF Exited, Program
<1>4. ASSUME NEW p \in Prompt
      PROVE  /\ Prompted(s, p) \in Program
             /\ [Prompted(s, p) EXCEPT !.err = @ \cup {"error"}] \in Program
  <2>1. CASE OnStderr(s, p)
    BY <1>1, <2>1 DEF Prompted, Program
  <2>2. CASE ~OnStderr(s, p)
    BY <1>1, <2>2 DEF Prompted, Program
  <2> QED BY <2>1, <2>2
<1> QED BY <1>2, <1>3, <1>4

\* A child replaced.
LEMMA PutChild ==
  ASSUME ChildOK, NEW s \in Session, NEW c \in Program, child' = [child EXCEPT ![s] = c]
  PROVE  ChildOK'
BY DEF ChildOK

\* TDLib goes from prompt to prompt.
LEMMA AfterType ==
  ASSUME NEW p \in Prompt \cup {"start"}
  PROVE  After(p) \subseteq Prompt \cup {"ready"}
BY DEF After, Prompt

-----------------------------------------------------------------------------
(* Type correctness. *)

\* Before the first call every file, session, child and request is of its type.
LEMMA TypeInit == Init => TypeOK
BY DEF Init, TypeOK, NoFile, Fresh, Gone, StatusFile, TelegramAuth, Program, Command,
       Key, Prompt, Status, Text, Pc, Talking

\* startAuth and the way of start() to its loop.
LEMMA StartType ==
  ASSUME TypeOK, NEW s \in Session, StartAuth(s) \/ Begin(s) \/ TakeTitle(s) \/ Probe(s) \/
       FindGateway(s) \/ KillallGenDb(s) \/ OpenGenDb(s)
  PROVE  TypeOK'
<1> USE TypeParts
<1>1. CASE StartAuth(s)
  <2>1. FileOK'
    BY <1>1 DEF StartAuth, FileOK, NoFile, StatusFile, Status, Key, Text
  <2>2. SessionOK'
    BY <1>1, GotoType DEF StartAuth, Pc, Talking
  <2> QED BY <1>1, <2>1, <2>2 DEF StartAuth, ChildOK, RequestOK
<1>2. CASE Begin(s)
  <2>1. SessionOK'
    BY <1>2 DEF Begin, SessionOK, TelegramAuth, Pc, Talking
  <2> QED BY <1>2, <2>1 DEF Begin, FileOK, ChildOK, RequestOK
<1>3. CASE TakeTitle(s)
  <2>1. SessionOK'
    <3>1. [session[s] EXCEPT !.pc = "probe", !.title = "gen_db"] \in TelegramAuth
      BY <1>3, SessionFields, PcNames DEF TakeTitle, TelegramAuth
    <3> QED BY <1>3, <3>1, BecomeType DEF TakeTitle
  <2> QED BY <1>3, <2>1 DEF TakeTitle, FileOK, ChildOK, RequestOK
<1>4. CASE Probe(s)
  <2>1. FileOK'
    BY <1>4, StatusType DEF Probe, Status, FileOK
  <2>2. SessionOK'
    BY <1>4, GotoType DEF Probe, Pc, Talking
  <2> QED BY <1>4, <2>1, <2>2 DEF Probe, ChildOK, RequestOK
<1>5. CASE FindGateway(s)
  <2>1. SessionOK'
    BY <1>5, GotoType DEF FindGateway, Pc, Talking
  <2> QED BY <1>5, <2>1 DEF FindGateway, FileOK, ChildOK, RequestOK
<1>6. CASE KillallGenDb(s)
  <2>1. SessionOK'
    BY <1>6, GotoType DEF KillallGenDb, Pc, Talking
  <2>2. ChildOK'
    BY <1>6, ChildTypes DEF KillallGenDb, ChildOK
  <2> QED BY <1>6, <2>1, <2>2 DEF KillallGenDb, FileOK, RequestOK
<1>7. CASE OpenGenDb(s)
  <2>1. SessionOK'
    BY <1>7, GotoType DEF OpenGenDb, Pc, Talking
  <2>2. ChildOK'
    BY <1>7, ChildTypes, PutChild DEF OpenGenDb
  <2> QED BY <1>7, <2>1, <2>2 DEF OpenGenDb, FileOK, RequestOK
<1> QED BY <1>1, <1>2, <1>3, <1>4, <1>5, <1>6, <1>7

\* The loop.
LEMMA LoopType ==
  ASSUME TypeOK, NEW s \in Session, ReadNothing(s) \/ ReadOk(s) \/ ReadPrompt(s) \/ Ask(s) \/
       FoundText(s) \/ GaveUp(s) \/ Answered(s) \/ Tell(s) \/ ReadErrors(s) \/ Close(s)
  PROVE  TypeOK'
<1> USE TypeParts
<1>1. CASE ReadNothing(s)
  <2>1. SessionOK'
    BY <1>1, GotoType DEF ReadNothing, LoopPc, Pc, Talking
  <2> QED BY <1>1, <2>1 DEF ReadNothing, FileOK, ChildOK, RequestOK
<1>2. CASE ReadOk(s)
  <2>1. FileOK'
    BY <1>2, StatusType DEF ReadOk, Status, FileOK
  <2>2. SessionOK'
    BY <1>2, GotoType DEF ReadOk, Pc, Talking
  <2>3. ChildOK'
    BY <1>2 DEF ReadOk, ChildOK, Program
  <2> QED BY <1>2, <2>1, <2>2, <2>3 DEF ReadOk, RequestOK
<1>3. CASE ReadPrompt(s)
  <2>1. SessionOK'
    <3>1. [session[s] EXCEPT !.pc = IF child[s].out = "phone" THEN "tell" ELSE "ask",
                        !.prompt = child[s].out, !.over = session[s].late] \in TelegramAuth
      BY <1>3, SessionFields, PcNames DEF ReadPrompt, TelegramAuth, Prompt
    <3> QED BY <1>3, <3>1, BecomeType DEF ReadPrompt
  <2>2. ChildOK'
    BY <1>3 DEF ReadPrompt, ChildOK, Program
  <2> QED BY <1>3, <2>1, <2>2 DEF ReadPrompt, FileOK, RequestOK
<1>4. CASE Ask(s)
  <2>1. FileOK'
    BY <1>4, SessionFields, AskType DEF Ask, At, FileOK
  <2>2. SessionOK'
    BY <1>4, GotoType DEF Ask, Pc, Talking
  <2> QED BY <1>4, <2>1, <2>2 DEF Ask, ChildOK, RequestOK
<1>5. CASE FoundText(s)
  <2>1. SessionOK'
    <3>1. [session[s] EXCEPT !.pc = "answered", !.text = file[session[s].dir].data,
                        !.due = FALSE] \in TelegramAuth
      BY <1>5, SessionFields, PcNames, FileText DEF FoundText, TelegramAuth
    <3> QED BY <1>5, <3>1, BecomeType DEF FoundText
  <2> QED BY <1>5, <2>1 DEF FoundText, FileOK, ChildOK, RequestOK
<1>6. CASE GaveUp(s)
  <2>1. SessionOK'
    <3>1. [session[s] EXCEPT !.pc = "answered", !.due = FALSE] \in TelegramAuth
      BY <1>6, SessionFields, PcNames DEF GaveUp, TelegramAuth
    <3> QED BY <1>6, <3>1, BecomeType DEF GaveUp
  <2> QED BY <1>6, <2>1 DEF GaveUp, FileOK, ChildOK, RequestOK
<1>7. CASE Answered(s)
  <2>1. FileOK'
    BY <1>7, StatusType DEF Answered, Status, FileOK
  <2>2. SessionOK'
    <3>1. [session[s] EXCEPT !.pc = "errors", !.prompt = "none"] \in TelegramAuth
      BY <1>7, SessionFields, PcNames DEF Answered, TelegramAuth
    <3> QED BY <1>7, <3>1, BecomeType, GotoType DEF Answered, Pc, Talking
  <2> QED BY <1>7, <2>1, <2>2 DEF Answered, ChildOK, RequestOK
<1>8. CASE Tell(s)
  <2>1. SessionOK'
    <3>1. [session[s] EXCEPT !.pc = "errors", !.prompt = "none", !.text = NoText] \in TelegramAuth
      BY <1>8, SessionFields, PcNames DEF Tell, TelegramAuth, Text
    <3> QED BY <1>8, <3>1, BecomeType DEF Tell
  <2>2. ChildOK'
    BY <1>8 DEF Tell, ChildOK, Program
  <2> QED BY <1>8, <2>1, <2>2 DEF Tell, FileOK, RequestOK
<1>9. CASE ReadErrors(s)
  <2>1. FileOK'
    BY <1>9, StatusType DEF ReadErrors, Status, FileOK
  <2>2. SessionOK'
    <3>1. [session[s] EXCEPT !.pc = LoopPc(session[s].over), !.over = FALSE] \in TelegramAuth
      BY <1>9, SessionFields, PcNames DEF ReadErrors, TelegramAuth, LoopPc
    <3>2. [session[s] EXCEPT !.pc = "close", !.error = TRUE, !.over = FALSE] \in TelegramAuth
      BY <1>9, SessionFields, PcNames DEF ReadErrors, TelegramAuth, LoopPc
    <3> QED BY <1>9, <3>1, <3>2, BecomeType DEF ReadErrors
  <2>3. ChildOK'
    BY <1>9 DEF ReadErrors, ChildOK, Program
  <2> QED BY <1>9, <2>1, <2>2, <2>3 DEF ReadErrors, RequestOK
<1>10. CASE Close(s)
  <2>1. SessionOK'
    <3>1. [session[s] EXCEPT !.pc = IF session[s].dir = "gw" THEN "keyboard" ELSE "bot",
                        !.late = FALSE] \in TelegramAuth
      BY <1>10, SessionFields, PcNames DEF Close, TelegramAuth
    <3> QED BY <1>10, <3>1, BecomeType DEF Close
  <2>2. ChildOK'
    BY <1>10, ChildTypes, PutChild DEF Close
  <2> QED BY <1>10, <2>1, <2>2 DEF Close, FileOK, RequestOK
<1> QED BY <1>1, <1>2, <1>3, <1>4, <1>5, <1>6, <1>7, <1>8, <1>9, <1>10

\* startKeyboard and the destructor.
LEMMA KeyboardType ==
  ASSUME TypeOK, NEW s \in Session, FindKeyboard(s) \/ TakeKeyboardTitle(s) \/ FindListener(s)
       \/ OpenTdKeyboard(s) \/ Bot(s) \/ BotAuth(s) \/ Destruct(s)
  PROVE  TypeOK'
<1> USE TypeParts
<1>1. CASE FindKeyboard(s)
  <2>1. SessionOK'
    BY <1>1, GotoType DEF FindKeyboard, Pc, Talking
  <2> QED BY <1>1, <2>1 DEF FindKeyboard, FileOK, ChildOK, RequestOK
<1>2. CASE TakeKeyboardTitle(s)
  <2>1. SessionOK'
    <3>1. [session[s] EXCEPT !.pc = "listener", !.title = "auth_keyboard",
                        !.dir = "user"] \in TelegramAuth
      BY <1>2, SessionFields, PcNames DEF TakeKeyboardTitle, TelegramAuth, Key
    <3> QED BY <1>2, <3>1, BecomeType DEF TakeKeyboardTitle
  <2> QED BY <1>2, <2>1 DEF TakeKeyboardTitle, FileOK, ChildOK, RequestOK
<1>3. CASE FindListener(s)
  <2>1. SessionOK'
    BY <1>3, GotoType DEF FindListener, Pc, Talking
  <2> QED BY <1>3, <2>1 DEF FindListener, FileOK, ChildOK, RequestOK
<1>4. CASE OpenTdKeyboard(s)
  <2>1. SessionOK'
    BY <1>4, GotoType DEF OpenTdKeyboard, Pc, Talking
  <2>2. ChildOK'
    BY <1>4, ChildTypes, PutChild DEF OpenTdKeyboard
  <2> QED BY <1>4, <2>1, <2>2 DEF OpenTdKeyboard, FileOK, RequestOK
<1>5. CASE Bot(s)
  <2>1. FileOK'
    BY <1>5 DEF Bot, FileOK, NoFile, StatusFile, Status, Key, Text
  <2>2. SessionOK'
    <3>1. [session[s] EXCEPT !.pc = "botAuth", !.dir = "bot"] \in TelegramAuth
      BY <1>5, SessionFields, PcNames DEF Bot, TelegramAuth, Key
    <3> QED BY <1>5, <3>1, BecomeType DEF Bot
  <2> QED BY <1>5, <2>1, <2>2 DEF Bot, ChildOK, RequestOK
<1>6. CASE BotAuth(s)
  <2>1. FileOK'
    BY <1>6, StatusType DEF BotAuth, Status, FileOK
  <2>2. SessionOK'
    BY <1>6, GotoType DEF BotAuth, Pc, Talking
  <2> QED BY <1>6, <2>1, <2>2 DEF BotAuth, ChildOK, RequestOK
<1>7. CASE Destruct(s)
  <2>1. FileOK'
    BY <1>7, StatusType DEF Destruct, Status, FileOK
  <2>2. SessionOK'
    BY <1>7, GotoType DEF Destruct, Pc, Talking
  <2> QED BY <1>7, <2>1, <2>2 DEF Destruct, ChildOK, RequestOK
<1> QED BY <1>1, <1>2, <1>3, <1>4, <1>5, <1>6, <1>7

\* The child and the clock.
LEMMA OutsideType ==
  ASSUME TypeOK, NEW s \in Session, Ready(s) \/ NextPrompt(s) \/ Rejected(s) \/ EndOfInput(s) \/
       LoopTime(s) \/ PollTime(s)
  PROVE  TypeOK'
<1> USE TypeParts
<1>1. CASE Ready(s)
  <2>1. ChildOK'
    BY <1>1, ChildTypes, HeardType, PutChild DEF Ready
  <2>2. loggedIn' \in SUBSET Key
    BY <1>1 DEF Ready, SessionOK, TelegramAuth
  <2> QED BY <1>1, <2>1, <2>2 DEF Ready, FileOK, SessionOK, RequestOK
<1>2. CASE NextPrompt(s)
  <2>1. ChildOK'
    <3>1. PICK p \in After(child[s].at) \ {"ready"} :
             child' = [child EXCEPT ![s] =
               Heard(s, IF session[s].dir = "user" /\ p = "first" THEN Exited(s) ELSE Prompted(s, p))]
      BY <1>2 DEF NextPrompt
    <3>2. p \in Prompt
      BY <3>1, AfterType, ChildAt
    <3> DEFINE x == IF session[s].dir = "user" /\ p = "first" THEN Exited(s) ELSE Prompted(s, p)
    <3>3. x \in Program
      BY <3>2, ChildTypes
    <3>4. child' = [child EXCEPT ![s] = Heard(s, x)]
      BY <3>1
    <3> HIDE DEF x
    <3>5. Heard(s, x) \in Program
      BY <3>3, HeardType
    <3> QED BY <3>4, <3>5, PutChild
  <2> QED BY <1>2, <2>1 DEF NextPrompt, FileOK, SessionOK, RequestOK
<1>3. CASE Rejected(s)
  <2>1. ChildOK'
    <3> DEFINE again == IF child[s].at = "last" THEN "first" ELSE child[s].at
               x == IF session[s].dir = "user" THEN Exited(s)
                    ELSE [Prompted(s, again) EXCEPT !.err = @ \cup {"error"}]
    <3>1. child' = [child EXCEPT ![s] = Heard(s, x)]
      BY <1>3 DEF Rejected
    <3>2. again \in Prompt
      BY <1>3 DEF Rejected, Prompt
    <3>3. x \in Program
      BY <3>2, ChildTypes
    <3> HIDE DEF x
    <3>4. Heard(s, x) \in Program
      BY <3>3, HeardType
    <3> QED BY <3>1, <3>4, PutChild
  <2> QED BY <1>3, <2>1 DEF Rejected, FileOK, SessionOK, RequestOK
<1>4. CASE EndOfInput(s)
  <2>1. ChildOK'
    <3>1. [child[s] EXCEPT !.st = "empty"] \in Program
      BY DEF ChildOK, Program
    <3> QED BY <1>4, <3>1, HeardType, PutChild DEF EndOfInput
  <2> QED BY <1>4, <2>1 DEF EndOfInput, FileOK, SessionOK, RequestOK
<1>5. CASE LoopTime(s)
  <2>1. SessionOK'
    <3>1. [session[s] EXCEPT !.late = TRUE] \in TelegramAuth
      BY <1>5, SessionFields, PcNames DEF LoopTime, TelegramAuth
    <3> QED BY <1>5, <3>1, BecomeType DEF LoopTime
  <2> QED BY <1>5, <2>1 DEF LoopTime, FileOK, ChildOK, RequestOK
<1>6. CASE PollTime(s)
  <2>1. SessionOK'
    <3>1. [session[s] EXCEPT !.late = TRUE, !.due = TRUE] \in TelegramAuth
      BY <1>6, SessionFields, PcNames DEF PollTime, TelegramAuth
    <3> QED BY <1>6, <3>1, BecomeType DEF PollTime
  <2> QED BY <1>6, <2>1 DEF PollTime, FileOK, ChildOK, RequestOK
<1> QED BY <1>1, <1>2, <1>3, <1>4, <1>5, <1>6

\* enterCommand.
LEMMA RequestType ==
  ASSUME TypeOK, NEW r \in Request,
         (\E k \in {"gw", "user"} : ReadFile(r, k)) \/ WriteFile(r)
  PROVE  TypeOK'
<1>1. ASSUME NEW k \in {"gw", "user"}, ReadFile(r, k) PROVE TypeOK'
  <2>1. RequestOK'
    BY <1>1, TypeParts DEF ReadFile, RequestOK, Command, FileOK, Key
  <2> QED BY <1>1, <2>1, TypeParts DEF ReadFile, FileOK, SessionOK, ChildOK
<1>2. CASE WriteFile(r)
  <2>1. RequestOK'
    BY <1>2, TypeParts DEF WriteFile, RequestOK, Command
  <2>2. FileOK'
    BY <1>2, TypeParts DEF WriteFile, RequestOK, Command, FileOK, StatusFile, Text
  <2> QED BY <1>2, <2>1, <2>2, TypeParts DEF WriteFile, SessionOK, ChildOK
<1> QED BY <1>1, <1>2

\* A launcher's DONE.
LEMMA LauncherType ==
  ASSUME TypeOK, LauncherDone
  PROVE  TypeOK'
<1>1. FileOK'
  BY TypeParts DEF LauncherDone, FileOK, NoFile, StatusFile, Status, Text
<1> QED BY <1>1, TypeParts DEF LauncherDone, SessionOK, ChildOK, RequestOK

\* Every step keeps the types.
LEMMA TypeNext == TypeOK /\ [Next]_vars => TypeOK'
<1>1. ASSUME TypeOK, UNCHANGED vars PROVE TypeOK'
  BY <1>1 DEF TypeOK, vars
<1> QED BY <1>1, StartType, LoopType, KeyboardType, OutsideType, RequestType,
           LauncherType
           DEF Next, Browser, Login, Child, Clock

\* Every reachable state is of the declared shape: in particular the status file always
\* has what getInputData reads of it.
THEOREM TypeCorrect == Spec => []TypeOK
BY TypeInit, TypeNext, PTL DEF Spec

-----------------------------------------------------------------------------
(***************************************************************************)
(* The argument for AnswerMatchesPrompt.  A text lies in a file only       *)
(* together with the output its request saw, because a request puts back   *)
(* the whole file it read; a session takes it only at that output; and     *)
(* between the prompt and the answer the child does nothing but wait.      *)
(***************************************************************************)

\* r read prompt p from the status file of k.
Saw(r, k, p) == request[r].pc # "new" /\ request[r].key = k /\ request[r].copy.output = p

FileAnswers(k) ==
  file[k].data # NoText => Saw(file[k].data, k, file[k].output)

TextAnswers(s) ==
  /\ session[s].text # NoText =>
       /\ session[s].pc \in {"answered", "tell", "killed"}
       /\ Saw(session[s].text, session[s].dir, session[s].prompt)
  /\ session[s].pc = "tell" /\ session[s].prompt # "phone" => session[s].text # NoText

\* The child has been silent since the prompt its session is at.
Silent(s) ==
  /\ child[s].out = "none"
  /\ child[s].st = "exited" \/ (child[s].st = "reads" /\ child[s].at = session[s].prompt)

ChildPrompted(s) ==
  /\ child[s].st = "busy" => child[s].out = "none"
  /\ child[s].st = "reads" => child[s].out \in {"none", child[s].at}
  /\ child[s].st = "empty" => Closed(s)
  /\ session[s].pc \in {"ask", "poll", "answered", "tell"} => Silent(s)
  /\ session[s].pc \notin Talking \cup {"killed"} => child[s].st = "exited"

AnswerInv ==
  /\ TypeOK
  /\ \A k \in Key : FileAnswers(k)
  /\ \A s \in Session : TextAnswers(s) /\ ChildPrompted(s)

\* A step of session s or its child leaves the other sessions and their children alone;
\* at most it kills them.
Alone(s) ==
  \A t \in Session \ {s} :
    /\ session'[t] = session[t] \/ session'[t] = [session[t] EXCEPT !.pc = "killed"]
    /\ child'[t] = child[t] \/ child'[t] = Exited(t)

\* The scripts, their children and the clock keep to their own session in this sense.
LEMMA LoginAlone ==
  ASSUME TypeOK, NEW s \in Session, StartAuth(s) \/ Login(s) \/ Child(s) \/ Clock(s)
  PROVE  Alone(s)
<1> USE TypeParts DEF SessionOK, ChildOK, Alone
<1>1. CASE StartAuth(s)
  BY <1>1 DEF StartAuth, Goto, Become
<1>2. CASE Begin(s)
  BY <1>2 DEF Begin, Goto, Become
<1>3. CASE TakeTitle(s)
  BY <1>3 DEF TakeTitle, Become, Goto
<1>4. CASE Probe(s)
  BY <1>4 DEF Probe, Goto, Become
<1>5. CASE FindGateway(s)
  BY <1>5 DEF FindGateway, Goto, Become
<1>6. CASE KillallGenDb(s)
  BY <1>6 DEF KillallGenDb, Goto, Become
<1>7. CASE OpenGenDb(s)
  BY <1>7 DEF OpenGenDb, Goto, Become
<1>8. CASE ReadNothing(s)
  BY <1>8 DEF ReadNothing, Goto, Become
<1>9. CASE ReadOk(s)
  BY <1>9 DEF ReadOk, Goto, Become
<1>10. CASE ReadPrompt(s)
  BY <1>10 DEF ReadPrompt, Become, Goto
<1>11. CASE Ask(s)
  BY <1>11 DEF Ask, Goto, Become
<1>12. CASE FoundText(s)
  BY <1>12 DEF FoundText, Become, Goto
<1>13. CASE GaveUp(s)
  BY <1>13 DEF GaveUp, Become, Goto
<1>14. CASE Answered(s)
  BY <1>14 DEF Answered, Goto, Become
<1>15. CASE Tell(s)
  BY <1>15 DEF Tell, Become, Goto
<1>16. CASE ReadErrors(s)
  BY <1>16 DEF ReadErrors, Become, Goto
<1>17. CASE Close(s)
  BY <1>17 DEF Close, Become, Goto
<1>18. CASE FindKeyboard(s)
  BY <1>18 DEF FindKeyboard, Goto, Become
<1>19. CASE TakeKeyboardTitle(s)
  BY <1>19 DEF TakeKeyboardTitle, Become, Goto
<1>20. CASE FindListener(s)
  BY <1>20 DEF FindListener, Goto, Become
<1>21. CASE OpenTdKeyboard(s)
  BY <1>21 DEF OpenTdKeyboard, Goto, Become
<1>22. CASE Bot(s)
  BY <1>22 DEF Bot, Become, Goto
<1>23. CASE BotAuth(s)
  BY <1>23 DEF BotAuth, Goto, Become
<1>24. CASE Destruct(s)
  BY <1>24 DEF Destruct, Goto, Become
<1>25. CASE Ready(s)
  BY <1>25 DEF Ready
<1>26. CASE NextPrompt(s)
  BY <1>26 DEF NextPrompt
<1>27. CASE Rejected(s)
  BY <1>27 DEF Rejected
<1>28. CASE EndOfInput(s)
  BY <1>28 DEF EndOfInput
<1>29. CASE LoopTime(s)
  BY <1>29 DEF LoopTime, Become, Goto
<1>30. CASE PollTime(s)
  BY <1>30 DEF PollTime, Become, Goto
<1> QED BY <1>1, <1>2, <1>3, <1>4, <1>5, <1>6, <1>7, <1>8, <1>9, <1>10, <1>11, <1>12, <1>13,
     <1>14, <1>15, <1>16, <1>17, <1>18, <1>19, <1>20, <1>21, <1>22, <1>23, <1>24, <1>25, <1>26,
     <1>27, <1>28, <1>29, <1>30 DEF Login, Child, Clock

\* Nor does that disturb what is known of the others.
LEMMA OthersKept ==
  ASSUME AnswerInv, NEW s \in Session, Alone(s), request' = request,
         NEW t \in Session \ {s}
  PROVE  TextAnswers(t)' /\ ChildPrompted(t)'
<1> USE TypeParts DEF AnswerInv, Alone
<1>1. /\ t \in Session
      /\ session[t] \in TelegramAuth
      /\ child[t] \in Program
      /\ TextAnswers(t) /\ ChildPrompted(t)
  BY DEF SessionOK, ChildOK
<1>2. CASE session'[t] = session[t]
  <2>1. TextAnswers(t)'
    BY <1>1, <1>2 DEF TextAnswers, Saw
  <2>2. CASE child'[t] = child[t]
    BY <1>1, <1>2, <2>1, <2>2 DEF ChildPrompted, Closed, Silent
  <2>3. CASE child'[t] = Exited(t)
    BY <1>1, <1>2, <2>1, <2>3 DEF ChildPrompted, Closed, Silent, Exited, Program
  <2> QED BY <2>2, <2>3
<1>3. CASE session'[t] = [session[t] EXCEPT !.pc = "killed"]
  <2>1. TextAnswers(t)'
    BY <1>1, <1>3 DEF TextAnswers, Saw, TelegramAuth
  <2>2. CASE child'[t] = child[t]
    BY <1>1, <1>3, <2>1, <2>2 DEF ChildPrompted, Closed, Silent, TelegramAuth
  <2>3. CASE child'[t] = Exited(t)
    BY <1>1, <1>3, <2>1, <2>3 DEF ChildPrompted, Closed, Silent, Exited, Program, TelegramAuth
  <2> QED BY <2>2, <2>3
<1> QED BY <1>2, <1>3

\* What the step makes of its own session: the way to the loop.
LEMMA StartKept ==
  ASSUME AnswerInv, NEW s \in Session, StartAuth(s) \/ Begin(s) \/ TakeTitle(s) \/ Probe(s) \/
       FindGateway(s) \/ KillallGenDb(s) \/ OpenGenDb(s)
  PROVE  TextAnswers(s)' /\ ChildPrompted(s)'
<1> USE TypeParts DEF AnswerInv, TextAnswers, Saw, ChildPrompted, Closed, Silent, Talking,
        SessionOK, TelegramAuth, ChildOK, Program
<1>1. CASE StartAuth(s)
  BY <1>1 DEF StartAuth, Goto, Become, At
<1>2. CASE Begin(s)
  BY <1>2 DEF Begin, At, Goto, Become
<1>3. CASE TakeTitle(s)
  BY <1>3 DEF TakeTitle, Become, At, Goto
<1>4. CASE Probe(s)
  <2>1. child' = child /\ request' = request /\ child[s].st = "exited"
    BY <1>4 DEF Probe, At
  <2>2. PICK pc \in {"gateway"} : session' = [session EXCEPT ![s] = [session[s] EXCEPT !.pc = pc]]
    BY <1>4 DEF Probe, Goto, Become
  <2>3. session[s].pc = "probe"
    BY <1>4 DEF Probe, At
  <2> QED BY <2>1, <2>2, <2>3
<1>5. CASE FindGateway(s)
  BY <1>5 DEF FindGateway, Goto, Become, At
<1>6. CASE KillallGenDb(s)
  <2>1. session' = [session EXCEPT ![s].pc = "genDb"] /\ request' = request
    BY <1>6 DEF KillallGenDb, Goto, Become
  <2>2. child[s].st = "exited"
    BY <1>6 DEF KillallGenDb, At
  <2>3. child'[s] = child[s] \/ child'[s] = Exited(s)
    BY <1>6 DEF KillallGenDb
  <2>4. child'[s].st = "exited"
    BY <2>2, <2>3 DEF Exited
  <2>5. TextAnswers(s)'
    BY <1>6, <2>1 DEF KillallGenDb, At
  <2> QED BY <2>1, <2>4, <2>5
<1>7. CASE OpenGenDb(s)
  BY <1>7 DEF OpenGenDb, Goto, Become, At, Fresh, Gone
<1> QED BY <1>1, <1>2, <1>3, <1>4, <1>5, <1>6, <1>7

\* What the step makes of its own session: the loop.
LEMMA LoopKept ==
  ASSUME AnswerInv, NEW s \in Session, ReadNothing(s) \/ ReadOk(s) \/ ReadPrompt(s) \/ Ask(s) \/
       FoundText(s) \/ GaveUp(s) \/ Answered(s) \/ Tell(s) \/ ReadErrors(s) \/ Close(s)
  PROVE  TextAnswers(s)' /\ ChildPrompted(s)'
<1> USE TypeParts DEF AnswerInv, TextAnswers, Saw, ChildPrompted, Closed, Silent, Talking,
        SessionOK, TelegramAuth, ChildOK, Program
<1>1. CASE ReadNothing(s)
  BY <1>1 DEF ReadNothing, Goto, Become, At, LoopPc
<1>2. CASE ReadOk(s)
  BY <1>2 DEF ReadOk, Goto, Become, At
<1>3. CASE ReadPrompt(s)
  <2>1. child[s].st \notin {"busy", "empty"} /\ session[s].text = NoText
    BY <1>3 DEF ReadPrompt, At, Prompt
  <2>2. /\ session'[s].pc \in {"tell", "ask"}
        /\ session'[s].pc = "tell" => session'[s].prompt = "phone"
        /\ session'[s].prompt = child[s].out
        /\ session'[s].text = NoText
    BY <1>3, <2>1 DEF ReadPrompt, Become
  <2>3. child'[s] = [child[s] EXCEPT !.out = "none"]
    BY <1>3 DEF ReadPrompt
  <2>4. TextAnswers(s)'
    BY <2>2
  <2>5. child[s].st = "reads" => child[s].at = child[s].out
    BY <1>3 DEF ReadPrompt, Prompt
  <2>6. child'[s].st = child[s].st /\ child'[s].at = child[s].at /\ child'[s].out = "none"
    BY <2>3
  <2>7. Silent(s)'
    BY <2>1, <2>2, <2>5, <2>6
  <2> QED BY <2>1, <2>2, <2>4, <2>6, <2>7
<1>4. CASE Ask(s)
  BY <1>4 DEF Ask, Goto, Become, At
<1>5. CASE FoundText(s)
  <2>1. session[s].dir \in Key
    OBVIOUS
  <2>2. FileAnswers(session[s].dir)
    BY <2>1
  <2>3. session'[s] = [session[s] EXCEPT !.pc = "answered", !.text = file[session[s].dir].data,
                                        !.due = FALSE]
    BY <1>5 DEF FoundText, Become
  <2>4. Saw(file[session[s].dir].data, session[s].dir, session[s].prompt)
    BY <1>5, <2>2 DEF FoundText, FileAnswers
  <2>5. /\ session'[s].pc = "answered"
        /\ session'[s].text = file[session[s].dir].data
        /\ session'[s].dir = session[s].dir
        /\ session'[s].prompt = session[s].prompt
        /\ request' = request
    BY <1>5, <2>3 DEF FoundText
  <2>6. TextAnswers(s)'
    BY <2>4, <2>5
  <2>7. ChildPrompted(s)'
    BY <1>5, <2>3 DEF FoundText, At
  <2> QED BY <2>6, <2>7
<1>6. CASE GaveUp(s)
  BY <1>6 DEF GaveUp, Become, At, Goto
<1>7. CASE Answered(s)
  <2>1. CASE session[s].text = NoText
    <3>1. session'[s] = [session[s] EXCEPT !.pc = "errors", !.prompt = "none"]
      BY <1>7, <2>1 DEF Answered, Become
    <3> QED BY <1>7, <2>1, <3>1 DEF Answered, At
  <2>2. CASE session[s].text # NoText
    <3>1. session'[s] = [session[s] EXCEPT !.pc = "tell"]
      BY <1>7, <2>2 DEF Answered, Goto, Become
    <3> QED BY <1>7, <2>2, <3>1 DEF Answered, At
  <2> QED BY <2>1, <2>2
<1>8. CASE Tell(s)
  BY <1>8 DEF Tell, Become, At, Goto
<1>9. CASE ReadErrors(s)
  <2>1. session[s].text = NoText
    BY <1>9 DEF ReadErrors, At
  <2>2. \/ session'[s] = [session[s] EXCEPT !.pc = LoopPc(session[s].over), !.over = FALSE]
        \/ session'[s] = [session[s] EXCEPT !.pc = "close", !.error = TRUE, !.over = FALSE]
    BY <1>9 DEF ReadErrors, Become
  <2>3. LoopPc(session[s].over) \in {"loop", "close"}
    BY DEF LoopPc
  <2>4. session'[s].pc \in {"loop", "close"} /\ session'[s].text = NoText
    <3>1. CASE session'[s] = [session[s] EXCEPT !.pc = LoopPc(session[s].over), !.over = FALSE]
      <4> DEFINE pc == LoopPc(session[s].over)
      <4> HIDE DEF pc
      <4>1. pc \in {"loop", "close"} /\ session'[s] = [session[s] EXCEPT !.pc = pc, !.over = FALSE]
        BY <2>3, <3>1 DEF pc
      <4> QED BY <2>1, <4>1
    <3>2. CASE session'[s] = [session[s] EXCEPT !.pc = "close", !.error = TRUE, !.over = FALSE]
      BY <2>1, <3>2
    <3> QED BY <2>2, <3>1, <3>2
  <2>5. child'[s].st = child[s].st /\ child'[s].at = child[s].at /\ child'[s].out = child[s].out
    BY <1>9 DEF ReadErrors
  <2>6. child[s].st # "empty"
    BY <1>9 DEF ReadErrors, At
  <2> QED BY <2>4, <2>5, <2>6
<1>10. CASE Close(s)
  BY <1>10 DEF Close, Become, At, Gone, Goto, Fresh
<1> QED BY <1>1, <1>2, <1>3, <1>4, <1>5, <1>6, <1>7, <1>8, <1>9, <1>10

\* What the step makes of its own session: startKeyboard.
LEMMA KeyboardKept ==
  ASSUME AnswerInv, NEW s \in Session, FindKeyboard(s) \/ TakeKeyboardTitle(s) \/
       FindListener(s) \/ OpenTdKeyboard(s) \/ Bot(s) \/ BotAuth(s) \/ Destruct(s)
  PROVE  TextAnswers(s)' /\ ChildPrompted(s)'
<1> USE TypeParts DEF AnswerInv, TextAnswers, Saw, ChildPrompted, Closed, Silent, Talking,
        SessionOK, TelegramAuth, ChildOK, Program
<1>1. CASE FindKeyboard(s)
  <2>1. child' = child /\ request' = request /\ child[s].st = "exited"
    BY <1>1 DEF FindKeyboard, At
  <2>2. PICK pc \in {"destruct", "keyboardTitle"} : session' = [session EXCEPT ![s] = [session[s] EXCEPT !.pc = pc]]
    BY <1>1 DEF FindKeyboard, Goto, Become
  <2>3. session[s].pc = "keyboard"
    BY <1>1 DEF FindKeyboard, At
  <2> QED BY <2>1, <2>2, <2>3
<1>2. CASE TakeKeyboardTitle(s)
  BY <1>2 DEF TakeKeyboardTitle, Become, At, Goto
<1>3. CASE FindListener(s)
  BY <1>3 DEF FindListener, Goto, Become, At
<1>4. CASE OpenTdKeyboard(s)
  BY <1>4 DEF OpenTdKeyboard, Goto, Become, At, Fresh, Gone
<1>5. CASE Bot(s)
  BY <1>5 DEF Bot, Become, At, Goto
<1>6. CASE BotAuth(s)
  BY <1>6 DEF BotAuth, Goto, Become, At
<1>7. CASE Destruct(s)
  <2>1. child' = child /\ request' = request /\ child[s].st = "exited"
    BY <1>7 DEF Destruct, At
  <2>2. PICK pc \in {"end"} : session' = [session EXCEPT ![s] = [session[s] EXCEPT !.pc = pc]]
    BY <1>7 DEF Destruct, Goto, Become
  <2>3. session[s].pc = "destruct"
    BY <1>7 DEF Destruct, At
  <2> QED BY <2>1, <2>2, <2>3
<1> QED BY <1>1, <1>2, <1>3, <1>4, <1>5, <1>6, <1>7

\* What the step makes of its own session: the child and the clock.
LEMMA OutsideKept ==
  ASSUME AnswerInv, NEW s \in Session, Ready(s) \/ NextPrompt(s) \/ Rejected(s) \/ EndOfInput(s) \/
       LoopTime(s) \/ PollTime(s)
  PROVE  TextAnswers(s)' /\ ChildPrompted(s)'
<1> USE TypeParts DEF AnswerInv, TextAnswers, Saw, ChildPrompted, Closed, Silent, Talking,
        SessionOK, TelegramAuth, ChildOK, Program
<1>1. CASE Ready(s)
  BY <1>1 DEF Ready, Exited, Closed, Heard
<1>2. CASE NextPrompt(s)
  <2>1. PICK p \in After(child[s].at) \ {"ready"} :
           child' = [child EXCEPT ![s] =
             Heard(s, IF session[s].dir = "user" /\ p = "first" THEN Exited(s) ELSE Prompted(s, p))]
    BY <1>2 DEF NextPrompt
  <2>2. child[s].st = "busy" /\ child[s].out = "none"
    BY <1>2 DEF NextPrompt
  <2>3. \/ child'[s].st = "exited" /\ child'[s].out = "none"
        \/ child'[s].st = "reads" /\ child'[s].out \in {"none", child'[s].at}
    BY <2>1, <2>2 DEF Exited, Prompted, OnStderr, Heard
  <2>4. session' = session /\ request' = request
    BY <1>2 DEF NextPrompt
  <2>5. session[s].pc \in (Talking \cup {"killed"}) \ {"ask", "poll", "answered", "tell"}
    BY <1>2, <2>2 DEF NextPrompt
  <2>6. TextAnswers(s)'
    BY <2>4
  <2> QED BY <2>3, <2>4, <2>5, <2>6
<1>3. CASE Rejected(s)
  <2> DEFINE again == IF child[s].at = "last" THEN "first" ELSE child[s].at
             x == IF session[s].dir = "user" THEN Exited(s)
                  ELSE [Prompted(s, again) EXCEPT !.err = @ \cup {"error"}]
  <2>1. child' = [child EXCEPT ![s] = Heard(s, x)] /\ session' = session /\ request' = request
    BY <1>3 DEF Rejected
  <2>2. child[s].st = "busy" \/ Closed(s)
    BY <1>3 DEF Rejected
  <2>3. \/ Closed(s) /\ Heard(s, x).out = "none"
        \/ child[s].st = "busy" /\ Heard(s, x).out = x.out
    BY <2>2 DEF Heard, Prompted, Exited
  <2>4. Heard(s, x).st = x.st /\ Heard(s, x).at = x.at
    BY DEF Heard, Prompted, Exited
  <2>5. x.st \in {"exited", "reads"} /\ (child[s].out = "none" => x.out \in {"none", x.at})
    BY DEF Prompted, Exited, OnStderr
  <2>6. child'[s] = Heard(s, x)
    BY <2>1
  <2>7. session[s].pc \in (Talking \cup {"killed"}) \ {"ask", "poll", "answered", "tell"}
    BY <2>2, <1>3 DEF Rejected, Closed
  <2>8. x.st = "exited" => x.out = child[s].out
    BY DEF Prompted, Exited
  <2> HIDE DEF x
  <2>9. child'[s].st = "exited" \/ (child'[s].st = "reads" /\ child'[s].out \in {"none", child'[s].at})
    BY <2>3, <2>4, <2>5, <2>6
  <2> QED BY <2>1, <2>7, <2>9
<1>4. CASE EndOfInput(s)
  BY <1>4 DEF EndOfInput, Closed, Heard
<1>5. CASE LoopTime(s)
  BY <1>5 DEF LoopTime, Become, Goto
<1>6. CASE PollTime(s)
  BY <1>6 DEF PollTime, Become, At, Goto
<1> QED BY <1>1, <1>2, <1>3, <1>4, <1>5, <1>6

\* A session or a child writes a status file without a text; only a request puts one in.
LEMMA FilesKept ==
  ASSUME AnswerInv, NEW s \in Session, StartAuth(s) \/ Login(s) \/ Child(s) \/ Clock(s)
  PROVE  request' = request /\ \A k \in Key : FileAnswers(k)'
<1>1. request' = request
  BY DEF StartAuth, Login, Child, Clock, Begin, TakeTitle, Probe, FindGateway, KillallGenDb,
       OpenGenDb, ReadNothing, ReadOk, ReadPrompt, Ask, FoundText, GaveUp, Answered, Tell,
       ReadErrors, Close, FindKeyboard, TakeKeyboardTitle, FindListener, OpenTdKeyboard, Bot,
       BotAuth, Destruct, Ready, NextPrompt, Rejected, EndOfInput, LoopTime, PollTime
<1>2. ASSUME NEW k \in Key
      PROVE  file'[k] = file[k] \/ file'[k].data = NoText
  <2> USE TypeParts DEF AnswerInv, FileOK, StatusFile
  <2>1. CASE \E st \in Status : UpdateStatus(s, st)
    BY <2>1 DEF UpdateStatus, NoFile
  <2>2. CASE StartAuth(s) \/ Bot(s)
    BY <2>2 DEF StartAuth, Bot, NoFile
  <2>3. CASE Ask(s)
    BY <2>3 DEF Ask, NoFile
  <2>4. CASE UNCHANGED file
    BY <2>4
  <2> QED BY <2>1, <2>2, <2>3, <2>4 DEF Login, Child, Clock, Status, Begin, TakeTitle, Probe,
       FindGateway, KillallGenDb, OpenGenDb, ReadNothing, ReadOk, ReadPrompt, Ask, FoundText,
       GaveUp, Answered, Tell, ReadErrors, Close, FindKeyboard, TakeKeyboardTitle, FindListener,
       OpenTdKeyboard, Bot, BotAuth, Destruct, Ready, NextPrompt, Rejected, EndOfInput, LoopTime,
       PollTime
<1> QED BY <1>1, <1>2 DEF AnswerInv, FileAnswers, Saw

\* A request never changes what it saw, and puts its text only beside it.
LEMMA RequestKept ==
  ASSUME AnswerInv, NEW r \in Request,
         (\E k \in {"gw", "user"} : ReadFile(r, k)) \/ WriteFile(r)
  PROVE  /\ \A k \in Key : FileAnswers(k)'
         /\ \A s \in Session : TextAnswers(s)' /\ ChildPrompted(s)'
<1> USE TypeParts
<1>1. ASSUME NEW q \in Request, NEW k, NEW p, Saw(q, k, p)
      PROVE  /\ request'[q].pc # "new"
             /\ request'[q].key = k
             /\ request'[q].copy.output = p
  <2>1. q # r => request'[q] = request[q]
    BY DEF ReadFile, WriteFile, AnswerInv, RequestOK
  <2>2. CASE WriteFile(r)
    BY <1>1, <2>1, <2>2 DEF WriteFile, Saw, AnswerInv, RequestOK, Command
  <2>3. CASE \E j \in {"gw", "user"} : ReadFile(r, j)
    BY <1>1, <2>1, <2>3 DEF ReadFile, Saw
  <2> QED BY <2>2, <2>3
<1>2. ASSUME NEW k \in Key
      PROVE  FileAnswers(k)'
  <2>1. CASE file'[k] = file[k]
    BY <1>1, <2>1, FileText DEF AnswerInv, FileAnswers, Saw, Text
  <2>2. CASE file'[k] # file[k]
    <3>1. WriteFile(r) /\ k = request[r].key
      BY <2>2 DEF ReadFile, WriteFile, AnswerInv, FileOK, RequestOK, Command
    <3>2. /\ file'[k].data = r
          /\ file'[k].output = request[r].copy.output
          /\ request'[r].pc = "ok"
          /\ request'[r].key = request[r].key
          /\ request'[r].copy = request[r].copy
      BY <3>1 DEF WriteFile, AnswerInv, FileOK, StatusFile, RequestOK, Command
    <3> QED BY <3>1, <3>2 DEF FileAnswers, Saw
  <2> QED BY <2>1, <2>2
<1>3. ASSUME NEW s \in Session
      PROVE  TextAnswers(s)' /\ ChildPrompted(s)'
  <2>1. session' = session /\ child' = child
    BY DEF ReadFile, WriteFile
  <2>2. session[s].text \in Text
    BY DEF AnswerInv, SessionOK, TelegramAuth
  <2>3. TextAnswers(s)'
    BY <1>1, <2>1, <2>2 DEF AnswerInv, TextAnswers, Saw, Text
  <2>4. ChildPrompted(s)'
    BY <2>1 DEF AnswerInv, ChildPrompted, Closed, Silent
  <2> QED BY <2>3, <2>4
<1> QED BY <1>2, <1>3

\* A launcher's DONE has no text and touches no session and no request.
LEMMA LauncherKept ==
  ASSUME AnswerInv, LauncherDone
  PROVE  /\ \A k \in Key : FileAnswers(k)'
         /\ \A s \in Session : TextAnswers(s)' /\ ChildPrompted(s)'
<1>1. ASSUME NEW k \in Key
      PROVE  file'[k] = file[k] \/ file'[k].data = NoText
  BY TypeParts DEF AnswerInv, LauncherDone, FileOK, NoFile
<1>2. \A k \in Key : FileAnswers(k)'
  BY <1>1 DEF LauncherDone, AnswerInv, FileAnswers, Saw
<1>3. \A s \in Session : TextAnswers(s)' /\ ChildPrompted(s)'
  BY DEF LauncherDone, AnswerInv, TextAnswers, Saw, ChildPrompted, Closed, Silent
<1> QED BY <1>2, <1>3

\* No file, session or child holds an answer before the first call.
LEMMA AnswerInit == Init => AnswerInv
<1> SUFFICES ASSUME Init PROVE AnswerInv
  OBVIOUS
<1>1. ASSUME NEW k \in Key PROVE FileAnswers(k)
  BY DEF Init, FileAnswers, NoFile
<1>2. ASSUME NEW s \in Session PROVE TextAnswers(s) /\ ChildPrompted(s)
  BY DEF Init, TextAnswers, ChildPrompted, Closed, Silent, Gone, Fresh, Talking
<1> QED BY <1>1, <1>2, TypeInit DEF AnswerInv

\* The invariant is inductive.
LEMMA AnswerNext == AnswerInv /\ [Next]_vars => AnswerInv'
<1> SUFFICES ASSUME AnswerInv, [Next]_vars PROVE AnswerInv'
  OBVIOUS
<1>1. TypeOK'
  BY TypeNext DEF AnswerInv
<1>2. ASSUME NEW s \in Session, StartAuth(s) \/ Login(s) \/ Child(s) \/ Clock(s)
      PROVE  AnswerInv'
  <2>1. Alone(s) /\ request' = request /\ \A k \in Key : FileAnswers(k)'
    BY <1>2, LoginAlone, FilesKept DEF AnswerInv
  <2>2. TextAnswers(s)' /\ ChildPrompted(s)'
    BY <1>2, StartKept, LoopKept, KeyboardKept, OutsideKept DEF Login, Child, Clock
  <2>3. \A t \in Session \ {s} : TextAnswers(t)' /\ ChildPrompted(t)'
    BY <2>1, OthersKept
  <2> QED BY <1>1, <2>1, <2>2, <2>3 DEF AnswerInv
<1>3. ASSUME NEW r \in Request, (\E k \in {"gw", "user"} : ReadFile(r, k)) \/ WriteFile(r)
      PROVE  AnswerInv'
  BY <1>1, <1>3, RequestKept DEF AnswerInv
<1>4. CASE UNCHANGED vars
  BY <1>1, <1>4 DEF vars, AnswerInv, FileAnswers, TextAnswers, ChildPrompted, Closed, Silent, Saw
<1>5. CASE LauncherDone
  BY <1>1, <1>5, LauncherKept DEF AnswerInv
<1> QED BY <1>2, <1>3, <1>4, <1>5 DEF Next, Browser

\* Only Tell hands a child what it waits for.
LEMMA TellOnly ==
  ASSUME AnswerInv, [Next]_vars, NEW s \in Session,
         child[s].st = "reads", child'[s].st = "busy"
  PROVE  Tell(s)
<1>0. Exited(s).st = "exited" /\ child[s] \in Program
  BY TypeParts DEF Exited, AnswerInv, ChildOK, Program
<1>1. ASSUME NEW t \in Session \ {s}, Alone(t) PROVE FALSE
  BY <1>0, <1>1 DEF Alone
<1>2. child' # child
  OBVIOUS
<1>3. StartAuth(s) \/ Login(s) \/ Child(s) \/ Clock(s)
  BY <1>1, <1>2, LoginAlone DEF Next, Browser, LauncherDone, ReadFile, WriteFile, vars,
     AnswerInv
<1>4. CASE OpenGenDb(s) \/ OpenTdKeyboard(s)
  BY <1>4 DEF OpenGenDb, OpenTdKeyboard, At, AnswerInv, ChildPrompted, Closed, Talking
<1>5. CASE KillallGenDb(s)
  BY <1>0, <1>5 DEF KillallGenDb
<1>6. CASE ReadOk(s) \/ ReadPrompt(s) \/ ReadErrors(s) \/ Close(s)
  BY <1>6, TypeParts DEF ReadOk, ReadPrompt, ReadErrors, Close, Gone, AnswerInv, ChildOK,
       Program
<1>7. CASE Child(s)
  <2>1. EndOfInput(s)
    BY <1>7 DEF Child, Ready, NextPrompt, Rejected
  <2> QED BY <2>1, TypeParts DEF EndOfInput, Heard, AnswerInv, ChildOK, Program
<1> QED BY <1>2, <1>3, <1>4, <1>5, <1>6, <1>7 DEF StartAuth, Login, Clock, Begin, TakeTitle,
     Probe, FindGateway, KillallGenDb, OpenGenDb, ReadNothing, ReadOk, ReadPrompt, Ask,
     FoundText, GaveUp, Answered, Tell, ReadErrors, Close, FindKeyboard, TakeKeyboardTitle,
     FindListener, OpenTdKeyboard, Bot, BotAuth, Destruct, Ready, NextPrompt, Rejected, EndOfInput,
     LoopTime, PollTime

\* For any number of sessions that share the files and any number of requests, at whatever
\* speed: a child gets at a prompt only what was entered for that prompt of that login.
THEOREM AnswersMatch == Spec => AnswerMatchesPrompt
<1>1. ASSUME AnswerInv, [Next]_vars, NEW s \in Session,
             child[s].st = "reads", child[s].at # "phone", child'[s].st = "busy"
      PROVE  \E r \in Request : /\ session[s].text = r
                                /\ request[r].key = session[s].dir
                                /\ request[r].copy.output = child[s].at
  <2>1. At(s, "tell")
    BY <1>1, TellOnly DEF Tell
  <2>2. Silent(s) /\ child[s].at = session[s].prompt
    BY <1>1, <2>1 DEF AnswerInv, ChildPrompted, Closed, Silent, At
  <2>3. session[s].text # NoText
    BY <1>1, <2>1, <2>2 DEF AnswerInv, TextAnswers, At
  <2>4. session[s].text \in Request
    BY <1>1, <2>3, TypeParts DEF AnswerInv, SessionOK, TelegramAuth, Text
  <2>5. Saw(session[s].text, session[s].dir, session[s].prompt)
    BY <1>1, <2>3 DEF AnswerInv, TextAnswers
  <2> QED BY <2>2, <2>4, <2>5 DEF Saw
<1>2. AnswerInv /\ [Next]_vars =>
        [\A s \in Session :
           child[s].st = "reads" /\ child[s].at # "phone" /\ child'[s].st = "busy" =>
             \E r \in Request :
               /\ session[s].text = r
               /\ request[r].key = session[s].dir
               /\ request[r].copy.output = child[s].at]_vars
  BY <1>1
<1> QED BY <1>2, AnswerInit, AnswerNext, PTL DEF Spec, AnswerMatchesPrompt

-----------------------------------------------------------------------------
(***************************************************************************)
(* The argument for DoneMeansLoggedIn.  A session writes DONE for what it  *)
(* was told last; that this is its workDir's login rests on where workDir  *)
(* points at each place of the script and on what the child reported.  A   *)
(* request may put an old DONE back, at any time: it is still true then,   *)
(* because no login is taken back.                                         *)
(***************************************************************************)

\* Where workDir points.
Placed(s) ==
  /\ session[s].pc \in {"off", "begin", "title", "probe", "gateway", "killall", "genDb",
                        "keyboard", "keyboardTitle"} => session[s].dir = "gw"
  /\ session[s].pc = "botAuth" => session[s].dir = "bot"
  /\ session[s].pc = "destruct" => session[s].dir # "user"

\* A child that reports success was let in.
Truthful(s) ==
  /\ child[s].out = "OK" => session[s].dir \in loggedIn
  /\ session[s].pc \notin Talking \cup {"killed"} => child[s].out # "OK"

\* A file f of key k, or a copy of it, does not say DONE wrongly.
Claim(k, f) ==
  f.status = "Done" =>
    /\ k = "user" => "user" \in loggedIn
    /\ k = "gw" /\ f.by = "login" => "gw" \in loggedIn \/ TurnedAway

DoneInv ==
  /\ AnswerInv
  /\ \A s \in Session : Placed(s) /\ Truthful(s)
  /\ \A k \in Key : Claim(k, file[k])
  /\ \A r \in Request : Claim(request[r].key, request[r].copy)

\* A session that ended stays as it is, and no login is taken back.
LEMMA LastingNext ==
  ASSUME TypeOK, [Next]_vars
  PROVE  /\ loggedIn \subseteq loggedIn'
         /\ TurnedAway => TurnedAway'
<1>1. loggedIn \subseteq loggedIn'
  BY DEF Next, Browser, vars, StartAuth, ReadFile, WriteFile, LauncherDone, Login, Child, Clock,
       Begin, TakeTitle, Probe, FindGateway, KillallGenDb, OpenGenDb, ReadNothing, ReadOk,
       ReadPrompt, Ask, FoundText, GaveUp, Answered, Tell, ReadErrors, Close, FindKeyboard,
       TakeKeyboardTitle, FindListener, OpenTdKeyboard, Bot, BotAuth, Destruct, Ready,
       NextPrompt, Rejected, EndOfInput, LoopTime, PollTime
<1>2. ASSUME NEW t \in Session, session[t].pc = "end"
      PROVE  session'[t] = session[t]
  <2>1. CASE session' = session
    BY <2>1
  <2>2. ASSUME NEW s \in Session, StartAuth(s) \/ Login(s) \/ Child(s) \/ Clock(s),
               session' # session
        PROVE  session'[t] = session[t]
    <3>1. session[s].pc # "end"
      BY <2>2 DEF At, Talking, StartAuth, Login, Child, Clock, Begin, TakeTitle, Probe,
           FindGateway, KillallGenDb, OpenGenDb, ReadNothing, ReadOk, ReadPrompt, Ask,
           FoundText, GaveUp, Answered, Tell, ReadErrors, Close, FindKeyboard,
           TakeKeyboardTitle, FindListener, OpenTdKeyboard, Bot, BotAuth, Destruct, Ready,
           NextPrompt, Rejected, EndOfInput, LoopTime, PollTime
    <3>2. t # s
      BY <1>2, <3>1
    <3>3. CASE Begin(s)
      BY <1>2, <3>2, <3>3, TypeParts DEF Begin, Titled, SessionOK
    <3>4. CASE ~Begin(s)
      <4>1. \E x : Become(s, x)
        BY <2>2, <3>4 DEF Goto, StartAuth, Login, Child, Clock, TakeTitle, Probe, FindGateway,
             KillallGenDb, OpenGenDb, ReadNothing, ReadOk, ReadPrompt, Ask, FoundText, GaveUp,
             Answered, Tell, ReadErrors, Close, FindKeyboard, TakeKeyboardTitle, FindListener,
             OpenTdKeyboard, Bot, BotAuth, Destruct, Ready, NextPrompt, Rejected, EndOfInput,
             LoopTime, PollTime
      <4> QED BY <3>2, <4>1, TypeParts DEF Become, SessionOK
    <3> QED BY <3>3, <3>4
  <2> QED BY <2>1, <2>2 DEF Next, Browser, ReadFile, WriteFile, LauncherDone, vars
<1>3. ASSUME TurnedAway PROVE TurnedAway'
  <2>1. PICK t \in Session : At(t, "end") /\ session[t].dir = "gw"
    BY <1>3 DEF TurnedAway
  <2>2. session'[t] = session[t]
    BY <1>2, <2>1 DEF At
  <2>3. At(t, "end")' /\ session'[t].dir = "gw"
    BY <2>1, <2>2 DEF At
  <2> QED BY <2>3 DEF TurnedAway
<1> QED BY <1>1, <1>3

\* So a true DONE stays true, wherever it lies.
LEMMA ClaimStays ==
  ASSUME NEW k, NEW f, Claim(k, f), loggedIn \subseteq loggedIn', TurnedAway => TurnedAway'
  PROVE  Claim(k, f)'
BY DEF Claim

\* The others' workDir and children are left as they are.
LEMMA OthersTruthful ==
  ASSUME DoneInv, NEW s \in Session, Alone(s), loggedIn \subseteq loggedIn',
         NEW t \in Session \ {s}
  PROVE  Placed(t)' /\ Truthful(t)'
<1>1. /\ t \in Session
      /\ session[t] \in TelegramAuth
      /\ child[t] \in Program
      /\ Placed(t) /\ Truthful(t)
  BY TypeParts DEF DoneInv, AnswerInv, SessionOK, ChildOK
<1>2. session'[t] = session[t] \/ session'[t] = [session[t] EXCEPT !.pc = "killed"]
  BY DEF Alone
<1>3. child'[t].out = child[t].out
  BY <1>1 DEF Alone, Exited, Program
<1>4. CASE session'[t] = session[t]
  BY <1>1, <1>3, <1>4 DEF Placed, Truthful
<1>5. CASE session'[t] = [session[t] EXCEPT !.pc = "killed"]
  <2>1. session'[t].pc = "killed" /\ session'[t].dir = session[t].dir
    BY <1>1, <1>5 DEF TelegramAuth
  <2> QED BY <1>1, <1>3, <2>1 DEF Placed, Truthful
<1> QED BY <1>2, <1>4, <1>5

\* What the step makes of its own session.
LEMMA StartTruthful ==
  ASSUME DoneInv, NEW s \in Session, loggedIn \subseteq loggedIn', StartAuth(s) \/ Begin(s) \/
       TakeTitle(s) \/ Probe(s) \/ FindGateway(s) \/ KillallGenDb(s) \/ OpenGenDb(s)
  PROVE  Placed(s)' /\ Truthful(s)'
<1>1. /\ session[s] \in TelegramAuth
      /\ child[s] \in Program
      /\ Placed(s) /\ Truthful(s)
  BY TypeParts DEF DoneInv, AnswerInv, SessionOK, ChildOK
<1>2. /\ session'[s].dir = "gw" /\ session[s].dir = "gw"
      /\ session'[s].pc \in {"begin", "title", "probe", "gateway", "keyboard", "killall",
                             "genDb", "loop"}
      /\ session[s].pc \notin Talking \cup {"killed"}
  <2> USE <1>1, TypeParts DEF DoneInv, AnswerInv, SessionOK, TelegramAuth, Placed, At, Talking
  <2>1. CASE StartAuth(s)
    BY <2>1 DEF StartAuth, Goto, Become
  <2>2. CASE Begin(s)
    BY <2>2 DEF Begin
  <2>3. CASE TakeTitle(s)
    BY <2>3 DEF TakeTitle, Become
  <2>4. CASE Probe(s)
    BY <2>4 DEF Probe, Goto, Become
  <2>5. CASE FindGateway(s)
    BY <2>5 DEF FindGateway, Goto, Become
  <2>6. CASE KillallGenDb(s)
    BY <2>6 DEF KillallGenDb, Goto, Become
  <2>7. CASE OpenGenDb(s)
    BY <2>7 DEF OpenGenDb, Goto, Become
  <2> QED BY <2>1, <2>2, <2>3, <2>4, <2>5, <2>6, <2>7
<1>3. child[s].out # "OK"
  BY <1>1, <1>2 DEF Truthful
<1>4. child'[s] \in {child[s], Exited(s), Fresh}
  BY TypeParts DEF DoneInv, AnswerInv, ChildOK, StartAuth, Begin, TakeTitle, Probe, FindGateway,
     KillallGenDb, OpenGenDb
<1>5. Exited(s).out = child[s].out /\ Fresh.out = "none"
  BY <1>1 DEF Exited, Fresh, Program
<1>6. child'[s].out # "OK"
  BY <1>3, <1>4, <1>5
<1> QED BY <1>2, <1>6 DEF Placed, Truthful

\* The same for the loop: what the child says is only ever forgotten.
LEMMA LoopTruthful ==
  ASSUME DoneInv, NEW s \in Session, loggedIn \subseteq loggedIn', ReadNothing(s) \/ ReadOk(s) \/
       ReadPrompt(s) \/ Ask(s) \/ FoundText(s) \/ GaveUp(s) \/ Answered(s) \/ Tell(s) \/
       ReadErrors(s) \/ Close(s)
  PROVE  Placed(s)' /\ Truthful(s)'
<1>1. /\ session[s] \in TelegramAuth
      /\ child[s] \in Program
      /\ Placed(s) /\ Truthful(s)
  BY TypeParts DEF DoneInv, AnswerInv, SessionOK, ChildOK
<1>2. /\ session'[s].dir = session[s].dir
      /\ \/ session'[s].pc \in Talking
         \/ Close(s) /\ session'[s].pc = IF session[s].dir = "gw" THEN "keyboard" ELSE "bot"
  <2> USE <1>1, TypeParts DEF DoneInv, AnswerInv, SessionOK, TelegramAuth, Talking
  <2>1. CASE ReadNothing(s)
    BY <2>1 DEF ReadNothing, Goto, Become, LoopPc
  <2>2. CASE ReadOk(s)
    BY <2>2 DEF ReadOk, Goto, Become
  <2>3. CASE ReadPrompt(s)
    BY <2>3 DEF ReadPrompt, Become
  <2>4. CASE Ask(s)
    BY <2>4 DEF Ask, Goto, Become
  <2>5. CASE FoundText(s)
    BY <2>5 DEF FoundText, Become
  <2>6. CASE GaveUp(s)
    BY <2>6 DEF GaveUp, Become
  <2>7. CASE Answered(s)
    <3>1. \/ session' = [session EXCEPT ![s] = [session[s] EXCEPT !.pc = "errors",
                                                                 !.prompt = "none"]]
          \/ session' = [session EXCEPT ![s] = [session[s] EXCEPT !.pc = "tell"]]
      BY <2>7 DEF Answered, Goto, Become
    <3>2. CASE session' = [session EXCEPT ![s] = [session[s] EXCEPT !.pc = "errors",
                                                                  !.prompt = "none"]]
      BY <3>2
    <3>3. CASE session' = [session EXCEPT ![s] = [session[s] EXCEPT !.pc = "tell"]]
      BY <3>3
    <3> QED BY <3>1, <3>2, <3>3
  <2>8. CASE Tell(s)
    BY <2>8 DEF Tell, Become
  <2>9. CASE ReadErrors(s)
    <3> DEFINE pc == LoopPc(session[s].over)
    <3>1. pc \in {"loop", "close"}
      BY DEF LoopPc
    <3>2. \/ session' = [session EXCEPT ![s] = [session[s] EXCEPT !.pc = pc, !.over = FALSE]]
          \/ session' = [session EXCEPT ![s] = [session[s] EXCEPT !.pc = "close", !.error = TRUE,
                                                                 !.over = FALSE]]
      BY <2>9 DEF ReadErrors, Become
    <3> HIDE DEF pc
    <3>3. CASE session' = [session EXCEPT ![s] = [session[s] EXCEPT !.pc = pc, !.over = FALSE]]
      BY <3>1, <3>3
    <3>4. CASE session' = [session EXCEPT ![s] = [session[s] EXCEPT !.pc = "close", !.error = TRUE,
                                                                  !.over = FALSE]]
      BY <3>4
    <3> QED BY <3>2, <3>3, <3>4
  <2>10. CASE Close(s)
    BY <2>10 DEF Close, Become
  <2> QED BY <2>1, <2>2, <2>3, <2>4, <2>5, <2>6, <2>7, <2>8, <2>9, <2>10
<1>3. child'[s].out \in {child[s].out, "none"} /\ (Close(s) => child'[s].out = "none")
  BY <1>1, TypeParts DEF DoneInv, AnswerInv, ChildOK, Program, ReadNothing, ReadOk, ReadPrompt,
     Ask, FoundText, GaveUp, Answered, Tell, ReadErrors, Close, Gone, Fresh
<1>4. Placed(s)'
  BY <1>2 DEF Placed, Talking
<1>5. Truthful(s)'
  BY <1>1, <1>2, <1>3 DEF Truthful
<1> QED BY <1>4, <1>5

\* The same for startKeyboard and the destructor: no child runs by then.
LEMMA KeyboardTruthful ==
  ASSUME DoneInv, NEW s \in Session, loggedIn \subseteq loggedIn', FindKeyboard(s) \/
       TakeKeyboardTitle(s) \/ FindListener(s) \/ OpenTdKeyboard(s) \/ Bot(s) \/ BotAuth(s) \/
       Destruct(s)
  PROVE  Placed(s)' /\ Truthful(s)'
<1>1. /\ session[s] \in TelegramAuth
      /\ child[s] \in Program
      /\ Placed(s) /\ Truthful(s)
  BY TypeParts DEF DoneInv, AnswerInv, SessionOK, ChildOK
<1>2. Placed(s)' /\ session[s].pc \notin Talking \cup {"killed"}
  <2> USE <1>1, TypeParts DEF DoneInv, AnswerInv, SessionOK, TelegramAuth, Talking, Placed, At
  <2>1. CASE FindKeyboard(s)
    BY <2>1 DEF FindKeyboard, Goto, Become
  <2>2. CASE TakeKeyboardTitle(s)
    BY <2>2 DEF TakeKeyboardTitle, Become
  <2>3. CASE FindListener(s)
    BY <2>3 DEF FindListener, Goto, Become
  <2>4. CASE OpenTdKeyboard(s)
    BY <2>4 DEF OpenTdKeyboard, Goto, Become
  <2>5. CASE Bot(s)
    BY <2>5 DEF Bot, Become
  <2>6. CASE BotAuth(s)
    BY <2>6 DEF BotAuth, Goto, Become
  <2>7. CASE Destruct(s)
    BY <2>7 DEF Destruct, Goto, Become
  <2> QED BY <2>1, <2>2, <2>3, <2>4, <2>5, <2>6, <2>7
<1>3. child[s].out # "OK"
  BY <1>1, <1>2 DEF Truthful
<1>4. child'[s].out # "OK"
  BY <1>1, <1>3, TypeParts DEF DoneInv, AnswerInv, ChildOK, Program, FindKeyboard,
     TakeKeyboardTitle, FindListener, OpenTdKeyboard, Bot, BotAuth, Destruct, Fresh
<1> QED BY <1>2, <1>4 DEF Truthful

\* The child says OK only when TDLib's database is authorised.
LEMMA OutsideTruthful ==
  ASSUME DoneInv, NEW s \in Session, loggedIn \subseteq loggedIn', Child(s) \/ Clock(s)
  PROVE  Placed(s)' /\ Truthful(s)'
<1>1. /\ session[s] \in TelegramAuth
      /\ child[s] \in Program
      /\ Placed(s) /\ Truthful(s)
  BY TypeParts DEF DoneInv, AnswerInv, SessionOK, ChildOK
<1>2. session'[s].pc = session[s].pc /\ session'[s].dir = session[s].dir
  <2>1. CASE session' = session
    BY <2>1
  <2>2. CASE LoopTime(s) \/ PollTime(s)
    <3>1. \/ session' = [session EXCEPT ![s] = [session[s] EXCEPT !.late = TRUE]]
          \/ session' = [session EXCEPT ![s] = [session[s] EXCEPT !.late = TRUE, !.due = TRUE]]
      BY <2>2 DEF LoopTime, PollTime, Become
    <3>2. session \in [Session -> TelegramAuth]
      BY TypeParts DEF DoneInv, AnswerInv, SessionOK
    <3>3. CASE session' = [session EXCEPT ![s] = [session[s] EXCEPT !.late = TRUE]]
      BY <3>2, <3>3 DEF TelegramAuth
    <3>4. CASE session' = [session EXCEPT ![s] = [session[s] EXCEPT !.late = TRUE, !.due = TRUE]]
      BY <3>2, <3>4 DEF TelegramAuth
    <3> QED BY <3>1, <3>3, <3>4
  <2> QED BY <2>1, <2>2 DEF Child, Clock, Ready, NextPrompt, Rejected, EndOfInput
<1>3. child'[s].out = "OK" =>
        \/ child[s].out = "OK"
        \/ /\ session[s].dir \in loggedIn'
           /\ session[s].pc \in Talking \cup {"killed"}
  <2> USE <1>1, TypeParts DEF DoneInv, AnswerInv, ChildOK, Program
  <2>1. CASE Ready(s)
    <3>1. session[s].dir \in loggedIn'
      BY <2>1 DEF Ready
    <3>2. session[s].pc \in Talking \cup {"killed"}
      BY <2>1 DEF Ready, ChildPrompted
    <3> QED BY <3>1, <3>2
  <2>2. CASE NextPrompt(s)
    <3>1. PICK p \in After(child[s].at) \ {"ready"} :
             child' = [child EXCEPT ![s] =
               Heard(s, IF session[s].dir = "user" /\ p = "first" THEN Exited(s) ELSE Prompted(s, p))]
      BY <2>2 DEF NextPrompt
    <3>2. p # "OK"
      BY <3>1, AfterType, ChildAt DEF Prompt
    <3> QED BY <3>1, <3>2 DEF Exited, Prompted, Heard
  <2>3. CASE Rejected(s)
    <3> DEFINE again == IF child[s].at = "last" THEN "first" ELSE child[s].at
               x == IF session[s].dir = "user" THEN Exited(s)
                    ELSE [Prompted(s, again) EXCEPT !.err = @ \cup {"error"}]
    <3>1. child' = [child EXCEPT ![s] = Heard(s, x)]
      BY <2>3 DEF Rejected
    <3>2. again # "OK"
      BY <2>3 DEF Rejected, Prompt
    <3>3. x.out = "OK" => child[s].out = "OK"
      BY <3>2 DEF Exited, Prompted
    <3>4. Heard(s, x).out = "OK" => x.out = "OK"
      BY DEF Heard, Exited, Prompted
    <3> HIDE DEF x
    <3> QED BY <3>1, <3>3, <3>4
  <2>4. CASE EndOfInput(s)
    BY <2>4 DEF EndOfInput, Heard
  <2>5. CASE Clock(s)
    BY <2>5 DEF Clock, LoopTime, PollTime
  <2> QED BY <2>1, <2>2, <2>3, <2>4, <2>5 DEF Child
<1>4. Placed(s)'
  BY <1>1, <1>2 DEF Placed
<1>5. Truthful(s)'
  BY <1>1, <1>2, <1>3 DEF Truthful
<1> QED BY <1>4, <1>5

\* Who writes DONE tells the truth.
LEMMA WrittenTruly ==
  ASSUME DoneInv, NEW s \in Session,
         StartAuth(s) \/ Login(s) \/ Child(s) \/ Clock(s), NEW k \in Key
  PROVE  file'[k] = file[k] \/ Claim(k, file[k])'
<1>1. /\ session[s] \in TelegramAuth
      /\ child[s] \in Program
      /\ file \in [Key -> StatusFile]
      /\ Placed(s) /\ Truthful(s)
      /\ session[s].dir \in Key
  BY TypeParts DEF DoneInv, AnswerInv, SessionOK, ChildOK, FileOK, TelegramAuth
<1>2. CASE UNCHANGED file
  BY <1>2
<1>3. CASE StartAuth(s) \/ Bot(s) \/ Ask(s)
  <2>1. file'[k] = file[k] \/ file'[k].status \in {"StartAuth", "WaitInput"}
    BY <1>1, <1>3 DEF StartAuth, Bot, Ask, NoFile
  <2> QED BY <2>1 DEF Claim
<1>4. ASSUME NEW st \in {"WaitTgResponse", "Error"}, UpdateStatus(s, st)
      PROVE  file'[k] = file[k] \/ Claim(k, file[k])'
  <2>1. file'[k] = file[k] \/ file'[k].status = st
    BY <1>1, <1>4 DEF UpdateStatus, NoFile
  <2> QED BY <1>4, <2>1 DEF Claim
<1>5. CASE UpdateStatus(s, "Done") /\ ((Probe(s) /\ "gw" \in loggedIn) \/ ReadOk(s))
  <2>1. session[s].dir \in loggedIn'
    <3>1. CASE Probe(s) /\ "gw" \in loggedIn
      BY <1>1, <3>1 DEF Probe, Placed, At
    <3>2. CASE ReadOk(s)
      BY <1>1, <3>2 DEF ReadOk, Truthful
    <3> QED BY <1>5, <3>1, <3>2
  <2>2. file'[k] = file[k] \/ k = session[s].dir
    BY <1>1, <1>5 DEF UpdateStatus
  <2> QED BY <2>1, <2>2 DEF Claim
<1>6. CASE UpdateStatus(s, "Done") /\ BotAuth(s)
  <2>1. session[s].dir = "bot"
    BY <1>1, <1>6 DEF BotAuth, Placed, At
  <2>2. file'[k] = file[k] \/ k = "bot"
    BY <1>1, <1>6, <2>1 DEF UpdateStatus
  <2> QED BY <2>2 DEF Claim
<1>7. CASE UpdateStatus(s, "Done") /\ Destruct(s)
  <2>1. session[s].dir \in {"gw", "bot"}
    BY <1>1, <1>7 DEF Destruct, Placed, At, Key
  <2>2. file'[k] = file[k] \/ k = session[s].dir
    BY <1>1, <1>7 DEF UpdateStatus
  <2>3. session'[s].pc = "end" /\ session'[s].dir = session[s].dir
    BY <1>1, <1>7, TypeParts DEF Destruct, Goto, Become, DoneInv, AnswerInv, SessionOK,
       TelegramAuth
  <2>4. session[s].dir = "gw" => TurnedAway'
    BY <2>3 DEF TurnedAway, At
  <2> QED BY <2>1, <2>2, <2>4 DEF Claim
<1> QED BY <1>2, <1>3, <1>4, <1>5, <1>6, <1>7 DEF StartAuth, Login, Child, Clock, Begin,
     TakeTitle, Probe, FindGateway, KillallGenDb, OpenGenDb, ReadNothing, ReadOk, ReadPrompt,
     Ask, FoundText, GaveUp, Answered, Tell, ReadErrors, Close, FindKeyboard,
     TakeKeyboardTitle, FindListener, OpenTdKeyboard, Bot, BotAuth, Destruct, Ready,
     NextPrompt, Rejected, EndOfInput, LoopTime, PollTime

\* A request keeps a claim of the file it read, and puts it back as it is.
LEMMA CopiedTruly ==
  ASSUME DoneInv, NEW r \in Request,
         (\E k \in {"gw", "user"} : ReadFile(r, k)) \/ WriteFile(r)
  PROVE  /\ UNCHANGED <<session, child, loggedIn>>
         /\ \A k \in Key : Claim(k, file'[k])
         /\ \A q \in Request : Claim(request'[q].key, request'[q].copy)
<1>1. /\ file \in [Key -> StatusFile]
      /\ request \in [Request -> Command]
      /\ \A k \in Key : Claim(k, file[k])
      /\ \A q \in Request : Claim(request[q].key, request[q].copy)
  BY TypeParts DEF DoneInv, AnswerInv, FileOK, RequestOK
<1>2. UNCHANGED <<session, child, loggedIn>>
  BY DEF ReadFile, WriteFile
<1>3. ASSUME NEW k \in {"gw", "user"}, ReadFile(r, k), NEW q \in Request
      PROVE  Claim(request'[q].key, request'[q].copy)
  <2>1. k \in Key
    BY DEF Key
  <2>2. \/ /\ request'[q].key = request[q].key
           /\ request'[q].copy = request[q].copy
        \/ /\ request'[q].key = k
           /\ request'[q].copy = file[k]
    BY <1>1, <1>3 DEF ReadFile, Command
  <2>3. Claim(request[q].key, request[q].copy) /\ Claim(k, file[k])
    BY <1>1, <2>1
  <2> QED BY <2>2, <2>3
<1>4. CASE \E k \in {"gw", "user"} : ReadFile(r, k)
  <2>1. file' = file
    BY <1>4 DEF ReadFile
  <2> QED BY <1>1, <1>2, <1>3, <1>4, <2>1
<1>5. CASE WriteFile(r)
  <2>1. \A q \in Request : request'[q].key = request[q].key /\ request'[q].copy = request[q].copy
    BY <1>1, <1>5 DEF WriteFile, Command
  <2>2. ASSUME NEW k \in Key
        PROVE  Claim(k, file'[k])
    <3>1. CASE k # request[r].key
      BY <1>1, <1>5, <3>1 DEF WriteFile
    <3>2. CASE k = request[r].key
      <4>1. /\ file'[k].status = request[r].copy.status
            /\ file'[k].by = request[r].copy.by
        BY <1>1, <1>5, <3>2 DEF WriteFile, Command, StatusFile
      <4>2. Claim(k, request[r].copy)
        BY <1>1, <3>2
      <4> QED BY <4>1, <4>2 DEF Claim
    <3> QED BY <3>1, <3>2
  <2> QED BY <1>1, <1>2, <2>1, <2>2
<1> QED BY <1>4, <1>5

\* What is on disk at the start is true.
LEMMA DoneInit == Init => DoneInv
<1> SUFFICES ASSUME Init PROVE DoneInv
  OBVIOUS
<1>1. AnswerInv
  BY AnswerInit
<1>2. \A s \in Session : Placed(s) /\ Truthful(s)
  BY DEF Init, Placed, Truthful, Gone, Fresh
<1>3. \A k \in Key : Claim(k, file[k])
  BY DEF Init, Claim, NoFile
<1>4. \A r \in Request : Claim(request[r].key, request[r].copy)
  BY DEF Init, Claim, NoFile
<1> QED BY <1>1, <1>2, <1>3, <1>4 DEF DoneInv

\* The invariant is inductive.
LEMMA DoneNext == DoneInv /\ [Next]_vars => DoneInv'
<1> SUFFICES ASSUME DoneInv, [Next]_vars PROVE DoneInv'
  OBVIOUS
<1>1. AnswerInv' /\ TypeOK
  BY AnswerNext DEF DoneInv, AnswerInv
<1>2. loggedIn \subseteq loggedIn' /\ (TurnedAway => TurnedAway')
  BY <1>1, LastingNext
<1>3. ASSUME NEW k, NEW f, Claim(k, f)
      PROVE  Claim(k, f)'
  BY <1>2, <1>3, ClaimStays
<1>4. ASSUME NEW s \in Session, StartAuth(s) \/ Login(s) \/ Child(s) \/ Clock(s)
      PROVE  DoneInv'
  <2>1. Alone(s) /\ request' = request
    BY <1>1, <1>4, LoginAlone, FilesKept DEF DoneInv
  <2>2. Placed(s)' /\ Truthful(s)'
    BY <1>2, <1>4, StartTruthful, LoopTruthful, KeyboardTruthful, OutsideTruthful DEF Login
  <2>3. \A t \in Session \ {s} : Placed(t)' /\ Truthful(t)'
    BY <1>2, <2>1, OthersTruthful
  <2>4. \A k \in Key : Claim(k, file[k])'
    BY <1>2, <1>4, WrittenTruly DEF DoneInv, Claim
  <2>5. \A r \in Request : Claim(request[r].key, request[r].copy)'
    BY <1>2, <2>1 DEF DoneInv, Claim
  <2> QED BY <1>1, <2>2, <2>3, <2>4, <2>5 DEF DoneInv
<1>5. ASSUME NEW r \in Request, (\E k \in {"gw", "user"} : ReadFile(r, k)) \/ WriteFile(r)
      PROVE  DoneInv'
  <2>1. /\ UNCHANGED <<session, child, loggedIn>>
        /\ \A k \in Key : Claim(k, file'[k])
        /\ \A q \in Request : Claim(request'[q].key, request'[q].copy)
    BY <1>5, CopiedTruly
  <2>2. \A s \in Session : Placed(s)' /\ Truthful(s)'
    BY <2>1 DEF DoneInv, Placed, Truthful
  <2>3. /\ \A k \in Key : Claim(k, file[k])'
        /\ \A q \in Request : Claim(request[q].key, request[q].copy)'
    BY <1>2, <2>1 DEF Claim
  <2> QED BY <1>1, <2>2, <2>3 DEF DoneInv
<1>6. CASE LauncherDone
  <2>1. \A s \in Session : Placed(s)' /\ Truthful(s)'
    BY <1>6 DEF LauncherDone, DoneInv, Placed, Truthful
  <2>2. file \in [Key -> StatusFile]
    BY <1>1, TypeParts DEF FileOK
  <2>3. /\ \A k \in Key \ {"gw"} : file'[k] = file[k]
        /\ file'["gw"].by = "launcher"
    BY <1>6, <2>2 DEF LauncherDone, NoFile, Key
  <2>4. \A k \in Key : Claim(k, file[k])'
    BY <1>2, <2>3 DEF DoneInv, Claim
  <2>5. \A r \in Request : Claim(request[r].key, request[r].copy)'
    BY <1>2, <1>6 DEF LauncherDone, DoneInv, Claim
  <2> QED BY <1>1, <2>1, <2>4, <2>5 DEF DoneInv
<1>7. CASE UNCHANGED vars
  <2>1. TurnedAway' = TurnedAway
    BY <1>7 DEF vars, TurnedAway, At
  <2> QED BY <1>1, <1>7, <2>1 DEF vars, DoneInv, Placed, Truthful, Claim
<1> QED BY <1>4, <1>5, <1>6, <1>7 DEF Next, Browser

\* For any number of sessions, requests and launchers that write the files between each
\* other's steps: a file says DONE of a login that did not succeed only after a session was
\* turned away by another one, or when a launcher wrote it.
THEOREM DoneIsTrue == Spec => []DoneMeansLoggedIn
<1>1. DoneInv => DoneMeansLoggedIn
  <2> SUFFICES ASSUME DoneInv PROVE DoneMeansLoggedIn
    OBVIOUS
  <2>1. Claim("user", file["user"]) /\ Claim("gw", file["gw"])
    BY DEF DoneInv, Key
  <2> QED BY <2>1 DEF Claim, DoneMeansLoggedIn
<1> QED BY <1>1, DoneInit, DoneNext, PTL DEF Spec
=============================================================================
