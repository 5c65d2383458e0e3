--------------------------- MODULE FrontEndsProofs ---------------------------
(***************************************************************************)
(* The front ends of the agent kernel, for every number of prompts, turns, *)
(* tasks, words and chunks: what the threads of a session may do while     *)
(* another of them has been let in already, what becomes of words entered  *)
(* while a run is on, and what the fence filter lets through.              *)
(***************************************************************************)
EXTENDS FrontEnds, FenceFilterProofs

(* The web desktop. *)

\* A turn that saw the cancel, or may still see it, ran when it came.
WebInv ==
    /\ turn \in [Task -> {"none", "started", "reading", "read", "quitting", "settling", "over"}]
    /\ cancelReq => \A t \in Task : turn[t] \notin {"none", "over"} => t \in cancelled
    /\ \A t \in Task : turn[t] = "quitting" => t \in cancelled
    /\ SilentOnlyIfCancelled

LEMMA WebStarts == WebInit => WebInv
BY DEF WebInit, WebInv, SilentOnlyIfCancelled

LEMMA WebKeeps == ASSUME WebInv, WebNext PROVE WebInv'
<1>1. CASE Submit
  <2>1. turn' = [turn EXCEPT ![turns'] = "started"] /\ ~cancelReq' /\ UNCHANGED <<answered, cancelled>>
    BY <1>1 DEF Submit, CancelAfterSubmit
  <2> QED BY <2>1 DEF WebInv, SilentOnlyIfCancelled
<1>2. ASSUME NEW t \in Task, TurnThread(t) PROVE WebInv'
  <2>1. CASE PutTurnTask(t)
    BY <2>1 DEF PutTurnTask, Steps, WebInv, SilentOnlyIfCancelled
  <2>2. CASE Leave(t)
    BY <2>2 DEF Leave, Steps, WebInv, SilentOnlyIfCancelled
  <2>3. CASE Read(t)
    BY <2>3 DEF Read, WebInv, SilentOnlyIfCancelled
  <2>4. CASE Look(t)
    BY <2>4 DEF Look, Steps, WebInv, SilentOnlyIfCancelled
  <2>5. CASE Quit(t)
    BY <2>5 DEF Quit, Ends, Steps, WebInv, SilentOnlyIfCancelled
  <2>6. CASE SettleTurn(t)
    BY <2>6 DEF SettleTurn, Ends, Steps, WebInv, SilentOnlyIfCancelled
  <2>7. CASE TurnFails(t)
    BY <2>7 DEF TurnFails, Ends, WebInv, SilentOnlyIfCancelled
  <2> QED BY <1>2, <2>1, <2>2, <2>3, <2>4, <2>5, <2>6, <2>7 DEF TurnThread
<1>3. CASE CancelTurn \/ Canceller
  BY <1>3 DEF CancelTurn, Canceller, CancelAborts, CancelSets, CancelEnds, wvars, WebInv,
              SilentOnlyIfCancelled
<1>4. CASE UNCHANGED wvars
  BY <1>4 DEF wvars, WebInv, SilentOnlyIfCancelled
<1> QED BY <1>1, <1>2, <1>3, <1>4 DEF WebNext
-----------------------------------------------------------------------------
(* The ACP bridge. *)

Stands == {"none", "accepted", "draining", "drained", "answering", "over"}
Lines == {"update", "result", "error"} \X Prompts

\* One prompt at a time holds the session; the id its thread keeps for the
\* answer is its own; a prompt whose answer is written is over.
AcpInv ==
    /\ stand \in [Prompts -> Stands]
    /\ finished \in [Prompts -> Prompts \cup {"none"}]
    /\ lines \in Seq(Lines)
    /\ \A p \in Prompts : stand[p] \in {"accepted", "draining", "drained"} => current = p
    /\ \A p \in Prompts : stand[p] = "answering" => finished[p] = p
    /\ \A i \in 1 .. Len(lines) : lines[i][1] # "update" => stand[lines[i][2]] = "over"
    /\ AnswerCloses

LEMMA AcpStarts == AcpInit => AcpInv
<1> SUFFICES ASSUME AcpInit PROVE AcpInv OBVIOUS
<1>1. lines = <<>> /\ lines \in Seq(Lines) /\ Len(lines) = 0 BY EmptySeq DEF AcpInit
<1> QED BY <1>1 DEF AcpInit, AcpInv, Stands, AnswerCloses

\* A line of a prompt that is not over may follow, and a thread of its go on.
LEMMA WriteKeeps ==
    ASSUME AcpInv, NEW p \in Prompts, stand[p] # "over",
           NEW what \in {"update", "result", "error"}, Write(what, p),
           NEW to \in Stands, stand' = [stand EXCEPT ![p] = to],
           what = "update" \/ to = "over"
    PROVE  /\ lines' \in Seq(Lines)
           /\ \A i \in 1 .. Len(lines') : lines'[i][1] # "update" => stand'[lines'[i][2]] = "over"
           /\ AnswerCloses'
<1> DEFINE e == <<what, p>>
<1>1. lines \in Seq(Lines) /\ stand \in [Prompts -> Stands] /\ e \in Lines
  BY DEF AcpInv, Lines
<1>2. /\ lines' \in Seq(Lines) /\ Len(lines') = Len(lines) + 1
      /\ \A i \in 1 .. Len(lines) : lines'[i] = lines[i]
      /\ lines'[Len(lines) + 1] = e
  BY <1>1, AppendProperties DEF Write
<1>3. Len(lines) \in Nat /\ \A i \in 1 .. Len(lines) : lines[i] \in Lines
  BY <1>1, LenProperties, ElementOfSeq
<1>4. \A i \in 1 .. Len(lines) : lines[i][2] = p => lines[i][1] = "update"
  BY DEF AcpInv
<1>5. \A i \in 1 .. Len(lines) : lines[i][2] # p => stand'[lines[i][2]] = stand[lines[i][2]]
  BY <1>1, <1>3 DEF Lines
<1>6. \A i \in 1 .. Len(lines') : lines'[i][1] # "update" => stand'[lines'[i][2]] = "over"
  <2> SUFFICES ASSUME NEW i \in 1 .. Len(lines'), lines'[i][1] # "update"
               PROVE stand'[lines'[i][2]] = "over"
    OBVIOUS
  <2>1. CASE i = Len(lines) + 1
    <3>1. lines'[i] = e /\ what # "update" BY <1>2, <2>1
    <3> QED BY <1>1, <3>1
  <2>2. CASE i # Len(lines) + 1
    <3>1. i \in 1 .. Len(lines) /\ lines'[i] = lines[i] BY <1>2, <1>3, <2>2
    <3>2. lines[i][2] # p BY <1>4, <3>1
    <3> QED BY <1>5, <3>1, <3>2 DEF AcpInv
  <2> QED BY <2>1, <2>2
<1>7. DOMAIN lines = 1 .. Len(lines) /\ DOMAIN lines' = 1 .. Len(lines')
  BY <1>1, <1>2, LenProperties
<1>8. AnswerCloses'
  <2> SUFFICES ASSUME NEW i \in 1 .. Len(lines'), NEW j \in 1 .. Len(lines'),
                      i < j, lines'[i][2] = lines'[j][2]
               PROVE lines'[i][1] = "update"
    BY <1>7 DEF AnswerCloses
  <2>1. i \in 1 .. Len(lines) /\ lines'[i] = lines[i] BY <1>2, <1>3
  <2>2. CASE j = Len(lines) + 1
    <3>1. lines'[j][2] = p BY <1>2, <2>2
    <3> QED BY <1>4, <2>1, <3>1
  <2>3. CASE j # Len(lines) + 1
    <3>1. j \in 1 .. Len(lines) BY <1>2, <1>3, <2>3
    <3>2. lines'[j] = lines[j] BY <1>2, <3>1
    <3> QED BY <1>7, <2>1, <3>1, <3>2 DEF AcpInv, AnswerCloses
  <2> QED BY <2>2, <2>3
<1> QED BY <1>2, <1>6, <1>8

\* Without a line, a prompt may go anywhere from where it is not over.
LEMMA QuietKeeps ==
    ASSUME AcpInv, UNCHANGED lines, NEW p \in Prompts, stand[p] # "over",
           NEW to \in Stands, stand' = [stand EXCEPT ![p] = to]
    PROVE  /\ lines' \in Seq(Lines)
           /\ \A i \in 1 .. Len(lines') : lines'[i][1] # "update" => stand'[lines'[i][2]] = "over"
           /\ AnswerCloses'
<1>1. lines \in Seq(Lines) /\ stand \in [Prompts -> Stands] BY DEF AcpInv
<1>2. \A i \in 1 .. Len(lines) : lines[i] \in Lines BY <1>1, ElementOfSeq
<1>3. \A i \in 1 .. Len(lines) :
         lines[i][1] # "update" => stand[lines[i][2]] = "over" /\ lines[i][2] # p /\ lines[i][2] \in Prompts
  BY <1>2 DEF AcpInv, Lines
<1>4. \A i \in 1 .. Len(lines) : lines[i][1] # "update" => stand'[lines[i][2]] = "over"
  BY <1>1, <1>3
<1>5. AnswerCloses' BY DEF AcpInv, AnswerCloses
<1> QED BY <1>1, <1>4, <1>5

LEMMA AcpKeeps == ASSUME AcpInv, AcpNext PROVE AcpInv'
<1>1. stand \in [Prompts -> Stands] /\ finished \in [Prompts -> Prompts \cup {"none"}]
  BY DEF AcpInv
<1>2. ASSUME NEW p \in Prompts, Prompt(p) PROVE AcpInv'
  <2>1. CASE Free
    <3>1. /\ stand[p] = "none" /\ stand' = [stand EXCEPT ![p] = "accepted"]
          /\ current = "none" /\ current' = p /\ UNCHANGED <<lines, finished>>
      BY <1>2, <2>1 DEF Prompt, Moves, Free
    <3>2. \A q \in Prompts : stand[q] \notin {"accepted", "draining", "drained"}
      BY <3>1, AcpAssumption DEF AcpInv
    <3>3. /\ lines' \in Seq(Lines)
          /\ \A i \in 1 .. Len(lines') : lines'[i][1] # "update" => stand'[lines'[i][2]] = "over"
          /\ AnswerCloses'
      BY <3>1, QuietKeeps DEF Stands
    <3> QED BY <1>1, <3>1, <3>2, <3>3 DEF AcpInv, Stands
  <2>2. CASE ~Free
    <3>1. /\ stand[p] = "none" /\ stand' = [stand EXCEPT ![p] = "over"]
          /\ Write("error", p) /\ UNCHANGED <<current, finished>>
      BY <1>2, <2>2 DEF Prompt, Moves
    <3>2. /\ lines' \in Seq(Lines)
          /\ \A i \in 1 .. Len(lines') : lines'[i][1] # "update" => stand'[lines'[i][2]] = "over"
          /\ AnswerCloses'
      BY <3>1, WriteKeeps DEF Stands
    <3> QED BY <1>1, <3>1, <3>2 DEF AcpInv, Stands
  <2> QED BY <2>1, <2>2
<1>3. ASSUME NEW p \in Prompts, PutPromptTask(p) PROVE AcpInv'
  <2>1. /\ stand[p] = "accepted" /\ stand' = [stand EXCEPT ![p] = "draining"]
        /\ UNCHANGED <<lines, current, finished>>
    BY <1>3 DEF PutPromptTask, Moves
  <2>2. /\ lines' \in Seq(Lines)
        /\ \A i \in 1 .. Len(lines') : lines'[i][1] # "update" => stand'[lines'[i][2]] = "over"
        /\ AnswerCloses'
    BY <2>1, QuietKeeps DEF Stands
  <2> QED BY <1>1, <2>1, <2>2 DEF AcpInv, Stands
<1>4. ASSUME NEW p \in Prompts, Drain(p) PROVE AcpInv'
  <2>1. PICK to \in {"draining", "drained"} :
           /\ stand[p] = "draining" /\ stand' = [stand EXCEPT ![p] = to]
           /\ Write("update", p) \/ UNCHANGED lines
           /\ UNCHANGED <<current, finished>>
    BY <1>1, <1>4 DEF Drain
  <2>2. /\ lines' \in Seq(Lines)
        /\ \A i \in 1 .. Len(lines') : lines'[i][1] # "update" => stand'[lines'[i][2]] = "over"
        /\ AnswerCloses'
    BY <2>1, QuietKeeps, WriteKeeps DEF Stands
  <2> QED BY <1>1, <2>1, <2>2 DEF AcpInv, Stands
<1>5. ASSUME NEW p \in Prompts, Release(p) PROVE AcpInv'
  <2>1. /\ stand[p] = "drained" /\ stand' = [stand EXCEPT ![p] = "answering"]
        /\ current = p /\ finished' = [finished EXCEPT ![p] = p] /\ UNCHANGED lines
    BY <1>5 DEF Release, Moves, Finished, AcpInv
  <2>2. /\ lines' \in Seq(Lines)
        /\ \A i \in 1 .. Len(lines') : lines'[i][1] # "update" => stand'[lines'[i][2]] = "over"
        /\ AnswerCloses'
    BY <2>1, QuietKeeps DEF Stands
  <2>3. \A q \in Prompts \ {p} : stand[q] \notin {"accepted", "draining", "drained"}
    BY <2>1 DEF AcpInv
  <2> QED BY <1>1, <2>1, <2>2, <2>3 DEF AcpInv, Stands
<1>6. ASSUME NEW p \in Prompts, Answer(p) PROVE AcpInv'
  <2>1. /\ stand[p] = "answering" /\ stand' = [stand EXCEPT ![p] = "over"]
        /\ finished[p] = p /\ UNCHANGED <<current, finished>>
    BY <1>6 DEF Answer, Moves, AcpInv
  <2>2. Write("result", p) BY <1>6, <2>1, AcpAssumption DEF Answer
  <2>3. /\ lines' \in Seq(Lines)
        /\ \A i \in 1 .. Len(lines') : lines'[i][1] # "update" => stand'[lines'[i][2]] = "over"
        /\ AnswerCloses'
    BY <2>1, <2>2, WriteKeeps DEF Stands
  <2> QED BY <1>1, <2>1, <2>3 DEF AcpInv, Stands
<1>7. CASE UNCHANGED pvars
  BY <1>7 DEF pvars, AcpInv, AnswerCloses
<1> QED BY <1>2, <1>3, <1>4, <1>5, <1>6, <1>7 DEF AcpNext, PromptThread, Cancel, CancelSent
-----------------------------------------------------------------------------
(* The agent the front ends sit on. *)

\* What is queued was put, and nothing runs that was not started.
AgentInv ==
    /\ AgentTypeOK
    /\ tasks \in Seq(Nat) /\ \A i \in 1 .. Len(tasks) : tasks[i] \in 1 .. made
    /\ worker \in {"waiting", "taken"} => ~isRunning

\* What a front end and the worker may do to it.
AgentMoves ==
    \/ PutTask \/ AgentStep
    \/ \E a : AbortAgent(a) \/ SetStop(a)
    \/ \E t \in Nat : TakeItem(t)
    \/ UNCHANGED avars

LEMMA AgentStarts == AgentInit => AgentInv
<1> SUFFICES ASSUME AgentInit PROVE AgentInv OBVIOUS
<1>1. tasks \in Seq(Nat) /\ Len(tasks) = 0 BY EmptySeq DEF AgentInit
<1> QED BY <1>1, AgentAssumption DEF AgentInit, AgentInv, AgentTypeOK

\* A task that is put is numbered next and goes to the end of the queue.
LEMMA PutKeeps ==
    ASSUME AgentInv, PutTask
    PROVE  /\ AgentInv' /\ made \in Nat /\ made' = made + 1 /\ made' \in Task
           /\ Len(tasks) \in Nat /\ Len(tasks') = Len(tasks) + 1
           /\ \A i \in 1 .. Len(tasks) : tasks'[i] = tasks[i] /\ tasks[i] \in 1 .. made
           /\ tasks'[Len(tasks) + 1] = made'
<1>1. /\ made \in 0 .. MaxTasks /\ made < MaxTasks /\ made' = made + 1
      /\ tasks' = Append(tasks, made') /\ UNCHANGED <<worker, task, isRunning, stopSig, given>>
  BY DEF PutTask, AgentInv, AgentTypeOK
<1>2. tasks \in Seq(Nat) /\ made' \in Nat /\ made' \in 1 .. MaxTasks
  BY <1>1, AgentAssumption DEF AgentInv
<1>3. /\ tasks' \in Seq(Nat) /\ Len(tasks) \in Nat /\ Len(tasks') = Len(tasks) + 1
      /\ \A i \in 1 .. Len(tasks) : tasks'[i] = tasks[i]
      /\ tasks'[Len(tasks) + 1] = made'
  BY <1>1, <1>2, AppendProperties, LenProperties
<1>4. \A i \in 1 .. Len(tasks) : tasks[i] \in 1 .. made BY DEF AgentInv
<1>5. \A i \in 1 .. Len(tasks') : tasks'[i] \in 1 .. made'
  <2> SUFFICES ASSUME NEW i \in 1 .. Len(tasks') PROVE tasks'[i] \in 1 .. made'
    OBVIOUS
  <2>1. CASE i = Len(tasks) + 1 BY <1>1, <1>2, <1>3, <2>1
  <2>2. CASE i # Len(tasks) + 1
    <3>1. i \in 1 .. Len(tasks) BY <1>3, <2>2
    <3> QED BY <1>1, <1>3, <1>4, <3>1
  <2> QED BY <2>1, <2>2
<1>6. AgentTypeOK' BY <1>1, <1>2 DEF AgentInv, AgentTypeOK
<1> QED BY <1>1, <1>2, <1>3, <1>4, <1>5, <1>6 DEF AgentInv, Task

\* The worker takes the first of the queue.
LEMMA TakeKeeps ==
    ASSUME AgentInv, TakeTask
    PROVE  /\ AgentInv' /\ Len(tasks) \in Nat /\ Len(tasks) > 0 /\ task' = tasks[1]
           /\ Len(tasks') = Len(tasks) - 1
           /\ \A i \in 1 .. Len(tasks') : tasks'[i] = tasks[i + 1]
<1>1. tasks \in Seq(Nat) /\ tasks # <<>> /\ tasks' = Tail(tasks) /\ task' = Head(tasks)
  BY DEF TakeTask, AgentInv
<1>2. /\ Len(tasks) \in Nat /\ Len(tasks) > 0 /\ task' = tasks[1]
      /\ tasks' \in Seq(Nat) /\ Len(tasks') = Len(tasks) - 1
      /\ \A i \in 1 .. Len(tasks') : tasks'[i] = tasks[i + 1]
  BY <1>1, HeadTailProperties, EmptySeq, LenProperties
<1>3. \A i \in 1 .. Len(tasks) : tasks[i] \in 1 .. made BY DEF AgentInv
<1>4. task' \in 1 .. made /\ \A i \in 1 .. Len(tasks') : tasks'[i] \in 1 .. made
  BY <1>2, <1>3
<1>5. /\ worker = "waiting" /\ worker' = "taken"
      /\ UNCHANGED <<made, isRunning, stopSig, given>>
  BY DEF TakeTask
<1>6. AgentTypeOK' /\ ~isRunning'
  BY <1>4, <1>5, AgentAssumption DEF AgentInv, AgentTypeOK
<1> QED BY <1>2, <1>4, <1>5, <1>6 DEF AgentInv

LEMMA AgentKeeps ==
    ASSUME AgentInv, AgentMoves
    PROVE  AgentInv' /\ made \in 0 .. MaxTasks /\ made' \in {made, made + 1}
<1>1. made \in 0 .. MaxTasks BY DEF AgentInv, AgentTypeOK
<1>2. CASE PutTask BY <1>1, <1>2, PutKeeps
<1>3. CASE TakeTask BY <1>1, <1>3, TakeKeeps DEF TakeTask
<1>4. CASE \E a : AbortAgent(a) \/ SetStop(a)
  BY <1>1, <1>4 DEF AbortAgent, SetStop, AgentInv, AgentTypeOK
<1>5. CASE UNCHANGED avars \/ \E t \in Nat : TakeItem(t)
  BY <1>1, <1>5 DEF avars, TakeItem, AgentInv, AgentTypeOK
<1>6. CASE AnswerSlash BY <1>1, <1>6 DEF AnswerSlash, AgentInv, AgentTypeOK
<1>7. CASE StartTask BY <1>1, <1>7 DEF StartTask, RunningSet, AgentInv, AgentTypeOK
<1>8. CASE WorkerDies BY <1>1, <1>8 DEF WorkerDies, AgentInv, AgentTypeOK
<1>9. CASE GiveNext BY <1>1, <1>9, AgentAssumption DEF GiveNext, AgentInv, AgentTypeOK
<1>10. CASE GiveDone BY <1>1, <1>10 DEF GiveDone, AgentInv, AgentTypeOK
<1>11. CASE RestWorker BY <1>1, <1>11, AgentAssumption DEF RestWorker, AgentInv, AgentTypeOK
<1> QED BY <1>2, <1>3, <1>4, <1>5, <1>6, <1>7, <1>8, <1>9, <1>10, <1>11 DEF AgentMoves, AgentStep
-----------------------------------------------------------------------------
(* Words entered while a run is on. *)

\* Words on the task queue, or with the task the worker took from it.
OnQueue ==
    (UNION {says[tasks[i]] : i \in 1 .. Len(tasks)}) \cup (IF worker = "taken" THEN says[task] ELSE {})
Delivered == settled \cup prompt \cup OnQueue

\* The word in hand is not yet queued; if no turn ended since it was written,
\* it is in the file still; what is being cleared was the user's to clear.
WordInHand ==
    /\ word \in Nat /\ steady \subseteq 0 .. word
    /\ input \in {"write", "note"} => word \notin steady
    /\ input = "note" /\ clean => word \in file
    /\ boundary \in {"read", "hook"} => ~clean
    /\ input = "clear" => notes \subseteq settled

\* The worker is at a turn's end only inside a run; a prompt waits only there.
TurnEnds ==
    /\ says = [t \in Task |-> says[t]] /\ kind \in Kinds
    /\ worker # "running" => boundary = "none"
    /\ boundary # "sending" => prompt = {}

\* Steady words are delivered, or both noted and in the file, or in the hands
\* of the worker that read it.
InHands == notes \cap (IF boundary \in {"read", "hook"} THEN held ELSE file)
SteerInv == WordInHand /\ TurnEnds /\ steady \subseteq Delivered \cup InHands

LEMMA SteerStarts == TuiInit => SteerInv
<1> SUFFICES ASSUME TuiInit PROVE SteerInv OBVIOUS
<1>1. says = [t \in Task |-> says[t]] BY DEF TuiInit
<1> QED BY <1>1 DEF TuiInit, SteerInv, WordInHand, TurnEnds, Kinds

\* Words put as a task are on the queue, with those that were there.
LEMMA WordsPut ==
    ASSUME AgentInv, TurnEnds, NEW ws, PutWords(ws)
    PROVE  OnQueue \cup ws \subseteq OnQueue' /\ (says = [t \in Task |-> says[t]])'
<1>1. PutTask /\ says' = [says EXCEPT ![made'] = ws] /\ says = [t \in Task |-> says[t]]
  BY DEF PutWords, TurnEnds
<1>2. /\ made \in Nat /\ made' = made + 1 /\ made' \in Task
      /\ Len(tasks) \in Nat /\ Len(tasks') = Len(tasks) + 1
      /\ \A i \in 1 .. Len(tasks) : tasks'[i] = tasks[i] /\ tasks[i] \in 1 .. made
      /\ tasks'[Len(tasks) + 1] = made'
  BY <1>1, PutKeeps
<1>3. worker' = worker /\ task' = task /\ (worker = "taken" => task \in 1 .. made)
  BY <1>1, <1>2 DEF PutTask, AgentInv, AgentTypeOK
<1>4. says'[made'] = ws /\ \A t \in 1 .. made : says'[t] = says[t]
  <2>1. \A t \in 1 .. made : t \in Task /\ t # made'
    BY <1>2, AgentAssumption DEF Task
  <2> QED BY <1>1, <1>2, <2>1
<1>5. ws \subseteq OnQueue'
  <2>1. Len(tasks) + 1 \in 1 .. Len(tasks') /\ says'[tasks'[Len(tasks) + 1]] = ws
    BY <1>2, <1>4
  <2> QED BY <2>1 DEF OnQueue
<1>6. ASSUME NEW w \in OnQueue PROVE w \in OnQueue'
  <2>1. CASE worker = "taken" /\ w \in says[task]
    BY <1>3, <1>4, <2>1 DEF OnQueue
  <2>2. CASE \E i \in 1 .. Len(tasks) : w \in says[tasks[i]]
    <3>1. PICK i \in 1 .. Len(tasks) : w \in says[tasks[i]] BY <2>2
    <3>2. i \in 1 .. Len(tasks') /\ says'[tasks'[i]] = says[tasks[i]] BY <1>2, <1>4
    <3> QED BY <3>1, <3>2 DEF OnQueue
  <2> QED BY <2>1, <2>2 DEF OnQueue
<1>7. says' = [t \in Task |-> says'[t]] BY <1>1
<1> QED BY <1>5, <1>6, <1>7

\* The words of the task the worker takes are with it.
LEMMA WordsTaken ==
    ASSUME AgentInv, TakeTask, UNCHANGED says
    PROVE  OnQueue \subseteq OnQueue'
<1>1. /\ worker = "waiting" /\ worker' = "taken" /\ task' = tasks[1]
      /\ Len(tasks) \in Nat /\ Len(tasks') = Len(tasks) - 1
      /\ \A i \in 1 .. Len(tasks') : tasks'[i] = tasks[i + 1]
  BY TakeKeeps DEF TakeTask
<1> SUFFICES ASSUME NEW w \in OnQueue PROVE w \in OnQueue' OBVIOUS
<1>2. PICK i \in 1 .. Len(tasks) : w \in says[tasks[i]] BY <1>1 DEF OnQueue
<1>3. CASE i = 1 BY <1>1, <1>2, <1>3 DEF OnQueue
<1>4. CASE i # 1
  <2>1. i - 1 \in 1 .. Len(tasks') /\ tasks'[i - 1] = tasks[i] BY <1>1, <1>4
  <2> QED BY <1>2, <2>1 DEF OnQueue
<1> QED BY <1>3, <1>4

\* While the worker keeps its task and nothing is put, the queue keeps its words.
LEMMA QueueFrame ==
    ASSUME UNCHANGED <<tasks, task, says, worker>>
    PROVE  OnQueue' = OnQueue
BY DEF OnQueue

LEMMA SteerKeeps == ASSUME AgentInv, SteerInv, TuiNext PROVE SteerInv'
<1> USE DEF SteerInv
<1>0. TurnEnds /\ WordInHand OBVIOUS
<1>1. CASE Steer
  <2>1. OnQueue' = OnQueue BY <1>1, QueueFrame DEF Steer, avars
  <2>2. WordInHand' BY <1>1 DEF Steer, WordInHand
  <2>3. TurnEnds' BY <1>1 DEF Steer, TurnEnds, avars
  <2> QED BY <1>1, <2>1, <2>2, <2>3 DEF Steer, Delivered, InHands
<1>2. CASE SubmitWords \/ AnswerAsk
  <2>1. PICK ws : Submits(ws) BY <1>2 DEF SubmitWords, AnswerAsk
  <2>2. /\ OnQueue \subseteq OnQueue' /\ says' = [t \in Task |-> says'[t]]
        /\ UNCHANGED worker
    BY <1>0, <2>1, WordsPut DEF Submits, PutWords, PutTask
  <2>3. WordInHand' BY <1>2, <2>1 DEF SubmitWords, AnswerAsk, UiFree, Submits, WordInHand
  <2>4. TurnEnds' BY <2>1, <2>2 DEF Submits, TurnEnds
  <2> QED BY <2>1, <2>2, <2>3, <2>4 DEF Submits, Delivered, InHands
<1>3. CASE WriteFile
  <2>1. OnQueue' = OnQueue BY <1>3, QueueFrame DEF WriteFile, avars
  <2>2. WordInHand' BY <1>3 DEF WriteFile, WordInHand
  <2>3. TurnEnds' BY <1>3 DEF WriteFile, TurnEnds, avars
  <2>4. InHands \subseteq InHands' BY <1>3 DEF WriteFile, InHands
  <2> QED BY <1>3, <2>1, <2>2, <2>3, <2>4 DEF WriteFile, Delivered
<1>4. CASE Note
  <2>1. OnQueue' = OnQueue BY <1>4, QueueFrame DEF Note, avars
  <2>2. WordInHand' BY <1>4 DEF Note, WordInHand
  <2>3. TurnEnds' BY <1>4 DEF Note, TurnEnds, avars
  <2>4. InHands \subseteq InHands' BY <1>4 DEF Note, InHands
  <2>5. steady' = steady \/ (steady' = steady \cup {word} /\ word \in InHands')
    BY <1>4 DEF Note, WordInHand, InHands
  <2> QED BY <1>4, <2>1, <2>2, <2>3, <2>4, <2>5 DEF Note, Delivered
<1>5. CASE RunTask
  <2>1. OnQueue \subseteq OnQueue' \cup prompt' /\ prompt = {}
    BY <1>5 DEF RunTask, StartTask, OnQueue, TurnEnds
  <2>2. WordInHand' BY <1>5 DEF RunTask, WordInHand
  <2>3. TurnEnds' BY <1>5 DEF RunTask, StartTask, TurnEnds
  <2>4. InHands' = InHands BY <1>5 DEF RunTask, StartTask, TurnEnds, InHands
  <2> QED BY <1>5, <2>1, <2>2, <2>3, <2>4 DEF RunTask, Delivered
<1>6. CASE SendPrompt
  <2>1. OnQueue' = OnQueue BY <1>6, QueueFrame DEF SendPrompt, avars
  <2>2. WordInHand' BY <1>6 DEF SendPrompt, WordInHand
  <2>3. TurnEnds' BY <1>6 DEF SendPrompt, TurnEnds, avars
  <2> QED BY <1>6, <2>1, <2>2, <2>3 DEF SendPrompt, Delivered, InHands
<1>7. CASE Boundary
  <2>1. OnQueue' = OnQueue BY <1>7, QueueFrame DEF Boundary, avars
  <2>2. WordInHand' BY <1>7 DEF Boundary, WordInHand
  <2>3. TurnEnds' BY <1>7 DEF Boundary, TurnEnds, avars
  <2> QED BY <1>7, <2>1, <2>2, <2>3 DEF Boundary, Delivered, InHands
<1>8. CASE RemoveFile
  <2>1. OnQueue' = OnQueue BY <1>8, QueueFrame DEF RemoveFile, avars
  <2>2. WordInHand' BY <1>8 DEF RemoveFile, WordInHand
  <2>3. TurnEnds' BY <1>8 DEF RemoveFile, TurnEnds, avars
  <2> QED BY <1>8, <2>1, <2>2, <2>3 DEF RemoveFile, Delivered, InHands
\* What was read goes on, or the notes do: an exit without notes has nothing.
<1>9. CASE Hook
  <2>1. /\ OnQueue \subseteq OnQueue' /\ says' = [t \in Task |-> says'[t]]
        /\ UNCHANGED worker /\ (Replays => notes \subseteq OnQueue')
    <3>1. CASE Replays
      BY <1>0, <1>9, <3>1, WordsPut DEF Hook, PutWords, PutTask
    <3>2. CASE ~Replays
      BY <1>9, <3>2, QueueFrame DEF Hook, TurnEnds, avars
    <3> QED BY <3>1, <3>2
  <2>2. WordInHand' BY <1>9 DEF Hook, WordInHand
  <2>3. TurnEnds' BY <1>9, <2>1 DEF Hook, TurnEnds, Kinds
  <2>4. prompt = {} /\ InHands = notes \cap held BY <1>9 DEF Hook, TurnEnds, InHands
  <2>5. ~Replays => notes = {} \/ held \subseteq prompt' \cup settled'
    BY <1>9 DEF Hook, Replays, TurnEnds, Kinds
  <2>6. settled \subseteq settled' /\ steady' = steady BY <1>9 DEF Hook
  <2> QED BY <2>1, <2>2, <2>3, <2>4, <2>5, <2>6 DEF Delivered
<1>10. CASE EndRun
  <2>1. OnQueue' = OnQueue BY <1>10 DEF EndRun, GiveDone, OnQueue
  <2>2. WordInHand' BY <1>10 DEF EndRun, WordInHand
  <2>3. TurnEnds' BY <1>10 DEF EndRun, TurnEnds
  <2> QED BY <1>10, <2>1, <2>2, <2>3 DEF EndRun, Delivered, InHands
<1>11. CASE DropTask
  <2>1. OnQueue \subseteq OnQueue' \cup settled'
    BY <1>11 DEF DropTask, AnswerSlash, WorkerDies, OnQueue
  <2>2. WordInHand' BY <1>11 DEF DropTask, WordInHand
  <2>3. TurnEnds' BY <1>11 DEF DropTask, AnswerSlash, WorkerDies, TurnEnds
  <2> QED BY <1>11, <2>1, <2>2, <2>3 DEF DropTask, Delivered, InHands
<1>12. CASE (TakeTask \/ RestWorker \/ GiveNext) /\ UNCHANGED uvars
  <2>1. OnQueue \subseteq OnQueue'
    <3>1. CASE TakeTask BY <1>12, <3>1, WordsTaken DEF uvars
    <3>2. CASE RestWorker \/ GiveNext
      BY <1>12, <3>2 DEF RestWorker, GiveNext, OnQueue, uvars
    <3> QED BY <1>12, <3>1, <3>2
  <2>2. WordInHand' BY <1>12 DEF uvars, WordInHand
  <2>3. TurnEnds' BY <1>12 DEF uvars, TakeTask, RestWorker, GiveNext, TurnEnds
  <2> QED BY <1>12, <2>1, <2>2, <2>3 DEF uvars, Delivered, InHands
<1>13. CASE AbortRun \/ StopRun \/ Drains
  <2>1. /\ UNCHANGED <<tasks, task, worker, says, word, steady, input, clean, file, boundary,
                       kind, prompt, settled, notes, held>>
    BY <1>13 DEF AbortRun, StopRun, AbortAgent, SetStop, uvars, Drains, DrainItem, TakeItem,
                 DrainAsks, AfterDrain, avars
  <2>2. OnQueue' = OnQueue BY <2>1, QueueFrame
  <2> QED BY <2>1, <2>2 DEF WordInHand, TurnEnds, Delivered, InHands
<1>14. CASE RestDisplay \/ \E keys \in {"rest", "cancel"} : Interrupt(keys)
  <2>1. /\ UNCHANGED <<tasks, task, worker, says, word, steady, clean, file, boundary, kind,
                       prompt, settled, notes, held>>
        /\ input' \notin {"write", "note", "clear"}
    BY <1>14 DEF RestDisplay, Interrupt, AbortAgent, avars
  <2>2. OnQueue' = OnQueue BY <2>1, QueueFrame
  <2> QED BY <2>1, <2>2 DEF WordInHand, TurnEnds, Delivered, InHands
\* What Esc clears was the user's to clear.
<1>15. CASE ClearFile
  <2>1. OnQueue' = OnQueue BY <1>15, QueueFrame DEF ClearFile, avars
  <2>2. WordInHand' BY <1>15 DEF ClearFile, WordInHand
  <2>3. TurnEnds' BY <1>15 DEF ClearFile, TurnEnds, avars
  <2>4. settled' = settled \cup file \cup notes /\ InHands \subseteq file \cup notes
        /\ UNCHANGED <<prompt, steady>>
    BY <1>15 DEF ClearFile, InHands
  <2> QED BY <2>1, <2>2, <2>3, <2>4 DEF Delivered
<1>16. CASE ClearNotes
  <2>1. OnQueue' = OnQueue BY <1>16, QueueFrame DEF ClearNotes, avars
  <2>2. WordInHand' BY <1>16 DEF ClearNotes, WordInHand
  <2>3. TurnEnds' BY <1>16 DEF ClearNotes, TurnEnds, avars
  <2>4. InHands \subseteq settled /\ UNCHANGED <<prompt, steady, settled>>
    BY <1>16 DEF ClearNotes, InHands, WordInHand
  <2> QED BY <2>1, <2>2, <2>3, <2>4 DEF Delivered
<1>17. CASE RemoveFails
  <2>1. OnQueue' = OnQueue BY <1>17, QueueFrame DEF RemoveFails, avars
  <2>2. WordInHand' BY <1>17 DEF RemoveFails, WordInHand
  <2>3. TurnEnds' BY <1>17 DEF RemoveFails, TurnEnds, Kinds, avars
  <2> QED BY <1>17, <2>1, <2>2, <2>3 DEF RemoveFails, Delivered, InHands
<1>18. CASE PutAsk
  <2>1. OnQueue' = OnQueue BY <1>18, QueueFrame DEF PutAsk, avars
  <2>2. WordInHand' BY <1>18 DEF PutAsk, WordInHand
  <2>3. TurnEnds' BY <1>18 DEF PutAsk, TurnEnds, Kinds, avars
  <2> QED BY <1>18, <2>1, <2>2, <2>3 DEF PutAsk, Delivered, InHands
<1> QED BY <1>1, <1>2, <1>3, <1>4, <1>5, <1>6, <1>7, <1>8, <1>9, <1>10, <1>11, <1>12, <1>13,
           <1>14, <1>15, <1>16, <1>17, <1>18
     DEF TuiNext, UiThread, UiGoesOn, TuiWorker
-----------------------------------------------------------------------------
(* The tasks the front ends hold. *)

HeldByCards == card \in {"none", "running", "stopped", "aborted"} /\ \A t \in monitored : t \in 1 .. made
HeldByPrompts == taskOf = [p \in Prompts |-> taskOf[p]] /\ \A p \in Prompts : taskOf[p] \in 0 .. made
HeldByChats == asked = [r \in Requests |-> asked[r]] /\ \A r \in Requests : asked[r] \in 0 .. made
HeldByTurns == heardOf = [t \in Task |-> heardOf[t]] /\ \A t \in Task : heardOf[t] \in 0 .. made
TasksHeld == HeldByCards /\ HeldByPrompts /\ HeldByChats /\ HeldByTurns

LEMMA HoldersStart ==
    ASSUME AgentInit, ConductorInit, AcpInit, ChatInit, WebInit PROVE TasksHeld
<1>1. HeldByCards BY DEF ConductorInit, HeldByCards
<1>2. HeldByPrompts BY DEF AgentInit, AcpInit, HeldByPrompts
<1>3. HeldByChats BY DEF AgentInit, ChatInit, HeldByChats
<1>4. HeldByTurns BY DEF AgentInit, WebInit, HeldByTurns
<1> QED BY <1>1, <1>2, <1>3, <1>4 DEF TasksHeld

\* What a front end that does not run holds was put before.
LEMMA HoldersRest ==
    ASSUME TasksHeld, AgentInv, made' \in {made, made + 1}
    PROVE  /\ UNCHANGED cvars => HeldByCards'
           /\ UNCHANGED pvars => HeldByPrompts'
           /\ UNCHANGED rvars => HeldByChats'
           /\ UNCHANGED wvars => HeldByTurns'
<1>1. made \in Nat /\ made' \in {made, made + 1} BY AgentAssumption DEF AgentInv, AgentTypeOK
<1>2. \A t \in 0 .. made : t \in 0 .. made' /\ (t > 0 => t \in 1 .. made') BY <1>1
<1>3. ASSUME UNCHANGED cvars PROVE HeldByCards'
  BY <1>1, <1>3 DEF cvars, TasksHeld, HeldByCards
<1>4. ASSUME UNCHANGED pvars PROVE HeldByPrompts'
  BY <1>2, <1>4 DEF pvars, TasksHeld, HeldByPrompts
<1>5. ASSUME UNCHANGED rvars PROVE HeldByChats'
  BY <1>2, <1>5 DEF rvars, TasksHeld, HeldByChats
<1>6. ASSUME UNCHANGED wvars PROVE HeldByTurns'
  BY <1>2, <1>6 DEF wvars, TasksHeld, HeldByTurns
<1> QED BY <1>3, <1>4, <1>5, <1>6

\* Each of them moves the agent as a front end may, and holds what it put.
LEMMA ConductorHolds ==
    ASSUME AgentInv, HeldByCards, ConductorNext PROVE AgentMoves /\ HeldByCards'
<1>1. made \in Nat /\ \A t \in Task : t \in Nat
  BY AgentAssumption DEF AgentInv, AgentTypeOK, Task
<1>2. CASE StartSubagent \/ Input
  BY <1>1, <1>2 DEF StartSubagent, Input, Assigned, PutTask, AgentMoves, HeldByCards
<1>3. CASE CleanUp \/ \E k \in {"stop", "kill", "cleanup"} : StopOrKill(k) \/ Aborted(k)
  <2>1. \E a : AbortAgent(a) \/ SetStop(a)
    BY <1>3 DEF CleanUp, StopOrKill, Aborted, Aborts
  <2>2. UNCHANGED <<made, card, monitored>>
    BY <1>3 DEF CleanUp, StopOrKill, Aborted, Aborts, Finds, AbortAgent, SetStop
  <2> QED BY <2>1, <2>2 DEF AgentMoves, HeldByCards
<1>4. CASE Mark("stopping", "stopped") \/ Mark("killing", "aborted")
  BY <1>4 DEF Mark, avars, AgentMoves, HeldByCards
<1>5. CASE \E t \in Task : Monitor(t)
  <2>1. PICK t \in Task : Monitor(t) BY <1>5
  <2>2. TakeItem(t) /\ made' = made BY <2>1 DEF Monitor, TakeItem
  <2>3. card' \in {"running", "aborted", "stopped"} /\ \A u \in monitored' : u \in monitored
    BY <2>1 DEF Monitor, AfterItem, AfterDone
  <2> QED BY <1>1, <2>2, <2>3 DEF AgentMoves, HeldByCards
<1>6. CASE Say \/ ConductorLoop \/ \E k \in {"input", "cleanup"} : Asked(k)
  BY <1>6 DEF Say, ConductorLoop, WakeUp, PutPrompt, PromptDone, Asked, Finds, avars, AgentMoves,
     HeldByCards
<1>7. CASE AgentStep /\ UNCHANGED cvars
  <2>1. made' = made
    BY <1>7 DEF AgentStep, TakeTask, AnswerSlash, StartTask, WorkerDies, GiveNext, GiveDone,
       RestWorker
  <2> QED BY <1>7, <2>1 DEF AgentMoves, cvars, HeldByCards
<1> QED BY <1>2, <1>3, <1>4, <1>5, <1>6, <1>7 DEF ConductorNext, ConductorThreads

LEMMA AcpHolds ==
    ASSUME AgentInv, HeldByPrompts, AcpNext PROVE AgentMoves /\ HeldByPrompts'
<1>1. made \in Nat /\ \A p \in Prompts : taskOf[p] \in Nat
  BY AgentAssumption DEF AgentInv, AgentTypeOK, HeldByPrompts
<1>2. ASSUME NEW p \in Prompts, PutPromptTask(p) PROVE AgentMoves /\ HeldByPrompts'
  BY <1>1, <1>2 DEF PutPromptTask, PutTask, AgentMoves, HeldByPrompts
<1>3. ASSUME NEW p \in Prompts, Drain(p) PROVE AgentMoves /\ HeldByPrompts'
  BY <1>1, <1>3 DEF Drain, TakeItem, AgentMoves, HeldByPrompts
<1>4. ASSUME NEW p \in Prompts, Prompt(p) \/ Release(p) \/ Answer(p)
      PROVE AgentMoves /\ HeldByPrompts'
  BY <1>4 DEF Prompt, Release, Answer, avars, AgentMoves, HeldByPrompts
<1>5. CASE Cancel \/ CancelSent
  BY <1>5 DEF Cancel, CancelSent, AbortAgent, SetStop, pvars, AgentMoves, HeldByPrompts
<1>6. CASE AgentStep /\ UNCHANGED pvars
  <2>1. made' = made
    BY <1>6 DEF AgentStep, TakeTask, AnswerSlash, StartTask, WorkerDies, GiveNext, GiveDone,
       RestWorker
  <2> QED BY <1>6, <2>1 DEF AgentMoves, pvars, HeldByPrompts
<1> QED BY <1>2, <1>3, <1>4, <1>5, <1>6 DEF AcpNext, PromptThread

LEMMA ChatHolds ==
    ASSUME AgentInv, HeldByChats, ChatNext PROVE AgentMoves /\ HeldByChats'
<1>1. made \in Nat /\ \A r \in Requests : asked[r] \in Nat
  BY AgentAssumption DEF AgentInv, AgentTypeOK, HeldByChats
<1>2. ASSUME NEW r \in Requests, PutChatTask(r) PROVE AgentMoves /\ HeldByChats'
  BY <1>1, <1>2 DEF PutChatTask, PutTask, AgentMoves, HeldByChats
<1>3. ASSUME NEW r \in Requests, Poll(r) PROVE AgentMoves /\ HeldByChats'
  BY <1>1, <1>3 DEF Poll, TakeItem, AgentMoves, HeldByChats
<1>4. ASSUME NEW r \in Requests, Ask(r) \/ NoticeStop(r) \/ SendDone(r) \/ SendStopped(r) \/ SendFails(r)
      PROVE AgentMoves /\ HeldByChats'
  BY <1>4 DEF Ask, NoticeStop, SendDone, SendStopped, SendFails, Closed, avars, AgentMoves,
     HeldByChats
<1>5. CASE Reset \/ StopSent \/ \E c \in Chats : Stop(c)
  BY <1>5 DEF Reset, StopSent, Stop, AbortAgent, SetStop, rvars, AgentMoves, HeldByChats
<1>6. CASE AgentStep /\ UNCHANGED rvars
  <2>1. made' = made
    BY <1>6 DEF AgentStep, TakeTask, AnswerSlash, StartTask, WorkerDies, GiveNext, GiveDone,
       RestWorker
  <2> QED BY <1>6, <2>1 DEF AgentMoves, rvars, HeldByChats
<1> QED BY <1>2, <1>3, <1>4, <1>5, <1>6 DEF ChatNext, Coroutine

LEMMA WebHolds ==
    ASSUME AgentInv, HeldByTurns, WebNext PROVE AgentMoves /\ HeldByTurns'
<1>1. made \in Nat /\ \A t \in Task : heardOf[t] \in Nat
  BY AgentAssumption DEF AgentInv, AgentTypeOK, HeldByTurns
<1>2. ASSUME NEW t \in Task, PutTurnTask(t) PROVE AgentMoves /\ HeldByTurns'
  BY <1>1, <1>2 DEF PutTurnTask, PutTask, AgentMoves, HeldByTurns
<1>3. ASSUME NEW t \in Task, Read(t) PROVE AgentMoves /\ HeldByTurns'
  BY <1>1, <1>3 DEF Read, TakeItem, AgentMoves, HeldByTurns
<1>4. ASSUME NEW t \in Task, Leave(t) \/ Look(t) \/ Quit(t) \/ SettleTurn(t) \/ TurnFails(t)
      PROVE AgentMoves /\ HeldByTurns'
  BY <1>4 DEF Leave, Look, Quit, SettleTurn, TurnFails, Ends, avars, AgentMoves, HeldByTurns
<1>5. CASE Submit \/ CancelTurn \/ Canceller
  BY <1>5 DEF Submit, CancelTurn, Canceller, CancelAborts, CancelSets, CancelEnds, AbortAgent,
              SetStop, wvars, avars, AgentMoves, HeldByTurns
<1>6. CASE AgentStep /\ UNCHANGED wvars
  <2>1. made' = made
    BY <1>6 DEF AgentStep, TakeTask, AnswerSlash, StartTask, WorkerDies, GiveNext, GiveDone,
       RestWorker
  <2> QED BY <1>6, <2>1 DEF AgentMoves, wvars, HeldByTurns
<1> QED BY <1>2, <1>3, <1>4, <1>5, <1>6 DEF WebNext, TurnThread

LEMMA TuiMoves == ASSUME TuiNext PROVE AgentMoves
<1>1. CASE Steer \/ ClearFile \/ UiGoesOn \/ AbortRun \/ \E keys \in {"rest", "cancel"} : Interrupt(keys)
  BY <1>1 DEF Steer, ClearFile, UiGoesOn, WriteFile, Note, StopRun, RestDisplay, ClearNotes,
              AbortRun, Interrupt, avars, AgentMoves
<1>2. CASE SubmitWords \/ AnswerAsk
  BY <1>2 DEF SubmitWords, AnswerAsk, Submits, PutWords, AgentMoves
<1>3. CASE TuiWorker
  BY <1>3 DEF TuiWorker, RunTask, SendPrompt, Boundary, RemoveFile, RemoveFails, PutAsk,
              Hook, PutWords, EndRun, DropTask,
              avars, AgentStep, AgentMoves
<1>4. CASE Drains
  <2>1. \A t \in Task : t \in Nat BY AgentAssumption DEF Task
  <2> QED BY <1>4, <2>1 DEF Drains, DrainItem, DrainAsks, AfterDrain, avars, AgentMoves
<1> QED BY <1>1, <1>2, <1>3, <1>4 DEF TuiNext, UiThread
-----------------------------------------------------------------------------
(* The front ends together. *)

FrontsInv ==
    /\ AgentInv /\ TasksHeld
    /\ WebInv /\ AcpInv /\ FilterInv
    /\ IF front = "tui" THEN SteerInv ELSE steady = {}

LEMMA FrontsStart == Init => FrontsInv
BY AgentStarts, HoldersStart, WebStarts, AcpStarts, FilterStarts, SteerStarts DEF Init, TuiInit,
   FrontsInv

\* The variables of what does not run, by front end.
LEMMA Rest ==
    ASSUME FrontsInv
    PROVE  /\ UNCHANGED avars => AgentInv' /\ made' \in {made, made + 1}
           /\ UNCHANGED wvars => WebInv'
           /\ UNCHANGED pvars => AcpInv'
           /\ UNCHANGED dvars => FilterInv'
           /\ UNCHANGED uvars => steady' = steady
           /\ UNCHANGED <<avars, uvars>> => (SteerInv => SteerInv')
<1>1. UNCHANGED avars => AgentInv' /\ made' \in {made, made + 1}
  BY DEF FrontsInv, avars, AgentInv, AgentTypeOK
<1>2. UNCHANGED wvars => WebInv' BY DEF FrontsInv, wvars, WebInv, SilentOnlyIfCancelled
<1>3. UNCHANGED pvars => AcpInv' BY DEF FrontsInv, pvars, AcpInv, AnswerCloses
<1>4. ASSUME UNCHANGED dvars PROVE FilterInv'
  <2>1. UNCHANGED <<fed, inside, carry, text, from, emitted>> BY <1>4 DEF dvars
  <2>2. Done' = Done BY <2>1 DEF Done
  <2>3. FilterTyped' /\ Suffix(carry)' /\ Suffix(text)'
    BY <2>1 DEF FrontsInv, FilterInv, FilterTyped, Suffix
  <2> QED BY <2>1, <2>2, <2>3 DEF FrontsInv, FilterInv
<1>5. ASSUME UNCHANGED <<avars, uvars>>, SteerInv PROVE SteerInv'
  <2>1. OnQueue' = OnQueue BY <1>5, QueueFrame DEF avars, uvars
  <2> QED BY <1>5, <2>1 DEF avars, uvars, SteerInv, WordInHand, TurnEnds, Delivered, InHands
<1>6. UNCHANGED uvars => steady' = steady BY DEF uvars
<1> QED BY <1>1, <1>2, <1>3, <1>4, <1>5, <1>6

LEMMA FrontsKeep == FrontsInv /\ [Next]_vars => FrontsInv'
<1> SUFFICES ASSUME FrontsInv, [Next]_vars PROVE FrontsInv' OBVIOUS
<1>1. AgentInv /\ TasksHeld /\ HeldByCards /\ HeldByPrompts /\ HeldByChats /\ HeldByTurns
      /\ WebInv /\ AcpInv /\ FilterInv
  BY DEF FrontsInv, TasksHeld
<1>2. CASE Runs("conductor") /\ ConductorNext /\ UNCHANGED NotConductor
  <2>1. UNCHANGED <<pvars, rvars, wvars, dvars>>
        /\ front # "tui" /\ front' = front /\ steady' = steady
    BY <1>2 DEF Runs, NotConductor, uvars
  <2>2. AgentMoves /\ HeldByCards' BY <1>1, <1>2, ConductorHolds
  <2>3. AgentInv' /\ made' \in {made, made + 1} BY <1>1, <2>2, AgentKeeps
  <2>4. TasksHeld' BY <1>1, <2>1, <2>2, <2>3, HoldersRest DEF TasksHeld
  <2> QED BY <2>1, <2>3, <2>4, Rest DEF FrontsInv
<1>3. CASE Runs("acp") /\ AcpNext /\ UNCHANGED NotAcp
  <2>1. UNCHANGED <<cvars, rvars, wvars, dvars>>
        /\ front # "tui" /\ front' = front /\ steady' = steady
    BY <1>3 DEF Runs, NotAcp, uvars
  <2>2. AgentMoves /\ HeldByPrompts' BY <1>1, <1>3, AcpHolds
  <2>3. AgentInv' /\ made' \in {made, made + 1} BY <1>1, <2>2, AgentKeeps
  <2>4. TasksHeld' BY <1>1, <2>1, <2>2, <2>3, HoldersRest DEF TasksHeld
  <2> QED BY <1>1, <1>3, <2>1, <2>3, <2>4, Rest, AcpKeeps DEF FrontsInv
<1>4. CASE Runs("chat") /\ ChatNext /\ UNCHANGED NotChat
  <2>1. UNCHANGED <<cvars, pvars, wvars, dvars>>
        /\ front # "tui" /\ front' = front /\ steady' = steady
    BY <1>4 DEF Runs, NotChat, uvars
  <2>2. AgentMoves /\ HeldByChats' BY <1>1, <1>4, ChatHolds
  <2>3. AgentInv' /\ made' \in {made, made + 1} BY <1>1, <2>2, AgentKeeps
  <2>4. TasksHeld' BY <1>1, <2>1, <2>2, <2>3, HoldersRest DEF TasksHeld
  <2> QED BY <2>1, <2>3, <2>4, Rest DEF FrontsInv
<1>5. CASE Runs("web") /\ WebNext /\ UNCHANGED NotWeb
  <2>1. UNCHANGED <<cvars, pvars, rvars, dvars>>
        /\ front # "tui" /\ front' = front /\ steady' = steady
    BY <1>5 DEF Runs, NotWeb, uvars
  <2>2. AgentMoves /\ HeldByTurns' BY <1>1, <1>5, WebHolds
  <2>3. AgentInv' /\ made' \in {made, made + 1} BY <1>1, <2>2, AgentKeeps
  <2>4. TasksHeld' BY <1>1, <2>1, <2>2, <2>3, HoldersRest DEF TasksHeld
  <2> QED BY <1>1, <1>5, <2>1, <2>3, <2>4, Rest, WebKeeps DEF FrontsInv
<1>6. CASE Runs("filter") /\ FilterNext /\ UNCHANGED NotFilter
  <2>1. UNCHANGED <<avars, cvars, pvars, rvars, wvars>>
        /\ front # "tui" /\ front' = front /\ steady' = steady
    BY <1>6 DEF Runs, NotFilter, uvars
  <2>2. AgentInv' /\ made' \in {made, made + 1} BY <2>1, Rest
  <2>3. TasksHeld' BY <1>1, <2>1, <2>2, HoldersRest DEF TasksHeld
  <2> QED BY <1>1, <1>6, <2>1, <2>2, <2>3, Rest, FilterKeeps DEF FrontsInv
<1>7. CASE Runs("tui") /\ TuiNext /\ UNCHANGED NotTui
  <2>1. UNCHANGED <<cvars, pvars, rvars, wvars, dvars>> /\ SteerInv /\ front = "tui" /\ front' = "tui"
    BY <1>7 DEF Runs, NotTui, FrontsInv
  <2>2. AgentInv' /\ made' \in {made, made + 1} BY <1>1, <1>7, TuiMoves, AgentKeeps
  <2>3. TasksHeld' BY <1>1, <2>1, <2>2, HoldersRest DEF TasksHeld
  <2> QED BY <1>1, <1>7, <2>1, <2>2, <2>3, Rest, SteerKeeps DEF FrontsInv
<1>8. CASE UNCHANGED vars
  <2>1. UNCHANGED <<front, avars, cvars, pvars, rvars, wvars, dvars, uvars>> BY <1>8 DEF vars
  <2>2. AgentInv' /\ made' \in {made, made + 1} BY <2>1, Rest
  <2>3. TasksHeld' BY <1>1, <2>1, <2>2, HoldersRest DEF TasksHeld
  <2> QED BY <2>1, <2>2, <2>3, Rest DEF FrontsInv
<1> QED BY <1>2, <1>3, <1>4, <1>5, <1>6, <1>7, <1>8 DEF Next

LEMMA FrontsAlways == Spec => []FrontsInv
BY FrontsStart, FrontsKeep, PTL DEF Spec

\* The state's types hold, and no front end holds a task that was not put
\* (put_task of agentmain.py, and who keeps its queue).
THEOREM FrontsTyped == Spec => []TypeOK
<1>1. FrontsInv => TypeOK
  <2> SUFFICES ASSUME FrontsInv PROVE TypeOK OBVIOUS
  <2>1. \A t \in monitored : t \in 1 .. made BY DEF FrontsInv, TasksHeld, HeldByCards
  <2>2. from \in 1 .. MaxFed + Ticks + 1
    <3>1. /\ fed \in Seq(Char) /\ text \in Seq(Char) /\ Len(fed) <= MaxFed /\ Len(text) <= Len(fed)
          /\ from \in Nat /\ from >= 1 /\ from <= Len(text) + 1
      BY DEF FrontsInv, FilterInv, FilterTyped
    <3>2. Len(fed) \in Nat /\ Len(text) \in Nat BY <3>1, LenProperties
    <3> QED BY <3>1, <3>2, FenceAssumption
  <2> QED BY <2>1, <2>2
       DEF FrontsInv, AgentInv, TasksHeld, HeldByCards, HeldByPrompts, HeldByChats, HeldByTurns, TypeOK
<1> QED BY <1>1, FrontsAlways, PTL

\* However the text of a task is cut into chunks, the filter of the Runner
\* bridge has sent or holds back exactly what the text itself says should be
\* seen (_FenceFilter, yole_bridge.py).
THEOREM FilterAlwaysExact == Spec => []FilterIsExact
<1>1. FrontsInv => FilterIsExact BY ExactBetweenCalls DEF FrontsInv
<1> QED BY <1>1, FrontsAlways, PTL

\* Words written and noted before a turn ended reach the model or are on their
\* way to it, but for those the user cleared and those lost with a
\* run that an abort, an exception or the turn limit cut short (inject_intervene
\* and _on_turn_end, tui_v3.py).
THEOREM SteadyWordsAlwaysKept == Spec => []SteadyWordsAreKept
<1>1. ASSUME FrontsInv, SteerInv PROVE SteadyWordsAreKept
  <2>1. tasks \in Seq(Nat) /\ DOMAIN tasks = 1 .. Len(tasks)
    BY <1>1, LenProperties DEF FrontsInv, AgentInv
  <2>2. OnQueue \subseteq UnderWay BY <2>1 DEF OnQueue, UnderWay
  <2> QED BY <1>1, <2>2 DEF FrontsInv, SteerInv, Delivered, InHands, SteadyWordsAreKept, Kept,
             UnderWay
<1>2. FrontsInv => SteadyWordsAreKept
  BY <1>1 DEF FrontsInv, SteadyWordsAreKept, Kept
<1> QED BY <1>2, FrontsAlways, PTL

\* A request of the ACP bridge is answered once and nothing of it follows
\* (finally block of run_prompt, genericagent_acp_bridge.py).
THEOREM AnswerAlwaysCloses == Spec => []AnswerCloses
<1>1. FrontsInv => AnswerCloses BY DEF FrontsInv, AcpInv
<1> QED BY <1>1, FrontsAlways, PTL

\* A turn of the web desktop is silent only if a cancel came while it ran
\* (run_agent_turn and cancel, desktop_bridge.py).
THEOREM SilentTurnsWereCancelled == Spec => []SilentOnlyIfCancelled
<1>1. FrontsInv => SilentOnlyIfCancelled BY DEF FrontsInv, WebInv
<1> QED BY <1>1, FrontsAlways, PTL
=============================================================================
