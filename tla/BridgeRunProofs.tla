-------------------------- MODULE BridgeRunProofs --------------------------
(***************************************************************************)
(* The approval gate holds for every set of tools, every number of         *)
(* messages and turns, and every behaviour of the user and the agent.      *)
(***************************************************************************)
EXTENDS BridgeRun, TLAPS

\* An approval has been answered at most once: an answered one has left
\* _pending for good, and ids not yet issued have no answer.
Slots == \A i \in Id : decision[i] # "none" => i <= asked /\ i \notin pending

\* A worker that waits has asked.
Waiting == wpc = "await" => ask # 0

\* A message is put only if the desktop had one left to send.
Putting == cpc \in {"mark", "put"} => given < MaxTasks

\* Only a tool that needs approval is waited for.
AsksForTool == wpc = "await" => tool \in Tool

TypeInv == TypeOK /\ Putting /\ AsksForTool
Gate == Slots /\ Waiting /\ WaitIsAnswerable /\ OnlyApprovedRuns
GateInv == TypeInv /\ Gate

\* What a step that leaves the gate and the worker's call alone keeps.
LEMMA GateFrame ==
    ASSUME Gate, UNCHANGED <<gate, ask>>,
           wpc' = wpc \/ wpc' \notin {"await", "run", "tool"}
    PROVE  Gate'
BY DEF Gate, Slots, Waiting, WaitIsAnswerable, OnlyApprovedRuns, gate

-----------------------------------------------------------------------------
(* Types, by the part of the system that keeps the variables.              *)

CommandTypes ==
    /\ given \in 0 .. MaxTasks /\ aborted \in 0 .. MaxTasks /\ llm \in {0, 1}
    /\ cpc \in {"idle", "mark", "put", "stop", "report", "aborted", "rules"}
    /\ arg \subseteq Tool

BridgeFlagTypes ==
    /\ inProgress \in BOOLEAN /\ lastTurn \in 0 .. MaxTurns + 1
    /\ allowed \subseteq Tool /\ yolo \in BOOLEAN
    /\ isRunning \in BOOLEAN /\ stopSig \in BOOLEAN

GateTypes ==
    /\ asked \in 0 .. MaxAsk /\ pending \subseteq 1 .. asked
    /\ decision \in [Id -> {"none", "allow", "always", "deny"}]
    /\ ask \in 0 .. asked

CallTypes ==
    /\ task \in 0 .. given
    /\ wpc \in {"wait", "taken", "loop", "stream", "await", "run", "tool", "after",
                "denied", "clear", "hooked", "last", "finish", "dead"}
    /\ turn \in 0 .. MaxTurns /\ calls \in 0 .. MaxCalls
    /\ tool \in Tool \cup {Plain}

DesktopTypes ==
    running \in BOOLEAN /\ shown \in 0 .. MaxTurns + 1 /\ ended \in 0 .. MaxTurns

\* The five groups together are the type invariant.
LEMMA TypeParts ==
    TypeOK <=> CommandTypes /\ BridgeFlagTypes /\ GateTypes /\ CallTypes /\ DesktopTypes
BY DEF TypeOK, CommandTypes, BridgeFlagTypes, GateTypes, CallTypes, DesktopTypes

\* What the ranges of the bounds contain.
LEMMA Bounds ==
    /\ MaxTurns \in Nat /\ MaxTasks \in Nat /\ MaxAsk \in Nat /\ MaxCalls \in Nat
    /\ 0 \in 0 .. MaxTurns /\ 0 \in 0 .. MaxTurns + 1
    /\ 0 \in 0 .. MaxTasks /\ 0 \in 0 .. MaxCalls /\ 0 \in 0 .. 0
    /\ \A n \in 0 .. MaxTurns : n \in 0 .. MaxTurns + 1 /\ n + 1 \in 0 .. MaxTurns + 1
BY BridgeAssumption

\* A fresh runner has nothing pending and nothing to run.
LEMMA InitGateInv == Init => GateInv
<1> SUFFICES ASSUME Init PROVE GateInv
  OBVIOUS
<1>1. CommandTypes /\ BridgeFlagTypes
  BY Bounds DEF Init, CommandTypes, BridgeFlagTypes
<1>2. GateTypes
  BY Bounds DEF Init, GateTypes
<1>3. CallTypes /\ DesktopTypes
  BY Bounds DEF Init, CallTypes, DesktopTypes
<1>4. Putting /\ AsksForTool
  BY DEF Init, Putting, AsksForTool
<1>5. Gate
  BY DEF Init, Gate, Slots, Waiting, WaitIsAnswerable, OnlyApprovedRuns, Id
<1> QED BY <1>1, <1>2, <1>3, <1>4, <1>5, TypeParts DEF GateInv, TypeInv

\* The command loop; a message is put only after it was counted.
LEMMA StepCommandTypes == CommandTypes /\ Putting /\ [Next]_vars => CommandTypes' /\ Putting'
<1> SUFFICES ASSUME CommandTypes, Putting, [Next]_vars PROVE CommandTypes' /\ Putting'
  OBVIOUS
<1>1. CASE User
  <2>1. CASE UserMessage \/ Abort \/ SetYolo \/ Answers
    BY <2>1 DEF UserMessage, Abort, Idle, SetYolo, Answers, Answer, loop,
       CommandTypes, Putting
  <2>2. CASE SetLLM
    BY <2>2 DEF SetLLM, CommandTypes, Putting
  <2>3. CASE \E R \in SUBSET Tool : SetRules(R)
    BY <2>3 DEF SetRules, CommandTypes, Putting
  <2> QED BY <1>1, <2>1, <2>2, <2>3 DEF User
<1>2. CASE Commands
  <2>1. CASE PutTask
    BY <2>1, Bounds DEF PutTask, CommandTypes, Putting
  <2>2. CASE ~PutTask
    BY <1>2, <2>2 DEF Commands, MarkRunning, SetStop, ReportAbort, EmitAborted,
       UpdateRules, CommandTypes, Putting
  <2> QED BY <2>1, <2>2
<1>3. CASE Worker \/ UNCHANGED vars
  <2>1. UNCHANGED loop
    BY <1>3 DEF Worker, Take, SlashCommand, BeginRun, WorkerDies, BeginTurn, TurnLimit, Stopped,
       Raises, Dispatch, Blocked, Decided, ApprovalTimeout, RunTool, ToolActs, NextCall, EndTurn,
       EndRun, HookedEnd, TellEnd, ClearRunning, Finish, vars
  <2> QED BY <2>1 DEF loop, CommandTypes, Putting
<1> QED BY <1>1, <1>2, <1>3 DEF Next

\* The flags and rules both threads write; "always" adds the tool asked for.
LEMMA StepBridgeFlagTypes ==
    CommandTypes /\ CallTypes /\ AsksForTool /\ BridgeFlagTypes /\ [Next]_vars
        => BridgeFlagTypes'
<1> SUFFICES ASSUME CommandTypes, CallTypes, AsksForTool, BridgeFlagTypes, [Next]_vars
             PROVE  BridgeFlagTypes'
  OBVIOUS
<1> USE DEF bridge, rules, agent
<1>1. CASE User
  BY <1>1, Bounds DEF User, UserMessage, TurnReset, Abort, SetYolo, SetLLM, Answers, Answer,
     SetRules, BridgeFlagTypes
<1>2. CASE Commands
  BY <1>2 DEF Commands, MarkRunning, PutTask, SetStop, ReportAbort, EmitAborted,
     UpdateRules, CommandTypes, BridgeFlagTypes
<1>3. CASE Worker
  <2>1. CASE RunTool \/ EndTurn
    BY <2>1, Bounds DEF RunTool, EndTurn, Upcoming, EmitTurnStart, CallTypes, BridgeFlagTypes
  <2>2. CASE Decided
    <3>1. tool \in Tool
      BY <2>2 DEF Decided, AsksForTool
    <3> QED BY <2>2, <3>1 DEF Decided, BridgeFlagTypes
  <2>3. CASE ~(RunTool \/ EndTurn \/ Decided)
    BY <1>3, <2>3 DEF Worker, Take, SlashCommand, BeginRun, WorkerDies, BeginTurn, TurnLimit,
       Stopped, Raises, Dispatch, Blocked, ApprovalTimeout, ToolActs, NextCall,
       EndRun, HookedEnd, TellEnd, ClearRunning, Finish, BridgeFlagTypes
  <2> QED BY <2>1, <2>2, <2>3
<1>4. CASE UNCHANGED vars
  BY <1>4 DEF vars, BridgeFlagTypes
<1> QED BY <1>1, <1>2, <1>3, <1>4 DEF Next

\* register_pending and resolve_pending.
LEMMA StepGateTypes == GateTypes /\ [Next]_vars => GateTypes'
<1> SUFFICES ASSUME GateTypes, [Next]_vars PROVE GateTypes'
  OBVIOUS
<1> USE DEF gate, call, worker
<1>1. CASE Answers
  BY <1>1 DEF Answers, Answer, GateTypes
<1>2. CASE \E t \in Tool \cup {Plain} : Dispatch(t)
  <2>1. PICK t \in Tool \cup {Plain} : Dispatch(t)
    BY <1>2
  <2>2. CASE NeedsApproval(t)
    <3>1. /\ asked < MaxAsk /\ asked' = asked + 1 /\ pending' = pending \cup {asked + 1}
          /\ ask' = asked + 1 /\ decision' = decision
      BY <2>1, <2>2 DEF Dispatch, WithPending
    <3>2. asked' \in 0 .. MaxAsk /\ ask' \in 0 .. asked' /\ 1 .. asked \subseteq 1 .. asked'
      BY <3>1, Bounds DEF GateTypes
    <3>3. asked + 1 \in 1 .. asked'
      BY <3>1, Bounds DEF GateTypes
    <3> QED BY <3>1, <3>2, <3>3 DEF GateTypes
  <2>3. CASE ~NeedsApproval(t)
    <3>1. UNCHANGED <<asked, pending, decision>> /\ ask' = 0
      BY <2>1, <2>3 DEF Dispatch
    <3>2. 0 \in 0 .. asked
      BY Bounds DEF GateTypes
    <3> QED BY <3>1, <3>2 DEF GateTypes
  <2> QED BY <2>2, <2>3
<1>3. CASE Finish
  BY <1>3, Bounds DEF Finish, GateTypes
<1>4. CASE ~Answers /\ ~Finish /\ ~(\E t \in Tool \cup {Plain} : Dispatch(t))
  <2>1. UNCHANGED <<asked, pending, decision, ask>>
    BY <1>4 DEF Next, User, UserMessage, Abort, SetYolo, SetLLM, SetRules, Commands,
       MarkRunning, PutTask, SetStop, ReportAbort, EmitAborted, UpdateRules, Worker,
       Take, SlashCommand, BeginRun, WorkerDies, BeginTurn, TurnLimit, Stopped, Raises, Blocked,
       Decided, ApprovalTimeout, RunTool, ToolActs, NextCall, EndTurn, EndRun, HookedEnd, TellEnd,
       ClearRunning, vars
  <2> QED BY <2>1 DEF GateTypes
<1> QED BY <1>1, <1>2, <1>3, <1>4

\* The worker; it takes no more messages than were put.
LEMMA StepCallTypes == CommandTypes /\ CallTypes /\ [Next]_vars => CallTypes'
<1> SUFFICES ASSUME CommandTypes, CallTypes, [Next]_vars PROVE CallTypes'
  OBVIOUS
<1> USE DEF call, worker
<1>1. CASE User \/ UNCHANGED vars
  BY <1>1 DEF User, UserMessage, Abort, SetYolo, SetLLM, Answers, Answer, SetRules, loop,
     vars, CallTypes
<1>2. CASE Commands
  BY <1>2, Bounds DEF Commands, MarkRunning, PutTask, SetStop, ReportAbort, EmitAborted,
     UpdateRules, CommandTypes, CallTypes
<1>3. CASE Worker
  <2>1. given' = given
    BY <1>3 DEF Worker, Take, SlashCommand, BeginRun, WorkerDies, BeginTurn, TurnLimit, Stopped,
       Raises, Dispatch, Blocked, Decided, ApprovalTimeout, RunTool, ToolActs, NextCall, EndTurn,
       EndRun, HookedEnd, TellEnd, ClearRunning, Finish, loop
  <2>2. CASE Take \/ BeginTurn \/ Blocked
    BY <2>1, <2>2, Bounds DEF Take, BeginTurn, Blocked, Goto, CommandTypes, CallTypes
  <2>3. CASE \E t \in Tool \cup {Plain} : Dispatch(t)
    BY <2>1, <2>3, Bounds DEF Dispatch, Goto, CallTypes
  <2>4. CASE Finish
    BY <2>1, <2>4, Bounds DEF Finish, Goto, CallTypes
  <2>5. CASE ~(Take \/ BeginTurn \/ Blocked \/ Finish \/ \E t \in Tool \cup {Plain} : Dispatch(t))
    <3>1. UNCHANGED <<task, call>>
      BY <1>3, <2>5 DEF Worker, SlashCommand, BeginRun, WorkerDies, TurnLimit, Stopped, Raises,
         Decided, ApprovalTimeout, RunTool, ToolActs, NextCall, EndTurn, EndRun, HookedEnd,
         TellEnd, ClearRunning
    <3>2. wpc' \in {"wait", "loop", "run", "tool", "after", "denied", "stream", "clear",
                    "hooked", "last", "finish", "dead"}
      BY <1>3, <2>5 DEF Worker, SlashCommand, BeginRun, WorkerDies, TurnLimit, Stopped, Raises,
         Decided, ApprovalTimeout, RunTool, ToolActs, NextCall, EndTurn, EndRun, HookedEnd,
         TellEnd, ClearRunning, Goto
    <3> QED BY <2>1, <3>1, <3>2 DEF CallTypes
  <2> QED BY <2>2, <2>3, <2>4, <2>5
<1> QED BY <1>1, <1>2, <1>3 DEF Next

\* Only a dispatch that needs approval starts a wait.
LEMMA StepAsksForTool == AsksForTool /\ [Next]_vars => AsksForTool'
<1> SUFFICES ASSUME AsksForTool, [Next]_vars PROVE AsksForTool'
  OBVIOUS
<1> USE DEF call, worker
<1>1. CASE \E t \in Tool \cup {Plain} : Dispatch(t)
  BY <1>1 DEF Dispatch, NeedsApproval, Goto, AsksForTool
<1>2. CASE Worker /\ ~(\E t \in Tool \cup {Plain} : Dispatch(t))
  <2>1. wpc' # "await"
    BY <1>2 DEF Worker, Take, SlashCommand, BeginRun, WorkerDies, BeginTurn, TurnLimit, Stopped,
       Raises, Blocked, Decided, ApprovalTimeout, RunTool, ToolActs, NextCall, EndTurn, EndRun,
       HookedEnd, TellEnd, ClearRunning, Finish, Goto
  <2> QED BY <2>1 DEF AsksForTool
<1>3. CASE User \/ Commands \/ UNCHANGED vars
  <2>1. UNCHANGED <<wpc, tool>>
    BY <1>3 DEF User, UserMessage, Abort, SetYolo, SetLLM, Answers, Answer, SetRules, Commands,
       MarkRunning, PutTask, SetStop, ReportAbort, EmitAborted, UpdateRules, vars
  <2> QED BY <2>1 DEF AsksForTool
<1> QED BY <1>1, <1>2, <1>3 DEF Next

\* What the desktop shows comes from the turns of the loop.
LEMMA StepDesktopTypes == CallTypes /\ DesktopTypes /\ [Next]_vars => DesktopTypes'
<1> SUFFICES ASSUME CallTypes, DesktopTypes, [Next]_vars PROVE DesktopTypes'
  OBVIOUS
<1> USE DEF gui, EmitError, EmitRunComplete
<1>1. CASE User
  BY <1>1, Bounds DEF User, UserMessage, Abort, SetYolo, SetLLM, Answers, Answer, SetRules,
     DesktopTypes
<1>2. CASE Commands
  BY <1>2, Bounds DEF Commands, MarkRunning, PutTask, SetStop, ReportAbort, EmitAborted,
     UpdateRules, DesktopTypes
<1>3. CASE Worker
  <2>1. CASE RunTool \/ EndTurn \/ EndRun \/ HookedEnd
    BY <2>1, Bounds DEF RunTool, EndTurn, EndRun, HookedEnd, TellEnd, Upcoming, EmitTurnStart,
       CallTypes, DesktopTypes
  <2>2. CASE ~(RunTool \/ EndTurn \/ EndRun \/ HookedEnd)
    BY <1>3, <2>2, Bounds DEF Worker, Take, SlashCommand, BeginRun, WorkerDies, BeginTurn,
       TurnLimit, Stopped, Raises, Dispatch, Blocked, Decided, ApprovalTimeout, ToolActs, NextCall,
       ClearRunning, Finish, DesktopTypes
  <2> QED BY <2>1, <2>2
<1>4. CASE UNCHANGED vars
  BY <1>4 DEF vars, DesktopTypes
<1> QED BY <1>1, <1>2, <1>3, <1>4 DEF Next

\* Every step keeps the types.
LEMMA StepTypes == TypeInv /\ [Next]_vars => TypeInv'
<1> SUFFICES ASSUME TypeInv, [Next]_vars PROVE TypeInv'
  OBVIOUS
<1>1. /\ CommandTypes /\ BridgeFlagTypes /\ GateTypes /\ CallTypes /\ DesktopTypes
      /\ Putting /\ AsksForTool
  BY TypeParts DEF TypeInv
<1>2. /\ CommandTypes' /\ BridgeFlagTypes' /\ GateTypes' /\ CallTypes' /\ DesktopTypes'
      /\ Putting' /\ AsksForTool'
  BY <1>1, StepCommandTypes, StepBridgeFlagTypes, StepGateTypes, StepCallTypes,
     StepAsksForTool, StepDesktopTypes
<1>3. TypeOK'
  BY <1>2 DEF TypeOK, CommandTypes, BridgeFlagTypes, GateTypes, CallTypes, DesktopTypes
<1> QED BY <1>2, <1>3 DEF TypeInv

-----------------------------------------------------------------------------
(* The gate.                                                               *)

\* Every step keeps the gate: an answer reaches the request it names, a new
\* request has no answer, and a waiting call goes on only with its own.
LEMMA StepGate == TypeOK /\ Gate /\ [Next]_vars => Gate'
<1> SUFFICES ASSUME TypeOK, Gate, [Next]_vars PROVE Gate'
  OBVIOUS
<1> USE DEF loop, bridge, rules, gate, call, worker, agent, gui
<1>1. CASE User
  <2>1. CASE Answers
    <3>1. PICK i \in Id, d \in {"allow", "always", "deny"} : Answer(i, d)
      BY <2>1 DEF Answers
    <3>2. UNCHANGED <<asked, worker>>
      BY <3>1 DEF Answer
    <3>3. CASE i \in pending
      <4>1. pending' = pending \ {i} /\ decision' = [decision EXCEPT ![i] = d] /\ i <= asked
        BY <3>1, <3>3 DEF Answer
      \* An answered request is not answered again.
      <4>2. decision[i] = "none"
        BY <3>3 DEF Gate, Slots
      <4> QED BY <3>2, <4>1, <4>2
          DEF Gate, Slots, Waiting, WaitIsAnswerable, OnlyApprovedRuns, TypeOK, Id
    <3>4. CASE i \notin pending
      BY <3>1, <3>2, <3>4, GateFrame DEF Answer
    <3> QED BY <3>3, <3>4
  <2>2. CASE ~Answers
    BY <1>1, <2>2, GateFrame DEF User, UserMessage, Abort, SetYolo, SetLLM, SetRules
  <2> QED BY <2>1, <2>2
<1>2. CASE Commands
  BY <1>2, GateFrame DEF Commands, MarkRunning, PutTask, SetStop, ReportAbort, EmitAborted,
     UpdateRules
<1>3. CASE Worker
  <2>1. CASE \E t \in Tool \cup {Plain} : Dispatch(t)
    <3>1. PICK t \in Tool \cup {Plain} : Dispatch(t)
      BY <2>1
    <3>2. CASE NeedsApproval(t)
      <4>1. /\ asked + 1 \in Id /\ asked' = asked + 1 /\ ask' = asked + 1
            /\ pending' = pending \cup {asked + 1} /\ wpc' = "await" /\ decision' = decision
        BY <3>1, <3>2, BridgeAssumption DEF Dispatch, WithPending, Goto, TypeOK, Id
      \* A fresh id has no answer yet.
      <4>2. decision[asked + 1] = "none"
        BY <4>1 DEF Gate, Slots, TypeOK
      <4> QED BY <4>1, <4>2
          DEF Gate, Slots, Waiting, WaitIsAnswerable, OnlyApprovedRuns, TypeOK, Id
    <3>3. CASE ~NeedsApproval(t)
      BY <3>1, <3>3
         DEF Dispatch, Goto, Gate, Slots, Waiting, WaitIsAnswerable, OnlyApprovedRuns
    <3> QED BY <3>2, <3>3
  <2>2. CASE Decided
    <3>1. ask \in Id
      BY <2>2, BridgeAssumption DEF Decided, Gate, Waiting, TypeOK, Id
    <3>2. decision[ask] \in {"none", "allow", "always", "deny"}
      BY <3>1 DEF TypeOK
    <3>3. wpc' = "run" => decision[ask] \in {"allow", "always"}
      BY <2>2, <3>2 DEF Decided, Verdict, Goto
    <3>4. wpc' \in {"run", "denied"} /\ UNCHANGED <<gate, ask>>
      BY <2>2 DEF Decided, Goto
    <3> QED BY <3>3, <3>4 DEF Gate, Slots, Waiting, WaitIsAnswerable, OnlyApprovedRuns
  <2>3. CASE RunTool
    BY <2>3 DEF RunTool, Goto, Gate, Slots, Waiting, WaitIsAnswerable, OnlyApprovedRuns
  <2>4. CASE Finish
    BY <2>4 DEF Finish, Goto, Gate, Slots, Waiting, WaitIsAnswerable, OnlyApprovedRuns
  <2>5. CASE ~(\E t \in Tool \cup {Plain} : Dispatch(t)) /\ ~Decided /\ ~RunTool /\ ~Finish
    <3>1. UNCHANGED <<gate, ask>> /\ wpc' \notin {"await", "run", "tool"}
      BY <1>3, <2>5 DEF Worker, Take, SlashCommand, BeginRun, WorkerDies, BeginTurn, TurnLimit,
         Stopped, Raises, Blocked, ApprovalTimeout, ToolActs, NextCall, EndTurn, EndRun, HookedEnd,
         TellEnd, ClearRunning, Goto
    <3> QED BY <3>1, GateFrame
  <2> QED BY <2>1, <2>2, <2>3, <2>4, <2>5
<1>4. CASE UNCHANGED vars
  BY <1>4, GateFrame DEF vars
<1> QED BY <1>1, <1>2, <1>3, <1>4 DEF Next

-----------------------------------------------------------------------------
(* What the desktop shows.                                                 *)

\* A frontend that starts nothing and aborts nothing while it shows a run, and
\* whose user answers every request, once and in time.  Runs may still end
\* without a word: slash commands, exceptions, the turn limit; no done hook lets
\* one go on after its end was told.
Attended ==
    Ops \cap {"pipeline", "abort"} = {} /\ Faults \cap {"timeout", "late", "hook"} = {}

Sending == cpc \in {"mark", "put"} \/ task < given
Fresh == lastTurn = 0 /\ shown = 0 /\ ended = 0

\* What is shown while the worker is at a turn.  Its announcement, lastTurn, is
\* what is shown; it is missing only before the first tool of a first turn.
AtTurn ==
    /\ shown = lastTurn /\ lastTurn \in {0, ended + 1}
    /\ wpc = "taken" => turn = 0 /\ Fresh
    /\ wpc = "loop" => ended = turn /\ (turn # 0 => shown = turn + 1)
    /\ wpc \in {"stream", "await", "run", "tool", "after", "denied"} => turn = ended + 1
    /\ wpc \in {"tool", "after"} => shown = turn

\* A message at a time: one is sent only when the worker is done with the one
\* before, or about to be, and an unannounced end leaves the display working.
Display ==
    /\ cpc \notin {"stop", "report", "aborted"}
    /\ wpc = "wait" => turn = 0
    /\ ~running => shown = 0 /\ ~Sending /\ wpc \in {"wait", "clear", "finish"}
    /\ wpc \notin {"hooked", "last"}
    /\ running /\ Sending =>
          /\ Fresh /\ wpc \in {"wait", "clear", "finish"}
          /\ given = IF cpc \in {"mark", "put"} THEN task ELSE task + 1
    /\ wpc \in {"taken", "loop", "stream", "await", "run", "tool", "after", "denied"} => AtTurn

\* Nothing is shown of a runner that has no message.
LEMMA InitDisplay == Init => Display
BY DEF Init, Display, Sending

\* A step of the worker at a turn, or one that leaves the display alone.
LEMMA StepWorkerDisplay ==
    ASSUME Attended, TypeInv, Display, Worker
    PROVE  Display'
<1> USE DEF Attended, Goto, loop, bridge, rules, gate, call, worker, agent, gui, Sending, Fresh
<1>1. CallTypes /\ DesktopTypes /\ BridgeFlagTypes /\ CommandTypes /\ MaxTurns \in Nat
  BY TypeParts, Bounds DEF TypeInv
<1>2. CASE Take
  BY <1>1, <1>2 DEF Take, Display, AtTurn, CallTypes, CommandTypes
<1>3. CASE SlashCommand \/ BeginRun \/ WorkerDies
  BY <1>1, <1>3 DEF SlashCommand, BeginRun, WorkerDies, Display, AtTurn, CallTypes
<1>4. CASE BeginTurn
  BY <1>1, <1>4 DEF BeginTurn, Display, AtTurn, CallTypes, DesktopTypes
<1>5. CASE TurnLimit \/ Stopped \/ Raises
  BY <1>1, <1>5 DEF TurnLimit, Stopped, Raises, Display, CallTypes
<1>6. CASE \E t \in Tool \cup {Plain} : Dispatch(t)
  BY <1>1, <1>6 DEF Dispatch, Display, AtTurn
<1>7. CASE Blocked \/ Decided \/ NextCall
  BY <1>1, <1>7 DEF Blocked, Decided, NextCall, Display, AtTurn
<1>8. CASE ApprovalTimeout
  BY <1>8 DEF ApprovalTimeout, GivesUp
<1>9. CASE RunTool
  BY <1>1, <1>9 DEF RunTool, EmitTurnStart, EmitsTurnStart, Display, AtTurn, CallTypes, DesktopTypes
<1>10. CASE ToolActs
  BY <1>1, <1>10 DEF ToolActs, Display, AtTurn
<1>11. CASE EndTurn
  BY <1>1, <1>11 DEF EndTurn, Upcoming, EmitTurnStart, EmitsTurnStart, Display, AtTurn, CallTypes,
     DesktopTypes
<1>12. CASE EndRun \/ HookedEnd
  BY <1>1, <1>12 DEF EndRun, HookedEnd, TellEnd, EmitRunComplete, Display, AtTurn
<1>13. CASE ClearRunning \/ Finish
  BY <1>1, <1>13 DEF ClearRunning, Finish, Display
<1> QED
  BY <1>2, <1>3, <1>4, <1>5, <1>6, <1>7, <1>8, <1>9, <1>10, <1>11, <1>12, <1>13 DEF Worker

\* The user waits for the end of a run, so no error or abort reaches the display.
LEMMA StepDisplay == Attended /\ TypeInv /\ Display /\ [Next]_vars => Display'
<1> SUFFICES ASSUME Attended, TypeInv, Display, [Next]_vars PROVE Display'
  OBVIOUS
<1> USE DEF Attended, loop, bridge, rules, gate, call, worker, agent, gui, Sending, Fresh
<1>1. CallTypes /\ DesktopTypes /\ CommandTypes
  BY TypeParts DEF TypeInv
<1>2. CASE User
  <2>1. CASE UserMessage
    BY <1>1, <2>1 DEF UserMessage, Idle, MayStart, TurnReset, Display, AtTurn, CallTypes,
       CommandTypes
  <2>2. CASE Abort
    BY <2>2 DEF Abort
  <2>3. CASE SetYolo
    BY <2>3 DEF SetYolo, Display, AtTurn
  <2>4. CASE SetLLM
    BY <2>4 DEF SetLLM, MayStart, EmitError, EmitRunComplete, Display, AtTurn
  <2>5. CASE Answers
    BY <2>5 DEF Answers, Answer, Display, AtTurn
  <2>6. CASE \E R \in SUBSET Tool : SetRules(R)
    BY <2>6 DEF SetRules, Idle, Display, AtTurn
  <2> QED BY <1>2, <2>1, <2>2, <2>3, <2>4, <2>5, <2>6 DEF User
<1>3. CASE Commands
  <2>1. CASE MarkRunning
    BY <1>1, <2>1 DEF MarkRunning, Display, AtTurn
  <2>2. CASE PutTask
    BY <1>1, <2>2 DEF PutTask, Display, AtTurn, CallTypes, CommandTypes
  <2>3. CASE SetStop \/ ReportAbort \/ EmitAborted
    BY <2>3 DEF SetStop, ReportAbort, EmitAborted, Display
  <2>4. CASE UpdateRules
    BY <2>4 DEF UpdateRules, Display, AtTurn
  <2> QED BY <1>3, <2>1, <2>2, <2>3, <2>4 DEF Commands
<1>4. CASE Worker
  BY <1>4, StepWorkerDisplay
<1>5. CASE UNCHANGED vars
  BY <1>5 DEF vars, Display, AtTurn
<1> QED BY <1>2, <1>3, <1>4, <1>5 DEF Next

\* Every event the frontend hears is one the protocol allows at that point.
LEMMA StepProtocol ==
    Attended /\ TypeInv /\ Display /\ [Next]_vars => [Protocol!Next]_(Protocol!vars)
<1> SUFFICES ASSUME Attended, TypeInv, Display, [Next]_vars
             PROVE  Protocol!Next \/ UNCHANGED gui
  BY DEF Protocol!vars, gui
<1> USE DEF Attended, gui
<1>1. CallTypes /\ DesktopTypes /\ MaxTurns \in Nat
  BY TypeParts, Bounds DEF TypeInv
<1>2. CASE User
  <2>1. CASE UserMessage
    BY <2>1 DEF UserMessage, MayStart, Protocol!Next, Protocol!Submit
  <2>2. CASE SetLLM
    <3>1. ~running /\ shown = 0 /\ running \in BOOLEAN
      BY <1>1, <2>2 DEF SetLLM, MayStart, Display, DesktopTypes
    <3> QED BY <2>2, <3>1 DEF SetLLM, EmitError, EmitRunComplete
  <2>3. CASE Answers
    BY <2>3 DEF Answers, Answer
  <2>4. CASE Abort \/ SetYolo \/ \E R \in SUBSET Tool : SetRules(R)
    BY <2>4 DEF Abort, SetYolo, SetRules
  <2> QED BY <1>2, <2>1, <2>2, <2>3, <2>4 DEF User
<1>3. CASE Commands
  BY <1>3 DEF Commands, MarkRunning, PutTask, SetStop, ReportAbort, EmitAborted, UpdateRules,
     Display
<1>4. CASE Worker
  <2>1. CASE RunTool
    <3>1. running /\ shown = lastTurn /\ turn = ended + 1 /\ lastTurn \in {0, ended + 1}
      BY <1>1, <2>1 DEF RunTool, Display, AtTurn, DesktopTypes
    <3> QED BY <2>1, <3>1 DEF RunTool, EmitTurnStart, EmitsTurnStart, Protocol!Next,
            Protocol!Announce
  <2>2. CASE EndTurn
    <3>1. running /\ turn = ended + 1 /\ lastTurn \in {0, ended + 1} /\ ended \in Nat
      BY <1>1, <2>2 DEF EndTurn, Display, AtTurn, DesktopTypes
    <3>2. ended' = ended + 1 /\ shown' = ended + 2 /\ running' = running
      BY <2>2, <3>1 DEF EndTurn, Upcoming, EmitTurnStart, EmitsTurnStart
    <3> QED BY <3>1, <3>2 DEF Protocol!Next, Protocol!EndTurn
  <2>3. CASE EndRun \/ HookedEnd
    <3>1. running /\ turn = ended + 1 /\ shown = turn
      BY <1>1, <2>3 DEF EndRun, HookedEnd, TellEnd, Display, AtTurn, DesktopTypes
    <3> QED BY <2>3, <3>1 DEF EndRun, HookedEnd, TellEnd, EmitRunComplete, Protocol!Next,
               Protocol!Complete
  <2>4. CASE ApprovalTimeout
    BY <2>4 DEF ApprovalTimeout, GivesUp
  <2>5. CASE ~(RunTool \/ EndTurn \/ EndRun \/ HookedEnd \/ ApprovalTimeout)
    BY <1>4, <2>5 DEF Worker, Take, SlashCommand, BeginRun, WorkerDies, BeginTurn, TurnLimit,
       Stopped, Raises, Dispatch, Blocked, Decided, ToolActs, NextCall, ClearRunning, Finish
  <2> QED BY <2>1, <2>2, <2>3, <2>4, <2>5
<1>5. CASE UNCHANGED vars
  BY <1>5 DEF vars
<1> QED BY <1>2, <1>3, <1>4, <1>5 DEF Next

-----------------------------------------------------------------------------
(* The theorems.                                                           *)

\* The inductive invariant holds of every reachable state.
THEOREM GateInvariance == Spec => []GateInv
<1>1. GateInv /\ [Next]_vars => GateInv'
  BY StepTypes, StepGate DEF GateInv, TypeInv
<1> QED BY InitGateInv, <1>1, PTL DEF Spec

\* The runner's variables keep their types.
THEOREM BridgeTypes == Spec => []TypeOK
<1>1. GateInv => TypeOK
  BY DEF GateInv, TypeInv, Gate
<1> QED BY GateInvariance, <1>1, PTL

\* A gated tool runs only on the user's yes to the request it waited on,
\* whatever answers to other requests, timeouts and aborts come in between.
THEOREM GateHolds == Spec => []OnlyApprovedRuns
<1>1. GateInv => OnlyApprovedRuns
  BY DEF GateInv, TypeInv, Gate
<1> QED BY GateInvariance, <1>1, PTL

\* A waiting worker's request can be answered or has been.
THEOREM WaitsAreAnswerable == Spec => []WaitIsAnswerable
<1>1. GateInv => WaitIsAnswerable
  BY DEF GateInv, TypeInv, Gate
<1> QED BY GateInvariance, <1>1, PTL

\* The display is in step with the worker, for an attended frontend.
THEOREM DisplayInvariance == Attended /\ Spec => [](TypeInv /\ Display)
<1>1. GateInv => TypeInv
  BY DEF GateInv
<1>2. Attended => (Spec => []Display)
  <2> SUFFICES ASSUME Attended PROVE Spec => []Display
    OBVIOUS
  <2>1. TypeInv /\ Display /\ [Next]_vars => Display'
    BY StepDisplay
  <2> QED BY <1>1, <2>1, GateInvariance, InitDisplay, PTL DEF Spec
<1> QED BY <1>1, <1>2, GateInvariance, PTL

\* While a tool acts an attended frontend shows the turn it belongs to, though
\* a turn is announced twice and the second announcement is dropped by a number
\* the command loop resets (_last_emitted_turn of yole_bridge.py).
THEOREM ToolsAreShown == Attended /\ Spec => []ToolIsShown
<1>1. Display => ToolIsShown
  BY DEF Display, AtTurn, ToolIsShown
<1> QED BY <1>1, DisplayInvariance, PTL

\* The runner implements the protocol of docs/ipc-protocol.md for an attended
\* frontend: it starts as the protocol does, and every step is one of the
\* protocol or none that the frontend sees.
THEOREM EventsAreOrderly == Attended /\ Spec => Protocol!Orderly
<1>1. Init => Protocol!Init
  BY DEF Init, Protocol!Init
<1>2. Attended => (Spec => Protocol!Orderly)
  <2> SUFFICES ASSUME Attended PROVE Spec => Protocol!Orderly
    OBVIOUS
  <2>1. TypeInv /\ Display /\ [Next]_vars => [Protocol!Next]_(Protocol!vars)
    BY StepProtocol
  <2>2. Spec => [](TypeInv /\ Display)
    BY DisplayInvariance, PTL
  <2> QED BY <1>1, <2>1, <2>2, PTL DEF Spec, Protocol!Orderly
<1> QED BY <1>2, PTL

=============================================================================
