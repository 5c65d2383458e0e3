----------------------------- MODULE BridgeRun -----------------------------
(***************************************************************************)
(* The runner process of one session while it works on user messages:      *)
(* the command loop of runner/yole_bridge.py and the GenericAgent worker   *)
(* thread (managed-ga/code/agentmain.py, agent_loop.py) with the approval  *)
(* gate of runner/handlers.py in between, and what the desktop's           *)
(* handlers of the events show (gui/src/lib/ipc-handlers.ts).              *)
(*                                                                         *)
(* The two threads share run_in_progress, _last_emitted_turn, the rule     *)
(* sets, the pending approvals, is_running and stop_sig, without a lock    *)
(* around more than one access.  Events leave through one FIFO queue, so   *)
(* the desktop sees them in the order they are emitted; a command is       *)
(* handled when the desktop sends it.  Once task < given, messages wait in *)
(* the agent's task queue: it is FIFO, so their numbers need no list.      *)
(***************************************************************************)
EXTENDS Naturals, FiniteSets

CONSTANTS
    Tool,      \* the tools that need approval
    Plain,     \* any other tool, and the answer without a tool
    MaxTurns,  \* max_turns of agent_runner_loop
    MaxCalls,  \* bound: tool calls in one turn
    MaxTasks,  \* bound: user messages
    MaxAsk,    \* bound: approvals asked for
    Ops,       \* bound: what the user does, a subset of AllOps
    Faults     \* what may go wrong, a subset of AllFaults

\* "pipeline": a message is sent, or another model chosen, while a run is on.
AllOps == {"pipeline", "abort", "llm", "rules", "yolo"}
\* "timeout": an approval is not answered in time; "late": it is answered
\* after that, or twice; "slash": the agent takes the message for one of its
\* own commands; "raise": the model or a tool raises; "limit": the run uses up
\* its turns; "die": something raises outside the try of GenericAgent.run;
\* "hook": a script of the agent has left a done hook.
AllFaults == {"timeout", "late", "slash", "raise", "limit", "die", "hook"}

ASSUME BridgeAssumption ==
    /\ Plain \notin Tool
    /\ MaxTurns \in Nat \ {0} /\ MaxCalls \in Nat \ {0}
    /\ MaxTasks \in Nat /\ MaxAsk \in Nat
    /\ Ops \subseteq AllOps /\ Faults \subseteq AllFaults

VARIABLES
    given,       \* user messages put on the agent's task queue
    cpc,         \* the command loop
    arg,         \* the rule set of the command in hand
    aborted,     \* the last message an ABORTED run_complete spoke for
    llm,         \* the agent's llm_no
    inProgress,  \* Bridge.run_in_progress
    lastTurn,    \* Bridge._last_emitted_turn
    allowed,     \* the always-allow rules
    yolo,        \* SessionState.yolo_mode
    asked,       \* approval ids issued so far
    pending,     \* the ids in SessionState._pending
    decision,    \* id -> its _PendingApproval.decision
    task,        \* the message the worker took last
    wpc,         \* the worker
    turn,        \* its turn in agent_runner_loop
    calls,       \* tool calls made in this turn
    tool,        \* the tool being dispatched
    ask,         \* the approval it waits for, or was run on; 0 for none
    isRunning,   \* GenericAgent.is_running
    stopSig,     \* GenericAgent.stop_sig
    running,     \* desktop: agentRunning
    shown,       \* desktop: currentTurnIndex, 0 for none
    ended        \* desktop: turns appended since the user's message

loop   == <<given, cpc, arg, aborted, llm>>
bridge == <<inProgress, lastTurn>>
rules  == <<allowed, yolo>>
gate   == <<asked, pending, decision>>
call   == <<turn, calls, tool, ask>>
worker == <<task, wpc, call>>
agent  == <<isRunning, stopSig>>
gui    == <<running, shown, ended>>
vars   == <<loop, bridge, rules, gate, worker, agent, gui>>

Id == 1 .. MaxAsk

Init ==
    /\ given = 0 /\ cpc = "idle" /\ arg = {} /\ aborted = 0 /\ llm = 0
    /\ inProgress = FALSE /\ lastTurn = 0
    /\ allowed = {} /\ yolo = FALSE
    /\ asked = 0 /\ pending = {} /\ decision = [i \in Id |-> "none"]
    /\ task = 0 /\ wpc = "wait"
    /\ turn = 0 /\ calls = 0 /\ tool = Plain /\ ask = 0
    /\ isRunning = FALSE /\ stopSig = FALSE
    /\ running = FALSE /\ shown = 0 /\ ended = 0

-----------------------------------------------------------------------------
(* Events, by what the desktop does with them.                             *)

EmitRunComplete == running' = FALSE /\ shown' = 0

\* Any error ends the "working" display, whatever the run does.
EmitError == EmitRunComplete /\ UNCHANGED ended

EmitsTurnStart(n) == n # lastTurn
EmitTurnStart(n) ==
    IF EmitsTurnStart(n)
    THEN lastTurn' = n /\ shown' = n
    ELSE UNCHANGED <<lastTurn, shown>>

-----------------------------------------------------------------------------
(* The command loop: Bridge.dispatch_command.                              *)

Idle == cpc = "idle"
\* The composer and the model switch are disabled while the desktop shows a run.
MayStart == ~running \/ "pipeline" \in Ops

\* user_message and ask_user_response: reset, mark, put, one after the other.
TurnKept == lastTurn
TurnReset == 0

UserMessage ==
    /\ Idle /\ MayStart /\ given < MaxTasks
    /\ lastTurn' = TurnReset
    /\ running' = TRUE /\ shown' = 0 /\ ended' = 0
    /\ cpc' = "mark"
    /\ UNCHANGED <<given, arg, aborted, llm, inProgress, rules, gate, worker, agent>>

MarkRunning ==
    /\ cpc = "mark"
    /\ inProgress' = TRUE
    /\ cpc' = "put"
    /\ UNCHANGED <<given, arg, aborted, llm, lastTurn, rules, gate, worker, agent, gui>>

PutTask ==
    /\ cpc = "put"
    /\ given' = given + 1
    /\ cpc' = "idle"
    /\ UNCHANGED <<arg, aborted, llm, bridge, rules, gate, worker, agent, gui>>

\* agent.abort() does nothing unless is_running.
Abort ==
    /\ Idle /\ "abort" \in Ops
    /\ cpc' = IF isRunning THEN "stop" ELSE "report"
    /\ UNCHANGED <<given, arg, aborted, llm, bridge, rules, gate, worker, agent, gui>>

SetStop ==
    /\ cpc = "stop"
    /\ stopSig' = TRUE
    /\ cpc' = "report"
    /\ UNCHANGED <<given, arg, aborted, llm, bridge, rules, gate, worker, isRunning, gui>>

ReportAbort ==
    /\ cpc = "report"
    /\ cpc' = IF inProgress THEN "aborted" ELSE "idle"
    /\ UNCHANGED <<given, arg, aborted, llm, bridge, rules, gate, worker, agent, gui>>

EmitAborted ==
    /\ cpc = "aborted"
    /\ EmitRunComplete
    /\ aborted' = given
    /\ inProgress' = FALSE
    /\ cpc' = "idle"
    /\ UNCHANGED <<given, arg, llm, lastTurn, rules, gate, worker, agent, ended>>

\* resolve_pending: the first answer counts, another one finds no entry.
Answer(i, d) ==
    /\ Idle /\ i <= asked
    /\ i \in pending \/ "late" \in Faults
    /\ IF i \in pending
       THEN /\ pending' = pending \ {i}
            /\ decision' = [decision EXCEPT ![i] = d]
            /\ UNCHANGED gui
       ELSE EmitError /\ UNCHANGED <<pending, decision>>
    /\ UNCHANGED <<loop, bridge, rules, asked, worker, agent>>

\* set_approval_rules: clear, then update.
SetRules(R) ==
    /\ Idle /\ "rules" \in Ops
    /\ allowed' = {}
    /\ arg' = R
    /\ cpc' = "rules"
    /\ UNCHANGED <<given, aborted, llm, bridge, yolo, gate, worker, agent, gui>>

UpdateRules ==
    /\ cpc = "rules"
    /\ allowed' = allowed \cup arg
    /\ arg' = {}
    /\ cpc' = "idle"
    /\ UNCHANGED <<given, aborted, llm, bridge, yolo, gate, worker, agent, gui>>

SetYolo ==
    /\ Idle /\ "yolo" \in Ops
    /\ yolo' = ~yolo
    /\ UNCHANGED <<loop, bridge, allowed, gate, worker, agent, gui>>

\* set_llm is refused while run_in_progress is set.
SetLLM ==
    /\ Idle /\ "llm" \in Ops /\ MayStart
    /\ IF inProgress
       THEN EmitError /\ UNCHANGED llm
       ELSE llm' = 1 - llm /\ UNCHANGED gui
    /\ UNCHANGED <<given, cpc, arg, aborted, bridge, rules, gate, worker, agent>>

-----------------------------------------------------------------------------
(* The worker: GenericAgent.run and agent_runner_loop.                     *)

Goto(label) == wpc' = label

Take ==
    /\ wpc = "wait" /\ task < given
    /\ task' = task + 1
    /\ Goto("taken")
    /\ UNCHANGED <<loop, bridge, rules, gate, call, agent, gui>>

\* A message the agent handles itself: its answer is a system_message only.
SlashCommand ==
    /\ wpc = "taken" /\ "slash" \in Faults
    /\ Goto("wait")
    /\ UNCHANGED <<loop, bridge, rules, gate, task, call, agent, gui>>

BeginRun ==
    /\ wpc = "taken"
    /\ isRunning' = TRUE
    /\ Goto("loop")
    /\ UNCHANGED <<loop, bridge, rules, gate, task, call, stopSig, gui>>

\* The message, or the prompt made of it, raises before the try: the thread
\* ends, and nothing starts it again.
WorkerDies ==
    /\ wpc = "taken" /\ "die" \in Faults
    /\ isRunning' \in {isRunning, TRUE}
    /\ Goto("dead")
    /\ UNCHANGED <<loop, bridge, rules, gate, task, call, stopSig, gui>>

BeginTurnInclusive ==
    /\ wpc = "loop" /\ turn <= MaxTurns
    /\ turn' = turn + 1
    /\ calls' = 0
    /\ Goto("stream")
    /\ UNCHANGED <<loop, bridge, rules, gate, task, tool, ask, agent, gui>>

BeginTurn ==
    /\ wpc = "loop" /\ turn < MaxTurns
    /\ turn' = turn + 1
    /\ calls' = 0
    /\ Goto("stream")
    /\ UNCHANGED <<loop, bridge, rules, gate, task, tool, ask, agent, gui>>

\* The loop runs out of turns: no callback, hence no run_complete.
TurnLimit ==
    /\ wpc = "loop" /\ turn = MaxTurns
    /\ Goto("finish")
    /\ UNCHANGED <<loop, bridge, rules, gate, task, call, agent, gui>>

\* The consumer of the generator looks at stop_sig at every chunk.
Stopped ==
    /\ wpc \in {"stream", "tool", "after", "denied"} /\ stopSig
    /\ Goto("finish")
    /\ UNCHANGED <<loop, bridge, rules, gate, task, call, agent, gui>>

Raises ==
    /\ wpc \in {"stream", "tool"} /\ "raise" \in Faults
    /\ Goto("finish")
    /\ UNCHANGED <<loop, bridge, rules, gate, task, call, agent, gui>>

NeedsApproval(t) == ~yolo /\ t \in Tool \ allowed

\* Unless the turn limit may strike, the last call of the last turn answers.
Room == turn < MaxTurns \/ calls + 1 < MaxCalls \/ "limit" \in Faults

\* register_pending
NotRegistered(i) == pending
WithPending(i) == pending \cup {i}

\* YoleHandler.dispatch: a gated call registers an approval and waits for it.
Dispatch(t) ==
    /\ wpc = "stream" /\ ~stopSig /\ calls < MaxCalls
    /\ tool' = t
    /\ calls' = calls + 1
    /\ IF NeedsApproval(t)
       THEN /\ asked < MaxAsk /\ Room
            /\ asked' = asked + 1
            /\ pending' = WithPending(asked')
            /\ ask' = asked'
            /\ Goto("await")
       ELSE /\ ask' = 0
            /\ Goto("run")
            /\ UNCHANGED <<asked, pending>>
    /\ UNCHANGED <<loop, bridge, rules, decision, task, turn, agent, gui>>

\* A disaster-level command, or a tool the agent does not have.
Blocked ==
    /\ wpc = "stream" /\ ~stopSig /\ calls < MaxCalls /\ Room
    /\ calls' = calls + 1
    /\ Goto("denied")
    /\ UNCHANGED <<loop, bridge, rules, gate, task, turn, tool, ask, agent, gui>>

\* What the waiting worker finds in its own slot.
LastVerdict(i) == IF \E j \in Id : decision[j] = "allow" THEN "allow" ELSE decision[i]
Verdict(i) == decision[i]

Decided ==
    /\ wpc = "await" /\ Verdict(ask) # "none"
    /\ Goto(IF Verdict(ask) = "deny" THEN "denied" ELSE "run")
    /\ allowed' = IF Verdict(ask) = "always" THEN allowed \cup {tool} ELSE allowed
    /\ UNCHANGED <<loop, bridge, yolo, gate, task, call, agent, gui>>

NeverGivesUp == FALSE
GivesUp == "timeout" \in Faults

\* The entry stays in _pending; the error reaches the desktop.
ApprovalTimeout ==
    /\ wpc = "await" /\ GivesUp /\ Verdict(ask) = "none"
    /\ EmitError
    /\ Goto("denied")
    /\ UNCHANGED <<loop, bridge, rules, gate, task, call, agent>>

\* turn_start comes with the tool, after its approval.
RunTool ==
    /\ wpc = "run"
    /\ EmitTurnStart(turn)
    /\ Goto("tool")
    /\ UNCHANGED <<loop, inProgress, rules, gate, task, call, agent, running, ended>>

\* Also when stop_sig is set: a tool may act before its first chunk.
ToolActs ==
    /\ wpc = "tool"
    /\ Goto("after")
    /\ UNCHANGED <<loop, bridge, rules, gate, task, call, agent, gui>>

NextCall ==
    /\ wpc \in {"after", "denied"} /\ calls < MaxCalls
    /\ Goto("stream")
    /\ UNCHANGED <<loop, bridge, rules, gate, task, call, agent, gui>>

ThisTurn == turn
Upcoming == turn + 1

\* turn_end_callback without an exit reason: the next turn is announced.
EndTurn ==
    /\ wpc \in {"after", "denied"}
    /\ turn < MaxTurns \/ "limit" \in Faults
    /\ ended' = turn
    /\ EmitTurnStart(Upcoming)
    /\ Goto("loop")
    /\ UNCHANGED <<loop, inProgress, rules, gate, task, call, agent, running>>

\* With one: run_complete, and only then run_in_progress is cleared.
TellEnd(label) ==
    /\ ended' = turn
    /\ EmitRunComplete
    /\ Goto(label)
    /\ UNCHANGED <<loop, bridge, rules, gate, task, call, agent>>

EndRun == wpc \in {"after", "last"} /\ TellEnd("clear")

\* A done hook goes on with another prompt, after the callback told of the end;
\* when no turn is left, the end is told once more.
HookedEnd == wpc = "after" /\ "hook" \in Faults /\ TellEnd("hooked")

ClearRunning ==
    /\ \/ wpc = "clear" /\ Goto("finish")
       \/ wpc = "hooked" /\ Goto(IF turn < MaxTurns THEN "loop" ELSE "last")
    /\ inProgress' = FALSE
    /\ UNCHANGED <<loop, lastTurn, rules, gate, task, call, agent, gui>>

Finish ==
    /\ wpc = "finish"
    /\ isRunning' = FALSE /\ stopSig' = FALSE
    /\ turn' = 0 /\ calls' = 0 /\ tool' = Plain /\ ask' = 0
    /\ Goto("wait")
    /\ UNCHANGED <<loop, bridge, rules, gate, task, gui>>

-----------------------------------------------------------------------------
Answers == \E i \in Id, d \in {"allow", "always", "deny"} : Answer(i, d)

User ==
    \/ UserMessage \/ Abort \/ SetYolo \/ SetLLM \/ Answers
    \/ \E R \in SUBSET Tool : SetRules(R)

Commands == MarkRunning \/ PutTask \/ SetStop \/ ReportAbort \/ EmitAborted \/ UpdateRules

Worker ==
    \/ Take \/ SlashCommand \/ BeginRun \/ WorkerDies \/ BeginTurn \/ TurnLimit \/ Stopped \/ Raises
    \/ \E t \in Tool \cup {Plain} : Dispatch(t)
    \/ Blocked \/ Decided \/ ApprovalTimeout \/ RunTool \/ ToolActs
    \/ NextCall \/ EndTurn \/ EndRun \/ HookedEnd \/ ClearRunning \/ Finish

Next == User \/ Commands \/ Worker

Spec == Init /\ [][Next]_vars

\* Both threads run; the wait for an approval has a timeout.
FairSpec == Spec /\ WF_vars(Commands) /\ WF_vars(Worker)

\* A user who answers what is asked, before the timeout.
AttendedSpec == FairSpec /\ SF_vars(Answers)
-----------------------------------------------------------------------------
(* What the runner promises.                                               *)

\* Every variable keeps the type its declaration gives it.
TypeOK ==
    /\ given \in 0 .. MaxTasks /\ aborted \in 0 .. MaxTasks /\ llm \in {0, 1}
    /\ cpc \in {"idle", "mark", "put", "stop", "report", "aborted", "rules"}
    /\ arg \subseteq Tool /\ allowed \subseteq Tool
    /\ inProgress \in BOOLEAN /\ yolo \in BOOLEAN
    /\ lastTurn \in 0 .. MaxTurns + 1
    /\ asked \in 0 .. MaxAsk /\ pending \subseteq 1 .. asked
    /\ decision \in [Id -> {"none", "allow", "always", "deny"}]
    /\ task \in 0 .. given
    /\ wpc \in {"wait", "taken", "loop", "stream", "await", "run", "tool", "after",
                "denied", "clear", "hooked", "last", "finish", "dead"}
    /\ turn \in 0 .. MaxTurns /\ calls \in 0 .. MaxCalls
    /\ tool \in Tool \cup {Plain} /\ ask \in 0 .. asked
    /\ isRunning \in BOOLEAN /\ stopSig \in BOOLEAN
    /\ running \in BOOLEAN /\ shown \in 0 .. MaxTurns + 1 /\ ended \in 0 .. MaxTurns

\* A call that had to ask runs only on the user's own yes to that very request:
\* neither an answer to another request, late or repeated, nor a timeout or an
\* abort meanwhile lets it through.
OnlyApprovedRuns ==
    wpc \in {"run", "tool"} /\ ask # 0 => decision[ask] \in {"allow", "always"}

\* An approval the worker still waits for can still be answered: its slot is
\* registered before the desktop hears of it and nothing else takes it out.
WaitIsAnswerable == wpc = "await" => ask \in pending \/ decision[ask] # "none"

\* While a tool acts the desktop shows the turn it belongs to.
ToolIsShown == wpc = "tool" => running /\ shown = turn

\* Every message on the queue gets its turn, whatever the user leaves
\* unanswered and however the runs before it end; but for an exception outside
\* the run's try, which ends the worker and leaves the rest where it is.
MessagesAreTaken == \A k \in 1 .. MaxTasks : given >= k ~> task >= k \/ wpc = "dead"

\* For a frontend that starts nothing while it shows a run, and without
\* aborts and faults, events come in the order the protocol promises.
Protocol == INSTANCE RunProtocol WITH running <- running, shown <- shown, ended <- ended
FollowsProtocol == Protocol!Spec

-----------------------------------------------------------------------------
(* What documents and comments say of the runner, which it does not do.    *)

\* docs/ipc-protocol.md:328,342-345: a run_complete ends "a complete run of one
\* user_message", also one that reached max_turns.
RunIsReported == wpc = "wait" /\ task = given /\ cpc = "idle" => ~running
=============================================================================
