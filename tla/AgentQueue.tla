------------------------------ MODULE AgentQueue ------------------------------
(***************************************************************************)
(* A GenericAgent as its front ends see it (agentmain.py): tasks go in by  *)
(* put_task, each with a display queue of its own; one worker thread takes *)
(* them in order, puts "next" items while a task runs and "done" at its    *)
(* end; abort() looks whether a task runs and then, in a step of its own,  *)
(* sets stop_sig, which only the end of a task resets.                     *)
(***************************************************************************)
EXTENDS Naturals, Sequences, FiniteSets

CONSTANTS MaxTasks,     \* bound: tasks ever put
          MaxNext       \* bound: "next" items of one task

ASSUME AgentAssumption == MaxTasks \in Nat \ {0} /\ MaxNext \in Nat

VARIABLES
    tasks,       \* task_queue
    made,        \* tasks put so far; they are numbered in that order
    worker,      \* where GenericAgent.run stands
    task,        \* the task the worker holds, 0 if none
    isRunning,   \* is_running
    stopSig,     \* stop_sig
    aborting,    \* threads inside abort(), between its look and its effect
    given,       \* "next" items of this task
    display      \* what waits in the display queue of each task
avars == <<tasks, made, worker, task, isRunning, stopSig, aborting, given, display>>

Task == 1 .. MaxTasks

AgentInit ==
    /\ tasks = <<>> /\ made = 0
    /\ worker = "waiting"
    /\ task = 0
    /\ isRunning = FALSE
    /\ stopSig = FALSE
    /\ aborting = {}
    /\ given = 0
    /\ display = [t \in Task |-> <<>>]

\* put_task, by a front end.
PutTask ==
    /\ made < MaxTasks
    /\ made' = made + 1
    /\ tasks' = Append(tasks, made')
    /\ UNCHANGED <<worker, task, isRunning, stopSig, aborting, given, display>>

\* abort(), by thread a of a front end: nothing happens unless a task runs.
AbortAgent(a) ==
    /\ aborting' = IF isRunning THEN aborting \union {a} ELSE aborting
    /\ UNCHANGED <<tasks, made, worker, task, isRunning, stopSig, given, display>>

\* The flag is set, whether or not that task still runs.
SetStop(a) ==
    /\ a \in aborting
    /\ aborting' = aborting \ {a}
    /\ stopSig' = TRUE
    /\ UNCHANGED <<tasks, made, worker, task, isRunning, given, display>>

\* The reader of task t's display queue takes one item.
Has(t) == display[t] # <<>>
Item(t) == Head(display[t])
TakeItem(t) ==
    /\ Has(t)
    /\ display' = [display EXCEPT ![t] = Tail(@)]
    /\ UNCHANGED <<tasks, made, worker, task, isRunning, stopSig, aborting, given>>

Put(items) == display' = [display EXCEPT ![task] = @ \o items]

TakeTask ==
    /\ worker = "waiting" /\ tasks # <<>>
    /\ worker' = "taken"
    /\ task' = Head(tasks)
    /\ tasks' = Tail(tasks)
    /\ UNCHANGED <<made, isRunning, stopSig, aborting, given, display>>

\* A slash command is answered at once.
AnswerSlash ==
    /\ worker = "taken"
    /\ Put(<<"done">>)
    /\ worker' = "waiting"
    /\ task' = 0
    /\ UNCHANGED <<tasks, made, isRunning, stopSig, aborting, given>>

\* MUTANT: the flag is left as it was
RunningUnset == isRunning
RunningSet == TRUE
StartTask ==
    /\ worker = "taken"
    /\ worker' = "running"
    /\ isRunning' = RunningSet
    /\ UNCHANGED <<tasks, made, task, stopSig, aborting, given, display>>

\* An exception before the try block ends the thread: no "done", no next task.
WorkerDies ==
    /\ worker = "taken"
    /\ worker' = "dead"
    /\ isRunning' \in BOOLEAN
    /\ UNCHANGED <<tasks, made, task, stopSig, aborting, given, display>>

GiveNext ==
    /\ worker = "running" /\ ~stopSig /\ given < MaxNext
    /\ given' = given + 1
    /\ Put(<<"next">>)
    /\ UNCHANGED <<tasks, made, worker, task, isRunning, stopSig, aborting>>

\* The loop ends, by itself, by stop_sig or by an exception.
GiveDone ==
    /\ worker = "running"
    /\ \/ Put(<<"done">>)
       \/ given < MaxNext /\ Put(<<"next", "done">>)
    /\ worker' = "ended"
    /\ UNCHANGED <<tasks, made, task, isRunning, stopSig, aborting, given>>

\* The finally block.
RestWorker ==
    /\ worker = "ended"
    /\ worker' = "waiting"
    /\ task' = 0
    /\ isRunning' = FALSE
    /\ stopSig' = FALSE
    /\ given' = 0
    /\ UNCHANGED <<tasks, made, aborting, display>>

AgentStep ==
    \/ TakeTask \/ AnswerSlash \/ StartTask \/ WorkerDies
    \/ GiveNext \/ GiveDone \/ RestWorker

AgentTypeOK ==
    /\ made \in 0 .. MaxTasks
    /\ worker \in {"waiting", "taken", "running", "ended", "dead"}
    /\ task \in 0 .. made
    /\ (task = 0) = (worker = "waiting")
    /\ given \in 0 .. MaxNext
    /\ worker \in {"running", "ended"} => isRunning
=============================================================================
