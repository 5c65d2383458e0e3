------------------------------ MODULE Conductor ------------------------------
(***************************************************************************)
(* frontends/conductor.py: one subagent, whose agent is AgentQueue, the    *)
(* HTTP handlers that act on it from a pool of threads, a monitor thread   *)
(* per task, the clean-up thread, and the conductor loop that turns user   *)
(* messages and finished tasks into prompts of the conductor's own agent,  *)
(* one at a time.                                                          *)
(***************************************************************************)
EXTENDS AgentQueue

CONSTANTS MaxMessages,   \* bound: messages of the user
          MaxHandlers    \* bound: requests at work at once

VARIABLES
    card,        \* the subagent's status, "none" before it is started
    handlers,    \* requests between their look at the card and their effect
    monitored,   \* tasks whose monitor thread runs
    said,        \* messages the user sent
    events,      \* conductor_events: how many wait
    batch,       \* events the loop has collected
    prompted,    \* events that went into a prompt
    loop         \* conductor_loop: "waiting", "collecting" or "working"
cvars == <<card, handlers, monitored, said, events, batch, prompted, loop>>

ConductorInit ==
    /\ card = "none"
    /\ handlers = {}
    /\ monitored = {}
    /\ said = 0
    /\ events = 0 /\ batch = 0 /\ prompted = 0
    /\ loop = "waiting"

\* start_subagent and input_subagent after its check: the card says running,
\* the task is put and a monitor thread reads its queue.
Assigned ==
    /\ PutTask
    /\ card' = "running"
    /\ monitored' = monitored \union {made'}
    /\ UNCHANGED <<said, events, batch, prompted, loop>>
StartSubagent == card = "none" /\ Assigned /\ UNCHANGED handlers

\* A request finds the subagent.  Input and the clean-up thread look at its
\* status first, for one that is not at work.
Finds(kind) ==
    /\ card # "none"
    /\ kind \notin handlers /\ Cardinality(handlers) < MaxHandlers
    /\ UNCHANGED <<card, monitored, said, events, batch, prompted, loop>>
Asked(kind) ==
    /\ Finds(kind)
    /\ kind = "input" => card # "running" /\ made < MaxTasks
    /\ kind = "cleanup" => card = "stopped"
    /\ handlers' = handlers \union {kind}
    /\ UNCHANGED avars

Input == "input" \in handlers /\ Assigned /\ handlers' = handlers \ {"input"}

\* stop, kill and the clean-up: abort() first, the status afterwards.
Marking(kind) == IF kind = "stop" THEN "stopping" ELSE "killing"
Aborts(kind) ==
    /\ AbortAgent(kind)
    /\ handlers' = (handlers \ {kind}) \union {IF isRunning THEN kind ELSE Marking(kind)}
StopOrKill(kind) == Finds(kind) /\ Aborts(kind)
CleanUp ==
    /\ "cleanup" \in handlers \ aborting
    /\ Aborts("cleanup")
    /\ UNCHANGED <<card, monitored, said, events, batch, prompted, loop>>
Aborted(kind) ==
    /\ SetStop(kind)
    /\ handlers' = (handlers \ {kind}) \union {Marking(kind)}
    /\ UNCHANGED <<card, monitored, said, events, batch, prompted, loop>>
Mark(kind, status) ==
    /\ kind \in handlers
    /\ card' = status
    /\ handlers' = handlers \ {kind}
    /\ UNCHANGED <<monitored, said, events, batch, prompted, loop>>
    /\ UNCHANGED avars

\* monitor_display_queue, one item: a "next" says running, whatever the card
\* said before.
\* MUTANT: the card is left as it is
AfterDoneKept == card
AfterDone == IF card = "aborted" THEN "aborted" ELSE "stopped"
AfterItem(t) == IF Item(t) = "next" THEN "running" ELSE AfterDone
Reported(t) == IF Item(t) = "done" THEN 1 ELSE 0
Monitor(t) ==
    /\ t \in monitored
    /\ TakeItem(t)
    /\ card' = AfterItem(t)
    /\ monitored' = IF Item(t) = "done" THEN monitored \ {t} ELSE monitored
    /\ events' = events + Reported(t)
    /\ UNCHANGED <<handlers, said, batch, prompted, loop>>

\* The user's message, over the web socket.
Say ==
    /\ said < MaxMessages
    /\ said' = said + 1
    /\ events' = events + 1
    /\ UNCHANGED <<card, handlers, monitored, batch, prompted, loop>>
    /\ UNCHANGED avars

\* conductor_loop: it takes one event, waits 0.3 s, and takes what has come.
WakeUp ==
    /\ loop = "waiting" /\ events > 0
    /\ events' = events - 1
    /\ batch' = 1
    /\ loop' = "collecting"
    /\ UNCHANGED <<card, handlers, monitored, said, prompted>>
    /\ UNCHANGED avars

\* MUTANT: only the event that woke the loop
FirstOnly == batch
\* Everything collected goes into one prompt.
Collected == batch + events
PutPrompt ==
    /\ loop = "collecting"
    /\ prompted' = prompted + Collected
    /\ events' = 0
    /\ batch' = 0
    /\ loop' = "working"
    /\ UNCHANGED <<card, handlers, monitored, said>>
    /\ UNCHANGED avars

\* The conductor's agent is done; monitor_conductor_queue returns.
PromptDone ==
    /\ loop = "working"
    /\ loop' = "waiting"
    /\ UNCHANGED <<card, handlers, monitored, said, events, batch, prompted>>
    /\ UNCHANGED avars

ConductorThreads ==
    \/ Input \/ CleanUp
    \/ \E kind \in {"stop", "kill", "cleanup"} : Aborted(kind)
    \/ Mark("stopping", "stopped")
    \/ Mark("killing", "aborted")
ConductorLoop == WakeUp \/ PutPrompt \/ PromptDone
ConductorNext ==
    \/ StartSubagent \/ Say
    \/ \E kind \in {"input", "cleanup"} : Asked(kind)
    \/ \E kind \in {"stop", "kill"} : StopOrKill(kind)
    \/ ConductorThreads
    \/ \E t \in Task : Monitor(t)
    \/ ConductorLoop
    \/ AgentStep /\ UNCHANGED cvars
-----------------------------------------------------------------------------
\* A card that shows a running subagent comes to rest, whatever stops, kills
\* and late "next" items did to it: some monitor always has the last word.
\* (Unless the subagent's worker thread died.)
CardSettles == card = "running" ~> card # "running" \/ worker = "dead"

\* Every message of the user and every finished task reaches the conductor in
\* some prompt, even those that come while it works or while the loop collects.
FinishedTasks == IF card = "none" THEN {} ELSE (1 .. made) \ monitored
Arrived == said + Cardinality(FinishedTasks)
EventsReachConductor == prompted < Arrived ~> prompted = Arrived

\* "kill: gone for good, disappears from the cards, cannot be used again"
\* (conductor_readme).
KilledIsGone == [][card = "aborted" => card' = "aborted"]_card
=============================================================================
