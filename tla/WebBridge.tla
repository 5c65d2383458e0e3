------------------------------ MODULE WebBridge ------------------------------
(***************************************************************************)
(* frontends/desktop_bridge.py, AgentManager: one session of the web       *)
(* desktop, the requests that submit and cancel, and a thread per turn.    *)
(* A request works under the manager's lock, and so does a turn's end.     *)
(***************************************************************************)
EXTENDS AgentQueue

VARIABLES
    status,      \* sess.status
    cancelReq,   \* sess.cancel_requested
    partial,     \* sess.partial is not None
    turns,       \* turn threads started; each has the task of its number
    turn,        \* where a turn thread stands
    heardOf,     \* the task a turn put
    answered,    \* turns that added a message, of the assistant or an error
    cancelling,  \* a cancel under the lock: "none", "flagged" or "aborted"
    cancelled    \* history: turns that ran when a cancel came
wvars == <<status, cancelReq, partial, turns, turn, heardOf, answered, cancelling, cancelled>>

WebInit ==
    /\ status = "idle"
    /\ cancelReq = FALSE
    /\ partial = FALSE
    /\ turns = 0
    /\ turn = [t \in Task |-> "none"]
    /\ heardOf = [t \in Task |-> 0]
    /\ answered = {} /\ cancelled = {}
    /\ cancelling = "none"

Unlocked == cancelling = "none"
Steps(t, from, to) == turn[t] = from /\ turn' = [turn EXCEPT ![t] = to]

\* submit_prompt.
\* MUTANT: a cancel of the turn before is not forgotten
CancelKept == cancelReq
CancelAfterSubmit == FALSE
Submit ==
    /\ Unlocked
    /\ status # "running" /\ turns < MaxTasks
    /\ status' = "running"
    /\ cancelReq' = CancelAfterSubmit
    /\ partial' = TRUE
    /\ turns' = turns + 1
    /\ turn' = [turn EXCEPT ![turns'] = "started"]
    /\ UNCHANGED <<heardOf, answered, cancelling, cancelled>>
    /\ UNCHANGED avars

\* run_agent_turn begins.
PutTurnTask(t) ==
    /\ Steps(t, "started", "reading")
    /\ PutTask
    /\ heardOf' = [heardOf EXCEPT ![t] = made']
    /\ UNCHANGED <<status, cancelReq, partial, turns, answered, cancelling, cancelled>>

\* The loop: a cancel ends it, and so does "done".
Leave(t) ==
    /\ Steps(t, "reading", "read")
    /\ cancelReq
    /\ UNCHANGED <<status, cancelReq, partial, turns, heardOf, answered, cancelling, cancelled>>
    /\ UNCHANGED avars
Read(t) ==
    /\ turn[t] = "reading" /\ ~cancelReq
    /\ TakeItem(heardOf[t])
    /\ turn' = IF Item(heardOf[t]) = "done" THEN [turn EXCEPT ![t] = "read"] ELSE turn
    /\ UNCHANGED <<status, cancelReq, partial, turns, heardOf, answered, cancelling, cancelled>>

\* After it, cancel_requested is looked at without the lock.
Look(t) ==
    /\ Steps(t, "read", IF cancelReq THEN "quitting" ELSE "settling")
    /\ UNCHANGED <<status, cancelReq, partial, turns, heardOf, answered, cancelling, cancelled>>
    /\ UNCHANGED avars

Ends(t, s) ==
    /\ Unlocked
    /\ status' = s
    /\ partial' = FALSE
    /\ UNCHANGED <<cancelReq, turns, heardOf, cancelling, cancelled>>
    /\ UNCHANGED avars
Quit(t) == Steps(t, "quitting", "over") /\ Ends(t, "cancelled") /\ UNCHANGED answered
SettleTurn(t) == Steps(t, "settling", "over") /\ Ends(t, "idle") /\ answered' = answered \union {t}
\* MUTANT: an exception leaves the status alone
StatusKept == status
StatusOfError == "error"
TurnFails(t) ==
    /\ turn[t] \in {"started", "reading", "read"}
    /\ turn' = [turn EXCEPT ![t] = "over"]
    /\ Ends(t, StatusOfError)
    /\ answered' = answered \union {t}

\* cancel: the flag, the agent's abort, and only then the status.
CancelTurn ==
    /\ Unlocked
    /\ cancelling' = "flagged"
    /\ cancelReq' = TRUE
    /\ cancelled' = cancelled \union {t \in Task : turn[t] \notin {"none", "over"}}
    /\ UNCHANGED <<status, partial, turns, turn, heardOf, answered>>
    /\ UNCHANGED avars
CancelAborts ==
    /\ cancelling = "flagged"
    /\ cancelling' = "aborted"
    /\ AbortAgent("cancel")
    /\ UNCHANGED <<status, cancelReq, partial, turns, turn, heardOf, answered, cancelled>>
CancelSets == SetStop("cancel") /\ UNCHANGED wvars
CancelEnds ==
    /\ cancelling = "aborted" /\ "cancel" \notin aborting
    /\ cancelling' = "none"
    /\ status' = "cancelled"
    /\ partial' = FALSE
    /\ UNCHANGED <<cancelReq, turns, turn, heardOf, answered, cancelled>>
    /\ UNCHANGED avars

Canceller == CancelAborts \/ CancelSets \/ CancelEnds
TurnThread(t) ==
    PutTurnTask(t) \/ Leave(t) \/ Read(t) \/ Look(t) \/ Quit(t) \/ SettleTurn(t) \/ TurnFails(t)
WebNext ==
    \/ Submit
    \/ \E t \in Task : TurnThread(t)
    \/ CancelTurn \/ Canceller
    \/ AgentStep /\ UNCHANGED wvars
-----------------------------------------------------------------------------
\* A session that says it is running comes to rest, also when a cancel and a
\* new prompt leave two turn threads at work on it (unless the agent's worker
\* thread died).
TurnSettles == status = "running" ~> status # "running" \/ worker = "dead"

\* A prompt goes without an answer only if a cancel came while its own turn
\* ran: what is left of an earlier cancel silences no later turn.
SilentOnlyIfCancelled ==
    \A t \in Task : turn[t] = "over" /\ t \notin answered => t \in cancelled
=============================================================================
