---------------------------- MODULE ImSupervisor ----------------------------
(***************************************************************************)
(* The Core's supervisor of the IM bot: one platform, its slot (the child  *)
(* it holds and the status it shows), the preference in the database, the  *)
(* requests that start, restart and stop it, and the children: what they   *)
(* say on stdout, and their exit.                                          *)
(***************************************************************************)
EXTENDS Naturals, Sequences, FiniteSets

CONSTANTS
    ImRequests,         \* requests of the desktop (numbers, in their order)
    Overlapping,        \* those that may come while others are in progress (bound)
    MaxChildren         \* children started (bound)

VARIABLES
    pref,               \* the stored preference: enabled
    slot,               \* [known, pid, child, state]; 0: none
    req,                \* each request: [op, pc, child]
    born,               \* children started so far
    alive,              \* children that run
    doomed,             \* of these, the ones told to die
    lines,              \* each child's lines that are not read yet
    said,               \* the last state each child announced
    watched,            \* children whose reader and waiter run
    forgotten,          \* ghost: children a logout dropped without telling them to die
    overlapped          \* ghost: two requests were in progress at once

mvars == <<pref, slot, req, born, alive, doomed, lines, said, watched, forgotten, overlapped>>
children == <<born, alive, lines, said, watched, forgotten>>

Child == 1 .. MaxChildren
Starts == {"start", "relogin", "restart", "autostart"}
Stops == {"stop", "logout", "quit"}

Over == [op |-> "none", pc |-> "done", child |-> 0]

ImInit ==
    /\ pref \in BOOLEAN
    /\ slot = [known |-> FALSE, pid |-> 0, child |-> 0, state |-> "none"]
    /\ req = [r \in ImRequests |-> [op |-> "none", pc |-> "new", child |-> 0]]
    /\ born = 0 /\ alive = {} /\ doomed = {} /\ watched = {} /\ forgotten = {}
    /\ lines = [p \in Child |-> <<>>]
    /\ said = [p \in Child |-> "none"]
    /\ overlapped = FALSE

Goes(r, to) == req' = [req EXCEPT ![r] = IF to = "done" THEN Over ELSE [@ EXCEPT !.pc = to]]

-----------------------------------------------------------------------------
(* start_inner. *)

Asked(op) == IF op = "autostart" THEN "start" ELSE IF op = "relogin" THEN "restart" ELSE op

First(op) == IF op = "quit" THEN "sweep" ELSE IF op \in Stops THEN "disable" ELSE "status"

\* A request arrives.  restart_enabled and autostart look at the preference;
\* a re-login and a restart are both forced.
Begin(r, op) ==
    /\ req[r].pc = "new"
    /\ \A s \in ImRequests : s < r => req[s].pc # "new"
    /\ r \in Overlapping \/ \A s \in ImRequests : req[s].pc \in {"new", "done"}
    /\ req' = [req EXCEPT ![r] =
          IF op \in {"restart", "autostart"} /\ ~pref THEN Over
          ELSE [op |-> Asked(op), pc |-> First(op), child |-> 0]]
    /\ overlapped' = (overlapped \/ \E s \in ImRequests : req[s].pc \notin {"new", "done"})
    /\ UNCHANGED <<pref, slot, doomed, children>>

\* MUTANT: a child that waits for its scan is not reckoned up.
UpScanned(state) == state \in {"starting", "running"}

Up(state) == state \in {"starting", "waiting_scan", "running"}

\* The status is read: an upheld start returns, a forced one takes the child.
ReadStatus(r) ==
    /\ req[r].pc = "status"
    /\ Goes(r, IF ~Up(slot.state) THEN "enable"
               ELSE IF req[r].op = "restart" THEN "take" ELSE "done")
    /\ UNCHANGED <<pref, slot, doomed, children, overlapped>>

TakeChild(r) ==
    /\ req[r].pc = "take"
    /\ slot' = [slot EXCEPT !.child = 0]
    /\ doomed' = doomed \cup ({slot.child} \cap alive)
    /\ Goes(r, "enable")
    /\ UNCHANGED <<pref, children, overlapped>>

\* write_pref, here and below, may fail: the request returns its error.
Enable(r) ==
    /\ req[r].pc = "enable"
    /\ \/ pref' = TRUE /\ Goes(r, "spawn")
       \/ UNCHANGED pref /\ Goes(r, "done")
    /\ UNCHANGED <<slot, doomed, children, overlapped>>

\* The runtime is prepared and the child started; either may fail.
Spawn(r) ==
    /\ req[r].pc = "spawn"
    /\ \/ /\ Goes(r, "done")
          /\ UNCHANGED <<born, alive>>
       \/ /\ born < MaxChildren
          /\ born' = born + 1
          /\ alive' = alive \cup {born + 1}
          /\ req' = [req EXCEPT ![r].pc = "store", ![r].child = born + 1]
    /\ UNCHANGED <<pref, slot, doomed, lines, said, watched, forgotten, overlapped>>

Store(r) ==
    /\ req[r].pc = "store"
    /\ LET p == req[r].child IN
       /\ slot' = [known |-> TRUE, pid |-> p, child |-> p, state |-> "starting"]
       /\ watched' = watched \cup {p}
    /\ Goes(r, "done")
    /\ UNCHANGED <<pref, born, alive, doomed, lines, said, forgotten, overlapped>>

-----------------------------------------------------------------------------
(* stop and logout. *)

\* logout goes on after a stop that failed.
Disable(r) ==
    /\ req[r].pc = "disable"
    /\ \/ pref' = FALSE /\ Goes(r, "clone")
       \/ UNCHANGED pref /\ Goes(r, IF req[r].op = "logout" THEN "forget" ELSE "done")
    /\ UNCHANGED <<slot, doomed, children, overlapped>>

\* No slot: a status is derived from the files, and none stored.
CloneChild(r) ==
    /\ req[r].pc = "clone"
    /\ IF slot.known
       THEN req' = [req EXCEPT ![r].child = slot.child, ![r].pc = "kill"]
       ELSE Goes(r, IF req[r].op = "logout" THEN "forget" ELSE "done")
    /\ UNCHANGED <<pref, slot, doomed, children, overlapped>>

Kill(r) ==
    /\ req[r].pc = "kill"
    /\ doomed' = doomed \cup ({req[r].child} \cap alive)
    /\ Goes(r, "clear")
    /\ UNCHANGED <<pref, slot, children, overlapped>>

\* MUTANT: the slot of a stopped platform keeps its child.
ClearedKept(state) == [known |-> TRUE, pid |-> 0, child |-> slot.child, state |-> state]

Cleared(state) == [known |-> TRUE, pid |-> 0, child |-> 0, state |-> state]

Clear(r) ==
    /\ req[r].pc = "clear"
    /\ slot' = Cleared("stopped")
    /\ Goes(r, IF req[r].op = "logout" THEN "forget" ELSE "done")
    /\ UNCHANGED <<pref, doomed, children, overlapped>>

\* logout writes the preference again, removes the token, clears the slot,
\* also of a child that its failed stop has left as it was.
Forget(r) ==
    /\ req[r].pc = "forget"
    /\ \/ /\ pref' = FALSE
          /\ slot' = Cleared("not_connected")
          /\ forgotten' = forgotten \cup ({slot.child} \cap (alive \ doomed))
       \/ UNCHANGED <<pref, slot, forgotten>>
    /\ Goes(r, "done")
    /\ UNCHANGED <<born, alive, doomed, lines, said, watched, overlapped>>

\* stop_all, when the Core quits: the slot's child is told to die.
Sweep(r) ==
    /\ req[r].pc = "sweep"
    /\ doomed' = doomed \cup ({slot.child} \cap alive)
    /\ Goes(r, "done")
    /\ UNCHANGED <<pref, slot, children, overlapped>>

-----------------------------------------------------------------------------
(* The children, and the tasks that read and await them. *)

Final == {"expired", "error", "stopped"}

\* What the launcher announces after what: it starts, waits for the scan of a
\* QR code unless it has a token, runs, and says why it ends.
Says(p, state) ==
    /\ p \in alive \ doomed
    /\ \/ said[p] = "none" /\ state \in {"starting", "error"}
       \/ said[p] = "starting" /\ state \in {"waiting_scan", "running"}
       \/ said[p] = "waiting_scan" /\ state \in {"running", "error"}
       \/ said[p] = "running" /\ state \in Final
    /\ said' = [said EXCEPT ![p] = state]
    /\ lines' = [lines EXCEPT ![p] = Append(@, state)]
    /\ UNCHANGED <<pref, slot, req, born, alive, doomed, watched, forgotten, overlapped>>

\* A child dies: told to, at its end, or of itself.
Exit(p) ==
    /\ p \in alive
    /\ alive' = alive \ {p} /\ doomed' = doomed \ {p} /\ forgotten' = forgotten \ {p}
    /\ UNCHANGED <<pref, slot, req, born, lines, said, watched, overlapped>>

\* A line changes the slot only if the slot is still this child's.
ReadLine(p) ==
    /\ p \in watched /\ lines[p] # <<>>
    /\ lines' = [lines EXCEPT ![p] = Tail(@)]
    /\ slot' = IF slot.pid = p THEN [slot EXCEPT !.state = Head(lines[p])] ELSE slot
    /\ UNCHANGED <<pref, req, born, alive, doomed, said, watched, forgotten, overlapped>>

WaitChild(p) ==
    /\ p \in watched /\ p \notin alive
    /\ watched' = watched \ {p}
    /\ lines' = [lines EXCEPT ![p] = <<>>]
    /\ IF slot.pid # p THEN UNCHANGED slot
       ELSE \E end \in IF slot.state \in Final THEN {slot.state} ELSE {"stopped", "error"} :
               slot' = [slot EXCEPT !.child = 0, !.pid = 0, !.state = end]
    /\ UNCHANGED <<pref, req, born, alive, doomed, said, forgotten, overlapped>>

ImNext ==
    \/ \E r \in ImRequests :
          \/ \E op \in Starts \cup Stops : Begin(r, op)
          \/ ReadStatus(r) \/ TakeChild(r) \/ Enable(r) \/ Spawn(r) \/ Store(r)
          \/ Disable(r) \/ CloneChild(r) \/ Kill(r) \/ Clear(r) \/ Forget(r) \/ Sweep(r)
    \/ \E p \in Child :
          \/ \E s \in Final \cup {"starting", "waiting_scan", "running"} : Says(p, s)
          \/ Exit(p) \/ ReadLine(p) \/ WaitChild(p)

-----------------------------------------------------------------------------
\* As long as requests come one at a time, the bot runs at most once, and the
\* child that runs is the one the slot holds: through restarts, re-logins and
\* stops at any point of a child's life, lines read late, children that die
\* of themselves and writes of the preference that fail.  (A child that has
\* announced its end, or was told to die, does not count; nor does one that a
\* logout forgot because its stop had failed and the rest of it had not.)
OneChild ==
    ~overlapped =>
        \A p \in alive \ (doomed \cup forgotten) :
            p \in watched /\ said[p] \notin Final => slot.child = p
=============================================================================
