------------------------------ MODULE Externals ------------------------------
(***************************************************************************)
(* The two parts that talk to programs outside: the browser tool, with the *)
(* browser's extension, and the Core's supervisor of the IM bot.  They do   *)
(* not meet: `part` is the one that runs.                                  *)
(***************************************************************************)
EXTENDS BrowserDriver, ImSupervisor

VARIABLE part

vars == <<part, bvars, mvars>>

Init ==
    /\ part \in {"browser", "im"}
    /\ BrowserInit /\ (part = "im" => tabs = {})
    /\ ImInit /\ (part = "browser" => ~pref)

Runs(p) == part = p /\ UNCHANGED part

Next ==
    \/ Runs("browser") /\ BrowserNext /\ UNCHANGED mvars
    \/ Runs("im") /\ ImNext /\ UNCHANGED bvars

\* The callers' threads go on, and the clock.
CallerWorks(c) == Runs("browser") /\ Caller(c) /\ UNCHANGED mvars
ClockTicks == Runs("browser") /\ Tick /\ UNCHANGED mvars

Spec ==
    /\ Init /\ [][Next]_vars
    /\ \A c \in Callers : WF_vars(CallerWorks(c))
    /\ WF_vars(ClockTicks)
-----------------------------------------------------------------------------
\* The state's types; what is waited for is what was announced.
TypeOK ==
    /\ part \in {"browser", "im"}
    /\ default \in Tabs \cup {NoTab}
    /\ \A c \in Callers : call[c].clock <= Timeout
    /\ torn \subseteq Tabs /\ stale \subseteq Listed
    /\ doomed \cup forgotten \subseteq alive /\ alive \subseteq 1 .. born
    /\ slot.pid \in 0 .. born /\ slot.child \in {0, slot.pid}
=============================================================================
