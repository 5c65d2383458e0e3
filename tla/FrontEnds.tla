------------------------------ MODULE FrontEnds ------------------------------
(***************************************************************************)
(* The front ends of the agent kernel, one at a time: `front` is the one   *)
(* that runs.  All but the fence filter sit on one agent (AgentQueue).     *)
(***************************************************************************)
EXTENDS Conductor, AcpBridge, ChatApp, WebBridge, FenceFilter, TuiSteer

CONSTANT Fronts         \* the front ends of an instance

VARIABLE front

vars == <<front, avars, cvars, pvars, rvars, wvars, dvars, uvars>>

Init ==
    /\ front \in Fronts
    /\ AgentInit
    /\ ConductorInit
    /\ AcpInit
    /\ ChatInit /\ (front # "chat" => \A r, s \in Requests : chat[r] = chat[s])
    /\ WebInit
    /\ FilterInit
    /\ TuiInit

Runs(f) == front = f /\ UNCHANGED front

NotConductor == <<pvars, rvars, wvars, dvars, uvars>>
NotAcp == <<cvars, rvars, wvars, dvars, uvars>>
NotChat == <<cvars, pvars, wvars, dvars, uvars>>
NotWeb == <<cvars, pvars, rvars, dvars, uvars>>
NotFilter == <<avars, cvars, pvars, rvars, wvars, uvars>>
NotTui == <<cvars, pvars, rvars, wvars, dvars>>

Next ==
    \/ Runs("conductor") /\ ConductorNext /\ UNCHANGED NotConductor
    \/ Runs("acp") /\ AcpNext /\ UNCHANGED NotAcp
    \/ Runs("chat") /\ ChatNext /\ UNCHANGED NotChat
    \/ Runs("web") /\ WebNext /\ UNCHANGED NotWeb
    \/ Runs("filter") /\ FilterNext /\ UNCHANGED NotFilter
    \/ Runs("tui") /\ TuiNext /\ UNCHANGED NotTui

\* What goes on by itself, given MaxTasks: the agent's worker (the model's and
\* the tools' time-outs bound a task), the loops, monitors, coroutines and
\* turn threads of a front end.
Work ==
    \/ Runs("conductor") /\ UNCHANGED NotConductor /\
       \/ ConductorLoop
       \/ \E t \in Task : Monitor(t)
       \/ AgentStep /\ UNCHANGED cvars
    \/ Runs("acp") /\ UNCHANGED NotAcp /\
       \/ \E p \in Prompts : PromptThread(p)
       \/ AgentStep /\ UNCHANGED pvars
    \/ Runs("chat") /\ UNCHANGED NotChat /\
       AgentStep /\ UNCHANGED rvars
    \/ Runs("web") /\ UNCHANGED NotWeb /\
       \/ \E t \in Task : TurnThread(t)
       \/ AgentStep /\ UNCHANGED wvars
    \/ Runs("tui") /\ (TuiWorker \/ Drains) /\ UNCHANGED NotTui

\* What a request, a command or a key has begun is carried through.
Served ==
    \/ Runs("conductor") /\ ConductorThreads /\ UNCHANGED NotConductor
    \/ Runs("acp") /\ CancelSent /\ UNCHANGED NotAcp
    \/ Runs("chat") /\ StopSent /\ UNCHANGED NotChat
    \/ Runs("web") /\ Canceller /\ UNCHANGED NotWeb
    \/ Runs("tui") /\ UiGoesOn /\ UNCHANGED NotTui

\* The event loop of the chats serves commands and coroutines in turn: those
\* that are ready again and again get on.
Awaited == Runs("chat") /\ (\E r \in Requests : Coroutine(r)) /\ UNCHANGED NotChat

Spec == Init /\ [][Next]_vars /\ WF_vars(Work) /\ WF_vars(Served) /\ SF_vars(Awaited)
-----------------------------------------------------------------------------
\* The state's types, and the tasks the front ends hold are tasks that were put.
TypeOK ==
    /\ AgentTypeOK
    /\ card \in {"none", "running", "stopped", "aborted"}
    /\ monitored \subseteq 1 .. made
    /\ \A p \in Prompts : taskOf[p] \in 0 .. made
    /\ \A r \in Requests : asked[r] \in 0 .. made
    /\ \A t \in Task : heardOf[t] \in 0 .. made
    /\ from \in 1 .. MaxFed + Ticks + 1
=============================================================================
