----------------------------- MODULE RunnerPool -----------------------------
(***************************************************************************)
(* The Core's pool of runner subprocesses: RunnerManager                   *)
(* (core/src/runner_manager/manager.rs), the RunnerProcess it keeps per    *)
(* session with its stdout reader task (process.rs), and the callers that  *)
(* spawn, subscribe, send, shut down and evict (runner_commands.rs,        *)
(* socket_listener.rs).                                                    *)
(*                                                                         *)
(* A caller is one async task inside a manager method: pc says at which    *)
(* await it stands, tgt which processes it has in hand, held whose mutex   *)
(* it holds.  A lock that is never kept across an await is one atomic      *)
(* step.  The map's read lock is kept while waiting for a process mutex    *)
(* by agent_running and subscribe only, so "read locked" is a fact about   *)
(* program counters.                                                       *)
(***************************************************************************)
EXTENDS Integers, Sequences, FiniteSets

CONSTANTS
    Session,     \* session ids
    NoSession,   \* the caller named no active session
    Active,      \* bound: the active sessions a spawn may name
    Caller,      \* concurrent tasks inside the manager
    MaxProc,     \* bound: processes ever forked
    Cap,         \* RunnerManager::cap
    Faults,      \* what may go wrong, a subset of AllFaults
    Ops          \* bound: the manager's methods the callers use, a subset of AllOps

Proc == 1 .. MaxProc
NoProc == 0

\* "fork": the fork fails; "crash": a child dies by itself; "hang": a child
\* stops reading stdin and never exits unless killed; "bigsend": a command may
\* exceed what the pipe of a hung child can take.
AllFaults == {"fork", "crash", "hang", "bigsend"}
AllOps    == {"spawn", "shutdown", "shutdown_all", "subscribe", "send_command"}

ASSUME PoolAssumption ==
    /\ NoSession \notin Session
    /\ Active \subseteq Session \cup {NoSession}
    /\ MaxProc \in Nat \ {0}
    /\ Cap \in Nat \ {0}
    /\ Faults \subseteq AllFaults
    /\ Ops \subseteq AllOps

VARIABLES
    processes,  \* session -> its registered process
    lru,        \* sessions, oldest first
    child,      \* the OS process: unborn, booting, up, hung, or how it died
    phase,      \* the agent's run: idle, busy (no turn open), turn
    running,    \* RunnerProcess.agent_running
    expected,   \* RunnerProcess.expected_close, set where the shutdown command is written
    reader,     \* the stdout reader task: reading, eof, done
    rx,         \* the latest subscription: none, open, or the Closed it received
    pc, sid, act, tgt, held, snap   \* per caller

registry == <<processes, lru>>
os       == <<child, phase>>
task     == <<running, expected, reader, rx>>
calls    == <<pc, sid, act, tgt, held, snap>>
vars     == <<registry, os, task, calls>>

\* "exited": by itself, on command or on end of stdin; "killed": by Yole.
Dead    == {"exited", "killed", "crashed"}
Child   == {"unborn", "booting", "up", "hung"} \cup Dead
Live(p) == child[p] \in {"booting", "up", "hung"}

\* The program counters of a caller waiting in RunnerProcess::shutdown.
Stopping == {"replace", "evicting", "stopping", "stopall"}
AllPC    == Stopping \cup {"idle", "insert", "touch", "enforce", "scan", "peek",
                           "evict", "subscribe", "sublock", "send", "clear"}

Locked(p)    == \E c \in Caller : p \in held[c]
ReadLocked   == \E c \in Caller : pc[c] \in {"peek", "sublock"}
Mapped(p)    == \E s \in Session : processes[s] = p
Reachable(p) == Mapped(p) \/ \E c \in Caller : p \in tgt[c]
Unborn       == {p \in Proc : child[p] = "unborn"}

-----------------------------------------------------------------------------
Init ==
    /\ processes = [s \in Session |-> NoProc]
    /\ lru = <<>>
    /\ child = [p \in Proc |-> "unborn"]
    /\ phase = [p \in Proc |-> "idle"]
    /\ running = [p \in Proc |-> FALSE]
    /\ expected = [p \in Proc |-> FALSE]
    /\ reader = [p \in Proc |-> "reading"]
    /\ rx = [p \in Proc |-> "none"]
    /\ pc = [c \in Caller |-> "idle"]
    /\ sid = [c \in Caller |-> NoSession]
    /\ act = [c \in Caller |-> NoSession]
    /\ tgt = [c \in Caller |-> {}]
    /\ held = [c \in Caller |-> {}]
    /\ snap = [c \in Caller |-> <<>>]

-----------------------------------------------------------------------------
(* Helpers: the LRU, the map, and the way a caller moves.                  *)

\* order.retain(|s| s != sid): lru lists a session at most once (LruNoDup),
\* so at most one position goes.
Without(q, s) ==
    IF \E i \in 1 .. Len(q) : q[i] = s
    THEN LET i == CHOOSE j \in 1 .. Len(q) : q[j] = s
         IN  SubSeq(q, 1, i - 1) \o SubSeq(q, i + 1, Len(q))
    ELSE q

TouchedNoRetain(q, s) == Append(q, s)
Touched(q, s) == Append(Without(q, s), s)

\* The map after map.remove(&s).
GetNotRemove(s) == processes
Unmapped(s) == [processes EXCEPT ![s] = NoProc]

RegisteredOrNone(s) == {processes[s]}
Registered(s) == {processes[s]} \ {NoProc}

Goto(c, label) == pc' = [pc EXCEPT ![c] = label]
Take(c, ps)    == tgt' = [tgt EXCEPT ![c] = ps]

\* The call returns to its caller: every local is dropped.
Return(c) ==
    /\ Goto(c, "idle")
    /\ Take(c, {})
    /\ sid' = [sid EXCEPT ![c] = NoSession]
    /\ act' = [act EXCEPT ![c] = NoSession]
    /\ held' = [held EXCEPT ![c] = {}]
    /\ snap' = [snap EXCEPT ![c] = <<>>]

-----------------------------------------------------------------------------
(* RunnerManager::spawn                                                    *)

\* Take the session's old process out of the map; it is shut down next.
SpawnBegin(c, s, a) ==
    /\ "spawn" \in Ops /\ pc[c] = "idle" /\ Unborn # {} /\ ~ReadLocked
    /\ processes' = Unmapped(s)
    /\ Take(c, Registered(s))
    /\ sid' = [sid EXCEPT ![c] = s]
    /\ act' = [act EXCEPT ![c] = a]
    /\ Goto(c, "replace")
    /\ UNCHANGED <<lru, os, task, held, snap>>

\* RunnerProcess::spawn: fork the child and start the reader task.
Fork(c) ==
    /\ pc[c] = "replace" /\ tgt[c] = {}
    /\ \E p \in Unborn :
        /\ \A q \in Unborn : p <= q
        /\ child' = [child EXCEPT ![p] = "booting"]
        /\ Take(c, {p})
    /\ Goto(c, "insert")
    /\ UNCHANGED <<registry, phase, task, sid, act, held, snap>>

\* The fork fails; also where the bound on processes is reached.
ForkFails(c) ==
    /\ pc[c] = "replace" /\ tgt[c] = {}
    /\ "fork" \in Faults \/ Unborn = {}
    /\ Return(c)
    /\ UNCHANGED <<registry, os, task>>

\* map.insert overwrites whatever another spawn put there meanwhile.
Insert(c) ==
    /\ pc[c] = "insert" /\ ~ReadLocked
    /\ \E p \in tgt[c] : processes' = [processes EXCEPT ![sid[c]] = p]
    /\ Take(c, {})
    /\ Goto(c, "touch")
    /\ UNCHANGED <<lru, os, task, sid, act, held, snap>>

Touch(c) ==
    /\ pc[c] = "touch"
    /\ lru' = Touched(lru, sid[c])
    /\ Goto(c, "enforce")
    /\ UNCHANGED <<processes, os, task, sid, act, tgt, held, snap>>

-----------------------------------------------------------------------------
(* RunnerManager::enforce_cap                                              *)

\* One lap: read the LRU; within the cap, spawn is over.
Enforce(c) ==
    /\ pc[c] = "enforce"
    /\ IF Len(lru) <= Cap
       THEN Goto(c, "subscribe") /\ UNCHANGED snap
       ELSE Goto(c, "scan") /\ snap' = [snap EXCEPT ![c] = lru]
    /\ UNCHANGED <<registry, os, task, sid, act, tgt, held>>

SkipsActive(c) == Head(snap[c]) = act[c]

ScanSkip(c) ==
    /\ pc[c] = "scan" /\ snap[c] # <<>> /\ SkipsActive(c)
    /\ snap' = [snap EXCEPT ![c] = Tail(@)]
    /\ UNCHANGED <<registry, os, task, pc, sid, act, tgt, held>>

\* agent_running(sid): an unregistered session is not running; for another
\* one the map stays read locked until its process mutex is free.
ScanNext(c) ==
    /\ pc[c] = "scan" /\ snap[c] # <<>> /\ ~SkipsActive(c)
    /\ LET ps == Registered(Head(snap[c]))
       IN  /\ Take(c, ps)
           /\ Goto(c, IF ps = {} THEN "evict" ELSE "peek")
    /\ UNCHANGED <<registry, os, task, sid, act, held, snap>>

Peek(c) ==
    /\ pc[c] = "peek"
    /\ \E p \in tgt[c] :
        /\ ~Locked(p)
        /\ IF running[p]
           THEN Goto(c, "scan") /\ snap' = [snap EXCEPT ![c] = Tail(@)]
           ELSE Goto(c, "evict") /\ UNCHANGED snap
    /\ Take(c, {})
    /\ UNCHANGED <<registry, os, task, sid, act, held>>

\* Everyone left is protected.
ScanEnd(c) ==
    /\ pc[c] = "scan" /\ snap[c] = <<>>
    /\ Goto(c, "subscribe")
    /\ UNCHANGED <<registry, os, task, sid, act, tgt, held, snap>>

\* shutdown(victim) begins; NotFound leaves nothing to stop.
Evict(c) ==
    /\ pc[c] = "evict" /\ ~ReadLocked
    /\ Take(c, Registered(Head(snap[c])))
    /\ processes' = Unmapped(Head(snap[c]))
    /\ Goto(c, "evicting")
    /\ UNCHANGED <<lru, os, task, sid, act, held, snap>>

\* Found or not, the victim leaves the LRU before the next lap.
AfterEvictionKept(c) == lru
AfterEviction(c) == Without(lru, Head(snap[c]))

EvictDone(c) ==
    /\ pc[c] = "evicting" /\ tgt[c] = {}
    /\ lru' = AfterEviction(c)
    /\ snap' = [snap EXCEPT ![c] = <<>>]
    /\ Goto(c, "enforce")
    /\ UNCHANGED <<processes, os, task, sid, act, tgt, held>>

-----------------------------------------------------------------------------
(* RunnerProcess::shutdown and kill, inside spawn, shutdown, enforce_cap   *)
(* and each task of shutdown_all.                                          *)

\* Mutex taken, expected_close set, the shutdown command written: the pipe has
\* room for it even when the child reads no more.
Expect(p)     == expected' = [expected EXCEPT ![p] = TRUE]
StopLock(c, p) ==
    /\ pc[c] \in Stopping /\ p \in tgt[c] \ held[c] /\ ~Locked(p)
    /\ held' = [held EXCEPT ![c] = @ \cup {p}]
    /\ Expect(p)
    /\ UNCHANGED <<registry, os, running, reader, rx, pc, sid, act, tgt, snap>>

Dies(p, how) ==
    /\ child' = [child EXCEPT ![p] = how]
    /\ phase' = [phase EXCEPT ![p] = "idle"]

LetGo(c, p) ==
    /\ tgt' = [tgt EXCEPT ![c] = @ \ {p}]
    /\ held' = [held EXCEPT ![c] = @ \ {p}]

\* child.wait() returned in time.
StopExited(c, p) ==
    /\ pc[c] \in Stopping /\ p \in held[c] /\ child[p] \in Dead
    /\ LetGo(c, p)
    /\ UNCHANGED <<registry, os, task, pc, sid, act, snap>>

\* The wait timed out.  Every caller but spawn goes on to kill().
KillsEverywhereButStopAll(c) == pc[c] \in {"evicting", "stopping"}
KillsOnTimeout(c) == pc[c] # "replace"

StopTimeout(c, p) ==
    /\ pc[c] \in Stopping /\ p \in held[c] /\ Live(p)
    /\ LetGo(c, p)
    /\ IF KillsOnTimeout(c)
       THEN Dies(p, "killed")
       ELSE UNCHANGED os
    /\ UNCHANGED <<registry, task, pc, sid, act, snap>>

-----------------------------------------------------------------------------
(* RunnerManager::shutdown, shutdown_all, subscribe and send_command       *)

ShutdownBegin(c, s) ==
    /\ "shutdown" \in Ops /\ pc[c] = "idle" /\ ~ReadLocked /\ Registered(s) # {}
    /\ processes' = Unmapped(s)
    /\ Take(c, Registered(s))
    /\ sid' = [sid EXCEPT ![c] = s]
    /\ Goto(c, "stopping")
    /\ UNCHANGED <<lru, os, task, act, held, snap>>

ShutdownEnd(c) ==
    /\ pc[c] = "stopping" /\ tgt[c] = {}
    /\ lru' = Without(lru, sid[c])
    /\ Return(c)
    /\ UNCHANGED <<processes, os, task>>

ShutdownAll(c) ==
    /\ "shutdown_all" \in Ops /\ pc[c] = "idle" /\ ~ReadLocked
    /\ \E s \in Session : processes[s] # NoProc
    /\ Take(c, {processes[s] : s \in Session} \ {NoProc})
    /\ processes' = [s \in Session |-> NoProc]
    /\ Goto(c, "clear")
    /\ UNCHANGED <<lru, os, task, sid, act, held, snap>>

ClearLru(c) ==
    /\ pc[c] = "clear"
    /\ lru' = <<>>
    /\ Goto(c, "stopall")
    /\ UNCHANGED <<processes, os, task, sid, act, tgt, held, snap>>

ShutdownAllEnd(c) ==
    /\ pc[c] = "stopall" /\ tgt[c] = {}
    /\ Return(c)
    /\ UNCHANGED <<registry, os, task>>

\* session.watch subscribes to a registered process at any time.
WatchBegin(c, s) ==
    /\ "subscribe" \in Ops /\ pc[c] = "idle" /\ Registered(s) # {}
    /\ sid' = [sid EXCEPT ![c] = s]
    /\ Goto(c, "subscribe")
    /\ UNCHANGED <<registry, os, task, act, tgt, held, snap>>

SubscribeLookup(c) ==
    /\ pc[c] = "subscribe"
    /\ IF Registered(sid[c]) = {}
       THEN Return(c)
       ELSE /\ Take(c, Registered(sid[c]))
            /\ Goto(c, "sublock")
            /\ UNCHANGED <<sid, act, held, snap>>
    /\ UNCHANGED <<registry, os, task>>

\* A fresh receiver sees only what is broadcast from now on.
Subscribe(c) ==
    /\ pc[c] = "sublock"
    /\ \E p \in tgt[c] : ~Locked(p) /\ rx' = [rx EXCEPT ![p] = "open"]
    /\ Return(c)
    /\ UNCHANGED <<registry, os, running, expected, reader>>

\* A user message; the map lock is released once the process is cloned out.
SendBegin(c, s) ==
    /\ "send_command" \in Ops /\ pc[c] = "idle" /\ Registered(s) # {}
    /\ Take(c, Registered(s))
    /\ Goto(c, "send")
    /\ UNCHANGED <<registry, os, task, sid, act, held, snap>>

SendLock(c) ==
    /\ pc[c] = "send" /\ held[c] = {}
    /\ \A p \in tgt[c] : ~Locked(p)
    /\ held' = [held EXCEPT ![c] = tgt[c]]
    /\ UNCHANGED <<registry, os, task, pc, sid, act, tgt, snap>>

\* write_all and flush: a dead child gives EPIPE, a hung one may never drain.
SendEnd(c) ==
    /\ pc[c] = "send"
    /\ \E p \in held[c] :
        /\ child[p] = "hung" => "bigsend" \notin Faults
        /\ phase' = IF child[p] \in {"booting", "up"} /\ phase[p] = "idle"
                    THEN [phase EXCEPT ![p] = "busy"]
                    ELSE phase
    /\ Return(c)
    /\ UNCHANGED <<registry, child, task>>

-----------------------------------------------------------------------------
(* The child and its stdout reader.  An event a child writes is read and   *)
(* broadcast in the same step.                                             *)

\* The child is up and says Ready, to whoever has subscribed by now.
Boot(p) ==
    /\ child[p] = "booting"
    /\ child' = [child EXCEPT ![p] = "up"]
    /\ UNCHANGED <<registry, phase, task, calls>>

\* The reader's effect of turn_start (TRUE) and turn_end, run_complete (FALSE).
AgentSays(p, from, to, flag) ==
    /\ child[p] = "up" /\ phase[p] \in from
    /\ phase' = [phase EXCEPT ![p] = to]
    /\ running' = [running EXCEPT ![p] = flag]
    /\ UNCHANGED <<registry, child, expected, reader, rx, calls>>

TurnStart(p)   == AgentSays(p, {"busy"}, "turn", TRUE)
TurnEnd(p)     == AgentSays(p, {"turn"}, "busy", FALSE)
RunComplete(p) == AgentSays(p, {"busy", "turn"}, "idle", FALSE)

\* On the shutdown command, or once stdin closes because nobody in the Core
\* refers to the RunnerProcess any more.  Dropping it closes stdin only: the
\* reader task keeps the Child, so kill_on_drop does not fire.
Exit(p) ==
    /\ child[p] \in {"booting", "up"} /\ (expected[p] \/ ~Reachable(p))
    /\ Dies(p, "exited")
    /\ UNCHANGED <<registry, task, calls>>

Crash(p) ==
    /\ "crash" \in Faults /\ Live(p)
    /\ Dies(p, "crashed")
    /\ UNCHANGED <<registry, task, calls>>

Hang(p) ==
    /\ "hang" \in Faults /\ child[p] = "up"
    /\ child' = [child EXCEPT ![p] = "hung"]
    /\ UNCHANGED <<registry, phase, task, calls>>

\* agent_running.store(false) once stdout is at its end.
FlagAtEofKept(p) == running
FlagAtEof(p) == [running EXCEPT ![p] = FALSE]

ReaderEof(p) ==
    /\ child[p] \in Dead /\ reader[p] = "reading"
    /\ running' = FlagAtEof(p)
    /\ reader' = [reader EXCEPT ![p] = "eof"]
    /\ UNCHANGED <<registry, os, expected, rx, calls>>

\* code 0 for a close Yole asked for, else the exit status.
CloseCodeOfStatus(p) == IF child[p] = "exited" THEN "clean" ELSE "abnormal"
CloseCode(p) == IF expected[p] \/ child[p] = "exited" THEN "clean" ELSE "abnormal"

ReaderClose(p) ==
    /\ reader[p] = "eof"
    /\ reader' = [reader EXCEPT ![p] = "done"]
    /\ rx' = [rx EXCEPT ![p] = IF @ = "open" THEN CloseCode(p) ELSE @]
    /\ UNCHANGED <<registry, os, running, expected, calls>>

-----------------------------------------------------------------------------
Begin(c) ==
    \/ \E s \in Session, a \in Active : SpawnBegin(c, s, a)
    \/ \E s \in Session : ShutdownBegin(c, s) \/ WatchBegin(c, s) \/ SendBegin(c, s)
    \/ ShutdownAll(c)

Stop(c) == \E p \in Proc : StopLock(c, p) \/ StopExited(c, p) \/ StopTimeout(c, p)

Continue(c) ==
    \/ Fork(c) \/ ForkFails(c) \/ Insert(c) \/ Touch(c)
    \/ Enforce(c) \/ ScanSkip(c) \/ ScanNext(c) \/ Peek(c) \/ ScanEnd(c)
    \/ Evict(c) \/ EvictDone(c) \/ Stop(c)
    \/ ShutdownEnd(c) \/ ClearLru(c) \/ ShutdownAllEnd(c)
    \/ SubscribeLookup(c) \/ Subscribe(c) \/ SendLock(c) \/ SendEnd(c)

Read(p) == ReaderEof(p) \/ ReaderClose(p)

Runner(p) ==
    \/ Boot(p) \/ TurnStart(p) \/ TurnEnd(p) \/ RunComplete(p)
    \/ Exit(p) \/ Crash(p) \/ Hang(p) \/ Read(p)

Next ==
    \/ \E c \in Caller : Begin(c) \/ Continue(c)
    \/ \E p \in Proc : Runner(p)

Spec == Init /\ [][Next]_vars

\* tokio runs every ready task and its locks are FIFO, so a caller that can
\* move again and again does move; the OS runs every live child.
Fairness ==
    /\ \A c \in Caller : SF_vars(Continue(c))
    /\ \A p \in Proc : WF_vars(Boot(p)) /\ WF_vars(Exit(p)) /\ WF_vars(Read(p))

FairSpec == Spec /\ Fairness

-----------------------------------------------------------------------------
(* What the pool promises.                                                 *)

\* Every variable keeps the type its declaration gives it.
TypeOK ==
    /\ processes \in [Session -> Proc \cup {NoProc}]
    /\ lru \in Seq(Session)
    /\ child \in [Proc -> Child]
    /\ phase \in [Proc -> {"idle", "busy", "turn"}]
    /\ running \in [Proc -> BOOLEAN]
    /\ expected \in [Proc -> BOOLEAN]
    /\ reader \in [Proc -> {"reading", "eof", "done"}]
    /\ rx \in [Proc -> {"none", "open", "clean", "abnormal"}]
    /\ pc \in [Caller -> AllPC]
    /\ sid \in [Caller -> Session \cup {NoSession}]
    /\ act \in [Caller -> Session \cup {NoSession}]
    /\ tgt \in [Caller -> SUBSET Proc]
    /\ held \in [Caller -> SUBSET Proc]
    /\ snap \in [Caller -> Seq(Session)]

\* A process is registered under one session only, or it is in the hands
\* of the one caller that forked it or took it out of the map to stop it:
\* no two callers stop the same process, and nobody stops a registered one.
OwnedOnce ==
    /\ \A s, t \in Session : processes[s] = processes[t] => s = t \/ processes[s] = NoProc
    /\ \A c \in Caller : \A p \in tgt[c] :
        pc[c] \in Stopping \cup {"insert", "clear"} =>
            /\ ~Mapped(p)
            /\ \A d \in Caller \ {c} :
                p \in tgt[d] => pc[d] \notin Stopping \cup {"insert", "clear"}

\* retain-then-push: a session has one place in the LRU, so Len(lru), which
\* enforce_cap compares with the cap, counts sessions.
LruNoDup == \A i, j \in 1 .. Len(lru) : lru[i] = lru[j] => i = j

\* The GUI shows a crash only when the child died by itself: whatever exit
\* Yole caused, by command, by kill or by closing stdin, is reported clean.
DeliberateCloseIsClean == \A p \in Proc : rx[p] = "abnormal" => child[p] = "crashed"

\* A runner that died mid-turn stops being protected from eviction before its
\* close is announced.
NoStaleProtection == \A p \in Proc : reader[p] = "done" => ~running[p]

\* shutdown, eviction and shutdown_all let go of a process only once it is dead.
StoppedIsDead ==
    [][\A c \in Caller, p \in Proc :
        pc[c] \in Stopping \ {"replace"} /\ p \in tgt[c] /\ p \notin tgt'[c]
            => child'[p] \in Dead]_vars

\* No call waits for ever, whatever the children do: the timeout is followed
\* by a kill, and enforce_cap's loop ends.
CallsReturn == \A c \in Caller : pc[c] # "idle" ~> pc[c] = "idle"

=============================================================================
