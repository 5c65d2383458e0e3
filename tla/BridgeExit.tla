----------------------------- MODULE BridgeExit -----------------------------
(***************************************************************************)
(* How a runner process ends (runner/yole_bridge.py): the stdin reader,    *)
(* the command loop with the desktop pet, the stdout writer, the agent's   *)
(* worker, and the interpreter, which exits once the loop has returned and *)
(* its one non-daemon thread, the drain timer, has fired.  RunnerPool      *)
(* takes for granted that a runner exits when told to or when its stdin is *)
(* closed; this module shows what that rests on.                           *)
(*                                                                         *)
(* Both queues are FIFO, so counters stand for them: of the lines sent,    *)
(* read have been read and got is the last one taken off command_queue;    *)
(* of the events emitted, taken have left event_queue.                     *)
(***************************************************************************)
EXTENDS Naturals, Sequences

CONSTANTS
    MaxLines,   \* bound: lines the Core writes
    MaxEvents,  \* bound: the agent emits while fewer events were emitted
    Faults      \* what may go wrong, a subset of AllFaults

\* "bad": a line that is no command; "broken": nobody reads stdout any more;
\* "spawn": the pet cannot be started.
AllFaults == {"bad", "broken", "spawn"}

ASSUME ExitAssumption ==
    MaxLines \in Nat /\ MaxEvents \in Nat \ {0} /\ Faults \subseteq AllFaults

VARIABLES
    sent,     \* the lines the Core has written
    closed,   \* the Core has let go of stdin
    broken,   \* writing to stdout fails
    read,     \* lines the reader has read
    rpc,      \* the stdin reader
    got,      \* the line of the command taken last
    lpc,      \* the command loop, then the interpreter
    pet,      \* the pet subprocess lives
    timer,    \* the drain deadline: off, armed, fired
    stop,     \* Bridge.shutdown_event
    emitted,  \* events put on event_queue
    taken,    \* events the writer took off it
    written,  \* events written to stdout
    wpc,      \* the stdout writer
    work,     \* the agent: idle, busy (no turn open), turn
    atStop    \* events emitted when stop was set

core   == <<sent, closed, broken>>
reader == <<read, rpc>>
loop   == <<got, lpc, pet, timer>>
writer == <<taken, written, wpc>>
signal == <<stop, atStop>>
vars   == <<core, reader, loop, writer, signal, emitted, work>>

Command == {"message", "attach_pet", "detach_pet", "shutdown"}
Line    == Command \cup {"bad"}

\* The bridge has started, and Ready is its first event.
Init ==
    /\ sent = <<>> /\ closed = FALSE /\ broken = FALSE
    /\ read = 0 /\ rpc = "check"
    /\ got = 0 /\ lpc = "check" /\ pet = FALSE /\ timer = "off"
    /\ emitted = 1 /\ taken = 0 /\ written = 0 /\ wpc = "check"
    /\ stop = FALSE /\ atStop = 0
    /\ work = "idle"

Alive    == lpc # "gone"
Emit     == emitted' = emitted + 1
SetStop  == stop' = TRUE /\ atStop' = IF stop THEN atStop ELSE emitted

-----------------------------------------------------------------------------
(* The Core.                                                               *)

Send(line) ==
    /\ Alive /\ ~closed /\ Len(sent) < MaxLines
    /\ line = "bad" => "bad" \in Faults
    /\ sent' = Append(sent, line)
    /\ UNCHANGED <<closed, broken, reader, loop, writer, signal, emitted, work>>

\* The RunnerProcess is dropped, or the Core is gone.
Close ==
    /\ Alive /\ ~closed
    /\ closed' = TRUE
    /\ UNCHANGED <<sent, broken, reader, loop, writer, signal, emitted, work>>

Break ==
    /\ Alive /\ "broken" \in Faults /\ ~broken
    /\ broken' = TRUE
    /\ UNCHANGED <<sent, closed, reader, loop, writer, signal, emitted, work>>

-----------------------------------------------------------------------------
(* Bridge._stdin_reader.                                                   *)

ReaderCheck ==
    /\ Alive /\ rpc = "check"
    /\ rpc' = IF stop THEN "ended" ELSE "read"
    /\ UNCHANGED <<core, read, loop, writer, signal, emitted, work>>

\* A line that does not decode is answered with an error and skipped.
ReadLine ==
    /\ Alive /\ rpc = "read" /\ read < Len(sent)
    /\ read' = read + 1
    /\ rpc' = "check"
    /\ IF sent[read'] = "bad" THEN Emit ELSE UNCHANGED emitted
    /\ UNCHANGED <<core, loop, writer, signal, work>>

AtEofWhenIdle == read = Len(sent)
AtEof == read = Len(sent) /\ closed

ReadEof ==
    /\ Alive /\ rpc = "read" /\ AtEof
    /\ SetStop
    /\ rpc' = "ended"
    /\ UNCHANGED <<core, read, loop, writer, emitted, work>>

-----------------------------------------------------------------------------
(* Bridge.run and the commands of dispatch_command that matter here.       *)

Goto(label) == lpc' = label

Queued == {i \in got + 1 .. read : sent[i] # "bad"}

LoopCheck ==
    /\ lpc = "check"
    /\ Goto(IF stop THEN "grace" ELSE "get")
    /\ UNCHANGED <<core, reader, got, pet, timer, writer, signal, emitted, work>>

\* get(timeout) returns the oldest command, also when stop was set meanwhile.
LoopGet ==
    /\ lpc = "get"
    /\ got' \in {i \in Queued : \A j \in Queued : i <= j}
    /\ Goto("handle")
    /\ UNCHANGED <<core, reader, pet, timer, writer, signal, emitted, work>>

LoopNone ==
    /\ lpc = "get" /\ Queued = {}
    /\ Goto("check")
    /\ UNCHANGED <<core, reader, got, pet, timer, writer, signal, emitted, work>>

Handles(command) == lpc = "handle" /\ sent[got] = command /\ Goto("check")

\* A message given to a working agent waits in the agent's own queue.
UserMessage ==
    /\ Handles("message")
    /\ work' = IF work = "idle" THEN "busy" ELSE work
    /\ UNCHANGED <<core, reader, got, pet, timer, writer, signal, emitted>>

\* A pet that is there already is detached first; the outcome is an event.
AttachPet ==
    /\ Handles("attach_pet") /\ Emit
    /\ \/ pet' = TRUE
       \/ "spawn" \in Faults /\ pet' = FALSE
    /\ UNCHANGED <<core, reader, got, timer, writer, signal, work>>

DetachPet ==
    /\ Handles("detach_pet") /\ Emit
    /\ pet' = FALSE
    /\ UNCHANGED <<core, reader, got, timer, writer, signal, work>>

PetKept == pet
PetDetached == FALSE

Shutdown ==
    /\ Handles("shutdown")
    /\ pet' = PetDetached
    /\ SetStop
    /\ UNCHANGED <<core, reader, got, timer, writer, emitted, work>>

\* run_in_progress.wait(2.0) ends at once while a run is on and else after two
\* seconds: it changes nothing, and the drain timer starts.
Grace ==
    /\ lpc = "grace"
    /\ timer' = "armed"
    /\ Goto("drain")
    /\ UNCHANGED <<core, reader, got, pet, writer, signal, emitted, work>>

Drained == taken = emitted
DrainOver == taken = emitted \/ timer = "fired"

Drain ==
    /\ lpc = "drain" /\ DrainOver
    /\ Goto("returned")
    /\ UNCHANGED <<core, reader, got, pet, timer, writer, signal, emitted, work>>

TimerFires ==
    /\ timer = "armed"
    /\ timer' = "fired"
    /\ UNCHANGED <<core, reader, got, lpc, pet, writer, signal, emitted, work>>

\* The daemon threads die with the interpreter, wherever they are.
Gone ==
    /\ lpc = "returned" /\ timer = "fired"
    /\ Goto("gone")
    /\ UNCHANGED <<core, reader, got, pet, timer, writer, signal, emitted, work>>

-----------------------------------------------------------------------------
(* Bridge._stdout_writer.                                                  *)

GoesOnUntilStop == ~stop
GoesOn == ~stop \/ taken < emitted

WriterCheck ==
    /\ Alive /\ wpc = "check"
    /\ wpc' = IF GoesOn THEN "get" ELSE "ended"
    /\ UNCHANGED <<core, reader, loop, taken, written, signal, emitted, work>>

AnyEvent == TRUE
HasEvent == taken < emitted

WriterGet ==
    /\ Alive /\ wpc = "get"
    /\ IF HasEvent
       THEN taken' = taken + 1 /\ wpc' = "write"
       ELSE wpc' = "check" /\ UNCHANGED taken
    /\ UNCHANGED <<core, reader, loop, written, signal, emitted, work>>

WriterWrite ==
    /\ Alive /\ wpc = "write" /\ ~broken
    /\ written' = written + 1
    /\ wpc' = "check"
    /\ UNCHANGED <<core, reader, loop, taken, signal, emitted, work>>

WriterFails ==
    /\ Alive /\ wpc = "write" /\ broken
    /\ SetStop
    /\ wpc' = "ended"
    /\ UNCHANGED <<core, reader, loop, taken, written, emitted, work>>

-----------------------------------------------------------------------------
(* The agent, by the events its callbacks emit.                            *)

AgentSays(from, to) ==
    /\ Alive /\ work \in from /\ emitted < MaxEvents /\ Emit
    /\ work' = to
    /\ UNCHANGED <<core, reader, loop, writer, signal>>

TurnStart   == AgentSays({"busy"}, "turn")
TurnEnd     == AgentSays({"turn"}, "busy")
RunComplete == AgentSays({"busy", "turn"}, "idle")

-----------------------------------------------------------------------------
Core   == (\E line \in Line : Send(line)) \/ Close \/ Break
Reader == ReaderCheck \/ ReadLine \/ ReadEof
Loop   == \/ LoopCheck \/ LoopGet \/ LoopNone
          \/ UserMessage \/ AttachPet \/ DetachPet \/ Shutdown
          \/ Grace \/ Drain \/ Gone
Writer == WriterCheck \/ WriterGet \/ WriterWrite \/ WriterFails
Agent  == TurnStart \/ TurnEnd \/ RunComplete

Next == Core \/ Reader \/ Loop \/ TimerFires \/ Writer \/ Agent

Spec == Init /\ [][Next]_vars

\* The threads of one interpreter all run; the Core and the agent owe nothing.
FairSpec == Spec /\ WF_vars(Reader) /\ WF_vars(Loop) /\ WF_vars(TimerFires) /\ WF_vars(Writer)

-----------------------------------------------------------------------------
(* What the runner promises of its end.                                    *)

\* Every variable keeps the type its declaration gives it.
TypeOK ==
    /\ sent \in Seq(Line) /\ closed \in BOOLEAN /\ broken \in BOOLEAN
    /\ read \in 0 .. Len(sent) /\ rpc \in {"check", "read", "ended"}
    /\ got \in 0 .. read
    /\ lpc \in {"check", "get", "handle", "grace", "drain", "returned", "gone"}
    /\ pet \in BOOLEAN /\ timer \in {"off", "armed", "fired"}
    /\ emitted \in Nat /\ taken \in 0 .. emitted /\ written \in 0 .. taken
    /\ wpc \in {"check", "get", "write", "ended"}
    /\ stop \in BOOLEAN /\ atStop \in 0 .. emitted
    /\ work \in {"idle", "busy", "turn"}

\* The runner gives up only for a reason: a shutdown command whose turn in the
\* queue has come, the end of stdin, or a stdout nobody reads.  So no command
\* ahead of a shutdown is dropped while the Core is there.
StopsForAReason ==
    stop /\ ~closed /\ ~broken => got > 0 /\ sent[got] = "shutdown"

\* The writer outlives the decision to stop until every event emitted before
\* it, the answer to the last command among them, is on stdout.
LastWordsAreWritten == wpc = "ended" /\ ~broken => written >= atStop

\* docs/ipc-protocol.md, 5.12: a shutdown command leaves no orphaned pet, also
\* when stdin ends or the worker emits meanwhile.
NoOrphanPet == lpc = "gone" /\ got > 0 /\ sent[got] = "shutdown" => ~pet

\* A runner told to shut down, or left by the Core, exits, even while its agent
\* never stops talking or never comes back from a tool.
Told == closed \/ \E i \in 1 .. Len(sent) : sent[i] = "shutdown"
ExitsWhenTold == Told ~> lpc = "gone"

=============================================================================
