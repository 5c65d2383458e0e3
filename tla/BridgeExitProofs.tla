-------------------------- MODULE BridgeExitProofs --------------------------
(***************************************************************************)
(* How a runner ends, for every number of lines and events and every set   *)
(* of faults.                                                              *)
(***************************************************************************)
EXTENDS BridgeExit, TLAPS

\* Once a shutdown command was taken off the queue it is being handled, or it
\* was: the pet is gone, stop is set and the loop takes no other command.
ShutdownIsLast ==
    got > 0 /\ sent[got] = "shutdown" =>
        lpc = "handle" \/ (~pet /\ stop /\ lpc # "get")

\* The writer holds one event while it writes and none otherwise; it ends by
\* failing or once it has written what was emitted before stop.
WriterHolds ==
    /\ wpc \in {"check", "get"} => written = taken
    /\ wpc = "write" => taken = written + 1
    /\ wpc = "ended" => stop /\ (broken \/ written >= atStop)

\* A command being handled is one.
HandlesCommand == lpc = "handle" => got > 0

IInv == TypeOK /\ ShutdownIsLast /\ WriterHolds /\ HandlesCommand /\ StopsForAReason

\* The bridge starts in a state that satisfies the invariant.
LEMMA InitIInv == Init => IInv
<1> SUFFICES ASSUME Init PROVE IInv
  OBVIOUS
<1>1. sent \in Seq(Line) /\ Len(sent) = 0
  BY DEF Init
<1>2. TypeOK
  <2>1. closed \in BOOLEAN /\ broken \in BOOLEAN /\ pet \in BOOLEAN /\ stop \in BOOLEAN
    BY Zenon DEF Init
  <2> QED BY <1>1, <2>1 DEF Init, TypeOK
<1>3. ShutdownIsLast /\ WriterHolds /\ HandlesCommand /\ StopsForAReason
  BY DEF Init, ShutdownIsLast, WriterHolds, HandlesCommand, StopsForAReason
<1> QED BY <1>2, <1>3 DEF IInv

\* What the Core writes, closes or breaks.
LEMMA CoreIInv == ASSUME IInv, Core PROVE IInv'
<1> USE DEF IInv, TypeOK, ShutdownIsLast, WriterHolds, HandlesCommand, StopsForAReason,
        reader, loop, writer, signal
<1>1. CASE \E line \in Line : Send(line)
  <2>1. PICK line \in Line : Send(line)
    BY <1>1
  <2>2. /\ sent' \in Seq(Line) /\ Len(sent') = Len(sent) + 1
        /\ \A i \in 1 .. Len(sent) : sent'[i] = sent[i]
    BY <2>1 DEF Send
  <2>3. got \in Nat /\ got <= Len(sent)
    OBVIOUS
  <2>4. got > 0 => sent'[got] = sent[got]
    BY <2>2, <2>3
  <2>5. UNCHANGED <<closed, broken, reader, loop, writer, signal, emitted, work>>
    BY <2>1 DEF Send
  <2> QED BY <2>2, <2>4, <2>5
<1>2. CASE Close
  BY <1>2 DEF Close
<1>3. CASE Break
  BY <1>3 DEF Break
<1> QED BY <1>1, <1>2, <1>3 DEF Core

\* The stdin reader's steps.
LEMMA ReaderIInv == ASSUME IInv, Reader PROVE IInv'
<1> USE DEF IInv, TypeOK, ShutdownIsLast, WriterHolds, HandlesCommand, StopsForAReason,
        core, loop, writer, signal
<1>1. CASE ReaderCheck
  BY <1>1 DEF ReaderCheck
<1>2. CASE ReadLine
  BY <1>2 DEF ReadLine, Emit
<1>3. CASE ReadEof
  BY <1>3 DEF ReadEof, AtEof, SetStop
<1> QED BY <1>1, <1>2, <1>3 DEF Reader

\* The command loop's steps and the interpreter's.
LEMMA LoopIInv == ASSUME IInv, Loop PROVE IInv'
<1> USE DEF IInv, TypeOK, ShutdownIsLast, WriterHolds, HandlesCommand, StopsForAReason,
        core, reader, writer, signal, Goto
<1>1. CASE LoopCheck
  BY <1>1 DEF LoopCheck
<1>2. CASE LoopGet
  <2>1. got' \in got + 1 .. read
    BY <1>2 DEF LoopGet, Queued
  <2>2. got' > 0 /\ got' \in 0 .. read
    BY <2>1
  <2> QED BY <1>2, <2>2 DEF LoopGet
<1>3. CASE LoopNone
  BY <1>3 DEF LoopNone
<1>4. CASE UserMessage
  <2>1. TypeOK'
    BY <1>4 DEF UserMessage, Handles
  <2>2. (ShutdownIsLast /\ WriterHolds /\ HandlesCommand)'
    BY <1>4 DEF UserMessage, Handles
  <2>3. StopsForAReason'
    BY <1>4 DEF UserMessage, Handles
  <2> QED BY <2>1, <2>2, <2>3
<1>5. CASE AttachPet
  <2>1. TypeOK'
    <3>1. pet' \in BOOLEAN
      BY <1>5, Zenon DEF AttachPet
    <3> QED BY <3>1, <1>5 DEF AttachPet, Handles, Emit
  <2>2. (ShutdownIsLast /\ WriterHolds /\ HandlesCommand)'
    BY <1>5 DEF AttachPet, Handles, Emit
  <2>3. StopsForAReason'
    BY <1>5 DEF AttachPet, Handles, Emit
  <2> QED BY <2>1, <2>2, <2>3
<1>6. CASE DetachPet
  <2>1. TypeOK'
    <3>1. pet' \in BOOLEAN
      BY <1>6, Zenon DEF DetachPet
    <3> QED BY <3>1, <1>6 DEF DetachPet, Handles, Emit
  <2>2. (ShutdownIsLast /\ WriterHolds /\ HandlesCommand)'
    BY <1>6 DEF DetachPet, Handles, Emit
  <2>3. StopsForAReason'
    BY <1>6 DEF DetachPet, Handles, Emit
  <2> QED BY <2>1, <2>2, <2>3
<1>7. CASE Shutdown
  <2>1. pet' \in BOOLEAN /\ stop' \in BOOLEAN /\ ~pet' /\ stop'
    BY <1>7, Zenon DEF Shutdown, SetStop, PetDetached
  <2>2. TypeOK'
    BY <2>1, <1>7 DEF Shutdown, Handles, SetStop
  <2>3. (ShutdownIsLast /\ WriterHolds /\ HandlesCommand)'
    BY <2>1, <1>7 DEF Shutdown, Handles, SetStop
  <2>4. StopsForAReason'
    BY <1>7 DEF Shutdown, Handles
  <2> QED BY <2>2, <2>3, <2>4
<1>8. CASE Grace
  BY <1>8 DEF Grace
<1>9. CASE Drain
  BY <1>9 DEF Drain
<1>10. CASE Gone
  BY <1>10 DEF Gone
<1> QED BY <1>1, <1>2, <1>3, <1>4, <1>5, <1>6, <1>7, <1>8, <1>9, <1>10 DEF Loop

\* The stdout writer's steps.
LEMMA WriterIInv == ASSUME IInv, Writer PROVE IInv'
<1> USE DEF IInv, TypeOK, ShutdownIsLast, WriterHolds, HandlesCommand, StopsForAReason,
        core, reader, loop, signal
<1>1. CASE WriterCheck
  BY <1>1 DEF WriterCheck, GoesOn
<1>2. CASE WriterGet
  BY <1>2 DEF WriterGet, HasEvent
<1>3. CASE WriterWrite
  BY <1>3 DEF WriterWrite
<1>4. CASE WriterFails
  BY <1>4 DEF WriterFails, SetStop
<1> QED BY <1>1, <1>2, <1>3, <1>4 DEF Writer

\* The drain timer's step and the agent's.
LEMMA OtherIInv == ASSUME IInv, TimerFires \/ Agent PROVE IInv'
BY DEF IInv, TypeOK, ShutdownIsLast, WriterHolds, HandlesCommand, StopsForAReason,
   TimerFires, Agent, TurnStart, TurnEnd, RunComplete, AgentSays, Emit,
   core, reader, loop, writer, signal

\* The invariant holds in every reachable state.
THEOREM ExitInvariance == Spec => []IInv
<1>1. IInv /\ [Next]_vars => IInv'
  <2> SUFFICES ASSUME IInv, [Next]_vars PROVE IInv'
    OBVIOUS
  <2>1. CASE Next
    BY <2>1, CoreIInv, ReaderIInv, LoopIInv, WriterIInv, OtherIInv DEF Next
  <2>2. CASE UNCHANGED vars
    BY <2>2 DEF IInv, TypeOK, ShutdownIsLast, WriterHolds, HandlesCommand, StopsForAReason,
       vars, core, reader, loop, writer, signal
  <2> QED BY <2>1, <2>2
<1> QED BY InitIInv, <1>1, PTL DEF Spec

\* Type correctness of the runner's threads.
THEOREM ExitTypes == Spec => []TypeOK
<1>1. IInv => TypeOK
  BY DEF IInv
<1> QED BY <1>1, ExitInvariance, PTL

\* No runner gives up while the Core is there and has not told it to.
THEOREM StopsOnlyForAReason == Spec => []StopsForAReason
<1>1. IInv => StopsForAReason
  BY DEF IInv
<1> QED BY <1>1, ExitInvariance, PTL

\* What was emitted before the decision to stop is on stdout when the writer ends.
THEOREM LastWords == Spec => []LastWordsAreWritten
<1>1. IInv => LastWordsAreWritten
  BY DEF IInv, WriterHolds, LastWordsAreWritten
<1> QED BY <1>1, ExitInvariance, PTL

\* A runner that exits after a shutdown command leaves no pet behind.
THEOREM NoPetIsLeft == Spec => []NoOrphanPet
<1>1. IInv => NoOrphanPet
  BY DEF IInv, ShutdownIsLast, NoOrphanPet
<1> QED BY <1>1, ExitInvariance, PTL
=============================================================================
