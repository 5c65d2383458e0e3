-------------------------- MODULE RunnerPoolProofs --------------------------
(***************************************************************************)
(* What RunnerPool guarantees for every number of sessions, callers and    *)
(* processes, every cap and every set of faults.                           *)
(***************************************************************************)
EXTENDS RunnerPool, SequenceTheorems, TLAPS

Owning == Stopping \cup {"insert", "clear"}

\* What a program counter says about the caller's locals.
PcShape ==
    \A c \in Caller :
        /\ held[c] \subseteq tgt[c]
        /\ pc[c] \notin Stopping \cup {"send"} => held[c] = {}
        /\ pc[c] \notin Owning \cup {"peek", "sublock", "send"} => tgt[c] = {}
        /\ pc[c] \in {"peek", "evict", "evicting"} => snap[c] # <<>>
        /\ pc[c] \in {"replace", "insert", "touch", "stopping", "subscribe", "enforce",
                      "scan", "peek", "evict", "evicting"} => sid[c] \in Session

\* Nobody refers to a process before it is forked.
UnbornFresh == \A p \in Proc : child[p] = "unborn" => ~Reachable(p)

\* Who is being stopped was told so first, a kill comes after that, and the
\* reader ends only after the child.
StopIsExpected ==
    /\ \A c \in Caller : pc[c] \in Stopping => \A p \in held[c] : expected[p]
    /\ \A p \in Proc :
        /\ child[p] = "killed" => expected[p]
        /\ reader[p] # "reading" => child[p] \in Dead /\ ~running[p]

IInv ==
    /\ TypeOK
    /\ PcShape
    /\ UnbornFresh
    /\ OwnedOnce
    /\ StopIsExpected
    /\ DeliberateCloseIsClean
    /\ LruNoDup

-----------------------------------------------------------------------------
(* The LRU: retain drops a session, a second touch moves it.               *)

NoDup(q) == \A i, j \in 1 .. Len(q) : q[i] = q[j] => i = j

\* Dropping s from a list without duplicates leaves a list without duplicates
\* in which s does not occur.
LEMMA WithoutProperties ==
    ASSUME NEW S, NEW q \in Seq(S), NEW s
    PROVE  /\ Without(q, s) \in Seq(S)
           /\ NoDup(q) => NoDup(Without(q, s))
           /\ NoDup(q) => \A k \in 1 .. Len(Without(q, s)) : Without(q, s)[k] # s
<1>1. CASE \E i \in 1 .. Len(q) : q[i] = s
  <2> DEFINE i == CHOOSE j \in 1 .. Len(q) : q[j] = s
             a == SubSeq(q, 1, i - 1)
             b == SubSeq(q, i + 1, Len(q))
  <2>0. Len(q) \in Nat /\ \A k \in 1 .. Len(q) : q[k] \in S
    BY ElementOfSeq, LenProperties
  <2>1. i \in 1 .. Len(q) /\ q[i] = s
    BY <1>1
  <2>2. Without(q, s) = a \o b
    BY <1>1 DEF Without
  <2> HIDE DEF i
  <2>3. /\ a \in Seq(S) /\ Len(a) = i - 1
        /\ \A k \in 1 .. i - 1 : a[k] = q[k]
    <3>1. /\ 1 \in Int /\ i - 1 \in Int
          /\ \A k \in 1 .. i - 1 : q[k] \in S
      BY <2>0, <2>1
    <3>2. /\ a \in Seq(S)
          /\ Len(a) = IF 1 <= i - 1 THEN (i - 1) - 1 + 1 ELSE 0
          /\ \A k \in 1 .. (i - 1) - 1 + 1 : a[k] = q[1 + k - 1]
      BY <3>1, SubSeqProperties
    <3> HIDE DEF a
    <3> QED BY <3>2, <2>1, <2>0
  <2>4. /\ b \in Seq(S) /\ Len(b) = Len(q) - i
        /\ \A k \in 1 .. Len(q) - i : b[k] = q[i + k]
    <3>1. /\ i + 1 \in Int /\ Len(q) \in Int
          /\ \A k \in i + 1 .. Len(q) : q[k] \in S
      BY <2>0, <2>1
    <3>2. /\ b \in Seq(S)
          /\ Len(b) = IF i + 1 <= Len(q) THEN Len(q) - (i + 1) + 1 ELSE 0
          /\ \A k \in 1 .. Len(q) - (i + 1) + 1 : b[k] = q[(i + 1) + k - 1]
      BY <3>1, SubSeqProperties
    <3> HIDE DEF b
    <3> QED BY <3>2, <2>1, <2>0
  <2> HIDE DEF a, b
  <2>5. /\ a \o b \in Seq(S) /\ Len(a \o b) = Len(q) - 1
        /\ \A k \in 1 .. Len(q) - 1 : (a \o b)[k] = q[IF k < i THEN k ELSE k + 1]
    <3>1. /\ a \o b \in Seq(S) /\ Len(a \o b) = Len(a) + Len(b)
          /\ \A k \in 1 .. Len(a) + Len(b) :
                (a \o b)[k] = IF k <= Len(a) THEN a[k] ELSE b[k - Len(a)]
      BY <2>3, <2>4, ConcatProperties
    <3>2. ASSUME NEW k \in 1 .. Len(q) - 1
          PROVE  (a \o b)[k] = q[IF k < i THEN k ELSE k + 1]
      <4>1. CASE k < i
        BY <4>1, <3>1, <2>0, <2>1, <2>3, <2>4
      <4>2. CASE k >= i
        <5>1. (a \o b)[k] = b[k - (i - 1)] /\ k - (i - 1) \in 1 .. Len(q) - i
          BY <4>2, <3>1, <2>0, <2>1, <2>3, <2>4
        <5>2. b[k - (i - 1)] = q[i + (k - (i - 1))]
          BY <5>1, <2>4
        <5>3. i + (k - (i - 1)) = k + 1
          BY <2>0, <2>1
        <5> QED BY <5>1, <5>2, <5>3, <4>2, <2>0, <2>1
      <4>3. k < i \/ k >= i
        BY <2>0, <2>1
      <4> QED BY <4>1, <4>2, <4>3
    <3> QED BY <3>1, <3>2, <2>0, <2>1, <2>3, <2>4
  <2> DEFINE w == a \o b
             at(k) == IF k < i THEN k ELSE k + 1
  <2>6. /\ w \in Seq(S) /\ Len(w) = Len(q) - 1
        /\ \A k \in 1 .. Len(q) - 1 : w[k] = q[at(k)]
    BY <2>5
  <2>7. /\ \A k \in 1 .. Len(q) - 1 : at(k) \in 1 .. Len(q) /\ at(k) # i
        /\ \A k, m \in 1 .. Len(q) - 1 : at(k) = at(m) => k = m
    BY <2>0, <2>1
  <2> HIDE DEF at, w
  <2>8. NoDup(q) => NoDup(w)
    BY <2>0, <2>6, <2>7 DEF NoDup
  <2>9. NoDup(q) => \A k \in 1 .. Len(w) : w[k] # s
    BY <2>0, <2>1, <2>6, <2>7 DEF NoDup
  <2> QED BY <2>2, <2>6, <2>8, <2>9 DEF w
<1>2. CASE ~ \E i \in 1 .. Len(q) : q[i] = s
  BY <1>2 DEF Without
<1> QED BY <1>1, <1>2

\* A touched session stands once, at the end.
LEMMA TouchedProperties ==
    ASSUME NEW S, NEW q \in Seq(S), NEW s \in S
    PROVE  /\ Touched(q, s) \in Seq(S)
           /\ NoDup(q) => NoDup(Touched(q, s))
<1> DEFINE w == Without(q, s)
<1>1. /\ w \in Seq(S)
      /\ NoDup(q) => NoDup(w) /\ \A k \in 1 .. Len(w) : w[k] # s
  BY WithoutProperties
<1>2. Len(w) \in Nat
  BY <1>1, LenProperties
<1> HIDE DEF w
<1>3. /\ Append(w, s) \in Seq(S)
      /\ Len(Append(w, s)) = Len(w) + 1
      /\ \A k \in 1 .. Len(w) : Append(w, s)[k] = w[k]
      /\ Append(w, s)[Len(w) + 1] = s
  BY <1>1, AppendProperties
<1>4. NoDup(q) => NoDup(Append(w, s))
  <2> SUFFICES ASSUME NoDup(q), NEW j \in 1 .. Len(w) + 1, NEW k \in 1 .. Len(w) + 1,
                      Append(w, s)[j] = Append(w, s)[k]
               PROVE  j = k
    BY <1>3 DEF NoDup
  <2>1. CASE j <= Len(w) /\ k <= Len(w)
    BY <2>1, <1>1, <1>2, <1>3 DEF NoDup
  <2>2. CASE j = Len(w) + 1 \/ k = Len(w) + 1
    BY <2>2, <1>1, <1>2, <1>3
  <2> QED BY <2>1, <2>2, <1>2
<1> QED BY <1>3, <1>4 DEF Touched, w

-----------------------------------------------------------------------------
(* Type correctness, with what the program counters say.                   *)

\* The process registered for a session is one that is mapped.
LEMMA RegisteredProc ==
    ASSUME TypeOK, NEW s \in Session
    PROVE  /\ Registered(s) \subseteq Proc
           /\ \A p \in Registered(s) : processes[s] = p /\ Mapped(p)
           /\ NoProc \notin Proc
BY DEF TypeOK, Registered, Proc, NoProc, Mapped

\* A snapshot that is not empty has a session at its head.
LEMMA SnapHead ==
    ASSUME TypeOK, NEW c \in Caller, snap[c] # <<>>
    PROVE  Head(snap[c]) \in Session /\ Tail(snap[c]) \in Seq(Session)
<1>1. snap[c] \in Seq(Session)
  BY DEF TypeOK
<1> QED BY <1>1, HeadTailProperties

\* An empty pool satisfies the inductive invariant.
THEOREM InitIInv == Init => IInv
<1> SUFFICES ASSUME Init PROVE IInv
  OBVIOUS
<1>1. TypeOK
  BY EmptySeq, PoolAssumption DEF Init, TypeOK, Child, AllPC, Stopping
<1>2. PcShape /\ UnbornFresh /\ OwnedOnce
  BY PoolAssumption DEF Init, PcShape, UnbornFresh, OwnedOnce, Reachable, Mapped, Owning,
     Stopping, Proc, NoProc
<1>3. StopIsExpected /\ DeliberateCloseIsClean
  BY DEF Init, StopIsExpected, DeliberateCloseIsClean, Stopping
<1>4. LruNoDup
  BY EmptySeq DEF Init, LruNoDup
<1> QED BY <1>1, <1>2, <1>3, <1>4 DEF IInv

\* Every step of a caller, a child or a reader keeps the types.
LEMMA StepTypeOK == TypeOK /\ PcShape /\ [Next]_vars => TypeOK'
<1> SUFFICES ASSUME TypeOK, PcShape, [Next]_vars PROVE TypeOK'
  OBVIOUS
<1> USE DEF registry, os, task, calls, Goto, Take
<1>0. \A s \in Session : Registered(s) \subseteq Proc
  BY RegisteredProc
<1>5. <<>> \in Seq(Session)
  BY EmptySeq
<1>1. ASSUME NEW c \in Caller, Begin(c) PROVE TypeOK'
  <2>1. ASSUME NEW s \in Session, NEW a \in Active, SpawnBegin(c, s, a) PROVE TypeOK'
    BY <2>1, <1>0, PoolAssumption DEF SpawnBegin, TypeOK, Unmapped, AllPC, Stopping
  <2>2. ASSUME NEW s \in Session, ShutdownBegin(c, s) PROVE TypeOK'
    BY <2>2, <1>0 DEF ShutdownBegin, TypeOK, Unmapped, AllPC, Stopping
  <2>3. ASSUME NEW s \in Session, WatchBegin(c, s) PROVE TypeOK'
    BY <2>3 DEF WatchBegin, TypeOK, AllPC
  <2>4. ASSUME NEW s \in Session, SendBegin(c, s) PROVE TypeOK'
    BY <2>4, <1>0 DEF SendBegin, TypeOK, AllPC
  <2>5. CASE ShutdownAll(c)
    BY <2>5 DEF ShutdownAll, TypeOK, AllPC
  <2> QED BY <1>1, <2>1, <2>2, <2>3, <2>4, <2>5 DEF Begin
<1>2. ASSUME NEW c \in Caller, Continue(c) PROVE TypeOK'
  <2>1. CASE Fork(c)
    BY <2>1 DEF Fork, TypeOK, AllPC, Child, Unborn
  <2>2. CASE ForkFails(c)
    BY <2>2, <1>5 DEF ForkFails, Return, TypeOK, AllPC
  <2>20. CASE ShutdownAllEnd(c)
    BY <2>20, <1>5 DEF ShutdownAllEnd, Return, TypeOK, AllPC
  <2>3. CASE Insert(c)
    <3>1. PICK p \in tgt[c] : processes' = [processes EXCEPT ![sid[c]] = p]
      BY <2>3 DEF Insert
    <3>2. p \in Proc
      BY DEF TypeOK
    <3> QED BY <2>3, <3>1, <3>2 DEF Insert, TypeOK, AllPC
  <2>4. CASE Touch(c)
    <3>1. lru' \in Seq(Session)
      BY <2>4, TouchedProperties DEF Touch, TypeOK, PcShape
    <3> QED BY <2>4, <3>1 DEF Touch, TypeOK, AllPC
  <2>5. CASE Enforce(c) \/ ScanEnd(c)
    BY <2>5 DEF Enforce, ScanEnd, TypeOK, AllPC
  <2>6. CASE ScanSkip(c)
    BY <2>6, SnapHead DEF ScanSkip, TypeOK
  <2>7. CASE ScanNext(c)
    BY <2>7, <1>0, SnapHead DEF ScanNext, TypeOK, AllPC
  <2>8. CASE Peek(c)
    <3>1. Tail(snap[c]) \in Seq(Session)
      BY <2>8, SnapHead DEF Peek, PcShape
    <3>2. snap' \in [Caller -> Seq(Session)] /\ pc' \in [Caller -> AllPC]
      BY <2>8, <3>1 DEF Peek, TypeOK, AllPC
    <3> QED BY <2>8, <3>2 DEF Peek, TypeOK
  <2>9. CASE Evict(c)
    <3>1. Head(snap[c]) \in Session
      BY <2>9, SnapHead DEF Evict, PcShape
    <3> QED BY <2>9, <3>1, <1>0 DEF Evict, TypeOK, Unmapped, AllPC, Stopping
  <2>10. CASE EvictDone(c)
    <3>1. lru' \in Seq(Session)
      BY <2>10, WithoutProperties DEF EvictDone, AfterEviction, TypeOK
    <3> QED BY <2>10, <3>1, EmptySeq DEF EvictDone, TypeOK, AllPC
  <2>11. ASSUME NEW p \in Proc, StopLock(c, p) PROVE TypeOK'
    BY <2>11 DEF StopLock, Expect, TypeOK
  <2>12. ASSUME NEW p \in Proc, StopExited(c, p) PROVE TypeOK'
    BY <2>12 DEF StopExited, LetGo, TypeOK
  <2>13. ASSUME NEW p \in Proc, StopTimeout(c, p) PROVE TypeOK'
    BY <2>13 DEF StopTimeout, LetGo, Dies, TypeOK, Child, Dead
  <2>14. CASE ShutdownEnd(c)
    <3>1. lru' \in Seq(Session)
      BY <2>14, WithoutProperties DEF ShutdownEnd, TypeOK
    <3> QED BY <2>14, <3>1, EmptySeq DEF ShutdownEnd, Return, TypeOK, AllPC
  <2>15. CASE ClearLru(c)
    BY <2>15, EmptySeq DEF ClearLru, TypeOK, AllPC, Stopping
  <2>16. CASE SubscribeLookup(c)
    <3>1. Registered(sid[c]) \subseteq Proc
      BY <2>16, <1>0 DEF SubscribeLookup, PcShape
    <3>2. CASE Registered(sid[c]) = {}
      BY <2>16, <3>2, <1>5 DEF SubscribeLookup, Return, TypeOK, AllPC
    <3>3. CASE Registered(sid[c]) # {}
      BY <2>16, <3>1, <3>3 DEF SubscribeLookup, TypeOK, AllPC
    <3> QED BY <3>2, <3>3
  <2>17. CASE Subscribe(c)
    BY <2>17, EmptySeq DEF Subscribe, Return, TypeOK, AllPC
  <2>18. CASE SendLock(c)
    BY <2>18 DEF SendLock, TypeOK
  <2>19. CASE SendEnd(c)
    BY <2>19, EmptySeq DEF SendEnd, Return, TypeOK, AllPC
  <2> QED BY <1>2, <2>1, <2>2, <2>3, <2>4, <2>5, <2>6, <2>7, <2>8, <2>9, <2>10, <2>11,
             <2>12, <2>13, <2>14, <2>15, <2>16, <2>17, <2>18, <2>19, <2>20 DEF Continue, Stop
<1>3. ASSUME NEW p \in Proc, Runner(p) PROVE TypeOK'
  <2>1. CASE Boot(p) \/ Hang(p)
    <3>1. child' = [child EXCEPT ![p] = "up"] \/ child' = [child EXCEPT ![p] = "hung"]
      BY <2>1 DEF Boot, Hang
    <3>2. UNCHANGED <<registry, phase, task, calls>>
      BY <2>1 DEF Boot, Hang
    <3> QED BY <3>1, <3>2 DEF TypeOK, Child
  <2>2. CASE TurnStart(p) \/ TurnEnd(p) \/ RunComplete(p)
    BY <2>2 DEF TurnStart, TurnEnd, RunComplete, AgentSays, TypeOK
  <2>3. CASE Exit(p) \/ Crash(p)
    <3>1. \E how \in Dead : Dies(p, how)
      BY <2>3 DEF Exit, Crash, Dead
    <3>2. UNCHANGED <<registry, task, calls>>
      BY <2>3 DEF Exit, Crash
    <3> QED BY <3>1, <3>2 DEF Dies, TypeOK, Child
  <2>4. CASE ReaderEof(p)
    BY <2>4 DEF ReaderEof, FlagAtEof, TypeOK
  <2>5. CASE ReaderClose(p)
    BY <2>5 DEF ReaderClose, CloseCode, TypeOK
  <2> QED BY <1>3, <2>1, <2>2, <2>3, <2>4, <2>5 DEF Runner, Read
<1>4. CASE UNCHANGED vars
  BY <1>4 DEF vars, TypeOK
<1> QED BY <1>1, <1>2, <1>3, <1>4 DEF Next

-----------------------------------------------------------------------------
(* Program counters and ownership.                                         *)

\* Locals are in use exactly where the program counter says so.
LEMMA StepPcShape == TypeOK /\ PcShape /\ [Next]_vars => PcShape'
<1> SUFFICES ASSUME TypeOK, PcShape, [Next]_vars PROVE PcShape'
  OBVIOUS
<1> USE DEF registry, os, task, calls, Goto, Take
<1>1. ASSUME NEW c \in Caller, Begin(c) PROVE PcShape'
  <2>1. ASSUME NEW s \in Session, NEW a \in Active, SpawnBegin(c, s, a) PROVE PcShape'
    BY <2>1 DEF SpawnBegin, TypeOK, PcShape, Owning, Stopping
  <2>2. ASSUME NEW s \in Session, ShutdownBegin(c, s) PROVE PcShape'
    BY <2>2 DEF ShutdownBegin, TypeOK, PcShape, Owning, Stopping
  <2>3. ASSUME NEW s \in Session, WatchBegin(c, s) PROVE PcShape'
    BY <2>3 DEF WatchBegin, TypeOK, PcShape, Owning, Stopping
  <2>4. ASSUME NEW s \in Session, SendBegin(c, s) PROVE PcShape'
    BY <2>4 DEF SendBegin, TypeOK, PcShape, Owning, Stopping
  <2>5. CASE ShutdownAll(c)
    BY <2>5 DEF ShutdownAll, TypeOK, PcShape, Owning, Stopping
  <2> QED BY <1>1, <2>1, <2>2, <2>3, <2>4, <2>5 DEF Begin
<1>2. ASSUME NEW c \in Caller, Continue(c) PROVE PcShape'
  <2>1. CASE Fork(c)
    BY <2>1 DEF Fork, TypeOK, PcShape, Owning, Stopping
  <2>2. CASE ForkFails(c)
    BY <2>2 DEF ForkFails, Return, TypeOK, PcShape, Owning, Stopping
  <2>3. CASE Insert(c)
    BY <2>3 DEF Insert, TypeOK, PcShape, Owning, Stopping
  <2>4. CASE Touch(c)
    BY <2>4 DEF Touch, TypeOK, PcShape, Owning, Stopping
  <2>5. CASE Enforce(c)
    BY <2>5 DEF Enforce, TypeOK, PcShape, Owning, Stopping
  <2>6. CASE ScanSkip(c)
    BY <2>6 DEF ScanSkip, TypeOK, PcShape, Owning, Stopping
  <2>7. CASE ScanNext(c)
    BY <2>7 DEF ScanNext, TypeOK, PcShape, Owning, Stopping
  <2>8. CASE Peek(c)
    BY <2>8 DEF Peek, TypeOK, PcShape, Owning, Stopping
  <2>9. CASE ScanEnd(c)
    BY <2>9 DEF ScanEnd, TypeOK, PcShape, Owning, Stopping
  <2>10. CASE Evict(c)
    BY <2>10 DEF Evict, TypeOK, PcShape, Owning, Stopping
  <2>11. CASE EvictDone(c)
    BY <2>11 DEF EvictDone, TypeOK, PcShape, Owning, Stopping
  <2>12. ASSUME NEW p \in Proc, StopLock(c, p) PROVE PcShape'
    BY <2>12 DEF StopLock, TypeOK, PcShape, Owning, Stopping
  <2>13. ASSUME NEW p \in Proc, StopExited(c, p) \/ StopTimeout(c, p) PROVE PcShape'
    <3>1. LetGo(c, p) /\ UNCHANGED <<pc, sid, snap>>
      BY <2>13 DEF StopExited, StopTimeout
    <3> QED BY <3>1 DEF LetGo, TypeOK, PcShape, Owning, Stopping
  <2>14. CASE ShutdownEnd(c) \/ ShutdownAllEnd(c)
    <3>1. Return(c)
      BY <2>14 DEF ShutdownEnd, ShutdownAllEnd
    <3> QED BY <3>1 DEF Return, TypeOK, PcShape, Owning, Stopping
  <2>15. CASE ClearLru(c)
    BY <2>15 DEF ClearLru, TypeOK, PcShape, Owning, Stopping
  <2>16. CASE SubscribeLookup(c)
    <3>1. CASE Registered(sid[c]) = {}
      BY <2>16, <3>1 DEF SubscribeLookup, Return, TypeOK, PcShape, Owning, Stopping
    <3>2. CASE Registered(sid[c]) # {}
      BY <2>16, <3>2 DEF SubscribeLookup, TypeOK, PcShape, Owning, Stopping
    <3> QED BY <3>1, <3>2
  <2>17. CASE Subscribe(c)
    BY <2>17 DEF Subscribe, Return, TypeOK, PcShape, Owning, Stopping
  <2>18. CASE SendLock(c)
    BY <2>18 DEF SendLock, TypeOK, PcShape, Owning, Stopping
  <2>19. CASE SendEnd(c)
    BY <2>19 DEF SendEnd, Return, TypeOK, PcShape, Owning, Stopping
  <2> QED BY <1>2, <2>1, <2>2, <2>3, <2>4, <2>5, <2>6, <2>7, <2>8, <2>9, <2>10, <2>11,
             <2>12, <2>13, <2>14, <2>15, <2>16, <2>17, <2>18, <2>19 DEF Continue, Stop
<1>3. ASSUME NEW p \in Proc, Runner(p) PROVE PcShape'
  <2>1. UNCHANGED calls
    BY <1>3 DEF Runner, Boot, TurnStart, TurnEnd, RunComplete, AgentSays, Exit, Crash, Hang,
       Read, ReaderEof, ReaderClose
  <2> QED BY <2>1 DEF PcShape
<1>4. CASE UNCHANGED vars
  BY <1>4 DEF vars, PcShape
<1> QED BY <1>1, <1>2, <1>3, <1>4 DEF Next

Own == UnbornFresh /\ OwnedOnce

\* Processes only leave hands, no caller becomes an owner, none is unforked.
LEMMA OwnFrame ==
    ASSUME TypeOK, Own,
           processes' = processes,
           \A d \in Caller :
                /\ tgt'[d] \subseteq tgt[d]
                /\ pc'[d] \in Owning => pc[d] \in Owning \/ tgt'[d] = {},
           \A p \in Proc : child'[p] = "unborn" => child[p] = "unborn"
    PROVE  Own'
<1>1. UnbornFresh'
  BY DEF Own, UnbornFresh, Reachable, Mapped
<1>2. \A p \in Proc : Mapped(p)' <=> Mapped(p)
  BY DEF Mapped
<1>3. OwnedOnce'
  BY <1>2 DEF Own, OwnedOnce, Mapped, Owning, TypeOK
<1> QED BY <1>1, <1>3 DEF Own

\* map.remove: what was registered passes to the caller, whole.
LEMMA OwnTakeOut ==
    ASSUME TypeOK, Own, NEW c \in Caller, NEW s \in Session,
           processes' = Unmapped(s), Take(c, Registered(s)),
           \A d \in Caller \ {c} : pc'[d] = pc[d],
           child' = child
    PROVE  Own'
<1>1. \A p \in Registered(s) : p \in Proc /\ processes[s] = p /\ Mapped(p)
  BY RegisteredProc
<1>2. \A p \in Proc : Mapped(p)' => Mapped(p) /\ p \notin Registered(s)
  BY <1>1 DEF Mapped, Unmapped, TypeOK, Own, OwnedOnce, Proc, NoProc
<1>3. \A p \in Proc : ~ (p \in Registered(s) /\ Mapped(p)')
  BY <1>2
<1>4. UnbornFresh'
  BY <1>1, <1>2 DEF Own, UnbornFresh, Reachable, Take, TypeOK
<1>5. \A t, u \in Session : processes'[t] = processes'[u] => t = u \/ processes'[t] = NoProc
  BY DEF Unmapped, TypeOK, Own, OwnedOnce
<1>6. ASSUME NEW d \in Caller, NEW p \in tgt'[d], pc'[d] \in Owning
      PROVE  /\ ~Mapped(p)'
             /\ \A e \in Caller \ {d} : p \in tgt'[e] => pc'[e] \notin Owning
  <2>0. p \in Proc
    BY <1>1 DEF TypeOK, Take
  <2>1. CASE d = c
    <3>1. p \in Registered(s)
      BY <2>1 DEF Take, TypeOK
    <3>2. \A e \in Caller \ {c} : p \in tgt[e] => pc[e] \notin Owning
      BY <3>1, <1>1 DEF Own, OwnedOnce, Owning
    <3> QED BY <2>1, <3>1, <3>2, <1>3, <2>0 DEF Take, TypeOK
  <2>2. CASE d # c
    <3>1. p \in tgt[d] /\ pc[d] \in Owning
      BY <2>2, <1>6 DEF Take, TypeOK
    <3>2. ~Mapped(p) /\ \A e \in Caller \ {d} : p \in tgt[e] => pc[e] \notin Owning
      BY <3>1 DEF Own, OwnedOnce, Owning
    <3>3. p \notin Registered(s)
      BY <3>2, <1>1
    <3> QED BY <3>2, <3>3, <1>2, <2>0 DEF Take, TypeOK
  <2> QED BY <2>1, <2>2
<1>7. OwnedOnce'
  BY <1>5, <1>6 DEF OwnedOnce, Owning
<1> QED BY <1>4, <1>7 DEF Own

\* map.get: a caller that is not an owner borrows what is registered.
LEMMA OwnBorrow ==
    ASSUME TypeOK, Own, NEW c \in Caller, NEW s \in Session,
           processes' = processes, Take(c, Registered(s)),
           pc'[c] \notin Owning, \A d \in Caller \ {c} : pc'[d] = pc[d],
           child' = child
    PROVE  Own'
<1>1. \A p \in Registered(s) : p \in Proc /\ Mapped(p)
  BY RegisteredProc
<1>2. \A p \in Proc : Mapped(p)' <=> Mapped(p)
  BY DEF Mapped
<1>3. UnbornFresh'
  BY <1>1, <1>2 DEF Own, UnbornFresh, Reachable, Take, TypeOK
<1>4. ASSUME NEW d \in Caller, NEW p \in tgt'[d], pc'[d] \in Owning
      PROVE  /\ ~Mapped(p)'
             /\ \A e \in Caller \ {d} : p \in tgt'[e] => pc'[e] \notin Owning
  <2>1. d # c /\ p \in tgt[d] /\ pc[d] \in Owning /\ p \in Proc
    BY <1>4 DEF Take, TypeOK
  <2>2. ~Mapped(p) /\ \A e \in Caller \ {d} : p \in tgt[e] => pc[e] \notin Owning
    BY <2>1 DEF Own, OwnedOnce, Owning
  <2> QED BY <2>1, <2>2, <1>2 DEF Take, TypeOK
<1>5. OwnedOnce'
  BY <1>4 DEF OwnedOnce, Owning, Own
<1> QED BY <1>3, <1>5 DEF Own

\* map.remove and map.insert hand a process from one owner to the next.
LEMMA StepOwn == TypeOK /\ PcShape /\ Own /\ [Next]_vars => Own'
<1> SUFFICES ASSUME TypeOK, PcShape, Own, [Next]_vars PROVE Own'
  OBVIOUS
<1> USE DEF registry, os, task, calls, Goto
<1>1. ASSUME NEW c \in Caller, Begin(c) PROVE Own'
  <2>1. ASSUME NEW s \in Session, NEW a \in Active, SpawnBegin(c, s, a) PROVE Own'
    BY <2>1, OwnTakeOut DEF SpawnBegin, TypeOK
  <2>2. ASSUME NEW s \in Session, ShutdownBegin(c, s) PROVE Own'
    BY <2>2, OwnTakeOut DEF ShutdownBegin, TypeOK
  <2>3. ASSUME NEW s \in Session, WatchBegin(c, s) PROVE Own'
    BY <2>3, OwnFrame DEF WatchBegin, TypeOK, Owning, Stopping
  <2>4. ASSUME NEW s \in Session, SendBegin(c, s) PROVE Own'
    BY <2>4, OwnBorrow DEF SendBegin, TypeOK, Owning, Stopping
  <2>5. CASE ShutdownAll(c)
    <3>1. \A p \in Proc : ~Mapped(p)'
      BY <2>5 DEF ShutdownAll, Mapped, Proc, NoProc
    <3>2. \A p \in Proc : p \in tgt'[c] <=> Mapped(p)
      BY <2>5 DEF ShutdownAll, Take, Mapped, TypeOK, Proc, NoProc
    <3>3. UnbornFresh'
      BY <2>5, <3>1, <3>2 DEF ShutdownAll, Take, Own, UnbornFresh, Reachable, TypeOK
    <3>4. ASSUME NEW d \in Caller, NEW p \in tgt'[d], pc'[d] \in Owning
          PROVE  /\ ~Mapped(p)'
                 /\ \A e \in Caller \ {d} : p \in tgt'[e] => pc'[e] \notin Owning
      <4>1. p \in Proc
        BY <2>5 DEF ShutdownAll, Take, TypeOK
      <4>2. CASE d = c
        <5>1. Mapped(p)
          BY <3>2, <4>1, <4>2
        <5>2. \A e \in Caller \ {c} : p \in tgt[e] => pc[e] \notin Owning
          BY <5>1 DEF Own, OwnedOnce, Owning
        <5> QED BY <2>5, <3>1, <4>1, <4>2, <5>2 DEF ShutdownAll, Take, TypeOK
      <4>3. CASE d # c
        <5>1. p \in tgt[d] /\ pc[d] \in Owning
          BY <2>5, <3>4, <4>3 DEF ShutdownAll, Take, TypeOK
        <5>2. ~Mapped(p) /\ \A e \in Caller \ {d} : p \in tgt[e] => pc[e] \notin Owning
          BY <5>1 DEF Own, OwnedOnce, Owning
        <5>3. p \notin tgt'[c]
          BY <3>2, <4>1, <5>2
        <5> QED BY <2>5, <3>1, <4>1, <5>2, <5>3 DEF ShutdownAll, Take, TypeOK
      <4> QED BY <4>2, <4>3
    <3>5. OwnedOnce'
      BY <2>5, <3>4 DEF ShutdownAll, OwnedOnce, Owning
    <3> QED BY <3>3, <3>5 DEF Own
  <2> QED BY <1>1, <2>1, <2>2, <2>3, <2>4, <2>5 DEF Begin
<1>2. ASSUME NEW c \in Caller, Continue(c) PROVE Own'
  <2>1. CASE Fork(c)
    <3>1. PICK p \in Unborn : /\ child' = [child EXCEPT ![p] = "booting"]
                              /\ tgt' = [tgt EXCEPT ![c] = {p}]
      BY <2>1 DEF Fork, Take
    <3>2. p \in Proc /\ ~Mapped(p) /\ \A d \in Caller : p \notin tgt[d]
      BY <3>1 DEF Unborn, Own, UnbornFresh, Reachable
    <3>3. \A q \in Proc : Mapped(q)' <=> Mapped(q)
      BY <2>1 DEF Fork, Mapped
    <3>4. UnbornFresh'
      BY <3>1, <3>2, <3>3 DEF Own, UnbornFresh, Reachable, TypeOK
    <3>5. ASSUME NEW d \in Caller, NEW q \in tgt'[d], pc'[d] \in Owning
          PROVE  /\ ~Mapped(q)'
                 /\ \A e \in Caller \ {d} : q \in tgt'[e] => pc'[e] \notin Owning
      <4>1. CASE d = c
        BY <2>1, <3>1, <3>2, <3>3, <4>1 DEF TypeOK
      <4>2. CASE d # c
        <5>1. q \in tgt[d] /\ pc[d] \in Owning /\ q # p /\ q \in Proc
          BY <2>1, <3>1, <3>2, <3>5, <4>2 DEF Fork, TypeOK
        <5>2. ~Mapped(q) /\ \A e \in Caller \ {d} : q \in tgt[e] => pc[e] \notin Owning
          BY <5>1 DEF Own, OwnedOnce, Owning
        <5> QED BY <2>1, <3>1, <3>3, <5>1, <5>2 DEF Fork, TypeOK
      <4> QED BY <4>1, <4>2
    <3>6. OwnedOnce'
      BY <2>1, <3>5 DEF Fork, OwnedOnce, Owning, Own
    <3> QED BY <3>4, <3>6 DEF Own
  <2>2. CASE Insert(c)
    <3>1. PICK p \in tgt[c] : processes' = [processes EXCEPT ![sid[c]] = p]
      BY <2>2 DEF Insert
    <3>2. /\ p \in Proc /\ pc[c] \in Owning /\ sid[c] \in Session
          /\ ~Mapped(p) /\ \A e \in Caller \ {c} : p \in tgt[e] => pc[e] \notin Owning
      BY <2>2 DEF Insert, TypeOK, PcShape, Own, OwnedOnce, Owning
    <3>3. \A q \in Proc : Mapped(q)' => Mapped(q) \/ q = p
      BY <3>1, <3>2 DEF Mapped, TypeOK
    <3>4. UnbornFresh'
      BY <2>2, <3>2, <3>3 DEF Insert, Take, Own, UnbornFresh, Reachable, TypeOK
    <3>5. \A t, u \in Session : processes'[t] = processes'[u] => t = u \/ processes'[t] = NoProc
      BY <3>1, <3>2 DEF Mapped, Own, OwnedOnce, TypeOK
    <3>6. ASSUME NEW d \in Caller, NEW q \in tgt'[d], pc'[d] \in Owning
          PROVE  /\ ~Mapped(q)'
                 /\ \A e \in Caller \ {d} : q \in tgt'[e] => pc'[e] \notin Owning
      <4>1. d # c /\ q \in tgt[d] /\ pc[d] \in Owning /\ q \in Proc
        BY <2>2, <3>6 DEF Insert, Take, TypeOK, Owning, Stopping
      <4>2. ~Mapped(q) /\ \A e \in Caller \ {d} : q \in tgt[e] => pc[e] \notin Owning
        BY <4>1 DEF Own, OwnedOnce, Owning
      <4>3. q # p
        BY <3>2, <4>1
      <4> QED BY <2>2, <3>3, <4>1, <4>2, <4>3 DEF Insert, Take, TypeOK
    <3>7. OwnedOnce'
      BY <3>5, <3>6 DEF OwnedOnce, Owning
    <3> QED BY <3>4, <3>7 DEF Own
  <2>3. CASE ForkFails(c) \/ ShutdownEnd(c) \/ ShutdownAllEnd(c) \/ Subscribe(c) \/ SendEnd(c)
    <3>1. Return(c) /\ UNCHANGED <<processes, child>>
      BY <2>3 DEF ForkFails, ShutdownEnd, ShutdownAllEnd, Subscribe, SendEnd
    <3> QED BY <3>1, OwnFrame DEF Return, Take, TypeOK, Owning, Stopping
  <2>4. CASE Touch(c) \/ Enforce(c) \/ ScanEnd(c) \/ ScanSkip(c) \/ Peek(c)
    <3>1. /\ UNCHANGED <<processes, child>>
          /\ pc' = pc \/ \E x \in {"enforce", "subscribe", "scan", "evict"} : pc' = [pc EXCEPT ![c] = x]
      BY <2>4 DEF Touch, Enforce, ScanEnd, ScanSkip, Peek
    <3>2. tgt' = tgt \/ tgt' = [tgt EXCEPT ![c] = {}]
      BY <2>4 DEF Touch, Enforce, ScanEnd, ScanSkip, Peek, Take
    <3> QED BY <3>1, <3>2, OwnFrame DEF TypeOK, Owning, Stopping
  <2>5. CASE ScanNext(c)
    <3>1. Head(snap[c]) \in Session
      BY <2>5, SnapHead DEF ScanNext
    <3> QED BY <2>5, <3>1, OwnBorrow DEF ScanNext, TypeOK, Owning, Stopping
  <2>6. CASE Evict(c)
    <3>1. Head(snap[c]) \in Session
      BY <2>6, SnapHead DEF Evict, PcShape
    <3> QED BY <2>6, <3>1, OwnTakeOut DEF Evict, TypeOK
  <2>7. CASE EvictDone(c) \/ SendLock(c) \/ \E p \in Proc : StopLock(c, p)
    <3>1. UNCHANGED <<processes, child, tgt>>
      BY <2>7 DEF EvictDone, SendLock, StopLock
    <3>2. pc' = pc \/ pc' = [pc EXCEPT ![c] = "enforce"]
      BY <2>7 DEF EvictDone, SendLock, StopLock
    <3> QED BY <3>1, <3>2, OwnFrame DEF TypeOK, Owning, Stopping
  <2>8. ASSUME NEW p \in Proc, StopExited(c, p) \/ StopTimeout(c, p) PROVE Own'
    <3>1. LetGo(c, p) /\ UNCHANGED <<processes, pc>>
      BY <2>8 DEF StopExited, StopTimeout
    <3>2. child' = child \/ child' = [child EXCEPT ![p] = "killed"]
      BY <2>8 DEF StopExited, StopTimeout, Dies
    <3> QED BY <3>1, <3>2, OwnFrame DEF LetGo, TypeOK
  <2>9. CASE ClearLru(c)
    BY <2>9, OwnFrame DEF ClearLru, TypeOK, Owning
  <2>10. CASE SubscribeLookup(c)
    <3>1. sid[c] \in Session
      BY <2>10 DEF SubscribeLookup, PcShape
    <3>2. CASE Registered(sid[c]) = {}
      <4>1. Return(c) /\ UNCHANGED <<processes, child>>
        BY <2>10, <3>2 DEF SubscribeLookup
      <4> QED BY <4>1, OwnFrame DEF Return, Take, TypeOK, Owning, Stopping
    <3>3. CASE Registered(sid[c]) # {}
      BY <2>10, <3>1, <3>3, OwnBorrow DEF SubscribeLookup, TypeOK, Owning, Stopping
    <3> QED BY <3>2, <3>3
  <2> QED BY <1>2, <2>1, <2>2, <2>3, <2>4, <2>5, <2>6, <2>7, <2>8, <2>9, <2>10
      DEF Continue, Stop
<1>3. ASSUME NEW p \in Proc, Runner(p) PROVE Own'
  <2>1. UNCHANGED <<processes, calls>>
    BY <1>3 DEF Runner, Boot, TurnStart, TurnEnd, RunComplete, AgentSays, Exit, Crash, Hang,
       Read, ReaderEof, ReaderClose
  <2>2. child' = child \/ \E x \in {"up", "hung"} \cup Dead : child' = [child EXCEPT ![p] = x]
    BY <1>3 DEF Runner, Boot, TurnStart, TurnEnd, RunComplete, AgentSays, Exit, Crash, Dies,
       Hang, Read, ReaderEof, ReaderClose, Dead
  <2> QED BY <2>1, <2>2, OwnFrame DEF TypeOK, Dead
<1>4. CASE UNCHANGED vars
  BY <1>4, OwnFrame DEF vars
<1> QED BY <1>1, <1>2, <1>3, <1>4 DEF Next

-----------------------------------------------------------------------------
(* Closing: nobody is killed unasked, and the close report tells.          *)

Closing == StopIsExpected /\ DeliberateCloseIsClean

\* expected_close is set before the kill and read after the death.
LEMMA StepClosing == TypeOK /\ PcShape /\ Closing /\ [Next]_vars => Closing'
<1> SUFFICES ASSUME TypeOK, PcShape, Closing, [Next]_vars PROVE Closing'
  OBVIOUS
<1> USE DEF registry, os, task, calls, Goto, Take, Closing, StopIsExpected,
        DeliberateCloseIsClean
\* A call that leaves child, reader and subscriptions alone and holds no mutex.
<1>0. ASSUME NEW c \in Caller,
             UNCHANGED <<child, task>>,
             \A d \in Caller \ {c} : pc'[d] = pc[d] /\ held'[d] = held[d],
             pc'[c] \in Stopping => held'[c] = {}
      PROVE  Closing'
  BY <1>0 DEF TypeOK
<1>1. ASSUME NEW c \in Caller, Begin(c) PROVE Closing'
  <2>1. held[c] = {}
    BY <1>1 DEF Begin, SpawnBegin, ShutdownBegin, WatchBegin, SendBegin, ShutdownAll, PcShape,
       Stopping
  <2>2. UNCHANGED <<child, task, held>> /\ \E x \in AllPC : pc' = [pc EXCEPT ![c] = x]
    BY <1>1 DEF Begin, SpawnBegin, ShutdownBegin, WatchBegin, SendBegin, ShutdownAll, AllPC,
       Stopping
  <2> QED BY <2>1, <2>2, <1>0 DEF TypeOK
<1>2. ASSUME NEW c \in Caller, Continue(c) PROVE Closing'
  <2>1. CASE Fork(c)
    <3>1. PICK p \in Proc : child[p] = "unborn" /\ child' = [child EXCEPT ![p] = "booting"]
      BY <2>1 DEF Fork, Unborn
    <3>2. reader[p] = "reading" /\ rx[p] # "abnormal"
      BY <3>1 DEF Dead, TypeOK
    <3>3. pc'[c] \notin Stopping /\ \A d \in Caller \ {c} : pc'[d] = pc[d]
      BY <2>1 DEF Fork, Stopping, TypeOK
    <3> QED BY <2>1, <3>1, <3>2, <3>3 DEF Fork, TypeOK
  <2>2. CASE ForkFails(c) \/ ShutdownEnd(c) \/ ShutdownAllEnd(c) \/ SendEnd(c)
    <3>1. Return(c) /\ UNCHANGED <<child, task>>
      BY <2>2 DEF ForkFails, ShutdownEnd, ShutdownAllEnd, SendEnd
    <3> QED BY <3>1, <1>0 DEF Return, TypeOK
  <2>3. CASE \/ Insert(c) \/ Touch(c) \/ Enforce(c) \/ ScanSkip(c) \/ ScanNext(c) \/ Peek(c)
             \/ ScanEnd(c) \/ Evict(c) \/ ClearLru(c)
    <3>1. UNCHANGED <<child, task, held>> /\ \E x \in AllPC : pc' = [pc EXCEPT ![c] = x]
      <4>1. CASE Insert(c) \/ Touch(c) \/ Enforce(c) \/ ScanEnd(c) \/ Evict(c) \/ ClearLru(c)
        BY <4>1 DEF Insert, Touch, Enforce, ScanEnd, Evict, ClearLru, AllPC, Stopping
      <4>2. CASE ScanSkip(c) \/ ScanNext(c) \/ Peek(c)
        <5>1. UNCHANGED <<child, task, held>>
          BY <4>2 DEF ScanSkip, ScanNext, Peek
        <5>2. pc' = pc \/ \E x \in AllPC : pc' = [pc EXCEPT ![c] = x]
          BY <4>2 DEF ScanSkip, ScanNext, Peek, AllPC
        <5>3. pc' = pc => pc' = [pc EXCEPT ![c] = pc[c]] /\ pc[c] \in AllPC
          BY DEF TypeOK
        <5> QED BY <5>1, <5>2, <5>3
      <4> QED BY <2>3, <4>1, <4>2
    <3>2. held[c] = {}
      BY <2>3 DEF Insert, Touch, Enforce, ScanSkip, ScanNext, Peek, ScanEnd, Evict, ClearLru,
         PcShape, Stopping
    <3> QED BY <3>1, <3>2, <1>0 DEF TypeOK
  <2>4. CASE EvictDone(c)
    <3>1. /\ UNCHANGED <<child, task, held>>
          /\ pc'[c] \notin Stopping /\ \A d \in Caller \ {c} : pc'[d] = pc[d]
      BY <2>4 DEF EvictDone, Stopping, TypeOK
    <3> QED BY <3>1, <1>0
  <2>5. ASSUME NEW p \in Proc, StopLock(c, p) PROVE Closing'
    BY <2>5 DEF StopLock, Expect, TypeOK
  <2>6. ASSUME NEW p \in Proc, StopExited(c, p) PROVE Closing'
    BY <2>6 DEF StopExited, LetGo, TypeOK
  <2>7. ASSUME NEW p \in Proc, StopTimeout(c, p) PROVE Closing'
    <3>1. expected[p] /\ child[p] \notin Dead /\ reader[p] = "reading" /\ rx[p] # "abnormal"
      BY <2>7 DEF StopTimeout, Live, Dead, TypeOK
    <3>2. child' = child \/ child' = [child EXCEPT ![p] = "killed"]
      BY <2>7 DEF StopTimeout, Dies
    <3>3. UNCHANGED <<task, pc>> /\ held' = [held EXCEPT ![c] = @ \ {p}]
      BY <2>7 DEF StopTimeout, LetGo
    <3>4. StopIsExpected'
      BY <3>1, <3>2, <3>3 DEF TypeOK, Dead
    <3>5. DeliberateCloseIsClean'
      BY <3>1, <3>2, <3>3 DEF TypeOK
    <3> QED BY <3>4, <3>5
  <2>8. CASE SubscribeLookup(c)
    <3>1. UNCHANGED <<child, task>> /\ pc'[c] \notin Stopping
          /\ \A d \in Caller \ {c} : pc'[d] = pc[d] /\ held'[d] = held[d]
      BY <2>8 DEF SubscribeLookup, Return, Stopping, TypeOK
    <3> QED BY <3>1, <1>0
  <2>9. CASE Subscribe(c)
    <3>1. PICK p \in Proc : rx' = [rx EXCEPT ![p] = "open"]
      BY <2>9 DEF Subscribe, TypeOK
    <3>2. pc'[c] \notin Stopping /\ \A d \in Caller \ {c} : pc'[d] = pc[d] /\ held'[d] = held[d]
      BY <2>9 DEF Subscribe, Return, Stopping, TypeOK
    <3> QED BY <2>9, <3>1, <3>2 DEF Subscribe, TypeOK
  <2>10. CASE SendLock(c)
    <3>1. UNCHANGED <<child, task, pc>> /\ pc[c] \notin Stopping
          /\ \A d \in Caller \ {c} : held'[d] = held[d]
      BY <2>10 DEF SendLock, Stopping, TypeOK
    <3> QED BY <3>1, <1>0
  <2> QED BY <1>2, <2>1, <2>2, <2>3, <2>4, <2>5, <2>6, <2>7, <2>8, <2>9, <2>10
      DEF Continue, Stop
<1>3. ASSUME NEW p \in Proc, Runner(p) PROVE Closing'
  <2>1. CASE Boot(p) \/ Hang(p)
    <3>1. /\ child[p] \notin Dead \cup {"killed", "crashed"}
          /\ \/ child' = [child EXCEPT ![p] = "up"]
             \/ child' = [child EXCEPT ![p] = "hung"]
          /\ UNCHANGED <<task, calls>>
      BY <2>1 DEF Boot, Hang, Dead
    <3>2. reader[p] = "reading" /\ rx[p] # "abnormal"
      BY <3>1 DEF TypeOK
    <3> QED BY <3>1, <3>2 DEF TypeOK
  <2>2. CASE TurnStart(p) \/ TurnEnd(p) \/ RunComplete(p)
    <3>1. /\ child[p] = "up" /\ \E flag \in BOOLEAN : running' = [running EXCEPT ![p] = flag]
          /\ UNCHANGED <<child, expected, reader, rx, calls>>
      BY <2>2 DEF TurnStart, TurnEnd, RunComplete, AgentSays
    <3> QED BY <3>1 DEF TypeOK, Dead
  <2>3. CASE Exit(p) \/ Crash(p)
    <3>1. /\ child[p] \notin Dead
          /\ child' = [child EXCEPT ![p] = "exited"] \/ child' = [child EXCEPT ![p] = "crashed"]
          /\ UNCHANGED <<task, calls>>
      BY <2>3 DEF Exit, Crash, Dies, Live, Dead
    <3>2. reader[p] = "reading" /\ rx[p] # "abnormal"
      BY <3>1 DEF TypeOK, Dead
    <3> QED BY <3>1, <3>2 DEF TypeOK, Dead
  <2>4. CASE ReaderEof(p)
    BY <2>4 DEF ReaderEof, FlagAtEof, TypeOK
  <2>5. CASE ReaderClose(p)
    <3>1. child[p] \in Dead /\ (child[p] = "killed" => expected[p])
      BY <2>5 DEF ReaderClose
    <3>2. CloseCode(p) = "abnormal" => child[p] = "crashed"
      BY <3>1 DEF CloseCode, Dead
    <3> QED BY <2>5, <3>1, <3>2 DEF ReaderClose, TypeOK
  <2> QED BY <1>3, <2>1, <2>2, <2>3, <2>4, <2>5 DEF Runner, Read
<1>4. CASE UNCHANGED vars
  BY <1>4 DEF vars
<1> QED BY <1>1, <1>2, <1>3, <1>4 DEF Next

-----------------------------------------------------------------------------
(* The LRU lists a session once.                                           *)

\* retain and push keep a session at one place of the LRU.
LEMMA StepLruNoDup == TypeOK /\ PcShape /\ LruNoDup /\ [Next]_vars => LruNoDup'
<1> SUFFICES ASSUME TypeOK, PcShape, NoDup(lru), [Next]_vars PROVE NoDup(lru')
  BY DEF LruNoDup, NoDup
<1>1. lru \in Seq(Session)
  BY DEF TypeOK
<1>2. ASSUME NEW c \in Caller, Begin(c) \/ Continue(c) PROVE NoDup(lru')
  <2>1. CASE Touch(c)
    BY <2>1, <1>1, TouchedProperties DEF Touch, PcShape
  <2>2. CASE EvictDone(c)
    BY <2>2, <1>1, WithoutProperties DEF EvictDone, AfterEviction
  <2>3. CASE ShutdownEnd(c)
    BY <2>3, <1>1, WithoutProperties DEF ShutdownEnd
  <2>4. CASE ClearLru(c)
    BY <2>4, EmptySeq DEF ClearLru, NoDup
  <2>5. CASE ~(Touch(c) \/ EvictDone(c) \/ ShutdownEnd(c) \/ ClearLru(c))
    <3>1. CASE Begin(c)
      BY <3>1 DEF Begin, SpawnBegin, ShutdownBegin, WatchBegin, SendBegin, ShutdownAll, registry
    <3>2. CASE Continue(c)
      BY <3>2, <2>5 DEF Continue, Fork, ForkFails, Insert, Enforce, ScanSkip, ScanNext, Peek,
         ScanEnd, Evict, Stop, StopLock, StopExited, StopTimeout, ShutdownAllEnd,
         SubscribeLookup, Subscribe, SendLock, SendEnd, registry
    <3> QED BY <1>2, <3>1, <3>2
  <2> QED BY <2>1, <2>2, <2>3, <2>4, <2>5
<1>3. ASSUME NEW p \in Proc, Runner(p) PROVE NoDup(lru')
  BY <1>3 DEF Runner, Boot, TurnStart, TurnEnd, RunComplete, AgentSays, Exit, Crash, Hang,
     Read, ReaderEof, ReaderClose, registry
<1>4. CASE UNCHANGED vars
  BY <1>4 DEF vars, registry
<1> QED BY <1>2, <1>3, <1>4 DEF Next

-----------------------------------------------------------------------------
(* The theorems.                                                           *)

\* Every step of the pool keeps the inductive invariant.
THEOREM StepIInv == IInv /\ [Next]_vars => IInv'
BY StepTypeOK, StepPcShape, StepOwn, StepClosing, StepLruNoDup DEF IInv, Own, Closing

\* The inductive invariant holds of every reachable state.
THEOREM Invariance == Spec => []IInv
BY InitIInv, StepIInv, PTL DEF Spec

\* The pool's variables keep their types.
THEOREM PoolTypes == Spec => []TypeOK
<1>1. IInv => TypeOK
  BY DEF IInv
<1> QED BY Invariance, <1>1, PTL

\* Every process has one owner at a time: two callers never stop the same
\* process, and a registered one is never being stopped.
THEOREM ProcessOwnedOnce == Spec => []OwnedOnce
<1>1. IInv => OwnedOnce
  BY DEF IInv
<1> QED BY Invariance, <1>1, PTL

\* A close that Yole brought about is never reported as a crash.
THEOREM DeliberateCloseClean == Spec => []DeliberateCloseIsClean
<1>1. IInv => DeliberateCloseIsClean
  BY DEF IInv
<1> QED BY Invariance, <1>1, PTL

\* A runner reported closed does not count as mid-turn.
THEOREM NoStaleProtectionHolds == Spec => []NoStaleProtection
<1>1. IInv => NoStaleProtection
  BY DEF IInv, StopIsExpected, NoStaleProtection
<1> QED BY Invariance, <1>1, PTL

\* The length enforce_cap compares with the cap counts sessions.
THEOREM LruListsOnce == Spec => []LruNoDup
<1>1. IInv => LruNoDup
  BY DEF IInv
<1> QED BY Invariance, <1>1, PTL

\* Whoever stops a process, replacement by spawn excepted, leaves it dead.
THEOREM StoppedAreDead == Spec => StoppedIsDead
<1>1. IInv /\ [Next]_vars =>
        [\A c \in Caller, p \in Proc :
            pc[c] \in Stopping \ {"replace"} /\ p \in tgt[c] /\ p \notin tgt'[c]
                => child'[p] \in Dead]_vars
  <2> SUFFICES ASSUME IInv, Next, NEW c \in Caller, NEW p \in Proc,
                      pc[c] \in Stopping \ {"replace"}, p \in tgt[c], p \notin tgt'[c]
               PROVE  child'[p] \in Dead
    BY DEF IInv
  <2>0. TypeOK /\ PcShape
    BY DEF IInv
  <2>1. ASSUME NEW q \in Proc, Runner(q) PROVE FALSE
    BY <2>1 DEF Runner, Boot, TurnStart, TurnEnd, RunComplete, AgentSays, Exit, Crash, Hang,
       Read, ReaderEof, ReaderClose, calls
  <2>2. ASSUME NEW d \in Caller, Begin(d) PROVE FALSE
    BY <2>2, <2>0 DEF Begin, SpawnBegin, ShutdownBegin, WatchBegin, SendBegin, ShutdownAll, Take,
       Stopping, TypeOK
  <2>3. ASSUME NEW d \in Caller, Continue(d) PROVE child'[p] \in Dead
    <3>1. CASE \E q \in Proc : StopExited(d, q) \/ StopTimeout(d, q)
      <4>1. PICK q \in Proc : StopExited(d, q) \/ StopTimeout(d, q)
        BY <3>1
      <4>2. d = c /\ q = p
        BY <4>1, <2>0 DEF StopExited, StopTimeout, LetGo, TypeOK
      <4>3. CASE StopExited(d, q)
        BY <4>2, <4>3 DEF StopExited, os
      <4>4. CASE StopTimeout(d, q)
        <5>1. child' = [child EXCEPT ![p] = "killed"]
          BY <4>2, <4>4 DEF StopTimeout, KillsOnTimeout, Dies
        <5> QED BY <5>1, <2>0 DEF TypeOK, Dead
      <4> QED BY <4>1, <4>3, <4>4
    <3>2. CASE ~ \E q \in Proc : StopExited(d, q) \/ StopTimeout(d, q)
      <4>1. \/ tgt' = tgt
            \/ /\ \E ps : tgt' = [tgt EXCEPT ![d] = ps]
               /\ pc[d] \notin Stopping \/ tgt[d] = {} \/ pc[d] = "replace"
        BY <2>3, <3>2 DEF Continue, Fork, ForkFails, Insert, Touch, Enforce, ScanSkip, ScanNext,
           Peek, ScanEnd, Evict, EvictDone, Stop, StopLock, ShutdownEnd, ClearLru,
           ShutdownAllEnd, SubscribeLookup, Subscribe, SendLock, SendEnd, Return, Take, Goto,
           Stopping, calls
      <4> QED BY <4>1, <2>0 DEF TypeOK
    <3> QED BY <3>1, <3>2
  <2> QED BY <2>1, <2>2, <2>3 DEF Next
<1> QED BY Invariance, <1>1, PTL DEF Spec, StoppedIsDead

=============================================================================
