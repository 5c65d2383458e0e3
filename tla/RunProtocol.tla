---------------------------- MODULE RunProtocol ----------------------------
(***************************************************************************)
(* What a frontend may rely on while one user message runs                 *)
(* (docs/ipc-protocol.md, sections 4 and 9): turns are announced and end   *)
(* in order, the run ends once, and nothing of it follows its end.         *)
(***************************************************************************)
EXTENDS Naturals

VARIABLES
    running,  \* the frontend shows the session as working
    shown,    \* the turn it shows, 0 for none
    ended     \* the last turn of this run that ended

Init == running = FALSE /\ shown = 0 /\ ended = 0

Submit ==
    /\ ~running
    /\ running' = TRUE /\ shown' = 0 /\ ended' = 0

Announce ==
    /\ running /\ shown # ended + 1
    /\ shown' = ended + 1
    /\ UNCHANGED <<running, ended>>

\* The next turn is announced with the end of the one before it.
EndTurn ==
    /\ running
    /\ ended' = ended + 1 /\ shown' = ended + 2
    /\ UNCHANGED running

Complete ==
    /\ running /\ shown = ended + 1
    /\ running' = FALSE /\ shown' = 0 /\ ended' = ended + 1

Next == Submit \/ Announce \/ EndTurn \/ Complete

vars == <<running, shown, ended>>

Orderly == Init /\ [][Next]_vars

\* And a run comes to its end.
Spec == Orderly /\ (running ~> ~running)
=============================================================================
