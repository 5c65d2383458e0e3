------------------------------- MODULE Picking -------------------------------
(***************************************************************************)
(* Parts of a sequence by their places, without recursion: shared by the   *)
(* modules that filter sequences and are proved about.                     *)
(***************************************************************************)
EXTENDS Naturals, FiniteSets

\* What s has at the places S, in their order.
Picked(s, S) ==
    [n \in 1 .. Cardinality(S) |-> s[CHOOSE i \in S : Cardinality({k \in S : k <= i}) = n]]
=============================================================================
