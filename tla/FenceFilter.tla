----------------------------- MODULE FenceFilter -----------------------------
(***************************************************************************)
(* _FenceFilter of runner/yole_bridge.py: what a run streams reaches the   *)
(* desktop without the tool output between fences.  A fence is a row of    *)
(* ticks and a newline; chunks may end anywhere, inside a fence too.       *)
(***************************************************************************)
EXTENDS Sequences, Picking

CONSTANTS Ticks,        \* ticks of a fence (five in the code)
          MaxFed,       \* bound: characters of a task
          MaxChunk      \* bound: characters of a chunk

ASSUME FenceAssumption == Ticks \in Nat \ {0} /\ MaxFed \in Nat /\ MaxChunk \in Nat

VARIABLES
    fed,       \* the characters fed so far
    inside,    \* self.inside
    carry,     \* self.carry
    text,      \* feed(): carry + delta, <<>> between calls
    from,      \* feed(): the position i it searches from
    emitted    \* what feed() has returned or will return
dvars == <<fed, inside, carry, text, from, emitted>>

Char == {"tick", "newline", "other"}
Fence == [i \in 1 .. Ticks + 1 |-> IF i <= Ticks THEN "tick" ELSE "newline"]
FenceAt(s, i) == SubSeq(s, i, i + Ticks) = Fence
Fences(s) == {i \in 1 .. Len(s) - Ticks : FenceAt(s, i)}

FilterInit ==
    /\ fed = <<>>
    /\ inside = FALSE
    /\ carry = <<>>
    /\ text = <<>>
    /\ from = 1
    /\ emitted = <<>>

Feed(delta) ==
    /\ text = <<>>
    /\ Len(fed) + Len(delta) <= MaxFed
    /\ fed' = fed \o delta
    /\ text' = carry \o delta
    /\ carry' = <<>>
    /\ from' = 1
    /\ UNCHANGED <<inside, emitted>>

Emitted(a, b) == IF inside THEN emitted ELSE emitted \o SubSeq(text, a, b)

\* The leftmost fence that is left in the text flips the state.
Flip ==
    /\ text # <<>>
    /\ \E j \in Fences(text) :
          /\ j >= from
          /\ \A k \in Fences(text) : k >= from => j <= k
          /\ emitted' = Emitted(from, j - 1)
          /\ from' = j + Ticks + 1
    /\ inside' = ~inside
    /\ UNCHANGED <<fed, carry, text>>

\* Ends of the rest that may be the beginning of a fence; the longest is kept.
\* MUTANT: one character short
ShortMarker(n) == n \in 1 .. Ticks - 1
PartialMarker(n) == n \in 1 .. Ticks
Held ==
    {n \in 0 .. Len(text) - from + 1 :
        /\ n = 0 \/ PartialMarker(n)
        /\ SubSeq(text, Len(text) - n + 1, Len(text)) = SubSeq(Fence, 1, n)}
Stash ==
    /\ text # <<>>
    /\ \A j \in Fences(text) : j < from
    /\ \E n \in Held :
          /\ \A m \in Held : m <= n
          /\ carry' = SubSeq(text, Len(text) - n + 1, Len(text))
          /\ emitted' = Emitted(from, Len(text) - n)
    /\ text' = <<>>
    /\ from' = 1
    /\ UNCHANGED <<fed, inside>>

FilterNext ==
    \/ \E n \in 1 .. MaxChunk : \E delta \in [1 .. n -> Char] : Feed(delta)
    \/ Flip
    \/ Stash
-----------------------------------------------------------------------------
\* The text itself says what should be seen of its first d characters: what is
\* no part of a fence and has an even number of fences before it.
Seen(s, d) ==
    {i \in 1 .. d :
        /\ \A j \in Fences(s) : i \notin j .. j + Ticks
        /\ Cardinality({j \in Fences(s) : j < i}) % 2 = 0}
Visible(s) == Picked(s, Seen(s, Len(s)))

\* However a task's text is cut into chunks, what was sent and what is still
\* held back are exactly its visible part: nothing of a tool's output leaks and
\* nothing of the answer is lost or sent twice.
FilterIsExact == text = <<>> => emitted \o (IF inside THEN <<>> ELSE carry) = Visible(fed)
=============================================================================
