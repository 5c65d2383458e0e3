------------------------------ MODULE Failover ------------------------------
(***************************************************************************)
(* One streamed request to the language model: a session with its retries  *)
(* (llmcore.py, _stream_with_retry) and, when the configuration names      *)
(* several, the MixinSession that falls over from one to the next and      *)
(* springs back to the first.  A chunk is "text", "err" (starts with       *)
(* !!!Error:) or "brk" (the notice of a broken stream).                    *)
(***************************************************************************)
EXTENDS Naturals, Sequences, FiniteSets

CONSTANTS N,            \* sessions of a MixinSession
          Retries,      \* its max_retries
          SoloRetries,  \* max_retries of a session used on its own
          Chunks        \* bound: text chunks one HTTP response streams

ASSUME FailoverAssumption ==
    N \in Nat \ {0} /\ Retries \in Nat /\ SoloRetries \in Nat /\ Chunks \in Nat

VARIABLES
    mixin,     \* the client's backend is a MixinSession
    cur,       \* _cur_idx
    aged,      \* spring_back seconds have passed since _switched_at
    stream,    \* "closed", "open" (the generator runs) or "ended"
    try,       \* the HTTP request: session, attempt of the mixin, try of the session
    heard,     \* text chunks of this HTTP request
    last,      \* last_chunk: the kind of the attempt's latest chunk
    yielded,   \* yielded: a chunk of this attempt has been passed on
    shown,     \* the chunks passed on, each with the request it came from
    reply      \* what the generator returned: "none", "empty", "error", "notice", "blocks"
fvars == <<mixin, cur, aged, stream, try, heard, last, yielded, shown, reply>>

Kinds == {"text", "err", "brk"}
NoTry == [s |-> 0, attempt |-> 0, try |-> 0]

FailoverInit ==
    /\ mixin \in BOOLEAN
    /\ cur = 0
    /\ aged = FALSE
    /\ stream = "closed"
    /\ try = NoTry
    /\ heard = 0
    /\ last = "none"
    /\ yielded = FALSE
    /\ shown = <<>>
    /\ reply = "none"

MaxTry == IF mixin THEN 0 ELSE SoloRetries     \* s.max_retries = 0 for the members
Base == IF aged THEN 0 ELSE cur                \* _pick
Open == stream = "open"

\* raw_ask is called: a mixin picks the session to begin with.
Begin ==
    /\ cur' = IF mixin THEN Base ELSE cur
    /\ aged' = (aged /\ cur' # 0)
    /\ stream' = "open"
    /\ try' = [NoTry EXCEPT !.s = IF mixin THEN Base ELSE 0]
    /\ heard' = 0
    /\ last' = "none"
    /\ yielded' = FALSE
    /\ shown' = <<>>
    /\ reply' = "none"
    /\ UNCHANGED mixin

\* MUTANTS: hidden whatever was passed on; whatever the chunk
HidesEveryError(chunk) == mixin /\ chunk = "err"
HidesTheFirst(chunk) == mixin /\ ~yielded
\* What the mixin keeps from its caller: an error before anything was passed on.
Hides(chunk) == mixin /\ chunk = "err" /\ ~yielded

Passed(chunk) ==
    IF Hides(chunk) THEN shown ELSE Append(shown, [k |-> chunk, by |-> try])

Emit(chunk) ==
    /\ last' = chunk
    /\ yielded' = (yielded \/ ~Hides(chunk))
    /\ shown' = Passed(chunk)

\* MUTANT: no return to the first session
AfterUnwrapped(s) == s + 1
After(s) == (s + 1) % N

\* The session's generator returns `value` with `chunk` as its last chunk: the
\* mixin returns it, or goes to the next session, or yields the error again
\* once its attempts are used up.
Settle(chunk, value, out) ==
    IF mixin /\ chunk = "err" /\ try.attempt < Retries
    THEN /\ try' = [s |-> After(try.s), attempt |-> try.attempt + 1, try |-> 0]
         /\ heard' = 0
         /\ last' = "none"
         /\ yielded' = FALSE
         /\ shown' = out
         /\ UNCHANGED <<cur, aged, stream, reply>>
    ELSE /\ stream' = "ended"
         /\ reply' = value
         /\ last' = chunk
         /\ shown' = IF mixin /\ chunk = "err"
                     THEN Append(out, [k |-> "err", by |-> try]) ELSE out
         /\ cur' = IF ~mixin \/ chunk = "err" THEN cur
                   ELSE IF try.attempt > 0 THEN try.s
                   ELSE IF chunk = "brk" THEN After(try.s)
                   ELSE cur
         /\ aged' = (aged /\ cur' = cur)
         /\ UNCHANGED <<try, heard, yielded>>

\* A text chunk of the response body.
Text ==
    /\ Open /\ heard < Chunks
    /\ heard' = heard + 1
    /\ Emit("text")
    /\ UNCHANGED <<mixin, cur, aged, stream, try, reply>>

\* An HTTP status that may be retried, before any chunk: the session waits
\* and asks again without a word.
RetryQuietly ==
    /\ Open /\ heard = 0 /\ try.try < MaxTry
    /\ try' = [try EXCEPT !.try = @ + 1]
    /\ UNCHANGED <<mixin, cur, aged, stream, heard, last, yielded, shown, reply>>

\* A time-out or lost connection, perhaps in mid-stream: the error is yielded
\* and the session asks again.
RetryLost ==
    /\ Open /\ try.try < MaxTry
    /\ Emit("err")
    /\ try' = [try EXCEPT !.try = @ + 1]
    /\ heard' = 0
    /\ UNCHANGED <<mixin, cur, aged, stream, reply>>

\* The last try fails: an HTTP error or an exception before the body, a lost
\* connection at any point.  The one block returned is the error.
Fail ==
    /\ Open
    /\ heard > 0 => try.try = MaxTry
    /\ Settle("err", "error", Passed("err"))
    /\ UNCHANGED mixin

\* Another exception while the body is read: a notice, and nothing but the
\* notice is returned.
Break ==
    /\ Open
    /\ Settle("brk", "notice", Passed("brk"))
    /\ UNCHANGED mixin

\* The body ends well.  A reply without text may still call tools.
Complete ==
    /\ Open
    /\ \E value \in IF heard > 0 THEN {"blocks"} ELSE {"blocks", "empty"} :
          Settle(IF heard > 0 THEN "text" ELSE "none", value, shown)
    /\ UNCHANGED mixin

\* _parse_claude_sse ends with a warning chunk, an error event of the stream
\* ("err") or a body cut short ("brk"): it is the last block of the reply.
Warn(chunk) ==
    /\ Open
    /\ Settle(chunk, IF heard > 0 THEN "blocks" ELSE "notice", Passed(chunk))
    /\ UNCHANGED mixin

\* spring_back seconds pass (looked at by _pick only, so between requests).
Age ==
    /\ stream = "closed" /\ cur # 0 /\ ~aged
    /\ aged' = TRUE
    /\ UNCHANGED <<mixin, cur, stream, try, heard, last, yielded, shown, reply>>

StreamStep ==
    \/ Text \/ RetryQuietly \/ RetryLost \/ Fail \/ Break \/ Complete
    \/ \E chunk \in {"err", "brk"} : Warn(chunk)

\* The generator is finished with: its locals are gone.
Close ==
    /\ stream' = "closed"
    /\ try' = NoTry
    /\ heard' = 0
    /\ last' = "none"
    /\ yielded' = FALSE
    /\ shown' = <<>>
    /\ reply' = "none"
    /\ UNCHANGED <<mixin, cur, aged>>
-----------------------------------------------------------------------------
\* Text of an HTTP request that was given up and text of the one that replaced
\* it never reach the reader as one answer: an error stands between them
\* (`yielded`, MixinSession._raw_ask; "yield err" before the retry).
SupersededIsMarked ==
    \A i, j \in DOMAIN shown :
        (/\ i < j
         /\ shown[i].k = "text"
         /\ shown[j].k = "text"
         /\ shown[i].by # shown[j].by)
            => \E m \in i .. j : shown[m].k = "err"

\* What is returned, and goes to the history, is what the reader saw last: no
\* chunk of the request that answered was kept from the reader, and nothing of
\* another request follows it.  A stream that failed says so at its end.
ReplyIsShown ==
    stream = "ended" =>
        /\ reply = "blocks" =>
              Cardinality({i \in DOMAIN shown : shown[i] = [k |-> "text", by |-> try]}) = heard
        /\ heard > 0 \/ reply \in {"notice", "error"} =>
              shown # <<>> /\ shown[Len(shown)].by = try
        /\ reply = "error" => shown[Len(shown)].k = "err"
        /\ reply = "notice" => shown[Len(shown)].k \in {"err", "brk"}
=============================================================================
