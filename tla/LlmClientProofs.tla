--------------------------- MODULE LlmClientProofs ---------------------------
(***************************************************************************)
(* What a client streams and returns, for every number of sessions, of     *)
(* retries and of chunks, whatever the histories do: each request's stream *)
(* shows only entries of its tries in their order, a try that showed text  *)
(* is not left behind without an error, and what is returned was shown.    *)
(* And what goes on the wire, for histories of every length: each request  *)
(* is one an API accepts and ends with what this turn has to say.          *)
(***************************************************************************)
EXTENDS LlmClient, PickingProofs

Tries == [s : Nat, attempt : Nat, try : Nat]
Entries == [k : Kinds, by : Tries]

NotAfter(a, b) ==
    a.attempt < b.attempt \/ (a.attempt = b.attempt /\ a.try <= b.try)
Before(a, b) ==
    a.attempt < b.attempt \/ (a.attempt = b.attempt /\ a.try < b.try)

\* An error stands between entry i of sh and entry j.
ErrWithin(sh, i, j) == \E m \in i .. j : sh[m].k = "err"

\* sh is what the tries up to tr may have shown.
InOrder(sh, tr) == \A i \in 1 .. Len(sh) : NotAfter(sh[i].by, tr)
LeftMarked(sh, tr) ==
    \A i \in 1 .. Len(sh) :
        sh[i].k = "text" /\ sh[i].by # tr => ErrWithin(sh, i, Len(sh))
Marked(sh) ==
    \A i, j \in 1 .. Len(sh) :
        i < j /\ sh[i].k = "text" /\ sh[j].k = "text" /\ sh[i].by # sh[j].by
            => ErrWithin(sh, i, j)
Coherent(sh, tr) == InOrder(sh, tr) /\ LeftMarked(sh, tr) /\ Marked(sh)

NoText(sh, tr) == \A i \in 1 .. Len(sh) : sh[i].k = "text" => sh[i].by # tr
Nothing(sh, tr) == \A i \in 1 .. Len(sh) : sh[i].by # tr

StreamType ==
    /\ mixin \in BOOLEAN /\ cur \in Nat /\ aged \in BOOLEAN
    /\ try \in Tries /\ heard \in Nat
    /\ yielded \in BOOLEAN /\ shown \in Seq(Entries)

\* The inductive invariant: besides the order, that a response not heard yet
\* has shown no text, that a mixin which has passed nothing on has shown
\* nothing of this try, and that its members do not retry by themselves.
StreamInv ==
    /\ StreamType
    /\ Coherent(shown, try)
    /\ Open /\ heard = 0 => NoText(shown, try)
    /\ Open /\ mixin /\ ~yielded => Nothing(shown, try)
    /\ mixin => try.try = 0
-----------------------------------------------------------------------------
\* An entry of the current try may follow.
LEMMA EntryFollows ==
    ASSUME NEW sh \in Seq(Entries), NEW tr \in Tries, NEW kind \in Kinds,
           Coherent(sh, tr)
    PROVE  LET out == Append(sh, [k |-> kind, by |-> tr])
           IN /\ out \in Seq(Entries) /\ Len(out) = Len(sh) + 1
              /\ out[Len(out)] = [k |-> kind, by |-> tr]
              /\ \A i \in 1 .. Len(sh) : out[i] = sh[i]
              /\ Coherent(out, tr)
<1> DEFINE e == [k |-> kind, by |-> tr]
           out == Append(sh, e)
<1>1. e \in Entries BY DEF Entries
<1>2. /\ out \in Seq(Entries) /\ Len(out) = Len(sh) + 1
      /\ out[Len(out)] = e /\ \A i \in 1 .. Len(sh) : out[i] = sh[i]
  BY <1>1, AppendProperties
<1>3. Len(sh) \in Nat BY LenProperties
<1> HIDE DEF out
<1>4. InOrder(out, tr)
  <2> SUFFICES ASSUME NEW i \in 1 .. Len(out) PROVE NotAfter(out[i].by, tr)
    BY DEF InOrder
  <2>1. CASE i = Len(out) BY <2>1, <1>2 DEF NotAfter, Tries
  <2>2. CASE i \in 1 .. Len(sh) BY <2>2, <1>2 DEF Coherent, InOrder
  <2> QED BY <2>1, <2>2, <1>2, <1>3
<1>5. LeftMarked(out, tr)
  <2> SUFFICES ASSUME NEW i \in 1 .. Len(out), out[i].k = "text", out[i].by # tr
               PROVE  ErrWithin(out, i, Len(out))
    BY DEF LeftMarked
  <2>1. i \in 1 .. Len(sh) BY <1>2, <1>3
  <2>2. ErrWithin(sh, i, Len(sh)) BY <2>1, <1>2 DEF Coherent, LeftMarked
  <2> QED BY <2>1, <2>2, <1>2, <1>3 DEF ErrWithin
<1>6. Marked(out)
  <2> SUFFICES ASSUME NEW i \in 1 .. Len(out), NEW j \in 1 .. Len(out), i < j,
                      out[i].k = "text", out[j].k = "text", out[i].by # out[j].by
               PROVE  ErrWithin(out, i, j)
    BY DEF Marked
  <2>1. i \in 1 .. Len(sh) BY <1>2, <1>3
  <2>2. CASE j = Len(out)
    <3>1. ErrWithin(sh, i, Len(sh)) BY <2>1, <2>2, <1>2 DEF Coherent, LeftMarked
    <3> QED BY <3>1, <2>1, <2>2, <1>2, <1>3 DEF ErrWithin
  <2>3. CASE j \in 1 .. Len(sh)
    <3>1. ErrWithin(sh, i, j) BY <2>1, <2>3, <1>2 DEF Coherent, Marked
    <3> QED BY <3>1, <2>1, <2>3, <1>2, <1>3 DEF ErrWithin
  <2> QED BY <2>2, <2>3, <1>2, <1>3
<1> QED BY <1>2, <1>4, <1>5, <1>6 DEF Coherent, out

\* A later try may follow one that showed no text, or that an error ends.
LEMMA TryFollows ==
    ASSUME NEW sh \in Seq(Entries), NEW old \in Tries, NEW new \in Tries,
           Coherent(sh, old), Before(old, new),
           NoText(sh, old) \/ (Len(sh) > 0 /\ sh[Len(sh)].k = "err")
    PROVE  Coherent(sh, new) /\ Nothing(sh, new) /\ NoText(sh, new)
<1>1. Len(sh) \in Nat /\ \A i \in 1 .. Len(sh) : sh[i] \in Entries
  BY LenProperties, ElementOfSeq
<1>2. ASSUME NEW i \in 1 .. Len(sh) PROVE Before(sh[i].by, new)
  <2>1. NotAfter(sh[i].by, old) BY DEF Coherent, InOrder
  <2>2. sh[i].by \in Tries BY <1>1 DEF Entries
  <2> QED BY <2>1, <2>2 DEF NotAfter, Before, Tries
<1>3. Nothing(sh, new) /\ NoText(sh, new)
  <2>1. ~Before(new, new) BY DEF Before, Tries
  <2> QED BY <2>1, <1>2 DEF Nothing, NoText
<1>4. InOrder(sh, new)
  <2> SUFFICES ASSUME NEW i \in 1 .. Len(sh) PROVE NotAfter(sh[i].by, new)
    BY DEF InOrder
  <2>1. sh[i].by \in Tries BY <1>1 DEF Entries
  <2> QED BY <2>1, <1>2 DEF NotAfter, Before, Tries
<1>5. LeftMarked(sh, new)
  <2> SUFFICES ASSUME NEW i \in 1 .. Len(sh), sh[i].k = "text"
               PROVE  ErrWithin(sh, i, Len(sh))
    BY DEF LeftMarked
  <2>1. CASE NoText(sh, old)
    BY <2>1 DEF NoText, Coherent, LeftMarked
  <2>2. CASE Len(sh) > 0 /\ sh[Len(sh)].k = "err"
    BY <2>2, <1>1 DEF ErrWithin
  <2> QED BY <2>1, <2>2
<1> QED BY <1>3, <1>4, <1>5 DEF Coherent
-----------------------------------------------------------------------------
LEMMA StreamStarts == FailoverInit => StreamInv
<1> SUFFICES ASSUME FailoverInit PROVE StreamInv OBVIOUS
<1>1. shown = <<>> /\ Len(shown) = 0 /\ shown \in Seq(Entries)
  BY EmptySeq DEF FailoverInit
<1>2. StreamType BY <1>1 DEF FailoverInit, StreamType, NoTry, Tries
<1>3. Coherent(shown, try)
  BY <1>1 DEF Coherent, InOrder, LeftMarked, Marked
<1> QED BY <1>1, <1>2, <1>3 DEF StreamInv, NoText, Nothing, FailoverInit, NoTry

\* A request begins, and ends, with nothing shown.
LEMMA NothingShown ==
    ASSUME StreamType', shown' = <<>>, try'.try = 0
    PROVE  StreamInv'
<1>1. Len(shown') = 0 BY EmptySeq
<1>2. Coherent(shown', try') BY <1>1 DEF Coherent, InOrder, LeftMarked, Marked
<1> QED BY <1>1, <1>2 DEF StreamInv, NoText, Nothing, Coherent

LEMMA BeginKeeps == ASSUME StreamInv, Begin PROVE StreamInv'
<1>1. shown' = <<>> /\ shown' \in Seq(Entries) BY EmptySeq DEF Begin
<1>2. Base \in Nat BY DEF Base, StreamInv, StreamType
<1>3. try' \in Tries /\ try'.try = 0 BY <1>2 DEF Begin, NoTry, Tries
<1>4. cur' \in Nat /\ mixin' \in BOOLEAN /\ yielded' \in BOOLEAN /\ heard' \in Nat
  BY <1>2 DEF Begin, StreamInv, StreamType
<1>5. aged' \in BOOLEAN BY DEF Begin
<1>6. StreamType' BY <1>1, <1>3, <1>4, <1>5 DEF StreamType
<1> QED BY <1>1, <1>3, <1>6, NothingShown

LEMMA CloseKeeps == ASSUME StreamInv, Close PROVE StreamInv'
<1>1. shown' = <<>> /\ shown' \in Seq(Entries) BY EmptySeq DEF Close
<1>2. try' \in Tries /\ try'.try = 0 BY DEF Close, NoTry, Tries
<1>3. cur' \in Nat /\ mixin' \in BOOLEAN /\ yielded' \in BOOLEAN /\ heard' \in Nat
      /\ aged' \in BOOLEAN
  BY DEF Close, StreamInv, StreamType
<1>4. StreamType' BY <1>1, <1>2, <1>3 DEF StreamType
<1> QED BY <1>1, <1>2, <1>4, NothingShown
-----------------------------------------------------------------------------
\* What a chunk leaves of the stream, hidden or passed on.
LEMMA PassedKeeps ==
    ASSUME StreamInv, Open, NEW chunk \in Kinds
    PROVE  /\ Passed(chunk) \in Seq(Entries)
           /\ Coherent(Passed(chunk), try)
           /\ chunk # "text" /\ NoText(shown, try) => NoText(Passed(chunk), try)
           /\ Hides(chunk) => Nothing(Passed(chunk), try)
           /\ ~Hides(chunk) => /\ Len(Passed(chunk)) > 0
                              /\ Passed(chunk)[Len(Passed(chunk))].k = chunk
<1>1. CASE Hides(chunk)
  <2>1. Passed(chunk) = shown BY <1>1 DEF Passed
  <2>2. Nothing(shown, try) BY <1>1 DEF Hides, StreamInv
  <2> QED BY <1>1, <2>1, <2>2 DEF StreamInv, StreamType
<1>2. CASE ~Hides(chunk)
  <2> DEFINE out == Append(shown, [k |-> chunk, by |-> try])
  <2>1. Passed(chunk) = out BY <1>2 DEF Passed
  <2>2. shown \in Seq(Entries) /\ try \in Tries /\ Coherent(shown, try)
    BY DEF StreamInv, StreamType
  <2>3. /\ out \in Seq(Entries) /\ Len(out) = Len(shown) + 1
        /\ out[Len(out)] = [k |-> chunk, by |-> try]
        /\ \A i \in 1 .. Len(shown) : out[i] = shown[i]
        /\ Coherent(out, try)
    BY <2>2, EntryFollows
  <2>4. Len(shown) \in Nat BY <2>2, LenProperties
  <2> HIDE DEF out
  <2>5. chunk # "text" /\ NoText(shown, try) => NoText(out, try)
    <3> SUFFICES ASSUME chunk # "text", NoText(shown, try),
                        NEW i \in 1 .. Len(out), out[i].k = "text"
                 PROVE  out[i].by # try
      BY DEF NoText
    <3>1. i # Len(out) BY <2>3
    <3>2. i \in 1 .. Len(shown) BY <3>1, <2>3, <2>4
    <3> QED BY <3>2, <2>3 DEF NoText
  <2>6. Len(out) > 0 /\ out[Len(out)].k = chunk BY <2>3, <2>4
  <2> QED BY <1>2, <2>1, <2>3, <2>5, <2>6
<1> QED BY <1>1, <1>2

\* The stream after an entry that is shown at its end; nothing else is said.
LEMMA EntryShown ==
    ASSUME NEW out \in Seq(Entries), Coherent(out, try), StreamInv,
           NEW kind \in Kinds
    PROVE  /\ Append(out, [k |-> kind, by |-> try]) \in Seq(Entries)
           /\ Coherent(Append(out, [k |-> kind, by |-> try]), try)
<1>1. try \in Tries BY DEF StreamInv, StreamType
<1> QED BY <1>1, EntryFollows

\* A session's generator returns, with its last chunk passed on or hidden: the
\* next try begins, or the stream ends.
LEMMA SettleKeeps ==
    ASSUME StreamInv, Open, UNCHANGED mixin,
           NEW chunk \in Kinds \cup {"none"}, NEW value, NEW out \in Seq(Entries),
           Coherent(out, try),
           chunk = "err" => \/ Nothing(out, try)
                            \/ Len(out) > 0 /\ out[Len(out)].k = "err",
           Settle(chunk, value, out)
    PROVE  StreamInv'
<1>1. try \in Tries /\ cur \in Nat /\ aged \in BOOLEAN /\ heard \in Nat
      /\ yielded \in BOOLEAN /\ mixin \in BOOLEAN /\ (mixin => try.try = 0)
  BY DEF StreamInv, StreamType
<1>2. After(try.s) \in Nat BY <1>1, FailoverAssumption DEF After, Tries
<1>3. CASE mixin /\ chunk = "err" /\ try.attempt < Retries
  <2>1. /\ try' = [s |-> After(try.s), attempt |-> try.attempt + 1, try |-> 0]
        /\ heard' = 0 /\ yielded' = FALSE /\ shown' = out
        /\ UNCHANGED <<cur, aged, stream>>
    BY <1>3 DEF Settle
  <2>2. try' \in Tries /\ try'.try = 0 BY <2>1, <1>1, <1>2 DEF Tries
  <2>3. Before(try, try') BY <2>1, <1>1 DEF Before, Tries
  <2>4. NoText(out, try) \/ (Len(out) > 0 /\ out[Len(out)].k = "err")
    BY <1>3 DEF NoText, Nothing
  <2>5. Coherent(shown', try') /\ Nothing(shown', try') /\ NoText(shown', try')
    BY <2>1, <2>2, <2>3, <2>4, <1>1, TryFollows
  <2>6. StreamType' BY <2>1, <2>2, <1>1 DEF StreamType
  <2> QED BY <2>2, <2>5, <2>6 DEF StreamInv, NoText, Nothing, Coherent
<1>4. CASE ~(mixin /\ chunk = "err" /\ try.attempt < Retries)
  <2>1. /\ stream' = "ended" /\ UNCHANGED <<try, heard, yielded>>
        /\ shown' = IF mixin /\ chunk = "err"
                    THEN Append(out, [k |-> "err", by |-> try]) ELSE out
        /\ cur' = IF ~mixin \/ chunk = "err" THEN cur
                  ELSE IF try.attempt > 0 THEN try.s
                  ELSE IF chunk = "brk" THEN After(try.s)
                  ELSE cur
        /\ aged' = (aged /\ cur' = cur)
    BY <1>4 DEF Settle
  <2>2. shown' \in Seq(Entries) /\ Coherent(shown', try)
    BY <2>1, EntryShown DEF Kinds
  <2>3. cur' \in Nat BY <2>1, <1>1, <1>2 DEF Tries
  <2>4. aged' \in BOOLEAN BY <2>1
  <2>5. StreamType' BY <2>1, <2>2, <2>3, <2>4, <1>1 DEF StreamType
  <2>6. ~Open' BY <2>1 DEF Open
  <2>7. Coherent(shown, try)' BY <2>1, <2>2
  <2> QED BY <2>1, <2>5, <2>6, <2>7, <1>1 DEF StreamInv
<1> QED BY <1>3, <1>4

LEMMA TextKeeps == ASSUME StreamInv, Text PROVE StreamInv'
<1>1. Open /\ "text" \in Kinds /\ ~Hides("text") BY DEF Text, Kinds, Hides
<1>2. /\ heard' = heard + 1 /\ yielded' = (yielded \/ ~Hides("text"))
      /\ shown' = Passed("text")
      /\ UNCHANGED <<mixin, cur, aged, stream, try>>
  BY DEF Text, Emit
<1>3. shown' \in Seq(Entries) /\ Coherent(shown', try)
  BY <1>1, <1>2, PassedKeeps
<1>4. yielded' \in BOOLEAN /\ yielded' BY <1>1, <1>2
<1>5. heard' \in Nat /\ heard' # 0 BY <1>2 DEF StreamInv, StreamType
<1>6. StreamType' BY <1>2, <1>3, <1>4, <1>5 DEF StreamInv, StreamType
<1>7. Coherent(shown, try)' BY <1>2, <1>3
<1>8. (mixin => try.try = 0)' BY <1>2 DEF StreamInv
<1> QED BY <1>4, <1>5, <1>6, <1>7, <1>8 DEF StreamInv

\* A session used on its own asks again: MaxTry is 0 for a mixin's members.
LEMMA RetryIsSolo ==
    ASSUME StreamInv, try.try < MaxTry
    PROVE  ~mixin
BY DEF StreamInv, MaxTry

LEMMA RetryQuietlyKeeps == ASSUME StreamInv, RetryQuietly PROVE StreamInv'
<1>1. Open /\ heard = 0 /\ ~mixin BY RetryIsSolo DEF RetryQuietly
<1>2. /\ try' = [try EXCEPT !.try = @ + 1]
      /\ UNCHANGED <<mixin, cur, aged, stream, heard, yielded, shown>>
  BY DEF RetryQuietly
<1>3. try \in Tries /\ shown \in Seq(Entries) /\ Coherent(shown, try) /\ NoText(shown, try)
  BY <1>1 DEF StreamInv, StreamType
<1>4. try' \in Tries /\ Before(try, try') BY <1>2, <1>3 DEF Tries, Before
<1>5. Coherent(shown, try') /\ NoText(shown, try') BY <1>3, <1>4, TryFollows
<1>6. StreamType' BY <1>2, <1>4 DEF StreamInv, StreamType
<1>7. Coherent(shown, try)' /\ NoText(shown, try)' BY <1>2, <1>5
<1> QED BY <1>1, <1>2, <1>6, <1>7 DEF StreamInv

LEMMA RetryLostKeeps == ASSUME StreamInv, RetryLost PROVE StreamInv'
<1>1. Open /\ ~mixin /\ "err" \in Kinds /\ ~Hides("err")
  BY RetryIsSolo DEF RetryLost, Hides, Kinds
<1>2. /\ try' = [try EXCEPT !.try = @ + 1] /\ heard' = 0
      /\ yielded' = (yielded \/ ~Hides("err")) /\ shown' = Passed("err")
      /\ UNCHANGED <<mixin, cur, aged, stream>>
  BY DEF RetryLost, Emit
<1>3. /\ shown' \in Seq(Entries) /\ Coherent(shown', try)
      /\ Len(shown') > 0 /\ shown'[Len(shown')].k = "err"
  BY <1>1, <1>2, PassedKeeps
<1>4. try \in Tries BY DEF StreamInv, StreamType
<1>5. try' \in Tries /\ Before(try, try') BY <1>2, <1>4 DEF Tries, Before
<1>6. Coherent(shown', try') /\ NoText(shown', try')
  BY <1>3, <1>4, <1>5, TryFollows
<1>7. yielded' \in BOOLEAN BY <1>1, <1>2
<1>8. StreamType' BY <1>2, <1>3, <1>5, <1>7 DEF StreamInv, StreamType
<1>9. Coherent(shown, try)' /\ NoText(shown, try)' BY <1>6
<1> QED BY <1>1, <1>2, <1>8, <1>9 DEF StreamInv

LEMMA EndKeeps ==
    ASSUME StreamInv, Fail \/ Break \/ Complete \/ (\E chunk \in {"err", "brk"} : Warn(chunk))
    PROVE  StreamInv'
<1>1. shown \in Seq(Entries) /\ Coherent(shown, try) BY DEF StreamInv, StreamType
<1>2. ASSUME NEW chunk \in {"err", "brk"}, NEW value, Open, UNCHANGED mixin,
             Settle(chunk, value, Passed(chunk))
      PROVE  StreamInv'
  <2>1. chunk \in Kinds BY DEF Kinds
  <2>2. /\ Passed(chunk) \in Seq(Entries) /\ Coherent(Passed(chunk), try)
        /\ chunk = "err" => \/ Nothing(Passed(chunk), try)
                            \/ /\ Len(Passed(chunk)) > 0
                               /\ Passed(chunk)[Len(Passed(chunk))].k = "err"
    BY <1>2, <2>1, PassedKeeps
  <2> QED BY <1>2, <2>1, <2>2, SettleKeeps
<1>3. CASE Fail BY <1>2, <1>3 DEF Fail
<1>4. CASE Break BY <1>2, <1>4 DEF Break
<1>5. CASE Complete
  <2>1. PICK value : Settle(IF heard > 0 THEN "text" ELSE "none", value, shown)
    BY <1>5 DEF Complete
  <2>2. Open /\ UNCHANGED mixin BY <1>5 DEF Complete
  <2>3. (IF heard > 0 THEN "text" ELSE "none") \in Kinds \cup {"none"} BY DEF Kinds
  <2>4. (IF heard > 0 THEN "text" ELSE "none") # "err" OBVIOUS
  <2> QED BY <1>1, <2>1, <2>2, <2>3, <2>4, SettleKeeps
<1>6. CASE \E chunk \in {"err", "brk"} : Warn(chunk) BY <1>2, <1>6 DEF Warn
<1> QED BY <1>3, <1>4, <1>5, <1>6
-----------------------------------------------------------------------------
(* What is returned was shown. *)

TextBy(sh, tr) == {i \in 1 .. Len(sh) : sh[i] = [k |-> "text", by |-> tr]}
LastBy(sh, tr) == Len(sh) > 0 /\ sh[Len(sh)].by = tr

\* The chunks heard in this try are all shown, the last of them at the end.
ReplyInv ==
    /\ Open => /\ Cardinality(TextBy(shown, try)) = heard
               /\ heard > 0 => LastBy(shown, try)
    /\ stream = "ended" =>
          /\ reply = "blocks" => Cardinality(TextBy(shown, try)) = heard
          /\ heard > 0 \/ reply \in {"notice", "error"} => LastBy(shown, try)
          /\ reply = "error" => shown[Len(shown)].k = "err"
          /\ reply = "notice" => shown[Len(shown)].k \in {"err", "brk"}

LEMMA NoneCounted ==
    ASSUME NEW sh, NEW tr, NoText(sh, tr) PROVE Cardinality(TextBy(sh, tr)) = 0
<1>1. TextBy(sh, tr) = {} BY DEF TextBy, NoText
<1> QED BY <1>1, FS_EmptySet

\* An entry of the try at the end counts if it is text, and is the last.
LEMMA EntryCounted ==
    ASSUME NEW sh \in Seq(Entries), NEW tr \in Tries, NEW k \in Kinds
    PROVE  LET out == Append(sh, [k |-> k, by |-> tr])
           IN  /\ LastBy(out, tr) /\ out[Len(out)].k = k
               /\ Cardinality(TextBy(sh, tr)) \in Nat
               /\ Cardinality(TextBy(out, tr)) =
                     IF k = "text" THEN Cardinality(TextBy(sh, tr)) + 1 ELSE Cardinality(TextBy(sh, tr))
<1> DEFINE e == [k |-> k, by |-> tr]
           out == Append(sh, e)
           T == TextBy(sh, tr)
<1>1. e \in Entries BY DEF Entries
<1>2. /\ Len(out) = Len(sh) + 1 /\ out[Len(sh) + 1] = e
      /\ \A i \in 1 .. Len(sh) : out[i] = sh[i]
  BY <1>1, AppendProperties
<1>3. Len(sh) \in Nat BY LenProperties
<1>4. T \in SUBSET (1 .. Len(sh)) BY DEF TextBy
<1>5. IsFiniteSet(T) /\ Cardinality(T) \in Nat
  <2>1. IsFiniteSet(1 .. Len(sh)) BY <1>3, FS_Interval
  <2> QED BY <1>4, <2>1, FS_Subset, FS_CardinalityType
<1>6. e.k = k /\ e.by = tr OBVIOUS
<1>7. Len(sh) + 1 \notin T BY <1>3, <1>4
<1> HIDE DEF e, out
<1>8. LastBy(out, tr) /\ out[Len(out)].k = k BY <1>2, <1>3, <1>6 DEF LastBy
<1>9. \A i \in 1 .. Len(out) : i \in 1 .. Len(sh) \/ i = Len(sh) + 1 BY <1>2, <1>3
<1>10. \A i \in 1 .. Len(sh) : i \in 1 .. Len(out) BY <1>2, <1>3
<1>11. CASE k = "text"
  <2>1. out[Len(sh) + 1] = [k |-> "text", by |-> tr] /\ Len(sh) + 1 \in 1 .. Len(out)
    BY <1>2, <1>3, <1>11 DEF e
  <2>2. TextBy(out, tr) = T \cup {Len(sh) + 1} BY <1>2, <1>9, <1>10, <2>1 DEF TextBy
  <2> HIDE DEF T
  <2>3. Cardinality(T \cup {Len(sh) + 1}) = Cardinality(T) + 1 BY <1>5, <1>7, FS_AddElement
  <2> QED BY <1>5, <1>8, <1>11, <2>2, <2>3 DEF T, out, e
<1>12. CASE k # "text"
  <2>1. out[Len(sh) + 1] # [k |-> "text", by |-> tr] BY <1>2, <1>6, <1>12
  <2>2. TextBy(out, tr) = T BY <1>2, <1>9, <1>10, <2>1 DEF TextBy
  <2> QED BY <1>5, <1>8, <1>12, <2>2 DEF out, e
<1> QED BY <1>11, <1>12

\* What a chunk leaves: counted if it is text; shown at the end unless hidden.
LEMMA PassedCounted ==
    ASSUME StreamInv, Open, NEW chunk \in Kinds
    PROVE  /\ chunk # "text" => Cardinality(TextBy(Passed(chunk), try)) = Cardinality(TextBy(shown, try))
           /\ chunk = "text" =>
                 Cardinality(TextBy(Passed(chunk), try)) = Cardinality(TextBy(shown, try)) + 1
           /\ ~Hides(chunk) => /\ LastBy(Passed(chunk), try)
                              /\ Passed(chunk)[Len(Passed(chunk))].k = chunk
<1>1. shown \in Seq(Entries) /\ try \in Tries BY DEF StreamInv, StreamType
<1>2. CASE Hides(chunk)
  <2>1. Passed(chunk) = shown /\ chunk # "text" BY <1>2 DEF Passed, Hides
  <2> QED BY <1>2, <2>1
<1>3. CASE ~Hides(chunk)
  <2>1. Passed(chunk) = Append(shown, [k |-> chunk, by |-> try]) BY <1>3 DEF Passed
  <2> QED BY <1>1, <1>3, <2>1, EntryCounted
<1> QED BY <1>2, <1>3

\* A stream that ends with this chunk and this value.
LEMMA SettleCounted ==
    ASSUME StreamInv, StreamInv', ReplyInv, Open, UNCHANGED mixin,
           NEW chunk \in Kinds \cup {"none"}, NEW value, NEW out \in Seq(Entries),
           Settle(chunk, value, out),
           Cardinality(TextBy(out, try)) = heard,
           mixin /\ chunk = "err" => value \in {"blocks", "error", "notice"},
           ~(mixin /\ chunk = "err") =>
              /\ heard > 0 \/ value \in {"notice", "error"} => LastBy(out, try)
              /\ value = "error" => out[Len(out)].k = "err"
              /\ value = "notice" => out[Len(out)].k \in {"err", "brk"}
    PROVE  ReplyInv'
<1>1. CASE mixin /\ chunk = "err" /\ try.attempt < Retries
  <2>1. heard' = 0 /\ stream' = stream BY <1>1 DEF Settle
  <2>2. NoText(shown', try') BY <2>1 DEF StreamInv, Open
  <2>3. Cardinality(TextBy(shown, try))' = 0 BY <2>2, NoneCounted
  <2> QED BY <2>1, <2>3 DEF ReplyInv, Open
<1>2. CASE ~(mixin /\ chunk = "err" /\ try.attempt < Retries)
  <2>1. /\ stream' = "ended" /\ UNCHANGED <<try, heard>> /\ reply' = value
        /\ shown' = IF mixin /\ chunk = "err"
                    THEN Append(out, [k |-> "err", by |-> try]) ELSE out
    BY <1>2 DEF Settle
  <2>2. CASE mixin /\ chunk = "err"
    <3>1. shown' = Append(out, [k |-> "err", by |-> try]) BY <2>1, <2>2
    <3>2. try \in Tries /\ "err" \in Kinds BY DEF StreamInv, StreamType, Kinds
    <3>3. /\ LastBy(shown', try) /\ shown'[Len(shown')].k = "err"
          /\ Cardinality(TextBy(shown', try)) = heard
      BY <3>1, <3>2, EntryCounted
    <3> QED BY <2>1, <3>3 DEF ReplyInv, Open
  <2>3. CASE ~(mixin /\ chunk = "err")
    <3>1. shown' = out BY <2>1, <2>3
    <3> QED BY <2>1, <2>3, <3>1 DEF ReplyInv, Open
  <2> QED BY <2>2, <2>3
<1> QED BY <1>1, <1>2

LEMMA StreamCounts ==
    ASSUME StreamInv, StreamInv', ReplyInv, StreamStep PROVE ReplyInv'
<1>1. Open /\ Cardinality(TextBy(shown, try)) = heard /\ (heard > 0 => LastBy(shown, try))
      /\ heard \in Nat /\ shown \in Seq(Entries)
  BY DEF StreamStep, Text, RetryQuietly, RetryLost, Fail, Break, Complete, Warn, ReplyInv,
         StreamInv, StreamType
<1>2. "text" \in Kinds /\ "err" \in Kinds /\ "brk" \in Kinds BY DEF Kinds
<1>3. CASE Text
  <2>1. heard' = heard + 1 /\ shown' = Passed("text") /\ UNCHANGED <<stream, try>>
    BY <1>3 DEF Text, Emit
  <2>2. ~Hides("text") BY DEF Hides
  <2>3. Cardinality(TextBy(shown', try)) = heard + 1 /\ LastBy(shown', try)
    BY <1>1, <1>2, <2>1, <2>2, PassedCounted
  <2> QED BY <1>1, <2>1, <2>3 DEF ReplyInv, Open
\* A new try has shown no text.
<1>4. CASE RetryQuietly \/ RetryLost
  <2>1. heard' = 0 /\ stream' = stream BY <1>4 DEF RetryQuietly, RetryLost
  <2>2. NoText(shown', try') BY <1>1, <2>1 DEF StreamInv, Open
  <2>3. Cardinality(TextBy(shown, try))' = 0 BY <2>2, NoneCounted
  <2> QED BY <1>1, <2>1, <2>3 DEF ReplyInv, Open
<1>5. ASSUME NEW chunk \in {"err", "brk"}
      PROVE  /\ Passed(chunk) \in Seq(Entries)
             /\ Cardinality(TextBy(Passed(chunk), try)) = heard
             /\ ~(mixin /\ chunk = "err") => /\ LastBy(Passed(chunk), try)
                                            /\ Passed(chunk)[Len(Passed(chunk))].k = chunk
  BY <1>1, <1>2, PassedKeeps, PassedCounted DEF Hides
<1>6. CASE Fail
  <2>1. Settle("err", "error", Passed("err")) /\ UNCHANGED mixin BY <1>6 DEF Fail
  <2> QED BY <1>1, <1>2, <1>5, <2>1, SettleCounted
<1>7. CASE Break
  <2>1. Settle("brk", "notice", Passed("brk")) /\ UNCHANGED mixin BY <1>7 DEF Break
  <2> QED BY <1>1, <1>2, <1>5, <2>1, SettleCounted
<1>8. CASE Complete
  <2> DEFINE chunk == IF heard > 0 THEN "text" ELSE "none"
  <2>1. PICK value \in {"blocks", "empty"} : Settle(chunk, value, shown)
    BY <1>8 DEF Complete
  <2>2. chunk \in Kinds \cup {"none"} /\ chunk # "err" /\ UNCHANGED mixin
    BY <1>2, <1>8 DEF Complete
  <2> HIDE DEF chunk
  <2> QED BY <1>1, <2>1, <2>2, SettleCounted
<1>9. ASSUME NEW chunk \in {"err", "brk"}, Warn(chunk) PROVE ReplyInv'
  <2> DEFINE value == IF heard > 0 THEN "blocks" ELSE "notice"
  <2>1. Settle(chunk, value, Passed(chunk)) /\ UNCHANGED mixin BY <1>9 DEF Warn
  <2>2. value \in {"blocks", "notice"} OBVIOUS
  <2> HIDE DEF value
  <2> QED BY <1>1, <1>2, <1>5, <2>1, <2>2, SettleCounted
<1> QED BY <1>3, <1>4, <1>6, <1>7, <1>8, <1>9 DEF StreamStep, Fail, Break

\* Between requests nothing is shown, and a new one has heard nothing.
LEMMA RestCounts ==
    ASSUME StreamInv', Begin \/ Close PROVE ReplyInv'
<1>1. heard' = 0 /\ reply' = "none" /\ stream' # "ended" BY DEF Begin, Close
<1>2. Open' => NoText(shown', try') BY <1>1 DEF StreamInv
<1>3. Open' => Cardinality(TextBy(shown, try))' = 0 BY <1>2, NoneCounted
<1> QED BY <1>1, <1>3 DEF ReplyInv
-----------------------------------------------------------------------------
(* The client. *)

ClientInv == StreamInv /\ ReplyInv

LEMMA ClientStarts == Init => ClientInv
<1> SUFFICES ASSUME Init PROVE ClientInv OBVIOUS
<1>1. StreamInv BY StreamStarts DEF Init
<1>2. stream = "closed" BY DEF Init, FailoverInit
<1> QED BY <1>1, <1>2 DEF ClientInv, ReplyInv, Open

LEMMA ClientKeeps == ClientInv /\ [Next]_vars => ClientInv'
<1> SUFFICES ASSUME StreamInv, ReplyInv, [Next]_vars PROVE StreamInv' /\ ReplyInv'
  BY DEF ClientInv
<1>1. ASSUME UNCHANGED fvars PROVE StreamInv' /\ ReplyInv'
  BY <1>1 DEF fvars, StreamInv, StreamType, Coherent, InOrder, LeftMarked, Marked,
     NoText, Nothing, Open, ReplyInv, TextBy, LastBy
<1>2. ASSUME Begin PROVE StreamInv' /\ ReplyInv' BY <1>2, BeginKeeps, RestCounts
<1>3. ASSUME Close PROVE StreamInv' /\ ReplyInv' BY <1>3, CloseKeeps, RestCounts
<1>4. ASSUME StreamStep PROVE StreamInv' /\ ReplyInv'
  <2>1. StreamInv'
    BY <1>4, TextKeeps, RetryQuietlyKeeps, RetryLostKeeps, EndKeeps DEF StreamStep
  <2> QED BY <1>4, <2>1, StreamCounts
<1>5. ASSUME Age PROVE StreamInv' /\ ReplyInv'
  BY <1>5 DEF Age, StreamInv, StreamType, Coherent, InOrder, LeftMarked, Marked,
     NoText, Nothing, Open, ReplyInv
<1> QED BY <1>1, <1>2, <1>3, <1>4, <1>5
     DEF Next, SendRequest, Stream, Receive, GiveUp, vars

LEMMA ClientAlways == Spec => []ClientInv
BY ClientStarts, ClientKeeps, PTL DEF Spec

\* Text of a request that was given up and text of the one that replaced it
\* never reach the reader as one answer, however many sessions a mixin has,
\* however often they retry, and whatever the agent does with its histories
\* (MixinSession._raw_ask, _stream_with_retry).
THEOREM SupersededAlwaysMarked == Spec => []SupersededIsMarked
<1>1. ClientInv => SupersededIsMarked
  <2> SUFFICES ASSUME ClientInv PROVE SupersededIsMarked OBVIOUS
  <2>1. DOMAIN shown = 1 .. Len(shown) BY LenProperties DEF ClientInv, StreamInv, StreamType
  <2>2. Marked(shown) BY DEF ClientInv, StreamInv, Coherent
  <2> QED BY <2>1, <2>2 DEF Marked, ErrWithin, SupersededIsMarked
<1> QED BY <1>1, ClientAlways, PTL

\* What is returned, and goes to the history, is what the reader saw last, and
\* a stream that failed says so at its end (MixinSession._raw_ask, ask()).
THEOREM ReplyAlwaysShown == Spec => []ReplyIsShown
<1>1. ClientInv => ReplyIsShown
  <2> SUFFICES ASSUME ClientInv, stream = "ended" PROVE ReplyIsShown
    BY DEF ReplyIsShown
  <2>1. DOMAIN shown = 1 .. Len(shown) BY LenProperties DEF ClientInv, StreamInv, StreamType
  <2>2. {i \in DOMAIN shown : shown[i] = [k |-> "text", by |-> try]} = TextBy(shown, try)
    BY <2>1 DEF TextBy
  <2>3. LastBy(shown, try) => shown # <<>> /\ shown[Len(shown)].by = try
    BY EmptySeq DEF LastBy
  <2> QED BY <2>2, <2>3 DEF ClientInv, ReplyInv, ReplyIsShown
<1> QED BY <1>1, ClientAlways, PTL
-----------------------------------------------------------------------------
(* Types. *)

StreamBounds ==
    /\ cur \in 0 .. N - 1
    /\ try.s \in 0 .. N - 1 /\ try.attempt \in 0 .. Retries /\ try.try \in 0 .. SoloRetries
    /\ heard \in 0 .. Chunks
    /\ last \in Kinds \cup {"none"}
    /\ reply \in {"none", "empty", "error", "notice", "blocks"}
HistoryBounds ==
    /\ phase \in {"idle", "appended", "asking", "tools"}
    /\ active \in Clients /\ client \in Clients
    /\ made \in 0 .. MaxCalls /\ chats \in 0 .. MaxChats /\ loads \in 0 .. MaxLoads

LEMMA AfterIsSession == ASSUME NEW i \in 0 .. N - 1 PROVE After(i) \in 0 .. N - 1
<1>1. N \in Nat /\ N > 0 /\ i + 1 \in Nat BY FailoverAssumption
<1>2. (i + 1) % N \in 0 .. N - 1 BY <1>1
<1> QED BY <1>2 DEF After

LEMMA BoundsStart == Init => StreamBounds /\ HistoryBounds
<1> SUFFICES ASSUME Init PROVE StreamBounds /\ HistoryBounds OBVIOUS
<1>1. StreamBounds
  BY FailoverAssumption DEF Init, FailoverInit, NoTry, StreamBounds
<1>2. active \in Clients BY ToolHistoryAssumption DEF Init, HistoryInit
<1>3. HistoryBounds BY <1>2, ToolHistoryAssumption DEF Init, HistoryInit, HistoryBounds
<1> QED BY <1>1, <1>3

LEMMA SettleBounds ==
    ASSUME StreamInv, StreamBounds, UNCHANGED mixin,
           NEW chunk \in Kinds \cup {"none"}, NEW out,
           NEW value \in {"none", "empty", "error", "notice", "blocks"}, Settle(chunk, value, out)
    PROVE  StreamBounds'
<1>1. N \in Nat /\ N > 0 /\ Retries \in Nat /\ SoloRetries \in Nat /\ Chunks \in Nat
  BY FailoverAssumption
<1>2. After(try.s) \in 0 .. N - 1 BY AfterIsSession DEF StreamBounds
<1>3. CASE mixin /\ chunk = "err" /\ try.attempt < Retries
  <2>1. /\ try' = [s |-> After(try.s), attempt |-> try.attempt + 1, try |-> 0]
        /\ heard' = 0 /\ last' = "none" /\ UNCHANGED <<cur, reply>>
    BY <1>3 DEF Settle
  <2> QED BY <1>1, <1>2, <1>3, <2>1 DEF StreamBounds
<1>4. CASE ~(mixin /\ chunk = "err" /\ try.attempt < Retries)
  <2>1. /\ cur' \in {cur, try.s, After(try.s)}
        /\ reply' = value /\ last' = chunk /\ UNCHANGED <<try, heard>>
    BY <1>4 DEF Settle
  <2> QED BY <1>2, <2>1 DEF StreamBounds
<1> QED BY <1>3, <1>4

LEMMA StreamBounded == ASSUME StreamInv, StreamBounds, StreamStep PROVE StreamBounds'
<1>1. N \in Nat /\ N > 0 /\ Retries \in Nat /\ SoloRetries \in Nat /\ Chunks \in Nat
  BY FailoverAssumption
<1>2. "text" \in Kinds /\ "err" \in Kinds /\ "brk" \in Kinds BY DEF Kinds
<1>3. CASE Text
  <2>1. heard < Chunks /\ heard' = heard + 1 /\ last' = "text" /\ UNCHANGED <<cur, try, reply>>
    BY <1>3 DEF Text, Emit
  <2> QED BY <1>1, <1>2, <2>1 DEF StreamBounds
<1>4. CASE RetryQuietly \/ RetryLost
  <2>1. try \in Tries /\ try.try < MaxTry /\ MaxTry <= SoloRetries
    BY <1>1, <1>4 DEF RetryQuietly, RetryLost, MaxTry, StreamInv, StreamType
  <2>2. try' = [try EXCEPT !.try = try.try + 1] /\ heard' \in {0, heard} /\ last' \in {last, "err"}
        /\ UNCHANGED <<cur, reply>>
    BY <1>4 DEF RetryQuietly, RetryLost, Emit
  <2>3. try'.s = try.s /\ try'.attempt = try.attempt /\ try'.try = try.try + 1
    BY <2>1, <2>2 DEF Tries
  <2>4. try'.try \in 0 .. SoloRetries
    BY <1>1, <2>1, <2>3 DEF StreamBounds, MaxTry
  <2> QED BY <1>1, <1>2, <2>2, <2>3, <2>4 DEF StreamBounds
<1>5. CASE Fail
  <2>1. Settle("err", "error", Passed("err")) /\ UNCHANGED mixin BY <1>5 DEF Fail
  <2> QED BY <1>2, <2>1, SettleBounds
<1>6. CASE Break
  <2>1. Settle("brk", "notice", Passed("brk")) /\ UNCHANGED mixin BY <1>6 DEF Break
  <2> QED BY <1>2, <2>1, SettleBounds
<1>7. CASE Complete
  <2>1. PICK value \in {"blocks", "empty"} : Settle(IF heard > 0 THEN "text" ELSE "none", value, shown)
    BY <1>7 DEF Complete
  <2>2. (IF heard > 0 THEN "text" ELSE "none") \in Kinds \cup {"none"} /\ UNCHANGED mixin
    BY <1>2, <1>7 DEF Complete
  <2> QED BY <2>1, <2>2, SettleBounds
<1>8. ASSUME NEW chunk \in {"err", "brk"}, Warn(chunk) PROVE StreamBounds'
  <2>1. Settle(chunk, IF heard > 0 THEN "blocks" ELSE "notice", Passed(chunk)) /\ UNCHANGED mixin
    BY <1>8 DEF Warn
  <2>2. (IF heard > 0 THEN "blocks" ELSE "notice") \in {"none", "empty", "error", "notice", "blocks"}
    OBVIOUS
  <2> QED BY <1>2, <2>1, <2>2, SettleBounds
<1> QED BY <1>3, <1>4, <1>5, <1>6, <1>7, <1>8 DEF StreamStep

LEMMA RestBounded == ASSUME StreamInv, StreamBounds, Begin \/ Close PROVE StreamBounds'
<1>1. N \in Nat /\ N > 0 /\ Retries \in Nat /\ SoloRetries \in Nat /\ Chunks \in Nat
  BY FailoverAssumption
<1>2. Base \in 0 .. N - 1 BY <1>1 DEF Base, StreamBounds
<1>3. cur' \in {cur, Base} /\ heard' = 0 /\ last' = "none" /\ reply' = "none" BY DEF Begin, Close
<1>4. try'.s \in {0, Base} /\ try'.attempt = 0 /\ try'.try = 0
  <2>1. CASE Begin
    <3>1. try' = [NoTry EXCEPT !.s = IF mixin THEN Base ELSE 0] BY <2>1 DEF Begin
    <3> QED BY <3>1 DEF NoTry
  <2>2. CASE Close BY <2>2 DEF Close, NoTry
  <2> QED BY <2>1, <2>2
<1> QED BY <1>1, <1>2, <1>3, <1>4 DEF StreamBounds

\* The stream is open exactly while ask() waits for it.
Waits == stream # "closed" <=> phase = "asking"

LEMMA BoundsKeep ==
    ASSUME StreamInv, StreamBounds, HistoryBounds, Waits, [Next]_vars
    PROVE  StreamBounds' /\ HistoryBounds' /\ Waits'
<1>1. made \in Nat /\ chats \in Nat /\ loads \in Nat
      /\ MaxCalls \in Nat /\ MaxChats \in Nat /\ MaxLoads \in Nat
  BY ToolHistoryAssumption DEF HistoryBounds
<1>2. ASSUME UNCHANGED fvars PROVE StreamBounds' /\ stream' = stream
  BY <1>2 DEF fvars, StreamBounds
<1>3. ASSUME UNCHANGED hvars PROVE HistoryBounds' /\ phase' = phase
  BY <1>3 DEF hvars, HistoryBounds
<1>4. ASSUME NEW c \in Clients, NEW results, Chat(c, results), phase # "asking"
      PROVE HistoryBounds' /\ phase' # "asking"
  BY <1>1, <1>4 DEF Chat, HistoryBounds
<1>5. CASE Task /\ UNCHANGED fvars
  <2>1. Chat(active, <<>>) /\ phase # "asking" /\ active \in Clients
    BY <1>5 DEF Task, HistoryBounds
  <2> QED BY <1>2, <1>4, <1>5, <2>1 DEF Waits
<1>6. CASE SendRequest
  <2>1. StreamBounds' /\ stream' = "open" BY <1>6, RestBounded DEF SendRequest, Begin
  <2>2. HistoryBounds' /\ phase' = "asking" BY <1>6 DEF SendRequest, Request, HistoryBounds
  <2> QED BY <2>1, <2>2 DEF Waits
<1>7. CASE Stream
  <2>1. StreamBounds' BY <1>7, StreamBounded DEF Stream
  <2>2. stream = "open" /\ stream' \in {"open", "ended"}
    BY <1>7 DEF Stream, StreamStep, Open, Text, RetryQuietly, RetryLost, Fail, Break, Complete, Warn, Settle
  <2> QED BY <1>3, <1>7, <2>1, <2>2 DEF Waits, Stream
<1>8. CASE Receive
  <2>1. StreamBounds' /\ stream' = "closed" BY <1>8, RestBounded DEF Receive, Close
  <2>2. phase' = "tools" /\ UNCHANGED <<active, client, chats, loads>>
    BY <1>8 DEF Receive, RecordNothing, RecordWords, RecordCalls, Record
  <2>3. made' \in 0 .. MaxCalls
    <3>1. CASE RecordNothing \/ RecordWords
      BY <3>1 DEF RecordNothing, RecordWords, HistoryBounds
    <3>2. CASE RecordCalls
      <4>1. PICK ids \in {<<made + 1>>, <<made + 1, made + 2>>, <<made + 1, made + 1>>} :
               made' = made + Cardinality(Range(ids)) /\ made' <= MaxCalls
        BY <3>2 DEF RecordCalls
      <4>2. Range(ids) \in SUBSET (made + 1 .. made + 2) BY <1>1 DEF Range
      <4>3. IsFiniteSet(made + 1 .. made + 2) BY <1>1, FS_Interval
      <4>4. Cardinality(Range(ids)) \in Nat BY <4>2, <4>3, FS_Subset, FS_CardinalityType
      <4> QED BY <1>1, <4>1, <4>4
    <3> QED BY <1>8, <3>1, <3>2 DEF Receive
  <2> QED BY <2>1, <2>2, <2>3 DEF Waits, HistoryBounds
<1>9. CASE GiveUp
  <2>1. StreamBounds' /\ stream' = "closed" BY <1>9, RestBounded DEF GiveUp, Close
  <2> QED BY <1>9, <2>1 DEF GiveUp, Abort, HistoryBounds, Waits
<1>10. CASE NextTurn /\ UNCHANGED fvars
  <2>1. PICK results : Chat(client, results) BY <1>10 DEF NextTurn
  <2>2. phase # "asking" /\ client \in Clients BY <1>10 DEF NextTurn, HistoryBounds
  <2> QED BY <1>2, <1>4, <1>10, <2>1, <2>2 DEF Waits
<1>11. CASE EndTask /\ UNCHANGED fvars
  <2>1. HistoryBounds' /\ phase' # "asking" /\ phase # "asking" BY <1>11 DEF EndTask, HistoryBounds
  <2> QED BY <1>2, <1>11, <2>1 DEF Waits
<1>12. CASE (NextLlm \/ Load) /\ UNCHANGED fvars
  <2>1. HistoryBounds' /\ phase' = phase BY <1>1, <1>12 DEF NextLlm, Load, HistoryBounds
  <2> QED BY <1>2, <1>12, <2>1 DEF Waits
<1>13. CASE Age /\ UNCHANGED hvars
  BY <1>3, <1>13 DEF Age, StreamBounds, Waits
<1>14. CASE UNCHANGED vars BY <1>2, <1>3, <1>14 DEF vars, Waits
<1> QED BY <1>5, <1>6, <1>7, <1>8, <1>9, <1>10, <1>11, <1>12, <1>13, <1>14 DEF Next

\* The state's types hold, and the stream is open exactly while ask() waits for
\* it: no abort, switch or replaced history leaves a stream behind (agent_loop.py,
\* ask() of llmcore.py).
THEOREM ClientTyped == Spec => []TypeOK
<1> DEFINE Typed == StreamBounds /\ HistoryBounds /\ Waits
<1>1. Init => Typed
  <2>1. Init => Waits BY DEF Init, FailoverInit, HistoryInit, Waits
  <2> QED BY <2>1, BoundsStart
<1>2. StreamInv /\ Typed /\ [Next]_vars => Typed' BY BoundsKeep
<1>3. ClientInv => StreamInv BY DEF ClientInv
<1>4. Typed => TypeOK BY DEF StreamBounds, HistoryBounds, Waits, TypeOK
<1> HIDE DEF Typed
<1> QED BY <1>1, <1>2, <1>3, <1>4, ClientAlways, PTL DEF Spec
-----------------------------------------------------------------------------
(* The blocks of some messages, in order. *)

Block == [k : {"text", "use", "result"}, n : Nat, full : BOOLEAN]

\* Only the model calls, and a call names its id.
Fit(m) ==
    \A i \in 1 .. Len(m.blocks) :
        m.blocks[i].k = "use" => m.role = "assistant" /\ m.blocks[i].full
Msg == {m \in [role : {"user", "assistant"}, blocks : Seq(Block)] : Fit(m)}

\* A result as text, any other block as it is.
LEMMA TextOf ==
    ASSUME NEW b \in Block
    PROVE  /\ AsText(b) \in Block /\ AsText(b) \in {b, Told(b)}
           /\ AsText(b).k = "use" => b.k = "use" /\ AsText(b) = b
           /\ b.k # "use" => AsText(b).k = "text"
<1>1. b = [k |-> b.k, n |-> b.n, full |-> b.full] /\ b.k \in {"text", "use", "result"} BY DEF Block
<1>2. Told(b) = [k |-> "text", n |-> b.n, full |-> b.full]
  <2> DEFINE kk == b.k
             nn == b.n
             ff == b.full
  <2>1. b = [k |-> kk, n |-> nn, full |-> ff] BY <1>1
  <2> HIDE DEF kk, nn, ff
  <2>2. [[k |-> kk, n |-> nn, full |-> ff] EXCEPT !.k = "text"]
        = [k |-> "text", n |-> nn, full |-> ff]
    OBVIOUS
  <2>3. Told(b) = [k |-> "text", n |-> nn, full |-> ff] BY <2>1, <2>2 DEF Told
  <2> QED BY <2>3 DEF nn, ff
<1>3. Told(b) \in Block /\ Told(b).k = "text" BY <1>2 DEF Block
<1> QED BY <1>1, <1>3 DEF AsText

\* Each place is met once.
LEMMA PlacesCounted ==
    ASSUME NEW P, IsFiniteSet(P), \A p \in P : p \in Nat \X Nat
    PROVE  /\ Cardinality(P) \in Nat
           /\ \A n \in 1 .. Cardinality(P) : Nth(P, n) \in P
           /\ \A p \in P : \E n \in 1 .. Cardinality(P) : Nth(P, n) = p
<1> DEFINE K == Cardinality(P)
           rank == [p \in P |-> Cardinality(UpTo(P, p))]
           Less(p, q) == p[1] < q[1] \/ (p[1] = q[1] /\ p[2] < q[2])
<1>1. K \in Nat BY FS_CardinalityType
<1>2. \A p \in P : UpTo(P, p) \in SUBSET P BY DEF UpTo
<1>3. \A p \in P : IsFiniteSet(UpTo(P, p)) /\ Cardinality(UpTo(P, p)) \in Nat
                   /\ Cardinality(UpTo(P, p)) <= K
  BY <1>2, FS_Subset, FS_CardinalityType
<1>4. \A p \in P : p[1] \in Nat /\ p[2] \in Nat /\ p = <<p[1], p[2]>> OBVIOUS
<1>5. ASSUME NEW p \in P PROVE rank[p] \in 1 .. K
  <2>1. p \in UpTo(P, p) BY <1>4 DEF UpTo
  <2>2. Cardinality(UpTo(P, p)) # 0 BY <1>3, <2>1, FS_EmptySet
  <2> QED BY <1>1, <1>3, <2>2
<1>6. ASSUME NEW p \in P, NEW q \in P, Less(p, q) PROVE rank[p] # rank[q]
  <2>1. \A x \in P : (x[1] < p[1] \/ (x[1] = p[1] /\ x[2] <= p[2]))
                     => x[1] < q[1] \/ (x[1] = q[1] /\ x[2] <= q[2])
    <3> SUFFICES ASSUME NEW x \in P, x[1] < p[1] \/ (x[1] = p[1] /\ x[2] <= p[2])
                 PROVE  x[1] < q[1] \/ (x[1] = q[1] /\ x[2] <= q[2])
      OBVIOUS
    <3>1. x[1] \in Nat /\ x[2] \in Nat /\ p[1] \in Nat /\ p[2] \in Nat /\ q[1] \in Nat /\ q[2] \in Nat
      BY <1>4
    <3> QED BY <1>6, <3>1
  <2>2. UpTo(P, p) \in SUBSET UpTo(P, q) BY <2>1 DEF UpTo
  <2>3. q \in UpTo(P, q) BY <1>4 DEF UpTo
  <2>4. q \notin UpTo(P, p)
    <3>1. p[1] \in Nat /\ p[2] \in Nat /\ q[1] \in Nat /\ q[2] \in Nat BY <1>4
    <3>2. ~(q[1] < p[1] \/ (q[1] = p[1] /\ q[2] <= p[2])) BY <1>6, <3>1
    <3> QED BY <3>2 DEF UpTo
  <2>5. UpTo(P, p) # UpTo(P, q) BY <2>3, <2>4
  <2> QED BY <1>3, <2>2, <2>5, FS_Subset
<1>7. \A p, q \in P : rank[p] = rank[q] => p = q
  <2> SUFFICES ASSUME NEW p \in P, NEW q \in P, p # q PROVE rank[p] # rank[q] OBVIOUS
  <2>1. p[1] # q[1] \/ p[2] # q[2] BY <1>4
  <2>2. Less(p, q) \/ Less(q, p) BY <1>4, <2>1
  <2> QED BY <1>6, <2>2
<1>8. rank \in Injection(P, 1 .. K) BY <1>5, <1>7 DEF Injection, IsInjective
<1>9. IsFiniteSet(1 .. K) /\ Cardinality(1 .. K) = K BY <1>1, FS_Interval
<1>10. rank \in Surjection(P, 1 .. K) BY <1>8, <1>9, FS_Injection
<1>11. \A n \in 1 .. K : \E p \in P : rank[p] = n BY <1>10 DEF Surjection
<1>12. \A n \in 1 .. K : Nth(P, n) \in P BY <1>11 DEF Nth
<1>13. \A p \in P : Nth(P, rank[p]) = p
  <2> SUFFICES ASSUME NEW p \in P PROVE Nth(P, rank[p]) = p OBVIOUS
  <2>1. Nth(P, rank[p]) = CHOOSE q \in P : rank[q] = rank[p] BY DEF Nth
  <2>2. (CHOOSE q \in P : rank[q] = rank[p]) = p BY <1>7
  <2> QED BY <2>1, <2>2
<1> HIDE DEF rank
<1> QED BY <1>1, <1>5, <1>12, <1>13

\* The blocks of the messages, and no others.
LEMMA JoinedBlocks ==
    ASSUME NEW h \in Seq(Msg), NEW J \in SUBSET (1 .. Len(h))
    PROVE  /\ Joined(h, J) \in Seq(Block)
           /\ \A n \in 1 .. Len(Joined(h, J)) :
                 \E j \in J : \E b \in 1 .. Len(h[j].blocks) : Joined(h, J)[n] = h[j].blocks[b]
           /\ \A j \in J : \A b \in 1 .. Len(h[j].blocks) :
                 \E n \in 1 .. Len(Joined(h, J)) : Joined(h, J)[n] = h[j].blocks[b]
<1> DEFINE P == Places(h, J)
           K == Cardinality(P)
           Row(j) == {<<j, b>> : b \in DOMAIN h[j].blocks}
           row == [j \in J |-> Row(j)]
<1>1. Len(h) \in Nat /\ \A j \in J : j \in 1 .. Len(h) /\ h[j] \in Msg BY LenProperties, ElementOfSeq
<1>2. \A j \in J : /\ h[j].blocks \in Seq(Block) /\ Len(h[j].blocks) \in Nat
                   /\ DOMAIN h[j].blocks = 1 .. Len(h[j].blocks)
  BY <1>1, LenProperties DEF Msg
<1>3. IsFiniteSet(J)
  <2>1. IsFiniteSet(1 .. Len(h)) BY <1>1, FS_Interval
  <2> QED BY <2>1, FS_Subset
<1>4. ASSUME NEW j \in J PROVE IsFiniteSet(Row(j))
  <2> DEFINE L == Len(h[j].blocks)
             f == [b \in 1 .. L |-> <<j, b>>]
  <2>1. L \in Nat /\ Row(j) = {<<j, b>> : b \in 1 .. L} BY <1>2
  <2>2. IsFiniteSet(1 .. L)
    <3>1. \A m \in Nat : IsFiniteSet(1 .. m) BY FS_Interval
    <3> QED BY <2>1, <3>1
  <2>3. f \in Surjection(1 .. L, Row(j)) BY <2>1 DEF Surjection
  <2> HIDE DEF f, Row, L
  <2> QED BY <2>2, <2>3, FS_Surjection
<1>5. IsFiniteSet({Row(j) : j \in J})
  <2>1. row \in Surjection(J, {Row(j) : j \in J}) BY DEF Surjection
  <2> HIDE DEF row
  <2> QED BY <1>3, <2>1, FS_Surjection
<1>6. IsFiniteSet(P)
  <2>1. P = UNION {Row(j) : j \in J} BY DEF Places
  <2>2. \A T \in {Row(j) : j \in J} : IsFiniteSet(T) BY <1>4
  <2> HIDE DEF P, Row
  <2> QED BY <1>5, <2>1, <2>2, FS_UNION
<1>7. \A p : p \in P <=> \E j \in J : \E b \in 1 .. Len(h[j].blocks) : p = <<j, b>>
  BY <1>2 DEF Places
<1>8. \A p \in P : p \in Nat \X Nat BY <1>1, <1>2, <1>7
<1>9. \A p \in P : /\ p[1] \in J /\ p[2] \in 1 .. Len(h[p[1]].blocks)
                   /\ h[p[1]].blocks[p[2]] \in Block
  <2> SUFFICES ASSUME NEW j \in J, NEW b \in 1 .. Len(h[j].blocks)
               PROVE  h[j].blocks[b] \in Block
    BY <1>7
  <2> QED BY <1>2, ElementOfSeq
<1> HIDE DEF P, Row, row
<1>10. /\ K \in Nat
       /\ \A n \in 1 .. K : Nth(P, n) \in P
       /\ \A p \in P : \E n \in 1 .. K : Nth(P, n) = p
  BY <1>6, <1>8, PlacesCounted
<1>11. Joined(h, J) = [n \in 1 .. K |-> h[Nth(P, n)[1]].blocks[Nth(P, n)[2]]]
  BY DEF Joined, P
<1> HIDE DEF K
<1>12. Joined(h, J) \in [1 .. K -> Block] BY <1>9, <1>10, <1>11
<1>13. Joined(h, J) \in Seq(Block) BY <1>10, <1>12, SeqDef
<1>14. 1 .. Len(Joined(h, J)) = 1 .. K BY <1>12, <1>13, LenProperties
<1>15. ASSUME NEW n \in 1 .. K
       PROVE \E j \in J : \E b \in 1 .. Len(h[j].blocks) : Joined(h, J)[n] = h[j].blocks[b]
  <2> DEFINE p == Nth(P, n)
  <2>1. p \in P /\ Joined(h, J)[n] = h[p[1]].blocks[p[2]] BY <1>10, <1>11
  <2> HIDE DEF p
  <2> QED BY <1>9, <2>1
<1>16. ASSUME NEW j \in J, NEW b \in 1 .. Len(h[j].blocks)
       PROVE \E n \in 1 .. K : Joined(h, J)[n] = h[j].blocks[b]
  <2>1. <<j, b>> \in P BY <1>7
  <2>2. PICK n \in 1 .. K : Nth(P, n) = <<j, b>> BY <1>10, <2>1
  <2>3. Joined(h, J)[n] = h[j].blocks[b] BY <1>11, <2>2
  <2> QED BY <2>3
<1> QED BY <1>13, <1>14, <1>15, <1>16

-----------------------------------------------------------------------------
(* What _fix_messages does with the messages. *)

LEMMA FollowersRole ==
    ASSUME NEW h \in Seq(Msg), NEW s \in 1 .. Len(h), NEW j \in Followers(h, s)
    PROVE  h[j].role = h[s].role
<1> DEFINE Other == {i \in 1 .. Len(h) : s <= i /\ i <= j /\ h[i].role # h[s].role}
<1>1. Len(h) \in Nat /\ DOMAIN h = 1 .. Len(h) BY LenProperties
<1>2. j \in 1 .. Len(h) /\ s <= j /\ \A i \in s + 1 .. j : i \notin Heads(h)
  BY <1>1 DEF Followers
<1> SUFFICES ASSUME Other # {} PROVE FALSE BY <1>2
<1>3. PICK i \in Other : \A k \in Other : i <= k
  <2>1. Other \in SUBSET (1 .. Len(h)) OBVIOUS
  <2> HIDE DEF Other
  <2> QED BY <1>1, <2>1, FirstPlace
<1>4. i \in 1 .. Len(h) /\ s < i /\ i <= j /\ h[i].role # h[s].role BY <1>1, <1>3
<1>5. i \in s + 1 .. j /\ i # 1 /\ i - 1 \in 1 .. Len(h) /\ s <= i - 1 /\ i - 1 <= j BY <1>1, <1>2, <1>4
<1>6. h[i].role = h[i - 1].role BY <1>1, <1>2, <1>4, <1>5 DEF Heads
<1>7. i - 1 \in Other BY <1>4, <1>5, <1>6
<1>8. i <= i - 1 BY <1>3, <1>7
<1> QED BY <1>4, <1>8

LEMMA MergedFits ==
    ASSUME NEW h \in Seq(Msg)
    PROVE  /\ Merged(h) \in Seq(Msg)
           /\ \A k \in 2 .. Len(Merged(h)) : Merged(h)[k].role # Merged(h)[k - 1].role
           /\ Len(h) > 0 =>
                 LET w == Merged(h)[Len(Merged(h))]
                 IN  /\ Len(Merged(h)) > 0 /\ w.role = h[Len(h)].role
                     /\ \A b \in 1 .. Len(h[Len(h)].blocks) :
                           \E n \in 1 .. Len(w.blocks) : w.blocks[n] = h[Len(h)].blocks[b]
<1> DEFINE S == Heads(h)
           K == Cardinality(S)
           X == [s \in DOMAIN h |-> Message(h[s].role, Joined(h, Followers(h, s)))]
           M == Merged(h)
<1>1. Len(h) \in Nat /\ DOMAIN h = 1 .. Len(h) /\ \A s \in 1 .. Len(h) : h[s] \in Msg
  BY LenProperties, ElementOfSeq
<1>2. S \in SUBSET (1 .. Len(h)) /\ \A s : Followers(h, s) \in SUBSET (1 .. Len(h))
  BY <1>1 DEF Heads, Followers
<1>3. \A s \in 1 .. Len(h) :
         X[s].role = h[s].role /\ X[s].blocks = Joined(h, Followers(h, s))
         /\ X[s] = [role |-> h[s].role, blocks |-> Joined(h, Followers(h, s))]
  BY <1>1 DEF Message
<1> HIDE DEF X
<1>4. ASSUME NEW s \in 1 .. Len(h) PROVE X[s] \in Msg
  <2> DEFINE bs == Joined(h, Followers(h, s))
  <2>1. bs \in Seq(Block) BY <1>2, JoinedBlocks
  <2>2. ASSUME NEW n \in 1 .. Len(bs), bs[n].k = "use"
        PROVE  h[s].role = "assistant" /\ bs[n].full
    <3>1. PICK j \in Followers(h, s) : \E b \in 1 .. Len(h[j].blocks) : bs[n] = h[j].blocks[b]
      BY <1>2, JoinedBlocks
    <3>2. h[j] \in Msg BY <1>1, <1>2
    <3>3. h[j].role = "assistant" /\ bs[n].full BY <2>2, <3>1, <3>2 DEF Msg, Fit
    <3> QED BY <3>3, FollowersRole
  <2>3. h[s].role \in {"user", "assistant"} BY <1>1 DEF Msg
  <2> HIDE DEF bs
  <2>4. [role |-> h[s].role, blocks |-> bs] \in Msg BY <2>1, <2>2, <2>3 DEF Msg, Fit
  <2> QED BY <1>3, <2>4 DEF bs
<1>5. M = Picked(X, S) BY DEF Merged, X
<1> HIDE DEF S, M
<1>6. /\ K \in Nat
      /\ \A n \in 1 .. K : \E i \in S : Rank(S, i) = n
      /\ \A i \in S : Rank(S, i) \in 1 .. K /\ M[Rank(S, i)] = X[i]
      /\ \A i, j \in S : i < j => Rank(S, i) < Rank(S, j)
  BY <1>1, <1>2, <1>5, PickedAt
<1>7. M \in Seq(Msg) /\ Len(M) = K
  <2>1. \A i \in S : X[i] \in Msg BY <1>2, <1>4
  <2> QED BY <1>1, <1>2, <1>5, <2>1, PickedSeq
<1> HIDE DEF K
<1>8. ASSUME NEW k \in 2 .. K PROVE M[k].role # M[k - 1].role
  <2>1. k \in 1 .. K /\ k - 1 \in 1 .. K BY <1>6
  <2>2. PICK s \in S, t \in S : Rank(S, s) = k - 1 /\ Rank(S, t) = k BY <1>6, <2>1
  <2>3. s \in 1 .. Len(h) /\ t \in 1 .. Len(h) BY <1>2
  <2>4. s < t
    <3>1. ~(t < s) BY <1>6, <2>1, <2>2
    <3>2. t # s BY <2>1, <2>2
    <3> QED BY <2>3, <3>1, <3>2
  <2>5. ASSUME NEW i \in s + 1 .. t - 1 PROVE i \notin S
    <3>1. s < i /\ i < t BY <2>3
    <3> SUFFICES ASSUME i \in S PROVE FALSE OBVIOUS
    <3>2. Rank(S, i) \in 1 .. K /\ k - 1 < Rank(S, i) /\ Rank(S, i) < k BY <1>6, <2>2, <3>1
    <3> QED BY <2>1, <3>2
  <2>6. t - 1 \in 1 .. Len(h) /\ s <= t - 1 /\ t # 1 BY <2>3, <2>4
  <2>7. t - 1 \in Followers(h, s) BY <1>1, <2>5, <2>6 DEF Followers, S
  <2>8. h[t - 1].role = h[s].role BY <2>3, <2>7, FollowersRole
  <2>9. h[t].role # h[t - 1].role BY <2>6 DEF Heads, S
  <2>10. M[k] = X[t] /\ M[k - 1] = X[s] BY <1>6, <2>2
  <2> QED BY <1>3, <2>3, <2>8, <2>9, <2>10
<1>9. ASSUME Len(h) > 0
      PROVE  /\ K > 0 /\ M[K].role = h[Len(h)].role
             /\ \A b \in 1 .. Len(h[Len(h)].blocks) :
                   \E n \in 1 .. Len(M[K].blocks) : M[K].blocks[n] = h[Len(h)].blocks[b]
  <2> DEFINE e == Len(h)
  <2>1. e \in 1 .. Len(h) /\ 1 \in DOMAIN h BY <1>1, <1>9
  <2>2. 1 \in S BY <2>1 DEF Heads, S
  <2>3. K > 0 /\ K \in 1 .. K BY <1>6, <2>2
  <2>4. PICK s \in S : Rank(S, s) = K BY <1>6, <2>3
  <2>5. s \in 1 .. Len(h) BY <1>2
  <2>6. ASSUME NEW i \in s + 1 .. e PROVE i \notin S
    <3>1. s < i BY <2>5
    <3> SUFFICES ASSUME i \in S PROVE FALSE OBVIOUS
    <3>2. Rank(S, i) \in 1 .. K /\ K < Rank(S, i) BY <1>6, <2>4, <3>1
    <3> QED BY <1>6, <3>2
  <2>7. e \in Followers(h, s) BY <1>1, <2>1, <2>5, <2>6 DEF Followers, S
  <2>8. h[e].role = h[s].role BY <2>5, <2>7, FollowersRole
  <2>9. M[K] = X[s] BY <1>6, <2>4
  <2>10. M[K].role = h[e].role /\ M[K].blocks = Joined(h, Followers(h, s))
    BY <1>3, <2>5, <2>8, <2>9
  <2>11. \A b \in 1 .. Len(h[e].blocks) :
            \E n \in 1 .. Len(Joined(h, Followers(h, s))) :
               Joined(h, Followers(h, s))[n] = h[e].blocks[b]
    <3>1. Followers(h, s) \in SUBSET (1 .. Len(h)) BY <1>2
    <3> HIDE DEF e
    <3> QED BY <2>7, <3>1, JoinedBlocks
  <2> QED BY <2>3, <2>10, <2>11
<1>10. Len(M) = K BY <1>7
<1> QED BY <1>7, <1>8, <1>9, <1>10 DEF M

LEMMA OneAndTwo ==
    ASSUME NEW S, NEW a \in S, NEW b \in S
    PROVE  <<a>> \in Seq(S) /\ <<a, b>> \in Seq(S)
OBVIOUS

LEMMA Parity ==
    ASSUME NEW i \in Nat, i > 1
    PROVE  (i % 2 = 1) <=> ~((i - 1) % 2 = 1)
OBVIOUS

\* The user begins, and user and assistant take turns.
LEMMA FromUserFits ==
    ASSUME NEW m \in Seq(Msg), \A k \in 2 .. Len(m) : m[k].role # m[k - 1].role
    PROVE  /\ FromUser(m) \in Seq(Msg)
           /\ \A i \in 1 .. Len(FromUser(m)) :
                 FromUser(m)[i].role = IF i % 2 = 1 THEN "user" ELSE "assistant"
           /\ Len(m) > 0 /\ m[Len(m)].role = "user" =>
                 /\ Len(FromUser(m)) > 0
                 /\ FromUser(m)[Len(FromUser(m))] = m[Len(m)]
<1> DEFINE g == FromUser(m)
           Role(i) == IF i % 2 = 1 THEN "user" ELSE "assistant"
           Bad == {i \in 1 .. Len(g) : g[i].role # Role(i)}
<1>1. Len(m) \in Nat /\ \A i \in 1 .. Len(m) : m[i] \in Msg /\ m[i].role \in {"user", "assistant"}
  BY LenProperties, ElementOfSeq DEF Msg
<1>2. /\ g \in Seq(Msg) /\ Len(g) \in Nat
      /\ \A k \in 2 .. Len(g) : g[k].role # g[k - 1].role
      /\ Len(g) > 0 => g[1].role = "user"
      /\ Len(m) > 0 /\ m[Len(m)].role = "user" => Len(g) > 0 /\ g[Len(g)] = m[Len(m)]
  <2>1. CASE m # <<>> /\ Head(m).role # "user"
    <3>1. /\ g \in Seq(Msg) /\ Len(g) = Len(m) - 1 /\ Head(m) = m[1]
          /\ \A i \in 1 .. Len(g) : g[i] = m[i + 1]
      BY <2>1, HeadTailProperties DEF FromUser
    <3>2. Len(m) > 0 BY <2>1, <1>1, EmptySeq
    <3>3. m[1].role = "assistant" BY <1>1, <2>1, <3>1, <3>2
    <3> HIDE DEF g
    <3>4. Len(g) \in Nat BY <1>1, <3>1, <3>2
    <3>5. \A k \in 2 .. Len(g) : g[k].role # g[k - 1].role
      <4> SUFFICES ASSUME NEW k \in 2 .. Len(g) PROVE g[k].role # g[k - 1].role OBVIOUS
      <4>1. k \in 1 .. Len(g) /\ k - 1 \in 1 .. Len(g) /\ k + 1 \in 2 .. Len(m)
            /\ (k - 1) + 1 = (k + 1) - 1
        BY <1>1, <3>1, <3>4
      <4>2. g[k] = m[k + 1] /\ g[k - 1] = m[(k + 1) - 1]
        <5>1. g[k - 1] = m[(k - 1) + 1] BY <3>1, <4>1
        <5> QED BY <3>1, <4>1, <5>1
      <4> QED BY <4>1, <4>2
    <3>6. Len(g) > 0 => g[1].role = "user"
      <4> SUFFICES ASSUME Len(g) > 0 PROVE g[1].role = "user" OBVIOUS
      <4>1. 1 \in 1 .. Len(g) /\ 2 \in 1 .. Len(m) /\ 2 \in 2 .. Len(m) BY <1>1, <3>1, <3>4
      <4>2. g[1] = m[2] BY <3>1, <4>1
      <4>3. m[2].role # m[1].role BY <4>1
      <4> QED BY <1>1, <3>3, <4>1, <4>2, <4>3
    <3>7. m[Len(m)].role = "user" => Len(g) > 0 /\ g[Len(g)] = m[Len(m)]
      <4> SUFFICES ASSUME m[Len(m)].role = "user" PROVE Len(g) > 0 /\ g[Len(g)] = m[Len(m)]
        OBVIOUS
      <4>1. Len(m) # 1 BY <3>3
      <4>2. Len(g) \in 1 .. Len(g) /\ Len(g) + 1 = Len(m) BY <1>1, <3>1, <3>2, <4>1
      <4> QED BY <3>1, <3>4, <4>2
    <3> QED BY <3>1, <3>4, <3>5, <3>6, <3>7
  <2>2. CASE ~(m # <<>> /\ Head(m).role # "user")
    <3>1. g = m BY <2>2 DEF FromUser
    <3>2. Len(m) > 0 => m[1].role = "user"
      <4>1. Len(m) > 0 => m # <<>> BY EmptySeq
      <4> QED BY <2>2, <4>1, HeadTailProperties
    <3> HIDE DEF g
    <3> QED BY <1>1, <3>1, <3>2
  <2> QED BY <2>1, <2>2
<1>3. Bad = {}
  <2> SUFFICES ASSUME Bad # {} PROVE FALSE OBVIOUS
  <2> HIDE DEF g
  <2>1. PICK i \in Bad : \A k \in Bad : i <= k
    <3>1. Bad \in SUBSET (1 .. Len(g)) OBVIOUS
    <3> HIDE DEF Bad
    <3> QED BY <1>2, <3>1, FirstPlace
  <2>2. i \in 1 .. Len(g) /\ g[i].role # Role(i) OBVIOUS
  <2>3. i # 1 BY <1>2, <2>2
  <2>4. i - 1 \in 1 .. Len(g) /\ i \in 2 .. Len(g) /\ ~(i <= i - 1) BY <1>2, <2>2, <2>3
  <2>5. g[i - 1].role = Role(i - 1) BY <2>1, <2>4
  <2>6. g[i].role # g[i - 1].role BY <1>2, <2>4
  <2>7. g[i].role \in {"user", "assistant"}
    <3>1. g[i] \in Msg BY <1>2, <2>2, ElementOfSeq
    <3> QED BY <3>1 DEF Msg
  <2>8. (i % 2 = 1) <=> ~((i - 1) % 2 = 1)
    <3>1. i \in Nat /\ i > 1 BY <1>2, <2>2, <2>3
    <3> QED BY <3>1, Parity
  <2> QED BY <2>2, <2>5, <2>6, <2>7, <2>8
<1> HIDE DEF g
<1> QED BY <1>2, <1>3 DEF g

LEMMA SameBlock ==
    ASSUME NEW x \in Block, NEW y \in Block, x.k = y.k, x.n = y.n, x.full = y.full
    PROVE  x = y
BY DEF Block

\* No two calls of a message have one id, and every block is of the message.
LEMMA CalledOnceFits ==
    ASSUME NEW bs \in Seq(Block), \A i \in 1 .. Len(bs) : bs[i].k = "use" => bs[i].full
    PROVE  /\ CalledOnce(bs) \in Seq(Block)
           /\ \A n \in 1 .. Len(CalledOnce(bs)) :
                 CalledOnce(bs)[n].k = "use" => CalledOnce(bs)[n].full
           /\ \A n, k \in 1 .. Len(CalledOnce(bs)) :
                 CalledOnce(bs)[n].k = "use" /\ CalledOnce(bs)[k].k = "use"
                 /\ CalledOnce(bs)[n].n = CalledOnce(bs)[k].n => n = k
<1> DEFINE S == {i \in DOMAIN bs : ~\E j \in 1 .. i - 1 : bs[i].k = "use" /\ bs[j] = bs[i]}
           K == Cardinality(S)
           o == CalledOnce(bs)
<1>1. Len(bs) \in Nat /\ DOMAIN bs = 1 .. Len(bs) /\ \A i \in 1 .. Len(bs) : bs[i] \in Block
  BY LenProperties, ElementOfSeq
<1>2. S \in SUBSET (1 .. Len(bs)) BY <1>1
<1>3. \A i \in S : \A j \in 1 .. i - 1 : bs[i].k = "use" => bs[j] # bs[i] OBVIOUS
<1>4. o = Picked(bs, S) BY DEF CalledOnce
<1> HIDE DEF S, o
<1>5. /\ K \in Nat
      /\ \A n \in 1 .. K : \E i \in S : Rank(S, i) = n
      /\ \A i \in S : Rank(S, i) \in 1 .. K /\ o[Rank(S, i)] = bs[i]
  BY <1>1, <1>2, <1>4, PickedAt
<1>6. o \in Seq(Block) /\ Len(o) = K
  <2>1. \A i \in S : bs[i] \in Block BY <1>1, <1>2
  <2> QED BY <1>1, <1>2, <1>4, <2>1, PickedSeq
<1> HIDE DEF K
<1>7. ASSUME NEW n \in 1 .. K PROVE o[n].k = "use" => o[n].full
  <2>1. PICK i \in S : Rank(S, i) = n BY <1>5
  <2> QED BY <1>2, <1>5, <2>1
<1>8. ASSUME NEW n \in 1 .. K, NEW k \in 1 .. K, o[n].k = "use", o[k].k = "use", o[n].n = o[k].n
      PROVE  n = k
  <2>1. PICK i \in S, j \in S : Rank(S, i) = n /\ Rank(S, j) = k BY <1>5
  <2>2. o[n] = bs[i] /\ o[k] = bs[j] BY <1>5, <2>1
  <2>3. i \in 1 .. Len(bs) /\ j \in 1 .. Len(bs) /\ i \in Nat /\ j \in Nat BY <1>2
  <2>4. bs[i].full /\ bs[j].full BY <1>8, <2>2, <2>3
  <2>5. bs[i] = bs[j]
    <3>1. bs[i] \in Block /\ bs[j] \in Block BY <1>1, <2>3
    <3>2. bs[i].full = TRUE /\ bs[j].full = TRUE BY <2>4, <3>1 DEF Block
    <3>3. bs[i].k = bs[j].k /\ bs[i].n = bs[j].n BY <1>8, <2>2
    <3> QED BY <3>1, <3>2, <3>3, SameBlock
  <2>6. ~(i < j)
    <3>1. i < j => i \in 1 .. j - 1 BY <1>1, <2>3
    <3> QED BY <1>3, <1>8, <2>2, <2>5, <3>1
  <2>7. ~(j < i)
    <3>1. j < i => j \in 1 .. i - 1 BY <1>1, <2>3
    <3> QED BY <1>3, <1>8, <2>2, <2>5, <3>1
  <2>8. i = j BY <2>3, <2>6, <2>7
  <2> QED BY <2>1, <2>8
<1> QED BY <1>6, <1>7, <1>8 DEF o

\* The ids of the blocks of a kind.
LEMMA IdsType ==
    ASSUME NEW bs \in Seq(Block), NEW kind
    PROVE  Ids(bs, kind) \in Seq(Nat)
<1> DEFINE S == {i \in DOMAIN bs : bs[i].k = kind}
           X == [i \in DOMAIN bs |-> bs[i].n]
<1>1. Len(bs) \in Nat /\ DOMAIN bs = 1 .. Len(bs) /\ \A i \in 1 .. Len(bs) : bs[i] \in Block
  BY LenProperties, ElementOfSeq
<1>2. S \in SUBSET (1 .. Len(bs)) /\ \A i \in S : X[i] \in Nat BY <1>1 DEF Block
<1>3. Ids(bs, kind) = Picked(X, S) BY DEF Ids
<1> HIDE DEF S, X
<1> QED BY <1>1, <1>2, <1>3, PickedSeq

\* An answer to every call at the head, no other result, and every block of
\* the message still there, a result as such or as text.
NoCall(bs) == \A i \in 1 .. Len(bs) : bs[i].k # "use"
Completes(a, uses, bs) ==
    /\ a \in Seq(Block) /\ Len(uses) <= Len(a)
    /\ \A n \in 1 .. Len(a) :
          IF n <= Len(uses) THEN a[n].k = "result" /\ a[n].n = uses[n] ELSE a[n].k = "text"
    /\ \A i \in 1 .. Len(bs) : \E n \in 1 .. Len(a) : a[n] \in {bs[i], Told(bs[i])}

LEMMA AnsweredFits ==
    ASSUME NEW uses \in Seq(Nat), NEW bs \in Seq(Block), NoCall(bs)
    PROVE  Completes(Answered(uses, bs), uses, bs)
<1> DEFINE A == Answers(uses, bs)
           L == Leftover(uses, bs)
           M == Len(uses)
           K == Cardinality(L)
           T == [i \in DOMAIN bs |-> AsText(bs[i])]
           F == [i \in DOMAIN uses |-> AnswerTo(uses[i], uses, bs)]
           R == Picked(T, L)
           a == Answered(uses, bs)
<1>1. /\ Len(bs) \in Nat /\ DOMAIN bs = 1 .. Len(bs) /\ \A i \in 1 .. Len(bs) : bs[i] \in Block
      /\ M \in Nat /\ DOMAIN uses = 1 .. M /\ \A i \in 1 .. M : uses[i] \in Nat
  BY LenProperties, ElementOfSeq
<1>2. A \in SUBSET (1 .. Len(bs)) /\ L = (1 .. Len(bs)) \ A BY <1>1 DEF Answers, Leftover
<1>3. \A i \in A : /\ bs[i].k = "result" /\ \E u \in 1 .. M : uses[u] = bs[i].n
                    /\ \A j \in 1 .. i - 1 : bs[j].k = "result" => bs[j].n # bs[i].n
  BY <1>1 DEF Answers, Range
<1>4. \A i, j \in A : bs[i].n = bs[j].n => i = j
  <2> SUFFICES ASSUME NEW i \in A, NEW j \in A, bs[i].n = bs[j].n, i # j PROVE FALSE OBVIOUS
  <2>1. i \in 1 .. Len(bs) /\ j \in 1 .. Len(bs) BY <1>2
  <2>2. i \in 1 .. j - 1 \/ j \in 1 .. i - 1 BY <1>1, <2>1
  <2> QED BY <1>3, <2>2
<1> HIDE DEF A
<1>5. \A u : AnswerTo(u, uses, bs) = LET own == {i \in A : bs[i].n = u}
                                     IN  IF own = {} THEN NoResult(u) ELSE bs[CHOOSE i \in own : TRUE]
  BY DEF AnswerTo, A
<1>6. ASSUME NEW u \in Nat
      PROVE  /\ AnswerTo(u, uses, bs) \in Block
             /\ AnswerTo(u, uses, bs).k = "result" /\ AnswerTo(u, uses, bs).n = u
             /\ \A i \in A : bs[i].n = u => AnswerTo(u, uses, bs) = bs[i]
  <2> DEFINE own == {i \in A : bs[i].n = u}
  <2>1. CASE own = {}
    <3>1. AnswerTo(u, uses, bs) = [k |-> "result", n |-> u, full |-> FALSE]
      BY <1>5, <2>1 DEF NoResult
    <3> QED BY <2>1, <3>1 DEF Block
  <2>2. CASE own # {}
    <3> DEFINE c == CHOOSE i \in own : TRUE
    <3>1. c \in own BY <2>2
    <3>2. AnswerTo(u, uses, bs) = bs[c] BY <1>5, <2>2
    <3> HIDE DEF c
    <3>3. c \in A /\ bs[c].n = u BY <3>1
    <3>4. bs[c] \in Block /\ bs[c].k = "result" BY <1>1, <1>2, <1>3, <3>3
    <3> QED BY <1>4, <3>2, <3>3, <3>4
  <2> QED BY <2>1, <2>2
<1>7. ASSUME NEW i \in L
      PROVE  T[i] \in Block /\ T[i].k = "text" /\ T[i] \in {bs[i], Told(bs[i])}
  <2>1. i \in 1 .. Len(bs) /\ bs[i] \in Block /\ bs[i].k # "use" BY <1>1, <1>2 DEF NoCall
  <2>2. T[i] = AsText(bs[i]) BY <1>1, <2>1
  <2> QED BY <2>1, <2>2, TextOf
<1>8. a = F \o R BY DEF Answered
<1>9. \A i \in 1 .. M : F[i] = AnswerTo(uses[i], uses, bs) BY <1>1
<1>10. F \in [1 .. M -> Block] BY <1>1, <1>6
<1> HIDE DEF F, T, L
<1>11. F \in Seq(Block) /\ Len(F) = M
  <2>1. F \in Seq(Block) BY <1>1, <1>10, SeqDef
  <2>2. Len(F) \in Nat /\ 1 .. Len(F) = 1 .. M BY <1>10, <2>1, LenProperties
  <2> HIDE DEF M
  <2> QED BY <1>1, <2>1, <2>2
<1>12. L \in SUBSET (1 .. Len(bs)) BY <1>2
<1>13. R \in Seq(Block) /\ Len(R) = K BY <1>1, <1>7, <1>12, PickedSeq
<1>14. /\ K \in Nat
       /\ \A n \in 1 .. K : \E i \in L : Rank(L, i) = n
       /\ \A i \in L : Rank(L, i) \in 1 .. K /\ R[Rank(L, i)] = T[i]
  BY <1>1, <1>12, PickedAt
<1> HIDE DEF R, K, M, a
<1>15. a \in Seq(Block) /\ Len(a) = M + K
       /\ \A n \in 1 .. M + K : a[n] = IF n <= M THEN F[n] ELSE R[n - M]
  BY <1>8, <1>11, <1>13, ConcatProperties
<1>16. ASSUME NEW n \in 1 .. M + K
       PROVE  IF n <= M THEN a[n].k = "result" /\ a[n].n = uses[n] ELSE a[n].k = "text"
  <2>1. CASE n <= M
    <3>1. n \in 1 .. M BY <1>1, <1>14, <2>1
    <3>2. a[n] = AnswerTo(uses[n], uses, bs) BY <1>9, <1>15, <2>1, <3>1
    <3> QED BY <1>1, <1>6, <2>1, <3>1, <3>2
  <2>2. CASE ~(n <= M)
    <3>1. n - M \in 1 .. K BY <1>1, <1>14, <2>2
    <3>2. PICK i \in L : Rank(L, i) = n - M BY <1>14, <3>1
    <3>3. a[n] = T[i] BY <1>14, <1>15, <2>2, <3>2
    <3> QED BY <1>7, <2>2, <3>3
  <2> QED BY <2>1, <2>2
<1>17. ASSUME NEW i \in 1 .. Len(bs)
       PROVE  \E n \in 1 .. M + K : a[n] \in {bs[i], Told(bs[i])}
  <2>1. CASE i \in A
    <3>1. PICK u \in 1 .. M : uses[u] = bs[i].n BY <1>3, <2>1
    <3>2. u \in 1 .. M + K /\ u <= M BY <1>1, <1>14
    <3>3. a[u] = AnswerTo(uses[u], uses, bs) BY <1>9, <1>15, <3>2
    <3>4. a[u] = bs[i] BY <1>1, <1>6, <2>1, <3>1, <3>3
    <3> QED BY <3>2, <3>4
  <2>2. CASE i \notin A
    <3> DEFINE r == Rank(L, i)
    <3>1. i \in L BY <1>2, <2>2
    <3>2. r \in 1 .. K /\ R[r] = T[i] BY <1>14, <3>1
    <3> HIDE DEF r
    <3>3. M + r \in 1 .. M + K /\ ~(M + r <= M) /\ (M + r) - M = r BY <1>1, <1>14, <3>2
    <3>4. a[M + r] = T[i] BY <1>15, <3>2, <3>3
    <3> QED BY <1>7, <3>1, <3>3, <3>4
  <2> QED BY <2>1, <2>2
<1>18. M <= M + K BY <1>1, <1>14
<1>19. Len(a) = M + K /\ a \in Seq(Block) BY <1>15
<1> QED BY <1>16, <1>17, <1>18, <1>19 DEF a, M, Completes

\* The repaired list is one an API accepts, and still has the blocks of the
\* message it ends with.
LEMMA FixedFits ==
    ASSUME NEW h \in Seq(Msg)
    PROVE  /\ WellFormed(Fixed(h))
           /\ Len(h) > 0 /\ h[Len(h)].role = "user" => Has(Fixed(h), h[Len(h)].blocks)
<1> DEFINE M == Merged(h)
           m == FromUser(M)
           L == Len(m)
           once == [i \in DOMAIN m |->
                      IF m[i].role = "user" THEN m[i].blocks ELSE CalledOnce(m[i].blocks)]
           Asked(i) == IF i = 1 THEN <<>> ELSE Ids(once[i - 1], "use")
           Bs(i) == IF m[i].role = "user" THEN Answered(Asked(i), once[i]) ELSE once[i]
           w == Fixed(h)
<1>1. w = [i \in DOMAIN m |-> Message(m[i].role, Bs(i))] BY DEF Fixed
<1>2. /\ m \in Seq(Msg)
      /\ \A i \in 1 .. L : m[i].role = IF i % 2 = 1 THEN "user" ELSE "assistant"
      /\ Len(M) > 0 /\ M[Len(M)].role = "user" => L > 0 /\ m[L] = M[Len(M)]
  <2>1. M \in Seq(Msg) /\ \A k \in 2 .. Len(M) : M[k].role # M[k - 1].role BY MergedFits
  <2> HIDE DEF M
  <2> QED BY <2>1, FromUserFits
<1> HIDE DEF m
<1>3. /\ L \in Nat /\ DOMAIN m = 1 .. L
      /\ \A i \in 1 .. L : /\ m[i].role \in {"user", "assistant"} /\ m[i].blocks \in Seq(Block)
                            /\ Fit(m[i])
  BY <1>2, LenProperties, ElementOfSeq DEF Msg
<1>4. \A i \in 1 .. L : w[i].role = m[i].role /\ w[i].blocks = Bs(i) BY <1>1, <1>3 DEF Message
<1>5. ASSUME NEW i \in 1 .. L
      PROVE  /\ once[i] \in Seq(Block)
             /\ m[i].role = "user" => once[i] = m[i].blocks
                                     /\ NoCall(once[i])
             /\ m[i].role # "user" => once[i] = CalledOnce(m[i].blocks)
  BY <1>3, CalledOnceFits DEF Fit, NoCall
<1>6. ASSUME NEW i \in 1 .. L PROVE Asked(i) \in Seq(Nat)
  <2>1. CASE i = 1 BY <2>1, EmptySeq
  <2>2. CASE i # 1
    <3>1. i - 1 \in 1 .. L BY <1>3, <2>2
    <3>2. once[i - 1] \in Seq(Block) BY <1>5, <3>1
    <3> HIDE DEF once
    <3> QED BY <2>2, <3>2, IdsType
  <2> QED BY <2>1, <2>2
<1> HIDE DEF once
<1>7. ASSUME NEW i \in 1 .. L, i # 1, m[i].role = "user"
      PROVE  Asked(i) = Ids(w[i - 1].blocks, "use")
  <2>1. i - 1 \in 1 .. L /\ i \in Nat /\ i > 1 BY <1>3, <1>7
  <2>2. (i % 2 = 1) <=> ~((i - 1) % 2 = 1) BY <2>1, Parity
  <2>3. m[i - 1].role # "user" BY <1>2, <1>7, <2>1, <2>2
  <2>4. w[i - 1].blocks = once[i - 1] BY <1>4, <2>1, <2>3
  <2> QED BY <1>7, <2>4
<1>8. ASSUME NEW i \in 1 .. L, m[i].role = "user"
      PROVE  Completes(w[i].blocks, Asked(i), m[i].blocks)
  <2> DEFINE asked == Asked(i)
             bs == once[i]
  <2>1. w[i].blocks = Answered(asked, bs) BY <1>4, <1>8
  <2>2. asked \in Seq(Nat) BY <1>6
  <2>3. bs \in Seq(Block) /\ bs = m[i].blocks /\ NoCall(bs) BY <1>5, <1>8
  <2> HIDE DEF asked, bs, Asked, w
  <2>4. Completes(Answered(asked, bs), asked, bs) BY <2>2, <2>3, AnsweredFits
  <2> QED BY <2>1, <2>3, <2>4 DEF asked
<1>9. ASSUME NEW i \in 1 .. L, m[i].role # "user"
      PROVE  /\ w[i].blocks \in Seq(Block)
             /\ \A j, k \in 1 .. Len(w[i].blocks) :
                   w[i].blocks[j].k = "use" /\ w[i].blocks[k].k = "use"
                   /\ w[i].blocks[j].n = w[i].blocks[k].n => j = k
  <2>1. w[i].blocks = CalledOnce(m[i].blocks) BY <1>4, <1>5, <1>9
  <2>2. m[i].blocks \in Seq(Block) /\ \A j \in 1 .. Len(m[i].blocks) :
           m[i].blocks[j].k = "use" => m[i].blocks[j].full
    BY <1>3 DEF Fit
  <2> QED BY <2>1, <2>2, CalledOnceFits
<1>10. DOMAIN w = 1 .. L BY <1>1, <1>3
<1> HIDE DEF w, Bs
<1>11. WellFormed(w)
  <2> SUFFICES ASSUME NEW i \in 1 .. L
               PROVE  LET bs == w[i].blocks
                          asked == IF i = 1 THEN <<>> ELSE Ids(w[i - 1].blocks, "use")
                      IN  /\ w[i].role = IF i % 2 = 1 THEN "user" ELSE "assistant"
                          /\ \A j, k \in DOMAIN bs :
                                bs[j].k = "use" /\ bs[k].k = "use" /\ bs[j].n = bs[k].n => j = k
                          /\ w[i].role = "user" =>
                                /\ Len(asked) <= Len(bs)
                                /\ \A j \in DOMAIN bs :
                                      IF j <= Len(asked) THEN bs[j].k = "result" /\ bs[j].n = asked[j]
                                      ELSE bs[j].k # "result"
    BY <1>10 DEF WellFormed
  <2>1. CASE m[i].role = "user"
    <3>1. Asked(i) = IF i = 1 THEN <<>> ELSE Ids(w[i - 1].blocks, "use") BY <1>7, <2>1
    <3>2. w[i].blocks \in Seq(Block) /\ DOMAIN w[i].blocks = 1 .. Len(w[i].blocks)
      BY <1>8, <2>1, LenProperties DEF Completes
    <3> HIDE DEF Asked
    <3>3. \A j \in 1 .. Len(w[i].blocks) : w[i].blocks[j].k # "use" BY <1>8, <2>1 DEF Completes
    <3>4. /\ Len(Asked(i)) <= Len(w[i].blocks)
          /\ \A j \in 1 .. Len(w[i].blocks) :
                IF j <= Len(Asked(i)) THEN w[i].blocks[j].k = "result" /\ w[i].blocks[j].n = Asked(i)[j]
                ELSE w[i].blocks[j].k # "result"
      BY <1>8, <2>1 DEF Completes
    <3> QED BY <1>2, <1>4, <3>1, <3>2, <3>3, <3>4
  <2>2. CASE m[i].role # "user"
    <3>1. DOMAIN w[i].blocks = 1 .. Len(w[i].blocks) BY <1>9, <2>2, LenProperties
    <3>2. w[i].role # "user" BY <1>4, <2>2
    <3> QED BY <1>2, <1>4, <1>9, <2>2, <3>1, <3>2
  <2> QED BY <2>1, <2>2
<1>12. ASSUME Len(h) > 0, h[Len(h)].role = "user" PROVE Has(w, h[Len(h)].blocks)
  <2> DEFINE tail == h[Len(h)].blocks
  <2>1. /\ Len(M) > 0 /\ M[Len(M)].role = "user"
        /\ \A b \in 1 .. Len(tail) :
              \E n \in 1 .. Len(M[Len(M)].blocks) : M[Len(M)].blocks[n] = tail[b]
    BY <1>12, MergedFits
  <2>2. L > 0 /\ m[L] = M[Len(M)] BY <1>2, <2>1
  <2>3. L \in 1 .. L /\ m[L].role = "user" BY <1>3, <2>1, <2>2
  <2>4. Len(w) = L /\ w # <<>> /\ Last(w) = w[L]
    <3>1. \A i \in 1 .. L : w[i] = Message(m[i].role, Bs(i)) BY <1>1, <1>3 DEF w
    <3> DEFINE C == {w[i] : i \in 1 .. L}
    <3>2. w = [i \in 1 .. L |-> w[i]] BY <1>1, <1>3 DEF w
    <3>3. w \in [1 .. L -> C] BY <3>2
    <3> HIDE DEF C
    <3>4. w \in Seq(C) BY <1>3, <3>3, SeqDef
    <3>5. Len(w) \in Nat /\ 1 .. Len(w) = 1 .. L BY <1>10, <3>4, LenProperties
    <3>6. Len(w) = L
      <4> HIDE DEF L
      <4> QED BY <1>3, <3>5
    <3> QED BY <2>2, <3>6, EmptySeq DEF Last
  <2>5. h[Len(h)] \in Msg
    <3>1. Len(h) \in Nat BY LenProperties
    <3>2. Len(h) \in 1 .. Len(h) BY <1>12, <3>1
    <3> QED BY <3>2, ElementOfSeq
  <2>6. tail \in Seq(Block) /\ DOMAIN tail = 1 .. Len(tail) BY <2>5, LenProperties DEF Msg
  <2>7. w[L].blocks \in Seq(Block) /\ DOMAIN w[L].blocks = 1 .. Len(w[L].blocks)
    BY <1>8, <2>3, LenProperties DEF Completes
  <2>8. ASSUME NEW b \in Range(tail) PROVE {b, Told(b)} \cap Range(w[L].blocks) # {}
    <3>1. PICK x \in 1 .. Len(tail) : tail[x] = b BY <2>6 DEF Range
    <3>2. PICK y \in 1 .. Len(m[L].blocks) : m[L].blocks[y] = b BY <2>1, <2>2, <3>1
    <3>3. PICK n \in 1 .. Len(w[L].blocks) : w[L].blocks[n] \in {b, Told(b)}
      BY <1>8, <2>3, <3>2 DEF Completes
    <3>4. w[L].blocks[n] \in Range(w[L].blocks) BY <2>7 DEF Range
    <3> QED BY <3>3, <3>4
  <2> HIDE DEF tail, L
  <2> QED BY <2>4, <2>8 DEF Has, tail
<1> QED BY <1>11, <1>12 DEF w
-----------------------------------------------------------------------------
(* What trimming and chat() do. *)

LEMMA ToldTwice ==
    ASSUME NEW b \in Block, NEW x \in {b, Told(b)}
    PROVE  x \in Block /\ x.full = b.full /\ Told(x) = Told(b)
<1> DEFINE kk == b.k
           nn == b.n
           ff == b.full
<1>1. b = [k |-> kk, n |-> nn, full |-> ff] /\ nn \in Nat /\ ff \in BOOLEAN BY DEF Block
<1> HIDE DEF kk, nn, ff
<1>2. \A y : [[k |-> y, n |-> nn, full |-> ff] EXCEPT !.k = "text"]
             = [k |-> "text", n |-> nn, full |-> ff]
  OBVIOUS
<1>3. Told(b) = [k |-> "text", n |-> nn, full |-> ff] BY <1>1, <1>2 DEF Told
<1>4. Told(Told(b)) = Told(b) BY <1>2, <1>3 DEF Told
<1>5. Told(b) \in Block /\ Told(b).full = ff /\ b.full = ff BY <1>1, <1>3 DEF Block
<1> QED BY <1>4, <1>5

\* g ends with the message e, its results perhaps as text.
EndsWith(g, e) ==
    /\ Len(g) > 0 /\ g[Len(g)].role = e.role
    /\ \A i \in 1 .. Len(e.blocks) :
          \E n \in 1 .. Len(g[Len(g)].blocks) : g[Len(g)].blocks[n] \in {e.blocks[i], Told(e.blocks[i])}

LEMMA PlainFits ==
    ASSUME NEW m \in Msg
    PROVE  /\ Plain(m) \in Msg /\ Plain(m).role = m.role
           /\ Len(Plain(m).blocks) = Len(m.blocks)
           /\ \A i \in 1 .. Len(m.blocks) : Plain(m).blocks[i] \in {m.blocks[i], Told(m.blocks[i])}
<1> DEFINE bs == m.blocks
           K == Len(bs)
           T == [i \in DOMAIN bs |-> AsText(bs[i])]
<1>1. bs \in Seq(Block) /\ m.role \in {"user", "assistant"} /\ Fit(m) BY DEF Msg
<1>2. K \in Nat /\ DOMAIN bs = 1 .. K /\ \A i \in 1 .. K : bs[i] \in Block
  BY <1>1, LenProperties, ElementOfSeq
<1>3. \A i \in 1 .. K : T[i] = AsText(bs[i]) /\ T[i] \in Block BY <1>2, TextOf
<1>4. T \in [1 .. K -> Block] BY <1>2, <1>3
<1>5. Plain(m) = [role |-> m.role, blocks |-> T] BY DEF Plain, Message
<1> HIDE DEF T
<1>6. T \in Seq(Block) /\ Len(T) = K
  <2>1. T \in Seq(Block) BY <1>2, <1>4, SeqDef
  <2>2. Len(T) \in Nat /\ 1 .. Len(T) = 1 .. K BY <1>4, <2>1, LenProperties
  <2> HIDE DEF K
  <2> QED BY <1>2, <2>1, <2>2
<1>7. \A i \in 1 .. K : /\ T[i] \in {bs[i], Told(bs[i])}
                        /\ T[i].k = "use" => bs[i].k = "use" /\ T[i] = bs[i]
  BY <1>2, <1>3, TextOf
<1>8. Plain(m) \in [role : {"user", "assistant"}, blocks : Seq(Block)] BY <1>1, <1>5, <1>6
<1>9. Plain(m).role = m.role /\ Plain(m).blocks = T BY <1>5
<1>10. \A i \in 1 .. K : bs[i].k = "use" => m.role = "assistant" /\ bs[i].full
  BY <1>1 DEF Fit
<1> DEFINE p == Plain(m)
<1> HIDE DEF p
<1>11. p.role = m.role /\ p.blocks = T BY <1>9 DEF p
<1>12. Fit(p)
  <2> SUFFICES ASSUME NEW i \in 1 .. K, T[i].k = "use" PROVE p.role = "assistant" /\ T[i].full
    BY <1>6, <1>11 DEF Fit
  <2> QED BY <1>7, <1>10, <1>11
<1>13. p \in Msg BY <1>8, <1>12 DEF Msg, p
<1>14. Len(p.blocks) = K /\ \A i \in 1 .. K : p.blocks[i] \in {bs[i], Told(bs[i])}
  <2>1. \A i \in 1 .. K : T[i] \in {bs[i], Told(bs[i])} BY <1>7
  <2> QED BY <1>6, <1>11, <2>1
<1> QED BY <1>11, <1>13, <1>14 DEF p

\* The last message is never trimmed away.
LEMMA TrimsFit ==
    ASSUME NEW h \in Seq(Msg), NEW g \in Trims(h)
    PROVE  /\ g \in Seq(Msg)
           /\ Len(h) > 0 => EndsWith(g, h[Len(h)])
<1>1. Len(h) \in Nat /\ \A i \in 1 .. Len(h) : h[i] \in Msg BY LenProperties, ElementOfSeq
<1>2. CASE g = h BY <1>2 DEF EndsWith
<1>3. ASSUME NEW q \in 2 .. Len(h), g = Cut(h, q)
      PROVE  g \in Seq(Msg) /\ EndsWith(g, h[Len(h)])
  <2> DEFINE one == <<Plain(h[q])>>
             rest == SubSeq(h, q + 1, Len(h))
  <2>1. q \in Nat /\ q \in 1 .. Len(h) /\ q <= Len(h) BY <1>1
  <2>2. h[q] \in Msg /\ Plain(h[q]) \in Msg BY <1>1, <2>1, PlainFits
  <2>3. one \in Seq(Msg) /\ Len(one) = 1 /\ one[1] = Plain(h[q]) BY <2>2
  <2>4. rest \in Seq(Msg) /\ Len(rest) = Len(h) - q
        /\ \A i \in 1 .. Len(h) - q : rest[i] = h[q + i]
    <3>1. q + 1 \in 1 .. Len(h) + 1 /\ Len(h) \in q .. Len(h) BY <1>1, <2>1
    <3>2. \A i \in q + 1 .. Len(h) : h[i] \in Msg BY <1>1, <2>1
    <3> QED BY <1>1, <2>1, <3>2
  <2>5. g = one \o rest BY <1>3 DEF Cut
  <2> HIDE DEF one, rest
  <2>6. /\ g \in Seq(Msg) /\ Len(g) = 1 + (Len(h) - q)
        /\ \A i \in 1 .. 1 + (Len(h) - q) : g[i] = IF i <= 1 THEN one[i] ELSE rest[i - 1]
    <3>1. /\ g \in Seq(Msg) /\ Len(g) = Len(one) + Len(rest)
          /\ \A i \in 1 .. Len(one) + Len(rest) :
                g[i] = IF i <= Len(one) THEN one[i] ELSE rest[i - Len(one)]
      BY <2>3, <2>4, <2>5, ConcatProperties
    <3> QED BY <2>3, <2>4, <3>1
  <2>7. CASE q = Len(h)
    <3>1. Len(g) = 1 /\ g[Len(g)] = Plain(h[Len(h)]) BY <1>1, <2>1, <2>3, <2>6, <2>7
    <3>2. h[Len(h)] \in Msg BY <2>2, <2>7
    <3> DEFINE e == h[Len(h)]
    <3> HIDE DEF e
    <3>3. Plain(e).role = e.role /\ Len(Plain(e).blocks) = Len(e.blocks)
          /\ \A i \in 1 .. Len(e.blocks) : Plain(e).blocks[i] \in {e.blocks[i], Told(e.blocks[i])}
      BY <3>2, PlainFits DEF e
    <3>4. g[Len(g)] = Plain(e) BY <3>1 DEF e
    <3>5. EndsWith(g, e) BY <3>1, <3>3, <3>4 DEF EndsWith
    <3> QED BY <2>6, <3>5 DEF e
  <2>8. CASE q # Len(h)
    <3>1. Len(g) \in 1 .. 1 + (Len(h) - q) /\ ~(Len(g) <= 1) /\ Len(g) - 1 \in 1 .. Len(h) - q
          /\ q + (Len(g) - 1) = Len(h)
      BY <1>1, <2>1, <2>6, <2>8
    <3>2. g[Len(g)] = h[Len(h)] BY <2>4, <2>6, <3>1
    <3>3. Len(g) > 0 BY <1>1, <2>1, <3>1
    <3> QED BY <2>6, <3>2, <3>3 DEF EndsWith
  <2> QED BY <2>7, <2>8
<1> QED BY <1>2, <1>3 DEF Trims

\* What the user and the tools say.
Said == {b \in Block : b.k # "use"}

LEMMA SaidFits ==
    ASSUME NEW bs \in Seq(Said)
    PROVE  bs \in Seq(Block) /\ NoCall(bs) /\ Message("user", bs) \in Msg
<1>1. Len(bs) \in Nat /\ bs \in [1 .. Len(bs) -> Said] /\ \A i \in 1 .. Len(bs) : bs[i] \in Said
  BY LenProperties, ElementOfSeq
<1>2. bs \in [1 .. Len(bs) -> Block] BY <1>1 DEF Said
<1>3. bs \in Seq(Block) BY <1>1, <1>2, SeqDef
<1>4. NoCall(bs) BY <1>1 DEF NoCall, Said
<1> QED BY <1>3, <1>4 DEF Message, Msg, Fit, NoCall

LEMMA ContentFits ==
    ASSUME NEW results \in Seq(Said), NEW ids \in Seq(Nat), NEW n \in Nat
    PROVE  Content(results, ids, n) \in Seq(Said)
<1> DEFINE missing == {i \in DOMAIN ids : \A r \in Range(results) : r.n # ids[i]}
           X == [i \in DOMAIN ids |-> NoResult(ids[i])]
           none == Picked(X, missing)
<1>1. Len(ids) \in Nat /\ DOMAIN ids = 1 .. Len(ids) /\ \A i \in 1 .. Len(ids) : ids[i] \in Nat
  BY LenProperties, ElementOfSeq
<1>2. missing \in SUBSET (1 .. Len(ids)) BY <1>1
<1>3. \A i \in missing : X[i] \in Said BY <1>1, <1>2 DEF NoResult, Said, Block
<1>4. <<Words(n)>> \in Seq(Said) BY DEF Words, Said, Block
<1>5. Content(results, ids, n) = (results \o none) \o <<Words(n)>> BY DEF Content
<1> HIDE DEF missing, X
<1>6. none \in Seq(Said) BY <1>1, <1>2, <1>3, PickedSeq
<1> HIDE DEF none
<1> QED BY <1>4, <1>5, <1>6, ConcatProperties

\* A request for a list that ends with the message sent has what was sent.
LEMMA RequestHas ==
    ASSUME NEW g \in Seq(Msg), NEW bs \in Seq(Said), EndsWith(g, Message("user", bs))
    PROVE  Has(Fixed(g), bs)
<1> DEFINE tail == g[Len(g)].blocks
<1>1. Message("user", bs).role = "user" /\ Message("user", bs).blocks = bs BY DEF Message
<1>2. /\ Len(g) > 0 /\ g[Len(g)].role = "user"
      /\ \A i \in 1 .. Len(bs) : \E n \in 1 .. Len(tail) : tail[n] \in {bs[i], Told(bs[i])}
  BY <1>1 DEF EndsWith
<1>3. Has(Fixed(g), tail) BY <1>2, FixedFits
<1>4. g[Len(g)] \in Msg
  <2>1. Len(g) \in Nat BY LenProperties
  <2>2. Len(g) \in 1 .. Len(g) BY <1>2, <2>1
  <2> QED BY <2>2, ElementOfSeq
<1>5. DOMAIN tail = 1 .. Len(tail) BY <1>4, LenProperties DEF Msg
<1>6. bs \in Seq(Block) BY SaidFits
<1>7. DOMAIN bs = 1 .. Len(bs) /\ \A i \in 1 .. Len(bs) : bs[i] \in Block
  BY <1>6, LenProperties, ElementOfSeq
<1> HIDE DEF tail
<1>8. ASSUME NEW b \in Range(bs), b.full
      PROVE  {b, Told(b)} \cap Range(Last(Fixed(g)).blocks) # {}
  <2>1. PICK i \in 1 .. Len(bs) : bs[i] = b BY <1>7 DEF Range
  <2>2. PICK n \in 1 .. Len(tail) : tail[n] \in {b, Told(b)} BY <1>2, <2>1
  <2> DEFINE x == tail[n]
  <2>3. x \in Range(tail) BY <1>5 DEF Range
  <2>4. x \in {b, Told(b)} BY <2>2
  <2> HIDE DEF x
  <2>5. b \in Block BY <1>7, <2>1
  <2>6. x.full /\ Told(x) = Told(b) BY <1>8, <2>4, <2>5, ToldTwice
  <2>7. {x, Told(x)} \cap Range(Last(Fixed(g)).blocks) # {} BY <1>3, <2>3, <2>6 DEF Has
  <2> QED BY <2>4, <2>6, <2>7
<1>9. Fixed(g) # <<>> BY <1>3 DEF Has
<1> QED BY <1>8, <1>9 DEF Has
-----------------------------------------------------------------------------
(* The history through the actions. *)

HistoryType ==
    /\ history \in [Clients -> Seq(Msg)] /\ pending \in [Clients -> Seq(Nat)]
    /\ calls \in Seq(Nat) /\ sent \in Seq(Said)
    /\ chats \in Nat /\ made \in Nat
    /\ active \in Clients /\ client \in Clients
    /\ alike \in [Clients -> SUBSET Clients] /\ replaced \in BOOLEAN

\* What chat() appended is still the last message when the request goes out.
EndsSent ==
    phase = "appended" /\ ~replaced =>
        /\ Len(history[client]) > 0
        /\ history[client][Len(history[client])] = Message("user", sent)

\* Who shares a list with whom is an equivalence, and a shared list is one list.
Shares ==
    \A c \in Clients :
        /\ c \in alike[c]
        /\ \A d \in alike[c] : alike[d] = alike[c] /\ history[d] = history[c]

\* The inductive invariant.
HistoryInv ==
    /\ HistoryType
    /\ Shares
    /\ EndsSent
    /\ WireWellFormed
    /\ NewestIsSent

LEMMA NoWire == WellFormed(<<>>)
<1>1. DOMAIN <<>> = {} OBVIOUS
<1> QED BY <1>1 DEF WellFormed

LEMMA HistoryStarts == HistoryInit => HistoryInv
<1> SUFFICES ASSUME HistoryInit PROVE HistoryInv OBVIOUS
<1>1. active \in Clients /\ client \in Clients BY ToolHistoryAssumption DEF HistoryInit
<1>2. HistoryType BY <1>1, EmptySeq DEF HistoryInit, HistoryType
<1>3. WireWellFormed BY NoWire DEF HistoryInit, WireWellFormed
<1>4. EndsSent /\ NewestIsSent BY DEF HistoryInit, EndsSent, NewestIsSent
<1>5. Shares BY DEF HistoryInit, Shares
<1> QED BY <1>2, <1>3, <1>4, <1>5 DEF HistoryInv

LEMMA Assigned ==
    ASSUME HistoryType, NEW cs, NEW h \in Seq(Msg), Assign(cs, h)
    PROVE  /\ history' \in [Clients -> Seq(Msg)]
           /\ \A c \in Clients : history'[c] = IF c \in cs THEN h ELSE history[c]
BY DEF HistoryType, Assign

LEMMA GroupAssigned ==
    ASSUME HistoryType, Shares, NEW c \in Clients, NEW h \in Seq(Msg), Assign(alike[c], h),
           alike' = alike
    PROVE  history' \in [Clients -> Seq(Msg)] /\ history'[c] = h /\ Shares'
<1>1. /\ history' \in [Clients -> Seq(Msg)]
      /\ \A x \in Clients : history'[x] = IF x \in alike[c] THEN h ELSE history[x]
  BY Assigned
<1>2. ASSUME NEW x \in Clients
      PROVE  x \in alike[x] /\ \A d \in alike[x] : alike[d] = alike[x] /\ history'[d] = history'[x]
  <2> SUFFICES ASSUME NEW d \in alike[x] PROVE alike[d] = alike[x] /\ history'[d] = history'[x]
    BY DEF Shares
  <2>1. d \in Clients BY DEF HistoryType
  <2>2. alike[d] = alike[x] /\ history[d] = history[x] BY DEF Shares
  <2>3. x \in alike[c] <=> d \in alike[c]
    <3>1. x \in alike[c] => alike[x] = alike[c] BY DEF Shares
    <3>2. d \in alike[c] => alike[d] = alike[c] BY DEF Shares
    <3>3. x \in alike[x] BY DEF Shares
    <3> QED BY <2>2, <3>1, <3>2, <3>3
  <2> QED BY <1>1, <2>1, <2>2, <2>3
<1>3. Shares' BY <1>2 DEF Shares
<1>4. c \in alike[c] BY DEF Shares
<1> QED BY <1>1, <1>3, <1>4

LEMMA ChatKeeps ==
    ASSUME HistoryInv, NEW c \in Clients, NEW results \in Seq(Said), Chat(c, results)
    PROVE  HistoryInv'
<1> DEFINE ids == IF history[c] = <<>> THEN <<>> ELSE pending[c]
           bs == Content(results, ids, chats')
           h == Append(history[c], Message("user", bs))
<1>1. HistoryType BY DEF HistoryInv
<1>2. chats' = chats + 1 /\ chats' \in Nat BY <1>1 DEF Chat, HistoryType
<1>3. ids \in Seq(Nat) BY <1>1, EmptySeq DEF HistoryType
<1>4. bs \in Seq(Said)
  <2> HIDE DEF ids
  <2> QED BY <1>2, <1>3, ContentFits
<1>5. sent' = bs BY DEF Chat, Message
<1>6. Assign(alike[c], h) BY DEF Chat, Message
<1>7. /\ pending' = [pending EXCEPT ![c] = <<>>] /\ client' = c /\ phase' = "appended"
      /\ calls' = <<>> /\ replaced' = FALSE
      /\ alike' = alike /\ active' = active /\ wire' = wire /\ made' = made
  BY DEF Chat
<1> HIDE DEF bs
<1>8. Message("user", bs) \in Msg BY <1>4, SaidFits
<1>9. history[c] \in Seq(Msg) BY <1>1 DEF HistoryType
<1>10. h \in Seq(Msg) /\ Len(h) > 0 /\ h[Len(h)] = Message("user", bs)
  <2>1. h \in Seq(Msg) /\ Len(h) = Len(history[c]) + 1 /\ h[Len(h)] = Message("user", bs)
    BY <1>8, <1>9, AppendProperties
  <2>2. Len(history[c]) \in Nat BY <1>9, LenProperties
  <2> HIDE DEF h
  <2> QED BY <2>1, <2>2
<1> HIDE DEF h
<1>11. history' \in [Clients -> Seq(Msg)] /\ history'[c] = h /\ Shares'
  BY <1>1, <1>6, <1>7, <1>10, GroupAssigned DEF HistoryInv
<1>12. HistoryType'
  <2>1. pending' \in [Clients -> Seq(Nat)] /\ calls' \in Seq(Nat) BY <1>1, <1>7, EmptySeq DEF HistoryType
  <2>2. sent' \in Seq(Said) BY <1>4, <1>5
  <2>3. made' \in Nat /\ active' \in Clients /\ client' \in Clients
        /\ alike' \in [Clients -> SUBSET Clients] /\ replaced' \in BOOLEAN
    BY <1>1, <1>7 DEF HistoryType
  <2> QED BY <1>2, <1>11, <2>1, <2>2, <2>3 DEF HistoryType
<1>14. EndsSent' BY <1>5, <1>7, <1>10, <1>11 DEF EndsSent
<1>15. WireWellFormed' BY <1>7 DEF HistoryInv, WireWellFormed
<1>16. NewestIsSent' BY <1>7 DEF NewestIsSent
<1> QED BY <1>11, <1>12, <1>14, <1>15, <1>16 DEF HistoryInv

LEMMA RequestKeeps == ASSUME HistoryInv, Request PROVE HistoryInv'
<1>1. HistoryType BY DEF HistoryInv
<1>2. PICK g \in Trims(history[client]) : Assign(alike[client], g) /\ wire' = Fixed(g)
  BY DEF Request
<1>3. /\ phase = "appended" /\ phase' = "asking"
      /\ alike' = alike /\ pending' = pending /\ active' = active /\ client' = client
      /\ calls' = calls /\ sent' = sent /\ replaced' = replaced /\ chats' = chats /\ made' = made
  BY DEF Request
<1>4. history[client] \in Seq(Msg) BY <1>1 DEF HistoryType
<1>5. g \in Seq(Msg) BY <1>2, <1>4, TrimsFit
<1>6. history' \in [Clients -> Seq(Msg)] /\ Shares'
  <2>1. client \in Clients BY <1>1 DEF HistoryType
  <2> QED BY <1>1, <1>2, <1>3, <1>5, <2>1, GroupAssigned DEF HistoryInv
<1>7. HistoryType' BY <1>1, <1>3, <1>6 DEF HistoryType
<1>9. EndsSent' BY <1>3 DEF EndsSent
<1>10. WireWellFormed' BY <1>2, <1>5, FixedFits DEF WireWellFormed
<1>11. NewestIsSent'
  <2> SUFFICES ASSUME ~replaced PROVE Has(Fixed(g), sent) BY <1>2, <1>3 DEF NewestIsSent
  <2> DEFINE h == history[client]
  <2>1. Len(h) > 0 /\ h[Len(h)] = Message("user", sent) BY <1>3 DEF HistoryInv, EndsSent
  <2> HIDE DEF h
  <2>2. EndsWith(g, h[Len(h)]) BY <1>2, <1>4, <2>1, TrimsFit DEF h
  <2>3. sent \in Seq(Said) BY <1>1 DEF HistoryType
  <2> QED BY <1>5, <2>1, <2>2, <2>3, RequestHas
<1> QED BY <1>6, <1>7, <1>9, <1>10, <1>11 DEF HistoryInv

LEMMA RecordKeeps ==
    ASSUME HistoryInv, NEW bs, Message("assistant", bs) \in Msg, NEW ids \in Seq(Nat),
           made' \in Nat, Record(bs, ids)
    PROVE  HistoryInv'
<1> DEFINE h == Append(history[client], Message("assistant", bs))
<1>1. HistoryType BY DEF HistoryInv
<1>2. /\ phase' = "tools" /\ sent' = <<>> /\ wire' = <<>> /\ calls' = ids
      /\ pending' = (IF ids = <<>> THEN pending ELSE [pending EXCEPT ![client] = ids])
      /\ alike' = alike /\ active' = active /\ client' = client /\ replaced' = replaced
      /\ chats' = chats
  BY DEF Record
<1>3. history[client] \in Seq(Msg) BY <1>1 DEF HistoryType
<1>4. h \in Seq(Msg) BY <1>3, AppendProperties
<1>5. history' \in [Clients -> Seq(Msg)] /\ Shares'
  <2>1. CASE bs = <<>>
    <3>1. history' = history BY <2>1 DEF Record
    <3> QED BY <1>1, <1>2, <3>1 DEF HistoryInv, HistoryType, Shares
  <2>2. CASE bs # <<>>
    <3>1. Assign(alike[client], h) BY <2>2 DEF Record
    <3>2. client \in Clients BY <1>1 DEF HistoryType
    <3> HIDE DEF h
    <3> QED BY <1>1, <1>2, <1>4, <3>1, <3>2, GroupAssigned DEF HistoryInv
  <2> QED BY <2>1, <2>2
<1>6. pending' \in [Clients -> Seq(Nat)] BY <1>1, <1>2 DEF HistoryType
<1>7. sent' \in Seq(Said) BY <1>2, EmptySeq
<1>8. HistoryType' BY <1>1, <1>2, <1>5, <1>6, <1>7 DEF HistoryType
<1>9. WireWellFormed' BY <1>2, NoWire DEF WireWellFormed
<1>10. EndsSent' /\ NewestIsSent' BY <1>2 DEF EndsSent, NewestIsSent
<1> QED BY <1>2, <1>5, <1>8, <1>9, <1>10 DEF HistoryInv

\* What a model answers: words, calls, or nothing.
LEMMA AnswerKeeps ==
    ASSUME HistoryInv, RecordNothing \/ RecordWords \/ RecordCalls PROVE HistoryInv'
<1>1. HistoryType BY DEF HistoryInv
<1>2. CASE RecordNothing
  <2>1. <<>> \in Seq(Said) BY EmptySeq
  <2>2. <<>> \in Seq(Nat) /\ <<>> \in Seq(Block) /\ Len(<<>>) = 0 BY EmptySeq
  <2>3. Message("assistant", <<>>) \in Msg BY <2>2 DEF Message, Msg, Fit
  <2>4. made' \in Nat BY <1>1, <1>2 DEF RecordNothing, HistoryType
  <2> QED BY <1>2, <2>2, <2>3, <2>4, RecordKeeps DEF RecordNothing
<1>3. CASE RecordWords
  <2>1. <<Words(0)>> \in Seq(Block) /\ Len(<<Words(0)>>) = 1 /\ <<Words(0)>>[1].k = "text"
    BY DEF Words, Block
  <2>2. Message("assistant", <<Words(0)>>) \in Msg BY <2>1 DEF Message, Msg, Fit
  <2>3. <<>> \in Seq(Nat) BY EmptySeq
  <2>4. made' \in Nat BY <1>1, <1>3 DEF RecordWords, HistoryType
  <2> QED BY <1>3, <2>2, <2>3, <2>4, RecordKeeps DEF RecordWords
<1>4. CASE RecordCalls
  <2>1. made \in Nat BY <1>1 DEF HistoryType
  <2>2. PICK ids \in {<<made + 1>>, <<made + 1, made + 2>>, <<made + 1, made + 1>>} :
          /\ made' = made + Cardinality(Range(ids))
          /\ Record([i \in DOMAIN ids |-> Call(ids[i])], ids)
    BY <1>4 DEF RecordCalls
  <2> DEFINE cs == [i \in DOMAIN ids |-> Call(ids[i])]
  <2>3. ids \in Seq(Nat)
    <3>1. made + 1 \in Nat /\ made + 2 \in Nat BY <2>1
    <3> QED BY <3>1, OneAndTwo
  <2>4. Len(ids) \in Nat /\ DOMAIN ids = 1 .. Len(ids) /\ \A i \in 1 .. Len(ids) : ids[i] \in Nat
    BY <2>3, LenProperties, ElementOfSeq
  <2>5. \A i \in 1 .. Len(ids) : cs[i] = Call(ids[i]) /\ cs[i] \in Block /\ cs[i].full
    BY <2>4 DEF Call, Block
  <2>6. cs \in [1 .. Len(ids) -> Block] BY <2>4, <2>5
  <2> HIDE DEF cs
  <2>7. cs \in Seq(Block) /\ 1 .. Len(cs) = 1 .. Len(ids)
    <3>1. cs \in Seq(Block) BY <2>4, <2>6, SeqDef
    <3> QED BY <2>6, <3>1, LenProperties
  <2>8. Message("assistant", cs) \in Msg BY <2>5, <2>7 DEF Message, Msg, Fit
  <2>9. made' \in Nat
    <3> DEFINE R == Range(ids)
    <3>1. IsFiniteSet(1 .. Len(ids))
      <4>1. \A m \in Nat : IsFiniteSet(1 .. m) BY FS_Interval
      <4> QED BY <2>4, <4>1
    <3>2. ids \in Surjection(1 .. Len(ids), R)
      <4>1. ids \in [1 .. Len(ids) -> R] BY <2>3, <2>4 DEF Range
      <4> QED BY <2>4, <4>1 DEF Surjection, Range
    <3> HIDE DEF R
    <3>3. IsFiniteSet(R) BY <3>1, <3>2, FS_Surjection
    <3>4. Cardinality(R) \in Nat BY <3>3, FS_CardinalityType
    <3> QED BY <2>1, <2>2, <3>4 DEF R
  <2> QED BY <2>2, <2>3, <2>8, <2>9, RecordKeeps DEF cs
<1> QED BY <1>2, <1>3, <1>4

LEMMA NextTurnKeeps == ASSUME HistoryInv, NextTurn PROVE HistoryInv'
<1>1. HistoryType BY DEF HistoryInv
<1>2. PICK some \in SUBSET DOMAIN calls :
        Chat(client, Picked([i \in DOMAIN calls |-> Result(calls[i])], some))
  BY DEF NextTurn
<1> DEFINE X == [i \in DOMAIN calls |-> Result(calls[i])]
<1>3. calls \in Seq(Nat) /\ client \in Clients BY <1>1 DEF HistoryType
<1>4. Len(calls) \in Nat /\ DOMAIN calls = 1 .. Len(calls) /\ \A i \in 1 .. Len(calls) : calls[i] \in Nat
  BY <1>3, LenProperties, ElementOfSeq
<1>5. some \in SUBSET (1 .. Len(calls)) BY <1>4
<1>6. \A i \in some : X[i] \in Said BY <1>4, <1>5 DEF Result, Said, Block
<1> HIDE DEF X
<1>7. Picked(X, some) \in Seq(Said) BY <1>4, <1>5, <1>6, PickedSeq
<1> QED BY <1>2, <1>3, <1>7, ChatKeeps DEF X

LEMMA OthersKeep ==
    ASSUME HistoryInv, Task \/ EndTask \/ Abort \/ NextLlm \/ Load PROVE HistoryInv'
<1>1. HistoryType BY DEF HistoryInv
<1>2. CASE Task
  <2>1. <<>> \in Seq(Said) /\ active \in Clients BY <1>1, EmptySeq DEF HistoryType
  <2> QED BY <1>2, <2>1, ChatKeeps DEF Task
<1>3. CASE EndTask
  <2>1. HistoryType' BY <1>1, <1>3, EmptySeq DEF EndTask, HistoryType
  <2>2. EndsSent' /\ NewestIsSent' BY <1>3 DEF EndTask, EndsSent, NewestIsSent
  <2>3. WireWellFormed' BY <1>3 DEF EndTask, HistoryInv, WireWellFormed
  <2>4. Shares' BY <1>3 DEF EndTask, HistoryInv, Shares
  <2> QED BY <2>1, <2>2, <2>3, <2>4 DEF HistoryInv
<1>4. CASE Abort
  <2>1. HistoryType' BY <1>1, <1>4, EmptySeq DEF Abort, HistoryType
  <2>2. EndsSent' /\ NewestIsSent' BY <1>4 DEF Abort, EndsSent, NewestIsSent
  <2>3. WireWellFormed' BY <1>4, NoWire DEF Abort, WireWellFormed
  <2>4. Shares' BY <1>4 DEF Abort, HistoryInv, Shares
  <2> QED BY <2>1, <2>2, <2>3, <2>4 DEF HistoryInv
<1>5. CASE NextLlm
  <2>1. PICK c \in Clients \ {active} :
          /\ active' = c /\ history' = [history EXCEPT ![c] = history[active]]
          /\ Joins(c, active)
          /\ replaced' = (replaced \/ (client = c /\ active \notin alike[c]))
    BY <1>5 DEF NextLlm
  <2>2. /\ pending' = pending /\ client' = client /\ phase' = phase
        /\ calls' = calls /\ sent' = sent /\ wire' = wire /\ chats' = chats /\ made' = made
    BY <1>5 DEF NextLlm
  <2> DEFINE G == alike[active] \cup {c}
  <2>3. /\ alike' \in [Clients -> SUBSET Clients]
        /\ \A x \in Clients : alike'[x] = IF x \in G THEN G ELSE alike[x] \ {c}
    <3>1. active \in Clients /\ alike \in [Clients -> SUBSET Clients] BY <1>1 DEF HistoryType
    <3>2. alike' = [x \in Clients |-> IF x \in G THEN G ELSE alike[x] \ {c}]
      BY <2>1 DEF Joins
    <3> QED BY <3>1, <3>2
  <2>4. history' \in [Clients -> Seq(Msg)]
        /\ \A x \in Clients : history'[x] = IF x = c THEN history[active] ELSE history[x]
    BY <1>1, <2>1 DEF HistoryType
  <2>5. HistoryType'
    <3>1. active' \in Clients /\ replaced' \in BOOLEAN BY <1>1, <2>1 DEF HistoryType
    <3> QED BY <1>1, <2>2, <2>3, <2>4, <3>1 DEF HistoryType
  <2>6. active \in Clients /\ Shares /\ alike \in [Clients -> SUBSET Clients]
    BY <1>1 DEF HistoryInv, HistoryType
  <2>7. \A x \in Clients : x \in G => history'[x] = history[active]
    BY <2>4, <2>6 DEF Shares
  <2>8. ASSUME NEW x \in Clients
        PROVE  x \in alike'[x] /\ \A d \in alike'[x] : alike'[d] = alike'[x] /\ history'[d] = history'[x]
    <3>1. CASE x \in G
      <4>1. alike'[x] = G /\ history'[x] = history[active] BY <2>3, <2>7, <3>1
      <4>2. \A d \in G : d \in Clients BY <2>6
      <4> HIDE DEF G
      <4> QED BY <2>3, <2>7, <3>1, <4>1, <4>2
    <3>2. CASE x \notin G
      <4>1. alike'[x] = alike[x] \ {c} /\ x # c /\ x \in alike[x] BY <2>3, <2>6, <3>2 DEF Shares
      <4> SUFFICES ASSUME NEW d \in alike[x], d # c
                   PROVE  alike'[d] = alike[x] \ {c} /\ history'[d] = history'[x]
        BY <4>1
      <4>2. d \in Clients /\ alike[d] = alike[x] /\ history[d] = history[x] BY <2>6 DEF Shares
      <4>3. d \notin G
        <5>1. d \in alike[active] => alike[d] = alike[active] BY <2>6 DEF Shares
        <5> QED BY <3>2, <4>1, <4>2, <5>1
      <4> HIDE DEF G
      <4> QED BY <2>3, <2>4, <4>1, <4>2, <4>3
    <3> QED BY <3>1, <3>2
  <2>9. Shares' BY <2>8 DEF Shares
  <2>10. ~replaced' => ~replaced /\ history'[client] = history[client]
    <3>1. ~replaced' => client # c \/ active \in alike[c] BY <2>1
    <3>2. active \in alike[c] => history[active] = history[c] BY <2>6 DEF Shares
    <3>3. client \in Clients BY <1>1 DEF HistoryType
    <3> QED BY <2>1, <2>4, <3>1, <3>2, <3>3
  <2>11. EndsSent' BY <2>2, <2>10 DEF HistoryInv, EndsSent
  <2>12. WireWellFormed' /\ NewestIsSent' BY <2>2, <2>10 DEF HistoryInv, WireWellFormed, NewestIsSent
  <2> QED BY <2>5, <2>9, <2>11, <2>12 DEF HistoryInv
<1>6. CASE Load
  <2>1. PICK h \in Restored : Assign({active}, h) BY <1>6 DEF Load
  <2>2. /\ Leaves(active) /\ replaced' = (replaced \/ client = active)
        /\ pending' = pending /\ active' = active /\ client' = client /\ phase' = phase
        /\ calls' = calls /\ sent' = sent /\ wire' = wire /\ chats' = chats /\ made' = made
    BY <1>6 DEF Load
  <2>3. h \in Seq(Msg)
    <3>1. <<Words(0)>> \in Seq(Block) /\ Len(<<Words(0)>>) = 1 /\ <<Words(0)>>[1].k = "text"
      BY DEF Words, Block
    <3>2. <<Call(0)>> \in Seq(Block) /\ Len(<<Call(0)>>) = 1 /\ <<Call(0)>>[1].full
      BY DEF Call, Block
    <3>3. Message("user", <<Words(0)>>) \in Msg /\ Message("assistant", <<Words(0)>>) \in Msg
      BY <3>1 DEF Message, Msg, Fit
    <3>4. Message("assistant", <<Call(0)>>) \in Msg BY <3>2 DEF Message, Msg, Fit
    <3>5. <<>> \in Seq(Msg) BY EmptySeq
    <3> DEFINE u == Message("user", <<Words(0)>>)
               v == Message("assistant", <<Words(0)>>)
               w == Message("assistant", <<Call(0)>>)
    <3>6. h \in {<<>>, <<u, v>>, <<u, w>>} BY DEF Restored
    <3> HIDE DEF u, v, w
    <3>7. u \in Msg /\ v \in Msg /\ w \in Msg BY <3>3, <3>4 DEF u, v, w
    <3> QED BY <3>5, <3>6, <3>7, OneAndTwo
  <2>4. /\ history' \in [Clients -> Seq(Msg)]
        /\ \A x \in Clients : history'[x] = IF x \in {active} THEN h ELSE history[x]
    BY <1>1, <2>1, <2>3, Assigned
  <2>5. /\ alike' \in [Clients -> SUBSET Clients]
        /\ \A x \in Clients : alike'[x] = IF x = active THEN {active} ELSE alike[x] \ {active}
    <3>1. active \in Clients /\ alike \in [Clients -> SUBSET Clients] BY <1>1 DEF HistoryType
    <3> QED BY <2>2, <3>1 DEF Leaves
  <2>6. HistoryType' BY <1>1, <2>2, <2>4, <2>5 DEF HistoryType
  <2>7. active \in Clients /\ Shares /\ alike \in [Clients -> SUBSET Clients]
    BY <1>1 DEF HistoryInv, HistoryType
  <2>8. ASSUME NEW x \in Clients
        PROVE  x \in alike'[x] /\ \A d \in alike'[x] : alike'[d] = alike'[x] /\ history'[d] = history'[x]
    <3>1. CASE x = active BY <2>5, <3>1
    <3>2. CASE x # active
      <4>1. alike'[x] = alike[x] \ {active} /\ x \in alike[x] BY <2>5, <2>7, <3>2 DEF Shares
      <4> SUFFICES ASSUME NEW d \in alike[x], d # active
                   PROVE  alike'[d] = alike[x] \ {active} /\ history'[d] = history'[x]
        BY <3>2, <4>1
      <4>2. d \in Clients /\ alike[d] = alike[x] /\ history[d] = history[x] BY <2>7 DEF Shares
      <4> QED BY <2>4, <2>5, <3>2, <4>2
    <3> QED BY <3>1, <3>2
  <2>9. Shares' BY <2>8 DEF Shares
  <2>10. ~replaced' => ~replaced /\ history'[client] = history[client]
    BY <1>1, <2>2, <2>4 DEF HistoryType
  <2>11. EndsSent' BY <2>2, <2>10 DEF HistoryInv, EndsSent
  <2>12. WireWellFormed' /\ NewestIsSent' BY <2>2, <2>10 DEF HistoryInv, WireWellFormed, NewestIsSent
  <2> QED BY <2>6, <2>9, <2>11, <2>12 DEF HistoryInv
<1> QED BY <1>2, <1>3, <1>4, <1>5, <1>6

\* What the actions of the client make of the history.
LEMMA ClientHistory == HistoryInv /\ [Next]_vars => HistoryInv'
<1> SUFFICES ASSUME HistoryInv, [Next]_vars PROVE HistoryInv' OBVIOUS
<1>1. ASSUME UNCHANGED hvars PROVE HistoryInv'
  <2>1. HistoryType' BY <1>1 DEF hvars, HistoryInv, HistoryType
  <2>2. EndsSent' /\ WireWellFormed' /\ NewestIsSent'
    BY <1>1 DEF hvars, HistoryInv, EndsSent, WireWellFormed, NewestIsSent
  <2>3. Shares' BY <1>1 DEF hvars, HistoryInv, Shares
  <2> QED BY <2>1, <2>2, <2>3 DEF HistoryInv
<1>2. ASSUME Task \/ EndTask \/ Abort \/ NextLlm \/ Load PROVE HistoryInv' BY <1>2, OthersKeep
<1>3. ASSUME RecordNothing \/ RecordWords \/ RecordCalls PROVE HistoryInv' BY <1>3, AnswerKeeps
<1> QED BY <1>1, <1>2, <1>3, RequestKeeps, NextTurnKeeps
     DEF Next, SendRequest, Stream, Receive, GiveUp, vars

LEMMA HistoryAlways == Spec => []HistoryInv
<1>1. Init => HistoryInv BY HistoryStarts DEF Init
<1> QED BY <1>1, ClientHistory, PTL DEF Spec

\* Whatever aborts, exits, switched clients, trimming and replaced histories
\* leave in a list of any length, the request made of it is one an API accepts
\* (NativeToolClient.chat, _fix_messages, trim_messages_history).
THEOREM WireAlwaysWellFormed == Spec => []WireWellFormed
<1>1. HistoryInv => WireWellFormed BY DEF HistoryInv
<1> QED BY <1>1, HistoryAlways, PTL

\* What the user said and what the tools returned is in the last message of the
\* request, unless the history was replaced after the append: no repair and no
\* trimming loses it (ask(), trim_messages_history, _fix_messages).
THEOREM NewestAlwaysSent == Spec => []NewestIsSent
<1>1. HistoryInv => NewestIsSent BY DEF HistoryInv
<1> QED BY <1>1, HistoryAlways, PTL
=============================================================================
