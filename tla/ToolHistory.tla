----------------------------- MODULE ToolHistory -----------------------------
(***************************************************************************)
(* The conversation a native client keeps with its model: what             *)
(* NativeToolClient.chat appends, what trimming and reloading take away,   *)
(* what an aborted turn leaves behind, and what _fix_messages makes of the *)
(* list before it goes on the wire.  Message sizes are not modelled: a     *)
(* history longer than KeepMin may or may not be over its budget.          *)
(***************************************************************************)
EXTENDS Picking, Sequences, SequencesExt

CONSTANTS Clients,      \* the configured models
          KeepMin,      \* trimming leaves a list this short alone (9 in the code)
          MaxChats,     \* bound: requests in a behaviour
          MaxCalls,     \* bound: tool calls the model makes
          MaxLoads      \* bound: times the history is replaced

\* Without a client there is no agent (llm_no % len(llmclients)).
ASSUME ToolHistoryAssumption ==
    /\ Clients # {}
    /\ KeepMin \in Nat /\ KeepMin >= 2
    /\ MaxChats \in Nat /\ MaxCalls \in Nat /\ MaxLoads \in Nat

VARIABLES
    history,   \* backend.history of each client
    alike,     \* the clients whose history is the same list object (next_llm
               \* assigned it) as a client's
    pending,   \* _pending_tool_ids of each client
    active,    \* agent.llmclient
    client,    \* the client agent_runner_loop was given
    phase,     \* "idle", "appended", "asking" or "tools"
    calls,     \* ids of the tool calls of this turn's response
    sent,      \* the content handed to this turn's chat()
    replaced,  \* the client's list was replaced since chat() appended to it
    wire,      \* the messages of the request in flight
    chats, made, loads       \* counters
hvars == <<history, alike, pending, active, client, phase, calls, sent, replaced,
           wire, chats, made, loads>>

Words(n) == [k |-> "text", n |-> n, full |-> TRUE]
Told(r) == [r EXCEPT !.k = "text"]            \* a result rewritten as text
Call(n) == [k |-> "use", n |-> n, full |-> TRUE]
Result(n) == [k |-> "result", n |-> n, full |-> TRUE]
NoResult(n) == [k |-> "result", n |-> n, full |-> FALSE]   \* "" or "(error)"
Message(r, bs) == [role |-> r, blocks |-> bs]

\* A result rewritten as text; other blocks stay.
AsText(b) == IF b.k = "result" THEN Told(b) ELSE b
\* The ids of the blocks of a kind, in order.
Ids(bs, kind) ==
    Picked([i \in DOMAIN bs |-> bs[i].n], {i \in DOMAIN bs : bs[i].k = kind})

HistoryInit ==
    /\ history = [c \in Clients |-> <<>>]
    /\ alike = [c \in Clients |-> {c}]
    /\ pending = [c \in Clients |-> <<>>]
    /\ active = CHOOSE c \in Clients : TRUE
    /\ client = active
    /\ phase = "idle"
    /\ calls = <<>>
    /\ sent = <<>>
    /\ replaced = FALSE
    /\ wire = <<>>
    /\ chats = 0 /\ made = 0 /\ loads = 0

Assign(cs, h) == history' = [c \in Clients |-> IF c \in cs THEN h ELSE history[c]]
-----------------------------------------------------------------------------
(* _fix_messages *)

\* The blocks of some messages, in order.
Places(h, J) == UNION {{<<j, b>> : b \in DOMAIN h[j].blocks} : j \in J}
UpTo(P, p) == {q \in P : q[1] < p[1] \/ (q[1] = p[1] /\ q[2] <= p[2])}
Nth(P, n) == CHOOSE p \in P : Cardinality(UpTo(P, p)) = n
Joined(h, J) ==
    LET P == Places(h, J)
    IN  [n \in 1 .. Cardinality(P) |-> h[Nth(P, n)[1]].blocks[Nth(P, n)[2]]]

\* Neighbours of one role become one message.
Heads(h) == {i \in DOMAIN h : i = 1 \/ h[i].role # h[i - 1].role}
Followers(h, s) == {j \in DOMAIN h : s <= j /\ \A i \in s + 1 .. j : i \notin Heads(h)}
Merged(h) ==
    Picked([s \in DOMAIN h |-> Message(h[s].role, Joined(h, Followers(h, s)))], Heads(h))

FromUser(h) == IF h # <<>> /\ Head(h).role # "user" THEN Tail(h) ELSE h

\* An id is called once: a later call with the same id is dropped.
CalledOnce(bs) ==
    Picked(bs, {i \in DOMAIN bs : ~\E j \in 1 .. i - 1 : bs[i].k = "use" /\ bs[j] = bs[i]})

\* The results that answer: each id's first.
Answers(uses, bs) ==
    {i \in DOMAIN bs :
        /\ bs[i].k = "result" /\ bs[i].n \in Range(uses)
        /\ \A j \in 1 .. i - 1 : bs[j].k = "result" => bs[j].n # bs[i].n}
\* MUTANT: a result that answers nothing is dropped
LeftoverWords(uses, bs) == {i \in DOMAIN bs : bs[i].k # "result"}
\* What answers no call stays behind the answers, a result as text.
Leftover(uses, bs) == DOMAIN bs \ Answers(uses, bs)
AnswerTo(u, uses, bs) ==
    LET own == {i \in Answers(uses, bs) : bs[i].n = u}
    IN  IF own = {} THEN NoResult(u) ELSE bs[CHOOSE i \in own : TRUE]

\* MUTANT: calls nobody answered are left so
AnsweredIfKnown(uses, bs) ==
    Picked(bs, Answers(uses, bs)) \o Picked([i \in DOMAIN bs |-> AsText(bs[i])], Leftover(uses, bs))
\* Every call of the message before is answered, in order and once: with the
\* first result that names it, else with "(error)".
Answered(uses, bs) ==
    [i \in DOMAIN uses |-> AnswerTo(uses[i], uses, bs)]
        \o Picked([i \in DOMAIN bs |-> AsText(bs[i])], Leftover(uses, bs))

Fixed(h) ==
    LET m == FromUser(Merged(h))
        once == [i \in DOMAIN m |->
                   IF m[i].role = "user" THEN m[i].blocks ELSE CalledOnce(m[i].blocks)]
        Asked(i) == IF i = 1 THEN <<>> ELSE Ids(once[i - 1], "use")
    IN  [i \in DOMAIN m |->
           Message(m[i].role, IF m[i].role = "user" THEN Answered(Asked(i), once[i]) ELSE once[i])]
-----------------------------------------------------------------------------
(* trim_messages_history: what may be left of a list *)

Plain(m) == Message(m.role, [i \in DOMAIN m.blocks |-> AsText(m.blocks[i])])
Cut(h, q) == <<Plain(h[q])>> \o SubSeq(h, q + 1, Len(h))
\* Rounds of popping the head and what follows it up to the next user message,
\* while the list is longer than KeepMin.
Trims(h) ==
    {h} \union
    {Cut(h, q) : q \in {q \in 2 .. Len(h) :
        /\ h[q].role = "user"
        /\ \E p \in 1 .. q - 1 : /\ p = 1 \/ h[p].role = "user"
                                 /\ \A i \in p + 1 .. q - 1 : h[i].role # "user"
                                 /\ Len(h) - p + 1 > KeepMin}}
-----------------------------------------------------------------------------
(* NativeToolClient.chat *)

\* What chat() makes of the tool results and the prompt: every id that is
\* pending and has no result gets an empty one.
Content(results, ids, n) ==
    LET missing == {i \in DOMAIN ids : \A r \in Range(results) : r.n # ids[i]}
    IN  results \o Picked([i \in DOMAIN ids |-> NoResult(ids[i])], missing) \o <<Words(n)>>

\* chat() by client c, up to the append of ask().
Chat(c, results) ==
    /\ chats < MaxChats
    /\ chats' = chats + 1
    /\ LET ids == IF history[c] = <<>> THEN <<>> ELSE pending[c]
           msg == Message("user", Content(results, ids, chats'))
       IN  /\ sent' = msg.blocks
           /\ Assign(alike[c], Append(history[c], msg))
    /\ pending' = [pending EXCEPT ![c] = <<>>]
    /\ client' = c
    /\ phase' = "appended"
    /\ replaced' = FALSE
    /\ calls' = <<>>
    /\ UNCHANGED <<alike, active, wire, made, loads>>

\* A task begins (agent_runner_loop with agent.llmclient).
Task == phase = "idle" /\ Chat(active, <<>>)

\* The rest of ask() under its lock: trim, copy, and the request goes out.
Request ==
    /\ phase = "appended"
    /\ \E h \in Trims(history[client]) :
          /\ Assign(alike[client], h)
          /\ wire' = Fixed(h)
    /\ phase' = "asking"
    /\ UNCHANGED <<alike, pending, active, client, calls, sent, replaced, chats, made, loads>>

\* The stream has ended; an assistant message is recorded unless there is
\* nothing but an error, and its calls become pending.
Record(blocks, ids) ==
    /\ IF blocks = <<>> THEN UNCHANGED history
       ELSE Assign(alike[client], Append(history[client], Message("assistant", blocks)))
    /\ calls' = ids
    /\ pending' = IF ids = <<>> THEN pending ELSE [pending EXCEPT ![client] = ids]
    /\ phase' = "tools"
    /\ sent' = <<>> /\ wire' = <<>>
    /\ UNCHANGED <<alike, active, client, replaced, chats, loads>>

RecordNothing == phase = "asking" /\ Record(<<>>, <<>>) /\ UNCHANGED made
RecordWords == phase = "asking" /\ Record(<<Words(0)>>, <<>>) /\ UNCHANGED made
\* One call, two, or two under one id.
RecordCalls ==
    /\ phase = "asking"
    /\ \E ids \in {<<made + 1>>, <<made + 1, made + 2>>, <<made + 1, made + 1>>} :
          /\ made + Cardinality(Range(ids)) <= MaxCalls
          /\ made' = made + Cardinality(Range(ids))
          /\ Record([i \in DOMAIN ids |-> Call(ids[i])], ids)

\* The tools run in order, perhaps not all of them, perhaps some without data;
\* the results so far go into the next turn's chat().
NextTurn ==
    /\ phase = "tools"
    /\ \E some \in SUBSET DOMAIN calls :
          Chat(client, Picked([i \in DOMAIN calls |-> Result(calls[i])], some))

\* The task is over, exited, out of turns or aborted: this turn's results are
\* never sent.
EndTask ==
    /\ phase = "tools"
    /\ phase' = "idle"
    /\ calls' = <<>>
    /\ UNCHANGED <<history, alike, pending, active, client, sent, replaced, wire, chats, made,
                   loads>>

\* An abort, or an exception, while the answer streams: nothing is recorded.
Abort ==
    /\ phase = "asking"
    /\ phase' = "idle"
    /\ sent' = <<>> /\ wire' = <<>>
    /\ UNCHANGED <<history, alike, pending, active, client, calls, replaced, chats, made, loads>>
-----------------------------------------------------------------------------
(* Other threads *)

\* c leaves its list for the one of d, or for a new one.
Joins(c, d) ==
    alike' = [x \in Clients |-> IF x = c \/ x \in alike[d] THEN alike[d] \union {c}
                               ELSE alike[x] \ {c}]
Leaves(c) ==
    alike' = [x \in Clients |-> IF x = c THEN {c} ELSE alike[x] \ {c}]

\* next_llm: another client takes over the list, not the pending ids.
NextLlm ==
    /\ \E c \in Clients \ {active} :
          /\ active' = c
          /\ history' = [history EXCEPT ![c] = history[active]]
          /\ Joins(c, active)
          /\ replaced' = (replaced \/ (client = c /\ active \notin alike[c]))
    /\ UNCHANGED <<pending, client, phase, calls, sent, wire, chats, made, loads>>

Restored == {<<>>,
             <<Message("user", <<Words(0)>>), Message("assistant", <<Words(0)>>)>>,
             <<Message("user", <<Words(0)>>), Message("assistant", <<Call(0)>>)>>}

\* load_history of the bridge, restore of continue_cmd.py: the active client
\* gets a new list, whatever runs.
Load ==
    /\ loads < MaxLoads
    /\ loads' = loads + 1
    /\ \E h \in Restored : Assign({active}, h)
    /\ Leaves(active)
    /\ replaced' = (replaced \/ client = active)
    /\ UNCHANGED <<pending, active, client, phase, calls, sent, wire, chats, made>>
-----------------------------------------------------------------------------
\* What an API accepts of a request: user and assistant take turns and the user
\* begins; every call is answered once, at the head of the next message, and
\* nothing else is answered.  True of every list that aborts, exits, switches,
\* trims and replaced histories leave behind (_fix_messages).
WellFormed(w) ==
    \A i \in DOMAIN w :
        LET bs == w[i].blocks
            asked == IF i = 1 THEN <<>> ELSE Ids(w[i - 1].blocks, "use")
        IN  /\ w[i].role = IF i % 2 = 1 THEN "user" ELSE "assistant"
            /\ \A j, k \in DOMAIN bs : bs[j].k = "use" /\ bs[k].k = "use" /\ bs[j].n = bs[k].n => j = k
            /\ w[i].role = "user" =>
                  /\ Len(asked) <= Len(bs)
                  /\ \A j \in DOMAIN bs :
                        IF j <= Len(asked) THEN bs[j].k = "result" /\ bs[j].n = asked[j]
                        ELSE bs[j].k # "result"
\* The request in flight, whatever _fix_messages was given, is such a list.
WireWellFormed == WellFormed(wire)

\* w ends with a message that has all of bs, results perhaps as text.
Has(w, bs) ==
    /\ w # <<>>
    /\ \A b \in Range(bs) : b.full => {b, Told(b)} \cap Range(Last(w).blocks) # {}
\* What the user said and what the tools returned this turn is in the last
\* message of the request: no trimming, repair or leftover of an earlier turn
\* takes it away, unless the history was replaced after the append (ask()).
NewestIsSent == phase = "asking" /\ ~replaced => Has(wire, sent)
=============================================================================
