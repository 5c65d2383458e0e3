------------------------------ MODULE AcpBridge ------------------------------
(***************************************************************************)
(* frontends/genericagent_acp_bridge.py: the prompts of one ACP session.   *)
(* The reader thread takes one request after the other and accepts a       *)
(* prompt when none is active; a thread of the prompt drains its display   *)
(* queue into session updates, frees the session and answers the request a *)
(* moment later.                                                           *)
(***************************************************************************)
EXTENDS AgentQueue

CONSTANT Prompts        \* request ids the client uses

ASSUME AcpAssumption == "none" \notin Prompts

VARIABLES
    current,     \* session.current_prompt_id, "none" if none is active
    stand,       \* where the prompt's thread stands
    taskOf,      \* the agent's task for a prompt, 0 before put_task
    streamed,    \* sent_any
    finished,    \* finished_req_id: the request a thread is about to answer
    lines        \* what was written for the client: <<kind, prompt>>
pvars == <<current, stand, taskOf, streamed, finished, lines>>

AcpInit ==
    /\ current = "none"
    /\ stand = [p \in Prompts |-> "none"]
    /\ taskOf = [p \in Prompts |-> 0]
    /\ streamed = {}
    /\ finished = [p \in Prompts |-> "none"]
    /\ lines = <<>>

Moves(p, from, to) == stand[p] = from /\ stand' = [stand EXCEPT ![p] = to]
Write(kind, p) == lines' = Append(lines, <<kind, p>>)

\* handle_session_prompt.
\* MUTANT: the session is not looked at
FreeAlways == TRUE
Free == current = "none"
Prompt(p) ==
    /\ "reader" \notin aborting
    /\ IF Free
       THEN /\ Moves(p, "none", "accepted")
            /\ current' = p
            /\ UNCHANGED lines
       ELSE /\ Moves(p, "none", "over")
            /\ Write("error", p)
            /\ UNCHANGED current
    /\ UNCHANGED <<taskOf, streamed, finished>>
    /\ UNCHANGED avars

\* run_prompt begins.
PutPromptTask(p) ==
    /\ Moves(p, "accepted", "draining")
    /\ PutTask
    /\ taskOf' = [taskOf EXCEPT ![p] = made']
    /\ UNCHANGED <<current, streamed, finished, lines>>

\* _drain_agent_queue, one item: "done" is written only if nothing was.
Drain(p) ==
    /\ stand[p] = "draining"
    /\ TakeItem(taskOf[p])
    /\ LET item == Item(taskOf[p])
       IN  /\ IF item = "next" \/ p \notin streamed THEN Write("update", p) ELSE UNCHANGED lines
           /\ streamed' = IF item = "next" THEN streamed \union {p} ELSE streamed
           /\ stand' = IF item = "done" THEN [stand EXCEPT ![p] = "drained"] ELSE stand
    /\ UNCHANGED <<current, taskOf, finished>>

\* MUTANT: the id is read after the session was freed
FinishedCleared == "none"
Finished == current
\* The finally block: the session is free before the answer is written.
Release(p) ==
    /\ Moves(p, "drained", "answering")
    /\ finished' = [finished EXCEPT ![p] = Finished]
    /\ current' = "none"
    /\ UNCHANGED <<taskOf, streamed, lines>>
    /\ UNCHANGED avars

Answer(p) ==
    /\ Moves(p, "answering", "over")
    /\ IF finished[p] = "none" THEN UNCHANGED lines ELSE Write("result", finished[p])
    /\ UNCHANGED <<current, taskOf, streamed, finished>>
    /\ UNCHANGED avars

\* handle_session_cancel.
Cancel ==
    /\ current # "none"
    /\ "reader" \notin aborting
    /\ AbortAgent("reader")
    /\ UNCHANGED pvars
CancelSent == SetStop("reader") /\ UNCHANGED pvars

PromptThread(p) == PutPromptTask(p) \/ Drain(p) \/ Release(p) \/ Answer(p)
AcpNext ==
    \/ \E p \in Prompts : Prompt(p) \/ PromptThread(p)
    \/ Cancel \/ CancelSent
    \/ AgentStep /\ UNCHANGED pvars
-----------------------------------------------------------------------------
\* A request is answered once, and nothing of it is written after its answer,
\* though the session is freed, and the next prompt accepted, before the
\* answer goes out.
AnswerCloses ==
    \A i, j \in DOMAIN lines :
        i < j /\ lines[i][2] = lines[j][2] => lines[i][1] = "update"

\* Every prompt is answered (unless the agent's worker thread died).
Unanswered(p) ==
    /\ stand[p] # "none"
    /\ \A i \in DOMAIN lines : lines[i][2] = p => lines[i][1] = "update"
PromptsAnswered ==
    (\E p \in Prompts : Unanswered(p)) ~> worker = "dead" \/ \A p \in Prompts : ~Unanswered(p)
=============================================================================
