------------------------------ MODULE LlmClient ------------------------------
(***************************************************************************)
(* A client of the agent kernel at work (llmcore.py with agent_loop.py and *)
(* agentmain.py): each request of ToolHistory is streamed by Failover, and *)
(* what that returns decides what the history records.                     *)
(***************************************************************************)
EXTENDS Failover, ToolHistory

vars == <<fvars, hvars>>

Init == FailoverInit /\ HistoryInit

SendRequest == Request /\ Begin
Stream == StreamStep /\ UNCHANGED hvars

\* ask() after the stream: nothing is recorded of a lone error or an empty
\* answer; a notice and a reply are.
Receive ==
    /\ stream = "ended"
    /\ \/ reply \in {"error", "empty"} /\ RecordNothing
       \/ reply \in {"notice", "blocks"} /\ RecordWords
       \/ reply = "blocks" /\ RecordCalls
    /\ Close

GiveUp == Abort /\ Close

Next ==
    \/ Task /\ UNCHANGED fvars
    \/ SendRequest
    \/ Stream
    \/ Receive
    \/ GiveUp
    \/ NextTurn /\ UNCHANGED fvars
    \/ EndTask /\ UNCHANGED fvars
    \/ NextLlm /\ UNCHANGED fvars
    \/ Load /\ UNCHANGED fvars
    \/ Age /\ UNCHANGED hvars

Spec == Init /\ [][Next]_vars
-----------------------------------------------------------------------------
\* The state's types, and that the stream is open exactly while ask() waits.
TypeOK ==
    /\ cur \in 0 .. N - 1
    /\ try.s \in 0 .. N - 1
    /\ try.attempt \in 0 .. Retries
    /\ try.try \in 0 .. SoloRetries
    /\ heard \in 0 .. Chunks
    /\ last \in Kinds \union {"none"}
    /\ reply \in {"none", "empty", "error", "notice", "blocks"}
    /\ phase \in {"idle", "appended", "asking", "tools"}
    /\ (stream # "closed") = (phase = "asking")
    /\ active \in Clients /\ client \in Clients
    /\ made \in 0 .. MaxCalls /\ chats \in 0 .. MaxChats /\ loads \in 0 .. MaxLoads
=============================================================================
