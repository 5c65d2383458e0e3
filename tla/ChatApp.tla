------------------------------- MODULE ChatApp -------------------------------
(***************************************************************************)
(* frontends/chatapp_common.py, the mixin of the chat front ends: requests *)
(* of several chats, each a coroutine, over the one agent they share.  All *)
(* of them, and the commands, run on one event loop.                       *)
(***************************************************************************)
EXTENDS AgentQueue

CONSTANTS Chats, Requests

VARIABLES
    chat,        \* the chat a request came from
    step,        \* where its coroutine run_agent stands
    asked,       \* its task, 0 before put_task
    go,          \* requests whose state["running"] holds
    userTasks    \* user_tasks: the request a chat's /stop reaches
rvars == <<chat, step, asked, go, userTasks>>

NoRequest == "none"

ChatInit ==
    /\ chat \in [Requests -> Chats]
    /\ step = [r \in Requests |-> "none"]
    /\ asked = [r \in Requests |-> 0]
    /\ go = {}
    /\ userTasks = [c \in Chats |-> NoRequest]

Goes(r, from, to) == step[r] = from /\ step' = [step EXCEPT ![r] = to]

\* The loop's thread is not inside abort().
LoopFree == "loop" \notin aborting

\* run_agent up to its first await.
Ask(r) ==
    /\ LoopFree
    /\ Goes(r, "none", "thinking")
    /\ go' = go \union {r}
    /\ userTasks' = [userTasks EXCEPT ![chat[r]] = r]
    /\ UNCHANGED <<chat, asked>>
    /\ UNCHANGED avars

\* The "thinking" message is sent; the task is put.
PutChatTask(r) ==
    /\ Goes(r, "thinking", "polling")
    /\ PutTask
    /\ asked' = [asked EXCEPT ![r] = made']
    /\ UNCHANGED <<chat, go, userTasks>>

\* One item of the display queue: "next" is passed over, "done" is sent.
Poll(r) ==
    /\ step[r] = "polling" /\ r \in go
    /\ TakeItem(asked[r])
    /\ step' = IF Item(asked[r]) = "done" THEN [step EXCEPT ![r] = "sending"] ELSE step
    /\ UNCHANGED <<chat, asked, go, userTasks>>

\* MUTANT: a stop is seen after the next item only
NoticesAfterItem(r) == r \notin go /\ Has(asked[r])
\* The loop looks at state["running"] at least every three seconds.
Notices(r) == r \notin go
NoticeStop(r) ==
    /\ Goes(r, "polling", "stopping")
    /\ Notices(r)
    /\ UNCHANGED <<chat, asked, go, userTasks>>
    /\ UNCHANGED avars

\* The closing message is sent, after the answer perhaps a second one.
Closed(r) ==
    /\ userTasks' = [userTasks EXCEPT ![chat[r]] = NoRequest]
    /\ UNCHANGED <<chat, asked, go>>
    /\ UNCHANGED avars
SendDone(r) == IF r \in go THEN Goes(r, "sending", "over") /\ Closed(r)
               ELSE /\ Goes(r, "sending", "stopping")
                    /\ UNCHANGED <<chat, asked, go, userTasks>>
                    /\ UNCHANGED avars
SendStopped(r) == Goes(r, "stopping", "over") /\ Closed(r)

\* A send fails, of the closing messages or of a "still at it": an error
\* message, and the end.
SendFails(r) ==
    /\ step[r] \in {"thinking", "sending", "stopping"} \/ (step[r] = "polling" /\ isRunning)
    /\ step' = [step EXCEPT ![r] = "over"]
    /\ Closed(r)

\* /stop in a chat: its latest request is flagged, the agent is aborted,
\* whichever chat's task runs.
Stop(c) ==
    /\ LoopFree
    /\ go' = go \ {userTasks[c]}
    /\ AbortAgent("loop")
    /\ UNCHANGED <<chat, step, asked, userTasks>>
\* /restore, /new and /continue abort it too, and flag nobody.
Reset == LoopFree /\ AbortAgent("loop") /\ UNCHANGED rvars
StopSent == SetStop("loop") /\ UNCHANGED rvars

Coroutine(r) ==
    /\ LoopFree
    /\ \/ PutChatTask(r) \/ Poll(r) \/ NoticeStop(r)
       \/ SendDone(r) \/ SendStopped(r) \/ SendFails(r)
ChatNext ==
    \/ \E r \in Requests : Ask(r) \/ Coroutine(r)
    \/ \E c \in Chats : Stop(c)
    \/ Reset \/ StopSent
    \/ AgentStep /\ UNCHANGED rvars
-----------------------------------------------------------------------------
\* Every request is closed: by its answer, by an error, or, if its chat said
\* /stop while it was the chat's latest, at once, even if the agent never
\* answers again.
Open(r) == step[r] \notin {"none", "over"} /\ (worker = "dead" => r \notin go)
RequestsClose == (\E r \in Requests : Open(r)) ~> \A r \in Requests : ~Open(r)
=============================================================================
