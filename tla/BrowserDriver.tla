---------------------------- MODULE BrowserDriver ----------------------------
(***************************************************************************)
(* The browser tool: web_execute_js of the agents of one process           *)
(* (`Callers`), the driver they share (TMWebDriver: sessions by tab id, one *)
(* default session) and the browser's extension on one websocket.  `wire`  *)
(* holds what the extension sent and the server thread has not taken, the  *)
(* closing of its connection included: the extension connects again only   *)
(* after a close, so that a single first-in first-out queue does.  An       *)
(* exception in the handling of a news does not end the server thread.     *)
(***************************************************************************)
EXTENDS Naturals, Sequences, FiniteSets

CONSTANTS
    Callers,            \* agents with a call of web_execute_js to make (numbers)
    Tabs,               \* scriptable tabs the browser may have
    Timeout,            \* clock ticks a call waits for an answer
    MaxEvents           \* tabs opened or closed, connections lost, and calls,
                        \* which count twice (bound)

VARIABLES
    tabs, up,           \* the browser: its open tabs; the extension is connected
    wire,               \* news from the extension the server thread has not taken
    server,             \* what it does with the news it took: [does, list, left, found]
    sess,               \* driver.sessions: "none", "active", "away", "old" (> 600 s)
    stale,              \* sessions that hold a connection that is closed
    default,            \* driver.default_session_id
    call,               \* what each caller is doing
    ranIn, tabId,       \* the tab the caller's script was sent to; the one it reports
    meddled,            \* ghost: callers for whom another set the default since their
                        \* script's call
    torn,               \* ghost: sessions deleted as they came back or later
    troubles

bvars == <<tabs, up, wire, server, sess, stale, default, call, ranIn, tabId, meddled, torn,
           troubles>>
browser == <<tabs, up, troubles>>
thread == <<wire, server, stale>>
reports == <<ranIn, tabId, meddled>>

NoTab == "no tab"

ASSUME BrowserAssumption ==
    NoTab \notin Tabs /\ "pending" \notin Tabs /\ Timeout \in Nat

\* A web_execute_js calls execute_js for the page before, unless told not to,
\* and for the script.  (After its report it looks at the page again, in the
\* same way and without regard to errors: left out.)
Script == 2

\* `script`: "lost" before it reaches the extension, "sent", "acked", "answered".
Idle == [pc |-> "idle", stage |-> 1, sid |-> NoTab, victim |-> NoTab,
         script |-> "lost", acked |-> FALSE, jump |-> FALSE, clock |-> 0]

\* The server thread between two news: "idle", or "cut" after a list of tabs
\* whose handling an exception cut short.
Rest(how) == [does |-> how, list |-> {}, left |-> {}, found |-> NoTab]

BrowserInit ==
    /\ tabs \in SUBSET Tabs /\ up = FALSE
    /\ wire = <<>> /\ server = Rest("idle")
    /\ stale = {}
    /\ sess = [t \in Tabs |-> "none"]
    /\ default = NoTab
    /\ call = [c \in Callers |-> Idle]
    /\ ranIn = [c \in Callers |-> NoTab]
    /\ tabId = [c \in Callers |-> "pending"]
    /\ meddled = {}
    /\ torn = {}
    /\ troubles = 0

Active == {t \in Tabs : sess[t] = "active"}
Listed == {t \in Tabs : sess[t] # "none"}

Events == troubles + 2 * Cardinality({c \in Callers : call[c].pc # "idle"})

-----------------------------------------------------------------------------
(* The extension and the tabs. *)

Tells(kind, T) == wire' = Append(wire, [kind |-> kind, tabs |-> T])

\* ext_ready: the open tabs.
Connect ==
    /\ ~up
    /\ up' = TRUE
    /\ Tells("tabs", tabs)
    /\ UNCHANGED <<tabs, server, stale, sess, default, call, reports, torn, troubles>>

\* The connection breaks; scripts on their way are lost with it.
Disconnect ==
    /\ up /\ Events < MaxEvents
    /\ up' = FALSE /\ troubles' = troubles + 1
    /\ Tells("close", {})
    /\ call' = [c \in Callers |-> IF call[c].script = "sent"
                                 THEN [call[c] EXCEPT !.script = "lost"] ELSE call[c]]
    /\ UNCHANGED <<tabs, server, stale, sess, default, reports, torn>>

\* tabs_update.
ChangeTabs ==
    /\ Events < MaxEvents
    /\ troubles' = troubles + 1
    /\ \E t \in Tabs :
          /\ tabs' = IF t \in tabs THEN tabs \ {t} ELSE tabs \cup {t}
          /\ IF up THEN Tells("tabs", tabs') ELSE UNCHANGED wire
    /\ UNCHANGED <<up, server, stale, sess, default, call, reports, torn>>

\* A script is acknowledged as it arrives and answered when it has run, with
\* its value or with an error, over the connection there is then; it may
\* never end.  The server thread stores both by the call's id; what comes for
\* a call that has returned is stored and never read.
Acknowledge(c) ==
    /\ call[c].script = "sent"
    /\ call' = [call EXCEPT ![c].script = "acked"]
    /\ UNCHANGED <<browser, thread, sess, default, reports, torn>>

Answer(c) ==
    /\ call[c].script = "acked" /\ up
    /\ call' = [call EXCEPT ![c].script = "answered"]
    /\ UNCHANGED <<browser, thread, sess, default, reports, torn>>

-----------------------------------------------------------------------------
(* The driver's server thread: it looks at one session after another, and a *)
(* caller may delete one in between.                                        *)

\* What is left of its work: the listed sessions are marked, then the list's
\* tabs registered.
GoesOn(s) ==
    IF s.left # {} THEN s
    ELSE IF s.does = "marks" /\ s.list # {}
    THEN [s EXCEPT !.does = "registers", !.left = s.list]
    ELSE Rest("idle")

\* It takes a list of tabs, or the closing of the connection: then `list` are
\* the sessions, and those that hold an earlier connection are not marked.
TakeNews ==
    /\ wire # <<>> /\ server.does \in {"idle", "cut"}
    /\ wire' = Tail(wire)
    /\ \/ /\ Head(wire).kind = "tabs"
          /\ server' = GoesOn([does |-> "marks", list |-> Head(wire).tabs, left |-> Listed,
                               found |-> NoTab])
          /\ UNCHANGED stale
       \/ /\ Head(wire).kind = "close"
          /\ server' = GoesOn([does |-> "closes", list |-> Listed, left |-> Listed \ stale,
                               found |-> NoTab])
          /\ stale' = Listed
    /\ UNCHANGED <<browser, sess, default, call, reports, torn>>

\* Disconnected sessions stay listed; marking them again restarts their age.
MarkDisconnected(t) == sess' = [sess EXCEPT ![t] = "away"]

\* A session of a tab the list does not name is marked; a session that is
\* gone by now is an exception.
MarkSession(t) ==
    /\ server.does = "marks" /\ t \in server.left
    /\ \/ /\ t \notin Listed
          /\ server' = Rest("cut") /\ UNCHANGED sess
       \/ /\ t \in Listed
          /\ server' = GoesOn([server EXCEPT !.left = @ \ {t}])
          /\ IF t \in server.list THEN UNCHANGED sess ELSE MarkDisconnected(t)
    /\ UNCHANGED <<browser, wire, stale, default, call, reports, torn>>

\* The closed connection's sessions are marked, over a dictionary that must
\* not change its size.
CloseSession(t) ==
    /\ server.does = "closes" /\ t \in server.left
    /\ \/ /\ Listed # server.list
          /\ server' = Rest("idle") /\ UNCHANGED sess
       \/ /\ Listed = server.list
          /\ server' = GoesOn([server EXCEPT !.left = @ \ {t}])
          /\ MarkDisconnected(t)
    /\ UNCHANGED <<browser, wire, stale, default, call, reports, torn>>

\* MUTANT: a tab whose session exists is not registered again.
RegisteredKept(t) == [sess EXCEPT ![t] = IF @ = "none" THEN "active" ELSE @]

Registered(t) == [sess EXCEPT ![t] = "active"]

\* The first session ever registered becomes the default.
FirstDefault(t) == IF default = NoTab THEN default' = t ELSE UNCHANGED default

\* _register_client, a new session or one that reconnects.
RegisterClient(t) ==
    /\ sess' = Registered(t)
    /\ stale' = stale \ {t}
    /\ torn' = torn \ {t}
    /\ FirstDefault(t)

\* A tab of the list whose session is active keeps it; one without a session
\* gets one; one that is found again connects it in a step of its own.
RegisterTab(t) ==
    /\ server.does = "registers" /\ t \in server.left /\ server.found = NoTab
    /\ LET rest == [server EXCEPT !.left = @ \ {t}] IN
       \/ /\ t \in Active
          /\ server' = GoesOn(rest)
          /\ UNCHANGED <<sess, stale, torn, default>>
       \/ /\ t \notin Listed
          /\ server' = GoesOn(rest)
          /\ RegisterClient(t)
       \/ /\ t \in Listed \ Active
          /\ server' = [rest EXCEPT !.found = t]
          /\ UNCHANGED <<sess, stale, torn, default>>
    /\ UNCHANGED <<browser, wire, call, reports>>

\* Reconnect.  If the session was deleted meanwhile, before it was fetched,
\* that is an exception; after, a session no one finds is connected.
Reconnect(t) ==
    /\ server.found = t
    /\ LET done == GoesOn([server EXCEPT !.found = NoTab]) IN
       \/ /\ t \in Listed
          /\ server' = done
          /\ RegisterClient(t)
       \/ /\ t \notin Listed
          /\ server' = done
          /\ torn' = torn \cup {t} /\ FirstDefault(t)
          /\ UNCHANGED <<sess, stale>>
       \/ /\ t \notin Listed
          /\ server' = Rest("cut")
          /\ UNCHANGED <<sess, stale, torn, default>>
    /\ UNCHANGED <<browser, wire, call, reports>>

ServerThread ==
    \/ TakeNews
    \/ \E t \in Tabs : MarkSession(t) \/ CloseSession(t) \/ RegisterTab(t) \/ Reconnect(t)

\* Ten minutes pass over a session that is away.
GrowOld(t) ==
    /\ sess[t] = "away"
    /\ sess' = [sess EXCEPT ![t] = "old"]
    /\ UNCHANGED <<browser, thread, default, call, reports, torn>>

-----------------------------------------------------------------------------
(* A caller: web_execute_js, execute_js_rich and execute_js. *)

\* Caller c sets the default session, which the others will report.
Choose(c, t) ==
    /\ default' = t
    /\ meddled' = IF t # default THEN meddled \cup (Callers \ {c}) ELSE meddled

KeepDefault == UNCHANGED <<default, meddled>>

\* Another thread is about to add or delete a session: an iteration over the
\* dictionary may end with an exception.
Resized(c) ==
    \/ server.does = "registers" /\ server.left \cap Listed # server.left
    \/ \E d \in Callers \ {c} : call[d].pc = "drop" /\ call[d].victim \in Listed

\* The tool is called, for a tab or for the default one, with the page's
\* changes watched or not; without a session it returns.
Ask(c) ==
    /\ call[c].pc = "idle" /\ Events + 2 <= MaxEvents
    /\ \A d \in Callers : d < c => call[d].pc # "idle"      \* callers are alike
    /\ \/ /\ Active = {} \/ Resized(c)
          /\ call' = [call EXCEPT ![c].pc = "done"]
          /\ KeepDefault
       \/ /\ Active # {}
          /\ \E t \in Tabs \cup {NoTab}, first \in {1, Script} :
                /\ call' = [call EXCEPT ![c].pc = "call", ![c].stage = first]
                /\ IF t # NoTab THEN Choose(c, t) ELSE KeepDefault
    /\ UNCHANGED <<browser, thread, sess, ranIn, tabId, torn>>

\* The script goes to session t's client: the connection it was registered
\* with, which may be closed.
Connected(t) ==
    t \notin stale /\ up /\ \A i \in DOMAIN wire : wire[i].kind # "close"

Old == {t \in Tabs : sess[t] = "old"}

SendTo(c, t) ==
    /\ call' = [call EXCEPT ![c].pc = IF Old = {} THEN "wait" ELSE "clean", ![c].sid = t,
                            ![c].script = IF Connected(t) THEN "sent" ELSE "lost"]
    /\ ranIn' = IF call[c].stage = Script THEN [ranIn EXCEPT ![c] = t] ELSE ranIn

\* A call of execute_js returned or raised.  Errors of the calls around the
\* script are swallowed; the tab is reported a second after the script's.
AfterCall(c) ==
    [call EXCEPT ![c] = IF @.stage = Script THEN [Idle EXCEPT !.pc = "report"]
                        ELSE [Idle EXCEPT !.pc = "call", !.stage = Script]]

LookUp(c) ==
    /\ call[c].pc = "call"
    /\ IF default \in Active
       THEN SendTo(c, default)
       ELSE /\ call' = [call EXCEPT ![c].pc = "nap", ![c].sid = default]
            /\ UNCHANGED ranIn
    /\ meddled' = IF call[c].stage = Script THEN meddled \ {c} ELSE meddled
    /\ UNCHANGED <<browser, thread, sess, default, tabId, torn>>

\* MUTANT: the fall-back is not remembered.
FallBackOnce(c, t) == SendTo(c, t) /\ UNCHANGED <<default, meddled>>

\* No session of that name is connected: another one is taken and stays the
\* default (the code takes the first listed; tabs are alike here).
FallBack(c, t) == SendTo(c, t) /\ Choose(c, t)

\* Three seconds later: its session, another one, or an error.
WakeUpAgain(c) ==
    /\ call[c].pc = "nap"
    /\ \/ /\ call[c].sid \in Active
          /\ SendTo(c, call[c].sid) /\ KeepDefault
       \/ /\ call[c].sid \notin Active
          /\ \E t \in Active : FallBack(c, t)
       \/ /\ call[c].sid \notin Active /\ (Active = {} \/ Resized(c))
          /\ call' = AfterCall(c)
          /\ KeepDefault /\ UNCHANGED ranIn
    /\ UNCHANGED <<browser, thread, sess, tabId, torn>>

\* clean_sessions: a session is looked at, then deleted.  The server thread,
\* or another caller's cleaning, may come in between.
CleanSessions(c) ==
    /\ call[c].pc = "clean"
    /\ \/ \E t \in Old : call' = [call EXCEPT ![c].pc = "drop", ![c].victim = t]
       \/ Old = {} /\ call' = [call EXCEPT ![c].pc = "wait"]
    /\ UNCHANGED <<browser, thread, sess, default, reports, torn>>

DropSession(c) ==
    /\ call[c].pc = "drop"
    /\ LET t == call[c].victim IN
       /\ sess' = [sess EXCEPT ![t] = "none"]
       /\ stale' = stale \ {t}
       /\ torn' = IF sess[t] = "active" THEN torn \cup {t} ELSE torn
       /\ call' = IF sess[t] = "none" THEN AfterCall(c)
                  ELSE [call EXCEPT ![c].pc = "clean", ![c].victim = NoTab]
    /\ UNCHANGED <<browser, wire, server, default, reports>>

\* MUTANT: the acknowledgement restarts the clock at every turn of the loop.
RestartsAlways(c) == call[c].script \in {"acked", "answered"}

\* The acknowledgement restarts the clock, once.
Restarts(c) == ~call[c].acked /\ call[c].script \in {"acked", "answered"}

\* One turn of the waiting loop: a fifth of a second's sleep, the body, the test.
Wait(c) ==
    /\ call[c].pc = "wait"
    /\ LET here == call[c].sid \in Active
           jump == call[c].jump \/ ~here
           clock == IF Restarts(c) THEN 0 ELSE call[c].clock
       IN call' = IF (jump /\ here) \/ clock >= Timeout \/ call[c].script = "answered"
                  THEN AfterCall(c)
                  ELSE [call EXCEPT ![c].jump = jump, ![c].clock = clock,
                                    ![c].acked = @ \/ Restarts(c)]
    /\ UNCHANGED <<browser, thread, sess, default, reports, torn>>

\* The answer names the default session of this moment.
Report(c) ==
    /\ call[c].pc = "report"
    /\ tabId' = [tabId EXCEPT ![c] = default]
    /\ call' = [call EXCEPT ![c].pc = "done"]
    /\ UNCHANGED <<browser, thread, sess, default, ranIn, meddled, torn>>

Caller(c) ==
    \/ LookUp(c) \/ WakeUpAgain(c) \/ CleanSessions(c) \/ DropSession(c)
    \/ Wait(c) \/ Report(c)

\* Time passes for the callers that wait.
Tick ==
    /\ \E c \in Callers : call[c].pc = "wait" /\ call[c].clock < Timeout
    /\ call' = [c \in Callers |->
                  IF call[c].pc = "wait" /\ call[c].clock < Timeout
                  THEN [call[c] EXCEPT !.clock = @ + 1] ELSE call[c]]
    /\ UNCHANGED <<browser, thread, sess, default, reports, torn>>

BrowserNext ==
    \/ Connect \/ Disconnect \/ ChangeTabs
    \/ ServerThread
    \/ \E t \in Tabs : GrowOld(t)
    \/ \E c \in Callers : Ask(c) \/ Caller(c) \/ Acknowledge(c) \/ Answer(c)
    \/ Tick

-----------------------------------------------------------------------------
\* What the extension last told and the server has handled is what the driver
\* holds: while the extension is connected and its news are handled, the
\* active sessions are the open tabs, through tabs opened and closed,
\* connections lost and taken up again, and sessions cleaned up while the
\* server thread looks at them; but for a session that clean_sessions deleted
\* as it came back or after its look at it, and as long as the last list was
\* not cut short by a deletion.  (Active is what the driver goes by: a session
\* that a cut-short close left active keeps a closed connection, `stale`.)
TabsAreReachable ==
    up /\ wire = <<>> /\ server.does = "idle" => Active = tabs \ torn

\* The tab_id web_execute_js answers with is the tab its script was sent to,
\* also when the wanted one was gone and another was taken; unless another
\* agent of the process has set the one default session in between.
ReportNamesTheTab ==
    \A c \in Callers :
        tabId[c] # "pending" /\ ranIn[c] # NoTab /\ c \notin meddled => tabId[c] = ranIn[c]

\* Every web_execute_js comes to its end, whether its script ends, is never
\* delivered, loses its tab or its extension, or runs for ever.
ScriptsReturn == \A c \in Callers : (call[c].pc # "idle") ~> (call[c].pc = "done")
=============================================================================
