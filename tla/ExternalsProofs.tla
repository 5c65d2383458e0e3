--------------------------- MODULE ExternalsProofs ---------------------------
(***************************************************************************)
(* The browser's sessions agree with its tabs, a report names the tab of   *)
(* its script, and the bot runs at most once: for every number of tabs,    *)
(* callers, requests and children.                                         *)
(***************************************************************************)
EXTENDS Externals, SequenceTheorems, TLAPS

News == [kind : {"tabs", "close"}, tabs : SUBSET Tabs]

Sessions == [Tabs -> {"none", "active", "away", "old"}]

Works == [does : {"idle", "cut", "marks", "registers", "closes"}, list : SUBSET Tabs,
          left : SUBSET Tabs, found : Tabs \cup {NoTab}]

\* A session is either active or torn; what is still to be registered or
\* closed is of the list.
WireType ==
    /\ tabs \subseteq Tabs /\ up \in BOOLEAN
    /\ wire \in Seq(News)
    /\ sess \in Sessions
    /\ torn \subseteq Tabs /\ Active \cap torn = {} /\ stale \subseteq Listed
    /\ server \in Works
    /\ server.does \in {"registers", "closes"} => server.left \subseteq server.list
    /\ server.found # NoTab => server.does = "registers" /\ server.found \in server.list

\* The last news on the way is the browser's present state.
LastNews == IF up THEN [kind |-> "tabs", tabs |-> tabs] ELSE [kind |-> "close", tabs |-> {}]

\* The list the server thread handles is the browser's present state: how far
\* the sessions agree with it.
Agrees ==
    /\ server.does # "closes"
    /\ server.does = "idle" => Active = tabs \ torn
    /\ server.does = "marks" => server.list = tabs /\ Active \subseteq tabs \cup server.left
    /\ server.does = "registers" =>
          /\ server.list = tabs /\ Active \subseteq tabs
          /\ tabs \subseteq Active \cup torn \cup server.left \cup {server.found}

WireInv ==
    /\ WireType
    /\ wire # <<>> => wire[Len(wire)] = LastNews
    /\ wire = <<>> /\ up => Agrees

LEMMA WireStarts == BrowserInit => WireInv
<1> SUFFICES ASSUME BrowserInit PROVE WireInv OBVIOUS
<1>1. wire = <<>> /\ wire \in Seq(News) BY EmptySeq DEF BrowserInit
<1>2. tabs \subseteq Tabs /\ up = FALSE /\ torn = {} /\ stale = {} BY DEF BrowserInit
<1>3. sess \in Sessions /\ Active = {} BY DEF BrowserInit, Sessions, Active
<1>4. server \in Works /\ server.does = "idle" /\ server.found = NoTab
  BY DEF BrowserInit, Rest, Works
<1> QED BY <1>1, <1>2, <1>3, <1>4 DEF WireInv, WireType

\* The browser appends its present state.
LEMMA TellsKeeps ==
    ASSUME WireInv, NEW T \in SUBSET Tabs, tabs' = T, up' = TRUE,
           Tells("tabs", T), UNCHANGED <<sess, torn, stale, server>>
    PROVE  WireInv'
<1> DEFINE m == [kind |-> "tabs", tabs |-> T]
<1>1. m \in News /\ wire \in Seq(News) BY DEF News, WireInv, WireType
<1>2. /\ wire' = Append(wire, m) /\ wire' \in Seq(News) /\ Len(wire') = Len(wire) + 1
      /\ wire'[Len(wire')] = m
  BY <1>1, AppendProperties DEF Tells
<1>3. wire' # <<>> BY <1>1, <1>2, LenProperties, EmptySeq
<1>4. LastNews' = m BY DEF LastNews
<1>5. WireType' BY <1>2 DEF WireInv, WireType, Active, Listed
<1> QED BY <1>2, <1>3, <1>4, <1>5 DEF WireInv

LEMMA DisconnectKeeps == ASSUME WireInv, Disconnect PROVE WireInv'
<1> DEFINE m == [kind |-> "close", tabs |-> {}]
<1>1. m \in News /\ wire \in Seq(News) BY DEF News, WireInv, WireType
<1>2. /\ wire' = Append(wire, m) /\ wire' \in Seq(News) /\ Len(wire') = Len(wire) + 1
      /\ wire'[Len(wire')] = m
  BY <1>1, AppendProperties DEF Disconnect, Tells
<1>3. wire' # <<>> BY <1>1, <1>2, LenProperties, EmptySeq
<1>4. up' = FALSE /\ UNCHANGED <<tabs, sess, torn, stale, server>> BY DEF Disconnect
<1>5. LastNews' = m BY <1>4 DEF LastNews
<1>6. WireType' BY <1>2, <1>4 DEF WireInv, WireType, Active, Listed
<1> QED BY <1>2, <1>3, <1>4, <1>5, <1>6 DEF WireInv

\* Steps of the server thread with the work it has.
LEMMA WorkKeeps ==
    ASSUME WireInv, UNCHANGED <<tabs, up, wire>>, WireType', wire = <<>> /\ up => Agrees'
    PROVE  WireInv'
<1>1. LastNews' = LastNews BY DEF LastNews
<1> QED BY <1>1 DEF WireInv

\* What it goes on to when nothing is left, and when something is.
LEMMA WorkGoesOn ==
    ASSUME NEW s \in Works,
           s.does \in {"marks", "registers", "closes"}, s.found = NoTab,
           s.does \in {"registers", "closes"} => s.left \subseteq s.list
    PROVE  /\ GoesOn(s) \in Works /\ GoesOn(s).found = NoTab
           /\ GoesOn(s).does \in {"registers", "closes"} => GoesOn(s).left \subseteq GoesOn(s).list
           /\ s.left # {} => GoesOn(s) = s
           /\ s.left = {} /\ s.does = "marks" /\ s.list # {} =>
                 /\ GoesOn(s).does = "registers" /\ GoesOn(s).list = s.list
                 /\ GoesOn(s).left = s.list
           /\ s.left = {} /\ ~(s.does = "marks" /\ s.list # {}) => GoesOn(s).does = "idle"
<1>1. Rest("idle") \in Works /\ Rest("idle").does = "idle" /\ Rest("idle").found = NoTab
  BY DEF Rest, Works
<1>2. CASE s.left # {} BY <1>2 DEF GoesOn
<1>3. CASE s.left = {} /\ s.does = "marks" /\ s.list # {}
  <2> DEFINE r == [s EXCEPT !.does = "registers", !.left = s.list]
  <2>1. GoesOn(s) = r BY <1>3 DEF GoesOn
  <2>2. r \in Works /\ r.does = "registers" /\ r.list = s.list /\ r.left = s.list
        /\ r.found = s.found
    BY DEF Works
  <2> HIDE DEF r
  <2> QED BY <1>3, <2>1, <2>2
<1>4. CASE s.left = {} /\ ~(s.does = "marks" /\ s.list # {})
  <2>1. GoesOn(s) = Rest("idle") BY <1>4 DEF GoesOn
  <2> QED BY <1>1, <1>4, <2>1
<1> QED BY <1>2, <1>3, <1>4

LEMMA TakeKeeps == ASSUME WireInv, TakeNews PROVE WireInv'
<1>1. /\ wire \in Seq(News) /\ wire # <<>> /\ wire' = Tail(wire)
      /\ UNCHANGED <<tabs, up, sess, torn>> /\ server \in Works /\ WireType
  BY DEF WireInv, WireType, TakeNews, browser
<1>2. Len(wire) \in Nat /\ Len(wire) # 0 /\ Head(wire) = wire[1]
  BY <1>1, EmptySeq, LenProperties
<1>3. wire[1] \in News BY <1>1, <1>2, ElementOfSeq
<1>4. /\ wire' \in Seq(News) /\ Len(wire') = Len(wire) - 1
      /\ \A i \in 1 .. Len(wire') : wire'[i] = wire[i + 1]
  BY <1>1, HeadTailProperties
<1>5. Active' = Active /\ Listed' = Listed /\ Active \subseteq Listed /\ Listed \subseteq Tabs
  BY <1>1 DEF Active, Listed
<1>6. WireType' /\ (wire[1].kind = "tabs" /\ wire[1].tabs = tabs => Agrees')
  <2>1. CASE Head(wire).kind = "tabs"
    <3> DEFINE T == Head(wire).tabs
               s == [does |-> "marks", list |-> T, left |-> Listed, found |-> NoTab]
    <3>1. T \subseteq Tabs /\ T = wire[1].tabs BY <1>2, <1>3 DEF News
    <3>2. server' = GoesOn(s) /\ UNCHANGED stale BY <2>1 DEF TakeNews
    <3>3. s \in Works /\ s.does = "marks" /\ s.list = T /\ s.left = Listed /\ s.found = NoTab
      BY <1>5, <3>1 DEF Works
    <3> HIDE DEF s, T
    <3>4. /\ GoesOn(s) \in Works /\ GoesOn(s).found = NoTab
          /\ GoesOn(s).does \in {"registers", "closes"} => GoesOn(s).left \subseteq GoesOn(s).list
          /\ s.left # {} => GoesOn(s) = s
          /\ s.left = {} /\ s.list # {} =>
                /\ GoesOn(s).does = "registers" /\ GoesOn(s).list = s.list
                /\ GoesOn(s).left = s.list
          /\ s.left = {} /\ s.list = {} => GoesOn(s).does = "idle"
      BY <3>3, WorkGoesOn
    <3>5. WireType' BY <1>1, <1>4, <1>5, <3>2, <3>4 DEF WireType
    <3>6. ASSUME T = tabs PROVE Agrees'
      <4>1. CASE Listed # {} BY <1>1, <1>5, <3>2, <3>3, <3>4, <3>6, <4>1 DEF Agrees
      <4>2. CASE Listed = {} /\ T # {} BY <1>1, <1>5, <3>2, <3>3, <3>4, <3>6, <4>2 DEF Agrees
      <4>3. CASE Listed = {} /\ T = {} BY <1>1, <1>5, <3>2, <3>3, <3>4, <3>6, <4>3 DEF Agrees
      <4> QED BY <4>1, <4>2, <4>3
    <3> QED BY <3>1, <3>5, <3>6
  <2>2. CASE Head(wire).kind = "close"
    <3> DEFINE s == [does |-> "closes", list |-> Listed, left |-> Listed \ stale, found |-> NoTab]
    <3>2. server' = GoesOn(s) /\ stale' = Listed BY <2>2 DEF TakeNews
    <3>3. s \in Works /\ s.does = "closes" /\ s.left \subseteq s.list /\ s.found = NoTab
      BY <1>5 DEF Works
    <3> HIDE DEF s
    <3>4. /\ GoesOn(s) \in Works /\ GoesOn(s).found = NoTab
          /\ GoesOn(s).does \in {"registers", "closes"} => GoesOn(s).left \subseteq GoesOn(s).list
      BY <3>3, WorkGoesOn
    <3> QED BY <1>1, <1>2, <1>4, <1>5, <2>2, <3>2, <3>4 DEF WireType
  <2> QED BY <1>2, <1>3, <2>1, <2>2 DEF News
<1>7. LastNews' = LastNews BY <1>1 DEF LastNews
<1>8. CASE Len(wire) = 1
  <2>1. wire' = <<>> BY <1>8, <1>4, EmptySeq
  <2>2. wire[1] = LastNews BY <1>1, <1>8 DEF WireInv
  <2>3. up => Agrees' BY <2>2, <1>6 DEF LastNews
  <2> QED BY <2>1, <2>3, <1>1, <1>6 DEF WireInv
<1>9. CASE Len(wire) > 1
  <2>1. Len(wire') \in 1 .. Len(wire') /\ wire'[Len(wire')] = wire[Len(wire)]
    BY <1>2, <1>4, <1>9
  <2>2. wire' # <<>> BY <2>1, EmptySeq
  <2>3. wire'[Len(wire')] = LastNews' BY <2>1, <1>1, <1>7 DEF WireInv
  <2> QED BY <2>2, <2>3, <1>6 DEF WireInv
<1>10. Len(wire) = 1 \/ Len(wire) > 1
  <2> DEFINE n == Len(wire)
  <2>1. n \in Nat /\ n # 0 BY <1>2
  <2> HIDE DEF n
  <2>2. n = 1 \/ n > 1 BY <2>1
  <2> QED BY <2>2 DEF n
<1> QED BY <1>8, <1>9, <1>10

\* A session is marked or passed over, or the list is given up.
LEMMA MarkKeeps == ASSUME WireInv, NEW t \in Tabs, MarkSession(t) PROVE WireInv'
<1> DEFINE s == [server EXCEPT !.left = @ \ {t}]
<1>1. /\ WireType /\ server \in Works /\ server.does = "marks" /\ server.found = NoTab
      /\ UNCHANGED <<tabs, up, wire, stale, torn>>
  BY DEF WireInv, WireType, MarkSession, browser
<1>2. /\ s \in Works /\ s.does = "marks" /\ s.found = NoTab
      /\ s.list = server.list /\ s.left = server.left \ {t}
  BY <1>1 DEF Works
<1>3. CASE server' = Rest("cut") /\ UNCHANGED sess
  <2>1. server' \in Works /\ server'.does = "cut" /\ server'.found = NoTab
    BY <1>3 DEF Rest, Works
  <2>2. WireType' BY <1>1, <1>3, <2>1 DEF WireType, Active, Listed
  <2>3. Agrees' BY <2>1 DEF Agrees
  <2> QED BY <1>1, <2>2, <2>3, WorkKeeps
<1>4. CASE t \in Listed /\ server' = GoesOn(s)
           /\ IF t \in server.list THEN UNCHANGED sess ELSE MarkDisconnected(t)
  <2> HIDE DEF s
  <2>1. /\ sess' \in Sessions /\ Listed' = Listed /\ Active' \subseteq Active
        /\ (t \notin server.list => t \notin Active')
    BY <1>1, <1>4 DEF WireType, MarkDisconnected, Sessions, Active, Listed
  <2>2. WireType' BY <1>1, <1>2, <1>4, <2>1, WorkGoesOn DEF WireType
  <2>3. ASSUME Agrees PROVE Agrees'
    <3>1. s.list = tabs /\ Active' \subseteq tabs \cup s.left BY <1>1, <1>2, <2>1, <2>3 DEF Agrees
    <3>2. CASE s.left # {} BY <1>1, <1>2, <1>4, <3>1, <3>2, WorkGoesOn DEF Agrees
    <3>3. CASE s.left = {} /\ tabs # {}
      <4>1. server'.does = "registers" /\ server'.list = tabs /\ server'.left = tabs
        BY <1>2, <1>4, <3>1, <3>3, WorkGoesOn
      <4> QED BY <1>1, <3>1, <3>3, <4>1 DEF Agrees
    <3>4. CASE s.left = {} /\ tabs = {}
      <4>1. server'.does = "idle" BY <1>2, <1>4, <3>1, <3>4, WorkGoesOn
      <4> QED BY <1>1, <3>1, <3>4, <4>1 DEF Agrees
    <3> QED BY <3>2, <3>3, <3>4
  <2> QED BY <1>1, <2>2, <2>3, WorkKeeps DEF WireInv
<1> QED BY <1>3, <1>4 DEF MarkSession

LEMMA CloseKeeps == ASSUME WireInv, NEW t \in Tabs, CloseSession(t) PROVE WireInv'
<1> DEFINE s == [server EXCEPT !.left = @ \ {t}]
<1>1. /\ WireType /\ server \in Works /\ server.does = "closes" /\ server.found = NoTab
      /\ server.left \subseteq server.list /\ t \in server.left
      /\ UNCHANGED <<tabs, up, wire, stale, torn>>
  BY DEF WireInv, WireType, CloseSession, browser
<1>2. /\ s \in Works /\ s.does = "closes" /\ s.found = NoTab /\ s.left \subseteq s.list
  BY <1>1 DEF Works
<1>3. ~(wire = <<>> /\ up) BY <1>1 DEF WireInv, Agrees
<1>4. CASE server' = Rest("idle") /\ UNCHANGED sess
  <2>1. server' \in Works /\ server'.does = "idle" /\ server'.found = NoTab
    BY <1>4 DEF Rest, Works
  <2>2. WireType' BY <1>1, <1>4, <2>1 DEF WireType, Active, Listed
  <2> QED BY <1>1, <1>3, <2>2, WorkKeeps
<1>5. CASE Listed = server.list /\ server' = GoesOn(s) /\ MarkDisconnected(t)
  <2> HIDE DEF s
  <2>1. /\ sess' \in Sessions /\ Listed' = Listed /\ Active' \subseteq Active
    BY <1>1, <1>5 DEF WireType, MarkDisconnected, Sessions, Active, Listed
  <2>2. WireType' BY <1>1, <1>2, <1>5, <2>1, WorkGoesOn DEF WireType
  <2> QED BY <1>1, <1>3, <2>2, WorkKeeps
<1> QED BY <1>4, <1>5 DEF CloseSession

\* What registering a session does to the sets.
LEMMA Registers ==
    ASSUME WireType, NEW t \in Tabs, RegisterClient(t)
    PROVE  /\ sess' \in Sessions /\ Active' = Active \cup {t} /\ Listed' = Listed \cup {t}
           /\ torn' = torn \ {t} /\ stale' = stale \ {t}
BY DEF WireType, RegisterClient, Registered, Sessions, Active, Listed

\* The registering goes on after a tab that is active or torn now.
LEMMA RegisteringGoesOn ==
    ASSUME WireInv, server.does = "registers", NEW s \in Works, s.does = "registers",
           s.found = NoTab, s.list = server.list, s.left \subseteq s.list, server' = GoesOn(s),
           NEW t \in server.list, t \in Active' \cup torn',
           server.left \cup {server.found} \subseteq s.left \cup {t, NoTab},
           UNCHANGED <<tabs, up, wire>>,
           sess' \in Sessions, torn' \subseteq Tabs, Active' \cap torn' = {}, stale' \subseteq Listed',
           Active' \subseteq Active \cup {t}, Active \cup torn \subseteq Active' \cup torn' \cup {t}
    PROVE  WireInv'
<1>1. WireType' BY WorkGoesOn DEF WireInv, WireType
<1>2. ASSUME Agrees PROVE Agrees'
  <2>1. s.list = tabs /\ t \in tabs /\ Active' \subseteq tabs BY <1>2 DEF Agrees
  <2>2. NoTab \notin tabs BY BrowserAssumption DEF WireInv, WireType
  <2>3. tabs \subseteq Active' \cup torn' \cup s.left BY <1>2, <2>1, <2>2 DEF Agrees
  <2>4. CASE s.left # {}
    <3>1. server' = s BY <2>4, WorkGoesOn
    <3> QED BY <2>1, <2>3, <3>1 DEF Agrees
  <2>5. CASE s.left = {}
    <3>1. server'.does = "idle" BY <2>5, WorkGoesOn
    <3>2. Active' = tabs \ torn' BY <2>1, <2>3, <2>5
    <3> QED BY <3>1, <3>2 DEF Agrees
  <2> QED BY <2>4, <2>5
<1> QED BY <1>1, <1>2, WorkKeeps DEF WireInv

LEMMA RegisterKeeps == ASSUME WireInv, NEW t \in Tabs, RegisterTab(t) PROVE WireInv'
<1> DEFINE s == [server EXCEPT !.left = @ \ {t}]
<1>1. /\ WireType /\ server \in Works /\ server.does = "registers" /\ server.found = NoTab
      /\ server.left \subseteq server.list /\ t \in server.left
      /\ UNCHANGED <<tabs, up, wire>>
  BY DEF WireInv, WireType, RegisterTab, browser
<1>2. /\ s \in Works /\ s.does = "registers" /\ s.found = NoTab /\ s.list = server.list
      /\ s.left = server.left \ {t} /\ s.left \subseteq s.list
  BY <1>1 DEF Works
<1>3. server.left \cup {server.found} \subseteq s.left \cup {t, NoTab} BY <1>1, <1>2
<1>4. CASE t \in Active /\ server' = GoesOn(s) /\ UNCHANGED <<sess, stale, torn, default>>
  <2>1. Active' = Active /\ Listed' = Listed BY <1>4 DEF Active, Listed
  <2> HIDE DEF s
  <2>2. /\ sess' \in Sessions /\ torn' \subseteq Tabs /\ Active' \cap torn' = {}
        /\ stale' \subseteq Listed'
    BY <1>1, <1>4, <2>1 DEF WireType
  <2> QED BY <1>1, <1>2, <1>3, <1>4, <2>1, <2>2, RegisteringGoesOn
<1>5. CASE t \notin Listed /\ server' = GoesOn(s) /\ RegisterClient(t)
  <2> HIDE DEF s
  <2>1. /\ sess' \in Sessions /\ Active' = Active \cup {t} /\ Listed' = Listed \cup {t}
        /\ torn' = torn \ {t} /\ stale' = stale \ {t}
    BY <1>1, <1>5, Registers
  <2>2. torn' \subseteq Tabs /\ Active' \cap torn' = {} /\ stale' \subseteq Listed'
    BY <1>1, <2>1 DEF WireType
  <2> QED BY <1>1, <1>2, <1>3, <1>5, <2>1, <2>2, RegisteringGoesOn
<1>6. CASE t \in Listed \ Active /\ server' = [s EXCEPT !.found = t]
           /\ UNCHANGED <<sess, stale, torn, default>>
  <2>1. Active' = Active /\ Listed' = Listed BY <1>6 DEF Active, Listed
  <2>2. /\ server' \in Works /\ server'.does = "registers" /\ server'.list = server.list
        /\ server'.left = server.left \ {t} /\ server'.found = t
    BY <1>2, <1>6 DEF Works
  <2>3. WireType' BY <1>1, <1>6, <2>1, <2>2 DEF WireType
  <2>4. Agrees => Agrees'
    <3>1. NoTab \notin tabs BY <1>1, BrowserAssumption DEF WireType
    <3> QED BY <1>1, <1>6, <2>1, <2>2, <3>1 DEF Agrees
  <2> QED BY <1>1, <2>3, <2>4, WorkKeeps DEF WireInv
<1> QED BY <1>4, <1>5, <1>6 DEF RegisterTab

LEMMA ReconnectKeeps == ASSUME WireInv, NEW t \in Tabs, Reconnect(t) PROVE WireInv'
<1> DEFINE s == [server EXCEPT !.found = NoTab]
<1>1. /\ WireType /\ server \in Works /\ server.found = t /\ t # NoTab
      /\ server.does = "registers" /\ server.left \subseteq server.list /\ t \in server.list
      /\ UNCHANGED <<tabs, up, wire>>
  BY BrowserAssumption DEF WireInv, WireType, Reconnect, browser
<1>2. /\ s \in Works /\ s.does = "registers" /\ s.found = NoTab /\ s.list = server.list
      /\ s.left = server.left /\ s.left \subseteq s.list
  BY <1>1 DEF Works
<1>3. server.left \cup {server.found} \subseteq s.left \cup {t, NoTab} BY <1>1, <1>2
<1>4. CASE server' = GoesOn(s) /\ RegisterClient(t)
  <2> HIDE DEF s
  <2>1. /\ sess' \in Sessions /\ Active' = Active \cup {t} /\ Listed' = Listed \cup {t}
        /\ torn' = torn \ {t} /\ stale' = stale \ {t}
    BY <1>4, <1>1, Registers
  <2>2. torn' \subseteq Tabs /\ Active' \cap torn' = {} /\ stale' \subseteq Listed'
    BY <1>1, <2>1 DEF WireType
  <2> QED BY <1>1, <1>2, <1>3, <1>4, <2>1, <2>2, RegisteringGoesOn
<1>5. CASE t \notin Listed /\ server' = GoesOn(s) /\ torn' = torn \cup {t}
           /\ UNCHANGED <<sess, stale>>
  <2>1. Active' = Active /\ Listed' = Listed /\ t \notin Active BY <1>5 DEF Active, Listed
  <2> HIDE DEF s
  <2>2. /\ sess' \in Sessions /\ torn' \subseteq Tabs /\ Active' \cap torn' = {}
        /\ stale' \subseteq Listed'
    BY <1>1, <1>5, <2>1 DEF WireType
  <2> QED BY <1>1, <1>2, <1>3, <1>5, <2>1, <2>2, RegisteringGoesOn
<1>6. CASE server' = Rest("cut") /\ UNCHANGED <<sess, stale, torn, default>>
  <2>1. server' \in Works /\ server'.does = "cut" /\ server'.found = NoTab
    BY <1>6 DEF Rest, Works
  <2>2. WireType' BY <1>1, <1>6, <2>1 DEF WireType, Active, Listed
  <2>3. Agrees' BY <2>1 DEF Agrees
  <2> QED BY <1>1, <2>2, <2>3, WorkKeeps
<1> QED BY <1>4, <1>5, <1>6 DEF Reconnect

LEMMA ServerKeeps == ASSUME WireInv, ServerThread PROVE WireInv'
BY TakeKeeps, MarkKeeps, CloseKeeps, RegisterKeeps, ReconnectKeeps DEF ServerThread

\* What does not touch the connection, the tabs or the active sessions.
LEMMA ActiveKept ==
    ASSUME WireInv, UNCHANGED <<tabs, up, wire, torn, stale, server>>,
           Active' = Active, Listed' = Listed, sess' \in Sessions
    PROVE  WireInv'
<1>1. WireType' BY DEF WireInv, WireType
<1>2. Agrees => Agrees' BY DEF Agrees
<1> QED BY <1>1, <1>2, WorkKeeps DEF WireInv

LEMMA DropKeeps ==
    ASSUME WireInv, NEW c \in Callers, DropSession(c), call[c].victim \in Tabs
    PROVE  WireInv'
<1> DEFINE t == call[c].victim
<1>1. /\ sess' = [sess EXCEPT ![t] = "none"] /\ stale' = stale \ {t}
      /\ torn' = IF sess[t] = "active" THEN torn \cup {t} ELSE torn
      /\ UNCHANGED <<tabs, up, wire, server>>
  BY DEF DropSession, browser
<1>2. sess \in Sessions /\ torn \subseteq Tabs /\ t \in Tabs /\ WireType
  BY DEF WireInv, WireType
<1> HIDE DEF t
<1>3. sess' \in Sessions /\ Active' = Active \ {t} /\ Listed' = Listed \ {t}
  BY <1>1, <1>2 DEF Active, Listed, Sessions
<1>4. torn \subseteq torn' /\ torn' \subseteq torn \cup {t} /\ Active \cap {t} \subseteq torn'
  BY <1>1, <1>2 DEF Active
<1>5. WireType' BY <1>1, <1>2, <1>3, <1>4 DEF WireType
<1>6. Agrees => Agrees' BY <1>1, <1>2, <1>3, <1>4 DEF Agrees, WireType
<1> QED BY <1>1, <1>5, <1>6, WorkKeeps DEF WireInv
-----------------------------------------------------------------------------
(* What each caller is doing, and which tab it will name. *)

Calls == [pc : {"idle", "call", "nap", "clean", "drop", "wait", "report", "done"},
          stage : {1, Script}, sid : Tabs \cup {NoTab}, victim : Tabs \cup {NoTab},
          script : {"lost", "sent", "acked", "answered"},
          acked : BOOLEAN, jump : BOOLEAN, clock : Nat]

CallType ==
    /\ call \in [Callers -> Calls]
    /\ default \in Tabs \cup {NoTab}
    /\ ranIn \in [Callers -> Tabs \cup {NoTab}]
    /\ tabId \in [Callers -> Tabs \cup {NoTab, "pending"}]
    /\ meddled \subseteq Callers
    /\ \A c \in Callers : call[c].pc = "drop" => call[c].victim \in Tabs

\* Caller d's script is sent once, to the default session of that moment or
\* to the one that became it; d reports at its end.
Names(d) ==
    /\ call[d].pc \in {"idle", "call", "nap"} \/ (call[d].stage = 1 /\ call[d].pc \in {"clean", "drop", "wait"})
          => ranIn[d] = NoTab
    /\ tabId[d] # "pending" => call[d].pc = "done"
    /\ tabId[d] = "pending" /\ ranIn[d] # NoTab /\ d \notin meddled => default = ranIn[d]
    /\ call[d].pc = "nap" /\ call[d].stage = Script /\ d \notin meddled
          => call[d].sid \in {default, NoTab}
    /\ tabId[d] # "pending" /\ ranIn[d] # NoTab /\ d \notin meddled => tabId[d] = ranIn[d]

CallInv == CallType /\ \A d \in Callers : Names(d)

LEMMA CallStarts == BrowserInit => CallInv
<1> SUFFICES ASSUME BrowserInit PROVE CallInv OBVIOUS
<1>1. call = [c \in Callers |-> Idle] /\ Idle \in Calls BY DEF BrowserInit, Idle, Calls, Script
<1>2. CallType BY <1>1 DEF CallType, BrowserInit, Idle
<1>3. ASSUME NEW d \in Callers PROVE Names(d)
  BY <1>1 DEF Names, BrowserInit, Idle
<1> QED BY <1>2, <1>3 DEF CallInv

\* Caller d where nothing of it changes but its script's fate and its clock,
\* and the default is kept, set by another with d noted, or set first of all.
LEMMA BystanderKeeps ==
    ASSUME CallInv, NEW d \in Callers,
           call'[d].pc = call[d].pc, call'[d].stage = call[d].stage, call'[d].sid = call[d].sid,
           ranIn'[d] = ranIn[d], tabId'[d] = tabId[d],
           \/ default' = default /\ (d \in meddled => d \in meddled')
           \/ default = NoTab /\ (d \in meddled => d \in meddled')
           \/ d \in meddled'
    PROVE  Names(d)'
<1>1. Names(d) BY DEF CallInv
<1>2. CASE default' = default /\ (d \in meddled => d \in meddled')
  BY <1>1, <1>2 DEF Names
<1>3. CASE default = NoTab /\ (d \in meddled => d \in meddled')
  BY <1>1, <1>3 DEF Names
<1>4. CASE d \in meddled' BY <1>1, <1>4 DEF Names
<1> QED BY <1>2, <1>3, <1>4

\* The steps of the browser and of the server thread.
LEMMA OutsideKeeps ==
    ASSUME CallInv, WireInv,
           Connect \/ Disconnect \/ ChangeTabs \/ ServerThread \/ Tick
           \/ (\E t \in Tabs : GrowOld(t))
           \/ (\E c \in Callers : Acknowledge(c) \/ Answer(c))
    PROVE  CallInv'
<1>1. UNCHANGED <<ranIn, tabId, meddled>>
  BY DEF Connect, Disconnect, ChangeTabs, ServerThread, TakeNews, MarkSession, CloseSession,
     RegisterTab, Reconnect, Tick, GrowOld, Acknowledge, Answer, reports
<1>2. /\ call' \in [Callers -> Calls]
      /\ \A d \in Callers : /\ call'[d].pc = call[d].pc /\ call'[d].stage = call[d].stage
                            /\ call'[d].sid = call[d].sid /\ call'[d].victim = call[d].victim
  <2>1. CASE UNCHANGED call BY <2>1 DEF CallInv, CallType
  <2>2. CASE Disconnect BY <2>2 DEF Disconnect, CallInv, CallType, Calls
  <2>3. CASE Tick
    <3>1. ASSUME NEW d \in Callers
          PROVE  /\ call'[d] \in Calls
                 /\ call'[d].pc = call[d].pc /\ call'[d].stage = call[d].stage
                 /\ call'[d].sid = call[d].sid /\ call'[d].victim = call[d].victim
      <4>1. call[d] \in Calls BY DEF CallInv, CallType
      <4>2. call'[d] = [call[d] EXCEPT !.clock = @ + 1] \/ call'[d] = call[d]
        BY <2>3 DEF Tick
      <4> QED BY <4>1, <4>2 DEF Calls
    <3>2. call' = [d \in Callers |-> call'[d]] BY <2>3 DEF Tick
    <3> QED BY <3>1, <3>2
  <2>4. CASE \E c \in Callers : Acknowledge(c) \/ Answer(c)
    <3>1. PICK c \in Callers, x \in {"acked", "answered"} : call' = [call EXCEPT ![c].script = x]
      BY <2>4 DEF Acknowledge, Answer
    <3>2. call \in [Callers -> Calls] /\ call[c] \in Calls BY DEF CallInv, CallType
    <3>3. call' = [call EXCEPT ![c] = [call[c] EXCEPT !.script = x]] BY <3>1
    <3>4. [call[c] EXCEPT !.script = x] \in Calls BY <3>2 DEF Calls
    <3>5. call' \in [Callers -> Calls] BY <3>2, <3>3, <3>4
    <3>6. ASSUME NEW d \in Callers
          PROVE  /\ call'[d].pc = call[d].pc /\ call'[d].stage = call[d].stage
                 /\ call'[d].sid = call[d].sid /\ call'[d].victim = call[d].victim
      <4>1. call[d] \in Calls BY <3>2
      <4>2. call'[d] = call[d] \/ call'[d] = [call[d] EXCEPT !.script = x] BY <3>2, <3>3
      <4> QED BY <4>1, <4>2 DEF Calls
    <3> QED BY <3>5, <3>6
  <2>5. UNCHANGED call \/ Disconnect \/ Tick \/ (\E c \in Callers : Acknowledge(c) \/ Answer(c))
    BY DEF Connect, ChangeTabs, ServerThread, TakeNews, MarkSession, CloseSession,
       RegisterTab, Reconnect, GrowOld
  <2> QED BY <2>1, <2>2, <2>3, <2>4, <2>5
<1>3. default' \in Tabs \cup {NoTab} /\ (default' = default \/ default = NoTab)
  <2>1. CASE UNCHANGED default BY <2>1 DEF CallInv, CallType
  <2>2. CASE ServerThread
    <3>1. CASE UNCHANGED default BY <3>1 DEF CallInv, CallType
    <3>2. ASSUME NEW t \in Tabs, FirstDefault(t)
          PROVE  default' \in Tabs \cup {NoTab} /\ (default' = default \/ default = NoTab)
      BY <3>2 DEF FirstDefault, CallInv, CallType
    <3>3. UNCHANGED default \/ \E t \in Tabs : FirstDefault(t)
      BY <2>2 DEF ServerThread, TakeNews, MarkSession, CloseSession, RegisterTab, Reconnect,
         RegisterClient
    <3> QED BY <3>1, <3>2, <3>3
  <2>3. UNCHANGED default \/ ServerThread
    BY DEF Connect, Disconnect, ChangeTabs, Tick, GrowOld, Acknowledge, Answer
  <2> QED BY <2>1, <2>2, <2>3
<1>4. CallType' BY <1>1, <1>2, <1>3 DEF CallInv, CallType
<1>5. ASSUME NEW d \in Callers PROVE Names(d)' BY <1>1, <1>2, <1>3, BystanderKeeps
<1> QED BY <1>4, <1>5 DEF CallInv

\* What Choose leaves of the others.
LEMMA ChooseNotes ==
    ASSUME CallType, NEW c \in Callers, NEW t, Choose(c, t)
    PROVE  /\ meddled' \subseteq Callers /\ (c \in meddled' <=> c \in meddled)
           /\ \A d \in Callers \ {c} :
                 d \in meddled' \/ (default' = default /\ (d \in meddled => d \in meddled'))
BY DEF Choose, CallType

\* The others, when caller c takes a step.
LEMMA OthersKeep ==
    ASSUME CallInv, NEW c \in Callers, NEW d \in Callers \ {c},
           call'[d] = call[d], ranIn'[d] = ranIn[d], tabId'[d] = tabId[d],
           d \in meddled' \/ (default' = default /\ (d \in meddled => d \in meddled'))
    PROVE  Names(d)'
BY BystanderKeeps

LEMMA AskKeeps == ASSUME CallInv, NEW c \in Callers, Ask(c) PROVE CallInv'
<1>1. call[c].pc = "idle" /\ UNCHANGED <<ranIn, tabId>> BY DEF Ask
<1>2. /\ call' \in [Callers -> Calls] /\ call'[c].pc \in {"call", "done"}
      /\ \A d \in Callers \ {c} : call'[d] = call[d]
  <2>1. call \in [Callers -> Calls] BY DEF CallInv, CallType
  <2>2. CASE call' = [call EXCEPT ![c].pc = "done"] BY <2>1, <2>2 DEF Calls
  <2>3. ASSUME NEW first \in {1, Script},
               call' = [call EXCEPT ![c].pc = "call", ![c].stage = first]
        PROVE  /\ call' \in [Callers -> Calls] /\ call'[c].pc \in {"call", "done"}
               /\ \A d \in Callers \ {c} : call'[d] = call[d]
    <3>1. call[c] \in Calls BY <2>1
    <3>2. [call[c] EXCEPT !.pc = "call", !.stage = first] \in Calls BY <3>1 DEF Calls
    <3>3. call' = [call EXCEPT ![c] = [call[c] EXCEPT !.pc = "call", !.stage = first]]
      BY <2>3
    <3>4. call'[c].pc = "call" BY <2>1, <3>1, <3>3 DEF Calls
    <3> QED BY <2>1, <3>2, <3>3, <3>4
  <2> QED BY <2>2, <2>3 DEF Ask
<1>3. /\ default' \in Tabs \cup {NoTab} /\ meddled' \subseteq Callers
      /\ \A d \in Callers \ {c} : d \in meddled' \/ (default' = default /\ (d \in meddled => d \in meddled'))
  <2>1. CASE KeepDefault BY <2>1 DEF KeepDefault, CallInv, CallType
  <2>2. ASSUME NEW t \in Tabs, Choose(c, t)
        PROVE  /\ default' \in Tabs \cup {NoTab} /\ meddled' \subseteq Callers
               /\ \A d \in Callers \ {c} :
                     d \in meddled' \/ (default' = default /\ (d \in meddled => d \in meddled'))
    <3>1. default' \in Tabs BY <2>2 DEF Choose
    <3>2. CallType BY DEF CallInv
    <3> QED BY <2>2, <3>1, <3>2, ChooseNotes
  <2>3. KeepDefault \/ \E t \in Tabs : Choose(c, t) BY DEF Ask
  <2> QED BY <2>1, <2>2, <2>3
<1>4. CallType'
  <2>1. \A d \in Callers : call'[d].pc = "drop" => call'[d].victim \in Tabs
    BY <1>2 DEF CallInv, CallType
  <2> QED BY <1>1, <1>2, <1>3, <2>1 DEF CallInv, CallType
<1>5. Names(c)'
  <2>1. ranIn[c] = NoTab /\ tabId[c] = "pending" BY <1>1 DEF CallInv, Names
  <2> QED BY <1>1, <1>2, <2>1 DEF Names
<1>6. ASSUME NEW d \in Callers \ {c} PROVE Names(d)' BY <1>1, <1>2, <1>3, OthersKeep
<1> QED BY <1>4, <1>5, <1>6 DEF CallInv

\* A step of caller c that leaves it doing r.
LEMMA OwnStepKeeps ==
    ASSUME CallInv, NEW c \in Callers, NEW r \in Calls, call' = [call EXCEPT ![c] = r],
           r.pc = "drop" => r.victim \in Tabs,
           default' \in Tabs \cup {NoTab}, meddled' \subseteq Callers,
           ranIn' \in [Callers -> Tabs \cup {NoTab}],
           tabId' \in [Callers -> Tabs \cup {NoTab, "pending"}],
           \A d \in Callers \ {c} :
              /\ ranIn'[d] = ranIn[d] /\ tabId'[d] = tabId[d]
              /\ d \in meddled' \/ (default' = default /\ (d \in meddled => d \in meddled')),
           Names(c)'
    PROVE  CallInv'
<1>1. /\ call' \in [Callers -> Calls] /\ call'[c] = r
      /\ \A d \in Callers \ {c} : call'[d] = call[d]
  BY DEF CallInv, CallType
<1>2. \A d \in Callers : call'[d].pc = "drop" => call'[d].victim \in Tabs
  BY <1>1 DEF CallInv, CallType
<1>3. CallType' BY <1>1, <1>2 DEF CallType
<1>4. ASSUME NEW d \in Callers \ {c} PROVE Names(d)' BY <1>1, OthersKeep
<1> QED BY <1>3, <1>4 DEF CallInv

\* The same where nothing but c's doings changes.
LEMMA QuietStepKeeps ==
    ASSUME CallInv, NEW c \in Callers, NEW r \in Calls, call' = [call EXCEPT ![c] = r],
           r.pc = "drop" => r.victim \in Tabs, r.pc \notin {"nap", "idle"},
           r.pc = "call" \/ (r.stage = 1 /\ r.pc \in {"clean", "drop", "wait"}) => ranIn[c] = NoTab,
           call[c].pc # "done",
           UNCHANGED <<default, meddled, ranIn, tabId>>
    PROVE  CallInv'
<1>1. call'[c] = r BY DEF CallInv, CallType
<1>2. Names(c)' BY <1>1 DEF CallInv, Names
<1>3. /\ default' \in Tabs \cup {NoTab} /\ meddled' \subseteq Callers
      /\ ranIn' \in [Callers -> Tabs \cup {NoTab}]
      /\ tabId' \in [Callers -> Tabs \cup {NoTab, "pending"}]
  BY DEF CallInv, CallType
<1>4. \A d \in Callers \ {c} :
         /\ ranIn'[d] = ranIn[d] /\ tabId'[d] = tabId[d]
         /\ d \in meddled' \/ (default' = default /\ (d \in meddled => d \in meddled'))
  OBVIOUS
<1> QED BY <1>2, <1>3, <1>4, OwnStepKeeps

\* The end of a call of execute_js.
LEMMA AfterCallKeeps ==
    ASSUME CallInv, NEW c \in Callers, call' = AfterCall(c),
           call[c].pc \in {"nap", "drop", "wait"}, UNCHANGED <<default, meddled, ranIn, tabId>>
    PROVE  CallInv'
<1> DEFINE r == IF call[c].stage = Script THEN [Idle EXCEPT !.pc = "report"]
                ELSE [Idle EXCEPT !.pc = "call", !.stage = Script]
<1>1. r \in Calls /\ r.pc \in {"report", "call"} /\ (r.pc = "call" => call[c].stage # Script)
  BY DEF Idle, Calls, Script
<1>2. call' = [call EXCEPT ![c] = r] BY DEF AfterCall
<1>3. call[c] \in Calls /\ Names(c) BY DEF CallInv, CallType
<1>4. r.pc = "call" => call[c].stage = 1 BY <1>1, <1>3 DEF Calls
<1>5. r.pc = "call" => ranIn[c] = NoTab BY <1>3, <1>4 DEF Names
<1> HIDE DEF r
<1> QED BY <1>1, <1>2, <1>3, <1>5, QuietStepKeeps

LEMMA CleanSessionsKeeps == ASSUME CallInv, NEW c \in Callers, CleanSessions(c) PROVE CallInv'
<1>1. call[c] \in Calls /\ Names(c) BY DEF CallInv, CallType
<1>2. UNCHANGED <<default, meddled, ranIn, tabId>> /\ call[c].pc = "clean"
  BY DEF CleanSessions, reports
<1>3. ASSUME NEW t \in Old, call' = [call EXCEPT ![c].pc = "drop", ![c].victim = t]
      PROVE  CallInv'
  <2> DEFINE r == [call[c] EXCEPT !.pc = "drop", !.victim = t]
  <2>1. t \in Tabs BY DEF Old
  <2>2. r \in Calls /\ r.pc = "drop" /\ r.victim = t /\ r.stage = call[c].stage
    BY <1>1, <2>1 DEF Calls
  <2>3. call' = [call EXCEPT ![c] = r] BY <1>3
  <2>4. r.stage = 1 => ranIn[c] = NoTab BY <1>1, <1>2, <2>2 DEF Names
  <2> HIDE DEF r
  <2> QED BY <1>2, <2>1, <2>2, <2>3, <2>4, QuietStepKeeps
<1>4. ASSUME call' = [call EXCEPT ![c].pc = "wait"] PROVE CallInv'
  <2> DEFINE r == [call[c] EXCEPT !.pc = "wait"]
  <2>2. r \in Calls /\ r.pc = "wait" /\ r.stage = call[c].stage BY <1>1 DEF Calls
  <2>3. call' = [call EXCEPT ![c] = r] BY <1>4
  <2>4. r.stage = 1 => ranIn[c] = NoTab BY <1>1, <1>2, <2>2 DEF Names
  <2> HIDE DEF r
  <2> QED BY <1>2, <2>2, <2>3, <2>4, QuietStepKeeps
<1> QED BY <1>3, <1>4 DEF CleanSessions

LEMMA DropSessionKeeps == ASSUME CallInv, NEW c \in Callers, DropSession(c) PROVE CallInv'
<1>1. call[c] \in Calls /\ Names(c) BY DEF CallInv, CallType
<1>2. UNCHANGED <<default, meddled, ranIn, tabId>> /\ call[c].pc = "drop"
  BY DEF DropSession, reports
<1>3. CASE call' = AfterCall(c) BY <1>2, <1>3, AfterCallKeeps
<1>4. CASE call' = [call EXCEPT ![c].pc = "clean", ![c].victim = NoTab]
  <2> DEFINE r == [call[c] EXCEPT !.pc = "clean", !.victim = NoTab]
  <2>2. r \in Calls /\ r.pc = "clean" /\ r.stage = call[c].stage BY <1>1 DEF Calls
  <2>3. call' = [call EXCEPT ![c] = r] BY <1>4
  <2>4. r.stage = 1 => ranIn[c] = NoTab BY <1>1, <1>2, <2>2 DEF Names
  <2> HIDE DEF r
  <2> QED BY <1>2, <2>2, <2>3, <2>4, QuietStepKeeps
<1> QED BY <1>3, <1>4 DEF DropSession

LEMMA WaitKeeps == ASSUME CallInv, NEW c \in Callers, Wait(c) PROVE CallInv'
<1>1. call[c] \in Calls /\ Names(c) BY DEF CallInv, CallType
<1>2. UNCHANGED <<default, meddled, ranIn, tabId>> /\ call[c].pc = "wait" BY DEF Wait, reports
<1>3. CASE call' = AfterCall(c) BY <1>2, <1>3, AfterCallKeeps
<1>4. ASSUME NEW j \in BOOLEAN, NEW k \in Nat, NEW a \in BOOLEAN,
             call' = [call EXCEPT ![c].jump = j, ![c].clock = k, ![c].acked = a]
      PROVE  CallInv'
  <2> DEFINE r == [call[c] EXCEPT !.jump = j, !.clock = k, !.acked = a]
  <2>2. r \in Calls /\ r.pc = "wait" /\ r.stage = call[c].stage BY <1>1, <1>2 DEF Calls
  <2>3. call' = [call EXCEPT ![c] = r] BY <1>4
  <2>4. r.stage = 1 => ranIn[c] = NoTab BY <1>1, <1>2, <2>2 DEF Names
  <2> HIDE DEF r
  <2> QED BY <1>2, <2>2, <2>3, <2>4, QuietStepKeeps
<1>5. \/ call' = AfterCall(c)
      \/ \E j \in BOOLEAN, k \in Nat, a \in BOOLEAN :
            call' = [call EXCEPT ![c].jump = j, ![c].clock = k, ![c].acked = a]
  <2> DEFINE j == call[c].jump \/ ~(call[c].sid \in Active)
             k == IF Restarts(c) THEN 0 ELSE call[c].clock
             a == call[c].acked \/ Restarts(c)
  <2>1. j \in BOOLEAN /\ a \in BOOLEAN BY DEF Restarts
  <2>2. k \in Nat BY <1>1 DEF Calls
  <2>3. call' = AfterCall(c) \/ call' = [call EXCEPT ![c].jump = j, ![c].clock = k, ![c].acked = a]
    BY DEF Wait
  <2> HIDE DEF j, k, a
  <2> QED BY <2>1, <2>2, <2>3
<1> QED BY <1>3, <1>4, <1>5

\* c's script goes to session t, which is or becomes the default.
LEMMA SendKeeps ==
    ASSUME CallInv, NEW c \in Callers, NEW t \in Tabs, SendTo(c, t),
           call[c].pc \in {"call", "nap"}, UNCHANGED tabId,
           default' \in Tabs \cup {NoTab}, meddled' \subseteq Callers,
           call[c].stage = Script => c \in meddled' \/ default' = t,
           \A d \in Callers \ {c} :
              d \in meddled' \/ (default' = default /\ (d \in meddled => d \in meddled'))
    PROVE  CallInv'
<1>1. call[c] \in Calls /\ Names(c) /\ ranIn \in [Callers -> Tabs \cup {NoTab}]
  BY DEF CallInv, CallType
<1>2. ranIn[c] = NoTab /\ tabId[c] = "pending" BY <1>1 DEF Names
<1>3. PICK p \in {"wait", "clean"}, x \in {"sent", "lost"} :
         call' = [call EXCEPT ![c].pc = p, ![c].sid = t, ![c].script = x]
  BY DEF SendTo
<1> DEFINE r == [call[c] EXCEPT !.pc = p, !.sid = t, !.script = x]
<1>4. r \in Calls /\ r.pc = p /\ r.stage = call[c].stage /\ r.sid = t BY <1>1 DEF Calls
<1>5. call' = [call EXCEPT ![c] = r] BY <1>3
<1>6. call'[c] = r BY <1>5 DEF CallInv, CallType
<1> HIDE DEF r
<1>7. /\ ranIn' \in [Callers -> Tabs \cup {NoTab}]
      /\ \A d \in Callers \ {c} : ranIn'[d] = ranIn[d]
      /\ ranIn'[c] = IF call[c].stage = Script THEN t ELSE NoTab
  BY <1>1, <1>2 DEF SendTo
<1>8. Names(c)'
  <2>1. CASE call[c].stage = Script
    BY <2>1, <1>2, <1>4, <1>6, <1>7 DEF Names, Script
  <2>2. CASE call[c].stage # Script
    BY <2>2, <1>2, <1>4, <1>6, <1>7 DEF Names
  <2> QED BY <2>1, <2>2
<1>9. tabId' \in [Callers -> Tabs \cup {NoTab, "pending"}] BY DEF CallInv, CallType
<1>10. r.pc # "drop" BY <1>4
<1> QED BY <1>4, <1>5, <1>7, <1>8, <1>9, <1>10, OwnStepKeeps

LEMMA LookUpKeeps == ASSUME CallInv, NEW c \in Callers, LookUp(c) PROVE CallInv'
<1>1. call[c] \in Calls /\ Names(c) /\ call[c].pc = "call" /\ UNCHANGED <<default, tabId>>
  BY DEF CallInv, CallType, LookUp
<1>2. default \in Tabs \cup {NoTab} /\ meddled' \subseteq Callers
      /\ (call[c].stage # Script => meddled' = meddled)
      /\ \A d \in Callers \ {c} : d \in meddled => d \in meddled'
  BY DEF LookUp, CallInv, CallType
<1>3. ranIn[c] = NoTab /\ tabId[c] = "pending" BY <1>1 DEF Names
<1>4. CASE default \in Active
  <2>1. SendTo(c, default) /\ default \in Tabs BY <1>4 DEF LookUp, Active
  <2> QED BY <1>1, <1>2, <2>1, SendKeeps
<1>5. CASE default \notin Active
  <2> DEFINE r == [call[c] EXCEPT !.pc = "nap", !.sid = default]
  <2>1. r \in Calls /\ r.pc = "nap" /\ r.stage = call[c].stage /\ r.sid = default
    BY <1>1, <1>2 DEF Calls
  <2>2. call' = [call EXCEPT ![c] = r] /\ UNCHANGED ranIn BY <1>5 DEF LookUp
  <2>3. call'[c] = r BY <2>2 DEF CallInv, CallType
  <2> HIDE DEF r
  <2>4. Names(c)' BY <1>1, <1>3, <2>1, <2>2, <2>3 DEF Names
  <2>5. /\ ranIn' \in [Callers -> Tabs \cup {NoTab}]
        /\ tabId' \in [Callers -> Tabs \cup {NoTab, "pending"}]
    BY <1>1, <2>2 DEF CallInv, CallType
  <2> QED BY <1>1, <1>2, <2>1, <2>2, <2>4, <2>5, OwnStepKeeps
<1> QED BY <1>4, <1>5

LEMMA WakeUpAgainKeeps == ASSUME CallInv, NEW c \in Callers, WakeUpAgain(c) PROVE CallInv'
<1>1. call[c] \in Calls /\ Names(c) /\ call[c].pc = "nap" /\ UNCHANGED tabId
      /\ CallType /\ default \in Tabs \cup {NoTab} /\ meddled \subseteq Callers
  BY DEF CallInv, CallType, WakeUpAgain
<1>2. CASE call[c].sid \in Active /\ SendTo(c, call[c].sid) /\ KeepDefault
  <2>1. call[c].sid \in Tabs /\ call[c].sid # NoTab
    BY <1>2, BrowserAssumption DEF Active
  <2>2. call[c].stage = Script => c \in meddled \/ default = call[c].sid
    BY <1>1, <2>1 DEF Names
  <2> QED BY <1>1, <1>2, <2>1, <2>2, SendKeeps DEF KeepDefault
<1>3. ASSUME NEW t \in Active, FallBack(c, t) PROVE CallInv'
  <2>1. t \in Tabs /\ SendTo(c, t) /\ Choose(c, t) /\ default' = t
    BY <1>3 DEF Active, FallBack, Choose
  <2>2. /\ meddled' \subseteq Callers
        /\ \A d \in Callers \ {c} :
              d \in meddled' \/ (default' = default /\ (d \in meddled => d \in meddled'))
    BY <1>1, <2>1, ChooseNotes
  <2> QED BY <1>1, <2>1, <2>2, SendKeeps
<1>4. CASE call' = AfterCall(c) /\ KeepDefault /\ UNCHANGED ranIn
  BY <1>1, <1>4, AfterCallKeeps DEF KeepDefault
<1> QED BY <1>2, <1>3, <1>4 DEF WakeUpAgain

LEMMA ReportKeeps == ASSUME CallInv, NEW c \in Callers, Report(c) PROVE CallInv'
<1>1. call[c] \in Calls /\ Names(c) /\ call[c].pc = "report" BY DEF CallInv, CallType, Report
<1>2. /\ default \in Tabs \cup {NoTab} /\ meddled \subseteq Callers
      /\ ranIn \in [Callers -> Tabs \cup {NoTab}]
      /\ tabId \in [Callers -> Tabs \cup {NoTab, "pending"}]
      /\ UNCHANGED <<default, ranIn, meddled>>
  BY DEF CallInv, CallType, Report
<1>3. tabId' = [tabId EXCEPT ![c] = default] BY DEF Report
<1>4. /\ tabId' \in [Callers -> Tabs \cup {NoTab, "pending"}] /\ tabId'[c] = default
      /\ \A d \in Callers \ {c} : tabId'[d] = tabId[d]
  BY <1>2, <1>3
<1> DEFINE r == [call[c] EXCEPT !.pc = "done"]
<1>5. r \in Calls /\ r.pc = "done" BY <1>1 DEF Calls
<1>6. call' = [call EXCEPT ![c] = r] BY DEF Report
<1>7. call'[c] = r BY <1>6 DEF CallInv, CallType
<1> HIDE DEF r
<1>8. default # "pending" BY <1>2, BrowserAssumption DEF NoTab
<1>9. Names(c)' BY <1>1, <1>2, <1>4, <1>5, <1>7, <1>8 DEF Names
<1> QED BY <1>2, <1>4, <1>5, <1>6, <1>9, OwnStepKeeps

-----------------------------------------------------------------------------
BrowserInv == WireInv /\ CallInv

LEMMA BrowserKeeps == ASSUME BrowserInv, BrowserNext PROVE BrowserInv'
<1> USE DEF BrowserInv
<1>1. CASE Connect
  <2>1. UNCHANGED <<tabs, sess, torn, stale, server>> /\ up' = TRUE /\ Tells("tabs", tabs)
        /\ tabs \in SUBSET Tabs
    BY <1>1 DEF Connect, WireInv, WireType
  <2> QED BY <1>1, <2>1, TellsKeeps, OutsideKeeps
<1>2. CASE Disconnect BY <1>2, DisconnectKeeps, OutsideKeeps
<1>3. CASE ChangeTabs
  <2>1. tabs' \subseteq Tabs /\ UNCHANGED <<up, sess, torn, stale, server>>
    BY <1>3 DEF ChangeTabs, WireInv, WireType
  <2>2. CASE up
    <3>1. Tells("tabs", tabs') /\ up' = TRUE
      BY <1>3, <2>1, <2>2 DEF ChangeTabs, WireInv, WireType
    <3>2. WireInv' BY <2>1, <3>1, TellsKeeps
    <3> QED BY <1>3, <3>2, OutsideKeeps
  <2>3. CASE ~up
    <3>1. UNCHANGED wire BY <1>3, <2>3 DEF ChangeTabs
    <3>2. LastNews' = LastNews BY <2>1, <2>3 DEF LastNews
    <3>3. WireInv' BY <2>1, <2>3, <3>1, <3>2 DEF WireInv, WireType, Active, Listed
    <3> QED BY <1>3, <3>3, OutsideKeeps
  <2> QED BY <2>2, <2>3
<1>4. CASE ServerThread BY <1>4, ServerKeeps, OutsideKeeps
<1>5. ASSUME NEW t \in Tabs, GrowOld(t) PROVE BrowserInv'
  <2>1. /\ UNCHANGED <<tabs, up, wire, torn, stale, server>>
        /\ sess' \in Sessions /\ Active' = Active /\ Listed' = Listed
    BY <1>5 DEF GrowOld, browser, thread, WireInv, WireType, Active, Listed, Sessions
  <2> QED BY <1>5, <2>1, ActiveKept, OutsideKeeps
<1>6. ASSUME NEW c \in Callers, Ask(c) \/ Caller(c) \/ Acknowledge(c) \/ Answer(c)
      PROVE  BrowserInv'
  <2>1. CASE DropSession(c)
    <3>1. call[c].victim \in Tabs BY <2>1 DEF DropSession, CallInv, CallType
    <3> QED BY <2>1, <3>1, DropKeeps, DropSessionKeeps
  <2>2. CASE ~DropSession(c)
    <3>1. UNCHANGED <<tabs, up, wire, torn, sess, stale, server>>
      BY <1>6, <2>2 DEF Ask, Caller, Acknowledge, Answer, LookUp, WakeUpAgain, CleanSessions,
         Wait, Report, browser, thread
    <3>2. Active' = Active /\ Listed' = Listed BY <3>1 DEF Active, Listed
    <3>3. WireInv' BY <3>1, <3>2, ActiveKept DEF WireInv, WireType
    <3>4. CallInv'
      BY <1>6, <2>2, AskKeeps, LookUpKeeps, WakeUpAgainKeeps, CleanSessionsKeeps, WaitKeeps,
         ReportKeeps, OutsideKeeps DEF Caller
    <3> QED BY <3>3, <3>4
  <2> QED BY <2>1, <2>2
<1>7. CASE Tick
  <2>1. UNCHANGED <<tabs, up, wire, torn, sess, stale, server>> BY <1>7 DEF Tick, browser, thread
  <2>2. Active' = Active /\ Listed' = Listed BY <2>1 DEF Active, Listed
  <2>3. WireInv' BY <2>1, <2>2, ActiveKept DEF WireInv, WireType
  <2> QED BY <1>7, <2>3, OutsideKeeps
<1> QED BY <1>1, <1>2, <1>3, <1>4, <1>5, <1>6, <1>7 DEF BrowserNext

LEMMA BrowserStutters == ASSUME BrowserInv, UNCHANGED bvars PROVE BrowserInv'
<1>1. WireInv' /\ CallType'
  <2>1. Active' = Active /\ Listed' = Listed BY DEF bvars, Active, Listed
  <2>2. WireInv' BY <2>1, ActiveKept DEF bvars, BrowserInv, WireInv, WireType
  <2> QED BY <2>2 DEF bvars, BrowserInv, CallInv, CallType
<1>2. ASSUME NEW d \in Callers PROVE Names(d)'
  <2>1. CallInv BY DEF BrowserInv
  <2> QED BY <2>1, BystanderKeeps DEF bvars
<1> QED BY <1>1, <1>2 DEF BrowserInv, CallInv

LEMMA BrowserAlways == Spec => []BrowserInv
<1>1. Init => BrowserInv BY WireStarts, CallStarts DEF Init, BrowserInv
<1>2. BrowserInv /\ [Next]_vars => BrowserInv'
  <2> SUFFICES ASSUME BrowserInv, [Next]_vars PROVE BrowserInv' OBVIOUS
  <2>1. BrowserNext \/ UNCHANGED bvars BY DEF Next, vars
  <2> QED BY <2>1, BrowserKeeps, BrowserStutters
<1> QED BY <1>1, <1>2, PTL DEF Spec

\* While the extension is connected and its news are handled, the sessions
\* the driver holds active are the browser's tabs, though callers delete
\* sessions while the server thread goes over them; but for those deleted as
\* they came back, and after a list that a deletion cut short, until the next
\* (TMWebDriver.handle, _register_client, _unregister_client, clean_sessions).
THEOREM TabsAlwaysReachable == Spec => []TabsAreReachable
<1>1. BrowserInv => TabsAreReachable BY DEF BrowserInv, WireInv, Agrees, TabsAreReachable
<1> QED BY <1>1, BrowserAlways, PTL

\* The tab web_execute_js answers with is the one its script was sent to,
\* unless another agent of the process set the default session in between
\* (TMWebDriver.execute_js, ga.web_execute_js).
THEOREM ReportAlwaysNamesTheTab == Spec => []ReportNamesTheTab
<1>1. BrowserInv => ReportNamesTheTab BY DEF BrowserInv, CallInv, Names, ReportNamesTheTab
<1> QED BY <1>1, BrowserAlways, PTL
-----------------------------------------------------------------------------
(* The IM supervisor. *)

Announced == Final \cup {"starting", "waiting_scan", "running"}
Points == {"new", "done", "status", "take", "enable", "spawn", "store",
           "disable", "clone", "kill", "clear", "forget", "sweep"}
Requests == [op : Starts \cup Stops \cup {"none"}, pc : Points, child : Nat]
Slots == [known : BOOLEAN, pid : Nat, child : Nat, state : Announced \cup {"none", "not_connected"}]

ImType ==
    /\ slot \in Slots /\ (~slot.known => slot.child = 0)
    /\ req \in [ImRequests -> Requests]
    /\ born \in Nat /\ watched \subseteq 1 .. born
    /\ lines \in [Child -> Seq(Announced)] /\ DOMAIN said = Child
    /\ \A r \in ImRequests : req[r].pc = "store" => req[r].child \in 1 .. born

\* An end that is still to be read has been announced.
LineInv ==
    \A p \in Child : \A i \in 1 .. Len(lines[p]) : lines[p][i] \in Final => said[p] \in Final

Good == {p \in watched \cap (alive \ (doomed \cup forgotten)) : said[p] \notin Final}

Busy(r) == req[r].pc \notin {"new", "done"}
Alone == \A r, s \in ImRequests : Busy(r) /\ Busy(s) => r = s
Held == Good \subseteq {slot.child} /\ Good \subseteq {slot.pid} /\ (Good # {} => Up(slot.state))
Phase(r) ==
    /\ req[r].pc \in {"enable", "spawn", "store", "clear"} => Good = {}
    /\ req[r].pc = "kill" => Good \subseteq {req[r].child}

Lone == Alone /\ Held /\ \A r \in ImRequests : Phase(r)

ImInv == ImType /\ LineInv /\ (~overlapped => Lone)

LEMMA ImStarts == ImInit => ImInv
<1> SUFFICES ASSUME ImInit PROVE ImInv OBVIOUS
<1>1. lines = [p \in Child |-> <<>>] /\ <<>> \in Seq(Announced) BY EmptySeq DEF ImInit
<1>2. \A p \in Child : Len(lines[p]) = 0 BY <1>1, EmptySeq
<1>3. LineInv BY <1>2 DEF LineInv
<1>4. slot \in Slots /\ slot.child = 0 BY DEF ImInit, Slots
<1>5. [op |-> "none", pc |-> "new", child |-> 0] \in Requests BY DEF Requests, Points
<1>6. ImType BY <1>1, <1>4, <1>5 DEF ImInit, ImType
<1>7. Lone BY DEF ImInit, Lone, Alone, Busy, Held, Phase, Good
<1> QED BY <1>3, <1>6, <1>7 DEF ImInv

LEMMA RequestGoes ==
    ASSUME ImType, NEW r \in ImRequests, NEW to \in Points, Goes(r, to)
    PROVE  /\ req' \in [ImRequests -> Requests] /\ req'[r].pc = to
           /\ to # "done" => req'[r].child = req[r].child
           /\ \A s \in ImRequests \ {r} : req'[s] = req[s]
<1>1. req \in [ImRequests -> Requests] /\ req[r] \in Requests BY DEF ImType
<1> DEFINE x == IF to = "done" THEN Over ELSE [req[r] EXCEPT !.pc = to]
<1>2. x \in Requests /\ x.pc = to /\ (to # "done" => x.child = req[r].child)
  <2>1. CASE to = "done" BY <2>1 DEF Over, Requests, Points
  <2>2. CASE to # "done" BY <2>2, <1>1 DEF Requests
  <2> QED BY <2>1, <2>2
<1>3. req' = [req EXCEPT ![r] = x] BY DEF Goes
<1> HIDE DEF x
<1> QED BY <1>1, <1>2, <1>3

\* A step of the one request in progress.
LEMMA RequestKeeps ==
    ASSUME ImInv, NEW r \in ImRequests, Busy(r), UNCHANGED <<overlapped, lines, said>>,
           \A s \in ImRequests \ {r} : req'[s] = req[s],
           ImType', ~overlapped => Held' /\ Phase(r)'
    PROVE  ImInv'
<1>1. LineInv' BY DEF ImInv, LineInv
<1>2. ASSUME ~overlapped PROVE Lone'
  <2>1. \A s \in ImRequests \ {r} : ~Busy(s) BY <1>2 DEF ImInv, Lone, Alone
  <2>2. \A s \in ImRequests \ {r} : ~Busy(s)' BY <2>1 DEF Busy
  <2>3. Alone' BY <2>2 DEF Alone
  <2>4. \A s \in ImRequests \ {r} : Phase(s)' BY <2>2 DEF Busy, Phase
  <2> QED BY <1>2, <2>3, <2>4 DEF Lone
<1> QED BY <1>1, <1>2 DEF ImInv

\* A step of a child, or of the tasks that read and await it.
LEMMA ChildKeeps ==
    ASSUME ImInv, UNCHANGED <<req, overlapped, born>>, ImType', LineInv', Good' \subseteq Good,
           ~overlapped /\ Good' # {} => slot'.child = slot.child /\ slot'.pid = slot.pid
                                         /\ Up(slot'.state)
    PROVE  ImInv'
<1>1. ASSUME ~overlapped PROVE Lone'
  <2>1. Alone /\ Held /\ \A r \in ImRequests : Phase(r) BY <1>1 DEF ImInv, Lone
  <2>2. Alone' BY <2>1 DEF Alone, Busy
  <2>3. \A r \in ImRequests : Phase(r)' BY <2>1 DEF Phase
  <2>4. Held' BY <1>1, <2>1 DEF Held
  <2> QED BY <2>2, <2>3, <2>4 DEF Lone
<1> QED BY <1>1 DEF ImInv

LEMMA BeginKeeps ==
    ASSUME ImInv, NEW r \in ImRequests, NEW op \in Starts \cup Stops, Begin(r, op) PROVE ImInv'
<1>1. /\ req[r].pc = "new" /\ req \in [ImRequests -> Requests]
      /\ UNCHANGED <<slot, doomed, born, alive, lines, said, watched, forgotten>>
  BY DEF Begin, children, ImInv, ImType
<1>2. PICK x : /\ req' = [req EXCEPT ![r] = x] /\ x \in Requests
               /\ x.pc \in {"done", "sweep", "disable", "status"}
  <2>1. CASE op \in {"restart", "autostart"} /\ ~pref
    <3>1. req' = [req EXCEPT ![r] = Over] BY <2>1 DEF Begin
    <3>2. Over \in Requests /\ Over.pc = "done" BY DEF Over, Requests, Points
    <3> QED BY <3>1, <3>2
  <2>2. CASE ~(op \in {"restart", "autostart"} /\ ~pref)
    <3> DEFINE x == [op |-> Asked(op), pc |-> First(op), child |-> 0]
    <3>1. Asked(op) \in Starts \cup Stops BY DEF Asked, Starts
    <3>2. First(op) \in {"sweep", "disable", "status"} BY DEF First
    <3>3. x \in Requests /\ x.pc \in {"sweep", "disable", "status"}
      BY <3>1, <3>2 DEF Requests, Points
    <3>4. req' = [req EXCEPT ![r] = x] BY <2>2 DEF Begin
    <3> HIDE DEF x
    <3> QED BY <3>3, <3>4
  <2> QED BY <2>1, <2>2
<1>3. /\ req' \in [ImRequests -> Requests] /\ req'[r].pc \in {"done", "sweep", "disable", "status"}
      /\ \A s \in ImRequests \ {r} : req'[s] = req[s]
  BY <1>1, <1>2
<1>4. Good' = Good BY <1>1 DEF Good
<1>5. ImType' BY <1>1, <1>3 DEF ImInv, ImType
<1>6. LineInv' BY <1>1 DEF ImInv, LineInv
<1>7. ASSUME ~overlapped' PROVE Lone'
  <2>1. ~overlapped /\ \A s \in ImRequests : ~Busy(s) BY <1>7 DEF Begin, Busy
  <2>2. Alone' BY <1>3, <2>1 DEF Alone, Busy
  <2>3. Held /\ \A s \in ImRequests : Phase(s) BY <2>1 DEF ImInv, Lone
  <2>4. Held' BY <1>1, <1>4, <2>3 DEF Held
  <2>5. \A s \in ImRequests : Phase(s)' BY <1>3, <1>4, <2>3 DEF Phase
  <2> QED BY <2>2, <2>4, <2>5 DEF Lone
<1> QED BY <1>5, <1>6, <1>7 DEF ImInv

\* The steps of a request that is under way.
LEMMA RequestStepKeeps ==
    ASSUME ImInv, NEW r \in ImRequests,
           \/ ReadStatus(r) \/ TakeChild(r) \/ Enable(r) \/ Spawn(r) \/ Store(r)
           \/ Disable(r) \/ CloneChild(r) \/ Kill(r) \/ Clear(r) \/ Forget(r) \/ Sweep(r)
    PROVE  ImInv'
<1>1. ImType /\ req[r] \in Requests /\ (~overlapped => Held /\ Phase(r))
  BY DEF ImInv, ImType, Lone
<1>2. CASE ReadStatus(r)
  <2> DEFINE to == IF ~Up(slot.state) THEN "enable"
                   ELSE IF req[r].op = "restart" THEN "take" ELSE "done"
  <2>1. Goes(r, to) /\ to \in {"enable", "take", "done"} /\ (to = "enable" => ~Up(slot.state))
        /\ Busy(r) /\ UNCHANGED <<slot, doomed, born, alive, lines, said, watched, forgotten, overlapped>>
    BY <1>2 DEF ReadStatus, Busy, children
  <2> HIDE DEF to
  <2>2. /\ req' \in [ImRequests -> Requests] /\ req'[r].pc = to
        /\ \A s \in ImRequests \ {r} : req'[s] = req[s]
    BY <1>1, <2>1, RequestGoes DEF Points
  <2>3. Good' = Good BY <2>1 DEF Good
  <2>4. ImType' BY <1>1, <2>1, <2>2 DEF ImType
  <2>5. ~overlapped => Held' /\ Phase(r)' BY <1>1, <2>1, <2>2, <2>3 DEF Held, Phase
  <2> QED BY <2>1, <2>2, <2>4, <2>5, RequestKeeps
<1>3. CASE TakeChild(r)
  <2>1. /\ Goes(r, "enable") /\ Busy(r) /\ slot' = [slot EXCEPT !.child = 0]
        /\ doomed' = doomed \cup ({slot.child} \cap alive)
        /\ UNCHANGED <<born, alive, lines, said, watched, forgotten, overlapped>>
    BY <1>3 DEF TakeChild, Busy, children
  <2>2. /\ req' \in [ImRequests -> Requests] /\ req'[r].pc = "enable"
        /\ \A s \in ImRequests \ {r} : req'[s] = req[s]
    BY <1>1, <2>1, RequestGoes DEF Points
  <2>3. Held => Good' = {} BY <2>1 DEF Good, Held
  <2>4. slot' \in Slots /\ slot'.child = 0 BY <1>1, <2>1 DEF ImType, Slots
  <2>5. ImType' BY <1>1, <2>1, <2>2, <2>4 DEF ImType
  <2>6. ~overlapped => Held' /\ Phase(r)' BY <1>1, <2>2, <2>3 DEF Held, Phase
  <2> QED BY <2>1, <2>2, <2>5, <2>6, RequestKeeps
<1>4. CASE Enable(r) \/ Disable(r) \/ (Goes(r, "done") /\ Spawn(r))
  <2>1. PICK to \in {"spawn", "clone", "forget", "done"} :
           /\ Goes(r, to) /\ (to = "spawn" => req[r].pc = "enable")
           /\ Busy(r) /\ UNCHANGED <<slot, doomed, lines, said, watched, forgotten, overlapped>>
    BY <1>4 DEF Enable, Disable, Spawn, Busy, children
  <2>2. /\ req' \in [ImRequests -> Requests] /\ req'[r].pc = to
        /\ \A s \in ImRequests \ {r} : req'[s] = req[s]
    BY <1>1, <2>1, RequestGoes DEF Points
  <2>3. UNCHANGED <<born, alive>>
    <3>1. CASE Spawn(r) /\ Goes(r, "done")
      <4>1. req'[r].pc # "store" BY <1>1, <3>1, RequestGoes DEF Points
      <4>2. [req EXCEPT ![r].pc = "store", ![r].child = born + 1][r].pc = "store"
        BY <1>1 DEF ImType, Requests
      <4> QED BY <3>1, <4>1, <4>2 DEF Spawn
    <3> QED BY <1>4, <3>1 DEF Enable, Disable, children
  <2>4. Good' = Good BY <2>1, <2>3 DEF Good
  <2>5. ImType' BY <1>1, <2>1, <2>2, <2>3 DEF ImType
  <2>6. ~overlapped => Held' /\ Phase(r)' BY <1>1, <2>1, <2>2, <2>4 DEF Held, Phase
  <2> QED BY <2>1, <2>2, <2>5, <2>6, RequestKeeps
<1>5. CASE Spawn(r) /\ ~Goes(r, "done")
  <2>1. /\ req[r].pc = "spawn" /\ Busy(r)
        /\ born' = born + 1 /\ alive' = alive \cup {born + 1}
        /\ req' = [req EXCEPT ![r].pc = "store", ![r].child = born + 1]
        /\ UNCHANGED <<slot, doomed, lines, said, watched, forgotten, overlapped>>
    BY <1>5 DEF Spawn, Busy
  <2> DEFINE x == [req[r] EXCEPT !.pc = "store", !.child = born + 1]
  <2>2. x \in Requests /\ x.pc = "store" /\ x.child = born + 1
    <3> DEFINE b == born + 1
    <3>1. b \in Nat BY <1>1 DEF ImType
    <3> HIDE DEF b
    <3>2. [req[r] EXCEPT !.pc = "store", !.child = b] \in Requests
      BY <1>1, <3>1 DEF Requests, Points
    <3>3. /\ [req[r] EXCEPT !.pc = "store", !.child = b].pc = "store"
          /\ [req[r] EXCEPT !.pc = "store", !.child = b].child = b
      BY <1>1 DEF Requests
    <3> QED BY <3>2, <3>3 DEF b
  <2>3. req' = [req EXCEPT ![r] = x] BY <2>1
  <2> HIDE DEF x
  <2>4. /\ req' \in [ImRequests -> Requests] /\ req'[r].pc = "store" /\ req'[r].child = born + 1
        /\ \A s \in ImRequests \ {r} : req'[s] = req[s]
    BY <1>1, <2>2, <2>3 DEF ImType
  <2>5. born \in Nat /\ watched \subseteq 1 .. born BY <1>1 DEF ImType
  <2>6. born + 1 \notin watched BY <2>5
  <2>7. Good' = Good BY <2>1, <2>6 DEF Good
  <2>8. /\ born' \in Nat /\ watched' \subseteq 1 .. born'
        /\ \A s \in ImRequests : req'[s].pc = "store" => req'[s].child \in 1 .. born'
    BY <1>1, <2>1, <2>4, <2>5 DEF ImType
  <2>9. ImType' BY <1>1, <2>1, <2>4, <2>8 DEF ImType
  <2>10. ~overlapped => Held' /\ Phase(r)' BY <1>1, <2>1, <2>4, <2>7 DEF Held, Phase
  <2> QED BY <2>1, <2>4, <2>9, <2>10, RequestKeeps
<1>6. CASE Store(r)
  <2> DEFINE p == req[r].child
  <2>1. /\ req[r].pc = "store" /\ Busy(r) /\ Goes(r, "done")
        /\ slot' = [known |-> TRUE, pid |-> p, child |-> p, state |-> "starting"]
        /\ watched' = watched \cup {p}
        /\ UNCHANGED <<born, alive, doomed, lines, said, forgotten, overlapped>>
    BY <1>6 DEF Store, Busy
  <2>2. /\ req' \in [ImRequests -> Requests] /\ req'[r].pc = "done"
        /\ \A s \in ImRequests \ {r} : req'[s] = req[s]
    BY <1>1, <2>1, RequestGoes DEF Points
  <2>3. p \in 1 .. born /\ p \in Nat BY <1>1, <2>1 DEF ImType, Requests
  <2> HIDE DEF p
  <2>4. slot' \in Slots /\ slot'.known /\ slot'.child = p /\ slot'.pid = p /\ Up(slot'.state)
    BY <2>1, <2>3 DEF Slots, Announced, Up
  <2>5. ImType' BY <1>1, <2>1, <2>2, <2>3, <2>4 DEF ImType
  <2>6. Good' \subseteq Good \cup {p} BY <2>1 DEF Good
  <2>7. ~overlapped => Held' /\ Phase(r)' BY <1>1, <2>1, <2>2, <2>4, <2>6 DEF Held, Phase
  <2> QED BY <2>1, <2>2, <2>5, <2>7, RequestKeeps
<1>7. CASE CloneChild(r) /\ slot.known
  <2>1. /\ req[r].pc = "clone" /\ Busy(r)
        /\ req' = [req EXCEPT ![r].child = slot.child, ![r].pc = "kill"]
        /\ UNCHANGED <<slot, doomed, born, alive, lines, said, watched, forgotten, overlapped>>
    BY <1>7 DEF CloneChild, Busy, children
  <2> DEFINE x == [req[r] EXCEPT !.child = slot.child, !.pc = "kill"]
  <2>2. x \in Requests /\ x.pc = "kill" /\ x.child = slot.child
    BY <1>1 DEF ImType, Requests, Points, Slots
  <2>3. req' = [req EXCEPT ![r] = x] BY <2>1
  <2> HIDE DEF x
  <2>4. /\ req' \in [ImRequests -> Requests] /\ req'[r].pc = "kill" /\ req'[r].child = slot.child
        /\ \A s \in ImRequests \ {r} : req'[s] = req[s]
    BY <1>1, <2>2, <2>3 DEF ImType
  <2>5. Good' = Good BY <2>1 DEF Good
  <2>6. ImType' BY <1>1, <2>1, <2>4 DEF ImType
  <2>7. ~overlapped => Held' /\ Phase(r)' BY <1>1, <2>1, <2>4, <2>5 DEF Held, Phase
  <2> QED BY <2>1, <2>4, <2>6, <2>7, RequestKeeps
<1>8. CASE Kill(r)
  <2>1. /\ req[r].pc = "kill" /\ Busy(r) /\ Goes(r, "clear")
        /\ doomed' = doomed \cup ({req[r].child} \cap alive)
        /\ UNCHANGED <<slot, born, alive, lines, said, watched, forgotten, overlapped>>
    BY <1>8 DEF Kill, Busy, children
  <2>2. /\ req' \in [ImRequests -> Requests] /\ req'[r].pc = "clear"
        /\ \A s \in ImRequests \ {r} : req'[s] = req[s]
    BY <1>1, <2>1, RequestGoes DEF Points
  <2>3. Phase(r) => Good' = {} BY <2>1 DEF Phase, Good
  <2>4. ImType' BY <1>1, <2>1, <2>2 DEF ImType
  <2>5. ~overlapped => Held' /\ Phase(r)' BY <1>1, <2>2, <2>3 DEF Held, Phase
  <2> QED BY <2>1, <2>2, <2>4, <2>5, RequestKeeps
<1>9. CASE Clear(r) \/ Forget(r) \/ (CloneChild(r) /\ ~slot.known) \/ Sweep(r)
  <2>1. PICK to \in {"forget", "done"} : Goes(r, to)
    BY <1>9 DEF Clear, Forget, CloneChild, Sweep
  <2>2. /\ Busy(r) /\ UNCHANGED <<born, alive, lines, said, watched, overlapped>>
        /\ doomed \subseteq doomed' /\ forgotten \subseteq forgotten'
    BY <1>9 DEF Clear, Forget, CloneChild, Sweep, Busy, children
  <2>3. /\ req' \in [ImRequests -> Requests] /\ req'[r].pc = to
        /\ \A s \in ImRequests \ {r} : req'[s] = req[s]
    BY <1>1, <2>1, RequestGoes DEF Points
  <2>4. slot' \in Slots /\ (~slot'.known => slot'.child = 0)
    <3>1. slot' \in {slot, Cleared("stopped"), Cleared("not_connected")}
      BY <1>9 DEF Clear, Forget, CloneChild, Sweep
    <3>2. /\ Cleared("stopped") \in Slots /\ Cleared("stopped").child = 0
          /\ Cleared("not_connected") \in Slots /\ Cleared("not_connected").child = 0
      BY DEF Cleared, Slots, Announced, Final
    <3> QED BY <1>1, <3>1, <3>2 DEF ImType
  <2>5. ImType' BY <1>1, <2>2, <2>3, <2>4 DEF ImType
  <2>6. Good' \subseteq Good BY <2>2 DEF Good
  <2>7. CASE Clear(r)
    <3>1. req[r].pc = "clear" BY <2>7 DEF Clear
    <3>2. ~overlapped => Good' = {} BY <1>1, <2>6, <3>1 DEF Phase
    <3>3. ~overlapped => Held' /\ Phase(r)' BY <2>3, <3>2 DEF Held, Phase
    <3> QED BY <2>2, <2>3, <2>5, <3>3, RequestKeeps
  <2>8. CASE Sweep(r)
    <3>1. req'[r].pc = "done" /\ UNCHANGED slot
      <4>1. Goes(r, "done") /\ UNCHANGED slot BY <2>8 DEF Sweep
      <4> QED BY <1>1, <4>1, RequestGoes DEF Points
    <3>2. ~overlapped => Held' /\ Phase(r)' BY <1>1, <2>6, <3>1 DEF Held, Phase
    <3> QED BY <2>2, <2>3, <2>5, <3>2, RequestKeeps
  <2>9. CASE CloneChild(r) /\ ~slot.known
    <3>1. UNCHANGED slot /\ slot.child = 0 BY <1>1, <2>9 DEF CloneChild, ImType
    <3>2. 0 \notin Good BY <1>1 DEF ImType, Good
    <3>3. ~overlapped => Good' = {} BY <1>1, <2>6, <3>1, <3>2 DEF Held
    <3>4. ~overlapped => Held' /\ Phase(r)' BY <2>3, <3>3 DEF Held, Phase
    <3> QED BY <2>2, <2>3, <2>5, <3>4, RequestKeeps
  <2>10. CASE Forget(r) /\ UNCHANGED slot
    <3>1. req'[r].pc = "done"
      <4>1. Goes(r, "done") BY <2>10 DEF Forget
      <4> QED BY <1>1, <4>1, RequestGoes DEF Points
    <3>2. ~overlapped => Held' /\ Phase(r)' BY <1>1, <2>6, <2>10, <3>1 DEF Held, Phase
    <3> QED BY <2>2, <2>3, <2>5, <3>2, RequestKeeps
  <2>11. CASE Forget(r) /\ forgotten' = forgotten \cup ({slot.child} \cap (alive \ doomed))
    <3>1. Held => Good' = {} BY <2>2, <2>6, <2>11 DEF Held, Good
    <3>2. req'[r].pc = "done"
      <4>1. Goes(r, "done") BY <2>11 DEF Forget
      <4> QED BY <1>1, <4>1, RequestGoes DEF Points
    <3>3. ~overlapped => Held' /\ Phase(r)' BY <1>1, <3>1, <3>2 DEF Held, Phase
    <3> QED BY <2>2, <2>3, <2>5, <3>3, RequestKeeps
  <2> QED BY <1>9, <2>7, <2>8, <2>9, <2>10, <2>11 DEF Forget
<1> QED BY <1>2, <1>3, <1>4, <1>5, <1>6, <1>7, <1>8, <1>9

\* The steps of the children, and of the tasks that read and await them.
LEMMA ChildStepKeeps ==
    ASSUME ImInv, NEW p \in Child,
           \/ \E s \in Announced : Says(p, s)
           \/ Exit(p) \/ ReadLine(p) \/ WaitChild(p)
    PROVE  ImInv'
<1>1. /\ ImType /\ LineInv /\ lines[p] \in Seq(Announced) /\ slot \in Slots
      /\ lines \in [Child -> Seq(Announced)] /\ (~overlapped => Held)
  BY DEF ImInv, ImType, Lone
<1>2. ASSUME NEW s \in Announced, Says(p, s) PROVE ImInv'
  <2>1. /\ p \in alive /\ said[p] \notin Final /\ said' = [said EXCEPT ![p] = s]
        /\ lines' = [lines EXCEPT ![p] = Append(@, s)]
        /\ UNCHANGED <<slot, req, born, alive, doomed, watched, forgotten, overlapped>>
    BY <1>2 DEF Says, Final
  <2>2. /\ lines'[p] \in Seq(Announced) /\ Len(lines'[p]) = Len(lines[p]) + 1
        /\ \A i \in 1 .. Len(lines[p]) : lines'[p][i] = lines[p][i]
        /\ lines'[p][Len(lines'[p])] = s
    BY <1>1, <2>1, AppendProperties
  <2>3. lines' \in [Child -> Seq(Announced)] BY <1>1, <2>1, <2>2
  <2>4. ImType' BY <1>1, <2>1, <2>3 DEF ImType
  <2>5. ASSUME NEW q \in Child, NEW i \in 1 .. Len(lines'[q]), lines'[q][i] \in Final
        PROVE  said'[q] \in Final
    <3>1. CASE q # p
      <4>1. lines'[q] = lines[q] BY <1>1, <2>1, <3>1
      <4>2. said[q] \in Final BY <1>1, <2>5, <4>1 DEF LineInv
      <4>3. said'[q] = said[q] BY <2>1, <3>1
      <4> QED BY <4>2, <4>3
    <3>2. CASE q = p
      <4>1. Len(lines[p]) \in Nat BY <1>1, LenProperties
      <4>2. i \in 1 .. Len(lines[p]) \/ i = Len(lines'[p]) BY <2>2, <2>5, <3>2, <4>1
      <4>3. ~(i \in 1 .. Len(lines[p])) BY <1>1, <2>1, <2>2, <2>5, <3>2 DEF LineInv
      <4>4. s \in Final BY <2>2, <2>5, <3>2, <4>2, <4>3
      <4>5. said'[p] = s BY <1>1, <2>1 DEF ImType
      <4> QED BY <3>2, <4>4, <4>5
    <3> QED BY <3>1, <3>2
  <2>6. LineInv' BY <2>5 DEF LineInv
  <2>7. Good' \subseteq Good BY <2>1 DEF Good
  <2>8. ~overlapped /\ Good' # {} => Up(slot'.state) BY <1>1, <2>1, <2>7 DEF Held
  <2> QED BY <2>1, <2>4, <2>6, <2>7, <2>8, ChildKeeps
<1>3. CASE Exit(p)
  <2>1. /\ alive' = alive \ {p} /\ doomed' = doomed \ {p}
        /\ forgotten' = forgotten \ {p}
        /\ UNCHANGED <<slot, req, born, lines, said, watched, overlapped>>
    BY <1>3 DEF Exit
  <2>2. ImType' BY <1>1, <2>1 DEF ImType
  <2>3. LineInv' BY <1>1, <2>1 DEF LineInv
  <2>4. Good' \subseteq Good BY <2>1 DEF Good
  <2>5. ~overlapped /\ Good' # {} => Up(slot'.state) BY <1>1, <2>1, <2>4 DEF Held
  <2> QED BY <2>1, <2>2, <2>3, <2>4, <2>5, ChildKeeps
<1>4. CASE ReadLine(p)
  <2>1. /\ lines[p] # <<>> /\ lines' = [lines EXCEPT ![p] = Tail(@)]
        /\ slot' = IF slot.pid = p THEN [slot EXCEPT !.state = Head(lines[p])] ELSE slot
        /\ UNCHANGED <<req, born, alive, doomed, said, watched, forgotten, overlapped>>
    BY <1>4 DEF ReadLine
  <2>2. /\ Head(lines[p]) = lines[p][1] /\ Head(lines[p]) \in Announced
        /\ Tail(lines[p]) \in Seq(Announced) /\ Len(Tail(lines[p])) = Len(lines[p]) - 1
        /\ \A i \in 1 .. Len(Tail(lines[p])) : Tail(lines[p])[i] = lines[p][i + 1]
    BY <1>1, <2>1, HeadTailProperties
  <2>3. Len(lines[p]) \in Nat /\ Len(lines[p]) # 0 BY <1>1, <2>1, LenProperties, EmptySeq
  <2>4. lines' \in [Child -> Seq(Announced)] /\ lines'[p] = Tail(lines[p]) BY <1>1, <2>1, <2>2
  <2>5. slot' \in Slots /\ slot'.child = slot.child /\ slot'.pid = slot.pid
        /\ slot'.known = slot.known
    BY <1>1, <2>1, <2>2 DEF Slots
  <2>6. ImType' BY <1>1, <2>1, <2>4, <2>5 DEF ImType
  <2>7. ASSUME NEW q \in Child, NEW i \in 1 .. Len(lines'[q]), lines'[q][i] \in Final
        PROVE  said'[q] \in Final
    <3>1. CASE q # p
      <4>1. lines'[q] = lines[q] BY <1>1, <2>1, <3>1
      <4> QED BY <1>1, <2>1, <2>7, <4>1 DEF LineInv
    <3>2. CASE q = p
      <4>1. i + 1 \in 1 .. Len(lines[p]) BY <2>2, <2>3, <2>4, <2>7, <3>2
      <4>2. lines[p][i + 1] \in Final BY <2>2, <2>4, <2>7, <3>2
      <4> QED BY <1>1, <2>1, <3>2, <4>1, <4>2 DEF LineInv
    <3> QED BY <3>1, <3>2
  <2>8. LineInv' BY <2>7 DEF LineInv
  <2>9. Good' = Good BY <2>1 DEF Good
  <2>10. ASSUME ~overlapped, Good' # {} PROVE Up(slot'.state)
    <3>1. CASE slot.pid # p BY <1>1, <2>1, <2>9, <2>10, <3>1 DEF Held
    <3>2. CASE slot.pid = p
      <4>1. p \in Good BY <1>1, <2>9, <2>10, <3>2 DEF Held
      <4>2. said[p] \notin Final BY <4>1 DEF Good
      <4>3. 1 \in 1 .. Len(lines[p]) BY <2>3
      <4>4. Head(lines[p]) \notin Final BY <1>1, <2>2, <4>2, <4>3 DEF LineInv
      <4>5. Head(lines[p]) \in {"starting", "waiting_scan", "running"}
        BY <2>2, <4>4 DEF Announced
      <4>6. slot'.state = Head(lines[p]) BY <1>1, <2>1, <3>2 DEF Slots
      <4> QED BY <4>5, <4>6 DEF Up
    <3> QED BY <3>1, <3>2
  <2> QED BY <2>1, <2>5, <2>6, <2>8, <2>9, <2>10, ChildKeeps
<1>5. CASE WaitChild(p)
  <2>1. /\ p \notin alive /\ watched' = watched \ {p} /\ lines' = [lines EXCEPT ![p] = <<>>]
        /\ UNCHANGED <<req, born, alive, doomed, said, forgotten, overlapped>>
    BY <1>5 DEF WaitChild
  <2>2. <<>> \in Seq(Announced) /\ Len(<<>>) = 0 BY EmptySeq
  <2>3. lines' \in [Child -> Seq(Announced)] /\ lines'[p] = <<>> BY <1>1, <2>1, <2>2
  <2>4. Good' \subseteq Good /\ p \notin Good BY <2>1 DEF Good
  <2>5. \/ slot.pid # p /\ UNCHANGED slot
        \/ slot.pid = p /\ \E end \in Announced : slot' = [slot EXCEPT !.child = 0, !.pid = 0, !.state = end]
    BY <1>5 DEF WaitChild, Announced, Final
  <2>6. slot' \in Slots /\ (~slot'.known => slot'.child = 0)
    <3>1. CASE UNCHANGED slot BY <1>1, <3>1 DEF ImType
    <3>2. ASSUME NEW end \in Announced, slot' = [slot EXCEPT !.child = 0, !.pid = 0, !.state = end]
          PROVE  slot' \in Slots /\ slot'.child = 0
      BY <1>1, <3>2 DEF Slots
    <3> QED BY <2>5, <3>1, <3>2
  <2>7. ImType' BY <1>1, <2>1, <2>3, <2>6 DEF ImType
  <2>8. ASSUME NEW q \in Child, NEW i \in 1 .. Len(lines'[q]), lines'[q][i] \in Final
        PROVE  said'[q] \in Final
    <3>1. q # p BY <2>2, <2>3, <2>8
    <3>2. lines'[q] = lines[q] BY <1>1, <2>1, <3>1
    <3> QED BY <1>1, <2>1, <2>8, <3>2 DEF LineInv
  <2>9. LineInv' BY <2>8 DEF LineInv
  <2>10. ASSUME ~overlapped, Good' # {} PROVE slot' = slot /\ Up(slot.state)
    <3>1. slot.pid # p BY <1>1, <2>4, <2>10 DEF Held
    <3> QED BY <1>1, <2>4, <2>5, <2>10, <3>1 DEF Held
  <2> QED BY <2>1, <2>4, <2>7, <2>9, <2>10, ChildKeeps
<1> QED BY <1>2, <1>3, <1>4, <1>5

LEMMA ImAlways == Spec => []ImInv
<1>1. Init => ImInv BY ImStarts DEF Init
<1>2. ImInv /\ [Next]_vars => ImInv'
  <2> SUFFICES ASSUME ImInv, [Next]_vars PROVE ImInv' OBVIOUS
  <2>1. CASE UNCHANGED mvars
    BY <2>1 DEF mvars, ImInv, ImType, LineInv, Lone, Alone, Busy, Held, Phase, Good
  <2>2. CASE ImNext
    BY <2>2, BeginKeeps, RequestStepKeeps, ChildStepKeeps DEF ImNext, Announced
  <2> QED BY <2>1, <2>2 DEF Next, vars
<1> QED BY <1>1, <1>2, PTL DEF Spec

\* As long as the desktop's requests come one at a time, a bot that runs is
\* the slot's child, and so the only one (ImSupervisor.start_inner, stop,
\* logout, read_stdout, wait_child).
THEOREM AlwaysOneChild == Spec => []OneChild
<1>1. ImInv => OneChild BY DEF ImInv, Lone, Held, Good, OneChild
<1> QED BY <1>1, ImAlways, PTL
-----------------------------------------------------------------------------
(* The types of both parts: the clocks, and the children that are known. *)

ClocksRun == \A c \in Callers : call[c].clock <= Timeout

LEMMA ClocksKeep == ASSUME BrowserInv, ClocksRun, BrowserNext PROVE ClocksRun'
<1>1. call \in [Callers -> Calls] /\ Timeout \in Nat
  BY BrowserAssumption DEF BrowserInv, CallInv, CallType
<1>2. \A c \in Callers : call[c] \in Calls /\ call[c].clock \in Nat /\ call[c].clock <= Timeout
  BY <1>1 DEF Calls, ClocksRun
<1>3. Idle.clock = 0 BY DEF Idle
\* A step that gives one caller's record another, with the clock it had or none.
<1>4. ASSUME NEW c \in Callers, NEW r, call' = [call EXCEPT ![c] = r],
             r.clock \in {0, call[c].clock}
      PROVE  ClocksRun'
  <2> SUFFICES ASSUME NEW d \in Callers PROVE call'[d].clock <= Timeout BY DEF ClocksRun
  <2>1. CASE d = c
    <3>1. call'[d].clock = 0 \/ call'[d].clock = call[c].clock BY <1>1, <1>4, <2>1
    <3> QED BY <1>1, <1>2, <3>1
  <2>2. CASE d # c
    <3>1. call'[d] = call[d] BY <1>1, <1>4, <2>2
    <3> QED BY <1>2, <3>1
  <2> QED BY <2>1, <2>2
<1>5. ASSUME NEW c \in Callers, call' = AfterCall(c) PROVE ClocksRun'
  <2> DEFINE r == IF call[c].stage = Script THEN [Idle EXCEPT !.pc = "report"]
                  ELSE [Idle EXCEPT !.pc = "call", !.stage = Script]
  <2>1. r.clock = 0 BY DEF Idle
  <2>2. call' = [call EXCEPT ![c] = r] BY <1>5 DEF AfterCall
  <2> HIDE DEF r
  <2> QED BY <1>4, <2>1, <2>2
<1>6. ASSUME NEW c \in Callers, NEW p, call' = [call EXCEPT ![c].pc = p] PROVE ClocksRun'
  <2> DEFINE r == [call[c] EXCEPT !.pc = p]
  <2>1. r.clock = call[c].clock BY <1>2 DEF Calls
  <2>2. call' = [call EXCEPT ![c] = r] BY <1>6
  <2> HIDE DEF r
  <2> QED BY <1>4, <2>1, <2>2
<1>7. ASSUME NEW c \in Callers, NEW x, call' = [call EXCEPT ![c].script = x] PROVE ClocksRun'
  <2> DEFINE r == [call[c] EXCEPT !.script = x]
  <2>1. r.clock = call[c].clock BY <1>2 DEF Calls
  <2>2. call' = [call EXCEPT ![c] = r] BY <1>7
  <2> HIDE DEF r
  <2> QED BY <1>4, <2>1, <2>2
<1>8. ASSUME NEW c \in Callers, NEW t, SendTo(c, t) PROVE ClocksRun'
  <2> DEFINE p == IF Old = {} THEN "wait" ELSE "clean"
             x == IF Connected(t) THEN "sent" ELSE "lost"
             r == [call[c] EXCEPT !.pc = p, !.sid = t, !.script = x]
  <2>1. call' = [call EXCEPT ![c] = r] BY <1>8 DEF SendTo
  <2> HIDE DEF p, x
  <2>2. r.clock = call[c].clock BY <1>2 DEF Calls
  <2> HIDE DEF r
  <2> QED BY <1>4, <2>1, <2>2
<1>9. CASE UNCHANGED call BY <1>9 DEF ClocksRun
<1>10. CASE Disconnect
  <2>1. \A c \in Callers : call'[c] = call[c] \/ call'[c] = [call[c] EXCEPT !.script = "lost"]
    BY <1>10 DEF Disconnect
  <2>2. \A c \in Callers : call'[c].clock = call[c].clock BY <1>2, <2>1 DEF Calls
  <2> QED BY <1>2, <2>2 DEF ClocksRun
<1>11. CASE Tick
  <2> SUFFICES ASSUME NEW c \in Callers PROVE call'[c].clock <= Timeout BY DEF ClocksRun
  <2>1. CASE call[c].pc = "wait" /\ call[c].clock < Timeout
    <3>1. call'[c] = [call[c] EXCEPT !.clock = @ + 1] BY <1>11, <2>1 DEF Tick
    <3>2. call'[c].clock = call[c].clock + 1 BY <1>2, <3>1 DEF Calls
    <3> QED BY <1>1, <1>2, <2>1, <3>2
  <2>2. CASE ~(call[c].pc = "wait" /\ call[c].clock < Timeout)
    <3>1. call'[c] = call[c] BY <1>11, <2>2 DEF Tick
    <3> QED BY <1>2, <3>1
  <2> QED BY <2>1, <2>2
<1>12. ASSUME NEW c \in Callers, Ask(c) PROVE ClocksRun'
  <2>1. CASE call' = [call EXCEPT ![c].pc = "done"] BY <1>6, <2>1
  <2>2. ASSUME NEW first \in {1, Script},
               call' = [call EXCEPT ![c].pc = "call", ![c].stage = first]
        PROVE  ClocksRun'
    <3> DEFINE r == [call[c] EXCEPT !.pc = "call", !.stage = first]
    <3>1. r.clock = call[c].clock BY <1>2 DEF Calls
    <3>2. call' = [call EXCEPT ![c] = r] BY <2>2
    <3> HIDE DEF r
    <3> QED BY <1>4, <3>1, <3>2
  <2> QED BY <1>12, <2>1, <2>2 DEF Ask
<1>13. ASSUME NEW c \in Callers, LookUp(c) PROVE ClocksRun'
  <2>1. CASE SendTo(c, default) BY <1>8, <2>1
  <2>2. CASE call' = [call EXCEPT ![c].pc = "nap", ![c].sid = default]
    <3> DEFINE r == [call[c] EXCEPT !.pc = "nap", !.sid = default]
    <3>1. r.clock = call[c].clock BY <1>2 DEF Calls
    <3>2. call' = [call EXCEPT ![c] = r] BY <2>2
    <3> HIDE DEF r
    <3> QED BY <1>4, <3>1, <3>2
  <2> QED BY <1>13, <2>1, <2>2 DEF LookUp
<1>14. ASSUME NEW c \in Callers, WakeUpAgain(c) PROVE ClocksRun'
  <2>1. (\E t : SendTo(c, t)) \/ call' = AfterCall(c) BY <1>14 DEF WakeUpAgain, FallBack
  <2> QED BY <1>5, <1>8, <2>1
<1>15. ASSUME NEW c \in Callers, CleanSessions(c) PROVE ClocksRun'
  <2>1. ASSUME NEW t, call' = [call EXCEPT ![c].pc = "drop", ![c].victim = t] PROVE ClocksRun'
    <3> DEFINE r == [call[c] EXCEPT !.pc = "drop", !.victim = t]
    <3>1. r.clock = call[c].clock BY <1>2 DEF Calls
    <3>2. call' = [call EXCEPT ![c] = r] BY <2>1
    <3> HIDE DEF r
    <3> QED BY <1>4, <3>1, <3>2
  <2> QED BY <1>6, <1>15, <2>1 DEF CleanSessions
<1>16. ASSUME NEW c \in Callers, DropSession(c) PROVE ClocksRun'
  <2>1. CASE call' = [call EXCEPT ![c].pc = "clean", ![c].victim = NoTab]
    <3> DEFINE r == [call[c] EXCEPT !.pc = "clean", !.victim = NoTab]
    <3>1. r.clock = call[c].clock BY <1>2 DEF Calls
    <3>2. call' = [call EXCEPT ![c] = r] BY <2>1
    <3> HIDE DEF r
    <3> QED BY <1>4, <3>1, <3>2
  <2> QED BY <1>5, <1>16, <2>1 DEF DropSession
<1>17. ASSUME NEW c \in Callers, Wait(c) PROVE ClocksRun'
  <2> DEFINE j == call[c].jump \/ ~(call[c].sid \in Active)
             k == IF Restarts(c) THEN 0 ELSE call[c].clock
             a == call[c].acked \/ Restarts(c)
             r == [call[c] EXCEPT !.jump = j, !.clock = k, !.acked = a]
  <2>1. call' = AfterCall(c) \/ call' = [call EXCEPT ![c] = r] BY <1>17 DEF Wait
  <2>2. k \in {0, call[c].clock} OBVIOUS
  <2> HIDE DEF j, k, a
  <2>3. r.clock = k BY <1>2 DEF Calls
  <2> HIDE DEF r
  <2>4. r.clock \in {0, call[c].clock} BY <2>2, <2>3
  <2> QED BY <1>4, <1>5, <2>1, <2>4
<1>18. ASSUME NEW c \in Callers, Report(c) PROVE ClocksRun'
  BY <1>6, <1>18 DEF Report
<1>19. ASSUME NEW c \in Callers, Acknowledge(c) \/ Answer(c) PROVE ClocksRun'
  BY <1>7, <1>19 DEF Acknowledge, Answer
<1>20. UNCHANGED call \/ Disconnect \/ Tick
       \/ \E c \in Callers : Ask(c) \/ Caller(c) \/ Acknowledge(c) \/ Answer(c)
  BY DEF BrowserNext, Connect, ChangeTabs, ServerThread, TakeNews, MarkSession, CloseSession,
     RegisterTab, Reconnect, GrowOld
<1> QED BY <1>9, <1>10, <1>11, <1>12, <1>13, <1>14, <1>15, <1>16, <1>17, <1>18, <1>19, <1>20
        DEF Caller

\* The children that were told to die run, those that run were started, and
\* the slot holds one of them, under its own number, or none.
ChildrenKnown ==
    /\ doomed \cup forgotten \subseteq alive /\ alive \subseteq 1 .. born
    /\ slot.pid \in 0 .. born /\ slot.child \in {0, slot.pid}

LEMMA ChildrenStayKnown == ASSUME ImInv, ChildrenKnown, ImNext PROVE ChildrenKnown'
<1>1. born \in Nat /\ slot \in Slots /\ req \in [ImRequests -> Requests]
      /\ \A r \in ImRequests : req[r].pc = "store" => req[r].child \in 1 .. born
  BY DEF ImInv, ImType
<1> USE DEF ChildrenKnown
<1>2. CASE UNCHANGED <<slot, born, alive, doomed, forgotten>> BY <1>2
<1>3. ASSUME NEW p, UNCHANGED <<slot, born, alive, forgotten>>, doomed' = doomed \cup ({p} \cap alive)
      PROVE  ChildrenKnown'
  BY <1>3
<1>4. ASSUME NEW r \in ImRequests, TakeChild(r) PROVE ChildrenKnown'
  <2>1. slot' = [slot EXCEPT !.child = 0] /\ doomed' = doomed \cup ({slot.child} \cap alive)
        /\ UNCHANGED <<born, alive, forgotten>>
    BY <1>4 DEF TakeChild, children
  <2>2. slot'.child = 0 /\ slot'.pid = slot.pid BY <1>1, <2>1 DEF Slots
  <2> QED BY <2>1, <2>2
<1>5. ASSUME NEW r \in ImRequests, Spawn(r) PROVE ChildrenKnown'
  <2>1. CASE UNCHANGED <<born, alive>> BY <1>5, <2>1 DEF Spawn
  <2>2. CASE born' = born + 1 /\ alive' = alive \cup {born + 1}
    <3>1. 1 .. born \subseteq 1 .. born' /\ born + 1 \in 1 .. born' BY <1>1, <2>2
    <3>2. alive' \subseteq 1 .. born' BY <2>2, <3>1
    <3>3. slot.pid \in 0 .. born' BY <1>1, <2>2
    <3> QED BY <1>5, <2>2, <3>2, <3>3 DEF Spawn
  <2> QED BY <1>5, <2>1, <2>2 DEF Spawn
<1>6. ASSUME NEW r \in ImRequests, Store(r) PROVE ChildrenKnown'
  <2>1. req[r].child \in 1 .. born BY <1>1, <1>6 DEF Store
  <2>2. slot'.pid = req[r].child /\ slot'.child = req[r].child
        /\ UNCHANGED <<born, alive, doomed, forgotten>>
    BY <1>6 DEF Store
  <2>3. req[r].child \in 0 .. born BY <1>1, <2>1
  <2> QED BY <2>2, <2>3
<1>7. ASSUME NEW state, slot' = Cleared(state), UNCHANGED <<born, alive, doomed>>,
             forgotten' \subseteq forgotten \cup alive
      PROVE  ChildrenKnown'
  <2>1. slot'.pid = 0 /\ slot'.child = 0 BY <1>7 DEF Cleared
  <2>2. 0 \in 0 .. born BY <1>1
  <2> QED BY <1>7, <2>1, <2>2
<1>8. ASSUME NEW p \in Child, ReadLine(p) PROVE ChildrenKnown'
  <2>1. slot'.pid = slot.pid /\ slot'.child = slot.child
    BY <1>1, <1>8 DEF ReadLine, Slots
  <2>2. UNCHANGED <<born, alive, doomed, forgotten>> BY <1>8 DEF ReadLine
  <2> QED BY <2>1, <2>2
<1>9. ASSUME NEW p \in Child, WaitChild(p) PROVE ChildrenKnown'
  <2>1. UNCHANGED <<born, alive, doomed, forgotten>> /\ 0 \in 0 .. born
    <3>1. UNCHANGED <<born, alive, doomed, forgotten>> BY <1>9 DEF WaitChild
    <3>2. 0 \in 0 .. born BY <1>1
    <3> QED BY <3>1, <3>2
  <2>2. CASE slot.pid # p
    <3>1. UNCHANGED slot BY <1>9, <2>2 DEF WaitChild
    <3> QED BY <2>1, <3>1
  <2>3. CASE slot.pid = p
    <3>1. PICK end : slot' = [slot EXCEPT !.child = 0, !.pid = 0, !.state = end]
      BY <1>9, <2>3 DEF WaitChild
    <3>2. slot'.pid = 0 /\ slot'.child = 0 BY <1>1, <3>1 DEF Slots
    <3> QED BY <2>1, <3>2
  <2> QED BY <2>2, <2>3
<1>10. ASSUME NEW p \in Child, Exit(p) PROVE ChildrenKnown' BY <1>10 DEF Exit
<1>11. ASSUME NEW r \in ImRequests, Kill(r) \/ Sweep(r) PROVE ChildrenKnown'
  BY <1>3, <1>11 DEF Kill, Sweep, children
<1>12. ASSUME NEW r \in ImRequests, Clear(r) \/ Forget(r) PROVE ChildrenKnown'
  <2>1. CASE Clear(r) BY <1>7, <2>1 DEF Clear, children
  <2>2. CASE Forget(r) /\ slot' = Cleared("not_connected")
    <3>1. UNCHANGED <<born, alive, doomed>> /\ forgotten' \subseteq forgotten \cup alive
      BY <2>2 DEF Forget
    <3> QED BY <1>7, <2>2, <3>1
  <2>3. CASE Forget(r) /\ UNCHANGED <<slot, forgotten>> BY <1>2, <2>3 DEF Forget
  <2> QED BY <1>12, <2>1, <2>2, <2>3 DEF Forget
<1>13. ASSUME NEW r \in ImRequests,
              \/ \E op \in Starts \cup Stops : Begin(r, op)
              \/ ReadStatus(r) \/ Enable(r) \/ Disable(r) \/ CloneChild(r)
       PROVE  ChildrenKnown'
  BY <1>2, <1>13 DEF Begin, ReadStatus, Enable, Disable, CloneChild, children
<1>14. ASSUME NEW p \in Child, NEW s, Says(p, s) PROVE ChildrenKnown'
  BY <1>2, <1>14 DEF Says
<1> QED BY <1>4, <1>5, <1>6, <1>8, <1>9, <1>10, <1>11, <1>12, <1>13, <1>14 DEF ImNext

\* A caller's clock never passes its time, only deleted sessions of real tabs
\* are torn, and the supervisor knows the children it has: those told to die
\* run, and the slot names a child that was started (TMWebDriver.execute_js,
\* ImSupervisor).
THEOREM ExternalsTyped == Spec => []TypeOK
<1> DEFINE Types == part \in {"browser", "im"} /\ ClocksRun /\ ChildrenKnown
<1>1. Init => Types
  <2> SUFFICES ASSUME Init PROVE Types OBVIOUS
  <2>1. ClocksRun
    <3>1. \A c \in Callers : call[c].clock = 0 BY DEF Init, BrowserInit, Idle
    <3> QED BY <3>1, BrowserAssumption DEF ClocksRun
  <2>2. ChildrenKnown BY DEF Init, ImInit, ChildrenKnown
  <2> QED BY <2>1, <2>2 DEF Init
<1>2. BrowserInv /\ ImInv /\ Types /\ [Next]_vars => Types'
  <2> SUFFICES ASSUME BrowserInv, ImInv, Types, [Next]_vars PROVE Types' OBVIOUS
  <2>1. UNCHANGED part BY DEF Next, Runs, vars
  <2>2. ClocksRun'
    <3>1. CASE UNCHANGED bvars BY <3>1 DEF bvars, ClocksRun
    <3>2. CASE BrowserNext BY <3>2, ClocksKeep
    <3> QED BY <3>1, <3>2 DEF Next, vars
  <2>3. ChildrenKnown'
    <3>1. CASE UNCHANGED mvars BY <3>1 DEF mvars, ChildrenKnown
    <3>2. CASE ImNext BY <3>2, ChildrenStayKnown
    <3> QED BY <3>1, <3>2 DEF Next, vars
  <2> QED BY <2>1, <2>2, <2>3
<1>3. BrowserInv /\ Types => TypeOK
  BY DEF BrowserInv, WireInv, WireType, CallInv, CallType, ClocksRun, ChildrenKnown, TypeOK
<1> QED BY <1>1, <1>2, <1>3, BrowserAlways, ImAlways, PTL DEF Spec
=============================================================================
