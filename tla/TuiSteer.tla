------------------------------ MODULE TuiSteer ------------------------------
(***************************************************************************)
(* frontends/tui_v3.py: words the user enters while a run is on.  The UI   *)
(* thread appends them to the file _intervene and then notes them in       *)
(* _intervene_pending; at the end of a turn the worker consumes the file   *)
(* (ga.py, turn_end_callback and consume_file) and then runs the bridge's  *)
(* hook, which forgets the notes, or puts them as a new task when the run  *)
(* exits and its next prompt is thrown away.  Neither sees the other's     *)
(* half-done work.                                                         *)
(***************************************************************************)
EXTENDS AgentQueue

CONSTANTS MaxWords,     \* bound: what the user enters, but for answers
          MaxEnds      \* bound: turn boundaries

VARIABLES
    file,        \* the words in _intervene
    notes,       \* _intervene_pending
    boundary,    \* the worker inside a run: "none", "read", "hook", "sending", "exited"
    kind,        \* what the turn's end is (see Boundary)
    held,        \* what consume_file read
    prompt,      \* words of the next prompt, not with the model yet
    replay,      \* the task whose queue is _replay_dq, 0 if none
    asks,        \* ask_user_queue: how many wait
    uiRunning,   \* ScrollbackApp._running
    asking,      \* _asking is not None
    input,       \* the UI thread: "idle", or the step it is about to take
    word,        \* the words entered last
    clean,       \* history: no turn ended since they were written
    drain,       \* a task's drain thread: "none", "on" or "after"
    says,        \* the words a task was put with
    ended,       \* turn boundaries so far
    questioned,  \* history: a question ended a drain, and nothing was submitted since
    queued,      \* history: words the user was told are queued
    steady,      \* history: those noted before any turn ended
    settled      \* history: words the model was sent, the user cleared, or a run
                 \* that was cut short took with it
uvars == <<file, notes, boundary, kind, held, prompt, replay, asks, uiRunning, asking, input,
           word, clean, drain, says, ended, questioned, queued, steady, settled>>

TuiInit ==
    /\ file = {} /\ notes = {}
    /\ boundary = "none" /\ kind = "next"
    /\ held = {} /\ prompt = {}
    /\ replay = 0 /\ asks = 0
    /\ uiRunning = FALSE /\ asking = FALSE
    /\ input = "idle" /\ word = 0 /\ clean = FALSE
    /\ drain = [t \in Task |-> "none"]
    /\ says = [t \in Task |-> {}]
    /\ ended = 0 /\ questioned = FALSE
    /\ queued = {} /\ steady = {} /\ settled = {}

\* put_task of some words.
PutWords(ws) ==
    /\ PutTask
    /\ says' = [says EXCEPT ![made'] = ws]
-----------------------------------------------------------------------------
(* The UI thread *)

UiFree == input = "idle" /\ "ui" \notin aborting

\* _on_enter: the user enters the next words.  While a run is on they are
\* queued, if the agent still runs; else they are a task of their own.
Steer ==
    /\ UiFree /\ word < MaxWords
    /\ ~asking /\ uiRunning /\ isRunning
    /\ word' = word + 1
    /\ input' = "write"
    /\ UNCHANGED <<file, notes, boundary, kind, held, prompt, replay, asks, uiRunning, asking,
                   clean, drain, says, ended, questioned, queued, steady, settled>>
    /\ UNCHANGED avars

\* _submit: a task, and a thread that drains its queue.
Submits(ws) ==
    /\ PutWords(ws)
    /\ uiRunning' = TRUE
    /\ drain' = [drain EXCEPT ![made'] = "on"]
    /\ questioned' = FALSE
    /\ UNCHANGED <<file, notes, boundary, kind, held, prompt, replay, input, clean, ended, queued,
                   steady, settled>>
SubmitWords ==
    /\ UiFree /\ word < MaxWords
    /\ ~asking /\ ~(uiRunning /\ isRunning)
    /\ word' = word + 1
    /\ Submits({word'})
    /\ UNCHANGED <<asks, asking>>

\* _on_enter with a question on the screen: the answer is a task of its own even
\* during a run, and the next question takes its place.  (The bound on tasks
\* leaves one for each of the words.)
AnswerAsk ==
    /\ UiFree /\ asking
    /\ MaxTasks - made > MaxWords - Cardinality(UNION {says[t] : t \in Task})
    /\ Submits({})
    /\ asking' = (asks > 0)
    /\ asks' = IF asks > 0 THEN asks - 1 ELSE asks
    /\ UNCHANGED word

\* inject_intervene: append to the file, then note the words.
WriteFile ==
    /\ input = "write"
    /\ file' = file \union {word}
    /\ clean' = (boundary \notin {"read", "hook"})
    /\ input' = "note"
    /\ UNCHANGED <<notes, boundary, kind, held, prompt, replay, asks, uiRunning, asking, word,
                   drain, says, ended, questioned, queued, steady, settled>>
    /\ UNCHANGED avars
Note ==
    /\ input = "note"
    /\ notes' = notes \union {word}
    /\ queued' = queued \union {word}
    /\ steady' = IF clean THEN steady \union {word} ELSE steady
    /\ clean' = FALSE
    /\ input' = "idle"
    /\ UNCHANGED <<file, boundary, kind, held, prompt, replay, asks, uiRunning, asking, word,
                   drain, says, ended, questioned, settled>>
    /\ UNCHANGED avars

\* Esc and /stop.
AbortRun ==
    /\ UiFree /\ ~asking /\ uiRunning
    /\ AbortAgent("ui")
    /\ UNCHANGED uvars
StopRun == SetStop("ui") /\ UNCHANGED uvars

\* Ctrl+C, and Esc on a question: when the abort has returned, the display is
\* told that nothing runs; Esc drops the questions too.
Interrupt(keys) ==
    /\ UiFree
    /\ IF keys = "rest" THEN uiRunning ELSE asking
    /\ IF uiRunning THEN AbortAgent("ui") ELSE UNCHANGED avars
    /\ input' = keys
    /\ UNCHANGED <<file, notes, boundary, kind, held, prompt, replay, asks, uiRunning, asking,
                   word, clean, drain, says, ended, questioned, queued, steady, settled>>
RestDisplay ==
    /\ input \in {"rest", "cancel"} /\ "ui" \notin aborting
    /\ input' = "idle"
    /\ uiRunning' = FALSE
    /\ asking' = (asking /\ input = "rest")
    /\ asks' = IF input = "rest" THEN asks ELSE 0
    /\ UNCHANGED <<file, notes, boundary, kind, held, prompt, replay, word, clean, drain, says,
                   ended, questioned, queued, steady, settled>>
    /\ UNCHANGED avars

\* Esc on queued words (_pending, which may still show what is noted no more):
\* the file is removed, then the notes are dropped.
ClearFile ==
    /\ UiFree /\ ~asking /\ queued # {}
    /\ file' = {}
    /\ settled' = settled \union file \union notes
    /\ input' = "clear"
    /\ UNCHANGED <<notes, boundary, kind, held, prompt, replay, asks, uiRunning, asking, word,
                   clean, drain, says, ended, questioned, queued, steady>>
    /\ UNCHANGED avars
ClearNotes ==
    /\ input = "clear"
    /\ notes' = {}
    /\ input' = "idle"
    /\ UNCHANGED <<file, boundary, kind, held, prompt, replay, asks, uiRunning, asking, word,
                   clean, drain, says, ended, questioned, queued, steady, settled>>
    /\ UNCHANGED avars

UiGoesOn == WriteFile \/ Note \/ StopRun \/ RestDisplay \/ ClearNotes
UiThread ==
    \/ Steer \/ SubmitWords \/ AnswerAsk \/ AbortRun \/ ClearFile \/ UiGoesOn
    \/ \E keys \in {"rest", "cancel"} : Interrupt(keys)
-----------------------------------------------------------------------------
(* The worker thread inside a run *)

Kinds == {"next",     \* another turn follows
          "exit",     \* the run ends
          "ask",      \* ... because it asks the user
          "both",     \* the task is done but a done hook goes on
          "limit"}    \* another turn would follow, but there is none left

\* The first request of a run carries the words it was put with.
RunTask ==
    /\ StartTask
    /\ boundary' = "sending"
    /\ prompt' = says[task]
    /\ UNCHANGED <<file, notes, kind, held, replay, asks, uiRunning, asking, input, word, clean,
                   drain, says, ended, questioned, queued, steady, settled>>

\* The next prompt is with the model.
SendPrompt ==
    /\ boundary = "sending"
    /\ settled' = settled \union prompt
    /\ prompt' = {}
    /\ boundary' = "none"
    /\ UNCHANGED <<file, notes, kind, held, replay, asks, uiRunning, asking, input, word, clean,
                   drain, says, ended, questioned, queued, steady>>
    /\ UNCHANGED avars

\* A turn ends: consume_file reads the file and removes it, two steps.
Boundary ==
    /\ worker = "running" /\ boundary = "none" /\ ended < MaxEnds
    /\ ended' = ended + 1
    /\ kind' \in Kinds
    /\ held' = file
    /\ boundary' = IF file = {} THEN "hook" ELSE "read"
    /\ clean' = FALSE
    /\ UNCHANGED <<file, notes, prompt, replay, asks, uiRunning, asking, input, word, drain,
                   says, questioned, queued, steady, settled>>
    /\ UNCHANGED avars
RemoveFile ==
    /\ boundary = "read" /\ file # {}
    /\ file' = {}
    /\ boundary' = "hook"
    /\ UNCHANGED <<notes, kind, held, prompt, replay, asks, uiRunning, asking, input, word, clean,
                   drain, says, ended, questioned, queued, steady, settled>>
    /\ UNCHANGED avars

\* The user's Esc removed it first: the exception ends the run.
RemoveFails ==
    /\ boundary = "read" /\ file = {}
    /\ boundary' = "exited"
    /\ settled' = settled \union held
    /\ held' = {}
    /\ kind' = "next"
    /\ UNCHANGED <<file, notes, prompt, replay, asks, uiRunning, asking, input, word, clean,
                   drain, says, ended, questioned, queued, steady>>
    /\ UNCHANGED avars

\* _on_turn_end puts the question first; nothing else follows but the exit.
PutAsk ==
    /\ boundary = "hook" /\ kind = "ask"
    /\ asks' = asks + 1
    /\ kind' = "exit"
    /\ UNCHANGED <<file, notes, boundary, held, prompt, replay, uiRunning, asking, input, word,
                   clean, drain, says, ended, questioned, queued, steady, settled>>
    /\ UNCHANGED avars

\* MUTANT: every exit forgets the notes
NoReplay == FALSE
Replays == notes # {} /\ kind \in {"exit", "both"}
\* Then the notes; what was read goes into the next prompt, if there is one.
Hook ==
    /\ boundary = "hook" /\ kind # "ask"
    /\ IF Replays
       THEN PutWords(notes) /\ replay' = made'
       ELSE UNCHANGED <<replay, says>> /\ UNCHANGED avars
    /\ notes' = {}
    /\ IF kind \in {"next", "both"} THEN boundary' = "sending" /\ prompt' = held
                                    ELSE boundary' = "exited" /\ prompt' = {}
    /\ settled' = IF kind = "limit" THEN settled \union held ELSE settled
    /\ held' = {}
    /\ kind' = "next"
    /\ UNCHANGED <<file, asks, uiRunning, asking, input, word, clean, drain, ended,
                   questioned, queued, steady>>

\* The run ends, after an exit or, by an abort or an exception, anywhere.
EndRun ==
    /\ GiveDone
    /\ boundary \in {"none", "sending", "exited"}
    /\ settled' = settled \union prompt
    /\ prompt' = {}
    /\ boundary' = "none"
    /\ UNCHANGED <<file, notes, kind, held, replay, asks, uiRunning, asking, input, word, clean,
                   drain, says, ended, questioned, queued, steady>>

\* A slash command, or the end of the thread: the words go nowhere.
DropTask ==
    /\ AnswerSlash \/ WorkerDies
    /\ settled' = settled \union says[task]
    /\ UNCHANGED <<file, notes, boundary, kind, held, prompt, replay, asks, uiRunning, asking,
                   input, word, clean, drain, says, ended, questioned, queued, steady>>

TuiWorker ==
    \/ RunTask \/ SendPrompt \/ Boundary \/ RemoveFile \/ RemoveFails
    \/ PutAsk \/ Hook \/ EndRun \/ DropTask
    \/ (TakeTask \/ RestWorker \/ (GiveNext /\ boundary = "none")) /\ UNCHANGED uvars
-----------------------------------------------------------------------------
(* The drain threads *)

\* A waiting question is shown, and nothing else is while it is.
ShowAsk == asking' = (asking \/ asks > 0) /\ asks' = IF asking THEN asks ELSE asks - 1

\* MUTANT: the end of a drain leaves the display working
RunningKept == uiRunning
RunningAtEnd == FALSE
DrainItem(t) ==
    /\ drain[t] = "on"
    /\ TakeItem(t)
    /\ IF Item(t) = "done"
       THEN /\ drain' = [drain EXCEPT ![t] = "after"]
            /\ uiRunning' = RunningAtEnd
            /\ IF asks > 0 THEN ShowAsk ELSE UNCHANGED <<asks, asking>>
       ELSE UNCHANGED <<drain, uiRunning, asks, asking>>
    /\ UNCHANGED <<file, notes, boundary, kind, held, prompt, replay, input, word, clean, says,
                   ended, questioned, queued, steady, settled>>

\* A quarter of a second without an item: a waiting question ends the drain,
\* and with it any look at the replay.
DrainAsks(t) ==
    /\ drain[t] = "on" /\ ~Has(t)
    /\ asks > 0 /\ ~asking
    /\ ShowAsk
    /\ drain' = [drain EXCEPT ![t] = "none"]
    /\ uiRunning' = RunningAtEnd
    /\ questioned' = TRUE
    /\ UNCHANGED <<file, notes, boundary, kind, held, prompt, replay, input, word, clean, says,
                   ended, queued, steady, settled>>
    /\ UNCHANGED avars

Takes == replay # 0
AfterDrain(t) ==
    /\ drain[t] = "after"
    /\ IF Takes
       THEN /\ drain' = [drain EXCEPT ![t] = "none", ![replay] = "on"]
            /\ replay' = 0
            /\ uiRunning' = TRUE
       ELSE /\ drain' = [drain EXCEPT ![t] = "none"]
            /\ UNCHANGED <<replay, uiRunning>>
    /\ UNCHANGED <<file, notes, boundary, kind, held, prompt, asks, asking, input, word, clean,
                   says, ended, questioned, queued, steady, settled>>
    /\ UNCHANGED avars

Drains == \E t \in Task : DrainItem(t) \/ DrainAsks(t) \/ AfterDrain(t)
TuiNext == UiThread \/ TuiWorker \/ Drains
-----------------------------------------------------------------------------
\* Where words may be on their way to the model.
UnderWay ==
    file \union held \union prompt \union notes
    \union (UNION {says[t] : t \in {tasks[i] : i \in DOMAIN tasks}})
    \union (IF worker = "taken" THEN says[task] ELSE {})

\* "replay via put_task so the user's words aren't lost": words shown as queued
\* reach the model or are on their way, but for those the user cleared and
\* those lost with a run that an abort, an exception or the turn limit cut short.
Kept(ws) == ws \subseteq settled \union UnderWay
WordsAreNotLost == Kept(queued)

\* It holds of words that were written and noted before the turn ended.
SteadyWordsAreKept == Kept(steady)


\* The display comes to rest after every run.
DisplaySettles == uiRunning ~> ~uiRunning \/ worker = "dead"
=============================================================================
