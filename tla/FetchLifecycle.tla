--------------------------- MODULE FetchLifecycle ---------------------------
(***************************************************************************)
(* The life of the background fetch thread of osu-tracker: who starts it,  *)
(* who stops it, and what happens when two of them do so at once.          *)
(*                                                                         *)
(* Core/Session.h keeps two globals, the flag `fetch` and the handle       *)
(* `fetchThread`.  They are written, without a lock, by                    *)
(*   - the main thread, once per boot of the web server (main.cpp);        *)
(*   - a detached thread per #resetSession or #saveSettings message of the *)
(*     web page (MainWsRoute.h), the Resetters;                            *)
(*   - a detached thread per accepted switch of a combo box of the window  *)
(*     (restartFetch of Session.h), the Switchers.                         *)
(* Each of them runs stop, join, (clear,) arm, spawn, as separate steps.   *)
(*                                                                         *)
(* Joining a handle that is not joinable, or that another thread is        *)
(* already joining, throws std::system_error out of a thread function;     *)
(* assigning to a joinable handle, or destroying one at exit, calls        *)
(* std::terminate: status "terminated" stands for all four.                *)
(***************************************************************************)
EXTENDS FiniteSets

CONSTANTS
    Resetters,          \* slots for the detached threads of the web page
    Switchers,          \* slots for the detached threads of restartFetch
    Main,               \* the main thread
    Selections,         \* what a session is about: server, mode and user
    Titanic,            \* those on the server whose poll can recover
    DefaultSelection,   \* the selection of a fresh AppConfig
    NoSelection,        \* the running session has not polled yet
    Failed              \* its first poll left no baseline, or a part of one

ASSUME ThreadsAssumption ==
    /\ Resetters \cap Switchers = {}
    /\ Main \notin Resetters \cup Switchers

ASSUME SelectionsAssumption ==
    /\ DefaultSelection \in Selections
    /\ Titanic \subseteq Selections
    /\ NoSelection \notin Selections
    /\ Failed \notin Selections
    /\ NoSelection # Failed

Ops == Resetters \cup Switchers \cup {Main}

VARIABLES
    fetch,       \* the flag the loop polls
    loop,        \* where the fetch thread is; "none": the handle is not joinable
    loopInit,    \* the loop's `init`: the next fetch sets the baseline
    phase,       \* phase[p]: where thread p is
    restarting,  \* the static guard of restartFetch
    webUp,       \* the web server accepts messages
    goingDown,   \* shutdown_webServer
    worker,      \* where the web server's worker is in a message
    saveTo,      \* the selection a #saveSettings in hand asks for
    saveReset,   \* its resetSession: a reset is to follow
    ui,          \* the window and its thread
    selected,    \* what Config::application selects
    session,     \* the selection the session's baseline was fetched for
    initFailed,  \* Status::init_api_failed
    status,      \* the process: "up", "exited" or "terminated"
    missed,      \* history: `selected` changed in this session with no reset
    overlapped   \* history: two threads operated on the fetch thread at once

poll       == <<session, initFailed>>
threadVars == <<fetch, loop, loopInit, poll>>
webVars    == <<webUp, goingDown>>
save       == <<worker, saveTo, saveReset>>
history    == <<missed, overlapped>>
vars == <<threadVars, phase, restarting, webVars, save, ui, selected, status,
          history>>

LoopStates   == {"none", "check", "fetch", "publish", "sleep", "done"}
StopPhases   == {"stop", "join", "call", "wait"}
StartPhases  == {"clear", "read", "arm", "spawn", "exit"}
\* Phases in which a thread still writes `fetch` or `fetchThread`.
InFlight     == StopPhases \cup StartPhases
ServePhases  == {"startUi", "serve", "stopUi", "joinUi"}
Phases       == InFlight \cup ServePhases \cup {"idle", "release"}
\* A window that is deaf was asked to close before it was there.
UiStates     == {"closed", "starting", "open", "deaf", "closing"}

Quiet == \A p \in Ops : phase[p] \notin InFlight

TypeOK ==
    /\ fetch \in BOOLEAN
    /\ loop \in LoopStates
    /\ loopInit \in BOOLEAN
    /\ phase \in [Ops -> Phases]
    /\ restarting \in BOOLEAN
    /\ webUp \in BOOLEAN
    /\ goingDown \in BOOLEAN
    /\ worker \in {"idle", "compared", "applied", "openUi"}
    /\ saveTo \in Selections
    /\ saveReset \in BOOLEAN
    /\ ui \in UiStates
    /\ selected \in Selections
    /\ session \in Selections \cup {NoSelection, Failed}
    /\ initFailed \in BOOLEAN
    /\ status \in {"up", "exited", "terminated"}
    /\ missed \in BOOLEAN
    /\ overlapped \in BOOLEAN

\* main.cpp before its first startFetchThread: the update check found nothing.
Init ==
    /\ fetch = FALSE
    /\ loop = "none"
    /\ loopInit = FALSE
    /\ phase = [p \in Ops |-> IF p = Main THEN "read" ELSE "idle"]
    /\ restarting = FALSE
    /\ webUp = FALSE
    /\ goingDown = FALSE
    /\ worker = "idle"
    /\ saveTo = DefaultSelection
    /\ saveReset = FALSE
    /\ ui = "closed"
    /\ selected = DefaultSelection
    /\ session = NoSelection
    /\ initFailed = FALSE
    /\ status = "up"
    /\ missed = FALSE
    /\ overlapped = FALSE

-----------------------------------------------------------------------------
(* The fetch thread: fetchApiData.                                         *)

\* The test of `while (fetch)`.
LoopCheck ==
    /\ loop = "check"
    /\ loop' = IF fetch THEN "fetch" ELSE "done"
    /\ UNCHANGED <<fetch, loopInit, poll>>

\* A poll of Bancho whose login fails raises init_api_failed, first or not;
\* nobody without a login sets a baseline.
BanchoLoginFails ==
    /\ initFailed' = TRUE
    /\ session' = IF loopInit THEN Failed ELSE session

\* A login lowers the flag unless the poll is a session's first.  Only a first
\* poll sets the baseline: when a request of it fails, the session has none or
\* a part of one, for good.
BanchoAnswers ==
    /\ initFailed' = (initFailed /\ loopInit)
    /\ session' \in IF loopInit THEN {selected, Failed} ELSE {session}

\* titanic(init) does not answer 200: a first poll leaves the flag.
TitanicFails ==
    /\ initFailed' = (initFailed \/ loopInit)
    /\ session' = IF loopInit THEN Failed ELSE session

\* It answers, and no recovery is due.
TitanicAnswers ==
    /\ loopInit \/ ~initFailed
    /\ session' = IF loopInit THEN selected ELSE session
    /\ UNCHANGED initFailed

\* It answers in a later poll with the flag up: titanic(true) sets the baseline
\* anew.  Its result is not looked at; when it fails the baseline is as it was,
\* or in part.
TitanicRecovers ==
    /\ ~loopInit /\ initFailed
    /\ initFailed' = FALSE
    /\ session' \in {session, selected, Failed}

\* Mutant: what is polled for is mixed up with how.
MutLoopFetch ==
    /\ loop = "fetch"
    /\ loop' = "publish"
    /\ loopInit' = FALSE
    /\ session' = IF loopInit THEN loopInit ELSE session
    /\ UNCHANGED <<fetch, initFailed>>

\* fetch_api_data(init); init = false.  The baseline of a first poll is for
\* what is selected at that moment.
LoopFetch ==
    /\ loop = "fetch"
    /\ loop' = "publish"
    /\ loopInit' = FALSE
    /\ IF selected \in Titanic
       THEN TitanicFails \/ TitanicAnswers \/ TitanicRecovers
       ELSE BanchoLoginFails \/ BanchoAnswers
    /\ UNCHANGED fetch

\* updateFormat and writeStats, under the lock of the data.
LoopPublish ==
    /\ loop = "publish"
    /\ loop' = "sleep"
    /\ UNCHANGED <<fetch, loopInit, poll>>

\* The end of sleep_for(apiInterval).
LoopWake ==
    /\ loop = "sleep"
    /\ loop' = "check"
    /\ UNCHANGED <<fetch, loopInit, poll>>

Loop ==
    /\ status = "up"
    /\ LoopCheck \/ LoopFetch \/ LoopPublish \/ LoopWake
    /\ UNCHANGED <<phase, restarting, webVars, save, ui, selected, status,
                   history>>

-----------------------------------------------------------------------------
(* The steps of a thread that stops or starts the fetch thread.            *)

Goto(p, ph) == phase' = [phase EXCEPT ![p] = ph]

\* Thread p begins an operation on the fetch thread at phase ph.
Begin(p, ph) ==
    /\ Goto(p, ph)
    /\ overlapped' = (overlapped \/ ~Quiet)

\* Mutant: main leaves its loop after a restart of the web server, too.
MutAfterJoin(p) ==
    CASE p \in Switchers -> "clear"
      [] p = Main        -> "exit"
      [] OTHER           -> "arm"

\* What follows join(): restartFetch clears the data first, main leaves its
\* loop when the web server was shut down rather than restarted.
AfterJoin(p) ==
    CASE p \in Switchers          -> "clear"
      [] p = Main /\ goingDown    -> "exit"
      [] p = Main /\ ~goingDown   -> "read"
      [] OTHER                    -> "arm"

AfterSpawn(p) ==
    CASE p \in Switchers -> "release"
      [] p = Main        -> "startUi"
      [] OTHER           -> "idle"

\* Mutant: the flag is not lowered.
MutStop(p) ==
    /\ phase[p] = "stop"
    /\ Goto(p, "join")
    /\ UNCHANGED <<threadVars, status>>

\* fetch = false
Stop(p) ==
    /\ phase[p] = "stop"
    /\ fetch' = FALSE
    /\ Goto(p, "join")
    /\ UNCHANGED <<loop, loopInit, poll, status>>

\* Mutant: the fetch thread is not joined.
MutJoinCheck(p) ==
    /\ phase[p] = "join"
    /\ Goto(p, AfterJoin(p))
    /\ UNCHANGED <<threadVars, status>>

\* if (fetchThread.joinable())
JoinCheck(p) ==
    /\ phase[p] = "join"
    /\ Goto(p, IF loop = "none" THEN AfterJoin(p) ELSE "call")
    /\ UNCHANGED <<threadVars, status>>

\* fetchThread.join() is entered: it throws when the handle is no longer
\* joinable and when another thread already waits for the same thread.
JoinCall(p) ==
    /\ phase[p] = "call"
    /\ IF loop = "none" \/ \E q \in Ops : phase[q] = "wait"
       THEN status' = "terminated" /\ UNCHANGED phase
       ELSE Goto(p, "wait") /\ UNCHANGED status
    /\ UNCHANGED threadVars

\* fetchThread.join() returns once the loop has ended.
JoinReturn(p) ==
    /\ phase[p] = "wait"
    /\ loop = "done"
    /\ loop' = "none"
    /\ Goto(p, AfterJoin(p))
    /\ UNCHANGED <<fetch, loopInit, poll, status>>

\* restartFetch empties the stats, the avatar and the poll counter.
Clear(p) ==
    /\ phase[p] = "clear"
    /\ session' = NoSelection
    /\ Goto(p, "arm")
    /\ UNCHANGED <<fetch, loop, loopInit, initFailed, status>>

\* Mutant: the flag is not raised again.
MutArm(p) ==
    /\ phase[p] = "arm"
    /\ Goto(p, "spawn")
    /\ UNCHANGED <<threadVars, status>>

\* fetch = true
Arm(p) ==
    /\ phase[p] = "arm"
    /\ fetch' = TRUE
    /\ Goto(p, "spawn")
    /\ UNCHANGED <<loop, loopInit, poll, status>>

\* fetchThread = std::thread(fetchApiData, true).  A session begins: what is
\* selected from here on it may read too late.
Spawn(p) ==
    /\ phase[p] = "spawn"
    /\ IF loop = "none"
       THEN /\ loop' = "check"
            /\ loopInit' = TRUE
            /\ session' = NoSelection
            /\ missed' = FALSE
            /\ Goto(p, AfterSpawn(p))
            /\ UNCHANGED status
       ELSE /\ status' = "terminated"
            /\ UNCHANGED <<loop, loopInit, session, missed, phase>>
    /\ UNCHANGED <<fetch, initFailed>>

\* restarting = false
Release(p) ==
    /\ phase[p] = "release"
    /\ restarting' = FALSE
    /\ Goto(p, "idle")
    /\ UNCHANGED <<threadVars, status>>

\* return from main: the handle is destroyed with the other globals.
Exit ==
    /\ phase[Main] = "exit"
    /\ status' = IF loop = "none" THEN "exited" ELSE "terminated"
    /\ UNCHANGED <<threadVars, phase>>

OpStep(p) ==
    /\ status = "up"
    /\ \/ /\ \/ Stop(p) \/ JoinCheck(p) \/ JoinCall(p) \/ JoinReturn(p)
             \/ Clear(p) \/ Arm(p) \/ (p = Main /\ Exit)
          /\ UNCHANGED <<restarting, missed>>
       \/ Spawn(p) /\ UNCHANGED restarting
       \/ Release(p) /\ UNCHANGED missed
    /\ UNCHANGED <<webVars, save, ui, selected, overlapped>>

-----------------------------------------------------------------------------
(* The rest of the main thread, and the window's thread as others see it.   *)

\* CloseWindow: a window hears it; before there is one it is lost, and the
\* window that comes will not hear of it.
RequestClose ==
    ui' = CASE ui = "open"     -> "closing"
            [] ui = "starting" -> "deaf"
            [] OTHER           -> ui

\* Config::read (and write, when there is no file) at the top of main's loop:
\* what the file says is in force.
Read ==
    /\ phase[Main] = "read"
    /\ selected' \in Selections
    /\ Goto(Main, "arm")
    /\ UNCHANGED <<webVars, ui, overlapped>>

\* startUiThread(), then WebHandler::start enters crow's run().
StartUi ==
    /\ phase[Main] = "startUi"
    /\ ui' = "starting"
    /\ webUp' = TRUE
    /\ Goto(Main, "serve")
    /\ UNCHANGED <<goingDown, selected, overlapped>>

\* run() returns: the server was stopped and its handler has ended.
ServeReturn ==
    /\ phase[Main] = "serve"
    /\ ~webUp
    /\ worker = "idle"
    /\ Goto(Main, "stopUi")
    /\ UNCHANGED <<webVars, ui, selected, overlapped>>

\* stopUiThread() asks the window to close ...
StopUi ==
    /\ phase[Main] = "stopUi"
    /\ RequestClose
    /\ Goto(Main, "joinUi")
    /\ UNCHANGED <<webVars, selected, overlapped>>

\* ... and waits for its thread; then stopFetchThread() is called.
JoinUi ==
    /\ phase[Main] = "joinUi"
    /\ ui = "closed"
    /\ Begin(Main, "stop")
    /\ UNCHANGED <<webVars, ui, selected>>

MainStep ==
    /\ status = "up"
    /\ Read \/ StartUi \/ ServeReturn \/ StopUi \/ JoinUi
    /\ UNCHANGED <<threadVars, restarting, save, status, missed>>

-----------------------------------------------------------------------------
(* The web page: one crow worker handles a message at a time.              *)

\* #resetSession: a detached thread runs stopFetchThread, startFetchThread.
ResetSession(r) ==
    /\ phase[r] = "idle"
    /\ Begin(r, "stop")
    /\ UNCHANGED <<webVars, save, ui, selected, missed>>

\* #saveSettings is compared with the settings in force: a difference in
\* server, mode, user or keys asks for a reset.
SaveCompare(sel) ==
    /\ worker' = "compared"
    /\ saveTo' = sel
    /\ saveReset' = (sel # selected)
    /\ UNCHANGED <<phase, webVars, ui, selected, history>>

\* #restart, #shutdown, and #update when a newer release exists.
Shutdown(restart) ==
    /\ goingDown' = ~restart
    /\ webUp' = FALSE
    /\ UNCHANGED <<phase, save, ui, selected, history>>

\* #resetSettings: a fresh AppConfig, config.json removed, shutdown(true).
ResetSettings ==
    /\ selected' = DefaultSelection
    /\ goingDown' = FALSE
    /\ webUp' = FALSE
    /\ UNCHANGED <<phase, save, ui, history>>

\* #open_ui: startUiThread closes the window there may be ...
OpenUi ==
    /\ RequestClose
    /\ worker' = "openUi"
    /\ UNCHANGED <<phase, webVars, saveTo, saveReset, selected, history>>

Message ==
    /\ status = "up"
    /\ webUp
    /\ worker = "idle"
    /\ \/ \E r \in Resetters : ResetSession(r)
       \/ \E sel \in Selections : SaveCompare(sel)
       \/ \E restart \in BOOLEAN : Shutdown(restart)
       \/ ResetSettings
       \/ OpenUi
    /\ UNCHANGED <<threadVars, restarting, status>>

\* The worker is through with its message.
Handled == worker' = "idle" /\ saveTo' = DefaultSelection /\ saveReset' = FALSE

\* application.set for every field of the save.  A switch that came after the
\* comparison is overwritten without a reset.
SaveSet ==
    /\ worker = "compared"
    /\ worker' = "applied"
    /\ selected' = saveTo
    /\ missed' = (missed \/ (~saveReset /\ saveTo # selected))
    /\ UNCHANGED <<phase, saveTo, saveReset, ui, overlapped>>

\* std::stoi throws at one field: some are set, the handler is left, and no
\* reset comes.
SaveThrows ==
    /\ worker = "compared"
    /\ selected' \in Selections
    /\ missed' = (missed \/ selected' # selected)
    /\ Handled
    /\ UNCHANGED <<phase, ui, overlapped>>

\* Mutant: the settings are saved and the reset is forgotten.
MutSaveEnd ==
    /\ worker = "applied"
    /\ Handled
    /\ UNCHANGED <<phase, ui, selected, history>>

\* With resetSession set a detached thread stops and starts the fetch thread.
SaveEnd ==
    /\ worker = "applied"
    /\ Handled
    /\ IF saveReset
       THEN \E r \in Resetters : phase[r] = "idle" /\ Begin(r, "stop")
       ELSE UNCHANGED <<phase, overlapped>>
    /\ UNCHANGED <<ui, selected, missed>>

\* ... joins its thread and starts another one.
OpenUiEnd ==
    /\ worker = "openUi"
    /\ ui = "closed"
    /\ ui' = "starting"
    /\ Handled
    /\ UNCHANGED <<phase, selected, history>>

Worker ==
    /\ status = "up"
    /\ SaveSet \/ SaveThrows \/ SaveEnd \/ OpenUiEnd
    /\ UNCHANGED <<threadVars, restarting, webVars, status>>

-----------------------------------------------------------------------------
(* The window.                                                             *)

\* Mutant: restarting is set but not looked at.
MutRestartFetch(s) ==
    /\ phase[s] = "idle"
    /\ restarting' = TRUE
    /\ Begin(s, "stop")
    /\ UNCHANGED missed

\* restartFetch() by the window's thread: nothing at all when a restart is
\* under way, else a detached thread.
RestartFetch(s) ==
    IF restarting
    THEN /\ missed' = TRUE
         /\ UNCHANGED <<phase, restarting, overlapped>>
    ELSE /\ phase[s] = "idle"
         /\ restarting' = TRUE
         /\ Begin(s, "stop")
         /\ UNCHANGED missed

\* The server or the mode combo box took another value.
Switch(s, sel) ==
    /\ ui \in {"open", "deaf"}
    /\ sel # selected
    /\ selected' = sel
    /\ RestartFetch(s)
    /\ UNCHANGED ui

\* The user closes the window.
CloseUi ==
    /\ ui \in {"open", "deaf"}
    /\ ui' = "closing"
    /\ UNCHANGED <<phase, restarting, selected, history>>

\* The deaf window's creation fails: there is nothing to close.
UiFails ==
    /\ ui = "deaf"
    /\ ui' = "closed"
    /\ UNCHANGED <<phase, restarting, selected, history>>

Window ==
    /\ status = "up"
    /\ \/ \E s \in Switchers, sel \in Selections : Switch(s, sel)
       \/ CloseUi \/ UiFails
    /\ UNCHANGED <<threadVars, webVars, save, status>>

\* The window is created, or fails to be; its thread ends once it is closed.
WindowThread ==
    /\ status = "up"
    /\ \/ ui = "starting" /\ ui' \in {"open", "closed"}
       \/ ui = "closing"  /\ ui' = "closed"
    /\ UNCHANGED <<threadVars, phase, restarting, webVars, save, selected, status,
                   history>>

-----------------------------------------------------------------------------
\* The process is gone.
Gone == status # "up" /\ UNCHANGED vars

Next ==
    \/ Loop
    \/ \E p \in Ops : OpStep(p)
    \/ MainStep
    \/ Message
    \/ Worker
    \/ Window
    \/ WindowThread
    \/ Gone

\* Every thread of the process is scheduled; nobody has to use the program,
\* or to close a window that no request reaches.
Fairness ==
    /\ WF_vars(Loop)
    /\ \A p \in Ops : WF_vars(OpStep(p))
    /\ WF_vars(MainStep)
    /\ WF_vars(Worker)
    /\ WF_vars(WindowThread)

Spec == Init /\ [][Next]_vars /\ Fairness

-----------------------------------------------------------------------------
(* Safety.                                                                 *)

\* The process dies on the fetch thread's handle only when two threads
\* operated on it at once: used one at a time, the stop-join-start sequences
\* of main.cpp, MainWsRoute.h and Session.h never join or overwrite a handle
\* in the wrong state, whatever the loop is doing.
CrashNeedsOverlap == status = "terminated" => overlapped

\* The `restarting` flag makes restartFetch exclusive among switches of the
\* window: however fast the combo boxes change, two of its detached threads
\* never stop or start the fetch thread together.
SwitchesExclusive ==
    \A s, t \in Switchers :
        phase[s] # "idle" /\ phase[t] # "idle" => s = t

\* The tracker never goes silently dead: while it serves and no operation is
\* under way, the fetch thread runs and will not end by itself.
QuiescentPolling ==
    ~overlapped /\ Quiet /\ phase[Main] \in ServePhases
        => fetch /\ loop \notin {"none", "done"}

-----------------------------------------------------------------------------
(* Liveness.                                                               *)

\* A reset or switch that does not meet another one comes to its end: the
\* loop notices `fetch` and join() returns, whatever the loop was doing.
ResetCompletes ==
    \A p \in Resetters \cup Switchers :
        phase[p] # "idle" ~> (phase[p] = "idle" \/ overlapped \/ status # "up")

\* main waits for a window that no request reaches until its user closes it.
WaitsForUser == phase[Main] = "joinUi" /\ ui = "deaf"

\* After #shutdown the process leaves main; after #restart it serves again.
\* Only the user can hold it up, by a window that was asked too early.
StopCompletes ==
    phase[Main] \in {"stopUi", "joinUi"} ~>
        \/ overlapped
        \/ WaitsForUser
        \/ IF goingDown THEN status = "exited" ELSE phase[Main] = "serve"

\* The session is about sel, as far as its first poll was answered, or it no
\* longer has to be: the user went on to something else, operations
\* overlapped, the process is gone or waits for the user.
Settled(sel) ==
    \/ session \in {sel, Failed}
    \/ selected # sel
    \/ ~Quiet \/ overlapped \/ status # "up" \/ WaitsForUser

\* Left alone, the tracker ends up in a session whose first poll was for what
\* is selected, unless that came to be selected after the session began and
\* with no reset: by a switch that restartFetch ignored, by a save that threw
\* midway, or by one that overwrote a switch.
SelectionTakesEffect ==
    \A sel \in Selections :
        (Quiet /\ selected = sel) ~> (Settled(sel) \/ missed)

-----------------------------------------------------------------------------
(* The abstract service.                                                   *)

\* The states of FetchService: what a loop and its handle amount to.
Service ==
    IF overlapped THEN "void"
    ELSE IF status = "exited" THEN "ended"
    ELSE IF loop \in {"none", "done"} THEN "stopped"
    ELSE IF loopInit THEN "first"
    ELSE "polling"

Abstract == INSTANCE FetchService WITH
    service <- Service,
    session <- IF overlapped THEN NoSelection ELSE session,
    failed <- ~overlapped /\ initFailed

\* Every behaviour is one of FetchService, until operations meet: one loop at
\* a time however often it is restarted, and a baseline that the first poll of
\* a start sets, that later polls replace only when they lower init_api_failed,
\* and that only a restart with no loop running empties.
ImplementsService == Abstract!Safety

\* A loop that was started polls or is stopped, and a loop that has ended, for
\* whatever reason, is followed by another one or by the end of the process.
ServiceProgress == Abstract!Fairness
=============================================================================
