---------------------------- MODULE SettingsStore ----------------------------
(***************************************************************************)
(* The settings: Config::application in memory, config.json on disk, and   *)
(* the selection the running session was started for.                      *)
(*                                                                         *)
(* Three threads change them: the worker of the web server (#saveSettings, *)
(* #resetSettings), the window (its combo boxes), and main, which reads    *)
(* config.json whenever the web server (re)starts.  No lock is held over   *)
(* application or over the file, and Config::write truncates the file      *)
(* before it writes.                                                       *)
(***************************************************************************)
EXTENDS FiniteSets

CONSTANTS
    Users,        \* user ids
    Modes,        \* game modes
    DefaultUser,  \* those of a fresh AppConfig
    DefaultMode,
    Blank,        \* a number field of the page that was left empty
    Absent,       \* config.json does not exist,
    Emptied,      \* ... was truncated,
    Torn          \* ... holds two documents of different lengths

ASSUME DefaultsAssumption ==
    DefaultUser \in Users /\ DefaultMode \in Modes /\ Blank \notin Users

Settings == [user : Users, mode : Modes]
Default  == [user |-> DefaultUser, mode |-> DefaultMode]
Fields   == {"user", "mode"}

\* What the page sends: std::stoi throws on a blank field.
Payloads == [user : Users \cup {Blank}, mode : Modes]

Unreadable == {Emptied, Torn}

\* What Config::read finds is a document, or no document, or no file.
ASSUME FilesAssumption ==
    /\ Absent \notin Settings \cup Unreadable
    /\ Unreadable \cap Settings = {}
    /\ Emptied # Torn

Writers == {"worker", "window", "main"}

VARIABLES
    app,        \* Config::application
    file,       \* config.json
    session,    \* the selection the running session was started for
    needReset,  \* the fetch thread is about to start a new session
    restart,    \* what the detached thread of restartFetch is at
    pc,         \* pc[w]: where each writer is
    snap,       \* snap[w]: the document Config::write of w has built
    orphan,     \* the writers whose open file was removed
    payload,    \* the #saveSettings message being handled
    todo,       \* its fields that are not yet applied
    reset,      \* its resetSession flag
    unsaved,    \* history: config.json may differ from memory
    missed,     \* history: a selection came into force without a reset
    cut,        \* history: the process died, or the disk failed, inside a write
    mixed       \* history: two writes of the file overlapped

saveVars == <<payload, todo, reset>>
history  == <<unsaved, missed, cut, mixed>>
vars == <<app, file, session, needReset, restart, pc, snap, orphan, saveVars, history>>

TypeOK ==
    /\ app \in Settings
    /\ file \in Settings \cup Unreadable \cup {Absent}
    /\ session \in Settings
    /\ needReset \in BOOLEAN
    /\ restart \in {"none", "stopping", "spawned"}
    /\ pc \in [Writers -> {"idle", "compare", "apply", "build", "open", "dump",
                           "after", "remove", "stop", "boot", "read"}]
    /\ snap \in [Writers -> Settings]
    /\ orphan \subseteq Writers
    /\ payload \in Payloads
    /\ todo \subseteq Fields
    /\ reset \in BOOLEAN
    /\ unsaved \in BOOLEAN
    /\ missed \in BOOLEAN
    /\ cut \in BOOLEAN
    /\ mixed \in BOOLEAN

\* The process starts for the first time, without a config.json.
Init ==
    /\ app = Default
    /\ file = Absent
    /\ session = Default
    /\ needReset = FALSE
    /\ restart = "none"
    /\ pc = [w \in Writers |-> IF w = "main" THEN "boot" ELSE "idle"]
    /\ snap = [w \in Writers |-> Default]
    /\ orphan = {}
    /\ payload = Default
    /\ todo = {}
    /\ reset = FALSE
    /\ unsaved = FALSE
    /\ missed = FALSE
    /\ cut = FALSE
    /\ mixed = FALSE

Goto(w, ph) == pc' = [pc EXCEPT ![w] = ph]
Serving     == pc["main"] = "idle"
\* The window outlives the web server.
WindowOpen  == pc["main"] \in {"idle", "stop"}

\* A first poll is about to read the settings.
SessionComing == needReset \/ restart = "stopping"

-----------------------------------------------------------------------------
(* Config::write.                                                          *)

\* Mutant: the default settings are written.
MutBuild(w) ==
    /\ pc[w] = "build"
    /\ snap' = [snap EXCEPT ![w] = Default]
    /\ Goto(w, "open")
    /\ UNCHANGED <<app, file, session, needReset, restart, orphan, saveVars, history>>

\* The JSON document is built from application.
Build(w) ==
    /\ pc[w] = "build"
    /\ snap' = [snap EXCEPT ![w] = app]
    /\ Goto(w, "open")
    /\ UNCHANGED <<app, file, session, needReset, restart, orphan, saveVars, history>>

AfterDump(w) == IF w = "main" THEN "read" ELSE "after"

\* std::ofstream file{ "config.json" } creates or truncates the file.
Open(w) ==
    /\ pc[w] = "open"
    /\ file' = Emptied
    /\ Goto(w, "dump")
    /\ UNCHANGED <<app, session, needReset, restart, snap, orphan, saveVars, history>>

\* The file cannot be opened: the document is dropped, and nobody is told.
OpenFails(w) ==
    /\ pc[w] = "open"
    /\ unsaved' = TRUE
    /\ snap' = [snap EXCEPT ![w] = Default]
    /\ Goto(w, AfterDump(w))
    /\ UNCHANGED <<app, file, session, needReset, restart, orphan, saveVars, missed, cut, mixed>>

\* Two writes overlap when another one was built but not written.
Overlaps(w) == \E v \in Writers \ {w} : pc[v] \in {"build", "open", "dump"}

\* The document is written from the start of the file.  Over what another
\* writer has written since, it leaves the rest of a longer document.
Dump(w) ==
    /\ pc[w] = "dump"
    /\ IF w \in orphan
       THEN UNCHANGED file
       ELSE \/ file' = snap[w]
            \/ file # Emptied /\ file' = Torn
    /\ orphan' = orphan \ {w}
    /\ mixed' = (mixed \/ Overlaps(w))
    /\ unsaved' = IF Overlaps(w) THEN TRUE
                  ELSE unsaved /\ ~(file = Emptied /\ snap[w] = app)
    /\ snap' = [snap EXCEPT ![w] = Default]
    /\ Goto(w, AfterDump(w))
    /\ UNCHANGED <<app, session, needReset, restart, saveVars, missed, cut>>

\* The document is not written to its end (the disk is full): nobody looks.
DumpFails(w) ==
    /\ pc[w] = "dump"
    /\ \/ UNCHANGED file
       \/ w \notin orphan /\ file' = Torn
    /\ orphan' = orphan \ {w}
    /\ mixed' = (mixed \/ Overlaps(w))
    /\ cut' = (cut \/ w \notin orphan)
    /\ unsaved' = TRUE
    /\ snap' = [snap EXCEPT ![w] = Default]
    /\ Goto(w, AfterDump(w))
    /\ UNCHANGED <<app, session, needReset, restart, saveVars, missed>>

Write(w) == Build(w) \/ Open(w) \/ OpenFails(w) \/ Dump(w) \/ DumpFails(w)

-----------------------------------------------------------------------------
(* #saveSettings.                                                          *)

SaveBegin(p) ==
    /\ Serving
    /\ pc["worker"] = "idle"
    /\ payload' = p
    /\ todo' = Fields
    /\ Goto("worker", "compare")
    /\ UNCHANGED <<app, file, session, needReset, restart, snap, orphan, reset, history>>

\* The locals of the handler go out of scope.
Discard ==
    /\ payload' = Default
    /\ todo' = {}
    /\ reset' = FALSE

\* Does the message change the selection?
Compare ==
    /\ pc["worker"] = "compare"
    /\ reset' = (payload # app)
    /\ Goto("worker", "apply")
    /\ UNCHANGED <<app, file, session, needReset, restart, snap, orphan, payload, todo, history>>

\* Mutant: a blank field is taken over.
MutSetField(f) ==
    /\ pc["worker"] = "apply"
    /\ f \in todo
    /\ app' = [app EXCEPT ![f] = payload[f]]
    /\ todo' = todo \ {f}
    /\ missed' = (missed \/ (~reset /\ ~SessionComing /\ session # app'))
    /\ unsaved' = (unsaved \/ (app # app' /\ pc["window"] # "idle"))
    /\ Goto("worker", IF todo' = {} THEN "build" ELSE "apply")
    /\ UNCHANGED <<file, session, needReset, restart, snap, orphan, payload, reset, cut,
                   mixed>>

\* application.set for the next field, in the order of an unordered_map.
SetField(f) ==
    /\ pc["worker"] = "apply"
    /\ f \in todo
    /\ payload[f] # Blank
    /\ app' = [app EXCEPT ![f] = payload[f]]
    /\ todo' = todo \ {f}
    /\ missed' = (missed \/ (~reset /\ ~SessionComing /\ session # app'))
    /\ unsaved' = (unsaved \/ (app # app' /\ pc["window"] # "idle"))
    /\ Goto("worker", IF todo' = {} THEN "build" ELSE "apply")
    /\ UNCHANGED <<file, session, needReset, restart, snap, orphan, payload, reset, cut,
                   mixed>>

\* application.set throws: the handler ends there.
SetThrows(f) ==
    /\ pc["worker"] = "apply"
    /\ f \in todo
    /\ payload[f] = Blank
    /\ Discard
    /\ missed' = (missed \/ (~SessionComing /\ session # app))
    /\ unsaved' = TRUE
    /\ Goto("worker", "idle")
    /\ UNCHANGED <<app, file, session, needReset, restart, snap, orphan, cut, mixed>>

\* The page is told, and a thread is started that resets the session
\* (FetchLifecycle has its steps).
SaveEnd ==
    /\ pc["worker"] = "after"
    /\ needReset' = (needReset \/ reset)
    /\ Discard
    /\ Goto("worker", "idle")
    /\ UNCHANGED <<app, file, session, restart, snap, orphan, history>>

-----------------------------------------------------------------------------
(* The window.                                                             *)

\* A combo box takes another value.
Switch(m) ==
    /\ WindowOpen
    /\ pc["window"] = "idle"
    /\ m # app.mode
    /\ app' = [app EXCEPT !.mode = m]
    /\ unsaved' = (unsaved \/ pc["worker"] # "idle")
    /\ Goto("window", "build")
    /\ UNCHANGED <<file, session, needReset, restart, snap, orphan, saveVars, missed, cut, mixed>>

\* Mutant: a switch of the window does not restart the session.
MutSwitchEnd ==
    /\ pc["window"] = "after"
    /\ Goto("window", "idle")
    /\ UNCHANGED <<app, file, session, needReset, restart, snap, orphan, saveVars, history>>

\* restartFetch: ignored while an earlier one is at work.
SwitchEnd ==
    /\ pc["window"] = "after"
    /\ IF restart = "none"
       THEN restart' = "stopping" /\ UNCHANGED missed
       ELSE /\ UNCHANGED restart
            /\ missed' = (missed \/ (~SessionComing /\ session # app))
    /\ Goto("window", "idle")
    /\ UNCHANGED <<app, file, session, needReset, snap, orphan, saveVars, unsaved, cut, mixed>>

\* Its thread has joined the fetch thread, and starts the next one ...
Spawn ==
    /\ restart = "stopping"
    /\ restart' = "spawned"
    /\ needReset' = TRUE
    /\ UNCHANGED <<app, file, session, pc, snap, orphan, saveVars, history>>

\* ... and only then does it let in the next restart.
Release ==
    /\ restart = "spawned"
    /\ restart' = "none"
    /\ UNCHANGED <<app, file, session, needReset, pc, snap, orphan, saveVars, history>>

\* The first poll of the new session.
NewSession ==
    /\ WindowOpen
    /\ needReset
    /\ needReset' = FALSE
    /\ session' = app
    /\ missed' = FALSE
    /\ UNCHANGED <<app, file, restart, pc, snap, orphan, saveVars, unsaved, cut, mixed>>

-----------------------------------------------------------------------------
(* #resetSettings, restart and boot.                                       *)

\* resetToDefaults()
ResetToDefaults ==
    /\ Serving
    /\ pc["worker"] = "idle"
    /\ app' = Default
    /\ Goto("worker", "remove")
    /\ UNCHANGED <<file, session, needReset, restart, snap, orphan, saveVars, history>>

\* Mutant: config.json is emptied instead of removed.
MutRemove ==
    /\ pc["worker"] = "remove"
    /\ file' = Emptied
    /\ orphan' = {w \in Writers : pc[w] = "dump"}
    /\ pc' = [pc EXCEPT !["worker"] = "idle", !["main"] = "stop"]
    /\ UNCHANGED <<app, session, needReset, restart, snap, saveVars, history>>

\* remove() and shutdown(true)
Remove ==
    /\ pc["worker"] = "remove"
    /\ file' = Absent
    /\ orphan' = {w \in Writers : pc[w] = "dump"}
    /\ pc' = [pc EXCEPT !["worker"] = "idle", !["main"] = "stop"]
    /\ UNCHANGED <<app, session, needReset, restart, snap, saveVars, history>>

\* The file cannot be removed: the exception ends the handler.
RemoveFails ==
    /\ pc["worker"] = "remove"
    /\ file # Absent
    /\ missed' = (missed \/ (~SessionComing /\ session # app))
    /\ unsaved' = TRUE
    /\ Goto("worker", "idle")
    /\ UNCHANGED <<app, file, session, needReset, restart, snap, orphan, saveVars, cut, mixed>>

\* #restart: shutdown(true)
Restart ==
    /\ Serving
    /\ pc["worker"] = "idle"
    /\ Goto("main", "stop")
    /\ UNCHANGED <<app, file, session, needReset, restart, snap, orphan, saveVars, history>>

\* stopUiThread() joins the window.
StopWindow ==
    /\ pc["main"] = "stop"
    /\ pc["window"] = "idle"
    /\ Goto("main", "boot")
    /\ UNCHANGED <<app, file, session, needReset, restart, snap, orphan, saveVars, history>>

\* Main looks for config.json.
Boot ==
    /\ pc["main"] = "boot"
    /\ Goto("main", IF file = Absent THEN "build" ELSE "read")
    /\ UNCHANGED <<app, file, session, needReset, restart, snap, orphan, saveVars, history>>

\* Config::read; a file that does not open, and a document that does not parse,
\* change nothing.  Then startFetchThread(true), and the web server serves.
Read(opened) ==
    /\ pc["main"] = "read"
    /\ LET found == opened /\ file \in Settings
       IN  /\ app' = IF found THEN file ELSE app
           /\ unsaved' = ~found
    /\ needReset' = TRUE
    /\ Goto("main", "idle")
    /\ UNCHANGED <<file, session, restart, snap, orphan, saveVars, missed, cut, mixed>>

\* The process ends, at any moment, and is started again.
Crash ==
    /\ cut' = (cut \/ \E w \in Writers : pc[w] = "dump" /\ w \notin orphan)
    /\ app' = Default
    /\ pc' = [w \in Writers |-> IF w = "main" THEN "boot" ELSE "idle"]
    /\ orphan' = {}
    /\ snap' = [w \in Writers |-> Default]
    /\ Discard
    /\ needReset' = FALSE
    /\ restart' = "none"
    /\ UNCHANGED <<file, session, unsaved, missed, mixed>>

Next ==
    \/ \E w \in Writers : Write(w)
    \/ \E p \in Payloads : SaveBegin(p)
    \/ Compare
    \/ \E f \in Fields : SetField(f) \/ SetThrows(f)
    \/ SaveEnd
    \/ \E m \in Modes : Switch(m)
    \/ SwitchEnd
    \/ Spawn
    \/ Release
    \/ NewSession
    \/ ResetToDefaults
    \/ Remove
    \/ RemoveFails
    \/ Restart
    \/ StopWindow
    \/ Boot
    \/ \E opened \in BOOLEAN : Read(opened)
    \/ Crash

Spec == Init /\ [][Next]_vars

-----------------------------------------------------------------------------
AtRest == \A w \in Writers : pc[w] = "idle"

\* What is in force is on disk, so that it survives a restart, unless a save
\* threw midway, the page and the window saved at once, the file could not be
\* opened, written or removed, or what was on disk at boot could not be read.
Durable == AtRest /\ ~unsaved => file = app

\* config.json becomes unreadable only by a crash or a full disk inside
\* Config::write or by two overlapping writes: no other order of saves,
\* switches, resets, restarts and crashes costs the user the settings.
ReadableUnlessCut ==
    file \in Unreadable =>
        \/ cut
        \/ mixed
        \/ \E w \in Writers : pc[w] = "dump" /\ w \notin orphan

\* The session is always about what is in force, unless a save threw midway, or
\* overwrote a switch that the window made after the save had compared; the
\* window switched once more between the first poll of a restart and its end;
\* or #resetSettings could not remove the file.
SessionFollows == AtRest /\ ~SessionComing /\ ~missed => session = app
=============================================================================
