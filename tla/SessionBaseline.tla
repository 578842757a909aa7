--------------------------- MODULE SessionBaseline ---------------------------
(***************************************************************************)
(* What the stats of a session are about: the baseline (`init`) and the    *)
(* current values of Config::data::arr across polls, failures and resets.  *)
(*                                                                         *)
(* A value is abstracted to whose it is: the server it came from, the      *)
(* player whose id was asked for and the mode.  The entries of arr are     *)
(* taken in groups that are always written together.                       *)
(*                                                                         *)
(* Resets do not overlap here and are one step between two polls: the      *)
(* thread that resets joins the fetch thread before it touches anything.   *)
(* FetchLifecycle has those steps, and what happens when resets overlap.   *)
(* A change of the settings may come with a reset or without one: a save   *)
(* may throw midway or overwrite a switch (SettingsStore has its steps),   *)
(* and restartFetch ignores a switch while it is at work.                  *)
(***************************************************************************)
EXTENDS Naturals

CONSTANTS
    Configs,        \* the selections, of a server and a mode, in use
    DefaultConfig,  \* that of a fresh AppConfig: Bancho
    Groups,         \* the groups of entries that are kept track of
    Empty           \* the empty string of an entry without a value

Servers == {c.server : c \in Configs}
Modes   == {c.mode : c \in Configs}

ASSUME ConfigsAssumption ==
    /\ Servers \subseteq {"bancho", "titanic"}
    /\ Configs \subseteq [server : Servers, mode : Modes]
    /\ DefaultConfig \in Configs
    /\ DefaultConfig.server = "bancho"

\* The entries of arr, by the code that writes them:
\*   head, tail   level ... clears: /users of Bancho and of Titanic; two
\*                groups, since an exception may stop between two fields
\*   rank         scoreRank: respektive, Titanic
\*   target       targetRank, targetUser, targetScore: respektive
\*   rarity       b, c, d, totalClears, completion: inspector, Titanic
\*   private      ppv1, ppv1Rank: Titanic
\* No step of the code looks at two groups, so a run may track a few of them:
\* the tail always, which is there once an answer was taken in to its end.
AllGroups == {"head", "tail", "rank", "target", "rarity", "private"}

ASSUME GroupsAssumption == Groups \subseteq AllGroups /\ "tail" \in Groups

Tasks  == {"t1", "t2", "t3"}

Values  == [from : Servers, player : Servers, mode : Modes]

VARIABLES
    cfg,         \* Config::application: the server and the mode
    pending,     \* the reset that is on its way
    restarting,  \* the static guard of restartFetch
    loopInit,    \* the loop's `init`
    initFailed,  \* Status::init_api_failed
    server,      \* the server this poll branched on, "none" between polls
    task,        \* where each thread of the poll is
    ask,         \* whose stats each thread asked for
    init,        \* arr[..].init, by group
    current,     \* arr[..].current, by group
    changed,     \* history: cfg changed since the session began
    cleared,     \* history: the session began with empty stats
    based,       \* history: the first poll of the session gave its baseline
    rebased,     \* history: ... and a later poll replaced it
    carried,     \* history: initFailed was set when the session began
    answered,    \* history: the last poll of Titanic succeeded
    unrecovered  \* history: the recovery of a baseline failed

dataVars == <<init, current>>
history  == <<cleared, based, rebased, carried, answered, unrecovered>>
pollVars == <<loopInit, initFailed, server, task, ask>>
vars == <<cfg, pending, restarting, pollVars, dataVars, changed, history>>

TaskStates == {"off", "auth", "request", "sent", "target", "again", "resent",
               "done"}

TypeOK ==
    /\ cfg \in Configs
    /\ pending \in {"none", "web", "boot", "ui"}
    /\ restarting \in BOOLEAN
    /\ loopInit \in BOOLEAN
    /\ initFailed \in BOOLEAN
    /\ server \in Servers \cup {"none"}
    /\ task \in [Tasks -> TaskStates]
    /\ ask \in [Tasks -> Values \cup {Empty}]
    /\ init \in [Groups -> Values \cup {Empty}]
    /\ current \in [Groups -> Values \cup {Empty}]
    /\ changed \in BOOLEAN
    /\ \A h \in {cleared, based, rebased, carried, answered, unrecovered} : h \in BOOLEAN

Init ==
    /\ cfg \in Configs
    /\ pending = "none"
    /\ restarting = FALSE
    /\ loopInit = TRUE
    /\ initFailed = FALSE
    /\ server = "none"
    /\ task = [t \in Tasks |-> "off"]
    /\ ask = [t \in Tasks |-> Empty]
    /\ init = [g \in Groups |-> Empty]
    /\ current = [g \in Groups |-> Empty]
    /\ changed = FALSE
    /\ cleared = TRUE
    /\ based = FALSE
    /\ rebased = FALSE
    /\ carried = FALSE
    /\ answered = FALSE
    /\ unrecovered = FALSE

-----------------------------------------------------------------------------
(* Building blocks of a poll.                                              *)

Goto(t, st) == task' = [task EXCEPT ![t] = st]

\* A thread is through; what it asked for plays no role any more.
Leave(t) ==
    /\ Goto(t, "done")
    /\ ask' = [ask EXCEPT ![t] = Empty]

\* Mutant: the record of the request misses the endpoint's server.
MutAsked == cfg

\* What a request of this poll, sent now, returns: activeId() reads the
\* server again, so the player may be another server's.
Asked == [from |-> server, player |-> cfg.server, mode |-> cfg.mode]

\* setField for the groups gs: current always, init when setInit.
Fields(gs, v, setInit) ==
    /\ current' = [g \in Groups |-> IF g \in gs THEN v ELSE current[g]]
    /\ init' = [g \in Groups |-> IF setInit /\ g \in gs THEN v ELSE init[g]]
    /\ rebased' = (rebased \/ (setInit /\ based /\ "head" \in gs))

NoFields == UNCHANGED <<dataVars, rebased>>

-----------------------------------------------------------------------------
(* A poll of Bancho: the threads t1, t2 and t3 of fetch_api_data.          *)

\* api_auth answers, or does not.  A failure sets init_api_failed in any
\* poll; a success lowers it in any poll but the first.
Auth ==
    /\ task["t1"] = "auth"
    /\ \/ /\ initFailed' = TRUE
          /\ Goto("t1", "done")
       \/ /\ initFailed' = (initFailed /\ loopInit)
          /\ Goto("t1", "request")
    /\ NoFields
    /\ UNCHANGED <<ask, based, answered, unrecovered>>

\* A thread of the poll reads Config::application and sends its request.
Request(t) ==
    /\ server = "bancho"
    /\ task[t] = "request"
    /\ ask' = [ask EXCEPT ![t] = Asked]
    /\ Goto(t, "sent")
    /\ NoFields
    /\ UNCHANGED <<initFailed, based, answered, unrecovered>>

\* Any of the threads gets no answer, or one it gives up on at once.
RequestFails(t) ==
    /\ server = "bancho"
    /\ task[t] \in {"sent", "target"}
    /\ Leave(t)
    /\ NoFields
    /\ UNCHANGED <<initFailed, based, answered, unrecovered>>

\* Bancho::api writes its fields; an exception stops it after the head.
ApiAnswer(complete) ==
    /\ server = "bancho"
    /\ task["t1"] = "sent"
    /\ Fields(IF complete THEN {"head", "tail"} ELSE {"head"}, ask["t1"], loopInit)
    /\ based' = (based \/ (loopInit /\ complete))
    /\ Leave("t1")
    /\ UNCHANGED <<initFailed, answered, unrecovered>>

\* respektive_api: the rank of the player, then the next better one.
RespektiveRank ==
    /\ task["t2"] = "sent"
    /\ Fields({"rank"}, ask["t2"], loopInit)
    /\ Goto("t2", "target")
    /\ UNCHANGED <<ask, initFailed, based, answered, unrecovered>>

RespektiveTarget ==
    /\ task["t2"] = "target"
    /\ Fields({"target"}, ask["t2"], FALSE)
    /\ Leave("t2")
    /\ UNCHANGED <<initFailed, based, answered, unrecovered>>

InspectorAnswer ==
    /\ task["t3"] = "sent"
    /\ Fields({"rarity"}, ask["t3"], loopInit)
    /\ Leave("t3")
    /\ UNCHANGED <<initFailed, based, answered, unrecovered>>

BanchoStep ==
    \/ Auth
    \/ \E t \in Tasks : Request(t) \/ RequestFails(t)
    \/ \E complete \in BOOLEAN : ApiAnswer(complete)
    \/ RespektiveRank
    \/ RespektiveTarget
    \/ InspectorAnswer

-----------------------------------------------------------------------------
(* A poll of Titanic: titanic(init), and titanic(true) after a recovery.   *)

TitanicGroups == AllGroups \ {"target"}

\* activeId() is read for the request, the mode only when the answer is here.
TitanicRequest ==
    /\ server = "titanic"
    /\ task["t1"] \in {"request", "again"}
    /\ ask' = [ask EXCEPT !["t1"] = Asked]
    /\ Goto("t1", IF task["t1"] = "again" THEN "resent" ELSE "sent")
    /\ NoFields
    /\ UNCHANGED <<initFailed, based, answered, unrecovered>>

TitanicValue == [ask["t1"] EXCEPT !.mode = cfg.mode]

\* Mutant: a failure of any poll raises the flag.
MutTitanicFails ==
    /\ server = "titanic"
    /\ task["t1"] = "sent"
    /\ NoFields \/ Fields({"head"}, TitanicValue, loopInit)
    /\ initFailed' = TRUE
    /\ answered' = FALSE
    /\ Leave("t1")
    /\ UNCHANGED <<based, unrecovered>>

\* titanic() does not return 200: no answer, or an exception among the
\* fields.  Only in the first poll of a session does that raise the flag.
TitanicFails ==
    /\ server = "titanic"
    /\ task["t1"] = "sent"
    /\ NoFields \/ Fields({"head"}, TitanicValue, loopInit)
    /\ initFailed' = (initFailed \/ loopInit)
    /\ answered' = FALSE
    /\ Leave("t1")
    /\ UNCHANGED <<based, unrecovered>>

\* titanic(init) returns 200.  If the flag is up and this is not the first
\* poll, the flag is lowered and the baseline is fetched again.
TitanicAnswer ==
    /\ server = "titanic"
    /\ task["t1"] = "sent"
    /\ Fields(TitanicGroups, TitanicValue, loopInit)
    /\ based' = (based \/ loopInit)
    /\ answered' = TRUE
    /\ initFailed' = (initFailed /\ loopInit)
    /\ IF initFailed /\ ~loopInit
       THEN Goto("t1", "again") /\ UNCHANGED ask
       ELSE Leave("t1")
    /\ UNCHANGED unrecovered

\* Mutant: titanic(init) instead of titanic(true).
MutRecoveryAnswer ==
    /\ task["t1"] = "resent"
    /\ Fields(TitanicGroups, TitanicValue, FALSE)
    /\ Leave("t1")
    /\ UNCHANGED <<initFailed, based, answered, unrecovered>>

\* titanic(true) of the recovery: what it returns is ignored.
RecoveryAnswer ==
    /\ task["t1"] = "resent"
    /\ Fields(TitanicGroups, TitanicValue, TRUE)
    /\ Leave("t1")
    /\ UNCHANGED <<initFailed, based, answered, unrecovered>>

RecoveryFails ==
    /\ task["t1"] = "resent"
    /\ NoFields \/ Fields({"head"}, TitanicValue, TRUE)
    /\ unrecovered' = TRUE
    /\ Leave("t1")
    /\ UNCHANGED <<initFailed, based, answered>>

TitanicStep ==
    \/ TitanicRequest
    \/ TitanicFails
    \/ TitanicAnswer
    \/ RecoveryAnswer
    \/ RecoveryFails

-----------------------------------------------------------------------------
(* The loop.                                                               *)

\* fetch_api_data branches on the server and starts the threads.
PollBegin ==
    /\ server = "none"
    /\ server' = cfg.server
    /\ task' = IF cfg.server = "bancho"
               THEN [t \in Tasks |-> IF t = "t1" THEN "auth" ELSE "request"]
               ELSE [t \in Tasks |-> IF t = "t1" THEN "request" ELSE "done"]
    /\ UNCHANGED <<cfg, pending, restarting, loopInit, initFailed, ask, dataVars,
                   changed, history>>

PollStep ==
    /\ server # "none"
    /\ BanchoStep \/ TitanicStep
    /\ UNCHANGED <<cfg, pending, restarting, loopInit, server, changed, cleared,
                   carried>>

\* The threads are joined, init = false, the data is published.
PollEnd ==
    /\ server # "none"
    /\ \A t \in Tasks : task[t] = "done"
    /\ server' = "none"
    /\ loopInit' = FALSE
    /\ task' = [t \in Tasks |-> "off"]
    /\ UNCHANGED <<cfg, pending, restarting, initFailed, ask, dataVars, changed,
                   history>>

-----------------------------------------------------------------------------
(* Changes of the settings, and resets.                                    *)

\* Another server or mode is in force from now on, also for a poll under way.
Change(c) ==
    /\ cfg' = c
    /\ changed' = TRUE
    /\ UNCHANGED <<pollVars, dataVars, history>>

\* #saveSettings sets it.  That a reset follows is another step (WebReset):
\* none does when a field throws, or when the save was compared before a
\* switch of the window.
Save(c) ==
    /\ c # cfg
    /\ Change(c)
    /\ UNCHANGED <<pending, restarting>>

\* A combo box of the window: restartFetch is ignored while one is at work.
Switch(c) ==
    /\ c # cfg
    /\ Change(c)
    /\ \/ restarting /\ UNCHANGED <<pending, restarting>>
       \/ ~restarting /\ pending = "none" /\ pending' = "ui" /\ restarting' = TRUE

\* #resetSession, or a #saveSettings that comes to its reset.
WebReset ==
    /\ pending = "none"
    /\ pending' = "web"
    /\ UNCHANGED <<cfg, restarting, pollVars, dataVars, changed, history>>

\* #restart: main stops the fetch thread and boots again.
Restart ==
    /\ pending = "none"
    /\ pending' = "boot"
    /\ UNCHANGED <<cfg, restarting, pollVars, dataVars, changed, history>>

\* #resetSettings: a fresh AppConfig, and the same.
ResetSettings ==
    /\ pending = "none"
    /\ Change(DefaultConfig)
    /\ pending' = "boot"
    /\ UNCHANGED restarting

\* startFetchThread(true); what is selected from here on, a first poll may
\* have read already.
NewSession ==
    /\ server = "none"
    /\ loopInit' = TRUE
    /\ pending' = "none"
    /\ changed' = FALSE
    /\ based' = FALSE
    /\ rebased' = FALSE
    /\ carried' = initFailed
    /\ answered' = FALSE
    /\ unrecovered' = FALSE
    /\ UNCHANGED <<restarting, initFailed, server, task, ask>>

\* Mutant: the stats are not cleared.
MutRestartFetch ==
    /\ pending = "ui"
    /\ NewSession
    /\ cleared' = TRUE
    /\ UNCHANGED <<cfg, dataVars>>

\* restartFetch once the loop has ended: the stats are cleared.
RestartFetch ==
    /\ pending = "ui"
    /\ NewSession
    /\ init' = [g \in Groups |-> Empty]
    /\ current' = [g \in Groups |-> Empty]
    /\ cleared' = TRUE
    /\ UNCHANGED cfg

\* restarting = false, after the new thread was started.
Release ==
    /\ restarting
    /\ pending # "ui"
    /\ restarting' = FALSE
    /\ UNCHANGED <<cfg, pending, pollVars, dataVars, changed, history>>

\* stopFetchThread, startFetchThread(true): the stats stay.  In between, a
\* boot reads the settings from the file.
StopStart ==
    /\ \/ pending = "web"  /\ UNCHANGED cfg
       \/ pending = "boot" /\ cfg' \in Configs
    /\ NewSession
    /\ cleared' = FALSE
    /\ UNCHANGED dataVars

Next ==
    \/ PollBegin
    \/ PollStep
    \/ PollEnd
    \/ \E c \in Configs : Save(c) \/ Switch(c)
    \/ WebReset
    \/ Restart
    \/ ResetSettings
    \/ RestartFetch
    \/ Release
    \/ StopStart

Spec == Init /\ [][Next]_vars

-----------------------------------------------------------------------------
(* Properties.  They speak of a session in which the selection stayed what *)
(* it was when the session began; after a change the next session, if one  *)
(* comes, is meant.                                                        *)

Selected == [from |-> cfg.server, player |-> cfg.server, mode |-> cfg.mode]

\* Between two polls, every value of a session that the window began is about
\* what is selected, whatever fails and whenever the user switched before:
\* what a poll that read two configurations wrote is cleared before the next
\* session begins, and no answer to it comes later.
OneIdentity ==
    server = "none" /\ cleared /\ ~changed =>
        \A g \in Groups : {init[g], current[g]} \subseteq {Selected, Empty}

\* A baseline is replaced within its session only if init_api_failed was
\* still up from an earlier session, or the user changed the selection and no
\* reset came yet: a poll that fails later on, or a failed first poll that
\* recovers, never costs the user the progress so far.
BaselineKeptUnlessCarried == rebased => carried \/ changed

\* Once Titanic answered in a session that began on it, its stats have a
\* baseline of that session, unless the second request of the recovery failed.
TitanicHasBaseline ==
    /\ server = "none" /\ ~changed
    /\ cfg.server = "titanic" /\ answered /\ ~unrecovered
    => init["tail"] = Selected
=============================================================================
