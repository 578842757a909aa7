------------------------------ MODULE DataLock ------------------------------
(***************************************************************************)
(* Who touches Config::data::arr and Config::data::arrFormatted when, and  *)
(* under which mode of Config::data::dataMutex.                            *)
(*                                                                         *)
(* An access is an interval: it begins, possibly after waiting for the     *)
(* lock, and it ends.  The threads are the fetch thread with the API       *)
(* threads of its poll, the worker of the web server, the window, and the  *)
(* detached thread of restartFetch.  A detached thread of the web page     *)
(* restarts the fetch thread too, without touching the data.               *)
(***************************************************************************)
EXTENDS FiniteSets

CONSTANTS ApiThreads    \* the threads a poll sets fields from

ASSUME ApiThreadsAssumption ==
    ApiThreads \cap {"fetch", "worker", "window", "restart"} = {}

Threads == ApiThreads \cup {"fetch", "worker", "window", "restart"}

\* restartFetch of the window; #resetSession or #saveSettings of the page, or
\* main when the web server restarts, which take the same steps.
Restarters == {"restart", "reset"}

\* lock: how dataMutex is held; reads, writes: the vectors that are touched.
Access == [lock : {"none", "shared", "unique"},
           reads : SUBSET {"arr", "fmt"}, writes : SUBSET {"arr", "fmt"}]

\* setField and calcDifference of the API threads.
SetFields == [lock |-> "none", reads |-> {"arr"}, writes |-> {"arr"}]
\* updateFormat and writeStats at the end of a poll.
Publish == [lock |-> "unique", reads |-> {"arr", "fmt"}, writes |-> {"fmt"}]
\* restartFetch empties the stats.
ClearStats == [lock |-> "unique", reads |-> {}, writes |-> {"arr", "fmt"}]
\* The list of stats of a frame, and the data view of its debug overlay.
DrawStats == [lock |-> "shared", reads |-> {"fmt"}, writes |-> {}]
DrawDebug == [lock |-> "shared", reads |-> {"arr", "fmt"}, writes |-> {}]
\* A message of an overlay.
OverlayData == [lock |-> "shared", reads |-> {"arr", "fmt"}, writes |-> {}]

\* Mutant: #saveSettings takes the lock for reading.
MutSaveDisplay == [lock |-> "shared", reads |-> {"arr"}, writes |-> {"arr", "fmt"}]

\* #saveSettings: display, sort and updateFormat.
SaveDisplay == [lock |-> "unique", reads |-> {"arr"}, writes |-> {"arr", "fmt"}]
\* Config::write, by #saveSettings and by a combo box of the window.
WriteConfig == [lock |-> "none", reads |-> {"arr"}, writes |-> {}]
\* The settings page and the help page.
RenderPage == [lock |-> "none", reads |-> {"arr"}, writes |-> {}]
\* #resetSettings: display and sort of every entry.
ResetDefaults == [lock |-> "none", reads |-> {}, writes |-> {"arr"}]

VARIABLES
    pc,         \* pc[t]: "idle", "want" the lock, or "in" the access
    acc,        \* acc[t]: the access thread t makes or wants to make
    fetch,      \* the flag the fetch thread polls
    loop,       \* the fetch thread: "check", "poll", "publish" or "ended";
                \* "none": its handle is not joinable
    polled,     \* the API threads that are through with this poll
    at,         \* at[o]: how far the restart of the fetch thread by o is
    overlapped  \* history: two restarts were under way at once

threadVars == <<fetch, loop, polled, at, overlapped>>
vars == <<pc, acc, threadVars>>

NoAccess == [lock |-> "none", reads |-> {}, writes |-> {}]

TypeOK ==
    /\ pc \in [Threads -> {"idle", "want", "in"}]
    /\ acc \in [Threads -> Access]
    /\ fetch \in BOOLEAN
    /\ loop \in {"check", "poll", "publish", "ended", "none"}
    /\ polled \subseteq ApiThreads
    /\ at \in [Restarters -> {"idle", "join", "clear", "start"}]
    /\ overlapped \in BOOLEAN

\* main has started the fetch thread.
Init ==
    /\ pc = [t \in Threads |-> "idle"]
    /\ acc = [t \in Threads |-> NoAccess]
    /\ fetch = TRUE
    /\ loop = "check"
    /\ polled = {}
    /\ at = [o \in Restarters |-> "idle"]
    /\ overlapped = FALSE

-----------------------------------------------------------------------------
(* dataMutex.                                                              *)

\* The modes in which threads other than t hold the lock.
Held(t) == {acc[u].lock : u \in {v \in Threads \ {t} : pc[v] = "in"}}

MayEnter(t) ==
    /\ acc[t].lock = "unique" => Held(t) \subseteq {"none"}
    /\ acc[t].lock = "shared" => "unique" \notin Held(t)

Begin(t, a) ==
    /\ pc[t] = "idle"
    /\ pc' = [pc EXCEPT ![t] = "want"]
    /\ acc' = [acc EXCEPT ![t] = a]

Enter(t) ==
    /\ pc[t] = "want"
    /\ MayEnter(t)
    /\ pc' = [pc EXCEPT ![t] = "in"]
    /\ UNCHANGED <<acc, threadVars>>

Finish(t) ==
    /\ pc[t] = "in"
    /\ pc' = [pc EXCEPT ![t] = "idle"]
    /\ acc' = [acc EXCEPT ![t] = NoAccess]

\* The end of an access of the worker or the window.
End(t) ==
    /\ t \in {"worker", "window"}
    /\ Finish(t)
    /\ UNCHANGED threadVars

-----------------------------------------------------------------------------
(* The fetch thread.                                                       *)

\* The test of `while (fetch)`, at the start and after each sleep.
Check ==
    /\ loop = "check"
    /\ loop' = IF fetch THEN "poll" ELSE "ended"
    /\ polled' = {}
    /\ UNCHANGED <<pc, acc, fetch, at, overlapped>>

\* An API thread sets its fields and computes the differences.
ApiBegin(t) ==
    /\ loop = "poll"
    /\ t \notin polled
    /\ Begin(t, SetFields)
    /\ UNCHANGED threadVars

ApiEnd(t) ==
    /\ Finish(t)
    /\ polled' = polled \cup {t}
    /\ UNCHANGED <<fetch, loop, at, overlapped>>

\* The API of thread t gave nothing.
ApiFails(t) ==
    /\ loop = "poll"
    /\ pc[t] = "idle"
    /\ polled' = polled \cup {t}
    /\ UNCHANGED <<pc, acc, fetch, loop, at, overlapped>>

\* The API threads are joined and the fetch thread asks for the lock.
PublishBegin ==
    /\ loop = "poll"
    /\ polled = ApiThreads
    /\ Begin("fetch", Publish)
    /\ loop' = "publish"
    /\ UNCHANGED <<fetch, polled, at, overlapped>>

\* Mutant: the loop goes to a state of its own after a poll.
MutPublishEnd ==
    /\ Finish("fetch")
    /\ loop' = "idle"
    /\ UNCHANGED <<fetch, polled, at, overlapped>>

PublishEnd ==
    /\ Finish("fetch")
    /\ loop' = "check"
    /\ UNCHANGED <<fetch, polled, at, overlapped>>

-----------------------------------------------------------------------------
(* The restarts of the fetch thread.  Their misuse of the handle is the    *)
(* subject of FetchLifecycle: a join that throws and a start over a        *)
(* joinable handle end the process and are no steps here.                  *)

\* fetch = false.  restartFetch is not entered twice.
Stop(o) ==
    /\ at[o] = "idle"
    /\ fetch' = FALSE
    /\ at' = [at EXCEPT ![o] = "join"]
    /\ overlapped' = (overlapped \/ \E q \in Restarters : at[q] # "idle")
    /\ UNCHANGED <<pc, acc, loop, polled>>

\* The fetch thread was joined, or there was none to join.
Joined(o) ==
    /\ at[o] = "join"
    /\ loop \in {"ended", "none"}
    /\ loop' = "none"
    /\ at' = [at EXCEPT ![o] = IF o = "restart" THEN "clear" ELSE "start"]
    /\ UNCHANGED <<pc, acc, fetch, polled, overlapped>>

\* Mutant: the stats are cleared before join().
MutClearBegin ==
    /\ at["restart"] = "join"
    /\ Begin("restart", ClearStats)
    /\ UNCHANGED threadVars

\* restartFetch asks for the lock.
ClearBegin ==
    /\ at["restart"] = "clear"
    /\ Begin("restart", ClearStats)
    /\ UNCHANGED threadVars

ClearEnd ==
    /\ Finish("restart")
    /\ at' = [at EXCEPT !["restart"] = "start"]
    /\ UNCHANGED <<fetch, loop, polled, overlapped>>

\* fetch = true; fetchThread = std::thread(fetchApiData, true)
Start(o) ==
    /\ at[o] = "start"
    /\ loop = "none"
    /\ fetch' = TRUE
    /\ loop' = "check"
    /\ at' = [at EXCEPT ![o] = "idle"]
    /\ UNCHANGED <<pc, acc, polled, overlapped>>

-----------------------------------------------------------------------------
WorkerAccesses == {OverlayData, SaveDisplay, WriteConfig, RenderPage, ResetDefaults}
WindowAccesses == {DrawStats, DrawDebug, WriteConfig}

UserBegin(t, a) ==
    /\ Begin(t, a)
    /\ UNCHANGED threadVars

Next ==
    \/ \E t \in Threads : Enter(t) \/ End(t)
    \/ Check
    \/ \E t \in ApiThreads : ApiBegin(t) \/ ApiEnd(t) \/ ApiFails(t)
    \/ PublishBegin \/ PublishEnd
    \/ \E o \in Restarters : Stop(o) \/ Joined(o) \/ Start(o)
    \/ ClearBegin \/ ClearEnd
    \/ \E a \in WorkerAccesses : UserBegin("worker", a)
    \/ \E a \in WindowAccesses : UserBegin("window", a)

Spec == Init /\ [][Next]_vars

-----------------------------------------------------------------------------
Touches(t) == acc[t].reads \cup acc[t].writes

\* Two threads are at vector v at once and one of them writes it.
Conflict(t, u, v) ==
    /\ t # u
    /\ pc[t] = "in" /\ pc[u] = "in"
    /\ v \in acc[t].writes
    /\ v \in Touches(u)

\* No thread sees arrFormatted half sorted, half formatted or cleared under
\* its feet: the window and the overlays may walk it and index it.
FormattedNeverTorn == \A t, u \in Threads : ~Conflict(t, u, "fmt")

\* restartFetch empties arr only when no API thread writes it any more,
\* though those take no lock: it has joined the fetch thread.  A reset by the
\* web page that meets it may have started the next one already.
ClearIsAlone ==
    ~overlapped /\ pc["restart"] = "in" =>
        \A t \in ApiThreads \cup {"fetch"} : pc[t] = "idle"

\* The comment at dataMutex: "Protects arr and arrFormatted against
\* concurrent read/write. fetchThread holds unique_lock while writing; all
\* readers hold shared_lock."  So a reader that does its part, and holds the
\* lock, is safe from the threads of a poll.
ReadersProtected ==
    \A t \in ApiThreads \cup {"fetch"}, u \in {"worker", "window"} :
        acc[u].lock = "shared" => ~Conflict(t, u, "arr") /\ ~Conflict(t, u, "fmt")
=============================================================================
