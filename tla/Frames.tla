------------------------------- MODULE Frames -------------------------------
(***************************************************************************)
(* What the window learns from the fetch thread by looking at its          *)
(* variables once a frame: the avatar, through avatarDirty and the bytes   *)
(* that avatarMutex guards, and the end of a switch of server or mode,     *)
(* through fetchCount going to zero and up again.                          *)
(*                                                                         *)
(* Three threads: the window's (ui_main), the fetch thread (fetchApiData)  *)
(* and the detached one of restartFetch.  Resets by the web page are left  *)
(* out: they leave the avatar and fetchCount alone, and what they do to    *)
(* the fetch thread is FetchLifecycle's subject.                           *)
(***************************************************************************)
EXTENDS Naturals

CONSTANTS
    Urls,        \* the pictures an answer may name
    NoUrl        \* no picture

ASSUME UrlsAssumption == NoUrl \notin Urls

VARIABLES
    frame,       \* where the window is in a frame; "closed": there is none
    texture,     \* the picture on the graphics card
    pending,     \* pendingSwitch: the mark `updating` is shown
    sawReset,    \* fetchCount was seen at 0 since the switch
    poll,        \* where the fetch thread is; "none": not joinable
    fetchCount,  \* polls since the restart; 2 stands for all larger numbers
    url,         \* avatarUrl
    bytes,       \* avatarBytes: the picture they are
    dirty,       \* avatarDirty
    restart,     \* where the thread of restartFetch is; "idle": not restarting
    fetch,       \* the flag of the fetch thread
    failed,      \* history: the download of url failed
    after,       \* history: the fetch thread was started after the switch
    answered,    \* history: ... and has ended a poll
    early        \* history: a first poll was under way at the switch

markVars    == <<pending, sawReset>>
avatarVars  == <<url, bytes, dirty, failed>>
restartVars == <<restart, fetch>>
history     == <<after, answered, early>>
vars == <<frame, texture, markVars, poll, fetchCount, avatarVars, restartVars,
          history>>

TypeOK ==
    /\ frame \in {"closed", "top", "load", "lower", "mark", "combo"}
    /\ texture \in Urls \cup {NoUrl}
    /\ url \in Urls \cup {NoUrl}
    /\ bytes \in Urls \cup {NoUrl}
    /\ pending \in BOOLEAN
    /\ sawReset \in BOOLEAN
    /\ dirty \in BOOLEAN
    /\ fetch \in BOOLEAN
    /\ failed \in BOOLEAN
    /\ after \in BOOLEAN
    /\ answered \in BOOLEAN
    /\ early \in BOOLEAN
    /\ poll \in {"none", "check", "ask", "download", "count", "done"}
    /\ fetchCount \in 0..2
    /\ restart \in {"idle", "stop", "join", "clear", "start", "release"}

\* main has started the fetch thread and not yet the window.
Init ==
    /\ frame = "closed"
    /\ poll = "check"
    /\ fetchCount = 0
    /\ restart = "idle"
    /\ texture = NoUrl
    /\ url = NoUrl
    /\ bytes = NoUrl
    /\ pending = FALSE
    /\ sawReset = FALSE
    /\ dirty = FALSE
    /\ fetch = TRUE
    /\ failed = FALSE
    /\ after = FALSE
    /\ answered = FALSE
    /\ early = FALSE

\* The fetch thread runs and has not seen its flag down.
Polling == poll \in {"check", "ask", "download", "count"}

-----------------------------------------------------------------------------
(* The fetch thread.                                                       *)

\* while (fetch)
Check ==
    /\ poll = "check"
    /\ poll' = IF fetch THEN "ask" ELSE "done"
    /\ UNCHANGED <<fetchCount, avatarVars, answered>>

\* The answer names a picture; it is stored before it is fetched.  A request
\* that fails ends the poll.
Ask ==
    /\ poll = "ask"
    /\ \/ \E u \in Urls :
            /\ url' = u
            /\ poll' = IF u # url THEN "download" ELSE "count"
            /\ failed' = (failed /\ u = url)
       \/ poll' = "count" /\ UNCHANGED <<url, failed>>
    /\ UNCHANGED <<fetchCount, bytes, dirty, answered>>

\* Mutant: avatarMutex is not taken.
MutDownload ==
    /\ poll = "download"
    /\ poll' = "count"
    /\ \/ /\ bytes' = url
          /\ dirty' = TRUE
          /\ UNCHANGED failed
       \/ failed' = TRUE /\ UNCHANGED <<bytes, dirty>>
    /\ UNCHANGED <<fetchCount, url, answered>>

\* The download of the picture, stored under avatarMutex (which the window
\* holds at "lower"), or given up.
Download ==
    /\ poll = "download"
    /\ poll' = "count"
    /\ \/ /\ frame # "lower"
          /\ bytes' = url
          /\ dirty' = TRUE
          /\ UNCHANGED failed
       \/ failed' = TRUE /\ UNCHANGED <<bytes, dirty>>
    /\ UNCHANGED <<fetchCount, url, answered>>

\* Mutant: the counter counts down.
MutCount ==
    /\ poll = "count"
    /\ poll' = "check"
    /\ fetchCount' = fetchCount - 1
    /\ answered' = (answered \/ after)
    /\ UNCHANGED avatarVars

\* fetchCount++
Count ==
    /\ poll = "count"
    /\ poll' = "check"
    /\ fetchCount' = IF fetchCount < 2 THEN fetchCount + 1 ELSE 2
    /\ answered' = (answered \/ after)
    /\ UNCHANGED avatarVars

Poll ==
    /\ Check \/ Ask \/ Download \/ Count
    /\ UNCHANGED <<frame, texture, markVars, restartVars, after, early>>

-----------------------------------------------------------------------------
(* The thread of restartFetch.                                             *)

Stop ==
    /\ restart = "stop"
    /\ restart' = "join"
    /\ fetch' = FALSE
    /\ UNCHANGED <<poll, fetchCount, url, after>>

Join ==
    /\ restart = "join"
    /\ poll = "done"
    /\ restart' = "clear"
    /\ poll' = "none"
    /\ UNCHANGED <<fetch, fetchCount, url, after>>

\* Config::user.avatarUrl = ""; fetchCount = 0
Clear ==
    /\ restart = "clear"
    /\ restart' = "start"
    /\ url' = NoUrl
    /\ fetchCount' = 0
    /\ UNCHANGED <<fetch, poll, after>>

\* fetch = true; fetchThread = std::thread(fetchApiData, true)
Start ==
    /\ restart = "start"
    /\ restart' = "release"
    /\ fetch' = TRUE
    /\ poll' = "check"
    /\ after' = TRUE
    /\ UNCHANGED <<fetchCount, url>>

Release ==
    /\ restart = "release"
    /\ restart' = "idle"
    /\ UNCHANGED <<fetch, poll, fetchCount, url, after>>

Restart ==
    /\ Stop \/ Join \/ Clear \/ Start \/ Release
    /\ UNCHANGED <<frame, texture, markVars, bytes, dirty, failed, answered,
                   early>>

-----------------------------------------------------------------------------
(* A frame of the window.                                                  *)

\* if (avatarDirty.load()): the old texture is deleted.
Top ==
    /\ frame = "top"
    /\ frame' = IF dirty THEN "load" ELSE "mark"
    /\ texture' = IF dirty THEN NoUrl ELSE texture
    /\ UNCHANGED <<markVars, dirty>>

\* avatarMutex is taken and the bytes are made a texture.
Load ==
    /\ frame = "load"
    /\ frame' = "lower"
    /\ texture' = bytes
    /\ UNCHANGED <<markVars, dirty>>

\* avatarDirty = false, and avatarMutex is released.
Lower ==
    /\ frame = "lower"
    /\ frame' = "mark"
    /\ dirty' = FALSE
    /\ UNCHANGED <<texture, markVars>>

\* Mutant: the mark waits for the first poll to be the last one.
MutMark ==
    /\ frame = "mark"
    /\ frame' = "combo"
    /\ LET saw == sawReset \/ fetchCount = 0
           end == saw /\ fetchCount = 1
       IN  /\ pending' = (pending /\ ~end)
           /\ sawReset' = IF pending THEN saw /\ ~end ELSE sawReset
    /\ UNCHANGED <<texture, dirty>>

\* if (pendingSwitch): fetchCount is read once.
Mark ==
    /\ frame = "mark"
    /\ frame' = "combo"
    /\ LET saw == sawReset \/ fetchCount = 0
           end == saw /\ fetchCount >= 1
       IN  /\ pending' = (pending /\ ~end)
           /\ sawReset' = IF pending THEN saw /\ ~end ELSE sawReset
    /\ UNCHANGED <<texture, dirty>>

\* Neither combo box changed, and the frame is drawn.
Draw ==
    /\ frame = "combo"
    /\ frame' = "top"
    /\ UNCHANGED <<texture, markVars, dirty>>

Frame ==
    /\ Top \/ Load \/ Lower \/ Mark \/ Draw
    /\ UNCHANGED <<poll, fetchCount, url, bytes, failed, restartVars, history>>

\* Mutant: sawReset is not lowered.
MutSwitch ==
    /\ frame = "combo"
    /\ frame' = "top"
    /\ restart' = IF restart = "idle" THEN "stop" ELSE restart
    /\ pending' = TRUE
    /\ after' = FALSE
    /\ answered' = FALSE
    /\ early' = (fetchCount = 0 /\ Polling)
    /\ UNCHANGED <<texture, sawReset, poll, fetchCount, avatarVars, fetch>>

\* A combo box changed: restartFetch(), which does nothing when a restart is
\* under way; the mark is raised in any case.
Switch ==
    /\ frame = "combo"
    /\ frame' = "top"
    /\ restart' = IF restart = "idle" THEN "stop" ELSE restart
    /\ pending' = TRUE
    /\ sawReset' = FALSE
    /\ after' = FALSE
    /\ answered' = FALSE
    /\ early' = (fetchCount = 0 /\ Polling)
    /\ UNCHANGED <<texture, poll, fetchCount, avatarVars, fetch>>

\* Mutant: bytes of an earlier window are not announced.
MutOpen ==
    /\ frame = "closed"
    /\ frame' = "top"
    /\ UNCHANGED <<texture, markVars, poll, fetchCount, avatarVars, restartVars,
                   history>>

\* The window opens: bytes that are there already are announced.  The static
\* variables of the mark are as the last window left them.
Open ==
    /\ frame = "closed"
    /\ frame' = "top"
    /\ dirty' = (dirty \/ bytes # NoUrl)
    /\ UNCHANGED <<texture, markVars, poll, fetchCount, url, bytes, failed,
                   restartVars, history>>

\* The loop over the frames ends and the texture is deleted.
Close ==
    /\ frame = "top"
    /\ frame' = "closed"
    /\ texture' = NoUrl
    /\ UNCHANGED <<markVars, poll, fetchCount, avatarVars, restartVars, history>>

-----------------------------------------------------------------------------
Next == Poll \/ Restart \/ Frame \/ Switch \/ Open \/ Close

\* The threads run; nobody has to switch, open or close.
Fairness == WF_vars(Poll) /\ WF_vars(Restart) /\ WF_vars(Frame)

Spec == Init /\ [][Next]_vars /\ Fairness

-----------------------------------------------------------------------------
(* Properties.                                                             *)

\* No new picture is lost between the two threads: outside of an upload, a
\* window that has nothing announced shows the bytes there are.
TextureFresh ==
    frame \in {"top", "mark", "combo"} /\ ~dirty => texture = bytes

\* The mark of a switch goes away only when a poll of a fetch thread started
\* after that switch has ended, be it the one the switch itself restarted or
\* one that was being restarted already; unless the very first poll was still
\* under way at the switch, whose end the mark takes for the new one's.
MarkTruthful == [][pending /\ ~pending' => answered \/ early]_vars

\* The first poll of the restart ended before a frame had seen fetchCount = 0,
\* or no restart came of the switch: the mark stays until the next one.
Missed == restart = "idle" /\ fetchCount >= 1 /\ ~sawReset

\* Once the restart is over the mark goes away, unless the window missed it,
\* is closed or switches again.
MarkEnds ==
    pending /\ restart = "idle" ~>
        ~pending \/ Missed \/ frame = "closed" \/ restart = "stop"

\* The picture last named is shown in the end, whatever switches, restarts and
\* reopened windows come between, unless its download failed.
PictureShown ==
    \A u \in Urls : url = u ~> (texture = u \/ url # u \/ failed \/ frame = "closed")
=============================================================================
