---------------------------- MODULE FetchService ----------------------------
(***************************************************************************)
(* What the fetch thread promises to the rest of osu-tracker, whoever      *)
(* starts and stops it: one thread at a time; a session begun by the first *)
(* poll after a start, for what is selected then; a baseline that a later  *)
(* poll replaces only to recover from a failure, and that is emptied only  *)
(* while nothing polls; and a stop that is followed by a start or by the   *)
(* end of the process.  FetchLifecycle implements it as long as its        *)
(* operations do not meet; "void" is a service that promises nothing more. *)
(***************************************************************************)
CONSTANTS
    Selections,         \* what a session is about
    NoSelection,        \* the session has not polled yet
    Failed              \* it has no baseline, or a part of one

VARIABLES
    service,     \* "stopped", "first", "polling", "ended" or "void"
    session,     \* the selection the baseline was fetched for
    selected,    \* the selection in force
    failed       \* a failure that a later poll may recover from

vars == <<service, session, selected, failed>>

Init ==
    /\ service = "stopped"
    /\ session = NoSelection
    /\ selected \in Selections
    /\ failed = FALSE

\* A fetch thread starts, and a session, only after the last one has ended.
Start ==
    /\ service = "stopped"
    /\ service' = "first"
    /\ session' = NoSelection
    /\ UNCHANGED <<selected, failed>>

\* The first poll makes what is selected the session's subject, or fails.
FirstPoll ==
    /\ service = "first"
    /\ service' = "polling"
    /\ \/ session' = selected /\ UNCHANGED failed
       \/ session' = Failed /\ failed' \in {failed, TRUE}
    /\ UNCHANGED selected

\* A later poll leaves the baseline alone, unless it ends a failure.
LaterPoll ==
    /\ service = "polling"
    /\ failed' \in BOOLEAN
    /\ \/ UNCHANGED session
       \/ failed /\ ~failed' /\ session' \in {selected, Failed}
    /\ UNCHANGED <<service, selected>>

Stop ==
    /\ service \in {"first", "polling"}
    /\ service' = "stopped"
    /\ UNCHANGED <<session, selected, failed>>

\* The baseline is emptied while no thread polls.
Clear ==
    /\ service = "stopped"
    /\ session' = NoSelection
    /\ UNCHANGED <<service, selected, failed>>

Select ==
    /\ selected' \in Selections
    /\ UNCHANGED <<service, session, failed>>

End ==
    /\ service = "stopped"
    /\ service' = "ended"
    /\ UNCHANGED <<session, selected, failed>>

\* Two operations met: from here on nothing is promised.
Meet ==
    /\ service' = "void"
    /\ session' = NoSelection
    /\ selected' \in Selections
    /\ failed' = FALSE

Next ==
    Start \/ FirstPoll \/ LaterPoll \/ Stop \/ Clear \/ Select \/ End \/ Meet

\* A thread that was started polls or is stopped, and a stop is never the
\* last thing that happens to a process that goes on.
Fairness ==
    /\ WF_vars(service = "first" /\ (FirstPoll \/ Stop))
    /\ WF_vars(Start \/ End)

Safety == Init /\ [][Next]_vars

Spec == Safety /\ Fairness
=============================================================================
