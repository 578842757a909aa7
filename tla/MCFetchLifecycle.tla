-------------------------- MODULE MCFetchLifecycle --------------------------
(* Instance of FetchLifecycle for TLC: the sets are given in the .cfg.     *)
EXTENDS FetchLifecycle

\* Where two operations have met no property but CrashNeedsOverlap and
\* SwitchesExclusive asks for anything, and `overlapped` stays TRUE.  What the
\* meeting does to the fetch thread is followed to its end, with one selection,
\* polls that answer, an idle worker and a window that is open or closed.
MeetingsInShort ==
    overlapped =>
        /\ selected = DefaultSelection
        /\ session \in {NoSelection, DefaultSelection}
        /\ ~initFailed /\ ~missed
        /\ worker = "idle"
        /\ ui \in {"open", "closed"}
=============================================================================
