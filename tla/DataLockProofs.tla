--------------------------- MODULE DataLockProofs ---------------------------
(***************************************************************************)
(* Proofs about DataLock, for any set of API threads.                      *)
(*                                                                         *)
(* FormattedNeverTorn rests on the lock alone: whoever touches             *)
(* arrFormatted holds it, whoever writes it holds it for itself (Locked).  *)
(* ClearIsAlone rests on join() instead: the API threads take no lock, and *)
(* a restart that meets no other one clears while there is no fetch thread *)
(* (Ordered).                                                              *)
(***************************************************************************)
EXTENDS DataLock, TLAPS

\* An access of arrFormatted holds the lock, for itself when it writes.
Proper(a) ==
    /\ "fmt" \in a.writes => a.lock = "unique"
    /\ "fmt" \in a.reads  => a.lock # "none"

\* Two threads are in the lock only to read.
Exclusive ==
    \A t, u \in Threads :
        t # u /\ pc[t] = "in" /\ pc[u] = "in" /\ acc[t].lock = "unique"
            => acc[u].lock = "none"

Locked ==
    /\ pc \in [Threads -> {"idle", "want", "in"}]
    /\ acc \in [Threads -> Access]
    /\ \A t \in Threads : Proper(acc[t])
    /\ Exclusive

\* What the program counters, the fetch thread and the restarts say of each
\* other.
Ordered ==
    /\ \A t \in ApiThreads : pc[t] # "idle" => loop = "poll" /\ t \notin polled
    /\ pc["fetch"] # "idle" => loop = "publish"
    /\ pc["restart"] # "idle" => at["restart"] = "clear"
    /\ ~overlapped =>
          \A o \in Restarters :
              /\ at[o] # "idle" => \A q \in Restarters \ {o} : at[q] = "idle"
              /\ at[o] \in {"clear", "start"} => loop = "none"

Inductive == TypeOK /\ Locked /\ Ordered

\* Every access of the program is proper.
Accesses == {SetFields, Publish, ClearStats, NoAccess} \cup WorkerAccesses
                \cup WindowAccesses

LEMMA AccessesProper ==
    ASSUME NEW a \in Accesses
    PROVE  a \in Access /\ Proper(a)
BY DEF Accesses, Access, Proper, SetFields, Publish, ClearStats, NoAccess,
       WorkerAccesses, WindowAccesses, OverlayData, SaveDisplay, WriteConfig,
       RenderPage, ResetDefaults, DrawStats, DrawDebug

-----------------------------------------------------------------------------
(* The lock.                                                               *)

LEMMA BeginLocked ==
    ASSUME Locked, NEW t \in Threads, NEW a \in Accesses, Begin(t, a)
    PROVE  Locked'
BY AccessesProper DEF Locked, Exclusive, Begin

\* Who enters has found the lock free of the others it excludes.
LEMMA EnterLocked ==
    ASSUME Locked, NEW t \in Threads, Enter(t)
    PROVE  Locked'
<1> USE DEF Locked, Enter
<1>1. pc' \in [Threads -> {"idle", "want", "in"}] /\ UNCHANGED acc
  OBVIOUS
<1>2. ASSUME NEW u \in Threads \ {t}, pc[u] = "in"
      PROVE  /\ acc[t].lock = "unique" => acc[u].lock = "none"
             /\ acc[u].lock = "unique" => acc[t].lock = "none"
  <2>1. acc[u].lock \in Held(t)
    BY <1>2 DEF Held
  <2>2. acc[t].lock \in {"none", "shared", "unique"}
    BY DEF Access
  <2>3. QED
    BY <2>1, <2>2 DEF MayEnter
<1>3. Exclusive'
  BY <1>1, <1>2 DEF Exclusive
<1>4. QED
  BY <1>1, <1>3

LEMMA FinishLocked ==
    ASSUME Locked, NEW t \in Threads, Finish(t)
    PROVE  Locked'
BY AccessesProper DEF Locked, Exclusive, Finish, Accesses

LEMMA LockedStep ==
    ASSUME Locked, [Next]_vars
    PROVE  Locked'
<1>1. ASSUME NEW t \in Threads, Enter(t) \/ End(t) PROVE Locked'
  BY <1>1, EnterLocked, FinishLocked DEF End
<1>2. ASSUME NEW t \in ApiThreads, ApiBegin(t) \/ ApiEnd(t) PROVE Locked'
  <2>1. t \in Threads /\ SetFields \in Accesses
    BY DEF Threads, Accesses
  <2>2. QED
    BY <1>2, <2>1, BeginLocked, FinishLocked DEF ApiBegin, ApiEnd
<1>3. CASE PublishBegin \/ PublishEnd
  <2>1. "fetch" \in Threads /\ Publish \in Accesses
    BY DEF Threads, Accesses
  <2>2. QED
    BY <1>3, <2>1, BeginLocked, FinishLocked DEF PublishBegin, PublishEnd
<1>4. CASE ClearBegin \/ ClearEnd
  <2>1. "restart" \in Threads /\ ClearStats \in Accesses
    BY DEF Threads, Accesses
  <2>2. QED
    BY <1>4, <2>1, BeginLocked, FinishLocked DEF ClearBegin, ClearEnd
<1>5. ASSUME NEW t \in {"worker", "window"}, NEW a \in WorkerAccesses \cup WindowAccesses,
             UserBegin(t, a)
      PROVE  Locked'
  <2>1. t \in Threads /\ a \in Accesses
    BY DEF Threads, Accesses
  <2>2. QED
    BY <1>5, <2>1, BeginLocked DEF UserBegin
<1>6. CASE UNCHANGED <<pc, acc>>
  BY <1>6 DEF Locked, Exclusive
<1>7. UNCHANGED vars => UNCHANGED <<pc, acc>>
  BY DEF vars
<1>8. ASSUME NEW t \in ApiThreads, ApiFails(t) PROVE UNCHANGED <<pc, acc>>
  BY <1>8 DEF ApiFails
<1>9. ASSUME NEW o \in Restarters, Stop(o) \/ Joined(o) \/ Start(o)
      PROVE  UNCHANGED <<pc, acc>>
  BY <1>9 DEF Stop, Joined, Start
<1>10. Check => UNCHANGED <<pc, acc>>
  BY DEF Check
<1>11. QED
  BY <1>1, <1>2, <1>3, <1>4, <1>5, <1>6, <1>7, <1>8, <1>9, <1>10 DEF Next

-----------------------------------------------------------------------------
(* Types and order.                                                        *)

LEMMA InductiveInit == Init => Inductive
<1> SUFFICES ASSUME Init PROVE Inductive
  OBVIOUS
<1>1. NoAccess \in Access /\ Proper(NoAccess)
  BY AccessesProper DEF Accesses
<1>2. TypeOK
  BY <1>1 DEF Init, TypeOK
<1>3. Locked
  BY <1>1, <1>2 DEF Init, TypeOK, Locked, Exclusive
<1>4. Ordered
  BY DEF Init, Ordered, Threads, Restarters
<1>5. QED
  BY <1>2, <1>3, <1>4 DEF Inductive

LEMMA TypeStep ==
    ASSUME TypeOK, Locked', [Next]_vars
    PROVE  TypeOK'
<1> SUFFICES /\ fetch' \in BOOLEAN
             /\ loop' \in {"check", "poll", "publish", "ended", "none"}
             /\ polled' \subseteq ApiThreads
             /\ at' \in [Restarters -> {"idle", "join", "clear", "start"}]
             /\ overlapped' \in BOOLEAN
  BY DEF TypeOK, Locked
<1> USE DEF TypeOK, threadVars
<1>1. CASE UNCHANGED threadVars
  BY <1>1
<1>2. CASE Check
  BY <1>2 DEF Check
<1>3. ASSUME NEW t \in ApiThreads, ApiEnd(t) \/ ApiFails(t)
      PROVE  polled' \subseteq ApiThreads /\ UNCHANGED <<fetch, loop, at, overlapped>>
  BY <1>3 DEF ApiEnd, ApiFails
<1>4. CASE PublishBegin \/ PublishEnd
  BY <1>4 DEF PublishBegin, PublishEnd
<1>5. ASSUME NEW o \in Restarters, Stop(o)
      PROVE  /\ UNCHANGED <<loop, polled>>
             /\ fetch' \in BOOLEAN /\ overlapped' \in BOOLEAN
             /\ at' \in [Restarters -> {"idle", "join", "clear", "start"}]
  BY <1>5 DEF Stop
<1>6. ASSUME NEW o \in Restarters, Joined(o) \/ Start(o)
      PROVE  /\ loop' \in {"check", "none"} /\ fetch' \in BOOLEAN
             /\ UNCHANGED <<polled, overlapped>>
             /\ at' \in [Restarters -> {"idle", "join", "clear", "start"}]
  BY <1>6 DEF Joined, Start
<1>7. CASE ClearEnd
  BY <1>7 DEF ClearEnd
<1>8. UNCHANGED vars => UNCHANGED threadVars
  BY DEF vars
<1>9. ASSUME NEW t, Enter(t) \/ End(t) \/ ApiBegin(t) PROVE UNCHANGED threadVars
  BY <1>9 DEF Enter, End, ApiBegin
<1>10. ASSUME NEW t, NEW a, UserBegin(t, a) PROVE UNCHANGED threadVars
  BY <1>10 DEF UserBegin
<1>11. ClearBegin => UNCHANGED threadVars
  BY DEF ClearBegin
<1>12. QED
  BY <1>1, <1>2, <1>3, <1>4, <1>5, <1>6, <1>7, <1>8, <1>9, <1>10, <1>11 DEF Next

\* A thread other than those of the order moves: its facts stay.
LEMMA OrderedUser ==
    ASSUME TypeOK, Ordered, NEW t \in {"worker", "window"},
           UNCHANGED threadVars,
           \A u \in Threads \ {t} : pc'[u] = pc[u]
    PROVE  Ordered'
<1>1. \A u \in ApiThreads \cup {"fetch", "restart"} : pc'[u] = pc[u]
  BY ApiThreadsAssumption DEF Threads
<1>2. QED
  BY <1>1 DEF Ordered, threadVars

LEMMA OrderedStep ==
    ASSUME TypeOK, Ordered, [Next]_vars
    PROVE  Ordered'
<1> USE ApiThreadsAssumption DEF TypeOK, Threads, threadVars
<1>1. ASSUME NEW t \in Threads, Enter(t) PROVE Ordered'
  <2>1. \A u \in Threads : pc'[u] # "idle" => pc[u] # "idle"
    BY <1>1 DEF Enter
  <2>2. QED
    BY <1>1, <2>1 DEF Ordered, Enter
<1>2. ASSUME NEW t \in Threads, End(t) PROVE Ordered'
  BY <1>2, OrderedUser DEF End, Finish
<1>3. CASE Check
  <2>1. \A t \in ApiThreads : pc[t] = "idle"
    BY <1>3 DEF Check, Ordered
  <2>2. QED
    BY <1>3, <2>1 DEF Check, Ordered
<1>4. ASSUME NEW t \in ApiThreads, ApiBegin(t) PROVE Ordered'
  <2>1. \A u \in Threads \ {t} : pc'[u] = pc[u]
    BY <1>4 DEF ApiBegin, Begin
  <2>2. QED
    BY <1>4, <2>1 DEF ApiBegin, Ordered
<1>5. ASSUME NEW t \in ApiThreads, ApiEnd(t) PROVE Ordered'
  <2>1. pc'[t] = "idle" /\ \A u \in Threads \ {t} : pc'[u] = pc[u]
    BY <1>5 DEF ApiEnd, Finish
  <2>2. QED
    BY <1>5, <2>1 DEF ApiEnd, Ordered
<1>6. ASSUME NEW t \in ApiThreads, ApiFails(t) PROVE Ordered'
  BY <1>6 DEF ApiFails, Ordered
<1>7. CASE PublishBegin
  <2>1. \A u \in Threads \ {"fetch"} : pc'[u] = pc[u]
    BY <1>7 DEF PublishBegin, Begin
  <2>2. \A t \in ApiThreads : pc[t] = "idle"
    BY <1>7 DEF PublishBegin, Ordered
  <2>3. QED
    BY <1>7, <2>1, <2>2 DEF PublishBegin, Ordered
<1>8. CASE PublishEnd
  <2>1. pc'["fetch"] = "idle" /\ \A u \in Threads \ {"fetch"} : pc'[u] = pc[u]
    BY <1>8 DEF PublishEnd, Finish
  <2>2. loop = "publish"
    BY <1>8 DEF PublishEnd, Finish, Ordered
  <2>3. \A t \in ApiThreads : pc[t] = "idle"
    BY <2>2 DEF Ordered
  <2>4. QED
    BY <1>8, <2>1, <2>2, <2>3 DEF PublishEnd, Ordered
<1>9. ASSUME NEW o \in Restarters, Stop(o) PROVE Ordered'
  <2>1. ~overlapped' => ~overlapped /\ \A q \in Restarters : at[q] = "idle"
    BY <1>9, Zenon DEF Stop
  <2>2. at' = [at EXCEPT ![o] = "join"] /\ at[o] = "idle" /\ UNCHANGED <<pc, loop, polled>>
    BY <1>9 DEF Stop
  <2>3. ~overlapped' =>
           \A q \in Restarters :
               /\ at'[q] # "idle" => \A r \in Restarters \ {q} : at'[r] = "idle"
               /\ at'[q] \in {"clear", "start"} => loop' = "none"
    BY <2>1, <2>2
  <2>4. QED
    BY <2>2, <2>3 DEF Ordered
<1>10. ASSUME NEW o \in Restarters, Joined(o) PROVE Ordered'
  BY <1>10 DEF Joined, Ordered
<1>11. ASSUME NEW o \in Restarters, Start(o) PROVE Ordered'
  BY <1>11 DEF Start, Ordered
<1>12. CASE ClearBegin
  <2>1. \A u \in Threads \ {"restart"} : pc'[u] = pc[u]
    BY <1>12 DEF ClearBegin, Begin
  <2>2. QED
    BY <1>12, <2>1 DEF ClearBegin, Ordered
<1>13. CASE ClearEnd
  <2>1. pc'["restart"] = "idle" /\ \A u \in Threads \ {"restart"} : pc'[u] = pc[u]
    BY <1>13 DEF ClearEnd, Finish
  <2>2. at["restart"] = "clear"
    BY <1>13 DEF ClearEnd, Finish, Ordered
  <2>3. QED
    BY <1>13, <2>1, <2>2 DEF ClearEnd, Ordered, Restarters
<1>14. ASSUME NEW t \in {"worker", "window"}, NEW a, UserBegin(t, a) PROVE Ordered'
  BY <1>14, OrderedUser DEF UserBegin, Begin
<1>15. CASE UNCHANGED vars
  BY <1>15 DEF vars, Ordered
<1>16. QED
  BY <1>1, <1>2, <1>3, <1>4, <1>5, <1>6, <1>7, <1>8, <1>9, <1>10, <1>11,
     <1>12, <1>13, <1>14, <1>15 DEF Next

-----------------------------------------------------------------------------
(* The theorems.                                                           *)

LEMMA InductiveStep == Inductive /\ [Next]_vars => Inductive'
BY LockedStep, TypeStep, OrderedStep DEF Inductive

LEMMA InductiveHolds == Spec => []Inductive
BY InductiveInit, InductiveStep, PTL DEF Spec

LEMMA InductiveSafe ==
    ASSUME Inductive
    PROVE  FormattedNeverTorn /\ ClearIsAlone
<1>1. FormattedNeverTorn
  <2> SUFFICES ASSUME NEW t \in Threads, NEW u \in Threads, Conflict(t, u, "fmt")
               PROVE  FALSE
    BY DEF FormattedNeverTorn
  <2>1. acc[t].lock = "unique" /\ acc[u].lock # "none"
    <3>1. Proper(acc[t]) /\ Proper(acc[u])
      BY DEF Inductive, Locked
    <3>2. QED
      BY <3>1 DEF Proper, Conflict, Touches
  <2>2. QED
    BY <2>1 DEF Inductive, Locked, Exclusive, Conflict
<1>2. ClearIsAlone
  BY DEF ClearIsAlone, Inductive, TypeOK, Ordered, Threads, Restarters
<1>3. QED
  BY <1>1, <1>2

\* The types of the model, for any number of API threads.
THEOREM DataLockTypes == Spec => []TypeOK
BY InductiveHolds, PTL DEF Inductive

\* No thread reads or writes arrFormatted while another one writes it, for any
\* number of API threads: every access of it in the program takes dataMutex in
\* the mode it needs.
THEOREM FormattedSafety == Spec => []FormattedNeverTorn
BY InductiveHolds, InductiveSafe, PTL

\* A restartFetch that meets no reset of the web page clears arr while neither
\* the fetch thread nor any API thread is at it, though those take no lock:
\* join() comes before the clear.
THEOREM ClearSafety == Spec => []ClearIsAlone
BY InductiveHolds, InductiveSafe, PTL

=============================================================================
