------------------------ MODULE FetchLifecycleProofs ------------------------
(***************************************************************************)
(* Proofs about FetchLifecycle, for any number of threads and selections.  *)
(*                                                                         *)
(* CrashNeedsOverlap and QuiescentPolling are not inductive: that a join   *)
(* finds the handle it expects depends on every earlier step of every      *)
(* thread.  Inductive adds who may be at work (Solo), what the handle is   *)
(* at each phase of that thread (Handle), what the flag `restarting`       *)
(* stands for (Guarded, Roles), and that messages and switches arrive only *)
(* while main serves (Served).                                             *)
(***************************************************************************)
EXTENDS FetchLifecycle, Naturals, TLAPS

\* Without overlap one thread at most operates on the fetch thread.
Solo ==
    ~overlapped =>
        \A p, q \in Ops : phase[p] \in InFlight /\ phase[q] \in InFlight => p = q

\* Without overlap the thread at work finds the handle as its code expects.
Handle ==
    ~overlapped =>
        \A p \in Ops :
            /\ phase[p] \in StopPhases  => loop # "none"
            /\ phase[p] \in StartPhases => loop = "none"
            /\ phase[p] = "spawn"       => fetch

\* A switch of the window that is not over holds the guard of restartFetch.
Guarded == \A s \in Switchers : phase[s] # "idle" => restarting

\* Only restartFetch lowers the guard.
Roles == \A p \in Ops : phase[p] = "release" => p \in Switchers

\* The web page and the window are there between main's start and its stop.
Served ==
    /\ webUp \/ worker # "idle" => phase[Main] = "serve"
    /\ ui # "closed" => phase[Main] \in {"serve", "stopUi", "joinUi"}

\* Without overlap the flag stays down until the thread that lowered it has
\* joined the loop.
Lowered ==
    ~overlapped => \A p \in Ops : phase[p] \in {"join", "call", "wait"} => ~fetch

Inductive ==
    /\ TypeOK
    /\ CrashNeedsOverlap
    /\ SwitchesExclusive
    /\ QuiescentPolling
    /\ Solo
    /\ Handle
    /\ Guarded
    /\ Roles
    /\ Served
-----------------------------------------------------------------------------
(* Where a thread goes after join() and after the start of the loop.       *)

LEMMA AfterJoinPhase ==
    ASSUME NEW p \in Ops
    PROVE  AfterJoin(p) \in {"clear", "read", "arm", "exit"}
BY DEF AfterJoin

LEMMA AfterSpawnPhase ==
    ASSUME NEW p \in Ops
    PROVE  /\ AfterSpawn(p) \in {"release", "startUi", "idle"}
           /\ AfterSpawn(p) = "release" => p \in Switchers
BY DEF AfterSpawn

-----------------------------------------------------------------------------
(* Types.                                                                  *)

LEMMA TypeInit == Init => TypeOK
BY SelectionsAssumption DEF Init, TypeOK, LoopStates, Phases, InFlight,
   StopPhases, StartPhases, ServePhases, UiStates

LEMMA PhasesListed ==
    Phases = {"stop", "join", "call", "wait", "clear", "read", "arm", "spawn",
              "exit", "startUi", "serve", "stopUi", "joinUi", "idle", "release"}
BY DEF Phases, InFlight, StopPhases, StartPhases, ServePhases

\* A thread that goes to a phase leaves the others where they are.
LEMMA GotoType ==
    ASSUME TypeOK, NEW p \in Ops, NEW ph \in Phases, Goto(p, ph)
    PROVE  phase' \in [Ops -> Phases]
BY DEF TypeOK, Goto

LEMMA TypeStep == TypeOK /\ [Next]_vars => TypeOK'
<1> SUFFICES ASSUME TypeOK, [Next]_vars PROVE TypeOK'
  OBVIOUS
<1> USE DEF TypeOK, LoopStates, UiStates, webVars, history, threadVars, poll,
            save, Begin
<1> USE PhasesListed, GotoType
<1>1. CASE Loop
  <2>1. loop' \in LoopStates /\ fetch' \in BOOLEAN /\ loopInit' \in BOOLEAN
    BY <1>1 DEF Loop, LoopCheck, LoopFetch, LoopPublish, LoopWake
  <2>2. session' \in Selections \cup {NoSelection, Failed}
        /\ initFailed' \in BOOLEAN
    <3>1. CASE LoopFetch
      BY <3>1 DEF LoopFetch, BanchoLoginFails, BanchoAnswers, TitanicFails,
         TitanicAnswers, TitanicRecovers
    <3>2. QED
      BY <1>1, <3>1 DEF Loop, LoopCheck, LoopPublish, LoopWake
  <2>3. QED
    BY <1>1, <2>1, <2>2 DEF Loop
<1>2. ASSUME NEW p \in Ops, OpStep(p) PROVE TypeOK'
  <2>1. UNCHANGED <<webUp, goingDown, worker, saveTo, saveReset, ui, selected,
                    overlapped>>
    BY <1>2 DEF OpStep
  <2>2. restarting' \in BOOLEAN /\ missed' \in BOOLEAN
    BY <1>2 DEF OpStep, Release, Spawn
  <2>3. CASE Stop(p)
    <3>1. phase' \in [Ops -> Phases]
      BY <2>3 DEF Stop
    <3>2. /\ fetch' \in BOOLEAN
          /\ UNCHANGED <<loop, loopInit, session, initFailed, status>>
      BY <2>3 DEF Stop
    <3>3. QED
      BY <2>1, <2>2, <3>1, <3>2
  <2>4. CASE JoinCheck(p)
    BY <2>1, <2>2, <2>4, AfterJoinPhase DEF JoinCheck
  <2>5. CASE JoinCall(p)
    BY <2>1, <2>2, <2>5 DEF JoinCall
  <2>6. CASE JoinReturn(p)
    BY <2>1, <2>2, <2>6, AfterJoinPhase DEF JoinReturn
  <2>7. CASE Clear(p)
    BY <2>1, <2>2, <2>7 DEF Clear
  <2>8. CASE Arm(p)
    BY <2>1, <2>2, <2>8 DEF Arm
  <2>9. CASE Spawn(p)
    <3>1. AfterSpawn(p) \in Phases
      BY AfterSpawnPhase
    <3>2. CASE loop = "none"
      BY <2>1, <2>2, <2>9, <3>1, <3>2 DEF Spawn
    <3>3. CASE loop # "none"
      BY <2>1, <2>2, <2>9, <3>3 DEF Spawn
    <3>4. QED
      BY <3>2, <3>3
  <2>10. CASE Release(p)
    BY <2>1, <2>2, <2>10 DEF Release
  <2>11. CASE p = Main /\ Exit
    BY <2>1, <2>2, <2>11 DEF Exit
  <2>12. QED
    BY <1>2, <2>3, <2>4, <2>5, <2>6, <2>7, <2>8, <2>9, <2>10, <2>11 DEF OpStep
<1>3. CASE MainStep
  <2>1. CASE Read
    BY <1>3, <2>1 DEF MainStep, Read, Ops
  <2>2. CASE StartUi
    BY <1>3, <2>2 DEF MainStep, StartUi, Ops
  <2>3. CASE ServeReturn
    BY <1>3, <2>3 DEF MainStep, ServeReturn, Ops
  <2>4. CASE StopUi
    BY <1>3, <2>4 DEF MainStep, StopUi, RequestClose, Ops
  <2>5. CASE JoinUi
    BY <1>3, <2>5 DEF MainStep, JoinUi, Ops
  <2>6. QED
    BY <1>3, <2>1, <2>2, <2>3, <2>4, <2>5 DEF MainStep
<1>4. CASE Message
  <2>1. UNCHANGED <<fetch, loop, loopInit, session, initFailed, restarting, status>>
    BY <1>4 DEF Message
  <2>2. Resetters \subseteq Ops
    BY DEF Ops
  <2>3. ASSUME NEW r \in Resetters, ResetSession(r) PROVE TypeOK'
    BY <2>1, <2>2, <2>3 DEF ResetSession
  <2>4. ASSUME NEW sel \in Selections, SaveCompare(sel) PROVE TypeOK'
    <3>1. UNCHANGED <<phase, webUp, goingDown, ui, selected, missed, overlapped>>
      BY <2>4 DEF SaveCompare
    <3>2. worker' = "compared" /\ saveTo' \in Selections
      BY <2>4 DEF SaveCompare
    <3>3. saveReset' \in BOOLEAN
      BY <2>4 DEF SaveCompare
    <3>4. QED
      BY <2>1, <3>1, <3>2, <3>3
  <2>5. ASSUME NEW restart \in BOOLEAN, Shutdown(restart) PROVE TypeOK'
    <3>1. goingDown' \in BOOLEAN /\ webUp' \in BOOLEAN
      BY <2>5 DEF Shutdown
    <3>2. UNCHANGED <<phase, worker, saveTo, saveReset, ui, selected, missed,
                      overlapped>>
      BY <2>5 DEF Shutdown
    <3>3. QED
      BY <2>1, <3>1, <3>2
  <2>6. CASE ResetSettings
    <3>1. /\ goingDown' \in BOOLEAN /\ webUp' \in BOOLEAN
          /\ selected' \in Selections
          /\ UNCHANGED <<phase, worker, saveTo, saveReset, ui, missed, overlapped>>
      BY <2>6, SelectionsAssumption DEF ResetSettings
    <3>2. QED
      BY <2>1, <3>1
  <2>7. CASE OpenUi
    <3>1. ui' \in UiStates
      BY <2>7 DEF OpenUi, RequestClose
    <3>2. worker' = "openUi" /\ UNCHANGED <<phase, webUp, goingDown, saveTo,
                                 saveReset, selected, missed, overlapped>>
      BY <2>7 DEF OpenUi
    <3>3. QED
      BY <2>1, <3>1, <3>2
  <2>8. QED
    BY <1>4, <2>3, <2>4, <2>5, <2>6, <2>7 DEF Message
<1>5. CASE Worker
  <2>1. UNCHANGED <<fetch, loop, loopInit, session, initFailed, restarting, webUp,
                    goingDown, status>>
    BY <1>5 DEF Worker
  <2>2. CASE SaveSet
    <3>1. missed' \in BOOLEAN
      BY <2>2 DEF SaveSet
    <3>2. /\ worker' = "applied" /\ selected' \in Selections
          /\ UNCHANGED <<phase, saveTo, saveReset, ui, overlapped>>
      BY <2>2 DEF SaveSet
    <3>3. QED
      BY <2>1, <3>1, <3>2
  <2>3. ASSUME Handled
        PROVE  /\ worker' \in {"idle", "compared", "applied", "openUi"}
               /\ saveTo' \in Selections
               /\ saveReset' \in BOOLEAN
    BY <2>3, SelectionsAssumption DEF Handled
  <2>4. CASE SaveThrows
    <3>1. missed' \in BOOLEAN
      BY <2>4 DEF SaveThrows
    <3>2. Handled /\ selected' \in Selections
          /\ UNCHANGED <<phase, ui, overlapped>>
      BY <2>4 DEF SaveThrows
    <3>3. QED
      BY <2>1, <2>3, <3>1, <3>2
  <2>5. CASE SaveEnd
    <3>1. Handled /\ UNCHANGED <<ui, selected, missed>>
      BY <2>5 DEF SaveEnd
    <3>2. phase' \in [Ops -> Phases] /\ overlapped' \in BOOLEAN
      <4>1. CASE saveReset
        <5>1. PICK r \in Resetters : Begin(r, "stop")
          BY <2>5, <4>1 DEF SaveEnd
        <5>2. r \in Ops
          BY DEF Ops
        <5>3. QED
          BY <5>1, <5>2
      <4>2. CASE ~saveReset
        BY <2>5, <4>2 DEF SaveEnd
      <4>3. QED
        BY <4>1, <4>2
    <3>3. QED
      BY <2>1, <2>3, <3>1, <3>2
  <2>6. CASE OpenUiEnd
    BY <2>1, <2>3, <2>6 DEF OpenUiEnd
  <2>7. QED
    BY <1>5, <2>2, <2>4, <2>5, <2>6 DEF Worker
<1>6. CASE Window
  <2>1. UNCHANGED <<fetch, loop, loopInit, session, initFailed, webUp, goingDown,
                    worker, saveTo, saveReset, status>>
    BY <1>6 DEF Window
  <2>2. ASSUME NEW s \in Switchers, NEW sel \in Selections, Switch(s, sel)
        PROVE  TypeOK'
    <3>1. s \in Ops /\ selected' \in Selections /\ ui' \in UiStates
      BY <2>2 DEF Switch, Ops
    <3>2. CASE restarting
      BY <2>1, <2>2, <3>1, <3>2 DEF Switch, RestartFetch
    <3>3. CASE ~restarting
      <4>1. phase' \in [Ops -> Phases]
        BY <2>2, <3>1, <3>3 DEF Switch, RestartFetch
      <4>2. restarting' \in BOOLEAN /\ missed' \in BOOLEAN
            /\ overlapped' \in BOOLEAN
        BY <2>2, <3>3 DEF Switch, RestartFetch
      <4>3. QED
        BY <2>1, <3>1, <4>1, <4>2
    <3>4. QED
      BY <3>2, <3>3
  <2>3. CASE CloseUi \/ UiFails
    BY <2>1, <2>3 DEF CloseUi, UiFails
  <2>4. QED
    BY <1>6, <2>2, <2>3 DEF Window
<1>7. CASE WindowThread
  BY <1>7 DEF WindowThread
<1>8. CASE Gone
  BY <1>8 DEF Gone, vars
<1>9. CASE UNCHANGED vars
  BY <1>9 DEF vars
<1>10. QED
  BY <1>1, <1>2, <1>3, <1>4, <1>5, <1>6, <1>7, <1>8, <1>9 DEF Next

\* Every variable keeps its range, whatever the threads, the page and the
\* window do: no thread leaves the phases of its function.
THEOREM TypeCorrect == Spec => []TypeOK
BY TypeInit, TypeStep, PTL DEF Spec

-----------------------------------------------------------------------------
(* The inductive invariant.                                                *)

LEMMA InductiveInit == Init => Inductive
<1> SUFFICES ASSUME Init PROVE Inductive
  OBVIOUS
<1>1. TypeOK
  BY TypeInit
<1>2. QED
  BY <1>1, ThreadsAssumption
  DEF Init, Inductive, CrashNeedsOverlap, SwitchesExclusive, QuiescentPolling,
      Quiet, Solo, Handle, Guarded, Roles, Served, Ops, InFlight, StopPhases,
      StartPhases, ServePhases

\* The loop ends only after a thread lowered `fetch` and before it joins.
LEMMA LoopInductive == Inductive /\ TypeOK' /\ Loop => Inductive'
BY DEF Inductive, CrashNeedsOverlap, SwitchesExclusive, QuiescentPolling, Quiet,
       Solo, Handle, Guarded, Roles, Served, Loop, LoopCheck, LoopFetch,
       LoopPublish, LoopWake, webVars, save, history

\* A thread moves from one phase of its operation to the next.
LEMMA OpInductive ==
    ASSUME Inductive, TypeOK', NEW p \in Ops, OpStep(p)
    PROVE  Inductive'
<1> USE DEF Inductive, TypeOK, CrashNeedsOverlap, SwitchesExclusive,
            QuiescentPolling, Quiet, Solo, Handle, Guarded, Roles, Served,
            InFlight, StopPhases, StartPhases, ServePhases, Goto, threadVars
<1>1. UNCHANGED <<webUp, worker, ui, overlapped>>
  BY DEF OpStep, webVars, save
<1>2. status = "up"
  BY DEF OpStep
<1>3. Main \in Ops /\ Switchers \subseteq Ops /\ Main \notin Switchers
  BY ThreadsAssumption DEF Ops
<1>4. CASE Stop(p) /\ UNCHANGED restarting
  BY <1>1, <1>2, <1>3, <1>4 DEF Stop
<1>5. CASE JoinCheck(p) /\ UNCHANGED restarting
  BY <1>1, <1>2, <1>3, <1>5, AfterJoinPhase DEF JoinCheck
<1>6. CASE JoinCall(p) /\ UNCHANGED restarting
  BY <1>1, <1>2, <1>3, <1>6 DEF JoinCall
<1>7. CASE JoinReturn(p) /\ UNCHANGED restarting
  BY <1>1, <1>2, <1>3, <1>7, AfterJoinPhase DEF JoinReturn
<1>8. CASE Clear(p) /\ UNCHANGED restarting
  BY <1>1, <1>2, <1>3, <1>8 DEF Clear
<1>9. CASE Arm(p) /\ UNCHANGED restarting
  BY <1>1, <1>2, <1>3, <1>9 DEF Arm
<1>10. CASE Spawn(p) /\ UNCHANGED restarting
  BY <1>1, <1>2, <1>3, <1>10, AfterSpawnPhase DEF Spawn
<1>11. CASE Release(p)
  BY <1>1, <1>2, <1>3, <1>11 DEF Release
<1>12. CASE p = Main /\ Exit /\ UNCHANGED restarting
  BY <1>1, <1>2, <1>3, <1>12 DEF Exit
<1>13. QED
  BY <1>4, <1>5, <1>6, <1>7, <1>8, <1>9, <1>10, <1>11, <1>12 DEF OpStep

\* An operation that begins while no other is under way is the only one.
LEMMA BeginSolo ==
    ASSUME TypeOK, NEW p \in Ops, Begin(p, "stop")
    PROVE  Solo'
<1> SUFFICES ASSUME ~overlapped',
                    NEW x \in Ops, phase'[x] \in InFlight,
                    NEW y \in Ops, phase'[y] \in InFlight
             PROVE  x = y
  BY DEF Solo
<1>1. \A q \in Ops : phase[q] \notin InFlight
  BY DEF Begin, Quiet
<1>2. \A q \in Ops \ {p} : phase'[q] = phase[q]
  BY DEF Begin, Goto, TypeOK
<1>3. QED
  BY <1>1, <1>2

\* An operation that begins while main serves, or is about to stop the fetch
\* thread itself, finds a running loop or overlaps another one.
LEMMA BeginInductive ==
    ASSUME Inductive, TypeOK', NEW p \in Ops, Begin(p, "stop"),
           UNCHANGED <<fetch, loop, status>>, status = "up",
           phase[Main] \in {"serve", "stopUi", "joinUi"},
           phase[p] = "idle" \/ p = Main,
           p \in Switchers => ~restarting /\ restarting',
           p \notin Switchers => UNCHANGED restarting,
           webUp' \/ worker' # "idle" => phase'[Main] = "serve",
           ui' # "closed" => phase'[Main] \in {"serve", "stopUi", "joinUi"}
    PROVE  Inductive'
<1> USE DEF Inductive, TypeOK, CrashNeedsOverlap, SwitchesExclusive,
            QuiescentPolling, Quiet, Handle, Guarded, Roles, Served,
            InFlight, StopPhases, StartPhases, ServePhases, Goto, Begin
<1>1. Main \in Ops /\ Switchers \subseteq Ops /\ Main \notin Switchers
  BY ThreadsAssumption DEF Ops
<1>2. CrashNeedsOverlap' /\ Guarded' /\ Roles' /\ Served'
  BY <1>1
<1>3. SwitchesExclusive'
  BY <1>1
<1>4. QuiescentPolling'
  BY <1>1
<1>5. Solo'
  BY BeginSolo
<1>6. Handle'
  BY <1>1
<1>7. QED
  BY <1>2, <1>3, <1>4, <1>5, <1>6 DEF Inductive

\* A step that begins no operation and leaves the flag and the handle alone:
\* it is enough that main still serves whom it should.
LEMMA AsideInductive ==
    ASSUME Inductive, TypeOK',
           UNCHANGED <<fetch, loop, status, phase, restarting, overlapped>>,
           webUp' \/ worker' # "idle" => phase[Main] = "serve",
           ui' # "closed" => phase[Main] \in {"serve", "stopUi", "joinUi"}
    PROVE  Inductive'
BY DEF Inductive, CrashNeedsOverlap, SwitchesExclusive, QuiescentPolling, Quiet,
       Solo, Handle, Guarded, Roles, Served

LEMMA MainInductive == Inductive /\ TypeOK' /\ MainStep => Inductive'
<1> SUFFICES ASSUME Inductive, TypeOK', MainStep PROVE Inductive'
  OBVIOUS
<1> USE DEF Inductive, TypeOK, CrashNeedsOverlap, SwitchesExclusive,
            QuiescentPolling, Quiet, Solo, Handle, Guarded, Roles, Served,
            InFlight, StopPhases, StartPhases, ServePhases, Goto, threadVars
<1>1. UNCHANGED <<fetch, loop, restarting, worker, status>> /\ status = "up"
  BY DEF MainStep, save
<1>2. Main \in Ops /\ Switchers \subseteq Ops /\ Main \notin Switchers
  BY ThreadsAssumption DEF Ops
<1>3. CASE Read
  BY <1>1, <1>2, <1>3 DEF Read, webVars
<1>4. CASE StartUi
  BY <1>1, <1>2, <1>4 DEF StartUi
<1>5. CASE ServeReturn
  BY <1>1, <1>2, <1>5 DEF ServeReturn, webVars
<1>6. CASE StopUi
  BY <1>1, <1>2, <1>6 DEF StopUi, RequestClose, webVars
<1>7. CASE JoinUi
  BY <1>1, <1>2, <1>7, BeginInductive DEF JoinUi, webVars
<1>8. QED
  BY <1>3, <1>4, <1>5, <1>6, <1>7 DEF MainStep

LEMMA MessageInductive == Inductive /\ TypeOK' /\ Message => Inductive'
<1> SUFFICES ASSUME Inductive, TypeOK', Message PROVE Inductive'
  OBVIOUS
<1>1. UNCHANGED <<fetch, loop, restarting, status>> /\ status = "up"
      /\ phase[Main] = "serve"
  BY DEF Message, threadVars, Inductive, Served
<1>2. ASSUME NEW r \in Resetters, ResetSession(r) PROVE Inductive'
  <2>1. r \in Ops /\ r # Main /\ r \notin Switchers /\ Main \in Ops
    BY ThreadsAssumption DEF Ops
  <2>2. phase'[Main] = "serve"
    BY <1>1, <1>2, <2>1 DEF ResetSession, Begin, Goto, Inductive, TypeOK
  <2>3. QED
    BY <1>1, <1>2, <2>1, <2>2, BeginInductive DEF ResetSession
<1>3. CASE \E sel \in Selections : SaveCompare(sel)
  BY <1>1, <1>3, AsideInductive DEF SaveCompare, history
<1>4. CASE \E restart \in BOOLEAN : Shutdown(restart)
  BY <1>1, <1>4, AsideInductive DEF Shutdown, history
<1>5. CASE ResetSettings \/ OpenUi
  BY <1>1, <1>5, AsideInductive DEF ResetSettings, OpenUi, history
<1>6. QED
  BY <1>2, <1>3, <1>4, <1>5 DEF Message

LEMMA WorkerInductive == Inductive /\ TypeOK' /\ Worker => Inductive'
<1> SUFFICES ASSUME Inductive, TypeOK', Worker PROVE Inductive'
  OBVIOUS
<1>1. UNCHANGED <<fetch, loop, restarting, webUp, status>> /\ status = "up"
  BY DEF Worker, threadVars, webVars
<1>2. phase[Main] = "serve"
  BY DEF Worker, SaveSet, SaveThrows, SaveEnd, OpenUiEnd, Inductive, Served
<1>3. CASE SaveSet \/ SaveThrows \/ OpenUiEnd
  BY <1>1, <1>2, <1>3, AsideInductive
  DEF SaveSet, SaveThrows, OpenUiEnd, history
<1>4. CASE SaveEnd
  <2>1. CASE saveReset
    <3>1. PICK r \in Resetters : phase[r] = "idle" /\ Begin(r, "stop")
      BY <1>4, <2>1 DEF SaveEnd
    <3>2. r \in Ops /\ r # Main /\ r \notin Switchers /\ Main \in Ops
      BY ThreadsAssumption DEF Ops
    <3>3. phase'[Main] = "serve"
      BY <1>2, <3>1, <3>2 DEF Begin, Goto, Inductive, TypeOK
    <3>4. QED
      BY <1>1, <1>2, <3>1, <3>2, <3>3, BeginInductive
  <2>2. CASE ~saveReset
    BY <1>1, <1>2, <1>4, <2>2, AsideInductive DEF SaveEnd
  <2>3. QED
    BY <2>1, <2>2
<1>5. QED
  BY <1>3, <1>4 DEF Worker

LEMMA WindowInductive ==
    Inductive /\ TypeOK' /\ (Window \/ WindowThread) => Inductive'
<1> SUFFICES ASSUME Inductive, TypeOK', Window \/ WindowThread
             PROVE  Inductive'
  OBVIOUS
<1>1. UNCHANGED <<fetch, loop, status, webUp, worker>> /\ status = "up"
  BY DEF Window, WindowThread, webVars, threadVars, save
<1>2. webUp \/ worker # "idle" => phase[Main] = "serve"
  BY DEF Inductive, Served
<1>3. ASSUME NEW s \in Switchers, NEW sel \in Selections, Switch(s, sel)
      PROVE  Inductive'
  <2>1. phase[Main] \in {"serve", "stopUi", "joinUi"} /\ ui' = ui
    BY <1>3 DEF Switch, Inductive, Served
  <2>2. CASE restarting
    BY <1>1, <1>2, <1>3, <2>1, <2>2, AsideInductive DEF Switch, RestartFetch
  <2>3. CASE ~restarting
    <3>1. s \in Ops /\ s # Main /\ Main \in Ops
      BY ThreadsAssumption DEF Ops
    <3>2. phase'[Main] = phase[Main]
      BY <1>3, <2>3, <3>1
      DEF Switch, RestartFetch, Begin, Goto, Inductive, TypeOK
    <3>3. QED
      BY <1>1, <1>2, <1>3, <2>1, <2>3, <3>1, <3>2, BeginInductive
      DEF Switch, RestartFetch
  <2>4. QED
    BY <2>2, <2>3
<1>4. CASE CloseUi \/ UiFails \/ WindowThread
  BY <1>1, <1>2, <1>4, AsideInductive
  DEF CloseUi, UiFails, WindowThread, Window, history, Inductive, Served
<1>5. QED
  BY <1>3, <1>4 DEF Window

LEMMA InductiveStep == Inductive /\ [Next]_vars => Inductive'
<1> SUFFICES ASSUME Inductive, [Next]_vars PROVE Inductive'
  OBVIOUS
<1>1. TypeOK'
  BY TypeStep DEF Inductive
<1>2. CASE Gone \/ UNCHANGED vars
  BY <1>1, <1>2
  DEF Gone, vars, threadVars, webVars, save, history, Inductive, CrashNeedsOverlap,
      SwitchesExclusive, QuiescentPolling, Quiet, Solo, Handle, Guarded, Roles,
      Served
<1>3. QED
  BY <1>1, <1>2, LoopInductive, OpInductive, MainInductive, MessageInductive,
     WorkerInductive, WindowInductive
  DEF Next

LEMMA InductiveAlways == Spec => []Inductive
BY InductiveInit, InductiveStep, PTL DEF Spec

-----------------------------------------------------------------------------
(* The safety of the fetch thread.                                         *)

\* Used one at a time, the operations of main, of the page and of the window
\* never end the process on the handle of the fetch thread.
THEOREM CrashSafety == Spec => []CrashNeedsOverlap
<1>1. Inductive => CrashNeedsOverlap
  BY DEF Inductive
<1>2. QED
  BY <1>1, InductiveAlways, PTL

\* restartFetch is a critical section of the window's switches, for any
\* number of switches and whatever the page and main do meanwhile.
THEOREM SwitchExclusion == Spec => []SwitchesExclusive
<1>1. Inductive => SwitchesExclusive
  BY DEF Inductive
<1>2. QED
  BY <1>1, InductiveAlways, PTL

\* Whenever the process serves and no operation is under way, the fetch
\* thread polls.
THEOREM PollingSafety == Spec => []QuiescentPolling
<1>1. Inductive => QuiescentPolling
  BY DEF Inductive
<1>2. QED
  BY <1>1, InductiveAlways, PTL
-----------------------------------------------------------------------------
(* FetchLifecycle implements FetchService: every step of the detailed      *)
(* specification is a step of the service or leaves it as it is.           *)

\* The service's variables, as FetchLifecycle determines them.
Baseline == IF overlapped THEN NoSelection ELSE session
Flag     == ~overlapped /\ initFailed
Mapped   == <<Service, Baseline, selected, Flag>>

LEMMA ServiceInit == Init => Abstract!Init
BY SelectionsAssumption DEF Init, Abstract!Init, Service, Baseline

\* What has met stays met.
LEMMA OverlapStays ==
    ASSUME [Next]_vars, ~overlapped'
    PROVE  ~overlapped
<1> USE DEF history, Begin
<1>1. CASE Loop \/ (\E p \in Ops : OpStep(p)) \/ WindowThread \/ Gone
           \/ UNCHANGED vars
  BY <1>1 DEF Loop, OpStep, WindowThread, Gone, vars
<1>2. CASE MainStep
  BY <1>2 DEF MainStep, Read, StartUi, ServeReturn, StopUi, JoinUi
<1>3. CASE Message
  BY <1>3
  DEF Message, ResetSession, SaveCompare, Shutdown, ResetSettings, OpenUi
<1>4. CASE Worker
  BY <1>4 DEF Worker, SaveSet, SaveThrows, SaveEnd, OpenUiEnd
<1>5. CASE Window
  BY <1>5 DEF Window, Switch, RestartFetch, CloseUi, UiFails
<1>6. QED
  BY <1>1, <1>2, <1>3, <1>4, <1>5 DEF Next

\* A step after which operations have met is a step to a void service.
LEMMA MeetStep ==
    ASSUME TypeOK', overlapped'
    PROVE  Abstract!Next
BY DEF TypeOK, Abstract!Next, Abstract!Meet, Service

\* A first poll, of either server, is the service's first poll.
LEMMA FirstService ==
    ASSUME TypeOK, ~overlapped, Loop, LoopFetch, loopInit
    PROVE  Abstract!FirstPoll
BY DEF Loop, history, TypeOK, LoopStates, LoopFetch, BanchoLoginFails,
       BanchoAnswers, TitanicFails, TitanicAnswers, TitanicRecovers,
       Abstract!FirstPoll, Service

\* A later one changes the baseline only where Titanic recovers.
LEMMA LaterService ==
    ASSUME TypeOK, TypeOK', ~overlapped, Loop, LoopFetch, ~loopInit
    PROVE  Abstract!LaterPoll
BY DEF Loop, history, TypeOK, LoopStates, LoopFetch, BanchoLoginFails,
       BanchoAnswers, TitanicFails, TitanicAnswers, TitanicRecovers,
       Abstract!LaterPoll, Service

\* The loop polls, and ends, as the service does.
LEMMA LoopService ==
    ASSUME Inductive, TypeOK', ~overlapped, Loop
    PROVE  Abstract!Next \/ UNCHANGED Mapped
<1> USE DEF Service, Baseline, Flag, Mapped, LoopStates, poll
<1>1. /\ UNCHANGED <<overlapped, status, selected>>
      /\ status = "up"
      /\ loop \in LoopStates /\ loopInit \in BOOLEAN
      /\ TypeOK
  BY DEF Loop, history, Inductive, TypeOK
<1>2. CASE LoopCheck
  <2>1. CASE fetch
    BY <1>1, <1>2, <2>1 DEF LoopCheck
  <2>2. CASE ~fetch
    <3>1. Abstract!Stop
      BY <1>1, <1>2, <2>2 DEF LoopCheck, Abstract!Stop
    <3>2. QED
      BY <3>1 DEF Abstract!Next
  <2>3. QED
    BY <2>1, <2>2
<1>3. CASE LoopFetch
  BY <1>1, <1>3, FirstService, LaterService DEF Abstract!Next
<1>4. CASE LoopPublish \/ LoopWake
  BY <1>1, <1>4 DEF LoopPublish, LoopWake
<1>5. QED
  BY <1>2, <1>3, <1>4 DEF Loop

\* A thread that operates alone starts, empties and ends a stopped service.
LEMMA OpService ==
    ASSUME Inductive, ~overlapped, NEW p \in Ops, OpStep(p)
    PROVE  Abstract!Next \/ UNCHANGED Mapped
<1> USE DEF Service, Baseline, Flag, Mapped, StartPhases, poll
<1>1. /\ UNCHANGED <<overlapped, selected>>
      /\ status = "up"
      /\ phase[p] \in StartPhases => loop = "none"
  BY DEF OpStep, Inductive, Handle
<1>2. CASE Stop(p) \/ JoinCheck(p) \/ Arm(p) \/ Release(p)
  BY <1>1, <1>2 DEF Stop, JoinCheck, Arm, Release, threadVars
<1>3. CASE JoinCall(p)
  <2>1. loop # "none" /\ ~\E q \in Ops : phase[q] = "wait"
    BY <1>1, <1>3
    DEF JoinCall, Inductive, Handle, Solo, InFlight, StopPhases
  <2>2. QED
    BY <1>1, <1>3, <2>1 DEF JoinCall, threadVars
<1>4. CASE JoinReturn(p)
  BY <1>1, <1>4 DEF JoinReturn
<1>5. CASE Clear(p)
  <2>1. Abstract!Clear
    BY <1>1, <1>5 DEF Clear, Abstract!Clear
  <2>2. QED
    BY <2>1 DEF Abstract!Next
<1>6. CASE Spawn(p)
  <2>1. Abstract!Start
    BY <1>1, <1>6 DEF Spawn, Abstract!Start
  <2>2. QED
    BY <2>1 DEF Abstract!Next
<1>7. CASE p = Main /\ Exit
  <2>1. Abstract!End
    BY <1>1, <1>7 DEF Exit, threadVars, Abstract!End
  <2>2. QED
    BY <2>1 DEF Abstract!Next
<1>8. QED
  BY <1>2, <1>3, <1>4, <1>5, <1>6, <1>7 DEF OpStep

\* Main, the page and the window reach the service only by selecting.
LEMMA OthersService ==
    ASSUME TypeOK', ~overlapped, ~overlapped',
           MainStep \/ Message \/ Worker \/ Window \/ WindowThread \/ Gone
               \/ UNCHANGED vars
    PROVE  Abstract!Next \/ UNCHANGED Mapped
<1> USE DEF Service, Baseline, Flag, Mapped
<1>1. UNCHANGED <<loop, loopInit, session, initFailed, status>>
  BY DEF MainStep, Message, Worker, Window, WindowThread, Gone, vars, threadVars,
     poll, history
<1>2. selected' \in Selections
  BY DEF TypeOK
<1>3. Abstract!Select
  BY <1>1, <1>2 DEF Abstract!Select
<1>4. QED
  BY <1>3 DEF Abstract!Next

LEMMA ServiceStep == Inductive /\ [Next]_vars => [Abstract!Next]_Mapped
<1> SUFFICES ASSUME Inductive, [Next]_vars
             PROVE  Abstract!Next \/ UNCHANGED Mapped
  OBVIOUS
<1>1. TypeOK'
  BY TypeStep DEF Inductive
<1>2. CASE overlapped'
  BY <1>1, <1>2, MeetStep
<1>3. CASE ~overlapped'
  <2>1. ~overlapped
    BY <1>3, OverlapStays
  <2>2. QED
    BY <1>1, <1>3, <2>1, LoopService, OpService, OthersService DEF Next
<1>4. QED
  BY <1>2, <1>3

\* Whatever main, the page and the window do, in any number and order, the
\* fetch thread behaves as FetchService says until two operations meet.
THEOREM ServiceImplemented == Spec => ImplementsService
<1>1. Abstract!vars = Mapped
  BY DEF Abstract!vars, Mapped, Baseline, Flag
<1>2. QED
  BY <1>1, ServiceInit, ServiceStep, InductiveAlways, PTL
  DEF Spec, ImplementsService, Abstract!Safety, Mapped, Baseline, Flag, Abstract!vars
-----------------------------------------------------------------------------
(* The wait in join().  That it ends is liveness and left to TLC; that the *)
(* loop cannot go on for ever under a waiting thread is proved here.       *)

LEMMA LoweredInit == Init => Lowered
BY ThreadsAssumption DEF Init, Lowered, Ops

LEMMA LoweredStep ==
    ASSUME Inductive, Lowered, [Next]_vars
    PROVE  Lowered'
<1> USE DEF Lowered
<1> SUFFICES ASSUME ~overlapped' PROVE Lowered'
  OBVIOUS
<1>1. TypeOK' /\ Main \in Ops
  BY TypeStep, ThreadsAssumption DEF Inductive, Ops
<1>2. CASE Loop
  BY <1>2 DEF Loop, LoopCheck, LoopFetch, LoopPublish, LoopWake, history
<1>3. ASSUME NEW p \in Ops, OpStep(p) PROVE Lowered'
  <2> USE DEF Inductive, TypeOK, Goto, threadVars
  <2>1. UNCHANGED overlapped /\ ~overlapped
    BY <1>3 DEF OpStep
  <2>2. CASE Stop(p)
    BY <2>1, <2>2 DEF Stop
  <2>3. CASE JoinCheck(p) \/ JoinCall(p)
    BY <2>1, <2>3, AfterJoinPhase DEF JoinCheck, JoinCall
  <2>4. CASE JoinReturn(p)
    BY <2>1, <2>4, AfterJoinPhase DEF JoinReturn
  <2>5. CASE Clear(p) \/ Release(p) \/ (p = Main /\ Exit)
    BY <2>1, <2>5 DEF Clear, Release, Exit
  <2>6. CASE Arm(p)
    <3>1. \A q \in Ops : phase[q] \in {"join", "call", "wait"} => q = p
      BY <2>1, <2>6 DEF Arm, Solo, InFlight, StopPhases, StartPhases
    <3>2. phase' = [phase EXCEPT ![p] = "spawn"] /\ phase[p] = "arm"
      BY <2>6 DEF Arm
    <3>3. QED
      BY <3>1, <3>2
  <2>7. CASE Spawn(p)
    BY <2>1, <2>7, AfterSpawnPhase DEF Spawn
  <2>8. QED
    BY <1>3, <2>2, <2>3, <2>4, <2>5, <2>6, <2>7 DEF OpStep
<1> USE DEF Begin, Goto, threadVars, history, Inductive, TypeOK
<1>4. CASE MainStep
  BY <1>1, <1>4 DEF MainStep, Read, StartUi, ServeReturn, StopUi, JoinUi
<1>5. CASE Message
  BY <1>1, <1>5
  DEF Message, ResetSession, SaveCompare, Shutdown, ResetSettings, OpenUi
<1>6. CASE Worker
  <2>1. Resetters \subseteq Ops
    BY DEF Ops
  <2>2. QED
    BY <1>1, <1>6, <2>1 DEF Worker, SaveSet, SaveThrows, SaveEnd, OpenUiEnd
<1>7. CASE Window
  BY <1>1, <1>7 DEF Window, Switch, RestartFetch, CloseUi, UiFails
<1>8. CASE WindowThread \/ Gone \/ UNCHANGED vars
  BY <1>8 DEF WindowThread, Gone, vars
<1>9. QED
  BY <1>2, <1>3, <1>4, <1>5, <1>6, <1>7, <1>8 DEF Next

LEMMA LoweredAlways == Spec => [](Inductive /\ Lowered)
<1>1. Inductive /\ Lowered /\ [Next]_vars => Lowered'
  BY LoweredStep
<1>2. QED
  BY <1>1, LoweredInit, InductiveAlways, PTL DEF Spec

\* The steps the loop has to take to its end once `fetch` is down.
StepsLeft ==
    CASE loop = "fetch"   -> 4
      [] loop = "publish" -> 3
      [] loop = "sleep"   -> 2
      [] loop = "check"   -> 1
      [] OTHER            -> 0

Waits(p) == phase[p] = "wait"

\* A thread in join() waits for a loop that is there and was told to end; one
\* whose handle is gone would wait for ever, and so would one whose flag a
\* start has raised again.
JoinsDoomedLoop ==
    ~overlapped => \A p \in Ops : Waits(p) => loop # "none" /\ ~fetch

\* While a thread waits, whatever the others do, the loop is left alone or
\* comes closer to its end.
LoopRunsOut ==
    [][\A p \in Ops : ~overlapped' /\ Waits(p) /\ Waits(p)' =>
           UNCHANGED <<loop, fetch>> \/ StepsLeft' < StepsLeft]_vars

\* The wait of stopFetchThread is for a loop that has been told to end, and
\* nothing gives it a new life: the safety that ResetCompletes rests on, for
\* any number of threads that may want to start the fetch thread meanwhile.
THEOREM JoinSafety == Spec => []JoinsDoomedLoop /\ LoopRunsOut
<1>1. Inductive /\ Lowered => JoinsDoomedLoop
  BY DEF Inductive, Handle, StopPhases, Lowered, JoinsDoomedLoop, Waits
<1>2. ASSUME Inductive, Lowered, [Next]_vars, NEW p \in Ops,
             ~overlapped', Waits(p), Waits(p)'
      PROVE  UNCHANGED <<loop, fetch>> \/ StepsLeft' < StepsLeft
  <2> USE DEF Inductive, TypeOK, Waits
  <2>1. ~overlapped
    BY <1>2, OverlapStays
  <2>2. CASE Loop
    <3>1. ~fetch /\ loop \in LoopStates
      BY <1>2, <2>1 DEF Lowered
    <3>2. QED
      BY <2>2, <3>1
      DEF Loop, LoopCheck, LoopFetch, LoopPublish, LoopWake, StepsLeft
  <2>3. ASSUME NEW q \in Ops, OpStep(q)
        PROVE  UNCHANGED <<loop, fetch>> \/ StepsLeft' < StepsLeft
    <3>1. phase[q] \in InFlight => q = p
      BY <1>2, <2>1 DEF Solo, InFlight, StopPhases
    <3>2. CASE q = p
      BY <1>2, <2>3, <3>2, AfterJoinPhase
      DEF OpStep, Stop, JoinCheck, JoinCall, JoinReturn, Clear, Arm, Spawn,
          Release, Exit, Goto, threadVars
    <3>3. CASE phase[q] \notin InFlight
      BY <2>3, <3>3
      DEF OpStep, Stop, JoinCheck, JoinCall, JoinReturn, Clear, Arm, Spawn,
          Release, Exit, threadVars, InFlight, StopPhases, StartPhases
    <3>4. QED
      BY <3>1, <3>2, <3>3
  <2>4. CASE MainStep \/ Message \/ Worker \/ Window \/ WindowThread \/ Gone
             \/ UNCHANGED vars
    BY <2>4
    DEF MainStep, Message, Worker, Window, WindowThread, Gone, vars, threadVars
  <2>5. QED
    BY <1>2, <2>2, <2>3, <2>4 DEF Next
<1>3. Inductive /\ Lowered /\ [Next]_vars =>
        [\A p \in Ops : ~overlapped' /\ Waits(p) /\ Waits(p)' =>
            UNCHANGED <<loop, fetch>> \/ StepsLeft' < StepsLeft]_vars
  BY <1>2
<1>4. QED
  BY <1>1, <1>3, LoweredAlways, PTL DEF Spec, LoopRunsOut
=============================================================================
