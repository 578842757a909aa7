--------------------------- MODULE UiThreadProofs ---------------------------
(***************************************************************************)
(* Proofs about UiThread: its safety invariants, for runs of any length,   *)
(* from one inductive invariant.                                           *)
(***************************************************************************)
EXTENDS UiThread, TLAPS

\* The window is there while its thread is between creating and destroying it.
LiveWindow == window = "live" <=> ui \in {"loop", "destroy"}

\* The caller asks and joins a thread that is there, and starts one, or is
\* down, when there is none.
CallerKnows ==
    /\ caller \in {"close", "join"} => ui # "none"
    /\ caller \in {"spawn", "down"} => ui = "none"

\* A thread that leaves its window was told to, by the user or by the caller
\* that now waits for it.
LeavesForAReason ==
    ui \in {"destroy", "terminate"} => userClosed \/ caller = "join"

\* GLFW is left initialised by a creation that failed, and by nothing else.
LeftInitialised == ui = "end" /\ glfw => window = "null"

Inv ==
    /\ TypeOK
    /\ LiveWindow
    /\ CallerKnows
    /\ LeavesForAReason
    /\ LeftInitialised
    /\ NoStaleClose
    /\ CrashNeedsMissingWindow

LEMMA InitInv == Init => Inv
  BY DEF Init, Inv, TypeOK, LiveWindow, CallerKnows, LeavesForAReason,
     LeftInitialised, NoStaleClose, CrashNeedsMissingWindow

LEMMA CallStep ==
    ASSUME Inv, status = "up", Boot \/ OpenUi \/ Leave
    PROVE  Inv'
<1> USE DEF Boot, OpenUi, Leave, Call, libVars
<1>1. TypeOK'
  BY DEF Inv, TypeOK
<1>2. /\ LiveWindow' /\ CallerKnows' /\ LeftInitialised'
      /\ LeavesForAReason' /\ NoStaleClose'
  BY DEF Inv, LiveWindow, CallerKnows, LeftInitialised, LeavesForAReason,
     NoStaleClose
<1>3. CrashNeedsMissingWindow'
  BY DEF CrashNeedsMissingWindow
<1> QED
  BY <1>1, <1>2, <1>3 DEF Inv

LEMMA CallerStep ==
    ASSUME Inv, Caller
    PROVE  Inv'
<1> USE DEF libVars
<1>1. CASE Test
  BY <1>1 DEF Caller, Test, AfterStop, Inv, TypeOK, LiveWindow, CallerKnows,
     LeftInitialised, LeavesForAReason, NoStaleClose, CrashNeedsMissingWindow
<1>2. CASE CloseWindow
  <2>1. TypeOK'
    <3>1. /\ shouldClose' = shouldClose \/ shouldClose' = TRUE
          /\ status' = status \/ status' = "crashed"
      BY <1>2, Zenon DEF CloseWindow, SetWindowShouldClose
    <3>2. caller' = "join" /\ premature' \in BOOLEAN
      BY <1>2 DEF CloseWindow
    <3> QED
      BY <1>2, <3>1, <3>2, Zenon DEF CloseWindow, Inv, TypeOK
  <2>2. LiveWindow' /\ CallerKnows' /\ LeftInitialised'
    BY <1>2 DEF CloseWindow, Inv, LiveWindow, CallerKnows, LeftInitialised
  <2>3. LeavesForAReason' /\ NoStaleClose'
    BY <1>2 DEF CloseWindow, LeavesForAReason, NoStaleClose
  <2>4. CrashNeedsMissingWindow'
    <3> SUFFICES ASSUME status' = "crashed"
                 PROVE  \/ ui \in {"init", "create"}
                        \/ ui = "end" /\ window = "null"
                        \/ ui = "terminate" /\ userClosed
      BY <1>2 DEF CloseWindow, SetWindowShouldClose, CrashNeedsMissingWindow
    <3>1. glfw /\ window # "live" /\ ui # "none" /\ caller = "close"
      BY <1>2 DEF CloseWindow, SetWindowShouldClose, Caller, Inv, CallerKnows
    <3>2. ui \in {"init", "create", "terminate", "end"}
      BY <3>1 DEF Inv, TypeOK, LiveWindow
    <3> QED
      BY <3>1, <3>2 DEF Inv, LeavesForAReason, LeftInitialised
  <2> QED
    BY <2>1, <2>2, <2>3, <2>4 DEF Inv
<1>3. CASE Join
  BY <1>3 DEF Caller, Join, AfterStop, Inv, TypeOK, LiveWindow, CallerKnows,
     LeftInitialised, LeavesForAReason, NoStaleClose, CrashNeedsMissingWindow
<1>4. CASE Spawn
  BY <1>4 DEF Caller, Spawn, Inv, TypeOK, LiveWindow, CallerKnows,
     LeftInitialised, LeavesForAReason, NoStaleClose, CrashNeedsMissingWindow
<1> QED
  BY <1>1, <1>2, <1>3, <1>4 DEF Caller

LEMMA ThreadStep ==
    ASSUME Inv, Thread
    PROVE  Inv'
<1> USE DEF Thread, InitLibrary, CreateWindow, LoopEnds, DestroyWindow,
        Terminate, libVars
<1>1. TypeOK'
  BY DEF Inv, TypeOK
<1>2. LiveWindow' /\ CallerKnows' /\ LeftInitialised'
  BY DEF Inv, LiveWindow, CallerKnows, LeftInitialised
<1>3. LeavesForAReason' /\ NoStaleClose'
  BY DEF Inv, LeavesForAReason, NoStaleClose
<1>4. CrashNeedsMissingWindow'
  BY DEF CrashNeedsMissingWindow
<1> QED
  BY <1>1, <1>2, <1>3, <1>4 DEF Inv

LEMMA StepInv == Inv /\ [Next]_vars => Inv'
<1> SUFFICES ASSUME Inv, [Next]_vars PROVE Inv'
  OBVIOUS
<1>1. CASE UNCHANGED vars
  BY <1>1 DEF vars, libVars, Inv, TypeOK, LiveWindow, CallerKnows,
     LeavesForAReason, LeftInitialised, NoStaleClose, CrashNeedsMissingWindow
<1>2. CASE UserCloses
  BY <1>2 DEF UserCloses, Inv, TypeOK, LiveWindow, CallerKnows,
     LeavesForAReason, LeftInitialised, NoStaleClose, CrashNeedsMissingWindow
<1> QED
  BY <1>1, <1>2, CallStep, CallerStep, ThreadStep DEF Next, Gone

LEMMA AlwaysInv == Spec => []Inv
  BY InitInv, StepInv, PTL DEF Spec

\* The types of the model.
THEOREM UiThreadTypes == Spec => []TypeOK
<1>1. Inv => TypeOK
  BY DEF Inv
<1> QED
  BY <1>1, AlwaysInv, PTL

\* A caller that goes on has joined the old window.
THEOREM JoinSafety == Spec => []WindowJoined
<1>1. Inv => WindowJoined
  BY DEF Inv, CallerKnows, LiveWindow, WindowJoined
<1> QED
  BY <1>1, AlwaysInv, PTL

\* Only a stop that meets no window can end the process.
THEOREM CrashSafety == Spec => []CrashNeedsMissingWindow
<1>1. Inv => CrashNeedsMissingWindow
  BY DEF Inv
<1> QED
  BY <1>1, AlwaysInv, PTL

\* A request to close one window never reaches the next.
THEOREM CloseSafety == Spec => []NoStaleClose
<1>1. Inv => NoStaleClose
  BY DEF Inv
<1> QED
  BY <1>1, AlwaysInv, PTL

-----------------------------------------------------------------------------
(* The wait for the window's thread.  That it ends is left to TLC; what it *)
(* rests on is that the request was heard.                                 *)

\* GLFW is initialised while the window's thread uses it.
LibraryUp == ui \in {"create", "loop", "destroy", "terminate"} => glfw

\* A caller that waits, and did not ask before the window was there, waits for
\* a window that was told to close or for a thread that has left its loop.
RequestHeard ==
    caller = "join" /\ ~premature /\ status = "up" =>
        \/ ui = "loop" /\ shouldClose
        \/ ui \in {"destroy", "terminate", "end"}

LEMMA HeardStep ==
    ASSUME Inv, LibraryUp, RequestHeard, [Next]_vars
    PROVE  LibraryUp' /\ RequestHeard'
<1> USE DEF libVars, LibraryUp, RequestHeard
<1>1. CASE Boot \/ OpenUi \/ Leave
  BY <1>1 DEF Boot, OpenUi, Leave, Call
<1>2. CASE Caller /\ CloseWindow
  <2>1. ui \in {"loop", "destroy", "terminate", "end"} \/ premature'
    BY <1>2 DEF CloseWindow, Inv, TypeOK, CallerKnows
  <2>2. ui = "loop" => shouldClose' \/ status' = "crashed"
    BY <1>2 DEF CloseWindow, SetWindowShouldClose, Inv, LiveWindow
  <2>3. QED
    BY <1>2, <2>1, <2>2 DEF CloseWindow
<1>3. CASE Caller /\ (Test \/ Join \/ Spawn)
  BY <1>3 DEF Test, Join, Spawn, AfterStop
<1>4. CASE Thread
  BY <1>4 DEF Thread, InitLibrary, CreateWindow, LoopEnds, DestroyWindow, Terminate
<1>5. CASE UserCloses \/ Gone \/ UNCHANGED vars
  BY <1>5 DEF UserCloses, Gone, vars
<1> QED
  BY <1>1, <1>2, <1>3, <1>4, <1>5 DEF Next, Caller

\* No request to close that finds the window made gets lost, whether its user
\* closes it meanwhile or its thread is already on its way out: the safety
\* that StopReturns rests on.
THEOREM HeardSafety == Spec => []RequestHeard
<1>1. Init => LibraryUp /\ RequestHeard
  BY DEF Init, LibraryUp, RequestHeard
<1>2. Inv /\ LibraryUp /\ RequestHeard /\ [Next]_vars => LibraryUp' /\ RequestHeard'
  BY HeardStep
<1> QED
  BY <1>1, <1>2, AlwaysInv, PTL DEF Spec
=============================================================================
