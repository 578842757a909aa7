------------------------------ MODULE UiThread ------------------------------
(***************************************************************************)
(* The window's thread: who starts it, asks it to close and joins it.      *)
(*                                                                         *)
(* startUiThread and stopUiThread (WebState.h) are run by main and, for    *)
(* #open_ui, by the worker of the web server.  They are one thread here,   *)
(* the caller: crow has a single worker, and its run() returns to main     *)
(* only after the worker's handler has.  While the worker waits in join()  *)
(* it holds ws_mutex and no other message is served.                       *)
(*                                                                         *)
(* CloseWindow does not talk to the thread but to the global `window`, and *)
(* may find it not created yet, or destroyed.  GLFW ignores a call made    *)
(* while it is not initialised; on no window it is undefined behaviour.    *)
(***************************************************************************)
VARIABLES
    caller,      \* where main or the worker is
    goal,        \* what it is doing: "open" (startUiThread) or "stop"
    ui,          \* where the window's thread is; "none": not joinable
    glfw,        \* GLFW is initialised
    window,      \* the pointer: "null", "live" or "dangling"
    shouldClose, \* the flag of the live window
    status,      \* "up" or "crashed"
    userClosed,  \* history: the user closed the window that is open
    premature    \* history: the request the caller waits for came too early

libVars == <<glfw, window, shouldClose>>
vars == <<caller, goal, ui, libVars, status, userClosed, premature>>

TypeOK ==
    /\ caller \in {"down", "serve", "test", "close", "join", "spawn"}
    /\ goal \in {"open", "stop"}
    /\ ui \in {"none", "init", "create", "loop", "destroy", "terminate", "end"}
    /\ glfw \in BOOLEAN
    /\ window \in {"null", "live", "dangling"}
    /\ shouldClose \in BOOLEAN
    /\ status \in {"up", "crashed"}
    /\ userClosed \in BOOLEAN
    /\ premature \in BOOLEAN

Init ==
    /\ caller = "down"
    /\ goal = "open"
    /\ ui = "none"
    /\ glfw = FALSE
    /\ window = "null"
    /\ shouldClose = FALSE
    /\ status = "up"
    /\ userClosed = FALSE
    /\ premature = FALSE

-----------------------------------------------------------------------------
(* The caller.                                                             *)

\* main boots, #open_ui arrives, or run() returns to main.
Call(from, g) ==
    /\ caller = from
    /\ caller' = "test"
    /\ goal' = g
    /\ UNCHANGED <<ui, libVars, status, userClosed, premature>>

Boot   == Call("down", "open")
OpenUi == Call("serve", "open")
Leave  == Call("serve", "stop")

\* stopUiThread is all of a stop, and the first step of startUiThread.
AfterStop == IF goal = "open" THEN "spawn" ELSE "down"

\* Mutant: a window that is not shown is not waited for.
MutTest ==
    /\ caller = "test"
    /\ caller' = IF ui \notin {"none", "init"} THEN "close" ELSE AfterStop
    /\ UNCHANGED <<goal, ui, libVars, status, userClosed, premature>>

\* if (uiThread.joinable())
Test ==
    /\ caller = "test"
    /\ caller' = IF ui # "none" THEN "close" ELSE AfterStop
    /\ UNCHANGED <<goal, ui, libVars, status, userClosed, premature>>

\* Mutant: the flag of the window is not set.
MutSetWindowShouldClose == UNCHANGED <<shouldClose, status>>

\* glfwSetWindowShouldClose(window, GLFW_TRUE).  Without a live window the
\* write goes to memory that is not a window's: it may end the process.
SetWindowShouldClose ==
    \/ glfw /\ window = "live" /\ shouldClose' = TRUE /\ UNCHANGED status
    \/ ~(glfw /\ window = "live") /\ UNCHANGED <<shouldClose, status>>
    \/ glfw /\ window # "live" /\ status' = "crashed" /\ UNCHANGED shouldClose

CloseWindow ==
    /\ caller = "close"
    /\ caller' = "join"
    /\ SetWindowShouldClose
    /\ premature' = (ui \in {"init", "create"})
    /\ UNCHANGED <<goal, ui, glfw, window, userClosed>>

\* Mutant: the thread is detached rather than joined.
MutJoin ==
    /\ caller = "join"
    /\ caller' = AfterStop
    /\ premature' = FALSE
    /\ UNCHANGED <<goal, ui, libVars, status, userClosed>>

\* uiThread.join() returns.
Join ==
    /\ caller = "join"
    /\ ui = "end"
    /\ ui' = "none"
    /\ caller' = AfterStop
    /\ premature' = FALSE
    /\ UNCHANGED <<goal, libVars, status, userClosed>>

\* if (!uiThread.joinable()) uiThread = std::thread(OpenWindow)
Spawn ==
    /\ caller = "spawn"
    /\ ui' = IF ui = "none" THEN "init" ELSE ui
    /\ caller' = "serve"
    /\ UNCHANGED <<goal, libVars, status, userClosed, premature>>

Caller ==
    /\ status = "up"
    /\ Test \/ CloseWindow \/ Join \/ Spawn

-----------------------------------------------------------------------------
(* The window's thread: ui_main.                                           *)

\* glfwInit, which may fail.
InitLibrary ==
    /\ ui = "init"
    /\ \/ ui' = "create" /\ glfw' = TRUE
       \/ ui' = "end" /\ ~glfw /\ UNCHANGED glfw
    /\ UNCHANGED <<window, shouldClose, userClosed>>

\* glfwCreateWindow, which may fail: GLFW then stays initialised.
CreateWindow ==
    /\ ui = "create"
    /\ \/ ui' = "loop" /\ window' = "live"
       \/ ui' = "end" /\ window' = "null"
    /\ shouldClose' = FALSE
    /\ userClosed' = FALSE
    /\ UNCHANGED glfw

\* while (!glfwWindowShouldClose(window))
LoopEnds ==
    /\ ui = "loop"
    /\ shouldClose
    /\ ui' = "destroy"
    /\ UNCHANGED <<libVars, userClosed>>

DestroyWindow ==
    /\ ui = "destroy"
    /\ ui' = "terminate"
    /\ window' = "dangling"
    /\ UNCHANGED <<glfw, shouldClose, userClosed>>

\* Mutant: GLFW stays initialised.
MutTerminate ==
    /\ ui = "terminate"
    /\ ui' = "end"
    /\ UNCHANGED <<libVars, userClosed>>

Terminate ==
    /\ ui = "terminate"
    /\ ui' = "end"
    /\ glfw' = FALSE
    /\ UNCHANGED <<window, shouldClose, userClosed>>

Thread ==
    /\ status = "up"
    /\ InitLibrary \/ CreateWindow \/ LoopEnds \/ DestroyWindow \/ Terminate
    /\ UNCHANGED <<caller, goal, status, premature>>

\* The user closes the window.
UserCloses ==
    /\ status = "up"
    /\ ui = "loop"
    /\ shouldClose' = TRUE
    /\ userClosed' = TRUE
    /\ UNCHANGED <<caller, goal, ui, glfw, window, status, premature>>

\* #shutdown ends the process; a crash does.
Gone == (status = "crashed" \/ caller = "down") /\ UNCHANGED vars

Next ==
    \/ status = "up" /\ (Boot \/ OpenUi \/ Leave)
    \/ Caller
    \/ Thread
    \/ UserCloses
    \/ Gone

Fairness == WF_vars(Caller) /\ WF_vars(Thread)

Spec == Init /\ [][Next]_vars /\ Fairness

-----------------------------------------------------------------------------
(* Properties.                                                             *)

\* When the caller goes on, to start a new window or past the end of its
\* stop, the old window and its thread are gone, however far that thread was
\* when it was asked to close.
WindowJoined == caller \in {"spawn", "down"} => ui = "none" /\ window # "live"

\* A stop ends the process only when the window is not there to be asked: it
\* is still to be created, its creation failed, or its user closed it at that very
\* moment.  A stop that finds the window shown, or its thread ended after
\* that, is safe.
CrashNeedsMissingWindow ==
    status = "crashed" =>
        \/ ui \in {"init", "create"}
        \/ ui = "end" /\ window = "null"
        \/ ui = "terminate" /\ userClosed

\* A window is told to close by its user or by a caller that waits for it:
\* a request made for one window never closes the next one.
NoStaleClose == ui = "loop" /\ shouldClose => userClosed \/ caller = "join"

\* The wait for the window's thread ends, unless the request came before the
\* window existed: then the window opens all the same, and main, or the
\* worker with ws_mutex, waits for the user to close it.
StopReturns ==
    caller = "join" ~>
        \/ caller # "join"
        \/ premature /\ ui = "loop" /\ ~shouldClose
        \/ status = "crashed"
=============================================================================
