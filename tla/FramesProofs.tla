---------------------------- MODULE FramesProofs ----------------------------
(***************************************************************************)
(* Proofs about Frames, for any set of pictures.                           *)
(*                                                                         *)
(* TextureFresh needs to know of an upload that its texture is still the   *)
(* bytes when the flag is lowered (the lock), and of a closed window that  *)
(* it has no texture.  MarkTruthful is a property of steps; Mark ends the  *)
(* mark when sawReset meets a count above zero, so Truth says what that    *)
(* pair means, and Fresh what a count of zero means while a thread polls.  *)
(***************************************************************************)
EXTENDS Frames, TLAPS

Uploaded ==
    /\ frame = "lower"  => texture = bytes
    /\ frame = "closed" => texture = NoUrl

\* restartFetch clears and starts only after it has joined.
Joined == restart \in {"clear", "start"} => poll = "none"

\* While the mark is up, the polls counted since zero are of a fetch thread
\* started after the switch, or were under way at the switch.
Fresh == pending /\ fetchCount = 0 /\ Polling => after \/ early

Truth == pending /\ sawReset /\ fetchCount >= 1 => answered \/ early

Inductive == TypeOK /\ TextureFresh /\ Uploaded /\ Joined /\ Fresh /\ Truth

-----------------------------------------------------------------------------
(* Types, in parts: one obligation with all of them is too large.          *)

Places ==
    /\ frame \in {"closed", "top", "load", "lower", "mark", "combo"}
    /\ poll \in {"none", "check", "ask", "download", "count", "done"}
    /\ restart \in {"idle", "stop", "join", "clear", "start", "release"}

Pictures == {texture, url, bytes} \subseteq Urls \cup {NoUrl}

Flags ==
    /\ pending \in BOOLEAN
    /\ sawReset \in BOOLEAN
    /\ dirty \in BOOLEAN
    /\ fetch \in BOOLEAN

Histories ==
    /\ failed \in BOOLEAN
    /\ after \in BOOLEAN
    /\ answered \in BOOLEAN
    /\ early \in BOOLEAN

LEMMA TypeParts ==
    ASSUME Places', Pictures', Flags', Histories', fetchCount' \in 0..2
    PROVE  TypeOK'
BY Zenon DEF TypeOK, Places, Pictures, Flags, Histories

LEMMA InitTypes == Init => TypeOK
<1>1. Init => fetchCount \in 0..2
  BY DEF Init
<1>2. QED
  BY <1>1, Zenon DEF Init, TypeOK

LEMMA CountTypes == TypeOK /\ Next => fetchCount' \in 0..2
<1>1. ASSUME TypeOK, Count PROVE fetchCount' \in 0..2
  BY <1>1 DEF TypeOK, Count
<1>2. ASSUME TypeOK, Next, ~Count PROVE fetchCount' \in {fetchCount, 0}
  BY <1>2, Zenon
  DEF Next, Poll, Check, Ask, Download, Restart, Stop, Join, Clear, Start,
      Release, Frame, Switch, Open, Close
<1>3. QED
  BY <1>1, <1>2 DEF TypeOK

LEMMA TypeStep == TypeOK /\ [Next]_vars => TypeOK'
<1> SUFFICES ASSUME TypeOK, Next \/ UNCHANGED vars PROVE TypeOK'
  OBVIOUS
<1> USE DEF avatarVars, markVars, restartVars, history
<1>1. fetchCount' \in 0..2
  BY CountTypes DEF TypeOK, vars
<1>2. CASE Poll
  <2>1. Places'
    BY <1>2 DEF TypeOK, Places, Poll, Check, Ask, Download, Count
  <2>2. Pictures'
    BY <1>2 DEF TypeOK, Pictures, Poll, Check, Ask, Download, Count
  <2>3. Flags'
    BY <1>2 DEF TypeOK, Flags, Poll, Check, Ask, Download, Count
  <2>4. Histories'
    BY <1>2 DEF TypeOK, Histories, Poll, Check, Ask, Download, Count
  <2>5. QED
    BY <1>1, <2>1, <2>2, <2>3, <2>4, TypeParts
<1>3. CASE Restart
  <2>1. Places'
    BY <1>3 DEF TypeOK, Places, Restart, Stop, Join, Clear, Start, Release
  <2>2. Pictures'
    BY <1>3 DEF TypeOK, Pictures, Restart, Stop, Join, Clear, Start, Release
  <2>3. Flags'
    BY <1>3 DEF TypeOK, Flags, Restart, Stop, Join, Clear, Start, Release
  <2>4. Histories'
    BY <1>3 DEF TypeOK, Histories, Restart, Stop, Join, Clear, Start, Release
  <2>5. QED
    BY <1>1, <2>1, <2>2, <2>3, <2>4, TypeParts
<1>4. CASE Frame
  <2>1. Places'
    BY <1>4 DEF TypeOK, Places, Frame, Top, Load, Lower, Mark, Draw
  <2>2. Pictures'
    BY <1>4 DEF TypeOK, Pictures, Frame, Top, Load, Lower, Mark, Draw
  <2>3. Flags'
    BY <1>4 DEF TypeOK, Flags, Frame, Top, Load, Lower, Mark, Draw
  <2>4. Histories'
    BY <1>4 DEF TypeOK, Histories, Frame, Top, Load, Lower, Mark, Draw
  <2>5. QED
    BY <1>1, <2>1, <2>2, <2>3, <2>4, TypeParts
<1>5. CASE Switch \/ Open \/ Close
  <2>1. Places'
    BY <1>5 DEF TypeOK, Places, Switch, Open, Close
  <2>2. Pictures'
    BY <1>5 DEF TypeOK, Pictures, Switch, Open, Close
  <2>3. Flags'
    BY <1>5 DEF TypeOK, Flags, Switch, Open, Close
  <2>4. Histories'
    BY <1>5 DEF TypeOK, Histories, Switch, Open, Close
  <2>5. QED
    BY <1>1, <2>1, <2>2, <2>3, <2>4, TypeParts
<1>6. CASE UNCHANGED vars
  <2>1. Places'
    BY <1>6 DEF TypeOK, Places, vars
  <2>2. Pictures'
    BY <1>6 DEF TypeOK, Pictures, vars
  <2>3. Flags'
    BY <1>6 DEF TypeOK, Flags, vars
  <2>4. Histories'
    BY <1>6 DEF TypeOK, Histories, vars
  <2>5. QED
    BY <1>1, <2>1, <2>2, <2>3, <2>4, TypeParts
<1>7. QED
  BY <1>2, <1>3, <1>4, <1>5, <1>6 DEF Next

-----------------------------------------------------------------------------
LEMMA InitInductive == Init => Inductive
<1>1. Init => TextureFresh /\ Uploaded /\ Joined /\ Fresh /\ Truth
  BY DEF Init, TextureFresh, Uploaded, Joined, Fresh, Truth
<1>2. QED
  BY <1>1, InitTypes DEF Inductive

LEMMA PollInductive == Inductive /\ TypeOK' /\ Poll => Inductive'
<1> SUFFICES ASSUME Inductive, TypeOK', Poll PROVE Inductive'
  OBVIOUS
<1> USE DEF Inductive, TextureFresh, Uploaded, Joined, Fresh, Truth,
            Polling, avatarVars, markVars, restartVars
<1>1. UNCHANGED <<frame, texture, pending, sawReset, restart, fetch, after, early>>
  BY DEF Poll
<1>2. CASE Check
  BY <1>1, <1>2 DEF Check
<1>3. CASE Ask
  BY <1>1, <1>3 DEF Ask
<1>4. CASE Download
  BY <1>1, <1>4 DEF Download
<1>5. CASE Count
  <2>1. fetchCount \in 0..2 /\ after \in BOOLEAN /\ answered \in BOOLEAN
    BY DEF TypeOK
  <2>2. Truth' /\ Fresh'
    BY <1>1, <1>5, <2>1 DEF Count
  <2>3. QED
    BY <1>1, <1>5, <2>2 DEF Count
<1>6. QED
  BY <1>2, <1>3, <1>4, <1>5 DEF Poll

LEMMA RestartInductive == Inductive /\ TypeOK' /\ Restart => Inductive'
<1> SUFFICES ASSUME Inductive, TypeOK', Restart PROVE Inductive'
  OBVIOUS
<1> USE DEF Inductive, TextureFresh, Uploaded, Joined, Fresh, Truth,
            Polling, markVars
<1>1. UNCHANGED <<frame, texture, pending, sawReset, bytes, dirty, failed,
                  answered, early>>
  BY DEF Restart
<1>2. CASE Stop
  BY <1>1, <1>2 DEF Stop
<1>3. CASE Join
  BY <1>1, <1>3 DEF Join
<1>4. CASE Clear
  BY <1>1, <1>4 DEF Clear
<1>5. CASE Start
  BY <1>1, <1>5 DEF Start
<1>6. CASE Release
  BY <1>1, <1>6 DEF Release
<1>7. QED
  BY <1>2, <1>3, <1>4, <1>5, <1>6 DEF Restart

LEMMA WindowInductive ==
    Inductive /\ TypeOK' /\ (Frame \/ Switch \/ Open \/ Close) => Inductive'
<1> SUFFICES ASSUME Inductive, TypeOK', Frame \/ Switch \/ Open \/ Close
             PROVE  Inductive'
  OBVIOUS
<1> USE DEF Inductive, TextureFresh, Uploaded, Joined, Fresh, Truth,
            Polling, avatarVars, markVars, restartVars, history
<1>1. CASE Frame /\ Top
  BY <1>1 DEF Frame, Top
<1>2. CASE Frame /\ Load
  BY <1>2 DEF Frame, Load
<1>3. CASE Frame /\ Lower
  BY <1>3 DEF Frame, Lower
<1>4. CASE Frame /\ Mark
  BY <1>4 DEF Frame, Mark
<1>5. CASE Frame /\ Draw
  BY <1>5 DEF Frame, Draw
<1>6. CASE Switch
  BY <1>6 DEF Switch
<1>7. CASE Open
  BY <1>7 DEF Open
<1>8. CASE Close
  BY <1>8 DEF Close
<1>9. QED
  BY <1>1, <1>2, <1>3, <1>4, <1>5, <1>6, <1>7, <1>8 DEF Frame

LEMMA InductiveStep == Inductive /\ [Next]_vars => Inductive'
<1>1. Inductive /\ [Next]_vars => TypeOK'
  BY TypeStep DEF Inductive
<1>2. Inductive /\ TypeOK' /\ UNCHANGED vars => Inductive'
  BY DEF vars, Inductive, TextureFresh, Uploaded, Joined, Fresh, Truth, Polling,
     avatarVars, markVars, restartVars, history
<1>3. QED
  BY <1>1, <1>2, PollInductive, RestartInductive, WindowInductive DEF Next

LEMMA InductiveAlways == Spec => []Inductive
BY InitInductive, InductiveStep, PTL DEF Spec

-----------------------------------------------------------------------------
\* The variables of the handshakes keep their types.
THEOREM FramesTypes == Spec => []TypeOK
<1>1. Inductive => TypeOK
  BY DEF Inductive
<1>2. QED
  BY <1>1, InductiveAlways, PTL

\* avatarDirty and avatarMutex lose no picture between the fetch thread and
\* the window, through any number of polls, restarts and windows.
THEOREM TextureSafety == Spec => []TextureFresh
<1>1. Inductive => TextureFresh
  BY DEF Inductive
<1>2. QED
  BY <1>1, InductiveAlways, PTL

\* The mark of a switch never ends on a poll of before the switch, but for a
\* first poll that was under way.
THEOREM MarkSafety == Spec => MarkTruthful
<1>1. Inductive /\ [Next]_vars => [pending /\ ~pending' => answered \/ early]_vars
  <2> SUFFICES ASSUME Inductive, Next, pending, ~pending'
               PROVE  answered \/ early
    OBVIOUS
  <2>1. Frame /\ Mark
    BY DEF Next, Poll, Restart, Frame, Top, Load, Lower, Draw, Switch, Open,
           Close, markVars, Inductive, TypeOK
  <2>2. sawReset /\ fetchCount >= 1
    <3>1. fetchCount \in 0..2
      BY DEF Inductive, TypeOK
    <3>2. (sawReset \/ fetchCount = 0) /\ fetchCount >= 1
      BY <2>1, ZenonT(20) DEF Mark
    <3>3. QED
      BY <3>1, <3>2
  <2>3. QED
    BY <2>2 DEF Inductive, Truth
<1>2. QED
  BY <1>1, InductiveAlways, PTL DEF Spec, MarkTruthful

-----------------------------------------------------------------------------
(* The picture.  That the one named is shown in the end is left to TLC; it *)
(* rests on the bytes being those of the picture named.                    *)

\* The bytes are those of the picture last named, but for a download that is
\* under way or has failed.
Delivered == url # NoUrl /\ poll # "download" /\ ~failed => bytes = url

LEMMA DeliveredStep ==
    ASSUME Inductive, Delivered, [Next]_vars
    PROVE  Delivered'
<1> USE DEF Delivered, avatarVars
<1>1. CASE Poll
  <2>1. failed \in BOOLEAN
    BY DEF Inductive, TypeOK
  <2>2. CASE Check \/ Count
    BY <2>1, <2>2 DEF Check, Count
  <2>3. CASE Ask
    <3>1. poll = "ask" /\ UNCHANGED bytes
      BY <2>3 DEF Ask
    <3>2. poll' = "download" \/ (UNCHANGED url /\ (failed => failed'))
      BY <2>1, <2>3 DEF Ask
    <3>3. QED
      BY <3>1, <3>2
  <2>4. CASE Download
    BY <2>1, <2>4 DEF Download
  <2>5. QED
    BY <1>1, <2>2, <2>3, <2>4 DEF Poll
<1>2. CASE Restart
  BY <1>2 DEF Restart, Stop, Join, Clear, Start, Release, Inductive, Joined
<1>3. CASE Frame \/ Switch \/ Open \/ Close
  BY <1>3 DEF Frame, Switch, Open, Close
<1>4. CASE UNCHANGED vars
  BY <1>4 DEF vars
<1>5. QED
  BY <1>1, <1>2, <1>3, <1>4 DEF Next

\* A window with nothing announced shows the picture last named.
NamedShown ==
    /\ url # NoUrl
    /\ poll # "download" /\ ~failed
    /\ frame \in {"top", "mark", "combo"} /\ ~dirty
    => texture = url

\* The url is stored before the picture is there and is never asked for twice;
\* still no answer, restart or window in between leaves another picture on
\* show, but for a download that failed: the safety PictureShown rests on.
THEOREM PictureSafety == Spec => []NamedShown
<1>1. Init => Delivered
  BY DEF Init, Delivered
<1>2. Inductive /\ Delivered /\ [Next]_vars => Delivered'
  BY DeliveredStep
<1>3. Inductive /\ Delivered => NamedShown
  BY DEF Inductive, TextureFresh, Delivered, NamedShown
<1>4. QED
  BY <1>1, <1>2, <1>3, InductiveAlways, PTL DEF Spec
=============================================================================
