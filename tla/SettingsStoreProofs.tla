------------------------ MODULE SettingsStoreProofs ------------------------
(***************************************************************************)
(* Proofs about SettingsStore: for any users and modes and any order of    *)
(* saves, switches, resets, restarts and crashes, config.json becomes      *)
(* unreadable in two ways only, what is in force is on disk, and the       *)
(* session follows it, each up to the exceptions the properties name.      *)
(***************************************************************************)
EXTENDS SettingsStore, TLAPS

\* Who runs when: the worker acts only while the server serves, the window
\* only until main has joined it, and main itself writes only at boot.
TakesTurns ==
    /\ pc["worker"] # "idle" => pc["main"] = "idle"
    /\ pc["window"] # "idle" => pc["main"] \in {"idle", "stop"}
    /\ pc["main"] \in {"idle", "stop", "boot", "build", "open", "dump", "read"}
    /\ pc["worker"] \in {"idle", "compare", "apply", "build", "open", "dump",
                         "after", "remove"}
    /\ pc["window"] \in {"idle", "build", "open", "dump", "after"}

\* A removed file that is still written to is the window's, whose end main
\* then waits for.
Orphans ==
    \/ orphan = {}
    \/ orphan = {"window"} /\ pc["window"] = "dump" /\ pc["main"] = "stop"

\* As long as no two writes overlapped, a writer finds the file as it left it.
Untouched ==
    ~mixed => \A w \in Writers : pc[w] = "dump" /\ w \notin orphan => file = Emptied

\* A session that is not about what is in force has a reset coming: the
\* handler, the window or main is on its way to one.
ResetComing ==
    \/ session = app
    \/ SessionComing
    \/ missed
    \/ reset /\ pc["worker"] \in {"apply", "build", "open", "dump", "after"}
    \/ pc["worker"] = "remove"
    \/ pc["window"] # "idle"
    \/ pc["main"] # "idle"

\* Nothing but a write under way keeps a file that is to be kept from being
\* what is in force, and that write is of what is in force.
WriteComing ==
    pc["main"] = "idle" /\ pc["worker"] # "remove" /\ ~unsaved =>
        /\ \A w \in {"worker", "window"} :
              /\ pc[w] \in {"open", "dump"} => snap[w] = app
              /\ pc[w] = "dump" => file = Emptied
        /\ \/ file = app
           \/ pc["worker"] \in {"apply", "build", "open", "dump"}
           \/ pc["window"] \in {"build", "open", "dump"}

Shape == TypeOK /\ TakesTurns /\ Orphans

Inv == Shape /\ Untouched /\ ReadableUnlessCut /\ ResetComing /\ WriteComing

-----------------------------------------------------------------------------
LEMMA DefaultType == Default \in Settings /\ Default \in Payloads
  BY DefaultsAssumption DEF Default, Settings, Payloads

LEMMA InitInv == Init => Inv
<1> SUFFICES ASSUME Init PROVE Inv
  OBVIOUS
<1>1. TypeOK
  BY DefaultType DEF Init, TypeOK, Writers
<1>2. TakesTurns /\ Orphans
  <2>1. pc["main"] = "boot" /\ pc["worker"] = "idle" /\ pc["window"] = "idle"
    BY DEF Init, Writers
  <2>2. orphan = {}
    BY DEF Init
  <2> QED
    BY <2>1, <2>2 DEF TakesTurns, Orphans
<1>3. Untouched /\ ReadableUnlessCut
  BY FilesAssumption DEF Init, Untouched, ReadableUnlessCut, Writers, Unreadable
<1>4. ResetComing /\ WriteComing
  BY DEF Init, ResetComing, WriteComing, Writers
<1> QED
  BY <1>1, <1>2, <1>3, <1>4 DEF Inv, Shape

\* The field a message sets is a user or a mode.
LEMMA FieldType ==
    ASSUME TypeOK, NEW f \in Fields, payload[f] # Blank
    PROVE  [app EXCEPT ![f] = payload[f]] \in Settings
<1>1. CASE f = "user"
  BY <1>1 DEF TypeOK, Settings, Payloads
<1>2. CASE f = "mode"
  BY <1>2 DEF TypeOK, Settings, Payloads
<1> QED
  BY <1>1, <1>2 DEF Fields

-----------------------------------------------------------------------------
(* Config::write.                                                          *)

LEMMA BuildStep ==
    ASSUME Inv, NEW w \in Writers, Build(w) PROVE Inv'
<1> USE DEF Build, Goto, saveVars, history
<1>1. /\ pc[w] = "build" /\ pc'[w] = "open" /\ snap'[w] = app
      /\ \A v \in Writers : v # w => pc'[v] = pc[v] /\ snap'[v] = snap[v]
  BY DEF Inv, Shape, TypeOK
<1>2. TypeOK'
  BY DEF Inv, Shape, TypeOK
<1>3. TakesTurns' /\ Orphans'
  BY <1>1 DEF Inv, Shape, TakesTurns, Orphans, Writers
<1>4. Untouched' /\ ReadableUnlessCut'
  BY <1>1 DEF Inv, Untouched, ReadableUnlessCut
<1>5. ResetComing'
  BY <1>1 DEF Inv, ResetComing, SessionComing, Writers
<1>6. WriteComing'
  BY <1>1 DEF Inv, WriteComing, Writers
<1> QED
  BY <1>2, <1>3, <1>4, <1>5, <1>6 DEF Inv, Shape

LEMMA OpenStep ==
    ASSUME Inv, NEW w \in Writers, Open(w) PROVE Inv'
<1> USE DEF Open, Goto, saveVars, history
<1>1. /\ pc[w] = "open" /\ pc'[w] = "dump" /\ file' = Emptied
      /\ \A v \in Writers : v # w => pc'[v] = pc[v]
  BY DEF Inv, Shape, TypeOK
<1>2. TypeOK'
  BY DEF Inv, Shape, TypeOK, Unreadable
<1>3. w \notin orphan
  BY <1>1 DEF Inv, Shape, Orphans
<1>4. TakesTurns' /\ Orphans'
  BY <1>1 DEF Inv, Shape, TakesTurns, Orphans, Writers
<1>5. Untouched' /\ ReadableUnlessCut'
  BY <1>1, <1>3 DEF Untouched, ReadableUnlessCut
<1>6. ResetComing'
  BY <1>1 DEF Inv, ResetComing, SessionComing, Writers
<1>7. WriteComing'
  BY <1>1 DEF Inv, WriteComing, Writers
<1> QED
  BY <1>2, <1>4, <1>5, <1>6, <1>7 DEF Inv, Shape

\* A writer that fails to open the file leaves it as it is.
LEMMA OpenFailsStep ==
    ASSUME Inv, NEW w \in Writers, OpenFails(w) PROVE Inv'
<1> USE DEF OpenFails, Goto, saveVars
<1>1. /\ pc[w] = "open" /\ pc'[w] = AfterDump(w)
      /\ AfterDump(w) = IF w = "main" THEN "read" ELSE "after"
      /\ \A v \in Writers : v # w => pc'[v] = pc[v] /\ snap'[v] = snap[v]
  BY DEF Inv, Shape, TypeOK, AfterDump
<1>2. TypeOK'
  <2>1. pc' \in [Writers -> {"idle", "compare", "apply", "build", "open", "dump",
                             "after", "remove", "stop", "boot", "read"}]
    BY <1>1 DEF Inv, Shape, TypeOK
  <2>2. snap' \in [Writers -> Settings]
    BY DefaultType DEF Inv, Shape, TypeOK
  <2>3. unsaved' \in BOOLEAN
    OBVIOUS
  <2> QED
    BY <2>1, <2>2, <2>3, Zenon DEF Inv, Shape, TypeOK
<1>3. TakesTurns' /\ Orphans'
  BY <1>1 DEF Inv, Shape, TakesTurns, Orphans, Writers
<1>4. Untouched' /\ ReadableUnlessCut'
  BY <1>1 DEF Inv, Untouched, ReadableUnlessCut
<1>5. ResetComing'
  BY <1>1 DEF Inv, Shape, TakesTurns, ResetComing, SessionComing, Writers
<1>6. WriteComing'
  BY DEF WriteComing
<1> QED
  BY <1>2, <1>3, <1>4, <1>5, <1>6 DEF Inv, Shape

LEMMA DumpStep ==
    ASSUME Inv, NEW w \in Writers, Dump(w) PROVE Inv'
<1> USE DEF Dump, Goto, saveVars
<1>1. /\ pc[w] = "dump" /\ pc'[w] = AfterDump(w)
      /\ AfterDump(w) = IF w = "main" THEN "read" ELSE "after"
      /\ \A v \in Writers : v # w => pc'[v] = pc[v] /\ snap'[v] = snap[v]
  BY DEF Inv, Shape, TypeOK, AfterDump
<1>2. file' \in {file, snap[w], Torn} /\ snap[w] \in Settings
  BY DEF Inv, Shape, TypeOK
<1>3. TypeOK'
  <2>1. file' \in Settings \cup Unreadable \cup {Absent}
    BY <1>2 DEF Inv, Shape, TypeOK, Unreadable
  <2>2. pc' \in [Writers -> {"idle", "compare", "apply", "build", "open", "dump",
                             "after", "remove", "stop", "boot", "read"}]
    BY <1>1 DEF Inv, Shape, TypeOK
  <2>3. snap' \in [Writers -> Settings] /\ orphan' \subseteq Writers
    BY DefaultType DEF Inv, Shape, TypeOK
  <2>4. unsaved' \in BOOLEAN
    BY DEF Inv, Shape, TypeOK
  <2>5. mixed' \in BOOLEAN
    BY DEF Inv, Shape, TypeOK
  <2> QED
    BY <2>1, <2>2, <2>3, <2>4, <2>5, Zenon DEF Inv, Shape, TypeOK
<1>4. TakesTurns' /\ Orphans'
  <2>1. TakesTurns'
    BY <1>1 DEF Inv, Shape, TakesTurns, Writers
  <2>2. w = "window" \/ orphan = {}
    BY <1>1 DEF Inv, Shape, TakesTurns, Orphans, Writers
  <2>3. orphan' = {}
    BY <2>2 DEF Inv, Shape, Orphans
  <2> QED
    BY <2>1, <2>3 DEF Orphans
<1>5. ASSUME ~mixed' PROVE ~mixed /\ \A v \in Writers : v # w => pc[v] # "dump"
  BY <1>5 DEF Overlaps
<1>6. Untouched'
  BY <1>1, <1>5 DEF Untouched, AfterDump
<1>7. ReadableUnlessCut'
  <2> SUFFICES ASSUME file' \in Unreadable, ~cut, ~mixed'
               PROVE  \E v \in Writers : pc'[v] = "dump" /\ v \notin orphan'
    BY DEF ReadableUnlessCut
  <2>1. CASE w \in orphan
    <3>1. PICK v \in Writers : pc[v] = "dump" /\ v \notin orphan
      BY <1>5, <2>1 DEF Inv, ReadableUnlessCut
    <3> QED
      BY <1>1, <2>1, <3>1
  <2>2. CASE w \notin orphan
    <3>1. file = Emptied
      BY <1>1, <1>5, <2>2 DEF Inv, Untouched
    <3>2. file' = snap[w]
      BY <2>2, <3>1
    <3> QED
      BY <1>2, <3>2, FilesAssumption
  <2> QED
    BY <2>1, <2>2
<1>8. ResetComing'
  BY <1>1 DEF Inv, Shape, TakesTurns, ResetComing, SessionComing, Writers
<1>9. WriteComing'
  <2> SUFFICES ASSUME pc'["main"] = "idle", pc'["worker"] # "remove", ~unsaved'
               PROVE  WriteComing'
    BY DEF WriteComing
  <2>1. w # "main" /\ pc["main"] = "idle" /\ orphan = {}
    BY <1>1 DEF Inv, Shape, Orphans, Writers
  <2>2. \A v \in Writers : v # w => pc[v] \notin {"build", "open", "dump"}
    <3>1. ~Overlaps(w)
      OBVIOUS
    <3> QED
      BY <3>1 DEF Overlaps
  <2>3. file = Emptied /\ snap[w] = app
    <3>1. CASE ~unsaved
      BY <1>1, <2>1, <3>1 DEF Inv, WriteComing, Writers
    <3>2. CASE unsaved
      <4>1. ~Overlaps(w)
        BY <2>2 DEF Overlaps
      <4> QED
        BY <3>2, <4>1
    <3> QED
      BY <3>1, <3>2
  <2>4. file' = app
    BY <2>1, <2>3
  <2>5. \A v \in Writers : pc'[v] \notin {"open", "dump"}
    BY <1>1, <2>2
  <2> QED
    BY <2>4, <2>5 DEF WriteComing, Writers
<1> QED
  BY <1>3, <1>4, <1>6, <1>7, <1>8, <1>9 DEF Inv, Shape
\* One that fails to write counts as cut off.
LEMMA DumpFailsStep ==
    ASSUME Inv, NEW w \in Writers, DumpFails(w) PROVE Inv'
<1> USE DEF DumpFails, Goto, saveVars
<1>1. /\ pc[w] = "dump" /\ pc'[w] = AfterDump(w)
      /\ AfterDump(w) = IF w = "main" THEN "read" ELSE "after"
      /\ \A v \in Writers : v # w => pc'[v] = pc[v] /\ snap'[v] = snap[v]
  BY DEF Inv, Shape, TypeOK, AfterDump
<1>2. TypeOK'
  <2>1. file' \in Settings \cup Unreadable \cup {Absent}
    BY DEF Inv, Shape, TypeOK, Unreadable
  <2>2. pc' \in [Writers -> {"idle", "compare", "apply", "build", "open", "dump",
                             "after", "remove", "stop", "boot", "read"}]
    BY <1>1 DEF Inv, Shape, TypeOK
  <2>3. snap' \in [Writers -> Settings] /\ orphan' \subseteq Writers
    BY DefaultType DEF Inv, Shape, TypeOK
  <2>4. unsaved' \in BOOLEAN
    OBVIOUS
  <2>5. mixed' \in BOOLEAN
    BY DEF Inv, Shape, TypeOK
  <2>6. cut' \in BOOLEAN
    BY DEF Inv, Shape, TypeOK
  <2> QED
    BY <2>1, <2>2, <2>3, <2>4, <2>5, <2>6, Zenon DEF Inv, Shape, TypeOK
<1>3. TakesTurns' /\ Orphans'
  <2>1. TakesTurns'
    BY <1>1 DEF Inv, Shape, TakesTurns, Writers
  <2>2. w = "window" \/ orphan = {}
    BY <1>1 DEF Inv, Shape, TakesTurns, Orphans, Writers
  <2>3. orphan' = {}
    BY <2>2 DEF Inv, Shape, Orphans
  <2> QED
    BY <2>1, <2>3 DEF Orphans
<1>4. ASSUME ~mixed' PROVE ~mixed /\ \A v \in Writers : v # w => pc[v] # "dump"
  BY <1>4 DEF Overlaps
<1>5. Untouched'
  BY <1>1, <1>4 DEF Untouched, AfterDump
<1>6. ReadableUnlessCut'
  <2> SUFFICES ASSUME file' \in Unreadable, ~cut', ~mixed'
               PROVE  \E v \in Writers : pc'[v] = "dump" /\ v \notin orphan'
    BY DEF ReadableUnlessCut
  <2>1. w \in orphan /\ file' = file /\ ~cut
    OBVIOUS
  <2>2. PICK v \in Writers : pc[v] = "dump" /\ v \notin orphan
    BY <1>4, <2>1 DEF Inv, ReadableUnlessCut
  <2> QED
    BY <1>1, <2>1, <2>2
<1>7. ResetComing'
  BY <1>1 DEF Inv, Shape, TakesTurns, ResetComing, SessionComing, Writers
<1>8. WriteComing'
  BY DEF WriteComing
<1> QED
  BY <1>2, <1>3, <1>5, <1>6, <1>7, <1>8 DEF Inv, Shape

-----------------------------------------------------------------------------
(* The steps that leave the file alone.                                    *)

LEMMA GotoFacts ==
    ASSUME TypeOK, NEW w \in Writers, NEW ph, Goto(w, ph)
    PROVE  pc'[w] = ph /\ \A v \in Writers : v # w => pc'[v] = pc[v]
  BY DEF TypeOK, Goto

\* Such a step, of a writer that is not at its write before nor after, keeps
\* what is said of the file.
LEMMA FileKept ==
    ASSUME Inv, UNCHANGED <<file, snap, orphan, cut, mixed>>,
           \A w \in Writers : pc'[w] = "dump" <=> pc[w] = "dump"
    PROVE  Untouched' /\ ReadableUnlessCut'
  BY DEF Inv, Untouched, ReadableUnlessCut

LEMMA SaveBeginStep ==
    ASSUME Inv, NEW p \in Payloads, SaveBegin(p) PROVE Inv'
<1> USE DEF SaveBegin, Serving, history
<1>1. /\ pc'["worker"] = "compare" /\ pc["worker"] = "idle" /\ pc["main"] = "idle"
      /\ \A v \in Writers : v # "worker" => pc'[v] = pc[v]
  BY GotoFacts DEF Inv, Shape, Writers
<1>2. TypeOK'
  BY DEF Inv, Shape, TypeOK, Goto
<1>3. TakesTurns' /\ Orphans'
  BY <1>1 DEF Inv, Shape, TakesTurns, Orphans, Writers
<1>4. Untouched' /\ ReadableUnlessCut'
  BY <1>1, FileKept
<1>5. ResetComing'
  BY <1>1 DEF Inv, ResetComing, SessionComing, Writers
<1>6. WriteComing'
  BY <1>1 DEF Inv, WriteComing, Writers
<1> QED
  BY <1>2, <1>3, <1>4, <1>5, <1>6 DEF Inv, Shape

LEMMA CompareStep == ASSUME Inv, Compare PROVE Inv'
<1> USE DEF Compare, history
<1>1. /\ pc'["worker"] = "apply" /\ pc["worker"] = "compare"
      /\ \A v \in Writers : v # "worker" => pc'[v] = pc[v]
  BY GotoFacts DEF Inv, Shape, Writers
<1>2. TypeOK'
  <2>1. reset' \in BOOLEAN
    OBVIOUS
  <2> QED
    BY <2>1 DEF Inv, Shape, TypeOK, Goto
<1>3. TakesTurns' /\ Orphans'
  BY <1>1 DEF Inv, Shape, TakesTurns, Orphans, Writers
<1>4. Untouched' /\ ReadableUnlessCut'
  BY <1>1, FileKept
<1>5. ResetComing'
  BY <1>1 DEF Inv, ResetComing, SessionComing, Writers
<1>6. WriteComing'
  BY <1>1 DEF Inv, WriteComing, Writers
<1> QED
  BY <1>2, <1>3, <1>4, <1>5, <1>6 DEF Inv, Shape

LEMMA SetFieldStep ==
    ASSUME Inv, NEW f \in Fields, SetField(f) PROVE Inv'
<1> USE DEF SetField
<1>0. PICK ph \in {"build", "apply"} : Goto("worker", ph)
  OBVIOUS
<1>1. /\ pc'["worker"] \in {"build", "apply"} /\ pc["worker"] = "apply"
      /\ \A v \in Writers : v # "worker" => pc'[v] = pc[v]
  BY <1>0, GotoFacts DEF Inv, Shape, Writers
<1>2. TypeOK'
  <2>1. app' \in Settings
    BY FieldType DEF Inv, Shape
  <2>2. pc' \in [Writers -> {"idle", "compare", "apply", "build", "open", "dump",
                             "after", "remove", "stop", "boot", "read"}]
    BY <1>0 DEF Inv, Shape, TypeOK, Goto
  <2>3. todo' \subseteq Fields
    BY DEF Inv, Shape, TypeOK
  <2>4. missed' \in BOOLEAN
    BY DEF Inv, Shape, TypeOK
  <2>5. unsaved' \in BOOLEAN
    BY DEF Inv, Shape, TypeOK
  <2> QED
    BY <2>1, <2>2, <2>3, <2>4, <2>5, Zenon DEF Inv, Shape, TypeOK
<1>3. TakesTurns' /\ Orphans'
  BY <1>1 DEF Inv, Shape, TakesTurns, Orphans, Writers
<1>4. Untouched' /\ ReadableUnlessCut'
  BY <1>1, FileKept
<1>5. ResetComing'
  <2>1. session = app' \/ SessionComing \/ missed' \/ reset
    OBVIOUS
  <2>2. SessionComing' = SessionComing /\ session' = session /\ reset' = reset
    BY DEF SessionComing
  <2> QED
    BY <1>1, <2>1, <2>2 DEF ResetComing
<1>6. WriteComing'
  <2>1. CASE app' = app
    BY <1>1, <2>1 DEF Inv, WriteComing, Writers
  <2>2. CASE app' # app
    <3>1. unsaved' \/ pc["window"] = "idle"
      BY <2>2
    <3> QED
      BY <1>1, <3>1 DEF WriteComing, Writers
  <2> QED
    BY <2>1, <2>2
<1> QED
  BY <1>2, <1>3, <1>4, <1>5, <1>6 DEF Inv, Shape

LEMMA SetThrowsStep ==
    ASSUME Inv, NEW f \in Fields, SetThrows(f) PROVE Inv'
<1> USE DEF SetThrows, Discard
<1>1. /\ pc'["worker"] = "idle" /\ pc["worker"] = "apply"
      /\ \A v \in Writers : v # "worker" => pc'[v] = pc[v]
  BY GotoFacts DEF Inv, Shape, Writers
<1>2. TypeOK'
  <2>1. missed' \in BOOLEAN
    BY DEF Inv, Shape, TypeOK
  <2>2. unsaved' \in BOOLEAN
    OBVIOUS
  <2>3. pc' \in [Writers -> {"idle", "compare", "apply", "build", "open", "dump",
                             "after", "remove", "stop", "boot", "read"}]
    BY DEF Inv, Shape, TypeOK, Goto
  <2>4. payload' \in Payloads /\ todo' \subseteq Fields
    BY DefaultType
  <2>5. reset' \in BOOLEAN
    OBVIOUS
  <2> QED
    BY <2>1, <2>2, <2>3, <2>4, <2>5, Zenon DEF Inv, Shape, TypeOK
<1>3. TakesTurns' /\ Orphans'
  BY <1>1 DEF Inv, Shape, TakesTurns, Orphans, Writers
<1>4. Untouched' /\ ReadableUnlessCut'
  BY <1>1, FileKept
<1>5. ResetComing'
  <2>1. session = app \/ SessionComing \/ missed'
    OBVIOUS
  <2> QED
    BY <2>1 DEF ResetComing, SessionComing
<1>6. WriteComing'
  BY DEF WriteComing
<1> QED
  BY <1>2, <1>3, <1>4, <1>5, <1>6 DEF Inv, Shape

LEMMA SaveEndStep == ASSUME Inv, SaveEnd PROVE Inv'
<1> USE DEF SaveEnd, Discard, history
<1>1. /\ pc'["worker"] = "idle" /\ pc["worker"] = "after"
      /\ \A v \in Writers : v # "worker" => pc'[v] = pc[v]
  BY GotoFacts DEF Inv, Shape, Writers
<1>2. TypeOK'
  <2>1. needReset' \in BOOLEAN
    BY DEF Inv, Shape, TypeOK
  <2> QED
    BY <2>1, DefaultType DEF Inv, Shape, TypeOK, Goto
<1>3. TakesTurns' /\ Orphans'
  BY <1>1 DEF Inv, Shape, TakesTurns, Orphans, Writers
<1>4. Untouched' /\ ReadableUnlessCut'
  BY <1>1, FileKept
<1>5. ResetComing'
  BY <1>1 DEF Inv, ResetComing, SessionComing, Writers
<1>6. WriteComing'
  BY <1>1 DEF Inv, WriteComing, Writers
<1> QED
  BY <1>2, <1>3, <1>4, <1>5, <1>6 DEF Inv, Shape

LEMMA SwitchStep ==
    ASSUME Inv, NEW m \in Modes, Switch(m) PROVE Inv'
<1> USE DEF Switch, saveVars, WindowOpen
<1>1. /\ pc'["window"] = "build" /\ pc["window"] = "idle"
      /\ pc["main"] \in {"idle", "stop"}
      /\ \A v \in Writers : v # "window" => pc'[v] = pc[v]
  BY GotoFacts DEF Inv, Shape, Writers
<1>2. TypeOK'
  <2>1. app' \in Settings
    BY DEF Inv, Shape, TypeOK, Settings
  <2>2. unsaved' \in BOOLEAN
    BY DEF Inv, Shape, TypeOK
  <2>3. pc' \in [Writers -> {"idle", "compare", "apply", "build", "open", "dump",
                             "after", "remove", "stop", "boot", "read"}]
    BY DEF Inv, Shape, TypeOK, Goto
  <2> QED
    BY <2>1, <2>2, <2>3, Zenon DEF Inv, Shape, TypeOK
<1>3. TakesTurns' /\ Orphans'
  BY <1>1 DEF Inv, Shape, TakesTurns, Orphans, Writers
<1>4. Untouched' /\ ReadableUnlessCut'
  BY <1>1, FileKept
<1>5. ResetComing'
  BY <1>1 DEF ResetComing, SessionComing
<1>6. WriteComing'
  <2>1. unsaved' \/ pc["worker"] = "idle"
    OBVIOUS
  <2> QED
    BY <1>1, <2>1 DEF WriteComing, Writers
<1> QED
  BY <1>2, <1>3, <1>4, <1>5, <1>6 DEF Inv, Shape

LEMMA SwitchEndStep == ASSUME Inv, SwitchEnd PROVE Inv'
<1> USE DEF SwitchEnd, saveVars
<1>1. /\ pc'["window"] = "idle" /\ pc["window"] = "after"
      /\ \A v \in Writers : v # "window" => pc'[v] = pc[v]
  BY GotoFacts DEF Inv, Shape, Writers
<1>2. TypeOK'
  <2>1. missed' \in BOOLEAN
    BY DEF Inv, Shape, TypeOK
  <2>2. restart' \in {"none", "stopping", "spawned"}
    BY DEF Inv, Shape, TypeOK
  <2>3. pc' \in [Writers -> {"idle", "compare", "apply", "build", "open", "dump",
                             "after", "remove", "stop", "boot", "read"}]
    BY DEF Inv, Shape, TypeOK, Goto
  <2> QED
    BY <2>1, <2>2, <2>3, Zenon DEF Inv, Shape, TypeOK
<1>3. TakesTurns' /\ Orphans'
  BY <1>1 DEF Inv, Shape, TakesTurns, Orphans, Writers
<1>4. Untouched' /\ ReadableUnlessCut'
  BY <1>1, FileKept
<1>5. ResetComing'
  <2>1. CASE restart = "none"
    BY <2>1 DEF ResetComing, SessionComing
  <2>2. CASE restart # "none"
    <3>1. session = app \/ SessionComing \/ missed'
      BY <2>2
    <3> QED
      BY <2>2, <3>1 DEF ResetComing, SessionComing
  <2> QED
    BY <2>1, <2>2
<1>6. WriteComing'
  BY <1>1 DEF Inv, WriteComing, Writers
<1> QED
  BY <1>2, <1>3, <1>4, <1>5, <1>6 DEF Inv, Shape

\* The thread of restartFetch.
LEMMA RestartStep == ASSUME Inv, Spawn \/ Release PROVE Inv'
<1> USE DEF Spawn, Release, saveVars, history
<1>1. TypeOK'
  <2>1. needReset' \in BOOLEAN
    BY DEF Inv, Shape, TypeOK
  <2>2. restart' \in {"none", "stopping", "spawned"}
    OBVIOUS
  <2> QED
    BY <2>1, <2>2, Zenon DEF Inv, Shape, TypeOK
<1>2. TakesTurns' /\ Orphans' /\ WriteComing'
  BY DEF Inv, Shape, TakesTurns, Orphans, WriteComing
<1>3. Untouched' /\ ReadableUnlessCut'
  BY FileKept
<1>4. ResetComing'
  BY DEF Inv, ResetComing, SessionComing
<1> QED
  BY <1>1, <1>2, <1>3, <1>4 DEF Inv, Shape

LEMMA NewSessionStep == ASSUME Inv, NewSession PROVE Inv'
<1> USE DEF NewSession, saveVars
<1>1. TypeOK'
  BY DEF Inv, Shape, TypeOK
<1>2. TakesTurns' /\ Orphans' /\ WriteComing'
  BY DEF Inv, Shape, TakesTurns, Orphans, WriteComing
<1>3. Untouched' /\ ReadableUnlessCut'
  BY FileKept
<1>4. ResetComing'
  BY DEF ResetComing, SessionComing
<1> QED
  BY <1>1, <1>2, <1>3, <1>4 DEF Inv, Shape

LEMMA ResetToDefaultsStep == ASSUME Inv, ResetToDefaults PROVE Inv'
<1> USE DEF ResetToDefaults, Serving, saveVars, history
<1>1. /\ pc'["worker"] = "remove" /\ pc["worker"] = "idle" /\ pc["main"] = "idle"
      /\ \A v \in Writers : v # "worker" => pc'[v] = pc[v]
  BY GotoFacts DEF Inv, Shape, Writers
<1>2. TypeOK'
  BY DefaultType DEF Inv, Shape, TypeOK, Goto
<1>3. TakesTurns' /\ Orphans'
  BY <1>1 DEF Inv, Shape, TakesTurns, Orphans, Writers
<1>4. Untouched' /\ ReadableUnlessCut'
  BY <1>1, FileKept
<1>5. ResetComing' /\ WriteComing'
  BY <1>1 DEF ResetComing, SessionComing, WriteComing
<1> QED
  BY <1>2, <1>3, <1>4, <1>5 DEF Inv, Shape

-----------------------------------------------------------------------------
(* Removal, restart, boot and crash.                                       *)

LEMMA RemoveStep == ASSUME Inv, Remove PROVE Inv'
<1> USE DEF Remove, saveVars, history
<1>1. /\ pc["worker"] = "remove" /\ pc["main"] = "idle"
      /\ pc'["worker"] = "idle" /\ pc'["main"] = "stop"
      /\ pc'["window"] = pc["window"]
  BY DEF Inv, Shape, TypeOK, TakesTurns, Writers
<1>2. TypeOK'
  BY DEF Inv, Shape, TypeOK
<1>3. TakesTurns'
  BY <1>1 DEF Inv, Shape, TakesTurns
<1>4. Orphans'
  <2>1. \A w \in Writers : pc[w] = "dump" => w = "window"
    BY <1>1 DEF Writers
  <2>2. CASE pc["window"] = "dump"
    <3>1. orphan' = {"window"}
      BY <2>1, <2>2 DEF Writers
    <3> QED
      BY <1>1, <2>2, <3>1 DEF Orphans
  <2>3. CASE pc["window"] # "dump"
    <3>1. orphan' = {}
      BY <2>1, <2>3
    <3> QED
      BY <3>1 DEF Orphans
  <2> QED
    BY <2>2, <2>3
<1>5. Untouched'
  BY <1>1 DEF Untouched, Writers
<1>6. ReadableUnlessCut'
  BY FilesAssumption DEF ReadableUnlessCut
<1>7. ResetComing' /\ WriteComing'
  BY <1>1 DEF ResetComing, SessionComing, WriteComing
<1> QED
  BY <1>2, <1>3, <1>4, <1>5, <1>6, <1>7 DEF Inv, Shape

LEMMA RemoveFailsStep == ASSUME Inv, RemoveFails PROVE Inv'
<1> USE DEF RemoveFails, saveVars
<1>1. /\ pc'["worker"] = "idle" /\ pc["worker"] = "remove"
      /\ \A v \in Writers : v # "worker" => pc'[v] = pc[v]
  BY GotoFacts DEF Inv, Shape, Writers
<1>2. TypeOK'
  <2>1. missed' \in BOOLEAN
    BY DEF Inv, Shape, TypeOK
  <2>2. unsaved' \in BOOLEAN
    OBVIOUS
  <2>3. pc' \in [Writers -> {"idle", "compare", "apply", "build", "open", "dump",
                             "after", "remove", "stop", "boot", "read"}]
    BY DEF Inv, Shape, TypeOK, Goto
  <2> QED
    BY <2>1, <2>2, <2>3, Zenon DEF Inv, Shape, TypeOK
<1>3. TakesTurns' /\ Orphans'
  BY <1>1 DEF Inv, Shape, TakesTurns, Orphans, Writers
<1>4. Untouched' /\ ReadableUnlessCut'
  BY <1>1, FileKept
<1>5. ResetComing'
  <2>1. session = app \/ SessionComing \/ missed'
    OBVIOUS
  <2> QED
    BY <2>1 DEF ResetComing, SessionComing
<1>6. WriteComing'
  BY DEF WriteComing
<1> QED
  BY <1>2, <1>3, <1>4, <1>5, <1>6 DEF Inv, Shape

\* Main goes from one place to the next and does nothing else.
LEMMA MainStep ==
    ASSUME Inv, Restart \/ StopWindow \/ Boot PROVE Inv'
<1> USE DEF Restart, StopWindow, Boot, Serving, saveVars, history
<1>1. PICK ph \in {"stop", "boot", "build", "read"} : Goto("main", ph)
  OBVIOUS
<1>2. /\ pc'["main"] = ph
      /\ pc'["worker"] = pc["worker"] /\ pc'["window"] = pc["window"]
  BY <1>1, GotoFacts DEF Inv, Shape, Writers
<1>3. TypeOK'
  BY <1>1 DEF Inv, Shape, TypeOK, Goto
<1>4. /\ pc["main"] \in {"idle", "stop", "boot"}
      /\ ph = "stop" \/ pc["window"] = "idle"
      /\ pc["worker"] = "idle"
  <2>1. CASE Restart
    <3>1. pc'["main"] = "stop"
      BY <2>1, GotoFacts DEF Inv, Shape, Writers
    <3> QED
      BY <1>2, <2>1, <3>1
  <2>2. CASE StopWindow \/ Boot
    BY <2>2 DEF Inv, Shape, TakesTurns
  <2> QED
    BY <2>1, <2>2
<1>5. TakesTurns'
  BY <1>2, <1>4 DEF Inv, Shape, TakesTurns
<1>6. Orphans'
  BY <1>2, <1>4 DEF Inv, Shape, Orphans
<1>7. Untouched' /\ ReadableUnlessCut'
  BY <1>2, <1>4, FileKept DEF Writers
<1>8. ResetComing' /\ WriteComing'
  BY <1>2 DEF ResetComing, SessionComing, WriteComing
<1> QED
  BY <1>3, <1>5, <1>6, <1>7, <1>8 DEF Inv, Shape

LEMMA ReadStep == ASSUME Inv, NEW opened \in BOOLEAN, Read(opened) PROVE Inv'
<1> USE DEF Read, saveVars
<1>1. /\ pc'["main"] = "idle" /\ pc["main"] = "read"
      /\ \A v \in Writers : v # "main" => pc'[v] = pc[v]
  BY GotoFacts DEF Inv, Shape, Writers
<1>2. pc["worker"] = "idle" /\ pc["window"] = "idle"
  BY <1>1 DEF Inv, Shape, TakesTurns
<1>3. TypeOK'
  <2>1. app' \in Settings
    BY DEF Inv, Shape, TypeOK
  <2>2. unsaved' \in BOOLEAN
    OBVIOUS
  <2>3. pc' \in [Writers -> {"idle", "compare", "apply", "build", "open", "dump",
                             "after", "remove", "stop", "boot", "read"}]
    BY DEF Inv, Shape, TypeOK, Goto
  <2>4. needReset' \in BOOLEAN
    OBVIOUS
  <2> QED
    BY <2>1, <2>2, <2>3, <2>4, Zenon DEF Inv, Shape, TypeOK
<1>4. TakesTurns' /\ Orphans'
  BY <1>1, <1>2 DEF Inv, Shape, TakesTurns, Orphans, Writers
<1>5. Untouched' /\ ReadableUnlessCut'
  BY <1>1, FileKept
<1>6. ResetComing'
  BY DEF ResetComing, SessionComing
<1>7. WriteComing'
  BY <1>1, <1>2 DEF WriteComing, Writers
<1> QED
  BY <1>3, <1>4, <1>5, <1>6, <1>7 DEF Inv, Shape

LEMMA CrashStep == ASSUME Inv, Crash PROVE Inv'
<1> USE DEF Crash, Discard
<1>1. pc'["main"] = "boot" /\ pc'["worker"] = "idle" /\ pc'["window"] = "idle"
  BY DEF Writers
<1>2. TypeOK'
  <2>1. cut' \in BOOLEAN
    BY DEF Inv, Shape, TypeOK
  <2> QED
    BY <2>1, DefaultType DEF Inv, Shape, TypeOK, Writers
<1>3. orphan' = {}
  OBVIOUS
<1>4. TakesTurns' /\ Orphans'
  BY <1>1, <1>3 DEF TakesTurns, Orphans
<1>5. Untouched'
  BY <1>1 DEF Untouched, Writers
<1>6. ReadableUnlessCut'
  BY DEF Inv, ReadableUnlessCut
<1>7. ResetComing' /\ WriteComing'
  BY <1>1 DEF ResetComing, SessionComing, WriteComing
<1> QED
  BY <1>2, <1>4, <1>5, <1>6, <1>7 DEF Inv, Shape

-----------------------------------------------------------------------------
LEMMA StepInv == Inv /\ [Next]_vars => Inv'
<1> SUFFICES ASSUME Inv, [Next]_vars PROVE Inv'
  OBVIOUS
<1>1. CASE UNCHANGED vars
  <2>1. TypeOK' /\ TakesTurns' /\ Orphans'
    BY <1>1 DEF vars, saveVars, history, Inv, Shape, TypeOK, TakesTurns, Orphans
  <2>2. Untouched' /\ ReadableUnlessCut' /\ ResetComing' /\ WriteComing'
    BY <1>1 DEF vars, saveVars, history, Inv, Untouched, ReadableUnlessCut,
       ResetComing, SessionComing, WriteComing
  <2> QED
    BY <2>1, <2>2 DEF Inv, Shape
<1>2. CASE \E w \in Writers : Write(w)
  BY <1>2, BuildStep, OpenStep, OpenFailsStep, DumpStep, DumpFailsStep DEF Write
<1>3. CASE \/ \E p \in Payloads : SaveBegin(p)
           \/ Compare
           \/ \E f \in Fields : SetField(f) \/ SetThrows(f)
           \/ SaveEnd
  BY <1>3, SaveBeginStep, CompareStep, SetFieldStep, SetThrowsStep, SaveEndStep
<1>4. CASE \/ \E m \in Modes : Switch(m)
           \/ SwitchEnd
           \/ Spawn \/ Release
           \/ NewSession
           \/ ResetToDefaults
  BY <1>4, SwitchStep, SwitchEndStep, RestartStep, NewSessionStep, ResetToDefaultsStep
<1>5. CASE \/ Remove \/ RemoveFails \/ Restart \/ StopWindow \/ Boot \/ Crash
           \/ \E opened \in BOOLEAN : Read(opened)
  BY <1>5, RemoveStep, RemoveFailsStep, MainStep, ReadStep, CrashStep
<1> QED
  BY <1>1, <1>2, <1>3, <1>4, <1>5, Zenon DEF Next

LEMMA AlwaysInv == Spec => []Inv
  BY InitInv, StepInv, PTL DEF Spec

\* The types of the model, for any users and modes.
THEOREM SettingsTypes == Spec => []TypeOK
<1>1. Inv => TypeOK
  BY DEF Inv, Shape
<1> QED
  BY <1>1, AlwaysInv, PTL

\* Only a write that is cut, or two that overlap, leave an unreadable file.
THEOREM ReadableSafety == Spec => []ReadableUnlessCut
<1>1. Inv => ReadableUnlessCut
  BY DEF Inv
<1> QED
  BY <1>1, AlwaysInv, PTL

\* What is in force is on disk when nobody is at work.
THEOREM DurableSafety == Spec => []Durable
<1>1. Inv => Durable
  BY DEF Inv, Durable, AtRest, WriteComing, Writers
<1> QED
  BY <1>1, AlwaysInv, PTL

\* When nobody is at work and no reset is coming, the session is about what is
\* in force.
THEOREM SessionSafety == Spec => []SessionFollows
<1>1. Inv => SessionFollows
  BY DEF Inv, SessionFollows, AtRest, ResetComing, SessionComing, Writers
<1> QED
  BY <1>1, AlwaysInv, PTL
=============================================================================
