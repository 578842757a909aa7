------------------------ MODULE SessionBaselineProofs ------------------------
(***************************************************************************)
(* Proofs about SessionBaseline, for any selections of the two servers and *)
(* any groups of entries.                                                  *)
(*                                                                         *)
(* The properties speak of a tracker at rest; Inductive says what leads    *)
(* there: which thread of a poll may be where (Staged), that a poll asks   *)
(* for what is selected while that stays what it was when the session      *)
(* began (OneServer, AsksSelected), and what the values, the flag          *)
(* init_api_failed and the recovery stand for in the middle of a poll      *)
(* (Identity, Kept, Recovered).                                            *)
(***************************************************************************)
EXTENDS SessionBaseline, TLAPS

\* A thread of a poll has a request out, or uses the answer to one.
Asking == {"sent", "target", "resent"}

Recovering == {"again", "resent"}

\* Where the threads may be: off between two polls, and in a poll on the way
\* of the server it branched on.
Staged ==
    /\ server = "none" => \A t \in Tasks : task[t] = "off"
    /\ server = "bancho" => \A t \in Tasks : task[t] \notin Recovering
    /\ server = "titanic" =>
          /\ task["t1"] \in {"request", "sent", "again", "resent", "done"}
          /\ task["t2"] = "done" /\ task["t3"] = "done"

\* Without a change of the selection, a poll branched on the server that is selected
\* and its requests are for the selection.
OneServer == ~changed => server \in {"none", cfg.server}

AsksSelected ==
    \A t \in Tasks : task[t] \in Asking =>
        /\ ask[t] \in Values
        /\ ~changed => ask[t] = Selected

\* OneIdentity holds in the middle of a poll too.
Identity ==
    ~changed /\ cleared =>
        \A g \in Groups : init[g] \in {Selected, Empty} /\ current[g] \in {Selected, Empty}

\* In a session that did not begin with the flag up, the flag of Titanic says
\* that there is no baseline yet, and so does a recovery.
Kept ==
    ~changed /\ ~carried =>
        /\ ~rebased
        /\ loopInit /\ based => task["t1"] = "done"
        /\ cfg.server = "titanic" =>
              /\ initFailed \/ task["t1"] \in Recovering => ~based
              /\ loopInit /\ task["t1"] # "done" => ~initFailed

\* The first poll of Titanic leaves a baseline or the flag.
Recovered ==
    /\ ~changed
    /\ cfg.server = "titanic"
    /\ ~unrecovered
    /\ task["t1"] \notin Recovering
    /\ answered \/ (~initFailed /\ (~loopInit \/ task["t1"] = "done"))
    => init["tail"] = Selected

Inductive ==
    /\ TypeOK
    /\ Staged
    /\ OneServer
    /\ AsksSelected
    /\ Identity
    /\ Kept
    /\ Recovered

-----------------------------------------------------------------------------
(* What is asked for, and what is written.                                 *)

LEMMA SelectedType == TypeOK => Selected \in Values
BY ConfigsAssumption DEF TypeOK, Selected, Values, Servers, Modes

\* A request names the server of the poll and the player and mode selected.
LEMMA AskedType ==
    ASSUME TypeOK, server # "none"
    PROVE  /\ Asked \in Values
           /\ server = cfg.server => Asked = Selected
BY ConfigsAssumption DEF TypeOK, Asked, Selected, Values, Servers, Modes

\* The mode read when the answer is here changes nothing without a switch.
LEMMA TitanicValueType ==
    ASSUME TypeOK, AsksSelected, task["t1"] \in Asking
    PROVE  /\ TitanicValue \in Values
           /\ ~changed => TitanicValue = Selected
<1>1. ask["t1"] \in Values /\ (~changed => ask["t1"] = Selected)
  BY DEF AsksSelected, Tasks
<1>2. cfg.mode \in Modes
  BY DEF TypeOK, Modes
<1>3. QED
  BY <1>1, <1>2 DEF TitanicValue, Values, Selected

\* setField leaves the entries of other groups, and their baselines.
LEMMA FieldsWrite ==
    ASSUME NEW gs, NEW v, NEW setInit \in BOOLEAN, Fields(gs, v, setInit),
           NEW g \in Groups
    PROVE  /\ current'[g] = IF g \in gs THEN v ELSE current[g]
           /\ init'[g] = IF setInit /\ g \in gs THEN v ELSE init[g]
BY DEF Fields

LEMMA FieldsType ==
    ASSUME TypeOK, NEW gs, NEW v \in Values, NEW setInit \in BOOLEAN,
           Fields(gs, v, setInit)
    PROVE  /\ init' \in [Groups -> Values \cup {Empty}]
           /\ current' \in [Groups -> Values \cup {Empty}]
           /\ rebased' \in BOOLEAN
<1>1. init \in [Groups -> Values \cup {Empty}] /\ current \in [Groups -> Values \cup {Empty}]
  BY DEF TypeOK
<1>2. init' \in [Groups -> Values \cup {Empty}] /\ current' \in [Groups -> Values \cup {Empty}]
  BY <1>1 DEF Fields
<1>3. rebased' \in BOOLEAN
  BY DEF Fields
<1>4. QED
  BY <1>2, <1>3

\* Fields set to what is selected keep the stats of one identity.
LEMMA FieldsIdentity ==
    ASSUME Identity, NEW gs, NEW v, NEW setInit \in BOOLEAN,
           Fields(gs, v, setInit), ~changed => v = Selected,
           UNCHANGED <<cfg, changed, cleared>>
    PROVE  Identity'
BY FieldsWrite DEF Identity, Selected

LEMMA NoFieldsType ==
    ASSUME TypeOK, NoFields
    PROVE  /\ init' \in [Groups -> Values \cup {Empty}]
           /\ current' \in [Groups -> Values \cup {Empty}]
           /\ rebased' \in BOOLEAN
BY DEF TypeOK, NoFields, dataVars

LEMMA NoFieldsIdentity ==
    ASSUME Identity, NoFields, UNCHANGED <<cfg, changed, cleared>>
    PROVE  Identity'
BY DEF Identity, NoFields, dataVars, Selected

-----------------------------------------------------------------------------
LEMMA InitInductive == Init => Inductive
<1> SUFFICES ASSUME Init PROVE Inductive
  OBVIOUS
<1>1. TypeOK
  BY DEF Init, TypeOK, TaskStates
<1>2. Staged /\ OneServer /\ AsksSelected
  BY DEF Init, Staged, OneServer, AsksSelected, Asking, Tasks
<1>3. Identity
  BY DEF Init, Identity
<1>4. Kept /\ Recovered
  BY DEF Init, Kept, Recovered, Recovering, Tasks
<1>5. QED
  BY <1>1, <1>2, <1>3, <1>4 DEF Inductive

\* What every step inside of a poll leaves alone, and where threads are then.
LEMMA PollFrame ==
    ASSUME Inductive, PollStep
    PROVE  /\ UNCHANGED <<cfg, pending, restarting, loopInit, server, changed,
                        cleared, carried>>
           /\ server \in {"bancho", "titanic"}
           /\ cfg \in Configs /\ cfg.server \in {"bancho", "titanic"}
           /\ loopInit \in BOOLEAN
           /\ ~changed => server = cfg.server
BY ConfigsAssumption DEF Inductive, TypeOK, OneServer, PollStep, Servers

\* What Inductive asks of a step inside of a poll.
LEMMA PollInductive ==
    ASSUME Inductive, PollStep,
           task' \in [Tasks -> TaskStates], ask' \in [Tasks -> Values \cup {Empty}],
           init' \in [Groups -> Values \cup {Empty}],
           current' \in [Groups -> Values \cup {Empty}],
           \A h \in {initFailed', based', rebased', answered', unrecovered'} : h \in BOOLEAN,
           Staged', AsksSelected', Identity', Kept', Recovered'
    PROVE  Inductive'
<1>1. TypeOK'
  BY PollFrame DEF Inductive, TypeOK
<1>2. OneServer'
  BY PollFrame DEF Inductive, OneServer
<1>3. QED
  BY <1>1, <1>2 DEF Inductive

-----------------------------------------------------------------------------
(* The steps inside of a poll.                                             *)

\* A login of Bancho only touches the flag.
LEMMA AuthInductive ==
    ASSUME Inductive, PollStep, Auth
    PROVE  Inductive'
<1> USE PollFrame DEF Inductive, Asking, Recovering, Tasks
<1>1. NoFields
  BY DEF Auth
<1>2. /\ init' \in [Groups -> Values \cup {Empty}]
      /\ current' \in [Groups -> Values \cup {Empty}]
      /\ rebased' \in BOOLEAN
  BY <1>1, NoFieldsType
<1>3. Identity'
  BY <1>1, NoFieldsIdentity
<1>4. /\ task' \in [Tasks -> TaskStates] /\ ask' \in [Tasks -> Values \cup {Empty}]
      /\ \A h \in {initFailed', based', answered', unrecovered'} : h \in BOOLEAN
  BY AskedType DEF Auth, Goto, Leave, TypeOK, TaskStates
<1>5. Staged'
  BY DEF Auth, Goto, Leave, TypeOK, Staged
<1>6. AsksSelected'
  BY AskedType DEF Auth, Goto, Leave, TypeOK, AsksSelected, Selected
<1>7. Kept'
  BY DEF Auth, Goto, Leave, TypeOK, Staged, Kept, NoFields
<1>8. Recovered'
  BY DEF Auth, Goto, Leave, TypeOK, Staged, Recovered, NoFields, dataVars, Selected
<1>9. QED
  BY <1>2, <1>3, <1>4, <1>5, <1>6, <1>7, <1>8, PollInductive

\* A request is for what is selected.
LEMMA RequestInductive ==
    ASSUME Inductive, PollStep, NEW t \in Tasks, Request(t)
    PROVE  Inductive'
<1> USE PollFrame DEF Inductive, Asking, Recovering, Tasks
<1>1. NoFields
  BY DEF Request
<1>2. /\ init' \in [Groups -> Values \cup {Empty}]
      /\ current' \in [Groups -> Values \cup {Empty}]
      /\ rebased' \in BOOLEAN
  BY <1>1, NoFieldsType
<1>3. Identity'
  BY <1>1, NoFieldsIdentity
<1>4. /\ task' \in [Tasks -> TaskStates] /\ ask' \in [Tasks -> Values \cup {Empty}]
      /\ \A h \in {initFailed', based', answered', unrecovered'} : h \in BOOLEAN
  BY AskedType DEF Request, Goto, Leave, TypeOK, TaskStates
<1>5. Staged'
  BY DEF Request, Goto, Leave, TypeOK, Staged
<1>6. AsksSelected'
  BY AskedType DEF Request, Goto, Leave, TypeOK, AsksSelected, Selected
<1>7. Kept'
  BY DEF Request, Goto, Leave, TypeOK, Staged, Kept, NoFields
<1>8. Recovered'
  BY DEF Request, Goto, Leave, TypeOK, Staged, Recovered, NoFields, dataVars, Selected
<1>9. QED
  BY <1>2, <1>3, <1>4, <1>5, <1>6, <1>7, <1>8, PollInductive

\* A thread of Bancho that gets no answer writes nothing.
LEMMA RequestFailsInductive ==
    ASSUME Inductive, PollStep, NEW t \in Tasks, RequestFails(t)
    PROVE  Inductive'
<1> USE PollFrame DEF Inductive, Asking, Recovering, Tasks
<1>1. NoFields
  BY DEF RequestFails
<1>2. /\ init' \in [Groups -> Values \cup {Empty}]
      /\ current' \in [Groups -> Values \cup {Empty}]
      /\ rebased' \in BOOLEAN
  BY <1>1, NoFieldsType
<1>3. Identity'
  BY <1>1, NoFieldsIdentity
<1>4. /\ task' \in [Tasks -> TaskStates] /\ ask' \in [Tasks -> Values \cup {Empty}]
      /\ \A h \in {initFailed', based', answered', unrecovered'} : h \in BOOLEAN
  BY AskedType DEF RequestFails, Goto, Leave, TypeOK, TaskStates
<1>5. Staged'
  BY DEF RequestFails, Goto, Leave, TypeOK, Staged
<1>6. AsksSelected'
  BY AskedType DEF RequestFails, Goto, Leave, TypeOK, AsksSelected, Selected
<1>7. Kept'
  BY DEF RequestFails, Goto, Leave, TypeOK, Staged, Kept, NoFields
<1>8. Recovered'
  BY DEF RequestFails, Goto, Leave, TypeOK, Staged, Recovered, NoFields, dataVars, Selected
<1>9. QED
  BY <1>2, <1>3, <1>4, <1>5, <1>6, <1>7, <1>8, PollInductive

\* The same for Titanic; a recovery stays one.
LEMMA TitanicRequestInductive ==
    ASSUME Inductive, PollStep, TitanicRequest
    PROVE  Inductive'
<1> USE PollFrame DEF Inductive, Asking, Recovering, Tasks
<1>1. NoFields
  BY DEF TitanicRequest
<1>2. /\ init' \in [Groups -> Values \cup {Empty}]
      /\ current' \in [Groups -> Values \cup {Empty}]
      /\ rebased' \in BOOLEAN
  BY <1>1, NoFieldsType
<1>3. Identity'
  BY <1>1, NoFieldsIdentity
<1>4. /\ task' \in [Tasks -> TaskStates] /\ ask' \in [Tasks -> Values \cup {Empty}]
      /\ \A h \in {initFailed', based', answered', unrecovered'} : h \in BOOLEAN
  BY AskedType DEF TitanicRequest, Goto, Leave, TypeOK, TaskStates
<1>5. Staged'
  BY DEF TitanicRequest, Goto, Leave, TypeOK, Staged
<1>6. AsksSelected'
  BY AskedType DEF TitanicRequest, Goto, Leave, TypeOK, AsksSelected, Selected
<1>7. Kept'
  BY DEF TitanicRequest, Goto, Leave, TypeOK, Staged, Kept, NoFields
<1>8. Recovered'
  BY DEF TitanicRequest, Goto, Leave, TypeOK, Staged, Recovered, NoFields, dataVars, Selected
<1>9. QED
  BY <1>2, <1>3, <1>4, <1>5, <1>6, <1>7, <1>8, PollInductive

\* The answer of Bancho is the baseline in the first poll only.
LEMMA ApiAnswerInductive ==
    ASSUME Inductive, PollStep, NEW complete \in BOOLEAN, ApiAnswer(complete)
    PROVE  Inductive'
<1> DEFINE gs == IF complete THEN {"head", "tail"} ELSE {"head"}
<1> USE PollFrame DEF Inductive, Asking, Recovering, Tasks
<1>1. /\ ask["t1"] \in Values
      /\ ~changed => ask["t1"] = Selected
  BY DEF ApiAnswer, AsksSelected
<1>2. Fields(gs, ask["t1"], loopInit) /\ loopInit \in BOOLEAN
  BY DEF ApiAnswer
<1>3. /\ init' \in [Groups -> Values \cup {Empty}]
      /\ current' \in [Groups -> Values \cup {Empty}]
      /\ rebased' \in BOOLEAN
      /\ Identity'
  <2> HIDE DEF gs
  <2>1. QED
    BY <1>1, <1>2, FieldsType, FieldsIdentity
<1>4. /\ task' \in [Tasks -> TaskStates] /\ ask' \in [Tasks -> Values \cup {Empty}]
      /\ \A h \in {initFailed', based', answered', unrecovered'} : h \in BOOLEAN
  BY DEF ApiAnswer, Goto, Leave, TypeOK, TaskStates
<1>5. Staged'
  BY DEF ApiAnswer, Goto, Leave, TypeOK, Staged
<1>6. AsksSelected'
  BY DEF ApiAnswer, Goto, Leave, TypeOK, AsksSelected, Selected
<1>7. Kept'
  BY DEF ApiAnswer, Goto, Leave, TypeOK, Staged, Kept, Fields
<1>8. Recovered'
  <2>1. "tail" \in Groups /\ init'["tail"] = IF loopInit /\ "tail" \in gs THEN ask["t1"] ELSE init["tail"]
    <3> HIDE DEF gs
    <3>1. QED
      BY <1>2, GroupsAssumption, FieldsWrite
  <2>2. QED
    BY <1>1, <2>1
    DEF ApiAnswer, Goto, Leave, TypeOK, Staged, Recovered, Selected
<1>9. QED
  BY <1>3, <1>4, <1>5, <1>6, <1>7, <1>8, PollInductive

\* The other APIs of Bancho have entries of their own.
LEMMA RespektiveRankInductive ==
    ASSUME Inductive, PollStep, RespektiveRank
    PROVE  Inductive'
<1> DEFINE gs == {"rank"}
<1> USE PollFrame DEF Inductive, Asking, Recovering, Tasks
<1>1. /\ ask["t2"] \in Values
      /\ ~changed => ask["t2"] = Selected
  BY DEF RespektiveRank, AsksSelected
<1>2. Fields(gs, ask["t2"], loopInit) /\ loopInit \in BOOLEAN
  BY DEF RespektiveRank
<1>3. /\ init' \in [Groups -> Values \cup {Empty}]
      /\ current' \in [Groups -> Values \cup {Empty}]
      /\ rebased' \in BOOLEAN
      /\ Identity'
  <2> HIDE DEF gs
  <2>1. QED
    BY <1>1, <1>2, FieldsType, FieldsIdentity
<1>4. /\ task' \in [Tasks -> TaskStates] /\ ask' \in [Tasks -> Values \cup {Empty}]
      /\ \A h \in {initFailed', based', answered', unrecovered'} : h \in BOOLEAN
  BY DEF RespektiveRank, Goto, Leave, TypeOK, TaskStates
<1>5. Staged'
  BY DEF RespektiveRank, Goto, Leave, TypeOK, Staged
<1>6. AsksSelected'
  BY DEF RespektiveRank, Goto, Leave, TypeOK, AsksSelected, Selected
<1>7. Kept'
  BY DEF RespektiveRank, Goto, Leave, TypeOK, Staged, Kept, Fields
<1>8. Recovered'
  <2>1. "tail" \in Groups /\ init'["tail"] = IF loopInit /\ "tail" \in gs THEN ask["t2"] ELSE init["tail"]
    <3> HIDE DEF gs
    <3>1. QED
      BY <1>2, GroupsAssumption, FieldsWrite
  <2>2. QED
    BY <1>1, <2>1
    DEF RespektiveRank, Goto, Leave, TypeOK, Staged, Recovered, Selected
<1>9. QED
  BY <1>3, <1>4, <1>5, <1>6, <1>7, <1>8, PollInductive

\* The targets have no baseline.
LEMMA RespektiveTargetInductive ==
    ASSUME Inductive, PollStep, RespektiveTarget
    PROVE  Inductive'
<1> DEFINE gs == {"target"}
<1> USE PollFrame DEF Inductive, Asking, Recovering, Tasks
<1>1. /\ ask["t2"] \in Values
      /\ ~changed => ask["t2"] = Selected
  BY DEF RespektiveTarget, AsksSelected
<1>2. Fields(gs, ask["t2"], FALSE) /\ FALSE \in BOOLEAN
  BY DEF RespektiveTarget
<1>3. /\ init' \in [Groups -> Values \cup {Empty}]
      /\ current' \in [Groups -> Values \cup {Empty}]
      /\ rebased' \in BOOLEAN
      /\ Identity'
  <2> HIDE DEF gs
  <2>1. QED
    BY <1>1, <1>2, FieldsType, FieldsIdentity
<1>4. /\ task' \in [Tasks -> TaskStates] /\ ask' \in [Tasks -> Values \cup {Empty}]
      /\ \A h \in {initFailed', based', answered', unrecovered'} : h \in BOOLEAN
  BY DEF RespektiveTarget, Goto, Leave, TypeOK, TaskStates
<1>5. Staged'
  BY DEF RespektiveTarget, Goto, Leave, TypeOK, Staged
<1>6. AsksSelected'
  BY DEF RespektiveTarget, Goto, Leave, TypeOK, AsksSelected, Selected
<1>7. Kept'
  BY DEF RespektiveTarget, Goto, Leave, TypeOK, Staged, Kept, Fields
<1>8. Recovered'
  <2>1. "tail" \in Groups /\ init'["tail"] = IF FALSE /\ "tail" \in gs THEN ask["t2"] ELSE init["tail"]
    <3> HIDE DEF gs
    <3>1. QED
      BY <1>2, GroupsAssumption, FieldsWrite
  <2>2. QED
    BY <1>1, <2>1
    DEF RespektiveTarget, Goto, Leave, TypeOK, Staged, Recovered, Selected
<1>9. QED
  BY <1>3, <1>4, <1>5, <1>6, <1>7, <1>8, PollInductive

\* The third API, as the second.
LEMMA InspectorAnswerInductive ==
    ASSUME Inductive, PollStep, InspectorAnswer
    PROVE  Inductive'
<1> DEFINE gs == {"rarity"}
<1> USE PollFrame DEF Inductive, Asking, Recovering, Tasks
<1>1. /\ ask["t3"] \in Values
      /\ ~changed => ask["t3"] = Selected
  BY DEF InspectorAnswer, AsksSelected
<1>2. Fields(gs, ask["t3"], loopInit) /\ loopInit \in BOOLEAN
  BY DEF InspectorAnswer
<1>3. /\ init' \in [Groups -> Values \cup {Empty}]
      /\ current' \in [Groups -> Values \cup {Empty}]
      /\ rebased' \in BOOLEAN
      /\ Identity'
  <2> HIDE DEF gs
  <2>1. QED
    BY <1>1, <1>2, FieldsType, FieldsIdentity
<1>4. /\ task' \in [Tasks -> TaskStates] /\ ask' \in [Tasks -> Values \cup {Empty}]
      /\ \A h \in {initFailed', based', answered', unrecovered'} : h \in BOOLEAN
  BY DEF InspectorAnswer, Goto, Leave, TypeOK, TaskStates
<1>5. Staged'
  BY DEF InspectorAnswer, Goto, Leave, TypeOK, Staged
<1>6. AsksSelected'
  BY DEF InspectorAnswer, Goto, Leave, TypeOK, AsksSelected, Selected
<1>7. Kept'
  BY DEF InspectorAnswer, Goto, Leave, TypeOK, Staged, Kept, Fields
<1>8. Recovered'
  <2>1. "tail" \in Groups /\ init'["tail"] = IF loopInit /\ "tail" \in gs THEN ask["t3"] ELSE init["tail"]
    <3> HIDE DEF gs
    <3>1. QED
      BY <1>2, GroupsAssumption, FieldsWrite
  <2>2. QED
    BY <1>1, <2>1
    DEF InspectorAnswer, Goto, Leave, TypeOK, Staged, Recovered, Selected
<1>9. QED
  BY <1>3, <1>4, <1>5, <1>6, <1>7, <1>8, PollInductive

\* An answer in the first poll is the baseline; a later one finds a baseline
\* or the flag, and then starts the recovery.
LEMMA TitanicAnswerInductive ==
    ASSUME Inductive, PollStep, TitanicAnswer
    PROVE  Inductive'
<1> DEFINE gs == TitanicGroups
<1> USE PollFrame DEF Inductive, Asking, Recovering, Tasks
<1>1. /\ TitanicValue \in Values
      /\ ~changed => TitanicValue = Selected
  BY TitanicValueType DEF TitanicAnswer, Asking
<1>2. Fields(gs, TitanicValue, loopInit) /\ loopInit \in BOOLEAN
  BY DEF TitanicAnswer
<1>3. /\ init' \in [Groups -> Values \cup {Empty}]
      /\ current' \in [Groups -> Values \cup {Empty}]
      /\ rebased' \in BOOLEAN
      /\ Identity'
  <2> HIDE DEF gs
  <2>1. QED
    BY <1>1, <1>2, FieldsType, FieldsIdentity
<1>4. /\ task' \in [Tasks -> TaskStates] /\ ask' \in [Tasks -> Values \cup {Empty}]
      /\ \A h \in {initFailed', based', answered', unrecovered'} : h \in BOOLEAN
  BY DEF TitanicAnswer, Goto, Leave, TypeOK, TaskStates
<1>5. Staged'
  BY DEF TitanicAnswer, Goto, Leave, TypeOK, Staged
<1>6. AsksSelected'
  BY DEF TitanicAnswer, Goto, Leave, TypeOK, AsksSelected, Selected
<1>7. Kept'
  BY DEF TitanicAnswer, Goto, Leave, TypeOK, Staged, Kept, Fields
<1>8. Recovered'
  <2>1. "tail" \in Groups /\ init'["tail"] = IF loopInit /\ "tail" \in gs THEN TitanicValue ELSE init["tail"]
    <3> HIDE DEF gs
    <3>1. QED
      BY <1>2, GroupsAssumption, FieldsWrite
  <2>2. QED
    BY <1>1, <2>1
    DEF TitanicGroups, AllGroups, TitanicAnswer, Goto, Leave, TypeOK, Staged, Recovered, Selected
<1>9. QED
  BY <1>3, <1>4, <1>5, <1>6, <1>7, <1>8, PollInductive

\* The recovery sets a baseline where there was none.
LEMMA RecoveryAnswerInductive ==
    ASSUME Inductive, PollStep, RecoveryAnswer
    PROVE  Inductive'
<1> DEFINE gs == TitanicGroups
<1> USE PollFrame DEF Inductive, Asking, Recovering, Tasks
<1>1. /\ TitanicValue \in Values
      /\ ~changed => TitanicValue = Selected
  BY TitanicValueType DEF RecoveryAnswer, Asking
<1>2. Fields(gs, TitanicValue, TRUE) /\ TRUE \in BOOLEAN
  BY DEF RecoveryAnswer
<1>3. /\ init' \in [Groups -> Values \cup {Empty}]
      /\ current' \in [Groups -> Values \cup {Empty}]
      /\ rebased' \in BOOLEAN
      /\ Identity'
  <2> HIDE DEF gs
  <2>1. QED
    BY <1>1, <1>2, FieldsType, FieldsIdentity
<1>4. /\ task' \in [Tasks -> TaskStates] /\ ask' \in [Tasks -> Values \cup {Empty}]
      /\ \A h \in {initFailed', based', answered', unrecovered'} : h \in BOOLEAN
  BY DEF RecoveryAnswer, Goto, Leave, TypeOK, TaskStates
<1>5. Staged'
  BY DEF RecoveryAnswer, Goto, Leave, TypeOK, Staged
<1>6. AsksSelected'
  BY DEF RecoveryAnswer, Goto, Leave, TypeOK, AsksSelected, Selected
<1>7. Kept'
  BY DEF RecoveryAnswer, Goto, Leave, TypeOK, Staged, Kept, Fields
<1>8. Recovered'
  <2>1. "tail" \in Groups /\ init'["tail"] = IF TRUE /\ "tail" \in gs THEN TitanicValue ELSE init["tail"]
    <3> HIDE DEF gs
    <3>1. QED
      BY <1>2, GroupsAssumption, FieldsWrite
  <2>2. QED
    BY <1>1, <2>1
    DEF TitanicGroups, AllGroups, RecoveryAnswer, Goto, Leave, TypeOK, Staged, Recovered, Selected
<1>9. QED
  BY <1>3, <1>4, <1>5, <1>6, <1>7, <1>8, PollInductive

\* A failure never raises the flag over a baseline.
LEMMA TitanicFailsInductive ==
    ASSUME Inductive, PollStep, TitanicFails
    PROVE  Inductive'
<1> USE PollFrame DEF Inductive, Asking, Recovering, Tasks
<1>1. /\ TitanicValue \in Values
      /\ ~changed => TitanicValue = Selected
  BY TitanicValueType DEF TitanicFails, Asking
<1>2. NoFields \/ Fields({"head"}, TitanicValue, loopInit)
  BY DEF TitanicFails
<1>3. /\ init' \in [Groups -> Values \cup {Empty}]
      /\ current' \in [Groups -> Values \cup {Empty}]
      /\ rebased' \in BOOLEAN
      /\ Identity'
  BY <1>1, <1>2, FieldsType, FieldsIdentity, NoFieldsType, NoFieldsIdentity
<1>4. /\ task' \in [Tasks -> TaskStates] /\ ask' \in [Tasks -> Values \cup {Empty}]
      /\ \A h \in {initFailed', based', answered', unrecovered'} : h \in BOOLEAN
  BY DEF TitanicFails, Goto, Leave, TypeOK, TaskStates
<1>5. Staged'
  BY DEF TitanicFails, Goto, Leave, TypeOK, Staged
<1>6. AsksSelected'
  BY DEF TitanicFails, Goto, Leave, TypeOK, AsksSelected, Selected
<1>7. Kept'
  BY <1>2 DEF TitanicFails, Goto, Leave, TypeOK, Staged, Kept, Fields, NoFields
<1>8. Recovered'
  <2>1. "tail" \in Groups
    BY GroupsAssumption
  <2>2. ASSUME Fields({"head"}, TitanicValue, loopInit)
        PROVE  init'["tail"] = init["tail"]
    BY <2>1, <2>2 DEF Fields
  <2>3. init'["tail"] = init["tail"]
    BY <1>2, <2>2 DEF NoFields, dataVars
  <2>4. QED
    BY <2>1, <2>3 DEF TitanicFails, Goto, Leave, TypeOK, Staged, Recovered, Selected
<1>9. QED
  BY <1>3, <1>4, <1>5, <1>6, <1>7, <1>8, PollInductive

\* A recovery that fails writes the head of a baseline that was not there.
LEMMA RecoveryFailsInductive ==
    ASSUME Inductive, PollStep, RecoveryFails
    PROVE  Inductive'
<1> USE PollFrame DEF Inductive, Asking, Recovering, Tasks
<1>1. /\ TitanicValue \in Values
      /\ ~changed => TitanicValue = Selected
  BY TitanicValueType DEF RecoveryFails, Asking
<1>2. NoFields \/ Fields({"head"}, TitanicValue, TRUE)
  BY DEF RecoveryFails
<1>3. /\ init' \in [Groups -> Values \cup {Empty}]
      /\ current' \in [Groups -> Values \cup {Empty}]
      /\ rebased' \in BOOLEAN
      /\ Identity'
  BY <1>1, <1>2, FieldsType, FieldsIdentity, NoFieldsType, NoFieldsIdentity
<1>4. /\ task' \in [Tasks -> TaskStates] /\ ask' \in [Tasks -> Values \cup {Empty}]
      /\ \A h \in {initFailed', based', answered', unrecovered'} : h \in BOOLEAN
  BY DEF RecoveryFails, Goto, Leave, TypeOK, TaskStates
<1>5. Staged'
  BY DEF RecoveryFails, Goto, Leave, TypeOK, Staged
<1>6. AsksSelected'
  BY DEF RecoveryFails, Goto, Leave, TypeOK, AsksSelected, Selected
<1>7. Kept'
  BY <1>2 DEF RecoveryFails, Goto, Leave, TypeOK, Staged, Kept, Fields, NoFields
<1>8. Recovered'
  <2>1. "tail" \in Groups
    BY GroupsAssumption
  <2>2. ASSUME Fields({"head"}, TitanicValue, TRUE)
        PROVE  init'["tail"] = init["tail"]
    BY <2>1, <2>2 DEF Fields
  <2>3. init'["tail"] = init["tail"]
    BY <1>2, <2>2 DEF NoFields, dataVars
  <2>4. QED
    BY <2>1, <2>3 DEF RecoveryFails, Goto, Leave, TypeOK, Staged, Recovered, Selected
<1>9. QED
  BY <1>3, <1>4, <1>5, <1>6, <1>7, <1>8, PollInductive

LEMMA PollStepInductive == Inductive /\ PollStep => Inductive'
<1> SUFFICES ASSUME Inductive, PollStep PROVE Inductive'
  OBVIOUS
<1>1. CASE BanchoStep
  BY <1>1, AuthInductive, RequestInductive, RequestFailsInductive, ApiAnswerInductive,
     RespektiveRankInductive, RespektiveTargetInductive, InspectorAnswerInductive
  DEF BanchoStep
<1>2. CASE TitanicStep
  BY <1>2, TitanicRequestInductive, TitanicFailsInductive, TitanicAnswerInductive,
     RecoveryAnswerInductive, RecoveryFailsInductive
  DEF TitanicStep
<1>3. QED
  BY <1>1, <1>2 DEF PollStep

-----------------------------------------------------------------------------
(* The loop, the selection and the resets.                                 *)

LEMMA PollBeginInductive == Inductive /\ PollBegin => Inductive'
<1> SUFFICES ASSUME Inductive, PollBegin PROVE Inductive'
  OBVIOUS
<1> USE DEF Inductive, PollBegin, dataVars, history, Tasks, Asking, Recovering
<1>1. cfg.server \in Servers
  BY DEF TypeOK, Servers
<1>2. TypeOK'
  BY <1>1 DEF TypeOK, TaskStates
<1>3. Staged' /\ OneServer' /\ AsksSelected'
  BY ConfigsAssumption, <1>1 DEF Staged, OneServer, AsksSelected
<1>4. Identity' /\ Kept' /\ Recovered'
  BY DEF Staged, Identity, Kept, Recovered, Selected
<1>5. QED
  BY <1>2, <1>3, <1>4

LEMMA PollEndInductive == Inductive /\ PollEnd => Inductive'
<1> SUFFICES ASSUME Inductive, PollEnd PROVE Inductive'
  OBVIOUS
<1> USE DEF Inductive, PollEnd, dataVars, history, Tasks, Asking, Recovering
<1>1. TypeOK'
  BY DEF TypeOK, TaskStates
<1>2. Staged' /\ OneServer' /\ AsksSelected'
  BY DEF Staged, OneServer, AsksSelected
<1>3. Identity' /\ Kept' /\ Recovered'
  BY DEF Staged, Identity, Kept, Recovered, Selected
<1>4. QED
  BY <1>1, <1>2, <1>3

\* A change of the selection: all that is claimed of a session is claimed
\* without one.
LEMMA ChangeInductive ==
    ASSUME Inductive, NEW c \in Configs, Change(c),
           pending' \in {"none", "web", "boot", "ui"}, restarting' \in BOOLEAN
    PROVE  Inductive'
<1> USE DEF Inductive, Change, pollVars, dataVars, history
<1>1. TypeOK'
  BY DEF TypeOK
<1>2. Staged' /\ OneServer' /\ AsksSelected'
  BY DEF Staged, OneServer, AsksSelected
<1>3. Identity' /\ Kept' /\ Recovered'
  BY DEF Identity, Kept, Recovered
<1>4. QED
  BY <1>1, <1>2, <1>3

\* A reset that is asked for, and the end of one, touch no session.
LEMMA AsideInductive ==
    ASSUME Inductive, UNCHANGED <<cfg, pollVars, dataVars, changed, history>>,
           pending' \in {"none", "web", "boot", "ui"}, restarting' \in BOOLEAN
    PROVE  Inductive'
<1>1. TypeOK'
  <2>1. /\ cfg' \in Configs
        /\ server' \in Servers \cup {"none"}
        /\ task' \in [Tasks -> TaskStates]
        /\ ask' \in [Tasks -> Values \cup {Empty}]
        /\ init' \in [Groups -> Values \cup {Empty}]
        /\ current' \in [Groups -> Values \cup {Empty}]
    BY DEF Inductive, pollVars, dataVars, history, TypeOK
  <2>2. loopInit' \in BOOLEAN /\ initFailed' \in BOOLEAN /\ changed' \in BOOLEAN
    BY DEF Inductive, pollVars, dataVars, history, TypeOK
  <2>3. \A h \in {cleared', based', rebased', carried', answered', unrecovered'} : h \in BOOLEAN
    BY DEF Inductive, pollVars, dataVars, history, TypeOK
  <2>4. QED
    BY <2>1, <2>2, <2>3 DEF TypeOK
<1>2. Staged' /\ OneServer' /\ AsksSelected'
  BY DEF Inductive, pollVars, dataVars, history, Staged, OneServer, AsksSelected, Selected
<1>3. Identity' /\ Kept' /\ Recovered'
  BY DEF Inductive, pollVars, dataVars, history, Identity, Kept, Recovered, Selected
<1>4. QED
  BY <1>1, <1>2, <1>3 DEF Inductive

\* A session begins with no thread of a poll, so nothing asked for before is
\* written in it; and with no answer, so nothing is claimed of its baseline.
LEMMA NewSessionInductive ==
    ASSUME Inductive, NewSession, cfg' \in Configs,
           init' \in [Groups -> Values \cup {Empty}],
           current' \in [Groups -> Values \cup {Empty}],
           cleared' \in BOOLEAN, Identity'
    PROVE  Inductive'
<1> USE DEF Inductive, NewSession, Tasks, Asking, Recovering
<1>1. TypeOK'
  BY DEF TypeOK
<1>2. Staged' /\ OneServer' /\ AsksSelected'
  BY DEF Staged, OneServer, AsksSelected
<1>3. Kept' /\ Recovered'
  BY DEF Staged, Kept, Recovered
<1>4. QED
  BY <1>1, <1>2, <1>3

LEMMA RestartFetchInductive == Inductive /\ RestartFetch => Inductive'
<1> SUFFICES ASSUME Inductive, RestartFetch PROVE Inductive'
  OBVIOUS
<1>1. /\ init' \in [Groups -> Values \cup {Empty}]
      /\ current' \in [Groups -> Values \cup {Empty}]
      /\ Identity'
  BY DEF RestartFetch, Identity
<1>2. cfg' \in Configs
  BY DEF RestartFetch, Inductive, TypeOK
<1>3. QED
  BY <1>1, <1>2, NewSessionInductive DEF RestartFetch

LEMMA StopStartInductive == Inductive /\ StopStart => Inductive'
<1> SUFFICES ASSUME Inductive, StopStart PROVE Inductive'
  OBVIOUS
<1>1. Identity'
  BY DEF StopStart, Identity
<1>2. cfg' \in Configs
  BY DEF StopStart, Inductive, TypeOK
<1>3. QED
  BY <1>1, <1>2, NewSessionInductive DEF StopStart, dataVars, Inductive, TypeOK

LEMMA InductiveAlways == Spec => []Inductive
<1>1. Inductive /\ [Next]_vars => Inductive'
  <2> SUFFICES ASSUME Inductive, [Next]_vars PROVE Inductive'
    OBVIOUS
  <2>1. pending \in {"none", "web", "boot", "ui"} /\ restarting \in BOOLEAN
    BY DEF Inductive, TypeOK
  <2>2. CASE \E c \in Configs : Save(c) \/ Switch(c)
    BY <2>1, <2>2, ChangeInductive DEF Save, Switch
  <2>3. CASE ResetSettings
    BY <2>1, <2>3, ChangeInductive, ConfigsAssumption DEF ResetSettings
  <2>4. CASE WebReset \/ Restart \/ Release
    BY <2>1, <2>4, AsideInductive DEF WebReset, Restart, Release
  <2>5. CASE UNCHANGED vars
    BY <2>1, <2>5, AsideInductive DEF vars
  <2>6. QED
    BY <2>2, <2>3, <2>4, <2>5, PollBeginInductive, PollStepInductive, PollEndInductive,
       RestartFetchInductive, StopStartInductive
    DEF Next
<1>2. QED
  BY <1>1, InitInductive, PTL DEF Spec

-----------------------------------------------------------------------------
\* Selection, flags, threads and stats keep their types.
THEOREM BaselineTypes == Spec => []TypeOK
<1>1. Inductive => TypeOK
  BY DEF Inductive
<1>2. QED
  BY <1>1, InductiveAlways, PTL

\* Every value of a session that the window began is about what is selected,
\* until the user selects something else: restartFetch joins before it clears,
\* and the polls of a session ask for the selection it began with.
THEOREM IdentitySafety == Spec => []OneIdentity
<1>1. Inductive => OneIdentity
  BY DEF Inductive, Identity, OneIdentity
<1>2. QED
  BY <1>1, InductiveAlways, PTL

\* Only init_api_failed of an earlier session, or a change of the selection
\* that no reset followed yet, makes a later poll replace the baseline:
\* fetch_api_data raises and lowers the flag so that it stands for a baseline
\* that is missing.
THEOREM BaselineSafety == Spec => []BaselineKeptUnlessCarried
<1>1. Inductive => BaselineKeptUnlessCarried
  BY DEF Inductive, Kept, BaselineKeptUnlessCarried
<1>2. QED
  BY <1>1, InductiveAlways, PTL

\* Once Titanic answered in a session that began on it, there is a baseline of
\* that session, by the first poll or by the recovery.
THEOREM RecoverySafety == Spec => []TitanicHasBaseline
<1>1. Inductive => TitanicHasBaseline
  BY DEF Inductive, Recovered, TitanicHasBaseline, Staged, Recovering, Tasks
<1>2. QED
  BY <1>1, InductiveAlways, PTL

\* Past the first poll of a session that began with the flag down, and while
\* the selection is the one it began with, no step but one of the next session
\* moves a baseline that is there, of any entry.
THEOREM BaselineFixed ==
    Spec => [][~changed /\ ~loopInit /\ ~loopInit' /\ ~carried /\ based
               => UNCHANGED init]_vars
<1>1. ASSUME Inductive, Next, ~changed, ~loopInit, ~loopInit', ~carried, based
      PROVE  UNCHANGED init
  <2>1. init = [g \in Groups |-> init[g]]
    BY <1>1 DEF Inductive, TypeOK
  <2>2. CASE PollStep
    <3>1. task["t1"] \notin Recovering
      <4>1. task["t1"] \in Recovering => server = "titanic" /\ cfg.server = "titanic"
        BY <1>1, <2>2, PollFrame DEF Inductive, Staged, Tasks
      <4>2. QED
        BY <1>1, <4>1 DEF Inductive, Kept
    <3>2. CASE BanchoStep
      BY <1>1, <2>1, <3>2 DEF BanchoStep, Auth, Request, RequestFails, ApiAnswer, RespektiveRank,
         RespektiveTarget, InspectorAnswer, Fields, NoFields, dataVars
    <3>3. CASE TitanicStep
      BY <1>1, <2>1, <3>1, <3>3 DEF TitanicStep, TitanicRequest, TitanicFails, TitanicAnswer,
         RecoveryAnswer, RecoveryFails, Recovering, Fields, NoFields, dataVars
    <3>4. QED
      BY <2>2, <3>2, <3>3 DEF PollStep
  <2>3. CASE PollBegin \/ PollEnd
    BY <2>3 DEF PollBegin, PollEnd, dataVars
  <2>4. CASE (\E c \in Configs : Save(c) \/ Switch(c)) \/ ResetSettings
    BY <2>4 DEF Save, Switch, ResetSettings, Change, dataVars
  <2>5. CASE WebReset \/ Restart \/ Release
    BY <2>5 DEF WebReset, Restart, Release, dataVars
  <2>6. CASE RestartFetch \/ StopStart
    BY <1>1, <2>6 DEF RestartFetch, StopStart, NewSession
  <2>7. QED
    BY <1>1, <2>2, <2>3, <2>4, <2>5, <2>6 DEF Next
<1>2. QED
  BY <1>1, InductiveAlways, PTL DEF Spec
=============================================================================
