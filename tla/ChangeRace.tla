----------------------------- MODULE ChangeRace -----------------------------
(***************************************************************************)
(* How the `change` of an entry is computed while the three threads of a   *)
(* Bancho poll run.  Each thread sets its own entries (setField) and then  *)
(* runs calcDifference, which walks ALL entries of Config::data::arr: it   *)
(* reads `current` and `init` of an entry, in an order the compiler may    *)
(* choose, and stores the difference.  None of it is under a lock, so      *)
(* another thread may run at any point.  (The accesses race in the sense   *)
(* of C++ too; here a read returns the value before or after a write that  *)
(* overlaps it.)                                                           *)
(*                                                                         *)
(* What matters is which values a difference was computed from.  A reset   *)
(* of the web page keeps the stats, so the first poll of a session may     *)
(* replace a baseline that is there.                                       *)
(***************************************************************************)
EXTENDS Integers, Sequences, Functions

CONSTANTS
    Entries,    \* the entries of arr, as a sequence
    Owner,      \* Owner[e]: the thread whose API the entry comes from
    MaxValue,   \* bound on the values an API answers
    NoValue     \* the empty string

ASSUME ValueAssumption == MaxValue \in Nat /\ NoValue \notin Int

Threads == {"t1", "t2", "t3"}   \* Bancho::api, respektive_api, inspector_api
EntryKeys == {Entries[i] : i \in 1 .. Len(Entries)}

\* The keys of arr are distinct, and there are some.
ASSUME EntriesAssumption ==
    Entries \in Seq(EntryKeys) /\ Len(Entries) > 0 /\ IsInjective(Entries)

ASSUME OwnerAssumption == Owner \in [EntryKeys -> Threads]

VARIABLES
    init,       \* arr[e].init
    current,    \* arr[e].current
    change,     \* arr[e].change
    loopInit,   \* the `init` of this poll
    pc,         \* pc[t]: "request", "set", "setInit", "read", "store", "done"
    at,         \* at[t]: the entry of arr thread t is at
    cur,        \* cur[t]: what calcDifference of t has read as current
    ini,        \* ini[t]: ... and as init, NoValue when not read yet
    before,     \* history: the current value the owner replaced in this poll
    base,       \* history: the init value the owner replaced in this poll
    complete    \* history: the threads that got through in this poll

raceVars == <<init, current, change, loopInit, pc, at, cur, ini, before, base, complete>>

Values == 0 .. MaxValue
Changes == -MaxValue .. MaxValue

RaceTypeOK ==
    /\ init \in [EntryKeys -> Values \cup {NoValue}]
    /\ current \in [EntryKeys -> Values \cup {NoValue}]
    /\ change \in [EntryKeys -> Changes \cup {NoValue}]
    /\ before \in [EntryKeys -> Values \cup {NoValue}]
    /\ base \in [EntryKeys -> Values \cup {NoValue}]
    /\ loopInit \in BOOLEAN
    /\ pc \in [Threads -> {"request", "set", "setInit", "read", "store", "done"}]
    /\ at \in [Threads -> 1 .. Len(Entries)]
    /\ cur \in [Threads -> Values \cup {NoValue}]
    /\ ini \in [Threads -> Values \cup {NoValue}]
    /\ complete \subseteq Threads

NoValues == [e \in EntryKeys |-> NoValue]

RaceInit ==
    /\ init = NoValues
    /\ current = NoValues
    /\ change = NoValues
    /\ before = NoValues
    /\ base = NoValues
    /\ loopInit = TRUE
    /\ pc = [t \in Threads |-> "request"]
    /\ at = [t \in Threads |-> 1]
    /\ cur = [t \in Threads |-> NoValue]
    /\ ini = [t \in Threads |-> NoValue]
    /\ complete = {}

-----------------------------------------------------------------------------
Goto(t, st) == pc' = [pc EXCEPT ![t] = st]
Move(t, i)  == at' = [at EXCEPT ![t] = i]

IsLast(i) == i = Len(Entries)

\* The API of thread t answers, or the thread gives up.
Answer(t) ==
    /\ pc[t] = "request"
    /\ Goto(t, "set") \/ Goto(t, "done")
    /\ UNCHANGED <<init, current, change, loopInit, at, cur, ini, before, base, complete>>

\* On to the next entry of the answer, and after the last to calcDifference.
NextField(t) ==
    IF IsLast(at[t])
    THEN Move(t, 1) /\ Goto(t, "read")
    ELSE Move(t, at[t] + 1) /\ Goto(t, "set")

\* An entry of another API.
SkipField(t) ==
    /\ pc[t] = "set"
    /\ Owner[Entries[at[t]]] # t
    /\ NextField(t)
    /\ UNCHANGED <<init, current, change, loopInit, cur, ini, before, base, complete>>

\* Mutant: a later poll is one ahead.
MutSetCurrent(t, v) ==
    /\ pc[t] = "set"
    /\ LET e == Entries[at[t]]
       IN  /\ Owner[e] = t
           /\ current' = [current EXCEPT ![e] = IF loopInit THEN v ELSE v + 1]
           /\ before' = [before EXCEPT ![e] = current[e]]
    /\ IF loopInit THEN Goto(t, "setInit") /\ UNCHANGED at ELSE NextField(t)
    /\ UNCHANGED <<init, change, loopInit, cur, ini, base, complete>>

\* setField, with the value v of the answer: first `current`,
SetCurrent(t, v) ==
    /\ pc[t] = "set"
    /\ LET e == Entries[at[t]]
       IN  /\ Owner[e] = t
           /\ current' = [current EXCEPT ![e] = v]
           /\ before' = [before EXCEPT ![e] = current[e]]
    /\ IF loopInit THEN Goto(t, "setInit") /\ UNCHANGED at ELSE NextField(t)
    /\ UNCHANGED <<init, change, loopInit, cur, ini, base, complete>>

\* then, with setInit, `init`.
SetInit(t) ==
    /\ pc[t] = "setInit"
    /\ LET e == Entries[at[t]]
       IN  /\ init' = [init EXCEPT ![e] = current[e]]
           /\ base' = [base EXCEPT ![e] = init[e]]
    /\ NextField(t)
    /\ UNCHANGED <<current, change, loopInit, cur, ini, before, complete>>

\* A field of the answer has another type than expected: the exception skips
\* the other fields and calcDifference.
SetFieldThrows(t) ==
    /\ pc[t] = "set"
    /\ Goto(t, "done")
    /\ Move(t, 1)
    /\ UNCHANGED <<init, current, change, loopInit, cur, ini, before, base, complete>>

\* On to the next entry of arr, and after the last the thread is through.
NextEntry(t) ==
    IF IsLast(at[t])
    THEN Move(t, 1) /\ Goto(t, "done") /\ complete' = complete \cup {t}
    ELSE Move(t, at[t] + 1) /\ Goto(t, "read") /\ UNCHANGED complete

\* calcDifference skips an entry without both values.
SkipEntry(t) ==
    /\ pc[t] = "read"
    /\ LET e == Entries[at[t]] IN NoValue \in {init[e], current[e]}
    /\ NextEntry(t)
    /\ UNCHANGED <<init, current, change, loopInit, cur, ini, before, base>>

\* It reads one of the two (a value that was there stays there) ...
ReadEntry(t) ==
    /\ pc[t] = "read"
    /\ LET e == Entries[at[t]]
       IN  /\ NoValue \notin {init[e], current[e]}
           /\ \/ cur' = [cur EXCEPT ![t] = current[e]] /\ UNCHANGED ini
              \/ ini' = [ini EXCEPT ![t] = init[e]] /\ UNCHANGED cur
    /\ Goto(t, "store")
    /\ UNCHANGED <<init, current, change, loopInit, at, before, base, complete>>

\* ... then the other ...
ReadOther(t) ==
    /\ pc[t] = "store"
    /\ LET e == Entries[at[t]]
       IN  \/ cur[t] = NoValue /\ cur' = [cur EXCEPT ![t] = current[e]] /\ UNCHANGED ini
           \/ ini[t] = NoValue /\ ini' = [ini EXCEPT ![t] = init[e]] /\ UNCHANGED cur
    /\ UNCHANGED <<init, current, change, loopInit, pc, at, before, base, complete>>

\* Mutant: only the first poll stores the difference.
MutStoreEntry(t) ==
    /\ pc[t] = "store"
    /\ NoValue \notin {cur[t], ini[t]}
    /\ change' = [change EXCEPT ![Entries[at[t]]] = IF loopInit THEN cur[t] - ini[t] ELSE @]
    /\ cur' = [cur EXCEPT ![t] = NoValue]
    /\ ini' = [ini EXCEPT ![t] = NoValue]
    /\ NextEntry(t)
    /\ UNCHANGED <<init, current, loopInit, before, base>>

\* ... and stores the difference.
StoreEntry(t) ==
    /\ pc[t] = "store"
    /\ NoValue \notin {cur[t], ini[t]}
    /\ change' = [change EXCEPT ![Entries[at[t]]] = cur[t] - ini[t]]
    /\ cur' = [cur EXCEPT ![t] = NoValue]
    /\ ini' = [ini EXCEPT ![t] = NoValue]
    /\ NextEntry(t)
    /\ UNCHANGED <<init, current, loopInit, before, base>>

\* One of the two is no number, as totalClears may be, which the inspector's
\* API sends as a string: the exception skips this entry and those after it.
EntryThrows(t) ==
    /\ pc[t] = "store"
    /\ cur' = [cur EXCEPT ![t] = NoValue]
    /\ ini' = [ini EXCEPT ![t] = NoValue]
    /\ Goto(t, "done")
    /\ Move(t, 1)
    /\ UNCHANGED <<init, current, change, loopInit, before, base, complete>>

\* t1, t2 and t3 are joined.
Joined == \A t \in Threads : pc[t] = "done"

PollBegins ==
    /\ Joined
    /\ pc' = [t \in Threads |-> "request"]
    /\ complete' = {}
    /\ before' = NoValues
    /\ base' = NoValues
    /\ UNCHANGED <<at, cur, ini>>

\* The next poll of the loop, after the sleep.
NextPoll ==
    /\ PollBegins
    /\ loopInit' = FALSE
    /\ UNCHANGED <<init, current, change>>

\* The loop is stopped and started for a first poll: #resetSession and main
\* leave the stats as they are,
StopStart ==
    /\ PollBegins
    /\ loopInit' = TRUE
    /\ UNCHANGED <<init, current, change>>

\* restartFetch clears them.
RestartFetch ==
    /\ PollBegins
    /\ loopInit' = TRUE
    /\ init' = NoValues
    /\ current' = NoValues
    /\ change' = NoValues

RaceNext ==
    \/ \E t \in Threads :
          \/ Answer(t)
          \/ SkipField(t)
          \/ \E v \in Values : SetCurrent(t, v)
          \/ SetInit(t)
          \/ SetFieldThrows(t)
          \/ SkipEntry(t)
          \/ ReadEntry(t)
          \/ ReadOther(t)
          \/ StoreEntry(t)
          \/ EntryThrows(t)
    \/ NextPoll
    \/ StopStart
    \/ RestartFetch

RaceSpec == RaceInit /\ [][RaceNext]_raceVars

-----------------------------------------------------------------------------
\* A poll leaves no change of older values than those it replaced: if the
\* entry's own thread came through, each side of the difference is the one
\* shown or the one this poll replaced.  (The baseline is replaced only by the
\* first poll after a reset that kept the stats.)
StaleByOneAtMost ==
    Joined => \A e \in EntryKeys :
        Owner[e] \in complete /\ init[e] # NoValue =>
            \E v \in {current[e], before[e]} \ {NoValue}, b \in {init[e], base[e]} \ {NoValue} :
                change[e] = v - b
=============================================================================
