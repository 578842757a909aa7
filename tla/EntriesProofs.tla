---------------------------- MODULE EntriesProofs ----------------------------
(***************************************************************************)
(* Proofs about the entries of arr on their way to the user: how the       *)
(* change of an entry comes about (ChangeRace), and how entries are        *)
(* ordered and put into the text files (TxtExport), for any number of      *)
(* entries; and which level a score is shown as (LevelSearch), for any     *)
(* number of levels.                                                       *)
(***************************************************************************)
EXTENDS ChangeRace, TxtExport, LevelSearch, FiniteSetTheorems, SequenceTheorems, TLAPS

-----------------------------------------------------------------------------
(* ChangeRace.  StaleByOneAtMost speaks of a poll that is over; what leads *)
(* there is told by the place i of an entry in arr.                        *)

Places == 1 .. Len(Entries)

OwnerAt(i) == Owner[Entries[i]]

\* The owner of the entry at i has yet to set it in this poll, or at least its
\* baseline.
Ahead(i) ==
    \/ pc[OwnerAt(i)] = "request"
    \/ pc[OwnerAt(i)] = "set" /\ at[OwnerAt(i)] <= i
    \/ pc[OwnerAt(i)] = "setInit" /\ at[OwnerAt(i)] < i

AheadInit(i) ==
    \/ Ahead(i)
    \/ pc[OwnerAt(i)] = "setInit" /\ at[OwnerAt(i)] = i

\* The owner's calcDifference is past the entry at i.
Passed(i) ==
    \/ OwnerAt(i) \in complete
    \/ pc[OwnerAt(i)] \in {"read", "store"} /\ at[OwnerAt(i)] > i

\* v is the value shown or the one this poll replaced, and b the baseline or
\* the one this poll replaced.
RecentValue(e, v) == v # NoValue /\ v \in {current[e], before[e]}
RecentBase(e, b)  == b # NoValue /\ b \in {init[e], base[e]}

\* The difference d comes from such values.
FromRecent(e, d) ==
    \E v \in {current[e], before[e]} \ {NoValue}, b \in {init[e], base[e]} \ {NoValue} : d = v - b

\* A thread that is not in a walk over arr is at its beginning; one that is
\* through is done; and one between the two halves of setField is at an entry
\* of its own.
Walks ==
    /\ \A t \in Threads : pc[t] \in {"request", "done"} => at[t] = 1
    /\ \A t \in complete : pc[t] = "done"
    /\ \A t \in Threads : pc[t] = "setInit" => OwnerAt(at[t]) = t

\* A baseline comes with a value, and its owner has that between the halves.
Baselines ==
    /\ \A e \in EntryKeys : init[e] # NoValue => current[e] # NoValue
    /\ \A t \in Threads : pc[t] = "setInit" => current[Entries[at[t]]] # NoValue

\* What a thread has read of the entry at i is shown as long as the owner has
\* not replaced that in this poll.
ReadAt(t, i) ==
    /\ init[Entries[i]] # NoValue
    /\ cur[t] # NoValue =>
          /\ RecentValue(Entries[i], cur[t])
          /\ Ahead(i) => cur[t] = current[Entries[i]]
    /\ ini[t] # NoValue =>
          /\ RecentBase(Entries[i], ini[t])
          /\ AheadInit(i) => ini[t] = init[Entries[i]]

Computed == \A t \in Threads : pc[t] = "store" => ReadAt(t, at[t])

Idle == \A t \in Threads : pc[t] # "store" => cur[t] = NoValue /\ ini[t] = NoValue

Stored ==
    \A i \in Places : Passed(i) /\ init[Entries[i]] # NoValue =>
        FromRecent(Entries[i], change[Entries[i]])

RaceInductive ==
    /\ RaceTypeOK
    /\ Walks
    /\ Baselines
    /\ Computed
    /\ Idle
    /\ Stored

\* Every place has an entry of its own, with an owner.
LEMMA PlaceFacts ==
    /\ Len(Entries) \in Nat \ {0}
    /\ \A i \in Places : Entries[i] \in EntryKeys /\ OwnerAt(i) \in Threads
    /\ \A i, j \in Places : Entries[i] = Entries[j] => i = j
    /\ \A e \in EntryKeys : \E i \in Places : e = Entries[i]
<1>1. Len(Entries) \in Nat \ {0} /\ DOMAIN Entries = Places
  BY EntriesAssumption DEF Places
<1>2. QED
  BY <1>1, EntriesAssumption, OwnerAssumption DEF Places, EntryKeys, OwnerAt, IsInjective

LEMMA RaceInitInductive == RaceInit => RaceInductive
<1> SUFFICES ASSUME RaceInit PROVE RaceInductive
  OBVIOUS
<1>1. RaceTypeOK
  BY PlaceFacts DEF RaceInit, NoValues, RaceTypeOK
<1>2. Walks /\ Baselines /\ Computed /\ Idle /\ Stored
  BY PlaceFacts DEF RaceInit, NoValues, Walks, Baselines, Computed, Idle, Stored, Passed
<1>3. QED
  BY <1>1, <1>2 DEF RaceInductive

\* Steps that leave the stats alone and bring no walk past an entry that has a
\* baseline.
LEMMA QuietStep ==
    ASSUME RaceInductive,
           UNCHANGED <<init, current, before, base, change, cur, ini>>,
           \A i \in Places : (Ahead(i)' => Ahead(i)) /\ (AheadInit(i)' => AheadInit(i)),
           \A i \in Places : Passed(i)' => Passed(i) \/ init[Entries[i]] = NoValue,
           \A u \in Threads : pc[u] = "store" <=> pc'[u] = "store",
           \A u \in Threads : pc'[u] \in {"store", "setInit"} => pc'[u] = pc[u] /\ at'[u] = at[u]
    PROVE  Baselines' /\ Computed' /\ Idle' /\ Stored'
<1>1. Baselines' /\ Idle' /\ Stored'
  BY DEF RaceInductive, Baselines, Idle, Stored, FromRecent
<1>2. \A u \in Threads : at[u] \in Places
  BY DEF RaceInductive, RaceTypeOK, Places
<1>3. Computed'
  BY <1>2 DEF RaceInductive, Computed, ReadAt, RecentValue, RecentBase
<1>4. QED
  BY <1>1, <1>3

LEMMA AnswerInductive ==
    ASSUME RaceInductive, NEW t \in Threads, Answer(t)
    PROVE  RaceInductive'
<1> USE PlaceFacts DEF RaceInductive, Answer, Goto, RaceTypeOK, Walks
<1>1. RaceTypeOK' /\ Walks'
  BY DEF OwnerAt
<1>2. \A i \in Places : /\ (Ahead(i)' => Ahead(i)) /\ (AheadInit(i)' => AheadInit(i))
                       /\ (Passed(i)' => Passed(i))
  BY DEF Ahead, AheadInit, Passed, OwnerAt, Places
<1>3. QED
  BY <1>1, <1>2, QuietStep

LEMMA SetFieldThrowsInductive ==
    ASSUME RaceInductive, NEW t \in Threads, SetFieldThrows(t)
    PROVE  RaceInductive'
<1> USE PlaceFacts DEF RaceInductive, SetFieldThrows, Goto, Move, RaceTypeOK, Walks
<1>1. RaceTypeOK' /\ Walks'
  BY DEF OwnerAt
<1>2. \A i \in Places : /\ (Ahead(i)' => Ahead(i)) /\ (AheadInit(i)' => AheadInit(i))
                       /\ (Passed(i)' => Passed(i))
  BY DEF Ahead, AheadInit, Passed, OwnerAt, Places
<1>3. QED
  BY <1>1, <1>2, QuietStep

\* A poll begins with the threads joined: none has read and not stored.
LEMMA PollBeginsInductive ==
    ASSUME RaceInductive, PollBegins, loopInit' \in BOOLEAN,
           UNCHANGED <<init, current, change>> \/
              (init' = NoValues /\ current' = NoValues /\ change' = NoValues)
    PROVE  RaceInductive'
<1>1. /\ \A t \in Threads : pc[t] = "done" /\ pc'[t] = "request"
      /\ complete' = {}
      /\ before' = NoValues /\ base' = NoValues /\ UNCHANGED <<at, cur, ini>>
  BY DEF PollBegins, Joined
<1>2. RaceTypeOK'
  BY <1>1 DEF RaceInductive, RaceTypeOK, PollBegins, NoValues
<1>3. Walks' /\ Baselines' /\ Computed' /\ Idle'
  BY <1>1 DEF RaceInductive, Walks, Baselines, Computed, Idle, NoValues
<1>4. Stored'
  BY <1>1, PlaceFacts DEF Stored, Passed, OwnerAt
<1>5. QED
  BY <1>2, <1>3, <1>4 DEF RaceInductive

\* Where the walk of the answer over the entries takes a thread.
LEMMA NextFieldPlaces ==
    ASSUME RaceInductive, NEW t \in Threads, NEW k \in Places, at[t] = k,
           pc[t] \in {"set", "setInit"}, NextField(t), UNCHANGED complete
    PROVE  /\ pc' \in [Threads -> {"request", "set", "setInit", "read", "store", "done"}]
           /\ at' \in [Threads -> Places]
           /\ Walks'
           /\ pc'[t] \in {"set", "read"}
           /\ \A u \in Threads \ {t} : pc'[u] = pc[u] /\ at'[u] = at[u]
           /\ \A i \in Places : (Ahead(i)' => Ahead(i)) /\ (AheadInit(i)' => AheadInit(i))
           /\ \A i \in Places : Passed(i)' => Passed(i) /\ OwnerAt(i) # t
           /\ OwnerAt(k) = t => ~AheadInit(k)'
<1>1. /\ pc \in [Threads -> {"request", "set", "setInit", "read", "store", "done"}]
      /\ at \in [Threads -> Places]
      /\ t \notin complete
  BY DEF RaceInductive, RaceTypeOK, Places, Walks
<1>2. /\ pc' \in [Threads -> {"request", "set", "setInit", "read", "store", "done"}]
      /\ at' \in [Threads -> Places]
      /\ pc'[t] \in {"set", "read"}
      /\ pc'[t] = "set" => at'[t] = k + 1
      /\ pc'[t] = "read" => at'[t] = 1
      /\ \A u \in Threads \ {t} : pc'[u] = pc[u] /\ at'[u] = at[u]
  <2>1. CASE IsLast(k)
    <3>1. pc' = [pc EXCEPT ![t] = "read"] /\ at' = [at EXCEPT ![t] = 1] /\ 1 \in Places
      BY <2>1, PlaceFacts DEF NextField, Goto, Move, Places
    <3>2. QED
      BY <1>1, <3>1
  <2>2. CASE ~IsLast(k)
    <3>1. pc' = [pc EXCEPT ![t] = "set"] /\ at' = [at EXCEPT ![t] = k + 1] /\ k + 1 \in Places
      BY <2>2, PlaceFacts DEF NextField, Goto, Move, IsLast, Places
    <3>2. QED
      BY <1>1, <3>1
  <2>3. QED
    BY <2>1, <2>2
<1>3. Walks'
  <2>1. \A u \in complete' : u # t /\ pc'[u] = "done"
    BY <1>1, <1>2 DEF RaceInductive, RaceTypeOK, Walks
  <2>2. \A u \in Threads : pc'[u] \in {"request", "done"} => at'[u] = 1
    BY <1>2 DEF RaceInductive, Walks
  <2>3. \A u \in Threads : pc'[u] = "setInit" => OwnerAt(at'[u]) = u
    BY <1>2 DEF RaceInductive, Walks
  <2>4. QED
    BY <2>1, <2>2, <2>3 DEF Walks, OwnerAt
<1>4. \A i \in Places : /\ (Ahead(i)' => Ahead(i)) /\ (AheadInit(i)' => AheadInit(i))
                       /\ (Passed(i)' => Passed(i) /\ OwnerAt(i) # t)
  BY <1>1, <1>2, PlaceFacts DEF Ahead, AheadInit, Passed, OwnerAt, Places
<1>5. OwnerAt(k) = t => ~AheadInit(k)'
  BY <1>2 DEF Ahead, AheadInit, OwnerAt, Places
<1>6. QED
  BY <1>2, <1>3, <1>4, <1>5

LEMMA SkipFieldInductive ==
    ASSUME RaceInductive, NEW t \in Threads, SkipField(t)
    PROVE  RaceInductive'
<1>0. PICK k \in Places : k = at[t]
  BY DEF RaceInductive, RaceTypeOK, Places
<1>1. /\ pc[t] = "set" /\ NextField(t)
      /\ UNCHANGED <<init, current, change, loopInit, cur, ini, before, base, complete>>
  BY DEF SkipField
<1>2. RaceTypeOK' /\ Walks'
  BY <1>0, <1>1, NextFieldPlaces DEF RaceInductive, RaceTypeOK, Places
<1>3. /\ \A u \in Threads : pc[u] = "store" <=> pc'[u] = "store"
      /\ \A u \in Threads : pc'[u] \in {"store", "setInit"} => pc'[u] = pc[u] /\ at'[u] = at[u]
  BY <1>0, <1>1, NextFieldPlaces
<1>4. Baselines' /\ Computed' /\ Idle' /\ Stored'
  BY <1>0, <1>1, <1>3, NextFieldPlaces, QuietStep
<1>5. QED
  BY <1>2, <1>4 DEF RaceInductive

\* The owner replaces the value shown once in a poll, and what a thread has read
\* of it before is then the value replaced.
LEMMA SetCurrentInductive ==
    ASSUME RaceInductive, NEW t \in Threads, NEW v \in Values, SetCurrent(t, v)
    PROVE  RaceInductive'
<1>0. PICK k \in Places : k = at[t]
  BY DEF RaceInductive, RaceTypeOK, Places
<1> DEFINE e == Entries[k]
<1>1. /\ k \in Places /\ e \in EntryKeys /\ pc[t] = "set" /\ t \notin complete
      /\ v \in Int /\ v # NoValue /\ OwnerAt(k) = t
      /\ UNCHANGED <<init, change, loopInit, cur, ini, base, complete>>
  BY <1>0, PlaceFacts, ValueAssumption
  DEF RaceInductive, RaceTypeOK, Walks, SetCurrent, Values, OwnerAt
<1>2. /\ current' = [current EXCEPT ![e] = v]
      /\ before' = [before EXCEPT ![e] = current[e]]
  BY <1>0 DEF SetCurrent
<1>3. /\ current'[e] = v /\ before'[e] = current[e]
      /\ \A i \in Places \ {k} :
            current'[Entries[i]] = current[Entries[i]] /\ before'[Entries[i]] = before[Entries[i]]
      /\ \A f \in EntryKeys : current[f] # NoValue => current'[f] # NoValue
  BY <1>1, <1>2, PlaceFacts DEF RaceInductive, RaceTypeOK
<1>4. /\ pc' \in [Threads -> {"request", "set", "setInit", "read", "store", "done"}]
      /\ at' \in [Threads -> Places]
      /\ Walks'
      /\ pc'[t] \in {"set", "setInit", "read"}
      /\ pc'[t] = "setInit" => at'[t] = k
      /\ \A u \in Threads \ {t} : pc'[u] = pc[u] /\ at'[u] = at[u]
      /\ \A i \in Places : (Ahead(i)' => Ahead(i)) /\ (AheadInit(i)' => AheadInit(i))
      /\ \A i \in Places : Passed(i)' => Passed(i) /\ OwnerAt(i) # t
      /\ ~Ahead(k)'
  <2>1. CASE loopInit
    <3>1. pc' = [pc EXCEPT ![t] = "setInit"] /\ UNCHANGED at
      BY <2>1 DEF SetCurrent, Goto
    <3>2. /\ pc \in [Threads -> {"request", "set", "setInit", "read", "store", "done"}]
          /\ at \in [Threads -> Places]
      BY DEF RaceInductive, RaceTypeOK, Places
    <3>3. Walks'
      BY <1>0, <1>1, <3>1, <3>2 DEF RaceInductive, RaceTypeOK, Walks, OwnerAt
    <3>4. \A i \in Places : /\ (Ahead(i)' => Ahead(i)) /\ (AheadInit(i)' => AheadInit(i))
                           /\ (Passed(i)' => Passed(i) /\ OwnerAt(i) # t)
      BY <1>0, <1>1, <3>1, <3>2, PlaceFacts DEF Ahead, AheadInit, Passed, OwnerAt, Places
    <3>5. ~Ahead(k)'
      BY <1>0, <1>1, <3>1, <3>2 DEF Ahead, OwnerAt, Places
    <3>6. QED
      BY <1>0, <3>1, <3>2, <3>3, <3>4, <3>5
  <2>2. CASE ~loopInit
    <3>1. NextField(t)
      BY <2>2 DEF SetCurrent
    <3>2. QED
      BY <1>0, <1>1, <3>1, NextFieldPlaces DEF AheadInit
  <2>3. QED
    BY <2>1, <2>2
<1>5. RaceTypeOK'
  BY <1>1, <1>2, <1>4 DEF RaceInductive, RaceTypeOK, Places
<1>6. Baselines'
  <2>1. \A u \in Threads \ {t} : pc'[u] = "setInit" =>
            pc[u] = "setInit" /\ at'[u] = at[u] /\ Entries[at[u]] \in EntryKeys
    BY <1>4, PlaceFacts DEF RaceInductive, RaceTypeOK, Places
  <2>2. QED
    BY <1>1, <1>3, <1>4, <2>1 DEF RaceInductive, Baselines
<1>7. Idle'
  BY <1>1, <1>4 DEF RaceInductive, Idle
<1>8. Stored'
  <2>1. \A i \in Places : Passed(i)' => Passed(i) /\ i # k
    BY <1>1, <1>4
  <2>2. QED
    BY <1>1, <1>3, <2>1 DEF RaceInductive, Stored, FromRecent
<1>9. Computed'
  <2> SUFFICES ASSUME NEW u \in Threads, NEW j \in Places, pc'[u] = "store", at'[u] = j
               PROVE  ReadAt(u, j)'
    BY <1>4 DEF Computed
  <2>1. cur'[u] = cur[u] /\ ini'[u] = ini[u] /\ ReadAt(u, j)
    BY <1>1, <1>4 DEF RaceInductive, Computed
  <2>2. CASE j = k
    <3>1. Ahead(k)
      BY <1>0, <1>1 DEF Ahead, Places
    <3>2. QED
      BY <1>1, <1>3, <1>4, <2>1, <2>2, <3>1 DEF ReadAt, RecentValue, RecentBase
  <2>3. CASE j # k
    BY <1>1, <1>3, <1>4, <2>1, <2>3 DEF ReadAt, RecentValue, RecentBase
  <2>4. QED
    BY <2>2, <2>3
<1>10. QED
  BY <1>4, <1>5, <1>6, <1>7, <1>8, <1>9 DEF RaceInductive

\* The same of the baseline.
LEMMA SetInitInductive ==
    ASSUME RaceInductive, NEW t \in Threads, SetInit(t)
    PROVE  RaceInductive'
<1>0. PICK k \in Places : k = at[t]
  BY DEF RaceInductive, RaceTypeOK, Places
<1> DEFINE e == Entries[k]
<1>1. /\ k \in Places /\ e \in EntryKeys /\ pc[t] = "setInit" /\ t \notin complete
      /\ current[e] # NoValue /\ OwnerAt(k) = t /\ NextField(t)
      /\ UNCHANGED <<current, change, loopInit, cur, ini, before, complete>>
  BY <1>0, PlaceFacts DEF RaceInductive, RaceTypeOK, Walks, Baselines, SetInit
<1>2. /\ init' = [init EXCEPT ![e] = current[e]]
      /\ base' = [base EXCEPT ![e] = init[e]]
  BY <1>0 DEF SetInit
<1>3. /\ init'[e] = current[e] /\ base'[e] = init[e]
      /\ \A i \in Places \ {k} :
            init'[Entries[i]] = init[Entries[i]] /\ base'[Entries[i]] = base[Entries[i]]
      /\ \A f \in EntryKeys : init'[f] # NoValue => current[f] # NoValue
  BY <1>1, <1>2, PlaceFacts DEF RaceInductive, RaceTypeOK, Baselines
<1>4. /\ pc' \in [Threads -> {"request", "set", "setInit", "read", "store", "done"}]
      /\ at' \in [Threads -> Places]
      /\ Walks'
      /\ pc'[t] \in {"set", "read"}
      /\ \A u \in Threads \ {t} : pc'[u] = pc[u] /\ at'[u] = at[u]
      /\ \A i \in Places : (Ahead(i)' => Ahead(i)) /\ (AheadInit(i)' => AheadInit(i))
      /\ \A i \in Places : Passed(i)' => Passed(i) /\ OwnerAt(i) # t
      /\ ~AheadInit(k)'
  BY <1>0, <1>1, NextFieldPlaces
<1>5. RaceTypeOK'
  BY <1>1, <1>2, <1>4 DEF RaceInductive, RaceTypeOK, Places
<1>6. Baselines'
  BY <1>1, <1>3, <1>4 DEF RaceInductive, Baselines
<1>7. Idle'
  BY <1>1, <1>4 DEF RaceInductive, Idle
<1>8. Stored'
  <2>1. \A i \in Places : Passed(i)' => Passed(i) /\ i # k
    BY <1>1, <1>4
  <2>2. QED
    BY <1>1, <1>3, <2>1 DEF RaceInductive, Stored, FromRecent
<1>9. Computed'
  <2> SUFFICES ASSUME NEW u \in Threads, NEW j \in Places, pc'[u] = "store", at'[u] = j
               PROVE  ReadAt(u, j)'
    BY <1>4 DEF Computed
  <2>1. cur'[u] = cur[u] /\ ini'[u] = ini[u] /\ ReadAt(u, j)
    BY <1>1, <1>4 DEF RaceInductive, Computed
  <2>2. CASE j = k
    <3>1. AheadInit(k)
      BY <1>0, <1>1 DEF AheadInit
    <3>2. QED
      BY <1>1, <1>3, <1>4, <2>1, <2>2, <3>1 DEF ReadAt, RecentValue, RecentBase
  <2>3. CASE j # k
    BY <1>1, <1>3, <1>4, <2>1, <2>3 DEF ReadAt, RecentValue, RecentBase
  <2>4. QED
    BY <2>2, <2>3
<1>10. QED
  BY <1>4, <1>5, <1>6, <1>7, <1>8, <1>9 DEF RaceInductive

\* The walk of a thread takes it past the entry it is at and past no other.
LEMMA NextEntryPlaces ==
    ASSUME RaceInductive, NEW t \in Threads, NEW k \in Places, at[t] = k,
           pc[t] \in {"read", "store"}, NextEntry(t)
    PROVE  /\ pc' \in [Threads -> {"request", "set", "setInit", "read", "store", "done"}]
           /\ at' \in [Threads -> Places]
           /\ complete' \subseteq Threads
           /\ Walks'
           /\ pc'[t] \in {"read", "done"}
           /\ \A u \in Threads \ {t} : pc'[u] = pc[u] /\ at'[u] = at[u]
           /\ \A i \in Places : (Ahead(i)' => Ahead(i)) /\ (AheadInit(i)' => AheadInit(i))
           /\ \A i \in Places : Passed(i)' => Passed(i) \/ (i = k /\ OwnerAt(i) = t)
<1>1. /\ pc \in [Threads -> {"request", "set", "setInit", "read", "store", "done"}]
      /\ at \in [Threads -> Places]
      /\ complete \subseteq Threads
      /\ t \notin complete
  BY DEF RaceInductive, RaceTypeOK, Places, Walks
<1>2. CASE IsLast(k)
  <2>1. /\ pc' = [pc EXCEPT ![t] = "done"] /\ at' = [at EXCEPT ![t] = 1] /\ 1 \in Places
        /\ complete' = complete \cup {t} /\ k = Len(Entries)
    BY <1>2, PlaceFacts DEF NextEntry, Goto, Move, IsLast, Places
  <2>2. Walks'
    BY <1>1, <2>1 DEF RaceInductive, Walks, OwnerAt
  <2>3. \A i \in Places : Passed(i)' => Passed(i) \/ (i = k /\ OwnerAt(i) = t)
    BY <1>1, <2>1, PlaceFacts DEF Passed, OwnerAt, Places
  <2>4. \A i \in Places : (Ahead(i)' => Ahead(i)) /\ (AheadInit(i)' => AheadInit(i))
    BY <1>1, <2>1, PlaceFacts DEF Ahead, AheadInit, OwnerAt
  <2>5. QED
    BY <1>1, <2>1, <2>2, <2>3, <2>4
<1>3. CASE ~IsLast(k)
  <2>1. /\ pc' = [pc EXCEPT ![t] = "read"] /\ at' = [at EXCEPT ![t] = k + 1] /\ k + 1 \in Places
        /\ complete' = complete
    BY <1>3, PlaceFacts DEF NextEntry, Goto, Move, IsLast, Places
  <2>2. Walks'
    BY <1>1, <2>1 DEF RaceInductive, Walks, OwnerAt
  <2>3. \A i \in Places : Passed(i)' => Passed(i) \/ (i = k /\ OwnerAt(i) = t)
    BY <1>1, <2>1, PlaceFacts DEF Passed, OwnerAt, Places
  <2>4. \A i \in Places : (Ahead(i)' => Ahead(i)) /\ (AheadInit(i)' => AheadInit(i))
    BY <1>1, <2>1, PlaceFacts DEF Ahead, AheadInit, OwnerAt
  <2>5. QED
    BY <1>1, <2>1, <2>2, <2>3, <2>4
<1>4. QED
  BY <1>2, <1>3

\* An entry that is skipped has no baseline, and gets none from anybody else.
LEMMA SkipEntryInductive ==
    ASSUME RaceInductive, NEW t \in Threads, SkipEntry(t)
    PROVE  RaceInductive'
<1>0. PICK k \in Places : k = at[t]
  BY DEF RaceInductive, RaceTypeOK, Places
<1>1. /\ pc[t] = "read" /\ NextEntry(t) /\ NoValue \in {init[Entries[k]], current[Entries[k]]}
      /\ UNCHANGED <<init, current, change, loopInit, cur, ini, before, base>>
  BY <1>0 DEF SkipEntry
<1>2. init[Entries[k]] = NoValue
  BY <1>1, PlaceFacts DEF RaceInductive, Baselines
<1>3. RaceTypeOK' /\ Walks'
  BY <1>0, <1>1, NextEntryPlaces DEF RaceInductive, RaceTypeOK, Places
<1>4. /\ \A u \in Threads : pc[u] = "store" <=> pc'[u] = "store"
      /\ \A u \in Threads : pc'[u] \in {"store", "setInit"} => pc'[u] = pc[u] /\ at'[u] = at[u]
  BY <1>0, <1>1, NextEntryPlaces
<1>5. Baselines' /\ Computed' /\ Idle' /\ Stored'
  BY <1>0, <1>1, <1>2, <1>4, NextEntryPlaces, QuietStep
<1>6. QED
  BY <1>3, <1>5 DEF RaceInductive

\* What a thread reads of an entry is shown now.
LEMMA ReadsInductive ==
    ASSUME RaceInductive, NEW t \in Threads, NEW k \in Places, k = at[t],
           pc[t] \in {"read", "store"}, init[Entries[k]] # NoValue,
           pc' = [pc EXCEPT ![t] = "store"],
           \/ cur' = [cur EXCEPT ![t] = current[Entries[k]]] /\ UNCHANGED ini
           \/ ini' = [ini EXCEPT ![t] = init[Entries[k]]] /\ UNCHANGED cur,
           UNCHANGED <<init, current, change, loopInit, at, before, base, complete>>
    PROVE  RaceInductive'
<1> DEFINE e == Entries[k]
<1>1. e \in EntryKeys /\ current[e] # NoValue
  BY PlaceFacts DEF RaceInductive, Baselines
<1>2. /\ pc' \in [Threads -> {"request", "set", "setInit", "read", "store", "done"}]
      /\ \A u \in Threads \ {t} : pc'[u] = pc[u] /\ cur'[u] = cur[u] /\ ini'[u] = ini[u]
      /\ pc'[t] = "store" /\ cur'[t] \in {cur[t], current[e]} /\ ini'[t] \in {ini[t], init[e]}
  BY DEF RaceInductive, RaceTypeOK
<1>3. RaceTypeOK'
  <2>1. current[e] \in Values \cup {NoValue} /\ init[e] \in Values \cup {NoValue}
    BY <1>1 DEF RaceInductive, RaceTypeOK
  <2>2. cur' \in [Threads -> Values \cup {NoValue}] /\ ini' \in [Threads -> Values \cup {NoValue}]
    BY <2>1 DEF RaceInductive, RaceTypeOK
  <2>3. QED
    BY <1>2, <2>2 DEF RaceInductive, RaceTypeOK
<1>4. Walks' /\ Baselines' /\ Idle'
  BY <1>2 DEF RaceInductive, RaceTypeOK, Walks, Baselines, Idle, OwnerAt
<1>5. \A i \in Places : /\ (Ahead(i)' => Ahead(i)) /\ (AheadInit(i)' => AheadInit(i))
                       /\ (Passed(i)' => Passed(i))
  BY <1>2, PlaceFacts DEF RaceInductive, RaceTypeOK, Ahead, AheadInit, Passed, OwnerAt
<1>6. Stored'
  BY <1>5 DEF RaceInductive, Stored, FromRecent
<1>7. Computed'
  <2> SUFFICES ASSUME NEW u \in Threads, NEW j \in Places, pc'[u] = "store", at'[u] = j
               PROVE  ReadAt(u, j)'
    BY DEF Computed, RaceInductive, RaceTypeOK, Places
  <2>1. CASE u = t
    <3>1. j = k
      BY <2>1
    <3>2. /\ cur[t] # NoValue => RecentValue(e, cur[t]) /\ (Ahead(k) => cur[t] = current[e])
          /\ ini[t] # NoValue => RecentBase(e, ini[t]) /\ (AheadInit(k) => ini[t] = init[e])
      BY DEF RaceInductive, Computed, Idle, ReadAt
    <3>3. QED
      BY <1>1, <1>2, <1>5, <2>1, <3>1, <3>2 DEF ReadAt, RecentValue, RecentBase
  <2>2. CASE u # t
    <3>1. cur'[u] = cur[u] /\ ini'[u] = ini[u] /\ ReadAt(u, j)
      BY <1>2, <2>2 DEF RaceInductive, Computed
    <3>2. QED
      BY <1>5, <3>1 DEF ReadAt, RecentValue, RecentBase
  <2>3. QED
    BY <2>1, <2>2
<1>8. QED
  BY <1>3, <1>4, <1>6, <1>7 DEF RaceInductive

LEMMA ReadEntryInductive ==
    ASSUME RaceInductive, NEW t \in Threads, ReadEntry(t)
    PROVE  RaceInductive'
<1>0. PICK k \in Places : k = at[t]
  BY DEF RaceInductive, RaceTypeOK, Places
<1>1. init[Entries[k]] # NoValue
  BY <1>0 DEF ReadEntry
<1>2. QED
  BY <1>0, <1>1, ReadsInductive DEF ReadEntry, Goto

LEMMA ReadOtherInductive ==
    ASSUME RaceInductive, NEW t \in Threads, ReadOther(t)
    PROVE  RaceInductive'
<1>0. PICK k \in Places : k = at[t]
  BY DEF RaceInductive, RaceTypeOK, Places
<1>1. init[Entries[k]] # NoValue
  BY <1>0 DEF ReadOther, RaceInductive, Computed, ReadAt
<1>2. pc' = [pc EXCEPT ![t] = "store"]
  BY DEF ReadOther, RaceInductive, RaceTypeOK
<1>3. QED
  BY <1>0, <1>1, <1>2, ReadsInductive DEF ReadOther

\* Whoever stores a difference, it comes from recent values; and the owner's
\* own is stored before it is through.
LEMMA StoreEntryInductive ==
    ASSUME RaceInductive, NEW t \in Threads, StoreEntry(t)
    PROVE  RaceInductive'
<1>0. PICK k \in Places : k = at[t]
  BY DEF RaceInductive, RaceTypeOK, Places
<1> DEFINE e == Entries[k]
<1>1. /\ e \in EntryKeys /\ pc[t] = "store" /\ NextEntry(t)
      /\ cur[t] \in Values /\ ini[t] \in Values /\ NoValue \notin {cur[t], ini[t]}
      /\ change' = [change EXCEPT ![e] = cur[t] - ini[t]]
      /\ cur' = [cur EXCEPT ![t] = NoValue]
      /\ ini' = [ini EXCEPT ![t] = NoValue]
      /\ UNCHANGED <<init, current, loopInit, before, base>>
  BY <1>0, PlaceFacts DEF StoreEntry, RaceInductive, RaceTypeOK
<1>2. RecentValue(e, cur[t]) /\ RecentBase(e, ini[t])
  BY <1>0, <1>1 DEF RaceInductive, Computed, ReadAt
<1>3. RaceTypeOK' /\ Walks'
  <2>1. cur[t] - ini[t] \in Changes
    BY <1>1, ValueAssumption DEF Values, Changes
  <2>2. QED
    BY <1>0, <1>1, <2>1, NextEntryPlaces DEF RaceInductive, RaceTypeOK, Places
<1>4. Baselines' /\ Idle'
  BY <1>0, <1>1, NextEntryPlaces DEF RaceInductive, RaceTypeOK, Baselines, Idle
<1>5. Stored'
  <2> SUFFICES ASSUME NEW i \in Places, Passed(i)', init[Entries[i]] # NoValue
               PROVE  FromRecent(Entries[i], change[Entries[i]])'
    BY <1>1 DEF Stored
  <2>1. CASE i = k
    <3>1. change'[e] = cur[t] - ini[t]
      BY <1>1 DEF RaceInductive, RaceTypeOK
    <3>2. QED
      BY <1>1, <1>2, <2>1, <3>1 DEF FromRecent, RecentValue, RecentBase
  <2>2. CASE i # k
    <3>1. change'[Entries[i]] = change[Entries[i]]
      BY <1>1, <2>2, PlaceFacts DEF RaceInductive, RaceTypeOK
    <3>2. Passed(i)
      BY <1>0, <1>1, <2>2, NextEntryPlaces
    <3>3. QED
      BY <1>1, <3>1, <3>2 DEF RaceInductive, Stored, FromRecent
  <2>3. QED
    BY <2>1, <2>2
<1>6. Computed'
  <2> SUFFICES ASSUME NEW u \in Threads, NEW j \in Places, pc'[u] = "store", at'[u] = j
               PROVE  ReadAt(u, j)'
    BY <1>3 DEF Computed, RaceTypeOK, Places
  <2>1. u # t /\ at[u] = j /\ pc[u] = "store"
    BY <1>0, <1>1, NextEntryPlaces
  <2>2. cur'[u] = cur[u] /\ ini'[u] = ini[u] /\ ReadAt(u, j)
    BY <1>1, <2>1 DEF RaceInductive, RaceTypeOK, Computed
  <2>3. (Ahead(j)' => Ahead(j)) /\ (AheadInit(j)' => AheadInit(j))
    BY <1>0, <1>1, NextEntryPlaces
  <2>4. QED
    BY <1>1, <2>2, <2>3 DEF ReadAt, RecentValue, RecentBase
<1>7. QED
  BY <1>3, <1>4, <1>5, <1>6 DEF RaceInductive

\* A thread that gives up forgets what it has read and leaves the stats alone.
LEMMA EntryThrowsInductive ==
    ASSUME RaceInductive, NEW t \in Threads, EntryThrows(t)
    PROVE  RaceInductive'
<1> USE PlaceFacts DEF RaceInductive, EntryThrows, Goto, Move, RaceTypeOK, Walks
<1>1. RaceTypeOK' /\ Walks'
  BY DEF OwnerAt
<1>2. \A i \in Places : /\ (Ahead(i)' => Ahead(i)) /\ (AheadInit(i)' => AheadInit(i))
                       /\ (Passed(i)' => Passed(i))
  BY DEF Ahead, AheadInit, Passed, OwnerAt, Places
<1>3. Baselines' /\ Idle' /\ Stored'
  BY <1>2 DEF Baselines, Idle, Stored, FromRecent
<1>4. Computed'
  <2> SUFFICES ASSUME NEW u \in Threads, NEW j \in Places, pc'[u] = "store", at'[u] = j
               PROVE  ReadAt(u, j)'
    BY <1>1 DEF Computed, Places
  <2>1. u # t /\ at[u] = j /\ pc[u] = "store" /\ cur'[u] = cur[u] /\ ini'[u] = ini[u]
    OBVIOUS
  <2>2. QED
    BY <1>2, <2>1 DEF Computed, ReadAt, RecentValue, RecentBase
<1>5. QED
  BY <1>1, <1>3, <1>4

LEMMA RaceInductiveAlways == RaceSpec => []RaceInductive
<1>1. RaceInductive /\ [RaceNext]_raceVars => RaceInductive'
  <2> SUFFICES ASSUME RaceInductive, [RaceNext]_raceVars PROVE RaceInductive'
    OBVIOUS
  <2>1. CASE UNCHANGED raceVars
    BY <2>1 DEF raceVars, RaceInductive, RaceTypeOK, Walks, Baselines, Computed, Idle, ReadAt,
       RecentValue, RecentBase, Stored, FromRecent, Ahead, AheadInit, Passed, OwnerAt
  <2>2. CASE NextPoll \/ StopStart \/ RestartFetch
    BY <2>2, PollBeginsInductive DEF NextPoll, StopStart, RestartFetch
  <2>3. QED
    BY <2>1, <2>2, AnswerInductive, SkipFieldInductive, SetCurrentInductive, SetInitInductive,
       SetFieldThrowsInductive, SkipEntryInductive, ReadEntryInductive, ReadOtherInductive,
       StoreEntryInductive, EntryThrowsInductive
    DEF RaceNext
<1>2. QED
  BY <1>1, RaceInitInductive, PTL DEF RaceSpec

\* Values, changes and walks keep their types.
THEOREM RaceTypes == RaceSpec => []RaceTypeOK
<1>1. RaceInductive => RaceTypeOK
  BY DEF RaceInductive
<1>2. QED
  BY <1>1, RaceInductiveAlways, PTL

\* Three threads that compute every entry's change without a lock leave none of
\* older values than those the poll replaced, in the first poll of a session
\* over old stats too.
THEOREM StaleSafety == RaceSpec => []StaleByOneAtMost
<1>1. RaceInductive => StaleByOneAtMost
  <2> SUFFICES ASSUME RaceInductive, NEW e \in EntryKeys, Owner[e] \in complete, init[e] # NoValue
               PROVE  FromRecent(e, change[e])
    BY DEF StaleByOneAtMost, FromRecent
  <2>1. PICK i \in Places : e = Entries[i]
    BY PlaceFacts
  <2>2. QED
    BY <2>1 DEF RaceInductive, Stored, Passed, OwnerAt
<1>2. QED
  BY <1>1, RaceInductiveAlways, PTL

-----------------------------------------------------------------------------
(* TxtExport.  A sorted copy of arr has every entry once; with the sort    *)
(* values of a fresh arr it is arr itself, for numbers that grow along     *)
(* 1 .. n within 1 .. n are 1, 2, ..., n.                                  *)

\* The first i of them are distinct numbers up to the i-th, the others distinct
\* numbers from it: counting both leaves no room.
LEMMA GrowingIsIdentity ==
    ASSUME NEW n \in Nat, NEW g \in [1..n -> 1..n],
           \A i, j \in 1..n : i < j => g[i] < g[j]
    PROVE  \A i \in 1..n : g[i] = i
<1> SUFFICES ASSUME NEW i \in 1..n PROVE g[i] = i
  OBVIOUS
<1>1. i <= g[i]
  <2> DEFINE f == [j \in 1..i |-> g[j]]
  <2>1. f \in Injection(1..i, 1..g[i])
    <3>1. \A j \in 1..i : j \in 1..n /\ (j = i \/ g[j] < g[i])
      OBVIOUS
    <3>2. f \in [1..i -> 1..g[i]]
      BY <3>1
    <3>3. \A a, b \in 1..i : f[a] = f[b] => a = b
      <4> SUFFICES ASSUME NEW a \in 1..i, NEW b \in 1..i, g[a] = g[b] PROVE a = b
        OBVIOUS
      <4>1. a \in 1..n /\ b \in 1..n /\ g[a] \in Int
        OBVIOUS
      <4>2. ~(a < b) /\ ~(b < a)
        BY <4>1
      <4>3. QED
        BY <4>2
    <3>4. QED
      BY <3>2, <3>3 DEF Injection, IsInjective
  <2>2. IsFiniteSet(1..g[i]) /\ Cardinality(1..g[i]) = g[i] /\ Cardinality(1..i) = i
    BY FS_Interval
  <2> HIDE DEF f
  <2>3. QED
    BY <2>1, <2>2, FS_Injection
<1>2. g[i] <= i
  <2> DEFINE f == [j \in i..n |-> g[j]]
  <2>1. f \in Injection(i..n, g[i]..n)
    <3>1. \A j \in i..n : j \in 1..n /\ (j = i \/ g[i] < g[j])
      OBVIOUS
    <3>2. f \in [i..n -> g[i]..n]
      BY <3>1
    <3>3. \A a, b \in i..n : f[a] = f[b] => a = b
      <4> SUFFICES ASSUME NEW a \in i..n, NEW b \in i..n, g[a] = g[b] PROVE a = b
        OBVIOUS
      <4>1. a \in 1..n /\ b \in 1..n /\ g[a] \in Int
        OBVIOUS
      <4>2. ~(a < b) /\ ~(b < a)
        BY <4>1
      <4>3. QED
        BY <4>2
    <3>4. QED
      BY <3>2, <3>3 DEF Injection, IsInjective
  <2>2. IsFiniteSet(g[i]..n) /\ Cardinality(g[i]..n) = n - g[i] + 1 /\ Cardinality(i..n) = n - i + 1
    BY FS_Interval
  <2> HIDE DEF f
  <2>3. Cardinality(i..n) <= Cardinality(g[i]..n)
    BY <2>1, <2>2, FS_Injection
  <2>4. QED
    BY <2>2, <2>3
<1>3. QED
  BY <1>1, <1>2

\* Every entry of arr has a place of its own, and sort counts the places.
LEMMA KeyFacts ==
    /\ Len(Keys) \in Nat \ {0} /\ Positions = 1..Len(Keys)
    /\ Keys \in Bijection(Positions, KeySet)
    /\ \A i \in Positions : DefaultSort[Keys[i]] = i
    /\ \A k \in KeySet : DefaultSort[k] \in Positions /\ Keys[DefaultSort[k]] = k
<1>1. Len(Keys) \in Nat \ {0} /\ Positions = 1..Len(Keys) /\ DOMAIN Keys = Positions
  BY KeysAssumption DEF Positions
<1>2. \A i, j \in Positions : Keys[i] = Keys[j] => i = j
  BY <1>1, KeysAssumption DEF IsInjective
<1>3. Keys \in [Positions -> KeySet]
  BY <1>1, KeysAssumption
<1>4. Keys \in Bijection(Positions, KeySet)
  BY <1>1, <1>2, <1>3 DEF Bijection, Injection, Surjection, IsInjective, KeySet
<1>5. \A k \in KeySet : DefaultSort[k] \in Positions /\ Keys[DefaultSort[k]] = k
  BY DEF DefaultSort, KeySet
<1>6. QED
  BY <1>1, <1>2, <1>3, <1>4, <1>5

\* However ties are broken, the sorted copy has every entry once.
LEMMA SortedOnce ==
    ASSUME NEW srt, NEW o \in SortedOrders(srt)
    PROVE  /\ o \in [Positions -> KeySet]
           /\ {o[i] : i \in Positions} = KeySet
           /\ \A i, j \in Positions : i # j => o[i] # o[j]
           /\ \A i, j \in Positions : i < j => srt[o[i]] <= srt[o[j]]
<1>1. IsFiniteSet(Positions) /\ Cardinality(Positions) = Len(Keys)
  <2>1. Positions = 1..Len(Keys) /\ Len(Keys) \in Nat \ {0}
    BY KeyFacts
  <2>2. ASSUME NEW n \in Nat \ {0}
        PROVE  IsFiniteSet(1..n) /\ Cardinality(1..n) = n
    BY FS_Interval
  <2>3. IsFiniteSet(1..Len(Keys)) /\ Cardinality(1..Len(Keys)) = Len(Keys)
    BY <2>1, <2>2
  <2>4. QED
    BY <2>1, <2>3
<1>2. IsFiniteSet(KeySet) /\ Cardinality(KeySet) = Len(Keys)
  <2>1. ExistsBijection(Positions, KeySet)
    BY KeyFacts DEF ExistsBijection
  <2>2. QED
    BY <1>1, <2>1, FS_Bijection
<1>3. /\ o \in [Positions -> KeySet]
      /\ \A i, j \in Positions : i # j => o[i] # o[j]
      /\ \A i, j \in Positions : i < j => srt[o[i]] <= srt[o[j]]
  BY <1>2, KeyFacts DEF SortedOrders, SetToSeqs
<1>4. o \in Injection(Positions, KeySet)
  BY <1>3 DEF Injection, IsInjective
<1>5. o \in Surjection(Positions, KeySet)
  BY <1>1, <1>2, <1>4, FS_Injection
<1>6. {o[i] : i \in Positions} = KeySet
  BY <1>3, <1>5 DEF Surjection
<1>7. QED
  BY <1>3, <1>6

\* With the compiled-in sort values the sorted copy is arr.
LEMMA DefaultOrder ==
    ASSUME NEW o \in SortedOrders(DefaultSort)
    PROVE  \A i \in Positions : o[i] = Keys[i]
<1> DEFINE g == [i \in Positions |-> DefaultSort[o[i]]]
<1>1. /\ o \in [Positions -> KeySet]
      /\ \A i, j \in Positions : i # j => o[i] # o[j]
      /\ \A i, j \in Positions : i < j => DefaultSort[o[i]] <= DefaultSort[o[j]]
  BY SortedOnce
<1>2. g \in [1..Len(Keys) -> 1..Len(Keys)]
  BY <1>1, KeyFacts
<1>3. \A i, j \in 1..Len(Keys) : i < j => g[i] < g[j]
  <2> SUFFICES ASSUME NEW i \in Positions, NEW j \in Positions, i < j PROVE g[i] < g[j]
    BY KeyFacts
  <2>1. g[i] <= g[j] /\ g[i] \in Int /\ g[j] \in Int
    BY <1>1, <1>2, KeyFacts
  <2>2. g[i] # g[j]
    BY <1>1, KeyFacts
  <2>3. QED
    BY <2>1, <2>2
<1>4. \A i \in 1..Len(Keys) : g[i] = i
  <2> HIDE DEF g
  <2>1. QED
    BY <1>2, <1>3, KeyFacts, GrowingIsIdentity
<1>5. QED
  BY <1>1, <1>4, KeyFacts

\* A copy of arr is a list of its length.
LEMMA CopyIsList ==
    ASSUME NEW f \in [Positions -> Formatted]
    PROVE  f \in BoundedSeq(Formatted, Len(Keys)) /\ Len(f) = Len(Keys)
<1>1. f \in [1..Len(Keys) -> Formatted] /\ Len(Keys) \in 0..Len(Keys) /\ Len(Keys) \in Nat
  BY KeyFacts
<1>2. f \in BoundedSeq(Formatted, Len(Keys))
  BY <1>1 DEF BoundedSeq, SeqOf
<1>3. f \in Seq(Formatted) /\ DOMAIN f = 1..Len(Keys)
  BY <1>1, SeqDef
<1>4. QED
  BY <1>1, <1>2, <1>3, LenProperties

\* updateFormat leaves every entry once, in the order asked for.
LEMMA UpdateFormatList ==
    ASSUME ExportTypeOK, NEW srt, UpdateFormat(srt)
    PROVE  /\ formatted' \in [Positions -> Formatted]
           /\ formatted' \in BoundedSeq(Formatted, Len(Keys))
           /\ {formatted'[i].key : i \in 1 .. Len(formatted')} = KeySet
           /\ \A i, j \in Positions :
                 i < j => srt[formatted'[i].key] <= srt[formatted'[j].key]
<1>1. PICK o \in SortedOrders(srt) :
         formatted' = [i \in Positions |-> [key |-> o[i], poll |-> raw[o[i]]]]
  BY DEF UpdateFormat
<1>2. /\ o \in [Positions -> KeySet]
      /\ {o[i] : i \in Positions} = KeySet
      /\ \A i, j \in Positions : i < j => srt[o[i]] <= srt[o[j]]
  BY SortedOnce
<1>3. formatted' \in [Positions -> Formatted]
  BY <1>1, <1>2 DEF ExportTypeOK, Formatted
<1>4. \A i \in Positions : formatted'[i].key = o[i]
  BY <1>1
<1>5. formatted' \in BoundedSeq(Formatted, Len(Keys)) /\ 1 .. Len(formatted') = Positions
  BY <1>3, CopyIsList, KeyFacts
<1>6. QED
  BY <1>2, <1>3, <1>4, <1>5

\* With the compiled-in order the copy has each entry where arr has it.
LEMMA UpdateFormatDefault ==
    ASSUME UpdateFormat(DefaultSort), NEW k \in KeySet
    PROVE  formatted'[DefaultSort[k]].key = k
<1>1. PICK o \in SortedOrders(DefaultSort) :
         formatted' = [i \in Positions |-> [key |-> o[i], poll |-> raw[o[i]]]]
  BY DEF UpdateFormat
<1>2. DefaultSort[k] \in Positions /\ o[DefaultSort[k]] = k
  BY KeyFacts, DefaultOrder
<1>3. QED
  BY <1>1, <1>2

\* The list is a whole copy of arr, or empty as restartFetch leaves it.
ListWhole == formatted # <<>> => formatted \in [Positions -> Formatted]

\* Nobody else changes a sort value.
OrderIsDefault == ~reordered => sort = DefaultSort

ExportInductive ==
    /\ ExportTypeOK
    /\ ListWhole
    /\ ListInOrder
    /\ OrderIsDefault
    /\ DefaultOrderExports

LEMMA EmptyList == <<>> \in BoundedSeq(Formatted, Len(Keys))
<1>1. <<>> \in [1..0 -> Formatted] /\ 0 \in 0..Len(Keys)
  BY KeyFacts
<1>2. QED
  BY <1>1 DEF BoundedSeq, SeqOf

LEMMA ExportInitInductive == ExportInit => ExportInductive
<1> SUFFICES ASSUME ExportInit PROVE ExportInductive
  OBVIOUS
<1> USE DEF ExportInit
<1>1. DefaultSort \in [KeySet -> Positions]
  BY KeyFacts DEF DefaultSort
<1>2. ExportTypeOK
  <2>1. raw \in [KeySet -> (0 .. MaxPoll) \cup {NoText}] /\ txt \in [KeySet -> Texts]
    BY DEF Texts
  <2>2. poll \in 0 .. MaxPoll
    BY MaxPollAssumption
  <2>3. formatted \in BoundedSeq(Formatted, Len(Keys))
    BY EmptyList
  <2>4. QED
    BY <1>1, <2>1, <2>2, <2>3 DEF ExportTypeOK
<1>3. ListWhole /\ ListInOrder /\ OrderIsDefault /\ DefaultOrderExports
  BY DEF ListWhole, ListInOrder, OrderIsDefault, DefaultOrderExports
<1>4. QED
  BY <1>2, <1>3 DEF ExportInductive

LEMMA SetFieldsInductive ==
    ASSUME ExportInductive, NEW ks \in SUBSET KeySet, SetFields(ks)
    PROVE  ExportInductive'
<1>1. ExportTypeOK'
  <2>1. poll' \in 0..MaxPoll
    BY MaxPollAssumption DEF SetFields, ExportInductive, ExportTypeOK
  <2>2. QED
    BY <2>1 DEF SetFields, ExportInductive, ExportTypeOK
<1>2. QED
  BY <1>1 DEF SetFields, ExportInductive, ListWhole, ListInOrder, OrderIsDefault, DefaultOrderExports

\* A poll's end lists and exports the entries in the order there is.
LEMMA PublishInductive == ExportInductive /\ Publish => ExportInductive'
<1> SUFFICES ASSUME ExportInductive, Publish PROVE ExportInductive'
  OBVIOUS
<1>1. /\ ExportTypeOK /\ UpdateFormat(sort)
      /\ txt' = [k \in KeySet |-> Text(formatted'[DefaultSort[k]])]
      /\ UNCHANGED <<sort, raw, poll, reordered>> /\ unsynced' = FALSE
  BY DEF ExportInductive, Publish, WriteStats
<1>2. /\ formatted' \in [Positions -> Formatted]
      /\ formatted' \in BoundedSeq(Formatted, Len(Keys))
      /\ {formatted'[i].key : i \in 1 .. Len(formatted')} = KeySet
      /\ \A i, j \in Positions :
            i < j => sort[formatted'[i].key] <= sort[formatted'[j].key]
  BY <1>1, UpdateFormatList
<1>3. ExportTypeOK'
  <2>1. \A k \in KeySet : formatted'[DefaultSort[k]] \in Formatted
    BY <1>2, KeyFacts
  <2>2. \A f \in Formatted : Text(f) \in Texts
    BY DEF Formatted, Text, Texts
  <2>3. QED
    BY <1>1, <1>2, <2>1, <2>2 DEF ExportTypeOK
<1>4. ListWhole' /\ ListInOrder' /\ OrderIsDefault'
  BY <1>1, <1>2 DEF ListWhole, ListInOrder, ExportInductive, OrderIsDefault
<1>5. DefaultOrderExports'
  <2> SUFFICES ASSUME ~reordered, NEW k \in KeySet PROVE txt'[k] = NoText \/ txt'[k].key = k
    BY <1>1 DEF DefaultOrderExports
  <2>1. formatted'[DefaultSort[k]].key = k
    BY <1>1, UpdateFormatDefault DEF ExportInductive, OrderIsDefault
  <2>2. QED
    BY <1>1, <2>1 DEF Text
<1>6. QED
  BY <1>3, <1>4, <1>5 DEF ExportInductive

\* A saved order is listed at once, and nothing is claimed of the text files.
LEMMA SaveDisplayInductive ==
    ASSUME ExportInductive, NEW srt \in [KeySet -> Positions], SaveDisplay(srt)
    PROVE  ExportInductive'
<1>1. /\ ExportTypeOK /\ UpdateFormat(srt) /\ sort' = srt
      /\ reordered' = TRUE /\ unsynced' = FALSE
      /\ UNCHANGED <<raw, txt, poll>>
  BY DEF ExportInductive, SaveDisplay
<1>2. /\ formatted' \in [Positions -> Formatted]
      /\ formatted' \in BoundedSeq(Formatted, Len(Keys))
      /\ {formatted'[i].key : i \in 1 .. Len(formatted')} = KeySet
      /\ \A i, j \in Positions :
            i < j => srt[formatted'[i].key] <= srt[formatted'[j].key]
  BY <1>1, UpdateFormatList
<1>3. ExportTypeOK'
  BY <1>1, <1>2 DEF ExportTypeOK
<1>4. ListWhole' /\ ListInOrder'
  BY <1>1, <1>2 DEF ListWhole, ListInOrder
<1>5. OrderIsDefault' /\ DefaultOrderExports'
  BY <1>1 DEF OrderIsDefault, DefaultOrderExports
<1>6. QED
  BY <1>3, <1>4, <1>5 DEF ExportInductive

LEMMA ClearStatsInductive == ExportInductive /\ ClearStats => ExportInductive'
<1> SUFFICES ASSUME ExportInductive, ClearStats PROVE ExportInductive'
  OBVIOUS
<1>1. ExportTypeOK'
  BY EmptyList DEF ExportInductive, ExportTypeOK, ClearStats
<1>2. QED
  BY <1>1 DEF ClearStats, ExportInductive, ListWhole, ListInOrder, OrderIsDefault,
     DefaultOrderExports

\* The defaults come back without updateFormat, which `unsynced` says.
LEMMA ResetDefaultsInductive == ExportInductive /\ ResetDefaults => ExportInductive'
<1> SUFFICES ASSUME ExportInductive, ResetDefaults PROVE ExportInductive'
  OBVIOUS
<1>1. DefaultSort \in [KeySet -> Positions]
  BY KeyFacts DEF DefaultSort
<1>2. ExportTypeOK'
  BY <1>1 DEF ExportInductive, ExportTypeOK, ResetDefaults
<1>3. QED
  BY <1>2 DEF ResetDefaults, ExportInductive, ListWhole, ListInOrder, OrderIsDefault,
     DefaultOrderExports

LEMMA ExportInductiveAlways == ExportSpec => []ExportInductive
<1>1. ExportInductive /\ [ExportNext]_exportVars => ExportInductive'
  <2> SUFFICES ASSUME ExportInductive, [ExportNext]_exportVars PROVE ExportInductive'
    OBVIOUS
  <2>1. CASE UNCHANGED exportVars
    BY <2>1 DEF exportVars, ExportInductive, ExportTypeOK, ListWhole, ListInOrder, OrderIsDefault,
       DefaultOrderExports
  <2>2. QED
    BY <2>1, SetFieldsInductive, PublishInductive, SaveDisplayInductive, ClearStatsInductive,
       ResetDefaultsInductive
    DEF ExportNext
<1>2. QED
  BY <1>1, ExportInitInductive, PTL DEF ExportSpec

\* Stats, lists and texts keep their types.
THEOREM ExportTypes == ExportSpec => []ExportTypeOK
<1>1. ExportInductive => ExportTypeOK
  BY DEF ExportInductive
<1>2. QED
  BY <1>1, ExportInductiveAlways, PTL

\* The window lists every entry once and in the user's order, however
\* std::sort leaves entries with the same value.
THEOREM ListSafety == ExportSpec => []ListInOrder
<1>1. ExportInductive => ListInOrder
  BY DEF ExportInductive
<1>2. QED
  BY <1>1, ExportInductiveAlways, PTL

\* In the order of the defaults both vectors of writeStats have each entry at
\* the same index, so that a placeholder shows the entry it names.
THEOREM DefaultOrderSafety == ExportSpec => []DefaultOrderExports
<1>1. ExportInductive => DefaultOrderExports
  BY DEF ExportInductive
<1>2. QED
  BY <1>1, ExportInductiveAlways, PTL

-----------------------------------------------------------------------------
(* LevelSearch.  Narrowed is what the loop keeps true, and with an empty   *)
(* range it says that the level is the last one reached; what is left is   *)
(* to bound the fraction that is rounded.                                  *)

\* Nothing is searched for a score below zero.
Unsearched == score < 0 => level = 1

LevelInductive == TypeOK /\ Narrowed /\ Unsearched /\ LevelCorrect

\* The middle of a range that is not empty is in it.
LEMMA MiddleInRange ==
    ASSUME NEW a \in Nat, NEW b \in Nat, a <= b
    PROVE  (a + b) \div 2 \in a..b
OBVIOUS

LEMMA LevelInitInductive == Init => LevelInductive
<1> SUFFICES ASSUME Init PROVE LevelInductive
  OBVIOUS
<1> USE HighAssumption DEF Init
<1>1. TypeOK
  BY DEF TypeOK
<1>2. Narrowed
  BY DEF Narrowed
<1>3. QED
  BY <1>1, <1>2 DEF LevelInductive, Unsearched, LevelCorrect

LEMMA MiddleType ==
    ASSUME TypeOK, Searching
    PROVE  Middle \in low..high /\ Middle \in 1..High
<1>1. low \in Nat /\ high \in Nat /\ low <= high /\ low >= 1 /\ high <= High
  BY HighAssumption DEF TypeOK, Searching
<1>2. Middle \in low..high
  BY <1>1, MiddleInRange DEF Middle
<1>3. QED
  BY <1>1, <1>2, HighAssumption

LEMMA TurnInductive == LevelInductive /\ Search => LevelInductive'
<1> SUFFICES ASSUME LevelInductive, Search PROVE LevelInductive'
  OBVIOUS
<1> DEFINE mid == Middle
<1>1. Middle \in low..high /\ Middle \in 1..High
  BY MiddleType DEF LevelInductive, Search
<1>2. /\ TypeOK /\ Narrowed /\ score' = score /\ shown' = shown
      /\ low \in 1..(High + 1) /\ high \in 0..High /\ level \in 1..High
      /\ score \in Int /\ High \in Nat
      /\ \A n \in 1..High : Needed[n] \in Int
  BY HighAssumption, NeededAssumption, ScoresAssumption
  DEF LevelInductive, Search, TypeOK
<1>3. ASSUME Reached(Middle) PROVE TypeOK' /\ Narrowed' /\ Unsearched'
  <2>1. level' = Middle /\ low' = Middle + 1 /\ high' = high
    BY <1>3 DEF Search, Halve
  <2>2. TypeOK'
    BY <1>1, <1>2, <2>1 DEF TypeOK
  <2>3. \A n \in 1..High : n < low' => Needed[n] <= score
    <3> SUFFICES ASSUME NEW n \in 1..High, n <= Middle
                 PROVE  Needed[n] <= score
      BY <1>1, <1>2, <2>1
    <3>1. Needed[Middle] <= score
      BY <1>3 DEF Reached
    <3>2. n = Middle \/ Needed[n] < Needed[Middle]
      BY <1>1, <1>2, NeededAssumption
    <3>3. QED
      BY <1>1, <1>2, <3>1, <3>2
  <2>4. QED
    BY <1>1, <1>2, <2>1, <2>2, <2>3 DEF Narrowed, LevelInductive, Unsearched, Search, Searching
<1>4. ASSUME ~Reached(Middle) PROVE TypeOK' /\ Narrowed' /\ Unsearched'
  <2>1. high' = Middle - 1 /\ low' = low /\ level' = level
    BY <1>4 DEF Search, Halve
  <2>2. TypeOK'
    BY <1>1, <1>2, <2>1 DEF TypeOK
  <2>3. \A n \in 1..High : n > high' => score < Needed[n]
    <3> SUFFICES ASSUME NEW n \in 1..High, n >= Middle
                 PROVE  score < Needed[n]
      BY <1>1, <1>2, <2>1
    <3>1. score < Needed[Middle]
      BY <1>1, <1>2, <1>4 DEF Reached
    <3>2. n = Middle \/ Needed[Middle] < Needed[n]
      BY <1>1, <1>2, NeededAssumption
    <3>3. QED
      BY <1>1, <1>2, <3>1, <3>2
  <2>4. QED
    BY <1>1, <1>2, <2>1, <2>2, <2>3 DEF Narrowed, LevelInductive, Unsearched, Search, Searching
<1>5. LevelCorrect'
  BY DEF LevelInductive, Search, LevelCorrect, Width
<1>6. TypeOK' /\ Narrowed' /\ Unsearched'
  BY <1>3, <1>4
<1>7. QED
  BY <1>5, <1>6 DEF LevelInductive

\* A quotient times its divisor.
LEMMA DivisionFacts ==
    ASSUME NEW a \in Int, NEW b \in Int, b > 0
    PROVE  /\ a \div b \in Int
           /\ b * (a \div b) <= a
           /\ a < b * (a \div b) + b
OBVIOUS

\* A whole number k that is x out of w in thousandths, rounded, is 0 at least if
\* x is, or is less than half a thousandth below; and 1000 at most if x is below
\* w, and that only for the last half thousandth.
LEMMA RoundedFraction ==
    ASSUME NEW w \in Int, w > 0, NEW x \in Int, NEW k \in Int,
           (2 * w) * k <= 2000 * x + w, 2000 * x + w < (2 * w) * k + 2 * w
    PROVE  /\ 2000 * x + w >= 0 => k >= 0
           /\ x < w => k <= 1000
           /\ k = 1000 => 2000 * (w - x) <= w
<1>1. ASSUME k <= -1 PROVE 2000 * x + w < 0
  <2>1. (2 * w) * k <= (2 * w) * (-1)
    BY <1>1
  <2>2. QED
    BY <2>1
<1>2. ASSUME k >= 1001 PROVE x >= w
  <2>1. (2 * w) * k >= (2 * w) * 1001
    BY <1>2
  <2>2. QED
    BY <2>1
<1>3. ASSUME k = 1000 PROVE 2000 * (w - x) <= w
  BY <1>3
<1>4. QED
  BY <1>1, <1>2, <1>3

\* What is returned: the level found is the last one reached, and the fraction
\* does not leave it but by rounding.
LEMMA ReturnInductive == LevelInductive /\ Return => LevelInductive'
<1> SUFFICES ASSUME LevelInductive, Return PROVE LevelInductive'
  OBVIOUS
<1> DEFINE w == Width(level)
           x == Gone(level)
           k == Thousandths(level)
<1>1. /\ score \in Int /\ level \in 1..High /\ High \in Nat \ {0}
      /\ low \in 1..(High + 1) /\ high \in 0..High
      /\ \A n \in 1..(High + 1) : Needed[n] \in Nat
      /\ UNCHANGED <<score, low, high, level>>
  BY HighAssumption, ScoresAssumption, NeededAssumption DEF LevelInductive, TypeOK, Return
<1>2. w \in Int /\ w > 0 /\ x \in Int /\ w - x = Needed[level + 1] - score
  BY <1>1, NeededAssumption DEF Width, Gone
<1>3. /\ k \in Int
      /\ (2 * w) * k <= 2000 * x + w
      /\ 2000 * x + w < (2 * w) * k + 2 * w
  <2> DEFINE a == 2000 * x + w
             b == 2 * w
  <2>1. k = a \div b
    BY DEF Thousandths
  <2>2. a \in Int /\ b \in Int /\ b > 0
    <3> HIDE DEF w, x
    <3>1. QED
      BY <1>2
  <2>3. k \in Int /\ b * k <= a /\ a < b * k + b
    <3> HIDE DEF a, b, k
    <3>1. QED
      BY <2>1, <2>2, DivisionFacts
  <2>4. QED
    <3> HIDE DEF w, x, k
    <3>1. QED
      BY <2>3
<1>4. /\ 2000 * x + w >= 0 => k >= 0
      /\ x < w => k <= 1000
      /\ k = 1000 => 2000 * (w - x) <= w
  <2> HIDE DEF w, x, k
  <2>1. QED
    BY <1>2, <1>3, RoundedFraction
<1>5. LevelCorrect'
  <2>1. CASE score < 0
    BY <1>1, <2>1 DEF Return, LevelCorrect
  <2>2. CASE score >= 0
    <3>1. shown' = 1000 * level + k
      BY <1>1, <2>2 DEF Return
    <3>2. low > high
      BY <1>1, <2>2 DEF Return, Searching
    <3>3. /\ level > 1 => Needed[level] <= score
          /\ level < High => score < Needed[level + 1]
      BY <1>1, <3>2 DEF LevelInductive, Narrowed
    <3>4. 2000 * x + w >= 0
      <4>1. CASE level = 1
        BY <1>1, <2>2, <4>1, FirstLevelAssumption DEF Width, Gone
      <4>2. CASE level > 1
        BY <1>1, <1>2, <3>3, <4>2 DEF Gone
      <4>3. QED
        BY <1>1, <4>1, <4>2
    <3>5. shown' >= 1000 * level
      BY <1>1, <1>3, <1>4, <3>1, <3>4
    <3>6. ASSUME level < High
          PROVE  /\ shown' <= 1000 * (level + 1)
                 /\ shown' = 1000 * (level + 1) => 2000 * (Needed[level + 1] - score) <= w
      <4>1. x < w
        BY <1>1, <1>2, <3>3, <3>6
      <4>2. k <= 1000 /\ (k = 1000 => 2000 * (Needed[level + 1] - score) <= w)
        BY <1>2, <1>4, <4>1
      <4>3. QED
        BY <1>1, <1>3, <3>1, <4>2
    <3>7. QED
      BY <1>1, <2>2, <3>3, <3>5, <3>6 DEF LevelCorrect, Width
  <2>3. QED
    BY <1>1, <2>1, <2>2
<1>6. TypeOK'
  <2>1. shown' \in Int
    BY <1>1, <1>3 DEF Return
  <2>2. QED
    BY <1>1, <2>1 DEF LevelInductive, TypeOK
<1>7. Narrowed' /\ Unsearched'
  BY <1>1 DEF LevelInductive, Narrowed, Unsearched
<1>8. QED
  BY <1>5, <1>6, <1>7 DEF LevelInductive

LEMMA LevelInductiveAlways == Spec => []LevelInductive
<1>1. LevelInductive /\ [Next]_vars => LevelInductive'
  <2>1. LevelInductive /\ UNCHANGED vars => LevelInductive'
    BY DEF vars, LevelInductive, TypeOK, Narrowed, Unsearched, LevelCorrect, Width
  <2>2. QED
    BY <2>1, TurnInductive, ReturnInductive DEF Next, Returned
<1>2. QED
  BY <1>1, LevelInitInductive, PTL DEF Spec

\* Bounds and level stay within the levels there are.
THEOREM SearchTypes == Spec => []TypeOK
<1>1. LevelInductive => TypeOK
  BY DEF LevelInductive
<1>2. QED
  BY <1>1, LevelInductiveAlways, PTL

\* The loop's invariant: what is outside of the range is decided rightly.
THEOREM SearchNarrows == Spec => []Narrowed
<1>1. LevelInductive => Narrowed
  BY DEF LevelInductive
<1>2. QED
  BY <1>1, LevelInductiveAlways, PTL

\* What is shown of a score is the last level it has reached and a fraction, or
\* the next level's .000 within half a thousandth of it, and no other.
THEOREM LevelSafety == Spec => []LevelCorrect
<1>1. LevelInductive => LevelCorrect
  BY DEF LevelInductive
<1>2. QED
  BY <1>1, LevelInductiveAlways, PTL

\* Every turn leaves a smaller range and none is less than empty: the search
\* ends after as many turns as there are levels, at the latest.
THEOREM SearchShrinks ==
    ASSUME LevelInductive, Search
    PROVE  high' - low' < high - low /\ high - low >= 0
<1>1. Middle \in low..high /\ low \in Int /\ high \in Int /\ low <= high
  BY MiddleType DEF LevelInductive, Search, TypeOK, Searching
<1>2. QED
  BY <1>1 DEF Search, Halve
=============================================================================
