---------------------------- MODULE UpdateProofs ----------------------------
(***************************************************************************)
(* Proofs about Update: the comparison of versions is right when their     *)
(* second and third components have as many digits, and, for any archive,  *)
(* as long as updaters do not overlap, the program is started over a whole *)
(* release only and its own file never becomes new before the files that   *)
(* precede it.                                                             *)
(***************************************************************************)
EXTENDS Update, TLAPS

\* What the steps say of one another: a lone updater has written the entries
\* before the one it is at; the program's file is new only for an updater that
\* is past it; a program that is about to start an updater is an old one, and
\* finds none at work.
Alone == \A u, w \in Updaters : Active(u) /\ Active(w) => u = w

WrittenBefore ==
    \A u \in Updaters : at[u] \in {"open", "fill"} =>
        \A i \in 1..Len(Archive) : i < index[u] => disk[Archive[i]] = "new"

PastProgram ==
    \A u \in Updaters : Active(u) /\ disk[Program] = "new" =>
        \A j \in 1..Len(Archive) : Archive[j] = Program => j < index[u]

Ready ==
    program \in {"write", "launch"} =>
        disk[Program] # "new" /\ \A u \in Updaters : ~Active(u)

NewBefore ==
    disk[Program] = "new" =>
        \A i, j \in 1..Len(Archive) :
            i < j /\ Archive[j] = Program => disk[Archive[i]] = "new"

FillInside ==
    \A u \in Updaters :
        /\ at[u] = "init" => index[u] = 1
        /\ at[u] = "fill" => index[u] <= Len(Archive)

Ordered ==
    ~overlapped => Alone /\ WrittenBefore /\ PastProgram /\ Ready /\ NewBefore

Inv == TypeOK /\ FillInside /\ Ordered

-----------------------------------------------------------------------------
LEMMA ArchiveFacts ==
    /\ Len(Archive) \in Nat
    /\ Program \in Files
    /\ \A i \in 1..Len(Archive) : Archive[i] \in Files
    /\ \A i, j \in 1..Len(Archive) : Archive[i] = Archive[j] => i = j
  BY ArchiveAssumption DEF Files

\* No release is newer than itself.
LEMMA NotNewer == ASSUME NEW v \in Triples PROVE ~Newer(v, v)
  BY DEF Newer, Signed, Tens, Triples

LEMMA VersionType ==
    ASSUME TypeOK PROVE release \in Triples /\ Version \in Triples
  BY ReleasesAssumption DEF TypeOK, Version

\* A component is below the power of ten the ones before it are shifted by, so
\* that those decide first.
LEMMA TensBound ==
    ASSUME NEW n \in Nat, n < 1000
    PROVE  Tens(n) \in {10, 100, 1000} /\ n < Tens(n)
  BY DEF Tens

\* Versions whose second and third components have as many digits are read as
\* numbers in the order of the releases, whatever the first component is.
THEOREM SameWidthOrder ==
    ASSUME NEW v \in Triples, NEW w \in Triples, SameWidth(v, w)
    PROVE  Newer(v, w) <=> Later(v, w)
<1>1. /\ v[1] \in Nat /\ v[2] \in Nat /\ v[3] \in Nat
      /\ w[1] \in Nat /\ w[2] \in Nat /\ w[3] \in Nat
  BY DEF Triples
<1>2. v[2] < 1000 /\ v[3] < 1000 /\ w[2] < 1000 /\ w[3] < 1000
  BY DEF Triples
<1>3. PICK t \in {10, 100, 1000} : t = Tens(v[2]) /\ t = Tens(w[2]) /\ v[2] < t /\ w[2] < t
  <2>1. Tens(v[2]) \in {10, 100, 1000} /\ v[2] < Tens(v[2])
    BY <1>1, <1>2, TensBound
  <2>2. w[2] < Tens(w[2])
    BY <1>1, <1>2, TensBound
  <2> QED
    BY <2>1, <2>2 DEF SameWidth
<1>4. PICK u \in {10, 100, 1000} : u = Tens(v[3]) /\ u = Tens(w[3]) /\ v[3] < u /\ w[3] < u
  <2>1. Tens(v[3]) \in {10, 100, 1000} /\ v[3] < Tens(v[3])
    BY <1>1, <1>2, TensBound
  <2>2. w[3] < Tens(w[3])
    BY <1>1, <1>2, TensBound
  <2> QED
    BY <2>1, <2>2 DEF SameWidth
<1> DEFINE m == v[1] * t + v[2]
           n == w[1] * t + w[2]
<1>5. Signed(v) = m * u + v[3] /\ Signed(w) = n * u + w[3]
  BY <1>3, <1>4 DEF Signed
<1>6. /\ m \in Nat /\ n \in Nat
      /\ m > n <=> v[1] > w[1] \/ (v[1] = w[1] /\ v[2] > w[2])
      /\ m = n <=> v[1] = w[1] /\ v[2] = w[2]
  <2>1. CASE t = 10
    BY <1>1, <1>3, <2>1
  <2>2. CASE t = 100
    BY <1>1, <1>3, <2>2
  <2>3. CASE t = 1000
    BY <1>1, <1>3, <2>3
  <2> QED
    BY <2>1, <2>2, <2>3
<1> HIDE DEF m, n
<1>7. m * u + v[3] > n * u + w[3] <=> m > n \/ (m = n /\ v[3] > w[3])
  <2>1. CASE u = 10
    BY <1>1, <1>4, <1>6, <2>1
  <2>2. CASE u = 100
    BY <1>1, <1>4, <1>6, <2>2
  <2>3. CASE u = 1000
    BY <1>1, <1>4, <1>6, <2>3
  <2> QED
    BY <2>1, <2>2, <2>3
<1> QED
  BY <1>5, <1>6, <1>7 DEF Newer, Later

-----------------------------------------------------------------------------
LEMMA InitInv == Init => Inv
<1> SUFFICES ASSUME Init PROVE Inv
  OBVIOUS
<1>1. TypeOK
  <2>1. 1 \in 1..(Len(Archive) + 1)
    BY ArchiveFacts
  <2>2. index \in [Updaters -> 1..(Len(Archive) + 1)]
    BY <2>1, Zenon DEF Init
  <2> QED
    BY <2>2, Zenon DEF Init, TypeOK
<1>2. FillInside /\ Alone /\ WrittenBefore /\ PastProgram /\ Ready
  BY DEF Init, FillInside, Alone, WrittenBefore, PastProgram, Ready, Active
<1>3. NewBefore
  BY ArchiveFacts DEF Init, NewBefore
<1> QED
  BY <1>1, <1>2, <1>3 DEF Inv, Ordered

\* A step of the program that leaves the updaters and the files alone.
ProgramOnly ==
    \/ Boot \/ UpdateMessage \/ Check \/ Write \/ Exit

LEMMA ProgramStep ==
    ASSUME Inv, ProgramOnly, UNCHANGED release
    PROVE  Inv'
<1> USE DEF ProgramOnly, updaterVars
<1>1. UNCHANGED updaterVars
  BY DEF Boot, UpdateMessage, Check, Write, Exit
<1>2. TypeOK'
  BY <1>1 DEF Inv, TypeOK, Boot, UpdateMessage, Check, Write, Exit
<1>3. FillInside'
  BY <1>1 DEF Inv, FillInside
<1>4. ASSUME ~overlapped' PROVE Ordered'
  <2>1. ~overlapped
    BY <1>4, Zenon DEF Boot, UpdateMessage, Check, Write, Exit
  <2>2. Alone' /\ WrittenBefore' /\ PastProgram' /\ NewBefore'
    BY <1>1, <2>1 DEF Inv, Ordered, Alone, WrittenBefore, PastProgram,
       NewBefore, Active
  <2>3. Ready'
    <3> SUFFICES ASSUME program' \in {"write", "launch"} PROVE Ready'
      BY DEF Ready
    <3>1. CASE Check
      <4>1. Newer(release, Version) /\ \A u \in Updaters : ~Active(u)
        BY <1>4, <3>1 DEF Check
      <4>2. disk[Program] # "new"
        BY <4>1, VersionType, NotNewer DEF Version, Inv
      <4> QED
        BY <1>1, <4>1, <4>2 DEF Ready, Active
    <3>2. CASE Write
      BY <1>1, <2>1, <3>2 DEF Write, Inv, Ordered, Ready, Active
    <3> QED
      BY <3>1, <3>2 DEF Boot, UpdateMessage, Exit
  <2> QED
    BY <2>2, <2>3 DEF Ordered
<1> QED
  BY <1>2, <1>3, <1>4 DEF Inv, Ordered

LEMMA LaunchStep ==
    ASSUME Inv, NEW u \in Updaters, Launch(u), UNCHANGED release
    PROVE  Inv'
<1> USE DEF Launch
<1>1. TypeOK'
  BY ArchiveFacts DEF Inv, TypeOK
<1>2. FillInside'
  BY DEF Inv, TypeOK, FillInside
<1>3. ASSUME ~overlapped' PROVE Ordered'
  <2>1. ~overlapped /\ disk[Program] # "new" /\ \A w \in Updaters : ~Active(w)
    BY <1>3 DEF Inv, Ordered, Ready
  <2>2. \A w \in Updaters : w # u => at'[w] = "off"
    BY <2>1 DEF Inv, TypeOK, Active
  <2>3. at'[u] = "init"
    BY DEF Inv, TypeOK
  <2>4. Alone' /\ WrittenBefore' /\ PastProgram' /\ Ready' /\ NewBefore'
    BY <2>1, <2>2, <2>3 DEF Alone, WrittenBefore, PastProgram, Ready, NewBefore,
       Active
  <2> QED
    BY <2>4 DEF Ordered
<1> QED
  BY <1>1, <1>2, <1>3 DEF Inv, Ordered

\* A step of an updater that writes no file and moves to no other entry: it
\* opens the archive, gives up, or is done.
LEMMA QuietStep ==
    ASSUME Inv, NEW u \in Updaters, OpenZip(u) \/ GiveUp(u) \/ Finish(u),
           Finish(u) \/ UNCHANGED program,
           UNCHANGED <<release, zip, overlapped>>
    PROVE  Inv'
<1>1. PICK place \in {"off", "open"} : at' = [at EXCEPT ![u] = place]
  BY DEF OpenZip, GiveUp, Finish, Goto
<1>2. UNCHANGED <<index, disk>> /\ Active(u)
  BY DEF OpenZip, GiveUp, Finish, Extracted, Active
<1>3. place = "open" => at[u] = "init"
  BY <1>1 DEF OpenZip, GiveUp, Finish, Goto, Inv, TypeOK
<1>4. program' = program \/ program' = "check"
  BY DEF Finish
<1>5. TypeOK'
  BY <1>1, <1>2, <1>4 DEF Inv, TypeOK
<1>6. /\ at'[u] = place
      /\ \A w \in Updaters : w # u => at'[w] = at[w]
  BY <1>1 DEF Inv, TypeOK
<1>7. FillInside'
  BY <1>2, <1>6 DEF Inv, FillInside
<1>8. ASSUME ~overlapped' PROVE Ordered'
  <2>1. Alone' /\ PastProgram' /\ Ready' /\ NewBefore'
    BY <1>2, <1>4, <1>6, <1>8 DEF Inv, Ordered, Alone, PastProgram, Ready,
       NewBefore, Active
  <2>2. WrittenBefore'
    <3> SUFFICES ASSUME NEW w \in Updaters, at'[w] \in {"open", "fill"},
                        NEW i \in 1..Len(Archive), i < index[w]
                 PROVE  disk[Archive[i]] = "new"
      BY <1>2 DEF WrittenBefore
    <3>1. CASE w = u
      <4>1. index[u] = 1
        BY <1>3, <1>6, <3>1 DEF Inv, FillInside
      <4> QED
        BY <3>1, <4>1, ArchiveFacts
    <3>2. CASE w # u
      BY <1>6, <1>8, <3>2 DEF Inv, Ordered, WrittenBefore
    <3> QED
      BY <3>1, <3>2
  <2> QED
    BY <2>1, <2>2 DEF Ordered
<1> QED
  BY <1>5, <1>7, <1>8 DEF Inv, Ordered

LEMMA OpenStep ==
    ASSUME Inv, NEW u \in Updaters, OpenFile(u),
           UNCHANGED <<program, release, zip, overlapped>>
    PROVE  Inv'
<1> DEFINE k == index[u]
<1>1. k \in 1..Len(Archive) /\ Archive[k] \in Files
  BY ArchiveFacts DEF OpenFile, Inv, TypeOK
<1>2. /\ at[u] = "open" /\ Active(u)
      /\ at' = [at EXCEPT ![u] = "fill"]
      /\ disk' = [disk EXCEPT ![Archive[k]] = "cut"]
      /\ index' = index
  BY DEF OpenFile, Goto, Active
<1>3. TypeOK'
  BY <1>1, <1>2 DEF Inv, TypeOK
<1>4. /\ at'[u] = "fill"
      /\ \A w \in Updaters : w # u => at'[w] = at[w]
      /\ \A w \in Updaters : Active(w)' <=> Active(w)
  BY <1>2 DEF Inv, TypeOK, Active
<1>5. /\ disk'[Archive[k]] = "cut"
      /\ \A f \in Files : f # Archive[k] => disk'[f] = disk[f]
  BY <1>1, <1>2 DEF Inv, TypeOK
<1>6. FillInside'
  BY <1>1, <1>2, <1>4 DEF Inv, FillInside
<1>7. ASSUME ~overlapped' PROVE Ordered'
  <2>0. Alone /\ WrittenBefore /\ PastProgram /\ Ready /\ NewBefore
    BY <1>7 DEF Inv, Ordered
  <2>1. \A w \in Updaters : Active(w) => w = u
    BY <1>2, <2>0 DEF Alone
  <2>2. Alone'
    BY <1>4, <2>1 DEF Alone
  <2>3. WrittenBefore'
    <3> SUFFICES ASSUME NEW w \in Updaters, at'[w] \in {"open", "fill"},
                        NEW i \in 1..Len(Archive), i < index[w]
                 PROVE  disk'[Archive[i]] = "new"
      BY <1>2 DEF WrittenBefore
    <3>1. w = u
      BY <1>4, <2>1 DEF Active
    <3>2. i # k /\ Archive[i] \in Files /\ Archive[i] # Archive[k]
      BY <1>1, <3>1, ArchiveFacts DEF Inv, TypeOK
    <3> QED
      BY <1>2, <1>5, <2>0, <3>1, <3>2 DEF WrittenBefore
  <2>4. disk'[Program] = "new" => disk[Program] = "new"
    BY <1>5, ArchiveFacts
  <2>5. PastProgram'
    BY <1>2, <1>4, <2>0, <2>4 DEF PastProgram
  <2>6. Ready'
    BY <1>2, <2>0 DEF Ready
  <2>7. NewBefore'
    <3> SUFFICES ASSUME disk'[Program] = "new",
                        NEW i \in 1..Len(Archive), NEW j \in 1..Len(Archive),
                        i < j, Archive[j] = Program
                 PROVE  disk'[Archive[i]] = "new"
      BY DEF NewBefore
    <3>1. j < k
      BY <1>2, <2>0, <2>4 DEF PastProgram
    <3>2. i # k /\ Archive[i] \in Files /\ Archive[i] # Archive[k]
      BY <1>1, <3>1, ArchiveFacts
    <3> QED
      BY <1>5, <2>0, <2>4, <3>2 DEF NewBefore
  <2> QED
    BY <2>2, <2>3, <2>5, <2>6, <2>7 DEF Ordered
<1> QED
  BY <1>3, <1>6, <1>7 DEF Inv, Ordered

LEMMA FillStep ==
    ASSUME Inv, NEW u \in Updaters, FillFile(u),
           UNCHANGED <<program, release, zip, overlapped>>
    PROVE  Inv'
<1> DEFINE k == index[u]
<1>1. k \in 1..Len(Archive) /\ Archive[k] \in Files
  BY ArchiveFacts DEF FillFile, Inv, TypeOK, FillInside
<1>2. /\ at[u] = "fill" /\ Active(u)
      /\ at' = [at EXCEPT ![u] = "open"]
      /\ disk' = [disk EXCEPT ![Archive[k]] = "new"]
      /\ index' = [index EXCEPT ![u] = k + 1]
  BY DEF FillFile, Goto, Active
<1>3. TypeOK'
  <2>1. k + 1 \in 1..(Len(Archive) + 1)
    BY <1>1, ArchiveFacts
  <2> QED
    BY <1>1, <1>2, <2>1 DEF Inv, TypeOK
<1>4. /\ at'[u] = "open" /\ index'[u] = k + 1
      /\ \A w \in Updaters : w # u => at'[w] = at[w] /\ index'[w] = index[w]
      /\ \A w \in Updaters : Active(w)' <=> Active(w)
  BY <1>2 DEF Inv, TypeOK, Active
<1>5. /\ disk'[Archive[k]] = "new"
      /\ \A f \in Files : f # Archive[k] => disk'[f] = disk[f]
  BY <1>1, <1>2 DEF Inv, TypeOK
<1>6. FillInside'
  BY <1>4 DEF Inv, FillInside
<1>7. ASSUME ~overlapped' PROVE Ordered'
  <2>0. Alone /\ WrittenBefore /\ PastProgram /\ Ready /\ NewBefore
    BY <1>7 DEF Inv, Ordered
  <2>1. \A w \in Updaters : Active(w) => w = u
    BY <1>2, <2>0 DEF Alone
  <2>2. Alone'
    BY <1>4, <2>1 DEF Alone
  <2>3. \A i \in 1..Len(Archive) : i < k + 1 => disk'[Archive[i]] = "new"
    <3> SUFFICES ASSUME NEW i \in 1..Len(Archive), i < k + 1
                 PROVE  disk'[Archive[i]] = "new"
      OBVIOUS
    <3>1. CASE i = k
      BY <1>5, <3>1
    <3>2. CASE i < k
      <4>1. disk[Archive[i]] = "new"
        BY <1>2, <2>0, <3>2 DEF WrittenBefore
      <4> QED
        BY <1>5, <4>1, ArchiveFacts
    <3> QED
      BY <1>1, <3>1, <3>2
  <2>4. WrittenBefore'
    BY <1>4, <2>1, <2>3 DEF WrittenBefore, Active
  <2>5. \A j \in 1..Len(Archive) :
            Archive[j] = Program /\ disk'[Program] = "new" => j < k + 1
    <3> SUFFICES ASSUME NEW j \in 1..Len(Archive), Archive[j] = Program,
                        disk'[Program] = "new"
                 PROVE  j < k + 1
      OBVIOUS
    <3>1. CASE j = k
      BY <1>1, <3>1
    <3>2. CASE j # k
      <4>1. disk[Program] = "new"
        BY <1>1, <1>5, <3>2, ArchiveFacts
      <4>2. j < k
        BY <1>2, <2>0, <4>1 DEF PastProgram
      <4> QED
        BY <1>1, <4>2
    <3> QED
      BY <3>1, <3>2
  <2>6. PastProgram'
    BY <1>4, <2>1, <2>5 DEF PastProgram
  <2>7. Ready'
    BY <1>2, <2>0 DEF Ready
  <2>8. NewBefore'
    <3> SUFFICES ASSUME disk'[Program] = "new",
                        NEW i \in 1..Len(Archive), NEW j \in 1..Len(Archive),
                        i < j, Archive[j] = Program
                 PROVE  disk'[Archive[i]] = "new"
      BY DEF NewBefore
    <3>1. i < k + 1
      BY <1>1, <2>5
    <3> QED
      BY <2>3, <3>1
  <2> QED
    BY <2>2, <2>4, <2>6, <2>7, <2>8 DEF Ordered
<1> QED
  BY <1>3, <1>6, <1>7 DEF Inv, Ordered

-----------------------------------------------------------------------------
LEMMA StepInv == Inv /\ [Next]_vars => Inv'
<1> SUFFICES ASSUME Inv, [Next]_vars PROVE Inv'
  OBVIOUS
<1>1. CASE UNCHANGED vars
  BY <1>1 DEF vars, updaterVars, Inv, TypeOK, FillInside, Ordered, Alone,
     WrittenBefore, PastProgram, Ready, NewBefore, Active
<1>2. CASE ProgramOnly /\ UNCHANGED release
  BY <1>2, ProgramStep
<1>3. CASE UNCHANGED release /\ \E u \in Updaters : Launch(u) \/ Updater(u)
  <2>1. PICK u \in Updaters : Launch(u) \/ Updater(u)
    BY <1>3
  <2>2. CASE Launch(u)
    BY <1>3, <2>2, LaunchStep
  <2>3. CASE Updater(u)
    <3>1. CASE OpenZip(u) \/ GiveUp(u) \/ Finish(u)
      BY <1>3, <2>3, <3>1, QuietStep DEF Updater
    <3>2. CASE OpenFile(u)
      <4>1. ~Finish(u)
        BY <3>2, ArchiveFacts DEF Finish, Extracted, OpenFile, Inv, TypeOK
      <4> QED
        BY <1>3, <2>3, <3>2, <4>1, OpenStep DEF Updater
    <3>3. CASE FillFile(u)
      <4>1. ~Finish(u)
        BY <3>3 DEF Finish, Extracted, FillFile
      <4> QED
        BY <1>3, <2>3, <3>3, <4>1, FillStep DEF Updater
    <3> QED
      BY <2>3, <3>1, <3>2, <3>3 DEF Updater
  <2> QED
    BY <2>1, <2>2, <2>3
<1> QED
  BY <1>1, <1>2, <1>3 DEF Next, ProgramOnly

LEMMA AlwaysInv == Spec => []Inv
  BY InitInv, StepInv, PTL DEF Spec

\* The types of the model, for any archive and any number of updaters.
THEOREM UpdateTypes == Spec => []TypeOK
<1>1. Inv => TypeOK
  BY DEF Inv
<1> QED
  BY <1>1, AlwaysInv, PTL

\* Whatever release is there, and whatever was replaced, the comparison of two
\* versions whose later components have as many digits is right.
THEOREM ComparisonSafety == Spec => []CheckRight
<1>1. Inv => CheckRight
  BY VersionType, SameWidthOrder DEF Inv, CheckRight
<1> QED
  BY <1>1, AlwaysInv, PTL

\* A lone updater starts the program only when every file of the archive is
\* the new release's.
THEOREM StartSafety == Spec => []StartedWhole
<1>1. Inv => StartedWhole
  <2> SUFFICES ASSUME Inv, ~overlapped, NEW u \in Updaters, Extracted(u),
                      NEW f \in Files
               PROVE  disk[f] = "new"
    BY DEF StartedWhole
  <2>1. PICK i \in 1..Len(Archive) : f = Archive[i]
    BY DEF Files
  <2>2. i < index[u]
    BY ArchiveFacts DEF Extracted, Inv, TypeOK
  <2> QED
    BY <2>1, <2>2 DEF Inv, Ordered, WrittenBefore, Extracted
<1> QED
  BY <1>1, AlwaysInv, PTL

\* The program's file is the new release's only when the files before it in
\* the archive are.
THEOREM OrderSafety == Spec => []NewProgramNewBefore
<1>1. Inv => NewProgramNewBefore
  BY DEF Inv, Ordered, NewBefore, NewProgramNewBefore
<1> QED
  BY <1>1, AlwaysInv, PTL
=============================================================================
