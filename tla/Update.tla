------------------------------- MODULE Update -------------------------------
(***************************************************************************)
(* How osu-tracker replaces itself.  The program compares the tag of the   *)
(* latest release with its own version, downloads update.zip and starts    *)
(* the updater, a program of its own: at boot it then exits at once, on    *)
(* the #update message it is shut down, with the updater already at work.  *)
(* The updater overwrites one file after the other, and starts the program *)
(* when all of them were written.                                          *)
(*                                                                         *)
(* A file is the old release's, the new one's, or cut: opened, so empty,   *)
(* and not written.  The program's file cannot be opened while it runs.    *)
(* One instance of the program is followed; Updaters bounds the others.    *)
(***************************************************************************)
EXTENDS Integers, Sequences

CONSTANTS
    Archive,     \* the files of update.zip, in its order
    Program,     \* the one that is the program
    Updaters,    \* slots for processes of the updater
    Installed,   \* OSU_TRACKER_VERSION, as <<major, minor, patch>>
    Releases     \* tags the latest release may have

\* A version: two components after the first, of three digits at most.
Triples == {v \in Nat \X Nat \X Nat : v[2] < 1000 /\ v[3] < 1000}

ASSUME ArchiveAssumption ==
    /\ Archive \in Seq({Archive[i] : i \in 1..Len(Archive)})
    /\ \A i, j \in 1..Len(Archive) : Archive[i] = Archive[j] => i = j
    /\ \E i \in 1..Len(Archive) : Archive[i] = Program

ASSUME ReleasesAssumption == Releases \subseteq Triples /\ Installed \in Triples

Files == {Archive[i] : i \in 1..Len(Archive)}

VARIABLES
    program,     \* where the program is; "off": it does not run
    release,     \* the latest release
    zip,         \* update.zip
    at,          \* at[u]: where updater u is
    index,       \* index[u]: the entry of the archive it is at
    disk,        \* the state of each file
    overlapped   \* history: two updaters ran, or the archive changed under one

updaterVars == <<at, index, disk>>
vars == <<program, release, zip, updaterVars, overlapped>>

TypeOK ==
    /\ program \in {"off", "check", "write", "launch", "run", "leave"}
    /\ release \in Releases
    /\ zip \in {"none", "cut", "whole"}
    /\ at \in [Updaters -> {"off", "init", "open", "fill"}]
    /\ index \in [Updaters -> 1..(Len(Archive) + 1)]
    /\ disk \in [Files -> {"old", "new", "cut"}]
    /\ overlapped \in BOOLEAN

Init ==
    /\ program = "off"
    /\ release \in Releases
    /\ zip = "none"
    /\ at = [u \in Updaters |-> "off"]
    /\ index = [u \in Updaters |-> 1]
    /\ disk = [f \in Files |-> "old"]
    /\ overlapped = FALSE

Active(u) == at[u] # "off"

-----------------------------------------------------------------------------
(* Versions.                                                               *)

Tens(n) == IF n < 10 THEN 10 ELSE IF n < 100 THEN 100 ELSE 1000

\* Mutant: only the first dot is removed, and the number ends at the second.
MutSigned(v) == v[1] * Tens(v[2]) + v[2]

\* The tag without its v and dots, read as one number.
Signed(v) == (v[1] * Tens(v[2]) + v[2]) * Tens(v[3]) + v[3]

Newer(v, w) == Signed(v) > Signed(w)

\* What a later release is.
Later(v, w) ==
    \/ v[1] > w[1]
    \/ v[1] = w[1] /\ v[2] > w[2]
    \/ v[1] = w[1] /\ v[2] = w[2] /\ v[3] > w[3]

-----------------------------------------------------------------------------
(* The program.                                                            *)

Version == IF disk[Program] = "new" THEN release ELSE Installed

\* The user starts the program: performUpdateCheck is the first thing it does.
Boot ==
    /\ program = "off"
    /\ disk[Program] # "cut"
    /\ program' = "check"
    /\ UNCHANGED <<zip, updaterVars, overlapped>>

\* #update: performUpdateCheck in the web worker.
UpdateMessage ==
    /\ program = "run"
    /\ program' = "check"
    /\ UNCHANGED <<zip, updaterVars, overlapped>>

\* The check or the download fails, or there is nothing newer: the program
\* runs on.  Else update.zip is opened, so emptied.
Check ==
    /\ program = "check"
    /\ \/ program' = "run" /\ UNCHANGED <<zip, overlapped>>
       \/ /\ Newer(release, Version)
          /\ program' = "write"
          /\ zip' = "cut"
          /\ overlapped' = (overlapped \/ \E u \in Updaters : Active(u))
    /\ UNCHANGED updaterVars

\* out.write: nobody looks whether it got through.
Write ==
    /\ program = "write"
    /\ program' = "launch"
    /\ zip' \in {"cut", "whole"}
    /\ UNCHANGED <<updaterVars, overlapped>>

\* system("./update &"); then main returns, or shutdown(false) is called.
Launch(u) ==
    /\ program = "launch"
    /\ ~Active(u)
    /\ program' = "leave"
    /\ at' = [at EXCEPT ![u] = "init"]
    /\ index' = [index EXCEPT ![u] = 1]
    /\ overlapped' = (overlapped \/ \E w \in Updaters : Active(w))
    /\ UNCHANGED <<zip, disk>>

\* The process ends: at a return, a shutdown, or when it is killed.
Exit ==
    /\ program # "off"
    /\ program' = "off"
    /\ UNCHANGED <<zip, updaterVars, overlapped>>

-----------------------------------------------------------------------------
(* An updater.                                                             *)

Goto(u, place) == at' = [at EXCEPT ![u] = place]

\* mz_zip_reader_init_file: an archive that is cut is refused.
OpenZip(u) ==
    /\ at[u] = "init"
    /\ Goto(u, IF zip = "whole" THEN "open" ELSE "off")
    /\ UNCHANGED <<index, disk>>

\* The file is opened for writing, which empties it; the program's while no
\* instance of it runs.
OpenFile(u) ==
    /\ at[u] = "open"
    /\ index[u] <= Len(Archive)
    /\ Archive[index[u]] = Program => program = "off"
    /\ Goto(u, "fill")
    /\ disk' = [disk EXCEPT ![Archive[index[u]]] = "cut"]
    /\ UNCHANGED index

\* Mutant: an entry is counted as extracted before it is written.
MutFillFile(u) ==
    /\ at[u] = "fill"
    /\ zip = "whole"
    /\ Goto(u, "open")
    /\ index' = [index EXCEPT ![u] = @ + 1]
    /\ \/ disk' = [disk EXCEPT ![Archive[index[u]]] = "new"]
       \/ UNCHANGED disk

FillFile(u) ==
    /\ at[u] = "fill"
    /\ zip = "whole"
    /\ Goto(u, "open")
    /\ disk' = [disk EXCEPT ![Archive[index[u]]] = "new"]
    /\ index' = [index EXCEPT ![u] = @ + 1]

\* A file cannot be opened or written, or the updater is killed.
GiveUp(u) ==
    /\ Active(u)
    /\ Goto(u, "off")
    /\ UNCHANGED <<index, disk>>

Extracted(u) == at[u] = "open" /\ index[u] > Len(Archive)

\* All entries are extracted: the program is started.
Finish(u) ==
    /\ Extracted(u)
    /\ Goto(u, "off")
    /\ program' = IF program = "off" /\ disk[Program] # "cut" THEN "check"
                  ELSE program
    /\ UNCHANGED <<index, disk>>

Updater(u) ==
    /\ \/ (OpenZip(u) \/ OpenFile(u) \/ FillFile(u) \/ GiveUp(u)) /\ UNCHANGED program
       \/ Finish(u)
    /\ UNCHANGED <<zip, overlapped>>

-----------------------------------------------------------------------------
Next ==
    /\ \/ Boot \/ UpdateMessage \/ Check \/ Write \/ Exit
       \/ \E u \in Updaters : Launch(u) \/ Updater(u)
    /\ UNCHANGED release

Spec == Init /\ [][Next]_vars

-----------------------------------------------------------------------------
(* Properties.                                                             *)

\* An updater starts the program only over a whole new release, whatever
\* fails, is killed or runs meanwhile; two updaters, or a download under one,
\* are what can go wrong.
StartedWhole ==
    ~overlapped =>
        \A u \in Updaters : Extracted(u) => \A f \in Files : disk[f] = "new"

\* The program's own file is new only over new files before it: a mixture that
\* has the new program, and so is never updated again, lacks files that come
\* after it in the archive.
NewProgramNewBefore ==
    ~overlapped /\ disk[Program] = "new" =>
        \A i, j \in 1..Len(Archive) :
            i < j /\ Archive[j] = Program => disk[Archive[i]] = "new"

\* The comparison tells a later release from any other one, as long as the
\* second and third components of both versions have as many digits.
SameWidth(v, w) == Tens(v[2]) = Tens(w[2]) /\ Tens(v[3]) = Tens(w[3])

CheckRight ==
    program = "check" /\ SameWidth(release, Version)
        => (Newer(release, Version) <=> Later(release, Version))
=============================================================================
