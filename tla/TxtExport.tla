------------------------------ MODULE TxtExport ------------------------------
(***************************************************************************)
(* From arr to what the user sees: Formatter::updateFormat sorts a         *)
(* formatted copy of arr by the order the user chose, the window lists     *)
(* that copy, and Config::writeStats fills the templates of Txt/template   *)
(* from both vectors by the same index.                                    *)
(*                                                                         *)
(* All of it happens under the unique lock of dataMutex, so each step here *)
(* is a whole critical section (DataLock).  A text is abstracted to the    *)
(* entry and the poll it shows.                                            *)
(***************************************************************************)
EXTENDS Naturals, Sequences, SequencesExt

CONSTANTS
    Keys,       \* arr, as the sequence of its keys: the compiled-in order
    MaxPoll,    \* bound on the polls that are told apart
    NoText      \* the empty string

ASSUME MaxPollAssumption == MaxPoll \in Nat

Positions == 1 .. Len(Keys)
KeySet    == {Keys[i] : i \in Positions}

ASSUME KeysAssumption ==
    Keys \in Seq(KeySet) /\ Len(Keys) > 0 /\ IsInjective(Keys)

Texts == [key : KeySet, poll : 0 .. MaxPoll] \cup {NoText}

VARIABLES
    sort,       \* arr[..].sort by key
    raw,        \* raw[k]: the poll the value of k in arr is from, or NoText
    formatted,  \* arrFormatted: a sequence of [key, poll]
    txt,        \* txt[k]: what {{k_current}} became in the text files
    poll,       \* the polls so far
    reordered,  \* history: the user changed an order since the defaults
    unsynced    \* history: arr was reordered without updateFormat

exportVars == <<sort, raw, formatted, txt, poll, reordered, unsynced>>

Formatted == [key : KeySet, poll : (0 .. MaxPoll) \cup {NoText}]

ExportTypeOK ==
    /\ sort \in [KeySet -> Positions]
    /\ raw \in [KeySet -> (0 .. MaxPoll) \cup {NoText}]
    /\ formatted \in BoundedSeq(Formatted, Len(Keys))
    /\ txt \in [KeySet -> Texts]
    /\ poll \in 0 .. MaxPoll
    /\ reordered \in BOOLEAN
    /\ unsynced \in BOOLEAN

\* The compiled-in sort values count the entries of arr.
DefaultSort == [k \in KeySet |-> CHOOSE i \in Positions : Keys[i] = k]

ExportInit ==
    /\ sort = DefaultSort
    /\ raw = [k \in KeySet |-> NoText]
    /\ formatted = <<>>
    /\ txt = [k \in KeySet |-> NoText]
    /\ poll = 0
    /\ reordered = FALSE
    /\ unsynced = FALSE

-----------------------------------------------------------------------------
\* The orders in which std::sort may leave the entries: entries with equal
\* sort values may come in any order.
SortedOrders(srt) ==
    {o \in SetToSeqs(KeySet) :
        \A i, j \in Positions : i < j => srt[o[i]] <= srt[o[j]]}

\* Mutant: the copy of arr is not sorted.
MutUpdateFormat(srt) ==
    formatted' = [i \in Positions |-> [key |-> Keys[i], poll |-> raw[Keys[i]]]]

\* updateFormat with the order srt: the formatted copy of arr.
UpdateFormat(srt) ==
    \E o \in SortedOrders(srt) :
        formatted' = [i \in Positions |-> [key |-> o[i], poll |-> raw[o[i]]]]

\* What writeStats writes for an entry of the formatted vector.
Text(f) == IF f.poll = NoText THEN NoText ELSE f

\* Mutant: an index that is off by one.
MutWriteStats(fmt) ==
    txt' = [k \in KeySet |-> Text(fmt[IF DefaultSort[k] = Len(Keys) THEN 1
                                      ELSE DefaultSort[k] + 1])]

\* writeStats: index i of arr goes with index i of arrFormatted.
WriteStats(fmt) == txt' = [k \in KeySet |-> Text(fmt[DefaultSort[k]])]

\* Mutant: the polls are counted without a bound.
MutSetFields(ks) ==
    /\ poll <= MaxPoll
    /\ poll' = poll + 1
    /\ raw' = [k \in KeySet |-> IF k \in ks THEN poll' ELSE raw[k]]
    /\ UNCHANGED <<sort, formatted, txt, reordered, unsynced>>

\* The API threads set the fields of some entries.
SetFields(ks) ==
    /\ poll < MaxPoll
    /\ poll' = poll + 1
    /\ raw' = [k \in KeySet |-> IF k \in ks THEN poll' ELSE raw[k]]
    /\ UNCHANGED <<sort, formatted, txt, reordered, unsynced>>

\* The end of a poll: updateFormat and writeStats.
Publish ==
    /\ UpdateFormat(sort)
    /\ WriteStats(formatted')
    /\ unsynced' = FALSE
    /\ UNCHANGED <<sort, raw, poll, reordered>>

\* #saveSettings: the order of the entries, then updateFormat.
SaveDisplay(srt) ==
    /\ sort' = srt
    /\ UpdateFormat(srt)
    /\ reordered' = TRUE
    /\ unsynced' = FALSE
    /\ UNCHANGED <<raw, txt, poll>>

\* restartFetch empties the stats and the formatted copy.
ClearStats ==
    /\ raw' = [k \in KeySet |-> NoText]
    /\ formatted' = <<>>
    /\ UNCHANGED <<sort, txt, poll, reordered, unsynced>>

\* #resetSettings: resetDefaults of the data, before the restart.
ResetDefaults ==
    /\ sort' = DefaultSort
    /\ unsynced' = TRUE
    /\ UNCHANGED <<raw, formatted, txt, poll, reordered>>

ExportNext ==
    \/ \E ks \in SUBSET KeySet : SetFields(ks)
    \/ Publish
    \/ \E srt \in [KeySet -> Positions] : SaveDisplay(srt)
    \/ ClearStats
    \/ ResetDefaults

ExportSpec == ExportInit /\ [][ExportNext]_exportVars

-----------------------------------------------------------------------------
\* The comment in #saveSettings: "Immediately sync arrFormatted so the ImGui
\* UI reflects toggle/sort changes without waiting for the next API poll."
\* The window lists every entry once and in the user's order, whatever
\* polls, saves and switches come in which order; after #resetSettings from
\* the next poll on.
ListInOrder ==
    formatted # <<>> =>
        /\ {formatted[i].key : i \in 1 .. Len(formatted)} = KeySet
        /\ unsynced \/ \A i, j \in Positions :
               i < j => sort[formatted[i].key] <= sort[formatted[j].key]

\* As long as the user never chose an order of his own, a placeholder of the
\* text files shows the entry it names.
DefaultOrderExports ==
    ~reordered => \A k \in KeySet : txt[k] = NoText \/ txt[k].key = k

\* The help page: "Current value (formatted)" for the placeholder of a key.
PlaceholderShowsKey == \A k \in KeySet : txt[k] = NoText \/ txt[k].key = k
=============================================================================
