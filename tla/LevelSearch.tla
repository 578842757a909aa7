---------------------------- MODULE LevelSearch ----------------------------
(***************************************************************************)
(* getLevelFromScore (Core/Helpers.h): the level of a total score, by a    *)
(* binary search for the last level whose score is reached; then how far   *)
(* the score is on the way to the next level, as a fraction; and both      *)
(* rounded to thousandths, which may be the next level's .000.             *)
(*                                                                         *)
(* The levels' scores are reals (long double) in the code.  Here they and  *)
(* the scores looked up are whole numbers of some unit, as small as one    *)
(* likes; what the result is rounded to is counted in thousandths.         *)
(***************************************************************************)
EXTENDS Integers

CONSTANTS
    High,        \* the last level searched for: 1500
    Needed,      \* Needed[n]: the score at which level n starts
    Scores,      \* the scores that are looked up
    NoResult     \* the function has not returned

ASSUME HighAssumption == High \in Nat \ {0}

\* scoreNeeded grows with the level.
ASSUME NeededAssumption ==
    /\ Needed \in [1..(High + 1) -> Nat]
    /\ \A m, n \in 1..(High + 1) : m < n => Needed[m] < Needed[n]

\* scoreNeeded(1) is 1.25 * 1.8^-59, and the next level starts at 30000: a score
\* of 0 is below level 1 by less than half a thousandth.
ASSUME FirstLevelAssumption == 2000 * Needed[1] <= Needed[2] - Needed[1]

ASSUME ScoresAssumption == Scores \subseteq Int /\ NoResult \notin Int

VARIABLES
    score, low, high, level,
    shown        \* what is returned, in thousandths

vars == <<score, low, high, level, shown>>

Searching == score >= 0 /\ low <= high

TypeOK ==
    /\ score \in Scores
    /\ low \in 1..(High + 1)
    /\ high \in 0..High
    /\ level \in 1..High
    /\ shown \in Int \cup {NoResult}

Init ==
    /\ score \in Scores
    /\ low = 1
    /\ high = High
    /\ level = 1
    /\ shown = NoResult

\* Mutant: a level is reached only with more than its score.
MutReached(n) == Needed[n] < score

Reached(n) == Needed[n] <= score

Middle == (low + high) \div 2

\* Mutant: the middle stays in the range.
MutHalve ==
    IF Reached(Middle)
    THEN level' = Middle /\ low' = Middle /\ UNCHANGED high
    ELSE high' = Middle - 1 /\ UNCHANGED <<low, level>>

\* One turn of the loop.
Halve ==
    IF Reached(Middle)
    THEN level' = Middle /\ low' = Middle + 1 /\ UNCHANGED high
    ELSE high' = Middle - 1 /\ UNCHANGED <<low, level>>

Search == Searching /\ Halve /\ UNCHANGED <<score, shown>>

\* The way through level n, of which the score has come Gone(n).
Width(n) == Needed[n + 1] - Needed[n]
Gone(n)  == score - Needed[n]

\* Mutant: rounded up.
MutThousandths(n) == (1000 * Gone(n) + Width(n) - 1) \div Width(n)

\* std::round of 1000 * Gone(n) / Width(n): a half goes up.  (The level is added
\* before, so the number that is rounded is never negative.)
Thousandths(n) == (2000 * Gone(n) + Width(n)) \div (2 * Width(n))

\* A negative score is level 1 at once.
Return ==
    /\ ~Searching
    /\ shown = NoResult
    /\ shown' = IF score < 0 THEN 1000 ELSE 1000 * level + Thousandths(level)
    /\ UNCHANGED <<score, low, high, level>>

Returned == shown # NoResult /\ UNCHANGED vars

Next == Search \/ Return \/ Returned

Spec == Init /\ [][Next]_vars /\ WF_vars(Search) /\ WF_vars(Return)

-----------------------------------------------------------------------------
\* The levels below the range are reached and the ones above it are not; the
\* level kept is the one just below the range.
Narrowed ==
    /\ \A n \in 1..High : (n < low => Needed[n] <= score) /\ (n > high => score < Needed[n])
    /\ level = IF low = 1 THEN 1 ELSE low - 1
    /\ low <= high + 1

\* What is shown of a score is not below the last level n it has reached (or
\* level 1), and short of the last level of all not above the next; and it is
\* the next level's .000 only when at most a 2000th of the way is missing.
LevelCorrect ==
    shown # NoResult =>
        IF score < 0
        THEN shown = 1000
        ELSE \E n \in 1..High :
                /\ n > 1 => Needed[n] <= score
                /\ shown >= 1000 * n
                /\ n < High =>
                      /\ score < Needed[n + 1]
                      /\ shown <= 1000 * (n + 1)
                      /\ shown = 1000 * (n + 1) => 2000 * (Needed[n + 1] - score) <= Width(n)

\* The function returns, for every score: a turn always leaves a smaller range.
SearchEnds == <>(shown # NoResult)
=============================================================================
