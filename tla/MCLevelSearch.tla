--------------------------- MODULE MCLevelSearch ---------------------------
(***************************************************************************)
(* LevelSearch over the levels 1 to 58, whose scores fit TLC's integers in *)
(* units of 5000 points.  scoreNeeded(n) is 5000 (4 n^3 - 3 n^2 - n) / 3,  *)
(* a whole number of them, and a term of less than a point up to level 59  *)
(* that is left out: a score of exactly so many points is one level lower  *)
(* in the code's search and rounded up to the same.                        *)
(***************************************************************************)
EXTENDS LevelSearch

MCHigh == 58

MCNeeded == [n \in 1..(MCHigh + 1) |-> (4*n*n*n - 3*n*n - n) \div 3]

\* Every boundary, from both sides, and scores outside of all levels.
MCScores ==
    UNION {{MCNeeded[n] - 1, MCNeeded[n]} : n \in 1..(MCHigh + 1)}
=============================================================================
