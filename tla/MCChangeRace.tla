---------------------------- MODULE MCChangeRace ----------------------------
(* An entry of Bancho::api and one of respektive_api, in the order of arr;  *)
(* inspector_api has none here and only runs calcDifference.                *)
EXTENDS ChangeRace

MCEntries == <<"level", "scoreRank">>
MCOwner   == [e \in {"level", "scoreRank"} |-> IF e = "level" THEN "t1" ELSE "t2"]
=============================================================================
