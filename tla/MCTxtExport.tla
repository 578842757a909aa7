---------------------------- MODULE MCTxtExport ----------------------------
(* Three entries of arr, in its order.                                     *)
EXTENDS TxtExport

MCKeys == <<"level", "scoreRank", "ppRank">>
=============================================================================
