----------------------------- MODULE MCDataLock -----------------------------
(* Instance of DataLock for TLC: the API threads are given in the .cfg.    *)
EXTENDS DataLock
=============================================================================
