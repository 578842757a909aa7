--------------------------- MODULE MCSettingsStore ---------------------------
(* Instance of SettingsStore for TLC: the sets are given in the .cfg.       *)
EXTENDS SettingsStore
==============================================================================
