----------------------------- MODULE MCUiThread -----------------------------
(* Instance of UiThread for TLC: it has no constants.                      *)
EXTENDS UiThread
=============================================================================
