------------------------------ MODULE MCFrames ------------------------------
(* Instance of Frames for TLC: the pictures are given in the .cfg.         *)
EXTENDS Frames
=============================================================================
