---------------------------- MODULE MCMainLoop ----------------------------
(***************************************************************************)
(* Instances of MainLoop for TLC.  A second is 2 ticks and the counter     *)
(* starts again after 4, so that every combination of flags is reached.    *)
(***************************************************************************)
EXTENDS MainLoop
=============================================================================
