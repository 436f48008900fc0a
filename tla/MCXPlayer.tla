----------------------------- MODULE MCXPlayer -----------------------------
(***************************************************************************)
(* Small instances of the player front end for TLC: a file, a network      *)
(* source with its cache thread, and the two situations in which the code  *)
(* does not keep what its comments say.                                    *)
(***************************************************************************)
EXTENDS XPlayer
=============================================================================
