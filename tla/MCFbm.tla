------------------------------- MODULE MCFbm -------------------------------
(***************************************************************************)
(* Small instances of Fbm for TLC: the decoder allocates the buffers       *)
(* itself, or the display provides them and its window changes.            *)
(***************************************************************************)
EXTENDS Fbm
=============================================================================
