-------------------------- MODULE MCVideoPlayback --------------------------
(***************************************************************************)
(* VideoPlayback for TLC, with the queue size that the code gives every    *)
(* component.  The number of commands is not bounded: the state is finite. *)
(***************************************************************************)
EXTENDS VideoPlayback
=============================================================================
