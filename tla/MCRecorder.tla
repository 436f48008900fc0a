----------------------------- MODULE MCRecorder -----------------------------
(* Four buffers over two nodes, so that one failed write may lose a buffer  *)
(* and recording still goes on; a ring of four bytes with frames of one or  *)
(* three bytes rounded up to two; both kinds of buffer.                     *)
EXTENDS Recorder

MCLengths == {1, 3}
=============================================================================
