---------------------------- MODULE MCSbmStream ----------------------------
(* Small instance of the stream buffer manager: a ring of few descriptors  *)
(* wraps soon, and every descriptor content may be added at any time.      *)
EXTENDS SbmStream

MCPts == {-1, 0}
=============================================================================
