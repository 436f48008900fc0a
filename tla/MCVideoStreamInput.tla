------------------------- MODULE MCVideoStreamInput -------------------------
(* Small instance of the input path: few bytes and few descriptors, so     *)
(* that both rings wrap and fill.                                          *)
EXTENDS VideoStreamInput

MCPts == {-1, 0}
MCPartLengths == 0 .. 2
=============================================================================
