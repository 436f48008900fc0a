--------------------------- MODULE MCMessageQueue ---------------------------
(* Small instances of the message queue.                                   *)
EXTENDS MessageQueue

CONSTANTS m1, m2

MCMessage == {m1, m2}
=============================================================================
