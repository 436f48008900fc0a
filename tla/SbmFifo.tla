------------------------------ MODULE SbmFifo ------------------------------
(***************************************************************************)
(* What a stream buffer manager promises the codec engine (the summaries   *)
(* above the functions of sbmStream.c): frames come out in the order they  *)
(* were added, a returned frame goes back to where it was, and flushed     *)
(* frames make room.                                                       *)
(***************************************************************************)
EXTENDS Integers, Sequences

CONSTANTS Frame, Capacity

VARIABLES
    taken,   \* frames the engine has requested and not flushed or returned
    waiting  \* frames not requested yet, oldest first

Init == taken = << >> /\ waiting = << >>

Add ==
    /\ Len(taken) + Len(waiting) < Capacity
    /\ \E frame \in Frame : waiting' = Append(waiting, frame)
    /\ UNCHANGED taken

Take ==
    /\ waiting # << >>
    /\ taken' = Append(taken, Head(waiting))
    /\ waiting' = Tail(waiting)

PutBack ==
    /\ taken # << >>
    /\ waiting' = << taken[Len(taken)] >> \o waiting
    /\ taken' = SubSeq(taken, 1, Len(taken) - 1)

Drop ==
    /\ taken # << >>
    /\ taken' = Tail(taken)
    /\ UNCHANGED waiting

Reset == taken' = << >> /\ waiting' = << >>

Next == Add \/ Take \/ PutBack \/ Drop \/ Reset

Spec == Init /\ [][Next]_<<taken, waiting>>
=============================================================================
