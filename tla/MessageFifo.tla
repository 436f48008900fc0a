---------------------------- MODULE MessageFifo ----------------------------
(* What a message queue promises its threads: a bounded channel that hands *)
(* messages out in the order they were posted and can be emptied at once.  *)
EXTENDS Integers, Sequences

CONSTANTS Message, Capacity

VARIABLE channel

Init == channel = << >>

Post ==
    /\ Len(channel) < Capacity
    /\ \E m \in Message : channel' = Append(channel, m)

Get == channel # << >> /\ channel' = Tail(channel)

Flush == channel' = << >>

Next == Post \/ Get \/ Flush

Spec == Init /\ [][Next]_channel
=============================================================================
