---------------------------- MODULE FrameChannel ----------------------------
(***************************************************************************)
(* What the send path of a session promises: a first-in first-out channel  *)
(* of logical packets.  A packet is sent as a whole, in the order in which *)
(* senders get hold of the channel, and packets arrive whole and in that   *)
(* order, none of them twice.                                              *)
(***************************************************************************)
EXTENDS Sequences, Naturals

CONSTANT Packets

VARIABLES
    sent,           \* the packets in the order of the channel
    arrived         \* those that the receiver has got

Init == sent = <<>> /\ arrived = <<>>

Send == /\ \E p \in Packets : sent' = Append(sent, p)
        /\ UNCHANGED arrived

\* The receiver takes what has come in, one packet or several.
Arrive == /\ \E n \in Len(arrived) + 1..Len(sent) : arrived' = SubSeq(sent, 1, n)
          /\ UNCHANGED sent

Spec == Init /\ [][Send \/ Arrive]_<<sent, arrived>>
=============================================================================
