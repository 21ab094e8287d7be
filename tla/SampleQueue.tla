---------------------------- MODULE SampleQueue ----------------------------
(* What the audio ring promises: a bounded queue. Samples are accepted in    *)
(* order, the device hears each of them once and in that order, until the    *)
(* output is shut.                                                           *)
EXTENDS Naturals, Sequences

CONSTANTS Capacity, Numbers    \* samples are numbered modulo Numbers

VARIABLES queue, sent, heard, open

Numbered(first, n) == [i \in 1..n |-> (first + i - 1) % Numbers]

Init == queue = <<>> /\ sent = 0 /\ heard = <<>> /\ open = TRUE

Accept ==
    /\ open' /\ open
    /\ \E n \in 1..Capacity - Len(queue) :
         /\ queue' = queue \o Numbered(sent, n)
         /\ sent' = (sent + n) % Numbers
    /\ UNCHANGED heard

Deliver ==
    /\ open' /\ open
    /\ \E n \in 0..Len(queue) :
         /\ heard' = SubSeq(queue, 1, n)
         /\ queue' = SubSeq(queue, n + 1, Len(queue))
    /\ UNCHANGED sent

Shut == open /\ ~open' /\ queue' = <<>> /\ heard' = <<>> /\ sent' = 0

Spec == Init /\ [][Accept \/ Deliver \/ Shut]_<<queue, sent, heard, open>>
=============================================================================
