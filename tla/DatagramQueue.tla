---------------------------- MODULE DatagramQueue ----------------------------
(***************************************************************************)
(* What a UDP socket promises to the one thread that receives on it: the   *)
(* datagrams come out in the order they arrived, a call returns bytes of   *)
(* one datagram only, and what does not fit comes with the next call,      *)
(* which does not name the sender again.                                   *)
(***************************************************************************)
EXTENDS Naturals, Sequences

CONSTANTS Peers,    \* senders
          Sizes,    \* lengths of datagrams
          Unset     \* no sender

VARIABLES queue,    \* what has not been received
          out       \* sender and length that the last call returned

Datagram(p, n) == [from |-> p, left |-> n, begun |-> FALSE]

Init == queue = <<>> /\ out = [from |-> Unset, n |-> 0]

Arrive == /\ \E p \in Peers, n \in Sizes : queue' = Append(queue, Datagram(p, n))
          /\ UNCHANGED out

Receive ==
    /\ queue # <<>>
    /\ \E n \in 0 .. Head(queue).left :
         /\ n > 0 \/ Head(queue).left = 0
         /\ out' = [from |-> IF Head(queue).begun THEN Unset ELSE Head(queue).from, n |-> n]
         /\ queue' = IF n = Head(queue).left
                     THEN Tail(queue)
                     ELSE <<[Head(queue) EXCEPT !.left = @ - n, !.begun = TRUE]>> \o Tail(queue)

\* The socket is opened anew.
Flush == queue' = <<>> /\ UNCHANGED out

Next == Arrive \/ Receive \/ Flush

Spec == Init /\ [][Next]_<<queue, out>>
=============================================================================
