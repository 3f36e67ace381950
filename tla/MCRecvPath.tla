----------------------------- MODULE MCRecvPath -----------------------------
(***************************************************************************)
(* The instance of RecvPath for TLC, and what the comments of the receive  *)
(* path say of it.  In a behaviour one thread calls recv() on a connection *)
(* that is not reset, or all of them do, with the shortest buffer, on one  *)
(* that may be: a lone receiver can rely on more than several can.         *)
(***************************************************************************)
EXTENDS RecvPath

CONSTANTS r1, r2,   \* the receivers
          First     \* the lone one

VARIABLE users    \* the threads that call recv() in this behaviour

mcvars == <<vars, users>>

Alone == users = {First}

MCInit == Init /\ users \in {Receivers, {First}}

Shortest(r) == \A n \in Lens : rcv[r].len <= n

MCNext ==
    /\ \/ \E r \in users : \/ Call(r) /\ (Alone \/ Shortest(r)')
                           \/ Progress(r)
                           \/ Alone /\ TimeOut(r)
       \/ IntData
       \/ PeerSend \/ PeerFin
       \/ ~Alone /\ PeerReset
    /\ UNCHANGED users

\* The fairness of RecvPath!FairSpec, for the lone receiver.
MCSpec == /\ MCInit /\ [][MCNext]_mcvars
          /\ WF_mcvars(Alone /\ IntData /\ UNCHANGED users)
          /\ WF_mcvars(Alone /\ Progress(First) /\ UNCHANGED users)

\* A lone thread in recv() is told of the end of the stream only when the peer has
\* ended it (EndIsTrue of RecvPath).
EndIsTrueAlone == Alone => EndIsTrue

\* A lone thread that waits in recv() on a connection that is not reset is woken
\* when a byte or the end of the stream arrives (ReceiverWoken of RecvPath).
ReceiverWokenAlone ==
    (Alone /\ At(First, "asleep") /\ (rx > 0 \/ sr # "ESTABLISHED"))
      ~> ~At(First, "asleep")

\* recv() returns the length of the data received: no more bytes than the peer
\* has sent.
ReturnsReceived == got <= sent
=============================================================================
