----------------------------- MODULE MCUdpRecv -----------------------------
(***************************************************************************)
(* UdpRecv with one receiver, since two share sock_remained_size, and with *)
(* two senders.                                                            *)
(***************************************************************************)
EXTENDS UdpRecv

CONSTANTS r1, p1, p2

OneReceiver == {r1}
TwoPeers    == {p1, p2}
=============================================================================
