------------------------------ MODULE SendPath ------------------------------
(***************************************************************************)
(* How data goes out: wiz_sendto with wizchip_send (TCP) and               *)
(* wizchip_sendto (UDP), the word sock_is_sending they and the opening and *)
(* closing of sockets share, and the chip that sends and raises SENDOK.    *)
(*                                                                         *)
(* One thread sends on each socket.  Reads of chip registers, and the load *)
(* and the store of `sock_is_sending |= bit`, are steps of their own.      *)
(* Commands take effect in the step that gives them.  Bytes are counted.   *)
(*                                                                         *)
(* The loops of 1000 delays do not run out: the buffer has room (each      *)
(* length is clamped to the free size and nobody else fills the buffer),   *)
(* and the task sets RTR and RCR (RyanW5500.c:176) so that the chip gives  *)
(* an ARP request up after 1.2 s of the 2 s that wizchip_sendto waits.     *)
(***************************************************************************)
EXTENDS Integers, FiniteSets

CONSTANTS Tcp, Udp,   \* sockets, each with the thread that sends on it
          TxMax,      \* size of a send buffer, Sn_TXBUF_SIZE
          Sizes       \* lengths that are passed to sendto()

Socks == Tcp \cup Udp

ASSUME SendAssumption ==
    /\ Tcp \cap Udp = {}
    /\ TxMax \in Nat \ {0}
    /\ Sizes \subseteq Nat \ {0}

VARIABLES sr, ir,       \* Sn_SR, Sn_IR
          tx,           \* bytes in the send buffer
          flight,       \* the chip executes a SEND command
          sending,      \* sock_is_sending, as a set
          th            \* the threads

chip == <<sr, ir, tx, flight>>
vars == <<chip, sending, th>>

SnIMR == {"RECV", "DISCON", "CON"}

Results == {"none", "sent", "busy", "error"}    \* > 0, 0, -1

PCs == {"idle", "free", "status", "reading", "clear", "loop", "check", "write",
        "send", "set", "confirm", "close", "open"}

\* A thread: where it is, the length it sends, the value of sock_is_sending it
\* has loaded (when loaded is TRUE), where it goes after a change of the word,
\* and what its last call returned.
Idle == [pc |-> "idle", len |-> 0, loaded |-> FALSE, word |-> {}, then |-> "idle",
         res |-> "none"]

Least(m, n) == IF m < n THEN m ELSE n

At(s, pc)      == th[s].pc = pc
Goto(s, pc)    == th' = [th EXCEPT ![s].pc = pc]
Return(s, res) == th' = [th EXCEPT ![s] = [Idle EXCEPT !.res = res]]

\* Clear the bit of the socket, then go on at pc; or end the call if pc is "idle".
ClearThen(s, pc) == th' = [th EXCEPT ![s].pc = "clear", ![s].then = pc]

-----------------------------------------------------------------------------
(* wiz_sendto                                                              *)

\* Sn_SR must be SOCK_ESTABLISHED or SOCK_UDP.
Call(s) ==
    /\ At(s, "idle")
    /\ IF sr[s] \in {"ESTABLISHED", "UDP"}
       THEN \E n \in Sizes :
              th' = [th EXCEPT ![s] = [Idle EXCEPT !.pc = "free", !.len = n]]
       ELSE Return(s, "error")    \* EDESTADDRREQ
    /\ UNCHANGED <<chip, sending>>

\* Mutant of Free: the size of the buffer, whatever is in it.
FreeWhole(s) == TxMax

\* getSn_TX_FSR: it reads until two readings agree.
Free(s) == TxMax - tx[s]

\* No more than is free is sent.
Clamp(s) ==
    /\ At(s, "free")
    /\ IF Free(s) = 0
       THEN Return(s, "error")    \* EWOULDBLOCK
       ELSE th' = [th EXCEPT ![s].pc = IF s \in Tcp THEN "status" ELSE "write",
                             ![s].len = Least(@, Free(s))]
    /\ UNCHANGED <<chip, sending>>

-----------------------------------------------------------------------------
(* wizchip_send                                                            *)

\* Mutant of Status: sock_is_sending is not looked at.
StatusOnly(s) ==
    /\ At(s, "status")
    /\ IF sr[s] \in {"ESTABLISHED", "CLOSE_WAIT"}
       THEN Goto(s, "loop") ELSE Return(s, "error")
    /\ UNCHANGED <<chip, sending>>

\* The status, and whether the last send is still marked.
Status(s) ==
    /\ At(s, "status")
    /\ IF sr[s] \notin {"ESTABLISHED", "CLOSE_WAIT"}
       THEN Return(s, "error")    \* SOCKERR_SOCKSTATUS
       ELSE Goto(s, IF s \in sending THEN "reading" ELSE "loop")
    /\ UNCHANGED <<chip, sending>>

\* Sn_IR tells what became of the last send.
Reading(s) ==
    /\ At(s, "reading")
    /\ \/ /\ "SENDOK" \in ir[s]
          /\ ir' = [ir EXCEPT ![s] = @ \ {"SENDOK"}]
          /\ ClearThen(s, "loop")
       \/ /\ "SENDOK" \notin ir[s] /\ "TIMEOUT" \in ir[s]
          /\ Goto(s, "close")
          /\ UNCHANGED ir
       \/ /\ ir[s] \cap {"SENDOK", "TIMEOUT"} = {}
          /\ Return(s, "busy")
          /\ UNCHANGED ir
    /\ UNCHANGED <<sr, tx, flight, sending>>

\* sock_is_sending &= ~(1 << sn): load, then store.
Clear(s) ==
    /\ At(s, "clear")
    /\ \/ /\ ~th[s].loaded
          /\ th' = [th EXCEPT ![s].loaded = TRUE, ![s].word = sending]
          /\ UNCHANGED sending
       \/ /\ th[s].loaded
          /\ sending' = th[s].word \ {s}
          /\ IF th[s].then = "idle"
             THEN Return(s, "error")
             ELSE th' = [th EXCEPT ![s].pc = th[s].then, ![s].loaded = FALSE,
                                   ![s].word = {}]
    /\ UNCHANGED chip

\* The wait for room ends at once; a closed socket ends it too, without an error.
Loop(s) ==
    /\ At(s, "loop")
    /\ Goto(s, IF sr[s] = "CLOSED" THEN "write" ELSE "check")
    /\ UNCHANGED <<chip, sending>>

Check(s) ==
    /\ At(s, "check")
    /\ th[s].len <= Free(s)
    /\ Goto(s, IF sr[s] \in {"ESTABLISHED", "CLOSE_WAIT"} THEN "write" ELSE "close")
    /\ UNCHANGED <<chip, sending>>
-----------------------------------------------------------------------------
(* wizchip_send and wizchip_sendto, from wiz_send_data on                  *)

\* wiz_send_data; a closed socket keeps nothing.
Write(s) ==
    /\ At(s, "write")
    /\ tx' = [tx EXCEPT ![s] = IF sr[s] = "CLOSED" THEN @ ELSE @ + th[s].len]
    /\ Goto(s, "send")
    /\ UNCHANGED <<sr, ir, flight, sending>>

\* Sn_CR_SEND
Send(s) ==
    /\ At(s, "send")
    /\ flight' = [flight EXCEPT ![s] = sr[s] # "CLOSED"]
    /\ Goto(s, IF s \in Tcp THEN "set" ELSE "confirm")
    /\ UNCHANGED <<sr, ir, tx, sending>>

\* sock_is_sending |= (1 << sn): load, then store and return len.
SetFlag(s) ==
    /\ At(s, "set")
    /\ \/ /\ ~th[s].loaded
          /\ th' = [th EXCEPT ![s].loaded = TRUE, ![s].word = sending]
          /\ UNCHANGED sending
       \/ /\ th[s].loaded
          /\ sending' = th[s].word \cup {s}
          /\ Return(s, "sent")
    /\ UNCHANGED chip

\* Mutant of Confirm: the interrupt is not cleared.
ConfirmOnly(s) ==
    /\ At(s, "confirm")
    /\ ir[s] \cap {"SENDOK", "TIMEOUT"} # {}
    /\ Return(s, IF "SENDOK" \in ir[s] THEN "sent" ELSE "error")
    /\ UNCHANGED <<chip, sending>>

\* wizchip_sendto waits for the interrupt and clears it.
Confirm(s) ==
    /\ At(s, "confirm")
    /\ \/ /\ "SENDOK" \in ir[s]
          /\ ir' = [ir EXCEPT ![s] = @ \ {"SENDOK"}]
          /\ Return(s, "sent")
       \/ /\ "SENDOK" \notin ir[s] /\ "TIMEOUT" \in ir[s]
          /\ ir' = [ir EXCEPT ![s] = @ \ {"TIMEOUT"}]
          /\ Return(s, "error")    \* SOCKERR_TIMEOUT
    /\ UNCHANGED <<sr, tx, flight, sending>>

\* wizchip_close, up to its change of sock_is_sending.
CloseHere(s) ==
    /\ At(s, "close")
    /\ sr'     = [sr EXCEPT ![s] = "CLOSED"]
    /\ ir'     = [ir EXCEPT ![s] = {}]
    /\ tx'     = [tx EXCEPT ![s] = 0]
    /\ flight' = [flight EXCEPT ![s] = FALSE]
    /\ ClearThen(s, "idle")
    /\ UNCHANGED sending

\* The application gives a closed socket up and connects it anew.  wizchip_socket
\* clears its bit before the socket can be used, under socketMutexHandle, which
\* excludes other threads that open a socket but none that sends.
Reopen(s) ==
    /\ s \in Tcp
    /\ \/ /\ At(s, "idle") /\ sr[s] = "CLOSED"
          /\ \A u \in Tcp : th[u].then # "open"
          /\ ir' = [ir EXCEPT ![s] = {}]
          /\ ClearThen(s, "open")
          /\ UNCHANGED sr
       \/ /\ At(s, "open")
          /\ sr' = [sr EXCEPT ![s] = "ESTABLISHED"]
          /\ th' = [th EXCEPT ![s] = Idle]
          /\ UNCHANGED ir
    /\ UNCHANGED <<tx, flight, sending>>

-----------------------------------------------------------------------------
(* The W5500 task                                                          *)

\* Mutant of ClearIR: every interrupt is cleared, as with 0xFF.
ClearAll(s) ==
    /\ ir[s] \cap SnIMR # {}
    /\ ir' = [ir EXCEPT ![s] = {}]
    /\ UNCHANGED <<sr, tx, flight, sending, th>>

\* An interrupt of Sn_IMR makes the task look; it clears those of RyanW5500SnIMR
\* and leaves SENDOK and TIMEOUT to the sender.
ClearIR(s) ==
    /\ ir[s] \cap SnIMR # {}
    /\ ir' = [ir EXCEPT ![s] = @ \ SnIMR]
    /\ UNCHANGED <<sr, tx, flight, sending, th>>

-----------------------------------------------------------------------------
(* The chip and the peer                                                   *)

\* Bytes for which SEND has been given: what is written last waits for it.
Sent(s) == flight[s] \/ (s \in Tcp /\ tx[s] > 0 /\ ~At(s, "send"))

\* Bytes leave the buffer when the peer acknowledges them, a datagram as a whole.
Deliver(s) ==
    /\ Sent(s)
    /\ \E n \in 1 .. tx[s] :
         /\ s \in Udp => n = tx[s]
         /\ tx' = [tx EXCEPT ![s] = @ - n]
    /\ UNCHANGED <<sr, ir, flight, sending, th>>

\* The command is over; what it has sent may still wait to be acknowledged.
SendOk(s) ==
    /\ flight[s]
    /\ s \in Udp => tx[s] = 0
    /\ flight' = [flight EXCEPT ![s] = FALSE]
    /\ ir' = [ir EXCEPT ![s] = @ \cup {"SENDOK"}]
    /\ UNCHANGED <<sr, tx, sending, th>>

\* Nobody acknowledges, or nobody answers to ARP; TCP gives the connection up.
Fail(s) ==
    /\ Sent(s)
    /\ sr'     = [sr EXCEPT ![s] = IF s \in Tcp THEN "CLOSED" ELSE @]
    /\ ir'     = [ir EXCEPT ![s] = @ \cup {"TIMEOUT"}]
    /\ tx'     = [tx EXCEPT ![s] = 0]
    /\ flight' = [flight EXCEPT ![s] = FALSE]
    /\ UNCHANGED <<sending, th>>

PeerReceive(s) ==
    /\ sr[s] \in {"ESTABLISHED", "UDP"}
    /\ ir' = [ir EXCEPT ![s] = @ \cup {"RECV"}]
    /\ UNCHANGED <<sr, tx, flight, sending, th>>

PeerFin(s) ==
    /\ sr[s] = "ESTABLISHED"
    /\ sr' = [sr EXCEPT ![s] = "CLOSE_WAIT"]
    /\ ir' = [ir EXCEPT ![s] = @ \cup {"DISCON"}]
    /\ UNCHANGED <<tx, flight, sending, th>>

PeerReset(s) ==
    /\ sr[s] \in {"ESTABLISHED", "CLOSE_WAIT"}
    /\ sr'     = [sr EXCEPT ![s] = "CLOSED"]
    /\ ir'     = [ir EXCEPT ![s] = @ \cup {"DISCON"}]
    /\ tx'     = [tx EXCEPT ![s] = 0]
    /\ flight' = [flight EXCEPT ![s] = FALSE]
    /\ UNCHANGED <<sending, th>>

-----------------------------------------------------------------------------
Init ==
    /\ sr = [s \in Socks |-> IF s \in Tcp THEN "ESTABLISHED" ELSE "UDP"]
    /\ ir = [s \in Socks |-> {}]
    /\ tx = [s \in Socks |-> 0]
    /\ flight = [s \in Socks |-> FALSE]
    /\ sending = {}
    /\ th = [s \in Socks |-> Idle]

Thread(s) == \/ Call(s) \/ Clamp(s) \/ Status(s) \/ Reading(s) \/ Clear(s)
             \/ Loop(s) \/ Check(s) \/ Write(s) \/ Send(s) \/ SetFlag(s)
             \/ Confirm(s) \/ CloseHere(s)
Chip(s)   == Deliver(s) \/ SendOk(s)
Peer(s)   == Fail(s) \/ PeerReceive(s) \/ PeerFin(s) \/ PeerReset(s)

Next == \E s \in Socks : Thread(s) \/ Reopen(s) \/ ClearIR(s) \/ Chip(s) \/ Peer(s)

Spec == Init /\ [][Next]_vars

\* The threads run and go on sending, and the chip goes on with a command; nothing
\* obliges a connection to fail or the peer to end it.
FairSpec == Spec /\ \A s \in Socks : WF_vars(Thread(s)) /\ WF_vars(Chip(s))

-----------------------------------------------------------------------------
(* Properties                                                              *)

\* Type invariant of the send path.
TypeOK ==
    /\ sr \in [Socks -> {"ESTABLISHED", "CLOSE_WAIT", "CLOSED", "UDP"}]
    /\ ir \in [Socks -> SUBSET (SnIMR \cup {"SENDOK", "TIMEOUT"})]
    /\ tx \in [Socks -> 0 .. TxMax]
    /\ flight \in [Socks -> BOOLEAN]
    /\ sending \subseteq Tcp
    /\ th \in [Socks -> [pc : PCs, len : Nat, loaded : BOOLEAN, word : SUBSET Tcp,
                         then : {"idle", "loop", "open"}, res : Results]]

\* What is written into a send buffer fits: the size that wiz_sendto read is
\* still free when wiz_send_data writes.
NothingOverwritten == \A s \in Socks : At(s, "write") => tx[s] + th[s].len <= TxMax

\* A SEND command is given only when the last one of the socket is over, the
\* restriction of the chip that sock_is_sending and the wait for SENDOK keep.
OneSendAtATime == \A s \in Socks : At(s, "send") => ~flight[s]

\* sendto() on a UDP socket reports a datagram as sent only when it has left: a
\* SENDOK of an earlier datagram is never taken for it.
SentHasLeft == \A s \in Udp : th[s].res = "sent" => ~flight[s] /\ tx[s] = 0

\* send() does not stay busy: the end of the last send is noticed, or the
\* connection ends.
BusyEnds == \A s \in Tcp : s \in sending ~> (s \notin sending \/ sr[s] # "ESTABLISHED")
=============================================================================
