------------------------------- MODULE UdpRecv -------------------------------
(***************************************************************************)
(* recvfrom() on a UDP socket: the UDP branch of wiz_recvfrom with         *)
(* wizchip_recvfrom, the interrupt task and RyanW5500RecvDataCallback, and *)
(* setsockopt(IP_ADD_MEMBERSHIP), which opens the socket anew.             *)
(*                                                                         *)
(* The receive buffer is a stream of bytes with absolute positions: the    *)
(* chip puts every datagram behind a header (address, port, length), and   *)
(* sock_remained_size is all that tells the driver whether the next byte   *)
(* begins a header or goes on with a datagram.  Register reads whose value *)
(* is used, kernel calls and changes of rcvevent are steps; errevent, read *)
(* by wiz_poll alone, is left to RecvPath.                                 *)
(***************************************************************************)
EXTENDS Integers, Sequences, FiniteSets

CONSTANTS Receivers,  \* threads that call recvfrom() on the socket
          Peers,      \* senders of datagrams
          Sizes,      \* lengths of datagrams
          Lens,       \* buffer lengths passed to recvfrom()
          Header,     \* bytes of the header: 8
          RxMax,      \* size of the receive buffer
          MaxGrams,   \* bound: datagrams that arrive
          Unset,      \* no sender: 0.0.0.0 and port 0
          Env         \* a subset of Behaviours

Behaviours == {"recvTimeout",   \* SO_RCVTIMEO is set
               "membership",    \* the receiving thread joins a group between calls
               "reopenFails"}   \* wizchip_socket fails when it does

\* The values of the pointer registers and of sock_remained_size: 16 bits.
Words == 65536

ASSUME UdpAssumption ==
    /\ IsFiniteSet(Receivers)
    /\ Unset \notin Peers
    /\ Sizes \subseteq 0 .. Words - 1
    /\ Lens \subseteq Nat \ {0}
    /\ Header \in Nat \ {0} /\ RxMax \in 1 .. Words - 1 /\ MaxGrams \in Nat
    /\ Env \subseteq Behaviours

VARIABLES sr, ir,      \* Sn_SR; Sn_IR, of which only RECV comes up: {} or {"RECV"}
          rd, wr,      \* Sn_RX_RD and Sn_RX_WR as positions in the stream
          grams,       \* the datagrams stored: position, sender, length
          remained,    \* sock_remained_size
          event,       \* the socket's bit of W5500EventHandle
          rcvevent,    \* the poll counter
          task,        \* where wizIntDataTask is
          rcv,         \* the receivers
          option,      \* where wiz_setsockopt is
          returned,    \* ghost: sender and length that the last call returned
          merged,      \* ghost: datagrams that found a signal of an earlier one pending
          short        \* ghost: calls that left a part of their datagram

chip == <<sr, ir, rd, wr, grams>>
vars == <<chip, remained, event, rcvevent, task, rcv, option, returned, merged, short>>

PCs == {"idle", "again", "wait", "asleep", "size", "remained", "header", "payload",
        "exit", "drained", "clean"}
Idle == [pc |-> "idle", len |-> 0, from |-> Unset, pos |-> 0, n |-> 0]

Least(m, n) == IF m < n THEN m ELSE n

At(r, pc)   == rcv[r].pc = pc
Goto(r, pc) == rcv' = [rcv EXCEPT ![r].pc = pc]
Return(r)   == rcv' = [rcv EXCEPT ![r] = Idle]
\* A call that returns no data has n = 0.
Fail(r)     == rcv' = [rcv EXCEPT ![r].pc = "exit", ![r].n = 0, ![r].from = Unset]

Rsr         == (wr - rd) % Words            \* Sn_RX_RSR
End(g)      == g.pos + Header + g.size      \* where a datagram ends
Stored      == {grams[i] : i \in 1 .. Len(grams)}

-----------------------------------------------------------------------------
(* wiz_recvfrom, UDP and IPRAW                                             *)

Call(r) ==
    /\ At(r, "idle")
    /\ option = "none"
    /\ \E n \in Lens : rcv' = [rcv EXCEPT ![r].pc = "again", ![r].len = n]
    /\ UNCHANGED <<chip, remained, event, rcvevent, task, option, returned, merged, short>>

\* again: the time that is left, then Sn_SR.
Again(r) ==
    /\ At(r, "again")
    /\ \/ "recvTimeout" \in Env /\ Fail(r)     \* EAGAIN
       \/ sr # "UDP" /\ Fail(r)                \* ENOTCONN
       \/ sr = "UDP" /\ Goto(r, "wait")
    /\ UNCHANGED <<chip, remained, event, rcvevent, task, option, returned, merged, short>>

\* rt_event_recv with RT_EVENT_FLAG_CLEAR.  sock->state is not Close, since a
\* socket without connection has no DISCON.
Wait(r) ==
    /\ At(r, "wait")
    /\ IF event THEN event' = FALSE /\ Goto(r, "size")
                ELSE Goto(r, "asleep") /\ UNCHANGED event
    /\ UNCHANGED <<chip, remained, rcvevent, task, option, returned, merged, short>>

TimeOut(r) ==
    /\ "recvTimeout" \in Env
    /\ At(r, "asleep")
    /\ Fail(r)
    /\ UNCHANGED <<chip, remained, event, rcvevent, task, option, returned, merged, short>>

\* Nothing there: wait again.  The length is cut to what the buffer holds, the
\* header included.
Size(r) ==
    /\ At(r, "size")
    /\ IF Rsr = 0 THEN Goto(r, "again")
       ELSE rcv' = [rcv EXCEPT ![r].pc = "remained", ![r].len = Least(Rsr, @)]
    /\ UNCHANGED <<chip, remained, event, rcvevent, task, option, returned, merged, short>>

\* RyanW5500DoEventChanges: the task may not have counted the event yet.
LessOne(n) == IF n > 0 THEN n - 1 ELSE 0

\* __exit: one poll event less, after the last byte none.
Exit(r) ==
    /\ At(r, "exit")
    /\ IF rcv[r].n > 0
       THEN /\ rcvevent' = LessOne(rcvevent)
            /\ Goto(r, "drained")
       ELSE Return(r) /\ UNCHANGED rcvevent
    /\ UNCHANGED <<chip, remained, event, task, option, returned, merged, short>>

Drained(r) ==
    /\ At(r, "drained")
    /\ IF Rsr = 0 THEN Goto(r, "clean") ELSE Return(r)
    /\ UNCHANGED <<chip, remained, event, rcvevent, task, option, returned, merged, short>>

Clean(r) ==
    /\ At(r, "clean")
    /\ rcvevent' = 0
    /\ Return(r)
    /\ UNCHANGED <<chip, remained, event, task, option, returned, merged, short>>

-----------------------------------------------------------------------------
(* wizchip_recvfrom, Sn_MR_UDP                                             *)

\* With no datagram begun, wait for the next one: up to 1000 rounds, or until the
\* socket is closed.
Remained(r) ==
    /\ At(r, "remained")
    /\ \/ remained # 0 /\ Goto(r, "header")
       \/ remained = 0 /\ sr # "CLOSED" /\ Rsr # 0 /\ Goto(r, "header")
       \/ remained = 0 /\ (sr = "CLOSED" \/ Rsr = 0) /\ Fail(r)
    /\ UNCHANGED <<chip, remained, event, rcvevent, task, option, returned, merged, short>>

\* The next Header bytes taken for a header: that of the datagram that begins
\* there, or any length if none does.
ReadHeader(r) ==
    IF remained = 0
    THEN /\ rd' = rd + Header
         /\ \/ \E g \in Stored : /\ g.pos = rd
                                 /\ remained' = g.size
                                 /\ rcv' = [rcv EXCEPT ![r].pc = "payload", ![r].from = g.from]
            \/ /\ \A g \in Stored : g.pos # rd
               /\ remained' \in Sizes
               /\ Goto(r, "payload")
    ELSE /\ rcv' = [rcv EXCEPT ![r].pc = "payload", ![r].from = Unset]
         /\ UNCHANGED <<rd, remained>>

TakeHeader(r) ==
    /\ At(r, "header")
    /\ ReadHeader(r)
    /\ UNCHANGED <<sr, ir, wr, grams, event, rcvevent, task, option, returned, merged, short>>

\* Mutant of Left: the rest of a datagram is taken for discarded.
LeftNothing(n) == 0

\* sock_remained_size -= pack_len, in 16 bits.
Left(n) == (remained - n) % Words

\* wiz_recv_data and Sn_CR_RECV.
Payload(r) ==
    LET n == Least(rcv[r].len, remained)
    IN  /\ At(r, "payload")
        /\ rcv' = [rcv EXCEPT ![r].pc = "exit", ![r].pos = rd, ![r].n = n]
        /\ rd' = rd + n
        /\ remained' = Left(n)
        /\ returned' = [from |-> rcv[r].from, n |-> n]
        /\ short' = IF n < remained THEN short + 1 ELSE short
        /\ UNCHANGED <<sr, ir, wr, grams, event, rcvevent, task, option, merged>>

-----------------------------------------------------------------------------
(* wizIntDataTask                                                          *)

ReadIR ==
    /\ task = "idle"
    /\ ir # {}
    /\ task' = "clear"
    /\ UNCHANGED <<chip, remained, event, rcvevent, rcv, option, returned, merged, short>>

\* setSn_IR(socket, RyanW5500SnIMR)
ClearIR ==
    /\ task = "clear"
    /\ ir' = {}
    /\ task' = "signal"
    /\ UNCHANGED <<sr, rd, wr, grams, remained, event, rcvevent, rcv, option, returned, merged, short>>

\* Mutant of RecvDataCallback: the event is sent only to the first of several.
RecvDataCallbackOnce ==
    \/ /\ task = "signal"
       /\ event' = (rcvevent > 0)
       /\ rcv' = [r \in Receivers |->
                    IF At(r, "asleep") /\ rcvevent = 0 THEN [rcv[r] EXCEPT !.pc = "size"]
                                                       ELSE rcv[r]]
       /\ task' = "count"
       /\ UNCHANGED rcvevent
    \/ /\ task = "count"
       /\ rcvevent' = rcvevent + 1
       /\ task' = "idle"
       /\ UNCHANGED <<event, rcv>>

\* RyanW5500RecvDataCallback: rt_event_send wakes every thread that waits for the
\* bit and then clears it.
RecvDataCallback ==
    \/ /\ task = "signal"
       /\ event' = (\A r \in Receivers : ~At(r, "asleep"))
       /\ rcv' = [r \in Receivers |->
                    IF At(r, "asleep") THEN [rcv[r] EXCEPT !.pc = "size"] ELSE rcv[r]]
       /\ task' = "count"
       /\ UNCHANGED rcvevent
    \/ /\ task = "count"
       /\ rcvevent' = rcvevent + 1
       /\ task' = "idle"
       /\ UNCHANGED <<event, rcv>>

Callback ==
    /\ RecvDataCallback
    /\ UNCHANGED <<chip, remained, option, returned, merged, short>>

-----------------------------------------------------------------------------
(* wiz_setsockopt: IP_ADD_MEMBERSHIP, by the thread that receives          *)

\* Mutant of Forget: wizchip_close leaves sock_remained_size.
ForgetNothing == UNCHANGED remained

\* sock_remained_size[sn] = 0
Forget == remained' = 0

\* wizchip_close: interrupts cleared, the buffer gone.
LeaveGroup ==
    /\ "membership" \in Env
    /\ option = "none"
    /\ \A r \in Receivers : At(r, "idle")
    /\ sr' = "CLOSED" /\ ir' = {} /\ rd' = wr
    /\ Forget
    /\ option' = "closed"
    /\ UNCHANGED <<wr, grams, event, rcvevent, task, rcv, returned, merged, short>>

\* wizchip_socket with Sn_MR_MULTI, which may fail and leave the socket closed.
JoinGroup ==
    /\ option = "closed"
    /\ option' = "none"
    /\ \/ sr' = "UDP"
       \/ "reopenFails" \in Env /\ UNCHANGED sr
    /\ Forget
    /\ UNCHANGED <<ir, rd, wr, grams, event, rcvevent, task, rcv, returned, merged, short>>

-----------------------------------------------------------------------------
(* The chip and the peers                                                  *)

\* A signal of an earlier datagram that no receiver has taken yet.
Pending == ir # {} \/ task \in {"clear", "signal"} \/ event

\* A datagram that finds room is stored behind its header.
PeerSend ==
    /\ sr = "UDP"
    /\ Len(grams) < MaxGrams
    /\ \E p \in Peers, n \in Sizes :
         /\ wr - rd + Header + n <= RxMax
         /\ grams' = Append(grams, [pos |-> wr, from |-> p, size |-> n])
         /\ wr' = wr + Header + n
    /\ ir' = {"RECV"}
    /\ merged' = IF Pending THEN merged + 1 ELSE merged
    /\ UNCHANGED <<sr, rd, remained, event, rcvevent, task, rcv, option, returned, short>>

-----------------------------------------------------------------------------
Init ==
    /\ sr = "UDP" /\ ir = {} /\ rd = 0 /\ wr = 0 /\ grams = <<>>
    /\ remained = 0 /\ event = FALSE /\ rcvevent = 0
    /\ task = "idle" /\ option = "none"
    /\ rcv = [r \in Receivers |-> Idle]
    /\ returned = [from |-> Unset, n |-> 0] /\ merged = 0 /\ short = 0

Progress(r) == \/ Again(r) \/ Wait(r) \/ Size(r) \/ Remained(r) \/ TakeHeader(r) \/ Payload(r)
               \/ Exit(r) \/ Drained(r) \/ Clean(r)
IntData     == ReadIR \/ ClearIR \/ Callback

Next == \/ \E r \in Receivers : Call(r) \/ Progress(r) \/ TimeOut(r)
        \/ IntData
        \/ LeaveGroup \/ JoinGroup
        \/ PeerSend

Spec == Init /\ [][Next]_vars

\* The threads inside recvfrom() and the interrupt task are scheduled.
FairSpec == Spec /\ WF_vars(IntData) /\ \A r \in Receivers : WF_vars(Progress(r))

-----------------------------------------------------------------------------
(* Properties, for one receiver                                            *)

\* Type invariant of the UDP receive path.
TypeOK ==
    /\ sr \in {"UDP", "CLOSED"} /\ ir \in {{}, {"RECV"}}
    /\ rd \in Nat /\ wr \in Nat
    /\ grams \in Seq([pos : Nat, from : Peers, size : Sizes])
    /\ remained \in 0 .. Words - 1 /\ event \in BOOLEAN /\ rcvevent \in Nat
    /\ task \in {"idle", "clear", "signal", "count"} /\ option \in {"none", "closed"}
    /\ rcv \in [Receivers -> [pc : PCs, len : Nat, from : Peers \cup {Unset},
                              pos : Nat, n : Nat]]
    /\ returned \in [from : Peers \cup {Unset}, n : Nat]
    /\ merged \in Nat /\ short \in Nat

\* sock_remained_size agrees with the chip's read pointer: it is 0 where a header
\* begins or nothing is stored, and inside a datagram it is what is left of it.
\* Otherwise payload would be taken for a header, and the length for anything.
Aligned ==
    IF remained = 0
    THEN rd = wr \/ \E g \in Stored : g.pos = rd
    ELSE \E g \in Stored : g.pos + Header <= rd /\ rd + remained = End(g)

\* The bytes that a call returns are of one datagram, whose sender it names, or
\* does not when an earlier call has returned the beginning.
ReadsOneDatagram ==
    \A r \in Receivers : At(r, "exit") /\ rcv[r].n > 0 =>
      \E g \in Stored :
        /\ g.pos + Header <= rcv[r].pos /\ rcv[r].pos + rcv[r].n <= End(g)
        /\ rcv[r].from = IF rcv[r].pos = g.pos + Header THEN g.from ELSE Unset

\* The place of the next byte in the stream is known wherever a call stops, so that
\* each call returns bytes of the datagram, and names the sender, it should.
ReadingAligned == TypeOK /\ Aligned /\ ReadsOneDatagram

\* Datagrams that are not wholly read, and those whose reading is under way.
Unread   == {i \in 1 .. Len(grams) : End(grams[i]) > rd}
Reading  == {r \in Receivers : rcv[r].pc \in {"size", "remained", "header", "payload"}}
Signals  == Cardinality({x \in {"ir", "task", "event"} :
                           \/ x = "ir" /\ ir # {}
                           \/ x = "task" /\ task \in {"clear", "signal"}
                           \/ x = "event" /\ event})

\* recvfrom() waits for an event before it looks at the buffer, so a datagram may
\* stay there without a call being woken; but only one that came while another's
\* signal was pending, or the rest of one that did not fit into the caller's
\* buffer.
UnreadAccounted ==
    Cardinality(Unread) <= merged + short + Signals + Cardinality(Reading)

\* A datagram that arrives while a thread waits wakes it.
ArrivalWakes == \A r \in Receivers : At(r, "asleep") /\ ir # {} ~> ~At(r, "asleep")

-----------------------------------------------------------------------------
(* The abstract socket that one receiver sees                              *)

\* The datagrams of which bytes are still to be returned, among them an empty one
\* whose header has just been read.
Waiting(g) == \/ End(g) > rd
              \/ \E r \in Receivers : At(r, "payload") /\ remained = 0 /\ End(g) = rd

Abstract(g) ==
    LET begin == g.pos + Header
    IN  [from |-> g.from, begun |-> rd > begin,
         left |-> IF rd > begin THEN End(g) - rd ELSE g.size]

\* Datagrams are read in the order in which they lie in the buffer, so that those
\* still waiting follow the others.
Read  == Cardinality({i \in 1 .. Len(grams) : ~Waiting(grams[i])})
Queue == [i \in 1 .. Len(grams) - Read |-> Abstract(grams[Read + i])]

Datagrams == INSTANCE DatagramQueue WITH queue <- Queue, out <- returned

\* recvfrom() returns datagrams in the order they came in: no byte of one is lost,
\* returned twice or taken for the header of the next, whatever the lengths of
\* the buffers, and no call returns bytes of two.
ImplementsQueue == Datagrams!Spec
=============================================================================
