------------------------------ MODULE RecvPath ------------------------------
(***************************************************************************)
(* How a byte that the W5500 has received reaches the thread that called   *)
(* recv() on a TCP socket: the interrupt task of RyanW5500.c, the TCP      *)
(* branch of wiz_recvfrom with wizchip_recv, and the two callbacks they    *)
(* communicate through.                                                    *)
(*                                                                         *)
(* Every read of a chip register whose value is used is a step of its own, *)
(* because the chip goes on receiving between two bus transactions; so is  *)
(* every call of the kernel and every change of a poll counter.  Commands  *)
(* to the chip (wizchip_close, Sn_CR_RECV) take effect in the step that    *)
(* gives them.  Bytes are counted, not told apart.                         *)
(***************************************************************************)
EXTENDS Integers, FiniteSets

CONSTANTS Receivers,  \* threads that call recv() on the socket
          Lens,       \* buffer lengths they pass
          RxMax,      \* size of the receive buffer, Sn_RXBUF_SIZE
          MaxSent,    \* bound: bytes the peer sends
          Env         \* a subset of Behaviours

Behaviours == {"reset",           \* the peer may reset the connection
               "connectPending",  \* Sn_IR_CON may still have to be handled
               "recvTimeout"}     \* SO_RCVTIMEO is set

ASSUME RecvAssumption ==
    /\ Lens \subseteq Nat \ {0}
    /\ RxMax \in Nat \ {0}
    /\ MaxSent \in Nat
    /\ Env \subseteq Behaviours
    /\ IsFiniteSet(Receivers)

VARIABLES sr, rx, ir,          \* Sn_SR, Sn_RX_RSR, Sn_IR
          event,               \* the socket's bit of W5500EventHandle
          closed,              \* sock->state = RyanW5500SocketClose
          rcvevent, errevent,  \* the poll counters, errevent only as "not 0"
          lock,                \* who holds sock->recvLock: {} or {r}
          task,                \* wizIntDataTask: where it is, and its sn_ir
          rcv,                 \* the receivers: pc, buffer length, recvsize, ...
          sent, got            \* bytes the peer has sent, and recv() returned

chip   == <<sr, rx, ir>>
sock   == <<event, closed, rcvevent, errevent>>
vars   == <<chip, sock, lock, task, rcv, sent, got>>

Results == {"none", "data", "end", "error"}    \* > 0, 0, -1

PCs == {"idle", "again", "peek", "take", "loop", "size", "status", "spin", "copy",
        "wait", "asleep", "woken", "recheck", "exit", "drained", "clean"}

Idle == [pc |-> "idle", len |-> 0, size |-> 0, final |-> FALSE, res |-> "none"]

Least(m, n) == IF m < n THEN m ELSE n

Goto(r, pc)      == rcv' = [rcv EXCEPT ![r].pc = pc]
Return(r, res)   == rcv' = [rcv EXCEPT ![r].pc = "exit", ![r].res = res]
At(r, pc)        == rcv[r].pc = pc

-----------------------------------------------------------------------------
(* wiz_recvfrom, TCP                                                       *)

Call(r) ==
    /\ At(r, "idle")
    /\ \E n \in Lens :
         rcv' = [rcv EXCEPT ![r] = [Idle EXCEPT !.pc = "again", !.len = n]]
    /\ UNCHANGED <<chip, sock, lock, task, sent, got>>

\* again: the time that is left, then Sn_SR.
Again(r) ==
    /\ At(r, "again")
    /\ \/ "recvTimeout" \in Env /\ Return(r, "error")    \* EAGAIN
       \/ sr # "ESTABLISHED" /\ Return(r, "error")       \* ENOTCONN
       \/ sr = "ESTABLISHED" /\ Goto(r, "peek")
    /\ UNCHANGED <<chip, sock, lock, task, sent, got>>

\* Read first what has already been received.
Peek(r) ==
    /\ At(r, "peek")
    /\ IF rx > 0 THEN rcv' = [rcv EXCEPT ![r].pc = "take", ![r].final = FALSE]
                 ELSE Goto(r, "wait")
    /\ UNCHANGED <<chip, sock, lock, task, sent, got>>

\* rt_event_recv with RT_EVENT_FLAG_CLEAR.
Wait(r) ==
    /\ At(r, "wait")
    /\ IF event THEN event' = FALSE /\ Goto(r, "woken")
                ELSE Goto(r, "asleep") /\ UNCHANGED event
    /\ UNCHANGED <<chip, closed, rcvevent, errevent, lock, task, sent, got>>

TimeOut(r) ==
    /\ "recvTimeout" \in Env
    /\ At(r, "asleep")
    /\ Return(r, "error")    \* EAGAIN
    /\ UNCHANGED <<chip, sock, lock, task, sent, got>>

Woken(r) ==
    /\ At(r, "woken")
    /\ IF closed THEN Return(r, "end") ELSE Goto(r, "recheck")
    /\ UNCHANGED <<chip, sock, lock, task, sent, got>>

\* Mutant of Recheck: a wake-up without data is taken for the end.
RecheckOnce(r) ==
    /\ At(r, "recheck")
    /\ IF rx = 0 THEN Return(r, "end")
                 ELSE rcv' = [rcv EXCEPT ![r].pc = "take", ![r].final = TRUE]
    /\ UNCHANGED <<chip, sock, lock, task, sent, got>>

Recheck(r) ==
    /\ At(r, "recheck")
    /\ IF rx = 0 THEN Goto(r, "again")
                 ELSE rcv' = [rcv EXCEPT ![r].pc = "take", ![r].final = TRUE]
    /\ UNCHANGED <<chip, sock, lock, task, sent, got>>

Take(r) ==
    /\ At(r, "take")
    /\ lock = {}
    /\ lock' = {r}
    /\ rcv' = [rcv EXCEPT ![r].pc = "loop", ![r].size = RxMax]
    /\ UNCHANGED <<chip, sock, task, sent, got>>

\* __exit: one poll event less and, once the buffer is empty, none at all; or an
\* error event.
Exit(r) ==
    /\ At(r, "exit")
    /\ IF rcv[r].res = "data"
       THEN /\ rcvevent' = IF rcvevent > 0 THEN rcvevent - 1 ELSE 0
            /\ Goto(r, "drained")
            /\ UNCHANGED errevent
       ELSE /\ errevent' = TRUE
            /\ Goto(r, "idle")
            /\ UNCHANGED rcvevent
    /\ UNCHANGED <<chip, event, closed, lock, task, sent, got>>

Drained(r) ==
    /\ At(r, "drained")
    /\ Goto(r, IF rx = 0 THEN "clean" ELSE "idle")
    /\ UNCHANGED <<chip, sock, lock, task, sent, got>>

Clean(r) ==
    /\ At(r, "clean")
    /\ rcvevent' = 0
    /\ Goto(r, "idle")
    /\ UNCHANGED <<chip, event, closed, errevent, lock, task, sent, got>>

-----------------------------------------------------------------------------
(* wizchip_recv, which holds recvLock                                      *)

\* What wiz_recvfrom does with the value: its first call ignores an error and
\* waits, its second reports SOCKERR_SOCKCLOSED as the end of the stream.
Result(r, res) ==
    /\ lock' = {}
    /\ IF res = "data" \/ rcv[r].final THEN Return(r, res) ELSE Goto(r, "wait")

\* The loop's condition: a closed socket leaves the loop, with recvsize as it is.
Loop(r) ==
    /\ At(r, "loop")
    /\ Goto(r, IF sr = "CLOSED" THEN "copy" ELSE "size")
    /\ UNCHANGED <<chip, sock, lock, task, sent, got>>

Size(r) ==
    /\ At(r, "size")
    /\ rcv' = [rcv EXCEPT ![r].pc = "status", ![r].size = rx]
    /\ UNCHANGED <<chip, sock, lock, task, sent, got>>

\* Nothing received: go on while the connection lasts, or in SOCK_CLOSE_WAIT
\* while something is still to be sent; otherwise wizchip_close.
Status(r) ==
    /\ At(r, "status")
    /\ \/ /\ sr # "CLOSED" /\ rcv[r].size > 0
          /\ Goto(r, "copy")
          /\ UNCHANGED <<chip, lock>>
       \/ /\ sr # "CLOSED" /\ rcv[r].size = 0
          /\ Goto(r, "spin")
          /\ UNCHANGED <<chip, lock>>
       \/ /\ sr # "ESTABLISHED" /\ (sr = "CLOSED" \/ rcv[r].size = 0)
          /\ sr' = "CLOSED" /\ ir' = {}
          /\ Result(r, "error")    \* SOCKERR_SOCKSTATUS
          /\ UNCHANGED rx
    /\ UNCHANGED <<sock, task, sent, got>>

\* delay(2): once more, or SOCKERR_SOCKCLOSED after 1000 rounds.
Spin(r) ==
    /\ At(r, "spin")
    /\ \/ Goto(r, "loop") /\ UNCHANGED lock
       \/ Result(r, "end")
    /\ UNCHANGED <<chip, sock, task, sent, got>>

\* Mutant of Copy: the whole buffer is acknowledged to the chip.
CopyAll(r) ==
    LET n == Least(rcv[r].len, rcv[r].size)
    IN  /\ At(r, "copy")
        /\ rx' = rx - Least(rcv[r].size, rx)
        /\ got' = got + n
        /\ Result(r, IF n > 0 THEN "data" ELSE "end")
        /\ UNCHANGED <<sr, ir, sock, task, sent>>

\* wiz_recv_data and Sn_CR_RECV: the buffer's bytes, or whatever lies behind them.
Copy(r) ==
    LET n == Least(rcv[r].len, rcv[r].size)
    IN  /\ At(r, "copy")
        /\ rx' = rx - Least(n, rx)
        /\ got' = got + n
        /\ Result(r, IF n > 0 THEN "data" ELSE "end")
        /\ UNCHANGED <<sr, ir, sock, task, sent>>

-----------------------------------------------------------------------------
(* wizIntDataTask                                                          *)

\* rt_event_send: a bit that threads are waiting for wakes them and is cleared.
EventSend ==
    LET sleepers == {r \in Receivers : At(r, "asleep")}
    IN  /\ event' = (sleepers = {})
        /\ rcv' = [r \in Receivers |->
                     IF r \in sleepers THEN [rcv[r] EXCEPT !.pc = "woken"] ELSE rcv[r]]

\* The task wakes on the interrupt pin or after a second.
ReadIR ==
    /\ task.pc = "idle"
    /\ ir # {}
    /\ task' = [pc |-> "clear", ir |-> ir]
    /\ UNCHANGED <<chip, sock, lock, rcv, sent, got>>

\* setSn_IR(socket, RyanW5500SnIMR)
ClearIR ==
    /\ task.pc = "clear"
    /\ ir' = {}
    /\ task' = [task EXCEPT !.pc = IF "RECV" \in task.ir THEN "recv" ELSE "discon"]
    /\ UNCHANGED <<sr, rx, sock, lock, rcv, sent, got>>

\* RyanW5500RecvDataCallback
RecvDataCallback ==
    \/ /\ task.pc = "recv"
       /\ EventSend
       /\ task' = [task EXCEPT !.pc = "count"]
       /\ UNCHANGED <<chip, closed, rcvevent, errevent, lock, sent, got>>
    \/ /\ task.pc = "count"
       /\ rcvevent' = rcvevent + 1
       /\ task' = [task EXCEPT !.pc = "discon"]
       /\ UNCHANGED <<chip, event, closed, errevent, lock, rcv, sent, got>>

\* Mutant of CloseCallback: the waiting threads are not told.
CloseCallbackSilent ==
    /\ task.pc = "discon"
    /\ IF "DISCON" \in task.ir
       THEN closed' = TRUE /\ errevent' = TRUE /\ rcvevent' = rcvevent + 1
       ELSE UNCHANGED <<closed, errevent, rcvevent>>
    /\ task' = [pc |-> "idle", ir |-> {}]
    /\ UNCHANGED <<chip, event, lock, rcv, sent, got>>

\* RyanW5500CloseCallback
CloseCallback ==
    \/ /\ task.pc = "discon"
       /\ IF "DISCON" \in task.ir
          THEN /\ closed' = TRUE /\ errevent' = TRUE /\ rcvevent' = rcvevent + 1
               /\ task' = [task EXCEPT !.pc = "signal"]
          ELSE /\ task' = [pc |-> "idle", ir |-> {}]
               /\ UNCHANGED <<closed, errevent, rcvevent>>
       /\ UNCHANGED <<chip, event, lock, rcv, sent, got>>
    \/ /\ task.pc = "signal"
       /\ EventSend
       /\ task' = [pc |-> "idle", ir |-> {}]
       /\ UNCHANGED <<chip, closed, rcvevent, errevent, lock, sent, got>>

-----------------------------------------------------------------------------
(* The chip and the peer                                                   *)

PeerSend ==
    /\ sr = "ESTABLISHED"
    /\ \E n \in 1 .. Least(MaxSent - sent, RxMax - rx) :
         /\ rx' = rx + n
         /\ sent' = sent + n
    /\ ir' = ir \cup {"RECV"}
    /\ UNCHANGED <<sr, sock, lock, task, rcv, got>>

PeerFin ==
    /\ sr = "ESTABLISHED"
    /\ sr' = "CLOSE_WAIT"
    /\ ir' = ir \cup {"DISCON"}
    /\ UNCHANGED <<rx, sock, lock, task, rcv, sent, got>>

PeerReset ==
    /\ "reset" \in Env
    /\ sr # "CLOSED"
    /\ sr' = "CLOSED"
    /\ ir' = ir \cup {"DISCON"}
    /\ UNCHANGED <<rx, sock, lock, task, rcv, sent, got>>

-----------------------------------------------------------------------------
Init ==
    /\ sr = "ESTABLISHED" /\ rx = 0
    /\ ir \in {{}} \cup (IF "connectPending" \in Env THEN {{"CON"}} ELSE {})
    /\ event = FALSE /\ closed = FALSE /\ rcvevent = 0 /\ errevent = FALSE
    /\ lock = {}
    /\ task = [pc |-> "idle", ir |-> {}]
    /\ rcv = [r \in Receivers |-> Idle]
    /\ sent = 0 /\ got = 0

Progress(r) == \/ Again(r) \/ Peek(r) \/ Wait(r) \/ Woken(r) \/ Recheck(r) \/ Take(r)
               \/ Loop(r) \/ Size(r) \/ Status(r) \/ Spin(r) \/ Copy(r)
               \/ Exit(r) \/ Drained(r) \/ Clean(r)
IntData     == ReadIR \/ ClearIR \/ RecvDataCallback \/ CloseCallback
Peer        == PeerSend \/ PeerFin \/ PeerReset

Next == \/ \E r \in Receivers : Call(r) \/ Progress(r) \/ TimeOut(r)
        \/ IntData
        \/ Peer

Spec == Init /\ [][Next]_vars

\* The threads and the interrupt task are scheduled; nothing obliges the peer to
\* send, the application to call, or a timeout to end a wait.
FairSpec == Spec /\ WF_vars(IntData) /\ \A r \in Receivers : WF_vars(Progress(r))

-----------------------------------------------------------------------------
(* Properties                                                              *)

\* Type invariant of the receive path.
TypeOK ==
    /\ sr \in {"ESTABLISHED", "CLOSE_WAIT", "CLOSED"}
    /\ rx \in 0 .. RxMax
    /\ ir \subseteq {"CON", "RECV", "DISCON"}
    /\ event \in BOOLEAN /\ closed \in BOOLEAN /\ errevent \in BOOLEAN
    /\ rcvevent \in Nat
    /\ lock \subseteq Receivers
    /\ task \in [pc : {"idle", "clear", "recv", "count", "discon", "signal"},
                 ir : SUBSET {"CON", "RECV", "DISCON"}]
    /\ rcv \in [Receivers -> [pc : PCs, len : Nat, size : 0 .. RxMax,
                              final : BOOLEAN, res : Results]]
    /\ sent \in 0 .. MaxSent
    /\ got \in Nat

\* As long as the hardware socket is open, what recv() returned and what still
\* is in the buffer is what the peer sent: no byte is returned twice, lost or
\* made up, however many threads receive.
BytesConserved == sr # "CLOSED" => sent = got + rx

\* A thread about to copy works on bytes that are still there: nobody has taken
\* them since it looked at Sn_RX_RSR.
CopyIsBacked == \A r \in Receivers : At(r, "copy") /\ sr # "CLOSED" => rcv[r].size <= rx

\* recv() reports the end of the stream only when the peer has ended it.
EndIsTrue == \A r \in Receivers : rcv[r].res = "end" => sr # "ESTABLISHED"

\* A thread that waits in recv() is woken when a byte or the end of the stream
\* arrives.
ReceiverWoken ==
    \A r \in Receivers :
      (At(r, "asleep") /\ (rx > 0 \/ sr # "ESTABLISHED")) ~> ~At(r, "asleep")
=============================================================================
