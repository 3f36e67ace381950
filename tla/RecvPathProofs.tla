--------------------------- MODULE RecvPathProofs ---------------------------
(***************************************************************************)
(* For any number of threads that receive on one socket, any buffer        *)
(* lengths and any sizes: the receive path keeps its types, at most one    *)
(* thread is inside wizchip_recv, what it copies is in the buffer, and the *)
(* bytes returned and those still buffered are the bytes sent.             *)
(***************************************************************************)
EXTENDS MCRecvPath, TLAPS

Busy   == {"loop", "size", "status", "spin", "copy"}    \* inside wizchip_recv
Looked == {"status", "spin", "copy"}                    \* size has been read

LockHeld == \A r \in Receivers : rcv[r].pc \in Busy => lock = {r}

SizeBacked ==
    \A r \in Receivers : rcv[r].pc \in Looked /\ sr # "CLOSED" => rcv[r].size <= rx

\* The invariant in two parts: the threads, and the rest of the state.
RcvType == [pc : PCs, len : Nat, size : 0 .. RxMax, final : BOOLEAN, res : Results]

ThreadsOK == /\ rcv \in [Receivers -> RcvType] /\ lock \subseteq Receivers
             /\ LockHeld /\ SizeBacked /\ BytesConserved

TaskType == [pc : {"idle", "clear", "recv", "count", "discon", "signal"},
             ir : SUBSET {"CON", "RECV", "DISCON"}]

RestOK == /\ sr \in {"ESTABLISHED", "CLOSE_WAIT", "CLOSED"}
          /\ rx \in 0 .. RxMax
          /\ ir \subseteq {"CON", "RECV", "DISCON"}
          /\ event \in BOOLEAN /\ closed \in BOOLEAN /\ errevent \in BOOLEAN
          /\ rcvevent \in Nat
          /\ task \in TaskType
          /\ sent \in 0 .. MaxSent
          /\ got \in Nat

RecvInv == ThreadsOK /\ RestOK

-----------------------------------------------------------------------------
LEMMA IdleType == Idle \in RcvType
    BY RecvAssumption DEF Idle, RcvType, PCs, Results

\* The initial states satisfy the invariant.
LEMMA RecvInit == Init => RecvInv
<1> SUFFICES ASSUME Init PROVE RecvInv
    OBVIOUS
<1> USE RecvAssumption
<1>1. Idle \in RcvType
    BY IdleType
<1>2. LockHeld /\ SizeBacked
    BY DEF Init, LockHeld, SizeBacked, Busy, Looked, Idle
<1>3. ThreadsOK
    BY <1>1, <1>2 DEF Init, ThreadsOK, BytesConserved
<1>4. ir \subseteq {"CON", "RECV", "DISCON"}
    BY DEF Init
<1>5. rx \in 0 .. RxMax /\ sent \in 0 .. MaxSent /\ rcvevent \in Nat /\ got \in Nat
    BY DEF Init
<1> QED
    BY <1>3, <1>4, <1>5 DEF Init, RecvInv, RestOK, TaskType

\* A thread moves to a place where it neither holds the lock nor copies.
LEMMA MoveKeeps ==
    ASSUME RecvInv, NEW r \in Receivers, NEW e \in RcvType,
           e.pc \notin Busy \cup Looked,
           rcv' = [rcv EXCEPT ![r] = e],
           lock' = lock \/ (lock' = {} /\ lock = {r}),
           sr' = sr \/ sr' = "CLOSED", rx' = rx, sent' = sent, got' = got
    PROVE  ThreadsOK'
<1>1. rcv \in [Receivers -> RcvType] /\ lock \subseteq Receivers
    BY DEF RecvInv, ThreadsOK, RestOK, RcvType
<1>2. rcv' \in [Receivers -> RcvType] /\ lock' \subseteq Receivers
    BY <1>1
<1>3. \A q \in Receivers : q # r => rcv'[q] = rcv[q]
    BY <1>1
<1>4. rcv'[r] = e
    BY <1>1
<1>5. LockHeld'
    BY <1>3, <1>4 DEF RecvInv, ThreadsOK, RestOK, LockHeld, Busy
<1>6. SizeBacked'
    BY <1>3, <1>4 DEF RecvInv, ThreadsOK, RestOK, SizeBacked, Looked
<1>7. BytesConserved'
    BY DEF RecvInv, ThreadsOK, RestOK, BytesConserved
<1> QED
    BY <1>2, <1>5, <1>6, <1>7 DEF ThreadsOK

\* What the interrupt task does to the receivers changes only sleeping ones.
LEMMA EventSendKeeps ==
    ASSUME RecvInv, EventSend, UNCHANGED <<lock, sr, rx, sent, got>>
    PROVE  ThreadsOK' /\ event' \in BOOLEAN
<1>1. rcv \in [Receivers -> RcvType]
    BY DEF RecvInv, ThreadsOK, RestOK, RcvType
<1>2. \A q \in Receivers :
        \/ rcv'[q] = rcv[q]
        \/ rcv[q].pc = "asleep" /\ rcv'[q] = [rcv[q] EXCEPT !.pc = "woken"]
    BY DEF EventSend, At
<1>3. \A q \in Receivers : [rcv[q] EXCEPT !.pc = "woken"] \in RcvType
    BY <1>1 DEF RcvType, PCs
<1>4. rcv' \in [Receivers -> RcvType]
  <2>1. \A q \in Receivers : rcv'[q] \in RcvType
      BY <1>1, <1>2, <1>3
  <2>2. rcv' = [q \in Receivers |-> rcv'[q]]
      BY DEF EventSend
  <2> QED
      BY <2>1, <2>2
<1>5. \A q \in Receivers : [rcv[q] EXCEPT !.pc = "woken"].pc = "woken"
    BY <1>1 DEF RcvType
<1>6. LockHeld'
    BY <1>2, <1>5 DEF RecvInv, ThreadsOK, RestOK, LockHeld, Busy
<1>7. SizeBacked'
    BY <1>2, <1>5 DEF RecvInv, ThreadsOK, RestOK, SizeBacked, Looked
<1>8. BytesConserved' /\ event' \in BOOLEAN
    BY DEF RecvInv, ThreadsOK, RestOK, BytesConserved, EventSend
<1>9. lock' \subseteq Receivers
    BY DEF RecvInv, ThreadsOK, RestOK
<1> QED
    BY <1>4, <1>6, <1>7, <1>8, <1>9 DEF ThreadsOK

-----------------------------------------------------------------------------
\* The records the steps of a thread write are receiver records.
LEMMA MovedType ==
    ASSUME RecvInv, NEW r \in Receivers, NEW p \in PCs
    PROVE  /\ rcv[r] \in RcvType
           /\ [rcv[r] EXCEPT !.pc = p] \in RcvType
           /\ \A x \in Results : [rcv[r] EXCEPT !.pc = p, !.res = x] \in RcvType
           /\ \A k \in 0 .. RxMax : [rcv[r] EXCEPT !.pc = p, !.size = k] \in RcvType
           /\ \A f \in BOOLEAN : [rcv[r] EXCEPT !.pc = p, !.final = f] \in RcvType
<1>1. rcv[r] \in RcvType
    BY DEF RecvInv, ThreadsOK, RestOK, RcvType
<1> QED
    BY <1>1 DEF RcvType

\* Goto to a place outside wizchip_recv.
LEMMA GotoKeeps ==
    ASSUME RecvInv, NEW r \in Receivers, NEW p \in PCs, p \notin Busy \cup Looked,
           Goto(r, p),
           lock' = lock \/ (lock' = {} /\ lock = {r}),
           sr' = sr \/ sr' = "CLOSED", rx' = rx, sent' = sent, got' = got
    PROVE  ThreadsOK'
<1> DEFINE e == [rcv[r] EXCEPT !.pc = p]
<1>2. e \in RcvType /\ rcv[r] \in RcvType
    BY MovedType
<1>3. e.pc = p
    BY <1>2 DEF RcvType
<1>4. rcv' = [rcv EXCEPT ![r] = e]
    BY DEF Goto
<1> HIDE DEF e
<1> QED
    BY <1>2, <1>3, <1>4, MoveKeeps

\* Return goes to the common exit of wiz_recvfrom.
LEMMA ReturnKeeps ==
    ASSUME RecvInv, NEW r \in Receivers, NEW x \in Results, Return(r, x),
           lock' = lock \/ (lock' = {} /\ lock = {r}),
           sr' = sr \/ sr' = "CLOSED", rx' = rx, sent' = sent, got' = got
    PROVE  ThreadsOK'
<1> DEFINE e == [rcv[r] EXCEPT !.pc = "exit", !.res = x]
<1>1. "exit" \in PCs
    BY DEF PCs
<1>2. e \in RcvType /\ rcv[r] \in RcvType
    BY <1>1, MovedType
<1>3. e.pc = "exit"
    BY <1>2 DEF RcvType
<1>4. "exit" \notin Busy \cup Looked
    BY DEF Busy, Looked
<1>5. rcv' = [rcv EXCEPT ![r] = e]
    BY DEF Return
<1> HIDE DEF e
<1> QED
    BY <1>2, <1>3, <1>4, <1>5, MoveKeeps

\* Result releases recvLock and leaves wizchip_recv.
LEMMA ResultKeeps ==
    ASSUME RecvInv, NEW r \in Receivers, NEW x \in Results, Result(r, x),
           rcv[r].pc \in Busy,
           sr' = sr \/ sr' = "CLOSED", rx' = rx, sent' = sent, got' = got
    PROVE  ThreadsOK'
<1>1. lock = {r} /\ lock' = {}
    BY DEF RecvInv, ThreadsOK, RestOK, LockHeld, Result
<1>2. "wait" \in PCs /\ "wait" \notin Busy \cup Looked
    BY DEF PCs, Busy, Looked
<1>3. CASE Return(r, x)
    BY <1>1, <1>3, ReturnKeeps
<1>4. CASE Goto(r, "wait")
    BY <1>1, <1>2, <1>4, GotoKeeps
<1> QED
    BY <1>3, <1>4 DEF Result

-----------------------------------------------------------------------------
\* wiz_recvfrom outside wizchip_recv.
LEMMA OutsideKeeps ==
    ASSUME RecvInv, NEW r \in Receivers,
           \/ Call(r) \/ Again(r) \/ Wait(r) \/ TimeOut(r) \/ Woken(r)
           \/ Exit(r) \/ Drained(r) \/ Clean(r)
    PROVE  RecvInv'
<1>1. RestOK' /\ lock' = lock /\ sr' = sr /\ rx' = rx /\ sent' = sent /\ got' = got
  <2> USE DEF RecvInv, RestOK, chip, sock
  <2>1. CASE Call(r)
      BY <2>1 DEF Call
  <2>2. CASE Again(r)
      BY <2>2 DEF Again
  <2>3. CASE Wait(r)
      BY <2>3 DEF Wait
  <2>4. CASE TimeOut(r)
      BY <2>4 DEF TimeOut
  <2>5. CASE Woken(r)
      BY <2>5 DEF Woken
  <2>6. CASE Exit(r)
    <3>1. rcvevent' \in Nat
        BY <2>6 DEF Exit
    <3>2. errevent' \in BOOLEAN
        BY <2>6 DEF Exit
    <3> QED
        BY <2>6, <3>1, <3>2 DEF Exit
  <2>7. CASE Drained(r)
      BY <2>7 DEF Drained
  <2>8. CASE Clean(r)
      BY <2>8 DEF Clean
  <2> QED
      BY <2>1, <2>2, <2>3, <2>4, <2>5, <2>6, <2>7, <2>8
<1>2. "end" \in Results /\ "error" \in Results
    BY DEF Results
<1>3. \A p \in {"idle", "peek", "wait", "again", "asleep", "woken", "recheck",
                "drained", "clean"} : p \in PCs /\ p \notin Busy \cup Looked
    BY DEF PCs, Busy, Looked
<1>4. ThreadsOK'
  <2>1. CASE Call(r)
    <3>1. PICK n \in Lens :
            rcv' = [rcv EXCEPT ![r] = [Idle EXCEPT !.pc = "again", !.len = n]]
        BY <2>1 DEF Call
    <3>2. [Idle EXCEPT !.pc = "again", !.len = n] \in RcvType
      <4>1. n \in Nat /\ "again" \in PCs
          BY RecvAssumption DEF PCs
      <4> QED
          BY <4>1, IdleType DEF RcvType
    <3>3. [Idle EXCEPT !.pc = "again", !.len = n].pc \notin Busy \cup Looked
        BY DEF Idle, Busy, Looked
    <3> QED
        BY <1>1, <3>1, <3>2, <3>3, MoveKeeps
  <2>2. CASE Return(r, "error")
      BY <1>1, <1>2, <2>2, ReturnKeeps
  <2>3. CASE Return(r, "end")
      BY <1>1, <1>2, <2>3, ReturnKeeps
  <2>4. ASSUME NEW p \in {"idle", "peek", "wait", "again", "asleep", "woken", "recheck",
                          "drained", "clean"}, Goto(r, p)
        PROVE  ThreadsOK'
      BY <1>1, <1>3, <2>4, GotoKeeps
  <2>5. CASE Again(r) \/ TimeOut(r)
      BY <2>5, <2>2, <2>4 DEF Again, TimeOut
  <2>6. CASE Wait(r)
      BY <2>6, <2>4 DEF Wait
  <2>7. CASE Woken(r)
      BY <2>7, <2>3, <2>4 DEF Woken
  <2>8. CASE Exit(r) \/ Clean(r)
      BY <2>8, <2>4 DEF Exit, Clean
  <2>9. CASE Drained(r)
    <3>1. CASE rx = 0
        BY <2>9, <3>1, <2>4 DEF Drained
    <3>2. CASE rx # 0
        BY <2>9, <3>2, <2>4 DEF Drained
    <3> QED
        BY <3>1, <3>2
  <2> QED
      BY <2>1, <2>5, <2>6, <2>7, <2>8, <2>9
<1> QED
    BY <1>1, <1>4 DEF RecvInv

\* The way into wizchip_recv: the buffer is looked at, and the lock taken.
LEMMA EnterKeeps ==
    ASSUME RecvInv, NEW r \in Receivers, Peek(r) \/ Recheck(r) \/ Take(r)
    PROVE  RecvInv'
<1>1. RestOK' /\ sr' = sr /\ rx' = rx /\ sent' = sent /\ got' = got
    BY DEF RecvInv, RestOK, chip, sock, Peek, Recheck, Take
<1>2. /\ "take" \in PCs /\ "take" \notin Busy \cup Looked
      /\ \A p \in {"wait", "again"} : p \in PCs /\ p \notin Busy \cup Looked
    BY DEF PCs, Busy, Looked
<1>3. ASSUME NEW f \in BOOLEAN, lock' = lock,
             rcv' = [rcv EXCEPT ![r].pc = "take", ![r].final = f]
      PROVE  ThreadsOK'
  <2> DEFINE e == [rcv[r] EXCEPT !.pc = "take", !.final = f]
  <2>1. e \in RcvType /\ rcv[r] \in RcvType
      BY <1>2, MovedType
  <2>2. e.pc = "take"
      BY <2>1 DEF RcvType
  <2>3. rcv' = [rcv EXCEPT ![r] = e]
      BY <1>3
  <2> HIDE DEF e
  <2> QED
      BY <1>1, <1>2, <1>3, <2>1, <2>2, <2>3, MoveKeeps
<1>4. ASSUME NEW p \in {"wait", "again"}, Goto(r, p), lock' = lock
      PROVE  ThreadsOK'
    BY <1>1, <1>2, <1>4, GotoKeeps
<1>5. Peek(r) \/ Recheck(r) => lock' = lock
    BY DEF Peek, Recheck
<1>6. CASE Peek(r)
  <2>1. CASE rx > 0
      BY <1>1, <1>3, <1>5, <1>6, <2>1 DEF RecvInv, Peek
  <2>2. CASE ~(rx > 0)
      BY <1>1, <1>4, <1>5, <1>6, <2>2 DEF RecvInv, Peek
  <2> QED
      BY <1>1, <2>1, <2>2 DEF RecvInv
<1>7. CASE Recheck(r)
  <2>1. CASE rx = 0
      BY <1>1, <1>4, <1>5, <1>7, <2>1 DEF RecvInv, Recheck
  <2>2. CASE rx # 0
      BY <1>1, <1>3, <1>5, <1>7, <2>2 DEF RecvInv, Recheck
  <2> QED
      BY <1>1, <2>1, <2>2 DEF RecvInv
<1>8. CASE Take(r)
  <2> DEFINE e == [rcv[r] EXCEPT !.pc = "loop", !.size = RxMax]
  <2>1. "loop" \in PCs /\ RxMax \in 0 .. RxMax
      BY RecvAssumption DEF PCs
  <2>2. e \in RcvType /\ rcv[r] \in RcvType /\ rcv \in [Receivers -> RcvType]
      BY <2>1, MovedType DEF RecvInv, ThreadsOK
  <2>3. e.pc = "loop"
      BY <2>2 DEF RcvType
  <2>4. rcv' = [rcv EXCEPT ![r] = e] /\ lock = {} /\ lock' = {r}
      BY <1>8 DEF Take
  <2> HIDE DEF e
  <2>5. rcv' \in [Receivers -> RcvType] /\ lock' \subseteq Receivers
      BY <2>2, <2>4
  <2>6. rcv'[r].pc = "loop" /\ \A q \in Receivers : q # r => rcv'[q] = rcv[q]
      BY <2>2, <2>3, <2>4
  <2>7. LockHeld'
      BY <2>4, <2>6 DEF RecvInv, ThreadsOK, LockHeld, Busy
  <2>8. SizeBacked'
      BY <1>1, <2>6 DEF RecvInv, ThreadsOK, SizeBacked, Looked
  <2> QED
      BY <1>1, <2>5, <2>7, <2>8 DEF RecvInv, ThreadsOK, BytesConserved
<1> QED
    BY <1>6, <1>7, <1>8

\* A step of the thread that holds the lock, to another place under the lock.
LEMMA HolderKeeps ==
    ASSUME RecvInv, NEW r \in Receivers, NEW e \in RcvType,
           rcv[r].pc \in Busy, rcv' = [rcv EXCEPT ![r] = e],
           e.pc \in Looked /\ sr # "CLOSED" => e.size <= rx,
           UNCHANGED <<lock, sr, rx, sent, got>>
    PROVE  ThreadsOK'
<1>1. lock = {r} /\ rcv \in [Receivers -> RcvType]
    BY DEF RecvInv, ThreadsOK, LockHeld
<1>2. rcv' \in [Receivers -> RcvType] /\ rcv'[r] = e
    BY <1>1
<1>3. \A q \in Receivers : q # r => rcv'[q] = rcv[q]
    BY <1>1
<1>4. LockHeld'
    BY <1>1, <1>2, <1>3 DEF RecvInv, ThreadsOK, LockHeld
<1>5. SizeBacked'
    BY <1>2, <1>3 DEF RecvInv, ThreadsOK, SizeBacked
<1> QED
    BY <1>2, <1>4, <1>5 DEF RecvInv, ThreadsOK, BytesConserved

\* Goto between two places under the lock, with the recvsize of before.
LEMMA HolderGoto ==
    ASSUME RecvInv, NEW r \in Receivers, NEW p \in PCs, rcv[r].pc \in Busy, Goto(r, p),
           p \in Looked /\ sr # "CLOSED" => rcv[r].size <= rx,
           UNCHANGED <<lock, sr, rx, sent, got>>
    PROVE  ThreadsOK'
<1> DEFINE e == [rcv[r] EXCEPT !.pc = p]
<1>1. e \in RcvType /\ rcv[r] \in RcvType
    BY MovedType
<1>2. e.pc = p /\ e.size = rcv[r].size
    BY <1>1 DEF RcvType
<1>3. rcv' = [rcv EXCEPT ![r] = e]
    BY DEF Goto
<1> HIDE DEF e
<1> QED
    BY <1>1, <1>2, <1>3, HolderKeeps

\* wizchip_recv.
LEMMA InsideKeeps ==
    ASSUME RecvInv, NEW r \in Receivers,
           Loop(r) \/ Size(r) \/ Status(r) \/ Spin(r) \/ Copy(r)
    PROVE  RecvInv'
<1>1. rcv[r].pc \in Busy /\ rcv[r] \in RcvType /\ rx \in 0 .. RxMax
    BY DEF RecvInv, ThreadsOK, RestOK, Loop, Size, Status, Spin, Copy, At, Busy
<1>2. /\ "end" \in Results /\ "error" \in Results /\ "data" \in Results
      /\ {"size", "status", "spin", "copy", "loop"} \subseteq PCs
    BY DEF Results, PCs
<1>3. CASE Loop(r)
  <2>1. RestOK' /\ UNCHANGED <<lock, sr, rx, sent, got>>
      BY <1>3 DEF RecvInv, RestOK, Loop, chip, sock
  <2>2. CASE sr = "CLOSED"
      BY <1>1, <1>2, <1>3, <2>1, <2>2, HolderGoto DEF RecvInv, Loop
  <2>3. CASE sr # "CLOSED"
      BY <1>1, <1>2, <1>3, <2>1, <2>3, HolderGoto DEF RecvInv, Loop, Looked
  <2> QED
      BY <2>2, <2>3
<1>4. CASE Size(r)
  <2> DEFINE e == [rcv[r] EXCEPT !.pc = "status", !.size = rx]
  <2>1. RestOK' /\ UNCHANGED <<lock, sr, rx, sent, got>>
      BY <1>4 DEF RecvInv, RestOK, Size, chip, sock
  <2>2. e \in RcvType
      BY <1>1, <1>2, MovedType
  <2>3. e.size = rx
      BY <1>1 DEF RcvType
  <2>4. rcv' = [rcv EXCEPT ![r] = e]
      BY <1>4 DEF Size
  <2> HIDE DEF e
  <2>5. rx <= rx
      BY <1>1, RecvAssumption
  <2> QED
      BY <1>1, <2>1, <2>2, <2>3, <2>4, <2>5, HolderKeeps DEF RecvInv
<1>5. CASE Status(r)
  <2>1. RestOK' /\ rx' = rx /\ sent' = sent /\ got' = got
      BY <1>5 DEF RecvInv, RestOK, Status, chip, sock
  <2>2. rcv[r].pc \in Looked
      BY <1>5 DEF Status, At, Looked
  <2>3. sr # "CLOSED" => rcv[r].size <= rx
      BY <2>2 DEF RecvInv, ThreadsOK, SizeBacked
  <2>4. CASE Result(r, "error") /\ sr' = "CLOSED"
      BY <1>1, <1>2, <2>1, <2>4, ResultKeeps DEF RecvInv
  <2>5. CASE (Goto(r, "copy") \/ Goto(r, "spin")) /\ UNCHANGED <<chip, lock>>
      BY <1>1, <1>2, <2>1, <2>3, <2>5, HolderGoto DEF RecvInv, chip
  <2> QED
      BY <1>5, <2>4, <2>5 DEF Status
<1>6. CASE Spin(r)
  <2>1. RestOK' /\ sr' = sr /\ rx' = rx /\ sent' = sent /\ got' = got
      BY <1>6 DEF RecvInv, RestOK, Spin, chip, sock
  <2>2. CASE Goto(r, "loop") /\ UNCHANGED lock
      BY <1>1, <1>2, <2>1, <2>2, HolderGoto DEF RecvInv, Looked
  <2>3. CASE Result(r, "end")
      BY <1>1, <1>2, <2>1, <2>3, ResultKeeps DEF RecvInv
  <2> QED
      BY <1>6, <2>2, <2>3 DEF Spin
<1>7. CASE Copy(r)
  <2> DEFINE n == Least(rcv[r].len, rcv[r].size)
  <2>1. n \in Nat /\ n <= rcv[r].size /\ rcv[r].size \in Nat
      BY <1>1, RecvAssumption DEF Least, RcvType
  <2>2. PICK x \in Results : Result(r, x)
      BY <1>2, <1>7 DEF Copy
  <2>3. rx' = rx - Least(n, rx) /\ got' = got + n /\ sr' = sr /\ sent' = sent
      BY <1>7 DEF Copy
  <2>4. rcv[r].pc = "copy"
      BY <1>7 DEF Copy, At
  <2> HIDE DEF n
  <2>5. RestOK'
    <3>1. rx' \in 0 .. RxMax /\ got' \in Nat
        BY <1>1, <2>1, <2>3, RecvAssumption DEF RecvInv, RestOK, Least
    <3> QED
        BY <1>7, <3>1 DEF RecvInv, RestOK, Copy, sock
  <2>6. BytesConserved'
    <3>1. sr # "CLOSED" => rcv[r].size <= rx
        BY <2>4 DEF RecvInv, ThreadsOK, SizeBacked, Looked
    <3>2. sr # "CLOSED" => rx' = rx - n
        BY <1>1, <2>1, <2>3, <3>1, RecvAssumption DEF Least
    <3>3. sr # "CLOSED" => sent = got + rx /\ sent \in Nat /\ got \in Nat
        BY RecvAssumption DEF RecvInv, ThreadsOK, RestOK, BytesConserved
    <3> QED
        BY <1>1, <2>1, <2>3, <3>2, <3>3 DEF BytesConserved
  <2>7. lock = {r} /\ lock' = {}
      BY <1>1, <2>2 DEF RecvInv, ThreadsOK, LockHeld, Result
  <2>8. PICK e \in RcvType : rcv' = [rcv EXCEPT ![r] = e] /\ e.pc \notin Busy \cup Looked
    <3>1. "exit" \in PCs /\ "wait" \in PCs
        BY DEF PCs
    <3>2. CASE Return(r, x)
        <4>1. [rcv[r] EXCEPT !.pc = "exit", !.res = x] \in RcvType
            BY <3>1, MovedType
        <4>2. [rcv[r] EXCEPT !.pc = "exit", !.res = x].pc = "exit"
            BY <1>1 DEF RcvType
        <4> QED
            BY <3>2, <4>1, <4>2 DEF Return, Busy, Looked
    <3>3. CASE Goto(r, "wait")
        <4>1. [rcv[r] EXCEPT !.pc = "wait"] \in RcvType
            BY <3>1, MovedType
        <4>2. [rcv[r] EXCEPT !.pc = "wait"].pc = "wait"
            BY <1>1 DEF RcvType
        <4> QED
            BY <3>3, <4>1, <4>2 DEF Goto, Busy, Looked
    <3> QED
        BY <2>2, <3>2, <3>3 DEF Result
  <2>9. \A q \in Receivers : rcv'[q].pc \notin Busy \cup Looked
    <3>1. rcv \in [Receivers -> RcvType]
        BY DEF RecvInv, ThreadsOK
    <3>2. \A q \in Receivers : q # r => rcv[q].pc \notin Busy \cup Looked
        BY <2>7 DEF RecvInv, ThreadsOK, LockHeld, Busy, Looked
    <3> QED
        BY <2>8, <3>1, <3>2
  <2>10. rcv' \in [Receivers -> RcvType]
      BY <2>8 DEF RecvInv, ThreadsOK
  <2> QED
      BY <2>5, <2>6, <2>7, <2>9, <2>10 DEF RecvInv, ThreadsOK, LockHeld, SizeBacked
<1> QED
    BY <1>3, <1>4, <1>5, <1>6, <1>7

-----------------------------------------------------------------------------
\* wizIntDataTask.
LEMMA IntDataKeeps == ASSUME RecvInv, IntData PROVE RecvInv'
<1>1. UNCHANGED <<lock, sr, rx, sent, got>>
    BY DEF IntData, ReadIR, ClearIR, RecvDataCallback, CloseCallback, chip
<1>2. ThreadsOK' /\ event' \in BOOLEAN
  <2>1. CASE EventSend
      BY <1>1, <2>1, EventSendKeeps
  <2>2. CASE UNCHANGED <<rcv, event>>
      BY <1>1, <2>2 DEF RecvInv, ThreadsOK, RestOK, LockHeld, SizeBacked, BytesConserved
  <2> QED
      BY <2>1, <2>2 DEF IntData, ReadIR, ClearIR, RecvDataCallback, CloseCallback, sock
<1>3. task \in TaskType /\ ir \in SUBSET {"CON", "RECV", "DISCON"}
    BY DEF RecvInv, RestOK
<1>4. task' \in TaskType /\ ir' \subseteq {"CON", "RECV", "DISCON"}
  <2>1. CASE ReadIR
      BY <1>3, <2>1 DEF ReadIR, TaskType, chip
  <2>2. CASE ClearIR
      BY <1>3, <2>2 DEF ClearIR, TaskType
  <2>3. CASE RecvDataCallback
      BY <1>3, <2>3 DEF RecvDataCallback, TaskType, chip
  <2>4. CASE CloseCallback
      BY <1>3, <2>4 DEF CloseCallback, TaskType, chip
  <2> QED
      BY <2>1, <2>2, <2>3, <2>4 DEF IntData
<1>5. closed' \in BOOLEAN /\ errevent' \in BOOLEAN /\ rcvevent' \in Nat
  <2>1. CASE ReadIR \/ ClearIR
      BY <2>1 DEF RecvInv, RestOK, ReadIR, ClearIR, sock
  <2>2. CASE RecvDataCallback
    <3>1. UNCHANGED <<closed, errevent>>
        BY <2>2 DEF RecvDataCallback
    <3>2. rcvevent' = rcvevent \/ rcvevent' = rcvevent + 1
        BY <2>2 DEF RecvDataCallback
    <3> QED
        BY <3>1, <3>2 DEF RecvInv, RestOK
  <2>3. CASE CloseCallback
    <3>1. closed' \in {closed, TRUE} /\ errevent' \in {errevent, TRUE}
        BY <2>3 DEF CloseCallback
    <3>2. rcvevent' = rcvevent \/ rcvevent' = rcvevent + 1
        BY <2>3 DEF CloseCallback
    <3>3. closed \in BOOLEAN /\ errevent \in BOOLEAN /\ rcvevent \in Nat
        BY DEF RecvInv, RestOK
    <3>4. closed' \in BOOLEAN /\ errevent' \in BOOLEAN
        BY <3>1, <3>3, Zenon
    <3>5. rcvevent' \in Nat
        BY <3>2, <3>3
    <3> QED
        BY <3>4, <3>5
  <2> QED
      BY <2>1, <2>2, <2>3 DEF IntData
<1> QED
    BY <1>1, <1>2, <1>4, <1>5 DEF RecvInv, RestOK

\* The chip and the peer: the buffer only grows while the connection lasts.
LEMMA PeerKeeps == ASSUME RecvInv, Peer PROVE RecvInv'
<1>1. UNCHANGED <<rcv, lock, got, event, closed, rcvevent, errevent, task>>
    BY DEF Peer, PeerSend, PeerFin, PeerReset, sock
<1>2. CASE PeerSend
  <2>1. PICK n \in 1 .. Least(MaxSent - sent, RxMax - rx) : rx' = rx + n /\ sent' = sent + n
      BY <1>2 DEF PeerSend
  <2>2. rx' \in 0 .. RxMax /\ sent' \in 0 .. MaxSent /\ rx <= rx'
      BY <2>1, RecvAssumption DEF RecvInv, RestOK, Least
  <2>3. BytesConserved'
      BY <1>1, <1>2, <2>1, RecvAssumption
         DEF RecvInv, ThreadsOK, RestOK, BytesConserved, PeerSend
  <2>4. SizeBacked'
    <3>1. \A q \in Receivers : rcv[q].size \in Nat
        BY RecvAssumption DEF RecvInv, ThreadsOK, RcvType
    <3> QED
        BY <1>1, <1>2, <2>2, <3>1, RecvAssumption
           DEF RecvInv, ThreadsOK, RestOK, SizeBacked, PeerSend
  <2>5. RestOK'
      BY <1>1, <1>2, <2>2 DEF RecvInv, RestOK, PeerSend
  <2> QED
      BY <1>1, <2>3, <2>4, <2>5 DEF RecvInv, ThreadsOK, LockHeld
<1>3. CASE PeerFin \/ PeerReset
  <2>1. RestOK'
      BY <1>1, <1>3 DEF RecvInv, RestOK, PeerFin, PeerReset
  <2>2. rx' = rx /\ sent' = sent /\ (sr' # "CLOSED" => sr # "CLOSED")
      BY <1>3 DEF PeerFin, PeerReset
  <2> QED
      BY <1>1, <2>1, <2>2 DEF RecvInv, ThreadsOK, LockHeld, SizeBacked, BytesConserved
<1> QED
    BY <1>2, <1>3 DEF Peer

LEMMA RecvStep == RecvInv /\ [Next]_vars => RecvInv'
<1> SUFFICES ASSUME RecvInv, [Next]_vars PROVE RecvInv'
    OBVIOUS
<1>1. ASSUME NEW r \in Receivers, Call(r) \/ Progress(r) \/ TimeOut(r) PROVE RecvInv'
    BY <1>1, OutsideKeeps, EnterKeeps, InsideKeeps DEF Progress
<1>2. CASE IntData
    BY <1>2, IntDataKeeps
<1>3. CASE Peer
    BY <1>3, PeerKeeps
<1>4. CASE UNCHANGED vars
    BY <1>4 DEF vars, chip, sock, RecvInv, ThreadsOK, RestOK, LockHeld, SizeBacked,
                BytesConserved
<1> QED
    BY <1>1, <1>2, <1>3, <1>4 DEF Next

\* In every reachable state the receive path's invariant holds: one thread at
\* most is inside wizchip_recv, and its size is that of bytes still buffered.
THEOREM RecvInvariant == Spec => []RecvInv
<1> QED
    BY RecvInit, RecvStep, PTL DEF Spec

\* The state of the receive path keeps its types, whatever the threads, the
\* interrupt task and the peer do.
THEOREM RecvTypeCorrect == Spec => []TypeOK
<1>1. RecvInv => TypeOK
    BY DEF RecvInv, ThreadsOK, RestOK, TypeOK, RcvType, TaskType
<1> QED
    BY <1>1, RecvInvariant, PTL

\* recvLock is enough: while the hardware socket is open no byte is lost, made
\* up or returned twice, for any number of threads in recv().
THEOREM RecvConservesBytes == Spec => []BytesConserved
<1>1. RecvInv => BytesConserved
    BY DEF RecvInv, ThreadsOK
<1> QED
    BY <1>1, RecvInvariant, PTL

\* A thread copies only bytes nobody has taken since it looked.
THEOREM RecvCopiesBacked == Spec => []CopyIsBacked
<1>1. RecvInv => CopyIsBacked
    BY DEF RecvInv, ThreadsOK, SizeBacked, CopyIsBacked, Looked, At
<1> QED
    BY <1>1, RecvInvariant, PTL

-----------------------------------------------------------------------------
(* One thread in recv()                                                    *)

\* A connection whose end has been noticed, or is about to be, is not established.
EndNoticed ==
    closed \/ "DISCON" \in ir \/ "DISCON" \in task.ir => sr # "ESTABLISHED"

\* What a lone receiver has seen in the buffer nobody takes from it: from the first
\* look at Sn_RX_RSR to the copy there is something, so it never waits in
\* wizchip_recv, and never copies nothing.
OnItsOwn ==
    /\ rcv[First].pc \in {"take", "loop", "size"} => rx > 0
    /\ rcv[First].pc \in {"loop", "status", "copy"} => rcv[First].size > 0
    /\ rcv[First].pc # "spin"
    /\ rcv[First].pc # "idle" => rcv[First].len > 0
    /\ rcv[First].res = "end" => sr # "ESTABLISHED"

LoneInv ==
    /\ RecvInv /\ EndNoticed
    /\ users \in {Receivers, {First}}
    /\ Alone => OnItsOwn /\ \A r \in Receivers \ {First} : rcv[r].res = "none"

\* The end is noticed after the peer's FIN or reset, and a connection that has ended
\* is not established again.
LEMMA EndNoticedKeeps == ASSUME RecvInv, EndNoticed, Next PROVE EndNoticed'
<1>1. sr' = sr \/ sr' # "ESTABLISHED"
  <2>1. ASSUME NEW r \in Receivers, Call(r) \/ Progress(r) \/ TimeOut(r)
        PROVE  sr' = sr \/ sr' # "ESTABLISHED"
      BY <2>1 DEF Call, Progress, TimeOut, Again, Peek, Wait, Woken, Recheck, Take, Loop,
                  Size, Status, Spin, Copy, Exit, Drained, Clean, chip
  <2>2. CASE IntData
      BY <2>2 DEF IntData, ReadIR, ClearIR, RecvDataCallback, CloseCallback, chip
  <2>3. CASE Peer
      BY <2>3 DEF Peer, PeerSend, PeerFin, PeerReset
  <2> QED
      BY <2>1, <2>2, <2>3 DEF Next
<1>2. \/ sr' # "ESTABLISHED"
      \/ closed' \/ "DISCON" \in ir' \/ "DISCON" \in task'.ir
           => closed \/ "DISCON" \in ir \/ "DISCON" \in task.ir
  <2>1. ASSUME NEW r \in Receivers, Call(r) \/ Progress(r) \/ TimeOut(r)
        PROVE  UNCHANGED <<closed, task>> /\ ir' \subseteq ir
      BY <2>1 DEF Call, Progress, TimeOut, Again, Peek, Wait, Woken, Recheck, Take, Loop,
                  Size, Status, Spin, Copy, Exit, Drained, Clean, chip, sock
  <2>2. ASSUME IntData
        PROVE  closed' \/ "DISCON" \in ir' \/ "DISCON" \in task'.ir
                 => closed \/ "DISCON" \in ir \/ "DISCON" \in task.ir
    <3>1. task \in TaskType
        BY DEF RecvInv, RestOK
    <3>2. CASE ReadIR
        BY <3>2 DEF ReadIR, chip, sock
    <3>3. CASE ClearIR
        BY <3>1, <3>3 DEF ClearIR, sock, TaskType
    <3>4. CASE RecvDataCallback
        BY <3>1, <3>4 DEF RecvDataCallback, chip, TaskType
    <3>5. CASE CloseCallback
        BY <3>1, <3>5 DEF CloseCallback, chip, TaskType
    <3> QED
        BY <2>2, <3>2, <3>3, <3>4, <3>5 DEF IntData
  <2>3. CASE Peer
      BY <2>3 DEF Peer, PeerSend, PeerFin, PeerReset, sock
  <2> QED
      BY <2>1, <2>2, <2>3 DEF Next
<1> QED
    BY <1>1, <1>2 DEF EndNoticed

\* What a move of the lone thread leaves as it is.
LEMMA LoneMove ==
    ASSUME RecvInv, First \in Receivers
    PROVE  /\ \A p \in PCs : Goto(First, p) =>
                /\ rcv'[First].pc = p /\ rcv'[First].size = rcv[First].size
                /\ rcv'[First].len = rcv[First].len /\ rcv'[First].res = rcv[First].res
                /\ \A r \in Receivers \ {First} : rcv'[r] = rcv[r]
           /\ \A x \in Results : Return(First, x) =>
                /\ rcv'[First].pc = "exit" /\ rcv'[First].res = x
                /\ rcv'[First].len = rcv[First].len
                /\ \A r \in Receivers \ {First} : rcv'[r] = rcv[r]
<1>1. rcv \in [Receivers -> RcvType] /\ rcv[First] \in RcvType
    BY DEF RecvInv, ThreadsOK
<1>2. ASSUME NEW p \in PCs, Goto(First, p)
      PROVE  /\ rcv'[First].pc = p /\ rcv'[First].size = rcv[First].size
             /\ rcv'[First].len = rcv[First].len /\ rcv'[First].res = rcv[First].res
             /\ \A r \in Receivers \ {First} : rcv'[r] = rcv[r]
    BY <1>1, <1>2 DEF Goto, RcvType
<1>3. ASSUME NEW x \in Results, Return(First, x)
      PROVE  /\ rcv'[First].pc = "exit" /\ rcv'[First].res = x
             /\ rcv'[First].len = rcv[First].len
             /\ \A r \in Receivers \ {First} : rcv'[r] = rcv[r]
    BY <1>1, <1>3 DEF Return, RcvType
<1> QED
    BY <1>2, <1>3

\* Outside wizchip_recv: the lone thread takes the lock when there is something.
LEMMA LoneOutside ==
    ASSUME RecvInv, EndNoticed, First \in Receivers, OnItsOwn,
           \/ Call(First) \/ Again(First) \/ Peek(First) \/ Wait(First) \/ TimeOut(First)
           \/ Woken(First) \/ Recheck(First) \/ Exit(First) \/ Drained(First) \/ Clean(First)
    PROVE  OnItsOwn' /\ \A r \in Receivers \ {First} : rcv'[r] = rcv[r]
<1>1. rcv \in [Receivers -> RcvType] /\ rcv[First] \in RcvType
    BY DEF RecvInv, ThreadsOK
<1>2. UNCHANGED <<sr, rx>>
    BY DEF Call, Again, Peek, Wait, TimeOut, Woken, Recheck, Exit, Drained, Clean, chip
<1>3. ASSUME NEW p \in {"peek", "wait", "woken", "asleep", "recheck", "again", "drained",
                        "clean", "idle"},
             Goto(First, p), rcv[First].pc # "idle"
      PROVE  OnItsOwn' /\ \A r \in Receivers \ {First} : rcv'[r] = rcv[r]
  <2>1. p \in PCs
      BY DEF PCs
  <2> QED
      BY <1>2, <1>3, <2>1, LoneMove DEF OnItsOwn
<1>4. ASSUME NEW x \in Results, Return(First, x), x = "end" => sr # "ESTABLISHED",
             rcv[First].pc # "idle"
      PROVE  OnItsOwn' /\ \A r \in Receivers \ {First} : rcv'[r] = rcv[r]
    BY <1>2, <1>4, LoneMove DEF OnItsOwn
<1>5. ASSUME NEW f \in BOOLEAN, rcv' = [rcv EXCEPT ![First].pc = "take", ![First].final = f],
             rx > 0, rcv[First].pc # "idle"
      PROVE  OnItsOwn' /\ \A r \in Receivers \ {First} : rcv'[r] = rcv[r]
  <2>1. /\ rcv'[First].pc = "take" /\ rcv'[First].len = rcv[First].len
        /\ rcv'[First].res = rcv[First].res
        /\ \A r \in Receivers \ {First} : rcv'[r] = rcv[r]
      BY <1>1, <1>5 DEF RcvType
  <2> QED
      BY <1>2, <1>5, <2>1 DEF OnItsOwn
<1>6. CASE Call(First)
  <2>1. PICK n \in Lens : rcv' = [rcv EXCEPT ![First] = [Idle EXCEPT !.pc = "again", !.len = n]]
      BY <1>6 DEF Call
  <2>2. n \in Nat /\ n > 0
      BY RecvAssumption
  <2>3. /\ rcv'[First].pc = "again" /\ rcv'[First].len = n /\ rcv'[First].res = "none"
        /\ \A r \in Receivers \ {First} : rcv'[r] = rcv[r]
      BY <1>1, <2>1 DEF Idle
  <2> QED
      BY <2>2, <2>3 DEF OnItsOwn
<1>7. CASE Again(First) \/ TimeOut(First)
  <2>1. rcv[First].pc # "idle" /\ (Return(First, "error") \/ Goto(First, "peek"))
      BY <1>7 DEF Again, TimeOut, At
  <2> QED
      BY <1>3, <1>4, <2>1 DEF Results
<1>8. CASE Peek(First)
  <2>1. /\ rcv[First].pc # "idle"
        /\ \/ rx > 0 /\ rcv' = [rcv EXCEPT ![First].pc = "take", ![First].final = FALSE]
           \/ Goto(First, "wait")
      BY <1>8 DEF Peek, At
  <2> QED
      BY <1>3, <1>5, <2>1
<1>9. CASE Wait(First)
  <2>1. rcv[First].pc # "idle" /\ (Goto(First, "woken") \/ Goto(First, "asleep"))
      BY <1>9 DEF Wait, At
  <2> QED
      BY <1>3, <2>1
<1>10. CASE Woken(First)
  <2>1. rcv[First].pc # "idle" /\ ((closed /\ Return(First, "end")) \/ Goto(First, "recheck"))
      BY <1>10 DEF Woken, At
  <2> QED
      BY <1>3, <1>4, <2>1 DEF Results, EndNoticed
<1>11. CASE Recheck(First)
  <2>1. rx \in Nat
      BY RecvAssumption DEF RecvInv, RestOK
  <2>2. /\ rcv[First].pc # "idle"
        /\ \/ rx > 0 /\ rcv' = [rcv EXCEPT ![First].pc = "take", ![First].final = TRUE]
           \/ Goto(First, "again")
      BY <1>11, <2>1 DEF Recheck, At
  <2> QED
      BY <1>3, <1>5, <2>2
<1>12. CASE Exit(First) \/ Drained(First) \/ Clean(First)
  <2>1. /\ rcv[First].pc # "idle"
        /\ Goto(First, "drained") \/ Goto(First, "clean") \/ Goto(First, "idle")
      BY <1>12 DEF Exit, Drained, Clean, At
  <2> QED
      BY <1>3, <2>1
<1> QED
    BY <1>6, <1>7, <1>8, <1>9, <1>10, <1>11, <1>12

\* Inside wizchip_recv: what the thread has seen is still there.
LEMMA LoneInside ==
    ASSUME RecvInv, First \in Receivers, OnItsOwn,
           \/ Take(First) \/ Loop(First) \/ Size(First) \/ Status(First) \/ Spin(First)
           \/ Copy(First)
    PROVE  OnItsOwn' /\ \A r \in Receivers \ {First} : rcv'[r] = rcv[r]
<1>1. /\ rcv \in [Receivers -> RcvType] /\ rcv[First] \in RcvType
      /\ rx \in Nat /\ RxMax \in Nat /\ RxMax > 0
    BY RecvAssumption DEF RecvInv, ThreadsOK, RestOK
<1>2. rcv[First].len \in Nat /\ rcv[First].size \in Nat
    BY <1>1 DEF RcvType
<1>3. ASSUME NEW x \in {"data", "error"}, Result(First, x), rcv[First].pc # "idle",
             sr' = sr \/ sr' = "CLOSED"
      PROVE  OnItsOwn' /\ \A r \in Receivers \ {First} : rcv'[r] = rcv[r]
  <2>1. x \in Results /\ "wait" \in PCs
      BY DEF Results, PCs
  <2>2. CASE Return(First, x)
      BY <1>3, <2>1, <2>2, LoneMove DEF OnItsOwn
  <2>3. CASE Goto(First, "wait")
      BY <1>3, <2>1, <2>3, LoneMove DEF OnItsOwn
  <2> QED
      BY <1>3, <2>2, <2>3 DEF Result
<1>4. CASE Take(First)
  <2>1. /\ rcv[First].pc = "take" /\ UNCHANGED <<sr, rx>>
        /\ rcv' = [rcv EXCEPT ![First].pc = "loop", ![First].size = RxMax]
      BY <1>4 DEF Take, At, chip
  <2>2. /\ rcv'[First].pc = "loop" /\ rcv'[First].len = rcv[First].len
        /\ rcv'[First].res = rcv[First].res /\ rcv'[First].size = RxMax
        /\ \A r \in Receivers \ {First} : rcv'[r] = rcv[r]
      BY <1>1, <2>1 DEF RcvType
  <2> QED
      BY <1>1, <2>1, <2>2 DEF OnItsOwn
<1>5. CASE Loop(First)
  <2>1. /\ rcv[First].pc = "loop" /\ UNCHANGED <<sr, rx>>
        /\ Goto(First, "copy") \/ Goto(First, "size")
      BY <1>5 DEF Loop, At, chip
  <2>2. "copy" \in PCs /\ "size" \in PCs
      BY DEF PCs
  <2> QED
      BY <2>1, <2>2, LoneMove DEF OnItsOwn
<1>6. CASE Size(First)
  <2>1. /\ rcv[First].pc = "size" /\ UNCHANGED <<sr, rx>>
        /\ rcv' = [rcv EXCEPT ![First].pc = "status", ![First].size = rx]
      BY <1>6 DEF Size, At, chip
  <2>2. /\ rcv'[First].pc = "status" /\ rcv'[First].len = rcv[First].len
        /\ rcv'[First].res = rcv[First].res /\ rcv'[First].size = rx
        /\ \A r \in Receivers \ {First} : rcv'[r] = rcv[r]
      BY <1>1, <2>1 DEF RcvType
  <2> QED
      BY <2>1, <2>2 DEF OnItsOwn
<1>7. CASE Status(First)
  <2>1. rcv[First].pc = "status" /\ rcv[First].size > 0
      BY <1>7 DEF Status, At, OnItsOwn
  <2>2. \/ Goto(First, "copy") /\ UNCHANGED <<sr, rx>>
        \/ Result(First, "error") /\ sr' = "CLOSED"
      BY <1>2, <1>7, <2>1 DEF Status, chip
  <2>3. "copy" \in PCs
      BY DEF PCs
  <2>4. CASE Goto(First, "copy") /\ UNCHANGED <<sr, rx>>
      BY <2>1, <2>3, <2>4, LoneMove DEF OnItsOwn
  <2> QED
      BY <1>3, <2>1, <2>2, <2>4
<1>8. CASE Spin(First)
    BY <1>8 DEF Spin, At, OnItsOwn
<1>9. CASE Copy(First)
  <2> DEFINE n == Least(rcv[First].len, rcv[First].size)
  <2>1. rcv[First].pc = "copy" /\ rcv[First].size > 0 /\ rcv[First].len > 0
      BY <1>9 DEF Copy, At, OnItsOwn
  <2>2. n > 0
      BY <1>2, <2>1 DEF Least
  <2>3. Result(First, "data") /\ sr' = sr
      BY <1>9, <2>2 DEF Copy
  <2> QED
      BY <1>3, <2>1, <2>3
<1> QED
    BY <1>4, <1>5, <1>6, <1>7, <1>8, <1>9

\* The interrupt task only wakes, the peer only adds to the buffer or ends.
LEMMA LoneAround ==
    ASSUME RecvInv, First \in Receivers, OnItsOwn, IntData \/ Peer
    PROVE  OnItsOwn' /\ \A r \in Receivers : rcv'[r].res = rcv[r].res
<1>1. rcv \in [Receivers -> RcvType] /\ rcv[First] \in RcvType /\ rx \in Nat /\ RxMax \in Nat
    BY RecvAssumption DEF RecvInv, ThreadsOK, RestOK
<1>2. CASE IntData
  <2>1. UNCHANGED <<sr, rx>>
      BY <1>2 DEF IntData, ReadIR, ClearIR, RecvDataCallback, CloseCallback, chip
  <2>2. CASE UNCHANGED rcv
      BY <2>1, <2>2 DEF OnItsOwn
  <2>3. CASE EventSend
    <3>1. \A r \in Receivers :
            /\ rcv'[r].pc = rcv[r].pc \/ (rcv[r].pc = "asleep" /\ rcv'[r].pc = "woken")
            /\ rcv'[r].size = rcv[r].size /\ rcv'[r].len = rcv[r].len
            /\ rcv'[r].res = rcv[r].res
      <4> SUFFICES ASSUME NEW r \in Receivers
                   PROVE  /\ \/ rcv'[r].pc = rcv[r].pc
                             \/ rcv[r].pc = "asleep" /\ rcv'[r].pc = "woken"
                          /\ rcv'[r].size = rcv[r].size /\ rcv'[r].len = rcv[r].len
                          /\ rcv'[r].res = rcv[r].res
          OBVIOUS
      <4>1. rcv[r] \in RcvType
          BY <1>1
      <4>2. rcv'[r] = rcv[r] \/ (rcv[r].pc = "asleep" /\ rcv'[r] = [rcv[r] EXCEPT !.pc = "woken"])
          BY <2>3 DEF EventSend, At
      <4> QED
          BY <4>1, <4>2 DEF RcvType
    <3> QED
        BY <2>1, <3>1 DEF OnItsOwn
  <2> QED
      BY <1>2, <2>2, <2>3 DEF IntData, ReadIR, ClearIR, RecvDataCallback, CloseCallback
<1>3. CASE Peer
  <2>1. rcv' = rcv /\ (sr' = sr \/ sr' # "ESTABLISHED")
      BY <1>3 DEF Peer, PeerSend, PeerFin, PeerReset
  <2>2. rx > 0 => rx' > 0
    <3>1. CASE PeerSend
      <4>1. PICK n \in 1 .. Least(MaxSent - sent, RxMax - rx) : rx' = rx + n
          BY <3>1 DEF PeerSend
      <4> QED
          BY <1>1, <4>1
    <3> QED
        BY <1>3, <3>1 DEF Peer, PeerFin, PeerReset
  <2> QED
      BY <2>1, <2>2 DEF OnItsOwn
<1> QED
    BY <1>2, <1>3

LEMMA LoneInit == ASSUME First \in Receivers, MCInit PROVE LoneInv
<1>1. RecvInv
    BY RecvInit DEF MCInit
<1>2. EndNoticed
    BY DEF MCInit, Init, EndNoticed
<1>3. OnItsOwn /\ \A r \in Receivers : rcv[r].res = "none"
    BY DEF MCInit, Init, OnItsOwn, Idle
<1> QED
    BY <1>1, <1>2, <1>3 DEF LoneInv, MCInit

LEMMA LoneStep ==
    ASSUME First \in Receivers
    PROVE  LoneInv /\ [MCNext]_mcvars => LoneInv'
<1> SUFFICES ASSUME LoneInv, [MCNext]_mcvars PROVE LoneInv'
    OBVIOUS
<1>1. CASE UNCHANGED mcvars
  <2>1. UNCHANGED vars /\ users' = users
      BY <1>1 DEF mcvars
  <2>2. RecvInv'
      BY <2>1, RecvStep DEF LoneInv
  <2>3. UNCHANGED <<sr, rx, ir, closed, task, rcv>>
      BY <2>1 DEF vars, chip, sock
  <2> QED
      BY <2>1, <2>2, <2>3 DEF LoneInv, EndNoticed, OnItsOwn, Alone
<1>2. CASE MCNext
  <2>1. users' = users /\ users \in {Receivers, {First}}
      BY <1>2 DEF MCNext, LoneInv
  <2>2. \/ \E r \in users : Call(r) \/ Progress(r) \/ (Alone /\ TimeOut(r))
        \/ IntData \/ Peer
      BY <1>2 DEF MCNext, Peer
  <2>3. Next
      BY <2>1, <2>2 DEF Next
  <2>4. RecvInv' /\ EndNoticed'
      BY <2>3, RecvStep, EndNoticedKeeps DEF LoneInv
  <2>5. ASSUME Alone
        PROVE  OnItsOwn' /\ \A r \in Receivers \ {First} : rcv'[r].res = "none"
    <3>1. RecvInv /\ EndNoticed /\ OnItsOwn /\ \A r \in Receivers \ {First} : rcv[r].res = "none"
        BY <2>5 DEF LoneInv
    <3>2. CASE IntData \/ Peer
        BY <3>1, <3>2, LoneAround
    <3>3. CASE Call(First) \/ Progress(First) \/ TimeOut(First)
      <4>1. OnItsOwn' /\ \A r \in Receivers \ {First} : rcv'[r] = rcv[r]
          BY <3>1, <3>3, LoneOutside, LoneInside DEF Progress
      <4> QED
          BY <3>1, <4>1
    <3> QED
        BY <2>2, <2>5, <3>2, <3>3 DEF Alone
  <2> QED
      BY <2>1, <2>4, <2>5 DEF LoneInv, Alone
<1> QED
    BY <1>1, <1>2

\* A lone thread in recv() is told of the end of the stream only when the peer has
\* ended it (wiz_recvfrom): a wake-up without data is no end, and what it has seen
\* in the buffer it finds there when it copies.
THEOREM EndAlwaysTrueAlone ==
    ASSUME First \in Receivers
    PROVE  MCSpec => []EndIsTrueAlone
<1>1. LoneInv => EndIsTrueAlone
    BY DEF LoneInv, OnItsOwn, EndIsTrueAlone, EndIsTrue
<1> QED
    BY <1>1, LoneInit, LoneStep, PTL DEF MCSpec
=============================================================================
