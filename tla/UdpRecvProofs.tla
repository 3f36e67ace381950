--------------------------- MODULE UdpRecvProofs ---------------------------
(***************************************************************************)
(* Proofs about UdpRecv: the type invariant for any number of receivers;   *)
(* and for one, as the properties are stated, whatever the lengths of the  *)
(* datagrams, of the header and of the buffers, that the next byte's place *)
(* in the stream is known wherever a call stops, that every datagram not   *)
(* yet read is accounted for, and that each step is a step of              *)
(* DatagramQueue or none.                                                  *)
(***************************************************************************)
EXTENDS UdpRecv, TLAPS, FiniteSetTheorems, SequenceTheorems

Gram     == [pos : Nat, from : Peers, size : Sizes]
Receiver == [pc : PCs, len : Nat, from : Peers \cup {Unset}, pos : Nat, n : Nat]

-----------------------------------------------------------------------------
(* The inductive invariants                                                *)

\* Behind a datagram the next begins, up to Sn_RX_WR.
Contiguous == \A g \in Stored : \/ End(g) = wr
                                \/ \E h \in Stored : h.pos = End(g)

\* While a datagram has been begun: which one it is, and that its sender was read
\* with the header by the call that returns the first bytes, and by no later one.
Begun == \E g \in Stored :
    /\ g.pos + Header <= rd /\ rd + remained = End(g)
    /\ \A r \in Receivers :
         IF At(r, "payload")
         THEN rcv[r].from = IF rd = g.pos + Header THEN g.from ELSE Unset
         ELSE g.pos + Header < rd

\* A call that goes on to the data asks for at least one byte, and reads a header
\* only where a datagram begins.
CallsReady == \A r \in Receivers :
    /\ rcv[r].pc # "idle" => rcv[r].len > 0
    /\ At(r, "header") /\ remained = 0 => \E g \in Stored : g.pos = rd

\* setsockopt() keeps the socket closed only while no call runs.
Reopening == option = "closed" =>
                 sr = "CLOSED" /\ rd = wr /\ \A r \in Receivers : At(r, "idle")

PlaceInv == /\ TypeOK
            /\ Contiguous
            /\ remained = 0 => Aligned
            /\ remained # 0 => Begun
            /\ CallsReady
            /\ Reopening
            /\ ReadsOneDatagram

\* What is stored is between the pointers and fits into the buffer; a closed socket
\* has nothing.
Fits == /\ rd <= wr /\ wr - rd <= RxMax
        /\ \A g \in Stored : End(g) <= wr
        /\ sr = "CLOSED" => rd = wr

\* A signal that is still to come, and a call that has taken one and is still to
\* read the bytes it is for.
One(b)     == IF b THEN 1 ELSE 0
Attends(r) == \/ rcv[r].pc \in {"size", "remained", "header"}
              \/ At(r, "payload") /\ remained # 0

\* Sharper than UnreadAccounted: a signal counts once on its way from the interrupt
\* to the event, and a call only until it has read the last byte.
Accounts == \A r \in Receivers :
    Cardinality(Unread) <= merged + short + One(Pending) + One(Attends(r))

AccountInv == PlaceInv /\ Fits /\ Accounts

-----------------------------------------------------------------------------
(* The type invariant                                                      *)

LEMMA WordsNat == Words \in Nat \ {0}
BY DEF Words

LEMMA StoredTyped ==
    ASSUME TypeOK
    PROVE  Stored \subseteq Gram
<1>1. grams \in Seq(Gram) BY DEF TypeOK, Gram
<1>2. \A i \in 1 .. Len(grams) : grams[i] \in Gram BY <1>1
<1>3. QED BY <1>2 DEF Stored

\* A datagram is put behind the others.
LEMMA StoredGrows ==
    ASSUME TypeOK, NEW g \in Gram, grams' = Append(grams, g)
    PROVE  Stored' = Stored \cup {g}
<1> DEFINE Type == [pos : Nat, from : Peers, size : Sizes]
<1>1. grams \in Seq(Type) BY DEF TypeOK
<1>2. g \in Type BY DEF Gram
<1> HIDE DEF Type
<1>3. /\ Len(grams') = Len(grams) + 1
      /\ grams'[Len(grams) + 1] = g
      /\ \A i \in 1 .. Len(grams) : grams'[i] = grams[i]
  BY <1>1, <1>2
<1>4. Len(grams) \in Nat BY <1>1
<1>5. Stored' = {grams'[i] : i \in 1 .. Len(grams')} BY DEF Stored
<1>6. ASSUME NEW x \in Stored' PROVE x \in Stored \cup {g}
  <2>1. PICK i \in 1 .. Len(grams') : x = grams'[i] BY <1>5, <1>6
  <2>2. i \in 1 .. Len(grams) \/ i = Len(grams) + 1 BY <1>3, <1>4
  <2>3. QED BY <2>1, <2>2, <1>3 DEF Stored
<1>7. ASSUME NEW x \in Stored PROVE x \in Stored'
  <2>1. PICK i \in 1 .. Len(grams) : x = grams[i] BY <1>7 DEF Stored
  <2>2. i \in 1 .. Len(grams') BY <2>1, <1>3, <1>4
  <2>3. QED BY <2>1, <2>2, <1>3, <1>5
<1>8. Len(grams) + 1 \in 1 .. Len(grams') BY <1>3, <1>4
<1>9. g \in Stored' BY <1>8, <1>3, <1>5
<1>10. QED BY <1>6, <1>7, <1>9

\* sock_remained_size cannot go below 0: a call takes at most what is left.
LEMMA LeftIsLess ==
    ASSUME TypeOK, NEW r \in Receivers
    PROVE  LET n == Least(rcv[r].len, remained)
           IN  n \in Nat /\ n <= remained /\ Left(n) = remained - n
<1>1. rcv[r].len \in Nat /\ remained \in 0 .. Words - 1 BY DEF TypeOK
<1> DEFINE n == Least(rcv[r].len, remained)
<1>2. n \in 0 .. remained BY <1>1, WordsNat DEF Least
<1> HIDE DEF n
<1>3. remained - n \in 0 .. Words - 1 BY <1>1, <1>2, WordsNat
<1>4. \A m \in 0 .. Words - 1 : m % Words = m BY WordsNat
<1>5. Left(n) = remained - n BY <1>3, <1>4 DEF Left
<1>6. QED BY <1>1, <1>2, <1>5, WordsNat DEF n

LEMMA TypeInitial == Init => TypeOK
<1> SUFFICES ASSUME Init PROVE TypeOK OBVIOUS
<1>1. Idle \in Receiver BY DEF Idle, Receiver, PCs
<1>2. rcv \in [Receivers -> Receiver] BY <1>1 DEF Init
<1>3. grams \in Seq(Gram) BY DEF Init
<1>4. /\ returned \in [from : Peers \cup {Unset}, n : Nat]
      /\ remained \in 0 .. Words - 1
  BY WordsNat DEF Init
<1>5. QED BY <1>2, <1>3, <1>4 DEF Init, TypeOK, Receiver, Gram

LEMMA TypeKept == TypeOK /\ [Next]_vars => TypeOK'
<1> SUFFICES ASSUME TypeOK, [Next]_vars PROVE TypeOK' OBVIOUS
<1> USE UdpAssumption, WordsNat
<1> DEFINE Calls == [Receivers -> Receiver]
<1>1. rcv \in Calls BY DEF TypeOK, Receiver
<1>2. Idle \in Receiver BY DEF Idle, Receiver, PCs
<1>3. ASSUME NEW r \in Receivers, NEW pc \in PCs, Goto(r, pc) PROVE rcv' \in Calls
  BY <1>1, <1>3 DEF Goto, Receiver
<1>4. ASSUME NEW r \in Receivers, Fail(r) \/ Return(r) PROVE rcv' \in Calls
  <2>1. "exit" \in PCs BY DEF PCs
  <2>2. CASE Fail(r) BY <1>1, <2>1, <2>2 DEF Fail, Receiver
  <2>3. CASE Return(r) BY <1>1, <1>2, <2>3 DEF Return
  <2>4. QED BY <1>4, <2>2, <2>3
<1>5. ASSUME rcv' \in Calls, UNCHANGED <<sr, ir, rd, wr, grams>>, UNCHANGED remained,
             event' \in BOOLEAN, rcvevent' \in Nat,
             task' \in {"idle", "clear", "signal", "count"}, UNCHANGED option,
             UNCHANGED <<returned, merged, short>>
      PROVE  TypeOK'
  BY <1>5 DEF TypeOK, Receiver
<1>6. ASSUME NEW r \in Receivers, Call(r) PROVE TypeOK'
  <2>1. PICK n \in Lens : rcv' = [rcv EXCEPT ![r].pc = "again", ![r].len = n]
    BY <1>6 DEF Call
  <2>2. n \in Nat /\ "again" \in PCs BY <2>1 DEF PCs
  <2>3. rcv' \in Calls BY <2>1, <2>2, <1>1 DEF Receiver
  <2>4. QED BY <2>3, <1>5, <1>6 DEF Call, chip, TypeOK
<1>7. ASSUME NEW r \in Receivers, Again(r) PROVE TypeOK'
  <2>1. "wait" \in PCs BY DEF PCs
  <2>2. rcv' \in Calls BY <2>1, <1>3, <1>4, <1>7 DEF Again
  <2>3. QED BY <2>2, <1>5, <1>7 DEF Again, chip, TypeOK
<1>8. ASSUME NEW r \in Receivers, Wait(r) PROVE TypeOK'
  <2>1. "size" \in PCs /\ "asleep" \in PCs BY DEF PCs
  <2>2. rcv' \in Calls BY <2>1, <1>3, <1>8 DEF Wait
  <2>3. QED BY <2>2, <1>5, <1>8 DEF Wait, chip, TypeOK
<1>9. ASSUME NEW r \in Receivers, TimeOut(r) PROVE TypeOK'
  <2>1. rcv' \in Calls BY <1>4, <1>9 DEF TimeOut
  <2>2. QED BY <2>1, <1>5, <1>9 DEF TimeOut, chip, TypeOK
<1>10. ASSUME NEW r \in Receivers, Size(r) PROVE TypeOK'
  <2>1. Rsr \in Nat BY DEF Rsr, TypeOK
  <2>2. Least(Rsr, rcv[r].len) \in Nat BY <2>1, <1>1 DEF Least, Receiver
  <2>3. "remained" \in PCs /\ "again" \in PCs BY DEF PCs
  <2>4. [rcv EXCEPT ![r].pc = "remained", ![r].len = Least(Rsr, @)] \in Calls
    BY <1>1, <2>2, <2>3 DEF Receiver
  <2>5. rcv' \in Calls BY <2>3, <2>4, <1>3, <1>10 DEF Size
  <2>6. QED BY <2>5, <1>5, <1>10 DEF Size, chip, TypeOK
<1>11. ASSUME NEW r \in Receivers, Remained(r) PROVE TypeOK'
  <2>1. "header" \in PCs BY DEF PCs
  <2>2. rcv' \in Calls BY <2>1, <1>3, <1>4, <1>11 DEF Remained
  <2>3. QED BY <2>2, <1>5, <1>11 DEF Remained, chip, TypeOK
<1>12. ASSUME NEW r \in Receivers, TakeHeader(r) PROVE TypeOK'
  <2>1. "payload" \in PCs BY DEF PCs
  <2>2. rcv' \in Calls /\ rd' \in Nat /\ remained' \in 0 .. Words - 1
    <3>1. CASE remained # 0
      <4>1. /\ rcv' = [rcv EXCEPT ![r].pc = "payload", ![r].from = Unset]
            /\ UNCHANGED <<rd, remained>>
        BY <3>1, <1>12 DEF TakeHeader, ReadHeader
      <4>2. rcv' \in Calls BY <4>1, <2>1, <1>1 DEF Receiver
      <4>3. QED BY <4>1, <4>2 DEF TypeOK
    <3>2. CASE remained = 0
      <4>1. rd' \in Nat BY <3>2, <1>12 DEF TakeHeader, ReadHeader, TypeOK
      <4>2. CASE \E g \in Stored : /\ g.pos = rd
                                   /\ remained' = g.size
                                   /\ rcv' = [rcv EXCEPT ![r].pc = "payload", ![r].from = g.from]
        <5>1. PICK g \in Stored :
                /\ remained' = g.size
                /\ rcv' = [rcv EXCEPT ![r].pc = "payload", ![r].from = g.from]
          BY <4>2
        <5>2. g.size \in 0 .. Words - 1 /\ g.from \in Peers BY <5>1, StoredTyped DEF Gram
        <5>3. rcv' \in Calls BY <5>1, <5>2, <2>1, <1>1 DEF Receiver
        <5>4. QED BY <5>1, <5>2, <5>3, <4>1
      <4>3. CASE remained' \in Sizes /\ Goto(r, "payload")
        BY <4>1, <4>3, <2>1, <1>3
      <4>4. QED BY <3>2, <4>2, <4>3, <1>12 DEF TakeHeader, ReadHeader
    <3>3. QED BY <3>1, <3>2
  <2>3. QED BY <2>2, <1>12 DEF TakeHeader, TypeOK, Receiver
<1>13. ASSUME NEW r \in Receivers, Payload(r) PROVE TypeOK'
  <2> DEFINE n == Least(rcv[r].len, remained)
  <2>1. n \in Nat /\ n <= remained /\ Left(n) = remained - n BY LeftIsLess
  <2> HIDE DEF n
  <2>2. /\ rcv' = [rcv EXCEPT ![r].pc = "exit", ![r].pos = rd, ![r].n = n]
        /\ rd' = rd + n /\ remained' = Left(n)
        /\ returned' = [from |-> rcv[r].from, n |-> n]
        /\ short' \in {short, short + 1}
        /\ UNCHANGED <<sr, ir, wr, grams, event, rcvevent, task, option, merged>>
    BY <1>13 DEF Payload, n
  <2>3. rd \in Nat /\ remained \in 0 .. Words - 1 /\ "exit" \in PCs BY DEF TypeOK, PCs
  <2>4. rcv' \in Calls BY <2>1, <2>2, <2>3, <1>1 DEF Receiver
  <2>5. rd' \in Nat /\ remained' \in 0 .. Words - 1 BY <2>1, <2>2, <2>3
  <2>6. rcv[r].from \in Peers \cup {Unset} BY <1>1 DEF Receiver
  <2>7. returned' \in [from : Peers \cup {Unset}, n : Nat] BY <2>1, <2>2, <2>6
  <2>8. short' \in Nat BY <2>2 DEF TypeOK
  <2>9. QED BY <2>2, <2>4, <2>5, <2>7, <2>8 DEF TypeOK, Receiver
<1>14. ASSUME NEW r \in Receivers, Exit(r) PROVE TypeOK'
  <2>1. "drained" \in PCs BY DEF PCs
  <2>2. rcv' \in Calls BY <2>1, <1>3, <1>4, <1>14 DEF Exit
  <2>3. rcvevent' \in Nat BY <1>14 DEF Exit, LessOne, TypeOK
  <2>4. QED BY <2>2, <2>3, <1>5, <1>14 DEF Exit, chip, TypeOK
<1>15. ASSUME NEW r \in Receivers, Drained(r) PROVE TypeOK'
  <2>1. "clean" \in PCs BY DEF PCs
  <2>2. rcv' \in Calls BY <2>1, <1>3, <1>4, <1>15 DEF Drained
  <2>3. QED BY <2>2, <1>5, <1>15 DEF Drained, chip, TypeOK
<1>16. ASSUME NEW r \in Receivers, Clean(r) PROVE TypeOK'
  <2>1. rcv' \in Calls BY <1>4, <1>16 DEF Clean
  <2>2. QED BY <2>1, <1>5, <1>16 DEF Clean, chip, TypeOK
<1>17. ASSUME ReadIR PROVE TypeOK'
  BY <1>17, <1>1, <1>5 DEF ReadIR, chip, TypeOK
<1>18. ASSUME ClearIR PROVE TypeOK'
  BY <1>18 DEF ClearIR, TypeOK
<1>19. ASSUME Callback PROVE TypeOK'
  <2>1. [r \in Receivers |-> IF At(r, "asleep") THEN [rcv[r] EXCEPT !.pc = "size"]
                                                ELSE rcv[r]] \in Calls
    <3>1. "size" \in PCs BY DEF PCs
    <3>2. QED BY <3>1, <1>1 DEF Receiver
  <2>2. rcv' \in Calls BY <2>1, <1>1, <1>19 DEF Callback, RecvDataCallback
  <2>3. /\ event' \in BOOLEAN /\ rcvevent' \in Nat
        /\ task' \in {"idle", "clear", "signal", "count"}
    <3>1. event \in BOOLEAN /\ rcvevent \in Nat BY DEF TypeOK
    <3>2. event' \in BOOLEAN
      <4> DEFINE nobody == \A r \in Receivers : ~At(r, "asleep")
      <4>1. nobody \in BOOLEAN OBVIOUS
      <4>2. event' = nobody \/ event' = event BY <1>19 DEF Callback, RecvDataCallback
      <4> HIDE DEF nobody
      <4>3. QED BY <4>1, <4>2, <3>1
    <3>3. rcvevent' = rcvevent \/ rcvevent' = rcvevent + 1
      BY <1>19 DEF Callback, RecvDataCallback
    <3>4. task' \in {"idle", "count"} BY <1>19 DEF Callback, RecvDataCallback
    <3>5. QED BY <3>1, <3>2, <3>3, <3>4
  <2>4. QED BY <2>2, <2>3, <1>5, <1>19 DEF Callback, chip
<1>20. ASSUME LeaveGroup PROVE TypeOK'
  BY <1>20 DEF LeaveGroup, Forget, TypeOK
<1>21. ASSUME JoinGroup PROVE TypeOK'
  BY <1>21 DEF JoinGroup, Forget, TypeOK
<1>22. ASSUME PeerSend PROVE TypeOK'
  <2>1. PICK p \in Peers, n \in Sizes :
          /\ grams' = Append(grams, [pos |-> wr, from |-> p, size |-> n])
          /\ wr' = wr + Header + n
    BY <1>22 DEF PeerSend
  <2>2. wr \in Nat /\ n \in Nat BY DEF TypeOK
  <2>3. [pos |-> wr, from |-> p, size |-> n] \in [pos : Nat, from : Peers, size : Sizes]
    BY <2>2
  <2>4. grams' \in Seq([pos : Nat, from : Peers, size : Sizes]) BY <2>1, <2>3 DEF TypeOK
  <2>5. wr' \in Nat /\ ir' = {"RECV"} /\ merged' \in Nat BY <2>1, <2>2, <1>22 DEF PeerSend, TypeOK
  <2>6. UNCHANGED <<sr, rd, remained, event, rcvevent, task, rcv, option, returned, short>>
    BY <1>22 DEF PeerSend
  <2>7. QED BY <2>4, <2>5, <2>6 DEF TypeOK
<1>23. CASE UNCHANGED vars BY <1>23 DEF vars, chip, TypeOK
<1>24. QED
  BY <1>6, <1>7, <1>8, <1>9, <1>10, <1>11, <1>12, <1>13, <1>14, <1>15, <1>16, <1>17, <1>18,
     <1>19, <1>20, <1>21, <1>22, <1>23 DEF Next, Progress, IntData

\* The UDP receive path keeps its types, whatever the number of receivers.
THEOREM UdpTypeCorrect == Spec => []TypeOK
<1>1. QED BY TypeInitial, TypeKept, PTL DEF Spec

-----------------------------------------------------------------------------
(* Where the next byte is                                                  *)

LEMMA GoesOn ==
    ASSUME TypeOK, NEW r \in Receivers, NEW pc, Goto(r, pc)
    PROVE  /\ rcv'[r].pc = pc
           /\ rcv'[r].len = rcv[r].len /\ rcv'[r].from = rcv[r].from
           /\ rcv'[r].pos = rcv[r].pos /\ rcv'[r].n = rcv[r].n
BY DEF TypeOK, Goto

LEMMA Stops ==
    ASSUME TypeOK, NEW r \in Receivers, Fail(r)
    PROVE  rcv'[r].pc = "exit" /\ rcv'[r].len = rcv[r].len /\ rcv'[r].n = 0
BY DEF TypeOK, Fail

LEMMA Ends ==
    ASSUME TypeOK, NEW r \in Receivers, Return(r)
    PROVE  rcv'[r].pc = "idle"
BY DEF TypeOK, Return, Idle

\* A step that moves no pointer: the call does not read data, and goes on to a
\* header only where something is stored.
Quiet(r) ==
    /\ UNCHANGED <<sr, rd, wr, grams, remained, option>>
    /\ rcv'[r] # rcv[r] =>
         /\ ~At(r, "payload") /\ rcv'[r].pc # "payload"
         /\ rcv'[r].pc # "idle" => rcv'[r].len > 0 /\ option = "none"
         /\ rcv'[r].pc = "header" => remained # 0 \/ rd # wr
         /\ rcv'[r].pc = "exit" => rcv'[r].n = 0

LEMMA QuietSteps ==
    ASSUME NEW r, Receivers = {r}, PlaceInv,
           \/ Call(r) \/ Again(r) \/ Wait(r) \/ TimeOut(r) \/ Size(r) \/ Remained(r)
           \/ Exit(r) \/ Drained(r) \/ Clean(r) \/ IntData
    PROVE  Quiet(r)
<1> USE UdpAssumption, WordsNat
<1>1. TypeOK /\ r \in Receivers BY DEF PlaceInv
<1>2. /\ rcv[r].pc # "idle" => rcv[r].len > 0 /\ option = "none"
      /\ rcv[r].len \in Nat /\ option \in {"none", "closed"}
  <2>1. rcv[r].len \in Nat /\ option \in {"none", "closed"} BY <1>1 DEF TypeOK
  <2>2. rcv[r].pc # "idle" => option # "closed" BY <1>1 DEF PlaceInv, Reopening, At
  <2>3. rcv[r].pc # "idle" => rcv[r].len > 0 BY <1>1 DEF PlaceInv, CallsReady
  <2>4. QED BY <2>1, <2>2, <2>3
<1>3. ASSUME NEW pc, Goto(r, pc), rcv[r].pc # "idle", ~At(r, "payload"),
             pc \notin {"payload", "exit"}, pc = "header" => remained # 0 \/ rd # wr,
             UNCHANGED <<sr, rd, wr, grams, remained, option>>
      PROVE  Quiet(r)
  BY <1>1, <1>2, <1>3, GoesOn DEF Quiet
<1>4. ASSUME Fail(r), rcv[r].pc # "idle", ~At(r, "payload"),
             UNCHANGED <<sr, rd, wr, grams, remained, option>>
      PROVE  Quiet(r)
  BY <1>1, <1>2, <1>4, Stops DEF Quiet
<1>5. ASSUME Return(r), ~At(r, "payload"),
             UNCHANGED <<sr, rd, wr, grams, remained, option>>
      PROVE  Quiet(r)
  BY <1>1, <1>5, Ends DEF Quiet
<1>6. ASSUME Call(r) PROVE Quiet(r)
  <2>1. PICK n \in Lens : rcv' = [rcv EXCEPT ![r].pc = "again", ![r].len = n]
    BY <1>6 DEF Call
  <2>2. n > 0 BY <2>1
  <2>3. rcv'[r].pc = "again" /\ rcv'[r].len = n BY <2>1, <1>1 DEF TypeOK
  <2>4. rcv[r].pc = "idle" /\ option = "none"
        /\ UNCHANGED <<sr, rd, wr, grams, remained, option>>
    BY <1>6 DEF Call, At, chip
  <2>5. QED BY <2>2, <2>3, <2>4 DEF Quiet, At
<1>7. ASSUME Again(r) PROVE Quiet(r)
  <2>1. /\ rcv[r].pc = "again" /\ UNCHANGED <<sr, rd, wr, grams, remained, option>>
        /\ Fail(r) \/ Goto(r, "wait")
    BY <1>7 DEF Again, At, chip
  <2>2. QED BY <2>1, <1>3, <1>4 DEF At
<1>8. ASSUME Wait(r) PROVE Quiet(r)
  <2>1. /\ rcv[r].pc = "wait" /\ UNCHANGED <<sr, rd, wr, grams, remained, option>>
        /\ Goto(r, "size") \/ Goto(r, "asleep")
    BY <1>8 DEF Wait, At, chip
  <2>2. QED BY <2>1, <1>3 DEF At
<1>9. ASSUME TimeOut(r) PROVE Quiet(r)
  <2>1. /\ rcv[r].pc = "asleep" /\ UNCHANGED <<sr, rd, wr, grams, remained, option>>
        /\ Fail(r)
    BY <1>9 DEF TimeOut, At, chip
  <2>2. QED BY <2>1, <1>4 DEF At
<1>10. ASSUME Size(r) PROVE Quiet(r)
  <2>1. rcv[r].pc = "size" /\ UNCHANGED <<sr, rd, wr, grams, remained, option>>
    BY <1>10 DEF Size, At, chip
  <2>2. CASE Rsr = 0 BY <2>1, <2>2, <1>3, <1>10 DEF Size, At
  <2>3. CASE Rsr # 0
    <3>1. Rsr > 0
      <4>1. wr \in Nat /\ rd \in Nat BY <1>1 DEF TypeOK
      <4>2. (wr - rd) % Words \in Nat BY <4>1
      <4>3. QED BY <4>2, <2>3 DEF Rsr
    <3> DEFINE l == Least(Rsr, rcv[r].len)
    <3>2. l > 0 BY <1>2, <2>1, <3>1 DEF Least
    <3>3. rcv' = [rcv EXCEPT ![r].pc = "remained", ![r].len = l] BY <2>3, <1>10 DEF Size
    <3> HIDE DEF l
    <3>4. rcv'[r].pc = "remained" /\ rcv'[r].len = l BY <3>3, <1>1 DEF TypeOK
    <3>5. option = "none" BY <2>1, <1>2
    <3>6. QED BY <2>1, <3>2, <3>4, <3>5 DEF Quiet, At
  <2>4. QED BY <2>2, <2>3
<1>11. ASSUME Remained(r) PROVE Quiet(r)
  <2>1. rcv[r].pc = "remained" /\ UNCHANGED <<sr, rd, wr, grams, remained, option>>
    BY <1>11 DEF Remained, At, chip
  <2>2. rd = wr => Rsr = 0
    <3>1. wr \in Nat BY <1>1 DEF TypeOK
    <3>2. 0 % Words = 0 OBVIOUS
    <3>3. rd = wr => wr - rd = 0 BY <3>1
    <3>4. QED BY <3>2, <3>3 DEF Rsr
  <2>3. Fail(r) \/ (Goto(r, "header") /\ (remained # 0 \/ rd # wr))
    BY <2>2, <1>11 DEF Remained
  <2>4. QED BY <2>1, <2>3, <1>3, <1>4 DEF At
<1>12. ASSUME Exit(r) PROVE Quiet(r)
  <2>1. /\ rcv[r].pc = "exit" /\ UNCHANGED <<sr, rd, wr, grams, remained, option>>
        /\ Goto(r, "drained") \/ Return(r)
    BY <1>12 DEF Exit, At, chip
  <2>2. QED BY <2>1, <1>3, <1>5 DEF At
<1>13. ASSUME Drained(r) PROVE Quiet(r)
  <2>1. /\ rcv[r].pc = "drained" /\ UNCHANGED <<sr, rd, wr, grams, remained, option>>
        /\ Goto(r, "clean") \/ Return(r)
    BY <1>13 DEF Drained, At, chip
  <2>2. QED BY <2>1, <1>3, <1>5 DEF At
<1>14. ASSUME Clean(r) PROVE Quiet(r)
  <2>1. /\ rcv[r].pc = "clean" /\ UNCHANGED <<sr, rd, wr, grams, remained, option>>
        /\ Return(r)
    BY <1>14 DEF Clean, At, chip
  <2>2. QED BY <2>1, <1>5 DEF At
<1>15. ASSUME IntData PROVE Quiet(r)
  <2>1. UNCHANGED <<sr, rd, wr, grams, remained, option>>
    <3>1. CASE ReadIR BY <3>1 DEF ReadIR, chip
    <3>2. CASE ClearIR BY <3>2 DEF ClearIR
    <3>3. CASE Callback BY <3>3 DEF Callback, chip
    <3>4. QED BY <1>15, <3>1, <3>2, <3>3 DEF IntData
  <2>2. rcv'[r] # rcv[r] => /\ rcv[r].pc = "asleep"
                            /\ rcv'[r] = [rcv[r] EXCEPT !.pc = "size"]
    <3>1. CASE ReadIR \/ ClearIR BY <3>1 DEF ReadIR, ClearIR
    <3>2. CASE Callback BY <3>2, <1>1 DEF Callback, RecvDataCallback, At
    <3>3. QED BY <1>15, <3>1, <3>2 DEF IntData
  <2>3. rcv[r] \in Receiver BY <1>1 DEF TypeOK, Receiver
  <2>4. rcv'[r] # rcv[r] => rcv'[r].pc = "size" /\ rcv'[r].len = rcv[r].len
    BY <2>2, <2>3 DEF Receiver
  <2>5. QED BY <2>1, <2>2, <2>4, <1>2 DEF Quiet, At
<1>16. QED BY <1>6, <1>7, <1>8, <1>9, <1>10, <1>11, <1>12, <1>13, <1>14, <1>15

LEMMA QuietKeepsPlace ==
    ASSUME NEW r, Receivers = {r}, PlaceInv, TypeOK', Quiet(r)
    PROVE  PlaceInv'
<1>1. /\ sr' = sr /\ rd' = rd /\ wr' = wr /\ remained' = remained /\ option' = option
      /\ Stored' = Stored
  BY DEF Quiet, Stored
<1>2. /\ TypeOK /\ Contiguous /\ CallsReady /\ Reopening /\ ReadsOneDatagram
      /\ remained = 0 => Aligned
      /\ remained # 0 => Begun
  BY DEF PlaceInv
<1>3. Contiguous' BY <1>1, <1>2 DEF Contiguous
<1>4. remained' = 0 => Aligned' BY <1>1, <1>2 DEF Aligned
<1>5. ASSUME remained' # 0 PROVE Begun'
  <2>1. PICK g \in Stored :
          /\ g.pos + Header <= rd /\ rd + remained = End(g)
          /\ IF At(r, "payload")
             THEN rcv[r].from = IF rd = g.pos + Header THEN g.from ELSE Unset
             ELSE g.pos + Header < rd
    BY <1>5, <1>1, <1>2 DEF Begun
  <2>2. CASE rcv'[r] = rcv[r] BY <2>1, <2>2, <1>1 DEF Begun, At
  <2>3. CASE rcv'[r] # rcv[r]
    <3>1. rcv[r].pc # "payload" /\ rcv'[r].pc # "payload" BY <2>3 DEF Quiet, At
    <3>2. QED BY <3>1, <2>1, <1>1 DEF Begun, At
  <2>4. QED BY <2>2, <2>3
<1>6. CallsReady'
  <2>1. CASE rcv'[r] = rcv[r] BY <2>1, <1>1, <1>2 DEF CallsReady, At
  <2>2. CASE rcv'[r] # rcv[r]
    <3>1. rcv'[r].pc # "idle" => rcv'[r].len > 0 BY <2>2 DEF Quiet
    <3>2. rcv'[r].pc = "header" /\ remained = 0 => \E g \in Stored : g.pos = rd
      BY <2>2, <1>2 DEF Quiet, Aligned
    <3>3. QED BY <3>1, <3>2, <1>1 DEF CallsReady, At
  <2>3. QED BY <2>1, <2>2
<1>7. Reopening'
  <2>1. option = "closed" => sr = "CLOSED" /\ rd = wr /\ rcv[r].pc = "idle"
    BY <1>2 DEF Reopening, At
  <2>2. option = "closed" => rcv'[r].pc = "idle" BY <2>1 DEF Quiet
  <2>3. QED BY <2>1, <2>2, <1>1 DEF Reopening, At
<1>8. ReadsOneDatagram'
  <2>1. CASE rcv'[r] = rcv[r] BY <2>1, <1>1, <1>2 DEF ReadsOneDatagram, At
  <2>2. CASE rcv'[r] # rcv[r]
    <3>1. rcv'[r].pc = "exit" => rcv'[r].n = 0 BY <2>2 DEF Quiet
    <3>2. QED BY <3>1 DEF ReadsOneDatagram, At
  <2>3. QED BY <2>1, <2>2
<1>9. QED BY <1>3, <1>4, <1>5, <1>6, <1>7, <1>8 DEF PlaceInv

\* The header that is read is the one of the next datagram, and nothing else.
LEMMA TakeHeaderKeepsPlace ==
    ASSUME NEW r, Receivers = {r}, PlaceInv, TypeOK', TakeHeader(r)
    PROVE  PlaceInv'
<1> USE UdpAssumption
<1>1. /\ wr' = wr /\ sr' = sr /\ option' = option /\ Stored' = Stored
      /\ rcv[r].pc = "header" /\ ReadHeader(r)
  BY DEF TakeHeader, Stored, At
<1>2. /\ TypeOK /\ Contiguous /\ CallsReady /\ Reopening
      /\ remained = 0 => Aligned
      /\ remained # 0 => Begun
  BY DEF PlaceInv
<1>3. /\ rcv \in [Receivers -> Receiver] /\ r \in Receivers /\ rd \in Nat
      /\ rcv[r].len \in Nat /\ rcv[r].len > 0
  BY <1>1, <1>2 DEF TypeOK, Receiver, CallsReady
<1>4. Contiguous' BY <1>1, <1>2 DEF Contiguous
<1>5. option # "closed" BY <1>1, <1>2 DEF Reopening, At
<1>6. CASE remained # 0
  <2>1. /\ rcv' = [rcv EXCEPT ![r].pc = "payload", ![r].from = Unset]
        /\ rd' = rd /\ remained' = remained
    BY <1>1, <1>6 DEF ReadHeader
  <2>2. rcv'[r].pc = "payload" /\ rcv'[r].from = Unset /\ rcv'[r].len = rcv[r].len
    BY <2>1, <1>3 DEF Receiver
  <2>3. PICK g \in Stored :
          g.pos + Header <= rd /\ rd + remained = End(g) /\ g.pos + Header < rd
    BY <1>1, <1>2, <1>6 DEF Begun, At
  <2>4. g.pos \in Nat BY <2>3, <1>2, StoredTyped DEF Gram
  <2>5. rd # g.pos + Header BY <2>3, <2>4, <1>3
  <2>6. Begun' BY <2>1, <2>2, <2>3, <2>5, <1>1 DEF Begun, At
  <2>7. QED
    BY <2>1, <2>2, <2>6, <1>1, <1>3, <1>4, <1>5, <1>6
    DEF PlaceInv, CallsReady, Reopening, ReadsOneDatagram, At
<1>7. CASE remained = 0
  <2>1. \E g \in Stored : g.pos = rd BY <1>1, <1>2, <1>7 DEF CallsReady, At
  <2>2. rd' = rd + Header BY <1>1, <1>7 DEF ReadHeader
  <2>3. \E g \in Stored : /\ g.pos = rd
                          /\ remained' = g.size
                          /\ rcv' = [rcv EXCEPT ![r].pc = "payload", ![r].from = g.from]
    <3> HIDE <1>2, <1>3
    <3>1. QED BY <2>1, <1>1, <1>7 DEF ReadHeader
  <2>4. PICK g \in Stored : /\ g.pos = rd
                            /\ remained' = g.size
                            /\ rcv' = [rcv EXCEPT ![r].pc = "payload", ![r].from = g.from]
    BY <2>3
  <2>5. rcv'[r].pc = "payload" /\ rcv'[r].from = g.from /\ rcv'[r].len = rcv[r].len
    BY <2>4, <1>3 DEF Receiver
  <2>6. g.pos \in Nat /\ g.size \in Nat BY <2>4, <1>2, StoredTyped DEF Gram
  <2>7. rd' = g.pos + Header /\ rd' + remained' = End(g)
    BY <2>2, <2>4, <2>6 DEF End
  <2>8. Begun' BY <2>5, <2>6, <2>7, <1>1, <1>3 DEF Begun, At
  <2>9. remained' = 0 => Aligned'
    <3>1. remained' = 0 => rd' = End(g) BY <2>2, <2>7, <1>3
    <3>2. End(g) = wr \/ \E h \in Stored : h.pos = End(g) BY <1>2 DEF Contiguous
    <3>3. QED BY <3>1, <3>2, <1>1 DEF Aligned
  <2>10. QED
    BY <2>5, <2>8, <2>9, <1>1, <1>3, <1>4, <1>5
    DEF PlaceInv, CallsReady, Reopening, ReadsOneDatagram, At
<1>8. QED BY <1>6, <1>7

LEMMA PayloadKeepsPlace ==
    ASSUME NEW r, Receivers = {r}, PlaceInv, TypeOK', Payload(r)
    PROVE  PlaceInv'
<1> USE UdpAssumption
<1> DEFINE n == Least(rcv[r].len, remained)
<1>1. /\ TypeOK /\ Contiguous /\ CallsReady /\ Reopening
      /\ remained = 0 => Aligned
      /\ remained # 0 => Begun
  BY DEF PlaceInv
<1>2. n \in Nat /\ n <= remained /\ Left(n) = remained - n BY <1>1, LeftIsLess
<1>3. remained # 0 => n > 0
  <2>1. rcv[r].len > 0 /\ rcv[r].len \in Nat BY <1>1 DEF CallsReady, Payload, At, TypeOK
  <2>2. remained \in Nat BY <1>1, WordsNat DEF TypeOK
  <2>3. QED BY <2>1, <2>2 DEF Least
<1> HIDE DEF n
<1>4. /\ wr' = wr /\ sr' = sr /\ option' = option /\ Stored' = Stored
      /\ rcv[r].pc = "payload"
      /\ rcv' = [rcv EXCEPT ![r].pc = "exit", ![r].pos = rd, ![r].n = n]
      /\ rd' = rd + n /\ remained' = remained - n
  BY <1>2 DEF Payload, Stored, At, n
<1>5. rd \in Nat /\ remained \in Nat /\ rcv \in [Receivers -> Receiver] /\ r \in Receivers
  BY <1>1, WordsNat DEF TypeOK, Receiver
<1>6. /\ rcv'[r].pc = "exit" /\ rcv'[r].pos = rd /\ rcv'[r].n = n
      /\ rcv'[r].len = rcv[r].len /\ rcv'[r].from = rcv[r].from
  BY <1>4, <1>5 DEF Receiver
<1>7. Contiguous' BY <1>1, <1>4 DEF Contiguous
<1>8. CallsReady' BY <1>1, <1>4, <1>6 DEF CallsReady, At
<1>9. Reopening'
  <2>1. option # "closed" BY <1>1, <1>4 DEF Reopening, At
  <2>2. QED BY <2>1, <1>4 DEF Reopening
<1>10. CASE remained = 0
  <2>1. n = 0 /\ rd' = rd /\ remained' = 0 BY <1>10, <1>2, <1>4, <1>5
  <2>2. Aligned' BY <2>1, <1>1, <1>4, <1>10 DEF Aligned
  <2>3. ReadsOneDatagram' BY <2>1, <1>6 DEF ReadsOneDatagram, At
  <2>4. QED BY <2>1, <2>2, <2>3, <1>7, <1>8, <1>9 DEF PlaceInv
<1>11. CASE remained # 0
  <2>1. PICK g \in Stored :
          /\ g.pos + Header <= rd /\ rd + remained = End(g)
          /\ rcv[r].from = IF rd = g.pos + Header THEN g.from ELSE Unset
    BY <1>1, <1>4, <1>11 DEF Begun, At
  <2>2. g.pos \in Nat /\ g.size \in Nat
    <3>1. g \in Gram BY <1>1, <2>1, StoredTyped
    <3>2. g.pos \in Nat /\ g.size \in Sizes BY <3>1 DEF Gram
    <3>3. Sizes \subseteq Nat BY WordsNat
    <3>4. QED BY <3>2, <3>3
  <2>3. n > 0 BY <1>3, <1>11
  <2>4. /\ g.pos + Header < rd' /\ rd' + remained' = End(g) /\ rd + n <= End(g)
    <3> DEFINE p == g.pos + Header
    <3>1. p \in Nat /\ p <= rd BY <2>1, <2>2
    <3> HIDE DEF p
    <3>2. p < rd + n BY <3>1, <2>3, <1>2, <1>5
    <3>3. (rd + n) + (remained - n) = rd + remained /\ rd + n <= rd + remained
      BY <1>2, <1>5
    <3>4. QED BY <3>2, <3>3, <2>1, <1>4 DEF p
  <2>5. remained' # 0 => Begun' BY <2>2, <2>4, <1>4, <1>5, <1>6, <1>2 DEF Begun, At
  <2>6. remained' = 0 => Aligned'
    <3>1. remained' = 0 => rd' = End(g) BY <2>4, <1>4, <1>5, <1>2
    <3>2. End(g) = wr \/ \E h \in Stored : h.pos = End(g) BY <1>1 DEF Contiguous
    <3>3. QED BY <3>1, <3>2, <1>4 DEF Aligned
  <2>7. ReadsOneDatagram' BY <2>1, <2>4, <1>4, <1>6 DEF ReadsOneDatagram, At
  <2>8. QED BY <2>5, <2>6, <2>7, <1>7, <1>8, <1>9 DEF PlaceInv
<1>12. QED BY <1>10, <1>11

\* The socket is closed and opened with nothing stored and nothing begun.
LEMMA GroupKeepsPlace ==
    ASSUME NEW r, Receivers = {r}, PlaceInv, TypeOK', LeaveGroup \/ JoinGroup
    PROVE  PlaceInv'
<1>1. /\ TypeOK /\ Contiguous /\ CallsReady /\ Reopening
  BY DEF PlaceInv
<1>2. /\ wr' = wr /\ Stored' = Stored /\ rcv' = rcv /\ remained' = 0 /\ rcv[r].pc = "idle"
      /\ rd' = wr
  <2>1. CASE LeaveGroup BY <2>1 DEF LeaveGroup, Forget, Stored, At
  <2>2. CASE JoinGroup
    <3>1. option = "closed" BY <2>2 DEF JoinGroup
    <3>2. rd = wr /\ rcv[r].pc = "idle" BY <3>1, <1>1 DEF Reopening, At
    <3>3. QED BY <3>2, <2>2 DEF JoinGroup, Forget, Stored
  <2>3. QED BY <2>1, <2>2
<1>3. Contiguous' BY <1>1, <1>2 DEF Contiguous
<1>4. Aligned' BY <1>2 DEF Aligned
<1>5. CallsReady' BY <1>2 DEF CallsReady, At
<1>6. Reopening'
  <2>1. option' = "closed" => sr' = "CLOSED" BY DEF LeaveGroup, JoinGroup
  <2>2. QED BY <2>1, <1>2 DEF Reopening, At
<1>7. ReadsOneDatagram' BY <1>2 DEF ReadsOneDatagram, At
<1>8. QED BY <1>2, <1>3, <1>4, <1>5, <1>6, <1>7 DEF PlaceInv

LEMMA PeerSendKeepsPlace ==
    ASSUME NEW r, Receivers = {r}, PlaceInv, TypeOK', PeerSend
    PROVE  PlaceInv'
<1> USE UdpAssumption
<1>1. /\ TypeOK /\ Contiguous /\ CallsReady /\ Reopening /\ ReadsOneDatagram
      /\ remained = 0 => Aligned
      /\ remained # 0 => Begun
  BY DEF PlaceInv
<1>2. PICK p \in Peers, n \in Sizes :
        /\ grams' = Append(grams, [pos |-> wr, from |-> p, size |-> n])
        /\ wr' = wr + Header + n
  BY DEF PeerSend
<1>3. /\ sr = "UDP" /\ sr' = sr /\ rd' = rd /\ remained' = remained /\ option' = option
      /\ rcv' = rcv
  BY DEF PeerSend
<1> DEFINE new == [pos |-> wr, from |-> p, size |-> n]
<1>4. new \in Gram BY <1>1, WordsNat DEF TypeOK, Gram
<1>5. new.pos = wr /\ End(new) = wr' BY <1>2 DEF End
<1>6. grams' = Append(grams, new) BY <1>2
<1> HIDE DEF new
<1>7. Stored' = Stored \cup {new} BY <1>1, <1>4, <1>6, StoredGrows
<1>8. Contiguous'
  <2> SUFFICES ASSUME NEW g \in Stored'
               PROVE  End(g) = wr' \/ \E h \in Stored' : h.pos = End(g)
    BY DEF Contiguous
  <2>1. CASE g = new BY <2>1, <1>5
  <2>2. CASE g \in Stored
    <3>1. End(g) = wr \/ \E h \in Stored : h.pos = End(g) BY <2>2, <1>1 DEF Contiguous
    <3>2. QED BY <3>1, <1>5, <1>7
  <2>3. QED BY <2>1, <2>2, <1>7
<1>9. remained' = 0 => Aligned'
  <2>1. remained = 0 => rd = wr \/ \E g \in Stored : g.pos = rd BY <1>1 DEF Aligned
  <2>2. remained = 0 => \E g \in Stored' : g.pos = rd BY <2>1, <1>5, <1>7
  <2>3. QED BY <2>2, <1>3 DEF Aligned
<1>10. remained' # 0 => Begun' BY <1>1, <1>3, <1>7 DEF Begun, At
<1>11. CallsReady' BY <1>1, <1>3, <1>7 DEF CallsReady, At
<1>12. Reopening' BY <1>1, <1>3 DEF Reopening
<1>13. ReadsOneDatagram' BY <1>1, <1>3, <1>7 DEF ReadsOneDatagram, At
<1>14. QED BY <1>8, <1>9, <1>10, <1>11, <1>12, <1>13 DEF PlaceInv

LEMMA PlaceInitial == ASSUME NEW r, Receivers = {r}, Init PROVE PlaceInv
<1>1. Stored = {} BY DEF Init, Stored
<1>2. rcv[r] = Idle /\ remained = 0 /\ rd = wr /\ option = "none" BY DEF Init
<1>3. rcv[r].pc = "idle" BY <1>2 DEF Idle
<1>4. Contiguous BY <1>1 DEF Contiguous
<1>5. Aligned BY <1>2 DEF Aligned
<1>6. CallsReady /\ Reopening /\ ReadsOneDatagram
  BY <1>2, <1>3 DEF CallsReady, Reopening, ReadsOneDatagram, At
<1>7. QED BY <1>2, <1>4, <1>5, <1>6, TypeInitial DEF PlaceInv

LEMMA PlaceKept ==
    ASSUME NEW r, Receivers = {r}, PlaceInv, [Next]_vars
    PROVE  PlaceInv'
<1>1. TypeOK' BY TypeKept DEF PlaceInv
<1>2. \/ Call(r) \/ Again(r) \/ Wait(r) \/ TimeOut(r) \/ Size(r) \/ Remained(r)
      \/ Exit(r) \/ Drained(r) \/ Clean(r) \/ IntData
      \/ TakeHeader(r) \/ Payload(r) \/ LeaveGroup \/ JoinGroup \/ PeerSend
      \/ UNCHANGED vars
  BY DEF Next, Progress
<1>3. CASE \/ Call(r) \/ Again(r) \/ Wait(r) \/ TimeOut(r) \/ Size(r) \/ Remained(r)
           \/ Exit(r) \/ Drained(r) \/ Clean(r) \/ IntData
  BY <1>1, <1>3, QuietSteps, QuietKeepsPlace
<1>4. CASE TakeHeader(r) BY <1>1, <1>4, TakeHeaderKeepsPlace
<1>5. CASE Payload(r) BY <1>1, <1>5, PayloadKeepsPlace
<1>6. CASE LeaveGroup \/ JoinGroup BY <1>1, <1>6, GroupKeepsPlace
<1>7. CASE PeerSend BY <1>1, <1>7, PeerSendKeepsPlace
<1>8. CASE UNCHANGED vars
  <2>1. Quiet(r) BY <1>8 DEF vars, chip, Quiet
  <2>2. QED BY <1>1, <2>1, QuietKeepsPlace
<1>9. QED BY <1>2, <1>3, <1>4, <1>5, <1>6, <1>7, <1>8

\* With one receiving thread sock_remained_size agrees with the chip's read
\* pointer wherever a call stops: every call returns bytes of one datagram, and
\* names the sender it should.
THEOREM ReadingAlwaysAligned ==
    ASSUME NEW r, Receivers = {r}
    PROVE  Spec => []ReadingAligned
<1>1. Init => PlaceInv BY PlaceInitial
<1>2. PlaceInv /\ [Next]_vars => PlaceInv' BY PlaceKept
<1>3. PlaceInv => ReadingAligned
  <2>1. ASSUME PlaceInv, remained # 0 PROVE Aligned
    <3>1. \E g \in Stored : g.pos + Header <= rd /\ rd + remained = End(g)
      BY <2>1 DEF PlaceInv, Begun
    <3>2. QED BY <3>1, <2>1 DEF Aligned
  <2>2. QED BY <2>1 DEF PlaceInv, ReadingAligned
<1>4. QED BY <1>1, <1>2, <1>3, PTL DEF Spec

-----------------------------------------------------------------------------
(* The datagrams not yet read                                              *)

LEMMA UnreadFinite ==
    ASSUME TypeOK
    PROVE  IsFiniteSet(Unread) /\ Cardinality(Unread) \in Nat
<1>1. Len(grams) \in Nat BY DEF TypeOK
<1>2. IsFiniteSet(1 .. Len(grams)) BY <1>1, FS_Interval
<1>3. Unread \in SUBSET (1 .. Len(grams)) BY DEF Unread
<1>4. IsFiniteSet(Unread) BY <1>2, <1>3, FS_Subset
<1>5. QED BY <1>4, FS_CardinalityType

LEMMA EndNat ==
    ASSUME TypeOK, NEW g \in Stored
    PROVE  End(g) \in Nat
<1>1. g \in Gram BY StoredTyped
<1>2. g.pos \in Nat /\ g.size \in Sizes BY <1>1 DEF Gram
<1>3. Sizes \subseteq Nat /\ Header \in Nat BY UdpAssumption, WordsNat
<1>4. g.size \in Nat BY <1>2, <1>3
<1>5. QED BY <1>2, <1>3, <1>4 DEF End

\* Reading makes none unread, and what ends at the pointer is read.
LEMMA UnreadFalls ==
    ASSUME TypeOK, TypeOK', grams' = grams, rd <= rd'
    PROVE  /\ Cardinality(Unread') <= Cardinality(Unread)
           /\ \A g \in Stored : rd < End(g) /\ End(g) <= rd' =>
                Cardinality(Unread') + 1 <= Cardinality(Unread)
<1> USE UdpAssumption
<1>1. rd \in Nat /\ rd' \in Nat BY DEF TypeOK
<1>2. ASSUME NEW i \in 1 .. Len(grams) PROVE End(grams[i]) \in Nat
  <2>1. grams[i] \in Stored BY DEF Stored
  <2>2. QED BY <2>1, EndNat
<1>3. Unread' = {i \in 1 .. Len(grams) : End(grams[i]) > rd'} BY DEF Unread
<1>4. Unread' \in SUBSET Unread
  <2> SUFFICES ASSUME NEW i \in Unread' PROVE i \in Unread OBVIOUS
  <2>1. i \in 1 .. Len(grams) /\ End(grams[i]) > rd' BY <1>3
  <2>2. End(grams[i]) \in Nat BY <1>2, <2>1
  <2>3. End(grams[i]) > rd BY <2>1, <2>2, <1>1
  <2>4. QED BY <2>1, <2>3 DEF Unread
<1>5. Cardinality(Unread') <= Cardinality(Unread) BY <1>4, UnreadFinite, FS_Subset
<1>6. ASSUME NEW g \in Stored, rd < End(g), End(g) <= rd'
      PROVE  Cardinality(Unread') + 1 <= Cardinality(Unread)
  <2>1. PICK i \in 1 .. Len(grams) : g = grams[i] BY DEF Stored
  <2>2. i \in Unread
    <3>1. End(grams[i]) > rd BY <2>1, <1>2, <1>1, <1>6
    <3>2. QED BY <3>1 DEF Unread
  <2>3. i \notin Unread'
    <3>1. ~(End(grams[i]) > rd') BY <2>1, <1>2, <1>1, <1>6
    <3>2. QED BY <3>1, <1>3
  <2>4. Unread' \in SUBSET (Unread \ {i}) BY <2>3, <1>4
  <2>5. /\ IsFiniteSet(Unread \ {i})
        /\ Cardinality(Unread \ {i}) = Cardinality(Unread) - 1
    BY <2>2, UnreadFinite, FS_RemoveElement
  <2>6. Cardinality(Unread') <= Cardinality(Unread \ {i}) BY <2>4, <2>5, FS_Subset
  <2>7. Cardinality(Unread') \in Nat BY UnreadFinite, <2>4, <2>5, FS_Subset, FS_CardinalityType
  <2>8. QED BY <2>5, <2>6, <2>7, UnreadFinite
<1>7. QED BY <1>5, <1>6

\* A datagram that arrives is one more at most.
LEMMA UnreadGrows ==
    ASSUME TypeOK, NEW g \in Gram, grams' = Append(grams, g), rd' = rd
    PROVE  Cardinality(Unread') <= Cardinality(Unread) + 1
<1> DEFINE last == Len(grams) + 1
<1>1. grams \in Seq(Gram) BY DEF TypeOK, Gram
<1>2. /\ Len(grams') = last /\ Len(grams) \in Nat
      /\ \A i \in 1 .. Len(grams) : grams'[i] = grams[i]
  BY <1>1
<1>3. Unread' = {i \in 1 .. Len(grams') : End(grams'[i]) > rd} BY DEF Unread
<1>4. Unread' \in SUBSET (Unread \cup {last})
  <2> SUFFICES ASSUME NEW i \in Unread' PROVE i \in Unread \cup {last} OBVIOUS
  <2>1. i \in 1 .. last /\ End(grams'[i]) > rd BY <1>2, <1>3
  <2>2. CASE i = last BY <2>2
  <2>3. CASE i # last
    <3>1. i \in 1 .. Len(grams) BY <2>1, <2>3, <1>2
    <3>2. End(grams[i]) > rd BY <3>1, <2>1, <1>2
    <3>3. QED BY <3>1, <3>2 DEF Unread
  <2>4. QED BY <2>2, <2>3
<1> HIDE DEF last
<1>5. /\ IsFiniteSet(Unread \cup {last})
      /\ Cardinality(Unread \cup {last}) <= Cardinality(Unread) + 1
  <2>1. /\ IsFiniteSet(Unread \cup {last})
        /\ Cardinality(Unread \cup {last}) =
             IF last \in Unread THEN Cardinality(Unread) ELSE Cardinality(Unread) + 1
    BY UnreadFinite, FS_AddElement
  <2>2. QED BY <2>1, UnreadFinite
<1>6. Cardinality(Unread') <= Cardinality(Unread \cup {last}) BY <1>4, <1>5, FS_Subset
<1>7. Cardinality(Unread') \in Nat /\ Cardinality(Unread \cup {last}) \in Nat
  BY <1>4, <1>5, FS_Subset, FS_CardinalityType
<1>8. QED BY <1>5, <1>6, <1>7, UnreadFinite

LEMMA NothingUnread ==
    ASSUME TypeOK, Fits, rd = wr
    PROVE  Cardinality(Unread) = 0
<1> USE UdpAssumption
<1>1. Unread = {}
  <2> SUFFICES ASSUME NEW i \in Unread PROVE FALSE OBVIOUS
  <2>1. i \in 1 .. Len(grams) /\ End(grams[i]) > rd BY DEF Unread
  <2>2. grams[i] \in Stored BY <2>1 DEF Stored
  <2>3. End(grams[i]) \in Nat BY <2>2, EndNat
  <2>4. End(grams[i]) <= wr BY <2>2 DEF Fits
  <2>5. QED BY <2>1, <2>3, <2>4 DEF TypeOK
<1>2. QED BY <1>1, FS_EmptySet

\* Sn_RX_RSR, a difference in 16 bits, is 0 only when the buffer is empty.
LEMMA RsrZero ==
    ASSUME TypeOK, Fits, Rsr = 0
    PROVE  rd = wr
<1> USE UdpAssumption
<1>1. rd \in Nat /\ wr \in Nat BY DEF TypeOK
<1>2. wr - rd \in 0 .. Words - 1 BY <1>1, WordsNat DEF Fits
<1>3. \A m \in 0 .. Words - 1 : m % Words = m BY WordsNat
<1>4. (wr - rd) % Words = wr - rd BY <1>2, <1>3
<1>5. wr - rd = 0 BY <1>4 DEF Rsr
<1>6. QED BY <1>1, <1>5

-----------------------------------------------------------------------------
(* What is stored fits                                                     *)

LEMMA FitsKept ==
    ASSUME NEW r, Receivers = {r}, PlaceInv, Fits, TypeOK', [Next]_vars
    PROVE  Fits'
<1> USE UdpAssumption
<1>1. /\ TypeOK /\ rd \in Nat /\ wr \in Nat /\ remained \in Nat
      /\ rd <= wr /\ wr - rd <= RxMax /\ \A g \in Stored : End(g) <= wr
      /\ sr = "CLOSED" => rd = wr
  BY WordsNat DEF PlaceInv, TypeOK, Fits
<1>2. ASSUME wr' = wr, grams' = grams, sr' = sr, rd' \in Nat, rd <= rd', rd' <= wr,
             sr = "CLOSED" => rd' = wr
      PROVE  Fits'
  BY <1>1, <1>2 DEF Fits, Stored
<1>3. CASE \/ Call(r) \/ Again(r) \/ Wait(r) \/ TimeOut(r) \/ Size(r) \/ Remained(r)
           \/ Exit(r) \/ Drained(r) \/ Clean(r) \/ IntData
  <2>1. Quiet(r) BY <1>3, QuietSteps
  <2>2. QED BY <2>1, <1>1 DEF Quiet, Fits, Stored
<1>4. CASE TakeHeader(r)
  <2>1. wr' = wr /\ grams' = grams /\ sr' = sr /\ ReadHeader(r) /\ rcv[r].pc = "header"
    BY <1>4 DEF TakeHeader, At
  <2>2. CASE remained # 0
    <3>1. rd' = rd BY <2>1, <2>2 DEF ReadHeader
    <3>2. QED BY <2>1, <3>1, <1>1, <1>2
  <2>3. CASE remained = 0
    <3>1. rd' = rd + Header BY <2>1, <2>3 DEF ReadHeader
    <3>2. PICK g \in Stored : g.pos = rd BY <2>1, <2>3 DEF PlaceInv, CallsReady, At
    <3>3. g \in Gram BY <3>2, <1>1, StoredTyped
    <3>4. g.size \in Nat
      <4>1. g.size \in Sizes BY <3>3 DEF Gram
      <4>2. Sizes \subseteq Nat BY WordsNat
      <4>3. QED BY <4>1, <4>2
    <3>5. End(g) <= wr BY <3>2, <1>1
    <3>6. rd + Header + g.size <= wr BY <3>2, <3>5 DEF End
    <3>7. rd + Header <= wr /\ rd # wr BY <3>4, <3>6, <1>1
    <3>8. QED BY <2>1, <3>1, <3>7, <1>1, <1>2
  <2>4. QED BY <2>2, <2>3
<1>5. CASE Payload(r)
  <2> DEFINE n == Least(rcv[r].len, remained)
  <2>1. n \in Nat /\ n <= remained BY <1>1, LeftIsLess
  <2> HIDE DEF n
  <2>2. wr' = wr /\ grams' = grams /\ sr' = sr /\ rd' = rd + n BY <1>5 DEF Payload, n
  <2>3. rd + remained <= wr
    <3>1. CASE remained = 0 BY <3>1, <1>1
    <3>2. CASE remained # 0
      <4>1. \E g \in Stored : rd + remained = End(g) BY <3>2 DEF PlaceInv, Begun
      <4>2. QED BY <4>1, <1>1
    <3>3. QED BY <3>1, <3>2
  <2>4. rd + n <= wr /\ (rd = wr => rd + n = wr) BY <2>1, <2>3, <1>1
  <2>5. QED BY <2>1, <2>2, <2>4, <1>1, <1>2
<1>6. CASE LeaveGroup BY <1>1, <1>6 DEF LeaveGroup, Fits, Stored
<1>7. CASE JoinGroup
  <2>1. rd = wr BY <1>7 DEF PlaceInv, Reopening, JoinGroup
  <2>2. QED BY <2>1, <1>1, <1>7 DEF JoinGroup, Fits, Stored
<1>8. CASE PeerSend
  <2>1. PICK p \in Peers, n \in Sizes :
          /\ wr - rd + Header + n <= RxMax
          /\ grams' = Append(grams, [pos |-> wr, from |-> p, size |-> n])
          /\ wr' = wr + Header + n
    BY <1>8 DEF PeerSend
  <2>2. sr' = "UDP" /\ rd' = rd BY <1>8 DEF PeerSend
  <2>3. n \in Nat
    <3>1. Sizes \subseteq Nat BY WordsNat
    <3>2. QED BY <2>1, <3>1
  <2> DEFINE new == [pos |-> wr, from |-> p, size |-> n]
  <2>4. new \in Gram BY <1>1, <2>1, <2>3 DEF Gram
  <2>5. End(new) = wr' BY <2>1 DEF End
  <2>6. grams' = Append(grams, new) BY <2>1
  <2> HIDE DEF new
  <2>7. Stored' = Stored \cup {new} BY <1>1, <2>4, <2>6, StoredGrows
  <2>8. wr' - rd' <= RxMax /\ rd' <= wr' /\ wr <= wr' /\ wr' \in Nat
    BY <2>1, <2>2, <2>3, <1>1
  <2>9. \A g \in Stored' : End(g) <= wr'
    <3> SUFFICES ASSUME NEW g \in Stored' PROVE End(g) <= wr' OBVIOUS
    <3>1. CASE g = new BY <3>1, <2>5, <2>8
    <3>2. CASE g \in Stored
      <4>1. End(g) <= wr /\ End(g) \in Nat BY <3>2, <1>1, EndNat
      <4>2. QED BY <4>1, <2>8, <1>1
    <3>3. QED BY <3>1, <3>2, <2>7
  <2>10. QED BY <2>2, <2>8, <2>9 DEF Fits
<1>9. CASE UNCHANGED vars BY <1>1, <1>9 DEF vars, chip, Fits, Stored
<1>10. QED
  BY <1>3, <1>4, <1>5, <1>6, <1>7, <1>8, <1>9 DEF Next, Progress

-----------------------------------------------------------------------------
(* The accounts                                                            *)

Account(r) == merged + short + One(Pending) + One(Attends(r))

\* Steps that move no pointer: a signal that is taken is attended to, and a call
\* that goes to sleep again has found the buffer empty.
LEMMA QuietKeepsAccount ==
    ASSUME NEW r, Receivers = {r}, AccountInv, TypeOK',
           \/ Call(r) \/ Again(r) \/ Wait(r) \/ TimeOut(r) \/ Size(r) \/ Remained(r)
           \/ Exit(r) \/ Drained(r) \/ Clean(r) \/ IntData
    PROVE  Cardinality(Unread') <= Account(r)'
<1>1. /\ PlaceInv /\ TypeOK /\ Fits /\ r \in Receivers
      /\ merged \in Nat /\ short \in Nat
      /\ Cardinality(Unread) \in Nat
      /\ Cardinality(Unread) <= Account(r)
  BY UnreadFinite DEF AccountInv, PlaceInv, Accounts, Account, TypeOK
<1>2. Quiet(r) BY <1>1, QuietSteps
<1>3. Unread' = Unread BY <1>2 DEF Quiet, Unread
<1>4. merged' = merged /\ short' = short
  BY DEF Call, Again, Wait, TimeOut, Size, Remained, Exit, Drained, Clean, IntData, ReadIR,
         ClearIR, Callback
<1>5. /\ One(Pending) \in {0, 1} /\ One(Attends(r)) \in {0, 1}
      /\ One(Pending)' \in {0, 1} /\ One(Attends(r))' \in {0, 1}
  BY DEF One
<1>6. SUFFICES \/ One(Pending) + One(Attends(r)) <= One(Pending)' + One(Attends(r))'
               \/ Cardinality(Unread) = 0
  <2>1. CASE One(Pending) + One(Attends(r)) <= One(Pending)' + One(Attends(r))'
    BY <2>1, <1>1, <1>3, <1>4, <1>5 DEF Account
  <2>2. CASE Cardinality(Unread) = 0
    BY <2>2, <1>1, <1>3, <1>4, <1>5 DEF Account
  <2>3. QED BY <2>1, <2>2, <1>6
<1>7. ASSUME UNCHANGED <<ir, task, event>>, ~Attends(r)
      PROVE  One(Pending) + One(Attends(r)) <= One(Pending)' + One(Attends(r))'
  <2>1. Pending' <=> Pending BY <1>7 DEF Pending
  <2>2. One(Pending)' = One(Pending) BY <2>1 DEF One
  <2>3. One(Attends(r)) = 0 BY <1>7 DEF One
  <2>4. QED BY <2>2, <2>3, <1>5
<1>8. CASE Call(r) \/ Again(r) \/ TimeOut(r) \/ Exit(r) \/ Drained(r) \/ Clean(r)
  <2>1. UNCHANGED <<ir, task, event>> BY <1>8 DEF Call, Again, TimeOut, Exit, Drained, Clean, chip
  <2>2. ~Attends(r) BY <1>8 DEF Call, Again, TimeOut, Exit, Drained, Clean, At, Attends
  <2>3. QED BY <2>1, <2>2, <1>7
<1>9. CASE Wait(r)
  <2>1. ~Attends(r) BY <1>9 DEF Wait, At, Attends
  <2>2. CASE event
    <3>1. Goto(r, "size") BY <1>9, <2>2 DEF Wait
    <3>2. Attends(r)' BY <3>1, <1>1, GoesOn DEF Attends
    <3>3. One(Attends(r)) = 0 /\ One(Attends(r))' = 1 BY <2>1, <3>2 DEF One
    <3>4. QED BY <3>3, <1>5
  <2>3. CASE ~event
    <3>1. UNCHANGED <<ir, task, event>> BY <1>9, <2>3 DEF Wait, chip
    <3>2. QED BY <3>1, <2>1, <1>7
  <2>4. QED BY <2>2, <2>3
<1>10. ASSUME UNCHANGED <<ir, task, event>>, Attends(r)'
       PROVE  One(Pending) + One(Attends(r)) <= One(Pending)' + One(Attends(r))'
  <2>1. Pending' <=> Pending BY <1>10 DEF Pending
  <2>2. One(Pending)' = One(Pending) BY <2>1 DEF One
  <2>3. One(Attends(r))' = 1 BY <1>10 DEF One
  <2>4. QED BY <2>2, <2>3, <1>5
<1>11. CASE Size(r)
  <2>1. CASE Rsr = 0 BY <2>1, <1>1, RsrZero, NothingUnread
  <2>2. CASE Rsr # 0
    <3>1. /\ rcv' = [rcv EXCEPT ![r].pc = "remained", ![r].len = Least(Rsr, @)]
          /\ UNCHANGED <<ir, task, event>>
      BY <2>2, <1>11 DEF Size, chip
    <3>2. rcv'[r].pc = "remained" BY <3>1, <1>1 DEF TypeOK
    <3>3. QED BY <3>1, <3>2, <1>10 DEF Attends
  <2>3. QED BY <2>1, <2>2
<1>12. CASE Remained(r)
  <2>1. UNCHANGED <<ir, task, event>> BY <1>12 DEF Remained, chip
  <2>2. Goto(r, "header") \/ sr = "CLOSED" \/ Rsr = 0 BY <1>12 DEF Remained
  <2>3. CASE Goto(r, "header")
    <3>1. Attends(r)' BY <2>3, <1>1, GoesOn DEF Attends
    <3>2. QED BY <3>1, <2>1, <1>10
  <2>4. CASE sr = "CLOSED" \/ Rsr = 0
    <3>1. rd = wr BY <2>4, <1>1, RsrZero DEF Fits
    <3>2. QED BY <3>1, <1>1, NothingUnread
  <2>5. QED BY <2>2, <2>3, <2>4
<1>13. ASSUME Pending', rcv'[r] = rcv[r], remained' = remained
       PROVE  One(Pending) + One(Attends(r)) <= One(Pending)' + One(Attends(r))'
  <2>1. Attends(r)' <=> Attends(r) BY <1>13 DEF Attends, At
  <2>2. One(Attends(r))' = One(Attends(r)) BY <2>1 DEF One
  <2>3. One(Pending)' = 1 BY <1>13 DEF One
  <2>4. QED BY <2>2, <2>3, <1>5
<1>14. CASE ReadIR BY <1>13, <1>14 DEF ReadIR, Pending
<1>15. CASE ClearIR BY <1>13, <1>15 DEF ClearIR, Pending
<1>16. CASE Callback /\ task = "signal"
  <2>1. /\ event' = (\A s \in Receivers : ~At(s, "asleep")) /\ remained' = remained
        /\ rcv' = [s \in Receivers |-> IF At(s, "asleep") THEN [rcv[s] EXCEPT !.pc = "size"]
                                                          ELSE rcv[s]]
    BY <1>16 DEF Callback, RecvDataCallback
  <2>2. CASE At(r, "asleep")
    <3>1. rcv'[r] = [rcv[r] EXCEPT !.pc = "size"] BY <2>1, <2>2, <1>1
    <3>2. rcv'[r].pc = "size" BY <3>1, <1>1 DEF TypeOK
    <3>3. Attends(r)' /\ ~Attends(r) BY <2>2, <3>2 DEF Attends, At
    <3>4. One(Attends(r)) = 0 /\ One(Attends(r))' = 1 BY <3>3 DEF One
    <3>5. QED BY <3>4, <1>5
  <2>3. CASE ~At(r, "asleep")
    <3>1. event' BY <2>1, <2>3
    <3>2. rcv'[r] = rcv[r] BY <2>1, <2>3, <1>1
    <3>3. QED BY <3>1, <3>2, <2>1, <1>13 DEF Pending
  <2>4. QED BY <2>2, <2>3
<1>17. CASE Callback /\ task = "count"
  <2>1. /\ ir' = ir /\ event' = event /\ task' = "idle" /\ rcv' = rcv /\ remained' = remained
    BY <1>17 DEF Callback, RecvDataCallback, chip
  <2>2. (Pending' <=> Pending) /\ (Attends(r)' <=> Attends(r))
    BY <2>1, <1>17 DEF Pending, Attends, At
  <2>3. One(Pending)' = One(Pending) /\ One(Attends(r))' = One(Attends(r)) BY <2>2 DEF One
  <2>4. QED BY <2>3, <1>5
<1>18. IntData => \/ ReadIR \/ ClearIR
                  \/ Callback /\ task = "signal"
                  \/ Callback /\ task = "count"
  BY DEF IntData, Callback, RecvDataCallback
<1>19. QED
  BY <1>8, <1>9, <1>11, <1>12, <1>14, <1>15, <1>16, <1>17, <1>18

\* A call that has read the header of an empty datagram, or the last byte of any,
\* has one unread less to attend to; one that leaves a part is counted in short.
LEMMA ReadingKeepsAccount ==
    ASSUME NEW r, Receivers = {r}, AccountInv, PlaceInv', Fits', TakeHeader(r) \/ Payload(r)
    PROVE  Cardinality(Unread') <= Account(r)'
<1> USE UdpAssumption
<1>1. /\ PlaceInv /\ TypeOK /\ TypeOK' /\ Fits /\ r \in Receivers
      /\ merged \in Nat /\ short \in Nat /\ rd \in Nat /\ remained \in Nat
      /\ Cardinality(Unread) <= Account(r)
  BY WordsNat DEF AccountInv, PlaceInv, Accounts, Account, TypeOK
<1>2. Cardinality(Unread) \in Nat /\ Cardinality(Unread') \in Nat
  <2>1. Cardinality(Unread) \in Nat BY <1>1, UnreadFinite
  <2>2. (IsFiniteSet(Unread) /\ Cardinality(Unread) \in Nat)'
    BY <1>1, UnreadFinite, PTL
  <2>3. QED BY <2>1, <2>2
<1>3. /\ One(Pending) \in {0, 1} /\ One(Attends(r)) \in {0, 1}
      /\ One(Pending)' \in {0, 1} /\ One(Attends(r))' \in {0, 1}
  BY DEF One
<1>4. grams' = grams /\ merged' = merged /\ One(Pending)' = One(Pending)
  <2>1. UNCHANGED <<ir, task, event, grams, merged>> BY DEF TakeHeader, Payload
  <2>2. Pending' <=> Pending BY <2>1 DEF Pending
  <2>3. QED BY <2>1, <2>2 DEF One
<1>5. ASSUME NEW g \in Stored, End(g) = rd', rd < rd', short' = short
      PROVE  Cardinality(Unread') <= Account(r)'
  <2>1. rd' \in Nat /\ rd <= rd' BY <1>1, <1>5 DEF TypeOK
  <2>2. rd < End(g) /\ End(g) <= rd' BY <1>5, <2>1
  <2>3. Cardinality(Unread') + 1 <= Cardinality(Unread)
    BY <2>1, <2>2, <1>1, <1>4, UnreadFalls
  <2>4. QED BY <2>3, <1>1, <1>2, <1>3, <1>4, <1>5 DEF Account
<1>6. ASSUME rd <= rd' PROVE Cardinality(Unread') <= Cardinality(Unread)
  BY <1>1, <1>4, <1>6, UnreadFalls
<1>7. CASE TakeHeader(r)
  <2>1. short' = short /\ rcv[r].pc = "header" /\ ReadHeader(r)
    BY <1>7 DEF TakeHeader, At
  <2>2. rcv'[r].pc = "payload"
    <3>1. rcv \in [Receivers -> Receiver] BY <1>1 DEF TypeOK, Receiver
    <3>2. CASE \E s \in Peers \cup {Unset} :
                 rcv' = [rcv EXCEPT ![r].pc = "payload", ![r].from = s]
      BY <3>1, <3>2, <1>1 DEF Receiver
    <3>3. CASE Goto(r, "payload") BY <3>3, <1>1, GoesOn
    <3>4. \A g \in Stored : g.from \in Peers BY <1>1, StoredTyped DEF Gram
    <3>5. QED BY <2>1, <3>2, <3>3, <3>4 DEF ReadHeader
  <2>3. rd <= rd' BY <2>1, <1>1 DEF ReadHeader
  <2>4. One(Attends(r)) = 1 BY <2>1 DEF One, Attends
  <2>5. CASE remained' # 0
    <3>1. One(Attends(r))' = 1 BY <2>2, <2>5 DEF One, Attends, At
    <3>2. QED BY <2>1, <2>3, <2>4, <3>1, <1>1, <1>2, <1>3, <1>4, <1>6 DEF Account
  <2>6. CASE remained' = 0
    <3>1. remained = 0 BY <2>1, <2>6 DEF ReadHeader
    <3>2. \E g \in Stored : g.pos = rd BY <2>1, <3>1, <1>1 DEF PlaceInv, CallsReady, At
    <3>3. PICK g \in Stored : g.pos = rd /\ remained' = g.size
      BY <2>1, <3>1, <3>2 DEF ReadHeader
    <3>4. rd' = rd + Header BY <2>1, <3>1 DEF ReadHeader
    <3>5. End(g) = rd' /\ rd < rd' BY <3>3, <3>4, <2>6, <1>1 DEF End
    <3>6. QED BY <3>5, <2>1, <1>5
  <2>7. QED BY <2>5, <2>6
<1>8. CASE Payload(r)
  <2> DEFINE n == Least(rcv[r].len, remained)
  <2>1. n \in Nat /\ n <= remained BY <1>1, LeftIsLess
  <2>2. remained # 0 => n > 0
    <3>1. rcv[r].len > 0 /\ rcv[r].len \in Nat
      BY <1>1, <1>8 DEF PlaceInv, CallsReady, Payload, At, TypeOK
    <3>2. QED BY <3>1, <1>1 DEF Least
  <2> HIDE DEF n
  <2>3. rd' = rd + n /\ short' = IF n < remained THEN short + 1 ELSE short
    BY <1>8 DEF Payload, n
  <2>4. rd <= rd' BY <2>1, <2>3, <1>1
  <2>5. CASE remained = 0
    <3>1. short' = short BY <2>1, <2>3, <2>5
    <3>2. One(Attends(r)) = 0 BY <1>8, <2>5 DEF Payload, Attends, At, One
    <3>3. QED BY <2>4, <3>1, <3>2, <1>1, <1>2, <1>3, <1>4, <1>6 DEF Account
  <2>6. CASE remained # 0 /\ n < remained
    BY <2>3, <2>4, <2>6, <1>1, <1>2, <1>3, <1>4, <1>6 DEF Account
  <2>7. CASE remained # 0 /\ n = remained
    <3>1. PICK g \in Stored : rd + remained = End(g) BY <2>7, <1>1 DEF PlaceInv, Begun
    <3>2. End(g) = rd' /\ rd < rd' /\ short' = short BY <2>1, <2>2, <2>3, <2>7, <3>1, <1>1
    <3>3. QED BY <3>2, <1>5
  <2>8. QED BY <2>1, <2>5, <2>6, <2>7, <1>1
<1>9. QED BY <1>7, <1>8

LEMMA OthersKeepAccount ==
    ASSUME NEW r, Receivers = {r}, AccountInv, PlaceInv', Fits',
           LeaveGroup \/ JoinGroup \/ PeerSend \/ UNCHANGED vars
    PROVE  Cardinality(Unread') <= Account(r)'
<1> USE UdpAssumption
<1>1. /\ PlaceInv /\ TypeOK /\ TypeOK' /\ Fits
      /\ merged \in Nat /\ short \in Nat /\ merged' \in Nat /\ short' \in Nat
      /\ Cardinality(Unread) <= Account(r)
  BY DEF AccountInv, PlaceInv, Accounts, Account, TypeOK
<1>2. Cardinality(Unread) \in Nat /\ Cardinality(Unread') \in Nat
  <2>1. Cardinality(Unread) \in Nat BY <1>1, UnreadFinite
  <2>2. (IsFiniteSet(Unread) /\ Cardinality(Unread) \in Nat)'
    BY <1>1, UnreadFinite, PTL
  <2>3. QED BY <2>1, <2>2
<1>3. /\ One(Pending) \in {0, 1} /\ One(Attends(r)) \in {0, 1}
      /\ One(Pending)' \in {0, 1} /\ One(Attends(r))' \in {0, 1}
  BY DEF One
<1>4. CASE LeaveGroup \/ JoinGroup
  <2>1. rd' = wr'
    <3>1. CASE LeaveGroup BY <3>1 DEF LeaveGroup
    <3>2. CASE JoinGroup
      <4>1. rd = wr BY <3>2, <1>1 DEF PlaceInv, Reopening, JoinGroup
      <4>2. QED BY <4>1, <3>2 DEF JoinGroup
    <3>3. QED BY <1>4, <3>1, <3>2
  <2>2. (rd = wr /\ TypeOK /\ Fits => Cardinality(Unread) = 0)' BY NothingUnread, PTL
  <2>3. Cardinality(Unread') = 0 BY <2>1, <2>2, <1>1
  <2>4. QED BY <2>3, <1>1, <1>3 DEF Account
<1>5. CASE PeerSend
  <2>1. PICK p \in Peers, n \in Sizes :
          grams' = Append(grams, [pos |-> wr, from |-> p, size |-> n])
    BY <1>5 DEF PeerSend
  <2>2. n \in Nat
    <3>1. Sizes \subseteq Nat BY WordsNat
    <3>2. QED BY <2>1, <3>1
  <2> DEFINE new == [pos |-> wr, from |-> p, size |-> n]
  <2>3. new \in Gram BY <1>1, <2>1, <2>2 DEF Gram, TypeOK
  <2>4. grams' = Append(grams, new) BY <2>1
  <2> HIDE DEF new
  <2>5. /\ rd' = rd /\ short' = short /\ rcv' = rcv /\ remained' = remained
        /\ ir' = {"RECV"} /\ merged' = IF Pending THEN merged + 1 ELSE merged
    BY <1>5 DEF PeerSend
  <2>6. Cardinality(Unread') <= Cardinality(Unread) + 1 BY <1>1, <2>3, <2>4, <2>5, UnreadGrows
  <2>7. Pending' BY <2>5 DEF Pending
  <2>8. One(Pending)' = 1 BY <2>7 DEF One
  <2>9. One(Attends(r))' = One(Attends(r))
    <3>1. Attends(r)' <=> Attends(r) BY <2>5 DEF Attends, At
    <3>2. QED BY <3>1 DEF One
  <2>10. merged' + One(Pending)' = merged + One(Pending) + 1
    <3>1. CASE Pending BY <3>1, <2>5, <2>8, <1>1 DEF One
    <3>2. CASE ~Pending BY <3>2, <2>5, <2>8, <1>1 DEF One
    <3>3. QED BY <3>1, <3>2
  <2>11. QED BY <2>5, <2>6, <2>9, <2>10, <1>1, <1>2, <1>3 DEF Account
<1>6. CASE UNCHANGED vars
  <2>1. /\ Unread' = Unread /\ merged' = merged /\ short' = short
        /\ (Pending' <=> Pending) /\ (Attends(r)' <=> Attends(r))
    BY <1>6 DEF vars, chip, Unread, Pending, Attends, At
  <2>2. One(Pending)' = One(Pending) /\ One(Attends(r))' = One(Attends(r)) BY <2>1 DEF One
  <2>3. QED BY <2>1, <2>2, <1>1 DEF Account
<1>7. QED BY <1>4, <1>5, <1>6

LEMMA AccountKept ==
    ASSUME NEW r, Receivers = {r}, AccountInv, [Next]_vars
    PROVE  AccountInv'
<1>1. PlaceInv /\ Fits BY DEF AccountInv
<1>2. PlaceInv' BY <1>1, PlaceKept
<1>3. Fits' BY <1>1, <1>2, FitsKept DEF PlaceInv
<1>4. \/ Call(r) \/ Again(r) \/ Wait(r) \/ TimeOut(r) \/ Size(r) \/ Remained(r)
      \/ Exit(r) \/ Drained(r) \/ Clean(r) \/ IntData
      \/ TakeHeader(r) \/ Payload(r) \/ LeaveGroup \/ JoinGroup \/ PeerSend
      \/ UNCHANGED vars
  BY DEF Next, Progress
<1>5. Cardinality(Unread') <= Account(r)'
  BY <1>2, <1>3, <1>4, QuietKeepsAccount, ReadingKeepsAccount, OthersKeepAccount DEF PlaceInv
<1>6. Accounts' BY <1>5 DEF Accounts, Account
<1>7. QED BY <1>2, <1>3, <1>6 DEF AccountInv

LEMMA AccountInitial == ASSUME NEW r, Receivers = {r}, Init PROVE AccountInv
<1> USE UdpAssumption
<1>1. PlaceInv BY PlaceInitial
<1>2. Stored = {} /\ rd = 0 /\ wr = 0 /\ merged = 0 /\ short = 0 BY DEF Init, Stored
<1>3. Fits BY <1>2 DEF Fits
<1>4. Cardinality(Unread) = 0 BY <1>1, <1>2, <1>3, NothingUnread DEF PlaceInv
<1>5. One(Pending) \in {0, 1} /\ One(Attends(r)) \in {0, 1} BY DEF One
<1>6. Accounts BY <1>2, <1>4, <1>5 DEF Accounts
<1>7. QED BY <1>1, <1>3, <1>6 DEF AccountInv

\* With one receiving thread a datagram stays unread without a call that is going
\* to read it, or a signal that wakes one, only when it came while the signal of
\* an earlier one was pending, or is the rest of one that was read in part.
THEOREM UnreadAlwaysAccounted ==
    ASSUME NEW r, Receivers = {r}
    PROVE  Spec => []UnreadAccounted
<1>1. Init => AccountInv BY AccountInitial
<1>2. AccountInv /\ [Next]_vars => AccountInv' BY AccountKept
<1>3. ASSUME AccountInv PROVE UnreadAccounted
  <2>1. /\ TypeOK /\ merged \in Nat /\ short \in Nat /\ Cardinality(Unread) \in Nat
        /\ Cardinality(Unread) <= merged + short + One(Pending) + One(Attends(r))
    BY <1>3, UnreadFinite DEF AccountInv, PlaceInv, Accounts, TypeOK
  <2>2. One(Pending) <= Signals /\ Signals \in Nat
    <3> DEFINE S == {x \in {"ir", "task", "event"} :
                       \/ x = "ir" /\ ir # {}
                       \/ x = "task" /\ task \in {"clear", "signal"}
                       \/ x = "event" /\ event}
    <3>1. IsFiniteSet({"ir", "task", "event"})
      <4>1. IsFiniteSet({"ir"} \cup {"task"}) BY FS_Singleton, FS_AddElement
      <4>2. IsFiniteSet(({"ir"} \cup {"task"}) \cup {"event"}) BY <4>1, FS_AddElement
      <4>3. {"ir", "task", "event"} = ({"ir"} \cup {"task"}) \cup {"event"} OBVIOUS
      <4>4. QED BY <4>2, <4>3
    <3>2. S \in SUBSET {"ir", "task", "event"} OBVIOUS
    <3>3. IsFiniteSet(S) BY <3>1, <3>2, FS_Subset
    <3>4. Cardinality(S) \in Nat BY <3>3, FS_CardinalityType
    <3>5. Pending => S # {} BY DEF Pending
    <3>6. Pending => Cardinality(S) # 0 BY <3>3, <3>5, FS_EmptySet
    <3>7. Signals = Cardinality(S) BY DEF Signals
    <3> HIDE DEF S
    <3>8. QED BY <3>4, <3>6, <3>7 DEF One
  <2>3. One(Attends(r)) <= Cardinality(Reading) /\ Cardinality(Reading) \in Nat
    <3>1. IsFiniteSet({r}) BY FS_Singleton
    <3>2. Reading \in SUBSET {r} BY DEF Reading
    <3>3. IsFiniteSet(Reading) BY <3>1, <3>2, FS_Subset
    <3>4. Cardinality(Reading) \in Nat BY <3>3, FS_CardinalityType
    <3>5. Attends(r) => Reading # {} BY DEF Attends, Reading, At
    <3>6. Attends(r) => Cardinality(Reading) # 0 BY <3>3, <3>5, FS_EmptySet
    <3>7. QED BY <3>4, <3>6 DEF One
  <2>4. One(Pending) \in Nat /\ One(Attends(r)) \in Nat BY DEF One
  <2>5. QED BY <2>1, <2>2, <2>3, <2>4 DEF UnreadAccounted
<1>4. QED BY <1>1, <1>2, <1>3, PTL DEF Spec

-----------------------------------------------------------------------------
(* The refinement: what one receiver sees is a queue of datagrams          *)

\* Datagrams lie behind one another, in the order of the sequence.
InOrder == \A i, j \in 1 .. Len(grams) : i < j => End(grams[i]) <= grams[j].pos

\* A header was read and nothing remains.
Emptied == \E r \in Receivers : At(r, "payload") /\ remained = 0

\* Only an empty datagram leaves nothing behind its header, and its sender is the
\* one that the call is going to name.
EmptyBegun == \A r \in Receivers : At(r, "payload") /\ remained = 0 =>
    \E g \in Stored : g.size = 0 /\ End(g) = rd /\ rcv[r].from = g.from

QueueInv == PlaceInv /\ Fits /\ InOrder /\ EmptyBegun

\* The first k datagrams have been returned, the others wait.
DoneUpTo(k) == /\ k \in 0 .. Len(grams)
               /\ \A i \in 1 .. Len(grams) : Waiting(grams[i]) <=> i > k

\* The k-th datagram is the one at the read pointer.
IsHead(k) == /\ k \in 1 .. Len(grams)
             /\ grams[k].pos <= rd /\ rd <= End(grams[k])
             /\ Emptied => grams[k].pos < rd
             /\ ~Emptied => rd < End(grams[k])

Entries == [from : Peers, begun : BOOLEAN, left : Int]

LEMMA GramTyped ==
    ASSUME TypeOK, NEW i \in 1 .. Len(grams)
    PROVE  /\ grams[i] \in Gram /\ grams[i] \in Stored
           /\ grams[i].pos \in Nat /\ grams[i].size \in Nat /\ grams[i].from \in Peers
           /\ End(grams[i]) = grams[i].pos + Header + grams[i].size /\ End(grams[i]) \in Nat
           /\ grams[i].pos + Header <= End(grams[i]) /\ grams[i].pos < End(grams[i])
<1>1. grams[i] \in Stored BY DEF Stored
<1>2. grams[i] \in Gram BY <1>1, StoredTyped
<1>3. Sizes \subseteq Nat /\ Header \in Nat \ {0} BY UdpAssumption, WordsNat
<1>4. grams[i].pos \in Nat /\ grams[i].size \in Nat /\ grams[i].from \in Peers
  BY <1>2, <1>3 DEF Gram
<1>5. End(grams[i]) = grams[i].pos + Header + grams[i].size BY DEF End
<1>6. QED BY <1>1, <1>2, <1>3, <1>4, <1>5

LEMMA WaitingIs ==
    \A w : Waiting(w) <=> End(w) > rd \/ (Emptied /\ End(w) = rd)
BY DEF Waiting, Emptied

\* In front of the datagram at the read pointer all have been returned, and behind
\* it none has.
LEMMA HeadDone ==
    ASSUME TypeOK, InOrder, NEW k, IsHead(k)
    PROVE  DoneUpTo(k - 1)
<1>1. k \in 1 .. Len(grams) /\ Len(grams) \in Nat /\ rd \in Nat BY DEF IsHead, TypeOK
<1>2. ASSUME NEW i \in 1 .. Len(grams), i < k PROVE ~Waiting(grams[i])
  <2>1. End(grams[i]) <= grams[k].pos BY <1>1, <1>2 DEF InOrder
  <2>2. End(grams[i]) \in Nat /\ grams[k].pos \in Nat BY <1>1, GramTyped
  <2>3. grams[k].pos <= rd /\ (Emptied => grams[k].pos < rd) BY DEF IsHead
  <2>4. QED BY <1>1, <2>1, <2>2, <2>3, WaitingIs
<1>3. Waiting(grams[k])
  <2>1. End(grams[k]) \in Nat BY <1>1, GramTyped
  <2>2. rd <= End(grams[k]) /\ (~Emptied => rd < End(grams[k])) BY DEF IsHead
  <2>3. QED BY <1>1, <2>1, <2>2, WaitingIs
<1>4. ASSUME NEW i \in 1 .. Len(grams), k < i PROVE Waiting(grams[i])
  <2>1. End(grams[k]) <= grams[i].pos BY <1>1, <1>4 DEF InOrder
  <2>2. /\ End(grams[k]) \in Nat /\ grams[i].pos \in Nat /\ End(grams[i]) \in Nat
        /\ grams[i].pos < End(grams[i])
    BY <1>1, GramTyped
  <2>3. rd <= End(grams[k]) BY DEF IsHead
  <2>4. QED BY <1>1, <2>1, <2>2, <2>3, WaitingIs
<1>5. k - 1 \in 0 .. Len(grams) BY <1>1
<1>6. ASSUME NEW i \in 1 .. Len(grams) PROVE Waiting(grams[i]) <=> i > k - 1
  <2>1. CASE i < k BY <2>1, <1>1, <1>2
  <2>2. CASE i = k BY <2>2, <1>1, <1>3
  <2>3. CASE k < i BY <2>3, <1>1, <1>4
  <2>4. QED BY <1>1, <2>1, <2>2, <2>3
<1>7. QED BY <1>5, <1>6 DEF DoneUpTo

\* The queue is what lies behind the datagrams that have been returned.
LEMMA QueueIs ==
    ASSUME TypeOK, NEW k, DoneUpTo(k)
    PROVE  /\ Queue \in Seq(Entries)
           /\ Len(Queue) = Len(grams) - k
           /\ \A i \in 1 .. Len(grams) - k : Queue[i] = Abstract(grams[k + i])
<1>1. k \in 0 .. Len(grams) /\ Len(grams) \in Nat /\ rd \in Nat BY DEF DoneUpTo, TypeOK
<1>2. {i \in 1 .. Len(grams) : ~Waiting(grams[i])} = 1 .. k
  BY <1>1 DEF DoneUpTo
<1>3. Read = k
  <2>1. Cardinality(1 .. k) = IF 1 > k THEN 0 ELSE k - 1 + 1 BY <1>1, FS_Interval
  <2>2. (IF 1 > k THEN 0 ELSE k - 1 + 1) = k BY <1>1
  <2>3. Read = Cardinality(1 .. k) BY <1>2 DEF Read
  <2>4. QED BY <2>1, <2>2, <2>3
<1> DEFINE n == Len(grams) - k
<1>4. n \in Nat BY <1>1
<1>5. Queue = [i \in 1 .. n |-> Abstract(grams[k + i])] BY <1>3 DEF Queue
<1>6. ASSUME NEW i \in 1 .. n PROVE Abstract(grams[k + i]) \in Entries
  <2>1. k + i \in 1 .. Len(grams) BY <1>1 DEF n
  <2> DEFINE g == grams[k + i]
  <2>2. g.from \in Peers /\ g.size \in Nat /\ End(g) \in Nat BY <2>1, GramTyped
  <2> HIDE DEF g
  <2>3. (rd > g.pos + Header) \in BOOLEAN OBVIOUS
  <2>4. (IF rd > g.pos + Header THEN End(g) - rd ELSE g.size) \in Int BY <1>1, <2>2
  <2>5. Abstract(g) \in Entries BY <2>2, <2>3, <2>4 DEF Abstract, Entries
  <2>6. QED BY <2>5 DEF g
<1> HIDE DEF n
<1>7. Queue \in [1 .. n -> Entries] BY <1>5, <1>6
<1>8. Queue \in Seq(Entries) BY <1>4, <1>7
<1>9. Len(Queue) = n BY <1>4, <1>7, <1>8
<1>10. QED BY <1>5, <1>8, <1>9 DEF n

\* There is always a place up to which the datagrams have been returned.
LEMMA SomeAreDone ==
    ASSUME QueueInv
    PROVE  \E k : DoneUpTo(k)
<1>1. /\ TypeOK /\ InOrder /\ EmptyBegun /\ Fits
      /\ remained = 0 => Aligned
      /\ remained # 0 => Begun
      /\ rd \in Nat /\ remained \in Nat /\ Header \in Nat \ {0}
  BY UdpAssumption, WordsNat DEF QueueInv, PlaceInv, TypeOK
<1>2. ASSUME NEW g \in Stored, g.pos <= rd, rd <= End(g),
             Emptied => g.pos < rd, ~Emptied => rd < End(g)
      PROVE  \E k : DoneUpTo(k)
  <2>1. PICK k \in 1 .. Len(grams) : g = grams[k] BY <1>2 DEF Stored
  <2>2. IsHead(k) BY <1>2, <2>1 DEF IsHead
  <2>3. QED BY <1>1, <2>2, HeadDone
<1>3. \A g \in Stored : /\ g.pos \in Nat /\ End(g) \in Nat
                        /\ g.pos + Header <= End(g)
  BY <1>1, GramTyped DEF Stored
<1>4. CASE remained # 0
  <2>1. PICK g \in Stored : g.pos + Header <= rd /\ rd + remained = End(g)
    BY <1>4, <1>1 DEF Begun
  <2>2. ~Emptied BY <1>4 DEF Emptied
  <2>3. QED BY <1>1, <1>2, <1>3, <1>4, <2>1, <2>2
<1>5. CASE remained = 0 /\ Emptied
  <2>1. PICK g \in Stored : g.size = 0 /\ End(g) = rd
    BY <1>5, <1>1 DEF Emptied, EmptyBegun
  <2>2. QED BY <1>1, <1>2, <1>3, <1>5, <2>1
<1>6. CASE remained = 0 /\ ~Emptied
  <2>1. CASE \E g \in Stored : g.pos = rd
    <3>1. PICK g \in Stored : g.pos = rd BY <2>1
    <3>2. QED BY <1>1, <1>2, <1>3, <1>6, <3>1
  <2>2. CASE rd = wr
    <3>1. \A i \in 1 .. Len(grams) : End(grams[i]) <= rd /\ End(grams[i]) \in Nat
      BY <2>2, <1>1, GramTyped DEF Fits
    <3>2. \A i \in 1 .. Len(grams) : ~Waiting(grams[i]) BY <3>1, <1>1, <1>6, WaitingIs
    <3>3. Len(grams) \in Nat BY <1>1 DEF TypeOK
    <3>4. DoneUpTo(Len(grams)) BY <3>2, <3>3 DEF DoneUpTo
    <3>5. QED BY <3>4
  <2>3. QED BY <1>6, <2>1, <2>2, <1>1 DEF Aligned
<1>7. QED BY <1>4, <1>5, <1>6

\* Of a datagram whose data has not been touched all is left.
LEMMA AbstractFresh ==
    \A h : TypeOK /\ h \in Stored /\ rd <= h.pos + Header =>
        Abstract(h) = [from |-> h.from, begun |-> FALSE, left |-> h.size]
<1> SUFFICES ASSUME TypeOK, NEW g \in Stored, rd <= g.pos + Header
             PROVE  Abstract(g) = [from |-> g.from, begun |-> FALSE, left |-> g.size]
  OBVIOUS
<1>1. g \in Gram /\ Header \in Nat /\ rd \in Nat BY StoredTyped, UdpAssumption DEF TypeOK
<1>2. g.pos \in Nat BY <1>1 DEF Gram
<1>3. ~(rd > g.pos + Header) BY <1>1, <1>2
<1>4. (rd > g.pos + Header) = FALSE BY <1>3
<1>5. QED BY <1>3, <1>4 DEF Abstract

LEMMA OrderKept ==
    ASSUME NEW r, Receivers = {r}, PlaceInv, Fits, InOrder, TypeOK', [Next]_vars
    PROVE  InOrder'
<1>1. TypeOK BY DEF PlaceInv
<1>2. CASE grams' = grams BY <1>2 DEF InOrder, End
<1>3. CASE PeerSend
  <2>1. PICK p \in Peers, n \in Sizes : grams' = Append(grams, [pos |-> wr, from |-> p, size |-> n])
    BY <1>3 DEF PeerSend
  <2> DEFINE new == [pos |-> wr, from |-> p, size |-> n]
  <2>2. new \in Gram /\ new.pos = wr
    <3>1. n \in Sizes /\ wr \in Nat BY <1>1 DEF TypeOK
    <3>2. QED BY <3>1 DEF Gram
  <2>3. grams \in Seq(Gram) BY <1>1 DEF TypeOK, Gram
  <2>4. grams' = Append(grams, new) BY <2>1
  <2> HIDE DEF new
  <2>5. /\ Len(grams') = Len(grams) + 1 /\ Len(grams) \in Nat
        /\ \A i \in 1 .. Len(grams) : grams'[i] = grams[i]
        /\ grams'[Len(grams) + 1] = new
    BY <2>2, <2>3, <2>4, AppendProperties, LenProperties
  <2>6. ASSUME NEW i \in 1 .. Len(grams'), NEW j \in 1 .. Len(grams'), i < j
        PROVE  End(grams'[i]) <= grams'[j].pos
    <3>1. i \in 1 .. Len(grams) BY <2>5, <2>6
    <3>2. CASE j \in 1 .. Len(grams) BY <2>5, <2>6, <3>1, <3>2 DEF InOrder
    <3>3. CASE j = Len(grams) + 1
      <4>1. End(grams[i]) <= wr BY <3>1 DEF Fits, Stored
      <4>2. QED BY <2>2, <2>5, <3>1, <3>3, <4>1
    <3>4. QED BY <2>5, <3>2, <3>3
  <2>7. \A g : End(g)' = End(g') BY DEF End
  <2>8. QED BY <2>6 DEF InOrder, End
<1>4. \/ PeerSend \/ grams' = grams
  BY DEF Next, Progress, IntData, Call, Again, Wait, TimeOut, Size, Remained, TakeHeader,
         Payload, Exit, Drained, Clean, ReadIR, ClearIR, Callback, LeaveGroup, JoinGroup,
         vars, chip
<1>5. QED BY <1>2, <1>3, <1>4

\* What TakeHeader reads: with nothing begun, the header of the next datagram.
LEMMA HeaderRead ==
    ASSUME NEW r, Receivers = {r}, PlaceInv, TakeHeader(r), remained = 0
    PROVE  \E g \in Stored : /\ g.pos = rd /\ rd' = g.pos + Header /\ remained' = g.size
                             /\ rcv'[r].pc = "payload" /\ rcv'[r].from = g.from
<1>1. /\ TypeOK /\ rcv[r].pc = "header" /\ ReadHeader(r)
      /\ rcv \in [Receivers -> Receiver]
  BY DEF PlaceInv, TakeHeader, At, TypeOK, Receiver
<1>2. \E g \in Stored : g.pos = rd BY <1>1 DEF PlaceInv, CallsReady, At
<1>3. PICK g \in Stored : /\ g.pos = rd /\ remained' = g.size
                          /\ rcv' = [rcv EXCEPT ![r].pc = "payload", ![r].from = g.from]
  BY <1>1, <1>2 DEF ReadHeader
<1>4. rd' = rd + Header BY <1>1 DEF ReadHeader
<1>5. rcv'[r].pc = "payload" /\ rcv'[r].from = g.from BY <1>1, <1>3 DEF Receiver
<1>6. QED BY <1>3, <1>4, <1>5

LEMMA EmptyKept ==
    ASSUME NEW r, Receivers = {r}, PlaceInv, EmptyBegun, TypeOK', [Next]_vars
    PROVE  EmptyBegun'
<1>1. TypeOK /\ rd \in Nat /\ remained \in Nat BY WordsNat DEF PlaceInv, TypeOK
<1>2. ASSUME UNCHANGED <<rd, remained>>, Stored \subseteq Stored',
             rcv'[r] = rcv[r] \/ rcv'[r].pc # "payload"
      PROVE  EmptyBegun'
  BY <1>2 DEF EmptyBegun, At, End
<1>3. CASE \/ Call(r) \/ Again(r) \/ Wait(r) \/ TimeOut(r) \/ Size(r) \/ Remained(r)
           \/ Exit(r) \/ Drained(r) \/ Clean(r) \/ IntData
  <2>1. Quiet(r) BY <1>3, QuietSteps
  <2>2. QED BY <2>1, <1>2 DEF Quiet, Stored
<1>4. CASE TakeHeader(r)
  <2>1. Stored' = Stored BY <1>4 DEF TakeHeader, Stored
  <2>2. CASE remained # 0
    <3>1. remained' # 0 BY <2>2, <1>4 DEF TakeHeader, ReadHeader
    <3>2. QED BY <3>1 DEF EmptyBegun
  <2>3. CASE remained = 0
    <3>1. PICK g \in Stored : /\ g.pos = rd /\ rd' = g.pos + Header /\ remained' = g.size
                              /\ rcv'[r].pc = "payload" /\ rcv'[r].from = g.from
      BY <2>3, <1>4, HeaderRead
    <3>2. rd' \in Nat BY DEF TypeOK
    <3>3. remained' = 0 => End(g) = rd' BY <3>1, <3>2 DEF End
    <3>4. QED BY <2>1, <3>1, <3>3 DEF EmptyBegun, End
  <2>4. QED BY <2>2, <2>3
<1>5. CASE Payload(r)
  <2>1. rcv'[r].pc = "exit" BY <1>1, <1>5 DEF Payload, TypeOK
  <2>2. QED BY <2>1 DEF EmptyBegun, At
<1>6. CASE LeaveGroup \/ JoinGroup
  <2>1. rcv' = rcv /\ rcv[r].pc = "idle"
    <3>1. CASE LeaveGroup BY <3>1 DEF LeaveGroup, At
    <3>2. CASE JoinGroup BY <3>2 DEF JoinGroup, PlaceInv, Reopening, At
    <3>3. QED BY <1>6, <3>1, <3>2
  <2>2. QED BY <2>1 DEF EmptyBegun, At
<1>7. CASE PeerSend
  <2>1. PICK p \in Peers, n \in Sizes : grams' = Append(grams, [pos |-> wr, from |-> p, size |-> n])
    BY <1>7 DEF PeerSend
  <2> DEFINE new == [pos |-> wr, from |-> p, size |-> n]
  <2>2. new \in Gram
    <3>1. n \in Sizes /\ wr \in Nat BY <1>1 DEF TypeOK
    <3>2. QED BY <3>1 DEF Gram
  <2>3. grams' = Append(grams, new) BY <2>1
  <2> HIDE DEF new
  <2>4. Stored' = Stored \cup {new} BY <1>1, <2>2, <2>3, StoredGrows
  <2>5. QED BY <2>4, <1>2, <1>7 DEF PeerSend
<1>8. CASE UNCHANGED vars BY <1>2, <1>8 DEF vars, chip, Stored
<1>9. QED BY <1>3, <1>4, <1>5, <1>6, <1>7, <1>8 DEF Next, Progress

LEMMA QueueInitial == ASSUME NEW r, Receivers = {r}, Init PROVE QueueInv
<1>1. PlaceInv /\ Fits BY AccountInitial DEF AccountInv
<1>2. grams = <<>> /\ rcv = [q \in Receivers |-> Idle] BY DEF Init
<1>3. InOrder BY <1>2 DEF InOrder
<1>4. EmptyBegun BY <1>2 DEF EmptyBegun, At, Idle
<1>5. QED BY <1>1, <1>3, <1>4 DEF QueueInv

LEMMA QueueKept ==
    ASSUME NEW r, Receivers = {r}, QueueInv, [Next]_vars
    PROVE  QueueInv'
<1>1. PlaceInv /\ Fits /\ InOrder /\ EmptyBegun BY DEF QueueInv
<1>2. PlaceInv' BY <1>1, PlaceKept
<1>3. TypeOK' BY <1>2 DEF PlaceInv
<1>4. QED BY <1>1, <1>2, <1>3, FitsKept, OrderKept, EmptyKept DEF QueueInv

-----------------------------------------------------------------------------
(* Every step is one of the queue, or none                                 *)

\* The lemmas above as formulas, to be used before and after a step.
LEMMA HeadsDone == \A j : TypeOK /\ InOrder /\ IsHead(j) => DoneUpTo(j - 1)
BY HeadDone

LEMMA QueuesAre ==
    \A j : TypeOK /\ DoneUpTo(j) =>
        /\ Queue \in Seq(Entries)
        /\ Len(Queue) = Len(grams) - j
        /\ \A i \in 1 .. Len(grams) - j : Queue[i] = Abstract(grams[j + i])
BY QueueIs

LEMMA QueueStays ==
    ASSUME TypeOK, TypeOK', grams' = grams, NEW k, DoneUpTo(k), DoneUpTo(k)',
           \A i \in 1 .. Len(grams) - k : Abstract(grams[k + i])' = Abstract(grams[k + i])
    PROVE  Queue' = Queue
<1>1. /\ Queue \in Seq(Entries) /\ Len(Queue) = Len(grams) - k
      /\ \A i \in 1 .. Len(grams) - k : Queue[i] = Abstract(grams[k + i])
  BY QueueIs
<1>2. (\A j : TypeOK /\ DoneUpTo(j) =>
        /\ Queue \in Seq(Entries)
        /\ Len(Queue) = Len(grams) - j
        /\ \A i \in 1 .. Len(grams) - j : Queue[i] = Abstract(grams[j + i]))'
  BY QueuesAre, PTL
<1>3. /\ Queue' \in Seq(Entries) /\ Len(Queue') = Len(grams) - k
      /\ \A i \in 1 .. Len(grams) - k : Queue'[i] = Abstract(grams[k + i])
  <2>1. Entries' = Entries BY DEF Entries
  <2>2. QED BY <1>2, <2>1
<1> DEFINE q == Queue
           p == Queue'
<1>4. Len(p) = Len(q) /\ \A i \in 1 .. Len(q) : p[i] = q[i] BY <1>1, <1>3
<1>5. p \in Seq(Entries) /\ q \in Seq(Entries) BY <1>1, <1>3
<1> HIDE DEF p, q
<1>6. p = q BY <1>4, <1>5, SeqEqual
<1>7. QED BY <1>6 DEF p, q

\* A step that leaves the read pointer where it is.
LEMMA QueueUnmoved ==
    ASSUME QueueInv, TypeOK', grams' = grams, rd' = rd, Emptied' <=> Emptied
    PROVE  Queue' = Queue
<1>1. TypeOK BY DEF QueueInv, PlaceInv
<1>2. PICK k : DoneUpTo(k) BY SomeAreDone
<1>3. (\A w : Waiting(w) <=> End(w) > rd \/ (Emptied /\ End(w) = rd))' BY WaitingIs, PTL
<1>4. \A i \in 1 .. Len(grams) : Waiting(grams[i])' <=> Waiting(grams[i])
  <2>1. \A i : End(grams[i])' = End(grams[i]) BY DEF End
  <2>2. QED BY <1>3, <2>1, WaitingIs
<1>5. DoneUpTo(k)' BY <1>2, <1>4 DEF DoneUpTo
<1>6. \A i : Abstract(grams[i])' = Abstract(grams[i]) BY DEF Abstract, End
<1>7. QED BY <1>1, <1>2, <1>5, <1>6, QueueStays

\* Reading a header takes nothing from the queue.
LEMMA HeaderIsNoStep ==
    ASSUME NEW r, Receivers = {r}, QueueInv, QueueInv', TakeHeader(r)
    PROVE  Queue' = Queue
<1>1. /\ TypeOK /\ TypeOK' /\ PlaceInv /\ InOrder /\ InOrder'
      /\ grams' = grams /\ rcv[r].pc = "header"
      /\ rd \in Nat /\ rd' \in Nat /\ remained \in Nat /\ Header \in Nat \ {0}
  BY UdpAssumption, WordsNat DEF QueueInv, PlaceInv, TakeHeader, At, TypeOK
<1>2. ~Emptied BY <1>1 DEF Emptied, At
<1>3. CASE remained # 0
  <2>1. rd' = rd /\ remained' = remained BY <1>3 DEF TakeHeader, ReadHeader
  <2>2. ~Emptied' BY <1>3, <2>1 DEF Emptied
  <2>3. QED BY <1>1, <1>2, <2>1, <2>2, QueueUnmoved
<1>4. CASE remained = 0
  <2>1. PICK g \in Stored : /\ g.pos = rd /\ rd' = g.pos + Header /\ remained' = g.size
                            /\ rcv'[r].pc = "payload"
    BY <1>1, <1>4, HeaderRead
  <2>2. PICK k \in 1 .. Len(grams) : g = grams[k] BY <2>1 DEF Stored
  <2>3. /\ g.pos \in Nat /\ g.size \in Nat /\ End(g) = g.pos + Header + g.size
        /\ End(g) \in Nat
    BY <1>1, <2>2, GramTyped
  <2>4. IsHead(k) BY <1>1, <1>2, <2>1, <2>2, <2>3 DEF IsHead
  <2>5. Emptied' <=> g.size = 0 BY <2>1 DEF Emptied, At
  <2>6. End(grams[k])' = End(g) BY <1>1, <2>2 DEF End
  <2>7. IsHead(k)' BY <1>1, <2>1, <2>2, <2>3, <2>5, <2>6 DEF IsHead
  <2>8. (\A j : TypeOK /\ InOrder /\ IsHead(j) => DoneUpTo(j - 1))' BY HeadsDone, PTL
  <2>9. DoneUpTo(k - 1) /\ DoneUpTo(k - 1)' BY <1>1, <2>4, <2>7, <2>8, HeadDone
  <2>10. (\A h : TypeOK /\ h \in Stored /\ rd <= h.pos + Header =>
            Abstract(h) = [from |-> h.from, begun |-> FALSE, left |-> h.size])'
    BY AbstractFresh, PTL
  <2>11. ASSUME NEW i \in 1 .. Len(grams), k <= i
         PROVE  Abstract(grams[i])' = Abstract(grams[i])
    <3> DEFINE h == grams[i]
    <3>1. h \in Stored /\ h \in Stored' /\ h.pos \in Nat BY <1>1, GramTyped DEF Stored
    <3>2. rd <= h.pos + Header /\ rd' <= h.pos + Header
      <4>1. CASE k = i BY <4>1, <1>1, <2>1, <2>2, <2>3, <3>1
      <4>2. CASE k < i
        <5>1. End(g) <= h.pos BY <4>2, <1>1, <2>2 DEF InOrder
        <5>2. QED BY <5>1, <1>1, <2>1, <2>3, <3>1
      <4>3. Len(grams) \in Nat BY <1>1 DEF TypeOK
      <4>4. QED BY <2>11, <4>1, <4>2, <4>3
    <3>3. Abstract(h) = [from |-> h.from, begun |-> FALSE, left |-> h.size]
      BY <1>1, <3>1, <3>2, AbstractFresh
    <3>4. Abstract(h)' = [from |-> h.from, begun |-> FALSE, left |-> h.size]
      BY <1>1, <2>10, <3>1, <3>2
    <3>5. QED BY <1>1, <3>3, <3>4
  <2>12. Len(grams) \in Nat BY <1>1 DEF TypeOK
  <2>13. \A i \in 1 .. Len(grams) - (k - 1) :
           Abstract(grams[k - 1 + i])' = Abstract(grams[k - 1 + i])
    <3> SUFFICES ASSUME NEW i \in 1 .. Len(grams) - (k - 1)
                 PROVE  Abstract(grams[k - 1 + i])' = Abstract(grams[k - 1 + i])
      OBVIOUS
    <3>1. k - 1 + i \in 1 .. Len(grams) /\ k <= k - 1 + i BY <2>12
    <3>2. QED BY <2>11, <3>1
  <2>14. QED BY <1>1, <2>9, <2>13, QueueStays
<1>5. QED BY <1>3, <1>4

\* The datagram that a call copies bytes of is the first of the queue.
LEMMA PayloadAt ==
    ASSUME NEW r, Receivers = {r}, QueueInv, Payload(r)
    PROVE  \E k \in 1 .. Len(grams) :
             /\ IsHead(k)
             /\ grams[k].pos + Header <= rd /\ rd + remained = End(grams[k])
             /\ rcv[r].from = IF rd = grams[k].pos + Header THEN grams[k].from ELSE Unset
<1>1. /\ TypeOK /\ At(r, "payload") /\ rd \in Nat /\ remained \in Nat /\ Header \in Nat \ {0}
  BY UdpAssumption, WordsNat DEF QueueInv, PlaceInv, Payload, TypeOK
<1>2. ASSUME NEW g \in Stored, g.pos + Header <= rd, rd + remained = End(g),
             rcv[r].from = IF rd = g.pos + Header THEN g.from ELSE Unset
      PROVE  \E k \in 1 .. Len(grams) :
               /\ IsHead(k)
               /\ grams[k].pos + Header <= rd /\ rd + remained = End(grams[k])
               /\ rcv[r].from = IF rd = grams[k].pos + Header THEN grams[k].from ELSE Unset
  <2>1. PICK k \in 1 .. Len(grams) : g = grams[k] BY <1>2 DEF Stored
  <2>2. g.pos \in Nat /\ End(g) \in Nat BY <1>1, <2>1, GramTyped
  <2>3. Emptied <=> remained = 0 BY <1>1 DEF Emptied
  <2>4. IsHead(k) BY <1>1, <1>2, <2>1, <2>2, <2>3 DEF IsHead
  <2>5. QED BY <1>2, <2>1, <2>4
<1>3. CASE remained # 0
  <2>1. PICK g \in Stored :
          /\ g.pos + Header <= rd /\ rd + remained = End(g)
          /\ rcv[r].from = IF rd = g.pos + Header THEN g.from ELSE Unset
    BY <1>1, <1>3 DEF QueueInv, PlaceInv, Begun
  <2>2. QED BY <1>2, <2>1
<1>4. CASE remained = 0
  <2>1. PICK g \in Stored : g.size = 0 /\ End(g) = rd /\ rcv[r].from = g.from
    BY <1>1, <1>4 DEF QueueInv, EmptyBegun
  <2>2. g \in Gram BY <1>1, <2>1, StoredTyped
  <2>3. g.pos \in Nat BY <2>2 DEF Gram
  <2>4. rd = g.pos + Header BY <1>1, <2>1, <2>3 DEF End
  <2>5. QED BY <1>1, <1>2, <1>4, <2>1, <2>4
<1>5. QED BY <1>3, <1>4

\* The queue from the datagram at the read pointer on.
LEMMA QueueHead ==
    ASSUME TypeOK, NEW k \in 1 .. Len(grams), DoneUpTo(k - 1)
    PROVE  /\ Queue \in Seq(Entries) /\ Len(Queue) = Len(grams) - k + 1
           /\ Queue # <<>> /\ Head(Queue) = Abstract(grams[k])
           /\ Tail(Queue) \in Seq(Entries) /\ Len(Tail(Queue)) = Len(grams) - k
           /\ \A i \in 1 .. Len(grams) - k : Tail(Queue)[i] = Abstract(grams[k + i])
<1>1. Len(grams) \in Nat BY DEF TypeOK
<1>2. /\ Queue \in Seq(Entries) /\ Len(Queue) = Len(grams) - (k - 1)
      /\ \A i \in 1 .. Len(grams) - (k - 1) : Queue[i] = Abstract(grams[(k - 1) + i])
  BY QueueIs
<1> DEFINE q == Queue
           n == Len(grams) - k
<1>3. q \in Seq(Entries) /\ Len(q) = n + 1 /\ n \in Nat BY <1>1, <1>2
<1>4. \A i \in 1 .. n + 1 : q[i] = Abstract(grams[(k - 1) + i])
  <2>1. n + 1 = Len(grams) - (k - 1) BY <1>1
  <2>2. QED BY <1>2, <2>1
<1>5. q[1] = Abstract(grams[k])
  <2>1. 1 \in 1 .. n + 1 /\ (k - 1) + 1 = k BY <1>3
  <2> HIDE DEF q, n
  <2>2. QED BY <1>4, <2>1
<1>6. \A i \in 1 .. n : q[i + 1] = Abstract(grams[k + i])
  <2> SUFFICES ASSUME NEW i \in 1 .. n PROVE q[i + 1] = Abstract(grams[k + i]) OBVIOUS
  <2>1. i + 1 \in 1 .. n + 1 /\ (k - 1) + (i + 1) = k + i BY <1>3
  <2> HIDE DEF q, n
  <2>2. QED BY <1>4, <2>1
<1> HIDE DEF q
<1>7. q # <<>> /\ Head(q) = q[1] BY <1>3
<1>8. /\ Tail(q) \in Seq(Entries) /\ Len(Tail(q)) = Len(q) - 1
      /\ \A i \in 1 .. Len(Tail(q)) : Tail(q)[i] = q[i + 1]
  BY <1>3, <1>7, HeadTailProperties
<1>9. Len(Tail(q)) = n BY <1>3, <1>8
<1>10. QED BY <1>3, <1>5, <1>6, <1>7, <1>8, <1>9 DEF q

\* Behind the datagram at the read pointer nothing changes when the pointer moves
\* inside it.
LEMMA RestIsFresh ==
    ASSUME TypeOK, TypeOK', InOrder, grams' = grams, NEW k \in 1 .. Len(grams),
           rd <= End(grams[k]), rd' <= End(grams[k])
    PROVE  \A i \in 1 .. Len(grams) - k :
             Abstract(grams[k + i])' = Abstract(grams[k + i])
<1>1. (\A h : TypeOK /\ h \in Stored /\ rd <= h.pos + Header =>
        Abstract(h) = [from |-> h.from, begun |-> FALSE, left |-> h.size])'
  BY AbstractFresh, PTL
<1> SUFFICES ASSUME NEW i \in 1 .. Len(grams) - k
             PROVE  Abstract(grams[k + i])' = Abstract(grams[k + i])
  OBVIOUS
<1>2. /\ Len(grams) \in Nat /\ rd \in Nat /\ rd' \in Nat /\ Header \in Nat
  BY UdpAssumption DEF TypeOK
<1> DEFINE j == k + i
           d == grams[j]
<1>3. j \in 1 .. Len(grams) /\ k < j BY <1>2
<1> HIDE DEF j
<1>4. End(grams[k]) <= d.pos BY <1>3 DEF InOrder
<1>5. End(grams[k]) \in Nat /\ d.pos \in Nat /\ d \in Stored /\ d \in Stored'
  BY <1>3, GramTyped DEF Stored
<1> HIDE DEF d
<1>6. rd <= d.pos + Header /\ rd' <= d.pos + Header BY <1>2, <1>4, <1>5
<1>7. Abstract(d) = [from |-> d.from, begun |-> FALSE, left |-> d.size]
  BY <1>5, <1>6, AbstractFresh
<1>8. Abstract(d)' = [from |-> d'.from, begun |-> FALSE, left |-> d'.size] /\ d' = d
  BY <1>5, <1>6, <1>1 DEF d
<1>9. QED BY <1>7, <1>8 DEF d, j

\* Copying the bytes takes them from the first datagram of the queue, and the
\* datagram with its last byte.
LEMMA PayloadIsReceive ==
    ASSUME NEW r, Receivers = {r}, QueueInv, QueueInv', Payload(r)
    PROVE  Datagrams!Receive
<1>0. (\A w : Waiting(w) <=> End(w) > rd \/ (Emptied /\ End(w) = rd))' BY WaitingIs, PTL
<1>1. /\ TypeOK /\ TypeOK' /\ InOrder /\ InOrder' /\ At(r, "payload")
      /\ grams' = grams /\ Len(grams) \in Nat /\ r \in Receivers
      /\ rd \in Nat /\ rd' \in Nat /\ remained \in Nat /\ Header \in Nat \ {0}
  <2>1. TypeOK /\ TypeOK' /\ InOrder /\ InOrder' BY DEF QueueInv, PlaceInv
  <2>2. At(r, "payload") /\ grams' = grams BY DEF Payload
  <2>3. Len(grams) \in Nat /\ rd \in Nat /\ rd' \in Nat /\ remained \in Nat
    BY <2>1, WordsNat DEF TypeOK
  <2>4. Header \in Nat \ {0} BY UdpAssumption
  <2>5. QED BY <2>1, <2>2, <2>3, <2>4
<1>2. PICK k \in 1 .. Len(grams) :
        /\ IsHead(k)
        /\ grams[k].pos + Header <= rd /\ rd + remained = End(grams[k])
        /\ rcv[r].from = IF rd = grams[k].pos + Header THEN grams[k].from ELSE Unset
  BY PayloadAt
<1>3. DoneUpTo(k - 1) BY <1>1, <1>2, HeadDone
<1> DEFINE g == grams[k]
           e == Abstract(g)
           n == Least(rcv[r].len, remained)
<1>4. /\ g.pos \in Nat /\ g.size \in Nat /\ g.from \in Peers
      /\ End(g) = g.pos + Header + g.size /\ End(g) \in Nat
      /\ g \in Stored
  BY <1>1, GramTyped
<1>5. /\ Queue \in Seq(Entries) /\ Queue # <<>> /\ Head(Queue) = e
      /\ Tail(Queue) \in Seq(Entries) /\ Len(Tail(Queue)) = Len(grams) - k
      /\ \A i \in 1 .. Len(grams) - k : Tail(Queue)[i] = Abstract(grams[k + i])
  BY <1>1, <1>3, QueueHead
<1>6. n \in Nat /\ n <= remained /\ Left(n) = remained - n BY <1>1, LeftIsLess
<1>7. remained # 0 => n > 0
  <2>1. rcv[r].len > 0 /\ rcv[r].len \in Nat
    BY <1>1 DEF QueueInv, PlaceInv, CallsReady, Payload, At, TypeOK
  <2>2. QED BY <1>1, <2>1 DEF Least
<1> HIDE DEF n
<1>8. /\ rd' = rd + n /\ remained' = remained - n
      /\ returned' = [from |-> rcv[r].from, n |-> n]
      /\ rcv' = [rcv EXCEPT ![r].pc = "exit", ![r].pos = rd, ![r].n = n]
  BY <1>6 DEF Payload, n
<1>9. ~Emptied'
  <2>1. rcv'[r].pc = "exit" BY <1>1, <1>8 DEF TypeOK
  <2>2. QED BY <2>1 DEF Emptied, At
<1> HIDE DEF g
<1>10. /\ e.from = g.from /\ e.left = remained
       /\ e.begun = (rd > g.pos + Header)
  <2>1. e = [from |-> g.from, begun |-> rd > g.pos + Header,
             left |-> IF rd > g.pos + Header THEN End(g) - rd ELSE g.size]
    BY DEF Abstract
  <2>2. g.pos + Header <= rd /\ rd + remained = End(g) BY <1>2 DEF g
  <2>3. (IF rd > g.pos + Header THEN End(g) - rd ELSE g.size) = remained
    BY <1>1, <1>4, <2>2
  <2>4. QED BY <2>1, <2>3
<1>11. rcv[r].from = IF e.begun THEN Unset ELSE e.from
  <2>1. g.pos + Header <= rd /\ g.pos + Header \in Nat BY <1>1, <1>2, <1>4 DEF g
  <2>2. (rd > g.pos + Header) <=> ~(rd = g.pos + Header) BY <1>1, <2>1
  <2>3. rcv[r].from = IF rd = g.pos + Header THEN g.from ELSE Unset BY <1>2 DEF g
  <2>4. QED BY <1>10, <2>2, <2>3
<1>12. rd' <= End(g) /\ rd <= End(g) /\ g.pos < rd'
  <2>1. g.pos + Header <= rd /\ rd + remained = End(g) BY <1>2 DEF g
  <2>2. QED BY <1>1, <1>4, <1>6, <1>8, <2>1
<1>13. \A i \in 1 .. Len(grams) - k : Abstract(grams[k + i])' = Abstract(grams[k + i])
  BY <1>1, <1>12, RestIsFresh DEF g
<1>14. (\A j : TypeOK /\ InOrder /\ IsHead(j) => DoneUpTo(j - 1))' BY HeadsDone, PTL
<1>15. (\A j : TypeOK /\ DoneUpTo(j) =>
          /\ Queue \in Seq(Entries)
          /\ Len(Queue) = Len(grams) - j
          /\ \A i \in 1 .. Len(grams) - j : Queue[i] = Abstract(grams[j + i]))'
  BY QueuesAre, PTL
<1>16. End(g)' = End(g) /\ g' = g BY <1>1 DEF End, g
<1>17. Entries' = Entries BY DEF Entries
<1>18. CASE n = remained
  <2>1. DoneUpTo(k)'
    <3>1. rd' = End(g) BY <1>2, <1>8, <1>18 DEF g
    <3>2. ASSUME NEW i \in 1 .. Len(grams), i <= k PROVE End(grams[i]) <= rd' /\ End(grams[i]) \in Nat
      <4>1. End(grams[i]) \in Nat BY <1>1, GramTyped
      <4>2. CASE i = k BY <4>1, <4>2, <3>1, <1>1 DEF g
      <4>3. CASE i < k
        <5>1. End(grams[i]) <= g.pos BY <4>3, <1>1 DEF InOrder, g
        <5>2. QED BY <5>1, <4>1, <1>1, <1>4, <1>12
      <4>4. QED BY <3>2, <4>2, <4>3, <1>1
    <3>3. ASSUME NEW i \in 1 .. Len(grams), k < i PROVE End(grams[i]) > rd'
      <4>1. End(g) <= grams[i].pos BY <3>3, <1>1 DEF InOrder, g
      <4>2. grams[i].pos < End(grams[i]) /\ grams[i].pos \in Nat /\ End(grams[i]) \in Nat
        BY <1>1, GramTyped
      <4>3. QED BY <4>1, <4>2, <3>1, <1>1
    <3>5. \A i : Waiting(grams[i])' <=> End(grams[i]) > rd'
      <4>1. \A i : End(grams[i])' = End(grams[i]) BY <1>1 DEF End
      <4>2. QED BY <1>0, <4>1, <1>9, <1>1
    <3>6. ASSUME NEW i \in 1 .. Len(grams) PROVE Waiting(grams[i])' <=> i > k
      <4>1. CASE i <= k BY <4>1, <3>2, <3>5, <1>1
      <4>2. CASE k < i BY <4>2, <3>3, <3>5, <1>1
      <4>3. QED BY <4>1, <4>2, <1>1
    <3>7. QED BY <3>6, <1>1 DEF DoneUpTo
  <2>2. /\ Queue' \in Seq(Entries) /\ Len(Queue') = Len(grams) - k
        /\ \A i \in 1 .. Len(grams) - k : Queue'[i] = Abstract(grams[k + i])'
    BY <1>1, <1>15, <1>17, <2>1
  <2> DEFINE p == Queue'
             t == Tail(Queue)
  <2>3. /\ p \in Seq(Entries) /\ t \in Seq(Entries) /\ Len(p) = Len(t)
        /\ \A i \in 1 .. Len(p) : p[i] = t[i]
    BY <1>5, <1>13, <2>2
  <2> HIDE DEF p, t
  <2>4. p = t BY <2>3, SeqEqual
  <2>5. Queue' = Tail(Queue) BY <2>4 DEF p, t
  <2>6. n \in 0 .. e.left /\ (n > 0 \/ e.left = 0) /\ n = e.left
    BY <1>1, <1>6, <1>7, <1>10, <1>18
  <2>7. QED BY <1>5, <1>8, <1>11, <2>5, <2>6 DEF Datagrams!Receive
<1>19. CASE n # remained
  <2>1. n < remained /\ n > 0 BY <1>1, <1>6, <1>7, <1>19
  <2>2. rd' < End(g) /\ g.pos + Header < rd' /\ End(g) - rd' = remained - n
    <3> DEFINE w == End(g)
               b == g.pos + Header
    <3>1. b <= rd /\ rd + remained = w BY <1>2 DEF g
    <3>2. b \in Nat /\ w \in Nat /\ rd \in Nat /\ remained \in Nat /\ n \in Nat
      BY <1>1, <1>4, <1>6
    <3>3. rd' = rd + n BY <1>8
    <3> HIDE DEF b, w
    <3>4. rd' < w /\ b < rd' /\ w - rd' = remained - n BY <2>1, <3>1, <3>2, <3>3
    <3>5. QED BY <3>4 DEF b, w
  <2>3. IsHead(k)'
    <3>1. grams'[k] = g /\ k \in 1 .. Len(grams') BY <1>1 DEF g
    <3>2. End(grams[k])' = End(g) BY <3>1 DEF End
    <3>3. g.pos <= rd' /\ rd' <= End(g) /\ g.pos < rd' BY <1>1, <1>4, <1>12
    <3>4. QED BY <2>2, <3>1, <3>2, <3>3 DEF IsHead
  <2>4. DoneUpTo(k - 1)' BY <1>1, <1>14, <2>3
  <2>5. /\ Queue' \in Seq(Entries) /\ Len(Queue') = Len(grams) - (k - 1)
        /\ \A i \in 1 .. Len(grams) - (k - 1) : Queue'[i] = Abstract(grams[(k - 1) + i])'
    BY <1>1, <1>15, <1>17, <2>4
  <2> DEFINE f == [e EXCEPT !.left = @ - n, !.begun = TRUE]
             p == Queue'
             t == Tail(Queue)
             m == Len(grams) - k
             q == <<f>> \o t
  <2>6. f = [from |-> g.from, begun |-> TRUE, left |-> remained - n]
    <3> DEFINE b == rd > g.pos + Header
               l == IF rd > g.pos + Header THEN End(g) - rd ELSE g.size
    <3>1. e = [from |-> g.from, begun |-> b, left |-> l] BY DEF Abstract
    <3>2. l = remained BY <1>10, <3>1
    <3> HIDE DEF e, b, l
    <3>3. e.left = remained BY <1>10
    <3> DEFINE x  == [from |-> g.from, begun |-> b, left |-> l]
               d  == remained - n
               on == TRUE
    <3>4. f = [x EXCEPT !.left = d, !.begun = on] BY <3>1, <3>3
    <3> HIDE DEF f, d, on
    <3> DEFINE z == [x EXCEPT !.left = d]
    <3>5. z = [from |-> g.from, begun |-> b, left |-> d] OBVIOUS
    <3> HIDE DEF z
    <3>6. [z EXCEPT !.begun = on] = [from |-> g.from, begun |-> on, left |-> d] BY <3>5
    <3> HIDE DEF x
    <3>7. f = [from |-> g.from, begun |-> on, left |-> d] BY <3>4, <3>6 DEF z
    <3>8. QED BY <3>7 DEF d, on
  <2>7. Abstract(g)' = f /\ f \in Entries
    <3>1. Abstract(g)' = [from |-> g.from, begun |-> rd' > g.pos + Header,
                          left |-> IF rd' > g.pos + Header THEN End(g) - rd' ELSE g.size]
      BY <1>16 DEF Abstract
    <3>2. (rd' > g.pos + Header) = TRUE BY <1>1, <1>4, <2>2
    <3>3. Abstract(g)' = [from |-> g.from, begun |-> TRUE, left |-> remained - n]
      BY <3>1, <3>2, <2>2
    <3>4. remained - n \in Int BY <1>1, <1>6
    <3> HIDE DEF f
    <3>5. f \in Entries BY <2>6, <3>4, <1>4 DEF Entries
    <3>6. QED BY <3>3, <3>5, <2>6
  <2> HIDE DEF f
  <2>8. <<f>> \in Seq(Entries) /\ Len(<<f>>) = 1 /\ <<f>>[1] = f BY <2>7
  <2>9. t \in Seq(Entries) /\ Len(t) = m /\ m \in Nat
        /\ \A i \in 1 .. m : t[i] = Abstract(grams[k + i])'
    <3>1. Len(grams) \in Nat BY <1>1
    <3>2. m \in Nat BY <3>1
    <3>3. t \in Seq(Entries) /\ Len(t) = m BY <1>5
    <3>4. \A i \in 1 .. m : t[i] = Abstract(grams[k + i]) BY <1>5
    <3>5. \A i \in 1 .. m : t[i] = Abstract(grams[k + i])' BY <1>13, <3>4
    <3>6. QED BY <3>2, <3>3, <3>5
  <2>10. p \in Seq(Entries) /\ Len(p) = m + 1
         /\ \A i \in 1 .. m + 1 : p[i] = Abstract(grams[(k - 1) + i])'
    <3>1. Len(grams) - (k - 1) = m + 1 BY <1>1
    <3>2. QED BY <2>5, <3>1
  <2> HIDE DEF p, t, m
  <2>11. /\ q \in Seq(Entries) /\ Len(q) = 1 + m
         /\ \A i \in 1 .. 1 + m : q[i] = IF i <= 1 THEN f ELSE t[i - 1]
    BY <2>8, <2>9, ConcatProperties
  <2> HIDE DEF q
  <2>12. ASSUME NEW i \in 1 .. m + 1 PROVE p[i] = q[i]
    <3>1. CASE i = 1
      <4>1. (k - 1) + i = k BY <3>1
      <4>2. p[i] = Abstract(g)' BY <2>10, <4>1 DEF g
      <4>3. q[i] = f BY <2>9, <2>11, <3>1
      <4>4. QED BY <4>2, <4>3, <2>7
    <3>2. CASE i # 1
      <4>1. i - 1 \in 1 .. m /\ (k - 1) + i = k + (i - 1) /\ ~(i <= 1) /\ i \in 1 .. 1 + m
        BY <2>9, <2>12, <3>2
      <4>2. q[i] = t[i - 1] BY <2>11, <4>1
      <4>3. t[i - 1] = Abstract(grams[k + (i - 1)])' BY <2>9, <4>1
      <4>4. p[i] = Abstract(grams[(k - 1) + i])' BY <2>10, <2>12
      <4>5. QED BY <4>1, <4>2, <4>3, <4>4
    <3>3. QED BY <3>1, <3>2
  <2>13. Len(p) = Len(q) /\ \A i \in 1 .. Len(p) : p[i] = q[i]
    BY <2>9, <2>10, <2>11, <2>12
  <2>14. p = q BY <2>10, <2>11, <2>13, SeqEqual
  <2>15. Queue' = <<[Head(Queue) EXCEPT !.left = @ - n, !.begun = TRUE]>> \o Tail(Queue)
    BY <2>14, <1>5 DEF p, q, t, f
  <2>16. n \in 0 .. e.left /\ n # e.left BY <1>1, <1>6, <1>10, <2>1
  <2>17. QED BY <1>5, <1>8, <1>11, <2>1, <2>15, <2>16 DEF Datagrams!Receive
<1>20. QED BY <1>18, <1>19

\* With the pointers equal nothing waits.
LEMMA QueueEmpty ==
    TypeOK /\ Fits /\ ~Emptied /\ rd = wr => Queue = <<>>
<1> SUFFICES ASSUME TypeOK, Fits, ~Emptied, rd = wr PROVE Queue = <<>> OBVIOUS
<1>1. rd \in Nat /\ Len(grams) \in Nat BY DEF TypeOK
<1>2. \A i \in 1 .. Len(grams) : ~Waiting(grams[i])
  <2> SUFFICES ASSUME NEW i \in 1 .. Len(grams) PROVE ~Waiting(grams[i]) OBVIOUS
  <2>1. End(grams[i]) <= rd /\ End(grams[i]) \in Nat BY GramTyped DEF Fits
  <2>2. QED BY <1>1, <2>1, WaitingIs
<1>3. DoneUpTo(Len(grams)) BY <1>1, <1>2 DEF DoneUpTo
<1>4. Queue \in Seq(Entries) /\ Len(Queue) = 0 BY <1>1, <1>3, QueueIs
<1>5. QED BY <1>4, EmptySeq

LEMMA GroupIsFlush ==
    ASSUME NEW r, Receivers = {r}, QueueInv, QueueInv', LeaveGroup \/ JoinGroup
    PROVE  Datagrams!Flush
<1>1. (TypeOK /\ Fits /\ ~Emptied /\ rd = wr => Queue = <<>>)' BY QueueEmpty, PTL
<1>2. TypeOK' /\ Fits' BY DEF QueueInv, PlaceInv
<1>3. rcv' = rcv /\ rcv[r].pc = "idle" /\ rd' = wr' /\ returned' = returned
  <2>1. CASE LeaveGroup BY <2>1 DEF LeaveGroup, At
  <2>2. CASE JoinGroup BY <2>2 DEF JoinGroup, QueueInv, PlaceInv, Reopening, At
  <2>3. QED BY <2>1, <2>2
<1>4. ~Emptied' BY <1>3 DEF Emptied, At
<1>5. QED BY <1>1, <1>2, <1>3, <1>4 DEF Datagrams!Flush

LEMMA WaitingAt ==
    \A l : Waiting(grams[l]) <=> End(grams[l]) > rd \/ (Emptied /\ End(grams[l]) = rd)
BY WaitingIs

\* A datagram that finds room is put behind the others.
LEMMA PeerSendIsArrive ==
    ASSUME NEW r, Receivers = {r}, QueueInv, QueueInv', PeerSend
    PROVE  Datagrams!Arrive
<1>1. (\A l : Waiting(grams[l]) <=> End(grams[l]) > rd \/ (Emptied /\ End(grams[l]) = rd))'
  BY WaitingAt, PTL
<1>2. (\A j : TypeOK /\ DoneUpTo(j) =>
         /\ Queue \in Seq(Entries)
         /\ Len(Queue) = Len(grams) - j
         /\ \A i \in 1 .. Len(grams) - j : Queue[i] = Abstract(grams[j + i]))'
  BY QueuesAre, PTL
<1>3. (\A h : TypeOK /\ h \in Stored /\ rd <= h.pos + Header =>
        Abstract(h) = [from |-> h.from, begun |-> FALSE, left |-> h.size])'
  BY AbstractFresh, PTL
<1>4. /\ TypeOK /\ TypeOK' /\ Fits /\ rd \in Nat /\ wr \in Nat /\ rd <= wr
      /\ Header \in Nat \ {0} /\ Sizes \subseteq Nat
  BY UdpAssumption, WordsNat DEF QueueInv, PlaceInv, TypeOK, Fits
<1>5. PICK p \in Peers, n \in Sizes : grams' = Append(grams, [pos |-> wr, from |-> p, size |-> n])
  BY DEF PeerSend
<1>6. rd' = rd /\ remained' = remained /\ rcv' = rcv /\ returned' = returned BY DEF PeerSend
<1>7. PICK new : new = [pos |-> wr, from |-> p, size |-> n] OBVIOUS
<1>8. new \in Gram /\ new.pos = wr /\ new.from = p /\ new.size = n /\ n \in Nat
  <2>1. n \in Nat BY <1>4
  <2>2. QED BY <1>7, <1>4, <2>1 DEF Gram
<1>9. grams \in Seq(Gram) BY <1>4 DEF TypeOK, Gram
<1>10. grams' = Append(grams, new) BY <1>7, <1>5
<1>11. PICK N \in Nat : N = Len(grams) BY <1>9, LenProperties
<1>12. /\ Len(grams') = N + 1
       /\ \A i \in 1 .. N : grams'[i] = grams[i]
       /\ grams'[N + 1] = new
  BY <1>8, <1>9, <1>10, <1>11, AppendProperties
<1>13. Emptied' <=> Emptied BY <1>6 DEF Emptied, At
<1>14. PICK k : DoneUpTo(k) BY SomeAreDone
<1>15. k \in 0 .. N BY <1>11, <1>14 DEF DoneUpTo
<1>16. End(new) = wr + Header + n /\ rd < End(new) /\ End(new) \in Nat
  BY <1>4, <1>8 DEF End
<1>17. DoneUpTo(k)'
  <2>1. ASSUME NEW i \in 1 .. N PROVE Waiting(grams[i])' <=> i > k
    <3>1. Waiting(grams[i]) <=> i > k BY <1>11, <1>14 DEF DoneUpTo
    <3>2. End(grams[i])' = End(grams[i]) BY <1>12 DEF End
    <3>3. QED BY <1>1, <1>6, <1>13, <3>1, <3>2, WaitingAt
  <2>2. Waiting(grams[N + 1])'
    <3>1. End(grams[N + 1])' = End(new) BY <1>12 DEF End
    <3>2. QED BY <1>1, <1>4, <1>6, <1>16, <3>1
  <2>3. ASSUME NEW i \in 1 .. N + 1 PROVE Waiting(grams[i])' <=> i > k
    <3>1. CASE i \in 1 .. N BY <2>1, <3>1
    <3>2. CASE i = N + 1 BY <2>2, <3>2, <1>15
    <3>3. QED BY <3>1, <3>2
  <2>4. k \in 0 .. Len(grams') BY <1>12, <1>15
  <2>5. QED BY <1>12, <2>3, <2>4 DEF DoneUpTo
<1> DEFINE q == Queue
           p2 == Queue'
           d == Datagrams!Datagram(p, n)
<1>18. /\ q \in Seq(Entries) /\ Len(q) = N - k
       /\ \A i \in 1 .. N - k : q[i] = Abstract(grams[k + i])
  BY <1>4, <1>11, <1>14, QueueIs
<1>19. /\ p2 \in Seq(Entries) /\ Len(p2) = N + 1 - k
       /\ \A i \in 1 .. N + 1 - k : p2[i] = Abstract(grams[k + i])'
  <2>1. Entries' = Entries BY DEF Entries
  <2>2. /\ p2 \in Seq(Entries) /\ Len(p2) = Len(grams') - k
        /\ \A i \in 1 .. Len(grams') - k : p2[i] = Abstract(grams[k + i])'
    BY <1>2, <1>4, <1>17, <2>1
  <2>3. Len(grams') - k = N + 1 - k BY <1>12, <1>15
  <2>4. \A i \in 1 .. N + 1 - k : p2[i] = Abstract(grams[k + i])'
    <3> SUFFICES ASSUME NEW i \in 1 .. N + 1 - k PROVE p2[i] = Abstract(grams[k + i])' OBVIOUS
    <3>1. i \in 1 .. Len(grams') - k BY <2>3
    <3> HIDE DEF p2
    <3>2. QED BY <2>2, <3>1
  <2>5. QED BY <2>2, <2>3, <2>4
<1>20. ASSUME NEW i \in 1 .. N PROVE Abstract(grams[i])' = Abstract(grams[i])
  BY <1>6, <1>12, <1>20 DEF Abstract, End
<1>21. Abstract(grams[N + 1])' = d
  <2>1. new \in Stored' BY <1>12 DEF Stored
  <2>2. rd' <= new.pos + Header BY <1>4, <1>6, <1>8
  <2>3. Abstract(new)' = [from |-> new.from, begun |-> FALSE, left |-> new.size]
    BY <1>3, <1>4, <2>1, <2>2
  <2>4. Abstract(grams[N + 1])' = Abstract(new)' BY <1>12 DEF Abstract, End
  <2>5. QED BY <2>3, <2>4, <1>8 DEF Datagrams!Datagram
<1>22. d \in Entries
  BY <1>8 DEF Datagrams!Datagram, Entries
<1> HIDE DEF q, p2, d
<1>23. /\ Append(q, d) \in Seq(Entries) /\ Len(Append(q, d)) = N - k + 1
       /\ \A i \in 1 .. N - k : Append(q, d)[i] = q[i]
       /\ Append(q, d)[N - k + 1] = d
  BY <1>18, <1>22, AppendProperties
<1>24. N + 1 - k = N - k + 1 /\ N - k \in Nat BY <1>15
<1>25. ASSUME NEW i \in 1 .. N - k + 1 PROVE p2[i] = Append(q, d)[i]
  <2>1. p2[i] = Abstract(grams[k + i])' BY <1>19, <1>24
  <2>2. CASE i \in 1 .. N - k
    <3>1. k + i \in 1 .. N BY <1>15, <2>2
    <3>2. Abstract(grams[k + i])' = Abstract(grams[k + i]) BY <1>20, <3>1
    <3>3. QED BY <1>18, <1>23, <2>1, <2>2, <3>2
  <2>3. CASE i = N - k + 1
    <3>1. k + i = N + 1 BY <1>15, <2>3
    <3>2. QED BY <1>21, <1>23, <2>1, <2>3, <3>1
  <2>4. i \in 1 .. N - k \/ i = N - k + 1 BY <1>15, <1>24
  <2>5. QED BY <2>2, <2>3, <2>4
<1>26. p2 = Append(q, d) BY <1>19, <1>23, <1>24, <1>25, SeqEqual
<1>27. Queue' = Append(Queue, Datagrams!Datagram(p, n)) BY <1>26 DEF p2, q, d
<1>28. QED BY <1>6, <1>27 DEF Datagrams!Arrive

\* What the receiver sees after a step is what the queue allows.
LEMMA StepServes ==
    ASSUME NEW r, Receivers = {r}, QueueInv, QueueInv', [Next]_vars
    PROVE  Datagrams!Next \/ (Queue' = Queue /\ returned' = returned)
<1>1. TypeOK' BY DEF QueueInv, PlaceInv
<1>2. CASE \/ Call(r) \/ Again(r) \/ Wait(r) \/ TimeOut(r) \/ Size(r) \/ Remained(r)
           \/ Exit(r) \/ Drained(r) \/ Clean(r) \/ IntData
  <2>1. Quiet(r) BY <1>2, QuietSteps DEF QueueInv
  <2>2. returned' = returned
    BY <1>2 DEF Call, Again, Wait, TimeOut, Size, Remained, Exit, Drained, Clean, IntData,
                ReadIR, ClearIR, Callback
  <2>3. grams' = grams /\ rd' = rd /\ remained' = remained BY <2>1 DEF Quiet
  <2>4. Emptied' <=> Emptied
    <3>1. rcv'[r] = rcv[r] \/ (~At(r, "payload") /\ rcv'[r].pc # "payload")
      BY <2>1 DEF Quiet
    <3>2. QED BY <2>3, <3>1 DEF Emptied, At
  <2>5. Queue' = Queue BY <1>1, <2>3, <2>4, QueueUnmoved
  <2>6. QED BY <2>2, <2>5
<1>3. CASE TakeHeader(r)
  <2>1. Queue' = Queue BY <1>3, HeaderIsNoStep
  <2>2. returned' = returned BY <1>3 DEF TakeHeader
  <2>3. QED BY <2>1, <2>2
<1>4. CASE Payload(r) BY <1>4, PayloadIsReceive DEF Datagrams!Next
<1>5. CASE LeaveGroup \/ JoinGroup BY <1>5, GroupIsFlush DEF Datagrams!Next
<1>6. CASE PeerSend BY <1>6, PeerSendIsArrive DEF Datagrams!Next
<1>7. CASE UNCHANGED vars
  <2>1. /\ grams' = grams /\ rd' = rd /\ remained' = remained /\ rcv' = rcv
        /\ returned' = returned
    BY <1>7 DEF vars, chip
  <2>2. Emptied' <=> Emptied BY <2>1 DEF Emptied, At
  <2>3. Queue' = Queue BY <1>1, <2>1, <2>2, QueueUnmoved
  <2>4. QED BY <2>1, <2>3
<1>8. QED BY <1>2, <1>3, <1>4, <1>5, <1>6, <1>7 DEF Next, Progress

\* For one receiving thread recvfrom() implements a queue of datagrams, whatever
\* arrives, whatever the lengths of the buffers, and whether or not a group is
\* joined between the calls: the chip's buffer and sock_remained_size are the queue,
\* the copy of the bytes takes from it, all else leaves it alone.
THEOREM RecvFromImplementsQueue ==
    ASSUME NEW r, Receivers = {r}
    PROVE  Spec => ImplementsQueue
<1>1. Init => QueueInv BY QueueInitial
<1>2. QueueInv /\ [Next]_vars => QueueInv' BY QueueKept
<1>3. Init => Datagrams!Init
  <2> SUFFICES ASSUME Init PROVE Datagrams!Init OBVIOUS
  <2>1. QueueInv BY QueueInitial
  <2>2. rd = wr /\ ~Emptied /\ returned = [from |-> Unset, n |-> 0]
    BY DEF Init, Emptied, At, Idle
  <2>3. Queue = <<>> BY <2>1, <2>2, QueueEmpty DEF QueueInv, PlaceInv
  <2>4. QED BY <2>2, <2>3 DEF Datagrams!Init
<1>4. QueueInv /\ QueueInv' /\ [Next]_vars => [Datagrams!Next]_<<Queue, returned>>
  BY StepServes
<1>5. QED BY <1>1, <1>2, <1>3, <1>4, PTL DEF Spec, ImplementsQueue, Datagrams!Spec
=============================================================================
