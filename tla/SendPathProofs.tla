--------------------------- MODULE SendPathProofs ---------------------------
(***************************************************************************)
(* For any sockets, lengths and buffer size: the send path keeps its       *)
(* types, nothing is written over what the chip still has to send, and     *)
(* sendto() on a UDP socket returns only when the datagram has left.  With *)
(* one TCP socket a SEND command is never given while another is executed; *)
(* with more the unlocked sock_is_sending breaks that, and the assumption  *)
(* of the last theorem is where the proof uses it.                         *)
(***************************************************************************)
EXTENDS SendPath, TLAPS

ThType == [pc : PCs, len : Nat, loaded : BOOLEAN, word : SUBSET Tcp,
           then : {"idle", "loop", "open"}, res : Results]

\* Where the length has been fitted into the free part of the buffer.
Fitting == {"status", "reading", "loop", "check", "write"}

Fits(s) == \/ At(s, "clear") /\ th[s].then = "loop"
           \/ th[s].pc \in Fitting

\* The buffer of a socket has room for what its thread is about to write.
RoomLeft(s) == Fits(s) => tx[s] + th[s].len <= TxMax

\* A datagram is in the buffer, and its interrupt pending, only while its thread
\* is in wizchip_sendto.
DatagramOK(s) ==
    s \in Udp =>
      /\ sr[s] = "UDP"
      /\ th[s].pc \in {"idle", "free", "write", "send", "confirm"}
      /\ flight[s] => At(s, "confirm")
      /\ tx[s] # 0 => th[s].pc \in {"send", "confirm"}
      /\ ir[s] \cap {"SENDOK", "TIMEOUT"} # {} =>
           At(s, "confirm") /\ ~flight[s] /\ tx[s] = 0
      /\ ~({"SENDOK", "TIMEOUT"} \subseteq ir[s])
      /\ th[s].res = "sent" => At(s, "idle")

\* A thread on a TCP socket is never where only wizchip_sendto goes.
StreamOK(s) == s \in Tcp => ~At(s, "confirm")

Types == /\ sr \in [Socks -> {"ESTABLISHED", "CLOSE_WAIT", "CLOSED", "UDP"}]
         /\ ir \in [Socks -> SUBSET (SnIMR \cup {"SENDOK", "TIMEOUT"})]
         /\ tx \in [Socks -> 0 .. TxMax]
         /\ flight \in [Socks -> BOOLEAN]
         /\ sending \subseteq Tcp
         /\ th \in [Socks -> ThType]

Local(s) == RoomLeft(s) /\ DatagramOK(s) /\ StreamOK(s)

SendInv == Types /\ \A s \in Socks : Local(s)

\* A step of one socket leaves the others as they are.
Only(s) == \A u \in Socks : u # s =>
             /\ sr'[u] = sr[u] /\ ir'[u] = ir[u] /\ tx'[u] = tx[u]
             /\ flight'[u] = flight[u] /\ th'[u] = th[u]

-----------------------------------------------------------------------------
LEMMA TypesIsTypeOK == Types <=> TypeOK
    BY DEF Types, TypeOK, ThType

LEMMA IdleIsThread == Idle \in ThType
    BY DEF Idle, ThType, PCs, Results

LEMMA SendInit == Init => SendInv
<1> SUFFICES ASSUME Init PROVE SendInv
    OBVIOUS
<1>1. Types
    BY IdleIsThread, SendAssumption DEF Init, Types, Socks
<1>2. ASSUME NEW s \in Socks PROVE Local(s)
    BY SendAssumption
    DEF Init, Local, RoomLeft, Fits, Fitting, DatagramOK, StreamOK, Idle, At, Socks
<1> QED
    BY <1>1, <1>2 DEF SendInv

\* What has to be shown of a step of socket s.
LEMMA OneSocket ==
    ASSUME SendInv, NEW s \in Socks, Types', Only(s), Local(s)'
    PROVE  SendInv'
<1>1. ASSUME NEW u \in Socks, u # s PROVE Local(u)'
  <2>1. Local(u)
      BY DEF SendInv
  <2>2. /\ sr'[u] = sr[u] /\ ir'[u] = ir[u] /\ tx'[u] = tx[u]
        /\ flight'[u] = flight[u] /\ th'[u] = th[u]
      BY <1>1 DEF Only
  <2> QED
      BY <2>1, <2>2
      DEF Local, RoomLeft, Fits, DatagramOK, StreamOK, At
<1> QED
    BY <1>1 DEF SendInv

-----------------------------------------------------------------------------
(* The steps of the thread                                                 *)

LEMMA Threads ==
    ASSUME SendInv, NEW s \in Socks, NEW e \in ThType, th' = [th EXCEPT ![s] = e]
    PROVE  /\ th' \in [Socks -> ThType]
           /\ th'[s] = e
           /\ \A u \in Socks : u # s => th'[u] = th[u]
    BY DEF SendInv, Types

\* The entries a step leaves in th.
LEMMA Entries ==
    ASSUME SendInv, NEW s \in Socks
    PROVE  /\ th[s] \in ThType
           /\ \A pc \in PCs : [th[s] EXCEPT !.pc = pc] \in ThType
           /\ \A res \in Results : [Idle EXCEPT !.res = res] \in ThType
           /\ \A n \in Nat : [Idle EXCEPT !.pc = "free", !.len = n] \in ThType
<1>1. th[s] \in ThType
    BY DEF SendInv, Types
<1>2. Idle \in ThType
    BY IdleIsThread
<1> QED
    BY <1>1, <1>2 DEF ThType, PCs, Results

\* The thread goes to a place where no length is fitted and only then returns.
LEMMA MoveKeeps ==
    ASSUME SendInv, NEW s \in Socks, NEW e \in ThType, th' = [th EXCEPT ![s] = e],
           UNCHANGED chip, sending' \subseteq Tcp,
           \/ /\ e.pc \in Fitting \/ (e.pc = "clear" /\ e.then = "loop")
              /\ tx[s] + e.len <= TxMax
           \/ e.pc \notin Fitting \cup {"clear"}
           \/ e.pc = "clear" /\ e.then # "loop",
           s \in Tcp => e.pc # "confirm",
           s \in Udp => /\ e.pc \in {"idle", "free", "write"}
                        /\ th[s].pc \in {"idle", "free"}
                        /\ e.res = "sent" => e.pc = "idle"
    PROVE  SendInv'
<1>1. /\ th' \in [Socks -> ThType] /\ th'[s] = e
      /\ \A u \in Socks : u # s => th'[u] = th[u]
    BY Threads
<1>0. sr' = sr /\ ir' = ir /\ tx' = tx /\ flight' = flight
    BY DEF chip
<1>2. Types'
    BY <1>0, <1>1 DEF SendInv, Types
<1>5. Only(s)
    BY <1>0, <1>1 DEF Only
<1>3. RoomLeft(s)' /\ StreamOK(s)'
    BY <1>0, <1>1 DEF RoomLeft, Fits, Fitting, StreamOK, At
<1>4. DatagramOK(s)'
    BY <1>0, <1>1 DEF SendInv, Local, DatagramOK, At
<1> QED
    BY <1>2, <1>3, <1>4, <1>5, OneSocket DEF Local

LEMMA CallKeeps == ASSUME SendInv, NEW s \in Socks, Call(s) PROVE SendInv'
<1> USE SendAssumption
<1>1. At(s, "idle") /\ UNCHANGED chip /\ sending' \subseteq Tcp
    BY DEF Call, SendInv, Types
<1>2. CASE sr[s] \in {"ESTABLISHED", "UDP"}
  <2>1. PICK n \in Sizes :
          th' = [th EXCEPT ![s] = [Idle EXCEPT !.pc = "free", !.len = n]]
      BY <1>2 DEF Call
  <2>2. [Idle EXCEPT !.pc = "free", !.len = n] \in ThType
      BY Entries
  <2> QED
      BY <1>1, <2>1, <2>2, MoveKeeps DEF Idle, At, Fitting
<1>3. CASE sr[s] \notin {"ESTABLISHED", "UDP"}
  <2>1. th' = [th EXCEPT ![s] = [Idle EXCEPT !.res = "error"]]
      BY <1>3 DEF Call, Return
  <2>2. [Idle EXCEPT !.res = "error"] \in ThType
      BY Entries DEF Results
  <2> QED
      BY <1>1, <2>1, <2>2, MoveKeeps DEF Idle, At, Fitting
<1> QED
    BY <1>2, <1>3

LEMMA ClampKeeps == ASSUME SendInv, NEW s \in Socks, Clamp(s) PROVE SendInv'
<1> USE SendAssumption
<1>1. At(s, "free") /\ UNCHANGED chip /\ sending' \subseteq Tcp
    BY DEF Clamp, SendInv, Types
<1>2. CASE Free(s) = 0
  <2>1. th' = [th EXCEPT ![s] = [Idle EXCEPT !.res = "error"]]
      BY <1>2 DEF Clamp, Return
  <2>2. [Idle EXCEPT !.res = "error"] \in ThType
      BY Entries DEF Results
  <2> QED
      BY <1>1, <2>1, <2>2, MoveKeeps DEF Idle, At, Fitting
<1>3. CASE Free(s) # 0
  <2> DEFINE n == Least(th[s].len, Free(s))
             e == [th[s] EXCEPT !.pc = IF s \in Tcp THEN "status" ELSE "write",
                                !.len = n]
  <2>1. th[s] \in ThType /\ tx[s] \in 0 .. TxMax
      BY Entries DEF SendInv, Types
  <2>2. n \in Nat /\ tx[s] + n <= TxMax
      BY <2>1 DEF Least, Free, ThType
  <2>3. e \in ThType /\ e.len = n /\ e.pc \in {"status", "write"} /\ e.res = th[s].res
      BY <2>1, <2>2 DEF ThType, PCs
  <2>4. th' = [th EXCEPT ![s] = e]
      BY <1>3 DEF Clamp
  <2>5. s \in Udp => e.pc = "write" /\ e.res # "sent"
      BY <1>1, <2>1 DEF SendInv, Local, DatagramOK, At, ThType
  <2> QED
      BY <1>1, <2>2, <2>3, <2>4, <2>5, MoveKeeps DEF At, Fitting
<1> QED
    BY <1>2, <1>3

LEMMA StatusKeeps == ASSUME SendInv, NEW s \in Socks, Status(s) PROVE SendInv'
<1>1. At(s, "status") /\ UNCHANGED chip /\ sending' \subseteq Tcp
    BY DEF Status, SendInv, Types
<1>2. s \in Tcp /\ s \notin Udp
    BY <1>1, SendAssumption DEF SendInv, Local, DatagramOK, At, Socks
<1>3. CASE sr[s] \notin {"ESTABLISHED", "CLOSE_WAIT"}
  <2>1. th' = [th EXCEPT ![s] = [Idle EXCEPT !.res = "error"]]
      BY <1>3 DEF Status, Return
  <2>2. [Idle EXCEPT !.res = "error"] \in ThType
      BY Entries DEF Results
  <2> QED
      BY <1>1, <1>2, <2>1, <2>2, MoveKeeps DEF Idle, Fitting
<1>4. CASE sr[s] \in {"ESTABLISHED", "CLOSE_WAIT"}
  <2> DEFINE pc == IF s \in sending THEN "reading" ELSE "loop"
             e  == [th[s] EXCEPT !.pc = pc]
  <2>1. th' = [th EXCEPT ![s] = e]
      BY <1>4 DEF Status, Goto
  <2>2. pc \in {"reading", "loop"}
      OBVIOUS
  <2>4. e \in ThType
      BY <2>2, Entries DEF PCs
  <2>5. e.pc = pc /\ e.len = th[s].len
      BY Entries DEF ThType
  <2>3. tx[s] + e.len <= TxMax
      BY <1>1, <2>5 DEF SendInv, Local, RoomLeft, Fits, Fitting, At
  <2> HIDE DEF e, pc
  <2> QED
      BY <1>1, <1>2, <2>1, <2>2, <2>3, <2>4, <2>5, MoveKeeps DEF Fitting
<1> QED
    BY <1>3, <1>4

\* What is known of a thread and its socket before a step.
LEMMA Known ==
    ASSUME SendInv, NEW s \in Socks
    PROVE  /\ sr[s] \in {"ESTABLISHED", "CLOSE_WAIT", "CLOSED", "UDP"}
           /\ ir[s] \subseteq SnIMR \cup {"SENDOK", "TIMEOUT"}
           /\ tx[s] \in 0 .. TxMax /\ flight[s] \in BOOLEAN /\ th[s] \in ThType
           /\ sending \subseteq Tcp
           /\ RoomLeft(s) /\ DatagramOK(s) /\ StreamOK(s)
           /\ s \in Tcp <=> s \notin Udp
    BY SendAssumption DEF SendInv, Types, Local, Socks

\* Ends a call on a TCP socket.
LEMMA ReturnKeeps ==
    ASSUME SendInv, NEW s \in Tcp, NEW res \in Results, Return(s, res),
           UNCHANGED chip, sending' \subseteq Tcp
    PROVE  SendInv'
<1>1. s \in Socks /\ s \notin Udp
    BY SendAssumption DEF Socks
<1>2. [Idle EXCEPT !.res = res] \in ThType
    BY <1>1, Entries
<1>3. [Idle EXCEPT !.res = res].pc = "idle"
    BY DEF Idle
<1> QED
    BY <1>1, <1>2, <1>3, MoveKeeps DEF Return, Fitting

LEMMA ReadingKeeps == ASSUME SendInv, NEW s \in Socks, Reading(s) PROVE SendInv'
<1>1. At(s, "reading") /\ UNCHANGED <<sr, tx, flight, sending>>
    BY DEF Reading
<1>2. s \in Tcp /\ tx[s] + th[s].len <= TxMax
    BY <1>1, Known DEF DatagramOK, RoomLeft, Fits, Fitting, At
<1>3. CASE "SENDOK" \in ir[s]
  <2> DEFINE e == [th[s] EXCEPT !.pc = "clear", !.then = "loop"]
  <2>1. ir' = [ir EXCEPT ![s] = @ \ {"SENDOK"}] /\ th' = [th EXCEPT ![s] = e]
      BY <1>3 DEF Reading, ClearThen
  <2>2. e \in ThType /\ e.pc = "clear" /\ e.len = th[s].len
      BY Known DEF ThType, PCs
  <2> HIDE DEF e
  <2>3. /\ th' \in [Socks -> ThType] /\ th'[s] = e
        /\ \A u \in Socks : u # s => th'[u] = th[u]
      BY <2>1, <2>2, Threads
  <2>4. Types'
      BY <1>1, <2>1, <2>3, Known DEF SendInv, Types
  <2>5. Only(s)
      BY <1>1, <2>1, <2>3 DEF Only
  <2>6. Local(s)'
      BY <1>1, <1>2, <2>2, <2>3, Known
      DEF Local, RoomLeft, DatagramOK, StreamOK, At
  <2> QED
      BY <2>4, <2>5, <2>6, OneSocket
<1>4. CASE "SENDOK" \notin ir[s] /\ "TIMEOUT" \in ir[s]
  <2> DEFINE e == [th[s] EXCEPT !.pc = "close"]
  <2>1. UNCHANGED chip /\ th' = [th EXCEPT ![s] = e] /\ sending' \subseteq Tcp
      BY <1>1, <1>4, Known DEF Reading, Goto, chip
  <2>2. e \in ThType /\ e.pc = "close"
      BY Known DEF ThType, PCs
  <2> HIDE DEF e
  <2> QED
      BY <1>2, <2>1, <2>2, Known, MoveKeeps DEF Fitting
<1>5. CASE ir[s] \cap {"SENDOK", "TIMEOUT"} = {}
  <2>1. UNCHANGED chip /\ Return(s, "busy") /\ sending' \subseteq Tcp
      BY <1>1, <1>5, Known DEF Reading, chip
  <2> QED
      BY <1>2, <2>1, ReturnKeeps DEF Results
<1> QED
    BY <1>3, <1>4, <1>5 DEF Reading

LEMMA ClearKeeps == ASSUME SendInv, NEW s \in Socks, Clear(s) PROVE SendInv'
<1>1. At(s, "clear") /\ UNCHANGED chip
    BY DEF Clear
<1>2. s \in Tcp /\ s \notin Udp /\ th[s] \in ThType
    BY <1>1, Known DEF DatagramOK, At
<1>3. CASE ~th[s].loaded
  <2> DEFINE e == [th[s] EXCEPT !.loaded = TRUE, !.word = sending]
  <2>1. th' = [th EXCEPT ![s] = e] /\ sending' \subseteq Tcp
      BY <1>3, Known DEF Clear
  <2>2. e \in ThType /\ e.pc = "clear" /\ e.then = th[s].then /\ e.len = th[s].len
      BY <1>1, <1>2, Known DEF ThType, At
  <2>3. e.then = "loop" => tx[s] + e.len <= TxMax
      BY <1>1, <2>2, Known DEF RoomLeft, Fits, At
  <2> HIDE DEF e
  <2> QED
      BY <1>1, <1>2, <2>1, <2>2, <2>3, MoveKeeps
<1>4. CASE th[s].loaded
  <2>1. sending' \subseteq Tcp
      BY <1>2, <1>4 DEF Clear, ThType
  <2>2. CASE th[s].then = "idle"
      BY <1>1, <1>2, <1>4, <2>1, <2>2, ReturnKeeps DEF Clear, Results
  <2>3. CASE th[s].then # "idle"
    <3> DEFINE e == [th[s] EXCEPT !.pc = th[s].then, !.loaded = FALSE, !.word = {}]
    <3>1. th' = [th EXCEPT ![s] = e]
        BY <1>4, <2>3 DEF Clear
    <3>2. e \in ThType /\ e.pc = th[s].then /\ e.len = th[s].len
        BY <1>2 DEF ThType, PCs
    <3>3. e.pc \in {"loop", "open"} /\ (e.pc = "loop" => tx[s] + e.len <= TxMax)
        BY <1>1, <1>2, <2>3, <3>2, Known DEF ThType, RoomLeft, Fits, At
    <3> HIDE DEF e
    <3> QED
        BY <1>1, <1>2, <2>1, <3>1, <3>2, <3>3, MoveKeeps DEF Fitting
  <2> QED
      BY <2>2, <2>3
<1> QED
    BY <1>2, <1>3, <1>4 DEF ThType

LEMMA LoopKeeps == ASSUME SendInv, NEW s \in Socks, Loop(s) PROVE SendInv'
<1> DEFINE pc == IF sr[s] = "CLOSED" THEN "write" ELSE "check"
           e  == [th[s] EXCEPT !.pc = pc]
<1>1. /\ At(s, "loop") /\ UNCHANGED chip /\ th' = [th EXCEPT ![s] = e]
      /\ sending' \subseteq Tcp
    BY Known DEF Loop, Goto
<1>2. s \in Tcp /\ s \notin Udp /\ tx[s] + th[s].len <= TxMax
    BY <1>1, Known DEF DatagramOK, RoomLeft, Fits, Fitting, At
<1>3. pc \in {"write", "check"}
    OBVIOUS
<1>4. e \in ThType /\ e.pc = pc /\ e.len = th[s].len
    BY <1>3, Known DEF ThType, PCs
<1> HIDE DEF e, pc
<1> QED
    BY <1>1, <1>2, <1>3, <1>4, MoveKeeps DEF Fitting

LEMMA CheckKeeps == ASSUME SendInv, NEW s \in Socks, Check(s) PROVE SendInv'
<1> DEFINE pc == IF sr[s] \in {"ESTABLISHED", "CLOSE_WAIT"} THEN "write" ELSE "close"
           e  == [th[s] EXCEPT !.pc = pc]
<1>1. /\ At(s, "check") /\ UNCHANGED chip /\ th' = [th EXCEPT ![s] = e]
      /\ sending' \subseteq Tcp
    BY Known DEF Check, Goto
<1>2. s \in Tcp /\ s \notin Udp /\ tx[s] + th[s].len <= TxMax
    BY <1>1, Known DEF DatagramOK, RoomLeft, Fits, Fitting, At
<1>3. pc \in {"write", "close"}
    OBVIOUS
<1>4. e \in ThType /\ e.pc = pc /\ e.len = th[s].len
    BY <1>3, Known DEF ThType, PCs
<1> HIDE DEF e, pc
<1> QED
    BY <1>1, <1>2, <1>3, <1>4, MoveKeeps DEF Fitting

LEMMA WriteKeeps == ASSUME SendInv, NEW s \in Socks, Write(s) PROVE SendInv'
<1> USE SendAssumption
<1> DEFINE e == [th[s] EXCEPT !.pc = "send"]
           n == IF sr[s] = "CLOSED" THEN tx[s] ELSE tx[s] + th[s].len
<1>1. /\ At(s, "write") /\ UNCHANGED <<sr, ir, flight, sending>>
      /\ tx' = [tx EXCEPT ![s] = n] /\ th' = [th EXCEPT ![s] = e]
    BY DEF Write, Goto
<1>2. n \in 0 .. TxMax
    BY <1>1, Known DEF RoomLeft, Fits, Fitting, At, ThType
<1>3. e \in ThType /\ e.pc = "send" /\ e.res = th[s].res
    BY Known DEF ThType, PCs
<1> HIDE DEF e, n
<1>4. /\ th' \in [Socks -> ThType] /\ th'[s] = e
      /\ \A u \in Socks : u # s => th'[u] = th[u]
    BY <1>1, <1>3, Threads
<1>5. Types' /\ Only(s)
    BY <1>1, <1>2, <1>4 DEF SendInv, Types, Only
<1>6. Local(s)'
    BY <1>1, <1>3, <1>4, Known
    DEF Local, RoomLeft, Fits, Fitting, DatagramOK, StreamOK, At
<1> QED
    BY <1>5, <1>6, OneSocket

LEMMA SendKeeps == ASSUME SendInv, NEW s \in Socks, Send(s) PROVE SendInv'
<1> DEFINE pc == IF s \in Tcp THEN "set" ELSE "confirm"
           e  == [th[s] EXCEPT !.pc = pc]
<1>1. /\ At(s, "send") /\ UNCHANGED <<sr, ir, tx, sending>>
      /\ flight' = [flight EXCEPT ![s] = sr[s] # "CLOSED"]
      /\ th' = [th EXCEPT ![s] = e]
    BY DEF Send, Goto
<1>2. pc \in {"set", "confirm"} /\ (s \in Tcp => pc = "set") /\ (s \in Udp => pc = "confirm")
    BY Known
<1>3. e \in ThType /\ e.pc = pc /\ e.res = th[s].res
    BY <1>2, Known DEF ThType, PCs
<1> HIDE DEF e, pc
<1>4. /\ th' \in [Socks -> ThType] /\ th'[s] = e
      /\ \A u \in Socks : u # s => th'[u] = th[u]
    BY <1>1, <1>3, Threads
<1>5. Types' /\ Only(s)
    BY <1>1, <1>4 DEF SendInv, Types, Only
<1>6. Local(s)'
    BY <1>1, <1>2, <1>3, <1>4, Known
    DEF Local, RoomLeft, Fits, Fitting, DatagramOK, StreamOK, At
<1> QED
    BY <1>5, <1>6, OneSocket

LEMMA SetFlagKeeps == ASSUME SendInv, NEW s \in Socks, SetFlag(s) PROVE SendInv'
<1>1. At(s, "set") /\ UNCHANGED chip
    BY DEF SetFlag
<1>2. s \in Tcp /\ s \notin Udp /\ th[s] \in ThType
    BY <1>1, Known DEF DatagramOK, At
<1>3. CASE ~th[s].loaded
  <2> DEFINE e == [th[s] EXCEPT !.loaded = TRUE, !.word = sending]
  <2>1. th' = [th EXCEPT ![s] = e] /\ sending' \subseteq Tcp
      BY <1>3, Known DEF SetFlag
  <2>2. e \in ThType /\ e.pc = "set"
      BY <1>1, <1>2, Known DEF ThType, At
  <2> HIDE DEF e
  <2> QED
      BY <1>1, <1>2, <2>1, <2>2, MoveKeeps DEF Fitting
<1>4. CASE th[s].loaded
  <2>1. sending' \subseteq Tcp
      BY <1>2, <1>4 DEF SetFlag, ThType
  <2> QED
      BY <1>1, <1>2, <1>4, <2>1, ReturnKeeps DEF SetFlag, Results
<1> QED
    BY <1>2, <1>3, <1>4 DEF ThType

LEMMA ConfirmKeeps == ASSUME SendInv, NEW s \in Socks, Confirm(s) PROVE SendInv'
<1>1. At(s, "confirm") /\ UNCHANGED <<sr, tx, flight, sending>>
    BY DEF Confirm
<1>2. PICK res \in {"sent", "error"}, i \in {"SENDOK", "TIMEOUT"} :
        /\ i \in ir[s] /\ ir' = [ir EXCEPT ![s] = @ \ {i}]
        /\ i = "SENDOK" \/ "SENDOK" \notin ir[s]
        /\ th' = [th EXCEPT ![s] = [Idle EXCEPT !.res = res]]
    BY DEF Confirm, Return
<1>3. s \in Udp /\ s \notin Tcp
    BY <1>1, Known DEF StreamOK
<1>4. ~flight[s] /\ tx[s] = 0 /\ ir[s] \subseteq SnIMR \cup {"SENDOK", "TIMEOUT"}
    BY <1>2, <1>3, Known DEF DatagramOK
<1>5. ir[s] \ {i} \subseteq SnIMR
    BY <1>2, <1>3, <1>4, Known DEF DatagramOK
<1> DEFINE e == [Idle EXCEPT !.res = res]
<1>6. e \in ThType /\ e.pc = "idle"
    BY Entries DEF Results, Idle
<1>7. th' = [th EXCEPT ![s] = e]
    BY <1>2
<1> HIDE DEF e
<1>8. /\ th' \in [Socks -> ThType] /\ th'[s] = e
      /\ \A u \in Socks : u # s => th'[u] = th[u]
    BY <1>6, <1>7, Threads
<1>9. Types'
    BY <1>1, <1>2, <1>8 DEF SendInv, Types
<1>10. Only(s)
    BY <1>1, <1>2, <1>8 DEF Only
<1>11. ir'[s] = ir[s] \ {i}
    BY <1>2 DEF SendInv, Types
<1>12. Local(s)'
  <2>1. sr'[s] = "UDP" /\ tx'[s] = 0 /\ ~flight'[s] /\ th'[s].pc = "idle"
      BY <1>1, <1>3, <1>4, <1>6, <1>8, Known DEF DatagramOK
  <2>2. ir'[s] \cap {"SENDOK", "TIMEOUT"} = {}
      BY <1>5, <1>11 DEF SnIMR
  <2> QED
      BY <1>3, <2>1, <2>2
      DEF Local, RoomLeft, Fits, Fitting, DatagramOK, StreamOK, At
<1> QED
    BY <1>9, <1>10, <1>12, OneSocket

LEMMA CloseHereKeeps == ASSUME SendInv, NEW s \in Socks, CloseHere(s) PROVE SendInv'
<1> USE SendAssumption
<1> DEFINE e == [th[s] EXCEPT !.pc = "clear", !.then = "idle"]
<1>1. /\ At(s, "close") /\ UNCHANGED sending
      /\ sr' = [sr EXCEPT ![s] = "CLOSED"] /\ ir' = [ir EXCEPT ![s] = {}]
      /\ tx' = [tx EXCEPT ![s] = 0] /\ flight' = [flight EXCEPT ![s] = FALSE]
      /\ th' = [th EXCEPT ![s] = e]
    BY DEF CloseHere, ClearThen
<1>2. s \in Tcp /\ s \notin Udp
    BY <1>1, Known DEF DatagramOK, At
<1>3. e \in ThType /\ e.pc = "clear" /\ e.then = "idle"
    BY Known DEF ThType, PCs
<1> HIDE DEF e
<1>4. /\ th' \in [Socks -> ThType] /\ th'[s] = e
      /\ \A u \in Socks : u # s => th'[u] = th[u]
    BY <1>1, <1>3, Threads
<1>5. Types' /\ Only(s)
    BY <1>1, <1>4 DEF SendInv, Types, Only
<1>6. Local(s)'
    BY <1>2, <1>3, <1>4 DEF Local, RoomLeft, Fits, Fitting, DatagramOK, StreamOK, At
<1> QED
    BY <1>5, <1>6, OneSocket

LEMMA ReopenKeeps == ASSUME SendInv, NEW s \in Socks, Reopen(s) PROVE SendInv'
<1>1. s \in Tcp /\ s \notin Udp /\ UNCHANGED <<tx, flight, sending>>
    BY Known DEF Reopen
<1>2. CASE At(s, "idle") /\ ir' = [ir EXCEPT ![s] = {}] /\ ClearThen(s, "open")
           /\ UNCHANGED sr
  <2> DEFINE e == [th[s] EXCEPT !.pc = "clear", !.then = "open"]
  <2>1. th' = [th EXCEPT ![s] = e]
      BY <1>2 DEF ClearThen
  <2>2. e \in ThType /\ e.pc = "clear" /\ e.then = "open"
      BY Known DEF ThType, PCs
  <2> HIDE DEF e
  <2>3. /\ th' \in [Socks -> ThType] /\ th'[s] = e
        /\ \A u \in Socks : u # s => th'[u] = th[u]
      BY <2>1, <2>2, Threads
  <2>4. Types' /\ Only(s)
      BY <1>1, <1>2, <2>3 DEF SendInv, Types, Only
  <2>5. Local(s)'
      BY <1>1, <2>2, <2>3
      DEF Local, RoomLeft, Fits, Fitting, DatagramOK, StreamOK, At
  <2> QED
      BY <2>4, <2>5, OneSocket
<1>3. CASE At(s, "open") /\ sr' = [sr EXCEPT ![s] = "ESTABLISHED"]
           /\ th' = [th EXCEPT ![s] = Idle] /\ UNCHANGED ir
  <2>1. /\ th' \in [Socks -> ThType] /\ th'[s] = Idle
        /\ \A u \in Socks : u # s => th'[u] = th[u]
      BY <1>3, IdleIsThread, Threads
  <2>2. Types' /\ Only(s)
      BY <1>1, <1>3, <2>1 DEF SendInv, Types, Only
  <2>3. Local(s)'
      BY <1>1, <2>1
      DEF Local, RoomLeft, Fits, Fitting, DatagramOK, StreamOK, At, Idle
  <2> QED
      BY <2>2, <2>3, OneSocket
<1> QED
    BY <1>2, <1>3 DEF Reopen

LEMMA ThreadKeeps == ASSUME SendInv, NEW s \in Socks, Thread(s) PROVE SendInv'
    BY CallKeeps, ClampKeeps, StatusKeeps, ReadingKeeps, ClearKeeps, LoopKeeps,
       CheckKeeps, WriteKeeps, SendKeeps, SetFlagKeeps, ConfirmKeeps, CloseHereKeeps
    DEF Thread

-----------------------------------------------------------------------------
(* The steps of the task, the chip and the peer                            *)

\* An interrupt other than SENDOK and TIMEOUT comes or goes.
LEMMA NoticeKeeps ==
    ASSUME SendInv, NEW s \in Socks, NEW i \in SUBSET (SnIMR \cup {"SENDOK", "TIMEOUT"}),
           i \ SnIMR = ir[s] \ SnIMR, ir' = [ir EXCEPT ![s] = i],
           UNCHANGED <<sr, tx, flight, sending, th>>
    PROVE  SendInv'
<1>1. Types' /\ Only(s)
    BY DEF SendInv, Types, Only
<1>2. ir'[s] = i
    BY DEF SendInv, Types
<1>3. \A x \in {"SENDOK", "TIMEOUT"} : x \in ir'[s] <=> x \in ir[s]
    BY <1>2 DEF SnIMR
<1>4. Local(s)'
    BY <1>3, Known DEF Local, RoomLeft, Fits, Fitting, DatagramOK, StreamOK, At
<1> QED
    BY <1>1, <1>4, OneSocket

LEMMA ClearIRKeeps == ASSUME SendInv, NEW s \in Socks, ClearIR(s) PROVE SendInv'
<1>1. ir' = [ir EXCEPT ![s] = ir[s] \ SnIMR]
    BY DEF ClearIR
<1> QED
    BY <1>1, Known, NoticeKeeps DEF ClearIR

LEMMA PeerReceiveKeeps ==
    ASSUME SendInv, NEW s \in Socks, PeerReceive(s) PROVE SendInv'
<1> DEFINE i == ir[s] \cup {"RECV"}
<1>1. ir' = [ir EXCEPT ![s] = i] /\ UNCHANGED <<sr, tx, flight, sending, th>>
    BY DEF PeerReceive
<1>2. i \in SUBSET (SnIMR \cup {"SENDOK", "TIMEOUT"}) /\ i \ SnIMR = ir[s] \ SnIMR
    BY Known DEF SnIMR
<1> HIDE DEF i
<1> QED
    BY <1>1, <1>2, NoticeKeeps

LEMMA DeliverKeeps == ASSUME SendInv, NEW s \in Socks, Deliver(s) PROVE SendInv'
<1> USE SendAssumption
<1>1. PICK n \in 1 .. tx[s] : /\ s \in Udp => n = tx[s]
                              /\ tx' = [tx EXCEPT ![s] = tx[s] - n]
    BY DEF Deliver
<1>2. UNCHANGED <<sr, ir, flight, sending, th>>
    BY DEF Deliver
<1>3. tx[s] - n \in 0 .. TxMax /\ tx[s] - n < tx[s] /\ tx'[s] = tx[s] - n
    BY <1>1, Known DEF SendInv, Types
<1>4. Types' /\ Only(s)
    BY <1>1, <1>2, <1>3 DEF SendInv, Types, Only
<1>5. RoomLeft(s)' /\ StreamOK(s)'
    BY <1>2, <1>3, Known DEF RoomLeft, Fits, Fitting, StreamOK, At, ThType
<1>6. DatagramOK(s)'
    BY <1>2, <1>3, Known DEF DatagramOK, At
<1> QED
    BY <1>4, <1>5, <1>6, OneSocket DEF Local

LEMMA SendOkKeeps == ASSUME SendInv, NEW s \in Socks, SendOk(s) PROVE SendInv'
<1>1. /\ flight[s] /\ (s \in Udp => tx[s] = 0) /\ flight' = [flight EXCEPT ![s] = FALSE]
      /\ ir' = [ir EXCEPT ![s] = ir[s] \cup {"SENDOK"}]
      /\ UNCHANGED <<sr, tx, sending, th>>
    BY DEF SendOk
<1>2. Types' /\ Only(s)
    BY <1>1, Known DEF SendInv, Types, Only
<1>3. ir'[s] = ir[s] \cup {"SENDOK"} /\ ~flight'[s]
    BY <1>1 DEF SendInv, Types
<1>4. s \in Udp => ir[s] \cap {"SENDOK", "TIMEOUT"} = {} /\ At(s, "confirm")
    BY <1>1, Known DEF DatagramOK
<1>5. Local(s)'
    BY <1>1, <1>3, <1>4, Known
    DEF Local, RoomLeft, Fits, Fitting, DatagramOK, StreamOK, At
<1> QED
    BY <1>2, <1>5, OneSocket

LEMMA FailKeeps == ASSUME SendInv, NEW s \in Socks, Fail(s) PROVE SendInv'
<1> USE SendAssumption
<1>1. /\ s \in Udp => flight[s]
      /\ flight' = [flight EXCEPT ![s] = FALSE]
      /\ ir' = [ir EXCEPT ![s] = ir[s] \cup {"TIMEOUT"}]
      /\ tx' = [tx EXCEPT ![s] = 0]
      /\ sr' = [sr EXCEPT ![s] = IF s \in Tcp THEN "CLOSED" ELSE sr[s]]
      /\ UNCHANGED <<sending, th>>
    BY Known DEF Fail, Sent
<1>2. Types' /\ Only(s)
    BY <1>1, Known DEF SendInv, Types, Only
<1>3. /\ ir'[s] = ir[s] \cup {"TIMEOUT"} /\ ~flight'[s] /\ tx'[s] = 0
      /\ s \in Udp => sr'[s] = sr[s]
    BY <1>1, Known DEF SendInv, Types
<1>4. s \in Udp => ir[s] \cap {"SENDOK", "TIMEOUT"} = {} /\ At(s, "confirm")
    BY <1>1, Known DEF DatagramOK
<1>5. RoomLeft(s)' /\ StreamOK(s)'
    BY <1>1, <1>3, Known DEF RoomLeft, Fits, Fitting, StreamOK, At, ThType
<1>6. DatagramOK(s)'
    BY <1>1, <1>3, <1>4, Known DEF DatagramOK, At
<1> QED
    BY <1>2, <1>5, <1>6, OneSocket DEF Local

LEMMA PeerFinKeeps == ASSUME SendInv, NEW s \in Socks, PeerFin(s) PROVE SendInv'
<1>1. /\ sr[s] = "ESTABLISHED" /\ sr' = [sr EXCEPT ![s] = "CLOSE_WAIT"]
      /\ ir' = [ir EXCEPT ![s] = ir[s] \cup {"DISCON"}]
      /\ UNCHANGED <<tx, flight, sending, th>>
    BY DEF PeerFin
<1>2. Types' /\ Only(s)
    BY <1>1, Known DEF SendInv, Types, Only, SnIMR
<1>3. s \notin Udp
    BY <1>1, Known DEF DatagramOK
<1>4. Local(s)'
    BY <1>1, <1>3, Known DEF Local, RoomLeft, Fits, Fitting, DatagramOK, StreamOK, At
<1> QED
    BY <1>2, <1>4, OneSocket

LEMMA PeerResetKeeps == ASSUME SendInv, NEW s \in Socks, PeerReset(s) PROVE SendInv'
<1> USE SendAssumption
<1>1. /\ sr[s] # "UDP" /\ sr' = [sr EXCEPT ![s] = "CLOSED"]
      /\ ir' = [ir EXCEPT ![s] = ir[s] \cup {"DISCON"}]
      /\ tx' = [tx EXCEPT ![s] = 0] /\ flight' = [flight EXCEPT ![s] = FALSE]
      /\ UNCHANGED <<sending, th>>
    BY DEF PeerReset
<1>2. Types' /\ Only(s)
    BY <1>1, Known DEF SendInv, Types, Only, SnIMR
<1>3. s \notin Udp /\ tx'[s] = 0
    BY <1>1, Known DEF SendInv, Types, DatagramOK
<1>4. Local(s)'
    BY <1>1, <1>3, Known
    DEF Local, RoomLeft, Fits, Fitting, DatagramOK, StreamOK, At, ThType
<1> QED
    BY <1>2, <1>4, OneSocket

LEMMA StepKeeps == SendInv /\ [Next]_vars => SendInv'
<1> SUFFICES ASSUME SendInv, [Next]_vars PROVE SendInv'
    OBVIOUS
<1>1. CASE UNCHANGED vars
    BY <1>1 DEF SendInv, Types, Local, RoomLeft, Fits, DatagramOK, StreamOK, At,
                vars, chip
<1>2. ASSUME NEW s \in Socks,
             Thread(s) \/ Reopen(s) \/ ClearIR(s) \/ Chip(s) \/ Peer(s)
      PROVE  SendInv'
    BY <1>2, ThreadKeeps, ReopenKeeps, ClearIRKeeps, DeliverKeeps, SendOkKeeps,
       FailKeeps, PeerReceiveKeeps, PeerFinKeeps, PeerResetKeeps
    DEF Chip, Peer
<1> QED
    BY <1>1, <1>2 DEF Next

LEMMA SendAlways == Spec => []SendInv
    BY SendInit, StepKeeps, PTL DEF Spec

-----------------------------------------------------------------------------
(* Theorems                                                                *)

\* The variables of the send path keep their types; in particular what is marked
\* in sock_is_sending are TCP sockets.
THEOREM SendTypeCorrect == Spec => []TypeOK
<1>1. SendInv => TypeOK
    BY TypesIsTypeOK DEF SendInv
<1> QED
    BY <1>1, SendAlways, PTL

\* What wiz_sendto has fitted into the free part of the buffer still fits when
\* wiz_send_data writes it, whatever the chip, the peer and other threads do.
THEOREM SendOverwritesNothing == Spec => []NothingOverwritten
<1>1. SendInv => NothingOverwritten
    BY DEF SendInv, Local, RoomLeft, Fits, Fitting, NothingOverwritten, At
<1> QED
    BY <1>1, SendAlways, PTL

\* When sendto() on a UDP socket returns a length, the datagram is out of the
\* buffer and the command is over.
THEOREM SendDatagramLeft == Spec => []SentHasLeft
<1>1. SendInv => SentHasLeft
  <2> SUFFICES ASSUME SendInv, NEW s \in Udp, th[s].res = "sent"
               PROVE  ~flight[s] /\ tx[s] = 0
      BY DEF SentHasLeft
  <2>1. DatagramOK(s) /\ tx[s] \in 0 .. TxMax
      BY DEF SendInv, Types, Local, Socks
  <2> QED
      BY <2>1, SendAssumption DEF DatagramOK, At, Socks
<1> QED
    BY <1>1, SendAlways, PTL

-----------------------------------------------------------------------------
(* One TCP socket                                                          *)

\* No SEND command is executed and none has ended unnoticed.
Quiet(s) == ~flight[s] /\ "SENDOK" \notin ir[s]

\* Where the thread takes the socket to be quiet: past the check of
\* sock_is_sending, while it clears the bit, and elsewhere when the bit is clear.
Sure(s) == \/ th[s].pc \in {"loop", "check", "write", "send", "clear", "open"}
           \/ th[s].pc \in {"idle", "free", "status"} /\ s \notin sending

\* sock_is_sending tells the truth of socket s.
MarkOK(s) == /\ sr[s] = "CLOSED" \/ "SENDOK" \in ir[s] => ~flight[s]
             /\ Sure(s) => Quiet(s)
             /\ At(s, "reading") => s \in sending

MarkInv == SendInv /\ \A s \in Tcp : MarkOK(s)

LEMMA MarkInit == Init => MarkInv
<1> SUFFICES ASSUME Init PROVE MarkInv
    OBVIOUS
<1>1. ASSUME NEW s \in Tcp PROVE MarkOK(s)
    BY SendAssumption DEF Init, MarkOK, Sure, Quiet, Idle, At, Socks
<1> QED
    BY <1>1, SendInit DEF MarkInv

\* The two ways a step changes the thread: where it is, or all of it.
LEMMA Moves ==
    ASSUME SendInv, NEW s \in Socks
    PROVE  /\ \A pc \in PCs : Goto(s, pc) => th'[s].pc = pc
           /\ \A pc \in PCs : ClearThen(s, pc) => th'[s].pc = "clear"
           /\ \A res \in Results : Return(s, res) => th'[s].pc = "idle"
    BY DEF SendInv, Types, ThType, Goto, ClearThen, Return, Idle

LEMMA ThreadMarks ==
    ASSUME SendInv, NEW s \in Tcp, MarkOK(s), Thread(s)
    PROVE  MarkOK(s)'
<1>0. s \in Socks /\ s \notin Udp
    BY SendAssumption DEF Socks
<1>1. CASE Call(s)
  <2>2. th \in [Socks -> ThType]
      BY DEF SendInv, Types
  <2>1. th'[s].pc \in {"idle", "free"}
    <3>1. CASE sr[s] \in {"ESTABLISHED", "UDP"}
        BY <1>0, <1>1, <2>2, <3>1 DEF Call, Idle
    <3>2. CASE sr[s] \notin {"ESTABLISHED", "UDP"}
        BY <1>0, <1>1, <3>2, Moves DEF Call, Results
    <3> QED
        BY <3>1, <3>2
  <2> QED
      BY <1>0, <1>1, <2>1, Known DEF Call, MarkOK, Sure, Quiet, At, chip
<1>2. CASE Clamp(s)
  <2>1. th'[s].pc \in {"idle", "status"}
      BY <1>0, <1>2, Moves DEF PCs, Results, Clamp, SendInv, Types, ThType
  <2> QED
      BY <1>0, <1>2, <2>1 DEF Clamp, MarkOK, Sure, Quiet, At, chip
<1>3. CASE Status(s)
  <2>1. \/ th'[s].pc = "idle"
        \/ th'[s].pc = "reading" /\ s \in sending
        \/ th'[s].pc = "loop" /\ s \notin sending
      BY <1>0, <1>3, Moves DEF PCs, Results, Status
  <2> QED
      BY <1>0, <1>3, <2>1 DEF Status, MarkOK, Sure, Quiet, At, chip
<1>4. CASE Reading(s)
  <2>1. \/ /\ th'[s].pc = "clear" /\ "SENDOK" \in ir[s]
           /\ ir' = [ir EXCEPT ![s] = @ \ {"SENDOK"}]
        \/ th'[s].pc \in {"idle", "close"} /\ UNCHANGED ir
      BY <1>0, <1>4, Moves DEF PCs, Results, Reading
  <2>2. ir' = [ir EXCEPT ![s] = @ \ {"SENDOK"}] => "SENDOK" \notin ir'[s]
      BY <1>0, <2>1 DEF SendInv, Types
  <2>3. At(s, "reading") /\ UNCHANGED <<sr, flight, sending>>
      BY <1>4 DEF Reading
  <2>4. CASE th'[s].pc \in {"idle", "close"} /\ UNCHANGED ir
      BY <2>3, <2>4 DEF MarkOK, Sure, Quiet, At
  <2>5. CASE th'[s].pc = "clear" /\ "SENDOK" \in ir[s] /\ "SENDOK" \notin ir'[s]
      BY <2>3, <2>5 DEF MarkOK, Sure, Quiet, At
  <2> QED
      BY <2>1, <2>2, <2>4, <2>5
<1>5. CASE Clear(s)
  <2>1. th'[s].pc \in {"clear", "idle", "loop", "open"}
      BY <1>0, <1>5, Moves, Known DEF PCs, Results, Clear, SendInv, Types, ThType, At
  <2> QED
      BY <1>0, <1>5, <2>1 DEF Clear, MarkOK, Sure, Quiet, At, chip
<1>6. CASE Loop(s) \/ Check(s)
  <2>1. th'[s].pc \in {"write", "check", "close"}
      BY <1>0, <1>6, Moves DEF PCs, Results, Loop, Check
  <2> QED
      BY <1>0, <1>6, <2>1 DEF Loop, Check, MarkOK, Sure, Quiet, At, chip
<1>7. CASE Write(s)
    BY <1>0, <1>7, Moves DEF PCs, Results, Write, MarkOK, Sure, Quiet, At
<1>8. CASE Send(s)
  <2>1. th'[s].pc = "set" /\ flight'[s] = (sr[s] # "CLOSED")
      BY <1>0, <1>8, Moves DEF PCs, Results, Send, SendInv, Types
  <2> QED
      BY <1>0, <1>8, <2>1 DEF Send, MarkOK, Sure, Quiet, At
<1>9. CASE SetFlag(s)
  <2>1. \/ th'[s].pc = "set"
        \/ th'[s].pc = "idle" /\ s \in sending'
      BY <1>0, <1>9, Moves, Known DEF PCs, Results, SetFlag, SendInv, Types, ThType, At
  <2> QED
      BY <1>0, <1>9, <2>1 DEF SetFlag, MarkOK, Sure, Quiet, At, chip
<1>10. CASE Confirm(s)
    BY <1>0, <1>10, Known DEF Confirm, StreamOK
<1>11. CASE CloseHere(s)
  <2>1. th'[s].pc = "clear" /\ flight'[s] = FALSE /\ ir'[s] = {}
      BY <1>0, <1>11, Moves DEF PCs, Results, CloseHere, SendInv, Types
  <2> QED
      BY <1>0, <1>11, <2>1 DEF MarkOK, Sure, Quiet, At
<1> QED
    BY <1>1, <1>2, <1>3, <1>4, <1>5, <1>6, <1>7, <1>8, <1>9, <1>10, <1>11 DEF Thread

LEMMA OthersMark ==
    ASSUME SendInv, NEW s \in Tcp, MarkOK(s),
           Reopen(s) \/ ClearIR(s) \/ Chip(s) \/ Peer(s)
    PROVE  MarkOK(s)'
<1>0. s \in Socks /\ s \notin Udp
    BY SendAssumption DEF Socks
<1>1. CASE Reopen(s)
  <2>1. \/ th'[s].pc = "clear" /\ sr[s] = "CLOSED" /\ UNCHANGED sr /\ ir'[s] = {}
        \/ th'[s].pc = "idle" /\ At(s, "open") /\ UNCHANGED ir
      BY <1>0, <1>1, Moves DEF PCs, Results, Reopen, SendInv, Types, Idle
  <2> QED
      BY <1>0, <1>1, <2>1 DEF Reopen, MarkOK, Sure, Quiet, At
<1>2. CASE ClearIR(s) \/ PeerReceive(s)
  <2>1. "SENDOK" \in ir'[s] <=> "SENDOK" \in ir[s]
      BY <1>0, <1>2 DEF ClearIR, PeerReceive, SendInv, Types, SnIMR
  <2> QED
      BY <1>0, <1>2, <2>1 DEF ClearIR, PeerReceive, MarkOK, Sure, Quiet, At
<1>3. CASE Deliver(s)
    BY <1>0, <1>3 DEF Deliver, MarkOK, Sure, Quiet, At
<1>4. CASE SendOk(s)
  <2>1. flight[s] /\ ~flight'[s] /\ UNCHANGED <<sr, tx, sending, th>>
      BY <1>0, <1>4 DEF SendOk, SendInv, Types
  <2> QED
      BY <1>0, <2>1 DEF MarkOK, Sure, Quiet, At
<1>5. CASE Fail(s)
  <2>1. /\ ~flight'[s] /\ ("SENDOK" \in ir'[s] <=> "SENDOK" \in ir[s])
        /\ UNCHANGED <<sending, th>>
      BY <1>0, <1>5 DEF Fail, SendInv, Types
  <2> QED
      BY <1>0, <2>1 DEF MarkOK, Sure, Quiet, At
<1>6. CASE PeerFin(s) \/ PeerReset(s)
  <2>1. /\ "SENDOK" \in ir'[s] <=> "SENDOK" \in ir[s]
        /\ flight'[s] => flight[s] /\ sr'[s] # "CLOSED"
        /\ UNCHANGED <<sending, th>>
      BY <1>0, <1>6 DEF PeerFin, PeerReset, SendInv, Types
  <2> QED
      BY <1>0, <2>1 DEF MarkOK, Sure, Quiet, At
<1> QED
    BY <1>1, <1>2, <1>3, <1>4, <1>5, <1>6 DEF Chip, Peer

\* A thread on a UDP socket leaves the TCP sockets and sock_is_sending alone.
LEMMA UdpAside ==
    ASSUME SendInv, NEW u \in Udp, NEW s \in Tcp,
           Thread(u) \/ Reopen(u) \/ ClearIR(u) \/ Chip(u) \/ Peer(u)
    PROVE  /\ sr'[s] = sr[s] /\ ir'[s] = ir[s] /\ flight'[s] = flight[s]
           /\ th'[s] = th[s] /\ sending' = sending
<1>0. u # s /\ u \notin Tcp /\ u \in Socks /\ s \in Socks
    BY SendAssumption DEF Socks
<1>1. th[u].pc \in {"idle", "free", "write", "send", "confirm"}
    BY <1>0, Known DEF DatagramOK
<1>4. /\ \A pc : Goto(u, pc) => th'[s] = th[s]
      /\ \A res : Return(u, res) => th'[s] = th[s]
    BY <1>0 DEF Goto, Return, SendInv, Types
<1>2. CASE Call(u) \/ Clamp(u) \/ Write(u) \/ Send(u) \/ Confirm(u)
  <2>1. CASE Call(u)
      BY <1>0, <1>4, <2>1 DEF Call, chip, SendInv, Types
  <2>2. CASE Clamp(u)
      BY <1>0, <1>4, <2>2 DEF Clamp, chip, SendInv, Types
  <2>3. CASE Write(u)
      BY <1>4, <2>3 DEF Write
  <2>4. CASE Send(u)
      BY <1>0, <1>4, <2>4 DEF Send, SendInv, Types
  <2>5. CASE Confirm(u)
      BY <1>0, <1>4, <2>5 DEF Confirm, SendInv, Types
  <2> QED
      BY <1>2, <2>1, <2>2, <2>3, <2>4, <2>5
<1>3. CASE ClearIR(u) \/ Chip(u) \/ Peer(u)
  <2>1. CASE ClearIR(u) \/ PeerReceive(u)
      BY <1>0, <2>1 DEF ClearIR, PeerReceive, SendInv, Types
  <2>2. CASE Chip(u)
      BY <1>0, <2>2 DEF Chip, Deliver, SendOk, SendInv, Types
  <2>3. CASE Fail(u) \/ PeerFin(u) \/ PeerReset(u)
      BY <1>0, <2>3 DEF Fail, PeerFin, PeerReset, SendInv, Types
  <2> QED
      BY <1>3, <2>1, <2>2, <2>3 DEF Peer
<1> QED
    BY <1>0, <1>1, <1>2, <1>3
    DEF Thread, Status, Reading, Clear, Loop, Check, SetFlag, CloseHere, Reopen, At

\* On a chip whose sockets are all UDP but one, a SEND command is never given while
\* another is executed.  With two TCP sockets it can be: sock_is_sending |= and &=
\* of two threads overlap and a bit is lost.
THEOREM LoneSocketSendsOnce ==
    ASSUME \A a, b \in Tcp : a = b
    PROVE  Spec => []OneSendAtATime
<1>1. MarkInv /\ [Next]_vars => MarkInv'
  <2> SUFFICES ASSUME MarkInv, [Next]_vars, NEW s \in Tcp PROVE MarkOK(s)'
      BY StepKeeps DEF MarkInv
  <2>1. SendInv /\ MarkOK(s)
      BY DEF MarkInv
  <2>2. CASE UNCHANGED vars
      BY <2>1, <2>2 DEF MarkOK, Sure, Quiet, At, vars, chip
  <2>3. ASSUME NEW u \in Socks,
               Thread(u) \/ Reopen(u) \/ ClearIR(u) \/ Chip(u) \/ Peer(u)
        PROVE  MarkOK(s)'
    <3>1. CASE u \in Tcp
        BY <2>1, <2>3, <3>1, ThreadMarks, OthersMark
    <3>2. CASE u \in Udp
        BY <2>1, <2>3, <3>2, UdpAside DEF MarkOK, Sure, Quiet, At
    <3> QED
        BY <3>1, <3>2 DEF Socks
  <2> QED
      BY <2>2, <2>3 DEF Next
<1>2. MarkInv => OneSendAtATime
  <2> SUFFICES ASSUME MarkInv, NEW s \in Socks, At(s, "send") PROVE ~flight[s]
      BY DEF OneSendAtATime
  <2>1. CASE s \in Tcp
      BY <2>1 DEF MarkInv, MarkOK, Sure, Quiet, At
  <2>2. CASE s \in Udp
      BY <2>2, Known DEF MarkInv, DatagramOK, At
  <2> QED
      BY <2>1, <2>2 DEF Socks
<1> QED
    BY <1>1, <1>2, MarkInit, PTL DEF Spec
=============================================================================
