---------------------------- MODULE SocketBuffer ----------------------------
(***************************************************************************)
(* The receive or send buffer of a socket in the chip: a ring of Cap bytes *)
(* with 16-bit pointers, read and filled by wiz_recv_data and              *)
(* wiz_send_data, whose size register getSn_RX_RSR or getSn_TX_FSR reads   *)
(* byte by byte while the chip lets it grow (w5500.c).  One thread at a    *)
(* time uses a buffer; its other registers are its own.                    *)
(***************************************************************************)
EXTENDS Naturals, Sequences

CONSTANTS Base,   \* values of a byte of a register: 256
          Cap,    \* bytes in the buffer: 2048
          Chunks  \* numbers of bytes that arrive or are acknowledged at once, or are asked for

ASSUME BufferAssumption ==
    /\ Base \in Nat \ {0} /\ Cap \in Nat \ {0} /\ Cap < Base * Base
    /\ (Base * Base) % Cap = 0
    /\ Chunks \subseteq Nat \ {0}

Size16 == Base * Base

VARIABLES side,    \* "rx" or "tx"
          mem,     \* the ring
          rdwr,    \* Sn_RX_RD or Sn_TX_WR
          done,    \* where the last RECV or SEND command put the chip's end
          far,     \* rx: the end of what has arrived; tx: Cap past what is acknowledged
          user,    \* the thread: program counter, val, val1, len and ptr
          known,   \* ghost: the sizes since the thread began to read the register
          moved    \* ghost: the bytes the last command delivered or sent

bufferVars == <<side, mem, rdwr, done, far, user, known, moved>>

\* Sn_RX_RSR, what has arrived and not been read, or Sn_TX_FSR, what is free.
Size == (far + Size16 - done) % Size16

\* Byte number i of the stream, as far as a run of Size16 bytes tells it.
Byte(i) == i % Size16

-----------------------------------------------------------------------------
(* w5500.c                                                                 *)

To(pc) == user' = [user EXCEPT !.pc = pc]
Still  == UNCHANGED <<side, mem, rdwr, done, far, moved>>

\* getSn_RX_RSR and getSn_TX_FSR: val1 and val, each high byte first.
BeginSize ==
    /\ user.pc = "idle"
    /\ user' = [user EXCEPT !.pc = "high1", !.val = 0, !.val1 = 0]
    /\ known' = {Size} /\ moved' = <<>>
    /\ UNCHANGED <<side, mem, rdwr, done, far>>

High1 == /\ user.pc = "high1"
         /\ user' = [user EXCEPT !.pc = "low1", !.val1 = Size \div Base]
         /\ UNCHANGED known /\ Still

\* Where the loop goes with val and val1.
Compared(x) == IF x.val # x.val1 THEN "high1" ELSE IF x.val = 0 THEN "idle" ELSE "ptr"

\* Mutant of SecondTime: the first reading is taken as it is.
FirstTime(x) == [x EXCEPT !.val = x.val1, !.pc = IF x.val1 = 0 THEN "idle" ELSE "ptr"]

\* The register is read again unless the first reading is zero.
SecondTime(x) == [x EXCEPT !.pc = IF x.val1 # 0 THEN "high2" ELSE Compared(x)]

Low1 ==
    /\ user.pc = "low1"
    /\ user' = SecondTime([user EXCEPT !.val1 = Base * @ + (Size % Base)])
    /\ UNCHANGED known /\ Still

High2 == /\ user.pc = "high2"
         /\ user' = [user EXCEPT !.pc = "low2", !.val = Size \div Base]
         /\ UNCHANGED known /\ Still

Low2 ==
    /\ user.pc = "low2"
    /\ LET x == [user EXCEPT !.val = Base * user.val + (Size % Base)] IN
       user' = [x EXCEPT !.pc = Compared(x)]
    /\ UNCHANGED known /\ Still

\* wiz_recv_data and wiz_send_data, of at most the size read.
ReadPointer ==
    /\ user.pc = "ptr"
    /\ \E n \in Chunks :
         user' = [user EXCEPT !.pc = "data", !.len = IF n < user.val THEN n ELSE user.val, !.ptr = rdwr]
    /\ known' = {} /\ Still

ReadBuffer ==
    /\ user.pc = "data" /\ side = "rx"
    /\ moved' = [i \in 1 .. user.len |-> mem[(user.ptr + i - 1) % Cap]]
    /\ To("set")
    /\ UNCHANGED <<side, mem, rdwr, done, far, known>>

\* The stream goes on where the last call ended.
WriteBuffer ==
    /\ user.pc = "data" /\ side = "tx"
    /\ mem' = [c \in 0 .. Cap - 1 |->
                 LET i == (c + Cap - (user.ptr % Cap)) % Cap
                 IN  IF i < user.len THEN Byte(done + i) ELSE mem[c]]
    /\ To("set")
    /\ UNCHANGED <<side, rdwr, done, far, known, moved>>

\* Mutant of Advanced: the pointer starts again at the end of the ring.
AdvancedRing(p, len) == (p + len) % Cap

Advanced(p, len) == (p + len) % Size16

SetPointer ==
    /\ user.pc = "set"
    /\ rdwr' = Advanced(user.ptr, user.len)
    /\ To("command")
    /\ UNCHANGED <<side, mem, done, far, known, moved>>

\* The RECV or SEND command: the chip takes the pointer over, and sends.
Command ==
    /\ user.pc = "command"
    /\ done' = rdwr
    /\ moved' = IF side = "rx" THEN moved
                ELSE [i \in 1 .. (rdwr + Size16 - done) % Size16 |-> mem[(done + i - 1) % Cap]]
    /\ user' = [user EXCEPT !.pc = "idle", !.val = 0, !.val1 = 0, !.len = 0, !.ptr = 0]
    /\ UNCHANGED <<side, mem, rdwr, far, known>>

-----------------------------------------------------------------------------
\* The chip stores bytes that arrive, or the peer acknowledges bytes.
Grow(n) ==
    /\ Size + n <= Cap
    /\ far' = (far + n) % Size16
    /\ mem' = IF side = "tx" THEN mem
              ELSE [c \in 0 .. Cap - 1 |->
                      LET i == (c + Cap - (far % Cap)) % Cap
                      IN  IF i < n THEN Byte(far + i) ELSE mem[c]]
    /\ known' = IF user.pc \in {"high1", "low1", "high2", "low2"}
                THEN known \cup {Size + n} ELSE known
    /\ UNCHANGED <<side, rdwr, done, user, moved>>

BufferInit ==
    /\ side \in {"rx", "tx"}
    /\ mem = [c \in 0 .. Cap - 1 |-> 0]
    /\ rdwr = 0 /\ done = 0
    /\ far = (IF side = "rx" THEN 0 ELSE Cap)
    /\ user = [pc |-> "idle", val |-> 0, val1 |-> 0, len |-> 0, ptr |-> 0]
    /\ known = {} /\ moved = <<>>

UserNext == \/ BeginSize \/ High1 \/ Low1 \/ High2 \/ Low2
            \/ ReadPointer \/ ReadBuffer \/ WriteBuffer \/ SetPointer \/ Command

BufferNext == UserNext \/ \E n \in Chunks : Grow(n)

BufferSpec == BufferInit /\ [][BufferNext]_bufferVars

-----------------------------------------------------------------------------
(* Properties                                                              *)

\* A size other than zero that getSn_RX_RSR or getSn_TX_FSR returns is one the
\* register had during the call, though its two bytes are read apart.
SizeIsTrue == user.pc = "ptr" => user.val \in known

\* The bytes the chip has sent or the thread has been given.
FirstMoved == IF side = "rx" /\ user.pc \in {"set", "command"} THEN done
              ELSE (done + Size16 - Len(moved)) % Size16

\* The bytes delivered or sent follow on those before, however often the pointers
\* and the ring have wrapped, and bytes not yet acknowledged are not overwritten.
InOrder ==
    /\ \A i \in 1 .. Len(moved) : moved[i] = Byte(FirstMoved + i - 1)
    /\ side = "tx" =>
         \A i \in 0 .. Cap - Size - 1 : LET k == far + Size16 - Cap + i IN mem[k % Cap] = Byte(k)
=============================================================================
