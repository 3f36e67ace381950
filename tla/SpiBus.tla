------------------------------- MODULE SpiBus -------------------------------
(***************************************************************************)
(* How several threads reach the registers of the one chip: the frames of  *)
(* WIZCHIP_READ, WIZCHIP_WRITE, WIZCHIP_READ_BUF and WIZCHIP_WRITE_BUF     *)
(* (w5500.c) over the bus, chip select and SPI calls of the RT-Thread port *)
(* (platformW5500Hardware.c).  A step is one call of the port: the port    *)
(* registers burst functions, so a burst is one transfer.  The chip takes  *)
(* the first three bytes after its select for an address and a direction   *)
(* and moves on by one cell with each byte that follows.                   *)
(***************************************************************************)
EXTENDS Naturals, Sequences

CONSTANTS Users,      \* threads
          Addrs,      \* addresses, 0 .. n
          Contents,   \* contents of a cell
          Lens,       \* lengths of the buffers passed to READ_BUF and WRITE_BUF
          Volatile,   \* cells the network changes
          Nobody      \* no thread, no request

ASSUME BusAssumption == /\ Addrs \subseteq Nat /\ Volatile \subseteq Addrs
                        /\ Contents # {} /\ Lens \subseteq Nat \ {0}
                        /\ Nobody \notin Users
                        /\ Nobody \notin [write : BOOLEAN, addr : Addrs, len : Lens \cup {1},
                                         data : Contents]

VARIABLES cell,    \* the chip: its registers and buffers
          chip,    \*   and its decoder: selected, header seen, address, direction
          taker,   \* the thread that has taken the SPI bus, or Nobody
          frame,   \* for each thread where it is in a function, and its arguments
          got      \* for each thread what it has read

busVars == <<cell, chip, taker, frame, got>>

-----------------------------------------------------------------------------
(* The chip                                                                *)

Deaf == [selected |-> FALSE, header |-> FALSE, addr |-> 0, write |-> FALSE]

\* Three bytes of address and direction; within a frame they are data.
HeaderSent(c, r) == IF ~c.selected THEN c
                ELSE IF c.header THEN [c EXCEPT !.addr = @ + 3]
                ELSE [c EXCEPT !.header = TRUE, !.addr = r.addr, !.write = r.write]

MovedOn(c, n) == IF c.selected /\ c.header THEN [c EXCEPT !.addr = @ + n] ELSE c

\* What the cells are after n bytes d.
Stored(c, n, d) ==
    IF c.selected /\ c.header /\ c.write
    THEN [a \in Addrs |-> IF a \in c.addr .. c.addr + n - 1 THEN d ELSE cell[a]]
    ELSE cell

\* What n bytes read: the line floats unless the chip is in a read frame.
Driven(c, n) ==
    IF c.selected /\ c.header /\ ~c.write /\ c.addr .. c.addr + n - 1 \subseteq Addrs
    THEN {[i \in 1 .. n |-> cell[c.addr + i - 1]]}
    ELSE [1 .. n -> Contents]

-----------------------------------------------------------------------------
(* platformW5500Hardware.c                                                 *)

Blank == CHOOSE b \in Contents : TRUE
Returned == [pc |-> "idle", write |-> FALSE, buf |-> FALSE, addr |-> 0, len |-> 1, data |-> Blank]

Now(t, pc) == frame' = [frame EXCEPT ![t].pc = pc]

\* Mutant of RyanW5500CriticalEnter: the bus is not taken.
CriticalEnterFree(t) ==
    /\ frame[t].pc = "enter" /\ Now(t, "select") /\ UNCHANGED <<cell, chip, taker, got>>

RyanW5500CriticalEnter(t) ==
    /\ frame[t].pc = "enter"
    /\ taker = Nobody
    /\ taker' = t
    /\ Now(t, "select")
    /\ UNCHANGED <<cell, chip, got>>

RyanW5500CsSelect(t) ==
    /\ frame[t].pc = "select"
    /\ chip' = [chip EXCEPT !.selected = TRUE]
    /\ Now(t, "header")
    /\ UNCHANGED <<cell, taker, got>>

RyanW5500CsDeselect(t) ==
    /\ frame[t].pc = "deselect"
    /\ chip' = Deaf
    /\ Now(t, "exit")
    /\ UNCHANGED <<cell, taker, got>>

RyanW5500CriticalExit(t) ==
    /\ frame[t].pc = "exit"
    /\ taker' = Nobody
    /\ frame' = [frame EXCEPT ![t] = Returned]
    /\ UNCHANGED <<cell, chip, got>>

-----------------------------------------------------------------------------
(* w5500.c                                                                 *)

Frame(t, write, buf, addr, len, d) ==
    /\ frame[t].pc = "idle"
    /\ addr .. addr + len - 1 \subseteq Addrs
    /\ frame' = [frame EXCEPT ![t] = [pc |-> "enter", write |-> write, buf |-> buf,
                                      addr |-> addr, len |-> len, data |-> d]]
    /\ got' = [got EXCEPT ![t] = <<>>]
    /\ UNCHANGED <<cell, chip, taker>>

WIZCHIP_READ(t, addr) == Frame(t, FALSE, FALSE, addr, 1, Blank)
WIZCHIP_WRITE(t, addr, wb) == Frame(t, TRUE, FALSE, addr, 1, wb)
WIZCHIP_READ_BUF(t, addr, len) == Frame(t, FALSE, TRUE, addr, len, Blank)
WIZCHIP_WRITE_BUF(t, addr, len, b) == Frame(t, TRUE, TRUE, addr, len, b)

\* RyanW5500WriteBurst(spi_data, 3); WIZCHIP_WRITE sends its byte in the same burst.
WriteHeader(t) ==
    LET r == frame[t]
        c == HeaderSent(chip, r)
        n == IF r.write /\ ~r.buf THEN 1 ELSE 0
    IN  /\ r.pc = "header"
        /\ cell' = Stored(c, n, r.data)
        /\ chip' = MovedOn(c, n)
        /\ Now(t, IF n = 1 THEN "deselect" ELSE "data")
        /\ UNCHANGED <<taker, got>>

\* RyanW5500WriteBurst(pBuf, len)
WriteData(t) ==
    LET r == frame[t] IN
    /\ r.pc = "data" /\ r.write
    /\ cell' = Stored(chip, r.len, r.data)
    /\ chip' = MovedOn(chip, r.len)
    /\ Now(t, "deselect")
    /\ UNCHANGED <<taker, got>>

\* RyanW5500ReadBurst(pBuf, len), or RyanW5500ReadByte
ReadData(t) ==
    LET r == frame[t] IN
    /\ r.pc = "data" /\ ~r.write
    /\ \E v \in Driven(chip, r.len) : got' = [got EXCEPT ![t] = v]
    /\ chip' = MovedOn(chip, r.len)
    /\ Now(t, "deselect")
    /\ UNCHANGED <<cell, taker>>

\* The network changes a register.
NetworkSets == /\ \E a \in Volatile, b \in Contents : cell' = [cell EXCEPT ![a] = b]
          /\ UNCHANGED <<chip, taker, frame, got>>

-----------------------------------------------------------------------------
BusInit ==
    /\ cell \in [Addrs -> Contents]
    /\ chip = Deaf
    /\ taker = Nobody
    /\ frame = [t \in Users |-> Returned]
    /\ got = [t \in Users |-> <<>>]

BusNext ==
    \/ \E t \in Users :
         \/ \E a \in Addrs : \/ WIZCHIP_READ(t, a)
                             \/ \E b \in Contents : WIZCHIP_WRITE(t, a, b)
                             \/ \E len \in Lens : \/ WIZCHIP_READ_BUF(t, a, len)
                                                 \/ \E b \in Contents : WIZCHIP_WRITE_BUF(t, a, len, b)
         \/ RyanW5500CriticalEnter(t) \/ RyanW5500CsSelect(t)
         \/ WriteHeader(t) \/ WriteData(t) \/ ReadData(t)
         \/ RyanW5500CsDeselect(t) \/ RyanW5500CriticalExit(t)
    \/ NetworkSets

BusSpec == BusInit /\ [][BusNext]_busVars

-----------------------------------------------------------------------------
(* Properties                                                              *)

\* A thread's request while it has not been carried out.
Asked(t) == LET r == frame[t] IN
    IF r.pc \in {"enter", "select", "header", "data"}
    THEN [write |-> r.write, addr |-> r.addr, len |-> r.len, data |-> r.data]
    ELSE Nobody

Registers == INSTANCE RegisterFile WITH Threads <- Users, Cells <- Addrs, Bytes <- Contents,
                                        None <- Nobody, asked <- [t \in Users |-> Asked(t)]

\* Whatever the order in which threads take the bus, select the chip and send and
\* receive bytes, each call of WIZCHIP_READ, WRITE, READ_BUF and WRITE_BUF reads or
\* writes exactly the cells it names at one moment between its call and its return.
ImplementsRegisters == Registers!Spec
=============================================================================
