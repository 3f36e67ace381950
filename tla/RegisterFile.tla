---------------------------- MODULE RegisterFile ----------------------------
(***************************************************************************)
(* What the register access functions promise: each request of a thread is *)
(* carried out at one moment on the cells it names, and a cell changes in  *)
(* no other way except by the network's doing.                             *)
(***************************************************************************)
EXTENDS Naturals, Sequences

CONSTANTS Threads, Cells, Bytes, Lens, Volatile, None

VARIABLES cell,   \* the content of the cells
          asked,  \* for each thread its request, or None
          got     \* for each thread what it has read

\* A request: read len cells, or write data, from address addr on.
Asks(r)   == r.addr .. r.addr + r.len - 1

Init == /\ cell \in [Cells -> Bytes]
        /\ asked = [t \in Threads |-> None]
        /\ got = [t \in Threads |-> <<>>]

Ask(t) == /\ asked[t] = None
          /\ \E r \in [write : BOOLEAN, addr : Cells, len : Lens \cup {1}, data : Bytes] :
               Asks(r) \subseteq Cells /\ asked' = [asked EXCEPT ![t] = r]
          /\ got' = [got EXCEPT ![t] = <<>>]
          /\ UNCHANGED cell

Answer(t) ==
    /\ asked[t] # None
    /\ asked' = [asked EXCEPT ![t] = None]
    /\ LET r == asked[t] IN
       IF r.write
       THEN cell' = [a \in Cells |-> IF a \in Asks(r) THEN r.data ELSE cell[a]] /\ UNCHANGED got
       ELSE got' = [got EXCEPT ![t] = [i \in 1 .. r.len |-> cell[r.addr + i - 1]]] /\ UNCHANGED cell

Network == /\ \E a \in Volatile, b \in Bytes : cell' = [cell EXCEPT ![a] = b]
           /\ UNCHANGED <<asked, got>>

Next == Network \/ \E t \in Threads : Ask(t) \/ Answer(t)

Spec == Init /\ [][Next]_<<cell, asked, got>>
=============================================================================
