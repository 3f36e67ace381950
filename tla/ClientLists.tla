---------------------------- MODULE ClientLists ----------------------------
(***************************************************************************)
(* What RyanList promises: lists of entries, each in one list at most,     *)
(* that grow at either end and lose entries anywhere.                      *)
(***************************************************************************)
EXTENDS Sequences, SequencesExt

CONSTANTS Heads, Entries

VARIABLE lists    \* for each head its entries in order

Free(e)     == \A h \in Heads : ~Contains(lists[h], e)
Place(s, e) == CHOOSE i \in 1 .. Len(s) : s[i] = e
Removed(s, e) == IF Contains(s, e) THEN RemoveAt(s, Place(s, e)) ELSE s
Without(e)  == [h \in Heads |-> Removed(lists[h], e)]

Init == lists = [h \in Heads |-> <<>>]

Add(e, h)      == lists' = [Without(e) EXCEPT ![h] = <<e>> \o @]
AddTail(e, h)  == lists' = [Without(e) EXCEPT ![h] = Append(@, e)]
Del(e)         == ~Free(e) /\ lists' = Without(e)

Next == \E e \in Entries : Del(e) \/ \E h \in Heads : Add(e, h) \/ AddTail(e, h)

Spec == Init /\ [][Next]_lists
=============================================================================
