------------------------------ MODULE RyanList ------------------------------
(***************************************************************************)
(* The circular doubly linked list of src/common/RyanList.c, which holds   *)
(* the clients of a listening socket, and the loop RyanListForEachSafe     *)
(* that destroys them.  The operations are called with socketMutexHandle   *)
(* held, except that the W5500 task appends clients without it; a loop can *)
(* see that happen between two rounds.                                     *)
(***************************************************************************)
EXTENDS Naturals, Sequences, FiniteSets

CONSTANTS Heads,     \* list heads
          Entries,   \* entries
          Null       \* the pointer in memory that is zero

ASSUME ListAssumption == /\ Heads \cap Entries = {} /\ Null \notin Heads \cup Entries
                         /\ IsFiniteSet(Entries)

Nodes == Heads \cup Entries

VARIABLES heap,    \* the next and prev pointers of the nodes
          on,      \* ghost: the list an entry has been added to, or Null
          loop,    \* RyanListForEachSafe: its list or Null, curr and next
          begun,   \* ghost: the entries on the list when the loop began
          seen     \* ghost: those it has visited, in order

listVars == <<heap, on, loop, begun, seen>>

-----------------------------------------------------------------------------
(* RyanList.c                                                              *)

\* _RyanListAdd
Inserted(x, node, prev, next) ==
    [next |-> [x.next EXCEPT ![node] = next, ![prev] = node],
     prev |-> [x.prev EXCEPT ![next] = node, ![node] = prev]]

\* Mutant of Deleted: only the forward pointer is changed.
DeletedForward(x, e) == [x EXCEPT !.next[x.prev[e]] = x.next[e]]

\* _RyanListDel_entry: the entry keeps its own pointers.
Deleted(x, e) ==
    [next |-> [x.next EXCEPT ![x.prev[e]] = x.next[e]],
     prev |-> [x.prev EXCEPT ![x.next[e]] = x.prev[e]]]

\* RyanListInit
Alone(x, e) == [next |-> [x.next EXCEPT ![e] = e], prev |-> [x.prev EXCEPT ![e] = e]]

\* Mutant of AtTail: one before the end.
AtTailBefore(x, e, list) == Inserted(x, e, x.prev[x.prev[list]], x.prev[list])

\* RyanListAdd and RyanListAddTail
AtHead(x, e, list) == Inserted(x, e, list, x.next[list])
AtTail(x, e, list) == Inserted(x, e, x.prev[list], list)

\* RyanListIsEmpty
IsEmpty(list) == heap.next[list] = list

-----------------------------------------------------------------------------
(* The operations                                                          *)

Outside == loop.list = Null
Goes(e, list) == on' = [on EXCEPT ![e] = list]

RyanListAdd(e, list) ==
    /\ Outside /\ on[e] = Null
    /\ heap' = AtHead(heap, e, list)
    /\ Goes(e, list)
    /\ UNCHANGED <<loop, begun, seen>>

\* By the W5500 task also while a loop runs, with an entry just allocated, which the
\* loop has not met.
RyanListAddTail(e, list) ==
    /\ ~Outside => e \notin begun /\ \A i \in 1 .. Len(seen) : seen[i] # e
    /\ on[e] = Null
    /\ heap' = AtTail(heap, e, list)
    /\ Goes(e, list)
    /\ UNCHANGED <<loop, begun, seen>>

RyanListDel(e) ==
    /\ Outside /\ on[e] # Null
    /\ heap' = Deleted(heap, e)
    /\ Goes(e, Null)
    /\ UNCHANGED <<loop, begun, seen>>

RyanListDelInit(e) ==
    /\ Outside /\ on[e] # Null
    /\ heap' = Alone(Deleted(heap, e), e)
    /\ Goes(e, Null)
    /\ UNCHANGED <<loop, begun, seen>>

RyanListMove(e, list) ==
    /\ Outside /\ on[e] # Null
    /\ heap' = AtHead(Deleted(heap, e), e, list)
    /\ Goes(e, list)
    /\ UNCHANGED <<loop, begun, seen>>

RyanListMoveTail(e, list) ==
    /\ Outside /\ on[e] # Null
    /\ heap' = AtTail(Deleted(heap, e), e, list)
    /\ Goes(e, list)
    /\ UNCHANGED <<loop, begun, seen>>

\* RyanListForEachSafe: curr is the first entry, and ahead the one after it.
ForEachSafe(list) ==
    /\ Outside
    /\ loop' = [list |-> list, curr |-> heap.next[list], ahead |-> heap.next[heap.next[list]]]
    /\ begun' = {e \in Entries : on[e] = list}
    /\ seen' = <<>>
    /\ UNCHANGED <<heap, on>>

\* Mutant of Ahead: RyanListForEach, which reads the pointer after the body.
AheadLate(x) == [loop EXCEPT !.curr = x.next[@], !.ahead = x.next[x.next[loop.curr]]]

\* The step to the next entry, once the body has made x of the heap.
Ahead(x) == [loop EXCEPT !.curr = loop.ahead, !.ahead = x.next[loop.ahead]]

Round(x) ==
    /\ ~Outside
    /\ loop.curr # loop.list
    /\ heap' = x
    /\ loop' = Ahead(x)
    /\ seen' = Append(seen, loop.curr)
    /\ UNCHANGED begun

\* The body leaves the entry, or deletes it by either call.
Leave == Round(heap) /\ UNCHANGED on

Mine == loop.curr \in Entries /\ on[loop.curr] = loop.list

LoopDel ==
    /\ Mine
    /\ Round(Deleted(heap, loop.curr))
    /\ Goes(loop.curr, Null)

LoopDelInit ==
    /\ Mine
    /\ Round(Alone(Deleted(heap, loop.curr), loop.curr))
    /\ Goes(loop.curr, Null)

NoLoop == [list |-> Null, curr |-> Null, ahead |-> Null]

EndLoop ==
    /\ ~Outside
    /\ loop.curr = loop.list
    /\ loop' = NoLoop /\ begun' = {} /\ seen' = <<>>
    /\ UNCHANGED <<heap, on>>

-----------------------------------------------------------------------------
\* The heads are initialised, the entries zero.
ListInit ==
    /\ heap = [next |-> [n \in Nodes |-> IF n \in Heads THEN n ELSE Null],
               prev |-> [n \in Nodes |-> IF n \in Heads THEN n ELSE Null]]
    /\ on = [e \in Entries |-> Null]
    /\ loop = NoLoop /\ begun = {} /\ seen = <<>>

ListNext ==
    \/ \E e \in Entries :
         \/ RyanListDel(e) \/ RyanListDelInit(e)
         \/ \E list \in Heads : \/ RyanListAdd(e, list) \/ RyanListAddTail(e, list)
                                \/ RyanListMove(e, list) \/ RyanListMoveTail(e, list)
    \/ \E list \in Heads : ForEachSafe(list)
    \/ Leave \/ LoopDel \/ LoopDelInit
    \/ EndLoop

ListSpec == ListInit /\ [][ListNext]_listVars

-----------------------------------------------------------------------------
(* Properties                                                              *)

\* Type invariant of the list.
ListTypeOK ==
    /\ heap \in [next : [Nodes -> Nodes \cup {Null}], prev : [Nodes -> Nodes \cup {Null}]]
    /\ on \in [Entries -> Heads \cup {Null}]
    /\ loop = NoLoop \/ loop \in [list : Heads, curr : Nodes, ahead : Nodes]
    /\ begun \subseteq Entries
    /\ seen \in Seq(Nodes)

\* The nodes of a list: its head and the entries that have been added.
Of(list) == {list} \cup {e \in Entries : on[e] = list}

\* On every list next and prev are inverse and lead from one node of the list to
\* another; entries that have been deleted are not reached.
Linked ==
    \A list \in Heads : \A n \in Of(list) :
      /\ heap.next[n] \in Of(list) /\ heap.prev[heap.next[n]] = n
      /\ heap.prev[n] \in Of(list) /\ heap.next[heap.prev[n]] = n

\* A loop whose body deletes entries visits every entry that was on the list when
\* it began, and none twice, whatever the task appends meanwhile.
VisitsOnce ==
    /\ \A i, j \in 1 .. Len(seen) : i # j => seen[i] # seen[j]
    /\ ~Outside /\ loop.curr = loop.list => begun \subseteq {seen[i] : i \in 1 .. Len(seen)}

\* The next pointers lead from a head through the entries of s and back.
Leads(list, s) ==
    /\ heap.next[list] = IF s = <<>> THEN list ELSE s[1]
    /\ \A i \in 1 .. Len(s) : heap.next[s[i]] = IF i = Len(s) THEN list ELSE s[i + 1]

Orders == UNION {[1 .. n -> Entries] : n \in 0 .. Cardinality(Entries)}
Lists  == [list \in Heads |-> IF IsEmpty(list) THEN <<>>
                              ELSE CHOOSE s \in Orders : Leads(list, s)]

Ordered == INSTANCE ClientLists WITH lists <- Lists

\* Seen from its heads through the next pointers, the heap is a set of lists to
\* which RyanListAdd, AddTail, Del, DelInit, Move, MoveTail and the loop do what
\* they promise, in the order of the entries.
ImplementsLists == Ordered!Spec
=============================================================================
