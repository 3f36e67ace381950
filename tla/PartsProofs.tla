----------------------------- MODULE PartsProofs -----------------------------
(***************************************************************************)
(* Proofs about the parts that the others stand on, each alone, as in      *)
(* MCParts: the countdown timer, the linked list with the lists it         *)
(* implements, the SPI bus, the buffers in the chip, the options of        *)
(* sockets, the resolver calls and the checksum of a ping.                 *)
(***************************************************************************)
EXTENDS PlatformTimer, RyanList, SpiBus, SocketBuffer, SocketOptions, Resolver, Ping, TLAPS,
        FiniteSetTheorems, SequenceTheorems, WellFoundedInduction

(***************************************************************************)
(* The countdown timer                                                     *)
(* It is right for every counter width, in the configuration in which one  *)
(* kernel tick is one millisecond (TicksPerSecond = MsPerSecond).          *)
(***************************************************************************)

\* The ghost is the distance, modulo Mod, from the armed time to now.
ElapsedIsDistance ==
    elapsed = IF tick >= timer.time THEN tick - timer.time
                                    ELSE tick + Mod - timer.time

\* The inductive invariant.
TimerInv == TypeOK /\ ElapsedIsDistance

\* What platformTimerRemain returns, for every armed time, timeout and present
\* time: zero exactly when the distance has reached the timeout, otherwise the
\* time left or one more.
LEMMA RemainMeaning ==
    ASSUME NEW time \in UInt32, NEW timeOut \in UInt32, NEW now \in UInt32,
           NEW gone,
           gone = IF now >= time THEN now - time ELSE now + Mod - time
    PROVE  LET r == Remain([time |-> time, timeOut |-> timeOut], now)
           IN  /\ (r = 0) <=> (gone >= timeOut)
               /\ gone < timeOut => r \in {timeOut - gone, timeOut - gone + 1}
  BY ModAssumption DEF Remain, Wrap, UInt32

\* Reading one tick later never gives more.
LEMMA RemainSteps ==
    ASSUME NEW time \in UInt32, NEW timeOut \in UInt32, NEW now \in UInt32,
           NEW gone,
           gone = IF now >= time THEN now - time ELSE now + Mod - time,
           gone + 1 < Mod
    PROVE  Remain([time |-> time, timeOut |-> timeOut], Wrap(now + 1))
             <= Remain([time |-> time, timeOut |-> timeOut], now)
  BY ModAssumption DEF Remain, Wrap, UInt32

\* Arming and ticking keep the ghost equal to the distance: the type invariant
\* and the link between the counter and the real time hold in every state.
THEOREM TimerInvariant ==
    ASSUME TicksPerSecond = MsPerSecond
    PROVE  Spec => []TimerInv
<1> USE ModAssumption, TimeoutAssumption, RateAssumption
<1>1. Init => TimerInv
  BY DEF Init, TimerInv, TypeOK, ElapsedIsDistance, UInt32, Cutdown, UptimeMs
<1>2. TimerInv /\ [Next]_vars => TimerInv'
  <2> SUFFICES ASSUME TimerInv, [Next]_vars PROVE TimerInv'
    OBVIOUS
  <2> USE DEF TimerInv, TypeOK, ElapsedIsDistance, UInt32
  <2>1. CASE Arm
    BY <2>1 DEF Arm, Cutdown, UptimeMs
  <2>2. CASE Tick
    BY <2>2 DEF Tick, MsPerTick, Wrap
  <2>3. CASE UNCHANGED vars
    BY <2>3 DEF vars
  <2>4. QED BY <2>1, <2>2, <2>3 DEF Next
<1>3. QED BY <1>1, <1>2, PTL DEF Spec

\* Under the invariant the reading means what the properties say.
LEMMA ReadingFromInv ==
    ASSUME TicksPerSecond = MsPerSecond, TimerInv
    PROVE  ExpiresExactly /\ RemainIsLeft
<1>1. /\ timer.time \in UInt32 /\ timer.timeOut \in UInt32 /\ tick \in UInt32
      /\ timer = [time |-> timer.time, timeOut |-> timer.timeOut]
      /\ elapsed \in UInt32
  BY TimeoutAssumption, ModAssumption DEF TimerInv, TypeOK, UInt32
<1>2. elapsed = IF tick >= timer.time THEN tick - timer.time
                                      ELSE tick + Mod - timer.time
  BY DEF TimerInv, ElapsedIsDistance
<1>3. RemainNow = Remain([time |-> timer.time, timeOut |-> timer.timeOut], tick)
  BY <1>1 DEF RemainNow, UptimeMs
<1>4. /\ (RemainNow = 0) <=> (elapsed >= timer.timeOut)
      /\ elapsed < timer.timeOut =>
           RemainNow \in {timer.timeOut - elapsed, timer.timeOut - elapsed + 1}
  BY <1>1, <1>2, <1>3, RemainMeaning
<1>5. QED
  BY <1>1, <1>4, ModAssumption DEF ExpiresExactly, RemainIsLeft, Left, UInt32

\* For every counter width, timeout and moment of arming: a loop that polls
\* platformTimerRemain for 0 ends at the first reading at which the timeout has
\* passed, and every reading before is the time left or one more.
THEOREM TimerExpiresExactly ==
    ASSUME TicksPerSecond = MsPerSecond
    PROVE  Spec => [](ExpiresExactly /\ RemainIsLeft)
<1>1. TimerInv => ExpiresExactly /\ RemainIsLeft
  BY ReadingFromInv
<1>2. Spec => []TimerInv
  BY TimerInvariant
<1>3. QED BY <1>1, <1>2, PTL

\* Every reading before the end of a timeout is the time left, or one more.
THEOREM TimerRemainIsLeft ==
    ASSUME TicksPerSecond = MsPerSecond
    PROVE  Spec => []RemainIsLeft
BY TimerExpiresExactly, PTL

\* The counter, the timer and the time since it was armed keep their widths.
THEOREM TimerTypeCorrect ==
    ASSUME TicksPerSecond = MsPerSecond
    PROVE  Spec => []TypeOK
<1>1. TimerInv => TypeOK
  BY DEF TimerInv
<1>2. QED BY <1>1, TimerInvariant, PTL

\* The reading never grows while the timer counts down.
THEOREM TimerNeverGrows ==
    ASSUME TicksPerSecond = MsPerSecond
    PROVE  Spec => RemainNeverGrows
<1>1. TimerInv /\ [Next]_vars => [elapsed' > elapsed => RemainNow' <= RemainNow]_vars
  <2> SUFFICES ASSUME TimerInv, Next, elapsed' > elapsed
               PROVE  RemainNow' <= RemainNow
    BY DEF vars
  <2>1. Tick
    <3>1. elapsed \in Nat
      BY ModAssumption DEF TimerInv, TypeOK, UInt32
    <3>2. ~Arm
      BY <3>1 DEF Arm
    <3>3. QED BY <3>2 DEF Next
  <2>2. /\ timer.time \in UInt32 /\ timer.timeOut \in UInt32 /\ tick \in UInt32
        /\ timer = [time |-> timer.time, timeOut |-> timer.timeOut]
    BY TimeoutAssumption, ModAssumption DEF TimerInv, TypeOK, UInt32
  <2>3. elapsed = IF tick >= timer.time THEN tick - timer.time
                                        ELSE tick + Mod - timer.time
    BY DEF TimerInv, ElapsedIsDistance
  <2>4. elapsed + 1 < Mod /\ tick' = Wrap(tick + 1) /\ timer' = timer
    BY <2>1 DEF Tick, MsPerTick
  <2>5. /\ RemainNow = Remain([time |-> timer.time, timeOut |-> timer.timeOut], tick)
        /\ RemainNow' = Remain([time |-> timer.time, timeOut |-> timer.timeOut],
                               Wrap(tick + 1))
    BY <2>2, <2>4 DEF RemainNow, UptimeMs
  <2>6. QED BY <2>2, <2>3, <2>4, <2>5, RemainSteps
<1>2. Spec => []TimerInv
  BY TimerInvariant
<1>3. QED BY <1>1, <1>2, PTL DEF Spec, RemainNeverGrows

-----------------------------------------------------------------------------
(***************************************************************************)
(* The linked list                                                         *)
(* A list is a ring: a set of nodes on which next and prev are inverse and *)
(* from which they do not lead out.  Lemmas say what the pointer changes of*)
(* RyanList.c do to a ring and to the nodes outside it; each operation is  *)
(* one or two of these changes.                                            *)
(***************************************************************************)

Heaps == [next : [Nodes -> Nodes \cup {Null}], prev : [Nodes -> Nodes \cup {Null}]]

\* The pointers of x make a ring of S.
Ring(x, S) == \A n \in S : /\ x.next[n] \in S /\ x.prev[x.next[n]] = n
                           /\ x.prev[n] \in S /\ x.next[x.prev[n]] = n

\* Nodes that have been linked lead to nodes that have been linked, on a list or not.
\* A loop follows the pointers of a node that may have left the list.
Closed(x) == \A n \in Nodes : x.next[n] # Null => x.next[x.next[n]] # Null

Used(x, n) == n \in Nodes /\ x.next[n] # Null
Kept(x, y) == \A n \in Nodes : Used(x, n) => Used(y, n)

\* The lists are rings when o names the list of each entry.
Members(o, list) == {list} \cup {e \in Entries : o[e] = list}
Good(x, o) == /\ x \in Heaps /\ o \in [Entries -> Heads \cup {Null}]
              /\ \A list \in Heads : Ring(x, Members(o, list))
              /\ Closed(x)

LoopOK == /\ loop = NoLoop \/ loop \in [list : Heads, curr : Nodes, ahead : Nodes]
          /\ ~Outside => Used(heap, loop.curr) /\ Used(heap, loop.ahead)
          /\ begun \subseteq Entries
          /\ seen \in Seq(Nodes)

\* The inductive invariant.
ListInv == Good(heap, on) /\ LoopOK

-----------------------------------------------------------------------------
(* What the changes of pointers do                                         *)

\* _RyanListAdd puts a node into a ring and leaves the other rings.
LEMMA InsertRing ==
  ASSUME NEW x \in Heaps, NEW S \in SUBSET Nodes, NEW e \in Nodes, e \notin S,
         NEW p \in S, Ring(x, S)
  PROVE  /\ Inserted(x, e, p, x.next[p]) \in Heaps
         /\ Ring(Inserted(x, e, p, x.next[p]), S \cup {e})
         /\ \A T \in SUBSET Nodes : Ring(x, T) /\ T \cap (S \cup {e}) = {}
              => Ring(Inserted(x, e, p, x.next[p]), T)
<1> DEFINE y == Inserted(x, e, p, x.next[p])
           q == x.next[p]
<1>1. p \in Nodes /\ q \in S /\ q \in Nodes /\ x.prev[q] = p /\ e # p /\ e # q
  BY DEF Ring
<1>2. /\ y.next = [x.next EXCEPT ![e] = q, ![p] = e]
      /\ y.prev = [x.prev EXCEPT ![q] = e, ![e] = p]
      /\ y = [next |-> y.next, prev |-> y.prev]
  BY DEF Inserted
<1>3. y \in Heaps
  BY <1>1, <1>2 DEF Heaps
<1>4. \A n \in Nodes : y.next[n] = IF n = p THEN e ELSE IF n = e THEN q ELSE x.next[n]
  BY <1>1, <1>2 DEF Heaps
<1>5. \A n \in Nodes : y.prev[n] = IF n = e THEN p ELSE IF n = q THEN e ELSE x.prev[n]
  BY <1>1, <1>2 DEF Heaps
<1>6. Ring(y, S \cup {e})
  <2> HIDE DEF y
  <2> SUFFICES ASSUME NEW n \in S \cup {e}
               PROVE  /\ y.next[n] \in S \cup {e} /\ y.prev[y.next[n]] = n
                      /\ y.prev[n] \in S \cup {e} /\ y.next[y.prev[n]] = n
    BY DEF Ring
  <2>1. n = e \/ (n \in S /\ n # e)
    OBVIOUS
  <2>2. CASE n = e
    BY <1>1, <1>4, <1>5, <2>2
  <2>3. CASE n \in S /\ n # e
    <3>1. /\ x.next[n] \in S /\ x.prev[x.next[n]] = n
          /\ x.prev[n] \in S /\ x.next[x.prev[n]] = n
      BY <2>3 DEF Ring
    <3> QED
      BY <1>1, <1>4, <1>5, <2>3, <3>1
  <2> QED
    BY <2>1, <2>2, <2>3
<1>7. ASSUME NEW T \in SUBSET Nodes, Ring(x, T), T \cap (S \cup {e}) = {}
      PROVE  Ring(y, T)
  <2> HIDE DEF y
  <2> SUFFICES ASSUME NEW n \in T
               PROVE  /\ y.next[n] \in T /\ y.prev[y.next[n]] = n
                      /\ y.prev[n] \in T /\ y.next[y.prev[n]] = n
    BY DEF Ring
  <2>1. /\ x.next[n] \in T /\ x.prev[x.next[n]] = n
        /\ x.prev[n] \in T /\ x.next[x.prev[n]] = n
    BY <1>7 DEF Ring
  <2>2. \A k \in T : k \in Nodes /\ k # e /\ k # p /\ k # q
    BY <1>1, <1>7
  <2> QED
    BY <1>4, <1>5, <2>1, <2>2
<1> QED
  BY <1>3, <1>6, <1>7

\* It also keeps the nodes that have been linked, and the new one becomes one.
LEMMA InsertClosed ==
  ASSUME NEW x \in Heaps, NEW S \in SUBSET Nodes, NEW e \in Nodes, e \notin S,
         NEW p \in S, Ring(x, S), Closed(x)
  PROVE  /\ Closed(Inserted(x, e, p, x.next[p]))
         /\ Kept(x, Inserted(x, e, p, x.next[p]))
<1> DEFINE y == Inserted(x, e, p, x.next[p])
           q == x.next[p]
<1>1. p \in Nodes /\ q \in S /\ q \in Nodes /\ e # p /\ x.next[q] \in Nodes
  BY DEF Ring
<1>2. \A n \in Nodes : y.next[n] = IF n = p THEN e ELSE IF n = e THEN q ELSE x.next[n]
  BY <1>1 DEF Inserted, Heaps
<1>3. Null \notin Nodes
  BY ListAssumption DEF Nodes
<1>4. \A n \in Nodes : x.next[n] \in Nodes \cup {Null}
  BY DEF Heaps
<1> HIDE DEF y, q
<1>5. Closed(y)
  BY <1>1, <1>2, <1>3, <1>4 DEF Closed
<1>6. Kept(x, y)
  BY <1>1, <1>2, <1>3, <1>4 DEF Used, Kept
<1> QED
  BY <1>5, <1>6 DEF y, q

\* _RyanListDel_entry takes a node out of a ring and leaves the other rings.
LEMMA DeleteRing ==
  ASSUME NEW x \in Heaps, NEW S \in SUBSET Nodes, NEW e \in S, Ring(x, S)
  PROVE  /\ Deleted(x, e) \in Heaps
         /\ Ring(Deleted(x, e), S \ {e})
         /\ \A T \in SUBSET Nodes : Ring(x, T) /\ T \cap S = {} => Ring(Deleted(x, e), T)
<1> DEFINE y == Deleted(x, e)
           p == x.prev[e]
           q == x.next[e]
<1>1. /\ p \in S /\ q \in S /\ p \in Nodes /\ q \in Nodes
      /\ x.prev[q] = e /\ x.next[p] = e
  BY DEF Ring
<1>2. y \in Heaps
  BY <1>1 DEF Deleted, Heaps
<1>3. \A n \in Nodes : y.next[n] = IF n = p THEN q ELSE x.next[n]
  BY <1>1 DEF Deleted, Heaps
<1>4. \A n \in Nodes : y.prev[n] = IF n = q THEN p ELSE x.prev[n]
  BY <1>1 DEF Deleted, Heaps
<1>5. Ring(y, S \ {e})
  <2> HIDE DEF y
  <2> SUFFICES ASSUME NEW n \in S \ {e}
               PROVE  /\ y.next[n] \in S \ {e} /\ y.prev[y.next[n]] = n
                      /\ y.prev[n] \in S \ {e} /\ y.next[y.prev[n]] = n
    BY DEF Ring
  <2>1. /\ x.next[n] \in S /\ x.prev[x.next[n]] = n
        /\ x.prev[n] \in S /\ x.next[x.prev[n]] = n
    BY DEF Ring
  <2>2. \A k \in S : x.next[k] = e => k = p
    BY DEF Ring
  <2>3. \A k \in S : x.prev[k] = e => k = q
    BY DEF Ring
  <2>4. n # p => x.next[n] # e
    BY <2>2
  <2>5. n # q => x.prev[n] # e
    BY <2>3
  <2>6. (p = e) = (q = e)
    BY <1>1, <2>2, <2>3 DEF Ring
  <2> HIDE DEF p, q
  <2>7. n = p => q # e
    BY <2>6
  <2>8. n = q => p # e
    BY <2>6
  <2> QED
    BY <1>1, <1>3, <1>4, <2>1, <2>4, <2>5, <2>7, <2>8
<1>6. ASSUME NEW T \in SUBSET Nodes, Ring(x, T), T \cap S = {}
      PROVE  Ring(y, T)
  <2> HIDE DEF y, p, q
  <2> SUFFICES ASSUME NEW n \in T
               PROVE  /\ y.next[n] \in T /\ y.prev[y.next[n]] = n
                      /\ y.prev[n] \in T /\ y.next[y.prev[n]] = n
    BY DEF Ring
  <2>1. /\ x.next[n] \in T /\ x.prev[x.next[n]] = n
        /\ x.prev[n] \in T /\ x.next[x.prev[n]] = n
    BY <1>6 DEF Ring
  <2>2. \A k \in T : k \in Nodes /\ k # p /\ k # q
    BY <1>1, <1>6
  <2> QED
    BY <1>3, <1>4, <2>1, <2>2
<1> QED
  BY <1>2, <1>5, <1>6

\* It also keeps the nodes that have been linked, the deleted one among them.
LEMMA DeleteClosed ==
  ASSUME NEW x \in Heaps, NEW S \in SUBSET Nodes, NEW e \in S, Ring(x, S), Closed(x)
  PROVE  /\ Closed(Deleted(x, e))
         /\ Kept(x, Deleted(x, e))
<1> DEFINE y == Deleted(x, e)
           p == x.prev[e]
           q == x.next[e]
<1>1. p \in Nodes /\ q \in Nodes /\ x.next[q] \in Nodes
  BY DEF Ring
<1>2. \A n \in Nodes : y.next[n] = IF n = p THEN q ELSE x.next[n]
  BY <1>1 DEF Deleted, Heaps
<1>3. Null \notin Nodes
  BY ListAssumption DEF Nodes
<1>4. \A n \in Nodes : x.next[n] \in Nodes \cup {Null}
  BY DEF Heaps
<1> HIDE DEF y, p, q
<1>5. Closed(y)
  BY <1>1, <1>2, <1>3, <1>4 DEF Closed
<1>6. Kept(x, y)
  BY <1>1, <1>2, <1>3, <1>4 DEF Used, Kept
<1> QED
  BY <1>5, <1>6 DEF y

\* RyanListInit of a node outside every ring.
LEMMA AloneKeeps ==
  ASSUME NEW x \in Heaps, NEW e \in Nodes, Closed(x)
  PROVE  /\ Alone(x, e) \in Heaps
         /\ \A T \in SUBSET Nodes : Ring(x, T) /\ e \notin T => Ring(Alone(x, e), T)
         /\ Closed(Alone(x, e))
         /\ Kept(x, Alone(x, e))
<1> DEFINE y == Alone(x, e)
<1>1. \A n \in Nodes : y.next[n] = IF n = e THEN e ELSE x.next[n]
  BY DEF Alone, Heaps
<1>2. \A n \in Nodes : y.prev[n] = IF n = e THEN e ELSE x.prev[n]
  BY DEF Alone, Heaps
<1>3. y \in Heaps
  BY DEF Alone, Heaps
<1>4. Null \notin Nodes
  BY ListAssumption DEF Nodes
<1>5. \A n \in Nodes : x.next[n] \in Nodes \cup {Null}
  BY DEF Heaps
<1> HIDE DEF y
<1>6. ASSUME NEW T \in SUBSET Nodes, Ring(x, T), e \notin T
      PROVE  Ring(y, T)
  BY <1>1, <1>2, <1>6 DEF Ring
<1>7. Closed(y)
  BY <1>1, <1>4, <1>5 DEF Closed
<1>8. Kept(x, y)
  BY <1>1, <1>4 DEF Used, Kept
<1> QED
  BY <1>3, <1>6, <1>7, <1>8 DEF y

-----------------------------------------------------------------------------
(* What they do to the lists                                               *)

LEMMA NodesDistinct == Null \notin Nodes /\ Heads \subseteq Nodes /\ Entries \subseteq Nodes
                       /\ Heads \cap Entries = {}
BY ListAssumption DEF Nodes

\* An entry that is on no list is put after a node of one.
LEMMA PutGood ==
  ASSUME NEW x, NEW o, Good(x, o), NEW e \in Entries, o[e] = Null,
         NEW list \in Heads, NEW p \in Members(o, list)
  PROVE  /\ Good(Inserted(x, e, p, x.next[p]), [o EXCEPT ![e] = list])
         /\ Kept(x, Inserted(x, e, p, x.next[p]))
<1> DEFINE y == Inserted(x, e, p, x.next[p])
           o2 == [o EXCEPT ![e] = list]
           S == Members(o, list)
<1>1. /\ x \in Heaps /\ o \in [Entries -> Heads \cup {Null}] /\ Ring(x, S) /\ Closed(x)
      /\ S \in SUBSET Nodes /\ e \in Nodes /\ e \notin S
  BY NodesDistinct DEF Good, Members
<1>2. /\ y \in Heaps /\ Ring(y, S \cup {e})
      /\ \A T \in SUBSET Nodes : Ring(x, T) /\ T \cap (S \cup {e}) = {} => Ring(y, T)
  BY <1>1, InsertRing
<1>3. Closed(y) /\ Kept(x, y)
  BY <1>1, InsertClosed
<1>4. o2 \in [Entries -> Heads \cup {Null}]
  BY <1>1
<1>5. Members(o2, list) = S \cup {e}
  BY <1>1 DEF Members
<1>6. ASSUME NEW l \in Heads, l # list  PROVE Ring(y, Members(o2, l))
  <2>0. \A k \in Entries : (o2[k] = l) <=> (o[k] = l)
    BY <1>1, <1>6, NodesDistinct
  <2>1. Members(o2, l) = Members(o, l)
    BY <2>0 DEF Members
  <2>2. Members(o, l) \in SUBSET Nodes /\ Members(o, l) \cap (S \cup {e}) = {}
    BY <1>6, NodesDistinct DEF Members
  <2>3. Ring(x, Members(o, l))
    BY DEF Good
  <2> QED
    BY <1>2, <2>1, <2>2, <2>3
<1> HIDE DEF y, o2, S
<1>7. \A l \in Heads : Ring(y, Members(o2, l))
  BY <1>2, <1>5, <1>6
<1> QED
  BY <1>2, <1>3, <1>4, <1>7 DEF Good, y, o2

\* An entry is taken from its list.
LEMMA TakeGood ==
  ASSUME NEW x, NEW o, Good(x, o), NEW e \in Entries, o[e] # Null
  PROVE  Good(Deleted(x, e), [o EXCEPT ![e] = Null]) /\ Kept(x, Deleted(x, e))
<1> DEFINE y == Deleted(x, e)
           o2 == [o EXCEPT ![e] = Null]
           S == Members(o, o[e])
<1>1. /\ x \in Heaps /\ o \in [Entries -> Heads \cup {Null}] /\ Ring(x, S) /\ Closed(x)
      /\ S \in SUBSET Nodes /\ e \in S /\ o[e] \in Heads
  BY NodesDistinct DEF Good, Members
<1>2. /\ y \in Heaps /\ Ring(y, S \ {e})
      /\ \A T \in SUBSET Nodes : Ring(x, T) /\ T \cap S = {} => Ring(y, T)
  BY <1>1, DeleteRing
<1>3. Closed(y) /\ Kept(x, y)
  BY <1>1, DeleteClosed
<1>4. o2 \in [Entries -> Heads \cup {Null}]
  BY <1>1
<1>5. Members(o2, o[e]) = S \ {e}
  BY <1>1, NodesDistinct DEF Members
<1>6. ASSUME NEW l \in Heads, l # o[e]  PROVE Ring(y, Members(o2, l))
  <2>0. \A k \in Entries : (o2[k] = l) <=> (o[k] = l)
    BY <1>1, <1>6, NodesDistinct
  <2>1. Members(o2, l) = Members(o, l)
    BY <2>0 DEF Members
  <2>2. Members(o, l) \in SUBSET Nodes /\ Members(o, l) \cap S = {}
    BY <1>1, <1>6, NodesDistinct DEF Members
  <2>3. Ring(x, Members(o, l))
    BY DEF Good
  <2> QED
    BY <1>2, <2>1, <2>2, <2>3
<1> HIDE DEF y, o2, S
<1>7. \A l \in Heads : Ring(y, Members(o2, l))
  BY <1>2, <1>5, <1>6
<1> QED
  BY <1>2, <1>3, <1>4, <1>7 DEF Good, y, o2

\* RyanListInit of an entry that is on no list.
LEMMA AloneGood ==
  ASSUME NEW x, NEW o, Good(x, o), NEW e \in Entries, o[e] = Null
  PROVE  Good(Alone(x, e), o) /\ Kept(x, Alone(x, e))
<1>1. \A l \in Heads : Members(o, l) \in SUBSET Nodes /\ e \notin Members(o, l)
  BY NodesDistinct DEF Members
<1> QED
  BY <1>1, AloneKeeps, NodesDistinct DEF Good

\* RyanListAdd and RyanListAddTail put it after the head and after the last node.
LEMMA EndsGood ==
  ASSUME NEW x, NEW o, Good(x, o), NEW e \in Entries, o[e] = Null, NEW list \in Heads
  PROVE  /\ Good(AtHead(x, e, list), [o EXCEPT ![e] = list]) /\ Kept(x, AtHead(x, e, list))
         /\ Good(AtTail(x, e, list), [o EXCEPT ![e] = list]) /\ Kept(x, AtTail(x, e, list))
<1>1. list \in Members(o, list) /\ Ring(x, Members(o, list))
  BY DEF Members, Good
<1>2. x.prev[list] \in Members(o, list) /\ x.next[x.prev[list]] = list
  BY <1>1 DEF Ring
<1>3. AtHead(x, e, list) = Inserted(x, e, list, x.next[list])
  BY DEF AtHead
<1>4. AtTail(x, e, list) = Inserted(x, e, x.prev[list], x.next[x.prev[list]])
  BY <1>2 DEF AtTail
<1>5. /\ Good(AtHead(x, e, list), [o EXCEPT ![e] = list])
      /\ Kept(x, AtHead(x, e, list))
  BY <1>1, <1>3, PutGood
<1>6. /\ Good(AtTail(x, e, list), [o EXCEPT ![e] = list])
      /\ Kept(x, AtTail(x, e, list))
  BY <1>2, <1>4, PutGood
<1> QED
  BY <1>5, <1>6

-----------------------------------------------------------------------------
(* The operations                                                          *)

\* What the rest of the state may do while the heap becomes another good one.
LEMMA LoopKept ==
  ASSUME LoopOK, Kept(heap, heap'), UNCHANGED <<loop, begun, seen>>
  PROVE  LoopOK'
<1>1. loop' = loop /\ begun' = begun /\ seen' = seen
  OBVIOUS
<1>2. Outside' = Outside
  BY <1>1 DEF Outside
<1>3. ASSUME NEW n, Used(heap, n)  PROVE Used(heap', n)
  BY <1>3 DEF Kept, Used
<1> QED
  BY <1>1, <1>2, <1>3 DEF LoopOK

LEMMA OnMoves ==
  ASSUME NEW o \in [Entries -> Heads \cup {Null}], NEW e \in Entries, NEW list
  PROVE  /\ [[o EXCEPT ![e] = Null] EXCEPT ![e] = list] = [o EXCEPT ![e] = list]
         /\ [o EXCEPT ![e] = Null][e] = Null
OBVIOUS

LEMMA KeptTwice == ASSUME NEW x, NEW y, NEW z, Kept(x, y), Kept(y, z)  PROVE Kept(x, z)
BY DEF Kept

\* The step of the loop to the next entry.
LEMMA RoundOK ==
  ASSUME LoopOK, NEW x, Good(x, on'), Kept(heap, x), Round(x)
  PROVE  ListInv'
<1>1. /\ loop.list \in Heads /\ loop \in [list : Heads, curr : Nodes, ahead : Nodes]
      /\ Used(heap, loop.curr) /\ Used(heap, loop.ahead)
  BY DEF Round, LoopOK, Outside, NoLoop
<1>2. Used(x, loop.ahead)
  BY <1>1 DEF Kept, Used
<1>3. Used(x, x.next[loop.ahead])
  BY <1>2 DEF Good, Closed, Used, Heaps
<1>4. loop' = [list |-> loop.list, curr |-> loop.ahead, ahead |-> x.next[loop.ahead]]
  BY <1>1 DEF Round, Ahead
<1>5. heap' = x /\ begun' = begun /\ seen' = Append(seen, loop.curr)
  BY DEF Round
<1>6. seen' \in Seq(Nodes)
  BY <1>1, <1>5 DEF LoopOK
<1>7. Used(x, loop'.curr) /\ Used(x, loop'.ahead)
  BY <1>2, <1>3, <1>4
<1>8. loop' \in [list : Heads, curr : Nodes, ahead : Nodes]
  BY <1>1, <1>2, <1>3, <1>4 DEF Used
<1>9. LoopOK'
  BY <1>5, <1>6, <1>7, <1>8 DEF LoopOK
<1> QED
  BY <1>5, <1>9 DEF ListInv

LEMMA ListInvInit == ListInit => ListInv
<1> SUFFICES ASSUME ListInit PROVE ListInv
  OBVIOUS
<1>1. /\ heap \in Heaps
      /\ \A n \in Nodes : heap.next[n] = (IF n \in Heads THEN n ELSE Null)
      /\ \A n \in Nodes : heap.prev[n] = (IF n \in Heads THEN n ELSE Null)
  BY NodesDistinct DEF ListInit, Heaps
<1>2. on \in [Entries -> Heads \cup {Null}] /\ \A e \in Entries : on[e] = Null
  BY DEF ListInit
<1>3. \A l \in Heads : Members(on, l) = {l}
  BY <1>2, NodesDistinct DEF Members
<1>4. \A l \in Heads : Ring(heap, {l})
  BY <1>1, NodesDistinct DEF Ring
<1>5. Closed(heap)
  BY <1>1, NodesDistinct DEF Closed
<1>6. LoopOK
  BY NodesDistinct DEF ListInit, LoopOK, Outside, NoLoop
<1> QED
  BY <1>1, <1>2, <1>3, <1>4, <1>5, <1>6 DEF ListInv, Good

LEMMA ListInvStep == ListInv /\ [ListNext]_listVars => ListInv'
<1> SUFFICES ASSUME ListInv, [ListNext]_listVars  PROVE ListInv'
  OBVIOUS
<1> USE DEF ListInv, Goes
<1>0. on \in [Entries -> Heads \cup {Null}]
  BY DEF Good
<1>1. ASSUME NEW e \in Entries, NEW list \in Heads, RyanListAdd(e, list)  PROVE ListInv'
  <2>1. Good(heap', on') /\ Kept(heap, heap')
    BY <1>1, EndsGood DEF RyanListAdd
  <2> QED
    BY <1>1, <2>1, LoopKept DEF RyanListAdd
<1>2. ASSUME NEW e \in Entries, NEW list \in Heads, RyanListAddTail(e, list)  PROVE ListInv'
  <2>1. Good(heap', on') /\ Kept(heap, heap')
    BY <1>2, EndsGood DEF RyanListAddTail
  <2> QED
    BY <1>2, <2>1, LoopKept DEF RyanListAddTail
<1>3. ASSUME NEW e \in Entries, RyanListDel(e)  PROVE ListInv'
  BY <1>3, TakeGood, LoopKept DEF RyanListDel
<1>4. ASSUME NEW e \in Entries, RyanListDelInit(e)  PROVE ListInv'
  BY <1>0, <1>4, TakeGood, AloneGood, OnMoves, KeptTwice, LoopKept DEF RyanListDelInit
<1>5. ASSUME NEW e \in Entries, NEW list \in Heads, RyanListMove(e, list)  PROVE ListInv'
  <2> DEFINE x == Deleted(heap, e)
             o == [on EXCEPT ![e] = Null]
  <2>1. Good(x, o) /\ Kept(heap, x)
    BY <1>5, TakeGood DEF RyanListMove
  <2>2. o[e] = Null /\ [o EXCEPT ![e] = list] = [on EXCEPT ![e] = list]
    BY <1>0, OnMoves
  <2>3. heap' = AtHead(x, e, list) /\ on' = [on EXCEPT ![e] = list]
    BY <1>5 DEF RyanListMove
  <2> HIDE DEF x, o
  <2>4. Good(heap', on') /\ Kept(x, heap')
    BY <2>1, <2>2, <2>3, EndsGood
  <2>5. Kept(heap, heap')
    BY <2>1, <2>4, KeptTwice
  <2> QED
    BY <1>5, <2>4, <2>5, LoopKept DEF RyanListMove
<1>6. ASSUME NEW e \in Entries, NEW list \in Heads, RyanListMoveTail(e, list)  PROVE ListInv'
  <2> DEFINE x == Deleted(heap, e)
             o == [on EXCEPT ![e] = Null]
  <2>1. Good(x, o) /\ Kept(heap, x)
    BY <1>6, TakeGood DEF RyanListMoveTail
  <2>2. o[e] = Null /\ [o EXCEPT ![e] = list] = [on EXCEPT ![e] = list]
    BY <1>0, OnMoves
  <2>3. heap' = AtTail(x, e, list) /\ on' = [on EXCEPT ![e] = list]
    BY <1>6 DEF RyanListMoveTail
  <2> HIDE DEF x, o
  <2>4. Good(heap', on') /\ Kept(x, heap')
    BY <2>1, <2>2, <2>3, EndsGood
  <2>5. Kept(heap, heap')
    BY <2>1, <2>4, KeptTwice
  <2> QED
    BY <1>6, <2>4, <2>5, LoopKept DEF RyanListMoveTail
<1>7. ASSUME NEW list \in Heads, ForEachSafe(list)  PROVE ListInv'
  <2>1. Ring(heap, Members(on, list)) /\ list \in Members(on, list)
    BY DEF Good, Members
  <2>2. \A n \in Members(on, list) : Used(heap, n)
    BY <2>1, NodesDistinct DEF Ring, Used, Members
  <2>3. Used(heap, heap.next[list]) /\ Used(heap, heap.next[heap.next[list]])
    BY <2>1, <2>2 DEF Ring
  <2>4. loop' \in [list : Heads, curr : Nodes, ahead : Nodes]
    BY <1>7, <2>3 DEF ForEachSafe, Used
  <2> QED
    BY <1>7, <2>3, <2>4 DEF ForEachSafe, LoopOK
<1>8. CASE Leave
  BY <1>8, RoundOK DEF Leave, Kept
<1>9. CASE LoopDel
  BY <1>9, RoundOK, TakeGood, NodesDistinct DEF LoopDel, Mine, LoopOK, Round, Outside
<1>10. CASE LoopDelInit
  <2> DEFINE e == loop.curr
             x == Deleted(heap, e)
             o == [on EXCEPT ![e] = Null]
  <2>1. e \in Entries /\ on[e] # Null /\ on' = o /\ Round(Alone(x, e))
    BY <1>10, NodesDistinct DEF LoopDelInit, Mine, LoopOK, Round, Outside
  <2>2. Good(x, o) /\ Kept(heap, x) /\ o[e] = Null
    BY <1>0, <2>1, TakeGood, OnMoves
  <2> HIDE DEF x, o, e
  <2>3. Good(Alone(x, e), o) /\ Kept(x, Alone(x, e))
    BY <2>1, <2>2, AloneGood
  <2>4. Kept(heap, Alone(x, e))
    BY <2>2, <2>3, KeptTwice
  <2> QED
    BY <2>1, <2>3, <2>4, RoundOK
<1>11. CASE EndLoop
  BY <1>11 DEF EndLoop, LoopOK, NoLoop, Outside
<1>12. CASE UNCHANGED listVars
  BY <1>12 DEF listVars, LoopOK, Outside
<1> QED
  BY <1>1, <1>2, <1>3, <1>4, <1>5, <1>6, <1>7, <1>8, <1>9, <1>10, <1>11, <1>12 DEF ListNext

-----------------------------------------------------------------------------
(* Theorems                                                                *)

LEMMA ListInvHolds == ListSpec => []ListInv
BY ListInvInit, ListInvStep, PTL DEF ListSpec

\* For any heads and entries, whatever the order of the operations of RyanList.c
\* and of a loop that deletes, next and prev of every list lead round the nodes
\* of that list and are inverse.
THEOREM ListsStayLinked == ListSpec => []Linked
<1>1. ListInv => Linked
  BY DEF ListInv, Good, Linked, Of, Members, Ring
<1> QED
  BY <1>1, ListInvHolds, PTL

\* The types of the list; with them, that a loop never follows a null pointer.
THEOREM ListTypeCorrect == ListSpec => []ListTypeOK
<1>1. ListInv => ListTypeOK
  BY DEF ListInv, Good, LoopOK, ListTypeOK, Heaps
<1> QED
  BY <1>1, ListInvHolds, PTL

-----------------------------------------------------------------------------
(***************************************************************************)
(* The SPI bus                                                             *)
(* Its critical section has one owner, the chip follows that thread's frame*)
(* alone, and through it the register functions are atomic: the steps of   *)
(* SpiBus are steps of RegisterFile or leave what it sees.                 *)
(***************************************************************************)

Waiting == {"idle", "enter"}
Taking  == {"select", "header", "data", "deselect", "exit"}

FrameType == [pc : Waiting \cup Taking, write : BOOLEAN, buf : BOOLEAN, addr : Nat,
              len : Lens \cup {1}, data : Contents]

\* A request names cells of the chip; WIZCHIP_READ and WRITE name one.
InReach(r) == /\ r.addr \in Addrs /\ r.addr .. r.addr + r.len - 1 \subseteq Addrs
              /\ ~r.buf => r.len = 1

Chips == [selected : BOOLEAN, header : BOOLEAN, addr : Nat, write : BOOLEAN]

\* What the chip has decoded when the frame r stands where it does.
Decoded(r) ==
    /\ r.pc \in {"select", "exit"} => chip = Deaf
    /\ r.pc = "header" => chip = [Deaf EXCEPT !.selected = TRUE]
    /\ r.pc = "data" => chip = [selected |-> TRUE, header |-> TRUE, addr |-> r.addr, write |-> r.write]

\* The inductive invariant.
BusInv ==
    /\ cell \in [Addrs -> Contents]
    /\ taker \in Users \cup {Nobody}
    /\ frame \in [Users -> FrameType]
    /\ \A t \in Users : frame[t].pc # "idle" => InReach(frame[t])
    /\ \A t \in Users : frame[t].pc = "data" => frame[t].buf \/ ~frame[t].write
    /\ \A t \in Users : (frame[t].pc \in Taking) <=> (taker = t)
    /\ taker = Nobody => chip = Deaf
    /\ \A t \in Users : taker = t => Decoded(frame[t])

LEMMA BusInvInit == BusInit => BusInv
<1> SUFFICES ASSUME BusInit PROVE BusInv
  OBVIOUS
<1>1. Blank \in Contents
  BY BusAssumption DEF Blank
<1>2. Returned \in FrameType /\ Returned.pc = "idle"
  BY <1>1 DEF Returned, FrameType, Waiting
<1>3. frame \in [Users -> FrameType] /\ \A t \in Users : frame[t] = Returned
  BY <1>2 DEF BusInit
<1> QED
  BY <1>2, <1>3, BusAssumption DEF BusInit, BusInv, Taking

-----------------------------------------------------------------------------
(* Steps of one thread                                                     *)

\* Where a thread that has the bus changes its pc and keeps it, only its frame matters.
LEMMA MineStep ==
  ASSUME BusInv, NEW t \in Users, NEW pc \in Taking, taker = t, taker' = t, Now(t, pc),
         cell' \in [Addrs -> Contents], Decoded(frame[t])',
         pc = "data" => frame[t].buf \/ ~frame[t].write
  PROVE  BusInv'
<1>1. frame' = [frame EXCEPT ![t].pc = pc] /\ frame \in [Users -> FrameType]
  BY DEF Now, BusInv
<1>2. /\ frame'[t] = [frame[t] EXCEPT !.pc = pc]
      /\ \A u \in Users \ {t} : frame'[u] = frame[u]
  BY <1>1
<1>3. frame' \in [Users -> FrameType]
  BY <1>1, <1>2 DEF FrameType
<1>4. /\ frame'[t].pc = pc /\ frame'[t].addr = frame[t].addr /\ frame'[t].len = frame[t].len
      /\ frame'[t].buf = frame[t].buf /\ frame'[t].write = frame[t].write
  BY <1>1, <1>2 DEF FrameType
<1>5. frame[t].pc \in Taking /\ InReach(frame[t])
  BY DEF BusInv, Taking
<1>6. InReach(frame'[t])
  BY <1>4, <1>5 DEF InReach
<1>7. \A u \in Users : frame'[u].pc # "idle" => InReach(frame'[u])
  BY <1>2, <1>6 DEF BusInv
<1>8. \A u \in Users : frame'[u].pc = "data" => frame'[u].buf \/ ~frame'[u].write
  BY <1>2, <1>4 DEF BusInv
<1>9. \A u \in Users : (frame'[u].pc \in Taking) <=> (taker' = u)
  BY <1>2, <1>4 DEF BusInv
<1> QED
  BY <1>3, <1>7, <1>8, <1>9, BusAssumption DEF BusInv

\* The chip's address and direction are those of the request when its data come.
LEMMA HeaderGiven ==
  ASSUME BusInv, NEW t \in Users, frame[t].pc = "header"
  PROVE  /\ taker = t /\ frame[t] \in FrameType /\ InReach(frame[t])
         /\ HeaderSent(chip, frame[t]) = [selected |-> TRUE, header |-> TRUE,
                                          addr |-> frame[t].addr, write |-> frame[t].write]
<1>1. taker = t /\ frame[t] \in FrameType /\ InReach(frame[t]) /\ Decoded(frame[t])
  BY DEF BusInv, Taking
<1>2. chip = [selected |-> TRUE, header |-> FALSE, addr |-> 0, write |-> FALSE]
  BY <1>1 DEF Decoded, Deaf
<1>3. HeaderSent(chip, frame[t]) = [chip EXCEPT !.header = TRUE, !.addr = frame[t].addr,
                                                !.write = frame[t].write]
  BY <1>2 DEF HeaderSent
<1> QED
  BY <1>1, <1>2, <1>3

LEMMA DataGiven ==
  ASSUME BusInv, NEW t \in Users, frame[t].pc = "data"
  PROVE  /\ taker = t /\ frame[t] \in FrameType /\ InReach(frame[t])
         /\ chip = [selected |-> TRUE, header |-> TRUE, addr |-> frame[t].addr,
                    write |-> frame[t].write]
BY DEF BusInv, Taking, Decoded

\* No bytes change nothing.
LEMMA MovedNone ==
  ASSUME NEW a \in Nat, NEW w, NEW c,
         c = [selected |-> TRUE, header |-> TRUE, addr |-> a, write |-> w]
  PROVE  MovedOn(c, 0) = c
<1>1. MovedOn(c, 0) = [c EXCEPT !.addr = a + 0]
  BY DEF MovedOn
<1>2. a + 0 = a
  OBVIOUS
<1> QED
  BY <1>1, <1>2

\* What is sent in a write frame goes to the cells from its address on.
LEMMA StoredTyped ==
  ASSUME cell \in [Addrs -> Contents], NEW c, NEW n, NEW d \in Contents
  PROVE  Stored(c, n, d) \in [Addrs -> Contents]
BY DEF Stored

LEMMA BusInvStep == BusInv /\ [BusNext]_busVars => BusInv'
<1> SUFFICES ASSUME BusInv, [BusNext]_busVars  PROVE BusInv'
  OBVIOUS
<1>0. /\ frame \in [Users -> FrameType] /\ cell \in [Addrs -> Contents]
      /\ taker \in Users \cup {Nobody} /\ Blank \in Contents
      /\ \A t \in Users : frame[t] \in FrameType
  BY BusAssumption DEF BusInv, Blank
<1>1. ASSUME NEW t \in Users, NEW write \in BOOLEAN, NEW buf \in BOOLEAN, NEW addr \in Addrs,
             NEW len \in Lens \cup {1}, NEW d \in Contents, ~buf => len = 1,
             Frame(t, write, buf, addr, len, d)
      PROVE  BusInv'
  <2> DEFINE r == [pc |-> "enter", write |-> write, buf |-> buf, addr |-> addr,
                   len |-> len, data |-> d]
  <2>1. /\ frame' = [frame EXCEPT ![t] = r] /\ frame[t].pc = "idle"
        /\ cell' = cell /\ chip' = chip /\ taker' = taker
    BY <1>1 DEF Frame
  <2>2. r \in FrameType /\ InReach(r)
    BY <1>1, BusAssumption DEF FrameType, InReach, Waiting, Frame
  <2>3. r.pc = "enter"
    OBVIOUS
  <2> HIDE DEF r
  <2>4. frame' \in [Users -> FrameType] /\ frame'[t] = r /\ \A u \in Users \ {t} : frame'[u] = frame[u]
    BY <1>0, <2>1, <2>2
  <2>5. taker # t
    BY <2>1, BusAssumption DEF BusInv, Taking
  <2>6. \A u \in Users : (frame'[u].pc \in Taking) <=> (taker' = u)
    BY <2>1, <2>3, <2>4, <2>5 DEF BusInv, Taking
  <2>7. \A u \in Users : taker' = u => u # t /\ frame'[u] = frame[u]
    BY <2>1, <2>4, <2>5
  <2> QED
    BY <2>1, <2>2, <2>3, <2>4, <2>6, <2>7 DEF BusInv, Decoded
<1>2. ASSUME NEW t \in Users, RyanW5500CriticalEnter(t)  PROVE BusInv'
  <2>1. /\ frame' = [frame EXCEPT ![t].pc = "select"] /\ frame[t].pc = "enter"
        /\ cell' = cell /\ chip' = chip /\ taker = Nobody /\ taker' = t
    BY <1>2 DEF RyanW5500CriticalEnter, Now
  <2>2. \A u \in Users : frame[u].pc \notin Taking
    BY <2>1, BusAssumption DEF BusInv
  <2>3. /\ frame'[t] = [frame[t] EXCEPT !.pc = "select"]
        /\ \A u \in Users \ {t} : frame'[u] = frame[u]
    BY <1>0, <2>1
  <2>4. frame' \in [Users -> FrameType]
    BY <1>0, <2>1, <2>3 DEF FrameType, Taking
  <2>5. InReach(frame'[t]) /\ frame'[t].pc = "select"
    BY <1>0, <2>1, <2>3 DEF BusInv, InReach, FrameType
  <2>6. \A u \in Users : (frame'[u].pc \in Taking) <=> (taker' = u)
    BY <2>1, <2>2, <2>3, <2>5 DEF Taking
  <2>7. chip = Deaf
    BY <2>1 DEF BusInv
  <2> QED
    BY <2>1, <2>2, <2>3, <2>4, <2>5, <2>6, <2>7, BusAssumption DEF BusInv, Decoded
<1>3. ASSUME NEW t \in Users, RyanW5500CsSelect(t)  PROVE BusInv'
  <2>1. Now(t, "header") /\ cell' = cell /\ taker' = taker /\ chip' = [chip EXCEPT !.selected = TRUE]
    BY <1>3 DEF RyanW5500CsSelect
  <2>2. taker = t /\ chip = Deaf
    BY <1>3 DEF BusInv, Taking, Decoded, RyanW5500CsSelect
  <2>3. frame'[t].pc = "header"
    BY <1>0, <2>1 DEF Now, FrameType
  <2>4. Decoded(frame[t])'
    BY <2>1, <2>2, <2>3 DEF Decoded
  <2> QED
    BY <1>0, <2>1, <2>2, <2>4, MineStep DEF Taking
<1>4. ASSUME NEW t \in Users, WriteHeader(t)  PROVE BusInv'
  <2> DEFINE r == frame[t]
             n == IF r.write /\ ~r.buf THEN 1 ELSE 0
             c == HeaderSent(chip, r)
             next == IF n = 1 THEN "deselect" ELSE "data"
  <2>1. /\ taker = t /\ r \in FrameType
        /\ c = [selected |-> TRUE, header |-> TRUE, addr |-> r.addr, write |-> r.write]
    BY <1>4, HeaderGiven DEF WriteHeader
  <2>2. /\ Now(t, next) /\ cell' = Stored(c, n, r.data) /\ taker' = taker
        /\ chip' = MovedOn(c, n)
    BY <1>4 DEF WriteHeader
  <2>3. cell' \in [Addrs -> Contents]
    BY <1>0, <2>1, <2>2, StoredTyped DEF FrameType
  <2>4. /\ frame'[t].pc = next /\ frame'[t].addr = r.addr /\ frame'[t].write = r.write
    BY <1>0, <2>2 DEF Now, FrameType
  <2>5. n = 0 => chip' = c
    BY <2>1, <2>2, MovedNone DEF FrameType
  <2>6. next = "data" => n = 0
    OBVIOUS
  <2>7. Decoded(frame[t])'
    BY <2>1, <2>4, <2>5, <2>6 DEF Decoded
  <2>8. next \in Taking /\ (next = "data" => frame[t].buf \/ ~frame[t].write)
    BY DEF Taking
  <2> HIDE DEF next, c, n
  <2> QED
    BY <2>1, <2>2, <2>3, <2>7, <2>8, MineStep
<1>5. ASSUME NEW t \in Users, WriteData(t) \/ ReadData(t)  PROVE BusInv'
  <2>1. taker = t /\ frame[t] \in FrameType
    BY <1>5, DataGiven DEF WriteData, ReadData
  <2>2. Now(t, "deselect") /\ taker' = taker
    BY <1>5 DEF WriteData, ReadData
  <2>3. cell' \in [Addrs -> Contents]
    BY <1>0, <1>5, <2>1, StoredTyped DEF WriteData, ReadData, FrameType
  <2>4. frame'[t].pc = "deselect"
    BY <1>0, <2>2 DEF Now, FrameType
  <2>5. Decoded(frame[t])'
    BY <2>4 DEF Decoded
  <2> QED
    BY <2>1, <2>2, <2>3, <2>5, MineStep DEF Taking
<1>6. ASSUME NEW t \in Users, RyanW5500CsDeselect(t)  PROVE BusInv'
  <2>1. taker = t /\ Now(t, "exit") /\ taker' = taker /\ cell' = cell /\ chip' = Deaf
    BY <1>6 DEF RyanW5500CsDeselect, BusInv, Taking
  <2>2. frame'[t].pc = "exit"
    BY <1>0, <2>1 DEF Now, FrameType
  <2>3. Decoded(frame[t])'
    BY <2>1, <2>2 DEF Decoded, Deaf
  <2> QED
    BY <1>0, <2>1, <2>3, MineStep DEF Taking
<1>7. ASSUME NEW t \in Users, RyanW5500CriticalExit(t)  PROVE BusInv'
  <2>1. /\ frame' = [frame EXCEPT ![t] = Returned] /\ taker' = Nobody
        /\ cell' = cell /\ chip' = chip /\ frame[t].pc = "exit"
    BY <1>7 DEF RyanW5500CriticalExit
  <2>2. taker = t /\ chip = Deaf
    BY <2>1 DEF BusInv, Taking, Decoded
  <2>3. Returned \in FrameType /\ Returned.pc = "idle"
    BY <1>0 DEF Returned, FrameType, Waiting
  <2>4. /\ frame' \in [Users -> FrameType] /\ frame'[t] = Returned
        /\ \A u \in Users \ {t} : frame'[u] = frame[u]
    BY <1>0, <2>1, <2>3
  <2>5. \A u \in Users : frame'[u].pc \notin Taking
    BY <2>2, <2>3, <2>4 DEF BusInv, Taking
  <2>6. \A u \in Users : taker' # u
    BY <2>1, BusAssumption
  <2> QED
    BY <2>1, <2>2, <2>3, <2>4, <2>5, <2>6 DEF BusInv
<1>8. CASE NetworkSets
  <2>1. cell' \in [Addrs -> Contents] /\ chip' = chip /\ taker' = taker /\ frame' = frame
    BY <1>0, <1>8 DEF NetworkSets
  <2> QED
    BY <2>1 DEF BusInv, Decoded
<1>9. CASE UNCHANGED busVars
  BY <1>9 DEF busVars, BusInv, Decoded
<1>10. ASSUME NEW t \in Users, NEW a \in Addrs,
              \/ WIZCHIP_READ(t, a) \/ \E b \in Contents : WIZCHIP_WRITE(t, a, b)
              \/ \E len \in Lens : \/ WIZCHIP_READ_BUF(t, a, len)
                                   \/ \E b \in Contents : WIZCHIP_WRITE_BUF(t, a, len, b)
       PROVE  BusInv'
  BY <1>0, <1>1, <1>10 DEF WIZCHIP_READ, WIZCHIP_WRITE, WIZCHIP_READ_BUF, WIZCHIP_WRITE_BUF
<1> QED
  BY <1>2, <1>3, <1>4, <1>5, <1>6, <1>7, <1>8, <1>9, <1>10 DEF BusNext

-----------------------------------------------------------------------------
(* The refinement                                                          *)

Requests == [t \in Users |-> Asked(t)]

\* Within a frame a request is pending up to the transfer of its data.
LEMMA AskedFollows ==
  ASSUME frame \in [Users -> FrameType], NEW t \in Users, NEW pc \in Waiting \cup Taking, Now(t, pc)
  PROVE  /\ (frame[t].pc \in {"enter", "select", "header", "data"}) =
              (pc \in {"enter", "select", "header", "data"}) => Requests' = Requests
         /\ pc = "deselect" => Requests' = [Requests EXCEPT ![t] = Nobody]
<1>1. /\ frame'[t] = [frame[t] EXCEPT !.pc = pc]
      /\ \A u \in Users \ {t} : frame'[u] = frame[u]
  BY DEF Now
<1>2. /\ frame'[t].pc = pc /\ frame'[t].addr = frame[t].addr /\ frame'[t].len = frame[t].len
      /\ frame'[t].write = frame[t].write /\ frame'[t].data = frame[t].data
  BY <1>1 DEF FrameType
<1>3. \A u \in Users \ {t} : Asked(u)' = Asked(u)
  BY <1>1 DEF Asked
<1>4. (frame[t].pc \in {"enter", "select", "header", "data"}) =
        (pc \in {"enter", "select", "header", "data"}) => Asked(t)' = Asked(t)
  BY <1>2 DEF Asked
<1>5. pc = "deselect" => Asked(t)' = Nobody
  BY <1>2 DEF Asked
<1> QED
  BY <1>3, <1>4, <1>5 DEF Requests

Step == Registers!Next \/ UNCHANGED <<cell, Requests, got>>

\* A pending request is the one of the frame, and not Nobody.
LEMMA AskedIs ==
  ASSUME BusInv, NEW t \in Users, frame[t].pc \in {"enter", "select", "header", "data"}
  PROVE  /\ Requests[t] = [write |-> frame[t].write, addr |-> frame[t].addr,
                           len |-> frame[t].len, data |-> frame[t].data]
         /\ Requests[t] # Nobody
<1>1. frame[t] \in FrameType /\ InReach(frame[t])
  BY DEF BusInv
<1>2. Requests[t] = [write |-> frame[t].write, addr |-> frame[t].addr,
                     len |-> frame[t].len, data |-> frame[t].data]
  BY DEF Requests, Asked
<1>3. Requests[t] \in [write : BOOLEAN, addr : Addrs, len : Lens \cup {1}, data : Contents]
  BY <1>1, <1>2 DEF FrameType, InReach
<1> QED
  BY <1>2, <1>3, BusAssumption

\* Bytes sent in the data of a write frame are stored in the cells it names.
LEMMA WriteAnswers ==
  ASSUME BusInv, NEW t \in Users, NEW c, NEW r, r = frame[t], r.pc \in {"header", "data"}, r.write,
         c = [selected |-> TRUE, header |-> TRUE, addr |-> r.addr, write |-> r.write],
         cell' = Stored(c, r.len, r.data), Now(t, "deselect"), got' = got
  PROVE  Step
<1>0. frame \in [Users -> FrameType]
  BY DEF BusInv
<1>1. Requests' = [Requests EXCEPT ![t] = Nobody]
  BY <1>0, AskedFollows DEF Taking
<1>2. /\ Requests[t] # Nobody /\ Requests[t].write /\ Requests[t].addr = r.addr
      /\ Requests[t].len = r.len /\ Requests[t].data = r.data
  <2>1. r.pc \in {"enter", "select", "header", "data"}
    OBVIOUS
  <2>2. /\ Requests[t] = [write |-> r.write, addr |-> r.addr, len |-> r.len, data |-> r.data]
        /\ Requests[t] # Nobody
    BY <2>1, AskedIs
  <2> QED
    BY <2>2
<1>3. cell' = [a \in Addrs |-> IF a \in r.addr .. r.addr + r.len - 1 THEN r.data ELSE cell[a]]
  BY DEF Stored
<1>4. cell' = [a \in Addrs |-> IF a \in Registers!Asks(Requests[t]) THEN Requests[t].data ELSE cell[a]]
  BY <1>2, <1>3 DEF Registers!Asks
<1>5. Registers!Answer(t)
  BY <1>1, <1>2, <1>4 DEF Registers!Answer, Requests
<1> QED
  BY <1>5 DEF Step, Registers!Next

\* Bytes received in the data of a read frame are those of the cells it names.
LEMMA ReadAnswers ==
  ASSUME BusInv, NEW t \in Users, ReadData(t)
  PROVE  Step
<1> DEFINE r == frame[t]
<1>0. frame \in [Users -> FrameType] /\ r.pc = "data" /\ ~r.write
  BY DEF BusInv, ReadData
<1>1. /\ InReach(r) /\ r \in FrameType
      /\ chip = [selected |-> TRUE, header |-> TRUE, addr |-> r.addr, write |-> r.write]
  BY <1>0, DataGiven
<1>2. Driven(chip, r.len) = {[i \in 1 .. r.len |-> cell[r.addr + i - 1]]}
  BY <1>0, <1>1 DEF Driven, InReach
<1>3. /\ got' = [got EXCEPT ![t] = [i \in 1 .. r.len |-> cell[r.addr + i - 1]]]
      /\ cell' = cell /\ Now(t, "deselect")
  BY <1>2 DEF ReadData
<1>4. Requests' = [Requests EXCEPT ![t] = Nobody]
  BY <1>0, <1>3, AskedFollows DEF Taking
<1>5. /\ Requests[t] # Nobody /\ ~Requests[t].write /\ Requests[t].addr = r.addr
      /\ Requests[t].len = r.len
  <2>1. /\ Requests[t] = [write |-> r.write, addr |-> r.addr, len |-> r.len, data |-> r.data]
        /\ Requests[t] # Nobody
    BY <1>0, AskedIs
  <2> QED
    BY <1>0, <2>1
<1> HIDE DEF r
<1>6. Registers!Answer(t)
  BY <1>3, <1>4, <1>5 DEF Registers!Answer, Requests
<1> QED
  BY <1>6 DEF Step, Registers!Next

\* A call of one of the four functions is a request.
LEMMA FrameAsks ==
  ASSUME BusInv, NEW t \in Users, NEW write \in BOOLEAN, NEW buf \in BOOLEAN, NEW addr \in Addrs,
         NEW len \in Lens \cup {1}, NEW d \in Contents, Frame(t, write, buf, addr, len, d)
  PROVE  Step
<1> DEFINE r == [pc |-> "enter", write |-> write, buf |-> buf, addr |-> addr, len |-> len, data |-> d]
           q == [write |-> write, addr |-> addr, len |-> len, data |-> d]
<1>1. /\ frame' = [frame EXCEPT ![t] = r] /\ frame[t].pc = "idle" /\ cell' = cell
      /\ got' = [got EXCEPT ![t] = <<>>] /\ frame \in [Users -> FrameType]
      /\ addr .. addr + len - 1 \subseteq Addrs
  BY DEF Frame, BusInv
<1>2. frame'[t] = r /\ \A u \in Users \ {t} : frame'[u] = frame[u]
  BY <1>1
<1>3. Asked(t) = Nobody
  BY <1>1 DEF Asked
<1>4. Asked(t)' = q
  BY <1>2 DEF Asked
<1>5. \A u \in Users \ {t} : Asked(u)' = Asked(u)
  BY <1>2 DEF Asked
<1>6. Requests[t] = Nobody /\ Requests' = [Requests EXCEPT ![t] = q]
  BY <1>3, <1>4, <1>5 DEF Requests
<1>7. q \in [write : BOOLEAN, addr : Addrs, len : Lens \cup {1}, data : Contents]
  OBVIOUS
<1>8. Registers!Asks(q) \subseteq Addrs
  BY <1>1 DEF Registers!Asks
<1> HIDE DEF q, r
<1>9. Registers!Ask(t)
  BY <1>1, <1>6, <1>7, <1>8 DEF Registers!Ask, Requests
<1> QED
  BY <1>9 DEF Step, Registers!Next

LEMMA StepRefines == BusInv /\ [BusNext]_busVars => Step
<1> SUFFICES ASSUME BusInv, [BusNext]_busVars  PROVE Step
  OBVIOUS
<1>0. /\ frame \in [Users -> FrameType] /\ cell \in [Addrs -> Contents] /\ Blank \in Contents
      /\ \A t \in Users : frame[t] \in FrameType
  BY BusAssumption DEF BusInv, Blank
<1>1. ASSUME NEW t \in Users, NEW a \in Addrs,
             \/ WIZCHIP_READ(t, a) \/ \E b \in Contents : WIZCHIP_WRITE(t, a, b)
             \/ \E len \in Lens : \/ WIZCHIP_READ_BUF(t, a, len)
                                  \/ \E b \in Contents : WIZCHIP_WRITE_BUF(t, a, len, b)
      PROVE  Step
  BY <1>0, <1>1, FrameAsks DEF WIZCHIP_READ, WIZCHIP_WRITE, WIZCHIP_READ_BUF, WIZCHIP_WRITE_BUF
<1>2. ASSUME NEW t \in Users, RyanW5500CriticalEnter(t) \/ RyanW5500CsSelect(t)  PROVE Step
  <2>1. Requests' = Requests
    BY <1>0, <1>2, AskedFollows DEF RyanW5500CriticalEnter, RyanW5500CsSelect, Taking
  <2> QED
    BY <1>2, <2>1 DEF Step, RyanW5500CriticalEnter, RyanW5500CsSelect
<1>3. ASSUME NEW t \in Users, WriteHeader(t)  PROVE Step
  <2> DEFINE r == frame[t]
             c == HeaderSent(chip, r)
  <2>1. /\ r.pc = "header" /\ r \in FrameType /\ InReach(r)
        /\ c = [selected |-> TRUE, header |-> TRUE, addr |-> r.addr, write |-> r.write]
    BY <1>3, HeaderGiven DEF WriteHeader
  <2>2. CASE r.write /\ ~r.buf
    <3>1. Now(t, "deselect") /\ cell' = Stored(c, r.len, r.data) /\ got' = got
      BY <1>3, <2>1, <2>2 DEF WriteHeader, InReach
    <3> HIDE DEF c
    <3> QED
      BY <2>1, <2>2, <3>1, WriteAnswers
  <2>3. CASE ~(r.write /\ ~r.buf)
    <3>1. Now(t, "data") /\ cell' = Stored(c, 0, r.data) /\ got' = got
      BY <1>3, <2>3 DEF WriteHeader
    <3>2. cell' = cell
      <4> HIDE DEF c
      <4>1. r.addr \in Nat /\ c.addr = r.addr
        BY <2>1 DEF FrameType
      <4>2. c.addr .. c.addr + 0 - 1 = {}
        BY <4>1
      <4> QED
        BY <1>0, <3>1, <4>2 DEF Stored
    <3>3. Requests' = Requests
      BY <1>0, <2>1, <3>1, AskedFollows DEF Taking
    <3> QED
      BY <3>1, <3>2, <3>3 DEF Step
  <2> QED
    BY <2>2, <2>3
<1>4. ASSUME NEW t \in Users, WriteData(t)  PROVE Step
  <2>1. frame[t].pc = "data" /\ frame[t].write
    BY <1>4 DEF WriteData
  <2>2. chip = [selected |-> TRUE, header |-> TRUE, addr |-> frame[t].addr, write |-> frame[t].write]
    BY <2>1, DataGiven
  <2>3. cell' = Stored(chip, frame[t].len, frame[t].data) /\ Now(t, "deselect") /\ got' = got
    BY <1>4 DEF WriteData
  <2> QED
    BY <2>1, <2>2, <2>3, WriteAnswers
<1>5. ASSUME NEW t \in Users, ReadData(t)  PROVE Step
  BY <1>5, ReadAnswers
<1>6. ASSUME NEW t \in Users, RyanW5500CsDeselect(t)  PROVE Step
  <2>1. Requests' = Requests
    BY <1>0, <1>6, AskedFollows DEF RyanW5500CsDeselect, Taking
  <2> QED
    BY <1>6, <2>1 DEF Step, RyanW5500CsDeselect
<1>7. ASSUME NEW t \in Users, RyanW5500CriticalExit(t)  PROVE Step
  <2>1. frame'[t].pc = "idle" /\ frame[t].pc = "exit" /\ \A u \in Users \ {t} : frame'[u] = frame[u]
    BY <1>0, <1>7 DEF RyanW5500CriticalExit, Returned
  <2>2. \A u \in Users : Asked(u)' = Asked(u)
    BY <2>1 DEF Asked
  <2>3. Requests' = Requests
    BY <2>2 DEF Requests
  <2> QED
    BY <1>7, <2>3 DEF Step, RyanW5500CriticalExit
<1>8. CASE NetworkSets
  <2>1. Requests' = Requests /\ got' = got
    BY <1>8 DEF NetworkSets, Requests, Asked
  <2>2. Registers!Network
    BY <1>8, <2>1 DEF NetworkSets, Registers!Network, Requests
  <2> QED
    BY <2>2 DEF Step, Registers!Next
<1>9. CASE UNCHANGED busVars
  BY <1>9 DEF busVars, Step, Requests, Asked
<1> QED
  BY <1>1, <1>2, <1>3, <1>4, <1>5, <1>6, <1>7, <1>8, <1>9 DEF BusNext

-----------------------------------------------------------------------------
(* Theorems                                                                *)

\* The bus always has one owner at most and the chip follows its frame alone.
THEOREM BusHasOneOwner == BusSpec => []BusInv
BY BusInvInit, BusInvStep, PTL DEF BusSpec

\* For any threads, registers and lengths: through the bus, the chip select and the
\* bursts of several threads each register function reads or writes the cells it
\* names at one moment of its call.
THEOREM BusImplementsRegisters == BusSpec => ImplementsRegisters
<1>1. BusInit => Registers!Init
  BY DEF BusInit, Registers!Init, Asked, Returned
<1>2. BusInv /\ [BusNext]_busVars => [Registers!Next]_<<cell, Requests, got>>
  BY StepRefines DEF Step
<1>3. BusSpec => []BusInv
  BY BusHasOneOwner
<1> QED
  BY <1>1, <1>2, <1>3, PTL DEF BusSpec, ImplementsRegisters, Registers!Spec, Requests

(***************************************************************************)
(* The resolver calls                                                      *)
(***************************************************************************)

ResolverPCs == {"idle", "lookup", "addr", "name", "check_r", "lookup_r", "fill_r",
                "check_ai", "lookup_ai", "size", "malloc"}
AnyName     == Names \cup {NoName, Loop}
Locals      == [pc : ResolverPCs, name : AnyName, addr : AnyName]
Addresses   == [name : AnyName, addr : AnyName]
Results     == {NoResult} \cup [kind : {"static"}, name : AnyName]
                          \cup [kind : {"own"}, name : AnyName, has : Addresses]
                          \cup [kind : {"heap"}, name : AnyName, block : Blocks]

ResolverTypes ==
    /\ static \in Addresses
    /\ DOMAIN blocks \subseteq Blocks /\ blocks \in [DOMAIN blocks -> Addresses]
    /\ who \in [Callers -> Locals]
    /\ result \in [Callers -> Results]

\* A thread at work uses no result; the address it has found is that of its name,
\* which is not NULL where it is looked up.
WorkOf(c) ==
    LET w == who[c] IN
    /\ w.pc # "idle" => result[c] = NoResult
    /\ w.pc = "fill_r" => w.addr = w.name
    /\ w.pc = "lookup_ai" => w.name # NoName
    /\ w.pc \in {"size", "malloc"} => w.addr = AddressOf(w.name)

\* A result in the thread's own buffer, or in its block on the heap, is right.
ResultOf(c) ==
    LET r == result[c] IN
    /\ r.kind = "own" => r.has = Entry(r.name, r.name)
    /\ r.kind = "heap" => r.block \in DOMAIN blocks /\ blocks[r.block] = Entry(r.name, AddressOf(r.name))

\* Every block belongs to one thread's result.
Owned ==
    /\ \A b \in DOMAIN blocks : \E c \in Callers : result[c].kind = "heap" /\ result[c].block = b
    /\ \A c, d \in Callers :
         /\ c # d /\ result[c].kind = "heap" /\ result[d].kind = "heap"
         => result[c].block # result[d].block

\* The inductive invariant.
ResolverInv == ResolverTypes /\ (\A c \in Callers : WorkOf(c) /\ ResultOf(c)) /\ Owned

\* A step that leaves the results and the heap alone.
LEMMA WorkStep ==
    ASSUME ResolverInv, NEW c \in Callers, NEW w \in Locals,
           who' = [who EXCEPT ![c] = w], result[c] = NoResult, UNCHANGED <<blocks, result>>,
           static' \in Addresses,
           w.pc = "fill_r" => w.addr = w.name,
           w.pc = "lookup_ai" => w.name # NoName,
           w.pc \in {"size", "malloc"} => w.addr = AddressOf(w.name)
    PROVE  ResolverInv'
<1> USE DEF ResolverInv, ResolverTypes
<1>1. who' \in [Callers -> Locals] /\ who'[c] = w /\ \A d \in Callers \ {c} : who'[d] = who[d]
  OBVIOUS
<1>2. ASSUME NEW d \in Callers PROVE WorkOf(d)' /\ ResultOf(d)'
  <2>1. CASE d = c BY <1>1, <2>1 DEF WorkOf, ResultOf, AddressOf
  <2>2. CASE d # c BY <1>1, <2>2 DEF WorkOf, ResultOf, AddressOf
  <2> QED BY <2>1, <2>2
<1>3. Owned' BY DEF Owned
<1> QED BY <1>1, <1>2, <1>3

\* A call that ends, with a result of its own memory or none.
LEMMA ReturnStep ==
    ASSUME ResolverInv, NEW c \in Callers, NEW r \in Results,
           Return(c, r), result[c] = NoResult, UNCHANGED blocks, static' \in Addresses,
           r.kind # "heap", r.kind = "own" => r.has = Entry(r.name, r.name)
    PROVE  ResolverInv'
<1> USE DEF ResolverInv, ResolverTypes
<1> DEFINE w == [pc |-> "idle", name |-> NoName, addr |-> NoName]
<1>0. w \in Locals BY DEF Locals, ResolverPCs, AnyName
<1>1. /\ who' \in [Callers -> Locals] /\ who'[c] = w /\ \A d \in Callers \ {c} : who'[d] = who[d]
      /\ result' \in [Callers -> Results] /\ result'[c] = r
      /\ \A d \in Callers \ {c} : result'[d] = result[d]
  BY <1>0 DEF Return
<1>2. ASSUME NEW d \in Callers PROVE WorkOf(d)' /\ ResultOf(d)'
  <2>1. CASE d = c BY <1>1, <2>1 DEF WorkOf, ResultOf
  <2>2. CASE d # c BY <1>1, <2>2 DEF WorkOf, ResultOf, AddressOf
  <2> QED BY <2>1, <2>2
<1>3. result[c].kind # "heap" BY DEF NoResult
<1>4. Owned'
  <2>1. ASSUME NEW b \in DOMAIN blocks'
        PROVE  \E d \in Callers : result'[d].kind = "heap" /\ result'[d].block = b
    <3>1. PICK d \in Callers : result[d].kind = "heap" /\ result[d].block = b BY DEF Owned
    <3> QED BY <1>1, <1>3, <3>1
  <2>2. ASSUME NEW d \in Callers, NEW e \in Callers, d # e,
               result'[d].kind = "heap", result'[e].kind = "heap"
        PROVE  result'[d].block # result'[e].block
    BY <1>1, <2>2 DEF Owned
  <2> QED BY <2>1, <2>2 DEF Owned
<1> QED BY <1>1, <1>2, <1>4

\* A thread that is done with a result in its own memory.
LEMMA ForgetStep ==
    ASSUME ResolverInv, NEW c \in Callers, Forget(c)
    PROVE  ResolverInv'
<1> USE DEF ResolverInv, ResolverTypes
<1>1. /\ UNCHANGED <<static, blocks, who>>
      /\ result' \in [Callers -> Results] /\ result'[c] = NoResult
      /\ \A d \in Callers \ {c} : result'[d] = result[d]
  BY DEF Forget, Results
<1>2. NoResult.kind = "none" BY DEF NoResult
<1>3. ASSUME NEW d \in Callers PROVE WorkOf(d)' /\ ResultOf(d)'
  <2>1. CASE d = c BY <1>1, <1>2, <2>1 DEF WorkOf, ResultOf, Forget
  <2>2. CASE d # c BY <1>1, <2>2 DEF WorkOf, ResultOf, AddressOf
  <2> QED BY <2>1, <2>2
<1>4. result[c].kind # "heap" BY DEF Forget
<1>5. Owned'
  <2>1. ASSUME NEW b \in DOMAIN blocks'
        PROVE  \E d \in Callers : result'[d].kind = "heap" /\ result'[d].block = b
    <3>1. PICK d \in Callers : result[d].kind = "heap" /\ result[d].block = b BY <1>1 DEF Owned
    <3> QED BY <1>1, <1>4, <3>1
  <2>2. ASSUME NEW d \in Callers, NEW e \in Callers, d # e,
               result'[d].kind = "heap", result'[e].kind = "heap"
        PROVE  result'[d].block # result'[e].block
    BY <1>1, <1>2, <2>2 DEF Owned
  <2> QED BY <2>1, <2>2 DEF Owned
<1> QED BY <1>1, <1>3, <1>5

\* wiz_freeaddrinfo frees the block of this thread's result only.
LEMMA FreeStep ==
    ASSUME ResolverInv, NEW c \in Callers, FreeAddrInfo(c)
    PROVE  ResolverInv'
<1> USE DEF ResolverInv, ResolverTypes
<1> DEFINE b == result[c].block
<1>1. /\ UNCHANGED <<static, who>> /\ result[c].kind = "heap" /\ who[c].pc = "idle"
      /\ result' \in [Callers -> Results] /\ result'[c] = NoResult
      /\ \A d \in Callers \ {c} : result'[d] = result[d]
  BY DEF FreeAddrInfo, Results
<1>2. /\ DOMAIN blocks' = DOMAIN blocks \ {b} /\ blocks' \in [DOMAIN blocks' -> Addresses]
      /\ \A d \in DOMAIN blocks' : blocks'[d] = blocks[d]
  BY DEF FreeAddrInfo
<1>3. NoResult.kind = "none" BY DEF NoResult
<1>4. ASSUME NEW d \in Callers PROVE WorkOf(d)' /\ ResultOf(d)'
  <2>1. CASE d = c BY <1>1, <1>3, <2>1 DEF WorkOf, ResultOf
  <2>2. CASE d # c
    <3>1. result[d].kind = "heap" => result[d].block # b BY <1>1, <2>2 DEF Owned
    <3> HIDE DEF b
    <3> QED BY <1>1, <1>2, <2>2, <3>1 DEF WorkOf, ResultOf, AddressOf
  <2> QED BY <2>1, <2>2
<1>5. Owned'
  <2>1. ASSUME NEW d \in DOMAIN blocks'
        PROVE  \E e \in Callers : result'[e].kind = "heap" /\ result'[e].block = d
    <3>1. d \in DOMAIN blocks /\ d # b BY <1>2
    <3>2. PICK e \in Callers : result[e].kind = "heap" /\ result[e].block = d BY <3>1 DEF Owned
    <3> QED BY <1>1, <3>1, <3>2
  <2>2. ASSUME NEW d \in Callers, NEW e \in Callers, d # e,
               result'[d].kind = "heap", result'[e].kind = "heap"
        PROVE  result'[d].block # result'[e].block
    BY <1>1, <1>3, <2>2 DEF Owned
  <2> QED BY <2>1, <2>2 DEF Owned
<1> HIDE DEF b
<1>6. DOMAIN blocks' \subseteq Blocks BY <1>2
<1> QED BY <1>1, <1>2, <1>4, <1>5, <1>6

\* malloc returns a block that no thread's result holds.
LEMMA AllocateStep ==
    ASSUME ResolverInv, NEW c \in Callers, who[c].pc = "malloc", NEW b \in Blocks \ DOMAIN blocks,
           blocks' = [d \in DOMAIN blocks \cup {b} |->
                        IF d = b THEN Entry(who[c].name, who[c].addr) ELSE blocks[d]],
           Return(c, [kind |-> "heap", name |-> who[c].name, block |-> b]), UNCHANGED static
    PROVE  ResolverInv'
<1> USE DEF ResolverInv, ResolverTypes
<1> DEFINE w == [pc |-> "idle", name |-> NoName, addr |-> NoName]
           r == [kind |-> "heap", name |-> who[c].name, block |-> b]
<1>0. w \in Locals /\ r \in Results /\ who[c].name \in AnyName /\ who[c].addr \in AnyName
  BY DEF Locals, ResolverPCs, AnyName, Results
<1>1. /\ who' \in [Callers -> Locals] /\ who'[c] = w /\ \A d \in Callers \ {c} : who'[d] = who[d]
      /\ result' \in [Callers -> Results] /\ result'[c] = r
      /\ \A d \in Callers \ {c} : result'[d] = result[d]
  BY <1>0 DEF Return
<1>2. /\ DOMAIN blocks' = DOMAIN blocks \cup {b}
      /\ blocks'[b] = Entry(who[c].name, who[c].addr)
      /\ \A d \in DOMAIN blocks : blocks'[d] = blocks[d]
  OBVIOUS
<1>3. blocks' \in [DOMAIN blocks' -> Addresses]
  BY <1>0, <1>2 DEF Entry, Addresses
<1>4. result[c].kind = "none" /\ who[c].addr = AddressOf(who[c].name) BY DEF WorkOf, NoResult
<1>5. ASSUME NEW d \in Callers PROVE WorkOf(d)' /\ ResultOf(d)'
  <2>1. CASE d = c BY <1>1, <1>2, <1>4, <2>1 DEF WorkOf, ResultOf, AddressOf
  <2>2. CASE d # c BY <1>1, <1>2, <2>2 DEF WorkOf, ResultOf, AddressOf
  <2> QED BY <2>1, <2>2
<1>6. Owned'
  <2>1. ASSUME NEW d \in DOMAIN blocks'
        PROVE  \E e \in Callers : result'[e].kind = "heap" /\ result'[e].block = d
    <3>1. CASE d = b BY <1>1, <3>1
    <3>2. CASE d # b
      <4>1. PICK e \in Callers : result[e].kind = "heap" /\ result[e].block = d
        BY <1>2, <3>2 DEF Owned
      <4> QED BY <1>1, <1>4, <4>1
    <3> QED BY <3>1, <3>2
  <2>2. ASSUME NEW d \in Callers, NEW e \in Callers, d # e,
               result'[d].kind = "heap", result'[e].kind = "heap"
        PROVE  result'[d].block # result'[e].block
    <3>1. \A f \in Callers : result[f].kind = "heap" => result[f].block # b BY DEF ResultOf
    <3> QED BY <1>1, <2>2, <3>1 DEF Owned
  <2> QED BY <2>1, <2>2 DEF Owned
<1>7. DOMAIN blocks' \subseteq Blocks BY <1>2
<1> QED BY <1>1, <1>3, <1>5, <1>6, <1>7

\* The steps of a thread in RyanW5500Socket.c, each as one of the steps above.
LEMMA ResolverStepKeeps ==
    ASSUME ResolverInv, NEW c \in Callers,
           \/ GetHostByName(c) \/ GetHostByNameR(c) \/ GetAddrInfo(c)
           \/ CheckLength(c) \/ Allocate(c) \/ FreeAddrInfo(c) \/ Forget(c)
    PROVE  ResolverInv'
<1>0. /\ who[c] \in Locals /\ who[c].name \in AnyName /\ who[c].addr \in AnyName
      /\ who[c].pc # "idle" => result[c] = NoResult
      /\ static \in Addresses /\ who \in [Callers -> Locals]
      /\ NoResult \in Results /\ NoResult.kind = "none"
      /\ NoName \in AnyName /\ Loop \in AnyName /\ Names \subseteq AnyName /\ Hosts \subseteq AnyName
  BY DEF ResolverInv, ResolverTypes, WorkOf, Locals, Results, NoResult, AnyName, Names
\* A step to pc with this name and address.
<1>1. ASSUME NEW pc \in ResolverPCs, NEW name \in AnyName, NEW addr \in AnyName,
             who' = [who EXCEPT ![c] = [pc |-> pc, name |-> name, addr |-> addr]],
             result[c] = NoResult, UNCHANGED <<blocks, result>>, static' \in Addresses,
             pc = "fill_r" => addr = name, pc = "lookup_ai" => name # NoName,
             pc \in {"size", "malloc"} => addr = AddressOf(name)
      PROVE  ResolverInv'
  <2> DEFINE w == [pc |-> pc, name |-> name, addr |-> addr]
  <2>1. w \in Locals BY DEF Locals
  <2>2. w.pc = pc /\ w.name = name /\ w.addr = addr OBVIOUS
  <2>3. who' = [who EXCEPT ![c] = w] BY <1>1
  <2> HIDE DEF w
  <2> QED BY <1>1, <2>1, <2>2, <2>3, WorkStep
<1>2. ASSUME NEW pc \in ResolverPCs
      PROVE  /\ [who EXCEPT ![c].pc = pc]
                  = [who EXCEPT ![c] = [pc |-> pc, name |-> who[c].name, addr |-> who[c].addr]]
             /\ \A addr \in AnyName : [who EXCEPT ![c].pc = pc, ![c].addr = addr]
                  = [who EXCEPT ![c] = [pc |-> pc, name |-> who[c].name, addr |-> addr]]
  <2>1. [who[c] EXCEPT !.pc = pc] = [pc |-> pc, name |-> who[c].name, addr |-> who[c].addr]
    BY <1>0 DEF Locals
  <2>2. [who EXCEPT ![c].pc = pc]
          = [who EXCEPT ![c] = [pc |-> pc, name |-> who[c].name, addr |-> who[c].addr]]
    BY <2>1
  <2>3. ASSUME NEW addr \in AnyName
        PROVE  [who EXCEPT ![c].pc = pc, ![c].addr = addr]
                 = [who EXCEPT ![c] = [pc |-> pc, name |-> who[c].name, addr |-> addr]]
    <3> DEFINE v == [who EXCEPT ![c].pc = pc, ![c].addr = addr]
               w == [who EXCEPT ![c] = [pc |-> pc, name |-> who[c].name, addr |-> addr]]
    <3>1. DOMAIN v = Callers /\ DOMAIN w = Callers BY <1>0
    <3>2. \A d \in Callers \ {c} : v[d] = w[d] BY <1>0
    <3>3. w[c] = [pc |-> pc, name |-> who[c].name, addr |-> addr] BY <1>0
    <3>4. v[c] = [pc |-> pc, name |-> who[c].name, addr |-> addr] BY <1>0 DEF Locals
    <3> QED BY <3>1, <3>2, <3>3, <3>4
  <2> QED BY <2>2, <2>3
<1>3. ASSUME Error(c), who[c].pc # "idle" PROVE ResolverInv'
  BY <1>0, <1>3, ReturnStep DEF Error
<1>4. ASSUME NEW pc \in ResolverPCs, NEW name \in AnyName, Calls(c, pc, name), pc \notin {"fill_r", "lookup_ai", "size", "malloc"}
      PROVE  ResolverInv'
  BY <1>0, <1>1, <1>4 DEF Calls
<1>5. /\ "idle" \in ResolverPCs /\ "lookup" \in ResolverPCs /\ "addr" \in ResolverPCs
      /\ "name" \in ResolverPCs /\ "check_r" \in ResolverPCs /\ "lookup_r" \in ResolverPCs
      /\ "fill_r" \in ResolverPCs /\ "check_ai" \in ResolverPCs /\ "lookup_ai" \in ResolverPCs
      /\ "size" \in ResolverPCs /\ "malloc" \in ResolverPCs
  BY DEF ResolverPCs
\* RyanW5500_gethostbyname
<1>6. ASSUME NEW pc \in ResolverPCs, NEW then \in {"addr", "fill_r", "size"}, Lookup(c, pc, then),
             pc \in {"lookup", "lookup_r", "lookup_ai"}, then = "size" => who[c].name # NoName
      PROVE  ResolverInv'
  <2>1. who[c].pc # "idle" BY <1>6 DEF Lookup
  <2>2. CASE Error(c) BY <1>3, <2>1, <2>2
  <2>3. CASE who' = [who EXCEPT ![c].pc = then, ![c].addr = who[c].name] /\ UNCHANGED <<static, blocks, result>>
    <3>1. then \in ResolverPCs BY <1>5
    <3>2. who' = [who EXCEPT ![c] = [pc |-> then, name |-> who[c].name, addr |-> who[c].name]]
      BY <1>0, <1>2, <2>3, <3>1
    <3>3. then = "size" => who[c].name = AddressOf(who[c].name) BY <1>6 DEF AddressOf
    <3> QED BY <1>0, <1>1, <2>1, <2>3, <3>1, <3>2, <3>3
  <2> QED BY <1>6, <2>2, <2>3 DEF Lookup
<1>7. CASE GetHostByName(c)
  <2>1. CASE \E name \in Hosts : Calls(c, "lookup", name) BY <1>0, <1>4, <1>5, <2>1
  <2>2. CASE Lookup(c, "lookup", "addr") BY <1>5, <1>6, <2>2
  <2>3. CASE /\ who[c].pc = "addr" /\ static' = [static EXCEPT !.addr = who[c].addr]
             /\ Local(c, "name") /\ UNCHANGED <<blocks, result>>
    <3>1. static' \in Addresses BY <1>0, <2>3 DEF Addresses
    <3>2. who' = [who EXCEPT ![c] = [pc |-> "name", name |-> who[c].name, addr |-> who[c].addr]]
      BY <1>2, <1>5, <2>3 DEF Local
    <3> QED BY <1>0, <1>1, <1>5, <2>3, <3>1, <3>2
  <2>4. CASE /\ who[c].pc = "name" /\ static' = [static EXCEPT !.name = who[c].name]
             /\ Return(c, [kind |-> "static", name |-> who[c].name]) /\ UNCHANGED blocks
    <3>1. static' \in Addresses BY <1>0, <2>4 DEF Addresses
    <3>2. [kind |-> "static", name |-> who[c].name] \in Results BY <1>0 DEF Results
    <3> QED BY <1>0, <2>4, <3>1, <3>2, ReturnStep
  <2> QED BY <1>7, <2>1, <2>2, <2>3, <2>4 DEF GetHostByName
<1>8. CASE GetHostByNameR(c)
  <2>1. CASE \E name \in Names : Calls(c, "check_r", name) BY <1>0, <1>4, <1>5, <2>1
  <2>2. CASE who[c].pc = "check_r" /\ Error(c) BY <1>3, <2>2
  <2>3. CASE who[c].pc = "check_r" /\ Local(c, "lookup_r") /\ UNCHANGED <<static, blocks, result>>
    <3>1. who' = [who EXCEPT ![c] = [pc |-> "lookup_r", name |-> who[c].name, addr |-> who[c].addr]]
      BY <1>2, <1>5, <2>3 DEF Local
    <3> QED BY <1>0, <1>1, <1>5, <2>3, <3>1
  <2>4. CASE Lookup(c, "lookup_r", "fill_r") BY <1>5, <1>6, <2>4
  <2>5. CASE who[c].pc = "fill_r" /\ Return(c, OwnBuffer(c)) /\ UNCHANGED <<static, blocks>>
    <3>1. who[c].addr = who[c].name BY <2>5 DEF ResolverInv, WorkOf
    <3>2. OwnBuffer(c) \in Results BY <1>0 DEF Results, OwnBuffer, Entry, Addresses
    <3>3. OwnBuffer(c).kind = "own" /\ OwnBuffer(c).has = Entry(OwnBuffer(c).name, OwnBuffer(c).name)
      BY <3>1 DEF OwnBuffer
    <3> QED BY <1>0, <2>5, <3>2, <3>3, ReturnStep
  <2> QED BY <1>8, <2>1, <2>2, <2>3, <2>4, <2>5 DEF GetHostByNameR
<1>9. CASE GetAddrInfo(c)
  <2>1. CASE \E name \in Names \cup {NoName} : Calls(c, "check_ai", name) BY <1>0, <1>4, <1>5, <2>1
  <2>2. CASE who[c].pc = "check_ai" /\ Error(c) BY <1>3, <2>2
  <2>3. CASE who[c].pc = "check_ai" /\ UNCHANGED <<static, blocks, result>>
    <3>1. CASE who[c].name = NoName /\ who' = [who EXCEPT ![c].pc = "size", ![c].addr = Loop]
      <4>1. who' = [who EXCEPT ![c] = [pc |-> "size", name |-> who[c].name, addr |-> Loop]]
        BY <1>0, <1>2, <1>5, <3>1
      <4>2. Loop = AddressOf(who[c].name) BY <3>1 DEF AddressOf
      <4> QED BY <1>0, <1>1, <1>5, <2>3, <4>1, <4>2
    <3>2. CASE who[c].name # NoName /\ who' = [who EXCEPT ![c].pc = "size", ![c].addr = who[c].name]
      <4>1. who' = [who EXCEPT ![c] = [pc |-> "size", name |-> who[c].name, addr |-> who[c].name]]
        BY <1>0, <1>2, <1>5, <3>2
      <4>2. who[c].name = AddressOf(who[c].name) BY <3>2 DEF AddressOf
      <4> QED BY <1>0, <1>1, <1>5, <2>3, <4>1, <4>2
    <3>3. CASE who[c].name # NoName /\ Local(c, "lookup_ai")
      <4>1. who' = [who EXCEPT ![c] = [pc |-> "lookup_ai", name |-> who[c].name, addr |-> who[c].addr]]
        BY <1>2, <1>5, <3>3 DEF Local
      <4> QED BY <1>0, <1>1, <1>5, <2>3, <3>3, <4>1
    <3>4. CASE ~(\/ who[c].name = NoName /\ who' = [who EXCEPT ![c].pc = "size", ![c].addr = Loop]
                 \/ who[c].name # NoName /\ who' = [who EXCEPT ![c].pc = "size", ![c].addr = who[c].name]
                 \/ who[c].name # NoName /\ Local(c, "lookup_ai"))
      <4>1. \/ who[c].pc = "check_ai" /\ Error(c)
            \/ \E name \in Names \cup {NoName} : Calls(c, "check_ai", name)
            \/ Lookup(c, "lookup_ai", "size")
        BY <1>9, <3>4 DEF GetAddrInfo
      <4>2. ~Lookup(c, "lookup_ai", "size") BY <2>3 DEF Lookup
      <4> QED BY <2>1, <2>2, <4>1, <4>2
    <3> QED BY <3>1, <3>2, <3>3, <3>4
  <2>4. CASE Lookup(c, "lookup_ai", "size")
    <3>1. who[c].name # NoName BY <2>4 DEF Lookup, ResolverInv, WorkOf
    <3> QED BY <1>5, <1>6, <2>4, <3>1
  <2> QED BY <1>9, <2>1, <2>2, <2>3, <2>4 DEF GetAddrInfo
<1>10. CASE CheckLength(c)
  <2>1. CASE Error(c) BY <1>3, <1>10, <2>1 DEF CheckLength
  <2>2. CASE Local(c, "malloc") /\ UNCHANGED <<static, blocks, result>>
    <3>1. who' = [who EXCEPT ![c] = [pc |-> "malloc", name |-> who[c].name, addr |-> who[c].addr]]
      BY <1>2, <1>5, <2>2 DEF Local
    <3>2. who[c].pc = "size" /\ who[c].addr = AddressOf(who[c].name)
      BY <1>10 DEF CheckLength, ResolverInv, WorkOf
    <3> QED BY <1>0, <1>1, <1>5, <2>2, <3>1, <3>2
  <2> QED BY <1>10, <2>1, <2>2 DEF CheckLength
<1>11. CASE Allocate(c)
  <2>1. CASE Error(c) BY <1>3, <1>11, <2>1 DEF Allocate
  <2>2. CASE ~Error(c)
    <3>1. PICK b \in Blocks \ DOMAIN blocks :
            /\ blocks' = [d \in DOMAIN blocks \cup {b} |->
                            IF d = b THEN Entry(who[c].name, who[c].addr) ELSE blocks[d]]
            /\ Return(c, [kind |-> "heap", name |-> who[c].name, block |-> b])
            /\ UNCHANGED static
      BY <1>11, <2>2 DEF Allocate
    <3>2. who[c].pc = "malloc" BY <1>11 DEF Allocate
    <3> QED BY <3>1, <3>2, AllocateStep
  <2> QED BY <2>1, <2>2
<1>12. CASE FreeAddrInfo(c) BY <1>12, FreeStep
<1>13. CASE Forget(c) BY <1>13, ForgetStep
<1> QED BY <1>7, <1>8, <1>9, <1>10, <1>11, <1>12, <1>13

\* What wiz_gethostbyname_r and wiz_getaddrinfo have given a thread stays the right
\* name and address in memory of its own, and no block on the heap is leaked, freed
\* twice or shared, for any number of threads, names and blocks.
THEOREM ResultsAlwaysOwn == ResolverSpec => []ResultsOwn
<1>1. ResolverInv => ResultsOwn
  <2> SUFFICES ASSUME ResolverInv PROVE ResultsOwn
    OBVIOUS
  <2>1. ASSUME NEW c \in Callers
        PROVE  /\ result[c].kind = "own" => Content(result[c]) = Entry(result[c].name, result[c].name)
               /\ result[c].kind = "heap" => Content(result[c]) = Entry(result[c].name, AddressOf(result[c].name))
    BY DEF ResolverInv, ResultOf, Content
  <2>2. DOMAIN blocks = {result[c].block : c \in {d \in Callers : result[d].kind = "heap"}}
    <3>1. ASSUME NEW b \in DOMAIN blocks
          PROVE  b \in {result[c].block : c \in {d \in Callers : result[d].kind = "heap"}}
      <4>1. PICK c \in Callers : result[c].kind = "heap" /\ result[c].block = b
        BY DEF ResolverInv, Owned
      <4> QED BY <4>1
    <3>2. ASSUME NEW c \in Callers, result[c].kind = "heap" PROVE result[c].block \in DOMAIN blocks
      BY <3>2 DEF ResolverInv, ResultOf
    <3> QED BY <3>1, <3>2
  <2>3. BlocksHeld BY <2>2 DEF BlocksHeld, ResolverInv, Owned
  <2> QED BY <2>1, <2>3 DEF ResultsOwn
<1>2. ResolverInit => ResolverInv
  <2> SUFFICES ASSUME ResolverInit PROVE ResolverInv
    OBVIOUS
  <2>1. NoName \in AnyName /\ "idle" \in ResolverPCs BY DEF AnyName, ResolverPCs
  <2>2. DOMAIN blocks = {} BY DEF ResolverInit
  <2>3. ResolverTypes
    BY <2>1, <2>2 DEF ResolverInit, ResolverTypes, Empty, Entry, Addresses, Locals, Results
  <2>4. \A c \in Callers : result[c].kind = "none" /\ result[c] = NoResult /\ who[c].pc = "idle"
    BY DEF ResolverInit, NoResult
  <2>5. \A c \in Callers : WorkOf(c) /\ ResultOf(c) BY <2>4 DEF WorkOf, ResultOf
  <2>6. Owned BY <2>2, <2>4 DEF Owned
  <2> QED BY <2>3, <2>5, <2>6 DEF ResolverInv
<1>3. ResolverInv /\ [ResolverNext]_resolverVars => ResolverInv'
  <2> SUFFICES ASSUME ResolverInv, [ResolverNext]_resolverVars PROVE ResolverInv'
    OBVIOUS
  <2>1. CASE ResolverNext BY <2>1, ResolverStepKeeps DEF ResolverNext
  <2>2. CASE UNCHANGED resolverVars
    BY <2>2 DEF resolverVars, ResolverInv, ResolverTypes, WorkOf, ResultOf, Owned, AddressOf
  <2> QED BY <2>1, <2>2
<1> QED BY <1>1, <1>2, <1>3, PTL DEF ResolverSpec

(***************************************************************************)
(* The options of sockets                                                  *)
(***************************************************************************)

\* Division with remainder has one result.
LEMMA OneQuotient ==
    ASSUME NEW d \in Nat \ {0}, NEW q \in Nat, NEW r \in Nat, r < d, NEW n \in Nat, n = d * q + r
    PROVE  n \div d = q /\ n % d = r
<1>1. /\ n \div d \in Int /\ n % d \in 0 .. d - 1 /\ n = d * (n \div d) + (n % d)
  OBVIOUS
<1> DEFINE a == n \div d
           b == n % d
<1>2. a \in Int /\ b \in Int /\ 0 <= b /\ b < d /\ n = d * a + b BY <1>1
<1> HIDE DEF a, b
<1>3. \A x, y \in Int : x < y => d * x + d <= d * y
  <2> SUFFICES ASSUME NEW x \in Int, NEW y \in Int, x < y PROVE d * x + d <= d * y
    OBVIOUS
  <2>1. d * x + d = d * (x + 1) OBVIOUS
  <2>2. \A k \in Nat : d * k >= 0 OBVIOUS
  <2>3. y - (x + 1) \in Nat OBVIOUS
  <2>4. d * y = d * (x + 1) + d * (y - (x + 1)) OBVIOUS
  <2>5. d * (x + 1) \in Int /\ d * y \in Int /\ d * (y - (x + 1)) >= 0 /\ d * (y - (x + 1)) \in Int
    BY <2>2, <2>3
  <2> QED BY <2>1, <2>4, <2>5
<1>4. d * a \in Int /\ d * q \in Int BY <1>2
<1>5. ~(a < q) BY <1>2, <1>3, <1>4
<1>6. ~(q < a) BY <1>2, <1>3, <1>4
<1>7. a = q BY <1>2, <1>5, <1>6
<1> QED BY <1>2, <1>4, <1>7 DEF a, b

\* Quotients of quotients.
LEMMA TwoQuotients ==
    ASSUME NEW k \in Nat \ {0}, NEW u \in Nat \ {0}, NEW n \in Nat
    PROVE  /\ n \div (k * u) = (n \div u) \div k
           /\ (n % (k * u)) \div u = (n \div u) % k
<1> DEFINE q == n \div u
           r == n % u
           a == q \div k
           b == q % k
<1>1. q \in Nat /\ r \in Nat /\ r < u /\ n = u * q + r OBVIOUS
<1>2. a \in Nat /\ b \in Nat /\ b < k /\ q = k * a + b
  <2> HIDE DEF q
  <2> QED BY <1>1
<1> HIDE DEF q, r, a, b
<1>3. u * b \in Nat /\ k * u \in Nat \ {0} /\ u * b + r < k * u
  <2>1. u * b \in Nat /\ k * u \in Nat \ {0} BY <1>2
  <2>2. k * u = u * b + u * (k - b) BY <1>2
  <2>3. k - b \in Nat /\ k - b >= 1 BY <1>2
  <2>4. \A m \in Nat : m >= 1 => u * m >= u OBVIOUS
  <2>5. u * (k - b) >= u /\ u * (k - b) \in Nat BY <2>3, <2>4
  <2> QED BY <1>1, <2>1, <2>2, <2>5
<1>4. n = (k * u) * a + (u * b + r)
  <2>1. u * q = u * (k * a) + u * b BY <1>2
  <2>2. u * (k * a) = (k * u) * a BY <1>2
  <2>3. u * (k * a) \in Nat /\ u * b \in Nat BY <1>2
  <2>4. n = u * (k * a) + u * b + r BY <1>1, <1>2, <2>1
  <2> HIDE DEF a
  <2> QED BY <1>1, <2>2, <2>3, <2>4
<1> DEFINE d == k * u
           s == u * b + r
<1>5. d \in Nat \ {0} /\ s \in Nat /\ s < d /\ n = d * a + s BY <1>1, <1>3, <1>4
<1> HIDE DEF d
<1> HIDE DEF s
<1>6. n \div d = a /\ n % d = s BY <1>2, <1>5, OneQuotient
<1>7. s \div u = b
  <2>1. s = u * b + r BY DEF s
  <2> QED BY <1>1, <1>2, <1>5, <2>1, OneQuotient
<1> QED BY <1>6, <1>7 DEF d, a, b, q

Periods   == Timevals \cup {Zero}
Opts    == {"SO_RCVTIMEO", "SO_SNDTIMEO", "IP_TTL", "IP_TOS", "group"}
Answers == {Unset} \cup {Value(x) : x \in Periods} \cup {Value(x) : x \in Ints} \cup {Value(TRUE)}
Descs   == [type : {"none", "TCP", "UDP"}, recv : Nat, send : Nat, broadcast : BOOLEAN, listens : BOOLEAN]
Regs    == [mode : {"closed", "TCP", "UDP"}, multi : BOOLEAN, ttl : Nat, tos : Nat, keep : Nat]
AskedOptions   == [Opts -> Answers]

\* A descriptor d and its socket's registers g agree with what the owner asked, a.
Agrees(d, g, a) ==
    /\ d.type # "none" =>
         /\ a["SO_RCVTIMEO"].v \in Periods /\ d.recv = InMs(a["SO_RCVTIMEO"].v)
         /\ a["SO_SNDTIMEO"].v \in Periods /\ d.send = InMs(a["SO_SNDTIMEO"].v)
    /\ a["IP_TTL"].is => a["IP_TTL"].v \in Ints /\ g.ttl = a["IP_TTL"].v % Octet
    /\ a["IP_TOS"].is => a["IP_TOS"].v \in Ints /\ g.tos = a["IP_TOS"].v % Octet
    /\ a["group"].is => g.mode = d.type /\ g.multi

\* The inductive invariant.
OptInv ==
    /\ desc \in [Fds -> Descs] /\ chipreg \in [Fds -> Regs] /\ asked \in [Fds -> AskedOptions]
    /\ \A s \in Fds : Agrees(desc[s], chipreg[s], asked[s])
    /\ OptionReadsBack

\* A call that changes one descriptor, and reports nothing.
LEMMA OptStep ==
    ASSUME OptInv, NEW s \in Fds, NEW d \in Descs, NEW g \in Regs, NEW a \in AskedOptions,
           desc' = [desc EXCEPT ![s] = d], chipreg' = [chipreg EXCEPT ![s] = g],
           asked' = [asked EXCEPT ![s] = a], Agrees(d, g, a), "opt" \notin DOMAIN reply'
    PROVE  OptInv'
<1> USE DEF OptInv
<1>1. /\ desc' \in [Fds -> Descs] /\ chipreg' \in [Fds -> Regs] /\ asked' \in [Fds -> AskedOptions]
      /\ desc'[s] = d /\ chipreg'[s] = g /\ asked'[s] = a
      /\ \A t \in Fds \ {s} : desc'[t] = desc[t] /\ chipreg'[t] = chipreg[t] /\ asked'[t] = asked[t]
  OBVIOUS
<1>2. ASSUME NEW t \in Fds PROVE Agrees(desc[t], chipreg[t], asked[t])'
  <2>1. CASE t = s BY <1>1, <2>1 DEF Agrees, InMs
  <2>2. CASE t # s BY <1>1, <2>2 DEF Agrees, InMs
  <2> QED BY <2>1, <2>2
<1>3. OptionReadsBack' BY DEF OptionReadsBack, SetTo
<1> QED BY <1>1, <1>2, <1>3

\* What is not changed is as if it were set to what it is.
LEMMA OptSame ==
    ASSUME OptInv, NEW s \in Fds
    PROVE  /\ desc[s] \in Descs /\ chipreg[s] \in Regs /\ asked[s] \in AskedOptions
           /\ desc = [desc EXCEPT ![s] = desc[s]]
           /\ chipreg = [chipreg EXCEPT ![s] = chipreg[s]]
           /\ asked = [asked EXCEPT ![s] = asked[s]]
           /\ Agrees(desc[s], chipreg[s], asked[s])
           /\ "opt" \notin DOMAIN Done /\ "opt" \notin DOMAIN Failed
  BY DEF OptInv, Done, Failed

\* A timeout that is set is a number of milliseconds, and what is reported of it
\* is the time without what is less than a millisecond.
LEMMA TimeIsReported ==
    ASSUME NEW t \in Periods
    PROVE  /\ InMs(t) \in Nat
           /\ ~TooLong(t) => InTimeval(InMs(t)) = InWholeMs(t)
<1> USE OptionsAssumption
<1>1. t.sec \in Nat /\ t.usec \in Nat BY DEF Periods, Zero
<1> DEFINE q == t.usec \div UsPerMs
           n == t.sec * MsPerS + q
<1>2. q \in Nat /\ n \in Nat
  <2>1. q \in Nat /\ t.sec * MsPerS \in Nat BY <1>1
  <2> HIDE DEF q
  <2> QED BY <2>1
<1>3. InMs(t) = n % Word BY DEF InMs
<1>4. n % Word \in Nat
  <2> HIDE DEF n
  <2> QED BY <1>2
<1> SUFFICES ASSUME ~TooLong(t) PROVE InTimeval(InMs(t)) = InWholeMs(t)
  BY <1>3, <1>4
<1>5. n < Word BY <1>2 DEF TooLong
<1>6. InMs(t) = n
  <2> HIDE DEF n
  <2> QED BY <1>2, <1>3, <1>5
<1>7. q \div MsPerS \in Nat /\ q % MsPerS \in Nat /\ q % MsPerS < MsPerS
      /\ q = MsPerS * (q \div MsPerS) + (q % MsPerS)
  <2> HIDE DEF q
  <2> QED BY <1>2
<1>8. n = MsPerS * (t.sec + (q \div MsPerS)) + (q % MsPerS)
  <2> DEFINE a == q \div MsPerS
             b == q % MsPerS
  <2>1. q = MsPerS * a + b /\ a \in Nat /\ b \in Nat BY <1>7
  <2> HIDE DEF q, a, b
  <2>2. MsPerS * (t.sec + a) = t.sec * MsPerS + MsPerS * a
    <3>1. t.sec \in Nat /\ a \in Nat /\ MsPerS \in Nat BY <1>1, <2>1
    <3>2. \A x, y, z \in Nat : x * (y + z) = y * x + x * z OBVIOUS
    <3> QED BY <3>1, <3>2
  <2>3. MsPerS * a \in Nat /\ t.sec * MsPerS \in Nat BY <1>1, <2>1
  <2>4. n = t.sec * MsPerS + MsPerS * a + b
    <3>1. n = t.sec * MsPerS + q OBVIOUS
    <3> HIDE DEF n
    <3> QED BY <2>1, <2>3, <3>1
  <2> HIDE DEF n
  <2>5. n = MsPerS * (t.sec + a) + b BY <2>2, <2>4
  <2> QED BY <2>5 DEF a, b
<1>9. n \div MsPerS = t.sec + (q \div MsPerS) /\ n % MsPerS = q % MsPerS
  <2> HIDE DEF q, n
  <2> DEFINE a == t.sec + (q \div MsPerS)
             b == q % MsPerS
  <2>1. a \in Nat /\ b \in Nat /\ b < MsPerS /\ n = MsPerS * a + b BY <1>1, <1>7, <1>8
  <2> HIDE DEF a, b
  <2>2. n \div MsPerS = a /\ n % MsPerS = b BY <1>2, <2>1, OneQuotient
  <2> QED BY <2>2 DEF a, b
<1>10. /\ t.usec \div (MsPerS * UsPerMs) = q \div MsPerS
       /\ (t.usec % (MsPerS * UsPerMs)) \div UsPerMs = q % MsPerS
  BY <1>1, TwoQuotients
<1> HIDE DEF q, n
<1> QED BY <1>6, <1>9, <1>10 DEF InTimeval, InWholeMs

\* What the owner of a descriptor may have set.
LEMMA AskedMore ==
    ASSUME NEW a \in AskedOptions
    PROVE  /\ \A t \in Periods : /\ [a EXCEPT !["SO_RCVTIMEO"] = Value(t)] \in AskedOptions
                               /\ [a EXCEPT !["SO_SNDTIMEO"] = Value(t)] \in AskedOptions
           /\ \A v \in Ints : /\ [a EXCEPT !["IP_TTL"] = Value(v)] \in AskedOptions
                              /\ [a EXCEPT !["IP_TOS"] = Value(v)] \in AskedOptions
           /\ [a EXCEPT !["group"] = Unset] \in AskedOptions
           /\ [a EXCEPT !["group"] = Value(TRUE)] \in AskedOptions
           /\ NoneAsked \in AskedOptions
  BY DEF AskedOptions, Opts, Answers, NoneAsked

\* Two registers of one socket written at once.
LEMMA TwoRegisters ==
    ASSUME OptInv, NEW s \in Fds, NEW mode \in {"closed", "TCP", "UDP"}, NEW multi \in BOOLEAN
    PROVE  /\ [chipreg[s] EXCEPT !.mode = mode, !.multi = multi] \in Regs
           /\ [chipreg EXCEPT ![s].mode = mode, ![s].multi = multi]
                = [chipreg EXCEPT ![s] = [chipreg[s] EXCEPT !.mode = mode, !.multi = multi]]
<1>1. chipreg \in [Fds -> Regs] BY DEF OptInv
<1> DEFINE g == [chipreg[s] EXCEPT !.mode = mode, !.multi = multi]
           v == [chipreg EXCEPT ![s].mode = mode, ![s].multi = multi]
           w == [chipreg EXCEPT ![s] = g]
<1>2. g \in Regs BY <1>1 DEF Regs
<1>3. DOMAIN v = Fds /\ DOMAIN w = Fds BY <1>1
<1>4. \A t \in Fds \ {s} : v[t] = w[t] BY <1>1
<1>5. w[s] = g /\ v[s] = g BY <1>1
<1> QED BY <1>2, <1>3, <1>4, <1>5

\* The life of a descriptor.
LEMMA DescriptorKeepsOptions ==
    ASSUME OptInv, NEW s \in Fds, Socket(s) \/ Serve(s) \/ BindAnew(s) \/ CloseDesc(s)
    PROVE  OptInv'
<1>0. /\ desc[s] \in Descs /\ chipreg[s] \in Regs /\ asked[s] \in AskedOptions
      /\ Agrees(desc[s], chipreg[s], asked[s])
      /\ "opt" \notin DOMAIN Done
  BY OptSame
<1>1. CASE Socket(s)
  <2>1. PICK type \in {"TCP", "UDP"} :
          /\ desc' = [desc EXCEPT ![s] = Created(s, type)]
          /\ chipreg' = [chipreg EXCEPT ![s].mode = type, ![s].multi = FALSE]
    BY <1>1 DEF Socket
  <2> DEFINE d == Created(s, type)
             g == [chipreg[s] EXCEPT !.mode = type, !.multi = FALSE]
             a == [NoneAsked EXCEPT !["SO_RCVTIMEO"] = Value(Zero), !["SO_SNDTIMEO"] = Value(Zero)]
  <2>2. d \in Descs BY <1>0 DEF Created, Descs
  <2>3. g \in Regs /\ chipreg' = [chipreg EXCEPT ![s] = g] BY <2>1, TwoRegisters
  <2>4. a \in AskedOptions
    <3>1. NoneAsked \in AskedOptions /\ Zero \in Periods BY AskedMore DEF Periods, NoneAsked, AskedOptions, Opts, Answers
    <3> QED BY <3>1, AskedMore
  <2>5. /\ a["SO_RCVTIMEO"].v = Zero /\ a["SO_SNDTIMEO"].v = Zero
        /\ ~a["IP_TTL"].is /\ ~a["IP_TOS"].is /\ ~a["group"].is
    BY DEF NoneAsked, Value, Unset
  <2>6. d.recv = 0 /\ d.send = 0 BY <1>0 DEF Created, Descs
  <2>7. InMs(Zero) = 0 BY OptionsAssumption DEF InMs, Zero
  <2>8. Agrees(d, g, a) BY <2>5, <2>6, <2>7 DEF Agrees, Periods
  <2>9. asked' = [asked EXCEPT ![s] = a] /\ reply' = Done BY <1>1 DEF Socket
  <2> HIDE DEF d, g, a
  <2>10. desc' = [desc EXCEPT ![s] = d] BY <2>1 DEF d
  <2> QED BY <1>0, <2>2, <2>3, <2>4, <2>8, <2>9, <2>10, OptStep
<1>2. CASE Serve(s)
  <2> DEFINE d == [desc[s] EXCEPT !.listens = TRUE]
  <2>1. d \in Descs /\ d.type = desc[s].type /\ d.recv = desc[s].recv /\ d.send = desc[s].send
    BY <1>0 DEF Descs
  <2>2. desc' = [desc EXCEPT ![s] = d] /\ reply' = Done /\ UNCHANGED <<chipreg, asked>>
    BY <1>2 DEF Serve
  <2> HIDE DEF d
  <2>3. Agrees(d, chipreg[s], asked[s]) BY <1>0, <2>1 DEF Agrees
  <2> QED BY <1>0, <2>1, <2>2, <2>3, OptSame, OptStep
<1>3. CASE BindAnew(s)
  <2> DEFINE g == [chipreg[s] EXCEPT !.mode = desc[s].type, !.multi = FALSE]
             a == [asked[s] EXCEPT !["group"] = Unset]
  <2>1. desc[s].type \in {"closed", "TCP", "UDP"} BY <1>0, <1>3 DEF BindAnew, Live, Descs
  <2>2. g \in Regs /\ chipreg' = [chipreg EXCEPT ![s] = g] BY <1>3, <2>1, TwoRegisters DEF BindAnew
  <2>3. a \in AskedOptions /\ asked' = [asked EXCEPT ![s] = a] BY <1>0, <1>3, AskedMore DEF BindAnew
  <2>4. Agrees(desc[s], g, a)
    <3>1. g.ttl = chipreg[s].ttl /\ g.tos = chipreg[s].tos BY <1>0 DEF Regs
    <3>2. ~a["group"].is /\ \A o \in Opts \ {"group"} : a[o] = asked[s][o] BY <1>0 DEF AskedOptions, Opts, Unset
    <3> HIDE DEF g, a
    <3> QED BY <1>0, <3>1, <3>2 DEF Agrees, Opts
  <2> HIDE DEF g, a
  <2>5. desc' = desc /\ reply' = Done BY <1>3 DEF BindAnew
  <2> QED BY <1>0, <2>2, <2>3, <2>4, <2>5, OptSame, OptStep
<1>4. CASE CloseDesc(s)
  <2> DEFINE g == [chipreg[s] EXCEPT !.mode = "closed"]
  <2>1. g \in Regs BY <1>0 DEF Regs
  <2>2. FreeDesc \in Descs BY DEF FreeDesc, Descs
  <2>3. Agrees(FreeDesc, g, NoneAsked) BY DEF Agrees, FreeDesc, NoneAsked, Unset
  <2>4. /\ desc' = [desc EXCEPT ![s] = FreeDesc] /\ chipreg' = [chipreg EXCEPT ![s] = g]
        /\ asked' = [asked EXCEPT ![s] = NoneAsked] /\ reply' = Done
    BY <1>4 DEF CloseDesc
  <2> HIDE DEF g
  <2> QED BY <1>0, <2>1, <2>2, <2>3, <2>4, AskedMore, OptStep
<1> QED BY <1>1, <1>2, <1>3, <1>4

\* A call that fails, or asks nothing that is kept.
LEMMA NothingSet ==
    ASSUME OptInv, NEW s \in Fds, UNCHANGED <<desc, chipreg, asked>>, "opt" \notin DOMAIN reply'
    PROVE  OptInv'
  BY OptSame, OptStep

\* wiz_setsockopt of SOL_SOCKET.
LEMMA SolSocketKeepsOptions ==
    ASSUME OptInv, NEW s \in Fds, Live(s), NEW o, NEW fits \in BOOLEAN, SetSolSocket(s, o, fits)
    PROVE  OptInv'
<1>0. /\ desc[s] \in Descs /\ chipreg[s] \in Regs /\ asked[s] \in AskedOptions
      /\ Agrees(desc[s], chipreg[s], asked[s])
      /\ "opt" \notin DOMAIN Done /\ "opt" \notin DOMAIN Failed
  BY OptSame
<1>1. CASE /\ \E v \in Ints : desc' = [desc EXCEPT ![s].broadcast = (v = 1)]
           /\ reply' = Done /\ UNCHANGED <<chipreg, asked>>
  <2>1. PICK v \in Ints : desc' = [desc EXCEPT ![s].broadcast = (v = 1)] BY <1>1
  <2> DEFINE d == [desc[s] EXCEPT !.broadcast = (v = 1)]
  <2>2. \A b \in BOOLEAN : LET e == [desc[s] EXCEPT !.broadcast = b] IN
          e \in Descs /\ e.type = desc[s].type /\ e.recv = desc[s].recv /\ e.send = desc[s].send
    BY <1>0 DEF Descs
  <2>3. (v = 1) \in BOOLEAN OBVIOUS
  <2>4. d \in Descs /\ d.type = desc[s].type /\ d.recv = desc[s].recv /\ d.send = desc[s].send
    BY <2>2, <2>3
  <2>5. desc' = [desc EXCEPT ![s] = d] BY <2>1
  <2> HIDE DEF d
  <2>6. Agrees(d, chipreg[s], asked[s]) BY <1>0, <2>4 DEF Agrees
  <2> QED BY <1>0, <1>1, <2>4, <2>5, <2>6, OptSame, OptStep
<1>2. CASE /\ chipreg' = [chipreg EXCEPT ![s].keep = KeepAlive % Octet] /\ reply' = Done
           /\ UNCHANGED <<desc, asked>>
  <2> DEFINE g == [chipreg[s] EXCEPT !.keep = KeepAlive % Octet]
  <2>1. KeepAlive % Octet \in Nat BY OptionsAssumption DEF KeepAlive
  <2>2. /\ g \in Regs /\ g.ttl = chipreg[s].ttl /\ g.tos = chipreg[s].tos
        /\ g.mode = chipreg[s].mode /\ (g.multi <=> chipreg[s].multi)
    BY <1>0, <2>1 DEF Regs
  <2>3. chipreg' = [chipreg EXCEPT ![s] = g] BY <1>2
  <2> HIDE DEF g
  <2>4. Agrees(desc[s], g, asked[s]) BY <1>0, <2>2 DEF Agrees
  <2>5. desc' = desc /\ asked' = asked /\ reply' = Done BY <1>2
  <2> QED BY <1>0, <2>2, <2>3, <2>4, <2>5, OptSame, OptStep
<1>3. CASE UNCHANGED <<desc, chipreg, asked>> /\ reply' \in {Done, Failed}
  BY <1>0, <1>3, NothingSet
<1>4. CASE /\ o \in {"SO_RCVTIMEO", "SO_SNDTIMEO"}
           /\ \E t \in Timevals :
                /\ desc' = IF o = "SO_RCVTIMEO" THEN [desc EXCEPT ![s].recv = InMs(t)]
                                                ELSE [desc EXCEPT ![s].send = InMs(t)]
                /\ Asks(s, o, t)
           /\ reply' = Done /\ UNCHANGED chipreg
  <2>1. PICK t \in Timevals :
          /\ desc' = IF o = "SO_RCVTIMEO" THEN [desc EXCEPT ![s].recv = InMs(t)]
                                          ELSE [desc EXCEPT ![s].send = InMs(t)]
          /\ Asks(s, o, t)
    BY <1>4
  <2>2. t \in Periods /\ InMs(t) \in Nat BY TimeIsReported DEF Periods
  <2> DEFINE a == [asked[s] EXCEPT ![o] = Value(t)]
  <2>3. a \in AskedOptions BY <1>0, <1>4, <2>2, AskedMore
  <2>4. asked' = [asked EXCEPT ![s] = a] BY <2>1 DEF Asks
  <2>5. a[o].v = t /\ \A p \in Opts \ {o} : a[p] = asked[s][p]
    BY <1>0, <1>4 DEF AskedOptions, Opts, Value
  <2> HIDE DEF a
  <2>6. CASE o = "SO_RCVTIMEO"
    <3> DEFINE d == [desc[s] EXCEPT !.recv = InMs(t)]
    <3>1. d \in Descs /\ d.type = desc[s].type /\ d.recv = InMs(t) /\ d.send = desc[s].send
      BY <1>0, <2>2 DEF Descs
    <3>2. desc' = [desc EXCEPT ![s] = d] BY <2>1, <2>6
    <3> HIDE DEF d
    <3>3. Agrees(d, chipreg[s], a) BY <1>0, <2>2, <2>5, <2>6, <3>1 DEF Agrees, Opts
    <3> QED BY <1>0, <1>4, <2>3, <2>4, <3>1, <3>2, <3>3, OptSame, OptStep
  <2>7. CASE o = "SO_SNDTIMEO"
    <3> DEFINE d == [desc[s] EXCEPT !.send = InMs(t)]
    <3>1. d \in Descs /\ d.type = desc[s].type /\ d.send = InMs(t) /\ d.recv = desc[s].recv
      BY <1>0, <2>2 DEF Descs
    <3>2. desc' = [desc EXCEPT ![s] = d] BY <2>1, <2>7
    <3> HIDE DEF d
    <3>3. Agrees(d, chipreg[s], a) BY <1>0, <2>2, <2>5, <2>7, <3>1 DEF Agrees, Opts
    <3> QED BY <1>0, <1>4, <2>3, <2>4, <3>1, <3>2, <3>3, OptSame, OptStep
  <2> QED BY <1>4, <2>6, <2>7
<1> QED BY <1>1, <1>2, <1>3, <1>4 DEF SetSolSocket

\* wiz_setsockopt of IPPROTO_IP.
LEMMA IpKeepsOptions ==
    ASSUME OptInv, NEW s \in Fds, Live(s), NEW o, NEW fits \in BOOLEAN, SetIp(s, o, fits)
    PROVE  OptInv'
<1>0. /\ desc[s] \in Descs /\ chipreg[s] \in Regs /\ asked[s] \in AskedOptions
      /\ Agrees(desc[s], chipreg[s], asked[s])
      /\ "opt" \notin DOMAIN Done /\ "opt" \notin DOMAIN Failed
      /\ desc[s].type \in {"closed", "TCP", "UDP"}
  BY OptSame DEF Descs, Live
<1>1. CASE /\ o \in {"IP_TTL", "IP_TOS"}
           /\ \E v \in Ints : SetRegister(s, o, v) /\ Asks(s, o, v)
           /\ reply' = Done /\ UNCHANGED desc
  <2>1. PICK v \in Ints : SetRegister(s, o, v) /\ Asks(s, o, v) BY <1>1
  <2>2. v \in Nat /\ v % Octet \in Nat BY OptionsAssumption
  <2> DEFINE a == [asked[s] EXCEPT ![o] = Value(v)]
             g == IF o = "IP_TTL" THEN [chipreg[s] EXCEPT !.ttl = v % Octet]
                                  ELSE [chipreg[s] EXCEPT !.tos = v % Octet]
  <2>3. a \in AskedOptions /\ asked' = [asked EXCEPT ![s] = a] BY <1>0, <1>1, <2>1, AskedMore DEF Asks
  <2>4. a[o].v = v /\ \A p \in Opts \ {o} : a[p] = asked[s][p]
    BY <1>0, <1>1 DEF AskedOptions, Opts, Value
  <2>5. /\ g \in Regs /\ g.mode = chipreg[s].mode /\ (g.multi <=> chipreg[s].multi)
        /\ g.ttl = (IF o = "IP_TTL" THEN v % Octet ELSE chipreg[s].ttl)
        /\ g.tos = (IF o = "IP_TTL" THEN chipreg[s].tos ELSE v % Octet)
    BY <1>0, <2>2 DEF Regs
  <2>6. chipreg' = [chipreg EXCEPT ![s] = g] BY <2>1 DEF SetRegister
  <2> HIDE DEF a, g
  <2>7. Agrees(desc[s], g, a) BY <1>0, <1>1, <2>1, <2>4, <2>5 DEF Agrees, Opts
  <2> QED BY <1>0, <1>1, <2>3, <2>5, <2>6, <2>7, OptSame, OptStep
\* The socket is opened anew, or that fails; the group is as asked then.
<1>2. ASSUME NEW g \in Regs, NEW a \in AskedOptions,
             chipreg' = [chipreg EXCEPT ![s] = g], asked' = [asked EXCEPT ![s] = a], UNCHANGED desc,
             reply' \in {Done, Failed}, g.ttl = chipreg[s].ttl, g.tos = chipreg[s].tos,
             \A p \in Opts \ {"group"} : a[p] = asked[s][p],
             a["group"].is => g.mode = desc[s].type /\ g.multi
      PROVE  OptInv'
  <2>1. Agrees(desc[s], g, a) BY <1>0, <1>2 DEF Agrees, Opts
  <2> QED BY <1>0, <1>2, <2>1, OptSame, OptStep
<1>3. /\ [asked[s] EXCEPT !["group"] = Unset] \in AskedOptions
      /\ [asked[s] EXCEPT !["group"] = Value(TRUE)] \in AskedOptions
      /\ \A x : \A p \in Opts \ {"group"} : [asked[s] EXCEPT !["group"] = x][p] = asked[s][p]
      /\ ~[asked[s] EXCEPT !["group"] = Unset]["group"].is
  BY <1>0, AskedMore DEF AskedOptions, Opts, Unset
<1>4. CASE chipreg' = [chipreg EXCEPT ![s].mode = "closed"] /\ asked' = [asked EXCEPT ![s]["group"] = Unset]
           /\ reply' = Failed /\ UNCHANGED desc
  <2> DEFINE g == [chipreg[s] EXCEPT !.mode = "closed"]
             a == [asked[s] EXCEPT !["group"] = Unset]
  <2>1. g \in Regs /\ g.ttl = chipreg[s].ttl /\ g.tos = chipreg[s].tos BY <1>0 DEF Regs
  <2>2. chipreg' = [chipreg EXCEPT ![s] = g] /\ asked' = [asked EXCEPT ![s] = a] BY <1>4
  <2>3. a \in AskedOptions /\ ~a["group"].is /\ \A p \in Opts \ {"group"} : a[p] = asked[s][p] BY <1>3
  <2> HIDE DEF g, a
  <2> QED BY <1>2, <1>4, <2>1, <2>2, <2>3
<1>5. CASE /\ chipreg' = [chipreg EXCEPT ![s].mode = desc[s].type, ![s].multi = FALSE]
           /\ asked' = [asked EXCEPT ![s]["group"] = Unset]
           /\ reply' = Done /\ UNCHANGED desc
  <2> DEFINE g == [chipreg[s] EXCEPT !.mode = desc[s].type, !.multi = FALSE]
             a == [asked[s] EXCEPT !["group"] = Unset]
  <2>1. g.ttl = chipreg[s].ttl /\ g.tos = chipreg[s].tos BY <1>0 DEF Regs
  <2>2. g \in Regs /\ chipreg' = [chipreg EXCEPT ![s] = g] BY <1>0, <1>5, TwoRegisters
  <2>3. asked' = [asked EXCEPT ![s] = a] BY <1>5
  <2>4. a \in AskedOptions /\ ~a["group"].is /\ \A p \in Opts \ {"group"} : a[p] = asked[s][p] BY <1>3
  <2> HIDE DEF g, a
  <2> QED BY <1>2, <1>5, <2>1, <2>2, <2>3, <2>4
<1>6. CASE /\ chipreg' = [chipreg EXCEPT ![s] = Joined(@, desc[s].type)]
           /\ Asks(s, "group", TRUE) /\ reply' = Done /\ UNCHANGED desc
  <2> DEFINE g == Joined(chipreg[s], desc[s].type)
             a == [asked[s] EXCEPT !["group"] = Value(TRUE)]
  <2>1. /\ g \in Regs /\ g.ttl = chipreg[s].ttl /\ g.tos = chipreg[s].tos
        /\ g.mode = desc[s].type /\ g.multi
    BY <1>0 DEF Regs, Joined
  <2>2. chipreg' = [chipreg EXCEPT ![s] = g] /\ asked' = [asked EXCEPT ![s] = a] BY <1>6 DEF Asks
  <2>3. a \in AskedOptions /\ \A p \in Opts \ {"group"} : a[p] = asked[s][p] BY <1>3
  <2> HIDE DEF g, a
  <2> QED BY <1>2, <1>6, <2>1, <2>2, <2>3
<1>7. CASE reply' = Failed /\ UNCHANGED <<desc, chipreg, asked>> BY <1>0, <1>7, NothingSet
<1> QED BY <1>1, <1>4, <1>5, <1>6, <1>7 DEF SetIp

\* The first byte of an int is the one that was written.
LEMMA ByteIsWritten ==
    ASSUME NEW n \in Nat, NEW v \in Nat
    PROVE  WithByte(n, v % Octet) % Octet = v % Octet
<1> USE OptionsAssumption
<1> DEFINE q == n \div Octet
           b == v % Octet
           m == WithByte(n, b)
<1>1. q \in Nat /\ b \in Nat /\ b < Octet OBVIOUS
<1> HIDE DEF q, b
<1>2. m = Octet * q + b
  <2>1. m = q * Octet + b BY DEF WithByte, q
  <2>2. q * Octet = Octet * q BY <1>1
  <2> QED BY <2>1, <2>2
<1>3. m \in Nat
  <2>1. Octet * q \in Nat BY <1>1
  <2> QED BY <1>1, <1>2, <2>1
<1> HIDE DEF m
<1>4. m % Octet = b BY <1>1, <1>2, <1>3, OneQuotient
<1> QED BY <1>4 DEF m, b

\* wiz_getsockopt reports what the owner of the descriptor has set.
LEMMA ReportIsAsked ==
    ASSUME OptInv, NEW s \in Fds, Live(s), GetSolSocket(s) \/ GetIp(s)
    PROVE  OptInv'
<1>0. /\ asked[s] \in AskedOptions /\ Agrees(desc[s], chipreg[s], asked[s]) /\ UNCHANGED <<desc, chipreg, asked>>
  BY OptSame DEF GetSolSocket, GetIp, Got, GotTime, Reports
<1>1. SUFFICES OptionReadsBack'
  <2>1. ASSUME NEW t \in Fds PROVE Agrees(desc[t], chipreg[t], asked[t])'
    BY <1>0 DEF OptInv, Agrees, InMs
  <2> QED BY <1>0, <2>1 DEF OptInv
<1>2. ASSUME NEW o \in {"SO_RCVTIMEO", "SO_SNDTIMEO"}, NEW ms,
             ms = InMs(asked[s][o].v), asked[s][o].v \in Periods,
             GotTime(s, o, InTimeval(ms))
      PROVE  OptionReadsBack'
  <2>1. reply' = [ret |-> 0, fd |-> s, opt |-> o, int |-> 0, time |-> InTimeval(ms)]
    BY <1>2 DEF GotTime, Reports
  <2>2. reply'.fd = s /\ reply'.opt = o /\ reply'.time = InTimeval(ms) BY <2>1
  <2>3. ~TooLong(asked[s][o].v) => reply'.time = InWholeMs(asked[s][o].v)
    BY <1>2, <2>2, TimeIsReported
  <2>4. reply'.opt \notin {"IP_TTL", "IP_TOS"} BY <1>2, <2>2
  <2> QED BY <1>0, <1>2, <2>2, <2>3, <2>4 DEF OptionReadsBack, SetTo, TooLong, InWholeMs
<1>3. CASE \/ GotTime(s, "SO_RCVTIMEO", InTimeval(desc[s].recv))
           \/ GotTime(s, "SO_SNDTIMEO", InTimeval(desc[s].send))
  BY <1>0, <1>2, <1>3 DEF Agrees, Live
<1>4. ASSUME NEW o \in {"SO_BROADCAST", "SO_ACCEPTCONN", "SO_TYPE"}, NEW n, Got(s, o, n)
      PROVE  OptionReadsBack'
  <2>1. reply' = [ret |-> 0, fd |-> s, opt |-> o, int |-> n, time |-> Zero] BY <1>4 DEF Got, Reports
  <2>2. reply'.opt = o BY <2>1
  <2>3. reply'.opt \notin {"SO_RCVTIMEO", "SO_SNDTIMEO", "IP_TTL", "IP_TOS"} BY <1>4, <2>2
  <2> QED BY <2>3 DEF OptionReadsBack, SetTo
<1>5. CASE GetIp(s)
  <2>1. PICK o \in {"IP_TTL", "IP_TOS"}, n \in Ints \cup {0} :
          Got(s, o, WithByte(n, GetRegister(s, o)))
    BY <1>5 DEF GetIp
  <2> DEFINE m == WithByte(n, GetRegister(s, o))
  <2>2. reply' = [ret |-> 0, fd |-> s, opt |-> o, int |-> m, time |-> Zero]
    BY <2>1 DEF Got, Reports
  <2> HIDE DEF m
  <2>3. reply'.fd = s /\ reply'.opt = o /\ reply'.int = m BY <2>2
  <2>4. ASSUME asked[s][o].is PROVE m % Octet = asked[s][o].v % Octet
    <3>1. GetRegister(s, o) = asked[s][o].v % Octet /\ asked[s][o].v \in Nat
      BY <1>0, <2>4, OptionsAssumption DEF Agrees, GetRegister
    <3>2. n \in Nat BY OptionsAssumption
    <3> QED BY <3>1, <3>2, ByteIsWritten DEF m
  <2>5. o \notin {"SO_RCVTIMEO", "SO_SNDTIMEO"} OBVIOUS
  <2> QED BY <1>0, <2>3, <2>4, <2>5 DEF OptionReadsBack, SetTo
<1> QED BY <1>3, <1>4, <1>5 DEF GetSolSocket

\* What the owner of a descriptor has set with wiz_setsockopt is what wiz_getsockopt
\* reports, and a group it has joined stays joined, whatever else is set, bound,
\* closed and opened in between, for all values of the options.
THEOREM OptionsAlwaysKept == OptSpec => []OptionsKept
<1>1. OptInv => OptionsKept
  BY DEF OptInv, OptionsKept, StaysInGroup, Agrees
<1>2. OptInit => OptInv
  <2> SUFFICES ASSUME OptInit PROVE OptInv
    OBVIOUS
  <2>1. FreeDesc \in Descs BY DEF FreeDesc, Descs
  <2>2. 128 % Octet \in Nat BY OptionsAssumption
  <2>3. [mode |-> "closed", multi |-> FALSE, ttl |-> 128 % Octet, tos |-> 0, keep |-> 0] \in Regs
    BY <2>2 DEF Regs
  <2>4. \A s \in Fds : Agrees(desc[s], chipreg[s], asked[s])
    BY DEF OptInit, Agrees, FreeDesc, NoneAsked, Unset
  <2>5. OptionReadsBack BY DEF OptInit, OptionReadsBack, SetTo, Done
  <2>6. /\ desc \in [Fds -> Descs] /\ chipreg \in [Fds -> Regs] /\ asked \in [Fds -> AskedOptions]
    <3>1. NoneAsked \in AskedOptions BY DEF NoneAsked, AskedOptions, Opts, Answers
    <3> QED BY <2>1, <2>3, <3>1 DEF OptInit
  <2> QED BY <2>4, <2>5, <2>6 DEF OptInv
<1>3. OptInv /\ [OptNext]_optVars => OptInv'
  <2> SUFFICES ASSUME OptInv, [OptNext]_optVars PROVE OptInv'
    OBVIOUS
  <2>1. CASE UNCHANGED optVars
    <3>1. UNCHANGED <<desc, chipreg, reply, asked>> BY <2>1 DEF optVars
    <3>2. OptionReadsBack' BY <3>1 DEF OptInv, OptionReadsBack, SetTo, TooLong, InWholeMs
    <3>3. ASSUME NEW t \in Fds PROVE Agrees(desc[t], chipreg[t], asked[t])'
      BY <3>1 DEF OptInv, Agrees, InMs
    <3> QED BY <3>1, <3>2, <3>3 DEF OptInv
  <2>2. ASSUME NEW s \in Fds, \/ Socket(s) \/ Serve(s) \/ BindAnew(s) \/ CloseDesc(s)
                              \/ wiz_setsockopt(s) \/ wiz_getsockopt(s)
        PROVE  OptInv'
    <3>1. CASE Socket(s) \/ Serve(s) \/ BindAnew(s) \/ CloseDesc(s)
      BY <3>1, DescriptorKeepsOptions
    <3>2. CASE Unsupported BY <3>2, NothingSet, OptSame DEF Unsupported
    <3>3. CASE wiz_setsockopt(s) /\ ~Unsupported
      BY <3>3, SolSocketKeepsOptions, IpKeepsOptions DEF wiz_setsockopt
    <3>4. CASE wiz_getsockopt(s) /\ ~Unsupported
      BY <3>4, ReportIsAsked DEF wiz_getsockopt
    <3> QED BY <2>2, <3>1, <3>2, <3>3, <3>4
  <2> QED BY <2>1, <2>2 DEF OptNext
<1> QED BY <1>1, <1>2, <1>3, PTL DEF OptSpec

(***************************************************************************)
(* The buffers in the chip                                                 *)
(***************************************************************************)

\* Remainders: of small numbers, of sums, and of remainders.
LEMMA SmallRemainder ==
    ASSUME NEW d \in Nat \ {0}, NEW x \in Nat
    PROVE  /\ x % d \in 0 .. d - 1
           /\ x < d => x % d = x
           /\ d <= x /\ x < 2 * d => x % d = x - d
<1>1. x < d => x % d = x
  <2> SUFFICES ASSUME x < d PROVE x % d = x
    OBVIOUS
  <2>1. x = d * 0 + x OBVIOUS
  <2> QED BY <2>1, OneQuotient
<1>2. d <= x /\ x < 2 * d => x % d = x - d
  <2> SUFFICES ASSUME d <= x, x < 2 * d PROVE x % d = x - d
    OBVIOUS
  <2>1. x = d * 1 + (x - d) /\ x - d \in Nat /\ x - d < d OBVIOUS
  <2> QED BY <2>1, OneQuotient
<1> QED BY <1>1, <1>2

LEMMA RemainderOfMore ==
    ASSUME NEW d \in Nat \ {0}, NEW x \in Nat, NEW z \in Nat
    PROVE  (x + d * z) % d = x % d
<1> DEFINE q == x \div d
           r == x % d
           n == x + d * z
           p == q + z
<1>1. q \in Nat /\ r \in Nat /\ r < d /\ x = d * q + r OBVIOUS
<1> HIDE DEF q, r
<1>2. p \in Nat /\ d * p = d * q + d * z BY <1>1
<1>3. n \in Nat /\ n = d * p + r
  <2>1. d * q \in Nat /\ d * z \in Nat BY <1>1
  <2> HIDE DEF p
  <2> QED BY <1>1, <1>2, <2>1
<1> HIDE DEF n, p
<1>4. n % d = r BY <1>1, <1>2, <1>3, OneQuotient
<1> QED BY <1>4 DEF n, r

LEMMA RemainderOfSum ==
    ASSUME NEW d \in Nat \ {0}, NEW x \in Nat, NEW y \in Nat
    PROVE  ((x % d) + y) % d = (x + y) % d
<1> DEFINE q == x \div d
           r == x % d
           n == r + y
<1>1. q \in Nat /\ r \in Nat /\ x = d * q + r OBVIOUS
<1> HIDE DEF q, r
<1>2. n \in Nat /\ x + y = n + d * q BY <1>1
<1> HIDE DEF n
<1>3. (n + d * q) % d = n % d BY <1>1, <1>2, RemainderOfMore
<1> QED BY <1>2, <1>3 DEF n, r

LEMMA RemainderOfRemainder ==
    ASSUME NEW d \in Nat \ {0}, NEW m \in Nat \ {0}, m % d = 0, NEW x \in Nat
    PROVE  (x % m) % d = x % d
<1> DEFINE q == x \div m
           r == x % m
           k == m \div d
<1>1. q \in Nat /\ r \in Nat /\ x = m * q + r OBVIOUS
<1>2. k \in Nat /\ m = d * k OBVIOUS
<1> HIDE DEF q, r, k
<1> DEFINE z == k * q
<1>3. z \in Nat /\ m * q = d * z BY <1>1, <1>2
<1> HIDE DEF z
<1>4. x = r + d * z
  <2>1. d * z \in Nat BY <1>3
  <2> QED BY <1>1, <1>3, <2>1
<1>5. (r + d * z) % d = r % d BY <1>1, <1>3, RemainderOfMore
<1> QED BY <1>4, <1>5 DEF r

\* The registers count modulo a multiple of the ring.
LEMMA SizesOfBuffer ==
    /\ Cap \in Nat \ {0} /\ Size16 \in Nat \ {0} /\ Cap < Size16 /\ Size16 % Cap = 0
    /\ Base \in Nat \ {0} /\ Chunks \subseteq Nat \ {0}
  BY BufferAssumption DEF Size16

PointerValues      == 0 .. Size16 - 1
SizeOf(f, d) == (f + Size16 - d) % Size16

\* Where byte k of the stream belongs in the ring m; it is there, as far as the
\* registers count.
Cell(m, k)  == m[k % Cap]
Holds(m, k) == Cell(m, k) = k % Size16

\* Positions are the same if the registers cannot tell them apart.
LEMMA SamePlace ==
    ASSUME NEW j \in Nat, NEW k \in Nat, j % Size16 = k % Size16
    PROVE  /\ j % Cap = k % Cap
           /\ \A m : Holds(m, j) <=> Holds(m, k)
           /\ Byte(j) = Byte(k)
<1>1. (j % Size16) % Cap = j % Cap /\ (k % Size16) % Cap = k % Cap
  <2>1. Cap \in Nat \ {0} /\ Size16 \in Nat \ {0} /\ Size16 % Cap = 0 BY SizesOfBuffer
  <2>2. \A x \in Nat : (x % Size16) % Cap = x % Cap BY <2>1, RemainderOfRemainder
  <2> QED BY <2>2
<1> QED BY <1>1 DEF Holds, Cell, Byte

\* A number below 2 * M.
LEMMA BelowTwice ==
    ASSUME NEW M \in Nat \ {0}, NEW x \in Nat, x < 2 * M, NEW y, y = x % M
    PROVE  y \in 0 .. M - 1 /\ y = IF x < M THEN x ELSE x - M
<1>1. x % M \in 0 .. M - 1 BY SmallRemainder
<1>2. x < M => x % M = x BY SmallRemainder
<1>3. M <= x => x % M = x - M BY SmallRemainder
<1> QED BY <1>1, <1>2, <1>3

\* Two ends of a part of the buffer, f that is s past d, modulo M.
LEMMA FarIsPast ==
    ASSUME NEW M \in Nat \ {0}, NEW f \in 0 .. M - 1, NEW d \in 0 .. M - 1
    PROVE  /\ (f + M - d) % M \in 0 .. M - 1
           /\ (f + M - d) % M = (IF d <= f THEN f - d ELSE f + M - d)
           /\ f = (d + ((f + M - d) % M)) % M
<1> DEFINE s == (f + M - d) % M
<1> DEFINE x == f + M - d
<1>1. x \in Nat /\ x < 2 * M OBVIOUS
<1>2. s \in 0 .. M - 1 /\ s = IF x < M THEN x ELSE x - M
  <2>1. s = x % M OBVIOUS
  <2> HIDE DEF x, s
  <2> QED BY <1>1, <2>1, BelowTwice
<1> HIDE DEF s
<1>3. s = (IF d <= f THEN f - d ELSE f + M - d) BY <1>2
<1> DEFINE y == d + s
           z == y % M
<1>4. y \in Nat /\ y < 2 * M BY <1>2
<1>5. z = IF y < M THEN y ELSE y - M
  <2> HIDE DEF y
  <2> QED BY <1>4, BelowTwice
<1> HIDE DEF z
<1>6. z = f BY <1>2, <1>3, <1>5
<1> QED BY <1>2, <1>3, <1>6 DEF z, s

LEMMA FarMoves ==
    ASSUME NEW M \in Nat \ {0}, NEW f \in 0 .. M - 1, NEW d \in 0 .. M - 1,
           NEW n \in Nat, ((f + M - d) % M) + n < M
    PROVE  /\ (f + n) % M \in 0 .. M - 1
           /\ (((f + n) % M) + M - d) % M = ((f + M - d) % M) + n
<1> DEFINE s == (f + M - d) % M
           g == (f + n) % M
<1>0. s + n < M /\ g = (f + n) % M OBVIOUS
<1>1. s \in 0 .. M - 1 /\ s = (IF d <= f THEN f - d ELSE f + M - d)
  BY FarIsPast
<1> HIDE DEF s
<1> DEFINE x == f + n
<1>2. x \in Nat /\ x < 2 * M BY <1>0, <1>1
<1>3. g \in 0 .. M - 1 /\ g = IF x < M THEN x ELSE x - M
  <2>1. g = x % M OBVIOUS
  <2> HIDE DEF x, g
  <2> QED BY <1>2, <2>1, BelowTwice
<1> HIDE DEF g
<1> DEFINE y == g + M - d
           z == y % M
<1>4. y \in Nat /\ y < 2 * M BY <1>3
<1>5. z = IF y < M THEN y ELSE y - M
  <2> HIDE DEF y
  <2> QED BY <1>4, BelowTwice
<1> HIDE DEF z
<1>6. z = s + n BY <1>0, <1>1, <1>3, <1>5
<1> QED BY <1>3, <1>6 DEF z, g, s

LEMMA NearMoves ==
    ASSUME NEW M \in Nat \ {0}, NEW f \in 0 .. M - 1, NEW d \in 0 .. M - 1,
           NEW n \in Nat, n <= (f + M - d) % M
    PROVE  /\ (d + n) % M \in 0 .. M - 1
           /\ (f + M - ((d + n) % M)) % M = ((f + M - d) % M) - n
           /\ (((d + n) % M) + M - d) % M = n
           /\ (((d + n) % M) + M - n) % M = d
<1> DEFINE s == (f + M - d) % M
           e == (d + n) % M
<1>0. n <= s OBVIOUS
<1>1. s \in 0 .. M - 1 /\ s = (IF d <= f THEN f - d ELSE f + M - d)
  BY FarIsPast
<1> HIDE DEF s
<1> DEFINE x == d + n
<1>2. x \in Nat /\ x < 2 * M BY <1>0, <1>1
<1>3. e \in 0 .. M - 1 /\ e = IF x < M THEN x ELSE x - M
  <2>1. e = x % M OBVIOUS
  <2> HIDE DEF x, e
  <2> QED BY <1>2, <2>1, BelowTwice
<1> HIDE DEF e
<1>4. ASSUME NEW y \in Nat, y < 2 * M PROVE y % M = IF y < M THEN y ELSE y - M
  BY <1>4, BelowTwice
<1>5. (f + M - e) % M = s - n
  <2> DEFINE y == f + M - e
             z == y % M
  <2>1. y \in Nat /\ y < 2 * M BY <1>3
  <2>2. z = IF y < M THEN y ELSE y - M
    <3> HIDE DEF y
    <3> QED BY <1>4, <2>1
  <2> HIDE DEF z
  <2>3. z = s - n BY <1>0, <1>1, <1>3, <2>2
  <2> QED BY <2>3 DEF z
<1>6. (e + M - d) % M = n
  <2> DEFINE y == e + M - d
             z == y % M
  <2>1. y \in Nat /\ y < 2 * M BY <1>3
  <2>2. z = IF y < M THEN y ELSE y - M
    <3> HIDE DEF y
    <3> QED BY <1>4, <2>1
  <2> HIDE DEF z
  <2>3. z = n BY <1>0, <1>1, <1>3, <2>2
  <2> QED BY <2>3 DEF z
<1>7. (e + M - n) % M = d
  <2> DEFINE y == e + M - n
             z == y % M
  <2>1. y \in Nat /\ y < 2 * M BY <1>0, <1>1, <1>3
  <2>2. z = IF y < M THEN y ELSE y - M
    <3> HIDE DEF y
    <3> QED BY <1>4, <2>1
  <2> HIDE DEF z
  <2>3. z = d BY <1>0, <1>1, <1>3, <2>2
  <2> QED BY <2>3 DEF z
<1> QED BY <1>3, <1>5, <1>6, <1>7 DEF s, e

\* The cell j cells past p in the ring.
LEMMA CellOf ==
    ASSUME NEW p \in Nat, NEW j \in 0 .. Cap - 1, NEW c, c = (p + j) % Cap
    PROVE  c \in 0 .. Cap - 1 /\ (c + Cap - (p % Cap)) % Cap = j
<1> DEFINE a == p % Cap
<1>0. Cap \in Nat \ {0} BY SizesOfBuffer
<1>1. a \in 0 .. Cap - 1 BY <1>0, SmallRemainder
<1>2. c = (a + j) % Cap BY <1>0, RemainderOfSum
<1> HIDE DEF a
<1> DEFINE x == a + j
<1>3. x \in Nat /\ x < 2 * Cap BY <1>0, <1>1
<1>4. c \in 0 .. Cap - 1 /\ c = IF x < Cap THEN x ELSE x - Cap
  <2>1. c = x % Cap BY <1>2
  <2> HIDE DEF x
  <2> QED BY <1>0, <1>3, <2>1, BelowTwice
<1> DEFINE y == c + Cap - a
           z == y % Cap
<1>5. y \in Nat /\ y < 2 * Cap BY <1>0, <1>1, <1>4
<1>6. z = IF y < Cap THEN y ELSE y - Cap
  <2> HIDE DEF y
  <2> QED BY <1>0, <1>5, BelowTwice
<1> HIDE DEF z
<1>7. z = j BY <1>0, <1>1, <1>4, <1>6
<1> QED BY <1>4, <1>7 DEF z, a

\* The ring m with n bytes of the stream written from position p on.
Overwritten(m, p, n) ==
    [c \in 0 .. Cap - 1 |->
       LET i == (c + Cap - (p % Cap)) % Cap IN IF i < n THEN Byte(p + i) ELSE m[c]]

\* The bytes are there, and the other cells of the ring are as they were.
LEMMA RingWritten ==
    ASSUME NEW p \in Nat, NEW n \in Nat, NEW m, NEW j \in 0 .. Cap - 1
    PROVE  /\ (p + j) % Cap \in 0 .. Cap - 1
           /\ j < n => Holds(Overwritten(m, p, n), p + j)
           /\ j >= n => Cell(Overwritten(m, p, n), p + j) = Cell(m, p + j)
<1> DEFINE w == Overwritten(m, p, n)
<1> DEFINE c == (p + j) % Cap
           i == (c + Cap - (p % Cap)) % Cap
<1>1. c \in 0 .. Cap - 1 /\ i = j BY CellOf
<1>2. w[c] = IF i < n THEN Byte(p + i) ELSE m[c]
  <2> HIDE DEF c
  <2> QED BY <1>1 DEF Overwritten
<1> HIDE DEF w
<1> HIDE DEF i
<1>3. w[c] = IF j < n THEN Byte(p + j) ELSE m[c] BY <1>1, <1>2
<1>4. Holds(w, p + j) <=> w[c] = Byte(p + j) BY DEF Holds, Byte, Cell
<1> HIDE DEF c
<1>5. (j < n => w[c] = Byte(p + j)) /\ (j >= n => w[c] = m[c]) BY <1>3
<1>6. Cell(w, p + j) = w[c] /\ Cell(m, p + j) = m[c] BY DEF Cell, c
<1> QED BY <1>1, <1>4, <1>5, <1>6 DEF c, w

LEMMA SizeMoves ==
    ASSUME NEW f \in PointerValues, NEW d \in PointerValues
    PROVE  /\ SizeOf(f, d) \in PointerValues
           /\ \A i \in Nat : (f + i) % Size16 = (d + SizeOf(f, d) + i) % Size16
           /\ \A n \in Nat : SizeOf(f, d) + n < Size16 =>
                /\ (f + n) % Size16 \in PointerValues
                /\ SizeOf((f + n) % Size16, d) = SizeOf(f, d) + n
           /\ \A n \in Nat : n <= SizeOf(f, d) =>
                /\ (d + n) % Size16 \in PointerValues
                /\ SizeOf(f, (d + n) % Size16) = SizeOf(f, d) - n
                /\ SizeOf((d + n) % Size16, d) = n
                /\ (((d + n) % Size16) + Size16 - n) % Size16 = d
<1>0. Size16 \in Nat \ {0} /\ f \in 0 .. Size16 - 1 /\ d \in 0 .. Size16 - 1
  BY SizesOfBuffer DEF PointerValues
<1> DEFINE s == (f + Size16 - d) % Size16
<1>1. s \in 0 .. Size16 - 1 /\ f = (d + s) % Size16 BY <1>0, FarIsPast
<1>2. ASSUME NEW i \in Nat PROVE (f + i) % Size16 = (d + s + i) % Size16
  <2> DEFINE x == d + s
  <2>1. x \in Nat /\ f = x % Size16 BY <1>0, <1>1
  <2> HIDE DEF x
  <2>2. ((x % Size16) + i) % Size16 = (x + i) % Size16 BY <1>0, <2>1, RemainderOfSum
  <2> QED BY <2>1, <2>2 DEF x
<1>3. ASSUME NEW n \in Nat, s + n < Size16
      PROVE  (f + n) % Size16 \in 0 .. Size16 - 1 /\ (((f + n) % Size16) + Size16 - d) % Size16 = s + n
  BY <1>0, <1>3, FarMoves
<1>4. ASSUME NEW n \in Nat, n <= s
      PROVE  /\ (d + n) % Size16 \in 0 .. Size16 - 1
             /\ (f + Size16 - ((d + n) % Size16)) % Size16 = s - n
             /\ (((d + n) % Size16) + Size16 - d) % Size16 = n
             /\ (((d + n) % Size16) + Size16 - n) % Size16 = d
  BY <1>0, <1>4, NearMoves
<1>5. SizeOf(f, d) = s BY DEF SizeOf
<1>6. \A e : SizeOf(e, d) = (e + Size16 - d) % Size16 /\ SizeOf(f, e) = (f + Size16 - e) % Size16
  BY DEF SizeOf
<1> HIDE DEF s
<1>7. \A n \in Nat : s + n < Size16 =>
        (f + n) % Size16 \in PointerValues /\ SizeOf((f + n) % Size16, d) = s + n
  BY <1>3, <1>6 DEF PointerValues
<1>8. ASSUME NEW n \in Nat, n <= s
      PROVE  /\ (d + n) % Size16 \in PointerValues
             /\ SizeOf(f, (d + n) % Size16) = s - n
             /\ SizeOf((d + n) % Size16, d) = n
             /\ (((d + n) % Size16) + Size16 - n) % Size16 = d
  <2>1. /\ (d + n) % Size16 \in 0 .. Size16 - 1
        /\ (f + Size16 - ((d + n) % Size16)) % Size16 = s - n
        /\ (((d + n) % Size16) + Size16 - d) % Size16 = n
        /\ (((d + n) % Size16) + Size16 - n) % Size16 = d
    BY <1>4, <1>8
  <2> DEFINE e == (d + n) % Size16
  <2>2. /\ e \in 0 .. Size16 - 1 /\ (f + Size16 - e) % Size16 = s - n
        /\ (e + Size16 - d) % Size16 = n /\ (e + Size16 - n) % Size16 = d
    BY <2>1
  <2>3. SizeOf(e, d) = (e + Size16 - d) % Size16 /\ SizeOf(f, e) = (f + Size16 - e) % Size16
    BY <1>6
  <2> HIDE DEF e
  <2>4. e \in PointerValues /\ SizeOf(f, e) = s - n /\ SizeOf(e, d) = n /\ (e + Size16 - n) % Size16 = d
    BY <2>2, <2>3 DEF PointerValues
  <2> QED BY <2>4 DEF e
<1>9. s \in PointerValues /\ \A i \in Nat : (f + i) % Size16 = (d + s + i) % Size16
  BY <1>1, <1>2 DEF PointerValues
<1> QED BY <1>5, <1>7, <1>8, <1>9

\* The cells counted from one end of what is in the ring and from the other.
LEMMA FarCells ==
    ASSUME NEW f \in PointerValues, NEW d \in PointerValues, SizeOf(f, d) <= Cap, NEW i \in Nat
    PROVE  /\ (f + (Cap - SizeOf(f, d) + i)) % Cap = (d + i) % Cap
           /\ (f + Size16 - Cap + i) % Cap = (d + (SizeOf(f, d) + i)) % Cap
           /\ (f + Size16 - Cap + (Cap - SizeOf(f, d) + i)) % Size16 = (d + i) % Size16
<1>0. Cap \in Nat \ {0} /\ Size16 \in Nat \ {0} /\ Cap < Size16 /\ f \in Nat /\ d \in Nat
  BY SizesOfBuffer DEF PointerValues
<1> DEFINE s == SizeOf(f, d)
<1>1. s \in Nat /\ s <= Cap /\ \A x \in Nat : (f + x) % Size16 = (d + s + x) % Size16
  BY SizeMoves, <1>0 DEF PointerValues
<1> HIDE DEF s
<1>2. ASSUME NEW x \in Nat PROVE (f + x) % Cap = (d + s + x) % Cap
  <2>1. f + x \in Nat /\ d + s + x \in Nat /\ (f + x) % Size16 = (d + s + x) % Size16 BY <1>0, <1>1
  <2> DEFINE j == f + x
             k == d + s + x
  <2> HIDE DEF j, k
  <2>2. j % Cap = k % Cap BY <2>1, SamePlace DEF j, k
  <2> QED BY <2>2 DEF j, k
<1>3. (f + (Cap - s + i)) % Cap = (d + i) % Cap
  <2> DEFINE x == Cap - s + i
             y == d + i
  <2>1. x \in Nat /\ y \in Nat /\ d + s + x = y + Cap * 1 BY <1>0, <1>1
  <2> HIDE DEF x, y
  <2>2. (f + x) % Cap = (y + Cap * 1) % Cap BY <1>2, <2>1
  <2>3. (y + Cap * 1) % Cap = y % Cap BY <1>0, <2>1, RemainderOfMore
  <2> QED BY <2>2, <2>3 DEF x, y
<1>4. (f + Size16 - Cap + i) % Cap = (d + (s + i)) % Cap
  <2> DEFINE q == Size16 \div Cap
             z == q - 1
             y == f + i
  <2>1. q \in Nat /\ q >= 1 /\ Size16 = Cap * q
    <3>1. Size16 = Cap * q + (Size16 % Cap) /\ q \in Nat BY <1>0
    <3>2. Size16 = Cap * q BY <1>0, <3>1, SizesOfBuffer
    <3> QED BY <1>0, <3>1, <3>2
  <2>2. z \in Nat /\ Cap * z = Size16 - Cap
    <3> HIDE DEF q
    <3> QED BY <1>0, <2>1
  <2> HIDE DEF q, z
  <2>3. y \in Nat /\ f + Size16 - Cap + i = y + Cap * z
    <3> DEFINE p == Cap * z
    <3>1. p = Size16 - Cap BY <2>2
    <3> HIDE DEF p
    <3>2. y \in Nat /\ f + Size16 - Cap + i = y + p BY <1>0, <3>1
    <3> QED BY <3>2 DEF p
  <2> HIDE DEF y
  <2>4. (y + Cap * z) % Cap = y % Cap BY <1>0, <2>2, <2>3, RemainderOfMore
  <2>5. y % Cap = (d + s + i) % Cap BY <1>2 DEF y
  <2>6. d + s + i = d + (s + i) BY <1>0, <1>1
  <2> QED BY <2>3, <2>4, <2>5, <2>6
<1>5. (f + Size16 - Cap + (Cap - s + i)) % Size16 = (d + i) % Size16
  <2> DEFINE x == Size16 - s + i
             y == d + i
  <2>1. x \in Nat /\ y \in Nat /\ f + Size16 - Cap + (Cap - s + i) = f + x /\ d + s + x = y + Size16 * 1
    BY <1>0, <1>1
  <2> HIDE DEF x, y
  <2>2. (f + x) % Size16 = (y + Size16 * 1) % Size16 BY <1>1, <2>1
  <2>3. (y + Size16 * 1) % Size16 = y % Size16 BY <1>0, <2>1, RemainderOfMore
  <2> QED BY <2>1, <2>2, <2>3 DEF y
<1> QED BY <1>3, <1>4, <1>5 DEF s

LEMMA FarCellsMove ==
    ASSUME NEW f \in PointerValues, NEW n \in Nat, NEW i \in Nat
    PROVE  (((f + n) % Size16) + Size16 - Cap + i) % Size16 = (f + Size16 - Cap + (n + i)) % Size16
<1>0. Cap \in Nat \ {0} /\ Size16 \in Nat \ {0} /\ Cap < Size16 /\ f \in Nat
  BY SizesOfBuffer DEF PointerValues
<1> DEFINE a == f + n
           b == Size16 - Cap + i
           g == a % Size16
<1>1. a \in Nat /\ b \in Nat BY <1>0
<1>2. g \in Nat
  <2> HIDE DEF a
  <2> QED BY <1>0, <1>1, SmallRemainder
<1> HIDE DEF a, b
<1>3. (g + b) % Size16 = (a + b) % Size16 BY <1>0, <1>1, RemainderOfSum
<1> HIDE DEF g
<1>4. g + b = g + Size16 - Cap + i /\ a + b = f + Size16 - Cap + (n + i)
  BY <1>0, <1>1, <1>2 DEF a, b
<1> QED BY <1>3, <1>4 DEF g, a

\* Bytes that arrive follow on those in the ring.
LEMMA RingFilled ==
    ASSUME NEW f \in PointerValues, NEW d \in PointerValues, NEW n \in Nat, SizeOf(f, d) + n <= Cap, NEW m,
           \A i \in 0 .. SizeOf(f, d) - 1 : Holds(m, d + i),
           NEW i \in 0 .. SizeOf(f, d) + n - 1
    PROVE  Holds(Overwritten(m, f, n), d + i)
<1>0. Cap \in Nat \ {0} /\ f \in Nat /\ d \in Nat BY SizesOfBuffer DEF PointerValues
<1> DEFINE s == SizeOf(f, d)
           w == Overwritten(m, f, n)
<1>1. s \in Nat /\ s + n <= Cap /\ i \in 0 .. s + n - 1 /\ s <= Cap
  <2>1. s \in Nat BY SizeMoves, SizesOfBuffer DEF PointerValues
  <2>2. s + n <= Cap /\ i \in 0 .. s + n - 1 OBVIOUS
  <2> HIDE DEF s
  <2> QED BY <1>0, <2>1, <2>2
<1>2. CASE i < s
  <2> DEFINE j == Cap - s + i
  <2>1. j \in 0 .. Cap - 1 /\ j >= n /\ i \in 0 .. s - 1
    <3> HIDE DEF s
    <3> QED BY <1>0, <1>1, <1>2
  <2>2. (f + j) % Cap = (d + i) % Cap BY <1>1, FarCells
  <2>3. Cell(w, f + j) = Cell(m, f + j)
    <3> HIDE DEF j
    <3>1. f \in Nat /\ n \in Nat /\ j \in 0 .. Cap - 1 BY <1>0, <2>1
    <3>2. j >= n => Cell(Overwritten(m, f, n), f + j) = Cell(m, f + j) BY <3>1, RingWritten, SMTT(30)
    <3> QED BY <2>1, <3>2
  <2>4. Holds(m, d + i) BY <2>1
  <2> HIDE DEF j, w
  <2>5. Cell(w, d + i) = Cell(m, d + i) BY <2>2, <2>3 DEF Cell
  <2>6. Holds(w, d + i) BY <2>4, <2>5 DEF Holds
  <2> QED BY <2>6 DEF w
<1>3. CASE i >= s
  <2> DEFINE j == i - s
  <2>1. j \in 0 .. Cap - 1 /\ j < n /\ j \in Nat /\ d + s + j = d + i
    <3> HIDE DEF s
    <3> QED BY <1>0, <1>1, <1>3
  <2>2. (f + j) % Size16 = (d + s + j) % Size16
    <3> HIDE DEF j
    <3> QED BY <2>1, SizeMoves
  <2> HIDE DEF j, s
  <2>3. Holds(w, f + j) BY <1>0, <2>1, RingWritten
  <2>4. f + j \in Nat /\ d + i \in Nat /\ (f + j) % Size16 = (d + i) % Size16
    BY <1>0, <1>1, <2>1, <2>2
  <2> DEFINE k == f + j
             l == d + i
  <2> HIDE DEF k, l, w
  <2>5. Holds(w, k) <=> Holds(w, l) BY <2>4, SamePlace DEF k, l
  <2> QED BY <2>3, <2>5 DEF k, l, w
<1> QED BY <1>1, <1>2, <1>3

\* Bytes written where there is room leave those not yet acknowledged.
LEMMA RingKept ==
    ASSUME NEW f \in PointerValues, NEW d \in PointerValues, SizeOf(f, d) <= Cap,
           NEW n \in Nat, n <= SizeOf(f, d), NEW m,
           NEW i \in 0 .. Cap - SizeOf(f, d) - 1, Holds(m, f + Size16 - Cap + i)
    PROVE  Holds(Overwritten(m, d, n), f + Size16 - Cap + i)
<1>0. Cap \in Nat \ {0} /\ f \in Nat /\ d \in Nat BY SizesOfBuffer DEF PointerValues
<1> DEFINE s == SizeOf(f, d)
           w == Overwritten(m, d, n)
           j == s + i
<1>1. s \in Nat /\ n <= s /\ s <= Cap /\ i \in 0 .. Cap - s - 1
  <2>1. s \in Nat BY SizeMoves, SizesOfBuffer DEF PointerValues
  <2> QED BY <2>1
<1>2. j \in 0 .. Cap - 1 /\ j >= n
  <2> HIDE DEF s
  <2> QED BY <1>0, <1>1
<1>3. (f + Size16 - Cap + i) % Cap = (d + j) % Cap
  <2>1. i \in Nat /\ SizeOf(f, d) <= Cap BY <1>1
  <2> QED BY <2>1, FarCells
<1> HIDE DEF j
<1>4. Cell(w, d + j) = Cell(m, d + j) BY <1>0, <1>2, RingWritten
<1> HIDE DEF w
<1>5. Cell(w, f + Size16 - Cap + i) = Cell(m, f + Size16 - Cap + i) BY <1>3, <1>4 DEF Cell
<1>6. Holds(w, f + Size16 - Cap + i) BY <1>5 DEF Holds
<1> QED BY <1>6 DEF w

\* Fewer bytes are unacknowledged once some are acknowledged, and more once
\* those written are sent.
LEMMA RingAcknowledged ==
    ASSUME NEW f \in PointerValues, NEW d \in PointerValues, NEW n \in Nat, SizeOf(f, d) + n <= Cap, NEW m,
           \A i \in 0 .. Cap - SizeOf(f, d) - 1 : Holds(m, f + Size16 - Cap + i),
           NEW i \in 0 .. Cap - (SizeOf(f, d) + n) - 1
    PROVE  Holds(m, ((f + n) % Size16) + Size16 - Cap + i)
<1>0. /\ Cap \in Nat \ {0} /\ f \in Nat /\ Size16 \in Nat \ {0} /\ Cap < Size16
      /\ (f + n) % Size16 \in Nat
  BY SizesOfBuffer, SmallRemainder DEF PointerValues
<1> DEFINE s == SizeOf(f, d)
           g == (f + n) % Size16
           k == g + Size16 - Cap + i
           l == f + Size16 - Cap + (n + i)
<1>1. s \in Nat
  BY SizeMoves, SizesOfBuffer DEF PointerValues
<1>2. n + i \in 0 .. Cap - s - 1 /\ i \in Nat
  <2> HIDE DEF s
  <2>1. i \in 0 .. Cap - (s + n) - 1 BY DEF s
  <2> QED BY <1>0, <1>1, <2>1
<1>3. Holds(m, l) BY <1>2
<1>4. k \in Nat /\ l \in Nat
  <2>1. g \in Nat BY <1>0
  <2> HIDE DEF g
  <2> QED BY <1>0, <1>2, <2>1
<1>5. k % Size16 = l % Size16 BY <1>2, FarCellsMove
<1> HIDE DEF k, l
<1>6. Holds(m, k) BY <1>3, <1>4, <1>5, SamePlace
<1> QED BY <1>6 DEF k

LEMMA RingSent ==
    ASSUME NEW f \in PointerValues, NEW d \in PointerValues, SizeOf(f, d) <= Cap,
           NEW n \in Nat, n <= SizeOf(f, d), NEW m,
           \A i \in 0 .. Cap - SizeOf(f, d) - 1 : Holds(m, f + Size16 - Cap + i),
           \A i \in 0 .. n - 1 : Holds(m, d + i),
           NEW i \in 0 .. Cap - (SizeOf(f, d) - n) - 1
    PROVE  Holds(m, f + Size16 - Cap + i)
<1>0. Cap \in Nat \ {0} /\ f \in Nat /\ d \in Nat /\ Size16 \in Nat \ {0} /\ Cap < Size16
  BY SizesOfBuffer DEF PointerValues
<1> DEFINE s == SizeOf(f, d)
<1>1. s \in Nat /\ n <= s /\ s <= Cap
  <2>1. s \in Nat BY SizeMoves, SizesOfBuffer DEF PointerValues
  <2> QED BY <2>1
<1>2. CASE i < Cap - s
  <2>1. i \in 0 .. Cap - s - 1
    <3> HIDE DEF s
    <3> QED BY <1>0, <1>1, <1>2
  <2> QED BY <2>1
<1>3. CASE i >= Cap - s
  <2> DEFINE j == i - (Cap - s)
             k == f + Size16 - Cap + (Cap - s + j)
             l == d + j
  <2>1. j \in 0 .. n - 1 /\ j \in Nat /\ Cap - s + j = i
    <3>1. i \in 0 .. Cap - (s - n) - 1 OBVIOUS
    <3> HIDE DEF s
    <3> QED BY <1>0, <1>1, <1>3, <3>1
  <2> HIDE DEF j
  <2>2. k % Size16 = l % Size16 BY <1>1, <2>1, FarCells
  <2>3. Holds(m, l) BY <2>1
  <2>4. k \in Nat /\ l \in Nat /\ k = f + Size16 - Cap + i
    <3> HIDE DEF s
    <3> QED BY <1>0, <1>1, <2>1
  <2> HIDE DEF k, l
  <2>5. Holds(m, k) BY <2>2, <2>3, <2>4, SamePlace
  <2> QED BY <2>4, <2>5
<1>4. i \in Int /\ Cap - s \in Int
  <2> HIDE DEF s
  <2> QED BY <1>0, <1>1
<1> QED BY <1>2, <1>3, <1>4

BufferPCs == {"idle", "high1", "low1", "high2", "low2", "ptr", "data", "set", "command"}
Reads     == user.pc \in {"high1", "low1", "high2", "low2"}

BufferTypes ==
    /\ side \in {"rx", "tx"} /\ mem \in [0 .. Cap - 1 -> Nat]
    /\ rdwr \in PointerValues /\ done \in PointerValues /\ far \in PointerValues
    /\ user \in [pc : BufferPCs, val : Nat, val1 : Nat, len : Nat, ptr : PointerValues]
    /\ known \subseteq Nat /\ moved \in Seq(Nat)

\* The high byte of one size and the low byte of a later one.
Mixed(a, b) == Base * (a \div Base) + (b % Base)

\* The size only grows while a thread reads its register: what it has read so far
\* are bytes of sizes that followed one another.
SizeRead ==
    /\ Reads => Size \in known
    /\ Reads \/ user.pc = "ptr" => \A x \in known : x <= Size
    /\ user.pc = "low1" => \E a \in Nat : a <= Size /\ user.val1 = a \div Base
    /\ user.pc = "high2" => \E a \in Nat, b \in known : a <= b /\ user.val1 = Mixed(a, b)
    /\ user.pc = "low2" => \E a \in Nat, b \in known, c \in Nat :
                             /\ a <= b /\ b <= c /\ c <= Size
                             /\ user.val1 = Mixed(a, b) /\ user.val = c \div Base
    /\ user.pc = "ptr" => user.val \in known

\* The thread's pointer and length, and the chip's pointer.
AtHand ==
    /\ user.pc \in {"data", "set", "command"} => user.len <= Size /\ user.ptr = done
    /\ user.pc # "command" => rdwr = done
    /\ user.pc = "command" => rdwr = (done + user.len) % Size16

\* What is in the ring: bytes that have arrived and were not read; or bytes sent
\* and not acknowledged, and those just written.
InRing ==
    /\ Size <= Cap
    /\ side = "rx" => \A i \in 0 .. Size - 1 : Holds(mem, done + i)
    /\ side = "tx" => \A i \in 0 .. Cap - Size - 1 : Holds(mem, far + Size16 - Cap + i)
    /\ side = "tx" /\ user.pc \in {"set", "command"} => \A i \in 0 .. user.len - 1 : Holds(mem, done + i)

\* What has been moved.
InMoved ==
    /\ side = "rx" /\ user.pc \in {"set", "command"} => Len(moved) = user.len
    /\ Len(moved) <= Cap
    /\ \A i \in 1 .. Len(moved) : moved[i] = Byte(FirstMoved + i - 1)

\* The inductive invariant.
BufferInv == BufferTypes /\ SizeRead /\ AtHand /\ InRing /\ InMoved

\* Of two sizes, the high byte of one and the low byte of a later one, read twice
\* alike, are a size.
LEMMA LargerQuotient ==
    ASSUME NEW d \in Nat \ {0}, NEW a \in Nat, NEW b \in Nat, a <= b
    PROVE  a \div d \in Nat /\ b \div d \in Nat /\ a \div d <= b \div d
<1> DEFINE p == a \div d
           q == b \div d
           r == a % d
           t == b % d
<1>1. p \in Nat /\ q \in Nat /\ r \in Nat /\ t \in Nat /\ t < d /\ a = d * p + r /\ b = d * q + t
  OBVIOUS
<1> HIDE DEF p, q, r, t
<1>2. ASSUME q < p PROVE FALSE
  <2> DEFINE e == p - q - 1
  <2>1. e \in Nat /\ p = q + 1 + e BY <1>1, <1>2
  <2> HIDE DEF e
  <2>2. d * p = d * q + d + d * e BY <1>1, <2>1
  <2>3. d * e >= 0 /\ d * q \in Nat /\ d * p \in Nat /\ d * e \in Nat BY <1>1, <2>1
  <2> QED BY <1>1, <2>2, <2>3
<1>3. p <= q BY <1>1, <1>2
<1> QED BY <1>1, <1>3 DEF p, q

LEMMA MixedTwice ==
    ASSUME NEW a \in Nat, NEW b \in Nat, NEW c \in Nat, NEW e \in Nat,
           a <= b, b <= c, c <= e, Mixed(a, b) = Mixed(c, e)
    PROVE  Mixed(c, e) = b
<1>0. Base \in Nat \ {0} BY SizesOfBuffer
<1> DEFINE p == a \div Base
           q == b \div Base
           s == c \div Base
           r == b % Base
           t == e % Base
<1>1. p \in Nat /\ q \in Nat /\ s \in Nat /\ p <= q /\ q <= s BY <1>0, LargerQuotient
<1>2. r \in Nat /\ r < Base /\ t \in Nat /\ t < Base /\ b = Base * q + r
  BY <1>0
<1>3. Mixed(a, b) = Base * p + r /\ Mixed(c, e) = Base * s + t BY DEF Mixed
<1> HIDE DEF p, q, r, s, t
<1> DEFINE n == Base * p + r
<1>4. n \in Nat BY <1>0, <1>1, <1>2
<1>5. n = Base * s + t BY <1>3
<1> HIDE DEF n
<1>6. n \div Base = p BY <1>0, <1>1, <1>2, <1>4, OneQuotient DEF n
<1>7. n \div Base = s BY <1>0, <1>1, <1>2, <1>4, <1>5, OneQuotient
<1>8. p = q BY <1>1, <1>6, <1>7
<1>9. Mixed(a, b) = b BY <1>2, <1>3, <1>8
<1> QED BY <1>9

LEMMA SizeFacts ==
    ASSUME BufferTypes
    PROVE  /\ Size = SizeOf(far, done) /\ Size \in Nat /\ Size \in PointerValues
           /\ far \in Nat /\ done \in Nat /\ rdwr \in Nat
<1>1. Size = SizeOf(far, done) BY DEF Size, SizeOf
<1>2. SizeOf(far, done) \in PointerValues BY SizeMoves DEF BufferTypes
<1> QED BY <1>1, <1>2, SizesOfBuffer DEF BufferTypes, PointerValues

\* The registers, the ring and what was moved stay, and the thread is not between
\* its copy and its command.
Apart ==
    /\ UNCHANGED <<side, mem, rdwr, done, far>>
    /\ moved' = moved \/ moved' = <<>>
    /\ user.pc \notin {"data", "set", "command"} /\ user'.pc \notin {"data", "set", "command"}

LEMMA ApartKeeps ==
    ASSUME BufferInv, Apart
    PROVE  Size' = Size /\ AtHand' /\ InRing' /\ InMoved'
<1>1. side' = side /\ mem' = mem /\ rdwr' = rdwr /\ done' = done /\ far' = far BY DEF Apart
<1>2. /\ user.pc \notin {"data", "set", "command"} /\ user'.pc \notin {"data", "set", "command"}
      /\ moved' = moved \/ moved' = <<>>
  BY DEF Apart
<1>3. Size' = Size BY <1>1 DEF Size
<1>4. AtHand' BY <1>1, <1>2, <1>3 DEF BufferInv, AtHand
<1>5. InRing' BY <1>1, <1>2, <1>3 DEF BufferInv, InRing, Holds, Cell
<1>6. InMoved'
  <2>1. CASE moved' = <<>>
    <3>1. Len(moved') = 0 BY <2>1
    <3>2. 0 <= Cap BY SizesOfBuffer
    <3> QED BY <1>2, <3>1, <3>2 DEF InMoved
  <2>2. CASE moved' = moved
    <3>1. FirstMoved' = FirstMoved BY <1>1, <1>2, <2>2 DEF FirstMoved
    <3> QED BY <1>1, <1>2, <2>2, <3>1 DEF BufferInv, InMoved
  <2> QED BY <1>2, <2>1, <2>2
<1> QED BY <1>3, <1>4, <1>5, <1>6

\* Reading the size register goes round until two readings agree.
LEMMA SizeReadHigh ==
    ASSUME BufferInv, BeginSize \/ High1 \/ High2
    PROVE  BufferInv'
<1>0. BufferTypes /\ SizeRead /\ Size \in Nat BY SizeFacts DEF BufferInv
<1>b. Base \in Nat \ {0} /\ Size \div Base \in Nat
  <2>1. Base \in Nat \ {0} BY SizesOfBuffer
  <2> QED BY <1>0, <2>1, LargerQuotient
<1>u. user \in [pc : BufferPCs, val : Nat, val1 : Nat, len : Nat, ptr : PointerValues] BY <1>0 DEF BufferTypes
<1>1. CASE BeginSize
  <2>1. /\ user.pc = "idle" /\ user' = [user EXCEPT !.pc = "high1", !.val = 0, !.val1 = 0]
        /\ known' = {Size} /\ moved' = <<>> /\ UNCHANGED <<side, mem, rdwr, done, far>>
    BY <1>1 DEF BeginSize
  <2>2. /\ user'.pc = "high1" /\ user' \in [pc : BufferPCs, val : Nat, val1 : Nat, len : Nat, ptr : PointerValues]
    BY <1>u, <2>1 DEF BufferPCs
  <2>3. Apart BY <2>1, <2>2 DEF Apart
  <2>4. Size' = Size /\ AtHand' /\ InRing' /\ InMoved' BY <2>3, ApartKeeps
  <2>5. SizeRead' BY <1>0, <2>1, <2>2, <2>4 DEF SizeRead, Reads
  <2>6. BufferTypes' BY <1>0, <2>1, <2>2 DEF BufferTypes
  <2> QED BY <2>4, <2>5, <2>6 DEF BufferInv
<1>2. CASE High1
  <2>1. /\ user.pc = "high1" /\ user' = [user EXCEPT !.pc = "low1", !.val1 = Size \div Base]
        /\ known' = known /\ moved' = moved /\ UNCHANGED <<side, mem, rdwr, done, far>>
    BY <1>2 DEF High1, Still
  <2>2. /\ user'.pc = "low1" /\ user'.val1 = Size \div Base
        /\ user' \in [pc : BufferPCs, val : Nat, val1 : Nat, len : Nat, ptr : PointerValues]
    BY <1>b, <1>u, <2>1 DEF BufferPCs
  <2>3. Apart BY <2>1, <2>2 DEF Apart
  <2>4. Size' = Size /\ AtHand' /\ InRing' /\ InMoved' BY <2>3, ApartKeeps
  <2>5. SizeRead' BY <1>0, <2>1, <2>2, <2>4 DEF SizeRead, Reads
  <2>6. BufferTypes' BY <1>0, <2>1, <2>2 DEF BufferTypes
  <2> QED BY <2>4, <2>5, <2>6 DEF BufferInv
<1>3. CASE High2
  <2>1. /\ user.pc = "high2" /\ user' = [user EXCEPT !.pc = "low2", !.val = Size \div Base]
        /\ known' = known /\ moved' = moved /\ UNCHANGED <<side, mem, rdwr, done, far>>
    BY <1>3 DEF High2, Still
  <2>2. /\ user'.pc = "low2" /\ user'.val = Size \div Base /\ user'.val1 = user.val1
        /\ user' \in [pc : BufferPCs, val : Nat, val1 : Nat, len : Nat, ptr : PointerValues]
    BY <1>b, <1>u, <2>1 DEF BufferPCs
  <2>3. Apart BY <2>1, <2>2 DEF Apart
  <2>4. Size' = Size /\ AtHand' /\ InRing' /\ InMoved' BY <2>3, ApartKeeps
  <2>5. PICK a \in Nat, b \in known : a <= b /\ user.val1 = Mixed(a, b)
    BY <1>0, <2>1 DEF SizeRead
  <2>6. b <= Size /\ Size <= Size BY <1>0, <2>1 DEF SizeRead, Reads
  <2>7. \E x \in Nat, y \in known', z \in Nat :
          /\ x <= y /\ y <= z /\ z <= Size' /\ user'.val1 = Mixed(x, y) /\ user'.val = z \div Base
    BY <1>0, <2>1, <2>2, <2>4, <2>5, <2>6
  <2>8. Size' \in known' /\ \A x \in known' : x <= Size'
    BY <1>0, <2>1, <2>4 DEF SizeRead, Reads
  <2>9. SizeRead' BY <2>2, <2>7, <2>8 DEF SizeRead
  <2>10. BufferTypes' BY <1>0, <2>1, <2>2 DEF BufferTypes
  <2> QED BY <2>4, <2>9, <2>10 DEF BufferInv
<1> QED BY <1>1, <1>2, <1>3

LEMMA SizeReadLow ==
    ASSUME BufferInv, Low1 \/ Low2
    PROVE  BufferInv'
<1>0. BufferTypes /\ SizeRead /\ Size \in Nat BY SizeFacts DEF BufferInv
<1>b. Base \in Nat \ {0} /\ Size % Base \in Nat
  <2>1. Base \in Nat \ {0} BY SizesOfBuffer
  <2> QED BY <1>0, <2>1, SmallRemainder
<1>u. user \in [pc : BufferPCs, val : Nat, val1 : Nat, len : Nat, ptr : PointerValues] BY <1>0 DEF BufferTypes
<1>k. known \subseteq Nat BY <1>0 DEF BufferTypes
<1>1. CASE Low1
  <2> DEFINE v == Base * user.val1 + (Size % Base)
  <2>v. v \in Nat BY <1>b, <1>u
  <2>1. /\ user.pc = "low1"
        /\ user' = SecondTime([user EXCEPT !.val1 = v])
        /\ known' = known /\ moved' = moved /\ UNCHANGED <<side, mem, rdwr, done, far>>
    BY <1>1 DEF Low1, Still
  <2>a. PICK a \in Nat : a <= Size /\ user.val1 = a \div Base BY <1>0, <2>1 DEF SizeRead
  <2>m. v = Mixed(a, Size) BY <2>a DEF Mixed
  <2> HIDE DEF v
  <2>2. /\ user'.pc = (IF v # 0 THEN "high2" ELSE IF user.val # v THEN "high1" ELSE "idle")
        /\ user'.val1 = v
        /\ user' \in [pc : BufferPCs, val : Nat, val1 : Nat, len : Nat, ptr : PointerValues]
    <3>1. [user EXCEPT !.val1 = v].val1 = v /\ [user EXCEPT !.val1 = v].val = user.val
      BY <1>u
    <3>2. [user EXCEPT !.val1 = v] \in [pc : BufferPCs, val : Nat, val1 : Nat, len : Nat, ptr : PointerValues]
      BY <1>u, <2>v
    <3> DEFINE x == [user EXCEPT !.val1 = v]
               p == IF v # 0 THEN "high2" ELSE IF user.val # v THEN "high1" ELSE "idle"
    <3>3. user' = [x EXCEPT !.pc = p]
      <4>1. x.val1 = v /\ x.val = user.val BY <3>1
      <4>2. user' = [x EXCEPT !.pc = IF x.val1 # 0 THEN "high2" ELSE Compared(x)]
        BY <2>1 DEF SecondTime
      <4> HIDE DEF x
      <4>3. (IF x.val1 # 0 THEN "high2" ELSE Compared(x)) = p BY <1>u, <2>v, <4>1 DEF Compared
      <4> QED BY <4>2, <4>3
    <3>4. p \in BufferPCs BY DEF BufferPCs
    <3>5. x.val1 = v BY <3>1
    <3> HIDE DEF x, p
    <3>6. x \in [pc : BufferPCs, val : Nat, val1 : Nat, len : Nat, ptr : PointerValues] BY <3>2 DEF x
    <3>7. /\ user'.pc = p /\ user'.val1 = v
          /\ user' \in [pc : BufferPCs, val : Nat, val1 : Nat, len : Nat, ptr : PointerValues]
      BY <3>3, <3>4, <3>5, <3>6
    <3> QED BY <3>7 DEF p
  <2>3. Apart BY <2>1, <2>2 DEF Apart
  <2>4. Size' = Size /\ AtHand' /\ InRing' /\ InMoved' BY <2>3, ApartKeeps
  <2>5. Size' \in known' /\ \A x \in known' : x <= Size'
    BY <1>0, <2>1, <2>4 DEF SizeRead, Reads
  <2>6. user'.pc \in {"high1", "high2", "idle"} BY <2>2
  <2>7. \E x \in Nat, y \in known' : x <= y /\ user'.val1 = Mixed(x, y)
    BY <2>1, <2>2, <2>a, <2>m, <2>4, <2>5
  <2>8. SizeRead' BY <2>5, <2>6, <2>7 DEF SizeRead
  <2>9. BufferTypes' BY <1>0, <2>1, <2>2 DEF BufferTypes
  <2> QED BY <2>4, <2>8, <2>9 DEF BufferInv
<1>2. CASE Low2
  <2> DEFINE v == Base * user.val + (Size % Base)
  <2>v. v \in Nat BY <1>b, <1>u
  <2>1. /\ user.pc = "low2"
        /\ user' = [[user EXCEPT !.val = v] EXCEPT !.pc = Compared([user EXCEPT !.val = v])]
        /\ known' = known /\ moved' = moved /\ UNCHANGED <<side, mem, rdwr, done, far>>
    BY <1>2 DEF Low2, Still
  <2>a. PICK a \in Nat, b \in known, c \in Nat :
          a <= b /\ b <= c /\ c <= Size /\ user.val1 = Mixed(a, b) /\ user.val = c \div Base
    BY <1>0, <2>1 DEF SizeRead
  <2>m. v = Mixed(c, Size) BY <2>a DEF Mixed
  <2> HIDE DEF v
  <2>2. /\ user'.pc = (IF v # user.val1 THEN "high1" ELSE IF v = 0 THEN "idle" ELSE "ptr")
        /\ user'.val = v
        /\ user' \in [pc : BufferPCs, val : Nat, val1 : Nat, len : Nat, ptr : PointerValues]
    <3> DEFINE x == [user EXCEPT !.val = v]
               p == IF v # user.val1 THEN "high1" ELSE IF v = 0 THEN "idle" ELSE "ptr"
    <3>1. x.val = v /\ x.val1 = user.val1 BY <1>u
    <3>2. x \in [pc : BufferPCs, val : Nat, val1 : Nat, len : Nat, ptr : PointerValues] BY <1>u, <2>v
    <3>3. user' = [x EXCEPT !.pc = Compared(x)] BY <2>1
    <3> HIDE DEF x
    <3>4. Compared(x) = p BY <3>1 DEF Compared
    <3>5. p \in BufferPCs BY DEF BufferPCs
    <3> HIDE DEF p
    <3>6. /\ user'.pc = p /\ user'.val = v
          /\ user' \in [pc : BufferPCs, val : Nat, val1 : Nat, len : Nat, ptr : PointerValues]
      BY <3>1, <3>2, <3>3, <3>4, <3>5
    <3> QED BY <3>6 DEF p
  <2>3. Apart BY <2>1, <2>2 DEF Apart
  <2>4. Size' = Size /\ AtHand' /\ InRing' /\ InMoved' BY <2>3, ApartKeeps
  <2>5. Size' \in known' /\ \A x \in known' : x <= Size'
    BY <1>0, <2>1, <2>4 DEF SizeRead, Reads
  <2>6. user'.pc \in {"high1", "idle", "ptr"} BY <2>2
  <2>7. user'.pc = "ptr" => user'.val \in known'
    <3> SUFFICES ASSUME user'.pc = "ptr" PROVE v \in known
      BY <2>1, <2>2
    <3>1. v = user.val1 BY <2>2
    <3>2. b \in Nat BY <1>k
    <3>3. Mixed(a, b) = Mixed(c, Size) BY <3>1, <2>a, <2>m
    <3>4. Mixed(c, Size) = b BY <1>0, <2>a, <3>2, <3>3, MixedTwice
    <3> QED BY <2>m, <3>4
  <2>8. SizeRead' BY <2>5, <2>6, <2>7 DEF SizeRead
  <2>9. BufferTypes' BY <1>0, <2>1, <2>2 DEF BufferTypes
  <2> QED BY <2>4, <2>8, <2>9 DEF BufferInv
<1> QED BY <1>1, <1>2

BufferUser == [pc : BufferPCs, val : Nat, val1 : Nat, len : Nat, ptr : PointerValues]

\* The thread takes what it was told there is, and copies it.
LEMMA PointerRead ==
    ASSUME BufferInv, ReadPointer
    PROVE  BufferInv'
<1>0. BufferTypes /\ SizeRead /\ AtHand /\ InRing /\ InMoved /\ Size \in Nat
  BY SizeFacts DEF BufferInv
<1>u. user \in BufferUser /\ known \subseteq Nat /\ rdwr \in PointerValues BY <1>0 DEF BufferTypes, BufferUser
<1>1. PICK n \in Chunks :
        user' = [user EXCEPT !.pc = "data", !.len = IF n < user.val THEN n ELSE user.val, !.ptr = rdwr]
  BY DEF ReadPointer
<1>2. /\ user.pc = "ptr" /\ known' = {} /\ UNCHANGED <<side, mem, rdwr, done, far, moved>>
  BY DEF ReadPointer, Still
<1> DEFINE l == IF n < user.val THEN n ELSE user.val
<1>3. n \in Nat BY SizesOfBuffer
<1>4. user.val \in Nat /\ user.val <= Size BY <1>0, <1>2, <1>u DEF SizeRead, BufferUser
<1>5. l \in Nat /\ l <= Size BY <1>0, <1>3, <1>4
<1>6. user' = [user EXCEPT !.pc = "data", !.len = l, !.ptr = rdwr] BY <1>1
<1> HIDE DEF l
<1>7. user'.pc = "data" /\ user'.len = l /\ user'.ptr = rdwr /\ user' \in BufferUser
  BY <1>5, <1>6, <1>u DEF BufferUser, BufferPCs
<1>8. Size' = Size BY <1>2 DEF Size
<1>9. SizeRead' BY <1>7 DEF SizeRead, Reads
<1>10. AtHand' BY <1>0, <1>2, <1>5, <1>7, <1>8 DEF AtHand
<1>11. InRing' BY <1>0, <1>2, <1>7, <1>8 DEF InRing, Holds, Cell
<1>12. FirstMoved' = FirstMoved BY <1>2, <1>7 DEF FirstMoved
<1>13. InMoved' BY <1>0, <1>2, <1>7, <1>12 DEF InMoved
<1>14. BufferTypes' BY <1>0, <1>2, <1>7 DEF BufferTypes, BufferUser
<1> QED BY <1>9, <1>10, <1>11, <1>13, <1>14 DEF BufferInv

LEMMA BufferRead ==
    ASSUME BufferInv, ReadBuffer
    PROVE  BufferInv'
<1>0. BufferTypes /\ AtHand /\ InRing /\ Size \in Nat /\ done \in Nat /\ Size <= Cap
  BY SizeFacts DEF BufferInv, InRing
<1>u. user \in BufferUser /\ mem \in [0 .. Cap - 1 -> Nat] BY <1>0 DEF BufferTypes, BufferUser
<1>1. /\ user.pc = "data" /\ side = "rx" /\ user' = [user EXCEPT !.pc = "set"]
      /\ moved' = [i \in 1 .. user.len |-> mem[(user.ptr + i - 1) % Cap]]
      /\ UNCHANGED <<side, mem, rdwr, done, far, known>>
  BY DEF ReadBuffer, To
<1>2. /\ user'.pc = "set" /\ user'.len = user.len /\ user'.ptr = user.ptr
      /\ user' \in BufferUser
  BY <1>1, <1>u DEF BufferUser, BufferPCs
<1>3. user.len \in Nat /\ user.len <= Size /\ user.ptr = done
  BY <1>0, <1>1, <1>u DEF AtHand, BufferUser
<1>4. Size' = Size BY <1>1 DEF Size
<1>5. SizeRead' BY <1>2 DEF SizeRead, Reads
<1>6. AtHand' BY <1>0, <1>1, <1>2, <1>4 DEF AtHand
<1>7. InRing' BY <1>0, <1>1, <1>2, <1>4 DEF InRing, Holds, Cell
<1>8. ASSUME NEW i \in 1 .. user.len
      PROVE  mem[(user.ptr + i - 1) % Cap] = Byte(done + i - 1) /\ mem[(user.ptr + i - 1) % Cap] \in Nat
  <2> DEFINE j == i - 1
             k == done + j
  <2>1. j \in 0 .. Size - 1 /\ k \in Nat /\ done + i - 1 = k /\ user.ptr + i - 1 = k
    BY <1>0, <1>3
  <2>2. Holds(mem, done + j)
    <3> HIDE DEF j
    <3> QED BY <1>0, <1>1, <2>1 DEF InRing
  <2> HIDE DEF j
  <2>3. mem[k % Cap] = Byte(k) BY <2>2 DEF Holds, Cell, Byte
  <2> HIDE DEF k
  <2>4. k % Cap \in 0 .. Cap - 1 BY <2>1, SizesOfBuffer, SmallRemainder
  <2>5. mem[k % Cap] \in Nat BY <1>u, <2>4
  <2> QED BY <2>1, <2>3, <2>5
<1>9. moved' \in Seq(Nat) /\ Len(moved') = user.len
  BY <1>1, <1>3, <1>8
<1>10. \A i \in 1 .. user.len : moved'[i] = Byte(done + i - 1) BY <1>1, <1>8
<1>11. FirstMoved' = done BY <1>1, <1>2 DEF FirstMoved
<1>12. InMoved'
  <2>1. Len(moved') <= Cap BY <1>0, <1>3, <1>9, SizesOfBuffer
  <2> QED BY <1>2, <1>9, <1>10, <1>11, <2>1 DEF InMoved
<1>13. BufferTypes' BY <1>0, <1>1, <1>2, <1>9 DEF BufferTypes, BufferUser
<1> QED BY <1>5, <1>6, <1>7, <1>12, <1>13 DEF BufferInv

LEMMA OverwrittenRing ==
    ASSUME NEW m \in [0 .. Cap - 1 -> Nat], NEW p \in Nat, NEW n \in Nat
    PROVE  Overwritten(m, p, n) \in [0 .. Cap - 1 -> Nat]
<1>1. ASSUME NEW c \in 0 .. Cap - 1 PROVE (c + Cap - (p % Cap)) % Cap \in Nat
  <2> DEFINE a == p % Cap
             x == c + Cap - a
  <2>1. a \in 0 .. Cap - 1 BY SizesOfBuffer, SmallRemainder
  <2> HIDE DEF a
  <2>2. x \in Nat BY <2>1, SizesOfBuffer
  <2> HIDE DEF x
  <2>3. x % Cap \in Nat BY <2>2, SizesOfBuffer, SmallRemainder
  <2> QED BY <2>3 DEF x, a
<1>2. ASSUME NEW i \in Nat PROVE Byte(p + i) \in Nat
  <2> DEFINE k == p + i
  <2>1. k \in Nat OBVIOUS
  <2> HIDE DEF k
  <2>2. k % Size16 \in 0 .. Size16 - 1 BY <2>1, SizesOfBuffer, SmallRemainder
  <2> QED BY <2>2, SizesOfBuffer DEF Byte, k
<1> QED BY <1>1, <1>2 DEF Overwritten

LEMMA BufferWritten ==
    ASSUME BufferInv, WriteBuffer
    PROVE  BufferInv'
<1>0. /\ BufferTypes /\ AtHand /\ InRing /\ InMoved /\ Size \in Nat /\ done \in Nat /\ Size <= Cap
      /\ Size = SizeOf(far, done) /\ far \in PointerValues /\ done \in PointerValues
  BY SizeFacts DEF BufferInv, InRing, BufferTypes
<1>u. user \in BufferUser /\ mem \in [0 .. Cap - 1 -> Nat] BY <1>0 DEF BufferTypes, BufferUser
<1>1. /\ user.pc = "data" /\ side = "tx" /\ user' = [user EXCEPT !.pc = "set"]
      /\ UNCHANGED <<side, rdwr, done, far, known, moved>>
  BY DEF WriteBuffer, To
<1>2. /\ user'.pc = "set" /\ user'.len = user.len /\ user'.ptr = user.ptr
      /\ user' \in BufferUser
  BY <1>1, <1>u DEF BufferUser, BufferPCs
<1>3. user.len \in Nat /\ user.len <= Size /\ user.ptr = done
  BY <1>0, <1>1, <1>u DEF AtHand, BufferUser
<1>w. mem' = Overwritten(mem, done, user.len)
  BY <1>3 DEF WriteBuffer, Overwritten
<1>4. Size' = Size BY <1>1 DEF Size
<1>5. SizeRead' BY <1>2 DEF SizeRead, Reads
<1>6. AtHand' BY <1>0, <1>1, <1>2, <1>4 DEF AtHand
<1>7. InRing'
  <2>1. ASSUME NEW i \in 0 .. Cap - Size - 1 PROVE Holds(mem', far + Size16 - Cap + i)
    <3>1. Holds(mem, far + Size16 - Cap + i) BY <1>0, <1>1 DEF InRing
    <3>2. SizeOf(far, done) <= Cap /\ user.len <= SizeOf(far, done) /\ i \in 0 .. Cap - SizeOf(far, done) - 1
      BY <1>0, <1>3
    <3>3. Holds(Overwritten(mem, done, user.len), far + Size16 - Cap + i)
      BY <1>0, <1>3, <3>1, <3>2, RingKept
    <3> QED BY <1>w, <3>3
  <2>2. ASSUME NEW i \in 0 .. user.len - 1 PROVE Holds(mem', done + i)
    <3>1. i \in 0 .. Cap - 1 /\ i < user.len BY <1>0, <1>3, SizesOfBuffer
    <3>2. Holds(Overwritten(mem, done, user.len), done + i) BY <1>0, <1>3, <3>1, RingWritten
    <3> QED BY <1>w, <3>2
  <2>3. side' = "tx" /\ far' = far /\ done' = done /\ user'.len = user.len BY <1>1, <1>2
  <2> QED BY <1>0, <1>4, <2>1, <2>2, <2>3 DEF InRing
<1>8. FirstMoved' = FirstMoved BY <1>1 DEF FirstMoved
<1>9. InMoved' BY <1>0, <1>1, <1>8 DEF InMoved
<1>10. mem' \in [0 .. Cap - 1 -> Nat] BY <1>0, <1>3, <1>u, <1>w, OverwrittenRing
<1>11. BufferTypes' BY <1>0, <1>1, <1>2, <1>10 DEF BufferTypes, BufferUser
<1> QED BY <1>5, <1>6, <1>7, <1>9, <1>11 DEF BufferInv

\* The pointer is set, and the command lets the chip take it over.
LEMMA PointerSet ==
    ASSUME BufferInv, SetPointer
    PROVE  BufferInv'
<1>0. /\ BufferTypes /\ AtHand /\ InRing /\ InMoved /\ Size = SizeOf(far, done)
      /\ far \in PointerValues /\ done \in PointerValues
  BY SizeFacts DEF BufferInv, BufferTypes
<1>u. user \in BufferUser BY <1>0 DEF BufferTypes, BufferUser
<1>1. /\ user.pc = "set" /\ user' = [user EXCEPT !.pc = "command"]
      /\ rdwr' = (user.ptr + user.len) % Size16
      /\ UNCHANGED <<side, mem, done, far, known, moved>>
  BY DEF SetPointer, To, Advanced
<1>2. /\ user'.pc = "command" /\ user'.len = user.len /\ user'.ptr = user.ptr
      /\ user' \in BufferUser
  BY <1>1, <1>u DEF BufferUser, BufferPCs
<1>3. user.len \in Nat /\ user.len <= Size /\ user.ptr = done
  BY <1>0, <1>1, <1>u DEF AtHand, BufferUser
<1>4. Size' = Size BY <1>1 DEF Size
<1>5. SizeRead' BY <1>2 DEF SizeRead, Reads
<1>6. rdwr' = (done + user.len) % Size16 BY <1>1, <1>3
<1>7. (done + user.len) % Size16 \in PointerValues BY <1>0, <1>3, SizeMoves
<1>8. AtHand' BY <1>1, <1>2, <1>3, <1>4, <1>6 DEF AtHand
<1>9. InRing' BY <1>0, <1>1, <1>2, <1>4 DEF InRing, Holds, Cell
<1>10. FirstMoved' = FirstMoved BY <1>1, <1>2 DEF FirstMoved
<1>11. InMoved' BY <1>0, <1>1, <1>2, <1>10 DEF InMoved
<1>12. BufferTypes' BY <1>0, <1>1, <1>2, <1>6, <1>7 DEF BufferTypes, BufferUser
<1> QED BY <1>5, <1>8, <1>9, <1>11, <1>12 DEF BufferInv

LEMMA CommandTaken ==
    ASSUME BufferInv, Command
    PROVE  BufferInv'
<1>0. /\ BufferTypes /\ AtHand /\ InRing /\ InMoved /\ Size \in Nat /\ Size = SizeOf(far, done)
      /\ far \in PointerValues /\ done \in PointerValues /\ done \in Nat /\ Size <= Cap
  BY SizeFacts DEF BufferInv, BufferTypes, InRing
<1>u. user \in BufferUser /\ mem \in [0 .. Cap - 1 -> Nat] BY <1>0 DEF BufferTypes, BufferUser
<1>c. Cap \in Nat \ {0} BY SizesOfBuffer
<1> DEFINE n == user.len
<1>1. /\ user.pc = "command" /\ done' = rdwr
      /\ user' = [user EXCEPT !.pc = "idle", !.val = 0, !.val1 = 0, !.len = 0, !.ptr = 0]
      /\ UNCHANGED <<side, mem, rdwr, far, known>>
  BY DEF Command
<1>2. user'.pc = "idle" /\ user' \in BufferUser
  <2>1. 0 \in PointerValues BY SizesOfBuffer DEF PointerValues
  <2> QED BY <1>1, <1>u, <2>1 DEF BufferUser, BufferPCs
<1>3. n \in Nat /\ n <= Size /\ rdwr = (done + n) % Size16
  BY <1>0, <1>1, <1>u DEF AtHand, BufferUser
<1> HIDE DEF n
<1>4. /\ rdwr \in PointerValues /\ SizeOf(far, rdwr) = Size - n /\ SizeOf(rdwr, done) = n
      /\ (rdwr + Size16 - n) % Size16 = done
  BY <1>0, <1>3, SizeMoves
<1>5. Size' = Size - n
  <2>1. Size' = SizeOf(far, rdwr) BY <1>1 DEF Size, SizeOf
  <2> QED BY <1>4, <2>1
<1>6. SizeRead' BY <1>2 DEF SizeRead, Reads
<1>7. AtHand' BY <1>1, <1>2 DEF AtHand
<1>m. /\ side \in {"rx", "tx"}
      /\ side = "rx" => Len(moved) = n /\ moved' = moved
      /\ side = "tx" => moved' = [i \in 1 .. n |-> mem[(done + i - 1) % Cap]]
  <2>1. (rdwr + Size16 - done) % Size16 = n BY <1>4 DEF SizeOf
  <2>2. moved' = IF side = "rx" THEN moved
                 ELSE [i \in 1 .. (rdwr + Size16 - done) % Size16 |-> mem[(done + i - 1) % Cap]]
    BY DEF Command
  <2>3. side = "tx" => moved' = [i \in 1 .. n |-> mem[(done + i - 1) % Cap]] BY <2>1, <2>2
  <2>4. side = "rx" => moved' = moved BY <2>2
  <2>5. side = "rx" => Len(moved) = n BY <1>0, <1>1 DEF InMoved, n
  <2> QED BY <1>0, <2>3, <2>4, <2>5 DEF BufferTypes
<1>8. CASE side = "rx"
  <2>1. \A i \in 1 .. Len(moved) : moved[i] = Byte(done + i - 1)
    <3>1. FirstMoved = done BY <1>1, <1>8 DEF FirstMoved
    <3> QED BY <1>0, <3>1 DEF InMoved
  <2>2. moved' = moved /\ Len(moved') = n /\ moved \in Seq(Nat) BY <1>0, <1>m, <1>8 DEF BufferTypes
  <2>3. FirstMoved' = (rdwr + Size16 - n) % Size16 BY <1>1, <1>2, <2>2 DEF FirstMoved
  <2>4. FirstMoved' = done BY <1>4, <2>3
  <2>5. InMoved' BY <1>0, <1>2, <2>1, <2>2, <2>4 DEF InMoved
  <2>6. ASSUME NEW i \in 0 .. Size - n - 1 PROVE Holds(mem, rdwr + i)
    <3> DEFINE j == n + i
               k == done + j
               l == rdwr + i
    <3>1. j \in 0 .. Size - 1 BY <1>0, <1>3
    <3>2. Holds(mem, done + j)
      <4> HIDE DEF j
      <4> QED BY <1>0, <1>8, <3>1 DEF InRing
    <3>3. rdwr \in Nat /\ k \in Nat /\ l \in Nat /\ k = done + n + i
      BY <1>0, <1>3, SizeFacts
    <3>4. (((done + n) % Size16) + i) % Size16 = (done + n + i) % Size16
      <4> DEFINE x == done + n
      <4>1. x \in Nat BY <1>0, <1>3
      <4> HIDE DEF x
      <4>2. i \in Nat BY <1>0, <1>3
      <4>3. ((x % Size16) + i) % Size16 = (x + i) % Size16 BY <4>1, <4>2, SizesOfBuffer, RemainderOfSum
      <4> QED BY <4>3 DEF x
    <3>5. l % Size16 = k % Size16 BY <1>3, <3>3, <3>4
    <3> HIDE DEF j, k, l
    <3>6. Holds(mem, k) BY <3>2 DEF k
    <3>7. Holds(mem, l) BY <3>3, <3>5, <3>6, SamePlace
    <3> QED BY <3>7 DEF l
  <2>7. InRing'
    <3>1. Size' <= Cap BY <1>0, <1>3, <1>5, <1>c
    <3>2. mem' = mem /\ done' = rdwr /\ side' = "rx" BY <1>1, <1>8
    <3> QED BY <1>2, <1>5, <2>6, <3>1, <3>2 DEF InRing
  <2>8. BufferTypes' BY <1>0, <1>1, <1>2, <1>4, <2>2 DEF BufferTypes, BufferUser
  <2> QED BY <1>6, <1>7, <2>5, <2>7, <2>8 DEF BufferInv
<1>9. CASE side = "tx"
  <2>0. moved' = [i \in 1 .. n |-> mem[(done + i - 1) % Cap]] BY <1>m, <1>9
  <2>1. ASSUME NEW i \in 1 .. n
        PROVE  mem[(done + i - 1) % Cap] = Byte(done + i - 1) /\ mem[(done + i - 1) % Cap] \in Nat
    <3> DEFINE j == i - 1
               k == done + j
    <3>1. j \in 0 .. n - 1 /\ k \in Nat /\ done + i - 1 = k BY <1>0, <1>3
    <3>2. Holds(mem, done + j)
      <4> HIDE DEF j
      <4> QED BY <1>0, <1>1, <1>9, <3>1 DEF InRing, n
    <3> HIDE DEF j
    <3>3. mem[k % Cap] = Byte(k) BY <3>2 DEF Holds, Cell, Byte
    <3> HIDE DEF k
    <3>4. k % Cap \in 0 .. Cap - 1 BY <3>1, SizesOfBuffer, SmallRemainder
    <3>5. mem[k % Cap] \in Nat BY <1>u, <3>4
    <3> QED BY <3>1, <3>3, <3>5
  <2>2. moved' \in Seq(Nat) /\ Len(moved') = n BY <1>3, <2>0, <2>1
  <2>3. \A i \in 1 .. n : moved'[i] = Byte(done + i - 1) BY <2>0, <2>1
  <2>4. FirstMoved' = (rdwr + Size16 - n) % Size16 BY <1>1, <1>2, <2>2 DEF FirstMoved
  <2>5. FirstMoved' = done BY <1>4, <2>4
  <2>6. InMoved'
    <3>1. Len(moved') <= Cap BY <1>0, <1>3, <1>c, <2>2
    <3> QED BY <1>2, <2>2, <2>3, <2>5, <3>1 DEF InMoved
  <2>7. ASSUME NEW i \in 0 .. Cap - (Size - n) - 1 PROVE Holds(mem, far + Size16 - Cap + i)
    <3>1. /\ \A x \in 0 .. Cap - SizeOf(far, done) - 1 : Holds(mem, far + Size16 - Cap + x)
          /\ \A x \in 0 .. n - 1 : Holds(mem, done + x)
      BY <1>0, <1>1, <1>9 DEF InRing, n
    <3>2. SizeOf(far, done) <= Cap /\ n <= SizeOf(far, done) /\ i \in 0 .. Cap - (SizeOf(far, done) - n) - 1
      BY <1>0, <1>3
    <3> QED BY <1>0, <1>3, <3>1, <3>2, RingSent
  <2>8. InRing'
    <3>1. Size' <= Cap BY <1>0, <1>3, <1>5, <1>c
    <3>2. mem' = mem /\ far' = far /\ side' = "tx" BY <1>1, <1>9
    <3> QED BY <1>2, <1>5, <2>7, <3>1, <3>2 DEF InRing
  <2>9. BufferTypes' BY <1>0, <1>1, <1>2, <1>4, <2>2 DEF BufferTypes, BufferUser
  <2> QED BY <1>6, <1>7, <2>6, <2>8, <2>9 DEF BufferInv
<1> QED BY <1>m, <1>8, <1>9

\* Bytes arrive, or are acknowledged.
LEMMA ChipGrows ==
    ASSUME BufferInv, NEW n \in Chunks, Grow(n)
    PROVE  BufferInv'
<1>0. /\ BufferTypes /\ SizeRead /\ AtHand /\ InRing /\ InMoved /\ Size \in Nat /\ Size = SizeOf(far, done)
      /\ far \in PointerValues /\ done \in PointerValues /\ far \in Nat /\ done \in Nat
  BY SizeFacts DEF BufferInv, BufferTypes
<1>c. Cap \in Nat \ {0} /\ Cap < Size16 /\ n \in Nat /\ Size16 \in Nat BY SizesOfBuffer
<1>u. user \in BufferUser /\ mem \in [0 .. Cap - 1 -> Nat] /\ known \subseteq Nat /\ side \in {"rx", "tx"}
  BY <1>0 DEF BufferTypes, BufferUser
<1>1. /\ Size + n <= Cap /\ far' = (far + n) % Size16
      /\ known' = IF Reads THEN known \cup {Size + n} ELSE known
      /\ UNCHANGED <<side, rdwr, done, user, moved>>
  BY DEF Grow, Reads
<1>2. SizeOf(far, done) + n < Size16 BY <1>0, <1>1, <1>c
<1>3. (far + n) % Size16 \in PointerValues /\ SizeOf((far + n) % Size16, done) = Size + n
  BY <1>0, <1>c, <1>2, SizeMoves
<1>k. known' \subseteq known \cup {Size + n} /\ Size + n \in Nat BY <1>0, <1>1, <1>c
<1>4. Size' = Size + n
  <2>1. Size' = SizeOf((far + n) % Size16, done) BY <1>1 DEF Size, SizeOf
  <2> QED BY <1>3, <2>1
<1>m. (side = "tx" => mem' = mem) /\ (side = "rx" => mem' = Overwritten(mem, far, n))
  BY DEF Grow, Overwritten
<1>5. SizeRead'
  <2>1. user' = user /\ Size <= Size' /\ Size' \in Nat BY <1>0, <1>1, <1>4, <1>c
  <2>2. Reads' <=> Reads BY <2>1 DEF Reads
  <2>3. known \subseteq known' BY <1>1
  <2>4. Reads' => Size' \in known' BY <1>1, <1>4, <2>2
  <2>5. Reads' \/ user'.pc = "ptr" => \A x \in known' : x <= Size'
    <3> SUFFICES ASSUME Reads \/ user.pc = "ptr", NEW x \in known' PROVE x <= Size'
      BY <2>1, <2>2
    <3>1. \A y \in known : y <= Size BY <1>0 DEF SizeRead
    <3>2. x \in known \/ x = Size + n BY <1>1
    <3>3. x \in known => x \in Nat /\ x <= Size BY <1>u, <3>1
    <3> QED BY <1>0, <1>4, <1>c, <3>2, <3>3
  <2>6. user'.pc = "low1" => \E a \in Nat : a <= Size' /\ user'.val1 = a \div Base
    <3> SUFFICES ASSUME user.pc = "low1" PROVE \E a \in Nat : a <= Size' /\ user.val1 = a \div Base
      BY <2>1
    <3>1. PICK a \in Nat : a <= Size /\ user.val1 = a \div Base BY <1>0 DEF SizeRead
    <3>2. a <= Size' BY <1>0, <2>1, <3>1
    <3> QED BY <3>1, <3>2
  <2>7. user'.pc = "high2" => \E a \in Nat, b \in known' : a <= b /\ user'.val1 = Mixed(a, b)
    BY <1>0, <2>1, <2>3 DEF SizeRead
  <2>8. user'.pc = "low2" => \E a \in Nat, b \in known', c \in Nat :
                               /\ a <= b /\ b <= c /\ c <= Size'
                               /\ user'.val1 = Mixed(a, b) /\ user'.val = c \div Base
    <3> SUFFICES ASSUME user.pc = "low2"
                 PROVE \E a \in Nat, b \in known', c \in Nat :
                         /\ a <= b /\ b <= c /\ c <= Size'
                         /\ user.val1 = Mixed(a, b) /\ user.val = c \div Base
      BY <2>1
    <3>1. PICK a \in Nat, b \in known, c \in Nat :
            a <= b /\ b <= c /\ c <= Size /\ user.val1 = Mixed(a, b) /\ user.val = c \div Base
      BY <1>0 DEF SizeRead
    <3>2. c <= Size' /\ b \in known' BY <1>0, <2>1, <2>3, <3>1
    <3> QED BY <3>1, <3>2
  <2>9. user'.pc = "ptr" => user'.val \in known' BY <1>0, <2>1, <2>3 DEF SizeRead
  <2> QED BY <2>4, <2>5, <2>6, <2>7, <2>8, <2>9 DEF SizeRead
<1>6. AtHand'
  <2>1. user' = user /\ rdwr' = rdwr /\ done' = done BY <1>1
  <2>2. user.len \in Nat BY <1>u DEF BufferUser
  <2>3. user.pc \in {"data", "set", "command"} => user.len <= Size' /\ user.ptr = done
    BY <1>0, <1>4, <1>c, <2>2 DEF AtHand
  <2> QED BY <1>0, <2>1, <2>3 DEF AtHand
<1>7. FirstMoved' = FirstMoved BY <1>1 DEF FirstMoved
<1>8. InMoved' BY <1>0, <1>1, <1>7 DEF InMoved
<1>9. CASE side = "rx"
  <2>1. mem' = Overwritten(mem, far, n) BY <1>m, <1>9
  <2>2. ASSUME NEW i \in 0 .. Size + n - 1 PROVE Holds(mem', done + i)
    <3>1. \A x \in 0 .. SizeOf(far, done) - 1 : Holds(mem, done + x) BY <1>0, <1>9 DEF InRing
    <3>2. SizeOf(far, done) + n <= Cap /\ i \in 0 .. SizeOf(far, done) + n - 1 BY <1>0, <1>1
    <3>3. Holds(Overwritten(mem, far, n), done + i) BY <1>0, <1>c, <3>1, <3>2, RingFilled
    <3> QED BY <2>1, <3>3
  <2>3. InRing'
    <3>1. side' = "rx" /\ done' = done BY <1>1, <1>9
    <3>2. ASSUME NEW i \in 0 .. Size' - 1 PROVE Holds(mem', done' + i)
      <4>1. i \in 0 .. Size + n - 1 BY <1>0, <1>4, <1>c
      <4> QED BY <2>2, <3>1, <4>1
    <3>3. Size' <= Cap BY <1>1, <1>4
    <3> QED BY <3>1, <3>2, <3>3 DEF InRing
  <2>4. mem' \in [0 .. Cap - 1 -> Nat] BY <1>0, <1>c, <1>u, <2>1, OverwrittenRing
  <2>5. known' \subseteq Nat BY <1>k, <1>u
  <2>6. BufferTypes' BY <1>0, <1>1, <1>3, <2>4, <2>5 DEF BufferTypes
  <2> QED BY <1>5, <1>6, <1>8, <2>3, <2>6 DEF BufferInv
<1>10. CASE side = "tx"
  <2>1. mem' = mem BY <1>m, <1>10
  <2>2. ASSUME NEW i \in 0 .. Cap - (Size + n) - 1 PROVE Holds(mem, far' + Size16 - Cap + i)
    <3>1. \A x \in 0 .. Cap - SizeOf(far, done) - 1 : Holds(mem, far + Size16 - Cap + x)
      BY <1>0, <1>10 DEF InRing
    <3>2. SizeOf(far, done) + n <= Cap /\ i \in 0 .. Cap - (SizeOf(far, done) + n) - 1 BY <1>0, <1>1
    <3>3. Holds(mem, ((far + n) % Size16) + Size16 - Cap + i)
      BY <1>0, <1>c, <3>1, <3>2, RingAcknowledged
    <3> QED BY <1>1, <3>3
  <2>3. ASSUME user.pc \in {"set", "command"} PROVE \A i \in 0 .. user.len - 1 : Holds(mem, done + i)
    BY <1>0, <1>10, <2>3 DEF InRing
  <2>4. InRing'
    <3>1. side' = "tx" /\ done' = done /\ user' = user BY <1>1, <1>10
    <3> QED BY <1>1, <1>4, <2>1, <2>2, <2>3, <3>1 DEF InRing
  <2>5. known' \subseteq Nat BY <1>k, <1>u
  <2>6. BufferTypes' BY <1>0, <1>1, <1>3, <2>1, <2>5 DEF BufferTypes
  <2> QED BY <1>5, <1>6, <1>8, <2>4, <2>6 DEF BufferInv
<1> QED BY <1>u, <1>9, <1>10

LEMMA BufferInvKept == BufferSpec => []BufferInv
<1>1. BufferInit => BufferInv
  <2> SUFFICES ASSUME BufferInit PROVE BufferInv
    OBVIOUS
  <2>1. /\ side \in {"rx", "tx"} /\ mem = [c \in 0 .. Cap - 1 |-> 0] /\ rdwr = 0 /\ done = 0
        /\ far = (IF side = "rx" THEN 0 ELSE Cap)
        /\ user = [pc |-> "idle", val |-> 0, val1 |-> 0, len |-> 0, ptr |-> 0]
        /\ known = {} /\ moved = <<>>
    BY DEF BufferInit
  <2>2. Cap \in Nat \ {0} /\ Size16 \in Nat \ {0} /\ Cap < Size16 BY SizesOfBuffer
  <2>3. far \in PointerValues /\ 0 \in PointerValues BY <2>1, <2>2 DEF PointerValues
  <2>4. Size = far
    <3> DEFINE x == far + Size16 - done
    <3>1. x \in Nat /\ Size16 <= x /\ x < 2 * Size16 /\ x - Size16 = far BY <2>1, <2>2
    <3>2. Size = x % Size16 BY DEF Size
    <3> HIDE DEF x
    <3> QED BY <2>2, <3>1, <3>2, SmallRemainder
  <2>5. BufferTypes
    <3>1. user \in [pc : BufferPCs, val : Nat, val1 : Nat, len : Nat, ptr : PointerValues]
      BY <2>1, <2>3 DEF BufferPCs
    <3>2. mem \in [0 .. Cap - 1 -> Nat] /\ moved \in Seq(Nat) /\ known \subseteq Nat BY <2>1
    <3> QED BY <2>1, <2>3, <3>1, <3>2 DEF BufferTypes
  <2>6. user.pc = "idle" BY <2>1
  <2>7. SizeRead BY <2>6 DEF SizeRead, Reads
  <2>8. AtHand BY <2>1, <2>6 DEF AtHand
  <2>9. InRing BY <2>1, <2>2, <2>4, <2>6 DEF InRing
  <2>10. InMoved
    <3>1. Len(moved) = 0 BY <2>1
    <3> QED BY <2>2, <2>6, <3>1 DEF InMoved
  <2> QED BY <2>5, <2>7, <2>8, <2>9, <2>10 DEF BufferInv
<1>2. BufferInv /\ [BufferNext]_bufferVars => BufferInv'
  <2> SUFFICES ASSUME BufferInv, [BufferNext]_bufferVars PROVE BufferInv'
    OBVIOUS
  <2>1. CASE BeginSize \/ High1 \/ High2 BY <2>1, SizeReadHigh
  <2>2. CASE Low1 \/ Low2 BY <2>2, SizeReadLow
  <2>3. CASE ReadPointer BY <2>3, PointerRead
  <2>4. CASE ReadBuffer BY <2>4, BufferRead
  <2>5. CASE WriteBuffer BY <2>5, BufferWritten
  <2>6. CASE SetPointer BY <2>6, PointerSet
  <2>7. CASE Command BY <2>7, CommandTaken
  <2>8. CASE \E n \in Chunks : Grow(n) BY <2>8, ChipGrows
  <2>9. CASE UNCHANGED bufferVars
    <3>1. /\ side' = side /\ mem' = mem /\ rdwr' = rdwr /\ done' = done /\ far' = far
          /\ user' = user /\ known' = known /\ moved' = moved
      BY <2>9 DEF bufferVars
    <3>2. Size' = Size /\ FirstMoved' = FirstMoved /\ (Reads' <=> Reads)
      BY <3>1 DEF Size, FirstMoved, Reads
    <3>3. BufferTypes' BY <3>1 DEF BufferInv, BufferTypes
    <3>4. SizeRead' BY <3>1, <3>2 DEF BufferInv, SizeRead
    <3>5. AtHand' BY <3>1, <3>2 DEF BufferInv, AtHand
    <3>6. InRing' BY <3>1, <3>2 DEF BufferInv, InRing, Holds, Cell
    <3>7. InMoved' BY <3>1, <3>2 DEF BufferInv, InMoved
    <3> QED BY <3>3, <3>4, <3>5, <3>6, <3>7 DEF BufferInv
  <2> QED BY <2>1, <2>2, <2>3, <2>4, <2>5, <2>6, <2>7, <2>8, <2>9 DEF BufferNext, UserNext
<1> QED BY <1>1, <1>2, PTL DEF BufferSpec

\* A size other than zero that getSn_RX_RSR or getSn_TX_FSR returns is one the
\* register had during the call, however it grows between the reads of its bytes.
THEOREM SizeAlwaysTrue == BufferSpec => []SizeIsTrue
<1>1. BufferInv => SizeIsTrue BY DEF BufferInv, SizeRead, SizeIsTrue
<1> QED BY <1>1, BufferInvKept, PTL

\* wiz_recv_data delivers the bytes in the order they arrived and wiz_send_data sends
\* them in the order they were written, without overwriting one that is not
\* acknowledged, for rings and registers of any size.
THEOREM BytesAlwaysInOrder == BufferSpec => []InOrder
<1>1. BufferInv => InOrder
  <2> SUFFICES ASSUME BufferInv PROVE InOrder
    OBVIOUS
  <2>1. \A i \in 1 .. Len(moved) : moved[i] = Byte(FirstMoved + i - 1) BY DEF BufferInv, InMoved
  <2>2. side = "tx" => \A i \in 0 .. Cap - Size - 1 : Holds(mem, far + Size16 - Cap + i)
    BY DEF BufferInv, InRing
  <2> QED BY <2>1, <2>2 DEF InOrder, Holds, Cell, Byte
<1> QED BY <1>1, BufferInvKept, PTL

-----------------------------------------------------------------------------
(* The loop                                                                *)

\* The ring x makes of S is one: no part of S is closed under next.
Whole(x, S) == \A T \in SUBSET S : T # {} /\ (\A n \in T : x.next[n] \in T) => T = S

AllWhole(x, o) == \A list \in Heads : Whole(x, Members(o, list))

\* The pointers after _RyanListAdd and _RyanListDel_entry.
LEMMA InsertedAt ==
  ASSUME NEW x \in Heaps, NEW S \in SUBSET Nodes, NEW e \in Nodes, e \notin S,
         NEW p \in S, Ring(x, S)
  PROVE  LET y == Inserted(x, e, p, x.next[p])
         IN  /\ \A n \in Nodes : y.next[n] = IF n = p THEN e ELSE IF n = e THEN x.next[p] ELSE x.next[n]
             /\ \A n \in Nodes : y.prev[n] = IF n = e THEN p ELSE IF n = x.next[p] THEN e ELSE x.prev[n]
<1> DEFINE y == Inserted(x, e, p, x.next[p])
           q == x.next[p]
<1>1. p \in Nodes /\ q \in Nodes /\ e # p /\ e # q
  BY DEF Ring
<1>2. /\ y.next = [x.next EXCEPT ![e] = q, ![p] = e]
      /\ y.prev = [x.prev EXCEPT ![q] = e, ![e] = p]
  BY DEF Inserted
<1>3. \A n \in Nodes : y.next[n] = IF n = p THEN e ELSE IF n = e THEN q ELSE x.next[n]
  BY <1>1, <1>2 DEF Heaps
<1>4. \A n \in Nodes : y.prev[n] = IF n = e THEN p ELSE IF n = q THEN e ELSE x.prev[n]
  BY <1>1, <1>2 DEF Heaps
<1> QED
  BY <1>3, <1>4

LEMMA DeletedAt ==
  ASSUME NEW x \in Heaps, NEW S \in SUBSET Nodes, NEW e \in S, Ring(x, S)
  PROVE  LET y == Deleted(x, e)
         IN  /\ \A n \in Nodes : y.next[n] = IF n = x.prev[e] THEN x.next[e] ELSE x.next[n]
             /\ \A n \in Nodes : y.prev[n] = IF n = x.next[e] THEN x.prev[e] ELSE x.prev[n]
<1>1. x.prev[e] \in Nodes /\ x.next[e] \in Nodes
  BY DEF Ring
<1> QED
  BY <1>1 DEF Deleted, Heaps

LEMMA InsertWhole ==
  ASSUME NEW x \in Heaps, NEW S \in SUBSET Nodes, NEW e \in Nodes, e \notin S,
         NEW p \in S, Ring(x, S), Whole(x, S)
  PROVE  /\ Whole(Inserted(x, e, p, x.next[p]), S \cup {e})
         /\ \A T \in SUBSET Nodes : Whole(x, T) /\ T \cap (S \cup {e}) = {}
              => Whole(Inserted(x, e, p, x.next[p]), T)
<1> DEFINE y == Inserted(x, e, p, x.next[p])
           q == x.next[p]
<1>1. p \in Nodes /\ q \in S /\ e # p /\ e # q
  BY DEF Ring
<1>2. \A n \in Nodes : y.next[n] = IF n = p THEN e ELSE IF n = e THEN q ELSE x.next[n]
  BY InsertedAt
<1> HIDE DEF y
<1>3. ASSUME NEW T \in SUBSET (S \cup {e}), T # {}, \A n \in T : y.next[n] \in T
      PROVE  T = S \cup {e}
  <2> DEFINE R == T \ {e}
  <2>1. e \in T => q \in T
    BY <1>1, <1>2, <1>3
  <2>2. p \in T => e \in T
    BY <1>1, <1>2, <1>3
  <2>3. R # {} /\ R \in SUBSET S
    BY <1>1, <1>3, <2>1
  <2>4. ASSUME NEW n \in R PROVE x.next[n] \in R
    <3>1. n \in S /\ n \in T /\ n # e /\ y.next[n] \in T /\ x.next[n] \in S /\ n \in Nodes
      BY <1>3, <2>3 DEF Ring
    <3>2. CASE n = p
      BY <1>1, <2>1, <2>2, <3>1, <3>2
    <3>3. CASE n # p
      BY <1>2, <3>1, <3>3
    <3> QED
      BY <3>2, <3>3
  <2>5. R = S
    BY <2>3, <2>4 DEF Whole
  <2> QED
    BY <1>3, <2>2, <2>5
<1>4. ASSUME NEW T \in SUBSET Nodes, Whole(x, T), T \cap (S \cup {e}) = {}
      PROVE  Whole(y, T)
  <2>1. \A n \in T : y.next[n] = x.next[n]
    BY <1>2, <1>4
  <2> QED
    BY <1>4, <2>1 DEF Whole
<1>5. Whole(y, S \cup {e})
  BY <1>3 DEF Whole
<1> QED
  BY <1>4, <1>5 DEF y

LEMMA DeleteWhole ==
  ASSUME NEW x \in Heaps, NEW S \in SUBSET Nodes, NEW e \in S, Ring(x, S), Whole(x, S)
  PROVE  /\ Whole(Deleted(x, e), S \ {e})
         /\ \A T \in SUBSET Nodes : Whole(x, T) /\ T \cap S = {} => Whole(Deleted(x, e), T)
<1> DEFINE y == Deleted(x, e)
           p == x.prev[e]
           q == x.next[e]
<1>1. p \in S /\ q \in S /\ p \in Nodes /\ x.next[p] = e /\ \A n \in S : x.next[n] = e => n = p
  BY DEF Ring
<1>2. \A n \in Nodes : y.next[n] = IF n = p THEN q ELSE x.next[n]
  BY DeletedAt
<1> HIDE DEF y
<1>3. ASSUME NEW T \in SUBSET (S \ {e}), T # {}, \A n \in T : y.next[n] \in T
      PROVE  T = S \ {e}
  <2>1. CASE p \in T
    <3>1. q \in T
      BY <1>1, <1>2, <1>3, <2>1
    <3> DEFINE R == T \cup {e}
    <3>2. R \in SUBSET S /\ R # {} /\ \A n \in R : x.next[n] \in R
      BY <1>1, <1>2, <1>3, <3>1
    <3> HIDE DEF R
    <3>3. R = S
      BY <3>2 DEF Whole
    <3> QED
      BY <1>3, <3>3 DEF R
  <2>2. CASE p \notin T
    <3>1. ASSUME NEW n \in T PROVE x.next[n] \in T
      BY <1>2, <1>3, <2>2
    <3>2. T = S
      BY <1>3, <3>1 DEF Whole
    <3> QED
      BY <1>1, <2>2, <3>2
  <2> QED
    BY <2>1, <2>2
<1>4. ASSUME NEW T \in SUBSET Nodes, Whole(x, T), T \cap S = {}
      PROVE  Whole(y, T)
  <2>1. \A n \in T : y.next[n] = x.next[n]
    BY <1>1, <1>2, <1>4
  <2> QED
    BY <1>4, <2>1 DEF Whole
<1>5. Whole(y, S \ {e})
  BY <1>3 DEF Whole
<1> QED
  BY <1>4, <1>5 DEF y

\* The lists stay whole as they stay rings.
LEMMA PutWhole ==
  ASSUME NEW x, NEW o, Good(x, o), AllWhole(x, o), NEW e \in Entries, o[e] = Null,
         NEW list \in Heads, NEW p \in Members(o, list)
  PROVE  AllWhole(Inserted(x, e, p, x.next[p]), [o EXCEPT ![e] = list])
<1> DEFINE y == Inserted(x, e, p, x.next[p])
           o2 == [o EXCEPT ![e] = list]
           S == Members(o, list)
<1>1. /\ x \in Heaps /\ o \in [Entries -> Heads \cup {Null}] /\ Ring(x, S) /\ Whole(x, S)
      /\ S \in SUBSET Nodes /\ e \in Nodes /\ e \notin S
  BY NodesDistinct DEF Good, Members, AllWhole
<1>2. /\ Whole(y, S \cup {e})
      /\ \A T \in SUBSET Nodes : Whole(x, T) /\ T \cap (S \cup {e}) = {} => Whole(y, T)
  BY <1>1, InsertWhole
<1>3. Members(o2, list) = S \cup {e}
  BY <1>1 DEF Members
<1>4. ASSUME NEW l \in Heads, l # list  PROVE Whole(y, Members(o2, l))
  <2>0. \A k \in Entries : (o2[k] = l) <=> (o[k] = l)
    BY <1>1, <1>4, NodesDistinct
  <2>1. Members(o2, l) = Members(o, l)
    BY <2>0 DEF Members
  <2>2. Members(o, l) \in SUBSET Nodes /\ Members(o, l) \cap (S \cup {e}) = {}
    BY <1>4, NodesDistinct DEF Members
  <2>3. Whole(x, Members(o, l))
    BY DEF AllWhole
  <2> QED
    BY <1>2, <2>1, <2>2, <2>3
<1> HIDE DEF y, o2, S
<1>5. \A l \in Heads : Whole(y, Members(o2, l))
  BY <1>2, <1>3, <1>4
<1> QED
  BY <1>5 DEF AllWhole, y, o2

LEMMA TakeWhole ==
  ASSUME NEW x, NEW o, Good(x, o), AllWhole(x, o), NEW e \in Entries, o[e] # Null
  PROVE  AllWhole(Deleted(x, e), [o EXCEPT ![e] = Null])
<1> DEFINE y == Deleted(x, e)
           o2 == [o EXCEPT ![e] = Null]
           S == Members(o, o[e])
<1>1. /\ x \in Heaps /\ o \in [Entries -> Heads \cup {Null}] /\ Ring(x, S) /\ Whole(x, S)
      /\ S \in SUBSET Nodes /\ e \in S /\ o[e] \in Heads
  BY NodesDistinct DEF Good, Members, AllWhole
<1>2. /\ Whole(y, S \ {e})
      /\ \A T \in SUBSET Nodes : Whole(x, T) /\ T \cap S = {} => Whole(y, T)
  BY <1>1, DeleteWhole
<1>3. Members(o2, o[e]) = S \ {e}
  BY <1>1, NodesDistinct DEF Members
<1>4. ASSUME NEW l \in Heads, l # o[e]  PROVE Whole(y, Members(o2, l))
  <2>0. \A k \in Entries : (o2[k] = l) <=> (o[k] = l)
    BY <1>1, <1>4, NodesDistinct
  <2>1. Members(o2, l) = Members(o, l)
    BY <2>0 DEF Members
  <2>2. Members(o, l) \in SUBSET Nodes /\ Members(o, l) \cap S = {}
    BY <1>1, <1>4, NodesDistinct DEF Members
  <2>3. Whole(x, Members(o, l))
    BY DEF AllWhole
  <2> QED
    BY <1>2, <2>1, <2>2, <2>3
<1> HIDE DEF y, o2, S
<1>5. \A l \in Heads : Whole(y, Members(o2, l))
  BY <1>2, <1>3, <1>4
<1> QED
  BY <1>5 DEF AllWhole, y, o2

LEMMA AloneWhole ==
  ASSUME NEW x, NEW o, Good(x, o), AllWhole(x, o), NEW e \in Entries, o[e] = Null
  PROVE  AllWhole(Alone(x, e), o)
<1>1. \A n \in Nodes : n # e => Alone(x, e).next[n] = x.next[n]
  BY NodesDistinct DEF Alone, Good, Heaps
<1>2. ASSUME NEW l \in Heads PROVE Whole(Alone(x, e), Members(o, l))
  <2>1. \A n \in Members(o, l) : n \in Nodes /\ n # e
    BY NodesDistinct DEF Members
  <2>2. \A n \in Members(o, l) : Alone(x, e).next[n] = x.next[n]
    BY <1>1, <2>1
  <2>3. Whole(x, Members(o, l))
    BY DEF AllWhole
  <2> QED
    BY <2>2, <2>3 DEF Whole
<1> QED
  BY <1>2 DEF AllWhole

LEMMA EndsWhole ==
  ASSUME NEW x, NEW o, Good(x, o), AllWhole(x, o), NEW e \in Entries, o[e] = Null, NEW list \in Heads
  PROVE  /\ AllWhole(AtHead(x, e, list), [o EXCEPT ![e] = list])
         /\ AllWhole(AtTail(x, e, list), [o EXCEPT ![e] = list])
<1>1. list \in Members(o, list) /\ Ring(x, Members(o, list))
  BY DEF Members, Good
<1>2. x.prev[list] \in Members(o, list) /\ x.next[x.prev[list]] = list
  BY <1>1 DEF Ring
<1>3. AtHead(x, e, list) = Inserted(x, e, list, x.next[list])
  BY DEF AtHead
<1>4. AtTail(x, e, list) = Inserted(x, e, x.prev[list], x.next[x.prev[list]])
  BY <1>2 DEF AtTail
<1>5. AllWhole(AtHead(x, e, list), [o EXCEPT ![e] = list])
  BY <1>1, <1>3, PutWhole
<1>6. AllWhole(AtTail(x, e, list), [o EXCEPT ![e] = list])
  BY <1>2, <1>4, PutWhole
<1> QED
  BY <1>5, <1>6

Visited == {seen[i] : i \in 1 .. Len(seen)}

\* The head and the entries that have been visited and are still on the list.
Passed == {loop.list} \cup (Visited \cap Of(loop.list))

\* The loop goes round the list: what it has passed is one stretch of it, up to curr,
\* and what it has not visited does not lead back.  When ahead is stale, because the
\* entry after curr was appended after ahead was read, nothing it must visit is left.
LoopAt ==
    /\ Outside => seen = <<>>
    /\ ~Outside =>
         /\ Visited \subseteq Entries
         /\ \A i, j \in 1 .. Len(seen) : i # j => seen[i] # seen[j]
         /\ begun \subseteq Visited \cup Of(loop.list)
         /\ \A n \in Of(loop.list) \ Passed : heap.next[n] \notin Visited
         /\ loop.curr = loop.list => begun \subseteq Visited
         /\ loop.curr # loop.list =>
              /\ loop.curr \in Of(loop.list) \ Passed
              /\ heap.prev[loop.curr] \in Passed
              /\ \A n \in Passed : heap.next[n] \in Passed \cup {loop.curr}
              /\ \/ loop.ahead = heap.next[loop.curr]
                 \/ loop.ahead = loop.list /\ begun \subseteq Visited \cup {loop.curr}

\* What a round does to the list: nothing, or it takes curr from it.
Body(x) ==
    \/ x = heap /\ on' = on
    \/ /\ on' = [on EXCEPT ![loop.curr] = Null]
       /\ \A n \in Of(loop.list) \ {loop.curr} :
            /\ x.next[n] = IF n = heap.prev[loop.curr] THEN heap.next[loop.curr] ELSE heap.next[n]
            /\ x.prev[n] = IF n = heap.next[loop.curr] THEN heap.prev[loop.curr] ELSE heap.prev[n]

LEMMA LoopFacts ==
  ASSUME ListInv, AllWhole(heap, on), LoopAt, ~Outside
  PROVE  /\ loop.list \in Heads /\ loop \in [list : Heads, curr : Nodes, ahead : Nodes]
         /\ loop.list \notin Entries /\ loop.list \in Of(loop.list)
         /\ Ring(heap, Of(loop.list)) /\ Whole(heap, Of(loop.list))
         /\ Of(loop.list) \ {loop.list} \subseteq Entries
         /\ begun \subseteq Entries /\ seen \in Seq(Nodes)
<1>1. loop \in [list : Heads, curr : Nodes, ahead : Nodes] /\ begun \subseteq Entries /\ seen \in Seq(Nodes)
  BY DEF ListInv, LoopOK, Outside, NoLoop
<1>2. loop.list \in Heads
  BY <1>1
<1>3. Members(on, loop.list) = Of(loop.list)
  BY DEF Members, Of
<1>4. Ring(heap, Of(loop.list)) /\ Whole(heap, Of(loop.list))
  BY <1>2, <1>3 DEF ListInv, Good, AllWhole
<1>5. loop.list \notin Entries
  BY <1>2, NodesDistinct
<1> QED
  BY <1>1, <1>2, <1>4, <1>5 DEF Of

LEMMA LoopRound ==
  ASSUME ListInv, AllWhole(heap, on), LoopAt, NEW x, Round(x), Body(x)
  PROVE  LoopAt'
<1>0. ~Outside /\ loop.curr # loop.list /\ heap' = x /\ seen' = Append(seen, loop.curr) /\ begun' = begun
  BY DEF Round
<1> DEFINE L == loop.list
           c == loop.curr
           a == loop.ahead
           S == Of(L)
           K == Passed
           V == Visited
           p == heap.prev[c]
           q == heap.next[c]
<1>1. /\ L \in Heads /\ loop \in [list : Heads, curr : Nodes, ahead : Nodes]
      /\ L \notin Entries /\ L \in S /\ Ring(heap, S) /\ Whole(heap, S)
      /\ S \ {L} \subseteq Entries /\ begun \subseteq Entries /\ seen \in Seq(Nodes)
  BY <1>0, LoopFacts
<1>2. /\ V \subseteq Entries /\ begun \subseteq V \cup S
      /\ \A i, j \in 1 .. Len(seen) : i # j => seen[i] # seen[j]
      /\ \A n \in S \ K : heap.next[n] \notin V
      /\ c \in S \ K /\ p \in K
      /\ \A n \in K : heap.next[n] \in K \cup {c}
      /\ a = q \/ (a = L /\ begun \subseteq V \cup {c})
  BY <1>0 DEF LoopAt
<1>3. K = {L} \cup (V \cap S)
  BY DEF Passed
<1>4. c \in Entries /\ c \notin V /\ c # L
  BY <1>0, <1>1, <1>2, <1>3
<1>5. loop' = [list |-> L, curr |-> a, ahead |-> x.next[a]]
  BY <1>1 DEF Round, Ahead
<1>6. loop'.list = L /\ loop'.curr = a /\ loop'.ahead = x.next[a] /\ ~Outside'
  <2>1. loop'.list = L /\ loop'.curr = a /\ loop'.ahead = x.next[a]
    BY <1>5
  <2> QED
    BY <1>1, <2>1, NodesDistinct DEF Outside
<1>7. Visited' = V \cup {c}
  <2>1. /\ Len(seen') = Len(seen) + 1 /\ Len(seen) \in Nat /\ seen'[Len(seen) + 1] = c
        /\ \A i \in 1 .. Len(seen) : seen'[i] = seen[i]
    BY <1>0, <1>1
  <2>2. 1 .. Len(seen') = (1 .. Len(seen)) \cup {Len(seen) + 1}
    BY <2>1
  <2> QED
    BY <2>1, <2>2 DEF Visited
<1>8. \A i, j \in 1 .. Len(seen') : i # j => seen'[i] # seen'[j]
  <2>1. /\ Len(seen') = Len(seen) + 1 /\ Len(seen) \in Nat /\ seen'[Len(seen) + 1] = c
        /\ \A i \in 1 .. Len(seen) : seen'[i] = seen[i]
    BY <1>0, <1>1
  <2>2. \A i \in 1 .. Len(seen) : seen[i] # c
    BY <1>4 DEF Visited
  <2> QED
    BY <1>2, <2>1, <2>2
<1>9. q \in S /\ q # c /\ q \notin V
  <2>1. q \in S
    BY <1>1, <1>2 DEF Ring
  <2>2. q # c
    <3> SUFFICES ASSUME q = c PROVE FALSE
      OBVIOUS
    <3>1. {c} \in SUBSET S /\ {c} # {} /\ \A n \in {c} : heap.next[n] \in {c}
      BY <1>2
    <3>2. {c} = S
      BY <1>1, <3>1 DEF Whole
    <3> QED
      BY <1>1, <1>4, <3>2
  <2>3. q \notin V
    BY <1>2
  <2> QED
    BY <2>1, <2>2, <2>3
<1>10. \A n \in S : heap.next[n] = c => n = p
  BY <1>1 DEF Ring
<1>11. q = L => begun \subseteq V \cup {c}
  <2> SUFFICES ASSUME q = L PROVE begun \subseteq V \cup {c}
    OBVIOUS
  <2> DEFINE R == K \cup {c}
  <2>1. R \in SUBSET S /\ R # {}
    BY <1>1, <1>2, <1>3
  <2>2. \A n \in R : heap.next[n] \in R
    BY <1>2, <1>3
  <2>3. R = S
    <3> HIDE DEF R
    <3> QED
      BY <1>1, <2>1, <2>2 DEF Whole
  <2>4. S \subseteq {L} \cup V \cup {c}
    BY <1>3, <2>3
  <2> QED
    BY <1>1, <1>2, <2>4
<1>12. /\ a = L => begun \subseteq V \cup {c}
       /\ a # L => a = q
  BY <1>2, <1>11
<1>13. PICK M \in SUBSET S :
         /\ Of(L)' = M /\ S \ {c} \subseteq M
         /\ \A n \in S \ {c} : x.next[n] = IF n = p /\ c \notin M THEN q ELSE heap.next[n]
         /\ \A n \in S \ {c} : x.prev[n] = IF n = q /\ c \notin M THEN p ELSE heap.prev[n]
         /\ c \in M => x.next[c] = q
  <2>1. CASE x = heap /\ on' = on
    <3>1. Of(L)' = S
      BY <1>6, <2>1 DEF Of
    <3> QED
      BY <1>2, <2>1, <3>1
  <2>2. CASE on' = [on EXCEPT ![c] = Null] /\ ~(x = heap /\ on' = on)
    <3>1. on \in [Entries -> Heads \cup {Null}] /\ Null \notin Heads
      BY NodesDistinct DEF ListInv, Good
    <3>2. \A e \in Entries : on'[e] = L <=> (on[e] = L /\ e # c)
      BY <1>1, <2>2, <3>1
    <3>3. Of(L)' = S \ {c}
      BY <1>4, <1>6, <3>2 DEF Of
    <3>4. \A n \in S \ {c} : /\ x.next[n] = IF n = p THEN q ELSE heap.next[n]
                             /\ x.prev[n] = IF n = q THEN p ELSE heap.prev[n]
      BY <2>2 DEF Body
    <3> QED
      BY <3>3, <3>4
  <2> QED
    BY <2>1, <2>2 DEF Body
<1> DEFINE W == V \cup {c}
           J == {L} \cup (W \cap M)
<1>14. Passed' = J
  BY <1>6, <1>7, <1>13 DEF Passed
<1>15. W \subseteq Entries /\ begun \subseteq W \cup M
  BY <1>2, <1>4, <1>13
<1>16. ASSUME NEW n \in M \ J PROVE x.next[n] \notin W
  <2>1. n \in S \ K /\ n # c /\ n # p
    BY <1>2, <1>3, <1>13
  <2>2. x.next[n] = heap.next[n]
    BY <1>13, <2>1
  <2>3. heap.next[n] \notin V /\ heap.next[n] # c
    BY <1>2, <1>10, <2>1
  <2> QED
    BY <2>2, <2>3
<1>17. ASSUME a # L
       PROVE  /\ a \in M \ J /\ x.prev[a] \in J
              /\ \A n \in J : x.next[n] \in J \cup {a}
  <2>1. a = q /\ q # L
    BY <1>12, <1>17
  <2>2. a \in M \ J
    BY <1>9, <1>13, <2>1
  <2>3. heap.prev[q] = c
    BY <1>1, <1>2 DEF Ring
  <2>4. p \in J
    BY <1>2, <1>3, <1>4, <1>13
  <2>5. x.prev[a] \in J
    <3>1. x.prev[q] = IF c \notin M THEN p ELSE c
      BY <1>9, <1>13, <2>3
    <3> QED
      BY <2>1, <2>4, <3>1
  <2>6. ASSUME NEW n \in J PROVE x.next[n] \in J \cup {a}
    <3>1. CASE n = c
      BY <1>4, <1>13, <2>1, <2>6, <3>1
    <3>2. CASE n # c
      <4>1. n \in K /\ n \in S
        BY <1>1, <1>3, <1>13, <2>6, <3>2
      <4>2. heap.next[n] \in K \cup {c} /\ (heap.next[n] = c => n = p)
        BY <1>2, <1>10, <4>1
      <4>3. K \subseteq J
        BY <1>2, <1>3, <1>13
      <4>4. x.next[n] = IF n = p /\ c \notin M THEN q ELSE heap.next[n]
        BY <1>13, <3>2, <4>1
      <4>5. c \in M => c \in J
        OBVIOUS
      <4>6. n = p => heap.next[n] = c
        BY <1>1, <1>2 DEF Ring
      <4> QED
        BY <2>1, <4>2, <4>3, <4>4, <4>5, <4>6
    <3> QED
      BY <3>1, <3>2
  <2> QED
    BY <2>2, <2>5, <2>6
<1>18. /\ Visited' \subseteq Entries /\ begun' \subseteq Visited' \cup Of(loop.list)'
       /\ \A n \in Of(loop.list)' \ Passed' : heap'.next[n] \notin Visited'
       /\ loop'.curr = loop'.list => begun' \subseteq Visited'
  <2>1. Of(loop.list)' = M
    BY <1>6, <1>13 DEF Of
  <2> HIDE DEF J, K, S, V
  <2> QED
    BY <1>0, <1>6, <1>7, <1>12, <1>14, <1>15, <1>16, <2>1
<1>19. loop'.curr # loop'.list =>
         /\ loop'.curr \in Of(loop.list)' \ Passed'
         /\ heap'.prev[loop'.curr] \in Passed'
         /\ \A n \in Passed' : heap'.next[n] \in Passed' \cup {loop'.curr}
         /\ loop'.ahead = heap'.next[loop'.curr]
  <2>1. Of(loop.list)' = M
    BY <1>6, <1>13 DEF Of
  <2> HIDE DEF J, K, S, V
  <2> QED
    BY <1>0, <1>6, <1>14, <1>17, <2>1
<1> HIDE DEF J, K, S, V, L, c, a, p, q, W
<1> QED
  BY <1>6, <1>8, <1>18, <1>19 DEF LoopAt

\* The task appends an entry the loop has not met, to this list or to another.
LEMMA LoopTail ==
  ASSUME ListInv, AllWhole(heap, on), LoopAt, ~Outside,
         NEW e \in Entries, NEW list \in Heads, RyanListAddTail(e, list)
  PROVE  LoopAt'
<1> DEFINE L == loop.list
           c == loop.curr
           S == Of(L)
           K == Passed
           V == Visited
           T == Of(list)
           t == heap.prev[list]
<1>0. /\ on[e] = Null /\ heap' = AtTail(heap, e, list) /\ on' = [on EXCEPT ![e] = list]
      /\ loop' = loop /\ begun' = begun /\ seen' = seen
      /\ e \notin begun /\ \A i \in 1 .. Len(seen) : seen[i] # e
  BY DEF RyanListAddTail, Goes
<1>1. /\ L \in Heads /\ loop \in [list : Heads, curr : Nodes, ahead : Nodes]
      /\ L \notin Entries /\ L \in S /\ Ring(heap, S) /\ Whole(heap, S)
      /\ S \ {L} \subseteq Entries /\ begun \subseteq Entries /\ seen \in Seq(Nodes)
  BY LoopFacts
<1>2. /\ V \subseteq Entries /\ begun \subseteq V \cup S
      /\ \A i, j \in 1 .. Len(seen) : i # j => seen[i] # seen[j]
      /\ \A n \in S \ K : heap.next[n] \notin V
      /\ c = L => begun \subseteq V
      /\ c # L =>
           /\ c \in S \ K /\ heap.prev[c] \in K
           /\ \A n \in K : heap.next[n] \in K \cup {c}
           /\ loop.ahead = heap.next[c] \/ (loop.ahead = L /\ begun \subseteq V \cup {c})
  BY DEF LoopAt
<1>3. K = {L} \cup (V \cap S) /\ e \notin V /\ e \notin S /\ e # L
  BY <1>0, <1>1, NodesDistinct DEF Passed, Visited, Of
<1>4. /\ Members(on, list) = T /\ Ring(heap, T) /\ list \in T /\ T \in SUBSET Nodes
      /\ e \in Nodes /\ e \notin T /\ heap \in Heaps
      /\ on \in [Entries -> Heads \cup {Null}]
  <2>1. Members(on, list) = T
    BY DEF Members, Of
  <2>2. Ring(heap, T) /\ heap \in Heaps /\ on \in [Entries -> Heads \cup {Null}]
    BY <2>1 DEF ListInv, Good
  <2> QED
    BY <1>0, <2>1, <2>2, NodesDistinct DEF Of
<1>5. t \in T /\ heap.next[t] = list
  BY <1>4 DEF Ring
<1>6. heap' = Inserted(heap, e, t, heap.next[t])
  BY <1>0, <1>5 DEF AtTail
<1>7. /\ \A n \in Nodes : heap'.next[n] = IF n = t THEN e ELSE IF n = e THEN list ELSE heap.next[n]
      /\ \A n \in Nodes : heap'.prev[n] = IF n = e THEN t ELSE IF n = list THEN e ELSE heap.prev[n]
  <2> HIDE DEF t
  <2> QED
    BY <1>4, <1>5, <1>6, InsertedAt
<1>8. \A k \in Entries : on'[k] = L <=> (on[k] = L \/ (k = e /\ list = L))
  BY <1>0, <1>1, <1>4, NodesDistinct
<1>9. Of(L)' = IF list = L THEN S \cup {e} ELSE S
  BY <1>0, <1>8 DEF Of
<1>10. list # L => T \cap S = {}
  BY <1>1, <1>4, NodesDistinct DEF Of
<1>11. Visited' = V /\ Passed' = K /\ ~Outside'
  <2>1. Visited' = V
    BY <1>0 DEF Visited
  <2>2. Passed' = K
    BY <1>0, <1>3, <1>9, <2>1 DEF Passed
  <2> QED
    BY <1>0, <2>1, <2>2 DEF Outside
\* The last entry is not behind while the loop has an entry before it.
<1>12. c # L /\ list = L => t \notin K
  <2> SUFFICES ASSUME c # L, list = L, t \in K PROVE FALSE
    OBVIOUS
  <2> DEFINE U == S \ K
  <2>1. U \in SUBSET S /\ U # {}
    BY <1>2
  <2>2. ASSUME NEW n \in U PROVE heap.next[n] \in U
    <3>1. heap.next[n] \in S /\ heap.next[n] \notin V /\ heap.prev[heap.next[n]] = n
      BY <1>1, <1>2, <2>2 DEF Ring
    <3>2. heap.next[n] # L
      BY <2>2, <3>1
    <3> QED
      BY <1>3, <3>1, <3>2
  <2>3. U = S
    <3> HIDE DEF U
    <3> QED
      BY <1>1, <2>1, <2>2 DEF Whole
  <2> QED
    BY <1>1, <1>3, <2>3
\* If it is curr, nothing that was on the list when the loop began comes after it.
<1>13. c # L /\ list = L /\ c = t => begun \subseteq V \cup {c}
  <2> SUFFICES ASSUME c # L, list = L, c = t PROVE begun \subseteq V \cup {c}
    OBVIOUS
  <2> DEFINE R == K \cup {c}
  <2>1. R \in SUBSET S /\ R # {}
    BY <1>1, <1>2, <1>3
  <2>2. \A n \in R : heap.next[n] \in R
    BY <1>2, <1>3, <1>5
  <2>3. R = S
    <3> HIDE DEF R
    <3> QED
      BY <1>1, <2>1, <2>2 DEF Whole
  <2>4. S \subseteq {L} \cup V \cup {c}
    BY <1>3, <2>3
  <2> QED
    BY <1>1, <1>2, <2>4
<1>14. ASSUME NEW n \in Of(L)' \ K PROVE heap'.next[n] \notin V
  <2>1. n \in Nodes
    BY <1>1, <1>4, <1>9, NodesDistinct
  <2>2. CASE n = e
    <3>1. heap'.next[n] \in {e, list}
      BY <1>4, <1>5, <1>7, <2>1, <2>2
    <3> QED
      BY <1>2, <1>3, <3>1, NodesDistinct
  <2>3. CASE n # e
    <3>1. n \in S \ K
      BY <1>9, <1>14, <2>3
    <3>2. heap'.next[n] \in {e, heap.next[n]}
      BY <1>7, <2>1, <2>3
    <3> QED
      BY <1>2, <1>3, <3>1, <3>2
  <2> QED
    BY <2>2, <2>3
<1>15. ASSUME c # L
       PROVE  /\ c \in Of(L)' \ K /\ heap'.prev[c] \in K
              /\ \A n \in K : heap'.next[n] \in K \cup {c}
              /\ loop.ahead = heap'.next[c] \/ (loop.ahead = L /\ begun \subseteq V \cup {c})
  <2>1. c \in S \ K /\ c \in Entries /\ c # e /\ c # list
    BY <1>1, <1>2, <1>3, <1>15, NodesDistinct
  <2>2. heap'.prev[c] = heap.prev[c]
    BY <1>7, <2>1, NodesDistinct
  <2>3. ASSUME NEW n \in K PROVE heap'.next[n] = heap.next[n]
    <3>1. n \in S /\ n \in Nodes /\ n # e
      BY <1>1, <1>3, <2>3, NodesDistinct
    <3>2. n # t
      BY <1>5, <1>10, <1>12, <1>15, <2>3, <3>1
    <3> QED
      BY <1>7, <3>1, <3>2
  <2>4. loop.ahead = heap'.next[c] \/ (loop.ahead = L /\ begun \subseteq V \cup {c})
    <3>1. CASE c = t
      <4>1. list = L
        BY <1>5, <1>10, <2>1, <3>1
      <4>2. heap.next[c] = L
        BY <1>5, <3>1, <4>1
      <4> QED
        BY <1>2, <1>13, <1>15, <3>1, <4>1, <4>2
    <3>2. CASE c # t
      <4>1. heap'.next[c] = heap.next[c]
        BY <1>7, <2>1, <3>2, NodesDistinct
      <4> QED
        BY <1>2, <1>15, <4>1
    <3> QED
      BY <3>1, <3>2
  <2> QED
    BY <1>2, <1>9, <1>15, <2>1, <2>2, <2>3, <2>4
<1>16. loop'.list = L /\ loop'.curr = c /\ loop'.ahead = loop.ahead /\ Of(loop.list)' = Of(L)'
  BY <1>0
<1>17. begun' \subseteq Visited' \cup Of(loop.list)'
  BY <1>0, <1>2, <1>9, <1>11, <1>16
<1> HIDE DEF K, S, V, L, c, T, t
<1> QED
  BY <1>0, <1>2, <1>11, <1>14, <1>15, <1>16, <1>17 DEF LoopAt

LEMMA LoopBegins ==
  ASSUME ListInv, AllWhole(heap, on), NEW list \in Heads, ForEachSafe(list)
  PROVE  LoopAt'
<1>0. /\ loop' = [list |-> list, curr |-> heap.next[list], ahead |-> heap.next[heap.next[list]]]
      /\ begun' = {e \in Entries : on[e] = list} /\ seen' = <<>> /\ heap' = heap /\ on' = on
  BY DEF ForEachSafe
<1> DEFINE c == heap.next[list]
           S == Of(list)
<1>1. loop'.list = list /\ loop'.curr = c /\ loop'.ahead = heap.next[c]
  BY <1>0
<1>2. /\ Ring(heap, S) /\ Whole(heap, S) /\ list \in S /\ list \notin Entries
      /\ S = {list} \cup {e \in Entries : on[e] = list}
  <2>1. Members(on, list) = S
    BY DEF Members, Of
  <2> QED
    BY <2>1, NodesDistinct DEF ListInv, Good, AllWhole, Of
<1>3. ~Outside'
  BY <1>1, NodesDistinct DEF Outside
<1>4. Visited' = {} /\ Len(seen') = 0
  BY <1>0 DEF Visited
<1>5. Of(loop.list)' = S
  BY <1>0, <1>1 DEF Of
<1>6. Passed' = {list}
  BY <1>1, <1>4 DEF Passed
<1>7. c \in S /\ heap.prev[c] = list
  BY <1>2 DEF Ring
<1>8. c = list => begun' = {}
  <2> SUFFICES ASSUME c = list PROVE begun' = {}
    OBVIOUS
  <2>1. {list} \in SUBSET S /\ {list} # {} /\ \A n \in {list} : heap.next[n] \in {list}
    BY <1>2
  <2>2. S = {list}
    BY <1>2, <2>1 DEF Whole
  <2> QED
    BY <1>0, <1>2, <2>2
<1>9. begun' \subseteq S
  BY <1>0, <1>2
<1> HIDE DEF c, S
<1>10. /\ loop'.curr = loop'.list => begun' \subseteq Visited'
       /\ loop'.curr # loop'.list =>
            /\ loop'.curr \in Of(loop.list)' \ Passed'
            /\ heap'.prev[loop'.curr] \in Passed'
            /\ \A n \in Passed' : heap'.next[n] \in Passed' \cup {loop'.curr}
            /\ loop'.ahead = heap'.next[loop'.curr]
  <2>1. heap.next[list] = c
    BY DEF c
  <2> QED
    BY <1>0, <1>1, <1>5, <1>6, <1>7, <1>8, <2>1
<1>11. \A i, j \in 1 .. Len(seen') : i # j => seen'[i] # seen'[j]
  BY <1>4
<1> QED
  BY <1>3, <1>4, <1>5, <1>9, <1>10, <1>11 DEF LoopAt

VisitInv == AllWhole(heap, on) /\ LoopAt

\* Without a loop nothing is visited.
LEMMA NoVisits ==
  ASSUME LoopAt, Outside, UNCHANGED <<loop, begun, seen>>
  PROVE  LoopAt'
  BY DEF LoopAt, Outside

LEMMA VisitInvStep == ListInv /\ VisitInv /\ [ListNext]_listVars => VisitInv'
<1> SUFFICES ASSUME ListInv, VisitInv, [ListNext]_listVars  PROVE VisitInv'
  OBVIOUS
<1>0. /\ Good(heap, on) /\ AllWhole(heap, on) /\ LoopAt
      /\ on \in [Entries -> Heads \cup {Null}]
  BY DEF ListInv, VisitInv, Good
<1>1. ASSUME NEW e \in Entries, NEW list \in Heads, RyanListAdd(e, list)  PROVE VisitInv'
  <2>1. heap' = AtHead(heap, e, list) /\ on' = [on EXCEPT ![e] = list] /\ on[e] = Null
    BY <1>1 DEF RyanListAdd, Goes
  <2>2. AllWhole(heap', on')
    BY <1>0, <2>1, EndsWhole
  <2>3. LoopAt'
    BY <1>0, <1>1, NoVisits DEF RyanListAdd
  <2> QED
    BY <2>2, <2>3 DEF VisitInv, AllWhole
<1>2. ASSUME NEW e \in Entries, NEW list \in Heads, RyanListAddTail(e, list)  PROVE VisitInv'
  <2>1. heap' = AtTail(heap, e, list) /\ on' = [on EXCEPT ![e] = list] /\ on[e] = Null
    BY <1>2 DEF RyanListAddTail, Goes
  <2>2. AllWhole(heap', on')
    BY <1>0, <2>1, EndsWhole
  <2>3. CASE Outside
    <3>1. LoopAt'
      BY <1>0, <1>2, <2>3, NoVisits DEF RyanListAddTail
    <3> QED
      BY <2>2, <3>1 DEF VisitInv, AllWhole
  <2>4. CASE ~Outside
    <3>1. LoopAt'
      BY <1>0, <1>2, <2>4, LoopTail
    <3> QED
      BY <2>2, <3>1 DEF VisitInv, AllWhole
  <2> QED
    BY <2>3, <2>4
<1>3. ASSUME NEW e \in Entries, RyanListDel(e) \/ RyanListDelInit(e)  PROVE VisitInv'
  <2> DEFINE x == Deleted(heap, e)
             o == [on EXCEPT ![e] = Null]
  <2>1. on[e] # Null /\ on' = o /\ (heap' = x \/ heap' = Alone(x, e))
    BY <1>3 DEF RyanListDel, RyanListDelInit, Goes
  <2>2. Good(x, o) /\ AllWhole(x, o)
    BY <1>0, <2>1, TakeGood, TakeWhole
  <2>3. o[e] = Null
    BY <1>0, OnMoves
  <2> HIDE DEF x, o
  <2>4. AllWhole(Alone(x, e), o)
    BY <2>2, <2>3, AloneWhole
  <2>5. AllWhole(heap', on')
    BY <2>1, <2>2, <2>4
  <2>6. LoopAt'
    BY <1>0, <1>3, NoVisits DEF RyanListDel, RyanListDelInit
  <2> QED
    BY <2>5, <2>6 DEF VisitInv, AllWhole
<1>4. ASSUME NEW e \in Entries, NEW list \in Heads, RyanListMove(e, list) \/ RyanListMoveTail(e, list)
      PROVE VisitInv'
  <2> DEFINE x == Deleted(heap, e)
             o == [on EXCEPT ![e] = Null]
  <2>1. /\ on[e] # Null /\ on' = [on EXCEPT ![e] = list]
        /\ heap' = AtHead(x, e, list) \/ heap' = AtTail(x, e, list)
    BY <1>4 DEF RyanListMove, RyanListMoveTail, Goes
  <2>2. Good(x, o) /\ AllWhole(x, o)
    BY <1>0, <2>1, TakeGood, TakeWhole
  <2>3. o[e] = Null /\ [o EXCEPT ![e] = list] = on'
    BY <1>0, <2>1, OnMoves
  <2> HIDE DEF x, o
  <2>4. AllWhole(AtHead(x, e, list), on') /\ AllWhole(AtTail(x, e, list), on')
    BY <2>2, <2>3, EndsWhole
  <2>5. AllWhole(heap', on')
    BY <2>1, <2>4
  <2>6. LoopAt'
    BY <1>0, <1>4, NoVisits DEF RyanListMove, RyanListMoveTail
  <2> QED
    BY <2>5, <2>6 DEF VisitInv, AllWhole
<1>5. ASSUME NEW list \in Heads, ForEachSafe(list)  PROVE VisitInv'
  <2>1. heap' = heap /\ on' = on
    BY <1>5 DEF ForEachSafe
  <2>2. LoopAt'
    BY <1>0, <1>5, LoopBegins
  <2> QED
    BY <1>0, <2>1, <2>2 DEF VisitInv, AllWhole, Members, Whole
<1>6. CASE Leave
  <2>1. Round(heap) /\ on' = on /\ heap' = heap
    BY <1>6 DEF Leave, Round
  <2>2. LoopAt'
    BY <1>0, <2>1, LoopRound DEF Body
  <2> QED
    BY <1>0, <2>1, <2>2 DEF VisitInv, AllWhole, Members, Whole
<1>7. CASE LoopDel \/ LoopDelInit
  <2> DEFINE c == loop.curr
             x == Deleted(heap, c)
             o == [on EXCEPT ![c] = Null]
             S == Of(loop.list)
  <2>1. /\ c \in Entries /\ on[c] = loop.list /\ on' = o
        /\ (Round(x) /\ heap' = x) \/ (Round(Alone(x, c)) /\ heap' = Alone(x, c))
        /\ ~Outside
    BY <1>7 DEF LoopDel, LoopDelInit, Mine, Goes, Round
  <2>2. loop.list \in Heads /\ Ring(heap, S) /\ heap \in Heaps /\ c \in S /\ S \in SUBSET Nodes
    <3>1. loop.list \in Heads /\ Ring(heap, S)
      BY <1>0, <2>1, LoopFacts
    <3> QED
      BY <1>0, <2>1, <3>1, NodesDistinct DEF Good, Of
  <2>3. on[c] # Null
    BY <2>1, <2>2, NodesDistinct
  <2>4. Good(x, o) /\ AllWhole(x, o)
    BY <1>0, <2>1, <2>3, TakeGood, TakeWhole
  <2>5. o[c] = Null
    BY <1>0, <2>1, OnMoves
  <2>6. /\ \A n \in Nodes : x.next[n] = IF n = heap.prev[c] THEN heap.next[c] ELSE heap.next[n]
        /\ \A n \in Nodes : x.prev[n] = IF n = heap.next[c] THEN heap.prev[c] ELSE heap.prev[n]
    BY <2>2, DeletedAt
  <2>7. x \in Heaps
    BY <2>4 DEF Good
  <2> HIDE DEF x, o
  <2>8. AllWhole(Alone(x, c), o)
    BY <2>1, <2>4, <2>5, AloneWhole
  <2>9. \A n \in Nodes \ {c} : Alone(x, c).next[n] = x.next[n] /\ Alone(x, c).prev[n] = x.prev[n]
    BY <2>7 DEF Alone, Heaps
  <2>10. Body(x) /\ Body(Alone(x, c))
    <3>1. \A n \in S \ {c} : n \in Nodes \ {c}
      BY <2>2
    <3>2. on' = [on EXCEPT ![c] = Null]
      BY <2>1 DEF o
    <3>3. \A n \in S \ {c} : /\ x.next[n] = IF n = heap.prev[c] THEN heap.next[c] ELSE heap.next[n]
                             /\ x.prev[n] = IF n = heap.next[c] THEN heap.prev[c] ELSE heap.prev[n]
      BY <2>6, <3>1
    <3>4. \A n \in S \ {c} : /\ Alone(x, c).next[n] = IF n = heap.prev[c] THEN heap.next[c] ELSE heap.next[n]
                             /\ Alone(x, c).prev[n] = IF n = heap.next[c] THEN heap.prev[c] ELSE heap.prev[n]
      BY <2>9, <3>1, <3>3
    <3> QED
      BY <3>2, <3>3, <3>4 DEF Body
  <2>11. LoopAt'
    BY <1>0, <2>1, <2>10, LoopRound
  <2>12. AllWhole(heap', on')
    BY <2>1, <2>4, <2>8
  <2> QED
    BY <2>11, <2>12 DEF VisitInv, AllWhole
<1>8. CASE EndLoop
  <2>1. heap' = heap /\ on' = on /\ seen' = <<>> /\ loop' = NoLoop
    BY <1>8 DEF EndLoop
  <2>2. Outside'
    BY <2>1 DEF Outside, NoLoop
  <2>3. LoopAt'
    BY <2>1, <2>2 DEF LoopAt
  <2> QED
    BY <1>0, <2>1, <2>3 DEF VisitInv, AllWhole, Members, Whole
<1>9. CASE UNCHANGED listVars
  <2>1. heap' = heap /\ on' = on /\ seen' = seen /\ loop' = loop /\ begun' = begun
    BY <1>9 DEF listVars
  <2>2. Visited' = Visited /\ Passed' = Passed /\ (Outside' <=> Outside) /\ Of(loop.list)' = Of(loop.list)
    BY <2>1 DEF Visited, Passed, Outside, Of
  <2>3. LoopAt'
    BY <1>0, <2>1, <2>2 DEF LoopAt
  <2> QED
    BY <1>0, <2>1, <2>3 DEF VisitInv, AllWhole, Members, Whole
<1> QED
  BY <1>1, <1>2, <1>3, <1>4, <1>5, <1>6, <1>7, <1>8, <1>9 DEF ListNext

\* A loop of RyanListForEachSafe whose body deletes entries visits every entry that
\* was on the list when it began, and none twice, for lists of any length and
\* whatever the task appends to this list or another meanwhile.
THEOREM LoopAlwaysVisitsOnce == ListSpec => []VisitsOnce
<1>1. ListInit => VisitInv
  <2> SUFFICES ASSUME ListInit PROVE VisitInv
    OBVIOUS
  <2>1. \A e \in Entries : on[e] = Null
    BY DEF ListInit
  <2>2. \A l \in Heads : Members(on, l) = {l}
    BY <2>1, NodesDistinct DEF Members
  <2>3. AllWhole(heap, on)
    <3> SUFFICES ASSUME NEW l \in Heads PROVE Whole(heap, {l})
      BY <2>2 DEF AllWhole
    <3> QED
      BY DEF Whole
  <2>4. Outside /\ seen = <<>>
    BY DEF ListInit, Outside, NoLoop
  <2>5. LoopAt
    BY <2>4 DEF LoopAt
  <2> QED
    BY <2>3, <2>5 DEF VisitInv
<1>2. ListInv /\ VisitInv => VisitsOnce
  <2> SUFFICES ASSUME ListInv, VisitInv PROVE VisitsOnce
    OBVIOUS
  <2>1. CASE Outside
    <3>1. seen = <<>> /\ Len(seen) = 0
      BY <2>1 DEF VisitInv, LoopAt
    <3> QED
      BY <2>1, <3>1 DEF VisitsOnce
  <2>2. CASE ~Outside
    BY <2>2 DEF VisitInv, LoopAt, VisitsOnce, Visited
  <2> QED
    BY <2>1, <2>2
<1> QED
  BY <1>1, <1>2, ListInvHolds, VisitInvStep, PTL DEF ListSpec

(***************************************************************************)
(* The linked list as lists                                                *)
(* The order of a list is found by following pointers, so that what is the *)
(* same of two orders is shown place by place, from the first one at which *)
(* they would differ.                                                      *)
(***************************************************************************)

\* Every set of numbers that is not empty has a least one: induction, as a statement
\* about sets.
LEMMA LeastNumber ==
  ASSUME NEW T, T \subseteq Nat, T # {}
  PROVE  \E n \in T : \A m \in T : n <= m
<1> DEFINE R == {p \in Nat \X Nat : p[1] < p[2]}
<1>1. IsWellFoundedOn(R, Nat)
  BY NatLessThanWellFounded DEF OpToRel
<1> HIDE DEF R
<1>2. PICK n \in T : \A m \in T : ~(<<m, n>> \in R)
  BY <1>1, WFMin
<1>3. ASSUME NEW m \in T PROVE n <= m
  <2>1. <<m, n>> \in Nat \X Nat /\ <<m, n>>[1] = m /\ <<m, n>>[2] = n
    OBVIOUS
  <2>2. ~(m < n)
    BY <1>2, <2>1 DEF R
  <2> QED
    BY <2>2
<1> QED
  BY <1>3

\* The order of a list in a heap x: through s and back.
Through(x, list, s) ==
    /\ x.next[list] = IF s = <<>> THEN list ELSE s[1]
    /\ \A i \in 1 .. Len(s) : x.next[s[i]] = IF i = Len(s) THEN list ELSE s[i + 1]

\* With the entries that are on the list, each once.
InSequence(x, o, list, s) ==
    /\ s \in Seq(Entries)
    /\ Through(x, list, s)
    /\ \A i \in 1 .. Len(s) : o[s[i]] = list
    /\ \A e \in Entries : o[e] = list => \E i \in 1 .. Len(s) : s[i] = e
    /\ \A i, j \in 1 .. Len(s) : i # j => s[i] # s[j]

\* Two ways from a head through entries and back do not part.
LEMMA OneWay ==
  ASSUME NEW x, NEW list, list \notin Entries, NEW s \in Seq(Entries), NEW t \in Seq(Entries),
         Through(x, list, s), Through(x, list, t)
  PROVE  \A i \in 1 .. Len(s) : i <= Len(t) /\ s[i] = t[i]
<1> DEFINE D == {i \in 1 .. Len(s) : ~(i <= Len(t) /\ s[i] = t[i])}
<1> SUFFICES ASSUME D # {} PROVE FALSE
  OBVIOUS
<1>0. Len(s) \in Nat /\ Len(t) \in Nat /\ D \subseteq Nat
  OBVIOUS
<1>1. PICK k \in D : \A i \in D : k <= i
  <2> HIDE DEF D
  <2> QED
    BY <1>0, LeastNumber
<1>2. k \in 1 .. Len(s) /\ ~(k <= Len(t) /\ s[k] = t[k]) /\ s[k] \in Entries
  BY ElementOfSeq
<1>3. CASE k = 1
  <2>1. s # <<>> /\ x.next[list] = s[1]
    BY <1>0, <1>2, <1>3, EmptySeq DEF Through
  <2>2. t # <<>>
    BY <1>2, <1>3, <2>1 DEF Through
  <2>3. Len(t) >= 1
    BY <2>2, EmptySeq
  <2>4. x.next[list] = t[1]
    BY <2>2 DEF Through
  <2> QED
    BY <1>2, <1>3, <2>1, <2>3, <2>4
<1>4. CASE k # 1
  <2>1. k - 1 \in 1 .. Len(s) /\ k - 1 # Len(s) /\ (k - 1) + 1 = k /\ ~(k <= k - 1)
    BY <1>0, <1>2, <1>4
  <2>2. k - 1 <= Len(t) /\ s[k - 1] = t[k - 1]
    BY <1>1, <2>1
  <2>3. x.next[s[k - 1]] = s[k]
    BY <2>1 DEF Through
  <2>4. k - 1 \in 1 .. Len(t)
    BY <1>0, <2>1, <2>2
  <2>5. x.next[t[k - 1]] = IF k - 1 = Len(t) THEN list ELSE t[k]
    BY <2>1, <2>4 DEF Through
  <2>6. k - 1 # Len(t)
    BY <1>2, <2>2, <2>3, <2>5
  <2>7. s[k] = t[k]
    BY <2>2, <2>3, <2>5, <2>6
  <2>8. k <= Len(t)
    BY <1>0, <2>1, <2>4, <2>6
  <2> QED
    BY <1>2, <2>7, <2>8
<1> QED
  BY <1>3, <1>4

LEMMA OneOrder ==
  ASSUME NEW x, NEW list, list \notin Entries, NEW s \in Seq(Entries), NEW t \in Seq(Entries),
         Through(x, list, s), Through(x, list, t)
  PROVE  s = t
<1>1. \A i \in 1 .. Len(s) : i <= Len(t) /\ s[i] = t[i]
  BY OneWay
<1>2. \A i \in 1 .. Len(t) : i <= Len(s) /\ t[i] = s[i]
  BY OneWay
<1>3. Len(s) \in Nat /\ Len(t) \in Nat
  OBVIOUS
<1>4. Len(s) <= Len(t)
  <2>1. CASE Len(s) = 0
    BY <1>3, <2>1
  <2>2. CASE Len(s) # 0
    BY <1>1, <1>3, <2>2
  <2> QED
    BY <2>1, <2>2
<1>5. Len(t) <= Len(s)
  <2>1. CASE Len(t) = 0
    BY <1>3, <2>1
  <2>2. CASE Len(t) # 0
    BY <1>2, <1>3, <2>2
  <2> QED
    BY <2>1, <2>2
<1>6. Len(s) = Len(t)
  BY <1>3, <1>4, <1>5
<1> QED
  BY <1>1, <1>6, SeqEqual

\* A list is no longer than there are entries.
LEMMA OrderBounded ==
  ASSUME NEW x, NEW o, NEW list, NEW s, InSequence(x, o, list, s)
  PROVE  s \in Orders
<1>1. s \in Seq(Entries) /\ Len(s) \in Nat /\ s \in [1 .. Len(s) -> Entries]
  BY LenProperties DEF InSequence
<1>2. s \in Injection(1 .. Len(s), Entries)
  BY <1>1 DEF Injection, IsInjective, InSequence
<1>3. Cardinality(1 .. Len(s)) <= Cardinality(Entries)
  BY <1>2, FS_Injection, ListAssumption
<1>4. Cardinality(1 .. Len(s)) = Len(s)
  BY <1>1, FS_Interval
<1>5. Cardinality(Entries) \in Nat
  BY ListAssumption, FS_CardinalityType
<1>6. Len(s) \in 0 .. Cardinality(Entries)
  BY <1>1, <1>3, <1>4, <1>5
<1> QED
  BY <1>1, <1>6 DEF Orders
-----------------------------------------------------------------------------
(* What the changes of pointers do to the order                            *)

\* A list whose nodes keep their next pointers and whose entries stay keeps its order.
LEMMA OrderKept ==
  ASSUME NEW x, NEW o, NEW y, NEW p, NEW list \in Heads, NEW s, InSequence(x, o, list, s),
         \A e \in Entries : p[e] = list <=> o[e] = list,
         \A n \in Members(o, list) : y.next[n] = x.next[n]
  PROVE  InSequence(y, p, list, s)
<1>1. \A i \in 1 .. Len(s) : s[i] \in Entries /\ o[s[i]] = list /\ s[i] \in Members(o, list)
  BY ElementOfSeq DEF InSequence, Members
<1>2. list \in Members(o, list)
  BY DEF Members
<1>3. Through(y, list, s)
  BY <1>1, <1>2 DEF InSequence, Through
<1> QED
  BY <1>1, <1>3 DEF InSequence

\* RyanListAdd: the entry comes before the others.
LEMMA AddedAtHead ==
  ASSUME NEW x, NEW o, Good(x, o), NEW e \in Entries, o[e] = Null, NEW list \in Heads,
         NEW s, InSequence(x, o, list, s)
  PROVE  InSequence(AtHead(x, e, list), [o EXCEPT ![e] = list], list, <<e>> \o s)
<1> DEFINE y == AtHead(x, e, list)
           p == [o EXCEPT ![e] = list]
           t == <<e>> \o s
<1>1. s \in Seq(Entries) /\ Len(s) \in Nat
  BY DEF InSequence
<1>2. /\ t \in Seq(Entries) /\ Len(t) = 1 + Len(s) /\ t # <<>>
      /\ \A i \in 1 .. 1 + Len(s) : t[i] = IF i <= 1 THEN e ELSE s[i - 1]
  <2>1. <<e>> \in Seq(Entries) /\ Len(<<e>>) = 1 /\ <<e>>[1] = e
    OBVIOUS
  <2>2. /\ t \in Seq(Entries) /\ Len(t) = Len(<<e>>) + Len(s)
        /\ \A i \in 1 .. Len(<<e>>) + Len(s) : t[i] = IF i <= Len(<<e>>) THEN <<e>>[i] ELSE s[i - Len(<<e>>)]
    BY <1>1, <2>1, ConcatProperties
  <2>3. Len(t) # 0
    BY <1>1, <2>1, <2>2
  <2>4. t # <<>>
    BY <2>3, EmptySeq
  <2>5. \A i \in 1 .. 1 + Len(s) : t[i] = IF i <= 1 THEN e ELSE s[i - 1]
    BY <1>1, <2>1, <2>2
  <2> HIDE DEF t
  <2> QED
    BY <1>1, <2>1, <2>2, <2>4, <2>5
<1>3. x \in Heaps /\ list \in Nodes /\ e \in Nodes /\ list # e /\ o \in [Entries -> Heads \cup {Null}]
  BY NodesDistinct DEF Good
<1>4. \A n \in Nodes : y.next[n] = IF n = list THEN e ELSE IF n = e THEN x.next[list] ELSE x.next[n]
  BY <1>3 DEF AtHead, Inserted, Heaps
<1>5. \A k \in Entries : p[k] = IF k = e THEN list ELSE o[k]
  BY <1>3
<1>6. \A i \in 1 .. Len(s) : s[i] \in Entries /\ o[s[i]] = list /\ s[i] # e /\ s[i] \in Nodes /\ s[i] # list
  <2> SUFFICES ASSUME NEW i \in 1 .. Len(s)
               PROVE  s[i] \in Entries /\ o[s[i]] = list /\ s[i] # e /\ s[i] \in Nodes /\ s[i] # list
    OBVIOUS
  <2>1. s[i] \in Entries /\ o[s[i]] = list
    BY <1>1, ElementOfSeq DEF InSequence
  <2> QED
    BY <2>1, NodesDistinct
<1> HIDE DEF y, p, t
<1>7. Through(y, list, t)
  <2>1. y.next[list] = t[1]
    BY <1>1, <1>2, <1>3, <1>4
  <2>2. ASSUME NEW i \in 1 .. Len(t)
        PROVE  y.next[t[i]] = IF i = Len(t) THEN list ELSE t[i + 1]
    <3>1. CASE i = 1
      <4>1. t[i] = e /\ y.next[e] = x.next[list]
        BY <1>1, <1>2, <1>3, <1>4, <3>1
      <4>2. x.next[list] = IF s = <<>> THEN list ELSE s[1]
        BY DEF InSequence, Through
      <4>3. s = <<>> <=> Len(s) = 0
        BY <1>1, EmptySeq
      <4>4. Len(s) # 0 => t[2] = s[1]
        BY <1>1, <1>2
      <4> QED
        BY <1>1, <1>2, <3>1, <4>1, <4>2, <4>3, <4>4
    <3>2. CASE i # 1
      <4>1. i - 1 \in 1 .. Len(s) /\ ~(i <= 1) /\ i \in 1 .. 1 + Len(s) /\ (i - 1) + 1 = i
        BY <1>1, <1>2, <3>2
      <4>2. t[i] = s[i - 1]
        BY <1>2, <4>1
      <4>3. y.next[s[i - 1]] = x.next[s[i - 1]]
        BY <1>4, <1>6, <4>1
      <4>4. x.next[s[i - 1]] = IF i - 1 = Len(s) THEN list ELSE s[i]
        BY <4>1 DEF InSequence, Through
      <4>5. i # Len(t) => t[i + 1] = s[i]
        BY <1>1, <1>2, <4>1
      <4>6. i - 1 = Len(s) <=> i = Len(t)
        BY <1>1, <1>2
      <4> QED
        BY <4>2, <4>3, <4>4, <4>5, <4>6
    <3> QED
      BY <3>1, <3>2
  <2> QED
    BY <1>2, <2>1, <2>2 DEF Through
<1>8. ASSUME NEW i \in 1 .. Len(t) PROVE t[i] = e \/ \E j \in 1 .. Len(s) : t[i] = s[j] /\ i = j + 1
  <2>1. CASE i = 1
    BY <1>1, <1>2, <2>1
  <2>2. CASE i # 1
    <3>1. i - 1 \in 1 .. Len(s) /\ ~(i <= 1) /\ i \in 1 .. 1 + Len(s) /\ i = (i - 1) + 1
      BY <1>1, <1>2, <2>2
    <3> QED
      BY <1>2, <3>1
  <2> QED
    BY <2>1, <2>2
<1>9. \A i \in 1 .. Len(t) : p[t[i]] = list
  BY <1>5, <1>6, <1>8
<1>10. ASSUME NEW k \in Entries, p[k] = list PROVE \E i \in 1 .. Len(t) : t[i] = k
  <2>1. CASE k = e
    <3>1. 1 \in 1 .. Len(t) /\ t[1] = e
      BY <1>1, <1>2
    <3> QED
      BY <2>1, <3>1
  <2>2. CASE k # e
    <3>1. PICK j \in 1 .. Len(s) : s[j] = k
      BY <1>5, <1>10, <2>2 DEF InSequence
    <3>2. j + 1 \in 1 .. Len(t) /\ ~(j + 1 <= 1) /\ (j + 1) - 1 = j /\ j + 1 \in 1 .. 1 + Len(s)
      BY <1>1, <1>2
    <3>3. t[j + 1] = k
      BY <1>2, <3>1, <3>2
    <3> QED
      BY <3>2, <3>3
  <2> QED
    BY <2>1, <2>2
<1>11. ASSUME NEW i \in 1 .. Len(t), NEW j \in 1 .. Len(t), i # j PROVE t[i] # t[j]
  <2>1. /\ i \in 1 .. 1 + Len(s) /\ j \in 1 .. 1 + Len(s) /\ i \in Nat /\ j \in Nat
    BY <1>1, <1>2
  <2>2. CASE i = 1
    <3>1. t[i] = e /\ t[j] = s[j - 1] /\ j - 1 \in 1 .. Len(s)
      BY <1>1, <1>2, <1>11, <2>1, <2>2
    <3> QED
      BY <1>6, <3>1
  <2>3. CASE j = 1
    <3>1. t[j] = e /\ t[i] = s[i - 1] /\ i - 1 \in 1 .. Len(s)
      BY <1>1, <1>2, <1>11, <2>1, <2>3
    <3> QED
      BY <1>6, <3>1
  <2>4. CASE i # 1 /\ j # 1
    <3>1. /\ t[i] = s[i - 1] /\ i - 1 \in 1 .. Len(s)
          /\ t[j] = s[j - 1] /\ j - 1 \in 1 .. Len(s) /\ i - 1 # j - 1
      BY <1>1, <1>2, <1>11, <2>1, <2>4
    <3> QED
      BY <3>1 DEF InSequence
  <2> QED
    BY <2>2, <2>3, <2>4
<1> QED
  BY <1>2, <1>7, <1>9, <1>10, <1>11 DEF InSequence, y, p, t

\* The node before the head is the last entry.
LEMMA LastIsBefore ==
  ASSUME NEW x, NEW o, Good(x, o), NEW list \in Heads, NEW s, InSequence(x, o, list, s)
  PROVE  x.prev[list] = IF s = <<>> THEN list ELSE s[Len(s)]
<1>1. s \in Seq(Entries) /\ Len(s) \in Nat /\ (s = <<>> <=> Len(s) = 0)
  BY EmptySeq DEF InSequence
<1>2. \A n \in Members(o, list) : x.prev[x.next[n]] = n
  BY DEF Good, Ring
<1>3. CASE s = <<>>
  <2>1. x.next[list] = list /\ list \in Members(o, list)
    BY <1>3 DEF InSequence, Through, Members
  <2> QED
    BY <1>2, <1>3, <2>1
<1>4. CASE s # <<>>
  <2>1. Len(s) \in 1 .. Len(s)
    BY <1>1, <1>4
  <2>2. s[Len(s)] \in Entries /\ o[s[Len(s)]] = list
    BY <1>1, <2>1, ElementOfSeq DEF InSequence
  <2>3. x.next[s[Len(s)]] = list
    BY <2>1 DEF InSequence, Through
  <2> QED
    BY <1>2, <1>4, <2>2, <2>3 DEF Members
<1> QED
  BY <1>3, <1>4

\* RyanListAddTail: the entry comes after the others.
LEMMA AddedAtTail ==
  ASSUME NEW x, NEW o, Good(x, o), NEW e \in Entries, o[e] = Null, NEW list \in Heads,
         NEW s, InSequence(x, o, list, s)
  PROVE  InSequence(AtTail(x, e, list), [o EXCEPT ![e] = list], list, Append(s, e))
<1> DEFINE y == AtTail(x, e, list)
           p == [o EXCEPT ![e] = list]
           t == Append(s, e)
           l == x.prev[list]
           n == Len(s)
<1>1. s \in Seq(Entries) /\ n \in Nat /\ (s = <<>> <=> n = 0)
  BY EmptySeq DEF InSequence
<1>2. /\ t \in Seq(Entries) /\ Len(t) = n + 1 /\ t # <<>>
      /\ t[n + 1] = e /\ \A i \in 1 .. n : t[i] = s[i]
  <2>1. t \in Seq(Entries) /\ Len(t) = n + 1 /\ t[n + 1] = e /\ \A i \in 1 .. n : t[i] = s[i]
    BY <1>1
  <2>2. Len(t) # 0
    BY <1>1, <2>1
  <2> HIDE DEF t, n
  <2> QED
    BY <2>1, <2>2, EmptySeq
<1>3. x \in Heaps /\ list \in Nodes /\ e \in Nodes /\ list # e /\ o \in [Entries -> Heads \cup {Null}]
  BY NodesDistinct DEF Good
<1>4. l = IF s = <<>> THEN list ELSE s[n]
  BY LastIsBefore
<1>5. \A i \in 1 .. n : s[i] \in Entries /\ o[s[i]] = list /\ s[i] # e /\ s[i] \in Nodes /\ s[i] # list
  <2> SUFFICES ASSUME NEW i \in 1 .. n
               PROVE  s[i] \in Entries /\ o[s[i]] = list /\ s[i] # e /\ s[i] \in Nodes /\ s[i] # list
    OBVIOUS
  <2>1. s[i] \in Entries /\ o[s[i]] = list
    BY <1>1, ElementOfSeq DEF InSequence
  <2> QED
    BY <2>1, NodesDistinct
<1>6. n # 0 => n \in 1 .. n
  BY <1>1
<1> HIDE DEF n
<1>7. l \in Nodes /\ l # e
  BY <1>1, <1>3, <1>4, <1>5, <1>6
<1>8. \A k \in Nodes : y.next[k] = IF k = l THEN e ELSE IF k = e THEN list ELSE x.next[k]
  BY <1>3, <1>7 DEF AtTail, Inserted, Heaps
<1>9. \A k \in Entries : p[k] = IF k = e THEN list ELSE o[k]
  BY <1>3
<1> HIDE DEF y, p, t, l
<1>10. Through(y, list, t)
  <2>1. y.next[list] = t[1]
    <3>1. CASE n = 0
      <4>1. y.next[list] = e
        BY <1>1, <1>3, <1>4, <1>8, <3>1
      <4> QED
        BY <1>2, <3>1, <4>1
    <3>2. CASE n # 0
      <4>1. l # list /\ y.next[list] = x.next[list]
        BY <1>1, <1>3, <1>4, <1>5, <1>6, <1>8, <3>2
      <4>2. x.next[list] = s[1] /\ 1 \in 1 .. n
        BY <1>1, <3>2 DEF InSequence, Through
      <4> QED
        BY <1>2, <4>1, <4>2
    <3> QED
      BY <3>1, <3>2
  <2>2. ASSUME NEW i \in 1 .. n + 1
        PROVE  y.next[t[i]] = IF i = n + 1 THEN list ELSE t[i + 1]
    <3>1. CASE i = n + 1
      BY <1>2, <1>3, <1>7, <1>8, <3>1
    <3>2. CASE i = n /\ i # n + 1
      <4>1. n \in 1 .. n /\ s # <<>>
        BY <1>1, <3>2
      <4>2. t[i] = l /\ t[i + 1] = e
        BY <1>2, <1>4, <3>2, <4>1
      <4> QED
        BY <1>7, <1>8, <3>2, <4>2
    <3>3. CASE i # n /\ i # n + 1
      <4>1. i \in 1 .. n /\ i + 1 \in 1 .. n /\ n \in 1 .. n /\ s # <<>>
        BY <1>1, <3>3
      <4>2. s[i] # s[n] /\ l = s[n]
        BY <1>4, <3>3, <4>1 DEF InSequence, n
      <4>3. y.next[s[i]] = x.next[s[i]]
        BY <1>5, <1>8, <4>1, <4>2
      <4>4. x.next[s[i]] = s[i + 1]
        BY <3>3, <4>1 DEF InSequence, Through, n
      <4> QED
        BY <1>2, <3>3, <4>1, <4>3, <4>4
    <3> QED
      BY <3>1, <3>2, <3>3
  <2> QED
    BY <1>2, <2>1, <2>2 DEF Through
<1>11. \A i \in 1 .. n + 1 : i = n + 1 \/ i \in 1 .. n
  BY <1>1
<1>12. \A i \in 1 .. n + 1 : p[t[i]] = list
  BY <1>2, <1>5, <1>9, <1>11
<1>13. \A i \in 1 .. n : i \in 1 .. n + 1 /\ n + 1 \in 1 .. n + 1
  BY <1>1
<1>14. ASSUME NEW k \in Entries, p[k] = list PROVE \E i \in 1 .. n + 1 : t[i] = k
  <2>1. CASE k = e
    <3>1. n + 1 \in 1 .. n + 1
      BY <1>1
    <3> QED
      BY <1>2, <2>1, <3>1
  <2>2. CASE k # e
    <3>1. PICK j \in 1 .. n : s[j] = k
      BY <1>9, <1>14, <2>2 DEF InSequence, n
    <3> QED
      BY <1>2, <1>13, <3>1
  <2> QED
    BY <2>1, <2>2
<1>15. \A i, j \in 1 .. n : i # j => s[i] # s[j]
  BY DEF InSequence, n
<1>16. \A i, j \in 1 .. n + 1 : i # j => t[i] # t[j]
  BY <1>2, <1>5, <1>11, <1>15
<1> QED
  BY <1>2, <1>10, <1>12, <1>14, <1>16 DEF InSequence, y, p, t

\* s without its entry at place k.
LEMMA RemovedAt ==
  ASSUME NEW s \in Seq(Entries), NEW k \in 1 .. Len(s)
  PROVE  /\ Ordered!RemoveAt(s, k) \in Seq(Entries)
         /\ Len(Ordered!RemoveAt(s, k)) = Len(s) - 1
         /\ \A i \in 1 .. Len(s) - 1 : Ordered!RemoveAt(s, k)[i] = IF i < k THEN s[i] ELSE s[i + 1]
<1> DEFINE a == SubSeq(s, 1, k - 1)
           b == SubSeq(s, k + 1, Len(s))
           n == Len(s)
<1>1. n \in Nat /\ k \in Nat /\ k >= 1 /\ k <= n
  OBVIOUS
<1>2. \A i \in 1 .. n : s[i] \in Entries
  BY ElementOfSeq
<1>3. /\ a \in Seq(Entries) /\ Len(a) = k - 1
      /\ \A i \in 1 .. k - 1 : a[i] = s[i]
  <2>1. 1 \in Int /\ k - 1 \in Int /\ \A i \in 1 .. k - 1 : s[i] \in Entries
    BY <1>1, <1>2
  <2>2. /\ a \in Seq(Entries) /\ Len(a) = (IF 1 <= k - 1 THEN (k - 1) - 1 + 1 ELSE 0)
        /\ \A i \in 1 .. (k - 1) - 1 + 1 : a[i] = s[1 + i - 1]
    BY <2>1, SubSeqProperties
  <2> HIDE DEF a
  <2> QED
    BY <1>1, <2>2
<1>4. /\ b \in Seq(Entries) /\ Len(b) = n - k
      /\ \A i \in 1 .. n - k : b[i] = s[k + i]
  <2>1. k + 1 \in Int /\ n \in Int /\ \A i \in k + 1 .. n : s[i] \in Entries
    BY <1>1, <1>2
  <2>2. /\ b \in Seq(Entries) /\ Len(b) = (IF k + 1 <= n THEN n - (k + 1) + 1 ELSE 0)
        /\ \A i \in 1 .. n - (k + 1) + 1 : b[i] = s[(k + 1) + i - 1]
    BY <2>1, SubSeqProperties
  <2>3. \A i \in 1 .. n - k : i \in 1 .. n - (k + 1) + 1 /\ (k + 1) + i - 1 = k + i
    BY <1>1
  <2> HIDE DEF b, n
  <2> QED
    BY <1>1, <2>2, <2>3
<1> HIDE DEF a, b
<1>5. /\ a \o b \in Seq(Entries) /\ Len(a \o b) = Len(a) + Len(b)
      /\ \A i \in 1 .. Len(a) + Len(b) : (a \o b)[i] = IF i <= Len(a) THEN a[i] ELSE b[i - Len(a)]
  BY <1>3, <1>4, ConcatProperties
<1>6. Len(a) + Len(b) = n - 1
  BY <1>1, <1>3, <1>4
<1>7. ASSUME NEW i \in 1 .. n - 1 PROVE (a \o b)[i] = IF i < k THEN s[i] ELSE s[i + 1]
  <2>1. (a \o b)[i] = IF i <= k - 1 THEN a[i] ELSE b[i - (k - 1)]
    BY <1>3, <1>5, <1>6
  <2>2. CASE i < k
    <3>1. i \in 1 .. k - 1 /\ i <= k - 1
      BY <1>1, <2>2
    <3> QED
      BY <1>3, <2>1, <2>2, <3>1
  <2>3. CASE ~(i < k)
    <3>1. ~(i <= k - 1) /\ i - (k - 1) \in 1 .. n - k /\ k + (i - (k - 1)) = i + 1
      BY <1>1, <2>3
    <3> QED
      BY <1>4, <2>1, <2>3, <3>1
  <2> QED
    BY <2>2, <2>3
<1>8. Ordered!RemoveAt(s, k) = a \o b
  BY DEF Ordered!RemoveAt, a, b
<1> QED
  BY <1>5, <1>6, <1>7, <1>8
\* _RyanListDel_entry: the entry is gone and the others stay in order.
LEMMA RemovedEntry ==
  ASSUME NEW x, NEW o, Good(x, o), NEW e \in Entries, NEW list \in Heads, o[e] = list,
         NEW s, InSequence(x, o, list, s)
  PROVE  InSequence(Deleted(x, e), [o EXCEPT ![e] = Null], list, Ordered!Removed(s, e))
<1> DEFINE y == Deleted(x, e)
           p == [o EXCEPT ![e] = Null]
           t == Ordered!Removed(s, e)
           n == Len(s)
           l == x.prev[e]
           r == x.next[e]
<1>1. /\ s \in Seq(Entries) /\ n \in Nat
      /\ \A i \in 1 .. n : s[i] \in Entries /\ o[s[i]] = list
      /\ \A i, j \in 1 .. n : i # j => s[i] # s[j]
      /\ \A i \in 1 .. n : x.next[s[i]] = IF i = n THEN list ELSE s[i + 1]
      /\ x.next[list] = IF s = <<>> THEN list ELSE s[1]
  BY ElementOfSeq DEF InSequence, Through
<1>2. PICK k \in 1 .. n : s[k] = e
  BY DEF InSequence
<1>3. t = Ordered!RemoveAt(s, k)
  <2>1. Ordered!Contains(s, e)
    BY <1>2 DEF Ordered!Contains
  <2>2. Ordered!Place(s, e) = k
    BY <1>1, <1>2 DEF Ordered!Place
  <2> QED
    BY <2>1, <2>2 DEF Ordered!Removed
<1>4. /\ t \in Seq(Entries) /\ Len(t) = n - 1
      /\ \A i \in 1 .. n - 1 : t[i] = IF i < k THEN s[i] ELSE s[i + 1]
  <2> DEFINE q == Ordered!RemoveAt(s, k)
  <2>1. s \in Seq(Entries) /\ k \in 1 .. Len(s)
    BY <1>1
  <2>2. /\ q \in Seq(Entries) /\ Len(q) = Len(s) - 1
        /\ \A i \in 1 .. Len(s) - 1 : q[i] = IF i < k THEN s[i] ELSE s[i + 1]
    BY <2>1, RemovedAt
  <2>3. t = q
    BY <1>3
  <2> HIDE DEF t, q
  <2> QED
    BY <2>2, <2>3
<1>5. t = <<>> <=> n = 1
  <2>1. t = <<>> <=> Len(t) = 0
    BY <1>4, EmptySeq
  <2> HIDE DEF t, n
  <2> QED
    BY <1>1, <1>4, <2>1
<1>6. s # <<>> /\ n >= 1
  <2>1. n >= 1
    BY <1>1, <1>2
  <2> QED
    BY <2>1, EmptySeq
<1>7. /\ x \in Heaps /\ list \in Nodes /\ list \notin Entries /\ o \in [Entries -> Heads \cup {Null}]
      /\ \A m \in Members(o, list) : x.next[m] \in Nodes /\ x.prev[m] \in Nodes /\ x.prev[x.next[m]] = m
      /\ list \in Members(o, list) /\ e \in Members(o, list)
      /\ \A i \in 1 .. n : s[i] \in Members(o, list) /\ s[i] \in Nodes
      /\ list # Null
  <2>1. Ring(x, Members(o, list)) /\ x \in Heaps /\ o \in [Entries -> Heads \cup {Null}]
    BY DEF Good
  <2>2. Members(o, list) \subseteq Nodes /\ list \in Members(o, list) /\ e \in Members(o, list)
    BY NodesDistinct DEF Members
  <2>3. \A i \in 1 .. n : s[i] \in Members(o, list)
    BY <1>1 DEF Members
  <2> QED
    BY <2>1, <2>2, <2>3, NodesDistinct DEF Ring
<1> HIDE DEF t, n
<1>8. l = IF k = 1 THEN list ELSE s[k - 1]
  <2>1. CASE k = 1
    BY <1>1, <1>2, <1>6, <1>7, <2>1
  <2>2. CASE k # 1
    <3>1. k - 1 \in 1 .. n /\ k - 1 # n /\ (k - 1) + 1 = k
      BY <1>1, <2>2
    <3>2. x.next[s[k - 1]] = e
      BY <1>1, <1>2, <3>1
    <3> QED
      BY <1>7, <2>2, <3>1, <3>2
  <2> QED
    BY <2>1, <2>2
<1>9. r = IF k = n THEN list ELSE s[k + 1]
  BY <1>1, <1>2
<1>10. l \in Nodes /\ r \in Nodes
  BY <1>7
<1>11. \A m \in Nodes : y.next[m] = IF m = l THEN r ELSE x.next[m]
  BY <1>7, <1>10 DEF Deleted, Heaps
<1>12. \A m \in Entries : p[m] = IF m = e THEN Null ELSE o[m]
  BY <1>7
<1> HIDE DEF y, p, l, r
<1>13. Through(y, list, t)
  <2>1. y.next[list] = IF t = <<>> THEN list ELSE t[1]
    <3>1. CASE k = 1
      <4>1. y.next[list] = r
        BY <1>7, <1>8, <1>11, <3>1
      <4>2. n # 1 => t[1] = s[2]
        BY <1>1, <1>4, <1>6, <3>1
      <4> QED
        BY <1>5, <1>9, <3>1, <4>1, <4>2
    <3>2. CASE k # 1
      <4>1. k - 1 \in 1 .. n /\ n # 1 /\ 1 \in 1 .. n - 1 /\ 1 < k
        BY <1>1, <3>2
      <4>2. l # list
        BY <1>1, <1>7, <1>8, <3>2, <4>1
      <4>3. y.next[list] = s[1]
        BY <1>1, <1>6, <1>7, <1>11, <4>2
      <4> QED
        BY <1>4, <1>5, <4>1, <4>3
    <3> QED
      BY <3>1, <3>2
  <2>2. ASSUME NEW i \in 1 .. n - 1
        PROVE  y.next[t[i]] = IF i = n - 1 THEN list ELSE t[i + 1]
    <3>0. i \in Nat /\ k \in Nat /\ i >= 1 /\ i <= n - 1 /\ k >= 1 /\ k <= n
      BY <1>1
    <3>1. CASE i < k - 1
      <4>1. /\ i \in 1 .. n /\ i # n /\ i # k - 1 /\ k - 1 \in 1 .. n /\ k # 1 /\ i < k
            /\ i + 1 < k /\ i + 1 \in 1 .. n - 1 /\ i # n - 1
        BY <1>1, <3>0, <3>1
      <4>2. t[i] = s[i] /\ t[i + 1] = s[i + 1]
        BY <1>4, <4>1
      <4>3. s[i] # l
        BY <1>1, <1>8, <4>1
      <4>4. y.next[s[i]] = s[i + 1]
        BY <1>1, <1>7, <1>11, <4>1, <4>3
      <4> QED
        BY <4>1, <4>2, <4>4
    <3>2. CASE i = k - 1
      <4>1. i < k /\ k # 1 /\ (k = n <=> i = n - 1) /\ (k # n => k \in 1 .. n - 1) /\ ~(k < k) /\ i + 1 = k
        BY <1>1, <3>0, <3>2
      <4>2. t[i] = l
        BY <1>4, <1>8, <3>2, <4>1
      <4>3. k # n => t[i + 1] = s[k + 1]
        BY <1>4, <4>1
      <4> QED
        BY <1>9, <1>10, <1>11, <4>1, <4>2, <4>3
    <3>3. CASE i > k - 1
      <4>1. /\ ~(i < k) /\ i + 1 \in 1 .. n /\ (i + 1 = n <=> i = n - 1)
            /\ (i # n - 1 => i + 1 \in 1 .. n - 1 /\ ~(i + 1 < k))
            /\ (k # 1 => i + 1 # k - 1 /\ k - 1 \in 1 .. n)
        BY <1>1, <3>0, <3>3
      <4>2. t[i] = s[i + 1] /\ (i # n - 1 => t[i + 1] = s[(i + 1) + 1])
        BY <1>4, <4>1
      <4>3. s[i + 1] # l
        BY <1>1, <1>7, <1>8, <4>1
      <4>4. y.next[s[i + 1]] = IF i + 1 = n THEN list ELSE s[(i + 1) + 1]
        BY <1>1, <1>7, <1>11, <4>1, <4>3
      <4> QED
        BY <4>1, <4>2, <4>4
    <3> QED
      BY <3>0, <3>1, <3>2, <3>3
  <2> QED
    BY <1>4, <2>1, <2>2 DEF Through
<1>14. ASSUME NEW i \in 1 .. n - 1
       PROVE  \E j \in 1 .. n : j # k /\ t[i] = s[j] /\ j = IF i < k THEN i ELSE i + 1
  <2>1. CASE i < k
    <3>1. i \in 1 .. n /\ i # k
      BY <1>1, <2>1
    <3> QED
      BY <1>4, <2>1, <3>1
  <2>2. CASE ~(i < k)
    <3>1. i + 1 \in 1 .. n /\ i + 1 # k
      BY <1>1, <2>2
    <3> QED
      BY <1>4, <2>2, <3>1
  <2> QED
    BY <2>1, <2>2
<1>15. \A i \in 1 .. n - 1 : p[t[i]] = list
  BY <1>1, <1>2, <1>12, <1>14
<1>16. ASSUME NEW m \in Entries, p[m] = list PROVE \E i \in 1 .. n - 1 : t[i] = m
  <2>1. m # e /\ o[m] = list
    BY <1>7, <1>12, <1>16
  <2>2. PICK j \in 1 .. n : s[j] = m
    BY <2>1 DEF InSequence, n
  <2>3. j # k
    BY <1>2, <2>1, <2>2
  <2>4. CASE j < k
    <3>1. j \in 1 .. n - 1
      BY <1>1, <2>4
    <3> QED
      BY <1>4, <2>2, <2>4, <3>1
  <2>5. CASE j > k
    <3>1. j - 1 \in 1 .. n - 1 /\ ~(j - 1 < k) /\ (j - 1) + 1 = j
      BY <1>1, <2>5
    <3> QED
      BY <1>4, <2>2, <3>1
  <2> QED
    BY <1>1, <2>3, <2>4, <2>5
<1>17. ASSUME NEW i \in 1 .. n - 1, NEW j \in 1 .. n - 1, i # j PROVE t[i] # t[j]
  <2>1. PICK a \in 1 .. n : a # k /\ t[i] = s[a] /\ a = IF i < k THEN i ELSE i + 1
    BY <1>14
  <2>2. PICK b \in 1 .. n : b # k /\ t[j] = s[b] /\ b = IF j < k THEN j ELSE j + 1
    BY <1>14
  <2>3. i \in Int /\ j \in Int /\ k \in Int
    BY <1>1
  <2>4. a # b
    <3>1. a = IF i < k THEN i ELSE i + 1
      BY <2>1
    <3>2. b = IF j < k THEN j ELSE j + 1
      BY <2>2
    <3>3. i # j
      BY <1>17
    <3> QED
      BY <2>3, <3>1, <3>2, <3>3
  <2>5. s[a] # s[b]
    <3>1. \A v, w \in 1 .. n : v # w => s[v] # s[w]
      BY <1>1
    <3> QED
      BY <2>4, <3>1
  <2>6. t[i] = s[a] /\ t[j] = s[b]
    BY <2>1, <2>2
  <2> QED
    BY <2>5, <2>6
<1> QED
  BY <1>4, <1>13, <1>15, <1>16, <1>17 DEF InSequence, y, p, t

\* An entry that is not on the list is not taken from it.
LEMMA NotRemoved ==
  ASSUME NEW x, NEW o, NEW e \in Entries, NEW list, o[e] # list,
         NEW s, InSequence(x, o, list, s)
  PROVE  Ordered!Removed(s, e) = s
<1>1. \A i \in 1 .. Len(s) : s[i] # e
  BY DEF InSequence
<1>2. ~Ordered!Contains(s, e)
  BY <1>1 DEF Ordered!Contains
<1> QED
  BY <1>2 DEF Ordered!Removed
-----------------------------------------------------------------------------
(* The refinement                                                          *)

\* ls are the orders of all lists.
AllInSequence(x, o, ls) ==
    /\ ls \in [Heads -> Seq(Entries)]
    /\ \A list \in Heads : InSequence(x, o, list, ls[list])

\* The lists as ClientLists has them without an entry.
Lacking(ls, e) == [list \in Heads |-> Ordered!Removed(ls[list], e)]

\* The order is what the mapping takes it for.
LEMMA ListsAre ==
  ASSUME NEW ls, AllInSequence(heap, on, ls)  PROVE Lists = ls
<1> SUFFICES ASSUME NEW list \in Heads PROVE Lists[list] = ls[list]
  BY DEF AllInSequence, Lists
<1> DEFINE s == ls[list]
           f == Lists[list]
<1>1. /\ InSequence(heap, on, list, s) /\ s \in Seq(Entries) /\ Through(heap, list, s)
      /\ list \notin Entries
  BY NodesDistinct DEF AllInSequence, InSequence
<1>2. \A t : Leads(list, t) <=> Through(heap, list, t)
  BY DEF Leads, Through
<1>3. s \in Orders
  BY <1>1, OrderBounded
<1>4. f = IF IsEmpty(list) THEN <<>> ELSE CHOOSE t \in Orders : Leads(list, t)
  BY DEF Lists
<1> HIDE DEF s, f
<1>5. CASE IsEmpty(list)
  <2>1. <<>> \in Seq(Entries) /\ Len(<<>>) = 0 /\ heap.next[list] = list
    BY <1>5, EmptySeq DEF IsEmpty
  <2>2. Through(heap, list, <<>>)
    BY <2>1 DEF Through
  <2>3. s = <<>>
    BY <1>1, <2>1, <2>2, OneOrder
  <2> QED
    BY <1>4, <1>5, <2>3 DEF s, f
<1>6. CASE ~IsEmpty(list)
  <2>1. f \in Orders /\ Leads(list, f)
    BY <1>1, <1>2, <1>3, <1>4, <1>6
  <2>2. f \in Seq(Entries)
    <3>1. PICK n \in 0 .. Cardinality(Entries) : f \in [1 .. n -> Entries]
      BY <2>1 DEF Orders
    <3>2. n \in Nat
      BY ListAssumption, FS_CardinalityType
    <3> QED
      BY <3>1, <3>2
  <2>3. f = s
    BY <1>1, <1>2, <2>1, <2>2, OneOrder
  <2> QED
    BY <2>3 DEF s, f
<1> QED
  BY <1>5, <1>6

\* The lists that an entry is not on, when it is put on or taken from another.
LEMMA OthersInSequence ==
  ASSUME NEW x, NEW o, NEW ls, Good(x, o), AllInSequence(x, o, ls),
         NEW y, NEW e \in Entries, NEW v \in Heads \cup {Null},
         NEW list \in Heads, list # v, o[e] # list,
         NEW l \in Heads, l # list, NEW p \in Members(o, l),
         \A n \in Nodes : n # p /\ n # e => y.next[n] = x.next[n]
  PROVE  InSequence(y, [o EXCEPT ![e] = v], list, ls[list])
<1>1. InSequence(x, o, list, ls[list])
  BY DEF AllInSequence
<1>2. ASSUME NEW k \in Entries PROVE [o EXCEPT ![e] = v][k] = list <=> o[k] = list
  <2>1. o \in [Entries -> Heads \cup {Null}]
    BY DEF Good
  <2> QED
    BY <2>1
<1>3. ASSUME NEW n \in Members(o, list) PROVE y.next[n] = x.next[n]
  <2>1. n \in Nodes /\ n # e
    BY NodesDistinct DEF Members
  <2>2. n # p
    BY NodesDistinct DEF Members
  <2> QED
    BY <2>1, <2>2
<1> DEFINE w == [o EXCEPT ![e] = v]
<1>4. \A k \in Entries : w[k] = list <=> o[k] = list
  BY <1>2
<1> HIDE DEF w
<1>5. InSequence(y, w, list, ls[list])
  BY <1>1, <1>3, <1>4, OrderKept
<1> QED
  BY <1>5 DEF w

LEMMA AllAdded ==
  ASSUME NEW x, NEW o, NEW ls, Good(x, o), AllInSequence(x, o, ls),
         NEW e \in Entries, o[e] = Null, NEW l \in Heads
  PROVE  /\ AllInSequence(AtHead(x, e, l), [o EXCEPT ![e] = l], [ls EXCEPT ![l] = <<e>> \o @])
         /\ AllInSequence(AtTail(x, e, l), [o EXCEPT ![e] = l], [ls EXCEPT ![l] = Append(@, e)])
<1> DEFINE p == [o EXCEPT ![e] = l]
           a == [ls EXCEPT ![l] = <<e>> \o @]
           b == [ls EXCEPT ![l] = Append(@, e)]
           q == x.prev[l]
<1>1. ls \in [Heads -> Seq(Entries)] /\ \A h \in Heads : InSequence(x, o, h, ls[h])
  BY DEF AllInSequence
<1>2. /\ <<e>> \o ls[l] \in Seq(Entries) /\ Append(ls[l], e) \in Seq(Entries)
  <2>1. <<e>> \in Seq(Entries) /\ ls[l] \in Seq(Entries)
    BY <1>1
  <2> QED
    BY <2>1, ConcatProperties
<1>3. a \in [Heads -> Seq(Entries)] /\ b \in [Heads -> Seq(Entries)]
  BY <1>1, <1>2
<1>4. a[l] = <<e>> \o ls[l] /\ b[l] = Append(ls[l], e)
  BY <1>1
<1>5. \A h \in Heads : h # l => a[h] = ls[h] /\ b[h] = ls[h]
  BY <1>1
<1>6. InSequence(AtHead(x, e, l), p, l, a[l]) /\ InSequence(AtTail(x, e, l), p, l, b[l])
  BY <1>1, <1>4, AddedAtHead, AddedAtTail
<1>7. /\ x \in Heaps /\ l \in Nodes /\ e \in Nodes /\ l \in Members(o, l) /\ q \in Members(o, l) /\ q \in Nodes
      /\ o[e] # l
  <2>1. Ring(x, Members(o, l)) /\ x \in Heaps
    BY DEF Good
  <2>2. l \in Members(o, l) /\ Members(o, l) \subseteq Nodes
    BY NodesDistinct DEF Members
  <2> QED
    BY <2>1, <2>2, NodesDistinct DEF Ring
<1>8. /\ \A n \in Nodes : n # l /\ n # e => AtHead(x, e, l).next[n] = x.next[n]
      /\ \A n \in Nodes : n # q /\ n # e => AtTail(x, e, l).next[n] = x.next[n]
  BY <1>7 DEF AtHead, AtTail, Inserted, Heaps
<1>9. ASSUME NEW h \in Heads, h # l
      PROVE  InSequence(AtHead(x, e, l), p, h, a[h]) /\ InSequence(AtTail(x, e, l), p, h, b[h])
  <2>1. o[e] # h
    BY NodesDistinct
  <2>2. InSequence(AtHead(x, e, l), p, h, ls[h])
    BY <1>7, <1>8, <1>9, <2>1, OthersInSequence
  <2>3. InSequence(AtTail(x, e, l), p, h, ls[h])
    BY <1>7, <1>8, <1>9, <2>1, OthersInSequence
  <2> QED
    BY <1>5, <1>9, <2>2, <2>3
<1> QED
  BY <1>3, <1>6, <1>9 DEF AllInSequence

LEMMA AllRemoved ==
  ASSUME NEW x, NEW o, NEW ls, Good(x, o), AllInSequence(x, o, ls),
         NEW e \in Entries, o[e] # Null
  PROVE  AllInSequence(Deleted(x, e), [o EXCEPT ![e] = Null], Lacking(ls, e))
<1> DEFINE p == [o EXCEPT ![e] = Null]
           l == o[e]
           a == Lacking(ls, e)
           q == x.prev[e]
<1>1. /\ ls \in [Heads -> Seq(Entries)] /\ \A h \in Heads : InSequence(x, o, h, ls[h])
      /\ l \in Heads /\ x \in Heaps
  BY DEF AllInSequence, Good
<1>2. \A h \in Heads : a[h] = Ordered!Removed(ls[h], e)
  BY DEF Lacking
<1>3. \A h \in Heads : h # l => a[h] = ls[h]
  BY <1>1, <1>2, NotRemoved
<1>4. InSequence(Deleted(x, e), p, l, a[l])
  <2>1. InSequence(x, o, l, ls[l]) /\ l \in Heads /\ a[l] = Ordered!Removed(ls[l], e)
    BY <1>1, <1>2
  <2>2. InSequence(Deleted(x, e), p, l, Ordered!Removed(ls[l], e))
    BY <2>1, RemovedEntry
  <2> QED
    BY <2>1, <2>2
<1>5. q \in Members(o, l) /\ e \in Members(o, l) /\ q \in Nodes
  <2>1. Ring(x, Members(o, l))
    BY <1>1 DEF Good
  <2>2. e \in Members(o, l) /\ Members(o, l) \subseteq Nodes
    BY <1>1, NodesDistinct DEF Members
  <2> QED
    BY <2>1, <2>2 DEF Ring
<1>6. \A n \in Nodes : n # q /\ n # e => Deleted(x, e).next[n] = x.next[n]
  BY <1>1, <1>5 DEF Deleted, Heaps
<1>7. ASSUME NEW h \in Heads, h # l PROVE InSequence(Deleted(x, e), p, h, a[h])
  <2>1. InSequence(Deleted(x, e), p, h, ls[h])
    BY <1>1, <1>5, <1>6, <1>7, NodesDistinct, OthersInSequence
  <2> QED
    BY <1>3, <1>7, <2>1
<1>8. \A h \in Heads : a[h] \in Seq(Entries)
  BY <1>4, <1>7 DEF InSequence
<1>9. a \in [Heads -> Seq(Entries)]
  BY <1>8 DEF Lacking
<1> QED
  BY <1>4, <1>7, <1>9 DEF AllInSequence

LEMMA AllAlone ==
  ASSUME NEW x, NEW o, NEW ls, Good(x, o), AllInSequence(x, o, ls),
         NEW e \in Entries, o[e] = Null
  PROVE  AllInSequence(Alone(x, e), o, ls)
<1> SUFFICES ASSUME NEW h \in Heads PROVE InSequence(Alone(x, e), o, h, ls[h])
  BY DEF AllInSequence
<1>1. x \in Heaps /\ InSequence(x, o, h, ls[h])
  BY DEF AllInSequence, Good
<1>2. \A n \in Members(o, h) : n # e /\ n \in Nodes
  BY NodesDistinct DEF Members
<1>3. \A n \in Members(o, h) : Alone(x, e).next[n] = x.next[n]
  BY <1>1, <1>2 DEF Alone, Heaps
<1> QED
  BY <1>1, <1>3, OrderKept
SequenceInv == AllInSequence(heap, on, Lists)

\* An entry on no list leaves the lists as they are; one on a list is on the lists.
LEMMA LackingNone ==
  ASSUME NEW x, NEW o, NEW ls, AllInSequence(x, o, ls), NEW e \in Entries, o[e] = Null
  PROVE  Lacking(ls, e) = ls
<1>1. ls \in [Heads -> Seq(Entries)] /\ \A h \in Heads : InSequence(x, o, h, ls[h])
  BY DEF AllInSequence
<1>2. \A h \in Heads : Ordered!Removed(ls[h], e) = ls[h]
  BY <1>1, NotRemoved, NodesDistinct
<1> QED
  BY <1>1, <1>2 DEF Lacking

LEMMA OnIsListed ==
  ASSUME NEW x, NEW o, NEW ls, Good(x, o), AllInSequence(x, o, ls),
         NEW e \in Entries, o[e] # Null
  PROVE  \E h \in Heads : Ordered!Contains(ls[h], e)
<1>1. o[e] \in Heads
  BY DEF Good
<1>2. \E i \in 1 .. Len(ls[o[e]]) : ls[o[e]][i] = e
  BY <1>1 DEF AllInSequence, InSequence
<1> QED
  BY <1>1, <1>2 DEF Ordered!Contains

\* Deleting, and putting at an end of a list, does to the lists what ClientLists says.
LEMMA MovedIsAdded ==
  ASSUME NEW x, NEW o, NEW ls, Good(x, o), AllInSequence(x, o, ls),
         NEW e \in Entries, o[e] # Null, NEW l \in Heads
  PROVE  LET y == Deleted(x, e)
             p == [o EXCEPT ![e] = l]
             w == Lacking(ls, e)
         IN  /\ AllInSequence(AtHead(y, e, l), p, [w EXCEPT ![l] = <<e>> \o @])
             /\ AllInSequence(AtTail(y, e, l), p, [w EXCEPT ![l] = Append(@, e)])
<1> DEFINE y == Deleted(x, e)
           m == [o EXCEPT ![e] = Null]
           w == Lacking(ls, e)
<1>1. Good(y, m) /\ AllInSequence(y, m, w)
  BY TakeGood, AllRemoved
<1>2. m[e] = Null /\ [m EXCEPT ![e] = l] = [o EXCEPT ![e] = l]
  BY OnMoves DEF Good
<1> HIDE DEF y, m, w
<1>3. /\ AllInSequence(AtHead(y, e, l), [m EXCEPT ![e] = l], [w EXCEPT ![l] = <<e>> \o @])
      /\ AllInSequence(AtTail(y, e, l), [m EXCEPT ![e] = l], [w EXCEPT ![l] = Append(@, e)])
  BY <1>1, <1>2, AllAdded
<1> QED
  BY <1>2, <1>3 DEF y, w

LEMMA SequenceInvInit == ListInit => SequenceInv /\ Ordered!Init
<1> SUFFICES ASSUME ListInit PROVE SequenceInv /\ Ordered!Init
  OBVIOUS
<1> DEFINE ls == [h \in Heads |-> <<>>]
<1>1. <<>> \in Seq(Entries) /\ Len(<<>>) = 0
  BY EmptySeq
<1>2. \A e \in Entries : on[e] = Null
  BY DEF ListInit
<1>3. \A h \in Heads : heap.next[h] = h
  BY NodesDistinct DEF ListInit
<1>4. \A h \in Heads : InSequence(heap, on, h, <<>>)
  BY <1>1, <1>2, <1>3, NodesDistinct DEF InSequence, Through
<1>5. AllInSequence(heap, on, ls)
  BY <1>1, <1>4 DEF AllInSequence
<1> HIDE DEF ls
<1>6. Lists = ls
  BY <1>5, ListsAre
<1> QED
  BY <1>5, <1>6 DEF SequenceInv, Ordered!Init, ls
LEMMA ListsAreAll == \A ls : AllInSequence(heap, on, ls) => Lists = ls
BY ListsAre

\* After a step as well.
LEMMA NextListsAre ==
  \A ls : AllInSequence(heap', on', ls) => Lists' = ls /\ SequenceInv'
<1>1. (\A ls : AllInSequence(heap, on, ls) => Lists = ls)'
  BY ListsAreAll, PTL
<1> SUFFICES ASSUME NEW ls, AllInSequence(heap', on', ls)  PROVE Lists' = ls /\ SequenceInv'
  OBVIOUS
<1>2. Lists' = ls
  BY <1>1
<1> QED
  BY <1>2 DEF SequenceInv

\* Every step is a step of ClientLists or changes no list.
LEMMA ListStepIsOrdered ==
  ListInv /\ SequenceInv /\ [ListNext]_listVars => SequenceInv' /\ [Ordered!Next]_Lists
<1> SUFFICES ASSUME ListInv, SequenceInv, [ListNext]_listVars
             PROVE  SequenceInv' /\ [Ordered!Next]_Lists
  OBVIOUS
<1>0. /\ Good(heap, on) /\ AllInSequence(heap, on, Lists)
      /\ on \in [Entries -> Heads \cup {Null}]
  BY DEF ListInv, SequenceInv, Good
<1> DEFINE W(e) == Lacking(Lists, e)
<1>w. \A e : W(e) = Ordered!Without(e)
  BY DEF Lacking, Ordered!Without
\* Three ways for a step: an entry put at an end, an entry taken, nothing.
<1>a. ASSUME NEW e \in Entries, NEW l \in Heads,
             \/ AllInSequence(heap', on', [W(e) EXCEPT ![l] = <<e>> \o @])
             \/ AllInSequence(heap', on', [W(e) EXCEPT ![l] = Append(@, e)])
      PROVE  SequenceInv' /\ [Ordered!Next]_Lists
  <2> HIDE DEF W
  <2>1. CASE AllInSequence(heap', on', [W(e) EXCEPT ![l] = <<e>> \o @])
    <3>1. SequenceInv' /\ Lists' = [W(e) EXCEPT ![l] = <<e>> \o @]
      BY <2>1, NextListsAre
    <3>2. Ordered!Add(e, l)
      BY <1>w, <3>1 DEF Ordered!Add
    <3> QED
      BY <3>1, <3>2 DEF Ordered!Next
  <2>2. CASE AllInSequence(heap', on', [W(e) EXCEPT ![l] = Append(@, e)])
    <3>1. SequenceInv' /\ Lists' = [W(e) EXCEPT ![l] = Append(@, e)]
      BY <2>2, NextListsAre
    <3>2. Ordered!AddTail(e, l)
      BY <1>w, <3>1 DEF Ordered!AddTail
    <3> QED
      BY <3>1, <3>2 DEF Ordered!Next
  <2> QED
    BY <1>a, <2>1, <2>2
<1>b. ASSUME NEW e \in Entries, on[e] # Null, AllInSequence(heap', on', W(e))
      PROVE  SequenceInv' /\ [Ordered!Next]_Lists
  <2>1. ~Ordered!Free(e)
    <3>1. \E h \in Heads : Ordered!Contains(Lists[h], e)
      BY <1>0, <1>b, OnIsListed
    <3> QED
      BY <3>1 DEF Ordered!Free
  <2> HIDE DEF W
  <2>2. SequenceInv' /\ Lists' = W(e)
    BY <1>b, NextListsAre
  <2>3. Ordered!Del(e)
    BY <1>w, <2>1, <2>2 DEF Ordered!Del
  <2> QED
    BY <2>2, <2>3 DEF Ordered!Next
<1>c. ASSUME heap' = heap, on' = on  PROVE SequenceInv' /\ [Ordered!Next]_Lists
  <2>1. SequenceInv' /\ Lists' = Lists
    BY <1>0, <1>c, NextListsAre
  <2> QED
    BY <2>1
\* What the heap has become by a deletion.
<1>d. ASSUME NEW e \in Entries, on[e] # Null, on' = [on EXCEPT ![e] = Null],
             heap' = Deleted(heap, e) \/ heap' = Alone(Deleted(heap, e), e)
      PROVE  SequenceInv' /\ [Ordered!Next]_Lists
  <2> DEFINE x == Deleted(heap, e)
             o == [on EXCEPT ![e] = Null]
             w == W(e)
  <2>1. Good(x, o) /\ AllInSequence(x, o, w)
    BY <1>0, <1>d, TakeGood, AllRemoved
  <2>2. o[e] = Null
    BY <1>0, OnMoves
  <2>3. on' = o /\ (heap' = x \/ heap' = Alone(x, e))
    BY <1>d
  <2> HIDE DEF x, o, w
  <2>4. AllInSequence(Alone(x, e), o, w)
    BY <2>1, <2>2, AllAlone
  <2>5. AllInSequence(heap', on', w)
    BY <2>1, <2>3, <2>4
  <2> QED
    BY <1>b, <1>d, <2>5 DEF w
<1>1. ASSUME NEW e \in Entries, NEW list \in Heads, RyanListAdd(e, list) \/ RyanListAddTail(e, list)
      PROVE  SequenceInv' /\ [Ordered!Next]_Lists
  <2>1. /\ on[e] = Null /\ on' = [on EXCEPT ![e] = list]
        /\ heap' = AtHead(heap, e, list) \/ heap' = AtTail(heap, e, list)
    BY <1>1 DEF RyanListAdd, RyanListAddTail, Goes
  <2>2. W(e) = Lists
    BY <1>0, <2>1, LackingNone
  <2> HIDE DEF W
  <2>3. /\ AllInSequence(AtHead(heap, e, list), on', [Lists EXCEPT ![list] = <<e>> \o @])
        /\ AllInSequence(AtTail(heap, e, list), on', [Lists EXCEPT ![list] = Append(@, e)])
    BY <1>0, <2>1, AllAdded
  <2> QED
    BY <1>a, <2>1, <2>2, <2>3
<1>2. ASSUME NEW e \in Entries, RyanListDel(e) \/ RyanListDelInit(e)
      PROVE  SequenceInv' /\ [Ordered!Next]_Lists
  BY <1>2, <1>d DEF RyanListDel, RyanListDelInit, Goes
<1>3. ASSUME NEW e \in Entries, NEW list \in Heads, RyanListMove(e, list) \/ RyanListMoveTail(e, list)
      PROVE  SequenceInv' /\ [Ordered!Next]_Lists
  <2> DEFINE x == Deleted(heap, e)
  <2>1. /\ on[e] # Null /\ on' = [on EXCEPT ![e] = list]
        /\ heap' = AtHead(x, e, list) \/ heap' = AtTail(x, e, list)
    BY <1>3 DEF RyanListMove, RyanListMoveTail, Goes
  <2>2. /\ AllInSequence(AtHead(x, e, list), on', [W(e) EXCEPT ![list] = <<e>> \o @])
        /\ AllInSequence(AtTail(x, e, list), on', [W(e) EXCEPT ![list] = Append(@, e)])
    BY <1>0, <2>1, MovedIsAdded
  <2> HIDE DEF W, x
  <2> QED
    BY <1>a, <2>1, <2>2
<1>4. ASSUME NEW list \in Heads, ForEachSafe(list)  PROVE SequenceInv' /\ [Ordered!Next]_Lists
  BY <1>4, <1>c DEF ForEachSafe
<1>5. CASE Leave
  BY <1>5, <1>c DEF Leave, Round
<1>6. CASE LoopDel \/ LoopDelInit
  <2> DEFINE e == loop.curr
  <2>1. /\ e \in Entries /\ on[e] = loop.list /\ on' = [on EXCEPT ![e] = Null]
        /\ heap' = Deleted(heap, e) \/ heap' = Alone(Deleted(heap, e), e)
        /\ ~Outside
    BY <1>6 DEF LoopDel, LoopDelInit, Mine, Goes, Round
  <2>2. on[e] # Null
    BY <2>1 DEF Outside
  <2> HIDE DEF e
  <2> QED
    BY <1>d, <2>1, <2>2
<1>7. CASE EndLoop
  BY <1>7, <1>c DEF EndLoop
<1>8. CASE UNCHANGED listVars
  BY <1>8, <1>c DEF listVars
<1> HIDE DEF W
<1> QED
  BY <1>1, <1>2, <1>3, <1>4, <1>5, <1>6, <1>7, <1>8 DEF ListNext

\* Seen from their heads through the next pointers, the heaps of RyanList.c are lists to
\* which every operation and the loop do what ClientLists says of them, for any heads and
\* entries.
THEOREM ListImplementsLists == ListSpec => ImplementsLists
<1>1. ListInit => SequenceInv /\ Ordered!Init
  BY SequenceInvInit
<1>2. ListInv /\ SequenceInv /\ [ListNext]_listVars => SequenceInv' /\ [Ordered!Next]_Lists
  BY ListStepIsOrdered
<1> QED
  BY <1>1, <1>2, ListInvHolds, PTL DEF ListSpec, ImplementsLists, Ordered!Spec

-----------------------------------------------------------------------------
(***************************************************************************)
(* Ping                                                                    *)
(***************************************************************************)

\* The running sums of a body exist, up to every word.
LEMMA SumsExist ==
  ASSUME NEW n \in Nat, NEW b \in [1 .. n -> Nat]
  PROVE  \E g \in [0 .. n -> Nat] : g[0] = 0 /\ \A i \in 1 .. n : g[i] = g[i - 1] + b[i]
<1> DEFINE Summed(k) == \E g \in [0 .. k -> Nat] : g[0] = 0 /\ \A i \in 1 .. k : g[i] = g[i - 1] + b[i]
           D == {k \in 0 .. n : ~Summed(k)}
<1>1. Summed(0)
  <2> DEFINE g == [i \in 0 .. 0 |-> 0]
  <2>1. g \in [0 .. 0 -> Nat] /\ g[0] = 0 /\ \A i \in 1 .. 0 : g[i] = g[i - 1] + b[i]
    OBVIOUS
  <2> QED
    BY <2>1
<1>2. ASSUME NEW k \in 1 .. n, Summed(k - 1) PROVE Summed(k)
  <2>1. PICK g \in [0 .. k - 1 -> Nat] : g[0] = 0 /\ \A i \in 1 .. k - 1 : g[i] = g[i - 1] + b[i]
    BY <1>2
  <2> DEFINE h == [i \in 0 .. k |-> IF i = k THEN g[k - 1] + b[k] ELSE g[i]]
  <2>2. k - 1 \in 0 .. k - 1 /\ k - 1 \in 0 .. k /\ k \in 0 .. k /\ 0 \in 0 .. k /\ k # 0 /\ k - 1 # k
    OBVIOUS
  <2>3. h \in [0 .. k -> Nat]
    <3>1. \A i \in 0 .. k : i # k => i \in 0 .. k - 1
      OBVIOUS
    <3>2. g[k - 1] + b[k] \in Nat
      BY <2>2
    <3> QED
      BY <3>1, <3>2
  <2>4. h[0] = 0
    BY <2>1, <2>2
  <2>5. ASSUME NEW i \in 1 .. k PROVE h[i] = h[i - 1] + b[i]
    <3>1. i \in 0 .. k /\ i - 1 \in 0 .. k /\ i - 1 # k
      OBVIOUS
    <3>2. CASE i = k
      BY <3>1, <3>2
    <3>3. CASE i # k
      <4>1. i \in 1 .. k - 1
        BY <3>3
      <4>2. h[i] = g[i] /\ h[i - 1] = g[i - 1]
        BY <3>1, <3>3
      <4> QED
        BY <2>1, <4>1, <4>2
    <3> QED
      BY <3>2, <3>3
  <2> HIDE DEF h
  <2> QED
    BY <2>3, <2>4, <2>5
<1>3. D = {}
  <2> SUFFICES ASSUME D # {} PROVE FALSE
    OBVIOUS
  <2>1. D \subseteq Nat
    OBVIOUS
  <2> HIDE DEF Summed
  <2>2. PICK k \in D : \A j \in D : k <= j
    <3> HIDE DEF D
    <3> QED
      BY <2>1, LeastNumber
  <2>3. k \in 0 .. n /\ ~Summed(k)
    OBVIOUS
  <2>4. k # 0
    BY <1>1, <2>3
  <2>5. k \in 1 .. n /\ k - 1 \in 0 .. n /\ ~(k <= k - 1)
    BY <2>3, <2>4
  <2>6. Summed(k - 1)
    BY <2>2, <2>5
  <2> QED
    BY <1>2, <2>3, <2>5, <2>6
<1>4. Summed(n)
  <2> HIDE DEF Summed
  <2>1. n \in 0 .. n
    OBVIOUS
  <2> QED
    BY <1>3, <2>1
<1> QED
  BY <1>4

\* The sum of n words of at most M.
LEMMA AddedBounded ==
  ASSUME NEW n \in Nat, NEW M \in Nat, NEW b \in [1 .. n -> 0 .. M]
  PROVE  Added(b) \in Nat /\ Added(b) <= M * n
<1>1. Len(b) = n /\ b \in [1 .. n -> Nat]
  <2>1. b \in Seq(0 .. M)
    OBVIOUS
  <2> QED
    BY <2>1
<1> DEFINE F(f) == [i \in 0 .. n |-> IF i = 0 THEN 0 ELSE f[i - 1] + b[i]]
           u == CHOOSE f : f = F(f)
<1>2. Added(b) = u[n]
  BY <1>1 DEF Added
<1>3. PICK g \in [0 .. n -> Nat] : g[0] = 0 /\ \A i \in 1 .. n : g[i] = g[i - 1] + b[i]
  BY <1>1, SumsExist
<1>4. g = F(g)
  <2>1. \A i \in 0 .. n : g[i] = IF i = 0 THEN 0 ELSE g[i - 1] + b[i]
    <3>1. \A i \in 0 .. n : i # 0 => i \in 1 .. n
      OBVIOUS
    <3> QED
      BY <1>3, <3>1
  <2> QED
    BY <2>1
<1>5. u = F(u)
  <2> HIDE DEF F
  <2> QED
    BY <1>4
<1> HIDE DEF u
<1>6. u[0] = 0 /\ \A i \in 1 .. n : u[i] = u[i - 1] + b[i]
  <2>1. \A i \in 0 .. n : u[i] = IF i = 0 THEN 0 ELSE u[i - 1] + b[i]
    BY <1>5
  <2>2. 0 \in 0 .. n /\ \A i \in 1 .. n : i \in 0 .. n /\ i # 0
    OBVIOUS
  <2> QED
    BY <2>1, <2>2
<1> DEFINE Small(i) == u[i] \in Nat /\ u[i] <= M * i
           D == {i \in 0 .. n : ~Small(i)}
<1>7. Small(0)
  BY <1>6
<1>8. ASSUME NEW i \in 1 .. n, Small(i - 1) PROVE Small(i)
  <2>1. u[i] = u[i - 1] + b[i] /\ b[i] \in 0 .. M
    BY <1>6
  <2>2. u[i - 1] \in Nat /\ u[i - 1] <= M * (i - 1)
    BY <1>8
  <2>3. M * (i - 1) + M = M * i /\ M * (i - 1) \in Nat /\ M * i \in Nat
    OBVIOUS
  <2> QED
    BY <2>1, <2>2, <2>3
<1>9. D = {}
  <2> SUFFICES ASSUME D # {} PROVE FALSE
    OBVIOUS
  <2>1. D \subseteq Nat
    OBVIOUS
  <2> HIDE DEF Small
  <2>2. PICK k \in D : \A j \in D : k <= j
    <3> HIDE DEF D
    <3> QED
      BY <2>1, LeastNumber
  <2>3. k \in 0 .. n /\ ~Small(k)
    OBVIOUS
  <2>4. k # 0
    BY <1>7, <2>3
  <2>5. k \in 1 .. n /\ k - 1 \in 0 .. n /\ ~(k <= k - 1)
    BY <2>3, <2>4
  <2>6. Small(k - 1)
    BY <2>2, <2>5
  <2> QED
    BY <1>8, <2>3, <2>5, <2>6
<1>10. Small(n)
  <2> HIDE DEF Small
  <2>1. n \in 0 .. n
    OBVIOUS
  <2> QED
    BY <1>9, <2>1
<1> QED
  BY <1>2, <1>10

\* Adding the carry once: of sums this small it makes all ones exactly of the multiples
\* of the largest word.
LEMMA AllOnes ==
  ASSUME NEW W \in Nat, W > 2, NEW s \in Nat, s <= W * W - 2
  PROVE  ((s % W) + (s \div W)) % W = W - 1 <=> s > 0 /\ s % (W - 1) = 0
<1> DEFINE a == s \div W
           b == s % W
           d == W - 1
           c == b + a
<1>1. a \in Nat /\ b \in Nat /\ b < W /\ s = W * a + b /\ d \in Nat \ {0}
  OBVIOUS
<1>2. s % d = c % d
  <2> HIDE DEF a, b, d
  <2>1. c \in Nat /\ W = d + 1
    BY <1>1 DEF d
  <2>2. W * a = d * a + a /\ d * a \in Nat
    BY <1>1, <2>1
  <2>3. s = c + d * a
    BY <1>1, <2>2
  <2>4. (c + d * a) % d = c % d
    BY <1>1, <2>1, RemainderOfMore
  <2> QED
    BY <2>3, <2>4
<1>3. s > 0 <=> c > 0
  <2> HIDE DEF a, b
  <2>1. a = 0 => W * a = 0
    OBVIOUS
  <2>2. a > 0 => W * a > 0
    BY <1>1
  <2>3. W * a \in Nat
    BY <1>1
  <2> QED
    BY <1>1, <2>1, <2>2, <2>3
<1>4. a <= W - 1
  <2> HIDE DEF a, b
  <2> SUFFICES ASSUME a >= W PROVE FALSE
    BY <1>1
  <2>1. a - W \in Nat /\ W * a = W * W + W * (a - W)
    BY <1>1
  <2>2. W * (a - W) \in Nat /\ W * W \in Nat /\ W * a \in Nat
    BY <1>1, <2>1
  <2> QED
    BY <1>1, <2>1, <2>2
<1>5. c <= 2 * W - 3
  <2> HIDE DEF a, b
  <2>1. CASE a = W - 1
    <3>1. W * a = W * W - W /\ W * W \in Nat
      BY <2>1
    <3> QED
      BY <1>1, <2>1, <3>1
  <2>2. CASE a # W - 1
    BY <1>1, <1>4, <2>2
  <2> QED
    BY <2>1, <2>2
<1>6. c \in Nat
  BY <1>1
<1> HIDE DEF a, b, c
<1>7. c % W = W - 1 <=> c = W - 1
  <2>1. W \in Nat \ {0} /\ c < 2 * W
    BY <1>5, <1>6
  <2>2. c < W => c % W = c
    BY <1>6, <2>1, SmallRemainder
  <2>3. W <= c => c % W = c - W
    BY <1>6, <2>1, SmallRemainder
  <2> QED
    BY <1>5, <1>6, <2>2, <2>3
<1>8. c > 0 /\ c % d = 0 <=> c = d
  <2>1. d \in Nat \ {0} /\ c < 2 * d
    BY <1>1, <1>5, <1>6
  <2> HIDE DEF d
  <2>2. c < d => c % d = c
    BY <1>6, <2>1, SmallRemainder
  <2>3. d <= c => c % d = c - d
    BY <1>6, <2>1, SmallRemainder
  <2> QED
    BY <1>6, <2>1, <2>2, <2>3
<1>9. c = d <=> c = W - 1
  BY DEF d
<1> QED
  BY <1>2, <1>3, <1>7, <1>8, <1>9 DEF a, b, c, d

\* A multiple leaves no remainder.
LEMMA RemainderOfMultiple ==
  ASSUME NEW d \in Nat \ {0}, NEW e \in Nat  PROVE (d * e) % d = 0
<1>1. (0 + d * e) % d = 0 % d
  BY RemainderOfMore
<1>2. 0 % d = 0
  BY SmallRemainder
<1>3. 0 + d * e = d * e
  OBVIOUS
<1> QED
  BY <1>1, <1>2, <1>3

\* A sum to which its complement is added is such a multiple, unless the carry carries.
LEMMA WithComplement ==
  ASSUME NEW W \in Nat, W > 2, NEW s \in Nat, (s % W) + (s \div W) < W,
         NEW t, t = s + (W - 1 - (((s % W) + (s \div W)) % W))
  PROVE  t > 0 /\ t % (W - 1) = 0
<1> DEFINE a == s \div W
           b == s % W
           d == W - 1
           c == b + a
           e == a + 1
<1>1. a \in Nat /\ b \in Nat /\ b < W /\ s = W * a + b /\ d \in Nat \ {0} /\ c < W
  OBVIOUS
<1>2. c \in Nat /\ c % W = c
  <2>1. c \in Nat /\ W \in Nat \ {0} /\ c < W
    BY <1>1
  <2> HIDE DEF c
  <2> QED
    BY <2>1, SmallRemainder
<1>3. t = s + (W - 1 - (c % W))
  OBVIOUS
<1> HIDE DEF a, b, c
<1>4. t = d * e /\ e \in Nat /\ t \in Nat /\ t > 0
  <2>1. W * a = d * a + a /\ d * e = d * a + d /\ d * a \in Nat
    BY <1>1
  <2>2. t = s + (W - 1) - c /\ c = b + a
    BY <1>1, <1>2, <1>3 DEF c
  <2>3. e \in Nat
    BY <1>1
  <2> HIDE DEF e
  <2>4. W * a \in Nat /\ d = W - 1
    BY <1>1 DEF d
  <2> HIDE DEF d
  <2>5. t = d * a + d
    BY <1>1, <2>1, <2>2, <2>4
  <2> QED
    BY <1>1, <2>1, <2>3, <2>5
<1> HIDE DEF d, e
<1>5. (d * e) % d = 0 /\ t = d * e
  BY <1>1, <1>4, RemainderOfMultiple
<1> QED
  BY <1>4, <1>5 DEF d

\* The words of a message add up to less than the square of a word's values.
LEMMA SumBounded ==
  ASSUME NEW m, m.type \in {"reply", "request", "other"}, m.sum \in Words, m.odd \in 0 .. Half - 1,
         NEW n \in 1 .. PingWords, m.body \in [1 .. n -> Words]
  PROVE  Sum(m) \in Nat /\ Sum(m) <= (Half * Half) * (Half * Half) - 2
<1> DEFINE W == Half * Half
           a == Added(m.body)
           p == TypeWord(m)
           x == m.odd * Half
           y == (W - 1) * n
<1>1. Half \in Nat /\ Half >= 2 /\ W \in Nat /\ W >= 2 * Half /\ W - 1 \in Nat /\ n \in Nat /\ n <= W - 2
  <2>1. Half \in Nat /\ Half >= 2 /\ n \in Nat /\ n <= W - 2
    <3>1. PingWords \in 1 .. W - 2 /\ Half \in Nat \ {0, 1}
      BY PingAssumption
    <3>2. W \in Nat
      BY <3>1
    <3> HIDE DEF W
    <3> QED
      BY <3>1, <3>2
  <2>2. Half * Half = 2 * Half + (Half - 2) * Half /\ (Half - 2) * Half >= 0
    BY <2>1
  <2> QED
    BY <2>1, <2>2
<1>2. a \in Nat /\ a <= y
  <2>1. m.body \in [1 .. n -> 0 .. W - 1]
    BY DEF Words
  <2> HIDE DEF W
  <2> QED
    BY <1>1, <2>1, AddedBounded
<1>3. p \in Nat /\ p <= W - 1
  <2>1. (8 * Half) % W \in 0 .. W - 1
    <3>1. W \in Nat \ {0} /\ 8 * Half \in Nat
      BY <1>1
    <3> HIDE DEF W
    <3> QED
      BY <3>1, SmallRemainder
  <2>2. p = IF m.type = "request" THEN (8 * Half) % W ELSE IF m.type = "reply" THEN 0 ELSE Half
    BY DEF TypeWord
  <2> HIDE DEF W, p
  <2> QED
    BY <1>1, <2>1, <2>2
<1>4. x \in Nat /\ x <= W - 2
  <2>1. m.odd \in Nat /\ m.odd <= Half - 1
    BY <1>1
  <2>2. \A h \in Nat, o \in Nat : h * h - h = o * h + (h - 1 - o) * h
    OBVIOUS
  <2>3. \A h \in Nat, o \in Nat : o <= h - 1 => (h - 1 - o) * h \in Nat /\ o * h \in Nat
    OBVIOUS
  <2>4. W - Half = x + (Half - 1 - m.odd) * Half
    BY <1>1, <2>1, <2>2
  <2>5. (Half - 1 - m.odd) * Half \in Nat /\ x \in Nat
    BY <1>1, <2>1, <2>3
  <2> HIDE DEF W, x
  <2> QED
    BY <1>1, <2>4, <2>5
<1>5. y \in Nat /\ y <= W * W - 3 * W + 2
  <2> HIDE DEF W
  <2>1. (W - 1) * (W - 2) = (W - 1) * n + (W - 1) * (W - 2 - n)
    BY <1>1
  <2>2. (W - 1) * (W - 2 - n) >= 0 /\ (W - 1) * (W - 2 - n) \in Int /\ (W - 1) * n \in Nat
    BY <1>1
  <2>3. (W - 1) * (W - 2) = W * W - 3 * W + 2 /\ W * W \in Nat
    BY <1>1
  <2> QED
    BY <2>1, <2>2, <2>3
<1>6. m.sum \in Nat /\ m.sum <= W - 1
  BY <1>1 DEF Words
<1>7. Sum(m) = p + m.sum + a + x
  BY DEF Sum
<1>8. W * W \in Int
  BY <1>1
<1> HIDE DEF W, a, p, x, y
<1> DEFINE t == Sum(m)
           v == W * W
<1>9. t \in Nat /\ t <= v - 2
  <2>1. t = p + m.sum + a + x
    BY <1>7
  <2>2. v \in Int /\ y <= v - 3 * W + 2
    BY <1>5, <1>8
  <2> HIDE DEF t, v
  <2> QED
    BY <1>1, <1>2, <1>3, <1>4, <1>5, <1>6, <2>1, <2>2
<1> QED
  BY <1>9 DEF W

\* What is received of a message is a message of at most PingWords words.
LEMMA ReceivedFits ==
  ASSUME NEW m \in Messages
  PROVE  LET r == Received(m)
         IN  /\ r.type \in {"reply", "request", "other"} /\ r.sum \in Words
             /\ r.odd \in 0 .. Half - 1
             /\ \E k \in 1 .. PingWords : r.body \in [1 .. k -> Words]
<1>1. PICK n \in PingLens : m \in [type : {"reply", "request", "other"}, sum : Words,
                                   body : [1 .. n -> Words], odd : 0 .. Half - 1]
  BY DEF Messages
<1>2. n \in Nat \ {0} /\ PingWords \in Nat \ {0} /\ 0 \in 0 .. Half - 1
  BY PingAssumption
<1>3. m.body \in [1 .. n -> Words] /\ Len(m.body) = n
  <2>1. m.body \in [1 .. n -> Words] /\ m.body \in Seq(Words)
    BY <1>1, <1>2
  <2> QED
    BY <1>2, <2>1
<1> DEFINE b == SubSeq(m.body, 1, PingWords)
           r == [m EXCEPT !.body = b, !.odd = 0]
<1>4. CASE n >= PingWords
  <2>1. b \in [1 .. PingWords -> Words]
    <3>1. b = [i \in 1 .. PingWords |-> m.body[i]]
      BY <1>2
    <3>2. \A i \in 1 .. PingWords : i \in 1 .. n
      BY <1>2, <1>4
    <3> QED
      BY <1>3, <3>1, <3>2
  <2> HIDE DEF b
  <2>2. r.type = m.type /\ r.sum = m.sum /\ r.odd = 0 /\ r.body = b
    BY <1>1
  <2>3. Received(m) = r
    BY <1>3, <1>4 DEF Received, b
  <2>4. PingWords \in 1 .. PingWords
    BY <1>2
  <2> HIDE DEF r
  <2> QED
    BY <1>1, <1>2, <2>1, <2>2, <2>3, <2>4
<1>5. CASE ~(n >= PingWords)
  <2>1. Received(m) = m
    BY <1>3, <1>5 DEF Received
  <2>2. n \in 1 .. PingWords
    BY <1>2, <1>5
  <2> QED
    BY <1>1, <1>3, <2>1, <2>2
<1> QED
  BY <1>4, <1>5

\* A request before its checksum is put in, with words i.
BareRequest(i) == [type |-> "request", sum |-> 0, body |-> [k \in 1 .. PingWords |-> i], odd |-> 0]

\* What the call has sent and received.
PingInv ==
  /\ inbox = NoMessage \/ inbox \in Messages
  /\ request = NoMessage \/
       \E i \in Words : request = [BareRequest(i) EXCEPT !.sum = wiz_checksum(BareRequest(i))]

\* Every step keeps it: only requests with their checksum are sent.
LEMMA PingInvStep == PingInv /\ [PingNext]_pingVars => PingInv'
<1> SUFFICES ASSUME PingInv, [PingNext]_pingVars PROVE PingInv'
  OBVIOUS
<1>1. CASE Resolve
  BY <1>1 DEF Resolve, PingInv, BareRequest, wiz_checksum, Folded, Sum, TypeWord, Added
<1>2. CASE OpenRaw \/ ConnectRaw \/ Reply \/ ReplyTimeout \/ CloseRaw
  <2>1. request' = request /\ (inbox' = inbox \/ inbox' = NoMessage)
    BY <1>2 DEF OpenRaw, ConnectRaw, Reply, ReplyTimeout, CloseRaw
  <2> QED
    BY <2>1 DEF PingInv
<1>3. CASE Request
  <2>1. inbox' = inbox
    BY <1>3 DEF Request
  <2>2. CASE request' = request
    BY <2>1, <2>2 DEF PingInv
  <2>3. CASE request' # request
    <3>1. \E i \in Words : request' = [BareRequest(i) EXCEPT !.sum = wiz_checksum(BareRequest(i))]
      BY <1>3, <2>3 DEF Request, BareRequest
    <3> QED
      BY <2>1, <3>1 DEF PingInv
  <2> QED
    BY <2>2, <2>3
<1>4. CASE IcmpArrives
  BY <1>4 DEF IcmpArrives, PingInv
<1>5. CASE UNCHANGED pingVars
  BY <1>5 DEF pingVars, PingInv
<1> QED
  BY <1>1, <1>2, <1>3, <1>4, <1>5 DEF PingNext, PingStep

\* For any width of a word and messages of any length, the check of RyanW5500Ping
\* accepts a reply exactly if the checksum over what it receives of it, the first
\* words, is right, and the request it sends has the right checksum unless adding the carry carries again.
THEOREM ChecksumAlwaysExact == PingSpec => []ChecksumExact
<1> DEFINE W == Half * Half
<1>0. W \in Nat /\ W > 2
  <2>1. Half \in Nat /\ Half >= 2
    BY PingAssumption
  <2>2. Half * Half = 2 * Half + (Half - 2) * Half /\ (Half - 2) * Half >= 0
    BY <2>1
  <2> QED
    BY <2>1, <2>2
<1>1. PingInit => PingInv
  BY DEF PingInit, PingInv
<1>2. PingInv => ChecksumExact
  <2> SUFFICES ASSUME PingInv PROVE ChecksumExact
    OBVIOUS
  <2>1. ASSUME inbox \in Messages PROVE Accepts(Received(inbox)) <=> Correct(Received(inbox))
    <3> DEFINE r == Received(inbox)
               s == Sum(r)
               f == ((s % W) + (s \div W)) % W
    <3>1. /\ r.type \in {"reply", "request", "other"} /\ r.sum \in Words /\ r.odd \in 0 .. Half - 1
          /\ \E k \in 1 .. PingWords : r.body \in [1 .. k -> Words]
      BY <2>1, ReceivedFits
    <3>2. s \in Nat /\ s <= W * W - 2
      <4> HIDE DEF r
      <4> QED
        BY <3>1, SumBounded
    <3>3. Accepts(r) <=> W - 1 - f = 0
      BY DEF Accepts, wiz_checksum, Folded
    <3>4. Correct(r) <=> s > 0 /\ s % (W - 1) = 0
      BY DEF Correct
    <3> HIDE DEF W, s
    <3>5. f = W - 1 <=> s > 0 /\ s % (W - 1) = 0
      BY <1>0, <3>2, AllOnes
    <3>6. f \in Int
      <4>1. (s % W) + (s \div W) \in Nat /\ W \in Nat \ {0}
        BY <1>0, <3>2
      <4> QED
        BY <4>1, SmallRemainder
    <3> HIDE DEF f
    <3>7. W - 1 - f = 0 <=> f = W - 1
      BY <1>0, <3>6
    <3> QED
      BY <3>3, <3>4, <3>5, <3>7
  <2>2. ASSUME NEW i \in Words,
               request = [BareRequest(i) EXCEPT !.sum = wiz_checksum(BareRequest(i))]
        PROVE  LET lsum == Sum([request EXCEPT !.sum = 0])
               IN  Correct(request) \/ (lsum % (Half * Half)) + (lsum \div (Half * Half)) >= Half * Half
    <3> DEFINE m == BareRequest(i)
               c == wiz_checksum(m)
               s == Sum(m)
               t == Sum(request)
               o == (s % W) + (s \div W)
    <3>1. /\ m.type = "request" /\ m.sum = 0 /\ m.odd = 0 /\ m.body \in [1 .. PingWords -> Words]
          /\ m = [type |-> m.type, sum |-> m.sum, body |-> m.body, odd |-> m.odd]
          /\ 0 \in Words /\ 0 \in 0 .. Half - 1
      <4>1. 0 \in Words /\ 0 \in 0 .. Half - 1
        BY <1>0, PingAssumption DEF Words
      <4> QED
        BY <4>1 DEF BareRequest
    <3>2. s \in Nat
      <4>1. PingWords \in 1 .. PingWords
        BY PingAssumption
      <4> HIDE DEF m
      <4> QED
        BY <3>1, <4>1, SumBounded
    <3>3. /\ request.type = m.type /\ request.sum = c /\ request.body = m.body /\ request.odd = m.odd
          /\ [request EXCEPT !.sum = 0] = m
      <4>1. request = [m EXCEPT !.sum = c]
        BY <2>2
      <4> HIDE DEF m, c
      <4> QED
        BY <3>1, <4>1
    <3>4. TypeWord(request) = TypeWord(m)
      BY <3>3 DEF TypeWord
    <3> DEFINE b == TypeWord(m)
               y == Added(m.body)
               z == m.odd * Half
    <3>5. b \in Nat /\ y \in Nat /\ z = 0
      <4>1. b \in Nat
        <5>1. W \in Nat \ {0} /\ 8 * Half \in Nat
          BY <1>0, PingAssumption
        <5>2. (8 * Half) % W \in 0 .. W - 1
          <6> HIDE DEF W
          <6> QED
            BY <5>1, SmallRemainder
        <5> QED
          BY <3>1, <5>2 DEF TypeWord
      <4>2. y \in Nat
        <5>1. PingWords \in Nat /\ W - 1 \in Nat /\ m.body \in [1 .. PingWords -> 0 .. W - 1]
          BY <1>0, <3>1, PingAssumption DEF Words
        <5> HIDE DEF W
        <5> QED
          BY <5>1, AddedBounded
      <4>3. z = 0
        BY <3>1, PingAssumption
      <4> QED
        BY <4>1, <4>2, <4>3
    <3>6. s = b + 0 + y + z /\ t = b + c + y + z
      BY <3>1, <3>3, <3>4 DEF Sum
    <3>7. c = W - 1 - (o % W)
      BY DEF wiz_checksum, Folded
    <3> HIDE DEF W, m, c, s, t, b, y, z
    <3>8. o \in Nat /\ o % W \in Int
      <4>1. o \in Nat /\ W \in Nat \ {0}
        BY <1>0, <3>2
      <4> HIDE DEF o
      <4> QED
        BY <4>1, SmallRemainder
    <3>9. t = s + (W - 1 - (o % W))
      <4> HIDE DEF o
      <4> QED
        BY <1>0, <3>2, <3>5, <3>6, <3>7, <3>8
    <3>10. CASE o < W
      <4>1. t > 0 /\ t % (W - 1) = 0
        BY <1>0, <3>2, <3>9, <3>10, WithComplement
      <4> QED
        BY <4>1 DEF Correct, t, W
    <3>11. CASE ~(o < W)
      <4>1. o >= W
        BY <1>0, <3>8, <3>11
      <4>2. Sum([request EXCEPT !.sum = 0]) = s
        BY <3>3 DEF s
      <4> QED
        BY <4>1, <4>2 DEF W
    <3> QED
      BY <3>10, <3>11
  <2> QED
    BY <2>1, <2>2 DEF PingInv, ChecksumExact
<1> QED
  BY <1>1, <1>2, PingInvStep, PTL DEF PingSpec
=============================================================================
