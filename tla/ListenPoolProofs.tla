-------------------------- MODULE ListenPoolProofs --------------------------
(***************************************************************************)
(* Proofs about ListenPool, for every table size and every backlog: the    *)
(* type invariant, and that the client lists own exactly the live client   *)
(* sockets, unless malloc fails in RyanW5500CreateListenClient, which does *)
(* leave a client in no list; then what the listening sockets keep         *)
(* account of.                                                             *)
(***************************************************************************)
EXTENDS ListenPool, TLAPS, FiniteSetTheorems, WellFoundedInduction

Tables == [Slots -> SlotType]

\* Owned, except that the sockets of X, which are being closed, are in no list.
OwnedBut(tab, X) ==
    /\ \A c \in Slots \ X : tab[c].live /\ tab[c].service # Null =>
         LET v == tab[c].service
         IN  v \in Slots /\ tab[v].live /\ tab[v].listening /\ c \in tab[v].clients
    /\ \A v \in Slots : \A c \in tab[v].clients :
         /\ c \notin X
         /\ tab[v].live /\ tab[v].listening /\ tab[v].service = Null
         /\ tab[c].live /\ tab[c].service = v /\ tab[c].type = tab[v].type

Outcomes == [tab : Tables, res : Slots \cup {Null}, fault : Faults]

-----------------------------------------------------------------------------
(* The table                                                               *)

\* The first free slot is a free slot.
LEMMA FirstFreeIsFree ==
    ASSUME NEW tab, Free(tab) # {}
    PROVE  FirstFree(tab) \in Free(tab)
<1>1. Free(tab) \subseteq Nat
  BY PoolAssumption DEF Free, Slots
<1>2. PICK s \in Free(tab) : \A r \in Free(tab) : <<r, s>> \notin OpToRel(<, Nat)
  BY <1>1, WFMin, NatLessThanWellFounded
<1>3. ASSUME NEW r \in Free(tab)  PROVE s <= r
  <2>1. r \in Nat /\ s \in Nat
    BY <1>1
  <2>2. ~(r < s)
    BY <1>2, <2>1 DEF OpToRel
  <2>3. QED BY <2>1, <2>2
<1>4. QED BY <1>3 DEF FirstFree

\* The zeroed slot and the slot a new socket gets are slots.
LEMMA SlotTypes ==
    /\ Zeroed \in SlotType
    /\ \A type \in Types, port \in Nat : Fresh(type, port) \in SlotType
<1>1. /\ 0 \in Slots /\ <<>> \in Queues
  BY PoolAssumption DEF Slots, Queues
<1>2. Zeroed \in SlotType
  BY <1>1 DEF Zeroed, PlainSlot, SlotType, Types, SocketStates, ChipStates
<1>3. ASSUME NEW type \in Types, NEW port \in Nat
      PROVE  Fresh(type, port) \in SlotType
  BY <1>1 DEF Fresh, PlainSlot, SlotType, Types, SocketStates, ChipStates
<1>4. QED BY <1>2, <1>3

\* Replacing one slot.
LEMMA UpdateSlot ==
    ASSUME NEW tab \in Tables, NEW s \in Slots, NEW r \in SlotType
    PROVE  LET new == [tab EXCEPT ![s] = r]
           IN  /\ new \in Tables /\ new[s] = r
               /\ \A q \in Slots \ {s} : new[q] = tab[q]
  BY DEF Tables

\* The fields that RyanW5500CreateListenClient and rt_mq_send assign.
WithService(r, v) == [r EXCEPT !.service = v]
WithClients(r, C) == [r EXCEPT !.clients = C]
WithQueue(r, q)   == [r EXCEPT !.queue = q]
Heard(r)          == [r EXCEPT !.state = "Listen", !.sr = "LISTEN"]

\* Slots that agree on what ownership speaks of, but for service and clients.
Alike(r, n) == n.live = r.live /\ n.type = r.type /\ n.listening = r.listening

LEMMA SlotFields ==
    ASSUME NEW r \in SlotType
    PROVE  /\ \A v \in Slots : LET n == WithService(r, v) IN
                n \in SlotType /\ Alike(r, n) /\ n.service = v /\ n.clients = r.clients
           /\ \A C \in SUBSET Slots : LET n == WithClients(r, C) IN
                n \in SlotType /\ Alike(r, n) /\ n.service = r.service /\ n.clients = C
           /\ LET n == Heard(r) IN
                /\ n \in SlotType /\ Alike(r, n)
                /\ n.service = r.service /\ n.clients = r.clients
<1>1. ASSUME NEW v \in Slots
      PROVE  LET n == WithService(r, v) IN
               n \in SlotType /\ Alike(r, n) /\ n.service = v /\ n.clients = r.clients
  BY DEF SlotType, WithService, Alike
<1>2. ASSUME NEW C \in SUBSET Slots
      PROVE  LET n == WithClients(r, C) IN
               n \in SlotType /\ Alike(r, n) /\ n.service = r.service /\ n.clients = C
  BY DEF SlotType, WithClients, Alike
<1>3. LET n == Heard(r) IN
        /\ n \in SlotType /\ Alike(r, n)
        /\ n.service = r.service /\ n.clients = r.clients
  BY DEF SlotType, SocketStates, ChipStates, Heard, Alike
<1>4. QED BY <1>1, <1>2, <1>3

\* Tables that agree on what ownership speaks of.
SameOwners(tab, new) ==
    \A s \in Slots : /\ new[s].live = tab[s].live
                     /\ new[s].type = tab[s].type
                     /\ new[s].service = tab[s].service
                     /\ new[s].listening = tab[s].listening
                     /\ new[s].clients = tab[s].clients

LEMMA SameOwnersOwn ==
    ASSUME NEW tab \in Tables, NEW new, NEW X, SameOwners(tab, new), OwnedBut(tab, X)
    PROVE  OwnedBut(new, X)
  BY DEF SameOwners, OwnedBut, Tables, SlotType

\* With no socket exempt the two notions of ownership agree.
LEMMA OwnedIsOwnedBut == ASSUME NEW tab PROVE Owned(tab) <=> OwnedBut(tab, {})
  BY DEF Owned, OwnedBut

\* Refilling a slot that is in no list and has none itself keeps ownership, when
\* what it gets is no client and has no clients.
LEMMA RefillKeepsOwned ==
    ASSUME NEW tab \in Tables, NEW s \in Slots, NEW X, OwnedBut(tab, X),
           tab[s].clients = {}, \A v \in Slots : s \notin tab[v].clients,
           NEW r \in SlotType, r.clients = {}, r.live => r.service = Null
    PROVE  /\ [tab EXCEPT ![s] = r] \in Tables
           /\ OwnedBut([tab EXCEPT ![s] = r], X \ {s})
<1> DEFINE new == [tab EXCEPT ![s] = r]
<1>1. new \in Tables
  BY DEF Tables
<1>2. /\ new[s] = r
      /\ \A q \in Slots : q # s => new[q] = tab[q]
  BY DEF Tables
<1> HIDE DEF new
<1>3. OwnedBut(new, X \ {s})
  <2>1. ASSUME NEW c \in Slots \ (X \ {s}), new[c].live, new[c].service # Null
        PROVE  LET v == new[c].service
               IN  v \in Slots /\ new[v].live /\ new[v].listening /\ c \in new[v].clients
    <3>1. c # s /\ c \notin X /\ new[c] = tab[c]
      BY <1>2, <2>1
    <3>2. LET v == tab[c].service
          IN  v \in Slots /\ tab[v].live /\ tab[v].listening /\ c \in tab[v].clients
      BY <2>1, <3>1 DEF OwnedBut
    <3>3. tab[c].service # s
      BY <3>2
    <3>4. QED BY <1>2, <3>1, <3>2, <3>3
  <2>2. ASSUME NEW v \in Slots, NEW c \in new[v].clients
        PROVE  /\ c \notin X \ {s}
               /\ new[v].live /\ new[v].listening /\ new[v].service = Null
               /\ new[c].live /\ new[c].service = v /\ new[c].type = new[v].type
    <3>1. v # s /\ c \in tab[v].clients /\ c # s
      BY <1>2, <2>2
    <3>2. c \in Slots
      BY <3>1 DEF Tables, SlotType
    <3>3. QED BY <1>2, <3>1, <3>2 DEF OwnedBut
  <2>3. QED BY <2>1, <2>2 DEF OwnedBut
<1>4. QED BY <1>1, <1>3 DEF new

\* Zeroing such a slot, as wiz_closesocket and a failing SocketCreate do.
LEMMA ZeroKeepsOwned ==
    ASSUME NEW tab \in Tables, NEW s \in Slots, NEW X, OwnedBut(tab, X),
           tab[s].clients = {}, \A v \in Slots : s \notin tab[v].clients
    PROVE  /\ [tab EXCEPT ![s] = Zeroed] \in Tables
           /\ OwnedBut([tab EXCEPT ![s] = Zeroed], X \ {s})
<1>1. Zeroed \in SlotType /\ Zeroed.clients = {} /\ ~Zeroed.live
  BY SlotTypes DEF Zeroed, PlainSlot
<1>2. QED BY <1>1, RefillKeepsOwned

\* A socket that is no client is in no list, and one that does not listen, or is
\* a client or closed, has none.
LEMMA ListsOfOthers ==
    ASSUME NEW tab \in Tables, OwnedBut(tab, {}), NEW s \in Slots
    PROVE  /\ ~tab[s].live \/ tab[s].service = Null
                => \A v \in Slots : s \notin tab[v].clients
           /\ ~tab[s].live \/ ~tab[s].listening \/ tab[s].service # Null
                => tab[s].clients = {}
<1>1. s # Null
  BY PoolAssumption DEF Slots, Null
<1>2. \A v \in Slots : v # Null
  BY PoolAssumption DEF Slots, Null
<1>3. ~tab[s].live \/ tab[s].service = Null => \A v \in Slots : s \notin tab[v].clients
  BY <1>2 DEF OwnedBut
<1>4. ~tab[s].live \/ ~tab[s].listening \/ tab[s].service # Null => tab[s].clients = {}
  BY DEF OwnedBut, Tables, SlotType
<1>5. QED BY <1>3, <1>4

-----------------------------------------------------------------------------
(* Creating sockets                                                        *)

\* The table a failing RyanW5500SocketCreate leaves.
Cleared(tab, new) ==
    \/ new = tab
    \/ \E s \in Slots : ~tab[s].live /\ new = [tab EXCEPT ![s] = Zeroed]

\* RyanW5500SocketCreate returns a slot that was free, filled, or leaves every
\* live socket as it was.
LEMMA SocketCreateOutcome ==
    ASSUME NEW tab \in Tables, NEW type \in Types, NEW port \in Nat,
           NEW o \in SocketCreate(tab, type, port)
    PROVE  /\ o \in Outcomes
           /\ o.res # Null => /\ o.fault = "none"
                             /\ o.res \in Slots /\ ~tab[o.res].live
                             /\ o.tab = [tab EXCEPT ![o.res] = Fresh(type, port)]
           /\ o.res = Null => Cleared(tab, o.tab)
<1>1. CASE Free(tab) = {}
  BY <1>1 DEF Cleared, SocketCreate, Stop, Done, Outcomes, Faults
<1>2. CASE Free(tab) # {}
  <2> DEFINE s == FirstFree(tab)
  <2>1. s \in Slots /\ ~tab[s].live /\ s # Null
    BY <1>2, FirstFreeIsFree, PoolAssumption DEF Free, Slots, Null
  <2>2. \/ o = Done([tab EXCEPT ![s] = Fresh(type, port)], s)
        \/ o = Done([tab EXCEPT ![s] = Zeroed], Null)
    BY <1>2 DEF SocketCreate
  <2>3. /\ [tab EXCEPT ![s] = Fresh(type, port)] \in Tables
        /\ [tab EXCEPT ![s] = Zeroed] \in Tables
    BY <2>1, SlotTypes DEF Tables
  <2> HIDE DEF s
  <2>4. CASE o = Done([tab EXCEPT ![s] = Fresh(type, port)], s)
    BY <2>1, <2>3, <2>4 DEF Done, Outcomes, Faults
  <2>5. CASE o = Done([tab EXCEPT ![s] = Zeroed], Null)
    BY <2>1, <2>3, <2>5 DEF Cleared, Done, Outcomes, Faults
  <2>6. QED BY <2>2, <2>4, <2>5
<1>3. QED BY <1>1, <1>2

\* What a call leaves behind unless it stopped the program: a table in which the
\* lists still own their clients and the exempt sockets are untouched.
Keeps(tab, X, o) ==
    /\ o \in Outcomes
    /\ o.fault = "none" => /\ OwnedBut(o.tab, X)
                          /\ \A x \in X : o.tab[x] = tab[x]

\* A new socket c linked into the list of the listening socket v.
LEMMA LinkKeepsOwned ==
    ASSUME NEW tab \in Tables, NEW X \in SUBSET Slots, OwnedBut(tab, X),
           \A x \in X : tab[x].live,
           NEW v \in Slots \ X, tab[v].live, tab[v].listening, tab[v].service = Null,
           NEW c \in Slots, ~tab[c].live,
           NEW new \in Tables,
           \A s \in Slots \ {v, c} : new[s] = tab[s],
           /\ new[v].live /\ new[v].listening /\ new[v].service = Null
           /\ new[v].type = tab[v].type /\ new[v].clients = tab[v].clients \cup {c},
           /\ new[c].live /\ new[c].service = v /\ new[c].type = tab[v].type
           /\ new[c].clients = {}
    PROVE  OwnedBut(new, X)
<1>1. v # c /\ c \notin X /\ v # Null
  BY PoolAssumption DEF Slots, Null
<1>2. ASSUME NEW d \in Slots \ X, new[d].live, new[d].service # Null
      PROVE  LET w == new[d].service
             IN  w \in Slots /\ new[w].live /\ new[w].listening /\ d \in new[w].clients
  <2>1. CASE d = c
    BY <1>1, <2>1
  <2>2. CASE d # c
    <3>1. d # v /\ new[d] = tab[d]
      BY <1>2, <2>2
    <3>2. LET w == tab[d].service
          IN  w \in Slots /\ tab[w].live /\ tab[w].listening /\ d \in tab[w].clients
      BY <1>2, <3>1 DEF OwnedBut
    <3>3. tab[d].service # c
      BY <3>2
    <3>4. QED BY <3>1, <3>2, <3>3
  <2>3. QED BY <2>1, <2>2
<1>3. ASSUME NEW w \in Slots, NEW d \in new[w].clients
      PROVE  /\ d \notin X
             /\ new[w].live /\ new[w].listening /\ new[w].service = Null
             /\ new[d].live /\ new[d].service = w /\ new[d].type = new[w].type
  <2>1. w # c
    BY <1>3
  <2>2. CASE d = c
    <3>1. \A u \in Slots : c \notin tab[u].clients
      BY DEF OwnedBut
    <3>2. w = v
      BY <1>3, <2>1, <2>2, <3>1
    <3>3. QED BY <1>1, <2>2, <3>2
  <2>3. CASE d # c
    <3>1. d \in tab[w].clients
      BY <1>3, <2>1, <2>3
    <3>2. /\ d \notin X /\ d \in Slots
          /\ tab[w].live /\ tab[w].listening /\ tab[w].service = Null
          /\ tab[d].live /\ tab[d].service = w /\ tab[d].type = tab[w].type
      BY <3>1 DEF OwnedBut, Tables, SlotType
    <3>3. d # v /\ new[d] = tab[d]
      BY <2>3, <3>2, PoolAssumption DEF Slots, Null
    <3>4. QED BY <2>1, <3>2, <3>3
  <2>4. QED BY <2>2, <2>3
<1>4. QED BY <1>2, <1>3 DEF OwnedBut

\* RyanW5500CreateListenClient keeps ownership, whether or not it succeeds.
LEMMA CreateListenClientKeeps ==
    ASSUME "mallocFails" \notin Env,
           NEW tab \in Tables, NEW X \in SUBSET Slots, OwnedBut(tab, X),
           \A x \in X : tab[x].live,
           NEW v \in Slots \ X, tab[v].live, tab[v].listening, tab[v].service = Null,
           NEW o \in CreateListenClient(tab, v)
    PROVE  Keeps(tab, X, o)
<1>1. tab[v].type \in Types /\ tab[v].port \in Nat
  BY DEF Tables, SlotType
<1>2. PICK made \in SocketCreate(tab, tab[v].type, tab[v].port) :
        o \in IF made.res = Null THEN {made} ELSE ListenOn(made.tab, v, made.res)
  BY DEF CreateListenClient
<1>3. CASE made.res = Null
  <2>1. o = made /\ o \in Outcomes
    BY <1>1, <1>2, <1>3, SocketCreateOutcome
  <2>2. CASE o.tab = tab
    BY <2>1, <2>2 DEF Keeps
  <2>3. ASSUME NEW s \in Slots, ~tab[s].live, o.tab = [tab EXCEPT ![s] = Zeroed]
        PROVE  Keeps(tab, X, o)
    <3>1. tab[s].clients = {} /\ \A w \in Slots : s \notin tab[w].clients
      BY <2>3 DEF OwnedBut, Tables, SlotType
    <3>2. s \notin X /\ X \ {s} = X
      BY <2>3
    <3>3. OwnedBut(o.tab, X)
      BY <2>3, <3>1, <3>2, ZeroKeepsOwned
    <3>4. \A x \in X : o.tab[x] = tab[x]
      BY <2>3, <3>2 DEF Tables
    <3>5. QED BY <2>1, <3>3, <3>4 DEF Keeps
  <2>4. Cleared(tab, o.tab)
    BY <1>1, <1>2, <1>3, <2>1, SocketCreateOutcome
  <2>5. QED BY <2>2, <2>3, <2>4 DEF Cleared
<1>4. CASE made.res # Null
  <2> DEFINE c == made.res
             filled == [tab EXCEPT ![c] = Fresh(tab[v].type, tab[v].port)]
             owned  == [filled EXCEPT ![c].service = v]
             listed == [owned EXCEPT ![v].clients = @ \cup {c}]
             heard  == [listed EXCEPT ![c].state = "Listen", ![c].sr = "LISTEN"]
  <2>1. c \in Slots /\ ~tab[c].live /\ made.tab = filled
    <3>1. /\ made.res \in Slots
          /\ ~tab[made.res].live
          /\ made.tab = [tab EXCEPT ![made.res] = Fresh(tab[v].type, tab[v].port)]
      <4> DEFINE ty == tab[v].type
                 po == tab[v].port
      <4>1. ty \in Types /\ po \in Nat /\ made \in SocketCreate(tab, ty, po)
        BY <1>1, <1>2
      <4> HIDE DEF ty, po
      <4>2. made.res \in Slots
        BY <1>4, <4>1, SocketCreateOutcome
      <4>3. ~tab[made.res].live
        BY <1>4, <4>1, SocketCreateOutcome
      <4>4. made.tab = [tab EXCEPT ![made.res] = Fresh(ty, po)]
        BY <1>4, <4>1, SocketCreateOutcome
      <4>5. QED BY <4>2, <4>3, <4>4 DEF ty, po
    <3>2. QED BY ONLY <3>1
  <2>2. o \in ListenOn(filled, v, c)
    BY <1>2, <1>4, <2>1
  <2> HIDE DEF c
  <2>3. v # c /\ c \notin X
    BY <2>1
  <2>4. /\ filled \in Tables
        /\ filled[c] = Fresh(tab[v].type, tab[v].port)
        /\ \A s \in Slots \ {c} : filled[s] = tab[s]
    BY <1>1, <2>1, SlotTypes, UpdateSlot
  <2>5. /\ filled[c].live /\ filled[c].type = tab[v].type /\ filled[c].clients = {}
    BY <2>4 DEF Fresh, PlainSlot
  <2>6. \/ o = Done(heard, c)
        \/ o = Stop(listed, "doubleFree")
    BY <2>2 DEF ListenOn
  <2> HIDE DEF filled, owned, listed, heard
  <2>7. /\ owned \in Tables
        /\ owned[c].live /\ owned[c].type = tab[v].type /\ owned[c].clients = {}
        /\ owned[c].service = v
        /\ \A s \in Slots \ {c} : owned[s] = tab[s]
    <3>1. filled[c] \in SlotType
      BY <2>1, <2>4 DEF Tables
    <3> DEFINE n == WithService(filled[c], v)
    <3>2. owned = [filled EXCEPT ![c] = n]
      BY DEF owned, WithService
    <3>3. /\ n \in SlotType /\ n.live /\ n.type = tab[v].type
          /\ n.clients = {} /\ n.service = v
      BY <2>5, <3>1, SlotFields DEF Alike
    <3> HIDE DEF n
    <3>4. QED BY <2>1, <2>4, <3>2, <3>3 DEF Tables
  <2>8. /\ listed \in Tables
        /\ listed[v].live /\ listed[v].listening /\ listed[v].service = Null
        /\ listed[v].type = tab[v].type /\ listed[v].clients = tab[v].clients \cup {c}
        /\ listed[c] = owned[c]
        /\ \A s \in Slots \ {v, c} : listed[s] = tab[s]
    <3>1. /\ owned[v] = tab[v] /\ tab[v] \in SlotType
          /\ tab[v].clients \cup {c} \in SUBSET Slots
      BY <2>1, <2>3, <2>7 DEF Tables, SlotType
    <3> DEFINE n == WithClients(tab[v], tab[v].clients \cup {c})
    <3>2. listed = [owned EXCEPT ![v] = n]
      BY <3>1 DEF listed, WithClients
    <3>3. /\ n \in SlotType /\ n.live /\ n.listening /\ n.service = Null
          /\ n.type = tab[v].type /\ n.clients = tab[v].clients \cup {c}
      BY <3>1, SlotFields DEF Alike
    <3> HIDE DEF n
    <3>4. QED BY <2>1, <2>3, <2>7, <3>2, <3>3 DEF Tables
  <2>12. /\ heard \in Tables
        /\ heard[v] = listed[v]
        /\ heard[c].live /\ heard[c].service = v /\ heard[c].type = tab[v].type
        /\ heard[c].clients = {}
        /\ \A s \in Slots \ {v, c} : heard[s] = tab[s]
    <3>1. listed[c] \in SlotType
      BY <2>1, <2>8 DEF Tables
    <3> DEFINE n == Heard(listed[c])
    <3>2. heard = [listed EXCEPT ![c] = n]
      BY DEF heard, Heard
    <3>3. /\ n \in SlotType /\ n.live /\ n.type = tab[v].type
          /\ n.service = v /\ n.clients = {}
      BY <2>7, <2>8, <3>1, SlotFields DEF Alike
    <3> HIDE DEF n
    <3>4. QED BY <2>1, <2>3, <2>8, <3>2, <3>3 DEF Tables
  <2>9. CASE o = Stop(listed, "doubleFree")
    BY <2>8, <2>9 DEF Stop, Keeps, Outcomes, Faults
  <2>10. CASE o = Done(heard, c)
    <3>1. o \in Outcomes /\ o.tab = heard
      BY <2>1, <2>12, <2>10 DEF Done, Outcomes, Faults
    <3>2. OwnedBut(heard, X)
      BY <2>1, <2>8, <2>12, LinkKeepsOwned
    <3>3. \A x \in X : heard[x] = tab[x]
      BY <2>3, <2>12
    <3>4. QED BY <3>1, <3>2, <3>3 DEF Keeps
  <2>11. QED BY <2>6, <2>9, <2>10
<1>5. QED BY <1>3, <1>4

-----------------------------------------------------------------------------
(* Closing sockets                                                         *)

\* The accept queue and the backlog counter are not what ownership speaks of.
LEMMA MqSendKeeps ==
    ASSUME NEW tab \in Tables, NEW v \in Slots, NEW m \in Slots \cup {Null}
    PROVE  /\ MqSend(tab, v, m) \in Tables
           /\ SameOwners(tab, MqSend(tab, v, m))
           /\ \A x \in Slots \ {v} : MqSend(tab, v, m)[x] = tab[x]
<1> DEFINE q == IF Len(tab[v].queue) < tab[v].cap THEN Append(tab[v].queue, m)
                                                  ELSE tab[v].queue
<1>1. MqSend(tab, v, m) = [tab EXCEPT ![v].queue = q]
  BY DEF MqSend
<1>2. tab[v].queue \in Queues
  BY DEF Tables, SlotType
<1>3. q \in Queues
  BY <1>2 DEF Queues
<1> HIDE DEF q
<1> DEFINE n == WithQueue(tab[v], q)
<1>4. /\ n \in SlotType /\ Alike(tab[v], n)
      /\ n.service = tab[v].service /\ n.clients = tab[v].clients
  BY <1>3 DEF WithQueue, Tables, SlotType, Alike
<1>5. MqSend(tab, v, m) = [tab EXCEPT ![v] = n]
  BY <1>1 DEF WithQueue
<1> HIDE DEF n
<1>6. QED BY <1>4, <1>5 DEF SameOwners, Tables, Alike

LEMMA CountKeeps ==
    ASSUME NEW tab \in Tables, NEW v \in Slots, NEW n \in Int
    PROVE  LET new == [tab EXCEPT ![v].backlog = n]
           IN  /\ new \in Tables
               /\ SameOwners(tab, new)
               /\ \A x \in Slots \ {v} : new[x] = tab[x]
  BY DEF Tables, SlotType, SameOwners

LEMMA StateKeeps ==
    ASSUME NEW tab \in Tables, NEW s \in Slots, NEW x \in SocketStates
    PROVE  LET new == [tab EXCEPT ![s].state = x]
           IN  new \in Tables /\ SameOwners(tab, new)
  BY DEF Tables, SlotType, SameOwners

\* Unlinking a client exempts it: it names its server and is in no list.
LEMMA UnlinkExempts ==
    ASSUME NEW tab \in Tables, OwnedBut(tab, {}),
           NEW v \in Slots, NEW c \in tab[v].clients
    PROVE  LET new == [tab EXCEPT ![v].clients = @ \ {c}]
           IN  /\ new \in Tables /\ OwnedBut(new, {c})
               /\ c \in Slots \ {v} /\ new[c] = tab[c]
               /\ new[v].live /\ new[v].listening /\ new[v].service = Null
<1> DEFINE new == [tab EXCEPT ![v].clients = @ \ {c}]
<1>1. /\ c \in Slots /\ tab[v].live /\ tab[v].listening /\ tab[v].service = Null
      /\ tab[c].live /\ tab[c].service = v
  BY DEF OwnedBut, Tables, SlotType
<1>2. v # Null
  BY PoolAssumption DEF Slots, Null
<1>3. c # v
  BY <1>1, <1>2
<1>4. /\ new \in Tables
      /\ new[v].clients = tab[v].clients \ {c}
      /\ new[v].live = tab[v].live /\ new[v].type = tab[v].type
      /\ new[v].service = tab[v].service /\ new[v].listening = tab[v].listening
      /\ \A s \in Slots \ {v} : new[s] = tab[s]
  BY DEF Tables, SlotType
<1> HIDE DEF new
<1>5. OwnedBut(new, {c})
  <2>1. ASSUME NEW d \in Slots \ {c}, new[d].live, new[d].service # Null
        PROVE  LET w == new[d].service
               IN  w \in Slots /\ new[w].live /\ new[w].listening /\ d \in new[w].clients
    <3>1. d # v /\ new[d] = tab[d]
      BY <1>1, <1>4, <2>1
    <3>2. LET w == tab[d].service
          IN  w \in Slots /\ tab[w].live /\ tab[w].listening /\ d \in tab[w].clients
      BY <2>1, <3>1 DEF OwnedBut
    <3>3. QED BY <1>4, <3>1, <3>2
  <2>2. ASSUME NEW w \in Slots, NEW d \in new[w].clients
        PROVE  /\ d \notin {c}
               /\ new[w].live /\ new[w].listening /\ new[w].service = Null
               /\ new[d].live /\ new[d].service = w /\ new[d].type = new[w].type
    <3>1. d \in tab[w].clients /\ (w = v => d # c)
      BY <1>4
    <3>2. /\ d \in Slots
          /\ tab[w].live /\ tab[w].listening /\ tab[w].service = Null
          /\ tab[d].live /\ tab[d].service = w /\ tab[d].type = tab[w].type
      BY <3>1 DEF OwnedBut, Tables, SlotType
    <3>3. d # c
      BY <1>1, <3>1, <3>2
    <3>4. d # v
      BY <1>1, <3>2, PoolAssumption DEF Slots, Null
    <3>5. QED BY <1>4, <3>2, <3>3, <3>4
  <2>3. QED BY <2>1, <2>2 DEF OwnedBut
<1>6. QED BY <1>1, <1>3, <1>4, <1>5 DEF new

\* The found client of RyanW5500ListenSocketDestory.
LEMMA ReturnToBacklogKeeps ==
    ASSUME "mallocFails" \notin Env, NEW tab \in Tables, OwnedBut(tab, {}),
           NEW v \in Slots, NEW c \in tab[v].clients,
           NEW o \in ReturnToBacklog(tab, v, c)
    PROVE  Keeps(tab, {c}, o)
<1> DEFINE unlinked == [tab EXCEPT ![v].clients = @ \ {c}]
           counted(t) == [t EXCEPT ![v].backlog = @ + 1]
<1>1. /\ unlinked \in Tables /\ OwnedBut(unlinked, {c})
      /\ c \in Slots \ {v} /\ unlinked[c] = tab[c]
      /\ unlinked[v].live /\ unlinked[v].listening /\ unlinked[v].service = Null
  BY UnlinkExempts
<1>2. tab[c].live
  BY DEF OwnedBut
<1>3. ASSUME NEW t \in Tables, OwnedBut(t, {c}), t[c] = tab[c]
      PROVE  Keeps(tab, {c}, Done(counted(t), Null))
  <2>1. t[v].backlog + 1 \in Int
    BY DEF Tables, SlotType
  <2>2. /\ counted(t) \in Tables /\ SameOwners(t, counted(t))
        /\ counted(t)[c] = t[c]
    BY <1>1, <2>1, CountKeeps
  <2> HIDE DEF counted
  <2>3. OwnedBut(counted(t), {c})
    BY <1>3, <2>2, SameOwnersOwn
  <2>4. QED BY <1>3, <2>2, <2>3 DEF Keeps, Done, Outcomes, Faults
<1>4. CASE tab[v].backlog = 0
  <2>1. PICK made \in CreateListenClient(unlinked, v) :
          o = IF made.fault # "none" THEN made
              ELSE Done(counted(IF made.res = Null THEN MqSend(made.tab, v, Null)
                                                   ELSE made.tab), Null)
    BY <1>4 DEF ReturnToBacklog
  <2> HIDE DEF unlinked, counted
  <2>2. Keeps(unlinked, {c}, made)
    BY <1>1, <1>2, CreateListenClientKeeps
  <2>3. CASE made.fault # "none"
    BY <2>1, <2>2, <2>3 DEF Keeps
  <2>4. CASE made.fault = "none"
    <3>1. made.tab \in Tables /\ OwnedBut(made.tab, {c}) /\ made.tab[c] = tab[c]
      BY <1>1, <2>2, <2>4 DEF Keeps, Outcomes
    <3>2. CASE made.res = Null
      <4> DEFINE sent == MqSend(made.tab, v, Null)
      <4>1. sent \in Tables /\ SameOwners(made.tab, sent) /\ sent[c] = tab[c]
        BY <1>1, <3>1, MqSendKeeps
      <4>2. OwnedBut(sent, {c})
        BY <3>1, <4>1, SameOwnersOwn
      <4>3. QED BY <1>3, <2>1, <2>4, <3>2, <4>1, <4>2
    <3>3. CASE made.res # Null
      BY <1>3, <2>1, <2>4, <3>1, <3>3
    <3>4. QED BY <3>2, <3>3
  <2>5. QED BY <2>3, <2>4
<1>5. CASE tab[v].backlog # 0
  <2>1. o = Done(counted(unlinked), Null)
    BY <1>5 DEF ReturnToBacklog
  <2>2. QED BY <1>1, <1>3, <2>1
<1>6. QED BY <1>4, <1>5

\* A listening socket goes with all the clients of its list.
LEMMA ServiceDestoryKeeps ==
    ASSUME NEW tab \in Tables, OwnedBut(tab, {}),
           NEW v \in Slots, tab[v].live, tab[v].service = Null,
           NEW o \in ServiceDestory(tab, v)
    PROVE  Keeps(tab, {}, o)
<1> DEFINE gone == {v} \cup tab[v].clients
           new  == [s \in Slots |-> IF s = v \/ s \in tab[v].clients THEN Zeroed ELSE tab[s]]
<1>1. \/ o = Stop(tab, "assertPort")
      \/ o = Done(new, Null)
  BY DEF ServiceDestory
<1>2. CASE o = Stop(tab, "assertPort")
  BY <1>2 DEF Stop, Keeps, Outcomes, Faults
<1>3. CASE o = Done(new, Null)
  <2>1. /\ new \in Tables
        /\ \A s \in Slots : s \in gone => new[s] = Zeroed
        /\ \A s \in Slots : s \notin gone => new[s] = tab[s]
    BY SlotTypes DEF Tables
  <2>2. ~Zeroed.live /\ Zeroed.clients = {}
    BY DEF Zeroed, PlainSlot
  <2>3. v # Null
    BY PoolAssumption DEF Slots, Null
  <2> HIDE DEF new
  <2>4. ASSUME NEW c \in Slots, new[c].live, new[c].service # Null
        PROVE  LET w == new[c].service
               IN  w \in Slots /\ new[w].live /\ new[w].listening /\ c \in new[w].clients
    <3>1. c \notin gone /\ new[c] = tab[c]
      BY <2>1, <2>2, <2>4
    <3>2. LET w == tab[c].service
          IN  w \in Slots /\ tab[w].live /\ tab[w].listening /\ c \in tab[w].clients
      BY <2>4, <3>1 DEF OwnedBut
    <3>3. tab[c].service # v
      BY <3>1, <3>2
    <3>4. tab[c].service \notin tab[v].clients
      BY <2>3, <3>2 DEF OwnedBut
    <3>5. QED BY <2>1, <3>1, <3>2, <3>3, <3>4
  <2>5. ASSUME NEW w \in Slots, NEW d \in new[w].clients
        PROVE  /\ new[w].live /\ new[w].listening /\ new[w].service = Null
               /\ new[d].live /\ new[d].service = w /\ new[d].type = new[w].type
    <3>1. w \notin gone /\ new[w] = tab[w] /\ d \in tab[w].clients
      BY <2>1, <2>2, <2>5
    <3>2. /\ d \in Slots
          /\ tab[w].live /\ tab[w].listening /\ tab[w].service = Null
          /\ tab[d].live /\ tab[d].service = w /\ tab[d].type = tab[w].type
      BY <3>1 DEF OwnedBut, Tables, SlotType
    <3>3. d # v
      BY <3>2, PoolAssumption DEF Slots, Null
    <3>4. d \notin tab[v].clients
      BY <3>1, <3>2 DEF OwnedBut
    <3>5. QED BY <2>1, <3>1, <3>2, <3>3, <3>4
  <2>6. OwnedBut(new, {})
    BY <2>4, <2>5 DEF OwnedBut
  <2>7. QED BY <1>3, <2>1, <2>6 DEF Done, Keeps, Outcomes, Faults
<1>4. QED BY <1>1, <1>2, <1>3

\* wiz_closesocket keeps ownership, whatever kind of socket it closes.
LEMMA CloseSocketKeeps ==
    ASSUME "mallocFails" \notin Env, NEW tab \in Tables, OwnedBut(tab, {}),
           NEW s \in Slots, NEW o \in CloseSocket(tab, s)
    PROVE  Keeps(tab, {}, o)
<1>1. CASE ~tab[s].live
  BY <1>1 DEF CloseSocket, Done, Keeps, Outcomes, Faults
<1>2. CASE tab[s].live /\ tab[s].service # Null
  <2> DEFINE v == tab[s].service
  <2>1. /\ v \in Slots /\ tab[v].live /\ tab[v].listening /\ s \in tab[v].clients
        /\ tab[v].service = Null
    BY <1>2 DEF OwnedBut
  <2>2. PICK left \in ListenSocketDestory(tab, s) :
          o = [left EXCEPT !.tab = IF left.fault = "none"
                                   THEN [left.tab EXCEPT ![s] = Zeroed] ELSE left.tab]
    BY <1>2 DEF CloseSocket
  <2>3. \/ left = Stop(tab, "assertPort")
        \/ left \in ReturnToBacklog(tab, v, s)
    BY <2>1, <2>2 DEF ListenSocketDestory
  <2> HIDE DEF v
  <2>4. CASE left = Stop(tab, "assertPort")
    BY <2>2, <2>4 DEF Stop, Keeps, Outcomes, Faults
  <2>5. CASE left \in ReturnToBacklog(tab, v, s)
    <3>1. Keeps(tab, {s}, left)
      BY <2>1, <2>5, ReturnToBacklogKeeps
    <3>2. CASE left.fault # "none"
      BY <2>2, <3>1, <3>2 DEF Keeps, Outcomes
    <3>3. CASE left.fault = "none"
      <4>1. left.tab \in Tables /\ OwnedBut(left.tab, {s}) /\ left.tab[s] = tab[s]
        BY <3>1, <3>3 DEF Keeps, Outcomes
      <4>2. tab[s].clients = {}
        BY <1>2 DEF OwnedBut, Tables, SlotType
      <4>3. \A w \in Slots : s \notin left.tab[w].clients
        BY <4>1 DEF OwnedBut
      <4> DEFINE new == [left.tab EXCEPT ![s] = Zeroed]
      <4>4. new \in Tables /\ OwnedBut(new, {s} \ {s})
        BY <4>1, <4>2, <4>3, ZeroKeepsOwned
      <4>5. {s} \ {s} = {}
        OBVIOUS
      <4>6. o \in Outcomes /\ o.tab = new
        <5>1. o = [left EXCEPT !.tab = new]
          BY <2>2, <3>3
        <5> HIDE DEF new
        <5>2. QED BY <3>1, <4>4, <5>1 DEF Keeps, Outcomes
      <4> HIDE DEF new
      <4>7. QED BY <4>4, <4>5, <4>6 DEF Keeps
    <3>4. QED BY <3>2, <3>3
  <2>6. QED BY <2>3, <2>4, <2>5
<1>3. CASE tab[s].live /\ tab[s].service = Null /\ tab[s].listening
  BY <1>3, ServiceDestoryKeeps DEF CloseSocket
<1>4. CASE tab[s].live /\ tab[s].service = Null /\ ~tab[s].listening
  <2>1. o = Done([tab EXCEPT ![s] = Zeroed], Null)
    BY <1>4 DEF CloseSocket
  <2>2. tab[s].clients = {}
    BY <1>4 DEF OwnedBut, Tables, SlotType
  <2>3. \A v \in Slots : s \notin tab[v].clients
    BY <1>4, PoolAssumption DEF OwnedBut, Slots, Null
  <2> DEFINE new == [tab EXCEPT ![s] = Zeroed]
  <2>4. new \in Tables /\ OwnedBut(new, {} \ {s})
    BY <2>2, <2>3, ZeroKeepsOwned
  <2>5. {} \ {s} = {}
    OBVIOUS
  <2> HIDE DEF new
  <2>6. o = Done(new, Null)
    BY <2>1 DEF new
  <2>7. QED BY <2>4, <2>5, <2>6 DEF Done, Keeps, Outcomes, Faults
<1>5. QED BY <1>1, <1>2, <1>3, <1>4

-----------------------------------------------------------------------------
(* The W5500 task                                                          *)

\* RyanListenServiceAddClient keeps ownership.
LEMMA AddClientKeeps ==
    ASSUME "mallocFails" \notin Env, NEW tab \in Tables, OwnedBut(tab, {}),
           NEW v \in Slots, NEW c \in tab[v].clients,
           NEW o \in AddClient(tab, v, c)
    PROVE  Keeps(tab, {}, o)
<1> DEFINE counted == [tab EXCEPT ![v].backlog = @ - 1]
           taken   == [counted EXCEPT ![c].state = "Established"]
<1>1. c \in Slots /\ tab[v].live /\ tab[v].listening /\ tab[v].service = Null
  BY DEF OwnedBut, Tables, SlotType
<1>2. counted \in Tables /\ SameOwners(tab, counted)
  <2>1. tab[v].backlog - 1 \in Int
    BY DEF Tables, SlotType
  <2>2. QED BY <2>1, CountKeeps
<1> HIDE DEF counted
<1>3. taken \in Tables /\ SameOwners(counted, taken)
  <2>1. "Established" \in SocketStates
    BY DEF SocketStates
  <2>2. QED BY <1>1, <1>2, <2>1, StateKeeps
<1> HIDE DEF taken
<1>4. OwnedBut(taken, {})
  BY <1>2, <1>3, SameOwnersOwn
<1>5. taken[v].live /\ taken[v].listening /\ taken[v].service = Null
  BY <1>1, <1>2, <1>3 DEF SameOwners
<1>6. ASSUME NEW t \in Tables, OwnedBut(t, {}), NEW m \in Slots \cup {Null}
      PROVE  Keeps(tab, {}, Done(MqSend(t, v, m), Null))
  <2> DEFINE sent == MqSend(t, v, m)
  <2>1. sent \in Tables /\ SameOwners(t, sent)
    BY MqSendKeeps
  <2>2. OwnedBut(sent, {})
    BY <1>6, <2>1, SameOwnersOwn
  <2> HIDE DEF sent
  <2>3. Keeps(tab, {}, Done(sent, Null))
    BY <2>1, <2>2 DEF Keeps, Done, Outcomes, Faults
  <2>4. QED BY <2>3 DEF sent
<1>7. taken = [tab EXCEPT ![v].backlog = @ - 1, ![c].state = "Established"]
  BY DEF taken, counted
<1>8. CASE o = Stop(tab, "assertBacklog")
  BY <1>8 DEF Stop, Keeps, Outcomes, Faults
<1>9. CASE o = Done(MqSend(taken, v, c), Null)
  BY <1>1, <1>3, <1>4, <1>6, <1>9
<1>10. ASSUME NEW made \in CreateListenClient(taken, v),
              o = IF made.fault # "none" THEN made
                  ELSE Done(MqSend(made.tab, v, IF made.res = Null THEN Null ELSE c), Null)
       PROVE  Keeps(tab, {}, o)
  <2>1. Keeps(taken, {}, made)
    BY <1>3, <1>4, <1>5, CreateListenClientKeeps
  <2>2. CASE made.fault # "none"
    BY <1>10, <2>1, <2>2 DEF Keeps
  <2>3. CASE made.fault = "none"
    <3>1. made.tab \in Tables /\ OwnedBut(made.tab, {})
      BY <2>1, <2>3 DEF Keeps, Outcomes
    <3>2. QED BY <1>1, <1>6, <1>10, <2>3, <3>1
  <2>4. QED BY <2>2, <2>3
<1>11. \/ o = Stop(tab, "assertBacklog")
       \/ o = Done(MqSend(taken, v, c), Null)
       \/ \E made \in CreateListenClient(taken, v) :
            o = IF made.fault # "none" THEN made
                ELSE Done(MqSend(made.tab, v, IF made.res = Null THEN Null ELSE c), Null)
  BY <1>7 DEF AddClient
<1>12. QED BY <1>8, <1>9, <1>10, <1>11

-----------------------------------------------------------------------------
(* The steps                                                               *)

\* What every step re-establishes about the table.
Safe(tab, why) ==
    /\ tab \in Tables
    /\ why \in Faults
    /\ why = "none" => OwnedBut(tab, {})

LEMMA FinishIsSafe ==
    ASSUME NEW tab, NEW o, Keeps(tab, {}, o), Finish(o)
    PROVE  Safe(slot', fault')
  BY DEF Keeps, Finish, Outcomes, Safe

Assigned(r, port, st, sr, ir) ==
    [r EXCEPT !.port = port, !.state = st, !.sr = sr, !.ir = ir]

LEMMA AssignedSlot ==
    ASSUME NEW r \in SlotType, NEW port \in Nat, NEW st \in SocketStates,
           NEW sr \in ChipStates, NEW ir \in SUBSET Interrupts
    PROVE  LET n == Assigned(r, port, st, sr, ir)
           IN  /\ n \in SlotType /\ Alike(r, n)
               /\ n.service = r.service /\ n.clients = r.clients
  BY DEF SlotType, Assigned, Alike

\* Assignments to the fields ownership does not speak of.
LEMMA AssignmentKeeps ==
    ASSUME NEW tab \in Tables, OwnedBut(tab, {}), NEW s \in Slots,
           NEW port \in Nat, NEW st \in SocketStates,
           NEW sr \in ChipStates, NEW ir \in SUBSET Interrupts
    PROVE  LET new == [tab EXCEPT ![s] = Assigned(tab[s], port, st, sr, ir)]
           IN  new \in Tables /\ OwnedBut(new, {})
<1> DEFINE n   == Assigned(tab[s], port, st, sr, ir)
           new == [tab EXCEPT ![s] = n]
<1>1. tab[s] \in SlotType
  BY DEF Tables
<1>2. /\ n \in SlotType /\ Alike(tab[s], n)
      /\ n.service = tab[s].service /\ n.clients = tab[s].clients
  BY <1>1, AssignedSlot
<1> HIDE DEF n
<1>3. new \in Tables /\ SameOwners(tab, new)
  BY <1>2 DEF Tables, SameOwners, Alike
<1> HIDE DEF new
<1>4. OwnedBut(new, {})
  BY <1>3, SameOwnersOwn
<1>5. QED BY <1>3, <1>4 DEF new, n

LEMMA SocketKeeps ==
    ASSUME slot \in Tables, OwnedBut(slot, {}), fds \subseteq Slots,
           NEW type \in {"TCP", "UDP"}, Socket(type)
    PROVE  Safe(slot', fault') /\ fds' \subseteq Slots
<1>1. type \in Types /\ AnyPort \in Nat
  BY PoolAssumption DEF Types
<1>2. PICK o \in SocketCreate(slot, type, AnyPort) :
        /\ Finish(o)
        /\ fds' = IF o.res = Null THEN fds ELSE fds \cup {o.res}
  BY DEF Socket
<1>3. /\ o \in Outcomes
      /\ o.res # Null => /\ o.fault = "none"
                        /\ o.res \in Slots /\ ~slot[o.res].live
                        /\ o.tab = [slot EXCEPT ![o.res] = Fresh(type, AnyPort)]
      /\ o.res = Null => Cleared(slot, o.tab)
  <2> DEFINE port == AnyPort
             tab  == slot
  <2>1. /\ tab \in Tables /\ type \in Types /\ port \in Nat
        /\ o \in SocketCreate(tab, type, port)
    BY <1>1
  <2> HIDE DEF port, tab
  <2>2. o \in Outcomes
    BY <2>1, SocketCreateOutcome
  <2>3. o.res # Null => /\ o.fault = "none"
                        /\ o.res \in Slots /\ ~tab[o.res].live
                        /\ o.tab = [tab EXCEPT ![o.res] = Fresh(type, port)]
    BY <2>1, SocketCreateOutcome
  <2>4. o.res = Null => Cleared(tab, o.tab)
    BY <2>1, SocketCreateOutcome
  <2>5. QED BY <2>2, <2>3, <2>4 DEF port, tab
<1>4. OwnedBut(o.tab, {})
  <2>1. ASSUME NEW s \in Slots, ~slot[s].live
        PROVE  slot[s].clients = {} /\ \A v \in Slots : s \notin slot[v].clients
    BY <2>1, ListsOfOthers
  <2>2. CASE o.tab = slot
    BY <2>2
  <2>3. ASSUME NEW s \in Slots, ~slot[s].live, o.tab = [slot EXCEPT ![s] = Zeroed]
        PROVE  OwnedBut(o.tab, {})
    <3>1. OwnedBut([slot EXCEPT ![s] = Zeroed], {} \ {s})
      BY <2>1, <2>3, ZeroKeepsOwned
    <3>2. {} \ {s} = {}
      OBVIOUS
    <3>3. QED BY <2>3, <3>1, <3>2
  <2>4. CASE o.res # Null
    <3> DEFINE s == o.res
               r == Fresh(type, AnyPort)
    <3>1. r \in SlotType /\ r.clients = {} /\ r.service = Null
      BY <1>1, SlotTypes DEF Fresh, PlainSlot
    <3>2. s \in Slots /\ ~slot[s].live /\ o.tab = [slot EXCEPT ![s] = r]
      BY <1>3, <2>4
    <3> HIDE DEF r, s
    <3>3. slot[s].clients = {} /\ \A v \in Slots : s \notin slot[v].clients
      BY <3>2, <2>1
    <3>4. OwnedBut([slot EXCEPT ![s] = r], {} \ {s})
      BY <3>1, <3>2, <3>3, RefillKeepsOwned
    <3>5. {} \ {s} = {}
      OBVIOUS
    <3>6. QED BY <3>2, <3>4, <3>5
  <2>5. QED BY <1>3, <2>2, <2>3, <2>4 DEF Cleared
<1>5. Keeps(slot, {}, o)
  BY <1>3, <1>4 DEF Keeps
<1>6. QED BY <1>2, <1>3, <1>5, FinishIsSafe

LEMMA BindKeeps ==
    ASSUME slot \in Tables, OwnedBut(slot, {}), fault = "none",
           NEW s \in Slots, Bind(s)
    PROVE  Safe(slot', fault')
<1>1. PICK p \in Ports, opened \in BOOLEAN :
        slot' = [slot EXCEPT ![s].port = p,
                             ![s].state = IF opened THEN "Init" ELSE @,
                             ![s].sr = IF ~opened THEN "CLOSED"
                                       ELSE IF slot[s].type = "TCP" THEN "INIT" ELSE "UDP",
                             ![s].ir = {}]
  BY Zenon DEF Bind
<1> DEFINE st == IF opened THEN "Init" ELSE slot[s].state
           sr == IF ~opened THEN "CLOSED"
                 ELSE IF slot[s].type = "TCP" THEN "INIT" ELSE "UDP"
<1>2. slot' = [slot EXCEPT ![s] = Assigned(slot[s], p, st, sr, {})]
  BY <1>1 DEF Assigned
<1>3. p \in Nat /\ st \in SocketStates /\ sr \in ChipStates /\ {} \in SUBSET Interrupts
  BY PoolAssumption DEF Tables, SlotType, SocketStates, ChipStates
<1> HIDE DEF st, sr
<1>4. slot' \in Tables /\ OwnedBut(slot', {})
  BY <1>2, <1>3, AssignmentKeeps
<1>5. fault' = fault
  BY DEF Bind
<1>6. QED BY <1>4, <1>5 DEF Safe, Faults

\* The steps of the chip, and connect(), assign the states and the interrupts.
LEMMA ChangesKeep ==
    ASSUME slot \in Tables, OwnedBut(slot, {}), fault = "none",
           NEW s \in Slots, Connect(s) \/ ConnectElse(s) \/ ChipStep(s)
    PROVE  Safe(slot', fault')
<1> DEFINE assign(st, sr, ir) ==
             [slot EXCEPT ![s] = Assigned(slot[s], slot[s].port, st, sr, ir)]
<1>1. /\ slot[s] \in SlotType
      /\ slot[s].port \in Nat /\ slot[s].state \in SocketStates
      /\ slot[s].sr \in ChipStates /\ slot[s].ir \in SUBSET Interrupts
  BY DEF Tables, SlotType
<1>2. ASSUME NEW st \in SocketStates, NEW sr \in ChipStates, NEW ir \in SUBSET Interrupts,
             slot' = assign(st, sr, ir), fault' = fault
      PROVE  Safe(slot', fault')
  BY <1>1, <1>2, AssignmentKeeps DEF Safe, Faults
<1>3. /\ slot[s].ir \cup {"CON"} \in SUBSET Interrupts
      /\ slot[s].ir \cup {"DISCON"} \in SUBSET Interrupts
      /\ "Established" \in SocketStates
      /\ {"ESTABLISHED", "CLOSED", "CLOSE_WAIT"} \subseteq ChipStates
  BY <1>1 DEF Interrupts, SocketStates, ChipStates
<1>4. CASE Connect(s)
  <2>1. fault' = fault
    BY <1>4 DEF Connect
  <2>2. \/ slot' = assign("Established", "ESTABLISHED", slot[s].ir \cup {"CON"})
        \/ slot' = assign(slot[s].state, "CLOSED", slot[s].ir)
    BY <1>1, <1>4, Zenon DEF Connect, Assigned
  <2> HIDE DEF assign
  <2>3. QED BY <1>1, <1>2, <1>3, <2>1, <2>2
<1>5. CASE ConnectElse(s)
  <2>1. fault' = fault
    BY <1>5 DEF ConnectElse
  <2>2. slot' = assign("Established", slot[s].sr, slot[s].ir)
    BY <1>1, <1>5 DEF ConnectElse, Assigned
  <2> HIDE DEF assign
  <2>3. QED BY <1>1, <1>2, <1>3, <2>1, <2>2
<1>6. CASE PeerConnect(s)
  <2>1. fault' = fault
    BY <1>6 DEF PeerConnect
  <2>2. slot' = assign(slot[s].state, "ESTABLISHED", slot[s].ir \cup {"CON"})
    BY <1>1, <1>6 DEF PeerConnect, Assigned
  <2> HIDE DEF assign
  <2>3. QED BY <1>1, <1>2, <1>3, <2>1, <2>2
<1>7. CASE PeerClose(s)
  <2>1. fault' = fault
    BY <1>7 DEF PeerClose
  <2>2. PICK after \in {"CLOSE_WAIT", "CLOSED"} :
          slot' = [slot EXCEPT ![s].sr = after, ![s].ir = @ \cup {"DISCON"}]
    BY <1>7 DEF PeerClose
  <2>3. slot' = assign(slot[s].state, after, slot[s].ir \cup {"DISCON"})
    BY <1>1, <2>2 DEF Assigned
  <2>4. after \in ChipStates
    BY <1>3
  <2> HIDE DEF assign
  <2>5. QED BY <1>1, <1>2, <1>3, <2>1, <2>3, <2>4
<1>8. CASE HandshakeTimeout(s)
  <2>1. fault' = fault
    BY <1>8 DEF HandshakeTimeout
  <2>2. slot' = assign(slot[s].state, "CLOSED", slot[s].ir)
    BY <1>1, <1>8 DEF HandshakeTimeout, Assigned
  <2> HIDE DEF assign
  <2>3. QED BY <1>1, <1>2, <1>3, <2>1, <2>2
<1>9. QED BY <1>4, <1>5, <1>6, <1>7, <1>8 DEF ChipStep

\* Emptying the accept queue, or taking its head, leaves the owners alone.
LEMMA PopKeeps ==
    ASSUME NEW tab \in Tables, OwnedBut(tab, {}), NEW v \in Slots, tab[v].queue # <<>>
    PROVE  LET popped == [tab EXCEPT ![v].queue = Tail(@)]
           IN  /\ popped \in Tables /\ OwnedBut(popped, {})
               /\ Head(tab[v].queue) \in Slots \cup {Null}
<1> DEFINE q      == Tail(tab[v].queue)
           n      == WithQueue(tab[v], q)
           popped == [tab EXCEPT ![v].queue = q]
<1>1. tab[v] \in SlotType /\ tab[v].queue \in Queues
  BY DEF Tables, SlotType
<1>2. q \in Queues /\ Head(tab[v].queue) \in Slots \cup {Null}
  BY <1>1 DEF Queues
<1> HIDE DEF q
<1>3. /\ n \in SlotType /\ Alike(tab[v], n)
      /\ n.service = tab[v].service /\ n.clients = tab[v].clients
  BY <1>1, <1>2 DEF WithQueue, SlotType, Alike
<1>4. popped = [tab EXCEPT ![v] = n]
  BY DEF WithQueue
<1> HIDE DEF n, popped
<1>5. popped \in Tables /\ SameOwners(tab, popped)
  BY <1>3, <1>4 DEF SameOwners, Tables, Alike
<1>6. OwnedBut(popped, {})
  BY <1>5, SameOwnersOwn
<1>7. QED BY <1>2, <1>5, <1>6 DEF popped, q

LEMMA AcceptKeeps ==
    ASSUME "mallocFails" \notin Env, slot \in Tables, OwnedBut(slot, {}), fault = "none",
           fds \subseteq Slots, NEW v \in Slots, Accept(v)
    PROVE  Safe(slot', fault') /\ fds' \subseteq Slots
<1> DEFINE c      == Head(slot[v].queue)
           popped == [slot EXCEPT ![v].queue = Tail(@)]
<1>1. popped \in Tables /\ OwnedBut(popped, {}) /\ c \in Slots \cup {Null}
  BY PopKeeps DEF Accept
<1>2. \/ slot' = popped /\ fault' = fault /\ fds' = fds
      \/ c # Null /\ slot' = popped /\ fault' = fault /\ fds' = fds \cup {c}
      \/ c # Null /\ fds' = fds /\ \E o \in CloseSocket(popped, c) : Finish(o)
  BY DEF Accept
<1> HIDE DEF c, popped
<1>3. ASSUME slot' = popped, fault' = fault
      PROVE  Safe(slot', fault')
  BY <1>1, <1>3 DEF Safe, Faults
<1>4. ASSUME c # Null, \E o \in CloseSocket(popped, c) : Finish(o)
      PROVE  Safe(slot', fault')
  BY <1>1, <1>4, CloseSocketKeeps, FinishIsSafe
<1>5. fds' \subseteq Slots
  BY <1>1, <1>2
<1>6. QED BY <1>2, <1>3, <1>4, <1>5

LEMMA CloseKeeps ==
    ASSUME "mallocFails" \notin Env, slot \in Tables, OwnedBut(slot, {}),
           NEW s \in Slots, \E o \in CloseSocket(slot, s) : Finish(o)
    PROVE  Safe(slot', fault')
  BY CloseSocketKeeps, FinishIsSafe

\* Where no memory runs short, a failing RyanW5500CreateListenClient that
\* returns leaves every live socket as it was.
LEMMA NoClientNoChange ==
    ASSUME "mallocFails" \notin Env, NEW tab \in Tables, NEW v \in Slots,
           NEW o \in CreateListenClient(tab, v), o.fault = "none", o.res = Null
    PROVE  \A s \in Slots : tab[s].live => o.tab[s] = tab[s]
<1> DEFINE ty == tab[v].type
           po == tab[v].port
<1>1. ty \in Types /\ po \in Nat
  BY DEF Tables, SlotType
<1>2. PICK made \in SocketCreate(tab, ty, po) :
        o \in IF made.res = Null THEN {made} ELSE ListenOn(made.tab, v, made.res)
  BY DEF CreateListenClient
<1> HIDE DEF ty, po
<1>3. made.res = Null
  <2>1. SUFFICES ASSUME made.res # Null PROVE FALSE
    OBVIOUS
  <2>2. o \in ListenOn(made.tab, v, made.res)
    BY <1>2, <2>1
  <2>3. \E t : o = Done(t, made.res) \/ o = Stop(t, "doubleFree")
    BY <2>2, Zenon DEF ListenOn
  <2>4. QED BY <2>1, <2>3 DEF Done, Stop
<1>4. Cleared(tab, o.tab)
  <2>1. o = made
    BY <1>2, <1>3
  <2>2. QED BY <1>1, <1>3, <2>1, SocketCreateOutcome
<1>5. QED BY <1>4 DEF Cleared, Tables

\* A socket that becomes, or ceases to be, a server has no clients.
Serving(r, n, m) ==
    [r EXCEPT !.listening = TRUE, !.state = "Listen", !.clients = {},
              !.backlog = n, !.queue = <<>>, !.cap = m]
Plainer(r, n, m) ==
    [r EXCEPT !.listening = FALSE, !.clients = {}, !.backlog = n, !.queue = <<>>, !.cap = m]

LEMMA ServingSlot ==
    ASSUME NEW r \in SlotType, NEW n \in Int, NEW m \in Nat
    PROVE  /\ LET new == Serving(r, n, m) IN
                /\ new \in SlotType /\ (r.live => new.live) /\ new.service = r.service
                /\ new.listening /\ new.clients = {}
           /\ LET new == Plainer(r, n, m) IN
                new \in SlotType /\ new.service = r.service /\ new.clients = {}
<1>1. <<>> \in Queues /\ {} \in SUBSET Slots /\ "Listen" \in SocketStates
  BY DEF Queues, SocketStates
<1>2. LET new == Serving(r, n, m) IN
        /\ new \in SlotType /\ (r.live => new.live) /\ new.service = r.service
        /\ new.listening /\ new.clients = {}
  BY <1>1 DEF SlotType, Serving
<1>3. LET new == Plainer(r, n, m) IN
        new \in SlotType /\ new.service = r.service /\ new.clients = {}
  BY <1>1 DEF SlotType, Plainer
<1>4. QED BY <1>2, <1>3

LEMMA ServerSlot ==
    ASSUME NEW r \in SlotType
    PROVE  /\ Freed(r) \in SlotType /\ Freed(r).service = r.service
           /\ Freed(r).clients = {}
           /\ \A b \in Int : LET n == Opened(r, b) IN
                /\ n \in SlotType /\ (r.live => n.live) /\ n.service = r.service
                /\ n.listening /\ n.clients = {}
<1>1. Freed(r) = Plainer(r, 0, 0)
  BY DEF Freed, Plainer
<1>2. ASSUME NEW b \in Int
      PROVE  \E n \in Int, m \in Nat : Opened(r, b) = Serving(r, n, m)
  <2> DEFINE n == IF b > 0 THEN b ELSE 0
             m == IF b > 0 THEN b ELSE 1
  <2>1. n \in Int /\ m \in Nat
    OBVIOUS
  <2>2. Opened(r, b) = Serving(r, n, m)
    BY DEF Opened, Serving
  <2> HIDE DEF n, m
  <2>3. QED BY <2>1, <2>2
<1>3. /\ Freed(r) \in SlotType /\ Freed(r).service = r.service
      /\ Freed(r).clients = {}
  BY <1>1, ServingSlot
<1>4. ASSUME NEW b \in Int
      PROVE  LET n == Opened(r, b) IN
               /\ n \in SlotType /\ (r.live => n.live) /\ n.service = r.service
               /\ n.listening /\ n.clients = {}
  <2>1. PICK n \in Int, m \in Nat : Opened(r, b) = Serving(r, n, m)
    BY <1>2
  <2> DEFINE new == Serving(r, n, m)
  <2>2. /\ new \in SlotType /\ (r.live => new.live) /\ new.service = r.service
        /\ new.listening /\ new.clients = {}
    BY ServingSlot
  <2> HIDE DEF new
  <2>3. Opened(r, b) = new
    BY <2>1 DEF new
  <2>4. QED BY <2>2, <2>3
<1>5. QED BY <1>3, <1>4

LEMMA ListenKeeps ==
    ASSUME "mallocFails" \notin Env, slot \in Tables, OwnedBut(slot, {}), fault = "none",
           NEW s \in Slots, Listen(s)
    PROVE  Safe(slot', fault')
<1>1. slot[s].live /\ slot[s].service = Null /\ slot[s] \in SlotType
  BY DEF Listen, Plain, Tables
<1> DEFINE ends(o) == IF o.fault = "none" /\ o.res = Null
                      THEN Finish(Done([o.tab EXCEPT ![s] = Freed(o.tab[s])], Null))
                      ELSE Finish(o)
<1>2. PICK b \in Backlogs :
        \E o \in CreateListenClient([slot EXCEPT ![s] = Opened(slot[s], b)], s) : ends(o)
  BY DEF Listen
<1> DEFINE r   == Opened(slot[s], b)
           new == [slot EXCEPT ![s] = r]
<1> HIDE DEF ends
<1>3. PICK o \in CreateListenClient(new, s) : ends(o)
  BY <1>2
<1>4. r \in SlotType /\ r.live /\ r.service = Null /\ r.listening /\ r.clients = {}
  <2>1. b \in Int
    BY PoolAssumption
  <2>2. QED BY <1>1, <2>1, ServerSlot
<1> HIDE DEF r
<1>5. new \in Tables /\ OwnedBut(new, {}) /\ new[s] = r
  <2>1. \A v \in Slots : s \notin slot[v].clients
    BY <1>1, ListsOfOthers
  <2>2. slot[s].clients = {}
    BY ListsOfOthers DEF Listen
  <2>3. /\ [slot EXCEPT ![s] = r] \in Tables
        /\ OwnedBut([slot EXCEPT ![s] = r], {} \ {s})
    BY <1>4, <2>1, <2>2, RefillKeepsOwned
  <2>4. {} \ {s} = {}
    OBVIOUS
  <2>5. QED BY <2>3, <2>4 DEF Tables
<1> HIDE DEF new
<1>6. Keeps(new, {}, o)
  BY <1>4, <1>5, CreateListenClientKeeps
<1>7. CASE ~(o.fault = "none" /\ o.res = Null)
  BY <1>3, <1>6, <1>7, FinishIsSafe DEF ends
<1>8. CASE o.fault = "none" /\ o.res = Null
  <2> DEFINE t == o.tab
             n == Freed(t[s])
             end == [t EXCEPT ![s] = n]
  <2>1. t \in Tables /\ OwnedBut(t, {})
    BY <1>6, <1>8 DEF Keeps, Outcomes
  <2>2. t[s] = r
    BY <1>4, <1>5, <1>8, NoClientNoChange
  <2>3. Finish(Done(end, Null))
    BY <1>3, <1>8 DEF ends
  <2> HIDE DEF t
  <2>4. n \in SlotType /\ n.service = Null /\ n.clients = {}
    BY <1>4, <2>2, ServerSlot
  <2>5. t[s].clients = {} /\ \A v \in Slots : s \notin t[v].clients
    BY <1>4, <2>1, <2>2, ListsOfOthers
  <2> HIDE DEF n
  <2>6. /\ end \in Tables
        /\ OwnedBut(end, {} \ {s})
    BY <2>1, <2>4, <2>5, RefillKeepsOwned
  <2>7. {} \ {s} = {}
    OBVIOUS
  <2> HIDE DEF end
  <2>8. slot' = end /\ fault' = "none"
    BY <2>3 DEF Finish, Done
  <2>9. QED BY <2>6, <2>7, <2>8 DEF Safe, Faults
<1>9. QED BY <1>7, <1>8

\* wizIntDataTask: the interrupts are cleared, a disconnected socket is in state
\* Close, and a connected client is added to its server.
LEMMA InterruptKeeps ==
    ASSUME "mallocFails" \notin Env, slot \in Tables, OwnedBut(slot, {}), fault = "none",
           NEW s \in Slots, HandleInterrupt(s)
    PROVE  Safe(slot', fault')
<1> DEFINE cleared == [slot EXCEPT ![s].ir = {}]
           closed  == IF "DISCON" \in slot[s].ir /\ slot[s].live
                      THEN [cleared EXCEPT ![s].state = "Close"] ELSE cleared
<1>1. /\ cleared \in Tables /\ OwnedBut(cleared, {})
  <2>1. cleared \in Tables /\ SameOwners(slot, cleared)
    BY DEF Tables, SlotType, SameOwners
  <2>2. QED BY <2>1, SameOwnersOwn
<1>2. closed \in Tables /\ OwnedBut(closed, {}) /\ SameOwners(slot, closed)
  <2>1. SameOwners(slot, cleared)
    BY DEF Tables, SlotType, SameOwners
  <2> HIDE DEF cleared
  <2>2. LET new == [cleared EXCEPT ![s].state = "Close"]
        IN  new \in Tables /\ SameOwners(cleared, new)
    <3>1. "Close" \in SocketStates
      BY DEF SocketStates
    <3>2. QED BY <1>1, <3>1, StateKeeps
  <2>3. closed \in Tables /\ SameOwners(cleared, closed)
    BY <1>1, <2>2 DEF SameOwners
  <2> HIDE DEF closed
  <2>4. OwnedBut(closed, {})
    BY <1>1, <2>3, SameOwnersOwn
  <2>5. QED BY <2>1, <2>3, <2>4 DEF SameOwners
<1> HIDE DEF closed
<1>3. PICK o : Finish(o) /\ (o \in HandleCon(closed, s) \/ o = Done(closed, Null))
  BY DEF HandleInterrupt, closed
<1>4. CASE o = Done(closed, Null)
  BY <1>2, <1>3, <1>4 DEF Finish, Done, Safe, Faults
<1>5. CASE o = Stop(closed, "nullRead")
  BY <1>2, <1>3, <1>5 DEF Finish, Stop, Safe, Faults
<1>6. CASE o \in HandleCon(closed, s) /\ o # Done(closed, Null) /\ o # Stop(closed, "nullRead")
  <2> DEFINE v == closed[s].service
  <2>1. closed[s].live /\ v # Null /\ o \in AddClient(closed, v, s)
    BY <1>6 DEF HandleCon
  <2>2. v \in Slots /\ s \in closed[v].clients
    BY <1>2, <2>1 DEF OwnedBut
  <2> HIDE DEF v
  <2>3. Keeps(closed, {}, o)
    BY <1>2, <2>1, <2>2, AddClientKeeps
  <2>4. QED BY <1>3, <2>3, FinishIsSafe DEF Keeps, Finish, Outcomes, Safe
<1>7. QED BY <1>3, <1>4, <1>5, <1>6

-----------------------------------------------------------------------------
(* The invariant and its theorems                                          *)

\* The lists own their clients unless the program has stopped, in a table of
\* the right type: inductive as it stands once no malloc fails.
OwnershipInv == TypeOK /\ ClientListsOwn

LEMMA InitOwns == Init => OwnershipInv
<1> SUFFICES ASSUME Init PROVE OwnershipInv
  OBVIOUS
<1>1. slot \in Tables /\ \A s \in Slots : slot[s] = Zeroed
  BY SlotTypes DEF Init, Tables
<1>2. \A s \in Slots : ~slot[s].live /\ slot[s].clients = {}
  BY <1>1 DEF Zeroed, PlainSlot
<1>3. Owned(slot)
  BY <1>2 DEF Owned
<1>4. fault \in Faults /\ fds \subseteq Slots /\ sweep \in 0 .. MaxSock
  BY PoolAssumption DEF Init, Faults
<1>5. QED BY <1>1, <1>3, <1>4 DEF OwnershipInv, TypeOK, ClientListsOwn, Tables

\* Nothing happens once the program has stopped.
LEMMA NextRuns ==
    ASSUME Next
    PROVE  fault = "none"
<1>1. Running
  <2>1. ASSUME NEW t \in {"TCP", "UDP"}, Socket(t)
        PROVE  Running
    BY <2>1 DEF Socket
  <2>2. ASSUME NEW s \in Slots, AppStep(s)
        PROVE  Running
    BY <2>2 DEF AppStep, Bind, Connect, ConnectElse, Listen, Accept, Close
  <2>3. ASSUME NEW s \in Slots, HandleInterrupt(s) \/ ChipStep(s)
        PROVE  Running
    BY <2>3 DEF HandleInterrupt, ChipStep, PeerConnect, PeerClose, HandshakeTimeout
  <2>4. CASE StartSweep \/ SweepSocket
    BY <2>4 DEF StartSweep, SweepSocket
  <2>5. QED BY <2>1, <2>2, <2>3, <2>4 DEF Next
<1>2. QED BY <1>1 DEF Running

LEMMA NextOwns ==
    ASSUME "mallocFails" \notin Env, OwnershipInv, [Next]_vars
    PROVE  OwnershipInv'
<1>1. CASE UNCHANGED vars
  BY <1>1 DEF OwnershipInv, TypeOK, ClientListsOwn, vars
<1>2. CASE Next
  <2>1. /\ slot \in Tables /\ OwnedBut(slot, {}) /\ fault = "none"
        /\ fds \subseteq Slots /\ sweep \in 0 .. MaxSock
    BY <1>2, NextRuns, OwnedIsOwnedBut DEF OwnershipInv, TypeOK, ClientListsOwn, Tables
  <2>2. ASSUME Safe(slot', fault'), fds' \subseteq Slots, sweep' \in 0 .. MaxSock
        PROVE  OwnershipInv'
    BY <2>2, OwnedIsOwnedBut DEF Safe, OwnershipInv, TypeOK, ClientListsOwn, Tables
  <2>3. ASSUME NEW t \in {"TCP", "UDP"}, Socket(t)
        PROVE  OwnershipInv'
    BY <2>1, <2>2, <2>3, SocketKeeps DEF Socket
  <2>4. ASSUME NEW s \in Slots, Bind(s)
        PROVE  OwnershipInv'
    BY <2>1, <2>2, <2>4, BindKeeps DEF Bind
  <2>5. ASSUME NEW s \in Slots, Connect(s) \/ ConnectElse(s) \/ ChipStep(s)
        PROVE  OwnershipInv'
    <3>1. fds' = fds /\ sweep' = sweep
      BY <2>5 DEF Connect, ConnectElse, ChipStep, PeerConnect, PeerClose, HandshakeTimeout
    <3>2. QED BY <2>1, <2>2, <2>5, <3>1, ChangesKeep
  <2>6. ASSUME NEW s \in Slots, Listen(s)
        PROVE  OwnershipInv'
    BY <2>1, <2>2, <2>6, ListenKeeps DEF Listen
  <2>7. ASSUME NEW s \in Slots, Accept(s)
        PROVE  OwnershipInv'
    <3>1. sweep' = sweep
      BY <2>7 DEF Accept
    <3>2. QED BY <2>1, <2>2, <2>7, <3>1, AcceptKeeps
  <2>8. ASSUME NEW s \in Slots, Close(s)
        PROVE  OwnershipInv'
    <3>1. fds' \subseteq Slots /\ sweep' = sweep
      BY <2>1, <2>8 DEF Close
    <3>2. \E o \in CloseSocket(slot, s) : Finish(o)
      BY <2>8 DEF Close
    <3>3. QED BY <2>1, <2>2, <3>1, <3>2, CloseKeeps
  <2>9. ASSUME NEW s \in Slots, HandleInterrupt(s)
        PROVE  OwnershipInv'
    <3>1. fds' = fds /\ sweep' = sweep
      BY <2>9 DEF HandleInterrupt
    <3>2. QED BY <2>1, <2>2, <2>9, <3>1, InterruptKeeps
  <2>10. CASE StartSweep
    <3>1. slot' = slot /\ fault' = fault /\ fds' = fds /\ sweep' = 0
      BY <2>10 DEF StartSweep
    <3>2. QED BY <2>1, <2>2, <3>1, PoolAssumption DEF Safe, Faults
  <2>11. CASE SweepSocket
    <3>1. sweep \in Slots /\ fds' = fds /\ sweep' \in 0 .. MaxSock
      BY <2>1, <2>11, PoolAssumption DEF SweepSocket, Slots
    <3>2. \E o \in CloseSocket(slot, sweep) : Finish(o)
      BY <2>11 DEF SweepSocket
    <3>3. QED BY <2>1, <2>2, <3>1, <3>2, CloseKeeps
  <2>12. QED
    BY <1>2, <2>3, <2>4, <2>5, <2>6, <2>7, <2>8, <2>9, <2>10, <2>11 DEF Next, AppStep
<1>3. QED BY <1>1, <1>2 DEF vars

LEMMA OwnershipInvariant ==
    ASSUME "mallocFails" \notin Env
    PROVE  Spec => []OwnershipInv
<1>1. OwnershipInv /\ [Next]_vars => OwnershipInv'
  BY NextOwns
<1>2. QED BY InitOwns, <1>1, PTL DEF Spec

\* Type correctness of the socket table, for every environment in which malloc
\* does not fail.
THEOREM PoolTypeCorrect ==
    ASSUME "mallocFails" \notin Env
    PROVE  Spec => []TypeOK
<1>1. OwnershipInv => TypeOK
  BY DEF OwnershipInv
<1>2. QED BY OwnershipInvariant, <1>1, PTL

\* Every live client socket is in exactly the list of the listening socket it
\* names, and every list holds only such clients: whatever else fails (the chip,
\* rt_mutex_create, a full table, stale descriptors, a reconfiguration), as long
\* as malloc does not.
THEOREM PoolListsOwnTheirClients ==
    ASSUME "mallocFails" \notin Env
    PROVE  Spec => []ClientListsOwn
<1>1. OwnershipInv => ClientListsOwn
  BY DEF OwnershipInv
<1>2. QED BY OwnershipInvariant, <1>1, PTL

-----------------------------------------------------------------------------
(* The listening sockets: the counter, the client list, the accept queue   *)
(* and the descriptors of the application agree, and no assertion fails,   *)
(* also when sockets cannot be created and handshakes are not completed.   *)

\* What is asked of the environment and of the caller of listen(): what the
\* other behaviours of Env break is in the README.
Tame == /\ Env \subseteq {"createFails", "handshakeTimesOut"}
        /\ Backlogs \subseteq Nat \ {0}

\* The clients that wait for a connection, and those that have had one.
Idle(tab, v) == {c \in tab[v].clients : tab[c].state = "Listen"}
Busy(tab, v) == {c \in tab[v].clients : tab[c].state # "Listen"}

\* A socket of the application cannot listen while an interrupt is pending; a
\* client has its connect interrupt to be handled, or never had one, exactly as
\* long as its state is Listen.
SocketOK(tab, s) ==
    /\ ~tab[s].live => tab[s] = Zeroed
    /\ tab[s].live => tab[s].type = "TCP"
    /\ tab[s].live /\ tab[s].service = Null =>
         /\ tab[s].listening => tab[s].state = "Listen"
         /\ tab[s].state \in {"Init", "Listen"} =>
              tab[s].ir = {} /\ tab[s].sr \in {"INIT", "CLOSED"}
         /\ tab[s].sr # "LISTEN"
    /\ tab[s].live /\ tab[s].service # Null =>
         /\ ~tab[s].listening
         /\ tab[s].state = "Listen" =>
              \/ "CON" \in tab[s].ir /\ tab[s].sr # "LISTEN"
              \/ tab[s].ir = {} /\ tab[s].sr \in {"LISTEN", "CLOSED"}
         /\ tab[s].state # "Listen" => "CON" \notin tab[s].ir /\ tab[s].sr # "LISTEN"

\* The accounts of a server: F are the descriptors the application holds.
QueueOK(tab, F, v) ==
    LET q == tab[v].queue
    IN  /\ \A i \in 1 .. Len(q) : q[i] # Null => q[i] \in Busy(tab, v) \ F
        /\ \A i, j \in 1 .. Len(q) : q[i] # Null /\ q[i] = q[j] => i = j

ServerOK(tab, F, v) ==
    tab[v].live /\ tab[v].listening =>
      /\ tab[v].backlog \in Nat
      /\ tab[v].backlog + Cardinality(Busy(tab, v)) = tab[v].cap
      /\ \A c, d \in Idle(tab, v) : c = d
      /\ Idle(tab, v) # {} => tab[v].backlog > 0
      /\ Idle(tab, v) \cap F = {}
      /\ \A c \in tab[v].clients : tab[c].port = tab[v].port
      /\ QueueOK(tab, F, v)

\* All of the table.
Good(tab, F) ==
    /\ tab \in Tables /\ OwnedBut(tab, {})
    /\ F \subseteq Slots /\ \A f \in F : tab[f].live
    /\ \A s \in Slots : SocketOK(tab, s) /\ ServerOK(tab, F, s)

-----------------------------------------------------------------------------
(* What a call does, slot by slot                                          *)

\* The slot of a client that has just been created.
Client(v, port) ==
    [Fresh("TCP", port) EXCEPT !.service = v, !.state = "Listen", !.sr = "LISTEN"]

LEMMA ClientSlot ==
    ASSUME NEW v \in Slots, NEW port \in Nat
    PROVE  LET r == Client(v, port)
           IN  /\ r \in SlotType /\ r.live /\ r.type = "TCP" /\ r.service = v
               /\ r.port = port /\ r.state = "Listen" /\ r.sr = "LISTEN" /\ r.ir = {}
               /\ ~r.listening /\ r.clients = {}
<1>1. Fresh("TCP", port) \in SlotType
  BY SlotTypes DEF Types
<1>2. QED BY <1>1 DEF Client, Fresh, PlainSlot, SlotType, SocketStates, ChipStates

\* RyanW5500CreateListenClient leaves the table as it was, or fills a free slot.
Created(tab, new, v, c) ==
    /\ c \in Slots \ {v} /\ ~tab[c].live
    /\ new \in Tables
    /\ new[c] = Client(v, tab[v].port)
    /\ new[v] = WithClients(tab[v], tab[v].clients \cup {c})
    /\ \A s \in Slots \ {c, v} : new[s] = tab[s]

\* The slots of both tables are as live, of the same type and of the same server.
SameSockets(tab, new) ==
    \A s \in Slots : /\ new[s].live <=> tab[s].live
                     /\ new[s].type = tab[s].type
                     /\ new[s].service = tab[s].service

LEMMA SameFree ==
    ASSUME NEW tab, NEW new, SameSockets(tab, new)
    PROVE  Free(new) = Free(tab)
  BY DEF SameSockets, Free

\* Making a client ends in one of the ways of Done and Stop; after the socket has
\* been made no other fault than the double free is possible.
LEMMA ListenOnEnds ==
    ASSUME NEW tab, NEW v, NEW c, NEW o \in ListenOn(tab, v, c)
    PROVE  /\ \E t, r, w : o = [tab |-> t, res |-> r, fault |-> w]
           /\ o.fault \in {"none", "doubleFree"}
<1> DEFINE owned  == [tab EXCEPT ![c].service = v]
           listed == [owned EXCEPT ![v].clients = @ \cup {c}]
           heard  == [listed EXCEPT ![c].state = "Listen", ![c].sr = "LISTEN"]
<1>1. o \in {Done(heard, c), Done(owned, Null), Stop(listed, "doubleFree")}
  <2> DEFINE some(p, x) == IF p THEN {x} ELSE {}
  <2>1. ListenOn(tab, v, c) =
          some(tab[c].type = "TCP", Done(heard, c))
          \cup some("mallocFails" \in Env, Done(owned, Null))
          \cup some("listenFails" \in Env \/ tab[c].type # "TCP", Stop(listed, "doubleFree"))
    BY DEF ListenOn
  <2> HIDE DEF owned, listed, heard
  <2>2. QED BY <2>1
<1> HIDE DEF owned, listed, heard
<1>2. QED BY <1>1 DEF Done, Stop

LEMMA CreateEnds ==
    ASSUME NEW tab, NEW v, NEW o \in CreateListenClient(tab, v)
    PROVE  \E t, r, w : o = [tab |-> t, res |-> r, fault |-> w]
<1>1. PICK made \in SocketCreate(tab, tab[v].type, tab[v].port) :
        o \in IF made.res = Null THEN {made} ELSE ListenOn(made.tab, v, made.res)
  BY DEF CreateListenClient
<1>2. CASE made.res = Null
  <2>1. o = made
    BY <1>1, <1>2
  <2>2. \E t, r, w : made = [tab |-> t, res |-> r, fault |-> w]
    BY <1>1 DEF SocketCreate, Done, Stop
  <2>3. QED BY <2>1, <2>2
<1>3. CASE made.res # Null
  BY <1>1, <1>3, ListenOnEnds
<1>4. QED BY <1>2, <1>3

\* The read through NULL comes at a full table, which it leaves as it is.
LEMMA CreateTraps ==
    ASSUME NEW tab, NEW v, NEW o \in CreateListenClient(tab, v), o.fault = "nullSocket"
    PROVE  o = Stop(tab, "nullSocket") /\ Free(tab) = {}
<1>1. PICK made \in SocketCreate(tab, tab[v].type, tab[v].port) :
        o \in IF made.res = Null THEN {made} ELSE ListenOn(made.tab, v, made.res)
  BY DEF CreateListenClient
<1>2. CASE made.res = Null
  <2>1. o = made
    BY <1>1, <1>2
  <2>2. QED BY <1>1, <2>1 DEF SocketCreate, Done, Stop
<1>3. CASE made.res # Null
  <2>1. o.fault = "none" \/ o.fault = "doubleFree"
    BY <1>1, <1>3, ListenOnEnds
  <2>2. QED BY <2>1
<1>4. QED BY <1>2, <1>3

\* A call that stops there has changed a server and the state of a client only.
LEMMA AddTraps ==
    ASSUME NEW tab \in Tables, NEW v \in Slots, NEW c \in Slots,
           NEW o \in AddClient(tab, v, c), o.fault = "nullSocket"
    PROVE  SameSockets(tab, o.tab) /\ Free(tab) = {}
<1> DEFINE taken == [tab EXCEPT ![v].backlog = @ - 1, ![c].state = "Established"]
           queued(u) == IF u.fault # "none" THEN u
                        ELSE Done(MqSend(u.tab, v, IF u.res = Null THEN Null ELSE c), Null)
<1>1. SameSockets(tab, taken)
  BY DEF Tables, SlotType, SameSockets
<1>2. \/ o = Stop(tab, "assertBacklog")
      \/ \E made \in CreateListenClient(taken, v) : o = queued(made)
      \/ o = Done(MqSend(taken, v, c), Null)
  <2> HIDE DEF queued
  <2>1. AddClient(tab, v, c) =
          IF ~(tab[v].backlog > 0) THEN {Stop(tab, "assertBacklog")}
          ELSE IF taken[v].backlog > 0
               THEN {queued(u) : u \in CreateListenClient(taken, v)}
               ELSE {Done(MqSend(taken, v, c), Null)}
    BY DEF AddClient, queued
  <2>2. QED BY <2>1
<1> HIDE DEF taken
<1>3. PICK made \in CreateListenClient(taken, v) : o = queued(made)
  BY <1>2 DEF Stop, Done
<1>4. o = made
  BY <1>3 DEF Done
<1>5. made = Stop(taken, "nullSocket") /\ Free(taken) = {}
  BY <1>3, <1>4, CreateTraps
<1>6. o.tab = taken
  BY <1>4, <1>5 DEF Stop
<1>7. QED BY <1>1, <1>5, <1>6, SameFree

LEMMA CloseTraps ==
    ASSUME NEW tab \in Tables, NEW s \in Slots,
           NEW o \in CloseSocket(tab, s), o.fault = "nullSocket"
    PROVE  SameSockets(tab, o.tab) /\ Free(tab) = {}
<1> DEFINE v == tab[s].service
           unlinked == [tab EXCEPT ![v].clients = @ \ {s}]
           counted(t) == [t EXCEPT ![v].backlog = @ + 1]
           relisten(u) ==
             IF u.fault # "none" THEN u
             ELSE Done(counted(IF u.res = Null THEN MqSend(u.tab, v, Null) ELSE u.tab), Null)
<1>1. PICK left \in ListenSocketDestory(tab, s) :
        /\ tab[s].service # Null
        /\ o = [left EXCEPT !.tab = IF left.fault = "none"
                                    THEN [left.tab EXCEPT ![s] = Zeroed] ELSE left.tab]
  BY DEF CloseSocket, ServiceDestory, Done, Stop
<1>2. v \in Slots
  BY <1>1 DEF Tables, SlotType
<1>3. SameSockets(tab, unlinked)
  BY <1>2 DEF Tables, SlotType, SameSockets
<1>4. \/ left = Stop(tab, "assertService")
      \/ left = Stop(tab, "assertPort")
      \/ \E t : left = Done(t, Null)
      \/ \E made \in CreateListenClient(unlinked, v) : left = relisten(made)
  <2> HIDE DEF relisten, counted, unlinked
  <2>1. ReturnToBacklog(tab, v, s) =
          IF tab[v].backlog = 0
          THEN {relisten(u) : u \in CreateListenClient(unlinked, v)}
          ELSE {Done(counted(unlinked), Null)}
    BY DEF ReturnToBacklog, relisten, counted, unlinked
  <2>2. \/ left \in {Stop(tab, "assertService"), Stop(tab, "assertPort"), Done(tab, Null)}
        \/ left \in ReturnToBacklog(tab, v, s)
    BY <1>1 DEF ListenSocketDestory
  <2>3. QED BY <2>1, <2>2
<1> HIDE DEF counted, unlinked
<1>5. PICK made \in CreateListenClient(unlinked, v) : left = relisten(made)
  <2>1. ASSUME left = Stop(tab, "assertService") \/ left = Stop(tab, "assertPort")
        PROVE  FALSE
    BY <1>1, <2>1 DEF Stop
  <2>2. ASSUME NEW t, left = Done(t, Null)
        PROVE  FALSE
    BY <1>1, <2>2 DEF Done
  <2>3. QED BY <1>4, <2>1, <2>2
<1>6. made.fault # "none"
  <2>1. ASSUME NEW t, left = Done(t, Null)
        PROVE  FALSE
    BY <1>1, <2>1 DEF Done
  <2>2. QED BY <1>5, <2>1
<1>7. left = made /\ made.fault = "nullSocket"
  <2>1. left = made
    BY <1>5, <1>6
  <2>2. \E t, r, w : made = [tab |-> t, res |-> r, fault |-> w]
    BY <1>5, CreateEnds
  <2>3. QED BY <1>1, <2>1, <2>2
<1>8. made = Stop(unlinked, "nullSocket") /\ Free(unlinked) = {}
  BY <1>5, <1>7, CreateTraps
<1>9. o.tab = unlinked
  BY <1>1, <1>7, <1>8 DEF Stop
<1>10. QED BY <1>3, <1>8, <1>9, SameFree

LEMMA CreateEffect ==
    ASSUME Tame, NEW tab \in Tables, \A s \in Slots : ~tab[s].live => tab[s] = Zeroed,
           NEW v \in Slots, tab[v].live, tab[v].type = "TCP",
           NEW o \in CreateListenClient(tab, v), o.fault # "nullSocket"
    PROVE  /\ o.fault = "none"
           /\ \/ /\ o.res = Null /\ o.tab = tab
                 /\ Free(tab) = {} \/ "createFails" \in Env
              \/ Created(tab, o.tab, v, o.res)
<1> DEFINE port == tab[v].port
<1>1. port \in Nat /\ "TCP" \in Types /\ tab[v].type = "TCP"
  BY DEF Tables, SlotType, Types
<1>2. PICK made \in SocketCreate(tab, "TCP", port) :
        o \in IF made.res = Null THEN {made} ELSE ListenOn(made.tab, v, made.res)
  BY <1>1 DEF CreateListenClient
<1>3. "mallocFails" \notin Env /\ "listenFails" \notin Env
  BY DEF Tame
<1> HIDE DEF port
<1>4. CASE Free(tab) = {}
  <2>1. made = Stop(tab, "nullSocket") \/ made = Done(tab, Null)
    BY <1>2, <1>4 DEF SocketCreate
  <2>2. o = made
    BY <1>2, <2>1 DEF Done, Stop
  <2>3. made = Done(tab, Null)
    BY <2>1, <2>2 DEF Stop
  <2>4. QED BY <1>4, <2>2, <2>3 DEF Done
<1>5. CASE Free(tab) # {}
  <2> DEFINE c == FirstFree(tab)
             zeroed == [tab EXCEPT ![c] = Zeroed]
             filled == [tab EXCEPT ![c] = Fresh("TCP", port)]
  <2>1. c \in Slots /\ ~tab[c].live /\ c # Null /\ c # v
    BY <1>5, FirstFreeIsFree, PoolAssumption DEF Free, Slots, Null
  <2>2. \/ made = Done(filled, c)
        \/ made = Done(zeroed, Null) /\ "createFails" \in Env
    BY <1>2, <1>5 DEF SocketCreate
  <2>3. zeroed = tab
    BY <2>1 DEF Tables
  <2>4. /\ Fresh("TCP", port) \in SlotType /\ filled \in Tables
        /\ filled[c] = Fresh("TCP", port)
        /\ \A s \in Slots \ {c} : filled[s] = tab[s]
    BY <1>1, <2>1, SlotTypes, UpdateSlot
  <2> HIDE DEF c, zeroed, filled
  <2>5. CASE made = Done(zeroed, Null) /\ "createFails" \in Env
    <3>1. o = made
      BY <1>2, <2>5 DEF Done
    <3>2. QED BY <2>3, <2>5, <3>1 DEF Done
  <2>6. CASE made = Done(filled, c)
    <3> DEFINE owned  == [filled EXCEPT ![c].service = v]
               listed == [owned EXCEPT ![v].clients = @ \cup {c}]
               heard  == [listed EXCEPT ![c].state = "Listen", ![c].sr = "LISTEN"]
    <3>1. o \in ListenOn(filled, v, c)
      BY <1>2, <2>1, <2>6 DEF Done
    <3>2. filled[c].type = "TCP"
      BY <2>4 DEF Fresh, PlainSlot
    <3>3. o = Done(heard, c)
      BY <1>3, <3>1, <3>2 DEF ListenOn
    <3> DEFINE n == WithService(filled[c], v)
    <3>4. n \in SlotType
      BY <2>1, <2>4, SlotFields
    <3>5. owned = [filled EXCEPT ![c] = n]
      BY DEF WithService
    <3> HIDE DEF n
    <3>6. /\ owned \in Tables /\ owned[c] = n /\ owned[v] = tab[v]
          /\ \A s \in Slots \ {c, v} : owned[s] = tab[s]
      BY <2>1, <2>4, <3>4, <3>5 DEF Tables
    <3> HIDE DEF owned
    <3> DEFINE m == WithClients(tab[v], tab[v].clients \cup {c})
    <3>7. m \in SlotType
      <4>1. tab[v] \in SlotType /\ tab[v].clients \cup {c} \in SUBSET Slots
        BY <2>1 DEF Tables, SlotType
      <4>2. QED BY <4>1, SlotFields
    <3>8. listed = [owned EXCEPT ![v] = m]
      BY <3>6 DEF WithClients
    <3> HIDE DEF m
    <3>9. /\ listed \in Tables /\ listed[c] = n /\ listed[v] = m
          /\ \A s \in Slots \ {c, v} : listed[s] = tab[s]
      BY <2>1, <3>6, <3>7, <3>8 DEF Tables
    <3> HIDE DEF listed
    <3>10. heard = [listed EXCEPT ![c] = Heard(listed[c])]
      BY DEF Heard
    <3>11. Heard(n) \in SlotType
      BY <3>4, SlotFields
    <3>12. /\ heard \in Tables /\ heard[c] = Heard(n) /\ heard[v] = m
           /\ \A s \in Slots \ {c, v} : heard[s] = tab[s]
      BY <2>1, <3>9, <3>10, <3>11 DEF Tables
    <3>13. Heard(n) = Client(v, port)
      BY <2>4 DEF n, Heard, WithService, Client
    <3> HIDE DEF heard
    <3>14. Created(tab, heard, v, c)
      BY <2>1, <3>12, <3>13 DEF Created, m, port
    <3>15. QED BY <3>3, <3>14 DEF Done
  <2>7. QED BY <2>2, <2>5, <2>6
<1>6. QED BY <1>4, <1>5

\* A server's slot whose counter, list and queue may have changed.
IsServer(n, r, b, C, q) ==
    /\ n \in SlotType
    /\ n.live = r.live /\ n.type = r.type /\ n.port = r.port /\ n.state = r.state
    /\ n.service = r.service /\ n.listening = r.listening /\ n.cap = r.cap
    /\ n.sr = r.sr /\ n.ir = r.ir
    /\ n.backlog = b /\ n.clients = C /\ n.queue = q

\* The assignments to a server, one after the other.
LEMMA ServerSteps ==
    ASSUME NEW r \in SlotType, NEW n, NEW b \in Int, NEW C \in SUBSET Slots,
           NEW q \in Queues, IsServer(n, r, b, C, q)
    PROVE  /\ \A D \in SUBSET Slots : IsServer(WithClients(n, D), r, b, D, q)
           /\ \A m \in Int : IsServer([n EXCEPT !.backlog = m], r, m, C, q)
           /\ \A u \in Queues : IsServer(WithQueue(n, u), r, b, C, u)
<1>1. ASSUME NEW D \in SUBSET Slots
      PROVE  IsServer(WithClients(n, D), r, b, D, q)
  BY DEF IsServer, WithClients, SlotType
<1>2. ASSUME NEW m \in Int
      PROVE  IsServer([n EXCEPT !.backlog = m], r, m, C, q)
  BY DEF IsServer, SlotType
<1>3. ASSUME NEW u \in Queues
      PROVE  IsServer(WithQueue(n, u), r, b, C, u)
  BY DEF IsServer, WithQueue, SlotType
<1>4. QED BY <1>1, <1>2, <1>3

\* A table in which only v, a server, and the slots of X may differ.
Serves(tab, new, v, X, b, C, q) ==
    /\ new \in Tables
    /\ IsServer(new[v], tab[v], b, C, q)
    /\ \A s \in Slots \ ({v} \cup X) : new[s] = tab[s]

\* The counter of a server is raised, its queue is sent a message.
LEMMA CountServes ==
    ASSUME NEW tab \in Tables, NEW v \in Slots, NEW X, NEW b \in Int,
           NEW C \in SUBSET Slots, NEW q \in Queues,
           NEW t, Serves(tab, t, v, X, b, C, q), NEW k \in Int
    PROVE  LET new == [t EXCEPT ![v].backlog = k]
           IN  Serves(tab, new, v, X, k, C, q) /\ \A s \in Slots \ {v} : new[s] = t[s]
<1> DEFINE n   == [t[v] EXCEPT !.backlog = k]
           new == [t EXCEPT ![v] = n]
<1>1. t \in Tables /\ tab[v] \in SlotType
  BY DEF Serves, Tables
<1>2. IsServer(n, tab[v], k, C, q)
  BY <1>1, ServerSteps DEF Serves
<1> HIDE DEF n
<1>3. new \in Tables /\ new[v] = n /\ \A s \in Slots \ {v} : new[s] = t[s]
  BY <1>1, <1>2 DEF Tables, IsServer
<1>4. Serves(tab, new, v, X, k, C, q)
  BY <1>2, <1>3 DEF Serves
<1>5. QED BY <1>3, <1>4 DEF n

LEMMA SendServes ==
    ASSUME NEW tab \in Tables, NEW v \in Slots, NEW X, NEW b \in Int,
           NEW C \in SUBSET Slots, NEW q \in Queues,
           NEW t, Serves(tab, t, v, X, b, C, q), NEW m \in Slots \cup {Null}
    PROVE  LET new == MqSend(t, v, m)
               u   == IF Len(q) < tab[v].cap THEN Append(q, m) ELSE q
           IN  /\ u \in Queues
               /\ Serves(tab, new, v, X, b, C, u) /\ \A s \in Slots \ {v} : new[s] = t[s]
<1> DEFINE u   == IF Len(q) < tab[v].cap THEN Append(q, m) ELSE q
           n   == WithQueue(t[v], u)
           new == [t EXCEPT ![v] = n]
<1>1. t \in Tables /\ tab[v] \in SlotType /\ t[v].queue = q /\ t[v].cap = tab[v].cap
  BY DEF Serves, IsServer, Tables
<1>2. u \in Queues
  BY DEF Queues
<1>3. MqSend(t, v, m) = new
  BY <1>1 DEF MqSend, WithQueue
<1> HIDE DEF u
<1>4. IsServer(n, tab[v], b, C, u)
  BY <1>1, <1>2, ServerSteps DEF Serves
<1> HIDE DEF n
<1>5. new \in Tables /\ new[v] = n /\ \A s \in Slots \ {v} : new[s] = t[s]
  BY <1>1, <1>4 DEF Tables, IsServer
<1>6. Serves(tab, new, v, X, b, C, u)
  BY <1>4, <1>5 DEF Serves
<1>7. QED BY <1>2, <1>3, <1>5, <1>6 DEF u

\* The client that a call creates for v, or none.
NewClient(tab, new, v, N) ==
    \A c \in N : /\ N = {c} /\ c \in Slots \ {v} /\ ~tab[c].live
                 /\ new[c] = Client(v, tab[v].port)

\* Closing a client s that has had its connection: it is unlinked and counted; the
\* server gets a new client when no other was left, or its queue a -1.
Unlinked(tab, new, v, s, N, q) ==
    /\ N \in SUBSET Slots /\ NewClient(tab, new, v, N)
    /\ N # {} => tab[v].backlog = 0
    /\ N = {} /\ tab[v].backlog = 0 => Free(tab) = {} \/ "createFails" \in Env
    /\ q \in Queues
    /\ \/ q = tab[v].queue
       \/ N = {} /\ tab[v].backlog = 0 /\ q = Append(tab[v].queue, Null)
    /\ new[s] = Zeroed
    /\ Serves(tab, new, v, N \cup {s}, tab[v].backlog + 1, (tab[v].clients \ {s}) \cup N, q)

LEMMA CloseClientEffect ==
    ASSUME Tame, NEW tab, NEW F, Good(tab, F),
           NEW s \in Slots, tab[s].live, tab[s].service # Null,
           NEW o \in CloseSocket(tab, s), o.fault # "nullSocket"
    PROVE  /\ o.fault = "none"
           /\ \E N, q : Unlinked(tab, o.tab, tab[s].service, s, N, q)
<1> DEFINE v == tab[s].service
           unlinked == [tab EXCEPT ![v].clients = @ \ {s}]
           counted(t) == [t EXCEPT ![v].backlog = @ + 1]
           b == tab[v].backlog
           C == tab[v].clients \ {s}
           q0 == tab[v].queue
<1>1. /\ tab \in Tables /\ v \in Slots /\ tab[v].live /\ tab[v].listening
      /\ s \in tab[v].clients /\ tab[v].service = Null /\ v # s
  BY DEF Good, OwnedBut
<1>2. tab[s].port = tab[v].port /\ tab[v].type = "TCP" /\ b \in Nat
  BY <1>1 DEF Good, ServerOK, SocketOK
<1>3. /\ tab[v] \in SlotType /\ C \in SUBSET Slots /\ q0 \in Queues /\ b \in Int
      /\ tab[s] \in SlotType
  BY <1>1 DEF Tables, SlotType
<1>4. PICK left \in ReturnToBacklog(tab, v, s) :
        o = [left EXCEPT !.tab = IF left.fault = "none"
                                 THEN [left.tab EXCEPT ![s] = Zeroed] ELSE left.tab]
  BY <1>1, <1>2 DEF CloseSocket, ListenSocketDestory
<1> HIDE DEF v
<1> DEFINE w == WithClients(tab[v], C)
<1>5. unlinked = [tab EXCEPT ![v] = w]
  BY DEF WithClients
<1>6. IsServer(tab[v], tab[v], b, tab[v].clients, q0)
  BY <1>3 DEF IsServer
<1>7. IsServer(w, tab[v], b, C, q0)
  <2>1. tab[v].clients \in SUBSET Slots
    BY <1>3 DEF SlotType
  <2>2. QED BY <1>3, <1>6, <2>1, ServerSteps
<1> HIDE DEF w
<1>8. /\ unlinked \in Tables /\ unlinked[v] = w /\ unlinked[s] = tab[s]
      /\ \A r \in Slots \ {v} : unlinked[r] = tab[r]
  BY <1>1, <1>5, <1>7 DEF Tables, IsServer
<1> HIDE DEF unlinked
<1>9. Serves(tab, unlinked, v, {}, b, C, q0)
  BY <1>7, <1>8 DEF Serves
<1>10. ASSUME NEW N \in SUBSET Slots, NEW q \in Queues, NEW t,
              Serves(tab, t, v, N, b, C \cup N, q), NewClient(tab, t, v, N),
              N # {} => b = 0,
              N = {} /\ b = 0 => Free(tab) = {} \/ "createFails" \in Env,
              q = q0 \/ (N = {} /\ b = 0 /\ q = Append(q0, Null)),
              left = Done(counted(t), Null)
       PROVE  o.fault = "none" /\ Unlinked(tab, o.tab, v, s, N, q)
  <2> DEFINE t1 == [t EXCEPT ![v].backlog = b + 1]
             t2 == [t1 EXCEPT ![s] = Zeroed]
  <2>1. t[v].backlog = b
    BY <1>10 DEF Serves, IsServer
  <2>2. counted(t) = t1
    BY <2>1
  <2>3. b + 1 \in Int /\ C \cup N \in SUBSET Slots
    BY <1>3
  <2>4. /\ Serves(tab, t1, v, N, b + 1, C \cup N, q)
        /\ \A r \in Slots \ {v} : t1[r] = t[r]
    <3> DEFINE k == b + 1
               D == C \cup N
    <3>1. k \in Int /\ D \in SUBSET Slots /\ b \in Int
          /\ Serves(tab, t, v, N, b, D, q) /\ v \in Slots /\ tab \in Tables
      BY <1>1, <1>3, <1>10, <2>3
    <3> HIDE DEF k, D, b, C
    <3>2. /\ Serves(tab, [t EXCEPT ![v].backlog = k], v, N, k, D, q)
          /\ \A r \in Slots \ {v} : [t EXCEPT ![v].backlog = k][r] = t[r]
      BY <3>1, CountServes
    <3>3. QED BY <3>2 DEF k, D
  <2> HIDE DEF t1, counted
  <2>5. s \notin N
    BY <1>10 DEF NewClient
  <2>6. Zeroed \in SlotType /\ t1 \in Tables
    BY <2>4, SlotTypes DEF Serves
  <2>7. /\ t2 \in Tables /\ t2[s] = Zeroed
        /\ \A r \in Slots \ {s} : t2[r] = t1[r]
    BY <2>6 DEF Tables
  <2> HIDE DEF t2
  <2>8. Serves(tab, t2, v, N \cup {s}, b + 1, C \cup N, q)
    BY <1>1, <2>4, <2>7 DEF Serves
  <2>9. NewClient(tab, t2, v, N)
    BY <1>10, <2>4, <2>5, <2>7 DEF NewClient
  <2>10. o.fault = "none" /\ o.tab = t2
    BY <1>4, <1>10, <2>2 DEF Done, t2
  <2>11. QED BY <1>10, <2>7, <2>8, <2>9, <2>10 DEF Unlinked
<1>11. CASE b # 0
  <2>1. left = Done(counted(unlinked), Null)
    BY <1>4, <1>11 DEF ReturnToBacklog, unlinked
  <2>2. Serves(tab, unlinked, v, {}, b, C \cup {}, q0) /\ NewClient(tab, unlinked, v, {})
    BY <1>9 DEF NewClient
  <2> HIDE DEF counted
  <2>3. o.fault = "none" /\ Unlinked(tab, o.tab, v, s, {}, q0)
    BY <1>3, <1>10, <1>11, <2>1, <2>2 DEF counted
  <2>4. QED BY <2>3 DEF v
<1>12. CASE b = 0
  <2>1. PICK made \in CreateListenClient(unlinked, v) :
          left = IF made.fault # "none" THEN made
                 ELSE Done(counted(IF made.res = Null THEN MqSend(made.tab, v, Null)
                                                     ELSE made.tab), Null)
    BY <1>4, <1>12 DEF ReturnToBacklog, unlinked
  <2>2. /\ \A r \in Slots : ~unlinked[r].live => unlinked[r] = Zeroed
        /\ unlinked[v].live /\ unlinked[v].type = "TCP" /\ unlinked[v].port = tab[v].port
        /\ unlinked[v].clients = C
        /\ Free(unlinked) = Free(tab)
    <3>1. w.live = tab[v].live /\ w.type = tab[v].type /\ w.port = tab[v].port /\ w.clients = C
      BY <1>7 DEF IsServer
    <3>2. \A r \in Slots : unlinked[r].live = tab[r].live
      BY <1>8, <3>1
    <3>3. Free(unlinked) = Free(tab)
      BY <3>2 DEF Free
    <3>4. \A r \in Slots : ~tab[r].live => tab[r] = Zeroed
      BY DEF Good, SocketOK
    <3>5. \A r \in Slots : ~unlinked[r].live => unlinked[r] = Zeroed
      BY <1>1, <1>8, <3>2, <3>4
    <3>6. QED BY <1>1, <1>2, <1>8, <3>1, <3>3, <3>5
  <2>3. /\ made.fault = "none"
        /\ \/ /\ made.res = Null /\ made.tab = unlinked
              /\ Free(tab) = {} \/ "createFails" \in Env
           \/ Created(unlinked, made.tab, v, made.res)
    <3>1. made.fault # "nullSocket"
      <4>1. SUFFICES ASSUME made.fault = "nullSocket"
                     PROVE  FALSE
        OBVIOUS
      <4>2. left = Stop(unlinked, "nullSocket")
        BY <2>1, <4>1, CreateTraps
      <4>3. QED BY <1>4, <4>2 DEF Stop
    <3>2. QED BY <1>1, <1>8, <2>1, <2>2, <3>1, CreateEffect
  <2>4. CASE made.res = Null /\ made.tab = unlinked
    <3> DEFINE t == MqSend(unlinked, v, Null)
               q == IF Len(q0) < tab[v].cap THEN Append(q0, Null) ELSE q0
    <3>1. q \in Queues /\ Serves(tab, t, v, {}, b, C, q)
      BY <1>1, <1>3, <1>9, SendServes
    <3>2. left = Done(counted(t), Null)
      BY <2>1, <2>3, <2>4
    <3>3. Free(tab) = {} \/ "createFails" \in Env
      BY <2>3, <2>4, PoolAssumption DEF Created, Slots, Null
    <3> HIDE DEF t
    <3>4. Serves(tab, t, v, {}, b, C \cup {}, q) /\ NewClient(tab, t, v, {})
      BY <3>1 DEF NewClient
    <3>5. q = q0 \/ q = Append(q0, Null)
      OBVIOUS
    <3> HIDE DEF q, counted
    <3>6. o.fault = "none" /\ Unlinked(tab, o.tab, v, s, {}, q)
      BY <1>10, <1>12, <3>1, <3>2, <3>3, <3>4, <3>5 DEF counted
    <3>7. QED BY <3>6 DEF v
  <2>5. CASE Created(unlinked, made.tab, v, made.res)
    <3> DEFINE c == made.res
               t == made.tab
    <3>1. c # Null
      BY <2>5, PoolAssumption DEF Created, Slots, Null
    <3>2. left = Done(counted(t), Null)
      BY <2>1, <2>3, <3>1
    <3>3. c \in Slots \ {v} /\ c # s /\ ~tab[c].live /\ t \in Tables
      BY <1>8, <2>5 DEF Created
    <3>4. t[c] = Client(v, tab[v].port) /\ t[v] = WithClients(w, C \cup {c})
      BY <1>8, <2>2, <2>5 DEF Created
    <3>5. \A r \in Slots \ ({v} \cup {c}) : t[r] = tab[r]
      BY <1>8, <2>5 DEF Created
    <3> HIDE DEF t, c
    <3>6. C \cup {c} \in SUBSET Slots
      BY <1>3, <3>3
    <3>7. IsServer(t[v], tab[v], b, C \cup {c}, q0)
      BY <1>3, <1>7, <3>4, <3>6, ServerSteps
    <3>8. Serves(tab, t, v, {c}, b, C \cup {c}, q0) /\ NewClient(tab, t, v, {c})
      BY <3>3, <3>4, <3>5, <3>7 DEF Serves, NewClient
    <3> HIDE DEF counted
    <3>9. o.fault = "none" /\ Unlinked(tab, o.tab, v, s, {c}, q0)
      BY <1>3, <1>10, <1>12, <3>2, <3>3, <3>8 DEF counted
    <3>10. QED BY <3>9 DEF v
  <2>6. QED BY <2>3, <2>4, <2>5
<1>13. QED BY <1>11, <1>12

\* The connection of client c: it is counted and queued, and the next client is
\* created while the backlog lasts; if that fails the queue gets a -1.
Taken(r) == [r EXCEPT !.state = "Established"]

Sent(r, m) == IF Len(r.queue) < r.cap THEN Append(r.queue, m) ELSE r.queue

Added(tab, new, v, c, N, m) ==
    /\ N \in SUBSET Slots /\ NewClient(tab, new, v, N)
    /\ N # {} => tab[v].backlog > 1
    /\ N = {} /\ tab[v].backlog > 1 => Free(tab) = {} \/ "createFails" \in Env
    /\ m = IF tab[v].backlog > 1 /\ N = {} THEN Null ELSE c
    /\ new[c] = Taken(tab[c])
    /\ Serves(tab, new, v, N \cup {c}, tab[v].backlog - 1, tab[v].clients \cup N,
              Sent(tab[v], m))

LEMMA AddClientEffect ==
    ASSUME Tame, NEW tab \in Tables, \A s \in Slots : ~tab[s].live => tab[s] = Zeroed,
           NEW v \in Slots, tab[v].live, tab[v].type = "TCP", tab[v].backlog > 0,
           NEW c \in Slots \ {v}, tab[c].live,
           NEW o \in AddClient(tab, v, c), o.fault # "nullSocket"
    PROVE  /\ o.fault = "none"
           /\ \E N, m : Added(tab, o.tab, v, c, N, m)
<1> DEFINE b  == tab[v].backlog
           k  == b - 1
           C  == tab[v].clients
           q0 == tab[v].queue
           n  == [tab[v] EXCEPT !.backlog = k]
           t0 == [tab EXCEPT ![v] = n]
           t1 == [t0 EXCEPT ![c] = Taken(tab[c])]
           taken == [tab EXCEPT ![v].backlog = @ - 1, ![c].state = "Established"]
           queued(u) == IF u.fault # "none" THEN u
                        ELSE Done(MqSend(u.tab, v, IF u.res = Null THEN Null ELSE c), Null)
<1>1. /\ tab[v] \in SlotType /\ tab[c] \in SlotType
      /\ b \in Int /\ k \in Int /\ C \in SUBSET Slots /\ q0 \in Queues
  BY DEF Tables, SlotType
<1>2. /\ IsServer(n, tab[v], k, C, q0)
      /\ Taken(tab[c]) \in SlotType /\ Taken(tab[c]).live
  <2>1. IsServer(tab[v], tab[v], b, C, q0)
    BY <1>1 DEF IsServer
  <2> HIDE DEF b, k, C, q0
  <2>2. IsServer([tab[v] EXCEPT !.backlog = k], tab[v], k, C, q0)
    BY <1>1, <2>1, ServerSteps
  <2>3. Taken(tab[c]) \in SlotType /\ Taken(tab[c]).live
    BY <1>1 DEF Taken, SlotType, SocketStates
  <2>4. QED BY <2>2, <2>3
<1>3. taken = t1
  <2>1. taken = [[tab EXCEPT ![v].backlog = tab[v].backlog - 1] EXCEPT ![c].state = "Established"]
    OBVIOUS
  <2>2. [tab EXCEPT ![v].backlog = tab[v].backlog - 1] = t0
    OBVIOUS
  <2>3. t0[c] = tab[c]
    BY DEF Tables
  <2> HIDE DEF t0, taken
  <2>4. QED BY <2>1, <2>2, <2>3 DEF Taken
<1> HIDE DEF n
<1>4. /\ t0 \in Tables /\ t0[v] = n
      /\ \A s \in Slots \ {v} : t0[s] = tab[s]
  BY <1>2 DEF Tables, IsServer
<1> HIDE DEF t0
<1>5. /\ t1 \in Tables /\ t1[v] = n /\ t1[c] = Taken(tab[c])
      /\ \A s \in Slots \ {v, c} : t1[s] = tab[s]
  BY <1>2, <1>4 DEF Tables
<1> HIDE DEF t1
<1>6. Serves(tab, t1, v, {c}, k, C, q0)
  BY <1>2, <1>5 DEF Serves
<1>7. \/ /\ k > 0
         /\ \E made \in CreateListenClient(t1, v) : o = queued(made)
      \/ ~(k > 0) /\ o = Done(MqSend(t1, v, c), Null)
  <2>1. t1[v].backlog = k
    BY <1>2, <1>5 DEF IsServer
  <2>2. AddClient(tab, v, c) = IF taken[v].backlog > 0
                              THEN {queued(u) : u \in CreateListenClient(taken, v)}
                              ELSE {Done(MqSend(taken, v, c), Null)}
    BY <1>1 DEF AddClient
  <2> HIDE DEF queued, k, taken
  <2>3. QED BY <1>3, <2>1, <2>2
\* However the queue is sent the message m: t is the table before.
<1>8. ASSUME NEW N \in SUBSET Slots, NEW m \in Slots \cup {Null}, NEW t,
             Serves(tab, t, v, N \cup {c}, k, C \cup N, q0), NewClient(tab, t, v, N),
             t[c] = Taken(tab[c]),
             N # {} => b > 1,
             N = {} /\ b > 1 => Free(tab) = {} \/ "createFails" \in Env,
             m = IF b > 1 /\ N = {} THEN Null ELSE c,
             o = Done(MqSend(t, v, m), Null)
      PROVE  o.fault = "none" /\ Added(tab, o.tab, v, c, N, m)
  <2> DEFINE D   == C \cup N
             X   == N \cup {c}
             new == MqSend(t, v, m)
             u   == IF Len(q0) < tab[v].cap THEN Append(q0, m) ELSE q0
  <2>1. D \in SUBSET Slots /\ u = Sent(tab[v], m)
    BY <1>1 DEF Sent
  <2>2. Serves(tab, t, v, X, k, D, q0)
    BY <1>8
  <2> HIDE DEF D, X, k, q0
  <2>3. Serves(tab, new, v, X, k, D, u) /\ \A s \in Slots \ {v} : new[s] = t[s]
    <3>1. /\ tab \in Tables /\ v \in Slots /\ k \in Int /\ D \in SUBSET Slots
          /\ q0 \in Queues /\ m \in Slots \cup {Null}
      BY <1>1, <2>1
    <3>2. Serves(tab, MqSend(t, v, m), v, X, k, D,
                 IF Len(q0) < tab[v].cap THEN Append(q0, m) ELSE q0)
      BY <3>1, <2>2, SendServes
    <3>3. \A s \in Slots \ {v} : MqSend(t, v, m)[s] = t[s]
      BY <3>1, <2>2, SendServes
    <3>4. QED BY <3>2, <3>3
  <2> HIDE DEF u, new
  <2>4. NewClient(tab, new, v, N) /\ new[c] = Taken(tab[c])
    BY <1>8, <2>3 DEF NewClient
  <2>5. o.fault = "none" /\ o.tab = new
    BY <1>8 DEF Done, new
  <2>6. QED BY <1>8, <2>1, <2>3, <2>4, <2>5 DEF Added, D, X, k
<1>9. CASE ~(k > 0) /\ o = Done(MqSend(t1, v, c), Null)
  <2>1. ~(b > 1)
    BY <1>1, <1>9
  <2>2. Serves(tab, t1, v, {} \cup {c}, k, C \cup {}, q0) /\ NewClient(tab, t1, v, {})
    BY <1>6 DEF NewClient
  <2> HIDE DEF b, k, C, q0
  <2>3. o.fault = "none" /\ Added(tab, o.tab, v, c, {}, c)
    BY <1>5, <1>8, <1>9, <2>1, <2>2
  <2>4. QED BY <2>3
<1>10. ASSUME k > 0, NEW made \in CreateListenClient(t1, v), o = queued(made)
       PROVE  o.fault = "none" /\ \E N, m : Added(tab, o.tab, v, c, N, m)
  <2>1. b > 1
    BY <1>1, <1>10
  <2>2. n.live /\ n.type = "TCP" /\ n.port = tab[v].port /\ n.clients = C
    BY <1>2 DEF IsServer
  <2>3. \A r \in Slots : t1[r].live <=> tab[r].live
    BY <1>2, <1>5, <2>2
  <2>4. \A r \in Slots : ~t1[r].live => t1[r] = Zeroed
    BY <1>5, <2>3
  <2>5. Free(t1) = Free(tab)
    BY <2>3 DEF Free
  <2>6. /\ made.fault = "none"
        /\ \/ /\ made.res = Null /\ made.tab = t1
              /\ Free(tab) = {} \/ "createFails" \in Env
           \/ Created(t1, made.tab, v, made.res)
    <3>1. made.fault # "nullSocket"
      BY <1>10
    <3>2. QED BY <1>5, <1>10, <2>2, <2>4, <2>5, <3>1, CreateEffect
  <2>7. CASE made.res = Null /\ made.tab = t1
    <3>1. o = Done(MqSend(t1, v, Null), Null)
      BY <1>10, <2>6, <2>7
    <3>2. Serves(tab, t1, v, {} \cup {c}, k, C \cup {}, q0) /\ NewClient(tab, t1, v, {})
      BY <1>6 DEF NewClient
    <3>3. Free(tab) = {} \/ "createFails" \in Env
      BY <2>6, <2>7, PoolAssumption DEF Created, Slots, Null
    <3> HIDE DEF b, k, C, q0, queued
    <3>4. o.fault = "none" /\ Added(tab, o.tab, v, c, {}, Null)
      BY <1>5, <1>8, <2>1, <3>1, <3>2, <3>3
    <3>5. QED BY <3>4
  <2>8. CASE Created(t1, made.tab, v, made.res)
    <3> DEFINE d == made.res
               t == made.tab
    <3>1. d # Null
      BY <2>8, PoolAssumption DEF Created, Slots, Null
    <3>2. o = Done(MqSend(t, v, c), Null)
      BY <1>10, <2>6, <3>1
    <3>3. d \in Slots \ {v} /\ d # c /\ ~tab[d].live /\ t \in Tables
      BY <2>3, <2>8 DEF Created
    <3>4. t[d] = Client(v, tab[v].port) /\ t[v] = WithClients(n, C \cup {d})
      BY <1>5, <2>2, <2>8 DEF Created
    <3>5. /\ \A r \in Slots \ ({v} \cup {d, c}) : t[r] = tab[r]
          /\ t[c] = Taken(tab[c])
      BY <1>5, <2>8, <3>3 DEF Created
    <3> HIDE DEF t, d
    <3>6. C \cup {d} \in SUBSET Slots
      BY <1>1, <3>3
    <3> HIDE DEF b, k, C, q0, queued
    <3>7. IsServer(t[v], tab[v], k, C \cup {d}, q0)
      <4> DEFINE D == C \cup {d}
      <4>1. /\ tab[v] \in SlotType /\ k \in Int /\ C \in SUBSET Slots /\ q0 \in Queues
            /\ D \in SUBSET Slots /\ IsServer(n, tab[v], k, C, q0)
        BY <1>1, <1>2, <3>6
      <4>2. t[v] = WithClients(n, D)
        BY <3>4
      <4> HIDE DEF D
      <4>3. IsServer(WithClients(n, D), tab[v], k, D, q0)
        BY <4>1, ServerSteps
      <4>4. QED BY <4>2, <4>3 DEF D
    <3>8. Serves(tab, t, v, {d} \cup {c}, k, C \cup {d}, q0) /\ NewClient(tab, t, v, {d})
      BY <3>3, <3>4, <3>5, <3>7 DEF Serves, NewClient
    <3>9. o.fault = "none" /\ Added(tab, o.tab, v, c, {d}, c)
      BY <1>8, <2>1, <3>2, <3>3, <3>5, <3>8
    <3>10. QED BY <3>9
  <2>9. QED BY <2>6, <2>7, <2>8
<1>11. QED BY <1>7, <1>9, <1>10

-----------------------------------------------------------------------------
(* The accounts of a server from one table to the next                     *)

\* A server is not disturbed by what happens to other slots, as long as its
\* clients keep their port and wait, or not, as before.
LEMMA ServerFrame ==
    ASSUME NEW tab, NEW F, NEW v, ServerOK(tab, F, v), NEW new, NEW G, new[v] = tab[v],
           \A c \in tab[v].clients : /\ new[c].state = "Listen" <=> tab[c].state = "Listen"
                                     /\ new[c].port = tab[c].port
                                     /\ c \in G <=> c \in F
    PROVE  ServerOK(new, G, v)
<1>1. Idle(new, v) = Idle(tab, v) /\ Busy(new, v) = Busy(tab, v)
  BY DEF Idle, Busy
<1>2. SUFFICES ASSUME tab[v].live /\ tab[v].listening
               PROVE  ServerOK(new, G, v)
  BY DEF ServerOK
<1>3. Idle(tab, v) \subseteq tab[v].clients /\ Busy(tab, v) \subseteq tab[v].clients
  BY DEF Idle, Busy
<1>4. Idle(new, v) \cap G = {}
  BY <1>1, <1>2, <1>3 DEF ServerOK
<1>5. QueueOK(new, G, v)
  <2>1. QueueOK(tab, F, v)
    BY <1>2 DEF ServerOK
  <2>2. \A c \in Busy(tab, v) \ F : c \in Busy(new, v) \ G
    BY <1>1, <1>3
  <2>3. QED BY <2>1, <2>2 DEF QueueOK
<1>6. QED BY <1>1, <1>2, <1>4, <1>5 DEF ServerOK

\* SocketOK speaks of some fields only.
LEMMA SocketFrame ==
    ASSUME NEW tab, NEW new, NEW s, SocketOK(tab, s), tab[s].live,
           new[s].live, new[s].type = tab[s].type, new[s].state = tab[s].state,
           new[s].service = tab[s].service, new[s].listening <=> tab[s].listening,
           new[s].sr = tab[s].sr, new[s].ir = tab[s].ir
    PROVE  SocketOK(new, s)
  BY DEF SocketOK

\* A step that changes one server v and, in X, its clients and free slots keeps
\* the rest of the table good.
LEMMA ServesGood ==
    ASSUME NEW tab, NEW F, Good(tab, F),
           NEW v \in Slots, tab[v].live, tab[v].listening, tab[v].service = Null,
           NEW X \in SUBSET (Slots \ {v}), NEW new, NEW b, NEW C, NEW q,
           Serves(tab, new, v, X, b, C, q), OwnedBut(new, {}),
           \A x \in X : /\ ~new[x].live \/ ~new[x].listening
                        /\ ~tab[x].live \/ tab[x].service = v
                        /\ SocketOK(new, x),
           NEW G \in SUBSET Slots, \A g \in G : new[g].live,
           \A c \in Slots \ X : c \in G <=> c \in F,
           ServerOK(new, G, v)
    PROVE  Good(new, G)
<1>1. /\ new \in Tables /\ IsServer(new[v], tab[v], b, C, q)
      /\ \A s \in Slots \ ({v} \cup X) : new[s] = tab[s]
  BY DEF Serves
<1>2. tab \in Tables /\ OwnedBut(tab, {})
  BY DEF Good
<1>3. ASSUME NEW s \in Slots
      PROVE  SocketOK(new, s)
  <2>1. CASE s = v
    BY <1>1, <2>1, SocketFrame DEF Good, IsServer
  <2>2. CASE s \in X
    BY <2>2
  <2>3. CASE s # v /\ s \notin X
    BY <1>1, <2>3 DEF Good, SocketOK
  <2>4. QED BY <2>1, <2>2, <2>3
<1>4. ASSUME NEW w \in Slots
      PROVE  ServerOK(new, G, w)
  <2>1. CASE w = v
    BY <2>1
  <2>2. CASE w \in X
    BY <2>2 DEF ServerOK
  <2>3. CASE w # v /\ w \notin X
    <3>1. new[w] = tab[w]
      BY <1>1, <2>3
    <3>2. ASSUME NEW c \in tab[w].clients
          PROVE  c \in Slots \ ({v} \cup X)
      <4>1. c \in Slots /\ tab[c].live /\ tab[c].service = w
        BY <1>2 DEF OwnedBut, Tables, SlotType
      <4>2. w # Null
        BY PoolAssumption DEF Slots, Null
      <4>3. QED BY <2>3, <4>1, <4>2
    <3>3. \A c \in tab[w].clients : new[c] = tab[c] /\ (c \in G <=> c \in F)
      BY <1>1, <3>2
    <3>4. ServerOK(tab, F, w)
      BY DEF Good
    <3>5. QED BY <3>1, <3>3, <3>4, ServerFrame
  <2>4. QED BY <2>1, <2>2, <2>3
<1>5. QED BY <1>1, <1>3, <1>4 DEF Good

\* Sets of slots are finite.
LEMMA SlotsFinite ==
    \A S \in SUBSET Slots : IsFiniteSet(S) /\ Cardinality(S) \in Nat
<1>1. IsFiniteSet(Slots)
  BY PoolAssumption, FS_Interval DEF Slots
<1>2. QED BY <1>1, FS_Subset, FS_CardinalityType

\* A client is no server and knows its own.
LEMMA ClientFacts ==
    ASSUME NEW tab, NEW F, Good(tab, F), NEW v \in Slots, NEW c \in tab[v].clients
    PROVE  /\ c \in Slots \ {v} /\ tab[c].live /\ tab[c].service = v /\ ~tab[c].listening
           /\ tab[v].live /\ tab[v].listening /\ tab[v].service = Null /\ v # Null
<1>1. tab \in Tables /\ OwnedBut(tab, {}) /\ (SocketOK(tab, c) \/ c \notin Slots)
  BY DEF Good
<1>2. c \in Slots
  BY DEF Good, Tables, SlotType
<1>3. v # Null
  BY PoolAssumption DEF Slots, Null
<1>4. /\ tab[v].live /\ tab[v].listening /\ tab[v].service = Null
      /\ tab[c].live /\ tab[c].service = v
  BY <1>1, <1>2 DEF OwnedBut
<1>5. QED BY <1>1, <1>2, <1>3, <1>4 DEF SocketOK

\* A new client of v, in the table new.
LEMMA NewClientFacts ==
    ASSUME NEW tab \in Tables, NEW v \in Slots, NEW new, NEW N, NewClient(tab, new, v, N),
           NEW c \in N
    PROVE  /\ N = {c} /\ c \in Slots \ {v} /\ ~tab[c].live
           /\ new[c].live /\ new[c].service = v /\ ~new[c].listening
           /\ new[c].state = "Listen" /\ new[c].port = tab[v].port
           /\ new[c].sr = "LISTEN" /\ SocketOK(new, c)
<1>1. /\ N = {c} /\ c \in Slots \ {v} /\ ~tab[c].live
      /\ new[c] = Client(v, tab[v].port)
  BY DEF NewClient
<1>2. tab[v].port \in Nat /\ v # Null
  BY PoolAssumption DEF Tables, SlotType, Slots, Null
<1>3. /\ new[c].live /\ new[c].type = "TCP" /\ new[c].service = v
      /\ new[c].port = tab[v].port
      /\ new[c].state = "Listen" /\ new[c].sr = "LISTEN" /\ new[c].ir = {}
      /\ ~new[c].listening
  BY <1>1, <1>2, ClientSlot
<1>4. SocketOK(new, c)
  BY <1>2, <1>3 DEF SocketOK
<1>5. QED BY <1>1, <1>3, <1>4

\* The lists after a connected client has been closed.
ClosedState(tab, new, v, s, N, q) ==
    /\ s \in Slots \ {v} /\ tab[s].live /\ tab[s].service = v
    /\ tab[v].live /\ tab[v].listening /\ tab[v].service = Null /\ v # Null
    /\ new[s] = Zeroed /\ ~Zeroed.live
    /\ \A c \in N : /\ N = {c} /\ c \in Slots \ {v, s} /\ ~tab[c].live
                    /\ new[c].live /\ new[c].service = v /\ ~new[c].listening
                    /\ new[c].state = "Listen" /\ new[c].port = tab[v].port
                    /\ new[c].sr = "LISTEN" /\ SocketOK(new, c)
    /\ new[v].live /\ new[v].listening /\ new[v].backlog = tab[v].backlog + 1
    /\ new[v].clients = (tab[v].clients \ {s}) \cup N
    /\ new[v].queue = q /\ new[v].cap = tab[v].cap /\ new[v].port = tab[v].port
    /\ \A r \in Slots \ ({v} \cup N \cup {s}) : new[r] = tab[r]
    /\ \A c \in tab[v].clients \ {s} : c \in Slots /\ c \notin N /\ new[c] = tab[c]
    /\ s \in Busy(tab, v) /\ s \notin Idle(tab, v)
    /\ Busy(new, v) = Busy(tab, v) \ {s} /\ Idle(new, v) = Idle(tab, v) \cup N

LEMMA UnlinkedLists ==
    ASSUME NEW tab, NEW F, Good(tab, F), NEW s \in F, NEW v \in Slots,
           NEW N, NEW q, NEW new, Unlinked(tab, new, v, s, N, q), s \in tab[v].clients
    PROVE  ClosedState(tab, new, v, s, N, q)
<1> DEFINE X == N \cup {s}
           C == (tab[v].clients \ {s}) \cup N
           b == tab[v].backlog + 1
<1>1. /\ s \in Slots \ {v} /\ tab[s].live /\ tab[s].service = v
      /\ tab[v].live /\ tab[v].listening /\ tab[v].service = Null
      /\ v # Null /\ tab \in Tables
  BY ClientFacts DEF Good
<1>2. Idle(tab, v) \cap F = {}
  BY <1>1 DEF Good, ServerOK
<1>3. /\ NewClient(tab, new, v, N) /\ new[s] = Zeroed
      /\ Serves(tab, new, v, X, b, C, q)
  BY DEF Unlinked
<1>4. ASSUME NEW c \in N
      PROVE  /\ N = {c} /\ c \in Slots \ {v, s} /\ ~tab[c].live
             /\ new[c].live /\ new[c].service = v /\ ~new[c].listening
             /\ new[c].state = "Listen" /\ new[c].port = tab[v].port
             /\ new[c].sr = "LISTEN" /\ SocketOK(new, c)
  BY <1>1, <1>3, NewClientFacts
<1> HIDE DEF X, C, b
<1>5. ~Zeroed.live
  BY DEF Zeroed, PlainSlot
<1>6. /\ new[v].live /\ new[v].listening /\ new[v].backlog = b /\ new[v].clients = C
      /\ new[v].queue = q /\ new[v].cap = tab[v].cap /\ new[v].port = tab[v].port
      /\ \A r \in Slots \ ({v} \cup X) : new[r] = tab[r]
  BY <1>1, <1>3 DEF Serves, IsServer
<1>7. \A c \in tab[v].clients \ {s} : c \in Slots /\ c \notin N /\ new[c] = tab[c]
  <2>1. ASSUME NEW c \in tab[v].clients \ {s}
        PROVE  c \in Slots /\ c \notin N /\ new[c] = tab[c]
    <3>1. c \in Slots \ {v} /\ tab[c].live
      BY ClientFacts
    <3>2. c \notin N
      BY <1>4, <3>1
    <3>3. QED BY <1>6, <3>1, <3>2 DEF X
  <2>2. QED BY <2>1
<1>8. s \in Busy(tab, v) /\ s \notin Idle(tab, v)
  BY <1>2 DEF Idle, Busy
<1>9. Busy(new, v) = Busy(tab, v) \ {s} /\ Idle(new, v) = Idle(tab, v) \cup N
  BY <1>4, <1>6, <1>7, <1>8 DEF Busy, Idle, C
<1>10. QED
  BY <1>1, <1>3, <1>4, <1>5, <1>6, <1>7, <1>8, <1>9 DEF ClosedState, X, C, b

\* Closing a connected client.
LEMMA UnlinkedGood ==
    ASSUME NEW tab, NEW F, Good(tab, F), NEW s \in F, NEW v \in Slots,
           NEW N, NEW q, NEW new, Unlinked(tab, new, v, s, N, q),
           s \in tab[v].clients, OwnedBut(new, {})
    PROVE  Good(new, F \ {s})
<1> DEFINE X == N \cup {s}
           C == (tab[v].clients \ {s}) \cup N
           b == tab[v].backlog + 1
           G == F \ {s}
<1>0. ClosedState(tab, new, v, s, N, q)
  BY UnlinkedLists
<1>1. /\ s \in Slots \ {v} /\ tab[s].live /\ tab[s].service = v
      /\ tab[v].live /\ tab[v].listening /\ tab[v].service = Null
      /\ new[s] = Zeroed /\ ~Zeroed.live
  BY <1>0 DEF ClosedState
<1>2. \A c \in N : /\ N = {c} /\ c \in Slots \ {v, s} /\ ~tab[c].live
                   /\ new[c].live /\ new[c].service = v /\ ~new[c].listening
                   /\ new[c].state = "Listen" /\ new[c].port = tab[v].port
                   /\ SocketOK(new, c)
  BY <1>0 DEF ClosedState
<1>3. /\ new[v].live /\ new[v].listening /\ new[v].backlog = b /\ new[v].clients = C
      /\ new[v].queue = q /\ new[v].cap = tab[v].cap /\ new[v].port = tab[v].port
      /\ \A r \in Slots \ ({v} \cup X) : new[r] = tab[r]
      /\ \A c \in tab[v].clients \ {s} : c \in Slots /\ c \notin N /\ new[c] = tab[c]
  <2>1. {v} \cup X = {v} \cup N \cup {s}
    OBVIOUS
  <2>2. QED BY <1>0, <2>1 DEF ClosedState
<1>4. /\ s \in Busy(tab, v)
      /\ Busy(new, v) = Busy(tab, v) \ {s} /\ Idle(new, v) = Idle(tab, v) \cup N
  BY <1>0 DEF ClosedState
<1>5. /\ tab[v].backlog \in Nat
      /\ tab[v].backlog + Cardinality(Busy(tab, v)) = tab[v].cap
      /\ \A c, d \in Idle(tab, v) : c = d
      /\ Idle(tab, v) # {} => tab[v].backlog > 0
      /\ Idle(tab, v) \cap F = {}
      /\ \A c \in tab[v].clients : tab[c].port = tab[v].port
      /\ QueueOK(tab, F, v)
      /\ tab \in Tables /\ tab[v] \in SlotType
  BY <1>1 DEF Good, ServerOK, Tables
<1>6. /\ N \in SUBSET Slots
      /\ Serves(tab, new, v, X, b, C, q)
      /\ N # {} => tab[v].backlog = 0
      /\ q = tab[v].queue \/ q = Append(tab[v].queue, Null)
  BY DEF Unlinked
<1> HIDE DEF X, C, b
<1>7. SocketOK(new, s)
  BY <1>1 DEF SocketOK
<1>8. Cardinality(Busy(new, v)) = Cardinality(Busy(tab, v)) - 1
      /\ Cardinality(Busy(tab, v)) \in Nat
  <2>1. Busy(tab, v) \in SUBSET Slots
    BY <1>5 DEF Busy, SlotType
  <2>2. QED BY <1>4, <2>1, SlotsFinite, FS_RemoveElement
<1>9. QueueOK(new, G, v)
  <2>1. tab[v].queue \in Seq(Slots \cup {Null})
    BY <1>5 DEF SlotType, Queues
  <2> DEFINE q0 == tab[v].queue
  <2>2. /\ \A i \in 1 .. Len(q0) : q0[i] # Null => q0[i] \in Busy(new, v) \ G
        /\ \A i, j \in 1 .. Len(q0) : q0[i] # Null /\ q0[i] = q0[j] => i = j
    BY <1>4, <1>5 DEF QueueOK
  <2>3. CASE q = q0
    BY <1>3, <2>2, <2>3 DEF QueueOK
  <2>4. CASE q = Append(q0, Null)
    <3>1. /\ Len(q0) \in Nat /\ Len(q) = Len(q0) + 1 /\ q[Len(q0) + 1] = Null
          /\ \A i \in 1 .. Len(q0) : q[i] = q0[i]
      BY <2>1, <2>4
    <3> HIDE DEF q0
    <3>2. \A i \in 1 .. Len(q) : q[i] # Null => i \in 1 .. Len(q0)
      BY <3>1
    <3>3. QED BY <1>3, <2>2, <3>1, <3>2 DEF QueueOK
  <2>5. QED BY <1>6, <2>3, <2>4
<1>10. ServerOK(new, G, v)
  <2>1. b \in Nat /\ b > 0 /\ b + Cardinality(Busy(new, v)) = tab[v].cap
    BY <1>5, <1>8 DEF b
  <2>2. \A c, d \in Idle(new, v) : c = d
    BY <1>2, <1>4, <1>5, <1>6
  <2>3. Idle(new, v) \cap G = {}
    BY <1>2, <1>4, <1>5 DEF Good
  <2>4. \A c \in C : new[c].port = tab[v].port
    BY <1>2, <1>3, <1>5 DEF C
  <2>5. QED BY <1>3, <1>9, <2>1, <2>2, <2>3, <2>4 DEF ServerOK
<1>11. \A x \in X : /\ ~new[x].live \/ ~new[x].listening
                    /\ ~tab[x].live \/ tab[x].service = v
                    /\ SocketOK(new, x)
  BY <1>1, <1>2, <1>7 DEF X
<1>12. X \in SUBSET (Slots \ {v})
  BY <1>1, <1>2 DEF X
<1>13. G \in SUBSET Slots /\ \A g \in G : new[g].live
  <2>1. \A f \in F : f \in Slots /\ tab[f].live
    BY DEF Good
  <2>2. \A g \in G : g \notin N
    BY <1>2, <2>1
  <2>3. QED BY <1>3, <2>1, <2>2 DEF X
<1>14. \A c \in Slots \ X : c \in G <=> c \in F
  BY DEF X
<1>15. QED BY <1>1, <1>6, <1>10, <1>11, <1>12, <1>13, <1>14, ServesGood

\* The table mid, in which the interrupts of the client c have been cleared.
Handled(tab, mid, c) ==
    /\ mid \in Tables
    /\ \A s \in Slots \ {c} : mid[s] = tab[s]
    /\ mid[c].live /\ mid[c].type = tab[c].type /\ mid[c].port = tab[c].port
    /\ mid[c].service = tab[c].service /\ mid[c].listening = tab[c].listening
    /\ mid[c].sr = tab[c].sr /\ mid[c].ir = {}

\* The lists after a connection has been added to its server.
AddedState(tab, new, mid, v, c, N, m) ==
    /\ c \in Slots \ {v} /\ tab[c].live /\ tab[c].service = v
    /\ tab[v].live /\ tab[v].listening /\ tab[v].service = Null /\ v # Null
    /\ mid[v] = tab[v]
    /\ new[c].live /\ new[c].type = "TCP" /\ new[c].service = v
    /\ new[c].port = tab[c].port /\ new[c].state = "Established"
    /\ new[c].sr = tab[c].sr /\ new[c].ir = {} /\ ~new[c].listening
    /\ \A d \in N : /\ N = {d} /\ d \in Slots \ {v, c} /\ ~tab[d].live
                    /\ new[d].live /\ new[d].service = v /\ ~new[d].listening
                    /\ new[d].state = "Listen" /\ new[d].port = tab[v].port
                    /\ new[d].sr = "LISTEN" /\ SocketOK(new, d)
    /\ new[v].live /\ new[v].listening /\ new[v].backlog = tab[v].backlog - 1
    /\ new[v].clients = tab[v].clients \cup N
    /\ new[v].queue = Sent(tab[v], m) /\ new[v].cap = tab[v].cap
    /\ new[v].port = tab[v].port
    /\ Serves(tab, new, v, N \cup {c}, tab[v].backlog - 1, tab[v].clients \cup N,
              Sent(tab[v], m))
    /\ \A r \in Slots \ ({v} \cup N \cup {c}) : new[r] = tab[r]
    /\ \A d \in tab[v].clients \ {c} : d \in Slots /\ d \notin N /\ new[d] = tab[d]
    /\ c \in Idle(tab, v) /\ c \notin Busy(tab, v)
    /\ Busy(new, v) = Busy(tab, v) \cup {c} /\ Idle(new, v) = N

LEMMA AddedLists ==
    ASSUME NEW tab, NEW F, Good(tab, F), NEW v \in Slots,
           NEW c \in tab[v].clients, "CON" \in tab[c].ir,
           NEW mid, Handled(tab, mid, c),
           NEW N, NEW m, NEW new, Added(mid, new, v, c, N, m)
    PROVE  AddedState(tab, new, mid, v, c, N, m)
<1> DEFINE X == N \cup {c}
           C == tab[v].clients \cup N
           b == tab[v].backlog - 1
           q == Sent(tab[v], m)
<1>1. /\ c \in Slots \ {v} /\ tab[c].live /\ tab[c].service = v /\ ~tab[c].listening
      /\ tab[v].live /\ tab[v].listening /\ tab[v].service = Null
      /\ v # Null /\ tab \in Tables /\ mid[v] = tab[v] /\ mid \in Tables
  <2>1. /\ c \in Slots \ {v} /\ tab[c].live /\ tab[c].service = v /\ ~tab[c].listening
        /\ tab[v].live /\ tab[v].listening /\ tab[v].service = Null /\ v # Null
    BY ClientFacts
  <2>2. QED BY <2>1 DEF Good, Handled
<1>2. \A d, e \in Idle(tab, v) : d = e
  BY <1>1 DEF Good, ServerOK
<1>3. /\ NewClient(mid, new, v, N) /\ new[c] = Taken(mid[c])
      /\ Serves(mid, new, v, X, b, C, q)
  BY <1>1 DEF Added
<1> HIDE DEF X, C, b, q
<1>4. c \in Idle(tab, v) /\ tab[c].type = "TCP"
  BY <1>1 DEF Good, SocketOK, Idle
<1>5. /\ new[c].live /\ new[c].type = "TCP" /\ new[c].service = v
      /\ new[c].port = tab[c].port /\ new[c].state = "Established"
      /\ new[c].sr = tab[c].sr /\ new[c].ir = {} /\ ~new[c].listening
  <2>1. mid[c] \in SlotType
    BY <1>1 DEF Tables
  <2>2. QED BY <1>1, <1>3, <1>4, <2>1 DEF Taken, Handled, SlotType
<1>6. ASSUME NEW d \in N
      PROVE  /\ N = {d} /\ d \in Slots \ {v, c} /\ ~tab[d].live
             /\ new[d].live /\ new[d].service = v /\ ~new[d].listening
             /\ new[d].state = "Listen" /\ new[d].port = tab[v].port
             /\ new[d].sr = "LISTEN" /\ SocketOK(new, d)
  BY <1>1, <1>3, NewClientFacts DEF Handled
<1>7. /\ new[v].live /\ new[v].listening /\ new[v].backlog = b /\ new[v].clients = C
      /\ new[v].queue = q /\ new[v].cap = tab[v].cap /\ new[v].port = tab[v].port
      /\ \A r \in Slots \ ({v} \cup X) : new[r] = mid[r]
  BY <1>1, <1>3 DEF Serves, IsServer
<1>8. \A r \in Slots \ ({v} \cup X) : new[r] = tab[r]
  BY <1>7 DEF Handled, X
<1>9. Serves(tab, new, v, X, b, C, q)
  BY <1>1, <1>3, <1>8 DEF Serves
<1>10. \A d \in tab[v].clients \ {c} : d \in Slots /\ d \notin N /\ new[d] = tab[d]
  <2>1. ASSUME NEW d \in tab[v].clients \ {c}
        PROVE  d \in Slots /\ d \notin N /\ new[d] = tab[d]
    <3>1. d \in Slots \ {v} /\ tab[d].live
      BY ClientFacts
    <3>2. d \notin N
      BY <1>6, <3>1
    <3>3. QED BY <1>8, <3>1, <3>2 DEF X
  <2>2. QED BY <2>1
<1>11. Busy(new, v) = Busy(tab, v) \cup {c} /\ c \notin Busy(tab, v)
  BY <1>4, <1>5, <1>6, <1>7, <1>10 DEF Busy, Idle, C
<1>12. Idle(new, v) = N
  <2>1. Idle(tab, v) = {c}
    BY <1>2, <1>4
  <2>2. ASSUME NEW d \in C
        PROVE  new[d].state = "Listen" <=> d \in N
    <3>1. CASE d = c
      BY <1>5, <1>6, <3>1
    <3>2. CASE d \in N
      BY <1>6, <3>2
    <3>3. CASE d # c /\ d \notin N
      BY <1>10, <2>1, <2>2, <3>3 DEF C, Idle
    <3>4. QED BY <3>1, <3>2, <3>3
  <2>3. QED BY <1>7, <2>2 DEF Idle, C
<1>13. \A r \in Slots \ ({v} \cup N \cup {c}) : new[r] = tab[r]
  BY <1>8 DEF X
<1>14. QED
  BY <1>1, <1>4, <1>5, <1>6, <1>7, <1>9, <1>10, <1>11, <1>12, <1>13
  DEF AddedState, X, C, b, q

\* A connection that is added to its server.
LEMMA AddedGood ==
    ASSUME NEW tab, NEW F, Good(tab, F), NEW v \in Slots,
           NEW c \in tab[v].clients, "CON" \in tab[c].ir,
           NEW mid, Handled(tab, mid, c),
           NEW N, NEW m, NEW new, Added(mid, new, v, c, N, m), OwnedBut(new, {})
    PROVE  Good(new, F)
<1> DEFINE X == N \cup {c}
           C == tab[v].clients \cup N
           b == tab[v].backlog - 1
           q == Sent(tab[v], m)
<1>0. AddedState(tab, new, mid, v, c, N, m)
  BY AddedLists
<1>1. /\ c \in Slots \ {v} /\ tab[c].live /\ tab[c].service = v
      /\ tab[v].live /\ tab[v].listening /\ tab[v].service = Null /\ v # Null
      /\ mid[v] = tab[v]
  BY <1>0 DEF AddedState
<1>2. /\ new[c].live /\ new[c].type = "TCP" /\ new[c].service = v
      /\ new[c].port = tab[c].port /\ new[c].state = "Established"
      /\ new[c].sr = tab[c].sr /\ new[c].ir = {} /\ ~new[c].listening
  BY <1>0 DEF AddedState
<1>3. \A d \in N : /\ N = {d} /\ d \in Slots \ {v, c} /\ ~tab[d].live
                   /\ new[d].live /\ new[d].service = v /\ ~new[d].listening
                   /\ new[d].state = "Listen" /\ new[d].port = tab[v].port
                   /\ SocketOK(new, d)
  BY <1>0 DEF AddedState
<1>4. /\ new[v].live /\ new[v].listening /\ new[v].backlog = b /\ new[v].clients = C
      /\ new[v].queue = q /\ new[v].cap = tab[v].cap /\ new[v].port = tab[v].port
      /\ Serves(tab, new, v, X, b, C, q)
      /\ \A d \in tab[v].clients \ {c} : d \in Slots /\ d \notin N /\ new[d] = tab[d]
  BY <1>0 DEF AddedState
<1>5. \A r \in Slots \ ({v} \cup X) : new[r] = tab[r]
  BY <1>4 DEF Serves
<1>6. /\ c \in Idle(tab, v) /\ c \notin Busy(tab, v)
      /\ Busy(new, v) = Busy(tab, v) \cup {c} /\ Idle(new, v) = N
  BY <1>0 DEF AddedState
<1>7. /\ tab[v].backlog \in Nat
      /\ tab[v].backlog + Cardinality(Busy(tab, v)) = tab[v].cap
      /\ Idle(tab, v) # {} => tab[v].backlog > 0
      /\ Idle(tab, v) \cap F = {}
      /\ \A d \in tab[v].clients : tab[d].port = tab[v].port
      /\ QueueOK(tab, F, v)
      /\ tab \in Tables /\ tab[v] \in SlotType
  BY <1>1 DEF Good, ServerOK, Tables
<1>8. /\ N \in SUBSET Slots /\ m \in {Null, c}
      /\ N # {} => tab[v].backlog > 1
  BY <1>1 DEF Added
<1> HIDE DEF X, C, b, q
<1>9. SocketOK(new, c)
  <2>1. tab[c].sr # "LISTEN"
    BY <1>1 DEF Good, SocketOK
  <2>2. QED BY <1>1, <1>2, <2>1 DEF SocketOK
<1>10. Cardinality(Busy(new, v)) = Cardinality(Busy(tab, v)) + 1
       /\ Cardinality(Busy(tab, v)) \in Nat
  <2>1. Busy(tab, v) \in SUBSET Slots
    BY <1>7 DEF Busy, SlotType
  <2>2. QED BY <1>6, <2>1, SlotsFinite, FS_AddElement
<1>11. c \notin F /\ \A d \in N : d \notin F
  BY <1>3, <1>6, <1>7 DEF Good
<1>12. QueueOK(new, F, v)
  <2> DEFINE q0 == tab[v].queue
  <2>1. q0 \in Seq(Slots \cup {Null})
    BY <1>7 DEF SlotType, Queues
  <2>2. /\ \A i \in 1 .. Len(q0) : q0[i] # Null => q0[i] \in Busy(tab, v) \ F
        /\ \A i, j \in 1 .. Len(q0) : q0[i] # Null /\ q0[i] = q0[j] => i = j
    BY <1>7 DEF QueueOK
  <2>3. \A i \in 1 .. Len(q0) : q0[i] # c
    BY <1>1, <1>6, <2>2, PoolAssumption DEF Slots, Null
  <2>4. CASE q = q0
    BY <1>4, <1>6, <2>2, <2>4 DEF QueueOK
  <2>5. CASE q = Append(q0, m)
    <3>1. /\ Len(q0) \in Nat /\ Len(q) = Len(q0) + 1 /\ q[Len(q0) + 1] = m
          /\ \A i \in 1 .. Len(q0) : q[i] = q0[i]
      BY <1>1, <1>8, <2>1, <2>5
    <3> HIDE DEF q0
    <3>2. \A i \in 1 .. Len(q) : i \in 1 .. Len(q0) \/ i = Len(q0) + 1
      BY <3>1
    <3>3. \A i \in 1 .. Len(q) : q[i] # Null => q[i] \in Busy(new, v) \ F
      BY <1>6, <1>8, <1>11, <2>2, <3>1, <3>2
    <3>4. \A i, j \in 1 .. Len(q) : q[i] # Null /\ q[i] = q[j] => i = j
      BY <1>8, <2>2, <2>3, <3>1, <3>2
    <3>5. QED BY <1>4, <3>3, <3>4 DEF QueueOK
  <2>6. QED BY <2>4, <2>5 DEF q, Sent
<1>13. ServerOK(new, F, v)
  <2>1. b \in Nat /\ (N # {} => b > 0) /\ b + Cardinality(Busy(new, v)) = tab[v].cap
    BY <1>6, <1>7, <1>8, <1>10 DEF b
  <2>2. \A d, e \in Idle(new, v) : d = e
    BY <1>3, <1>6
  <2>3. Idle(new, v) \cap F = {}
    BY <1>6, <1>11
  <2>4. \A d \in C : new[d].port = tab[v].port
    BY <1>2, <1>3, <1>4, <1>7 DEF C
  <2>5. QED BY <1>4, <1>6, <1>12, <2>1, <2>2, <2>3, <2>4 DEF ServerOK
<1>14. \A x \in X : /\ ~new[x].live \/ ~new[x].listening
                    /\ ~tab[x].live \/ tab[x].service = v
                    /\ SocketOK(new, x)
  BY <1>1, <1>2, <1>3, <1>9 DEF X
<1>15. X \in SUBSET (Slots \ {v})
  BY <1>1, <1>3 DEF X
<1>16. F \in SUBSET Slots /\ \A f \in F : new[f].live
  <2>1. \A f \in F : f \in Slots /\ tab[f].live
    BY DEF Good
  <2>2. QED BY <1>4, <1>5, <1>11, <2>1 DEF X
<1>17. QED BY <1>1, <1>4, <1>13, <1>14, <1>15, <1>16, ServesGood

\* A step that changes one slot s, which is no listening socket in the end or
\* keeps its accounts.
LEMMA ChangeGood ==
    ASSUME NEW tab, NEW F, Good(tab, F), NEW s \in Slots,
           NEW new \in Tables, OwnedBut(new, {}),
           \A r \in Slots \ {s} : new[r] = tab[r],
           NEW G \in SUBSET Slots, \A g \in G : new[g].live,
           \A c \in Slots \ {s} : c \in G <=> c \in F,
           tab[s].live /\ tab[s].service # Null =>
             /\ new[s].port = tab[s].port
             /\ new[s].state = "Listen" <=> tab[s].state = "Listen"
             /\ s \in G <=> s \in F,
           SocketOK(new, s), ServerOK(new, G, s)
    PROVE  Good(new, G)
<1>1. tab \in Tables /\ OwnedBut(tab, {})
  BY DEF Good
<1>2. \A r \in Slots : SocketOK(new, r)
  <2>1. ASSUME NEW r \in Slots \ {s}
        PROVE  SocketOK(new, r)
    BY <2>1 DEF Good, SocketOK
  <2>2. QED BY <2>1
<1>3. ASSUME NEW w \in Slots \ {s}
      PROVE  ServerOK(new, G, w)
  <2>1. ServerOK(tab, F, w) /\ new[w] = tab[w]
    BY DEF Good
  <2>2. ASSUME NEW c \in tab[w].clients
        PROVE  /\ new[c].state = "Listen" <=> tab[c].state = "Listen"
               /\ new[c].port = tab[c].port
               /\ c \in G <=> c \in F
    <3>1. c \in Slots /\ tab[c].live /\ tab[c].service = w /\ w # Null
      BY ClientFacts
    <3>2. QED BY <3>1
  <2>3. QED BY <2>1, <2>2, ServerFrame
<1>4. QED BY <1>2, <1>3 DEF Good

\* What the application's descriptors rely on: the sockets outside D stay open,
\* on the same kind of socket, of the same server.
KeptBut(tab, new, D) ==
    \A f \in Slots \ D : tab[f].live =>
      /\ new[f].live
      /\ new[f].type = tab[f].type
      /\ new[f].service = tab[f].service

LEMMA ServesKept ==
    ASSUME NEW tab, NEW v \in Slots, NEW new, NEW X, NEW b, NEW C, NEW q,
           Serves(tab, new, v, X, b, C, q), NEW D,
           \A x \in X \ D : tab[x].live =>
             new[x].live /\ new[x].type = tab[x].type /\ new[x].service = tab[x].service
    PROVE  KeptBut(tab, new, D)
  BY DEF Serves, IsServer, KeptBut

\* A listening socket that is closed with its clients.
LEMMA ServiceClosedGood ==
    ASSUME NEW tab, NEW F, Good(tab, F), NEW v \in Slots, tab[v].live, tab[v].listening,
           tab[v].service = Null, NEW o \in ServiceDestory(tab, v)
    PROVE  /\ o.fault = "none"
           /\ Good(o.tab, F \ ({v} \cup tab[v].clients))
           /\ KeptBut(tab, o.tab, {v} \cup tab[v].clients)
<1> DEFINE gone == {v} \cup tab[v].clients
           G    == F \ gone
           new  == [s \in Slots |-> IF s = v \/ s \in tab[v].clients THEN Zeroed ELSE tab[s]]
<1>1. tab \in Tables /\ OwnedBut(tab, {}) /\ F \subseteq Slots
  BY DEF Good
<1>2. \A c \in tab[v].clients : tab[c].port = tab[v].port
  BY DEF Good, ServerOK
<1>3. o = Done(new, Null)
  BY <1>2 DEF ServiceDestory
<1>4. Keeps(tab, {}, o)
  BY <1>1, ServiceDestoryKeeps
<1>5. o.fault = "none" /\ o.tab = new
  BY <1>3 DEF Done
<1>6. new \in Tables /\ OwnedBut(new, {})
  BY <1>4, <1>5 DEF Keeps, Outcomes
<1>7. /\ \A s \in Slots : s \in gone => new[s] = Zeroed
      /\ \A s \in Slots : s \notin gone => new[s] = tab[s]
  OBVIOUS
<1>8. ~Zeroed.live
  BY DEF Zeroed, PlainSlot
<1> HIDE DEF new
<1>9. \A s \in Slots : SocketOK(new, s)
  <2>1. ASSUME NEW s \in Slots
        PROVE  SocketOK(new, s)
    <3>1. CASE s \in gone
      BY <1>7, <1>8, <3>1 DEF SocketOK
    <3>2. CASE s \notin gone
      BY <1>7, <3>2 DEF Good, SocketOK
    <3>3. QED BY <3>1, <3>2
  <2>2. QED BY <2>1
<1>10. ASSUME NEW w \in Slots
       PROVE  ServerOK(new, G, w)
  <2>1. CASE w \in gone
    BY <1>7, <1>8, <2>1 DEF ServerOK
  <2>2. CASE w \notin gone
    <3>1. ServerOK(tab, F, w) /\ new[w] = tab[w]
      BY <1>7, <2>2 DEF Good
    <3>2. ASSUME NEW c \in tab[w].clients
          PROVE  c \in Slots \ gone
      <4>1. c \in Slots /\ tab[c].service = w /\ w # Null
        BY ClientFacts
      <4>2. c \in tab[v].clients => tab[c].service = v
        BY ClientFacts
      <4>3. QED BY <2>2, <4>1, <4>2
    <3>3. \A c \in tab[w].clients : new[c] = tab[c] /\ (c \in G <=> c \in F)
      BY <1>7, <3>2
    <3>4. QED BY <3>1, <3>3, ServerFrame
  <2>3. QED BY <2>1, <2>2
<1>11. G \subseteq Slots /\ \A g \in G : new[g].live
  BY <1>1, <1>7 DEF Good
<1>12. Good(new, G)
  BY <1>6, <1>9, <1>10, <1>11 DEF Good
<1>13. KeptBut(tab, new, gone)
  BY <1>7 DEF KeptBut
<1>14. QED BY <1>5, <1>12, <1>13

\* wiz_closesocket on a socket the application holds: the descriptors of the
\* clients of a listening socket go with it.
LEMMA CloseSocketGood ==
    ASSUME Tame, NEW tab, NEW F, Good(tab, F), NEW s \in F, NEW o \in CloseSocket(tab, s),
           o.fault # "nullSocket"
    PROVE  /\ o.fault = "none"
           /\ Good(o.tab, F \ ({s} \cup tab[s].clients))
           /\ KeptBut(tab, o.tab, {s} \cup tab[s].clients)
<1>1. /\ s \in Slots /\ tab[s].live /\ tab \in Tables /\ OwnedBut(tab, {})
      /\ F \subseteq Slots /\ \A f \in F : tab[f].live
  BY DEF Good
<1>2. "mallocFails" \notin Env
  BY DEF Tame
<1>3. o.fault = "none" => o.tab \in Tables /\ OwnedBut(o.tab, {})
  BY <1>1, <1>2, CloseSocketKeeps DEF Keeps, Outcomes
<1>4. CASE tab[s].service # Null
  <2> DEFINE v == tab[s].service
  <2>1. v \in Slots /\ s \in tab[v].clients /\ tab[s].clients = {}
    BY <1>1, <1>4, ListsOfOthers DEF OwnedBut
  <2>2. o.fault = "none" /\ \E N, q : Unlinked(tab, o.tab, v, s, N, q)
    BY <1>1, <1>4, CloseClientEffect
  <2>3. PICK N, q : Unlinked(tab, o.tab, v, s, N, q)
    BY <2>2
  <2> HIDE DEF v
  <2>4. Good(o.tab, F \ {s})
    BY <1>3, <2>1, <2>2, <2>3, UnlinkedGood
  <2>5. KeptBut(tab, o.tab, {s})
    <3>1. \A x \in (N \cup {s}) \ {s} : ~tab[x].live
      BY <2>3 DEF Unlinked, NewClient
    <3>2. \E b, C : Serves(tab, o.tab, v, N \cup {s}, b, C, q)
      BY <2>3 DEF Unlinked
    <3>3. QED BY <2>1, <3>1, <3>2, ServesKept
  <2>6. {s} \cup tab[s].clients = {s}
    BY <2>1
  <2>7. QED BY <2>2, <2>4, <2>5, <2>6
<1>5. CASE tab[s].service = Null /\ tab[s].listening
  <2>1. o \in ServiceDestory(tab, s)
    BY <1>1, <1>5 DEF CloseSocket
  <2>2. QED BY <1>1, <1>5, <2>1, ServiceClosedGood
<1>6. CASE tab[s].service = Null /\ ~tab[s].listening
  <2> DEFINE new == [tab EXCEPT ![s] = Zeroed]
  <2>1. o.fault = "none" /\ o.tab = new
    BY <1>1, <1>6 DEF CloseSocket, Done
  <2>2. /\ new \in Tables /\ new[s] = Zeroed /\ ~Zeroed.live
        /\ \A r \in Slots \ {s} : new[r] = tab[r]
    BY <1>1, SlotTypes DEF Tables, Zeroed, PlainSlot
  <2> HIDE DEF new
  <2>3. OwnedBut(new, {}) /\ tab[s].clients = {}
    BY <1>1, <1>3, <1>6, <2>1, ListsOfOthers
  <2>4. SocketOK(new, s) /\ ServerOK(new, F \ {s}, s)
    BY <2>2 DEF SocketOK, ServerOK
  <2>5. /\ F \ {s} \in SUBSET Slots /\ \A g \in F \ {s} : new[g].live
        /\ \A c \in Slots \ {s} : c \in F \ {s} <=> c \in F
    BY <1>1, <2>2
  <2>6. Good(new, F \ {s})
    BY <1>1, <1>6, <2>2, <2>3, <2>4, <2>5, ChangeGood
  <2>7. KeptBut(tab, new, {s})
    BY <2>2 DEF KeptBut
  <2>8. {s} \cup tab[s].clients = {s}
    BY <2>3
  <2>9. QED BY <2>1, <2>6, <2>7, <2>8
<1>7. QED BY <1>4, <1>5, <1>6

\* A server without a waiting client gets one.
LEMMA CreatedGood ==
    ASSUME NEW tab, NEW F, Good(tab, F), NEW v \in Slots, tab[v].live, tab[v].listening,
           tab[v].service = Null, tab[v].backlog > 0, Idle(tab, v) = {},
           NEW new, NEW c, Created(tab, new, v, c), OwnedBut(new, {})
    PROVE  Good(new, F) /\ KeptBut(tab, new, {})
<1> DEFINE b  == tab[v].backlog
           C  == tab[v].clients \cup {c}
           q0 == tab[v].queue
<1>1. /\ tab \in Tables /\ tab[v] \in SlotType /\ v # Null
      /\ F \subseteq Slots /\ \A f \in F : tab[f].live
  BY PoolAssumption DEF Good, Tables, Slots, Null
<1>2. /\ b \in Int /\ tab[v].clients \in SUBSET Slots /\ q0 \in Queues
      /\ IsServer(tab[v], tab[v], b, tab[v].clients, q0)
  BY <1>1 DEF SlotType, IsServer
<1>3. /\ c \in Slots \ {v} /\ ~tab[c].live /\ new \in Tables
      /\ new[v] = WithClients(tab[v], C)
      /\ \A s \in Slots \ {c, v} : new[s] = tab[s]
      /\ NewClient(tab, new, v, {c})
  BY DEF Created, NewClient
<1>4. C \in SUBSET Slots
  BY <1>2, <1>3
<1> HIDE DEF C, b, q0
<1>5. IsServer(new[v], tab[v], b, C, q0)
  BY <1>1, <1>2, <1>3, <1>4, ServerSteps
<1>6. Serves(tab, new, v, {c}, b, C, q0)
  BY <1>3, <1>5 DEF Serves
<1>7. /\ new[c].live /\ new[c].service = v /\ ~new[c].listening
      /\ new[c].state = "Listen" /\ new[c].port = tab[v].port /\ SocketOK(new, c)
  BY <1>1, <1>3, NewClientFacts
<1>8. \A d \in tab[v].clients : d \in Slots /\ d # c /\ new[d] = tab[d]
  <2>1. ASSUME NEW d \in tab[v].clients
        PROVE  d \in Slots \ {v} /\ tab[d].live
    BY ClientFacts
  <2>2. QED BY <1>3, <2>1
<1>9. /\ new[v].live /\ new[v].listening /\ new[v].backlog = b /\ new[v].clients = C
      /\ new[v].queue = q0 /\ new[v].cap = tab[v].cap /\ new[v].port = tab[v].port
  BY <1>5 DEF IsServer
<1>10. Busy(new, v) = Busy(tab, v) /\ Idle(new, v) = {c}
  BY <1>7, <1>8, <1>9 DEF Busy, Idle, C
<1>11. ServerOK(new, F, v)
  <2>1. /\ b \in Nat /\ b + Cardinality(Busy(tab, v)) = tab[v].cap
        /\ \A d \in tab[v].clients : tab[d].port = tab[v].port
        /\ QueueOK(tab, F, v)
    BY DEF Good, ServerOK, b
  <2>2. b > 0
    BY DEF b
  <2>3. QueueOK(new, F, v)
    BY <1>9, <1>10, <2>1 DEF QueueOK, q0
  <2>4. \A d \in C : new[d].port = tab[v].port
    BY <1>7, <1>8, <2>1 DEF C
  <2>5. c \notin F
    BY <1>1, <1>3
  <2>6. QED BY <1>9, <1>10, <2>1, <2>2, <2>3, <2>4, <2>5 DEF ServerOK
<1>12. \A f \in F : new[f].live
  BY <1>1, <1>3, <1>9
<1>13. Good(new, F)
  BY <1>1, <1>3, <1>6, <1>7, <1>11, <1>12, ServesGood
<1>14. KeptBut(tab, new, {})
  BY <1>3, <1>6, ServesKept
<1>15. QED BY <1>13, <1>14

\* accept() takes the head of the queue: a connection becomes a descriptor.
LEMMA PopGood ==
    ASSUME NEW tab, NEW F, Good(tab, F), NEW v \in Slots, tab[v].live, tab[v].listening,
           tab[v].queue # <<>>
    PROVE  LET c      == Head(tab[v].queue)
               popped == [tab EXCEPT ![v].queue = Tail(@)]
           IN  /\ Good(popped, IF c = Null THEN F ELSE F \cup {c})
               /\ KeptBut(tab, popped, {})
               /\ c # Null => /\ c \in tab[v].clients \ F /\ c \in Slots \ {v}
                             /\ popped[c] = tab[c] /\ tab[c].service = v
<1> DEFINE q0     == tab[v].queue
           q      == Tail(q0)
           c      == Head(q0)
           b      == tab[v].backlog
           C      == tab[v].clients
           popped == [tab EXCEPT ![v].queue = Tail(@)]
           G      == IF c = Null THEN F ELSE F \cup {c}
           X      == {c} \ {Null}
<1>1. /\ tab \in Tables /\ tab[v] \in SlotType /\ v # Null
      /\ F \subseteq Slots /\ \A f \in F : tab[f].live
      /\ OwnedBut(tab, {})
  BY PoolAssumption DEF Good, Tables, Slots, Null
<1>2. /\ b \in Int /\ C \in SUBSET Slots /\ q0 \in Queues /\ q \in Queues
      /\ c \in Slots \cup {Null}
      /\ Len(q0) \in Nat \ {0} /\ Len(q) = Len(q0) - 1 /\ q0[1] = c
      /\ \A i \in 1 .. Len(q) : q[i] = q0[i + 1] /\ i + 1 \in 2 .. Len(q0)
  BY <1>1 DEF SlotType, Queues
<1>3. /\ b \in Nat
      /\ b + Cardinality(Busy(tab, v)) = tab[v].cap
      /\ \A d, e \in Idle(tab, v) : d = e
      /\ Idle(tab, v) # {} => b > 0
      /\ Idle(tab, v) \cap F = {}
      /\ \A d \in C : tab[d].port = tab[v].port
      /\ QueueOK(tab, F, v)
  BY DEF Good, ServerOK
<1>4. popped \in Tables /\ OwnedBut(popped, {})
  BY <1>1, PopKeeps
<1>5. popped[v] = WithQueue(tab[v], q) /\ \A s \in Slots \ {v} : popped[s] = tab[s]
  BY <1>1 DEF Tables, WithQueue
<1> HIDE DEF popped, q, c, b, C
<1>6. IsServer(popped[v], tab[v], b, C, q)
  <2>1. IsServer(tab[v], tab[v], b, C, q0)
    BY <1>1 DEF IsServer, b, C
  <2>2. b \in Int /\ C \in SUBSET Slots /\ q0 \in Queues /\ q \in Queues
    BY <1>2
  <2> HIDE DEF q0
  <2>3. IsServer(WithQueue(tab[v], q), tab[v], b, C, q)
    BY <1>1, <2>1, <2>2, ServerSteps
  <2>4. QED BY <1>5, <2>3
<1>7. /\ popped[v].live /\ popped[v].listening /\ popped[v].backlog = b
      /\ popped[v].clients = C /\ popped[v].queue = q
      /\ popped[v].cap = tab[v].cap /\ popped[v].port = tab[v].port
  BY <1>6 DEF IsServer
<1>8. \A d \in C : d \in Slots \ {v} /\ popped[d] = tab[d]
  <2>1. ASSUME NEW d \in tab[v].clients
        PROVE  d \in Slots \ {v}
    BY ClientFacts
  <2>2. QED BY <1>5, <2>1 DEF C
<1>9. Busy(popped, v) = Busy(tab, v) /\ Idle(popped, v) = Idle(tab, v)
  BY <1>7, <1>8 DEF Busy, Idle, C
<1>10. /\ \A i \in 1 .. Len(q0) : q0[i] # Null => q0[i] \in Busy(tab, v) \ F
       /\ \A i, j \in 1 .. Len(q0) : q0[i] # Null /\ q0[i] = q0[j] => i = j
  BY <1>3 DEF QueueOK
<1> HIDE DEF q0
<1>11. c # Null => c \in Busy(tab, v) \ F
  BY <1>2, <1>10
<1>12. \A i \in 1 .. Len(q) : q[i] # Null => q[i] # c
  <2>1. ASSUME NEW i \in 1 .. Len(q), q[i] # Null, q[i] = c
        PROVE  FALSE
    <3>1. q0[i + 1] = q0[1] /\ q0[i + 1] # Null /\ i + 1 \in 2 .. Len(q0)
      BY <1>2, <2>1
    <3>2. 1 \in 1 .. Len(q0) /\ i + 1 \in 1 .. Len(q0) /\ i + 1 # 1
      BY <1>2, <3>1
    <3>3. QED BY <1>10, <3>1, <3>2
  <2>2. QED BY <2>1
<1>13. QueueOK(popped, G, v)
  <2>1. \A i \in 1 .. Len(q) : q[i] # Null => q[i] \in Busy(popped, v) \ G
    <3>1. ASSUME NEW i \in 1 .. Len(q), q[i] # Null
          PROVE  q[i] \in Busy(popped, v) \ G
      <4>1. i + 1 \in 1 .. Len(q0) /\ q[i] = q0[i + 1]
        BY <1>2
      <4>2. q[i] \in Busy(tab, v) \ F
        BY <1>10, <3>1, <4>1
      <4>3. QED BY <1>9, <1>12, <3>1, <4>2
    <3>2. QED BY <3>1
  <2>2. \A i, j \in 1 .. Len(q) : q[i] # Null /\ q[i] = q[j] => i = j
    <3>1. ASSUME NEW i \in 1 .. Len(q), NEW j \in 1 .. Len(q), q[i] # Null, q[i] = q[j]
          PROVE  i = j
      <4>1. /\ i + 1 \in 1 .. Len(q0) /\ q[i] = q0[i + 1]
            /\ j + 1 \in 1 .. Len(q0) /\ q[j] = q0[j + 1]
        BY <1>2
      <4>2. i + 1 = j + 1
        BY <1>10, <3>1, <4>1
      <4>3. QED BY <4>2
    <3>2. QED BY <3>1
  <2>3. QED BY <1>7, <2>1, <2>2 DEF QueueOK
<1>14. ServerOK(popped, G, v)
  <2>1. Idle(popped, v) \cap G = {}
    BY <1>3, <1>9, <1>11 DEF Busy, Idle
  <2>2. \A d \in C : popped[d].port = tab[v].port
    BY <1>3, <1>8
  <2>3. QED BY <1>3, <1>7, <1>9, <1>13, <2>1, <2>2 DEF ServerOK
<1>15. c # Null => /\ c \in tab[v].clients \ F /\ c \in Slots \ {v} /\ tab[c].live
                  /\ popped[c] = tab[c] /\ tab[c].service = v /\ ~tab[c].listening
  <2>1. c # Null => c \in tab[v].clients \ F
    BY <1>11 DEF Busy
  <2>2. QED BY <1>8, <2>1, ClientFacts DEF C
<1>16. Serves(tab, popped, v, X, b, C, q) /\ tab[v].service = Null
  <2>1. tab[v].service = Null
    BY DEF Good, SocketOK
  <2>2. QED BY <1>4, <1>5, <1>6, <2>1 DEF Serves
<1>17. /\ X \in SUBSET (Slots \ {v})
       /\ \A x \in X : /\ ~popped[x].listening /\ tab[x].service = v
                       /\ popped[x] = tab[x] /\ SocketOK(popped, x)
  <2>1. \A x \in Slots : popped[x] = tab[x] => SocketOK(popped, x)
    BY DEF Good, SocketOK
  <2>2. QED BY <1>15, <2>1
<1>18. G \in SUBSET Slots /\ \A g \in G : popped[g].live
  BY <1>1, <1>5, <1>7, <1>15
<1>19. \A d \in Slots \ X : d \in G <=> d \in F
  BY <1>1, PoolAssumption DEF Slots, Null
<1> HIDE DEF X, G
<1>20. Good(popped, G)
  BY <1>1, <1>4, <1>14, <1>16, <1>17, <1>18, <1>19, ServesGood
<1>21. KeptBut(tab, popped, {})
  BY <1>16, <1>17, ServesKept
<1>22. QED BY <1>15, <1>20, <1>21 DEF popped, G, c, q0

\* The port and the states of a socket that does not listen are assigned.
LEMMA AssignGood ==
    ASSUME NEW tab, NEW F, Good(tab, F), NEW s \in Slots, tab[s].live, ~tab[s].listening,
           NEW port \in Nat, NEW st \in SocketStates, NEW sr \in ChipStates,
           NEW ir \in SUBSET Interrupts,
           tab[s].service = Null =>
             /\ st \in {"Init", "Listen"} => ir = {} /\ sr \in {"INIT", "CLOSED"}
             /\ sr # "LISTEN",
           tab[s].service # Null =>
             /\ port = tab[s].port /\ (st = "Listen" <=> tab[s].state = "Listen")
             /\ st = "Listen" => \/ "CON" \in ir /\ sr # "LISTEN"
                                 \/ ir = {} /\ sr \in {"LISTEN", "CLOSED"}
             /\ st # "Listen" => "CON" \notin ir /\ sr # "LISTEN"
    PROVE  LET new == [tab EXCEPT ![s] = Assigned(tab[s], port, st, sr, ir)]
           IN  Good(new, F) /\ KeptBut(tab, new, {})
<1> DEFINE n   == Assigned(tab[s], port, st, sr, ir)
           new == [tab EXCEPT ![s] = n]
<1>1. /\ tab \in Tables /\ OwnedBut(tab, {}) /\ F \in SUBSET Slots
      /\ \A f \in F : tab[f].live
      /\ tab[s] \in SlotType /\ SocketOK(tab, s)
  BY DEF Good, Tables
<1>2. /\ n.live = tab[s].live /\ n.type = tab[s].type /\ n.service = tab[s].service
      /\ n.listening = tab[s].listening
      /\ n.port = port /\ n.state = st /\ n.sr = sr /\ n.ir = ir
  BY <1>1 DEF Assigned, SlotType
<1> HIDE DEF n
<1>3. new \in Tables /\ OwnedBut(new, {})
  BY <1>1, AssignmentKeeps DEF n
<1>4. new[s] = n /\ \A r \in Slots \ {s} : new[r] = tab[r]
  BY <1>1 DEF Tables
<1> HIDE DEF new
<1>5. SocketOK(new, s) /\ ServerOK(new, F, s)
  BY <1>1, <1>2, <1>4 DEF SocketOK, ServerOK
<1>6. \A f \in F : new[f].live
  BY <1>1, <1>2, <1>4
<1>7. Good(new, F)
  BY <1>1, <1>2, <1>3, <1>4, <1>5, <1>6, ChangeGood
<1>8. KeptBut(tab, new, {})
  BY <1>2, <1>4 DEF KeptBut
<1>9. QED BY <1>7, <1>8 DEF new, n

-----------------------------------------------------------------------------
(* The steps                                                               *)

\* The program has not stopped and the table is good; without "reconfigure" the
\* W5500 task never closes all sockets.
ServiceInv == fault = "none" /\ sweep = MaxSock /\ Good(slot, fds)

\* The body of DescriptorsKept.
Kept == \A f \in fds \cap fds' : slot[f].live =>
          /\ slot'[f].live
          /\ slot'[f].type = slot[f].type
          /\ slot'[f].service = slot[f].service

LEMMA KeptStep ==
    ASSUME Good(slot, fds), NEW D, KeptBut(slot, slot', D), D \cap fds' = {}
    PROVE  Kept
  BY DEF KeptBut, Kept, Good

\* socket()
LEMMA SocketStep ==
    ASSUME Tame, ServiceInv, NEW type \in {"TCP", "UDP"}, Socket(type),
           fault' # "nullSocket"
    PROVE  ServiceInv' /\ Kept
<1>1. type = "TCP" /\ "TCP" \in Types /\ AnyPort \in Nat
  BY PoolAssumption DEF Tame, Socket, Types
<1>2. PICK o \in SocketCreate(slot, "TCP", AnyPort) :
        /\ Finish(o)
        /\ fds' = IF o.res = Null THEN fds ELSE fds \cup {o.res}
  BY <1>1 DEF Socket
<1>3. /\ Good(slot, fds) /\ slot \in Tables /\ OwnedBut(slot, {}) /\ fds \in SUBSET Slots
      /\ \A f \in fds : slot[f].live
  BY DEF ServiceInv, Good
<1>4. sweep' = sweep /\ sweep = MaxSock
  BY DEF Socket, ServiceInv
<1>5. CASE o = Done(slot, Null)
  <2>1. slot' = slot /\ fault' = "none" /\ fds' = fds
    BY <1>2, <1>5 DEF Finish, Done
  <2>2. QED BY <1>3, <1>4, <2>1 DEF ServiceInv, Kept
<1>6. ASSUME NEW s \in Slots, ~slot[s].live,
             o = Done([slot EXCEPT ![s] = Fresh("TCP", AnyPort)], s)
      PROVE  ServiceInv' /\ Kept
  <2> DEFINE r == Fresh("TCP", AnyPort)
  <2>1. s # Null
    BY PoolAssumption DEF Slots, Null
  <2>2. slot' = [slot EXCEPT ![s] = r] /\ fault' = "none" /\ fds' = fds \cup {s}
    BY <1>2, <1>6, <2>1 DEF Finish, Done
  <2>3. /\ r.live /\ r.type = "TCP" /\ r.service = Null /\ ~r.listening /\ r.clients = {}
        /\ r.state = "Init" /\ r.ir = {} /\ r.sr = "INIT"
    BY DEF Fresh, PlainSlot
  <2>4. r \in SlotType
    BY <1>1, SlotTypes
  <2> HIDE DEF r
  <2>5. slot[s].clients = {} /\ \A v \in Slots : s \notin slot[v].clients
    BY <1>3, <1>6, ListsOfOthers
  <2>6. slot' \in Tables /\ OwnedBut(slot', {} \ {s})
    BY <1>3, <2>2, <2>3, <2>4, <2>5, RefillKeepsOwned
  <2>7. {} \ {s} = {}
    OBVIOUS
  <2>8. slot'[s] = r /\ \A q \in Slots \ {s} : slot'[q] = slot[q]
    BY <1>3, <2>2 DEF Tables
  <2>9. SocketOK(slot', s) /\ ServerOK(slot', fds', s)
    BY <2>3, <2>8 DEF SocketOK, ServerOK
  <2>10. /\ fds' \in SUBSET Slots /\ \A g \in fds' : slot'[g].live
         /\ \A c \in Slots \ {s} : c \in fds' <=> c \in fds
    BY <1>3, <2>2, <2>3, <2>8
  <2>11. OwnedBut(slot', {})
    BY <2>6, <2>7
  <2>12. Good(slot', fds')
    BY <1>3, <1>6, <2>6, <2>8, <2>9, <2>10, <2>11, ChangeGood
  <2>13. Kept
    BY <1>6, <2>8 DEF Kept, ServiceInv, Good
  <2>14. QED BY <1>4, <2>2, <2>12, <2>13 DEF ServiceInv
<1>7. \/ o = Done(slot, Null)
      \/ \E s \in Slots : ~slot[s].live /\ o = Done([slot EXCEPT ![s] = Fresh("TCP", AnyPort)], s)
  <2>1. CASE Free(slot) = {}
    <3>1. o = Stop(slot, "nullSocket") \/ o = Done(slot, Null)
      BY <1>2, <2>1 DEF SocketCreate
    <3>2. QED BY <1>2, <3>1 DEF Stop, Finish
  <2>2. CASE Free(slot) # {}
    <3> DEFINE s == FirstFree(slot)
    <3>1. s \in Slots /\ ~slot[s].live
      BY <2>2, FirstFreeIsFree DEF Free
    <3>2. \/ o = Done([slot EXCEPT ![s] = Fresh("TCP", AnyPort)], s)
          \/ o = Done([slot EXCEPT ![s] = Zeroed], Null)
      BY <1>2, <2>2 DEF SocketCreate
    <3> HIDE DEF s
    <3>3. [slot EXCEPT ![s] = Zeroed] = slot
      BY <1>3, <3>1 DEF Good, SocketOK, Tables
    <3>4. QED BY <3>1, <3>2, <3>3
  <2>3. QED BY <2>1, <2>2
<1>8. QED BY <1>5, <1>6, <1>7

\* bind(), connect() and the steps of the chip.
LEMMA AssignStep ==
    ASSUME ServiceInv, NEW s \in Slots, slot[s].live, ~slot[s].listening,
           NEW port \in Nat, NEW st \in SocketStates, NEW sr \in ChipStates,
           NEW ir \in SUBSET Interrupts,
           slot' = [slot EXCEPT ![s] = Assigned(slot[s], port, st, sr, ir)],
           fault' = fault, fds' = fds, sweep' = sweep,
           slot[s].service = Null =>
             /\ st \in {"Init", "Listen"} => ir = {} /\ sr \in {"INIT", "CLOSED"}
             /\ sr # "LISTEN",
           slot[s].service # Null =>
             /\ port = slot[s].port /\ (st = "Listen" <=> slot[s].state = "Listen")
             /\ st = "Listen" => \/ "CON" \in ir /\ sr # "LISTEN"
                                 \/ ir = {} /\ sr \in {"LISTEN", "CLOSED"}
             /\ st # "Listen" => "CON" \notin ir /\ sr # "LISTEN"
    PROVE  ServiceInv' /\ Kept
<1>1. Good(slot, fds)
  BY DEF ServiceInv
<1>2. Good(slot', fds) /\ KeptBut(slot, slot', {})
  BY <1>1, AssignGood
<1>3. Kept
  BY <1>1, <1>2, KeptStep
<1>4. QED BY <1>2, <1>3 DEF ServiceInv

LEMMA BindStep ==
    ASSUME Tame, ServiceInv, NEW s \in Slots, Bind(s)
    PROVE  ServiceInv' /\ Kept
<1>1. PICK p \in Ports, opened \in BOOLEAN :
        slot' = [slot EXCEPT ![s].port = p,
                             ![s].state = IF opened THEN "Init" ELSE @,
                             ![s].sr = IF ~opened THEN "CLOSED"
                                       ELSE IF slot[s].type = "TCP" THEN "INIT" ELSE "UDP",
                             ![s].ir = {}]
  BY Zenon DEF Bind
<1> DEFINE st == IF opened THEN "Init" ELSE slot[s].state
           sr == IF opened THEN "INIT" ELSE "CLOSED"
<1>2. /\ Good(slot, fds) /\ slot \in Tables /\ SocketOK(slot, s)
      /\ slot[s].live /\ slot[s].service = Null /\ ~slot[s].listening
  BY DEF ServiceInv, Good, Bind, Plain, Tame
<1>3. slot[s].type = "TCP"
  BY <1>2 DEF SocketOK
<1>4. slot' = [slot EXCEPT ![s] = Assigned(slot[s], p, st, sr, {})]
  BY <1>1, <1>3 DEF Assigned
<1>5. p \in Nat /\ st \in SocketStates /\ sr \in ChipStates /\ {} \in SUBSET Interrupts
  BY <1>2, PoolAssumption DEF Tables, SlotType, SocketStates, ChipStates
<1>6. sr # "LISTEN" /\ sr \in {"INIT", "CLOSED"}
  OBVIOUS
<1> HIDE DEF st, sr
<1>7. fault' = fault /\ fds' = fds /\ sweep' = sweep
  BY DEF Bind
<1>8. QED BY <1>2, <1>4, <1>5, <1>6, <1>7, AssignStep

\* The steps of the chip, and connect(): a server is not on the chip, so they
\* concern clients and sockets that do not listen.
LEMMA ChangeStep ==
    ASSUME Tame, ServiceInv, NEW s \in Slots, Connect(s) \/ ConnectElse(s) \/ ChipStep(s)
    PROVE  ServiceInv' /\ Kept
<1> DEFINE assign(st, sr, ir) ==
             [slot EXCEPT ![s] = Assigned(slot[s], slot[s].port, st, sr, ir)]
           r == slot[s]
<1>1. /\ Good(slot, fds) /\ SocketOK(slot, s)
      /\ slot[s] \in SlotType
      /\ slot[s].port \in Nat /\ slot[s].state \in SocketStates
      /\ slot[s].sr \in ChipStates /\ slot[s].ir \in SUBSET Interrupts
  BY DEF ServiceInv, Good, Tables, SlotType
<1>2. /\ slot[s].ir \cup {"CON"} \in SUBSET Interrupts
      /\ slot[s].ir \cup {"DISCON"} \in SUBSET Interrupts
      /\ "Established" \in SocketStates
      /\ {"ESTABLISHED", "CLOSED", "CLOSE_WAIT"} \subseteq ChipStates
  BY <1>1 DEF Interrupts, SocketStates, ChipStates
<1>3. fault' = fault /\ fds' = fds /\ sweep' = sweep
  BY DEF Connect, ConnectElse, ChipStep, PeerConnect, PeerClose, HandshakeTimeout
<1>4. Zeroed.sr = "CLOSED" /\ ~Zeroed.live
  BY DEF Zeroed, PlainSlot
<1>5. ASSUME Connect(s) \/ ConnectElse(s)
      PROVE  slot[s].live /\ slot[s].service = Null /\ ~slot[s].listening
  BY <1>1, <1>5 DEF Connect, ConnectElse, Plain, SocketOK
<1>6. CASE Connect(s)
  <2>1. \/ slot' = assign("Established", "ESTABLISHED", slot[s].ir \cup {"CON"})
        \/ slot' = assign(slot[s].state, "CLOSED", slot[s].ir)
    BY <1>1, <1>6, Zenon DEF Connect, Assigned
  <2>2. slot[s].state = "Init" /\ slot[s].ir = {}
    BY <1>1, <1>5, <1>6 DEF Connect, SocketOK
  <2>3. CASE slot' = assign("Established", "ESTABLISHED", slot[s].ir \cup {"CON"})
    BY <1>1, <1>2, <1>3, <1>5, <1>6, <2>3, AssignStep
  <2>4. CASE slot' = assign(slot[s].state, "CLOSED", slot[s].ir)
    BY <1>1, <1>2, <1>3, <1>5, <1>6, <2>2, <2>4, AssignStep
  <2>5. QED BY <2>1, <2>3, <2>4
<1>7. CASE ConnectElse(s)
  <2>1. slot' = assign("Established", slot[s].sr, slot[s].ir)
    BY <1>1, <1>7 DEF ConnectElse, Assigned
  <2>2. slot[s].sr # "LISTEN"
    BY <1>1, <1>5, <1>7 DEF SocketOK
  <2>3. QED BY <1>1, <1>2, <1>3, <1>5, <1>7, <2>1, <2>2, AssignStep
<1>8. CASE PeerConnect(s)
  <2>1. slot' = assign(slot[s].state, "ESTABLISHED", slot[s].ir \cup {"CON"})
    BY <1>1, <1>8 DEF PeerConnect, Assigned
  <2>2. slot[s].live /\ slot[s].service # Null /\ ~slot[s].listening
        /\ slot[s].state = "Listen"
    BY <1>1, <1>4, <1>8 DEF PeerConnect, SocketOK
  <2>3. QED BY <1>1, <1>2, <1>3, <2>1, <2>2, AssignStep
<1>9. CASE PeerClose(s)
  <2>1. PICK after \in {"CLOSE_WAIT", "CLOSED"} :
          slot' = [slot EXCEPT ![s].sr = after, ![s].ir = @ \cup {"DISCON"}]
    BY <1>9 DEF PeerClose
  <2>2. slot' = assign(slot[s].state, after, slot[s].ir \cup {"DISCON"})
    BY <1>1, <2>1 DEF Assigned
  <2>3. slot[s].sr \in {"ESTABLISHED", "CLOSE_WAIT"}
    BY <1>9 DEF PeerClose
  <2>4. slot[s].live /\ ~slot[s].listening
    BY <1>1, <1>4, <2>3 DEF SocketOK
  <2>5. after \in ChipStates /\ after # "LISTEN"
    BY <1>2
  <2>6. slot[s].service = Null => slot[s].state \notin {"Init", "Listen"}
    BY <1>1, <2>3, <2>4 DEF SocketOK
  <2>7. slot[s].service # Null =>
          /\ slot[s].state = "Listen" => "CON" \in slot[s].ir
          /\ slot[s].state # "Listen" => "CON" \notin slot[s].ir
    BY <1>1, <2>3, <2>4 DEF SocketOK
  <2> DEFINE ir == slot[s].ir \cup {"DISCON"}
  <2>8. ir \in SUBSET Interrupts /\ ("CON" \in ir <=> "CON" \in slot[s].ir)
    BY <1>2
  <2>9. slot' = assign(slot[s].state, after, ir)
    BY <2>2
  <2> HIDE DEF ir
  <2>10. QED BY <1>1, <1>3, <2>4, <2>5, <2>6, <2>7, <2>8, <2>9, AssignStep
<1>10. CASE HandshakeTimeout(s)
  <2>1. slot' = assign(slot[s].state, "CLOSED", slot[s].ir)
    BY <1>1, <1>10 DEF HandshakeTimeout, Assigned
  <2>2. /\ slot[s].live /\ slot[s].service # Null /\ ~slot[s].listening
        /\ slot[s].state = "Listen" /\ slot[s].ir = {}
    BY <1>1, <1>4, <1>10 DEF HandshakeTimeout, SocketOK
  <2>3. QED BY <1>1, <1>2, <1>3, <2>1, <2>2, AssignStep
<1>11. QED BY <1>6, <1>7, <1>8, <1>9, <1>10 DEF ChipStep

\* accept()
LEMMA AcceptStep ==
    ASSUME Tame, ServiceInv, NEW v \in Slots, Accept(v), fault' # "nullSocket"
    PROVE  ServiceInv' /\ Kept
<1> DEFINE c      == Head(slot[v].queue)
           popped == [slot EXCEPT ![v].queue = Tail(@)]
           F      == IF c = Null THEN fds ELSE fds \cup {c}
<1>1. /\ Good(slot, fds) /\ slot[v].live /\ slot[v].listening /\ slot[v].queue # <<>>
      /\ fds \subseteq Slots
  BY DEF ServiceInv, Accept, Service, Good
<1>2. /\ Good(popped, F) /\ KeptBut(slot, popped, {})
      /\ c # Null => /\ c \in slot[v].clients \ fds /\ c \in Slots \ {v}
                    /\ popped[c] = slot[c] /\ slot[c].service = v
  BY <1>1, PopGood
<1>3. \/ c = Null /\ slot' = popped /\ fault' = fault /\ fds' = fds
      \/ /\ c # Null /\ slot[c].sr = "ESTABLISHED"
         /\ slot' = popped /\ fault' = fault /\ fds' = fds \cup {c}
      \/ c # Null /\ fds' = fds /\ \E o \in CloseSocket(popped, c) : Finish(o)
  BY DEF Accept
<1>4. sweep' = sweep /\ sweep = MaxSock /\ fault = "none"
  BY DEF Accept, ServiceInv
<1> HIDE DEF c, popped
<1>5. CASE c = Null /\ slot' = popped /\ fault' = fault /\ fds' = fds
  BY <1>1, <1>2, <1>4, <1>5, KeptStep DEF ServiceInv
<1>6. CASE /\ c # Null /\ slot[c].sr = "ESTABLISHED"
           /\ slot' = popped /\ fault' = fault /\ fds' = fds \cup {c}
  BY <1>1, <1>2, <1>4, <1>6, KeptStep DEF ServiceInv
<1>7. CASE c # Null /\ fds' = fds /\ \E o \in CloseSocket(popped, c) : Finish(o)
  <2>1. PICK o \in CloseSocket(popped, c) : Finish(o)
    BY <1>7
  <2>2. F = fds \cup {c} /\ c \in F /\ c \notin fds
    BY <1>2, <1>7
  <2>3. /\ o.fault = "none"
        /\ Good(o.tab, F \ ({c} \cup popped[c].clients))
        /\ KeptBut(popped, o.tab, {c} \cup popped[c].clients)
    BY <1>2, <2>1, <2>2, CloseSocketGood DEF Finish
  <2>4. popped[c].clients = {}
    <3>1. ~slot[c].listening
      BY <1>1, <1>2, <1>7, ClientFacts
    <3>2. popped \in Tables /\ OwnedBut(popped, {})
      BY <1>2 DEF Good
    <3>3. QED BY <1>2, <1>7, <3>1, <3>2, ListsOfOthers
  <2>5. F \ ({c} \cup popped[c].clients) = fds
    BY <2>2, <2>4
  <2>6. slot' = o.tab /\ fault' = "none"
    BY <2>1, <2>3 DEF Finish
  <2>7. ServiceInv'
    BY <1>4, <1>7, <2>3, <2>5, <2>6 DEF ServiceInv
  <2>8. Kept
    <3>1. ASSUME NEW f \in fds
          PROVE  f \in Slots /\ f \notin {c} \cup popped[c].clients
      BY <1>1, <2>2, <2>4
    <3>2. QED BY <1>2, <1>7, <2>3, <2>6, <3>1 DEF Kept, KeptBut
  <2>9. QED BY <1>7, <2>7, <2>8
<1>8. QED BY <1>3, <1>5, <1>6, <1>7

\* close()
LEMMA CloseStep ==
    ASSUME Tame, ServiceInv, NEW s \in Slots, Close(s), fault' # "nullSocket"
    PROVE  ServiceInv' /\ Kept
<1>1. /\ Good(slot, fds) /\ s \in fds /\ fds \subseteq Slots
      /\ fds' = fds \ ({s} \cup slot[s].clients)
      /\ sweep' = sweep /\ sweep = MaxSock
  BY DEF ServiceInv, Close, Good, Tame
<1>2. PICK o \in CloseSocket(slot, s) : Finish(o)
  BY DEF Close
<1>3. /\ o.fault = "none" /\ Good(o.tab, fds')
      /\ KeptBut(slot, o.tab, {s} \cup slot[s].clients)
  BY <1>1, <1>2, CloseSocketGood DEF Finish
<1>4. slot' = o.tab /\ fault' = "none"
  BY <1>2, <1>3 DEF Finish
<1>5. Kept
  <2>1. ({s} \cup slot[s].clients) \cap fds' = {}
    BY <1>1
  <2>2. QED BY <1>1, <1>3, <1>4, <2>1, KeptStep
<1>6. QED BY <1>1, <1>3, <1>4, <1>5 DEF ServiceInv

\* The table in which listen() has made s a server, with no client yet.
Served(tab, s) ==
    /\ Good(tab, fds)
    /\ \A r \in Slots \ {s} : tab[r] = slot[r]
    /\ tab[s].live /\ tab[s].listening /\ tab[s].service = Null
    /\ tab[s].clients = {} /\ tab[s].queue = <<>>
    /\ tab[s].backlog \in Backlogs /\ tab[s].cap = tab[s].backlog

\* listen(): the socket becomes a server with its first client, or is freed
\* again when there is none to be had.
LEMMA ListenStep ==
    ASSUME Tame, ServiceInv, NEW s \in Slots, Listen(s), fault' # "nullSocket"
    PROVE  /\ ServiceInv' /\ Kept /\ fds' = fds
           /\ slot[s].live /\ slot[s].service = Null /\ ~slot[s].listening
           /\ \E tab, c : /\ Served(tab, s)
                         /\ \/ Created(tab, slot', s, c)
                            \/ Free(tab) = {} \/ "createFails" \in Env
<1>1. /\ Good(slot, fds) /\ SocketOK(slot, s) /\ slot \in Tables /\ OwnedBut(slot, {})
      /\ slot[s].live /\ slot[s].service = Null /\ slot[s] \in SlotType
      /\ ~slot[s].listening /\ fds \in SUBSET Slots /\ \A f \in fds : slot[f].live
      /\ fds' = fds /\ sweep' = sweep /\ sweep = MaxSock
  BY DEF ServiceInv, Good, Listen, Plain, Tables
<1>2. slot[s].type = "TCP" /\ slot[s].ir = {} /\ slot[s].sr \in {"INIT", "CLOSED"}
  BY <1>1 DEF Listen, SocketOK, SlotType, SocketStates, Tame
<1> DEFINE ends(o) == IF o.fault = "none" /\ o.res = Null
                      THEN Finish(Done([o.tab EXCEPT ![s] = Freed(o.tab[s])], Null))
                      ELSE Finish(o)
<1>3. PICK b \in Backlogs :
        \E o \in CreateListenClient([slot EXCEPT ![s] = Opened(slot[s], b)], s) : ends(o)
  BY DEF Listen
<1> DEFINE r   == Opened(slot[s], b)
           new == [slot EXCEPT ![s] = r]
<1>4. b \in Nat \ {0} /\ b \in Int
  BY DEF Tame
<1>5. r \in SlotType
  BY <1>1, <1>4, ServerSlot
<1>6. /\ r.live /\ r.type = "TCP" /\ r.service = Null /\ r.listening /\ r.state = "Listen"
      /\ r.clients = {} /\ r.backlog = b /\ r.queue = <<>> /\ r.cap = b
      /\ r.ir = {} /\ r.sr \in {"INIT", "CLOSED"}
  BY <1>1, <1>2, <1>4 DEF Opened, SlotType
<1> HIDE DEF ends
<1>7. PICK o \in CreateListenClient(new, s) : ends(o)
  BY <1>3
<1> HIDE DEF r
<1>8. slot[s].clients = {} /\ \A v \in Slots : s \notin slot[v].clients
  BY <1>1, ListsOfOthers
<1>9. new \in Tables /\ OwnedBut(new, {})
  <2>1. new \in Tables /\ OwnedBut(new, {} \ {s})
    BY <1>1, <1>5, <1>6, <1>8, RefillKeepsOwned
  <2>2. {} \ {s} = {}
    OBVIOUS
  <2>3. QED BY <2>1, <2>2
<1>10. new[s] = r /\ \A q \in Slots \ {s} : new[q] = slot[q]
  BY <1>1 DEF Tables
<1> HIDE DEF new
<1>11. SocketOK(new, s)
  BY <1>6, <1>10 DEF SocketOK
<1>12. Busy(new, s) = {} /\ Idle(new, s) = {}
  BY <1>6, <1>10 DEF Busy, Idle
<1>13. ServerOK(new, fds, s)
  <2>1. QueueOK(new, fds, s)
    BY <1>6, <1>10 DEF QueueOK
  <2>2. Cardinality({}) = 0
    BY FS_EmptySet
  <2>3. QED BY <1>4, <1>6, <1>10, <1>12, <2>1, <2>2 DEF ServerOK
<1>14. \A g \in fds : new[g].live
  BY <1>1, <1>6, <1>10
<1>15. Good(new, fds) /\ KeptBut(slot, new, {})
  <2>1. Good(new, fds)
    BY <1>1, <1>9, <1>10, <1>11, <1>13, <1>14, ChangeGood
  <2>2. KeptBut(slot, new, {})
    BY <1>1, <1>2, <1>6, <1>10 DEF KeptBut
  <2>3. QED BY <2>1, <2>2
<1>16. /\ o.fault = "none"
       /\ \/ /\ o.res = Null /\ o.tab = new
             /\ Free(new) = {} \/ "createFails" \in Env
          \/ Created(new, o.tab, s, o.res)
  <2>1. \A q \in Slots : ~new[q].live => new[q] = Zeroed
    BY <1>15 DEF Good, SocketOK
  <2>2. new[s].live /\ new[s].type = "TCP"
    BY <1>6, <1>10
  <2>3. o \in CreateListenClient(new, s)
    BY <1>7
  <2>4. o.fault # "nullSocket"
    BY <1>7 DEF ends, Finish
  <2>5. QED BY <1>9, <2>1, <2>2, <2>3, <2>4, CreateEffect
<1>17. Served(new, s)
  BY <1>4, <1>6, <1>10, <1>15 DEF Served
<1>18. CASE /\ o.res = Null /\ o.tab = new
            /\ Free(new) = {} \/ "createFails" \in Env
  <2> DEFINE n == Freed(r)
  <2>1. slot' = [new EXCEPT ![s] = n] /\ fault' = "none"
    BY <1>7, <1>10, <1>16, <1>18 DEF ends, Finish, Done
  <2>2. n \in SlotType /\ n.clients = {}
    BY <1>5, ServerSlot
  <2>3. /\ n.live /\ n.type = "TCP" /\ n.service = Null /\ ~n.listening
        /\ n.state = "Listen" /\ n.ir = {} /\ n.sr \in {"INIT", "CLOSED"}
    BY <1>5, <1>6 DEF Freed, SlotType
  <2> HIDE DEF n
  <2>4. new[s].clients = {} /\ \A v \in Slots : s \notin new[v].clients
    BY <1>6, <1>9, <1>10, ListsOfOthers
  <2>5. slot' \in Tables /\ OwnedBut(slot', {})
    <3>1. slot' \in Tables /\ OwnedBut(slot', {} \ {s})
      BY <1>9, <2>1, <2>2, <2>3, <2>4, RefillKeepsOwned
    <3>2. {} \ {s} = {}
      OBVIOUS
    <3>3. QED BY <3>1, <3>2
  <2>6. slot'[s] = n /\ \A q \in Slots \ {s} : slot'[q] = new[q]
    BY <1>9, <2>1 DEF Tables
  <2>7. SocketOK(slot', s) /\ ServerOK(slot', fds, s)
    BY <2>3, <2>6 DEF SocketOK, ServerOK
  <2>8. \A g \in fds : slot'[g].live
    <3>1. ASSUME NEW g \in fds
          PROVE  slot'[g].live
      <4>1. g \in Slots
        BY <1>1
      <4>2. CASE g = s
        BY <2>3, <2>6, <4>2
      <4>3. CASE g # s
        BY <1>14, <2>6, <4>1, <4>3
      <4>4. QED BY <4>2, <4>3
    <3>2. QED BY <3>1
  <2>9. new[s].service = Null
    BY <1>6, <1>10
  <2>10. Good(slot', fds)
    BY <1>1, <1>15, <2>5, <2>6, <2>7, <2>8, <2>9, ChangeGood
  <2>11. Kept
    BY <1>1, <1>2, <1>10, <2>3, <2>6 DEF Kept
  <2>12. ServiceInv'
    BY <1>1, <2>1, <2>10 DEF ServiceInv
  <2>13. QED BY <1>1, <1>17, <1>18, <2>11, <2>12
<1>19. CASE Created(new, o.tab, s, o.res)
  <2>1. o.res # Null
    BY <1>19, PoolAssumption DEF Created, Slots, Null
  <2>2. slot' = o.tab /\ fault' = "none"
    BY <1>7, <1>16, <2>1 DEF ends, Finish
  <2>3. OwnedBut(o.tab, {})
    <3>1. "mallocFails" \notin Env
      BY DEF Tame
    <3>2. /\ new[s].live /\ new[s].listening /\ new[s].service = Null /\ s \in Slots \ {}
          /\ \A x \in {} : new[x].live
          /\ o \in CreateListenClient(new, s)
      BY <1>6, <1>7, <1>10
    <3>3. Keeps(new, {}, o)
      BY <1>9, <3>1, <3>2, CreateListenClientKeeps
    <3>4. QED BY <1>16, <3>3 DEF Keeps
  <2>4. /\ new[s].live /\ new[s].listening /\ new[s].service = Null
        /\ new[s].backlog > 0
    BY <1>4, <1>6, <1>10
  <2>5. Good(o.tab, fds) /\ KeptBut(new, o.tab, {})
    BY <1>12, <1>15, <1>19, <2>3, <2>4, CreatedGood
  <2>6. Kept
    BY <1>1, <1>15, <2>2, <2>5 DEF Kept, KeptBut
  <2>7. ServiceInv'
    BY <1>1, <2>2, <2>5 DEF ServiceInv
  <2>8. QED BY <1>1, <1>17, <1>19, <2>2, <2>6, <2>7
<1>20. QED BY <1>16, <1>18, <1>19

\* wizIntDataTask for one socket: a connection of a client is added to its
\* server; otherwise only the states of the socket change.
Settled(s) ==
    /\ \A r \in Slots \ {s} : slot'[r] = slot[r]
    /\ slot'[s].live /\ ~slot'[s].listening
    /\ slot'[s].service = slot[s].service
    /\ slot[s].service # Null => slot[s].state # "Listen" /\ slot'[s].state # "Listen"

LEMMA InterruptStep ==
    ASSUME Tame, ServiceInv, NEW s \in Slots, HandleInterrupt(s), fault' # "nullSocket"
    PROVE  /\ ServiceInv' /\ Kept /\ fds' = fds /\ slot[s].live
           /\ \/ Settled(s)
              \/ /\ "CON" \in slot[s].ir
                 /\ \E v \in Slots : \E mid, N, m :
                      /\ s \in slot[v].clients
                      /\ Handled(slot, mid, s) /\ Added(mid, slot', v, s, N, m)
<1> DEFINE st  == IF "DISCON" \in slot[s].ir THEN "Close" ELSE slot[s].state
           n   == Assigned(slot[s], slot[s].port, st, slot[s].sr, {})
           mid == [slot EXCEPT ![s] = n]
           cleared == [slot EXCEPT ![s].ir = {}]
           closed  == IF "DISCON" \in slot[s].ir /\ slot[s].live
                      THEN [cleared EXCEPT ![s].state = "Close"] ELSE cleared
<1>1. /\ Good(slot, fds) /\ slot \in Tables /\ OwnedBut(slot, {}) /\ SocketOK(slot, s)
      /\ slot[s] \in SlotType /\ slot[s].ir # {}
      /\ fds' = fds /\ sweep' = sweep /\ sweep = MaxSock
      /\ fault = "none"
  BY DEF ServiceInv, Good, HandleInterrupt, Tables
<1>2. Zeroed.ir = {}
  BY DEF Zeroed, PlainSlot
<1>3. slot[s].live /\ ~slot[s].listening
  BY <1>1, <1>2 DEF SocketOK
<1>4. /\ slot[s].port \in Nat /\ st \in SocketStates /\ slot[s].sr \in ChipStates
      /\ {} \in SUBSET Interrupts
  BY <1>1 DEF SlotType, SocketStates
<1>5. closed = mid
  <2>1. cleared \in Tables /\ slot = [r \in Slots |-> slot[r]]
    BY <1>1 DEF Tables, SlotType
  <2>2. CASE "DISCON" \in slot[s].ir
    BY <1>1, <1>3, <2>2 DEF Assigned, Tables, SlotType
  <2>3. CASE "DISCON" \notin slot[s].ir
    BY <1>1, <2>3 DEF Assigned, Tables, SlotType
  <2>4. QED BY <2>2, <2>3
<1>6. /\ n.live = slot[s].live /\ n.type = slot[s].type /\ n.service = slot[s].service
      /\ n.listening = slot[s].listening /\ n.port = slot[s].port
      /\ n.state = st /\ n.sr = slot[s].sr /\ n.ir = {}
  BY <1>1 DEF Assigned, SlotType
<1>7. mid \in Tables /\ OwnedBut(mid, {})
  BY <1>1, <1>4, AssignmentKeeps
<1>8. mid[s] = n /\ \A r \in Slots \ {s} : mid[r] = slot[r]
  BY <1>1 DEF Tables
<1>9. PICK o : /\ Finish(o)
               /\ IF "CON" \in slot[s].ir THEN o \in HandleCon(mid, s) ELSE o = Done(mid, Null)
  <2> HIDE DEF mid
  <2>1. QED BY <1>5 DEF HandleInterrupt
<1>10. CASE slot[s].service = Null
  <2>1. slot[s].state \notin {"Init", "Listen"} /\ slot[s].sr # "LISTEN"
    BY <1>1, <1>3, <1>10 DEF SocketOK
  <2>2. o = Done(mid, Null)
    <3> HIDE DEF n, mid
    <3>1. mid[s].live /\ mid[s].service = Null
      BY <1>3, <1>6, <1>8, <1>10
    <3>2. QED BY <1>9, <3>1 DEF HandleCon
  <2>3. slot' = mid /\ fault' = fault
    BY <1>1, <1>9, <2>2 DEF Finish, Done
  <2>4. st \notin {"Init", "Listen"}
    BY <2>1
  <2>5. Settled(s)
    BY <1>3, <1>6, <1>8, <1>10, <2>3 DEF Settled
  <2> HIDE DEF st
  <2>6. ServiceInv' /\ Kept
    BY <1>1, <1>3, <1>4, <1>10, <2>1, <2>3, <2>4, AssignStep
  <2>7. QED BY <1>1, <1>3, <2>5, <2>6
<1>11. CASE slot[s].service # Null /\ "CON" \notin slot[s].ir
  <2>1. slot[s].state # "Listen" /\ slot[s].sr # "LISTEN"
    BY <1>1, <1>3, <1>11 DEF SocketOK
  <2>2. slot' = mid /\ fault' = fault
    BY <1>1, <1>9, <1>11 DEF Finish, Done
  <2>3. st # "Listen"
    BY <2>1
  <2>4. Settled(s)
    BY <1>3, <1>6, <1>8, <2>1, <2>2, <2>3 DEF Settled
  <2> HIDE DEF st
  <2>5. ServiceInv' /\ Kept
    BY <1>1, <1>3, <1>4, <1>11, <2>1, <2>2, <2>3, AssignStep
  <2>6. QED BY <1>1, <1>3, <2>4, <2>5
<1>12. CASE slot[s].service # Null /\ "CON" \in slot[s].ir
  <2> DEFINE v == slot[s].service
  <2>1. v \in Slots /\ s \in slot[v].clients /\ v # s /\ v # Null
    BY <1>1, <1>3, <1>12 DEF OwnedBut
  <2>2. /\ slot[v].live /\ slot[v].listening /\ slot[v].service = Null
        /\ SocketOK(slot, v) /\ ServerOK(slot, fds, v)
    BY <1>1, <2>1, ClientFacts DEF Good
  <2>3. slot[v].state = "Listen" /\ slot[v].type = "TCP"
    BY <2>2 DEF SocketOK
  <2>4. slot[s].state = "Listen"
    BY <1>1, <1>3, <1>12 DEF SocketOK
  <2>5. slot[s].port = slot[v].port /\ slot[v].backlog > 0
    BY <2>1, <2>2, <2>4 DEF ServerOK, Idle
  <2> HIDE DEF v, n, mid
  <2>6. mid[v] = slot[v] /\ mid[s].live /\ mid[s].service = v /\ mid[s].port = slot[s].port
    BY <1>3, <1>6, <1>8, <2>1 DEF v
  <2>7. o \in AddClient(mid, v, s)
    BY <1>9, <1>12, <2>1, <2>2, <2>3, <2>5, <2>6 DEF HandleCon
  <2>8. \A r \in Slots : ~mid[r].live => mid[r] = Zeroed
    BY <1>1, <1>8, <2>6 DEF Good, SocketOK
  <2>9. o.fault = "none" /\ \E N, m : Added(mid, o.tab, v, s, N, m)
    <3>1. mid[v].live /\ mid[v].type = "TCP" /\ mid[v].backlog > 0 /\ s \in Slots \ {v}
      BY <2>1, <2>2, <2>3, <2>5, <2>6
    <3>2. o.fault # "nullSocket"
      BY <1>9 DEF Finish
    <3>3. QED BY <1>7, <2>1, <2>6, <2>7, <2>8, <3>1, <3>2, AddClientEffect
  <2>10. PICK N, m : Added(mid, o.tab, v, s, N, m)
    BY <2>9
  <2>11. OwnedBut(o.tab, {})
    <3>1. s \in mid[v].clients /\ "mallocFails" \notin Env
      BY <2>1, <2>6 DEF v, Tame
    <3>2. Keeps(mid, {}, o)
      BY <1>7, <2>1, <2>7, <3>1, AddClientKeeps
    <3>3. QED BY <2>9, <3>2 DEF Keeps
  <2>12. Handled(slot, mid, s)
    BY <1>3, <1>6, <1>7, <1>8 DEF Handled
  <2>13. s \in slot[v].clients
    BY <2>1 DEF v
  <2>14. Good(o.tab, fds)
    BY <1>1, <1>12, <2>1, <2>10, <2>11, <2>12, <2>13, AddedGood
  <2>15. slot' = o.tab /\ fault' = "none"
    BY <1>9, <2>9 DEF Finish
  <2>16. Kept
    <3>1. KeptBut(slot, mid, {})
      BY <1>6, <1>8 DEF KeptBut
    <3>2. KeptBut(mid, o.tab, {})
      <4>1. \A x \in N : ~mid[x].live
        BY <2>10 DEF Added, NewClient
      <4>2. o.tab[s].live /\ o.tab[s].type = mid[s].type /\ o.tab[s].service = mid[s].service
        <5>1. mid[s] \in SlotType
          BY <1>7 DEF Tables
        <5>2. QED BY <2>6, <2>10, <5>1 DEF Added, Taken, SlotType
      <4>3. \E b, C, q : Serves(mid, o.tab, v, N \cup {s}, b, C, q)
        BY <2>10 DEF Added
      <4>4. QED BY <2>1, <4>1, <4>2, <4>3, ServesKept
    <3>3. QED BY <1>1, <2>15, <3>1, <3>2 DEF Kept, KeptBut, Good
  <2>17. ServiceInv'
    BY <1>1, <2>14, <2>15 DEF ServiceInv
  <2>18. \E w \in Slots : \E t, M, k :
           /\ s \in slot[w].clients
           /\ Handled(slot, t, s) /\ Added(t, slot', w, s, M, k)
    BY <2>1, <2>10, <2>12, <2>13, <2>15
  <2>19. QED BY <1>1, <1>3, <1>12, <2>16, <2>17, <2>18
<1>13. QED BY <1>10, <1>11, <1>12

-----------------------------------------------------------------------------
(* The invariant and its theorems                                          *)

LEMMA InitServes == Init => ServiceInv
<1> SUFFICES ASSUME Init PROVE ServiceInv
  OBVIOUS
<1>1. OwnershipInv
  BY InitOwns
<1>2. slot \in Tables /\ OwnedBut(slot, {}) /\ fault = "none" /\ fds = {} /\ sweep = MaxSock
  BY <1>1, OwnedIsOwnedBut DEF Init, OwnershipInv, TypeOK, ClientListsOwn, Tables
<1>3. \A s \in Slots : slot[s] = Zeroed /\ ~slot[s].live
  BY DEF Init, Zeroed, PlainSlot
<1>4. \A s \in Slots : SocketOK(slot, s) /\ ServerOK(slot, {}, s)
  BY <1>3 DEF SocketOK, ServerOK
<1>5. QED BY <1>2, <1>4 DEF ServiceInv, Good

\* A step that stops the program at a full table takes no socket from anyone.
LEMMA NextTraps ==
    ASSUME slot \in Tables, sweep \in 0 .. MaxSock, Next, fault' = "nullSocket"
    PROVE  SameSockets(slot, slot') /\ Free(slot) = {}
<1>1. fault = "none"
  BY NextRuns
<1>2. ASSUME NEW s \in Slots, NEW o \in CloseSocket(slot, s), Finish(o)
      PROVE  SameSockets(slot, slot') /\ Free(slot) = {}
  BY <1>2, CloseTraps DEF Finish
<1>3. ASSUME NEW t \in {"TCP", "UDP"}, Socket(t)
      PROVE  SameSockets(slot, slot') /\ Free(slot) = {}
  <2>1. PICK o \in SocketCreate(slot, t, AnyPort) : Finish(o)
    BY <1>3 DEF Socket
  <2>2. o = Stop(slot, "nullSocket") /\ Free(slot) = {}
    BY <2>1 DEF SocketCreate, Finish, Done, Stop
  <2>3. QED BY <2>1, <2>2 DEF Finish, Stop, SameSockets
<1>4. ASSUME NEW s \in Slots, Bind(s) \/ Connect(s) \/ ConnectElse(s) \/ ChipStep(s)
      PROVE  FALSE
  BY <1>1, <1>4
     DEF Bind, Connect, ConnectElse, ChipStep, PeerConnect, PeerClose, HandshakeTimeout
<1>5. ASSUME NEW s \in Slots, Listen(s)
      PROVE  SameSockets(slot, slot') /\ Free(slot) = {}
  <2>1. PICK b \in Backlogs :
          \E o \in CreateListenClient([slot EXCEPT ![s] = Opened(@, b)], s) :
            IF o.fault = "none" /\ o.res = Null
            THEN Finish(Done([o.tab EXCEPT ![s] = Freed(@)], Null))
            ELSE Finish(o)
    BY <1>5 DEF Listen
  <2> DEFINE new == [slot EXCEPT ![s] = Opened(@, b)]
  <2>2. PICK o \in CreateListenClient(new, s) :
            IF o.fault = "none" /\ o.res = Null
            THEN Finish(Done([o.tab EXCEPT ![s] = Freed(@)], Null))
            ELSE Finish(o)
    BY <2>1
  <2>3. SameSockets(slot, new)
    BY DEF Opened, Tables, SlotType, SameSockets
  <2> HIDE DEF new
  <2>4. Finish(o) /\ o.fault = "nullSocket"
    BY <2>2 DEF Finish, Done
  <2>5. o = Stop(new, "nullSocket") /\ Free(new) = {}
    BY <2>2, <2>4, CreateTraps
  <2>6. slot' = new
    BY <2>4, <2>5 DEF Finish, Stop
  <2>7. QED BY <2>3, <2>5, <2>6, SameFree
<1>6. ASSUME NEW v \in Slots, Accept(v)
      PROVE  SameSockets(slot, slot') /\ Free(slot) = {}
  <2> DEFINE c      == Head(slot[v].queue)
             popped == [slot EXCEPT ![v].queue = Tail(@)]
  <2>1. /\ c # Null /\ \E o \in CloseSocket(popped, c) : Finish(o)
        /\ slot[v].queue # <<>>
    BY <1>1, <1>6 DEF Accept
  <2>2. slot[v].queue \in Seq(Slots \cup {Null}) /\ slot[v] \in SlotType
    BY DEF Tables, SlotType, Queues
  <2>3. c \in Slots /\ Tail(slot[v].queue) \in Seq(Slots \cup {Null})
    BY <2>1, <2>2
  <2>4. popped \in Tables /\ SameSockets(slot, popped)
    BY <2>2, <2>3 DEF Tables, SlotType, Queues, SameSockets
  <2> HIDE DEF popped, c
  <2>5. PICK o \in CloseSocket(popped, c) : Finish(o)
    BY <2>1
  <2>6. SameSockets(popped, o.tab) /\ Free(popped) = {}
    BY <2>3, <2>4, <2>5, CloseTraps DEF Finish
  <2>7. slot' = o.tab
    BY <2>5 DEF Finish
  <2>8. QED BY <2>4, <2>6, <2>7, SameFree DEF SameSockets
<1>7. ASSUME NEW s \in Slots, HandleInterrupt(s)
      PROVE  SameSockets(slot, slot') /\ Free(slot) = {}
  <2> DEFINE cleared == [slot EXCEPT ![s].ir = {}]
             closed  == IF "DISCON" \in slot[s].ir /\ slot[s].live
                        THEN [cleared EXCEPT ![s].state = "Close"] ELSE cleared
  <2>1. PICK o \in IF "CON" \in slot[s].ir THEN HandleCon(closed, s)
                                           ELSE {Done(closed, Null)} : Finish(o)
    BY <1>7 DEF HandleInterrupt
  <2>2. slot[s] \in SlotType
    BY DEF Tables
  <2>3. cleared \in Tables /\ SameSockets(slot, cleared)
    BY <2>2 DEF Tables, SlotType, SameSockets
  <2>4. closed \in Tables /\ SameSockets(slot, closed)
    BY <2>2, <2>3 DEF Tables, SlotType, SocketStates, SameSockets
  <2> HIDE DEF closed
  <2> DEFINE v == closed[s].service
  <2>5. o \in AddClient(closed, v, s) /\ v # Null
    BY <2>1 DEF HandleCon, Finish, Done, Stop
  <2>6. v \in Slots
    BY <2>4, <2>5 DEF Tables, SlotType
  <2> HIDE DEF v
  <2>7. SameSockets(closed, o.tab) /\ Free(closed) = {}
    BY <2>1, <2>4, <2>5, <2>6, AddTraps DEF Finish
  <2>8. slot' = o.tab
    BY <2>1 DEF Finish
  <2>9. QED BY <2>4, <2>7, <2>8, SameFree DEF SameSockets
<1>8. ASSUME NEW s \in Slots, Close(s)
      PROVE  SameSockets(slot, slot') /\ Free(slot) = {}
  BY <1>2, <1>8 DEF Close
<1>9. ~StartSweep
  BY <1>1 DEF StartSweep
<1>10. CASE SweepSocket
  <2>1. sweep \in Slots
    BY <1>10, PoolAssumption DEF SweepSocket, Slots
  <2>2. QED BY <1>2, <1>10, <2>1 DEF SweepSocket
<1>11. QED BY <1>3, <1>4, <1>5, <1>6, <1>7, <1>8, <1>9, <1>10 DEF Next, AppStep

LEMMA NextServes ==
    ASSUME Tame, ServiceInv, Next, fault' # "nullSocket"
    PROVE  ServiceInv' /\ Kept
<1>1. ASSUME NEW t \in {"TCP", "UDP"}, Socket(t)
      PROVE  ServiceInv' /\ Kept
  BY <1>1, SocketStep
<1>2. ASSUME NEW s \in Slots, AppStep(s)
      PROVE  ServiceInv' /\ Kept
  BY <1>2, BindStep, ChangeStep, ListenStep, AcceptStep, CloseStep DEF AppStep
<1>3. ASSUME NEW s \in Slots, HandleInterrupt(s) \/ ChipStep(s)
      PROVE  ServiceInv' /\ Kept
  BY <1>3, InterruptStep, ChangeStep
<1>4. ~StartSweep
  BY DEF StartSweep, Tame
<1>5. ~SweepSocket
  BY PoolAssumption DEF SweepSocket, ServiceInv
<1>6. QED BY <1>1, <1>2, <1>3, <1>4, <1>5 DEF Next

\* Whatever has happened, the program is well or has stopped at a full table.
ServiceSafe == ServiceInv \/ fault = "nullSocket"

LEMMA ServiceInvariant ==
    ASSUME Tame
    PROVE  Spec => []ServiceSafe
<1>1. ServiceSafe /\ [Next]_vars => ServiceSafe'
  <2>1. CASE UNCHANGED vars
    BY <2>1 DEF ServiceSafe, ServiceInv, vars
  <2>2. CASE Next
    BY <2>2, NextRuns, NextServes DEF ServiceSafe
  <2>3. QED BY <2>1, <2>2
<1>2. Init => ServiceSafe
  BY InitServes DEF ServiceSafe
<1>3. QED BY <1>1, <1>2, PTL DEF Spec

\* Whatever connects, disconnects, times out or cannot be created, no assertion
\* of the socket layer fails, nothing is freed twice and the W5500 task finds the
\* sockets it works on, as long as listen() is called with a positive backlog,
\* once and on a TCP socket that is not connected, and the address of the device
\* stays; what may stop the program is the read through NULL at a full table.
THEOREM ServiceNeverFaults ==
    ASSUME Tame
    PROVE  Spec => []NoFault
<1>1. ServiceSafe => NoFault
  BY DEF ServiceSafe, ServiceInv, NoFault
<1>2. QED BY ServiceInvariant, <1>1, PTL

\* The backlog counter and the connected clients add up to what listen() was
\* given, for every backlog and every size of the table.
THEOREM BacklogAlwaysAccounts ==
    ASSUME Tame
    PROVE  Spec => []BacklogAccounts
<1>1. ServiceSafe => BacklogAccounts
  <2> SUFFICES ASSUME ServiceInv, NEW v \in Slots, Service(v)
               PROVE  slot[v].backlog >= 0
                      /\ slot[v].backlog + Cardinality(Connected(v)) = slot[v].cap
    BY DEF BacklogAccounts, ServiceSafe, Running
  <2>1. Connected(v) = Busy(slot, v)
    BY DEF Connected, Busy
  <2>2. ServerOK(slot, fds, v)
    BY DEF ServiceInv, Good
  <2>3. QED BY <2>1, <2>2 DEF ServerOK, Service
<1>2. QED BY ServiceInvariant, <1>1, PTL

\* No step, of another thread, of the W5500 task or of a peer, takes the socket
\* behind a descriptor away from the application, and neither does the one at
\* which the program stops.
THEOREM DescriptorsAlwaysKept ==
    ASSUME Tame
    PROVE  Spec => DescriptorsKept
<1>1. ServiceSafe /\ Next => Kept
  <2> SUFFICES ASSUME ServiceInv, Next
               PROVE  Kept
    BY NextRuns DEF ServiceSafe
  <2>1. CASE fault' # "nullSocket"
    BY <2>1, NextServes
  <2>2. CASE fault' = "nullSocket"
    <3>1. slot \in Tables /\ fds \subseteq Slots /\ sweep \in 0 .. MaxSock
      BY PoolAssumption DEF ServiceInv, Good
    <3>2. SameSockets(slot, slot')
      BY <2>2, <3>1, NextTraps
    <3>3. QED BY <3>1, <3>2 DEF Kept, SameSockets
  <2>3. QED BY <2>1, <2>2
<1>2. ServiceSafe /\ [Next]_vars
        => [\A f \in fds \cap fds' : slot[f].live =>
              /\ slot'[f].live
              /\ slot'[f].type = slot[f].type
              /\ slot'[f].service = slot[f].service]_vars
  BY <1>1 DEF Kept, vars
<1>3. QED BY ServiceInvariant, <1>2, PTL DEF Spec, DescriptorsKept

\* Whatever accept() takes from the queue, to hand it out or to close it, is a
\* live client of the socket it was called on that the application does not hold:
\* a connection is given once, and no descriptor in use is closed for it.
THEOREM AcceptAlwaysGivesConnection ==
    ASSUME Tame
    PROVE  Spec => AcceptGivesConnection
<1>1. ASSUME ServiceSafe, NEW v \in Slots, Accept(v)
      PROVE  LET c == Head(slot[v].queue)
             IN  c # Null => c \in Slots \ fds /\ slot[c].live /\ slot[c].service = v
  <2>1. ServiceInv
    BY <1>1 DEF ServiceSafe, Accept, Running
  <2>2. /\ Good(slot, fds) /\ OwnedBut(slot, {})
        /\ slot[v].live /\ slot[v].listening /\ slot[v].queue # <<>>
    BY <1>1, <2>1 DEF ServiceInv, Accept, Service, Good
  <2> DEFINE c == Head(slot[v].queue)
  <2>3. c # Null => c \in slot[v].clients \ fds /\ c \in Slots
    BY <2>2, PopGood
  <2> HIDE DEF c
  <2>4. c # Null => slot[c].live /\ slot[c].service = v
    BY <2>2, <2>3 DEF OwnedBut
  <2>5. c # Null => c \in Slots \ fds /\ slot[c].live /\ slot[c].service = v
    BY <2>3, <2>4
  <2>6. QED BY <2>5 DEF c
<1>2. ServiceSafe /\ [Next]_vars
        => [\A v \in Slots : Accept(v) =>
              LET c == Head(slot[v].queue)
              IN  c # Null => c \in Slots \ fds /\ slot[c].live /\ slot[c].service = v]_vars
  BY <1>1
<1>3. QED BY ServiceInvariant, <1>2, PTL DEF Spec, AcceptGivesConnection

-----------------------------------------------------------------------------
(* The accept queue, when nothing fails and no socket is wanting           *)

\* Nothing fails, and there is a hardware socket for every client that MaxOpen
\* servers of backlog at most B can have, and one more: a client that is closed
\* is replaced before its own socket is free.
Roomy(B) == /\ Env = {}
            /\ \A b \in Backlogs : b \in 1 .. B
            /\ MaxSock > MaxOpen * (B + 1)

\* The sockets that are no clients.
Own(tab) == {s \in Slots : tab[s].live /\ tab[s].service = Null}

\* A client that waits is on the chip, or its connection is to be handled.
Waits(tab, c) == tab[c].sr = "LISTEN" \/ "CON" \in tab[c].ir

\* A server that has its listening client and whose queue holds all that the
\* application is to be given.
Filled(tab, F, B, v) ==
    tab[v].live /\ tab[v].listening =>
      LET q == tab[v].queue
      IN  /\ tab[v].cap <= B
          /\ tab[v].backlog > 0 => Idle(tab, v) # {}
          /\ \A c \in Idle(tab, v) : Waits(tab, c)
          /\ \A i \in 1 .. Len(q) : q[i] # Null
          /\ \A c \in Busy(tab, v) \ F : \E i \in 1 .. Len(q) : q[i] = c

Full(tab, F, B) ==
    /\ Cardinality(Own(tab)) <= MaxOpen
    /\ \A v \in Slots : Filled(tab, F, B, v)

\* The elements of a set of at most n slots can be numbered from 1 to n.
LEMMA Numbered ==
    ASSUME NEW S \in SUBSET Slots, NEW n \in Nat, Cardinality(S) <= n
    PROVE  \E g \in [S -> 1 .. n] : \A x, y \in S : g[x] = g[y] => x = y
<1> DEFINE k == Cardinality(S)
<1>1. k \in Nat /\ ExistsBijection(1 .. k, S)
  BY SlotsFinite, FS_CardinalityType
<1>2. PICK h \in Bijection(1 .. k, S) : TRUE
  BY <1>1 DEF ExistsBijection
<1>3. h \in [1 .. k -> S] /\ \A x \in S : \E i \in 1 .. k : h[i] = x
  BY <1>2 DEF Bijection, Injection, Surjection
<1> HIDE DEF k
<1> DEFINE g == [x \in S |-> CHOOSE i \in 1 .. k : h[i] = x]
<1>4. \A x \in S : g[x] \in 1 .. k /\ h[g[x]] = x
  BY <1>3
<1>5. 1 .. k \subseteq 1 .. n
  BY <1>1 DEF k
<1>6. g \in [S -> 1 .. n]
  BY <1>4, <1>5
<1> HIDE DEF g
<1>7. \A x, y \in S : g[x] = g[y] => x = y
  BY <1>4
<1>8. QED BY <1>6, <1>7

\* A server has no more clients than its backlog.
LEMMA ClientsBound ==
    ASSUME NEW tab, NEW F, Good(tab, F), NEW v \in Slots, tab[v].live, tab[v].listening
    PROVE  /\ tab[v].clients \in SUBSET Slots /\ tab[v].cap \in Nat
           /\ Cardinality(tab[v].clients) <= tab[v].cap
<1>1. tab[v].clients \in SUBSET Slots /\ tab[v].cap \in Nat
  BY DEF Good, Tables, SlotType
<1>2. /\ tab[v].backlog \in Nat
      /\ tab[v].backlog + Cardinality(Busy(tab, v)) = tab[v].cap
      /\ \A c, d \in Idle(tab, v) : c = d
      /\ Idle(tab, v) # {} => tab[v].backlog > 0
  BY DEF Good, ServerOK
<1>3. Busy(tab, v) \in SUBSET Slots /\ Idle(tab, v) \in SUBSET Slots
  BY <1>1 DEF Busy, Idle
<1>4. tab[v].clients = Busy(tab, v) \cup Idle(tab, v)
  BY DEF Busy, Idle
<1>5. IsFiniteSet(Busy(tab, v)) /\ Cardinality(Busy(tab, v)) \in Nat
  BY <1>3, SlotsFinite
<1>6. CASE Idle(tab, v) = {}
  <2>1. Cardinality(tab[v].clients) = Cardinality(Busy(tab, v))
    BY <1>4, <1>6
  <2>2. QED BY <1>1, <1>2, <1>5, <2>1
<1>7. CASE Idle(tab, v) # {}
  <2>1. PICK c : Idle(tab, v) = {c}
    BY <1>2, <1>7
  <2>2. tab[v].clients = Busy(tab, v) \cup {c} /\ c \notin Busy(tab, v)
    BY <1>4, <2>1 DEF Busy, Idle
  <2>3. Cardinality(tab[v].clients) = Cardinality(Busy(tab, v)) + 1
    BY <1>5, <2>2, FS_AddElement
  <2>4. QED BY <1>1, <1>2, <1>5, <1>7, <2>3
<1>8. QED BY <1>1, <1>6, <1>7

\* There is a free slot, because every live one is a socket of the application
\* or a client of one.
LEMMA RoomLeft ==
    ASSUME NEW B \in Nat, Roomy(B), NEW tab, NEW F, Good(tab, F), Full(tab, F, B)
    PROVE  Free(tab) # {}
<1>1. SUFFICES ASSUME \A s \in Slots : tab[s].live
               PROVE  FALSE
  BY DEF Free
<1> DEFINE server(s) == IF tab[s].service = Null THEN s ELSE tab[s].service
           T == (1 .. MaxOpen) \X (0 .. B)
<1>2. /\ tab \in Tables /\ OwnedBut(tab, {}) /\ MaxOpen \in Nat /\ MaxSock \in Nat \ {0}
      /\ \A s \in Slots : s # Null
  BY PoolAssumption DEF Good, Slots, Null
<1>3. \A s \in Slots : /\ server(s) \in Own(tab)
                       /\ s = server(s) \/ s \in tab[server(s)].clients
  BY <1>1, <1>2 DEF Own, OwnedBut
<1>4. Own(tab) \in SUBSET Slots /\ Cardinality(Own(tab)) <= MaxOpen
  BY DEF Own, Full
<1>5. PICK g \in [Own(tab) -> 1 .. MaxOpen] : \A x, y \in Own(tab) : g[x] = g[y] => x = y
  BY <1>2, <1>4, Numbered
<1>6. \A v \in Slots : tab[v].clients \in SUBSET Slots /\ Cardinality(tab[v].clients) <= B
  <2>1. ASSUME NEW v \in Slots
        PROVE  tab[v].clients \in SUBSET Slots /\ Cardinality(tab[v].clients) <= B
    <3>1. CASE tab[v].listening
      <4>1. tab[v].cap <= B
        BY <1>1, <3>1 DEF Full, Filled
      <4>2. /\ tab[v].clients \in SUBSET Slots /\ tab[v].cap \in Nat
            /\ Cardinality(tab[v].clients) <= tab[v].cap
        BY <1>1, <3>1, ClientsBound
      <4>3. Cardinality(tab[v].clients) \in Nat
        BY <4>2, SlotsFinite
      <4>4. QED BY <4>1, <4>2, <4>3
    <3>2. CASE ~tab[v].listening
      <4>1. tab[v].clients = {}
        BY <1>2, <3>2, ListsOfOthers
      <4>2. QED BY <4>1, FS_EmptySet
    <3>3. QED BY <3>1, <3>2
  <2>2. QED BY <2>1
<1>7. \A v \in Slots : \E h \in [tab[v].clients -> 1 .. B] :
        \A x, y \in tab[v].clients : h[x] = h[y] => x = y
  BY <1>6, Numbered
<1> DEFINE num(v) == CHOOSE h \in [tab[v].clients -> 1 .. B] :
                       \A x, y \in tab[v].clients : h[x] = h[y] => x = y
           f == [s \in Slots |-> <<g[server(s)],
                                   IF s = server(s) THEN 0 ELSE num(server(s))[s]>>]
<1>8. \A v \in Slots : /\ num(v) \in [tab[v].clients -> 1 .. B]
                       /\ \A x, y \in tab[v].clients : num(v)[x] = num(v)[y] => x = y
  BY <1>7
<1> HIDE DEF num
<1>9. ASSUME NEW s \in Slots, s # server(s)
      PROVE  num(server(s))[s] \in 1 .. B
  BY <1>3, <1>4, <1>8, <1>9
<1>10. f \in [Slots -> T]
  BY <1>3, <1>5, <1>9
<1>11. \A x, y \in Slots : f[x] = f[y] => x = y
  <2>1. ASSUME NEW x \in Slots, NEW y \in Slots, f[x] = f[y]
        PROVE  x = y
    <3>1. /\ g[server(x)] = g[server(y)]
          /\ (IF x = server(x) THEN 0 ELSE num(server(x))[x])
               = (IF y = server(y) THEN 0 ELSE num(server(y))[y])
      BY <2>1
    <3>2. server(x) = server(y)
      BY <1>3, <1>5, <3>1
    <3>3. CASE x = server(x) \/ y = server(y)
      BY <1>9, <3>1, <3>2, <3>3
    <3>4. CASE x # server(x) /\ y # server(y)
      BY <1>3, <1>4, <1>8, <3>1, <3>2, <3>4
    <3>5. QED BY <3>3, <3>4
  <2>2. QED BY <2>1
<1>12. IsFiniteSet(Slots) /\ Cardinality(Slots) = MaxSock
  BY <1>2, FS_Interval DEF Slots
<1>13. IsFiniteSet(T) /\ Cardinality(T) = MaxOpen * (B + 1)
  <2>1. IsFiniteSet(1 .. MaxOpen) /\ Cardinality(1 .. MaxOpen) = MaxOpen
    BY <1>2, FS_Interval
  <2>2. IsFiniteSet(0 .. B) /\ Cardinality(0 .. B) = B + 1
    BY FS_Interval
  <2>3. /\ IsFiniteSet(T)
        /\ Cardinality(T) = Cardinality(1 .. MaxOpen) * Cardinality(0 .. B)
    BY <2>1, <2>2, FS_Product
  <2>4. QED BY <2>1, <2>2, <2>3
<1> HIDE DEF f, T
<1>14. MaxOpen * (B + 1) < MaxSock
  <2>1. MaxOpen * (B + 1) \in Int
    BY <1>2
  <2>2. QED BY <1>2, <2>1 DEF Roomy
<1>15. QED BY <1>10, <1>11, <1>12, <1>13, <1>14, FS_PigeonHole

\* What Filled says of a server from one table to the next.
LEMMA FilledFrame ==
    ASSUME NEW tab, NEW F, NEW B, NEW v, Filled(tab, F, B, v), NEW new, NEW G,
           new[v] = tab[v],
           \A c \in tab[v].clients : /\ new[c].state = "Listen" <=> tab[c].state = "Listen"
                                     /\ tab[c].state = "Listen" /\ Waits(tab, c) => Waits(new, c)
                                     /\ c \in G <=> c \in F
    PROVE  Filled(new, G, B, v)
<1>1. /\ Idle(new, v) = Idle(tab, v) /\ Busy(new, v) = Busy(tab, v)
      /\ Idle(tab, v) \subseteq tab[v].clients /\ Busy(tab, v) \subseteq tab[v].clients
  BY DEF Idle, Busy
<1>2. SUFFICES ASSUME tab[v].live /\ tab[v].listening
               PROVE  Filled(new, G, B, v)
  BY DEF Filled
<1>3. \A c \in Idle(new, v) : Waits(new, c)
  BY <1>1, <1>2 DEF Filled, Idle
<1>4. Busy(new, v) \ G = Busy(tab, v) \ F
  BY <1>1
<1>5. QED BY <1>1, <1>2, <1>3, <1>4 DEF Filled

\* Of the sockets that are no clients no more are open than before.
LEMMA OwnBound ==
    ASSUME NEW tab, NEW new, Own(new) \subseteq Own(tab), Cardinality(Own(tab)) <= MaxOpen
    PROVE  Cardinality(Own(new)) <= MaxOpen
<1>1. Own(tab) \in SUBSET Slots /\ Own(new) \in SUBSET Own(tab) /\ Own(new) \in SUBSET Slots
  BY DEF Own
<1>2. /\ IsFiniteSet(Own(tab)) /\ Cardinality(Own(tab)) \in Nat
      /\ Cardinality(Own(new)) \in Nat
  BY <1>1, SlotsFinite
<1>3. Cardinality(Own(new)) <= Cardinality(Own(tab))
  BY <1>1, <1>2, FS_Subset
<1>4. QED BY <1>2, <1>3, PoolAssumption

LEMMA ServesFull ==
    ASSUME NEW tab, NEW F, NEW B, Good(tab, F), Full(tab, F, B),
           NEW v \in Slots, tab[v].live, tab[v].listening, tab[v].service = Null,
           NEW X \in SUBSET (Slots \ {v}), NEW new, NEW b, NEW C, NEW q,
           Serves(tab, new, v, X, b, C, q),
           \A x \in X : /\ ~new[x].live \/ (~new[x].listening /\ new[x].service # Null)
                        /\ ~tab[x].live \/ tab[x].service = v,
           NEW G, \A c \in Slots \ X : c \in G <=> c \in F,
           Filled(new, G, B, v)
    PROVE  Full(new, G, B)
<1>1. /\ IsServer(new[v], tab[v], b, C, q)
      /\ \A s \in Slots \ ({v} \cup X) : new[s] = tab[s]
  BY DEF Serves
<1>2. ASSUME NEW w \in Slots
      PROVE  Filled(new, G, B, w)
  <2>1. CASE w \in X
    BY <2>1 DEF Filled
  <2>2. CASE w # v /\ w \notin X
    <3>1. new[w] = tab[w] /\ Filled(tab, F, B, w)
      BY <1>1, <2>2 DEF Full
    <3>2. ASSUME NEW c \in tab[w].clients
          PROVE  c \in Slots \ ({v} \cup X)
      <4>1. c \in Slots /\ tab[c].live /\ tab[c].service = w /\ w # Null
        BY ClientFacts
      <4>2. QED BY <2>2, <4>1
    <3>3. \A c \in tab[w].clients : new[c] = tab[c] /\ (c \in G <=> c \in F)
      BY <1>1, <3>2
    <3>4. \A c \in tab[w].clients : Waits(tab, c) => Waits(new, c)
      BY <3>3 DEF Waits
    <3>5. QED BY <3>1, <3>3, <3>4, FilledFrame
  <2>3. QED BY <2>1, <2>2
<1>3. Own(new) \subseteq Own(tab)
  BY <1>1 DEF Own, IsServer
<1>4. QED BY <1>2, <1>3, OwnBound DEF Full

\* One slot changes, and is no listening socket in the end.
LEMMA ChangeFull ==
    ASSUME NEW tab, NEW F, NEW B, Good(tab, F), Full(tab, F, B), NEW s \in Slots,
           NEW new, \A r \in Slots \ {s} : new[r] = tab[r], ~new[s].live \/ ~new[s].listening,
           NEW G, \A c \in Slots \ {s} : c \in G <=> c \in F,
           tab[s].live /\ tab[s].service # Null =>
             /\ new[s].state = "Listen" <=> tab[s].state = "Listen"
             /\ tab[s].state = "Listen" /\ Waits(tab, s) => Waits(new, s)
             /\ s \in G <=> s \in F,
           Cardinality(Own(new)) <= MaxOpen
    PROVE  Full(new, G, B)
<1>1. ASSUME NEW w \in Slots \ {s}
      PROVE  Filled(new, G, B, w)
  <2>1. new[w] = tab[w] /\ Filled(tab, F, B, w)
    BY DEF Full
  <2>2. ASSUME NEW c \in tab[w].clients
        PROVE  /\ new[c].state = "Listen" <=> tab[c].state = "Listen"
               /\ tab[c].state = "Listen" /\ Waits(tab, c) => Waits(new, c)
               /\ c \in G <=> c \in F
    <3>1. c \in Slots /\ tab[c].live /\ tab[c].service = w /\ w # Null
      BY ClientFacts
    <3>2. CASE c = s
      BY <3>1, <3>2
    <3>3. CASE c # s
      BY <3>1, <3>3 DEF Waits
    <3>4. QED BY <3>2, <3>3
  <2>3. QED BY <2>1, <2>2, FilledFrame
<1>2. Filled(new, G, B, s)
  BY DEF Filled
<1>3. QED BY <1>1, <1>2 DEF Full

\* A listening socket that is closed with its clients.
LEMMA ServiceClosedFull ==
    ASSUME NEW tab, NEW F, NEW B, Good(tab, F), Full(tab, F, B),
           NEW v \in Slots, tab[v].live, tab[v].listening, tab[v].service = Null,
           NEW o \in ServiceDestory(tab, v)
    PROVE  Full(o.tab, F \ ({v} \cup tab[v].clients), B)
<1> DEFINE gone == {v} \cup tab[v].clients
           G    == F \ gone
           new  == [s \in Slots |-> IF s = v \/ s \in tab[v].clients THEN Zeroed ELSE tab[s]]
<1>1. \A c \in tab[v].clients : tab[c].port = tab[v].port
  BY DEF Good, ServerOK
<1>2. o.tab = new
  BY <1>1 DEF ServiceDestory, Done
<1>3. /\ \A s \in Slots : s \in gone => new[s] = Zeroed
      /\ \A s \in Slots : s \notin gone => new[s] = tab[s]
  OBVIOUS
<1>4. ~Zeroed.live
  BY DEF Zeroed, PlainSlot
<1> HIDE DEF new
<1>5. ASSUME NEW w \in Slots
      PROVE  Filled(new, G, B, w)
  <2>1. CASE w \in gone
    BY <1>3, <1>4, <2>1 DEF Filled
  <2>2. CASE w \notin gone
    <3>1. Filled(tab, F, B, w) /\ new[w] = tab[w]
      BY <1>3, <2>2 DEF Full
    <3>2. ASSUME NEW c \in tab[w].clients
          PROVE  c \in Slots \ gone
      <4>1. c \in Slots /\ tab[c].service = w /\ w # Null
        BY ClientFacts
      <4>2. c \in tab[v].clients => tab[c].service = v
        BY ClientFacts
      <4>3. QED BY <2>2, <4>1, <4>2
    <3>3. \A c \in tab[w].clients : new[c] = tab[c] /\ (c \in G <=> c \in F)
      BY <1>3, <3>2
    <3>4. \A c \in tab[w].clients : Waits(tab, c) => Waits(new, c)
      BY <3>3 DEF Waits
    <3>5. QED BY <3>1, <3>3, <3>4, FilledFrame
  <2>3. QED BY <2>1, <2>2
<1>6. Own(new) \subseteq Own(tab)
  BY <1>3, <1>4 DEF Own
<1>7. Full(new, G, B)
  BY <1>5, <1>6, OwnBound DEF Full
<1>8. QED BY <1>2, <1>7

\* A connected client is closed: the server listens again.
LEMMA UnlinkedFull ==
    ASSUME NEW B \in Nat, Roomy(B), NEW tab, NEW F, Good(tab, F), Full(tab, F, B),
           NEW s \in F, NEW v \in Slots,
           NEW N, NEW q, NEW new, Unlinked(tab, new, v, s, N, q), s \in tab[v].clients
    PROVE  Full(new, F \ {s}, B)
<1> DEFINE G == F \ {s}
<1>1. ClosedState(tab, new, v, s, N, q)
  BY UnlinkedLists
<1>2. /\ s \in Slots \ {v} /\ tab[s].live /\ tab[s].service = v
      /\ tab[v].live /\ tab[v].listening /\ tab[v].service = Null /\ v # Null
      /\ new[s] = Zeroed /\ ~Zeroed.live
      /\ new[v].live /\ new[v].listening /\ new[v].queue = q /\ new[v].cap = tab[v].cap
      /\ new[v].backlog = tab[v].backlog + 1
  BY <1>1 DEF ClosedState
<1>3. \A c \in N : /\ c \in Slots \ {v, s} /\ ~tab[c].live
                   /\ new[c].service = v /\ ~new[c].listening /\ Waits(new, c)
  BY <1>1 DEF ClosedState, Waits
<1>4. /\ Busy(new, v) = Busy(tab, v) \ {s} /\ Idle(new, v) = Idle(tab, v) \cup N
      /\ s \notin Idle(tab, v)
      /\ \A c \in tab[v].clients \ {s} : new[c] = tab[c]
  BY <1>1 DEF ClosedState
<1>5. N = {} => tab[v].backlog # 0 /\ q = tab[v].queue
  <2>1. Free(tab) # {} /\ "createFails" \notin Env
    BY RoomLeft DEF Roomy
  <2>2. QED BY <2>1 DEF Unlinked
<1>6. N # {} => q = tab[v].queue
  BY DEF Unlinked
<1>7. /\ N \in SUBSET Slots /\ tab[v].backlog \in Nat
      /\ \E b, C : Serves(tab, new, v, N \cup {s}, b, C, q)
  BY <1>2 DEF Unlinked, Good, ServerOK
<1>8. LET q0 == tab[v].queue
      IN  /\ tab[v].cap <= B
          /\ tab[v].backlog > 0 => Idle(tab, v) # {}
          /\ \A c \in Idle(tab, v) : Waits(tab, c)
          /\ \A i \in 1 .. Len(q0) : q0[i] # Null
          /\ \A c \in Busy(tab, v) \ F : \E i \in 1 .. Len(q0) : q0[i] = c
  BY <1>2 DEF Full, Filled
<1>9. Filled(new, G, B, v)
  <2>1. Idle(new, v) # {}
    BY <1>4, <1>5, <1>7, <1>8
  <2>2. \A c \in Idle(new, v) : Waits(new, c)
    BY <1>3, <1>4, <1>8 DEF Waits, Idle
  <2>3. Busy(new, v) \ G = Busy(tab, v) \ F
    BY <1>4
  <2>4. q = tab[v].queue
    BY <1>5, <1>6
  <2> HIDE DEF G
  <2>5. QED BY <1>2, <1>8, <2>1, <2>2, <2>3, <2>4 DEF Filled
<1>10. N \cup {s} \in SUBSET (Slots \ {v})
  BY <1>2, <1>3, <1>7
<1>11. \A x \in N \cup {s} : /\ ~new[x].live \/ (~new[x].listening /\ new[x].service # Null)
                             /\ ~tab[x].live \/ tab[x].service = v
  BY <1>2, <1>3
<1>12. \A c \in Slots \ (N \cup {s}) : c \in G <=> c \in F
  OBVIOUS
<1> HIDE DEF G
<1>13. Full(new, G, B)
  BY <1>2, <1>7, <1>9, <1>10, <1>11, <1>12, ServesFull
<1>14. QED BY <1>13 DEF G

\* An accept queue that holds connected clients only, once each, has room for one
\* more when the backlog is not used up.
LEMMA QueueHasRoom ==
    ASSUME NEW tab, NEW F, Good(tab, F), NEW v \in Slots, tab[v].live, tab[v].listening,
           tab[v].backlog > 0, \A i \in 1 .. Len(tab[v].queue) : tab[v].queue[i] # Null
    PROVE  Len(tab[v].queue) < tab[v].cap
<1> DEFINE q == tab[v].queue
           K == Busy(tab, v)
<1>1. /\ tab[v].backlog \in Nat /\ tab[v].backlog + Cardinality(K) = tab[v].cap
      /\ QueueOK(tab, F, v) /\ tab[v].cap \in Nat
      /\ q \in Seq(Slots \cup {Null}) /\ K \in SUBSET Slots
  BY DEF Good, ServerOK, Tables, SlotType, Queues, Busy
<1>2. /\ \A i \in 1 .. Len(q) : q[i] \in K
      /\ \A i, j \in 1 .. Len(q) : q[i] = q[j] => i = j
  BY <1>1 DEF QueueOK
<1>3. IsFiniteSet(K) /\ Cardinality(K) \in Nat /\ Len(q) \in Nat
  BY <1>1, SlotsFinite
<1> HIDE DEF q, K
<1> DEFINE n == 1 .. Len(q)
           f == [i \in n |-> q[i]]
<1>4. f \in [n -> K] /\ \A i, j \in n : f[i] = f[j] => i = j
  BY <1>2
<1> HIDE DEF f, n
<1>5. Cardinality(n) <= Cardinality(K)
  <2>1. DOMAIN f = n
    BY <1>4
  <2>2. IsInjective(f)
    BY <1>4, <2>1, Zenon DEF IsInjective
  <2>3. f \in Injection(n, K)
    BY <1>4, <2>2 DEF Injection
  <2>4. QED BY <1>3, <2>3, FS_Injection
<1>6. Cardinality(n) = Len(q)
  <2> DEFINE k == Len(q)
  <2>1. k \in Nat /\ 1 \in Int /\ k \in Int
    BY <1>3
  <2> HIDE DEF k
  <2>2. Cardinality(1 .. k) = IF 1 > k THEN 0 ELSE k - 1 + 1
    BY <2>1, FS_Interval
  <2>3. Cardinality(1 .. k) = k
    BY <2>1, <2>2
  <2>4. QED BY <2>3 DEF k, n
<1>7. Len(q) < tab[v].cap
  BY <1>1, <1>3, <1>5, <1>6
<1>8. QED BY <1>7 DEF q

\* A connection is added: it is queued, and the next client listens.
LEMMA AddedFull ==
    ASSUME NEW B \in Nat, Roomy(B), NEW tab, NEW F, Good(tab, F), Full(tab, F, B),
           NEW v \in Slots, NEW c \in tab[v].clients, "CON" \in tab[c].ir,
           NEW mid, Handled(tab, mid, c),
           NEW N, NEW m, NEW new, Added(mid, new, v, c, N, m)
    PROVE  Full(new, F, B)
<1>1. AddedState(tab, new, mid, v, c, N, m)
  BY AddedLists
<1>2. /\ c \in Slots \ {v} /\ tab[c].live /\ tab[c].service = v
      /\ tab[v].live /\ tab[v].listening /\ tab[v].service = Null /\ v # Null
      /\ mid[v] = tab[v]
      /\ new[c].service = v /\ ~new[c].listening
      /\ new[v].live /\ new[v].listening /\ new[v].cap = tab[v].cap
      /\ new[v].backlog = tab[v].backlog - 1
      /\ new[v].queue = Sent(tab[v], m)
  BY <1>1 DEF AddedState
<1>3. \A d \in N : /\ d \in Slots \ {v, c} /\ ~tab[d].live
                   /\ new[d].service = v /\ ~new[d].listening /\ Waits(new, d)
  BY <1>1 DEF AddedState, Waits
<1>4. /\ Busy(new, v) = Busy(tab, v) \cup {c} /\ Idle(new, v) = N
      /\ c \in Idle(tab, v)
      /\ \E b, C, q : Serves(tab, new, v, N \cup {c}, b, C, q)
  BY <1>1 DEF AddedState
<1>5. LET q0 == tab[v].queue
      IN  /\ tab[v].cap <= B
          /\ \A i \in 1 .. Len(q0) : q0[i] # Null
          /\ \A d \in Busy(tab, v) \ F : \E i \in 1 .. Len(q0) : q0[i] = d
  BY <1>2 DEF Full, Filled
<1>6. /\ tab[v].backlog \in Nat /\ tab[v].backlog > 0
      /\ tab[v].queue \in Seq(Slots \cup {Null})
  BY <1>2, <1>4 DEF Good, ServerOK, Tables, SlotType, Queues
<1>7. /\ N = {} => ~(tab[v].backlog > 1)
      /\ m = c
  <2>1. Free(tab) # {} /\ "createFails" \notin Env
    BY RoomLeft DEF Roomy
  <2>2. \A s \in Slots : mid[s].live <=> tab[s].live
    BY <1>2 DEF Handled
  <2>3. Free(mid) = Free(tab)
    BY <2>2 DEF Free
  <2>4. QED BY <1>2, <2>1, <2>3 DEF Added
<1>8. Filled(new, F, B, v)
  <2> DEFINE q0 == tab[v].queue
             q  == new[v].queue
  <2>1. Len(q0) < tab[v].cap
    BY <1>2, <1>5, <1>6, QueueHasRoom
  <2>2. q = Append(q0, c)
    BY <1>2, <1>7, <2>1 DEF Sent
  <2>3. /\ Len(q0) \in Nat /\ Len(q) = Len(q0) + 1 /\ q[Len(q0) + 1] = c
        /\ \A i \in 1 .. Len(q0) : q[i] = q0[i]
    BY <1>2, <1>6, <2>2
  <2>4. /\ \A i \in 1 .. Len(q0) : q0[i] # Null
        /\ \A d \in Busy(tab, v) \ F : \E i \in 1 .. Len(q0) : q0[i] = d
    BY <1>5
  <2> HIDE DEF q0, q
  <2>5. \A i \in 1 .. Len(q) : i \in 1 .. Len(q0) \/ i = Len(q0) + 1
    BY <2>3
  <2>6. 1 .. Len(q0) \subseteq 1 .. Len(q) /\ Len(q0) + 1 \in 1 .. Len(q)
    BY <2>3
  <2>7. \A i \in 1 .. Len(q) : q[i] # Null
    BY <1>2, <2>3, <2>4, <2>5, PoolAssumption DEF Slots, Null
  <2>8. \A d \in Busy(new, v) \ F : \E i \in 1 .. Len(q) : q[i] = d
    <3>1. ASSUME NEW d \in Busy(new, v) \ F
          PROVE  \E i \in 1 .. Len(q) : q[i] = d
      <4>1. CASE d = c
        BY <2>3, <2>6, <4>1
      <4>2. CASE d # c
        <5>1. d \in Busy(tab, v) \ F
          BY <1>4, <3>1, <4>2
        <5>2. PICK i \in 1 .. Len(q0) : q0[i] = d
          BY <2>4, <5>1
        <5>3. i \in 1 .. Len(q) /\ q[i] = d
          BY <2>3, <2>6, <5>2
        <5>4. QED BY <5>3
      <4>3. QED BY <4>1, <4>2
    <3>2. QED BY <3>1
  <2>9. new[v].backlog > 0 => N # {}
    BY <1>2, <1>6, <1>7
  <2>10. QED BY <1>2, <1>3, <1>4, <1>5, <2>7, <2>8, <2>9 DEF Filled, q
<1>9. N \cup {c} \in SUBSET (Slots \ {v})
  BY <1>2, <1>3
<1>10. \A x \in N \cup {c} : /\ ~new[x].live \/ (~new[x].listening /\ new[x].service # Null)
                             /\ ~tab[x].live \/ tab[x].service = v
  BY <1>2, <1>3
<1>11. QED BY <1>2, <1>4, <1>8, <1>9, <1>10, ServesFull

\* listen() with its first client: tab is the table in which s is a server with
\* no client yet, old the one before.
LEMMA CreatedFull ==
    ASSUME NEW B \in Nat, Roomy(B), NEW old, NEW F, Full(old, F, B),
           NEW s \in Slots, old[s].live, old[s].service = Null,
           NEW tab, Good(tab, F), \A r \in Slots \ {s} : tab[r] = old[r],
           tab[s].live, tab[s].listening, tab[s].service = Null,
           tab[s].clients = {}, tab[s].queue = <<>>,
           tab[s].backlog \in Backlogs, tab[s].cap = tab[s].backlog,
           NEW new, NEW c, Created(tab, new, s, c)
    PROVE  Full(new, F, B)
<1>1. /\ c \in Slots \ {s} /\ ~tab[c].live
      /\ new[c] = Client(s, tab[s].port)
      /\ new[s] = WithClients(tab[s], tab[s].clients \cup {c})
      /\ \A r \in Slots \ {c, s} : new[r] = tab[r]
      /\ tab \in Tables /\ tab[s] \in SlotType /\ tab[s].port \in Nat
  BY DEF Created, Good, Tables, SlotType
<1>2. /\ new[c].state = "Listen" /\ new[c].sr = "LISTEN" /\ new[c].service = s
      /\ ~new[c].listening
  BY <1>1, ClientSlot
<1>3. /\ new[s].clients = {c} /\ new[s].queue = <<>>
      /\ new[s].cap = tab[s].cap /\ new[s].backlog = tab[s].backlog
      /\ new[s].service = Null
  BY <1>1 DEF WithClients, SlotType
<1>4. Filled(new, F, B, s)
  <2>1. Idle(new, s) = {c} /\ Busy(new, s) = {}
    BY <1>2, <1>3 DEF Idle, Busy
  <2>2. tab[s].cap <= B
    BY DEF Roomy
  <2>3. QED BY <1>2, <1>3, <2>1, <2>2 DEF Filled, Waits
<1>5. ASSUME NEW w \in Slots \ {s}
      PROVE  Filled(new, F, B, w)
  <2>1. CASE w = c
    BY <1>2, <2>1 DEF Filled
  <2>2. CASE w # c
    <3>1. new[w] = old[w] /\ Filled(old, F, B, w) /\ tab[w] = old[w]
      BY <1>1, <2>2 DEF Full
    <3>2. ASSUME NEW d \in tab[w].clients
          PROVE  new[d] = old[d]
      <4>1. d \in Slots /\ tab[d].live /\ tab[d].service = w /\ w # Null
        BY ClientFacts
      <4>2. d # s /\ d # c
        BY <1>1, <4>1
      <4>3. QED BY <1>1, <4>1, <4>2
    <3>3. \A d \in old[w].clients : Waits(old, d) => Waits(new, d)
      BY <3>1, <3>2 DEF Waits
    <3>4. QED BY <3>1, <3>2, <3>3, FilledFrame
  <2>3. QED BY <2>1, <2>2
<1>6. Own(new) \subseteq Own(old)
  <2>1. ASSUME NEW r \in Own(new)
        PROVE  r \in Own(old)
    <3>1. r \in Slots /\ new[r].live /\ new[r].service = Null
      BY <2>1 DEF Own
    <3>2. CASE r = c
      BY <1>1, <1>2, <3>1, <3>2, PoolAssumption DEF Slots, Null
    <3>3. CASE r = s
      BY <3>3 DEF Own
    <3>4. CASE r # c /\ r # s
      BY <1>1, <3>1, <3>4 DEF Own
    <3>5. QED BY <3>2, <3>3, <3>4
  <2>2. QED BY <2>1
<1>7. QED BY <1>4, <1>5, <1>6, OwnBound DEF Full

\* accept() takes the head of the queue, and the application has it.
LEMMA PopFull ==
    ASSUME NEW B \in Nat, NEW tab, NEW F, Good(tab, F), Full(tab, F, B),
           NEW v \in Slots, tab[v].live, tab[v].listening, tab[v].queue # <<>>
    PROVE  LET c == Head(tab[v].queue)
           IN  c # Null /\ Full([tab EXCEPT ![v].queue = Tail(@)], F \cup {c}, B)
<1> DEFINE q0  == tab[v].queue
           q   == Tail(q0)
           c   == Head(q0)
           new == [tab EXCEPT ![v].queue = Tail(@)]
           G   == F \cup {c}
<1>1. /\ tab \in Tables /\ tab[v] \in SlotType
      /\ q0 \in Seq(Slots \cup {Null}) /\ q0 # <<>>
  BY DEF Good, Tables, SlotType, Queues
<1>2. /\ Len(q0) \in Nat \ {0} /\ Len(q) = Len(q0) - 1 /\ q0[1] = c
      /\ \A i \in 1 .. Len(q) : q[i] = q0[i + 1] /\ i + 1 \in 1 .. Len(q0)
  BY <1>1
<1>3. new[v] = WithQueue(tab[v], q) /\ \A s \in Slots \ {v} : new[s] = tab[s]
  BY <1>1 DEF Tables, WithQueue
<1>4. /\ new[v].live /\ new[v].listening
      /\ new[v].cap = tab[v].cap /\ new[v].backlog = tab[v].backlog
      /\ new[v].clients = tab[v].clients /\ new[v].queue = q
      /\ new[v].service = tab[v].service
  BY <1>1, <1>3 DEF WithQueue, SlotType
<1>5. /\ tab[v].cap <= B
      /\ tab[v].backlog > 0 => Idle(tab, v) # {}
      /\ \A d \in Idle(tab, v) : Waits(tab, d)
      /\ \A i \in 1 .. Len(q0) : q0[i] # Null
      /\ \A d \in Busy(tab, v) \ F : \E i \in 1 .. Len(q0) : q0[i] = d
  BY DEF Full, Filled
<1> HIDE DEF q0, q, new, c
<1>6. c # Null /\ \A i \in 1 .. Len(q) : q[i] # Null
  BY <1>2, <1>5
<1>7. \A d \in tab[v].clients : d \in Slots \ {v} /\ new[d] = tab[d]
  <2>1. ASSUME NEW d \in tab[v].clients
        PROVE  d \in Slots \ {v}
    BY ClientFacts
  <2>2. QED BY <1>3, <2>1
<1>8. Idle(new, v) = Idle(tab, v) /\ Busy(new, v) = Busy(tab, v)
  BY <1>4, <1>7 DEF Idle, Busy
<1>9. Filled(new, G, B, v)
  <2>1. \A d \in Idle(new, v) : Waits(new, d)
    BY <1>5, <1>7, <1>8 DEF Waits, Idle
  <2>2. ASSUME NEW d \in Busy(new, v) \ G
        PROVE  \E i \in 1 .. Len(q) : q[i] = d
    <3>1. d \in Busy(tab, v) \ F /\ d # c
      BY <1>8
    <3>2. PICK i \in 1 .. Len(q0) : q0[i] = d
      BY <1>5, <3>1
    <3>3. i # 1
      BY <1>2, <3>1, <3>2
    <3>4. i - 1 \in 1 .. Len(q) /\ (i - 1) + 1 = i
      BY <1>2, <3>2, <3>3
    <3>5. q[i - 1] = d
      BY <1>2, <3>2, <3>4
    <3>6. QED BY <3>4, <3>5
  <2> HIDE DEF G
  <2>3. QED BY <1>4, <1>5, <1>6, <1>8, <2>1, <2>2 DEF Filled
<1>10. c \in Busy(tab, v) \ F
  <2>1. QueueOK(tab, F, v) /\ 1 \in 1 .. Len(q0)
    BY <1>2 DEF Good, ServerOK
  <2>2. QED BY <1>2, <1>6, <2>1 DEF QueueOK, q0
<1>11. ASSUME NEW w \in Slots \ {v}
       PROVE  Filled(new, G, B, w)
  <2>1. new[w] = tab[w] /\ Filled(tab, F, B, w)
    BY <1>3 DEF Full
  <2>2. ASSUME NEW d \in tab[w].clients
        PROVE  /\ new[d].state = "Listen" <=> tab[d].state = "Listen"
               /\ tab[d].state = "Listen" /\ Waits(tab, d) => Waits(new, d)
               /\ d \in G <=> d \in F
    <3>1. d \in Slots /\ tab[d].live /\ tab[d].service = w /\ w # Null
      BY ClientFacts
    <3>2. tab[v].service = Null
      BY DEF Good, OwnedBut, SocketOK
    <3>3. tab[c].service = v
      BY <1>10, ClientFacts DEF Busy
    <3>4. d # v /\ d # c
      BY <3>1, <3>2, <3>3
    <3>5. QED BY <1>3, <3>1, <3>4 DEF Waits
  <2> HIDE DEF G
  <2>3. QED BY <2>1, <2>2, FilledFrame
<1>12. Own(new) \subseteq Own(tab)
  BY <1>3, <1>4 DEF Own
<1>13. Cardinality(Own(new)) <= MaxOpen
  BY <1>12, OwnBound DEF Full
<1>14. Full(new, G, B)
  BY <1>9, <1>11, <1>13 DEF Full
<1>15. QED BY <1>6, <1>14 DEF new, c, q0

\* A socket the application gives up is closed.
LEMMA CloseFull ==
    ASSUME NEW B \in Nat, Roomy(B), NEW tab, NEW F, Good(tab, F), Full(tab, F, B),
           NEW s \in F, NEW o \in CloseSocket(tab, s), o.fault # "nullSocket"
    PROVE  Full(o.tab, F \ ({s} \cup tab[s].clients), B)
<1>1. /\ s \in Slots /\ tab[s].live /\ tab \in Tables /\ OwnedBut(tab, {}) /\ Tame
  BY DEF Good, Roomy, Tame
<1>2. CASE tab[s].service # Null
  <2> DEFINE v == tab[s].service
  <2>1. v \in Slots /\ s \in tab[v].clients /\ tab[s].clients = {}
    BY <1>1, <1>2, ListsOfOthers DEF OwnedBut
  <2>2. PICK N, q : Unlinked(tab, o.tab, v, s, N, q)
    BY <1>1, <1>2, CloseClientEffect
  <2> HIDE DEF v
  <2>3. Full(o.tab, F \ {s}, B)
    BY <2>1, <2>2, UnlinkedFull
  <2>4. {s} \cup tab[s].clients = {s}
    BY <2>1
  <2>5. QED BY <2>3, <2>4
<1>3. CASE tab[s].service = Null /\ tab[s].listening
  <2>1. o \in ServiceDestory(tab, s)
    BY <1>1, <1>3 DEF CloseSocket
  <2>2. QED BY <1>1, <1>3, <2>1, ServiceClosedFull
<1>4. CASE tab[s].service = Null /\ ~tab[s].listening
  <2> DEFINE new == [tab EXCEPT ![s] = Zeroed]
             G   == F \ {s}
  <2>1. o.tab = new
    BY <1>1, <1>4 DEF CloseSocket, Done
  <2>2. /\ new[s] = Zeroed /\ ~Zeroed.live /\ ~new[s].live
        /\ \A r \in Slots \ {s} : new[r] = tab[r]
    BY <1>1 DEF Tables, Zeroed, PlainSlot
  <2>3. tab[s].clients = {}
    BY <1>1, <1>4, ListsOfOthers
  <2>4. \A c \in Slots \ {s} : c \in G <=> c \in F
    OBVIOUS
  <2> HIDE DEF new, G
  <2>5. Own(new) \subseteq Own(tab)
    BY <2>2 DEF Own
  <2>6. Cardinality(Own(new)) <= MaxOpen
    BY <2>5, OwnBound DEF Full
  <2>7. Full(new, G, B)
    BY <1>1, <1>4, <2>2, <2>4, <2>6, ChangeFull
  <2>8. {s} \cup tab[s].clients = {s}
    BY <2>3
  <2>9. QED BY <2>1, <2>7, <2>8 DEF G
<1>5. QED BY <1>2, <1>3, <1>4

-----------------------------------------------------------------------------
(* The steps, when nothing fails and no socket is wanting                  *)

QueueInv(B) == ServiceInv /\ Full(slot, fds, B)

LEMMA SocketFull ==
    ASSUME NEW B \in Nat, Roomy(B), QueueInv(B), NEW type \in {"TCP", "UDP"}, Socket(type)
    PROVE  Full(slot', fds', B)
<1>1. type = "TCP" /\ "createFails" \notin Env
  BY DEF Roomy, Socket
<1>2. PICK o \in SocketCreate(slot, "TCP", AnyPort) :
        /\ Finish(o)
        /\ fds' = IF o.res = Null THEN fds ELSE fds \cup {o.res}
  BY <1>1 DEF Socket
<1>3. /\ Good(slot, fds) /\ Full(slot, fds, B) /\ slot \in Tables
  BY DEF QueueInv, ServiceInv, Good
<1>4. Free(slot) # {}
  BY <1>3, RoomLeft
<1> DEFINE s == FirstFree(slot)
           r == Fresh("TCP", AnyPort)
<1>5. s \in Slots /\ ~slot[s].live /\ s # Null
  BY <1>4, FirstFreeIsFree, PoolAssumption DEF Free, Slots, Null
<1>6. slot' = [slot EXCEPT ![s] = r] /\ fds' = fds \cup {s}
  BY <1>1, <1>2, <1>4, <1>5 DEF SocketCreate, Finish, Done
<1>7. r.live /\ r.service = Null /\ ~r.listening
  BY DEF Fresh, PlainSlot
<1> HIDE DEF s, r
<1>8. slot'[s] = r /\ \A q \in Slots \ {s} : slot'[q] = slot[q]
  BY <1>3, <1>5, <1>6 DEF Tables
<1>9. Cardinality(Own(slot')) <= MaxOpen
  <2>1. Own(slot') \subseteq Own(slot) \cup {s} /\ s \notin Own(slot)
    BY <1>5, <1>8 DEF Own
  <2>2. Own(slot) = OpenPlain
    BY DEF Own, OpenPlain
  <2>3. Cardinality(Own(slot)) < MaxOpen
    BY <2>2 DEF Socket
  <2>4. /\ Own(slot) \in SUBSET Slots /\ Own(slot') \in SUBSET Slots
        /\ Own(slot) \cup {s} \in SUBSET Slots
    BY <1>5 DEF Own
  <2>5. /\ IsFiniteSet(Own(slot)) /\ IsFiniteSet(Own(slot) \cup {s})
        /\ Cardinality(Own(slot)) \in Nat /\ Cardinality(Own(slot')) \in Nat
    BY <2>4, SlotsFinite
  <2>6. Cardinality(Own(slot) \cup {s}) = Cardinality(Own(slot)) + 1
    BY <2>1, <2>5, FS_AddElement
  <2>7. Cardinality(Own(slot')) <= Cardinality(Own(slot) \cup {s})
    BY <2>1, <2>5, FS_Subset
  <2>8. QED BY <2>3, <2>5, <2>6, <2>7, PoolAssumption
<1>10. /\ ~slot'[s].live \/ ~slot'[s].listening
       /\ \A c \in Slots \ {s} : c \in fds' <=> c \in fds
       /\ ~(slot[s].live /\ slot[s].service # Null)
  BY <1>5, <1>6, <1>7, <1>8
<1>11. QED BY <1>3, <1>5, <1>8, <1>9, <1>10, ChangeFull

\* bind(), connect() and the chip: a client that waits goes on to wait.
LEMMA AssignFull ==
    ASSUME NEW B \in Nat, QueueInv(B), NEW s \in Slots, slot[s].live, ~slot[s].listening,
           \A r \in Slots \ {s} : slot'[r] = slot[r],
           slot'[s].live, ~slot'[s].listening, slot'[s].service = slot[s].service,
           fds' = fds,
           slot[s].service # Null =>
             /\ slot'[s].state = "Listen" <=> slot[s].state = "Listen"
             /\ slot[s].state = "Listen" /\ Waits(slot, s) => Waits(slot', s)
    PROVE  Full(slot', fds', B)
<1>1. Good(slot, fds) /\ Full(slot, fds, B)
  BY DEF QueueInv, ServiceInv
<1>2. Own(slot') \subseteq Own(slot)
  BY DEF Own
<1>3. Cardinality(Own(slot')) <= MaxOpen
  BY <1>1, <1>2, OwnBound DEF Full
<1>4. QED BY <1>1, <1>3, ChangeFull

LEMMA ChangeFullStep ==
    ASSUME NEW B \in Nat, Roomy(B), QueueInv(B), NEW s \in Slots,
           Bind(s) \/ Connect(s) \/ ConnectElse(s) \/ ChipStep(s)
    PROVE  Full(slot', fds', B)
<1>1. /\ Good(slot, fds) /\ SocketOK(slot, s) /\ slot \in Tables
      /\ slot[s] \in SlotType /\ ~Zeroed.live /\ Zeroed.sr = "CLOSED"
  BY DEF QueueInv, ServiceInv, Good, Tables, Zeroed, PlainSlot
<1>2. ~HandshakeTimeout(s)
  BY DEF HandshakeTimeout, Roomy
<1>3. CASE Bind(s) \/ Connect(s) \/ ConnectElse(s)
  <2>1. /\ slot[s].live /\ slot[s].service = Null /\ ~slot[s].listening
        /\ fds' = fds
    <3>1. CASE Bind(s)
      BY <3>1 DEF Bind, Plain, Roomy
    <3>2. CASE Connect(s) \/ ConnectElse(s)
      BY <1>1, <3>2 DEF Connect, ConnectElse, Plain, SocketOK
    <3>3. QED BY <1>3, <3>1, <3>2
  <2>2. \E port, st, sr, ir : slot' = [slot EXCEPT ![s] = Assigned(slot[s], port, st, sr, ir)]
    <3>1. CASE Bind(s)
      <4>1. PICK p \in Ports, opened \in BOOLEAN :
              slot' = [slot EXCEPT ![s].port = p,
                                   ![s].state = IF opened THEN "Init" ELSE @,
                                   ![s].sr = IF ~opened THEN "CLOSED"
                                             ELSE IF slot[s].type = "TCP" THEN "INIT" ELSE "UDP",
                                   ![s].ir = {}]
        BY <3>1, Zenon DEF Bind
      <4>2. slot' = [slot EXCEPT ![s] =
                       Assigned(slot[s], p, IF opened THEN "Init" ELSE slot[s].state,
                                IF ~opened THEN "CLOSED"
                                ELSE IF slot[s].type = "TCP" THEN "INIT" ELSE "UDP", {})]
        BY <4>1 DEF Assigned
      <4>3. QED BY <4>2
    <3>2. CASE Connect(s)
      <4>1. \/ slot' = [slot EXCEPT ![s] = Assigned(slot[s], slot[s].port, "Established",
                                                    "ESTABLISHED", slot[s].ir \cup {"CON"})]
            \/ slot' = [slot EXCEPT ![s] = Assigned(slot[s], slot[s].port, slot[s].state,
                                                    "CLOSED", slot[s].ir)]
        BY <1>1, <3>2, Zenon DEF Connect, Assigned
      <4>2. QED BY <4>1
    <3>3. CASE ConnectElse(s)
      <4>1. slot' = [slot EXCEPT ![s] = Assigned(slot[s], slot[s].port, "Established",
                                                 slot[s].sr, slot[s].ir)]
        BY <1>1, <3>3 DEF ConnectElse, Assigned
      <4>2. QED BY <4>1
    <3>4. QED BY <1>3, <3>1, <3>2, <3>3
  <2>3. PICK port, st, sr, ir : slot' = [slot EXCEPT ![s] = Assigned(slot[s], port, st, sr, ir)]
    BY <2>2
  <2>4. slot'[s] = Assigned(slot[s], port, st, sr, ir) /\ \A r \in Slots \ {s} : slot'[r] = slot[r]
    BY <1>1, <2>3 DEF Tables
  <2>5. slot'[s].live /\ ~slot'[s].listening /\ slot'[s].service = slot[s].service
    BY <1>1, <2>1, <2>4 DEF Assigned, SlotType
  <2>6. QED BY <2>1, <2>4, <2>5, AssignFull
<1>4. CASE PeerConnect(s)
  <2> DEFINE n == Assigned(slot[s], slot[s].port, slot[s].state, "ESTABLISHED",
                           slot[s].ir \cup {"CON"})
  <2>1. slot[s].live /\ ~slot[s].listening /\ fds' = fds
    BY <1>1, <1>4 DEF PeerConnect, SocketOK
  <2>2. slot' = [slot EXCEPT ![s] = n]
    BY <1>1, <1>4 DEF PeerConnect, Assigned
  <2>3. /\ n.live /\ ~n.listening /\ n.service = slot[s].service
        /\ n.state = slot[s].state /\ "CON" \in n.ir
    BY <1>1, <2>1 DEF Assigned, SlotType
  <2> HIDE DEF n
  <2>4. slot'[s] = n /\ \A r \in Slots \ {s} : slot'[r] = slot[r]
    BY <1>1, <2>2 DEF Tables
  <2>5. QED BY <2>1, <2>3, <2>4, AssignFull DEF Waits
<1>5. CASE PeerClose(s)
  <2>1. PICK after \in {"CLOSE_WAIT", "CLOSED"} :
          slot' = [slot EXCEPT ![s].sr = after, ![s].ir = @ \cup {"DISCON"}]
    BY <1>5 DEF PeerClose
  <2> DEFINE n == Assigned(slot[s], slot[s].port, slot[s].state, after,
                           slot[s].ir \cup {"DISCON"})
  <2>2. slot[s].sr \in {"ESTABLISHED", "CLOSE_WAIT"} /\ fds' = fds
    BY <1>5 DEF PeerClose
  <2>3. slot[s].live /\ ~slot[s].listening
    BY <1>1, <2>2 DEF SocketOK
  <2>4. slot' = [slot EXCEPT ![s] = n]
    BY <1>1, <2>1 DEF Assigned
  <2>5. /\ n.live /\ ~n.listening /\ n.service = slot[s].service
        /\ n.state = slot[s].state /\ ("CON" \in slot[s].ir => "CON" \in n.ir)
    BY <1>1, <2>3 DEF Assigned, SlotType
  <2> HIDE DEF n
  <2>6. slot'[s] = n /\ \A r \in Slots \ {s} : slot'[r] = slot[r]
    BY <1>1, <2>4 DEF Tables
  <2>7. Waits(slot, s) => Waits(slot', s)
    BY <2>2, <2>5, <2>6 DEF Waits
  <2>8. QED BY <2>2, <2>3, <2>5, <2>6, <2>7, AssignFull
<1>6. QED BY <1>2, <1>3, <1>4, <1>5 DEF ChipStep

LEMMA ListenFull ==
    ASSUME NEW B \in Nat, Roomy(B), QueueInv(B), NEW s \in Slots, Listen(s),
           fault' # "nullSocket"
    PROVE  Full(slot', fds', B)
<1>1. Tame /\ ServiceInv /\ Good(slot, fds) /\ Full(slot, fds, B) /\ "createFails" \notin Env
  BY DEF QueueInv, ServiceInv, Roomy, Tame
<1>2. /\ fds' = fds /\ slot[s].live /\ slot[s].service = Null
      /\ \E tab, c : /\ Served(tab, s)
                     /\ \/ Created(tab, slot', s, c)
                        \/ Free(tab) = {} \/ "createFails" \in Env
  BY <1>1, ListenStep
<1>3. PICK tab, c : /\ Served(tab, s)
                    /\ \/ Created(tab, slot', s, c)
                       \/ Free(tab) = {} \/ "createFails" \in Env
  BY <1>2
<1>4. /\ Good(tab, fds) /\ \A r \in Slots \ {s} : tab[r] = slot[r]
      /\ tab[s].live /\ tab[s].listening /\ tab[s].service = Null
      /\ tab[s].clients = {} /\ tab[s].queue = <<>>
      /\ tab[s].backlog \in Backlogs /\ tab[s].cap = tab[s].backlog
  BY <1>3 DEF Served
<1>5. Free(tab) = Free(slot)
  BY <1>2, <1>4 DEF Free
<1>6. Created(tab, slot', s, c)
  BY <1>1, <1>3, <1>5, RoomLeft
<1>7. Full(slot', fds, B)
  BY <1>1, <1>2, <1>4, <1>6, CreatedFull
<1>8. QED BY <1>2, <1>7

LEMMA AcceptFull ==
    ASSUME NEW B \in Nat, Roomy(B), QueueInv(B), NEW v \in Slots, Accept(v),
           fault' # "nullSocket"
    PROVE  Full(slot', fds', B)
<1> DEFINE c      == Head(slot[v].queue)
           popped == [slot EXCEPT ![v].queue = Tail(@)]
           F      == fds \cup {c}
<1>1. /\ Good(slot, fds) /\ Full(slot, fds, B) /\ Tame
      /\ slot[v].live /\ slot[v].listening /\ slot[v].queue # <<>>
  BY DEF QueueInv, ServiceInv, Accept, Service, Roomy, Tame
<1>2. c # Null /\ Full(popped, F, B)
  BY <1>1, PopFull
<1>3. /\ Good(popped, IF c = Null THEN fds ELSE F)
      /\ c # Null => c \in slot[v].clients \ fds /\ c \in Slots \ {v} /\ popped[c] = slot[c]
  BY <1>1, PopGood
<1>4. \/ slot' = popped /\ fds' = F
      \/ fds' = fds /\ \E o \in CloseSocket(popped, c) : Finish(o)
  BY <1>2 DEF Accept
<1>5. Good(popped, F) /\ c \in F /\ c \notin fds /\ c \in Slots /\ popped[c] = slot[c]
      /\ c \in slot[v].clients
  BY <1>2, <1>3
<1> HIDE DEF c, popped, F
<1>6. CASE slot' = popped /\ fds' = F
  BY <1>2, <1>6
<1>7. CASE fds' = fds /\ \E o \in CloseSocket(popped, c) : Finish(o)
  <2>1. PICK o \in CloseSocket(popped, c) : Finish(o)
    BY <1>7
  <2>2. Full(o.tab, F \ ({c} \cup popped[c].clients), B)
    BY <1>2, <1>5, <2>1, CloseFull DEF Finish
  <2>3. popped[c].clients = {}
    <3>1. ~slot[c].listening
      BY <1>1, <1>5, ClientFacts
    <3>2. popped \in Tables /\ OwnedBut(popped, {})
      BY <1>5 DEF Good
    <3>3. QED BY <1>5, <3>1, <3>2, ListsOfOthers
  <2>4. F \ ({c} \cup popped[c].clients) = fds
    BY <1>5, <2>3 DEF F
  <2>5. slot' = o.tab
    BY <2>1 DEF Finish
  <2>6. QED BY <1>7, <2>2, <2>4, <2>5
<1>8. QED BY <1>4, <1>6, <1>7

LEMMA InterruptFull ==
    ASSUME NEW B \in Nat, Roomy(B), QueueInv(B), NEW s \in Slots, HandleInterrupt(s),
           fault' # "nullSocket"
    PROVE  Full(slot', fds', B)
<1>1. Tame /\ ServiceInv /\ Good(slot, fds) /\ Full(slot, fds, B)
  BY DEF QueueInv, ServiceInv, Roomy, Tame
<1>2. /\ fds' = fds /\ slot[s].live
      /\ \/ Settled(s)
         \/ /\ "CON" \in slot[s].ir
            /\ \E v \in Slots : \E mid, N, m :
                 /\ s \in slot[v].clients
                 /\ Handled(slot, mid, s) /\ Added(mid, slot', v, s, N, m)
  BY <1>1, InterruptStep
<1>3. CASE Settled(s)
  <2>1. /\ \A r \in Slots \ {s} : slot'[r] = slot[r]
        /\ slot'[s].live /\ ~slot'[s].listening
        /\ slot'[s].service = slot[s].service
        /\ slot[s].service # Null => slot[s].state # "Listen" /\ slot'[s].state # "Listen"
    BY <1>3 DEF Settled
  <2>2. Own(slot') \subseteq Own(slot)
    BY <1>2, <2>1 DEF Own
  <2>3. Cardinality(Own(slot')) <= MaxOpen
    BY <1>1, <2>2, OwnBound DEF Full
  <2>4. QED BY <1>1, <1>2, <2>1, <2>3, ChangeFull
<1>4. CASE /\ "CON" \in slot[s].ir
           /\ \E v \in Slots : \E mid, N, m :
                /\ s \in slot[v].clients
                /\ Handled(slot, mid, s) /\ Added(mid, slot', v, s, N, m)
  <2>0. PICK v \in Slots :
          \E mid, N, m :
            /\ s \in slot[v].clients
            /\ Handled(slot, mid, s) /\ Added(mid, slot', v, s, N, m)
    BY <1>4
  <2>1. PICK mid, N, m :
          /\ s \in slot[v].clients
          /\ Handled(slot, mid, s) /\ Added(mid, slot', v, s, N, m)
    BY <2>0
  <2>2. QED BY <1>1, <1>2, <1>4, <2>1, AddedFull
<1>5. QED BY <1>2, <1>3, <1>4

LEMMA CloseFullStep ==
    ASSUME NEW B \in Nat, Roomy(B), QueueInv(B), NEW s \in Slots, Close(s),
           fault' # "nullSocket"
    PROVE  Full(slot', fds', B)
<1>1. /\ Good(slot, fds) /\ Full(slot, fds, B) /\ s \in fds
      /\ fds' = fds \ ({s} \cup slot[s].clients)
  BY DEF QueueInv, ServiceInv, Close, Roomy
<1>2. PICK o \in CloseSocket(slot, s) : Finish(o)
  BY DEF Close
<1>3. QED BY <1>1, <1>2, CloseFull DEF Finish

LEMMA NextQueues ==
    ASSUME NEW B \in Nat, Roomy(B), QueueInv(B), Next
    PROVE  QueueInv(B)'
<1>1. Tame /\ ServiceInv
  BY DEF QueueInv, Roomy, Tame
<1>9. fault' # "nullSocket"
  <2>1. /\ slot \in Tables /\ Good(slot, fds) /\ Full(slot, fds, B)
        /\ sweep \in 0 .. MaxSock
    BY PoolAssumption DEF QueueInv, ServiceInv, Good
  <2>2. Free(slot) # {}
    BY <2>1, RoomLeft
  <2>3. QED BY <2>1, <2>2, NextTraps
<1>2. ServiceInv'
  BY <1>1, <1>9, NextServes
<1>3. ASSUME NEW t \in {"TCP", "UDP"}, Socket(t)
      PROVE  Full(slot', fds', B)
  BY <1>3, SocketFull
<1>4. ASSUME NEW s \in Slots, AppStep(s)
      PROVE  Full(slot', fds', B)
  BY <1>4, <1>9, ChangeFullStep, ListenFull, AcceptFull, CloseFullStep DEF AppStep
<1>5. ASSUME NEW s \in Slots, HandleInterrupt(s) \/ ChipStep(s)
      PROVE  Full(slot', fds', B)
  BY <1>5, <1>9, InterruptFull, ChangeFullStep
<1>6. ~StartSweep /\ ~SweepSocket
  BY <1>1, PoolAssumption DEF StartSweep, Roomy, SweepSocket, ServiceInv
<1>7. Full(slot', fds', B)
  BY <1>3, <1>4, <1>5, <1>6 DEF Next
<1>8. QED BY <1>2, <1>7 DEF QueueInv

LEMMA InitQueues ==
    ASSUME NEW B \in Nat, Init
    PROVE  QueueInv(B)
<1>1. \A s \in Slots : slot[s] = Zeroed /\ ~slot[s].live
  BY DEF Init, Zeroed, PlainSlot
<1>2. Own(slot) = {}
  BY <1>1 DEF Own
<1>3. Cardinality(Own(slot)) <= MaxOpen
  BY <1>2, FS_EmptySet, PoolAssumption
<1>4. \A v \in Slots : Filled(slot, fds, B, v)
  BY <1>1 DEF Filled
<1>5. QED BY <1>3, <1>4, InitServes DEF QueueInv, Full

LEMMA QueueInvariant ==
    ASSUME NEW B \in Nat, Roomy(B)
    PROVE  Spec => []QueueInv(B)
<1>1. QueueInv(B) /\ [Next]_vars => QueueInv(B)'
  <2>1. CASE UNCHANGED vars
    BY <2>1 DEF QueueInv, ServiceInv, vars
  <2>2. CASE Next
    BY <2>2, NextQueues
  <2>3. QED BY <2>1, <2>2
<1>2. Init => QueueInv(B)
  BY InitQueues
<1>3. QED BY <1>1, <1>2, PTL DEF Spec

\* With a hardware socket for every client that the servers can have, and one more,
\* no call meets a full table, and nothing stops the program at all.
THEOREM RoomyTableSuffices ==
    ASSUME NEW B \in Nat, Roomy(B)
    PROVE  Spec => []TableSuffices
<1>1. QueueInv(B) => TableSuffices
  BY DEF QueueInv, ServiceInv, TableSuffices
<1>2. QED BY QueueInvariant, <1>1, PTL

\* What the application has not been given of the connections of a server is in
\* its accept queue, once each, and nothing else is there: for every size of the
\* table, every number of servers it has room for and every backlog, no
\* connection is dropped, given twice or overtaken by a -1.
THEOREM QueueAlwaysHoldsUnaccepted ==
    ASSUME NEW B \in Nat, Roomy(B)
    PROVE  Spec => []QueueHoldsUnaccepted
<1>1. QueueInv(B) => QueueHoldsUnaccepted
  <2> SUFFICES ASSUME QueueInv(B), NEW v \in Slots, Service(v)
               PROVE  /\ {slot[v].queue[i] : i \in DOMAIN slot[v].queue} = Connected(v) \ fds
                      /\ \A i, j \in DOMAIN slot[v].queue :
                           i # j => slot[v].queue[i] # slot[v].queue[j]
    BY DEF QueueHoldsUnaccepted
  <2> DEFINE q == slot[v].queue
  <2>1. Connected(v) = Busy(slot, v)
    BY DEF Connected, Busy
  <2>2. /\ slot[v].live /\ slot[v].listening
        /\ ServerOK(slot, fds, v) /\ Filled(slot, fds, B, v)
        /\ q \in Seq(Slots \cup {Null})
    BY DEF QueueInv, ServiceInv, Good, Full, Service, Tables, SlotType, Queues
  <2>3. /\ \A i \in 1 .. Len(q) : q[i] # Null => q[i] \in Busy(slot, v) \ fds
        /\ \A i, j \in 1 .. Len(q) : q[i] # Null /\ q[i] = q[j] => i = j
    BY <2>2 DEF ServerOK, QueueOK
  <2>4. /\ \A i \in 1 .. Len(q) : q[i] # Null
        /\ \A c \in Busy(slot, v) \ fds : \E i \in 1 .. Len(q) : q[i] = c
    BY <2>2 DEF Filled
  <2>5. DOMAIN q = 1 .. Len(q)
    BY <2>2
  <2> HIDE DEF q
  <2>6. {q[i] : i \in DOMAIN q} = Connected(v) \ fds
    BY <2>1, <2>3, <2>4, <2>5
  <2>7. \A i, j \in DOMAIN q : i # j => q[i] # q[j]
    BY <2>3, <2>4, <2>5
  <2>8. QED BY <2>6, <2>7 DEF q
<1>2. QED BY QueueInvariant, <1>1, PTL

\* As long as the backlog of a server lasts exactly one client listens for it, on
\* the chip or with its connection still to be handled, and none when it is used
\* up: no server goes deaf, and none is connected to more than it asked for.
THEOREM AlwaysOneListener ==
    ASSUME NEW B \in Nat, Roomy(B)
    PROVE  Spec => []OneListener
<1>1. QueueInv(B) => OneListener
  <2> SUFFICES ASSUME QueueInv(B), NEW v \in Slots, Service(v)
               PROVE  LET idle == slot[v].clients \ Connected(v)
                      IN  /\ Cardinality(idle) = (IF slot[v].backlog > 0 THEN 1 ELSE 0)
                          /\ \A c \in idle : slot[c].sr = "LISTEN" \/ "CON" \in slot[c].ir
    BY DEF OneListener
  <2> DEFINE idle == slot[v].clients \ Connected(v)
  <2>1. idle = Idle(slot, v)
    BY DEF Connected, Idle
  <2>2. /\ slot[v].live /\ slot[v].listening
        /\ ServerOK(slot, fds, v) /\ Filled(slot, fds, B, v)
    BY DEF QueueInv, ServiceInv, Good, Full, Service
  <2>3. /\ \A c, d \in Idle(slot, v) : c = d
        /\ Idle(slot, v) # {} <=> slot[v].backlog > 0
        /\ \A c \in Idle(slot, v) : Waits(slot, c)
    BY <2>2 DEF ServerOK, Filled
  <2> HIDE DEF idle
  <2>4. Cardinality(idle) = IF slot[v].backlog > 0 THEN 1 ELSE 0
    <3>1. CASE slot[v].backlog > 0
      <4>1. PICK c : c \in idle
        BY <2>1, <2>3, <3>1
      <4>2. idle = {c}
        BY <2>1, <2>3, <4>1
      <4>3. QED BY <3>1, <4>2, FS_Singleton
    <3>2. CASE ~(slot[v].backlog > 0)
      BY <2>1, <2>3, <3>2, FS_EmptySet
    <3>3. QED BY <3>1, <3>2
  <2>5. \A c \in idle : slot[c].sr = "LISTEN" \/ "CON" \in slot[c].ir
    BY <2>1, <2>3 DEF Waits
  <2>6. QED BY <2>4, <2>5 DEF idle
<1>2. QED BY QueueInvariant, <1>1, PTL
=============================================================================
