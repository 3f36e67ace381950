----------------------------- MODULE ListenPool -----------------------------
(***************************************************************************)
(* The socket table of RyanW5500Socket.c and the listening sockets built   *)
(* on it.  The W5500 can accept one connection per hardware socket, so a   *)
(* listening socket keeps a list of client sockets, one of which listens;  *)
(* when that one is connected the W5500 task queues it for accept() and    *)
(* creates the next, as long as the backlog counter is positive.           *)
(*                                                                         *)
(* Every call of the application and every socket handled by the W5500     *)
(* task is one step.  A call that can end in more than one way is an       *)
(* operator that returns the set of its outcomes: the table it leaves, the *)
(* value it returns and the fault (a failed RT_ASSERT, a NULL or double    *)
(* freed pointer) at which the program stops.  What the code leaves        *)
(* undefined is one outcome for each thing that may come of it.            *)
(***************************************************************************)
EXTENDS Integers, Sequences, FiniteSets

CONSTANTS MaxSock,   \* RyanW5500MaxSocketNum
          Backlogs,  \* the values passed to listen()
          Ports,     \* port numbers; the first is the one socket() assigns
          AnyPort,
          MaxOpen,   \* bound: sockets the application has open, besides clients
          Env        \* what the environment may do, a subset of Behaviours

Behaviours ==
    {"createFails",        \* rt_mutex_create or wizchip_socket fails
     "mallocFails",        \* no memory for a RyanW5500ClientInfo
     "listenFails",        \* the chip does not reach SOCK_LISTEN
     "handshakeTimesOut",  \* a SYN is answered but never acknowledged
     "datagram",           \* the application also opens UDP sockets
     "rebind",             \* bind() on a socket that listens
     "relisten",           \* listen() on a socket whose connection has ended
     "staleFds",           \* descriptors of accepted sockets are used after
                           \* the listening socket is closed
     "reconfigure"}        \* the address changes: the W5500 task closes all

ASSUME PoolAssumption ==
    /\ MaxSock \in Nat \ {0}
    /\ Backlogs \subseteq Int
    /\ Ports \subseteq Nat
    /\ AnyPort \in Ports
    /\ MaxOpen \in Nat
    /\ Env \subseteq Behaviours

VARIABLES slot,    \* RyanW5500Sockets[], its serviceInfo and the chip's Sn_SR, Sn_IR
          fault,   \* why the program stopped, or "none"
          fds,     \* descriptors the application holds
          sweep    \* next socket RyanW5500NetWorkInit closes; MaxSock: not closing

vars == <<slot, fault, fds, sweep>>

Slots == 0 .. MaxSock - 1
Null  == -1

SocketStates == {"Init", "Established", "Listen", "Close"}
ChipStates   == {"CLOSED", "INIT", "LISTEN", "ESTABLISHED", "CLOSE_WAIT", "UDP"}
Interrupts   == {"CON", "DISCON"}
Types        == {"none", "TCP", "UDP"}
Faults       == {"none", "nullSocket", "nullRead", "doubleFree", "assertService",
                 "assertPort", "assertBacklog"}

\* A RyanW5500Socket with no serviceInfo, in state Init, and its hardware socket.
PlainSlot(live, type, port, service, sr) ==
    [live |-> live, type |-> type, port |-> port, state |-> "Init",
     service |-> service, listening |-> FALSE, backlog |-> 0, clients |-> {},
     queue |-> <<>>, cap |-> 0, sr |-> sr, ir |-> {}]

\* The slot after memset, its hardware socket closed.
Zeroed == PlainSlot(FALSE, "none", 0, 0, "CLOSED")

\* The slot as RyanW5500SocketCreate fills it.
Fresh(type, port) ==
    PlainSlot(TRUE, type, port, Null, IF type = "TCP" THEN "INIT" ELSE "UDP")

Done(tab, res)  == [tab |-> tab, res |-> res, fault |-> "none"]
Stop(tab, why)  == [tab |-> tab, res |-> Null, fault |-> why]

-----------------------------------------------------------------------------
(* Operators: one per function of RyanW5500Socket.c                        *)

\* Mutant of Free: a closed hardware socket is taken for a free slot.
FreeIfClosed(tab) == {s \in Slots : ~tab[s].live \/ tab[s].sr = "CLOSED"}

Free(tab)      == {s \in Slots : ~tab[s].live}
FirstFree(tab) == CHOOSE s \in Free(tab) : \A r \in Free(tab) : s <= r

\* RyanW5500SocketCreate: its error path reads sock->socket, and sock is NULL
\* when the table is full.  The read stops the program, or returns a number that
\* is no socket, which wiz_closesocket refuses.
SocketCreate(tab, type, port) ==
    IF Free(tab) = {}
    THEN {Stop(tab, "nullSocket"), Done(tab, Null)}
    ELSE LET s == FirstFree(tab)
         IN  {Done([tab EXCEPT ![s] = Fresh(type, port)], s)}
             \cup (IF "createFails" \in Env
                   THEN {Done([tab EXCEPT ![s] = Zeroed], Null)} ELSE {})

\* The part of RyanW5500CreateListenClient after SocketCreate returned c.  A
\* failing malloc leaves c outside every list; a failing wizchip_listen has the
\* client closed, and its ClientInfo freed, by wiz_closesocket and once more.
ListenOn(tab, v, c) ==
    LET owned  == [tab EXCEPT ![c].service = v]
        listed == [owned EXCEPT ![v].clients = @ \cup {c}]
    IN  (IF tab[c].type = "TCP"
         THEN {Done([listed EXCEPT ![c].state = "Listen", ![c].sr = "LISTEN"], c)}
         ELSE {})
        \cup (IF "mallocFails" \in Env THEN {Done(owned, Null)} ELSE {})
        \cup (IF "listenFails" \in Env \/ tab[c].type # "TCP"
              THEN {Stop(listed, "doubleFree")} ELSE {})

\* RyanW5500CreateListenClient
CreateListenClient(tab, v) ==
    UNION {IF o.res = Null THEN {o} ELSE ListenOn(o.tab, v, o.res) :
             o \in SocketCreate(tab, tab[v].type, tab[v].port)}

\* Mutant of MqSend: the queue is created one message too small.
MqSendShort(tab, v, m) ==
    [tab EXCEPT ![v].queue = IF Len(@) < tab[v].cap - 1 THEN Append(@, m) ELSE @]

\* rt_mq_send to the accept queue: a full queue drops the message.
MqSend(tab, v, m) ==
    [tab EXCEPT ![v].queue = IF Len(@) < tab[v].cap THEN Append(@, m) ELSE @]

\* Mutants of ReturnToBacklog: the count precedes the test for 0; a failure to
\* listen again returns before the count.
ReturnCountedFirst(tab, v, c) ==
    {Done([tab EXCEPT ![v].clients = @ \ {c}, ![v].backlog = @ + 1], Null)}

ReturnIfListening(tab, v, c) ==
    LET unlinked == [tab EXCEPT ![v].clients = @ \ {c}]
        counted(t) == [t EXCEPT ![v].backlog = @ + 1]
    IN  IF tab[v].backlog = 0
        THEN {IF o.fault # "none" THEN o
              ELSE Done(IF o.res = Null THEN MqSend(o.tab, v, Null) ELSE counted(o.tab), Null) :
                o \in CreateListenClient(unlinked, v)}
        ELSE {Done(counted(unlinked), Null)}

\* The body of RyanW5500ListenSocketDestory once the client is found: unlink it,
\* listen again if no connection was left, and count the client as free.
ReturnToBacklog(tab, v, c) ==
    LET unlinked == [tab EXCEPT ![v].clients = @ \ {c}]
        counted(t) == [t EXCEPT ![v].backlog = @ + 1]
        relisten(o) ==
            IF o.fault # "none" THEN o
            ELSE Done(counted(IF o.res = Null THEN MqSend(o.tab, v, Null) ELSE o.tab), Null)
    IN  IF tab[v].backlog = 0
        THEN {relisten(o) : o \in CreateListenClient(unlinked, v)}
        ELSE {Done(counted(unlinked), Null)}

\* RyanW5500ListenSocketDestory
ListenSocketDestory(tab, c) ==
    LET v == tab[c].service
    IN  CASE ~(tab[v].live /\ tab[v].listening) -> {Stop(tab, "assertService")}
          [] tab[v].live /\ tab[v].listening /\ tab[c].port # tab[v].port ->
               {Stop(tab, "assertPort")}
          [] OTHER -> IF c \in tab[v].clients THEN ReturnToBacklog(tab, v, c)
                                              ELSE {Done(tab, Null)}

\* Mutant of ServiceDestory: the clients are left to the application.
ServiceDestoryAlone(tab, v) == {Done([tab EXCEPT ![v] = Zeroed], Null)}

\* A listening socket: every client of its list is unlinked and closed, then
\* the queue and the serviceInfo are freed.
ServiceDestory(tab, v) ==
    IF \E c \in tab[v].clients : tab[c].port # tab[v].port
    THEN {Stop(tab, "assertPort")}
    ELSE {Done([s \in Slots |-> IF s = v \/ s \in tab[v].clients THEN Zeroed ELSE tab[s]],
               Null)}

\* wiz_closesocket and RyanW5500SocketDestory: whatever the chip answers, the
\* hardware socket ends closed, its interrupts cleared and its slot zeroed.
CloseSocket(tab, s) ==
    IF ~tab[s].live THEN {Done(tab, Null)}
    ELSE IF tab[s].service # Null
         THEN {[o EXCEPT !.tab = IF o.fault = "none" THEN [@ EXCEPT ![s] = Zeroed] ELSE @] :
                 o \in ListenSocketDestory(tab, s)}
         ELSE IF tab[s].listening THEN ServiceDestory(tab, s)
              ELSE {Done([tab EXCEPT ![s] = Zeroed], Null)}

\* Mutants of AddClient: one client too many; the last connection is not queued.
AddClientTooMany(tab, v, c) ==
    LET taken == [tab EXCEPT ![v].backlog = @ - 1, ![c].state = "Established"]
    IN  IF ~(tab[v].backlog > 0) THEN {Stop(tab, "assertBacklog")}
        ELSE {Done(MqSend(o.tab, v, c), Null) : o \in CreateListenClient(taken, v)}

AddClientUnqueued(tab, v, c) ==
    LET taken == [tab EXCEPT ![v].backlog = @ - 1, ![c].state = "Established"]
    IN  IF taken[v].backlog > 0
        THEN {Done(MqSend(o.tab, v, c), Null) : o \in CreateListenClient(taken, v)}
        ELSE {Done(taken, Null)}

\* RyanListenServiceAddClient: the connection is counted, the next client is
\* created while the backlog lasts, and the connected one is queued; when no
\* next client could be created the queue gets -1 instead of the connection.
AddClient(tab, v, c) ==
    LET taken == [tab EXCEPT ![v].backlog = @ - 1, ![c].state = "Established"]
        queued(o) ==
            IF o.fault # "none" THEN o
            ELSE Done(MqSend(o.tab, v, IF o.res = Null THEN Null ELSE c), Null)
    IN  IF ~(tab[v].backlog > 0) THEN {Stop(tab, "assertBacklog")}
        ELSE IF taken[v].backlog > 0
             THEN {queued(o) : o \in CreateListenClient(taken, v)}
             ELSE {Done(MqSend(taken, v, c), Null)}

\* wizIntDataTask on Sn_IR_CON: it uses what RyanW5500GetSock returns for the
\* socket and for its server without looking for NULL.
HandleCon(tab, s) ==
    LET v == tab[s].service
    IN  IF ~tab[s].live \/ (v # Null /\ ~tab[v].live) THEN {Stop(tab, "nullRead")}
        ELSE IF v # Null /\ tab[v].state = "Listen" /\ tab[s].port = tab[v].port
             THEN AddClient(tab, v, s)
             ELSE {Done(tab, Null)}

Finish(outcome) == /\ slot' = outcome.tab
                   /\ fault' = outcome.fault

\* A failed assertion or a misused pointer is the end of the program.
Running == fault = "none"

-----------------------------------------------------------------------------
(* The application                                                         *)

\* Sockets the application opened itself.
Plain(s)   == s \in fds /\ slot[s].live /\ slot[s].service = Null
Service(v) == slot[v].live /\ slot[v].listening
OpenPlain  == {s \in Slots : slot[s].live /\ slot[s].service = Null}

\* wiz_socket
Socket(type) ==
    /\ Running
    /\ Cardinality(OpenPlain) < MaxOpen
    /\ type = "TCP" \/ "datagram" \in Env
    /\ \E o \in SocketCreate(slot, type, AnyPort) :
         /\ Finish(o)
         /\ fds' = IF o.res = Null THEN fds ELSE fds \cup {o.res}
    /\ UNCHANGED sweep

\* wiz_bind to another port than the present one closes and reopens the
\* hardware socket.
Bind(s) ==
    /\ Running
    /\ Plain(s)
    /\ ~slot[s].listening \/ "rebind" \in Env
    /\ \E p \in Ports \ {slot[s].port}, opened \in {TRUE, "createFails" \notin Env} :
         slot' = [slot EXCEPT ![s].port = p,
                              ![s].state = IF opened THEN "Init" ELSE @,
                              ![s].sr = IF ~opened THEN "CLOSED"
                                        ELSE IF slot[s].type = "TCP" THEN "INIT" ELSE "UDP",
                              ![s].ir = {}]
    /\ UNCHANGED <<fault, fds, sweep>>

\* wiz_connect on a socket the chip can connect.
Connect(s) ==
    /\ Running
    /\ Plain(s)
    /\ slot[s].state = "Init"
    /\ slot[s].sr = "INIT"
    /\ \/ slot' = [slot EXCEPT ![s].state = "Established", ![s].sr = "ESTABLISHED",
                               ![s].ir = @ \cup {"CON"}]
       \/ slot' = [slot EXCEPT ![s].sr = "CLOSED"]    \* refused or timed out
    /\ UNCHANGED <<fault, fds, sweep>>

\* wiz_connect in any other chip state: a UDP socket records the address; the
\* default branch counts an error and goes on to report the connection.
ConnectElse(s) ==
    /\ Running
    /\ Plain(s)
    /\ slot[s].state = "Init"
    /\ slot[s].sr # "INIT"
    /\ slot' = [slot EXCEPT ![s].state = "Established"]
    /\ UNCHANGED <<fault, fds, sweep>>

\* wiz_listen: when no client could be created serviceInfo is freed again, and
\* the socket stays in state Listen.
Opened(r, b) == [r EXCEPT !.listening = TRUE, !.state = "Listen", !.clients = {},
                          !.backlog = IF b > 0 THEN b ELSE 0,
                          !.queue = <<>>, !.cap = IF b > 0 THEN b ELSE 1]
Freed(r)     == [r EXCEPT !.listening = FALSE, !.clients = {}, !.backlog = 0,
                          !.queue = <<>>, !.cap = 0]

Listen(s) ==
    /\ Running
    /\ Plain(s)
    /\ slot[s].state # "Established"
    /\ slot[s].state # "Close" \/ "relisten" \in Env
    /\ ~slot[s].listening
    /\ \E b \in Backlogs :
         \E o \in CreateListenClient([slot EXCEPT ![s] = Opened(@, b)], s) :
           IF o.fault = "none" /\ o.res = Null
           THEN Finish(Done([o.tab EXCEPT ![s] = Freed(@)], Null))
           ELSE Finish(o)
    /\ UNCHANGED <<fds, sweep>>

\* Mutant of Accept: a connection that is handed out stays in the queue.
AcceptUnpopped(v) ==
    /\ Running
    /\ v \in fds
    /\ Service(v)
    /\ slot[v].state = "Listen"
    /\ slot[v].queue # <<>>
    /\ LET c      == Head(slot[v].queue)
           popped == [slot EXCEPT ![v].queue = Tail(@)]
       IN  \/ /\ c = Null
              /\ slot' = popped
              /\ UNCHANGED <<fault, fds>>
           \/ /\ c # Null
              /\ slot[c].sr = "ESTABLISHED"
              /\ fds' = fds \cup {c}
              /\ UNCHANGED <<slot, fault>>
           \/ /\ c # Null
              /\ slot[c].sr # "ESTABLISHED"
              /\ \E o \in CloseSocket(popped, c) : Finish(o)
              /\ UNCHANGED fds
    /\ UNCHANGED sweep

\* wiz_accept, from the moment the queue has a message.
Accept(v) ==
    /\ Running
    /\ v \in fds
    /\ Service(v)
    /\ slot[v].state = "Listen"
    /\ slot[v].queue # <<>>
    /\ LET c      == Head(slot[v].queue)
           popped == [slot EXCEPT ![v].queue = Tail(@)]
       IN  \/ /\ c = Null
              /\ slot' = popped
              /\ UNCHANGED <<fault, fds>>
           \/ /\ c # Null
              /\ slot[c].sr = "ESTABLISHED"
              /\ slot' = popped
              /\ fds' = fds \cup {c}
              /\ UNCHANGED fault
           \/ /\ c # Null
              /\ slot[c].sr # "ESTABLISHED"
              /\ \E o \in CloseSocket(popped, c) : Finish(o)
              /\ UNCHANGED fds
    /\ UNCHANGED sweep

\* wiz_closesocket (and wiz_shutdown, which calls it).  Unless descriptors go
\* stale the application knows that closing a listening socket closes what it
\* accepted, and forgets those descriptors too.
Close(s) ==
    /\ Running
    /\ s \in fds
    /\ \E o \in CloseSocket(slot, s) : Finish(o)
    /\ fds' = fds \ ({s} \cup (IF "staleFds" \in Env THEN {} ELSE slot[s].clients))
    /\ UNCHANGED sweep

-----------------------------------------------------------------------------
(* The W5500 task                                                          *)

\* wizIntDataTask for one socket: read and clear Sn_IR, then the disconnect
\* (RyanW5500CloseCallback), then the connect.
HandleInterrupt(s) ==
    /\ Running
    /\ sweep = MaxSock
    /\ slot[s].ir # {}
    /\ LET sn_ir   == slot[s].ir
           cleared == [slot EXCEPT ![s].ir = {}]
           closed  == IF "DISCON" \in sn_ir /\ slot[s].live
                      THEN [cleared EXCEPT ![s].state = "Close"] ELSE cleared
       IN  \E o \in IF "CON" \in sn_ir THEN HandleCon(closed, s) ELSE {Done(closed, Null)} :
             Finish(o)
    /\ UNCHANGED <<fds, sweep>>

\* RyanW5500NetWorkInit with netDevSetDevInfo or netDevDHCPDisable set: close
\* socket 0, 1, ... in turn; the application runs in between.
StartSweep ==
    /\ Running
    /\ "reconfigure" \in Env
    /\ sweep = MaxSock
    /\ sweep' = 0
    /\ UNCHANGED <<slot, fault, fds>>

SweepSocket ==
    /\ Running
    /\ sweep < MaxSock
    /\ \E o \in CloseSocket(slot, sweep) : Finish(o)
    /\ sweep' = sweep + 1
    /\ UNCHANGED fds

-----------------------------------------------------------------------------
(* The chip and the peers                                                  *)

PeerConnect(s) ==
    /\ Running
    /\ slot[s].sr = "LISTEN"
    /\ slot' = [slot EXCEPT ![s].sr = "ESTABLISHED", ![s].ir = @ \cup {"CON"}]
    /\ UNCHANGED <<fault, fds, sweep>>

\* The peer's FIN, or its RST.
PeerClose(s) ==
    /\ Running
    /\ slot[s].sr \in {"ESTABLISHED", "CLOSE_WAIT"}
    /\ \E after \in {"CLOSE_WAIT", "CLOSED"} \ {slot[s].sr} :
         slot' = [slot EXCEPT ![s].sr = after, ![s].ir = @ \cup {"DISCON"}]
    /\ UNCHANGED <<fault, fds, sweep>>

\* SOCK_SYNRECV without an answer: the chip goes to SOCK_CLOSED and raises only
\* Sn_IR_TIMEOUT, which RyanW5500SnIMR does not enable.
HandshakeTimeout(s) ==
    /\ Running
    /\ "handshakeTimesOut" \in Env
    /\ slot[s].sr = "LISTEN"
    /\ slot' = [slot EXCEPT ![s].sr = "CLOSED"]
    /\ UNCHANGED <<fault, fds, sweep>>

-----------------------------------------------------------------------------
Init == /\ slot = [s \in Slots |-> Zeroed]
        /\ fault = "none"
        /\ fds = {}
        /\ sweep = MaxSock

AppStep(s)  == Bind(s) \/ Connect(s) \/ ConnectElse(s) \/ Listen(s) \/ Accept(s) \/ Close(s)
ChipStep(s) == PeerConnect(s) \/ PeerClose(s) \/ HandshakeTimeout(s)

Next == \/ \E t \in {"TCP", "UDP"} : Socket(t)
        \/ \E s \in Slots : AppStep(s) \/ HandleInterrupt(s) \/ ChipStep(s)
        \/ StartSweep
        \/ SweepSocket

Spec == Init /\ [][Next]_vars

\* The W5500 task wakes at the latest after its one second wait, so a pending
\* interrupt is handled; a server thread calls accept again and again.
FairSpec == /\ Spec
            /\ \A s \in Slots : /\ WF_vars(HandleInterrupt(s))
                                /\ WF_vars(Accept(s))

-----------------------------------------------------------------------------
(* Properties                                                              *)

Queues == Seq(Slots \cup {Null})

SlotType == [live : BOOLEAN, type : Types, port : Nat, state : SocketStates,
             service : Slots \cup {Null}, listening : BOOLEAN, backlog : Int,
             clients : SUBSET Slots, queue : Queues, cap : Nat,
             sr : ChipStates, ir : SUBSET Interrupts]

\* Type invariant of the socket table.
TypeOK == /\ slot \in [Slots -> SlotType]
          /\ fault \in Faults
          /\ fds \subseteq Slots
          /\ sweep \in 0 .. MaxSock

\* A slot that names a listening socket is in exactly that socket's list, and
\* whatever is in a list is a live client of its owner, on the same port and of
\* the same type: no list holds a closed or reused slot, and no client is lost.
Owned(tab) ==
    /\ \A c \in Slots : tab[c].live /\ tab[c].service # Null =>
         LET v == tab[c].service
         IN  v \in Slots /\ tab[v].live /\ tab[v].listening /\ c \in tab[v].clients
    /\ \A v \in Slots : \A c \in tab[v].clients :
         /\ tab[v].live /\ tab[v].listening /\ tab[v].service = Null
         /\ tab[c].live /\ tab[c].service = v /\ tab[c].type = tab[v].type

ClientListsOwn == fault = "none" => Owned(slot)

Connected(v) == {c \in slot[v].clients : slot[c].state # "Listen"}

\* The backlog counter and the clients that have been connected and not yet
\* closed always add up to what listen() was given, also when no next client can
\* be created, unless the program has stopped in the middle of a call.
BacklogAccounts ==
    Running => \A v \in Slots : Service(v) =>
      slot[v].backlog >= 0 /\ slot[v].backlog + Cardinality(Connected(v)) = slot[v].cap

\* The accept queue holds every connected client the application has not got
\* yet, once each, and nothing else: no connection is dropped or given twice.
QueueHoldsUnaccepted ==
    \A v \in Slots : Service(v) =>
      /\ {slot[v].queue[i] : i \in DOMAIN slot[v].queue} = Connected(v) \ fds
      /\ \A i, j \in DOMAIN slot[v].queue : i # j => slot[v].queue[i] # slot[v].queue[j]

\* A server whose backlog is not used up has exactly one client that listens,
\* on the chip too unless its connection is still to be handled; one whose
\* backlog is used up has none.
OneListener ==
    \A v \in Slots : Service(v) =>
      LET idle == slot[v].clients \ Connected(v)
      IN  /\ Cardinality(idle) = (IF slot[v].backlog > 0 THEN 1 ELSE 0)
          /\ \A c \in idle : slot[c].sr = "LISTEN" \/ "CON" \in slot[c].ir

\* No assertion of the socket layer fails, nothing is freed twice and the W5500
\* task finds the sockets it works on: of all that may stop the program only the
\* read of sock->socket at a full table is left (RyanW5500Socket.c:431).
NoFault == fault \in {"none", "nullSocket"}

\* No socket is asked for while the table is full, where RyanW5500SocketCreate
\* would read sock->socket through NULL: with a slot for every client of a backlog
\* and one more, for the client that is created before the slot of the one it
\* replaces is free, the table suffices, since every slot is given back.
TableSuffices == fault # "nullSocket"

\* A call or an interrupt leaves the sockets behind the application's other
\* descriptors alone: a descriptor stays open on the same kind of socket, of the
\* same server, until it is given up.
DescriptorsKept ==
    [][\A f \in fds \cap fds' : slot[f].live =>
         /\ slot'[f].live
         /\ slot'[f].type = slot[f].type
         /\ slot'[f].service = slot[f].service]_vars

\* What accept() takes from the queue, to hand it out or to close it because its
\* peer has gone, is a live client of the socket it was called on, and one that
\* the application does not hold.
AcceptGivesConnection ==
    [][\A v \in Slots : Accept(v) =>
         LET c == Head(slot[v].queue)
         IN  c # Null => c \in Slots \ fds /\ slot[c].live /\ slot[c].service = v]_vars

\* A peer's connection reaches the application or ends.
ConnectionServed ==
    \A s \in Slots :
      (slot[s].sr = "ESTABLISHED" /\ slot[s].service # Null)
        ~> (s \in fds \/ slot[s].sr # "ESTABLISHED")
=============================================================================
