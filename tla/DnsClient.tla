----------------------------- MODULE DnsClient -----------------------------
(***************************************************************************)
(* The resolver: threads in wiz_gethostbyname_r or wiz_getaddrinfo, which  *)
(* run DNS_run one after the other under dnsMutexHandle; the UDP socket    *)
(* and the globals DNS_run works with; a DNS server; and a network that    *)
(* loses, delays and, if Env says so, duplicates packets.  A packet may be *)
(* delayed beyond the end of the run it belongs to.                        *)
(*                                                                         *)
(* A message is what the client tells apart: the records of the answer and *)
(* whether the server reports an error.  All queries carry the same number *)
(* (DNS_MSGID is set to DNS_MSG_ID in every run) and the client compares   *)
(* neither it nor the question, so a reply has neither; the host it is     *)
(* about is there for the properties only.                                 *)
(*                                                                         *)
(* A timeout may come whenever nothing has been received.  Once it has     *)
(* come DNS_run sends nothing: `len` holds the received size, 0, and       *)
(* wizchip_sendto refuses to send 0 bytes.                                 *)
(***************************************************************************)
EXTENDS Integers, Sequences, FiniteSets

CONSTANTS Threads,
          Hosts,      \* names that are looked up
          Slots,      \* hardware sockets that are left for the resolver
          MaxRetry,   \* MAX_DNS_RETRY
          MaxPackets, \* bound: replies under way, and datagrams in a socket
          Env         \* a subset of Behaviours

Behaviours == {"createFails",   \* the socket table may be full
               "longNames",     \* an alias may be longer than MAXCNAME
               "duplicates"}    \* the network may deliver a packet twice

ASSUME DnsAssumption ==
    /\ MaxRetry \in Nat \ {0} /\ MaxPackets \in Nat
    /\ Env \subseteq Behaviours
    /\ IsFiniteSet(Threads)

VARIABLES mutex,            \* who holds dnsMutexHandle: {} or {t}
          dnsSocket,        \* DNS_SOCKET
          open, rx,         \* the open UDP sockets, what they have received
          queries, replies, \* packets under way
          th,               \* the threads
          stale             \* the hosts whose packets were under way when the
                            \* last socket was opened: for the properties only

net  == <<queries, replies>>
chip == <<open, rx>>
vars == <<mutex, dnsSocket, chip, net, th, stale>>

-----------------------------------------------------------------------------
(* Messages                                                                *)

ShortAlias == [type |-> "CNAME", long |-> FALSE]
LongAlias  == [type |-> "CNAME", long |-> TRUE]

\* The address of a host stands for it.
A(h) == [type |-> "A", addr |-> h]

\* Answers of the server: the address, an alias before it, or an error.
Answers(h) ==
    LET aliases == {ShortAlias} \cup (IF "longNames" \in Env THEN {LongAlias} ELSE {})
    IN  {[host |-> h, error |-> FALSE, recs |-> <<al, A(h)>>] : al \in aliases}
          \cup {[host |-> h, error |-> FALSE, recs |-> <<A(h)>>],
                [host |-> h, error |-> TRUE,  recs |-> <<>>]}

AllAnswers == UNION {Answers(h) : h \in Hosts}

NoAddr == "0.0.0.0"

\* ip_from_dns after the answer section: the address of the last A record, or
\* still zeroes.
LastAddress(recs) ==
    LET as == {i \in 1 .. Len(recs) : recs[i].type = "A"}
    IN  IF as = {} THEN NoAddr
        ELSE recs[CHOOSE i \in as : \A j \in as : j <= i].addr

\* parseDNSMSG fails on a name that is too long and on an error of the server;
\* RyanW5500_gethostbyname fails on an address of zeroes too.
Parse(msg) ==
    IF \/ \E i \in 1 .. Len(msg.recs) : msg.recs[i].type = "CNAME" /\ msg.recs[i].long
       \/ msg.error
    THEN NoAddr
    ELSE LastAddress(msg.recs)

-----------------------------------------------------------------------------
(* RyanW5500_gethostbyname                                                 *)

PCs == {"idle", "lock", "open", "query", "poll", "close", "unlock"}

Goto(t, pc) == th' = [th EXCEPT ![t].pc = pc]
At(t, pc)   == th[t].pc = pc

\* A thread: where it is, the name, the retries and the address found.
Idle(h) == [pc |-> "idle", host |-> h, retries |-> 0, addr |-> NoAddr]

Call(t) ==
    /\ At(t, "idle")
    /\ \E h \in Hosts : th' = [th EXCEPT ![t] = [Idle(h) EXCEPT !.pc = "lock"]]
    /\ UNCHANGED <<mutex, dnsSocket, chip, net, stale>>

Lock(t) ==
    /\ At(t, "lock")
    /\ mutex = {}
    /\ mutex' = {t}
    /\ Goto(t, "open")
    /\ UNCHANGED <<dnsSocket, chip, net, stale>>

Unlock(t) ==
    /\ At(t, "unlock")
    /\ mutex' = {}
    /\ Goto(t, "idle")
    /\ UNCHANGED <<dnsSocket, chip, net, stale>>

-----------------------------------------------------------------------------
(* DNS_run                                                                 *)

\* The hosts that packets under way are about.
UnderWay == queries \cup {msg.host : msg \in replies}

\* Mutant of Open: the socket keeps what it has received before.
OpenAsIs(t) ==
    /\ At(t, "open")
    /\ \/ \E s \in Slots \ open :
            /\ open' = open \cup {s}
            /\ dnsSocket' = s
            /\ Goto(t, "query")
       \/ /\ "createFails" \in Env \/ Slots = open
          /\ Goto(t, "unlock")
          /\ UNCHANGED <<open, dnsSocket>>
    /\ stale' = UnderWay
    /\ UNCHANGED <<mutex, rx, net>>

\* RyanW5500SocketCreate, which closes and opens the hardware socket; DNS_SOCKET
\* is set.  Without a socket the run ends with -2.
Open(t) ==
    /\ At(t, "open")
    /\ \/ \E s \in Slots \ open :
            /\ open' = open \cup {s}
            /\ rx' = [rx EXCEPT ![s] = <<>>]
            /\ dnsSocket' = s
            /\ Goto(t, "query")
       \/ /\ "createFails" \in Env \/ Slots = open
          /\ Goto(t, "unlock")
          /\ UNCHANGED <<chip, dnsSocket>>
    /\ stale' = UnderWay
    /\ UNCHANGED <<mutex, net>>

\* dns_makequery and wizchip_sendto, whose result is not looked at: a query that
\* is not sent is one that gets lost.
Query(t) ==
    /\ At(t, "query")
    /\ queries' = queries \cup {th[t].host}
    /\ Goto(t, "poll")
    /\ UNCHANGED <<mutex, dnsSocket, chip, replies, stale>>

\* The first datagram received is the answer, whoever sent it.
Poll(t) ==
    /\ At(t, "poll")
    /\ rx[dnsSocket] # <<>>
    /\ th' = [th EXCEPT ![t].pc = "close", ![t].addr = Parse(Head(rx[dnsSocket]))]
    /\ rx' = [rx EXCEPT ![dnsSocket] = Tail(@)]
    /\ UNCHANGED <<mutex, dnsSocket, open, net, stale>>

\* Mutant of Timeout: the last retry returns at once.
TimeoutReturns(t) ==
    /\ At(t, "poll")
    /\ rx[dnsSocket] = <<>>
    /\ th' = [th EXCEPT ![t].retries = @ + 1,
                        ![t].pc = IF th[t].retries + 1 >= MaxRetry THEN "unlock" ELSE @]
    /\ UNCHANGED <<mutex, dnsSocket, chip, net, stale>>

\* Mutant of Timeout: the timeouts are not counted.
TimeoutUncounted(t) ==
    /\ At(t, "poll")
    /\ rx[dnsSocket] = <<>>
    /\ UNCHANGED vars

\* DNS_WAIT_TIME is over: the attempt to send again fails, and after MAX_DNS_RETRY
\* of them the run ends with 0.
Timeout(t) ==
    /\ At(t, "poll")
    /\ rx[dnsSocket] = <<>>
    /\ th' = [th EXCEPT ![t].retries = @ + 1,
                        ![t].pc = IF th[t].retries + 1 >= MaxRetry THEN "close" ELSE @]
    /\ UNCHANGED <<mutex, dnsSocket, chip, net, stale>>

\* wiz_closesocket(DNS_SOCKET); retry_count is local to the run that ends.
Close(t) ==
    /\ At(t, "close")
    /\ open' = open \ {dnsSocket}
    /\ th' = [th EXCEPT ![t].pc = "unlock", ![t].retries = 0]
    /\ UNCHANGED <<mutex, dnsSocket, rx, net, stale>>

-----------------------------------------------------------------------------
(* The server and the network                                              *)

\* The server answers a query, or the query or the answer is lost.
Answer ==
    \E h \in queries :
      /\ \/ /\ Cardinality(replies) < MaxPackets
            /\ \E msg \in Answers(h) : replies' = replies \cup {msg}
         \/ UNCHANGED replies
      /\ \/ queries' = queries \ {h}
         \/ "duplicates" \in Env /\ UNCHANGED queries
      /\ UNCHANGED <<mutex, dnsSocket, chip, th, stale>>

\* A reply reaches a socket, all of which are bound to port 53, or none.
Arrive ==
    \E msg \in replies :
      /\ \/ \E s \in open :
              /\ Len(rx[s]) < MaxPackets
              /\ rx' = [rx EXCEPT ![s] = Append(@, msg)]
         \/ UNCHANGED rx
      /\ \/ replies' = replies \ {msg}
         \/ "duplicates" \in Env /\ UNCHANGED replies
      /\ UNCHANGED <<mutex, dnsSocket, open, queries, th, stale>>

-----------------------------------------------------------------------------
Init ==
    /\ mutex = {} /\ open = {} /\ queries = {} /\ replies = {} /\ stale = {}
    /\ dnsSocket \in Slots
    /\ rx = [s \in Slots |-> <<>>]
    /\ th \in [Threads -> {Idle(h) : h \in Hosts}]

Run(t) == \/ Open(t) \/ Query(t) \/ Poll(t) \/ Timeout(t) \/ Close(t)
          \/ Unlock(t)

Next == \/ \E t \in Threads : Call(t) \/ Lock(t) \/ Run(t)
        \/ Answer \/ Arrive

Spec == Init /\ [][Next]_vars

\* The threads run, timers expire, and dnsMutexHandle (RT_IPC_FLAG_FIFO) is given
\* to each that waits for it; the network owes nothing.
FairSpec == Spec /\ \A t \in Threads : WF_vars(Run(t)) /\ SF_vars(Lock(t))

-----------------------------------------------------------------------------
(* Properties                                                              *)

\* Type invariant of the resolver.
TypeOK ==
    /\ mutex \subseteq Threads /\ Cardinality(mutex) <= 1
    /\ dnsSocket \in Slots
    /\ open \subseteq Slots
    /\ rx \in [Slots -> Seq(AllAnswers)]
    /\ queries \subseteq Hosts /\ stale \subseteq Hosts
    /\ replies \subseteq AllAnswers
    /\ th \in [Threads -> [pc : PCs, host : Hosts, retries : 0 .. MaxRetry,
                           addr : {NoAddr} \cup Hosts]]

\* An address that a lookup finds is that of the host that was asked for, or of a
\* host whose packets were under way when it opened its socket: nothing that a
\* socket received for an earlier run is taken, and no other thread queries while
\* it runs.  With nothing under way then, the address is the host's.
AddressIsHosts ==
    \A t \in mutex : th[t].addr \in {NoAddr, th[t].host} \cup stale

\* A run gives its socket back on every path: the resolver holds one at most, and
\* none between two runs.
SocketGivenBack == Cardinality(open) <= Cardinality(mutex)

\* A lookup ends, whatever the network does and however many threads look up.
LookupEnds == \A t \in Threads : At(t, "lock") ~> At(t, "idle")
=============================================================================
