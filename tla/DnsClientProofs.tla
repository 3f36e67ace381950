-------------------------- MODULE DnsClientProofs --------------------------
(***************************************************************************)
(* For any threads, hosts, sockets and number of retries: the resolver     *)
(* keeps its types and gives its socket back; and the address a lookup     *)
(* finds is that of the host asked for or of one whose packets were still  *)
(* under way when it opened its socket.                                    *)
(***************************************************************************)
EXTENDS DnsClient, FiniteSetTheorems, TLAPS

ThType == [pc : PCs, host : Hosts, retries : 0 .. MaxRetry,
           addr : {NoAddr} \cup Hosts]

Types == /\ mutex \subseteq Threads
         /\ dnsSocket \in Slots
         /\ open \subseteq Slots
         /\ rx \in [Slots -> Seq(AllAnswers)]
         /\ queries \subseteq Hosts /\ stale \subseteq Hosts
         /\ replies \subseteq AllAnswers
         /\ th \in [Threads -> ThType]

\* Where a thread holds dnsMutexHandle, and where it holds the socket too.
Inside == {"open", "query", "poll", "close", "unlock"}
Asking == {"query", "poll", "close"}

\* One thread at most is inside, the one that holds the mutex.
Owner == /\ \A t \in Threads : th[t].pc \in Inside => mutex = {t}
         /\ \A t \in mutex : mutex = {t} /\ th[t].pc \in Inside

\* The resolver's socket is open exactly while a thread asks.
Socket == /\ open \subseteq {dnsSocket}
          /\ \A t \in Threads : th[t].pc \in Asking => open = {dnsSocket}
          /\ open # {} => \E t \in mutex : th[t].pc \in Asking

Retries == \A t \in Threads : /\ th[t].pc \in {"lock", "open", "query"} => th[t].retries = 0
                              /\ th[t].pc = "poll" => th[t].retries < MaxRetry

DnsInv == Types /\ Owner /\ Socket /\ Retries

\* A thread that has received nothing yet has no address.
Unfound == \A t \in Threads :
             th[t].pc \in {"lock", "open", "query", "poll"} => th[t].addr = NoAddr

\* The hosts that the packets a thread may meet are about.
Met(t) == stale \cup {th[t].host}

\* While a thread asks, what is under way or in its socket is about the host it
\* asks for, or was under way when it opened the socket.
Matched == \A t \in mutex : th[t].pc \in Asking =>
             /\ queries \subseteq Met(t)
             /\ \A msg \in replies : msg.host \in Met(t)
             /\ \A i \in 1 .. Len(rx[dnsSocket]) : rx[dnsSocket][i].host \in Met(t)

MatchInv == DnsInv /\ Unfound /\ Matched /\ AddressIsHosts

-----------------------------------------------------------------------------
(* Messages                                                                *)

\* An answer names its host, and an address in it is that of the host.
LEMMA AnswerType ==
    ASSUME NEW msg \in AllAnswers
    PROVE  /\ msg.host \in Hosts
           /\ Parse(msg) \in {NoAddr, msg.host}
<1>1. PICK h \in Hosts : msg \in Answers(h)
    BY DEF AllAnswers
<1>2. \E al \in {ShortAlias, LongAlias} :
        \/ msg = [host |-> h, error |-> FALSE, recs |-> <<al, A(h)>>]
        \/ msg = [host |-> h, error |-> FALSE, recs |-> <<A(h)>>]
        \/ msg = [host |-> h, error |-> TRUE,  recs |-> <<>>]
    BY <1>1 DEF Answers
<1>3. PICK al \in {ShortAlias, LongAlias} :
        \/ msg = [host |-> h, error |-> FALSE, recs |-> <<al, A(h)>>]
        \/ msg = [host |-> h, error |-> FALSE, recs |-> <<A(h)>>]
        \/ msg = [host |-> h, error |-> TRUE,  recs |-> <<>>]
    BY <1>2
<1>4. msg.host = h
    BY <1>3
<1>5. CASE msg.error
    BY <1>4, <1>5 DEF Parse
<1>6. CASE msg.recs = <<A(h)>>
  <2>1. Len(msg.recs) = 1 /\ msg.recs[1].type = "A" /\ msg.recs[1].addr = h
      BY <1>6 DEF A
  <2>2. {i \in 1 .. Len(msg.recs) : msg.recs[i].type = "A"} = {1}
      BY <2>1
  <2>3. (CHOOSE i \in {1} : \A j \in {1} : j <= i) = 1
      OBVIOUS
  <2>4. LastAddress(msg.recs) = h
      BY <2>1, <2>2, <2>3 DEF LastAddress
  <2> QED
      BY <1>4, <2>4 DEF Parse
<1>7. CASE msg.recs = <<al, A(h)>>
  <2>1. /\ Len(msg.recs) = 2 /\ msg.recs[1].type = "CNAME"
        /\ msg.recs[2].type = "A" /\ msg.recs[2].addr = h
      BY <1>7 DEF A, ShortAlias, LongAlias
  <2>2. {i \in 1 .. Len(msg.recs) : msg.recs[i].type = "A"} = {2}
      BY <2>1
  <2>3. (CHOOSE i \in {2} : \A j \in {2} : j <= i) = 2
      OBVIOUS
  <2>4. LastAddress(msg.recs) = h
      BY <2>1, <2>2, <2>3 DEF LastAddress
  <2> QED
      BY <1>4, <2>4 DEF Parse
<1> QED
    BY <1>3, <1>4, <1>5, <1>6, <1>7

-----------------------------------------------------------------------------
(* Every step keeps DnsInv                                                 *)

LEMMA DnsInit == Init => DnsInv
<1> SUFFICES ASSUME Init PROVE DnsInv
    OBVIOUS
<1>1. th \in [Threads -> ThType] /\ \A t \in Threads : th[t].pc = "idle"
    BY DnsAssumption DEF Init, Idle, ThType, PCs
<1>2. <<>> \in Seq(AllAnswers)
    OBVIOUS
<1>3. Types
    BY <1>1, <1>2 DEF Init, Types
<1> QED
    BY <1>1, <1>3 DEF Init, DnsInv, Owner, Socket, Retries, Inside, Asking

\* What a step of thread t leaves in th.
LEMMA Threads1 ==
    ASSUME Types, NEW t \in Threads, NEW e \in ThType, th' = [th EXCEPT ![t] = e]
    PROVE  /\ th' \in [Threads -> ThType] /\ th'[t] = e
           /\ \A u \in Threads : u # t => th'[u] = th[u]
    BY DEF Types

LEMMA Going ==
    ASSUME Types, NEW t \in Threads, NEW pc \in PCs
    PROVE  /\ th[t] \in ThType /\ [th[t] EXCEPT !.pc = pc] \in ThType
           /\ [th[t] EXCEPT !.pc = pc].pc = pc
           /\ [th[t] EXCEPT !.pc = pc].host = th[t].host
           /\ [th[t] EXCEPT !.pc = pc].retries = th[t].retries
           /\ [th[t] EXCEPT !.pc = pc].addr = th[t].addr
    BY DEF Types, ThType

\* The thread goes on and changes nothing else of itself.
LEMMA GoesOn ==
    ASSUME Types, NEW t \in Threads, NEW pc \in PCs, Goto(t, pc)
    PROVE  /\ th' \in [Threads -> ThType]
           /\ th'[t].pc = pc /\ th'[t].host = th[t].host
           /\ th'[t].retries = th[t].retries /\ th'[t].addr = th[t].addr
           /\ \A u \in Threads : u # t => th'[u] = th[u]
<1> DEFINE e == [th[t] EXCEPT !.pc = pc]
<1>1. e \in ThType /\ th' = [th EXCEPT ![t] = e]
    BY Going DEF Goto
<1> QED
    BY <1>1, Going, Threads1

LEMMA CallKeeps == ASSUME DnsInv, NEW t \in Threads, Call(t) PROVE DnsInv'
<1> USE DnsAssumption
<1>1. PICK h \in Hosts : th' = [th EXCEPT ![t] = [Idle(h) EXCEPT !.pc = "lock"]]
    BY DEF Call
<1> DEFINE e == [Idle(h) EXCEPT !.pc = "lock"]
<1>2. e \in ThType /\ e.pc = "lock" /\ e.retries = 0
    BY DEF Idle, ThType, PCs
<1> HIDE DEF e
<1>3. /\ th' \in [Threads -> ThType] /\ th'[t] = e
      /\ \A u \in Threads : u # t => th'[u] = th[u]
    BY <1>1, <1>2, Threads1 DEF DnsInv, e
<1>4. At(t, "idle") /\ UNCHANGED <<mutex, dnsSocket, open, rx, queries, replies, stale>>
    BY DEF Call, chip, net
<1>5. Types'
    BY <1>3, <1>4 DEF DnsInv, Types
<1>6. Owner'
    BY <1>2, <1>3, <1>4 DEF DnsInv, Types, Owner, Inside, At
<1>7. Socket'
    BY <1>2, <1>3, <1>4 DEF DnsInv, Types, Socket, Asking, At
<1>8. Retries'
    BY <1>2, <1>3 DEF DnsInv, Retries
<1> QED
    BY <1>5, <1>6, <1>7, <1>8 DEF DnsInv

LEMMA LockKeeps == ASSUME DnsInv, NEW t \in Threads, Lock(t) PROVE DnsInv'
<1>1. /\ At(t, "lock") /\ mutex = {} /\ mutex' = {t} /\ Goto(t, "open")
      /\ UNCHANGED <<dnsSocket, open, rx, queries, replies, stale>>
    BY DEF Lock, chip, net
<1>2. /\ th' \in [Threads -> ThType]
      /\ th'[t].pc = "open" /\ th'[t].retries = th[t].retries
      /\ \A u \in Threads : u # t => th'[u] = th[u]
    BY <1>1, GoesOn DEF DnsInv, PCs
<1>3. \A u \in Threads : th[u].pc \notin Inside
    BY <1>1 DEF DnsInv, Owner
<1>4. Types' /\ Owner'
    BY <1>1, <1>2, <1>3 DEF DnsInv, Types, Owner, Inside
<1>5. Socket'
    BY <1>1, <1>2, <1>3 DEF DnsInv, Socket, Asking, Inside
<1>6. Retries'
    BY <1>1, <1>2 DEF DnsInv, Retries, At
<1> QED
    BY <1>4, <1>5, <1>6 DEF DnsInv

\* A thread inside goes on inside: it still holds the mutex.
LEMMA StaysInside ==
    ASSUME DnsInv, NEW t \in Threads, th[t].pc \in Inside, UNCHANGED mutex,
           th'[t].pc \in Inside, \A u \in Threads : u # t => th'[u] = th[u]
    PROVE  mutex = {t} /\ Owner' /\ \A u \in Threads : u # t => th[u].pc \notin Inside
<1>1. mutex = {t}
    BY DEF DnsInv, Owner
<1>2. \A u \in Threads : u # t => th[u].pc \notin Inside
    BY <1>1 DEF DnsInv, Owner
<1> QED
    BY <1>1, <1>2 DEF Owner

LEMMA OpenKeeps == ASSUME DnsInv, NEW t \in Threads, Open(t) PROVE DnsInv'
<1>1. /\ At(t, "open") /\ UNCHANGED <<mutex, queries, replies>> /\ th[t].pc \in Inside
      /\ stale' = UnderWay
    BY DEF Open, net, At, Inside
<1>1a. stale' \subseteq Hosts
    BY <1>1, AnswerType DEF DnsInv, Types, UnderWay
<1>2. mutex = {t} /\ open = {} /\ th[t].retries = 0
    BY <1>1 DEF DnsInv, Owner, Socket, Retries, Asking, At
<1>3. CASE \E s \in Slots \ open : /\ open' = open \cup {s}
                                     /\ rx' = [rx EXCEPT ![s] = <<>>]
                                     /\ dnsSocket' = s
                                     /\ Goto(t, "query")
  <2>1. PICK s \in Slots : /\ open' = {s} /\ rx' = [rx EXCEPT ![s] = <<>>]
                           /\ dnsSocket' = s /\ Goto(t, "query")
      BY <1>2, <1>3
  <2>2. /\ th' \in [Threads -> ThType]
        /\ th'[t].pc = "query" /\ th'[t].retries = th[t].retries
        /\ \A u \in Threads : u # t => th'[u] = th[u]
      BY <2>1, GoesOn DEF DnsInv, PCs
  <2>3. Owner' /\ \A u \in Threads : u # t => th[u].pc \notin Inside
      BY <1>1, <2>2, StaysInside DEF Inside
  <2>4. <<>> \in Seq(AllAnswers)
      OBVIOUS
  <2>5. Types'
      BY <1>1, <1>1a, <2>1, <2>2, <2>4 DEF DnsInv, Types
  <2>6. Socket'
      BY <1>1, <1>2, <2>1, <2>2, <2>3 DEF Socket, Asking, Inside
  <2>7. Retries'
      BY <1>2, <2>2 DEF DnsInv, Retries
  <2> QED
      BY <2>3, <2>5, <2>6, <2>7 DEF DnsInv
<1>4. CASE Goto(t, "unlock") /\ UNCHANGED <<open, rx, dnsSocket>>
  <2>1. /\ th' \in [Threads -> ThType] /\ th'[t].pc = "unlock"
        /\ \A u \in Threads : u # t => th'[u] = th[u]
      BY <1>4, GoesOn DEF DnsInv, PCs
  <2>2. Owner' /\ \A u \in Threads : u # t => th[u].pc \notin Inside
      BY <1>1, <2>1, StaysInside DEF Inside
  <2>3. Types'
      BY <1>1, <1>1a, <1>4, <2>1 DEF DnsInv, Types
  <2>4. Socket'
      BY <1>1, <1>2, <1>4, <2>1, <2>2 DEF Socket, Asking, Inside
  <2>5. Retries'
      BY <2>1 DEF DnsInv, Retries
  <2> QED
      BY <2>2, <2>3, <2>4, <2>5 DEF DnsInv
<1> QED
    BY <1>3, <1>4 DEF Open, chip

LEMMA QueryKeeps == ASSUME DnsInv, NEW t \in Threads, Query(t) PROVE DnsInv'
<1> USE DnsAssumption
<1>1. /\ At(t, "query") /\ Goto(t, "poll") /\ queries' = queries \cup {th[t].host}
      /\ UNCHANGED <<mutex, dnsSocket, open, rx, replies, stale>>
    BY DEF Query, chip
<1>2. /\ th' \in [Threads -> ThType]
      /\ th'[t].pc = "poll" /\ th'[t].retries = th[t].retries
      /\ \A u \in Threads : u # t => th'[u] = th[u]
    BY <1>1, GoesOn DEF DnsInv, PCs
<1>3. mutex = {t} /\ Owner' /\ \A u \in Threads : u # t => th[u].pc \notin Inside
    BY <1>1, <1>2, StaysInside DEF At, Inside
<1>4. Types'
    BY <1>1, <1>2 DEF DnsInv, Types, ThType
<1>5. Socket'
    BY <1>1, <1>2, <1>3 DEF DnsInv, Socket, Asking, Inside, At
<1>6. Retries'
    BY <1>1, <1>2 DEF DnsInv, Retries, At
<1> QED
    BY <1>3, <1>4, <1>5, <1>6 DEF DnsInv

LEMMA Tails ==
    ASSUME NEW S, NEW q \in Seq(S), q # <<>>
    PROVE  \A i \in 1 .. Len(Tail(q)) : i + 1 \in 1 .. Len(q) /\ Tail(q)[i] = q[i + 1]
    OBVIOUS

LEMMA PollKeeps ==
    ASSUME DnsInv, NEW t \in Threads, Poll(t)
    PROVE  /\ DnsInv'
           /\ dnsSocket \in open /\ Head(rx[dnsSocket]) = rx[dnsSocket][1]
           /\ 1 \in 1 .. Len(rx[dnsSocket])
           /\ \A i \in 1 .. Len(rx'[dnsSocket]) :
                /\ i + 1 \in 1 .. Len(rx[dnsSocket])
                /\ rx'[dnsSocket][i] = rx[dnsSocket][i + 1]
<1>1. /\ At(t, "poll") /\ rx[dnsSocket] # <<>>
      /\ rx' = [rx EXCEPT ![dnsSocket] = Tail(rx[dnsSocket])]
      /\ UNCHANGED <<mutex, dnsSocket, open, queries, replies, stale>>
    BY DEF Poll, net
<1>2. rx[dnsSocket] \in Seq(AllAnswers)
    BY DEF DnsInv, Types
<1>3. /\ Head(rx[dnsSocket]) \in AllAnswers /\ Tail(rx[dnsSocket]) \in Seq(AllAnswers)
      /\ Head(rx[dnsSocket]) = rx[dnsSocket][1] /\ 1 \in 1 .. Len(rx[dnsSocket])
    BY <1>1, <1>2
<1> DEFINE a == Parse(Head(rx[dnsSocket]))
           e == [th[t] EXCEPT !.pc = "close", !.addr = a]
<1>4. a \in {NoAddr} \cup Hosts
    BY <1>3, AnswerType
<1>5. e \in ThType /\ e.pc = "close"
    BY <1>4 DEF DnsInv, Types, ThType, PCs
<1>6. th' = [th EXCEPT ![t] = e]
    BY DEF Poll
<1> HIDE DEF e, a
<1>7. /\ th' \in [Threads -> ThType] /\ th'[t].pc = "close"
      /\ \A u \in Threads : u # t => th'[u] = th[u]
    BY <1>5, <1>6, Threads1 DEF DnsInv
<1>8. mutex = {t} /\ Owner' /\ \A u \in Threads : u # t => th[u].pc \notin Inside
    BY <1>1, <1>7, StaysInside DEF At, Inside
<1>9. Types'
    BY <1>1, <1>3, <1>7 DEF DnsInv, Types
<1>10. Socket' /\ open = {dnsSocket}
    BY <1>1, <1>7, <1>8 DEF DnsInv, Socket, Asking, Inside, At
<1>11. Retries'
    BY <1>7 DEF DnsInv, Retries
<1>12. rx'[dnsSocket] = Tail(rx[dnsSocket])
    BY <1>1 DEF DnsInv, Types
<1>13. \A i \in 1 .. Len(rx'[dnsSocket]) :
         /\ i + 1 \in 1 .. Len(rx[dnsSocket])
         /\ rx'[dnsSocket][i] = rx[dnsSocket][i + 1]
    BY <1>1, <1>2, <1>12, Tails
<1> QED
    BY <1>3, <1>8, <1>9, <1>10, <1>11, <1>13 DEF DnsInv

LEMMA TimeoutKeeps == ASSUME DnsInv, NEW t \in Threads, Timeout(t) PROVE DnsInv'
<1> USE DnsAssumption
<1> DEFINE n  == th[t].retries + 1
           pc == IF n >= MaxRetry THEN "close" ELSE th[t].pc
           e  == [th[t] EXCEPT !.retries = n, !.pc = pc]
<1>1. /\ At(t, "poll") /\ th' = [th EXCEPT ![t] = e]
      /\ UNCHANGED <<mutex, dnsSocket, open, rx, queries, replies, stale>>
    BY DEF Timeout, chip, net
<1>2. th[t] \in ThType /\ th[t].pc = "poll" /\ th[t].retries < MaxRetry
    BY <1>1 DEF DnsInv, Types, Retries, At
<1>2a. n \in 0 .. MaxRetry /\ pc \in {"poll", "close"} /\ (pc = "poll" => n < MaxRetry)
    BY <1>2 DEF ThType
<1> HIDE DEF n, pc
<1>3. /\ e \in ThType /\ e.pc \in {"poll", "close"}
      /\ e.pc = "poll" => e.retries < MaxRetry
    BY <1>2, <1>2a DEF ThType, PCs
<1> HIDE DEF e
<1>4. /\ th' \in [Threads -> ThType] /\ th'[t] = e
      /\ \A u \in Threads : u # t => th'[u] = th[u]
    BY <1>1, <1>3, Threads1 DEF DnsInv
<1>5. Owner' /\ \A u \in Threads : u # t => th[u].pc \notin Inside
    BY <1>1, <1>2, <1>3, <1>4, StaysInside DEF Inside
<1>6. Types'
    BY <1>1, <1>4 DEF DnsInv, Types
<1>7. Socket'
    BY <1>1, <1>2, <1>3, <1>4, <1>5 DEF DnsInv, Socket, Asking, Inside
<1>8. Retries'
    BY <1>3, <1>4 DEF DnsInv, Retries
<1> QED
    BY <1>5, <1>6, <1>7, <1>8 DEF DnsInv

LEMMA CloseKeeps ==
    ASSUME DnsInv, NEW t \in Threads, Close(t)
    PROVE  /\ DnsInv' /\ th'[t].addr = th[t].addr /\ th'[t].host = th[t].host
           /\ \A u \in Threads : u # t => th'[u] = th[u]
<1> USE DnsAssumption
<1> DEFINE e == [th[t] EXCEPT !.pc = "unlock", !.retries = 0]
<1>1. /\ At(t, "close") /\ open' = open \ {dnsSocket} /\ th' = [th EXCEPT ![t] = e]
      /\ UNCHANGED <<mutex, dnsSocket, rx, queries, replies, stale>>
    BY DEF Close, net
<1>1a. /\ e \in ThType /\ e.pc = "unlock" /\ e.addr = th[t].addr
       /\ e.host = th[t].host
  <2>1. th[t] \in ThType /\ "unlock" \in PCs /\ 0 \in 0 .. MaxRetry
      BY DEF DnsInv, Types, PCs
  <2> QED
      BY <2>1 DEF ThType
<1> HIDE DEF e
<1>2. /\ th' \in [Threads -> ThType] /\ th'[t] = e /\ th'[t].pc = "unlock"
      /\ \A u \in Threads : u # t => th'[u] = th[u]
    BY <1>1, <1>1a, Threads1 DEF DnsInv
<1>3. Owner' /\ \A u \in Threads : u # t => th[u].pc \notin Inside
    BY <1>1, <1>2, StaysInside DEF At, Inside
<1>4. open' = {}
    BY <1>1 DEF DnsInv, Socket
<1>5. Types'
    BY <1>1, <1>2, <1>4 DEF DnsInv, Types
<1>6. Socket'
    BY <1>1, <1>2, <1>3, <1>4 DEF Socket, Asking, Inside
<1>7. Retries'
    BY <1>2 DEF DnsInv, Retries
<1> QED
    BY <1>1a, <1>2, <1>3, <1>5, <1>6, <1>7 DEF DnsInv

LEMMA UnlockKeeps ==
    ASSUME DnsInv, NEW t \in Threads, Unlock(t)
    PROVE  DnsInv' /\ mutex = {t}
<1>1. /\ At(t, "unlock") /\ mutex' = {} /\ Goto(t, "idle")
      /\ UNCHANGED <<dnsSocket, open, rx, queries, replies, stale>>
    BY DEF Unlock, chip, net
<1>2. /\ th' \in [Threads -> ThType] /\ th'[t].pc = "idle"
      /\ \A u \in Threads : u # t => th'[u] = th[u]
    BY <1>1, GoesOn DEF DnsInv, PCs
<1>3. mutex = {t}
    BY <1>1 DEF DnsInv, Owner, Inside, At
<1>4. \A u \in Threads : u # t => th[u].pc \notin Inside
    BY <1>3 DEF DnsInv, Owner
<1>5. Types' /\ Owner'
    BY <1>1, <1>2, <1>4 DEF DnsInv, Types, Owner, Inside
<1>6. Socket'
    BY <1>1, <1>2, <1>3, <1>4 DEF DnsInv, Socket, Asking, Inside, At
<1>7. Retries'
    BY <1>2 DEF DnsInv, Retries
<1> QED
    BY <1>3, <1>5, <1>6, <1>7 DEF DnsInv

LEMMA AnswerHost == ASSUME NEW h, NEW msg \in Answers(h) PROVE msg.host = h
    BY DEF Answers

\* What is under way after an answer is about hosts that packets under way were
\* about before.
LEMMA AnswerKeeps ==
    ASSUME DnsInv, Answer
    PROVE  /\ DnsInv' /\ UNCHANGED <<mutex, dnsSocket, open, rx, th, stale>>
           /\ queries' \subseteq queries
           /\ \A msg \in replies' : msg \in replies \/ msg.host \in queries
<1>1. PICK h \in queries :
        /\ \/ \E msg \in Answers(h) : replies' = replies \cup {msg}
           \/ UNCHANGED replies
        /\ queries' \subseteq queries
        /\ UNCHANGED <<mutex, dnsSocket, open, rx, th, stale>>
    BY DEF Answer, chip
<1>2. Answers(h) \subseteq AllAnswers
    BY DEF DnsInv, Types, AllAnswers
<1>3. Types'
    BY <1>1, <1>2 DEF DnsInv, Types
<1>4. DnsInv'
    BY <1>1, <1>3 DEF DnsInv, Owner, Socket, Retries
<1>5. \A msg \in replies' : msg \in replies \/ msg.host \in queries
    BY <1>1, AnswerHost
<1> QED
    BY <1>1, <1>4, <1>5

\* A reply that arrives is appended to what one open socket has received, or lost.
LEMMA ArriveKeeps ==
    ASSUME DnsInv, Arrive
    PROVE  /\ DnsInv' /\ replies' \subseteq replies
           /\ UNCHANGED <<mutex, dnsSocket, open, queries, th, stale>>
           /\ \A i \in 1 .. Len(rx'[dnsSocket]) :
                \/ i \in 1 .. Len(rx[dnsSocket]) /\ rx'[dnsSocket][i] = rx[dnsSocket][i]
                \/ rx'[dnsSocket][i] \in replies
<1>1. PICK msg \in replies :
        /\ \/ \E s \in open : rx' = [rx EXCEPT ![s] = Append(rx[s], msg)]
           \/ UNCHANGED rx
        /\ replies' \subseteq replies
        /\ UNCHANGED <<mutex, dnsSocket, open, queries, th, stale>>
    BY DEF Arrive
<1>2. msg \in AllAnswers /\ \A s \in Slots : rx[s] \in Seq(AllAnswers)
    BY DEF DnsInv, Types
<1>3. CASE UNCHANGED rx
  <2>1. Types'
      BY <1>1, <1>3 DEF DnsInv, Types
  <2> QED
      BY <1>1, <1>3, <2>1 DEF DnsInv, Owner, Socket, Retries
<1>4. CASE \E s \in open : rx' = [rx EXCEPT ![s] = Append(rx[s], msg)]
  <2>1. PICK s \in open : rx' = [rx EXCEPT ![s] = Append(rx[s], msg)]
      BY <1>4
  <2>2. s \in Slots /\ dnsSocket \in Slots /\ rx[s] \in Seq(AllAnswers)
      BY <1>2, <2>1 DEF DnsInv, Types
  <2>3. /\ Append(rx[s], msg) \in Seq(AllAnswers)
        /\ \A i \in 1 .. Len(Append(rx[s], msg)) :
             \/ i \in 1 .. Len(rx[s]) /\ Append(rx[s], msg)[i] = rx[s][i]
             \/ Append(rx[s], msg)[i] = msg
      BY <1>2, <2>2
  <2>4. Types'
      BY <1>1, <2>1, <2>3 DEF DnsInv, Types
  <2>5. rx'[dnsSocket] = IF s = dnsSocket THEN Append(rx[s], msg) ELSE rx[dnsSocket]
      BY <2>1, <2>2 DEF DnsInv, Types
  <2>6. DnsInv'
      BY <1>1, <2>4 DEF DnsInv, Owner, Socket, Retries
  <2> QED
      BY <1>1, <2>3, <2>5, <2>6
<1> QED
    BY <1>1, <1>3, <1>4

LEMMA DnsStep == DnsInv /\ [Next]_vars => DnsInv'
<1> SUFFICES ASSUME DnsInv, [Next]_vars PROVE DnsInv'
    OBVIOUS
<1>1. CASE UNCHANGED vars
    BY <1>1 DEF vars, chip, net, DnsInv, Types, Owner, Socket, Retries
<1>2. CASE \E t \in Threads : Call(t) \/ Lock(t) \/ Run(t)
    BY <1>2, CallKeeps, LockKeeps, OpenKeeps, QueryKeeps, PollKeeps, TimeoutKeeps,
       CloseKeeps, UnlockKeeps DEF Run
<1> QED
    BY <1>1, <1>2, AnswerKeeps, ArriveKeeps DEF Next

LEMMA DnsAlways == Spec => []DnsInv
    BY DnsInit, DnsStep, PTL DEF Spec

-----------------------------------------------------------------------------
(* Replies that are not matched to queries                                 *)

\* While a thread is inside, only it is: the invariant speaks of it alone.
LEMMA OnlyOwner ==
    ASSUME DnsInv, NEW t \in Threads, th[t].pc \in Inside
    PROVE  mutex = {t}
    BY DEF DnsInv, Owner

LEMMA MatchOpen ==
    ASSUME MatchInv, NEW t \in Threads, Open(t)
    PROVE  Unfound' /\ Matched' /\ AddressIsHosts'
<1>0. DnsInv /\ Types /\ Unfound
    BY DEF MatchInv, DnsInv
<1>1. /\ At(t, "open") /\ UNCHANGED <<mutex, queries, replies>> /\ stale' = UnderWay
      /\ mutex = {t}
    BY <1>0, OnlyOwner DEF Open, net, At, Inside
<1>2. \/ Goto(t, "query") /\ rx'[dnsSocket'] = <<>>
      \/ Goto(t, "unlock")
    BY <1>0 DEF Open, Types
<1>3. \E pc \in {"query", "unlock"} : Goto(t, pc)
    BY <1>2
<1>4. /\ th'[t].addr = NoAddr /\ \A u \in Threads : u # t => th'[u] = th[u]
      /\ th'[t].pc \in {"query", "unlock"}
    BY <1>0, <1>1, <1>3, GoesOn DEF Unfound, At, PCs
<1>5. Unfound' /\ AddressIsHosts'
    BY <1>0, <1>1, <1>4 DEF Unfound, AddressIsHosts
<1>6. queries' \subseteq stale' /\ \A msg \in replies' : msg.host \in stale'
    BY <1>1 DEF UnderWay
<1>7. th'[t].pc = "query" => rx'[dnsSocket'] = <<>>
    BY <1>0, <1>2, GoesOn DEF PCs
<1>8. Matched'
    BY <1>1, <1>4, <1>6, <1>7 DEF Matched, Met, Asking
<1> QED
    BY <1>5, <1>8

LEMMA MatchQuery ==
    ASSUME MatchInv, NEW t \in Threads, Query(t)
    PROVE  Unfound' /\ Matched' /\ AddressIsHosts'
<1>0. DnsInv /\ Types /\ Unfound /\ Matched /\ AddressIsHosts
    BY DEF MatchInv, DnsInv
<1>1. /\ At(t, "query") /\ Goto(t, "poll") /\ queries' = queries \cup {th[t].host}
      /\ UNCHANGED <<mutex, dnsSocket, rx, replies, stale>> /\ mutex = {t}
    BY <1>0, OnlyOwner DEF Query, chip, At, Inside
<1>2. /\ th'[t].pc = "poll" /\ th'[t].host = th[t].host /\ th'[t].addr = th[t].addr
      /\ \A u \in Threads : u # t => th'[u] = th[u]
    BY <1>0, <1>1, GoesOn DEF PCs
<1>3. Unfound' /\ AddressIsHosts'
    BY <1>0, <1>1, <1>2 DEF Unfound, AddressIsHosts, At
<1>4. Matched'
    BY <1>0, <1>1, <1>2 DEF Matched, Met, Asking, At
<1> QED
    BY <1>3, <1>4

LEMMA MatchPoll ==
    ASSUME MatchInv, NEW t \in Threads, Poll(t)
    PROVE  Unfound' /\ Matched' /\ AddressIsHosts'
<1>0. DnsInv /\ Types /\ Unfound /\ Matched
    BY DEF MatchInv, DnsInv
<1> DEFINE q == rx[dnsSocket]
<1>1. /\ At(t, "poll") /\ q # <<>>
      /\ th' = [th EXCEPT ![t].pc = "close", ![t].addr = Parse(Head(q))]
      /\ UNCHANGED <<mutex, dnsSocket, queries, replies, stale>> /\ mutex = {t}
    BY <1>0, OnlyOwner DEF Poll, net, At, Inside
<1>2. /\ th'[t].pc = "close" /\ th'[t].host = th[t].host
      /\ th'[t].addr = Parse(Head(q))
      /\ \A u \in Threads : u # t => th'[u] = th[u]
    BY <1>0, <1>1 DEF Types, ThType
<1>3. /\ Head(q) = q[1] /\ 1 \in 1 .. Len(q)
      /\ \A i \in 1 .. Len(rx'[dnsSocket]) :
           i + 1 \in 1 .. Len(q) /\ rx'[dnsSocket][i] = q[i + 1]
    BY <1>0, PollKeeps
<1>4. q \in Seq(AllAnswers) /\ Head(q) \in AllAnswers
    BY <1>0, <1>1 DEF Types
<1>5. /\ queries \subseteq Met(t) /\ \A msg \in replies : msg.host \in Met(t)
      /\ \A i \in 1 .. Len(q) : q[i].host \in Met(t)
    BY <1>0, <1>1 DEF Matched, Asking, At
<1>6. Met(t)' = Met(t)
    BY <1>1, <1>2 DEF Met
<1> HIDE DEF q
<1>7. Parse(Head(q)) \in {NoAddr} \cup Met(t)
    BY <1>3, <1>4, <1>5, AnswerType
<1>8. AddressIsHosts'
    BY <1>1, <1>2, <1>6, <1>7 DEF AddressIsHosts, Met
<1>9. \A i \in 1 .. Len(rx'[dnsSocket]) : rx'[dnsSocket][i].host \in Met(t)
    BY <1>3, <1>5
<1>10. Matched'
    BY <1>1, <1>5, <1>6, <1>9 DEF Matched
<1>11. Unfound'
    BY <1>0, <1>2 DEF Unfound
<1> QED
    BY <1>8, <1>10, <1>11

LEMMA MatchTimeout ==
    ASSUME MatchInv, NEW t \in Threads, Timeout(t)
    PROVE  Unfound' /\ Matched' /\ AddressIsHosts'
<1>0. DnsInv /\ Types /\ Unfound /\ Matched /\ AddressIsHosts
    BY DEF MatchInv, DnsInv
<1>1. /\ At(t, "poll") /\ UNCHANGED <<mutex, dnsSocket, rx, queries, replies, stale>>
      /\ mutex = {t}
    BY <1>0, OnlyOwner DEF Timeout, chip, net, At, Inside
<1>2. /\ th'[t].pc \in {"poll", "close"} /\ th'[t].host = th[t].host
      /\ th'[t].addr = th[t].addr
      /\ \A u \in Threads : u # t => th'[u] = th[u]
    BY <1>0 DEF Timeout, Types, ThType, At
<1>3. Unfound' /\ AddressIsHosts'
    BY <1>0, <1>1, <1>2 DEF Unfound, AddressIsHosts, At
<1>4. Matched'
    BY <1>0, <1>1, <1>2 DEF Matched, Met, Asking, At
<1> QED
    BY <1>3, <1>4

LEMMA MatchClose ==
    ASSUME MatchInv, NEW t \in Threads, Close(t)
    PROVE  Unfound' /\ Matched' /\ AddressIsHosts'
<1>0. DnsInv /\ Types /\ Unfound /\ Matched /\ AddressIsHosts
    BY DEF MatchInv, DnsInv
<1>1. UNCHANGED <<mutex, stale>> /\ mutex = {t}
    BY <1>0, OnlyOwner DEF Close, At, Inside
<1>2. /\ th'[t].addr = th[t].addr /\ th'[t].host = th[t].host
      /\ \A u \in Threads : u # t => th'[u] = th[u]
    BY <1>0, CloseKeeps
<1>3. th'[t].pc = "unlock"
    BY <1>0 DEF Close, Types, ThType
<1> QED
    BY <1>0, <1>1, <1>2, <1>3 DEF Unfound, Matched, AddressIsHosts, Asking

LEMMA MatchUnlock ==
    ASSUME MatchInv, NEW t \in Threads, Unlock(t)
    PROVE  Unfound' /\ Matched' /\ AddressIsHosts'
<1>1. mutex' = {} /\ Goto(t, "idle") /\ Types /\ Unfound
    BY DEF Unlock, MatchInv, DnsInv
<1>2. th'[t].pc = "idle" /\ \A u \in Threads : u # t => th'[u] = th[u]
    BY <1>1, GoesOn DEF PCs
<1> QED
    BY <1>1, <1>2 DEF Unfound, Matched, AddressIsHosts

LEMMA MatchCall ==
    ASSUME MatchInv, NEW t \in Threads, Call(t)
    PROVE  Unfound' /\ Matched' /\ AddressIsHosts'
<1>0. DnsInv /\ Types /\ Unfound /\ Matched /\ AddressIsHosts
    BY DEF MatchInv, DnsInv
<1>1. At(t, "idle") /\ UNCHANGED <<mutex, dnsSocket, rx, queries, replies, stale>>
    BY DEF Call, chip, net
<1>2. PICK h \in Hosts : th' = [th EXCEPT ![t] = [Idle(h) EXCEPT !.pc = "lock"]]
    BY DEF Call
<1>3. th'[t].addr = NoAddr /\ \A u \in Threads : u # t => th'[u] = th[u]
    BY <1>0, <1>2 DEF Types, Idle
<1>4. t \notin mutex /\ mutex \subseteq Threads
    BY <1>0, <1>1 DEF DnsInv, Types, Owner, Inside, At
<1>5. \A u \in mutex : th'[u] = th[u]
    BY <1>3, <1>4
<1>6. Unfound' /\ AddressIsHosts'
    BY <1>0, <1>1, <1>3, <1>5 DEF Unfound, AddressIsHosts
<1>7. Matched'
    BY <1>0, <1>1, <1>5 DEF Matched, Met
<1> QED
    BY <1>6, <1>7

LEMMA MatchLock ==
    ASSUME MatchInv, NEW t \in Threads, Lock(t)
    PROVE  Unfound' /\ Matched' /\ AddressIsHosts'
<1>1. At(t, "lock") /\ mutex' = {t} /\ Goto(t, "open") /\ Types /\ Unfound
    BY DEF Lock, MatchInv, DnsInv
<1>2. /\ th'[t].pc = "open" /\ th'[t].addr = NoAddr
      /\ \A u \in Threads : u # t => th'[u] = th[u]
    BY <1>1, GoesOn DEF PCs, Unfound, At
<1> QED
    BY <1>1, <1>2 DEF Unfound, Matched, AddressIsHosts, Asking

LEMMA MatchNetwork ==
    ASSUME MatchInv, Answer \/ Arrive
    PROVE  Unfound' /\ Matched' /\ AddressIsHosts'
<1>0. DnsInv /\ Unfound /\ Matched /\ AddressIsHosts
    BY DEF MatchInv
<1>1. CASE Answer
  <2>1. /\ UNCHANGED <<mutex, dnsSocket, rx, th, stale>> /\ queries' \subseteq queries
        /\ \A msg \in replies' : msg \in replies \/ msg.host \in queries
      BY <1>0, <1>1, AnswerKeeps
  <2>2. Matched'
      BY <1>0, <2>1 DEF Matched, Met
  <2> QED
      BY <1>0, <2>1, <2>2 DEF Unfound, AddressIsHosts
<1>2. CASE Arrive
  <2>1. /\ UNCHANGED <<mutex, dnsSocket, queries, th, stale>> /\ replies' \subseteq replies
        /\ \A i \in 1 .. Len(rx'[dnsSocket]) :
             \/ i \in 1 .. Len(rx[dnsSocket]) /\ rx'[dnsSocket][i] = rx[dnsSocket][i]
             \/ rx'[dnsSocket][i] \in replies
      BY <1>0, <1>2, ArriveKeeps
  <2>2. Matched'
      BY <1>0, <2>1 DEF Matched, Met
  <2> QED
      BY <1>0, <2>1, <2>2 DEF Unfound, AddressIsHosts
<1> QED
    BY <1>1, <1>2

-----------------------------------------------------------------------------
(* Theorems                                                                *)

\* The variables of the resolver keep their types: one thread at most holds the
\* mutex, and no run counts more than MAX_DNS_RETRY timeouts.
THEOREM DnsTypeCorrect == Spec => []TypeOK
<1>1. DnsInv => TypeOK
  <2> SUFFICES ASSUME DnsInv PROVE TypeOK
      OBVIOUS
  <2>1. mutex = {} \/ \E t \in Threads : mutex = {t}
      BY DEF DnsInv, Types, Owner
  <2>2. Cardinality(mutex) \in {0, 1}
      BY <2>1, FS_EmptySet, FS_Singleton
  <2>3. Cardinality(mutex) <= 1
      BY <2>2
  <2> QED
      BY <2>3 DEF DnsInv, Types, TypeOK, ThType
<1> QED
    BY <1>1, DnsAlways, PTL

\* The resolver holds at most one socket, and only while a thread is in DNS_run:
\* every path through it gives the socket back.
THEOREM DnsSocketGivenBack == Spec => []SocketGivenBack
<1>1. DnsInv => SocketGivenBack
  <2> SUFFICES ASSUME DnsInv PROVE Cardinality(open) <= Cardinality(mutex)
      BY DEF SocketGivenBack
  <2>1. CASE open = {}
    <3>1. IsFiniteSet(mutex)
        BY DnsAssumption, FS_Subset DEF DnsInv, Types
    <3> QED
        BY <2>1, <3>1, FS_EmptySet, FS_CardinalityType
  <2>2. CASE open # {}
    <3>1. open = {dnsSocket} /\ \E t \in mutex : mutex = {t}
        BY <2>2 DEF DnsInv, Socket, Owner
    <3> QED
        BY <3>1, FS_Singleton
  <2> QED
      BY <2>1, <2>2
<1> QED
    BY <1>1, DnsAlways, PTL

\* Though replies are not matched to queries, a lookup finds the address of the
\* host it asked for, or of a host whose packets were under way when it opened its
\* socket, or none: however many threads look up, whatever is late, lost or
\* duplicated, nothing received for an earlier lookup is taken.
THEOREM DnsAddressIsHosts == Spec => []AddressIsHosts
<1>1. Init => MatchInv
  <2> SUFFICES ASSUME Init PROVE Unfound /\ Matched /\ AddressIsHosts
      BY DnsInit DEF MatchInv
  <2>1. \A t \in Threads : th[t].addr = NoAddr
      BY DEF Init, Idle
  <2> QED
      BY <2>1 DEF Init, Unfound, Matched, AddressIsHosts
<1>2. MatchInv /\ [Next]_vars => MatchInv'
  <2> SUFFICES ASSUME MatchInv, [Next]_vars PROVE MatchInv'
      OBVIOUS
  <2>1. DnsInv'
      BY DnsStep DEF MatchInv
  <2>2. CASE UNCHANGED vars
      BY <2>1, <2>2 DEF vars, chip, net, MatchInv, Unfound, Matched, Met, AddressIsHosts
  <2>3. CASE \E t \in Threads : Call(t) \/ Lock(t) \/ Run(t)
      BY <2>1, <2>3, MatchCall, MatchLock, MatchOpen, MatchQuery, MatchPoll,
         MatchTimeout, MatchClose, MatchUnlock DEF Run, MatchInv
  <2> QED
      BY <2>1, <2>2, <2>3, MatchNetwork DEF Next, MatchInv
<1>3. MatchInv => AddressIsHosts
    BY DEF MatchInv
<1> QED
    BY <1>1, <1>2, <1>3, PTL DEF Spec
=============================================================================
