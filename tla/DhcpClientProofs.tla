-------------------------- MODULE DhcpClientProofs --------------------------
(***************************************************************************)
(* Theorems about DhcpClient, for any number of servers and addresses and  *)
(* any lengths of leases, timeouts, retries and delays.                    *)
(***************************************************************************)
EXTENDS DhcpClient, TLAPS

Running == pc \in {"parse", "switch", "resend", "delay"}

\* A run that goes on has a retry left: the count is compared with the limit
\* before the loop is entered again.
RetriesLeft == Running => retries < MaxRetry

DhcpInv == TypeOK /\ RetriesLeft

Replies == [type : {"OFFER", "ACK", "NAK"}, server : Servers, addr : Addrs,
            time : Leases \cup {0}, age : 0 .. MaxDelay]

-----------------------------------------------------------------------------
(* What the helpers return                                                 *)

LEMMA LessType ==
    ASSUME NEW n \in Nat
    PROVE  Less(n) \in Nat /\ Less(n) <= n
BY DEF Less

LEMMA ArmedType ==
    ASSUME NEW t \in Leases \cup {0}
    PROVE  Armed(t) \in [timeOut : 0 .. Mod - 1, left : 0 .. Mod - 1]
<1>1. t \in Nat /\ Mod \in Nat /\ Mod > 0
  BY DhcpAssumption
<1>2. t % Mod \in 0 .. Mod - 1
  BY <1>1
<1>3. QED BY <1>2 DEF Armed

LEMMA ReplyType ==
    ASSUME NEW type \in {"OFFER", "ACK", "NAK"}, NEW s \in Servers,
           NEW n \in 1 .. PoolSize, NEW t \in Leases \cup {0}
    PROVE  Reply(type, s, n, t) \in Replies
<1>1. <<s, n>> \in Addrs
  BY DEF Addrs
<1>2. 0 \in 0 .. MaxDelay
  BY DhcpAssumption
<1>3. QED BY <1>1, <1>2 DEF Reply, Replies

LEMMA CarryType ==
    ASSUME net \subseteq Replies, NEW R, R \subseteq Replies
    PROVE  Carry(R) \subseteq Replies
BY DEF Carry

LEMMA AgeType ==
    ASSUME NEW R, R \subseteq Replies
    PROVE  Age(R) \subseteq Replies
<1>1. SUFFICES ASSUME NEW m \in R, m.age < MaxDelay
               PROVE  [m EXCEPT !.age = @ + 1] \in Replies
  BY DEF Age
<1>2. m \in Replies
  OBVIOUS
<1>3. m.age \in Nat /\ m.age + 1 \in 0 .. MaxDelay
  BY <1>1, <1>2, DhcpAssumption DEF Replies
<1>4. QED BY <1>2, <1>3 DEF Replies

\* The servers' answers and the second that passes keep the types of what they
\* change.
LEMMA DiscoverType ==
    ASSUME TypeOK, Discover
    PROVE  net' \subseteq Replies /\ pool' = pool /\ promise' = promise
<1>1. PICK S \in SUBSET Servers, t \in Leases :
        net' = Carry({Reply("OFFER", s, pool[s], t) : s \in S})
  BY DEF Discover
<1>2. {Reply("OFFER", s, pool[s], t) : s \in S} \subseteq Replies
  BY ReplyType DEF TypeOK
<1>3. QED BY <1>1, <1>2, CarryType DEF TypeOK, Discover, Replies

LEMMA RequestType ==
    ASSUME TypeOK, NEW s \in AtMostOne(Servers), NEW a, Request(s, a)
    PROVE  net' \subseteq Replies /\ pool' = pool /\ promise' \in [Addrs -> Nat]
<1>1. s \subseteq Servers
  BY DEF AtMostOne
<1>2. net \subseteq Replies /\ promise \in [Addrs -> Nat]
  BY DEF TypeOK, Replies
<1>3. CASE UNCHANGED <<net, promise>>
  BY <1>2, <1>3 DEF Request
<1>4. ASSUME NEW v \in s, net' = Carry({Reply("NAK", v, pool[v], 0)}), UNCHANGED promise
      PROVE  net' \subseteq Replies /\ promise' \in [Addrs -> Nat]
  <2>1. Reply("NAK", v, pool[v], 0) \in Replies
    BY <1>1, ReplyType DEF TypeOK
  <2>2. QED BY <1>2, <1>4, <2>1, CarryType
<1>5. ASSUME NEW v \in s, NEW t \in Leases, net' = Carry({Reply("ACK", v, pool[v], t)}),
             promise' = [promise EXCEPT ![<<v, pool[v]>>] = t]
      PROVE  net' \subseteq Replies /\ promise' \in [Addrs -> Nat]
  <2>1. Reply("ACK", v, pool[v], t) \in Replies
    BY <1>1, ReplyType DEF TypeOK
  <2>2. t \in Nat
    BY DhcpAssumption
  <2>3. QED BY <1>2, <1>5, <2>1, <2>2, CarryType
<1>6. QED BY <1>3, <1>4, <1>5 DEF Request

LEMMA ElapseType ==
    ASSUME TypeOK
    PROVE  /\ Age(net) \subseteq Replies
           /\ [a \in Addrs |-> Less(promise[a])] \in [Addrs -> Nat]
           /\ [lease EXCEPT !.left = Less(@)] \in [timeOut : 0 .. Mod - 1, left : 0 .. Mod - 1]
           /\ Less(recvTimer) \in 0 .. Wait
<1>1. Age(net) \subseteq Replies
  BY AgeType DEF TypeOK, Replies
<1>2. [a \in Addrs |-> Less(promise[a])] \in [Addrs -> Nat]
  BY LessType DEF TypeOK
<1>3. lease.left \in Nat /\ Less(lease.left) \in 0 .. Mod - 1
  BY LessType, DhcpAssumption DEF TypeOK
<1>4. Less(recvTimer) \in 0 .. Wait
  BY LessType, DhcpAssumption DEF TypeOK
<1>5. QED BY <1>1, <1>2, <1>3, <1>4 DEF TypeOK

\* The limits are limits.
LEMMA MaxRetryType == MaxRetry \in Nat \ {0} /\ 0 \in 0 .. MaxRetry /\ Wait \in 0 .. Wait
BY DhcpAssumption

-----------------------------------------------------------------------------
(* The steps keep the invariant                                            *)

\* The program starts well typed and outside a run.
LEMMA InitKeeps == Init => DhcpInv
<1>1. SUFFICES ASSUME Init PROVE DhcpInv
  OBVIOUS
<1>2. lease \in [timeOut : 0 .. Mod - 1, left : 0 .. Mod - 1]
  BY <1>1, ArmedType DEF Init
<1>3. pool \in [Servers -> 1 .. PoolSize] /\ promise \in [Addrs -> Nat]
  BY <1>1, DhcpAssumption DEF Init
<1>4. recvTimer \in 0 .. Wait /\ retries \in 0 .. MaxRetry
  BY <1>1, DhcpAssumption DEF Init
<1>5. msg \in [type : {"none", "OFFER", "ACK", "NAK"}, addr : AtMostOne(Addrs)]
  BY <1>1 DEF Init, Nothing, AtMostOne
<1>6. QED
  BY <1>1, <1>2, <1>3, <1>4, <1>5
     DEF Init, DhcpInv, TypeOK, RetriesLeft, Running, PCs, States, AtMostOne

\* DHCP_run begins with all its retries left.
LEMMA BeginKeeps ==
    ASSUME DhcpInv, NEW a \in AtMostOne(Addrs), Begin(a), st' \in States,
           lease' \in [timeOut : 0 .. Mod - 1, left : 0 .. Mod - 1]
    PROVE  DhcpInv'
<1>1. msg' \in [type : {"none", "OFFER", "ACK", "NAK"}, addr : AtMostOne(Addrs)]
  BY DEF Begin, Nothing, AtMostOne
<1>2. QED
  BY <1>1, MaxRetryType DEF Begin, DhcpInv, TypeOK, RetriesLeft, Running, PCs

LEMMA CannotBeginKeeps ==
    ASSUME DhcpInv, NEW a \in AtMostOne(Addrs), CannotBegin(a)
    PROVE  DhcpInv'
BY DEF CannotBegin, DhcpInv, TypeOK, RetriesLeft, Running, PCs, run

LEMMA AcquireKeeps == ASSUME DhcpInv, Acquire PROVE DhcpInv'
<1>1. {} \in AtMostOne(Addrs) /\ "INIT" \in States
  BY DEF AtMostOne, States
<1>2. CASE Begin({}) /\ st' = "INIT" /\ lease' = Armed(0)
  BY <1>1, <1>2, ArmedType, BeginKeeps
<1>3. CASE CannotBegin({})
  BY <1>1, <1>3, CannotBeginKeeps
<1>4. QED BY <1>2, <1>3 DEF Acquire

LEMMA RenewKeeps == ASSUME DhcpInv, Renew PROVE DhcpInv'
<1>1. ip \in AtMostOne(Addrs)
  BY DEF DhcpInv, TypeOK
<1>2. CASE Begin(ip) /\ UNCHANGED <<st, lease>>
  BY <1>1, <1>2, BeginKeeps DEF DhcpInv, TypeOK
<1>3. CASE CannotBegin(ip)
  BY <1>1, <1>3, CannotBeginKeeps
<1>4. QED BY <1>2, <1>3 DEF Renew

LEMMA StayKeeps == ASSUME DhcpInv, Stay PROVE DhcpInv'
BY DEF Stay, DhcpInv, TypeOK, RetriesLeft, Running, PCs, run

LEMMA ParseKeeps == ASSUME DhcpInv, Parse PROVE DhcpInv'
<1>1. pc' \in PCs /\ retries' = retries /\ retries < MaxRetry
  BY DEF Parse, DhcpInv, RetriesLeft, Running, PCs, run
<1>2. CASE msg' = Nothing /\ UNCHANGED <<sip, lease, net>>
  <2>1. msg' \in [type : {"none", "OFFER", "ACK", "NAK"}, addr : AtMostOne(Addrs)]
    BY <1>2 DEF Nothing, AtMostOne
  <2>2. QED BY <1>1, <1>2, <2>1 DEF Parse, DhcpInv, TypeOK, RetriesLeft, run
<1>3. ASSUME NEW m \in net, net' \in {net, net \ {m}},
             sip \in {{}, {m.server}},
             msg' = [type |-> m.type, addr |-> {m.addr}], sip' = {m.server},
             lease' = IF m.type = "NAK" THEN lease ELSE Armed(m.time)
      PROVE  DhcpInv'
  <2>1. m \in Replies /\ net' \subseteq Replies
    BY <1>3 DEF DhcpInv, TypeOK, Replies
  <2>2. msg' \in [type : {"none", "OFFER", "ACK", "NAK"}, addr : AtMostOne(Addrs)]
    BY <1>3, <2>1 DEF Replies, AtMostOne
  <2>3. sip' \in AtMostOne(Servers)
    BY <1>3, <2>1 DEF Replies, AtMostOne
  <2>4. lease' \in [timeOut : 0 .. Mod - 1, left : 0 .. Mod - 1]
    BY <1>3, <2>1, ArmedType DEF Replies, DhcpInv, TypeOK
  <2>5. QED
    BY <1>1, <2>1, <2>2, <2>3, <2>4
       DEF Parse, DhcpInv, TypeOK, RetriesLeft, Replies, run
<1>4. ASSUME NEW m \in net, net' \in {net, net \ {m}}, msg' = Nothing, UNCHANGED <<sip, lease>>
      PROVE  DhcpInv'
  <2>1. net' \subseteq net
    BY <1>4
  <2>2. msg' \in [type : {"none", "OFFER", "ACK", "NAK"}, addr : AtMostOne(Addrs)]
    BY <1>4 DEF Nothing, AtMostOne
  <2>3. QED BY <1>1, <1>4, <2>1, <2>2 DEF Parse, DhcpInv, TypeOK, RetriesLeft, run
<1>5. QED BY <1>2, <1>3, <1>4 DEF Parse

\* What all branches of the switch share: the retries are not touched.
LEMMA SwitchKeeps ==
    ASSUME DhcpInv, NEW state, Switch(state), UNCHANGED <<retries, chip>>,
           st' \in States, sip' \in AtMostOne(Servers), ip' \in AtMostOne(Addrs),
           lease' \in [timeOut : 0 .. Mod - 1, left : 0 .. Mod - 1], msg' = msg,
           recvTimer' \in 0 .. Wait, net' \subseteq Replies,
           pool' \in [Servers -> 1 .. PoolSize], promise' \in [Addrs -> Nat]
    PROVE  DhcpInv'
BY DEF Switch, DhcpInv, TypeOK, RetriesLeft, Running, PCs, Replies

LEMMA SwitchInitKeeps == ASSUME DhcpInv, SwitchInit PROVE DhcpInv'
<1>1. TypeOK
  BY DEF DhcpInv
<1>2. Switch("INIT") /\ UNCHANGED <<retries, chip, lease, msg, recvTimer>>
  BY DEF SwitchInit, run
<1>3. net' \subseteq Replies /\ pool' = pool /\ promise' = promise
  BY <1>1, DiscoverType DEF SwitchInit
<1>4. st' \in States /\ sip' \in AtMostOne(Servers) /\ ip' \in AtMostOne(Addrs)
  BY DEF SwitchInit, States, AtMostOne
<1>5. QED BY <1>1, <1>2, <1>3, <1>4, SwitchKeeps DEF TypeOK

LEMMA SwitchDiscoverKeeps == ASSUME DhcpInv, SwitchDiscover PROVE DhcpInv'
<1>1. TypeOK
  BY DEF DhcpInv
<1>2. Switch("DISCOVER") /\ UNCHANGED <<retries, chip, sip, lease, msg, recvTimer>>
  BY DEF SwitchDiscover, run
<1>3. CASE msg.type = "OFFER"
  <2>1. ip' = msg.addr /\ st' = "REQUEST" /\ Request(sip, msg.addr)
    BY <1>3 DEF SwitchDiscover
  <2>2. net' \subseteq Replies /\ pool' = pool /\ promise' \in [Addrs -> Nat]
    BY <1>1, <2>1, RequestType DEF TypeOK
  <2>3. QED BY <1>1, <1>2, <2>1, <2>2, SwitchKeeps DEF TypeOK, States
<1>4. CASE msg.type # "OFFER"
  <2>1. UNCHANGED <<st, ip, net, pool, promise>>
    BY <1>4 DEF SwitchDiscover
  <2>2. QED BY <1>1, <1>2, <2>1, SwitchKeeps DEF TypeOK, Replies
<1>5. QED BY <1>3, <1>4

LEMMA SwitchRequestKeeps == ASSUME DhcpInv, SwitchRequest PROVE DhcpInv'
<1>1. TypeOK
  BY DEF DhcpInv
<1>2. Switch("REQUEST") /\ UNCHANGED <<sip, ip, msg, retries, chip>>
  BY DEF SwitchRequest
<1>3. CASE st' \in States /\ UNCHANGED <<lease, recvTimer, net, pool, promise>>
  BY <1>1, <1>2, <1>3, SwitchKeeps DEF TypeOK, Replies
<1>4. CASE st' \in States /\ Elapse /\ UNCHANGED pool
  BY <1>1, <1>2, <1>4, ElapseType, SwitchKeeps DEF TypeOK, Elapse
<1>5. ASSUME st' = "INIT", Elapse,
             pool' \in {pool, [s \in Servers |-> IF ip = {<<s, pool[s]>>}
                                                 THEN (pool[s] % PoolSize) + 1 ELSE pool[s]]}
      PROVE  DhcpInv'
  <2>1. \A n \in Nat : (n % PoolSize) + 1 \in 1 .. PoolSize
    BY DhcpAssumption
  <2>2. pool' \in [Servers -> 1 .. PoolSize]
    BY <1>1, <1>5, <2>1 DEF TypeOK
  <2>3. QED BY <1>1, <1>2, <1>5, <2>2, ElapseType, SwitchKeeps DEF TypeOK, Elapse, States
<1>6. QED BY <1>1, <1>3, <1>4, <1>5 DEF SwitchRequest, TypeOK, States

LEMMA UnicastType ==
    ASSUME TypeOK, Unicast
    PROVE  /\ net' \subseteq Replies /\ pool' = pool /\ promise' \in [Addrs -> Nat]
           /\ lease' \in [timeOut : 0 .. Mod - 1, left : 0 .. Mod - 1]
           /\ recvTimer' \in 0 .. Wait
<1>1. CASE Request(sip, ip) /\ UNCHANGED <<lease, recvTimer>>
  BY <1>1, RequestType DEF TypeOK
<1>2. CASE Elapse /\ UNCHANGED pool
  BY <1>2, ElapseType DEF Elapse
<1>3. QED BY <1>1, <1>2 DEF Unicast

LEMMA SwitchLeasedKeeps == ASSUME DhcpInv, SwitchLeased PROVE DhcpInv'
<1>1. TypeOK
  BY DEF DhcpInv
<1>2. Switch("LEASED") /\ UNCHANGED <<sip, ip, msg, retries, chip>>
  BY DEF SwitchLeased
<1>3. CASE st' = "REREQUEST" /\ Unicast
  BY <1>1, <1>2, <1>3, UnicastType, SwitchKeeps DEF TypeOK, States
<1>4. CASE UNCHANGED <<st, lease, recvTimer, net, pool, promise>>
  BY <1>1, <1>2, <1>4, SwitchKeeps DEF TypeOK, Replies
<1>5. QED BY <1>3, <1>4 DEF SwitchLeased

LEMMA SwitchRerequestKeeps == ASSUME DhcpInv, SwitchRerequest PROVE DhcpInv'
<1>1. TypeOK
  BY DEF DhcpInv
<1>2. Switch("REREQUEST") /\ UNCHANGED <<sip, ip, lease, msg, recvTimer, retries, chip,
                                         net, pool, promise>>
  BY DEF SwitchRerequest, run
<1>3. st' \in States
  BY <1>1 DEF SwitchRerequest, TypeOK, States
<1>4. QED BY <1>1, <1>2, <1>3, SwitchKeeps DEF TypeOK, Replies

LEMMA LeasedKeeps == ASSUME DhcpInv, Leased PROVE DhcpInv'
BY DEF Leased, DhcpInv, TypeOK, RetriesLeft, Running, PCs, run

LEMMA NotDueKeeps == ASSUME DhcpInv, NotDue PROVE DhcpInv'
BY DEF NotDue, DhcpInv, TypeOK, RetriesLeft, Running, PCs, run

LEMMA DelayKeeps == ASSUME DhcpInv, Delay PROVE DhcpInv'
BY DEF Delay, DhcpInv, TypeOK, RetriesLeft, Running, PCs, run

\* The count of a timeout stays within the limit, and below it if the run goes
\* on.
LEMMA CountType ==
    ASSUME DhcpInv, pc = "resend", Count
    PROVE  /\ pc' \in PCs /\ retries' \in 0 .. MaxRetry /\ RetriesLeft'
           /\ recvTimer' \in 0 .. Wait /\ chip' \in AtMostOne(Addrs)
<1>1. retries \in Nat /\ MaxRetry \in Nat /\ retries < MaxRetry
  BY DhcpAssumption DEF DhcpInv, TypeOK, RetriesLeft, Running
<1>2. retries' = retries + 1 /\ recvTimer' = Wait
  BY DEF Count
<1>3. CASE retries + 1 >= MaxRetry
  BY <1>1, <1>2, <1>3, MaxRetryType DEF Count, DhcpInv, TypeOK, PCs, RetriesLeft, Running
<1>4. CASE ~(retries + 1 >= MaxRetry)
  BY <1>1, <1>2, <1>4, MaxRetryType DEF Count, DhcpInv, TypeOK, PCs, RetriesLeft, Running
<1>5. QED BY <1>3, <1>4

LEMMA ResendKeeps == ASSUME DhcpInv, Resend PROVE DhcpInv'
<1>1. TypeOK /\ net \subseteq Replies
  BY DEF DhcpInv, TypeOK, Replies
<1>2. /\ pc' \in PCs /\ retries' \in 0 .. MaxRetry /\ RetriesLeft'
      /\ recvTimer' \in 0 .. Wait /\ chip' \in AtMostOne(Addrs)
      /\ UNCHANGED <<st, ip, msg>>
  BY CountType DEF Resend
<1>3. SUFFICES /\ sip' \in AtMostOne(Servers) /\ net' \subseteq Replies
               /\ lease' \in [timeOut : 0 .. Mod - 1, left : 0 .. Mod - 1]
               /\ pool' \in [Servers -> 1 .. PoolSize] /\ promise' \in [Addrs -> Nat]
  BY <1>1, <1>2 DEF DhcpInv, TypeOK, Replies
<1>4. CASE UNCHANGED <<sip, lease, net, pool, promise>>
  BY <1>1, <1>4 DEF TypeOK
<1>5. CASE sip' = {} /\ Discover /\ UNCHANGED lease
  BY <1>1, <1>5, DiscoverType DEF TypeOK, AtMostOne
<1>6. CASE Request(sip, ip) /\ UNCHANGED <<sip, lease>>
  BY <1>1, <1>6, RequestType DEF TypeOK
<1>7. CASE /\ net' = Age(net) /\ promise' = [a \in Addrs |-> Less(promise[a])]
           /\ lease' = [lease EXCEPT !.left = Less(@)] /\ UNCHANGED <<sip, pool>>
  BY <1>1, <1>7, ElapseType DEF TypeOK
<1>8. QED BY <1>4, <1>5, <1>6, <1>7 DEF Resend

LEMMA TickKeeps == ASSUME DhcpInv, Tick PROVE DhcpInv'
<1>1. TypeOK
  BY DEF DhcpInv
<1>2. /\ net' \subseteq Replies /\ promise' \in [Addrs -> Nat]
      /\ lease' \in [timeOut : 0 .. Mod - 1, left : 0 .. Mod - 1]
      /\ recvTimer' \in 0 .. Wait
  BY <1>1, ElapseType DEF Tick, Elapse
<1>3. QED BY <1>2 DEF Tick, DhcpInv, TypeOK, RetriesLeft, Running, PCs, Replies

LEMMA StepKeeps == DhcpInv /\ [Next]_vars => DhcpInv'
<1>1. SUFFICES ASSUME DhcpInv, [Next]_vars PROVE DhcpInv'
  OBVIOUS
<1>2. CASE DHCP_run
  BY <1>1, <1>2, ParseKeeps, SwitchInitKeeps, SwitchDiscoverKeeps, SwitchRequestKeeps,
     SwitchLeasedKeeps, SwitchRerequestKeeps, LeasedKeeps, NotDueKeeps, ResendKeeps,
     DelayKeeps DEF DHCP_run
<1>3. CASE UNCHANGED vars
  BY <1>1, <1>3 DEF vars, run, DhcpInv, TypeOK, RetriesLeft, Running
<1>4. QED BY <1>1, <1>2, <1>3, AcquireKeeps, RenewKeeps, StayKeeps, TickKeeps DEF Next

-----------------------------------------------------------------------------
\* The variables of the client keep their types, the count of retries its limit
\* (DHCP_run, RyanW5500NetWorkInit), whatever servers and network do.
THEOREM DhcpTypeCorrect == Spec => []TypeOK
<1>1. DhcpInv => TypeOK
  BY DEF DhcpInv
<1>2. QED BY <1>1, InitKeeps, StepKeeps, PTL DEF Spec

\* An iteration of DHCP_run always has a retry left: a run cannot count past the
\* limit unseen and go on, and so ends after MAX_DHCP_RETRY timeouts.
THEOREM DhcpRetriesLeft == Spec => []RetriesLeft
<1>1. DhcpInv => RetriesLeft
  BY DEF DhcpInv
<1>2. QED BY <1>1, InitKeeps, StepKeeps, PTL DEF Spec

-----------------------------------------------------------------------------
(* What is leased                                                          *)

\* Sending waits for ARP, for a second, only where a server may not answer it.
ArpTime == IF "arpFails" \in Env THEN 1 ELSE 0

\* Low is what a server leases an address for at least, and what the client, with
\* its 32 bits of milliseconds, counts at most.  The margin outlasts a renewal of
\* which all retries fail, the second until the task looks at the timer again, and
\* the delay of the reply that has armed the timer.  A server offers the client
\* one address: nothing tells a late ACK for a declined one from that for the next.
MarginOutlasts(Low) ==
    /\ \A t \in Leases : Low <= t /\ t % Mod <= Low
    /\ MaxDelay + 4 <= Low
    /\ MaxDelay + 2 + MaxRetry * (Wait + ArpTime) <= Margin
    /\ PoolSize = 1 \/ Taken = {}

\* The client relies on its lease; it is about to return from DHCP_run with it; it
\* is renewing.
Holding  == st \in {"LEASED", "REREQUEST"}
Entering == pc = "resend" /\ st = "LEASED"
Renewing == Holding /\ Running /\ ~Entering

\* The seconds a run may still take.
Rest(n) == (MaxRetry - n) * (Wait + ArpTime)
Todo    == recvTimer - Wait + Rest(retries)

\* The address is one of the server chosen.
Chosen ==
    /\ st \in {"REQUEST", "LEASED", "REREQUEST"} =>
         ip = {} \/ \E s \in Servers : sip = {s} /\ ip = {<<s, 1>>}
    /\ pc = "switch" /\ msg.type # "none" =>
         \E s \in Servers : sip = {s} /\ msg.addr = {<<s, 1>>}

\* An ACK that is under way is backed by the server, but for its age.
NetBacked(Low) == \A m \in net :
    /\ m.addr = <<m.server, 1>>
    /\ m.type # "NAK" => m.time \in Leases
    /\ m.type = "ACK" => promise[m.addr] + m.age >= Low

LeaseBound(Low) == lease.left <= lease.timeOut /\ lease.timeOut <= Low

\* So is the ACK that has just been parsed, and has armed the timer.
AckBacked(Low) == pc = "switch" /\ msg.type = "ACK" =>
    /\ lease.left = lease.timeOut
    /\ \A a \in msg.addr : promise[a] + MaxDelay >= Low

\* The timer is ahead of the server by the delay of an ACK at most, and the server
\* keeps the address until the client has looked at the timer again: after a
\* second, or two when it waits for interrupts.
Backed == Holding => \A a \in ip : promise[a] + MaxDelay >= lease.left
Lasts  == Holding => \A a \in ip :
    /\ promise[a] >= 1
    /\ pc # "check" => promise[a] >= 2
    /\ pc = "idle" \/ Entering => promise[a] >= 3
    /\ Renewing => promise[a] >= 2 + Todo

\* Only a lease longer than the margin is renewed.
Renewable(Low) == Renewing => Margin <= Low

\* An offer would arm the timer too: those that are left when a lease begins are
\* gone when it is renewed.
NoOffers == Holding => \A m \in net : m.type = "OFFER" =>
                         ~Renewing /\ m.age + lease.left >= lease.timeOut

Passes == /\ pc = "delay" => recvTimer > 0 /\ st # "LEASED"
          /\ st = "LEASED" /\ pc \in {"parse", "switch"} => recvTimer = Wait

OneAddress == pool = [s \in Servers |-> 1]

HeldInv(Low) ==
    /\ DhcpInv /\ OneAddress /\ Chosen /\ NetBacked(Low) /\ LeaseBound(Low)
    /\ AckBacked(Low) /\ Backed /\ Lasts /\ Renewable(Low) /\ NoOffers /\ Passes

LEMMA HeldTypes ==
    ASSUME DhcpInv
    PROVE  /\ net \subseteq Replies
           /\ \A m \in net : m.age \in Nat /\ m.age <= MaxDelay /\ m.addr \in Addrs
           /\ promise \in [Addrs -> Nat]
           /\ lease.left \in Nat /\ lease.timeOut \in Nat
           /\ recvTimer \in Nat /\ recvTimer <= Wait
           /\ retries \in Nat /\ (Running => retries < MaxRetry)
           /\ \A a \in ip : a \in Addrs /\ promise[a] \in Nat
           /\ pc \in PCs /\ st \in States
           /\ MaxDelay \in Nat /\ Wait \in Nat \ {0} /\ MaxRetry \in Nat /\ Margin \in Nat
           /\ ArpTime \in {0, 1}
<1> USE DhcpAssumption
<1>1. TypeOK /\ (Running => retries < MaxRetry) BY DEF DhcpInv, RetriesLeft
<1>2. net \subseteq Replies BY <1>1 DEF TypeOK, Replies
<1>3. \A m \in net : m.age \in Nat /\ m.age <= MaxDelay /\ m.addr \in Addrs
  BY <1>2 DEF Replies
<1>4. promise \in [Addrs -> Nat] BY <1>1 DEF TypeOK
<1>5. \A a \in ip : a \in Addrs BY <1>1 DEF TypeOK, AtMostOne
<1>6. lease.left \in Nat /\ lease.timeOut \in Nat BY <1>1 DEF TypeOK
<1>7. recvTimer \in Nat /\ recvTimer <= Wait /\ retries \in Nat BY <1>1 DEF TypeOK
<1>8. pc \in PCs /\ st \in States BY <1>1 DEF TypeOK
<1>9. ArpTime \in {0, 1} BY DEF ArpTime
<1>10. QED BY <1>1, <1>2, <1>3, <1>4, <1>5, <1>6, <1>7, <1>8, <1>9

\* A retry takes the time of its wait and of its ARP.
LEMMA RestSteps ==
    ASSUME DhcpInv, NEW n \in Nat, n < MaxRetry
    PROVE  /\ Rest(n) \in Nat /\ Rest(n + 1) \in Nat
           /\ Rest(n) = Rest(n + 1) + Wait + ArpTime
           /\ Rest(n) <= Rest(0)
           /\ Rest(0) = MaxRetry * (Wait + ArpTime)
<1> DEFINE w == Wait + ArpTime
           k == MaxRetry - (n + 1)
<1>1. w \in Nat /\ k \in Nat /\ MaxRetry \in Nat BY HeldTypes
<1>2. MaxRetry - n = k + 1 /\ MaxRetry - (n + 1) = k /\ MaxRetry = k + 1 + n BY <1>1
<1>3. Rest(n) = (k + 1) * w /\ Rest(n + 1) = k * w /\ Rest(0) = MaxRetry * w
  BY <1>1, <1>2 DEF Rest
<1> HIDE DEF w, k
<1>4. (k + 1) * w = k * w + w BY <1>1
<1>5. (k + 1 + n) * w = (k + 1) * w + n * w BY <1>1
<1>6. k * w \in Nat /\ n * w \in Nat BY <1>1
<1>7. (k + 1) * w \in Nat /\ (k + 1) * w <= (k + 1 + n) * w BY <1>1, <1>4, <1>5, <1>6
<1>8. Rest(n) = Rest(n + 1) + w BY <1>3, <1>4
<1>9. Wait \in Nat /\ ArpTime \in Nat BY HeldTypes
<1>10. Rest(n) = Rest(n + 1) + Wait + ArpTime BY <1>3, <1>6, <1>8, <1>9 DEF w
<1>11. Rest(0) = MaxRetry * (Wait + ArpTime) BY <1>3 DEF w
<1>12. QED BY <1>2, <1>3, <1>6, <1>7, <1>10, <1>11

\* What a run may still take, at any of its steps.
LEMMA TodoBound ==
    ASSUME DhcpInv, Running
    PROVE  Todo \in Nat /\ Todo <= MaxRetry * (Wait + ArpTime)
<1>1. /\ retries \in Nat /\ retries < MaxRetry /\ recvTimer \in Nat /\ recvTimer <= Wait
      /\ Wait \in Nat /\ ArpTime \in Nat
  BY HeldTypes
<1>2. /\ Rest(retries) \in Nat /\ Rest(retries + 1) \in Nat
      /\ Rest(retries) = Rest(retries + 1) + Wait + ArpTime
      /\ Rest(retries) <= MaxRetry * (Wait + ArpTime)
  BY <1>1, RestSteps
<1> DEFINE rest == Rest(retries)
           more == Rest(retries + 1)
           all == MaxRetry * (Wait + ArpTime)
<1>3. /\ rest \in Nat /\ more \in Nat /\ rest = more + Wait + ArpTime /\ rest <= all
      /\ Todo = recvTimer - Wait + rest
  BY <1>2 DEF Todo
<1> HIDE DEF rest, more
<1>4. all \in Int BY <1>1, DhcpAssumption
<1> HIDE DEF all
<1>5. Todo \in Nat /\ Todo <= all BY <1>1, <1>3, <1>4
<1>6. QED BY <1>5 DEF all

LEMMA Aged ==
    ASSUME DhcpInv, NEW x \in Age(net)
    PROVE  \E m \in net : /\ x.type = m.type /\ x.server = m.server /\ x.addr = m.addr
                          /\ x.time = m.time /\ x.age = m.age + 1
<1>1. PICK m \in net : x = [m EXCEPT !.age = @ + 1] BY DEF Age
<1>2. m \in Replies BY <1>1, HeldTypes
<1>3. QED BY <1>1, <1>2 DEF Replies

\* Time passes for the server and for the reply alike.
LEMMA TimeKeepsNet ==
    ASSUME DhcpInv, NEW Low \in Nat, NetBacked(Low), net' = Age(net),
           promise' = [a \in Addrs |-> Less(promise[a])]
    PROVE  NetBacked(Low)'
<1> SUFFICES ASSUME NEW x \in Age(net)
             PROVE  /\ x.addr = <<x.server, 1>>
                    /\ x.type # "NAK" => x.time \in Leases
                    /\ x.type = "ACK" => promise'[x.addr] + x.age >= Low
  BY DEF NetBacked
<1>1. PICK m \in net : /\ x.type = m.type /\ x.server = m.server /\ x.addr = m.addr
                       /\ x.time = m.time /\ x.age = m.age + 1
  BY Aged
<1>2. m.addr \in Addrs /\ m.age \in Nat /\ promise \in [Addrs -> Nat]
  BY <1>1, HeldTypes
<1>3. promise'[m.addr] = Less(promise[m.addr]) /\ promise[m.addr] \in Nat BY <1>2
<1>4. promise'[m.addr] \in Nat /\ promise'[m.addr] + 1 >= promise[m.addr]
  BY <1>3 DEF Less
<1>5. m.type = "ACK" => promise[m.addr] + m.age >= Low BY <1>1 DEF NetBacked
<1>6. x.type = "ACK" => promise'[x.addr] + x.age >= Low BY <1>1, <1>2, <1>3, <1>4, <1>5
<1>7. QED BY <1>1, <1>6 DEF NetBacked

LEMMA DiscoverKeepsNet ==
    ASSUME DhcpInv, NEW Low \in Nat, NetBacked(Low), OneAddress, Discover
    PROVE  NetBacked(Low)'
<1>1. PICK S \in SUBSET Servers, t \in Leases :
        net' = Carry({Reply("OFFER", s, pool[s], t) : s \in S})
  BY DEF Discover
<1>2. promise' = promise BY DEF Discover
<1>3. ASSUME NEW x \in net'
      PROVE  /\ x.addr = <<x.server, 1>>
             /\ x.type # "NAK" => x.time \in Leases
             /\ x.type = "ACK" => promise[x.addr] + x.age >= Low
  <2>1. CASE x \in net BY <2>1 DEF NetBacked
  <2>2. CASE x \notin net
    <3>1. PICK s \in S : x = Reply("OFFER", s, pool[s], t)
      BY <1>1, <1>3, <2>2 DEF Carry
    <3>2. pool[s] = 1 BY <3>1 DEF OneAddress
    <3>3. QED BY <3>1, <3>2 DEF Reply
  <2>3. QED BY <2>1, <2>2
<1>4. QED BY <1>2, <1>3 DEF NetBacked

\* A server that answers a REQUEST with an ACK grants a whole lease; no address has
\* less time for it, and no offer is made.
LEMMA RequestKeepsNet ==
    ASSUME DhcpInv, NEW Low \in Nat, MarginOutlasts(Low), NetBacked(Low), OneAddress,
           NEW s \in AtMostOne(Servers), NEW a, Request(s, a)
    PROVE  /\ NetBacked(Low)'
           /\ \A b \in Addrs : promise'[b] = promise[b] \/ promise'[b] >= Low
           /\ \A m \in net' : m.type = "OFFER" => m \in net
<1>1. s \subseteq Servers BY DEF AtMostOne
<1>2. promise \in [Addrs -> Nat] /\ \A m \in net : m.age \in Nat /\ m.addr \in Addrs
  BY HeldTypes
<1>3. CASE UNCHANGED <<net, promise>> BY <1>3 DEF NetBacked
<1>4. ASSUME NEW v \in s, net' = Carry({Reply("NAK", v, pool[v], 0)}), UNCHANGED promise
      PROVE  NetBacked(Low)' /\ \A m \in net' : m.type = "OFFER" => m \in net
  <2>1. pool[v] = 1 BY <1>1 DEF OneAddress
  <2>2. \A m \in net' : m \in net \/ m = Reply("NAK", v, 1, 0) BY <1>4, <2>1 DEF Carry
  <2>3. LET m == Reply("NAK", v, 1, 0) IN m.type = "NAK" /\ m.addr = <<m.server, 1>>
    BY DEF Reply
  <2>4. QED BY <1>4, <2>2, <2>3 DEF NetBacked
<1>5. ASSUME NEW v \in s, NEW t \in Leases, net' = Carry({Reply("ACK", v, pool[v], t)}),
             promise' = [promise EXCEPT ![<<v, pool[v]>>] = t]
      PROVE  /\ NetBacked(Low)'
             /\ \A b \in Addrs : promise'[b] = promise[b] \/ promise'[b] >= Low
             /\ \A m \in net' : m.type = "OFFER" => m \in net
  <2>1. pool[v] = 1 BY <1>1 DEF OneAddress
  <2>2. t \in Nat /\ t >= Low BY DhcpAssumption DEF MarginOutlasts
  <2>3. \A b \in Addrs : promise'[b] = promise[b] \/ promise'[b] >= Low
    BY <1>2, <1>5, <2>1, <2>2
  <2>4. \A m \in net' : m \in net \/ m = Reply("ACK", v, 1, t) BY <1>5, <2>1 DEF Carry
  <2> DEFINE new == Reply("ACK", v, 1, t)
  <2>5. /\ new.type = "ACK" /\ new.addr = <<new.server, 1>> /\ new.time \in Leases
        /\ new.addr = <<v, 1>> /\ new.age = 0
    BY DEF Reply
  <2>6. <<v, 1>> \in Addrs BY <1>1, DhcpAssumption DEF Addrs
  <2>7. promise'[<<v, 1>>] = t BY <1>2, <1>5, <2>1, <2>6
  <2>8. promise'[new.addr] + new.age >= Low BY <2>2, <2>5, <2>7
  <2> HIDE DEF new
  <2>9. ASSUME NEW m \in net, m.type = "ACK" PROVE promise'[m.addr] + m.age >= Low
    <3>1. m.addr \in Addrs /\ m.age \in Nat BY <1>2
    <3>2. promise[m.addr] + m.age >= Low BY <2>9 DEF NetBacked
    <3>3. CASE promise'[m.addr] = promise[m.addr] BY <3>2, <3>3
    <3>4. CASE promise'[m.addr] >= Low
      <4>1. promise'[m.addr] \in Nat BY <1>2, <1>5, <2>2, <3>1
      <4>2. QED BY <3>1, <3>4, <4>1
    <3>5. QED BY <2>3, <3>1, <3>3, <3>4
  <2>10. \A m \in net' : /\ m.addr = <<m.server, 1>>
                         /\ m.type # "NAK" => m.time \in Leases
                         /\ m.type = "ACK" => promise'[m.addr] + m.age >= Low
    <3> SUFFICES ASSUME NEW m \in net'
                 PROVE  /\ m.addr = <<m.server, 1>>
                        /\ m.type # "NAK" => m.time \in Leases
                        /\ m.type = "ACK" => promise'[m.addr] + m.age >= Low
      OBVIOUS
    <3>1. CASE m \in net BY <3>1, <2>9 DEF NetBacked
    <3>2. CASE m = new BY <3>2, <2>5, <2>8
    <3>3. QED BY <2>4, <3>1, <3>2 DEF new
  <2>11. \A m \in net' : m.type = "OFFER" => m \in net BY <2>4, <2>5 DEF new
  <2>12. QED BY <2>3, <2>10, <2>11 DEF NetBacked
<1>6. QED BY <1>2, <1>3, <1>4, <1>5 DEF Request

\* Out of LEASED and REREQUEST the client relies on no lease.
LEMMA Unheld ==
    ASSUME NEW Low \in Nat, ~Holding'
    PROVE  Backed' /\ Lasts' /\ Renewable(Low)' /\ NoOffers'
BY DEF Backed, Lasts, Renewable, NoOffers, Renewing

\* What holds of servers and timer as long as neither moves.
LEMMA QuietKeeps ==
    ASSUME NEW Low \in Nat, HeldInv(Low), UNCHANGED <<lease, net, pool, promise>>
    PROVE  OneAddress' /\ NetBacked(Low)' /\ LeaseBound(Low)'
BY DEF HeldInv, OneAddress, NetBacked, LeaseBound

\* Between the looks at the timer, with the lease left alone, nothing is new.
LEMMA AcquireHolds ==
    ASSUME NEW Low \in Nat, MarginOutlasts(Low), HeldInv(Low), Acquire
    PROVE  HeldInv(Low)'
<1>1. DhcpInv /\ DhcpInv' BY AcquireKeeps DEF HeldInv
<1>2. CASE Begin({}) /\ st' = "INIT" /\ lease' = Armed(0)
  <2>1. /\ UNCHANGED <<sip, net, pool, promise>> /\ pc' = "parse" /\ st' = "INIT"
    BY <1>2 DEF Begin
  <2>2. lease'.left = 0 /\ lease'.timeOut = 0 BY <1>2, DhcpAssumption DEF Armed
  <2>3. OneAddress' /\ NetBacked(Low)' BY <2>1 DEF HeldInv, OneAddress, NetBacked
  <2>4. LeaseBound(Low)' BY <2>2 DEF LeaseBound
  <2>5. Chosen' /\ AckBacked(Low)' /\ Passes' /\ ~Holding'
    BY <2>1 DEF Chosen, AckBacked, Passes, Holding
  <2>6. QED BY <1>1, <2>3, <2>4, <2>5, Unheld DEF HeldInv
<1>3. CASE CannotBegin({})
  <2>1. /\ UNCHANGED <<st, sip, lease, net, pool, promise>> /\ pc' = "pause" /\ ip' = {}
    BY <1>3 DEF CannotBegin
  <2>2. OneAddress' /\ NetBacked(Low)' /\ LeaseBound(Low)' BY <2>1, QuietKeeps
  <2>3. Chosen' /\ AckBacked(Low)' /\ Passes' BY <2>1 DEF Chosen, AckBacked, Passes
  <2>4. Backed' /\ Lasts' BY <2>1 DEF Backed, Lasts
  <2>5. ~Renewing' BY <2>1 DEF Renewing, Running
  <2>6. Renewable(Low)' BY <2>5 DEF Renewable
  <2>7. NoOffers' BY <2>1, <2>5 DEF HeldInv, NoOffers, Holding
  <2>8. QED BY <1>1, <2>2, <2>3, <2>4, <2>6, <2>7 DEF HeldInv
<1>4. QED BY <1>2, <1>3 DEF Acquire

LEMMA AllPositive ==
    ASSUME DhcpInv
    PROVE  MaxRetry * (Wait + ArpTime) \in Nat /\ MaxRetry * (Wait + ArpTime) >= 1
<1> DEFINE more == Rest(0 + 1)
           all == Rest(0)
<1>1. 0 < MaxRetry /\ Wait \in Nat \ {0} /\ ArpTime \in Nat
  BY HeldTypes, DhcpAssumption
<1>2. /\ all \in Nat /\ more \in Nat /\ all = more + Wait + ArpTime
      /\ all = MaxRetry * (Wait + ArpTime)
  BY <1>1, RestSteps
<1> HIDE DEF more, all
<1>3. all >= 1 BY <1>1, <1>2
<1>4. QED BY <1>2, <1>3

\* With the margin left, the server keeps the address for longer than a renewal
\* takes, whatever the delay of the reply was that has armed the timer.
LEMMA MarginLeft ==
    ASSUME NEW Low \in Nat, MarginOutlasts(Low), HeldInv(Low), Holding, ~NearlyOver
    PROVE  /\ \A a \in ip : promise[a] >= 2 + MaxRetry * (Wait + ArpTime)
           /\ \A a \in ip : promise[a] >= 2 /\ promise[a] >= 3
           /\ Margin <= Low
<1> DEFINE all == MaxRetry * (Wait + ArpTime)
<1>1. /\ lease.left \in Nat /\ lease.timeOut \in Nat /\ Margin \in Nat /\ MaxDelay \in Nat
      /\ \A a \in ip : promise[a] \in Nat
      /\ MaxRetry \in Nat /\ Wait \in Nat /\ ArpTime \in Nat
  BY HeldTypes DEF HeldInv
<1>2. all \in Nat /\ all >= 1 BY AllPositive DEF HeldInv
<1>3. MaxDelay + 2 + all <= Margin BY DEF MarginOutlasts
<1> HIDE DEF all
<1>4. lease.left >= Margin BY <1>1 DEF NearlyOver
<1>5. \A a \in ip : promise[a] + MaxDelay >= lease.left BY DEF HeldInv, Backed
<1>6. \A a \in ip : promise[a] >= 2 + all BY <1>1, <1>2, <1>3, <1>4, <1>5
<1>7. \A a \in ip : promise[a] >= 2 /\ promise[a] >= 3 BY <1>1, <1>2, <1>6
<1>8. lease.left <= lease.timeOut /\ lease.timeOut <= Low BY DEF HeldInv, LeaseBound
<1>9. Margin <= Low BY <1>1, <1>4, <1>8
<1>10. QED BY <1>6, <1>7, <1>9 DEF all

LEMMA StayHolds ==
    ASSUME NEW Low \in Nat, MarginOutlasts(Low), HeldInv(Low), Stay
    PROVE  HeldInv(Low)'
<1>1. DhcpInv /\ DhcpInv' BY StayKeeps DEF HeldInv
<1>2. /\ UNCHANGED <<st, sip, ip, lease, net, pool, promise>> /\ pc' = "idle" /\ ~NearlyOver
  BY DEF Stay
<1>3. OneAddress' /\ NetBacked(Low)' /\ LeaseBound(Low)' BY <1>2, QuietKeeps
<1>4. Chosen' /\ AckBacked(Low)' /\ Passes'
  BY <1>2 DEF HeldInv, Chosen, AckBacked, Passes
<1>5. Backed' BY <1>2 DEF HeldInv, Backed, Holding
<1>6. ~Renewing' /\ Holding' = Holding BY <1>2 DEF Renewing, Running, Holding
<1>7. Lasts'
  <2>1. Holding => \A a \in ip : promise[a] >= 3 /\ promise[a] >= 2 /\ promise[a] >= 1
    BY <1>1, <1>2, MarginLeft, HeldTypes
  <2>2. QED BY <1>2, <1>6, <2>1 DEF Lasts
<1>8. Renewable(Low)' BY <1>6 DEF Renewable
<1>9. NoOffers' BY <1>2, <1>6 DEF HeldInv, NoOffers
<1>10. QED BY <1>1, <1>3, <1>4, <1>5, <1>7, <1>8, <1>9 DEF HeldInv

\* An offer that is left from before the lease is gone when half of it is over.
LEMMA OffersGone ==
    ASSUME NEW Low \in Nat, MarginOutlasts(Low), HeldInv(Low), Holding,
           lease.left >= Margin, lease.left < lease.timeOut \div 2
    PROVE  \A m \in net : m.type # "OFFER"
<1> SUFFICES ASSUME NEW m \in net, m.type = "OFFER" PROVE FALSE
  OBVIOUS
<1> DEFINE all == MaxRetry * (Wait + ArpTime)
<1>1. /\ lease.left \in Nat /\ lease.timeOut \in Nat /\ Margin \in Nat /\ MaxDelay \in Nat
      /\ m.age \in Nat /\ m.age <= MaxDelay
      /\ MaxRetry \in Nat /\ Wait \in Nat /\ ArpTime \in Nat
  BY HeldTypes DEF HeldInv
<1>2. all \in Nat BY <1>1
<1>3. MaxDelay + 2 + all <= Margin BY DEF MarginOutlasts
<1> HIDE DEF all
<1>4. m.age + lease.left >= lease.timeOut BY DEF HeldInv, NoOffers
<1>5. lease.timeOut > 2 * lease.left BY <1>1
<1>6. QED BY <1>1, <1>2, <1>3, <1>4, <1>5

\* A run that has just begun has all its retries.
LEMMA TodoBegins ==
    ASSUME DhcpInv', retries' = 0, recvTimer' = Wait
    PROVE  Todo' = MaxRetry * (Wait + ArpTime)
<1> DEFINE w == Wait + ArpTime
           all == MaxRetry * w
<1>1. MaxRetry \in Nat /\ Wait \in Nat /\ ArpTime \in Nat BY DhcpAssumption DEF ArpTime
<1>2. w \in Nat BY <1>1
<1>3. Rest(retries)' = (MaxRetry - 0) * w BY DEF Rest
<1> HIDE DEF w
<1>4. all \in Int /\ (MaxRetry - 0) * w = all BY <1>1, <1>2
<1>5. Todo' = Wait - Wait + all BY <1>3, <1>4 DEF Todo
<1> HIDE DEF all
<1>6. Todo' = all BY <1>1, <1>4, <1>5
<1>7. QED BY <1>6 DEF all, w

LEMMA RenewHolds ==
    ASSUME NEW Low \in Nat, MarginOutlasts(Low), HeldInv(Low), Renew
    PROVE  HeldInv(Low)'
<1>1. DhcpInv /\ DhcpInv' BY RenewKeeps DEF HeldInv
<1>2. lease.left >= Margin /\ lease.left < lease.timeOut \div 2 /\ ~NearlyOver
  <2>1. ~NearlyOver /\ lease.left < lease.timeOut \div 2 BY DEF Renew
  <2>2. lease.left \in Nat /\ Margin \in Nat BY <1>1, HeldTypes
  <2>3. QED BY <2>1, <2>2 DEF NearlyOver
<1>3. /\ UNCHANGED <<st, sip, ip, lease, net, pool, promise>> /\ pc' \in {"parse", "pause"}
      /\ pc' = "parse" => recvTimer' = Wait /\ retries' = 0
  BY DEF Renew, Begin, CannotBegin
<1>4. OneAddress' /\ NetBacked(Low)' /\ LeaseBound(Low)' BY <1>3, QuietKeeps
<1>5. Chosen' /\ AckBacked(Low)' /\ Passes'
  BY <1>3 DEF HeldInv, Chosen, AckBacked, Passes
<1>6. Backed' BY <1>3 DEF HeldInv, Backed, Holding
<1>7. (Holding' <=> Holding) BY <1>3 DEF Holding
<1>8. CASE ~Holding
  <2>1. Backed' /\ Lasts' /\ Renewable(Low)' /\ NoOffers' BY <1>7, <1>8, Unheld
  <2>2. QED BY <1>1, <1>4, <1>5, <2>1 DEF HeldInv
<1>9. CASE Holding
  <2>1. /\ \A a \in ip : promise[a] >= 2 + MaxRetry * (Wait + ArpTime)
        /\ \A a \in ip : promise[a] >= 2 /\ promise[a] >= 3
        /\ Margin <= Low
    BY <1>2, <1>9, MarginLeft
  <2>2. \A a \in ip : promise[a] >= 1 BY <1>1, <2>1, HeldTypes
  <2>3. Renewing' => Todo' = MaxRetry * (Wait + ArpTime)
    BY <1>1, <1>3, TodoBegins DEF Renewing, Running
  <2>4. Lasts'
    <3> DEFINE todo == Todo'
    <3>1. Renewing' => \A a \in ip : promise[a] >= 2 + todo BY <2>1, <2>3
    <3> HIDE DEF todo
    <3>2. pc' # "idle" /\ ~Entering' BY <1>3 DEF Entering
    <3>3. QED BY <1>3, <2>1, <2>2, <3>1, <3>2 DEF Lasts, todo
  <2>5. Renewable(Low)' BY <2>1 DEF Renewable
  <2>6. NoOffers' BY <1>2, <1>3, <1>9, OffersGone DEF NoOffers
  <2>7. QED BY <1>1, <1>4, <1>5, <1>6, <2>4, <2>5, <2>6 DEF HeldInv
<1>10. QED BY <1>8, <1>9

\* The timer is armed with no more than it counts, nor more than is leased.
LEMMA ArmedBound ==
    ASSUME NEW Low \in Nat, MarginOutlasts(Low), NEW t \in Leases
    PROVE  /\ Armed(t).left = Armed(t).timeOut
           /\ Armed(t).timeOut <= Low /\ Armed(t).left \in Nat
<1>1. t \in Nat /\ Mod \in Nat /\ Mod > 0 BY DhcpAssumption
<1>2. (t % Mod) \in Nat BY <1>1
<1>3. (t % Mod) <= Low BY DEF MarginOutlasts
<1>4. QED BY <1>2, <1>3 DEF Armed

\* Nothing that is parsed leaves the timer ahead of the server for longer than a
\* reply may have been under way: while the client renews, only an ACK arms it.
LEMMA ParseHolds ==
    ASSUME NEW Low \in Nat, MarginOutlasts(Low), HeldInv(Low), Parse
    PROVE  HeldInv(Low)'
<1>1. DhcpInv /\ DhcpInv' BY ParseKeeps DEF HeldInv
<1>2. /\ UNCHANGED <<st, ip, recvTimer, retries, pool, promise>>
      /\ pc = "parse" /\ pc' = "switch"
  BY DEF Parse, run
<1>3. OneAddress' /\ Passes' BY <1>2 DEF HeldInv, OneAddress, Passes
<1>4. /\ Holding' <=> Holding
      /\ Renewing' <=> Holding
      /\ Renewing <=> Holding
      /\ Todo' = Todo
  BY <1>2 DEF Holding, Renewing, Entering, Running, Todo, Rest
<1>5. Lasts' BY <1>2, <1>4 DEF HeldInv, Lasts, Entering
<1>6. Renewable(Low)' BY <1>4 DEF HeldInv, Renewable
<1>7. Holding => \A m \in net : m.type # "OFFER" BY <1>4 DEF HeldInv, NoOffers
<1>8. ASSUME net' \subseteq net PROVE NetBacked(Low)' /\ NoOffers'
  <2>1. NetBacked(Low)' BY <1>2, <1>8 DEF HeldInv, NetBacked
  <2>2. NoOffers' BY <1>4, <1>7, <1>8 DEF NoOffers
  <2>3. QED BY <2>1, <2>2
<1>9. ASSUME msg' = Nothing, UNCHANGED <<sip, lease>>, net' \subseteq net
      PROVE  HeldInv(Low)'
  <2>1. msg'.type = "none" BY <1>9 DEF Nothing
  <2>2. LeaseBound(Low)' BY <1>9 DEF HeldInv, LeaseBound
  <2>3. Chosen' BY <1>2, <1>9, <2>1 DEF HeldInv, Chosen
  <2>4. AckBacked(Low)' BY <2>1 DEF AckBacked
  <2>5. Backed' BY <1>2, <1>4, <1>9 DEF HeldInv, Backed
  <2>6. NetBacked(Low)' /\ NoOffers' BY <1>8, <1>9
  <2>7. QED BY <1>1, <1>3, <1>5, <1>6, <2>2, <2>3, <2>4, <2>5, <2>6 DEF HeldInv
<1>10. ASSUME NEW m \in net, net' \subseteq net, sip \in {{}, {m.server}},
              msg' = [type |-> m.type, addr |-> {m.addr}], sip' = {m.server},
              lease' = IF m.type = "NAK" THEN lease ELSE Armed(m.time)
       PROVE  HeldInv(Low)'
  <2>1. msg'.type = m.type /\ msg'.addr = {m.addr} BY <1>10
  <2>2. /\ m.addr = <<m.server, 1>>
        /\ m.type # "NAK" => m.time \in Leases
        /\ m.type = "ACK" => promise[m.addr] + m.age >= Low
    BY DEF HeldInv, NetBacked
  <2>3. /\ m.age \in Nat /\ m.age <= MaxDelay /\ m.addr \in Addrs /\ promise[m.addr] \in Nat
        /\ m.server \in Servers /\ MaxDelay \in Nat /\ Mod \in Nat \ {0} /\ Leases \subseteq Nat
    <3>1. m \in Replies BY <1>1, HeldTypes
    <3>2. m.server \in Servers BY <3>1 DEF Replies
    <3>3. QED BY <1>1, <3>2, HeldTypes, DhcpAssumption
  <2>4. m.type # "NAK" => lease'.left = lease'.timeOut /\ lease'.timeOut <= Low
                           /\ lease'.left \in Nat
    <3>1. m.type # "NAK" => lease' = Armed(m.time) BY <1>10
    <3>2. QED BY <2>2, <3>1, ArmedBound
  <2>5. m.type = "ACK" => promise[m.addr] + MaxDelay >= Low BY <2>2, <2>3
  <2>6. LeaseBound(Low)'
    <3>1. CASE m.type = "NAK" BY <1>10, <3>1 DEF HeldInv, LeaseBound
    <3>2. CASE m.type # "NAK" BY <2>4, <3>2 DEF LeaseBound
    <3>3. QED BY <3>1, <3>2
  <2>7. Chosen'
    <3>1. st' \in {"REQUEST", "LEASED", "REREQUEST"} =>
            ip' = {} \/ \E s \in Servers : sip' = {s} /\ ip' = {<<s, 1>>}
      <4> SUFFICES ASSUME st' \in {"REQUEST", "LEASED", "REREQUEST"}, ip' # {}
                   PROVE  \E s \in Servers : sip' = {s} /\ ip' = {<<s, 1>>}
        OBVIOUS
      <4>1. PICK s \in Servers : sip = {s} /\ ip = {<<s, 1>>} BY <1>2 DEF HeldInv, Chosen
      <4>2. s = m.server BY <1>10, <4>1
      <4>3. sip' = {s} BY <1>10, <4>2
      <4>4. ip' = {<<s, 1>>} BY <1>2, <4>1
      <4>5. QED BY <4>3, <4>4
    <3>2. \E s \in Servers : sip' = {s} /\ msg'.addr = {<<s, 1>>}
      BY <1>10, <2>1, <2>2, <2>3
    <3>3. QED BY <3>1, <3>2 DEF Chosen
  <2>8. AckBacked(Low)'
    BY <1>2, <2>1, <2>4, <2>5 DEF AckBacked
  <2>9. Backed'
    <3> SUFFICES ASSUME Holding, NEW a \in ip PROVE promise[a] + MaxDelay >= lease'.left
      BY <1>2, <1>4 DEF Backed
    <3>1. CASE m.type = "NAK" BY <1>10, <3>1 DEF HeldInv, Backed
    <3>2. CASE m.type = "ACK"
      <4>1. PICK s \in Servers : sip = {s} /\ ip = {<<s, 1>>}
        BY DEF HeldInv, Chosen, Holding
      <4>2. a = m.addr BY <1>10, <2>2, <4>1
      <4>3. promise[a] + MaxDelay >= Low BY <2>5, <3>2, <4>2
      <4>4. lease'.left <= Low /\ lease'.left \in Nat BY <2>4, <3>2
      <4>5. promise[a] \in Nat BY <2>3, <4>2
      <4>6. QED BY <2>3, <4>3, <4>4, <4>5
    <3>3. m.type \in {"NAK", "ACK"}
      <4>1. m \in Replies BY <1>1, HeldTypes
      <4>2. m.type # "OFFER" BY <1>7
      <4>3. QED BY <4>1, <4>2 DEF Replies
    <3>4. QED BY <3>1, <3>2, <3>3
  <2>10. NetBacked(Low)' /\ NoOffers' BY <1>8, <1>10
  <2>11. QED BY <1>1, <1>3, <1>5, <1>6, <2>6, <2>7, <2>8, <2>9, <2>10 DEF HeldInv
<1>11. QED BY <1>9, <1>10 DEF Parse

LEMMA SwitchInitHolds ==
    ASSUME NEW Low \in Nat, MarginOutlasts(Low), HeldInv(Low), SwitchInit
    PROVE  HeldInv(Low)'
<1>1. DhcpInv /\ DhcpInv' BY SwitchInitKeeps DEF HeldInv
<1>2. Discover /\ lease' = lease /\ pool' = pool /\ st' = "DISCOVER" /\ pc' = "resend"
  BY DEF SwitchInit, Discover, Switch
<1>3. OneAddress' /\ LeaseBound(Low)' BY <1>2 DEF HeldInv, OneAddress, LeaseBound
<1>4. NetBacked(Low)' BY <1>1, <1>2, DiscoverKeepsNet DEF HeldInv
<1>5. Chosen' /\ AckBacked(Low)' /\ Passes' /\ ~Holding'
  BY <1>2 DEF Chosen, AckBacked, Passes, Holding
<1>6. QED BY <1>1, <1>3, <1>4, <1>5, Unheld DEF HeldInv

LEMMA SwitchDiscoverHolds ==
    ASSUME NEW Low \in Nat, MarginOutlasts(Low), HeldInv(Low), SwitchDiscover
    PROVE  HeldInv(Low)'
<1>1. DhcpInv /\ DhcpInv' BY SwitchDiscoverKeeps DEF HeldInv
<1>2. pc = "switch" /\ st = "DISCOVER" /\ pc' = "resend" /\ UNCHANGED <<sip, lease>>
  BY DEF SwitchDiscover, Switch
<1>3. CASE msg.type = "OFFER"
  <2>1. ip' = msg.addr /\ st' = "REQUEST" /\ Request(sip, msg.addr)
    BY <1>3 DEF SwitchDiscover
  <2>2. pool' = pool BY <2>1 DEF Request
  <2>3. sip \in AtMostOne(Servers) BY <1>1 DEF DhcpInv, TypeOK
  <2>4. NetBacked(Low)' BY <1>1, <2>1, <2>3, RequestKeepsNet DEF HeldInv
  <2>5. OneAddress' /\ LeaseBound(Low)' BY <1>2, <2>2 DEF HeldInv, OneAddress, LeaseBound
  <2>6. \E s \in Servers : sip = {s} /\ msg.addr = {<<s, 1>>}
    BY <1>2, <1>3 DEF HeldInv, Chosen
  <2>7. Chosen' BY <1>2, <2>1, <2>6 DEF Chosen
  <2>8. AckBacked(Low)' /\ Passes' /\ ~Holding'
    BY <1>2, <2>1 DEF AckBacked, Passes, Holding
  <2>9. QED BY <1>1, <2>4, <2>5, <2>7, <2>8, Unheld DEF HeldInv
<1>4. CASE msg.type # "OFFER"
  <2>1. UNCHANGED <<st, ip, net, pool, promise>> BY <1>4 DEF SwitchDiscover
  <2>2. OneAddress' /\ NetBacked(Low)' /\ LeaseBound(Low)' BY <1>2, <2>1, QuietKeeps
  <2>3. Chosen' /\ AckBacked(Low)' /\ Passes' /\ ~Holding'
    BY <1>2, <2>1 DEF Chosen, AckBacked, Passes, Holding
  <2>4. QED BY <1>1, <2>2, <2>3, Unheld DEF HeldInv
<1>5. QED BY <1>3, <1>4

\* A second takes from the server, the timer and the replies alike.
LEMMA SecondPasses ==
    ASSUME NEW Low \in Nat, HeldInv(Low), net' = Age(net),
           promise' = [a \in Addrs |-> Less(promise[a])],
           lease' = [lease EXCEPT !.left = Less(@)]
    PROVE  /\ NetBacked(Low)' /\ LeaseBound(Low)'
           /\ \A a \in ip : promise'[a] \in Nat /\ promise'[a] + 1 >= promise[a]
           /\ Backed /\ Holding => \A a \in ip : promise'[a] + MaxDelay >= lease'.left
           /\ NoOffers /\ Holding => \A m \in net' : m.type = "OFFER" =>
                ~Renewing /\ m.age + lease'.left >= lease'.timeOut
<1>1. DhcpInv BY DEF HeldInv
<1>2. NetBacked(Low)' BY <1>1, TimeKeepsNet DEF HeldInv
<1>3. lease.left \in Nat /\ lease.timeOut \in Nat /\ MaxDelay \in Nat BY <1>1, HeldTypes
<1>4. /\ lease'.left = Less(lease.left) /\ lease'.timeOut = lease.timeOut
      /\ lease'.left \in Nat /\ lease'.left <= lease.left /\ lease'.left + 1 >= lease.left
      /\ lease'.left = 0 \/ lease'.left + 1 = lease.left
  <2>1. lease \in [timeOut : 0 .. Mod - 1, left : 0 .. Mod - 1]
    BY <1>1 DEF DhcpInv, TypeOK
  <2>2. lease'.left = Less(lease.left) /\ lease'.timeOut = lease.timeOut BY <2>1
  <2>3. QED BY <1>3, <2>2 DEF Less
<1>5. LeaseBound(Low)' BY <1>3, <1>4 DEF HeldInv, LeaseBound
<1>6. \A a \in ip : /\ promise[a] \in Nat /\ promise'[a] \in Nat
                    /\ promise'[a] + 1 >= promise[a]
  <2> SUFFICES ASSUME NEW a \in ip
               PROVE  /\ promise[a] \in Nat /\ promise'[a] \in Nat
                      /\ promise'[a] + 1 >= promise[a]
    OBVIOUS
  <2>1. a \in Addrs /\ promise[a] \in Nat BY <1>1, HeldTypes
  <2>2. promise'[a] = Less(promise[a]) BY <2>1
  <2>3. QED BY <2>1, <2>2 DEF Less
<1>7. ASSUME Backed, Holding, NEW a \in ip PROVE promise'[a] + MaxDelay >= lease'.left
  <2>1. promise[a] + MaxDelay >= lease.left BY <1>7 DEF Backed
  <2>2. QED BY <1>3, <1>4, <1>6, <2>1
<1>8. ASSUME NoOffers, Holding, NEW m \in net', m.type = "OFFER"
      PROVE  ~Renewing /\ m.age + lease'.left >= lease'.timeOut
  <2>1. PICK n \in net : m.type = n.type /\ m.age = n.age + 1 BY <1>1, <1>8, Aged
  <2>2. ~Renewing /\ n.age + lease.left >= lease.timeOut BY <1>8, <2>1 DEF NoOffers
  <2>3. n.age \in Nat BY <1>1, <2>1, HeldTypes
  <2>4. QED BY <1>3, <1>4, <2>1, <2>2, <2>3
<1>9. QED BY <1>2, <1>5, <1>6, <1>7, <1>8

\* Declining, the server stays with its one address.
LEMMA Declines ==
    ASSUME NEW Low \in Nat, MarginOutlasts(Low), OneAddress, ip = {} \/ ip \cap Taken # {},
           pool' \in {pool, [s \in Servers |->
                               IF ip = {<<s, pool[s]>>} THEN (pool[s] % PoolSize) + 1
                                                        ELSE pool[s]]}
    PROVE  OneAddress'
<1>1. PoolSize = 1 \/ Taken = {} BY DEF MarginOutlasts
<1>2. CASE pool' = pool BY <1>2 DEF OneAddress
<1>3. CASE pool' = [s \in Servers |-> IF ip = {<<s, pool[s]>>} THEN (pool[s] % PoolSize) + 1
                                                               ELSE pool[s]]
  <2>1. CASE PoolSize = 1
    <3>1. \A s \in Servers : pool[s] = 1 BY DEF OneAddress
    <3>2. (1 % 1) + 1 = 1 OBVIOUS
    <3>3. QED BY <1>3, <2>1, <3>1, <3>2 DEF OneAddress
  <2>2. CASE Taken = {}
    <3>1. ip = {} BY <2>2
    <3>2. \A s \in Servers : ip # {<<s, pool[s]>>} BY <3>1
    <3>3. QED BY <1>3, <3>2 DEF OneAddress
  <2>3. QED BY <1>1, <2>1, <2>2
<1>4. QED BY <1>2, <1>3

\* A lease begins with an ACK that is no older than the delay of a reply.
LEMMA SwitchRequestHolds ==
    ASSUME NEW Low \in Nat, MarginOutlasts(Low), HeldInv(Low), SwitchRequest
    PROVE  HeldInv(Low)'
<1>1. DhcpInv /\ DhcpInv' BY SwitchRequestKeeps DEF HeldInv
<1>2. pc = "switch" /\ st = "REQUEST" /\ pc' = "resend" /\ UNCHANGED <<sip, ip>>
  BY DEF SwitchRequest, Switch
<1>3. AckBacked(Low)' BY <1>2 DEF AckBacked
<1>4. ASSUME msg.type = "ACK", st' = "LEASED", UNCHANGED pool,
             Elapse \/ UNCHANGED <<lease, recvTimer, net, promise>>
      PROVE  HeldInv(Low)'
  <2>1. OneAddress' BY <1>4 DEF HeldInv, OneAddress
  <2>2. Chosen' /\ Passes' BY <1>2, <1>4 DEF HeldInv, Chosen, Passes
  <2>3. lease.left = lease.timeOut /\ \A a \in msg.addr : promise[a] + MaxDelay >= Low
    BY <1>2, <1>4 DEF HeldInv, AckBacked
  <2>4. ip \subseteq msg.addr
    <3>1. ip = {} \/ \E s \in Servers : sip = {s} /\ ip = {<<s, 1>>}
      BY <1>2 DEF HeldInv, Chosen
    <3>2. \E s \in Servers : sip = {s} /\ msg.addr = {<<s, 1>>}
      BY <1>2, <1>4 DEF HeldInv, Chosen
    <3>3. QED BY <3>1, <3>2
  <2>5. /\ lease.left \in Nat /\ MaxDelay \in Nat
        /\ \A a \in ip : promise[a] \in Nat /\ promise[a] + MaxDelay >= Low
    BY <1>1, <2>3, <2>4, HeldTypes
  <2>6. lease.left <= Low /\ MaxDelay + 4 <= Low
    <3>1. lease.timeOut <= Low BY DEF HeldInv, LeaseBound
    <3>2. QED BY <2>3, <3>1 DEF MarginOutlasts
  <2>7. \A a \in ip : promise[a] + MaxDelay >= lease.left /\ promise[a] >= 4
    BY <2>5, <2>6
  <2>8. ~Renewing' /\ Entering' BY <1>2, <1>4 DEF Renewing, Entering
  <2>9. Renewable(Low)' BY <2>8 DEF Renewable
  <2>10. /\ NetBacked(Low)' /\ LeaseBound(Low)'
         /\ \A a \in ip : promise'[a] \in Nat /\ promise'[a] >= 3
         /\ \A a \in ip : promise'[a] + MaxDelay >= lease'.left
         /\ \A m \in net' : m.age + lease'.left >= lease'.timeOut
    <3>1. CASE UNCHANGED <<lease, recvTimer, net, promise>>
      <4>1. \A m \in net : m.age \in Nat BY <1>1, HeldTypes
      <4>2. \A m \in net : m.age + lease.left >= lease.timeOut BY <2>3, <2>5, <4>1
      <4>3. NetBacked(Low)' /\ LeaseBound(Low)' BY <1>4, <3>1, QuietKeeps
      <4>4. \A a \in ip : promise[a] >= 3 BY <2>5, <2>7
      <4>5. QED BY <2>5, <2>7, <3>1, <4>2, <4>3, <4>4
    <3>2. CASE Elapse
      <4>1. /\ NetBacked(Low)' /\ LeaseBound(Low)'
            /\ \A a \in ip : promise'[a] \in Nat /\ promise'[a] + 1 >= promise[a]
        BY <3>2, SecondPasses DEF Elapse
      <4>2. \A a \in ip : promise'[a] >= 3 BY <2>5, <2>7, <4>1
      <4>3. /\ lease'.timeOut = lease.timeOut /\ lease'.left = Less(lease.left)
        BY <1>1, <3>2 DEF Elapse, DhcpInv, TypeOK
      <4>4. /\ lease'.left \in Nat /\ lease'.left + 1 >= lease.left
            /\ lease'.left = 0 \/ lease'.left = lease.left - 1
        BY <2>5, <4>3 DEF Less
      <4>5. ASSUME NEW a \in ip PROVE promise'[a] + MaxDelay >= lease'.left
        <5>1. promise[a] \in Nat /\ promise[a] + MaxDelay >= lease.left BY <2>5, <2>7
        <5>2. QED BY <2>5, <4>1, <4>4, <5>1
      <4>6. ASSUME NEW m \in net' PROVE m.age + lease'.left >= lease'.timeOut
        <5>1. PICK n \in net : m.age = n.age + 1 BY <1>1, <3>2, Aged DEF Elapse
        <5>2. n.age \in Nat BY <1>1, HeldTypes
        <5>3. QED BY <2>3, <2>5, <4>3, <4>4, <5>1, <5>2
      <4>7. QED BY <4>1, <4>2, <4>5, <4>6
    <3>3. QED BY <1>4, <3>1, <3>2
  <2>11. \A a \in ip : promise'[a] >= 2 /\ promise'[a] >= 1 BY <2>10
  <2>12. Backed' BY <1>2, <2>10 DEF Backed
  <2>13. Lasts' BY <1>2, <2>8, <2>10, <2>11 DEF Lasts
  <2>14. NoOffers' BY <2>8, <2>10 DEF NoOffers
  <2>15. QED
    BY <1>1, <1>3, <2>1, <2>2, <2>9, <2>10, <2>12, <2>13, <2>14 DEF HeldInv
<1>5. ASSUME ip = {} \/ ip \cap Taken # {}, st' = "INIT", Elapse,
             pool' \in {pool, [s \in Servers |-> IF ip = {<<s, pool[s]>>}
                                                 THEN (pool[s] % PoolSize) + 1 ELSE pool[s]]}
      PROVE  HeldInv(Low)'
  <2>1. OneAddress' BY <1>5, Declines DEF HeldInv
  <2>2. NetBacked(Low)' /\ LeaseBound(Low)' BY <1>5, SecondPasses DEF Elapse
  <2>3. Chosen' /\ Passes' /\ ~Holding' BY <1>2, <1>5 DEF Chosen, Passes, Holding
  <2>4. QED BY <1>1, <1>3, <2>1, <2>2, <2>3, Unheld DEF HeldInv
<1>6. ASSUME st' \in {"DISCOVER", "REQUEST"}, UNCHANGED <<lease, recvTimer, net, pool, promise>>
      PROVE  HeldInv(Low)'
  <2>1. OneAddress' /\ NetBacked(Low)' /\ LeaseBound(Low)' BY <1>6, QuietKeeps
  <2>2. Chosen' /\ Passes' /\ ~Holding'
    BY <1>2, <1>6 DEF HeldInv, Chosen, Passes, Holding
  <2>3. QED BY <1>1, <1>3, <2>1, <2>2, Unheld DEF HeldInv
<1>7. \/ /\ msg.type = "ACK" /\ st' = "LEASED" /\ UNCHANGED pool
         /\ Elapse \/ UNCHANGED <<lease, recvTimer, net, promise>>
      \/ /\ ip = {} \/ ip \cap Taken # {}
         /\ st' = "INIT" /\ Elapse
         /\ pool' \in {pool, [s \in Servers |-> IF ip = {<<s, pool[s]>>}
                                                THEN (pool[s] % PoolSize) + 1 ELSE pool[s]]}
      \/ st' \in {"DISCOVER", "REQUEST"} /\ UNCHANGED <<lease, recvTimer, net, pool, promise>>
  BY <1>2 DEF SwitchRequest
<1>8. QED BY <1>4, <1>5, <1>6, <1>7

\* What a step that moves neither servers nor timer has to keep of a lease.
LEMMA StillHeld ==
    ASSUME NEW Low \in Nat, HeldInv(Low), DhcpInv', Holding, Holding',
           UNCHANGED <<sip, ip, lease, net, pool, promise>>,
           pc # "check", pc' # "switch", Renewing' => Renewing /\ Todo' = Todo,
           pc' = "idle" \/ Entering' => \A a \in ip : promise[a] >= 3, Passes'
    PROVE  HeldInv(Low)'
<1>1. OneAddress' /\ NetBacked(Low)' /\ LeaseBound(Low)' BY QuietKeeps
<1>2. Chosen' BY DEF HeldInv, Chosen, Holding
<1>3. AckBacked(Low)' BY DEF AckBacked
<1>4. Backed' BY DEF HeldInv, Backed
<1>5. Lasts' BY DEF HeldInv, Lasts
<1>6. Renewable(Low)' BY DEF HeldInv, Renewable
<1>7. NoOffers' BY DEF HeldInv, NoOffers
<1>8. QED BY <1>1, <1>2, <1>3, <1>4, <1>5, <1>6, <1>7 DEF HeldInv

LEMMA SwitchRerequestHolds ==
    ASSUME NEW Low \in Nat, MarginOutlasts(Low), HeldInv(Low), SwitchRerequest
    PROVE  HeldInv(Low)'
<1>1. DhcpInv /\ DhcpInv' BY SwitchRerequestKeeps DEF HeldInv
<1>2. /\ UNCHANGED <<sip, ip, lease, recvTimer, retries, net, pool, promise>>
      /\ pc = "switch" /\ pc' = "resend" /\ st = "REREQUEST"
      /\ st' \in {"LEASED", "DISCOVER", "REREQUEST"}
  BY DEF SwitchRerequest, Switch, run
<1>3. Passes' BY <1>2 DEF Passes
<1>4. CASE st' = "DISCOVER"
  <2>1. OneAddress' /\ NetBacked(Low)' /\ LeaseBound(Low)' BY <1>2, QuietKeeps
  <2>2. Chosen' /\ AckBacked(Low)' /\ ~Holding'
    BY <1>2, <1>4 DEF Chosen, AckBacked, Holding
  <2>3. QED BY <1>1, <1>3, <2>1, <2>2, Unheld DEF HeldInv
<1>5. CASE st' # "DISCOVER"
  <2>1. Holding /\ Holding' BY <1>2, <1>5 DEF Holding
  <2>2. Renewing /\ Todo' = Todo
    BY <1>2, <2>1 DEF Renewing, Running, Entering, Todo, Rest
  <2>3. pc' = "idle" \/ Entering' => \A a \in ip : promise[a] >= 3
    <3> SUFFICES ASSUME Entering', NEW a \in ip PROVE promise[a] >= 3
      BY <1>2
    <3>1. msg.type = "ACK" BY <1>2 DEF SwitchRerequest, Entering
    <3>2. a \in msg.addr
      <4>1. PICK s \in Servers : sip = {s} /\ ip = {<<s, 1>>} BY <1>2 DEF HeldInv, Chosen
      <4>2. \E v \in Servers : sip = {v} /\ msg.addr = {<<v, 1>>}
        BY <1>2, <3>1 DEF HeldInv, Chosen
      <4>3. QED BY <4>1, <4>2
    <3>3. promise[a] + MaxDelay >= Low BY <1>2, <3>1, <3>2 DEF HeldInv, AckBacked
    <3>4. promise[a] \in Nat /\ MaxDelay \in Nat BY <1>1, HeldTypes
    <3>5. QED BY <3>3, <3>4 DEF MarginOutlasts
  <2>4. QED BY <1>1, <1>2, <1>3, <2>1, <2>2, <2>3, StillHeld
<1>6. QED BY <1>4, <1>5

\* The steps that only move on: DHCP_run returns, or goes to its next round.
LEMMA MovesHold ==
    ASSUME NEW Low \in Nat, MarginOutlasts(Low), HeldInv(Low), Leased \/ NotDue \/ Delay
    PROVE  HeldInv(Low)'
<1>1. DhcpInv /\ DhcpInv' BY LeasedKeeps, NotDueKeeps, DelayKeeps DEF HeldInv
<1>2. UNCHANGED <<st, sip, ip, lease, recvTimer, retries, net, pool, promise>>
  BY DEF Leased, NotDue, Delay, run
<1>3. \/ pc = "resend" /\ pc' = "idle"
      \/ pc = "resend" /\ pc' = "delay" /\ st # "LEASED" /\ recvTimer > 0
      \/ pc = "delay" /\ pc' = "parse"
  BY DEF Leased, NotDue, Delay
<1>4. Passes' BY <1>2, <1>3 DEF HeldInv, Passes
<1>5. CASE Holding
  <2>1. Holding' BY <1>2, <1>5 DEF Holding
  <2>2. Renewing' => Renewing /\ Todo' = Todo
    BY <1>2, <1>3, <1>5 DEF Renewing, Running, Entering, Todo, Rest
  <2>3. pc' = "idle" \/ Entering' => \A a \in ip : promise[a] >= 3
    <3>1. ~Entering' BY <1>3 DEF Entering
    <3>2. pc' = "idle" => Entering BY <1>3 DEF Leased, NotDue, Delay, Entering
    <3>3. QED BY <1>5, <3>1, <3>2 DEF HeldInv, Lasts
  <2>4. QED BY <1>1, <1>2, <1>3, <1>4, <1>5, <2>1, <2>2, <2>3, StillHeld
<1>6. CASE ~Holding
  <2>1. OneAddress' /\ NetBacked(Low)' /\ LeaseBound(Low)' BY <1>2, QuietKeeps
  <2>2. Chosen' /\ AckBacked(Low)' /\ ~Holding'
    BY <1>2, <1>3, <1>6 DEF HeldInv, Chosen, AckBacked, Holding
  <2>3. QED BY <1>1, <1>4, <2>1, <2>2, Unheld DEF HeldInv
<1>7. QED BY <1>5, <1>6

\* A renewal asks the server again: what it promises then is no less than before,
\* as far as this run may still take.
LEMMA RequestHolds ==
    ASSUME NEW Low \in Nat, MarginOutlasts(Low), HeldInv(Low), Renewing, Request(sip, ip)
    PROVE  /\ NetBacked(Low)' /\ pool' = pool
           /\ \A a \in ip : /\ promise'[a] \in Nat /\ promise'[a] + MaxDelay >= lease.left
                            /\ promise'[a] >= 2 + Todo
           /\ \A m \in net' : m.type # "OFFER"
<1> DEFINE all == MaxRetry * (Wait + ArpTime)
           todo == Todo
<1>1. DhcpInv /\ DhcpInv /\ Holding /\ Running BY DEF HeldInv, Renewing
<1>2. sip \in AtMostOne(Servers) BY <1>1 DEF DhcpInv, TypeOK
<1>3. NetBacked(Low)' /\ \A b \in Addrs : promise'[b] = promise[b] \/ promise'[b] >= Low
  BY <1>1, <1>2, RequestKeepsNet DEF HeldInv
<1>4. \A m \in net' : m.type = "OFFER" => m \in net
  BY <1>1, <1>2, RequestKeepsNet DEF HeldInv
<1>5. \A m \in net : m.type # "OFFER" BY <1>1 DEF HeldInv, NoOffers
<1>6. todo \in Nat /\ todo <= all BY <1>1, TodoBound
<1>7. /\ \A a \in ip : a \in Addrs /\ promise[a] \in Nat
      /\ MaxDelay \in Nat /\ Margin \in Nat /\ lease.left \in Nat /\ lease.timeOut \in Nat
      /\ MaxRetry \in Nat /\ Wait \in Nat /\ ArpTime \in Nat
  BY <1>1, HeldTypes
<1>8. all \in Nat BY <1>7
<1>9. MaxDelay + 2 + all <= Margin BY DEF MarginOutlasts
<1>10. \A a \in ip : promise[a] + MaxDelay >= lease.left /\ promise[a] >= 2 + todo
  BY <1>1 DEF HeldInv, Backed, Lasts
<1>11. lease.left <= lease.timeOut /\ lease.timeOut <= Low /\ Margin <= Low
  BY DEF HeldInv, LeaseBound, Renewable
<1>12. pool' = pool BY DEF Request
<1>13. promise' \in [Addrs -> Nat] BY <1>1, <1>2, RequestType DEF DhcpInv
<1> HIDE DEF all, todo
<1>14. ASSUME NEW a \in ip
       PROVE  /\ promise'[a] \in Nat /\ promise'[a] + MaxDelay >= lease.left
              /\ promise'[a] >= 2 + todo
  <2>1. a \in Addrs /\ promise'[a] \in Nat BY <1>7, <1>13
  <2>2. CASE promise'[a] = promise[a] BY <1>10, <2>1, <2>2
  <2>3. CASE promise'[a] >= Low
    <3>1. promise'[a] >= Margin /\ promise'[a] >= lease.left BY <1>7, <1>11, <2>1, <2>3
    <3>2. QED BY <1>6, <1>7, <1>8, <1>9, <2>1, <3>1
  <2>4. QED BY <1>3, <2>1, <2>2, <2>3
<1>15. QED BY <1>3, <1>4, <1>5, <1>12, <1>14 DEF todo

\* What a step within a renewal, or out of it, has to show.
LEMMA RenewalGoesOn ==
    ASSUME NEW Low \in Nat, HeldInv(Low), DhcpInv', Holding, UNCHANGED <<sip, ip, pool>>,
           st' \in {"LEASED", "REREQUEST"}, pc' \notin {"check", "switch", "idle"}, ~Entering',
           NetBacked(Low)', LeaseBound(Low)', NoOffers', Passes',
           Renewing' => Margin <= Low,
           \A a \in ip : promise'[a] \in Nat /\ promise'[a] + MaxDelay >= lease'.left,
           \A a \in ip : promise'[a] >= 2,
           Renewing' => \A a \in ip : promise'[a] >= 2 + Todo'
    PROVE  HeldInv(Low)'
<1>1. OneAddress' BY DEF HeldInv, OneAddress
<1>2. Chosen'
  <2>1. st \in {"REQUEST", "LEASED", "REREQUEST"} BY DEF Holding
  <2>2. ip = {} \/ \E s \in Servers : sip = {s} /\ ip = {<<s, 1>>}
    BY <2>1 DEF HeldInv, Chosen
  <2>3. QED BY <2>2 DEF Chosen
<1>3. AckBacked(Low)' BY DEF AckBacked
<1>4. Backed' BY DEF Backed
<1>5. \A a \in ip : promise'[a] >= 1 OBVIOUS
<1> DEFINE todo == Todo'
<1>6. Renewing' => \A a \in ip : promise'[a] >= 2 + todo OBVIOUS
<1> HIDE DEF todo
<1>7. Lasts' BY <1>5, <1>6 DEF Lasts, todo
<1>8. Renewable(Low)' BY DEF Renewable
<1>9. QED BY <1>1, <1>2, <1>3, <1>4, <1>7, <1>8 DEF HeldInv

\* A run within a second: what is left of it is one second less.
LEMMA TodoFalls ==
    ASSUME DhcpInv, DhcpInv', Running, Running', retries' = retries, recvTimer > 0,
           recvTimer' = Less(recvTimer)
    PROVE  Todo' \in Nat /\ Todo' = Todo - 1
<1> DEFINE rest == Rest(retries)
<1>1. Rest(retries)' = rest BY DEF Rest
<1>2. Todo \in Nat /\ Todo' \in Nat
  <2>1. Todo \in Nat BY TodoBound
  <2>2. (DhcpInv /\ Running => Todo \in Nat)' BY TodoBound, PTL
  <2>3. QED BY <2>1, <2>2
<1>3. recvTimer \in Nat /\ Wait \in Nat BY HeldTypes
<1>4. Todo = recvTimer - Wait + rest BY DEF Todo
<1>5. Todo' = recvTimer' - Wait + rest BY <1>1 DEF Todo
<1>6. rest \in Nat
  <2>1. retries \in Nat /\ retries < MaxRetry BY HeldTypes
  <2>2. QED BY <2>1, RestSteps
<1> HIDE DEF rest
<1>7. recvTimer' = recvTimer - 1 BY <1>3 DEF Less
<1>8. QED BY <1>2, <1>3, <1>4, <1>5, <1>6, <1>7

LEMMA SwitchLeasedHolds ==
    ASSUME NEW Low \in Nat, MarginOutlasts(Low), HeldInv(Low), SwitchLeased
    PROVE  HeldInv(Low)'
<1>1. DhcpInv /\ DhcpInv' BY SwitchLeasedKeeps DEF HeldInv
<1>2. /\ pc = "switch" /\ pc' = "resend" /\ st = "LEASED"
      /\ UNCHANGED <<sip, ip, retries>>
  BY DEF SwitchLeased, Switch
<1>3. Holding /\ Renewing /\ Running /\ Running'
  BY <1>2 DEF Holding, Renewing, Running, Entering
<1>4. Passes' /\ recvTimer = Wait BY <1>2 DEF HeldInv, Passes
<1>5. CASE UNCHANGED <<st, lease, recvTimer, net, pool, promise>>
  <2>1. Holding' /\ ~Renewing' BY <1>2, <1>5 DEF Holding, Renewing, Entering
  <2> DEFINE todo == Todo
  <2>2. todo \in Nat /\ todo >= 1
    <3> DEFINE rest == Rest(retries)
               more == Rest(retries + 1)
    <3>1. /\ retries \in Nat /\ retries < MaxRetry /\ Wait \in Nat \ {0} /\ ArpTime \in Nat
      BY <1>1, <1>3, HeldTypes
    <3>2. more \in Nat /\ rest = more + Wait + ArpTime BY <1>1, <3>1, RestSteps
    <3>3. todo = Wait - Wait + rest BY <1>4 DEF Todo
    <3> HIDE DEF rest, more, todo
    <3>4. QED BY <3>1, <3>2, <3>3
  <2>3. \A a \in ip : promise[a] \in Nat /\ promise[a] >= 2 + todo
    BY <1>1, <1>3, HeldTypes DEF HeldInv, Lasts
  <2> HIDE DEF todo
  <2>4. \A a \in ip : promise[a] >= 3 BY <2>2, <2>3
  <2>5. pc # "check" /\ pc' # "switch" /\ UNCHANGED <<sip, ip, lease, net, pool, promise>>
    BY <1>2, <1>5
  <2>6. QED BY <1>1, <1>3, <1>4, <2>1, <2>4, <2>5, StillHeld
<1>6. Margin <= Low /\ (st' = "REREQUEST" => ~Entering')
  BY <1>3 DEF HeldInv, Renewable, Entering
<1>7. ASSUME st' = "REREQUEST", Request(sip, ip), UNCHANGED <<lease, recvTimer>>
      PROVE  HeldInv(Low)'
  <2>1. /\ NetBacked(Low)' /\ pool' = pool
        /\ \A a \in ip : /\ promise'[a] \in Nat /\ promise'[a] + MaxDelay >= lease.left
                         /\ promise'[a] >= 2 + Todo
        /\ \A m \in net' : m.type # "OFFER"
    BY <1>3, <1>7, RequestHolds
  <2>2. Todo' = Todo BY <1>2, <1>7 DEF Todo, Rest
  <2> DEFINE todo == Todo
  <2>3. todo \in Nat BY <1>1, <1>3, TodoBound
  <2>4. Todo' = todo BY <2>2
  <2>5. \A a \in ip : promise'[a] >= 2 + todo /\ promise'[a] \in Nat BY <2>1
  <2> HIDE DEF todo
  <2>6. \A a \in ip : promise'[a] >= 2 BY <2>3, <2>5
  <2>7. \A a \in ip : promise'[a] >= 2 + Todo' BY <2>4, <2>5
  <2>8. NoOffers' BY <2>1 DEF NoOffers
  <2>9. LeaseBound(Low)' BY <1>7 DEF HeldInv, LeaseBound
  <2>10. \A a \in ip : promise'[a] \in Nat /\ promise'[a] + MaxDelay >= lease'.left
    BY <1>7, <2>1
  <2>11. QED BY <1>1, <1>2, <1>3, <1>4, <1>6, <1>7, <2>1, <2>6, <2>7, <2>8, <2>9, <2>10,
                RenewalGoesOn
<1>8. ASSUME st' = "REREQUEST", Elapse, UNCHANGED pool
      PROVE  HeldInv(Low)'
  <2>1. /\ NetBacked(Low)' /\ LeaseBound(Low)'
        /\ \A a \in ip : promise'[a] \in Nat /\ promise'[a] + 1 >= promise[a]
        /\ \A a \in ip : promise'[a] + MaxDelay >= lease'.left
        /\ \A m \in net' : m.type # "OFFER"
    BY <1>3, <1>8, SecondPasses DEF Elapse, HeldInv
  <2>2. recvTimer = Wait /\ Wait > 0 /\ recvTimer' = Less(recvTimer)
    BY <1>2, <1>8, DhcpAssumption DEF HeldInv, Passes, Elapse
  <2> DEFINE todo == Todo
             left == Todo'
  <2>3. left \in Nat /\ left = todo - 1 BY <1>1, <1>2, <1>3, <2>2, TodoFalls
  <2>4. todo \in Nat /\ \A a \in ip : promise[a] \in Nat /\ promise[a] >= 2 + todo
    BY <1>1, <1>3, TodoBound, HeldTypes DEF HeldInv, Lasts
  <2> HIDE DEF todo, left
  <2>5. \A a \in ip : promise'[a] >= 2 /\ promise'[a] >= 2 + left BY <2>1, <2>3, <2>4
  <2>6. \A a \in ip : promise'[a] >= 2 + Todo' BY <2>5 DEF left
  <2>7. NoOffers' BY <2>1 DEF NoOffers
  <2>8. QED BY <1>1, <1>2, <1>3, <1>4, <1>6, <1>8, <2>1, <2>5, <2>6, <2>7, RenewalGoesOn
<1>9. QED BY <1>2, <1>5, <1>7, <1>8 DEF SwitchLeased, Unicast

\* A timeout that is not the last takes the wait, and the ARP, from what is left.
LEMMA TodoCounts ==
    ASSUME DhcpInv, DhcpInv', Running, Running', recvTimer = 0, recvTimer' = Wait,
           retries' = retries + 1
    PROVE  Todo' \in Nat /\ Todo = Todo' + ArpTime
<1> DEFINE rest == Rest(retries)
           more == Rest(retries + 1)
           todo == Todo
           left == Todo'
<1>1. /\ retries \in Nat /\ retries < MaxRetry /\ Wait \in Nat /\ ArpTime \in Nat
  BY HeldTypes
<1>2. rest \in Nat /\ more \in Nat /\ rest = more + Wait + ArpTime BY <1>1, RestSteps
<1>3. todo = 0 - Wait + rest BY DEF Todo
<1>4. Rest(retries)' = more BY DEF Rest
<1>5. left = Wait - Wait + more BY <1>4 DEF Todo
<1> HIDE DEF rest, more, todo, left
<1>6. left \in Nat /\ todo = left + ArpTime BY <1>1, <1>2, <1>3, <1>5
<1>7. QED BY <1>6 DEF todo, left

\* What a message that is sent again changes where nothing is leased.
LEMMA ResendUnheld ==
    ASSUME NEW Low \in Nat, MarginOutlasts(Low), HeldInv(Low), Resend, ~Holding
    PROVE  HeldInv(Low)'
<1>1. DhcpInv /\ DhcpInv' BY ResendKeeps DEF HeldInv
<1>2. /\ UNCHANGED <<st, ip, msg>> /\ st # "REREQUEST" /\ st # "LEASED"
      /\ pc' \in {"pause", "delay"} /\ recvTimer' = Wait
  BY DEF Resend, Holding, Count
<1>3. Wait > 0 BY DhcpAssumption
<1>4. AckBacked(Low)' /\ Passes' /\ ~Holding' BY <1>2, <1>3 DEF AckBacked, Passes, Holding
<1>5. lease' = lease BY <1>2 DEF Resend
<1>6. LeaseBound(Low)' BY <1>5 DEF HeldInv, LeaseBound
<1>7. SUFFICES OneAddress' /\ NetBacked(Low)' /\ Chosen'
  BY <1>1, <1>4, <1>6, Unheld DEF HeldInv
<1>8. CASE UNCHANGED <<sip, net, pool, promise>>
  BY <1>2, <1>8 DEF HeldInv, OneAddress, NetBacked, Chosen
<1>9. CASE st = "DISCOVER" /\ Discover
  <2>1. pool' = pool BY <1>9 DEF Discover
  <2>2. NetBacked(Low)' BY <1>1, <1>9, DiscoverKeepsNet DEF HeldInv
  <2>3. QED BY <1>2, <1>9, <2>1, <2>2 DEF HeldInv, OneAddress, Chosen
<1>10. CASE st = "REQUEST" /\ Request(sip, ip) /\ UNCHANGED sip
  <2>1. pool' = pool BY <1>10 DEF Request
  <2>2. sip \in AtMostOne(Servers) BY <1>1 DEF DhcpInv, TypeOK
  <2>3. NetBacked(Low)' BY <1>1, <1>10, <2>2, RequestKeepsNet DEF HeldInv
  <2>4. OneAddress' BY <2>1 DEF HeldInv, OneAddress
  <2>5. QED BY <1>2, <1>10, <2>3, <2>4 DEF HeldInv, Chosen
<1>11. QED BY <1>2, <1>8, <1>9, <1>10 DEF Resend

\* A renewal of which a retry fails has its time for the others.
LEMMA ResendHolds ==
    ASSUME NEW Low \in Nat, MarginOutlasts(Low), HeldInv(Low), Resend
    PROVE  HeldInv(Low)'
<1>1. DhcpInv /\ DhcpInv' BY ResendKeeps DEF HeldInv
<1>2. SUFFICES ASSUME Holding PROVE HeldInv(Low)'
  BY ResendUnheld
<1>3. /\ pc = "resend" /\ st = "REREQUEST" /\ recvTimer = 0
      /\ UNCHANGED <<st, ip, msg>>
      /\ pc' \in {"pause", "delay"} /\ recvTimer' = Wait /\ retries' = retries + 1
  BY <1>2 DEF Resend, Holding, Count
<1>4. Renewing /\ Running /\ (Renewing' => Running') /\ ~Entering'
  BY <1>2, <1>3 DEF Renewing, Running, Entering
<1>5. Wait > 0 BY DhcpAssumption
<1>6. Passes' BY <1>3, <1>5 DEF Passes
<1>7. Margin <= Low BY <1>4 DEF HeldInv, Renewable
<1> DEFINE todo == Todo
           left == Todo'
<1>8. todo \in Nat BY <1>1, <1>4, TodoBound
<1>9. ArpTime \in Nat /\ (Renewing' => left \in Nat /\ todo = left + ArpTime)
  BY <1>1, <1>3, <1>4, TodoCounts, HeldTypes
<1>10. CASE Request(sip, ip) /\ UNCHANGED <<sip, lease>>
  <2>1. /\ NetBacked(Low)' /\ pool' = pool
        /\ \A a \in ip : /\ promise'[a] \in Nat /\ promise'[a] + MaxDelay >= lease.left
                         /\ promise'[a] >= 2 + todo
        /\ \A m \in net' : m.type # "OFFER"
    BY <1>4, <1>10, RequestHolds
  <2> HIDE DEF todo, left
  <2>2. \A a \in ip : promise'[a] >= 2 /\ (Renewing' => promise'[a] >= 2 + left)
    BY <1>8, <1>9, <2>1
  <2>3. Renewing' => \A a \in ip : promise'[a] >= 2 + Todo' BY <2>2 DEF left
  <2>4. NoOffers' BY <2>1 DEF NoOffers
  <2>5. LeaseBound(Low)' BY <1>10 DEF HeldInv, LeaseBound
  <2>6. \A a \in ip : promise'[a] \in Nat /\ promise'[a] + MaxDelay >= lease'.left
    BY <1>10, <2>1
  <2>7. UNCHANGED <<sip, ip, pool>> BY <1>3, <1>10, <2>1
  <2>8. QED BY <1>1, <1>2, <1>3, <1>4, <1>6, <1>7, <2>1, <2>2, <2>3, <2>4, <2>5, <2>6,
                <2>7, RenewalGoesOn
<1>11. ASSUME "arpFails" \in Env, net' = Age(net),
              promise' = [a \in Addrs |-> Less(promise[a])],
              lease' = [lease EXCEPT !.left = Less(@)], UNCHANGED <<sip, pool>>
       PROVE  HeldInv(Low)'
  <2>1. /\ NetBacked(Low)' /\ LeaseBound(Low)'
        /\ \A a \in ip : promise'[a] \in Nat /\ promise'[a] + 1 >= promise[a]
        /\ \A a \in ip : promise'[a] + MaxDelay >= lease'.left
        /\ \A m \in net' : m.type # "OFFER"
    BY <1>2, <1>4, <1>11, SecondPasses DEF HeldInv
  <2>2. \A a \in ip : promise[a] \in Nat /\ promise[a] >= 2 + todo
    BY <1>1, <1>2, <1>4, HeldTypes DEF HeldInv, Lasts
  <2>3. ArpTime = 1 BY <1>11 DEF ArpTime
  <2>4. todo >= 1
    <3>1. Rest(retries) = Rest(retries + 1) + Wait + ArpTime /\ Rest(retries + 1) \in Nat
      BY <1>1, <1>4, HeldTypes, RestSteps
    <3>2. Wait \in Nat BY DhcpAssumption
    <3> DEFINE rest == Rest(retries)
               more == Rest(retries + 1)
    <3>3. rest = more + Wait + 1 /\ more \in Nat /\ todo = 0 - Wait + rest
      BY <1>3, <2>3, <3>1 DEF Todo
    <3> HIDE DEF rest, more, todo
    <3>4. QED BY <3>2, <3>3
  <2> HIDE DEF todo, left
  <2>5. \A a \in ip : promise'[a] >= 2 BY <1>8, <2>1, <2>2, <2>4
  <2>6. Renewing' => \A a \in ip : promise'[a] >= 2 + left
    BY <1>8, <1>9, <2>1, <2>2, <2>3
  <2>7. Renewing' => \A a \in ip : promise'[a] >= 2 + Todo' BY <2>6 DEF left
  <2>8. NoOffers' BY <2>1 DEF NoOffers
  <2>9. UNCHANGED <<sip, ip, pool>> BY <1>3, <1>11
  <2>10. QED BY <1>1, <1>2, <1>3, <1>4, <1>6, <1>7, <2>1, <2>5, <2>7, <2>8, <2>9,
                RenewalGoesOn
<1>12. QED BY <1>3, <1>10, <1>11 DEF Resend

\* A second between two looks at the timer is one that the server has promised.
LEMMA TickHolds ==
    ASSUME NEW Low \in Nat, MarginOutlasts(Low), HeldInv(Low), Tick
    PROVE  HeldInv(Low)'
<1>1. DhcpInv /\ DhcpInv' BY TickKeeps DEF HeldInv
<1>2. /\ UNCHANGED <<st, sip, ip, msg, retries, pool>> /\ Elapse
      /\ \/ pc = "delay" /\ pc' = "parse"
         \/ pc = "idle" /\ pc' \in {"check", "pause"}
         \/ pc = "pause" /\ pc' = "check"
  BY DEF Tick
<1>3. /\ NetBacked(Low)' /\ LeaseBound(Low)'
      /\ \A a \in ip : promise'[a] \in Nat /\ promise'[a] + 1 >= promise[a]
      /\ Holding => \A a \in ip : promise'[a] + MaxDelay >= lease'.left
      /\ Holding => \A m \in net' : m.type = "OFFER" =>
           ~Renewing /\ m.age + lease'.left >= lease'.timeOut
  BY <1>2, SecondPasses DEF Elapse, HeldInv
<1>4. OneAddress' /\ AckBacked(Low)' BY <1>2 DEF HeldInv, OneAddress, AckBacked
<1>5. Chosen'
  <2>1. pc' # "switch" BY <1>2
  <2>2. QED BY <1>2, <2>1 DEF HeldInv, Chosen
<1>6. Passes' BY <1>2 DEF HeldInv, Passes
<1>7. CASE ~Holding
  <2>1. ~Holding' BY <1>2, <1>7 DEF Holding
  <2>2. QED BY <1>1, <1>3, <1>4, <1>5, <1>6, <2>1, Unheld DEF HeldInv
<1>8. CASE Holding /\ pc = "delay"
  <2>1. st = "REREQUEST" /\ recvTimer > 0 /\ recvTimer' = Less(recvTimer)
    BY <1>2, <1>8 DEF HeldInv, Passes, Holding, Elapse
  <2>2. Renewing /\ Running /\ Running'
    BY <1>2, <1>8 DEF Renewing, Running, Entering
  <2> DEFINE todo == Todo
             left == Todo'
  <2>3. left \in Nat /\ left = todo - 1 BY <1>1, <1>2, <2>1, <2>2, TodoFalls
  <2>4. todo \in Nat /\ \A a \in ip : promise[a] \in Nat /\ promise[a] >= 2 + todo
    BY <1>1, <1>8, <2>2, TodoBound, HeldTypes DEF HeldInv, Lasts
  <2>5. Margin <= Low BY <2>2 DEF HeldInv, Renewable
  <2> HIDE DEF todo, left
  <2>6. \A a \in ip : promise'[a] >= 2 /\ promise'[a] >= 2 + left
    BY <1>3, <2>3, <2>4
  <2>7. \A a \in ip : promise'[a] >= 2 + Todo' BY <2>6 DEF left
  <2>8. NoOffers' BY <1>3, <1>8, <2>2 DEF NoOffers
  <2>9. pc' \notin {"check", "switch", "idle"} /\ ~Entering' BY <1>2, <1>8 DEF Entering
  <2>10. st' \in {"LEASED", "REREQUEST"} BY <1>2, <2>1
  <2>11. \A a \in ip : promise'[a] \in Nat /\ promise'[a] + MaxDelay >= lease'.left
    BY <1>3, <1>8
  <2>12. \A a \in ip : promise'[a] >= 2 BY <2>6
  <2>13. QED BY <1>1, <1>2, <1>3, <1>6, <1>8, <2>5, <2>7, <2>8, <2>9, <2>10, <2>11, <2>12,
                RenewalGoesOn
<1>9. CASE Holding /\ pc \in {"idle", "pause"}
  <2>1. pc' \in {"check", "pause"} /\ ~Renewing' /\ ~Entering'
    BY <1>2, <1>9 DEF Renewing, Running, Entering
  <2>2. Backed' BY <1>2, <1>3, <1>9 DEF Backed
  <2>3. \A a \in ip : /\ promise[a] \in Nat /\ promise[a] >= 2
                      /\ pc = "idle" => promise[a] >= 3
    BY <1>1, <1>9, HeldTypes DEF HeldInv, Lasts
  <2>4. pc' = "pause" => pc = "idle" BY <1>2, <1>9
  <2>5. \A a \in ip : promise'[a] >= 1 /\ (pc' = "pause" => promise'[a] >= 2)
    BY <1>3, <2>3, <2>4
  <2>6. Lasts' BY <1>2, <2>1, <2>5 DEF Lasts
  <2>7. Renewable(Low)' BY <2>1 DEF Renewable
  <2>8. NoOffers' BY <1>3, <1>9, <2>1 DEF NoOffers
  <2>9. QED BY <1>1, <1>3, <1>4, <1>5, <1>6, <2>2, <2>6, <2>7, <2>8 DEF HeldInv
<1>10. QED BY <1>2, <1>7, <1>8, <1>9

LEMMA InitHolds == ASSUME NEW Low \in Nat, Init PROVE HeldInv(Low)
<1>1. DhcpInv BY InitKeeps
<1>2. /\ pc = "check" /\ st = "INIT" /\ ip = {} /\ net = {} /\ lease = Armed(0)
      /\ pool = [s \in Servers |-> 1]
  BY DEF Init
<1>3. lease.left = 0 /\ lease.timeOut = 0 BY <1>2, DhcpAssumption DEF Armed
<1>4. OneAddress /\ NetBacked(Low) /\ LeaseBound(Low)
  BY <1>2, <1>3 DEF OneAddress, NetBacked, LeaseBound
<1>5. Chosen /\ AckBacked(Low) /\ Passes BY <1>2 DEF Chosen, AckBacked, Passes
<1>6. ~Holding BY <1>2 DEF Holding
<1>7. Backed /\ Lasts /\ Renewable(Low) /\ NoOffers
  BY <1>6 DEF Backed, Lasts, Renewable, NoOffers, Renewing
<1>8. QED BY <1>1, <1>4, <1>5, <1>7 DEF HeldInv

LEMMA StepHolds ==
    ASSUME NEW Low \in Nat, MarginOutlasts(Low)
    PROVE  HeldInv(Low) /\ [Next]_vars => HeldInv(Low)'
<1>1. SUFFICES ASSUME HeldInv(Low), [Next]_vars PROVE HeldInv(Low)'
  OBVIOUS
<1>2. CASE DHCP_run
  BY <1>1, <1>2, ParseHolds, SwitchInitHolds, SwitchDiscoverHolds, SwitchRequestHolds,
     SwitchLeasedHolds, SwitchRerequestHolds, MovesHold, ResendHolds DEF DHCP_run
<1>3. CASE UNCHANGED vars
  <2>1. DhcpInv' BY <1>1, StepKeeps DEF HeldInv
  <2>2. UNCHANGED <<pc, st, sip, ip, lease, msg, recvTimer, retries, net, pool, promise>>
    BY <1>3 DEF vars, run
  <2>3. OneAddress' /\ NetBacked(Low)' /\ LeaseBound(Low)' BY <1>1, <2>2, QuietKeeps
  <2>4. Chosen' /\ AckBacked(Low)' /\ Passes'
    BY <1>1, <2>2 DEF HeldInv, Chosen, AckBacked, Passes
  <2>5. /\ Holding' <=> Holding
        /\ Renewing' <=> Renewing
        /\ Entering' <=> Entering
        /\ Todo' = Todo
    BY <2>2 DEF Holding, Renewing, Running, Entering, Todo, Rest
  <2>6. Backed' /\ Lasts' /\ Renewable(Low)' /\ NoOffers'
    BY <1>1, <2>2, <2>5 DEF HeldInv, Backed, Lasts, Renewable, NoOffers
  <2>7. QED BY <2>1, <2>3, <2>4, <2>6 DEF HeldInv
<1>4. QED BY <1>1, <1>2, <1>3, AcquireHolds, RenewHolds, StayHolds, TickHolds DEF Next

\* What the client takes for leased is leased, as long as the margin of ten seconds
\* outlasts a renewal that fails in all its retries (RyanW5500NetWorkInit,
\* check_DHCP_timeout).
THEOREM LeaseAlwaysHeld ==
    ASSUME NEW Low \in Nat, MarginOutlasts(Low)
    PROVE  Spec => []LeaseHeld
<1>1. Init => HeldInv(Low) BY InitHolds
<1>2. HeldInv(Low) /\ [Next]_vars => HeldInv(Low)' BY StepHolds
<1>3. HeldInv(Low) => LeaseHeld
  <2> SUFFICES ASSUME HeldInv(Low), Holding, NEW a \in ip PROVE promise[a] > 0
    BY DEF LeaseHeld, Holding
  <2>1. promise[a] >= 1 BY DEF HeldInv, Lasts
  <2>2. promise[a] \in Nat BY HeldTypes DEF HeldInv
  <2>3. QED BY <2>1, <2>2
<1>4. QED BY <1>1, <1>2, <1>3, PTL DEF Spec
=============================================================================
