----------------------------- MODULE DhcpClient -----------------------------
(***************************************************************************)
(* The DHCP client of wizchip_dhcp.c and the part of RyanW5500NetWorkInit  *)
(* that starts it: acquiring an address, renewing it at half of the lease, *)
(* acquiring it anew when the lease is nearly over.  Servers and network   *)
(* are external: requests may be lost, replies may be lost, duplicated and *)
(* delayed by up to MaxDelay.                                              *)
(*                                                                         *)
(* Time is counted in ticks of one second, the granularity of every        *)
(* timeout of the client.  One pass of the loop of DHCP_run is three steps *)
(* (parse, switch, resend) and a delay of 100 ms, in which a tick may      *)
(* fall.  Sending takes no time unless ARP is not answered.  The           *)
(* transaction id does not appear: the client sends it and never compares  *)
(* it with a reply's.                                                      *)
(***************************************************************************)
EXTENDS Integers, FiniteSets

CONSTANTS Servers,
          PoolSize,  \* addresses a server has for this client
          Taken,     \* addresses another host answers ARP requests for
          Leases,    \* lease times granted, in ticks
          Mod,       \* 2^32 ms in ticks
          Wait,      \* DHCP_WAIT_TIME
          MaxRetry,  \* MAX_DHCP_RETRY
          Margin,    \* the 10 seconds of RyanW5500NetWorkInit
          MaxDelay,  \* bound: how long the network keeps a reply
          MaxNet,    \* bound: replies under way at a time
          Env        \* a subset of Behaviours

Behaviours == {"restart",      \* the link goes down, or DHCP is enabled again
               "createFails",  \* no socket or no memory for DHCP_run
               "arpFails"}     \* the server does not answer ARP requests

Addrs == Servers \X (1 .. PoolSize)

ASSUME DhcpAssumption ==
    /\ IsFiniteSet(Servers)
    /\ PoolSize \in Nat \ {0}
    /\ Taken \subseteq Addrs
    /\ Leases \subseteq Nat
    /\ Mod \in Nat \ {0} /\ Wait \in Nat \ {0} /\ MaxRetry \in Nat \ {0}
    /\ Margin \in Nat /\ MaxDelay \in Nat /\ MaxNet \in Nat
    /\ Env \subseteq Behaviours

VARIABLES pc,         \* where the W5500 task is
          st,         \* dhcp_state
          sip,        \* DHCP_SIP, DHCP_REAL_SIP: {} or {server}
          ip,         \* gWIZNETINFO.ip: {} or {address}
          lease,      \* dhcp_lease_time: timeOut and what is left of it
          msg,        \* type and yiaddr of the message parsed last
          recvTimer,  \* what is left of recvTimer
          retries,    \* dhcp_retry_count
          chip,       \* the address the W5500 uses: {} or {address}
          net,        \* replies under way
          pool,       \* the address each server has reserved for the client
          promise     \* how long each address is leased to the client, as the
                      \* servers have acknowledged it

run    == <<recvTimer, retries>>
vars   == <<pc, st, sip, ip, lease, msg, run, chip, net, pool, promise>>

States == {"INIT", "DISCOVER", "REQUEST", "LEASED", "REREQUEST"}
PCs    == {"check", "idle", "pause", "parse", "switch", "resend", "delay"}
Nothing == [type |-> "none", addr |-> {}]

Less(n) == IF n > 0 THEN n - 1 ELSE 0

-----------------------------------------------------------------------------
(* Servers and network                                                     *)

Reply(type, s, n, time) ==
    [type |-> type, server |-> s, addr |-> <<s, n>>, time |-> time, age |-> 0]

\* Replies that fit are added; the others are lost.
Carry(replies) == IF Cardinality(net \cup replies) <= MaxNet THEN net \cup replies ELSE net

\* A DISCOVER reaches some of the servers, and some offers come back.
Discover ==
    /\ \E S \in SUBSET Servers, t \in Leases :
         net' = Carry({Reply("OFFER", s, pool[s], t) : s \in S})
    /\ UNCHANGED <<pool, promise>>

\* A REQUEST for address a of server s is lost, refused or acknowledged.
Request(s, a) ==
    /\ UNCHANGED pool
    /\ \/ UNCHANGED <<net, promise>>
       \/ /\ s # {}
          /\ \E v \in s : net' = Carry({Reply("NAK", v, pool[v], 0)})
          /\ UNCHANGED promise
       \/ /\ s # {}
          /\ \E v \in s, t \in Leases :
               /\ a = {<<v, pool[v]>>}
               /\ net' = Carry({Reply("ACK", v, pool[v], t)})
               /\ promise' = [promise EXCEPT ![<<v, pool[v]>>] = t]

\* One second passes; replies that are too old are gone.
Age(replies)  == {[m EXCEPT !.age = @ + 1] : m \in {r \in replies : r.age < MaxDelay}}
Elapse ==
    /\ net' = Age(net)
    /\ promise' = [a \in Addrs |-> Less(promise[a])]
    /\ lease' = [lease EXCEPT !.left = Less(@)]
    /\ recvTimer' = Less(recvTimer)

-----------------------------------------------------------------------------
(* RyanW5500NetWorkInit in DHCP mode                                       *)

\* The lease time of a message is multiplied by 1000 in 32 bits.
Armed(t) == [timeOut |-> t % Mod, left |-> t % Mod]

\* DHCP_run up to its loop.  Without a socket or memory it returns -1, and
\* whatever the result the chip gets what is in gWIZNETINFO.
Begin(address) ==
    /\ ip' = address
    /\ msg' = Nothing
    /\ recvTimer' = Wait
    /\ retries' = 0
    /\ pc' = "parse"
    /\ UNCHANGED <<sip, chip, net, pool, promise>>

CannotBegin(address) ==
    /\ "createFails" \in Env
    /\ ip' = address
    /\ chip' = address
    /\ pc' = "pause"
    /\ UNCHANGED <<st, sip, lease, msg, run, net, pool, promise>>

\* Mutant of NearlyOver: the lease is renewed to its very end.
OnlyOver == lease.left = 0

NearlyOver == lease.left < Margin

\* MaintainFlag 0: no lease, less than ten seconds of it, or a restart.
Acquire ==
    /\ pc = "check"
    /\ NearlyOver \/ "restart" \in Env
    /\ \/ Begin({}) /\ st' = "INIT" /\ lease' = Armed(0)
       \/ CannotBegin({})

\* MaintainFlag 1: more than half of the lease is over.
Renew ==
    /\ pc = "check"
    /\ ~NearlyOver
    /\ lease.left < lease.timeOut \div 2
    /\ \/ Begin(ip) /\ UNCHANGED <<st, lease>>
       \/ CannotBegin(ip)

Stay ==
    /\ pc = "check"
    /\ ~NearlyOver
    /\ lease.left >= lease.timeOut \div 2
    /\ pc' = "idle"
    /\ UNCHANGED <<st, sip, ip, lease, msg, run, chip, net, pool, promise>>

-----------------------------------------------------------------------------
(* DHCP_run                                                                *)

\* parseDHCPMSG: the options of a reply of the chosen server, or of any server
\* when none is chosen, go to DHCP_SIP and the lease timer whatever its type is
\* and whatever it answers.
Parse ==
    /\ pc = "parse"
    /\ pc' = "switch"
    /\ \/ /\ msg' = Nothing
          /\ UNCHANGED <<sip, lease, net>>
       \/ \E m \in net :
            /\ net' \in {net, net \ {m}}
            /\ IF sip \in {{}, {m.server}}
               THEN /\ msg' = [type |-> m.type, addr |-> {m.addr}]
                    /\ sip' = {m.server}
                    /\ lease' = IF m.type = "NAK" THEN lease ELSE Armed(m.time)
               ELSE /\ msg' = Nothing
                    /\ UNCHANGED <<sip, lease>>
    /\ UNCHANGED <<st, ip, run, chip, pool, promise>>

Switch(state) == pc = "switch" /\ st = state /\ pc' = "resend"

\* STATE_DHCP_INIT: send_DHCP_DISCOVER forgets the server.
SwitchInit ==
    /\ Switch("INIT")
    /\ ip' = {}
    /\ sip' = {}
    /\ st' = "DISCOVER"
    /\ Discover
    /\ UNCHANGED <<lease, msg, run, chip>>

SwitchDiscover ==
    /\ Switch("DISCOVER")
    /\ IF msg.type = "OFFER"
       THEN /\ ip' = msg.addr
            /\ st' = "REQUEST"
            /\ Request(sip, msg.addr)
       ELSE UNCHANGED <<st, ip, net, pool, promise>>
    /\ UNCHANGED <<sip, lease, msg, run, chip>>

\* An ACK is followed by check_DHCP_leasedIP, which waits for ARP requests to
\* stay unanswered; a second may end meanwhile.  In a conflict the address is
\* declined, which the server may hear, and a second later all starts again.
SwitchRequest ==
    /\ Switch("REQUEST")
    /\ \/ /\ msg.type = "ACK"
          /\ ip # {} /\ ip \cap Taken = {}
          /\ st' = "LEASED"
          /\ Elapse \/ UNCHANGED <<lease, recvTimer, net, promise>>
          /\ UNCHANGED pool
       \/ /\ msg.type = "ACK"
          /\ ip = {} \/ ip \cap Taken # {}
          /\ st' = "INIT"
          /\ Elapse
          /\ pool' \in {pool, [s \in Servers |->
                                 IF ip = {<<s, pool[s]>>} THEN (pool[s] % PoolSize) + 1
                                                          ELSE pool[s]]}
       \/ /\ msg.type # "ACK"
          /\ st' = IF msg.type = "NAK" THEN "DISCOVER" ELSE st
          /\ UNCHANGED <<lease, recvTimer, net, pool, promise>>
    /\ UNCHANGED <<sip, ip, msg, retries, chip>>

\* The request to the server itself waits for ARP.
Unicast ==
    \/ /\ Request(sip, ip)
       /\ UNCHANGED <<lease, recvTimer>>
    \/ /\ "arpFails" \in Env
       /\ Elapse
       /\ UNCHANGED pool

SwitchLeased ==
    /\ Switch("LEASED")
    /\ IF lease.timeOut # 0 /\ lease.left < lease.timeOut \div 2
       THEN st' = "REREQUEST" /\ Unicast
       ELSE UNCHANGED <<st, lease, recvTimer, net, pool, promise>>
    /\ UNCHANGED <<sip, ip, msg, retries, chip>>

SwitchRerequest ==
    /\ Switch("REREQUEST")
    /\ st' = CASE msg.type = "ACK" -> "LEASED"
               [] msg.type = "NAK" -> "DISCOVER"
               [] OTHER            -> st
    /\ UNCHANGED <<sip, ip, lease, msg, run, chip, net, pool, promise>>

\* A lease ends the run; the chip gets the address.
Leased ==
    /\ pc = "resend"
    /\ st = "LEASED"
    /\ chip' = ip
    /\ pc' = "idle"
    /\ UNCHANGED <<st, sip, ip, lease, msg, run, net, pool, promise>>

NotDue ==
    /\ pc = "resend"
    /\ st # "LEASED"
    /\ recvTimer > 0
    /\ pc' = "delay"
    /\ UNCHANGED <<st, sip, ip, lease, msg, run, chip, net, pool, promise>>

\* Mutant of Count: a run without an offer is not counted.
CountOffered ==
    /\ recvTimer' = Wait
    /\ retries' = IF st = "DISCOVER" THEN retries ELSE retries + 1
    /\ IF retries' >= MaxRetry
       THEN pc' = "pause" /\ chip' = ip
       ELSE pc' = "delay" /\ UNCHANGED chip

\* The count after a timeout: the last one ends the run, and the chip gets
\* whatever address is there.
Count ==
    /\ recvTimer' = Wait
    /\ retries' = retries + 1
    /\ IF retries + 1 >= MaxRetry
       THEN pc' = "pause" /\ chip' = ip
       ELSE pc' = "delay" /\ UNCHANGED chip

\* recvTimer is over: send the message of the present state again.
Resend ==
    /\ pc = "resend"
    /\ st # "LEASED"
    /\ recvTimer = 0
    /\ \/ st = "INIT" /\ UNCHANGED <<sip, lease, net, pool, promise>>
       \/ st = "DISCOVER" /\ sip' = {} /\ Discover /\ UNCHANGED lease
       \/ st = "REQUEST" /\ Request(sip, ip) /\ UNCHANGED <<sip, lease>>
       \/ st = "REREQUEST" /\ Request(sip, ip) /\ UNCHANGED <<sip, lease>>
       \/ /\ "arpFails" \in Env /\ st = "REREQUEST"
          /\ net' = Age(net)
          /\ promise' = [a \in Addrs |-> Less(promise[a])]
          /\ lease' = [lease EXCEPT !.left = Less(@)]
          /\ UNCHANGED <<sip, pool>>
    /\ Count
    /\ UNCHANGED <<st, ip, msg>>

\* delay(100), within the present second.
Delay ==
    /\ pc = "delay"
    /\ pc' = "parse"
    /\ UNCHANGED <<st, sip, ip, lease, msg, run, chip, net, pool, promise>>

\* A second has passed: delay(100) has been called often enough, delay(1000)
\* after a failure is over, or the task has waited for interrupts.  One that
\* comes shortly before the second is over makes it wait for another.
Tick ==
    /\ \/ pc = "delay" /\ pc' = "parse"
       \/ pc = "idle" /\ pc' \in {"check", "pause"}
       \/ pc = "pause" /\ pc' = "check"
    /\ Elapse
    /\ UNCHANGED <<st, sip, ip, msg, retries, chip, pool>>

-----------------------------------------------------------------------------
Init ==
    /\ pc = "check" /\ st = "INIT"
    /\ sip = {} /\ ip = {} /\ chip = {}
    /\ lease = Armed(0) /\ msg = Nothing
    /\ recvTimer = 0 /\ retries = 0
    /\ net = {}
    /\ pool = [s \in Servers |-> 1]
    /\ promise = [a \in Addrs |-> 0]

DHCP_run ==
    \/ Parse
    \/ SwitchInit \/ SwitchDiscover \/ SwitchRequest \/ SwitchLeased \/ SwitchRerequest
    \/ Leased \/ NotDue \/ Resend \/ Delay

Next == Acquire \/ Renew \/ Stay \/ DHCP_run \/ Tick

Spec == Init /\ [][Next]_vars

\* The task runs, and time passes: its delays of 100 ms add up to seconds.
FairSpec == Spec /\ WF_vars(Acquire \/ Renew \/ Stay \/ DHCP_run) /\ SF_vars(Tick)

-----------------------------------------------------------------------------
(* Properties                                                              *)

AtMostOne(S) == {{}} \cup {{x} : x \in S}

\* Type invariant of the DHCP client.
TypeOK ==
    /\ pc \in PCs /\ st \in States
    /\ sip \in AtMostOne(Servers)
    /\ ip \in AtMostOne(Addrs) /\ chip \in AtMostOne(Addrs)
    /\ lease \in [timeOut : 0 .. Mod - 1, left : 0 .. Mod - 1]
    /\ msg \in [type : {"none", "OFFER", "ACK", "NAK"}, addr : AtMostOne(Addrs)]
    /\ recvTimer \in 0 .. Wait /\ retries \in 0 .. MaxRetry
    /\ net \subseteq [type : {"OFFER", "ACK", "NAK"}, server : Servers, addr : Addrs,
                      time : Leases \cup {0}, age : 0 .. MaxDelay]
    /\ pool \in [Servers -> 1 .. PoolSize]
    /\ promise \in [Addrs -> Nat]

\* What the client takes for leased is leased: as long as it is in state LEASED
\* or renews, the server has acknowledged its address and the time is not over.
\* The margin of ten seconds must outlast a renewal that fails in all its
\* retries, and the delay of the reply that armed the timer.
LeaseHeld == st \in {"LEASED", "REREQUEST"} => \A a \in ip : promise[a] > 0

\* DHCP_run returns, whatever the servers answer: the W5500 task handles no
\* interrupt of any socket before.
RunEnds == (pc = "parse") ~> (pc \in {"idle", "pause"})
=============================================================================
