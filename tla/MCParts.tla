------------------------------ MODULE MCParts ------------------------------
(***************************************************************************)
(* The parts that the others stand on, each alone: the countdown timer,    *)
(* the linked list, the SPI bus, the buffers in the chip, the options of   *)
(* sockets, the resolver calls and ping.  They do not interact here: a     *)
(* behaviour is one of one part.                                           *)
(***************************************************************************)
EXTENDS PlatformTimer, RyanList, SpiBus, SocketBuffer, SocketOptions, Resolver, Ping

CONSTANTS h1, h2, e1, e2, e3, t1, t2, c1, c2, s1

TwoHeads      == {h1, h2}
ThreeEntries  == {e1, e2, e3}
TwoUsers      == {t1, t2}
TwoCallers    == {c1, c2}
OneFd         == {s1}
TwoTimevals   == {[sec |-> 2, usec |-> 5], [sec |-> 6, usec |-> 0]}

VARIABLE part

MCInit ==
    /\ part \in {"timer", "list", "bus", "buffer", "options", "resolver", "ping"}
    /\ Init /\ ListInit /\ BusInit /\ BufferInit /\ OptInit /\ ResolverInit /\ PingInit
    /\ part # "timer"  => tick = 0 /\ timer.timeOut = 0
    /\ part # "bus"    => cell = [a \in Addrs |-> Blank]
    /\ part # "buffer" => side = "rx"

Only(p, v) == part = p /\ UNCHANGED <<part, v>>

MCNext ==
    \/ /\ Only("timer", <<listVars, busVars, bufferVars, optVars, resolverVars, pingVars>>)
       /\ Next
    \/ /\ Only("list", <<vars, busVars, bufferVars, optVars, resolverVars, pingVars>>)
       /\ ListNext
    \/ /\ Only("bus", <<vars, listVars, bufferVars, optVars, resolverVars, pingVars>>)
       /\ BusNext
    \/ /\ Only("buffer", <<vars, listVars, busVars, optVars, resolverVars, pingVars>>)
       /\ BufferNext
    \/ /\ Only("options", <<vars, listVars, busVars, bufferVars, resolverVars, pingVars>>)
       /\ OptNext
    \/ /\ Only("resolver", <<vars, listVars, busVars, bufferVars, optVars, pingVars>>)
       /\ ResolverNext
    \/ /\ Only("ping", <<vars, listVars, busVars, bufferVars, optVars, resolverVars>>)
       /\ PingNext

\* The fairness of the thread that pings.
MCSpec ==
    /\ MCInit
    /\ [][MCNext]_<<part, vars, listVars, busVars, bufferVars, optVars, resolverVars, pingVars>>
    /\ WF_pingVars(part = "ping" /\ PingStep)
=============================================================================
