--------------------------- MODULE SocketOptions ---------------------------
(***************************************************************************)
(* wiz_setsockopt and wiz_getsockopt over the fields of a descriptor and   *)
(* the registers of its socket in the chip, while descriptors are closed   *)
(* and given out again.  A call is one step.  The registers of a socket    *)
(* outlive the descriptor: wizchip_socket does not write them.             *)
(***************************************************************************)
EXTENDS Integers

CONSTANTS Fds,
          MsPerS,    \* 1000
          UsPerMs,   \* 1000
          Word,      \* 2^32, the timeouts are uint32_t
          Octet,     \* 256
          Ints,      \* option values
          Timevals,  \* records of sec and usec
          OptEnv     \* "reopenFails": wizchip_socket fails

ASSUME OptionsAssumption ==
    /\ MsPerS \in Nat \ {0} /\ UsPerMs \in Nat \ {0} /\ Word \in Nat \ {0} /\ Octet \in Nat \ {0}
    /\ Ints \subseteq Nat /\ Timevals \subseteq [sec : Nat, usec : Nat]

KeepAlive == (2 * 60 * 60) \div 5

VARIABLES desc,    \* the descriptors
          chipreg, \* the option registers and the mode of the chip's sockets
          reply,   \* what the last call returned
          asked    \* ghost: what a descriptor's owner has set, or Unset

optVars == <<desc, chipreg, reply, asked>>

Unset == [is |-> FALSE]
Value(x) == [is |-> TRUE, v |-> x]

Zero == [sec |-> 0, usec |-> 0]

FreeDesc  == [type |-> "none", recv |-> 0, send |-> 0, broadcast |-> FALSE, listens |-> FALSE]
NoneAsked == [o \in {"SO_RCVTIMEO", "SO_SNDTIMEO", "IP_TTL", "IP_TOS", "group"} |-> Unset]

Failed  == [ret |-> -1]
Done    == [ret |-> 0]
Live(s) == desc[s].type # "none"

-----------------------------------------------------------------------------
(* Creation, binding and the end of a descriptor                           *)

\* RyanW5500SocketCreate, which leaves soOptionsFlag.
Created(s, type) == [desc[s] EXCEPT !.type = type, !.recv = 0, !.send = 0, !.listens = FALSE]

Socket(s) ==
    /\ ~Live(s)
    /\ \E type \in {"TCP", "UDP"} :
         /\ desc' = [desc EXCEPT ![s] = Created(s, type)]
         /\ chipreg' = [chipreg EXCEPT ![s].mode = type, ![s].multi = FALSE]
    /\ asked' = [asked EXCEPT ![s] = [NoneAsked EXCEPT !["SO_RCVTIMEO"] = Value(Zero),
                                                       !["SO_SNDTIMEO"] = Value(Zero)]]
    /\ reply' = Done

\* wiz_listen
Serve(s) == /\ desc[s].type = "TCP"
            /\ desc' = [desc EXCEPT ![s].listens = TRUE]
            /\ reply' = Done
            /\ UNCHANGED <<chipreg, asked>>

\* wiz_bind to another port opens the socket anew, without the group.
BindAnew(s) == /\ Live(s)
               /\ chipreg' = [chipreg EXCEPT ![s].mode = desc[s].type, ![s].multi = FALSE]
               /\ asked' = [asked EXCEPT ![s]["group"] = Unset]
               /\ reply' = Done
               /\ UNCHANGED desc

\* wiz_closesocket: wizchip_close, and memset of the entry.
CloseDesc(s) == /\ Live(s)
                /\ desc' = [desc EXCEPT ![s] = FreeDesc]
                /\ chipreg' = [chipreg EXCEPT ![s].mode = "closed"]
                /\ asked' = [asked EXCEPT ![s] = NoneAsked]
                /\ reply' = Done

-----------------------------------------------------------------------------
(* wiz_setsockopt                                                          *)

InMs(t) == (t.sec * MsPerS + (t.usec \div UsPerMs)) % Word

Asks(s, o, v) == asked' = [asked EXCEPT ![s][o] = Value(v)]

\* SOL_SOCKET; fits: optlen is the size of the option's type.
SetSolSocket(s, o, fits) ==
    \/ /\ o = "SO_BROADCAST" /\ desc[s].type # "TCP" /\ fits
       /\ \E v \in Ints : desc' = [desc EXCEPT ![s].broadcast = (v = 1)]
       /\ reply' = Done /\ UNCHANGED <<chipreg, asked>>
    \/ /\ o = "SO_KEEPALIVE"
       /\ \E v \in Ints :
            IF desc[s].type = "TCP" /\ v = 1
            THEN IF chipreg[s].mode = "TCP"
                 THEN chipreg' = [chipreg EXCEPT ![s].keep = KeepAlive % Octet] /\ reply' = Done
                 ELSE reply' = Failed /\ UNCHANGED chipreg
            ELSE reply' = Done /\ UNCHANGED chipreg
       /\ UNCHANGED <<desc, asked>>
    \/ /\ o \in {"SO_RCVTIMEO", "SO_SNDTIMEO"} /\ fits
       /\ \E t \in Timevals :
            /\ desc' = IF o = "SO_RCVTIMEO" THEN [desc EXCEPT ![s].recv = InMs(t)]
                                            ELSE [desc EXCEPT ![s].send = InMs(t)]
            /\ Asks(s, o, t)
       /\ reply' = Done /\ UNCHANGED chipreg
    \/ /\ \/ o \in {"SO_BROADCAST", "SO_RCVTIMEO", "SO_SNDTIMEO"} /\ ~fits
          \/ o = "SO_BROADCAST" /\ desc[s].type = "TCP"
          \/ o = "not supported"
       /\ reply' = Failed /\ UNCHANGED <<desc, chipreg, asked>>

\* wizchip_setsockopt(SO_TTL) and (SO_TOS): the first byte of the caller's value.
SetRegister(s, o, v) ==
    chipreg' = IF o = "IP_TTL" THEN [chipreg EXCEPT ![s].ttl = v % Octet]
                               ELSE [chipreg EXCEPT ![s].tos = v % Octet]

\* Mutant of Joined: the socket is opened without Sn_MR_MULTI.
JoinedNot(r, type) == [r EXCEPT !.mode = type, !.multi = FALSE]

\* The socket opened anew with Sn_MR_MULTI.
Joined(r, type) == [r EXCEPT !.mode = type, !.multi = TRUE]

\* IPPROTO_IP.  To join, the socket is closed first.
SetIp(s, o, fits) ==
    \/ /\ o \in {"IP_TTL", "IP_TOS"}
       /\ \E v \in Ints : SetRegister(s, o, v) /\ Asks(s, o, v)
       /\ reply' = Done /\ UNCHANGED desc
    \/ /\ o = "IP_ADD_MEMBERSHIP" /\ desc[s].type # "TCP" /\ fits
       /\ \/ /\ chipreg' = [chipreg EXCEPT ![s] = Joined(@, desc[s].type)]
             /\ Asks(s, "group", TRUE) /\ reply' = Done
          \/ /\ "reopenFails" \in OptEnv
             /\ chipreg' = [chipreg EXCEPT ![s].mode = "closed"]
             /\ asked' = [asked EXCEPT ![s]["group"] = Unset]
             /\ reply' = Failed
       /\ UNCHANGED desc
    \/ /\ o = "IP_DROP_MEMBERSHIP"
       /\ \/ /\ chipreg' = [chipreg EXCEPT ![s].mode = desc[s].type, ![s].multi = FALSE]
             /\ reply' = Done
          \/ /\ "reopenFails" \in OptEnv
             /\ chipreg' = [chipreg EXCEPT ![s].mode = "closed"]
             /\ reply' = Failed
       /\ asked' = [asked EXCEPT ![s]["group"] = Unset]
       /\ UNCHANGED desc
    \/ /\ \/ o = "IP_ADD_MEMBERSHIP" /\ (~fits \/ desc[s].type = "TCP")
          \/ o = "not supported"
       /\ reply' = Failed /\ UNCHANGED <<desc, chipreg, asked>>

\* IPPROTO_TCP has no option that is supported; nor has any other level.
Unsupported == reply' = Failed /\ UNCHANGED <<desc, chipreg, asked>>

wiz_setsockopt(s) ==
    \/ ~Live(s) /\ Unsupported
    \/ /\ Live(s)
       /\ \/ \E o \in {"SO_BROADCAST", "SO_KEEPALIVE", "SO_RCVTIMEO", "SO_SNDTIMEO", "not supported"},
                fits \in BOOLEAN : SetSolSocket(s, o, fits)
          \/ \E o \in {"IP_TTL", "IP_TOS", "IP_ADD_MEMBERSHIP", "IP_DROP_MEMBERSHIP", "not supported"},
                fits \in BOOLEAN : SetIp(s, o, fits)
          \/ Unsupported

-----------------------------------------------------------------------------
(* wiz_getsockopt                                                          *)

\* The call returns an int, or a struct timeval.
Reports(s, o, n, t) == /\ reply' = [ret |-> 0, fd |-> s, opt |-> o, int |-> n, time |-> t]
                       /\ UNCHANGED <<desc, chipreg, asked>>

Got(s, o, n)     == Reports(s, o, n, Zero)
GotTime(s, o, t) == Reports(s, o, 0, t)
Truth(b)         == IF b THEN 1 ELSE 0

InTimeval(ms) == [sec |-> ms \div MsPerS, usec |-> (ms % MsPerS) * UsPerMs]

\* SOL_SOCKET; SO_SNDBUF, SO_RCVBUF and SO_ERROR report what other calls change.
GetSolSocket(s) ==
    \/ Got(s, "SO_BROADCAST", Truth(desc[s].type # "TCP"))
    \/ GotTime(s, "SO_RCVTIMEO", InTimeval(desc[s].recv))
    \/ GotTime(s, "SO_SNDTIMEO", InTimeval(desc[s].send))
    \/ Got(s, "SO_ACCEPTCONN", Truth(desc[s].listens))
    \/ Got(s, "SO_TYPE", IF desc[s].type = "TCP" THEN 1 ELSE 2)

\* wizchip_getsockopt(SO_TTL) and (SO_TOS), of one byte.
GetRegister(s, o) == IF o = "IP_TTL" THEN chipreg[s].ttl ELSE chipreg[s].tos

\* The first byte of an int n becomes b; the others stay.
WithByte(n, b) == (n \div Octet) * Octet + b

\* IPPROTO_IP: one byte of the caller's int is written, though *optlen says that
\* all of them are.  The caller's int may hold anything.
GetIp(s) == \E o \in {"IP_TTL", "IP_TOS"}, n \in Ints \cup {0} :
              Got(s, o, WithByte(n, GetRegister(s, o)))

\* A short optlen, an option that is not supported and every option of TCP fail.
wiz_getsockopt(s) == \/ Live(s) /\ (GetSolSocket(s) \/ GetIp(s))
                     \/ Unsupported

-----------------------------------------------------------------------------
OptInit ==
    /\ desc = [s \in Fds |-> FreeDesc]
    /\ chipreg = [s \in Fds |-> [mode |-> "closed", multi |-> FALSE, ttl |-> 128 % Octet, tos |-> 0, keep |-> 0]]
    /\ reply = Done
    /\ asked = [s \in Fds |-> NoneAsked]

OptNext == \E s \in Fds : \/ Socket(s) \/ Serve(s) \/ BindAnew(s) \/ CloseDesc(s)
                          \/ wiz_setsockopt(s) \/ wiz_getsockopt(s)

OptSpec == OptInit /\ [][OptNext]_optVars

-----------------------------------------------------------------------------
(* Properties                                                              *)

\* A timeout of less than 2^32 ms without what is less than a millisecond.
InWholeMs(t) == [sec |-> t.sec + (t.usec \div (MsPerS * UsPerMs)),
                 usec |-> ((t.usec % (MsPerS * UsPerMs)) \div UsPerMs) * UsPerMs]
TooLong(t)   == t.sec * MsPerS + (t.usec \div UsPerMs) >= Word

\* What the owner of the descriptor has set a register option to.
SetTo(o) == "opt" \in DOMAIN reply /\ reply.opt = o /\ asked[reply.fd][o].is

\* What wiz_getsockopt reports of a timeout, and the first byte of the int it
\* reports of a TTL or TOS, is what the owner of the descriptor has set on it, or
\* no timeout when it has set none: never what an earlier owner of the same
\* descriptor set.  Of the int's other bytes nothing is said.
OptionReadsBack ==
    /\ "opt" \in DOMAIN reply =>
         LET a == asked[reply.fd] IN
         reply.opt \in {"SO_RCVTIMEO", "SO_SNDTIMEO"} /\ ~TooLong(a[reply.opt].v) =>
           reply.time = InWholeMs(a[reply.opt].v)
    /\ \A o \in {"IP_TTL", "IP_TOS"} :
         SetTo(o) => reply.int % Octet = asked[reply.fd][o].v % Octet

\* A socket that has joined a group, and has not left it or been bound since, is
\* open in the chip as a multicast socket.
StaysInGroup == \A s \in Fds : asked[s]["group"].is => chipreg[s].mode = desc[s].type /\ chipreg[s].multi

\* What the owner of a descriptor has set stays so, whatever is set, bound,
\* listened on and closed before and after.
OptionsKept == OptionReadsBack /\ StaysInGroup
=============================================================================
