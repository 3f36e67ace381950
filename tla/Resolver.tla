------------------------------ MODULE Resolver ------------------------------
(***************************************************************************)
(* The resolver calls of RyanW5500Socket.c by several threads:             *)
(* wiz_gethostbyname with its static result, wiz_gethostbyname_r with the  *)
(* caller's buffer, wiz_getaddrinfo with a result on the heap, and         *)
(* wiz_freeaddrinfo.  A lookup, RyanW5500_gethostbyname, is one step: it   *)
(* holds dnsMutexHandle and returns the address of the host or fails (see  *)
(* DnsClient).  A step is what a thread does up to the next access of      *)
(* memory that is not its own.                                             *)
(***************************************************************************)
EXTENDS Naturals, FiniteSets

CONSTANTS Callers,   \* threads
          Hosts,     \* names short enough; a name stands for its address too
          LongHosts, \* names longer than DNS_MAX_NAME_LENGTH
          Blocks     \* what malloc can return

VARIABLES static,    \* s_hostname and s_hostent_addr
          blocks,      \* the blocks allocated, and their content
          who,       \* for each thread where it is and its local variables
          result     \* for each thread the result it was last given and still uses

resolverVars == <<static, blocks, who, result>>

Names == Hosts \cup LongHosts
Loop     == "127.0.0.1"
NoName   == "NULL"
NoBlock  == "none"
NoResult == [kind |-> "none"]

Entry(name, addr) == [name |-> name, addr |-> addr]
Empty == Entry(NoName, NoName)

-----------------------------------------------------------------------------
Local(c, pc) == who' = [who EXCEPT ![c].pc = pc]
Return(c, r) == /\ who' = [who EXCEPT ![c] = [pc |-> "idle", name |-> NoName, addr |-> NoName]]
                /\ result' = [result EXCEPT ![c] = r]
Error(c)     == Return(c, NoResult) /\ UNCHANGED <<static, blocks>>

\* A thread calls with a name when it no longer uses its last result.
Calls(c, pc, name) ==
    /\ who[c].pc = "idle" /\ result[c] = NoResult
    /\ who' = [who EXCEPT ![c] = [pc |-> pc, name |-> name, addr |-> NoName]]
    /\ UNCHANGED <<static, blocks, result>>

\* RyanW5500_gethostbyname
Lookup(c, pc, then) ==
    /\ who[c].pc = pc
    /\ \/ who' = [who EXCEPT ![c].pc = then, ![c].addr = who[c].name] /\ UNCHANGED <<static, blocks, result>>
       \/ Error(c)

-----------------------------------------------------------------------------
(* wiz_gethostbyname                                                       *)

GetHostByName(c) ==
    \/ \E name \in Hosts : Calls(c, "lookup", name)
    \/ Lookup(c, "lookup", "addr")
    \/ /\ who[c].pc = "addr"
       /\ static' = [static EXCEPT !.addr = who[c].addr]
       /\ Local(c, "name")
       /\ UNCHANGED <<blocks, result>>
    \/ /\ who[c].pc = "name"
       /\ static' = [static EXCEPT !.name = who[c].name]
       /\ Return(c, [kind |-> "static", name |-> who[c].name])
       /\ UNCHANGED blocks

-----------------------------------------------------------------------------
(* wiz_gethostbyname_r                                                     *)

\* Mutant of OwnBuffer: the result is that of wiz_gethostbyname.
OwnBufferStatic(c) == [kind |-> "own", name |-> who[c].name, has |-> static]

\* The result in the caller's buffer.
OwnBuffer(c) == [kind |-> "own", name |-> who[c].name, has |-> Entry(who[c].name, who[c].addr)]

\* The buffer is large enough for the name, or the call fails with ERANGE at once.
GetHostByNameR(c) ==
    \/ \E name \in Names : Calls(c, "check_r", name)
    \/ who[c].pc = "check_r" /\ Error(c)
    \/ who[c].pc = "check_r" /\ Local(c, "lookup_r") /\ UNCHANGED <<static, blocks, result>>
    \/ Lookup(c, "lookup_r", "fill_r")
    \/ /\ who[c].pc = "fill_r"
       /\ Return(c, OwnBuffer(c))
       /\ UNCHANGED <<static, blocks>>

-----------------------------------------------------------------------------
(* wiz_getaddrinfo and wiz_freeaddrinfo                                    *)

\* The family, the service and the flags are checked first.  Without a name the
\* address is 127.0.0.1, with AI_NUMERICHOST it is in the name.
GetAddrInfo(c) ==
    \/ \E name \in Names \cup {NoName} : Calls(c, "check_ai", name)
    \/ who[c].pc = "check_ai" /\ Error(c)
    \/ /\ who[c].pc = "check_ai"
       /\ \/ who[c].name = NoName /\ who' = [who EXCEPT ![c].pc = "size", ![c].addr = Loop]
          \/ who[c].name # NoName /\ who' = [who EXCEPT ![c].pc = "size", ![c].addr = who[c].name]
          \/ who[c].name # NoName /\ Local(c, "lookup_ai")
       /\ UNCHANGED <<static, blocks, result>>
    \/ Lookup(c, "lookup_ai", "size")

\* The length of the name is checked once it has been looked up.
CheckLength(c) ==
    /\ who[c].pc = "size"
    /\ IF who[c].name \in LongHosts THEN Error(c)
       ELSE Local(c, "malloc") /\ UNCHANGED <<static, blocks, result>>

\* malloc, and the result filled in.
Allocate(c) ==
    /\ who[c].pc = "malloc"
    /\ \/ Error(c)
       \/ \E b \in Blocks \ DOMAIN blocks :
            /\ blocks' = [d \in DOMAIN blocks \cup {b} |->
                          IF d = b THEN Entry(who[c].name, who[c].addr) ELSE blocks[d]]
            /\ Return(c, [kind |-> "heap", name |-> who[c].name, block |-> b])
            /\ UNCHANGED static

\* wiz_freeaddrinfo: the list of one entry is freed.
FreeAddrInfo(c) ==
    /\ who[c].pc = "idle" /\ result[c].kind = "heap"
    /\ blocks' = [d \in DOMAIN blocks \ {result[c].block} |-> blocks[d]]
    /\ result' = [result EXCEPT ![c] = NoResult]
    /\ UNCHANGED <<static, who>>

\* The thread has done with a result that needs no call.
Forget(c) ==
    /\ who[c].pc = "idle" /\ result[c].kind \in {"static", "own"}
    /\ result' = [result EXCEPT ![c] = NoResult]
    /\ UNCHANGED <<static, blocks, who>>

-----------------------------------------------------------------------------
ResolverInit ==
    /\ static = Empty
    /\ blocks = [b \in {} |-> Empty]
    /\ who = [c \in Callers |-> [pc |-> "idle", name |-> NoName, addr |-> NoName]]
    /\ result = [c \in Callers |-> NoResult]

ResolverNext == \E c \in Callers : \/ GetHostByName(c) \/ GetHostByNameR(c)
                                   \/ GetAddrInfo(c) \/ CheckLength(c) \/ Allocate(c)
                                   \/ FreeAddrInfo(c) \/ Forget(c)

ResolverSpec == ResolverInit /\ [][ResolverNext]_resolverVars

-----------------------------------------------------------------------------
(* Properties                                                              *)

\* What a thread finds in a result it still uses.
Content(r) == IF r.kind = "own" THEN r.has ELSE IF r.kind = "heap" THEN blocks[r.block] ELSE static

AddressOf(name) == IF name = NoName THEN Loop ELSE name

\* Every block on the heap is the result of exactly one thread: no failing call
\* keeps one, and none is freed while it is used.
BlocksHeld ==
    /\ DOMAIN blocks = {result[c].block : c \in {d \in Callers : result[d].kind = "heap"}}
    /\ \A c, d \in Callers :
         /\ c # d /\ result[c].kind = "heap" /\ result[d].kind = "heap"
         => result[c].block # result[d].block

\* While a thread uses a result of wiz_gethostbyname_r or wiz_getaddrinfo it finds
\* there the name it asked for and that host's address, whatever the other
\* threads look up and free, and the memory it uses is its own: these two calls
\* are the thread-safe ones.
ResultsOwn ==
    /\ \A c \in Callers :
         LET r == result[c] IN
         /\ r.kind = "own" => Content(r) = Entry(r.name, r.name)
         /\ r.kind = "heap" => Content(r) = Entry(r.name, AddressOf(r.name))
    /\ BlocksHeld
=============================================================================
