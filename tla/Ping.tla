-------------------------------- MODULE Ping --------------------------------
(***************************************************************************)
(* RyanW5500Ping (RyanW5500Ping.c): a raw socket is opened, an echo        *)
(* request sent, one ICMP message of any sender awaited, and the socket    *)
(* closed.  The socket calls are one step each; wiz_checksum works on      *)
(* words of Half * Half values, 65536 in the code.                         *)
(***************************************************************************)
EXTENDS Integers, Sequences

CONSTANTS Half,     \* values of a byte
          PingLens, \* words of a message after its type and its checksum
          PingWords, \* those of a request, and the most of a message that are
                    \* received: 18, of WIZ_PING_HEAD_LEN + WIZ_PING_DATA_LEN bytes
          Times     \* timeouts, in ticks

\* The request has fewer words than a word has values.
ASSUME PingAssumption == /\ Half \in Nat \ {0, 1} /\ Times \subseteq Nat
                         /\ PingLens \subseteq Nat \ {0}
                         /\ PingWords \in 1 .. Half * Half - 2

Words == 0 .. Half * Half - 1

VARIABLES ping,     \* the call: program counter, timeout and result
          raw,      \* the raw socket is open
          request,  \* the request sent, or none
          inbox     \* the ICMP message the socket holds, or none

pingVars == <<ping, raw, request, inbox>>

\* A message: its type, its checksum, the words after it and a last odd byte or 0.
Messages == UNION {[type : {"reply", "request", "other"}, sum : Words,
                    body : [1 .. n -> Words], odd : 0 .. Half - 1] : n \in PingLens}
NoMessage == <<>>

-----------------------------------------------------------------------------
(* wiz_checksum                                                            *)

\* lsum: the first word is the type and code.
TypeWord(m) == IF m.type = "request" THEN 8 * Half % (Half * Half) ELSE IF m.type = "reply" THEN 0 ELSE Half
Added(body) == LET upTo[n \in 0 .. Len(body)] == IF n = 0 THEN 0 ELSE upTo[n - 1] + body[n]
               IN  upTo[Len(body)]
Sum(m) == TypeWord(m) + m.sum + Added(m.body) + m.odd * Half

\* Mutant of Folded: the carry is lost.
FoldedNot(lsum) == lsum % (Half * Half)

\* sum + (lsum >> 16) in 16 bits.
Folded(lsum) == ((lsum % (Half * Half)) + (lsum \div (Half * Half))) % (Half * Half)

wiz_checksum(m) == Half * Half - 1 - Folded(Sum(m))

\* The check of a reply: ~wiz_checksum is 0xffff.
Accepts(m) == wiz_checksum(m) = 0

-----------------------------------------------------------------------------
PingTo(pc) == ping' = [ping EXCEPT !.pc = pc]
Ends(r)    == ping' = [ping EXCEPT !.pc = "close", !.result = r]

\* The host's name is resolved, or the call fails.
Resolve ==
    /\ ping.pc = "idle"
    /\ \E t \in Times : ping' = [pc |-> "socket", times |-> t, result |-> -1]
    /\ request' = NoMessage
    /\ UNCHANGED <<raw, inbox>>

\* wiz_socket, the protocol and the timeouts.
OpenRaw ==
    /\ ping.pc = "socket"
    /\ \/ raw' = TRUE /\ PingTo("connect")
       \/ PingTo("idle") /\ UNCHANGED raw
    /\ UNCHANGED <<request, inbox>>

ConnectRaw ==
    /\ ping.pc = "connect"
    /\ \/ PingTo("request") /\ UNCHANGED <<raw, inbox>>
       \/ PingTo("idle") /\ raw' = FALSE /\ inbox' = NoMessage
    /\ UNCHANGED request

\* wiz_ping_request, with a random identification and sequence number.
Request ==
    /\ ping.pc = "request"
    /\ \/ \E i \in Words :
            LET m == [type |-> "request", sum |-> 0, body |-> [k \in 1 .. PingWords |-> i], odd |-> 0]
            IN  request' = [m EXCEPT !.sum = wiz_checksum(m)]
          /\ PingTo("reply")
       \/ Ends(-1) /\ UNCHANGED request
    /\ UNCHANGED <<raw, inbox>>

\* What wiz_recvfrom() leaves in recv_buf: of a longer message its first bytes.
Received(m) == IF Len(m.body) >= PingWords
               THEN [m EXCEPT !.body = SubSeq(m.body, 1, PingWords), !.odd = 0]
               ELSE m

\* The length that is returned of a message, unless the check fails.
Result(m, checked) == IF checked THEN Len(m.body) ELSE -2

\* Mutant of Reply: messages of other types are passed over.
ReplyAwaited ==
    /\ ping.pc = "reply" /\ inbox # NoMessage
    /\ IF inbox.type = "reply" THEN Ends(Result(inbox, Accepts(inbox))) /\ UNCHANGED inbox
                               ELSE inbox' = NoMessage /\ UNCHANGED ping
    /\ UNCHANGED <<raw, request>>

\* wiz_ping_reply: the first message, whoever sent it and whatever it answers.
Reply ==
    /\ ping.pc = "reply" /\ inbox # NoMessage
    /\ LET m == Received(inbox)
       IN  Ends(CASE m.type = "reply"   -> Result(m, Accepts(m))
                  [] m.type = "request" -> Result(m, m.sum = 0)
                  [] OTHER -> -1)
    /\ UNCHANGED <<raw, request, inbox>>

\* recvfrom() times out, unless the timeout is zero.
ReplyTimeout ==
    /\ ping.pc = "reply" /\ inbox = NoMessage /\ ping.times # 0
    /\ Ends(-1)
    /\ UNCHANGED <<raw, request, inbox>>

CloseRaw ==
    /\ ping.pc = "close"
    /\ raw' = FALSE /\ inbox' = NoMessage
    /\ PingTo("idle")
    /\ UNCHANGED request

\* An ICMP message reaches the open socket.
IcmpArrives ==
    /\ raw /\ inbox = NoMessage
    /\ inbox' \in Messages
    /\ UNCHANGED <<ping, raw, request>>

-----------------------------------------------------------------------------
PingInit == /\ ping = [pc |-> "idle", times |-> 0, result |-> -1]
            /\ raw = FALSE
            /\ request = NoMessage /\ inbox = NoMessage

PingStep == \/ Resolve \/ OpenRaw \/ ConnectRaw \/ Request
            \/ Reply \/ ReplyTimeout \/ CloseRaw

PingNext == PingStep \/ IcmpArrives

PingSpec == PingInit /\ [][PingNext]_pingVars /\ WF_pingVars(PingStep)

-----------------------------------------------------------------------------
(* Properties                                                              *)

\* The sum a correct receiver computes: the one's complement sum of all words is
\* all ones exactly when the words add up to a multiple, not 0, of 65535.
Correct(m) == Sum(m) > 0 /\ Sum(m) % (Half * Half - 1) = 0

\* wiz_checksum adds the carry once.  A reply is accepted exactly if the checksum
\* over what is received of it is right, and the request has the right checksum
\* unless adding the carry carries again.
ChecksumExact ==
    /\ inbox # NoMessage => (Accepts(Received(inbox)) <=> Correct(Received(inbox)))
    /\ request # NoMessage =>
         LET lsum == Sum([request EXCEPT !.sum = 0])
         IN  Correct(request) \/ (lsum % (Half * Half)) + (lsum \div (Half * Half)) >= Half * Half

\* With a timeout other than zero every call of RyanW5500Ping ends, whatever
\* arrives, and however it ends it does not keep its raw socket.
PingEnds == /\ [](ping.pc = "idle" => ~raw)
            /\ ping.pc # "idle" ~> ping.pc = "idle"
=============================================================================
