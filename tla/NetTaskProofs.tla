---------------------------- MODULE NetTaskProofs ----------------------------
(***************************************************************************)
(* Proofs about the W5500 task and the setters of the network device: no   *)
(* interrupt is missed, and what was set is taken over, in the chip and in *)
(* the device as shown, however the loads and stores of netDevFlag by the  *)
(* task and by the thread that calls the setters interleave.               *)
(***************************************************************************)
EXTENDS NetTask, TLAPS

Bits == {"info", "enable", "disable"}

\* The calls of a setter, from the first step to the last.
Writing == {<<"write", "or", "link">>, <<"or", "link">>}
Serving == {<<"or", "write", "link">>, <<"write", "link">>}
Turning == {<<"or", "and", "status">>, <<"and", "status">>, <<"status">>}

\* The types; the thread is at a step of the call it has made; and it holds a load
\* of the flags only between the load and the store of one step.
UserOK ==
    /\ user \in [steps : Seq({"or", "and", "write", "link", "status"}), for : Parts \cup Mode,
                 value : Known, loaded : BOOLEAN, load : SUBSET Bits]
    /\ \/ user.steps \in {<<>>, <<"link">>}
       \/ user.steps \in Writing /\ user.for \in {"gw", "ip"}
       \/ user.steps \in Serving /\ user.for = "dns"
       \/ user.steps \in Turning /\ user.for \in Mode
    /\ user.loaded => Doing("or") \/ Doing("and")

\* The pin has fallen after the flag of the interrupt was last cleared, unless
\* the task is reading SIR until it is empty.
PinSeen == task.pc \notin {"drain", "handle"} /\ masks /\ sir # {} => irq

Basics == TypeOK /\ UserOK /\ PinSeen

-----------------------------------------------------------------------------
(* The addresses                                                           *)

\* Between the load and the store of a flag by the task, and of one by the thread,
\* the flag "info" is not lost unless the task has taken it.
InfoKept ==
    /\ "info" \in task.load => "info" \in flags
    /\ user.loaded /\ "info" \in flags => "info" \in user.load

\* The pass on its way will write the addresses.
Underway == task.pc \in {"info", "cleared", "enable", "enabled", "disable", "disabled",
                         "next", "dhcp", "gw"}

Pending == "info" \in flags \/ (user.steps = <<"or", "link">> /\ user.for \in {"gw", "ip"})

\* An address is in the chip, or the pass on its way or a pending flag will
\* bring it there.
Written(p) == \/ regs[p] = conf[p]
              \/ Underway \/ Pending \/ ~booted
              \/ p = "ip" /\ At("ip")

\* ... and shown.
IsShown(p) == shown[p] = regs[p] \/ task.pc \in {"ip", "dns", "show"}

\* Before the first pass no link has been found that would let the task skip it.
FirstPass == ~booted => /\ ~phy
                        /\ task.pc \in {"reset", "flags", "info", "cleared", "enable", "enabled",
                                        "disable", "disabled", "lease", "link", "next"}

AddressInv == /\ Basics /\ InfoKept /\ FirstPass
              /\ \A p \in {"gw", "ip"} : Written(p) /\ IsShown(p)

-----------------------------------------------------------------------------
(* The DHCP mode                                                           *)

\* The mode asked for last: by the call at work once its first flag is stored, or
\* by the last one that has ended.
Wanted == IF user.steps \in {<<"and", "status">>, <<"status">>} THEN user.for = "on" ELSE shownDhcp
BitOf(want) == IF want THEN "enable" ELSE "disable"

\* The task is between the load and the store of a flag.
Holding == task.pc \in {"cleared", "enabled", "disabled"}

\* What the task has loaded it stores without losing the thread's flag, and what
\* the thread has loaded it stores without losing the task's.
LoadsKept ==
    /\ task.load \subseteq flags
    /\ user.loaded => flags \subseteq user.load
    /\ ~user.loaded => user.load = {}
    /\ task.pc = "cleared" => "info" \in task.load
    /\ task.pc = "enabled" => "enable" \in task.load
    /\ task.pc = "disabled" => "disable" \in task.load
    /\ ~Holding => task.load = {}

\* The flag of the mode wanted is stored and not about to be overwritten, or the
\* task follows that mode; the flag of the other mode is nowhere.
ModeKept ==
    IF user.steps = <<"or", "and", "status">>
    THEN flags = {} /\ user.load = {}
    ELSE /\ BitOf(~Wanted) \notin flags /\ BitOf(~Wanted) \notin user.load
         /\ \/ dhcp <=> Wanted
            \/ BitOf(Wanted) \in flags /\ (Holding => BitOf(Wanted) \in task.load)

ModeInv == Basics /\ (~hurried => LoadsKept /\ ModeKept)

-----------------------------------------------------------------------------
(* The steps of a call, as sequences                                       *)

Step == {"or", "and", "write", "link", "status"}

\* The first step of a call and those left after it.
LEMMA StepsLeft ==
    /\ \A a, b, c \in Step :
         /\ Head(<<a, b, c>>) = a /\ Tail(<<a, b, c>>) = <<b, c>> /\ Len(<<a, b, c>>) = 3
         /\ Head(<<a, b>>) = a /\ Tail(<<a, b>>) = <<b>> /\ Len(<<a, b>>) = 2
         /\ Head(<<a>>) = a /\ Len(<<a>>) = 1
         /\ <<a, b, c>> \in Seq(Step) /\ <<a, b>> \in Seq(Step) /\ <<a>> \in Seq(Step)
         /\ <<a, b, c>> # <<>> /\ <<a, b>> # <<>> /\ <<a>> # <<>>
    /\ Len(<<>>) = 0 /\ <<>> \in Seq(Step)
  OBVIOUS

\* Two lists of steps are the same only if they are as long and agree.
LEMMA StepsDiffer ==
    /\ \A a, b, c, d, e, f \in Step :
         /\ <<a, b, c>> = <<d, e, f>> => a = d /\ b = e /\ c = f
         /\ <<a, b>> = <<d, e>> => a = d /\ b = e
         /\ <<a>> = <<d>> => a = d
         /\ <<a, b, c>> # <<d, e>> /\ <<a, b, c>> # <<d>> /\ <<a, b>> # <<d>>
  OBVIOUS

USE DEF Writing, Serving, Turning

Moves(from, to) == /\ user.steps = from
                   /\ user' = [user EXCEPT !.steps = to, !.loaded = FALSE, !.load = {}]

LEMMA MovesOn ==
    ASSUME UserOK, Done, NEW a \in Step, NEW b \in Step, NEW c \in Step
    PROVE  /\ user.steps = <<a, b, c>> => Moves(<<a, b, c>>, <<b, c>>)
           /\ user.steps = <<a, b>> => Moves(<<a, b>>, <<b>>)
           /\ user.steps = <<a>> => user' = Nobody
<1>1. CASE user.steps = <<a, b, c>>
  <2>1. Len(user.steps) # 1 /\ Tail(user.steps) = <<b, c>> BY <1>1, StepsLeft
  <2>2. user' = [user EXCEPT !.steps = Tail(@), !.loaded = FALSE, !.load = {}] BY <2>1 DEF Done
  <2>3. Moves(<<a, b, c>>, <<b, c>>) BY <1>1, <2>1, <2>2 DEF Moves, UserOK
  <2> QED BY <1>1, <2>3, StepsDiffer
<1>2. CASE user.steps = <<a, b>>
  <2>1. Len(user.steps) # 1 /\ Tail(user.steps) = <<b>> BY <1>2, StepsLeft
  <2>2. user' = [user EXCEPT !.steps = Tail(@), !.loaded = FALSE, !.load = {}] BY <2>1 DEF Done
  <2>3. Moves(<<a, b>>, <<b>>) BY <1>2, <2>1, <2>2 DEF Moves, UserOK
  <2> QED BY <1>2, <2>3, StepsDiffer
<1>3. CASE user.steps = <<a>>
  BY <1>3, StepsLeft, StepsDiffer DEF Done
<1> QED BY <1>1, <1>2, <1>3

\* Where a step of the thread stands in its call.
LEMMA DoingIs ==
    ASSUME UserOK
    PROVE  /\ Doing("or") => \/ user.steps = <<"or", "link">> /\ user.for \in {"gw", "ip"}
                             \/ user.steps = <<"or", "write", "link">> /\ user.for = "dns"
                             \/ user.steps = <<"or", "and", "status">> /\ user.for \in Mode
           /\ Doing("and") => user.steps = <<"and", "status">> /\ user.for \in Mode
           /\ Doing("write") => \/ user.steps = <<"write", "or", "link">> /\ user.for \in {"gw", "ip"}
                                \/ user.steps = <<"write", "link">> /\ user.for = "dns"
           /\ Doing("link") => user.steps = <<"link">>
           /\ Doing("status") => user.steps = <<"status">> /\ user.for \in Mode
<1>1. /\ "or" \in Step /\ "and" \in Step /\ "write" \in Step /\ "link" \in Step /\ "status" \in Step
  BY DEF Step
<1>2. \/ user.steps = <<>> \/ user.steps = <<"link">>
      \/ user.for \in {"gw", "ip"} /\ user.steps = <<"write", "or", "link">>
      \/ user.for \in {"gw", "ip"} /\ user.steps = <<"or", "link">>
      \/ user.for = "dns" /\ user.steps = <<"or", "write", "link">>
      \/ user.for = "dns" /\ user.steps = <<"write", "link">>
      \/ user.for \in Mode /\ user.steps = <<"or", "and", "status">>
      \/ user.for \in Mode /\ user.steps = <<"and", "status">>
      \/ user.for \in Mode /\ user.steps = <<"status">>
  BY DEF UserOK
<1> QED BY <1>1, <1>2, StepsLeft DEF Doing

\* What the steps of the thread do to it and to the flags.
LEMMA UserStoreIs ==
    ASSUME UserOK, UserStore
    PROVE  \/ /\ Moves(<<"or", "link">>, <<"link">>) /\ user.for \in {"gw", "ip"}
              /\ flags' = user.load \cup {"info"}
           \/ /\ Moves(<<"or", "write", "link">>, <<"write", "link">>) /\ user.for = "dns"
              /\ flags' = user.load \cup {"info"}
           \/ /\ Moves(<<"or", "and", "status">>, <<"and", "status">>) /\ user.for \in Mode
              /\ flags' = user.load \cup {BitOf(user.for = "on")}
           \/ /\ Moves(<<"and", "status">>, <<"status">>) /\ user.for \in Mode
              /\ flags' = user.load \ {BitOf(user.for # "on")}
<1>1. /\ "or" \in Step /\ "and" \in Step /\ "write" \in Step /\ "link" \in Step /\ "status" \in Step
  BY DEF Step
<1>2. UserOK /\ Done /\ user.loaded BY DEF UserStore
<1>3. CASE Doing("or")
  <2>1. flags' = user.load \cup {Bit} BY <1>3 DEF UserStore
  <2>2. CASE user.steps = <<"or", "link">> /\ user.for \in {"gw", "ip"}
    BY <1>1, <1>2, <2>1, <2>2, MovesOn DEF Bit
  <2>3. CASE user.steps = <<"or", "write", "link">> /\ user.for = "dns"
    BY <1>1, <1>2, <2>1, <2>3, MovesOn DEF Bit
  <2>4. CASE user.steps = <<"or", "and", "status">> /\ user.for \in Mode
    BY <1>1, <1>2, <2>1, <2>4, MovesOn DEF Bit, BitOf, Mode
  <2> QED BY <1>3, <2>2, <2>3, <2>4, DoingIs
<1>4. CASE ~Doing("or")
  <2>1. Doing("and") BY <1>2, <1>4 DEF UserOK
  <2>2. user.steps = <<"and", "status">> /\ user.for \in Mode BY <2>1, DoingIs
  <2>3. flags' = user.load \ {Other} BY <1>4 DEF UserStore
  <2> QED BY <1>1, <1>2, <2>2, <2>3, MovesOn DEF Other, BitOf, Mode
<1> QED BY <1>3, <1>4

LEMMA UserWriteIs ==
    ASSUME UserOK, UserWrite
    PROVE  \/ Moves(<<"write", "or", "link">>, <<"or", "link">>) /\ user.for \in {"gw", "ip"}
           \/ Moves(<<"write", "link">>, <<"link">>) /\ user.for = "dns"
<1>1. /\ "or" \in Step /\ "write" \in Step /\ "link" \in Step
  BY DEF Step
<1>2. Done /\ Doing("write") BY DEF UserWrite
<1> QED BY <1>1, <1>2, DoingIs, MovesOn

LEMMA UserEnds ==
    ASSUME UserOK
    PROVE  /\ UserLink => user.steps = <<"link">> /\ user' = Nobody
           /\ UserStatus => user.steps = <<"status">> /\ user.for \in Mode /\ user' = Nobody
<1>1. "link" \in Step /\ "status" \in Step
  BY DEF Step
<1> QED BY <1>1, DoingIs, MovesOn DEF UserLink, UserStatus

\* The task, the chip and time leave the thread alone.
LEMMA UserAlone ==
    ASSUME Task \/ PhyLink \/ SocketInterrupt \/ Elapse \/ UNCHANGED vars
    PROVE  user' = user
<1>1. CASE NetWorkInit
  BY <1>1 DEF NetWorkInit, Flags, Test, TakeInfo, TakeEnable, TakeDisable, Lease, Link, NextStep,
              DhcpRun, SetNetInfo, Show, ShowLink, SetMasks
<1>2. CASE Reset \/ Due \/ NotDue \/ Event \/ Drain \/ Handle
  BY <1>2 DEF Reset, Due, NotDue, Event, Drain, Handle
<1>3. CASE PhyLink \/ SocketInterrupt \/ Elapse \/ UNCHANGED vars
  BY <1>3 DEF PhyLink, SocketInterrupt, Elapse, vars
<1> QED BY <1>1, <1>2, <1>3 DEF Task

LEMMA CallIs ==
    ASSUME UserOK, Call
    PROVE  /\ user.steps = <<>> /\ ~user.loaded
           /\ \/ /\ \E p \in Parts, v \in Values :
                      user' = [user EXCEPT !.steps = IF p = "dns" THEN <<"or", "write", "link">>
                                                     ELSE <<"write", "or", "link">>,
                                           !.for = p, !.value = v]
                 /\ hurried' = hurried
              \/ /\ \E m \in Mode :
                      user' = [user EXCEPT !.steps = <<"or", "and", "status">>, !.for = m]
                 /\ hurried' = (hurried \/ flags # {})
  BY DEF Call, UserOK, Doing, SetAddrInfo, SetDnsServer, SetDhcp

LEMMA UserStays ==
    ASSUME UserOK, TypeOK, [Next]_vars
    PROVE  UserOK'
<1> DEFINE Steps == Seq(Step)
<1>0. /\ "or" \in Step /\ "and" \in Step /\ "write" \in Step /\ "link" \in Step /\ "status" \in Step
      /\ Values \subseteq Known /\ First \in Known
  BY DEF Step, Known
<1>1. /\ <<>> \in Steps /\ <<"link">> \in Steps /\ <<"write", "link">> \in Steps
      /\ <<"or", "link">> \in Steps /\ <<"status">> \in Steps /\ <<"and", "status">> \in Steps
      /\ <<"or", "write", "link">> \in Steps /\ <<"write", "or", "link">> \in Steps
      /\ <<"or", "and", "status">> \in Steps
  BY <1>0, StepsLeft
<1>2. user \in [steps : Steps, for : Parts \cup Mode, value : Known, loaded : BOOLEAN, load : SUBSET Bits]
  BY DEF UserOK, Step
<1>3. SUFFICES /\ user' \in [steps : Steps, for : Parts \cup Mode, value : Known, loaded : BOOLEAN,
                             load : SUBSET Bits]
               /\ \/ user'.steps \in {<<>>, <<"link">>}
                  \/ user'.steps \in Writing /\ user'.for \in {"gw", "ip"}
                  \/ user'.steps \in Serving /\ user'.for = "dns"
                  \/ user'.steps \in Turning /\ user'.for \in Mode
               /\ user'.loaded => Doing("or")' \/ Doing("and")'
  BY DEF UserOK, Step
<1> HIDE DEF Steps
<1>4. CASE Call
  <2>1. ~user'.loaded BY <1>2, <1>4, CallIs
  <2>2. CASE \E p \in Parts, v \in Values :
                user' = [user EXCEPT !.steps = IF p = "dns" THEN <<"or", "write", "link">>
                                               ELSE <<"write", "or", "link">>,
                                     !.for = p, !.value = v]
    BY <1>0, <1>1, <1>2, <2>1, <2>2 DEF Parts
  <2>3. CASE \E m \in Mode : user' = [user EXCEPT !.steps = <<"or", "and", "status">>, !.for = m]
    BY <1>1, <1>2, <2>1, <2>3
  <2> QED BY <1>4, <2>2, <2>3, CallIs
<1>5. CASE UserLoad
  <2>1. Doing("or")' \/ Doing("and")' BY <1>2, <1>5 DEF UserLoad, Doing
  <2>2. user'.steps = user.steps /\ user'.for = user.for BY <1>2, <1>5 DEF UserLoad
  <2>3. user' \in [steps : Steps, for : Parts \cup Mode, value : Known, loaded : BOOLEAN, load : SUBSET Bits]
    BY <1>2, <1>5 DEF UserLoad, TypeOK, Bits
  <2> QED BY <2>1, <2>2, <2>3 DEF UserOK
<1>6. CASE UserStore
  <2>1. ~user'.loaded BY <1>2, <1>6, UserStoreIs DEF Moves
  <2> QED BY <1>1, <1>2, <1>6, <2>1, UserStoreIs DEF Moves
<1>7. CASE UserWrite
  <2>1. ~user'.loaded BY <1>2, <1>7, UserWriteIs DEF Moves
  <2> QED BY <1>1, <1>2, <1>7, <2>1, UserWriteIs DEF Moves
<1>8. CASE UserLink \/ UserStatus
  <2>1. user' = Nobody BY <1>8, UserEnds
  <2>2. user'.steps = <<>> /\ ~user'.loaded BY <2>1 DEF Nobody
  <2>3. Nobody \in [steps : Steps, for : Parts \cup Mode, value : Known, loaded : BOOLEAN, load : SUBSET Bits]
    BY <1>0, <1>1 DEF Nobody, Parts
  <2> QED BY <2>1, <2>2, <2>3
<1>9. CASE Task \/ PhyLink \/ SocketInterrupt \/ Elapse \/ UNCHANGED vars
  <2>1. user' = user BY <1>9, UserAlone
  <2> QED BY <1>2, <2>1 DEF UserOK, Doing
<1> QED BY <1>4, <1>5, <1>6, <1>7, <1>8, <1>9 DEF Next, User

-----------------------------------------------------------------------------
(* Types and interrupts                                                    *)

TaskType == [pc : PCs, load : SUBSET Bits, maintain : BOOLEAN,
             result : {"set", "shown", "failed"}, sir : SUBSET Sockets]

\* Where the task may go, and what it may note.
LEMMA TaskGoes ==
    ASSUME task \in TaskType, NEW pc \in PCs, NEW m \in BOOLEAN, NEW r \in {"set", "shown", "failed"},
           NEW s \in SUBSET Sockets
    PROVE  /\ [task EXCEPT !.pc = pc] \in TaskType
           /\ [task EXCEPT !.pc = pc, !.maintain = m] \in TaskType
           /\ [task EXCEPT !.pc = pc, !.result = r] \in TaskType
           /\ [task EXCEPT !.pc = pc, !.maintain = m, !.result = r] \in TaskType
           /\ [task EXCEPT !.pc = pc, !.sir = s] \in TaskType
           /\ [task EXCEPT !.sir = s, !.pc = pc] \in TaskType
  BY DEF TaskType

\* The types of what the two threads share.
SharedOK ==
    /\ conf \in [Parts -> Known] /\ dhcp \in BOOLEAN
    /\ flags \subseteq Bits
    /\ regs \in [Parts -> Known] /\ masks \in BOOLEAN
    /\ sir \subseteq Sockets /\ irq \in BOOLEAN /\ phy \in BOOLEAN
    /\ lease \in {"fresh", "half", "near"}
    /\ shown \in [Parts -> Known] /\ shownDhcp \in BOOLEAN /\ shownLink \in BOOLEAN
    /\ task \in TaskType
    /\ calls \in 0 .. MaxCalls /\ booted \in BOOLEAN /\ hurried \in BOOLEAN

LEMMA TypesSplit == UserOK => (TypeOK <=> SharedOK)
  BY DEF UserOK, TypeOK, SharedOK, TaskType, Bits

LEMMA NetWorkInitKeepsTypes ==
    ASSUME SharedOK, NetWorkInit
    PROVE  SharedOK'
<1>0. task \in TaskType BY DEF SharedOK
<1> USE DEF SharedOK, TaskType, Bits
<1>1. CASE Flags BY <1>1 DEF Flags, At, Goto, PCs, settings, chip, device, ghosts
<1>2. CASE Test("info", "info", "cleared", "enable")
  BY <1>2 DEF Test, At, PCs, settings, chip, device, ghosts
<1>3. CASE TakeInfo BY <1>3 DEF TakeInfo, Store, At, PCs, chip, device, ghosts
<1>4. CASE Test("enable", "enable", "enabled", "disable")
  BY <1>4 DEF Test, At, PCs, settings, chip, device, ghosts
<1>5. CASE TakeEnable BY <1>5 DEF TakeEnable, Store, At, PCs, chip, device, ghosts
<1>6. CASE Test("disable", "disable", "disabled", "next")
  BY <1>6 DEF Test, At, PCs, settings, chip, device, ghosts
<1>7. CASE TakeDisable BY <1>7 DEF TakeDisable, Store, At, PCs, chip, device, ghosts
<1>8. CASE Lease
  <2> HIDE DEF TaskType
  <2>1. "next" \in PCs /\ "link" \in PCs /\ (lease = "half") \in BOOLEAN BY DEF PCs
  <2>2. task' \in TaskType BY <1>0, <1>8, <2>1, TaskGoes DEF Lease, Goto
  <2> QED BY <1>8, <2>2 DEF Lease, settings, chip, device, ghosts
<1>9. CASE Link
  <2> HIDE DEF TaskType
  <2>1. "event" \in PCs /\ "show" \in PCs /\ "next" \in PCs BY DEF PCs
  <2>2. task' \in TaskType BY <1>0, <1>9, <2>1, TaskGoes DEF Link, Goto
  <2> QED BY <1>9, <2>2 DEF Link, settings, chip, device, ghosts
<1>10. CASE NextStep BY <1>10 DEF NextStep, At, Goto, PCs, Known, chip, device
<1>11. CASE DhcpRun
  <2>1. "leased" \in Known BY DEF Known
  <2>2. conf' \in [Parts -> Known] BY <1>11, <2>1 DEF DhcpRun
  <2>3. lease' \in {"fresh", "half", "near"} BY <1>11 DEF DhcpRun
  <2> HIDE DEF TaskType
  <2>4. task' \in TaskType
    <3>1. "gw" \in PCs BY DEF PCs
    <3>2. \A r \in {"set", "shown", "failed"} :
            [task EXCEPT !.pc = "gw", !.maintain = FALSE, !.result = r] \in TaskType
      BY <1>0, <3>1, TaskGoes
    <3>3. Back("set") \/ Back("failed") BY <1>11 DEF DhcpRun
    <3> HIDE DEF SharedOK
    <3> QED BY <3>2, <3>3 DEF Back
  <2> QED BY <1>11, <2>2, <2>3, <2>4 DEF DhcpRun, chip, device, ghosts
<1>12. CASE \/ SetNetInfo("gw", "ip") \/ SetNetInfo("ip", "dns") \/ SetNetInfo("dns", "show")
  BY <1>12 DEF SetNetInfo, At, Goto, PCs, Parts, settings, device, ghosts
<1>13. CASE Show BY <1>13 DEF Show, At, Goto, PCs, settings, chip, ghosts
<1>14. CASE ShowLink
  <2>1. Onward[task.result] \in PCs BY DEF Onward, PCs
  <2> QED BY <1>14, <2>1 DEF ShowLink, settings, chip, ghosts
<1>15. CASE SetMasks BY <1>15 DEF SetMasks, At, Goto, PCs, settings, device, ghosts
<1> QED BY <1>1, <1>2, <1>3, <1>4, <1>5, <1>6, <1>7, <1>8, <1>9, <1>10, <1>11, <1>12, <1>13, <1>14,
           <1>15 DEF NetWorkInit

LEMMA TypesStay ==
    ASSUME SharedOK, UserOK, [Next]_vars
    PROVE  SharedOK'
<1>0. task \in TaskType BY DEF SharedOK
<1> USE DEF SharedOK, TaskType, Bits
<1>1. CASE NetWorkInit BY <1>1, NetWorkInitKeepsTypes
<1>2. CASE Reset \/ Due \/ NotDue
  BY <1>2 DEF Reset, Due, NotDue, At, Goto, PCs, settings, chip, device, ghosts
<1>3. CASE Event \/ Drain
  <2> HIDE DEF TaskType
  <2>1. "drain" \in PCs /\ "due" \in PCs /\ "handle" \in PCs BY DEF PCs
  <2>2. sir \in SUBSET Sockets OBVIOUS
  <2>3. task' \in TaskType
    <3>1. CASE Event BY <1>0, <2>1, <3>1, TaskGoes DEF Event, Goto
    <3>2. CASE Drain
      <4>1. [task EXCEPT !.pc = "due"] \in TaskType BY <1>0, <2>1, TaskGoes
      <4>2. [task EXCEPT !.pc = "handle", !.sir = sir] \in TaskType BY <1>0, <2>1, <2>2, TaskGoes
      <4> QED BY <3>2, <4>1, <4>2 DEF Drain
    <3> QED BY <1>3, <3>1, <3>2
  <2> QED BY <1>3, <2>3 DEF Event, Drain, settings, chip, device, ghosts
<1>4. CASE Handle
  <2>2. sir' \subseteq Sockets BY <1>4 DEF Handle
  <2> HIDE DEF TaskType
  <2>1. task' \in TaskType
    <3>1. PICK s \in task.sir :
            task' = [task EXCEPT !.sir = @ \ {s}, !.pc = After(task.sir \ {s})]
      BY <1>4 DEF Handle
    <3>2. After(task.sir \ {s}) \in PCs BY DEF After, PCs
    <3>3. task.sir \ {s} \in SUBSET Sockets BY <1>0 DEF TaskType
    <3> QED BY <1>0, <3>1, <3>2, <3>3, TaskGoes
  <2> QED BY <1>4, <2>1, <2>2 DEF Handle, settings, device, ghosts
<1>5. CASE Call
  <2> HIDE DEF TaskType
  <2>1. calls' \in 0 .. MaxCalls
    <3>1. calls < MaxCalls /\ calls' = calls + 1 BY <1>5 DEF Call
    <3>2. calls \in 0 .. MaxCalls BY DEF SharedOK
    <3> HIDE DEF SharedOK
    <3> QED BY <3>1, <3>2, NetAssumption
  <2>2. hurried' \in BOOLEAN BY <1>5 DEF Call
  <2> QED BY <1>5, <2>1, <2>2 DEF Call, settings, chip, device
<1>6. CASE UserLoad BY <1>6 DEF UserLoad, settings, chip, device, ghosts
<1>7. CASE UserStore
  BY <1>7 DEF UserStore, Bit, Other, UserOK, Parts, Mode, chip, device, ghosts
<1>8. CASE UserWrite
  <2>1. user.for \in Parts BY <1>8, UserWriteIs DEF Parts
  <2>2. user.value \in Known BY DEF UserOK
  <2> QED BY <1>8, <2>1, <2>2 DEF UserWrite, chip, device, ghosts
<1>9. CASE UserLink \/ UserStatus
  BY <1>9 DEF UserLink, UserStatus, settings, chip, ghosts
<1>10. CASE PhyLink \/ SocketInterrupt \/ Elapse
  <2> HIDE DEF TaskType
  <2>1. CASE PhyLink BY <2>1 DEF PhyLink, settings, device, ghosts
  <2>2. CASE SocketInterrupt
    <3>1. irq' \in BOOLEAN /\ sir' \subseteq Sockets BY <2>2 DEF SocketInterrupt
    <3> QED BY <2>2, <3>1 DEF SocketInterrupt, settings, device, ghosts
  <2>3. CASE Elapse
    <3>1. lease' \in {"fresh", "half", "near"} BY <2>3 DEF Elapse
    <3> QED BY <2>3, <3>1 DEF Elapse, settings, chip, device, ghosts
  <2> QED BY <1>10, <2>1, <2>2, <2>3
<1>11. CASE UNCHANGED vars BY <1>11 DEF vars, settings, chip, device, ghosts
<1> QED BY <1>1, <1>2, <1>3, <1>4, <1>5, <1>6, <1>7, <1>8, <1>9, <1>10, <1>11
       DEF Next, Task, User

LEMMA PinStays ==
    ASSUME SharedOK, PinSeen, [Next]_vars
    PROVE  PinSeen'
<1>0. task \in TaskType BY DEF SharedOK
<1> USE DEF PinSeen, TaskType
<1>1. CASE NetWorkInit /\ ~SetMasks
  <2>1. UNCHANGED <<masks, sir, irq>> /\ task'.pc \notin {"drain", "handle"}
             /\ task.pc \notin {"drain", "handle"}
    <3> USE <1>0 DEF settings, chip
    <3>1. CASE Flags BY <3>1 DEF Flags, At, Goto
    <3>2. CASE Test("info", "info", "cleared", "enable") BY <3>2 DEF Test, At
    <3>3. CASE Test("enable", "enable", "enabled", "disable") BY <3>3 DEF Test, At
    <3>4. CASE Test("disable", "disable", "disabled", "next") BY <3>4 DEF Test, At
    <3>5. CASE TakeInfo \/ TakeEnable \/ TakeDisable
      BY <3>5 DEF TakeInfo, TakeEnable, TakeDisable, At
    <3>6. CASE Lease \/ Link BY <3>6 DEF Lease, Link, At, Goto
    <3>7. CASE NextStep \/ DhcpRun BY <3>7 DEF NextStep, DhcpRun, At, Goto, Back
    <3>8. CASE \/ SetNetInfo("gw", "ip") \/ SetNetInfo("ip", "dns") \/ SetNetInfo("dns", "show")
      BY <3>8 DEF SetNetInfo, At, Goto
    <3>9. CASE Show BY <3>9 DEF Show, At, Goto
    <3>10. CASE ShowLink
      <4>1. Onward[task.result] \notin {"drain", "handle"} BY DEF Onward
      <4> QED BY <3>10, <4>1 DEF ShowLink, At
    <3> QED BY <1>1, <3>1, <3>2, <3>3, <3>4, <3>5, <3>6, <3>7, <3>8, <3>9, <3>10 DEF NetWorkInit
  <2> QED BY <2>1
<1>2. CASE SetMasks BY <1>2 DEF SetMasks, At
<1>3. CASE Reset \/ Due \/ NotDue BY <1>3 DEF Reset, Due, NotDue, At, Goto, chip
<1>4. CASE Event BY <1>4 DEF Event, Goto
<1>5. CASE Drain BY <1>5 DEF Drain, chip
<1>6. CASE Handle BY <1>6 DEF Handle, After
<1>7. CASE User
  BY <1>7 DEF User, Call, UserLoad, UserStore, UserWrite, UserLink, UserStatus, chip
<1>8. CASE PhyLink \/ SocketInterrupt \/ Elapse
  BY <1>8 DEF PhyLink, SocketInterrupt, Elapse, chip
<1>9. CASE UNCHANGED vars BY <1>9 DEF vars, chip
<1> QED BY <1>1, <1>2, <1>3, <1>4, <1>5, <1>6, <1>7, <1>8, <1>9 DEF Next, Task

LEMMA BasicsStart == Init => Basics
<1> SUFFICES ASSUME Init PROVE Basics
  OBVIOUS
<1>1. First \in Known /\ "zero" \in Known /\ "ip" \in Parts BY DEF Known, Parts
<1>2. <<>> \in Seq({"or", "and", "write", "link", "status"}) OBVIOUS
<1>3. UserOK BY <1>1, <1>2 DEF Init, UserOK, Nobody
<1>4. SharedOK
  <2>1. task \in TaskType BY DEF Init, TaskType, PCs
  <2>2. 0 \in 0 .. MaxCalls BY NetAssumption
  <2> QED BY <1>1, <2>1, <2>2 DEF Init, SharedOK
<1>5. PinSeen BY DEF Init, PinSeen
<1> QED BY <1>3, <1>4, <1>5, TypesSplit DEF Basics

LEMMA BasicsStay ==
    ASSUME Basics, [Next]_vars
    PROVE  Basics'
<1>1. UserOK' BY UserStays DEF Basics
<1>2. SharedOK' BY TypesStay, TypesSplit DEF Basics
<1>3. UserOK' => (TypeOK' <=> SharedOK')
  BY DEF UserOK, TypeOK, SharedOK, TaskType, Bits
<1>4. PinSeen' BY PinStays, TypesSplit DEF Basics
<1> QED BY <1>1, <1>2, <1>3, <1>4 DEF Basics

\* The task and its device keep their types, and whenever the task waits with an
\* interrupt pending in SIR, the pin has fallen since it last cleared the flag of
\* the event: an interrupt that comes while it reads SIR, while it takes settings
\* over, or before the masks are set is not slept through (wizIntDataTask).
THEOREM InterruptNeverMissed == Spec => []TaskInvariant
<1>1. Basics => TaskInvariant
  BY DEF Basics, TaskInvariant, PinSeen, InterruptSeen, At
<1>2. Init => Basics BY BasicsStart
<1>3. Basics /\ [Next]_vars => Basics' BY BasicsStay
<1> QED BY <1>1, <1>2, <1>3, PTL DEF Spec

-----------------------------------------------------------------------------
(* The addresses are taken over                                            *)

\* A pending address stays pending until the task stores the flags it has loaded:
\* the thread's own steps do not lose it.
LEMMA PendingStays ==
    ASSUME UserOK, InfoKept, [Next]_vars, Pending, ~TakeInfo, ~TakeEnable, ~TakeDisable
    PROVE  Pending'
<1> USE DEF Pending, InfoKept
<1>1. CASE UserStore
  <2>1. CASE "info" \in flags
    <3>1. "info" \in user.load BY <1>1, <2>1 DEF UserStore
    <3>2. \A want \in BOOLEAN : BitOf(want) # "info" BY DEF BitOf
    <3>3. (user.for # "on") \in BOOLEAN OBVIOUS
    <3> QED BY <1>1, <3>1, <3>2, <3>3, UserStoreIs
  <2>2. CASE "info" \notin flags
    <3>1. user.steps = <<"or", "link">> /\ user.for \in {"gw", "ip"} BY <2>2
    <3>2. "and" \in Step /\ "or" \in Step /\ "status" \in Step /\ "link" \in Step /\ "write" \in Step
      BY DEF Step
    <3> QED BY <1>1, <3>1, <3>2, UserStoreIs, StepsDiffer DEF Moves
  <2> QED BY <2>1, <2>2
<1>2. CASE UserLoad
  <2>1. user'.steps = user.steps /\ user'.for = user.for /\ flags' = flags
    BY <1>2 DEF UserLoad, UserOK, settings
  <2> QED BY <2>1
<1>3. CASE Call \/ UserWrite \/ UserLink \/ UserStatus
  <2>1. flags' = flags BY <1>3 DEF Call, UserWrite, UserLink, UserStatus, settings
  <2>2. user.steps # <<"or", "link">>
    <3>1. "and" \in Step /\ "or" \in Step /\ "status" \in Step /\ "link" \in Step /\ "write" \in Step
      BY DEF Step
    <3>2. CASE Call
      <4>1. <<"or", "link">> # <<>> OBVIOUS
      <4>2. user.steps = <<>> BY <3>2, CallIs
      <4> QED BY <4>1, <4>2
    <3>3. CASE UserWrite BY <3>1, <3>3, UserWriteIs, StepsDiffer DEF Moves
    <3>4. CASE UserLink \/ UserStatus BY <3>1, <3>4, UserEnds, StepsDiffer
    <3> QED BY <1>3, <3>2, <3>3, <3>4
  <2> QED BY <2>1, <2>2
<1>4. CASE Task
  <2>1. user' = user BY <1>4, UserAlone
  <2>2. "info" \in flags => "info" \in flags'
    <3>1. CASE NetWorkInit
      <4>1. CASE Test("info", "info", "cleared", "enable") \/ Test("enable", "enable", "enabled", "disable")
                 \/ Test("disable", "disable", "disabled", "next")
        BY <4>1 DEF Test, settings
      <4>3. CASE Flags \/ Lease \/ Link \/ NextStep \/ DhcpRun
        BY <4>3 DEF Flags, Lease, Link, NextStep, DhcpRun, settings
      <4>4. CASE \/ SetNetInfo("gw", "ip") \/ SetNetInfo("ip", "dns") \/ SetNetInfo("dns", "show")
                 \/ Show \/ ShowLink \/ SetMasks
        BY <4>4 DEF SetNetInfo, Show, ShowLink, SetMasks, settings
      <4> QED BY <3>1, <4>1, <4>3, <4>4 DEF NetWorkInit
    <3>2. CASE Reset \/ Due \/ NotDue \/ Event \/ Drain \/ Handle
      BY <3>2 DEF Reset, Due, NotDue, Event, Drain, Handle, settings
    <3> QED BY <1>4, <3>1, <3>2 DEF Task
  <2> QED BY <2>1, <2>2
<1>5. CASE PhyLink \/ SocketInterrupt \/ Elapse \/ UNCHANGED vars
  BY <1>5 DEF PhyLink, SocketInterrupt, Elapse, vars, settings
<1> QED BY <1>1, <1>2, <1>3, <1>4, <1>5 DEF Next, User

LEMMA InfoKeptStays ==
    ASSUME UserOK, SharedOK, InfoKept, [Next]_vars
    PROVE  InfoKept'
<1>0. task \in TaskType BY DEF SharedOK
<1>1. CASE UserStore
  <2>1. ~user'.loaded BY <1>1, UserStoreIs DEF Moves, UserOK
  <2>2. task' = task BY <1>1 DEF UserStore
  <2>4. "info" \in user.load => "info" \in flags'
    <3>1. flags' = user.load \cup {Bit} \/ flags' = user.load \ {Other} BY <1>1 DEF UserStore
    <3>2. Other # "info" BY DEF Other
    <3> QED BY <3>1, <3>2
  <2> QED BY <1>1, <2>1, <2>2, <2>4 DEF InfoKept, UserStore
<1>2. CASE UserLoad
  <2>1. user'.load = flags /\ flags' = flags /\ task' = task
    BY <1>2 DEF UserLoad, UserOK, settings
  <2> QED BY <2>1 DEF InfoKept
<1>3. CASE Call \/ UserWrite \/ UserLink \/ UserStatus
  <2>1. flags' = flags /\ task' = task
    BY <1>3 DEF Call, UserWrite, UserLink, UserStatus, settings
  <2>2. ~user'.loaded
    <3>1. CASE Call
      <4>1. user'.loaded = user.loaded BY <3>1 DEF Call, UserOK
      <4> QED BY <3>1, <4>1, CallIs
    <3>2. CASE UserWrite BY <3>2, UserWriteIs DEF Moves, UserOK
    <3>3. CASE UserLink \/ UserStatus BY <3>3, UserEnds DEF Nobody
    <3> QED BY <1>3, <3>1, <3>2, <3>3
  <2> QED BY <2>1, <2>2 DEF InfoKept
<1>4. CASE Task
  <2>1. user' = user BY <1>4, UserAlone
  <2>2. /\ "info" \in task'.load => "info" \in flags'
        /\ "info" \in flags' => "info" \in flags
    <3> USE <1>0 DEF TaskType, InfoKept
    <3>1. CASE NetWorkInit
      <4>1. CASE Test("info", "info", "cleared", "enable") \/ Test("enable", "enable", "enabled", "disable")
                 \/ Test("disable", "disable", "disabled", "next")
        BY <4>1 DEF Test, settings
      <4>2. CASE TakeInfo \/ TakeEnable \/ TakeDisable
        BY <4>2 DEF TakeInfo, TakeEnable, TakeDisable, Store
      <4>3. CASE Flags \/ Lease \/ Link \/ NextStep
        <5>1. task'.load = task.load /\ flags' = flags
          BY <4>3 DEF Flags, Lease, Link, NextStep, Goto, settings
        <5> QED BY <5>1
      <4>4. CASE DhcpRun
        <5>1. task'.load = task.load /\ flags' = flags BY <4>4 DEF DhcpRun, Back
        <5> QED BY <5>1
      <4>5. CASE \/ SetNetInfo("gw", "ip") \/ SetNetInfo("ip", "dns") \/ SetNetInfo("dns", "show")
                 \/ Show \/ ShowLink \/ SetMasks
        <5>1. task'.load = task.load /\ flags' = flags
          BY <4>5 DEF SetNetInfo, Show, ShowLink, SetMasks, Goto, settings
        <5> QED BY <5>1
      <4> QED BY <3>1, <4>1, <4>2, <4>3, <4>4, <4>5 DEF NetWorkInit
    <3>2. CASE Reset \/ Due \/ NotDue \/ Event \/ Drain \/ Handle
      <4>1. task'.load = task.load /\ flags' = flags
        BY <3>2 DEF Reset, Due, NotDue, Event, Drain, Handle, Goto, settings
      <4> QED BY <4>1
    <3> QED BY <1>4, <3>1, <3>2 DEF Task
  <2> QED BY <2>1, <2>2 DEF InfoKept
<1>5. CASE PhyLink \/ SocketInterrupt \/ Elapse \/ UNCHANGED vars
  BY <1>5 DEF PhyLink, SocketInterrupt, Elapse, vars, settings, InfoKept
<1> QED BY <1>1, <1>2, <1>3, <1>4, <1>5 DEF Next, User

\* Without a link the first pass goes through the flags to the addresses.
LEMMA FirstPassStays ==
    ASSUME SharedOK, FirstPass, [Next]_vars, "linkAtStart" \notin Env
    PROVE  FirstPass'
<1>0. task \in TaskType BY DEF SharedOK
<1> USE <1>0 DEF TaskType, FirstPass
<1>1. CASE NetWorkInit
  <2>1. CASE Flags \/ Lease \/ Link
    BY <2>1 DEF Flags, Lease, Link, At, Goto, chip, ghosts
  <2>2. CASE Test("info", "info", "cleared", "enable") \/ Test("enable", "enable", "enabled", "disable")
             \/ Test("disable", "disable", "disabled", "next")
    BY <2>2 DEF Test, At, chip, ghosts
  <2>3. CASE TakeInfo \/ TakeEnable \/ TakeDisable
    BY <2>3 DEF TakeInfo, TakeEnable, TakeDisable, At, chip, ghosts
  <2>4. CASE NextStep BY <2>4 DEF NextStep
  <2>5. CASE \/ SetNetInfo("gw", "ip") \/ SetNetInfo("ip", "dns") \/ SetNetInfo("dns", "show")
             \/ DhcpRun \/ Show \/ ShowLink \/ SetMasks
    BY <2>5 DEF SetNetInfo, DhcpRun, Show, ShowLink, SetMasks, At, ghosts
  <2> QED BY <1>1, <2>1, <2>2, <2>3, <2>4, <2>5 DEF NetWorkInit
<1>2. CASE Reset \/ Due \/ NotDue \/ Event \/ Drain \/ Handle
  <2>1. CASE Reset BY <2>1 DEF Reset, At, Goto, chip, ghosts
  <2>2. CASE Due \/ NotDue \/ Event BY <2>2 DEF Due, NotDue, Event, At, ghosts
  <2>3. CASE Drain BY <2>3 DEF Drain, At, ghosts
  <2>4. CASE Handle BY <2>4 DEF Handle, At, ghosts
  <2> QED BY <1>2, <2>1, <2>2, <2>3, <2>4
<1>3. CASE User
  BY <1>3 DEF User, Call, UserLoad, UserStore, UserWrite, UserLink, UserStatus, chip, ghosts
<1>4. CASE PhyLink \/ SocketInterrupt \/ Elapse
  BY <1>4 DEF PhyLink, SocketInterrupt, Elapse, chip, ghosts
<1>5. CASE UNCHANGED vars BY <1>5 DEF vars, chip, ghosts
<1> QED BY <1>1, <1>2, <1>3, <1>4, <1>5 DEF Next, Task

\* What is shown is read from the chip at the end of each pass that writes it.
LEMMA ShownStays ==
    ASSUME SharedOK, [Next]_vars, NEW p \in {"gw", "ip"}, IsShown(p)
    PROVE  IsShown(p)'
<1>0. task \in TaskType /\ regs \in [Parts -> Known] BY DEF SharedOK
<1> USE <1>0 DEF TaskType, IsShown, chip, device
<1>1. CASE NetWorkInit
  <2>1. CASE Flags \/ Lease \/ Link
    BY <2>1 DEF Flags, Lease, Link, At, Goto
  <2>2. CASE Test("info", "info", "cleared", "enable") \/ Test("enable", "enable", "enabled", "disable")
             \/ Test("disable", "disable", "disabled", "next")
    BY <2>2 DEF Test, At
  <2>3. CASE TakeInfo \/ TakeEnable \/ TakeDisable
    BY <2>3 DEF TakeInfo, TakeEnable, TakeDisable, At
  <2>4. CASE NextStep BY <2>4 DEF NextStep, At
  <2>5. CASE DhcpRun BY <2>5 DEF DhcpRun, At
  <2>6. CASE SetNetInfo("gw", "ip") \/ SetNetInfo("ip", "dns") \/ SetNetInfo("dns", "show")
    BY <2>6 DEF SetNetInfo, At, Goto
  <2>7. CASE Show BY <2>7 DEF Show
  <2>8. CASE ShowLink \/ SetMasks BY <2>8 DEF ShowLink, SetMasks, At
  <2> QED BY <1>1, <2>1, <2>2, <2>3, <2>4, <2>5, <2>6, <2>7, <2>8 DEF NetWorkInit
<1>2. CASE Reset \/ Due \/ NotDue \/ Event \/ Drain \/ Handle
  <2>1. CASE Reset \/ Due \/ NotDue \/ Event BY <2>1 DEF Reset, Due, NotDue, Event, At
  <2>2. CASE Drain BY <2>2 DEF Drain, At
  <2>3. CASE Handle
    <3>1. task.pc = "handle" => task.pc \notin {"ip", "dns", "show"} OBVIOUS
    <3>2. task.pc = "handle" BY <2>3 DEF Handle, At
    <3>3. UNCHANGED <<shown, regs>> BY <2>3 DEF Handle
    <3> QED BY <3>1, <3>2, <3>3
  <2> QED BY <1>2, <2>1, <2>2, <2>3
<1>3. CASE User
  BY <1>3 DEF User, Call, UserLoad, UserStore, UserWrite, UserLink, UserStatus
<1>4. CASE PhyLink \/ SocketInterrupt \/ Elapse
  BY <1>4 DEF PhyLink, SocketInterrupt, Elapse
<1>5. CASE UNCHANGED vars BY <1>5 DEF vars
<1> QED BY <1>1, <1>2, <1>3, <1>4, <1>5 DEF Next, Task

\* Every step that makes an address differ from the chip's has a pass or a flag
\* that brings it there.
LEMMA WrittenStays ==
    ASSUME SharedOK, UserOK, InfoKept, FirstPass, [Next]_vars, NEW p \in {"gw", "ip"}, Written(p)
    PROVE  Written(p)'
<1>0. task \in TaskType /\ regs \in [Parts -> Known] /\ conf \in [Parts -> Known] /\ p \in Parts
  BY DEF SharedOK, Parts
<1> USE <1>0 DEF TaskType, Written
<1>1. CASE NetWorkInit
  <2>1. CASE TakeInfo \/ TakeEnable \/ TakeDisable
    <3>1. Underway' BY <2>1 DEF TakeInfo, TakeEnable, TakeDisable, Underway
    <3> QED BY <3>1
  <2>2. CASE NextStep \/ DhcpRun
    <3>1. Underway' BY <2>2 DEF NextStep, DhcpRun, Back, Goto, Underway
    <3> QED BY <3>1
  <2>3. CASE SetNetInfo("gw", "ip")
    <3>1. p = "gw" => regs'[p] = conf'[p] BY <2>3 DEF SetNetInfo, settings
    <3>2. At("ip")' BY <2>3 DEF SetNetInfo, Goto, At
    <3> QED BY <3>1, <3>2
  <2> SUFFICES ASSUME ~TakeInfo, ~TakeEnable, ~TakeDisable, ~NextStep, ~DhcpRun, ~SetNetInfo("gw", "ip")
               PROVE  Written(p)'
    BY <2>1, <2>2, <2>3
  <2>4. Pending => Pending' BY <1>1, PendingStays DEF Next, Task
  <2>5. CASE SetNetInfo("ip", "dns")
    <3>1. p = "ip" => regs'[p] = conf'[p] BY <2>5 DEF SetNetInfo, settings
    <3>2. p = "gw" => regs'[p] = regs[p] /\ conf'[p] = conf[p] BY <2>5 DEF SetNetInfo, settings
    <3>3. ~Underway BY <2>5 DEF SetNetInfo, At, Underway
    <3>4. booted' = booted BY <2>5 DEF SetNetInfo, ghosts
    <3> QED BY <2>4, <3>1, <3>2, <3>3, <3>4
  <2>6. CASE SetNetInfo("dns", "show")
    <3>1. regs'[p] = regs[p] /\ conf'[p] = conf[p] BY <2>6 DEF SetNetInfo, settings
    <3>2. ~Underway /\ ~At("ip") BY <2>6 DEF SetNetInfo, At, Underway
    <3>3. booted' = booted BY <2>6 DEF SetNetInfo, ghosts
    <3> QED BY <2>4, <3>1, <3>2, <3>3
  <2>7. CASE Test("info", "info", "cleared", "enable") \/ Test("enable", "enable", "enabled", "disable")
             \/ Test("disable", "disable", "disabled", "next")
    <3>1. Underway' BY <2>7 DEF Test, Underway
    <3> QED BY <3>1
  <2>8. CASE Flags \/ Lease \/ Link \/ Show \/ ShowLink \/ SetMasks
    <3>1. ~Underway /\ ~At("ip")
      BY <2>8 DEF Flags, Lease, Link, Show, ShowLink, SetMasks, At, Underway
    <3>2. /\ regs' = regs /\ conf' = conf /\ booted' = booted
      BY <2>8 DEF Flags, Lease, Link, Show, ShowLink, SetMasks, settings, chip, ghosts
    <3> QED BY <2>4, <3>1, <3>2
  <2> QED BY <1>1, <2>5, <2>6, <2>7, <2>8 DEF NetWorkInit
<1>2. CASE Reset \/ Due \/ NotDue \/ Event \/ Drain \/ Handle
  <2>1. ~Underway /\ ~At("ip")
    <3>1. CASE Handle
      <4>1. task.pc = "handle" BY <3>1 DEF Handle, At
      <4> QED BY <4>1 DEF Underway, At
    <3>2. CASE Reset \/ Due \/ NotDue \/ Event \/ Drain
      BY <3>2 DEF Reset, Due, NotDue, Event, Drain, At, Underway
    <3> QED BY <1>2, <3>1, <3>2
  <2>2. regs' = regs /\ conf' = conf /\ booted' = booted
    BY <1>2 DEF Reset, Due, NotDue, Event, Drain, Handle, settings, chip, ghosts
  <2>3. ~TakeInfo /\ ~TakeEnable /\ ~TakeDisable
    BY <2>1 DEF Underway, TakeInfo, TakeEnable, TakeDisable, At
  <2>4. Pending => Pending' BY <1>2, <2>3, PendingStays DEF Next, Task
  <2> QED BY <2>1, <2>2, <2>4
<1>3. CASE User \/ PhyLink \/ SocketInterrupt \/ Elapse \/ UNCHANGED vars
  <2>1. task' = task /\ regs' = regs /\ booted' = booted
    BY <1>3 DEF User, Call, UserLoad, UserStore, UserWrite, UserLink, UserStatus,
                PhyLink, SocketInterrupt, Elapse, vars, chip, ghosts
  <2>2. (Underway' <=> Underway) /\ (At("ip")' <=> At("ip")) BY <2>1 DEF Underway, At
  <2>3. CASE ~UserWrite
    <3>1. conf' = conf
      BY <1>3, <2>3 DEF User, Call, UserLoad, UserStore, UserWrite, UserLink, UserStatus,
                        PhyLink, SocketInterrupt, Elapse, vars, settings
    <3>2. Pending => Pending' \/ TakeInfo \/ TakeEnable \/ TakeDisable BY PendingStays
    <3>3. TakeInfo \/ TakeEnable \/ TakeDisable => Underway
      BY DEF TakeInfo, TakeEnable, TakeDisable, Underway, At
    <3> QED BY <2>1, <2>2, <3>1, <3>2, <3>3
  <2>4. CASE UserWrite
    <3>1. CASE Moves(<<"write", "or", "link">>, <<"or", "link">>) /\ user.for \in {"gw", "ip"}
      <4>1. Pending' BY <3>1 DEF Pending, Moves, UserOK
      <4> QED BY <4>1
    <3>2. CASE Moves(<<"write", "link">>, <<"link">>) /\ user.for = "dns"
      <4>1. conf'[p] = conf[p] BY <2>4, <3>2 DEF UserWrite
      <4>2. Pending => Pending' \/ TakeInfo \/ TakeEnable \/ TakeDisable BY PendingStays
      <4>3. TakeInfo \/ TakeEnable \/ TakeDisable => Underway
        BY DEF TakeInfo, TakeEnable, TakeDisable, Underway, At
      <4> QED BY <2>1, <2>2, <4>1, <4>2, <4>3
    <3> QED BY <2>4, <3>1, <3>2, UserWriteIs
  <2> QED BY <2>3, <2>4
<1> QED BY <1>1, <1>2, <1>3 DEF Next, Task

\* An address that was set, by a thread or by DHCP, ends in the chip and in the
\* device as shown, for every interleaving of the task's and the setters' unlocked
\* loads and stores of netDevFlag, as long as the PHY finds its link only after the
\* task has first looked (RyanW5500NetWorkInit, RyanW5500NetdevSetAddrInfo).
THEOREM AddressesTakenOver ==
    ASSUME "linkAtStart" \notin Env
    PROVE  Spec => []AddressTakenOver
<1>1. AddressInv => AddressTakenOver
  <2> SUFFICES ASSUME AddressInv, Quiet, NEW p \in {"gw", "ip"}
               PROVE  regs[p] = conf[p] /\ shown[p] = conf[p]
    BY DEF AddressTakenOver
  <2>1. booted
    BY DEF AddressInv, FirstPass, Quiet
  <2>2. ~Underway /\ ~At("ip") /\ task.pc \notin {"ip", "dns", "show"} BY DEF Quiet, Underway, At
  <2>3. ~Pending BY DEF Quiet, Pending
  <2> QED BY <2>1, <2>2, <2>3 DEF AddressInv, Written, IsShown
<1>2. Init => AddressInv
  <2> SUFFICES ASSUME Init PROVE AddressInv
    OBVIOUS
  <2>1. InfoKept /\ FirstPass BY DEF Init, InfoKept, FirstPass, Nobody
  <2>2. \A p \in {"gw", "ip"} : Written(p) /\ IsShown(p) BY DEF Init, Written, IsShown
  <2> QED BY <2>1, <2>2, BasicsStart DEF AddressInv
<1>3. AddressInv /\ [Next]_vars => AddressInv'
  <2> SUFFICES ASSUME AddressInv, [Next]_vars PROVE AddressInv'
    OBVIOUS
  <2>1. SharedOK /\ UserOK /\ InfoKept /\ FirstPass BY TypesSplit DEF AddressInv, Basics
  <2>2. Basics' BY BasicsStay DEF AddressInv
  <2>3. InfoKept' BY <2>1, InfoKeptStays
  <2>4. FirstPass' BY <2>1, FirstPassStays
  <2>5. ASSUME NEW p \in {"gw", "ip"} PROVE Written(p)'
    BY <2>1, WrittenStays DEF AddressInv
  <2>6. ASSUME NEW p \in {"gw", "ip"} PROVE IsShown(p)'
    BY <2>1, ShownStays DEF AddressInv
  <2> QED BY <2>2, <2>3, <2>4, <2>5, <2>6 DEF AddressInv
<1> QED BY <1>1, <1>2, <1>3, PTL DEF Spec

-----------------------------------------------------------------------------
(* The DHCP mode is taken over                                             *)

\* The steps of the task, but for those at a flag, neither load nor store.
TestsFlag == \/ Test("info", "info", "cleared", "enable")
             \/ Test("enable", "enable", "enabled", "disable")
             \/ Test("disable", "disable", "disabled", "next")
TakesFlag == TakeInfo \/ TakeEnable \/ TakeDisable

LEMMA TaskElsewhere ==
    ASSUME SharedOK, Task, ~TestsFlag, ~TakesFlag
    PROVE  /\ flags' = flags /\ dhcp' = dhcp /\ task'.load = task.load
           /\ ~Holding /\ ~Holding'
<1>0. task \in TaskType BY DEF SharedOK
<1> USE <1>0 DEF TaskType, Holding
<1>1. CASE NetWorkInit
  <2>1. CASE Flags \/ Lease \/ Link
    BY <2>1 DEF Flags, Lease, Link, At, Goto, settings
  <2>2. CASE NextStep BY <2>2 DEF NextStep, At, Goto
  <2>3. CASE DhcpRun BY <2>3 DEF DhcpRun, At, Back
  <2>4. CASE SetNetInfo("gw", "ip") \/ SetNetInfo("ip", "dns") \/ SetNetInfo("dns", "show")
    BY <2>4 DEF SetNetInfo, At, Goto, settings
  <2>5. CASE Show \/ SetMasks BY <2>5 DEF Show, SetMasks, At, Goto, settings
  <2>6. CASE ShowLink
    <3>1. Onward[task.result] \notin {"cleared", "enabled", "disabled"} BY DEF Onward
    <3> QED BY <2>6, <3>1 DEF ShowLink, At, settings
  <2> QED BY <1>1, <2>1, <2>2, <2>3, <2>4, <2>5, <2>6 DEF NetWorkInit, TestsFlag, TakesFlag
<1>2. CASE Reset \/ Due \/ NotDue \/ Event
  BY <1>2 DEF Reset, Due, NotDue, Event, At, Goto, settings
<1>3. CASE Drain BY <1>3 DEF Drain, At, settings
<1>4. CASE Handle
  <2>1. \A s : After(task.sir \ {s}) \in {"drain", "handle"} BY DEF After
  <2>2. task.pc = "handle" BY <1>4 DEF Handle, At
  <2>3. flags' = flags /\ dhcp' = dhcp BY <1>4 DEF Handle, settings
  <2>4. task'.load = task.load /\ task'.pc \in {"drain", "handle"} BY <1>4, <2>1 DEF Handle
  <2> QED BY <2>2, <2>3, <2>4
<1> QED BY <1>1, <1>2, <1>3, <1>4 DEF Task

\* The first flag of a call for the mode is stored while nothing else is.
Opening == user.steps = <<"or", "and", "status">>

LEMMA NothingLoaded ==
    ASSUME LoadsKept, ModeKept, Opening
    PROVE  flags = {} /\ task.load = {} /\ user.load = {} /\ ~Holding
  BY DEF LoadsKept, ModeKept, Opening, Holding

LEMMA TaskKeepsLoads ==
    ASSUME SharedOK, LoadsKept, Task
    PROVE  LoadsKept' /\ flags' \subseteq flags
<1>0. task \in TaskType BY DEF SharedOK
<1>1. user' = user BY UserAlone
<1>2. CASE TestsFlag
  BY <1>0, <1>1, <1>2 DEF TestsFlag, Test, At, settings, LoadsKept, Holding, TaskType
<1>3. CASE TakesFlag
  <2>1. flags' \subseteq task.load /\ task'.load = {} /\ ~Holding'
    BY <1>0, <1>3 DEF TakesFlag, TakeInfo, TakeEnable, TakeDisable, Store, Holding, TaskType
  <2> QED BY <1>1, <2>1 DEF LoadsKept, Holding
<1>4. CASE ~TestsFlag /\ ~TakesFlag
  <2>1. /\ flags' = flags /\ task'.load = task.load /\ ~Holding /\ ~Holding'
    BY <1>4, TaskElsewhere
  <2> QED BY <1>1, <2>1 DEF LoadsKept, Holding
<1> QED BY <1>2, <1>3, <1>4

LEMMA LoadsStay ==
    ASSUME SharedOK, UserOK, LoadsKept, ModeKept, [Next]_vars
    PROVE  LoadsKept'
<1>1. CASE Task BY <1>1, TaskKeepsLoads
<1>2. CASE UserStore
  <2>1. ~user'.loaded /\ user'.load = {} BY <1>2, UserStoreIs DEF Moves, UserOK
  <2>2. user.loaded /\ flags \subseteq user.load /\ task' = task
    BY <1>2 DEF UserStore, LoadsKept
  <2>3. CASE flags' = user.load \cup {"info"} BY <2>1, <2>2, <2>3 DEF LoadsKept, Holding
  <2>4. CASE Opening
    <3>1. task.load = {} BY <2>4, NothingLoaded
    <3> QED BY <2>1, <2>2, <3>1 DEF LoadsKept, Holding
  <2>5. CASE user.steps = <<"and", "status">> /\ flags' = user.load \ {BitOf(user.for # "on")}
    <3>1. ~Opening BY <2>5 DEF Opening
    <3>2. (~Wanted) <=> (user.for # "on") BY <2>5 DEF Wanted
    <3>3. BitOf(~Wanted) = BitOf(user.for # "on") BY <3>2 DEF BitOf
    <3>4. BitOf(~Wanted) \notin flags BY <3>1 DEF ModeKept, Opening
    <3> QED BY <2>1, <2>2, <2>5, <3>3, <3>4 DEF LoadsKept, Holding
  <2> QED BY <1>2, <2>3, <2>4, <2>5, UserStoreIs DEF Moves, Opening
<1>3. CASE UserLoad
  <2>1. user'.load = flags /\ flags' = flags /\ task' = task /\ user'.loaded
    BY <1>3 DEF UserLoad, UserOK, settings
  <2> QED BY <2>1 DEF LoadsKept, Holding
<1>4. CASE Call
  <2>1. user'.load = user.load /\ user'.loaded = user.loaded /\ flags' = flags /\ task' = task
    BY <1>4 DEF Call, UserOK, settings
  <2> QED BY <2>1 DEF LoadsKept, Holding
<1>5. CASE UserWrite \/ UserLink \/ UserStatus
  <2>1. flags' = flags /\ task' = task BY <1>5 DEF UserWrite, UserLink, UserStatus, settings
  <2>2. ~user'.loaded /\ user'.load = {}
    <3>1. CASE UserWrite BY <3>1, UserWriteIs DEF Moves, UserOK
    <3>2. CASE UserLink \/ UserStatus BY <3>2, UserEnds DEF Nobody
    <3> QED BY <1>5, <3>1, <3>2
  <2> QED BY <2>1, <2>2 DEF LoadsKept, Holding
<1>6. CASE PhyLink \/ SocketInterrupt \/ Elapse \/ UNCHANGED vars
  <2>1. flags' = flags /\ task' = task /\ user' = user
    BY <1>6 DEF PhyLink, SocketInterrupt, Elapse, vars, settings
  <2> QED BY <2>1 DEF LoadsKept, Holding
<1> QED BY <1>1, <1>2, <1>3, <1>4, <1>5, <1>6 DEF Next, User

\* While the thread stands still the mode wanted is what it was.
LEMMA WantedSame ==
    ASSUME user'.steps = user.steps, user'.for = user.for, shownDhcp' = shownDhcp
    PROVE  /\ Wanted' <=> Wanted
           /\ BitOf(Wanted)' = BitOf(Wanted) /\ BitOf(~Wanted)' = BitOf(~Wanted)
           /\ Opening' <=> Opening
  BY DEF Wanted, BitOf, Opening

LEMMA TaskKeepsMode ==
    ASSUME SharedOK, LoadsKept, ModeKept, Task
    PROVE  ModeKept'
<1>0. task \in TaskType BY DEF SharedOK
<1>1. user' = user BY UserAlone
<1>2. shownDhcp' = shownDhcp
  <2>1. CASE NetWorkInit
    BY <2>1 DEF NetWorkInit, Flags, Test, TakeInfo, TakeEnable, TakeDisable, Lease, Link, NextStep,
                DhcpRun, SetNetInfo, Show, ShowLink, SetMasks, device
  <2>2. CASE Reset \/ Due \/ NotDue \/ Event \/ Drain \/ Handle
    BY <2>2 DEF Reset, Due, NotDue, Event, Drain, Handle, device
  <2> QED BY <2>1, <2>2 DEF Task
<1>3. flags' \subseteq flags BY TaskKeepsLoads
<1>4. CASE Opening
  <2>1. Opening' BY <1>1, <1>4 DEF Opening
  <2>2. flags' = {} /\ user'.load = {} BY <1>1, <1>3, <1>4, NothingLoaded
  <2> QED BY <2>1, <2>2 DEF ModeKept, Opening
<1>5. CASE ~Opening
  <2> DEFINE want  == BitOf(Wanted)
             other == BitOf(~Wanted)
  <2>1. other \notin flags /\ other \notin user.load
    BY <1>5 DEF ModeKept, Opening
  <2>2. (dhcp <=> Wanted) \/ (want \in flags /\ (Holding => want \in task.load))
    BY <1>5 DEF ModeKept, Opening
  <2>3. /\ Wanted' <=> Wanted
        /\ want' = want /\ other' = other /\ ~Opening'
    BY <1>1, <1>2, <1>5, WantedSame
  <2>4. want # "info" BY DEF BitOf
  <2>5. SUFFICES (dhcp' <=> Wanted) \/ (want \in flags' /\ (Holding' => want \in task'.load))
    BY <1>1, <1>3, <2>1, <2>3 DEF ModeKept, Opening
  <2> HIDE DEF want, other
  <2>6. CASE TestsFlag
    BY <1>0, <2>2, <2>6 DEF TestsFlag, Test, At, settings, Holding, TaskType
  <2>7. CASE TakeInfo
    <3>1. Holding /\ flags' = task.load \ {"info"} /\ dhcp' = dhcp /\ ~Holding'
      BY <1>0, <2>7 DEF TakeInfo, At, Store, Holding, TaskType
    <3> QED BY <2>2, <2>4, <3>1
  <2>8. CASE TakeEnable
    <3>1. "enable" \in flags BY <2>8 DEF TakeEnable, At, LoadsKept
    <3>2. other # "enable" BY <2>1, <3>1
    <3>3. Wanted BY <3>2 DEF other, BitOf
    <3> QED BY <2>8, <3>3 DEF TakeEnable
  <2>9. CASE TakeDisable
    <3>1. "disable" \in flags BY <2>9 DEF TakeDisable, At, LoadsKept
    <3>2. other # "disable" BY <2>1, <3>1
    <3>3. ~Wanted BY <3>2 DEF other, BitOf
    <3> QED BY <2>9, <3>3 DEF TakeDisable
  <2>10. CASE ~TestsFlag /\ ~TakesFlag
    BY <2>2, <2>10, TaskElsewhere
  <2> QED BY <2>6, <2>7, <2>8, <2>9, <2>10 DEF TakesFlag
<1> QED BY <1>4, <1>5

LEMMA UserKeepsMode ==
    ASSUME SharedOK, UserOK, LoadsKept, ModeKept, User, ~hurried'
    PROVE  ModeKept'
<1>0. \A a, b, c \in {"or", "and", "write", "link", "status"} :
        /\ <<a, b, c>> # <<>> /\ <<a, b>> # <<>> /\ <<a>> # <<>>
        /\ <<a, b>> # <<"or", "and", "status">> /\ <<a>> # <<"or", "and", "status">>
        /\ <<a, b, c>> # <<"and", "status">> /\ <<a>> # <<"and", "status">>
        /\ <<a, b, c>> # <<"status">> /\ <<a, b>> # <<"status">>
  OBVIOUS
<1>1. task' = task BY DEF User, Call, UserLoad, UserStore, UserWrite, UserLink, UserStatus
<1>2. Holding' <=> Holding BY <1>1 DEF Holding
<1>3. dhcp' = dhcp
  BY DEF User, Call, UserLoad, UserStore, UserWrite, UserLink, UserStatus, settings
<1>4. BitOf(Wanted) # BitOf(~Wanted) /\ BitOf(Wanted) # "info" /\ BitOf(~Wanted) # "info"
  BY DEF BitOf
\* It is enough to follow the flags while the mode wanted is the same.
<1>5. ASSUME ~Opening, ~Opening', Wanted' <=> Wanted,
             user'.load \subseteq flags \cup user.load, flags' \subseteq flags \cup user.load \cup {"info"},
             BitOf(Wanted) \in flags => BitOf(Wanted) \in flags'
      PROVE  ModeKept'
  <2>1. BitOf(Wanted)' = BitOf(Wanted) /\ BitOf(~Wanted)' = BitOf(~Wanted)
    BY <1>5 DEF BitOf
  <2>2. /\ BitOf(~Wanted) \notin flags /\ BitOf(~Wanted) \notin user.load
        /\ (dhcp <=> Wanted) \/ (BitOf(Wanted) \in flags /\ (Holding => BitOf(Wanted) \in task.load))
    BY <1>5 DEF ModeKept, Opening
  <2>3. /\ BitOf(~Wanted) \notin flags' /\ BitOf(~Wanted) \notin user'.load
        /\ (dhcp' <=> Wanted) \/ (BitOf(Wanted) \in flags' /\ (Holding' => BitOf(Wanted) \in task'.load))
    BY <1>1, <1>2, <1>3, <1>4, <1>5, <2>2
  <2> QED BY <1>5, <2>1, <2>3 DEF ModeKept, Opening
<1>6. CASE Call
  <2>1. /\ user.steps = <<>> /\ user'.load = user.load /\ flags' = flags /\ shownDhcp' = shownDhcp
    BY <1>6, CallIs DEF Call, UserOK, settings, device
  <2>2. ~Opening /\ (Wanted <=> shownDhcp) BY <1>0, <2>1 DEF Opening, Wanted
  <2>3. CASE hurried' = hurried /\ user'.steps \in {<<"or", "write", "link">>, <<"write", "or", "link">>}
    <3>1. ~Opening' /\ (Wanted' <=> shownDhcp) BY <1>0, <2>1, <2>3 DEF Opening, Wanted
    <3> QED BY <1>5, <2>1, <2>2, <3>1
  <2>4. CASE hurried' = (hurried \/ flags # {}) /\ user'.steps = <<"or", "and", "status">>
    <3>1. flags = {} /\ ~user.loaded BY <1>6, <2>4, CallIs
    <3>2. user'.load = {} BY <2>1, <3>1 DEF LoadsKept
    <3> QED BY <2>1, <2>4, <3>1, <3>2 DEF ModeKept
  <2>5. \/ hurried' = hurried /\ user'.steps \in {<<"or", "write", "link">>, <<"write", "or", "link">>}
        \/ hurried' = (hurried \/ flags # {}) /\ user'.steps = <<"or", "and", "status">>
    BY <1>6, CallIs DEF UserOK
  <2> QED BY <2>3, <2>4, <2>5
<1>7. CASE UserLoad
  <2>1. /\ user'.steps = user.steps /\ user'.for = user.for /\ user'.load = flags
        /\ flags' = flags /\ shownDhcp' = shownDhcp
    BY <1>7 DEF UserLoad, UserOK, settings, device
  <2>2. (Wanted' <=> Wanted) /\ (Opening' <=> Opening) BY <2>1, WantedSame
  <2>3. CASE Opening BY <2>1, <2>2, <2>3 DEF ModeKept, Opening
  <2> QED BY <1>5, <2>1, <2>2, <2>3
<1>8. CASE UserStore
  <2>1. flags \subseteq user.load /\ shownDhcp' = shownDhcp
    BY <1>8 DEF UserStore, LoadsKept, device
  <2>2. CASE Moves(<<"or", "link">>, <<"link">>) /\ flags' = user.load \cup {"info"}
    <3>1. user.steps = <<"or", "link">> /\ user'.steps = <<"link">> /\ user'.load = {}
      BY <2>2 DEF Moves, UserOK
    <3>2. ~Opening /\ ~Opening' /\ (Wanted <=> shownDhcp) /\ (Wanted' <=> shownDhcp)
      BY <2>1, <3>1 DEF Opening, Wanted
    <3> QED BY <1>5, <2>1, <2>2, <3>1, <3>2
  <2>3. CASE Moves(<<"or", "write", "link">>, <<"write", "link">>) /\ flags' = user.load \cup {"info"}
    <3>1. user.steps = <<"or", "write", "link">> /\ user'.steps = <<"write", "link">> /\ user'.load = {}
      BY <2>3 DEF Moves, UserOK
    <3>2. ~Opening /\ ~Opening' /\ (Wanted <=> shownDhcp) /\ (Wanted' <=> shownDhcp)
      BY <2>1, <3>1 DEF Opening, Wanted
    <3> QED BY <1>5, <2>1, <2>3, <3>1, <3>2
  <2>4. CASE /\ Moves(<<"or", "and", "status">>, <<"and", "status">>)
             /\ flags' = user.load \cup {BitOf(user.for = "on")}
    <3>1. /\ user.steps = <<"or", "and", "status">> /\ user'.steps = <<"and", "status">>
          /\ user'.load = {} /\ user'.for = user.for
      BY <2>4 DEF Moves, UserOK
    <3>2. ~Opening' /\ (Wanted' <=> (user.for = "on")) BY <3>1 DEF Opening, Wanted
    <3>3. user.load = {} /\ ~Holding BY <3>1, NothingLoaded DEF Opening
    <3>4. flags' = {BitOf(Wanted)'} BY <2>4, <3>2, <3>3 DEF BitOf
    <3>5. BitOf(Wanted)' # BitOf(~Wanted)' BY DEF BitOf
    <3> QED BY <1>2, <3>1, <3>2, <3>3, <3>4, <3>5 DEF ModeKept, Opening
  <2>5. CASE /\ Moves(<<"and", "status">>, <<"status">>)
             /\ flags' = user.load \ {BitOf(user.for # "on")}
    <3>1. /\ user.steps = <<"and", "status">> /\ user'.steps = <<"status">>
          /\ user'.load = {} /\ user'.for = user.for
      BY <2>5 DEF Moves, UserOK
    <3>2. ~Opening /\ ~Opening' /\ (Wanted' <=> (user.for = "on")) /\ (Wanted <=> (user.for = "on"))
      BY <3>1 DEF Opening, Wanted
    <3>3. BitOf(user.for # "on") = BitOf(~Wanted) BY <3>2 DEF BitOf
    <3>4. BitOf(Wanted) \in flags => BitOf(Wanted) \in flags'
      BY <1>4, <2>1, <2>5, <3>3
    <3> QED BY <1>5, <2>5, <3>1, <3>2, <3>4
  <2> QED BY <1>8, <2>2, <2>3, <2>4, <2>5, UserStoreIs
<1>9. CASE UserWrite \/ UserLink
  <2>1. flags' = flags /\ shownDhcp' = shownDhcp
    BY <1>9 DEF UserWrite, UserLink, settings, device
  <2>2. /\ ~Opening /\ ~Opening' /\ (Wanted <=> shownDhcp) /\ (Wanted' <=> shownDhcp')
        /\ user'.load = {}
    <3>1. CASE UserLink
      <4>1. user.steps = <<"link">> /\ user'.steps = <<>> /\ user'.load = {}
        BY <3>1, UserEnds DEF Nobody
      <4> QED BY <1>0, <4>1 DEF Opening, Wanted
    <3>2. CASE UserWrite
      <4>1. /\ user.steps \in {<<"write", "or", "link">>, <<"write", "link">>}
            /\ user'.steps \in {<<"or", "link">>, <<"link">>} /\ user'.load = {}
        BY <3>2, UserWriteIs DEF Moves, UserOK
      <4> QED BY <4>1 DEF Opening, Wanted
    <3> QED BY <1>9, <3>1, <3>2
  <2> QED BY <1>5, <2>1, <2>2
<1>10. CASE UserStatus
  <2>1. flags' = flags /\ (shownDhcp' <=> (user.for = "on")) BY <1>10 DEF UserStatus, settings
  <2>2. user.steps = <<"status">> /\ user'.steps = <<>> /\ user'.load = {}
    BY <1>10, UserEnds DEF Nobody
  <2>3. ~Opening /\ ~Opening' /\ (Wanted <=> (user.for = "on")) /\ (Wanted' <=> shownDhcp')
    BY <1>0, <2>2 DEF Opening, Wanted
  <2> QED BY <1>5, <2>1, <2>2, <2>3
<1> QED BY <1>6, <1>7, <1>8, <1>9, <1>10 DEF User

\* The DHCP mode the device shows is the one the task follows once both are at
\* rest, for every interleaving of the loads and stores of netDevFlag by the task
\* and by RyanW5500NetdevSetDhcp and the other setters, as long as the mode is only
\* switched when earlier settings have been taken over.
THEOREM ModeAlwaysTakenOver == Spec => []ModeTakenOver
<1>1. ModeInv => ModeTakenOver
  <2> SUFFICES ASSUME ModeInv, Quiet, ~hurried PROVE shownDhcp = dhcp
    BY DEF ModeTakenOver
  <2>1. user.steps = <<>> /\ flags = {} BY DEF Quiet
  <2>2. <<>> # <<"or", "and", "status">> /\ <<>> # <<"and", "status">> /\ <<>> # <<"status">>
    OBVIOUS
  <2>3. Wanted <=> shownDhcp BY <2>1, <2>2 DEF Wanted
  <2>4. dhcp <=> Wanted BY <2>1, <2>2 DEF ModeInv, ModeKept
  <2>5. dhcp \in BOOLEAN /\ shownDhcp \in BOOLEAN BY DEF ModeInv, Basics, TypeOK
  <2> QED BY <2>3, <2>4, <2>5
<1>2. Init => ModeInv
  <2> SUFFICES ASSUME Init PROVE ModeInv
    OBVIOUS
  <2>1. LoadsKept BY DEF Init, LoadsKept, Nobody
  <2>2. user.steps = <<>> /\ user.load = {} /\ flags = {} BY DEF Init, Nobody
  <2>3. <<>> # <<"or", "and", "status">> /\ <<>> # <<"and", "status">> /\ <<>> # <<"status">>
    OBVIOUS
  <2>4. dhcp <=> Wanted BY <2>2, <2>3 DEF Init, Wanted
  <2>5. ModeKept BY <2>2, <2>3, <2>4 DEF ModeKept
  <2> QED BY <2>1, <2>5, BasicsStart DEF ModeInv
<1>3. ModeInv /\ [Next]_vars => ModeInv'
  <2> SUFFICES ASSUME ModeInv, [Next]_vars PROVE ModeInv'
    OBVIOUS
  <2>1. SharedOK /\ UserOK BY TypesSplit DEF ModeInv, Basics
  <2>2. Basics' BY BasicsStay DEF ModeInv
  <2> SUFFICES ASSUME ~hurried' PROVE LoadsKept' /\ ModeKept'
    BY <2>2 DEF ModeInv
  <2>3. ~hurried
    <3>1. CASE NetWorkInit
      BY <3>1 DEF NetWorkInit, Flags, Test, TakeInfo, TakeEnable, TakeDisable, Lease, Link, NextStep,
                  DhcpRun, SetNetInfo, Show, ShowLink, SetMasks, ghosts
    <3>2. CASE Reset \/ Due \/ NotDue \/ Event \/ Drain \/ Handle
      BY <3>2 DEF Reset, Due, NotDue, Event, Drain, Handle, ghosts
    <3>3. CASE User
      BY <3>3 DEF User, Call, UserLoad, UserStore, UserWrite, UserLink, UserStatus, ghosts
    <3>4. CASE PhyLink \/ SocketInterrupt \/ Elapse \/ UNCHANGED vars
      BY <3>4 DEF PhyLink, SocketInterrupt, Elapse, vars, ghosts
    <3> QED BY <3>1, <3>2, <3>3, <3>4 DEF Next, Task
  <2>4. LoadsKept /\ ModeKept BY <2>3 DEF ModeInv
  <2>5. LoadsKept' BY <2>1, <2>4, LoadsStay
  <2>6. ModeKept'
    <3>1. CASE Task BY <2>1, <2>4, <3>1, TaskKeepsMode
    <3>2. CASE User BY <2>1, <2>4, <3>2, UserKeepsMode
    <3>3. CASE PhyLink \/ SocketInterrupt \/ Elapse \/ UNCHANGED vars
      <4>1. UNCHANGED <<flags, dhcp, task, user, shownDhcp>>
        BY <3>3 DEF PhyLink, SocketInterrupt, Elapse, vars, settings, device
      <4> QED BY <2>4, <4>1 DEF ModeKept, Wanted, BitOf, Holding
    <3> QED BY <3>1, <3>2, <3>3 DEF Next
  <2> QED BY <2>5, <2>6
<1> QED BY <1>1, <1>2, <1>3, PTL DEF Spec
=============================================================================
