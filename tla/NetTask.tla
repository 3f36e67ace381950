------------------------------- MODULE NetTask -------------------------------
(***************************************************************************)
(* The W5500 task around the sockets: the start of the chip,               *)
(* RyanW5500NetWorkInit once a second, and the wait for socket interrupts; *)
(* against a thread that calls the setters of the network device, which    *)
(* share gWIZNETINFO and RyanW5500Entry.netDevFlag with it without a lock. *)
(*                                                                         *)
(* A load and a store of netDevFlag are two steps, whoever makes them.     *)
(* What DHCP_run does on the wire is in DhcpClient, what a handled         *)
(* interrupt does in ListenPool and RecvPath.                              *)
(***************************************************************************)
EXTENDS Naturals, Sequences

CONSTANTS Values,    \* what a thread may set an address to
          First,     \* the address RyanW5500Init is given
          Sockets,   \* socket numbers
          MaxCalls,  \* bound: calls of the setters
          Env        \* a subset of Behaviours

Behaviours == {"linkAtStart"} \* the PHY may have its link before the task first looks

\* gWIZNETINFO's gw and sn, ip, and dns.
Parts   == {"gw", "ip", "dns"}
Mode    == {"on", "off"}
Known   == Values \cup {First, "zero", "leased"}

ASSUME NetAssumption ==
    /\ MaxCalls \in Nat
    /\ Env \subseteq Behaviours

VARIABLES conf,      \* gWIZNETINFO.gw, .ip and .dns
          dhcp,      \* gWIZNETINFO.dhcp = NETINFO_DHCP
          flags,     \* netDevFlag: a subset of {"info", "enable", "disable"}
          regs,      \* GAR, SIPR and the driver's _DNS_
          masks,     \* SIMR and Sn_IMR let the sockets' interrupts through
          sir,       \* SIR: the sockets with an interrupt
          irq,       \* RyanW5500IRQBit of W5500EventHandle
          phy,       \* PHYCFGR_LNK_ON
          lease,     \* how much of the lease is left: "fresh", "half" (less) or "near" its end
          shown,     \* the addresses of the netdev
          shownDhcp, \* its DHCP status
          shownLink, \* its link status
          task,      \* wizIntDataTask: pc, the flags loaded, MaintainFlag, how the pass
                     \* goes on, SIR as read
          user,      \* the thread that calls a setter: the steps to do, the flags loaded
          calls,     \* calls made
          booted,    \* ghost: the settings have been on their way to the chip once
          hurried    \* ghost: DHCP was switched while an earlier setting was still pending

device   == <<shown, shownDhcp, shownLink>>
chip     == <<regs, masks, sir, phy>>
settings == <<conf, dhcp, flags>>
ghosts   == <<calls, booted, hurried>>
vars     == <<settings, chip, irq, lease, device, task, user, ghosts>>

PCs == {"reset", "due", "flags", "info", "cleared", "enable", "enabled", "disable", "disabled",
        "lease", "link", "next", "dhcp", "gw", "ip", "dns", "show", "showlink", "masks",
        "event", "drain", "handle"}

Nobody   == [steps |-> <<>>, for |-> "ip", value |-> First, loaded |-> FALSE, load |-> {}]

At(pc)   == task.pc = pc
Goto(pc) == task' = [task EXCEPT !.pc = pc]

-----------------------------------------------------------------------------
(* wizIntDataTask: start and RyanW5500NetWorkInit                          *)

\* The chip answers with the timeouts written to it; until then the task resets
\* it every two seconds.  netWorkTimer starts run down.
Reset ==
    /\ At("reset")
    /\ Goto("flags")
    /\ UNCHANGED <<settings, chip, irq, lease, device, user, ghosts>>

\* netWorkTimer, a second after the last pass.
Due ==
    /\ At("due")
    /\ Goto("flags")
    /\ UNCHANGED <<settings, chip, irq, lease, device, user, ghosts>>

NotDue ==
    /\ At("due")
    /\ Goto("event")
    /\ UNCHANGED <<settings, chip, irq, lease, device, user, ghosts>>

Flags ==
    /\ At("flags")
    /\ Goto(IF flags = {} THEN "lease" ELSE "info")
    /\ UNCHANGED <<settings, chip, irq, lease, device, user, ghosts>>

\* One test of the flags: netDevFlag is loaded.
Test(pc, bit, set, clear) ==
    /\ At(pc)
    /\ task' = IF bit \in flags THEN [task EXCEPT !.pc = set, !.load = flags]
                                ELSE [task EXCEPT !.pc = clear]
    /\ UNCHANGED <<settings, chip, irq, lease, device, user, ghosts>>

\* ... and stored without the bit.
Store(bit) == flags' = task.load \ {bit}

\* The sockets are closed (ListenPool).
TakeInfo ==
    /\ At("cleared")
    /\ Store("info")
    /\ task' = [task EXCEPT !.pc = "enable", !.load = {}]
    /\ UNCHANGED <<conf, dhcp, chip, irq, lease, device, user, ghosts>>

TakeEnable ==
    /\ At("enabled")
    /\ Store("enable")
    /\ dhcp' = TRUE
    /\ task' = [task EXCEPT !.pc = "disable", !.load = {}]
    /\ UNCHANGED <<conf, chip, irq, lease, device, user, ghosts>>

\* Mutant of TakeDisable: the mode is left.
TakeDisableUnset ==
    /\ At("disabled")
    /\ Store("disable")
    /\ task' = [task EXCEPT !.pc = "next", !.load = {}]
    /\ UNCHANGED <<conf, dhcp, chip, irq, lease, device, user, ghosts>>

TakeDisable ==
    /\ At("disabled")
    /\ Store("disable")
    /\ dhcp' = FALSE
    /\ task' = [task EXCEPT !.pc = "next", !.load = {}]
    /\ UNCHANGED <<conf, chip, irq, lease, device, user, ghosts>>

\* Nothing set: the lease, if there is one.
Lease ==
    /\ At("lease")
    /\ IF dhcp /\ lease # "fresh"
       THEN task' = [task EXCEPT !.pc = "next", !.maintain = (lease = "half")]
       ELSE Goto("link")
    /\ UNCHANGED <<settings, chip, irq, lease, device, user, ghosts>>

\* Mutant of Link: a link that is up needs no update.
LinkUnshown ==
    /\ At("link")
    /\ Goto(IF phy THEN "event" ELSE "next")
    /\ UNCHANGED <<settings, chip, irq, lease, device, user, ghosts>>

\* The device as shown agrees with the PHY; or it is only to be shown; or the link
\* is lost and everything is set anew.
Link ==
    /\ At("link")
    /\ \/ phy /\ shownLink /\ Goto("event")
       \/ phy /\ ~shownLink /\ task' = [task EXCEPT !.pc = "show", !.result = "shown"]
       \/ ~phy /\ Goto("next")
    /\ UNCHANGED <<settings, chip, irq, lease, device, user, ghosts>>

NextStep ==
    /\ At("next")
    /\ booted' = TRUE
    /\ Goto(IF dhcp THEN "dhcp" ELSE "gw")
    /\ conf' = IF dhcp /\ ~task.maintain THEN [p \in Parts |-> "zero"] ELSE conf
    /\ UNCHANGED <<dhcp, flags, chip, irq, lease, device, user, calls, hurried>>

Back(result) == task' = [task EXCEPT !.pc = "gw", !.maintain = FALSE, !.result = result]

\* DHCP_run: it fails with what it has got so far, or brings addresses and a lease.
DhcpRun ==
    /\ At("dhcp")
    /\ \E got \in {{}, {"gw", "dns"}, Parts} :
         /\ conf' = [p \in Parts |-> IF p \in got THEN "leased" ELSE conf[p]]
         /\ \/ got = Parts /\ lease' = "fresh" /\ Back("set")
            \/ lease' = (IF task.maintain THEN lease ELSE "near") /\ Back("failed")
    /\ UNCHANGED <<dhcp, flags, chip, irq, device, user, ghosts>>

\* wizchip_setnetinfo, register by register.
SetNetInfo(p, next) ==
    /\ At(p)
    /\ regs' = [regs EXCEPT ![p] = conf[p]]
    /\ Goto(next)
    /\ UNCHANGED <<settings, masks, sir, phy, irq, lease, device, user, ghosts>>

\* RyanW5500NetDevInfoUpdate: the addresses ...
Show ==
    /\ At("show")
    /\ shown' = regs
    /\ Goto("showlink")
    /\ UNCHANGED <<settings, chip, irq, lease, shownDhcp, shownLink, user, ghosts>>

\* Where NetWorkInit goes on from there.
Onward == [set |-> "masks", shown |-> "event", failed |-> "flags"]

\* ... and the link.  Without an address the task tries again after a second; the
\* sockets' interrupts wait.
ShowLink ==
    /\ At("showlink")
    /\ shownLink' = phy
    /\ task' = [task EXCEPT !.pc = Onward[task.result], !.result = "set"]
    /\ UNCHANGED <<settings, chip, irq, lease, shown, shownDhcp, user, ghosts>>

\* SIMR and Sn_IMR.  A pending interrupt now pulls the pin.
SetMasks ==
    /\ At("masks")
    /\ masks' = TRUE
    /\ irq' = (irq \/ (~masks /\ sir # {}))
    /\ Goto("event")
    /\ UNCHANGED <<settings, regs, sir, phy, lease, device, user, ghosts>>

-----------------------------------------------------------------------------
(* wizIntDataTask: the interrupts                                          *)

\* rt_event_recv for at most a second; the flag is cleared.
Event ==
    /\ At("event")
    /\ irq' = FALSE
    /\ Goto("drain")
    /\ UNCHANGED <<settings, chip, lease, device, user, ghosts>>

\* CW_GET_INTERRUPT, until no socket has one.
Drain ==
    /\ At("drain")
    /\ task' = IF sir = {} THEN [task EXCEPT !.pc = "due"]
                           ELSE [task EXCEPT !.pc = "handle", !.sir = sir]
    /\ UNCHANGED <<settings, chip, irq, lease, device, user, ghosts>>

\* Mutant of After: SIR is read once for every event.
AfterOnce(todo) == IF todo = {} THEN "due" ELSE "handle"

After(todo) == IF todo = {} THEN "drain" ELSE "handle"

\* setSn_IR of one socket after the other.
Handle ==
    /\ At("handle")
    /\ \E s \in task.sir :
         /\ sir' = sir \ {s}
         /\ task' = [task EXCEPT !.sir = @ \ {s}, !.pc = After(task.sir \ {s})]
    /\ UNCHANGED <<settings, regs, masks, phy, irq, lease, device, user, ghosts>>

-----------------------------------------------------------------------------
(* The setters of the network device                                       *)

\* Mutant of SetAddrInfo: the flag first, as in SetDnsServer.
SetAddrInfoFlagged == <<"or", "write", "link">>

\* RyanW5500NetdevSetAddrInfo
SetAddrInfo == <<"write", "or", "link">>

\* RyanW5500NetdevSetDnsServer
SetDnsServer == <<"or", "write", "link">>

\* RyanW5500NetdevSetDhcp
SetDhcp == <<"or", "and", "status">>

\* A call for one part of the addresses, or for the mode.
Call ==
    /\ user.steps = <<>>
    /\ calls < MaxCalls
    /\ calls' = calls + 1
    /\ \/ \E p \in Parts, v \in Values :
            /\ user' = [user EXCEPT !.steps = IF p = "dns" THEN SetDnsServer ELSE SetAddrInfo,
                                    !.for = p, !.value = v]
            /\ UNCHANGED hurried
       \/ \E m \in Mode :
            /\ user' = [user EXCEPT !.steps = SetDhcp, !.for = m]
            /\ hurried' = (hurried \/ flags # {})
    /\ UNCHANGED <<settings, chip, irq, lease, device, task, booted>>

Doing(step) == user.steps # <<>> /\ Head(user.steps) = step
Done        == user' = IF Len(user.steps) = 1 THEN Nobody
                       ELSE [user EXCEPT !.steps = Tail(@), !.loaded = FALSE, !.load = {}]

\* netDevFlag |= ... and netDevFlag &= ~...
Bit == CASE user.for = "on" -> "enable" [] user.for = "off" -> "disable" [] OTHER -> "info"
Other == IF user.for = "on" THEN "disable" ELSE "enable"

UserLoad ==
    /\ Doing("or") \/ Doing("and")
    /\ ~user.loaded
    /\ user' = [user EXCEPT !.loaded = TRUE, !.load = flags]
    /\ UNCHANGED <<settings, chip, irq, lease, device, task, ghosts>>

UserStore ==
    /\ user.loaded
    /\ flags' = IF Doing("or") THEN user.load \cup {Bit} ELSE user.load \ {Other}
    /\ Done
    /\ UNCHANGED <<conf, dhcp, chip, irq, lease, device, task, ghosts>>

UserWrite ==
    /\ Doing("write")
    /\ conf' = [conf EXCEPT ![user.for] = user.value]
    /\ Done
    /\ UNCHANGED <<dhcp, flags, chip, irq, lease, device, task, ghosts>>

UserLink ==
    /\ Doing("link")
    /\ shownLink' = FALSE
    /\ Done
    /\ UNCHANGED <<settings, chip, irq, lease, shown, shownDhcp, task, ghosts>>

UserStatus ==
    /\ Doing("status")
    /\ shownDhcp' = (user.for = "on")
    /\ Done
    /\ UNCHANGED <<settings, chip, irq, lease, shown, shownLink, task, ghosts>>

-----------------------------------------------------------------------------
(* The chip and time                                                       *)

\* The PHY finds or loses its link, which takes longer than the task's start.
PhyLink ==
    /\ booted \/ "linkAtStart" \in Env
    /\ phy' = ~phy
    /\ UNCHANGED <<settings, regs, masks, sir, irq, lease, device, task, user, ghosts>>

\* A socket's interrupt; the pin falls, and RyanW5500IRQCallback is called, only
\* if no other one holds it low.
SocketInterrupt ==
    /\ \E s \in Sockets \ sir : sir' = sir \cup {s}
    /\ irq' = (irq \/ (masks /\ sir = {}))
    /\ UNCHANGED <<settings, regs, masks, phy, lease, device, task, user, ghosts>>

Elapse ==
    /\ lease' = CASE lease = "fresh" -> "half" [] lease = "half" -> "near"
                  [] OTHER -> lease
    /\ lease' # lease
    /\ UNCHANGED <<settings, chip, irq, device, task, user, ghosts>>

-----------------------------------------------------------------------------
Init ==
    /\ conf = [p \in Parts |-> First]
    /\ dhcp \in BOOLEAN /\ flags = {}
    /\ regs = [p \in Parts |-> "zero"] /\ masks = FALSE /\ sir = {} /\ irq = FALSE
    /\ phy = FALSE /\ lease = "near"
    /\ shown = [p \in Parts |-> "zero"] /\ shownDhcp = dhcp /\ shownLink = FALSE
    /\ task = [pc |-> "reset", load |-> {}, maintain |-> FALSE, result |-> "set", sir |-> {}]
    /\ user = Nobody
    /\ calls = 0 /\ booted = FALSE /\ hurried = FALSE

NetWorkInit ==
    \/ Flags
    \/ Test("info", "info", "cleared", "enable") \/ TakeInfo
    \/ Test("enable", "enable", "enabled", "disable") \/ TakeEnable
    \/ Test("disable", "disable", "disabled", "next") \/ TakeDisable
    \/ Lease \/ Link \/ NextStep \/ DhcpRun
    \/ SetNetInfo("gw", "ip") \/ SetNetInfo("ip", "dns") \/ SetNetInfo("dns", "show")
    \/ Show \/ ShowLink \/ SetMasks

Task == Reset \/ Due \/ NotDue \/ NetWorkInit \/ Event \/ Drain \/ Handle
User == Call \/ UserLoad \/ UserStore \/ UserWrite \/ UserLink \/ UserStatus

Next == Task \/ User \/ PhyLink \/ SocketInterrupt \/ Elapse

Spec == Init /\ [][Next]_vars

\* Both threads are scheduled, and netWorkTimer runs down however often the task
\* looks at it too early.
FairSpec == Spec /\ WF_vars(Task) /\ SF_vars(Due) /\ WF_vars(User /\ ~Call)

-----------------------------------------------------------------------------
(* Properties                                                              *)

\* Type invariant of the task and the setters.
TypeOK ==
    /\ conf \in [Parts -> Known] /\ dhcp \in BOOLEAN
    /\ flags \subseteq {"info", "enable", "disable"}
    /\ regs \in [Parts -> Known] /\ masks \in BOOLEAN
    /\ sir \subseteq Sockets /\ irq \in BOOLEAN /\ phy \in BOOLEAN
    /\ lease \in {"fresh", "half", "near"}
    /\ shown \in [Parts -> Known] /\ shownDhcp \in BOOLEAN /\ shownLink \in BOOLEAN
    /\ task \in [pc : PCs, load : SUBSET {"info", "enable", "disable"}, maintain : BOOLEAN,
                 result : {"set", "shown", "failed"}, sir : SUBSET Sockets]
    /\ user.steps \in Seq({"or", "and", "write", "link", "status"})
    /\ user.for \in Parts \cup Mode /\ user.value \in Known
    /\ user.loaded \in BOOLEAN /\ user.load \subseteq {"info", "enable", "disable"}
    /\ calls \in 0 .. MaxCalls /\ booted \in BOOLEAN /\ hurried \in BOOLEAN

\* Nobody is at work and nothing is pending.
Quiet == task.pc \in {"due", "event"} /\ flags = {} /\ user.steps = <<>>

\* However the loads and stores of netDevFlag interleave, an address that was set
\* ends in the chip and in the device as shown: a flag that is lost is lost to a
\* pass that has not written the addresses yet.
AddressTakenOver ==
    Quiet => \A p \in {"gw", "ip"} : regs[p] = conf[p] /\ shown[p] = conf[p]

\* The DHCP mode shown by the device is the one the task follows, as long as DHCP
\* is only switched when earlier settings have been taken over.
ModeTakenOver == Quiet /\ ~hurried => shownDhcp = dhcp

\* A task that waits for an interrupt has not missed the one that is pending: the
\* pin has fallen after the flag was last cleared.
InterruptSeen == At("event") /\ masks /\ sir # {} => irq

\* The types, and no interrupt is missed.
TaskInvariant == TypeOK /\ InterruptSeen

\* The link shown follows the PHY's, whatever was set before, as long as the
\* sockets' interrupts leave the task time to look.
LinkFollows == []<>At("flags") => /\ (<>[]phy) => <>[]shownLink
                                  /\ (<>[]~phy) => <>[]~shownLink
=============================================================================
