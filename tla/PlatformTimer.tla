--------------------------- MODULE PlatformTimer ---------------------------
(***************************************************************************)
(* The countdown timer of src/platform/RT-Thread/platformTimer.c, used by  *)
(* the receive path, the DHCP client, the DNS client and the network task. *)
(* The free-running kernel tick and the uint32_t arithmetic wrap modulo    *)
(* Mod (2^32 in the code); elapsed is a ghost that counts the milliseconds *)
(* which have really passed since the timer was armed.                     *)
(***************************************************************************)
EXTENDS Integers

CONSTANTS Mod,             \* 2^32: one more than UINT32_MAX
          TicksPerSecond,  \* RT_TICK_PER_SECOND
          MsPerSecond,     \* 1000, scaled down together with Mod
          MaxTimeout       \* bound: the longest timeout that is armed

ASSUME ModAssumption == Mod \in Nat \ {0}
ASSUME RateAssumption == /\ TicksPerSecond \in Nat \ {0}
                         /\ MsPerSecond \in Nat \ {0}
ASSUME TimeoutAssumption == MaxTimeout \in 0 .. Mod - 1

VARIABLES tick,     \* rt_tick_get()
          timer,    \* platformTimer_t
          elapsed   \* ghost: milliseconds since platformTimerCutdown

vars == <<tick, timer, elapsed>>

UInt32 == 0 .. Mod - 1

\* One wrap of an unsigned sum of two uint32_t values.
Wrap(x) == IF x >= Mod THEN x - Mod ELSE x

\* platformUptimeMs: the tick itself, or the tick scaled to milliseconds in
\* rt_tick_t arithmetic, whose product wraps before the division.
UptimeMs(t) ==
    IF TicksPerSecond = MsPerSecond
    THEN t
    ELSE ((((t * MsPerSecond) % Mod) + TicksPerSecond - 1) % Mod) \div TicksPerSecond

\* platformTimerCutdown
Cutdown(now, timeout) == [time |-> now, timeOut |-> timeout]

\* Mutants of Remain: the usual comparison that forgets the wrap; and the last
\* branch without its "+ 1".
RemainNoWrap(tm, tnow) ==
    LET overTime == Wrap(tm.time + tm.timeOut)
    IN  IF tnow >= overTime THEN 0 ELSE overTime - tnow

RemainOffByOne(tm, tnow) ==
    LET overTime == Wrap(tm.time + tm.timeOut)
    IN  IF overTime >= tm.time
        THEN IF tnow < tm.time \/ tnow >= overTime THEN 0 ELSE overTime - tnow
        ELSE IF tnow < tm.time
             THEN IF tnow >= overTime THEN 0 ELSE overTime - tnow + 1
             ELSE (Mod - 1) - tnow + overTime

\* platformTimerRemain
Remain(tm, tnow) ==
    LET overTime == Wrap(tm.time + tm.timeOut)
    IN  IF overTime >= tm.time
        THEN IF tnow < tm.time \/ tnow >= overTime THEN 0 ELSE overTime - tnow
        ELSE IF tnow < tm.time
             THEN IF tnow >= overTime THEN 0 ELSE overTime - tnow + 1
             ELSE (Mod - 1) - tnow + overTime + 1

RemainNow == Remain(timer, UptimeMs(tick))

-----------------------------------------------------------------------------
Init == /\ tick \in UInt32
        /\ elapsed = 0
        /\ \E d \in 0 .. MaxTimeout : timer = Cutdown(UptimeMs(tick), d)

\* A caller re-arms the timer.
Arm == /\ \E d \in 0 .. MaxTimeout : timer' = Cutdown(UptimeMs(tick), d)
       /\ elapsed' = 0
       /\ UNCHANGED tick

\* One kernel tick; elapsed < Mod - 1 bounds the time a timer stays unread to
\* one turn of the counter (49.7 days).
MsPerTick == IF TicksPerSecond = MsPerSecond THEN 1 ELSE MsPerSecond \div TicksPerSecond

Tick == /\ elapsed + MsPerTick < Mod
        /\ tick' = Wrap(tick + 1)
        /\ elapsed' = elapsed + MsPerTick
        /\ UNCHANGED timer

Next == Arm \/ Tick

Spec == Init /\ [][Next]_vars

-----------------------------------------------------------------------------
\* Type invariant of the timer.
TypeOK == /\ tick \in UInt32
          /\ timer \in [time : UInt32, timeOut : 0 .. MaxTimeout]
          /\ elapsed \in UInt32

\* The time that is really left.
Left == IF elapsed >= timer.timeOut THEN 0 ELSE timer.timeOut - elapsed

\* A loop that polls platformTimerRemain for 0 leaves neither early nor late,
\* wherever the 32-bit counter wraps between arming and reading.
ExpiresExactly == (RemainNow = 0) <=> (elapsed >= timer.timeOut)

\* The value handed to rt_event_recv as a timeout is the time left, or one more
\* than that (the "+ 1" of the branch where only the present tick has wrapped).
RemainIsLeft == RemainNow \in {Left, Left + (IF Left > 0 THEN 1 ELSE 0)}

\* While a timer counts down its reading never goes up.
RemainNeverGrows == [][elapsed' > elapsed => RemainNow' <= RemainNow]_vars
=============================================================================
