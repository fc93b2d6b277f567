----------------------------- MODULE LedBlinker -----------------------------
(***************************************************************************)
(* The LED blinker (firmware/src/tasks/led_blinker.rs) and what is sent to *)
(* it: patterns by the state machine, overrides and the brightness by the  *)
(* I2C task.  The overrides of the five LEDs are set, faded and cleared    *)
(* together and their four components are faded alike; one alpha stands    *)
(* for them all.  What a pattern looks like is left out.                   *)
(***************************************************************************)
EXTENDS Integers, Sequences

CONSTANTS
  States,         \* states whose entry action sets a pattern
  CoOp,           \* OperationalCoOp
  Alarm,          \* the overvoltage pattern
  Commands,       \* [alpha, ms] of register 0x60
  Brightnesses,
  Room,           \* of LED_BLINKER_EVENT_CHANNEL
  Timeout,        \* OVERRIDE_TIMEOUT_MS, in frames
  Late            \* how many frames one may take longer

MaxAlpha == 255
MaxMs == 65535      \* a u16
FrameMs == 10

ASSUME ConstantsAssumption ==
  /\ CoOp \in States /\ Alarm \notin States
  /\ Commands \subseteq [alpha : 0 .. MaxAlpha, ms : 0 .. MaxMs]
  /\ Room \in Nat \ {0} /\ Timeout \in Nat /\ Late \in Nat

VARIABLES
  queue,       \* LED_BLINKER_EVENT_CHANNEL
  phase,       \* of the LED task: "receive" or "update"
  pattern,     \* the base pattern
  fade,        \* LedOverride: start, target, remaining, total
  age,         \* frames since last_override_tick, or NotSet
  brightness,  \* of the LED task
  setting,     \* led_brightness of RUNTIME_CONFIG
  state,       \* the state of the machine
  recorded,    \* STATE_MACHINE_STATE
  alarmed,     \* vscap_alarm_active
  machine,     \* the event the state machine is sending, or Nothing
  i2c          \* the event the I2C task is sending, or Nothing

led == <<phase, pattern, fade, age, brightness>>
host == <<setting, i2c>>
power == <<state, recorded, alarmed, machine>>
vars == <<queue, led, host, power>>

Nothing == [kind |-> "nothing"]
NotSet == -1

\* LEDBlinkerEvents.  AddModifier is sent by nobody.
SetPattern(p) == [kind |-> "pattern", pattern |-> p]
SetBrightness(b) == [kind |-> "brightness", brightness |-> b]
SetOverrides(c) == [kind |-> "overrides", alpha |-> c.alpha, ms |-> c.ms]
Patterns == {SetPattern(p) : p \in States \union {Alarm}}
Requests == {SetBrightness(b) : b \in Brightnesses} \union {SetOverrides(c) : c \in Commands}

Cleared == [start |-> 0, target |-> 0, remaining |-> 0, total |-> 0]

Init ==
  /\ queue = <<>> /\ phase = "receive"
  /\ fade = Cleared /\ age = NotSet
  /\ state \in States /\ recorded = state /\ pattern = state /\ alarmed = FALSE
  /\ setting \in Brightnesses /\ brightness = setting
  /\ machine = Nothing /\ i2c = Nothing

----------------------------------------------------------------------------
(* A fade *)

Min2(a, b) == IF a < b THEN a ELSE b
Max2(a, b) == IF a > b THEN a ELSE b
\* i32 division rounds towards zero.
Quotient(a, b) == IF a >= 0 THEN a \div b ELSE -((-a) \div b)

interpolate(start, end, elapsed, total) ==
  IF total = 0 THEN end
  ELSE Max2(0, Min2(255, start + Quotient((end - start) * elapsed, total)))

Current(f) == interpolate(f.start, f.target, f.total - f.remaining, f.total)

\* Mutant: what remains of a fade is not kept from falling below zero.
advance_unsaturated(f) == [f EXCEPT !.remaining = IF @ > 0 THEN @ - FrameMs ELSE @]

advance(f) == [f EXCEPT !.remaining = Max2(0, @ - FrameMs)]

\* Mutant: a new fade starts from the last target, reached or not.
set_target_jumps(f, c) ==
  IF c.ms \div FrameMs = 0
  THEN [start |-> c.alpha, target |-> c.alpha, remaining |-> 0, total |-> 0]
  ELSE [start |-> f.target, target |-> c.alpha, remaining |-> c.ms, total |-> c.ms]

set_target(f, c) ==
  IF c.ms \div FrameMs = 0
  THEN [start |-> c.alpha, target |-> c.alpha, remaining |-> 0, total |-> 0]
  ELSE [start |-> Current(f), target |-> c.alpha, remaining |-> c.ms, total |-> c.ms]

----------------------------------------------------------------------------
(* The LED task *)

\* Mutant: the newest event first.
TakeNewest ==
  /\ queue # <<>>
  /\ queue' = SubSeq(queue, 1, Len(queue) - 1)
  /\ LET event == queue[Len(queue)] IN
       /\ pattern' = IF event.kind = "pattern" THEN event.pattern ELSE pattern
       /\ brightness' = IF event.kind = "brightness" THEN event.brightness ELSE brightness
       /\ fade' = CASE event.kind = "pattern" -> Cleared
                    [] event.kind = "overrides" -> set_target(fade, event)
                    [] OTHER -> fade
       /\ age' = CASE event.kind = "pattern" -> NotSet
                   [] event.kind = "overrides" -> 0
                   [] OTHER -> age

\* One event; a pattern clears the overrides.
Take ==
  /\ queue # <<>>
  /\ queue' = Tail(queue)
  /\ LET event == Head(queue) IN
       /\ pattern' = IF event.kind = "pattern" THEN event.pattern ELSE pattern
       /\ brightness' = IF event.kind = "brightness" THEN event.brightness ELSE brightness
       /\ fade' = CASE event.kind = "pattern" -> Cleared
                    [] event.kind = "overrides" -> set_target(fade, event)
                    [] OTHER -> fade
       /\ age' = CASE event.kind = "pattern" -> NotSet
                   [] event.kind = "overrides" -> 0
                   [] OTHER -> age

Receive ==
  /\ phase = "receive" /\ phase' = "update"
  /\ \/ Take
     \/ queue = <<>> /\ UNCHANGED <<queue, pattern, fade, age, brightness>>
  /\ UNCHANGED <<host, power>>

\* Mutant: every frame that shows the overrides counts as an update of them.
apply_overrides_refreshed(now) ==
  IF now > Timeout THEN fade' = Cleared /\ age' = NotSet
  ELSE fade' = advance(fade) /\ age' = 0

\* At now frames since the overrides were set.
apply_overrides(now) ==
  IF now > Timeout THEN fade' = Cleared /\ age' = NotSet
  ELSE fade' = advance(fade) /\ age' = now

\* The next tick of the frame clock.  Writing the LEDs, and INPUTS for the
\* bar, may make it late.
Update ==
  /\ phase = "update" /\ phase' = "receive"
  /\ IF age = NotSet THEN UNCHANGED <<fade, age>>
     ELSE \E late \in 0 .. Late : apply_overrides(age + 1 + late)
  /\ UNCHANGED <<queue, pattern, brightness, host, power>>

----------------------------------------------------------------------------
(* The state machine and the I2C task *)

\* An entry action sends the pattern; the state is recorded after it.
Transition(s) ==
  /\ machine = Nothing /\ s # state
  /\ state' = s /\ machine' = SetPattern(s)
  /\ UNCHANGED <<queue, led, host, recorded, alarmed>>

Overvoltage ==
  /\ machine = Nothing /\ ~alarmed
  /\ alarmed' = TRUE /\ machine' = SetPattern(Alarm)
  /\ UNCHANGED <<queue, led, host, state, recorded>>

MachineSends ==
  /\ machine # Nothing /\ Len(queue) < Room
  /\ queue' = Append(queue, machine)
  /\ machine' = Nothing /\ recorded' = state
  /\ UNCHANGED <<led, host, state, alarmed>>

\* Mutant: overrides are taken in every state.
I2cOverridesAnyState(c) ==
  /\ i2c = Nothing
  /\ i2c' = SetOverrides(c)
  /\ UNCHANGED <<queue, led, setting, power>>

I2cOverrides(c) ==
  /\ i2c = Nothing /\ recorded = CoOp
  /\ i2c' = SetOverrides(c)
  /\ UNCHANGED <<queue, led, setting, power>>

\* set_led_brightness: the setting first.
I2cBrightness(b) ==
  /\ i2c = Nothing
  /\ setting' = b /\ i2c' = SetBrightness(b)
  /\ UNCHANGED <<queue, led, power>>

I2cSends ==
  /\ i2c # Nothing /\ Len(queue) < Room
  /\ queue' = Append(queue, i2c) /\ i2c' = Nothing
  /\ UNCHANGED <<led, setting, power>>

Next ==
  \/ Receive \/ Update
  \/ Overvoltage \/ MachineSends \/ I2cSends
  \/ \E s \in States : Transition(s)
  \/ \E c \in Commands : I2cOverrides(c)
  \/ \E b \in Brightnesses : I2cBrightness(b)

Spec == Init /\ [][Next]_vars

\* The frames go on, and a sender gets room if there is room again and again.
Fairness == WF_vars(Receive) /\ WF_vars(Update) /\ SF_vars(MachineSends) /\ WF_vars(I2cSends)
FairSpec == Spec /\ Fairness

----------------------------------------------------------------------------
(* Properties *)

TypeOK ==
  /\ queue \in Seq(Patterns \union Requests) /\ Len(queue) <= Room
  /\ machine \in Patterns \union {Nothing} /\ i2c \in Requests \union {Nothing}
  /\ phase \in {"receive", "update"}
  /\ pattern \in States \union {Alarm} /\ brightness \in Brightnesses
  /\ fade \in [start : 0 .. MaxAlpha, target : 0 .. MaxAlpha,
               remaining : 0 .. MaxMs, total : 0 .. MaxMs]
  /\ fade.remaining <= fade.total /\ age \in NotSet .. Timeout
  /\ setting \in Brightnesses /\ {state, recorded} \subseteq States /\ alarmed \in BOOLEAN

\* Once nothing is under way the LEDs have the brightness of the setting and
\* the pattern of the state, or the alarm's.
LedsFollow ==
  queue = <<>> /\ machine = Nothing /\ i2c = Nothing =>
    /\ brightness = setting
    /\ pattern = state \/ (alarmed /\ pattern = Alarm)

\* "Smooth transitions": an override moves towards its target, never away from
\* it or past it, and a new fade begins where the last one was.
Between(a, x, b) == (a <= x /\ x <= b) \/ (b <= x /\ x <= a)
FadesAreSmooth ==
  [][ age # NotSet /\ age' # NotSet =>
        IF queue' = queue THEN Between(Current(fade), Current(fade'), fade.target)
        ELSE fade.total' > 0 => Current(fade') = Current(fade) ]_<<fade, age>>

\* Behind the pattern of a state that shows no overrides comes at most one override
\* command, the one that had passed the check of the recorded state before; while
\* overrides are shown there, none is left to come.
Behind(i) == \A j \in i + 1 .. Len(queue) : queue[j].kind # "pattern"
Stray == {i \in 1 .. Len(queue) : queue[i].kind = "overrides" /\ Behind(i)}
StrayIsAlone ==
  recorded # CoOp =>
    /\ \A i, j \in Stray : i = j
    /\ i2c.kind = "overrides" => Stray = {}
    /\ age # NotSet /\ Behind(0) => Stray = {} /\ i2c.kind # "overrides"

\* A host that sends no more overrides sees them end.
SilenceEnds == (<>[][\A c \in Commands : ~I2cOverrides(c)]_vars) => <>[](age = NotSet)

\* Overrides that were under way when the machine left OperationalCoOp end as
\* well, whatever the host goes on sending.
StrayOverridesEnd == <>[](state # CoOp) => <>[](age = NotSet)
=============================================================================
