------------------------- MODULE PowerStateMachine -------------------------
(***************************************************************************)
(* The power-management state machine of the HALPI2 controller             *)
(* (firmware/src/tasks/state_machine.rs): the hierarchical machine, the    *)
(* task that feeds it once per ticker period, and the I2C and power-button *)
(* tasks that put events on its channel.                                   *)
(*                                                                         *)
(* Time is counted in units of at least one ticker period.  An Instant is  *)
(* kept as its age, the number of units since it was taken, because the    *)
(* code only ever compares ages with limits; ages stop growing at MaxAge,  *)
(* above every limit.                                                      *)
(***************************************************************************)
EXTENDS Naturals, Sequences

CONSTANTS
  WatchdogTimeouts,  \* nonzero values the host writes to register 0x12
  SoloTimeouts,      \* values the host writes to register 0x19
  ShutdownWait,      \* shutdown_wait_duration_ms
  OffDuration,       \* OFF_STATE_DURATION_MS
  RebootDuration,    \* HOST_WATCHDOG_REBOOT_DURATION_MS
  ChannelCapacity,   \* of STATE_MACHINE_EVENT_CHANNEL
  MaxLag,            \* units that may pass between two handled Tick events
  MaxAge,            \* where ages saturate
  Stimuli            \* what the surroundings do, a subset of AllStimuli

HostCommands == {"Shutdown", "StandbyShutdown", "Off", "SetWatchdogTimeout",
                 "Configure", "Other"}
AllStimuli == HostCommands \union {"PowerButton", "Overvoltage", "Crash"}

ASSUME ConstantsAssumption ==
  /\ WatchdogTimeouts \subseteq Nat \ {0}
  /\ SoloTimeouts \subseteq Nat /\ SoloTimeouts # {}
  /\ ShutdownWait \in Nat /\ OffDuration \in Nat /\ RebootDuration \in Nat
  /\ ChannelCapacity \in Nat \ {0}
  /\ MaxLag \in Nat \ {0}
  /\ MaxAge \in Nat /\ ShutdownWait < MaxAge /\ OffDuration < MaxAge
  /\ \A t \in SoloTimeouts : t < MaxAge
  /\ RebootDuration < MaxAge /\ \A t \in WatchdogTimeouts : RebootDuration + t < MaxAge
  /\ Stimuli \subseteq AllStimuli

Operational == {"OperationalSolo", "OperationalCoOp"}
Blackout    == {"BlackoutSolo", "BlackoutCoOp"}
PoweredOn   == Operational \union Blackout \union {"HostUnresponsive"}
Stopping    == {"ManualShutdown", "BlackoutShutdown", "EnteringStandby"}
PoweredDown == {"PoweredDownManual", "PoweredDownBlackout"}
State == PoweredOn \union Stopping \union PoweredDown
           \union {"PowerOff", "OffCharging", "SystemStartup", "Standby"}

\* States whose entry_time some handler reads.
Timed == {"BlackoutSolo", "HostUnresponsive"} \union Stopping \union PoweredDown
\* Mutant: the entry of PoweredDownBlackout forgets power_off.
RailsCutByCommand == {"PowerOff", "PoweredDownManual"}
\* States whose entry action calls Outputs::power_off.
RailsCut == PoweredDown \union {"PowerOff"}

\* Only SetWatchdogTimeout has a payload, ms; it is 0 for the other events.
Event ==
  [kind : {"Tick", "SupercapOvervoltage", "ComputeModuleOn", "ComputeModuleOff",
           "Shutdown", "StandbyShutdown", "Off", "WatchdogPing", "PowerButtonPress"},
   ms : {0}]
  \union [kind : {"SetWatchdogTimeout"}, ms : WatchdogTimeouts \union {0}]
Ev(kind) == [kind |-> kind, ms |-> 0]

VARIABLES
  state, entry_age, initialized,                          \* the machine
  host_watchdog_timeout_ms, ping_age, vscap_alarm_active, \* its Context
  \* what it drives: the 5V rail (en_3v3 and pcie_sleep change with it), and
  \* what it last asked of the LED, USB and power-button channels
  en_5v, led_pattern, usb_on, double_clicked,
  \* the task: the events of this cycle still to be handled, whether they are
  \* only those drained from the channel so far, the last CM level it saw, and
  \* the time since it last handled a Tick
  events_to_process, drained, prev_cm_on, lag,
  channel,        \* STATE_MACHINE_EVENT_CHANNEL
  ping_owed,      \* the I2C task has yet to queue its command's WatchdogPing
  ping_sent_age,  \* history: time since it last queued one
  \* INPUTS, as the sampling tasks leave it: VIN above the threshold, the
  \* supercap against the power-on and alarm thresholds, the CM 3.3V rail
  vin, vscap, cm_on,
  solo_depleting_timeout_ms, auto_restart  \* of RUNTIME_CONFIG

context == <<host_watchdog_timeout_ms, ping_age, vscap_alarm_active>>
outputs == <<en_5v, led_pattern, usb_on, double_clicked>>
machine == <<state, entry_age, initialized, context, outputs>>
task    == <<events_to_process, drained, prev_cm_on, lag>>
host    == <<channel, ping_owed, ping_sent_age>>
inputs  == <<vin, vscap, cm_on>>
config  == <<solo_depleting_timeout_ms, auto_restart>>
vars    == <<machine, task, host, inputs, config>>

Older(age) == IF age < MaxAge THEN age + 1 ELSE age

----------------------------------------------------------------------------
(* Start-up and reset *)

Init ==
  /\ state = "PowerOff" /\ entry_age = 0 /\ initialized = FALSE
  /\ host_watchdog_timeout_ms = 0 /\ ping_age = 0 /\ vscap_alarm_active = FALSE
  /\ en_5v = FALSE /\ led_pattern = "Dark" /\ usb_on = TRUE /\ double_clicked = FALSE
  /\ events_to_process = <<>> /\ drained = FALSE /\ prev_cm_on = FALSE /\ lag = 0
  /\ channel = <<>> /\ ping_owed = FALSE /\ ping_sent_age = MaxAge
  /\ vin \in BOOLEAN /\ vscap \in {"low", "charged"} /\ cm_on = FALSE
  /\ solo_depleting_timeout_ms \in SoloTimeouts /\ auto_restart \in BOOLEAN

\* SCB::sys_reset does not return: everything in RAM and the pins start again.
Reset ==
  /\ state' = "PowerOff" /\ entry_age' = 0 /\ initialized' = FALSE
  /\ host_watchdog_timeout_ms' = 0 /\ ping_age' = 0 /\ vscap_alarm_active' = FALSE
  /\ en_5v' = FALSE /\ led_pattern' = "Dark" /\ usb_on' = TRUE /\ double_clicked' = FALSE
  /\ events_to_process' = <<>> /\ drained' = FALSE /\ prev_cm_on' = FALSE /\ lag' = 0
  /\ channel' = <<>> /\ ping_owed' = FALSE /\ ping_sent_age' = MaxAge

----------------------------------------------------------------------------
(* The machine.  Each handler is named for its function and says what the  *)
(* event e does to the machine; a superstate's handler is the last case of *)
(* its substates'.                                                         *)

\* The event is done with; the I2C and button tasks have not run.
Consume ==
  /\ events_to_process' = Tail(events_to_process)
  /\ lag' = IF Head(events_to_process).kind = "Tick" THEN 0 ELSE lag
  /\ UNCHANGED <<drained, prev_cm_on, host>>

\* The outcomes Super (with no superstate left) and Handled.
Ignore == UNCHANGED machine

Drive(s) ==
  /\ en_5v' = (s = "SystemStartup" \/ (en_5v /\ s \notin RailsCut))
  /\ usb_on' = (s = "SystemStartup" \/ (usb_on /\ s \notin RailsCut))
  /\ led_pattern' = IF s = "PowerOff" THEN led_pattern ELSE s

\* Mutant: entering solo does not disarm the watchdog.
GotoStillArmed(s, timeout, age) ==
  /\ state' = s /\ entry_age' = 0
  /\ Drive(s)
  /\ host_watchdog_timeout_ms' = timeout /\ ping_age' = age
  /\ UNCHANGED <<initialized, vscap_alarm_active>>

\* Mutant: the timeout is kept one unit too long.
GotoRoundedUp(s, timeout, age) ==
  /\ state' = s /\ entry_age' = 0
  /\ Drive(s)
  /\ host_watchdog_timeout_ms' = IF s = "OperationalSolo" THEN 0 ELSE timeout + 1
  /\ ping_age' = age
  /\ UNCHANGED <<initialized, vscap_alarm_active>>

\* Transition(s), with the entry action of s, once the handler has left the
\* watchdog with timeout and age.
GotoWith(s, timeout, age) ==
  /\ state' = s /\ entry_age' = 0
  /\ Drive(s)
  /\ host_watchdog_timeout_ms' = IF s = "OperationalSolo" THEN 0 ELSE timeout
  /\ ping_age' = age
  /\ UNCHANGED <<initialized, vscap_alarm_active>>

Goto(s) ==
  /\ GotoWith(s, host_watchdog_timeout_ms, ping_age)
  /\ UNCHANGED double_clicked

SetContext(timeout, age, alarm) ==
  /\ host_watchdog_timeout_ms' = timeout
  /\ ping_age' = age
  /\ vscap_alarm_active' = alarm
  /\ UNCHANGED <<state, entry_age, initialized, en_5v, usb_on, double_clicked>>

power_off(e) ==
  /\ state = "PowerOff"
  /\ IF e.kind = "Tick" /\ vin THEN Goto("OffCharging") ELSE Ignore

off_charging(e) ==
  /\ state = "OffCharging"
  /\ CASE e.kind = "Tick" /\ ~vin                    -> Goto("PowerOff")
       [] e.kind = "Tick" /\ vin /\ vscap # "low"    -> Goto("SystemStartup")
       [] OTHER                                      -> Ignore

system_startup(e) ==
  /\ state = "SystemStartup"
  /\ CASE e.kind = "ComputeModuleOn"                 -> Goto("OperationalSolo")
       [] e.kind = "Tick" /\ ~vin                    -> Goto("PowerOff")
       [] OTHER                                      -> Ignore

\* Mutant: pings are not recorded.
powered_on_deaf(e) ==
  CASE e.kind \in {"ComputeModuleOff", "Off"}        -> Goto("PoweredDownManual")
    [] e.kind = "SupercapOvervoltage"                ->
         SetContext(host_watchdog_timeout_ms, ping_age, TRUE)
           /\ led_pattern' = "VscapAlarm"
    [] OTHER                                         -> Ignore

\* Superstates.
powered_on(e) ==
  CASE e.kind \in {"ComputeModuleOff", "Off"}        -> Goto("PoweredDownManual")
    [] e.kind = "WatchdogPing"                       ->
         SetContext(host_watchdog_timeout_ms, 0, vscap_alarm_active)
           /\ UNCHANGED led_pattern
    [] e.kind = "SupercapOvervoltage"                ->
         SetContext(host_watchdog_timeout_ms, ping_age, TRUE)
           /\ led_pattern' = "VscapAlarm"
    [] OTHER                                         -> Ignore

operational(e) ==
  CASE e.kind = "Shutdown"                           -> Goto("ManualShutdown")
    [] e.kind = "StandbyShutdown"                    -> Goto("EnteringStandby")
    [] OTHER                                         -> powered_on(e)

operational_solo(e) ==
  /\ state = "OperationalSolo"
  /\ CASE e.kind = "Tick" /\ ~vin                    -> Goto("BlackoutSolo")
       [] e.kind = "SetWatchdogTimeout" /\ e.ms > 0  ->
            GotoWith("OperationalCoOp", e.ms, 0) /\ UNCHANGED double_clicked
       [] OTHER                                      -> operational(e)

\* Mutant: the watchdog fires at its timeout, not after it.
operational_co_op_early(e) ==
  /\ state = "OperationalCoOp"
  /\ CASE e.kind = "Tick" /\ ~vin                    -> Goto("BlackoutCoOp")
       [] e.kind = "Tick" /\ vin /\ ping_age >= host_watchdog_timeout_ms
                                                     -> Goto("HostUnresponsive")
       [] e.kind = "SetWatchdogTimeout" /\ e.ms = 0  -> Goto("OperationalSolo")
       [] e.kind = "SetWatchdogTimeout" /\ e.ms > 0  ->
            SetContext(e.ms, ping_age, vscap_alarm_active) /\ UNCHANGED led_pattern
       [] OTHER                                      -> operational(e)

operational_co_op(e) ==
  /\ state = "OperationalCoOp"
  /\ CASE e.kind = "Tick" /\ ~vin                    -> Goto("BlackoutCoOp")
       [] e.kind = "Tick" /\ vin /\ ping_age > host_watchdog_timeout_ms
                                                     -> Goto("HostUnresponsive")
       [] e.kind = "SetWatchdogTimeout" /\ e.ms = 0  -> Goto("OperationalSolo")
       [] e.kind = "SetWatchdogTimeout" /\ e.ms > 0  ->
            SetContext(e.ms, ping_age, vscap_alarm_active) /\ UNCHANGED led_pattern
       [] OTHER                                      -> operational(e)

blackout_solo(e) ==
  /\ state = "BlackoutSolo"
  /\ CASE e.kind = "Tick" /\ vin                     -> Goto("OperationalSolo")
       [] e.kind = "Tick" /\ ~vin /\ entry_age > solo_depleting_timeout_ms ->
            /\ GotoWith("BlackoutShutdown", host_watchdog_timeout_ms, ping_age)
            /\ double_clicked' = TRUE
       [] OTHER                                      -> powered_on(e)

blackout_co_op(e) ==
  /\ state = "BlackoutCoOp"
  /\ CASE e.kind = "Tick" /\ vin                     -> Goto("OperationalCoOp")
       [] e.kind = "Shutdown"                        -> Goto("BlackoutShutdown")
       [] OTHER                                      -> powered_on(e)

\* Mutant: a ping is left to the superstate and does not lead back to co-op.
host_unresponsive_deaf(e) ==
  /\ state = "HostUnresponsive"
  /\ IF e.kind = "Tick" /\ entry_age > RebootDuration
       THEN Goto("PoweredDownBlackout") ELSE powered_on(e)

\* Mutant: an unresponsive host is never rebooted.
host_unresponsive_patient(e) ==
  /\ state = "HostUnresponsive"
  /\ IF e.kind = "WatchdogPing"
       THEN /\ GotoWith("OperationalCoOp", host_watchdog_timeout_ms, 0)
            /\ UNCHANGED double_clicked
       ELSE powered_on(e)

host_unresponsive(e) ==
  /\ state = "HostUnresponsive"
  /\ CASE e.kind = "Tick" /\ entry_age > RebootDuration -> Goto("PoweredDownBlackout")
       [] e.kind = "WatchdogPing"                    ->
            /\ GotoWith("OperationalCoOp", host_watchdog_timeout_ms, 0)
            /\ UNCHANGED double_clicked
       [] OTHER                                      -> powered_on(e)

\* Mutant: the wait is one unit too long.
StoppedLate(e) ==
  e.kind = "ComputeModuleOff" \/ (e.kind = "Tick" /\ entry_age > ShutdownWait + 1)
\* Mutant: the wait never ends.
StoppedByCmOnly(e) == e.kind = "ComputeModuleOff"

\* The shutdown states have no superstate: they end with the CM's rail or
\* with the wait, and nothing else is heard.
Stopped(e) ==
  e.kind = "ComputeModuleOff" \/ (e.kind = "Tick" /\ entry_age > ShutdownWait)

manual_shutdown(e) ==
  /\ state = "ManualShutdown"
  /\ IF Stopped(e) THEN Goto("PoweredDownManual") ELSE Ignore

\* Mutant: power that comes back calls the shutdown off.
blackout_shutdown_undone(e) ==
  /\ state = "BlackoutShutdown"
  /\ CASE Stopped(e)             -> Goto("PoweredDownBlackout")
       [] ~Stopped(e) /\ e.kind = "Tick" /\ vin -> Goto("OperationalSolo")
       [] OTHER                  -> Ignore

blackout_shutdown(e) ==
  /\ state = "BlackoutShutdown"
  /\ IF Stopped(e) THEN Goto("PoweredDownBlackout") ELSE Ignore

\* Mutant: a blackout on the way to standby is treated as one in operation.
entering_standby_blackout(e) ==
  /\ state = "EnteringStandby"
  /\ CASE Stopped(e)             -> Goto("Standby")
       [] ~Stopped(e) /\ e.kind = "Tick" /\ ~vin -> Goto("BlackoutSolo")
       [] OTHER                  -> Ignore

entering_standby(e) ==
  /\ state = "EnteringStandby"
  /\ IF Stopped(e) THEN Goto("Standby") ELSE Ignore

\* Mutant: the power button wakes the system from standby.
standby_button(e) ==
  /\ state = "Standby"
  /\ CASE e.kind = "ComputeModuleOn"  -> Goto("OperationalSolo")
       [] e.kind = "PowerButtonPress" -> Goto("SystemStartup")
       [] OTHER                       -> Ignore

standby(e) ==
  /\ state = "Standby"
  /\ IF e.kind = "ComputeModuleOn" THEN Goto("OperationalSolo") ELSE Ignore

\* The powered-down states end in a reset of the controller, or nothing happens.
ResetIf(condition) == IF condition THEN Reset ELSE Consume /\ Ignore

\* Mutant: auto_restart decides after a blackout as well.
powered_down_blackout_stays(e) ==
  /\ state = "PoweredDownBlackout"
  /\ ResetIf(\/ e.kind = "PowerButtonPress"
             \/ e.kind = "Tick" /\ entry_age > OffDuration /\ auto_restart)

powered_down_blackout(e) ==
  /\ state = "PoweredDownBlackout"
  /\ ResetIf(\/ e.kind = "PowerButtonPress"
             \/ e.kind = "Tick" /\ entry_age > OffDuration)

powered_down_manual(e) ==
  /\ state = "PoweredDownManual"
  /\ ResetIf(\/ e.kind = "PowerButtonPress"
             \/ e.kind = "Tick" /\ ~vin
             \/ e.kind = "Tick" /\ entry_age > OffDuration /\ auto_restart)

----------------------------------------------------------------------------
(* state_machine_task: one cycle per ticker period *)

DrainChannel ==
  /\ ~drained /\ events_to_process = <<>>
  /\ drained' = TRUE
  /\ events_to_process' = channel /\ channel' = <<>>
  /\ UNCHANGED <<machine, prev_cm_on, lag, ping_owed, ping_sent_age, inputs, config>>

\* Mutant: only the rising edge is reported.
CmRisingEdge ==
  IF cm_on /\ ~prev_cm_on THEN <<Ev("ComputeModuleOn")>> ELSE <<>>

CmEdge ==
  IF cm_on = prev_cm_on THEN <<>>
  ELSE <<Ev(IF cm_on THEN "ComputeModuleOn" ELSE "ComputeModuleOff")>>
AlarmEdge ==
  IF vscap = "over" /\ ~vscap_alarm_active THEN <<Ev("SupercapOvervoltage")>> ELSE <<>>

SampleInputs ==
  /\ drained /\ drained' = FALSE
  /\ events_to_process' = events_to_process \o CmEdge \o AlarmEdge \o <<Ev("Tick")>>
  /\ prev_cm_on' = cm_on
  /\ UNCHANGED <<machine, lag, host, inputs, config>>

Handling == ~drained /\ events_to_process # <<>>

\* statig runs the initial state's entry action, enter_power_off, on the first
\* event it is given.
InitMachine ==
  /\ Handling /\ ~initialized /\ initialized' = TRUE
  /\ Drive("PowerOff")
  /\ UNCHANGED <<state, entry_age, context, double_clicked, task, host, inputs, config>>

\* Live(e): the handlers of the states that do not reset the controller.
Live(e) ==
  \/ power_off(e) \/ off_charging(e) \/ system_startup(e)
  \/ operational_solo(e) \/ operational_co_op(e)
  \/ blackout_solo(e) \/ blackout_co_op(e) \/ host_unresponsive(e)
  \/ manual_shutdown(e) \/ blackout_shutdown(e) \/ entering_standby(e) \/ standby(e)

HandleEvent ==
  /\ Handling /\ initialized
  /\ LET e == Head(events_to_process)
     IN \/ Consume /\ Live(e)
        \/ powered_down_blackout(e)
        \/ powered_down_manual(e)
  /\ UNCHANGED <<inputs, config>>

----------------------------------------------------------------------------
(* The tasks that feed the channel *)

Send(e) ==
  /\ Len(channel) < ChannelCapacity
  /\ channel' = Append(channel, e)

\* A command of the host, a program on the running CM; the I2C task answers one
\* at a time and owes a ping after each.
Accept(command) ==
  /\ command \in Stimuli
  /\ cm_on /\ ~ping_owed
  /\ ping_owed' = TRUE
  /\ UNCHANGED <<machine, task, ping_sent_age, inputs>>

I2cShutdown == Accept("Shutdown") /\ Send(Ev("Shutdown")) /\ UNCHANGED config
I2cStandby  == Accept("StandbyShutdown") /\ Send(Ev("StandbyShutdown")) /\ UNCHANGED config
I2cOff      == Accept("Off") /\ en_5v /\ Send(Ev("Off")) /\ UNCHANGED config
I2cOther    == Accept("Other") /\ UNCHANGED <<channel, config>>

I2cSetWatchdogTimeout ==
  /\ Accept("SetWatchdogTimeout")
  /\ \E t \in WatchdogTimeouts \union {0} : Send([kind |-> "SetWatchdogTimeout", ms |-> t])
  /\ UNCHANGED config

I2cConfigure ==
  /\ Accept("Configure")
  /\ solo_depleting_timeout_ms' \in SoloTimeouts
  /\ auto_restart' \in BOOLEAN
  /\ UNCHANGED channel

I2cPing ==
  /\ ping_owed /\ ping_owed' = FALSE
  /\ Send(Ev("WatchdogPing"))
  /\ ping_sent_age' = 0
  /\ UNCHANGED <<machine, task, inputs, config>>

power_button_input ==
  /\ "PowerButton" \in Stimuli
  /\ Send(Ev("PowerButtonPress"))
  /\ UNCHANGED <<machine, task, ping_owed, ping_sent_age, inputs, config>>

----------------------------------------------------------------------------
(* The surroundings: time, supply, supercap, CM and resets *)

Advance ==
  /\ lag < MaxLag /\ lag' = lag + 1
  /\ entry_age' = IF state \in Timed THEN Older(entry_age) ELSE entry_age
  /\ ping_age' = Older(ping_age)
  /\ ping_sent_age' = Older(ping_sent_age)
  /\ UNCHANGED <<state, initialized, host_watchdog_timeout_ms, vscap_alarm_active, outputs,
                 events_to_process, drained, prev_cm_on, channel, ping_owed, inputs, config>>

VinChanges ==
  /\ vin' = ~vin
  /\ UNCHANGED <<machine, task, host, vscap, cm_on, config>>

VscapChanges ==
  /\ vscap' \in {"low", "charged"} \union (IF "Overvoltage" \in Stimuli THEN {"over"} ELSE {})
  /\ vscap' # vscap
  /\ UNCHANGED <<machine, task, host, vin, cm_on, config>>

CmRises ==
  /\ ~cm_on /\ en_5v /\ cm_on' = TRUE
  /\ UNCHANGED <<machine, task, host, vin, vscap, config>>
CmFalls ==
  /\ cm_on /\ cm_on' = FALSE
  /\ UNCHANGED <<machine, task, host, vin, vscap, config>>

\* The supply of the controller itself fails, or its hardware watchdog bites.
Crash ==
  /\ "Crash" \in Stimuli
  /\ Reset
  /\ UNCHANGED <<inputs, config>>

----------------------------------------------------------------------------
Next ==
  \/ DrainChannel \/ SampleInputs \/ InitMachine \/ HandleEvent
  \/ I2cShutdown \/ I2cStandby \/ I2cOff \/ I2cOther
  \/ I2cSetWatchdogTimeout \/ I2cConfigure \/ I2cPing \/ power_button_input
  \/ Advance \/ VinChanges \/ VscapChanges \/ CmRises \/ CmFalls \/ Crash

\* The executor runs every ready task, time passes, and the CM's rail falls
\* once its 5V supply is gone.
Fairness ==
  /\ WF_vars(DrainChannel) /\ WF_vars(SampleInputs)
  /\ WF_vars(InitMachine) /\ WF_vars(HandleEvent)
  /\ WF_vars(I2cPing)
  /\ WF_vars(Advance)
  /\ WF_vars(~en_5v /\ CmFalls)

Spec == Init /\ [][Next]_vars
FairSpec == Spec /\ Fairness

----------------------------------------------------------------------------
(* Properties *)

Bounded(age) == age \in 0 .. MaxAge

TypeOK ==
  /\ state \in State /\ Bounded(entry_age) /\ initialized \in BOOLEAN
  /\ host_watchdog_timeout_ms \in WatchdogTimeouts \union {0}
  /\ Bounded(ping_age) /\ vscap_alarm_active \in BOOLEAN
  /\ en_5v \in BOOLEAN /\ usb_on \in BOOLEAN /\ double_clicked \in BOOLEAN
  /\ led_pattern \in State \union {"Dark", "VscapAlarm"}
  /\ events_to_process \in Seq(Event) /\ channel \in Seq(Event)
  /\ drained \in BOOLEAN /\ prev_cm_on \in BOOLEAN /\ lag \in 0 .. MaxLag
  /\ ping_owed \in BOOLEAN /\ Bounded(ping_sent_age)
  /\ vin \in BOOLEAN /\ vscap \in {"low", "charged", "over"} /\ cm_on \in BOOLEAN
  /\ solo_depleting_timeout_ms \in SoloTimeouts /\ auto_restart \in BOOLEAN

Queued(kind, q) == \E i \in DOMAIN q : q[i].kind = kind
PingPending == Queued("WatchdogPing", events_to_process) \/ Queued("WatchdogPing", channel)

\* The CM's supply and the USB ports are on in exactly the states in which the
\* CM may run, whatever path led there (the entry actions switch them only in
\* four of the states).
RailsFollowState ==
  /\ en_5v <=> state \in PoweredOn \union Stopping \union {"SystemStartup", "Standby"}
  /\ initialized => usb_on = en_5v
  /\ ~initialized => state = "PowerOff"

\* The watchdog is armed in the cooperative states and in no solo state: a
\* zero timeout there would power a healthy host down at the next tick.
CoOpHasTimeout ==
  /\ state \in {"OperationalCoOp", "BlackoutCoOp", "HostUnresponsive"}
       => host_watchdog_timeout_ms > 0
  /\ state \in {"OperationalSolo", "BlackoutSolo"} => host_watchdog_timeout_ms = 0

\* While the machine believes the CM runs, the edge detector agrees or its
\* ComputeModuleOff has yet to be handled: the CM's loss is never missed.
CmEdgeTracked ==
  state \in PoweredOn \union Stopping
    => prev_cm_on \/ Queued("ComputeModuleOff", events_to_process)

\* No timed state outlasts its limit by more than the task's own delay.
NotOverstayed ==
  /\ state \in Stopping => entry_age <= ShutdownWait + lag
  /\ state = "HostUnresponsive" => entry_age <= RebootDuration + lag
  /\ state = "PoweredDownBlackout" => entry_age <= OffDuration + lag
  /\ state = "BlackoutSolo" => \E t \in SoloTimeouts : entry_age <= t + lag

\* Once the power button has been double-clicked for the CM, the machine is on
\* its way down and never takes the CM for running again.
NoReturnAfterClick ==
  double_clicked => state \in {"BlackoutShutdown", "PoweredDownBlackout"}

\* What the watchdog knows of the host: it has not heard it later than the host
\* was last served, unless a ping is on its way; and an unresponsive host has
\* been silent for its timeout and all the time since.
HostHeard ==
  \/ PingPending
  \/ /\ state \in {"OperationalCoOp", "BlackoutCoOp"} => ping_age <= ping_sent_age
     /\ state = "HostUnresponsive" /\ ping_sent_age < MaxAge
          => ping_sent_age > host_watchdog_timeout_ms + entry_age

\* A host that was served within its timeout is not declared unresponsive, save
\* when its ping came after this cycle's drain and is still in the channel.
NoFalseUnresponsive ==
  [][state = "OperationalCoOp" /\ state' = "HostUnresponsive"
       => \/ ping_sent_age > host_watchdog_timeout_ms
          \/ Queued("WatchdogPing", channel)]_vars

\* Nor is it powered down for silence unless it was silent for its timeout and
\* the reboot delay, save for a ping in the channel as above.
NoFalseReboot ==
  [][state = "HostUnresponsive" /\ state' = "PoweredDownBlackout"
       => \/ ping_sent_age > host_watchdog_timeout_ms + RebootDuration
          \/ Queued("WatchdogPing", channel)]_vars

\* A shutdown under way is never abandoned: the machine leaves it only for a
\* state that ends it, or by a reset.
ShutdownIsFinal ==
  [][(state \in Stopping)
       => state' \in {state, "Standby", "PowerOff"} \union PoweredDown]_vars

\* Every shutdown ends, whatever the host and the supply do.
StopEnds == state \in Stopping ~> state \notin Stopping

\* When the CM switches itself off, its supply follows, unless it was on its
\* way to standby or comes back before the task sees it.
CmLossCutsPower ==
  state \in PoweredOn /\ ~cm_on ~> cm_on \/ ~en_5v \/ state = "Standby"

\* A cooperative host that falls silent on external power is dealt with.
HungHostHandled ==
  state \in {"OperationalCoOp", "HostUnresponsive"} /\ ping_sent_age = MaxAge
    ~> state \notin {"OperationalCoOp", "HostUnresponsive"} \/ ping_sent_age < MaxAge

\* After a blackout or a hung host the controller always starts again.
BlackoutRestarts == state = "PoweredDownBlackout" ~> state = "PowerOff"

----------------------------------------------------------------------------
(* What the machine promises as a supervisor of the CM's supply *)

Mode ==
  CASE state \in {"PowerOff", "OffCharging"} -> "Off"
    [] state = "SystemStartup"               -> "Starting"
    [] state \in PoweredOn                   -> "Running"
    [] state \in Stopping                    -> "Stopping"
    [] state \in PoweredDown                 -> "Down"
    [] state = "Standby"                     -> "Standby"
Reason ==
  CASE state \in {"ManualShutdown", "PoweredDownManual"}     -> "command"
    [] state \in {"BlackoutShutdown", "PoweredDownBlackout"} -> "blackout"
    [] state \in {"EnteringStandby", "Standby"}              -> "standby"
    [] OTHER                                                 -> "none"

Supervisor == INSTANCE PowerSupervisor WITH mode <- Mode, reason <- Reason, supply <- en_5v

\* The machine implements the supervisor.
ImplementsSupervisor == Supervisor!Spec
=============================================================================
