----------------------- MODULE PowerStateMachineProofs -----------------------
(***************************************************************************)
(* Theorems about PowerStateMachine, for every value of its constants:     *)
(* type correctness and the safety properties the runs check.              *)
(***************************************************************************)
EXTENDS PowerStateMachine, SequenceTheorems, TLAPS

USE DEF Bounded

Timeouts == WatchdogTimeouts \union {0}

----------------------------------------------------------------------------
(* Types *)

LEMMA EvType == \A kind \in {"Tick", "SupercapOvervoltage", "ComputeModuleOn",
           "ComputeModuleOff", "Shutdown", "StandbyShutdown", "Off", "WatchdogPing",
           "PowerButtonPress"} : Ev(kind) \in Event
  BY DEF Ev, Event

LEMMA OlderType == ASSUME NEW age \in 0 .. MaxAge PROVE Older(age) \in 0 .. MaxAge
  BY ConstantsAssumption DEF Older

LEMMA ConstantTypes ==
  /\ MaxAge \in Nat \ {0} /\ MaxLag \in Nat \ {0}
  /\ ShutdownWait \in Nat /\ OffDuration \in Nat /\ RebootDuration \in Nat
  /\ \A t \in Timeouts : t \in Nat
  /\ \A t \in SoloTimeouts : t \in Nat
  BY ConstantsAssumption DEF Timeouts

\* A handled event changes the machine in one of three ways.
Moves == \E s \in State, t \in Timeouts, a \in 0 .. MaxAge :
           GotoWith(s, t, a) /\ double_clicked' \in BOOLEAN
Updates == \E t \in Timeouts, a \in 0 .. MaxAge, b \in BOOLEAN :
             SetContext(t, a, b) /\ led_pattern' \in {led_pattern, "VscapAlarm"}

LEMMA GotoMoves ==
  ASSUME TypeOK, NEW s \in State, Goto(s) PROVE Moves
  <1>1. GotoWith(s, host_watchdog_timeout_ms, ping_age) /\ double_clicked' \in BOOLEAN
    BY DEF Goto, TypeOK
  <1>2. host_watchdog_timeout_ms \in Timeouts /\ ping_age \in 0 .. MaxAge
    BY DEF TypeOK, Timeouts
  <1> QED BY <1>1, <1>2 DEF Moves

LEMMA PoweredOnOutcome ==
  ASSUME TypeOK, NEW e \in Event, powered_on(e) PROVE Moves \/ Updates \/ Ignore
  <1>1. CASE e.kind \in {"ComputeModuleOff", "Off"}
    <2>1. Goto("PoweredDownManual") BY <1>1 DEF powered_on
    <2> QED BY <2>1, GotoMoves DEF State, PoweredDown
  <1>2. CASE e.kind = "WatchdogPing"
    <2>1. SetContext(host_watchdog_timeout_ms, 0, vscap_alarm_active) /\ UNCHANGED led_pattern
      BY <1>2 DEF powered_on
    <2>2. /\ host_watchdog_timeout_ms \in Timeouts /\ 0 \in 0 .. MaxAge
          /\ vscap_alarm_active \in BOOLEAN
      BY ConstantTypes DEF TypeOK, Timeouts
    <2> QED BY <2>1, <2>2 DEF Updates
  <1>3. CASE e.kind = "SupercapOvervoltage"
    <2>1. SetContext(host_watchdog_timeout_ms, ping_age, TRUE) /\ led_pattern' = "VscapAlarm"
      BY <1>3 DEF powered_on
    <2> QED BY <2>1 DEF Updates, TypeOK, Timeouts
  <1>4. CASE e.kind \notin {"ComputeModuleOff", "Off", "WatchdogPing", "SupercapOvervoltage"}
    BY <1>4 DEF powered_on
  <1> QED BY <1>1, <1>2, <1>3, <1>4

LEMMA OperationalOutcome ==
  ASSUME TypeOK, NEW e \in Event, operational(e) PROVE Moves \/ Updates \/ Ignore
  <1>1. Goto("ManualShutdown") \/ Goto("EnteringStandby") \/ powered_on(e)
    BY DEF operational
  <1> QED BY <1>1, GotoMoves, PoweredOnOutcome DEF State, Stopping

LEMMA MsType == ASSUME NEW e \in Event PROVE e.ms \in Timeouts
  BY DEF Event, Timeouts

LEMMA LiveOutcome ==
  ASSUME TypeOK, NEW e \in Event, Live(e) PROVE Moves \/ Updates \/ Ignore
  <1> USE DEF State, PoweredOn, Operational, Blackout, Stopping, PoweredDown
  <1>a. host_watchdog_timeout_ms \in Timeouts /\ ping_age \in 0 .. MaxAge
        /\ 0 \in 0 .. MaxAge /\ e.ms \in Timeouts
    BY ConstantTypes, MsType DEF TypeOK, Timeouts
  <1>1. CASE power_off(e)
    BY <1>1, GotoMoves DEF power_off
  <1>2. CASE off_charging(e)
    BY <1>2, GotoMoves DEF off_charging
  <1>3. CASE system_startup(e)
    BY <1>3, GotoMoves DEF system_startup
  <1>4. CASE operational_solo(e)
    <2>1. \/ Goto("BlackoutSolo") \/ operational(e)
          \/ GotoWith("OperationalCoOp", e.ms, 0) /\ UNCHANGED double_clicked
      BY <1>4 DEF operational_solo
    <2>2. ASSUME GotoWith("OperationalCoOp", e.ms, 0) /\ UNCHANGED double_clicked PROVE Moves
      BY <2>2, <1>a DEF Moves, TypeOK
    <2> QED BY <2>1, <2>2, GotoMoves, OperationalOutcome
  <1>5. CASE operational_co_op(e)
    <2>1. \/ Goto("BlackoutCoOp") \/ Goto("HostUnresponsive") \/ Goto("OperationalSolo")
          \/ SetContext(e.ms, ping_age, vscap_alarm_active) /\ UNCHANGED led_pattern
          \/ operational(e)
      BY <1>5 DEF operational_co_op
    <2>2. ASSUME SetContext(e.ms, ping_age, vscap_alarm_active) /\ UNCHANGED led_pattern PROVE Updates
      BY <2>2, <1>a DEF Updates, TypeOK
    <2> QED BY <2>1, <2>2, GotoMoves, OperationalOutcome
  <1>6. CASE blackout_solo(e)
    <2>1. \/ Goto("OperationalSolo") \/ powered_on(e)
          \/ /\ GotoWith("BlackoutShutdown", host_watchdog_timeout_ms, ping_age)
             /\ double_clicked' = TRUE
      BY <1>6 DEF blackout_solo
    <2>2. ASSUME GotoWith("BlackoutShutdown", host_watchdog_timeout_ms, ping_age),
                 double_clicked' = TRUE
          PROVE Moves
      BY <2>2, <1>a DEF Moves
    <2> QED BY <2>1, <2>2, GotoMoves, PoweredOnOutcome
  <1>7. CASE blackout_co_op(e)
    <2>1. Goto("OperationalCoOp") \/ Goto("BlackoutShutdown") \/ powered_on(e)
      BY <1>7 DEF blackout_co_op
    <2> QED BY <2>1, GotoMoves, PoweredOnOutcome
  <1>8. CASE host_unresponsive(e)
    <2>1. \/ Goto("PoweredDownBlackout") \/ powered_on(e)
          \/ /\ GotoWith("OperationalCoOp", host_watchdog_timeout_ms, 0)
             /\ UNCHANGED double_clicked
      BY <1>8 DEF host_unresponsive
    <2>2. ASSUME GotoWith("OperationalCoOp", host_watchdog_timeout_ms, 0),
                 UNCHANGED double_clicked
          PROVE Moves
      BY <2>2, <1>a DEF Moves, TypeOK
    <2> QED BY <2>1, <2>2, GotoMoves, PoweredOnOutcome
  <1>9. CASE manual_shutdown(e)
    BY <1>9, GotoMoves DEF manual_shutdown
  <1>10. CASE blackout_shutdown(e)
    BY <1>10, GotoMoves DEF blackout_shutdown
  <1>11. CASE entering_standby(e)
    BY <1>11, GotoMoves DEF entering_standby
  <1>12. CASE standby(e)
    BY <1>12, GotoMoves DEF standby
  <1> QED
    BY <1>1, <1>2, <1>3, <1>4, <1>5, <1>6, <1>7, <1>8, <1>9, <1>10, <1>11, <1>12 DEF Live

LEMMA BatchType ==
  ASSUME TypeOK, Handling
  PROVE /\ Head(events_to_process) \in Event
        /\ Tail(events_to_process) \in Seq(Event)
  BY HeadTailProperties DEF TypeOK, Handling

LEMMA SampledType ==
  /\ CmEdge \in Seq(Event) /\ AlarmEdge \in Seq(Event) /\ <<Ev("Tick")>> \in Seq(Event)
  BY EvType DEF CmEdge, AlarmEdge

LEMMA MovesType == ASSUME TypeOK, Moves PROVE
  /\ state' \in State /\ entry_age' \in 0 .. MaxAge /\ initialized' \in BOOLEAN
  /\ host_watchdog_timeout_ms' \in Timeouts /\ ping_age' \in 0 .. MaxAge
  /\ vscap_alarm_active' \in BOOLEAN /\ en_5v' \in BOOLEAN /\ usb_on' \in BOOLEAN
  /\ double_clicked' \in BOOLEAN /\ led_pattern' \in State \union {"Dark", "VscapAlarm"}
  <1>1. PICK s \in State, t \in Timeouts, a \in 0 .. MaxAge :
          GotoWith(s, t, a) /\ double_clicked' \in BOOLEAN
    BY DEF Moves
  <1>2. en_5v' \in BOOLEAN /\ usb_on' \in BOOLEAN
    BY <1>1, Zenon DEF GotoWith, Drive
  <1>3. led_pattern' \in State \union {"Dark", "VscapAlarm"}
    BY <1>1 DEF GotoWith, Drive, TypeOK
  <1>4. host_watchdog_timeout_ms' \in Timeouts /\ 0 \in 0 .. MaxAge
    BY <1>1, ConstantTypes DEF GotoWith, Timeouts
  <1> QED BY <1>1, <1>2, <1>3, <1>4 DEF GotoWith, TypeOK

LEMMA UpdatesType == ASSUME TypeOK, Updates PROVE
  /\ host_watchdog_timeout_ms' \in Timeouts /\ ping_age' \in 0 .. MaxAge
  /\ vscap_alarm_active' \in BOOLEAN
  /\ UNCHANGED <<state, entry_age, initialized, en_5v, usb_on, double_clicked>>
  /\ led_pattern' \in State \union {"Dark", "VscapAlarm"}
  BY DEF Updates, SetContext, TypeOK

LEMMA FreshType ==
  /\ "PowerOff" \in State /\ <<>> \in Seq(Event)
  /\ 0 \in Timeouts /\ 0 \in 0 .. MaxAge /\ MaxAge \in 0 .. MaxAge /\ 0 \in 0 .. MaxLag
  BY ConstantTypes DEF State, Timeouts

LEMMA ResetType ==
  ASSUME TypeOK, Reset, UNCHANGED <<inputs, config>> PROVE TypeOK'
  BY FreshType DEF TypeOK, Reset, inputs, config, Timeouts

LEMMA ConsumeType ==
  ASSUME TypeOK, Handling, Consume
  PROVE /\ events_to_process' \in Seq(Event) /\ channel' \in Seq(Event)
        /\ drained' \in BOOLEAN /\ prev_cm_on' \in BOOLEAN /\ lag' \in 0 .. MaxLag
        /\ ping_owed' \in BOOLEAN /\ ping_sent_age' \in 0 .. MaxAge
  BY BatchType, ConstantTypes DEF TypeOK, Consume, host

LEMMA ResetIfStep ==
  ASSUME NEW c \in BOOLEAN, ResetIf(c)
  PROVE Reset \/ (Consume /\ Ignore)
  BY DEF ResetIf

LEMMA HandleOutcome ==
  ASSUME TypeOK, HandleEvent
  PROVE Reset \/ (Consume /\ (Moves \/ Updates \/ Ignore))
  <1> DEFINE e == Head(events_to_process)
  <1>1. e \in Event BY BatchType DEF HandleEvent
  <1>2. \/ Consume /\ Live(e)
        \/ powered_down_blackout(e) \/ powered_down_manual(e)
    BY DEF HandleEvent
  <1>3. CASE Consume /\ Live(e)
    BY <1>1, <1>3, LiveOutcome
  <1>4. CASE powered_down_blackout(e)
    BY <1>4 DEF powered_down_blackout, ResetIf
  <1>5. CASE powered_down_manual(e)
    BY <1>5 DEF powered_down_manual, ResetIf
  <1> QED BY <1>2, <1>3, <1>4, <1>5

\* Every command, and the ping after it, leaves the channel a sequence of events.
LEMMA SendType ==
  ASSUME TypeOK, NEW e \in Event, Send(e) PROVE channel' \in Seq(Event)
  BY AppendProperties DEF Send, TypeOK

\* TypeOK is an invariant: no event, however late or in whatever state it is
\* handled, leaves the machine, its context or its queues ill-formed.
THEOREM TypeCorrect == Spec => []TypeOK
<1>1. Init => TypeOK
  BY FreshType DEF Init, TypeOK, Timeouts
<1>2. TypeOK /\ [Next]_vars => TypeOK'
  <2> SUFFICES ASSUME TypeOK, [Next]_vars PROVE TypeOK'
    OBVIOUS
  <2> USE DEF vars, machine, context, outputs, task, host, inputs, config
  <2>1. CASE DrainChannel
    BY <2>1 DEF DrainChannel, TypeOK
  <2>2. CASE SampleInputs
    <3>1. events_to_process' \in Seq(Event)
      BY <2>2, SampledType, ConcatProperties DEF SampleInputs, TypeOK
    <3>2. /\ drained' = FALSE /\ prev_cm_on' = cm_on
          /\ UNCHANGED <<machine, lag, host, inputs, config>>
      BY <2>2 DEF SampleInputs
    <3>3. drained' \in BOOLEAN /\ prev_cm_on' \in BOOLEAN
      BY <3>2, Zenon DEF TypeOK
    <3> QED BY <3>1, <3>2, <3>3 DEF TypeOK
  <2>3. CASE InitMachine
    <3>1. en_5v' \in BOOLEAN /\ usb_on' \in BOOLEAN /\ led_pattern' = led_pattern
      BY <2>3, Zenon DEF InitMachine, Drive
    <3> QED BY <2>3, <3>1 DEF InitMachine, TypeOK
  <2>4. CASE HandleEvent
    <3>1. UNCHANGED <<inputs, config>> /\ Handling
      BY <2>4 DEF HandleEvent
    <3>2. CASE Reset
      BY <3>1, <3>2, ResetType
    <3>3. CASE Consume /\ Moves
      BY <3>1, <3>3, ConsumeType, MovesType DEF TypeOK, Timeouts
    <3>4. CASE Consume /\ Updates
      BY <3>1, <3>4, ConsumeType, UpdatesType DEF TypeOK, Timeouts
    <3>5. CASE Consume /\ Ignore
      BY <3>1, <3>5, ConsumeType DEF Ignore, TypeOK
    <3> QED BY <2>4, <3>2, <3>3, <3>4, <3>5, HandleOutcome
  <2>5. CASE I2cShutdown
    BY <2>5, SendType, EvType DEF I2cShutdown, Accept, TypeOK
  <2>6. CASE I2cStandby
    BY <2>6, SendType, EvType DEF I2cStandby, Accept, TypeOK
  <2>7. CASE I2cOff
    BY <2>7, SendType, EvType DEF I2cOff, Accept, TypeOK
  <2>8. CASE I2cOther
    BY <2>8 DEF I2cOther, Accept, TypeOK
  <2>9. CASE I2cSetWatchdogTimeout
    <3>1. \A t \in Timeouts : [kind |-> "SetWatchdogTimeout", ms |-> t] \in Event
      BY DEF Event, Timeouts
    <3>2. channel' \in Seq(Event)
      BY <2>9, <3>1, SendType DEF I2cSetWatchdogTimeout, Timeouts
    <3> QED BY <2>9, <3>2 DEF I2cSetWatchdogTimeout, Accept, TypeOK
  <2>10. CASE I2cConfigure
    BY <2>10 DEF I2cConfigure, Accept, TypeOK
  <2>11. CASE I2cPing
    <3>1. ping_owed' \in BOOLEAN
      BY <2>11, Zenon DEF I2cPing
    <3>2. channel' \in Seq(Event) /\ ping_sent_age' \in 0 .. MaxAge
      BY <2>11, SendType, EvType, FreshType DEF I2cPing
    <3>3. UNCHANGED <<machine, task, inputs, config>>
      BY <2>11 DEF I2cPing
    <3> QED BY <3>1, <3>2, <3>3 DEF TypeOK
  <2>12. CASE power_button_input
    BY <2>12, SendType, EvType DEF power_button_input, TypeOK
  <2>13. CASE Advance
    <3>1. lag' \in 0 .. MaxLag
      BY <2>13, ConstantTypes DEF Advance, TypeOK
    <3> QED BY <2>13, <3>1, OlderType DEF Advance, TypeOK
  <2>14. CASE VinChanges
    BY <2>14 DEF VinChanges, TypeOK
  <2>15. CASE VscapChanges
    BY <2>15 DEF VscapChanges, TypeOK
  <2>16. CASE CmRises
    BY <2>16 DEF CmRises, TypeOK
  <2>17. CASE CmFalls
    <3>1. cm_on' \in BOOLEAN /\ UNCHANGED <<machine, task, host, vin, vscap, config>>
      BY <2>17, Zenon DEF CmFalls
    <3> QED BY <3>1 DEF TypeOK
  <2>18. CASE Crash
    BY <2>18, ResetType DEF Crash
  <2>19. CASE UNCHANGED vars
    BY <2>19 DEF TypeOK
  <2> QED
    BY <2>1, <2>2, <2>3, <2>4, <2>5, <2>6, <2>7, <2>8, <2>9, <2>10, <2>11, <2>12,
       <2>13, <2>14, <2>15, <2>16, <2>17, <2>18, <2>19 DEF Next
<1> QED BY <1>1, <1>2, PTL DEF Spec

----------------------------------------------------------------------------
(* The transition graph of the machine, resets apart *)

Edge(s, t) ==
  \/ s = "PowerOff" /\ t = "OffCharging"
  \/ s = "OffCharging" /\ t \in {"PowerOff", "SystemStartup"}
  \/ s = "SystemStartup" /\ t \in {"PowerOff", "OperationalSolo"}
  \/ s = "OperationalSolo" /\ t \in {"BlackoutSolo", "OperationalCoOp"}
  \/ s = "OperationalCoOp" /\ t \in {"BlackoutCoOp", "OperationalSolo", "HostUnresponsive"}
  \/ s \in Operational /\ t \in {"ManualShutdown", "EnteringStandby"}
  \/ s = "BlackoutSolo" /\ t \in {"OperationalSolo", "BlackoutShutdown"}
  \/ s = "BlackoutCoOp" /\ t \in {"OperationalCoOp", "BlackoutShutdown"}
  \/ s = "HostUnresponsive" /\ t \in {"OperationalCoOp", "PoweredDownBlackout"}
  \/ s \in PoweredOn /\ t = "PoweredDownManual"
  \/ s = "ManualShutdown" /\ t = "PoweredDownManual"
  \/ s = "BlackoutShutdown" /\ t = "PoweredDownBlackout"
  \/ s = "EnteringStandby" /\ t = "Standby"
  \/ s = "Standby" /\ t = "OperationalSolo"

Moved(t) == state' = t /\ entry_age' = 0 /\ Drive(t) /\ UNCHANGED initialized
Stayed == UNCHANGED <<state, entry_age, initialized, en_5v, usb_on>>

\* Along the edges of the graph, or not at all.
Follows == Stayed \/ \E t \in State : Edge(state, t) /\ Moved(t)

LEMMA GotoFollows ==
  ASSUME NEW t \in State, Edge(state, t), NEW m, NEW a, Goto(t) \/ GotoWith(t, m, a)
  PROVE Follows
  <1>1. Moved(t) BY DEF Goto, GotoWith, Moved
  <1> QED BY <1>1 DEF Follows

LEMMA StayFollows ==
  ASSUME NEW m, NEW a, NEW b, Ignore \/ SetContext(m, a, b) PROVE Follows
  BY DEF Ignore, SetContext, Follows, Stayed, machine, outputs

LEMMA PoweredOnFollows ==
  ASSUME NEW e, powered_on(e), state \in PoweredOn PROVE Follows
  <1>1. Edge(state, "PoweredDownManual") /\ "PoweredDownManual" \in State
    BY DEF Edge, State, PoweredDown
  <1>2. \/ Goto("PoweredDownManual") \/ Ignore
        \/ SetContext(host_watchdog_timeout_ms, 0, vscap_alarm_active)
        \/ SetContext(host_watchdog_timeout_ms, ping_age, TRUE)
    BY DEF powered_on
  <1> QED BY <1>1, <1>2, GotoFollows, StayFollows

LEMMA LiveFollows ==
  ASSUME NEW e, Live(e) PROVE Follows
  <1> USE DEF Edge, State, PoweredOn, Operational, Blackout, Stopping, PoweredDown
  <1>1. CASE power_off(e)
    BY <1>1, GotoFollows, StayFollows, PoweredOnFollows DEF power_off
  <1>2. CASE off_charging(e)
    BY <1>2, GotoFollows, StayFollows, PoweredOnFollows DEF off_charging
  <1>3. CASE system_startup(e)
    BY <1>3, GotoFollows, StayFollows, PoweredOnFollows DEF system_startup
  <1>4. CASE operational_solo(e)
    BY <1>4, GotoFollows, StayFollows, PoweredOnFollows DEF operational_solo, operational
  <1>5. CASE operational_co_op(e)
    BY <1>5, GotoFollows, StayFollows, PoweredOnFollows DEF operational_co_op, operational
  <1>6. CASE blackout_solo(e)
    BY <1>6, GotoFollows, StayFollows, PoweredOnFollows DEF blackout_solo
  <1>7. CASE blackout_co_op(e)
    BY <1>7, GotoFollows, StayFollows, PoweredOnFollows DEF blackout_co_op
  <1>8. CASE host_unresponsive(e)
    BY <1>8, GotoFollows, StayFollows, PoweredOnFollows DEF host_unresponsive
  <1>9. CASE manual_shutdown(e)
    BY <1>9, GotoFollows, StayFollows, PoweredOnFollows DEF manual_shutdown
  <1>10. CASE blackout_shutdown(e)
    BY <1>10, GotoFollows, StayFollows, PoweredOnFollows DEF blackout_shutdown
  <1>11. CASE entering_standby(e)
    BY <1>11, GotoFollows, StayFollows, PoweredOnFollows DEF entering_standby
  <1>12. CASE standby(e)
    BY <1>12, GotoFollows, StayFollows, PoweredOnFollows DEF standby
  <1> QED
    BY <1>1, <1>2, <1>3, <1>4, <1>5, <1>6, <1>7, <1>8, <1>9, <1>10, <1>11, <1>12 DEF Live


\* What the steps that do not handle an event leave alone.
Quiet == UNCHANGED <<state, initialized, host_watchdog_timeout_ms, vscap_alarm_active, outputs>>

LEMMA NextSplits ==
  ASSUME [Next]_vars PROVE HandleEvent \/ InitMachine \/ Crash \/ Quiet
  <1> USE DEF vars, machine, context, outputs, Quiet
  <1>1. DrainChannel \/ SampleInputs => Quiet
    BY DEF DrainChannel, SampleInputs
  <1>2. I2cShutdown \/ I2cStandby \/ I2cOff \/ I2cOther \/ I2cSetWatchdogTimeout \/ I2cConfigure => Quiet
    BY DEF I2cShutdown, I2cStandby, I2cOff, I2cOther, I2cSetWatchdogTimeout, I2cConfigure, Accept
  <1>3. I2cPing \/ power_button_input => Quiet
    BY DEF I2cPing, power_button_input
  <1>4. Advance \/ VinChanges \/ VscapChanges \/ CmRises \/ CmFalls => Quiet
    BY DEF Advance, VinChanges, VscapChanges, CmRises, CmFalls
  <1> QED BY <1>1, <1>2, <1>3, <1>4 DEF Next

LEMMA HandleSplits ==
  ASSUME HandleEvent
  PROVE /\ Handling /\ initialized /\ UNCHANGED <<inputs, config>>
        /\ \/ Reset
           \/ Consume /\ Live(Head(events_to_process))
           \/ Consume /\ Ignore
  BY DEF HandleEvent, powered_down_blackout, powered_down_manual, ResetIf

----------------------------------------------------------------------------
(* The rails *)

On == PoweredOn \union Stopping \union {"SystemStartup", "Standby"}

LEMMA EdgeRails ==
  ASSUME NEW s \in State, NEW t \in State, Edge(s, t)
  PROVE /\ t \in On => t = "SystemStartup" \/ (s \in On /\ t \notin RailsCut)
        /\ t \notin On => t # "SystemStartup" /\ (s \notin On \/ t \in RailsCut)
        /\ t \in RailsCut => t \notin On
  BY DEF Edge, State, On, PoweredOn, Operational, Blackout, Stopping, PoweredDown, RailsCut

LEMMA FollowsRails ==
  ASSUME TypeOK, RailsFollowState, initialized, Follows PROVE RailsFollowState'
  <1>1. CASE Stayed
    BY <1>1 DEF RailsFollowState, Stayed
  <1>2. ASSUME NEW t \in State, Edge(state, t), Moved(t) PROVE RailsFollowState'
    <2>1. en_5v' <=> (t = "SystemStartup" \/ (en_5v /\ t \notin RailsCut))
      BY <1>2, Zenon DEF Moved, Drive
    <2>2. usb_on' = en_5v'
      <3>1. usb_on = en_5v BY DEF RailsFollowState
      <3> QED BY <3>1, <1>2, Zenon DEF Moved, Drive
    <2>3. state \in State /\ (en_5v <=> state \in On)
      BY DEF TypeOK, RailsFollowState, On
    <2>4. en_5v' <=> t \in On
      BY <2>1, <2>3, <1>2, EdgeRails
    <2>5. state' = t /\ initialized'
      BY <1>2 DEF Moved
    <2> QED BY <2>2, <2>4, <2>5, Zenon DEF RailsFollowState, On
  <1> QED BY <1>1, <1>2 DEF Follows

\* RailsFollowState for every interleaving of events, resets and crashes: it is
\* inductive with the types, since every edge of the graph into a powered state
\* starts in one or at SystemStartup's entry.
THEOREM RailsCorrect == Spec => []RailsFollowState
<1>1. Init => RailsFollowState
  BY DEF Init, RailsFollowState, PoweredOn, Operational, Blackout, Stopping
<1>2. TypeOK /\ RailsFollowState /\ [Next]_vars => RailsFollowState'
  <2> SUFFICES ASSUME TypeOK, RailsFollowState, [Next]_vars PROVE RailsFollowState'
    OBVIOUS
  <2>1. Reset => RailsFollowState'
    BY DEF Reset, RailsFollowState, PoweredOn, Operational, Blackout, Stopping
  <2>2. CASE HandleEvent
    <3>1. CASE Ignore
      BY <3>1 DEF Ignore, machine, outputs, RailsFollowState
    <3> QED BY <2>1, <2>2, <3>1, HandleSplits, LiveFollows, FollowsRails
  <2>3. CASE InitMachine
    <3>1. state' = "PowerOff"
      BY <2>3 DEF InitMachine, RailsFollowState
    <3>2. ~en_5v' /\ usb_on' = FALSE /\ en_5v' = FALSE
      BY <2>3, Zenon DEF InitMachine, Drive, RailsCut
    <3> QED BY <3>1, <3>2 DEF RailsFollowState, PoweredOn, Operational, Blackout, Stopping
  <2>4. CASE Crash
    BY <2>1, <2>4 DEF Crash
  <2>5. CASE Quiet
    BY <2>5 DEF Quiet, outputs, RailsFollowState
  <2> QED BY <2>2, <2>3, <2>4, <2>5, NextSplits
<1> QED BY <1>1, <1>2, TypeCorrect, PTL DEF Spec

----------------------------------------------------------------------------
(* The graph alone decides these *)

\* ShutdownIsFinal: no event, supply change or host command takes a shutdown back.
THEOREM ShutdownIsFinalHolds == Spec => ShutdownIsFinal
<1>1. ASSUME [Next]_vars, state \in Stopping
      PROVE state' \in {state, "Standby", "PowerOff"} \union PoweredDown
  <2>1. CASE HandleEvent
    <3>1. ASSUME Follows PROVE state' \in {state, "Standby"} \union PoweredDown
      BY <1>1, <3>1 DEF Follows, Moved, Stayed, Edge, Stopping, PoweredDown, PoweredOn,
         Operational, Blackout
    <3> QED BY <2>1, <3>1, HandleSplits, LiveFollows DEF Reset, Ignore, machine
  <2>2. CASE InitMachine \/ Crash \/ Quiet
    BY <2>2 DEF InitMachine, Crash, Reset, Quiet
  <2> QED BY <1>1, <2>1, <2>2, NextSplits
<1>2. [Next]_vars => ((state \in Stopping)
        => state' \in {state, "Standby", "PowerOff"} \union PoweredDown)
  BY <1>1
<1> QED BY <1>2, PTL DEF Spec, ShutdownIsFinal


----------------------------------------------------------------------------
(* The machine implements the supervisor *)

\* Mode and Reason state by state.
ModeTable ==
  /\ state \in {"PowerOff", "OffCharging"} => Mode = "Off" /\ Reason = "none"
  /\ state = "SystemStartup" => Mode = "Starting" /\ Reason = "none"
  /\ state \in PoweredOn => Mode = "Running" /\ Reason = "none"
  /\ state \in Stopping => Mode = "Stopping"
  /\ state \in PoweredDown => Mode = "Down"
  /\ state \in {"ManualShutdown", "PoweredDownManual"} => Reason = "command"
  /\ state \in {"BlackoutShutdown", "PoweredDownBlackout"} => Reason = "blackout"
  /\ state \in {"EnteringStandby", "Standby"} => Reason = "standby"
  /\ state = "Standby" => Mode = "Standby"

LEMMA Table == ModeTable
  BY DEF ModeTable, Mode, Reason, PoweredOn, Operational, Blackout, Stopping, PoweredDown
LEMMA TableNext == ModeTable'
  BY DEF ModeTable, Mode, Reason, PoweredOn, Operational, Blackout, Stopping, PoweredDown

LEMMA SameMode ==
  ASSUME UNCHANGED <<state, en_5v>> PROVE UNCHANGED Supervisor!svars
  <1>1. UNCHANGED <<Mode, Reason>> BY DEF Mode, Reason
  <1> QED BY <1>1 DEF Supervisor!svars

LEMMA ResetMode ==
  ASSUME TypeOK, state' = "PowerOff", en_5v' = FALSE PROVE Supervisor!Restart
  <1>1. Mode \in {"Off", "Starting", "Running", "Stopping", "Down", "Standby"}
    BY Table DEF ModeTable, TypeOK, State, PoweredOn, Operational, Blackout, Stopping, PoweredDown
  <1>2. Mode' = "Off" /\ Reason' = "none"
    BY TableNext DEF ModeTable
  <1> QED BY <1>1, <1>2 DEF Supervisor!Restart, Supervisor!Step

\* The edges by the modes they join.
LEMMA EdgeKinds ==
  ASSUME NEW s, NEW t, Edge(s, t)
  PROVE  \/ s = "PowerOff" /\ t = "OffCharging"
         \/ s = "OffCharging" /\ t = "PowerOff"
         \/ s = "OffCharging" /\ t = "SystemStartup"
         \/ s = "SystemStartup" /\ t = "PowerOff"
         \/ s \in {"SystemStartup", "Standby"} /\ t = "OperationalSolo"
         \/ s \in PoweredOn /\ t \in PoweredOn
         \/ s \in PoweredOn /\ t \in Stopping
         \/ s \in PoweredOn /\ t \in PoweredDown
         \/ s = "ManualShutdown" /\ t = "PoweredDownManual"
         \/ s = "BlackoutShutdown" /\ t = "PoweredDownBlackout"
         \/ s = "EnteringStandby" /\ t = "Standby"
  <1> USE DEF PoweredOn, Operational, Blackout
  <1>1. CASE s \in PoweredOn
    <2>1. t \in PoweredOn \/ t \in Stopping \/ t \in PoweredDown
      BY <1>1 DEF Edge, Stopping, PoweredDown
    <2> QED BY <1>1, <2>1
  <1>2. CASE s \notin PoweredOn
    BY <1>2 DEF Edge
  <1> QED BY <1>1, <1>2

\* Every edge of the graph is a step of the supervisor, or none.
LEMMA EdgeMode ==
  ASSUME TypeOK, TypeOK', RailsFollowState, RailsFollowState',
         NEW t \in State, Edge(state, t), state' = t
  PROVE Supervisor!Next \/ UNCHANGED Supervisor!svars
  <1> USE DEF Supervisor!Step, PoweredOn, Operational, Blackout, Stopping, PoweredDown
  <1> USE DEF ModeTable
  <1>a. /\ state \in On => en_5v = TRUE
        /\ state \notin On => en_5v = FALSE
    BY Zenon DEF TypeOK, RailsFollowState, On
  <1>b. /\ t \in On => en_5v' = TRUE
        /\ t \notin On => en_5v' = FALSE
    BY Zenon DEF TypeOK, RailsFollowState, On
  <1>0. ModeTable /\ ModeTable' /\ state' = t
    BY Table, TableNext
  <1>1. CASE \/ state = "PowerOff" /\ t = "OffCharging"
             \/ state = "OffCharging" /\ t = "PowerOff"
    BY <1>0, <1>a, <1>b, <1>1 DEF On, Supervisor!svars
  <1>2. CASE state = "OffCharging" /\ t = "SystemStartup"
    <2>1. Supervisor!Start BY <1>0, <1>a, <1>b, <1>2 DEF On, Supervisor!Start
    <2> QED BY <2>1 DEF Supervisor!Next
  <1>3. CASE state = "SystemStartup" /\ t = "PowerOff"
    <2>1. Supervisor!Abort BY <1>0, <1>a, <1>b, <1>3 DEF On, Supervisor!Abort
    <2> QED BY <2>1 DEF Supervisor!Next
  <1>4. CASE state \in {"SystemStartup", "Standby"} /\ t = "OperationalSolo"
    <2>1. Supervisor!Up BY <1>0, <1>a, <1>b, <1>4 DEF On, Supervisor!Up
    <2> QED BY <2>1 DEF Supervisor!Next
  <1>5. CASE state \in PoweredOn /\ t \in PoweredOn
    BY <1>0, <1>a, <1>b, <1>5 DEF On, Supervisor!svars
  <1>6. CASE state \in PoweredOn /\ t \in Stopping
    <2>1. Reason' \in {"command", "blackout", "standby"}
      BY <1>0, <1>a, <1>b, <1>6
    <2>2. Supervisor!Stop(Reason') BY <1>0, <1>a, <1>b, <1>6, <2>1 DEF On, Supervisor!Stop
    <2> QED BY <2>1, <2>2 DEF Supervisor!Next
  <1>7. CASE state \in PoweredOn /\ t \in PoweredDown
    <2>1. Reason' \in {"command", "blackout"}
      BY <1>0, <1>a, <1>b, <1>7
    <2>2. Supervisor!Cut(Reason') BY <1>0, <1>a, <1>b, <1>7, <2>1 DEF On, Supervisor!Cut
    <2> QED BY <2>1, <2>2 DEF Supervisor!Next
  <1>8. CASE \/ state = "ManualShutdown" /\ t = "PoweredDownManual"
             \/ state = "BlackoutShutdown" /\ t = "PoweredDownBlackout"
    <2>1. Supervisor!Halt BY <1>0, <1>a, <1>b, <1>8 DEF On, Supervisor!Halt
    <2> QED BY <2>1 DEF Supervisor!Next
  <1>9. CASE state = "EnteringStandby" /\ t = "Standby"
    <2>1. Supervisor!Suspend BY <1>0, <1>a, <1>b, <1>9 DEF On, Supervisor!Suspend
    <2> QED BY <2>1 DEF Supervisor!Next
  <1> QED BY <1>1, <1>2, <1>3, <1>4, <1>5, <1>6, <1>7, <1>8, <1>9, EdgeKinds

THEOREM Implements == Spec => ImplementsSupervisor
<1>1. Init => Supervisor!Init
  BY Table DEF ModeTable, Init, Supervisor!Init
<1>2. TypeOK /\ TypeOK' /\ RailsFollowState /\ RailsFollowState' /\ [Next]_vars
        => [Supervisor!Next]_(Supervisor!svars)
  <2> SUFFICES ASSUME TypeOK, TypeOK', RailsFollowState, RailsFollowState', [Next]_vars
               PROVE Supervisor!Next \/ UNCHANGED Supervisor!svars
    OBVIOUS
  <2>1. ASSUME Reset PROVE Supervisor!Next
    <3>1. Supervisor!Restart BY <2>1, ResetMode DEF Reset
    <3> QED BY <3>1 DEF Supervisor!Next
  <2>2. CASE HandleEvent
    <3>1. CASE Stayed \/ Ignore
      <4>1. UNCHANGED <<state, en_5v>> BY <3>1 DEF Stayed, Ignore, machine, outputs
      <4> QED BY <4>1, SameMode
    <3>2. ASSUME NEW t \in State, Edge(state, t), Moved(t)
          PROVE Supervisor!Next \/ UNCHANGED Supervisor!svars
      BY <3>2, EdgeMode DEF Moved
    <3> QED BY <2>1, <2>2, <3>1, <3>2, HandleSplits, LiveFollows DEF Follows
  <2>3. CASE InitMachine
    <3>1. state' = state /\ state = "PowerOff"
      BY <2>3 DEF InitMachine, RailsFollowState
    <3>2. en_5v' = FALSE
      BY <3>1 DEF RailsFollowState, PoweredOn, Operational, Blackout, Stopping
    <3>3. Supervisor!Restart BY <3>1, <3>2, ResetMode
    <3> QED BY <3>3 DEF Supervisor!Next
  <2>4. CASE Crash
    BY <2>1, <2>4 DEF Crash
  <2>5. CASE Quiet
    <3>1. UNCHANGED <<state, en_5v>> BY <2>5 DEF Quiet, outputs
    <3> QED BY <3>1, SameMode
  <2> QED BY <2>2, <2>3, <2>4, <2>5, NextSplits
<1> QED BY <1>1, <1>2, TypeCorrect, RailsCorrect, PTL DEF Spec, ImplementsSupervisor, Supervisor!Spec

----------------------------------------------------------------------------
(* The watchdog is armed exactly in the cooperative states *)

LEMMA GotoArmed ==
  ASSUME CoOpHasTimeout, NEW t \in State, NEW m \in Timeouts, NEW a, GotoWith(t, m, a),
         t \in {"OperationalCoOp", "BlackoutCoOp", "HostUnresponsive"} => m > 0,
         t = "BlackoutSolo" => m = 0
  PROVE CoOpHasTimeout'
  BY DEF GotoWith, CoOpHasTimeout

LEMMA StayArmed ==
  ASSUME CoOpHasTimeout, NEW a, NEW b, Ignore \/ SetContext(host_watchdog_timeout_ms, a, b)
  PROVE CoOpHasTimeout'
  BY DEF Ignore, SetContext, CoOpHasTimeout, machine, context

LEMMA LiveArmed ==
  ASSUME TypeOK, CoOpHasTimeout, NEW e \in Event, Live(e) PROVE CoOpHasTimeout'
  <1> DEFINE m == host_watchdog_timeout_ms
  <1>a. m \in Timeouts /\ e.ms \in Timeouts BY MsType DEF TypeOK, Timeouts
  <1>b. /\ state \in {"OperationalCoOp", "BlackoutCoOp", "HostUnresponsive"} => m > 0
        /\ state \in {"OperationalSolo", "BlackoutSolo"} => m = 0
    BY DEF CoOpHasTimeout
  <1>c. ASSUME NEW t \in State \ {"OperationalCoOp", "BlackoutCoOp", "HostUnresponsive", "BlackoutSolo"},
               Goto(t)
        PROVE CoOpHasTimeout'
    BY <1>a, <1>c, GotoArmed DEF Goto
  <1>d. ASSUME powered_on(e) PROVE CoOpHasTimeout'
    BY <1>d, <1>c, StayArmed DEF powered_on, State, PoweredDown
  <1> USE DEF State, PoweredOn, Operational, Blackout, Stopping, PoweredDown
  <1> HIDE DEF m
  <1>1. CASE power_off(e)
    BY <1>1, <1>c, StayArmed DEF power_off
  <1>2. CASE off_charging(e)
    BY <1>2, <1>c, StayArmed DEF off_charging
  <1>3. CASE system_startup(e)
    BY <1>3, <1>c, StayArmed DEF system_startup
  <1>4. CASE operational_solo(e)
    <2>1. CASE Goto("BlackoutSolo")
      BY <1>4, <2>1, <1>a, <1>b, GotoArmed DEF Goto, operational_solo, m
    <2>2. CASE e.ms > 0 /\ GotoWith("OperationalCoOp", e.ms, 0)
      BY <2>2, <1>a, GotoArmed
    <2>3. CASE operational(e)
      BY <2>3, <1>c, <1>d DEF operational
    <2> QED BY <1>4, <2>1, <2>2, <2>3 DEF operational_solo
  <1>5. CASE operational_co_op(e)
    <2>1. CASE Goto("BlackoutCoOp") \/ Goto("HostUnresponsive")
      BY <1>5, <2>1, <1>a, <1>b, GotoArmed DEF Goto, operational_co_op, m
    <2>2. CASE Goto("OperationalSolo") \/ operational(e)
      BY <2>2, <1>c, <1>d DEF operational
    <2>3. CASE e.ms > 0 /\ SetContext(e.ms, ping_age, vscap_alarm_active)
      BY <1>5, <2>3 DEF SetContext, CoOpHasTimeout, operational_co_op
    <2> QED BY <1>5, <2>1, <2>2, <2>3 DEF operational_co_op
  <1>6. CASE blackout_solo(e)
    <2>1. CASE GotoWith("BlackoutShutdown", host_watchdog_timeout_ms, ping_age)
      BY <2>1, <1>a, GotoArmed DEF m
    <2> QED BY <1>6, <2>1, <1>c, <1>d DEF blackout_solo
  <1>7. CASE blackout_co_op(e)
    <2>1. CASE Goto("OperationalCoOp")
      BY <1>7, <2>1, <1>a, <1>b, GotoArmed DEF Goto, blackout_co_op, m
    <2> QED BY <1>7, <2>1, <1>c, <1>d DEF blackout_co_op
  <1>8. CASE host_unresponsive(e)
    <2>1. CASE GotoWith("OperationalCoOp", host_watchdog_timeout_ms, 0)
      BY <1>8, <2>1, <1>a, <1>b, GotoArmed DEF host_unresponsive, m
    <2> QED BY <1>8, <2>1, <1>c, <1>d DEF host_unresponsive
  <1>9. CASE manual_shutdown(e)
    BY <1>9, <1>c, StayArmed DEF manual_shutdown, Stopped
  <1>10. CASE blackout_shutdown(e)
    BY <1>10, <1>c, StayArmed DEF blackout_shutdown, Stopped
  <1>11. CASE entering_standby(e)
    BY <1>11, <1>c, StayArmed DEF entering_standby, Stopped
  <1>12. CASE standby(e)
    BY <1>12, <1>c, StayArmed DEF standby
  <1> QED
    BY <1>1, <1>2, <1>3, <1>4, <1>5, <1>6, <1>7, <1>8, <1>9, <1>10, <1>11, <1>12 DEF Live

\* CoOpHasTimeout: whatever timeouts the host writes and whenever they are handled,
\* no cooperative state is left without a watchdog and no solo state has one.
THEOREM CoOpCorrect == Spec => []CoOpHasTimeout
<1>1. Init => CoOpHasTimeout
  BY DEF Init, CoOpHasTimeout
<1>2. TypeOK /\ CoOpHasTimeout /\ [Next]_vars => CoOpHasTimeout'
  <2> SUFFICES ASSUME TypeOK, CoOpHasTimeout, [Next]_vars PROVE CoOpHasTimeout'
    OBVIOUS
  <2>1. Reset => CoOpHasTimeout'
    BY DEF Reset, CoOpHasTimeout
  <2>2. CASE HandleEvent
    <3>1. Ignore => CoOpHasTimeout' BY DEF Ignore, machine, context, CoOpHasTimeout
    <3>2. Handling => Head(events_to_process) \in Event BY BatchType
    <3> QED BY <2>1, <2>2, <3>1, <3>2, HandleSplits, LiveArmed
  <2>3. CASE InitMachine \/ Quiet
    BY <2>3 DEF InitMachine, Quiet, context, CoOpHasTimeout
  <2>4. CASE Crash
    BY <2>1, <2>4 DEF Crash
  <2> QED BY <2>2, <2>3, <2>4, NextSplits
<1> QED BY <1>1, <1>2, TypeCorrect, PTL DEF Spec

----------------------------------------------------------------------------
(* Shutdowns are on time and final *)

\* What holds of the entry age just after a Tick.
Within ==
  /\ state \in Stopping => entry_age <= ShutdownWait
  /\ state = "HostUnresponsive" => entry_age <= RebootDuration
  /\ state = "PoweredDownBlackout" => entry_age <= OffDuration
  /\ state = "BlackoutSolo" => entry_age <= solo_depleting_timeout_ms

\* A handled event enters a state anew or leaves it in time.
Punctual(e) ==
  \/ entry_age' = 0
  \/ UNCHANGED <<state, entry_age>> /\ (e.kind = "Tick" => Within)

LEMMA GotoPunctual ==
  ASSUME NEW e, NEW t, NEW m, NEW a, Goto(t) \/ GotoWith(t, m, a) PROVE Punctual(e)
  BY DEF Goto, GotoWith, Punctual

LEMMA StayPunctual ==
  ASSUME NEW e, NEW m, NEW a, NEW b, Ignore \/ SetContext(m, a, b), e.kind = "Tick" => Within
  PROVE Punctual(e)
  BY DEF Ignore, SetContext, machine, Punctual

LEMMA PoweredOnPunctual ==
  ASSUME NEW e, powered_on(e), e.kind = "Tick" => Within PROVE Punctual(e)
  BY GotoPunctual, StayPunctual DEF powered_on

LEMMA LivePunctual ==
  ASSUME TypeOK, NEW e, Live(e) PROVE Punctual(e)
  <1> USE ConstantTypes DEF TypeOK
  <1>1. CASE power_off(e)
    BY <1>1, GotoPunctual, StayPunctual, PoweredOnPunctual DEF power_off, Within, Stopping
  <1>2. CASE off_charging(e)
    BY <1>2, GotoPunctual, StayPunctual, PoweredOnPunctual DEF off_charging, Within, Stopping
  <1>3. CASE system_startup(e)
    BY <1>3, GotoPunctual, StayPunctual, PoweredOnPunctual DEF system_startup, Within, Stopping
  <1>4. CASE operational_solo(e)
    BY <1>4, GotoPunctual, StayPunctual, PoweredOnPunctual DEF operational_solo, operational, Within, Stopping
  <1>5. CASE operational_co_op(e)
    BY <1>5, GotoPunctual, StayPunctual, PoweredOnPunctual DEF operational_co_op, operational, Within, Stopping
  <1>6. CASE blackout_solo(e)
    <2>1. CASE Goto("OperationalSolo") \/ GotoWith("BlackoutShutdown", host_watchdog_timeout_ms, ping_age)
      BY <2>1, GotoPunctual
    <2>2. CASE powered_on(e) /\ (e.kind = "Tick" => entry_age <= solo_depleting_timeout_ms)
      <3>1. e.kind = "Tick" => Within BY <1>6, <2>2 DEF blackout_solo, Within, Stopping
      <3> QED BY <2>2, <3>1, PoweredOnPunctual
    <2>3. ~(entry_age > solo_depleting_timeout_ms) => entry_age <= solo_depleting_timeout_ms
      OBVIOUS
    <2> QED BY <1>6, <2>1, <2>2, <2>3, Zenon DEF blackout_solo
  <1>7. CASE blackout_co_op(e)
    BY <1>7, GotoPunctual, StayPunctual, PoweredOnPunctual DEF blackout_co_op, Within, Stopping
  <1>8. CASE host_unresponsive(e)
    <2>1. CASE \/ Goto("PoweredDownBlackout")
               \/ GotoWith("OperationalCoOp", host_watchdog_timeout_ms, 0)
      BY <2>1, GotoPunctual
    <2>2. CASE powered_on(e) /\ (e.kind = "Tick" => entry_age <= RebootDuration)
      <3>1. e.kind = "Tick" => Within BY <1>8, <2>2 DEF host_unresponsive, Within, Stopping
      <3> QED BY <2>2, <3>1, PoweredOnPunctual
    <2>3. ~(entry_age > RebootDuration) => entry_age <= RebootDuration
      OBVIOUS
    <2> QED BY <1>8, <2>1, <2>2, <2>3 DEF host_unresponsive
  <1>9. CASE manual_shutdown(e)
    <2>1. Stopped(e) => Punctual(e) BY <1>9, GotoPunctual DEF manual_shutdown
    <2>2. ~Stopped(e) => Ignore BY <1>9 DEF manual_shutdown
    <2>3. ~Stopped(e) /\ e.kind = "Tick" => Within
      BY <1>9 DEF manual_shutdown, Stopped, Within, Stopping
    <2> QED BY <2>1, <2>2, <2>3, StayPunctual
  <1>10. CASE blackout_shutdown(e)
    <2>1. Stopped(e) => Punctual(e) BY <1>10, GotoPunctual DEF blackout_shutdown
    <2>2. ~Stopped(e) => Ignore BY <1>10 DEF blackout_shutdown
    <2>3. ~Stopped(e) /\ e.kind = "Tick" => Within
      BY <1>10 DEF blackout_shutdown, Stopped, Within, Stopping
    <2> QED BY <2>1, <2>2, <2>3, StayPunctual
  <1>11. CASE entering_standby(e)
    <2>1. Stopped(e) => Punctual(e) BY <1>11, GotoPunctual DEF entering_standby
    <2>2. ~Stopped(e) => Ignore BY <1>11 DEF entering_standby
    <2>3. ~Stopped(e) /\ e.kind = "Tick" => Within
      BY <1>11 DEF entering_standby, Stopped, Within, Stopping
    <2> QED BY <2>1, <2>2, <2>3, StayPunctual
  <1>12. CASE standby(e)
    BY <1>12, GotoPunctual, StayPunctual, PoweredOnPunctual DEF standby, Within, Stopping
  <1> QED
    BY <1>1, <1>2, <1>3, <1>4, <1>5, <1>6, <1>7, <1>8, <1>9, <1>10, <1>11, <1>12 DEF Live

LEMMA PunctualInTime ==
  ASSUME TypeOK, TypeOK', NotOverstayed, Consume, UNCHANGED config,
         Punctual(Head(events_to_process))
  PROVE NotOverstayed'
  <1> USE ConstantTypes
  <1>1. CASE entry_age' = 0
    <2>1. /\ solo_depleting_timeout_ms \in SoloTimeouts /\ solo_depleting_timeout_ms \in Nat
          /\ lag' \in Nat
      BY DEF TypeOK
    <2>2. \A a, b \in Nat : 0 <= a + b
      OBVIOUS
    <2>3. 0 <= solo_depleting_timeout_ms + lag'
      BY <2>1, <2>2
    <2>4. 0 <= ShutdownWait + lag' /\ 0 <= RebootDuration + lag' /\ 0 <= OffDuration + lag'
      BY <2>1, <2>2
    <2> QED BY <1>1, <2>1, <2>3, <2>4, Zenon DEF NotOverstayed
  <1>2. CASE UNCHANGED <<state, entry_age>> /\ Head(events_to_process).kind = "Tick" /\ Within
    BY <1>2 DEF NotOverstayed, Within, Consume, TypeOK, config
  <1>3. CASE UNCHANGED <<state, entry_age>> /\ Head(events_to_process).kind # "Tick"
    BY <1>3 DEF NotOverstayed, Consume
  <1> QED BY <1>1, <1>2, <1>3 DEF Punctual


LEMMA HandlePunctual ==
  ASSUME TypeOK, HandleEvent
  PROVE Reset \/ (Consume /\ Punctual(Head(events_to_process)))
  <1> DEFINE e == Head(events_to_process)
  <1>1. CASE Consume /\ Live(e)
    BY <1>1, LivePunctual
  <1>2. CASE powered_down_blackout(e)
    <2>1. CASE e.kind = "Tick" /\ entry_age > OffDuration
      BY <1>2, <2>1 DEF powered_down_blackout, ResetIf
    <2>2. CASE ~(e.kind = "Tick" /\ entry_age > OffDuration)
      <3>1. e.kind = "Tick" => Within
        BY <1>2, <2>2, ConstantTypes DEF powered_down_blackout, Within, TypeOK, Stopping
      <3>2. Reset \/ (Consume /\ Ignore)
        BY <1>2 DEF powered_down_blackout, ResetIf
      <3> QED BY <3>1, <3>2, StayPunctual
    <2> QED BY <2>1, <2>2
  <1>3. CASE powered_down_manual(e)
    <2>1. state = "PoweredDownManual" /\ (Reset \/ (Consume /\ Ignore))
      BY <1>3 DEF powered_down_manual, ResetIf
    <2>2. Within BY <2>1 DEF Within, Stopping
    <2> QED BY <2>1, <2>2, StayPunctual
  <1> QED BY <1>1, <1>2, <1>3 DEF HandleEvent

\* NotOverstayed: a shutdown, a solo blackout, an unresponsive host and a blackout's
\* off time end within their limit and the delay of the task, for all limits.
THEOREM InTime == Spec => []NotOverstayed
<1>1. Init => NotOverstayed
  BY DEF Init, NotOverstayed, Stopping
<1>2. TypeOK /\ TypeOK' /\ NotOverstayed /\ [Next]_vars => NotOverstayed'
  <2> SUFFICES ASSUME TypeOK, TypeOK', NotOverstayed, [Next]_vars PROVE NotOverstayed'
    OBVIOUS
  <2> USE DEF vars, machine, context, outputs, task, host, inputs, config
  <2>1. Reset => NotOverstayed'
    BY DEF Reset, NotOverstayed, Stopping
  <2>2. CASE HandleEvent
    BY <2>1, <2>2, HandlePunctual, PunctualInTime, HandleSplits
  <2>3. CASE Advance
    <3>1. lag' = lag + 1 /\ state' = state /\ entry_age' <= entry_age + 1
      BY <2>3 DEF Advance, Older, TypeOK
    <3> QED BY <3>1, ConstantTypes DEF NotOverstayed, TypeOK
  <2>4. CASE Crash
    BY <2>1, <2>4 DEF Crash
  <2>5. CASE UNCHANGED <<state, entry_age, lag>>
    BY <2>5 DEF NotOverstayed
  <2>6. DrainChannel \/ SampleInputs \/ InitMachine => UNCHANGED <<state, entry_age, lag>>
    BY DEF DrainChannel, SampleInputs, InitMachine
  <2>7. I2cShutdown \/ I2cStandby \/ I2cOff \/ I2cOther \/ I2cSetWatchdogTimeout \/ I2cConfigure
          => UNCHANGED <<state, entry_age, lag>>
    BY DEF I2cShutdown, I2cStandby, I2cOff, I2cOther, I2cSetWatchdogTimeout, I2cConfigure, Accept
  <2>8. I2cPing \/ power_button_input \/ VinChanges \/ VscapChanges \/ CmRises \/ CmFalls
          => UNCHANGED <<state, entry_age, lag>>
    BY DEF I2cPing, power_button_input, VinChanges, VscapChanges, CmRises, CmFalls
  <2> QED BY <2>2, <2>3, <2>4, <2>5, <2>6, <2>7, <2>8 DEF Next
<1> QED BY <1>1, <1>2, TypeCorrect, PTL DEF Spec

LEMMA LiveClick ==
  ASSUME NEW e, Live(e) PROVE UNCHANGED double_clicked \/ state' = "BlackoutShutdown"
  BY DEF Live, power_off, off_charging, system_startup, operational_solo, operational_co_op,
     blackout_solo, blackout_co_op, host_unresponsive, manual_shutdown, blackout_shutdown,
     entering_standby, standby, operational, powered_on, Goto, GotoWith, SetContext, Ignore,
     machine, outputs

\* NoReturnAfterClick: once the CM has been told to shut down by the power button,
\* the controller powers down and resets, whatever happens in between.
THEOREM ClickIsFinal == Spec => []NoReturnAfterClick
<1>1. Init => NoReturnAfterClick
  BY DEF Init, NoReturnAfterClick
<1>2. NoReturnAfterClick /\ [Next]_vars => NoReturnAfterClick'
  <2> SUFFICES ASSUME NoReturnAfterClick, [Next]_vars PROVE NoReturnAfterClick'
    OBVIOUS
  <2>1. Reset => NoReturnAfterClick'
    BY DEF Reset, NoReturnAfterClick
  <2>2. CASE HandleEvent
    <3>1. ASSUME Live(Head(events_to_process)) PROVE NoReturnAfterClick'
      <4>1. CASE state' = "BlackoutShutdown"
        BY <4>1 DEF NoReturnAfterClick
      <4>2. CASE UNCHANGED double_clicked
        <5>1. Follows BY <3>1, LiveFollows
        <5> QED BY <4>2, <5>1 DEF Follows, Stayed, Moved, Edge, NoReturnAfterClick,
              PoweredOn, Operational, Blackout
      <4> QED BY <3>1, <4>1, <4>2, LiveClick
    <3>2. Ignore => NoReturnAfterClick'
      BY DEF Ignore, machine, outputs, NoReturnAfterClick
    <3> QED BY <2>1, <2>2, <3>1, <3>2, HandleSplits
  <2>3. CASE InitMachine \/ Quiet
    BY <2>3 DEF InitMachine, Quiet, outputs, NoReturnAfterClick
  <2>4. CASE Crash
    BY <2>1, <2>4 DEF Crash
  <2> QED BY <2>2, <2>3, <2>4, NextSplits
<1> QED BY <1>1, <1>2, PTL DEF Spec

----------------------------------------------------------------------------
(* Events in queues *)

LEMMA QueuedTail ==
  ASSUME NEW q \in Seq(Event), q # <<>>, NEW k
  PROVE /\ Queued(k, Tail(q)) => Queued(k, q)
        /\ Queued(k, q) => Head(q).kind = k \/ Queued(k, Tail(q))
  <1>1. /\ Len(q) \in Nat \ {0} /\ DOMAIN q = 1 .. Len(q) /\ Head(q) = q[1]
        /\ Tail(q) \in Seq(Event)
        /\ DOMAIN Tail(q) = 1 .. Len(q) - 1
        /\ \A i \in 1 .. Len(q) - 1 : Tail(q)[i] = q[i + 1]
    BY HeadTailProperties
  <1>2. ASSUME NEW i \in DOMAIN Tail(q), Tail(q)[i].kind = k PROVE Queued(k, q)
    <2>1. i + 1 \in DOMAIN q /\ q[i + 1].kind = k BY <1>1, <1>2
    <2> QED BY <2>1 DEF Queued
  <1>3. ASSUME NEW i \in DOMAIN q, q[i].kind = k, Head(q).kind # k PROVE Queued(k, Tail(q))
    <2>1. i # 1 BY <1>1, <1>3
    <2>2. i - 1 \in DOMAIN Tail(q) /\ Tail(q)[i - 1] = q[i] BY <1>1, <1>3, <2>1
    <2> QED BY <1>3, <2>2 DEF Queued
  <1> QED BY <1>2, <1>3 DEF Queued

LEMMA QueuedConcat ==
  ASSUME NEW q \in Seq(Event), NEW r \in Seq(Event), NEW k
  PROVE Queued(k, q \o r) <=> Queued(k, q) \/ Queued(k, r)
  <1>1. /\ Len(q) \in Nat /\ Len(r) \in Nat
        /\ DOMAIN q = 1 .. Len(q) /\ DOMAIN r = 1 .. Len(r)
        /\ DOMAIN (q \o r) = 1 .. Len(q) + Len(r)
        /\ \A i \in 1 .. Len(q) + Len(r) :
              (q \o r)[i] = IF i <= Len(q) THEN q[i] ELSE r[i - Len(q)]
    BY ConcatProperties
  <1>2. ASSUME NEW i \in DOMAIN (q \o r), (q \o r)[i].kind = k
        PROVE Queued(k, q) \/ Queued(k, r)
    <2>1. CASE i <= Len(q)
      <3>1. i \in DOMAIN q /\ q[i].kind = k BY <1>1, <1>2, <2>1
      <3> QED BY <3>1 DEF Queued
    <2>2. CASE ~(i <= Len(q))
      <3>1. i - Len(q) \in DOMAIN r /\ r[i - Len(q)].kind = k BY <1>1, <1>2, <2>2
      <3> QED BY <3>1 DEF Queued
    <2> QED BY <2>1, <2>2
  <1>3. ASSUME NEW i \in DOMAIN q, q[i].kind = k PROVE Queued(k, q \o r)
    <2>1. i \in DOMAIN (q \o r) /\ (q \o r)[i] = q[i] BY <1>1
    <2> QED BY <1>3, <2>1 DEF Queued
  <1>4. ASSUME NEW i \in DOMAIN r, r[i].kind = k PROVE Queued(k, q \o r)
    <2>1. i + Len(q) \in DOMAIN (q \o r) /\ (q \o r)[i + Len(q)] = r[i] BY <1>1
    <2> QED BY <1>4, <2>1 DEF Queued
  <1> QED BY <1>2, <1>3, <1>4 DEF Queued

LEMMA QueuedOne == ASSUME NEW e \in Event, NEW k PROVE Queued(k, <<e>>) <=> e.kind = k
  BY DEF Queued
LEMMA QueuedNone == ASSUME NEW k PROVE ~Queued(k, <<>>)
  BY DEF Queued

LEMMA QueuedSend ==
  ASSUME TypeOK, NEW e \in Event, NEW k, Send(e)
  PROVE Queued(k, channel') <=> Queued(k, channel) \/ e.kind = k
  <1>1. channel \in Seq(Event) /\ channel' = Append(channel, e)
    BY DEF TypeOK, Send
  <1>2. channel' = channel \o <<e>> /\ <<e>> \in Seq(Event)
    BY <1>1, AppendIsConcat
  <1>3. Queued(k, channel \o <<e>>) <=> Queued(k, channel) \/ Queued(k, <<e>>)
    BY <1>1, <1>2, QueuedConcat
  <1>4. Queued(k, <<e>>) <=> e.kind = k
    BY QueuedOne
  <1> QED BY <1>2, <1>3, <1>4, Zenon

LEMMA QueuedSampled ==
  ASSUME TypeOK, SampleInputs, NEW k
  PROVE /\ Queued(k, events_to_process')
             <=> \/ Queued(k, events_to_process) \/ Queued(k, CmEdge) \/ Queued(k, AlarmEdge)
                 \/ k = "Tick"
  <1> DEFINE b == events_to_process
  <1>1. /\ b \in Seq(Event) /\ CmEdge \in Seq(Event) /\ AlarmEdge \in Seq(Event)
        /\ <<Ev("Tick")>> \in Seq(Event) /\ Ev("Tick") \in Event /\ Ev("Tick").kind = "Tick"
    BY SampledType, EvType DEF TypeOK, Ev
  <1>2. /\ b \o CmEdge \in Seq(Event) /\ b \o CmEdge \o AlarmEdge \in Seq(Event)
    BY <1>1, ConcatProperties
  <1>3. events_to_process' = b \o CmEdge \o AlarmEdge \o <<Ev("Tick")>>
    BY DEF SampleInputs
  <1> HIDE DEF b
  <1>4. Queued(k, b \o CmEdge \o AlarmEdge) <=> Queued(k, b) \/ Queued(k, CmEdge) \/ Queued(k, AlarmEdge)
    BY <1>1, <1>2, QueuedConcat
  <1>5. Queued(k, <<Ev("Tick")>>) <=> k = "Tick"
    BY <1>1, QueuedOne
  <1> QED BY <1>1, <1>2, <1>3, <1>4, <1>5, QueuedConcat DEF b

----------------------------------------------------------------------------
(* The CM's edges *)

NoEdge(q) == ~Queued("ComputeModuleOn", q) /\ ~Queued("ComputeModuleOff", q)

\* Edges are never on the channel; the batch has at most the last one sampled, and
\* it agrees with prev_cm_on.
EdgeInv ==
  /\ NoEdge(channel)
  /\ drained => NoEdge(events_to_process)
  /\ Queued("ComputeModuleOn", events_to_process) => prev_cm_on
  /\ CmEdgeTracked

LEMMA EdgeSampled ==
  /\ Queued("ComputeModuleOn", CmEdge) => cm_on
  /\ ~cm_on /\ prev_cm_on => Queued("ComputeModuleOff", CmEdge)
  /\ Queued("ComputeModuleOff", CmEdge) => ~cm_on
  /\ \A k \in {"ComputeModuleOn", "ComputeModuleOff", "WatchdogPing"} : ~Queued(k, AlarmEdge)
  BY DEF CmEdge, AlarmEdge, Queued, Ev

LEMMA LiveOnOff ==
  ASSUME NEW e, Live(e), e.kind = "ComputeModuleOff", state \in PoweredOn \union Stopping
  PROVE state' \notin PoweredOn \union Stopping
  <1> USE DEF PoweredOn, Operational, Blackout, Stopping
  <1>1. CASE state \in PoweredOn
    <2>1. powered_on(e)
      BY <1>1 DEF Live, power_off, off_charging, system_startup, operational_solo,
         operational_co_op, blackout_solo, blackout_co_op, host_unresponsive, manual_shutdown,
         blackout_shutdown, entering_standby, standby, operational
    <2> QED BY <2>1 DEF powered_on, Goto, GotoWith
  <1>2. CASE state \in Stopping
    BY <1>2 DEF Live, power_off, off_charging, system_startup, operational_solo,
       operational_co_op, blackout_solo, blackout_co_op, host_unresponsive, manual_shutdown,
       blackout_shutdown, entering_standby, standby, Stopped, Goto, GotoWith
  <1> QED BY <1>1, <1>2

LEMMA LiveUp ==
  ASSUME NEW e, Live(e), state \notin PoweredOn \union Stopping,
         state' \in PoweredOn \union Stopping
  PROVE e.kind = "ComputeModuleOn"
  BY DEF Live, power_off, off_charging, system_startup, operational_solo,
     operational_co_op, blackout_solo, blackout_co_op, host_unresponsive, manual_shutdown,
     blackout_shutdown, entering_standby, standby, Stopped, Goto, GotoWith, Ignore, machine,
     PoweredOn, Operational, Blackout, Stopping

LEMMA ConsumeEdges ==
  ASSUME TypeOK, Handling, Consume, EdgeInv,
         \/ Ignore /\ state \notin PoweredOn \union Stopping
         \/ Live(Head(events_to_process))
  PROVE EdgeInv'
  <1> DEFINE e == Head(events_to_process)
  <1>1. /\ \A k : Queued(k, events_to_process') => Queued(k, events_to_process)
        /\ \A k : Queued(k, events_to_process) => e.kind = k \/ Queued(k, events_to_process')
    BY QueuedTail DEF TypeOK, Handling, Consume
  <1>2. channel' = channel /\ drained' = drained /\ ~drained /\ prev_cm_on' = prev_cm_on
    BY DEF Consume, Handling, host
  <1>3. NoEdge(channel)' /\ (drained' => NoEdge(events_to_process)')
        /\ (Queued("ComputeModuleOn", events_to_process') => prev_cm_on')
    BY <1>1, <1>2 DEF EdgeInv, NoEdge
  <1>4. CmEdgeTracked'
    <2>1. SUFFICES ASSUME state' \in PoweredOn \union Stopping
                   PROVE prev_cm_on \/ Queued("ComputeModuleOff", events_to_process')
      BY <1>2 DEF CmEdgeTracked
    <2>2. CASE Ignore /\ state \notin PoweredOn \union Stopping
      BY <2>1, <2>2 DEF Ignore, machine
    <2>3. CASE Live(e) /\ state \in PoweredOn \union Stopping
      BY <1>1, <2>1, <2>3, LiveOnOff DEF EdgeInv, CmEdgeTracked
    <2>4. CASE Live(e) /\ state \notin PoweredOn \union Stopping
      <3>1. e.kind = "ComputeModuleOn" BY <2>1, <2>4, LiveUp
      <3>2. Queued("ComputeModuleOn", events_to_process)
        <4>1. 1 \in DOMAIN events_to_process /\ e = events_to_process[1]
          BY DEF TypeOK, Handling
        <4> QED BY <3>1, <4>1 DEF Queued
      <3> QED BY <3>2 DEF EdgeInv
    <2> QED BY <2>2, <2>3, <2>4
  <1> QED BY <1>3, <1>4 DEF EdgeInv

LEMMA SendEdges ==
  ASSUME TypeOK, EdgeInv, NEW e \in Event, Send(e),
         e.kind \notin {"ComputeModuleOn", "ComputeModuleOff"},
         UNCHANGED <<machine, task>>
  PROVE EdgeInv'
  <1>1. NoEdge(channel)' BY QueuedSend DEF EdgeInv, NoEdge
  <1> QED BY <1>1 DEF EdgeInv, CmEdgeTracked, NoEdge, machine, task

LEMMA SameEdges ==
  ASSUME EdgeInv, UNCHANGED <<state, channel, events_to_process, drained, prev_cm_on>>
  PROVE EdgeInv'
  BY DEF EdgeInv, CmEdgeTracked, NoEdge

\* CmEdgeTracked: while the machine takes the CM for running, either the last level
\* sampled was high or the fall is still to be handled, so it cannot be missed.
THEOREM CmLossTracked == Spec => []CmEdgeTracked
<1>1. Init => EdgeInv
  BY QueuedNone DEF Init, EdgeInv, NoEdge, CmEdgeTracked, PoweredOn, Operational, Blackout, Stopping
<1>2. TypeOK /\ EdgeInv /\ [Next]_vars => EdgeInv'
  <2> SUFFICES ASSUME TypeOK, EdgeInv, [Next]_vars PROVE EdgeInv'
    OBVIOUS
  <2> USE DEF vars, machine, context, outputs, task, host
  <2>1. Reset => EdgeInv'
    BY QueuedNone DEF Reset, EdgeInv, NoEdge, CmEdgeTracked, PoweredOn, Operational, Blackout, Stopping
  <2>2. CASE DrainChannel
    <3>1. /\ channel' = <<>> /\ events_to_process' = channel /\ events_to_process = <<>>
          /\ prev_cm_on' = prev_cm_on /\ state' = state
      BY <2>2 DEF DrainChannel
    <3>2. state \in PoweredOn \union Stopping => prev_cm_on
      BY <3>1, QueuedNone DEF EdgeInv, CmEdgeTracked
    <3> QED BY <3>1, <3>2, QueuedNone DEF EdgeInv, NoEdge, CmEdgeTracked
  <2>3. CASE SampleInputs
    <3>1. /\ channel' = channel /\ drained' = FALSE /\ drained
          /\ prev_cm_on' = cm_on /\ state' = state
      BY <2>3 DEF SampleInputs
    <3>2. Queued("ComputeModuleOn", events_to_process') => cm_on
      BY <2>3, <3>1, QueuedSampled, EdgeSampled DEF EdgeInv, NoEdge
    <3>3. ~cm_on /\ prev_cm_on => Queued("ComputeModuleOff", events_to_process')
      BY <2>3, QueuedSampled, EdgeSampled
    <3>4. state \in PoweredOn \union Stopping => prev_cm_on
      BY <3>1 DEF EdgeInv, CmEdgeTracked, NoEdge
    <3> QED BY <3>1, <3>2, <3>3, <3>4 DEF EdgeInv, CmEdgeTracked, NoEdge
  <2>4. CASE InitMachine
    BY <2>4, SameEdges DEF InitMachine
  <2>5. CASE HandleEvent
    <3>1. CASE Consume /\ Live(Head(events_to_process))
      BY <2>5, <3>1, ConsumeEdges, HandleSplits
    <3>2. CASE Consume /\ Ignore /\ state \in PoweredDown
      BY <2>5, <3>2, ConsumeEdges, HandleSplits DEF PoweredDown, PoweredOn, Operational, Blackout, Stopping
    <3> QED BY <2>1, <2>5, <3>1, <3>2
          DEF HandleEvent, powered_down_blackout, powered_down_manual, ResetIf, PoweredDown
  <2>6. CASE I2cShutdown \/ I2cStandby \/ I2cOff
    <3>1. PICK k \in {"Shutdown", "StandbyShutdown", "Off"} : Send(Ev(k)) /\ UNCHANGED <<machine, task>>
      BY <2>6 DEF I2cShutdown, I2cStandby, I2cOff, Accept
    <3>2. Ev(k) \in Event /\ Ev(k).kind = k
      BY EvType DEF Ev
    <3> QED BY <3>1, <3>2, SendEdges
  <2>7. CASE I2cSetWatchdogTimeout
    <3>1. PICK t \in Timeouts :
            Send([kind |-> "SetWatchdogTimeout", ms |-> t]) /\ UNCHANGED <<machine, task>>
      BY <2>7 DEF I2cSetWatchdogTimeout, Accept, Timeouts
    <3>2. [kind |-> "SetWatchdogTimeout", ms |-> t] \in Event
      BY DEF Event, Timeouts
    <3> QED BY <3>1, <3>2, SendEdges
  <2>8. CASE I2cPing \/ power_button_input
    <3>1. PICK k \in {"WatchdogPing", "PowerButtonPress"} : Send(Ev(k)) /\ UNCHANGED <<machine, task>>
      BY <2>8 DEF I2cPing, power_button_input
    <3>2. Ev(k) \in Event /\ Ev(k).kind = k
      BY EvType DEF Ev
    <3> QED BY <3>1, <3>2, SendEdges
  <2>9. CASE I2cOther \/ I2cConfigure
    BY <2>9, SameEdges DEF I2cOther, I2cConfigure, Accept
  <2>10. CASE Advance \/ VinChanges \/ VscapChanges \/ CmRises \/ CmFalls
    BY <2>10, SameEdges DEF Advance, VinChanges, VscapChanges, CmRises, CmFalls
  <2>11. CASE Crash
    BY <2>1, <2>11 DEF Crash
  <2>12. CASE UNCHANGED vars
    BY <2>12, SameEdges
  <2> QED BY <2>2, <2>3, <2>4, <2>5, <2>6, <2>7, <2>8, <2>9, <2>10, <2>11, <2>12 DEF Next
<1>3. EdgeInv => CmEdgeTracked
  BY DEF EdgeInv
<1> QED BY <1>1, <1>2, <1>3, TypeCorrect, PTL DEF Spec

----------------------------------------------------------------------------
(* What the watchdog knows of the host *)

\* The second case of HostHeard: no ping is on its way.
Silent ==
  /\ state \in {"OperationalCoOp", "BlackoutCoOp"} => ping_age <= ping_sent_age
  /\ state = "HostUnresponsive" /\ ping_sent_age < MaxAge
       => ping_sent_age > host_watchdog_timeout_ms + entry_age

LEMMA LivePinged ==
  ASSUME TypeOK, NEW e, Live(e), e.kind = "WatchdogPing", ping_sent_age' = ping_sent_age
  PROVE Silent'
  <1>1. /\ state' \in {"OperationalCoOp", "BlackoutCoOp"} => ping_age' = 0
        /\ state' # "HostUnresponsive" \/ (state = "HostUnresponsive" /\ state' # state)
    BY DEF Live, power_off, off_charging, system_startup, operational_solo, operational_co_op,
       blackout_solo, blackout_co_op, host_unresponsive, manual_shutdown, blackout_shutdown, entering_standby, standby, Stopped, operational,
       powered_on, Goto, GotoWith, SetContext, Ignore, machine, context
  <1> QED BY <1>1, ConstantTypes DEF Silent, TypeOK

LEMMA LiveSilent ==
  ASSUME TypeOK, Silent, NEW e \in Event, Live(e), ping_sent_age' = ping_sent_age
  PROVE Silent'
  <1>0. /\ host_watchdog_timeout_ms \in Nat /\ ping_age \in Nat /\ ping_sent_age \in Nat
        /\ entry_age \in Nat
    BY ConstantTypes DEF TypeOK, Timeouts
  <1>1. CASE state \in {"OperationalCoOp", "BlackoutCoOp"}
    <2>1. \/ state' \notin {"OperationalCoOp", "BlackoutCoOp", "HostUnresponsive"}
          \/ state' \in {"OperationalCoOp", "BlackoutCoOp"} /\ ping_age' \in {ping_age, 0}
          \/ /\ state' = "HostUnresponsive" /\ entry_age' = 0
             /\ host_watchdog_timeout_ms' = host_watchdog_timeout_ms
             /\ state = "OperationalCoOp" /\ ping_age > host_watchdog_timeout_ms
      BY <1>1 DEF Live, power_off, off_charging, system_startup, operational_solo, operational_co_op,
       blackout_solo, blackout_co_op, host_unresponsive, manual_shutdown, blackout_shutdown, entering_standby, standby, operational,
         powered_on, Goto, GotoWith, SetContext, Ignore, machine, context
    <2> QED BY <1>0, <1>1, <2>1 DEF Silent
  <1>2. CASE state = "HostUnresponsive"
    <2>1. \/ state' = "OperationalCoOp" /\ ping_age' = 0
          \/ state' \notin {"OperationalCoOp", "BlackoutCoOp", "HostUnresponsive"}
          \/ UNCHANGED <<state, host_watchdog_timeout_ms, entry_age>>
      BY <1>2 DEF Live, power_off, off_charging, system_startup, operational_solo, operational_co_op,
       blackout_solo, blackout_co_op, host_unresponsive, manual_shutdown, blackout_shutdown, entering_standby, standby, operational,
         powered_on, Goto, GotoWith, SetContext, Ignore, machine, context
    <2> QED BY <1>0, <1>2, <2>1 DEF Silent
  <1>3. CASE state \notin {"OperationalCoOp", "BlackoutCoOp", "HostUnresponsive"}
    <2>1. \/ state' \notin {"OperationalCoOp", "BlackoutCoOp", "HostUnresponsive"}
          \/ state' = "OperationalCoOp" /\ ping_age' = 0
      BY <1>3 DEF Live, power_off, off_charging, system_startup, operational_solo, operational_co_op,
       blackout_solo, blackout_co_op, host_unresponsive, manual_shutdown, blackout_shutdown, entering_standby, standby, Stopped, operational,
         powered_on, Goto, GotoWith, SetContext, Ignore, machine, context
    <2> QED BY <1>0, <2>1 DEF Silent
  <1> QED BY <1>1, <1>2, <1>3

LEMMA HostHeardCases == HostHeard <=> PingPending \/ Silent
  BY DEF HostHeard, Silent
LEMMA HostHeardCasesNext == HostHeard' <=> PingPending' \/ Silent'
  BY DEF HostHeard, Silent

LEMMA SilentElsewhere ==
  ASSUME state' \notin {"OperationalCoOp", "BlackoutCoOp", "HostUnresponsive"} PROVE Silent'
  BY DEF Silent

\* The steps of the tasks that fill the queues.
LEMMA SendHeard ==
  ASSUME TypeOK, HostHeard, NEW e \in Event, Send(e),
         UNCHANGED <<machine, task, ping_sent_age>>
  PROVE HostHeard'
  <1>1. PingPending => PingPending'
    BY QueuedSend DEF PingPending, task
  <1>2. Silent => Silent'
    BY DEF Silent, machine, context
  <1> QED BY <1>1, <1>2, HostHeardCases, HostHeardCasesNext

LEMMA SameHeard ==
  ASSUME HostHeard, UNCHANGED <<state, entry_age, host_watchdog_timeout_ms, ping_age,
                                ping_sent_age, channel, events_to_process>>
  PROVE HostHeard'
  <1>1. (PingPending => PingPending') /\ (Silent => Silent')
    BY DEF PingPending, Silent
  <1> QED BY <1>1, HostHeardCases, HostHeardCasesNext

LEMMA ConsumeHeard ==
  ASSUME TypeOK, HostHeard, Handling, Consume, Live(Head(events_to_process))
  PROVE HostHeard'
  <1> DEFINE e == Head(events_to_process)
  <1>1. e \in Event /\ ping_sent_age' = ping_sent_age /\ channel' = channel
    BY BatchType DEF Consume, host
  <1>2. CASE e.kind = "WatchdogPing"
    BY <1>1, <1>2, LivePinged, HostHeardCasesNext
  <1>3. CASE PingPending /\ e.kind # "WatchdogPing"
    <2>1. PingPending'
      BY <1>1, <1>3, QueuedTail DEF PingPending, TypeOK, Handling, Consume
    <2> QED BY <2>1, HostHeardCasesNext
  <1>4. CASE Silent
    BY <1>1, <1>4, LiveSilent, HostHeardCasesNext
  <1> QED BY <1>2, <1>3, <1>4, HostHeardCases

LEMMA AdvanceHeard ==
  ASSUME TypeOK, HostHeard, Advance PROVE HostHeard'
  <1>0. /\ MaxAge \in Nat /\ host_watchdog_timeout_ms \in Nat /\ ping_age \in 0 .. MaxAge
        /\ ping_sent_age \in 0 .. MaxAge /\ entry_age \in 0 .. MaxAge
    BY ConstantTypes DEF TypeOK, Timeouts
  <1>1. /\ state' = state /\ host_watchdog_timeout_ms' = host_watchdog_timeout_ms
        /\ ping_age' = Older(ping_age) /\ ping_sent_age' = Older(ping_sent_age)
        /\ entry_age' <= entry_age + 1 /\ entry_age' \in Nat
        /\ channel' = channel /\ events_to_process' = events_to_process
    BY <1>0 DEF Advance, Older, task, host
  <1>2. PingPending => PingPending'
    BY <1>1 DEF PingPending
  <1>3. ASSUME Silent PROVE Silent'
    <2>1. CASE state \in {"OperationalCoOp", "BlackoutCoOp"}
      <3>1. ping_age <= ping_sent_age
        BY <1>3, <2>1 DEF Silent
      <3>2. \A a, b \in 0 .. MaxAge : a <= b => Older(a) <= Older(b)
        BY <1>0 DEF Older
      <3>3. Older(ping_age) <= Older(ping_sent_age)
        BY <1>0, <3>1, <3>2
      <3>4. ping_age' <= ping_sent_age' /\ state' # "HostUnresponsive"
        BY <1>1, <2>1, <3>3
      <3> QED BY <3>4 DEF Silent
    <2>2. CASE state = "HostUnresponsive"
      <3>1. ASSUME ping_sent_age' < MaxAge
            PROVE  ping_sent_age' > host_watchdog_timeout_ms' + entry_age'
        <4>1. ping_sent_age < MaxAge /\ ping_sent_age' = ping_sent_age + 1
          BY <1>0, <1>1, <3>1 DEF Older
        <4>2. ping_sent_age > host_watchdog_timeout_ms + entry_age
          BY <1>3, <2>2, <4>1 DEF Silent
        <4>3. \A s, t, a, b \in Nat : s > t + a /\ b <= a + 1 => s + 1 > t + b
          OBVIOUS
        <4>4. entry_age' \in Nat /\ entry_age \in Nat /\ ping_sent_age \in Nat
          BY <1>0, <1>1
        <4>5. ping_sent_age + 1 > host_watchdog_timeout_ms + entry_age'
          BY <1>0, <1>1, <4>2, <4>3, <4>4, Zenon
        <4> QED BY <1>1, <4>1, <4>5
      <3> QED BY <1>1, <2>2, <3>1 DEF Silent
    <2>3. CASE state \notin {"OperationalCoOp", "BlackoutCoOp", "HostUnresponsive"}
      BY <1>1, <2>3 DEF Silent
    <2> QED BY <2>1, <2>2, <2>3
  <1> QED BY <1>2, <1>3, HostHeardCases, HostHeardCasesNext

\* HostHeard: what the machine believes of the host's silence never exceeds the
\* truth, unless a ping is still on its way to it.
THEOREM HostHeardHolds == Spec => []HostHeard
<1>1. Init => HostHeard
  BY DEF Init, HostHeard
<1>2. TypeOK /\ HostHeard /\ [Next]_vars => HostHeard'
  <2> SUFFICES ASSUME TypeOK, HostHeard, [Next]_vars PROVE HostHeard'
    OBVIOUS
  <2> USE DEF vars, machine, context, outputs, task, host
  <2>1. Reset => HostHeard'
    BY SilentElsewhere, HostHeardCasesNext DEF Reset
  <2>2. CASE DrainChannel
    <3>1. PingPending => PingPending'
      BY <2>2, QueuedNone DEF DrainChannel, PingPending
    <3>2. Silent => Silent'
      BY <2>2 DEF DrainChannel, Silent
    <3> QED BY <3>1, <3>2, HostHeardCases, HostHeardCasesNext
  <2>3. CASE SampleInputs
    <3>1. PingPending => PingPending'
      BY <2>3, QueuedSampled DEF SampleInputs, PingPending
    <3>2. Silent => Silent'
      BY <2>3 DEF SampleInputs, Silent
    <3> QED BY <3>1, <3>2, HostHeardCases, HostHeardCasesNext
  <2>4. CASE InitMachine
    BY <2>4, SameHeard DEF InitMachine
  <2>5. CASE HandleEvent
    <3>1. CASE Ignore /\ state \in PoweredDown
      BY <3>1, SilentElsewhere, HostHeardCasesNext DEF Ignore, PoweredDown
    <3>2. CASE Consume /\ Live(Head(events_to_process))
      BY <2>5, <3>2, ConsumeHeard, HandleSplits
    <3> QED BY <2>1, <2>5, <3>1, <3>2
          DEF HandleEvent, powered_down_blackout, powered_down_manual, ResetIf, PoweredDown
  <2>6. CASE I2cShutdown \/ I2cStandby \/ I2cOff
    <3>1. PICK k \in {"Shutdown", "StandbyShutdown", "Off"} :
            Send(Ev(k)) /\ UNCHANGED <<machine, task, ping_sent_age>>
      BY <2>6 DEF I2cShutdown, I2cStandby, I2cOff, Accept
    <3> QED BY <3>1, EvType, SendHeard
  <2>7. CASE I2cSetWatchdogTimeout
    <3>1. PICK t \in Timeouts : Send([kind |-> "SetWatchdogTimeout", ms |-> t])
                                  /\ UNCHANGED <<machine, task, ping_sent_age>>
      BY <2>7 DEF I2cSetWatchdogTimeout, Accept, Timeouts
    <3>2. [kind |-> "SetWatchdogTimeout", ms |-> t] \in Event
      BY DEF Event, Timeouts
    <3> QED BY <3>1, <3>2, SendHeard
  <2>8. CASE I2cPing
    <3>1. Send(Ev("WatchdogPing")) /\ Ev("WatchdogPing") \in Event
          /\ Ev("WatchdogPing").kind = "WatchdogPing"
      BY <2>8, EvType DEF I2cPing, Ev
    <3>2. PingPending' BY <3>1, QueuedSend DEF PingPending
    <3> QED BY <3>2, HostHeardCasesNext
  <2>9. CASE power_button_input
    BY <2>9, EvType, SendHeard DEF power_button_input
  <2>10. CASE I2cOther \/ I2cConfigure
    BY <2>10, SameHeard DEF I2cOther, I2cConfigure, Accept
  <2>11. CASE Advance
    BY <2>11, AdvanceHeard
  <2>12. CASE VinChanges \/ VscapChanges \/ CmRises \/ CmFalls
    BY <2>12, SameHeard DEF VinChanges, VscapChanges, CmRises, CmFalls
  <2>13. CASE Crash
    BY <2>1, <2>13 DEF Crash
  <2>14. CASE UNCHANGED vars
    BY <2>14, SameHeard
  <2> QED BY <2>2, <2>3, <2>4, <2>5, <2>6, <2>7, <2>8, <2>9, <2>10, <2>11, <2>12, <2>13, <2>14
          DEF Next
<1> QED BY <1>1, <1>2, TypeCorrect, PTL DEF Spec

----------------------------------------------------------------------------
(* The Tick ends each cycle's batch *)

TickInv ==
  /\ ~Queued("Tick", channel)
  /\ drained => ~Queued("Tick", events_to_process)
  /\ \A i \in DOMAIN events_to_process :
       events_to_process[i].kind = "Tick" => i = Len(events_to_process)

LEMMA SampledTick ==
  ASSUME TypeOK, SampleInputs, TickInv PROVE TickInv'
  <1> DEFINE q == events_to_process \o CmEdge \o AlarmEdge
  <1>1. /\ events_to_process \in Seq(Event) /\ CmEdge \in Seq(Event) /\ AlarmEdge \in Seq(Event)
        /\ Ev("Tick") \in Event
    BY SampledType, EvType DEF TypeOK
  <1>2. events_to_process \o CmEdge \in Seq(Event) /\ q \in Seq(Event)
    BY <1>1, ConcatProperties
  <1>3. ~Queued("Tick", events_to_process) /\ ~Queued("Tick", CmEdge) /\ ~Queued("Tick", AlarmEdge)
    BY DEF SampleInputs, TickInv, CmEdge, AlarmEdge, Queued, Ev
  <1>4. ~Queued("Tick", q)
    BY <1>1, <1>2, <1>3, QueuedConcat
  <1>5. events_to_process' = q \o <<Ev("Tick")>> /\ drained' = FALSE /\ channel' = channel
    BY DEF SampleInputs, host
  <1> HIDE DEF q
  <1>6. events_to_process' = Append(q, Ev("Tick"))
    BY <1>1, <1>2, <1>5, AppendIsConcat
  <1>7. \A i \in DOMAIN events_to_process' :
          events_to_process'[i].kind = "Tick" => i = Len(events_to_process')
    <2>1. /\ DOMAIN events_to_process' = 1 .. Len(q) + 1 /\ Len(events_to_process') = Len(q) + 1
          /\ \A i \in 1 .. Len(q) : events_to_process'[i] = q[i] /\ i \in DOMAIN q
          /\ Len(q) \in Nat
      BY <1>1, <1>2, <1>6, AppendProperties
    <2> QED BY <1>4, <2>1 DEF Queued
  <1> QED BY <1>5, <1>7 DEF TickInv

LEMMA ConsumeTick ==
  ASSUME TypeOK, Handling, Consume, TickInv
  PROVE TickInv' /\ (Head(events_to_process).kind = "Tick" => events_to_process' = <<>>)
  <1> DEFINE q == events_to_process
  <1>1. /\ Len(q) \in Nat \ {0} /\ DOMAIN q = 1 .. Len(q) /\ Head(q) = q[1]
        /\ Tail(q) \in Seq(Event) /\ Len(Tail(q)) = Len(q) - 1
        /\ DOMAIN Tail(q) = 1 .. Len(q) - 1
        /\ \A i \in 1 .. Len(q) - 1 : Tail(q)[i] = q[i + 1]
    BY HeadTailProperties DEF TypeOK, Handling
  <1>2. events_to_process' = Tail(q) /\ channel' = channel /\ drained' = drained /\ ~drained
    BY DEF Consume, Handling, host
  <1>3. \A i \in DOMAIN Tail(q) : Tail(q)[i].kind = "Tick" => i = Len(Tail(q))
    BY <1>1 DEF TickInv
  <1>4. Head(q).kind = "Tick" => Len(Tail(q)) = 0
    BY <1>1 DEF TickInv
  <1> QED BY <1>1, <1>2, <1>3, <1>4, EmptySeq DEF TickInv

LEMMA TickLast == Spec => []TickInv
<1>1. Init => TickInv
  BY QueuedNone DEF Init, TickInv
<1>2. TypeOK /\ TickInv /\ [Next]_vars => TickInv'
  <2> SUFFICES ASSUME TypeOK, TickInv, [Next]_vars PROVE TickInv'
    OBVIOUS
  <2> USE DEF vars, task, host
  <2>1. Reset => TickInv'
    BY QueuedNone DEF Reset, TickInv
  <2>2. CASE DrainChannel
    <3>1. channel' = <<>> /\ events_to_process' = channel
      BY <2>2 DEF DrainChannel
    <3> QED BY <3>1, QueuedNone DEF TickInv, Queued
  <2>3. CASE SampleInputs
    BY <2>3, SampledTick
  <2>4. CASE HandleEvent
    BY <2>1, <2>4, ConsumeTick, HandleSplits
  <2>5. ASSUME NEW e \in Event, e.kind # "Tick", Send(e), UNCHANGED task PROVE TickInv'
    BY <2>5, QueuedSend DEF TickInv
  <2>6. CASE I2cShutdown \/ I2cStandby \/ I2cOff \/ I2cPing \/ power_button_input
    <3>1. PICK k \in {"Shutdown", "StandbyShutdown", "Off", "WatchdogPing", "PowerButtonPress"} :
            Send(Ev(k)) /\ UNCHANGED task
      BY <2>6 DEF I2cShutdown, I2cStandby, I2cOff, Accept, I2cPing, power_button_input
    <3>2. Ev(k) \in Event /\ Ev(k).kind = k
      BY EvType DEF Ev
    <3> QED BY <2>5, <3>1, <3>2
  <2>7. CASE I2cSetWatchdogTimeout
    <3>1. PICK t \in Timeouts : Send([kind |-> "SetWatchdogTimeout", ms |-> t]) /\ UNCHANGED task
      BY <2>7 DEF I2cSetWatchdogTimeout, Accept, Timeouts
    <3>2. [kind |-> "SetWatchdogTimeout", ms |-> t] \in Event
      BY DEF Event, Timeouts
    <3> QED BY <2>5, <3>1, <3>2
  <2>8. CASE UNCHANGED <<events_to_process, drained, channel>>
    BY <2>8 DEF TickInv, Queued
  <2>9. InitMachine \/ I2cOther \/ I2cConfigure \/ Advance
          => UNCHANGED <<events_to_process, drained, channel>>
    BY DEF InitMachine, I2cOther, I2cConfigure, Accept, Advance
  <2>10. VinChanges \/ VscapChanges \/ CmRises \/ CmFalls
          => UNCHANGED <<events_to_process, drained, channel>>
    BY DEF VinChanges, VscapChanges, CmRises, CmFalls
  <2>11. CASE Crash
    BY <2>1, <2>11 DEF Crash
  <2> QED BY <2>2, <2>3, <2>4, <2>6, <2>7, <2>8, <2>9, <2>10, <2>11 DEF Next
<1> QED BY <1>1, <1>2, TypeCorrect, PTL DEF Spec

----------------------------------------------------------------------------
(* No false alarm *)

\* The two steps the watchdog takes against the host are steps of a Tick.
LEMMA WatchdogStep ==
  ASSUME TypeOK, TickInv, [Next]_vars,
         \/ state = "OperationalCoOp" /\ state' = "HostUnresponsive"
         \/ state = "HostUnresponsive" /\ state' = "PoweredDownBlackout"
  PROVE /\ state = "OperationalCoOp" => ping_age > host_watchdog_timeout_ms
        /\ state = "HostUnresponsive" => entry_age > RebootDuration
        /\ Queued("WatchdogPing", events_to_process) => FALSE
  <1> DEFINE e == Head(events_to_process)
  <1>1. HandleEvent
    BY NextSplits DEF InitMachine, Crash, Reset, Quiet
  <1>2. Handling /\ Consume /\ Live(e)
    BY <1>1, HandleSplits DEF Reset, Ignore, machine
  <1>3. /\ e.kind = "Tick"
        /\ state = "OperationalCoOp" => ping_age > host_watchdog_timeout_ms
        /\ state = "HostUnresponsive" => entry_age > RebootDuration
    BY <1>2 DEF Live, power_off, off_charging, system_startup, operational_solo, operational_co_op,
       blackout_solo, blackout_co_op, host_unresponsive, manual_shutdown, blackout_shutdown,
       entering_standby, standby,
       operational, powered_on, Goto, GotoWith, SetContext, Ignore, machine
  <1>4. Tail(events_to_process) = <<>>
    BY <1>2, <1>3, ConsumeTick DEF Consume
  <1>5. ~Queued("WatchdogPing", events_to_process)
    <2>1. events_to_process \in Seq(Event) /\ events_to_process # <<>>
      BY <1>2 DEF TypeOK, Handling
    <2>2. \A i \in DOMAIN events_to_process : i = 1
      <3>1. Len(Tail(events_to_process)) = Len(events_to_process) - 1
            /\ Len(events_to_process) \in Nat /\ DOMAIN events_to_process = 1 .. Len(events_to_process)
        BY <2>1, HeadTailProperties
      <3>2. Len(events_to_process) = 1
        BY <1>4, <3>1
      <3> QED BY <3>1, <3>2
    <2>3. \A i \in DOMAIN events_to_process : events_to_process[i] = e
      BY <2>1, <2>2
    <2> QED BY <1>3, <2>3 DEF Queued
  <1> QED BY <1>3, <1>5

\* NoFalseUnresponsive, for all timeouts and any channel.
THEOREM NoFalseUnresponsiveHolds == Spec => NoFalseUnresponsive
<1>1. TypeOK /\ HostHeard /\ TickInv /\ [Next]_vars
        => (state = "OperationalCoOp" /\ state' = "HostUnresponsive"
              => \/ ping_sent_age > host_watchdog_timeout_ms
                 \/ Queued("WatchdogPing", channel))
  <2> SUFFICES ASSUME TypeOK, HostHeard, TickInv, [Next]_vars,
                      state = "OperationalCoOp", state' = "HostUnresponsive"
               PROVE \/ ping_sent_age > host_watchdog_timeout_ms
                     \/ Queued("WatchdogPing", channel)
    OBVIOUS
  <2>1. ping_age > host_watchdog_timeout_ms /\ ~Queued("WatchdogPing", events_to_process)
    BY WatchdogStep
  <2>2. CASE PingPending
    BY <2>1, <2>2 DEF PingPending
  <2>3. CASE Silent
    <3>1. /\ ping_age \in Nat /\ ping_sent_age \in Nat /\ host_watchdog_timeout_ms \in Nat
      BY ConstantTypes DEF TypeOK, Timeouts
    <3> QED BY <2>1, <2>3, <3>1 DEF Silent
  <2> QED BY <2>2, <2>3, HostHeardCases
<1> QED BY <1>1, TypeCorrect, HostHeardHolds, TickLast, PTL DEF Spec, NoFalseUnresponsive

\* NoFalseReboot, for all timeouts and reboot delays.
THEOREM NoFalseRebootHolds == Spec => NoFalseReboot
<1>1. TypeOK /\ HostHeard /\ TickInv /\ [Next]_vars
        => (state = "HostUnresponsive" /\ state' = "PoweredDownBlackout"
              => \/ ping_sent_age > host_watchdog_timeout_ms + RebootDuration
                 \/ Queued("WatchdogPing", channel))
  <2> SUFFICES ASSUME TypeOK, HostHeard, TickInv, [Next]_vars,
                      state = "HostUnresponsive", state' = "PoweredDownBlackout"
               PROVE \/ ping_sent_age > host_watchdog_timeout_ms + RebootDuration
                     \/ Queued("WatchdogPing", channel)
    OBVIOUS
  <2>1. entry_age > RebootDuration /\ ~Queued("WatchdogPing", events_to_process)
    BY WatchdogStep
  <2>2. CASE PingPending
    BY <2>1, <2>2 DEF PingPending
  <2>3. CASE Silent
    <3>1. /\ entry_age \in Nat /\ ping_sent_age \in 0 .. MaxAge
          /\ host_watchdog_timeout_ms \in Nat
          /\ host_watchdog_timeout_ms + RebootDuration < MaxAge
      BY ConstantTypes, ConstantsAssumption DEF TypeOK, Timeouts
    <3>2. CASE ping_sent_age < MaxAge
      BY <2>1, <2>3, <3>1, <3>2, ConstantTypes DEF Silent
    <3>3. CASE ping_sent_age = MaxAge
      BY <3>1, <3>3, ConstantTypes
    <3> QED BY <3>1, <3>2, <3>3, ConstantTypes
  <2> QED BY <2>2, <2>3, HostHeardCases
<1> QED BY <1>1, TypeCorrect, HostHeardHolds, TickLast, PTL DEF Spec, NoFalseReboot
=============================================================================
