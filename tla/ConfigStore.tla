----------------------------- MODULE ConfigStore -----------------------------
(***************************************************************************)
(* The settings of the controller: RUNTIME_CONFIG, its setters, the        *)
(* configuration channel, and the task that writes flash and switches the  *)
(* USB ports (firmware/src/tasks/config_manager.rs).                       *)
(*                                                                         *)
(* A setter changes RAM, then waits, holding RUNTIME_CONFIG, for room in   *)
(* the channel; the value reaches flash when the task gets to it.  A write *)
(* to flash is atomic: sequential-storage leaves the old or the new item   *)
(* after a reset.  A failed one panics (unwrap), which ends in Reset.      *)
(* A key without an item counts as one that holds the default.  A read     *)
(* that fails at the start shows the default too, and flash keeps its item.*)
(***************************************************************************)
EXTENDS Naturals, Sequences

CONSTANTS
  Loaded,         \* the settings that are loaded at the start
  Scales,         \* the correction scales
  Guarded,        \* those that are saved in test mode only: the hardware version
  Values, Default,
  Ports,          \* the USB ports
  QueueCapacity   \* of CONFIG_MANAGER_EVENT_CHANNEL

Keys == Loaded \union Scales

\* The last conjunct leaves room for the machine's first UsbPowerOff and for a
\* write of a host that is still up after a reset: see HostMayWrite.
ASSUME ConfigAssumption ==
  /\ Guarded \subseteq Loaded /\ Loaded \intersect Scales = {}
  /\ Default \in Values
  /\ QueueCapacity \in Nat /\ QueueCapacity >= 2

VARIABLES
  flash,             \* the key-value map in flash
  runtime_config,    \* RUNTIME_CONFIG
  config_events,     \* CONFIG_MANAGER_EVENT_CHANNEL
  ready, config_event,          \* config_manager_task: loaded, and the event in hand
  usb_outputs, usb_source,      \* the enabled ports, and who set them last
  i2c_event,         \* what the I2C task is waiting to send
  en_5v, machine_event,         \* the 5V rail, and the USB event the machine sends
  current            \* the keys whose value in RAM is the last one written:
                     \* by a host since the start, or read back by the load

config  == <<runtime_config, current>>
task    == <<ready, config_event>>
usb     == <<usb_outputs, usb_source>>
machine == <<en_5v, machine_event>>
vars == <<flash, config, config_events, task, usb, i2c_event, machine>>

None == [type |-> "None"]
SetEvent(k, v) == [type |-> "Set", key |-> k, value |-> v]
PortEvent(ports) == [type |-> "UsbPortState", ports |-> ports]
PowerOn == [type |-> "UsbPowerOn"]
PowerOff == [type |-> "UsbPowerOff"]
IsSet(e, k) == e.type = "Set" /\ e.key = k

\* A setter keeps RUNTIME_CONFIG until its event is on the channel.
ConfigLocked == i2c_event.type = "Set"

\* Mutant: try_send, which drops the event when the channel is full.
SendOrDrop(event) ==
  config_events' = IF Len(config_events) < QueueCapacity
                     THEN Append(config_events, event) ELSE config_events
\* Mutant: room for one event more.
SendOneMore(event) ==
  /\ Len(config_events) <= QueueCapacity
  /\ config_events' = Append(config_events, event)
Send(event) ==
  /\ Len(config_events) < QueueCapacity
  /\ config_events' = Append(config_events, event)

\* What a start finds in RAM; enter_power_off is about to switch the ports off.
StartRam ==
  /\ runtime_config = [k \in Keys |-> Default] /\ current = {}
  /\ config_events = <<>>
  /\ ready = FALSE /\ config_event = None
  /\ usb_outputs = {} /\ usb_source = "none"
  /\ i2c_event = None
  /\ en_5v = FALSE /\ machine_event = PowerOff

Init ==
  /\ StartRam
  /\ flash \in [Keys -> Values]

----------------------------------------------------------------------------
(* The I2C task's registers *)

\* The I2C task is listening.  A host that is still up after a reset may write
\* before the settings are loaded; it is taken to write less than fills the
\* channel then, which would block the load for good.
HostMayWrite ==
  /\ i2c_event = None
  /\ ready \/ Len(config_events) + 1 < QueueCapacity

set_value(k, v) ==
  /\ HostMayWrite
  /\ runtime_config' = [runtime_config EXCEPT ![k] = v]
  /\ current' = current \union {k}
  /\ i2c_event' = SetEvent(k, v)
  /\ UNCHANGED <<flash, config_events, task, usb, machine>>

set_usb_port_state(ports) ==
  /\ HostMayWrite
  /\ i2c_event' = PortEvent(ports)
  /\ UNCHANGED <<flash, config, config_events, task, usb, machine>>

I2cSend ==
  /\ i2c_event # None
  /\ Send(i2c_event)
  /\ i2c_event' = None
  /\ UNCHANGED <<flash, config, task, usb, machine>>

----------------------------------------------------------------------------
(* The state machine: an entry action drives the rail, then sends *)

SwitchRail(on) ==
  /\ machine_event = None
  /\ en_5v' = on
  /\ machine_event' = IF on THEN PowerOn ELSE PowerOff
  /\ UNCHANGED <<flash, config, config_events, task, usb, i2c_event>>

MachineSend ==
  /\ machine_event # None
  /\ Send(machine_event)
  /\ machine_event' = None
  /\ UNCHANGED <<flash, config, task, usb, i2c_event, en_5v>>

----------------------------------------------------------------------------
(* config_manager_task *)

\* Every key but the correction scales is read, and one that cannot be read
\* gets the default, unwrap_or(None).unwrap_or(DEFAULT); only then is
\* RUNTIME_CONFIG taken and overwritten, whatever setters did meanwhile.  All
\* ports start on.
init_config_manager ==
  /\ ~ready /\ ~ConfigLocked
  /\ \E unread \in SUBSET Loaded :
       /\ runtime_config' = [k \in Keys |-> CASE k \in unread -> Default
                                             [] k \in Loaded \ unread -> flash[k]
                                             [] k \notin Loaded -> runtime_config[k]]
       /\ current' = (Loaded \ (unread \union current)) \union (current \intersect Scales)
  /\ ready' = TRUE
  /\ usb_outputs' = Ports /\ usb_source' = "start"
  /\ UNCHANGED <<flash, config_events, config_event, i2c_event, machine>>

\* Mutant: the newest event first.
ReceiveNewest ==
  /\ ready /\ config_event = None /\ config_events # <<>>
  /\ config_event' = config_events[Len(config_events)]
  /\ config_events' = SubSeq(config_events, 1, Len(config_events) - 1)
  /\ UNCHANGED <<flash, config, ready, usb, i2c_event, machine>>
ReceiveEvent ==
  /\ ready /\ config_event = None /\ config_events # <<>>
  /\ config_event' = Head(config_events)
  /\ config_events' = Tail(config_events)
  /\ UNCHANGED <<flash, config, ready, usb, i2c_event, machine>>

\* Mutant: stores what RAM holds by now.
StoreFromRam ==
  /\ config_event.type = "Set"
  /\ flash' = [flash EXCEPT ![config_event.key] = runtime_config[config_event.key]]
  /\ config_event' = None
  /\ UNCHANGED <<config, config_events, ready, usb, i2c_event, machine>>
\* Mutant: every setting asks for test mode.
StoreInTestMode ==
  /\ config_event.type = "Set"
  /\ \E test_mode \in BOOLEAN :
       flash' = IF ~test_mode THEN flash
                ELSE [flash EXCEPT ![config_event.key] = config_event.value]
  /\ config_event' = None
  /\ UNCHANGED <<config, config_events, ready, usb, i2c_event, machine>>
\* The hardware version is stored only while the test pin says so.
StoreSetting ==
  /\ config_event.type = "Set"
  /\ \E test_mode \in BOOLEAN :
       flash' = IF config_event.key \in Guarded /\ ~test_mode THEN flash
                ELSE [flash EXCEPT ![config_event.key] = config_event.value]
  /\ config_event' = None
  /\ UNCHANGED <<config, config_events, ready, usb, i2c_event, machine>>

SwitchPorts ==
  /\ config_event.type \in {"UsbPortState", "UsbPowerOn", "UsbPowerOff"}
  /\ CASE config_event.type = "UsbPortState" ->
            usb_outputs' = config_event.ports /\ usb_source' = "host"
       [] config_event.type = "UsbPowerOn" ->
            usb_outputs' = Ports /\ usb_source' = "machine"
       [] config_event.type = "UsbPowerOff" ->
            usb_outputs' = {} /\ usb_source' = "machine"
  /\ config_event' = None
  /\ UNCHANGED <<flash, config, config_events, ready, i2c_event, machine>>

----------------------------------------------------------------------------
(* Surroundings *)

\* A reset by the machine, the watchdog or a loss of power, at any step.
Reset ==
  /\ runtime_config' = [k \in Keys |-> Default] /\ current' = {}
  /\ config_events' = <<>>
  /\ ready' = FALSE /\ config_event' = None
  /\ usb_outputs' = {} /\ usb_source' = "none"
  /\ i2c_event' = None
  /\ en_5v' = FALSE /\ machine_event' = PowerOff
  /\ UNCHANGED flash

Next ==
  \/ \E k \in Keys, v \in Values : set_value(k, v)
  \/ \E ports \in SUBSET Ports : set_usb_port_state(ports)
  \/ I2cSend
  \/ \E on \in BOOLEAN : SwitchRail(on)
  \/ MachineSend
  \/ init_config_manager \/ ReceiveEvent \/ StoreSetting \/ SwitchPorts
  \/ Reset

Spec == Init /\ [][Next]_vars

\* The executor polls every ready task; a task waiting for room in a channel is
\* woken when there is some and, there being one other sender at most, gets it
\* in the end.
Fairness ==
  /\ WF_vars(init_config_manager) /\ WF_vars(ReceiveEvent)
  /\ WF_vars(StoreSetting) /\ WF_vars(SwitchPorts)
  /\ SF_vars(I2cSend) /\ SF_vars(MachineSend)
FairSpec == Spec /\ Fairness

----------------------------------------------------------------------------
(* Properties *)

HostEvent ==
  [type : {"Set"}, key : Keys, value : Values]
    \union [type : {"UsbPortState"}, ports : SUBSET Ports]
Event == HostEvent \union {PowerOn, PowerOff}

TypeOK ==
  /\ flash \in [Keys -> Values]
  /\ runtime_config \in [Keys -> Values] /\ current \in SUBSET Keys
  /\ config_events \in Seq(Event) /\ Len(config_events) <= QueueCapacity
  /\ ready \in BOOLEAN /\ config_event \in Event \union {None}
  /\ usb_outputs \in SUBSET Ports /\ usb_source \in {"none", "start", "machine", "host"}
  /\ i2c_event \in HostEvent \union {None}
  /\ en_5v \in BOOLEAN /\ machine_event \in {None, PowerOn, PowerOff}

\* The i-th event is the last one queued for k.
LastFor(k, i) ==
  /\ IsSet(config_events[i], k)
  /\ \A j \in i + 1 .. Len(config_events) : ~IsSet(config_events[j], k)

\* v is what flash holds for k once every event on its way has been handled.
Awaited(k, v) ==
  IF IsSet(i2c_event, k) THEN v = i2c_event.value
  ELSE IF \E i \in 1 .. Len(config_events) : IsSet(config_events[i], k)
    THEN \E i \in 1 .. Len(config_events) : LastFor(k, i) /\ v = config_events[i].value
  ELSE IF IsSet(config_event, k) THEN v = config_event.value
  ELSE v = flash[k]

\* A host reads in a register what the next start will find there, unless a
\* reset loses events on their way: the setters' order is the order in which
\* the task stores.  The exceptions are what `current` leaves out: a scale not
\* written since the start, a setting written before the load overwrote it, and
\* one that the load could not read, both until they are written again.
FlashCatchesUp == \A k \in current \ Guarded : Awaited(k, runtime_config[k])

\* Nobody waits with, holds or is about to handle a USB event of the machine.
UsbQuiet ==
  /\ ready /\ machine_event = None
  /\ \A i \in 1 .. Len(config_events) : config_events[i] \notin {PowerOn, PowerOff}
  /\ config_event \notin {PowerOn, PowerOff}

\* Once its events have been handled the ports follow the 5V rail, unless a
\* host's write was queued behind them.
UsbFollowsRail ==
  UsbQuiet => \/ usb_source = "host"
              \/ usb_source = "machine" /\ usb_outputs = IF en_5v THEN Ports ELSE {}

\* A setting that a host writes reaches flash, where the next start finds it,
\* unless the controller resets first.
WriteSaved ==
  \A k \in Loaded \ Guarded, v \in Values :
    ready /\ i2c_event = SetEvent(k, v) ~> flash[k] = v \/ ~ready

----------------------------------------------------------------------------
(* What the registers promise *)

InFlight ==
  (IF config_event = None THEN <<>> ELSE <<config_event>>) \o config_events
    \o (IF i2c_event = None THEN <<>> ELSE <<i2c_event>>)
Writes(events) ==
  LET written[i \in 0 .. Len(events)] ==
        IF i = 0 THEN <<>>
        ELSE IF events[i].type = "Set"
          THEN Append(written[i - 1], [key |-> events[i].key, value |-> events[i].value])
        ELSE written[i - 1]
  IN written[Len(events)]

Registers == INSTANCE DurableRegisters WITH
  shown <- runtime_config, saved <- flash, unsaved <- Writes(InFlight),
  Restored <- Loaded

\* The tasks, the lock and the channel implement registers whose writes are
\* saved in order, and of which a restart loses only the newest; what the load
\* overwrites in RAM or cannot read stays saved.
ImplementsRegisters == Registers!Spec
=============================================================================
