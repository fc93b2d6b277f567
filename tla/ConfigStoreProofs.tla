------------------------- MODULE ConfigStoreProofs -------------------------
(***************************************************************************)
(* Theorems about ConfigStore, for every set of settings, values and ports *)
(* and every capacity of the channel.                                      *)
(***************************************************************************)
EXTENDS ConfigStore, SequenceTheorems, TLAPS

USE DEF None, PowerOn, PowerOff

----------------------------------------------------------------------------
(* Events *)

LEMMA EventKinds ==
  /\ \A k \in Keys, v \in Values : SetEvent(k, v) \in HostEvent
  /\ \A ports \in SUBSET Ports : PortEvent(ports) \in HostEvent
  /\ PowerOn \in Event /\ PowerOff \in Event /\ HostEvent \subseteq Event
  /\ \A e \in HostEvent : e # PowerOn /\ e # PowerOff
  BY DEF Event, HostEvent, SetEvent, PortEvent

LEMMA SetEventFields ==
  ASSUME NEW e \in Event, e.type = "Set"
  PROVE  e.key \in Keys /\ e.value \in Values /\ e = SetEvent(e.key, e.value)
  BY DEF Event, HostEvent, SetEvent

----------------------------------------------------------------------------
(* Types *)

LEMMA NoEvents == <<>> \in Seq(Event) /\ Len(<<>>) = 0
  BY EmptySeq

LEMMA TypeInit == Init => TypeOK
<1> SUFFICES ASSUME Init PROVE TypeOK
  OBVIOUS
<1>1. config_events \in Seq(Event) /\ Len(config_events) <= QueueCapacity
  BY ConfigAssumption, NoEvents DEF Init, StartRam
<1>2. runtime_config \in [Keys -> Values] /\ current \in SUBSET Keys
  BY ConfigAssumption DEF Init, StartRam
<1> QED
  BY <1>1, <1>2 DEF Init, StartRam, TypeOK

LEMMA SendTyped ==
  ASSUME TypeOK, NEW e \in Event, Send(e)
  PROVE  config_events' \in Seq(Event) /\ Len(config_events') <= QueueCapacity
  BY ConfigAssumption, AppendProperties DEF TypeOK, Send

LEMMA TypeStep ==
  ASSUME TypeOK, [Next]_vars
  PROVE  TypeOK'
<1> USE DEF TypeOK
<1>1. ASSUME NEW k \in Keys, NEW v \in Values, set_value(k, v)
      PROVE  TypeOK'
  BY <1>1, EventKinds DEF set_value, task, usb, machine
<1>2. ASSUME NEW ports \in SUBSET Ports, set_usb_port_state(ports)
      PROVE  TypeOK'
  BY <1>2, EventKinds DEF set_usb_port_state, config, task, usb, machine
<1>3. CASE I2cSend
  <2>1. i2c_event \in Event
    BY <1>3, EventKinds DEF I2cSend
  <2> QED
    BY <1>3, <2>1, SendTyped DEF I2cSend, config, task, usb, machine
<1>4. ASSUME NEW on \in BOOLEAN, SwitchRail(on)
      PROVE  TypeOK'
  BY <1>4 DEF SwitchRail, config, task, usb
<1>5. CASE MachineSend
  <2>1. machine_event \in Event
    BY <1>5, EventKinds DEF MachineSend
  <2> QED
    BY <1>5, <2>1, SendTyped DEF MachineSend, config, task, usb
<1>6. CASE init_config_manager
  <2>1. PICK unread \in SUBSET Loaded :
          /\ runtime_config' = [k \in Keys |-> CASE k \in unread -> Default
                                                [] k \in Loaded \ unread -> flash[k]
                                                [] k \notin Loaded -> runtime_config[k]]
          /\ current' = (Loaded \ (unread \union current)) \union (current \intersect Scales)
    BY <1>6 DEF init_config_manager
  <2>2. \A k \in Keys : runtime_config'[k] \in Values
    BY <2>1, ConfigAssumption
  <2>3. runtime_config' \in [Keys -> Values] /\ current' \in SUBSET Keys
    BY <2>1, <2>2 DEF Keys
  <2> QED
    BY <1>6, <2>3 DEF init_config_manager, machine
<1>7. CASE ReceiveEvent
  <2>1. /\ Head(config_events) \in Event
        /\ Tail(config_events) \in Seq(Event)
        /\ Len(Tail(config_events)) = Len(config_events) - 1
    BY <1>7, HeadTailProperties DEF ReceiveEvent
  <2> QED
    BY <1>7, <2>1, ConfigAssumption, LenProperties DEF ReceiveEvent, config, usb, machine
<1>8. CASE StoreSetting
  <2>1. config_event.key \in Keys /\ config_event.value \in Values
    BY <1>8, SetEventFields DEF StoreSetting
  <2> QED
    BY <1>8, <2>1 DEF StoreSetting, config, usb, machine
<1>9. CASE SwitchPorts
  <2>1. config_event.type = "UsbPortState" => config_event.ports \in SUBSET Ports
    BY DEF Event, HostEvent
  <2> QED
    BY <1>9, <2>1 DEF SwitchPorts, config, machine
<1>10. CASE Reset
  <2>1. config_events' \in Seq(Event) /\ Len(config_events') <= QueueCapacity
    BY <1>10, ConfigAssumption, NoEvents DEF Reset
  <2>2. runtime_config' \in [Keys -> Values] /\ current' \in SUBSET Keys
    BY <1>10, ConfigAssumption DEF Reset
  <2> QED
    BY <1>10, <2>1, <2>2 DEF Reset
<1>11. CASE UNCHANGED vars
  BY <1>11 DEF vars, config, task, usb, machine
<1> QED
  BY <1>1, <1>2, <1>3, <1>4, <1>5, <1>6, <1>7, <1>8, <1>9, <1>10, <1>11 DEF Next

\* Every reachable state is well typed; the channel never holds more than its
\* capacity.
THEOREM TypeCorrect == Spec => []TypeOK
  BY TypeInit, TypeStep, PTL DEF Spec

----------------------------------------------------------------------------
(* The order of the writes *)

Queued(k) == \E i \in 1 .. Len(config_events) : IsSet(config_events[i], k)

\* Before the load nothing has been received, and what is on its way has been
\* written since the start.
EarlyWrites ==
  ~ready => /\ config_event = None
            /\ \A k \in Keys : IsSet(i2c_event, k) \/ Queued(k) => k \in current

InOrder == TypeOK /\ EarlyWrites /\ FlashCatchesUp

\* What is queued for k, and which event is the last, when one more is sent.
LEMMA SendOrder ==
  ASSUME TypeOK, NEW e \in Event, Send(e), NEW k \in Keys
  PROVE  /\ Queued(k)' <=> Queued(k) \/ IsSet(e, k)
         /\ IsSet(e, k) => \A n \in Nat : n = Len(config_events) + 1 =>
              LastFor(k, n)' /\ config_events'[n] = e
         /\ ~IsSet(e, k) => \A i \in 1 .. Len(config_events) :
              LastFor(k, i) => LastFor(k, i)' /\ config_events'[i] = config_events[i]
         /\ Len(config_events') = Len(config_events) + 1 /\ Len(config_events) \in Nat
<1>1. /\ Len(config_events) \in Nat
      /\ Len(config_events') = Len(config_events) + 1
      /\ \A i \in 1 .. Len(config_events) : config_events'[i] = config_events[i]
      /\ config_events'[Len(config_events) + 1] = e
  BY AppendProperties, LenProperties DEF TypeOK, Send
<1>2. \A i \in 1 .. Len(config_events) : IsSet(config_events[i], k) <=> IsSet(config_events'[i], k)
  BY <1>1
<1>3. Queued(k)' <=> Queued(k) \/ IsSet(e, k)
  <2>1. Queued(k)' <=> \E i \in 1 .. Len(config_events) + 1 : IsSet(config_events'[i], k)
    BY <1>1 DEF Queued
  <2>2. 1 .. Len(config_events) + 1 = (1 .. Len(config_events)) \union {Len(config_events) + 1}
    BY <1>1
  <2> QED
    BY <1>1, <1>2, <2>1, <2>2 DEF Queued
<1>4. ASSUME IsSet(e, k), NEW n \in Nat, n = Len(config_events) + 1
      PROVE  LastFor(k, n)' /\ config_events'[n] = e
  BY <1>1, <1>4 DEF LastFor
<1>5. ASSUME ~IsSet(e, k), NEW i \in 1 .. Len(config_events), LastFor(k, i)
      PROVE  LastFor(k, i)' /\ config_events'[i] = config_events[i]
  <2>1. ASSUME NEW j \in i + 1 .. Len(config_events) + 1
        PROVE  ~IsSet(config_events'[j], k)
    <3>1. CASE j = Len(config_events) + 1
      BY <1>1, <1>5, <3>1
    <3>2. CASE j \in i + 1 .. Len(config_events)
      BY <1>1, <1>2, <1>5, <3>2 DEF LastFor
    <3> QED
      BY <1>1, <3>1, <3>2
  <2> QED
    BY <1>1, <1>2, <1>5, <2>1 DEF LastFor
<1> QED
  BY <1>1, <1>3, <1>4, <1>5

\* The same when the first event is received.
LEMMA ReceiveOrder ==
  ASSUME TypeOK, ReceiveEvent, NEW k \in Keys
  PROVE  /\ config_event' = config_events[1]
         /\ Len(config_events) \in Nat \ {0} /\ Len(config_events') = Len(config_events) - 1
         /\ Queued(k)' => Queued(k)
         /\ Queued(k) /\ ~Queued(k)' => LastFor(k, 1) /\ IsSet(config_events[1], k)
         /\ \A i \in 1 .. Len(config_events) : LastFor(k, i) /\ i > 1 =>
              LastFor(k, i - 1)' /\ config_events'[i - 1] = config_events[i]
         /\ LastFor(k, 1) => ~Queued(k)'
<1>1. /\ Len(config_events) \in Nat \ {0}
      /\ Len(config_events') = Len(config_events) - 1
      /\ \A i \in 1 .. Len(config_events') : config_events'[i] = config_events[i + 1]
      /\ config_event' = config_events[1]
  BY HeadTailProperties, LenProperties, EmptySeq DEF TypeOK, ReceiveEvent
<1>2. Queued(k)' => \E i \in 2 .. Len(config_events) : IsSet(config_events[i], k)
  <2> SUFFICES ASSUME NEW j \in 1 .. Len(config_events'), IsSet(config_events'[j], k)
               PROVE  \E i \in 2 .. Len(config_events) : IsSet(config_events[i], k)
    BY DEF Queued
  <2>1. j + 1 \in 2 .. Len(config_events) /\ IsSet(config_events[j + 1], k)
    BY <1>1
  <2> QED
    BY <2>1
<1>3. ASSUME NEW i \in 2 .. Len(config_events), IsSet(config_events[i], k)
      PROVE  Queued(k)'
  <2>1. i - 1 \in 1 .. Len(config_events') /\ config_events'[i - 1] = config_events[i]
    BY <1>1
  <2> QED
    BY <1>3, <2>1 DEF Queued
<1>4. ASSUME NEW i \in 1 .. Len(config_events), LastFor(k, i), i > 1
      PROVE  LastFor(k, i - 1)' /\ config_events'[i - 1] = config_events[i]
  <2>1. i - 1 \in 1 .. Len(config_events') /\ config_events'[i - 1] = config_events[i]
    BY <1>1, <1>4
  <2>2. ASSUME NEW j \in i .. Len(config_events')
        PROVE  ~IsSet(config_events'[j], k)
    <3>1. j + 1 \in i + 1 .. Len(config_events) /\ config_events'[j] = config_events[j + 1]
      BY <1>1
    <3> QED
      BY <1>4, <3>1 DEF LastFor
  <2> QED
    BY <1>1, <1>4, <2>1, <2>2 DEF LastFor
<1>5. Queued(k) /\ ~Queued(k)' => LastFor(k, 1) /\ IsSet(config_events[1], k)
  <2> SUFFICES ASSUME Queued(k), ~Queued(k)'
               PROVE  LastFor(k, 1) /\ IsSet(config_events[1], k)
    OBVIOUS
  <2>1. PICK i \in 1 .. Len(config_events) : IsSet(config_events[i], k)
    BY DEF Queued
  <2>2. i = 1
    BY <1>1, <1>3, <2>1
  <2> QED
    BY <1>1, <1>3, <2>1, <2>2 DEF LastFor
<1>6. LastFor(k, 1) => ~Queued(k)'
  BY <1>1, <1>2 DEF LastFor
<1>7. Queued(k)' => Queued(k)
  BY <1>1, <1>2 DEF Queued
<1> QED
  BY <1>1, <1>4, <1>5, <1>6, <1>7

LEMMA InOrderInit == Init => InOrder
<1> SUFFICES ASSUME Init PROVE InOrder
  OBVIOUS
<1>1. Len(config_events) = 0
  BY NoEvents DEF Init, StartRam
<1> QED
  BY <1>1, TypeInit DEF Init, StartRam, InOrder, EarlyWrites, FlashCatchesUp, Queued, IsSet

LEMMA InOrderStep ==
  ASSUME InOrder, [Next]_vars
  PROVE  InOrder'
<1> USE DEF InOrder
<1>t. TypeOK'
  BY TypeStep
<1>q. Len(config_events) \in Nat
  BY LenProperties DEF TypeOK
<1>1. ASSUME NEW k \in Keys, NEW v \in Values, set_value(k, v)
      PROVE  EarlyWrites' /\ FlashCatchesUp'
  <2>1. IsSet(i2c_event', k) /\ i2c_event'.value = v /\ runtime_config'[k] = v
    BY <1>1 DEF set_value, SetEvent, IsSet, TypeOK
  <2>2. \A j \in Keys : j # k => /\ ~IsSet(i2c_event, j) /\ ~IsSet(i2c_event', j)
                                  /\ runtime_config'[j] = runtime_config[j]
    BY <1>1 DEF set_value, HostMayWrite, SetEvent, IsSet, TypeOK
  <2>3. FlashCatchesUp'
    <3> SUFFICES ASSUME NEW j \in current' \ Guarded
                 PROVE  Awaited(j, runtime_config[j])'
      BY DEF FlashCatchesUp
    <3>1. CASE j = k
      BY <2>1, <3>1 DEF Awaited
    <3>2. CASE j # k
      <4>1. Awaited(j, runtime_config[j]) /\ j \in Keys
        BY <1>1, <3>2 DEF set_value, FlashCatchesUp, TypeOK
      <4> QED
        BY <1>1, <2>2, <3>2, <4>1 DEF set_value, Awaited, LastFor, task, IsSet
    <3> QED
      BY <3>1, <3>2
  <2>4. EarlyWrites'
    BY <1>1, <2>1, <2>2 DEF set_value, HostMayWrite, EarlyWrites, Queued, task, IsSet
  <2> QED
    BY <2>3, <2>4
<1>2. ASSUME NEW ports \in SUBSET Ports, set_usb_port_state(ports)
      PROVE  EarlyWrites' /\ FlashCatchesUp'
  BY <1>2 DEF set_usb_port_state, HostMayWrite, PortEvent, EarlyWrites, FlashCatchesUp,
              Awaited, LastFor, Queued, IsSet, config, task
<1>3. CASE I2cSend
  <2>1. i2c_event \in Event /\ Send(i2c_event) /\ i2c_event' = None
    BY <1>3, EventKinds DEF I2cSend, TypeOK
  <2>2. EarlyWrites'
    BY <1>3, <2>1, SendOrder DEF I2cSend, EarlyWrites, config, task, IsSet
  <2>3. ASSUME NEW k \in current' \ Guarded
        PROVE  Awaited(k, runtime_config[k])'
    <3>1. Awaited(k, runtime_config[k]) /\ k \in Keys
      BY <1>3 DEF I2cSend, FlashCatchesUp, config, TypeOK
    <3>2. ~IsSet(i2c_event', k)
      BY <2>1 DEF IsSet
    <3>3. CASE IsSet(i2c_event, k)
      <4>1. \E n \in 1 .. Len(config_events') : LastFor(k, n)' /\ config_events'[n] = i2c_event
        BY <1>q, <2>1, <3>1, <3>3, SendOrder
      <4>2. i2c_event.value = runtime_config'[k]
        BY <1>3, <3>1, <3>3 DEF Awaited, I2cSend, config
      <4> QED
        BY <3>2, <4>1, <4>2 DEF Awaited, LastFor
    <3>4. CASE ~IsSet(i2c_event, k) /\ Queued(k)
      <4>1. PICK i \in 1 .. Len(config_events) :
                  LastFor(k, i) /\ runtime_config[k] = config_events[i].value
        BY <3>1, <3>4 DEF Awaited, Queued
      <4>2. i \in 1 .. Len(config_events') /\ LastFor(k, i)'
              /\ config_events'[i] = config_events[i]
        BY <1>q, <2>1, <3>1, <3>4, <4>1, SendOrder
      <4> QED
        BY <1>3, <3>2, <4>1, <4>2 DEF Awaited, LastFor, I2cSend, config
    <3>5. CASE ~IsSet(i2c_event, k) /\ ~Queued(k)
      <4>1. ~Queued(k)'
        BY <2>1, <3>1, <3>5, SendOrder
      <4> QED
        BY <1>3, <3>1, <3>2, <3>5, <4>1 DEF Awaited, Queued, I2cSend, config, task
    <3> QED
      BY <3>3, <3>4, <3>5
  <2> QED
    BY <1>t, <2>2, <2>3 DEF FlashCatchesUp
<1>4. ASSUME NEW on \in BOOLEAN, SwitchRail(on)
      PROVE  EarlyWrites' /\ FlashCatchesUp'
  BY <1>4 DEF SwitchRail, EarlyWrites, FlashCatchesUp, Awaited, LastFor, Queued, IsSet,
              config, task
<1>5. CASE MachineSend
  <2>1. machine_event \in Event /\ Send(machine_event)
        /\ \A k \in Keys : ~IsSet(machine_event, k)
    BY <1>5, EventKinds DEF MachineSend, TypeOK, IsSet
  <2>2. EarlyWrites'
    BY <1>5, <2>1, SendOrder DEF MachineSend, EarlyWrites, config, task
  <2>3. ASSUME NEW k \in current' \ Guarded
        PROVE  Awaited(k, runtime_config[k])'
    <3>1. Awaited(k, runtime_config[k]) /\ k \in Keys
      BY <1>5 DEF MachineSend, FlashCatchesUp, config, TypeOK
    <3>2. CASE IsSet(i2c_event, k)
      BY <1>5, <3>1, <3>2 DEF MachineSend, Awaited, config
    <3>3. CASE ~IsSet(i2c_event, k) /\ Queued(k)
      <4>1. PICK i \in 1 .. Len(config_events) :
                  LastFor(k, i) /\ runtime_config[k] = config_events[i].value
        BY <3>1, <3>3 DEF Awaited, Queued
      <4>2. i \in 1 .. Len(config_events') /\ LastFor(k, i)'
              /\ config_events'[i] = config_events[i]
        BY <1>q, <2>1, <3>1, <4>1, SendOrder
      <4> QED
        BY <1>5, <3>3, <4>1, <4>2 DEF Awaited, LastFor, MachineSend, config
    <3>4. CASE ~IsSet(i2c_event, k) /\ ~Queued(k)
      <4>1. ~Queued(k)'
        BY <2>1, <3>1, <3>4, SendOrder
      <4> QED
        BY <1>5, <3>1, <3>4, <4>1 DEF Awaited, Queued, MachineSend, config, task
    <3> QED
      BY <3>2, <3>3, <3>4
  <2> QED
    BY <1>t, <2>2, <2>3 DEF FlashCatchesUp
<1>6. CASE init_config_manager
  <2>1. EarlyWrites'
    BY <1>6 DEF init_config_manager, EarlyWrites
  <2>p. PICK unread \in SUBSET Loaded :
          /\ runtime_config' = [k \in Keys |-> CASE k \in unread -> Default
                                                [] k \in Loaded \ unread -> flash[k]
                                                [] k \notin Loaded -> runtime_config[k]]
          /\ current' = (Loaded \ (unread \union current)) \union (current \intersect Scales)
    BY <1>6 DEF init_config_manager
  <2>2. ASSUME NEW k \in current' \ Guarded
        PROVE  Awaited(k, runtime_config[k])'
    <3>1. CASE k \in Loaded
      <4>1. k \notin unread /\ k \notin current /\ k \in Keys /\ runtime_config'[k] = flash[k]
        BY <2>p, <2>2, <3>1, ConfigAssumption DEF Keys
      <4>2. ~IsSet(i2c_event, k) /\ ~Queued(k) /\ ~IsSet(config_event, k)
        BY <1>6, <4>1 DEF init_config_manager, EarlyWrites, IsSet
      <4> QED
        BY <1>6, <4>1, <4>2 DEF init_config_manager, Awaited, Queued
    <3>2. CASE k \notin Loaded
      <4>1. k \in current /\ k \in Keys /\ runtime_config'[k] = runtime_config[k]
        BY <2>p, <2>2, <3>2, ConfigAssumption DEF Keys, TypeOK
      <4>2. Awaited(k, runtime_config[k])
        BY <4>1, <2>2 DEF FlashCatchesUp
      <4> QED
        BY <1>6, <4>1, <4>2 DEF init_config_manager, Awaited, LastFor, IsSet
    <3> QED
      BY <3>1, <3>2
  <2> QED
    BY <1>t, <2>1, <2>2 DEF FlashCatchesUp
<1>7. CASE ReceiveEvent
  <2>1. EarlyWrites'
    BY <1>7 DEF ReceiveEvent, EarlyWrites
  <2>2. ASSUME NEW k \in current' \ Guarded
        PROVE  Awaited(k, runtime_config[k])'
    <3>1. Awaited(k, runtime_config[k]) /\ k \in Keys
      BY <1>7 DEF ReceiveEvent, FlashCatchesUp, config, TypeOK
    <3>2. CASE IsSet(i2c_event, k)
      BY <1>7, <3>1, <3>2 DEF ReceiveEvent, Awaited, config
    <3>3. CASE ~IsSet(i2c_event, k) /\ Queued(k)
      <4>1. PICK i \in 1 .. Len(config_events) :
                  LastFor(k, i) /\ runtime_config[k] = config_events[i].value
        BY <3>1, <3>3 DEF Awaited, Queued
      <4>2. CASE i = 1
        <5>1. ~Queued(k)' /\ config_event' = config_events[1] /\ IsSet(config_events[1], k)
          BY <1>7, <3>1, <4>1, <4>2, ReceiveOrder DEF LastFor
        <5> QED
          BY <1>7, <3>3, <4>1, <4>2, <5>1 DEF Awaited, Queued, ReceiveEvent, config
      <4>3. CASE i > 1
        <5>1. i - 1 \in 1 .. Len(config_events') /\ LastFor(k, i - 1)'
                /\ config_events'[i - 1] = config_events[i]
          BY <1>7, <3>1, <4>1, <4>3, ReceiveOrder
        <5> QED
          BY <1>7, <3>3, <4>1, <5>1 DEF Awaited, LastFor, ReceiveEvent, config
      <4> QED
        BY <1>q, <4>2, <4>3
    <3>4. CASE ~IsSet(i2c_event, k) /\ ~Queued(k)
      <4>1. ~Queued(k)' /\ ~IsSet(config_event', k) /\ ~IsSet(config_event, k)
        BY <1>7, <1>q, <3>1, <3>4, ReceiveOrder DEF Queued, ReceiveEvent, IsSet
      <4> QED
        BY <1>7, <3>1, <3>4, <4>1 DEF Awaited, Queued, ReceiveEvent, config
    <3> QED
      BY <3>2, <3>3, <3>4
  <2> QED
    BY <1>t, <2>1, <2>2 DEF FlashCatchesUp
<1>8. CASE StoreSetting
  <2>1. EarlyWrites'
    BY <1>8 DEF StoreSetting, EarlyWrites
  <2>2. ASSUME NEW k \in current' \ Guarded
        PROVE  Awaited(k, runtime_config[k])'
    <3>1. Awaited(k, runtime_config[k]) /\ k \in Keys
      BY <1>8 DEF StoreSetting, FlashCatchesUp, config, TypeOK
    <3>2. ~IsSet(config_event', k)
      BY <1>8 DEF StoreSetting, IsSet
    <3>3. flash'[k] = IF IsSet(config_event, k) THEN config_event.value ELSE flash[k]
      BY <1>8, <2>2, <3>1 DEF StoreSetting, IsSet, TypeOK
    <3> QED
      BY <1>8, <3>1, <3>2, <3>3 DEF Awaited, LastFor, IsSet, StoreSetting, config
  <2> QED
    BY <1>t, <2>1, <2>2 DEF FlashCatchesUp
<1>9. CASE SwitchPorts
  BY <1>9, <1>t DEF SwitchPorts, EarlyWrites, FlashCatchesUp, Awaited, LastFor, Queued, IsSet, config
<1>10. CASE Reset
  <2>1. Len(config_events') = 0
    BY <1>10, NoEvents DEF Reset
  <2> QED
    BY <1>10, <1>t, <2>1 DEF Reset, EarlyWrites, FlashCatchesUp, Queued, IsSet
<1>11. CASE UNCHANGED vars
  BY <1>11, <1>t DEF vars, config, task, usb, machine, EarlyWrites, FlashCatchesUp, Awaited, LastFor,
               Queued, IsSet
<1> QED
  BY <1>t, <1>1, <1>2, <1>3, <1>4, <1>5, <1>6, <1>7, <1>8, <1>9, <1>10, <1>11 DEF Next

\* What a register shows is what flash will hold once the events on their way
\* have been handled, for all keys, values and capacities, and whichever reads
\* fail at a start: of a key that shows something else, the value in RAM is one
\* that no host has written since and the load has not read.
THEOREM FlashCatchesUpHolds == Spec => []FlashCatchesUp
<1>1. InOrder => FlashCatchesUp
  BY DEF InOrder
<1> QED
  BY <1>1, InOrderInit, InOrderStep, PTL DEF Spec

----------------------------------------------------------------------------
(* The USB ports *)

Rail == IF en_5v THEN PowerOn ELSE PowerOff
IsPower(e) == e \in {PowerOn, PowerOff}
PowerQueued == \E i \in 1 .. Len(config_events) : IsPower(config_events[i])
LastPower(i) ==
  /\ IsPower(config_events[i])
  /\ \A j \in i + 1 .. Len(config_events) : ~IsPower(config_events[j])

\* The newest of the machine's USB events, wherever it waits, agrees with the
\* rail; when none is left, the ports do.  Before the load one is on its way.
RailTold ==
  IF machine_event # None THEN machine_event = Rail
  ELSE IF PowerQueued
    THEN \E i \in 1 .. Len(config_events) : LastPower(i) /\ config_events[i] = Rail
  ELSE IF IsPower(config_event) THEN config_event = Rail
  ELSE /\ ready
       /\ \/ usb_source = "host"
          \/ usb_source = "machine" /\ usb_outputs = IF en_5v THEN Ports ELSE {}
NothingReceived == ~ready => config_event = None

RailInv == TypeOK /\ NothingReceived /\ RailTold

LEMMA SendPower ==
  ASSUME TypeOK, NEW e \in Event, Send(e)
  PROVE  /\ IsPower(e) => \E n \in 1 .. Len(config_events') :
              LastPower(n)' /\ config_events'[n] = e
         /\ ~IsPower(e) => /\ PowerQueued' => PowerQueued
                           /\ \A i \in 1 .. Len(config_events) : LastPower(i) =>
                                /\ i \in 1 .. Len(config_events')
                                /\ LastPower(i)' /\ config_events'[i] = config_events[i]
<1>1. /\ Len(config_events) \in Nat
      /\ Len(config_events') = Len(config_events) + 1
      /\ \A i \in 1 .. Len(config_events) : config_events'[i] = config_events[i]
      /\ config_events'[Len(config_events) + 1] = e
  BY AppendProperties, LenProperties DEF TypeOK, Send
<1> HIDE DEF PowerOn, PowerOff
<1>2. ASSUME IsPower(e)
      PROVE  \E n \in 1 .. Len(config_events') : LastPower(n)' /\ config_events'[n] = e
  <2>1. PICK n \in 1 .. Len(config_events') : n = Len(config_events) + 1
    BY <1>1
  <2> QED
    BY <1>1, <1>2, <2>1 DEF LastPower
<1>3. ASSUME ~IsPower(e)
      PROVE  PowerQueued' => PowerQueued
  <2>1. ASSUME NEW i \in 1 .. Len(config_events'), IsPower(config_events'[i])
        PROVE  i \in 1 .. Len(config_events) /\ IsPower(config_events[i])
    <3>1. i # Len(config_events) + 1
      BY <1>1, <1>3, <2>1
    <3> QED
      BY <1>1, <2>1, <3>1
  <2> QED
    BY <2>1 DEF PowerQueued, IsPower
<1>4. ASSUME ~IsPower(e), NEW i \in 1 .. Len(config_events), LastPower(i)
      PROVE  /\ i \in 1 .. Len(config_events')
             /\ LastPower(i)' /\ config_events'[i] = config_events[i]
  <2>1. ASSUME NEW j \in i + 1 .. Len(config_events')
        PROVE  ~IsPower(config_events'[j])
    <3>1. CASE j = Len(config_events) + 1
      BY <1>1, <1>4, <3>1
    <3>2. CASE j # Len(config_events) + 1
      <4>1. j \in i + 1 .. Len(config_events)
        BY <1>1, <3>2
      <4>2. config_events'[j] = config_events[j] /\ ~IsPower(config_events[j])
        BY <1>1, <1>4, <4>1 DEF LastPower
      <4> QED
        BY <4>2
    <3> QED
      BY <3>1, <3>2
  <2>2. i \in 1 .. Len(config_events') /\ config_events'[i] = config_events[i]
    BY <1>1
  <2>3. IsPower(config_events'[i])
    BY <1>4, <2>2 DEF LastPower
  <2> QED
    BY <2>1, <2>2, <2>3 DEF LastPower, IsPower
<1> QED
  BY <1>2, <1>3, <1>4

LEMMA ReceivePower ==
  ASSUME TypeOK, ReceiveEvent
  PROVE  /\ config_event' = config_events[1]
         /\ \A i \in 1 .. Len(config_events) : LastPower(i) =>
              \/ i = 1 /\ ~PowerQueued'
              \/ /\ i - 1 \in 1 .. Len(config_events')
                 /\ LastPower(i - 1)' /\ config_events'[i - 1] = config_events[i]
         /\ ~PowerQueued => ~PowerQueued' /\ ~IsPower(config_event')
<1>1. /\ Len(config_events) \in Nat \ {0}
      /\ Len(config_events') = Len(config_events) - 1
      /\ \A i \in 1 .. Len(config_events') : config_events'[i] = config_events[i + 1]
      /\ config_event' = config_events[1]
  BY HeadTailProperties, LenProperties, EmptySeq DEF TypeOK, ReceiveEvent
<1> HIDE DEF PowerOn, PowerOff
<1>2. ASSUME LastPower(1)
      PROVE  ~PowerQueued'
  <2> SUFFICES ASSUME NEW j \in 1 .. Len(config_events'), IsPower(config_events'[j])
               PROVE  FALSE
    BY DEF PowerQueued, IsPower
  <2>1. j + 1 \in 2 .. Len(config_events) /\ IsPower(config_events[j + 1])
    BY <1>1
  <2> QED
    BY <1>2, <2>1 DEF LastPower
<1>3. ASSUME NEW i \in 1 .. Len(config_events), LastPower(i), i # 1
      PROVE  /\ i - 1 \in 1 .. Len(config_events')
             /\ LastPower(i - 1)' /\ config_events'[i - 1] = config_events[i]
  <2>1. i - 1 \in 1 .. Len(config_events') /\ config_events'[i - 1] = config_events[i]
    BY <1>1, <1>3
  <2>2. ASSUME NEW j \in i .. Len(config_events')
        PROVE  ~IsPower(config_events'[j])
    <3>1. j + 1 \in i + 1 .. Len(config_events) /\ config_events'[j] = config_events[j + 1]
      BY <1>1
    <3> QED
      BY <1>3, <3>1 DEF LastPower
  <2>3. IsPower(config_events'[i - 1])
    BY <1>3, <2>1 DEF LastPower
  <2> QED
    BY <2>1, <2>2, <2>3 DEF LastPower, IsPower
<1>4. ASSUME ~PowerQueued
      PROVE  ~PowerQueued' /\ ~IsPower(config_event')
  <2>1. \A i \in 1 .. Len(config_events) : ~IsPower(config_events[i])
    BY <1>4 DEF PowerQueued
  <2>2. ASSUME NEW j \in 1 .. Len(config_events')
        PROVE  ~IsPower(config_events'[j])
    <3>1. j + 1 \in 1 .. Len(config_events) /\ config_events'[j] = config_events[j + 1]
      BY <1>1
    <3> QED
      BY <2>1, <3>1
  <2> QED
    BY <1>1, <2>1, <2>2 DEF PowerQueued, IsPower
<1> QED
  BY <1>1, <1>2, <1>3, <1>4

LEMMA RailInit == Init => RailInv
  BY TypeInit DEF Init, StartRam, RailInv, NothingReceived, RailTold, Rail

LEMMA RailStep ==
  ASSUME RailInv, [Next]_vars
  PROVE  RailInv'
<1> USE DEF RailInv
<1>t. TypeOK'
  BY TypeStep
<1>1. ASSUME NEW k \in Keys, NEW v \in Values, set_value(k, v)
      PROVE  NothingReceived' /\ RailTold'
  BY <1>1 DEF set_value, NothingReceived, RailTold, PowerQueued, LastPower, Rail, IsPower,
              task, usb, machine
<1>2. ASSUME NEW ports \in SUBSET Ports, set_usb_port_state(ports)
      PROVE  NothingReceived' /\ RailTold'
  BY <1>2 DEF set_usb_port_state, NothingReceived, RailTold, PowerQueued, LastPower, Rail,
              IsPower, task, usb, machine
<1>3. CASE I2cSend
  <2>1. i2c_event \in Event /\ Send(i2c_event) /\ ~IsPower(i2c_event)
    BY <1>3, EventKinds DEF I2cSend, TypeOK, IsPower
  <2>2. NothingReceived'
    BY <1>3 DEF I2cSend, NothingReceived, task
  <2>3. RailTold'
    <3>1. CASE machine_event # None
      BY <1>3, <3>1 DEF I2cSend, RailTold, Rail, machine
    <3>2. CASE machine_event = None /\ PowerQueued
      <4>1. PICK i \in 1 .. Len(config_events) : LastPower(i) /\ config_events[i] = Rail
        BY <3>2 DEF RailTold
      <4>2. i \in 1 .. Len(config_events') /\ LastPower(i)' /\ config_events'[i] = Rail
        BY <2>1, <4>1, SendPower
      <4>3. PowerQueued' /\ machine_event' = None /\ Rail' = Rail
        BY <1>3, <3>2, <4>2 DEF PowerQueued, LastPower, I2cSend, machine, Rail
      <4> QED
        BY <4>2, <4>3 DEF RailTold
    <3>3. CASE machine_event = None /\ ~PowerQueued
      <4>1. ~PowerQueued'
        BY <2>1, <3>3, SendPower
      <4> QED
        BY <1>3, <3>3, <4>1 DEF RailTold, Rail, I2cSend, machine, task, usb, IsPower
    <3> QED
      BY <3>1, <3>2, <3>3
  <2> QED
    BY <1>t, <2>2, <2>3
<1>4. ASSUME NEW on \in BOOLEAN, SwitchRail(on)
      PROVE  NothingReceived' /\ RailTold'
  BY <1>4 DEF SwitchRail, NothingReceived, RailTold, Rail, task
<1>5. CASE MachineSend
  <2>1. machine_event \in Event /\ Send(machine_event) /\ IsPower(machine_event)
    BY <1>5, EventKinds DEF MachineSend, TypeOK, IsPower
  <2>2. NothingReceived'
    BY <1>5 DEF MachineSend, NothingReceived, task
  <2>3. machine_event = Rail /\ Rail' = Rail /\ machine_event' = None
    BY <1>5 DEF MachineSend, RailTold, Rail
  <2>4. PICK n \in 1 .. Len(config_events') : LastPower(n)' /\ config_events'[n] = machine_event
    BY <2>1, SendPower
  <2>5. PowerQueued'
    BY <2>4 DEF PowerQueued, LastPower
  <2> QED
    BY <1>t, <2>2, <2>3, <2>4, <2>5 DEF RailTold
<1>6. CASE init_config_manager
  <2>1. machine_event # None \/ PowerQueued
    BY <1>6 DEF init_config_manager, NothingReceived, RailTold, IsPower
  <2> QED
    BY <1>6, <1>t, <2>1 DEF init_config_manager, NothingReceived, RailTold, PowerQueued,
                            LastPower, Rail, IsPower, machine
<1>7. CASE ReceiveEvent
  <2>1. NothingReceived'
    BY <1>7 DEF ReceiveEvent, NothingReceived
  <2>2. RailTold'
    <3>1. CASE machine_event # None
      BY <1>7, <3>1 DEF ReceiveEvent, RailTold, Rail, machine
    <3>2. CASE machine_event = None /\ PowerQueued
      <4>1. PICK i \in 1 .. Len(config_events) : LastPower(i) /\ config_events[i] = Rail
        BY <3>2 DEF RailTold
      <4>2. Rail' = Rail /\ machine_event' = None
        BY <1>7, <3>2 DEF ReceiveEvent, Rail, machine
      <4>3. CASE i = 1 /\ ~PowerQueued'
        <5>1. config_event' = Rail
          BY <1>7, <4>1, <4>3, ReceivePower
        <5> QED
          BY <4>2, <4>3, <5>1 DEF RailTold, IsPower, Rail
      <4>4. CASE i - 1 \in 1 .. Len(config_events') /\ LastPower(i - 1)'
                   /\ config_events'[i - 1] = config_events[i]
        BY <4>1, <4>2, <4>4 DEF RailTold, PowerQueued, LastPower
      <4> QED
        BY <1>7, <4>1, <4>3, <4>4, ReceivePower
    <3>3. CASE machine_event = None /\ ~PowerQueued
      <4>1. ~PowerQueued' /\ ~IsPower(config_event')
        BY <1>7, <3>3, ReceivePower
      <4>2. ~IsPower(config_event)
        BY <1>7 DEF ReceiveEvent, IsPower
      <4> QED
        BY <1>7, <3>3, <4>1, <4>2 DEF RailTold, Rail, ReceiveEvent, machine, usb, IsPower
    <3> QED
      BY <3>1, <3>2, <3>3
  <2> QED
    BY <1>t, <2>1, <2>2
<1>8. CASE StoreSetting
  BY <1>8, <1>t DEF StoreSetting, NothingReceived, RailTold, PowerQueued, LastPower, Rail,
                    IsPower, usb, machine
<1>9. CASE SwitchPorts
  <2>1. config_event' = None /\ machine_event' = machine_event /\ ready' = ready
        /\ (PowerQueued' <=> PowerQueued) /\ Rail' = Rail
        /\ (\A i : LastPower(i)' <=> LastPower(i)) /\ config_events' = config_events
    BY <1>9 DEF SwitchPorts, machine, PowerQueued, LastPower, IsPower, Rail
  <2>2. CASE machine_event # None \/ PowerQueued
    BY <1>t, <2>1, <2>2 DEF NothingReceived, RailTold, IsPower
  <2>3. CASE machine_event = None /\ ~PowerQueued
    <3>1. ready
      BY <1>9 DEF SwitchPorts, NothingReceived
    <3>2. CASE config_event.type = "UsbPortState"
      <4>1. usb_source' = "host"
        BY <1>9, <3>2 DEF SwitchPorts
      <4>2. ~IsPower(config_event')
        BY <2>1 DEF IsPower
      <4>3. NothingReceived' /\ RailTold'
        BY <2>1, <2>3, <3>1, <4>1, <4>2 DEF NothingReceived, RailTold
      <4> QED
        BY <1>t, <4>3
    <3>3. CASE config_event.type # "UsbPortState"
      <4>1. config_event \in {PowerOn, PowerOff}
        BY <1>9, <3>3 DEF SwitchPorts, TypeOK, Event, HostEvent
      <4>2. config_event = Rail
        BY <2>3, <4>1 DEF RailTold, IsPower
      <4>3. usb_source' = "machine" /\ usb_outputs' = IF en_5v THEN Ports ELSE {}
        BY <1>9, <4>2 DEF SwitchPorts, Rail
      <4> QED
        BY <1>9, <1>t, <2>1, <2>3, <3>1, <4>3 DEF SwitchPorts, NothingReceived, RailTold,
                                                  IsPower, machine
    <3> QED
      BY <3>2, <3>3
  <2> QED
    BY <2>2, <2>3
<1>10. CASE Reset
  BY <1>10, <1>t DEF Reset, NothingReceived, RailTold, Rail
<1>11. CASE UNCHANGED vars
  BY <1>11, <1>t DEF vars, task, usb, machine, NothingReceived, RailTold, PowerQueued, LastPower,
                     Rail, IsPower
<1> QED
  BY <1>t, <1>1, <1>2, <1>3, <1>4, <1>5, <1>6, <1>7, <1>8, <1>9, <1>10, <1>11 DEF Next

\* Once its events have been handled the ports follow the 5V rail, unless the
\* last word was a host's, for all ports and capacities.
THEOREM UsbFollowsRailHolds == Spec => []UsbFollowsRail
<1>1. RailInv => UsbFollowsRail
  BY DEF RailInv, RailTold, UsbFollowsRail, UsbQuiet, PowerQueued, IsPower
<1> QED
  BY <1>1, RailInit, RailStep, PTL DEF Spec
=============================================================================
