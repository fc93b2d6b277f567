-------------------------- MODULE RegistersProofs --------------------------
(***************************************************************************)
(* ConfigStore implements DurableRegisters, for every set of settings,     *)
(* values and ports and every capacity of the channel.                     *)
(*                                                                         *)
(* The abstract queue of writes is a recursive function of the events in   *)
(* flight; the lemmas about it are by induction over the length of a       *)
(* sequence, stated with a set of numbers instead of a predicate.          *)
(***************************************************************************)
EXTENDS ConfigStoreProofs, WellFoundedInduction

USE DEF None, PowerOn, PowerOff

----------------------------------------------------------------------------
(* Induction over the natural numbers *)

LEMMA LeastElement ==
  ASSUME NEW T, T \subseteq Nat, T # {}
  PROVE  \E x \in T : \A y \in T : x <= y
<1>1. PICK x \in T : \A y \in T : ~(<<y, x>> \in OpToRel(<, Nat))
  BY NatLessThanWellFounded, WFMin
<1>2. \A y \in T : ~(y < x)
  BY <1>1 DEF OpToRel
<1> QED
  BY <1>2

LEMMA Induction ==
  ASSUME NEW S, 0 \in S, \A n \in Nat : n \in S => n + 1 \in S
  PROVE  Nat \subseteq S
<1> SUFFICES ASSUME Nat \ S # {} PROVE FALSE
  OBVIOUS
<1>1. PICK x \in Nat \ S : \A y \in Nat \ S : x <= y
  BY LeastElement
<1>2. x # 0 /\ x - 1 \in Nat /\ x - 1 \notin S
  BY <1>1
<1> QED
  BY <1>1, <1>2

----------------------------------------------------------------------------
(* The writes among some events *)

\* What one more event adds to the writes before it.
Extended(writes, e) ==
  IF e.type = "Set" THEN Append(writes, [key |-> e.key, value |-> e.value]) ELSE writes

\* f lists the writes among the first events, for every number of them up to n.
Lists(f, events, n) ==
  f = [i \in 0 .. n |-> IF i = 0 THEN <<>> ELSE Extended(f[i - 1], events[i])]

LEMMA ListsExist ==
  ASSUME NEW events, NEW n \in Nat
  PROVE  \E f : Lists(f, events, n)
<1> DEFINE S == {m \in Nat : \E f : Lists(f, events, m)}
<1>1. 0 \in S
  <2>1. Lists([i \in 0 .. 0 |-> <<>>], events, 0)
    BY DEF Lists
  <2> QED
    BY <2>1
<1>2. ASSUME NEW m \in Nat, m \in S
      PROVE  m + 1 \in S
  <2>1. PICK f : Lists(f, events, m)
    BY <1>2
  <2> DEFINE g == [i \in 0 .. m + 1 |->
                     IF i <= m THEN f[i] ELSE Extended(f[m], events[m + 1])]
  <2>2. ASSUME NEW i \in 0 .. m + 1
        PROVE  g[i] = IF i = 0 THEN <<>> ELSE Extended(g[i - 1], events[i])
    <3>1. CASE i = 0
      BY <2>1, <3>1 DEF Lists
    <3>2. CASE i \in 1 .. m
      <4>1. f[i] = Extended(f[i - 1], events[i])
        BY <2>1, <3>2 DEF Lists
      <4>2. g[i] = f[i] /\ g[i - 1] = f[i - 1]
        BY <3>2
      <4> QED
        BY <3>2, <4>1, <4>2
    <3>3. CASE i = m + 1
      <4>1. g[i] = Extended(f[m], events[i]) /\ g[i - 1] = f[m]
        BY <3>3
      <4> QED
        BY <3>3, <4>1
    <3> QED
      BY <3>1, <3>2, <3>3
  <2>3. Lists(g, events, m + 1)
    <3> HIDE DEF g
    <3>1. g = [i \in 0 .. m + 1 |-> g[i]]
      BY DEF g
    <3> QED
      BY <2>2, <3>1 DEF Lists
  <2> QED
    BY <2>3
<1>3. Nat \subseteq S
  <2> HIDE DEF S
  <2> QED
    BY <1>1, <1>2, Induction
<1> QED
  BY <1>3

\* The writes unfold: there is a list of them up to every event.
LEMMA WritesUnfold ==
  ASSUME NEW events \in Seq(Event)
  PROVE  \E f : /\ Lists(f, events, Len(events))
                /\ Writes(events) = f[Len(events)]
<1> DEFINE f == CHOOSE g : Lists(g, events, Len(events))
<1>1. Lists(f, events, Len(events))
  BY ListsExist, LenProperties
<1>2. Writes(events) = f[Len(events)]
  BY DEF Writes, Lists, Extended
<1> QED
  BY <1>1, <1>2

LEMMA ListsStep ==
  ASSUME NEW f, NEW events, NEW n \in Nat, Lists(f, events, n)
  PROVE  /\ f[0] = <<>>
         /\ \A i \in 1 .. n : f[i] = Extended(f[i - 1], events[i])
  BY DEF Lists

\* The lists of two sequences agree as long as the sequences do.
LEMMA ListsAgree ==
  ASSUME NEW s, NEW t, NEW f, NEW g, NEW m \in Nat, NEW n \in Nat,
         Lists(f, s, m), Lists(g, t, n), m <= n, \A i \in 1 .. m : s[i] = t[i]
  PROVE  \A i \in 0 .. m : f[i] = g[i]
<1> DEFINE S == {i \in Nat : i <= m => f[i] = g[i]}
<1>1. 0 \in S
  BY ListsStep
<1>2. ASSUME NEW i \in Nat, i \in S
      PROVE  i + 1 \in S
  <2> SUFFICES ASSUME i + 1 <= m PROVE f[i + 1] = g[i + 1]
    OBVIOUS
  <2>1. f[i] = g[i]
    BY <1>2
  <2>2. f[i + 1] = Extended(f[i], s[i + 1]) /\ g[i + 1] = Extended(g[i], t[i + 1])
    BY ListsStep
  <2> QED
    BY <2>1, <2>2
<1>3. Nat \subseteq S
  <2> HIDE DEF S
  <2> QED
    BY <1>1, <1>2, Induction
<1> QED
  BY <1>3

LEMMA NoWrites == Writes(<<>>) = <<>>
<1>1. PICK f : Lists(f, <<>>, Len(<<>>)) /\ Writes(<<>>) = f[Len(<<>>)]
  BY WritesUnfold, NoEvents
<1> QED
  BY <1>1, NoEvents, ListsStep

\* Writes is a homomorphism on sequences: an event more extends the writes.
LEMMA WritesAppend ==
  ASSUME NEW events \in Seq(Event), NEW e \in Event
  PROVE  Writes(Append(events, e)) = Extended(Writes(events), e)
<1> DEFINE more == Append(events, e)
<1>1. /\ more \in Seq(Event) /\ Len(more) = Len(events) + 1 /\ Len(events) \in Nat
      /\ more[Len(events) + 1] = e
      /\ \A i \in 1 .. Len(events) : more[i] = events[i]
  BY AppendProperties, LenProperties
<1> HIDE DEF more
<1>2. PICK f : Lists(f, events, Len(events)) /\ Writes(events) = f[Len(events)]
  BY WritesUnfold
<1>3. PICK g : Lists(g, more, Len(more)) /\ Writes(more) = g[Len(more)]
  BY <1>1, WritesUnfold
<1>4. f[Len(events)] = g[Len(events)]
  BY <1>1, <1>2, <1>3, ListsAgree
<1>5. g[Len(more)] = Extended(g[Len(events)], e)
  BY <1>1, <1>3, ListsStep
<1> QED
  BY <1>2, <1>3, <1>4, <1>5 DEF more

LEMMA SequenceInduction ==
  ASSUME NEW A, NEW S, <<>> \in S,
         \A s \in Seq(A), e \in A : s \in S => Append(s, e) \in S
  PROVE  Seq(A) \subseteq S
<1> DEFINE N == {n \in Nat : \A s \in Seq(A) : Len(s) = n => s \in S}
<1>1. 0 \in N
  BY EmptySeq
<1>2. ASSUME NEW n \in Nat, n \in N
      PROVE  n + 1 \in N
  <2> SUFFICES ASSUME NEW s \in Seq(A), Len(s) = n + 1 PROVE s \in S
    OBVIOUS
  <2>1. s # <<>>
    BY EmptySeq
  <2>2. PICK t \in Seq(A), e \in A : s = Append(t, e)
    BY <2>1, SequenceEmptyOrAppend
  <2>3. Len(t) = n
    BY <2>2, AppendProperties, LenProperties
  <2> QED
    BY <1>2, <2>2, <2>3
<1>3. Nat \subseteq N
  <2> HIDE DEF N
  <2> QED
    BY <1>1, <1>2, Induction
<1> QED
  BY <1>3, LenProperties

WriteOf(e) == [key |-> e.key, value |-> e.value]
RegisterWrite == [key : Keys, value : Values]

LEMMA WriteOfTyped ==
  ASSUME NEW e \in Event, e.type = "Set"
  PROVE  WriteOf(e) \in RegisterWrite
  BY SetEventFields DEF WriteOf, RegisterWrite

LEMMA WritesTyped ==
  ASSUME NEW events \in Seq(Event)
  PROVE  Writes(events) \in Seq(RegisterWrite)
<1> DEFINE S == {s \in Seq(Event) : Writes(s) \in Seq(RegisterWrite)}
<1>1. <<>> \in S
  BY NoWrites, EmptySeq
<1>2. ASSUME NEW s \in Seq(Event), NEW e \in Event, s \in S
      PROVE  Append(s, e) \in S
  <2>1. Append(s, e) \in Seq(Event)
    BY AppendProperties
  <2>2. Writes(Append(s, e)) = Extended(Writes(s), e) /\ Writes(s) \in Seq(RegisterWrite)
    BY <1>2, WritesAppend
  <2>3. Extended(Writes(s), e) \in Seq(RegisterWrite)
    BY <2>2, WriteOfTyped, AppendProperties DEF Extended, WriteOf
  <2> QED
    BY <2>1, <2>2, <2>3
<1>3. Seq(Event) \subseteq S
  <2> HIDE DEF S
  <2> QED
    BY <1>1, <1>2, SequenceInduction
<1> QED
  BY <1>3

LEMMA AppendToConcat ==
  \A W : \A a, b \in Seq(W), w \in W : a \o Append(b, w) = Append(a \o b, w)
<1> SUFFICES ASSUME NEW W, NEW a \in Seq(W), NEW b \in Seq(W), NEW w \in W
             PROVE  a \o Append(b, w) = Append(a \o b, w)
  OBVIOUS
<1>1. a \o b \in Seq(W) /\ <<w>> \in Seq(W)
  BY ConcatProperties
<1>2. Append(a \o b, w) = (a \o b) \o <<w>> /\ Append(b, w) = b \o <<w>>
  BY <1>1, AppendIsConcat
<1> QED
  BY <1>1, <1>2, ConcatAssociative

LEMMA WritesConcat ==
  ASSUME NEW s \in Seq(Event), NEW t \in Seq(Event)
  PROVE  Writes(s \o t) = Writes(s) \o Writes(t)
<1> DEFINE S == {u \in Seq(Event) : Writes(s \o u) = Writes(s) \o Writes(u)}
<1>1. <<>> \in S
  BY NoWrites, EmptySeq, ConcatEmptySeq, WritesTyped
<1>2. ASSUME NEW u \in Seq(Event), NEW e \in Event, u \in S
      PROVE  Append(u, e) \in S
  <2>1. Append(u, e) \in Seq(Event) /\ s \o u \in Seq(Event) /\ <<e>> \in Seq(Event)
    BY AppendProperties, ConcatProperties
  <2>2. s \o Append(u, e) = Append(s \o u, e)
    BY AppendToConcat
  <2>3. Writes(Append(s \o u, e)) = Extended(Writes(s) \o Writes(u), e)
    BY <1>2, <2>1, WritesAppend
  <2>4. Writes(Append(u, e)) = Extended(Writes(u), e)
    BY WritesAppend
  <2>5. Extended(Writes(s) \o Writes(u), e) = Writes(s) \o Extended(Writes(u), e)
    <3>1. /\ Writes(s) \in Seq(RegisterWrite) /\ Writes(u) \in Seq(RegisterWrite)
          /\ Writes(s) \o Writes(u) \in Seq(RegisterWrite)
      BY WritesTyped, ConcatProperties
    <3>2. CASE e.type = "Set"
      <4>1. WriteOf(e) \in RegisterWrite
        BY <3>2, WriteOfTyped
      <4>2. Writes(s) \o Append(Writes(u), WriteOf(e)) = Append(Writes(s) \o Writes(u), WriteOf(e))
        BY <3>1, <4>1, AppendToConcat
      <4> QED
        BY <3>2, <4>2 DEF Extended, WriteOf
    <3>3. CASE e.type # "Set"
      BY <3>3 DEF Extended
    <3> QED
      BY <3>2, <3>3
  <2> QED
    BY <2>1, <2>2, <2>3, <2>4, <2>5
<1>3. Seq(Event) \subseteq S
  <2> HIDE DEF S
  <2> QED
    BY <1>1, <1>2, SequenceInduction
<1> QED
  BY <1>3

----------------------------------------------------------------------------
(* What is in flight: the event in hand, the channel, the event being sent *)

Put(e) == IF e = None THEN <<>> ELSE <<e>>
MaybeEvent == Event \union {None}

LEMMA WritesOfOne ==
  ASSUME NEW e \in MaybeEvent
  PROVE  /\ Put(e) \in Seq(Event)
         /\ Writes(Put(e)) = IF e.type = "Set" THEN <<WriteOf(e)>> ELSE <<>>
         /\ e.type = "Set" => e \in Event
<1>1. CASE e = None
  BY <1>1, NoWrites, NoEvents DEF Put
<1>2. CASE e # None
  <2>1. e \in Event /\ Put(e) = <<e>>
    BY <1>2 DEF Put, MaybeEvent
  <2>2. <<e>> = Append(<<>>, e)
    BY <2>1, EmptySeq, ConcatEmptySeq, AppendIsConcat
  <2>3. Writes(<<e>>) = Extended(<<>>, e)
    BY <2>1, <2>2, NoWrites, NoEvents, WritesAppend
  <2>4. Append(<<>>, WriteOf(e)) = <<WriteOf(e)>>
    OBVIOUS
  <2> QED
    BY <2>1, <2>3, <2>4 DEF Extended, WriteOf
<1> QED
  BY <1>1, <1>2

\* The writes not yet saved: first the one in hand, last the one being sent.
LEMMA UnsavedParts ==
  ASSUME NEW held \in MaybeEvent, NEW queue \in Seq(Event), NEW sent \in MaybeEvent
  PROVE  /\ Writes((Put(held) \o queue) \o Put(sent))
              = (Writes(Put(held)) \o Writes(queue)) \o Writes(Put(sent))
         /\ Writes(Put(held)) \in Seq(RegisterWrite)
         /\ Writes(queue) \in Seq(RegisterWrite)
         /\ Writes(Put(sent)) \in Seq(RegisterWrite)
<1>1. Put(held) \in Seq(Event) /\ Put(sent) \in Seq(Event) /\ Put(held) \o queue \in Seq(Event)
  BY WritesOfOne, ConcatProperties
<1> QED
  BY <1>1, WritesConcat, WritesTyped

LEMMA InFlightParts ==
  InFlight = (Put(config_event) \o config_events) \o Put(i2c_event)
  BY DEF InFlight, Put

LEMMA InFlightTyped ==
  ASSUME TypeOK
  PROVE  config_event \in MaybeEvent /\ i2c_event \in MaybeEvent /\ machine_event \in MaybeEvent
  BY EventKinds DEF TypeOK, MaybeEvent

Unsaved == Writes(InFlight)

LEMMA UnsavedIs ==
  ASSUME TypeOK
  PROVE  Unsaved = (Writes(Put(config_event)) \o Writes(config_events)) \o Writes(Put(i2c_event))
  BY InFlightTyped, UnsavedParts DEF TypeOK, Unsaved, InFlight, Put

LEMMA UnsavedBecomes ==
  ASSUME TypeOK'
  PROVE  /\ Unsaved' = (Writes(Put(config_event')) \o Writes(config_events')) \o Writes(Put(i2c_event'))
         /\ config_event' \in MaybeEvent /\ i2c_event' \in MaybeEvent
         /\ config_events' \in Seq(Event)
<1>1. /\ config_event' \in MaybeEvent /\ i2c_event' \in MaybeEvent
      /\ config_events' \in Seq(Event)
  BY EventKinds DEF TypeOK, MaybeEvent
<1>2. Unsaved' = Writes((Put(config_event') \o config_events') \o Put(i2c_event'))
  BY DEF Unsaved, InFlight, Put
<1> QED
  BY <1>1, <1>2, UnsavedParts

LEMMA PutNothing == Put(None) = <<>> /\ Writes(Put(None)) = <<>>
  BY NoWrites DEF Put

----------------------------------------------------------------------------
(* Steps that a host does not see *)

\* A write to the ports, or the machine's event, is no write to a register.
LEMMA PortWriteUnseen ==
  ASSUME TypeOK, TypeOK', NEW ports \in SUBSET Ports, set_usb_port_state(ports)
  PROVE  Unsaved' = Unsaved
<1>1. i2c_event'.type # "Set" /\ i2c_event = None
  BY DEF set_usb_port_state, HostMayWrite, PortEvent
<1>2. Writes(Put(i2c_event')) = Writes(Put(i2c_event))
  BY <1>1, UnsavedBecomes, WritesOfOne, PutNothing
<1>3. config_event' = config_event /\ config_events' = config_events
  BY DEF set_usb_port_state, task
<1> QED
  BY <1>2, <1>3, UnsavedIs, UnsavedBecomes

\* Sending moves the setter's write from its task to the channel.
LEMMA SendUnseen ==
  ASSUME TypeOK, TypeOK', I2cSend
  PROVE  Unsaved' = Unsaved
<1> DEFINE A == Writes(Put(config_event))
           Q == Writes(config_events)
           w == WriteOf(i2c_event)
<1>1. i2c_event \in Event /\ i2c_event \in MaybeEvent /\ config_events \in Seq(Event)
  BY EventKinds DEF TypeOK, I2cSend, MaybeEvent
<1>2. Writes(config_events') = Extended(Q, i2c_event)
  BY <1>1, WritesAppend DEF I2cSend, Send
<1>3. config_event' = config_event /\ i2c_event' = None
  BY DEF I2cSend, task
<1>4. Unsaved' = (A \o Extended(Q, i2c_event)) \o <<>>
  BY <1>2, <1>3, UnsavedBecomes, PutNothing
<1>5. A \in Seq(RegisterWrite) /\ Q \in Seq(RegisterWrite) /\ A \o Q \in Seq(RegisterWrite)
  BY <1>1, InFlightTyped, WritesOfOne, WritesTyped, ConcatProperties
<1>6. CASE i2c_event.type = "Set"
  <2>1. w \in RegisterWrite
    BY <1>1, <1>6, WriteOfTyped
  <2>2. Unsaved = (A \o Q) \o <<w>>
    BY <1>1, <1>6, UnsavedIs, WritesOfOne
  <2>3. Extended(Q, i2c_event) = Append(Q, w)
    BY <1>6 DEF Extended, WriteOf
  <2> HIDE DEF A, Q, w
  <2>4. A \o Append(Q, w) = Append(A \o Q, w)
    BY <1>5, <2>1, AppendToConcat
  <2>5. Append(A \o Q, w) = (A \o Q) \o <<w>>
    BY <1>5, <2>1, AppendIsConcat
  <2>6. Append(A \o Q, w) \in Seq(RegisterWrite)
    BY <1>5, <2>1, AppendProperties
  <2>7. Append(A \o Q, w) \o <<>> = Append(A \o Q, w)
    BY <2>6, ConcatEmptySeq
  <2> QED
    BY <1>4, <2>2, <2>3, <2>4, <2>5, <2>7
<1>7. CASE i2c_event.type # "Set"
  <2>1. Unsaved = (A \o Q) \o <<>>
    BY <1>1, <1>7, UnsavedIs, WritesOfOne
  <2>2. Extended(Q, i2c_event) = Q
    BY <1>7 DEF Extended
  <2> QED
    BY <1>4, <2>1, <2>2
<1> QED
  BY <1>6, <1>7

LEMMA MachineSendUnseen ==
  ASSUME TypeOK, TypeOK', MachineSend
  PROVE  Unsaved' = Unsaved
<1>1. machine_event \in Event /\ machine_event.type # "Set" /\ config_events \in Seq(Event)
  BY EventKinds DEF TypeOK, MachineSend
<1>2. Writes(config_events') = Writes(config_events)
  BY <1>1, WritesAppend DEF MachineSend, Send, Extended
<1>3. config_event' = config_event /\ i2c_event' = i2c_event
  BY DEF MachineSend, task
<1> QED
  BY <1>2, <1>3, UnsavedIs, UnsavedBecomes

\* Receiving moves it from the channel to the configuration task.
LEMMA ReceiveUnseen ==
  ASSUME TypeOK, TypeOK', ReceiveEvent
  PROVE  Unsaved' = Unsaved
<1> DEFINE h == Head(config_events)
           t == Tail(config_events)
<1>1. /\ config_events \in Seq(Event) /\ config_events # <<>>
      /\ config_event = None /\ config_event' = h /\ config_events' = t
      /\ i2c_event' = i2c_event
  BY DEF TypeOK, ReceiveEvent
<1>2. h \in Event /\ t \in Seq(Event)
  BY <1>1, HeadTailProperties
<1>3. Put(h) = <<h>>
  BY <1>2 DEF Put, Event, HostEvent
<1>4. <<h>> \in Seq(Event) /\ <<h>> \o t = config_events
  BY <1>1, <1>2
<1>5. Writes(config_events) = Writes(<<h>>) \o Writes(t)
  BY <1>2, <1>4, WritesConcat
<1>6. Unsaved = (<<>> \o Writes(config_events)) \o Writes(Put(i2c_event))
  BY <1>1, UnsavedIs, PutNothing
<1>7. Unsaved' = (Writes(<<h>>) \o Writes(t)) \o Writes(Put(i2c_event))
  BY <1>1, <1>3, UnsavedBecomes
<1>8. <<>> \o Writes(config_events) = Writes(config_events)
  BY <1>1, WritesTyped, ConcatEmptySeq
<1> QED
  BY <1>5, <1>6, <1>7, <1>8

\* An event of the ports in hand is no write.
LEMMA SwitchPortsUnseen ==
  ASSUME TypeOK, TypeOK', SwitchPorts
  PROVE  Unsaved' = Unsaved
<1>1. config_event.type # "Set" /\ config_event' = None
  BY DEF SwitchPorts
<1>2. Writes(Put(config_event)) = <<>> /\ Writes(Put(config_event')) = <<>>
  BY <1>1, InFlightTyped, WritesOfOne, PutNothing
<1>3. config_events' = config_events /\ i2c_event' = i2c_event
  BY DEF SwitchPorts
<1> QED
  BY <1>2, <1>3, UnsavedIs, UnsavedBecomes

----------------------------------------------------------------------------
(* Steps that a host does see *)

LEMMA HeadOfConcat ==
  ASSUME NEW W, NEW w \in W, NEW z \in Seq(W)
  PROVE  <<w>> \o z # <<>> /\ Head(<<w>> \o z) = w /\ Tail(<<w>> \o z) = z
  OBVIOUS

\* set_value writes a register: RAM changes, and the write joins the queue.
LEMMA SetterSets ==
  ASSUME TypeOK, TypeOK', NEW k \in Keys, NEW v \in Values, set_value(k, v)
  PROVE  \E w \in Registers!Write : Registers!Set(w)
<1> DEFINE w == [key |-> k, value |-> v]
           B == Writes(Put(config_event)) \o Writes(config_events)
<1>1. w \in Registers!Write /\ w \in RegisterWrite
  BY DEF Registers!Write, RegisterWrite
<1>2. B \in Seq(RegisterWrite)
  BY InFlightTyped, UnsavedParts, ConcatProperties DEF TypeOK
<1>3. Unsaved = B
  <2>1. i2c_event = None
    BY DEF set_value, HostMayWrite
  <2> QED
    BY <1>2, <2>1, UnsavedIs, PutNothing, ConcatEmptySeq
<1>4. Unsaved' = B \o <<w>>
  <2>1. i2c_event' = SetEvent(k, v) /\ config_event' = config_event /\ config_events' = config_events
    BY DEF set_value, task
  <2>2. i2c_event'.type = "Set" /\ WriteOf(i2c_event') = w
    BY <2>1 DEF SetEvent, WriteOf
  <2>3. Writes(Put(i2c_event')) = <<w>>
    BY <2>2, UnsavedBecomes, WritesOfOne
  <2> QED
    BY <2>1, <2>3, UnsavedBecomes
<1>5. Unsaved' = Append(Unsaved, w)
  <2> HIDE DEF B, w
  <2>1. Append(B, w) = B \o <<w>>
    BY <1>1, <1>2, AppendIsConcat
  <2> QED
    BY <1>3, <1>4, <2>1
<1>6. /\ runtime_config' = [runtime_config EXCEPT ![w.key] = w.value]
      /\ UNCHANGED <<flash, ready>>
  BY DEF set_value, task
<1>7. Registers!Set(w)
  BY <1>5, <1>6 DEF Registers!Set, Unsaved
<1> QED
  BY <1>1, <1>7

\* Storing saves the oldest write: the event in hand is older than the queue's.
LEMMA StoreSaves ==
  ASSUME TypeOK, TypeOK', StoreSetting
  PROVE  Registers!Save
<1> DEFINE w == WriteOf(config_event)
           z == Writes(config_events) \o Writes(Put(i2c_event))
<1>1. config_event.type = "Set" /\ config_event \in Event /\ config_event \in MaybeEvent
  BY InFlightTyped, WritesOfOne DEF StoreSetting
<1>2. w \in RegisterWrite /\ <<w>> \in Seq(RegisterWrite)
  BY <1>1, WriteOfTyped
<1>3. /\ Writes(config_events) \in Seq(RegisterWrite)
      /\ Writes(Put(i2c_event)) \in Seq(RegisterWrite)
      /\ z \in Seq(RegisterWrite)
  BY InFlightTyped, UnsavedParts, ConcatProperties DEF TypeOK
<1>4. Unsaved = <<w>> \o z
  <2>1. Writes(Put(config_event)) = <<w>>
    BY <1>1, WritesOfOne
  <2>2. Unsaved = (<<w>> \o Writes(config_events)) \o Writes(Put(i2c_event))
    BY <2>1, UnsavedIs
  <2>3. (<<w>> \o Writes(config_events)) \o Writes(Put(i2c_event)) = <<w>> \o z
    BY <1>2, <1>3, ConcatAssociative
  <2> QED
    BY <2>2, <2>3
<1>5. Unsaved' = z
  <2>1. config_event' = None /\ config_events' = config_events /\ i2c_event' = i2c_event
    BY DEF StoreSetting
  <2>2. <<>> \o Writes(config_events) = Writes(config_events)
    BY <1>3, ConcatEmptySeq
  <2> QED
    BY <2>1, <2>2, UnsavedBecomes, PutNothing
<1>6. Unsaved # <<>> /\ Head(Unsaved) = w /\ Tail(Unsaved) = Unsaved'
  <2> HIDE DEF w, z
  <2> QED
    BY <1>2, <1>3, <1>4, <1>5, HeadOfConcat
<1>7. \/ flash' = [flash EXCEPT ![w.key] = w.value]
      \/ w.key \in Guarded /\ UNCHANGED flash
  BY DEF StoreSetting, WriteOf
<1>8. UNCHANGED <<runtime_config, ready>>
  BY DEF StoreSetting, config
<1> QED
  BY <1>6, <1>7, <1>8 DEF Registers!Save, Unsaved

\* The load restores what the last run saved, and keeps the writes on their way.
LEMMA LoadRestores ==
  ASSUME TypeOK, TypeOK', init_config_manager
  PROVE  Registers!Restore
<1>1. Unsaved' = Unsaved
  <2>1. UNCHANGED <<config_event, config_events, i2c_event>>
    BY DEF init_config_manager
  <2> QED
    BY <2>1, UnsavedIs, UnsavedBecomes
<1>2. UNCHANGED <<flash, Unsaved>>
  BY <1>1 DEF init_config_manager
<1>3. \E unread \in SUBSET Loaded :
        runtime_config' = [k \in Keys |-> CASE k \in unread -> Default
                                            [] k \in Loaded \ unread -> flash[k]
                                            [] k \notin Loaded -> runtime_config[k]]
  BY DEF init_config_manager
<1> QED
  BY <1>2, <1>3 DEF init_config_manager, Registers!Restore, Unsaved

\* A reset forgets the writes on their way, and what flash holds stays.
LEMMA ResetRestarts ==
  ASSUME TypeOK, TypeOK', Reset
  PROVE  Registers!Restart
<1>1. Unsaved' = <<>>
  <2>1. config_event' = None /\ config_events' = <<>> /\ i2c_event' = None
    BY DEF Reset
  <2>2. Unsaved' = (<<>> \o <<>>) \o <<>>
    BY <2>1, UnsavedBecomes, PutNothing, NoWrites
  <2>3. <<>> \o <<>> = <<>>
    BY NoEvents, ConcatEmptySeq
  <2> QED
    BY <2>2, <2>3
<1> QED
  BY <1>1 DEF Reset, Registers!Restart, Unsaved

----------------------------------------------------------------------------
(* The refinement *)

LEMMA InitImplements == Init => Registers!Init
<1> SUFFICES ASSUME Init PROVE Registers!Init
  OBVIOUS
<1>1. Unsaved = <<>>
  <2>1. config_event = None /\ config_events = <<>> /\ i2c_event = None
    BY DEF Init, StartRam
  <2>2. Unsaved = (<<>> \o <<>>) \o <<>>
    BY <2>1, TypeInit, UnsavedIs, PutNothing, NoWrites
  <2>3. <<>> \o <<>> = <<>>
    BY NoEvents, ConcatEmptySeq
  <2> QED
    BY <2>2, <2>3
<1> QED
  BY <1>1 DEF Init, StartRam, Registers!Init, Unsaved

LEMMA StepImplements ==
  ASSUME TypeOK, TypeOK', [Next]_vars
  PROVE  [Registers!Next]_Registers!registers
<1> USE DEF Registers!Next
<1>1. ASSUME Unsaved' = Unsaved, UNCHANGED <<runtime_config, flash, ready>>
      PROVE  UNCHANGED Registers!registers
  BY <1>1 DEF Registers!registers, Unsaved
<1>2. ASSUME NEW k \in Keys, NEW v \in Values, set_value(k, v)
      PROVE  Registers!Next
  BY <1>2, SetterSets
<1>3. ASSUME NEW ports \in SUBSET Ports, set_usb_port_state(ports)
      PROVE  UNCHANGED Registers!registers
  <2>1. UNCHANGED <<runtime_config, flash, ready>>
    BY <1>3 DEF set_usb_port_state, config, task
  <2> QED
    BY <1>1, <1>3, <2>1, PortWriteUnseen
<1>4. CASE I2cSend
  <2>1. UNCHANGED <<runtime_config, flash, ready>>
    BY <1>4 DEF I2cSend, config, task
  <2> QED
    BY <1>1, <1>4, <2>1, SendUnseen
<1>5. ASSUME NEW on \in BOOLEAN, SwitchRail(on)
      PROVE  UNCHANGED Registers!registers
  <2>1. UNCHANGED <<runtime_config, flash, ready, config_event, config_events, i2c_event>>
    BY <1>5 DEF SwitchRail, config, task
  <2> QED
    BY <1>1, <2>1, UnsavedIs, UnsavedBecomes
<1>6. CASE MachineSend
  <2>1. UNCHANGED <<runtime_config, flash, ready>>
    BY <1>6 DEF MachineSend, config, task
  <2> QED
    BY <1>1, <1>6, <2>1, MachineSendUnseen
<1>7. CASE init_config_manager
  BY <1>7, LoadRestores
<1>8. CASE ReceiveEvent
  <2>1. UNCHANGED <<runtime_config, flash, ready>>
    BY <1>8 DEF ReceiveEvent, config
  <2> QED
    BY <1>1, <1>8, <2>1, ReceiveUnseen
<1>9. CASE StoreSetting
  BY <1>9, StoreSaves
<1>10. CASE SwitchPorts
  <2>1. UNCHANGED <<runtime_config, flash, ready>>
    BY <1>10 DEF SwitchPorts, config
  <2> QED
    BY <1>1, <1>10, <2>1, SwitchPortsUnseen
<1>11. CASE Reset
  BY <1>11, ResetRestarts
<1>12. CASE UNCHANGED vars
  <2>1. UNCHANGED <<runtime_config, flash, ready, config_event, config_events, i2c_event>>
    BY <1>12 DEF vars, config, task
  <2> QED
    BY <1>1, <2>1, UnsavedIs, UnsavedBecomes
<1> HIDE DEF Registers!Next
<1> QED
  BY <1>2, <1>3, <1>4, <1>5, <1>6, <1>7, <1>8, <1>9, <1>10, <1>11, <1>12 DEF Next

\* The setters, RUNTIME_CONFIG, the channel and the task that stores implement
\* durable registers: a value written is shown at once, the writes reach flash
\* in the order in which hosts made them, none is skipped but the guarded ones,
\* a restart loses only those not yet saved, the load shows what was saved or,
\* where a read fails, the default, and changes nothing of what is saved.
THEOREM ImplementsRegistersHolds == Spec => ImplementsRegisters
  BY InitImplements, StepImplements, TypeCorrect, PTL
     DEF Spec, ImplementsRegisters, Registers!Spec
=============================================================================
