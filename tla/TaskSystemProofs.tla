------------------------- MODULE TaskSystemProofs -------------------------
(***************************************************************************)
(* What holds of the tasks of TaskSystem whatever room the channels have:  *)
(* the type invariant, that every circle of tasks that wait for each other *)
(* contains the one that holds INPUTS, and that no task waits for itself.  *)
(***************************************************************************)
EXTENDS TaskSystem, SequenceTheorems, TLAPS

(***************************************************************************)
(* The operations each task may have ahead of it, and how the I2C task     *)
(* takes RUNTIME_CONFIG: only to send to the configuration task next.      *)
(***************************************************************************)
ButtonOps == { Take("inputs"), Put("to_output"), Freeing("inputs", Put("to_output")),
               Freeing("inputs", Put("to_machine")) }
I2cOps == { Take("inputs"), Take("config"), Look("inputs"), Look("config"),
            Put("to_config"), Freeing("config", Put("to_config")), Put("to_led"),
            Put("to_machine"), Freeing("inputs", Put("to_machine")),
            Freeing("inputs", Respond) }
MachineOps == { Take("inputs"), Look("inputs"), Look("config"),
                Freeing("inputs", Look("config")), Put("to_led"), Put("to_config"),
                Put("to_output") }
LookOps == { Look("inputs") }

Programs ==
  /\ todo["button"] \in Seq(ButtonOps) /\ todo["i2c"] \in Seq(I2cOps)
  /\ todo["machine"] \in Seq(MachineOps)
  /\ todo["led"] \in Seq(LookOps) /\ todo["config"] \in Seq(LookOps)
  /\ todo["output"] \in Seq({})

SendsSetting == Freeing("config", Put("to_config"))
Chained(ops) ==
  \A i \in 1 .. Len(ops) :
    ops[i] = Take("config") => i + 1 \in 1 .. Len(ops) /\ ops[i + 1] = SendsSetting

SettingHeld ==
  /\ Chained(todo["i2c"])
  /\ holder["config"] \in {"nobody", "i2c"}
  /\ holder["config"] = "i2c" => todo["i2c"] # <<>> /\ Head(todo["i2c"]) = SendsSetting

Inv == TypeOK /\ Programs /\ SettingHeld

----------------------------------------------------------------------------
(* The programs *)

LEMMA OpsAreOps ==
  /\ ButtonOps \subseteq Op /\ I2cOps \subseteq Op /\ MachineOps \subseteq Op
  /\ LookOps \subseteq Op
BY DEF ButtonOps, I2cOps, MachineOps, LookOps, Op, Take, Look, Put, Respond, Freeing,
       Locks, Channels, Reader

LEMMA ButtonPrograms == ButtonEdges \subseteq Seq(ButtonOps)
BY DEF ButtonEdges, ButtonOps

LEMMA MachinePrograms == Handling \subseteq Seq(MachineOps) /\ Sampling \in Seq(MachineOps)
<1> DEFINE M == Seq(MachineOps)
<1>1. /\ <<>> \in M /\ <<Look("inputs")>> \in M /\ <<Look("config")>> \in M
      /\ <<Look("inputs"), Look("config")>> \in M
      /\ <<Look("inputs"), Look("config"), Put("to_output")>> \in M
      /\ Charging \in M /\ Pattern \in M /\ Ports \in M
  BY DEF MachineOps, Charging, Pattern, Ports
<1>2. \A a, b \in M : a \o b \in M
  OBVIOUS
<1> HIDE DEF M
<1>3. Handling \subseteq M
  BY <1>1, <1>2 DEF Handling
<1> QED
  BY <1>1, <1>3 DEF M, Sampling

LEMMA LookPrograms == Frames \subseteq Seq(LookOps) /\ Storing \subseteq Seq(LookOps)
BY DEF Frames, Storing, LookOps

LEMMA ChainedConcat ==
  ASSUME NEW a \in Seq(I2cOps), NEW b \in Seq(I2cOps), Chained(a), Chained(b)
  PROVE  a \o b \in Seq(I2cOps) /\ Chained(a \o b)
<1>1. /\ a \o b \in Seq(I2cOps) /\ Len(a \o b) = Len(a) + Len(b)
      /\ \A i \in 1 .. Len(a \o b) :
           (a \o b)[i] = IF i <= Len(a) THEN a[i] ELSE b[i - Len(a)]
  BY ConcatProperties
<1>2. ASSUME NEW i \in 1 .. Len(a \o b), (a \o b)[i] = Take("config")
      PROVE  i + 1 \in 1 .. Len(a \o b) /\ (a \o b)[i + 1] = SendsSetting
  <2>0. Len(a) \in Nat /\ Len(b) \in Nat /\ i \in Nat
    BY LenProperties
  <2>1. CASE i <= Len(a)
    <3>1. i + 1 \in 1 .. Len(a) /\ a[i + 1] = SendsSetting
      BY <1>1, <1>2, <2>0, <2>1 DEF Chained
    <3> QED
      BY <1>1, <2>0, <3>1
  <2>2. CASE i > Len(a)
    <3>1. i - Len(a) \in 1 .. Len(b) /\ b[i - Len(a)] = Take("config")
      BY <1>1, <1>2, <2>0, <2>2
    <3>2. (i - Len(a)) + 1 \in 1 .. Len(b) /\ b[(i - Len(a)) + 1] = SendsSetting
      BY <3>1 DEF Chained
    <3>3. i + 1 \in 1 .. Len(a \o b) /\ (i + 1) - Len(a) = (i - Len(a)) + 1
      BY <1>1, <2>0, <3>2
    <3> QED
      BY <1>1, <2>0, <2>2, <3>2, <3>3
  <2> QED
    BY <2>0, <2>1, <2>2
<1> QED
  BY <1>1, <1>2 DEF Chained

LEMMA ChainedTail ==
  ASSUME NEW a \in Seq(I2cOps), a # <<>>, Chained(a)
  PROVE  /\ Tail(a) \in Seq(I2cOps) /\ Chained(Tail(a))
         /\ Head(a) = Take("config") => Tail(a) # <<>> /\ Head(Tail(a)) = SendsSetting
<1>1. /\ Tail(a) \in Seq(I2cOps) /\ Len(a) \in Nat \ {0} /\ Len(Tail(a)) = Len(a) - 1
      /\ Head(a) = a[1] /\ \A i \in 1 .. Len(a) - 1 : Tail(a)[i] = a[i + 1]
  BY HeadTailProperties, LenProperties, EmptySeq
<1>2. Chained(Tail(a))
  <2> SUFFICES ASSUME NEW i \in 1 .. Len(Tail(a)), Tail(a)[i] = Take("config")
               PROVE  i + 1 \in 1 .. Len(Tail(a)) /\ Tail(a)[i + 1] = SendsSetting
    BY DEF Chained
  <2>1. i + 1 \in 1 .. Len(a) /\ a[i + 1] = Take("config")
    BY <1>1
  <2>2. (i + 1) + 1 \in 1 .. Len(a) /\ a[(i + 1) + 1] = SendsSetting
    BY <2>1 DEF Chained
  <2> QED
    BY <1>1, <2>1, <2>2
<1>3. ASSUME Head(a) = Take("config")
      PROVE  Tail(a) # <<>> /\ Head(Tail(a)) = SendsSetting
  <2>1. 1 + 1 \in 1 .. Len(a) /\ a[1 + 1] = SendsSetting
    BY <1>1, <1>3 DEF Chained
  <2>2. Len(Tail(a)) >= 1 /\ Tail(a)[1] = SendsSetting
    BY <1>1, <2>1
  <2>3. ASSUME NEW s \in Seq(I2cOps), Len(s) >= 1
        PROVE  s # <<>> /\ Head(s) = s[1]
    BY <2>3, EmptySeq
  <2> QED
    BY <1>1, <2>2, <2>3
<1> QED
  BY <1>1, <1>2, <1>3

LEMMA I2cPrograms ==
  ASSUME NEW ops \in I2cCommands
  PROVE  ops \in Seq(I2cOps) /\ Chained(ops)
<1> DEFINE Good(s) == s \in Seq(I2cOps) /\ Chained(s)
<1>1. Good(Set)
  BY DEF Set, I2cOps, Chained, SendsSetting, Take, Put, Freeing
<1>2. Good(<<Put("to_led")>>) /\ Good(<<Put("to_config")>>) /\ Good(<<Put("to_machine")>>)
  BY DEF I2cOps, Chained, Take, Put
<1>3. Good(<<Take("inputs"), Freeing("inputs", Put("to_machine"))>>)
  BY DEF I2cOps, Chained, Take, Put, Freeing
<1>4. Good(<<Look("inputs")>>)
  BY DEF I2cOps, Chained, Take, Look
<1>5. Good(<<Take("inputs"), Freeing("inputs", Respond)>>)
  BY DEF I2cOps, Chained, Take, Respond, Freeing
<1>6. Good(<<Take("inputs"), Look("config"), Freeing("inputs", Respond)>>)
  BY DEF I2cOps, Chained, Take, Look, Respond, Freeing
<1>7. \A a, b : Good(a) /\ Good(b) => Good(a \o b)
  BY ChainedConcat
<1> HIDE DEF Good
<1>8. \A a \in Reads \union Writes : Good(a)
  BY <1>1, <1>2, <1>3, <1>4, <1>5, <1>6, <1>7 DEF Reads, Writes
<1>9. Good(ops)
  BY <1>2, <1>7, <1>8 DEF I2cCommands, Ping
<1> QED
  BY <1>9 DEF Good

----------------------------------------------------------------------------
(* The invariant is inductive *)

LEMMA InitInv == Init => Inv
<1> SUFFICES ASSUME Init PROVE Inv
  OBVIOUS
<1>1. TypeOK
  BY CapacityAssumption DEF Init, TypeOK, Channels, Reader, Locks
<1>2. Programs
  BY DEF Init, Programs, Tasks
<1>3. SettingHeld
  BY DEF Init, SettingHeld, Chained, Tasks, Locks
<1> QED
  BY <1>1, <1>2, <1>3 DEF Inv

\* A task that begins has one of its programs ahead of it.
LEMMA BeginInv ==
  ASSUME Inv, NEW t \in Tasks, NEW ops, Begin(t, ops), holder' = holder,
         t = "button" => ops \in Seq(ButtonOps),
         t = "i2c" => ops \in Seq(I2cOps) /\ Chained(ops),
         t = "machine" => ops \in Seq(MachineOps),
         t \in {"led", "config"} => ops \in Seq(LookOps),
         t = "output" => ops \in Seq({})
  PROVE  todo' \in [Tasks -> Seq(Op)] /\ Programs' /\ SettingHeld'
<1>1. ops \in Seq(Op)
  BY OpsAreOps, SeqMonotonic DEF Tasks
<1>2. todo' \in [Tasks -> Seq(Op)] /\ todo \in [Tasks -> Seq(Op)]
  BY <1>1 DEF Inv, TypeOK, Begin
<1>3. Programs'
  BY <1>2 DEF Inv, Programs, Begin, Tasks
<1>4. SettingHeld'
  <2>1. CASE t = "i2c"
    <3>1. todo'["i2c"] = ops /\ holder["config"] # "i2c"
      BY <1>2, <2>1 DEF Inv, SettingHeld, Begin, Idle
    <3> QED
      BY <2>1, <3>1 DEF Inv, SettingHeld
  <2>2. CASE t # "i2c"
    <3>1. todo'["i2c"] = todo["i2c"]
      BY <1>2, <2>2 DEF Begin, Tasks
    <3> QED
      BY <3>1 DEF Inv, SettingHeld
  <2> QED
    BY <2>1, <2>2
<1> QED
  BY <1>2, <1>3, <1>4

LEMMA StepInv ==
  ASSUME Inv, NEW t \in Tasks, Step(t)
  PROVE  Inv'
<1> DEFINE next == Head(todo[t])
<1>1. /\ todo \in [Tasks -> Seq(Op)] /\ todo[t] \in Seq(Op) /\ todo[t] # <<>>
      /\ next \in Op /\ Tail(todo[t]) \in Seq(Op)
      /\ todo' = [todo EXCEPT ![t] = Tail(todo[t])]
  BY HeadTailProperties DEF Inv, TypeOK, Step, Ready, Idle
<1>2. TypeOK'
  <2>1. todo' \in [Tasks -> Seq(Op)]
    BY <1>1
  <2>2. holder' \in [Locks -> Tasks \union {"nobody"}]
    BY DEF Inv, TypeOK, Step
  <2>3. queued' \in [Channels -> Nat] /\ \A c \in Channels : queued'[c] <= Capacity[c]
    <3>1. next.op = "put" => next.on \in Channels /\ queued[next.on] < Capacity[next.on]
      BY <1>1 DEF Step, Ready, Op
    <3> QED
      BY <3>1, CapacityAssumption DEF Inv, TypeOK, Step
  <2>4. batch' \in 0 .. Capacity["to_machine"] + 1
    BY DEF Inv, TypeOK, Step
  <2> QED
    BY <2>1, <2>2, <2>3, <2>4 DEF TypeOK
<1>3. Programs'
  <2>1. \A S : todo[t] \in Seq(S) => Tail(todo[t]) \in Seq(S)
    BY <1>1, HeadTailProperties
  <2> QED
    BY <1>1, <2>1 DEF Inv, Programs, Tasks
<1>4. SettingHeld'
  <2>1. holder'["config"] = IF next.frees = "config" THEN "nobody"
                            ELSE IF next.op = "take" /\ next.on = "config" THEN t
                            ELSE holder["config"]
    BY DEF Step, Locks
  <2>2. CASE t = "i2c"
    <3>1. /\ todo[t] \in Seq(I2cOps) /\ next \in I2cOps
          /\ todo'["i2c"] = Tail(todo[t]) /\ Chained(todo[t])
      BY <1>1, <2>2, HeadTailProperties DEF Inv, Programs, SettingHeld, Tasks
    <3>2. /\ Chained(Tail(todo[t]))
          /\ next = Take("config")
               => Tail(todo[t]) # <<>> /\ Head(Tail(todo[t])) = SendsSetting
      BY <1>1, <3>1, ChainedTail
    <3>3. next.op = "take" /\ next.on = "config" => next = Take("config")
      BY <3>1 DEF I2cOps, Take, Look, Put, Respond, Freeing
    <3>4. holder["config"] = "i2c" => next.frees = "config"
      BY <2>2 DEF Inv, SettingHeld, SendsSetting, Freeing, Put
    <3>5. holder'["config"] = "i2c" => next = Take("config")
      BY <2>1, <3>3, <3>4
    <3>6. holder'["config"] \in {"nobody", "i2c"}
      BY <2>1, <2>2 DEF Inv, SettingHeld
    <3> QED
      BY <3>1, <3>2, <3>5, <3>6 DEF SettingHeld
  <2>3. CASE t # "i2c"
    <3>1. todo'["i2c"] = todo["i2c"]
      BY <1>1, <2>3 DEF Tasks
    <3>2. ~(next.op = "take" /\ next.on = "config")
      <4>1. next \in ButtonOps \union MachineOps \union LookOps
        BY <1>1, <2>3, HeadTailProperties DEF Inv, Programs, Tasks
      <4> QED
        BY <4>1 DEF ButtonOps, MachineOps, LookOps, Take, Look, Put, Freeing
    <3>3. holder'["config"] \in {"nobody", holder["config"]}
      BY <2>1, <3>2
    <3> QED
      BY <3>1, <3>3 DEF Inv, SettingHeld
  <2> QED
    BY <2>2, <2>3
<1> QED
  BY <1>2, <1>3, <1>4 DEF Inv

LEMMA NextInv == Inv /\ [Next]_vars => Inv'
<1> SUFFICES ASSUME Inv, [Next]_vars PROVE Inv'
  OBVIOUS
<1>t. /\ holder \in [Locks -> Tasks \union {"nobody"}] /\ queued \in [Channels -> Nat]
      /\ \A c \in Channels : queued[c] <= Capacity[c]
      /\ batch \in 0 .. Capacity["to_machine"] + 1
      /\ Capacity["to_machine"] \in Nat /\ \A c \in Channels : Capacity[c] \in Nat
      /\ "to_machine" \in Channels /\ "to_led" \in Channels /\ "to_config" \in Channels
      /\ "to_output" \in Channels
  BY CapacityAssumption DEF Inv, TypeOK, Channels, Reader
<1>r. ASSUME NEW c \in Channels, Receive(c)
      PROVE  queued' \in [Channels -> Nat] /\ \A d \in Channels : queued'[d] <= Capacity[d]
  BY <1>t, <1>r DEF Receive
<1>1. CASE ButtonEdge
  <2>1. PICK ops \in Seq(ButtonOps) : Begin("button", ops)
    BY <1>1, ButtonPrograms DEF ButtonEdge
  <2>2. todo' \in [Tasks -> Seq(Op)] /\ Programs' /\ SettingHeld'
    BY <1>1, <2>1, BeginInv DEF ButtonEdge, Tasks
  <2> QED
    BY <1>1, <1>t, <2>2 DEF ButtonEdge, Inv, TypeOK
<1>2. CASE Command
  <2>1. PICK ops \in Seq(I2cOps) : Begin("i2c", ops) /\ Chained(ops)
    BY <1>2, I2cPrograms DEF Command
  <2>2. todo' \in [Tasks -> Seq(Op)] /\ Programs' /\ SettingHeld'
    BY <1>2, <2>1, BeginInv DEF Command, Tasks
  <2> QED
    BY <1>2, <1>t, <2>2 DEF Command, Inv, TypeOK
<1>3. CASE Cycle
  <2>1. todo' \in [Tasks -> Seq(Op)] /\ Programs' /\ SettingHeld'
    BY <1>3, MachinePrograms, BeginInv DEF Cycle, Tasks
  <2> QED
    BY <1>3, <1>t, <2>1 DEF Cycle, Inv, TypeOK
<1>4. CASE HandleEvent
  <2>1. PICK ops \in Seq(MachineOps) : Begin("machine", ops)
    BY <1>4, MachinePrograms DEF HandleEvent
  <2>2. todo' \in [Tasks -> Seq(Op)] /\ Programs' /\ SettingHeld'
    BY <1>4, <2>1, BeginInv DEF HandleEvent, Tasks
  <2> QED
    BY <1>4, <1>t, <2>2 DEF HandleEvent, Inv, TypeOK
<1>5. CASE Frame
  <2>1. PICK ops \in Seq(LookOps) : Begin("led", ops)
    BY <1>5, LookPrograms DEF Frame
  <2>2. todo' \in [Tasks -> Seq(Op)] /\ Programs' /\ SettingHeld'
    BY <1>5, <2>1, BeginInv DEF Frame, Tasks
  <2> QED
    BY <1>5, <1>t, <1>r, <2>2 DEF Frame, Inv, TypeOK
<1>6. CASE Store
  <2>1. PICK ops \in Seq(LookOps) : Begin("config", ops)
    BY <1>6, LookPrograms DEF Store
  <2>2. todo' \in [Tasks -> Seq(Op)] /\ Programs' /\ SettingHeld'
    BY <1>6, <2>1, BeginInv DEF Store, Tasks
  <2> QED
    BY <1>6, <1>t, <1>r, <2>2 DEF Store, Inv, TypeOK
<1>7. CASE Pulse
  <2>1. todo' \in [Tasks -> Seq(Op)] /\ Programs' /\ SettingHeld'
    BY <1>7, EmptySeq, BeginInv DEF Pulse, Tasks
  <2> QED
    BY <1>7, <1>t, <1>r, <2>1 DEF Pulse, Inv, TypeOK
<1>8. CASE \E t \in Tasks : Step(t)
  BY <1>8, StepInv
<1>9. CASE Bite
  <2>1. Init'
    BY <1>9 DEF Bite, Init
  <2>2. TypeOK'
    BY <1>9, <1>t DEF Bite, TypeOK
  <2>3. Programs' /\ SettingHeld'
    BY <1>9 DEF Bite, Programs, SettingHeld, Chained, Tasks, Locks
  <2> QED
    BY <2>2, <2>3 DEF Inv
<1>10. CASE UNCHANGED vars
  BY <1>10 DEF vars, Inv, TypeOK, Programs, SettingHeld
<1> QED
  BY <1>1, <1>2, <1>3, <1>4, <1>5, <1>6, <1>7, <1>8, <1>9, <1>10 DEF Next

LEMMA SpecInv == Spec => []Inv
BY InitInv, NextInv, PTL DEF Spec

----------------------------------------------------------------------------
(* Theorems *)

\* Channels never hold more than they have room for and every task has only
\* operations ahead of it, whatever the capacities.
THEOREM TypeCorrect == Spec => []TypeOK
<1>1. Inv => TypeOK
  BY DEF Inv
<1> QED
  BY <1>1, SpecInv, PTL

\* Whatever room the channels have, tasks that wait for each other in a circle
\* include the one that holds INPUTS, so that the watchdog ends the deadlock.
\* RUNTIME_CONFIG alone closes no circle: who holds it waits for the
\* configuration task, which waits for INPUTS at most.
THEOREM CirclesHoldInputsHolds == Spec => []CirclesHoldInputs
<1>1. Inv => CirclesHoldInputs
  <2> SUFFICES ASSUME Inv, NEW S \in SUBSET Tasks, S # {},
                      \A t \in S : \E u \in S : WaitsFor(t, u),
                      holder["inputs"] \notin S
               PROVE  FALSE
    BY DEF CirclesHoldInputs
  <2> DEFINE Next1(t) == Head(todo[t])
  <2>1. ASSUME NEW t \in S
        PROVE  /\ todo[t] # <<>>
               /\ \/ Next1(t).op \in {"take", "look"} /\ holder[Next1(t).on] \in S
                  \/ Next1(t).op = "put" /\ Reader[Next1(t).on] \in S
    BY <2>1 DEF WaitsFor, Idle
  <2>2. "led" \notin S /\ "config" \notin S /\ "output" \notin S
    <3>1. ASSUME NEW t \in {"led", "config"}, t \in S PROVE FALSE
      <4>1. Next1(t) \in LookOps
        BY <2>1, <3>1, HeadTailProperties DEF Inv, Programs
      <4> QED
        BY <2>1, <3>1, <4>1 DEF LookOps, Look
    <3>2. ASSUME "output" \in S PROVE FALSE
      BY <2>1, <3>2, HeadTailProperties DEF Inv, Programs
    <3> QED
      BY <3>1, <3>2
  <2>3. "i2c" \in S => Next1("i2c") # SendsSetting
    <3> SUFFICES ASSUME "i2c" \in S, Next1("i2c") = SendsSetting PROVE FALSE
      OBVIOUS
    <3>1. Next1("i2c").op = "put" /\ Next1("i2c").on = "to_config"
      BY DEF SendsSetting, Freeing, Put
    <3> QED
      BY <2>1, <2>2, <3>1 DEF Reader
  <2>4. holder["config"] \notin S
    BY <2>3, <2>2 DEF Inv, SettingHeld, Tasks
  <2>5. \A t \in S : Next1(t).op = "put" /\ Next1(t).on = "to_machine" /\ "machine" \in S
    <3> SUFFICES ASSUME NEW t \in S
                 PROVE  Next1(t).op = "put" /\ Next1(t).on = "to_machine" /\ "machine" \in S
      OBVIOUS
    <3>0. t \in {"button", "i2c", "machine"} /\ todo[t] # <<>>
      BY <2>1, <2>2 DEF Tasks
    <3>1. Next1(t) \in ButtonOps \union I2cOps \union MachineOps
      <4>1. CASE t = "button"
        BY <3>0, <4>1, HeadTailProperties DEF Inv, Programs
      <4>2. CASE t = "i2c"
        BY <3>0, <4>2, HeadTailProperties DEF Inv, Programs
      <4>3. CASE t = "machine"
        BY <3>0, <4>3, HeadTailProperties DEF Inv, Programs
      <4> QED
        BY <3>0, <4>1, <4>2, <4>3
    <3>2. Next1(t) \in Op
      BY <3>1, OpsAreOps
    <3>3. Next1(t).op \in {"take", "look"} => Next1(t).on \in Locks
      BY <3>2 DEF Op
    <3>4. Next1(t).op = "put" /\ Reader[Next1(t).on] \in S
      BY <2>1, <2>4, <3>3 DEF Locks
    <3>5. Next1(t).on \in Channels
      BY <3>2, <3>4 DEF Op
    <3> QED
      BY <2>2, <3>4, <3>5 DEF Channels, Reader
  <2>6. "machine" \in S /\ Next1("machine") \in MachineOps
    BY <2>1, <2>5, HeadTailProperties DEF Inv, Programs
  <2> QED
    BY <2>5, <2>6 DEF MachineOps, Take, Look, Put, Freeing
<1> QED
  BY <1>1, SpecInv, PTL

----------------------------------------------------------------------------
(* Mutexes are freed before they are asked for again *)

Asks(op, l) == op.op \in {"take", "look"} /\ op.on = l

\* The first of ops that concerns l frees it.
Returns(l, ops) ==
  \E k \in 1 .. Len(ops) : ops[k].frees = l /\ \A j \in 1 .. k : ~Asks(ops[j], l)

\* So it is after every operation that takes one.
Balanced(ops) ==
  \A i \in 1 .. Len(ops) :
    ops[i].op = "take" =>
      \E k \in i + 1 .. Len(ops) :
        ops[k].frees = ops[i].on /\ \A j \in i + 1 .. k : ~Asks(ops[j], ops[i].on)

LocksReturned ==
  /\ \A t \in Tasks : Balanced(todo[t])
  /\ \A l \in Locks : holder[l] # "nobody" => Returns(l, todo[holder[l]])

LEMMA TakesNothing ==
  ASSUME NEW ops, \A i \in 1 .. Len(ops) : ops[i].op # "take"
  PROVE  Balanced(ops)
BY DEF Balanced

\* A mutex is taken first and freed last.
LEMMA Bracketed ==
  ASSUME NEW ops \in Seq(Op), Len(ops) > 1, ops[1].op = "take",
         ops[Len(ops)].frees = ops[1].on,
         \A j \in 2 .. Len(ops) : ops[j].op # "take" /\ ~Asks(ops[j], ops[1].on)
  PROVE  Balanced(ops)
<1>1. Len(ops) \in Nat
  BY LenProperties
<1> SUFFICES ASSUME NEW i \in 1 .. Len(ops), ops[i].op = "take"
             PROVE  \E k \in i + 1 .. Len(ops) :
                      ops[k].frees = ops[i].on /\ \A j \in i + 1 .. k : ~Asks(ops[j], ops[i].on)
  BY DEF Balanced
<1>2. i = 1
  BY <1>1
<1>3. Len(ops) \in i + 1 .. Len(ops)
  BY <1>1, <1>2
<1> QED
  BY <1>2, <1>3

LEMMA BalancedConcat ==
  ASSUME NEW a \in Seq(Op), NEW b \in Seq(Op), Balanced(a), Balanced(b)
  PROVE  Balanced(a \o b)
<1>1. /\ Len(a) \in Nat /\ Len(b) \in Nat /\ Len(a \o b) = Len(a) + Len(b)
      /\ \A i \in 1 .. Len(a \o b) : (a \o b)[i] = IF i <= Len(a) THEN a[i] ELSE b[i - Len(a)]
  BY ConcatProperties, LenProperties
<1> DEFINE c == a \o b
<1> HIDE DEF c
<1> SUFFICES ASSUME NEW i \in 1 .. Len(c), c[i].op = "take"
             PROVE  \E k \in i + 1 .. Len(c) :
                      c[k].frees = c[i].on /\ \A j \in i + 1 .. k : ~Asks(c[j], c[i].on)
  BY DEF Balanced, c
<1>2. CASE i <= Len(a)
  <2>1. i \in 1 .. Len(a) /\ c[i] = a[i]
    BY <1>1, <1>2 DEF c
  <2>2. PICK k \in i + 1 .. Len(a) :
          a[k].frees = a[i].on /\ \A j \in i + 1 .. k : ~Asks(a[j], a[i].on)
    BY <2>1 DEF Balanced
  <2>3. k \in i + 1 .. Len(c) /\ \A j \in i + 1 .. k : c[j] = a[j]
    BY <1>1, <2>1, <2>2 DEF c
  <2> QED
    BY <2>1, <2>2, <2>3
<1>3. CASE i > Len(a)
  <2> DEFINE n == i - Len(a)
  <2>1. n \in 1 .. Len(b) /\ c[i] = b[n] /\ i = n + Len(a)
    BY <1>1, <1>3 DEF c
  <2> HIDE DEF n
  <2>2. PICK k \in n + 1 .. Len(b) :
          b[k].frees = b[n].on /\ \A j \in n + 1 .. k : ~Asks(b[j], b[n].on)
    BY <2>1 DEF Balanced
  <2>3. k + Len(a) \in i + 1 .. Len(c) /\ c[k + Len(a)] = b[k]
    BY <1>1, <2>1, <2>2 DEF c
  <2>4. ASSUME NEW j \in i + 1 .. k + Len(a) PROVE ~Asks(c[j], c[i].on)
    <3>1. j - Len(a) \in n + 1 .. k /\ c[j] = b[j - Len(a)]
      BY <1>1, <2>1, <2>2 DEF c
    <3> QED
      BY <2>1, <2>2, <3>1
  <2> QED
    BY <2>1, <2>2, <2>3, <2>4
<1> QED
  BY <1>1, <1>2, <1>3

LEMMA BalancedTail ==
  ASSUME NEW ops \in Seq(Op), ops # <<>>, Balanced(ops)
  PROVE  /\ Balanced(Tail(ops))
         /\ Head(ops).op = "take" => Returns(Head(ops).on, Tail(ops))
<1> DEFINE s == Tail(ops)
<1>1. /\ Len(ops) \in Nat \ {0} /\ Len(s) = Len(ops) - 1 /\ Head(ops) = ops[1]
      /\ \A i \in 1 .. Len(ops) - 1 : s[i] = ops[i + 1]
  BY HeadTailProperties, LenProperties, EmptySeq
<1> HIDE DEF s
<1>2. ASSUME NEW i \in 1 .. Len(ops), ops[i].op = "take"
      PROVE  \E k \in i .. Len(s) : s[k].frees = ops[i].on
                                   /\ \A j \in i .. k : ~Asks(s[j], ops[i].on)
  <2>1. PICK k \in i + 1 .. Len(ops) :
          ops[k].frees = ops[i].on /\ \A j \in i + 1 .. k : ~Asks(ops[j], ops[i].on)
    BY <1>2 DEF Balanced
  <2>2. k - 1 \in i .. Len(s) /\ s[k - 1] = ops[k]
    BY <1>1, <2>1
  <2>3. ASSUME NEW j \in i .. k - 1 PROVE ~Asks(s[j], ops[i].on)
    <3>1. j + 1 \in i + 1 .. k /\ s[j] = ops[j + 1]
      BY <1>1, <2>1
    <3> QED
      BY <2>1, <3>1
  <2> QED
    BY <2>1, <2>2, <2>3
<1>3. Balanced(s)
  <2> SUFFICES ASSUME NEW i \in 1 .. Len(s), s[i].op = "take"
               PROVE  \E k \in i + 1 .. Len(s) :
                        s[k].frees = s[i].on /\ \A j \in i + 1 .. k : ~Asks(s[j], s[i].on)
    BY DEF Balanced
  <2>1. i + 1 \in 1 .. Len(ops) /\ s[i] = ops[i + 1]
    BY <1>1
  <2> QED
    BY <1>2, <2>1
<1>4. Head(ops).op = "take" => Returns(Head(ops).on, s)
  BY <1>1, <1>2 DEF Returns
<1> QED
  BY <1>3, <1>4 DEF s

LEMMA ReturnsTail ==
  ASSUME NEW ops \in Seq(Op), NEW l, Returns(l, ops), Head(ops).frees # l
  PROVE  Returns(l, Tail(ops))
<1> DEFINE s == Tail(ops)
<1>1. PICK k \in 1 .. Len(ops) : ops[k].frees = l /\ \A j \in 1 .. k : ~Asks(ops[j], l)
  BY DEF Returns
<1>2. /\ Len(ops) \in Nat /\ Len(s) = Len(ops) - 1 /\ Head(ops) = ops[1]
      /\ \A i \in 1 .. Len(ops) - 1 : s[i] = ops[i + 1]
  BY <1>1, HeadTailProperties, LenProperties, EmptySeq
<1> HIDE DEF s
<1>3. k - 1 \in 1 .. Len(s) /\ s[k - 1] = ops[k]
  BY <1>1, <1>2
<1>4. ASSUME NEW j \in 1 .. k - 1 PROVE ~Asks(s[j], l)
  <2>1. j + 1 \in 1 .. k /\ s[j] = ops[j + 1]
    BY <1>1, <1>2
  <2> QED
    BY <1>1, <2>1
<1>5. Returns(l, s)
  BY <1>1, <1>3, <1>4 DEF Returns
<1> QED
  BY <1>5 DEF s

\* What a task may have ahead of it when it begins.
Fine(ops) == ops \in Seq(Op) /\ Balanced(ops)

LEMMA FineConcat == \A a, b : Fine(a) /\ Fine(b) => Fine(a \o b)
BY BalancedConcat, ConcatProperties DEF Fine

\* Operations of which none takes a mutex.
LEMMA FineFree ==
  ASSUME NEW a \in Op, NEW b \in Op, NEW c \in Op, a.op # "take", b.op # "take", c.op # "take"
  PROVE  Fine(<<a>>) /\ Fine(<<a, b>>) /\ Fine(<<a, b, c>>)
<1> DEFINE s == <<a, b, c>>
<1>1. \A i \in 1 .. Len(<<a>>) : <<a>>[i].op # "take"
  OBVIOUS
<1>2. \A i \in 1 .. Len(<<a, b>>) : <<a, b>>[i].op # "take"
  OBVIOUS
<1>3. Len(s) = 3 /\ s[1] = a /\ s[2] = b /\ s[3] = c
  OBVIOUS
<1> HIDE DEF s
<1>4. \A i \in 1 .. Len(s) : s[i].op # "take"
  BY <1>3
<1>5. <<a>> \in Seq(Op) /\ <<a, b>> \in Seq(Op) /\ s \in Seq(Op)
  BY DEF s
<1> QED
  BY <1>1, <1>2, <1>4, <1>5, TakesNothing DEF Fine, s

\* What may come between taking l and freeing it.
Between(l, op) == op \in Op /\ op.op # "take" /\ ~Asks(op, l)

\* A mutex is kept for one, two or three operations.
LEMMA FineTaking ==
  ASSUME NEW l \in Locks, NEW a, NEW b, NEW c, Between(l, a), Between(l, b), Between(l, c),
         c.frees = l
  PROVE  /\ Fine(<<Take(l), c>>) /\ Fine(<<Take(l), b, c>>) /\ Fine(<<Take(l), a, b, c>>)
<1>1. Take(l) \in Op /\ Take(l).op = "take" /\ Take(l).on = l
  BY DEF Take, Op
<1>2. ASSUME NEW s \in Seq(Op), NEW n \in 2 .. 4, Len(s) = n, s[1] = Take(l), s[n] = c,
             \A j \in 2 .. n : Between(l, s[j])
      PROVE  Fine(s)
  BY <1>1, <1>2, Bracketed DEF Fine, Between
<1> HIDE DEF Fine
<1>3. Fine(<<Take(l), c>>)
  <2> DEFINE s == <<Take(l), c>>
  <2>1. s \in Seq(Op) /\ Len(s) = 2 /\ s[1] = Take(l) /\ s[2] = c
    BY <1>1 DEF Between
  <2> HIDE DEF s
  <2>2. Fine(s)
    BY <1>2, <2>1
  <2> QED
    BY <2>2 DEF s
<1>4. Fine(<<Take(l), b, c>>)
  <2> DEFINE s == <<Take(l), b, c>>
  <2>1. s \in Seq(Op) /\ Len(s) = 3 /\ s[1] = Take(l) /\ s[2] = b /\ s[3] = c
    BY <1>1 DEF Between
  <2> HIDE DEF s
  <2>2. \A j \in 2 .. 3 : Between(l, s[j])
    BY <2>1
  <2>3. Fine(s)
    BY <1>2, <2>1, <2>2
  <2> QED
    BY <2>3 DEF s
<1>5. Fine(<<Take(l), a, b, c>>)
  <2> DEFINE s == <<Take(l), a, b, c>>
  <2>1. s \in Seq(Op) /\ Len(s) = 4 /\ s[1] = Take(l) /\ s[2] = a /\ s[3] = b /\ s[4] = c
    BY <1>1 DEF Between
  <2> HIDE DEF s
  <2>2. \A j \in 2 .. 4 : Between(l, s[j])
    BY <2>1
  <2>3. Fine(s)
    BY <1>2, <2>1, <2>2
  <2> QED
    BY <2>3 DEF s
<1> QED
  BY <1>3, <1>4, <1>5

LEMMA FinePrograms ==
  /\ \A ops \in ButtonEdges \union I2cCommands \union Handling \union Frames \union Storing : Fine(ops)
  /\ Fine(Sampling) /\ Fine(<<>>)
<1>1. /\ "inputs" \in Locks /\ "config" \in Locks
      /\ {"to_machine", "to_config", "to_led", "to_output"} \subseteq Channels
  BY DEF Locks, Channels, Reader
<1>2. Fine(<<>>)
  <2>1. Len(<<>>) = 0 /\ <<>> \in Seq(Op)
    BY EmptySeq
  <2> QED
    BY <2>1, TakesNothing DEF Fine
<1>3. /\ Look("inputs") \in Op /\ Look("inputs").op # "take"
      /\ Look("config") \in Op /\ Look("config").op # "take"
      /\ \A c \in Channels : Put(c) \in Op /\ Put(c).op # "take"
  BY <1>1 DEF Op, Look, Put
<1>4. /\ \A c \in Channels, l \in Locks :
           /\ Between(l, Put(c)) /\ Between(l, Freeing(l, Put(c))) /\ Freeing(l, Put(c)).frees = l
      /\ \A l \in Locks : Between(l, Freeing(l, Respond)) /\ Freeing(l, Respond).frees = l
      /\ Between("inputs", Look("config"))
      /\ Between("inputs", Freeing("inputs", Look("config")))
      /\ Freeing("inputs", Look("config")).frees = "inputs"
  BY <1>1 DEF Between, Asks, Op, Look, Put, Respond, Freeing
<1>5. /\ Fine(<<Look("inputs")>>) /\ Fine(<<Look("config")>>)
      /\ Fine(<<Look("inputs"), Look("config")>>)
      /\ Fine(<<Look("inputs"), Look("config"), Put("to_output")>>)
      /\ \A c \in Channels : Fine(<<Put(c)>>)
  BY <1>1, <1>3, FineFree
<1>6. Fine(Pattern) /\ Fine(Ports) /\ Fine(Charging) /\ Fine(Set) /\ Fine(Ping) /\ Fine(Sampling)
  BY <1>1, <1>4, <1>5, FineTaking DEF Pattern, Ports, Charging, Set, Ping, Sampling
<1>7. \A ops \in Handling : Fine(ops)
  BY <1>1, <1>2, <1>5, <1>6, FineConcat DEF Handling
<1>8. \A ops \in Reads \union Writes : Fine(ops)
  <2>1. /\ Fine(<<Take("inputs"), Freeing("inputs", Respond)>>)
        /\ Fine(<<Take("inputs"), Look("config"), Freeing("inputs", Respond)>>)
        /\ Fine(<<Take("inputs"), Freeing("inputs", Put("to_machine"))>>)
    BY <1>1, <1>4, FineTaking
  <2> QED
    BY <1>1, <1>5, <1>6, <2>1, FineConcat DEF Reads, Writes
<1>9. \A ops \in I2cCommands : Fine(ops)
  BY <1>6, <1>8, FineConcat DEF I2cCommands
<1>10. \A ops \in ButtonEdges : Fine(ops)
  <2>1. /\ Fine(<<Take("inputs"), Freeing("inputs", Put("to_output"))>>)
        /\ Fine(<<Take("inputs"), Put("to_output"), Put("to_output"),
                   Freeing("inputs", Put("to_machine"))>>)
    <3>1. Between("inputs", Put("to_output")) /\ Between("inputs", Freeing("inputs", Put("to_output")))
      BY <1>1, <1>4
    <3>2. Between("inputs", Freeing("inputs", Put("to_machine")))
      BY <1>1, <1>4
    <3>3. Freeing("inputs", Put("to_output")).frees = "inputs" /\ Freeing("inputs", Put("to_machine")).frees = "inputs"
      BY <1>1, <1>4
    <3> QED
      BY <1>1, <3>1, <3>2, <3>3, FineTaking
  <2> QED
    BY <2>1 DEF ButtonEdges
<1>11. \A ops \in Frames \union Storing : Fine(ops)
  BY <1>2, <1>5 DEF Frames, Storing
<1> QED
  BY <1>2, <1>6, <1>7, <1>9, <1>10, <1>11

\* A task that begins holds nothing, and frees what it will take.
LEMMA BeginReturns ==
  ASSUME Inv, LocksReturned, NEW t \in Tasks, NEW ops, Begin(t, ops), Fine(ops), holder' = holder
  PROVE  LocksReturned'
<1>1. /\ todo \in [Tasks -> Seq(Op)] /\ holder \in [Locks -> Tasks \union {"nobody"}]
      /\ todo' = [todo EXCEPT ![t] = ops] /\ todo[t] = <<>>
  BY DEF Inv, TypeOK, Begin, Idle
<1>2. \A u \in Tasks : todo'[u] = IF u = t THEN ops ELSE todo[u]
  BY <1>1
<1>3. \A u \in Tasks : Balanced(todo'[u])
  BY <1>2 DEF LocksReturned, Fine
<1>4. \A l \in Locks : holder[l] # t
  <2>1. Len(<<>>) = 0
    BY EmptySeq
  <2> QED
    BY <1>1, <2>1 DEF LocksReturned, Returns, Tasks
<1>5. ASSUME NEW l \in Locks, holder'[l] # "nobody" PROVE Returns(l, todo'[holder'[l]])
  BY <1>1, <1>2, <1>4, <1>5 DEF LocksReturned
<1> QED
  BY <1>3, <1>5 DEF LocksReturned

LEMMA StepReturns ==
  ASSUME Inv, LocksReturned, NEW t \in Tasks, Step(t)
  PROVE  LocksReturned'
<1> DEFINE next == Head(todo[t])
<1>1. /\ todo[t] \in Seq(Op) /\ todo[t] # <<>> /\ "nobody" \notin Tasks
      /\ holder \in [Locks -> Tasks \union {"nobody"}]
      /\ \A u \in Tasks : todo'[u] = IF u = t THEN Tail(todo[t]) ELSE todo[u]
  BY DEF Inv, TypeOK, Step, Ready, Idle, Tasks
<1>2. /\ \A u \in Tasks : Balanced(todo[u])
      /\ \A l \in Locks : holder[l] # "nobody" => Returns(l, todo[holder[l]])
  BY DEF LocksReturned
<1>3. \A u \in Tasks : Balanced(todo'[u])
  BY <1>1, <1>2, BalancedTail
<1>4. ASSUME NEW l \in Locks, holder'[l] # "nobody" PROVE Returns(l, todo'[holder'[l]])
  <2>1. holder'[l] = IF l = next.frees THEN "nobody"
                     ELSE IF next.op = "take" /\ l = next.on THEN t ELSE holder[l]
    BY DEF Step
  <2> HIDE DEF next
  <2>2. CASE next.op = "take" /\ l = next.on
    <3>1. holder'[l] = t /\ Returns(l, Tail(todo[t]))
      BY <1>1, <1>2, <1>4, <2>1, <2>2, BalancedTail DEF next
    <3> QED
      BY <1>1, <3>1
  <2>3. CASE ~(next.op = "take" /\ l = next.on) /\ holder[l] = t
    <3>1. holder'[l] = t /\ next.frees # l /\ Returns(l, todo[t])
      BY <1>1, <1>2, <1>4, <2>1, <2>3
    <3>2. Returns(l, Tail(todo[t]))
      BY <1>1, <3>1, ReturnsTail DEF next
    <3> QED
      BY <1>1, <3>1, <3>2
  <2>4. CASE ~(next.op = "take" /\ l = next.on) /\ holder[l] # t
    <3>1. holder'[l] = holder[l] /\ holder[l] \in Tasks \ {t}
      BY <1>1, <1>4, <2>1, <2>4
    <3>2. todo'[holder[l]] = todo[holder[l]]
      BY <1>1, <3>1
    <3> QED
      BY <1>2, <1>4, <3>1, <3>2
  <2> QED
    BY <2>2, <2>3, <2>4
<1> QED
  BY <1>3, <1>4 DEF LocksReturned

LEMMA RestReturns ==
  /\ todo = [t \in Tasks |-> <<>>] /\ holder = [l \in Locks |-> "nobody"] => LocksReturned
  /\ todo' = [t \in Tasks |-> <<>>] /\ holder' = [l \in Locks |-> "nobody"] => LocksReturned'
BY FinePrograms DEF LocksReturned, Fine

LEMMA NextReturns ==
  ASSUME Inv, LocksReturned, [Next]_vars
  PROVE  LocksReturned'
<1>0. \A t \in {"button", "i2c", "machine", "led", "config", "output"} : t \in Tasks
  BY DEF Tasks
<1>1. CASE ButtonEdge \/ Command \/ Cycle \/ HandleEvent \/ Frame \/ Store \/ Pulse
  <2>1. PICK t \in Tasks, ops \in Seq(Op) : Begin(t, ops) /\ Fine(ops) /\ holder' = holder
    BY <1>0, <1>1, FinePrograms
       DEF Fine, ButtonEdge, Command, Cycle, HandleEvent, Frame, Store, Pulse
  <2> QED
    BY <2>1, BeginReturns
<1>2. CASE \E t \in Tasks : Step(t)
  BY <1>2, StepReturns
<1>3. CASE Bite
  BY <1>3, RestReturns DEF Bite
<1>4. CASE UNCHANGED vars
  BY <1>4 DEF vars, LocksReturned
<1> QED
  BY <1>1, <1>2, <1>3, <1>4 DEF Next

\* Whatever room the channels have, no task waits for itself: each frees a mutex
\* before it asks for it again, and sends nothing to a channel that it drains.
THEOREM NobodyWaitsForItselfHolds == Spec => []NobodyWaitsForItself
<1>1. Init => LocksReturned
  BY RestReturns DEF Init
<1>2. Inv /\ LocksReturned /\ [Next]_vars => LocksReturned'
  BY NextReturns
<1>3. Inv /\ LocksReturned => NobodyWaitsForItself
  <2> SUFFICES ASSUME Inv, LocksReturned, NEW t \in Tasks, WaitsFor(t, t) PROVE FALSE
    BY DEF NobodyWaitsForItself
  <2> DEFINE next == Head(todo[t])
  <2>1. todo[t] \in Seq(Op) /\ todo[t] # <<>> /\ next = todo[t][1] /\ next \in Op
    BY HeadTailProperties DEF Inv, TypeOK, WaitsFor, Idle
  <2>2. CASE next.op \in {"take", "look"} /\ holder[next.on] = t
    <3>1. next.on \in Locks /\ t # "nobody"
      BY <2>1, <2>2 DEF Op, Tasks
    <3>2. Returns(next.on, todo[t])
      BY <2>2, <3>1 DEF LocksReturned
    <3> QED
      BY <2>1, <2>2, <3>2, LenProperties DEF Returns, Asks
  <2>3. CASE next.op = "put" /\ Reader[next.on] = t
    <3>1. /\ t = "button" => next \in ButtonOps
          /\ t = "i2c" => next \in I2cOps
          /\ t = "machine" => next \in MachineOps
          /\ t \in {"led", "config"} => next \in LookOps
          /\ t # "output"
      BY <2>1, HeadTailProperties DEF Inv, Programs, Tasks
    <3> QED
      BY <2>3, <3>1
         DEF ButtonOps, I2cOps, MachineOps, LookOps, Take, Look, Put, Respond, Freeing, Reader, Tasks
  <2> QED
    BY <2>2, <2>3 DEF WaitsFor
<1> QED
  BY <1>1, <1>2, <1>3, SpecInv, PTL DEF Spec
=============================================================================
