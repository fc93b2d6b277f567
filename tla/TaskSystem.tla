----------------------------- MODULE TaskSystem -----------------------------
(***************************************************************************)
(* Who waits for whom: the tasks of the controller, the two mutexes they   *)
(* keep while they wait, the bounded channels between them and the         *)
(* hardware watchdog (firmware/src/tasks/).                                *)
(*                                                                         *)
(* A task is the sequence of the operations it may wait in, todo[t]; what  *)
(* it computes between them is left out, except that it decides which      *)
(* operations come next.  Tasks that take INPUTS, do not wait and give it  *)
(* back (sampling, the user button, the test pin) keep nobody waiting and  *)
(* are left out, and so is the flash writer, which waits for none of this. *)
(***************************************************************************)
EXTENDS Naturals, Sequences

CONSTANT Capacity    \* of each channel

Locks == {"inputs", "config"}    \* INPUTS, RUNTIME_CONFIG
Reader ==
  [to_machine |-> "machine",     \* STATE_MACHINE_EVENT_CHANNEL
   to_config  |-> "config",      \* CONFIG_MANAGER_EVENT_CHANNEL
   to_led     |-> "led",         \* LED_BLINKER_EVENT_CHANNEL
   to_output  |-> "output"]      \* POWER_BUTTON_EVENT_CHANNEL
Channels == DOMAIN Reader
Tasks == {"button", "i2c", "machine", "led", "config", "output"}

ASSUME CapacityAssumption == Capacity \in [Channels -> Nat \ {0}]

VARIABLES
  todo,      \* the operations a task has yet to do before it is idle again
  holder,    \* who holds a mutex, or "nobody"
  queued,    \* the number of events on a channel
  batch      \* the events the machine has drained and not handled yet

vars == <<todo, holder, queued, batch>>

\* Operations a task may wait in: taking a mutex, taking one that it gives back
\* before it waits again, sending, and answering a master that reads.  An
\* operation frees the mutex the task gives back as soon as it has gone on.
Take(l) == [op |-> "take", on |-> l, frees |-> "nothing"]
Look(l) == [op |-> "look", on |-> l, frees |-> "nothing"]
Put(c)  == [op |-> "put", on |-> c, frees |-> "nothing"]
Respond == [op |-> "respond", on |-> "master", frees |-> "nothing"]
Freeing(l, op) == [op EXCEPT !.frees = l]
Op == [op : {"take", "look"}, on : Locks, frees : Locks \union {"nothing"}]
        \union [op : {"put"}, on : Channels, frees : Locks \union {"nothing"}]
        \union [op : {"respond"}, on : {"master"}, frees : Locks \union {"nothing"}]

Init ==
  /\ todo = [t \in Tasks |-> <<>>]
  /\ holder = [l \in Locks |-> "nobody"]
  /\ queued = [c \in Channels |-> 0]
  /\ batch = 0

Idle(t) == todo[t] = <<>>

----------------------------------------------------------------------------
(* What each task does once it has something to do *)

\* An edge of the button: release the CM's button; on a press also push it and
\* wake the machine.  INPUTS is kept to the end.
ButtonEdges ==
  { <<Take("inputs"), Freeing("inputs", Put("to_output"))>>,
    <<Take("inputs"), Put("to_output"), Put("to_output"),
      Freeing("inputs", Put("to_machine"))>> }

\* A setter keeps RUNTIME_CONFIG until its event is on the channel.
Set == <<Take("config"), Freeing("config", Put("to_config"))>>
\* An answer is sent while INPUTS is held.
Reads ==
  { <<Take("inputs"), Freeing("inputs", Respond)>>,
    <<Take("inputs"), Look("config"), Freeing("inputs", Respond)>> }
\* Settings, the brightness, USB ports, overrides, Off with the rail up and
\* down, and the other requests to the machine.
Writes ==
  { Set, Set \o <<Put("to_led")>>, <<Put("to_config")>>, <<Put("to_led")>>,
    <<Take("inputs"), Freeing("inputs", Put("to_machine"))>>, <<Look("inputs")>>,
    <<Put("to_machine")>> }
Ping == <<Put("to_machine")>>
\* A command is followed by a ping.  (One that is refused does nothing.)
I2cCommands == { ops \o Ping : ops \in Reads \union Writes }

\* Every cycle reads the edges and, without waiting again, the alarm.
Sampling == <<Look("inputs")>>
\* An entry action sets a pattern; those of the powered-down states and of
\* SystemStartup switch the USB ports first, that of PowerOff does only that.
Pattern == <<Put("to_led")>>
Ports == <<Put("to_config")>>
\* Mutant: INPUTS is kept from the look at VIN on.
ChargingTakesTwice ==
  <<Take("inputs"), Look("inputs"), Freeing("inputs", Look("config"))>>

\* off_charging looks at VIN, takes INPUTS again and keeps it while it reads
\* the threshold.
Charging == <<Take("inputs"), Freeing("inputs", Look("config"))>>
\* What handling an event may wait in: without a transition; on an event that
\* asks for one; on a Tick that has looked at VIN, a limit or both.
Handling ==
  { <<>>, <<Look("inputs")>>, <<Look("config")>>, <<Look("inputs"), Look("config")>>,
    Charging } \union
  { Pattern, Ports \o Pattern, Ports } \union
  { <<Look("inputs")>> \o Pattern, <<Look("inputs")>> \o Ports,
    Charging \o Ports \o Pattern,
    <<Look("config")>> \o Pattern, <<Look("config")>> \o Ports \o Pattern,
    <<Look("inputs"), Look("config"), Put("to_output")>> \o Pattern }

\* SupercapBar reads the voltage; a hardware version asks for the test pin.
Frames == { <<>>, <<Look("inputs")>> }

\* Mutant: the configuration task reads a setting back from RUNTIME_CONFIG.
StoringReadsBack == { <<>>, <<Look("config")>> }

Storing == { <<>>, <<Look("inputs")>> }

----------------------------------------------------------------------------
(* A task goes on.  One that need not wait does not give way to another on  *)
(* the processor; here it may, which only adds interleavings.               *)

\* Mutant: a channel takes one event more than it has room for.
ReadyOneMore(t) ==
  /\ ~Idle(t)
  /\ LET next == Head(todo[t]) IN
       /\ next.op \in {"take", "look"} => holder[next.on] = "nobody"
       /\ next.op = "put" => queued[next.on] <= Capacity[next.on]

Ready(t) ==
  /\ ~Idle(t)
  /\ LET next == Head(todo[t]) IN
       /\ next.op \in {"take", "look"} => holder[next.on] = "nobody"
       /\ next.op = "put" => queued[next.on] < Capacity[next.on]

\* A master may stop reading in the middle of an answer.
Answering(t) == ~Idle(t) /\ Head(todo[t]).op = "respond"

\* t begins, with the operations ops ahead of it.
Begin(t, ops) ==
  /\ Idle(t)
  /\ todo' = [todo EXCEPT ![t] = ops]

Step(t) ==
  /\ Ready(t)
  /\ todo' = [todo EXCEPT ![t] = Tail(@)]
  /\ LET next == Head(todo[t]) IN
       /\ holder' = [l \in Locks |->
            IF l = next.frees THEN "nobody"
            ELSE IF next.op = "take" /\ l = next.on THEN t ELSE holder[l]]
       /\ queued' = IF next.op = "put" THEN [queued EXCEPT ![next.on] = @ + 1]
                    ELSE queued
  /\ UNCHANGED batch

----------------------------------------------------------------------------
(* What makes a task begin *)

ButtonEdge ==
  /\ \E ops \in ButtonEdges : Begin("button", ops)
  /\ UNCHANGED <<holder, queued, batch>>

Command ==
  /\ \E ops \in I2cCommands : Begin("i2c", ops)
  /\ UNCHANGED <<holder, queued, batch>>

\* A cycle takes every event there is and adds the Tick.
Cycle ==
  /\ batch = 0 /\ Begin("machine", Sampling)
  /\ batch' = queued["to_machine"] + 1
  /\ queued' = [queued EXCEPT !["to_machine"] = 0]
  /\ UNCHANGED holder

HandleEvent ==
  /\ batch > 0 /\ \E ops \in Handling : Begin("machine", ops)
  /\ batch' = batch - 1
  /\ UNCHANGED <<holder, queued>>

\* One event is taken from a channel, if there is one.
Receive(c) ==
  queued' = [queued EXCEPT ![c] = IF queued[c] = 0 THEN 0 ELSE queued[c] - 1]

Frame ==
  /\ \E ops \in Frames : Begin("led", ops)
  /\ Receive("to_led")
  /\ UNCHANGED <<holder, batch>>

Store ==
  /\ queued["to_config"] > 0 /\ Receive("to_config")
  /\ \E ops \in Storing : Begin("config", ops)
  /\ UNCHANGED <<holder, batch>>

\* The output task waits for its pulses only.
Pulse ==
  /\ queued["to_output"] > 0 /\ Receive("to_output") /\ Begin("output", <<>>)
  /\ UNCHANGED <<holder, batch>>

\* Mutant: the feeder leaves its line out while a read is being answered.
FeederSkipsReads == holder["inputs"] # "nobody" /\ ~Answering("i2c")

\* The feeder takes INPUTS after each feeding, for its debug line, and waits
\* as long as somebody has it.
FeederWaits == holder["inputs"] # "nobody"

\* The hardware watchdog bites when it has not been fed for 8 s.  How long the
\* feeder has waited is left open.
Bite ==
  /\ FeederWaits
  /\ todo' = [t \in Tasks |-> <<>>]
  /\ holder' = [l \in Locks |-> "nobody"]
  /\ queued' = [c \in Channels |-> 0]
  /\ batch' = 0

Next ==
  \/ ButtonEdge \/ Command \/ Cycle \/ HandleEvent \/ Frame \/ Store \/ Pulse
  \/ \E t \in Tasks : Step(t)
  \/ Bite

Spec == Init /\ [][Next]_vars

\* The executor polls every task that is woken.  The machine, the LEDs and the
\* configuration, which wait for what others take again and again, get it if it
\* is there again and again.  Nothing is assumed of the button, of commands and
\* of a master's reading.
Fairness ==
  /\ WF_vars(Cycle) /\ WF_vars(HandleEvent) /\ WF_vars(Frame) /\ WF_vars(Store)
  /\ WF_vars(Pulse) /\ WF_vars(Bite)
  /\ WF_vars(Step("button")) /\ WF_vars(~Answering("i2c") /\ Step("i2c"))
  /\ \A t \in {"machine", "led", "config"} : SF_vars(~Answering(t) /\ Step(t))
FairSpec == Spec /\ Fairness

----------------------------------------------------------------------------
(* Properties *)

TypeOK ==
  /\ todo \in [Tasks -> Seq(Op)]
  /\ holder \in [Locks -> Tasks \union {"nobody"}]
  /\ queued \in [Channels -> Nat] /\ \A c \in Channels : queued[c] <= Capacity[c]
  /\ batch \in 0 .. Capacity["to_machine"] + 1

\* t cannot go on before u does.
WaitsFor(t, u) ==
  /\ ~Idle(t)
  /\ LET next == Head(todo[t]) IN
       \/ next.op \in {"take", "look"} /\ holder[next.on] = u
       \/ next.op = "put" /\ queued[next.on] = Capacity[next.on] /\ Reader[next.on] = u

\* Tasks that wait for each other in a circle: whoever holds INPUTS is among
\* them.  That is what makes every deadlock end: the feeder needs INPUTS.
CirclesHoldInputs ==
  LET waiting == {t \in Tasks : \E u \in Tasks : WaitsFor(t, u)} IN
    \A S \in (SUBSET waiting) \ {{}} :
      (\A t \in S : \E u \in S : WaitsFor(t, u)) => holder["inputs"] \in S

\* No task waits for itself: for a mutex that it holds, as embassy's cannot be
\* taken twice, or for room in a channel that it drains.  CirclesHoldInputs has
\* nothing against it if the mutex is INPUTS: the watchdog would bite each time.
NobodyWaitsForItself == \A t \in Tasks : ~WaitsFor(t, t)

\* The machine comes back to its next cycle, whatever deadlocks there were on
\* the way and whatever the master does.
MachineAlive == []<>(Idle("machine") /\ batch = 0)
=============================================================================
