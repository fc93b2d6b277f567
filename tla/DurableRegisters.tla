-------------------------- MODULE DurableRegisters --------------------------
(***************************************************************************)
(* What the configuration registers promise a host, without tasks, locks   *)
(* or queues: a written value is shown at once and saved later; saving     *)
(* follows the order of the writes; a restart loses the writes not yet     *)
(* saved and shows, once ready, what had been saved, or the default where  *)
(* that cannot be read.  Nothing but a write changes what is saved.        *)
(***************************************************************************)
EXTENDS Sequences

CONSTANTS
  Keys, Values,
  Default,     \* the value of a register before it is restored
  Restored,    \* the registers a restart restores
  Guarded      \* the registers whose writes may be left unsaved

VARIABLES shown, saved, unsaved, ready
registers == <<shown, saved, unsaved, ready>>

Write == [key : Keys, value : Values]

Init ==
  /\ shown = [k \in Keys |-> Default]
  /\ saved \in [Keys -> Values]
  /\ unsaved = <<>> /\ ready = FALSE

Set(w) ==
  /\ shown' = [shown EXCEPT ![w.key] = w.value]
  /\ unsaved' = Append(unsaved, w)
  /\ UNCHANGED <<saved, ready>>

Save ==
  /\ unsaved # <<>>
  /\ LET w == Head(unsaved) IN
       \/ saved' = [saved EXCEPT ![w.key] = w.value]
       \/ w.key \in Guarded /\ UNCHANGED saved
  /\ unsaved' = Tail(unsaved)
  /\ UNCHANGED <<shown, ready>>

Restore ==
  /\ ~ready /\ ready' = TRUE
  /\ \E unread \in SUBSET Restored :
       shown' = [k \in Keys |-> CASE k \in unread -> Default
                                  [] k \in Restored \ unread -> saved[k]
                                  [] k \notin Restored -> shown[k]]
  /\ UNCHANGED <<saved, unsaved>>

Restart ==
  /\ shown' = [k \in Keys |-> Default]
  /\ unsaved' = <<>> /\ ready' = FALSE
  /\ UNCHANGED saved

Next == (\E w \in Write : Set(w)) \/ Save \/ Restore \/ Restart

Spec == Init /\ [][Next]_registers
=============================================================================
