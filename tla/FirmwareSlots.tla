--------------------------- MODULE FirmwareSlots ---------------------------
(***************************************************************************)
(* What a firmware update promises, without partitions, blocks or queues:  *)
(* the controller always runs a complete image; a new one is staged whole, *)
(* replaces the running one at a reset, and is replaced by it again at the *)
(* next reset unless it has been confirmed.                                *)
(***************************************************************************)
CONSTANTS Images, Factory, None

VARIABLES running, fallback, staged
slots == <<running, fallback, staged>>

Init == running = Factory /\ fallback = None /\ staged = None

Stage(img) ==
  /\ staged = None /\ fallback = None
  /\ staged' = img
  /\ UNCHANGED <<running, fallback>>

Apply ==
  /\ staged # None
  /\ running' = staged /\ fallback' = running /\ staged' = None

Confirm == fallback # None /\ fallback' = None /\ UNCHANGED <<running, staged>>

Revert ==
  /\ fallback # None
  /\ running' = fallback /\ fallback' = None
  /\ UNCHANGED staged

Next == (\E img \in Images : Stage(img)) \/ Apply \/ Confirm \/ Revert

Spec == Init /\ [][Next]_slots
=============================================================================
