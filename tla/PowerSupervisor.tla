-------------------------- MODULE PowerSupervisor --------------------------
(***************************************************************************)
(* What the power-management state machine promises about the supply of    *)
(* the Compute Module, without its inputs, timers, events or queues: when  *)
(* the supply may be switched, that a stop once begun is finished, and     *)
(* that the reason of a stop decides where it ends.                        *)
(***************************************************************************)
VARIABLES mode, reason, supply
svars == <<mode, reason, supply>>

Init == mode = "Off" /\ reason = "none" /\ supply = FALSE

Step(from, to, r, s) ==
  /\ mode \in from /\ mode' = to
  /\ reason' = r /\ supply' = s

Start == Step({"Off"}, "Starting", "none", TRUE)
Abort == Step({"Starting"}, "Off", "none", FALSE)
Up    == Step({"Starting", "Standby"}, "Running", "none", TRUE)

\* The CM is given time to shut down, for one of three reasons.
Stop(r) == Step({"Running"}, "Stopping", r, TRUE)
Halt    == reason \in {"command", "blackout"} /\ Step({"Stopping"}, "Down", reason, FALSE)
Suspend == reason = "standby" /\ Step({"Stopping"}, "Standby", reason, TRUE)

\* The supply is cut under a CM that has gone, was asked to, or hangs.
Cut(r)  == Step({"Running"}, "Down", r, FALSE)

Restart == Step({"Off", "Starting", "Running", "Stopping", "Down", "Standby"}, "Off", "none", FALSE)

Next ==
  \/ Start \/ Abort \/ Up
  \/ \E r \in {"command", "blackout", "standby"} : Stop(r)
  \/ Halt \/ Suspend
  \/ \E r \in {"command", "blackout"} : Cut(r)
  \/ Restart

Spec == Init /\ [][Next]_svars
=============================================================================
