---------------------------- MODULE ConfigClaims ----------------------------
(***************************************************************************)
(* A statement of the repository about the settings that the code does not *)
(* keep.                                                                   *)
(***************************************************************************)
EXTENDS ConfigStore

\* "Persistent settings stored in flash: Voltage thresholds and correction
\* scales" (README.md:321-323): a start finds the scales where the last write
\* left them.  init_config_manager reads every key but the three scales, so what
\* a host has written and the task has stored is never used again.
StoredScalesReturn ==
  [][init_config_manager => \A k \in Scales : runtime_config'[k] = flash[k]]_vars
=============================================================================
