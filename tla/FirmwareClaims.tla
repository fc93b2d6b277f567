--------------------------- MODULE FirmwareClaims ---------------------------
(***************************************************************************)
(* A statement the code makes about firmware updates that it does not      *)
(* keep.  (Two more are properties of FirmwareUpdate: ReadyIsWhole is      *)
(* refuted when the host resends a block, NeverStranded when its commit    *)
(* has no payload.)                                                        *)
(***************************************************************************)
EXTENDS FirmwareUpdate

\* "Verify that we are in a booted firmware to avoid reverting to a bad state":
\* what the bootloader restores is a whole image (flash_writer.rs, prepare_update).
RevertsToBootedImage ==
  [][OnTrial /\ magic' = "Revert" => Complete(active')]_vars
=============================================================================
