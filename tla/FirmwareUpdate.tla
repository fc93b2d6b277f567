--------------------------- MODULE FirmwareUpdate ---------------------------
(***************************************************************************)
(* Updating the controller's own firmware: the DFU registers of the I2C    *)
(* task (firmware/src/tasks/i2c_secondary.rs), the flash writer task       *)
(* (flash_writer.rs), the task that confirms a new image                   *)
(* (mark_firmware_booted.rs), and what they rely on of embassy-boot: the   *)
(* state partition and the swap or revert the bootloader makes at a reset. *)
(*                                                                         *)
(* A partition is a function from its blocks to their content; an erase    *)
(* chunk and an upload block have the same size, 4096 bytes.  The host is  *)
(* a program that follows the protocol in the comment at the head of       *)
(* i2c_secondary.rs; what it and its surroundings may do besides is in     *)
(* Disturbances.                                                           *)
(***************************************************************************)
EXTENDS Naturals, Sequences, FiniteSets

CONSTANTS
  Images,        \* the images a host may upload
  BadImages,     \* those among them that never stay up for 30 s
  Factory,       \* the image the controller left the factory with
  NumBlocks,     \* blocks of a partition
  ImageBlocks,   \* blocks of an image
  QueueDepth,    \* MAX_FLASH_WRITE_QUEUE_DEPTH
  Disturbances   \* a subset of AllDisturbances

\* The host sends a block damaged on the wire or of a wrong length, or of which
\* (or of the start) only the command byte arrives; resends its last block; sends
\* commits and aborts without a payload, as the protocol's comment has them;
\* commits before it has sent all blocks; gives an upload up, starts over during
\* one or after a committed one, or does not wait until the running image has been
\* confirmed; an erase or write of the flash fails.
AllDisturbances == {"Corrupt", "Length", "Short", "ShortStart", "Resend", "Bare",
                    "EarlyCommit", "Abort", "Restart", "Again", "Unconfirmed", "FlashError"}

ASSUME UpdateAssumption ==
  /\ BadImages \subseteq Images /\ Factory \notin Images
  /\ \A name \in {"erased", "garbled", "none"} : name \notin Images \union {Factory}
  /\ NumBlocks \in Nat /\ ImageBlocks \in 1 .. NumBlocks
  /\ QueueDepth \in Nat \ {0}
  /\ Disturbances \subseteq AllDisturbances

Block == 0 .. NumBlocks - 1
Content == (Images \union {Factory, "erased", "garbled"}) \X Block
Erased  == <<"erased", 0>>
Garbled == <<"garbled", 0>>
Holds(partition, img) == \A b \in 0 .. ImageBlocks - 1 : partition[b] = <<img, b>>
Complete(partition) == \E img \in Images \union {Factory} : Holds(partition, img)

Command ==
  [op : {"StartUpdate"}, blocks : Nat]
    \union [op : {"WriteBlock"}, block : Block, data : Content]
    \union [op : {"Commit", "Abort"}]
FlashUpdateState == {"Idle", "Preparing", "Updating", "ReadyToCommit",
                     "WriteError", "ProtocolError", "Complete"}

VARIABLES
  dfu_crc_error, data_length_error,            \* the I2C task
  requests,                                    \* FLASH_WRITE_REQUEST_CHANNEL
  state, blocks_received, total_num_blocks,    \* FLASH_WRITER_STATUS
  job,      \* what the flash writer is in the midst of
  mark,     \* how far mark_firmware_booted_task has got
  magic, swapped, active, dfu,                 \* the flash
  host, uploading, next_block                  \* the host, its image and block

i2c       == <<dfu_crc_error, data_length_error>>
status    == <<state, blocks_received, total_num_blocks>>
flash     == <<magic, swapped, active, dfu>>
uploader  == <<host, uploading, next_block>>
vars      == <<i2c, requests, status, job, mark, flash, uploader>>

Blank == [b \in Block |-> Erased]
Filled(img) == [b \in Block |-> IF b < ImageBlocks THEN <<img, b>> ELSE Erased]

\* A partial image does not start.
Alive == Complete(active)
Confirmable == Alive /\ \A img \in BadImages : ~Holds(active, img)

InitRam ==
  /\ dfu_crc_error = FALSE /\ data_length_error = FALSE
  /\ requests = <<>>
  /\ state = "Idle" /\ blocks_received = 0 /\ total_num_blocks = 0
  /\ job = [kind |-> "none"]
  /\ mark = "waiting"
  /\ host = "idle" /\ uploading = Factory /\ next_block = 0

Init ==
  /\ InitRam
  /\ magic = "Boot" /\ swapped = FALSE
  /\ active = Filled(Factory) /\ dfu = Blank

----------------------------------------------------------------------------
(* The DFU registers.  The I2C task handles one command at a time and waits *)
(* in it while the queue is full.                                           *)

Send(command) ==
  /\ Len(requests) < QueueDepth
  /\ requests' = Append(requests, command)

\* A write of the command byte alone is dropped: nothing is queued, and no flag
\* tells the host.
TooShort == UNCHANGED <<i2c, requests>>

\* What a host may begin an upload from.
MayStart ==
  /\ host \in {"idle", "failed"}
       \union (IF "Restart" \in Disturbances THEN {"uploading"} ELSE {})
       \union (IF "Again" \in Disturbances THEN {"flashed"} ELSE {})
  /\ mark = "done" \/ "Unconfirmed" \in Disturbances

I2cStartDfu(img) ==
  /\ Alive /\ MayStart
  /\ \/ /\ dfu_crc_error' = FALSE /\ data_length_error' = FALSE
        /\ Send([op |-> "StartUpdate", blocks |-> ImageBlocks])
     \/ /\ "Length" \in Disturbances
        /\ data_length_error' = TRUE /\ UNCHANGED <<dfu_crc_error, requests>>
     \/ "ShortStart" \in Disturbances /\ TooShort
  /\ host' = "uploading" /\ uploading' = img /\ next_block' = 0
  /\ UNCHANGED <<status, job, mark, flash>>

\* Mutant: a block that fails its checksum is queued all the same.
ReceiveBlockUnchecked(b, fault) ==
  IF dfu_crc_error \/ data_length_error THEN UNCHANGED <<i2c, requests>>
  ELSE /\ Send([op |-> "WriteBlock", block |-> b,
                data |-> IF fault = "none" THEN <<uploading, b>> ELSE Garbled])
       /\ UNCHANGED i2c

\* Write 0x43 with block b, damaged by fault.
ReceiveBlock(b, fault) ==
  CASE fault = "Length" ->
         data_length_error' = TRUE /\ UNCHANGED <<dfu_crc_error, requests>>
    [] fault = "Short" -> TooShort
    [] fault \in {"none", "Corrupt"} /\ (dfu_crc_error \/ data_length_error) ->
         UNCHANGED <<i2c, requests>>
    [] fault = "Corrupt" /\ ~dfu_crc_error /\ ~data_length_error ->
         dfu_crc_error' = TRUE /\ UNCHANGED <<data_length_error, requests>>
    [] OTHER ->
         Send([op |-> "WriteBlock", block |-> b, data |-> <<uploading, b>>]) /\ UNCHANGED i2c

I2cUploadBlock ==
  /\ Alive /\ host = "uploading"
  /\ \/ /\ next_block < ImageBlocks /\ next_block' = next_block + 1
        /\ \E fault \in {"none"} \union ({"Corrupt", "Length", "Short"} \intersect Disturbances) :
             ReceiveBlock(next_block, fault)
     \/ /\ "Resend" \in Disturbances /\ next_block > 0 /\ UNCHANGED next_block
        /\ ReceiveBlock(next_block - 1, "none")
  /\ UNCHANGED <<status, job, mark, flash, host, uploading>>

I2cCommitDfu ==
  /\ Alive /\ host = "uploading"
  /\ next_block = ImageBlocks \/ "EarlyCommit" \in Disturbances
  /\ \/ /\ IF dfu_crc_error \/ data_length_error THEN UNCHANGED requests
           ELSE Send([op |-> "Commit"])
        /\ UNCHANGED i2c
     \/ "Bare" \in Disturbances /\ TooShort
  /\ host' = "committed"
  /\ UNCHANGED <<status, job, mark, flash, uploading, next_block>>

I2cAbortDfu ==
  /\ Alive /\ "Abort" \in Disturbances
  /\ host \in {"uploading", "failed"} /\ host' = "idle"
  /\ \/ Send([op |-> "Abort"]) /\ UNCHANGED i2c
     \/ "Bare" \in Disturbances /\ TooShort
  /\ UNCHANGED <<status, job, mark, flash, uploading, next_block>>

\* get_dfu_state, what a read of 0x41 answers.
DfuState ==
  CASE dfu_crc_error -> "CRCError"
    [] ~dfu_crc_error /\ data_length_error -> "DataLengthError"
    [] OTHER ->
         CASE state \in {"Idle", "Complete"} -> "Idle"
           [] state = "Updating" /\ Len(requests) = QueueDepth -> "QueueFull"
           [] OTHER -> state
Failures == {"CRCError", "DataLengthError", "WriteError", "ProtocolError"}

\* The host reads the status: an error ends its upload, and Idle after its
\* commit tells it that the update has been installed.
I2cReadDfuStatus ==
  /\ Alive
  /\ \/ host \in {"uploading", "committed"} /\ DfuState \in Failures /\ host' = "failed"
     \/ host = "committed" /\ DfuState = "Idle" /\ host' = "flashed"
  /\ UNCHANGED <<i2c, requests, status, job, mark, flash, uploading, next_block>>

----------------------------------------------------------------------------
(* flash_writer_task *)

Status(s, received, total) ==
  state' = s /\ blocks_received' = received /\ total_num_blocks' = total
SetState(s) == Status(s, blocks_received, total_num_blocks)
FlashMayFail == "FlashError" \in Disturbances

start_update(command) ==
  /\ Status("Preparing", 0, command.blocks % 65536)
  /\ job' = [kind |-> "erase", offset |-> 0]

abort_update == Status("Idle", 0, 0) /\ UNCHANGED job

\* Mutant: a request out of place is dropped without a trace.
protocol_error_dropped == UNCHANGED <<status, job>>

protocol_error == SetState("ProtocolError") /\ UNCHANGED job

AcceptsCommit == state = "ReadyToCommit"

\* One command is taken from the queue; start and abort are always accepted,
\* a block while updating, a commit when all blocks have been received.
ReceiveRequest ==
  /\ Alive /\ job.kind = "none" /\ requests # <<>>
  /\ requests' = Tail(requests)
  /\ LET command == Head(requests)
     IN CASE command.op = "StartUpdate" -> start_update(command)
          [] command.op = "Abort" -> abort_update
          [] command.op = "WriteBlock" /\ state = "Updating" ->
               /\ job' = [kind |-> "write", block |-> command.block, data |-> command.data]
               /\ UNCHANGED status
          [] command.op = "Commit" /\ AcceptsCommit ->
               job' = [kind |-> "commit"] /\ UNCHANGED status
          [] OTHER -> protocol_error
  /\ UNCHANGED <<i2c, mark, flash, uploader>>

\* Mutant: the erase runs on behind the partition.
EraseRunsOver(offset) == offset = NumBlocks
\* Mutant: only the first chunk is erased.
EraseStops(offset) == offset = 0
EraseEnds(offset) == offset + 1 = NumBlocks

\* Mutant: a failed erase is not recorded.
PrepareFailsSilently == UNCHANGED status
PrepareFails == SetState("WriteError")

\* prepare_update erases one chunk and lets the other tasks run.
prepare_update ==
  /\ Alive /\ job.kind = "erase"
  /\ \/ /\ dfu' = [dfu EXCEPT ![job.offset] = Erased]
        /\ IF EraseEnds(job.offset)
             THEN SetState("Updating") /\ job' = [kind |-> "none"]
             ELSE UNCHANGED status /\ job' = [kind |-> "erase", offset |-> job.offset + 1]
     \/ /\ FlashMayFail
        /\ PrepareFails /\ job' = [kind |-> "none"]
        /\ UNCHANGED dfu
  /\ UNCHANGED <<i2c, requests, mark, magic, swapped, active, uploader>>

\* Flash bits only ever go from 1 to 0 until the next erase.
Programmed(old, data) == IF old \in {Erased, data} THEN data ELSE Garbled

\* Mutant: one block too few is enough.
AllReceivedEarly(received) == received + 1 >= total_num_blocks
AllReceived(received) == received >= total_num_blocks

write_block ==
  /\ Alive /\ job.kind = "write" /\ job' = [kind |-> "none"]
  /\ \/ /\ job.block \in Block
        /\ dfu' = [dfu EXCEPT ![job.block] = Programmed(@, job.data)]
        /\ Status(IF AllReceived(blocks_received + 1) THEN "ReadyToCommit" ELSE state,
                  blocks_received + 1, total_num_blocks)
     \/ /\ FlashMayFail
        /\ dfu' \in {dfu, [dfu EXCEPT ![job.block] = Garbled]}
        /\ SetState("WriteError")
  /\ UNCHANGED <<i2c, requests, mark, magic, swapped, active, uploader>>

\* FirmwareUpdater::mark_updated.  Nothing is written when the magic is there
\* already; otherwise the swap progress is cleared with it.
mark_updated ==
  IF magic = "Swap" THEN UNCHANGED <<magic, swapped>>
  ELSE magic' = "Swap" /\ swapped' = FALSE

\* commit_update and the assignment after it, which hides its failure.
commit_update ==
  /\ Alive /\ job.kind = "commit" /\ job' = [kind |-> "none"]
  /\ \/ mark_updated /\ Status("Complete", 0, 0)
     \/ FlashMayFail /\ SetState("Complete") /\ UNCHANGED <<magic, swapped>>
  /\ UNCHANGED <<i2c, requests, mark, active, dfu, uploader>>

----------------------------------------------------------------------------
(* mark_firmware_booted_task, 30 s after the start *)

\* Mutant: the task trusts an image that never proved itself.
ReachesMark == Alive
SurvivesDelay == Confirmable

CheckBooted ==
  /\ SurvivesDelay /\ mark = "waiting"
  /\ mark' = IF magic = "Swap" THEN "marking" ELSE "done"
  /\ UNCHANGED <<i2c, requests, status, job, flash, uploader>>

\* FirmwareUpdater::mark_booted; the task ends also when it fails.
MarkBooted ==
  /\ SurvivesDelay /\ mark = "marking"
  /\ \/ magic' = "Boot" /\ swapped' = FALSE /\ mark' = "done"
     \/ FlashMayFail /\ mark' = "failed" /\ UNCHANGED <<magic, swapped>>
  /\ UNCHANGED <<i2c, requests, status, job, active, dfu, uploader>>

----------------------------------------------------------------------------
(* A reset, and what the bootloader does before the firmware runs: it swaps *)
(* the partitions once for a commit and back if that was not confirmed.     *)

Exchange == active' = dfu /\ dfu' = active
BootLoader ==
  CASE magic = "Swap" /\ ~swapped -> Exchange /\ swapped' = TRUE /\ UNCHANGED magic
    [] magic = "Swap" /\ swapped  -> Exchange /\ swapped' = FALSE /\ magic' = "Revert"
    [] OTHER -> UNCHANGED flash

Reset ==
  /\ dfu_crc_error' = FALSE /\ data_length_error' = FALSE
  /\ requests' = <<>>
  /\ state' = "Idle" /\ blocks_received' = 0 /\ total_num_blocks' = 0
  /\ job' = [kind |-> "none"]
  /\ mark' = "waiting"
  /\ host' = "idle" /\ uploading' = Factory /\ next_block' = 0
  /\ BootLoader

----------------------------------------------------------------------------
Next ==
  \/ \E img \in Images : I2cStartDfu(img)
  \/ I2cUploadBlock \/ I2cCommitDfu \/ I2cAbortDfu \/ I2cReadDfuStatus
  \/ ReceiveRequest \/ prepare_update \/ write_block \/ commit_update
  \/ CheckBooted \/ MarkBooted
  \/ Reset

\* The firmware's tasks run, the host goes on asking, and an image that does
\* not stay up is reset by the watchdog the bootloader started.
Fairness ==
  /\ WF_vars(ReceiveRequest) /\ WF_vars(prepare_update)
  /\ WF_vars(write_block) /\ WF_vars(commit_update)
  /\ WF_vars(CheckBooted) /\ WF_vars(MarkBooted)
  /\ WF_vars(I2cReadDfuStatus)
  /\ WF_vars(~Confirmable /\ Reset)

Spec == Init /\ [][Next]_vars
FairSpec == Spec /\ Fairness

----------------------------------------------------------------------------
(* Properties *)

Job ==
  [kind : {"none", "commit"}] \union [kind : {"erase"}, offset : Block]
    \union [kind : {"write"}, block : Block, data : Content]

TypeOK ==
  /\ dfu_crc_error \in BOOLEAN /\ data_length_error \in BOOLEAN
  /\ requests \in Seq(Command) /\ Len(requests) <= QueueDepth
  /\ state \in FlashUpdateState /\ blocks_received \in Nat /\ total_num_blocks \in Nat
  /\ job \in Job
  /\ mark \in {"waiting", "marking", "done", "failed"}
  /\ magic \in {"Boot", "Swap", "Revert"} /\ swapped \in BOOLEAN
  /\ active \in [Block -> Content] /\ dfu \in [Block -> Content]
  /\ host \in {"idle", "uploading", "committed", "flashed", "failed"}
  /\ uploading \in Images \union {Factory} /\ next_block \in 0 .. ImageBlocks

Good(partition) == Complete(partition) /\ \A img \in BadImages : ~Holds(partition, img)
OnTrial == magic = "Swap" /\ swapped

\* The writer asks for the commit only when every block of one image is in the
\* DFU partition, whatever was damaged, given up or begun again before.
ReadyIsWhole == state = "ReadyToCommit" => Complete(dfu)

\* A host that has seen its commit succeed finds its image installed by the
\* next reset, and not a mixture with an earlier upload.
FlashedIsStaged ==
  host = "flashed" => magic = "Swap" /\ ~swapped /\ Holds(dfu, uploading)

\* Wherever a reset strikes, the controller has an image that stays up: the one
\* that runs or, while that one is on trial, the one the bootloader will restore.
Recoverable == IF OnTrial THEN Good(dfu) ELSE Good(active)

\* A host that waits for the outcome of its commit can read it already, or the
\* writer has still something to do: the commit is not lost between them, provided
\* that it has a payload.
NeverStranded ==
  host = "committed" =>
    DfuState \in Failures \union {"Idle"} \/ requests # <<>> \/ job.kind # "none"

\* Its wait has a bound: until it reads the outcome each step of the writer brings
\* it nearer, as a request costs an erase of the whole partition at most.
Work ==
  Len(requests) * (NumBlocks + 2)
    + CASE job.kind = "none" -> 0
        [] job.kind = "erase" -> NumBlocks - job.offset
        [] OTHER -> 1
AnswerNears ==
  [][host = "committed" /\ host' = "committed"
       => Work' < Work \/ UNCHANGED <<requests, job>>]_vars

\* The upload of a host that has committed, with a payload, is decided.
CommitAnswered == host = "committed" ~> host # "committed"

\* An image that does not stay up is replaced by one that does.
BadImageReverted == ~Good(active) ~> Good(active)

\* The DFU status does not stay at Preparing.
PreparingEnds == state = "Preparing" ~> state # "Preparing"

----------------------------------------------------------------------------
(* What an update promises *)

ImageIn(partition) ==
  IF Complete(partition)
    THEN CHOOSE img \in Images \union {Factory} : Holds(partition, img) ELSE "garbled"
Slots == INSTANCE FirmwareSlots WITH
  None <- "none",
  running <- ImageIn(active),
  fallback <- IF OnTrial THEN ImageIn(dfu) ELSE "none",
  staged <- IF magic = "Swap" /\ ~swapped THEN ImageIn(dfu) ELSE "none"

\* The update implements the slots: a reset at any step, a damaged or abandoned
\* upload included, leaves a whole image running.
ImplementsSlots == Slots!Spec
=============================================================================
