------------------------ MODULE FirmwareSlotsProofs ------------------------
(***************************************************************************)
(* FirmwareUpdate implements FirmwareSlots, for every set of images and    *)
(* all sizes within the bounds stated: whatever blocks are damaged,        *)
(* dropped or sent twice, whatever uploads are given up, begun again or    *)
(* committed too early or without a payload, and whichever erases, writes  *)
(* and commits of the flash fail.                                          *)
(***************************************************************************)
EXTENDS FirmwareUploadProofs

\* Hosts wait for the running image's confirmation, let a committed update be
\* applied before they begin the next, and do not both resend blocks and leave
\* others out or commit before the last; their starts reach the controller.
Patient ==
  /\ Disturbances \subseteq AllDisturbances \ {"Again", "Unconfirmed"}
  /\ Accountable /\ QueueDepth <= ImageBlocks + 1

----------------------------------------------------------------------------
(* Which commits the writer will refuse *)

\* What the writer will have counted when its job is done.
Counting == IF job.kind = "write" THEN blocks_received + 1 ELSE blocks_received
NoStartBefore(j) == \A i \in 1 .. j - 1 : requests[i].op # "StartUpdate"

\* A commit at j is refused: the writer has failed and is not told to start again
\* before it, or there are too few requests before it for a whole image.  Behind a
\* start the queue never has room for so many.
Refused(j) ==
  NoStartBefore(j) =>
    /\ state # "ReadyToCommit"
    /\ state \in {"Preparing", "Updating"} => Counting + j <= ImageBlocks

\* Any other is the last request of a host that waits for the outcome.
Awaiting == host \in {"committed", "flashed"} /\ Faultless
CommitsLast ==
  /\ job.kind = "commit" => Awaiting /\ requests = <<>>
  /\ \A j \in 1 .. Len(requests) :
       requests[j].op = "Commit" => Refused(j) \/ (Awaiting /\ j = Len(requests))

----------------------------------------------------------------------------
(* What is in the partitions *)

\* The image that runs is whole, and so is the one a reset puts in its place, of
\* which the writer and the host have nothing more to do until then.
IsStaged == magic = "Swap" /\ ~swapped
StagedIsFinal ==
  IsStaged =>
    /\ HoldsImage(dfu) /\ requests = <<>> /\ job.kind = "none"
    /\ Awaiting /\ state = "Complete"
Whole == Complete(active) /\ (OnTrial => Complete(dfu))

SlotsInv == CommitsLast /\ StagedIsFinal /\ Whole
UploadInv == TypeOK /\ ReadyInv /\ RecoveryInv /\ SlotsInv

----------------------------------------------------------------------------
(* Steps and the parts of the invariant *)

\* While the writer has something to do nothing is staged or on trial.
LEMMA BusySlots ==
  ASSUME UploadInv, job.kind # "none" PROVE mark = "done" /\ ~OnTrial /\ ~IsStaged
  BY DEF UploadInv, RecoveryInv, ConfirmedFirst, SlotsInv, StagedIsFinal

\* While no host waits for an outcome, nothing is staged and all commits are refused.
LEMMA NobodyWaits ==
  ASSUME UploadInv, ~Awaiting
  PROVE  /\ ~IsStaged /\ job.kind # "commit"
         /\ \A j \in 1 .. Len(requests) : requests[j].op = "Commit" => Refused(j)
  BY DEF UploadInv, SlotsInv, CommitsLast, StagedIsFinal

\* What is queued behind them changes nothing about commits that are refused.
LEMMA StillRefused ==
  ASSUME TypeOK, NEW c \in Command, Send(c), UNCHANGED <<job, status>>,
         NEW j \in 1 .. Len(requests), Refused(j)
  PROVE  Refused(j)' /\ requests'[j] = requests[j]
  <1>1. /\ Len(requests) \in Nat /\ state' = state
        /\ \A i \in 1 .. Len(requests) : requests'[i] = requests[i]
        /\ Counting' = Counting
    BY QueueEnd DEF Counting, status
  <1>2. \A i \in 1 .. j - 1 : requests'[i] = requests[i]
    BY <1>1
  <1> QED BY <1>1, <1>2 DEF Refused, NoStartBefore

\* A host that does not wait for an outcome queues a request: any, if it waits
\* then, and no commit otherwise.
LEMMA SentCommits ==
  ASSUME UploadInv, ~Awaiting, NEW c \in Command, Send(c), UNCHANGED <<job, status>>,
         c.op = "Commit" => Awaiting'
  PROVE  CommitsLast'
  <1>1. /\ Len(requests) \in Nat /\ Len(requests') = Len(requests) + 1
        /\ requests'[Len(requests')] = c
    BY QueueEnd DEF UploadInv
  <1>2. ASSUME NEW j \in 1 .. Len(requests), requests'[j].op = "Commit" PROVE Refused(j)'
    <2>1. requests'[j] = requests[j]
      BY QueueEnd DEF UploadInv
    <2> QED BY <1>2, <2>1, NobodyWaits, StillRefused DEF UploadInv
  <1> QED BY <1>1, <1>2, NobodyWaits DEF CommitsLast

LEMMA SameCommits ==
  ASSUME UploadInv, UNCHANGED <<requests, job, status>>, ~Awaiting \/ Awaiting' PROVE CommitsLast'
  BY NobodyWaits DEF UploadInv, SlotsInv, CommitsLast, Refused, NoStartBefore, Counting, status

LEMMA SameWhole == Whole /\ UNCHANGED flash => Whole'
  BY DEF Whole, OnTrial, Complete, Holds, flash

\* A host that does not wait for an outcome does something.
LEMMA HostStep ==
  ASSUME UploadInv, ~Awaiting, UNCHANGED flash PROVE StagedIsFinal' /\ Whole'
  <1>1. ~IsStaged'
    BY NobodyWaits DEF IsStaged, flash
  <1> QED BY <1>1, SameWhole DEF UploadInv, SlotsInv, StagedIsFinal

----------------------------------------------------------------------------
(* The host's steps *)

LEMMA StartSlots ==
  ASSUME UploadInv, NEW img \in Images, Patient, I2cStartDfu(img) PROVE SlotsInv'
  <1> DEFINE c == [op |-> "StartUpdate", blocks |-> ImageBlocks]
  <1>0. host \notin {"committed", "flashed"} /\ ~Awaiting /\ UNCHANGED <<status, job, flash>>
    BY DEF I2cStartDfu, MayStart, Patient, Awaiting
  <1>1. StagedIsFinal' /\ Whole'
    BY <1>0, HostStep
  <1>2. CASE Send(c)
    <2>1. c \in Command /\ c.op = "StartUpdate"
      BY ConstantTypes DEF Command
    <2> HIDE DEF c
    <2> QED BY <1>0, <1>1, <1>2, <2>1, SentCommits DEF SlotsInv
  <1>3. CASE UNCHANGED requests
    BY <1>0, <1>1, <1>3, SameCommits DEF UploadInv, SlotsInv
  <1> QED BY <1>2, <1>3 DEF I2cStartDfu, TooShort

LEMMA UploadSlots ==
  ASSUME UploadInv, I2cUploadBlock PROVE SlotsInv'
  <1>0. host = "uploading" /\ UNCHANGED <<status, job, flash>> /\ ~Awaiting
    BY DEF I2cUploadBlock, Awaiting
  <1>1. StagedIsFinal' /\ Whole'
    BY <1>0, HostStep
  <1>2. PICK b \in 0 .. ImageBlocks - 1, fault \in {"none", "Corrupt", "Length", "Short"} : ReceiveBlock(b, fault)
    BY ConstantTypes DEF I2cUploadBlock, UploadInv, TypeOK
  <1>3. CASE UNCHANGED requests
    BY <1>0, <1>1, <1>3, SameCommits DEF UploadInv, SlotsInv
  <1>4. CASE Send(BlockOf(b))
    <2>1. b \in Nat /\ b \in Block /\ uploading \in Uploaded
      BY ConstantTypes DEF UploadInv, TypeOK, Block, Uploaded
    <2>2. <<uploading, b>> \in Content
      BY <2>1 DEF Content, Uploaded
    <2>3. BlockOf(b) \in Command /\ BlockOf(b).op = "WriteBlock"
      BY <2>1, <2>2 DEF Command, BlockOf
    <2> QED BY <1>0, <1>1, <1>4, <2>3, SentCommits DEF SlotsInv
  <1> QED BY <1>2, <1>3, <1>4 DEF ReceiveBlock, TooShort, BlockOf, UploadInv, TypeOK

LEMMA AskSlots ==
  ASSUME UploadInv, I2cCommitDfu PROVE SlotsInv'
  <1>0. /\ host = "uploading" /\ host' = "committed" /\ ~Awaiting
        /\ UNCHANGED <<i2c, status, job, flash>>
    BY DEF I2cCommitDfu, TooShort, Awaiting
  <1>1. StagedIsFinal' /\ Whole'
    BY <1>0, HostStep
  <1>2. CASE UNCHANGED requests
    BY <1>0, <1>1, <1>2, SameCommits DEF UploadInv, SlotsInv
  <1>3. CASE Faultless /\ Send([op |-> "Commit"])
    <2>1. [op |-> "Commit"] \in Command
      BY DEF Command
    <2>2. Awaiting'
      BY <1>0, <1>3 DEF Awaiting, Faultless, i2c
    <2> QED BY <1>0, <1>1, <1>3, <2>1, <2>2, SentCommits DEF SlotsInv
  <1> QED BY <1>2, <1>3 DEF I2cCommitDfu, TooShort, Faultless

LEMMA AbortSlots ==
  ASSUME UploadInv, I2cAbortDfu PROVE SlotsInv'
  <1> DEFINE c == [op |-> "Abort"]
  <1>0. ~Awaiting /\ UNCHANGED <<job, status, flash>>
    BY DEF I2cAbortDfu, Awaiting
  <1>1. c \in Command /\ c.op = "Abort"
    BY DEF Command
  <1> HIDE DEF c
  <1>2. CASE Send(c)
    BY <1>0, <1>1, <1>2, HostStep, SentCommits DEF SlotsInv
  <1>3. CASE UNCHANGED requests
    BY <1>0, <1>3, HostStep, SameCommits DEF SlotsInv
  <1> QED BY <1>2, <1>3 DEF I2cAbortDfu, TooShort, c

LEMMA StatusSlots ==
  ASSUME UploadInv, I2cReadDfuStatus PROVE SlotsInv'
  <1>0. UNCHANGED <<i2c, requests, status, job, flash, uploading, next_block>> /\ host # "idle"
    BY DEF I2cReadDfuStatus
  <1>1. Whole'
    BY <1>0, SameWhole DEF UploadInv, SlotsInv
  <1>2. Faultless' = Faultless
    BY <1>0 DEF Faultless, i2c
  <1>3. CASE host \in {"uploading", "committed"} /\ DfuState \in Failures /\ host' = "failed"
    <2>1. ~IsStaged
      BY <1>3 DEF DfuState, Failures, UploadInv, SlotsInv, StagedIsFinal, Awaiting, Faultless
    <2>2. StagedIsFinal'
      BY <1>0, <2>1 DEF StagedIsFinal, IsStaged, flash
    <2>3. CommitsLast'
      <3>1. CASE ~Awaiting
        BY <1>0, <3>1, SameCommits
      <3>2. CASE Awaiting
        <4>1. host = "committed" /\ Faultless /\ state \in {"WriteError", "ProtocolError"}
          BY <1>3, <3>2 DEF Awaiting, Faultless, DfuState, Failures, UploadInv, TypeOK, FlashUpdateState
        <4>2. job.kind # "commit"
          BY <4>1 DEF UploadInv, ReadyInv, WriterInv
        <4>3. \A j \in 1 .. Len(requests) : Refused(j)'
          BY <1>0, <4>1 DEF Refused, status
        <4> QED BY <1>0, <4>2, <4>3 DEF CommitsLast
      <3> QED BY <3>1, <3>2
    <2> QED BY <1>1, <2>2, <2>3 DEF SlotsInv
  <1>4. CASE host = "committed" /\ DfuState = "Idle" /\ host' = "flashed"
    <2>1. Awaiting'
      BY <1>2, <1>4 DEF Awaiting, DfuState, Faultless, UploadInv, TypeOK
    <2>2. StagedIsFinal'
      BY <1>0, <2>1 DEF UploadInv, SlotsInv, StagedIsFinal, IsStaged, HoldsImage, Holds, flash, status
    <2> QED BY <1>0, <1>1, <2>1, <2>2, SameCommits DEF SlotsInv
  <1> QED BY <1>3, <1>4 DEF I2cReadDfuStatus

----------------------------------------------------------------------------
(* The writer's steps *)

\* A commit that is refused at its place is refused one place further on.
LEMMA TakeCommits ==
  ASSUME UploadInv, Patient, ReceiveRequest PROVE CommitsLast'
  <1> DEFINE p == requests[1]
  <1>0. /\ job.kind = "none" /\ requests # <<>> /\ requests' = Tail(requests)
        /\ Awaiting' <=> Awaiting
    BY DEF ReceiveRequest, Awaiting, Faultless, uploader, i2c
  <1>1. /\ Len(requests) \in Nat /\ Len(requests) >= 1 /\ Len(requests') = Len(requests) - 1
        /\ Head(requests) = p /\ \A i \in 1 .. Len(requests) - 1 : requests'[i] = requests[i + 1]
        /\ Len(requests) <= ImageBlocks + 1
        /\ ImageBlocks \in Nat /\ blocks_received \in Nat /\ Counting = blocks_received
    BY <1>0, QueueEnds, ConstantTypes, UpdateAssumption DEF UploadInv, TypeOK, Patient, Counting
  <1>2. \A j \in 1 .. Len(requests) :
          requests[j].op = "Commit" => Refused(j) \/ (Awaiting /\ j = Len(requests))
    BY DEF UploadInv, SlotsInv, CommitsLast
  <1>3. ASSUME p.op = "Commit", state = "ReadyToCommit" PROVE Awaiting /\ Len(requests) = 1
    <2>1. ~Refused(1)
      BY <1>3 DEF Refused, NoStartBefore
    <2> QED BY <1>1, <1>2, <1>3, <2>1
  <1>4. ASSUME job'.kind = "commit" PROVE Awaiting' /\ requests' = <<>>
    <2>1. p.op = "Commit" /\ state = "ReadyToCommit"
      BY <1>0, <1>1, <1>4 DEF ReceiveRequest, AcceptsCommit, start_update, abort_update, protocol_error
    <2>2. requests' \in Seq(Command)
      BY <1>0, HeadTailProperties DEF UploadInv, TypeOK
    <2> QED BY <1>0, <1>1, <1>3, <2>1, <2>2, EmptySeq
  \* What the request taken makes of the count.
  <1>5. \/ state' = "Preparing" /\ p.op = "StartUpdate" /\ Counting' = 0
        \/ state' = "Updating" /\ state = "Updating" /\ Counting' = Counting + 1
        \/ state' \in {"Idle", "ProtocolError"}
        \/ p.op = "Commit" /\ state = "ReadyToCommit"
    BY <1>0, <1>1 DEF ReceiveRequest, AcceptsCommit, start_update, abort_update, protocol_error,
                      SetState, Status, status, Counting
  <1>6. ASSUME NEW j \in 1 .. Len(requests'), requests'[j].op = "Commit"
        PROVE  Refused(j)' \/ (Awaiting' /\ j = Len(requests'))
    <2>1. j + 1 \in 1 .. Len(requests) /\ requests'[j] = requests[j + 1] /\ j \in Nat /\ j >= 1
      BY <1>1
    <2>2. CASE Awaiting /\ j + 1 = Len(requests)
      <3>1. j = Len(requests')
        BY <1>1, <2>1, <2>2
      <3> QED BY <1>0, <2>2, <3>1
    <2>3. CASE Refused(j + 1)
      <3> SUFFICES ASSUME NoStartBefore(j)'
                   PROVE  /\ state' # "ReadyToCommit"
                          /\ state' \in {"Preparing", "Updating"} => Counting' + j <= ImageBlocks
        BY DEF Refused
      <3>1. p.op # "StartUpdate" => NoStartBefore(j + 1)
        <4> SUFFICES ASSUME p.op # "StartUpdate", NEW i \in 1 .. j
                     PROVE  requests[i].op # "StartUpdate"
          BY <2>1 DEF NoStartBefore
        <4>1. CASE i = 1
          BY <4>1
        <4>2. CASE i # 1
          <5>1. i - 1 \in 1 .. j - 1 /\ (i - 1) + 1 = i /\ i - 1 \in 1 .. Len(requests) - 1
            BY <2>1, <4>2
          <5>2. requests'[i - 1] = requests[i]
            BY <1>1, <5>1
          <5> QED BY <5>1, <5>2 DEF NoStartBefore
        <4> QED BY <4>1, <4>2
      <3>2. ~(p.op = "Commit" /\ state = "ReadyToCommit")
        BY <1>1, <1>3, <2>1
      <3>3. state = "Updating" /\ p.op # "StartUpdate" => Counting + (j + 1) <= ImageBlocks
        BY <2>3, <3>1 DEF Refused
      <3>4. state' = "Updating" => p.op # "StartUpdate"
        BY <1>1 DEF ReceiveRequest, start_update, Status
      <3> HIDE DEF p
      <3> QED BY <1>1, <1>5, <2>1, <3>2, <3>3, <3>4
    <2> QED BY <1>2, <2>1, <1>6, <2>2, <2>3
  <1> QED BY <1>4, <1>6 DEF CommitsLast

LEMMA TakeSlots ==
  ASSUME UploadInv, Patient, ReceiveRequest PROVE SlotsInv'
  <1>0. requests # <<>> /\ UNCHANGED flash
    BY DEF ReceiveRequest
  <1>2. ~IsStaged /\ Whole
    BY <1>0 DEF UploadInv, SlotsInv, StagedIsFinal
  <1>3. StagedIsFinal' /\ Whole'
    BY <1>0, <1>2, SameWhole DEF StagedIsFinal, IsStaged, flash
  <1> QED BY <1>3, TakeCommits DEF SlotsInv

\* While there is a job, nothing is staged or on trial, and the step of the job
\* cannot hurt the image that runs.
LEMMA JobKeepsWhole ==
  ASSUME UploadInv, job.kind # "none", UNCHANGED <<magic, swapped, active>>
  PROVE  StagedIsFinal' /\ Whole'
  <1>1. ~OnTrial /\ ~IsStaged /\ Complete(active)
    BY BusySlots DEF UploadInv, SlotsInv, Whole
  <1> QED BY <1>1 DEF StagedIsFinal, IsStaged, Whole, OnTrial, Complete, Holds

LEMMA EraseSlots ==
  ASSUME UploadInv, prepare_update PROVE SlotsInv'
  <1>0. /\ job.kind = "erase" /\ state = "Preparing" /\ blocks_received = 0
        /\ UNCHANGED <<requests, i2c, uploader, magic, swapped, active>>
    BY DEF prepare_update, UploadInv, ReadyInv, WriterInv, Erasing
  <1>1. /\ job'.kind \in {"none", "erase"} /\ Counting = 0 /\ Counting' = 0
        /\ state' \in {"Preparing", "Updating", "WriteError"}
    BY <1>0 DEF prepare_update, PrepareFails, SetState, Status, Counting, status
  <1>2. \A j : Refused(j) => Refused(j)'
    BY <1>0, <1>1 DEF Refused, NoStartBefore
  <1>3. CommitsLast'
    BY <1>0, <1>1, <1>2 DEF UploadInv, SlotsInv, CommitsLast, Refused, NoStartBefore,
                            Awaiting, Faultless, i2c, uploader
  <1> QED BY <1>0, <1>3, JobKeepsWhole DEF UploadInv, SlotsInv

LEMMA WriteSlots ==
  ASSUME UploadInv, write_block PROVE SlotsInv'
  <1>0. /\ job.kind = "write" /\ job' = [kind |-> "none"]
        /\ UNCHANGED <<requests, i2c, uploader, magic, swapped, active>>
    BY DEF write_block
  <1>1. job'.kind = "none" /\ state = "Updating"
    BY <1>0, WritingBlock DEF UploadInv
  <1>2. \/ state' = "WriteError"
        \/ state' = "Updating" /\ Counting' = Counting
        \/ state' = "ReadyToCommit" /\ Counting = ImageBlocks
    BY <1>0, <1>1, WritingBlock
       DEF UploadInv, write_block, AllReceived, SetState, Status, Block, Counting
  <1>3. \A j \in 1 .. Len(requests) :
          requests[j].op = "Commit" => Refused(j) \/ (Awaiting /\ j = Len(requests))
    BY DEF UploadInv, SlotsInv, CommitsLast
  <1>4. ASSUME NEW j \in 1 .. Len(requests), Refused(j) PROVE Refused(j)'
    <2>1. NoStartBefore(j)' <=> NoStartBefore(j)
      BY <1>0 DEF NoStartBefore
    <2>2. NoStartBefore(j) => Counting + j <= ImageBlocks
      BY <1>1, <1>4 DEF Refused
    <2>3. j >= 1 /\ ImageBlocks \in Nat
      BY ConstantTypes
    <2> QED BY <1>2, <2>1, <2>2, <2>3 DEF Refused
  <1>5. CommitsLast'
    BY <1>0, <1>1, <1>3, <1>4 DEF CommitsLast, Awaiting, Faultless, i2c, uploader
  <1> QED BY <1>0, <1>5, JobKeepsWhole DEF UploadInv, SlotsInv

\* A commit stages an image that a host uploaded and that the writer found whole,
\* or fails and leaves the flash alone.
LEMMA CommitSlots ==
  ASSUME UploadInv, commit_update
  PROVE  /\ SlotsInv'
         /\ \/ /\ HoldsImage(dfu) /\ ~OnTrial /\ ~IsStaged
               /\ magic' = "Swap" /\ swapped' = FALSE
            \/ UNCHANGED flash
  <1>0. /\ job.kind = "commit" /\ state = "ReadyToCommit" /\ job'.kind = "none"
        /\ state' = "Complete" /\ UNCHANGED <<i2c, requests, active, dfu, uploader>>
    BY DEF commit_update, SetState, Status, UploadInv, ReadyInv, WriterInv
  <1>1. /\ HoldsImage(dfu) /\ Awaiting /\ requests = <<>> /\ Complete(active)
    BY <1>0 DEF UploadInv, ReadyInv, WriterInv, Ready, SlotsInv, CommitsLast, Whole
  <1>2. ~OnTrial /\ ~IsStaged
    BY <1>0, BusySlots
  <1>3. \/ magic' = "Swap" /\ swapped' = FALSE
        \/ UNCHANGED flash
    BY <1>2 DEF commit_update, mark_updated, OnTrial, IsStaged, flash
  <1>4. Awaiting' /\ HoldsImage(dfu)' /\ Complete(active)'
    BY <1>0, <1>1 DEF Awaiting, Faultless, HoldsImage, Complete, Holds, i2c, uploader
  <1>5. ~OnTrial'
    BY <1>2, <1>3 DEF OnTrial, flash
  <1>6. StagedIsFinal' /\ Whole'
    BY <1>0, <1>1, <1>4, <1>5 DEF StagedIsFinal, Whole
  <1>7. CommitsLast'
    <2>1. Len(requests') = 0
      BY <1>0, <1>1, EmptySeq
    <2> QED BY <1>0, <2>1 DEF CommitsLast
  <1> QED BY <1>0, <1>1, <1>2, <1>3, <1>6, <1>7 DEF UploadInv, SlotsInv

----------------------------------------------------------------------------
(* Confirmation, resets and the invariant *)

\* Steps that leave the upload alone and the flash as sound as it was.
LEMMA QuietSlots ==
  ASSUME UploadInv, UNCHANGED <<i2c, requests, status, job, active, dfu, uploader>>,
         \/ UNCHANGED <<magic, swapped>>
         \/ magic' = "Boot"
  PROVE  SlotsInv'
  <1>1. UNCHANGED <<host, uploading, next_block, dfu_crc_error, data_length_error, state,
                    blocks_received, total_num_blocks, active, dfu>>
    BY DEF uploader, i2c, status
  <1>2. CommitsLast'
    BY <1>1 DEF UploadInv, SlotsInv, CommitsLast, Refused, NoStartBefore, Counting, Awaiting, Faultless
  <1>3. StagedIsFinal' /\ Whole'
    BY <1>1 DEF UploadInv, SlotsInv, StagedIsFinal, IsStaged, Awaiting, Faultless, Whole, OnTrial,
                HoldsImage, Complete, Holds
  <1> QED BY <1>2, <1>3 DEF SlotsInv

\* Whatever a reset interrupts, a whole image runs after it.
LEMMA BootWhole ==
  ASSUME StagedIsFinal, Whole, BootLoader PROVE Whole' /\ ~IsStaged'
  <1>1. CASE IsStaged
    <2>1. Complete(dfu)
      BY <1>1 DEF StagedIsFinal, HoldsImage, Complete
    <2> QED BY <1>1, <2>1 DEF IsStaged, BootLoader, Exchange, Whole, OnTrial, Complete, Holds
  <1>2. CASE OnTrial
    BY <1>2 DEF IsStaged, BootLoader, Exchange, Whole, OnTrial, Complete, Holds
  <1>3. CASE magic # "Swap"
    BY <1>3 DEF IsStaged, BootLoader, flash, Whole, OnTrial, Complete, Holds
  <1> QED BY <1>1, <1>2, <1>3 DEF IsStaged, OnTrial

LEMMA RestSlots ==
  /\ requests = <<>> /\ job.kind = "none" => CommitsLast
  /\ requests' = <<>> /\ job'.kind = "none" => CommitsLast'
  <1>1. Len(<<>>) = 0
    BY EmptySeq
  <1> QED BY <1>1 DEF CommitsLast

LEMMA UploadInit == Init => UploadInv
  <1> SUFFICES ASSUME Init PROVE UploadInv
    OBVIOUS
  <1>1. Holds(active, Factory)
    BY UpdateAssumption DEF Init, Filled, Holds, Block
  <1>2. job.kind = "none"
    BY DEF Init, InitRam
  <1>3. CommitsLast
    BY <1>2, RestSlots DEF Init, InitRam
  <1>4. StagedIsFinal /\ Whole
    BY <1>1 DEF Init, StagedIsFinal, IsStaged, Whole, OnTrial, Complete
  <1> QED BY <1>3, <1>4, TypeInit, ReadyInit, RecoveryInit DEF UploadInv, SlotsInv

LEMMA SlotsNext ==
  ASSUME UploadInv, Patient, [Next]_vars PROVE SlotsInv'
  <1>1. CASE \E img \in Images : I2cStartDfu(img)
    BY <1>1, StartSlots
  <1>2. CASE I2cUploadBlock
    BY <1>2, UploadSlots
  <1>3. CASE I2cCommitDfu
    BY <1>3, AskSlots
  <1>4. CASE I2cAbortDfu
    BY <1>4, AbortSlots
  <1>5. CASE I2cReadDfuStatus
    BY <1>5, StatusSlots
  <1>6. CASE ReceiveRequest
    BY <1>6, TakeSlots
  <1>7. CASE prepare_update
    BY <1>7, EraseSlots
  <1>8. CASE write_block
    BY <1>8, WriteSlots
  <1>9. CASE commit_update
    BY <1>9, CommitSlots
  <1>10. CASE CheckBooted \/ MarkBooted \/ UNCHANGED vars
    BY <1>10, QuietSlots DEF CheckBooted, MarkBooted, vars, flash
  <1>11. CASE Reset
    <2>1. requests' = <<>> /\ job'.kind = "none" /\ BootLoader
      BY <1>11 DEF Reset
    <2>2. Whole' /\ ~IsStaged'
      BY <2>1, BootWhole DEF UploadInv, SlotsInv
    <2> QED BY <2>1, <2>2, RestSlots DEF SlotsInv, StagedIsFinal
  <1> QED BY <1>1, <1>2, <1>3, <1>4, <1>5, <1>6, <1>7, <1>8, <1>9, <1>10, <1>11 DEF Next

LEMMA UploadNext ==
  ASSUME UploadInv, Patient, [Next]_vars PROVE UploadInv'
  <1>1. Accountable /\ "Unconfirmed" \notin Disturbances
    BY DEF Patient
  <1>2. TypeOK' /\ ReadyInv'
    BY <1>1, TypeNext, ReadyNext DEF UploadInv
  <1>3. RecoveryInv'
    BY <1>1, RecoveryNext DEF UploadInv
  <1> QED BY <1>2, <1>3, SlotsNext DEF UploadInv

----------------------------------------------------------------------------
(* Uploads implement the slots *)

\* The image of a whole partition is the one it holds.
LEMMA ImageInWhole ==
  ASSUME NEW p, NEW img \in Uploaded, Holds(p, img) PROVE Complete(p) /\ ImageIn(p) = img
  <1>1. \A other \in Uploaded : Holds(p, other) => other = img
    <2>1. 0 \in 0 .. ImageBlocks - 1
      BY ConstantTypes
    <2>2. ASSUME NEW other \in Uploaded, Holds(p, other) PROVE other = img
      <3>1. p[0] = <<img, 0>> /\ p[0] = <<other, 0>>
        BY <2>1, <2>2 DEF Holds
      <3> QED BY <3>1
    <2> QED BY <2>2
  <1>2. Complete(p)
    BY DEF Complete, Uploaded
  <1>3. ImageIn(p) \in Uploaded /\ Holds(p, ImageIn(p))
    BY <1>2 DEF ImageIn, Complete, Uploaded
  <1> QED BY <1>1, <1>2, <1>3

LEMMA WholeIsImage ==
  ASSUME NEW p, Complete(p) PROVE ImageIn(p) # "none"
  BY UpdateAssumption DEF ImageIn, Complete, Uploaded

LEMMA SameImage ==
  /\ active' = active => ImageIn(active)' = ImageIn(active)
  /\ active' = dfu => ImageIn(active)' = ImageIn(dfu)
  /\ dfu' = dfu => ImageIn(dfu)' = ImageIn(dfu)
  /\ dfu' = active => ImageIn(dfu)' = ImageIn(active)
  BY DEF ImageIn, Complete, Holds

\* A step that leaves the bootloader's state alone, and the DFU partition when
\* that matters.
LEMMA StutterSlots ==
  ASSUME active' = active, ~IsStaged /\ ~IsStaged', ~OnTrial /\ ~OnTrial'
  PROVE  UNCHANGED Slots!slots
  BY SameImage DEF Slots!slots, IsStaged, OnTrial

LEMMA FlashSlots ==
  ASSUME UNCHANGED flash PROVE UNCHANGED Slots!slots
  BY SameImage DEF Slots!slots, OnTrial, flash

LEMMA BootStepSlots ==
  ASSUME UploadInv, Patient, BootLoader PROVE Slots!Next \/ UNCHANGED Slots!slots
  <1>1. CASE IsStaged
    <2>1. /\ active' = dfu /\ dfu' = active /\ magic' = "Swap" /\ swapped' = TRUE
      BY <1>1 DEF IsStaged, BootLoader, Exchange
    <2>2. ImageIn(dfu) # "none"
      BY <1>1, WholeIsImage DEF UploadInv, SlotsInv, StagedIsFinal, HoldsImage, Complete
    <2>3. Slots!Apply
      BY <1>1, <2>1, <2>2, SameImage DEF Slots!Apply, IsStaged, OnTrial
    <2> QED BY <2>3 DEF Slots!Next
  <1>2. CASE OnTrial
    <2>1. /\ active' = dfu /\ dfu' = active /\ magic' = "Revert" /\ swapped' = FALSE
      BY <1>2 DEF OnTrial, BootLoader, Exchange
    <2>2. ImageIn(dfu) # "none"
      BY <1>2, WholeIsImage DEF UploadInv, SlotsInv, Whole
    <2>3. Slots!Revert
      BY <1>2, <2>1, <2>2, SameImage DEF Slots!Revert, OnTrial
    <2> QED BY <2>3 DEF Slots!Next
  <1>3. CASE magic # "Swap"
    BY <1>3, FlashSlots DEF BootLoader
  <1> QED BY <1>1, <1>2, <1>3 DEF IsStaged, OnTrial

LEMMA StageSlots ==
  ASSUME UploadInv, Patient, commit_update PROVE Slots!Next \/ UNCHANGED Slots!slots
  <1>1. active' = active /\ dfu' = dfu
    BY DEF commit_update
  <1>2. CASE HoldsImage(dfu) /\ ~OnTrial /\ ~IsStaged /\ magic' = "Swap" /\ swapped' = FALSE
    <2>1. PICK img \in Images : Holds(dfu, img)
      BY <1>2 DEF HoldsImage
    <2>2. ImageIn(dfu) = img
      BY <2>1, ImageInWhole DEF Uploaded
    <2>3. Slots!Stage(img)
      BY <1>1, <1>2, <2>2, SameImage DEF Slots!Stage, OnTrial, IsStaged
    <2> QED BY <2>3 DEF Slots!Next
  <1> QED BY <1>2, CommitSlots, FlashSlots

LEMMA ConfirmSlots ==
  ASSUME UploadInv, Patient, MarkBooted PROVE Slots!Next \/ UNCHANGED Slots!slots
  <1>1. host = "idle" /\ ~IsStaged /\ active' = active /\ dfu' = dfu
    BY DEF MarkBooted, UploadInv, RecoveryInv, ConfirmedFirst, SlotsInv, StagedIsFinal, Awaiting
  <1>2. CASE magic' = "Boot" /\ swapped' = FALSE /\ OnTrial
    <2>1. ImageIn(dfu) # "none"
      BY <1>2, WholeIsImage DEF UploadInv, SlotsInv, Whole
    <2>2. Slots!Confirm
      BY <1>1, <1>2, <2>1, SameImage DEF Slots!Confirm, OnTrial, IsStaged
    <2> QED BY <2>2 DEF Slots!Next
  <1>3. CASE magic' = "Boot" /\ swapped' = FALSE /\ ~OnTrial
    BY <1>1, <1>3, StutterSlots DEF OnTrial, IsStaged
  <1>4. CASE UNCHANGED <<magic, swapped>>
    BY <1>1, <1>4, FlashSlots DEF flash
  <1> QED BY <1>2, <1>3, <1>4 DEF MarkBooted

LEMMA NextSlots ==
  ASSUME UploadInv, Patient, [Next]_vars PROVE Slots!Next \/ UNCHANGED Slots!slots
  <1>1. CASE UNCHANGED flash
    BY <1>1, FlashSlots
  <1>2. CASE prepare_update \/ write_block
    <2>1. job.kind # "none" /\ UNCHANGED <<magic, swapped, active>>
      BY <1>2 DEF prepare_update, write_block
    <2> QED BY <2>1, BusySlots, StutterSlots DEF OnTrial, IsStaged
  <1>3. CASE commit_update
    BY <1>3, StageSlots
  <1>4. CASE MarkBooted
    BY <1>4, ConfirmSlots
  <1>5. CASE Reset
    BY <1>5, BootStepSlots DEF Reset
  <1> QED BY <1>1, <1>2, <1>3, <1>4, <1>5
          DEF Next, vars, I2cStartDfu, I2cUploadBlock, I2cCommitDfu, I2cAbortDfu,
              I2cReadDfuStatus, ReceiveRequest, CheckBooted

\* Uploads through queues, erases, blocks and resets at any step implement the
\* slots: the controller always runs a whole image, a staged one replaces it at a
\* reset, and is replaced by it again unless it has been confirmed; for patient
\* hosts, whatever blocks are damaged or dropped, uploads committed early or given
\* up, and whichever steps of the writer the flash fails.
THEOREM ImplementsSlotsHolds == Patient => (Spec => ImplementsSlots)
<1> SUFFICES ASSUME Patient PROVE Spec => ImplementsSlots
  OBVIOUS
<1>1. Init => Slots!Init
  <2> SUFFICES ASSUME Init PROVE Slots!Init
    OBVIOUS
  <2>1. Holds(active, Factory)
    BY UpdateAssumption DEF Init, Filled, Holds, Block
  <2>2. ImageIn(active) = Factory
    BY <2>1, ImageInWhole DEF Uploaded
  <2> QED BY <2>2 DEF Init, Slots!Init, OnTrial
<1>2. UploadInv /\ [Next]_vars => UploadInv'
  BY UploadNext
<1>3. UploadInv /\ [Next]_vars => [Slots!Next]_(Slots!slots)
  BY NextSlots
<1> QED BY <1>1, <1>2, <1>3, UploadInit, PTL DEF Spec, ImplementsSlots, Slots!Spec
=============================================================================
