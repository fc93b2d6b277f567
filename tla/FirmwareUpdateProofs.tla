------------------------ MODULE FirmwareUpdateProofs ------------------------
(***************************************************************************)
(* Theorems about FirmwareUpdate, for every value of its constants: type   *)
(* correctness, and that a reset always leads to an image that stays up.   *)
(***************************************************************************)
EXTENDS FirmwareClaims, SequenceTheorems, TLAPS

----------------------------------------------------------------------------
(* Types *)

LEMMA ConstantTypes ==
  /\ NumBlocks \in Nat /\ ImageBlocks \in Nat /\ ImageBlocks \in 1 .. NumBlocks
  /\ \A img \in Images \union {Factory}, b \in Block : <<img, b>> \in Content
  /\ Erased \in Content /\ Garbled \in Content
  BY UpdateAssumption DEF Content, Block, Erased, Garbled

I2cType == dfu_crc_error \in BOOLEAN /\ data_length_error \in BOOLEAN
QueueType == requests \in Seq(Command) /\ Len(requests) <= QueueDepth
StatusType ==
  state \in FlashUpdateState /\ blocks_received \in Nat /\ total_num_blocks \in Nat
MarkType == mark \in {"waiting", "marking", "done", "failed"}
FlashType ==
  /\ magic \in {"Boot", "Swap", "Revert"} /\ swapped \in BOOLEAN
  /\ active \in [Block -> Content] /\ dfu \in [Block -> Content]
HostType ==
  /\ host \in {"idle", "uploading", "committed", "flashed", "failed"}
  /\ uploading \in Images \union {Factory} /\ next_block \in 0 .. ImageBlocks

LEMMA TypeParts ==
  TypeOK <=> I2cType /\ QueueType /\ StatusType /\ job \in Job /\ MarkType /\ FlashType /\ HostType
  BY DEF TypeOK, I2cType, QueueType, StatusType, MarkType, FlashType, HostType

LEMMA TypePartsNext ==
  TypeOK' <=> I2cType' /\ QueueType' /\ StatusType' /\ (job \in Job)' /\ MarkType' /\ FlashType' /\ HostType'
  BY DEF TypeOK, I2cType, QueueType, StatusType, MarkType, FlashType, HostType

LEMMA SendType ==
  ASSUME QueueType, NEW c \in Command, Send(c) PROVE QueueType'
  <1>1. requests' \in Seq(Command) /\ Len(requests') = Len(requests) + 1
    BY AppendProperties DEF Send, QueueType
  <1>2. Len(requests) \in Nat /\ QueueDepth \in Nat
    BY LenProperties, UpdateAssumption DEF QueueType
  <1> QED BY <1>1, <1>2 DEF Send, QueueType

LEMMA SameType ==
  /\ UNCHANGED i2c /\ I2cType => I2cType'
  /\ UNCHANGED requests /\ QueueType => QueueType'
  /\ UNCHANGED status /\ StatusType => StatusType'
  /\ UNCHANGED job /\ job \in Job => (job \in Job)'
  /\ UNCHANGED mark /\ MarkType => MarkType'
  /\ UNCHANGED flash /\ FlashType => FlashType'
  /\ UNCHANGED uploader /\ HostType => HostType'
  BY DEF i2c, status, flash, uploader, I2cType, QueueType, StatusType, MarkType, FlashType, HostType

LEMMA ReceiveBlockType ==
  ASSUME TypeOK, NEW b \in Block, NEW fault, ReceiveBlock(b, fault) PROVE I2cType' /\ QueueType'
  <1>1. [op |-> "WriteBlock", block |-> b, data |-> <<uploading, b>>] \in Command
    <2>1. <<uploading, b>> \in Content
      BY ConstantTypes DEF TypeOK
    <2> DEFINE d == <<uploading, b>>
    <2> HIDE DEF d
    <2>2. d \in Content => [op |-> "WriteBlock", block |-> b, data |-> d] \in Command
      BY DEF Command
    <2> QED BY <2>1, <2>2 DEF d
  <1>2. CASE UNCHANGED requests /\ I2cType'
    BY <1>2, TypeParts, SameType
  <1>3. CASE Send([op |-> "WriteBlock", block |-> b, data |-> <<uploading, b>>]) /\ UNCHANGED i2c
    BY <1>1, <1>3, TypeParts, SameType, SendType
  <1> QED BY <1>2, <1>3, TypeParts DEF ReceiveBlock, TooShort, I2cType, i2c

LEMMA TakeType ==
  ASSUME QueueType, requests # <<>>, requests' = Tail(requests)
  PROVE  QueueType' /\ Head(requests) \in Command
  <1>1. Head(requests) \in Command /\ Tail(requests) \in Seq(Command) /\ Len(Tail(requests)) = Len(requests) - 1
    BY HeadTailProperties DEF QueueType
  <1>2. Len(requests) \in Nat /\ QueueDepth \in Nat
    BY LenProperties, UpdateAssumption DEF QueueType
  <1> QED BY <1>1, <1>2 DEF QueueType

LEMMA ReceiveRequestType ==
  ASSUME TypeOK, ReceiveRequest PROVE StatusType' /\ (job \in Job)'
  <1> DEFINE c == Head(requests)
  <1>1. c \in Command
    BY TakeType, TypeParts DEF ReceiveRequest
  <1>2. StatusType /\ job \in Job
    BY TypeParts
  <1>3. CASE c.op = "StartUpdate"
    <2>1. c.blocks \in Nat /\ 0 \in Block
      BY <1>1, <1>3, UpdateAssumption DEF Command, Block
    <2>2. start_update(c)
      BY <1>3 DEF ReceiveRequest
    <2>3. c.blocks % 65536 \in Nat
      BY <2>1
    <2> HIDE DEF c
    <2>4. StatusType'
      BY <2>2, <2>3 DEF start_update, Status, StatusType, FlashUpdateState
    <2>5. (job \in Job)'
      BY <2>1, <2>2 DEF start_update, Job
    <2> QED BY <2>4, <2>5
  <1>4. CASE c.op = "Abort"
    BY <1>2, <1>4 DEF ReceiveRequest, abort_update, Status, StatusType, FlashUpdateState
  <1>5. CASE c.op = "WriteBlock" /\ state = "Updating"
    <2>1. c.block \in Block /\ c.data \in Content
      BY <1>1, <1>5 DEF Command
    <2>2. job' = [kind |-> "write", block |-> c.block, data |-> c.data] /\ UNCHANGED status
      BY <1>5 DEF ReceiveRequest
    <2> QED BY <1>2, <2>1, <2>2, SameType DEF Job
  <1>6. CASE c.op = "Commit" /\ AcceptsCommit
    <2>1. job' = [kind |-> "commit"] /\ UNCHANGED status
      BY <1>6 DEF ReceiveRequest
    <2> QED BY <1>2, <2>1, SameType DEF Job
  <1>7. CASE /\ c.op \notin {"StartUpdate", "Abort"}
             /\ ~(c.op = "WriteBlock" /\ state = "Updating")
             /\ ~(c.op = "Commit" /\ AcceptsCommit)
    <2>1. protocol_error
      BY <1>7 DEF ReceiveRequest
    <2> QED BY <1>2, <2>1 DEF protocol_error, SetState, Status, StatusType, FlashUpdateState
  <1> QED BY <1>3, <1>4, <1>5, <1>6, <1>7

LEMMA SetStateType ==
  ASSUME StatusType, NEW s \in FlashUpdateState, SetState(s) PROVE StatusType'
  BY DEF SetState, Status, StatusType

LEMMA NoJob == [kind |-> "none"] \in Job
  BY DEF Job

LEMMA PrepareType ==
  ASSUME TypeOK, prepare_update PROVE StatusType' /\ (job \in Job)' /\ FlashType'
  <1>1. /\ StatusType /\ FlashType /\ job \in Job /\ job.kind = "erase"
        /\ UNCHANGED <<magic, swapped, active>>
    BY TypeParts DEF prepare_update
  <1>2. job.offset \in Block
    BY <1>1 DEF Job
  <1>3. FlashType'
    BY <1>1, <1>2, ConstantTypes DEF prepare_update, FlashType
  <1>4. CASE SetState("Updating") /\ job' = [kind |-> "none"]
    BY <1>1, <1>3, <1>4, SetStateType, NoJob DEF FlashUpdateState
  <1>5. CASE /\ ~EraseEnds(job.offset)
             /\ UNCHANGED status /\ job' = [kind |-> "erase", offset |-> job.offset + 1]
    <2>1. job.offset + 1 \in Block
      BY <1>2, <1>5, ConstantTypes DEF EraseEnds, Block
    <2> QED BY <1>1, <1>3, <1>5, <2>1, SameType DEF Job
  <1>6. CASE SetState("WriteError") /\ job' = [kind |-> "none"]
    BY <1>1, <1>3, <1>6, SetStateType, NoJob DEF FlashUpdateState
  <1> QED BY <1>4, <1>5, <1>6 DEF prepare_update, PrepareFails

LEMMA WriteType ==
  ASSUME TypeOK, write_block PROVE StatusType' /\ (job \in Job)' /\ FlashType'
  <1>1. /\ StatusType /\ FlashType /\ job \in Job /\ job.kind = "write"
        /\ UNCHANGED <<magic, swapped, active>> /\ job' = [kind |-> "none"]
    BY TypeParts DEF write_block
  <1>2. job.block \in Block /\ job.data \in Content
    BY <1>1 DEF Job
  <1>3. Programmed(dfu[job.block], job.data) \in Content
    BY <1>2, ConstantTypes DEF Programmed
  <1>4. FlashType'
    <2>1. dfu' \in {dfu, [dfu EXCEPT ![job.block] = Programmed(dfu[job.block], job.data)],
                    [dfu EXCEPT ![job.block] = Garbled]}
      BY DEF write_block
    <2> QED BY <1>1, <1>2, <1>3, <2>1, ConstantTypes DEF FlashType
  <1>5. StatusType'
    BY <1>1 DEF write_block, Status, SetState, StatusType, FlashUpdateState
  <1> QED BY <1>1, <1>4, <1>5, NoJob

LEMMA BootType ==
  ASSUME FlashType, BootLoader PROVE FlashType'
  BY DEF FlashType, BootLoader, Exchange, flash

LEMMA RamType ==
  /\ InitRam => I2cType /\ QueueType /\ StatusType /\ job \in Job /\ MarkType /\ HostType
  /\ Reset => I2cType' /\ QueueType' /\ StatusType' /\ (job \in Job)' /\ MarkType' /\ HostType'
  <1>1. <<>> \in Seq(Command) /\ Len(<<>>) <= QueueDepth /\ 0 \in 0 .. ImageBlocks
    <2>1. Len(<<>>) = 0
      BY EmptySeq
    <2> QED BY <2>1, EmptySeq, ConstantTypes, UpdateAssumption
  <1>2. ASSUME InitRam PROVE I2cType /\ QueueType /\ StatusType /\ job \in Job /\ MarkType /\ HostType
    BY <1>1, <1>2, NoJob
       DEF InitRam, I2cType, QueueType, StatusType, MarkType, HostType, FlashUpdateState
  <1>3. ASSUME Reset PROVE I2cType' /\ QueueType' /\ StatusType' /\ (job \in Job)' /\ MarkType' /\ HostType'
    BY <1>1, <1>3, NoJob
       DEF Reset, I2cType, QueueType, StatusType, MarkType, HostType, FlashUpdateState
  <1> QED BY <1>2, <1>3

LEMMA TypeInit == Init => TypeOK
  <1> SUFFICES ASSUME Init PROVE TypeOK
    OBVIOUS
  <1>1. \A b \in Block : <<Factory, b>> \in Content
    BY ConstantTypes
  <1>2. Filled(Factory) \in [Block -> Content] /\ Blank \in [Block -> Content]
    BY <1>1, ConstantTypes DEF Filled, Blank
  <1> QED BY <1>2, RamType, TypeParts DEF Init, FlashType

LEMMA TypeNext ==
  ASSUME TypeOK, [Next]_vars PROVE TypeOK'
  <1>0. I2cType /\ QueueType /\ StatusType /\ job \in Job /\ MarkType /\ FlashType /\ HostType
    BY TypeParts
  <1> SUFFICES I2cType' /\ QueueType' /\ StatusType' /\ (job \in Job)' /\ MarkType' /\ FlashType' /\ HostType'
    BY TypePartsNext
  <1>1. ASSUME NEW img \in Images, I2cStartDfu(img)
        PROVE I2cType' /\ QueueType' /\ HostType' /\ UNCHANGED <<status, job, mark, flash>>
    <2>1. [op |-> "StartUpdate", blocks |-> ImageBlocks] \in Command
      BY ConstantTypes DEF Command
    <2>2. HostType'
      BY <1>1, ConstantTypes DEF I2cStartDfu, HostType
    <2> QED BY <1>0, <1>1, <2>1, <2>2, SendType, SameType DEF I2cStartDfu, TooShort, I2cType
  <1>2. ASSUME I2cUploadBlock
        PROVE I2cType' /\ QueueType' /\ HostType' /\ UNCHANGED <<status, job, mark, flash>>
    <2>1. next_block \in Nat /\ next_block <= ImageBlocks
      BY <1>0, ConstantTypes DEF HostType
    <2>2. HostType'
      BY <1>0, <1>2, <2>1, ConstantTypes DEF I2cUploadBlock, HostType
    <2>3. CASE next_block < ImageBlocks /\
                    \E fault \in {"none"} \union ({"Corrupt", "Length", "Short"} \intersect Disturbances) :
                      ReceiveBlock(next_block, fault)
      <3>1. next_block \in Block
        BY <2>1, <2>3, ConstantTypes DEF Block
      <3> QED BY <1>2, <2>2, <2>3, <3>1, ReceiveBlockType DEF I2cUploadBlock
    <2>4. CASE next_block > 0 /\ ReceiveBlock(next_block - 1, "none")
      <3>1. next_block - 1 \in Block
        BY <2>1, <2>4, ConstantTypes DEF Block
      <3> QED BY <1>2, <2>2, <2>4, <3>1, ReceiveBlockType DEF I2cUploadBlock
    <2> QED BY <1>2, <2>3, <2>4 DEF I2cUploadBlock
  <1>3. ASSUME I2cCommitDfu
        PROVE UNCHANGED i2c /\ QueueType' /\ HostType' /\ UNCHANGED <<status, job, mark, flash>>
    <2>1. [op |-> "Commit"] \in Command
      BY DEF Command
    <2> QED BY <1>0, <1>3, <2>1, SendType, SameType DEF I2cCommitDfu, TooShort, HostType
  <1>4. ASSUME I2cAbortDfu
        PROVE UNCHANGED i2c /\ QueueType' /\ HostType' /\ UNCHANGED <<status, job, mark, flash>>
    <2>1. [op |-> "Abort"] \in Command
      BY DEF Command
    <2> QED BY <1>0, <1>4, <2>1, SendType, SameType DEF I2cAbortDfu, TooShort, HostType
  <1>5. CASE I2cReadDfuStatus
    <2>1. HostType'
      BY <1>0, <1>5 DEF I2cReadDfuStatus, HostType
    <2> QED BY <1>0, <1>5, <2>1, SameType DEF I2cReadDfuStatus
  <1>6. CASE ReceiveRequest
    BY <1>0, <1>6, ReceiveRequestType, TakeType, SameType DEF ReceiveRequest
  <1>7. CASE prepare_update
    BY <1>0, <1>7, PrepareType, SameType DEF prepare_update
  <1>8. CASE write_block
    BY <1>0, <1>8, WriteType, SameType DEF write_block
  <1>9. CASE commit_update
    <2>1. (job \in Job)'
      BY <1>9, NoJob DEF commit_update
    <2>2. FlashType'
      BY <1>0, <1>9 DEF commit_update, mark_updated, FlashType
    <2>3. StatusType'
      BY <1>0, <1>9 DEF commit_update, Status, SetState, StatusType, FlashUpdateState
    <2> QED BY <1>0, <1>9, <2>1, <2>2, <2>3, SameType DEF commit_update
  <1>10. CASE CheckBooted
    BY <1>0, <1>10, SameType DEF CheckBooted, MarkType
  <1>11. CASE MarkBooted
    BY <1>0, <1>11, SameType DEF MarkBooted, MarkType, FlashType
  <1>12. CASE Reset
    BY <1>0, <1>12, RamType, BootType DEF Reset
  <1>13. CASE UNCHANGED vars
    BY <1>0, <1>13, SameType DEF vars
  <1> QED BY <1>0, <1>1, <1>2, <1>3, <1>4, <1>5, <1>6, <1>7, <1>8, <1>9, <1>10, <1>11, <1>12,
             <1>13, SameType DEF Next

\* Every reachable state is well typed: the queue holds requests and never more
\* than its depth, and the writer's job names blocks of the partition.
THEOREM TypeCorrect == Spec => []TypeOK
  BY TypeInit, TypeNext, PTL DEF Spec

----------------------------------------------------------------------------
(* A reset leads to an image that stays up *)

\* Nothing is asked of the writer before the running image has been confirmed,
\* and once it has been, no image is on trial.
ConfirmedFirst ==
  /\ mark # "done" => host = "idle" /\ requests = <<>> /\ job.kind = "none"
  /\ mark = "done" => ~OnTrial

RecoveryInv == ConfirmedFirst /\ Recoverable

LEMMA ConfirmableIsGood == Confirmable => Good(active)
  BY DEF Confirmable, Alive, Good

\* A step that leaves the flash and the confirmation alone, and asks the writer
\* for something only when the image has been confirmed.
LEMMA HarmlessStep ==
  ASSUME RecoveryInv, mark' = mark, UNCHANGED flash,
         mark # "done" => host' = "idle" /\ requests' = <<>> /\ job' = job
  PROVE  RecoveryInv'
  BY DEF RecoveryInv, ConfirmedFirst, Recoverable, OnTrial, Good, Complete, Holds, flash

\* A step of the writer's job changes the partition that does not matter.
LEMMA WriterStep ==
  ASSUME RecoveryInv, job.kind # "none", mark' = mark, active' = active,
         UNCHANGED <<magic, swapped>> \/ mark_updated
  PROVE  RecoveryInv'
  <1>1. mark = "done" /\ ~OnTrial /\ Good(active)
    BY DEF RecoveryInv, ConfirmedFirst, Recoverable
  <1>2. ~OnTrial' /\ Good(active)'
    BY <1>1 DEF OnTrial, mark_updated, Good, Complete, Holds
  <1> QED BY <1>1, <1>2 DEF RecoveryInv, ConfirmedFirst, Recoverable

LEMMA BootStep ==
  ASSUME RecoveryInv, BootLoader PROVE Recoverable'
  <1>1. CASE magic = "Swap" /\ ~swapped
    <2>1. Good(active) /\ dfu' = active /\ OnTrial'
      BY <1>1 DEF RecoveryInv, Recoverable, OnTrial, BootLoader, Exchange
    <2> QED BY <2>1 DEF Recoverable, Good, Complete, Holds
  <1>2. CASE magic = "Swap" /\ swapped
    <2>1. Good(dfu) /\ active' = dfu /\ ~OnTrial'
      BY <1>2 DEF RecoveryInv, Recoverable, OnTrial, BootLoader, Exchange
    <2> QED BY <2>1 DEF Recoverable, Good, Complete, Holds
  <1>3. CASE magic # "Swap"
    BY <1>3 DEF RecoveryInv, Recoverable, OnTrial, BootLoader, flash, Good, Complete, Holds
  <1> QED BY <1>1, <1>2, <1>3

LEMMA RecoveryInit == Init => RecoveryInv
  <1> SUFFICES ASSUME Init PROVE RecoveryInv
    OBVIOUS
  <1>1. Holds(active, Factory)
    BY UpdateAssumption DEF Init, Filled, Holds, Block
  <1>2. \A img \in BadImages : ~Holds(active, img)
    BY UpdateAssumption, <1>1 DEF Holds
  <1> QED BY <1>1, <1>2 DEF Init, InitRam, RecoveryInv, ConfirmedFirst, Recoverable, OnTrial, Good, Complete

LEMMA RecoveryNext ==
  ASSUME "Unconfirmed" \notin Disturbances, RecoveryInv, [Next]_vars PROVE RecoveryInv'
  <1> USE DEF RecoveryInv, ConfirmedFirst
  <1>1. ASSUME NEW img \in Images, I2cStartDfu(img) PROVE RecoveryInv'
    BY <1>1, HarmlessStep DEF I2cStartDfu, MayStart
  <1>2. CASE I2cUploadBlock
    BY <1>2, HarmlessStep DEF I2cUploadBlock
  <1>3. CASE I2cCommitDfu
    BY <1>3, HarmlessStep DEF I2cCommitDfu
  <1>4. CASE I2cAbortDfu
    BY <1>4, HarmlessStep DEF I2cAbortDfu
  <1>5. CASE I2cReadDfuStatus
    BY <1>5, HarmlessStep DEF I2cReadDfuStatus
  <1>6. CASE ReceiveRequest
    BY <1>6, HarmlessStep DEF ReceiveRequest, uploader
  <1>7. CASE prepare_update
    BY <1>7, WriterStep DEF prepare_update
  <1>8. CASE write_block
    BY <1>8, WriterStep DEF write_block
  <1>9. CASE commit_update
    BY <1>9, WriterStep DEF commit_update
  <1>10. CASE CheckBooted
    BY <1>10 DEF CheckBooted, flash, uploader, Recoverable, OnTrial, Good, Complete, Holds
  <1>11. CASE MarkBooted
    <2>1. Good(active) /\ active' = active /\ dfu' = dfu
      BY <1>11, ConfirmableIsGood DEF MarkBooted, SurvivesDelay
    <2>2. CASE magic' = "Boot" /\ swapped' = FALSE /\ mark' = "done"
      BY <2>1, <2>2 DEF Recoverable, OnTrial, Good, Complete, Holds
    <2>3. CASE mark' = "failed" /\ UNCHANGED <<magic, swapped>>
      BY <1>11, <2>1, <2>3 DEF MarkBooted, uploader, Recoverable, OnTrial, Good, Complete, Holds
    <2> QED BY <1>11, <2>2, <2>3 DEF MarkBooted
  <1>12. CASE Reset
    BY <1>12, BootStep DEF Reset
  <1>13. CASE UNCHANGED vars
    BY <1>13, HarmlessStep DEF vars, uploader
  <1> QED BY <1>1, <1>2, <1>3, <1>4, <1>5, <1>6, <1>7, <1>8, <1>9, <1>10, <1>11, <1>12, <1>13 DEF Next

\* Wherever a reset strikes, damaged, lost or repeated blocks, early commits, uploads
\* begun again and failing flash included, the controller has an image that stays
\* up, provided that hosts update only a confirmed image.
THEOREM RecoverableHolds ==
  "Unconfirmed" \notin Disturbances => (Spec => []Recoverable)
<1> SUFFICES ASSUME "Unconfirmed" \notin Disturbances PROVE Spec => []Recoverable
  OBVIOUS
<1>1. RecoveryInv => Recoverable
  BY DEF RecoveryInv
<1> QED BY <1>1, RecoveryInit, RecoveryNext, PTL DEF Spec

LEMMA OnlyBootLoaderReverts ==
  ASSUME [Next]_vars, magic = "Swap", magic' = "Revert" PROVE BootLoader
  <1>1. CASE prepare_update \/ write_block
    BY <1>1 DEF prepare_update, write_block
  <1>2. CASE commit_update \/ MarkBooted
    BY <1>2 DEF commit_update, mark_updated, MarkBooted, flash
  <1>3. CASE Reset
    BY <1>3 DEF Reset
  <1>4. CASE UNCHANGED flash
    BY <1>4 DEF flash
  <1>5. I2cUploadBlock \/ I2cCommitDfu \/ I2cAbortDfu \/ I2cReadDfuStatus => UNCHANGED flash
    BY DEF I2cUploadBlock, I2cCommitDfu, I2cAbortDfu, I2cReadDfuStatus
  <1>6. ReceiveRequest \/ CheckBooted \/ (\E img \in Images : I2cStartDfu(img)) => UNCHANGED flash
    BY DEF ReceiveRequest, CheckBooted, I2cStartDfu
  <1> QED BY <1>1, <1>2, <1>3, <1>4, <1>5, <1>6 DEF Next, vars, flash

\* The bootloader never reverts to a partition that an upload has begun to
\* overwrite, if hosts update only a confirmed image: without that condition the
\* check of prepare_update does not prevent it.
THEOREM RevertsToBootedImageHolds ==
  "Unconfirmed" \notin Disturbances => (Spec => RevertsToBootedImage)
<1> SUFFICES ASSUME "Unconfirmed" \notin Disturbances PROVE Spec => RevertsToBootedImage
  OBVIOUS
<1>1. ASSUME RecoveryInv, [Next]_vars, OnTrial, magic' = "Revert" PROVE Complete(active')
  <2>1. Complete(dfu) /\ active' = dfu
    BY <1>1, OnlyBootLoaderReverts
       DEF OnTrial, BootLoader, Exchange, RecoveryInv, Recoverable, Good
  <2> QED BY <2>1 DEF Complete, Holds
<1> QED BY <1>1, RecoveryInit, RecoveryNext, PTL DEF Spec, RevertsToBootedImage
=============================================================================
