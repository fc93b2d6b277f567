------------------------ MODULE FirmwareUploadProofs ------------------------
(***************************************************************************)
(* Theorems about uploads in FirmwareUpdate, for every value of its        *)
(* constants within the bounds they state: the writer asks for the commit  *)
(* of whole images only, and what a host saw succeed is installed next.    *)
(***************************************************************************)
EXTENDS FirmwareUpdateProofs

----------------------------------------------------------------------------
(* Blocks come in their order *)

Uploaded == Images \union {Factory}
HoldsImage(partition) == \E img \in Images : Holds(partition, img)
Faultless == ~dfu_crc_error /\ ~data_length_error

Resends == "Resend" \in Disturbances
Shorts  == "Short" \in Disturbances
\* Hosts that resend blocks leave none out and commit only after the last, and
\* every start reaches the controller.
Accountable ==
  /\ ~(Resends /\ {"EarlyCommit", "Short"} \intersect Disturbances # {})
  /\ "ShortStart" \notin Disturbances
  /\ ImageBlocks < 65536

\* What the I2C task queues, damaged blocks being refused.
Genuine(c) ==
  /\ c.op = "StartUpdate" => c.blocks = ImageBlocks
  /\ c.op = "WriteBlock" =>
       c.data = <<c.data[1], c.block>> /\ c.data[1] \in Images /\ c.block < ImageBlocks

\* c is the block behind b, or the same again, or a later one if short blocks
\* were dropped.
Follows(c, b) ==
  /\ c.data[1] = b.data[1]
  /\ \/ c.block = b.block + 1
     \/ Resends /\ c.block = b.block
     \/ Shorts /\ c.block \in Nat /\ c.block > b.block
Begins(c) == c.block = 0 \/ (Shorts /\ c.block \in Nat)
IsLast(c) == c.op = "WriteBlock" /\ c.block = ImageBlocks - 1

\* c may be queued behind p.
After(p, c) ==
  /\ c.op = "WriteBlock" =>
       (p.op = "StartUpdate" /\ Begins(c)) \/ (p.op = "WriteBlock" /\ Follows(c, p))
  /\ c.op = "Commit" /\ Resends => IsLast(p)

\* A partition holds the first n blocks of img and nothing else.
Begun(partition, img, n) == \A b \in Block : partition[b] = IF b < n THEN <<img, b>> ELSE Erased

\* The writer's count is ahead of a block behind some that were sent twice, and
\* behind it if some were dropped; it agrees with the block if all have come.
Counted(c) ==
  /\ ~Shorts => c.block <= blocks_received
  /\ ~Resends => c.block >= blocks_received
  /\ c.block = blocks_received => Begun(dfu, c.data[1], blocks_received)

\* c may be the next that the writer takes, unless the writer refuses it.
FitsWriter(c) ==
  /\ c.op = "WriteBlock" =>
       /\ job.kind = "erase" => Begins(c)
       /\ job.kind = "write" => Follows(c, job)
       /\ job.kind = "none" /\ state = "Updating" => Counted(c)
  /\ c.op = "Commit" /\ Resends =>
       /\ job.kind # "erase" /\ ~(job.kind = "none" /\ state = "Updating")
       /\ job.kind = "write" => job.block = ImageBlocks - 1
       /\ job.kind = "none" /\ state = "ReadyToCommit" => HoldsImage(dfu)

AllGenuine == \A i \in 1 .. Len(requests) : Genuine(requests[i])
InOrder ==
  /\ requests # <<>> => FitsWriter(requests[1])
  /\ \A i \in 1 .. Len(requests) - 1 : After(requests[i], requests[i + 1])

\* What the host sends next, if it is not damaged, fits as well.
BlockOf(b) == [op |-> "WriteBlock", block |-> b, data |-> <<uploading, b>>]
NextRequests ==
  {BlockOf(next_block)}
    \union (IF Resends /\ next_block > 0 THEN {BlockOf(next_block - 1)} ELSE {})
    \union (IF next_block = ImageBlocks THEN {[op |-> "Commit"]} ELSE {})
Fits(c) ==
  IF requests = <<>> THEN FitsWriter(c) ELSE After(requests[Len(requests)], c)
NextFits ==
  host = "uploading" =>
    uploading \in Images /\ (Faultless => \A c \in NextRequests : Fits(c))

\* What the writer is doing, and what it has done since the start it took.
Erasing ==
  job.kind = "erase" =>
    /\ state = "Preparing" /\ blocks_received = 0 /\ total_num_blocks = ImageBlocks
    /\ \A b \in 0 .. job.offset - 1 : dfu[b] = Erased
Writing ==
  job.kind = "write" =>
    /\ state = "Updating" /\ job.data = <<job.data[1], job.block>> /\ job.data[1] \in Images
    /\ job.block < ImageBlocks /\ Counted(job)
Updating ==
  state = "Updating" =>
    /\ job.kind \in {"none", "write"}
    /\ blocks_received < ImageBlocks /\ total_num_blocks = ImageBlocks
Ready ==
  state = "ReadyToCommit" =>
    /\ job.kind \in {"none", "commit"}
    /\ ~Resends \/ job.kind = "commit" => HoldsImage(dfu)
WriterInv ==
  /\ Erasing /\ Writing /\ Updating /\ Ready
  /\ job.kind = "commit" => state = "ReadyToCommit"
  /\ state = "Preparing" => job.kind = "erase"

ReadyInv == WriterInv /\ AllGenuine /\ InOrder /\ NextFits

writer == <<job, state, blocks_received, total_num_blocks, dfu>>

LEMMA QueueEnds ==
  ASSUME TypeOK, requests # <<>>
  PROVE  /\ Len(requests) \in Nat /\ Len(requests) >= 1
         /\ Head(requests) = requests[1]
         /\ \A i \in 1 .. Len(requests) : requests[i] \in Command
         /\ Len(Tail(requests)) = Len(requests) - 1
         /\ \A i \in 1 .. Len(requests) - 1 : Tail(requests)[i] = requests[i + 1]
         /\ Tail(requests) # <<>> => Len(requests) > 1
  BY HeadTailProperties, LenProperties, ElementOfSeq, EmptySeq DEF TypeOK

LEMMA QueueEnd ==
  ASSUME TypeOK, NEW c \in Command, Send(c)
  PROVE  /\ Len(requests) \in Nat /\ Len(requests') = Len(requests) + 1
         /\ requests' # <<>> /\ requests'[Len(requests')] = c
         /\ \A i \in 1 .. Len(requests) : requests'[i] = requests[i]
  <1>1. requests \in Seq(Command) /\ Len(requests) \in Nat /\ requests' = Append(requests, c)
    BY LenProperties DEF TypeOK, Send
  <1> QED BY <1>1, AppendProperties, EmptySeq

\* What is known of a block that is being written.
LEMMA WritingBlock ==
  ASSUME TypeOK, ReadyInv, job.kind = "write"
  PROVE  /\ state = "Updating" /\ blocks_received \in Block /\ job.block \in Block
         /\ job.data = <<job.data[1], job.block>> /\ job.data[1] \in Images
         /\ job.block < ImageBlocks /\ Counted(job)
         /\ blocks_received < ImageBlocks /\ total_num_blocks = ImageBlocks
         /\ NumBlocks \in Nat /\ ImageBlocks \in Nat /\ ImageBlocks <= NumBlocks
         /\ dfu \in [Block -> Content]
  BY ConstantTypes DEF TypeOK, Job, Block, ReadyInv, WriterInv, Writing, Updating

LEMMA SameWriter == WriterInv /\ UNCHANGED writer => WriterInv'
  BY DEF WriterInv, Erasing, Writing, Updating, Ready, writer, Counted, Begun, HoldsImage, Holds

LEMMA SameFit == UNCHANGED writer => \A c : FitsWriter(c) => FitsWriter(c)'
  BY DEF FitsWriter, Counted, Begun, HoldsImage, Holds, writer

LEMMA SameQueue ==
  ASSUME ReadyInv, UNCHANGED <<requests, writer>> PROVE AllGenuine' /\ InOrder'
  <1>1. \A c : FitsWriter(c) => FitsWriter(c)'
    BY SameFit
  <1>2. requests # <<>> => FitsWriter(requests[1])'
    <2>1. requests # <<>> => FitsWriter(requests[1])
      BY DEF ReadyInv, InOrder
    <2> QED BY <1>1, <2>1 DEF FitsWriter
  <1> QED BY <1>2 DEF ReadyInv, AllGenuine, InOrder, Genuine, After

\* What fits at the end of the queue may be sent.
LEMMA SendInOrder ==
  ASSUME TypeOK, ReadyInv, UNCHANGED writer,
         NEW c \in Command, Genuine(c), Fits(c), Send(c)
  PROVE  WriterInv' /\ AllGenuine' /\ InOrder'
  <1>1. AllGenuine'
    BY QueueEnd DEF ReadyInv, AllGenuine, Genuine
  <1>2. CASE requests = <<>>
    <2>1. Len(requests') = 1 /\ requests'[1] = c
      BY <1>2, QueueEnd, EmptySeq
    <2>2. FitsWriter(c)
      BY <1>2 DEF Fits
    <2>3. FitsWriter(requests[1])'
      <3>1. FitsWriter(c)'
        BY <2>2, SameFit
      <3> QED BY <2>1, <3>1 DEF FitsWriter
    <2> QED BY <1>1, <2>1, <2>3, SameWriter DEF ReadyInv, InOrder
  <1>3. CASE requests # <<>>
    <2>1. /\ Len(requests) \in Nat /\ Len(requests) >= 1 /\ Len(requests') = Len(requests) + 1
          /\ requests'[Len(requests')] = c /\ \A i \in 1 .. Len(requests) : requests'[i] = requests[i]
      BY <1>3, QueueEnd, QueueEnds
    <2>2. After(requests[Len(requests)], c)
      BY <1>3 DEF Fits
    <2>3. ASSUME NEW i \in 1 .. Len(requests') - 1 PROVE After(requests'[i], requests'[i + 1])
      <3>1. CASE i = Len(requests)
        BY <2>1, <2>2, <3>1
      <3>2. CASE i \in 1 .. Len(requests) - 1
        BY <2>1, <3>2 DEF ReadyInv, InOrder
      <3> QED BY <2>1, <3>1, <3>2
    <2>4. FitsWriter(requests[1])'
      <3>1. FitsWriter(requests[1]) /\ requests'[1] = requests[1]
        BY <1>3, <2>1 DEF ReadyInv, InOrder
      <3> QED BY <3>1, SameFit DEF FitsWriter
    <2>5. InOrder'
      BY <2>3, <2>4 DEF InOrder, After
    <2> QED BY <1>1, <2>5, SameWriter DEF ReadyInv
  <1> QED BY <1>2, <1>3

\* A request that may be queued behind whatever was sent last.
LEMMA SendOther ==
  ASSUME TypeOK, ReadyInv, UNCHANGED writer,
         NEW c \in Command, c.op \in {"StartUpdate", "Abort"}, Genuine(c), Send(c)
  PROVE  WriterInv' /\ AllGenuine' /\ InOrder'
  <1>1. Fits(c)
    BY DEF Fits, FitsWriter, After
  <1> QED BY <1>1, SendInOrder

LEMMA StartReady ==
  ASSUME TypeOK, ReadyInv, Accountable, NEW img \in Images, I2cStartDfu(img) PROVE ReadyInv'
  <1> DEFINE c == [op |-> "StartUpdate", blocks |-> ImageBlocks]
  <1>1. UNCHANGED writer /\ host' = "uploading" /\ uploading' = img /\ next_block' = 0
    BY DEF I2cStartDfu, writer, status, flash
  <1>2. CASE dfu_crc_error' = FALSE /\ data_length_error' = FALSE /\ Send(c)
    <2>1. c \in Command /\ c.op = "StartUpdate" /\ Genuine(c)
      BY ConstantTypes DEF Command, Genuine
    <2> HIDE DEF c
    <2>2. WriterInv' /\ AllGenuine' /\ InOrder'
      BY <1>1, <1>2, <2>1, SendOther
    <2>3. requests' # <<>> /\ requests'[Len(requests')] = c
      BY <1>2, <2>1, QueueEnd
    <2>4. NextRequests' = {BlockOf(0)'}
      BY <1>1, ConstantTypes DEF NextRequests, BlockOf
    <2>5. Fits(BlockOf(0))'
      BY <2>1, <2>3 DEF Fits, After, Begins, BlockOf
    <2>6. NextFits'
      BY <1>1, <2>4, <2>5 DEF NextFits, Fits
    <2> QED BY <2>2, <2>6 DEF ReadyInv
  <1>3. CASE data_length_error' = TRUE /\ UNCHANGED <<dfu_crc_error, requests>>
    BY <1>1, <1>3, SameWriter, SameQueue DEF ReadyInv, NextFits, Faultless
  <1>4. "ShortStart" \notin Disturbances
    BY DEF Accountable
  <1> QED BY <1>2, <1>3, <1>4 DEF I2cStartDfu

\* Behind a block of its image the host may send the next, the same again if it
\* resends, and the commit if it was the last.
LEMMA BlockSent ==
  ASSUME TypeOK, ReadyInv, UNCHANGED <<writer, host, uploading>>, host = "uploading", Faultless,
         NEW b \in 0 .. ImageBlocks - 1, BlockOf(b) \in NextRequests, Send(BlockOf(b)),
         next_block' = b + 1
  PROVE  ReadyInv'
  <1> DEFINE c == BlockOf(b)
  <1>1. uploading \in Images /\ b \in Nat /\ b \in Block /\ ImageBlocks \in Nat
    BY ConstantTypes DEF ReadyInv, NextFits, Block
  <1>2. <<uploading, b>> \in Content
    BY <1>1 DEF Content
  <1>3. /\ c \in Command /\ c.op = "WriteBlock" /\ c.block = b /\ c.data = <<uploading, b>>
        /\ c.data[1] = uploading /\ Genuine(c)
    BY <1>1, <1>2 DEF Command, Genuine, BlockOf
  <1>4. Fits(c)
    BY DEF ReadyInv, NextFits
  <1> HIDE DEF c
  <1>5. WriterInv' /\ AllGenuine' /\ InOrder'
    BY <1>3, <1>4, SendInOrder DEF c
  <1>6. requests' # <<>> /\ requests'[Len(requests')] = c
    BY <1>3, QueueEnd DEF c
  <1>7. ASSUME NEW d \in NextRequests' PROVE Fits(d)'
    <2>1. \/ d.op = "WriteBlock" /\ d.data[1] = uploading /\ d.block = b + 1
          \/ d.op = "WriteBlock" /\ d.data[1] = uploading /\ d.block = b /\ Resends
          \/ d.op = "Commit" /\ b = ImageBlocks - 1
      BY <1>1, <1>7 DEF NextRequests, BlockOf
    <2>2. After(c, d)
      BY <1>3, <2>1 DEF After, Follows, IsLast
    <2> QED BY <1>6, <2>2 DEF Fits, After
  <1> QED BY <1>1, <1>5, <1>7 DEF ReadyInv, NextFits

\* Behind a block that was dropped the host goes on with the one after it.
LEMMA BlockDropped ==
  ASSUME TypeOK, ReadyInv, Accountable, Shorts, UNCHANGED <<writer, requests, i2c, host, uploading>>,
         host = "uploading", next_block' = next_block + 1
  PROVE  ReadyInv'
  <1>1. uploading \in Images /\ next_block \in Nat /\ ~Resends /\ ImageBlocks \in Nat
    BY ConstantTypes DEF ReadyInv, NextFits, TypeOK, Accountable, Shorts
  <1>2. Faultless' <=> Faultless
    BY DEF Faultless, i2c
  <1> DEFINE c == BlockOf(next_block)
             n == BlockOf(next_block + 1)
  <1>3. ASSUME Faultless PROVE Fits(n)
    <2>1. Fits(c)
      BY <1>3 DEF ReadyInv, NextFits, NextRequests
    <2>2. /\ c.op = "WriteBlock" /\ c.data[1] = uploading /\ c.block = next_block
          /\ n.op = "WriteBlock" /\ n.data[1] = uploading /\ n.block = next_block + 1
      BY DEF BlockOf
    <2> HIDE DEF c, n
    <2>3. \A b : b.block \in Nat /\ Follows(c, b) => Follows(n, b)
      BY <1>1, <2>2 DEF Follows
    <2>4. CASE requests = <<>>
      <3>1. FitsWriter(c) /\ (job.kind = "write" => job.block \in Nat) /\ blocks_received \in Nat
        BY <2>1, <2>4, WritingBlock DEF Fits, TypeOK, Block
      <3>2. job.kind = "write" => Follows(n, job)
        BY <2>2, <2>3, <3>1 DEF FitsWriter
      <3>3. Counted(c) => Counted(n)
        BY <1>1, <2>2, <3>1 DEF Counted
      <3>4. FitsWriter(n)
        BY <2>2, <3>1, <3>2, <3>3 DEF FitsWriter, Begins
      <3> QED BY <2>4, <3>4 DEF Fits
    <2>5. CASE requests # <<>>
      <3> DEFINE p == requests[Len(requests)]
      <3>1. p \in Command /\ After(p, c)
        BY <2>1, <2>5, QueueEnds DEF Fits
      <3>2. p.op = "WriteBlock" => p.block \in Nat
        BY <3>1 DEF Command, Block
      <3> HIDE DEF p
      <3>3. After(p, n)
        BY <2>2, <2>3, <3>1, <3>2 DEF After, Begins
      <3> QED BY <2>5, <3>3 DEF Fits, p
    <2> QED BY <2>4, <2>5
  <1>4. ASSUME NEW d \in NextRequests', Faultless PROVE Fits(d)'
    <2>1. d = n \/ d = [op |-> "Commit"]
      BY <1>1, <1>4 DEF NextRequests, BlockOf
    <2>2. d = [op |-> "Commit"] => Fits(d)
      BY <1>1 DEF Fits, FitsWriter, After
    <2>3. Fits(d)
      BY <1>3, <1>4, <2>1, <2>2
    <2>4. FitsWriter(d) => FitsWriter(d)'
      BY SameFit
    <2> QED BY <2>3, <2>4 DEF Fits, FitsWriter, After
  <1>5. NextFits'
    BY <1>1, <1>2, <1>4 DEF NextFits
  <1> QED BY <1>5, SameWriter, SameQueue DEF ReadyInv

LEMMA UploadReady ==
  ASSUME TypeOK, ReadyInv, Accountable, I2cUploadBlock PROVE ReadyInv'
  <1>1. UNCHANGED <<writer, host, uploading>> /\ host = "uploading" /\ uploading \in Images
    BY DEF I2cUploadBlock, writer, status, flash, ReadyInv, NextFits
  <1>2. PICK b \in 0 .. ImageBlocks - 1, fault \in {"none", "Corrupt", "Length", "Short"} :
          /\ ReceiveBlock(b, fault) /\ next_block' = b + 1
          /\ b = next_block \/ (Resends /\ next_block > 0 /\ b = next_block - 1)
          /\ fault = "Short" => Shorts /\ b = next_block
    BY ConstantTypes DEF I2cUploadBlock, Resends, Shorts, TypeOK
  <1>3. CASE UNCHANGED requests /\ ~Faultless'
    BY <1>1, <1>3, SameWriter, SameQueue DEF ReadyInv, NextFits
  <1>4. CASE Faultless /\ Send(BlockOf(b)) /\ UNCHANGED i2c
    <2>1. BlockOf(b) \in NextRequests
      BY <1>2 DEF NextRequests
    <2> QED BY <1>1, <1>2, <1>4, <2>1, BlockSent
  <1>5. CASE fault = "Short" /\ TooShort
    BY <1>1, <1>2, <1>5, BlockDropped DEF TooShort
  <1> QED BY <1>2, <1>3, <1>4, <1>5 DEF ReceiveBlock, Faultless, BlockOf, TypeOK, i2c

\* The host has nothing more to send.
LEMMA HostReady ==
  ASSUME TypeOK, ReadyInv, Accountable, I2cCommitDfu \/ I2cAbortDfu \/ I2cReadDfuStatus
  PROVE  ReadyInv'
  <1>1. UNCHANGED writer /\ host' # "uploading"
    BY DEF I2cCommitDfu, I2cAbortDfu, I2cReadDfuStatus, writer, status, flash
  <1>2. NextFits'
    BY <1>1 DEF NextFits
  <1>3. CASE UNCHANGED requests
    BY <1>1, <1>2, <1>3, SameWriter, SameQueue DEF ReadyInv
  <1>4. CASE Send([op |-> "Abort"])
    <2>1. [op |-> "Abort"] \in Command /\ Genuine([op |-> "Abort"])
      BY DEF Command, Genuine
    <2> QED BY <1>1, <1>2, <1>4, <2>1, SendOther DEF ReadyInv
  <1>5. CASE I2cCommitDfu /\ Faultless /\ Send([op |-> "Commit"])
    <2> DEFINE c == [op |-> "Commit"]
    <2>1. c \in Command /\ Genuine(c) /\ c.op = "Commit"
      BY DEF Command, Genuine
    <2>2. Fits(c)
      <3>1. CASE ~Resends
        BY <2>1, <3>1 DEF Fits, FitsWriter, After
      <3>2. CASE Resends
        <4>1. next_block = ImageBlocks /\ host = "uploading"
          BY <1>5, <3>2 DEF I2cCommitDfu, Accountable
        <4> QED BY <1>5, <4>1 DEF ReadyInv, NextFits, NextRequests
      <3> QED BY <3>1, <3>2
    <2> HIDE DEF c
    <2>3. WriterInv' /\ AllGenuine' /\ InOrder'
      BY <1>1, <1>5, <2>1, <2>2, SendInOrder DEF c
    <2> QED BY <1>2, <2>3 DEF ReadyInv
  <1> QED BY <1>3, <1>4, <1>5 DEF I2cCommitDfu, I2cAbortDfu, I2cReadDfuStatus, TooShort, Faultless

\* What may be behind the request the writer takes fits the writer then.
LEMMA TakeWriter ==
  ASSUME TypeOK, ReadyInv, Accountable, ReceiveRequest
  PROVE  WriterInv' /\ \A c : After(requests[1], c) => FitsWriter(c)'
  <1> DEFINE p == requests[1]
  <1>0. /\ job.kind = "none" /\ dfu' = dfu /\ WriterInv /\ ImageBlocks \in Nat
        /\ p \in Command /\ Genuine(p) /\ FitsWriter(p) /\ Head(requests) = p
    <2>1. requests # <<>> /\ job.kind = "none" /\ dfu' = dfu
      BY DEF ReceiveRequest, flash
    <2> QED BY <2>1, QueueEnds, ConstantTypes DEF ReadyInv, AllGenuine, InOrder
  <1>1. CASE p.op = "StartUpdate"
    <2>1. start_update(p)
      BY <1>0, <1>1 DEF ReceiveRequest
    <2>2. p.blocks % 65536 = ImageBlocks
      BY <1>0, <1>1 DEF Genuine, Accountable
    <2> HIDE DEF p
    <2>3. /\ job'.kind = "erase" /\ job'.offset = 0 /\ state' = "Preparing"
          /\ blocks_received' = 0 /\ total_num_blocks' = ImageBlocks
      BY <2>1, <2>2 DEF start_update, Status
    <2>4. WriterInv'
      BY <2>3 DEF WriterInv, Erasing, Writing, Updating, Ready
    <2>5. \A c : After(p, c) => FitsWriter(c)'
      BY <1>1, <2>3 DEF After, FitsWriter, IsLast
    <2> QED BY <2>4, <2>5 DEF p
  <1>2. CASE p.op = "WriteBlock" /\ state = "Updating"
    <2>1. UNCHANGED status /\ job' = [kind |-> "write", block |-> p.block, data |-> p.data]
      BY <1>0, <1>2 DEF ReceiveRequest
    <2> HIDE DEF p
    <2>2. job'.kind = "write" /\ job'.block = p.block /\ job'.data = p.data
      BY <2>1
    <2>3. /\ p.data = <<p.data[1], p.block>> /\ p.data[1] \in Images
          /\ p.block < ImageBlocks /\ Counted(p)
      BY <1>0, <1>2 DEF FitsWriter, Genuine
    <2>4. WriterInv'
      BY <1>0, <1>2, <2>1, <2>2, <2>3 DEF WriterInv, Erasing, Writing, Updating, Ready, Counted, Begun, status
    <2>5. \A c : After(p, c) => FitsWriter(c)'
      BY <1>2, <2>2 DEF After, FitsWriter, Follows, IsLast
    <2> QED BY <2>4, <2>5 DEF p
  <1>3. CASE p.op = "Commit" /\ AcceptsCommit
    <2>1. UNCHANGED status /\ job' = [kind |-> "commit"] /\ state = "ReadyToCommit"
      BY <1>0, <1>3 DEF ReceiveRequest, AcceptsCommit
    <2> HIDE DEF p
    <2>2. job'.kind = "commit" /\ state' = "ReadyToCommit"
      BY <2>1 DEF status
    <2>3. HoldsImage(dfu)'
      BY <1>0, <1>3, <2>1 DEF FitsWriter, WriterInv, Ready, HoldsImage, Holds
    <2>4. WriterInv'
      BY <2>2, <2>3 DEF WriterInv, Erasing, Writing, Updating, Ready
    <2>5. \A c : After(p, c) => FitsWriter(c)'
      BY <1>3, <2>2 DEF After, FitsWriter, IsLast
    <2> QED BY <2>4, <2>5 DEF p
  <1>4. CASE state' \in {"Idle", "ProtocolError"} /\ job' = job
    BY <1>0, <1>4 DEF WriterInv, Erasing, Writing, Updating, Ready, FitsWriter
  <1>5. CASE p.op = "Abort"
    BY <1>0, <1>4, <1>5 DEF ReceiveRequest, abort_update, Status
  <1>6. CASE protocol_error
    BY <1>4, <1>6 DEF protocol_error, SetState, Status
  <1> QED BY <1>0, <1>1, <1>2, <1>3, <1>5, <1>6 DEF ReceiveRequest

LEMMA TakeReady ==
  ASSUME TypeOK, ReadyInv, Accountable, ReceiveRequest PROVE ReadyInv'
  <1>0. requests # <<>> /\ requests' = Tail(requests) /\ UNCHANGED <<uploader, i2c>>
    BY DEF ReceiveRequest
  <1>1. /\ Len(requests) \in Nat /\ Len(requests) >= 1 /\ Len(requests') = Len(requests) - 1
        /\ \A i \in 1 .. Len(requests) - 1 : requests'[i] = requests[i + 1]
        /\ requests' # <<>> => Len(requests) > 1
    BY <1>0, QueueEnds
  <1>2. AllGenuine'
    BY <1>1 DEF ReadyInv, AllGenuine, Genuine
  <1>3. \A i \in 1 .. Len(requests') - 1 : After(requests'[i], requests'[i + 1])
    BY <1>1 DEF ReadyInv, InOrder
  <1>4. ASSUME requests' # <<>> PROVE FitsWriter(requests[1])'
    <2>1. After(requests[1], requests[2]) /\ requests'[1] = requests[2]
      BY <1>1, <1>4 DEF ReadyInv, InOrder
    <2> QED BY <2>1, TakeWriter DEF FitsWriter
  <1>5. InOrder'
    BY <1>3, <1>4 DEF InOrder, After
  <1>6. NextFits'
    <2>0. NextRequests' = NextRequests /\ uploading' = uploading
      BY <1>0 DEF NextRequests, BlockOf, uploader
    <2> SUFFICES ASSUME NextFits, host = "uploading", Faultless, NEW c \in NextRequests
                 PROVE  Fits(c)'
      BY <1>0, <2>0 DEF NextFits, ReadyInv, Faultless, uploader, i2c
    <2>1. After(requests[Len(requests)], c)
      BY <1>0 DEF NextFits, Fits
    <2>2. CASE requests' = <<>>
      <3>1. Len(requests) = 1
        BY <1>1, <2>2, EmptySeq
      <3>2. FitsWriter(c)'
        BY <2>1, <3>1, TakeWriter
      <3> QED BY <2>2, <3>2 DEF Fits, FitsWriter
    <2>3. CASE requests' # <<>>
      <3>1. requests'[Len(requests')] = requests[Len(requests)]
        BY <1>1, <2>3
      <3> QED BY <2>1, <2>3, <3>1 DEF Fits, After
    <2> QED BY <2>2, <2>3
  <1> QED BY <1>2, <1>5, <1>6, TakeWriter DEF ReadyInv

\* The writer's own steps keep what fitted it.
LEMMA WriterMoves ==
  ASSUME ReadyInv, WriterInv', UNCHANGED <<requests, i2c, uploader>>,
         \A c : FitsWriter(c) => FitsWriter(c)'
  PROVE  ReadyInv'
  <1>1. AllGenuine'
    BY DEF ReadyInv, AllGenuine, Genuine
  <1>2. requests # <<>> => FitsWriter(requests[1])'
    <2>1. requests # <<>> => FitsWriter(requests[1])
      BY DEF ReadyInv, InOrder
    <2> QED BY <2>1 DEF FitsWriter
  <1>3. InOrder'
    BY <1>2 DEF ReadyInv, InOrder, After
  <1>4. /\ NextRequests' = NextRequests /\ uploading' = uploading
        /\ Faultless' = Faultless /\ host' = host
    BY DEF NextRequests, BlockOf, Faultless, uploader, i2c
  <1>5. ASSUME NEW c, Fits(c) PROVE Fits(c)'
    BY <1>5 DEF Fits, FitsWriter, After
  <1>6. NextFits'
    BY <1>4, <1>5 DEF ReadyInv, NextFits, Fits
  <1> QED BY <1>1, <1>3, <1>6 DEF ReadyInv

LEMMA EraseReady ==
  ASSUME TypeOK, ReadyInv, prepare_update PROVE ReadyInv'
  <1>0. /\ job.kind = "erase" /\ job.offset \in Block /\ dfu \in [Block -> Content]
        /\ state = "Preparing" /\ blocks_received = 0 /\ total_num_blocks = ImageBlocks
        /\ (\A b \in 0 .. job.offset - 1 : dfu[b] = Erased)
        /\ NumBlocks \in Nat /\ ImageBlocks \in Nat /\ ImageBlocks > 0
    BY ConstantTypes DEF TypeOK, Job, prepare_update, ReadyInv, WriterInv, Erasing
  <1>1. UNCHANGED <<requests, i2c, uploader>>
    BY DEF prepare_update
  <1>2. ASSUME dfu' = [dfu EXCEPT ![job.offset] = Erased]
        PROVE  \A b \in 0 .. job.offset : dfu'[b] = Erased
    BY <1>0, <1>2 DEF Block
  <1>3. CASE /\ dfu' = [dfu EXCEPT ![job.offset] = Erased] /\ EraseEnds(job.offset)
             /\ SetState("Updating") /\ job' = [kind |-> "none"]
    <2>1. /\ job'.kind = "none" /\ state' = "Updating"
          /\ blocks_received' = 0 /\ total_num_blocks' = ImageBlocks
      BY <1>0, <1>3 DEF SetState, Status
    <2>2. \A img : Begun(dfu', img, 0)
      BY <1>0, <1>2, <1>3 DEF EraseEnds, Block, Begun
    <2>3. WriterInv'
      BY <1>0, <2>1 DEF WriterInv, Erasing, Writing, Updating, Ready
    <2>4. ASSUME NEW c, FitsWriter(c) PROVE FitsWriter(c)'
      <3>1. c.op = "WriteBlock" => Counted(c)'
        BY <1>0, <2>1, <2>2, <2>4 DEF FitsWriter, Begins, Counted
      <3> QED BY <1>0, <2>1, <2>4, <3>1 DEF FitsWriter
    <2> QED BY <1>1, <2>3, <2>4, WriterMoves
  <1>4. CASE /\ dfu' = [dfu EXCEPT ![job.offset] = Erased] /\ UNCHANGED status
             /\ job' = [kind |-> "erase", offset |-> job.offset + 1]
    <2>1. job'.kind = "erase" /\ job'.offset = job.offset + 1
      BY <1>4
    <2>2. \A b \in 0 .. job'.offset - 1 : dfu'[b] = Erased
      BY <1>0, <1>2, <1>4, <2>1 DEF Block
    <2>3. WriterInv'
      BY <1>0, <1>4, <2>1, <2>2 DEF WriterInv, Erasing, Writing, Updating, Ready, status
    <2>4. \A c : FitsWriter(c) => FitsWriter(c)'
      BY <1>0, <2>1 DEF FitsWriter
    <2> QED BY <1>1, <2>3, <2>4, WriterMoves
  <1>5. CASE SetState("WriteError") /\ job' = [kind |-> "none"]
    <2>1. job'.kind = "none" /\ state' = "WriteError"
      BY <1>5 DEF SetState, Status
    <2>2. WriterInv'
      BY <2>1 DEF WriterInv, Erasing, Writing, Updating, Ready
    <2>3. \A c : FitsWriter(c) => FitsWriter(c)'
      BY <2>1 DEF FitsWriter
    <2> QED BY <1>1, <2>2, <2>3, WriterMoves
  <1> QED BY <1>3, <1>4, <1>5 DEF prepare_update, PrepareFails

\* A block that is written in full extends what is there of its image by one.
LEMMA BlockAdded ==
  ASSUME TypeOK, ReadyInv, job.kind = "write", job.block = blocks_received,
         dfu' = [dfu EXCEPT ![job.block] = Programmed(@, job.data)]
  PROVE  Begun(dfu', job.data[1], blocks_received + 1)
  <1>0. Begun(dfu, job.data[1], blocks_received)
    BY WritingBlock DEF Counted
  <1>1. dfu[blocks_received] = Erased
    BY <1>0, WritingBlock DEF Block, Begun
  <1>2. dfu' = [dfu EXCEPT ![blocks_received] = job.data]
    BY <1>1, WritingBlock DEF Programmed
  <1> HIDE DEF Programmed
  <1>3. ASSUME NEW b \in Block
        PROVE  dfu'[b] = IF b < blocks_received + 1 THEN <<job.data[1], b>> ELSE Erased
    <2>1. b \in Nat /\ blocks_received \in Nat
      BY WritingBlock DEF Block
    <2>2. CASE b = blocks_received
      <3>1. dfu'[b] = <<job.data[1], b>>
        BY <1>2, <2>2, WritingBlock
      <3> QED BY <2>1, <2>2, <3>1
    <2>3. CASE b # blocks_received
      <3>1. dfu'[b] = dfu[b]
        BY <1>2, <2>3, WritingBlock
      <3>2. dfu[b] = IF b < blocks_received THEN <<job.data[1], b>> ELSE Erased
        BY <1>0 DEF Begun
      <3> QED BY <2>1, <2>3, <3>1, <3>2
    <2> QED BY <2>2, <2>3
  <1> QED BY <1>3 DEF Begun

LEMMA WriteReady ==
  ASSUME TypeOK, ReadyInv, Accountable, write_block PROVE ReadyInv'
  <1>0. job.kind = "write" /\ job' = [kind |-> "none"] /\ UNCHANGED <<requests, i2c, uploader>>
    BY DEF write_block
  <1>1. job'.kind = "none"
    BY <1>0
  <1>2. CASE SetState("WriteError")
    <2>1. state' = "WriteError"
      BY <1>2 DEF SetState, Status
    <2> QED BY <1>0, <1>1, <2>1, WriterMoves
            DEF WriterInv, Erasing, Writing, Updating, Ready, FitsWriter
  <1>3. CASE /\ dfu' = [dfu EXCEPT ![job.block] = Programmed(@, job.data)]
             /\ Status(IF AllReceived(blocks_received + 1) THEN "ReadyToCommit" ELSE state,
                       blocks_received + 1, total_num_blocks)
    <2>1. /\ blocks_received' = blocks_received + 1 /\ total_num_blocks' = ImageBlocks
          /\ blocks_received \in Nat /\ ImageBlocks \in Nat
      BY <1>0, <1>3, WritingBlock DEF Status, Block
    <2>2. job.block = blocks_received => Begun(dfu', job.data[1], blocks_received + 1)
      BY <1>0, <1>3, BlockAdded
    <2>4. CASE blocks_received + 1 = ImageBlocks
      <3>1. state' = "ReadyToCommit"
        BY <1>0, <1>3, <2>1, <2>4, WritingBlock DEF Status, AllReceived
      <3>2. job.block = ImageBlocks - 1 => HoldsImage(dfu)'
        <4> SUFFICES ASSUME job.block = ImageBlocks - 1 PROVE Holds(dfu', job.data[1])
          BY <1>0, WritingBlock DEF HoldsImage
        <4>1. Begun(dfu', job.data[1], ImageBlocks)
          BY <2>1, <2>2, <2>4
        <4>2. \A b \in 0 .. ImageBlocks - 1 : b \in Block /\ b < ImageBlocks
          BY ConstantTypes DEF Block
        <4> QED BY <4>1, <4>2 DEF Holds, Begun
      <3>3. ~Resends => HoldsImage(dfu)'
        BY <1>0, <2>1, <2>4, <3>2, WritingBlock DEF Counted, Block
      <3>4. WriterInv'
        BY <1>1, <3>1, <3>3 DEF WriterInv, Erasing, Writing, Updating, Ready
      <3>5. \A c : FitsWriter(c) => FitsWriter(c)'
        BY <1>0, <1>1, <3>1, <3>2 DEF FitsWriter
      <3> QED BY <1>0, <3>4, <3>5, WriterMoves
    <2>5. CASE blocks_received + 1 # ImageBlocks
      <3>1. state' = "Updating" /\ blocks_received' < ImageBlocks
        BY <1>0, <1>3, <2>1, <2>5, WritingBlock DEF Status, AllReceived
      <3>2. WriterInv'
        BY <1>0, <1>1, <2>1, <3>1 DEF WriterInv, Erasing, Writing, Updating, Ready
      <3>3. ASSUME NEW c, FitsWriter(c) PROVE FitsWriter(c)'
        <4>1. c.op = "WriteBlock" => Follows(c, job)
          BY <1>0, <3>3 DEF FitsWriter
        <4>2. ASSUME c.op = "WriteBlock" PROVE Counted(c)'
          <5>1. /\ Follows(c, job) /\ Counted(job) /\ ~(Resends /\ Shorts)
                /\ job.block \in Nat /\ blocks_received \in Nat
            BY <1>0, <4>1, <4>2, WritingBlock DEF Block, Accountable, Resends, Shorts
          <5>2. /\ ~Shorts => c.block <= blocks_received + 1
                /\ ~Resends => c.block >= blocks_received + 1
                /\ c.block = blocks_received + 1 => job.block = blocks_received
            BY <5>1 DEF Follows, Counted
          <5>3. c.block = blocks_received + 1 => Begun(dfu', c.data[1], blocks_received + 1)
            BY <2>2, <5>1, <5>2 DEF Follows
          <5> QED BY <2>1, <5>2, <5>3 DEF Counted
        <4>3. ~(c.op = "Commit" /\ Resends)
          BY <1>0, <2>1, <2>5, <3>3, WritingBlock
             DEF FitsWriter, Counted, Accountable, Resends, Shorts, Block
        <4> QED BY <1>1, <4>2, <4>3 DEF FitsWriter
      <3> QED BY <1>0, <3>2, <3>3, WriterMoves
    <2> QED BY <2>4, <2>5
  <1> QED BY <1>2, <1>3 DEF write_block

\* A step that leaves the writer and its requests alone.
LEMMA QuietReady ==
  ASSUME ReadyInv, UNCHANGED <<requests, i2c, uploader, writer>> PROVE ReadyInv'
  <1>1. \A c : FitsWriter(c) => FitsWriter(c)'
    BY SameFit
  <1> QED BY <1>1, SameWriter, WriterMoves DEF ReadyInv

LEMMA CommitReady ==
  ASSUME TypeOK, ReadyInv, commit_update PROVE ReadyInv'
  <1>1. /\ job'.kind = "none" /\ state' = "Complete" /\ UNCHANGED <<requests, i2c, uploader>>
    BY DEF commit_update, Status, SetState
  <1> QED BY <1>1, WriterMoves DEF WriterInv, Erasing, Writing, Updating, Ready, FitsWriter

LEMMA RestReady ==
  ASSUME host = "idle", requests = <<>>, job = [kind |-> "none"], state = "Idle" PROVE ReadyInv
  <1>1. job.kind = "none" /\ Len(requests) = 0
    BY EmptySeq
  <1> QED BY <1>1 DEF ReadyInv, WriterInv, Erasing, Writing, Updating, Ready, AllGenuine, InOrder, NextFits

LEMMA ReadyInit == Init => ReadyInv
  BY RestReady DEF Init, InitRam

LEMMA ReadyNext ==
  ASSUME TypeOK, ReadyInv, Accountable, [Next]_vars
  PROVE  ReadyInv'
  <1>1. CASE \E img \in Images : I2cStartDfu(img)
    BY <1>1, StartReady
  <1>2. CASE I2cUploadBlock
    BY <1>2, UploadReady
  <1>3. CASE I2cCommitDfu \/ I2cAbortDfu \/ I2cReadDfuStatus
    BY <1>3, HostReady
  <1>4. CASE ReceiveRequest
    BY <1>4, TakeReady
  <1>5. CASE prepare_update
    BY <1>5, EraseReady
  <1>6. CASE write_block
    BY <1>6, WriteReady
  <1>7. CASE commit_update
    BY <1>7, CommitReady
  <1>8. CASE CheckBooted \/ MarkBooted \/ UNCHANGED vars
    BY <1>8, QuietReady DEF CheckBooted, MarkBooted, vars, writer, status, flash
  <1>9. CASE Reset
    <2>1. host' = "idle" /\ requests' = <<>> /\ job' = [kind |-> "none"] /\ state' = "Idle"
      BY <1>9 DEF Reset
    <2>2. job'.kind = "none" /\ Len(requests') = 0
      BY <2>1, EmptySeq
    <2> QED BY <2>1, <2>2
            DEF ReadyInv, WriterInv, Erasing, Writing, Updating, Ready, AllGenuine, InOrder, NextFits
  <1> QED BY <1>1, <1>2, <1>3, <1>4, <1>5, <1>6, <1>7, <1>8, <1>9 DEF Next

\* The writer asks for the commit only when the partition holds every block of
\* one image, whatever was damaged, dropped, given up or begun again before and
\* whatever fails, provided that hosts do not send a block twice, that every start
\* reaches the controller and that an image has fewer blocks than the writer can
\* count.
THEOREM ReadyIsWholeHolds ==
  {"Resend", "ShortStart"} \intersect Disturbances = {} /\ ImageBlocks < 65536
    => (Spec => []ReadyIsWhole)
<1> SUFFICES ASSUME ~Resends, Accountable PROVE Spec => []ReadyIsWhole
  BY DEF Resends, Accountable
<1>1. ReadyInv => ReadyIsWhole
  BY DEF ReadyInv, WriterInv, Ready, ReadyIsWhole, HoldsImage, Complete
<1>2. Init => TypeOK /\ ReadyInv
  BY TypeInit, ReadyInit
<1>3. TypeOK /\ ReadyInv /\ [Next]_vars => TypeOK' /\ ReadyInv'
  BY TypeNext, ReadyNext
<1> QED BY <1>1, <1>2, <1>3, PTL DEF Spec

\* A commit the writer carries out (commit_update) stages every block of one image,
\* even if blocks were dropped, or sent twice, so that they were counted twice,
\* provided that the hosts that do the latter leave none out and commit only after
\* the last, and that every start reaches the controller.
THEOREM CommitsAreWhole ==
  Accountable => (Spec => [](job.kind = "commit" => HoldsImage(dfu)))
<1> SUFFICES ASSUME Accountable PROVE Spec => [](job.kind = "commit" => HoldsImage(dfu))
  OBVIOUS
<1>1. ReadyInv => (job.kind = "commit" => HoldsImage(dfu))
  BY DEF ReadyInv, WriterInv, Ready
<1>2. Init => TypeOK /\ ReadyInv
  BY TypeInit, ReadyInit
<1>3. TypeOK /\ ReadyInv /\ [Next]_vars => TypeOK' /\ ReadyInv'
  BY TypeNext, ReadyNext
<1> QED BY <1>1, <1>2, <1>3, PTL DEF Spec

----------------------------------------------------------------------------
(* An update that was seen to succeed *)

Current == host \in {"uploading", "committed"} /\ Faultless
Staged == magic = "Swap" /\ ~swapped /\ Holds(dfu, uploading)

\* The requests from the j-th on belong to the upload begun last.
NoStartFrom(j) == \A i \in j .. Len(requests) : requests[i].op # "StartUpdate"
OwnRequests ==
  \A j \in 1 .. Len(requests) : NoStartFrom(j) =>
    /\ requests[j].op # "Abort"
    /\ requests[j].op = "WriteBlock" => requests[j].data[1] = uploading

\* So many requests at least follow its start, and those of earlier uploads; the
\* commit is not among them if it has no payload.
Bares == "Bare" \in Disturbances
UploadLength == IF Bares THEN ImageBlocks ELSE ImageBlocks + 1
Sent == IF host = "committed" THEN UploadLength ELSE next_block
AllFollow ==
  \A i \in 1 .. Len(requests) :
    requests[i].op = "StartUpdate" => Len(requests) - i >= Sent

\* What the writer makes of an upload whose start it has taken.
OwnWriter ==
  /\ state \notin {"Idle", "WriteError"}
  /\ job.kind = "write" => job.data[1] = uploading
  /\ state \in {"Updating", "ReadyToCommit"} =>
       \A b \in Block : dfu[b] \in {Erased, <<uploading, b>>}
  /\ state = "Complete" => host = "committed" /\ requests = <<>> /\ Staged

Progress == Current => OwnRequests /\ AllFollow /\ (NoStartFrom(1) => OwnWriter)

\* A commit that waits for no start will be refused by a writer in these states.
Lost(j) ==
  /\ state \in {"Idle", "ProtocolError"}
  /\ \A i \in 1 .. j - 1 : requests[i].op # "StartUpdate"
Committed == host = "committed" /\ Faultless
NoStrayCommit ==
  /\ job.kind = "commit" => Committed /\ requests = <<>>
  /\ \A j \in 1 .. Len(requests) :
       requests[j].op = "Commit" => Lost(j) \/ (Committed /\ j = Len(requests))
FlashedIsDone == host = "flashed" => requests = <<>> /\ job.kind = "none" /\ Staged

FlashedInv == Progress /\ NoStrayCommit /\ FlashedIsDone
UpdateInv == TypeOK /\ ReadyInv /\ RecoveryInv /\ FlashedInv

\* A host that commits after its last block and waits for the confirmation, on a
\* flash that does not fail, with a queue that cannot hold a whole upload.
Orderly ==
  /\ Disturbances \subseteq {"Corrupt", "Length", "Resend", "Bare", "Abort", "Restart", "Again"}
  /\ ImageBlocks < 65536 /\ QueueDepth <= UploadLength

LEMMA Sizes ==
  ASSUME TypeOK
  PROVE  /\ Len(requests) \in Nat /\ Len(requests) <= QueueDepth /\ QueueDepth \in Nat
         /\ ImageBlocks \in Nat /\ ImageBlocks > 0
         /\ next_block \in Nat /\ next_block <= ImageBlocks /\ Sent \in Nat
  BY LenProperties, ConstantTypes, UpdateAssumption DEF TypeOK, Sent, UploadLength

\* A commit that was sent has left the start of its upload behind.
LEMMA CommittedStarted ==
  ASSUME UpdateInv, Orderly, Committed PROVE NoStartFrom(1) /\ OwnWriter
  <1>1. AllFollow /\ Sent = UploadLength
    BY DEF UpdateInv, FlashedInv, Progress, Current, Committed, Sent
  <1>2. NoStartFrom(1)
    <2> SUFFICES ASSUME NEW i \in 1 .. Len(requests), requests[i].op = "StartUpdate" PROVE FALSE
      BY DEF NoStartFrom
    <2> QED BY <1>1, Sizes DEF AllFollow, UpdateInv, Orderly
  <1> QED BY <1>2 DEF UpdateInv, FlashedInv, Progress, Current, Committed

\* While no host waits for an outcome, all commits in the queue are lost, and a
\* request other than a commit leaves them so.
LEMMA StrayKept ==
  ASSUME UpdateInv, ~Committed, NEW c \in Command, Send(c), UNCHANGED <<job, status>>,
         c.op = "Commit" => Committed'
  PROVE  NoStrayCommit'
  <1>1. /\ Len(requests) \in Nat /\ Len(requests') = Len(requests) + 1
        /\ requests'[Len(requests')] = c
        /\ \A i \in 1 .. Len(requests) : requests'[i] = requests[i]
    BY QueueEnd DEF UpdateInv
  <1>2. /\ job.kind # "commit" /\ job' = job /\ state' = state
        /\ \A j \in 1 .. Len(requests) : requests[j].op = "Commit" => Lost(j)
    BY DEF UpdateInv, FlashedInv, NoStrayCommit, status
  <1>3. ASSUME NEW j \in 1 .. Len(requests), Lost(j) PROVE Lost(j)'
    <2>1. \A i \in 1 .. j - 1 : requests'[i] = requests[i]
      BY <1>1
    <2> QED BY <1>2, <1>3, <2>1 DEF Lost
  <1> QED BY <1>1, <1>2, <1>3 DEF NoStrayCommit

LEMMA SameStray ==
  ASSUME NoStrayCommit, UNCHANGED <<requests, job, state>>, Committed => Committed'
  PROVE  NoStrayCommit'
  BY DEF NoStrayCommit, Lost

LEMMA StartFlashed ==
  ASSUME UpdateInv, Orderly, NEW img \in Images, I2cStartDfu(img) PROVE FlashedInv'
  <1> DEFINE c == [op |-> "StartUpdate", blocks |-> ImageBlocks]
  <1>0. /\ host' = "uploading" /\ uploading' = img /\ next_block' = 0 /\ ~Committed
        /\ UNCHANGED <<status, job, mark, flash>>
    BY DEF I2cStartDfu, MayStart, Committed
  <1>2. FlashedIsDone'
    BY <1>0 DEF FlashedIsDone
  <1>3. CASE Send(c)
    <2>1. c \in Command /\ c.op = "StartUpdate"
      BY ConstantTypes DEF Command
    <2> HIDE DEF c
    <2>2. /\ Len(requests') = Len(requests) + 1 /\ requests'[Len(requests')] = c
          /\ Len(requests) \in Nat
      BY <1>3, <2>1, QueueEnd DEF UpdateInv
    <2>3. ASSUME NEW j \in 1 .. Len(requests') PROVE ~NoStartFrom(j)'
      BY <2>1, <2>2 DEF NoStartFrom
    <2>4. Progress'
      <3>1. AllFollow'
        BY <1>0, <2>2 DEF AllFollow, Sent
      <3>2. ~NoStartFrom(1)'
        BY <2>2, <2>3
      <3> QED BY <2>3, <3>1, <3>2 DEF Progress, OwnRequests
    <2> QED BY <1>0, <1>2, <1>3, <2>1, <2>4, StrayKept DEF FlashedInv
  <1>4. CASE ~Faultless' /\ UNCHANGED requests
    BY <1>0, <1>2, <1>4, SameStray DEF UpdateInv, FlashedInv, Progress, Current, status
  <1> QED BY <1>3, <1>4 DEF I2cStartDfu, Orderly, Faultless

\* The next request of the upload, or the last block again, behind those before it.
LEMMA SentNext ==
  ASSUME UpdateInv, host = "uploading", Faultless, NEW c \in Command, Send(c),
         c.op \in {"WriteBlock", "Commit"}, c.op = "WriteBlock" => c.data[1] = uploading,
         Sent' \in Nat, Sent' <= Sent + 1, UNCHANGED <<uploading, status, job, flash>>
  PROVE  Progress'
  <1>1. /\ Len(requests') = Len(requests) + 1 /\ requests'[Len(requests')] = c
        /\ Len(requests) \in Nat /\ Sent \in Nat
        /\ \A i \in 1 .. Len(requests) : requests'[i] = requests[i]
    BY QueueEnd, Sizes DEF UpdateInv
  <1>2. OwnRequests /\ AllFollow /\ (NoStartFrom(1) => OwnWriter)
    BY DEF UpdateInv, FlashedInv, Progress, Current
  <1>3. ASSUME NEW j \in Nat, j > 0, NoStartFrom(j)' PROVE NoStartFrom(j)
    <2>1. \A i \in j .. Len(requests) : requests'[i] = requests[i] /\ requests'[i].op # "StartUpdate"
      BY <1>1, <1>3 DEF NoStartFrom
    <2> QED BY <2>1 DEF NoStartFrom
  <1>4. OwnRequests'
    BY <1>1, <1>2, <1>3 DEF OwnRequests
  <1>5. AllFollow'
    BY <1>1, <1>2 DEF AllFollow
  <1>6. NoStartFrom(1)' => OwnWriter'
    BY <1>2, <1>3 DEF OwnWriter, status, flash
  <1> QED BY <1>4, <1>5, <1>6 DEF Progress

LEMMA UploadFlashed ==
  ASSUME UpdateInv, Orderly, I2cUploadBlock PROVE FlashedInv'
  <1>0. /\ host = "uploading" /\ UNCHANGED <<host, uploading, status, job, mark, flash>>
        /\ ~Committed /\ next_block' \in Nat /\ next_block' <= next_block + 1
    BY Sizes DEF I2cUploadBlock, Committed, UpdateInv
  <1>1. FlashedIsDone'
    BY <1>0 DEF FlashedIsDone
  <1>2. PICK b \in 0 .. ImageBlocks - 1, fault \in {"none", "Corrupt", "Length"} : ReceiveBlock(b, fault)
    <2>1. "Short" \notin Disturbances
      BY DEF Orderly
    <2> QED BY <2>1, ConstantTypes DEF I2cUploadBlock, UpdateInv, TypeOK
  <1>3. CASE ~Faultless' /\ UNCHANGED requests
    BY <1>0, <1>1, <1>3, SameStray DEF UpdateInv, FlashedInv, Progress, Current, status, Committed
  <1>4. CASE Faultless /\ Send(BlockOf(b)) /\ UNCHANGED i2c
    <2> DEFINE c == BlockOf(b)
    <2>1. b \in Nat /\ b \in Block /\ uploading \in Images \union {Factory}
      BY ConstantTypes DEF UpdateInv, TypeOK, Block
    <2>2. <<uploading, b>> \in Content
      BY <2>1, ConstantTypes
    <2>3. c \in Command /\ c.op = "WriteBlock" /\ c.data[1] = uploading
      BY <2>1, <2>2 DEF Command, BlockOf
    <2> HIDE DEF c
    <2>4. Sent' \in Nat /\ Sent' <= Sent + 1
      BY <1>0 DEF Sent
    <2>5. Progress' /\ NoStrayCommit'
      BY <1>0, <1>4, <2>3, <2>4, SentNext, StrayKept DEF c
    <2> QED BY <1>1, <2>5 DEF FlashedInv
  <1> QED BY <1>2, <1>3, <1>4 DEF ReceiveBlock, BlockOf, Faultless, UpdateInv, TypeOK, i2c

LEMMA CommitFlashed ==
  ASSUME UpdateInv, Orderly, I2cCommitDfu PROVE FlashedInv'
  <1>0. /\ host = "uploading" /\ host' = "committed" /\ next_block = ImageBlocks /\ ~Committed
        /\ UNCHANGED <<i2c, uploading, next_block, status, job, flash>>
    BY DEF I2cCommitDfu, TooShort, Orderly, Committed
  <1>1. FlashedIsDone'
    BY <1>0 DEF FlashedIsDone
  <1>2. CASE ~Faultless /\ UNCHANGED requests
    BY <1>0, <1>1, <1>2, SameStray
       DEF UpdateInv, FlashedInv, Progress, Current, Faultless, i2c, status
  <1>3. CASE Faultless /\ Send([op |-> "Commit"])
    <2> DEFINE c == [op |-> "Commit"]
    <2>1. c \in Command /\ c.op = "Commit"
      BY DEF Command
    <2> HIDE DEF c
    <2>2. Sent' \in Nat /\ Sent' <= Sent + 1
      BY <1>0, ConstantTypes DEF Sent, UploadLength
    <2>3. Committed'
      BY <1>0, <1>3 DEF Committed, Faultless, i2c
    <2>4. Progress' /\ NoStrayCommit'
      BY <1>0, <1>3, <2>1, <2>2, <2>3, SentNext, StrayKept DEF c
    <2> QED BY <1>1, <2>4 DEF FlashedInv
  <1>4. CASE Bares /\ UNCHANGED requests
    <2>1. Sent = next_block /\ Sent' = next_block
      BY <1>0, <1>4 DEF Sent, UploadLength
    <2>2. Faultless' <=> Faultless
      BY <1>0 DEF Faultless, i2c
    <2>3. Progress'
      BY <1>0, <1>4, <2>1, <2>2
         DEF UpdateInv, FlashedInv, Progress, Current, OwnRequests, AllFollow, NoStartFrom,
             OwnWriter, Staged, Holds, status, flash
    <2>4. NoStrayCommit'
      BY <1>0, <1>4, SameStray DEF UpdateInv, FlashedInv, status
    <2> QED BY <1>1, <2>3, <2>4 DEF FlashedInv
  <1> QED BY <1>2, <1>3, <1>4 DEF I2cCommitDfu, TooShort, Bares, Faultless, i2c

LEMMA AbortFlashed ==
  ASSUME UpdateInv, I2cAbortDfu PROVE FlashedInv'
  <1> DEFINE c == [op |-> "Abort"]
  <1>0. host' = "idle" /\ ~Committed /\ UNCHANGED <<job, status>>
    BY DEF I2cAbortDfu, Committed
  <1>1. c \in Command /\ c.op # "Commit"
    BY DEF Command
  <1> HIDE DEF c
  <1>2. CASE Send(c)
    BY <1>0, <1>1, <1>2, StrayKept DEF FlashedInv, Progress, Current, FlashedIsDone
  <1>3. CASE UNCHANGED requests
    BY <1>0, <1>3, SameStray DEF UpdateInv, FlashedInv, Progress, Current, FlashedIsDone, status
  <1> QED BY <1>2, <1>3 DEF I2cAbortDfu, TooShort, c

LEMMA StatusFlashed ==
  ASSUME UpdateInv, Orderly, I2cReadDfuStatus PROVE FlashedInv'
  <1>0. UNCHANGED <<i2c, requests, status, job, flash, uploading, next_block, state>>
    BY DEF I2cReadDfuStatus, status
  <1>1. CASE host \in {"uploading", "committed"} /\ DfuState \in Failures /\ host' = "failed"
    <2>1. NoStrayCommit'
      <3>1. CASE ~Committed
        BY <1>0, <3>1, SameStray DEF UpdateInv, FlashedInv
      <3>2. CASE Committed
        <4>1. NoStartFrom(1) /\ OwnWriter
          BY <3>2, CommittedStarted
        <4>2. state = "ProtocolError"
          BY <1>1, <3>2, <4>1
             DEF OwnWriter, Committed, DfuState, Failures, Faultless, UpdateInv, TypeOK, FlashUpdateState
        <4>3. job.kind # "commit"
          BY <4>2 DEF UpdateInv, ReadyInv, WriterInv
        <4>4. ASSUME NEW j \in 1 .. Len(requests) PROVE Lost(j)'
          BY <1>0, <4>1, <4>2, Sizes DEF Lost, NoStartFrom, UpdateInv
        <4> QED BY <1>0, <4>3, <4>4 DEF NoStrayCommit
      <3> QED BY <3>1, <3>2
    <2> QED BY <1>1, <2>1 DEF FlashedInv, Progress, Current, FlashedIsDone
  <1>2. CASE host = "committed" /\ DfuState = "Idle" /\ host' = "flashed"
    <2>1. Committed /\ state \in {"Idle", "Complete"}
      BY <1>2 DEF DfuState, Faultless, Committed, UpdateInv, TypeOK, FlashUpdateState
    <2>2. requests = <<>> /\ Staged /\ state = "Complete"
      BY <2>1, CommittedStarted DEF OwnWriter
    <2>3. job.kind = "none"
      BY <2>2 DEF UpdateInv, TypeOK, Job, ReadyInv, WriterInv, Erasing, Writing
    <2>4. FlashedIsDone'
      BY <1>0, <2>2, <2>3 DEF FlashedIsDone, Staged, Holds, flash
    <2>5. NoStrayCommit'
      BY <1>0, <2>2, <2>3, EmptySeq DEF NoStrayCommit
    <2> QED BY <1>2, <2>4, <2>5 DEF FlashedInv, Progress, Current
  <1> QED BY <1>1, <1>2 DEF I2cReadDfuStatus

\* A commit the writer takes is the waiting host's or is refused.
LEMMA TakeStray ==
  ASSUME UpdateInv, ReceiveRequest PROVE NoStrayCommit'
  <1> DEFINE p == requests[1]
  <1>0. /\ job.kind = "none" /\ requests # <<>> /\ requests' = Tail(requests)
        /\ Committed' <=> Committed
    BY DEF ReceiveRequest, Committed, Faultless, uploader, i2c
  <1>1. /\ Len(requests) \in Nat /\ Len(requests) >= 1 /\ Len(requests') = Len(requests) - 1
        /\ Head(requests) = p /\ \A i \in 1 .. Len(requests) - 1 : requests'[i] = requests[i + 1]
        /\ requests' \in Seq(Command)
    BY <1>0, QueueEnds, HeadTailProperties DEF UpdateInv, TypeOK
  <1>2. \A j \in 1 .. Len(requests) :
          requests[j].op = "Commit" => Lost(j) \/ (Committed /\ j = Len(requests))
    BY DEF UpdateInv, FlashedInv, NoStrayCommit
  <1>3. ASSUME job'.kind = "commit" PROVE Committed' /\ requests' = <<>>
    <2>1. p.op = "Commit" /\ state = "ReadyToCommit"
      BY <1>0, <1>1, <1>3 DEF ReceiveRequest, AcceptsCommit, start_update, abort_update, protocol_error
    <2>2. Committed /\ Len(requests) = 1
      BY <1>1, <1>2, <2>1 DEF Lost
    <2> QED BY <1>0, <1>1, <2>2, EmptySeq
  <1>4. ASSUME NEW j \in 1 .. Len(requests'), requests'[j].op = "Commit"
        PROVE  Lost(j)' \/ (Committed' /\ j = Len(requests'))
    <2>1. j + 1 \in 1 .. Len(requests) /\ requests'[j] = requests[j + 1]
      BY <1>1
    <2>2. CASE Committed /\ j + 1 = Len(requests)
      <3>1. j = Len(requests')
        BY <1>1, <2>2
      <3> QED BY <1>0, <2>2, <3>1
    <2>3. CASE Lost(j + 1)
      <3>1. state \in {"Idle", "ProtocolError"} /\ \A i \in 1 .. j : requests[i].op # "StartUpdate"
        BY <2>1, <2>3 DEF Lost
      <3>2. p.op # "StartUpdate"
        BY <1>1, <3>1
      <3>3. state' \in {"Idle", "ProtocolError"}
        BY <1>1, <3>1, <3>2
           DEF ReceiveRequest, AcceptsCommit, abort_update, protocol_error, SetState, Status
      <3>4. ASSUME NEW i \in 1 .. j - 1 PROVE requests'[i].op # "StartUpdate"
        <4>1. i + 1 \in 1 .. j /\ requests'[i] = requests[i + 1]
          BY <1>1
        <4> QED BY <3>1, <4>1
      <3> QED BY <3>3, <3>4 DEF Lost
    <2> QED BY <1>2, <1>4, <2>1, <2>2, <2>3
  <1> QED BY <1>3, <1>4 DEF NoStrayCommit

\* Behind the start of its upload the writer finds that upload's requests only.
LEMMA TakeProgress ==
  ASSUME UpdateInv, Orderly, ReceiveRequest PROVE Progress'
  <1> DEFINE p == requests[1]
  <1>0. /\ job.kind = "none" /\ requests # <<>> /\ requests' = Tail(requests)
        /\ UNCHANGED <<host, uploading, next_block, dfu_crc_error, data_length_error, dfu, magic, swapped>>
    BY DEF ReceiveRequest, uploader, i2c, flash
  <1>1. /\ Len(requests) \in Nat /\ Len(requests) >= 1 /\ Len(requests') = Len(requests) - 1
        /\ Head(requests) = p /\ \A i \in 1 .. Len(requests) - 1 : requests'[i] = requests[i + 1]
    BY <1>0, QueueEnds DEF UpdateInv
  <1> SUFFICES ASSUME Current PROVE OwnRequests' /\ AllFollow' /\ (NoStartFrom(1)' => OwnWriter')
    BY <1>0 DEF Progress, Current, Faultless
  <1>2. OwnRequests /\ AllFollow /\ (NoStartFrom(1) => OwnWriter)
    BY DEF UpdateInv, FlashedInv, Progress
  <1>3. ASSUME NEW j \in 1 .. Len(requests), NoStartFrom(j)' PROVE NoStartFrom(j + 1)
    <2> SUFFICES ASSUME NEW i \in j + 1 .. Len(requests) PROVE requests[i].op # "StartUpdate"
      BY DEF NoStartFrom
    <2>1. i - 1 \in j .. Len(requests') /\ i - 1 \in 1 .. Len(requests) - 1 /\ (i - 1) + 1 = i
      BY <1>1
    <2>2. requests'[i - 1] = requests[i]
      BY <1>1, <2>1
    <2> QED BY <1>3, <2>1, <2>2 DEF NoStartFrom
  <1>4. OwnRequests'
    <2> SUFFICES ASSUME NEW j \in 1 .. Len(requests'), NoStartFrom(j)'
                 PROVE  /\ requests'[j].op # "Abort"
                        /\ requests'[j].op = "WriteBlock" => requests'[j].data[1] = uploading
      BY <1>0 DEF OwnRequests
    <2>1. j + 1 \in 1 .. Len(requests) /\ j \in 1 .. Len(requests) /\ requests'[j] = requests[j + 1]
      BY <1>1
    <2>2. NoStartFrom(j + 1)
      BY <1>3, <2>1
    <2> QED BY <1>2, <2>1, <2>2 DEF OwnRequests
  <1>5. AllFollow'
    <2> SUFFICES ASSUME NEW i \in 1 .. Len(requests'), requests'[i].op = "StartUpdate"
                 PROVE  Len(requests') - i >= Sent
      BY <1>0 DEF AllFollow, Sent
    <2>1. i + 1 \in 1 .. Len(requests) /\ requests'[i] = requests[i + 1]
          /\ Len(requests') - i = Len(requests) - (i + 1)
      BY <1>1
    <2> QED BY <1>2, <2>1 DEF AllFollow
  <1>6. ASSUME NoStartFrom(1)' PROVE OwnWriter'
    <2>1. CASE p.op = "StartUpdate"
      <3>1. state' = "Preparing" /\ job' = [kind |-> "erase", offset |-> 0]
        BY <1>1, <2>1 DEF ReceiveRequest, start_update, Status
      <3> QED BY <3>1 DEF OwnWriter
    <2>2. CASE p.op # "StartUpdate"
      <3>1. NoStartFrom(1)
        <4>1. NoStartFrom(1 + 1)
          BY <1>1, <1>3, <1>6
        <4> SUFFICES ASSUME NEW i \in 1 .. Len(requests) PROVE requests[i].op # "StartUpdate"
          BY DEF NoStartFrom
        <4>2. i = 1 \/ i \in 1 + 1 .. Len(requests)
          BY <1>1
        <4> QED BY <2>2, <4>1, <4>2 DEF NoStartFrom
      <3>2. OwnWriter /\ p.op # "Abort" /\ (p.op = "WriteBlock" => p.data[1] = uploading)
        BY <1>1, <1>2, <3>1 DEF OwnRequests
      <3>3. state # "Complete"
        BY <1>0, <3>2 DEF OwnWriter
      <3>4. CASE p.op = "WriteBlock" /\ state = "Updating"
        <4>1. UNCHANGED status /\ job'.data = p.data
          BY <1>1, <3>4 DEF ReceiveRequest
        <4> QED BY <1>0, <3>2, <3>4, <4>1 DEF OwnWriter, status
      <3>5. CASE p.op = "Commit" /\ AcceptsCommit
        <4>1. UNCHANGED status /\ job'.kind = "commit"
          BY <1>1, <3>5 DEF ReceiveRequest
        <4> QED BY <1>0, <3>2, <3>3, <4>1 DEF OwnWriter, status
      <3>6. CASE protocol_error
        BY <1>0, <3>6 DEF protocol_error, SetState, Status, OwnWriter
      <3> QED BY <1>1, <2>2, <3>2, <3>4, <3>5, <3>6 DEF ReceiveRequest
    <2> QED BY <2>1, <2>2
  <1> QED BY <1>4, <1>5, <1>6

LEMMA TakeFlashed ==
  ASSUME UpdateInv, Orderly, ReceiveRequest PROVE FlashedInv'
  <1>1. FlashedIsDone'
    BY DEF ReceiveRequest, uploader, UpdateInv, FlashedInv, FlashedIsDone
  <1> QED BY <1>1, TakeStray, TakeProgress DEF FlashedInv

\* A step of the writer's job.
LEMMA JobFlashed ==
  ASSUME UpdateInv, job.kind # "none", job.kind # "commit", job'.kind # "commit",
         UNCHANGED <<requests, i2c, uploader>>, Current /\ OwnWriter => OwnWriter'
  PROVE  FlashedInv'
  <1>1. UNCHANGED <<host, uploading, next_block, dfu_crc_error, data_length_error>>
    BY DEF uploader, i2c
  <1>2. FlashedIsDone'
    BY <1>1 DEF UpdateInv, FlashedInv, FlashedIsDone
  <1>3. state \in {"Preparing", "Updating"}
    BY DEF UpdateInv, TypeOK, Job, ReadyInv, WriterInv, Erasing, Writing
  <1>4. NoStrayCommit'
    BY <1>1, <1>3 DEF UpdateInv, FlashedInv, NoStrayCommit, Lost, Committed, Faultless
  <1>5. Progress'
    BY <1>1 DEF UpdateInv, FlashedInv, Progress, Current, Faultless, OwnRequests, AllFollow, Sent, NoStartFrom
  <1> QED BY <1>2, <1>4, <1>5 DEF FlashedInv

LEMMA EraseFlashed ==
  ASSUME UpdateInv, Orderly, prepare_update PROVE FlashedInv'
  <1>1. /\ job.kind = "erase" /\ state = "Preparing" /\ job.offset \in Block /\ NumBlocks \in Nat
        /\ dfu \in [Block -> Content] /\ \A b \in 0 .. job.offset - 1 : dfu[b] = Erased
    BY ConstantTypes DEF prepare_update, UpdateInv, TypeOK, Job, ReadyInv, WriterInv, Erasing
  <1>2. UNCHANGED <<requests, i2c, uploader>>
    BY DEF prepare_update
  <1>3. CASE /\ dfu' = [dfu EXCEPT ![job.offset] = Erased] /\ EraseEnds(job.offset)
             /\ SetState("Updating") /\ job' = [kind |-> "none"]
    <2>1. job'.kind = "none" /\ state' = "Updating"
      BY <1>3 DEF SetState, Status
    <2>2. \A b \in Block : dfu'[b] = Erased
      BY <1>1, <1>3 DEF EraseEnds, Block
    <2> QED BY <1>1, <1>2, <2>1, <2>2, JobFlashed DEF OwnWriter
  <1>4. CASE UNCHANGED status /\ job' = [kind |-> "erase", offset |-> job.offset + 1]
    <2>1. job'.kind = "erase" /\ state' = "Preparing"
      BY <1>1, <1>4 DEF status
    <2> QED BY <1>1, <1>2, <2>1, JobFlashed DEF OwnWriter
  <1> QED BY <1>3, <1>4 DEF prepare_update, FlashMayFail, Orderly

LEMMA WriteFlashed ==
  ASSUME UpdateInv, Orderly, write_block PROVE FlashedInv'
  <1>0. /\ job.kind = "write" /\ job' = [kind |-> "none"] /\ UNCHANGED <<requests, i2c, uploader>>
        /\ dfu' = [dfu EXCEPT ![job.block] = Programmed(@, job.data)]
        /\ Status(IF AllReceived(blocks_received + 1) THEN "ReadyToCommit" ELSE state,
                  blocks_received + 1, total_num_blocks)
    BY DEF write_block, FlashMayFail, Orderly
  <1>1. /\ state = "Updating" /\ job.block \in Block /\ job.data = <<job.data[1], job.block>>
        /\ dfu \in [Block -> Content]
    BY <1>0, WritingBlock DEF UpdateInv
  <1>2. job'.kind = "none" /\ state' \in {"Updating", "ReadyToCommit"} /\ uploading' = uploading
    BY <1>0, <1>1 DEF Status, uploader
  <1>3. ASSUME OwnWriter PROVE OwnWriter'
    <2>1. job.data = <<uploading, job.block>>
      BY <1>0, <1>1, <1>3 DEF OwnWriter
    <2>2. dfu[job.block] \in {Erased, <<uploading, job.block>>}
      BY <1>1, <1>3 DEF OwnWriter
    <2>3. dfu' = [dfu EXCEPT ![job.block] = job.data]
      BY <1>0, <2>1, <2>2 DEF Programmed
    <2>4. \A b \in Block : dfu'[b] \in {Erased, <<uploading, b>>}
      BY <1>1, <1>3, <2>1, <2>3 DEF OwnWriter
    <2> QED BY <1>2, <2>4 DEF OwnWriter
  <1> QED BY <1>0, <1>2, <1>3, JobFlashed

\* What the writer commits is the waiting host's image.
LEMMA InstallFlashed ==
  ASSUME UpdateInv, Orderly, commit_update PROVE FlashedInv'
  <1>0. /\ job.kind = "commit" /\ job'.kind = "none" /\ mark_updated /\ state' = "Complete"
        /\ UNCHANGED <<host, uploading, next_block, dfu_crc_error, data_length_error, requests, dfu>>
    BY DEF commit_update, FlashMayFail, Orderly, Status, i2c, uploader
  <1>1. Committed /\ requests = <<>> /\ state = "ReadyToCommit" /\ HoldsImage(dfu)
    BY <1>0 DEF UpdateInv, FlashedInv, NoStrayCommit, ReadyInv, WriterInv, Ready
  <1>2. Holds(dfu, uploading)
    <2>1. \A b \in Block : dfu[b] \in {Erased, <<uploading, b>>}
      BY <1>1, CommittedStarted DEF OwnWriter
    <2>2. PICK img \in Images : Holds(dfu, img)
      BY <1>1 DEF HoldsImage
    <2>3. ASSUME NEW b \in 0 .. ImageBlocks - 1 PROVE dfu[b] = <<uploading, b>>
      <3>1. b \in Block /\ dfu[b] = <<img, b>>
        BY <2>2, ConstantTypes DEF Block, Holds
      <3>2. <<img, b>> # Erased
        BY UpdateAssumption DEF Erased
      <3> QED BY <2>1, <3>1, <3>2
    <2> QED BY <2>3 DEF Holds
  <1>3. Staged'
    <2>1. ~OnTrial /\ swapped \in BOOLEAN
      BY <1>0 DEF UpdateInv, RecoveryInv, ConfirmedFirst, TypeOK
    <2> QED BY <1>0, <1>2, <2>1 DEF mark_updated, OnTrial, Staged, Holds
  <1>4. Len(requests') = 0
    BY <1>0, <1>1, EmptySeq
  <1>5. OwnWriter'
    BY <1>0, <1>1, <1>3 DEF OwnWriter, Committed
  <1>6. Progress' /\ NoStrayCommit'
    BY <1>0, <1>4, <1>5 DEF Progress, OwnRequests, AllFollow, NoStrayCommit
  <1>7. FlashedIsDone'
    BY <1>0, <1>1 DEF FlashedIsDone, Committed
  <1> QED BY <1>6, <1>7 DEF FlashedInv

\* A step that leaves the upload and the flash alone.
LEMMA QuietFlashed ==
  ASSUME FlashedInv, UNCHANGED <<i2c, requests, status, job, flash, uploader>> PROVE FlashedInv'
  <1>1. UNCHANGED <<host, uploading, next_block, dfu_crc_error, data_length_error, state,
                    blocks_received, magic, swapped, dfu>>
    BY DEF uploader, i2c, status, flash
  <1>2. Progress'
    BY <1>1 DEF FlashedInv, Progress, Current, Faultless, OwnRequests, AllFollow, Sent, NoStartFrom,
                OwnWriter, Staged, Holds
  <1>3. NoStrayCommit'
    BY <1>1, SameStray DEF FlashedInv, Committed, Faultless
  <1> QED BY <1>1, <1>2, <1>3 DEF FlashedInv, FlashedIsDone, Staged, Holds

\* Before anything has been asked of the writer.
LEMMA IdleFlashed ==
  /\ host = "idle" /\ requests = <<>> /\ job.kind = "none" => FlashedInv
  /\ host' = "idle" /\ requests' = <<>> /\ job'.kind = "none" => FlashedInv'
  <1>1. Len(<<>>) = 0
    BY EmptySeq
  <1> QED BY <1>1 DEF FlashedInv, Progress, Current, NoStrayCommit, FlashedIsDone

LEMMA FlashedNext ==
  ASSUME UpdateInv, Orderly, [Next]_vars PROVE FlashedInv'
  <1>1. CASE \E img \in Images : I2cStartDfu(img)
    BY <1>1, StartFlashed
  <1>2. CASE I2cUploadBlock
    BY <1>2, UploadFlashed
  <1>3. CASE I2cCommitDfu
    BY <1>3, CommitFlashed
  <1>4. CASE I2cAbortDfu
    BY <1>4, AbortFlashed
  <1>5. CASE I2cReadDfuStatus
    BY <1>5, StatusFlashed
  <1>6. CASE ReceiveRequest
    BY <1>6, TakeFlashed
  <1>7. CASE prepare_update
    BY <1>7, EraseFlashed
  <1>8. CASE write_block
    BY <1>8, WriteFlashed
  <1>9. CASE commit_update
    BY <1>9, InstallFlashed
  <1>10. CASE CheckBooted \/ UNCHANGED vars
    BY <1>10, QuietFlashed DEF CheckBooted, vars, UpdateInv
  <1>11. CASE MarkBooted
    BY <1>11, IdleFlashed DEF MarkBooted, UpdateInv, RecoveryInv, ConfirmedFirst, uploader
  <1>12. CASE Reset
    <2>1. job'.kind = "none"
      BY <1>12 DEF Reset
    <2> QED BY <1>12, <2>1, IdleFlashed DEF Reset
  <1> QED BY <1>1, <1>2, <1>3, <1>4, <1>5, <1>6, <1>7, <1>8, <1>9, <1>10, <1>11, <1>12 DEF Next

LEMMA UpdateInit == Init => UpdateInv
  <1>1. ASSUME Init PROVE FlashedInv
    BY <1>1, IdleFlashed DEF Init, InitRam
  <1> QED BY <1>1, TypeInit, ReadyInit, RecoveryInit DEF UpdateInv

LEMMA UpdateNext ==
  ASSUME UpdateInv, Orderly, [Next]_vars PROVE UpdateInv'
  <1>1. Accountable /\ "Unconfirmed" \notin Disturbances
    BY DEF Orderly, Accountable
  <1>2. TypeOK' /\ ReadyInv'
    BY <1>1, TypeNext, ReadyNext DEF UpdateInv
  <1>3. RecoveryInv'
    BY <1>1, RecoveryNext DEF UpdateInv
  <1> QED BY <1>2, <1>3, FlashedNext DEF UpdateInv

\* A host that commits after its last block and reads Idle then finds its own image
\* staged for the next reset, whatever blocks were damaged or sent twice, whether
\* its commits and aborts have a payload, and however many uploads it gave up or
\* began again before, on a flash that does not fail.
THEOREM FlashedIsStagedHolds == Orderly => (Spec => []FlashedIsStaged)
<1> SUFFICES ASSUME Orderly PROVE Spec => []FlashedIsStaged
  OBVIOUS
<1>1. UpdateInv => FlashedIsStaged
  BY DEF UpdateInv, FlashedInv, FlashedIsDone, Staged, FlashedIsStaged
<1> QED BY <1>1, UpdateInit, UpdateNext, PTL DEF Spec

----------------------------------------------------------------------------
(* The outcome of a commit comes *)

\* The commit of a waiting host is the last request in the queue, or in the
\* writer's hands, or has been carried out or refused.
CommitComes ==
  host = "committed" /\ Faultless =>
    \/ requests # <<>> /\ requests[Len(requests)].op = "Commit"
    \/ requests = <<>> /\ job.kind = "commit"
    \/ requests = <<>> /\ job.kind = "none" /\ state \in {"Complete", "ProtocolError"}

\* The writer works on the requests before the commit.
LEMMA CommitStaysLast ==
  ASSUME CommitComes, UNCHANGED <<requests, i2c, uploader>>, job.kind \notin {"none", "commit"}
  PROVE  CommitComes'
  BY DEF CommitComes, Faultless, i2c, uploader

LEMMA CommitTaken ==
  ASSUME TypeOK, CommitComes, ReceiveRequest PROVE CommitComes'
  <1>1. /\ job.kind = "none" /\ requests # <<>> /\ requests' = Tail(requests)
        /\ UNCHANGED <<host, dfu_crc_error, data_length_error>>
    BY DEF ReceiveRequest, uploader, i2c
  <1>2. /\ Len(requests) \in Nat /\ Len(requests) >= 1 /\ Len(requests') = Len(requests) - 1
        /\ Head(requests) = requests[1]
        /\ \A i \in 1 .. Len(requests) - 1 : requests'[i] = requests[i + 1]
        /\ requests' \in Seq(Command)
    BY <1>1, QueueEnds, HeadTailProperties DEF TypeOK
  <1> SUFFICES ASSUME host = "committed", Faultless, requests[Len(requests)].op = "Commit"
               PROVE  CommitComes'
    BY <1>1 DEF CommitComes, Faultless
  <1>3. CASE Len(requests) = 1
    <2>1. requests' = <<>> /\ Head(requests).op = "Commit"
      BY <1>2, <1>3, EmptySeq
    <2>2. job'.kind = "commit" \/ (job'.kind = "none" /\ state' = "ProtocolError")
      BY <1>1, <2>1 DEF ReceiveRequest, protocol_error, SetState, Status
    <2> QED BY <2>1, <2>2 DEF CommitComes
  <1>4. CASE Len(requests) > 1
    <2>1. Len(requests') \in 1 .. Len(requests) - 1 /\ Len(requests') + 1 = Len(requests)
      BY <1>2, <1>4
    <2>2. requests' # <<>> /\ requests'[Len(requests')] = requests[Len(requests)]
      BY <1>2, <2>1, EmptySeq
    <2> QED BY <2>2 DEF CommitComes
  <1> QED BY <1>2, <1>3, <1>4

LEMMA CommitComesNext ==
  ASSUME ~Bares, TypeOK, CommitComes, [Next]_vars PROVE CommitComes'
  <1>1. CASE host' # "committed"
    BY <1>1 DEF CommitComes
  <1>2. CASE I2cCommitDfu
    <2>1. CASE ~Faultless /\ UNCHANGED i2c
      BY <2>1 DEF CommitComes, Faultless, i2c
    <2>2. CASE Send([op |-> "Commit"])
      <3>1. [op |-> "Commit"] \in Command
        BY DEF Command
      <3> QED BY <2>2, <3>1, QueueEnd DEF CommitComes
    <2> QED BY <1>2, <2>1, <2>2 DEF I2cCommitDfu, Bares, Faultless
  <1>3. CASE ReceiveRequest
    BY <1>3, CommitTaken
  <1>4. CASE prepare_update
    BY <1>4, CommitStaysLast DEF prepare_update
  <1>5. CASE write_block
    BY <1>5, CommitStaysLast DEF write_block
  <1>6. CASE commit_update
    <2>1. job.kind = "commit" /\ job'.kind = "none" /\ state' = "Complete"
      BY <1>6 DEF commit_update, Status, SetState
    <2>2. UNCHANGED <<requests, host, dfu_crc_error, data_length_error>>
      BY <1>6 DEF commit_update, i2c, uploader
    <2> QED BY <2>1, <2>2 DEF CommitComes, Faultless
  <1>7. CASE UNCHANGED <<i2c, requests, status, job, uploader>>
    BY <1>7 DEF CommitComes, Faultless, i2c, status, uploader
  <1>8. ASSUME host' = "committed", I2cUploadBlock \/ I2cReadDfuStatus \/ I2cAbortDfu
                                      \/ \E img \in Images : I2cStartDfu(img)
        PROVE  FALSE
    BY <1>8 DEF I2cUploadBlock, I2cReadDfuStatus, I2cAbortDfu, I2cStartDfu
  <1>9. Reset => host' # "committed"
    BY DEF Reset
  <1> QED BY <1>1, <1>2, <1>3, <1>4, <1>5, <1>6, <1>7, <1>8, <1>9 DEF Next, CheckBooted, MarkBooted, vars

\* A host that waits for its commit waits for the writer, or can read the outcome
\* already: whatever was resent, damaged, dropped or failed, no commit is lost,
\* provided that commits have a payload (i2c_secondary.rs:180 drops them otherwise).
THEOREM NeverStrandedHolds ==
  "Bare" \notin Disturbances => (Spec => []NeverStranded)
<1> SUFFICES ASSUME ~Bares PROVE Spec => []NeverStranded
  BY DEF Bares
<1>1. Init => CommitComes
  BY DEF Init, InitRam, CommitComes
<1>2. CommitComes => NeverStranded
  BY DEF CommitComes, NeverStranded, Faultless, DfuState, Failures
<1> QED BY <1>1, <1>2, TypeInit, TypeNext, CommitComesNext, PTL DEF Spec

\* Taking a request costs more than the job it may begin.
LEMMA WorkOfRequest ==
  ASSUME TypeOK, ReceiveRequest PROVE Work' < Work
  <1> DEFINE k == NumBlocks + 2
             n == Len(requests)
             w == CASE job.kind = "none" -> 0 [] job.kind = "erase" -> NumBlocks - job.offset
                    [] OTHER -> 1
  <1>1. k \in Nat /\ k > NumBlocks /\ k > 1
    BY ConstantTypes
  <1>2. n \in Nat /\ n >= 1 /\ Len(requests') = n - 1
    BY QueueEnds DEF ReceiveRequest
  <1>3. Work = n * k
    <2>1. n * k \in Nat
      BY <1>1, <1>2
    <2> QED BY <2>1 DEF Work, ReceiveRequest
  <1>4. w' \in 0 .. k - 1
    <2>1. \/ job'.kind = "none" \/ job'.kind = "write" \/ job'.kind = "commit"
          \/ job'.kind = "erase" /\ job'.offset = 0
      BY DEF ReceiveRequest, start_update, abort_update, protocol_error
    <2>2. w' = 0 \/ w' = 1 \/ w' = NumBlocks
      BY <2>1, ConstantTypes
    <2> QED BY <1>1, <2>2, ConstantTypes
  <1>5. Work' = (n - 1) * k + w'
    BY <1>2 DEF Work
  <1> HIDE DEF k, n, w
  <1>6. n * k = (n - 1) * k + k /\ (n - 1) * k \in Nat
    <2>1. n - 1 \in Nat /\ n = (n - 1) + 1
      BY <1>2
    <2> QED BY <1>1, <2>1
  <1> QED BY <1>1, <1>3, <1>4, <1>5, <1>6

LEMMA WorkOfJob ==
  ASSUME TypeOK, prepare_update \/ write_block \/ commit_update PROVE Work' < Work
  <1> DEFINE q == Len(requests) * (NumBlocks + 2)
  <1>1. q \in Nat /\ q' = q
    BY ConstantTypes, LenProperties DEF TypeOK, prepare_update, write_block, commit_update
  <1>2. CASE prepare_update
    <2>1. job.kind = "erase" /\ job.offset \in 0 .. NumBlocks - 1 /\ NumBlocks \in Nat
      BY <1>2, ConstantTypes DEF prepare_update, TypeOK, Job, Block
    <2>2. Work = q + (NumBlocks - job.offset)
      BY <2>1 DEF Work
    <2>3. CASE job' = [kind |-> "none"]
      <3>1. Work' = q + 0
        BY <1>1, <2>3 DEF Work
      <3> HIDE DEF q
      <3> QED BY <1>1, <2>1, <2>2, <3>1
    <2>4. CASE job' = [kind |-> "erase", offset |-> job.offset + 1]
      <3>1. Work' = q + (NumBlocks - (job.offset + 1))
        BY <1>1, <2>4 DEF Work
      <3> HIDE DEF q
      <3> QED BY <1>1, <2>1, <2>2, <3>1
    <2> QED BY <1>2, <2>3, <2>4 DEF prepare_update
  <1>3. CASE write_block \/ commit_update
    <2>1. Work = q + 1 /\ Work' = q + 0
      BY <1>1, <1>3 DEF Work, write_block, commit_update
    <2> HIDE DEF q
    <2> QED BY <1>1, <2>1
  <1> QED BY <1>2, <1>3

\* No more steps of the writer lie between a commit and its outcome than the queue
\* and the job at hand require: nobody adds to its work while a host waits.
THEOREM AnswerNearsHolds == Spec => AnswerNears
<1>1. ASSUME TypeOK, [Next]_vars
      PROVE  host = "committed" /\ host' = "committed" => Work' < Work \/ UNCHANGED <<requests, job>>
  <2>1. ReceiveRequest \/ prepare_update \/ write_block \/ commit_update => Work' < Work
    BY <1>1, WorkOfRequest, WorkOfJob
  <2>2. CheckBooted \/ MarkBooted \/ UNCHANGED vars => UNCHANGED <<requests, job>>
    BY DEF CheckBooted, MarkBooted, vars
  <2>3. I2cUploadBlock \/ I2cCommitDfu => host # "committed"
    BY DEF I2cUploadBlock, I2cCommitDfu
  <2>4. I2cAbortDfu \/ I2cReadDfuStatus \/ Reset \/ (\E img \in Images : I2cStartDfu(img))
          => host' # "committed"
    BY DEF I2cAbortDfu, I2cReadDfuStatus, Reset, I2cStartDfu
  <2> QED BY <1>1, <2>1, <2>2, <2>3, <2>4 DEF Next
<1> QED BY <1>1, TypeInit, TypeNext, PTL DEF Spec, AnswerNears
=============================================================================
