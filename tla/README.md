# Verification of the HALPI2 controller firmware

HALPI2 is a computer built on a Raspberry Pi Compute Module (the CM) with a
supercapacitor as backup supply. Its controller, an RP2040 running the firmware
under `src/firmware`, switches the CM's supply, rides out power failures on the
supercap, watches the host, and updates its own firmware over I2C. The modules
here model that firmware in TLA+; TLC checks them on small instances and TLAPS
proves theorems about the machine, updates, settings, locks and LEDs for every
instance.

## The system

The firmware is a set of async tasks on one cooperative executor (embassy). A
task runs until it awaits; tasks share state through async mutexes and talk over
bounded channels whose `send` waits while the channel is full.

| part | source | state | operations | talks to |
|---|---|---|---|---|
| state machine | `tasks/state_machine.rs` | state with entry time, context (watchdog timeout, last ping, alarm), rails | 14 states, 3 superstates, a cycle every 50 ms: drain, sample, handle | reads `INPUTS`, `RUNTIME_CONFIG`; drives LED, USB and button channels |
| I2C secondary | `tasks/i2c_secondary.rs` | DFU error flags, copy of the timeout | one command at a time, then a ping | sends to the state machine, flash writer, configuration and LED channels |
| inputs | `tasks/gpio_input.rs` | `INPUTS` | sampling every 10 and 20 ms, button edges | read by all |
| flash writer | `tasks/flash_writer.rs` | queue, status | prepare, write, commit, abort | status read by the I2C task |
| confirmation | `tasks/mark_firmware_booted.rs` | progress | 30 s after the start: check, mark | state partition |
| bootloader | `bootloader/src/main.rs` (embassy-boot) | state partition, two image partitions | swap or revert before the start | |
| configuration | `tasks/config_manager.rs` | `RUNTIME_CONFIG`, flash map, USB outputs | load, set, USB on/off/ports | |
| LEDs | `tasks/led_blinker.rs`, `led_patterns.rs` | pattern, overrides, brightness | one event and a frame every 10 ms | `SupercapBar` reads `INPUTS` |
| button output | `tasks/power_button.rs` | | press, release, double click | |
| watchdog feeder | `tasks/watchdog_feeder.rs` | | feeds the hardware watchdog each second | waits for `INPUTS` |

What is hard about it: the events of a cycle are handled in one batch while the
machine changes state under them; pings race timeouts and reboot delays; the CM's
edge detector outlives the states that need it; rails are switched in four states
only and depend on the path for the others; the controller can be reset at any
step; an upload is counted, queued, interrupted, resent and begun again; an
image on trial has its only replacement in the partition an upload erases; a
setting is in RAM, in a channel and in flash at different times; tasks hold a
mutex while they wait for another, for room in a channel or for the I2C master;
and the LEDs are told what to show by two tasks that do not know of each other.

## Modules

| module | what it is |
|---|---|
| `PowerSupervisor` | abstract: when the CM's supply may be switched, and why a stop ends where it ends |
| `PowerStateMachine` | the state machine, its task, the I2C power commands, the button and the surroundings |
| `PowerStateMachineProofs` | theorems about `PowerStateMachine` |
| `FirmwareSlots` | abstract: an update in terms of whole images (running, fallback, staged) |
| `FirmwareUpdate` | DFU registers, flash writer, confirmation, bootloader outcome, the host's uploads |
| `FirmwareUpdateProofs` | theorems about `FirmwareUpdate`: types, recovery and what is reverted to |
| `FirmwareUploadProofs` | theorems about its uploads: what is committed, reported and installed, and that the outcome of a commit comes |
| `FirmwareSlotsProofs` | that `FirmwareUpdate` implements `FirmwareSlots` |
| `FirmwareClaims` | statements of comments the update does not keep |
| `DurableRegisters` | abstract: registers whose writes are saved in order, and what a restart loses |
| `ConfigStore` | setters, the configuration channel and task, the load, the USB ports, resets |
| `ConfigStoreProofs` | theorems about `ConfigStore` |
| `RegistersProofs` | that `ConfigStore` implements `DurableRegisters` |
| `ConfigClaims` | a statement of the README the settings do not keep |
| `TaskSystem` | what each task may wait in: two mutexes, four channels, the master, the watchdog |
| `TaskSystemProofs` | theorems about `TaskSystem` |
| `LedBlinker` | the LED task with its overrides and fades, and the two tasks that send to it |
| `LedBlinkerProofs` | theorems about `LedBlinker` |
| `MCTaskSystem`, `MCLedBlinker` | constants of the runs that a cfg cannot write |

### PowerStateMachine

Each handler function is an operator of the same name that says what one event
does; a superstate's handler is the last case of its substates'. `GotoWith` is a
`Transition` together with the entry action of the target (`Drive` is what the
entry actions switch; only `OperationalSolo` also disarms the watchdog). The
task's cycle is three actions, because other tasks run at its awaits:
`DrainChannel` empties the channel, `SampleInputs` appends the CM edge, the alarm
edge and the Tick, and `HandleEvent` handles one event (`InitMachine` is statig's
initial entry action, run with the first event). VIN, the supercap and the
settings are read when the event is handled, as in the code. The powered-down
states end in `Reset`, which starts RAM and pins again but keeps the inputs, the
CM and the configuration.

The I2C task handles one command and then owes a `WatchdogPing` (`I2cPing`);
both `Send`s wait while the channel is full. `power_button_input` is the press;
releases and the debouncing that is not there make no difference to the machine.

Time is counted in units of at least one ticker period. An `Instant` is kept as
its age, saturating at `MaxAge` above every limit, since the code only compares
ages with limits. `MaxLag` bounds the units between two handled Ticks: the delay
of the task itself. `ping_sent_age` is a history variable: the time since the
I2C task last queued a ping.

`Stimuli` selects what the surroundings do, so that each run can spend its
states on the question it asks. A CM rail may rise only while the 5V rail is
on; it may fall at any time.

The supervisor refinement maps the fourteen states to six modes (`Mode`) and the
three reasons of a stop (`Reason`).

### FirmwareUpdate

A partition is a function from blocks to contents; writing is programming NOR
flash (`Programmed`: a block programmed twice with different data is garbled).
The writer takes one request at a time (`ReceiveRequest`); erasing is one step
per chunk, as `prepare_update` yields between chunks. `dfu_crc_error` and
`data_length_error` are the I2C task's sticky flags. The CRC is taken to detect
every damaged block.

The host follows the protocol in the comment at the head of `i2c_secondary.rs`;
`Disturbances` names what it and its surroundings may do besides: damage or
mis-size a block, resend one, commit early, abort, start over during an upload
(`Restart`) or after a commit (`Again`), not wait for the running image's
confirmation (`Unconfirmed`), and failing flash operations. A write of fewer than
two bytes is dropped before the register is looked at (`TooShort`): nothing is
queued and no flag is set. `Short` and `ShortStart` are a block and a start of
which no more arrives, `Bare` is a host that takes the comment at its word and
sends commits and aborts without a payload (`README.md:195-196` asks for any
byte). `Reset` is possible at every step; it is followed by what the bootloader
does. embassy-boot is not part of the repository: its swap and its write of the
state partition are taken as atomic, which is what its power-fail-safe progress
records promise. `BadImages` start but never survive 30 s; a partial image does
not start.

In the refinement to `FirmwareSlots`, `staged` is the image a commit has made
pending and `fallback` the image that would be restored.

### ConfigStore

`runtime_config` is RAM, `config_events` the channel, `flash` the map that
sequential-storage keeps. All setters are one action, `set_value`: they take
`RUNTIME_CONFIG`, change RAM and then wait, with the lock, for room (`I2cSend`);
`ConfigLocked` says that the lock is taken. `init_config_manager` is one step, at
the point where it takes the lock; what it read from flash before cannot have
changed, as only this task writes there. A read that fails is taken for a missing
item (`unread`): RAM gets the default and flash keeps what it has. `ReceiveEvent`
and `StoreSetting` or `SwitchPorts` are apart, because the write to flash awaits.
A failed write panics (`unwrap`) and ends in `Reset`, which may come at every
step; a write itself is atomic, sequential-storage's promise. The state machine's
entry actions drive the rail first (`SwitchRail`) and then send (`MachineSend`).

Keys are of three kinds, which the code treats differently: `Loaded` are read at
the start, `Scales` are stored but never read again, `Guarded` are stored only in
test mode. `current` is a history variable: the keys whose value in RAM is the
last one written, by a host since the start or read back by the load, which is
what `FlashCatchesUp` can be expected of. A setting that a host wrote before the
load overwrote it, or that the load could not read, shows another value than flash
holds until it is written again; what `ImplementsRegisters` says of these is that
flash keeps, or still gets, what was written. The host is taken not to fill the
channel before the load is over; see the hazards for what happens otherwise.

In the refinement to `DurableRegisters`, `unsaved` is every write on its way:
the one in the task's hands, those on the channel and the one a setter is
waiting to send; the load is `Restore`, with the same reads failing. So sending and receiving an event are stutters, storing one is
the abstract `Save` of the oldest write, and a reset loses all that are in flight.

### TaskSystem

A task is a sequence of the operations it may wait in, in the order of the code:
taking a mutex to keep it across an await (`Take`) or to give it back before the
next (`Look`), sending (`Put`), answering the master (`Respond`). Which sequences
there are is the data of the model (`ButtonEdges`, `I2cCommands`, `Sampling`,
`Handling`, `Frames`, `Storing`), and each names its handler. What is computed in
between only selects the sequence. An operation may free a mutex once it has
completed (`Freeing`). The executor is cooperative: a task whose operation need
not wait goes on without giving way, while here others may step in between,
which adds interleavings and removes none.

Left out are tasks that take `INPUTS` and give it back without waiting, as they
keep nobody waiting; the flash writer, which waits for none of the modelled
locks; the DFU writes of the I2C task, which wait for the writer's queue and hold
nothing while they do; the configuration task's wait for the mutex of the flash,
which the writer and the confirmation task give back without waiting for anything
modelled; and the restarts of the powered-down states, which only end waits.
`Bite` is the hardware watchdog: possible while the feeder waits for `INPUTS`,
since that is when it is not fed. It starts every task again.

### LedBlinker

The LED task alternates between taking at most one event (`Receive`) and drawing
a frame (`Update`). The five overrides are always set and cleared together and
their components fade by the same function, so one of them (`fade`, alpha) stands
for all; the arithmetic is the code's, with 10 ms steps, truncating division and
saturation. Ages of overrides are counted in frames, of which one may be late.
The state machine sends a pattern from an entry action and records its state
after it (`MachineSends`); the I2C task compares the recorded state when an
override command arrives and sends later (`I2cOverrides`, `I2cSends`).
`set_led_brightness` changes the setting and then sends.

## Runs

All properties are stated beside the definitions they are about.

| run | cfg | question |
|---|---|---|
| `power_watchdog` | `PowerWatchdog.cfg` | What the watchdog knows of the host. Timeouts are set, changed and withdrawn, the queue holds two events, alarms interrupt. `HostHeard` is the relation between the machine's and the host's knowledge, `NoFalseUnresponsive` and `NoFalseReboot` its consequences: only a ping still in the channel excuses a verdict. |
| `power_paths` | `PowerPaths.cfg` | Every path, with crashes, all commands, the button and settings changed on the way: `RailsFollowState`, `CmEdgeTracked`, `NotOverstayed`, `NoReturnAfterClick`, `ShutdownIsFinal`, and the refinement of `PowerSupervisor`. |
| `power_liveness` | `PowerLiveness.cfg` | `StopEnds`, `CmLossCutsPower`, `HungHostHandled`, `BlackoutRestarts`. |
| `firmware_upload` | `FirmwareUpload.cfg` | `ReadyIsWhole`, `FlashedIsStaged` and the refinement of `FirmwareSlots`, with three blocks through a queue of two, damaged and mis-sized blocks, aborts, restarts, commits and aborts without a payload, and resets. |
| `firmware_recovery` | `FirmwareRecovery.cfg` | `Recoverable`, `BadImageReverted`, `PreparingEnds` against everything that could leave a wrong image: blocks resent or dropped, dropped starts, early commits, uploads after a commit, failing flash. `CommitAnswered`, and what it rests on: a commit that has a payload is never lost between host and writer (`NeverStranded`), and each step of the writer shortens the wait (`AnswerNears`). |
| `config_store` | `ConfigStore.cfg` | `FlashCatchesUp` (a register shows what flash will hold), `UsbFollowsRail`, the refinement of `DurableRegisters`, and `WriteSaved`, with a setting, a scale and a port in a channel of two, resets, writes before the load and reads that fail in it. |
| `tasks` | `TaskSystem.cfg` | `CirclesHoldInputs`: every circular wait includes the holder of `INPUTS`, so that the watchdog sees it; `NobodyWaitsForItself`: no task takes a mutex it holds or sends to a full channel it drains; `MachineAlive`: the machine comes back to its cycle, even if a master stops in the middle of a read. Deadlocks do occur in this run: that they end is the point. |
| `leds` | `LedBlinker.cfg` | `LedsFollow`, `FadesAreSmooth`, `SilenceEnds`, `StrayOverridesEnd` and its safety half `StrayIsAlone` (one override at most slips behind the pattern of a state that shows none), with both senders, late frames, a fade and a jump, and the overvoltage pattern. |
| `claim_resend`, `claim_trial`, `claim_bare_commit` | `Claim*.cfg` | refute statements about updates (below) |
| `claim_scales` | `ClaimScales.cfg` | refutes a statement about the settings (below) |

Bounds. One nonzero watchdog timeout is enough, since the code only compares it
with ages; zero is always written too. Limits of 0 and 1 unit with a lag of 1
make every comparison come out both ways, and `MaxAge` exceeds the largest limit
(the assumption `ConstantsAssumption` states it). A channel of one event makes
every send wait at some time and one of two lets a ping overtake nothing but a
command; the theorems hold for any capacity. A queue of two requests is shorter
than an image of three blocks, so it fills while the writer erases; with
images shorter than the queue a host could read `Idle` for a commit the writer
has not reached (see the hazards), which is why `QueueDepth <= ImageBlocks` in
the runs, as with any real image and the queue of four. `firmware_recovery` leaves
out what would only add to its states: an error flag is a refused block more, in
`firmware_upload` and in the theorems, and so are aborts and restarts. Two images, one of them
bad, and the factory image suffice to tell an image from its predecessor.

Two values tell a setting that was saved from one that was not, and one key of
a kind is enough since events of different keys only share the channel; a key
that is stored in test mode only is in `claim_scales` and in the theorems. The
channels of `tasks` hold one event each, so that each of them is full as often
as possible; the theorem `CirclesHoldInputsHolds` has no bound. In `leds` a fade
of 25 ms is not a multiple of the frame and one of 9 ms is below it, the levels
10 and 250 make the differences odd and of both signs, and a timeout of three
frames with one late lets overrides end in a fade and after it.

Fairness. The executor polls every ready task, so each step of the machine, the
flash writer and the confirmation task is weakly fair, and so is the I2C task's
ping. Time passes (`Advance`). The CM's rail falls when its supply is off.
An image that does not stay up is reset by the hardware watchdog the bootloader
starts. The host must go on reading the DFU status for `CommitAnswered`, which is
about a waiting host. Nothing is assumed of the host's other commands, VIN, the
supercap, the button, the flash or resets. Deadlock is checked in every run.

Strong fairness is assumed where a task waits for something that others take
again and again: room in a channel (`I2cSend`, `MachineSend`, `MachineSends`) and,
in `TaskSystem`, the locks and rooms of the machine, the LEDs and the
configuration task. embassy wakes a waiting task when the lock or the room is
freed and polls woken tasks in the order they were woken, before one that frees
and takes again comes round. The master's reading is never fair, and neither
are the button and the host's commands.

## Statements the code does not keep

Each is the property of a run that TLC refutes.

- `ReadyIsWhole` with resent blocks: "All blocks received, ready to commit"
  (`flash_writer.rs:270`). Blocks are counted, not remembered. It takes an early
  commit besides to install anything wrong: by `CommitsAreWhole`, hosts that resend
  blocks but commit only after the last one never commit an incomplete image.
- `RevertsToBootedImage`: "Verify that we are in a booted firmware to avoid
  reverting to a bad state" (`flash_writer.rs:83`). The check accepts
  `State::Swap`, the state of an unconfirmed image.
- `NeverStranded` with commits that have no payload: "Write 0x44: Commit the uploaded
  DFU data" (`i2c_secondary.rs:85`, where commands that take any byte are marked so;
  `README.md:195` does ask for one). Such a commit is dropped as too short (line
  180), no error flag is set, and 0x41 answers `ReadyToCommit` for ever.
- `StoredScalesReturn`: "Persistent settings stored in flash: Voltage thresholds
  and correction scales" (`src/README.md:321-323`). `init_config_manager` loads
  every setting but the scales.

Met while modelling, without a run of their own: a commit that cannot be written
is reported as `Complete`, which the host reads as `Idle`, as the caller
overwrites the `WriteError` of "Failed to commit update"
(`flash_writer.rs:211-212,318`); a setting that cannot be read at a start shows
the default although flash keeps the value (`config_manager.rs:498-562`); writes
that are refused, too short ones, blocks of a wrong length or checksum and
overrides outside `OperationalCoOp` among them, queue no ping, although line 610
of `i2c_secondary.rs` has "any I2C activity" update the watchdog (for the watchdog
properties these are no commands: they count the pings that were queued); the
alarm pattern is overwritten by the next transition's and never raised again
(`state_machine.rs:409` calls it persistent); `PoweredDownBlackout` does not look
at VIN (`state_machine.rs:738,748` say a change of it resets); an override that is
on its way when the machine leaves `OperationalCoOp` is shown in the next state
until its timeout (`led_blinker.rs:23` has overrides cleared on any transition;
`StrayOverridesEnd` is what remains true); a fade that is begun again with every
frame and is long enough stands still, as each beginning truncates; the sampling
task reads the scales once and before the load (`gpio_input.rs:205`), so a scale
that is written changes no measurement; an edge of the power button that comes
while the task is sending the last one is not seen (`gpio_input.rs:109-120`);
`PowerOff` sets no LED pattern (`README.md:145` wants LED 5 red); `Off` and a
ComputeModuleOff in `EnteringStandby` do not lead to `PoweredDownManual`
(`README.md:118,126`); `Standby` may be entered with the CM up
(`state_machine.rs:917,941`); a host that hangs in a blackout is not noticed
(`state_machine.rs:611,621`); writes of 0x50-0x52 are refused at their documented
length (`i2c_secondary.rs:427`).

## Proofs

`PowerStateMachineProofs` proves for all constants satisfying
`ConstantsAssumption`, that is any timeouts, limits, channel capacity and
stimuli:

- `TypeCorrect`. Every handler does one of three things to the machine (`Moves`,
  `Updates`, `Ignore`, lemma `LiveOutcome`), and each keeps the types.
- `RailsCorrect`, `ShutdownIsFinalHolds`, `Implements`. The control graph of the
  machine is stated once (`Edge`); `LiveFollows` shows every handled event
  follows an edge or stays, and the three theorems are facts about edges.
- `CoOpCorrect`, by the effect of each edge on the armed timeout.
- `InTime`. A handled event enters a state anew or leaves its age alone, and a
  Tick does the latter only while the age is within the limit (`Punctual`,
  `Within`); between two Ticks the age grows no more than the lag.
- `ClickIsFinal`, from the two states a click leads to.
- `CmLossTracked`. `CmEdgeTracked` is not inductive: a stale ComputeModuleOn could
  bring the machine up after the CM has gone. `EdgeInv` adds that edges are never
  on the channel and that a ComputeModuleOn in the batch agrees with `prev_cm_on`.
- `HostHeardHolds`. Either a ping is queued or the machine is `Silent`: its ages
  are related to the host's. Sending, draining, handling and time keep it.
- `NoFalseUnresponsiveHolds`, `NoFalseRebootHolds`. The verdicts fall at a Tick;
  `TickInv` says that the Tick is the last event of a batch, so no ping of the
  batch is still to be handled, and `HostHeard` does the rest.

`FirmwareUpdateProofs` proves for all images, partition and image sizes, queue
depths and disturbances satisfying `UpdateAssumption` (sizes and depth are
positive, an image fits the partition, and images are not called "erased",
"garbled" or "none", which are names of the model):

- `TypeCorrect`, part by part (`TypeParts`): the I2C flags, the queue, the status,
  the job, the flash and the host.
- `RecoverableHolds`, for hosts that do not update before the running image is
  confirmed (`"Unconfirmed" \notin Disturbances`; `RevertsToBootedImage` shows the
  condition is needed). `Recoverable` is strengthened by `ConfirmedFirst`: nothing
  is queued for the writer or in its hands before the confirmation, and after it
  no image is on trial. So the writer only ever changes the partition that does
  not matter (`WriterStep`), and the bootloader keeps what does (`BootStep`).
- `RevertsToBootedImageHolds`, under the same condition, from the same invariant: the
  claim that `claim_trial` refutes is true of hosts that wait for the confirmation.

`FirmwareUploadProofs` proves, for the same constants and the conditions named:

- `ReadyIsWholeHolds`, unless blocks are resent (`claim_resend` shows that this is
  needed), the start of an upload is dropped (its blocks would then go to the upload
  before) or an image has 65536 blocks or more (the writer truncates the number).
  `ReadyInv` is the strengthening: the requests in the queue form a chain in which
  each block follows its predecessor or a start (`After`), the first of them fits
  what the writer is doing and what it has written (`FitsWriter`), and so does the
  block the host sends next (`NextFits`). A request out of place cannot harm: the
  writer refuses it. A block that was dropped leaves the writer's count behind the
  blocks for good (`Counted`, `BlockDropped`), so that it never asks for the commit.
  Early commits, restarts, uploads after a commit and failing flash are all allowed.
- `CommitsAreWhole`, under `Accountable`: hosts do not both resend blocks and leave
  some out, by a commit that is early or a block that is dropped (resends make up
  for the missing in the writer's count, and a hole is installed), and starts are
  not dropped. The same `ReadyInv`, in which a block may follow itself (`Follows`):
  the writer's count may be ahead of the blocks, but then the block that comes next
  is not the one it expects, and it is only when the last block has been taken that
  a commit can follow.
- `FlashedIsStagedHolds`, if `Orderly`: no flash failures (a commit that fails is
  reported as complete), no update of an unconfirmed image, no dropped blocks or
  starts, no early commits and a queue that cannot hold a whole upload
  (`UploadLength`): with either of these two a host could read `Idle` after its
  commit because the writer has not taken the start yet. Damaged and resent blocks,
  aborts, restarts, further uploads, and commits and aborts without a payload are
  allowed. The requests behind the last start in
  the queue are the current upload's (`OwnRequests`), and at least as many follow
  that start as have been sent since (`AllFollow`), so that once the commit is
  sent the start has left the queue: the writer is at work on this upload
  (`OwnWriter`). A commit of an earlier upload is either `Lost`, to be refused by a
  writer that has failed, or not there (`NoStrayCommit`).
- `NeverStrandedHolds`, for hosts whose commits have a payload (`claim_bare_commit`
  shows that this is needed), and `AnswerNearsHolds`, without any condition: the
  safety half of `CommitAnswered`. The commit of a host that waits is the last
  request in the queue, in the writer's hands, or carried out or refused
  (`CommitComes`), and each step of the writer decreases the work before it (`Work`). That the writer
  takes its steps, and hence the end of the wait, is for TLC.

`FirmwareSlotsProofs` proves `ImplementsSlotsHolds`, if `Patient`: hosts wait for the
running image's confirmation, let an update that has been committed be applied
before they begin the next, and are `Accountable`. Early commits, dropped blocks,
resends without either, damage, aborts, restarts, commits without a payload, resets
and failing flash are allowed, more than the run tries at once. `SlotsInv` says that
the running image is always whole (`Whole`), and that nothing is queued behind a
commit that will be carried out (`CommitsLast`), so that nobody touches a staged
image (`StagedIsFinal`); a commit that was sent too early, or behind a block that was
dropped, is `Refused`, because the requests before it cannot complete the writer's
count (`Counting`). Each condition is needed, by counterexamples of TLC: an upload begun after a commit (`Again`) erases what was
staged, one before the confirmation (`Unconfirmed`) erases the fallback, and
resends, or dropped starts, stage a hole together with early commits or dropped
blocks (dropped starts alone do not; the theorem excludes them all the same). What
remains in those cases is `Recoverable`, under its own condition.

`ConfigStoreProofs`, for all settings, values, ports and capacities satisfying
`ConfigAssumption`:

- `TypeCorrect`.
- `FlashCatchesUpHolds`. The property is inductive for each key on its own once
  it is known which tasks can have events before the load; the proof follows
  the last event for a key from the setter through the channel to flash. After the
  load it holds of the keys that were read and not written before.
- `UsbFollowsRailHolds`, by an invariant that names the place of the machine's
  last USB event: with the machine, on the channel, with the task, or done.

`RegistersProofs`, for the same constants, proves the refinement of
`DurableRegisters`:

- `ImplementsRegistersHolds`. The mapping selects the writes among the events in
  flight by a recursive function (`Writes`). What it yields for a sequence with one
  event more at its end, or one less at its head, is proved by induction over the
  length; as an induction theorem with a predicate parameter cannot be used here,
  `Induction` is about a set of numbers and comes from the well-foundedness of `<`.
  Sending and receiving are then stutters, storing is `Save` of the head, a port's
  event is none of the registers' business, and a reset empties the sequence.

`TaskSystemProofs`, for all capacities satisfying `CapacityAssumption`:

- `TypeCorrect`.
- `CirclesHoldInputsHolds`. Every `todo` is a rest of one of the code's sequences
  (`Programs`). Whoever keeps `RUNTIME_CONFIG` is the I2C task and sends to the
  configuration task next (`SettingHeld`), which in turn waits for nothing but
  `INPUTS` (`Chained`); the output task waits for nobody and only `INPUTS` and the
  two channels of the machine and the LEDs remain to close a circle.
- `NobodyWaitsForItselfHolds`. What a task has ahead of it is `Balanced`: behind
  every operation that takes a mutex comes one that frees it before the mutex is
  asked for again, and the rest of it does so for the mutexes held
  (`LocksReturned`). Sequences put together keep this (`BalancedConcat`), as does
  each completed operation. No task's operations send to the channel it drains.

`LedBlinkerProofs`, for all states, overrides, brightnesses and room satisfying
`ConstantsAssumption`:

- `TypeCorrect`: with `interpolate` bounded, no component leaves its width, and
  what remains of a fade does not exceed its length.
- `LedsFollowHolds`: the last pattern and the last brightness among LED task,
  queue and sender are those of the state, or alarm, and of the setting.
- `FadesAreSmoothHolds`: truncated interpolation is monotone in the elapsed time
  and stays between its ends, whatever the signs.
- `StrayIsAloneHolds`, the safety half of `StrayOverridesEnd`. An override behind the
  last pattern was checked before the state was recorded; the I2C task handles one
  command at a time, so there is one such command at most, it is on the channel or
  with the sender and not both, and once it is shown there is none to follow.

Only model-checked: the eleven properties that say what eventually happens
(`StopEnds`, `CmLossCutsPower`, `HungHostHandled`, `BlackoutRestarts`, `CommitAnswered`,
`BadImageReverted`, `PreparingEnds`, `WriteSaved`, `MachineAlive`, `SilenceEnds`,
`StrayOverridesEnd`), since liveness under fairness is out of the prover's reach. For
some of them a theorem proves the safety half: `NotOverstayed` bounds the waits of
`StopEnds`, `CmEdgeTracked` is why `CmLossCutsPower` sees the loss, `NeverStranded` and
`AnswerNears` belong to `CommitAnswered`, `ImplementsRegisters` to `WriteSaved`,
`CirclesHoldInputs` and `NobodyWaitsForItself` to `MachineAlive`, `StrayIsAlone` to
`StrayOverridesEnd`. Every invariant, action property and refinement of a passing run
has a theorem. Nothing is assumed beyond the assumptions on the constants and the
conditions that a theorem states.

## Not modelled

Voltages, averaging and correction scales (VIN and the supercap are their
comparisons with the thresholds); the drawing of LED patterns, gamma and
blending; the timing of the button pulses; the scaling of registers; the copy of
the watchdog timeout that 0x12 reads back. The peripheral I2C task, pattern
tables, packaging and scripts decide nothing.

## Plan

1. `PowerStateMachine`, `PowerSupervisor`, `FirmwareUpdate`, `FirmwareSlots`,
   `ConfigStore`, `DurableRegisters`, `TaskSystem` and `LedBlinker` with their
   runs and theorems: done.
2. Theorems of every safety property and of the three refinements, about uploads
   also with resent blocks: done.
3. Models not yet begun: the levels and times of the button's pulses with the
   edges that are lost between them; the host's copy of the watchdog timeout; a
   composition of the DFU queue with the host watchdog, for pings that stop while
   the I2C task waits for the writer.
4. No theorem in sight: a bound on how long a hung host stays powered. A host that
   hangs during a blackout comes back to `OperationalCoOp` with an old ping, so
   that no bound on its age is invariant, and `HungHostHandled` stays a liveness
   property.
