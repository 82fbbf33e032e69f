# TLA+ models of esp32-ppp-cmux

The firmware of this repository brings a SIM800 modem up over one UART,
switches it to the 3GPP TS 27.010 multiplexer (CMUX), and runs AT status
queries on DLC1 and PPP on DLC2 next to each other. This directory holds TLA+
modules of the parts of it that can be modelled, TLC configurations that check
them on small instances, and TLAPS proofs of what holds for every value of
their constants. `PROJECT.json` lists the runs, the lines of code behind each
definition, the hazards the properties are for, and the theorems.

Paths below are relative to the repository; `cmux/` is
`firmware/src/cmux/`, `core/` is `cmux-core/src/`.

## 1. The system

| Component | State | Operations | Interacts with |
|---|---|---|---|
| Wire format (`core/address.rs`, `control.rs`, `fcs.rs`, encoder of `frame.rs`) | none | `to_byte`, `from_byte`, `from_ctrl`, `to_ctrl`, `fcs`, `check`, `encode` | called by the decoder and by `tx_task` |
| Frame decoder (`core/frame.rs`) | seven-state machine, three header octets, info buffer of 127 | `feed(byte)` | fed by the dispatcher |
| DLC FSM (`core/state.rs`) | none (a transition function) | `on_sabm_sent`, `on_ua_received`, ... | nothing: the firmware never calls it |
| `start`, `open_dlc` (`cmux/mod.rs`) | DLC and attempt of the main task | SABM with 3 attempts of 2 s for DLC0, 1, 2 | puts SABMs in the TX queue, takes events from the control queue |
| Dispatcher (`cmux/dispatcher.rs`) | decoder, RX pipes (512 B, 4096 B), control queue (8) | one frame at a time: `write_all` into a pipe (blocks), `try_send` of an event (drops) | modem, `open_dlc`, readers |
| TX task, `DlcChannel` (`cmux/tx.rs`, `channel.rs`) | TX queue (16), chunks of a `write` not yet queued | `write` in chunks of 127, `read`, `tx_task` | writers of DLC1 and DLC2, `open_dlc`, UART |
| AT bring-up (`modem/bringup.rs`) | position in the command script, line reader with its leftover | `raw_at_init`, `start_ppp`, waiting loops | modem over the raw UART, then over DLC2 |
| Boot (`main.rs`), power (`power/`) | three GPIOs, order of the steps | power on if not alive, bring-up, drain, spawns, `idle_panic_loop` | everything, once a reset |
| Buffered DLC2 (`net/buffered.rs`) | 256-byte buffer | `fill_buf`, `consume`, `read` | pipe of DLC2, PPP runner |
| Status task (`app/status.rs`) | 256-byte accumulator of a poll | drain, `poll`, pauses | DLC1 |
| MQTT task (`app/mqtt.rs`) | where its session is | `run_session`, pause, idle loop | IP stack |
| IP glue, config, logging, build | none of its own that changes | | libraries |

The tasks run on one cooperative executor: a task is interrupted only at an
`await`, so a step of a model is what a task does between two of them. They
share nothing but the bounded queues and pipes. Hard here are: answers that
come after their timeout, retransmissions, stale events and stale lines,
queues and pipes at their limit (one blocks, another drops), partial reads and
writes, frames lost on a UART without flow control, and octets left in the
decoder by broken frames.

What makes each part correct:

* *Wire format*: the parsers invert the encoder; the table computes the
  polynomial of the standard; a header with a few wrong bits is refused.
* *Decoder*: no byte stream makes it panic or overflow; what it delivers is
  what was on the wire; it never holds more than a frame.
* *start/open_dlc*: what it reports is true of the modem; DLCs open in order;
  it returns; a few losses do not make it fail.
* *Dispatcher, TX, DlcChannel*: each direction of a data DLC is a FIFO of
  bytes, whatever happens on the other DLC; no control event is dropped.
* *AT bring-up*: each command reads its own answer; `Ok` means the modem is in
  CMUX mode; `NotRegistered` means it is not registered; it returns.
* *start_ppp, Buffered DLC2*: the PPP runner gets what the modem sends after
  CONNECT, in order and complete but for what the UART loses; `start_ppp()` gives
  up only on a modem that refuses or is late, on a line it cannot read, after a
  lost frame, or with DLC1 full.
* *Status task*: a poll ends with its own answer; it never stops reading DLC1,
  as the dispatcher would then stop for DLC2 too.
* *Boot, power, MQTT task*: a running modem is left running; a boot in which
  nothing fails brings up a modem that is off or answers; no boot and no session
  hangs.

## 2. Modules

### Wire format and decoder

* `CmuxWire`: the pure functions as operators on numbers; masks and shifts are
  arithmetic on bits. `shifted` builds the FCS table as `build_table` does.
* `HeaderNoise`: a header and its FCS cross a line that flips bits one by one.
  `Remainder` is long division by x^8 + x^2 + x + 1, the reference for the table.
  `HeaderNoise_proofs`.
* `WireLemmas`: what the operators of `CmuxWire` compute, for every byte; the two
  proof modules of this part rest on it.
* `FrameDecoder`: one action for each arm of `feed`; `result` is what the last
  call returned; the history variable `taken` holds the bytes since the opening
  flag. `MCFrameDecoder` bounds the bytes for TLC. `FrameDecoder_proofs`.

### CMUX runtime

* `CmuxTypes`: frames, requests, events and the six constants of the firmware. A
  payload byte is its number in the stream of its DLC. `Payload` is what a queue
  of frames carries for one DLC.
* `OpenDlc`: the main task. Draining the control queue, queueing the SABM and
  starting to wait are one step, with the event or timeout that led there, as
  there is no `await` between them; a full TX queue splits the step (`sending`).
* `TxTask`: `write()` chunk by chunk, the queue, `tx_task`. A request leaves the
  queue when the task takes it (`sending`), before its frame is on the line.
* `Dispatcher`: `pending` is the part of a payload that `write_all` has not yet
  put in its pipe; while there is one the dispatcher takes no frame.
* `ModemMux`: the modem, external: it answers SABMs, takes and sends data, and
  sends up to `MaxStrays` frames nobody asked for.
* `CmuxRuntime`: all of these over a line that loses frames in both directions,
  with the properties and the inductive invariant `IInv`.
  `CmuxRuntime_proofs`.
* `DlcStream`: the abstract specification of a direction of a DLC: a FIFO of
  bytes. Each fault robs it of one run of consecutive bytes or of none.
* `MCRuntime`: counts the faults (a frame lost, an answer that comes after the
  timeout), records which UAs arrived while they were awaited, and states the
  refinement of `DlcStream`: the abstract FIFO of the receiving direction is the
  pipe, then what is pending, then the frames on the line; of the sending
  direction the line, the frame being sent, the queue, then what `write()` still
  holds.
* `StreamLemmas`: what `FlattenSeq` and `Payload` do to a concatenation. The proofs
  of `MCRuntime`'s properties are in `CmuxRuntime_proofs` too.

The line carries whole frames here, and loses whole frames: to a UART error, to an
overrun (while the dispatcher is blocked on a full pipe nobody empties the UART,
and there is no flow control), or because the decoder refuses the header. A wrong
byte of the info is not noticed, as the FCS is over the header alone
(`frame.rs:232`): such a payload arrives damaged, which the models of whole frames
leave out. `Link` supports the rest: outside `RESYNC` bytes after a fault, every
frame is delivered intact. Inside that stretch the decoder may also deliver what
is no frame of the modem's; the runtime has no such frames but for the
`MaxStrays` control frames.

### The line

* `Link`: extends `FrameDecoder` with the encoder of the modem and a UART that
  loses, damages or inserts bytes. `dispatcher_task` logs a UART error and goes
  on, so the decoder resynchronises on its own or not at all. `Traffic` is any
  sequence of frames, FLAG octets in their payloads included: basic mode has no byte
  stuffing. `TrafficAssumption` leaves out only DLC 62, whose address octet is itself
  a FLAG. `clean` counts the bytes since the last fault or inner FLAG
  (`FlagInside`) up to `RESYNC`; `due` says, from the opening flag of the first frame
  that comes late enough on and until the next fault, that every frame has to
  arrive. `MCLink` gives the traffic of the run; the proofs are in
  `FrameDecoder_proofs`.

### AT bring-up

* `AtIo`: `read_line`, with the leftover between two calls and what a cancelled
  call loses. The body of a line and its end are separate pieces.
* `RawAtInit`: the commands in program order (`Script`) and, for each kind of
  step, how its answer is read and what follows. The pauses between commands are
  the time other actions may take.
* `ModemAt`: the modem, external: it answers commands in order, fails or ignores
  them, reboots on `AT+CFUN=1,1` (`"AT+CFUN=1"` in the model) and reports events
  unasked. Of these it has the ones that some step reacts to: the registration,
  and "+CPIN: READY" (`"READY"`) once it has rebooted. RDY and Call Ready,
  and the READY of a boot before that command, are read past by every command that
  may meet them and are left out. It loses its registration only by that command:
  `RegistrationIsReal` is about what the code reads, not about a network that goes
  away afterwards.
* `AtSession`: the two together and the properties. `MCAtSession`: a modem that
  answers in time but for a counted number of faults. `AtSession_proofs`.

Every answer carries the number of its command (`of`), which the code cannot
see: this is what the properties compare. `behind` counts the commands given up
before the line that ends their answer, by a timeout, a UART error, or
`wait_for_response()` as it sees READY, since the drain last ended with nothing
under way. `AnswersLagByFaults` says that this is how far answers can lag.

### Data mode

* `StartPpp`: `start_ppp()` with the line reader of `AtIo` over the pipe of DLC2;
  the reader, and what it has read beyond CONNECT, is dropped on return. A line that
  is not UTF-8, and PPP bytes that fill the line buffer, end it with `Err(Io)`
  (`ReadFails`); PPP counts as such at once, although the buffer takes some bytes.
* `BufferedDlc`: `fill_buf`, `consume` and `read` over the same pipe.
* `StatusTask`: drain, polls, accumulator and deadline over the pipe of DLC1.
* `DataMode`: the three behind one dispatcher (`Dispatcher` once more), with a
  modem that answers, sends PPP frames and unasked lines, some of them no text.
  `ppp_task` may come to an end, and then nobody reads DLC2. `Lose` takes any frame
  of the modem, a status command or AT+CGDATA; it needs no blocked dispatcher, so it
  covers every overrun and every UART error. A timeout that expires although the
  answer is on its way is a fault, unless the dispatcher is blocked, when it is
  nobody's: `Fault` and `Lose` are what `faults` and `lost` count. Data mode refines
  `DlcStream` from the modem to the PPP runner; a lost frame is one fault of that
  stream, and so is the hand-over at CONNECT. `DataMode_proofs`.

### Boot

* `MqttTask`: `mqtt_task` and the steps of `run_session`, each of which may fail.
* `Boot`: `main()` from reset to the running tasks, `power_on_if_needed`, the
  probe, and a modem that outlives resets of the ESP32. `raw_at_init`,
  `cmux::start` and `start_ppp` are one step each, as the modules above say when
  they succeed. A crash (brown-out, watchdog) may come between any two steps, in
  the middle of a pulse, and in the middle of `raw_at_init`, where it leaves the
  modem as it was, rebooting, or in CMUX mode. `runner` is `ppp_task`: it may
  configure the stack or not, and end at any time, after which nothing starts it
  again and no session gets anywhere. `left` is how the last reset found the modem.
  `Boot_proofs`.

## 3. Runs

| Run | Question | Instance |
|---|---|---|
| `codec` | Do table, parsers and check do what the standard asks? | DLCI 1 and 63, all kinds, roles and P/F, lengths 0 and 127; all patterns of up to three flipped bits |
| `decoder` | Can any byte stream break the decoder? | 11 bytes that make valid frames, wrong ones and flags in every position; info bytes after the first are one value |
| `link` | When is the decoder in step again, and does a payload put it out of step? | 17 frames over and over, UAs and data frames, one with a FLAG in its payload; a byte lost, damaged or inserted anywhere |
| `bring_up` | Is what `start()` reports true, are the DLCs opened in order, has every answer room, does it return? | 2 attempts for each DLC, a TX queue of 1 so that the send blocks, a control queue of 4, 1 stray frame, a byte each way, any number of losses, a modem that may refuse or stay silent |
| `rx_stream` | Does it open despite faults; is the receiving direction a FIFO that delivers everything? | the 3 attempts of the firmware, 2 faults, 3 bytes on the data DLCs together, pipes of 1 and 2 bytes |
| `tx_stream` | The same for the sending direction | 7 bytes on the data DLCs together, frames of 2, a TX queue of 2, 1 fault |
| `sabm_timeout_honest` | Is `SabmTimeout(d)` what its doc says? | refuted, see section 6 |
| `at_init` | Are answers and commands in step where it matters; does `raw_at_init()` return? | 2 tries, 1 round of each waiting loop after its first, a PIN, 1 event unasked, 1 fault anywhere |
| `cmux_acknowledged` | Is `Ok` what its doc says? | refuted, see section 6 |
| `data_mode` | Why may `start_ppp()` and a poll give up, how far do polls lag, is PPP a stream that keeps flowing? | pipes of 1 and 2, PPP frames of 2, a buffer of 1, an accumulator of 3, 3 bytes of PPP, 1 unasked frame, 1 answer late or 1 frame lost |
| `boot` | Does a boot in which nothing fails come up, how often must someone press reset, does anything hang? | 2 crashes, 2 faults, a supply that may drop with the gate, a runner that may end |
| `reboot_spares_modem` | Does a reboot leave a running modem on? | refuted, see section 6 |

Why the bounds are enough:

* In `bring_up` two attempts make every retry, stale answer and blocked send happen.
  The depth of its control queue is the sum of section 5's
  `ControlQueueAssumption` (2 * 2 - 1 + 1), which is tight: a queue of 3 drops an event.
  `rx_stream` and `sabm_timeout_honest` have the
  three attempts of the firmware, and the theorems of section 5 have every
  number of attempts, every depth and every `MaxStrays` that the queue has room for.
* `OpensDespiteFaults` is about fewer than `SABM_RETRIES` faults, so two are as many as
  matter to it with three attempts; its proof has any number of both.
* Bytes are numbered, so a stream property can only break between bytes that
  meet: pipes that hold less than a payload and a queue shorter than a write make
  every split, block and resumption happen.
* The decoder's info bytes are only stored, so a second value for the first
  shows where it ends up. Its proofs hold for all bytes.
* In `link`, `RESYNC` = 131 is tight: with 130 the run fails. Noise can pass for an
  address, a control and a length octet that promises 127 bytes, and the FCS comes
  after those. The traffic's info passes for such octets too, and a UA and a data
  frame together are as long as it takes for the stretch to end right at a flag. An
  inner FLAG restarts the count only for a decoder that is out of step: nothing
  bounds how long it may stay so if the payloads hold one more often than every
  131 bytes. Once in step it stays in step, whatever they hold. Section 5 has any
  traffic and any number of faults.
* In the AT script the commands differ only in their kind and in what the modem
  does for them. The second round of a loop already meets what the first left
  behind; the deadline of 180 s is the bound `Rounds`, and five tries of
  `AT` are two (`cmux_acknowledged` has the five). The theorems of section 5 have
  any number of tries, rounds, events and faults, with a PIN and without.
* In `data_mode` the answers on DLC1 do not fit its pipe, so the dispatcher blocks on
  each of them; the PPP bytes make two frames, of 2 and 1, so that either may be lost
  and the other must still arrive, and together they do not fit the pipe of DLC2, so
  that it blocks when the runner has ended. A buffer of 1 is emptied by each
  `consume`; `DataModePppIsStream` has the longer ones. Commands are numbered modulo
  3, and lags of up to 1 are told apart from those above. No more than
  `MaxFaults + 1` commands can be owed, so `MaxOwed` keeps nothing out. `MaxFaults`
  bounds what is late and what is lost together. `MaxLine` is no flow control: the
  frame that waits behind a blocked dispatcher may be lost and the next one sent.
  The proofs of section 5 have any number of frames on the line, faults and losses.
* Two crashes and two faults in `boot` meet in every order and at every step; its
  proofs drop both bounds.

`MaxRxBytes`, `MaxTxBytes`, `MaxStrays`, `MaxUrcs`, `MaxPpp`, `MaxOwed`, `MaxLine`, `Numbering`,
`MaxFaults`, `MaxFlips`, `MaxCrashes` and `Rounds` are the bounds; they stand in guards, and
`MaxStrays` in `ControlQueueAssumption` too.

## 4. Fairness

* `FairSpec` of `CmuxRuntime`: the executor polls every task that is ready, so the
  main task, `tx_task` and the dispatcher take a step they can take for good;
  the timer of `with_timeout` expires. Nothing is assumed of modem and line:
  `StartTerminates` holds with a silent modem.
* `MCFairSpec` of `MCRuntime` adds that the modem answers, and that both data DLCs
  have a reader and that a blocked `write()` gets its turn (an embassy
  channel wakes its senders). `RxDelivered` needs the readers: with a full DLC1
  pipe and no reader the dispatcher delivers nothing on DLC2 either. The two
  readers exist once `status_task` and `ppp_task` run; `data_mode` checks this
  with the tasks themselves.
* `MCFairSpec` of `MCAtSession`: the main task is polled, timers expire, and the
  modem answers each command or will not. Events unasked are few there
  (`MaxUrcs`): each line restarts the timeout, so an endless stream of them would
  keep a command from ending.
* `FairSpec` of `DataMode`: `ppp_task`, `status_task` and the dispatcher are polled,
  timers expire, and the modem answers the status commands it gets. Nothing makes
  it answer AT+CGDATA, send PPP or end the runner, and `PppFlows` begins when
  `start_ppp()` has succeeded.
* `FairSpec` of `Boot`: `main()` and `mqtt_task` are polled, a modem that boots gets
  through it, and a step of a session comes to its end, in success or in failure:
  a DNS query has its timeouts and the socket its 15 s (`mqtt.rs`). The TLS handshake
  has no limit of its own and waits as long as its peer is silent, and
  `wait_config_up()` waits for an address that need not come: neither is assumed to
  end. Nor is it assumed that someone presses the button, that IPCP gets through,
  that the runner stays, or that any step of any session succeeds.

## 5. What is proved

Every safety property of a passing run is proved, for every value of the constants
that meets the assumptions named here.

`WireLemmas`, for all bytes. A byte is the function of its eight bits (`BitsOfByte`,
`SameBits`), and `Xor` adds them bit by bit modulo two, which gives its laws
(`XorLaws`). An entry of the table is eight times `Shift`, a linear and injective
map, so the table is linear and injective too (`TableXor`, `TableInjective`), and
only 0xFF leads to 0xCF:

* `CheckAcceptsOnlyFcs`: `check` accepts for each header one octet, the one `fcs`
  computes.
* `AddressRoundTrip`, `ControlRoundTrip` and their converses, and `FrameOctets`, what
  `encode` writes, are the lemmas the next two modules need.

The recursive functions there have few arguments. The library's induction theorems
take an operator as a parameter and are of no use, so `Recursion` builds a function
with each of the first `N` equations from the one with `N - 1`, for `N` up to 24.

`HeaderNoise_proofs`, for every DLCI, role, kind, P/F bit and length:

* `HeaderSurvivesTheWire`: `HeaderRoundTrip`. `FcsIsRemainder`:
  `FcsIsPolynomialRemainder`, from `TableDividesByPolynomial`, which has any three
  octets. `Window` relates the two algorithms: before division step `k` the next
  eight coefficients are the bits of the CRC register, reversed, and added to those
  not yet read.
* `CheckDetectsThreeFlips`: `CheckDetectsFlips`, for `MaxFlips <= 3`. A flipped bit adds
  to the residue the shift of 1 that its place stands for (`FlipResidue`). The 32
  shifts differ from each other and from 0 (`ShiftsDiffer`), which finds one flip and
  two. Three are found as the polynomial is divisible by x + 1, so that a shift never
  changes the parity (`ParityShift`): `CheckDetectsOddFlips` has any odd number. Four can
  go unnoticed, as the polynomial has four terms.

`FrameDecoder_proofs`, for every set `Bytes` of bytes that may arrive:

* `DecoderInvariant`: `IInv` holds. It adds to the properties what the registers
  mean in each state: in `Len`, say, two bytes were taken, they are `addr` and
  `ctrl`, and both parse (`Registers`, `KeepsHeader`). Without this nothing
  relates the octets the decoder kept to those on the wire, as a reset leaves
  them in place.
* `DecoderTypeOK`, `DecoderNeverFails` (the `expect` calls),
  `InfoBufferNeverOverflows` (the ignored `push` result),
  `DecoderDeliversWireFrames` and `DecoderIsBounded` follow from it.
* `DecoderInvertsEncoder`: `DeliveredReencodes`, from the invariant and `WireLemmas`.
* `DecoderResyncs`, an action property: `Resync` of `Link`, for any traffic, payloads
  with FLAGs included, and any number of faults. `TrafficAssumption` asks only that
  infos are no longer than 127 and that no address octet is a FLAG (DLC 62).
  `Traffic` goes round, but a counterexample would be finite, so nothing is lost
  against any other stream of frames. `LinkInv` says that the decoder is `InStep`
  with the frame on the line or
  `Astray`: waiting for a FLAG, or so few bytes after the fault that the frame it
  believes in is not over. Each byte makes the frame it believes in shorter by one. A FLAG met
  while waiting begins a frame: around a frame that puts the decoder in step, and
  inside one it starts a false frame, which is why it starts the count anew. With
  `RESYNC` clean bytes nothing but waiting is left, and the next FLAG opens a frame.
  A decoder `InStep` counts info bytes and never looks for a FLAG among them, so `due`
  outlives all inner FLAGs.

`CmuxRuntime_proofs`, for all queue depths, pipe sizes, payload lengths, retries
and bounds that meet `RuntimeAssumption` (positive sizes) and
`ControlQueueAssumption` (`CTRL_QUEUE_DEPTH >= 2 * SABM_RETRIES - 1 + MaxStrays`):

* `RuntimeTypeOK` and `RuntimeInvariant`: `IInv` holds. `OpenedIsAccepted` is not
  inductive: a UA may be on its way for long. `AnswersAreTrue` says that every
  UA and DM on the line or in the queue stands for what the modem did,
  `SabmsInOrder` that no SABM anywhere is for a DLC beyond the one being opened.
* `OpenedDlcsAreAccepted`, `DlcsAreAcceptedInOrder`, `RejectedDlcIsRefused`.
* `ControlQueueHasRoom`: `emit()` drops nothing. `OutstandingBound` counts the SABMs
  not answered and the answers not handled, in both queues and on both lines:
  what the DLC opened last left behind, at most `SABM_RETRIES - 1`, and one for each
  attempt at the current one. That the DLCs before leave nothing is due to the
  order: `AnswersInTurn` says that requests, SABMs, answers and events overtake
  nothing on their way round, so that from any SABM or UA of the DLC being opened
  on there are only its own attempts and stray frames. When its UA is read, the
  leftovers of the DLC before have been read, too. With 3 retries that is 5, and
  8 places leave room for three frames nobody asked for. Nobody reads the queue
  after `start()` has returned, so unsolicited frames do fill it in the end, and
  `emit()` drops what follows.

`Boot_proofs`, for any number of crashes and faults and either kind of supply
(`BootAssumption`):

* `BootInvariant` and `BootTypeOK`: `IInv` holds. `ResetsAreBounded` is not inductive: a
  boot that finds the modem in CMUX mode has not failed yet, but will.
  `ResetsToCome` reads from where `main()` is and what the modem does how often
  the button will still have to be pressed, and the invariant pays for the
  presses spent and those to come with the crashes (one each) and the failed
  steps (two each: one to switch off a modem left in CMUX mode, one to switch it
  on).
* `BootResetsAreBounded`, and `BootCleanBoot`: `CleanBoot`. The invariant follows a
  clean boot from the reset on. The modem was found off or in AT mode, and may lose its
  supply while the gate is low, so it is off or in AT mode at the probe, off at the
  pulse, and booting or in AT mode from then on.

`StreamLemmas`, for all sequences: `FlattenSeq(s \o t) = FlattenSeq(s) \o
FlattenSeq(t)`, and so what a queue carries for a DLC is what its parts carry.
`FlattenSeq` is recursive, and the library's induction theorems, which take a
predicate as a parameter, are of no use here. `SetInduction` puts a set in
its place: if `S` holds 0 and with each number the next, a number `x` outside
`S` would make `i -> i + 1` an injection of the numbers of `S` below `x`
into themselves that misses 0, and a finite set has none.

`CmuxRuntime_proofs` on `MCRuntime`, for all queue depths, pipe sizes, payload lengths and
numbers of faults (`RuntimeAssumption`, `BoundsAssumption`; the depth of the
control queue does not matter):

* `RuntimeRxIsStream` and `RuntimeTxIsStream`: `RxIsStream` and `TxIsStream`. Every
  step of the runtime is, for each data DLC and each direction, a `Put`, a `Get`, a
  `Lose` or a stutter of `DlcStream`. The invariant is `TypeOK` with
  `OnlyUihCarries`: no other frame or request has a payload, so that answering,
  refusing or dropping them costs a stream nothing, and `tx_task` holds one frame
  at a time. These are the safety part of the refinement; that bytes do arrive
  is liveness, and stays with `rx_stream` and `tx_stream`.

and with `ControlQueueAssumption`:

* `RuntimeOpensDespiteFaults`: `start()` returns `SabmTimeout` only after
  `SABM_RETRIES` faults or frames nobody asked for. The invariant `Paid` gives
  each attempt given up, and each SABM, answer or event that is not of the
  attempts in progress, a fault or a stray frame of its own. It counts them in all
  five places they can be: queue, frame being sent, line there, line back, control
  queue. An attempt ends without its UA by a timeout, which is a fault or follows the
  loss of its SABM or its answer, or by an event of something else, which is
  thereby gone and leaves what paid for it to the attempt.

`DataMode_proofs`, for all buffer and pipe sizes, numberings and bounds
(`DataModeAssumption`: what holds bytes has room for one, and an accumulator
may be empty):

* `DataModeTypeOK`: also that no pipe, buffer or accumulator holds more than it can.
* `DataModeStartPpp`: `StartPppIsExplained`, for each of the four ways in which
  `start_ppp()` returns. `Waiting` says what may still be on its way to it in each
  state of the modem: at most one line that is no result, perhaps no text either,
  then the result of the dial command, then PPP, which it meets only if the frame
  with CONNECT was lost. `garbled` and `lost` remember what no longer is on its way.
* `DataModePollLags` and `DataModePollTimeouts`: `PollLagsByTimeouts` and
  `PollTimeoutIsExplained`. `StatusInv` looks at the polls that are not yet
  answered, those whose answer is under way before those the modem has not come
  to: they are numbered as they were sent (`Fresh`), with gaps no wider than what
  was lost, no more than the answers late and the poll in progress, and the poll's own
  number is among them as long as nothing of its answer was dropped, read or lost
  (`robbed`). `LineInv` gives the lines of one frame to one answer, so that a lost
  frame widens one gap by one.
* `DataModePppIsStream`: `PppIsStream`, step by step as above, for any number of lost
  frames. The FIFO is what `start_ppp()` holds, the pipe, the rest of a payload and
  the line, after CONNECT the buffer in place of what it held (`Way`). Losing the
  first frame on the line is a `Lose` of its PPP bytes.

`AtSession_proofs`, for any number of tries, rounds, events and faults, with a PIN and
without (`AtAssumption`, `UrcsAssumption`, `FaultsAssumption`). The first two
are about any modem, one that answers late or never included:

* `AtSessionTypeOK`: `SessionShape` adds to it that every line on its way is followed by
  its end, and that the pass through a loop has not gone further than its kind of
  step allows.
* `AtSessionRegistrationIsReal`: `RegistrationIsReal`. It does not follow from
  answers in step, as they need not be. The argument is the reboot: only
  `AT+CFUN=1,1` takes a registration back, a READY comes only after it, and
  nothing past the wait for READY sends it again. `RegShape` follows that
  command from where it is sent, past the modem, to the READY in what is still
  to be read; from then on every report of a network is of one the modem is on.
* `AtSessionAnswersLag`, an action property: `AnswersLagByFaults`. `LagShape` says
  that the lines that end answers are numbered in ascending order, before the
  commands the modem has not come to, and none lies further back than `behind`.
  An earlier form counted the faults since the drain alone; TLC did not refute it
  with its one fault, but it is not inductive, and with more faults it is false: a
  command given up before the drain, and answered after it, counts too if the drain
  ends with its answer under way.
* `AtSessionCmuxAcknowledged`: `CmuxAcknowledgedInStep`. With `behind = 0` the OK
  that ends `AT+CMUX` bears its number, and an OK of that number means that the
  modem is in CMUX mode (`AckShape`).
* `AtSessionNotRegistered`: `NotRegisteredInStep`. In step, a registration the modem
  has told of in this round is in `registered` already, or the report is still to be
  read with its OK right behind it, or has been read up to that OK (`ToldShape`).

The proofs go by one step for each action and, under it, one for each conjunct
the action can disturb. In `DataMode_proofs` and `AtSession_proofs` each action
first gets a lemma that says what it does to the variables, with the modules it is
composed of unfolded; the steps of the invariants cite these lemmas. What
`CountIn`, `Cat`, a cut or an appended item do to a queue are lemmas.

Model-checked only:

* All liveness (`StartTerminates`, `RxDelivered`, `TxDelivered`, `RawAtInitReturns`,
  `PppFlows`, `Settles`): liveness under fairness and `ENABLED` are out of the
  prover's reach.

No module with a theorem reaches a RECURSIVE operator; recursive definitions are
functions.

## 6. Where code and documentation differ

* `cmux/mod.rs:91`, run `sabm_timeout_honest`. A late UA of the DLC opened before
  counts as an attempt of the next one, and the drain before the following
  attempt throws away the UA that came in behind it. Two more late answers and
  `start()` returns `SabmTimeout(1)` although UA(1) was queued in time; its doc says
  the peer did not acknowledge. It takes three faults: `OpensDespiteFaults` shows
  that two never suffice.
* `modem/bringup.rs:120`, run `cmux_acknowledged`. The first OK read after `AT+CMUX`
  counts as its answer. If `AT+CGATT=1` was given up after 15 s and then succeeds,
  `raw_at_init()` returns before the modem has acknowledged CMUX mode.
* `main.rs:75`, run `reboot_spares_modem`. A modem in CMUX mode does not answer the
  bare `AT` of the probe, so a reset of the ESP32 after a complete bring-up takes it
  for switched off, and the pulse switches it off: the cycle that the comment at
  `main.rs:73` says is prevented. That boot then fails, and the next one, if someone
  presses the button, succeeds (`ResetsAreBounded`). The probe does prevent it as
  long as the modem was not yet in CMUX mode (`CleanBoot`).

Seen while modelling, without a run of their own:

* `README.md:115` speaks of "panic + reset on bring-up failure"; `idle_panic_loop()`
  (`main.rs:184`) never resets. `Boot` needs someone at the button.
* `bringup.rs:128` says that after CONNECT DLC2 is safe to hand to the PPP runner; what
  was read together with CONNECT is lost with the line reader. PPP retransmits
  its configure request, so this costs time only. `PppIsStream` shows that
  nothing else is lost but the frames that the UART loses.
* A late answer within the registration loop puts every query behind, and a
  registered modem is then reported `NotRegistered` (`NotRegisteredInStep` holds
  only with `behind = 0`).
* `status.rs` does not know "+CME ERROR", which `AT+CMEE=2` has switched on: such a
  poll times out after three seconds (a disjunct of `PollTimeoutIsExplained`).
* When the PPP runner comes to an end, `ppp_task` logs it and nobody reads DLC2: the
  dispatcher blocks on its pipe, and the polls on DLC1 time out for ever. Nothing
  starts the runner again, and `mqtt_task` then tries one session after the other in vain
  (`Settles` says that it does go on trying).
* The TLS handshake (`mqtt.rs:86`) has no timeout: `Settles` has to except it.
* `mqtt.rs:99` only logs a failed write and then idles.

## 7. Not modelled, and later work

Not modelled:

* `DlcState` (`core/state.rs`): nothing calls it; `open_dlc` keeps the state of a DLC in
  its control flow, which `OpenDlc` models.
* `power_on()` and `hardware_reset()` of `sim800.rs`, `TxReq::Disc`: never called or
  constructed. The registers of the IP5306, beyond the supply they keep up.
* `embassy-net`, `embassy-net-ppp`, `embedded-tls` and the HAL are libraries; of the glue to
  them only `ppp_task` as a reader and the address it configures are modelled.
* Configuration, logging and build scripts have no state that changes.

Later work:

* An abstract lossy frame channel that `Link` implements, with payloads damaged in
  their info and false frames within `RESYNC` bytes of a fault.
* A modem that loses its registration other than by AT+CFUN=1,1.
