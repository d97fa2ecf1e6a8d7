# Verification of the blastit controller

This directory holds TLA+ models of blastit, the OBD2 gauge panel on a Cyclone
III: Verilog for the peripherals (`src/FPGA/*.v`, put together in
`blastit_main.v`) and C for a Nios II processor
(`src/FPGA/software/controller/`).  TLC checks the models on small instances,
TLAPS proves theorems about all parts, for every value of their
constants: the FIFO, the UART port, the serial line bit by bit, the timers, the waits, the line reader, the session,
the PID decoder, the reset, the panel with its BCD converter, and the display tasks.

File names below are relative to `src/FPGA` for `.v` files and to
`src/FPGA/software/controller` for `.c` and `.h` files.

## 1. The system

| Part | Source | State | Operations | Talks to |
| --- | --- | --- | --- | --- |
| FIFO | `fifo.v` | array, two pointers, overflow, underflow | read, write, both, reset | UART |
| UART | `uart.v`, `edge_trigger.v` | two FIFOs, two edge triggers | one clock | line, driver |
| Transmitter, receiver | `uart_tx.v`, `uart_rx.v`, `parity_calculator.v` | state, tick count `s`, bit count `n`, shift register | one clock | FIFOs, the line |
| Divider | `mod_m_counter.v` | count, registered tick | one clock, reset | UART, timers, reset controller |
| Timer counters TC1-TC4 | `timer_counter.v`, `tick_counter.v` | divider, 24 bit count, overflow | one clock, reset | `tc_` driver |
| Reset controller | `reset_controller.v` | READY or RESET, setting, counter | request, count, end | processor |
| Register driver | `controller_system.c` | none of its own: registers | `uart1_`, `tc_`, `rc_`, `bcd_`, `sseg_`, `leds_`, `warn_`, `status_led_` | all peripherals |
| Line layer | `uart.c` | line buffer, `eol`, timeout | `uart_open`, `uart_close`, `uart_flush`, `uart_sendline`, `uart_readline` | driver, TC3 |
| OBD2 session | `obd2.c` | `obd2_state`, `ba_count`, `display_params` | `obd2_init`, `obd2_update`, `obd2_shutdown` | adapter, through the line layer |
| PID decoder | `obd2.c:315-540` | `pids`, `display_params` | `obd2_parse_pid_response` | session |
| Event loop | `controller.c` | the tick and the frame counter | `wait_tick`, `is_frame`, `coroutine_entry`, `shutdown` | session, display |
| BCD converter | `bin2bcd.v` | state, bits to come, shift register, digits | start, one clock, reset | `bcd_convert` |
| LED bars | `led_matrix.v`, `pwm.v`, selector in `blastit_main.v` | LEDs that are lit, scan position, whose turn it is | write, one clock, reset | `leds_` driver |
| Digits | `sseg_array.v`, `sseg.v` | encoded digits, scan position | write, one clock, reset | `sseg_` driver |
| Display tasks | `display.c` | task list, blinkers, warnings | `display_init`, `display_update` | `display_params`, driver |
| Test | `test.c` | pass count | `test` | driver |

A byte from the adapter goes through the line, the receiver, the receive FIFO,
`uart1_rx`, the buffer of `uart_readline`, `obd2_update` and the decoder into
`display_params`, which the display tasks read every frame.  A command takes the
way back.  There are two kinds of concurrency: every peripheral runs at 50 MHz
beside the processor, which polls its registers, and the adapter answers when
it likes.  The firmware itself has one thread and no interrupt handler.

What is hard about it:

- the processor's accesses fall anywhere between the edges of the hardware, and
  one write pulse lasts many clocks;
- two UARTs have clocks of their own;
- counters wrap, in C at another width than in Verilog;
- the line reader is called again and again with what an earlier call left;
- timeouts race with late answers, and the protocol carries no tags by which an
  answer could be matched with its request;
- a reset stops the processor that asked for it.

`controller.h:13` defines `TEST`: the build as committed runs `test` of `test.c` instead
of the event loop.  `Panel` models that program on the hardware of the panel.
`Obd2`, `Readline` and `Display` are of the event loop and of what it calls, that is
of the build without `TEST`; the other modules are of both.

### What makes each part correct

- FIFO: a bounded queue; flags only for real over- and underflow.
- UART and driver: each byte passed on once and in order; a flush returns when
  everything is sent.
- Serial line: each byte arrives as sent, no error is reported on an undisturbed
  line.
- Timers: counter, divider and flag tell the time since the reset.
- Waiting: not too short, not too long, and it ends.
- Line reader: bytes are neither lost, repeated nor mixed up between lines; the
  result code tells what happened; each call returns.
- Session: request, state and answer belong together; cycles are bounded; a refusal
  or an engine that is off ends the session, and nothing else does.
- Decoder: an answer sets the value it carries (it never does, section 5); parsing
  ends, and within the array for answers that are not too long.
- BCD converter: the digits are those of the value asked for, and are read only
  when they are ready.
- Bars and digits: what was written is what is shown, each LED of the bar in turn at
  its place, and both bars get their turn.
- Display tasks: a readout reads its value, whatever it showed before; a warning
  is neither missed nor made up; the AFR bar is one piece on one side of its middle.
- Reset controller: one reset for one request, which reaches the processor and clears
  the request before it ends, and the firmware runs again.

## 2. The modules

| Module | Models | Kind |
| --- | --- | --- |
| `Fifo` | `fifo.v`: one action per branch of the clocked process | component |
| `FifoQueue` | the bounded queue a FIFO is to be | abstract specification |
| `UartPort` | `uart.v` with `Fifo` twice, edge triggers, driver, `uart_flush` | composition, byte level |
| `ModMCounter` | `mod_m_counter.v` | component, instantiated by five modules |
| `SerialLink` | `uart_tx.v`, wire, `uart_rx.v`, with `ModMCounter` twice | composition, bit level |
| `TimerCounter`, `TimerTicks` | `timer_counter.v` with the status word; one that runs | component |
| `WaitTick` | `wait_tick`, `is_frame` on TC1 and TC2 | composition of firmware and two timers |
| `Readline` | `uart.c` between the FIFO and its callers | component |
| `Obd2` | `obd2.c` and the event loop, the adapter as environment | component |
| `PidDecoder` | `obd2_parse_pid_response` | component, pure algorithm step by step |
| `ResetControl` | `reset_controller.v`, `rc_reset`, restart | composition |
| `Bin2Bcd` | `bin2bcd.v` | component |
| `LedMatrix` | `led_matrix.v`, one bar | component |
| `Sseg`, `SsegArray` | `sseg.v`; `sseg_array.v` | components |
| `Panel` | two bars and their selector, digits, converter, lamps, `init` and `test` | composition of firmware and panel |
| `Display` | the tasks of `display.c` | component |
| `FifoProofs`, `UartProofs`, `WaitProofs` (with the timers), `ReadlineProofs`, `DividerProofs` (serial line and reset controller), `PanelProofs` (with the converter), `DisplayProofs`, `Obd2Proofs` (with the decoder) | theorems on the modules of these names | proofs |
| `MC...` | instances for TLC | |

How they compose: `UartPort` instantiates `Fifo` for both FIFOs; `WaitTick`
extends `TimerTicks` for the frame counter and instantiates `TimerCounter` for the
tick counter; `SerialLink` and `ResetControl` instantiate `ModMCounter`; `Panel`
instantiates `LedMatrix` twice, `SsegArray` and `Bin2Bcd`.  Where two
parts are not composed one assumes what the other is checked for: `UartPort` takes
"a byte is sent" and "a byte arrives" for a step, which `SerialLink` refines to
bits; `Readline` takes the receive FIFO for a queue, which `UartPort` and
`FifoProofs` justify; `Obd2` takes the results of `uart_readline` for a step, with
the meaning `Readline` shows (`OneLine`, `ResultHonest`), and its
constant `Loads` stands for the decoder; `Display` takes digits from the converter as
`Exact` and `ReadsConverted` of `PanelProofs` justify.

### Correspondence

A step of `Fifo`, `UartPort`, `SerialLink`, `TimerTicks`, `WaitTick`,
`ResetControl`, `Bin2Bcd` and `Panel` is one edge of the system clock: all registers change from the
values before the edge.  `UartPort`, `WaitTick` and `Panel` conjoin to it at most one register
access of the firmware, or none (`Stall`), so that every interleaving of processor
and hardware occurs.  A step of `Readline` is one test of the loop of
`uart_readline` with what follows from it, of `Obd2` one call of `uart_readline` with
what its caller makes of it, of `PidDecoder` one turn of the parser's loop, of `Display` one call of a task's
update function.

Variables have the names of the registers and C variables they stand for; the
others are the firmware's position `pc` and history variables, marked `History`
where they are declared.  Operators named `...` after a comment `Mutant:` are
faulty variants of the definition that follows; no specification uses them.

What is abstracted:

- `UartPort`: bytes are model values; the duration of a byte is any number of
  clocks; the error flags of the receiver, which the driver does not read, are left
  out.  `FullUnseen`: callers of `uart1_tx` are taken not to write when the FIFO is
  full and its read pointer is at slot 0 (section 5).  The commands of `obd2.c` have
  at most 20 characters and the FIFO has 256 slots.
- `SerialLink`: the line is synchronous to the receiver's clock and undisturbed;
  the transmit FIFO is its head.
- `WaitTick`: the processor is never away for `MaxPoll` clocks between two accesses;
  without such a bound no wait has an upper bound.  `MaxPoll` is at most a tick, which
  is a millisecond (`controller.c:92`): a loop that polls less often could step over the
  last value before the wrap.
- `Readline`: the timeout is a flag that rises at any time after the last send; the
  LEDs and the sticky `uart_error` (a copy of the status register nothing reads) are
  left out.
- `Obd2`: what a response says is "refused", "no data" or "data"; status LEDs and
  messages are left out, and `display_update` is taken to return.  `ign` is never set
  by the code and left out.  The adapter, not part of the repository, answers each
  command once and in order, at any time, or never.
- `PidDecoder`: a response is a sequence of bytes, ends of line and colons rather
  than characters.  When `iPid` leaves the array the model stops (`overrun`): what is
  overwritten is not modelled.  No code is recognised (section 5), so the branch that
  stores data bytes is never taken; it is translated all the same.
- `ResetControl`: the register with the request is cleared at any clock within
  `ResetDelay` of the reset.
- `Panel`: the firmware is the sequence of its register accesses (`todo`), made at most
  `MaxIdle` clocks apart, which is far less than a scan lasts (`PaceAssumption`);
  `wait_tick` lasts any time.  The count of `test` is kept within two passes, which
  differ in all they show.  The registers of a reset act at the next edge.  A glyph is
  the number or the sign it shows.  PWM is left out: `test` sets every bar and digit to
  the maximum, at which it passes everything; before that a brightness of 0 shows
  nothing.  `leds_init` writes through an index far outside its tables (section 5); what
  it overwrites is left out, and the LEDs are as they were.
- `Display`: the tasks are called in any order and number, as `display_update` would call
  them if its list were intact (section 5), on any values of `display_params`, although
  the decoder as it is leaves all of them 0.  Values are in hundredths and the rounding
  of floating point is left out.  Warnings are shown by the flags and the enable of the lamp;
  the duty cycle of the lamp's blinker goes nowhere, that of the bars stays 0.  The
  list of the blinker is either empty or points into the stack; from there the model
  allows that the list ends or that `display_slink_compact` loops (`hung`).

## 3. What is checked

`tlc -config X.cfg M` for each row.  Deadlock is checked in all runs except those of
`Obd2`, where the program halts in `rc_reset`, of `Display`, where it may hang, and of
`PidDecoder`, where the model stops at an overrun of the array.
Type invariants are theorems (section 4) rather than properties of runs, except that of
the FIFO, which is both; that of `SerialLink` is the part `Types` of its invariant.

| Run | Config | Instance | States | Shows |
| --- | --- | --- | --- | --- |
| `fifo` | `MCFifo` | 4 slots, 2 words | 256 | `NoFalseAlarm`; `ImplementsQueue`: refinement of `FifoQueue` by `CarefulSpec`, between two resets |
| `uart_port` | `MCUartPort` | 3 slots, 2 bytes, 4 written and 2 received between resets | 100 000 | `TxLossless`, `RxLossless`, `HeadStays`, `FlushMeansSent`, `FlushReturns` |
| `serial_link` | `MCSerialLink` | 8 bits, 5 bytes, formats 8N1 8E1 8O1 7N1, 16 samples a bit, sender equal and 3 % fast | 110 000 | `DeliveredAsSent`, `NoSpuriousError`, `ReceiverKeepsUp`, `EveryByteDelivered` |
| `wait_tick` | `MCWaitTick` | counters of 5 ticks of 3 and 5 clocks | 97 000 | `ClocksAccounted`, `OverflowHonest`, `WaitNotTooLong`, `WaitsLongEnough`, `FrameNotEarly` |
| `wait_tick_wrap` | `MCWaitTickWrap` | the same | violation | `WaitReturns` does not hold |
| `readline` | `MCReadline` | FIFO of 2, buffer of 3, string of 3, 5 bytes of 3 kinds | 144 000 | `NothingLost`, `OneLine`, `NoLineKept`, `ResultHonest`, `CallReturns` |
| `obd2` | `MCObd2` | 2 AT commands, bursts of 3, 4 commands unanswered | 25 000 | `InStep`, `RequestOfState`, `BurstBounded`, `EndsForACause`, `InitEnds` |
| `obd2_complete` | `MCObd2Complete` | 2 unanswered | violation | `CompleteResponse` does not hold |
| `pid_decoder` | `MCPidDecoder` | answers of up to 5 bytes in 4 layouts, an array of 2 | 99 000 | `RoomForPids`, `ParseEnds` |
| `reset_control` | `MCResetControl` | counter of 8 bits, all arguments | 175 | `OneReset`, `ResetTakesHold`, `ResetEnds` |
| `display` | `MCDisplay` | two readouts, 4 sets of values at the ends and the middle of each range | 270 000 | `ReadoutHonest`, `NoWarningMissed`, `NoFalseWarning`, `AfrBarOneSided` |
| `panel` | `MCPanel` | bars of 3 columns and 2 rows, 3 digits, two passes, 1234 and -1234 | 278 000 | `TurnShowsPass`, `Converted`, `DigitsExact`, `TurnsTaken` |

Why the bounds are enough:

- FIFO: the code uses only the distance of the pointers modulo the size; 4 slots give
  every level at every position.  The proofs cover every size.
- `uart_port`: 4 bytes through 3 slots wrap both pointers, fill the FIFO (2 bytes) and
  make `uart1_tx` wait; 2 received bytes are enough for one to arrive while another is
  taken.  Two values show loss, repetition and reordering.
- `serial_link`: both sides restart their bit timing at each start bit, so two
  consecutive bytes are all that can interact, and the run sends every two of the five
  after each other with every pause.  31 clocks against 32 a bit is the ratio of
  27.13 (50 MHz, 16 samples, 115200 baud) to the 28 clocks of `dvsr` = 27.
- `wait_tick`: waits of up to 3 ticks on a counter of 5 begin at every value and meet
  the wrap; the two counters have different periods.
- `readline`: 5 bytes overflow the buffer of 3, and complete another line.
- `obd2`: two unanswered commands are enough for a late answer to be taken for
  another; 4 allow chains of it.
- `pid_decoder`: 5 bytes are two modes with their codes and one more, which overruns the
  array of 2; bytes with and without letters among the digits; one line, or a length
  and two lines with numbers.
- `reset_control`: `Half` stands for bit 23; all arguments up to the width are tried.
- `display`: two readouts with one limit at 0 and one above it; values of no, one, two and
  three leading zeros and of both signs follow each other on the same positions; AFR at
  both ends and in between.  Every property is proved for any values, too.
- `panel`: 3 by 2 tells columns from rows and has an inner column; the two scans start one
  to three clocks apart, and every distance of the two accesses between which they start
  is tried.  The two conversions are those of `test`; every other value is in the proof.

Fairness.  The system clock does not stop (`WF` of `Next` in `UartPort`, `SerialLink`,
`WaitTick`, `ResetControl`, `Panel`).  `UartPort` adds that the stop bit of a byte that is sent
ends, which `SerialLink` shows, and that the processor goes on with a call it has
begun; `Readline` and `Obd2` that the firmware goes on and that time passes (TC3
counts); `ResetControl` that the processor starts after its reset.  Nothing is
assumed of the adapter, of callers, or of bytes to arrive.

Each property of a passing run has a mutant of a modelled definition that breaks it.

## 4. What is proved

`tlapm` on each of the eight modules named `...Proofs` checks every step.

- `TypeCorrect` (and `CarefulTypeCorrect`): the pointers stay in the array, for any
  `Slots >= 2`.
- `FlagsHonest`: `CarefulSpec => []NoFalseAlarm`.
- `FifoIsQueue`: `CarefulSpec => ImplementsQueue`: the initial states map to the empty
  queue, and every clock is a step of `FifoQueue` or a stutter.  The mapping takes the
  words from `r_ptr` up to `w_ptr` modulo the size.  The argument is by the level:
  `Succ` on one pointer changes the level by one, and the words between the pointers
  are not those of the slot that is written.
- `EdgesAreQueueSteps`: each edge is the queue operation the user asked for: a write is
  `Enq`, a read is `Deq`, both at once are `DeqEnq`.
- `ResetRestarts`: a reset leads back to `Init`, so that the theorems about
  `CarefulSpec`, which has no reset, hold after each one.
- `PortInvariant`, `NothingWrittenIsLost`, `NothingArrivedIsLost`, `HeadIsOnTheLine`,
  `FlushedIsSent` of `UartProofs`: the safety properties of the run `uart_port`, for every size of
  the two FIFOs and any bytes.  The port is a careful user of both FIFOs: while `full`
  is unseen it does not write, and while `empty` it does not read, so that every edge is
  a step of the FIFO that `EdgesAreQueueSteps` covers; `UartProofs` takes `FifoProofs` twice by
  INSTANCE, once for each FIFO, and the lemmas `OutputsOfContent` and `EdgesOfContent` say what
  an edge does to the words between the pointers.  `TxLossless` alone is not
  inductive: a byte is between the processor's pulse and the edge trigger, or handed
  over and not yet taken off the FIFO.  `TxInv` and `RxInv` say where it is for each
  value of the trigger, the pulse and `pc`, and `ControlInv` which of these go together.
- `TicksAreExact`, `OverflowIsHonest`, `TimerTyped`: for every width and every setting,
  the counter, the tick in flight and the divider tell the clocks since the reset.
  `ClocksAccounted` is not inductive alone; the invariant `Inv` adds that the divider
  stays within its setting and that its registered tick comes with its restart, and
  that the overflow flag tells whether the clocks exceed the range.  The arithmetic
  is in `NextPeriod` and `PeriodsMonotone`.
- `FrameClocksAccounted`, `FrameOverflowHonest`: the same of the frame counter while the
  firmware uses it; a step of `WaitTick` is one of `TimerTicks` (`StepOfTicks`).
  `FramesFarApart`: `Spec => FrameNotEarly` follows from them, also after a wrap.
- `WaitsAreLongEnough`, `WaitsAreNotTooLong`: both bounds of `wait_tick`, for every setting,
  width and wait.  `Phase` counts the clocks of the present tick; `AtLeast` and `AtMost`
  bound the time waited by the ticks counted since the start and the phase.  `AtLeast`
  says nothing while the counter, wrapped, is below the start.  `AtMost` says that once
  the end is reached the phase is at most the time since the last poll plus one, so
  that the tick cannot end, and the counter cannot wrap, before the loop looks.
- `LineTyped`, `LinesLoseNothing`, `LinesAreWhole`, `ResultsAreHonest`, `LinesAreNotKept`: all
  five invariants of `Readline`, for every size of FIFO, buffer and string and every
  set of characters.  `LineInv` is the strengthening: without the flag the buffer has no
  end of line; with it the call is in its loop and the buffer is one whole line or
  full.  `ResultInv` says what `rc` can be before a call is about to return.
  `CopiedIsPrefix` is about `strncpy`; `MoveHead` carries `NothingLost` over a byte taken.
- `DeliveredIntact`, `NoErrorReported`, `ReceiverReady` of `DividerProofs`: all safety properties of
  the run `serial_link`, for every byte, every format but seven bits with parity, every phase of the two dividers, every
  pause and every pair of rates in the tolerance.  The invariant `LinkInv` has three
  phases: `Quiet` between frames, `Falling` while the start bit is not seen yet, `Framed` inside
  a frame.  Each end is placed on the frame by the clock edges it has left to the stop bit
  (`TxToStop`, `RxToStop`): both go down by one at every edge, through all states
  (`TxActive`, `RxActive`), so that their difference `Lag` keeps what it was when the
  receiver saw the start bit, which `FallingStep` bounds by a tick of each end.  `Inside` makes
  of that and of the tolerance that a sample of bit j falls while the line shows bit j, and
  `Sample`, `StopSample`, `Finish` what follows for data, parity, stop bit and the next byte.
  `Countdown` and `Drift` are the arithmetic, nonlinear as the lengths of a bit are products.
  `EveryBitInPlace` states the same of every single bit.
- `EqualSettings`, `AdapterTolerated`, `HalfStopBitRefused`: who is in the tolerance.  Equal settings
  always are, from two ticks a bit on and with a stop bit of a bit or more; so is the
  adapter at 115200 baud, 434 clocks a bit, against the 16 ticks of 28 clocks that
  `uart.c:118` and `mod_m_counter.v:35` make of it: the last of the nine samples falls between
  clock 309 and 337 of its 434.  The half stop bit of `uart.c:105` is not, even with equal settings.
- `OneResetPerCall`, `ResetsTakeHold` of `DividerProofs`: both safety properties of `ResetControl`, for every
  width, delay and argument.  `CountInv` ties the divider to the time the reset has
  lasted; past the delay the processor is in reset and the request is gone.

- `Exact`, `BcdTypeCorrect` of `PanelProofs`: the double dabble of `bin2bcd.v`, for every value
  and sign, with any input while it runs and a reset at any edge.  The invariant: while n
  bits are to come, the value taken is the value of the digits times 2^n plus the rest
  of p2s_reg, which is that rest times 2^(13-n).  `Doubled` says that adjusting and shifting
  a decimal digit doubles it with its carry; `ShiftDoubles` sums that over the four, and
  `Splits` is the arithmetic of the bit that moves over.  That the top digit never
  carries follows from the value being below 8192.
- `TurnsShowPasses`, `ReadsConverted`, `PanelDigits`, `TypeCorrect` of `PanelProofs`: all safety
  properties of the run `panel`, for bars and rows of digits of every size, every divider,
  any values converted, any number of passes and any time between two accesses.  The
  firmware is a sequence of accesses, so the invariant says what is still to come of it:
  - `PulseInv`: a register that is pulsed (a write to an LED or a digit, the start and
    the resets) is at rest unless the very next access takes the pulse back;
  - `SoundInv`: for every LED, digit and the status LEDs, and every pass p: before any
    wait of pass p that is to come stands the write of what p wants, with no other write to
    the cell between the two, unless the cell, with the write that is pending, already has
    it and nothing before the wait writes it.  Hence at the wait the cell has it;
  - `BrightInv`: full brightness is set before the first wait and stays;
  - `ConvInv`: how far each conversion is, by the number of accesses before its read:
    the argument in the register, the start, the number taken, the digits ready;
  - `Left`: what is left of a program is the end of one: every read of the converter is
    preceded by the five accesses of its `bcd_convert`, as far as they are not done.
  `SettlesAfter`, `LeavesBlocks`, `ProgramBlocks` and the lemmas about `Blocks` show these for the
  programs of `init`, `test` and each pass; the sizes enter only there.  `Scanned` ties the
  address of a scan to its row and column, so that the LED that is lit of the bar in turn is
  the one the pass addressed, and the rows driven of the other are those of such LEDs.
- `TypeCorrect`, `WarningsKept`, `WarningsReal`, `ReadoutsHonest`, `AfrBar` of `DisplayProofs`: all
  four properties of the run `display`, for any values within the 13 bits of the converter and
  any set of readouts.  `NeverCleared` is why `WarningsKept` holds: `warning_clear` changes
  nothing.  `Decimals` and `ReadsShortened` take a value apart into its digits and put the
  digits that are shown together again; `AfrEnd` bounds the end of the bar, and says
  where it is for a mixture out of range; `BoostFull` says that the boost bar always ends at its last LED.
- `PidTypeCorrect`, `EnoughRoom`, `NoCodeIsKnown` of `Obd2Proofs`: whatever the adapter answers,
  the decoder keeps its variables in range, and leaves the array only in an answer of more
  than two bytes a PID.  `RoomInv` counts the items of the answer the parser has passed:
  at least two for each PID before the one it is at, and one for that when its mode is
  stored.  `NoCodeIsKnown` is about the code as it is, and no property of a run: no value is ever
  set.  The digits of a byte are combined so that a code has its two top bits set, which
  none of the known codes has.
- `TypeCorrect`, `RequestsOfStates`, `BurstsBounded`, `StaysInStep`, `EndsForCauses` of `Obd2Proofs`: all
  safety properties of the run `obd2`, for any initialisation commands, any `BA_MODULO_N` and
  any answers.  The invariant ties the queue of unanswered commands to the answers that
  are underway: as long as nothing was missed, what is owed, in the inbox or just read is for
  the last command, and that is the one of the state.  `BurstInv` relates the length of a
  burst to `ba_count`.  `ExitCause` says for each state what its exit may lead to; that the line
  was asked for in that state, and the state reads the load only for CILBr, comes from
  the invariant.

Assumptions: `FifoAssumption` and `UartAssumption` (at least two slots in each FIFO); `TimerAssumption` and
`SettingAssumption` (the widths are positive and the setting fits the divider);
`WaitAssumption` (a poll in every tick, and a history that counts far enough);
`ReadlineAssumption` (the buffers have room for a character); `Obd2Assumption` (commands are not named like
states); `DisplayAssumption` (values that the converter has bits for); `ResetAssumption` (the reset
reaches the register in less than half the range of its counter); `LinkAssumption`,
`ToleranceAssumption` (the rates of the two ends are so close that each sample falls inside its
bit; `EqualSettings` and `AdapterTolerated` show that those the firmware sets up are) and
`FormatAssumption` (no parity with seven data bits, where `uart_rx.v:32` computes the receiver's
parity over a leftover bit; no caller asks for it); `PidAssumption` (responses
are made of bytes, ends of line and colons; the array has any size); `PanelAssumption` (a panel that has LEDs and digits, a setting that fits
the divider, conversions the converter has bits for).  No proof uses `PaceAssumption`.

Only model-checked: liveness, which is out of the prover's reach (`FlushReturns`, `CallReturns`,
`TurnsTaken` and the like).  Every safety property of a passing run is a theorem.

## 5. Where code and comments disagree

Shown by a run:

- `wait_tick_wrap`: `controller.c:46-56`.  The counter has 24 bits, `start + ticks` 32:
  the branch "Overflow wrap" is never taken and the wait for an end beyond
  2^24 - 1 never ends.  `wait_tick(1)` called in the last millisecond before the wrap,
  after 4.7 hours, hangs the panel.
- `obd2_complete`: `obd2.c:142-150`.  `0 <= error` includes the 0 for "nothing yet"; the
  state machine then moves on the stack's content.

Met while modelling and translated as they are, without a run of their own:

- `obd2.c:386`.  Digits are combined by `<< 8`, letters count from 0, and no PID code is
  recognised (theorem `NoCodeIsKnown`), although `obd2.c:399` says "Get the PID code": the load stays 0, which `obd2.c:214` takes for an engine
  that is off, although `obd2.c:495` says "Calculated engine load".
- `controller_system.c:400` passes on bit 23 of the count alone, against
  `controller_system.h:273`, "bringing it back up after counts".  Every argument with that bit
  set gives a reset of 2^23 + 1 clocks, whatever its other bits; every other but 0 gives
  none, and the processor stays in its loop.  The argument of `shutdown`, 5000 ms, is
  35251635 after the 32 bit overflow of the macro at `controller_system.h:20`, with bit 23
  clear: no reset.  `ResetTakesHold` is about the resets that do start, and about their
  reaching the processor, not about their length being the one asked for.
- The mixture has three units.  `display.h:17` has "AFR in deci-% where 147 is stochiometric";
  `obd2.c:486` divides by 32768 * 147, which gives a fraction far below 1; `display.c:595` takes
  numbers from 11.2 to 18.2, with 14.7 at the middle of the bar.  In the unit of the
  header every mixture is above the upper limit of `display.c:35`.  `AfrBarOneSided` is
  therefore about the shape of the bar and about values beyond the limits that
  `display.c` compares with, and not about which mixture is at the middle.
- `controller.c:66-69`: the time between `tc_get_ticks` and `tc_reset` belongs to no frame, so that
  frames are late by it, or by more when the processor is away; nothing bounds it, and
  `FrameNotEarly` is of the other direction.
- `uart.c:242`, `obd2.c:301`: a command that is not answered in time is given up, and what comes
  of its answer later is taken for that of the next.  `InStep` and `EndsForACause` therefore
  say nothing once a command was given up; the other properties of the session hold.
- `obd2.c:214`: the load is that of the last answer that had one.  `display_init` clears it
  after the first answer (`display.c:79`), so that NO DATA for the next request of the load
  ends the session with "Ignition off".

- `fifo.v:71`, `fifo.v:78`: `r_ptr_reg - 1` is 32 bits wide, so that with the read pointer
  at slot 0 neither `full` nor the overflow is ever signalled.  `Fifo` computes both as
  the code does; `UartPort` excludes the case by `FullUnseen`.
- `uart.c:105`: `UART_SBIT_HALF` gives half a stop bit, which `uart_rx.v:9` does not know;
  the receiver reports frame errors (`HalfStopBitRefused`).  `uart_rx.v:32`: with 7 data bits and parity the
  parity is computed over a leftover bit.  The instances of `SerialLink` leave both
  out; no caller uses them.
- `mod_m_counter.v:35` counts m + 1 clocks where `mod_m_counter.v:7` says "mod-M".
- `controller_system.c:218`: `TC_STATUS_OF` is bit 25, the flag is at bit 24
  (`blastit_main.v:354`): `tc_get_of` is never true.  It is not called.
- `obd2.c:152-157`: `obd2_update` returns false in the middle of a response, and the event
  loop ends "based on OBD2 state" (`controller.c:142`) that is not at reset.
- `obd2.c:356`: for a line without a colon `strstr` gives NULL, which is less than any
  pointer, and the parser goes on at address 1.
- `obd2.c:389`: as no code is recognised, every two bytes of an answer are taken for a PID,
  and an answer of more than ten overruns `pids`, as those of several lines padded to the
  frame do.  `RoomForPids` says that shorter ones do not.
- `obd2.c:378-383`: "the first digit is the number of bytes" of an answer of several lines.  That
  number stands on a line of its own and is stored as a mode; what is skipped is the
  first byte behind the first colon.

- `display.c:163`: `display_slink_add` takes the address of its parameter `y` for the node, so
  that the list of tasks consists of one dead stack slot.  No task's `init` and `update` is ever
  assigned, and `display_init` and `display_update` call through them.
- `display.c:234`: `display_slink_compact` does not move on past a node that is not done.  With
  any task in the list `display_update` does not return; on the blinker's list the same
  loop is `hung`.
- `display.c:25`: `NIGHTTIME_DVSR` is (2 / 3), an integer and 0: "scale down PWM brightness during
  low light" switches the digits and the bars off.
- `display.c:478`: `warning_clear` acts only on a flag that is not set.  A warning stays for ever.
- `display.c:439-459`: the lamp's `done` is set in the first frame and is never cleared, so that the
  brightness of the lamp, 0 after reset, is never set: the lamp never lights.
- `display.c:525`: the boost bar is raised to its maximum where it should be limited to it: it is
  always full.  A bar with a warning is switched off rather than modulated, as the blinker of
  its own is never started (`display.c:542`).
- `controller_system.c:127`: `leds_init` passes `LedsResetMap[arr]`, an address, where
  `leds_enable_led` expects the number of a bar.
- `blastit_main.v:340-343`: the bars share their columns by turns ("hackfix",
  `blastit_main.v:416`), but both scan all the time at one rate.  The turn of the second bar
  lasts from the end of the first's scan to the end of its own, that is the few clocks
  between the two resets, in which it shows at most the last LEDs of its scan; checked apart
  from the runs, the first two of its six never have the columns.  The rows of the bar that has
  not the turn are driven all the same (`blastit_main.v:407-413`), so that with the columns of
  the other its rows show LEDs nobody lit.  `TurnShowsPass` is
  therefore about the bar in turn; of the other it says no more than that a row of it is
  driven only for a LED of the pass its scan is at.
- `bin2bcd.v:22`, `bin2bcd.v:67`: the shift register has 13 bits for a value of 14.  From 8192 on
  another number is converted; `DigitsExact` is of the 13 bits that were taken, and
  the assumptions of `Panel` and `Display` leave such values out.

## 6. What is not modelled, and the plan

Not modelled:

- `display_init`, `display_update` and the list functions: each leaves what C defines on its
  first call (section 5), so that there is no behaviour to state properties of.  `Display`
  models the tasks they were to call.
- The PWM (`pwm.v`): at the brightness callers set it passes everything; at 0 it passes
  nothing.  The blink of the warning lamp never shows (section 5).
- The other tests of `test.c`: the macros that select them are off.
- The error bits of the UART, which are only printed, and the counters of bytes, scans
  and conversions, which nobody reads.
- The modules `blastit_main.v` does not instantiate, the demos and test benches.
- The generated processor system: some 15 000 of the 17 800 lines of Verilog and C are the
  board support package of the vendor (`controller_bsp/`: `system.h`, logging, profiling,
  device drivers).  They are not this project's logic and are not modelled; the models
  cover most of the rest, which is why they cover a small part of the whole.
- Boards and enclosure.

Order of the work:

1. Done: FIFO, UART port, serial line, timers, waiting, line reader, session, decoder,
   reset, converter, bars, digits, panel, display tasks, and the proofs of section 4.
2. Abstract specifications: a source of lines that `Readline` implements; a reliable
   channel of bytes that `UartPort` implements.
