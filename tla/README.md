# fpga_modules in TLA+

Specifications of the Verilog designs for the Nandland Go Board that this
repository holds (a UART receiver and transmitter, an echo, a push-button
counter, two VGA pictures), and of the parts of the toolchain beside them
(`FILES/`) whose behaviour over time is hard: the programmer that writes a
bitstream to the board's flash, the router and the parallel refinement of a
placement that produce it. TLC checks them on small instances; TLAPS proves
every safety property that a passing run checks, of every part, for every value of
its parameters, and leaves liveness to TLC.

Every Verilog design runs on one 25 MHz clock. A **step is one rising edge of `CLK`**:
all `always @(posedge CLK)` blocks of a design take it together, reading the old
values of every register (`<=`) and the wires computed from them. A module's
`Clock(inputs)` action is its `always` block, and a composition is the
conjunction of the `Clock` actions with the wires as arguments. What is outside
the chip (a terminal, a finger on a button, a monitor) moves between two edges,
and is a nondeterministic part of the same step.

## 1. Inventory

| Component | Source | State | Operations | Talks to |
|---|---|---|---|---|
| UART receiver | `UART_RX/UART_RX.v` and three identical copies | state machine, clock count (8 bits), bit index, byte, DV | one per state: IDLE, RX_START_BIT, RX_DATA_BITS, RX_STOP_BIT, CLEANUP | pin RX in; `o_RX_DV`, `o_RX_Byte` out |
| UART transmitter | `UART_TX/UART_TX.v` and two copies | the same registers, TX, Active, Done | IDLE, TX_START_BIT, TX_DATA_BITS, TX_STOP_BIT, CLEANUP | `i_TX_DV`, `i_TX_Byte` in; TX, `o_TX_Active`, `o_TX_Done` out |
| Echo | `UART_TX/UART_TX_top.v`, `VGA_UART/top_VGA.v` | none of its own | wires receiver to transmitter, gates TX with Active | terminal on both pins |
| Serial display | `UART_RX/UART_RX_top.v` | none of its own | wires `o_RX_Byte` to two decoders | receiver, decoders |
| Seven-segment decoder | `Binary_To_Seven_Seg.v`, five copies | the encoding register | table look-up | display pins |
| Switch filter | `Debounce_Switch.v`, four copies | filtered state, count (18 bits) | count up, commit, start over | raw switch in, filtered switch out |
| Push-button counter | `Seven_Seg_Counter/Seven_Seg_Counter.v` | last filtered switch, digit, LED | count and toggle on a release | filter, decoder |
| Switch toggles | `VGA_Switches/SW_toggle.v`, `REFERENCE_FILES/LEDS/LED_toggle` | last filtered switch, output | toggle on a release | filter |
| Beam | `Sync_Pulse.v`, two copies | column, row | next column, next row | porch, pattern |
| Porches | `Sync_Porch.v`, two different versions | none | widen the sync signals | beam, pattern |
| Pattern of the byte | `VGA_UART/Pattern_Generator.v` | sync and colour registers | paint by byte | receiver's byte, VGA plug |
| Pattern of the switches | `VGA_Switches/Pattern_Generator.v` | sync and colour registers | paint by switch | raw switches, VGA plug |
| Reference pipeline | `REFERENCE_FILES/nandland VGa/` | counters recovered from sync, delayed colours | count, resynchronise, delay | its own test pattern |
| LED blinkers | `REFERENCE_FILES/LEDS/Blink_LEDS`, `Blinky` | dividers, LEDs | divide | LEDs |
| Testbenches | `*_tb.v`, `*_tb.sv` | stimulus | write a byte, dump waves | receiver, transmitter |
| Flash programmer | `FILES/icestorm-master/iceprog/iceprog.c`, `mpsse.c` | options, loop address, exit status | wake, unlock, erase, program, read, verify, power down; poll | serial flash over USB |
| Router | `FILES/nextpnr-master/common/route/router1.cc`, `ice40/arch.h` | arc queue, wires of arcs and arcs of wires; wire, pip and switch tables | set up, route an arc, rip up, timing rip-up | architecture's tables, which other passes share |
| Placement refinement | `FILES/nextpnr-master/common/place/parallel_refine.cc`, `detail_place_core.cc` | partitions; per thread a move, a private map of cells, bounding boxes | cut, start, swap a cell, a chain, a tile; bind, check, revert, commit; join | threads share the bindings under one lock |
| Rest of the toolchain | `FILES/`, `goboard_env/` | | converters, compilers, optimisers, generated code | |

### What is hard here

* **Two clocks.** The terminal and the board never agree on the length of a bit.
  The receiver starts over at each start edge and must land inside each of ten
  bits, whatever the drift, the unknown phase and the jitter.
* **No handshake.** `o_RX_DV` lasts one clock; the transmitter looks at `i_TX_DV`
  in IDLE only; there is no buffer. Whoever is a clock late loses a byte in
  silence.
* **Registers one clock behind.** TX lags the transmitter's state, `o_TX_Active`
  does not; the VGA sync registers lag the beam; the digit's display lags the
  digit.
* **Widths.** An 8-bit clock count under a parameter without a bound; an 18-bit
  count under a limit of 250000.
* **A bouncing switch** that may change at every clock, and a level that is
  believed only after a quarter of a million of them.
* **Hand-adjusted bounds** (`480+10-1`, `525-33-2`), two versions of them.
* **Long cycles.** A frame of video is 420000 clocks, a byte 2170: simulations of
  the testbenches see one or two of them.

* **A flash that does not answer back.** A chip that is busy, asleep, protected or
  not enabled ignores a command in silence; a program can be killed, and the
  board unplugged, between any two transfers, and the next run starts on
  whatever is left.
* **Shared tables and threads.** The refinement's threads read bindings without
  the lock; a move may fail half bound; boxes are kept by counting pins. The
  router rips up what is in its way, which may be its own net.

### What makes each part correct

* Receiver: each byte a host sends is announced once, unchanged, in order; never
  anything else; it is back in IDLE for every start edge; on a line that does
  anything it samples in the middle of bits, and it finds its way home when the
  line rests.
* Transmitter: what it drives is a host's frame; a byte offered during a frame
  neither disturbs it nor is half accepted; `o_TX_Done` means that the far end
  has the byte.
* Echo: bytes come back once, in order, unmixed.
* Counter: a level is believed exactly when it has lasted for limit + 1 clocks;
  each believed release counts once; digit, LED and segments agree.
* Pictures: pulses of the right length at the right distance, for ever, between the
  porches of the comments (`VGA_UART` has its vertical ones a row early); in a pulse
  the picture of the byte is black, that of the switches too unless none is on.

* Programmer: a verified write is in the flash; without a fault every write is
  taken up; nothing outside the chunks asked for changes; every run ends.
* Router: no assertion fails, its tables and the architecture's agree, and what is
  not queued is routed.
* Refinement: it goes from one legal placement to another in whole moves,
  whatever the other threads do, and ends.

`PROJECT.json` lists the hazards at their lines, each with the property that
would see it go wrong, or the reason why none does yet.

## 2. Modules

```
SerialHost --+                    UartTx ---+
             +-- RxLink ------+             +-- TxRx ---refines---> RxLink
UartRx ------+     |          |  UartRx ----+     |
   |               |          |                   |
   |          refines ByteLink <---- refines -----+
   |               |
   |          RxLinkProofs <---------- TxRxProofs
   |                              SerialHost, UartRx, UartTx,
   |                              SevenSeg ------ UartEcho --refines--> BytePipe
 RxLine -- RxSampling -- RawPinProofs                |
                                                   TopVga -- UartEchoProofs (on RxLinkProofs)
                                                     |
 VgaScreen, SyncPulse, --+-- VgaUart ----------------+
 VgaMonitor              +-- VgaSwitches   (VgaBoards: both on one beam) -- VgaProofs

 DebounceSwitch, SevenSeg -- SevenSegCounter --refines--> ButtonCounter
                                   |
                              RawPinProofs

 VgaSyncPulses ------------------+
 SyncToCount --+-- TestPatternGen+-- VgaPipeline -- VgaProofs
               +-- VgaSyncPorch -+

 SpiFlash -- IceProg -- IceProgProofs
 Router1 -- Router1Proofs
 NetBounds -- DetailPlace -- ParallelRefine --refines--> Placement
                                   |
                          ParallelRefineProofs
```

| Module | Models | Notes |
|---|---|---|
| `UartRx` | `UART_RX.v` | Variables are its registers; each disjunct of `Clock(RX)` is one branch of the `case`. `r_RX_Byte` is a function on bit indices. The unreachable `default` branch (line 128) is left out: the type invariant shows that the five states are all there are. |
| `UartTx` | `UART_TX.v` | The same for the transmitter; its registers that share a name with the receiver's are called `t_...`. TX has no initial value in the code, so `Init` leaves it free. |
| `SerialHost` | the terminal, as `UART_WRITE_BYTE` of `UART_RX_tb.sv` plays it | Each edge may be up to `SKEW` clocks from its nominal place, in either direction and independently of the others; `GAP` is the earliest start edge after a stop bit (negative: before its nominal end). Drift, phase and jitter are all such deviations. |
| `RxLink` | receiver on a host's wire | `RxLinkAssumption` is exactly the tolerance of the code's sampling points. |
| `RxLine`, `RxSampling` | receiver on an arbitrary line | `samples` is a history variable: what the receiver was clocked with since IDLE. |
| `TxRx` | `UART_TX_tb.v`: transmitter, line multiplexer, receiver | `i_TX_DV` and `i_TX_Byte` are free at every clock. |
| `SevenSeg` | `Binary_To_Seven_Seg.v` | `hex_encoding` is the set of segments that are lit; the pins are its complement. |
| `UartEcho` | `UART_TX_top.v`, and in it `UART_RX_top.v` | The wires `w_RX_DV`, `w_RX_Byte` and the two decoders on the byte that is coming in. |
| `TopVga` | `VGA_UART/top_VGA.v` | `UartEcho` and `VgaUart` on one clock, the picture painted by the receiver's byte. |
| `DebounceSwitch`, `SevenSegCounter` | `Debounce_Switch.v`, `Seven_Seg_Counter.v` | The raw switch is free at every clock; `level` and `run` are history. `r_LED1` is never declared in the source, so its first value is free. |
| `VgaScreen`, `SyncPulse`, `VgaUart`, `VgaSwitches`, `VgaBoards` | the two pictures | `Sync_Pulse.v` is the same file in both, so `VgaBoards` puts them on one beam. The byte, and the switches, are free at every clock. Of a byte only the keys that `Pattern_Generator` tells apart remain; a colour register is 3'b111 or 0, so `lit` is the set of those that are not 0. |
| `VgaSyncPulses`, `SyncToCount`, `TestPatternGen`, `VgaSyncPorch`, `VgaPipeline` | `REFERENCE_FILES/nandland VGa/` | `testbench.v` wires the first two stages; `VGA_Sync_Porch`, which it includes, is put behind them. The pattern is free at every clock; registers without an initial value start free. `age` is history. |
| `VgaMonitor` | the screen | External: it measures how long each sync level lasts and knows nothing of the counters. |
| `SpiFlash` | the flash | External: what it does with the commands `iceprog.c` sends. A byte is one bit, 1 when erased. It ignores everything while it writes and, release apart, while it is powered down; its `Finish` may come at any time. |
| `IceProg` | `iceprog.c`, `mpsse.c` | `phase` is where `main` is, `step` where a write is (enable, command, wait), `pos` its loop variable. `Proceed` is the way from a phase to the next that has work. `Abort` is `mpsse_error(2)` or a kill at any transfer, `Unplug` a loss of power; another `Start` may follow. `reach` is history: what a write not yet finished may change. |
| `Router1` | `router1.cc` on the tables of `ice40/arch.h` | Operations are functions on a record, `State`, because one step calls several of them; a loop that calls `unbindWire` or `ripup_wire` for some wires is one operation on a set of wires, since the order makes no difference. `Check` is `NPNR_ASSERT`, and a failed one leads to `pc = "abort"`. The walk back from a sink is `Trace`, a least closed set rather than a loop, which is what a proof can reason about. A route is any path: delays, penalties and bonuses choose among the same paths. |
| `NetBounds` | bounding boxes of `detail_place_core.cc` | One axis and one edge at a time; the upper edge is the lower one of the negated positions. |
| `DetailPlace` | the rest of `detail_place_core.cc`, `bindBel` and `isBelLocationValid` | Each section under `archapi_mutex` is a step. `AddAll` is a loop over `add_to_move`: TLA+ picks one order of the cells, and nothing the proofs say of the boxes depends on which. |
| `ParallelRefine` | `parallel_refine.cc` | What a thread does before it takes the lock is a step or, for a chain, a step per cell; a move may be accepted or turned down whatever it costs. |
| `ByteLink`, `BytePipe`, `ButtonCounter`, `Placement` | nothing in the code | Abstract specifications: what a serial link, an echo, a counting button and a refinement promise. |
| `MCRxLink`, `MCIceProg`, `MCRouter1`, `MCParallelRefine`, `MCBench` | | Instances for TLC. `MCBench` has `SevenSegCounter`, `VgaBoards` and `VgaPipeline` side by side, and clocks the one that `design` names: they share no wire, so its states are those of the three together, one after another. |

Definitions that a comment introduces with "Fault:" (`BitOverLate`,
`CleanupKeepsDV`, ...) are not part of any specification. Each is a plausible
mistake in the definition that follows it; put in its place, it makes TLC find
the property named in `PROJECT.json` violated. They are kept so that anyone can
repeat that experiment.

## 3. Runs

Run one with `tlc -config <cfg> <module>` in this directory.

| Run | Shows |
|---|---|
| `rx_link` (`MCRxLink`) | At the largest skew and the closest frames that `RxLinkAssumption` allows, the receiver refines `ByteLink`, is in IDLE at each start edge, and announces every byte (liveness). |
| `rx_sampling` (`RxSampling`) | On every line whatever: a byte is announced only after a start bit that was still 0 in its middle, at the middle of the stop bit, each bit being the value in the middle of its time; a line that comes to rest leads back to IDLE. |
| `tx_rx` (`TxRx`) | The transmitter with its multiplexer refines `RxLink` with `SKEW = 0`, so all that holds of a host holds of it; a producer may offer anything meanwhile and TX may be anything at power-up; `o_TX_Done` implies that the byte has been received. |
| `top_vga` (`TopVga`) | With two clocks of rest after each stop bit the unbuffered echo drops nothing and refines a pipe of two bytes. Digits and screen, wired to a byte that changes bit by bit, never show anything but the first bits of the byte coming in over the byte before, and show the new byte once it is announced. (From `2` to `1` the byte is `3` for a bit's time: the screen flashes blue.) In the sync pulses the screen is black, and frame follows frame (liveness). |
| `bench` (`MCBench`) | Three designs without inputs from each other, one after another. The counter refines `ButtonCounter`; digit and LED keep their parity. Sync timing of both pictures as a monitor measures it, from power-up on; in `VGA_Switches` each pulse exactly between its porches, and colour during a pulse only if it is an old one that no switch replaces. Sync pulses and colours at the plug of the reference pipeline belong to the pixel that the beam left four clocks ago, from the first clock on for the pulses, although the second `Sync_To_Count` starts at a wrong position. |
| `iceprog` (`MCIceProg`) | Two runs of any mode and options, one of them cut short, on a chip that starts erased or not, protected or not, asleep or not: what a run with verification reports as written is written; without a fault every write is taken up and every read is true; the chip sleeps afterwards; cells outside the chunks asked for never change; every run ends although `flash_wait` has no timeout. |
| `router1` (`MCRouter1`) | From every partial routing without a cut bound tree (section 5) of two nets that compete for a span and for LUT inputs that share switches: no `NPNR_ASSERT` fails, tables and records agree, and an arc that is not queued is routed, whatever has been ripped up since; a finished design passes `checkRoutedDesign`. |
| `parallel_refine` (`MCParallelRefine`) | Two threads: what a thread has read without the lock is still true when it binds, so `bind_move` cannot fail; boxes and `tile2cell` are exact; the placement refines `Placement`; the refinement ends (liveness). |

Four runs find a statement of the repository contradicted by its code:

| Run | Statement | What the code does |
|---|---|---|
| `rx_slow_baud` | "Set Parameter CLKS_PER_BIT ... = (Frequency of CLK)/(Frequency of UART)" (`UART_RX.v:9-10`) | `r_Clock_Count` has 8 bits. Above 256 clocks a bit (below 97656 baud at 25 MHz) it wraps before the comparison of a data bit is met and no byte is ever announced; at 9600 baud, as below 48733, that of the start bit is not met either, and the receiver stays in RX_START_BIT for good after the first edge. |
| `iceprog_erase` | "0 on success" (`iceprog.c:539`) | `-e` verifies nothing. A protected chip, or one still busy with a write of a killed run, ignores an erase, and the exit status is 0. |

| `displaced_cluster` | "Displace the entire cluster" (`parallel_refine.cc:142`) | `chain_swap` queues the cluster that is in the way (lines 141-151), to take the places of the cells it makes room for. These are in `moved_cells` and still bound, since nothing is unbound before `bind_move`, and line 136 takes them for cells that would move twice: the move is always given up. (With the cells of the move counted as gone, `Occupant(s, b)` being `NoCell` for a bel of one, TLC finds `ClusterIsDisplaced` to hold.) |
| `uart_porches` | "Vsync -> front: 10, back: 33, pulse: 2" (`VGA_UART/Sync_Porch.v:5`) | The vertical pulse of `VGA_UART` is in rows 489 and 490, with 9 rows before it and 34 after; `VGA_Switches` has it in rows 490 and 491. The horizontal pulse is a column early as well, which may be meant to make up for the register behind it and is not held against the comment. |

Seen while modelling, without a run of their own: a frame whose stop bit is 0 is
announced like any other (`UART_RX.v:102` says "Stop bit = 1"); `VGA_Switches/Pattern_Generator.v:29` ("anything else makes
screen Black") keeps its last colour when no switch is on; `iceprog.c:332`
prints "erase 64kB" for a 32 kB erase.

### Bounds, and why they are enough

The models have no bound of their own: every variable ranges over a finite set
by the widths of the registers, and the host's count stops at `Rested`, beyond
which nothing depends on it. The history `samples` stops at `MaxSamples`, one more
than the longest frame, so that a longer one would still be seen as too long.
What is small is the parameters.

* `rx_link`: 8 clocks a bit, 4 data bits. `HalfBit` is 3, the skew 3, the gap -2,
  each at its bound. `COUNT_SIZE` is 9 so that a count that reaches
  `CLKS_PER_BIT` would show. The theorems cover every other value.
* `rx_sampling`: 3 clocks a bit and 2 data bits; the line is free at every clock, so
  every frame, glitch and break of that length, and any sequence of them, occurs.
* `tx_rx`: 4 clocks a bit is the smallest divider the assumption allows and
  leaves the receiver the fewest clocks to spare. Three data bits have a first,
  a middle and a last one.
* `top_vga`: 5 clocks a bit, a skew of 1, 2 data bits, so that 2 turns into 1
  through 3; a picture of 6 by 5, since its pace and that of the bytes are
  independent and every pixel meets every state of a frame. The serial side alone
  has also been run with 3 and 4 data bits. `GAP = 2` is the
  smallest that works: the transmitter needs (`LAST_BIT` + 3) bits and two clocks
  for a frame, a terminal sends one in (`LAST_BIT` + 3) bits. With `GAP` 1 or 0
  TLC finds `NoneDropped` violated: at 217 clocks a bit the echo's frame takes
  2172 clocks and a terminal at 115200 baud 8N1 takes 2170.14, so a file sent
  without pauses loses a byte now and then; keys pressed by hand do not.
* `bench`, the counter: the limit is 3 and the register just holds it. The theorems
  cover every other value.
* `bench`, the boards, and `uart_porches`: 14 by 9 with all porches at least 2, so that an
  off-by-one in either direction of any bound shows; the two counters go through
  all their states, and the monitor through several frames. The bounds of the
  code are linear in the parameters, so a larger screen adds columns of the same
  kind; `VgaUart` has also been run at 800 by 525 (3 million states). The theorems
  cover every size.
* `bench`, the pipeline: 17 by 10, an active area of 8 by 4 so that each colour bar is a
  column wide and a shift by one shows, squares of 2 by 2 in place of 32 by 32.
  The back porch of 4 columns is as long as the pipeline, the least at which the
  first clocks show no false pulse; the code's is 50. `VgaPipelineAssumption` also asks
  for three columns of area and front porch, the place where the second counter is
  put right: with two, TLC finds a false pulse after the third clock. The theorems
  cover every other size.
* `rx_slow_baud` uses the real numbers.
* `iceprog`: a chip of two chunks of two pages of two bytes; no file and one that
  is longer than a page, at offsets 0 and 3, from where it crosses a page and a
  chunk. `MaxRuns = 2`, `MaxFaults = 1`: one run leaves something behind, the next
  meets it. The theorem covers every chip, file, and number of runs and faults.
* `router1`: eight wires and twelve pips chosen so that each case of the rip-up
  occurs: a taken wire, a free wire whose switch is locked for another, an
  arc whose sink is its source, two arcs of one net that share wires.
  `MaxTiming = 1` in place of 50: a timing rip-up starts from a routed design, as
  every later one does.
* `parallel_refine`: two threads on three columns, so that one has a boundary and the
  other an interior; one cluster that a cut may part, one single-cell cluster, a
  pair that may not share a tile, a locked cell; a net with two pins on one cell.
  `Moves = 1` move per thread and iteration: iterations follow until the wires do
  not get shorter, so that moves build on one another. `displaced_cluster` has the
  same instance: the cluster of two in the way of the single cell, or the other way
  round.

### Fairness

In the Verilog designs the only fairness assumed is weak fairness of the clock step,
`WF_vars(Next)`: the oscillator does not stop. No branch is ever assumed to be taken.
`EveryByteArrives` follows from it alone because each state of the machines counts
down a finite time. In `RxLink` the host's `Rest` lets the line be idle for ever, and
`ReturnsToIdle` takes "the line comes to rest" as its hypothesis rather than as
fairness. No clocked run disables the deadlock check: a clocked circuit always has a
next state, and TLC confirms that the host and the circuit always agree on one.

`IceProg` has weak fairness of the program's own steps (`Main`: a started process is
scheduled; neither a fault nor another run is ever due) and of the chip's `Finish`
(a write ends). `ParallelRefine` has it of each thread and of the code that starts
and joins them. `Router1` has none: a rip-up can be answered by a rip-up, and that
this ends is left to the penalties, which are not modelled. The deadlock check is
off in `iceprog` only, which stops after `MaxRuns`.

## 4. Proofs

`tlapm` on `RxLinkProofs.tla`, `TxRxProofs.tla`, `RawPinProofs.tla`,
`UartEchoProofs.tla`, `VgaProofs.tla`, `IceProgProofs.tla`, `Router1Proofs.tla` and
`ParallelRefineProofs.tla` checks everything below; no step is left without a proof.

**The receiver** (`RxLinkProofs`), from `RxLinkAssumption` only: for every divider
that fits the count, every number of data bits, `SKEW` of at most `HalfBit + 1` and
less than `CLKS_PER_BIT - HalfBit - 1`, and `GAP` of at least
`HalfBit + 3 - CLKS_PER_BIT`; at 217 clocks a bit, a skew of up to 107 clocks.

* `LinkInvariant`: `Spec => []LinkInv`.
* `TypeCorrect`, `Correct`, `NeverLate`: `TypeOK`, `ReceivedIsSent` and `StartIsSeen`
  hold in every state.
* `RxImplementsByteLink`: the receiver and its wire refine `ByteLink`'s safety.

`ReceivedIsSent` is far from inductive: it says nothing until the last bit.
`LinkInv` adds the **phase** between the two machines. In RX_START_BIT the host's
count is the receiver's count plus one; while the receiver counts through bit
`p` of the frame (`Follows(p)`) the host is either still in bit `p`, `HalfBit + 2`
clocks ahead of the receiver's count, or already in bit `p + 1`, the same
distance minus a bit. Sampling happens at count `CLKS_PER_BIT - 1`, where, by
the bounds on `SKEW`, the host must be in `p + 1`. To this come the host's own
bounds, that the bits sampled so far are the host's, and where the host can be
when the receiver is in CLEANUP and IDLE, which is where `GAP` enters. There is one
lemma per state of the receiver, one per state for the refinement, and `Pace`
says once how the host moves while the receiver counts.

**The receiver on any line** (`RawPinProofs`), from `UartRxAssumption`: every
divider, also one the count cannot hold, every number of data bits, every line.
`SamplingInvariant` says how long the history is in each state of the machine: in
data bit `i` it ends `r_Clock_Count` samples after the middle of the bit before, at
`HalfBit + 2 + i * CLKS_PER_BIT`; `SamplesInTheMiddle` (`SampledInTheMiddle`) is
read off in CLEANUP. With a divider too large for the count, the machine never
leaves its first data bit and announces nothing (`TooSlowIsDeaf`); with one whose
half is too large it never leaves a start bit (`TooSlowIsTrapped`), so what
`rx_slow_baud` finds at 9600 baud is true of every rate below 48733.

**The transmitter** (`TxRxProofs`), from `TxRxAssumption`: every divider from 4 clocks
a bit on that fits the count, and every number of data bits.

* `TxRxInvariant`: `Spec => []TxRxInv`.
* `TypeCorrect`, `DoneIsReceived`: `TypeOK` and `DoneMeansReceived`.
* `TxRxImplementsRxLink`: the transmitter refines the host of `RxLink`.
* `TxRxImplementsByteLink`: transmitter, line and receiver refine `ByteLink`.

The module takes the receiver's proof as it is: `L` is an instance of `RxLinkProofs`
under the mapping of `TxRx` with `SKEW` and `GAP` 0, and `L!LinkInv` is a conjunct of
the invariant. What is added is `TxPhase`, that TX shows what the state machine
said a clock ago and that the multiplexer follows the state, and `Received`, that an
idle receiver still holds the byte of the last frame. `Received` closes the circle:
until its start bit is out an accepted byte is mapped to the one the receiver
already has, and only because that is the previous byte is the acceptance no step
of the host. `Hears` lists what the receiver can be doing in each state of the
transmitter; for `ByteLink`, where a byte is on its way from its acceptance and not
from its start edge, the steps are gone through again from it.

**The echo** (`UartEchoProofs`), from `UartEchoAssumption` and `GAP >= 2`: every
divider, number of data bits and skew that the receiver tolerates.
`EchoInvariant` is `Spec => []EchoInv`; `NothingIsDropped`, `DigitsAreMixed` and
`EchoIsAPipe` are `NoneDropped`, `DigitsShowMix` and `EchoesInOrder`; `ScreenIsMixed` is
`ScreenShowsMix` of `TopVga`, the same design with a picture painted by the byte that is
coming in. The picture looks on and changes nothing, so a step of `TopVga` is one of
the echo, and its colour is that of the byte the digits show.

`L` is `RxLinkProofs` for the terminal and the receiver of the echo, and `L!LinkInv` a
conjunct. That no byte is dropped is a matter of time, so `Ahead` times the
transmitter (`TxTime`, clocks since it took up its byte) against the terminal
(`HostTime`, clocks since its start edge). While the receiver waits, the transmitter
has had at least the clocks since the announcement; once a new frame has begun, it is
ahead of that frame by the rest of the old stop bit and by `GAP`. When the new
byte is announced this comes to a frame of `LAST_BIT + 3` bits and `GAP - 1` clocks,
and the transmitter is never busy for longer than a frame: with `GAP` 2 it is done
by one clock, and with `GAP` 1 the argument fails just where TLC finds a lost byte.
`OldBits` says which bits of the receiver are still those that the transmitter has.

**The reference picture** (`VgaProofs`), from `VgaPipelineAssumption`: every
size of the area, the porches and the checkerboard. `PipelineInvariant` puts each
register of the four stages at the position that was 1, 2, 3 or 4 clocks before the
beam (`Stage1` to `Stage4`), or says what it holds until the first position has come
to it (`Empty1` to `Empty4`). A counter of `Sync_To_Count` stays in step because the
vertical sync rises only where the count would go back to 0 by itself
(`CounterFollows`); the second one, which has run ahead to column 2, is put right
by the first rise, before it reaches the place of a pulse. `SyncsAreAligned` and
`ColoursAreAligned` are `SyncAligned` and `ColoursAligned`.

**The boards' pictures** (`VgaProofs`), from `VgaScreenAssumption`: every screen with a
visible part, porches and something left for the pulse. `PulsesInTime`,
`PulsesBetweenPorches` and `OnlyHeldColours` are `BoardsInTime`, `SwitchPorches` and
`OnlyHeldInPulses`. A horizontal signal is one over the columns, a vertical one over
all places of the frame (`Place`), and one lemma, `SignalStep`, treats both: the
register shows the position before, and the monitor has measured either nothing yet
or exactly the time since the last edge (`Timed`). The case of its own is the register
that is 0 at power-up: there the monitor must not have begun to measure, so that the
false pulse is none. `FrameSignal` is where the width of a row enters: a row is as
many places as there are columns.

**The counter** (`RawPinProofs`), for every limit below the register's size:

* `CounterInvariant`: `r_Count` is 0 while the raw switch agrees with the filter, and
  otherwise is the length of the run of samples that differ. This strengthening
  is needed because `Commit` looks at the count and at the *present* sample: only
  with it is it known that at the limit a sample that differs is the
  (limit + 1)th of its run, and one that agrees is the first of its own.
* `CounterTypeCorrect`, `CounterImplementsButton`, `LedAgrees`: `TypeOK`,
  `CountsReleases` and `LedFollowsDigit`.

**The programmer** (`IceProgProofs`), for every size of chip, page and chunk, every
file at every offset, every number of runs and of faults:

* `ProgrammerInvariant`: `Spec => []IInv`.
* `VerifiedWritesAreThere`, `ReadsTellTheFlash`, `ChipIsAsleep`, `OthersAreKept`,
  `EveryWriteLands`: `VerifiedIsWritten`, `ReadsAreTrue`, `Asleep`, `OthersKept` and
  `WritesLand`, which are all the safety properties of its run.

`VerifiedIsWritten` speaks of the end of a run, and holds there because of what
is true on the way: a chip at work is not asleep, and `main` wakes it before
anything else (`Awake`), since a sleeping chip would answer a read with ones;
without a fault the chip is busy only while `flash_wait` polls it (`Quiet`);
`main` is in a phase that has work to do (`AtWork`), so none is left out; after a
write the chip is not looked at before it is ready (`Settled`), however long the
previous run left it busy; and what has been compared or read so far is what the
cells hold (`Compared`, `ReadSoFar`), because nothing writes after that.

The two properties about what is written have invariants of their own. `Reach`:
the chip is on cells that were asked for, because the erase loop is at a multiple
of the chunk between the first chunk of the file and its rounded end (`Inside`,
`Rounded` and `TurnAsked` are the arithmetic of `begin_addr` and `end_addr`), and a
page program never runs past its page, where it would wrap (`Within`). `Landing`: in
a run without a fault the latch is set at every command, all chunks the erase loop
has passed are blank, the file is stored up to the loop variable and blank from
there on, and what the chip is busy with is exactly what the loop will count as
done when `flash_wait` returns.

**The router** (`Router1Proofs`), from `Router1Assumption`: every chip, every
netlist, every partial routing that `Init` allows. `RouterNeverAborts`,
`TablesAgree`, `CheckPasses`, `NothingForgotten` and `RoutedLegally` are the five
properties that its run checks; all follow from `RouterInvariant`, whose conjuncts are

* `Good(State)`: the four tables are views of one binding, no net but its own has
  the source wire of a net, and the two records are each other's inverse and name
  only wires that are bound to the net of the arc;
* `OnTheWay`: in the middle of binding, the pips still to bind lead from the
  source to the wire where those already bound begin, or else the arc is in the
  queue again. The second case is why the properties alone are not inductive:
  what is in the way of a pip may be a wire that the same arc got a moment ago,
  through another pip of the same switch. It is ripped up like any other, and the
  arc, bound to the end with a gap in it, has to be routed once more;
* `Reached`: each arc not in the queue is recorded on exactly the wires of its
  `Trace`. A rip-up takes only wires whose arcs it queues, so the way back of
  every other arc keeps its pips, and a `Trace` depends on nothing else;
* during set-up, that nets not yet looked at are as `Init` left them, and after
  it that no net keeps a wire without an arc.

One lemma per operation says what it does to the tables (`Binds`, `Frees`,
`Loses`); the steps are put together from these without opening the operations.

**The refinement** (`ParallelRefineProofs`), from `DetailPlaceAssumption` and
`ParallelRefineAssumption`: every netlist, grid, set of cells that may share a tile,
number of threads, set of clusters, and number of moves. `NothingAborts`,
`TablesStayTrue`, `ReadsAreTrue`, `TilesStayTrue`, `PlacementRefined` and `BoxesStayExact`
are all the safety properties of its run. All but the last follow from
`RefinementInvariant`, whose conjuncts are

* `Tables`: the cells' bels and `bel_to_cell` are inverse;
* `Team`: each thread is `Good` and no two rectangles meet (`Apart`). A thread's own
  cells are exactly those bound in its rectangle (`Region`), its map has them where
  they are bound or are about to be (`LocalTrue`), its move takes unlocked cells of
  its own from bels of its rectangle to others, at which they are or are not yet bound
  (`Recorded`), and its move is what it can be at that point (`Phase`);
* `Parts`: while the grid is cut, the same of the rectangles. The pivot lies between
  the edges of the rectangle it cuts, so both halves hold their cells and no other;
* `P!Legal`: the placement outside the moves is legal; and nothing has aborted.

What a move may be is the heart of it. A thread binds what it has put together without
looking again, so it must be known beforehand that the bels it goes to are free or are
left by cells of the move (`Closed`), that clusters go as a whole (`Together`), and
that it is a swap of two tiles or moves no two clusters (`Complete`). No step of
another thread can disturb this, because all it touches is in a rectangle of its own.
For a chain this is not true on the way: when `chain_swap` puts the cluster in its way
into the queue, that cluster is to go where the first one was, and its cells meet bels
that are still bound to cells of the move. `Doomed` says that such a queue cannot be
worked off, and so `ClustersAreNotDisplaced`: for every netlist the code fails to do
what its comment says. A move is lawful when it commits because
its own tiles have just been checked (`Fits`) and every other tile is as it was.

`BoxesStayExact` has an invariant of its own, `AllBoxed`, about what the counting of
`NetBounds` promises while a move is put together (`Charted`): every axis of a net's
box that has not been given up (`full`) has at each edge the outermost pin and the number of
pins there (`Tracks`), whatever pins have moved so far. After `compute_total_change` it is
the box computed from scratch (`Computed`). `CellMoves` goes through the pins of a cell
by recursion and `AddAll` folds over the cells of a tile; the proof names the
recursive function as one that satisfies its equation, and shows by least
counterexample what it does after each pin, without an induction theorem.

**Only model-checked**, because liveness and ENABLED are beyond the prover:
`EveryByteArrives`, `ReturnsToIdle`, `EveryByteReturns`, `FramesGoOn`, and that a run of
the programmer and the refinement end. The refinements of `ByteLink`, `BytePipe`
and the others are proved for their safety part. The four runs that expect a violation are
counterexamples; `TooSlowIsTrapped` and `ClustersAreNotDisplaced` say of two of them that
they are no accident of the instance.

## 5. Not modelled

* Metastability of RX and of the switches, which enter without a synchroniser: a
  step samples a pin once, for all registers.
* Propagation delay within a clock period, and the pins themselves.
* The blinkers, dividers without inputs; `leds.v` and `template/main.v`, constants.
* `SW_toggle` and `LED_toggle`: the filter and edge detector of `SevenSegCounter`.
* `iceprog`: SRAM programming (`-S`), the reset line of the FPGA, the identity that
  `flash_read_id` prints, messages, and the QE bit that `-Q` sets.
* `router1`: constant nets and `ripup_net`, which ice40 does not use; what the
  search optimises; failing for want of a path. Setup takes a bound tree that was
  cut in the middle for routed up to the cut and records the wire that is missing;
  `Init` has no such trees, since no pass leaves one.
* `parallel_refine`: delays, temperature, radius, regions and bel types. The threads
  share `ctx->rng` without a lock (`parallel_refine.cc:324`): a data race whose
  outcome is another random number, which the model leaves free anyway. A cluster
  with a cell the user has placed is excluded by assumption.
* Constraint files, build files, bit streams, wave dumps, generated simulators, the
  Python environment `goboard_env`, and the rest of `icestorm`, `nextpnr` and `yosys`
  under `FILES/`: 331335 lines of compilers, converters and numerical optimisers,
  which run one step after another on data far beyond what TLC can enumerate.
  The modules above therefore cover the repository's own designs nearly whole and
  a small share of the C++ beside them.

## 6. Plan

Done: the serial link, the echo, the counter, the two pictures and the reference
pipeline, the programmer, the router, the placement refinement, and proofs of every
safety property their runs check. Left:

1. `SW_toggle` as a design of its own, inside `VgaSwitches`.
2. `router1` with costs, for an argument that it ends.
