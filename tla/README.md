# OpenPowerMac: a TLA+ verification project

OpenPowerMac emulates a PowerPC G4 Macintosh ("Sawtooth"): a processor core
(`src/core`), the machine around it (`src/machine`), a C API (`src/capi`), a
Windows shell (`src/shell`) and command-line tools (`src/tools`). Much of the
program is optimisations that all promise the same thing, that nothing changed:
instructions run in batches, sleep is skipped, caches, fetch lines and compiled
lines answer for memory, a one-page cache answers for a table walk, a published
deadline answers for the devices, the host clock answers for the timebase. The
rest is devices that owe a guest's driver an answer. A test that runs a guest
sees a broken promise much later, as a hang, a wrong time or a corrupted block.
This project states the promises, checks them with TLC on small instances, and
proves the most important ones with TLAPS for every value of the constants.

## Inventory

| Component | State | Operations | Talks to | What makes it correct |
|---|---|---|---|---|
| Clock (`cpu.hpp`) | `tb`, `dec`, `cycleAccum`, `decPending`, `pendCycles` | `tick`, `charge`, `syncClock`, `clockAdvanceCycles`, mtspr DEC/TB | run loop, pacer, every clock reader | no cycle lost or counted twice; the decrementer request appears at its cycle |
| Run loop (`cpu.cpp`, `pace.hpp`, `capi.cpp`) | budget, batch, line being run, interrupt lines | `opm_run`, `napSkip`, `batchSteps`, `runSteps`, `step` | clock, device gate, line executor, JIT | a batch is what the one-at-a-time loop would have done |
| Device gate (`sawtooth.hpp`) | `devDueTb_`, `devGen_`, the cached interrupt line | `serviceDevices`, `noteNow` | run loop, all timed devices | no device is looked at after its deadline |
| Real-time pacing (`hostclock`, `pace.hpp`) | pacer's origin, learned overshoot | `anchor`, `sync`, `wait`, `hostIdleWait` | host clock, run loop | a guest second is a real second; waiting never costs a wakeup |
| Caches (`cache.cpp`) | L1, L2, fetch lines, HID0, L2CR | load, store, dcb\*, icbi, fetch, snoop, HID0 and L2CR writes | bus, DMA masters, MMU | everybody reads the value last written |
| MMU (`mmu.cpp`) | BATs, segment registers, TLBs, one-page caches with a generation | translate, mtsr, tlbie, mtspr BAT | every access | a remembered translation is one the registers and the table still allow; a stored page is marked changed |
| JIT (`jit.cpp`) | compiled lines, links between them, batched counters | compile, dispatch, chain, sever, reset | fetch lines, run loop | compiled code never outlives the words it was compiled from, and counts what it runs |
| Instructions (`exec_int.cpp`, `fpu.cpp`, `softfp.cpp`) | registers, XER, CR, FPSCR, the reservation, special registers | one executor per instruction | run loop, MMU, caches | results and flags; what a fault part way leaves |
| Interrupt controller (`openpic`) | sources, pending, in-service, task priority | raise, acknowledge, EOI | every device, the processor's line | no level and no edge is lost |
| DBDMA (`dbdma`) | channel registers, place in the list and in the descriptor | control write, walk, wake, flush, stop | ATA, sound, memory | each unit moves once; a parked channel is woken |
| ATA and ATAPI (`ata`) | task file, latched command, buffer, medium, tray | register access, DMA, deferral, eject, insert, stage | DBDMA, controller, host | the guest gets what it asked for, whole and in order |
| Sound (`awacs`) | play cursor, credit, wake | playback | DBDMA, controller, gate | the ring settles |
| USB (`ohci`) | root hub ports, endpoint and transfer lists, done queue, HID state | frame, list walk, reset, power | guest memory, controller | a descriptor is retired once; no input is lost |
| PMU, Cuda, mac-io (`pmu`, `macio`) | VIA registers, handshake, frame | byte handshakes | guest drivers | every wait is answered, by its own answer |
| Graphics cards (`r128`, `ati`) | 2D registers, video memory, ring, GART, blank, palette, monitor bus | packets, register writes, blank, EDID bits | guest, gate, controller | the card does what the stream says, once, in order |
| Snapshots (`snapshot`) | the stream | save, load | everything | a resumed machine is the saved one |
| Disk images and HFS (`cdimage`, `hfs`) | tracks, chunks, partition map; the scanned tree | open, read, inflate; scan, place, stream | ATA | a block is what the sheet or the table says; a shared folder is found whole |
| Vectors (`altivec.cpp`) | vector registers, VSCR, CR6 | one handler per instruction | MMU, soft-float | lanes, saturation and the sticky bit; what a sequence of instructions is for |
| 3D pipeline, PCI, older machine, tools, shell | data, stored registers, host I/O | - | - | not modelled (see the end) |

The machine is one thread. Its hazards are rarely two threads: they are *state
that is deliberately out of date* (charged cycles, cached interrupt lines, fetch
lines, translations, compiled lines, deadlines) read at the wrong moment;
*bounds that are off by one in one phase* (cycles, ticks, steps, bits); and
*long sequences of legal calls* of guest, device and host. `PROJECT.json` lists
forty, each at its line, with the properties that would catch it going wrong.

## Modules and how they correspond to the code

Definitions keep the names of the functions and fields they model;
`PROJECT.json` maps each to its lines. A module models one component with any
guest, device or host around it, or with the one driver that the code's
comments describe where an answer depends on the driver (marked external in the
map). Operators marked `Mutant:` are plausible mistakes in the operator that
follows them; no specification uses them. Each property is shown to be
sensitive to one.

**Clock and run loop**

* `Timebase`: `Cpu::tick` and what is built on it, as pure operators on a clock
  record, and the arithmetic about them. The decrementer is a register of
  `2 * DecHalf` values; the "one shift instead of a division" branch of `tick`
  and its division are the same quotient and are one operator.
* `Instructions`: the classes of instruction that touch what the loop works on,
  and the sample of them that the run tries.
* `StepLoop`: the abstract specification: one instruction, its cycles, the
  devices, repeat. A run of sleeping steps may be taken as one, provided that
  none of them could have been anything else.
* `RunLoop`: `opm_run` without real time: nap skip, batch sizing, slow step, line
  executor and the end of a batch. `late` and `total` are history variables;
  every other variable is a field of the code.
* `RunLoopProofs`: theorems.

**Real time**

* `HostPacer`: the pacer's origin against absolute host time, with guest writes
  to the timebase, stalls and the switch of `opm_set_realtime`; its theorems.
* `RealtimeLoop`: the real-time arm of `opm_run`, with relative time (what is
  left to each deadline), the host wait and what it learns. Absolute time would
  only make the state space infinite.

**Memory**

* `Cache`: L1, L2, fetch lines and memory over the blocks of one L1 set and one
  L2 set (blocks of different sets do not interact, except in the fetch slots,
  which `FetchSlot` gives). A block's 32 bytes are one value. Ages are
  abstracted: any resident line may be the oldest, so an operation that replaces
  one yields a set of results. `last` is history: the request the step answered.
  `CoherentMemory` is the abstract specification, one memory that records each
  request: a read returns the block's value, a write changes that block alone, a
  discard (dcbi, DCFI) takes the blocks it names back to a value that is still
  held below, and nothing else changes anything. `CacheProofs` has the theorems.
* `Mmu`: `translate` and the fast paths of fetch, load and store before it.
  `images`, `rewritten` and `dirty` are history: what an operating system may
  rely on (entries that may still be in a TLB, entries written without a tlbie,
  pages stored to). `MmuProofs` has the theorems.

**Processor**

* `Jit`: the compiled-line cache inside `Cpu::runSteps`: compile, dispatch, hop
  over a link, sever, refill, full arena, batched counters. An instruction is
  the way the emitter treats it. `ref` is history: what accounting after every
  instruction would say. `JitProofs` has the theorems.
* `AluOps`, `Alu`: the integer executors, and the short sequences compilers
  build from them (64-bit sums, division by a constant, bit fields, compares),
  against what the sequence is for. `Lowering`: the host code the JIT emits for
  the inlined ones, one host instruction at a time, against `AluOps`.
* `LoadStore`: multiples, strings and update forms that fault part way and are
  executed again.
* `GuestLoops`: the loops in which a guest waits for what an instruction leaves
  behind: `lwarx`/`stwcx.` under interrupts and page faults, and the polls of the
  thermal assist unit and of the L2's hardware flush bit, with who may reach which
  register.
* `SoftFp`, `Fpscr`: the soft-float core, its host fast paths and conversions
  against the exact real number rounded once; the FPSCR around it.
* `Vector`: the vector unit. A register is sixteen bytes seen as lanes; its floats
  are computed by `SoftFp`, as in the code. The machine runs the short sequences
  vector code is made of (a misaligned load from `lvsl` and `vperm`, a wide sum
  from `vaddcuw`, a clamped narrowing, a dot product, a minimum from a compare and
  a select), and what a sequence is for is what is checked.

**Interrupts, DMA and sound**

* `OpenPic`: the interrupt controller's functions (`setLine`, the
  vector/priority write, `highestPending`, `iack`, EOI) on one record, under any
  devices and any guest. `owed` is history: an edge nobody has answered yet. The
  module has its theorems too.
* `Dbdma`: the channel and its engine as operators: a control write in the order
  of the code, and `run` as a walk over descriptors that carries the channel and
  what the device can take. `sent` and `skew` are history: what was really moved.
  `DbdmaChannel`: the channel between a driver and a device, streaming or not.
* `Sound`: playback, composed of `Dbdma`, `OpenPic`, the codec's play cursor,
  the device gate and the guest's sound driver.

**Devices**

* `Ata`: one cell with a disk or a CD drive, its deferred commands, PIO and DMA,
  software reset, and the medium with eject, insert, swap and stage. The data
  register is read at any time, in a data phase or not, and the host publishes and
  ejects discs at any time. The driver waits until the drive is idle before it
  writes a command, sends the packet it announced and gives data only for a write;
  it resets between transfers unless `ResetsMidTransfer`, and uses DMA with a CD
  only if `CdDma`. `c.got`, `c.landed`, `c.poked`, `medium.told`, `medium.passed`
  and `wanted` are history. PREVENT ALLOW stores a bit that nothing reads, so it
  stands among the packet commands that change nothing.
* `UsbHub`: the root hub and the driver that enumerates it. `UsbLists`: endpoint
  and transfer lists, done queue, control transfers, keyboard and mouse.
* `MacIo`: VIA, Cuda and the mac-io interrupt controller. `Pmu`: the PMU's byte
  handshake.
* `Blit`: the 2D engine with its register aliases and packets. `Cce`: packets
  from stores and from the ring, indirect buffers, the GART, doorbells.
  `VBlank`: the blank behind the device gate, with its theorems. `AtiRage`: the
  Rage Pro's beam and palette port, and EDID over a bit-banged bus on both cards.
* `Snapshot`: every section and its fields in their order, written by one list and
  read by another, the reader's latch, media identity and the merge of the trays;
  a stream cut anywhere, of another build or with something after its end; a run
  that resumes from it with other memory, ROMs or discs, and the tool that loads
  it back into the machine it was taken from. What is not in the stream stands
  beside the fields: fetch and translation copies, the gate's deadline, the bus's
  notion of now, and whether a device has a report or half a packet staged
  (`half`).
* `Hfs`: a host folder from scan to streamed volume, searched as the guest
  searches. `CdImage`: plain, raw, cue and UDIF images, the partition map, the
  chunk cache. `Inflate`: the Huffman decoder.

Seven `MC` modules instantiate these for TLC; `RunLoop` is run as it is. Components that share no state
are explored side by side in one run: `part` says which one moves, and the
others stand as they were built.

## Runs

| Run | Parts | Properties |
|---|---|---|
| `run_loop` | `RunLoop` | `ClockConservation`: charging, syncing, batching and skipping lose no cycle. `NoMissedDecrementer`, `NoOverdueDevice`: no batch spans a decrementer request or a device deadline. `LateByLessThanALine`: an interrupt enabled inside a line waits for less than a line. `ExactlyOneAtATime`: refinement of `StepLoop`. |
| `memory` | `Cache`, `Mmu` | `CleanCopiesAgree`, `FetchHitIsLongPath`, `BehavesAsOneMemory` (refinement of `CoherentMemory`): every request is answered as one memory would, and only dcbi and DCFI lose anything. `AnswersAreCurrent`: no layer answers what neither the registers nor an entry not yet invalidated allows. `StoredPagesAreChanged`: a stored page is marked changed. `TlbIsSound`: a set holds a page once, and its bits are in the table. |
| `jit` | `Jit` | `NoStaleCode`, `LinksAreSeverable`, `CountersExact` (on a core that takes no enabled floating-point trap, see finding 1), `HopIsDispatch`: a hop does what the dispatcher would. |
| `pacing` | `HostPacer`, `RealtimeLoop`, `GuestLoops` | `PacedByHost`; `CallReturns`, `DecrementerWakes`, `WaitComesBack`; `LoopsEndRight`: the guest's retry and poll loops end with the right outcome. |
| `cells` | `OpenPic`, `DbdmaChannel`, `VBlank`, `Blit`, `Snapshot` | `HeldLevelIsPending`, `NoEdgeLost`; `ChannelIsSound`; `BlankIsOnTime`; `PicturesAreExact`; `ResumeIsExact`. |
| `devices` | `Sound`, `UsbHub`, `UsbLists`, `MacIo`, `Pmu`, `Cce`, `AtiRage` | `RingIsServed`, `PortsAreSound`, `ListsAreSound`, `AnswersAreWhole`, `CardsDoAsTold`; `DriversFinish`: nobody who waits for a device waits for ever. |
| `storage` | `Ata`, `Hfs`, `CdImage`, `Inflate` | `TransfersAreWhole`: reads and writes are the commanded blocks, the drive is silent until its command runs, and the newest disc is the one in the drive (but for findings 3 and 4). `SwapIsMade`: an open tray with a disc waiting does not stay open. `VolumesAreWhole`, `DiscsReadTrue`. |
| `arithmetic` | `SoftFp`, `Fpscr`, `Alu`, `Lowering`, `LoadStore`, `Vector` | `FloatIsModel`, `ExceptionsAreKept`, `IntegerIsModel`, against reference definitions over operands of a small format; `VectorIsModel`: the sequences of vector code do what they are for. |
| `jit_traps` | `Jit` | `CountersAlwaysExact`, violated: finding 1 |
| `hfs_twins` | `Hfs` | `NothingShadowed`, violated: finding 2 |
| `cd_dma_drain` | `Ata` | `DrainEnds`, violated: finding 3 |
| `disc_order` | `Ata` | `LastPublishedIsIn`, violated: finding 4 |

A property of several parts is a conjunction of the named ones of each part's
module, its type invariant included; the comment on it says what they come to.
Runs that check deadlock off are the ones in which the machine may really stop
(a halted processor, a bound on time or on the number of commands).

### Bounds

* *Run loop.* Two cycles per tick and three per step, so every phase of
  `cycleAccum` meets every rounding. `DecHalf = 5` keeps several ticks between a
  load and the request, both signs and the wrap. `MaxBudget = 3` is the largest
  batch: sized by budget, by decrementer and by device all happen. Two words per
  line are enough for an instruction behind another one. `MaxTb` only ends the
  run: behaviour does not depend on the absolute value of TB except through
  `due` and DEC.
* *Cache.* Three blocks in two L1 ways and one L2 way make every fill evict, with
  castouts into the L2 and out of it; all three share a fetch slot. Two values
  tell old from new. The blocks are all write-back, or one of each kind;
  neither slot nor attributes tell them apart, so they are symmetric.
* *Mmu.* Two pages in two address spaces, one hash slot per group, one BAT and a
  TLB set of two ways that both pages share. Two changes of the registers or the
  table suffice for "written, then written back" and for a change between a load
  and a store.
* *Jit.* Two pages of two lines, two slots, so lines conflict across pages; three
  blocks fill the arena; one back-reference per block overflows its list.
* *Pacer.* Three nanoseconds per tick give every fraction, host pauses longer
  than the cap happen, and the guest writes TB forwards, backwards and to 0.
* *Real-time loop.* The divisors of the estimate are scaled (64, 4, 16 become 4,
  2, 4), as are asks and caps, so that the estimate can exceed every ask and
  come back within the run; the state space is finite without a bound on time.
* *Interrupt controller.* Two sources, so that one can be in service, masked or
  more urgent than the other, and three priorities, so that equal, higher and
  "not above the task priority" all occur.
* *DBDMA.* Two lists: the sound driver's ring, whose STOP the driver turns into a
  NOP and back, and a list with conditional branches, an empty transfer and a
  missing end. A transfer of three units against a device with less room
  parks inside it; walks are longer than the idle bound, so both
  ends of a walk happen. `Careful` is a driver that writes WAKE to a stream only
  while it is ACTIVE, and never together with FLUSH.
* *Sound.* A slice is a quarter of the FIFO, as in the code, and two ticks long;
  the driver answers within one tick and the gate is on time, as `run_loop`
  shows it to be. Both are tight: with a later gate or a slower driver the
  engine reaches the STOP again and again and `RingIsServed` fails.
* *Blit.* A surface of 4 by 4 pixels takes overlaps in all eight directions;
  two packets in a row carry state from one into the next.
* *Cce.* A ring of four words wraps, a body dispatches another and one itself, a
  page is mapped late, and a second machine finds what the first one left.
* *Snapshot.* Every section with all its fields; a field's value is the
  generation it was written in, so two generations tell the loaded machine from
  the one it was loaded into; blobs are empty or of two entries. One file is
  written, and it is cut where its logs hold something, after every token. A
  stream that is not whole meets a machine built as the saved one was; a whole one
  meets every combination of memory size, boot ROM, card ROM and discs.
* *Drives, folders and images.* Sectors of two units, transfers of up to two
  sectors, two discs, a CD with an audio block; folders of three entries with a
  folder among them; cue sheets of three tracks; UDIF images of two tables with
  a hole; every table of code lengths up to three bits and every text of three
  tokens.
* *Numbers.* A double has 4 bits of precision and 4 of exponent, a single 2 and
  3: the operands are zero, denormals, both sides of one, the ends of the range,
  infinity and NaNs, with fractions at their edges, wide enough that every
  rounding, tie, tiny and huge case occurs. Integer words have 4 bits. In the
  vector unit a byte has 5, its lanes hold the edges of their range in every
  pairing, and the doubles that its singles (3 bits and 3) are widened to have 6
  and 4, enough to hold every single and every product of two exactly.

### Fairness

* `RealtimeLoop`: weak fairness of its next-state relation as a whole. One thread
  runs the loop and does nothing else (`MachineSession.Run` calls `opm_run` for
  as long as the machine lives); nothing is assumed about which instruction the
  guest runs, how late the host ends a wait, or what the devices ask for.
* `GuestLoops`: the processor executes the next instruction of the loop
  it is in. Interrupts and faults may cut in up to a bound.
* `devices`: the clock ticks, devices are serviced, and a driver that has begun
  goes on: the run loop does the first two for as long as the machine lives, and
  the guest's driver is code it runs. A step of the USB polling driver is
  strongly fair, because a frame may take away what it was about to look at.
* `storage`: device service goes on.

No other fairness is assumed: which command a guest sends, when the host ejects
or inserts, and when a device raises its line are free.

## Findings

Each is a line of the repository that the code does not keep to.

1. `jit.cpp:580` says the counters are settled "before every shim call, and on
   every exit". A floating-point handler is called with them still in `rbx`
   (`jit.cpp:886`), and when it raises an enabled exception the test at
   `jit.cpp:948` leaves the block without a flush: `jit_traps`.
2. `hfs.cpp:564` says names must be unique "AFTER MacRoman folding". The clash
   test compares exact names while the catalog's search folds case, so two names
   that differ in case only are both on the volume and one is never found:
   `hfs_twins`.
3. `ata.cpp:549` says `dmaTake` goes on until "the drive has nothing left to
   give". A packet device's drained buffer is not given up, so a request longer
   than the command's data never returns: `cd_dma_drain`.
4. `test_dropbox.cpp:421` says of a disc published while another waits: "A newer
   image replaces the waiting one". With the tray open `hostSwap` puts the newer
   disc in at once and leaves the older one staged (`ata.cpp:75`), so the older one
   goes in after the next eject: `disc_order`. The test publishes with the tray
   closed. `medium.passed` marks such a publication; `LatestDiscWins`, in
   `TransfersAreWhole`, is the same sentence for every other one.

Seen beside them, where the repository's words leave room for the code, or where
the disagreement is one of comment only. None of these is a run.

*Run loop and clock*

* `cpu.cpp:322` says an `mtmsr` that enables interrupts ends the batch; it ends it
  only when it puts the core to sleep, so the rest of the fetch line runs first.
  `LateByLessThanALine` bounds the consequence.
* `pace.hpp:234` says "floor: never overshoot". The bound leaves out `cycleAccum`,
  so when a step is shorter than a tick the last steps of a batch can run after
  the device deadline, by a fraction of a tick (`DeviceLateByLessThanATick`).
* `hostclock.hpp:61` says that with a coarse timer the host wait grows until it
  "stops waiting at all". The decay on the skip path, there so that the wait can
  come back (`WaitComesBack`), brings it back there too. `want` wraps near 2^64
  (`hostclock.hpp:211`).

*Processor and memory*

* `mmu.cpp:494` says every writer of a cache drops the fetch lines. HID0 and L2CR
  writes change which cache the long path consults and drop none; DCFI discards
  modified L2 lines (`exec_int.cpp:1075`); a write-through store does not update
  an L2 copy (`cache.cpp:359`, counted by `noteL2Skew`). A guest that follows the
  manual cannot tell.
* The reservation is not snooped by bus masters, though `exec_int.cpp:746` says
  "bus-snooped".
* Back-reference lists of the JIT fill with dead sites of evicted blocks
  (`jit.cpp:305`): a lost link, never a wrong one.
* A single-precision operation on operands that are not singles, with the overflow
  or underflow exception enabled, lets the adjusted exponent run into the sign
  bit (`packExact`). `softfp.cpp:709` claims an exact shift that can lose a
  sticky bit. `softfp.cpp:307` says the host "can produce the model's exact answer"
  for singles; a result that rounds up to the smallest normal number raises
  underflow in the model and not on the fast path (the exception in `FastIsModel`).

* `altivec.cpp:927` calls `sglGreater` an "ordered compare on single bit patterns".
  For two numbers of one sign it returns `(mx > my) != sx`, which is true for two
  *equal* negative ones: `vcmpgtfp` calls -1 greater than -1, and `vcmpbfp` puts a
  value at exactly minus its bound below it. `FloatsAreOrdered` says what the lane
  is marked for, with that case (`EqualNegatives`).

*Interrupts, DMA and sound*

* `openpic.cpp:54` speaks of unmasking a held *level* line, and `:150` of an edge
  that is consumed. Any write of the register with the mask bit clear re-pends
  any held line, so an edge-sensitive source whose line stays high can be
  answered twice for one edge.
* A control write of WAKE after a STOP or a FLUSH runs the list without setting
  ACTIVE, and leaves a stream mid-descriptor with `parked()` false; RUN and WAKE
  raised in one write walk the list twice and move the same data twice. Both need
  `Careful = FALSE`. An OUTPUT of length zero never completes (`dbdma.cpp:287`).
* The play cursor is absolute (`awacs.cpp:141`), so a timebase written backwards
  stops the sound until the clock has come back.

*Drives, USB and the byte handshakes*

* `ata.cpp:610` says that reading the data register with no data phase open must be
  inert. For a packet device it is not while the drained buffer of finding 3
  stands: the read completes a latched command before it has run, or clears the
  error of a refused one. `c.poked` records it; `OnlyLeftoversAnswer` says that
  nothing else gets such an answer, and `BusyUntilRun` and `ReadsAreWhole` hold
  without it.
* SRST leaves an open ATA data phase open. An unknown packet command raises no
  interrupt, while the comment in `diskCommand` says an aborted command must.
  `AtaCell::tick` overwrites `dev_` with the latched value. A read cut short by
  `hostEject` ends as an ordinary short completion. A timebase written backwards
  delays deferred commands and makes a staged swap immediate.
* An OHCI host-controller reset keeps `doneHead_`. A click between two polls is
  lost; a report is drained even if the descriptor has no buffer; `keyEvent` after
  `typeChord` can put a held modifier and the key in one report.
* The PMU's frame is not reset without a read phase, and its T1 and T2 flags
  cannot be acknowledged by writing IFR. A second Cuda packet inside the think
  time of the first is clobbered.

*Graphics cards*

* `engBlit`'s test that a blit fits video memory looks only at the first pixel of
  the last row (`r128.cpp:1811`); a rectangle that starts at a negative coordinate
  declines the whole blit (`r128.cpp:1793`).
* Two INDSIZE writes in one packet are spliced in reverse order, and both use the
  latest INDOFF. A GART miss in an indirect body truncates it silently, while the
  ring path parks.
* A narrow store to GEN_INT_STATUS merges the current bits and so acknowledges a
  latched blank (`r128.cpp:2163`); enabling the blank with a stale latched status
  raises the line inside the store (`r128.cpp:2213`).

*Snapshots, folders and images*

* HID reports and command packets that are staged are not in the stream: a fresh
  run resumes without them (`half`), and a machine saved in that moment is not
  altogether the one resumed. A CD's identity is its size. Loading back into the
  machine that was saved keeps what is staged, ORs in the live ejected bit of a
  tray, and always ejects and stages the disc of the third drive. The watched
  address and, if it was given, the compression of the timebase are the command
  line's and not the stream's.
* A MacBinary file cut by less than 128 bytes passes the sniff (`hfs.cpp:270`) and
  then fails the whole share (`hfs.cpp:1008`). Symbolic links are followed though
  `hfs.cpp:638` says they are skipped. An unreadable subfolder is shared as empty
  (`hfs.cpp:570`). An exception after the image was opened leaves a partial one
  (`hfs.cpp:1020`).
* Good sectors behind a bad chunk of the same UDIF block read as zeros
  (`cdimage.cpp:961`).

## Proofs

All are for every value of the constants that satisfies the named assumptions.

*Arithmetic* (`Timebase`). What `Tick` conserves (`TickFacts`), that a quotient is
the only one that fits (`DivUnique`), and that ticking by a sum is ticking by its
parts, in the timebase and in the decrementer (`WholeCompose`, `TickCompose`).
The last is what lets a batch be compared with its steps.

*Run loop* (`RunLoopProofs`). All rest on `TimebaseConstants`, `LoopConstants` and
`BatchFitsDecrementer`: no batch is half a decrementer range long (2^31 ticks;
the code's comment on `clockAdvance` says no caller passes that many), so DEC
changes sign at most once inside one.

* `TypeSafe`, `CyclesConserved`, `DecrementerNeverMissed`. `NoMissedDecrementer` is
  not inductive: it says that the *current* debt raises no request, and nothing
  about the debt after the next step. `IInv` adds `BatchShort`, that even with
  everything the rest of the batch may charge, the step before the last stays
  short of the request. It is established by `StepsUntilDec` when the batch is
  sized, kept by every step (which moves one step's cycles from "may charge" to
  "charged") and by a clock reader's sync (which moves them on into the clock),
  and becomes void when an instruction that writes DEC or TB ends the batch.
* `LateInsideOneLine`, `DeviceLateByLessThanATick`, `DeviceNeverOverdue`, from
  `LoopInv`: `IInv` with `DeviceRoom` (what the batch may still charge ends within
  one tick of the deadline), `BatchAlive` (inside a batch there is a step left to
  run), `LineAwake` (a line is run by a core that is awake) and `LateInLine` (what
  is late, is late by words of the line that is being run).
  `DeviceNeverOverdue` and `BatchingIsExact` have the hypothesis
  `CyclesPerTbTick <= CyclesPerStep`. The default is 4 cycles per tick and 1 per
  instruction, so it holds when `extraCycles(fastTb)` is at least 3. Without it
  the strict form is false, and the theorem without hypothesis,
  `DeviceLateByLessThanATick`, says how late a device can be looked at.
* `BatchingIsExact`: `RunLoop` implements `StepLoop`. The mapping settles the debt
  (`Tick` of the clock by what is charged). Choosing a batch and leaving it map to
  stuttering, a word of a line and a slow step to one instruction, a nap skip to
  the run of sleeping steps it stands for.

*Caches* (`CacheProofs`). `CleanCopiesAlwaysAgree`, `FetchHitsAreCurrent` and
`HierarchyIsOneMemory`, for any blocks, values, ways, fetch slots and page
attributes, and a guest that is `Disciplined`: it follows the processor manual
(a cache is enabled, disabled or invalidated when it is empty or clean, the L2 is
flushed before it is invalidated or disabled, no write-through page while the L2
is on). `CleanCopiesAgree` alone is not inductive: a clean L2 copy below a
modified L1 line, a modified line in a disabled cache or a fetch line whose cache
was replaced would break it a step later. `CInv` says for each block which of its
copies may differ from the one below (`CellOk`), which caches may hold lines in
which mode, and that a fetch line is what the long path would fetch. The helpers
(fill, castout, touch, snoop) each work on one or two blocks and either keep the
value of every block (`Good`) or give one block a new one (`Wrote`). There is one
lemma per helper and one per action. The line that is replaced is arbitrary, so
nothing rests on ages or on the number of ways. In the refinement the abstract
store is the newest copy of each block; a load, a fetch and a DMA read map to
`Read`, a store, dcbz and a DMA write to `Write`, dcbi and DCFI to `Discard`, and
every other step to `Keep`, which leaves the store as it is. What a discard may
bring back, `older`, is the block's copy in memory and in the L2; `Aged` says of
every step that those copies hold only values some copy of the block held before,
or its newest value, so the refinement also says that no value is made up on the
way down. Since each abstract action requires the request it answers in `last`, no
step may pass for a discard that is not dcbi or DCFI.

*Compiled lines* (`JitProofs`). `CompiledCodeIsCurrent`, `LinksCanBeUndone`,
`CountersAreSettled`, `HopsAreDispatches` and `CacheWithinItsLimits`, for any size
of line, page, memory, slot table, cache, arena and site list, any program, any
writes and any budget (`JitConstants`: memory is whole pages, a word is one the
emitter knows and branches inside memory). None of the properties is inductive:
whether a hop lands in current code depends on every link that could be taken
later. `JitInv` adds three things.

* `CodeOk`: a way that describes a line owns a block of the arena with that base
  and address, compiled from the words that are resident *if* the line is; every
  link out of such a block leads to a way that describes the target's line, has
  that block, and has the site on record; a list of sites is within its limit.
  Blocks no way describes are garbage and nothing is said of them. The helpers
  have a lemma each: `sever` with the ways it kills (`KillKeeps`), a refill, a
  full arena, an installed block, a resolved, parked or missed site.
* `InsideBlock`: while emitted code runs, some way describes its block, the line
  under it is resident with its words, the one-page translation leads there,
  nothing asked for the end of the batch, and what is left of the line fits the
  budget. A store breaks this only by dropping a fetch line (`Dropped`), which
  is what `flCheck` tests; a remap only together with the end of the batch.
* `Behind`: the counters lag by exactly what `rbx` holds and pc by the words
  since the last flush, unless a floating-point trap was taken (finding 1).

Every way into a block (`jitRunLine`, a loop inside the line, a hop) is one lemma,
`EnteredBlock`; `ChainStep` gives it its premises from a link and `chainChecks`, and
gives `HopIsDispatch` on the way.

*Address translation* (`MmuProofs`). `TlbsAreSound`, `StoresAreAccounted` and
`AnswersStayCurrent`, for any pages, table, hash, number of slots and BATs and any
values software puts in the registers (`MmuConstants`, which `MCMemory` has TLC
evaluate on the run's instance: table entries and registers have the values the
constants list, the hash of a page is a group, the reset values are among them).
None of the three is inductive: a TLB copy without C would let a store through
unmarked if the walk trusted it, and a one-page cache answers without looking at
anything but its key. The argument has two levels.

* A walk is a function of the table, the TLBs and their LRU bits. `WalkOk` is what
  it finds and leaves: an entry of the table or of a TLB is one software has
  written and not yet invalidated; a TLB copy, unless software has rewritten its
  entry since, is backed by a table entry with R set and with C if the copy has
  it; and a set holds a page once. `Grows` says that all a walk does to the table
  is to set R and C, and `Good` is what its answer is worth. There is a lemma for
  each way an answer comes about (a BAT, a TLB hit, a hit that must be dropped
  because a store finds it unchanged, the search of both hash groups). The search
  takes the first slot that matches, which exists because the naturals are
  well-founded (`LeastOf`).
* Around it `FrontsOk` says that a one-page cache holds an answer that was right for
  the registers in its key, and that the one for stores leads to a page already
  marked changed; `StoresOk` accounts for the pages stored to since software last
  rewrote their entry. Every action that changes a register, a BAT, a segment, the
  table or a TLB drops the caches it must, or leaves the key different.

*Vertical blank* (`VBlank`). `GateCannotBeNoticed` and `BlankKeepsItsFrame`, which
together are `BlankArrivesOnTime` (the run's `BlankIsOnTime`), and the action property
`NoBlankWithinAFrameOfArming`, for any frame length, any jumps of the timebase and any
accesses (`BlankConstants`, evaluated on the run's instance in `MCCells`). The gate's
promise is inductive only with what the gate remembers: until something opens
it, its deadline is not after the display's next event and its line is the
display's (`BlankInv`). The lemma that carries it, `TickBeforeDeadline`, says that
a tick before `nextTickTb` does nothing but note the time.

*Pacer* (`HostPacer`). `TypeSafe` and `GuestSecondIsReal`. `PacedByHost`
speaks of the moment after a sync; `PacerInv` says what the origin is in
between: the point at which the clock was last set from outside, or, once a
stall has been forgiven, a later one that gave time away. The step that needs
an argument is a hand-over after a slip, where the floors of two intervals add
up to at most the floor of their sum.

*Interrupt controller* (`OpenPic`). `TypeSafe`, `LevelsAreKept` and
`EdgesAreKept`, for any set of source numbers and any number of priorities
(`PicConstants`). The three together are inductive: what a level keeps pending
after an acknowledge is its line, and an edge's debt is paid only by the
acknowledge that returns its source. The step that needs an argument is
`highestPending`: that among the deliverable sources there is one of the highest
priority with the smallest number, from the well-foundedness of the naturals.

### Only model-checked

* All liveness (`CallReturns`, `DecrementerWakes`, `WaitComesBack`,
  `LoopsEndRight`, `RingIsServed`, `DriversFinish`, `SwapIsMade`): out of the
  prover's reach.
* What walks data by recursion: the DBDMA engine, blits, packets, the USB lists,
  folders, images, Huffman codes, floating point and the snapshot stream. Their
  value for every input would need induction.
* `BlankIsOnTime`'s neighbours in `cells` that walk a list or a stream
  (`ChannelIsSound`, `PicturesAreExact`, `ResumeIsExact`) for the same reason, and
  the bound on the number of lines in a set in `Cache`'s type invariant.

## What is not modelled, and why

* In the run loop: SMI (nothing raises it), machine checks and the contents of
  SRR0/SRR1. The timebase does not wrap at 2^64.
* In the caches: a guest that breaks the manual's protocol. The *code* then loses
  data on purpose, as the hardware does.
* The decoder and its table, which have no state, and two vector instructions,
  `vlogefp` and `vexptefp`: fixed polynomials, covered by the repository's
  known-answer tests. `dblAddFast` and `dblFmaFast`: the band of
  operands they admit is wider than a format small enough to enumerate.
* The 3D pipeline: pixels from vertices, without state of its own beyond
  registers that are stored and read back.
* Sound capture, the codec's registers and the ring of PCM the host drains.
* PCI configuration space, Gossamer's registers and NVRAM: stored values.
* The older machine, the command-line tools (but for g4run's resume and verify) and
  the shell: host I/O; the shell's threads meet the machine only through `opm_*`
  calls that the shell serialises.
* Parts that are only partly modelled say which part in `PROJECT.json`.

## Plan

1. Done: the clock, the run loop, real time, memory, the processor, interrupts,
   DMA and sound, the devices, snapshots, storage, arithmetic and vectors.
2. Proofs done: the run loop with its refinement, the caches with theirs, the
   compiled lines, address translation, the vertical blank, the pacer, the
   interrupt controller.
3. Left: the bound on the lines of a set in `Cache`, from the library's theorems on
   cardinality; the root hub (`PortsAreSound`), the next component whose state is
   not a list; capture in `Sound`.
