------------------------------ MODULE MCDevices -----------------------------
(***************************************************************************)
(* Devices and the drivers that wait for them, on small instances and      *)
(* explored one at a time while the others stand as they were built: the   *)
(* sound ring with its channel, driver and controller (Sound), the USB     *)
(* root hub (UsbHub) and transfer lists (UsbLists), the VIA with the Cuda  *)
(* (MacIo), the PMU (Pmu), the Rage 128's command stream (Cce), the Rage   *)
(* Pro's beam and palette and the monitor's data channel (AtiRage).        *)
(***************************************************************************)
EXTENDS Integers, Sequences, TLC

VARIABLES
  part,
  ringCh, pulled, ahead, line, ringPic, touched, cpuIrq, doing, waited, overdue,
  live, hub, hubDrv, known, asked, left,
  hid, c, listDrv, given,
  prog, x, cudaHost,
  p, pmuHost,
  sent, pos, stream, regs, log, ram, gart, cmdRing, fetched, machines,
  beam, sticky, crtc, goal, modes,
  dac, pal, job, meant, jobs,
  bus, wires, slave, todo, got, off, tries

sound == <<ringCh, pulled, ahead, line, ringPic, touched, cpuIrq, doing, waited,
           overdue>>
ports == <<live, hub, hubDrv, known, asked, left>>
lists == <<hid, c, listDrv, given>>
cuda == <<prog, x, cudaHost>>
pmu == <<p, pmuHost>>
cce == <<sent, pos, stream, regs, log, ram, gart, cmdRing, fetched, machines>>
screen == <<beam, sticky, crtc, goal, modes>>
palette == <<dac, pal, job, meant, jobs>>
monitor == <<bus, wires, slave, todo, got, off, tries>>
all == <<part, sound, ports, lists, cuda, pmu, cce, screen, palette, monitor>>
-----------------------------------------------------------------------------
\* A slice is a quarter of the FIFO, as the OS driver's is.
S == INSTANCE Sound WITH
       MaxSteps <- 12, MaxIdle <- 5, Fifo <- 8, Slice <- 2, Snd <- 9,
       Other <- 19, None <- 0, Latency <- 1, Late <- 0,
       ch <- ringCh, pic <- ringPic

H == INSTANCE UsbHub WITH
       Ports <- {"p1", "p2"}, Populated <- {"p1"}, ConnectFrames <- 3,
       ResetFrames <- 2, MaxCommands <- 3, drv <- hubDrv

U == INSTANCE UsbLists WITH
       TDs <- {"t1", "t2", "t3", "t4"}, Nil <- "nil", ListLimit <- 2,
       MaxDelta <- 2, Slots <- 1, Keys <- {"a", "b"}, Mods <- {"shift"},
       Moves <- {0, 3}, MaxWork <- 2, ResetsBusy <- FALSE, drv <- listDrv

K == INSTANCE MacIo WITH
       Think <- 2, SyncTicks <- 2, TimeMod <- 4, RtcBase <- 3,
       TimerLoads <- {0, 2}, MaxPackets <- 3, host <- cudaHost

P == INSTANCE Pmu WITH MaxCommands <- 3, host <- pmuHost

\* Bytes of the EDID have three bits: the Rage Pro is read two bytes at a time,
\* the Rage 128 one.
A == INSTANCE AtiRage WITH
       Modes <- {[total |-> 4, disp |-> 2], [total |-> 6, disp |-> 4],
                 [total |-> 2, disp |-> 1]},
       Fallback <- [total |-> 5, disp |-> 4], LineTicks <- 2, MaxModes <- 3,
       Entries <- 2, Levels <- {0, 1}, MaxJobs <- 2,
       Width <- 3, Edid <- <<5, 2, 6, 1, 3, 4, 7, 0>>, SlaveAddr <- 2,
       Offsets <- {0, 7},
       Masters <- {[card |-> "pro", count |-> 2], [card |-> "r128", count |-> 1]},
       line <- wires, dev <- slave
-----------------------------------------------------------------------------
(* Command streams.  RAM has eight pages of two words, the ring is in       *)
(* aperture pages 0-1 and the indirect bodies A, B and the cyclic C behind  *)
(* it: A draws, dispatches B and draws again, C dispatches itself.  Data    *)
(* read as a header would swallow the words behind it.                      *)

Data(v) == [t |-> 3, n |-> 5, one |-> FALSE, r1 |-> 9, r2 |-> 0, v |-> v]
T0(r, n, one) == [t |-> 0, n |-> n, one |-> one, r1 |-> r, r2 |-> 0, v |-> 77]
T1(r1, r2) == [t |-> 1, n |-> 2, one |-> FALSE, r1 |-> r1, r2 |-> r2, v |-> 77]
T2 == [t |-> 2, n |-> 0, one |-> FALSE, r1 |-> 0, r2 |-> 0, v |-> 77]
T3(op, n) == [t |-> 3, n |-> n, one |-> FALSE, r1 |-> op, r2 |-> 0, v |-> 77]

\* Registers of the packets: the body's address, its length, a draw, a fence.
IndOff == 0
IndSize == 1
Draw == 2
Fence == 3

BodyA == 4 + 4      \* aperture pages 2, 3, 4
BodyB == 4 + 10     \* aperture page 5
BodyC == 4 + 12     \* aperture pages 6, 7

Bodies ==
  (BodyA :> <<T1(IndOff, IndSize), Data(BodyB), Data(2), T3(1, 1), Data(5), T2>>)
  @@ (BodyB :> <<T0(Draw, 1, FALSE), Data(6)>>)
  @@ (BodyC :> <<T0(IndSize, 1, FALSE), Data(3), T2, T2>>)

Gart == (0 :> 3) @@ (1 :> 2) @@ (2 :> 6) @@ (3 :> 4) @@ (4 :> 5) @@ (5 :> 1)
        @@ (6 :> 8) @@ (7 :> 7)

\* RAM: the words of the bodies where the GART puts them, data elsewhere.
RamAddress(agp) == Gart[(agp - 4) \div 2] * 2 + ((agp - 4) % 2)

Ram ==
  [a \in 0 .. 17 |->
     LET here == {<<b, i>> \in {BodyA, BodyB, BodyC} \X (1 .. 6) :
                    i \in DOMAIN Bodies[b] /\ RamAddress(b + i - 1) = a}
     IN  IF here = {} THEN Data(0)
         ELSE LET w == CHOOSE w \in here : TRUE IN Bodies[w[1]][w[2]]]

Via(how, words) == [i \in DOMAIN words |-> [via |-> how, w |-> words[i]]]

\* Dispatch A, then an operation nobody knows, then the fence.
FenceStream ==
  <<T0(IndOff, 2, FALSE), Data(BodyA), Data(6), T3(8, 2), Data(1), Data(2),
    T0(Fence, 2, TRUE), Data(7), Data(8)>>

\* The length is stored between the words of a two-register packet.
Interrupted ==
  Via("fifo", <<T0(IndOff, 1, FALSE), Data(BodyB), T1(Draw, Fence), Data(4)>>)
  \o Via("store", <<Data(2)>>) \o Via("fifo", <<Data(9)>>)

Cyclic ==
  Via("fifo", <<T0(IndOff, 2, FALSE), Data(BodyC), Data(3), T0(Fence, 1, FALSE),
                Data(7)>>)

CceProgram(mode, items, cyclic) ==
  [mode |-> mode, items |-> items, cyclic |-> cyclic]

CcePrograms ==
  {CceProgram("pio", Via("fifo", FenceStream), FALSE),
   CceProgram("ring", Via("fifo", FenceStream), FALSE),
   CceProgram("pio", Interrupted, FALSE),
   CceProgram("pio", Cyclic, TRUE)}

R == INSTANCE Cce WITH
       Programs <- CcePrograms, Memory <- Ram, GartFull <- Gart,
       LatePages <- {1}, PageWords <- 2, Aper <- 4, RingBase <- 4,
       RingWords <- 4, Budget <- 3, MaxBody <- 8, KnownOps <- {1},
       MaxMachines <- 2, prog <- sent, ring <- cmdRing

ASSUME DeviceConstants == S!EngineConstants /\ S!SoundConstants
-----------------------------------------------------------------------------
MCInit ==
  /\ part \in {"sound", "ports", "lists", "cuda", "pmu", "cce", "beam", "palette",
              "monitor"}
  /\ S!Init /\ H!Init /\ U!Init /\ K!Init /\ P!Init /\ R!Init /\ A!Init
  /\ part # "ports" => live
  /\ part # "lists" => hid = "mouse"
  /\ part # "cuda" => prog = "cuda"
  /\ part # "cce" => sent.mode = "ring"
  /\ part # "monitor" => bus.card = "pro" /\ off = 0

InSound(N) == part = "sound" /\ N
              /\ UNCHANGED <<part, ports, lists, cuda, pmu, cce, screen, palette, monitor>>
InPorts(N) == part = "ports" /\ N
              /\ UNCHANGED <<part, sound, lists, cuda, pmu, cce, screen, palette, monitor>>
InLists(N) == part = "lists" /\ N
              /\ UNCHANGED <<part, sound, ports, cuda, pmu, cce, screen, palette, monitor>>
InCuda(N) == part = "cuda" /\ N
             /\ UNCHANGED <<part, sound, ports, lists, pmu, cce, screen, palette, monitor>>
InPmu(N) == part = "pmu" /\ N
            /\ UNCHANGED <<part, sound, ports, lists, cuda, cce, screen, palette, monitor>>
InCce(N) == part = "cce" /\ N
            /\ UNCHANGED <<part, sound, ports, lists, cuda, pmu, screen, palette, monitor>>
InBeam(N) == part = "beam" /\ N
             /\ UNCHANGED <<part, sound, ports, lists, cuda, pmu, cce, palette, monitor>>
InPalette(N) == part = "palette" /\ N
                /\ UNCHANGED <<part, sound, ports, lists, cuda, pmu, cce, screen, monitor>>

InMonitor(N) == part = "monitor" /\ N
                /\ UNCHANGED <<part, sound, ports, lists, cuda, pmu, cce, screen, palette>>

\* What a guest may leave alone for good: the PMU between commands, the card
\* when all is submitted, the palette, the monitor.
Rest == /\ \/ part = "pmu" /\ pmuHost.at = "idle"
           \/ part \in {"cce", "palette", "monitor"}
        /\ UNCHANGED all

MCNext ==
  \/ InSound(S!Next) \/ InPorts(H!Next) \/ InLists(U!Next) \/ InCuda(K!Next)
  \/ InPmu(P!Next) \/ InCce(R!Next) \/ InBeam(A!Screen) \/ InPalette(A!Palette)
  \/ InMonitor(A!Monitor) \/ Rest
-----------------------------------------------------------------------------
(* What goes on by itself, part by part: device service and the frame,      *)
(* timer and beam ticks, and a driver that finishes what it has begun.      *)

Ticks ==
  \/ InSound(S!Tick) \/ InPorts(H!Tick) \/ InLists(U!Tick) \/ InCuda(K!Tick)
  \/ InCce(R!Doorbell) \/ InBeam(A!Tick)

Drivers ==
  \/ InSound(S!Driver) \/ InPorts(H!Driver) \/ InLists(U!Control)
  \/ InCuda(K!Transport) \/ InPmu(P!Driver)
  \/ InCce(R!FifoWord \/ R!IndirectStore \/ \E k \in 1 .. 3 : R!RingSubmit(k))
  \/ InBeam(A!WriteCrtc)

Services ==
  \/ InSound(S!Service) \/ InCce(R!MapPages) \/ InBeam(A!Acknowledge)
  \/ InLists(U!SetOperational \/ U!ReadDone \/ U!AckDone)

MCSpec ==
  /\ MCInit /\ [][MCNext]_all
  /\ WF_all(Ticks) /\ WF_all(Drivers) /\ WF_all(Services)
  /\ SF_all(InLists(U!Poll))
-----------------------------------------------------------------------------
\* "The driver wins the race the way it does on silicon": after some restarts
\* the ring never reaches its STOP and the codec never runs dry again.
RingIsServed == <>[](part = "sound" => ringCh.active /\ ahead > 0)

\* Root hub: nothing is enabled, resetting or connected on a port that has lost
\* what it stands on; a device attaches only to a port somebody powered by
\* name; and a driver that acknowledges before it reads never settles on a
\* wrong view of a connection.
PortsAreSound ==
  part = "ports" => /\ H!TypeOK
                    /\ H!PortOrder /\ H!NoMissedConnect /\ H!OwnSwitchOnly

\* Transfer lists: each descriptor is in one place only, a finished control
\* transfer has its address and its whole reply, no motion is lost or invented,
\* the newest report says what is held, and a modifier goes down before a key.
ListsAreSound ==
  part = "lists" => /\ U!TypeOK
                    /\ U!EachTdOnce /\ U!ControlComplete /\ U!MotionConserved
                    /\ U!NothingStuck /\ U!ModifierFirst

\* VIA, Cuda and PMU: a line is never asserted with its source unlatched, an
\* answer is the whole answer to its own command and says what was last set,
\* and the transport is at rest between packets.
AnswersAreWhole ==
  /\ part = "cuda" => K!TypeOK /\ K!NoLostVia /\ K!AnswerWhole /\ K!QuietAtRest
  /\ part = "pmu" => P!TypeOK /\ P!ReplyIsOwn /\ P!ResetActed

\* Display cards: the card has executed a prefix of what the driver's stream
\* means, in its order, whether the words came one store at a time or through
\* the wrapping ring, with pages of it mapped late and whatever a machine before
\* this one left half submitted; a body that dispatches itself costs a store no
\* more than the budget; the palette holds what the guest stored, component for
\* component, after runs abandoned in the middle of an entry; and bit for bit the
\* master of the monitor's bus reads the EDID from the offset it gave, also after
\* a transfer broken off anywhere.
CardsDoAsTold ==
  /\ part = "cce" => R!TypeOK /\ R!ExecutedInOrder /\ R!BudgetHolds
  /\ part = "palette" => A!PaletteAsStored
  /\ part = "monitor" => A!EdidAsRead
  /\ part \in {"beam", "palette", "monitor"} => A!TypeOK

\* Somebody waits: a device that shares the controller with the sound ring to
\* be served, a port for power-good or the end of its reset, injected input for
\* the wire, the Cuda's and the PMU's driver for its answer, the card's driver
\* for its last fence, the display driver for the next blank.
Waiting ==
  \/ part = "sound" /\ line
  \/ part = "ports" /\ H!Settling
  \/ part = "lists" /\ ~U!InputIdle
  \/ part = "cuda" /\ cudaHost.at # "idle"
  \/ part = "pmu" /\ pmuHost.at # "idle"
  \/ part = "cce" /\ ~sent.cyclic /\ machines = 2 /\ ~R!FenceLanded
  \/ part = "beam" /\ ~sticky

\* Nobody waits for ever.
DriversFinish == Waiting ~> ~Waiting
=============================================================================
