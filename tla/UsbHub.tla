------------------------------- MODULE UsbHub -------------------------------
(***************************************************************************)
(* The root hub of an OHCI controller: two ports, the first with a HID     *)
(* device behind it.  Power-on, connection and reset take frames; every    *)
(* change of a port raises RHSC in the interrupt status.  In the live      *)
(* model a port without power senses nothing; the older model reports the  *)
(* device from power-on and keeps power as a bit with no effect.           *)
(*                                                                         *)
(* The hub driver is the guest: it acknowledges RHSC, clears the change    *)
(* bits of each port and then reads the port.  Anything else in the guest  *)
(* may issue port commands at any time.                                    *)
(***************************************************************************)
EXTENDS Naturals, FiniteSets

CONSTANTS Ports, Populated, ConnectFrames, ResetFrames, MaxCommands

VARIABLES live,   \* livePortPower, chosen at machine construction
          hub,    \* the registers and timers of the root hub
          drv,    \* the driver's handler: what it still has to do
          known,  \* the connection the driver last read at each port
          asked,  \* ports whose own power switch was used
          left    \* port commands the guest will still issue

vars == <<live, hub, drv, known, asked, left>>

Changes == {"CSC", "PRSC"}
PortBits == {"PPS", "CCS", "PES", "PRS"} \cup Changes
Commands == {"SetEnable", "ClearEnable", "SetReset", "SetPower", "ClearPower"}

Init ==
  /\ live \in BOOLEAN
  /\ hub = [port |-> [n \in Ports |-> IF live \/ n \notin Populated THEN {}
                                      ELSE {"CCS", "CSC"}],
            power |-> [n \in Ports |-> 0], reset |-> [n \in Ports |-> 0],
            rhsc |-> FALSE, potpgt |-> 1,
            switched |-> IF live THEN Ports ELSE {}]
  /\ drv = [at |-> "new", todo |-> {}]
  /\ known = [n \in Ports |-> FALSE]
  /\ asked = {}
  /\ left = MaxCommands
-----------------------------------------------------------------------------
(* The hub's own procedures. *)

\* rhSignal: a change bit that was clear and is now set.
RhSignal(before, h, n) ==
  [h EXCEPT !.rhsc = @ \/ (h.port[n] \ before) \cap Changes # {}]

\* The driver's delay on top of the fixed one.
PowerFramesBoth(h) == ConnectFrames + 2 * h.potpgt

PowerFrames(h) == IF h.potpgt = 0 THEN ConnectFrames ELSE 2 * h.potpgt

PortPowerOn(h, n) ==
  IF "PPS" \in h.port[n] THEN h
  ELSE [h EXCEPT !.port[n] = @ \cup {"PPS"},
                 !.power[n] = IF n \in Populated THEN PowerFrames(h) ELSE 0]

\* Forgets the timer of a reset that is running.
PortPowerOffKeep(h, n) ==
  RhSignal(h.port[n],
           [h EXCEPT !.port[n] = (@ \cap Changes) \cup
                                 (IF "CCS" \in @ THEN {"CSC"} ELSE {}),
                     !.power[n] = 0], n)

PortPowerOff(h, n) ==
  RhSignal(h.port[n],
           [h EXCEPT !.port[n] = (@ \cap Changes) \cup
                                 (IF "CCS" \in @ THEN {"CSC"} ELSE {}),
                     !.power[n] = 0, !.reset[n] = 0], n)

\* The power bits of a port register write: off before on.
PowerBits(h, n, v) ==
  IF live
  THEN LET off == IF "ClearPower" \in v THEN PortPowerOff(h, n) ELSE h
       IN  IF "SetPower" \in v THEN PortPowerOn(off, n) ELSE off
  ELSE LET on == IF "SetPower" \in v THEN h.port[n] \cup {"PPS"} ELSE h.port[n]
       IN  [h EXCEPT !.port[n] = IF "ClearPower" \in v THEN on \ {"PPS"} ELSE on]

Connected(h, n) == IF live THEN "CCS" \in h.port[n] ELSE n \in Populated

\* The enable and reset bits of a port register write; clears are v's change
\* bits, written one to clear.
PortBitsWrite(h, n, v) ==
  LET p0 == h.port[n]
      dead == ~Connected(h, n) /\ v \cap {"SetEnable", "SetReset"} # {}
      p1 == p0 \cup (IF dead THEN {"CSC"} ELSE {})
               \cup (IF "SetEnable" \in v /\ ~dead THEN {"PES"} ELSE {})
      p2 == IF "ClearEnable" \in v THEN p1 \ {"PES"} ELSE p1
      starts == "SetReset" \in v /\ ~dead
      p3 == IF starts THEN p2 \cup {"PRS"} ELSE p2
  IN  RhSignal(p0, [h EXCEPT !.port[n] = p3 \ v,
                             !.reset[n] = IF starts THEN ResetFrames ELSE @], n)

WritePortReg(h, n, v) == PortBitsWrite(PowerBits(h, n, v), n, v)
-----------------------------------------------------------------------------
(* Register writes. *)

WritePort(n, v) ==
  /\ left > 0 /\ left' = left - 1
  /\ hub' = WritePortReg(hub, n, v)
  /\ asked' = IF "SetPower" \in v THEN asked \cup {n}
              ELSE IF "ClearPower" \in v THEN asked \ {n} ELSE asked
  /\ UNCHANGED <<live, drv, known>>

\* HcRhStatus: a global power command reaches the ports without a switch.
WriteStatus(on) ==
  /\ left > 0 /\ left' = left - 1
  /\ hub' = IF ~live THEN hub
            ELSE LET reach == Ports \ hub.switched
                     f[S \in SUBSET reach] ==
                       IF S = {} THEN hub
                       ELSE LET n == CHOOSE n \in S : TRUE
                            IN  IF on THEN PortPowerOn(f[S \ {n}], n)
                                ELSE PortPowerOff(f[S \ {n}], n)
                 IN  f[reach]
  /\ UNCHANGED <<live, drv, known, asked>>

WriteDescA(p) ==
  /\ left > 0 /\ left' = left - 1
  /\ hub' = [hub EXCEPT !.potpgt = p]
  /\ UNCHANGED <<live, drv, known, asked>>

\* HcRhDescriptorB is taken as a preference of the driver.
SwitchesWritable(h, S) == S

\* HcRhDescriptorB is board wiring in the live model.
Switches(h, S) == IF live THEN h.switched ELSE S

WriteDescB(S) ==
  /\ left > 0 /\ left' = left - 1
  /\ hub' = [hub EXCEPT !.switched = Switches(hub, S)]
  /\ UNCHANGED <<live, drv, known, asked>>

\* Clears the interrupt status and says nothing of a change still standing.
ResetStatusQuiet(h) == [h EXCEPT !.rhsc = FALSE]

\* HCR: the interrupt status restarts, and a standing change owes an RHSC.
ResetStatus(h) ==
  [h EXCEPT !.rhsc = \E n \in Ports : h.port[n] \cap Changes # {}]

\* A guest that resets the controller has to service the ports again.
HcReset ==
  /\ drv.at \in {"new", "idle"}
  /\ drv.at = "new" \/ left > 0
  /\ left' = IF drv.at = "new" THEN left ELSE left - 1
  /\ hub' = ResetStatus(hub)
  /\ drv' = [drv EXCEPT !.at = "idle"]
  /\ UNCHANGED <<live, known, asked>>
-----------------------------------------------------------------------------
(* One frame of the root hub, whether or not the controller is operational. *)

\* The connection is established but not announced.
PowerGoodQuiet(h, n) ==
  IF h.power[n] = 0 THEN h
  ELSE IF h.power[n] > 1 THEN [h EXCEPT !.power[n] = @ - 1]
  ELSE [h EXCEPT !.power[n] = 0, !.port[n] = @ \cup {"CCS"}]

PowerGood(h, n) ==
  IF h.power[n] = 0 THEN h
  ELSE IF h.power[n] > 1 THEN [h EXCEPT !.power[n] = @ - 1]
  ELSE RhSignal(h.port[n], [h EXCEPT !.power[n] = 0,
                                     !.port[n] = @ \cup {"CCS", "CSC"}], n)

\* The reset counts down only while the port is enabled.
ResetDoneEnabled(h, n) ==
  IF h.reset[n] = 0 \/ "PES" \notin h.port[n] THEN h
  ELSE IF h.reset[n] > 1 THEN [h EXCEPT !.reset[n] = @ - 1]
  ELSE RhSignal(h.port[n],
                [h EXCEPT !.reset[n] = 0,
                          !.port[n] = (@ \ {"PRS"}) \cup {"PES", "PRSC"}], n)

ResetDone(h, n) ==
  IF h.reset[n] = 0 THEN h
  ELSE IF h.reset[n] > 1 THEN [h EXCEPT !.reset[n] = @ - 1]
  ELSE RhSignal(h.port[n],
                [h EXCEPT !.reset[n] = 0,
                          !.port[n] = (@ \ {"PRS"}) \cup {"PES", "PRSC"}], n)

EachPort(Op(_, _), h) ==
  LET f[S \in SUBSET Ports] ==
        IF S = {} THEN h
        ELSE LET n == CHOOSE n \in S : TRUE IN Op(f[S \ {n}], n)
  IN  f[Ports]

Tick ==
  /\ hub' = EachPort(ResetDone, EachPort(PowerGood, hub))
  /\ UNCHANGED <<live, drv, known, asked, left>>
-----------------------------------------------------------------------------
(* The guest's hub driver. *)

\* HcInterruptStatus, written one to clear.
AckRhsc ==
  /\ drv.at = "idle" /\ hub.rhsc
  /\ hub' = [hub EXCEPT !.rhsc = FALSE]
  /\ drv' = [at |-> "handling", todo |-> Ports]
  /\ UNCHANGED <<live, known, asked, left>>

ClearChanges(n) ==
  /\ drv.at = "handling" /\ n \in drv.todo
  /\ hub' = WritePortReg(hub, n, Changes)
  /\ drv' = [drv EXCEPT !.at = n]
  /\ UNCHANGED <<live, known, asked, left>>

ReadPort(n) ==
  /\ drv.at = n
  /\ known' = [known EXCEPT ![n] = "CCS" \in hub.port[n]]
  /\ drv' = IF drv.todo = {n} THEN [at |-> "idle", todo |-> {}]
            ELSE [at |-> "handling", todo |-> drv.todo \ {n}]
  /\ UNCHANGED <<live, hub, asked, left>>

Driver == AckRhsc \/ \E n \in Ports : ClearChanges(n) \/ ReadPort(n)

Guest ==
  \/ \E n \in Ports, v \in SUBSET Commands : Cardinality(v) \in 1..2 /\ WritePort(n, v)
  \/ \E on \in BOOLEAN : WriteStatus(on)
  \/ \E p \in 0..1 : WriteDescA(p)
  \/ \E S \in {{}, Ports} : WriteDescB(S)
  \/ HcReset

Next == Tick \/ Driver \/ Guest

Spec == Init /\ [][Next]_vars /\ WF_vars(Tick) /\ WF_vars(Driver)
-----------------------------------------------------------------------------
TypeOK ==
  /\ live \in BOOLEAN
  /\ hub \in [port: [Ports -> SUBSET PortBits],
              power: [Ports -> 0..ConnectFrames],
              reset: [Ports -> 0..ResetFrames], rhsc: BOOLEAN,
              potpgt: 0..1, switched: SUBSET Ports]
  /\ drv \in [at: {"new", "idle", "handling"} \cup Ports, todo: SUBSET Ports]
  /\ known \in [Ports -> BOOLEAN] /\ asked \subseteq Ports
  /\ left \in 0..MaxCommands

\* In the live model nothing is enabled, resetting or connected on a port that
\* has lost what it stands on, however commands and frames interleave.
PortOrder ==
  live => \A n \in Ports :
            /\ hub.port[n] \cap {"PES", "PRS"} # {} => "CCS" \in hub.port[n]
            /\ "CCS" \in hub.port[n] => "PPS" \in hub.port[n]
            /\ hub.reset[n] > 0 <=> "PRS" \in hub.port[n]

\* A driver that acknowledges, clears and then reads never settles on a wrong
\* view: once it is idle and no RHSC waits, it knows each port's connection.
NoMissedConnect ==
  drv.at = "idle" /\ ~hub.rhsc =>
    \A n \in Ports : known[n] = ("CCS" \in hub.port[n])

\* Each port has its own switch in the live model: a device attaches only to a
\* port somebody powered by name, never through a global power command.
OwnSwitchOnly ==
  live => \A n \in Ports : "CCS" \in hub.port[n] => n \in asked

\* A port that waits for power-good or for its reset to end.
Settling == \E n \in Ports : hub.power[n] > 0 \/ "PRS" \in hub.port[n]

\* Power-good and reset always come to an end.
PortSettles == Settling ~> ~Settling
=============================================================================
