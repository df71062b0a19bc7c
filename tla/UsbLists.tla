------------------------------ MODULE UsbLists ------------------------------
(***************************************************************************)
(* The transfer lists of an OHCI controller and the one HID device behind  *)
(* it.  Transfer descriptors live in guest memory and are linked through   *)
(* their next field; the controller retires a descriptor by moving it onto *)
(* its done queue with the same field, and hands the queue over through    *)
(* the HCCA.  The driver refills the lists with what it gets back.         *)
(*                                                                         *)
(* Sizes are in units: a report and a packet are one unit, motion is one   *)
(* axis, a poll carries at most MaxDelta of it.                            *)
(***************************************************************************)
EXTENDS Integers, Sequences, SequencesExt, FiniteSets

CONSTANTS TDs, Nil,      \* the descriptors of the instance
          ListLimit,     \* descriptors one walk retires (64)
          MaxDelta,      \* a signed byte of motion (127)
          Slots,         \* keys a boot report can name (6)
          Keys, Mods, Moves,
          MaxWork,       \* input events, control transfers and resets in all
          ResetsBusy     \* the driver may reset with descriptors unreported

VARIABLES hid,    \* "mouse", "person" or "script": device and who types on it
          c,      \* the controller, its device and the descriptors in memory
          drv,    \* the driver
          given   \* ghosts: motion injected and reported, keys held, reply read

vars == <<hid, c, drv, given>>

Eps == {"ep0", "ep1"}
NoReport == [mod |-> {}, keys |-> {}]

\* The descriptors of a control transfer, in order.
Transfer == [get |-> <<"setup_get", "in", "in", "out">>,
             address |-> <<"setup_address", "in">>]
ReplySize == 2

Init ==
  /\ hid \in {"mouse", "person", "script"}
  /\ LET d0 == CHOOSE t \in TDs : TRUE
         d1 == CHOOSE t \in TDs \ {d0} : TRUE
     IN  /\ c = [dp |-> [t \in TDs |-> "none"], next |-> [t \in TDs |-> Nil],
                 head |-> [ep0 |-> d0, ep1 |-> d1], tail |-> [ep0 |-> d0, ep1 |-> d1],
                 doneHead |-> Nil, hcca |-> Nil, wdh |-> FALSE, op |-> FALSE,
                 reply |-> 0, pendAddr |-> 0, addr |-> 0,
                 pending |-> <<>>, acc |-> 0, btn |-> FALSE, sent |-> FALSE,
                 mod |-> {}, slots |-> {}]
         /\ drv = [free |-> TDs \ {d0, d1}, at |-> "idle", script |-> <<>>,
                   want |-> 0, work |-> 0]
  /\ given = [moved |-> 0, told |-> 0, wire |-> NoReport, down |-> {}, got |-> 0,
              last |-> "none"]
-----------------------------------------------------------------------------
(* Descriptors. *)

\* The queue link is left as the driver wrote it.
RetireKeepLink(x, t) == [x EXCEPT !.doneHead = t]

\* retire: the descriptor goes on the done queue, linked through next.
Retire(x, t) == [x EXCEPT !.next[t] = x.doneHead, !.doneHead = t]

\* The address is adopted by an OUT status stage only.
StatusInIgnored(x) == x

\* The status stage of a request without data is an IN.
StatusIn(x) ==
  IF x.reply = 0 /\ x.pendAddr # 0
  THEN [x EXCEPT !.addr = x.pendAddr, !.pendAddr = 0] ELSE x

StatusOut(x) ==
  IF x.pendAddr # 0 THEN [x EXCEPT !.addr = x.pendAddr, !.pendAddr = 0] ELSE x

\* Whatever did not fit the report is dropped.
TakeMotionAll(x) == [x EXCEPT !.acc = 0, !.sent = x.btn]

\* take: at most MaxDelta either way, the rest rides on the next poll.
Clamp(d) == IF d > MaxDelta THEN MaxDelta ELSE IF d < -MaxDelta THEN -MaxDelta ELSE d
TakeMotion(x) == [x EXCEPT !.acc = @ - Clamp(@), !.sent = x.btn]

BuildDescriptor(x, dp) ==
  IF dp = "setup_get" THEN [x EXCEPT !.reply = ReplySize]
  ELSE [x EXCEPT !.reply = 0, !.pendAddr = x.addr + 1]

\* A button that changes without motion is not news.
NakStill(x, ep) == ep = "ep1" /\ IF hid = "mouse" THEN x.acc = 0 ELSE x.pending = <<>>

\* The endpoint has nothing to say.
Nak(x, ep) ==
  ep = "ep1" /\ IF hid = "mouse" THEN x.acc = 0 /\ x.btn = x.sent
                ELSE x.pending = <<>>

\* doTd for a descriptor that is not refused: w is [x, g], the cell and the
\* ghosts.
DoTd(w, ep, t) ==
  LET x == w.x
      dp == x.dp[t]
  IN  CASE dp \in {"setup_get", "setup_address"} ->
             [x |-> Retire(BuildDescriptor(x, dp), t),
              g |-> [w.g EXCEPT !.got = 0, !.last = dp]]
        [] dp = "in" /\ ep = "ep0" ->
             LET moved == IF x.reply > 0 THEN 1 ELSE 0
             IN  [x |-> Retire(StatusIn([x EXCEPT !.reply = @ - moved]), t),
                  g |-> [w.g EXCEPT !.got = @ + moved]]
        [] dp = "in" /\ ep = "ep1" /\ hid = "mouse" ->
             [x |-> Retire(TakeMotion(x), t), g |-> [w.g EXCEPT !.told = @ + Clamp(x.acc)]]
        [] dp = "in" /\ ep = "ep1" /\ hid # "mouse" ->
             [x |-> Retire([x EXCEPT !.pending = Tail(@)], t),
              g |-> [w.g EXCEPT !.wire = Head(x.pending)]]
        [] OTHER -> [x |-> Retire(StatusOut(x), t), g |-> w.g]

\* One turn of runList: the tail or a NAK ends it, else the head is retired.
Turn(y, ep) ==
  LET h == y.x.head[ep]
      nx == y.x.next[h]
  IN  IF h = Nil \/ h = y.x.tail[ep] \/ Nak(y.x, ep) THEN y
      ELSE [DoTd(y, ep, h) EXCEPT !.x.head[ep] = nx]

\* runList over one endpoint, at most ListLimit turns; y is bound so that each
\* turn is evaluated once.
RunList(w, ep) ==
  LET f[k \in 0..ListLimit] ==
        IF k = 0 THEN w
        ELSE CHOOSE z \in {Turn(y, ep) : y \in {f[k - 1]}} : TRUE
  IN  f[ListLimit]

\* The queue is handed over every frame.
HandOverAlways(x) ==
  IF x.doneHead # Nil
  THEN [x EXCEPT !.hcca = x.doneHead, !.doneHead = Nil, !.wdh = TRUE] ELSE x

\* The done queue is handed over once per acknowledgement.
HandOver(x) ==
  IF x.doneHead # Nil /\ ~x.wdh
  THEN [x EXCEPT !.hcca = x.doneHead, !.doneHead = Nil, !.wdh = TRUE] ELSE x

\* One frame: the control list, the periodic list, the handover.
Tick ==
  /\ c.op
  /\ \E w \in {RunList(RunList([x |-> c, g |-> given], "ep0"), "ep1")} :
       c' = HandOver(w.x) /\ given' = w.g
  /\ UNCHANGED <<hid, drv>>
-----------------------------------------------------------------------------
(* The driver. *)

SetOperational ==
  /\ ~c.op /\ c' = [c EXCEPT !.op = TRUE]
  /\ UNCHANGED <<hid, drv, given>>

\* Free descriptors are alike: whichever the driver takes is rewritten.
Fresh == CHOOSE f \in drv.free : TRUE

\* The tail is a placeholder: it is filled in and a free descriptor follows it.
Append1(ep, dp, f) ==
  [c EXCEPT !.dp[c.tail[ep]] = dp, !.next[c.tail[ep]] = f,
            !.next[f] = Nil, !.tail[ep] = f]

Poll ==
  /\ c.head["ep1"] = c.tail["ep1"]
  /\ drv.free # {}
  /\ LET f == Fresh IN
       /\ c' = Append1("ep1", "in", f)
       /\ drv' = [drv EXCEPT !.free = @ \ {f}]
  /\ UNCHANGED <<hid, given>>

ControlIdle == drv.script = <<>> /\ c.head["ep0"] = c.tail["ep0"]

StartTransfer(what) ==
  /\ ControlIdle /\ drv.work < MaxWork
  /\ drv' = [drv EXCEPT !.script = Transfer[what], !.work = @ + 1,
                        !.want = IF what = "address" THEN @ + 1 ELSE @]
  /\ UNCHANGED <<hid, c, given>>

Control ==
  /\ drv.script # <<>>
  /\ drv.free # {}
  /\ LET f == Fresh IN
       /\ c' = Append1("ep0", Head(drv.script), f)
       /\ drv' = [drv EXCEPT !.free = @ \ {f}, !.script = Tail(@)]
  /\ UNCHANGED <<hid, given>>

\* What a walk along next reaches from t.
Chain(x, t) ==
  LET f[k \in 0..Cardinality(TDs)] ==
        IF k = 0 THEN {t} \ {Nil}
        ELSE f[k - 1] \cup ({x.next[u] : u \in f[k - 1]} \ {Nil})
  IN  f[Cardinality(TDs)]

ReadDone ==
  /\ c.wdh /\ drv.at = "idle"
  /\ drv' = [drv EXCEPT !.free = @ \cup Chain(c, c.hcca), !.at = "read"]
  /\ UNCHANGED <<hid, c, given>>

AckDone ==
  /\ drv.at = "read"
  /\ c' = [c EXCEPT !.wdh = FALSE]
  /\ drv' = [drv EXCEPT !.at = "idle"]
  /\ UNCHANGED <<hid, given>>

\* HCR, and the lists the driver then builds anew.  The done queue, the list
\* pointers and the device are not touched by the reset itself.
HcReset ==
  /\ ResetsBusy \/ (c.doneHead = Nil /\ ~c.wdh)
  /\ c.op /\ drv.at = "idle" /\ drv.script = <<>> /\ drv.work < MaxWork
  /\ c.head = c.tail
  /\ c' = [c EXCEPT !.op = FALSE, !.wdh = FALSE, !.hcca = Nil]
  /\ drv' = [drv EXCEPT !.free = TDs \ {c.tail[ep] : ep \in Eps},
                        !.work = @ + 1]
  /\ UNCHANGED <<hid, given>>
-----------------------------------------------------------------------------
(* The host's input. *)

MoveMouse(dx, b) ==
  /\ hid = "mouse" /\ drv.work < MaxWork
  /\ c' = [c EXCEPT !.acc = @ + dx, !.btn = b]
  /\ given' = [given EXCEPT !.moved = @ + dx]
  /\ drv' = [drv EXCEPT !.work = @ + 1]
  /\ UNCHANGED hid

\* A release that leaves its slot taken.
KeySlotsSticky(slots, k, isDown) ==
  IF isDown /\ Cardinality(slots) < Slots THEN slots \cup {k} ELSE slots

\* A seventh key gets a slot of its own.
KeySlotsUnbounded(slots, k, isDown) == IF isDown THEN slots \cup {k} ELSE slots \ {k}

KeySlots(slots, k, isDown) ==
  IF ~isDown THEN slots \ {k}
  ELSE IF Cardinality(slots) < Slots THEN slots \cup {k} ELSE slots

\* A key or a modifier changes: the whole state is queued as a report.
KeyEvent(k) ==
  /\ hid = "person" /\ drv.work < MaxWork
  /\ LET isDown == k \notin given.down
         mod == IF k \notin Mods THEN c.mod
                ELSE IF isDown THEN c.mod \cup {k} ELSE c.mod \ {k}
         slots == IF k \in Mods THEN c.slots ELSE KeySlots(c.slots, k, isDown)
     IN  /\ c' = [c EXCEPT !.mod = mod, !.slots = slots,
                           !.pending = Append(@, [mod |-> mod, keys |-> slots])]
         /\ given' = [given EXCEPT !.down = IF isDown THEN @ \cup {k} ELSE @ \ {k}]
  /\ drv' = [drv EXCEPT !.work = @ + 1]
  /\ UNCHANGED hid

\* The reports of one character: its modifier change rides with the key.
CharReportsJoined(held, mod, k) ==
  <<[mod |-> mod, keys |-> {k}], [mod |-> mod, keys |-> {}]>>

CharReports(held, mod, k) ==
  (IF mod # held THEN <<[mod |-> mod, keys |-> {}]>> ELSE <<>>)
  \o <<[mod |-> mod, keys |-> {k}], [mod |-> mod, keys |-> {}]>>

\* typeChord: text is a sequence of [key, mods], extra is held throughout.
TypeChord(extra, text) ==
  /\ hid = "script" /\ drv.work + Len(text) <= MaxWork
  /\ LET first == [held |-> extra,
                   out |-> IF extra = {} THEN <<>>
                           ELSE <<[mod |-> extra, keys |-> {}]>>]
         one(st, ch) ==
           LET mod == extra \cup ch.mods
           IN  [held |-> mod, out |-> st.out \o CharReports(st.held, mod, ch.key)]
         end == FoldLeft(one, first, text)
     IN  c' = [c EXCEPT !.pending = @ \o end.out \o
                          (IF end.held = {} THEN <<>> ELSE <<NoReport>>)]
  /\ drv' = [drv EXCEPT !.work = @ + Len(text)]
  /\ UNCHANGED <<hid, given>>

Chars == [key: Keys, mods: {{}} \cup {{m} : m \in Mods}]

Driver == SetOperational \/ Poll \/ Control \/ ReadDone \/ AckDone

Host ==
  \/ \E dx \in Moves, b \in BOOLEAN : MoveMouse(dx, b)
  \/ \E k \in Keys \cup Mods : KeyEvent(k)
  \/ \E extra \in {{}} \cup {{m} : m \in Mods}, text \in BoundedSeq(Chars, 2) \ {<<>>} :
       TypeChord(extra, text)

Next ==
  \/ Tick \/ Driver \/ Host \/ HcReset
  \/ \E what \in DOMAIN Transfer : StartTransfer(what)

Fairness == /\ WF_vars(Tick) /\ WF_vars(SetOperational) /\ WF_vars(Control)
            /\ WF_vars(ReadDone) /\ WF_vars(AckDone) /\ SF_vars(Poll)

Spec == Init /\ [][Next]_vars /\ Fairness
-----------------------------------------------------------------------------
TypeOK ==
  /\ hid \in {"mouse", "person", "script"}
  /\ c.head \in [Eps -> TDs] /\ c.tail \in [Eps -> TDs]
  /\ {c.doneHead, c.hcca} \subseteq TDs \cup {Nil}
  /\ c.next \in [TDs -> TDs \cup {Nil}]
  /\ c.reply \in 0..ReplySize
  /\ Cardinality(c.slots) <= Slots
  /\ drv.free \subseteq TDs

Queue(ep) == Chain([c EXCEPT !.next[c.tail[ep]] = Nil], c.head[ep])
Unread == IF c.wdh /\ drv.at = "idle" THEN Chain(c, c.hcca) ELSE {}

\* Every descriptor is in exactly one place: free, on one endpoint's queue, on
\* the controller's done queue, or in the queue handed over and not yet read.
\* The link field changes hands between them and no chain crosses another.
EachTdOnce ==
  LET place == [free |-> drv.free, q0 |-> Queue("ep0"), q1 |-> Queue("ep1"),
                done |-> Chain(c, c.doneHead), handed |-> Unread]
  IN  /\ UNION {place[p] : p \in DOMAIN place} = TDs
      /\ \A p, q \in DOMAIN place : p # q => place[p] \cap place[q] = {}

\* No motion is lost or invented between injection and the reports, however
\* many moves fall between two polls.
MotionConserved == given.moved = given.told + c.acc

LastReport == IF c.pending = <<>> THEN given.wire ELSE Last(c.pending)

\* The newest report says what is held: no key or modifier that is up, and
\* every modifier that is down.
NothingStuck ==
  hid # "mouse" => /\ LastReport.keys \subseteq given.down
                   /\ LastReport.mod = given.down \cap Mods

\* No report introduces a modifier together with a key: the modifier goes down
\* in a report of its own.
ModifierFirst ==
  LET r == <<given.wire>> \o c.pending
  IN  \A i \in 1..(Len(r) - 1) :
        r[i + 1].mod \subseteq r[i].mod \/ r[i + 1].keys \subseteq r[i].keys

\* When a control transfer is over the device has adopted the address it was
\* given and the host has read the whole reply, whatever number of frames and
\* done queues carried it.
ControlComplete ==
  ControlIdle => /\ c.addr = drv.want
                 /\ given.last = "setup_get" => given.got = ReplySize

\* Everything injected reaches the wire.
InputIdle == IF hid = "mouse" THEN c.acc = 0 /\ c.btn = c.sent ELSE c.pending = <<>>
InputDelivered == ~InputIdle ~> InputIdle
=============================================================================
