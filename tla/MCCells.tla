------------------------------ MODULE MCCells -------------------------------
(***************************************************************************)
(* Cells of the machine about which only safety is asked, on small         *)
(* instances and explored one at a time while the others stand as they     *)
(* were built: the interrupt controller (OpenPic, two sources and three    *)
(* priorities), a DMA channel (DbdmaChannel), the vertical blank behind    *)
(* the service gate (VBlank), the 2D engine (Blit, a surface of 4 by 4     *)
(* pixels after one spare row) and save and resume (Snapshot).             *)
(***************************************************************************)
EXTENDS OpenPic, VBlank, Snapshot, TLC

VARIABLES
  part,
  dmaCh, list, room,
  regs, vram, done, last

chip == <<pic, owed>>
channel == <<dmaCh, list, room>>
engine == <<regs, vram, done, last>>
saved == <<m, file, origin, at>>
all == <<part, chip, channel, blankVars, engine, saved>>
-----------------------------------------------------------------------------
(* A DMA channel.  The sound driver's ring is a slice, its flag and         *)
(* interrupt, and a STOP that becomes a NOP which goes back to the start;   *)
(* the other list has conditional branches, a zero-length input and an end  *)
(* that runs into whatever follows it in memory.                            *)

D(op, req, int, br, to) ==
  [op |-> op, req |-> req, int |-> int, br |-> br, to |-> to]

SoundList ==
  [d \in 0 .. 2 |->
     CASE d = 0 -> D("output", 3, FALSE, "never", 0)
       [] d = 1 -> D("storeQuad", 1, TRUE, "never", 0)
       [] d = 2 -> D("stop", 0, FALSE, "always", 0)]

Branching ==
  [d \in 0 .. 3 |->
     CASE d = 0 -> D("input", 2, TRUE, "match", 2)
       [] d = 1 -> D("loadQuad", 1, FALSE, "always", 0)
       [] d = 2 -> D("input", 0, FALSE, "differ", 0)
       [] d = 3 -> D("output", 2, TRUE, "never", 0)]

DmaControls ==
  {<<{"run"}, {"run"}>>, <<{"run"}, {}>>, <<{"wake"}, {"wake"}>>,
   <<{"flush"}, {"flush"}>>, <<{"s"}, {"s"}>>, <<{"s"}, {}>>,
   <<{"run", "wake"}, {"run", "wake"}>>,
   <<{"run", "flush", "wake", "dead", "active"}, {}>>}

C == INSTANCE DbdmaChannel WITH
       Wired <- {"stream", "disk", "packet", "none"}, MaxSteps <- 12, MaxIdle <- 5,
       Lists <- {SoundList, Branching}, Controls <- DmaControls, MaxRoom <- 3,
       Careful <- TRUE, ch <- dmaCh

ASSUME FrameConstants == BlankConstants

-----------------------------------------------------------------------------
(* The packets the 2D engine is given.                                      *)

\* Words of a packet body, and the raster operation that copies the source.
Word(hi, lo) == [hi |-> hi, lo |-> lo, pix |-> {}]
Colour(pix) == [hi |-> 0, lo |-> 0, pix |-> pix]
SrcCopy == {2, 3, 6, 7}

Gc(brush, rop, clip, srcType, dstType) ==
  [srcPO |-> FALSE, dstPO |-> FALSE, srcClip |-> FALSE, clip |-> clip, brush |-> brush,
   brushYX |-> FALSE, dstType |-> dstType, srcType |-> srcType, lsb |-> FALSE,
   rop |-> rop, sel |-> "vram", maskOff |-> FALSE]

Packet(op, gc, body, sc, glyphs, fg, bk) ==
  [op |-> op, gc |-> gc, body |-> body, sc |-> sc, glyphs |-> glyphs, fg |-> fg, bk |-> bk,
   x |-> 1, y |-> 1]

NoSc   == [l |-> 0, t |-> 0, r |-> 0, b |-> 0]
Xor    == {1, 2, 5, 6}
Copy   == Gc("nobrush", SrcCopy, FALSE, "colour", "pix")

Copies == {Packet("BITBLT", Gc("nobrush", rop, FALSE, "colour", "pix"),
             <<Word(sx, sy), Word(dx, dy), Word(w, h)>>, NoSc, <<>>, {}, {}) :
             rop \in {SrcCopy, Xor}, sx \in {0, 1}, sy \in {0, 1},
             dx \in {0, 1, 2}, dy \in {0, 1, 2}, w \in {2, 3}, h \in {2}}

Scissors == {Packet("SET_SCISSORS", Copy, <<Word(t, l), Word(b, r)>>,
               [l |-> l, t |-> t, r |-> r, b |-> b], <<>>, {}, {}) :
               l \in {0, 1}, t \in {0}, r \in {1, 3}, b \in {2}}

Fill == Gc("solid", {4, 5, 6, 7}, FALSE, "colour", "pix")
FillClip == [Fill EXCEPT !.clip = TRUE]

Paints ==
  {Packet("PAINT", Fill, <<Colour({0}), Word(0, 0), Word(2, 3)>>, NoSc, <<>>, {}, {}),
   Packet("PAINT", Fill, <<Colour({1}), Word(1, 1), Word(3, 3), Word(0, 2), Word(1, 4)>>,
     NoSc, <<>>, {}, {}),
   Packet("PAINT", FillClip, <<Word(1, 1), Word(2, 2), Colour({2}), Word(0, 0), Word(4, 4)>>,
     [l |-> 1, t |-> 1, r |-> 2, b |-> 2], <<>>, {}, {}),
   Packet("PAINT", FillClip, <<Word(1, 1), Word(2, 2)>>, NoSc, <<>>, {}, {}),
   Packet("PAINT_MULTI", Fill, <<Colour({3}), Word(1, 0), Word(2, 3)>>, NoSc, <<>>, {}, {}),
   Packet("PAINT", [Fill EXCEPT !.brush = "mono"],
     <<Colour({}), Colour({1}), Colour({}), Colour({}), Word(0, 0), Word(4, 4)>>, NoSc, <<>>, {}, {}),
   Packet("WIDTH_X_INCY", Fill, <<Word(2, 17)>>, NoSc, <<>>, {}, {})}

Glyph(x, y, w, h, bits, dx, dy) ==
  [x |-> x, y |-> y, w |-> w, h |-> h, bits |-> bits, dx |-> dx, dy |-> dy,
   pix |-> <<{0}, {0, 1}, {1, 2}>>]
Text == Gc("nobrush", SrcCopy, FALSE, "opaque", "pix")

Texts ==
  {Packet("SMALL_TEXT", t, <<>>, NoSc,
     <<Glyph(0, 0, 2, 2, <<TRUE, FALSE, TRUE, TRUE>>, 0, 1),
       Glyph(0, 0, 2, 1, <<FALSE, TRUE>>, 2, 0)>>, ink, {}) :
     ink \in {{0, 4}, {1, 4}}, t \in {Text, [Text EXCEPT !.dstType = "none"]}}
  \cup {Packet("NEXTCHAR", Text, <<>>, NoSc, <<Glyph(1, 2, 2, 2, <<TRUE, TRUE, FALSE>>, 0, 0)>>,
          {}, {}),
        Packet("HOSTDATA_BLT", Text, <<>>, NoSc,
          <<Glyph(2, 1, 3, 2, <<TRUE, FALSE, TRUE, FALSE>>, 0, 0)>>, {2, 4}, {3, 4}),
        Packet("HOSTDATA_BLT", [Text EXCEPT !.srcType = "colour"], <<>>, NoSc,
          <<Glyph(1, 3, 2, 2, <<>>, 0, 0)>>, {}, {}),
        Packet("HOSTDATA_BLT", [Text EXCEPT !.srcType = "transparent"], <<>>, NoSc,
          <<Glyph(0, 0, 2, 2, <<TRUE, FALSE, TRUE, FALSE>>, 0, 0)>>, {2, 4}, {3, 4})}

MCPackets == Copies \cup Scissors \cup Paints \cup Texts
B == INSTANCE Blit WITH
       Packets <- MCPackets, Coord <- 16, VramSize <- 18, Lanes <- 0 .. 4,
       Power2 <- [l \in 0 .. 4 |-> 2^l], MaxPackets <- 2,
       Surface <- [off |-> 2, pitch |-> 4], Corner <- [x |-> 3, y |-> 3]

-----------------------------------------------------------------------------
MCInit ==
  /\ part \in {"pic", "dma", "blank", "blit", "saved"}
  /\ Init /\ C!Init /\ BlankInit /\ B!Init /\ SnapshotInit
  /\ part # "dma" => dmaCh.dev = "none" /\ list = SoundList
  /\ part # "saved" => m = Fresh(Plain(NoDisc, NoDisc))

MCNext ==
  \/ part = "pic" /\ Next
     /\ UNCHANGED <<part, channel, blankVars, engine, saved>>
  \/ part = "dma" /\ C!Next
     /\ UNCHANGED <<part, chip, blankVars, engine, saved>>
  \/ part = "blank" /\ BlankNext
     /\ UNCHANGED <<part, chip, channel, engine, saved>>
  \/ part = "blit" /\ B!Next
     /\ UNCHANGED <<part, chip, channel, blankVars, saved>>
  \/ part = "saved" /\ SnapshotNext
     /\ UNCHANGED <<part, chip, channel, blankVars, engine>>

MCSpec == MCInit /\ [][MCNext]_all
-----------------------------------------------------------------------------
\* DMA channel: nothing is moved twice and nothing left out, however often the
\* channel parks, wakes, is flushed, stopped or started in the middle; a stream
\* left in the middle of a descriptor is one the periodic wake finds; a drive
\* never pauses inside one.
ChannelIsSound ==
  part = "dma" => /\ C!TypeOK
                  /\ C!StreamInOrder /\ C!MidDescriptorIsParked
                  /\ C!DriveNeverPauses

\* 2D engine: whatever packets came before, a copy reads its source as it was
\* before the packet however the rectangles overlap, a paint fills exactly its
\* rectangles with its own brush, nothing is touched outside the scissor that
\* was asked for, and NEXTCHAR draws in the colour of the last SMALL_TEXT.
\* And no blank is latched within a frame of the write that armed it.
PicturesAreExact ==
  [][ /\ part = "blit" => /\ B!CopiesAreSimultaneous /\ B!PaintsAreExact
                          /\ B!NothingOutsideScissor /\ B!NextCharKeepsColour
      /\ part = "blank" => FirstBlankAWholeFrame ]_all

\* Snapshots: a load that is accepted restores every field of the machine that
\* was saved and keeps nothing of the one it was loaded into, only a whole
\* stream of this layout is accepted wherever it was cut, and the guest cannot
\* read a disc it has not been told of.
ResumeIsExact ==
  part = "saved" => /\ SnapshotTypeOK
                    /\ RunsTheSavedMachine /\ AcceptedIsWhole
                    /\ TraysAreHonest
=============================================================================
