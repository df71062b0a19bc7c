-------------------------------- MODULE Blit --------------------------------
(***************************************************************************)
(* The 2D engine of the Rage 128 (machine/src/r128.cpp): the register      *)
(* aliases and initiators of engWrite, the rectangle engine engBlit with   *)
(* its ROP3 truth tables, directions and scissors, and the packet          *)
(* operations the CCE turns into register writes (PAINT, PAINT_MULTI,      *)
(* HOSTDATA_BLT, BITBLT[_MULTI], SMALL_TEXT, NEXTCHAR, SET_SCISSORS).      *)
(*                                                                         *)
(* A pixel is a set of lanes (the bits that are one), video memory is      *)
(* addressed in pixels, and a 32-bit word is a pair of 16-bit halves.      *)
(* Coordinates have Coord values instead of 2^14.                          *)
(***************************************************************************)
EXTENDS Integers, Sequences, FiniteSets, SequencesExt

CONSTANTS Coord,        \* number of coordinate values (2^14 in the card)
          VramSize,     \* pixels of video memory
          Lanes,        \* bits of a pixel
          Power2,       \* [Lanes -> Nat], the weight of a lane in the test image
          Packets,      \* the operation packets the driver may submit
          MaxPackets,   \* bound on the number of packets of a behaviour
          Surface,      \* [off, pitch], the surface of the bring-up
          Corner        \* [x, y], its bottom right pixel

VARIABLES regs,   \* the canonical registers of the engine
          vram,   \* [0..VramSize-1 -> SUBSET Lanes]
          done,   \* number of packets executed
          last    \* the last packet, with the colour and the scissor the
                  \* driver has asked for so far

vars == <<regs, vram, done, last>>
-----------------------------------------------------------------------------
(* sx14: a coordinate register read as a signed number.                    *)
Signed(v) == LET t == v % Coord IN IF t >= Coord \div 2 THEN t - Coord ELSE t

(* rop3: the code is a truth table over (P, S, D), evaluated in every lane. *)
Rop3(rop, P, S, D) ==
  {l \in Lanes : 4 * (IF l \in P THEN 1 ELSE 0) + 2 * (IF l \in S THEN 1 ELSE 0)
                   + (IF l \in D THEN 1 ELSE 0) \in rop}

(* ropUsesSrc/Pat/Dst: an operand is read when two minterms that differ in  *)
(* it alone disagree.                                                       *)
RopUses(rop, weight) ==
  \E i \in {j \in 0..7 : (j \div weight) % 2 = 0} : (i \in rop) # ((i + weight) \in rop)

UsesSrc(rop) == RopUses(rop, 2)
UsesPat(rop) == RopUses(rop, 4)
UsesDst(rop) == RopUses(rop, 1)

SrcCopy == {2, 3, 6, 7}
-----------------------------------------------------------------------------
(* engBlit, the conditions under which the rectangle is declined before any *)
(* pixel is touched.                                                        *)
BlitRefused(r) ==
  \/ r.dstType = "none"
  \/ r.sel = "host"
  \/ UsesPat(r.rop) /\ r.brush \notin {"solid", "nobrush"}
  \/ UsesSrc(r.rop) /\ r.srcType # "colour"
  \/ r.dstPitch = 0
  \/ UsesSrc(r.rop) /\ r.srcPitch = 0

(* engBlit, the rectangle: extents of half the coordinate range, an origin  *)
(* at the far corner when the walk is reversed.                             *)
Extent(v) == v % (Coord \div 2)

NearX(r, x) == IF r.l2r THEN Signed(x) ELSE Signed(x) + 1 - Extent(r.w)
NearY(r, y) == IF r.t2b THEN Signed(y) ELSE Signed(y) + 1 - Extent(r.h)

Larger(a, b)  == IF a > b THEN a ELSE b
Smaller(a, b) == IF a < b THEN a ELSE b

(* engBlit, the scissor, inclusive on all four edges; the source follows    *)
(* the clip of the destination.                                             *)
Clipped(r) ==
  LET dx == NearX(r, r.dstX)
      dy == NearY(r, r.dstY)
      x0 == Larger(dx, Signed(r.scL))
      y0 == Larger(dy, Signed(r.scT))
  IN  [x0 |-> x0, y0 |-> y0,
       x1 |-> Smaller(dx + Extent(r.w) - 1, Signed(r.scR)),
       y1 |-> Smaller(dy + Extent(r.h) - 1, Signed(r.scB)),
       sx |-> NearX(r, r.srcX) + (x0 - dx),
       sy |-> NearY(r, r.srcY) + (y0 - dy)]

(* engBlit, the early returns that follow the scissor: nothing is left, the *)
(* source starts off the surface, or the last row does not start in VRAM.   *)
NothingDrawn(r, c) ==
  LET rows == c.y1 - c.y0 + 1
  IN  \/ Extent(r.w) = 0 \/ Extent(r.h) = 0
      \/ c.x1 < c.x0 \/ c.y1 < c.y0 \/ c.x0 < 0 \/ c.y0 < 0
      \/ UsesSrc(r.rop) /\ (c.sx < 0 \/ c.sy < 0)
      \/ r.dstOff + (c.y0 + rows - 1) * r.dstPitch + c.x0 + 1 > VramSize
      \/ UsesSrc(r.rop) /\ r.srcOff + (c.sy + rows - 1) * r.srcPitch + c.sx + 1 > VramSize

(* putPix: a write mask of zero masks nothing.                              *)
Masked(r, old, new) ==
  IF r.mask = {} THEN new ELSE (old \ r.mask) \cup (new \cap r.mask)

(* engBlit, the draw. Rows go in the direction of DP_CNTL; a plain SRCCOPY  *)
(* moves a row at once (memmove), every other op goes pixel by pixel in the *)
(* horizontal direction and reads what is in VRAM when it gets there.       *)
DrawRow(r, c, v, y) ==
  LET d    == r.dstOff + (c.y0 + y) * r.dstPitch + c.x0
      s    == r.srcOff + (c.sy + y) * r.srcPitch + c.sx
      wide == c.x1 - c.x0 + 1
      pat  == IF UsesPat(r.rop) THEN r.frgd ELSE {}
      Pixel(u, x) ==
        [u EXCEPT ![d + x] =
           Masked(r, @, Rop3(r.rop, pat, IF UsesSrc(r.rop) THEN u[s + x] ELSE {},
                             IF UsesDst(r.rop) THEN @ ELSE {}))]
      cols == [k \in 1..wide |-> IF r.l2r THEN k - 1 ELSE wide - k]
  IN  IF r.rop = SrcCopy /\ r.mask \in {{}, Lanes}
      THEN [p \in DOMAIN v |-> IF p \in d .. d + wide - 1 THEN v[s + p - d] ELSE v[p]]
      ELSE FoldLeft(Pixel, v, cols)

EngBlit(r, v) ==
  LET c    == Clipped(r)
      high == c.y1 - c.y0 + 1
      rows == [k \in 1..high |-> IF r.t2b THEN k - 1 ELSE high - k]
  IN  IF BlitRefused(r) \/ NothingDrawn(r, c)
      THEN v
      ELSE FoldLeft(LAMBDA u, y : DrawRow(r, c, u, y), v, rows)
-----------------------------------------------------------------------------
(* Mutant: the direction of the last copy is kept. *)
GuiMasterCntlKeep(r, gc) ==
  LET a == [r EXCEPT !.dstType = gc.dstType, !.srcType = gc.srcType, !.brush = gc.brush,
                     !.rop = gc.rop, !.sel = gc.sel]
  IN  IF gc.clip THEN a ELSE [a EXCEPT !.scL = 0, !.scT = 0, !.scR = r.defR, !.scB = r.defB]

(* engWrite, the master control: it carries the datapath fields, resets the *)
(* direction, and loads the defaults its flag bits do not keep.             *)
GuiMasterCntl(r, gc) ==
  LET a == [r EXCEPT !.dstType = gc.dstType, !.srcType = gc.srcType, !.brush = gc.brush,
                     !.lsb = gc.lsb, !.rop = gc.rop, !.sel = gc.sel,
                     !.l2r = TRUE, !.t2b = TRUE]
      b == IF gc.srcPO THEN a ELSE [a EXCEPT !.srcOff = r.defOff, !.srcPitch = r.defPitch]
      c == IF gc.dstPO THEN b ELSE [b EXCEPT !.dstOff = r.defOff, !.dstPitch = r.defPitch]
      d == IF gc.clip THEN c
           ELSE [c EXCEPT !.scL = 0, !.scT = 0, !.scR = r.defR, !.scB = r.defB]
  IN  IF gc.maskOff THEN [d EXCEPT !.mask = Lanes] ELSE d

(* engWrite, the composite registers: each is a write-only alias that is    *)
(* normalised into the canonical pair.                                      *)
Alias(r, reg, w) ==
  CASE reg = "DST_PITCH_OFFSET" -> [r EXCEPT !.dstPitch = w.hi, !.dstOff = w.lo]
    [] reg = "SRC_PITCH_OFFSET" -> [r EXCEPT !.srcPitch = w.hi, !.srcOff = w.lo]
    [] reg = "SRC_Y_X"          -> [r EXCEPT !.srcY = w.hi % Coord, !.srcX = w.lo % Coord]
    [] reg = "DST_Y_X"          -> [r EXCEPT !.dstY = w.hi % Coord, !.dstX = w.lo % Coord]
    [] reg = "SC_TOP_LEFT"      -> [r EXCEPT !.scT = w.hi % Coord, !.scL = w.lo % Coord]
    [] reg = "SC_BOTTOM_RIGHT"  -> [r EXCEPT !.scB = w.hi % Coord, !.scR = w.lo % Coord]
    [] reg = "DEFAULT_SC_BR"    -> [r EXCEPT !.defB = w.hi % Coord, !.defR = w.lo % Coord]
    [] reg = "BRUSH_FRGD"       -> [r EXCEPT !.frgd = w.pix]
    [] reg = "SRC_FRGD"         -> [r EXCEPT !.srcFg = w.pix]
    [] reg = "DP_CNTL"          -> [r EXCEPT !.l2r = w.hi = 1, !.t2b = w.lo = 1]
    [] reg \in {"BRUSH_BKGD", "BRUSH_Y_X", "SRC_SC_BOT_RITE", "data"} -> r

(* engWrite, the initiators: the write that supplies the width draws.       *)
HeightWidth(s, w) ==
  LET r == [s.r EXCEPT !.h = w.hi % Coord, !.w = w.lo % Coord]
  IN  [r |-> r, v |-> EngBlit(r, s.v)]

(* Mutant: the x of the run is not masked. *)
WidthXIncyWide(s, w) ==
  LET r == [s.r EXCEPT !.w = w.hi % Coord, !.dstX = w.lo]
  IN  [r |-> [r EXCEPT !.dstY = (@ + 1) % Coord], v |-> EngBlit(r, s.v)]

(* DST_WIDTH_X_INCY draws a run of one row and steps down a scanline.       *)
WidthXIncy(s, w) ==
  LET r == [s.r EXCEPT !.w = w.hi % Coord, !.dstX = w.lo % Coord]
  IN  [r |-> [r EXCEPT !.dstY = (@ + 1) % Coord], v |-> EngBlit(r, s.v)]
-----------------------------------------------------------------------------
Word(hi, lo) == [hi |-> hi, lo |-> lo, pix |-> {}]
Colour(pix)  == [hi |-> 0, lo |-> 0, pix |-> pix]

(* cceSettings: the optional SETUP_BODY, in groups that are taken whole or  *)
(* end the packet as declined.                                              *)
BrushGroup(gc) ==
  CASE gc.brush = "solid"   -> <<"BRUSH_FRGD">>
    [] gc.brush = "mono"    -> <<"BRUSH_BKGD", "BRUSH_FRGD", "data", "data">>
    [] gc.brush = "nobrush" -> <<>>

SetupGroups(gc) ==
  SelectSeq(<< IF gc.srcPO   THEN <<"SRC_PITCH_OFFSET">> ELSE <<>>,
               IF gc.dstPO   THEN <<"DST_PITCH_OFFSET">> ELSE <<>>,
               IF gc.srcClip THEN <<"SRC_SC_BOT_RITE">>  ELSE <<>>,
               IF gc.clip    THEN <<"SC_TOP_LEFT", "SC_BOTTOM_RIGHT">> ELSE <<>>,
               BrushGroup(gc),
               IF gc.brushYX THEN <<"BRUSH_Y_X">> ELSE <<>> >>,
            LAMBDA g : g # <<>>)

(* cceSettings: each group lands in its registers, and GUI_CONTROL follows  *)
(* verbatim; a body too short for a group declines the packet with the      *)
(* earlier groups written and without the control word.                     *)
Settings(r, gc, body) ==
  LET Take(a, g) ==
        IF ~a.ok \/ Len(a.rest) < Len(g) THEN [a EXCEPT !.ok = FALSE]
        ELSE [ok   |-> TRUE,
              rest |-> SubSeq(a.rest, Len(g) + 1, Len(a.rest)),
              r    |-> FoldLeftDomain(LAMBDA q, k : Alias(q, g[k], a.rest[k]), a.r, g)]
      t == FoldLeft(Take, [ok |-> TRUE, rest |-> body, r |-> r], SetupGroups(gc))
  IN  IF t.ok THEN [t EXCEPT !.r = GuiMasterCntl(@, gc)] ELSE t

(* The words after SETTINGS, taken k at a time while a whole group is left. *)
Groups(words, k) == [j \in 1..(Len(words) \div k) |-> SubSeq(words, k * (j - 1) + 1, k * j)]
-----------------------------------------------------------------------------
(* cceOpPaint: corners, the bottom right exclusive.                         *)
PaintRect(s, g) ==
  LET w == (g[2].lo - g[1].lo) % Coord
      h == (g[2].hi - g[1].hi) % Coord
  IN  IF w = 0 \/ h = 0 THEN s
      ELSE HeightWidth([s EXCEPT !.r = Alias(s.r, "DST_Y_X", g[1])], Word(h, w))

(* cceOpPaintMulti: x and width in the high halves.                         *)
PaintMultiRect(s, g) ==
  IF g[2].hi = 0 \/ g[2].lo = 0 THEN s
  ELSE HeightWidth([s EXCEPT !.r = Alias(s.r, "DST_Y_X", Word(g[1].lo, g[1].hi))],
                   Word(g[2].lo, g[2].hi))

(* Mutant: the walk always goes forward. *)
BitbltRectForward(s, g) ==
  HeightWidth([s EXCEPT !.r = Alias(Alias(@, "SRC_Y_X", Word(g[1].lo, g[1].hi)),
                                    "DST_Y_X", Word(g[2].lo, g[2].hi))],
              Word(g[3].lo, g[3].hi))

(* cceOpBitbltMulti: the op itself turns the walk away from the overlap,    *)
(* and gives the engine the far corner when it does.                        *)
BitbltRect(s, g) ==
  LET w   == g[3].hi
      h   == g[3].lo
      l2r == g[2].hi <= g[1].hi
      t2b == g[2].lo <= g[1].lo
      fx  == IF l2r THEN 0 ELSE w - 1
      fy  == IF t2b THEN 0 ELSE h - 1
      a   == Alias(s.r, "DP_CNTL", Word(IF l2r THEN 1 ELSE 0, IF t2b THEN 1 ELSE 0))
      b   == Alias(a, "SRC_Y_X", Word(g[1].lo + fy, g[1].hi + fx))
      c   == Alias(b, "DST_Y_X", Word(g[2].lo + fy, g[2].hi + fx))
  IN  IF w = 0 \/ h = 0 THEN s ELSE HeightWidth([s EXCEPT !.r = c], Word(h, w))

(* cceDrawMonoGlyph and the mono arm of cceOpHostBlt: bits are consumed row *)
(* by row across the words; an unset bit is the background, or nothing when *)
(* the source is transparent; the scissor and the end of VRAM are tested    *)
(* for every pixel (here the scissor is read unsigned).                     *)
GlyphPixels(r, gl, avail) ==
  {p \in (0 .. gl.w - 1) \X (0 .. gl.h - 1) :
     /\ p[2] * gl.w + p[1] < avail
     /\ gl.x + p[1] \in r.scL .. r.scR
     /\ gl.y + p[2] \in r.scT .. r.scB
     /\ r.dstOff + (gl.y + p[2]) * r.dstPitch + gl.x + p[1] < VramSize}

DrawGlyph(r, v, gl, fg, opaque, bk) ==
  LET At(p) == r.dstOff + (gl.y + p[2]) * r.dstPitch + gl.x + p[1]
      On(p) == gl.bits[p[2] * gl.w + p[1] + 1]
      pix   == {p \in GlyphPixels(r, gl, Len(gl.bits)) : On(p) \/ opaque}
  IN  [a \in DOMAIN v |->
         IF \E p \in pix : At(p) = a
         THEN IF On(CHOOSE p \in pix : At(p) = a) THEN fg ELSE bk
         ELSE v[a]]

(* Mutant: the foreground is not kept for NEXTCHAR. *)
SmallTextForget(s, p) ==
  [s EXCEPT !.v = FoldLeft(LAMBDA v, g : DrawGlyph(s.r, v, g, p.fg, FALSE, {}), @, p.glyphs)]

(* cceOpSmallText: the pen advances by each glyph's own Xdev and a glyph    *)
(* rises Ydev above the baseline; the foreground is kept for NEXTCHAR.      *)
SmallText(s, p) ==
  LET r  == Alias(s.r, "SRC_FRGD", Colour(p.fg))
      Pen(k) == p.x + FoldLeft(LAMBDA a, g : a + g.dx, 0, SubSeq(p.glyphs, 1, k))
      Draw(v, k) ==
        DrawGlyph(r, v, [p.glyphs[k] EXCEPT !.x = Pen(k), !.y = p.y - p.glyphs[k].dy],
                  p.fg, FALSE, {})
  IN  [r |-> r, v |-> FoldLeftDomain(Draw, s.v, p.glyphs)]

(* Mutant: the default corner is forgotten. *)
SetScissorsLive(r, body) ==
  Alias(Alias(r, "SC_TOP_LEFT", body[1]), "SC_BOTTOM_RIGHT", body[2])

(* cceOpSetScissors: the live pair and the default corner, which a later    *)
(* control word reloads.                                                    *)
SetScissors(r, body) ==
  Alias(Alias(Alias(r, "SC_TOP_LEFT", body[1]), "SC_BOTTOM_RIGHT", body[2]),
        "DEFAULT_SC_BR", body[2])

(* cceOpNextChar: one glyph in the current destination state.               *)
NextChar(s, p) ==
  IF s.r.dstType = "none" THEN s
  ELSE [s EXCEPT !.v = DrawGlyph(s.r, @, p.glyphs[1], s.r.srcFg, FALSE, {})]

(* cceOpHostBlt: a mono bitmap through foreground and background, or, for a *)
(* colour source, the pixels themselves in the order of the stream.         *)
HostBlt(s, p) ==
  LET gl  == p.glyphs[1]
      pix == GlyphPixels(s.r, gl, Len(gl.pix))
      At(q) == s.r.dstOff + (gl.y + q[2]) * s.r.dstPitch + gl.x + q[1]
  IN  CASE p.gc.dstType = "none"    -> s
        [] p.gc.dstType # "none" /\ p.gc.srcType # "colour" ->
             [s EXCEPT !.v = DrawGlyph(s.r, @, gl, p.fg, p.gc.srcType = "opaque", p.bk)]
        [] p.gc.dstType # "none" /\ p.gc.srcType = "colour" ->
             [s EXCEPT !.v = [a \in DOMAIN @ |->
                IF \E q \in pix : At(q) = a
                THEN gl.pix[LET q == CHOOSE q \in pix : At(q) = a IN q[2] * gl.w + q[1] + 1]
                ELSE @[a]]]
-----------------------------------------------------------------------------
(* One operation packet. The body is what the Type-3 header counted; the    *)
(* ops that write VRAM themselves return early on a destination type they   *)
(* do not know (cceDstState).                                               *)
WithSettings == {"PAINT", "PAINT_MULTI", "BITBLT", "HOSTDATA_BLT", "SMALL_TEXT"}

Execute(s, p) ==
  LET t == Settings(s.r, p.gc, p.body)
      o == [r |-> t.r, v |-> s.v]
      Each(Op(_, _), k) == FoldLeft(Op, o, Groups(t.rest, k))
  IN  CASE p.op = "SET_SCISSORS"        -> [s EXCEPT !.r = SetScissors(@, p.body)]
        [] p.op = "NEXTCHAR"            -> NextChar(s, p)
        [] p.op = "WIDTH_X_INCY"        -> WidthXIncy(s, p.body[1])
        [] p.op \in WithSettings /\ ~t.ok -> o
        [] p.op = "PAINT" /\ t.ok       -> Each(PaintRect, 2)
        [] p.op = "PAINT_MULTI" /\ t.ok -> Each(PaintMultiRect, 2)
        [] p.op = "BITBLT" /\ t.ok      -> Each(BitbltRect, 3)
        [] p.op = "HOSTDATA_BLT" /\ t.ok -> HostBlt(o, p)
        [] p.op = "SMALL_TEXT" /\ t.ok  -> IF p.gc.dstType = "none" THEN o ELSE SmallText(o, p)
-----------------------------------------------------------------------------
(* The engine after the driver's bring-up: one surface, no mask, the        *)
(* scissor open, and an image in which every pixel is different.            *)
TestImage == [a \in 0 .. VramSize - 1 |-> {l \in Lanes : (a \div Power2[l]) % 2 = 1}]

Bringup(surface, br) ==
  [srcOff |-> surface.off, srcPitch |-> surface.pitch,
   dstOff |-> surface.off, dstPitch |-> surface.pitch,
   defOff |-> surface.off, defPitch |-> surface.pitch,
   srcX |-> 0, srcY |-> 0, dstX |-> 0, dstY |-> 0, w |-> 0, h |-> 0,
   scL |-> 0, scT |-> 0, scR |-> br.x, scB |-> br.y, defR |-> br.x, defB |-> br.y,
   l2r |-> TRUE, t2b |-> TRUE, rop |-> SrcCopy, sel |-> "vram",
   dstType |-> "pix", srcType |-> "colour", brush |-> "solid", lsb |-> FALSE,
   frgd |-> {}, srcFg |-> {}, mask |-> {}]

Init == /\ regs = Bringup(Surface, Corner)
        /\ vram = TestImage
        /\ done = 0
        /\ last = [p |-> CHOOSE p \in Packets : TRUE, fg |-> {}, br |-> Corner,
                   sc |-> [l |-> 0, t |-> 0, r |-> Corner.x, b |-> Corner.y]]

(* What the driver has asked for: the scissor of SET_SCISSORS or of the     *)
(* packet's own SETTINGS, else the default, which SET_SCISSORS also moves;  *)
(* a declined packet leaves the registers it reached.                       *)
AskedScissor(p) ==
  CASE p.op = "SET_SCISSORS" -> p.sc
    [] p.op \in {"NEXTCHAR", "WIDTH_X_INCY"} -> last.sc
    [] OTHER -> IF ~Settings(regs, p.gc, p.body).ok
                THEN [l |-> regs'.scL, t |-> regs'.scT, r |-> regs'.scR, b |-> regs'.scB]
                ELSE IF p.gc.clip THEN p.sc
                ELSE [l |-> 0, t |-> 0, r |-> last.br.x, b |-> last.br.y]

Packet(p) ==
  /\ done < MaxPackets
  /\ \E s \in {Execute([r |-> regs, v |-> vram], p)} : regs' = s.r /\ vram' = s.v
  /\ done' = done + 1
  /\ last' = [p  |-> p,
              fg |-> IF p.op = "SMALL_TEXT" /\ p.gc.dstType # "none" THEN p.fg ELSE last.fg,
              br |-> IF p.op = "SET_SCISSORS" THEN [x |-> p.sc.r, y |-> p.sc.b] ELSE last.br,
              sc |-> AskedScissor(p)]

Next == \E p \in Packets : Packet(p)

Spec == Init /\ [][Next]_vars
-----------------------------------------------------------------------------
(* What the driver asked of a copy: every destination pixel from the source *)
(* as it was before the packet.                                             *)
CopyOf(v, p) ==
  LET g   == p.body
      sx  == g[1].hi    sy == g[1].lo
      dx  == g[2].hi    dy == g[2].lo
      X(a) == (a - Surface.off) % Surface.pitch
      Y(a) == (a - Surface.off) \div Surface.pitch
      In(a) == /\ a >= Surface.off
               /\ X(a) \in dx .. dx + g[3].hi - 1 /\ Y(a) \in dy .. dy + g[3].lo - 1
               /\ X(a) \in last'.sc.l .. last'.sc.r /\ Y(a) \in last'.sc.t .. last'.sc.b
      S(a) == Surface.off + (Y(a) - dy + sy) * Surface.pitch + X(a) - dx + sx
  IN  [a \in DOMAIN v |-> IF In(a) THEN Rop3(p.gc.rop, {}, v[S(a)], v[a]) ELSE v[a]]

PaintOf(v, p) ==
  LET g == Groups(Tail(p.body), 2)
      X(a) == (a - Surface.off) % Surface.pitch
      Y(a) == (a - Surface.off) \div Surface.pitch
      In(a) == /\ a >= Surface.off
               /\ \E k \in DOMAIN g : /\ X(a) \in g[k][1].lo .. g[k][2].lo - 1
                                     /\ Y(a) \in g[k][1].hi .. g[k][2].hi - 1
               /\ X(a) \in last'.sc.l .. last'.sc.r /\ Y(a) \in last'.sc.t .. last'.sc.b
  IN  [a \in DOMAIN v |-> IF In(a) THEN p.body[1].pix ELSE v[a]]
-----------------------------------------------------------------------------
TypeOK == /\ vram \in [0 .. VramSize - 1 -> SUBSET Lanes]
          /\ regs.scL \in 0 .. Coord - 1 /\ regs.scR \in 0 .. Coord - 1
          /\ regs.dstX \in 0 .. Coord - 1 /\ regs.dstY \in 0 .. Coord - 1
          /\ done \in 0 .. MaxPackets

(* A screen-to-screen copy gives every pixel of its destination, inside the *)
(* scissor, the raster op of the source and destination as they were before *)
(* the packet, however the rectangles overlap and whatever direction an     *)
(* earlier packet left behind (cceOpBitbltMulti, engBlit).                  *)
CopiesAreSimultaneous ==
  (last'.p.op = "BITBLT" /\ Len(last'.p.body) = 3) => vram' = CopyOf(vram, last'.p)

(* A PAINT fills exactly its rectangles inside the scissor with the brush   *)
(* of its own SETTINGS, also after a copy that left the walk reversed       *)
(* (cceOpPaint, and the direction reset of the GMC write).                  *)
PaintsAreExact ==
  (last'.p.op = "PAINT" /\ last'.p.gc.brush = "solid" /\ ~last'.p.gc.clip) =>
     vram' = PaintOf(vram, last'.p)

(* No packet touches a pixel outside the scissor the driver asked for: the *)
(* one of its own SETTINGS, or the default, which is the corner the last    *)
(* SET_SCISSORS gave (cceOpSetScissors, the GMC write of engWrite).         *)
NothingOutsideScissor ==
  \A a \in DOMAIN vram :
     vram'[a] # vram[a] =>
       /\ a >= Surface.off
       /\ (a - Surface.off) % Surface.pitch \in last'.sc.l .. last'.sc.r
       /\ (a - Surface.off) \div Surface.pitch \in last'.sc.t .. last'.sc.b

(* NEXTCHAR has no colour of its own: what it draws is the foreground of    *)
(* the last SMALL_TEXT, whatever packets came between.                      *)
NextCharKeepsColour ==
  last'.p.op = "NEXTCHAR" =>
     \A a \in DOMAIN vram : vram'[a] \in {vram[a], last.fg}
=============================================================================
