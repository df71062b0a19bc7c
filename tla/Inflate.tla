------------------------------- MODULE Inflate ------------------------------
(* The DEFLATE decoder of UDIF chunks (machine/src/cdimage.cpp, Huff,       *)
(* inflateRaw): a canonical Huffman code rebuilt from its lengths, walked a *)
(* bit at a time, and copies out of what has been written.  The stream is a *)
(* sequence of bits in the order the decoder takes them; one coded block    *)
(* with its two tables.                                                     *)
EXTENDS Integers, Sequences, SequencesExt, FiniteSetsExt

CONSTANTS
  MaxBits,      \* the longest code (15)
  Lits,         \* literals: symbols 0..Lits-1, the end symbol is Lits (256)
  LenBase, LenExtra,     \* of each length symbol after the end symbol
  DistBase, DistExtra,   \* of each distance symbol
  LitLens,      \* the tables of code lengths to choose from
  DistLens,
  Texts,        \* the token sequences to encode
  Cap           \* the size the caller expects

VARIABLES
  litLens, distLens, text,
  bits,         \* the stream, possibly cut short
  whole,        \* whether it was not cut
  at, out,      \* bits taken, bytes written
  status        \* "run", "done" or "refused"

vars == <<litLens, distLens, text, bits, whole, at, out, status>>
chosen == <<litLens, distLens, text, bits, whole>>
-----------------------------------------------------------------------------
Count(lens, l) == Cardinality({k \in DOMAIN lens : lens[k] = l})

\* codes left over at each length, negative once too many are used
LeftAt(lens) ==
  LET left[l \in 0..MaxBits] ==
        IF l = 0 THEN 1 ELSE 2 * left[l - 1] - Count(lens, l)
  IN left

Build(lens) == \A l \in 1..MaxBits : LeftAt(lens)[l] >= 0

\* symbols in the order of their codes: by length, then by number
Sym(lens) ==
  SetToSortSeq({k \in DOMAIN lens : lens[k] > 0},
               LAMBDA a, b : \/ lens[a] < lens[b]
                             \/ lens[a] = lens[b] /\ a < b)

\* the next n bits as a number, first bit lowest; -1 past the end
Take(from, n) ==
  IF from + n > Len(bits) THEN -1
  ELSE MapThenSumSet(LAMBDA k : bits[from + k + 1] * 2^k, 0..(n - 1))

\* walk the code one bit at a time against the count of each length
RECURSIVE Walk(_, _, _, _, _, _)
Walk(lens, from, len, code, first, index) ==
  LET bit == Take(from, 1)
      c == Count(lens, len)
      v == code + bit
  IN IF len > MaxBits \/ bit = -1 THEN [sym |-> -1, at |-> from]
     ELSE IF v < first + c
          THEN [sym |-> Sym(lens)[index + (v - first) + 1], at |-> from + 1]
     ELSE Walk(lens, from + 1, len + 1, v * 2, (first + c) * 2, index + c)

Decode(lens, from) == Walk(lens, from, 1, 0, 0, 0)

CopyAtOnce(o, back, n) ==
  o \o SubSeq(o, Len(o) - back + 1, Min({Len(o), Len(o) - back + n}))

\* byte at a time, so that a distance shorter than the length repeats
RECURSIVE CopyBack(_, _, _)
CopyBack(o, back, n) ==
  IF n = 0 THEN o ELSE CopyBack(Append(o, o[Len(o) - back + 1]), back, n - 1)
-----------------------------------------------------------------------------
Refuse == status' = "refused" /\ UNCHANGED <<chosen, at, out>>

Goes(to, o) == at' = to /\ out' = o /\ UNCHANGED <<chosen, status>>

Literal(d) ==
  IF Len(out) >= Cap THEN Refuse ELSE Goes(d.at, Append(out, d.sym))

EndOfBlock(d) ==
  at' = d.at /\ status' = "done" /\ UNCHANGED <<chosen, out>>

\* length extra bits, a distance code, its extra bits, then the copy
Match(d) ==
  LET s == d.sym - Lits
      e == Take(d.at, LenExtra[s])
      dd == Decode(distLens, d.at + LenExtra[s])
      x == Take(dd.at, DistExtra[dd.sym])
      n == LenBase[s] + e
      back == DistBase[dd.sym] + x
  IN IF e = -1 \/ dd.sym = -1 THEN Refuse
     ELSE IF x = -1 \/ back > Len(out) \/ Len(out) + n > Cap THEN Refuse
     ELSE Goes(dd.at + DistExtra[dd.sym], CopyBack(out, back, n))

InflateStep ==
  /\ status = "run"
  /\ \E d \in {Decode(litLens, at)} :
       IF d.sym = -1 THEN Refuse
       ELSE IF d.sym < Lits THEN Literal(d)
       ELSE IF d.sym = Lits THEN EndOfBlock(d)
       ELSE Match(d)
-----------------------------------------------------------------------------
(* The encoder a stream comes from (external, RFC 1951): the codes of a     *)
(* length count up in the order of the symbols.                             *)
CodeOf(lens, sym) ==
  LET s == Sym(lens)
      code[k \in DOMAIN s] ==
        IF k = 1 THEN 0
        ELSE (code[k - 1] + 1) * 2^(lens[s[k]] - lens[s[k - 1]])
      k == CHOOSE k \in DOMAIN s : s[k] = sym
  IN [b \in 1..lens[sym] |-> (code[k] \div 2^(lens[sym] - b)) % 2]

Low(n, v) == [b \in 1..n |-> (v \div 2^(b - 1)) % 2]

\* a token: a literal, or a length and a distance symbol with extra bits
EncodeToken(tok) ==
  IF tok.lit THEN CodeOf(litLens, tok.sym)
  ELSE CodeOf(litLens, tok.sym) \o Low(LenExtra[tok.sym - Lits], tok.le)
         \o CodeOf(distLens, tok.dist) \o Low(DistExtra[tok.dist], tok.de)

Encode ==
  FoldLeft(LAMBDA s, tok : s \o EncodeToken(tok), <<>>, text)
    \o CodeOf(litLens, Lits)

\* what the text says: a copy goes on with the period of its distance
Expand ==
  LET Add(o, tok) ==
        LET n == LenBase[tok.sym - Lits] + tok.le
            back == DistBase[tok.dist] + tok.de
            base == Len(o) - back
        IN IF tok.lit THEN Append(o, tok.sym)
           ELSE o \o [k \in 1..n |-> o[base + 1 + ((k - 1) % back)]]
  IN FoldLeft(Add, <<>>, text)

\* a copy never reaches behind the first byte
Sound ==
  \A k \in DOMAIN text :
    text[k].lit \/
      DistBase[text[k].dist] + text[k].de <=
        MapThenSumSet(LAMBDA j : IF text[j].lit THEN 1
                                 ELSE LenBase[text[j].sym - Lits] + text[j].le,
                      1..(k - 1))

Init ==
  /\ litLens \in LitLens /\ distLens \in DistLens
  /\ text \in Texts /\ Sound
  /\ \E cut \in {0, 1, 2} :
       /\ whole = (cut = 0)
       /\ \E e \in {IF Build(litLens) /\ Build(distLens) THEN Encode ELSE <<0>>} :
            bits = SubSeq(e, 1, Len(e) - cut)
  /\ at = 0 /\ out = <<>>
  /\ status = IF Build(litLens) /\ Build(distLens) THEN "run" ELSE "refused"

Next == InflateStep

Spec == Init /\ [][Next]_vars
-----------------------------------------------------------------------------
TypeOK == /\ at \in 0..Len(bits) /\ Len(out) <= Cap
          /\ status \in {"run", "done", "refused"}

(* A chunk that inflates is the text that was deflated, for every table of  *)
(* code lengths a stream may carry and copies that overlap themselves; a    *)
(* stream cut anywhere, or longer than the run it fills, is refused and     *)
(* never passed for a shorter text (Huff, inflateRaw).                      *)
InflatesToText ==
  /\ status = "done" => whole /\ out = Expand
  /\ (status = "refused" /\ whole) =>
       \/ ~Build(litLens) \/ ~Build(distLens) \/ Len(Expand) > Cap
=============================================================================
