------------------------------ MODULE Lowering ------------------------------
(***************************************************************************)
(* The x86-64 code Compiler::word (core/src/jit.cpp) emits for the integer *)
(* instructions it inlines, run one host instruction at a time on a host   *)
(* with the registers and the flags that code uses.  What the sequence     *)
(* leaves in the guest's registers, XER and CR is compared with what the   *)
(* handler of exec_int.cpp (AluOps) computes.  Guest registers are named   *)
(* by the instruction's fields, so that two fields may name one register.  *)
(***************************************************************************)
EXTENDS AluOps, Sequences

CONSTANTS Ops,        \* the lowerings, by mnemonic
          Inputs,     \* words a guest register may hold
          Aliases,    \* register numbers of the fields [rt, ra, rb]
          Shifts      \* immediate shift amounts

VARIABLES insn,     \* [op, rc, f, sh]: f gives each field its register
          pre,      \* the guest before the instruction: [g, so, ca]
          g,        \* the guest's registers
          xer,      \* [so, ca]
          cr,       \* the condition field the instruction writes
          h,        \* host registers
          fl,       \* host flags [c, z, s, o]
          at        \* index of the next host instruction

vars == <<insn, pre, g, xer, cr, h, fl, at>>

-----------------------------------------------------------------------------
(* Host instructions: operation, destination, source, immediate.           *)

X(o, d, s, n) == [o |-> o, d |-> d, s |-> s, n |-> n]

Load(d, field) == X("load", d, field, 0)          \* Emit::loadR
Store(field) == X("store", "eax", field, 0)       \* Emit::storeR
OpR(o, d, s) == X(o, d, s, 0)
OpI(o, d, n) == X(o, d, "imm", Word(n))
OpM(o, d, field) == X(o, d, field, 0)             \* Emit::mem13
Set(cc, d) == X("set", d, cc, 0)

(* caFromEdx and crInsert as single steps: both read host registers only.  *)
CaFromEdx == <<X("ca", "edx", "", 0)>>
Zero3 == <<X("zero3", "", "", 0)>>
CrInsert(sgn) == <<X("crInsert", "", IF sgn THEN "signed" ELSE "unsigned", 0)>>

SetCr0FromEaxLate == <<OpR("test", "eax", "eax")>> \o Zero3 \o CrInsert(TRUE)

SetCr0FromEax == Zero3 \o <<OpR("test", "eax", "eax")>> \o CrInsert(TRUE)

(* aluTail, without the bump.                                              *)
AluTail(i) == IF i.rc THEN SetCr0FromEax ELSE <<>>

ZeroEdx == <<OpR("xor", "edx", "edx")>>

(* Lo::Adde .. Lo::Subfme: the carry flag is the guest's CA, and the not   *)
(* in between keeps it.                                                    *)
ExtendedCode(op) ==
    ZeroEdx \o <<X("btCa", "", "", 0), Load("eax", "ra")>>
    \o (IF op \in {"subfe", "subfze", "subfme"} THEN <<OpR("not", "eax", "eax")>> ELSE <<>>)
    \o (CASE op \in {"adde", "subfe"} -> <<OpM("adc", "eax", "rb")>>
          [] op \in {"addze", "subfze"} -> <<OpI("adc", "eax", 0)>>
          [] op \in {"addme", "subfme"} -> <<OpI("adc", "eax", -1)>>)
    \o <<Set("c", "edx"), Store("rt")>> \o CaFromEdx

ShiftCodeNoTest(op) ==
    ZeroEdx \o <<Load("ecx", "rb"), Load("eax", "rt"),
                 OpR(IF op = "slw" THEN "shl" ELSE "shr", "eax", "ecx"), Store("ra")>>

(* Lo::Slw and Lo::Srw: the host shifts by the amount modulo the width, so *)
(* the next bit of the amount is tested for the answer zero.               *)
ShiftCode(op) ==
    ZeroEdx \o <<Load("ecx", "rb"), Load("eax", "rt"),
                 OpR(IF op = "slw" THEN "shl" ELSE "shr", "eax", "ecx"),
                 OpI("testi", "ecx", W), OpR("cmovnz", "eax", "edx"), Store("ra")>>

(* Lo::Srawi: the sign and the lost bits of the source decide the carry.   *)
SrawiCode(n) ==
    IF n = 0
    THEN <<Load("eax", "rt"), Store("ra")>> \o ZeroEdx \o CaFromEdx
    ELSE <<Load("eax", "rt"), OpR("mov", "edx", "eax"), OpI("sar", "eax", n), Store("ra"),
           OpR("mov", "ecx", "eax"), OpI("shr", "ecx", W - 1), OpR("xor", "r8", "r8"),
           OpI("and", "edx", 2^n - 1), Set("nz", "r8"), OpR("and", "ecx", "r8"),
           OpR("mov", "edx", "ecx")>> \o CaFromEdx

(* Lo::Rlwimi reads rA's old bits after the rotate, before it is stored.   *)
RlwimiCode(sh, m) ==
    <<Load("eax", "rt"), OpI("rol", "eax", sh), OpI("and", "eax", m), Load("edx", "ra"),
      OpI("and", "edx", Flip(m)), OpR("or", "eax", "edx"), Store("ra")>>

LogicCode(op) ==
    LET host == CASE op \in {"and", "nand"} -> "and"
                  [] op \in {"xor", "eqv"} -> "xor"
                  [] op \in {"or", "nor"} -> "or"
    IN  <<Load("eax", "rt"), OpM(host, "eax", "rb")>>
        \o (IF op \in {"eqv", "nor", "nand"} THEN <<OpR("not", "eax", "eax")>> ELSE <<>>)
        \o <<Store("ra")>>

FieldMask == Mask(W - 3, W - 2)

(* Compiler::word: the sequence of one instruction; the immediate of the D *)
(* forms is in sh.                                                         *)
Emitted(i) ==
    CASE i.op = "addic" -> ZeroEdx \o <<Load("eax", "ra"), OpI("add", "eax", i.sh),
                               Set("c", "edx"), Store("rt")>> \o CaFromEdx
      [] i.op = "subfic" -> ZeroEdx \o <<OpI("movi", "eax", i.sh), OpM("sub", "eax", "ra"),
                               Set("nc", "edx"), Store("rt")>> \o CaFromEdx
      [] i.op = "mulli" -> <<Load("eax", "ra"), OpI("imul", "eax", i.sh), Store("rt")>>
      [] i.op = "add" -> <<Load("eax", "ra"), OpM("add", "eax", "rb"), Store("rt")>>
      [] i.op = "subf" -> <<Load("eax", "rb"), OpM("sub", "eax", "ra"), Store("rt")>>
      [] i.op = "neg" -> <<Load("eax", "ra"), OpR("neg", "eax", "eax"), Store("rt")>>
      [] i.op = "addc" -> ZeroEdx \o <<Load("eax", "ra"), OpM("add", "eax", "rb"),
                               Set("c", "edx"), Store("rt")>> \o CaFromEdx
      [] i.op = "subfc" -> ZeroEdx \o <<Load("eax", "rb"), OpM("sub", "eax", "ra"),
                               Set("nc", "edx"), Store("rt")>> \o CaFromEdx
      [] i.op \in {"adde", "addze", "addme", "subfe", "subfze", "subfme"} -> ExtendedCode(i.op)
      [] i.op = "mullw" -> <<Load("eax", "ra"), OpM("imul", "eax", "rb"), Store("rt")>>
      [] i.op \in {"mulhw", "mulhwu"} -> <<Load("eax", "ra"),
              OpM(IF i.op = "mulhw" THEN "imulWide" ELSE "mulWide", "eax", "rb"),
              OpR("mov", "eax", "edx"), Store("rt")>>
      [] i.op \in {"and", "or", "xor", "eqv", "nor", "nand"} -> LogicCode(i.op)
      [] i.op \in {"andc", "orc"} -> <<Load("eax", "rb"), OpR("not", "eax", "eax"),
              OpM(IF i.op = "andc" THEN "and" ELSE "or", "eax", "rt"), Store("ra")>>
      [] i.op \in {"slw", "srw"} -> ShiftCode(i.op)
      [] i.op = "srawi" -> SrawiCode(i.sh)
      [] i.op = "rlwinm" -> <<Load("eax", "rt"), OpI("rol", "eax", i.sh),
                              OpI("and", "eax", FieldMask), Store("ra")>>
      [] i.op = "rlwnm" -> <<Load("ecx", "rb"), OpI("and", "ecx", W - 1), Load("eax", "rt"),
                             OpR("rol", "eax", "ecx"), OpI("and", "eax", FieldMask), Store("ra")>>
      [] i.op = "rlwimi" -> RlwimiCode(i.sh, FieldMask)
      [] i.op = "cntlzw" -> <<Load("eax", "rt"), OpR("bsr", "edx", "eax"),
                              X("leading", "eax", "edx", 0), Store("ra")>>
      [] i.op \in {"extsb", "extsh"} -> <<X("movsx", "eax", "rt", IF i.op = "extsb" THEN W \div 4 ELSE W \div 2),
                                          Store("ra")>>
      [] i.op \in {"cmp", "cmpl"} -> <<Load("eax", "ra"), Load("edx", "rb")>> \o Zero3
                                     \o <<OpR("cmp", "eax", "edx")>> \o CrInsert(i.op = "cmp")

Compares == {"cmp", "cmpl"}

Code == Emitted(insn) \o (IF insn.op \in Compares THEN <<>> ELSE AluTail(insn))

-----------------------------------------------------------------------------
(* The host.                                                               *)

Bit(b) == IF b THEN 1 ELSE 0

Reg(field) == g[insn.f[field]]

Source(x) ==
    CASE x.s = "imm" -> x.n
      [] x.s \in {"rt", "ra", "rb"} -> Reg(x.s)
      [] OTHER -> h[x.s]

(* Flags of an arithmetic result and of a logical one.                     *)
SubFlags(a, b) ==
    [c |-> a < b, z |-> a = b, s |-> Negative(Word(a - b)),
     o |-> Signed(a) - Signed(b) # Signed(Word(a - b))]

AddFlags(a, b, k) ==
    [c |-> a + b + k >= M, z |-> Word(a + b + k) = 0, s |-> Negative(Word(a + b + k)),
     o |-> Addc3(a, b, k).ov]

BitFlags(v) == [c |-> FALSE, z |-> v = 0, s |-> Negative(v), o |-> FALSE]

Amount(n) == n % W

(* One host instruction that computes: the value and the flags it leaves.  *)
Alu1(x, a, b) ==
    CASE x.o = "add"  -> <<Word(a + b), AddFlags(a, b, 0)>>
      [] x.o = "adc"  -> <<Word(a + b + Bit(fl.c)), AddFlags(a, b, Bit(fl.c))>>
      [] x.o = "sub"  -> <<Word(a - b), SubFlags(a, b)>>
      [] x.o = "cmp"  -> <<a, SubFlags(a, b)>>
      [] x.o = "neg"  -> <<Word(-a), SubFlags(0, a)>>
      [] x.o = "not"  -> <<Flip(a), fl>>
      [] x.o \in {"mov", "movi", "load"} -> <<b, fl>>
      [] x.o = "and"  -> <<a & b, BitFlags(a & b)>>
      [] x.o = "or"   -> <<a | b, BitFlags(a | b)>>
      [] x.o = "xor"  -> <<a ^^ b, BitFlags(a ^^ b)>>
      [] x.o \in {"test", "testi"} -> <<a, BitFlags(a & b)>>
      [] x.o = "imul" -> <<Word(a * b), BitFlags(0)>>
      [] x.o = "shl"  -> <<Word(a * 2^Amount(b)), BitFlags(Word(a * 2^Amount(b)))>>
      [] x.o = "shr"  -> <<a \div 2^Amount(b), BitFlags(a \div 2^Amount(b))>>
      [] x.o = "sar"  -> <<Word(Signed(a) \div 2^Amount(b)), BitFlags(Word(Signed(a) \div 2^Amount(b)))>>
      [] x.o = "rol"  -> <<Rotl(a, b), fl>>
      [] x.o = "cmovnz" -> <<IF fl.z THEN a ELSE b, fl>>
      [] x.o = "bsr"  -> <<IF b = 0 THEN a ELSE W - 1 - Leading(b), [fl EXCEPT !.z = b = 0]>>
      [] x.o = "leading" -> <<IF fl.z THEN W ELSE W - 1 - b, fl>>
      [] x.o = "movsx" -> <<Narrow(b, x.n), fl>>

Computing == {"add", "adc", "sub", "cmp", "neg", "not", "mov", "movi", "load", "and", "or", "xor",
              "test", "testi", "imul", "shl", "shr", "sar", "rol", "cmovnz", "bsr", "leading", "movsx"}

Compute(x) ==
    /\ x.o \in Computing
    /\ \E r \in {Alu1(x, h[x.d], Source(x))} : h' = [h EXCEPT ![x.d] = r[1]] /\ fl' = r[2]
    /\ UNCHANGED <<g, xer, cr>>

(* mul and imul of one operand leave the high half in edx.                 *)
WideProduct(x) ==
    /\ x.o \in {"imulWide", "mulWide"}
    /\ h' = [h EXCEPT !["edx"] = Product(IF x.o = "imulWide" THEN "mulhw" ELSE "mulhwu", h["eax"], Source(x)).r]
    /\ fl' = BitFlags(0)
    /\ UNCHANGED <<g, xer, cr>>

(* setcc writes the low byte: the register was zeroed before.              *)
SetCc(x) ==
    /\ x.o = "set"
    /\ h' = [h EXCEPT ![x.d] = Bit(CASE x.s = "c" -> fl.c [] x.s = "nc" -> ~fl.c [] x.s = "nz" -> ~fl.z)]
    /\ UNCHANGED <<g, xer, cr, fl>>

StoreGuest(x) ==
    /\ x.o = "store"
    /\ g' = [g EXCEPT ![insn.f[x.s]] = h[x.d]]
    /\ UNCHANGED <<xer, cr, h, fl>>

(* bt of XER[CA], and caFromEdx, which masks with r9.                      *)
ReadCa(x) ==
    /\ x.o = "btCa"
    /\ fl' = [fl EXCEPT !.c = xer.ca]
    /\ UNCHANGED <<g, xer, cr, h>>

WriteCa(x) ==
    /\ x.o = "ca"
    /\ xer' = [xer EXCEPT !.ca = h["edx"] = 1]
    /\ fl' = BitFlags(0)
    /\ UNCHANGED <<g, cr, h>>

(* zero3 clobbers the flags, so it comes before the compare; crInsert      *)
(* reads them with setl/setg or setb/seta and takes SO from XER.           *)
ClearThree(x) ==
    /\ x.o = "zero3"
    /\ h' = [h EXCEPT !["r8"] = 0]
    /\ fl' = BitFlags(0)
    /\ UNCHANGED <<g, xer, cr>>

InsertCr(x) ==
    /\ x.o = "crInsert"
    /\ LET less == IF x.s = "signed" THEN fl.s # fl.o ELSE fl.c
       IN  cr' = [lt |-> less, gt |-> ~less /\ ~fl.z, eq |-> fl.z, so |-> xer.so]
    /\ fl' = BitFlags(0)
    /\ UNCHANGED <<g, xer, h>>

Running == at <= Len(Code)

Next ==
    /\ Running
    /\ \E x \in {Code[at]} :
          \/ Compute(x) \/ WideProduct(x) \/ SetCc(x) \/ StoreGuest(x)
          \/ ReadCa(x) \/ WriteCa(x) \/ ClearThree(x) \/ InsertCr(x)
    /\ at' = at + 1
    /\ UNCHANGED <<insn, pre>>

NoCr == [lt |-> FALSE, gt |-> FALSE, eq |-> FALSE, so |-> FALSE]

ImmediateOps == {"addic", "subfic", "mulli", "srawi", "rlwinm", "rlwimi"}

(* The host registers hold whatever the words before left there.           *)
Init ==
    /\ insn \in [op : Ops, rc : BOOLEAN, f : Aliases, sh : Shifts]
    /\ insn.op \notin ImmediateOps => insn.sh = 0
    /\ insn.op \in Compares \cup {"mulli", "subfic"} => ~insn.rc
    /\ pre \in [g : [1..3 -> Inputs], so : BOOLEAN, ca : BOOLEAN]
    /\ (\A x \in {"rt", "ra", "rb"} : insn.f[x] # 3) => pre.g[3] = 0
    /\ pre.so => pre.ca
    /\ g = pre.g
    /\ xer = [so |-> pre.so, ca |-> pre.ca]
    /\ cr = NoCr
    /\ h = [x \in {"eax", "ecx", "edx", "r8"} |-> M - 1]
    /\ fl = [c |-> TRUE, z |-> FALSE, s |-> TRUE, o |-> FALSE]
    /\ at = 1

Spec == Init /\ [][Next]_vars
-----------------------------------------------------------------------------
(* What the handler leaves: the register it writes, its value and CA.      *)

Old(field) == pre.g[insn.f[field]]

HandlerSum ==
    LET args == SumArgs(insn.op, Old("ra"),
                        IF insn.op \in {"addic", "subfic"} THEN Word(insn.sh) ELSE Old("rb"), pre.ca)
    IN  Addc3(args[1], args[2], args[3])

ToRt == SumOps \cup ProductOps \cup {"mulli"}

HandlerValue ==
    CASE insn.op \in SumOps -> HandlerSum.r
      [] insn.op \in ProductOps -> Product(insn.op, Old("ra"), Old("rb")).r
      [] insn.op = "mulli" -> Product("mullw", Old("ra"), Word(insn.sh)).r
      [] insn.op \in LogicOps -> Logic(insn.op, Old("rt"), Old("rb"))
      [] insn.op \in {"slw", "srw"} -> Shift(insn.op, Old("rt"), Old("rb"))
      [] insn.op = "srawi" -> Shift("srawi", Old("rt"), insn.sh)
      [] insn.op = "rlwinm" -> Rotl(Old("rt"), insn.sh) & FieldMask
      [] insn.op = "rlwnm" -> Rotl(Old("rt"), Old("rb")) & FieldMask
      [] insn.op = "rlwimi" -> Insert(Old("ra"), Old("rt"), insn.sh, W - 3, W - 2)

HandlerCa ==
    CASE insn.op \in CarryOps -> HandlerSum.ca
      [] insn.op = "srawi" -> ShiftCarry(Old("rt"), insn.sh)
      [] OTHER -> pre.ca

TypeOK ==
    /\ g \in [1..3 -> Words]
    /\ \A x \in DOMAIN h : h[x] \in Words
    /\ at \in 1..(Len(Code) + 1)

(* The emitted code leaves the guest exactly as the handler would, two     *)
(* fields naming one register or not: the same registers, the same carry,  *)
(* the condition of the result the handler records (jit.hpp:9-10, "Nothing *)
(* is re-derived, so nothing can disagree").                               *)
EmittedIsHandler ==
    ~Running =>
      IF insn.op \in Compares
      THEN /\ g = pre.g /\ xer.ca = pre.ca
           /\ cr = IF insn.op = "cmp" THEN Compared(Signed(Old("ra")), Signed(Old("rb")), pre.so)
                                      ELSE Compared(Old("ra"), Old("rb"), pre.so)
      ELSE LET v == HandlerValue
           IN  /\ g = [pre.g EXCEPT ![insn.f[IF insn.op \in ToRt THEN "rt" ELSE "ra"]] = v]
               /\ xer = [so |-> pre.so, ca |-> HandlerCa]
               /\ cr = IF insn.rc THEN Compared(Signed(v), 0, pre.so) ELSE NoCr
=============================================================================
