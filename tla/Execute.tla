------------------------------ MODULE Execute -------------------------------
(***************************************************************************)
(* What an instruction computes, in the two cores: execute.cpp and the     *)
(* global operations of cache_model_global.cpp for the legacy core,        *)
(* rigel_isa.cpp and doMem for the functional one.  The functional core is *)
(* what the legacy core is tested against.                                 *)
(*                                                                         *)
(* Words are scaled down to Width bits: a half is what the code calls      *)
(* 16-bit, a quarter 8-bit.  The operation of a floating-point unit is a   *)
(* term, <<"name", operands>>, the operands of + and * in a set.           *)
(***************************************************************************)
EXTENDS Isa, Bitwise

CONSTANTS
  Width,         \* the bits of a word: 32 in the code
  Corners,       \* the operands that are tried
  Immediates,    \* the immediate fields
  Pcs            \* the program counters
ASSUME WidthAssumption == Width \in Nat /\ Width % 4 = 0 /\ Width > 4
ASSUME TriedAssumption ==
  Corners \cup Immediates \cup Pcs \subseteq 0 .. 2 ^ Width - 1

Size == 2 ^ Width
Half == Width \div 2
Quarter == Width \div 4
Ones == Size - 1
TopBit == 2 ^ (Width - 1)
Word(n) == n % Size
Signed(n) == IF n >= TopBit THEN n - Size ELSE n
BitSet(v, k) == (v \div 2 ^ k) % 2 = 1
Truth(b) == IF b THEN 1 ELSE 0
ShiftL(v, n) == Word(v * 2 ^ n)
ShiftR(v, n) == v \div 2 ^ n
Low(v, bits) == v % 2 ^ bits
\* the immediate fields of the word: of half a word, of a shift, of a long jump
Imm(w) == Low(w.imm, Half)
Imm5(w) == w.imm % Width
Imm26(w) == Low(w.imm, Width - 3)

\* the zeros ahead of the first one, counted up to a limit
Clz(v, limit) ==
  CHOOSE k \in 0 .. limit :
    /\ k = limit \/ (k < Width /\ BitSet(v, Width - 1 - k))
    /\ \A j \in 0 .. k - 1 : ~(j < Width /\ BitSet(v, Width - 1 - j))

Fadd(a, b) == <<"+", {a, b}>>
Fmul(a, b) == <<"*", {a, b}>>
Fsub(a, b) == <<"-", a, b>>
Fmadd(c, a, b) == <<"+", c, Fmul(a, b)>>

-----------------------------------------------------------------------------
(***************************************************************************)
(* The legacy core.  w is the word; the operands x and y are the values of *)
(* the recorded registers sreg0 and sreg1.                                 *)
(***************************************************************************)
Simm(w) == IF BitSet(w.imm, Half - 1) THEN (Ones - Low(Ones, Half)) | Imm(w) ELSE Imm(w)

\* a mask that leaves out the lowest of them
SignMask_OneBitShort(x, n) ==
  IF (x & TopBit) = 0 \/ n = 0 THEN {0} ELSE {ShiftL(Ones, Width - n + 1)}
\* the sign bits that SRA puts in; shifting a word by its width is undefined
SignMask(x, n) ==
  IF (x & TopBit) = 0 THEN {0}
  ELSE IF n = 0 THEN {0, Ones} ELSE {ShiftL(Ones, Width - n)}
Sext(x, bits) == IF BitSet(x, bits - 1) THEN x | (Ones - Low(Ones, bits)) ELSE Low(Ones, bits) & x

LegacyAdd(type, x, y, w) ==
  CASE type \in {"ADD", "ADDU"}   -> Word(x + y)
    [] type \in {"SUB", "SUBU"}   -> Word(x - y)
    [] type \in {"ADDI", "ADDIU"} -> Word(x + Simm(w))
    [] type \in {"SUBI", "SUBIU"} -> Word(x - Simm(w))
LegacyLogic(type, x, y, w) ==
  CASE type = "AND"   -> x & y
    [] type = "OR"    -> x | y
    [] type = "XOR"   -> x ^^ y
    [] type = "NOR"   -> Ones - (x | y)
    [] type = "ANDI"  -> x & Imm(w)
    [] type = "ORI"   -> x | Imm(w)
    [] type = "XORI"  -> x ^^ Imm(w)
LegacyMove(type, x, w) ==
  CASE type = "MVUI" -> ShiftL(Imm(w), Half)
    [] type \in {"MFSR", "MTSR"} -> x
LegacyExtend(type, x, y) ==
  CASE type = "ZEXTB" -> x & Low(Ones, Quarter)
    [] type = "ZEXTS" -> x & Low(Ones, Half)
    [] type = "SEXTB" -> Sext(x, Quarter)
    [] type = "SEXTS" -> Sext(x, Half)
    [] type = "CLZ"   -> Clz(x, Width)
    [] type = "MUL"   -> Word((Ones & x) * (Ones & y))
\* the four lanes xs of the vector register s and ys of t
LegacyVector(type, xs, ys, w) ==
  [k \in 1 .. 4 |->
     CASE type = "VADD"  -> Word(xs[k] + ys[k])
       [] type = "VSUB"  -> Word(xs[k] - ys[k])
       [] type = "VADDI" -> Word(xs[k] + Simm(w))
       [] type = "VSUBI" -> Word(xs[k] - Simm(w))
       [] type = "VFADD" -> Fadd(xs[k], ys[k])
       [] type = "VFSUB" -> Fsub(xs[k], ys[k])
       [] type = "VFMUL" -> Fmul(xs[k], ys[k])]
LegacyShift(type, x, y, w) ==
  LET n == IF type \in {"SLL", "SRL", "SRA"} THEN y & (Width - 1) ELSE Imm5(w) IN
  CASE type \in {"SLL", "SLLI"} -> {ShiftL(x, n)}
    [] type \in {"SRL", "SRLI"} -> {ShiftR(x, n)}
    [] type \in {"SRA", "SRAI"} -> {ShiftR(x, n) | mask : mask \in SignMask(x, n)}
LegacyCompare(type, x, y) ==
  CASE type = "CEQ"  -> Truth(Signed(x) = Signed(y))
    [] type = "CLT"  -> Truth(Signed(x) < Signed(y))
    [] type = "CLE"  -> Truth(Signed(x) <= Signed(y))
    [] type = "CLTU" -> Truth(x < y)
    [] type = "CLEU" -> Truth(x <= y)
LegacyFloat(type, x, y) ==
  CASE type = "FADD"  -> Fadd(y, x)
    [] type = "FSUB"  -> Fsub(x, y)
    [] type = "FMUL"  -> Fmul(x, y)
LegacyFmadd(acc, x, y) == Fmadd(acc, x, y)
LegacyUnary(type, x) ==
  CASE type = "FABS"  -> <<"fabs", x>>
    [] type = "FRCP"  -> <<"/", 1, x>>
    [] type = "FRSQ"  -> <<"/", 1, <<"sqrt", x>>>>
    [] type = "I2F"   -> <<"float", Signed(x)>>
    [] type = "F2I"   -> <<"int", x>>
LegacyFloatCompare(type, x, y) ==
  CASE type = "CEQF"  -> <<"=", {y, x}>>
    [] type = "CLTF"  -> <<"<", x, y>>
    [] type = "CLTEF" -> <<"<=", x, y>>

LegacyTaken(type, x, y) ==
  CASE type = "BE"  -> x = 0
    [] type = "BN"  -> x # 0
    [] type = "BEQ" -> y = x
    [] type = "BNE" -> y # x
    [] type = "BLT" -> Signed(x) < 0
    [] type = "BGT" -> Signed(x) > 0
    [] type = "BLE" -> Signed(x) <= 0
    [] type = "BGE" -> Signed(x) >= 0
LegacyNewPc(type, x, y, w) ==
  LET relative == Ones & Word(w.pc + 4 * Simm(w) + 4) IN
  CASE type \in Conditional    -> IF LegacyTaken(type, x, y) THEN relative ELSE Word(w.pc + 4)
    [] type \in {"JMP", "JAL"} -> relative
    [] type \in {"LJ", "LJL"}  -> (TopBit & w.pc) | (4 * Imm26(w))
    [] type \in {"JALR", "JMPR"} -> x

\* the access of a load, store or global operation: the address, what is
\* stored or swapped in, and the other operand of an atomic operation
LegacyLoad(type, x, w) == [ea |-> IF type = "LDL" THEN x ELSE Word(x + Simm(w))]
LegacyStore(type, x, y, w) ==
  IF type = "STC" THEN [ea |-> x, data |-> y] ELSE [ea |-> Word(y + Simm(w)), data |-> x]
LegacyAtomic(type, x, y, dest, w) ==
  CASE type = "ATOMXCHG"             -> [ea |-> Word(y + Simm(w)), data |-> x]
    [] type \in {"ATOMINC", "ATOMDEC"} -> [ea |-> Word(y + Simm(w))]
    [] type = "ATOMCAS"              -> [ea |-> x, data |-> dest, operand |-> y]
    [] OTHER                         -> [ea |-> x, operand |-> y]
LegacyAccess(type, x, y, dest, w) ==
  CASE type \in {"LDL", "LDW", "GLDW"}                  -> LegacyLoad(type, x, w)
    [] type \in {"STC", "STW", "GSTW", "BCAST_UPDATE"}  -> LegacyStore(type, x, y, w)
    [] OTHER                                            -> LegacyAtomic(type, x, y, dest, w)
\* a global operation on the word old: what it leaves and what it returns
LegacyExchange(type, old, a) ==
  CASE type = "ATOMINC"  -> [mem |-> Word(old + 1), ret |-> Word(old + 1)]
    [] type = "ATOMDEC"  -> [mem |-> Word(old - 1), ret |-> Word(old - 1)]
    [] type = "ATOMADDU" -> [mem |-> Word(old + a.operand), ret |-> old]
    [] type = "ATOMCAS"  -> [mem |-> IF old = a.operand THEN a.data ELSE old, ret |-> old]
    [] type = "ATOMXCHG" -> [mem |-> a.data, ret |-> old]
LegacyCombined(type, old, operand) ==
  CASE type = "ATOMMAX"  -> IF operand > old THEN operand ELSE old
    [] type = "ATOMMIN"  -> IF operand < old THEN operand ELSE old
    [] type = "ATOMOR"   -> operand | old
    [] type = "ATOMAND"  -> operand & old
    [] type = "ATOMXOR"  -> operand ^^ old
LegacyGlobal(type, old, a) ==
  IF type \in {"ATOMINC", "ATOMDEC", "ATOMADDU", "ATOMCAS", "ATOMXCHG"}
  THEN LegacyExchange(type, old, a)
  ELSE [mem |-> LegacyCombined(type, old, a.operand), ret |-> LegacyCombined(type, old, a.operand)]

-----------------------------------------------------------------------------
(***************************************************************************)
(* The functional core, over the registers t, s and d of the word.         *)
(***************************************************************************)
SignExtend(n, bits) == Word(IF BitSet(n, bits - 1) THEN Low(n, bits) - 2 ^ bits ELSE Low(n, bits))
Simm16(w) == SignExtend(Imm(w), Half)

execALU(type, t, s, w) ==
  CASE type = "ADD" -> Word(t + s)
    [] type = "SUB" -> Word(t - s)
    [] type = "MUL" -> Word(t * s)
    [] type \in {"SUBI", "SUBIU"} -> Word(t - Simm16(w))
    [] type \in {"ADDI", "ADDIU"} -> Word(t + Simm16(w))
    [] type = "AND"   -> t & s
    [] type = "OR"    -> t | s
    [] type = "XOR"   -> t ^^ s
    [] type = "NOR"   -> Ones - (t | s)
    [] type = "ANDI"  -> t & Imm(w)
    [] type = "ORI"   -> t | Imm(w)
    [] type = "XORI"  -> t ^^ Imm(w)
    [] type = "ZEXTB" -> Low(t, Quarter)
    [] type = "ZEXTS" -> Low(t, Half)
    [] type = "SEXTB" -> SignExtend(t, Quarter)
    [] type = "SEXTS" -> SignExtend(t, Half)
    [] type = "MVUI"  -> ShiftL(Imm(w), Half)
    [] type = "CLZ"   -> Clz(t, Width + 1)
    [] type \in {"MFSR", "MTSR"} -> t
execShift(type, t, s, w) ==
  LET n == IF type \in {"SLL", "SRL", "SRA"} THEN s & (Width - 1) ELSE Imm5(w) IN
  CASE type \in {"SLL", "SLLI"} -> ShiftL(t, n)
    [] type \in {"SRL", "SRLI"} -> ShiftR(t, n)
    [] type \in {"SRA", "SRAI"} -> Word(Signed(t) \div 2 ^ n)
execCompare(type, t, s) ==
  CASE type = "CEQ"  -> Truth(Signed(t) = Signed(s))
    [] type = "CLT"  -> Truth(Signed(t) < Signed(s))
    [] type = "CLE"  -> Truth(Signed(t) <= Signed(s))
    [] type = "CLTU" -> Truth(t < s)
    [] type = "CLEU" -> Truth(t <= s)
execFPU(type, t, s, d) ==
  CASE type = "FADD"  -> Fadd(t, s)
    [] type = "FSUB"  -> Fsub(t, s)
    [] type = "FMUL"  -> Fmul(t, s)
    [] type = "FMADD" -> Fmadd(d, t, s)
    [] type = "FABS"  -> <<"fabs", t>>
    [] type = "FRCP"  -> <<"/", 1, t>>
    [] type = "FRSQ"  -> <<"/", 1, <<"sqrt", t>>>>
    [] type = "I2F"   -> <<"float", Signed(t)>>
    [] type = "F2I"   -> <<"int", t>>
    [] type = "CEQF"  -> <<"=", {t, s}>>
    [] type = "CLTF"  -> <<"<", t, s>>
    [] type = "CLTEF" -> <<"<=", t, s>>

execBranchPredicate(type, t, d) ==
  CASE type \in IsBranch \ Conditional -> TRUE
    [] type = "BE"  -> Signed(t) = 0
    [] type = "BN"  -> Signed(t) # 0
    [] type = "BLT" -> Signed(t) < 0
    [] type = "BGT" -> Signed(t) > 0
    [] type = "BLE" -> Signed(t) <= 0
    [] type = "BGE" -> Signed(t) >= 0
    [] type = "BEQ" -> Signed(t) = Signed(d)
    [] type = "BNE" -> Signed(t) # Signed(d)
execBranchTarget(type, t, w) ==
  CASE type \in {"LJ", "LJL"}    -> (w.pc & TopBit) | ShiftL(Imm26(w), 2)
    [] type \in {"JALR", "JMPR"} -> t
    [] OTHER                     -> Word(Word(w.pc + 4) + ShiftL(Simm16(w), 2))

execAddressGen(type, t, w) ==
  IF type \in {"LDL", "STC", "ATOMCAS", "ATOMMIN", "ATOMMAX", "ATOMAND", "ATOMOR", "ATOMXOR"}
  THEN t ELSE Word(t + Simm16(w))
doMem(type, t, s, d, w) ==
  LET ea == execAddressGen(type, t, w) IN
  CASE type \in {"LDL", "LDW", "GLDW", "ATOMINC", "ATOMDEC"}  -> [ea |-> ea]
    [] type = "STC"                                           -> [ea |-> ea, data |-> s]
    [] type \in {"STW", "GSTW", "BCAST_UPDATE", "ATOMXCHG"}   -> [ea |-> ea, data |-> d]
    [] type = "ATOMCAS" -> [ea |-> ea, data |-> d, operand |-> s]
    [] type \in {"ATOMADDU", "ATOMMIN", "ATOMMAX", "ATOMAND", "ATOMOR", "ATOMXOR"}
                                                              -> [ea |-> ea, operand |-> s]
execGlobalAtomic(type, oldval, p) ==
  LET newval ==
        CASE type \in {"ATOMCAS", "ATOMXCHG"} -> p.data
          [] type = "ATOMADDU" -> Word(oldval + p.operand)
          [] type = "ATOMINC"  -> Word(oldval + 1)
          [] type = "ATOMDEC"  -> Word(oldval - 1)
          [] type = "ATOMMIN"  -> IF p.operand < oldval THEN p.operand ELSE oldval
          [] type = "ATOMMAX"  -> IF oldval < p.operand THEN p.operand ELSE oldval
          [] type = "ATOMAND"  -> oldval & p.operand
          [] type = "ATOMOR"   -> oldval | p.operand
          [] type = "ATOMXOR"  -> oldval ^^ p.operand
      writes == type = "ATOMCAS" => oldval = p.operand
  IN [mem |-> IF writes THEN newval ELSE oldval,
      ret |-> IF type \in {"ATOMCAS", "ATOMXCHG", "ATOMADDU"} THEN oldval ELSE newval]
-----------------------------------------------------------------------------
(***************************************************************************)
(* One instruction after another, decoded and executed by both cores over  *)
(* the same register values.                                               *)
(***************************************************************************)
VARIABLES
  word,          \* the instruction, with the values of its registers t, s, d
  legacy,        \* what the legacy core may make of it
  functional     \* what the functional core makes of it
vars == <<word, legacy, functional>>

Idle == [type |-> "NULL"]
Adds == {"ADD", "SUB", "ADDI", "ADDIU", "SUBI", "SUBIU"}
Logic == {"AND", "OR", "XOR", "NOR", "ANDI", "ORI", "XORI"}
Moves == {"MVUI", "MFSR", "MTSR"}
FloatCompares == {"CEQF", "CLTF", "CLTEF"}
Accesses == {"LDL", "STC", "LDW", "STW"} \cup IsGlobal
Atomics == IsGlobal \ {"GLDW", "GSTW", "BCAST_UPDATE"}
ExecutedByBoth == IsALU \cup IsShift \cup IsCompare \cup (IsFPU \ {"FMSUB"}) \cup IsBranch
                  \cup Accesses

\* the registers that the legacy decoder takes from the fields t, s and d
OpOf(type) == CHOOSE op \in Opcodes : DecodeSwitch[op].type = type
Recorded == [type \in ExecutedByBoth |->
               SetRegs(DecodeSwitch[OpOf(type)].fmt, [t |-> 1, s |-> 2, d |-> 3, a |-> 3])]
Value(w, r) == CASE r = 1 -> w.t [] r = 2 -> w.s [] r = 3 -> w.d [] OTHER -> 0
\* a vector register as four words, its number the first of them
Lanes(v) == [k \in 1 .. 4 |-> Word(v + 9 * (k - 1))]

LegacyOutcomes(w) ==
  LET type == w.type
      f == Recorded[type]
      x == Value(w, f.sreg0)
      y == Value(w, f.sreg1)
      access == LegacyAccess(type, x, y, w.d, w)
  IN CASE type \in Adds      -> {LegacyAdd(type, x, y, w)}
       [] type \in Logic     -> {LegacyLogic(type, x, y, w)}
       [] type \in Moves     -> {LegacyMove(type, x, w)}
       [] type \in IsALU \ (Adds \cup Logic \cup Moves) -> {LegacyExtend(type, x, y)}
       [] type \in IsShift   -> LegacyShift(type, x, y, w)
       [] type \in IsCompare -> {LegacyCompare(type, x, y)}
       [] type \in FloatCompares           -> {LegacyFloatCompare(type, x, y)}
       [] type \in {"FADD", "FSUB", "FMUL"} -> {LegacyFloat(type, x, y)}
       [] type = "FMADD"     -> {LegacyFmadd(Value(w, f.sacc), x, y)}
       [] type \in {"FABS", "FRCP", "FRSQ", "I2F", "F2I"} -> {LegacyUnary(type, x)}
       [] type \in IsBranch  -> {LegacyNewPc(type, x, y, w)}
       [] type \in Atomics   -> {<<access, LegacyGlobal(type, w.old, access)>>}
       [] OTHER              -> {access}
FunctionalOutcome(w) ==
  LET type == w.type
      packet == doMem(type, w.t, w.s, w.d, w)
  IN CASE type \in IsALU     -> execALU(type, w.t, w.s, w)
       [] type \in IsShift   -> execShift(type, w.t, w.s, w)
       [] type \in IsCompare -> execCompare(type, w.t, w.s)
       [] type \in IsFPU     -> execFPU(type, w.t, w.s, w.d)
       [] type \in IsBranch  -> IF execBranchPredicate(type, w.t, w.d)
                                THEN execBranchTarget(type, w.t, w) ELSE Word(w.pc + 4)
       [] type \in Atomics   -> <<packet, execGlobalAtomic(type, w.old, packet)>>
       [] OTHER              -> packet

\* the functional core has no vectors: its scalar operation is what each lane
\* of a vector operation should compute
ScalarOf == [VADD |-> "ADD", VSUB |-> "SUB", VADDI |-> "ADDI", VSUBI |-> "SUBI",
             VFADD |-> "FADD", VFSUB |-> "FSUB", VFMUL |-> "FMUL"]
VectorOutcome(w) ==
  LET ts == Lanes(w.t) ss == Lanes(w.s) IN
  IF w.type \in VectorSources THEN LegacyVector(w.type, ss, ts, w)
  ELSE LegacyVector(w.type, ts, ss, w)
LaneByLane(w) ==
  LET ts == Lanes(w.t)
      ss == Lanes(w.s)
      swapped == w.type \in {"VSUB", "VFSUB"}
  IN [k \in 1 .. 4 |->
        FunctionalOutcome([w EXCEPT !.type = ScalarOf[w.type],
                                    !.t = IF swapped THEN ss[k] ELSE ts[k],
                                    !.s = IF swapped THEN ts[k] ELSE ss[k]])]

Decode ==
  /\ word = Idle
  /\ \E type \in ExecutedByBoth \cup VectorArith : word' = [type |-> type]
  /\ UNCHANGED <<legacy, functional>>
Tried(type) ==
  {[type |-> type, t |-> t, s |-> s, d |-> Word(t + s), imm |-> imm, pc |-> pc,
    old |-> Word(pc + imm)] : t, s \in Corners, imm \in Immediates, pc \in Pcs}
Run ==
  /\ word.type \in ExecutedByBoth /\ legacy = {}
  /\ word' \in Tried(word.type)
  /\ legacy' = LegacyOutcomes(word')
  /\ functional' = {FunctionalOutcome(word')}
RunVector ==
  /\ word.type \in VectorArith /\ legacy = {}
  /\ word' \in Tried(word.type)
  /\ legacy' = {VectorOutcome(word')}
  /\ functional' = {LaneByLane(word')}
Retire ==
  /\ legacy # {}
  /\ word' = Idle /\ legacy' = {} /\ functional' = {}

Init == word = Idle /\ legacy = {} /\ functional = {}
Next == Decode \/ Run \/ RunVector \/ Retire
Spec == Init /\ [][Next]_vars

\* what the cores are known to compute differently
Excepted(w) ==
  \/ w.type = "CLZ" /\ w.t = 0
  \/ w.type = "SRA" /\ Signed(w.t) < 0 /\ w.s % Width = 0
  \/ w.type = "SRAI" /\ Signed(w.t) < 0 /\ Imm5(w) = 0
  \/ w.type = "ATOMADDU"

(***************************************************************************)
(* Property.  For every instruction both cores execute, over operands at   *)
(* the edges of the word: the legacy core, with its shifts and masks of    *)
(* unsigned words and its own order of source registers, computes the      *)
(* result, the next program counter, the access and the effect of a global *)
(* operation that the functional core computes from the fields t, s and d, *)
(* and a vector operation computes the scalar one in each of its lanes     *)
(* (VSUB and VFSUB with the operands the other way round).  Left out: CLZ  *)
(* of 0 (32 and 33), an arithmetic shift of a negative word by 0, which is *)
(* undefined in the legacy core, and ATOMADDU, to whose address the        *)
(* functional core adds an immediate it does not have.                     *)
(***************************************************************************)
CoresComputeAlike ==
  legacy # {} => legacy = functional \/ Excepted(word)
=============================================================================
