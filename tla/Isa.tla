-------------------------------- MODULE Isa ---------------------------------
(***************************************************************************)
(* The instruction tables of the two decoders of the simulator: what each  *)
(* opcode is, which registers it reads and writes, which unit executes it  *)
(* and for how long.  The legacy core decodes with decode_switch.h and     *)
(* takes its operands from the scoreboard_*.h files; the functional core   *)
(* decodes with simdecoder_new.cpp and static_decode_info.                 *)
(*                                                                         *)
(* A word is [op, t, s, d, a, target]: the operation code (optype and      *)
(* opcode), the numbers in its register fields, the accumulator field and  *)
(* where it branches to.  Immediates are left out.  A general register is  *)
(* its number; the special and accumulator registers have numbers of their *)
(* own, Sp(n) and Ac(n).                                                   *)
(***************************************************************************)
EXTENDS Integers, Sequences, Functions, TLC

NullReg == 32
LinkReg == 31
TqRet == 24
TqRegs == <<25, 26, 27, 28>>
Sp(n) == 100 + n
Ac(n) == 200 + n
File(r) == IF r < 100 THEN "gp" ELSE IF r < 200 THEN "sp" ELSE "ac"
Vector(r) == <<4 * r, 4 * r + 1, 4 * r + 2, 4 * r + 3>>

(***************************************************************************)
(* The legacy decoder: type and operand format of every opcode, in the     *)
(* order of the switch.                                                    *)
(***************************************************************************)
Ops(fmt, types) == [k \in 1 .. Len(types) |-> [type |-> types[k], fmt |-> fmt]]

Opcodes00 == Ops("tsd", <<"ADD", "SUB", "ADDU", "SUBU", "ADDC", "ADDG", "ADDCU",
                          "ADDGU", "AND", "OR", "XOR", "NOR", "SLL", "SRL", "SRA">>)
Opcodes0F == Ops("td", <<"SLLI", "SRLI", "SRAI">>)
             \o Ops("tsd", <<"CEQ", "CLT", "CLE", "CLTU", "CLEU", "CEQF", "CLTF",
                             "CLTEF", "CMEQ", "CMNE">>)
             \o Ops("td", <<"MFSR", "MTSR">>)
Opcodes1E == Ops("t", <<"JMPR", "JALR">>) \o Ops("td", <<"LDL">>)
             \o Ops("tsd", <<"STC", "ATOMCAS", "ATOMADDU", "ATOMXOR", "ATOMOR",
                             "ATOMAND", "ATOMMAX", "ATOMMIN">>)
             \o Ops("td", <<"TBLOFFSET">>) \o Ops("none", <<"NOP", "BRK", "HLT">>)
Opcodes2D == Ops("none", <<"SYNC", "UNDEF", "CC_WB", "CC_INV", "CC_FLUSH", "IC_INV",
                           "MB", "RFE", "ABORT">>)
             \o Ops("d", <<"SYSCALL", "PRINTREG", "START_TIMER", "STOP_TIMER">>)
             \o Ops("t", <<"FLUSH_BCAST", "LINE_WB">>)
Opcodes3C == Ops("t", <<"LINE_INV", "LINE_FLUSH">>)
             \o Ops("none", <<"TQ_ENQUEUE", "TQ_DEQUEUE", "TQ_LOOP", "TQ_INIT", "TQ_END">>)
             \o Ops("tsd", <<"FADD", "FSUB", "FMUL">>)
             \o Ops("td", <<"FRCP", "FRSQ", "FABS", "FMRS", "FMOV">>)
Opcodes4B == Ops("r2a", <<"FR2A">>) \o Ops("td", <<"F2I", "I2F">>)
             \o Ops("tsd", <<"MUL", "MUL32", "MUL16", "MUL16C", "MUL16G">>)
             \o Ops("td", <<"CLZ", "ZEXTB", "SEXTB", "ZEXTS", "SEXTS">>)
             \o Ops("tsd", <<"VADD">>)
Opcodes59 == Ops("tsd", <<"VSUB", "VFADD", "VFSUB", "VFMUL">>) \o Ops("td", <<"SLEEP">>)

Optypes1To3 == <<Ops("td", <<"ADDI", "SUBI", "ADDIU", "SUBIU">>),
                 Ops("td", <<"ANDI", "ORI", "XORI">>) \o Ops("dt", <<"BEQ">>),
                 Ops("dd", <<"MVUI">>) \o Ops("none", <<"JAL">>)
                   \o Ops("d", <<"PREF_L", "PREF_NGA">>)>>
Optypes4To6 == <<Ops("dt", <<"BNE", "PREF_B_GC", "PREF_B_CC">>) \o Ops("td", <<"PAUSE_LDW">>),
                 Ops("t", <<"BE", "BN", "BLT", "BGT">>),
                 Ops("t", <<"BLE", "BGE">>) \o Ops("none", <<"JMP">>)>>
Optypes7To9 == <<Ops("none", <<"LJ", "LJL">>),
                 Ops("d", <<"BCAST_INV">>) \o Ops("dd", <<"STRTOF", "EVENT", "PRIO">>),
                 Ops("dt", <<"BCAST_UPDATE">>) \o Ops("td", <<"LDW">>)
                   \o Ops("dt", <<"STW">>) \o Ops("td", <<"GLDW">>)>>
OptypesAToC == <<Ops("dt", <<"GSTW">>) \o Ops("dtd", <<"ATOMDEC", "ATOMINC", "ATOMXCHG">>),
                 Ops("acc", <<"FMADD", "FMSUB">>) \o Ops("a2r", <<"FA2R">>),
                 Ops("td", <<"VADDI", "VSUBI", "VLDW">>) \o Ops("dt", <<"VSTW">>)>>

Optype0 == Opcodes00 \o Opcodes0F \o Opcodes1E \o Opcodes2D \o Opcodes3C \o Opcodes4B
           \o Opcodes59
OpcodeTable == <<Optype0>> \o Optypes1To3 \o Optypes4To6 \o Optypes7To9 \o OptypesAToC

Opcodes == UNION {{<<o - 1, c - 1>> : c \in 1 .. Len(OpcodeTable[o])}
                  : o \in 1 .. Len(OpcodeTable)}
DecodeSwitch == [op \in Opcodes |-> OpcodeTable[op[1] + 1][op[2] + 1]]

\* the register fields that set_regs records for a word of each format
NoFields == [sreg0 |-> NullReg, sreg1 |-> NullReg, dreg |-> NullReg,
             sacc |-> NullReg, dacc |-> NullReg]
SetRegs(fmt, w) ==
  CASE fmt = "tsd"  -> [NoFields EXCEPT !.sreg0 = w.t, !.sreg1 = w.s, !.dreg = w.d]
    [] fmt = "td"   -> [NoFields EXCEPT !.sreg0 = w.t, !.dreg = w.d]
    [] fmt = "t"    -> [NoFields EXCEPT !.sreg0 = w.t]
    [] fmt = "d"    -> [NoFields EXCEPT !.sreg0 = w.d]
    [] fmt = "dd"   -> [NoFields EXCEPT !.sreg0 = w.d, !.dreg = w.d]
    [] fmt = "dt"   -> [NoFields EXCEPT !.sreg0 = w.d, !.sreg1 = w.t]
    [] fmt = "dtd"  -> [NoFields EXCEPT !.sreg0 = w.d, !.sreg1 = w.t, !.dreg = w.d]
    [] fmt = "acc"  -> [NoFields EXCEPT !.sreg0 = w.t, !.sreg1 = w.s, !.sacc = w.a,
                                        !.dacc = w.d]
    [] fmt = "r2a"  -> [NoFields EXCEPT !.sreg0 = w.t, !.dacc = w.d]
    [] fmt = "a2r"  -> [NoFields EXCEPT !.sacc = w.a, !.dreg = w.d]
    [] fmt = "none" -> NoFields

(***************************************************************************)
(* The functional decoder: the type of every opcode, and which of the      *)
(* three register fields each type has.                                    *)
(***************************************************************************)
FunctionalType0A ==
  <<"ADD", "SUB", "ADDU", "SUBU", "ADDC", "ADDG", "ADDCU", "ADDGU", "AND", "OR", "XOR",
    "NOR", "SLL", "SRL", "SRA", "SLLI", "SRLI", "SRAI", "CEQ", "CLT", "CLE", "CLTU",
    "CLEU", "CEQF", "CLTF", "CLTEF", "CMEQ", "CMNE", "MFSR", "MTSR", "JMPR", "JALR",
    "LDL", "STC", "ATOMCAS", "ATOMADDU", "ATOMXOR", "ATOMOR", "ATOMAND", "ATOMMAX",
    "ATOMMIN", "TBLOFFSET", "NOP", "BRK", "HLT", "SYNC", "UNDEF">>
FunctionalType0B ==
  <<"CC_WB", "CC_INV", "CC_FLUSH", "IC_INV", "MB", "RFE", "ABORT", "SYSCALL", "PRINTREG",
    "START_TIMER", "STOP_TIMER", "FLUSH_BCAST", "LINE_WB", "LINE_INV", "LINE_FLUSH",
    "TQ_ENQUEUE", "TQ_DEQUEUE", "TQ_LOOP", "TQ_INIT", "TQ_END", "FADD", "FSUB", "FMUL",
    "FRCP", "FRSQ", "FABS", "FMRS", "FMOV", "FR2A", "F2I", "I2F", "MUL", "MUL32", "MUL16",
    "MUL16C", "MUL16G", "CLZ", "ZEXTB", "SEXTB", "ZEXTS", "SEXTS", "VADD", "VSUB",
    "VFADD", "VFSUB", "VFMUL">>
FunctionalTypes1To6 ==
  <<<<"ADDI", "SUBI", "ADDIU", "SUBIU">>, <<"ANDI", "ORI", "XORI", "BEQ">>,
    <<"MVUI", "JAL", "PREF_L", "PREF_NGA">>, <<"BNE", "PREF_B_GC", "PREF_B_CC", "PAUSE_LDW">>,
    <<"BE", "BN", "BLT", "BGT">>, <<"BLE", "BGE", "JMP">>>>
FunctionalTypes7ToC ==
  <<<<"LJ", "LJL">>, <<"BCAST_INV", "STRTOF", "EVENT", "PRIO">>,
    <<"BCAST_UPDATE", "LDW", "STW", "GLDW">>, <<"GSTW", "ATOMDEC", "ATOMINC", "ATOMXCHG">>,
    <<"FMADD", "FMSUB", "FA2R">>, <<"VADDI", "VSUBI", "VLDW", "VSTW">>>>
FunctionalTable == <<FunctionalType0A \o FunctionalType0B>>
                   \o FunctionalTypes1To6 \o FunctionalTypes7ToC
FunctionalDecodes(op) == op[2] < Len(FunctionalTable[op[1] + 1])
FunctionalType(op) == FunctionalTable[op[1] + 1][op[2] + 1]

Has(fields, types) == [type \in types |-> fields]
Static1 == Has({"d", "t", "s"}, {"ADD", "SUB", "ADDU", "SUBU", "ADDC", "ADDG", "ADDCU",
                                 "ADDGU", "AND", "OR", "XOR", "NOR"})
           @@ Has({"d", "t"}, {"ADDI", "SUBI", "ADDIU", "SUBIU"})
Static2 == Has({"d", "t"}, {"ANDI", "ORI", "XORI", "SLLI", "SRLI", "SRAI"})
           @@ Has({"d", "t", "s"}, {"SLL", "SRL", "SRA", "CEQ", "CLT", "CLE", "CLTU",
                                    "CLEU", "CEQF", "CLTF"})
Static3 == Has({"d", "t", "s"}, {"CLTEF", "CMEQ", "CMNE"})
           @@ Has({"d", "t"}, {"MFSR", "MTSR", "BEQ", "BNE"}) @@ Has({"d"}, {"MVUI"})
           @@ Has({"t"}, {"BE", "BN", "BLT", "BGT", "BLE", "BGE"}) @@ Has({}, {"LJ", "LJL"})
Static4 == Has({"t"}, {"JMP", "JMPR"})
           @@ Has({"d"}, {"JAL", "PREF_L", "PREF_NGA", "BCAST_INV"})
           @@ Has({"d", "t"}, {"JALR", "LDL", "PREF_B_GC", "PREF_B_CC", "PAUSE_LDW",
                               "BCAST_UPDATE", "LDW", "STW", "GLDW"})
           @@ Has({"d", "t", "s"}, {"STC"})
Static5 == Has({"d", "t"}, {"GSTW", "ATOMDEC", "ATOMINC", "ATOMXCHG", "TBLOFFSET"})
           @@ Has({"d", "t", "s"}, {"ATOMCAS", "ATOMADDU", "ATOMXOR", "ATOMOR", "ATOMAND",
                                    "ATOMMAX", "ATOMMIN"})
           @@ Has({}, {"NOP", "BRK", "HLT", "SYNC"})
Static6 == Has({}, {"UNDEF", "CC_WB", "CC_INV", "CC_FLUSH", "IC_INV", "MB", "RFE", "ABORT"})
           @@ Has({"d"}, {"SYSCALL", "PRINTREG", "START_TIMER", "STOP_TIMER", "STRTOF"})
           @@ Has({"t"}, {"FLUSH_BCAST", "LINE_WB", "LINE_INV"})
Static7 == Has({"t"}, {"LINE_FLUSH"})
           @@ Has({}, {"TQ_ENQUEUE", "TQ_DEQUEUE", "TQ_LOOP", "TQ_INIT", "TQ_END"})
           @@ Has({"d", "t", "s"}, {"FADD", "FSUB", "FMUL", "FMADD", "FMSUB"})
           @@ Has({"d", "t"}, {"FRCP", "FRSQ", "FABS", "FMRS", "FMOV"})
Static8 == Has({"d", "t", "s"}, {"FA2R", "MUL", "MUL32", "MUL16", "MUL16C", "MUL16G",
                                 "VADD", "VSUB"})
           @@ Has({"d", "t"}, {"FR2A", "F2I", "I2F", "CLZ", "ZEXTB", "SEXTB", "ZEXTS", "SEXTS"})
Static9 == Has({"d", "t"}, {"VADDI", "VSUBI", "VLDW", "VSTW"})
           @@ Has({"d", "t", "s"}, {"VFADD", "VFSUB", "VFMUL"}) @@ Has({"d"}, {"EVENT", "PRIO"})
StaticDecode == Static1 @@ Static2 @@ Static3 @@ Static4 @@ Static5 @@ Static6 @@ Static7
                @@ Static8 @@ Static9

\* the classes static_decode_info sorts the types into
IsCacheControl == {"LINE_WB", "LINE_INV", "LINE_FLUSH"}
IsGlobal == {"GLDW", "GSTW", "BCAST_UPDATE", "ATOMINC", "ATOMDEC", "ATOMCAS", "ATOMXCHG",
             "ATOMADDU", "ATOMMAX", "ATOMMIN", "ATOMOR", "ATOMAND", "ATOMXOR"}
IsMem == IsGlobal \cup IsCacheControl
         \cup {"LDW", "STW", "STC", "LDL", "VSTW", "VLDW", "PREF_NGA", "PREF_L"}
IsStoreLinkRegister == {"JAL", "JALR", "LJL"}
IsBranchDirect == {"BEQ", "BNE", "BE", "BN", "BLT", "BGT", "BLE", "BGE", "JAL", "JMP",
                   "LJ", "LJL"}
IsBranch == IsBranchDirect \cup {"JALR", "JMPR"}
IsCompare == {"CEQ", "CLT", "CLE", "CLEU", "CLTU"}
IsALU == {"ADD", "SUB", "ADDI", "ADDIU", "SUBI", "SUBIU", "MUL", "OR", "ORI", "AND",
          "ANDI", "XOR", "XORI", "NOR", "SEXTB", "ZEXTB", "SEXTS", "ZEXTS", "CLZ", "MVUI",
          "MFSR", "MTSR"}
IsFPU == {"FADD", "FSUB", "FMUL", "FABS", "FRCP", "FRSQ", "I2F", "F2I", "CEQF", "CLTF",
          "CLTEF", "FMADD", "FMSUB"}
IsShift == {"SLL", "SLLI", "SRL", "SRLI", "SRA", "SRAI"}
IsSimSpecial == {"PRINTREG", "SYSCALL", "EVENT", "NOP", "ABORT", "HLT"}
IsSPRFSrc == {"MFSR"}
IsSPRFDest == {"MTSR"}
IsDREGSrc == {"BEQ", "BNE", "STW", "GSTW", "BCAST_UPDATE", "ATOMXCHG", "ATOMCAS", "FMADD",
              "PRINTREG", "SYSCALL", "START_TIMER", "STOP_TIMER"}
IsDREGNotDest(type) ==
  IF "d" \in StaticDecode[type]
  THEN type \in {"STW", "GSTW", "BEQ", "BNE", "PREF_L", "PREF_B_GC", "PREF_B_CC",
                 "PREF_NGA", "BCAST_UPDATE", "SYSCALL", "PRINTREG", "EVENT"}
  ELSE type \notin IsStoreLinkRegister

\* what the functional core executes, reads (setRegs, regfile_read) and writes
FunctionalTypes == IsALU \cup IsShift \cup IsFPU \cup IsMem \cup IsCompare \cup IsBranch
                   \cup IsSimSpecial
FunctionalReads(type, w) ==
  LET gp == {w.t : f \in StaticDecode[type] \cap {"t"}}
            \cup {w.s : f \in StaticDecode[type] \cap {"s"}}
            \cup {w.d : f \in {x \in {"d"} : x \in StaticDecode[type] /\ type \in IsDREGSrc}}
  IN IF type \in IsSPRFSrc THEN {Sp(r) : r \in gp} ELSE gp
FunctionalWrites(type, w) ==
  LET d == IF "d" \in StaticDecode[type] THEN w.d ELSE LinkReg
  IN IF IsDREGNotDest(type) THEN {} ELSE IF type \in IsSPRFDest THEN {Sp(d)} ELSE {d}

(***************************************************************************)
(* The scoreboard tables of the legacy core, over the recorded fields f.   *)
(***************************************************************************)
VectorSources == {"VADD", "VSUB", "VFADD", "VFSUB", "VFMUL"}
VectorImmediate == {"VADDI", "VSUBI"}
VectorArith == VectorSources \cup VectorImmediate
VectorTypes == VectorSources \cup VectorImmediate \cup {"VLDW", "VSTW"}
QueueTypes == {"TQ_ENQUEUE", "TQ_DEQUEUE", "TQ_LOOP", "TQ_INIT", "TQ_END"}
Broken == {"CMNE_NOP", "CMEQ_NOP", "DONE"}

\* the registers an instruction waits for and reads
VectorReads(type, f) ==
  CASE type \in VectorSources   -> Vector(f.sreg1) \o Vector(f.sreg0)
    [] type \in VectorImmediate -> Vector(f.sreg0)
VectorMemReads(type, f) ==
  IF type = "VLDW" THEN <<f.sreg0>> ELSE Vector(f.sreg0) \o <<f.sreg1>>
QueueReads(type) ==
  CASE type \in {"TQ_ENQUEUE", "TQ_LOOP"}  -> TqRegs
    [] type = "TQ_INIT"                    -> <<TqRegs[1], TqRegs[2]>>
    [] type \in {"TQ_DEQUEUE", "TQ_END"}   -> <<>>
FirstThenSecond == {"ADD", "SUB", "ADDU", "SUBU", "ADDC", "ADDG", "ADDCU", "ADDGU", "AND", "OR",
                    "XOR", "NOR", "SLL", "SRL", "SRA", "CEQ", "CLT", "CLE", "CLTU", "CLEU",
                    "CEQF", "CLTF", "CLTEF", "CMEQ", "CMNE", "STC", "ATOMXOR", "ATOMOR",
                    "ATOMAND", "ATOMMAX", "ATOMMIN", "FADD", "FSUB", "FMUL", "MUL", "MUL32",
                    "MUL16", "MUL16C", "MUL16G"}
OneSource == {"LDL", "TBLOFFSET", "FRCP", "FRSQ", "FABS", "FMRS", "FMOV", "F2I", "I2F", "CLZ",
              "ZEXTB", "SEXTB", "ZEXTS", "SEXTS", "ADDIU", "SUBIU", "ANDI", "ORI", "XORI",
              "ADDI", "SUBI", "PAUSE_LDW", "LDW", "GLDW", "SLLI", "SRLI", "SRAI", "SLEEP",
              "FR2A"}
ReadsItsDest == {"MVUI", "STRTOF", "EVENT", "PRIO"}
SecondAndFirst == {"ATOMDEC", "ATOMINC", "ATOMXCHG", "BEQ", "BNE", "PREF_B_GC", "PREF_B_CC",
                   "BCAST_UPDATE", "STW", "GSTW"}
OnlyFirst == {"JMPR", "JALR", "FLUSH_BCAST", "LINE_WB", "LINE_INV", "LINE_FLUSH", "PREF_L",
              "PREF_NGA", "BCAST_INV", "SYSCALL", "PRINTREG", "START_TIMER", "STOP_TIMER",
              "BE", "BN", "BLT", "BGT", "BLE", "BGE", "MTSR"}
ThreeSources == {"ATOMCAS", "ATOMADDU"}
LegacyReads(type, f) ==
  CASE type \in FirstThenSecond \/ type \in SecondAndFirst -> <<f.sreg1, f.sreg0>>
    [] type \in OneSource \/ type \in OnlyFirst -> <<f.sreg0>>
    [] type \in ReadsItsDest                        -> <<f.dreg>>
    [] type \in ThreeSources                        -> <<f.sreg0, f.sreg1, f.dreg>>
    [] type \in {"FMADD", "FMSUB"}                  -> <<f.sreg1, f.sreg0, f.sacc>>
    [] type = "FA2R"                                -> <<Ac(f.sacc)>>
    [] type = "MFSR"                                -> <<Sp(f.sreg0)>>
    [] type \in VectorArith -> VectorReads(type, f)
    [] type \in {"VLDW", "VSTW"}                    -> VectorMemReads(type, f)
    [] type \in QueueTypes                          -> QueueReads(type)
    [] OTHER                                        -> <<>>
ReadPorts(type, f) ==
  IF type \in VectorTypes \cup {"MFSR"} THEN 0 ELSE Len(LegacyReads(type, f))

\* the registers an instruction takes on the scoreboard, and those it locks
VectorDest == VectorSources \cup VectorImmediate \cup {"VLDW"}
NoDest == {"NOP", "BRK", "HLT", "SYNC", "UNDEF", "CC_WB", "CC_INV", "CC_FLUSH", "IC_INV",
           "MB", "RFE", "ABORT", "JMPR", "FLUSH_BCAST", "LINE_WB", "LINE_INV", "LINE_FLUSH",
           "PREF_L", "PREF_NGA", "PREF_B_GC", "PREF_B_CC", "BCAST_INV", "BCAST_UPDATE",
           "SYSCALL", "PRINTREG", "START_TIMER", "STOP_TIMER", "LJ", "JMP", "BEQ", "BNE",
           "STW", "GSTW", "BE", "BN", "BLT", "BGT", "BLE", "BGE", "VSTW"}
QueueDests(type) ==
  {TqRet} \cup IF type = "TQ_DEQUEUE" THEN {TqRegs[k] : k \in 1 .. 4} ELSE {}
OtherDests(type, f) ==
  CASE type = "FR2A"               -> {Ac(f.dacc)}
    [] type \in {"FMADD", "FMSUB"} -> {f.dacc}
    [] type = "MTSR"               -> {Sp(f.dreg)}
    [] type \in IsStoreLinkRegister -> {LinkReg}
    [] OTHER                       -> {f.dreg}
VectorDests(f) == {4 * f.dreg + k : k \in 0 .. 3}
LegacyWrites(type, f) ==
  CASE type \in NoDest \cup Broken -> {}
    [] type \in VectorDest         -> VectorDests(f)
    [] type \in QueueTypes         -> QueueDests(type)
    [] OTHER                       -> OtherDests(type, f)
LockTypes == {"ATOMXOR", "ATOMOR", "ATOMAND", "ATOMMAX", "ATOMMIN", "LDL", "LDW", "GLDW",
              "ATOMDEC", "ATOMINC", "ATOMXCHG", "STC", "ATOMCAS", "ATOMADDU", "VLDW"}
             \cup QueueTypes
LegacyLocks(type, f) == IF type \in LockTypes THEN LegacyWrites(type, f) ELSE {}

\* the registers that must not be locked when an instruction issues
WaitsUnlocked(type, f) ==
  IF type = "FR2A" THEN {f.dacc} ELSE LegacyWrites(type, f)

\* what an instruction reads and writes by the decoder of the core that runs
\* it; the types the functional core has no code for take the legacy tables.
\* JMP has a register field that it does not use
Scalar == FunctionalTypes \ {"VLDW", "VSTW"}
Operands(type, w) ==
  IF type = "JMP" THEN {}
  ELSE IF type \in Scalar THEN FunctionalReads(type, w)
  ELSE Range(LegacyReads(type, SetRegs(DecodeSwitch[w.op].fmt, w)))
Results(type, w) ==
  (IF type \in Scalar THEN FunctionalWrites(type, w)
   ELSE LegacyWrites(type, SetRegs(DecodeSwitch[w.op].fmt, w))) \ {0}

(***************************************************************************)
(* Latency and unit of every type.                                         *)
(***************************************************************************)
Units == {"NONE", "ALU", "ALU_VECTOR", "FPU", "FPU_VECTOR", "SHIFT", "MEM", "BRANCH", "BOTH"}
TwoCycles == {"BEQ", "BNE", "MUL", "MUL32", "MUL16", "MUL16C", "MUL16G", "CLZ"}
ThreeCycles == {"CEQF", "CLTF", "CLTEF", "FADD", "FSUB", "FMUL", "FMADD", "FMSUB", "FA2R",
                "FR2A", "I2F"}
Latency(type) ==
  CASE type \in TwoCycles        -> 2
    [] type \in ThreeCycles      -> 3
    [] type \in VectorArith      -> 4
    [] type \in {"FRCP", "FRSQ"} -> 10
    [] OTHER                     -> 1
MemUnit == IsMem \cup {"PREF_B_GC", "PREF_B_CC", "PAUSE_LDW", "BCAST_INV", "TBLOFFSET",
                       "FLUSH_BCAST"}
BothUnits == {"NOP", "BRK", "HLT", "SYNC", "UNDEF", "CC_WB", "CC_INV", "CC_FLUSH", "IC_INV",
              "MB", "RFE", "ABORT", "SYSCALL", "PRINTREG", "START_TIMER", "STOP_TIMER",
              "STRTOF", "SLEEP"} \cup QueueTypes
Unit(type) ==
  CASE type \in IsShift                            -> "SHIFT"
    [] type \in IsFPU \cup {"FMOV", "FA2R", "FR2A"} -> "FPU"
    [] type \in IsBranch                           -> "BRANCH"
    [] type \in MemUnit                            -> "MEM"
    [] type \in BothUnits                          -> "BOTH"
    [] type \in {"VADD", "VSUB", "VADDI", "VSUBI"} -> "ALU_VECTOR"
    [] type \in {"VFADD", "VFSUB", "VFMUL"}        -> "FPU_VECTOR"
    [] type \in Broken \cup {"NULL"}               -> "NONE"
    [] OTHER                                       -> "ALU"

(***************************************************************************)
(* A program is a function from 0 .. n to words.  It ends in an aligned    *)
(* pair of words that follow each other for ever.  What an instruction     *)
(* writes is the pair of its address and of the parity of the backward     *)
(* branches taken so far.                                                  *)
(***************************************************************************)
Conditional == {"BE", "BN", "BEQ", "BNE", "BLT", "BGT", "BLE", "BGE"}

Top(p) == CHOOSE n \in DOMAIN p : n + 1 \notin DOMAIN p
Follows(p, a) == IF a = Top(p) THEN a - 1 ELSE a + 1
Targets(p, a, type) ==
  CASE type \in Conditional            -> {p[a].target, Follows(p, a)}
    [] type \in IsBranch \ Conditional -> {p[a].target}
    [] OTHER                           -> {Follows(p, a)}

Written(parity, a) == <<a, parity>>
Boot(r) == <<-1, r>>
=============================================================================
