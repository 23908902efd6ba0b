----------------------------- MODULE MCPipeline -----------------------------
(***************************************************************************)
(* Instances of Pipeline.  A program loads a register, computes with it,   *)
(* executes one instruction that uses both results and reads what that one *)
(* has written; further programs are the loops and branches.               *)
(***************************************************************************)
EXTENDS Pipeline

OpOf(type) == CHOOSE op \in Opcodes : DecodeSwitch[op].type = type
Do(type, t, s, d, target) ==
  [op |-> OpOf(type), t |-> t, s |-> s, d |-> d, a |-> 1, target |-> target]
Halt == <<Do("HLT", 0, 0, 0, 0), Do("NOP", 0, 0, 0, 0), Do("NOP", 0, 0, 0, 0)>>
\* a program of words, padded so that its last two are a line
Program(words) ==
  LET all == words \o Halt \o (IF Len(words) % 2 = 0 THEN <<Do("NOP", 0, 0, 0, 0)>> ELSE <<>>)
  IN [a \in 0 .. Len(all) - 1 |-> all[a + 1]]

Load(d, t) == Do("LDW", t, 0, d, 0)
Add(d, t, s) == Do("ADD", t, s, d, 0)

\* Left out of the programs: types that the legacy core has no code for, those
\* whose behaviour the properties do not hold for (CMEQ, CMNE, EVENT, PRIO and
\* FMSUB), and SYNC and HLT, which have their places below.
Unimplemented == {"ADDC", "ADDG", "ADDCU", "ADDGU", "STRTOF", "FMOV", "MUL32", "MUL16",
                  "MUL16C", "MUL16G", "SLEEP", "PAUSE_LDW", "CC_WB", "CC_FLUSH",
                  "FLUSH_BCAST", "RFE", "ABORT", "BRK", "UNDEF"}
Departing == {"CMEQ", "CMNE", "EVENT", "PRIO", "FMSUB", "SYNC", "HLT"}
Types == {DecodeSwitch[op].type : op \in Opcodes}
Sound == Types \ (Unimplemented \cup Departing)

\* one type of each kind that the two decoders and the stages tell apart
Groups == <<Loads, Stores, Broadcasts, Prefetches, Barriers, LineWrites, Globals, AtOnce,
            QueueTypes, VectorTypes, Conditional, IsBranch, Clears, {"MFSR", "FR2A", "FA2R"}>>
Kind(x) ==
  LET w == Do(x, 2, 3, 1, 4)
      f == SetRegs(DecodeSwitch[w.op].fmt, w)
  IN <<f, LegacyReads(x, f), LegacyWrites(x, f), LegacyLocks(x, f), Latency(x), Unit(x),
       Operands(x, w), Results(x, w), {n \in DOMAIN Groups : x \in Groups[n]}>>
Representatives ==
  LET kind == [x \in Sound |-> Kind(x)]
  IN {CHOOSE x \in Sound : kind[x] = k : k \in Range(kind)}

Sandwich(x) ==
  CASE x \in VectorTypes ->
         Program(<<Load(9, 3), Add(5, 9, 3), Do(x, 2, 3, 1, 4), Add(3, 5, 6)>>)
    [] x \in QueueTypes ->
         Program(<<Load(25, 3), Add(26, 25, 3), Do(x, 2, 3, 1, 4), Add(3, 24, 25)>>)
    [] x \in IsStoreLinkRegister ->
         Program(<<Load(2, 3), Add(31, 2, 3), Do(x, 2, 3, 31, 3), Add(3, 31, 2)>>)
    [] x = "MFSR" ->
         Program(<<Load(2, 3), Do("MTSR", 2, 0, 2, 0), Do(x, 2, 3, 1, 4), Add(3, 1, 2)>>)
    [] x \in {"FR2A", "FA2R"} ->
         Program(<<Load(2, 3), Do("FR2A", 2, 0, 1, 0), Do("FA2R", 2, 3, 1, 4), Add(3, 1, 2)>>)
    [] OTHER ->
         Program(<<Load(2, 3), Add(1, 2, 3), Do(x, 2, 3, 1, 4), Add(3, 1, 2)>>)
\* write-back clears the entries of these (Clears): a register they write is
\* written again, at once or late, and read
Again(x, second) ==
  LET w == Do(x, 2, 3, 1, 4)
      r == CHOOSE r \in Results(x, w) : TRUE
  IN Program(<<w, Do(second, 3, 3, r, 0), Add(3, r, r)>>)
Rewrites == {Again(x, second) : x \in Representatives \cap Clears, second \in {"LDW", "ADD"}}
\* the two cores link in different registers
Linked == {Program(<<Do(x, 2, 3, 1, 1), Add(3, 31, 2)>>) : x \in {"JAL", "JALR"}}
\* what comes after a SYNC is lost, at most what the speculative list holds
Nops == [k \in 1 .. RingLength |-> Do("NOP", 0, 0, 0, 0)]
Synced == Program(<<Load(2, 3), Add(1, 2, 3), Do("SYNC", 0, 0, 0, 0)>> \o Nops)

\* every program of three of these words
Menu == {Load(1, 2), Add(2, 1, 1)}
Branch(target) == Do("BNE", 1, 0, 2, target)
Triples == {Program(<<x, y, z>>) : x \in Menu, y \in Menu \cup {Branch(3)},
                                   z \in Menu \cup {Branch(0), Branch(1)}}

MCPrograms == {Sandwich(x) : x \in Representatives} \cup Rewrites \cup Linked \cup {Synced}
              \cup Triples
MCRegs == 0 .. 31 \cup {Sp(1), Sp(2), Ac(1)}
=============================================================================
