------------------------------ MODULE Pipeline ------------------------------
(***************************************************************************)
(* One thread of the legacy in-order core: two instructions are fetched,   *)
(* decoded and issued per cycle, and pass the memory, FP, cache-access and *)
(* write-back stages in order.  Each stage is an action and `at' says      *)
(* which stage of the cycle runs next, for which of the two pipes.  The    *)
(* last one, UpdateLatches, moves what a stage has put out to the one that *)
(* takes it in, unless a stage behind has stalled.                         *)
(*                                                                         *)
(* The caches and the task queue show as stalls: each access is served at  *)
(* once or later, at most MaxStalls times later in a behaviour.            *)
(***************************************************************************)
EXTENDS Isa, SequencesExt

CONSTANTS Programs, Regs, MaxStalls
ASSUME StallsAreCounted == MaxStalls \in Nat
\* a program stays within its words, the last two of which are a loop
ASSUME ProgramsAreClosed ==
  \A p \in Programs :
    /\ Top(p) \in Nat \ {0} /\ DOMAIN p = 0 .. Top(p)
    /\ \A a \in DOMAIN p : p[a].op \in Opcodes /\ p[a].target \in DOMAIN p
\* NULL, the type of an empty latch, is the type of no opcode
ASSUME NullDecodesFromNothing == \A op \in Opcodes : DecodeSwitch[op].type # "NULL"

VARIABLES
  prog,      \* the program: address -> word
  at,        \* the stage and pipe that run next
  latch,     \* boundary -> pipe -> what the stage behind it takes in
  nlatch,    \* boundary -> pipe -> what the stage before it has put out
  ring,      \* SpecInstr: which slots hold an instruction, and ListHead
  front,     \* IF2IF: NextPC and UnalignedPending
  fixup,     \* EX2IF: FixupNeeded, FixupPC and MispredictPC
  btb,       \* branch target buffer: address -> target and counter
  stalled,   \* stage -> pipe -> its stall flag
  sync,      \* pending_sync_req and pending_sync_ack
  units,     \* funit_available_count
  ports,     \* free read ports of the register file
  board,     \* scoreboard: register -> entry
  clearing,  \* the register files whose scoreboard waits to be clear
  rf,        \* the register files
  loading,   \* pending_load_access
  halted,
  moved,     \* the pipes ExecuteStage::Update has moved on in this cycle
  stalls,    \* how often an access was not served at once
  arch       \* what has issued so far: next address, parity, last, halted
vars == <<prog, at, latch, nlatch, ring, front, fixup, btb, stalled, sync, units, ports,
          board, clearing, rf, loading, halted, moved, stalls, arch>>

Pipes == 0 .. 1
Boundaries == {"IF2DC", "DC2EX", "EX2MC", "MC2FP", "FP2CC", "CC2WB"}
Stages == {"execute", "mem", "ccache"}
RingLength == 6
Files == {"gp", "sp", "ac"}
NullInstr == [type |-> "NULL", pc |-> 0, pred |-> 0, slot |-> 0, vec |-> 0, done |-> {},
              mispredict |-> FALSE, parity |-> 0]
Pair(i, k) == [j \in Pipes |-> IF j = 0 THEN i ELSE k]
Empty == Pair(NullInstr, NullInstr)
IsNull(i) == i.type = "NULL"

Decoded(i) == DecodeSwitch[prog[i.pc].op]
Fields(i) == SetRegs(Decoded(i).fmt, prog[i.pc])
Reads(i) == Range(LegacyReads(Decoded(i).type, Fields(i)))
Dests(i) == LegacyWrites(Decoded(i).type, Fields(i)) \ {0}
Locks(i) == LegacyLocks(Decoded(i).type, Fields(i)) \ {0}
Value(i) == Written(i.parity, i.pc)
Issued(i) == "Exec" \in i.done

IsStalled(s, j) == \E k \in 0 .. j : stalled[s][k]
Then(s, j) == at' = <<s, j>>
Access == stalls' = stalls
Late == stalls < MaxStalls /\ stalls' = stalls + 1

Init ==
  /\ prog \in Programs
  /\ at = <<"fetch", 0>>
  /\ latch = [b \in Boundaries |-> Empty]
  /\ nlatch = [b \in Boundaries |-> Empty]
  /\ ring = [slots |-> [k \in 0 .. RingLength - 1 |-> FALSE], head |-> 0]
  /\ front = [next |-> 0, unaligned |-> FALSE]
  /\ fixup = [needed |-> FALSE, pc |-> 0, branch |-> 0]
  /\ btb = <<>>
  /\ stalled = [s \in Stages |-> [j \in Pipes |-> FALSE]]
  /\ sync = [req |-> FALSE, ack |-> FALSE]
  /\ units = [u \in Units |-> IF u \in {"NONE", "BOTH"} THEN -1 ELSE 1]
  /\ ports = 4
  /\ board = [r \in Regs |-> [ready |-> 0, use |-> 0, bypass |-> 0, locked |-> FALSE,
                              value |-> Boot(-1)]]
  /\ clearing = {}
  /\ rf = [r \in Regs |-> Boot(r)]
  /\ loading = FALSE
  /\ halted = FALSE
  /\ moved = {}
  /\ stalls = 0
  /\ arch = [pc |-> 0, parity |-> 0, halted |-> FALSE,
             last |-> [pc |-> -1, type |-> "NULL", operands |-> <<>>]]
-----------------------------------------------------------------------------
(***************************************************************************)
(* Fetch: two words of a line, or one when the address is not aligned.     *)
(***************************************************************************)
behindFetch == <<latch, stalled, sync, units, ports, board, clearing, rf, loading, halted,
                 moved, arch, prog>>

\* BranchTargetBuffer::set: an entry in use only loses confidence
BtbSet(a, target) ==
  IF a \in DOMAIN btb /\ btb[a].state > 0
  THEN [btb EXCEPT ![a].state = @ - 1]
  ELSE [x \in DOMAIN btb \cup {a} |-> IF x = a THEN [target |-> target, state |-> 1] ELSE btb[x]]
BtbAccess(table, a) ==
  IF table[a].state <= 1 THEN [table EXCEPT ![a].state = @ + 1] ELSE table

Redirected == IF fixup.needed
              THEN [next |-> fixup.pc, unaligned |-> fixup.pc % 2 = 1]
              ELSE front
Corrected == IF fixup.needed THEN BtbSet(fixup.branch, fixup.pc) ELSE btb

PreDecode(a, pred, slot) ==
  [NullInstr EXCEPT !.type = "PRE_DECODE", !.pc = a, !.pred = pred, !.slot = slot]

FetchIdle ==
  /\ at[1] = "fetch"
  /\ nlatch["IF2DC"] # Empty \/ halted
  /\ Then("decode", 0)
  /\ UNCHANGED <<behindFetch, nlatch, ring, front, fixup, btb, stalls>>

FetchStall ==
  /\ at[1] = "fetch"
  /\ nlatch["IF2DC"] = Empty /\ ~halted
  /\ Late
  /\ front' = Redirected
  /\ btb' = Corrected
  /\ fixup' = [fixup EXCEPT !.needed = FALSE]
  /\ Then("decode", 0)
  /\ UNCHANGED <<behindFetch, nlatch, ring>>

FetchLine ==
  LET next   == Redirected.next
      single == Redirected.unaligned
      b      == IF single THEN next ELSE Follows(prog, next)
      Hits(a) == ~single /\ a \in DOMAIN Corrected
      hit    == IF Hits(next) THEN next ELSE b
      taken  == Hits(next) \/ Hits(b)
      target == IF taken THEN Corrected[hit].target ELSE Follows(prog, b)
      first  == ~single
      second == ~Hits(next)
      slotB  == (ring.head + (IF first THEN 1 ELSE 0)) % RingLength
  IN /\ at[1] = "fetch"
     /\ nlatch["IF2DC"] = Empty /\ ~halted
     /\ Access
     /\ fixup' = [fixup EXCEPT !.needed = FALSE]
     /\ front' = [next |-> target, unaligned |-> taken /\ target % 2 = 1]
     /\ btb' = IF taken THEN BtbAccess(Corrected, hit) ELSE Corrected
     /\ nlatch' = [nlatch EXCEPT !["IF2DC"] =
          Pair(IF first
               THEN PreDecode(next, IF Hits(next) THEN target ELSE Follows(prog, next), ring.head)
               ELSE NullInstr,
               IF second THEN PreDecode(b, target, slotB) ELSE NullInstr)]
     /\ ring' = [slots |-> [k \in DOMAIN ring.slots |->
                              \/ ring.slots[k]
                              \/ first /\ k = ring.head
                              \/ second /\ k = slotB],
                 head |-> (slotB + (IF second THEN 1 ELSE 0)) % RingLength]
     /\ Then("decode", 0)
     /\ UNCHANGED behindFetch
-----------------------------------------------------------------------------
(***************************************************************************)
(* A stage that never stalls hands on what it took in, pipe by pipe, until *)
(* the place of one is taken.                                              *)
(***************************************************************************)
Passed(from, to, out) ==
  LET n == IF ~IsNull(nlatch[to][0]) THEN {}
           ELSE IF ~IsNull(nlatch[to][1]) THEN {0} ELSE Pipes
  IN /\ latch' = [latch EXCEPT ![from] =
                    [j \in Pipes |-> IF j \in n THEN NullInstr ELSE @[j]]]
     /\ nlatch' = [nlatch EXCEPT ![to] =
                     [j \in Pipes |-> IF j \in n THEN out[j] ELSE @[j]]]

\* sim_decode; the count of a vector operation starts with its first attempt
SimDecode(i) ==
  IF IsNull(i) THEN i
  ELSE LET t == Decoded(i).type
       IN [i EXCEPT !.type = t, !.vec = IF t \in VectorTypes THEN 4 ELSE 0]

Decode ==
  /\ at[1] = "decode"
  /\ Passed("IF2DC", "DC2EX", [j \in Pipes |-> SimDecode(latch["IF2DC"][j])])
  /\ moved' = {}
  /\ Then("execute", 0)
  /\ UNCHANGED <<prog, ring, front, fixup, btb, stalled, sync, units, ports, board, clearing,
                 rf, loading, halted, stalls, arch>>

FpComplete ==
  /\ at[1] = "fp"
  /\ Passed("MC2FP", "FP2CC", latch["MC2FP"])
  /\ Then("ccache", 0)
  /\ UNCHANGED <<prog, ring, front, fixup, btb, stalled, sync, units, ports, board, clearing,
                 rf, loading, halted, moved, stalls, arch>>
-----------------------------------------------------------------------------
(***************************************************************************)
(* The stages that can stall work on one pipe at a time.  An instruction   *)
(* that is not held up moves on; when its place is taken the stage stops   *)
(* for this cycle.                                                         *)
(***************************************************************************)
After == [execute |-> "release", mem |-> "fp", ccache |-> "wb"]
Flagged(s, j, b) == [stalled[s] EXCEPT ![j] = b]
Goes(to, j, flags) == (\A k \in 0 .. j : ~flags[k]) /\ IsNull(nlatch[to][j])

HandOn(s, from, to, j, i, flags, flushed) ==
  LET go == Goes(to, j, flags)
      put == [nlatch EXCEPT ![to][j] = IF go THEN i ELSE @]
      left == [latch EXCEPT ![from][j] = IF go THEN NullInstr ELSE i]
  IN /\ latch' = [b \in Boundaries |-> IF b \in flushed THEN Empty ELSE left[b]]
     /\ nlatch' = [b \in Boundaries |-> IF b \in flushed THEN Empty ELSE put[b]]
     /\ stalled' = [stalled EXCEPT ![s] = flags]
     /\ IF j = 1 \/ (~go /\ \A k \in 0 .. j : ~flags[k])
        THEN Then(After[s], 0) ELSE Then(s, 1)
-----------------------------------------------------------------------------
(***************************************************************************)
(* Execute.  An instruction issues once its unit is free, its sources are  *)
(* neither locked nor within the latency of their writer, there are read   *)
(* ports, and its destinations are not locked; a vector operation needs    *)
(* four attempts.  After a flush the first check of a register file waits  *)
(* until nothing in flight writes it, and then clears its scoreboard.      *)
(***************************************************************************)
FilesRead(i) == {File(r) : r \in Reads(i)}
Unwritten(i) == \A r \in Regs : File(r) \in FilesRead(i) => board[r].use = 0
Settles(i) == FilesRead(i) \cap clearing # {} /\ Unwritten(i)
Cleared(e) == [e EXCEPT !.ready = 0, !.bypass = 0, !.locked = FALSE]
Checked(i) ==
  IF Settles(i)
  THEN [r \in Regs |-> IF File(r) \in FilesRead(i) /\ r # Ac(0) THEN Cleared(board[r])
                       ELSE board[r]]
  ELSE board

UnitFree(i) ==
  LET u == Unit(i.type)
      Has1(S) == \A v \in S : units[v] > 0
  IN CASE u \in {"ALU", "ALU_VECTOR"} -> Has1({"ALU", "ALU_VECTOR"})
       [] u \in {"FPU", "FPU_VECTOR"} -> Has1({"FPU", "FPU_VECTOR"})
       [] u = "BOTH" -> Has1({"ALU", "ALU_VECTOR", "FPU", "FPU_VECTOR"}) \/ i.type = "NOP"
       [] u = "NONE" -> TRUE
       [] OTHER      -> Has1({u})
SourcesReady_Locked(i) == \A r \in Reads(i) : Checked(i)[r].ready = 0
SourcesReady(i) ==
  /\ FilesRead(i) \cap clearing = {} \/ Unwritten(i)
  /\ \A r \in Reads(i) : Checked(i)[r].ready = 0 /\ ~Checked(i)[r].locked
Ports(i) == IF i.type = "DONE" THEN 0 ELSE ReadPorts(Decoded(i).type, Fields(i))
Attempted(i) == UnitFree(i) /\ SourcesReady(i) /\ Ports(i) <= ports
Ticked(i) == IF Attempted(i) /\ i.vec > 0 THEN [i EXCEPT !.vec = @ - 1] ELSE i
DestsUnlocked(i) ==
  \A r \in WaitsUnlocked(i.type, Fields(i)) \ {0} : ~Checked(i)[r].locked
CanIssue(i) == Attempted(i) /\ Ticked(i).vec = 0 /\ DestsUnlocked(i)

\* the last source of a vector operation is taken from the wrong place
Swapped(i) == IF i.type \in VectorSources THEN {4 * Fields(i).sreg0 + 3} ELSE {}
Operand(i, r) ==
  IF r # 0 /\ ((Checked(i)[r].bypass > 0) # (r \in Swapped(i)))
  THEN Checked(i)[r].value ELSE rf[r]

\* get_reg, lockReg and, where EX has the result, bypass_reg
LateResults == LockTypes \cup {"CMEQ", "CMNE"}
Claimed(i) ==
  LET e == Checked(i)
      dests == Dests(i)
      locks == Locks(i)
  IN [r \in Regs |->
        IF r \in dests
        THEN [ready |-> Latency(i.type), use |-> e[r].use + 1, bypass |-> e[r].bypass + 1,
              locked |-> e[r].locked \/ r \in locks,
              value |-> IF i.type \in LateResults THEN e[r].value
                        ELSE Written(arch.parity, i.pc)]
        ELSE e[r]]
Outcomes(i) == CASE i.type = "CMEQ" -> {"CMEQ", "CMEQ_NOP"}
                 [] i.type = "CMNE" -> {"CMNE", "CMNE_NOP"}
                 [] OTHER           -> {i.type}

\* what issues, and the step of the sequential machine it stands for
Retire(i, next) ==
  IF arch.halted THEN arch
  ELSE [pc |-> next,
        parity |-> IF next <= i.pc THEN 1 - arch.parity ELSE arch.parity,
        halted |-> i.type = "HLT",
        last |-> [pc |-> i.pc, type |-> i.type,
                  operands |-> [r \in Operands(i.type, prog[i.pc]) |-> Operand(i, r)]]]

Behind(s, j) == j = 1 /\ stalled[s][0]
SyncWaits == sync.req /\ ~sync.ack
Freed_Never(k) == ring
Freed(k) == [ring EXCEPT !.slots[k] = FALSE]

\* what ExecuteStage::Update does with the instruction execute returns
MovesOn(j, i, flags, slots, waiting) ==
  LET go == Goes("EX2MC", j, flags)
      flush == go /\ i.mispredict
  IN /\ HandOn("execute", "DC2EX", "EX2MC", j, i, flags,
               IF flush THEN {"IF2DC", "DC2EX"} ELSE {})
     /\ ring' = IF flush THEN [slots EXCEPT !.slots = [k \in DOMAIN @ |-> FALSE]] ELSE slots
     /\ clearing' = IF flush THEN Files ELSE waiting
     /\ moved' = IF go THEN moved \cup {j} ELSE moved

ExecuteIdle ==
  LET j == at[2]
      i == latch["DC2EX"][j]
  IN /\ at[1] = "execute"
     /\ IsNull(i) \/ Behind("execute", j) \/ (Issued(i) /\ ~sync.req /\ ~sync.ack)
     /\ MovesOn(j, i, stalled["execute"], ring, clearing)
     /\ UNCHANGED <<prog, front, fixup, btb, sync, units, ports, board, rf, loading, halted,
                    stalls, arch>>

ExecuteStalls ==
  LET j == at[2]
      i == latch["DC2EX"][j]
      reads == ~SyncWaits /\ UnitFree(i)
  IN /\ at[1] = "execute"
     /\ ~IsNull(i) /\ ~Behind("execute", j)
     /\ SyncWaits \/ (~sync.ack /\ ~Issued(i) /\ ~CanIssue(i))
     /\ board' = IF reads THEN Checked(i) ELSE board
     /\ MovesOn(j, IF reads THEN Ticked(i) ELSE i, Flagged("execute", j, TRUE), ring,
                IF reads /\ Settles(i) THEN clearing \ FilesRead(i) ELSE clearing)
     /\ UNCHANGED <<prog, front, fixup, btb, sync, units, ports, rf, loading, halted, stalls,
                    arch>>

\* the first instruction to come after the acknowledgement of a SYNC is
\* dropped and flushes the ones behind it
Restart ==
  LET j == at[2]
      i == latch["DC2EX"][j]
  IN /\ at[1] = "execute"
     /\ ~IsNull(i) /\ ~Behind("execute", j)
     /\ sync.ack
     /\ sync' = [sync EXCEPT !.ack = FALSE]
     /\ MovesOn(j, [i EXCEPT !.type = "DONE", !.done = {"Exec"}, !.mispredict = TRUE],
                Flagged("execute", j, FALSE), Freed(i.slot), clearing)
     /\ UNCHANGED <<prog, front, fixup, btb, units, ports, board, rf, loading, halted, stalls,
                    arch>>

Issue ==
  LET j == at[2]
      i == latch["DC2EX"][j]
  IN /\ at[1] = "execute"
     /\ ~IsNull(i) /\ ~Behind("execute", j)
     /\ ~sync.req /\ ~sync.ack /\ ~Issued(i)
     /\ CanIssue(i)
     /\ units' = [units EXCEPT ![Unit(i.type)] = @ - 1]
     /\ ports' = ports - Ports(i)
     /\ board' = Claimed(i)
     /\ sync' = IF i.type = "SYNC" THEN [sync EXCEPT !.req = TRUE] ELSE sync
     /\ \E next \in Targets(prog, i.pc, i.type), type \in Outcomes(i) :
          /\ arch' = Retire(i, next)
          /\ fixup' = IF next # i.pred THEN [needed |-> TRUE, pc |-> next, branch |-> i.pc]
                      ELSE fixup
          /\ MovesOn(j, [i EXCEPT !.type = type, !.done = {"Exec"}, !.vec = 0,
                                  !.mispredict = (next # i.pred), !.parity = arch.parity],
                     Flagged("execute", j, FALSE), Freed(i.slot),
                     IF Settles(i) THEN clearing \ FilesRead(i) ELSE clearing)
     /\ UNCHANGED <<prog, front, btb, rf, loading, halted, stalls>>

\* the units and ports of what has moved on; the unit is looked up again, by
\* the type the instruction has now
Completed_FirstPipe ==
  {j \in moved \cap {0} : IsNull(latch["DC2EX"][j]) /\ ~IsNull(nlatch["EX2MC"][j])}
Completed == {j \in moved : IsNull(latch["DC2EX"][j]) /\ ~IsNull(nlatch["EX2MC"][j])}
PortsOf(j) == IF j \in Completed THEN Ports(nlatch["EX2MC"][j]) ELSE 0
Release ==
  LET Of(j) == nlatch["EX2MC"][j]
  IN /\ at[1] = "release"
     /\ units' = [u \in Units |-> units[u] + Cardinality({j \in Completed : Unit(Of(j).type) = u})]
     /\ ports' = ports + PortsOf(0) + PortsOf(1)
     /\ Then("mem", 0)
     /\ UNCHANGED <<prog, latch, nlatch, ring, front, fixup, btb, stalled, sync, board,
                    clearing, rf, loading, halted, moved, stalls, arch>>
-----------------------------------------------------------------------------
(***************************************************************************)
(* Memory and cache access.  A load that the second-level cache takes      *)
(* leaves the memory stage without its word and waits for it in the cache  *)
(* access stage; until it has come no other access starts.                 *)
(***************************************************************************)
Loads == {"LDW", "LDL", "VLDW"}
Stores == {"STW", "STC", "VSTW"}
Broadcasts == {"BCAST_INV", "BCAST_UPDATE"}
Prefetches == {"PREF_L", "PREF_NGA", "PREF_B_GC", "PREF_B_CC"}
Barriers == {"MB", "LINE_INV", "IC_INV", "CC_INV"}
LineWrites == {"LINE_WB", "LINE_FLUSH"}
Globals == IsGlobal \ {"BCAST_UPDATE"}
WaitsForLoad == Loads \cup Stores \cup Broadcasts \cup Prefetches \cup Barriers
                \cup LineWrites \cup Globals
CanStall == (WaitsForLoad \ {"IC_INV", "CC_INV"}) \cup QueueTypes
AtOnce == {"IC_INV", "CC_INV"}  \* these ask the cache and are never refused
Accesses == CanStall \cup AtOnce

\* the result of an access goes to the bypass network and the lock is lifted
Upgraded_StaysLocked(i) ==
  LET locks == Locks(i)
  IN [r \in Regs |-> IF r \in locks THEN [board[r] EXCEPT !.ready = 0, !.value = Value(i)]
                     ELSE board[r]]
Upgraded(i) ==
  LET locks == Locks(i)
  IN [r \in Regs |-> IF r \in locks
                     THEN [board[r] EXCEPT !.ready = 0, !.locked = FALSE, !.value = Value(i)]
                     ELSE board[r]]
aroundMemory == <<prog, ring, front, fixup, btb, sync, units, ports, clearing, rf, halted,
                  moved, arch>>
Memory(j, i, flags) == HandOn("mem", "EX2MC", "MC2FP", j, i, flags, {})
CacheAccess(j, i, flags) == HandOn("ccache", "FP2CC", "CC2WB", j, i, flags, {})
InMemory == LET i == latch["EX2MC"][at[2]]
            IN /\ at[1] = "mem"
               /\ ~Behind("mem", at[2])
               /\ i.type \in Accesses /\ "Mem" \notin i.done

MemPasses ==
  LET i == latch["EX2MC"][at[2]]
  IN /\ at[1] = "mem"
     /\ ~InMemory
     /\ Memory(at[2], i, stalled["mem"])
     /\ UNCHANGED <<aroundMemory, board, loading, stalls>>

MemStalls ==
  LET i == latch["EX2MC"][at[2]]
  IN /\ InMemory
     /\ IF loading /\ i.type \in WaitsForLoad THEN UNCHANGED stalls
        ELSE i.type \in CanStall /\ Late
     /\ Memory(at[2], i, Flagged("mem", at[2], TRUE))
     /\ UNCHANGED <<aroundMemory, board, loading>>

\* a first-level miss: the load goes on to the second-level cache
MemSchedules ==
  LET i == latch["EX2MC"][at[2]]
  IN /\ InMemory
     /\ i.type \in Loads /\ ~loading
     /\ loading' = TRUE
     /\ Memory(at[2], i, Flagged("mem", at[2], FALSE))
     /\ UNCHANGED <<aroundMemory, board, stalls>>

MemServes ==
  LET i == latch["EX2MC"][at[2]]
      done == i.done
              \cup (IF i.type \in Barriers THEN {} ELSE {"Mem"})
              \cup (IF i.type \in Loads \cup Prefetches THEN {"CC"} ELSE {})
  IN /\ InMemory
     /\ ~(loading /\ i.type \in WaitsForLoad)
     /\ board' = IF i.type \in Loads \cup Globals THEN Upgraded(i) ELSE board
     /\ Memory(at[2], [i EXCEPT !.done = done], Flagged("mem", at[2], FALSE))
     /\ UNCHANGED <<aroundMemory, loading, stalls>>

\* the stage drops its stalls before it starts
CacheFlags == IF at[2] = 0 THEN [j \in Pipes |-> FALSE] ELSE stalled["ccache"]
Waiting == LET i == latch["FP2CC"][at[2]]
           IN /\ at[1] = "ccache"
              /\ ~(at[2] = 1 /\ CacheFlags[0])
              /\ i.type \in Loads /\ "CC" \notin i.done

CachePasses ==
  LET i == latch["FP2CC"][at[2]]
  IN /\ at[1] = "ccache"
     /\ ~Waiting
     /\ CacheAccess(at[2], i, CacheFlags)
     /\ UNCHANGED <<aroundMemory, board, loading, stalls>>

CacheStalls ==
  LET i == latch["FP2CC"][at[2]]
  IN /\ Waiting
     /\ Late
     /\ CacheAccess(at[2], i, [CacheFlags EXCEPT ![at[2]] = TRUE])
     /\ UNCHANGED <<aroundMemory, board, loading>>

CacheServes ==
  LET i == latch["FP2CC"][at[2]]
  IN /\ Waiting
     /\ board' = Upgraded(i)
     /\ loading' = FALSE
     /\ CacheAccess(at[2], [i EXCEPT !.done = @ \cup {"CC"}], [CacheFlags EXCEPT ![at[2]] = FALSE])
     /\ UNCHANGED <<aroundMemory, stalls>>
-----------------------------------------------------------------------------
(***************************************************************************)
(* Write back, both pipes; then the clock edge.                            *)
(***************************************************************************)
Taken(i) == IF IsNull(i) \/ i.type \in Broken \cup {"EVENT", "PRIO"} THEN {} ELSE Dests(i)
Clears == VectorDest \cup QueueTypes \cup {"STC"}
Put_KeepsUse(e) == [e EXCEPT !.bypass = IF @ > 0 THEN @ - 1 ELSE 0]
Put(e) == [e EXCEPT !.use = @ - 1, !.bypass = IF @ > 0 THEN @ - 1 ELSE 0]
Back(i, regs) == [r \in Taken(i) |-> Value(i)] @@ regs
GivenBack(i, entries) ==
  LET taken == Taken(i)
  IN [r \in Regs |-> IF r \notin taken THEN entries[r]
                     ELSE IF i.type \in Clears THEN Cleared(Put(entries[r]))
                     ELSE Put(entries[r])]

WriteBack ==
  LET first == latch["CC2WB"][0]
      second == latch["CC2WB"][1]
      types == {first.type, second.type}
  IN /\ at[1] = "wb"
     /\ rf' = Back(second, Back(first, rf))
     /\ board' = GivenBack(second, GivenBack(first, board))
     /\ halted' = (halted \/ "HLT" \in types)
     /\ sync' = IF "SYNC" \in types THEN [req |-> FALSE, ack |-> TRUE] ELSE sync
     /\ latch' = [latch EXCEPT !["CC2WB"] = Empty]
     /\ Then("latch", 0)
     /\ UNCHANGED <<prog, nlatch, ring, front, fixup, btb, stalled, units, ports, clearing,
                    loading, moved, stalls, arch>>

\* the boundaries that move, from the back up to the first stage that stalls
Moving ==
  CASE IsStalled("ccache", 1)  -> {"CC2WB"}
    [] ~IsStalled("ccache", 1) /\ IsStalled("mem", 1)
                               -> {"CC2WB", "FP2CC", "MC2FP"}
    [] ~IsStalled("ccache", 1) /\ ~IsStalled("mem", 1) /\ IsStalled("execute", 1)
                               -> {"CC2WB", "FP2CC", "MC2FP", "EX2MC"}
    [] OTHER                   -> Boundaries

UpdateLatches ==
  /\ at[1] = "latch"
  /\ latch' = [b \in Boundaries |-> IF b \in Moving THEN nlatch[b] ELSE latch[b]]
  /\ nlatch' = [b \in Boundaries |-> IF b \in Moving THEN Empty ELSE nlatch[b]]
  /\ board' = [r \in Regs |-> [board[r] EXCEPT !.ready = IF @ > 0 THEN @ - 1 ELSE 0]]
  /\ Then("fetch", 0)
  /\ UNCHANGED <<prog, ring, front, fixup, btb, stalled, sync, units, ports, clearing, rf,
                 loading, halted, moved, stalls, arch>>

Next ==
  \/ FetchIdle \/ FetchStall \/ FetchLine
  \/ Decode
  \/ ExecuteIdle \/ ExecuteStalls \/ Restart \/ Issue \/ Release
  \/ MemPasses \/ MemStalls \/ MemSchedules \/ MemServes
  \/ FpComplete
  \/ CachePasses \/ CacheStalls \/ CacheServes
  \/ WriteBack \/ UpdateLatches

Spec == Init /\ [][Next]_vars
\* the clock never stops, and every access is served in the end (MaxStalls)
FairSpec == Spec /\ WF_vars(Next)
-----------------------------------------------------------------------------
(***************************************************************************)
(* Properties                                                              *)
(***************************************************************************)
\* the places of instructions, from the oldest to the youngest
Flight ==
  LET places == <<latch["CC2WB"], nlatch["CC2WB"], latch["FP2CC"], nlatch["FP2CC"],
                  latch["MC2FP"], nlatch["MC2FP"], latch["EX2MC"], nlatch["EX2MC"],
                  latch["DC2EX"], nlatch["DC2EX"], latch["IF2DC"], nlatch["IF2DC"]>>
  IN [n \in 0 .. 23 |-> places[n \div 2 + 1][n % 2]]

\* the registers as the issued instructions leave them
Newest ==
  LET f == Flight
      after[n \in 0 .. 24] ==
        IF n = 0 THEN rf
        ELSE IF Issued(f[n - 1]) THEN Back(f[n - 1], after[n - 1]) ELSE after[n - 1]
  IN after[24]
Machine == INSTANCE Sequential WITH
  pc <- arch.pc, parity <- arch.parity, last <- arch.last, halted <- arch.halted,
  regs <- Newest
TypeAt(a) == Decoded([pc |-> a]).type
Forward == \A a \in DOMAIN prog : TypeAt(a) \in IsBranch => prog[a].target > a
\* registers that a vector operation writes and another instruction writes again
Rewritten ==
  {r \in Regs : \E a, b \in DOMAIN prog :
     /\ TypeAt(a) \in VectorDest
     /\ b > a \/ (b < a /\ ~Forward)
     /\ r \in Dests([pc |-> a]) \cap Dests([pc |-> b])}
\* a SYNC loses the instructions that it restarts
Syncs == \E a \in DOMAIN prog : TypeAt(a) = "SYNC"
\* the functional core links in the register that a JAL or JALR names, the
\* legacy core in r31
Links == \E a \in DOMAIN prog : TypeAt(a) \in {"JAL", "JALR"} /\ prog[a].d # LinkReg
\* The instructions issue as the functional core executes them, in its order
\* and with its operands, whatever stalls, flushes and bypasses intervene, with
\* these exceptions, in which the code does otherwise.  The last source of a
\* vector operation is taken from the wrong place (Swapped, at
\* scoreboard_update.h:503), and so may be a register that a vector operation
\* writes and another instruction writes again before that has been written back
\* (Rewritten, as write-back clears its entry): the order and all other operands
\* are as they should be.  Nothing is said of programs with a SYNC (Syncs) and
\* of those that link elsewhere than in r31 (Links).
ImplementsSequential ==
  /\ Machine!Init
  /\ [][\/ Syncs \/ Links
        \/ Machine!Step(Swapped([type |-> TypeAt(arch.pc), pc |-> arch.pc]) \cup Rewritten)
       ]_(Machine!seqVars)

\* A scoreboard entry counts the instructions that hold it (get_reg, put_reg):
\* one taken too often keeps a flush waiting for ever, one given back too
\* often lets it clear the entry of a writer in flight.
ScoreboardBalanced ==
  LET f == Flight
      issued == {n \in DOMAIN f : Issued(f[n])}
  IN \A r \in Regs : board[r].use = Cardinality({n \in issued : r \in Dests(f[n])})

\* The list of speculative instructions has a slot for each instruction that
\* has not issued and for no other: when fetch adds one its slot is free
\* (assert in AddSpecInstr), and a flush deletes none that commits.
SpecRing ==
  LET f == Flight
      speculative == {n \in DOMAIN f : ~IsNull(f[n]) /\ ~Issued(f[n])}
  IN \A k \in DOMAIN ring.slots :
       Cardinality({n \in speculative : f[n].slot = k}) = IF ring.slots[k] THEN 1 ELSE 0

\* When ExecuteStage::Update is over all units and read ports are free again.
UnitsReturned ==
  at[1] = "mem" => /\ ports = 4
                   /\ \A u \in Units \ {"NONE", "BOTH"} : units[u] = 1

\* A program without backward branches comes to its end: no unit, lock, load
\* or flush is waited for that does not come.
Halts == Forward ~> halted
=============================================================================
