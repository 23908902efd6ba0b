--------------------------- MODULE PipelineProofs ---------------------------
(***************************************************************************)
(* Three account books of the legacy core agree with the instructions in   *)
(* its latches, for every program: the list of speculative instructions,   *)
(* the scoreboard's use counts, and the functional units with the read     *)
(* ports.  All three rest on what a stage may do with an instruction: hand *)
(* it on, keep it, or flush it.                                            *)
(***************************************************************************)
EXTENDS Pipeline, FiniteSetTheorems, TLAPS

Fetched == {"IF2DC", "DC2EX"}
InstrFields == {"type", "pc", "pred", "slot", "vec", "done", "mispredict", "parity"}
Instr(i) == InstrFields \subseteq DOMAIN i
Latched(l) ==
  /\ DOMAIN l = Boundaries
  /\ \A b \in Boundaries : DOMAIN l[b] = Pipes /\ \A j \in Pipes : Instr(l[b][j])

\* the instructions that have not issued, in the order of fetch
A(j) == latch["DC2EX"][j]
B(j) == nlatch["DC2EX"][j]
C(j) == latch["IF2DC"][j]
D(j) == nlatch["IF2DC"][j]
E(j) == nlatch["EX2MC"][j]
NoneAt(p0, p1) == IsNull(p0) /\ IsNull(p1)
Stuck == stalled["execute"][0] \/ stalled["execute"][1]

Latches == Latched(latch) /\ Latched(nlatch)
Control ==
  /\ at[2] \in Pipes
  /\ DOMAIN stalled = Stages /\ \A s \in Stages : DOMAIN stalled[s] = Pipes

\* Only what is past execute has issued; execute has room for what it issues,
\* and keeps only what it has flagged as stalled; decode has room for a line.
PastIssue ==
  \A b \in Boundaries, j \in Pipes :
    IF b \in Fetched THEN ~Issued(latch[b][j]) /\ ~Issued(nlatch[b][j])
    ELSE /\ Issued(latch[b][j]) <=> ~IsNull(latch[b][j])
         /\ Issued(nlatch[b][j]) <=> ~IsNull(nlatch[b][j])
Roomy ==
  /\ \A j \in Pipes : IsNull(A(j)) \/ IsNull(E(j))
  /\ NoneAt(C(0), C(1)) \/ NoneAt(B(0), B(1))
Before == at[1] \in {"fetch", "decode"} \/ (at[1] = "execute" /\ at[2] = 0)
Flags ==
  /\ Before => NoneAt(A(0), A(1)) \/ Stuck \/ NoneAt(E(0), E(1))
  /\ at[1] = "execute" /\ at[2] = 1 => IsNull(A(0)) \/ stalled["execute"][0]
  /\ at[1] \notin {"fetch", "decode", "execute"} => NoneAt(A(0), A(1)) \/ Stuck
InOrder == PastIssue /\ Roomy /\ Flags

\* No address leaves the program.
Addressed ==
  /\ prog \in Programs
  /\ \A b \in Boundaries, j \in Pipes :
       latch[b][j].pc \in DOMAIN prog /\ nlatch[b][j].pc \in DOMAIN prog
  /\ front.next \in DOMAIN prog
  /\ {"needed", "pc"} \subseteq DOMAIN fixup /\ fixup.pc \in DOMAIN prog
  /\ \A a \in DOMAIN btb :
       {"target", "state"} \subseteq DOMAIN btb[a] /\ btb[a].target \in DOMAIN prog

Structure == Latches /\ Control /\ InOrder

\* The slots of the speculative list are dealt out in turn: counted from the
\* youngest instruction, the n-th one has the n-th slot behind ListHead.
N(i) == IF IsNull(i) THEN 0 ELSE 1
HasTurn(i, n, head) == ~IsNull(i) => i.slot = (head - n) % RingLength
Dealt(r, a0, a1, b0, b1, c0, c1, d0, d1) ==
  LET all == N(a0) + N(a1) + N(b0) + N(b1) + N(c0) + N(c1) + N(d0) + N(d1)
  IN /\ all <= RingLength
     /\ HasTurn(a0, all, r.head)
     /\ HasTurn(a1, N(a1) + N(b0) + N(b1) + N(c0) + N(c1) + N(d0) + N(d1), r.head)
     /\ HasTurn(b0, N(b0) + N(b1) + N(c0) + N(c1) + N(d0) + N(d1), r.head)
     /\ HasTurn(b1, N(b1) + N(c0) + N(c1) + N(d0) + N(d1), r.head)
     /\ HasTurn(c0, N(c0) + N(c1) + N(d0) + N(d1), r.head)
     /\ HasTurn(c1, N(c1) + N(d0) + N(d1), r.head)
     /\ HasTurn(d0, N(d0) + N(d1), r.head)
     /\ HasTurn(d1, N(d1), r.head)
     /\ \A k \in 0 .. RingLength - 1 : r.slots[k] <=> ((r.head - 1 - k) % RingLength < all)
RingType(r) ==
  /\ {"slots", "head"} \subseteq DOMAIN r
  /\ r.slots \in [0 .. RingLength - 1 -> BOOLEAN]
  /\ r.head \in 0 .. RingLength - 1
Listed == RingType(ring) /\ Dealt(ring, A(0), A(1), B(0), B(1), C(0), C(1), D(0), D(1))

\* A unit is taken, and ports are, by what this cycle's execute has handed on.
Real == Units \ {"NONE", "BOTH"}
Holds(j) == j \in moved /\ ~IsNull(E(j))
UnitOf(j, u) == IF Holds(j) /\ Unit(E(j).type) = u THEN 1 ELSE 0
PortsHeld(j) == IF Holds(j) THEN Ports(E(j)) ELSE 0
Working == at[1] \in {"execute", "release"}
Lent ==
  /\ DOMAIN units = Units /\ \A u \in Units : units[u] \in Int
  /\ moved \subseteq Pipes
  /\ at[1] = "execute" => at[2] \notin moved /\ (at[2] = 0 => 1 \notin moved)
  /\ Working => /\ \A u \in Real : units[u] = 1 - UnitOf(0, u) - UnitOf(1, u)
                /\ ports = 4 - PortsHeld(0) - PortsHeld(1)
  /\ ~Working => ports = 4 /\ \A u \in Real : units[u] = 1

-----------------------------------------------------------------------------
(***************************************************************************)
(* What a stage does with the latches.                                     *)
(***************************************************************************)
LEMMA NullIsInstr == Instr(NullInstr) /\ IsNull(NullInstr) /\ ~Issued(NullInstr)
BY DEF Instr, InstrFields, NullInstr, IsNull, Issued

\* a stage hands the instruction of pipe j on, or keeps it; nothing else moves
LEMMA HandOnIs ==
  ASSUME Latches, NEW s \in Stages, NEW from \in Boundaries, NEW to \in Boundaries,
         NEW j \in Pipes, NEW i, Instr(i), NEW flags, NEW flushed,
         HandOn(s, from, to, j, i, flags, flushed)
  PROVE /\ Latches'
        /\ \A b \in Boundaries, k \in Pipes :
             latch'[b][k] = IF b \in flushed THEN NullInstr
                            ELSE IF b = from /\ k = j
                                 THEN IF Goes(to, j, flags) THEN NullInstr ELSE i
                                 ELSE latch[b][k]
        /\ \A b \in Boundaries, k \in Pipes :
             nlatch'[b][k] = IF b \in flushed THEN NullInstr
                             ELSE IF b = to /\ k = j /\ Goes(to, j, flags) THEN i
                                  ELSE nlatch[b][k]
<1> DEFINE go == Goes(to, j, flags)
           put == [nlatch EXCEPT ![to][j] = IF go THEN i ELSE @]
           left == [latch EXCEPT ![from][j] = IF go THEN NullInstr ELSE i]
<1>1. /\ latch' = [b \in Boundaries |-> IF b \in flushed THEN Empty ELSE left[b]]
      /\ nlatch' = [b \in Boundaries |-> IF b \in flushed THEN Empty ELSE put[b]]
  BY DEF HandOn
<1>2. /\ DOMAIN latch = Boundaries /\ DOMAIN nlatch = Boundaries
      /\ \A b \in Boundaries : /\ DOMAIN latch[b] = Pipes /\ DOMAIN nlatch[b] = Pipes
                               /\ \A k \in Pipes : Instr(latch[b][k]) /\ Instr(nlatch[b][k])
  BY DEF Latches, Latched
<1> HIDE DEF go
<1>3. \A b \in Boundaries :
        /\ DOMAIN left[b] = Pipes
        /\ \A k \in Pipes : left[b][k] = IF b = from /\ k = j
                                         THEN IF go THEN NullInstr ELSE i ELSE latch[b][k]
  BY <1>2
<1>4. \A b \in Boundaries :
        /\ DOMAIN put[b] = Pipes
        /\ \A k \in Pipes : put[b][k] = IF b = to /\ k = j /\ go THEN i ELSE nlatch[b][k]
  BY <1>2
<1> HIDE DEF put, left
<1>5. DOMAIN Empty = Pipes /\ \A k \in Pipes : Empty[k] = NullInstr
  BY DEF Empty, Pair
<1>6. \A b \in Boundaries, k \in Pipes :
        /\ latch'[b][k] = IF b \in flushed THEN NullInstr
                          ELSE IF b = from /\ k = j THEN IF go THEN NullInstr ELSE i
                               ELSE latch[b][k]
        /\ nlatch'[b][k] = IF b \in flushed THEN NullInstr
                           ELSE IF b = to /\ k = j /\ go THEN i ELSE nlatch[b][k]
  BY <1>1, <1>3, <1>4, <1>5
<1>7. /\ DOMAIN latch' = Boundaries /\ DOMAIN nlatch' = Boundaries
      /\ \A b \in Boundaries : DOMAIN latch'[b] = Pipes /\ DOMAIN nlatch'[b] = Pipes
  BY <1>1, <1>3, <1>4, <1>5
<1>8. \A b \in Boundaries, k \in Pipes : Instr(latch'[b][k]) /\ Instr(nlatch'[b][k])
  BY <1>2, <1>6, NullIsInstr
<1>9. Latches'
  BY <1>7, <1>8 DEF Latches, Latched
<1> QED
  BY <1>6, <1>9 DEF go

\* decode and fpcomplete hand on every pipe that has room before it
LEMMA PassedIs ==
  ASSUME Latches, NEW from \in Boundaries, NEW to \in Boundaries, NEW out,
         \A k \in Pipes : Instr(out[k]), Passed(from, to, out)
  PROVE LET Moves(k) == IsNull(nlatch[to][0]) /\ (k = 0 \/ IsNull(nlatch[to][1]))
        IN /\ Latches'
           /\ \A b \in Boundaries, k \in Pipes :
                latch'[b][k] = IF b = from /\ Moves(k) THEN NullInstr ELSE latch[b][k]
           /\ \A b \in Boundaries, k \in Pipes :
                nlatch'[b][k] = IF b = to /\ Moves(k) THEN out[k] ELSE nlatch[b][k]
<1> DEFINE Moves(k) == IsNull(nlatch[to][0]) /\ (k = 0 \/ IsNull(nlatch[to][1]))
           n == IF ~IsNull(nlatch[to][0]) THEN {}
                ELSE IF ~IsNull(nlatch[to][1]) THEN {0} ELSE Pipes
<1>1. \A k \in Pipes : k \in n <=> Moves(k)
  BY DEF Pipes
<1>2. /\ latch' = [latch EXCEPT ![from] = [k \in Pipes |-> IF k \in n THEN NullInstr ELSE @[k]]]
      /\ nlatch' = [nlatch EXCEPT ![to] = [k \in Pipes |-> IF k \in n THEN out[k] ELSE @[k]]]
  BY DEF Passed
<1>3. /\ DOMAIN latch = Boundaries /\ DOMAIN nlatch = Boundaries
      /\ \A b \in Boundaries : /\ DOMAIN latch[b] = Pipes /\ DOMAIN nlatch[b] = Pipes
                               /\ \A k \in Pipes : Instr(latch[b][k]) /\ Instr(nlatch[b][k])
  BY DEF Latches, Latched
<1> HIDE DEF n, Moves
<1>4. \A b \in Boundaries, k \in Pipes :
        /\ latch'[b][k] = IF b = from /\ Moves(k) THEN NullInstr ELSE latch[b][k]
        /\ nlatch'[b][k] = IF b = to /\ Moves(k) THEN out[k] ELSE nlatch[b][k]
  BY <1>1, <1>2, <1>3
<1>5. /\ DOMAIN latch' = Boundaries /\ DOMAIN nlatch' = Boundaries
      /\ \A b \in Boundaries : DOMAIN latch'[b] = Pipes /\ DOMAIN nlatch'[b] = Pipes
  BY <1>2, <1>3
<1>6. \A b \in Boundaries, k \in Pipes : Instr(latch'[b][k]) /\ Instr(nlatch'[b][k])
  BY <1>3, <1>4, NullIsInstr
<1>7. Latches'
  BY <1>5, <1>6 DEF Latches, Latched
<1> QED
  BY <1>4, <1>7 DEF Moves
-----------------------------------------------------------------------------
(***************************************************************************)
(* Execute: one pipe of the stage.                                         *)
(***************************************************************************)
Went(j, flags) == Goes("EX2MC", j, flags)
Flushes(j, i, flags) == Went(j, flags) /\ i.mispredict

\* what execute leaves in the latches: the flush empties all that is younger
LEMMA MovesOnIs ==
  ASSUME Latches, NEW j \in Pipes, NEW i, Instr(i), NEW flags, NEW slots, NEW waiting,
         MovesOn(j, i, flags, slots, waiting)
  PROVE /\ Latches'
        /\ \A k \in Pipes : A(k)' = IF Flushes(j, i, flags) THEN NullInstr
                                    ELSE IF k = j THEN IF Went(j, flags) THEN NullInstr ELSE i
                                    ELSE A(k)
        /\ \A k \in Pipes :
             /\ B(k)' = IF Flushes(j, i, flags) THEN NullInstr ELSE B(k)
             /\ C(k)' = IF Flushes(j, i, flags) THEN NullInstr ELSE C(k)
             /\ D(k)' = IF Flushes(j, i, flags) THEN NullInstr ELSE D(k)
             /\ E(k)' = IF k = j /\ Went(j, flags) THEN i ELSE E(k)
        /\ \A b \in Boundaries \ Fetched, k \in Pipes :
             /\ latch'[b][k] = latch[b][k]
             /\ b # "EX2MC" => nlatch'[b][k] = nlatch[b][k]
        /\ at' = IF j = 1 \/ (~Went(j, flags) /\ \A k \in 0 .. j : ~flags[k])
                 THEN <<"release", 0>> ELSE <<"execute", 1>>
        /\ stalled' = [stalled EXCEPT !["execute"] = flags]
        /\ ring' = IF Flushes(j, i, flags)
                   THEN [slots EXCEPT !.slots = [k \in DOMAIN @ |-> FALSE]] ELSE slots
        /\ moved' = IF Went(j, flags) THEN moved \cup {j} ELSE moved
<1> DEFINE flushed == IF Flushes(j, i, flags) THEN {"IF2DC", "DC2EX"} ELSE {}
<1>1. /\ HandOn("execute", "DC2EX", "EX2MC", j, i, flags, flushed)
      /\ ring' = IF Flushes(j, i, flags)
                 THEN [slots EXCEPT !.slots = [k \in DOMAIN @ |-> FALSE]] ELSE slots
      /\ moved' = IF Went(j, flags) THEN moved \cup {j} ELSE moved
  BY DEF MovesOn, Flushes, Went
<1>2. /\ "DC2EX" \in Boundaries /\ "EX2MC" \in Boundaries /\ "IF2DC" \in Boundaries
      /\ "execute" \in Stages
  BY DEF Boundaries, Stages
<1> HIDE DEF flushed
<1>3. /\ Latches'
      /\ \A b \in Boundaries, k \in Pipes :
           latch'[b][k] = IF b \in flushed THEN NullInstr
                          ELSE IF b = "DC2EX" /\ k = j
                               THEN IF Went(j, flags) THEN NullInstr ELSE i
                               ELSE latch[b][k]
      /\ \A b \in Boundaries, k \in Pipes :
           nlatch'[b][k] = IF b \in flushed THEN NullInstr
                           ELSE IF b = "EX2MC" /\ k = j /\ Went(j, flags) THEN i
                                ELSE nlatch[b][k]
  BY <1>1, <1>2, HandOnIs DEF Went
<1>4. \A b \in Boundaries : b \in flushed <=> Flushes(j, i, flags) /\ b \in Fetched
  BY DEF flushed, Fetched
<1>5. /\ at' = IF j = 1 \/ (~Went(j, flags) /\ \A k \in 0 .. j : ~flags[k])
               THEN <<"release", 0>> ELSE <<"execute", 1>>
      /\ stalled' = [stalled EXCEPT !["execute"] = flags]
  BY <1>1 DEF HandOn, Then, After, Went
<1> QED
  BY <1>1, <1>2, <1>3, <1>4, <1>5 DEF A, B, C, D, E, Fetched

\* what an execute step does with the instruction of its pipe
Idles(j, i, flags) ==
  /\ i = A(j) /\ flags = stalled["execute"]
  /\ IsNull(i) \/ (j = 1 /\ stalled["execute"][0])
Waits(j, i, flags) ==
  /\ ~IsNull(A(j)) /\ ~IsNull(i) /\ ~Issued(i)
  /\ ~(j = 1 /\ stalled["execute"][0])
  /\ flags = [stalled["execute"] EXCEPT ![j] = TRUE]
Leaves(j, i, flags) ==
  /\ ~IsNull(A(j)) /\ ~IsNull(i) /\ Issued(i)
  /\ ~(j = 1 /\ stalled["execute"][0])
  /\ flags = [stalled["execute"] EXCEPT ![j] = FALSE]

\* the three outcomes of execute, against whether the instruction moved on
LEMMA WentIs ==
  ASSUME Structure, NEW j \in Pipes, NEW i, NEW flags
  PROVE /\ Idles(j, i, flags) => IsNull(i) \/ ~Went(j, flags)
        /\ Waits(j, i, flags) => ~Went(j, flags) /\ flags[j]
        /\ Leaves(j, i, flags) => Went(j, flags)
<1>1. /\ DOMAIN stalled["execute"] = Pipes /\ Pipes = {0, 1}
      /\ \A k \in Pipes : IsNull(A(k)) \/ IsNull(E(k))
  BY DEF Structure, Control, InOrder, Roomy, Pipes, Stages
<1>2. Went(j, flags) <=> (\A k \in 0 .. j : ~flags[k]) /\ IsNull(E(j))
  BY DEF Went, Goes, E
<1>3. (j = 0 => 0 .. j = {0}) /\ (j = 1 => 0 .. j = {0, 1})
  OBVIOUS
<1>4. Idles(j, i, flags) => IsNull(i) \/ ~Went(j, flags)
  BY <1>1, <1>2, <1>3 DEF Idles
<1>5. Waits(j, i, flags) => ~Went(j, flags) /\ flags[j]
  BY <1>1, <1>2, <1>3 DEF Waits
<1>6. Leaves(j, i, flags) => Went(j, flags)
  BY <1>1, <1>2, <1>3 DEF Leaves
<1> QED
  BY <1>4, <1>5, <1>6

\* only what issues goes on, and what stays is flagged as stalled
LEMMA ExecuteKeepsStructure ==
  ASSUME Structure, at[1] = "execute", NEW j \in Pipes, j = at[2], NEW i, Instr(i),
         NEW flags, NEW slots, NEW waiting, MovesOn(j, i, flags, slots, waiting),
         Idles(j, i, flags) \/ Waits(j, i, flags) \/ Leaves(j, i, flags)
  PROVE Structure'
<1> DEFINE go == Went(j, flags)
           flush == Flushes(j, i, flags)
<1>1. /\ Latches'
      /\ \A k \in Pipes : A(k)' = IF flush THEN NullInstr
                                  ELSE IF k = j THEN IF go THEN NullInstr ELSE i ELSE A(k)
      /\ \A k \in Pipes : /\ B(k)' = IF flush THEN NullInstr ELSE B(k)
                          /\ C(k)' = IF flush THEN NullInstr ELSE C(k)
                          /\ D(k)' = IF flush THEN NullInstr ELSE D(k)
                          /\ E(k)' = IF k = j /\ go THEN i ELSE E(k)
      /\ \A b \in Boundaries \ Fetched, k \in Pipes :
           /\ latch'[b][k] = latch[b][k]
           /\ b # "EX2MC" => nlatch'[b][k] = nlatch[b][k]
      /\ at' = IF j = 1 \/ (~go /\ \A k \in 0 .. j : ~flags[k])
               THEN <<"release", 0>> ELSE <<"execute", 1>>
      /\ stalled' = [stalled EXCEPT !["execute"] = flags]
  BY MovesOnIs DEF Structure
<1>2. /\ DOMAIN stalled = Stages /\ DOMAIN stalled["execute"] = Pipes
      /\ Pipes = {0, 1} /\ "execute" \in Stages
  BY DEF Structure, Control, Pipes, Stages
<1>3. DOMAIN flags = Pipes
  BY <1>2 DEF Idles, Waits, Leaves
<1>4. stalled'["execute"] = flags /\ DOMAIN stalled' = Stages
      /\ \A s \in Stages : DOMAIN stalled'[s] = Pipes
  BY <1>1, <1>2, <1>3 DEF Structure, Control
<1>5. Control'
  BY <1>1, <1>2, <1>3, <1>4 DEF Control
<1>6. /\ Idles(j, i, flags) => IsNull(i) \/ ~go
      /\ Waits(j, i, flags) => ~go /\ flags[j]
      /\ Leaves(j, i, flags) => go
  BY WentIs
<1>7. PastIssue /\ Roomy /\ Flags
  BY DEF Structure, InOrder
<1>8. /\ \A k \in Pipes : /\ ~Issued(A(k)) /\ ~Issued(B(k)) /\ ~Issued(C(k)) /\ ~Issued(D(k))
                          /\ Issued(E(k)) <=> ~IsNull(E(k))
      /\ IsNull(NullInstr) /\ ~Issued(NullInstr)
  BY <1>7, NullIsInstr DEF PastIssue, A, B, C, D, E, Boundaries, Fetched
<1> HIDE DEF go, flush
<1>9. \A k \in Pipes : /\ ~Issued(A(k)') /\ ~Issued(B(k)') /\ ~Issued(C(k)') /\ ~Issued(D(k)')
                       /\ Issued(E(k)') <=> ~IsNull(E(k)')
  BY <1>1, <1>6, <1>8 DEF Idles, Waits, Leaves
<1>10. \A b \in Boundaries, k \in Pipes :
         IF b \in Fetched THEN ~Issued(latch'[b][k]) /\ ~Issued(nlatch'[b][k])
         ELSE /\ Issued(latch'[b][k]) <=> ~IsNull(latch'[b][k])
              /\ Issued(nlatch'[b][k]) <=> ~IsNull(nlatch'[b][k])
  BY <1>1, <1>7, <1>9 DEF PastIssue, A, B, C, D, E, Boundaries, Fetched
<1>11. PastIssue'
  BY <1>10 DEF PastIssue, Issued, IsNull
<1>12. Roomy'
  <2>1. \A k \in Pipes : IsNull(A(k)') \/ IsNull(E(k)')
    BY <1>1, <1>6, <1>7, <1>8 DEF Roomy, Idles, Waits, Leaves
  <2>2. NoneAt(C(0)', C(1)') \/ NoneAt(B(0)', B(1)')
    BY <1>1, <1>2, <1>7, <1>8 DEF Roomy, NoneAt
  <2> QED
    BY <2>1, <2>2 DEF Roomy, NoneAt, IsNull
<1>13. Flags'
  <2>1. /\ Stuck' <=> flags[0] \/ flags[1]
        /\ stalled'["execute"][0] <=> flags[0]
    BY <1>4 DEF Stuck
  <2>2. CASE j = 0
    <3>1. IsNull(A(0)') \/ flags[0]
      BY <1>1, <1>2, <1>6, <1>8, <2>2 DEF Idles, Waits, Leaves
    <3>2. at'[1] = "execute" \/ NoneAt(A(0)', A(1)') \/ Stuck'
      <4>1. CASE go \/ flags[0]
        <5>1. at' = <<"execute", 1>>
          BY <1>1, <2>2, <4>1
        <5> QED
          BY <5>1
      <4>2. CASE ~go /\ ~flags[0]
        <5>1. Idles(j, i, flags) /\ IsNull(A(0))
          BY <1>6, <2>2, <4>2 DEF Idles
        <5>2. ~IsNull(E(0))
          BY <1>2, <2>2, <4>2 DEF go, Went, Goes, E
        <5>3. NoneAt(A(0), A(1)) \/ Stuck
          BY <1>7, <2>2, <5>2 DEF Flags, Before, NoneAt
        <5>4. NoneAt(A(0)', A(1)') \/ Stuck'
          BY <1>1, <1>2, <1>8, <2>1, <2>2, <5>1, <5>3 DEF Idles, NoneAt, Stuck
        <5> QED
          BY <5>4
      <4> QED
        BY <4>1, <4>2
    <3>3. (at'[1] = "execute" /\ at'[2] = 1) \/ at'[1] = "release"
      BY <1>1
    <3> QED
      BY <2>1, <3>1, <3>2, <3>3 DEF Flags, Before, IsNull
  <2>3. CASE j = 1
    <3>1. at'[1] = "release"
      BY <1>1, <2>3
    <3>2. IsNull(A(0)) \/ stalled["execute"][0]
      BY <1>7, <2>3 DEF Flags
    <3>3. NoneAt(A(0)', A(1)') \/ flags[0] \/ flags[1]
      BY <1>1, <1>2, <1>6, <1>8, <2>3, <3>2 DEF Idles, Waits, Leaves, NoneAt
    <3> QED
      BY <2>1, <3>1, <3>3 DEF Flags, Before
  <2> QED
    BY <1>2, <2>2, <2>3
<1> QED
  BY <1>1, <1>5, <1>11, <1>12, <1>13 DEF Structure, InOrder
-----------------------------------------------------------------------------
(***************************************************************************)
(* The stages behind execute hand on what has issued, with no change that  *)
(* the books would see.                                                    *)
(***************************************************************************)
Alike(i, o) ==
  /\ Instr(i) /\ i.type = o.type /\ i.pc = o.pc
  /\ Issued(i) <=> Issued(o)

\* memory and cache access change no fetched instruction, and issue none
LEMMA BackStageIs ==
  ASSUME Structure, NEW s \in {"mem", "ccache"}, NEW from \in Boundaries \ Fetched,
         NEW to \in Boundaries \ (Fetched \cup {"EX2MC"}), at[1] = s, at[2] \in Pipes, NEW i,
         NEW flags,
         Alike(i, latch[from][at[2]]), HandOn(s, from, to, at[2], i, flags, {}),
         DOMAIN flags = Pipes
  PROVE /\ Structure'
        /\ \A k \in Pipes : A(k)' = A(k) /\ B(k)' = B(k) /\ C(k)' = C(k) /\ D(k)' = D(k)
                            /\ E(k)' = E(k)
        /\ at'[1] \in {"mem", "fp", "ccache", "wb"}
        /\ \A b \in Boundaries, k \in Pipes :
             /\ latch'[b][k] = IF b = from /\ k = at[2]
                               THEN IF Goes(to, at[2], flags) THEN NullInstr ELSE i
                               ELSE latch[b][k]
             /\ nlatch'[b][k] = IF b = to /\ k = at[2] /\ Goes(to, at[2], flags) THEN i
                                ELSE nlatch[b][k]
        /\ Goes(to, at[2], flags) => IsNull(nlatch[to][at[2]])
<1> DEFINE j == at[2]
           go == Goes(to, j, flags)
<1>1. /\ Latches'
      /\ \A b \in Boundaries, k \in Pipes :
           /\ latch'[b][k] = IF b = from /\ k = j THEN IF go THEN NullInstr ELSE i
                             ELSE latch[b][k]
           /\ nlatch'[b][k] = IF b = to /\ k = j /\ go THEN i ELSE nlatch[b][k]
  <2>1. s \in Stages /\ from \in Boundaries /\ to \in Boundaries /\ Instr(i) /\ Latches
    BY DEF Stages, Alike, Structure
  <2> QED
    BY <2>1, HandOnIs
<1>2. /\ stalled' = [stalled EXCEPT ![s] = flags]
      /\ at' \in {<<s, 1>>, <<After[s], 0>>}
  BY DEF HandOn, Then
<1>3. at' \in {<<"mem", 1>>, <<"fp", 0>>, <<"ccache", 1>>, <<"wb", 0>>}
  BY <1>2 DEF After
<1>4. /\ at'[1] \in {"mem", "fp", "ccache", "wb"} /\ at'[2] \in Pipes
      /\ stalled'["execute"] = stalled["execute"] /\ DOMAIN stalled' = Stages
      /\ \A q \in Stages : DOMAIN stalled'[q] = Pipes
  BY <1>2, <1>3 DEF Structure, Control, Stages, Pipes
<1>6. go => IsNull(nlatch[to][j])
  BY DEF Goes
<1> HIDE DEF go
<1>7. \A k \in Pipes : A(k)' = A(k) /\ B(k)' = B(k) /\ C(k)' = C(k) /\ D(k)' = D(k) /\ E(k)' = E(k)
  BY <1>1 DEF A, B, C, D, E, Fetched, Boundaries
<1>8. Control'
  BY <1>4 DEF Structure, Control
<1>9. PastIssue /\ Roomy /\ Flags
  BY DEF Structure, InOrder
<1>10. Issued(i) <=> ~IsNull(i)
  BY <1>9 DEF Alike, PastIssue, IsNull
<1>11. \A b \in Boundaries, k \in Pipes :
         IF b \in Fetched THEN ~Issued(latch'[b][k]) /\ ~Issued(nlatch'[b][k])
         ELSE /\ Issued(latch'[b][k]) <=> ~IsNull(latch'[b][k])
              /\ Issued(nlatch'[b][k]) <=> ~IsNull(nlatch'[b][k])
  BY <1>1, <1>9, <1>10, NullIsInstr DEF PastIssue
<1>12. PastIssue'
  BY <1>11 DEF PastIssue, Issued, IsNull
<1>13. Roomy'
  BY <1>7, <1>9 DEF Roomy, NoneAt, IsNull, Pipes
<1>14. Flags'
  <2>1. NoneAt(A(0), A(1)) \/ Stuck
    BY <1>9 DEF Flags
  <2>2. NoneAt(A(0), A(1))' \/ Stuck'
    BY <1>4, <1>7, <2>1 DEF NoneAt, IsNull, Stuck, Pipes
  <2> QED
    BY <1>4, <2>2 DEF Flags, Before
<1> QED
  BY <1>1, <1>4, <1>6, <1>7, <1>8, <1>12, <1>13, <1>14 DEF Structure, InOrder, go
-----------------------------------------------------------------------------
(***************************************************************************)
(* Which of these each action is.                                          *)
(***************************************************************************)
Books == <<prog, ring, units, ports, moved, front, fixup, btb, sync>>

\* the flags of the other pipe stay, and so do those of a pipe that is empty
Tells(s, j, i, flags) ==
  /\ DOMAIN flags = Pipes
  /\ j = 1 => flags[0] = stalled[s][0]
  /\ s = "mem" /\ j = 0 => /\ flags[1] = stalled[s][1]
                           /\ IsNull(i) => flags[0] = stalled[s][0]

BackStage(s, from, to, i, flags) ==
  /\ at[1] = s
  /\ Alike(i, latch[from][at[2]])
  /\ HandOn(s, from, to, at[2], i, flags, {})
  /\ Tells(s, at[2], latch[from][at[2]], flags)
  /\ UNCHANGED Books
  /\ UNCHANGED board \/ board' = Upgraded(latch[from][at[2]])

\* an empty place accesses nothing
LEMMA NullAccessesNothing == "NULL" \notin Accesses
BY DEF Accesses, CanStall, AtOnce, WaitsForLoad, Loads, Stores, Broadcasts, Prefetches, Barriers,
       LineWrites, Globals, IsGlobal, QueueTypes

\* every action of the memory stage is a step of a back stage
LEMMA MemIs ==
  ASSUME Structure, MemPasses \/ MemStalls \/ MemSchedules \/ MemServes
  PROVE \E i, flags : BackStage("mem", "EX2MC", "MC2FP", i, flags)
<1> DEFINE i == latch["EX2MC"][at[2]]
<1>1. at[2] \in Pipes /\ Instr(i)
  BY DEF Structure, Control, Latches, Latched, Boundaries
<1>2. Alike(i, i) /\ \A s \in Stages : DOMAIN stalled[s] = Pipes
  BY <1>1 DEF Alike, Structure, Control
<1> DEFINE Flag(b) == Flagged("mem", at[2], b)
<1>0. /\ Tells("mem", at[2], i, stalled["mem"])
      /\ \A b \in BOOLEAN : InMemory => Tells("mem", at[2], i, Flag(b))
  BY <1>1, <1>2, NullAccessesNothing DEF Tells, Flagged, InMemory, IsNull, Pipes, Stages
<1>3. CASE MemPasses
  <2>1. BackStage("mem", "EX2MC", "MC2FP", i, stalled["mem"])
    BY <1>0, <1>2, <1>3 DEF MemPasses, BackStage, Memory, aroundMemory, Books
  <2> QED BY <2>1
<1>4. CASE MemStalls
  <2>1. BackStage("mem", "EX2MC", "MC2FP", i, Flag(TRUE))
    BY <1>0, <1>2, <1>4 DEF MemStalls, InMemory, BackStage, Memory, aroundMemory, Books
  <2> QED BY <2>1
<1>5. CASE MemSchedules
  <2>1. BackStage("mem", "EX2MC", "MC2FP", i, Flag(FALSE))
    BY <1>0, <1>2, <1>5 DEF MemSchedules, InMemory, BackStage, Memory, aroundMemory, Books
  <2> QED BY <2>1
<1>6. CASE MemServes
  <2> DEFINE done == i.done
                     \cup (IF i.type \in Barriers THEN {} ELSE {"Mem"})
                     \cup (IF i.type \in Loads \cup Prefetches THEN {"CC"} ELSE {})
             o == [i EXCEPT !.done = done]
  <2>1. Alike(o, i)
    <3>1. "Exec" \in done <=> "Exec" \in i.done
      OBVIOUS
    <3> HIDE DEF done
    <3>2. Instr(o) /\ o.type = i.type /\ o.pc = i.pc /\ o.done = done
      BY <1>1 DEF Instr, InstrFields
    <3> QED
      BY <3>1, <3>2 DEF Alike, Issued
  <2>2. BackStage("mem", "EX2MC", "MC2FP", o, Flag(FALSE))
    BY <1>0, <1>6, <2>1 DEF MemServes, InMemory, BackStage, Memory, aroundMemory, Books
  <2> QED BY <2>2
<1> QED
  BY <1>3, <1>4, <1>5, <1>6

\* and so is every action of the cache access stage
LEMMA CacheIs ==
  ASSUME Structure, CachePasses \/ CacheStalls \/ CacheServes
  PROVE \E i, flags : BackStage("ccache", "FP2CC", "CC2WB", i, flags)
<1> DEFINE i == latch["FP2CC"][at[2]]
<1>1. at[2] \in Pipes /\ Instr(i)
  BY DEF Structure, Control, Latches, Latched, Boundaries
<1>2. Alike(i, i) /\ \A s \in Stages : DOMAIN stalled[s] = Pipes
  BY <1>1 DEF Alike, Structure, Control
<1>0. /\ Tells("ccache", at[2], i, CacheFlags)
      /\ \A b \in BOOLEAN : Tells("ccache", at[2], i, [CacheFlags EXCEPT ![at[2]] = b])
  <2>1. DOMAIN stalled["ccache"] = Pipes /\ Pipes = {0, 1}
    BY <1>2 DEF Stages, Pipes
  <2>2. DOMAIN CacheFlags = Pipes /\ (at[2] = 1 => CacheFlags = stalled["ccache"])
    BY <2>1 DEF CacheFlags
  <2> QED
    BY <1>1, <2>1, <2>2 DEF Tells
<1>3. CASE CachePasses
  <2>1. BackStage("ccache", "FP2CC", "CC2WB", i, CacheFlags)
    BY <1>0, <1>2, <1>3 DEF CachePasses, BackStage, CacheAccess, aroundMemory, Books
  <2> QED BY <2>1
<1>4. CASE CacheStalls
  <2>1. BackStage("ccache", "FP2CC", "CC2WB", i, [CacheFlags EXCEPT ![at[2]] = TRUE])
    BY <1>0, <1>2, <1>4 DEF CacheStalls, Waiting, BackStage, CacheAccess, aroundMemory, Books
  <2> QED BY <2>1
<1>5. CASE CacheServes
  <2> DEFINE o == [i EXCEPT !.done = @ \cup {"CC"}]
  <2>1. Alike(o, i)
    <3>1. Instr(o) /\ o.type = i.type /\ o.pc = i.pc /\ o.done = i.done \cup {"CC"}
      BY <1>1 DEF Instr, InstrFields
    <3> QED
      BY <3>1 DEF Alike, Issued
  <2>2. BackStage("ccache", "FP2CC", "CC2WB", o, [CacheFlags EXCEPT ![at[2]] = FALSE])
    BY <1>0, <1>5, <2>1 DEF CacheServes, Waiting, BackStage, CacheAccess, aroundMemory, Books
  <2> QED BY <2>2
<1> QED
  BY <1>3, <1>4, <1>5

\* what the books see of an execute step
IdleStep(j, i, flags, slots) ==
  /\ Idles(j, i, flags) /\ slots = ring
  /\ UNCHANGED <<units, ports, board>>
WaitStep(j, i, flags, slots) ==
  /\ Waits(j, i, flags) /\ slots = ring
  /\ i.slot = A(j).slot /\ i.type = A(j).type
  /\ UNCHANGED <<units, ports>>
  /\ UNCHANGED board \/ board' = Checked(A(j))
RestartStep(j, i, flags, slots) ==
  /\ Leaves(j, i, flags) /\ slots = Freed(A(j).slot)
  /\ i.type = "DONE" /\ sync.ack
  /\ UNCHANGED <<units, ports, board>>
IssueStep(j, i, flags, slots) ==
  /\ Leaves(j, i, flags) /\ slots = Freed(A(j).slot)
  /\ i.type \in Outcomes(A(j))
  /\ units' = [units EXCEPT ![Unit(A(j).type)] = @ - 1]
  /\ ports' = ports - Ports(A(j))
  /\ board' = Claimed(A(j))
ExecuteStep(i, flags, slots, waiting) ==
  /\ at[1] = "execute" /\ Instr(i)
  /\ MovesOn(at[2], i, flags, slots, waiting)
  /\ i.pc = A(at[2]).pc
  /\ UNCHANGED <<prog, front, btb>>
  /\ UNCHANGED sync \/ sync.ack \/ A(at[2]).type = "SYNC"
  /\ UNCHANGED fixup \/ \E next \in Targets(prog, A(at[2]).pc, A(at[2]).type) :
                         fixup' = [needed |-> TRUE, pc |-> next, branch |-> A(at[2]).pc]
  /\ \/ IdleStep(at[2], i, flags, slots) \/ WaitStep(at[2], i, flags, slots)
     \/ RestartStep(at[2], i, flags, slots) \/ IssueStep(at[2], i, flags, slots)

\* every action of execute is one of its four kinds of step
LEMMA ExecuteIs ==
  ASSUME Structure, ExecuteIdle \/ ExecuteStalls \/ Restart \/ Issue
  PROVE \E i, flags, slots, waiting : ExecuteStep(i, flags, slots, waiting)
<1> DEFINE j == at[2]
           i == latch["DC2EX"][j]
<1>1. j \in Pipes /\ Instr(i) /\ i = A(j)
  BY DEF Structure, Control, Latches, Latched, Boundaries, A
<1>2. ~Issued(i)
  BY <1>1 DEF Structure, InOrder, PastIssue, Boundaries, Fetched
<1>3. CASE ExecuteIdle
  <2>1. Idles(j, i, stalled["execute"])
    BY <1>1, <1>2, <1>3 DEF ExecuteIdle, Idles, Behind
  <2>2. ExecuteStep(i, stalled["execute"], ring, clearing)
    BY <1>1, <1>3, <2>1 DEF ExecuteIdle, ExecuteStep, IdleStep
  <2> QED BY <2>2
<1>4. CASE ExecuteStalls
  <2> DEFINE reads == ~SyncWaits /\ UnitFree(i)
             o == IF reads THEN Ticked(i) ELSE i
             flags == Flagged("execute", j, TRUE)
             waiting == IF reads /\ Settles(i) THEN clearing \ FilesRead(i) ELSE clearing
  <2>1. /\ at[1] = "execute" /\ ~IsNull(i) /\ ~Behind("execute", j)
        /\ board' = IF reads THEN Checked(i) ELSE board
        /\ MovesOn(j, o, flags, ring, waiting)
        /\ UNCHANGED <<prog, units, ports, front, fixup, btb, sync>>
    BY <1>4 DEF ExecuteStalls
  <2>2. o = i \/ o = [i EXCEPT !.vec = @ - 1]
    BY DEF Ticked
  <2> HIDE DEF o, reads, waiting
  <2>3. Instr(o) /\ o.type = i.type /\ o.slot = i.slot /\ o.done = i.done
        /\ o.pc = i.pc
    BY <1>1, <2>2 DEF Instr, InstrFields
  <2>4. ~IsNull(o) /\ ~Issued(o)
    BY <1>2, <2>1, <2>3 DEF IsNull, Issued
  <2>5. Waits(j, o, flags)
    BY <1>1, <2>1, <2>4 DEF Waits, Behind, Flagged
  <2>6. ExecuteStep(o, flags, ring, waiting)
    BY <1>1, <2>1, <2>3, <2>5 DEF ExecuteStep, WaitStep
  <2> QED BY <2>6
<1>5. CASE Restart
  <2> DEFINE o == [i EXCEPT !.type = "DONE", !.done = {"Exec"}, !.mispredict = TRUE]
             flags == Flagged("execute", j, FALSE)
  <2>1. /\ at[1] = "execute" /\ ~IsNull(i) /\ ~Behind("execute", j)
        /\ MovesOn(j, o, flags, Freed(i.slot), clearing)
        /\ UNCHANGED <<prog, units, ports, board, front, fixup, btb>> /\ sync.ack
    BY <1>5 DEF Restart
  <2>2. Instr(o) /\ o.type = "DONE" /\ o.done = {"Exec"} /\ o.pc = i.pc
    BY <1>1 DEF Instr, InstrFields
  <2> HIDE DEF o
  <2>3. ~IsNull(o) /\ Issued(o)
    BY <2>2 DEF IsNull, Issued
  <2>4. Leaves(j, o, flags)
    BY <1>1, <2>1, <2>3 DEF Leaves, Behind, Flagged
  <2>5. ExecuteStep(o, flags, Freed(i.slot), clearing)
    BY <1>1, <2>1, <2>2, <2>4 DEF ExecuteStep, RestartStep
  <2> QED BY <2>5
<1>6. CASE Issue
  <2> DEFINE flags == Flagged("execute", j, FALSE)
             waiting == IF Settles(i) THEN clearing \ FilesRead(i) ELSE clearing
             o(next, type) == [i EXCEPT !.type = type, !.done = {"Exec"}, !.vec = 0,
                                        !.mispredict = (next # i.pred), !.parity = arch.parity]
  <2>1. /\ at[1] = "execute" /\ ~IsNull(i) /\ ~Behind("execute", j)
        /\ units' = [units EXCEPT ![Unit(i.type)] = @ - 1]
        /\ ports' = ports - Ports(i)
        /\ board' = Claimed(i)
        /\ UNCHANGED <<prog, front, btb>> /\ (UNCHANGED sync \/ i.type = "SYNC")
    BY <1>6 DEF Issue
  <2>2. PICK next \in Targets(prog, i.pc, i.type), type \in Outcomes(i) :
               /\ MovesOn(j, o(next, type), flags, Freed(i.slot), waiting)
               /\ fixup' = IF next # i.pred
                           THEN [needed |-> TRUE, pc |-> next, branch |-> i.pc] ELSE fixup
    BY <1>6 DEF Issue
  <2> DEFINE p == o(next, type)
  <2>3. Instr(p) /\ p.type = type /\ p.done = {"Exec"} /\ p.pc = i.pc
    BY <1>1 DEF Instr, InstrFields
  <2>4. type # "NULL"
    BY <2>1 DEF Outcomes, IsNull
  <2>5. MovesOn(j, p, flags, Freed(i.slot), waiting)
    BY <2>2
  <2> HIDE DEF p, waiting
  <2>6. ~IsNull(p) /\ Issued(p)
    BY <2>3, <2>4 DEF IsNull, Issued
  <2>7. Leaves(j, p, flags)
    BY <1>1, <2>1, <2>6 DEF Leaves, Behind, Flagged
  <2>8. IssueStep(j, p, flags, Freed(i.slot))
    BY <1>1, <2>1, <2>2, <2>3, <2>7 DEF IssueStep
  <2>9. ExecuteStep(p, flags, Freed(i.slot), waiting)
    BY <1>1, <2>1, <2>2, <2>3, <2>5, <2>8 DEF ExecuteStep
  <2> QED BY <2>9
<1> QED
  BY <1>3, <1>4, <1>5, <1>6

\* a stage that passes everything on
LEMMA FpCompleteIs ==
  ASSUME Structure, FpComplete
  PROVE /\ Latches' /\ UNCHANGED Books /\ UNCHANGED <<board, stalled>>
        /\ at' = <<"ccache", 0>>
        /\ \A b \in Boundaries, k \in Pipes :
             LET Moves == IsNull(nlatch["FP2CC"][0]) /\ (k = 0 \/ IsNull(nlatch["FP2CC"][1]))
             IN /\ latch'[b][k] = IF b = "MC2FP" /\ Moves THEN NullInstr ELSE latch[b][k]
                /\ nlatch'[b][k] = IF b = "FP2CC" /\ Moves THEN latch["MC2FP"][k]
                                   ELSE nlatch[b][k]
<1>1. Passed("MC2FP", "FP2CC", latch["MC2FP"]) /\ Latches /\ at' = <<"ccache", 0>>
  BY DEF FpComplete, Structure, Then
<1>2. \A k \in Pipes : Instr(latch["MC2FP"][k])
  BY <1>1 DEF Latches, Latched, Boundaries
<1>3. "MC2FP" \in Boundaries /\ "FP2CC" \in Boundaries
  BY DEF Boundaries
<1>4. UNCHANGED Books /\ UNCHANGED <<board, stalled>>
  BY DEF FpComplete, Books
<1> QED
  BY <1>1, <1>2, <1>3, <1>4, PassedIs

\* decode gives each instruction the type of its word and keeps its slot
LEMMA DecodeIs ==
  ASSUME Structure, Addressed, Decode
  PROVE /\ Latches' /\ UNCHANGED <<prog, ring, units, ports, board, stalled, front, fixup, btb>>
        /\ moved' = {}
        /\ at' = <<"execute", 0>>
        /\ \A b \in Boundaries, k \in Pipes :
             LET Moves == IsNull(nlatch["DC2EX"][0]) /\ (k = 0 \/ IsNull(nlatch["DC2EX"][1]))
             IN /\ latch'[b][k] = IF b = "IF2DC" /\ Moves THEN NullInstr ELSE latch[b][k]
                /\ nlatch'[b][k] = IF b = "DC2EX" /\ Moves THEN SimDecode(latch["IF2DC"][k])
                                   ELSE nlatch[b][k]
        /\ \A k \in Pipes : /\ IsNull(C(k)) \/ SimDecode(C(k)).type = Decoded(C(k)).type
                            /\ SimDecode(C(k)).slot = C(k).slot
                            /\ SimDecode(C(k)).done = C(k).done
                            /\ SimDecode(C(k)).pc = C(k).pc
                            /\ IsNull(C(k)) <=> IsNull(SimDecode(C(k)))
<1> DEFINE out == [j \in Pipes |-> SimDecode(latch["IF2DC"][j])]
<1>1. Passed("IF2DC", "DC2EX", out) /\ Latches /\ at' = <<"execute", 0>>
  BY DEF Decode, Structure, Then
<1>2. \A k \in Pipes : Instr(latch["IF2DC"][k])
  BY <1>1 DEF Latches, Latched, Boundaries
<1>3. ASSUME NEW k \in Pipes
      PROVE /\ Instr(SimDecode(C(k))) /\ SimDecode(C(k)).slot = C(k).slot
            /\ SimDecode(C(k)).done = C(k).done
            /\ SimDecode(C(k)).pc = C(k).pc
            /\ IsNull(C(k)) \/ SimDecode(C(k)).type = Decoded(C(k)).type
            /\ IsNull(C(k)) <=> IsNull(SimDecode(C(k)))
  <2>1. Decoded(C(k)).type # "NULL"
    <3>1. C(k).pc \in DOMAIN prog /\ prog \in Programs
      BY DEF Addressed, C, Boundaries
    <3> QED
      BY <3>1, ProgramsAreClosed, NullDecodesFromNothing DEF Decoded
  <2>2. Instr(C(k))
    BY <1>2 DEF C
  <2>3. CASE IsNull(C(k))
    BY <2>2, <2>3 DEF SimDecode
  <2>4. CASE ~IsNull(C(k))
    <3> DEFINE t == Decoded(C(k)).type
    <3>1. SimDecode(C(k)) = [C(k) EXCEPT !.type = t, !.vec = IF t \in VectorTypes THEN 4 ELSE 0]
      BY <2>4 DEF SimDecode
    <3> HIDE DEF t
    <3>2. /\ Instr(SimDecode(C(k))) /\ SimDecode(C(k)).slot = C(k).slot
          /\ SimDecode(C(k)).done = C(k).done /\ SimDecode(C(k)).pc = C(k).pc
          /\ SimDecode(C(k)).type = t
      BY <2>2, <3>1 DEF Instr, InstrFields
    <3> QED
      BY <2>1, <2>4, <3>2 DEF t, IsNull
  <2> QED
    BY <2>3, <2>4
<1>4. "IF2DC" \in Boundaries /\ "DC2EX" \in Boundaries
  BY DEF Boundaries
<1>5. UNCHANGED <<prog, ring, units, ports, board, stalled, front, fixup, btb>> /\ moved' = {}
  BY DEF Decode
<1>6. \A k \in Pipes : out[k] = SimDecode(latch["IF2DC"][k]) /\ Instr(out[k])
  BY <1>3 DEF C
<1> HIDE DEF out
<1> QED
  BY <1>1, <1>3, <1>4, <1>5, <1>6, PassedIs DEF C
-----------------------------------------------------------------------------
(***************************************************************************)
(* Addresses.                                                              *)
(***************************************************************************)
LEMMA NextAddresses ==
  ASSUME prog \in Programs, NEW a \in DOMAIN prog
  PROVE /\ Follows(prog, a) \in DOMAIN prog
        /\ \A type : Targets(prog, a, type) \subseteq DOMAIN prog
<1>1. /\ Top(prog) \in Nat \ {0} /\ DOMAIN prog = 0 .. Top(prog)
      /\ prog[a].target \in DOMAIN prog
  BY ProgramsAreClosed
<1>2. Follows(prog, a) \in DOMAIN prog
  BY <1>1 DEF Follows
<1> QED
  BY <1>1, <1>2 DEF Targets

\* the branch target buffer holds addresses of the program
Buffered(t) == \A a \in DOMAIN t : {"target", "state"} \subseteq DOMAIN t[a]
                                   /\ t[a].target \in DOMAIN prog

\* what the target buffer learns is an address of the program
LEMMA BtbHoldsAddresses ==
  ASSUME Addressed
  PROVE /\ Buffered(Corrected)
        /\ \A a \in DOMAIN Corrected : Buffered(BtbAccess(Corrected, a))
        /\ Redirected.next \in DOMAIN prog
<1>1. Buffered(btb) /\ front.next \in DOMAIN prog /\ fixup.pc \in DOMAIN prog
  BY DEF Addressed, Buffered
<1>2. ASSUME NEW a, NEW target \in DOMAIN prog
      PROVE Buffered(BtbSet(a, target))
  <2>1. CASE a \in DOMAIN btb /\ btb[a].state > 0
    BY <1>1, <2>1 DEF Buffered, BtbSet
  <2>2. CASE ~(a \in DOMAIN btb /\ btb[a].state > 0)
    <3>1. BtbSet(a, target) = [x \in DOMAIN btb \cup {a} |->
                                 IF x = a THEN [target |-> target, state |-> 1] ELSE btb[x]]
      BY <2>2 DEF BtbSet
    <3> QED
      BY <1>1, <1>2, <3>1 DEF Buffered
  <2> QED
    BY <2>1, <2>2
<1>3. Buffered(Corrected)
  BY <1>1, <1>2 DEF Corrected
<1>4. \A a \in DOMAIN Corrected : Buffered(BtbAccess(Corrected, a))
  BY <1>3 DEF Buffered, BtbAccess
<1>5. Redirected.next \in DOMAIN prog
  BY <1>1 DEF Redirected
<1> QED
  BY <1>3, <1>4, <1>5

\* An instruction that fetch has put into a slot of the list.
Fresh(i, slot) ==
  ~IsNull(i) /\ ~Issued(i) /\ Instr(i) /\ i.slot = slot /\ i.pc \in DOMAIN prog

\* a fetched instruction is in its slot and has done nothing yet
LEMMA PreDecodeIsFresh ==
  ASSUME NEW a \in DOMAIN prog, NEW pred, NEW slot
  PROVE Fresh(PreDecode(a, pred, slot), slot)
BY DEF Fresh, PreDecode, NullInstr, Instr, InstrFields, IsNull, Issued

Added(r, first, second) ==
  LET slotB == (r.head + (IF first THEN 1 ELSE 0)) % RingLength
  IN [slots |-> [k \in DOMAIN r.slots |-> \/ r.slots[k]
                                          \/ first /\ k = r.head
                                          \/ second /\ k = slotB],
      head |-> (slotB + (IF second THEN 1 ELSE 0)) % RingLength]

\* a fetched line is at most two instructions, in the next slots of the list
LEMMA FetchLineIs ==
  ASSUME Structure, Addressed, FetchLine
  PROVE /\ Latches' /\ latch' = latch
        /\ \A b \in Boundaries, k \in Pipes : b # "IF2DC" => nlatch'[b][k] = nlatch[b][k]
        /\ D(0) = NullInstr /\ D(1) = NullInstr
        /\ \E first, second \in BOOLEAN :
             /\ IF first THEN Fresh(D(0)', ring.head) ELSE D(0)' = NullInstr
             /\ IF second
                THEN Fresh(D(1)', (ring.head + (IF first THEN 1 ELSE 0)) % RingLength)
                ELSE D(1)' = NullInstr
             /\ ring' = Added(ring, first, second)
        /\ front'.next \in DOMAIN prog
        /\ {"needed", "pc"} \subseteq DOMAIN fixup' /\ fixup'.pc = fixup.pc
        /\ Buffered(btb')
        /\ at' = <<"decode", 0>> /\ at[1] = "fetch"
        /\ UNCHANGED <<prog, units, ports, board, stalled, moved>>
<1> DEFINE next   == Redirected.next
           single == Redirected.unaligned
           b      == IF single THEN next ELSE Follows(prog, next)
           Hits(a) == ~single /\ a \in DOMAIN Corrected
           hit    == IF Hits(next) THEN next ELSE b
           taken  == Hits(next) \/ Hits(b)
           target == IF taken THEN Corrected[hit].target ELSE Follows(prog, b)
           first  == ~single
           second == ~Hits(next)
           slotB  == (ring.head + (IF first THEN 1 ELSE 0)) % RingLength
           d0 == IF first
                 THEN PreDecode(next, IF Hits(next) THEN target ELSE Follows(prog, next), ring.head)
                 ELSE NullInstr
           d1 == IF second THEN PreDecode(b, target, slotB) ELSE NullInstr
           line == Pair(d0, d1)
<1>1. /\ at[1] = "fetch" /\ nlatch["IF2DC"] = Empty
      /\ fixup' = [fixup EXCEPT !.needed = FALSE]
      /\ front' = [next |-> target, unaligned |-> taken /\ target % 2 = 1]
      /\ btb' = IF taken THEN BtbAccess(Corrected, hit) ELSE Corrected
      /\ nlatch' = [nlatch EXCEPT !["IF2DC"] = line]
      /\ ring' = Added(ring, first, second)
      /\ at' = <<"decode", 0>>
      /\ UNCHANGED <<prog, latch, units, ports, board, stalled, moved>>
  BY DEF FetchLine, Added, behindFetch, Then
<1>2. /\ prog \in Programs /\ next \in DOMAIN prog
      /\ Buffered(Corrected) /\ \A a \in DOMAIN Corrected : Buffered(BtbAccess(Corrected, a))
      /\ {"needed", "pc"} \subseteq DOMAIN fixup
  BY BtbHoldsAddresses DEF Addressed
<1> HIDE DEF next, single
<1>3. b \in DOMAIN prog
  BY <1>2, NextAddresses
<1> HIDE DEF b
<1>4. target \in DOMAIN prog
  BY <1>2, <1>3, NextAddresses DEF Buffered
<1>5. taken => hit \in DOMAIN Corrected
  OBVIOUS
<1> HIDE DEF target
<1>6. IF first THEN Fresh(d0, ring.head) ELSE d0 = NullInstr
  BY <1>2, PreDecodeIsFresh
<1>7. IF second THEN Fresh(d1, slotB) ELSE d1 = NullInstr
  BY <1>3, PreDecodeIsFresh
<1> HIDE DEF d0, d1, hit, taken
<1>8. DOMAIN line = Pipes /\ line[0] = d0 /\ line[1] = d1
  BY DEF Pair, Pipes
<1> HIDE DEF line
<1>9. Instr(d0) /\ Instr(d1)
  BY <1>6, <1>7, NullIsInstr DEF Fresh
<1>10. Latched(latch) /\ Latched(nlatch) /\ "IF2DC" \in Boundaries
  BY DEF Structure, Latches, Boundaries
<1>11. /\ DOMAIN nlatch' = Boundaries /\ nlatch'["IF2DC"] = line
       /\ \A c \in Boundaries : c # "IF2DC" => nlatch'[c] = nlatch[c]
  BY <1>1, <1>10 DEF Latched
<1>12. \A c \in Boundaries : DOMAIN nlatch'[c] = Pipes /\ \A k \in Pipes : Instr(nlatch'[c][k])
  BY <1>8, <1>9, <1>10, <1>11 DEF Latched, Pipes
<1>13. Latches'
  BY <1>1, <1>10, <1>11, <1>12 DEF Latches, Latched
<1>14. D(0)' = d0 /\ D(1)' = d1
  BY <1>8, <1>11 DEF D
<1>15. D(0) = NullInstr /\ D(1) = NullInstr
  BY <1>1 DEF D, Empty, Pair, Pipes
<1>16. front'.next \in DOMAIN prog /\ Buffered(btb')
  BY <1>1, <1>2, <1>4, <1>5 DEF Buffered
<1>17. {"needed", "pc"} \subseteq DOMAIN fixup' /\ fixup'.pc = fixup.pc
  BY <1>1, <1>2
<1>18. first \in BOOLEAN /\ second \in BOOLEAN
  OBVIOUS
<1> HIDE DEF first, second
<1>19. \E f, s \in BOOLEAN :
         /\ IF f THEN Fresh(D(0)', ring.head) ELSE D(0)' = NullInstr
         /\ IF s THEN Fresh(D(1)', (ring.head + (IF f THEN 1 ELSE 0)) % RingLength)
                 ELSE D(1)' = NullInstr
         /\ ring' = Added(ring, f, s)
  BY <1>1, <1>6, <1>7, <1>14, <1>18
<1> QED
  BY <1>1, <1>11, <1>13, <1>15, <1>16, <1>17, <1>19
-----------------------------------------------------------------------------
(***************************************************************************)
(* The latches, the stall flags and the addresses in every state.          *)
(***************************************************************************)
LEMMA NullIsAddressed ==
  ASSUME prog \in Programs
  PROVE NullInstr.pc \in DOMAIN prog /\ 0 \in DOMAIN prog
BY ProgramsAreClosed DEF NullInstr

\* the core starts empty, within its program
LEMMA InitHolds == Init => Structure /\ Addressed
<1> SUFFICES ASSUME Init PROVE Structure /\ Addressed
  OBVIOUS
<1>1. \A b \in Boundaries, k \in Pipes : latch[b][k] = NullInstr /\ nlatch[b][k] = NullInstr
  BY DEF Init, Empty, Pair
<1>2. Latches
  BY <1>1, NullIsInstr DEF Latches, Latched, Init, Empty, Pair
<1>3. Control
  BY DEF Init, Control, Pipes, Stages
<1>4. PastIssue
  BY <1>1, NullIsInstr DEF PastIssue
<1>5. \A k \in Pipes : A(k) = NullInstr /\ B(k) = NullInstr /\ C(k) = NullInstr /\ E(k) = NullInstr
  BY <1>1 DEF A, B, C, E, Boundaries
<1>6. Roomy /\ Flags
  BY <1>5, NullIsInstr DEF Roomy, Flags, Before, NoneAt, Pipes, Init
<1>7. Addressed
  BY <1>1, NullIsAddressed DEF Addressed, Init
<1> QED
  BY <1>2, <1>3, <1>4, <1>6, <1>7 DEF Structure, InOrder

\* a step that moves no instruction
LEMMA StillKeepsStructure ==
  ASSUME Structure, UNCHANGED <<latch, nlatch, stalled>>, at'[2] \in Pipes,
         \/ at[1] = "fetch" /\ at'[1] = "decode"
         \/ at[1] = "release" /\ at'[1] = "mem"
  PROVE Structure'
<1>1. Latches' /\ PastIssue' /\ Roomy' /\ (Stuck' <=> Stuck) /\ A(0)' = A(0) /\ A(1)' = A(1)
      /\ E(0)' = E(0) /\ E(1)' = E(1)
  BY DEF Structure, InOrder, Latches, Latched, PastIssue, Roomy, NoneAt, Stuck, A, B, C, E,
         Issued, IsNull
<1>2. Control'
  BY DEF Structure, Control
<1>3. Flags'
  BY <1>1 DEF Structure, InOrder, Flags, Before, NoneAt, IsNull, Stuck
<1> QED
  BY <1>1, <1>2, <1>3 DEF Structure, InOrder

\* the stages that come after execute see only that it is not behind
LEMMA OthersKeepStructure ==
  ASSUME Structure, Latches', at'[2] \in Pipes, UNCHANGED stalled,
         \A b \in Boundaries, k \in Pipes :
           IF b \in Fetched THEN latch'[b][k] = latch[b][k] /\ nlatch'[b][k] = nlatch[b][k]
           ELSE /\ Issued(latch'[b][k]) <=> ~IsNull(latch'[b][k])
                /\ Issued(nlatch'[b][k]) <=> ~IsNull(nlatch'[b][k]),
         \A k \in Pipes : E(k)' = E(k),
         at[1] \notin {"fetch", "decode", "execute"},
         at'[1] \notin {"fetch", "decode", "execute"}
  PROVE Structure'
<1>1. \A k \in Pipes : A(k)' = A(k) /\ B(k)' = B(k) /\ C(k)' = C(k) /\ D(k)' = D(k)
  BY DEF A, B, C, D, Fetched, Boundaries
<1>2. \A b \in Boundaries, k \in Pipes :
         IF b \in Fetched THEN ~Issued(latch'[b][k]) /\ ~Issued(nlatch'[b][k])
         ELSE /\ Issued(latch'[b][k]) <=> ~IsNull(latch'[b][k])
              /\ Issued(nlatch'[b][k]) <=> ~IsNull(nlatch'[b][k])
  BY DEF Structure, InOrder, PastIssue
<1>3. PastIssue'
  BY <1>2 DEF PastIssue, Issued, IsNull
<1>4. Roomy'
  BY <1>1 DEF Structure, InOrder, Roomy, NoneAt, IsNull, Pipes
<1>5. Flags'
  BY <1>1 DEF Structure, InOrder, Flags, Before, NoneAt, IsNull, Stuck, Pipes
<1>6. Control'
  BY DEF Structure, Control
<1> QED
  BY <1>3, <1>4, <1>5, <1>6 DEF Structure, InOrder

\* fetch fills only an empty place
LEMMA FetchLineKeepsStructure ==
  ASSUME Structure, Addressed, FetchLine
  PROVE Structure'
<1>1. /\ Latches' /\ latch' = latch /\ UNCHANGED stalled
      /\ \A b \in Boundaries, k \in Pipes : b # "IF2DC" => nlatch'[b][k] = nlatch[b][k]
      /\ at' = <<"decode", 0>> /\ at[1] = "fetch"
      /\ \E first, second \in BOOLEAN :
           /\ IF first THEN Fresh(D(0)', ring.head) ELSE D(0)' = NullInstr
           /\ IF second
              THEN Fresh(D(1)', (ring.head + (IF first THEN 1 ELSE 0)) % RingLength)
              ELSE D(1)' = NullInstr
  BY FetchLineIs
<1>2. ~Issued(D(0)') /\ ~Issued(D(1)')
  BY <1>1, NullIsInstr DEF Fresh
<1>3. \A k \in Pipes : /\ A(k)' = A(k) /\ B(k)' = B(k) /\ C(k)' = C(k) /\ E(k)' = E(k)
  BY <1>1 DEF A, B, C, E, Boundaries
<1>4. \A b \in Boundaries, k \in Pipes :
         IF b \in Fetched THEN ~Issued(latch'[b][k]) /\ ~Issued(nlatch'[b][k])
         ELSE /\ Issued(latch'[b][k]) <=> ~IsNull(latch'[b][k])
              /\ Issued(nlatch'[b][k]) <=> ~IsNull(nlatch'[b][k])
  BY <1>1, <1>2 DEF Structure, InOrder, PastIssue, Fetched, D, Pipes
<1>5. PastIssue'
  BY <1>4 DEF PastIssue, Issued, IsNull
<1>6. Roomy'
  BY <1>3 DEF Structure, InOrder, Roomy, NoneAt, IsNull, Pipes
<1>7. Flags'
  BY <1>1, <1>3 DEF Structure, InOrder, Flags, Before, NoneAt, IsNull, Stuck, Pipes
<1>8. Control'
  BY <1>1 DEF Structure, Control, Pipes
<1> QED
  BY <1>1, <1>5, <1>6, <1>7, <1>8 DEF Structure, InOrder

\* decode fills only an empty place, and empties its own
LEMMA DecodeKeepsStructure ==
  ASSUME Structure, Addressed, Decode
  PROVE /\ Structure'
        /\ \A k \in Pipes : A(k)' = A(k) /\ D(k)' = D(k) /\ E(k)' = E(k)
        /\ \/ /\ NoneAt(B(0), B(1))
              /\ \A k \in Pipes : B(k)' = SimDecode(C(k)) /\ C(k)' = NullInstr
           \/ /\ NoneAt(C(0), C(1))
              /\ \A k \in Pipes : /\ B(k)' = B(k) \/ (IsNull(B(k)') /\ IsNull(B(k)))
                                  /\ IsNull(C(k)')
<1> DEFINE Moves(k) == IsNull(B(0)) /\ (k = 0 \/ IsNull(B(1)))
<1>1. /\ Latches' /\ UNCHANGED stalled /\ at' = <<"execute", 0>>
      /\ \A b \in Boundaries, k \in Pipes :
           /\ latch'[b][k] = IF b = "IF2DC" /\ Moves(k) THEN NullInstr ELSE latch[b][k]
           /\ nlatch'[b][k] = IF b = "DC2EX" /\ Moves(k) THEN SimDecode(C(k)) ELSE nlatch[b][k]
      /\ \A k \in Pipes : /\ SimDecode(C(k)).done = C(k).done
                          /\ IsNull(C(k)) <=> IsNull(SimDecode(C(k)))
  BY DecodeIs DEF B, C
<1>2. at[1] = "decode"
  BY DEF Decode
<1>3. \A k \in Pipes : /\ A(k)' = A(k) /\ D(k)' = D(k) /\ E(k)' = E(k)
                       /\ B(k)' = IF Moves(k) THEN SimDecode(C(k)) ELSE B(k)
                       /\ C(k)' = IF Moves(k) THEN NullInstr ELSE C(k)
  BY <1>1 DEF A, B, C, D, E, Boundaries
<1>4. NoneAt(C(0), C(1)) \/ NoneAt(B(0), B(1))
  BY DEF Structure, InOrder, Roomy
<1>5. /\ NoneAt(B(0), B(1)) => Moves(0) /\ Moves(1)
      /\ ~NoneAt(B(0), B(1)) => ~Moves(1)
      /\ Moves(0) => IsNull(B(0))
  BY DEF NoneAt
<1> HIDE DEF Moves
<1>6. \/ /\ NoneAt(B(0), B(1))
         /\ \A k \in Pipes : B(k)' = SimDecode(C(k)) /\ C(k)' = NullInstr
      \/ /\ NoneAt(C(0), C(1))
         /\ \A k \in Pipes : /\ B(k)' = B(k) \/ (IsNull(B(k)') /\ IsNull(B(k)))
                             /\ IsNull(C(k)')
  <2>1. CASE NoneAt(B(0), B(1))
    BY <1>3, <1>5, <2>1 DEF Pipes
  <2>2. CASE ~NoneAt(B(0), B(1))
    BY <1>1, <1>3, <1>4, <1>5, <2>2, NullIsInstr DEF NoneAt, Pipes
  <2> QED
    BY <2>1, <2>2
<1>7. \A b \in Boundaries, k \in Pipes :
         IF b \in Fetched THEN ~Issued(latch'[b][k]) /\ ~Issued(nlatch'[b][k])
         ELSE /\ Issued(latch'[b][k]) <=> ~IsNull(latch'[b][k])
              /\ Issued(nlatch'[b][k]) <=> ~IsNull(nlatch'[b][k])
  <2>1. PastIssue
    BY DEF Structure, InOrder
  <2>2. \A k \in Pipes : ~Issued(SimDecode(C(k)))
    BY <1>1, <2>1 DEF PastIssue, Issued, Fetched, Boundaries, C
  <2> QED
    BY <1>1, <2>1, <2>2, NullIsInstr DEF PastIssue, Fetched
<1>8. PastIssue'
  BY <1>7 DEF PastIssue, Issued, IsNull
<1>9. NoneAt(C(0)', C(1)') \/ NoneAt(B(0)', B(1)')
  BY <1>4, <1>6, NullIsInstr DEF NoneAt, Pipes
<1>10. Roomy'
  BY <1>3, <1>9 DEF Structure, InOrder, Roomy, NoneAt, IsNull
<1>11. Flags'
  BY <1>1, <1>2, <1>3 DEF Structure, InOrder, Flags, Before, NoneAt, IsNull, Stuck, Pipes
<1>12. Control'
  BY <1>1 DEF Structure, Control, Pipes
<1> QED
  BY <1>1, <1>3, <1>6, <1>8, <1>10, <1>11, <1>12 DEF Structure, InOrder

\* the end of a cycle moves whole pairs, into places that are empty
LEMMA UpdateLatchesIs ==
  ASSUME Structure, UpdateLatches
  PROVE /\ Structure'
        /\ \A b \in Boundaries, k \in Pipes :
             /\ latch'[b][k] = IF b \in Moving THEN nlatch[b][k] ELSE latch[b][k]
             /\ nlatch'[b][k] = IF b \in Moving THEN NullInstr ELSE nlatch[b][k]
        /\ \/ /\ NoneAt(A(0), A(1))
              /\ \A k \in Pipes : /\ A(k)' = B(k) /\ B(k)' = NullInstr
                                  /\ C(k)' = D(k) /\ D(k)' = NullInstr
           \/ \A k \in Pipes : A(k)' = A(k) /\ B(k)' = B(k) /\ C(k)' = C(k) /\ D(k)' = D(k)
<1>1. /\ at[1] = "latch" /\ at' = <<"fetch", 0>> /\ UNCHANGED stalled
      /\ latch' = [b \in Boundaries |-> IF b \in Moving THEN nlatch[b] ELSE latch[b]]
      /\ nlatch' = [b \in Boundaries |-> IF b \in Moving THEN Empty ELSE nlatch[b]]
  BY DEF UpdateLatches, Then
<1>2. /\ DOMAIN latch = Boundaries /\ DOMAIN nlatch = Boundaries
      /\ \A b \in Boundaries : /\ DOMAIN latch[b] = Pipes /\ DOMAIN nlatch[b] = Pipes
                               /\ \A k \in Pipes : Instr(latch[b][k]) /\ Instr(nlatch[b][k])
  BY DEF Structure, Latches, Latched
<1>3. DOMAIN Empty = Pipes /\ \A k \in Pipes : Empty[k] = NullInstr
  BY DEF Empty, Pair
<1>4. \A b \in Boundaries, k \in Pipes :
        /\ latch'[b][k] = IF b \in Moving THEN nlatch[b][k] ELSE latch[b][k]
        /\ nlatch'[b][k] = IF b \in Moving THEN NullInstr ELSE nlatch[b][k]
  BY <1>1, <1>3
<1>5. Latched(latch') /\ Latched(nlatch')
  BY <1>1, <1>2, <1>3, NullIsInstr DEF Latched
<1>6. Stuck <=> IsStalled("execute", 1)
  BY DEF Stuck, IsStalled
<1>7. /\ "IF2DC" \in Moving <=> "DC2EX" \in Moving
      /\ "DC2EX" \in Moving => "EX2MC" \in Moving /\ ~Stuck
      /\ "EX2MC" \in Moving /\ "DC2EX" \notin Moving => Stuck
  BY <1>6 DEF Moving, Boundaries
<1> HIDE DEF Moving
<1>8. PastIssue /\ Roomy /\ Flags
  BY DEF Structure, InOrder
<1>9. PastIssue'
  <2>1. \A b \in Boundaries, k \in Pipes :
          IF b \in Fetched THEN ~Issued(latch'[b][k]) /\ ~Issued(nlatch'[b][k])
          ELSE /\ Issued(latch'[b][k]) <=> ~IsNull(latch'[b][k])
               /\ Issued(nlatch'[b][k]) <=> ~IsNull(nlatch'[b][k])
    BY <1>4, <1>8, NullIsInstr DEF PastIssue
  <2> QED
    BY <2>1 DEF PastIssue, Issued, IsNull
<1>10. \A k \in Pipes :
         /\ A(k)' = IF "DC2EX" \in Moving THEN B(k) ELSE A(k)
         /\ B(k)' = IF "DC2EX" \in Moving THEN NullInstr ELSE B(k)
         /\ C(k)' = IF "DC2EX" \in Moving THEN D(k) ELSE C(k)
         /\ D(k)' = IF "DC2EX" \in Moving THEN NullInstr ELSE D(k)
         /\ E(k)' = IF "EX2MC" \in Moving THEN NullInstr ELSE E(k)
  BY <1>4, <1>7 DEF A, B, C, D, E, Boundaries
<1>11. NoneAt(A(0), A(1)) \/ Stuck
  BY <1>1, <1>8 DEF Flags
<1>12. Roomy'
  BY <1>7, <1>8, <1>10, NullIsInstr DEF Roomy, NoneAt, IsNull, Pipes
<1>13. NoneAt(A(0)', A(1)') \/ Stuck \/ NoneAt(E(0)', E(1)')
  BY <1>7, <1>10, <1>11, NullIsInstr DEF NoneAt, Pipes
<1>14. Flags'
  BY <1>1, <1>13 DEF Flags, Before, NoneAt, IsNull, Stuck
<1>15. Control'
  BY <1>1 DEF Structure, Control, Pipes
<1>16. Structure'
  BY <1>5, <1>9, <1>12, <1>14, <1>15 DEF Structure, InOrder, Latches
<1>17. \/ /\ NoneAt(A(0), A(1))
          /\ \A k \in Pipes : /\ A(k)' = B(k) /\ B(k)' = NullInstr
                              /\ C(k)' = D(k) /\ D(k)' = NullInstr
       \/ \A k \in Pipes : A(k)' = A(k) /\ B(k)' = B(k) /\ C(k)' = C(k) /\ D(k)' = D(k)
  BY <1>7, <1>10, <1>11
<1> QED
  BY <1>4, <1>16, <1>17

\* write-back empties its own places and nothing else
LEMMA WriteBackIs ==
  ASSUME Structure, WriteBack
  PROVE /\ Structure'
        /\ \A b \in Boundaries, k \in Pipes :
             /\ latch'[b][k] = IF b = "CC2WB" THEN NullInstr ELSE latch[b][k]
             /\ nlatch'[b][k] = nlatch[b][k]
<1>1. /\ at[1] = "wb" /\ at' = <<"latch", 0>> /\ UNCHANGED <<stalled, nlatch>>
      /\ latch' = [latch EXCEPT !["CC2WB"] = Empty]
  BY DEF WriteBack, Then
<1>2. Latched(latch) /\ Latched(nlatch)
  BY DEF Structure, Latches
<1>3. DOMAIN Empty = Pipes /\ \A k \in Pipes : Empty[k] = NullInstr
  BY DEF Empty, Pair
<1>4. \A b \in Boundaries, k \in Pipes :
        /\ latch'[b][k] = IF b = "CC2WB" THEN NullInstr ELSE latch[b][k]
        /\ nlatch'[b][k] = nlatch[b][k]
  BY <1>1, <1>2, <1>3 DEF Latched
<1>5. Latches'
  BY <1>1, <1>2, <1>3, NullIsInstr DEF Latches, Latched
<1>6. PastIssue
  BY DEF Structure, InOrder
<1>7. at'[2] \in Pipes /\ \A k \in Pipes : E(k)' = E(k)
  BY <1>1 DEF E, Pipes
<1> QED
  BY <1>1, <1>4, <1>5, <1>6, <1>7, NullIsInstr, OthersKeepStructure DEF PastIssue, Fetched

\* fpcomplete passes on what has issued
LEMMA FpCompleteKeepsStructure ==
  ASSUME Structure, FpComplete
  PROVE Structure'
<1> DEFINE Moves(k) == IsNull(nlatch["FP2CC"][0]) /\ (k = 0 \/ IsNull(nlatch["FP2CC"][1]))
<1>1. /\ Latches' /\ UNCHANGED stalled /\ at' = <<"ccache", 0>>
      /\ \A b \in Boundaries, k \in Pipes :
           /\ latch'[b][k] = IF b = "MC2FP" /\ Moves(k) THEN NullInstr ELSE latch[b][k]
           /\ nlatch'[b][k] = IF b = "FP2CC" /\ Moves(k) THEN latch["MC2FP"][k]
                              ELSE nlatch[b][k]
  BY FpCompleteIs
<1>2. PastIssue /\ at[1] = "fp"
  BY DEF Structure, InOrder, FpComplete
<1> HIDE DEF Moves
<1>3. \A b \in Boundaries, k \in Pipes :
        IF b \in Fetched THEN latch'[b][k] = latch[b][k] /\ nlatch'[b][k] = nlatch[b][k]
        ELSE /\ Issued(latch'[b][k]) <=> ~IsNull(latch'[b][k])
             /\ Issued(nlatch'[b][k]) <=> ~IsNull(nlatch'[b][k])
  BY <1>1, <1>2, NullIsInstr DEF PastIssue, Fetched, Boundaries
<1>4. at'[2] \in Pipes /\ \A k \in Pipes : E(k)' = E(k)
  BY <1>1 DEF E, Pipes, Boundaries
<1> QED
  BY <1>1, <1>2, <1>3, <1>4, OthersKeepStructure
-----------------------------------------------------------------------------
LatchesAddressed ==
  \A b \in Boundaries, j \in Pipes :
    latch[b][j].pc \in DOMAIN prog /\ nlatch[b][j].pc \in DOMAIN prog

\* a step keeps to the program when the addresses it leaves are old or checked
LEMMA AddressedAgain ==
  ASSUME Addressed, UNCHANGED prog, LatchesAddressed',
         UNCHANGED <<front, btb>> \/ (front'.next \in DOMAIN prog /\ Buffered(btb')),
         \/ UNCHANGED fixup
         \/ {"needed", "pc"} \subseteq DOMAIN fixup' /\ fixup'.pc \in DOMAIN prog
  PROVE Addressed'
BY DEF Addressed, LatchesAddressed, Buffered

\* the addresses that fetch writes: the next line, a target, a prediction
LEMMA FetchKeepsAddressed ==
  ASSUME Structure, Addressed, FetchIdle \/ FetchStall \/ FetchLine
  PROVE Structure' /\ Addressed'
<1>1. LatchesAddressed /\ prog \in Programs
  BY DEF Addressed, LatchesAddressed
<1>2. CASE FetchIdle
  <2>1. UNCHANGED <<latch, nlatch, stalled, front, btb, fixup, prog>> /\ at[1] = "fetch"
        /\ at' = <<"decode", 0>>
    BY <1>2 DEF FetchIdle, behindFetch, Then
  <2>2. LatchesAddressed'
    BY <1>1, <2>1 DEF LatchesAddressed
  <2> QED
    BY <2>1, <2>2, AddressedAgain, StillKeepsStructure DEF Pipes
<1>3. CASE FetchStall
  <2>1. /\ UNCHANGED <<latch, nlatch, stalled, prog>> /\ at[1] = "fetch"
        /\ at' = <<"decode", 0>>
        /\ front' = Redirected /\ btb' = Corrected /\ fixup' = [fixup EXCEPT !.needed = FALSE]
    BY <1>3 DEF FetchStall, behindFetch, Then
  <2>2. LatchesAddressed'
    BY <1>1, <2>1 DEF LatchesAddressed
  <2>3. front'.next \in DOMAIN prog /\ Buffered(btb')
    BY <2>1, BtbHoldsAddresses
  <2>4. {"needed", "pc"} \subseteq DOMAIN fixup' /\ fixup'.pc \in DOMAIN prog
    BY <2>1 DEF Addressed
  <2> QED
    BY <2>1, <2>2, <2>3, <2>4, AddressedAgain, StillKeepsStructure DEF Pipes
<1>4. CASE FetchLine
  <2>1. /\ UNCHANGED <<latch, prog>> /\ front'.next \in DOMAIN prog /\ Buffered(btb')
        /\ {"needed", "pc"} \subseteq DOMAIN fixup' /\ fixup'.pc = fixup.pc
        /\ \A b \in Boundaries, k \in Pipes : b # "IF2DC" => nlatch'[b][k] = nlatch[b][k]
        /\ \E first, second \in BOOLEAN :
             /\ IF first THEN Fresh(D(0)', ring.head) ELSE D(0)' = NullInstr
             /\ IF second
                THEN Fresh(D(1)', (ring.head + (IF first THEN 1 ELSE 0)) % RingLength)
                ELSE D(1)' = NullInstr
    BY <1>4, FetchLineIs
  <2>2. \A k \in Pipes : D(k)'.pc \in DOMAIN prog
    BY <1>1, <2>1, NullIsAddressed DEF Fresh, Pipes
  <2>3. LatchesAddressed'
    BY <1>1, <2>1, <2>2 DEF LatchesAddressed, D
  <2>4. fixup'.pc \in DOMAIN prog
    BY <2>1 DEF Addressed
  <2> QED
    BY <1>4, <2>1, <2>3, <2>4, AddressedAgain, FetchLineKeepsStructure
<1> QED
  BY <1>2, <1>3, <1>4

\* decode writes no address
LEMMA DecodeKeepsAddressed ==
  ASSUME Structure, Addressed, Decode
  PROVE Addressed'
<1> DEFINE Moves(k) == IsNull(nlatch["DC2EX"][0]) /\ (k = 0 \/ IsNull(nlatch["DC2EX"][1]))
<1>1. /\ UNCHANGED <<prog, front, fixup, btb>>
      /\ \A b \in Boundaries, k \in Pipes :
           /\ latch'[b][k] = IF b = "IF2DC" /\ Moves(k) THEN NullInstr ELSE latch[b][k]
           /\ nlatch'[b][k] = IF b = "DC2EX" /\ Moves(k) THEN SimDecode(latch["IF2DC"][k])
                              ELSE nlatch[b][k]
      /\ \A k \in Pipes : SimDecode(C(k)).pc = C(k).pc
  BY DecodeIs
<1> HIDE DEF Moves
<1>2. LatchesAddressed /\ prog \in Programs
  BY DEF Addressed, LatchesAddressed
<1>3. \A k \in Pipes : SimDecode(latch["IF2DC"][k]).pc \in DOMAIN prog
  BY <1>1, <1>2 DEF LatchesAddressed, C, Boundaries
<1>4. LatchesAddressed'
  BY <1>1, <1>2, <1>3, NullIsAddressed DEF LatchesAddressed
<1> QED
  BY <1>1, <1>4, AddressedAgain

\* execute redirects fetch to an address of its instruction or behind it
LEMMA ExecuteKeepsAddressed ==
  ASSUME Structure, Addressed, NEW i, NEW flags, NEW slots, NEW waiting,
         ExecuteStep(i, flags, slots, waiting)
  PROVE Structure' /\ Addressed'
<1> DEFINE j == at[2]
<1>1. /\ at[1] = "execute" /\ j \in Pipes /\ Instr(i) /\ i.pc = A(j).pc
      /\ MovesOn(j, i, flags, slots, waiting) /\ UNCHANGED <<prog, front, btb>>
      /\ Idles(j, i, flags) \/ Waits(j, i, flags) \/ Leaves(j, i, flags)
  BY DEF ExecuteStep, Structure, Control, IdleStep, WaitStep, RestartStep, IssueStep
<1>2. Structure'
  BY <1>1, ExecuteKeepsStructure
<1>3. LatchesAddressed /\ prog \in Programs
  BY DEF Addressed, LatchesAddressed
<1>4. \A k \in Pipes : /\ A(k).pc \in DOMAIN prog /\ B(k).pc \in DOMAIN prog
                       /\ C(k).pc \in DOMAIN prog /\ D(k).pc \in DOMAIN prog
                       /\ E(k).pc \in DOMAIN prog
  BY <1>3 DEF LatchesAddressed, A, B, C, D, E, Boundaries
<1>5. \A k \in Pipes : /\ A(k)'.pc \in DOMAIN prog /\ B(k)'.pc \in DOMAIN prog
                       /\ C(k)'.pc \in DOMAIN prog /\ D(k)'.pc \in DOMAIN prog
                       /\ E(k)'.pc \in DOMAIN prog
  <2>1. Latches
    BY DEF Structure
  <2> QED
    BY <1>1, <1>3, <1>4, <2>1, MovesOnIs, NullIsAddressed
<1>6. \A b \in Boundaries \ Fetched, k \in Pipes :
        /\ latch'[b][k] = latch[b][k]
        /\ b # "EX2MC" => nlatch'[b][k] = nlatch[b][k]
  BY <1>1, MovesOnIs DEF Structure
<1>7. LatchesAddressed'
  BY <1>1, <1>3, <1>5, <1>6 DEF LatchesAddressed, A, B, C, D, E, Fetched
<1>8. \/ UNCHANGED fixup
      \/ {"needed", "pc"} \subseteq DOMAIN fixup' /\ fixup'.pc \in DOMAIN prog
  <2>1. \A next \in Targets(prog, A(j).pc, A(j).type) : next \in DOMAIN prog
    BY <1>1, <1>3, <1>4, NextAddresses
  <2> QED
    BY <2>1 DEF ExecuteStep
<1> QED
  BY <1>1, <1>2, <1>7, <1>8, AddressedAgain

\* the back stages write no address
LEMMA BackStageKeepsAddressed ==
  ASSUME Structure, Addressed, NEW s \in {"mem", "ccache"}, NEW from \in Boundaries \ Fetched,
         NEW to \in Boundaries \ (Fetched \cup {"EX2MC"}), NEW i, NEW flags,
         BackStage(s, from, to, i, flags)
  PROVE Structure' /\ Addressed'
<1>1. /\ at[1] = s /\ at[2] \in Pipes /\ Alike(i, latch[from][at[2]])
      /\ HandOn(s, from, to, at[2], i, flags, {})
      /\ UNCHANGED <<prog, front, fixup, btb>> /\ DOMAIN flags = Pipes
  BY DEF BackStage, Books, Structure, Control, Tells
<1>2. /\ Structure'
      /\ \A b \in Boundaries, k \in Pipes :
           /\ latch'[b][k] = IF b = from /\ k = at[2]
                             THEN IF Goes(to, at[2], flags) THEN NullInstr ELSE i
                             ELSE latch[b][k]
           /\ nlatch'[b][k] = IF b = to /\ k = at[2] /\ Goes(to, at[2], flags) THEN i
                              ELSE nlatch[b][k]
  BY <1>1, BackStageIs
<1>3. LatchesAddressed /\ prog \in Programs
  BY DEF Addressed, LatchesAddressed
<1>4. i.pc \in DOMAIN prog
  BY <1>1, <1>3 DEF Alike, LatchesAddressed
<1>5. LatchesAddressed'
  BY <1>1, <1>2, <1>3, <1>4, NullIsAddressed DEF LatchesAddressed
<1> QED
  BY <1>1, <1>2, <1>5, AddressedAgain

\* What each class of steps is; the books look at one class at a time.
Steps ==
  \/ FetchIdle \/ FetchStall \/ FetchLine \/ Decode
  \/ \E i, flags, slots, waiting : ExecuteStep(i, flags, slots, waiting)
  \/ Release
  \/ \E i, flags : BackStage("mem", "EX2MC", "MC2FP", i, flags)
  \/ FpComplete
  \/ \E i, flags : BackStage("ccache", "FP2CC", "CC2WB", i, flags)
  \/ WriteBack \/ UpdateLatches

\* the steps of the core, as these proofs take them
LEMMA NextIsSteps ==
  ASSUME Structure, Next
  PROVE Steps
BY ExecuteIs, MemIs, CacheIs DEF Next, Steps

\* every step keeps the structure
LEMMA StepKeepsStructure ==
  ASSUME Structure, Addressed, Steps
  PROVE Structure' /\ Addressed'
<1>1. LatchesAddressed /\ prog \in Programs
  BY DEF Addressed, LatchesAddressed
<1>2. CASE FetchIdle \/ FetchStall \/ FetchLine
  BY <1>2, FetchKeepsAddressed
<1>3. CASE Decode
  BY <1>3, DecodeKeepsStructure, DecodeKeepsAddressed
<1>4. CASE \E i, flags, slots, waiting : ExecuteStep(i, flags, slots, waiting)
  BY <1>4, ExecuteKeepsAddressed
<1>5. CASE Release
  <2>1. UNCHANGED <<latch, nlatch, stalled, front, fixup, btb, prog>> /\ at[1] = "release"
        /\ at' = <<"mem", 0>>
    BY <1>5 DEF Release, Then
  <2>2. LatchesAddressed'
    BY <1>1, <2>1 DEF LatchesAddressed
  <2> QED
    BY <2>1, <2>2, AddressedAgain, StillKeepsStructure DEF Pipes
<1>6. CASE \/ \E i, flags : BackStage("mem", "EX2MC", "MC2FP", i, flags)
           \/ \E i, flags : BackStage("ccache", "FP2CC", "CC2WB", i, flags)
  <2>1. {"EX2MC", "FP2CC"} \subseteq Boundaries \ Fetched
        /\ {"MC2FP", "CC2WB"} \subseteq Boundaries \ (Fetched \cup {"EX2MC"})
    BY DEF Boundaries, Fetched
  <2> QED
    BY <1>6, <2>1, BackStageKeepsAddressed
<1>7. CASE FpComplete
  <2> DEFINE Moves(k) == IsNull(nlatch["FP2CC"][0]) /\ (k = 0 \/ IsNull(nlatch["FP2CC"][1]))
  <2>1. /\ UNCHANGED <<prog, front, fixup, btb>>
        /\ \A b \in Boundaries, k \in Pipes :
             /\ latch'[b][k] = IF b = "MC2FP" /\ Moves(k) THEN NullInstr ELSE latch[b][k]
             /\ nlatch'[b][k] = IF b = "FP2CC" /\ Moves(k) THEN latch["MC2FP"][k]
                                ELSE nlatch[b][k]
    BY <1>7, FpCompleteIs DEF Books
  <2> HIDE DEF Moves
  <2>2. LatchesAddressed'
    BY <1>1, <2>1, NullIsAddressed DEF LatchesAddressed, Boundaries
  <2> QED
    BY <1>7, <2>1, <2>2, AddressedAgain, FpCompleteKeepsStructure
<1>8. CASE WriteBack
  <2>1. UNCHANGED <<prog, front, fixup, btb>>
    BY <1>8 DEF WriteBack
  <2>2. LatchesAddressed'
    BY <1>1, <1>8, <2>1, WriteBackIs, NullIsAddressed DEF LatchesAddressed
  <2> QED
    BY <1>8, <2>1, <2>2, AddressedAgain, WriteBackIs
<1>9. CASE UpdateLatches
  <2>1. UNCHANGED <<prog, front, fixup, btb>>
    BY <1>9 DEF UpdateLatches
  <2>2. LatchesAddressed'
    BY <1>1, <1>9, <2>1, UpdateLatchesIs, NullIsAddressed DEF LatchesAddressed
  <2> QED
    BY <1>9, <2>1, <2>2, AddressedAgain, UpdateLatchesIs
<1> QED
  BY <1>2, <1>3, <1>4, <1>5, <1>6, <1>7, <1>8, <1>9 DEF Steps

\* and so does a step that changes nothing
LEMMA StutterKeepsStructure ==
  ASSUME Structure, Addressed, UNCHANGED vars
  PROVE Structure' /\ Addressed'
<1>1. UNCHANGED <<at, prog, latch, nlatch, stalled, front, fixup, btb>>
  BY DEF vars
<1>2. Addressed'
  BY <1>1 DEF Addressed
<1>3. Structure'
  BY <1>1 DEF Structure, Latches, Latched, Control, InOrder, PastIssue, Roomy, Flags, Before,
              NoneAt, Stuck, A, B, C, E, Issued, IsNull
<1> QED
  BY <1>2, <1>3

\* Whatever the program, only what is behind execute has issued, execute has
\* room for what it issues, decode has room for a line, and no address leaves
\* the program.
THEOREM StructureHolds == Spec => [](Structure /\ Addressed)
<1>1. Structure /\ Addressed /\ [Next]_vars => Structure' /\ Addressed'
  BY NextIsSteps, StepKeepsStructure, StutterKeepsStructure
<1> QED
  BY <1>1, InitHolds, PTL DEF Spec
-----------------------------------------------------------------------------
(***************************************************************************)
(* The speculative list.  Its slots are dealt out in turn, modulo its      *)
(* length.                                                                 *)
(***************************************************************************)
LEMMA Arithmetic ==
  ASSUME NEW h \in 0 .. 5, NEW m \in 0 .. 6, NEW n \in 0 .. 2, NEW k \in 0 .. 5
  PROVE /\ (h + n) % 6 \in 0 .. 5
        /\ (h - m) % 6 = (((h + n) % 6) - (m + n)) % 6
        /\ m + n <= 6 => ((((h + n) % 6) - 1 - k) % 6 < m + n
                          <=> (h - 1 - k) % 6 < m \/ (n >= 1 /\ k = h)
                              \/ (n = 2 /\ k = (h + 1) % 6))
        /\ m >= 1 => ((h - 1 - k) % 6 < m - 1
                      <=> (h - 1 - k) % 6 < m /\ k # (h - m) % 6)
<1>1. (h + n) % 6 \in 0 .. 5
  OBVIOUS
<1>2. (h - m) % 6 = (((h + n) % 6) - (m + n)) % 6
  OBVIOUS
<1>3. m + n <= 6 => ((((h + n) % 6) - 1 - k) % 6 < m + n
                     <=> (h - 1 - k) % 6 < m \/ (n >= 1 /\ k = h)
                         \/ (n = 2 /\ k = (h + 1) % 6))
  OBVIOUS
<1>4. m >= 1 => ((h - 1 - k) % 6 < m - 1
                 <=> (h - 1 - k) % 6 < m /\ k # (h - m) % 6)
  OBVIOUS
<1> QED
  BY <1>1, <1>2, <1>3, <1>4
\* an instruction counts for one, an empty place for nothing
LEMMA CountIs ==
  /\ \A i : N(i) \in {0, 1}
  /\ \A i : N(i) = 1 <=> ~IsNull(i)
BY DEF N

\* fetch appends one or two instructions, each in the slot that comes next
LEMMA AddedIsDealt ==
  ASSUME NEW r, RingType(r), NEW a0, NEW a1, NEW b0, NEW b1, NEW c0, NEW c1, NEW d0, NEW d1,
         Dealt(r, a0, a1, b0, b1, c0, c1, NullInstr, NullInstr),
         N(a0) + N(a1) + N(b0) + N(b1) + N(c0) + N(c1) <= 4,
         NEW first \in BOOLEAN, NEW second \in BOOLEAN,
         IF first THEN Fresh(d0, r.head) ELSE d0 = NullInstr,
         IF second THEN Fresh(d1, (r.head + (IF first THEN 1 ELSE 0)) % RingLength)
                   ELSE d1 = NullInstr
  PROVE RingType(Added(r, first, second)) /\
        Dealt(Added(r, first, second), a0, a1, b0, b1, c0, c1, d0, d1)
<1> DEFINE n == N(d0) + N(d1)
           old == N(a0) + N(a1) + N(b0) + N(b1) + N(c0) + N(c1)
           new == Added(r, first, second)
           slotB == (r.head + (IF first THEN 1 ELSE 0)) % 6
<1>1. /\ r.head \in 0 .. 5 /\ r.slots \in [0 .. 5 -> BOOLEAN] /\ RingLength = 6
  BY DEF RingType, RingLength
<1>2. N(NullInstr) = 0 /\ N(d0) = (IF first THEN 1 ELSE 0) /\ N(d1) = (IF second THEN 1 ELSE 0)
  BY NullIsInstr DEF N, Fresh
<1>3. /\ new.head = (r.head + n) % 6
      /\ new.slots = [k \in 0 .. 5 |-> r.slots[k] \/ (first /\ k = r.head) \/ (second /\ k = slotB)]
      /\ {"slots", "head"} \subseteq DOMAIN new
  <2>1. \A u, v \in {0, 1} : (((r.head + u) % 6) + v) % 6 = (r.head + (u + v)) % 6
    BY <1>1
  <2>2. new.head = (slotB + (IF second THEN 1 ELSE 0)) % 6
    BY <1>1 DEF Added
  <2>3. new.slots = [k \in 0 .. 5 |-> r.slots[k] \/ (first /\ k = r.head) \/ (second /\ k = slotB)]
    BY <1>1 DEF Added
  <2>4. {"slots", "head"} \subseteq DOMAIN new
    BY DEF Added
  <2> QED
    BY <1>2, <2>1, <2>2, <2>3, <2>4
<1>4. n \in 0 .. 2 /\ old \in 0 .. 4
  BY <1>2, CountIs
<1>5. new.head \in 0 .. 5
  BY <1>1, <1>3, <1>4, Arithmetic
<1>6. RingType(new)
  BY <1>1, <1>3, <1>5 DEF RingType
<1>7. ASSUME NEW i, NEW m \in 0 .. 6, HasTurn(i, m, r.head)
      PROVE HasTurn(i, m + n, new.head)
  BY <1>1, <1>3, <1>4, <1>7, Arithmetic DEF HasTurn
<1>8. /\ HasTurn(a0, old, r.head)
      /\ HasTurn(a1, N(a1) + N(b0) + N(b1) + N(c0) + N(c1), r.head)
      /\ HasTurn(b0, N(b0) + N(b1) + N(c0) + N(c1), r.head)
      /\ HasTurn(b1, N(b1) + N(c0) + N(c1), r.head)
      /\ HasTurn(c0, N(c0) + N(c1), r.head)
      /\ HasTurn(c1, N(c1), r.head)
      /\ \A k \in 0 .. 5 : r.slots[k] <=> ((r.head - 1 - k) % 6 < old)
  BY <1>1, <1>2, CountIs DEF Dealt
<1>9. /\ HasTurn(d0, n, new.head)
      /\ HasTurn(d1, N(d1), new.head)
  <2>1. first => d0.slot = r.head
    BY DEF Fresh
  <2>2. second => d1.slot = slotB
    BY <1>1 DEF Fresh
  <2>3. (~first => IsNull(d0)) /\ (~second => IsNull(d1))
    BY NullIsInstr
  <2>4. r.head = (new.head - n) % 6
    BY <1>1, <1>3, <1>4, Arithmetic
  <2>5. second => slotB = (new.head - 1) % 6
    BY <1>1, <1>2, <1>3, <1>4
  <2> QED
    BY <1>1, <1>2, <2>1, <2>2, <2>3, <2>4, <2>5 DEF HasTurn
<1>10. \A k \in 0 .. 5 : new.slots[k] <=> ((new.head - 1 - k) % 6 < old + n)
  <2> SUFFICES ASSUME NEW k \in 0 .. 5
               PROVE new.slots[k] <=> ((new.head - 1 - k) % 6 < old + n)
    OBVIOUS
  <2>1. (new.head - 1 - k) % 6 < old + n
        <=> (r.head - 1 - k) % 6 < old \/ (n >= 1 /\ k = r.head) \/ (n = 2 /\ k = (r.head + 1) % 6)
    BY <1>1, <1>3, <1>4, Arithmetic
  <2>2. new.slots[k] <=> r.slots[k] \/ (first /\ k = r.head) \/ (second /\ k = slotB)
    BY <1>3
  <2>3. (first /\ k = r.head) \/ (second /\ k = slotB)
        <=> (n >= 1 /\ k = r.head) \/ (n = 2 /\ k = (r.head + 1) % 6)
    BY <1>1, <1>2
  <2>4. new.slots[k] \in BOOLEAN
    BY <1>1, <1>6 DEF RingType
  <2>5. r.slots[k] <=> (r.head - 1 - k) % 6 < old
    BY <1>8
  <2> HIDE DEF new, n, old, slotB
  <2> QED
    BY <2>1, <2>2, <2>3, <2>4, <2>5
<1>11. /\ HasTurn(a0, old + n, new.head)
       /\ HasTurn(a1, N(a1) + N(b0) + N(b1) + N(c0) + N(c1) + n, new.head)
       /\ HasTurn(b0, N(b0) + N(b1) + N(c0) + N(c1) + n, new.head)
       /\ HasTurn(b1, N(b1) + N(c0) + N(c1) + n, new.head)
       /\ HasTurn(c0, N(c0) + N(c1) + n, new.head)
       /\ HasTurn(c1, N(c1) + n, new.head)
  BY <1>7, <1>8, CountIs
<1> HIDE DEF new
<1>12. Dealt(new, a0, a1, b0, b1, c0, c1, d0, d1)
  BY <1>1, <1>4, <1>9, <1>10, <1>11, CountIs DEF Dealt
<1> QED
  BY <1>6, <1>12 DEF new

\* the oldest instruction gives its slot back
LEMMA FreedIsDealt ==
  ASSUME RingType(ring), NEW a0, NEW a1, NEW b0, NEW b1, NEW c0, NEW c1, NEW d0, NEW d1,
         Dealt(ring, a0, a1, b0, b1, c0, c1, d0, d1)
  PROVE /\ ~IsNull(a0) => /\ RingType(Freed(a0.slot))
                          /\ Dealt(Freed(a0.slot), NullInstr, a1, b0, b1, c0, c1, d0, d1)
        /\ IsNull(a0) /\ ~IsNull(a1)
             => /\ RingType(Freed(a1.slot))
                /\ Dealt(Freed(a1.slot), a0, NullInstr, b0, b1, c0, c1, d0, d1)
<1> DEFINE all == N(a0) + N(a1) + N(b0) + N(b1) + N(c0) + N(c1) + N(d0) + N(d1)
<1>1. /\ ring.head \in 0 .. 5 /\ ring.slots \in [0 .. 5 -> BOOLEAN] /\ RingLength = 6
  BY DEF RingType, RingLength
<1>2. /\ all \in 0 .. 6
      /\ \A k \in 0 .. 5 : ring.slots[k] <=> ((ring.head - 1 - k) % 6 < all)
  BY <1>1, CountIs DEF Dealt
<1>3. ASSUME NEW slot, slot = (ring.head - all) % 6, all >= 1
      PROVE /\ RingType(Freed(slot)) /\ Freed(slot).head = ring.head
            /\ \A k \in 0 .. 5 : Freed(slot).slots[k] <=> ((Freed(slot).head - 1 - k) % 6 < all - 1)
  <2>1. /\ Freed(slot).head = ring.head
        /\ Freed(slot).slots = [ring.slots EXCEPT ![slot] = FALSE]
        /\ {"slots", "head"} \subseteq DOMAIN Freed(slot)
    BY DEF Freed, RingType
  <2>2. Freed(slot).slots \in [0 .. 5 -> BOOLEAN]
        /\ \A k \in 0 .. 5 : Freed(slot).slots[k] <=> (ring.slots[k] /\ k # slot)
    BY <1>1, <1>2, <1>3, <2>1
  <2>3. \A k \in 0 .. 5 : (ring.head - 1 - k) % 6 < all - 1
                          <=> (ring.head - 1 - k) % 6 < all /\ k # slot
    BY <1>1, <1>2, <1>3, Arithmetic
  <2>4. RingType(Freed(slot))
    BY <1>1, <2>1, <2>2 DEF RingType
  <2>5. ASSUME NEW k \in 0 .. 5
        PROVE Freed(slot).slots[k] <=> ((ring.head - 1 - k) % 6 < all - 1)
    <3>1. /\ ring.slots[k] <=> ((ring.head - 1 - k) % 6 < all)
          /\ Freed(slot).slots[k] <=> (ring.slots[k] /\ k # slot)
          /\ (ring.head - 1 - k) % 6 < all - 1 <=> (ring.head - 1 - k) % 6 < all /\ k # slot
      BY <1>2, <2>2, <2>3
    <3> QED
      BY <3>1
  <2> QED
    BY <2>1, <2>4, <2>5
<1>4. N(NullInstr) = 0 /\ \A m, h : HasTurn(NullInstr, m, h)
  BY NullIsInstr DEF N, HasTurn
<1>5. ASSUME ~IsNull(a0)
      PROVE /\ RingType(Freed(a0.slot))
            /\ Dealt(Freed(a0.slot), NullInstr, a1, b0, b1, c0, c1, d0, d1)
  <2>1. a0.slot = (ring.head - all) % 6 /\ N(a0) = 1 /\ all >= 1
    BY <1>1, <1>5, CountIs DEF Dealt, HasTurn
  <2>2. RingType(Freed(a0.slot)) /\ Freed(a0.slot).head = ring.head
        /\ \A k \in 0 .. 5 : Freed(a0.slot).slots[k]
                             <=> ((Freed(a0.slot).head - 1 - k) % 6 < all - 1)
    BY <1>3, <2>1
  <2>3. all - 1 = N(NullInstr) + N(a1) + N(b0) + N(b1) + N(c0) + N(c1) + N(d0) + N(d1)
    BY <1>4, <2>1, CountIs
  <2> QED
    BY <1>1, <1>2, <1>4, <2>2, <2>3 DEF Dealt
<1>6. ASSUME IsNull(a0), ~IsNull(a1)
      PROVE /\ RingType(Freed(a1.slot))
            /\ Dealt(Freed(a1.slot), a0, NullInstr, b0, b1, c0, c1, d0, d1)
  <2>1. a1.slot = (ring.head - all) % 6 /\ N(a0) = 0 /\ N(a1) = 1 /\ all >= 1
    <3>1. N(a0) = 0 /\ N(a1) = 1
      BY <1>6 DEF N
    <3>2. a1.slot = (ring.head - (N(a1) + N(b0) + N(b1) + N(c0) + N(c1) + N(d0) + N(d1))) % 6
      BY <1>1, <1>6 DEF Dealt, HasTurn
    <3>3. all = N(a1) + N(b0) + N(b1) + N(c0) + N(c1) + N(d0) + N(d1) /\ all >= 1
      BY <3>1, CountIs
    <3> QED
      BY <3>1, <3>2, <3>3
  <2>2. RingType(Freed(a1.slot)) /\ Freed(a1.slot).head = ring.head
        /\ \A k \in 0 .. 5 : Freed(a1.slot).slots[k]
                             <=> ((Freed(a1.slot).head - 1 - k) % 6 < all - 1)
    BY <1>3, <2>1
  <2>3. all - 1 = N(a0) + N(NullInstr) + N(b0) + N(b1) + N(c0) + N(c1) + N(d0) + N(d1)
    BY <1>4, <2>1, CountIs
  <2>4. \A m, h : HasTurn(a0, m, h)
    BY <1>6 DEF HasTurn
  <2> QED
    BY <1>1, <1>2, <1>4, <2>2, <2>3, <2>4 DEF Dealt
<1> QED
  BY <1>5, <1>6

\* a flush leaves nothing in the list
LEMMA FlushedIsDealt ==
  ASSUME NEW r, RingType(r),
         NEW a0, NEW a1, NEW b0, NEW b1, NEW c0, NEW c1, NEW d0, NEW d1,
         IsNull(a0), IsNull(a1), IsNull(b0), IsNull(b1), IsNull(c0), IsNull(c1), IsNull(d0),
         IsNull(d1)
  PROVE LET flushed == [r EXCEPT !.slots = [k \in DOMAIN @ |-> FALSE]]
        IN RingType(flushed) /\ Dealt(flushed, a0, a1, b0, b1, c0, c1, d0, d1)
<1> DEFINE flushed == [r EXCEPT !.slots = [k \in DOMAIN @ |-> FALSE]]
<1>1. /\ r.head \in 0 .. 5 /\ r.slots \in [0 .. 5 -> BOOLEAN] /\ RingLength = 6
      /\ {"slots", "head"} \subseteq DOMAIN r
  BY DEF RingType, RingLength
<1>2. /\ flushed.head = r.head /\ flushed.slots = [k \in 0 .. 5 |-> FALSE]
      /\ {"slots", "head"} \subseteq DOMAIN flushed
  BY <1>1
<1> HIDE DEF flushed
<1>3. RingType(flushed)
  BY <1>1, <1>2 DEF RingType
<1>4. \A k \in 0 .. 5 : flushed.slots[k] <=> ((flushed.head - 1 - k) % 6 < 0)
  <2>1. \A k \in 0 .. 5 : ~((r.head - 1 - k) % 6 < 0)
    BY <1>1
  <2> QED
    BY <1>2, <2>1
<1>5. /\ N(a0) = 0 /\ N(a1) = 0 /\ N(b0) = 0 /\ N(b1) = 0
      /\ N(c0) = 0 /\ N(c1) = 0 /\ N(d0) = 0 /\ N(d1) = 0
  BY DEF N
<1>6. Dealt(flushed, a0, a1, b0, b1, c0, c1, d0, d1)
  BY <1>1, <1>4, <1>5 DEF Dealt, HasTurn
<1> QED
  BY <1>3, <1>6 DEF flushed

\* an instruction may change in all but its slot
Same(i, o) == (IsNull(i) <=> IsNull(o)) /\ (~IsNull(o) => i.slot = o.slot)

\* the turns depend on which places are filled, and with which slots, only
LEMMA SameIsDealt ==
  ASSUME NEW r, RingType(r),
         NEW a0, NEW a1, NEW b0, NEW b1, NEW c0, NEW c1, NEW d0, NEW d1,
         NEW x0, NEW x1, NEW y0, NEW y1, NEW z0, NEW z1, NEW w0, NEW w1,
         Dealt(r, a0, a1, b0, b1, c0, c1, d0, d1),
         Same(x0, a0), Same(x1, a1), Same(y0, b0), Same(y1, b1),
         Same(z0, c0), Same(z1, c1), Same(w0, d0), Same(w1, d1)
  PROVE Dealt(r, x0, x1, y0, y1, z0, z1, w0, w1)
<1>1. /\ N(x0) = N(a0) /\ N(x1) = N(a1) /\ N(y0) = N(b0) /\ N(y1) = N(b1)
      /\ N(z0) = N(c0) /\ N(z1) = N(c1) /\ N(w0) = N(d0) /\ N(w1) = N(d1)
  BY DEF N, Same
<1>2. /\ \A m, h : HasTurn(a0, m, h) => HasTurn(x0, m, h)
      /\ \A m, h : HasTurn(a1, m, h) => HasTurn(x1, m, h)
      /\ \A m, h : HasTurn(b0, m, h) => HasTurn(y0, m, h)
      /\ \A m, h : HasTurn(b1, m, h) => HasTurn(y1, m, h)
      /\ \A m, h : HasTurn(c0, m, h) => HasTurn(z0, m, h)
      /\ \A m, h : HasTurn(c1, m, h) => HasTurn(z1, m, h)
      /\ \A m, h : HasTurn(d0, m, h) => HasTurn(w0, m, h)
      /\ \A m, h : HasTurn(d1, m, h) => HasTurn(w1, m, h)
  BY DEF HasTurn, Same
<1> QED
  BY <1>1, <1>2 DEF Dealt

\* Moving a pair on into an empty place changes nobody's turn.
LEMMA MovedIsDealt ==
  ASSUME NEW r, RingType(r),
         NEW a0, NEW a1, NEW b0, NEW b1, NEW c0, NEW c1, NEW d0, NEW d1,
         Dealt(r, a0, a1, b0, b1, c0, c1, d0, d1)
  PROVE /\ NoneAt(b0, b1) => Dealt(r, a0, a1, c0, c1, NullInstr, NullInstr, d0, d1)
        /\ NoneAt(a0, a1) /\ NoneAt(c0, c1)
             => Dealt(r, b0, b1, NullInstr, NullInstr, d0, d1, NullInstr, NullInstr)
<1>1. N(NullInstr) = 0 /\ \A m, h : HasTurn(NullInstr, m, h)
  BY NullIsInstr DEF N, HasTurn
<1>2. ASSUME NoneAt(b0, b1) PROVE Dealt(r, a0, a1, c0, c1, NullInstr, NullInstr, d0, d1)
  <2>1. N(b0) = 0 /\ N(b1) = 0
    BY <1>2 DEF NoneAt, N
  <2> QED
    BY <1>1, <2>1, CountIs DEF Dealt
<1>3. ASSUME NoneAt(a0, a1), NoneAt(c0, c1)
      PROVE Dealt(r, b0, b1, NullInstr, NullInstr, d0, d1, NullInstr, NullInstr)
  <2>1. N(a0) = 0 /\ N(a1) = 0 /\ N(c0) = 0 /\ N(c1) = 0
    BY <1>3 DEF NoneAt, N
  <2> QED
    BY <1>1, <2>1, CountIs DEF Dealt
<1> QED
  BY <1>2, <1>3
-----------------------------------------------------------------------------
\* Decode leaves nothing behind: what it could not hand on it was not given.
Drained == at[1] \notin {"fetch", "decode"} => NoneAt(C(0), C(1))
ListIsKept == Listed /\ Drained

\* the list starts empty
LEMMA InitListed == Init => ListIsKept
<1> SUFFICES ASSUME Init PROVE ListIsKept
  OBVIOUS
<1>1. \A k \in Pipes : A(k) = NullInstr /\ B(k) = NullInstr /\ C(k) = NullInstr /\ D(k) = NullInstr
  BY DEF Init, Empty, Pair, A, B, C, D, Boundaries
<1>2. ring = [slots |-> [k \in 0 .. 5 |-> FALSE], head |-> 0] /\ at[1] = "fetch"
  BY DEF Init, RingLength
<1>3. RingType(ring)
  BY <1>2 DEF RingType, RingLength
<1>4. N(NullInstr) = 0 /\ \A m, h : HasTurn(NullInstr, m, h)
  BY NullIsInstr DEF N, HasTurn
<1>5. \A k \in 0 .. 5 : ring.slots[k] <=> (ring.head - 1 - k) % 6 < 0
  <2>1. \A k \in 0 .. 5 : ~((0 - 1 - k) % 6 < 0)
    OBVIOUS
  <2> QED
    BY <1>2, <2>1
<1>6. Listed
  BY <1>1, <1>3, <1>4, <1>5 DEF Listed, Dealt, RingLength, Pipes
<1> QED
  BY <1>2, <1>6 DEF ListIsKept, Drained

\* a step that leaves the eight places and the list as they are
LEMMA StillListed ==
  ASSUME ListIsKept, UNCHANGED ring,
         \A k \in Pipes : A(k)' = A(k) /\ B(k)' = B(k) /\ C(k)' = C(k) /\ D(k)' = D(k),
         at[1] \in {"fetch", "decode"} => at'[1] \in {"fetch", "decode"}
  PROVE ListIsKept'
<1>1. Listed'
  BY DEF ListIsKept, Listed, RingType, Pipes, Dealt, HasTurn, N, IsNull
<1>2. Drained'
  BY DEF ListIsKept, Drained, NoneAt, IsNull, Pipes
<1> QED
  BY <1>1, <1>2 DEF ListIsKept

\* fetch appends to the list what it fetches
LEMMA FetchKeepsListed ==
  ASSUME Structure, Addressed, ListIsKept, FetchLine
  PROVE ListIsKept'
<1>1. /\ latch' = latch
      /\ \A b \in Boundaries, k \in Pipes : b # "IF2DC" => nlatch'[b][k] = nlatch[b][k]
      /\ D(0) = NullInstr /\ D(1) = NullInstr
      /\ at' = <<"decode", 0>>
      /\ \E first, second \in BOOLEAN :
           /\ IF first THEN Fresh(D(0)', ring.head) ELSE D(0)' = NullInstr
           /\ IF second
              THEN Fresh(D(1)', (ring.head + (IF first THEN 1 ELSE 0)) % RingLength)
              ELSE D(1)' = NullInstr
           /\ ring' = Added(ring, first, second)
  BY FetchLineIs
<1>2. \A k \in Pipes : A(k)' = A(k) /\ B(k)' = B(k) /\ C(k)' = C(k)
  BY <1>1 DEF A, B, C, Boundaries
<1>3. RingType(ring) /\ Dealt(ring, A(0), A(1), B(0), B(1), C(0), C(1), NullInstr, NullInstr)
  BY <1>1 DEF ListIsKept, Listed
<1>4. NoneAt(C(0), C(1)) \/ NoneAt(B(0), B(1))
  BY DEF Structure, InOrder, Roomy
<1>5. N(A(0)) + N(A(1)) + N(B(0)) + N(B(1)) + N(C(0)) + N(C(1)) <= 4
  BY <1>4, CountIs DEF NoneAt
<1>6. RingType(ring') /\ Dealt(ring', A(0), A(1), B(0), B(1), C(0), C(1), D(0)', D(1)')
  BY <1>1, <1>3, <1>5, AddedIsDealt
<1>7. Listed'
  BY <1>2, <1>6 DEF Listed, RingType, Pipes, Dealt, HasTurn, N, IsNull
<1>8. Drained'
  BY <1>1 DEF Drained
<1> QED
  BY <1>7, <1>8 DEF ListIsKept

\* decode moves instructions and keeps their order and their slots
LEMMA DecodeKeepsListed ==
  ASSUME Structure, Addressed, ListIsKept, Decode
  PROVE ListIsKept'
<1>1. /\ \A k \in Pipes : A(k)' = A(k) /\ D(k)' = D(k)
      /\ \/ /\ NoneAt(B(0), B(1))
            /\ \A k \in Pipes : B(k)' = SimDecode(C(k)) /\ C(k)' = NullInstr
         \/ /\ NoneAt(C(0), C(1))
            /\ \A k \in Pipes : /\ B(k)' = B(k) \/ (IsNull(B(k)') /\ IsNull(B(k)))
                                /\ IsNull(C(k)')
  BY DecodeKeepsStructure
<1>2. /\ UNCHANGED ring /\ at' = <<"execute", 0>>
      /\ \A k \in Pipes : /\ SimDecode(C(k)).slot = C(k).slot
                          /\ IsNull(C(k)) <=> IsNull(SimDecode(C(k)))
  BY DecodeIs
<1>3. RingType(ring) /\ Dealt(ring, A(0), A(1), B(0), B(1), C(0), C(1), D(0), D(1))
  BY DEF ListIsKept, Listed
<1>4. Dealt(ring, A(0)', A(1)', B(0)', B(1)', C(0)', C(1)', D(0)', D(1)')
  <2>1. CASE /\ NoneAt(B(0), B(1))
             /\ \A k \in Pipes : B(k)' = SimDecode(C(k)) /\ C(k)' = NullInstr
    <3>1. Dealt(ring, A(0), A(1), C(0), C(1), NullInstr, NullInstr, D(0), D(1))
      BY <1>3, <2>1, MovedIsDealt
    <3>2. /\ Same(A(0)', A(0)) /\ Same(A(1)', A(1)) /\ Same(B(0)', C(0)) /\ Same(B(1)', C(1))
          /\ Same(C(0)', NullInstr) /\ Same(C(1)', NullInstr)
          /\ Same(D(0)', D(0)) /\ Same(D(1)', D(1))
      BY <1>1, <1>2, <2>1 DEF Same, Pipes
    <3> QED
      BY <1>3, <3>1, <3>2, SameIsDealt
  <2>2. CASE /\ NoneAt(C(0), C(1))
             /\ \A k \in Pipes : /\ B(k)' = B(k) \/ (IsNull(B(k)') /\ IsNull(B(k)))
                                 /\ IsNull(C(k)')
    <3>1. /\ Same(A(0)', A(0)) /\ Same(A(1)', A(1)) /\ Same(B(0)', B(0)) /\ Same(B(1)', B(1))
          /\ Same(C(0)', C(0)) /\ Same(C(1)', C(1)) /\ Same(D(0)', D(0)) /\ Same(D(1)', D(1))
      BY <1>1, <2>2 DEF Same, Pipes, NoneAt
    <3> QED
      BY <1>3, <3>1, SameIsDealt
  <2> QED
    BY <1>1, <2>1, <2>2
<1>5. Listed'
  BY <1>2, <1>3, <1>4 DEF Listed, RingType, Dealt, HasTurn, N, IsNull
<1>6. NoneAt(C(0)', C(1)')
  BY <1>1, NullIsInstr DEF NoneAt, Pipes
<1>7. Drained'
  BY <1>6 DEF Drained, NoneAt, IsNull
<1> QED
  BY <1>5, <1>7 DEF ListIsKept

\* what issues leaves the list at its oldest end, a flush takes the rest
LEMMA ExecuteKeepsListed ==
  ASSUME Structure, Addressed, ListIsKept, NEW i, NEW flags, NEW slots, NEW waiting,
         ExecuteStep(i, flags, slots, waiting)
  PROVE ListIsKept'
<1> DEFINE j == at[2]
           go == Went(j, flags)
           flush == Flushes(j, i, flags)
<1>1. /\ at[1] = "execute" /\ j \in Pipes /\ Instr(i) /\ MovesOn(j, i, flags, slots, waiting)
      /\ Latches
  BY DEF ExecuteStep, Structure, Control
<1>2. /\ \A k \in Pipes : A(k)' = IF flush THEN NullInstr
                                  ELSE IF k = j THEN IF go THEN NullInstr ELSE i ELSE A(k)
      /\ \A k \in Pipes : /\ B(k)' = IF flush THEN NullInstr ELSE B(k)
                          /\ C(k)' = IF flush THEN NullInstr ELSE C(k)
                          /\ D(k)' = IF flush THEN NullInstr ELSE D(k)
      /\ at' = IF j = 1 \/ (~go /\ \A k \in 0 .. j : ~flags[k])
               THEN <<"release", 0>> ELSE <<"execute", 1>>
      /\ ring' = IF flush THEN [slots EXCEPT !.slots = [k \in DOMAIN @ |-> FALSE]] ELSE slots
  BY <1>1, MovesOnIs
<1>3. /\ Idles(j, i, flags) => IsNull(i) \/ ~go
      /\ Waits(j, i, flags) => ~go
      /\ Leaves(j, i, flags) => go
  BY <1>1, WentIs
<1>4. flush => go
  BY DEF Flushes
<1>5. RingType(ring) /\ Dealt(ring, A(0), A(1), B(0), B(1), C(0), C(1), D(0), D(1))
  BY DEF ListIsKept, Listed
<1>6. NoneAt(C(0), C(1))
  BY <1>1 DEF ListIsKept, Drained
<1>7. j = 1 => IsNull(A(0)) \/ stalled["execute"][0]
  BY <1>1 DEF Structure, InOrder, Flags
<1> HIDE DEF go, flush
<1> DEFINE a0 == IF j = 0 THEN IF go THEN NullInstr ELSE i ELSE A(0)
           a1 == IF j = 1 THEN IF go THEN NullInstr ELSE i ELSE A(1)
<1>8. RingType(slots) /\ Dealt(slots, a0, a1, B(0), B(1), C(0), C(1), D(0), D(1))
  <2>1. CASE IdleStep(j, i, flags, slots) \/ WaitStep(j, i, flags, slots)
    <3>1. /\ slots = ring /\ Same(a0, A(0)) /\ Same(a1, A(1))
      BY <1>1, <1>3, <2>1, NullIsInstr
         DEF IdleStep, WaitStep, Idles, Waits, Same, Pipes
    <3>2. Same(B(0), B(0)) /\ Same(B(1), B(1)) /\ Same(C(0), C(0)) /\ Same(C(1), C(1))
          /\ Same(D(0), D(0)) /\ Same(D(1), D(1))
      BY DEF Same
    <3> QED
      BY <1>5, <3>1, <3>2, SameIsDealt
  <2>2. CASE RestartStep(j, i, flags, slots) \/ IssueStep(j, i, flags, slots)
    <3>1. Leaves(j, i, flags) /\ slots = Freed(A(j).slot) /\ go
      BY <1>3, <2>2 DEF RestartStep, IssueStep
    <3>2. CASE j = 0
      <4>1. ~IsNull(A(0)) /\ a0 = NullInstr /\ a1 = A(1)
        BY <3>1, <3>2 DEF Leaves
      <4> HIDE DEF a0, a1
      <4> QED
        BY <1>5, <3>1, <3>2, <4>1, FreedIsDealt
    <3>3. CASE j = 1
      <4>1. ~IsNull(A(1)) /\ IsNull(A(0)) /\ a0 = A(0) /\ a1 = NullInstr
        BY <1>7, <3>1, <3>3 DEF Leaves
      <4> HIDE DEF a0, a1
      <4> QED
        BY <1>5, <3>1, <3>3, <4>1, FreedIsDealt
    <3> QED
      BY <1>1, <3>2, <3>3 DEF Pipes
  <2> QED
    BY <2>1, <2>2 DEF ExecuteStep
<1>9. CASE flush
  <2>1. \A k \in Pipes : /\ IsNull(A(k)') /\ IsNull(B(k)') /\ IsNull(C(k)') /\ IsNull(D(k)')
    BY <1>2, <1>9, NullIsInstr
  <2>2. RingType(ring') /\ Dealt(ring', A(0)', A(1)', B(0)', B(1)', C(0)', C(1)', D(0)', D(1)')
    <3>1. ring' = [slots EXCEPT !.slots = [k \in DOMAIN @ |-> FALSE]]
      BY <1>2, <1>9
    <3> QED
      BY <1>8, <2>1, <3>1, FlushedIsDealt DEF Pipes
  <2>3. Listed'
    BY <2>2 DEF Listed, RingType, Dealt, HasTurn, N, IsNull
  <2>4. Drained'
    BY <2>1 DEF Drained, NoneAt, IsNull, Pipes
  <2> QED
    BY <2>3, <2>4 DEF ListIsKept
<1>10. CASE ~flush
  <2>1. /\ A(0)' = a0 /\ A(1)' = a1 /\ ring' = slots
        /\ \A k \in Pipes : B(k)' = B(k) /\ C(k)' = C(k) /\ D(k)' = D(k)
    <3>1. \A k \in Pipes : A(k)' = IF k = j THEN IF go THEN NullInstr ELSE i ELSE A(k)
      BY <1>2, <1>10
    <3>2. \A k \in Pipes : B(k)' = B(k) /\ C(k)' = C(k) /\ D(k)' = D(k)
      BY <1>2, <1>10
    <3>3. ring' = slots
      BY <1>2, <1>10
    <3>4. 0 \in Pipes /\ 1 \in Pipes
      BY DEF Pipes
    <3> QED
      BY <3>1, <3>2, <3>3, <3>4
  <2> HIDE DEF a0, a1
  <2>2. Dealt(ring', A(0)', A(1)', B(0)', B(1)', C(0)', C(1)', D(0)', D(1)') /\ RingType(ring')
    BY <1>8, <2>1 DEF Pipes
  <2>3. Listed'
    BY <2>2 DEF Listed, RingType, Dealt, HasTurn, N, IsNull
  <2>4. Drained'
    BY <1>6, <2>1 DEF Drained, NoneAt, IsNull, Pipes
  <2> QED
    BY <2>3, <2>4 DEF ListIsKept
<1> QED
  BY <1>9, <1>10

\* the end of a cycle keeps the order
LEMMA UpdateLatchesKeepsListed ==
  ASSUME Structure, Addressed, ListIsKept, UpdateLatches
  PROVE ListIsKept'
<1>1. /\ at[1] = "latch" /\ at' = <<"fetch", 0>> /\ UNCHANGED ring
  BY DEF UpdateLatches, Then
<1>2. \/ /\ NoneAt(A(0), A(1))
         /\ \A k \in Pipes : /\ A(k)' = B(k) /\ B(k)' = NullInstr
                             /\ C(k)' = D(k) /\ D(k)' = NullInstr
      \/ \A k \in Pipes : A(k)' = A(k) /\ B(k)' = B(k) /\ C(k)' = C(k) /\ D(k)' = D(k)
  BY UpdateLatchesIs
<1>3. /\ RingType(ring) /\ Dealt(ring, A(0), A(1), B(0), B(1), C(0), C(1), D(0), D(1))
      /\ NoneAt(C(0), C(1))
  BY <1>1 DEF ListIsKept, Listed, Drained
<1>4. Dealt(ring, A(0)', A(1)', B(0)', B(1)', C(0)', C(1)', D(0)', D(1)')
  BY <1>2, <1>3, MovedIsDealt DEF Pipes
<1>5. Listed'
  BY <1>1, <1>3, <1>4 DEF Listed, RingType, Dealt, HasTurn, N, IsNull
<1> QED
  BY <1>1, <1>5 DEF ListIsKept, Drained

\* every step keeps the list
LEMMA StepKeepsListed ==
  ASSUME Structure, Addressed, ListIsKept, Steps
  PROVE ListIsKept'
<1>1. CASE FetchIdle \/ FetchStall
  <2>1. UNCHANGED <<ring, latch, nlatch>> /\ at[1] = "fetch" /\ at' = <<"decode", 0>>
    BY <1>1 DEF FetchIdle, FetchStall, behindFetch, Then
  <2> QED
    BY <2>1, StillListed DEF A, B, C, D
<1>2. CASE FetchLine
  BY <1>2, FetchKeepsListed
<1>3. CASE Decode
  BY <1>3, DecodeKeepsListed
<1>4. CASE \E i, flags, slots, waiting : ExecuteStep(i, flags, slots, waiting)
  BY <1>4, ExecuteKeepsListed
<1>5. CASE Release
  <2>1. UNCHANGED <<ring, latch, nlatch>> /\ at[1] = "release"
    BY <1>5 DEF Release
  <2> QED
    BY <2>1, StillListed DEF A, B, C, D
<1>6. CASE \/ \E i, flags : BackStage("mem", "EX2MC", "MC2FP", i, flags)
           \/ \E i, flags : BackStage("ccache", "FP2CC", "CC2WB", i, flags)
  <2>1. {"EX2MC", "FP2CC"} \subseteq Boundaries \ Fetched
        /\ {"MC2FP", "CC2WB"} \subseteq Boundaries \ (Fetched \cup {"EX2MC"})
    BY DEF Boundaries, Fetched
  <2>2. UNCHANGED ring /\ at[1] \in {"mem", "ccache"} /\ at[2] \in Pipes
    BY <1>6 DEF BackStage, Books, Structure, Control
  <2>3. \A k \in Pipes : A(k)' = A(k) /\ B(k)' = B(k) /\ C(k)' = C(k) /\ D(k)' = D(k)
    BY <1>6, <2>1, <2>2, BackStageIs DEF BackStage, Tells
  <2> QED
    BY <2>2, <2>3, StillListed
<1>7. CASE FpComplete
  <2>1. UNCHANGED ring /\ at[1] = "fp"
    BY <1>7 DEF FpComplete
  <2>2. \A k \in Pipes : A(k)' = A(k) /\ B(k)' = B(k) /\ C(k)' = C(k) /\ D(k)' = D(k)
    BY <1>7, FpCompleteIs DEF A, B, C, D, Boundaries
  <2> QED
    BY <2>1, <2>2, StillListed
<1>8. CASE WriteBack
  <2>1. UNCHANGED ring /\ at[1] = "wb"
    BY <1>8 DEF WriteBack
  <2>2. \A k \in Pipes : A(k)' = A(k) /\ B(k)' = B(k) /\ C(k)' = C(k) /\ D(k)' = D(k)
    BY <1>8, WriteBackIs DEF A, B, C, D, Boundaries
  <2> QED
    BY <2>1, <2>2, StillListed
<1>9. CASE UpdateLatches
  BY <1>9, UpdateLatchesKeepsListed
<1> QED
  BY <1>1, <1>2, <1>3, <1>4, <1>5, <1>6, <1>7, <1>8, <1>9 DEF Steps

\* and so does a step that changes nothing
LEMMA StutterKeepsListed ==
  ASSUME ListIsKept, UNCHANGED vars
  PROVE ListIsKept'
BY StillListed DEF vars, A, B, C, D

\* Counted from the youngest instruction that has not issued, the n-th one has
\* the n-th slot behind ListHead, and no other slot is taken.
THEOREM SlotsAreDealtInTurn == Spec => []ListIsKept
<1>1. Structure /\ Addressed /\ ListIsKept /\ [Next]_vars => ListIsKept'
  BY NextIsSteps, StepKeepsListed, StutterKeepsListed
<1> QED
  BY <1>1, InitListed, StructureHolds, PTL DEF Spec
-----------------------------------------------------------------------------
(***************************************************************************)
(* SpecRing: a slot of the list is in use by exactly one instruction.      *)
(***************************************************************************)
LEMMA FlightIs ==
  /\ DOMAIN Flight = 0 .. 23
  /\ Flight[16] = A(0) /\ Flight[17] = A(1) /\ Flight[18] = B(0) /\ Flight[19] = B(1)
  /\ Flight[20] = C(0) /\ Flight[21] = C(1) /\ Flight[22] = D(0) /\ Flight[23] = D(1)
  /\ \A n \in 0 .. 15 : \E b \in Boundaries \ Fetched, k \in Pipes :
       Flight[n] = latch[b][k] \/ Flight[n] = nlatch[b][k]
<1> DEFINE places == <<latch["CC2WB"], nlatch["CC2WB"], latch["FP2CC"], nlatch["FP2CC"],
                       latch["MC2FP"], nlatch["MC2FP"], latch["EX2MC"], nlatch["EX2MC"],
                       latch["DC2EX"], nlatch["DC2EX"], latch["IF2DC"], nlatch["IF2DC"]>>
<1>1. Flight = [n \in 0 .. 23 |-> places[n \div 2 + 1][n % 2]]
  BY DEF Flight
<1>2. /\ 16 \div 2 + 1 = 9 /\ 17 \div 2 + 1 = 9 /\ 18 \div 2 + 1 = 10 /\ 19 \div 2 + 1 = 10
      /\ 20 \div 2 + 1 = 11 /\ 21 \div 2 + 1 = 11 /\ 22 \div 2 + 1 = 12 /\ 23 \div 2 + 1 = 12
      /\ 16 % 2 = 0 /\ 17 % 2 = 1 /\ 18 % 2 = 0 /\ 19 % 2 = 1
      /\ 20 % 2 = 0 /\ 21 % 2 = 1 /\ 22 % 2 = 0 /\ 23 % 2 = 1
  OBVIOUS
<1>3. /\ places[9] = latch["DC2EX"] /\ places[10] = nlatch["DC2EX"]
      /\ places[11] = latch["IF2DC"] /\ places[12] = nlatch["IF2DC"]
  OBVIOUS
<1>4. \A m \in 1 .. 8 : \E b \in Boundaries \ Fetched :
        places[m] = latch[b] \/ places[m] = nlatch[b]
  BY DEF Boundaries, Fetched
<1> HIDE DEF places
<1>5. /\ Flight[16] = A(0) /\ Flight[17] = A(1) /\ Flight[18] = B(0) /\ Flight[19] = B(1)
      /\ Flight[20] = C(0) /\ Flight[21] = C(1) /\ Flight[22] = D(0) /\ Flight[23] = D(1)
  BY <1>1, <1>2, <1>3 DEF A, B, C, D
<1>6. ASSUME NEW n \in 0 .. 15
      PROVE \E b \in Boundaries \ Fetched, k \in Pipes :
              Flight[n] = latch[b][k] \/ Flight[n] = nlatch[b][k]
  <2>1. n \div 2 + 1 \in 1 .. 8 /\ n % 2 \in Pipes
    BY DEF Pipes
  <2>2. Flight[n] = places[n \div 2 + 1][n % 2]
    BY <1>1
  <2> QED
    BY <1>4, <2>1, <2>2
<1> QED
  BY <1>1, <1>5, <1>6

\* every turn up to the number of instructions is one instruction's
LEMMA TurnsAreTaken ==
  ASSUME NEW x0 \in {0, 1}, NEW x1 \in {0, 1}, NEW x2 \in {0, 1}, NEW x3 \in {0, 1},
         NEW x4 \in {0, 1}, NEW x5 \in {0, 1}, NEW x6 \in {0, 1}, NEW x7 \in {0, 1},
         NEW t \in 1 .. x0 + x1 + x2 + x3 + x4 + x5 + x6 + x7
  PROVE \/ x0 = 1 /\ t = x0 + x1 + x2 + x3 + x4 + x5 + x6 + x7
        \/ x1 = 1 /\ t = x1 + x2 + x3 + x4 + x5 + x6 + x7
        \/ x2 = 1 /\ t = x2 + x3 + x4 + x5 + x6 + x7
        \/ x3 = 1 /\ t = x3 + x4 + x5 + x6 + x7
        \/ x4 = 1 /\ t = x4 + x5 + x6 + x7
        \/ x5 = 1 /\ t = x5 + x6 + x7
        \/ x6 = 1 /\ t = x6 + x7
        \/ x7 = 1 /\ t = x7
OBVIOUS

\* the turn that a slot has, counted back from ListHead
LEMMA TurnOfSlot ==
  ASSUME NEW h \in 0 .. 5, NEW k \in 0 .. 5, NEW m \in 1 .. 6
  PROVE (h - m) % 6 = k <=> m = ((h - 1 - k) % 6) + 1
<1>1. ASSUME (h - m) % 6 = k PROVE m = ((h - 1 - k) % 6) + 1
  BY <1>1
<1>2. ASSUME m = ((h - 1 - k) % 6) + 1 PROVE (h - m) % 6 = k
  BY <1>2
<1> QED
  BY <1>1, <1>2

\* a slot is taken by exactly one instruction in flight, or by none
LEMMA SlotHolders ==
  ASSUME Structure, ListIsKept, NEW k \in DOMAIN ring.slots
  PROVE LET S == {n \in {m \in DOMAIN Flight : ~IsNull(Flight[m]) /\ ~Issued(Flight[m])}
                  : Flight[n].slot = k}
        IN /\ ring.slots[k] => \E n \in 16 .. 23 : S = {n}
           /\ ~ring.slots[k] => S = {}
<1> DEFINE S == {n \in {m \in DOMAIN Flight : ~IsNull(Flight[m]) /\ ~Issued(Flight[m])}
                 : Flight[n].slot = k}
           f == Flight
           x(n) == N(f[n])
           T(n) == CASE n = 16 -> x(16) + x(17) + x(18) + x(19) + x(20) + x(21) + x(22) + x(23)
                     [] n = 17 -> x(17) + x(18) + x(19) + x(20) + x(21) + x(22) + x(23)
                     [] n = 18 -> x(18) + x(19) + x(20) + x(21) + x(22) + x(23)
                     [] n = 19 -> x(19) + x(20) + x(21) + x(22) + x(23)
                     [] n = 20 -> x(20) + x(21) + x(22) + x(23)
                     [] n = 21 -> x(21) + x(22) + x(23)
                     [] n = 22 -> x(22) + x(23)
                     [] n = 23 -> x(23)
<1>1. /\ RingLength = 6 /\ ring.head \in 0 .. 5 /\ k \in 0 .. 5
  BY DEF ListIsKept, Listed, RingType, RingLength
<1>2. \A n \in S : n \in 16 .. 23
  <2> SUFFICES ASSUME NEW n \in S, n \notin 16 .. 23 PROVE FALSE
    OBVIOUS
  <2>1. n \in 0 .. 23 /\ ~IsNull(f[n]) /\ ~Issued(f[n])
    BY FlightIs
  <2>2. n \in 0 .. 15
    BY <2>1
  <2>3. PICK b \in Boundaries \ Fetched, j \in Pipes : f[n] = latch[b][j] \/ f[n] = nlatch[b][j]
    BY <2>2, FlightIs
  <2>4. PastIssue
    BY DEF Structure, InOrder
  <2> QED
    BY <2>1, <2>3, <2>4 DEF PastIssue
<1>3. \A n \in 16 .. 23 : ~Issued(f[n])
  <2>1. \A j \in Pipes : ~Issued(A(j)) /\ ~Issued(B(j)) /\ ~Issued(C(j)) /\ ~Issued(D(j))
    BY DEF Structure, InOrder, PastIssue, A, B, C, D, Fetched, Boundaries
  <2> QED
    BY <2>1, FlightIs DEF Pipes
<1>4. \A n \in 16 .. 23 : n \in S <=> ~IsNull(f[n]) /\ f[n].slot = k
  BY <1>3, FlightIs
<1>5. /\ T(16) \in 0 .. 6
      /\ \A n \in 16 .. 23 : x(n) = 1 => f[n].slot = (ring.head - T(n)) % 6
      /\ ring.slots[k] <=> (ring.head - 1 - k) % 6 < T(16)
  <2>1. T(16) <= 6 /\ \A n \in 16 .. 23 : x(n) \in {0, 1}
    BY <1>1, FlightIs, CountIs DEF ListIsKept, Listed, Dealt
  <2>2. T(16) \in 0 .. 6
    BY <2>1
  <2>3. ring.slots[k] <=> (ring.head - 1 - k) % 6 < T(16)
    BY <1>1, FlightIs DEF ListIsKept, Listed, Dealt
  <2>4. /\ HasTurn(f[16], T(16), ring.head) /\ HasTurn(f[17], T(17), ring.head)
        /\ HasTurn(f[18], T(18), ring.head) /\ HasTurn(f[19], T(19), ring.head)
        /\ HasTurn(f[20], T(20), ring.head) /\ HasTurn(f[21], T(21), ring.head)
        /\ HasTurn(f[22], T(22), ring.head) /\ HasTurn(f[23], T(23), ring.head)
    BY FlightIs DEF ListIsKept, Listed, Dealt
  <2> HIDE DEF T, f
  <2>5. \A n \in 16 .. 23 : HasTurn(f[n], T(n), ring.head)
    BY <2>4
  <2>6. \A n \in 16 .. 23 : x(n) = 1 => f[n].slot = (ring.head - T(n)) % 6
    BY <1>1, <2>5, CountIs DEF HasTurn
  <2> QED
    BY <2>2, <2>3, <2>6
<1>6. \A n \in 16 .. 23 : x(n) \in {0, 1} /\ (x(n) = 1 <=> ~IsNull(f[n]))
  BY CountIs
<1> DEFINE t == ((ring.head - 1 - k) % 6) + 1
<1>7. \A m \in 1 .. 6 : (ring.head - m) % 6 = k <=> m = t
  BY <1>1, TurnOfSlot
<1>8. t \in 1 .. 6 /\ (ring.slots[k] <=> t <= T(16))
  <2>1. (ring.head - 1 - k) % 6 \in 0 .. 5
    BY <1>1
  <2> HIDE DEF T
  <2> QED
    BY <1>5, <2>1
<1> HIDE DEF f, t
<1>9. \A n \in 16 .. 23 : x(n) = 1 => T(n) \in 1 .. 6
  BY <1>5, <1>6
<1>10. \A n \in 16 .. 23 : n \in S <=> x(n) = 1 /\ T(n) = t
  <2> HIDE DEF T, S, x
  <2> QED
    BY <1>4, <1>5, <1>6, <1>7, <1>9
<1>11. \A n, m \in 16 .. 23 : x(n) = 1 /\ x(m) = 1 /\ T(n) = T(m) => n = m
  BY <1>6
<1>12. ASSUME ring.slots[k] PROVE \E n \in 16 .. 23 : S = {n}
  <2>1. \E n \in 16 .. 23 : x(n) = 1 /\ T(n) = t
    BY <1>6, <1>8, <1>12, TurnsAreTaken
  <2>2. PICK n \in 16 .. 23 : x(n) = 1 /\ T(n) = t
    BY <2>1
  <2> HIDE DEF S, T, x
  <2>3. S = {n}
    BY <1>2, <1>10, <1>11, <2>2
  <2> QED
    BY <2>3
<1>13. ASSUME ~ring.slots[k] PROVE S = {}
  <2>1. \A n \in 16 .. 23 : x(n) = 1 => T(n) <= T(16)
    BY <1>6
  <2> HIDE DEF S, T, x
  <2> QED
    BY <1>2, <1>5, <1>8, <1>9, <1>10, <1>13, <2>1
<1> QED
  BY <1>12, <1>13

\* For every program: the list of speculative instructions has one slot for
\* each instruction that has not issued and none for any other.  So fetch
\* always finds the slot it takes free, and a flush deletes nothing that
\* commits.
THEOREM ListHoldsTheSpeculative == Spec => []SpecRing
<1>1. Structure /\ ListIsKept => SpecRing
  <2> SUFFICES ASSUME Structure, ListIsKept, NEW k \in DOMAIN ring.slots
               PROVE Cardinality({n \in {m \in DOMAIN Flight :
                                          ~IsNull(Flight[m]) /\ ~Issued(Flight[m])}
                                  : Flight[n].slot = k}) = IF ring.slots[k] THEN 1 ELSE 0
    BY DEF SpecRing
  <2> DEFINE S == {n \in {m \in DOMAIN Flight : ~IsNull(Flight[m]) /\ ~Issued(Flight[m])}
                   : Flight[n].slot = k}
  <2>1. /\ ring.slots[k] => \E n \in 16 .. 23 : S = {n}
        /\ ~ring.slots[k] => S = {}
    BY SlotHolders
  <2> HIDE DEF S
  <2>2. Cardinality(S) = IF ring.slots[k] THEN 1 ELSE 0
    <3>1. CASE ring.slots[k]
      BY <2>1, <3>1, FS_Singleton
    <3>2. CASE ~ring.slots[k]
      BY <2>1, <3>2, FS_EmptySet
    <3> QED
      BY <3>1, <3>2
  <2> QED
    BY <2>2 DEF S
<1> QED
  BY <1>1, SlotsAreDealtInTurn, StructureHolds, PTL
-----------------------------------------------------------------------------
(***************************************************************************)
(* Functional units and read ports.  A conditional move that does not move *)
(* becomes one of the types CMEQ_NOP and CMNE_NOP, which have no unit, and *)
(* never gives back the unit that it took: the theorem is about programs   *)
(* without one.                                                            *)
(***************************************************************************)
HasWord(types) == \E a \in DOMAIN prog : DecodeSwitch[prog[a].op].type \in types
Moveless == ~HasWord({"CMEQ", "CMNE"})

\* what decode has seen is of the type of its word
OfItsWord(i) == IsNull(i) \/ i.type = Decoded(i).type
Typed == \A k \in Pipes : OfItsWord(A(k)) /\ OfItsWord(B(k))

\* the core starts empty
LEMMA InitTyped == Init => Typed
<1> SUFFICES ASSUME Init PROVE Typed
  OBVIOUS
<1>1. \A k \in Pipes : A(k) = NullInstr /\ B(k) = NullInstr
  BY DEF Init, Empty, Pair, A, B, Boundaries
<1> QED
  BY <1>1, NullIsInstr DEF Typed, OfItsWord

\* a step that leaves the places in front of execute alone
LEMMA StillTyped ==
  ASSUME Typed, UNCHANGED prog, \A k \in Pipes : A(k)' = A(k) /\ B(k)' = B(k)
  PROVE Typed'
BY DEF Typed, OfItsWord, IsNull, Decoded

\* only decode fills those places, and programs do not change
LEMMA StepKeepsTyped ==
  ASSUME Structure, Addressed, Typed, Steps
  PROVE Typed' /\ UNCHANGED prog
<1>1. CASE FetchIdle \/ FetchStall \/ Release
  <2>1. UNCHANGED <<prog, latch, nlatch>>
    BY <1>1 DEF FetchIdle, FetchStall, Release, behindFetch
  <2> QED
    BY <2>1, StillTyped DEF A, B
<1>2. CASE FetchLine
  <2>1. /\ UNCHANGED <<prog, latch>>
        /\ \A b \in Boundaries, k \in Pipes : b # "IF2DC" => nlatch'[b][k] = nlatch[b][k]
    BY <1>2, FetchLineIs
  <2> QED
    BY <2>1, StillTyped DEF A, B, Boundaries
<1>3. CASE Decode
  <2>1. UNCHANGED prog
    BY <1>3 DEF Decode
  <2>2. /\ \A k \in Pipes : A(k)' = A(k)
        /\ \A k \in Pipes : B(k)' = SimDecode(C(k)) \/ B(k)' = B(k) \/ IsNull(B(k)')
    BY <1>3, DecodeKeepsStructure
  <2>3. \A k \in Pipes : /\ IsNull(C(k)) \/ SimDecode(C(k)).type = Decoded(C(k)).type
                         /\ IsNull(C(k)) <=> IsNull(SimDecode(C(k)))
                         /\ SimDecode(C(k)).pc = C(k).pc
    BY <1>3, DecodeIs
  <2>4. \A k \in Pipes : OfItsWord(SimDecode(C(k)))
    BY <2>3 DEF OfItsWord, Decoded
  <2> QED
    BY <2>1, <2>2, <2>4 DEF Typed, OfItsWord, IsNull, Decoded
<1>4. CASE \E i, flags, slots, waiting : ExecuteStep(i, flags, slots, waiting)
  <2>1. PICK i, flags, slots, waiting : ExecuteStep(i, flags, slots, waiting)
    BY <1>4
  <2>2. /\ at[2] \in Pipes /\ Instr(i) /\ Latches /\ UNCHANGED prog /\ i.pc = A(at[2]).pc
        /\ MovesOn(at[2], i, flags, slots, waiting)
    BY <2>1 DEF ExecuteStep, Structure, Control
  <2>3. /\ \A k \in Pipes : \/ A(k)' \in {NullInstr, A(k)}
                            \/ k = at[2] /\ A(k)' = i /\ ~Went(k, flags)
        /\ \A k \in Pipes : B(k)' \in {NullInstr, B(k)}
    BY <2>2, MovesOnIs
  <2>4. Went(at[2], flags) \/ IsNull(i) \/ i.type = A(at[2]).type
    BY <2>1, <2>2, WentIs DEF ExecuteStep, IdleStep, WaitStep, RestartStep, IssueStep, Idles
  <2>5. Went(at[2], flags) \/ OfItsWord(i)
    BY <2>2, <2>4 DEF Typed, OfItsWord, Decoded, IsNull
  <2> QED
    BY <2>2, <2>3, <2>5, NullIsInstr DEF Typed, OfItsWord, IsNull, Decoded
<1>5. CASE \/ \E i, flags : BackStage("mem", "EX2MC", "MC2FP", i, flags)
           \/ \E i, flags : BackStage("ccache", "FP2CC", "CC2WB", i, flags)
  <2>1. {"EX2MC", "FP2CC"} \subseteq Boundaries \ Fetched
        /\ {"MC2FP", "CC2WB"} \subseteq Boundaries \ (Fetched \cup {"EX2MC"})
    BY DEF Boundaries, Fetched
  <2>2. UNCHANGED prog /\ at[2] \in Pipes
    BY <1>5 DEF BackStage, Books, Structure, Control
  <2>3. \A k \in Pipes : A(k)' = A(k) /\ B(k)' = B(k)
    BY <1>5, <2>1, <2>2, BackStageIs DEF BackStage, Tells
  <2> QED
    BY <2>2, <2>3, StillTyped
<1>6. CASE FpComplete
  <2>1. UNCHANGED prog
    BY <1>6 DEF FpComplete
  <2> QED
    BY <1>6, <2>1, FpCompleteIs, StillTyped DEF A, B, Boundaries
<1>7. CASE WriteBack
  <2>1. UNCHANGED prog
    BY <1>7 DEF WriteBack
  <2> QED
    BY <1>7, <2>1, WriteBackIs, StillTyped DEF A, B, Boundaries
<1>8. CASE UpdateLatches
  <2>1. UNCHANGED prog
    BY <1>8 DEF UpdateLatches
  <2>2. \/ \A k \in Pipes : A(k)' = B(k) /\ B(k)' = NullInstr
        \/ \A k \in Pipes : A(k)' = A(k) /\ B(k)' = B(k)
    BY <1>8, UpdateLatchesIs
  <2> QED
    BY <2>1, <2>2, NullIsInstr DEF Typed, OfItsWord, IsNull, Decoded
<1> QED
  BY <1>1, <1>2, <1>3, <1>4, <1>5, <1>6, <1>7, <1>8 DEF Steps

\* and a step that changes nothing keeps the types
LEMMA StutterKeepsTyped ==
  ASSUME Typed, UNCHANGED vars
  PROVE Typed' /\ UNCHANGED prog
<1>1. UNCHANGED <<prog, latch, nlatch>>
  BY DEF vars
<1> QED
  BY <1>1, StillTyped DEF A, B

\* an instruction takes a number of read ports
LEMMA PortsAreNumbers ==
  ASSUME NEW i
  PROVE Ports(i) \in Int
<1>1. ASSUME NEW type, NEW f, type \notin VectorTypes \cup {"MFSR"}
      PROVE Len(LegacyReads(type, f)) \in Int
  <2>1. QueueReads(type) \in {TqRegs, <<TqRegs[1], TqRegs[2]>>, <<>>} \/ type \notin QueueTypes
    BY DEF QueueReads, QueueTypes
  <2>2. CASE type \in QueueTypes
    <3>1. LegacyReads(type, f) = QueueReads(type)
      BY <2>2 DEF LegacyReads, QueueTypes, FirstThenSecond, SecondAndFirst, OneSource, OnlyFirst,
                  ReadsItsDest, ThreeSources, VectorArith, VectorSources, VectorImmediate
    <3> QED
      BY <2>1, <2>2, <3>1 DEF TqRegs
  <2>3. CASE type \notin QueueTypes
    <3>1. LegacyReads(type, f) \in {<<f.sreg1, f.sreg0>>, <<f.sreg0>>, <<f.dreg>>,
                                   <<f.sreg0, f.sreg1, f.dreg>>, <<f.sreg1, f.sreg0, f.sacc>>,
                                   <<Ac(f.sacc)>>, <<>>}
      BY <1>1, <2>3 DEF LegacyReads, VectorArith, VectorTypes
    <3> QED
      BY <3>1
  <2> QED
    BY <2>2, <2>3
<1>2. ASSUME NEW type, NEW f PROVE ReadPorts(type, f) \in Int
  BY <1>1 DEF ReadPorts
<1> QED
  BY <1>2 DEF Ports

\* all units are free to begin with
LEMMA InitLent == Init => Lent
<1> SUFFICES ASSUME Init PROVE Lent
  OBVIOUS
<1>1. units = [u \in Units |-> IF u \in {"NONE", "BOTH"} THEN -1 ELSE 1] /\ ports = 4
      /\ moved = {} /\ at = <<"fetch", 0>>
  BY DEF Init
<1> QED
  BY <1>1 DEF Lent, Working, Real, Pipes

\* a step outside execute and release that takes and gives back nothing
LEMMA StillLent ==
  ASSUME Lent, UNCHANGED <<units, ports, moved>>, ~Working,
         at'[1] \notin {"execute", "release"}
  PROVE Lent'
BY DEF Lent, Working

\* nothing is taken when execute begins
LEMMA DecodeKeepsLent ==
  ASSUME Structure, Addressed, Lent, Decode
  PROVE Lent'
<1>1. UNCHANGED <<units, ports>> /\ moved' = {} /\ at' = <<"execute", 0>>
  BY DecodeIs
<1>2. at[1] = "decode"
  BY DEF Decode
<1>3. /\ DOMAIN units = Units /\ \A u \in Units : units[u] \in Int
      /\ ports = 4 /\ \A u \in Real : units[u] = 1
  BY <1>2 DEF Lent, Working
<1>4. \A u \in Real : UnitOf(0, u)' = 0 /\ UnitOf(1, u)' = 0
  BY <1>1 DEF UnitOf, Holds
<1>5. PortsHeld(0)' = 0 /\ PortsHeld(1)' = 0
  BY <1>1 DEF PortsHeld, Holds
<1> QED
  BY <1>1, <1>3, <1>4, <1>5 DEF Lent, Working

\* what execute issues takes its unit and ports, and moves on in the same step
LEMMA ExecuteKeepsLent ==
  ASSUME Structure, Addressed, Typed, Moveless, Lent,
         NEW i, NEW flags, NEW slots, NEW waiting, ExecuteStep(i, flags, slots, waiting),
         NEW j, j = at[2]
  PROVE Lent'
<1> DEFINE o == 1 - j
           go == Went(j, flags)
<1>1. /\ at[1] = "execute" /\ j \in Pipes /\ Instr(i) /\ MovesOn(j, i, flags, slots, waiting)
      /\ Latches /\ UNCHANGED prog /\ i.pc = A(j).pc
  BY DEF ExecuteStep, Structure, Control
<1>2. /\ \A k \in Pipes : E(k)' = IF k = j /\ go THEN i ELSE E(k)
      /\ at' \in {<<"release", 0>>, <<"execute", 1>>}
      /\ j = 1 => at' = <<"release", 0>>
      /\ moved' = IF go THEN moved \cup {j} ELSE moved
  BY <1>1, MovesOnIs
<1>3. /\ Idles(j, i, flags) => IsNull(i) \/ ~go
      /\ Waits(j, i, flags) => ~go
      /\ Leaves(j, i, flags) => go
  BY <1>1, WentIs
<1>4. /\ DOMAIN units = Units /\ \A u \in Units : units[u] \in Int
      /\ moved \subseteq Pipes /\ j \notin moved /\ (j = 0 => 1 \notin moved)
      /\ \A u \in Real : units[u] = 1 - UnitOf(0, u) - UnitOf(1, u)
      /\ ports = 4 - PortsHeld(0) - PortsHeld(1)
  BY <1>1 DEF Lent, Working
<1>5. /\ o \in Pipes /\ o # j /\ (j = 0 => o = 1) /\ (j = 1 => o = 0)
      /\ Real \subseteq Units
  BY <1>1 DEF Pipes, Real
<1> HIDE DEF go
<1>6. /\ \A u \in Real : UnitOf(j, u) = 0 /\ UnitOf(o, u)' = UnitOf(o, u)
      /\ PortsHeld(j) = 0 /\ PortsHeld(o)' = PortsHeld(o)
  <2>1. E(o)' = E(o) /\ (o \in moved' <=> o \in moved)
    BY <1>1, <1>2, <1>5
  <2>2. Holds(o)' = Holds(o)
    BY <2>1 DEF Holds, IsNull
  <2>3. Ports(E(o))' = Ports(E(o))
    BY <1>1, <2>1 DEF Ports, Decoded, Fields
  <2> QED
    BY <1>4, <2>1, <2>2, <2>3 DEF UnitOf, PortsHeld, Holds
<1>7. /\ \A u \in Real : units[u] = 1 - UnitOf(o, u)
      /\ ports = 4 - PortsHeld(o)
      /\ \A u \in Real : UnitOf(o, u) \in {0, 1}
      /\ PortsHeld(o) \in Int
  <2>1. \A u \in Real : UnitOf(o, u) \in {0, 1}
    BY DEF UnitOf
  <2>2. PortsHeld(o) \in Int
    BY PortsAreNumbers DEF PortsHeld
  <2>3. (j = 0 /\ o = 1) \/ (j = 1 /\ o = 0)
    BY <1>1, <1>5 DEF Pipes
  <2>4. /\ \A u \in Real : UnitOf(0, u) + UnitOf(1, u) = UnitOf(o, u)
        /\ PortsHeld(0) + PortsHeld(1) = PortsHeld(o)
    BY <1>6, <2>1, <2>2, <2>3
  <2>5. /\ \A u \in Real : UnitOf(0, u) \in Int /\ UnitOf(1, u) \in Int
        /\ PortsHeld(0) \in Int /\ PortsHeld(1) \in Int
    BY <1>6, <2>1, <2>2, <2>3
  <2> HIDE DEF o
  <2> QED
    BY <1>4, <2>1, <2>2, <2>4, <2>5
<1>8. /\ DOMAIN units' = Units /\ \A u \in Units : units'[u] \in Int
      /\ \A u \in Real : units'[u] = 1 - UnitOf(o, u) - UnitOf(j, u)'
      /\ ports' = 4 - PortsHeld(o) - PortsHeld(j)'
      /\ (\A u \in Real : UnitOf(j, u)' \in Int) /\ PortsHeld(j)' \in Int
  <2>1. CASE IdleStep(j, i, flags, slots) \/ WaitStep(j, i, flags, slots)
    <3>1. UNCHANGED <<units, ports>> /\ (IsNull(i) \/ ~go)
      BY <1>3, <2>1 DEF IdleStep, WaitStep
    <3>2. ~Holds(j)'
      BY <1>1, <1>2, <1>4, <3>1 DEF Holds, IsNull
    <3>3. (\A u \in Real : UnitOf(j, u)' = 0) /\ PortsHeld(j)' = 0
      BY <3>2 DEF UnitOf, PortsHeld
    <3> QED
      BY <1>4, <1>7, <3>1, <3>3
  <2>2. CASE RestartStep(j, i, flags, slots)
    <3>1. UNCHANGED <<units, ports>> /\ i.type = "DONE" /\ go
      BY <1>3, <2>2 DEF RestartStep
    <3>2. E(j)' = i
      BY <1>1, <1>2, <3>1
    <3>3. Unit("DONE") = "NONE"
      BY DEF Unit, IsShift, IsFPU, IsBranch, IsBranchDirect, MemUnit, IsMem, IsGlobal,
             IsCacheControl, BothUnits, QueueTypes, Broken
    <3>4. \A u \in Real : UnitOf(j, u)' = 0
      BY <3>1, <3>2, <3>3 DEF UnitOf, Real
    <3>5. PortsHeld(j)' = 0
      BY <3>1, <3>2 DEF PortsHeld, Ports
    <3> QED
      BY <1>4, <1>7, <3>1, <3>4, <3>5
  <2>3. CASE IssueStep(j, i, flags, slots)
    <3>1. /\ units' = [units EXCEPT ![Unit(A(j).type)] = @ - 1]
          /\ ports' = ports - Ports(A(j))
          /\ i.type \in Outcomes(A(j)) /\ go /\ ~IsNull(A(j)) /\ ~IsNull(i)
      BY <1>3, <2>3 DEF IssueStep, Leaves
    <3>2. A(j).type \notin {"CMEQ", "CMNE"}
      <4>1. A(j).type = DecodeSwitch[prog[A(j).pc].op].type
        BY <1>1, <3>1 DEF Typed, OfItsWord, Decoded
      <4>2. A(j).pc \in DOMAIN prog
        BY <1>1 DEF Addressed, A, Boundaries
      <4> QED
        BY <4>1, <4>2 DEF Moveless, HasWord
    <3>3. i.type = A(j).type
      BY <3>1, <3>2 DEF Outcomes
    <3>4. E(j)' = i /\ Holds(j)'
      BY <1>1, <1>2, <3>1 DEF Holds, IsNull
    <3>5. \A u \in Real : UnitOf(j, u)' = IF Unit(A(j).type) = u THEN 1 ELSE 0
      BY <3>3, <3>4 DEF UnitOf
    <3>6. PortsHeld(j)' = Ports(A(j))
      <4>1. PortsHeld(j)' = Ports(i)'
        BY <3>4 DEF PortsHeld
      <4>2. Ports(i)' = Ports(A(j))
        BY <1>1, <3>3 DEF Ports, Decoded, Fields
      <4> QED
        BY <4>1, <4>2
    <3>7. \A u \in Real : units'[u] = units[u] - UnitOf(j, u)'
      BY <1>4, <1>5, <3>1, <3>5
    <3>8. DOMAIN units' = Units /\ \A u \in Units : units'[u] \in Int
      BY <1>4, <3>1
    <3>9. \A u \in Real : UnitOf(j, u)' \in Int
      BY <3>5
    <3> QED
      BY <1>4, <1>5, <1>7, <3>1, <3>6, <3>7, <3>8, <3>9, PortsAreNumbers
  <2> QED
    BY <2>1, <2>2, <2>3 DEF ExecuteStep
<1>9. /\ \A u \in Real : UnitOf(0, u)' + UnitOf(1, u)' = UnitOf(o, u) + UnitOf(j, u)'
      /\ PortsHeld(0)' + PortsHeld(1)' = PortsHeld(o) + PortsHeld(j)'
      /\ \A u \in Real : UnitOf(0, u)' \in Int /\ UnitOf(1, u)' \in Int
      /\ PortsHeld(0)' \in Int /\ PortsHeld(1)' \in Int
  BY <1>1, <1>5, <1>6, <1>7, <1>8 DEF Pipes
<1>10. /\ \A u \in Real : units'[u] = 1 - UnitOf(0, u)' - UnitOf(1, u)'
       /\ ports' = 4 - PortsHeld(0)' - PortsHeld(1)'
  BY <1>7, <1>8, <1>9
<1>11. Working'
  BY <1>2 DEF Working
<1>12. /\ moved' \subseteq Pipes
       /\ at'[1] = "execute" => at'[2] \notin moved' /\ (at'[2] = 0 => 1 \notin moved')
  <2>1. moved' \subseteq Pipes
    BY <1>1, <1>2, <1>4
  <2>2. CASE j = 1
    BY <1>2, <2>1, <2>2
  <2>3. CASE j = 0
    <3>1. 1 \notin moved'
      BY <1>2, <1>4, <2>3
    <3> QED
      BY <1>2, <2>1, <3>1
  <2> QED
    BY <1>1, <2>2, <2>3 DEF Pipes
<1> QED
  BY <1>8, <1>10, <1>11, <1>12 DEF Lent

\* what has moved on is exactly what gives its unit and ports back
LEMMA ReleaseKeepsLent ==
  ASSUME Structure, Lent, Release
  PROVE Lent'
<1>1. /\ at[1] = "release" /\ at' = <<"mem", 0>> /\ UNCHANGED moved
      /\ units' = [u \in Units |-> units[u] + Cardinality({j \in Completed : Unit(E(j).type) = u})]
      /\ ports' = ports + PortsOf(0) + PortsOf(1)
  BY DEF Release, Then, E
<1>2. /\ \A u \in Units : units[u] \in Int
      /\ moved \subseteq Pipes /\ Pipes = {0, 1} /\ Real \subseteq Units
      /\ \A u \in Real : units[u] = 1 - UnitOf(0, u) - UnitOf(1, u)
      /\ ports = 4 - PortsHeld(0) - PortsHeld(1)
  BY <1>1 DEF Lent, Working, Pipes, Real
<1>3. \A j \in Pipes : j \in Completed <=> Holds(j)
  BY DEF Completed, Holds, Structure, InOrder, Roomy, A, E
<1>4. Completed \subseteq Pipes
  BY <1>2 DEF Completed
<1>5. PortsOf(0) = PortsHeld(0) /\ PortsOf(1) = PortsHeld(1)
  BY <1>2, <1>3 DEF PortsOf, PortsHeld, E
<1>6. PortsHeld(0) \in Int /\ PortsHeld(1) \in Int
  BY PortsAreNumbers DEF PortsHeld
<1>7. ports' = 4
  BY <1>1, <1>2, <1>5, <1>6
<1>8. ASSUME NEW u
      PROVE /\ Cardinality({j \in Completed : Unit(E(j).type) = u}) = UnitOf(0, u) + UnitOf(1, u)
            /\ UnitOf(0, u) \in {0, 1} /\ UnitOf(1, u) \in {0, 1}
  <2> DEFINE S == {j \in Completed : Unit(E(j).type) = u}
  <2>1. S \subseteq {0, 1} /\ (0 \in S <=> UnitOf(0, u) = 1) /\ (1 \in S <=> UnitOf(1, u) = 1)
    <3>1. \A j \in Pipes : j \in S <=> Holds(j) /\ Unit(E(j).type) = u
      BY <1>3
    <3>2. \A j : UnitOf(j, u) = 1 <=> Holds(j) /\ Unit(E(j).type) = u
      BY DEF UnitOf
    <3>3. S \subseteq Pipes
      BY <1>4
    <3> HIDE DEF S
    <3> QED
      BY <1>2, <3>1, <3>2, <3>3
  <2>2. UnitOf(0, u) \in {0, 1} /\ UnitOf(1, u) \in {0, 1}
    BY DEF UnitOf
  <2>3. /\ Cardinality({}) = 0 /\ Cardinality({0}) = 1 /\ Cardinality({1}) = 1
        /\ Cardinality({0, 1}) = 2
    <3>1. IsFiniteSet({0}) /\ Cardinality({0}) = 1 /\ Cardinality({1}) = 1
      BY FS_Singleton
    <3>2. Cardinality({0} \cup {1}) = 2
      BY <3>1, FS_AddElement
    <3>3. {0} \cup {1} = {0, 1}
      OBVIOUS
    <3> QED
      BY <3>1, <3>2, <3>3, FS_EmptySet
  <2>4. S \in {{}, {0}, {1}, {0, 1}}
    BY <2>1
  <2> HIDE DEF S
  <2>5. Cardinality(S) = UnitOf(0, u) + UnitOf(1, u)
    <3>1. CASE S = {}
      BY <2>1, <2>2, <2>3, <3>1
    <3>2. CASE S = {0}
      BY <2>1, <2>2, <2>3, <3>2
    <3>3. CASE S = {1}
      BY <2>1, <2>2, <2>3, <3>3
    <3>4. CASE S = {0, 1}
      BY <2>1, <2>2, <2>3, <3>4
    <3> QED
      BY <2>4, <3>1, <3>2, <3>3, <3>4
  <2> QED
    BY <2>2, <2>5 DEF S
<1>9. \A u \in Real : units'[u] = 1
  BY <1>1, <1>2, <1>8
<1>10. DOMAIN units' = Units /\ \A u \in Units : units'[u] \in Int
  BY <1>1, <1>2, <1>8
<1> QED
  BY <1>1, <1>2, <1>7, <1>9, <1>10 DEF Lent, Working

\* every step keeps these accounts
LEMMA StepKeepsLent ==
  ASSUME Structure, Addressed, Typed, Moveless, Lent, Steps
  PROVE Lent'
<1>1. CASE FetchIdle \/ FetchStall \/ FetchLine
  <2>1. at[1] = "fetch" /\ at' = <<"decode", 0>> /\ UNCHANGED <<units, ports, moved>>
    BY <1>1 DEF FetchIdle, FetchStall, FetchLine, behindFetch, Then
  <2> QED
    BY <2>1, StillLent DEF Working
<1>2. CASE Decode
  BY <1>2, DecodeKeepsLent
<1>3. CASE \E i, flags, slots, waiting : ExecuteStep(i, flags, slots, waiting)
  <2>1. PICK j : j = at[2]
    OBVIOUS
  <2> QED
    BY <1>3, <2>1, ExecuteKeepsLent
<1>4. CASE Release
  BY <1>4, ReleaseKeepsLent
<1>5. CASE \/ \E i, flags : BackStage("mem", "EX2MC", "MC2FP", i, flags)
           \/ \E i, flags : BackStage("ccache", "FP2CC", "CC2WB", i, flags)
  <2>1. {"EX2MC", "FP2CC"} \subseteq Boundaries \ Fetched
        /\ {"MC2FP", "CC2WB"} \subseteq Boundaries \ (Fetched \cup {"EX2MC"})
    BY DEF Boundaries, Fetched
  <2>2. UNCHANGED <<units, ports, moved>> /\ at[1] \in {"mem", "ccache"} /\ at[2] \in Pipes
    BY <1>5 DEF BackStage, Books, Structure, Control
  <2>3. at'[1] \in {"mem", "fp", "ccache", "wb"}
    BY <1>5, <2>1, <2>2, BackStageIs DEF BackStage, Tells
  <2> QED
    BY <2>2, <2>3, StillLent DEF Working
<1>6. CASE FpComplete \/ WriteBack \/ UpdateLatches
  <2>1. UNCHANGED <<units, ports, moved>> /\ at[1] \in {"fp", "wb", "latch"}
        /\ at' \in {<<"ccache", 0>>, <<"latch", 0>>, <<"fetch", 0>>}
    BY <1>6 DEF FpComplete, WriteBack, UpdateLatches, Then
  <2> QED
    BY <2>1, StillLent DEF Working
<1> QED
  BY <1>1, <1>2, <1>3, <1>4, <1>5, <1>6 DEF Steps

\* and so does a step that changes nothing
LEMMA StutterKeepsLent ==
  ASSUME Lent, UNCHANGED vars
  PROVE Lent'
<1>1. UNCHANGED <<at, prog, nlatch, units, ports, moved>>
  BY DEF vars
<1>2. \A k : UNCHANGED <<Holds(k), PortsHeld(k)>> /\ \A u : UNCHANGED UnitOf(k, u)
  BY <1>1 DEF Holds, PortsHeld, UnitOf, E, IsNull, Ports, Decoded, Fields
<1> QED
  BY <1>1, <1>2 DEF Lent, Working

\* For every program without a conditional move: when execute is over every
\* functional unit and every read port has been given back.
THEOREM NothingStaysLent == Spec => [](Moveless => UnitsReturned)
<1> DEFINE I == Typed /\ (Moveless => Lent)
<1>1. Init => I
  BY InitTyped, InitLent
<1>2. Structure /\ Addressed /\ I /\ [Next]_vars => I'
  <2>1. ASSUME UNCHANGED prog, Moveless' PROVE Moveless
    BY <2>1 DEF Moveless, HasWord
  <2>2. ASSUME Structure, Addressed, I, Steps PROVE I'
    BY <2>1, <2>2, StepKeepsTyped, StepKeepsLent
  <2>3. ASSUME I, UNCHANGED vars PROVE I'
    BY <2>1, <2>3, StutterKeepsTyped, StutterKeepsLent
  <2> QED
    BY <2>2, <2>3, NextIsSteps
<1>3. I => (Moveless => UnitsReturned)
  BY DEF Lent, Working, Real, UnitsReturned
<1> HIDE DEF I
<1> QED
  BY <1>1, <1>2, <1>3, StructureHolds, PTL DEF Spec
-----------------------------------------------------------------------------
(***************************************************************************)
(* The stages behind execute are in turn: a stage has room for what it     *)
(* hands on, keeps only what it flags as stalled, and UpdateLatches puts   *)
(* nothing where something is.                                             *)
(***************************************************************************)
Past == Boundaries \ Fetched
NoneIn(l, b) == IsNull(l[b][0]) /\ IsNull(l[b][1])
Stops(s) == stalled[s][0] \/ stalled[s][1]
Ahead(s) ==
  \/ at[1] \in {"fetch", "decode", "execute", "release"}
  \/ at[1] = s /\ at[2] = 0
  \/ s = "ccache" /\ at[1] \in {"mem", "fp"}
Over(s) == at[1] \in {"wb", "latch"} \/ (s = "mem" /\ at[1] \in {"fp", "ccache"})
InTurn(s, from, to) ==
  /\ \A j \in Pipes : IsNull(latch[from][j]) \/ IsNull(nlatch[to][j])
  /\ Ahead(s) => NoneIn(nlatch, to) \/ (s = "mem" /\ (NoneIn(latch, from) \/ Stops(s)))
  /\ at[1] = s /\ at[2] = 1 => IsNull(latch[from][0]) \/ stalled[s][0]
  /\ Over(s) => NoneIn(latch, from) \/ Stops(s)
Passing ==
  /\ NoneIn(latch, "MC2FP") \/ NoneIn(nlatch, "FP2CC")
  /\ at[1] \in {"ccache", "wb", "latch"} => NoneIn(latch, "MC2FP")
  /\ at[1] = "latch" => NoneIn(latch, "CC2WB")
MemTurn == InTurn("mem", "EX2MC", "MC2FP")
CacheTurn == InTurn("ccache", "FP2CC", "CC2WB")
Onward == MemTurn /\ CacheTurn /\ Passing

\* a step of another stage
LEMMA StillInTurn ==
  ASSUME NEW s, NEW from, NEW to, InTurn(s, from, to),
         \A k \in Pipes : latch'[from][k] = latch[from][k] /\ nlatch'[to][k] = nlatch[to][k],
         stalled'[s] = stalled[s],
         Ahead(s)' => Ahead(s), Over(s)' => Over(s), ~(at'[1] = s /\ at'[2] = 1)
  PROVE InTurn(s, from, to)'
<1>1. Pipes = {0, 1}
  BY DEF Pipes
<1>2. /\ NoneIn(nlatch, to)' <=> NoneIn(nlatch, to)
      /\ NoneIn(latch, from)' <=> NoneIn(latch, from)
      /\ Stops(s)' <=> Stops(s)
  BY <1>1 DEF NoneIn, Stops, IsNull
<1> QED
  BY <1>1, <1>2 DEF InTurn, IsNull

\* a step of the stage itself
LEMMA BackStageKeepsTurn ==
  ASSUME Structure, NEW s \in {"mem", "ccache"}, NEW from \in Past,
         NEW to \in Past \ {"EX2MC"}, NEW i, NEW flags, BackStage(s, from, to, i, flags),
         InTurn(s, from, to)
  PROVE InTurn(s, from, to)'
<1> DEFINE j == at[2]
           go == Goes(to, j, flags)
           next == CASE s = "mem" -> "fp" [] s = "ccache" -> "wb"
<1>1. /\ at[1] = s /\ j \in Pipes /\ Pipes = {0, 1} /\ s \in Stages /\ DOMAIN stalled = Stages
      /\ HandOn(s, from, to, j, i, flags, {}) /\ Alike(i, latch[from][j])
      /\ Tells(s, j, latch[from][j], flags) /\ DOMAIN flags = Pipes
  BY DEF BackStage, Structure, Control, Stages, Tells, Pipes
<1>2. \A k \in Pipes :
        /\ latch'[from][k] = IF k = j THEN IF go THEN NullInstr ELSE i ELSE latch[from][k]
        /\ nlatch'[to][k] = IF k = j /\ go THEN i ELSE nlatch[to][k]
  BY <1>1, BackStageIs DEF Past
<1>3. stalled'[s] = flags
  BY <1>1 DEF HandOn
<1>4. at' = IF j = 1 \/ (~go /\ \A k \in 0 .. j : ~flags[k]) THEN <<next, 0>> ELSE <<s, 1>>
  BY <1>1 DEF HandOn, Then, After
<1>5. go <=> (\A k \in 0 .. j : ~flags[k]) /\ IsNull(nlatch[to][j])
  BY DEF Goes
<1>6. IsNull(i) <=> IsNull(latch[from][j])
  BY <1>1 DEF Alike, IsNull
<1>7. (j = 0 => 0 .. j = {0}) /\ (j = 1 => 0 .. j = {0, 1})
  OBVIOUS
<1> HIDE DEF go
<1>8. next \in {"fp", "wb"} /\ (s = "mem" => next = "fp") /\ (s = "ccache" => next = "wb")
  OBVIOUS
<1> HIDE DEF next
<1>9. \A k \in Pipes : IsNull(latch'[from][k]) \/ IsNull(nlatch'[to][k])
  BY <1>1, <1>2, <1>5, <1>6, NullIsInstr DEF InTurn
<1>10. ~Ahead(s)'
  BY <1>4, <1>8 DEF Ahead
<1>11. CASE j = 1
  <2>1. at' = <<next, 0>>
    BY <1>4, <1>11
  <2>2. IsNull(latch[from][0]) \/ flags[0]
    BY <1>1, <1>11 DEF InTurn, Tells
  <2>3. NoneIn(latch', from) \/ flags[0] \/ flags[1]
    BY <1>1, <1>2, <1>5, <1>6, <1>7, <1>9, <1>11, <2>2, NullIsInstr DEF NoneIn, InTurn
  <2>4. NoneIn(latch, from)' \/ Stops(s)'
    BY <1>3, <2>3 DEF NoneIn, Stops, IsNull
  <2>5. ~(at'[1] = s /\ at'[2] = 1)
    BY <2>1
  <2> QED
    BY <1>9, <1>10, <2>4, <2>5 DEF InTurn, IsNull
<1>12. CASE j = 0
  <2>1. CASE go \/ flags[0]
    <3>1. at' = <<s, 1>>
      BY <1>4, <1>5, <1>7, <1>12, <2>1
    <3>2. IsNull(latch'[from][0]) \/ stalled'[s][0]
      BY <1>1, <1>2, <1>3, <1>12, <2>1, NullIsInstr
    <3>3. ~Over(s)'
      BY <3>1 DEF Over
    <3> QED
      BY <1>9, <1>10, <3>2, <3>3 DEF InTurn, IsNull
  <2>2. CASE ~go /\ ~flags[0]
    <3>1. at' = <<next, 0>> /\ ~IsNull(nlatch[to][0])
      BY <1>4, <1>5, <1>7, <1>12, <2>2
    <3>2. Ahead(s) /\ ~NoneIn(nlatch, to)
      BY <1>1, <1>12, <3>1 DEF Ahead, NoneIn
    <3>3. s = "mem" /\ (NoneIn(latch, from) \/ Stops(s)) /\ IsNull(latch[from][0])
      BY <1>1, <3>1, <3>2 DEF InTurn
    <3>4. /\ flags[0] <=> stalled[s][0]
          /\ flags[1] <=> stalled[s][1]
      BY <1>1, <1>12, <3>3 DEF Tells
    <3>5. NoneIn(latch', from) \/ flags[0] \/ flags[1]
      BY <1>1, <1>2, <1>6, <1>12, <2>2, <3>3, <3>4 DEF NoneIn, Stops
    <3>6. NoneIn(latch, from)' \/ Stops(s)'
      BY <1>3, <3>5 DEF NoneIn, Stops, IsNull
    <3>7. ~(at'[1] = s /\ at'[2] = 1)
      BY <3>1
    <3> QED
      BY <1>9, <1>10, <3>6, <3>7 DEF InTurn, IsNull
  <2> QED
    BY <2>1, <2>2
<1> QED
  BY <1>1, <1>11, <1>12

\* the core starts empty
LEMMA InitOnward == Init => Onward
<1> SUFFICES ASSUME Init PROVE Onward
  OBVIOUS
<1>1. \A b \in Boundaries, k \in Pipes : latch[b][k] = NullInstr /\ nlatch[b][k] = NullInstr
  BY DEF Init, Empty, Pair
<1>2. \A b \in Boundaries : NoneIn(latch, b) /\ NoneIn(nlatch, b)
  BY <1>1, NullIsInstr DEF NoneIn, Pipes
<1>3. \A b \in Boundaries, k \in Pipes : IsNull(latch[b][k]) /\ IsNull(nlatch[b][k])
  BY <1>1, NullIsInstr
<1>4. at = <<"fetch", 0>>
  BY DEF Init
<1>5. \A b, c \in Boundaries, s \in {"mem", "ccache"} : InTurn(s, b, c)
  BY <1>2, <1>3, <1>4 DEF InTurn, Over
<1> QED
  BY <1>2, <1>5 DEF Onward, MemTurn, CacheTurn, Passing, Boundaries

\* the stages up to execute and the release of its units, which come before
LEMMA FrontKeepsOnward ==
  ASSUME Onward, at[1] \in {"fetch", "decode", "execute", "release"},
         \/ at'[1] \in {"decode", "execute", "release"}
         \/ at' = <<"mem", 0>>,
         \A b \in Past, k \in Pipes :
           /\ latch'[b][k] = latch[b][k]
           /\ b # "EX2MC" => nlatch'[b][k] = nlatch[b][k],
         \A s \in {"mem", "ccache"} : stalled'[s] = stalled[s]
  PROVE Onward'
<1>1. \A s \in {"mem", "ccache"} :
        Ahead(s) /\ ~Over(s)' /\ ~(at'[1] = s /\ at'[2] = 1)
  BY DEF Ahead, Over
<1>2. {"EX2MC", "MC2FP", "FP2CC", "CC2WB"} \subseteq Past
  BY DEF Past, Boundaries, Fetched
<1>3. MemTurn'
  BY <1>1, <1>2, StillInTurn DEF Onward, MemTurn
<1>4. CacheTurn'
  BY <1>1, <1>2, StillInTurn DEF Onward, CacheTurn
<1>5. Passing'
  BY <1>2 DEF Onward, Passing, NoneIn, IsNull, Pipes
<1> QED
  BY <1>3, <1>4, <1>5 DEF Onward

\* memory hands on to fpcomplete
LEMMA MemKeepsOnward ==
  ASSUME Structure, Onward, NEW i, NEW flags, BackStage("mem", "EX2MC", "MC2FP", i, flags)
  PROVE Onward'
<1>1. /\ {"EX2MC", "MC2FP", "FP2CC", "CC2WB"} \subseteq Past
      /\ "MC2FP" # "EX2MC"
  BY DEF Past, Boundaries, Fetched
<1>2. MemTurn'
  BY <1>1, BackStageKeepsTurn DEF Onward, MemTurn
<1>3. /\ at[1] = "mem" /\ at[2] \in Pipes /\ Alike(i, latch["EX2MC"][at[2]])
      /\ HandOn("mem", "EX2MC", "MC2FP", at[2], i, flags, {}) /\ DOMAIN flags = Pipes
  BY DEF BackStage, Structure, Control, Tells
<1>4. \A b \in Boundaries, k \in Pipes :
        /\ b # "EX2MC" => latch'[b][k] = latch[b][k]
        /\ b # "MC2FP" => nlatch'[b][k] = nlatch[b][k]
  BY <1>1, <1>3, BackStageIs DEF Past
<1>5. /\ at' \in {<<"mem", 1>>, <<"fp", 0>>}
      /\ stalled'["ccache"] = stalled["ccache"]
  BY <1>3 DEF HandOn, Then, After, Structure, Control, Stages
<1>6. /\ Ahead("ccache") /\ ~Over("ccache")' /\ ~(at'[1] = "ccache" /\ at'[2] = 1)
  BY <1>3, <1>5 DEF Ahead, Over
<1>7. CacheTurn'
  BY <1>1, <1>4, <1>5, <1>6, StillInTurn DEF Onward, CacheTurn, Past
<1>8. Passing'
  BY <1>1, <1>4, <1>5 DEF Onward, Passing, NoneIn, IsNull, Pipes, Past
<1> QED
  BY <1>2, <1>7, <1>8 DEF Onward

\* fpcomplete passes on all it has, for there is room
LEMMA FpCompleteKeepsOnward ==
  ASSUME Structure, Onward, FpComplete
  PROVE Onward'
<1> DEFINE Moves(k) == IsNull(nlatch["FP2CC"][0]) /\ (k = 0 \/ IsNull(nlatch["FP2CC"][1]))
<1>1. /\ UNCHANGED stalled /\ at' = <<"ccache", 0>> /\ at[1] = "fp"
      /\ \A b \in Boundaries, k \in Pipes :
           /\ latch'[b][k] = IF b = "MC2FP" /\ Moves(k) THEN NullInstr ELSE latch[b][k]
           /\ nlatch'[b][k] = IF b = "FP2CC" /\ Moves(k) THEN latch["MC2FP"][k]
                              ELSE nlatch[b][k]
  BY FpCompleteIs DEF FpComplete
<1>2. Passing
  BY DEF Onward
<1>3. NoneIn(nlatch, "FP2CC") => Moves(0) /\ Moves(1)
  BY DEF NoneIn
<1> HIDE DEF Moves
<1>4. {"EX2MC", "MC2FP", "FP2CC", "CC2WB"} \subseteq Boundaries
  BY DEF Boundaries
<1>5. NoneIn(latch', "MC2FP")
  BY <1>1, <1>2, <1>3, <1>4, NullIsInstr DEF Passing, NoneIn, Pipes
<1>6. Passing'
  BY <1>1, <1>5 DEF Passing, NoneIn, IsNull
<1>7. /\ Over("mem") /\ ~Ahead("mem")' /\ Ahead("ccache") /\ ~Over("ccache")'
  BY <1>1 DEF Over, Ahead
<1>8. MemTurn'
  BY <1>1, <1>4, <1>7, StillInTurn DEF Onward, MemTurn
<1>9. CacheTurn'
  BY <1>1, <1>4, <1>7, StillInTurn DEF Onward, CacheTurn
<1> QED
  BY <1>6, <1>8, <1>9 DEF Onward

\* cache access hands on to write-back
LEMMA CacheKeepsOnward ==
  ASSUME Structure, Onward, NEW i, NEW flags, BackStage("ccache", "FP2CC", "CC2WB", i, flags)
  PROVE Onward'
<1>1. {"EX2MC", "MC2FP", "FP2CC", "CC2WB"} \subseteq Past
  BY DEF Past, Boundaries, Fetched
<1>2. CacheTurn'
  BY <1>1, BackStageKeepsTurn DEF Onward, CacheTurn
<1>3. /\ at[1] = "ccache" /\ at[2] \in Pipes /\ Alike(i, latch["FP2CC"][at[2]])
      /\ HandOn("ccache", "FP2CC", "CC2WB", at[2], i, flags, {}) /\ DOMAIN flags = Pipes
  BY DEF BackStage, Structure, Control, Tells
<1>4. \A b \in Boundaries, k \in Pipes :
        /\ b # "FP2CC" => latch'[b][k] = latch[b][k]
        /\ b # "CC2WB" => nlatch'[b][k] = nlatch[b][k]
  BY <1>1, <1>3, BackStageIs DEF Past
<1>5. /\ at' \in {<<"ccache", 1>>, <<"wb", 0>>}
      /\ stalled'["mem"] = stalled["mem"]
  BY <1>3 DEF HandOn, Then, After, Structure, Control, Stages
<1>6. Over("mem") /\ ~Ahead("mem")' /\ ~(at'[1] = "mem" /\ at'[2] = 1)
  BY <1>3, <1>5 DEF Ahead, Over
<1>7. MemTurn'
  BY <1>1, <1>4, <1>5, <1>6, StillInTurn DEF Onward, MemTurn, Past
<1>8. Passing'
  BY <1>1, <1>3, <1>4, <1>5 DEF Onward, Passing, NoneIn, IsNull, Pipes, Past
<1> QED
  BY <1>2, <1>7, <1>8 DEF Onward

\* write-back empties its places
LEMMA WriteBackKeepsOnward ==
  ASSUME Structure, Onward, WriteBack
  PROVE Onward'
<1>1. /\ UNCHANGED stalled /\ at' = <<"latch", 0>> /\ at[1] = "wb"
      /\ \A b \in Boundaries, k \in Pipes :
           /\ latch'[b][k] = IF b = "CC2WB" THEN NullInstr ELSE latch[b][k]
           /\ nlatch'[b][k] = nlatch[b][k]
  BY WriteBackIs DEF WriteBack, Then
<1>2. {"EX2MC", "MC2FP", "FP2CC", "CC2WB"} \subseteq Boundaries
  BY DEF Boundaries
<1>3. \A s \in {"mem", "ccache"} : Over(s) /\ ~Ahead(s)' /\ ~(at'[1] = s /\ at'[2] = 1)
  BY <1>1 DEF Over, Ahead
<1>4. MemTurn'
  BY <1>1, <1>2, <1>3, StillInTurn DEF Onward, MemTurn
<1>5. CacheTurn'
  BY <1>1, <1>2, <1>3, StillInTurn DEF Onward, CacheTurn
<1>6. NoneIn(latch', "CC2WB")
  BY <1>1, <1>2, NullIsInstr DEF NoneIn, Pipes
<1>7. Passing'
  BY <1>1, <1>2, <1>6 DEF Onward, Passing, NoneIn, IsNull, Pipes
<1> QED
  BY <1>4, <1>5, <1>7 DEF Onward

\* what moves at the end of a cycle finds its place empty
LEMMA MovingIsOnward ==
  ASSUME Structure, Onward, UpdateLatches
  PROVE Moving \subseteq Boundaries /\ \A b \in Moving \cap Past : NoneIn(latch, b)
<1>1. at[1] = "latch" /\ Over("mem") /\ Over("ccache")
  BY DEF UpdateLatches, Over
<1>2. /\ NoneIn(latch, "EX2MC") \/ Stops("mem")
      /\ NoneIn(latch, "FP2CC") \/ Stops("ccache")
      /\ NoneIn(latch, "MC2FP") /\ NoneIn(latch, "CC2WB")
  BY <1>1 DEF Onward, MemTurn, CacheTurn, InTurn, Passing
<1>3. \A s \in {"mem", "ccache"} : Stops(s) <=> IsStalled(s, 1)
  BY DEF Stops, IsStalled
<1>4. /\ "FP2CC" \in Moving => ~Stops("ccache")
      /\ "EX2MC" \in Moving => ~Stops("mem")
  BY <1>3 DEF Moving
<1>5. Moving \subseteq Boundaries
  BY DEF Moving, Boundaries
<1>6. Past = {"EX2MC", "MC2FP", "FP2CC", "CC2WB"}
  BY DEF Past, Boundaries, Fetched
<1> QED
  BY <1>2, <1>4, <1>5, <1>6

\* the end of a cycle: what moves goes where nothing is
LEMMA UpdateLatchesKeepsOnward ==
  ASSUME Structure, Onward, UpdateLatches
  PROVE Onward'
<1>1. /\ UNCHANGED stalled /\ at' = <<"fetch", 0>> /\ at[1] = "latch"
      /\ \A b \in Boundaries, k \in Pipes :
           /\ latch'[b][k] = IF b \in Moving THEN nlatch[b][k] ELSE latch[b][k]
           /\ nlatch'[b][k] = IF b \in Moving THEN NullInstr ELSE nlatch[b][k]
  BY UpdateLatchesIs DEF UpdateLatches, Then
<1>2. {"EX2MC", "MC2FP", "FP2CC", "CC2WB"} \subseteq Boundaries
  BY DEF Boundaries
<1>3. /\ "CC2WB" \in Moving
      /\ "EX2MC" \in Moving => "MC2FP" \in Moving
      /\ "MC2FP" \in Moving <=> "FP2CC" \in Moving
  BY DEF Moving, Boundaries
<1> HIDE DEF Moving
<1>4. \A s \in {"mem", "ccache"} :
        Over(s) /\ ~Over(s)' /\ ~(at'[1] = s /\ at'[2] = 1) /\ (Stops(s)' <=> Stops(s))
  BY <1>1 DEF Over, Stops
<1>5. /\ NoneIn(nlatch', "CC2WB")
      /\ \A k \in Pipes : IsNull(nlatch'["CC2WB"][k])
  BY <1>1, <1>2, <1>3, NullIsInstr DEF NoneIn, Pipes
<1>6. CacheTurn'
  BY <1>4, <1>5 DEF CacheTurn, InTurn, NoneIn, IsNull
<1>7. \A k \in Pipes : IsNull(latch'["EX2MC"][k]) \/ IsNull(nlatch'["MC2FP"][k])
  BY <1>1, <1>2, <1>3, NullIsInstr DEF Onward, MemTurn, InTurn
<1>8. NoneIn(nlatch', "MC2FP") \/ NoneIn(latch', "EX2MC") \/ Stops("mem")
  <2>1. NoneIn(latch, "EX2MC") \/ Stops("mem")
    BY <1>4 DEF Onward, MemTurn, InTurn
  <2> QED
    BY <1>1, <1>2, <1>3, <2>1, NullIsInstr DEF NoneIn, Pipes
<1>9. MemTurn'
  BY <1>4, <1>7, <1>8 DEF MemTurn, InTurn, NoneIn, IsNull
<1>10. NoneIn(latch', "MC2FP") \/ NoneIn(nlatch', "FP2CC")
  BY <1>1, <1>2, <1>3, NullIsInstr DEF Onward, Passing, NoneIn, Pipes
<1>11. Passing'
  BY <1>1, <1>10 DEF Passing, NoneIn, IsNull
<1> QED
  BY <1>6, <1>9, <1>11 DEF Onward

\* every step keeps the stages in turn
LEMMA StepKeepsOnward ==
  ASSUME Structure, Addressed, Onward, Steps
  PROVE Onward'
<1>1. CASE FetchIdle \/ FetchStall \/ Release
  <2>1. /\ UNCHANGED <<latch, nlatch, stalled>> /\ at[1] \in {"fetch", "release"}
        /\ at' \in {<<"decode", 0>>, <<"mem", 0>>}
    BY <1>1 DEF FetchIdle, FetchStall, Release, behindFetch, Then
  <2> QED
    BY <2>1, FrontKeepsOnward
<1>2. CASE FetchLine
  <2>1. /\ UNCHANGED <<latch, stalled>> /\ at[1] = "fetch" /\ at' = <<"decode", 0>>
        /\ \A b \in Boundaries, k \in Pipes : b # "IF2DC" => nlatch'[b][k] = nlatch[b][k]
    BY <1>2, FetchLineIs DEF FetchLine, behindFetch
  <2> QED
    BY <2>1, FrontKeepsOnward DEF Past, Fetched
<1>3. CASE Decode
  <2>1. /\ UNCHANGED stalled /\ at[1] = "decode" /\ at' = <<"execute", 0>>
        /\ \A b \in Past, k \in Pipes :
             latch'[b][k] = latch[b][k] /\ nlatch'[b][k] = nlatch[b][k]
    BY <1>3, DecodeIs DEF Decode, Past, Fetched
  <2> QED
    BY <2>1, FrontKeepsOnward
<1>4. CASE \E i, flags, slots, waiting : ExecuteStep(i, flags, slots, waiting)
  <2>1. PICK i, flags, slots, waiting : ExecuteStep(i, flags, slots, waiting)
    BY <1>4
  <2>2. /\ at[1] = "execute" /\ at[2] \in Pipes /\ Instr(i) /\ Latches
        /\ MovesOn(at[2], i, flags, slots, waiting) /\ DOMAIN stalled = Stages
    BY <2>1 DEF ExecuteStep, Structure, Control
  <2>3. /\ \A b \in Past, k \in Pipes :
             /\ latch'[b][k] = latch[b][k]
             /\ b # "EX2MC" => nlatch'[b][k] = nlatch[b][k]
        /\ at' \in {<<"release", 0>>, <<"execute", 1>>}
        /\ stalled' = [stalled EXCEPT !["execute"] = flags]
    BY <2>2, MovesOnIs DEF Past
  <2> QED
    BY <2>2, <2>3, FrontKeepsOnward DEF Stages
<1>5. CASE \E i, flags : BackStage("mem", "EX2MC", "MC2FP", i, flags)
  BY <1>5, MemKeepsOnward
<1>6. CASE FpComplete
  BY <1>6, FpCompleteKeepsOnward
<1>7. CASE \E i, flags : BackStage("ccache", "FP2CC", "CC2WB", i, flags)
  BY <1>7, CacheKeepsOnward
<1>8. CASE WriteBack
  BY <1>8, WriteBackKeepsOnward
<1>9. CASE UpdateLatches
  BY <1>9, UpdateLatchesKeepsOnward
<1> QED
  BY <1>1, <1>2, <1>3, <1>4, <1>5, <1>6, <1>7, <1>8, <1>9 DEF Steps
-----------------------------------------------------------------------------
(***************************************************************************)
(* The scoreboard: the use count of an entry is the number of instructions *)
(* past execute that write its register.  Types that write-back gives      *)
(* nothing back for (CMEQ_NOP, CMNE_NOP, EVENT, PRIO) break it, and so     *)
(* does a SYNC, which turns an instruction that claimed nothing into one   *)
(* that has issued: the theorem is about programs without them.            *)
(***************************************************************************)
Plain == ~HasWord({"CMEQ", "CMNE", "EVENT", "PRIO", "SYNC"})

\* 1 for an instruction past execute that writes r
Writes(p, i, r) ==
  IF "Exec" \in i.done
     /\ r \in LegacyWrites(DecodeSwitch[p[i.pc].op].type,
                           SetRegs(DecodeSwitch[p[i.pc].op].fmt, p[i.pc])) \ {0}
  THEN 1 ELSE 0
PairWrites(p, l, b, r) == Writes(p, l[b][0], r) + Writes(p, l[b][1], r)
AllWrites(p, l, r) ==
  PairWrites(p, l, "CC2WB", r) + PairWrites(p, l, "FP2CC", r) + PairWrites(p, l, "MC2FP", r)
  + PairWrites(p, l, "EX2MC", r)
Entry(e) == {"ready", "use", "bypass", "locked", "value"} \subseteq DOMAIN e /\ e.use \in Int
Entries == \A r \in Regs : Entry(board[r])
Counted ==
  /\ Entries
  /\ \A r \in Regs : board[r].use = AllWrites(prog, latch, r) + AllWrites(prog, nlatch, r)

\* what has issued is of the type of its word, and no SYNC is acknowledged
Sorted ==
  /\ \A b \in Past, k \in Pipes : OfItsWord(latch[b][k]) /\ OfItsWord(nlatch[b][k])
  /\ ~sync.ack

\* counting
LEMMA WritesIs ==
  ASSUME NEW p, NEW r
  PROVE /\ \A i : Writes(p, i, r) \in {0, 1}
        /\ Writes(p, NullInstr, r) = 0
        /\ \A i : ~Issued(i) => Writes(p, i, r) = 0
        /\ \A i, o : i.pc = o.pc /\ (Issued(i) <=> Issued(o)) => Writes(p, i, r) = Writes(p, o, r)
BY DEF Writes, Issued, NullInstr

\* sums of counts are integers
LEMMA PairWritesIs ==
  ASSUME NEW p, NEW r, NEW l, NEW b
  PROVE PairWrites(p, l, b, r) \in Int
<1>1. Writes(p, l[b][0], r) \in {0, 1} /\ Writes(p, l[b][1], r) \in {0, 1}
  BY WritesIs
<1> QED
  BY <1>1 DEF PairWrites

\* and so are sums over all places
LEMMA AllWritesIs ==
  ASSUME NEW p, NEW r, NEW l
  PROVE AllWrites(p, l, r) \in Int
<1>1. /\ PairWrites(p, l, "CC2WB", r) \in Int /\ PairWrites(p, l, "FP2CC", r) \in Int
      /\ PairWrites(p, l, "MC2FP", r) \in Int /\ PairWrites(p, l, "EX2MC", r) \in Int
  BY PairWritesIs
<1> QED
  BY <1>1 DEF AllWrites

\* a change at one boundary
LEMMA OtherCounts ==
  ASSUME NEW p, NEW r, NEW l, NEW x, NEW c \in Past,
         \A b \in Past : b # c => PairWrites(p, x, b, r) = PairWrites(p, l, b, r)
  PROVE AllWrites(p, x, r) - PairWrites(p, x, c, r) = AllWrites(p, l, r) - PairWrites(p, l, c, r)
<1>1. Past = {"EX2MC", "MC2FP", "FP2CC", "CC2WB"}
  BY DEF Past, Boundaries, Fetched
<1>2. /\ PairWrites(p, l, "CC2WB", r) \in Int /\ PairWrites(p, l, "FP2CC", r) \in Int
      /\ PairWrites(p, l, "MC2FP", r) \in Int /\ PairWrites(p, l, "EX2MC", r) \in Int
      /\ PairWrites(p, x, "CC2WB", r) \in Int /\ PairWrites(p, x, "FP2CC", r) \in Int
      /\ PairWrites(p, x, "MC2FP", r) \in Int /\ PairWrites(p, x, "EX2MC", r) \in Int
  BY PairWritesIs
<1>3. CASE c = "EX2MC"
  BY <1>1, <1>2, <1>3 DEF AllWrites
<1>4. CASE c = "MC2FP"
  BY <1>1, <1>2, <1>4 DEF AllWrites
<1>5. CASE c = "FP2CC"
  BY <1>1, <1>2, <1>5 DEF AllWrites
<1>6. CASE c = "CC2WB"
  BY <1>1, <1>2, <1>6 DEF AllWrites
<1> QED
  BY <1>1, <1>3, <1>4, <1>5, <1>6

\* one boundary loses what another gains
LEMMA SameCount ==
  ASSUME NEW p, NEW r, NEW l, NEW m, NEW x, NEW y,
         NEW from \in Past, NEW to \in Past, NEW d \in Int,
         \A b \in Past : b # from => PairWrites(p, x, b, r) = PairWrites(p, l, b, r),
         \A b \in Past : b # to => PairWrites(p, y, b, r) = PairWrites(p, m, b, r),
         PairWrites(p, x, from, r) + PairWrites(p, y, to, r)
         = PairWrites(p, l, from, r) + PairWrites(p, m, to, r) + d
  PROVE AllWrites(p, x, r) + AllWrites(p, y, r) = AllWrites(p, l, r) + AllWrites(p, m, r) + d
<1>1. PICK a \in Int : a = PairWrites(p, x, from, r)
  BY PairWritesIs
<1>2. PICK b \in Int : b = PairWrites(p, y, to, r)
  BY PairWritesIs
<1>3. PICK c \in Int : c = PairWrites(p, l, from, r)
  BY PairWritesIs
<1>4. PICK e \in Int : e = PairWrites(p, m, to, r)
  BY PairWritesIs
<1>5. PICK g \in Int : g = AllWrites(p, x, r)
  BY AllWritesIs
<1>6. PICK h \in Int : h = AllWrites(p, y, r)
  BY AllWritesIs
<1>7. PICK k \in Int : k = AllWrites(p, l, r)
  BY AllWritesIs
<1>8. PICK n \in Int : n = AllWrites(p, m, r)
  BY AllWritesIs
<1>9. g + h = k + n + d
  <2>1. a + b = c + e + d
    BY <1>1, <1>2, <1>3, <1>4
  <2>2. g - a = k - c
    BY <1>1, <1>3, <1>5, <1>7, OtherCounts
  <2>3. h - b = n - e
    BY <1>2, <1>4, <1>6, <1>8, OtherCounts
  <2> QED
    BY <2>1, <2>2, <2>3
<1> QED
  BY <1>5, <1>6, <1>7, <1>8, <1>9

\* each boundary keeps what it has, in one latch or the other
LEMMA SameSums ==
  ASSUME NEW p, NEW r, NEW l, NEW m, NEW x, NEW y,
         \A b \in Past : PairWrites(p, x, b, r) + PairWrites(p, y, b, r)
                         = PairWrites(p, l, b, r) + PairWrites(p, m, b, r)
  PROVE AllWrites(p, x, r) + AllWrites(p, y, r) = AllWrites(p, l, r) + AllWrites(p, m, r)
<1>1. Past = {"EX2MC", "MC2FP", "FP2CC", "CC2WB"}
  BY DEF Past, Boundaries, Fetched
<1>2. \A b \in Past : /\ PairWrites(p, x, b, r) \in Int /\ PairWrites(p, y, b, r) \in Int
                      /\ PairWrites(p, l, b, r) \in Int /\ PairWrites(p, m, b, r) \in Int
  BY PairWritesIs
<1> QED
  BY <1>1, <1>2 DEF AllWrites

\* the counts after a step, in terms of the latches after it
LEMMA CountedAgain ==
  ASSUME Entries',
         \A r \in Regs : board'[r].use = AllWrites(prog', latch', r) + AllWrites(prog', nlatch', r)
  PROVE Counted'
<1>1. ASSUME NEW r PROVE /\ AllWrites(prog, latch, r)' = AllWrites(prog', latch', r)
                         /\ AllWrites(prog, nlatch, r)' = AllWrites(prog', nlatch', r)
  BY DEF AllWrites, PairWrites, Writes
<1> QED
  BY <1>1 DEF Counted

\* what the operations of the scoreboard do to a use count
LEMMA UseIs ==
  ASSUME Entries, NEW i, NEW r \in Regs
  PROVE /\ Entry(Checked(i)[r]) /\ Checked(i)[r].use = board[r].use
        /\ Entry(Claimed(i)[r])
        /\ Claimed(i)[r].use = board[r].use + (IF r \in Dests(i) THEN 1 ELSE 0)
        /\ Entry(Upgraded(i)[r]) /\ Upgraded(i)[r].use = board[r].use
<1>1. Entry(board[r])
  BY DEF Entries
<1>2. /\ Entry(Cleared(board[r])) /\ Cleared(board[r]).use = board[r].use
  BY <1>1 DEF Cleared, Entry
<1>3. Entry(Checked(i)[r]) /\ Checked(i)[r].use = board[r].use
  BY <1>1, <1>2 DEF Checked
<1>4. /\ Entry(Claimed(i)[r])
      /\ Claimed(i)[r].use = board[r].use + (IF r \in Dests(i) THEN 1 ELSE 0)
  <2>1. CASE r \in Dests(i)
    BY <1>3, <2>1 DEF Claimed, Entry
  <2>2. CASE r \notin Dests(i)
    <3>1. Claimed(i)[r] = Checked(i)[r]
      BY <2>2 DEF Claimed
    <3> QED
      BY <1>3, <2>2, <3>1 DEF Entry
  <2> QED
    BY <2>1, <2>2
<1>5. Entry(Upgraded(i)[r]) /\ Upgraded(i)[r].use = board[r].use
  BY <1>1 DEF Upgraded, Entry
<1> QED
  BY <1>3, <1>4, <1>5

\* write-back gives back what was claimed
LEMMA TakenIs ==
  ASSUME Plain, NEW i, i.pc \in DOMAIN prog, OfItsWord(i), Issued(i) <=> ~IsNull(i), NEW r
  PROVE Writes(prog, i, r) = IF r \in Taken(i) THEN 1 ELSE 0
<1>1. Writes(prog, i, r) = IF Issued(i) /\ r \in Dests(i) THEN 1 ELSE 0
  BY DEF Writes, Issued, Dests, Decoded, Fields
<1>2. CASE IsNull(i)
  BY <1>1, <1>2 DEF Taken
<1>3. CASE ~IsNull(i)
  <2>1. i.type = Decoded(i).type /\ Decoded(i) = DecodeSwitch[prog[i.pc].op]
    BY <1>3 DEF OfItsWord, Decoded
  <2>2. i.type \notin {"EVENT", "PRIO"}
    BY <2>1 DEF Plain, HasWord
  <2>3. i.type \in Broken => Dests(i) = {}
    <3>1. Broken \cap (VectorDest \cup QueueTypes) = {}
      BY DEF Broken, VectorDest, VectorSources, VectorImmediate, QueueTypes
    <3> QED
      BY <2>1, <3>1 DEF Dests, LegacyWrites
  <2> QED
    BY <1>1, <1>3, <2>2, <2>3 DEF Taken
<1> QED
  BY <1>2, <1>3

\* every step keeps what has issued of the type of its word
LEMMA SortedAgain ==
  ASSUME UNCHANGED prog, ~sync'.ack,
         \A b \in Past, k \in Pipes : OfItsWord(latch'[b][k]) /\ OfItsWord(nlatch'[b][k])
  PROVE Sorted'
BY DEF Sorted, OfItsWord, IsNull, Decoded

\* execute hands on what has the type of its word
LEMMA ExecuteKeepsSorted ==
  ASSUME Structure, Addressed, Typed, Plain, Sorted,
         NEW i, NEW flags, NEW slots, NEW waiting, ExecuteStep(i, flags, slots, waiting)
  PROVE Sorted'
<1> DEFINE j == at[2]
<1>1. /\ j \in Pipes /\ Instr(i) /\ Latches /\ UNCHANGED prog /\ i.pc = A(j).pc
      /\ MovesOn(j, i, flags, slots, waiting)
      /\ A(j).pc \in DOMAIN prog /\ OfItsWord(A(j))
  BY DEF ExecuteStep, Structure, Control, Addressed, Typed, A, Boundaries
<1>2. A(j).type \notin {"CMEQ", "CMNE", "SYNC"}
  BY <1>1 DEF OfItsWord, IsNull, Decoded, Plain, HasWord
<1>3. Went(j, flags) => IsNull(i) \/ i.type = A(j).type
  BY <1>1, <1>2, WentIs DEF ExecuteStep, IdleStep, WaitStep, RestartStep, IssueStep,
      Sorted, Outcomes
<1>4. Went(j, flags) => OfItsWord(i)
  BY <1>1, <1>3 DEF OfItsWord, IsNull, Decoded
<1>5. ~sync'.ack
  BY <1>2 DEF ExecuteStep, Sorted
<1>6. \A b \in Past, k \in Pipes :
        /\ latch'[b][k] = latch[b][k]
        /\ nlatch'[b][k] = nlatch[b][k] \/ (Went(j, flags) /\ nlatch'[b][k] = i)
  <2>1. \A b \in Past, k \in Pipes :
          /\ latch'[b][k] = latch[b][k]
          /\ b # "EX2MC" => nlatch'[b][k] = nlatch[b][k]
    BY <1>1, MovesOnIs DEF Past
  <2>2. \A k \in Pipes : E(k)' = IF k = j /\ Went(j, flags) THEN i ELSE E(k)
    BY <1>1, MovesOnIs
  <2> QED
    BY <2>1, <2>2 DEF E
<1> QED
  BY <1>1, <1>4, <1>5, <1>6, SortedAgain DEF Sorted

\* a back stage changes no type
LEMMA BackStageKeepsSorted ==
  ASSUME Structure, Sorted, NEW s \in {"mem", "ccache"}, NEW from \in Past,
         NEW to \in Past \ {"EX2MC"}, NEW i, NEW flags, BackStage(s, from, to, i, flags)
  PROVE Sorted'
<1>1. /\ at[1] = s /\ at[2] \in Pipes /\ UNCHANGED <<prog, sync>>
      /\ HandOn(s, from, to, at[2], i, flags, {}) /\ Alike(i, latch[from][at[2]])
      /\ DOMAIN flags = Pipes
  BY DEF BackStage, Structure, Control, Tells, Books
<1>2. \A b \in Boundaries, k \in Pipes :
        /\ latch'[b][k] \in {NullInstr, i, latch[b][k]}
        /\ nlatch'[b][k] \in {i, nlatch[b][k]}
  BY <1>1, BackStageIs DEF Past
<1>3. OfItsWord(i) /\ OfItsWord(NullInstr)
  BY <1>1, NullIsInstr DEF Alike, OfItsWord, IsNull, Decoded, Sorted
<1> QED
  BY <1>1, <1>2, <1>3, SortedAgain DEF Sorted, Past

\* so does every step
LEMMA StepKeepsSorted ==
  ASSUME Structure, Addressed, Typed, Plain, Sorted, Steps
  PROVE Sorted'
<1>0. OfItsWord(NullInstr)
  BY NullIsInstr DEF OfItsWord
<1>1. CASE FetchIdle \/ FetchStall \/ Release
  <2>1. UNCHANGED <<prog, latch, nlatch, sync>>
    BY <1>1 DEF FetchIdle, FetchStall, Release, behindFetch
  <2> QED
    BY <2>1, SortedAgain DEF Sorted
<1>2. CASE FetchLine
  <2>1. /\ UNCHANGED <<prog, latch, sync>>
        /\ \A b \in Boundaries, k \in Pipes : b # "IF2DC" => nlatch'[b][k] = nlatch[b][k]
    BY <1>2, FetchLineIs DEF FetchLine, behindFetch
  <2> QED
    BY <2>1, SortedAgain DEF Sorted, Past, Fetched
<1>3. CASE Decode
  <2>1. /\ UNCHANGED <<prog, sync>>
        /\ \A b \in Past, k \in Pipes :
             latch'[b][k] = latch[b][k] /\ nlatch'[b][k] = nlatch[b][k]
    BY <1>3, DecodeIs DEF Decode, Past, Fetched
  <2> QED
    BY <2>1, SortedAgain DEF Sorted
<1>4. CASE \E i, flags, slots, waiting : ExecuteStep(i, flags, slots, waiting)
  BY <1>4, ExecuteKeepsSorted
<1>5. CASE \/ \E i, flags : BackStage("mem", "EX2MC", "MC2FP", i, flags)
           \/ \E i, flags : BackStage("ccache", "FP2CC", "CC2WB", i, flags)
  <2>1. {"EX2MC", "FP2CC"} \subseteq Past /\ {"MC2FP", "CC2WB"} \subseteq Past \ {"EX2MC"}
    BY DEF Past, Boundaries, Fetched
  <2> QED
    BY <1>5, <2>1, BackStageKeepsSorted
<1>6. CASE FpComplete
  <2>1. /\ UNCHANGED <<prog, sync>> /\ "MC2FP" \in Past
        /\ \A b \in Past, k \in Pipes :
             /\ latch'[b][k] \in {NullInstr, latch[b][k]}
             /\ nlatch'[b][k] \in {latch["MC2FP"][k], nlatch[b][k]}
    BY <1>6, FpCompleteIs DEF FpComplete, Past, Boundaries, Fetched
  <2> QED
    BY <1>0, <2>1, SortedAgain DEF Sorted
<1>7. CASE WriteBack
  <2>1. /\ UNCHANGED prog
        /\ \A b \in Past, k \in Pipes :
             latch'[b][k] \in {NullInstr, latch[b][k]} /\ nlatch'[b][k] = nlatch[b][k]
    BY <1>7, WriteBackIs DEF WriteBack, Past
  <2>2. \A k \in Pipes : OfItsWord(latch["CC2WB"][k]) /\ latch["CC2WB"][k].pc \in DOMAIN prog
    BY DEF Sorted, Past, Boundaries, Fetched, Addressed
  <2>3. \A k \in Pipes : latch["CC2WB"][k].type # "SYNC"
    BY <2>2 DEF OfItsWord, IsNull, Decoded, Plain, HasWord
  <2>4. UNCHANGED sync
    BY <1>7, <2>3 DEF WriteBack, Pipes
  <2> QED
    BY <1>0, <2>1, <2>4, SortedAgain DEF Sorted
<1>8. CASE UpdateLatches
  <2>1. /\ UNCHANGED <<prog, sync>>
        /\ \A b \in Past, k \in Pipes :
             /\ latch'[b][k] \in {nlatch[b][k], latch[b][k]}
             /\ nlatch'[b][k] \in {NullInstr, nlatch[b][k]}
    BY <1>8, UpdateLatchesIs DEF UpdateLatches, Past
  <2> QED
    BY <1>0, <2>1, SortedAgain DEF Sorted
<1> QED
  BY <1>1, <1>2, <1>3, <1>4, <1>5, <1>6, <1>7, <1>8 DEF Steps

\* the sum over a pair is the sum of its two places
LEMMA PairIs ==
  ASSUME NEW p, NEW r, NEW l, NEW b
  PROVE PairWrites(p, l, b, r) = Writes(p, l[b][0], r) + Writes(p, l[b][1], r)
BY DEF PairWrites

\* steps that leave the stages behind execute and the scoreboard alone
LEMMA SameCounted ==
  ASSUME Counted, UNCHANGED prog,
         \A b \in Past, k \in Pipes :
           latch'[b][k] = latch[b][k] /\ nlatch'[b][k] = nlatch[b][k],
         \A r \in Regs : Entry(board'[r]) /\ board'[r].use = board[r].use
  PROVE Counted'
<1>1. Entries'
  BY DEF Entries, Entry
<1>2. ASSUME NEW r \in Regs
      PROVE board'[r].use = AllWrites(prog', latch', r) + AllWrites(prog', nlatch', r)
  <2>1. \A b \in Past : /\ PairWrites(prog, latch', b, r) = PairWrites(prog, latch, b, r)
                        /\ PairWrites(prog, nlatch', b, r) = PairWrites(prog, nlatch, b, r)
    <3>1. \A b \in Past, k \in Pipes :
            /\ Writes(prog, latch'[b][k], r) = Writes(prog, latch[b][k], r)
            /\ Writes(prog, nlatch'[b][k], r) = Writes(prog, nlatch[b][k], r)
      OBVIOUS
    <3> QED
      BY <3>1, PairIs DEF Pipes
  <2>2. AllWrites(prog, latch', r) + AllWrites(prog, nlatch', r)
        = AllWrites(prog, latch, r) + AllWrites(prog, nlatch, r)
    BY <2>1, SameSums
  <2> QED
    BY <1>2, <2>2 DEF Counted
<1> QED
  BY <1>1, <1>2, CountedAgain

\* execute: what issues is counted and has claimed its registers
LEMMA ExecuteKeepsCounted ==
  ASSUME Structure, Addressed, Typed, Sorted, Counted,
         NEW i, NEW flags, NEW slots, NEW waiting, ExecuteStep(i, flags, slots, waiting)
  PROVE Counted'
<1> DEFINE j == at[2]
<1>1. /\ j \in Pipes /\ Pipes = {0, 1} /\ Instr(i) /\ Latches /\ UNCHANGED prog
      /\ i.pc = A(j).pc /\ MovesOn(j, i, flags, slots, waiting) /\ Entries /\ ~sync.ack
  BY DEF ExecuteStep, Structure, Control, Counted, Sorted, Pipes
<1>2. /\ \A b \in Past, k \in Pipes :
           /\ latch'[b][k] = latch[b][k]
           /\ b # "EX2MC" => nlatch'[b][k] = nlatch[b][k]
      /\ \A k \in Pipes : nlatch'["EX2MC"][k] = IF k = j /\ Went(j, flags) THEN i
                                                ELSE nlatch["EX2MC"][k]
  BY <1>1, MovesOnIs DEF Past, E
<1>3. Went(j, flags) => ~Issued(nlatch["EX2MC"][j])
  <2>1. Went(j, flags) => IsNull(E(j))
    BY DEF Went, Goes, E
  <2> QED
    BY <1>1, <2>1 DEF Structure, InOrder, PastIssue, E, Boundaries, Fetched
<1>4. ~Issued(A(j))
  BY <1>1 DEF Structure, InOrder, PastIssue, A, Boundaries, Fetched
<1> HIDE DEF j
<1>5. CASE IdleStep(j, i, flags, slots) \/ WaitStep(j, i, flags, slots)
  <2>1. /\ UNCHANGED board \/ board' = Checked(A(j))
        /\ ~Went(j, flags) \/ ~Issued(i)
    BY <1>1, <1>4, <1>5, WentIs DEF IdleStep, WaitStep, Idles
  <2>2. \A r \in Regs : Entry(board'[r]) /\ board'[r].use = board[r].use
    BY <1>1, <2>1, UseIs DEF Entries
  <2>3. Entries'
    BY <2>2 DEF Entries, Entry
  <2>4. ASSUME NEW r \in Regs
        PROVE board'[r].use = AllWrites(prog', latch', r) + AllWrites(prog', nlatch', r)
    <3>1. \A b \in Past, k \in Pipes :
            /\ Writes(prog, latch'[b][k], r) = Writes(prog, latch[b][k], r)
            /\ Writes(prog, nlatch'[b][k], r) = Writes(prog, nlatch[b][k], r)
      BY <1>2, <1>3, <2>1, WritesIs
    <3>2. \A b \in Past : /\ PairWrites(prog, latch', b, r) = PairWrites(prog, latch, b, r)
                          /\ PairWrites(prog, nlatch', b, r) = PairWrites(prog, nlatch, b, r)
      BY <1>1, <3>1, PairIs
    <3>3. AllWrites(prog, latch', r) + AllWrites(prog, nlatch', r)
          = AllWrites(prog, latch, r) + AllWrites(prog, nlatch, r)
      BY <3>2, SameSums
    <3> QED
      BY <1>1, <2>2, <2>4, <3>3 DEF Counted
  <2> QED
    BY <2>3, <2>4, CountedAgain
<1>6. CASE IssueStep(j, i, flags, slots)
  <2>1. board' = Claimed(A(j)) /\ Went(j, flags) /\ Issued(i)
    BY <1>1, <1>6, WentIs DEF IssueStep, Leaves
  <2>2. Entries'
    BY <1>1, <2>1, UseIs DEF Entries, Entry
  <2>3. ASSUME NEW r \in Regs
        PROVE board'[r].use = AllWrites(prog', latch', r) + AllWrites(prog', nlatch', r)
    <3> DEFINE d == IF r \in Dests(A(j)) THEN 1 ELSE 0
    <3>1. Writes(prog, i, r) = d
      BY <1>1, <2>1 DEF Writes, Issued, Dests, Decoded, Fields
    <3>2. board'[r].use = board[r].use + d
      BY <1>1, <2>1, <2>3, UseIs
    <3>3. d \in Int
      OBVIOUS
    <3> HIDE DEF d
    <3>4. Writes(prog, nlatch["EX2MC"][j], r) = 0
      BY <1>3, <2>1, WritesIs
    <3>5. PairWrites(prog, nlatch', "EX2MC", r) = PairWrites(prog, nlatch, "EX2MC", r) + d
      <4>1. \A k \in Pipes : Writes(prog, nlatch["EX2MC"][k], r) \in {0, 1}
        BY WritesIs
      <4>2. \A k \in Pipes : Writes(prog, nlatch'["EX2MC"][k], r)
                             = IF k = j THEN d ELSE Writes(prog, nlatch["EX2MC"][k], r)
        BY <1>2, <2>1, <3>1
      <4>3. CASE j = 0
        BY <1>1, <3>3, <3>4, <4>1, <4>2, <4>3, PairIs
      <4>4. CASE j = 1
        BY <1>1, <3>3, <3>4, <4>1, <4>2, <4>4, PairIs
      <4> QED
        BY <1>1, <4>3, <4>4
    <3>6. \A b \in Past : PairWrites(prog, latch', b, r) = PairWrites(prog, latch, b, r)
      BY <1>1, <1>2, PairIs
    <3>7. \A b \in Past : b # "EX2MC" =>
            PairWrites(prog, nlatch', b, r) = PairWrites(prog, nlatch, b, r)
      BY <1>1, <1>2, PairIs
    <3>8. "EX2MC" \in Past
      BY DEF Past, Boundaries, Fetched
    <3>9. PairWrites(prog, latch', "EX2MC", r) + PairWrites(prog, nlatch', "EX2MC", r)
          = PairWrites(prog, latch, "EX2MC", r) + PairWrites(prog, nlatch, "EX2MC", r) + d
      <4>1. /\ PairWrites(prog, latch, "EX2MC", r) \in Int
            /\ PairWrites(prog, nlatch, "EX2MC", r) \in Int
        BY PairWritesIs
      <4> QED
        BY <3>3, <3>5, <3>6, <3>8, <4>1
    <3>10. AllWrites(prog, latch', r) + AllWrites(prog, nlatch', r)
           = AllWrites(prog, latch, r) + AllWrites(prog, nlatch, r) + d
      BY <3>3, <3>6, <3>7, <3>8, <3>9, SameCount
    <3> QED
      BY <1>1, <2>3, <3>2, <3>10 DEF Counted
  <2> QED
    BY <2>2, <2>3, CountedAgain
<1> QED
  BY <1>1, <1>5, <1>6 DEF ExecuteStep, RestartStep, j

\* a back stage: what is handed on is still counted
LEMMA BackStageKeepsCounted ==
  ASSUME Structure, Counted, NEW s \in {"mem", "ccache"}, NEW from \in Past,
         NEW to \in Past \ {"EX2MC"}, NEW i, NEW flags, BackStage(s, from, to, i, flags)
  PROVE Counted'
<1> DEFINE j == at[2]
           go == Goes(to, j, flags)
<1>1. /\ at[1] = s /\ j \in Pipes /\ Pipes = {0, 1} /\ UNCHANGED prog /\ Entries
      /\ HandOn(s, from, to, j, i, flags, {}) /\ Alike(i, latch[from][j])
      /\ DOMAIN flags = Pipes
      /\ UNCHANGED board \/ board' = Upgraded(latch[from][j])
  BY DEF BackStage, Structure, Control, Tells, Books, Counted, Pipes
<1>2. /\ \A b \in Boundaries, k \in Pipes :
           /\ latch'[b][k] = IF b = from /\ k = j THEN IF go THEN NullInstr ELSE i
                             ELSE latch[b][k]
           /\ nlatch'[b][k] = IF b = to /\ k = j /\ go THEN i ELSE nlatch[b][k]
      /\ go => IsNull(nlatch[to][j])
  BY <1>1, BackStageIs DEF Past
<1>3. go => ~Issued(nlatch[to][j])
  BY <1>1, <1>2 DEF Structure, InOrder, PastIssue, Past
<1> HIDE DEF go, j
<1>4. \A r \in Regs : Entry(board'[r]) /\ board'[r].use = board[r].use
  BY <1>1, UseIs DEF Entries
<1>5. Entries'
  BY <1>4 DEF Entries, Entry
<1>6. ASSUME NEW r \in Regs
      PROVE board'[r].use = AllWrites(prog', latch', r) + AllWrites(prog', nlatch', r)
  <2> DEFINE w == Writes(prog, latch[from][j], r)
  <2>1. /\ Writes(prog, i, r) = w /\ w \in {0, 1}
        /\ Writes(prog, NullInstr, r) = 0
        /\ go => Writes(prog, nlatch[to][j], r) = 0
        /\ \A b, k : /\ Writes(prog, latch[b][k], r) \in {0, 1}
                     /\ Writes(prog, nlatch[b][k], r) \in {0, 1}
    BY <1>1, <1>3, WritesIs DEF Alike
  <2>2. /\ \A b \in Past : b # from =>
             PairWrites(prog, latch', b, r) = PairWrites(prog, latch, b, r)
        /\ \A b \in Past : b # to =>
             PairWrites(prog, nlatch', b, r) = PairWrites(prog, nlatch, b, r)
    BY <1>1, <1>2, PairIs DEF Past
  <2>3. PairWrites(prog, latch', from, r) + PairWrites(prog, nlatch', to, r)
        = PairWrites(prog, latch, from, r) + PairWrites(prog, nlatch, to, r) + 0
    <3>1. /\ \A k \in Pipes : Writes(prog, latch'[from][k], r)
                 = IF k = j THEN IF go THEN 0 ELSE w ELSE Writes(prog, latch[from][k], r)
          /\ \A k \in Pipes : Writes(prog, nlatch'[to][k], r)
                 = IF k = j /\ go THEN w ELSE Writes(prog, nlatch[to][k], r)
      BY <1>2, <2>1 DEF Past
    <3>2. CASE j = 0
      BY <1>1, <2>1, <3>1, <3>2, PairIs
    <3>3. CASE j = 1
      BY <1>1, <2>1, <3>1, <3>3, PairIs
    <3> QED
      BY <1>1, <3>2, <3>3
  <2>4. AllWrites(prog, latch', r) + AllWrites(prog, nlatch', r)
        = AllWrites(prog, latch, r) + AllWrites(prog, nlatch, r) + 0
    BY <2>2, <2>3, SameCount
  <2>5. AllWrites(prog, latch, r) \in Int /\ AllWrites(prog, nlatch, r) \in Int
    BY AllWritesIs
  <2> QED
    BY <1>1, <1>4, <1>6, <2>4, <2>5 DEF Counted
<1> QED
  BY <1>5, <1>6, CountedAgain

\* fpcomplete
LEMMA FpCompleteKeepsCounted ==
  ASSUME Structure, Onward, Counted, FpComplete
  PROVE Counted'
<1> DEFINE Moves(k) == IsNull(nlatch["FP2CC"][0]) /\ (k = 0 \/ IsNull(nlatch["FP2CC"][1]))
<1>1. /\ UNCHANGED <<prog, board>> /\ Pipes = {0, 1}
      /\ \A b \in Boundaries, k \in Pipes :
           /\ latch'[b][k] = IF b = "MC2FP" /\ Moves(k) THEN NullInstr ELSE latch[b][k]
           /\ nlatch'[b][k] = IF b = "FP2CC" /\ Moves(k) THEN latch["MC2FP"][k]
                              ELSE nlatch[b][k]
  BY FpCompleteIs DEF FpComplete, Pipes
<1>2. {"MC2FP", "FP2CC"} \subseteq Past /\ Past \subseteq Boundaries
  BY DEF Past, Boundaries, Fetched
<1>3. \A k \in Pipes : Moves(k) => IsNull(nlatch["FP2CC"][k])
  BY <1>1
<1>4. \A k \in Pipes : Moves(k) => ~Issued(nlatch["FP2CC"][k])
  BY <1>2, <1>3 DEF Structure, InOrder, PastIssue, Past
<1> HIDE DEF Moves
<1>5. Entries'
  BY <1>1 DEF Counted, Entries, Entry
<1>6. ASSUME NEW r \in Regs
      PROVE board'[r].use = AllWrites(prog', latch', r) + AllWrites(prog', nlatch', r)
  <2>1. /\ Writes(prog, NullInstr, r) = 0
        /\ \A k \in Pipes : Moves(k) => Writes(prog, nlatch["FP2CC"][k], r) = 0
        /\ \A k \in Pipes : /\ Writes(prog, latch["MC2FP"][k], r) \in {0, 1}
                            /\ Writes(prog, nlatch["FP2CC"][k], r) \in {0, 1}
    BY <1>4, WritesIs
  <2>2. /\ \A b \in Past : b # "MC2FP" =>
             PairWrites(prog, latch', b, r) = PairWrites(prog, latch, b, r)
        /\ \A b \in Past : b # "FP2CC" =>
             PairWrites(prog, nlatch', b, r) = PairWrites(prog, nlatch, b, r)
    BY <1>1, <1>2, PairIs
  <2>3. PairWrites(prog, latch', "MC2FP", r) + PairWrites(prog, nlatch', "FP2CC", r)
        = PairWrites(prog, latch, "MC2FP", r) + PairWrites(prog, nlatch, "FP2CC", r) + 0
    <3>1. \A k \in Pipes :
            /\ Writes(prog, latch'["MC2FP"][k], r)
               = IF Moves(k) THEN 0 ELSE Writes(prog, latch["MC2FP"][k], r)
            /\ Writes(prog, nlatch'["FP2CC"][k], r)
               = IF Moves(k) THEN Writes(prog, latch["MC2FP"][k], r)
                 ELSE Writes(prog, nlatch["FP2CC"][k], r)
      BY <1>1, <1>2, <2>1
    <3>2. \A k \in Pipes :
            Writes(prog, latch'["MC2FP"][k], r) + Writes(prog, nlatch'["FP2CC"][k], r)
            = Writes(prog, latch["MC2FP"][k], r) + Writes(prog, nlatch["FP2CC"][k], r)
      BY <2>1, <3>1
    <3>3. \A k \in Pipes : /\ Writes(prog, latch'["MC2FP"][k], r) \in Int
                           /\ Writes(prog, nlatch'["FP2CC"][k], r) \in Int
      BY <2>1, <3>1
    <3> QED
      BY <1>1, <2>1, <3>2, <3>3, PairIs
  <2>4. AllWrites(prog, latch', r) + AllWrites(prog, nlatch', r)
        = AllWrites(prog, latch, r) + AllWrites(prog, nlatch, r) + 0
    BY <1>2, <2>2, <2>3, SameCount
  <2>5. AllWrites(prog, latch, r) \in Int /\ AllWrites(prog, nlatch, r) \in Int
    BY AllWritesIs
  <2> QED
    BY <1>1, <1>6, <2>4, <2>5 DEF Counted
<1> QED
  BY <1>5, <1>6, CountedAgain

\* write-back: what leaves the pipeline gives back what it claimed
LEMMA WriteBackKeepsCounted ==
  ASSUME Structure, Addressed, Plain, Sorted, Counted, WriteBack
  PROVE Counted'
<1> DEFINE first == latch["CC2WB"][0]
           second == latch["CC2WB"][1]
           mid == GivenBack(first, board)
<1>1. /\ UNCHANGED prog /\ Pipes = {0, 1} /\ Entries
      /\ board' = GivenBack(second, mid)
      /\ \A b \in Boundaries, k \in Pipes :
           /\ latch'[b][k] = IF b = "CC2WB" THEN NullInstr ELSE latch[b][k]
           /\ nlatch'[b][k] = nlatch[b][k]
  BY WriteBackIs DEF WriteBack, Pipes, Counted
<1>2. "CC2WB" \in Past /\ Past \subseteq Boundaries
  BY DEF Past, Boundaries, Fetched
<1>3. \A k \in Pipes : LET i == latch["CC2WB"][k]
                       IN i.pc \in DOMAIN prog /\ OfItsWord(i) /\ (Issued(i) <=> ~IsNull(i))
  BY <1>2 DEF Addressed, Sorted, Structure, InOrder, PastIssue, Past
<1>4. ASSUME NEW i, NEW e, NEW r \in Regs, Entry(e[r])
      PROVE /\ Entry(GivenBack(i, e)[r])
            /\ GivenBack(i, e)[r].use = e[r].use - (IF r \in Taken(i) THEN 1 ELSE 0)
  <2>1. /\ Entry(Put(e[r])) /\ Put(e[r]).use = e[r].use - 1
        /\ Entry(Cleared(Put(e[r]))) /\ Cleared(Put(e[r])).use = e[r].use - 1
    BY <1>4 DEF Put, Cleared, Entry
  <2>2. GivenBack(i, e)[r] = IF r \notin Taken(i) THEN e[r]
                             ELSE IF i.type \in Clears THEN Cleared(Put(e[r])) ELSE Put(e[r])
    BY <1>4 DEF GivenBack
  <2>3. e[r].use \in Int
    BY <1>4 DEF Entry
  <2> QED
    BY <1>4, <2>1, <2>2, <2>3
<1>5. ASSUME NEW r \in Regs
      PROVE /\ Entry(board'[r])
            /\ board'[r].use = board[r].use - Writes(prog, first, r) - Writes(prog, second, r)
  <2>1. Entry(board[r])
    BY <1>1, <1>5 DEF Entries
  <2>2. Entry(mid[r]) /\ mid[r].use = board[r].use - (IF r \in Taken(first) THEN 1 ELSE 0)
    BY <1>4, <1>5, <2>1
  <2>3. /\ Entry(GivenBack(second, mid)[r])
        /\ GivenBack(second, mid)[r].use = mid[r].use - (IF r \in Taken(second) THEN 1 ELSE 0)
    BY <1>4, <1>5, <2>2
  <2>4. /\ Writes(prog, first, r) = IF r \in Taken(first) THEN 1 ELSE 0
        /\ Writes(prog, second, r) = IF r \in Taken(second) THEN 1 ELSE 0
    BY <1>1, <1>3, TakenIs
  <2> HIDE DEF mid, first, second
  <2> QED
    BY <1>1, <2>2, <2>3, <2>4
<1>6. Entries'
  BY <1>5 DEF Entries, Entry
<1>7. ASSUME NEW r \in Regs
      PROVE board'[r].use = AllWrites(prog', latch', r) + AllWrites(prog', nlatch', r)
  <2> DEFINE d == - Writes(prog, first, r) - Writes(prog, second, r)
  <2>1. /\ Writes(prog, first, r) \in Int /\ Writes(prog, second, r) \in Int
        /\ Writes(prog, NullInstr, r) = 0
    <3>1. Writes(prog, first, r) \in {0, 1} /\ Writes(prog, second, r) \in {0, 1}
      BY WritesIs
    <3> QED
      BY <3>1, WritesIs
  <2>2. /\ \A b \in Past : b # "CC2WB" =>
             PairWrites(prog, latch', b, r) = PairWrites(prog, latch, b, r)
        /\ \A b \in Past : PairWrites(prog, nlatch', b, r) = PairWrites(prog, nlatch, b, r)
    BY <1>1, <1>2, PairIs
  <2>3. /\ PairWrites(prog, latch', "CC2WB", r) = 0
        /\ PairWrites(prog, latch, "CC2WB", r) = Writes(prog, first, r) + Writes(prog, second, r)
    BY <1>1, <1>2, <2>1, PairIs
  <2>4. PairWrites(prog, nlatch, "CC2WB", r) \in Int
    BY PairWritesIs
  <2> HIDE DEF first, second
  <2>5. d \in Int
    BY <2>1
  <2>6. PairWrites(prog, latch', "CC2WB", r) + PairWrites(prog, nlatch', "CC2WB", r)
        = PairWrites(prog, latch, "CC2WB", r) + PairWrites(prog, nlatch, "CC2WB", r) + d
    BY <1>2, <2>1, <2>2, <2>3, <2>4
  <2>7. AllWrites(prog, latch', r) + AllWrites(prog, nlatch', r)
        = AllWrites(prog, latch, r) + AllWrites(prog, nlatch, r) + d
    <3> HIDE DEF d
    <3> QED
      BY <1>2, <2>2, <2>5, <2>6, SameCount
  <2>8. AllWrites(prog, latch, r) \in Int /\ AllWrites(prog, nlatch, r) \in Int
    BY AllWritesIs
  <2>9. board[r].use = AllWrites(prog, latch, r) + AllWrites(prog, nlatch, r)
    BY <1>7 DEF Counted
  <2> QED
    BY <1>1, <1>5, <1>7, <2>1, <2>7, <2>8, <2>9
<1> QED
  BY <1>6, <1>7, CountedAgain

\* the end of a cycle: what moves is counted in its new place
LEMMA UpdateLatchesKeepsCounted ==
  ASSUME Structure, Onward, Counted, UpdateLatches
  PROVE Counted'
<1>1. /\ UNCHANGED prog /\ Pipes = {0, 1} /\ Entries
      /\ board' = [r \in Regs |-> [board[r] EXCEPT !.ready = IF @ > 0 THEN @ - 1 ELSE 0]]
      /\ \A b \in Boundaries, k \in Pipes :
           /\ latch'[b][k] = IF b \in Moving THEN nlatch[b][k] ELSE latch[b][k]
           /\ nlatch'[b][k] = IF b \in Moving THEN NullInstr ELSE nlatch[b][k]
  BY UpdateLatchesIs DEF UpdateLatches, Counted, Pipes
<1>2. \A b \in Moving \cap Past : NoneIn(latch, b)
  BY MovingIsOnward
<1> HIDE DEF Moving
<1>3. \A b \in Past, k \in Pipes : b \in Moving => ~Issued(latch[b][k])
  BY <1>1, <1>2 DEF NoneIn, Structure, InOrder, PastIssue, Past
<1>4. \A r \in Regs : Entry(board'[r]) /\ board'[r].use = board[r].use
  BY <1>1 DEF Entries, Entry
<1>5. Entries'
  BY <1>4 DEF Entries, Entry
<1>6. ASSUME NEW r \in Regs
      PROVE board'[r].use = AllWrites(prog', latch', r) + AllWrites(prog', nlatch', r)
  <2>1. /\ Writes(prog, NullInstr, r) = 0
        /\ \A b \in Past, k \in Pipes : b \in Moving => Writes(prog, latch[b][k], r) = 0
    BY <1>3, WritesIs
  <2>2. ASSUME NEW b \in Past
        PROVE PairWrites(prog, latch', b, r) + PairWrites(prog, nlatch', b, r)
              = PairWrites(prog, latch, b, r) + PairWrites(prog, nlatch, b, r)
    <3>1. CASE b \in Moving
      <4>1. /\ PairWrites(prog, latch', b, r) = PairWrites(prog, nlatch, b, r)
            /\ PairWrites(prog, nlatch', b, r) = 0
            /\ PairWrites(prog, latch, b, r) = 0
        BY <1>1, <2>1, <3>1, PairIs DEF Past
      <4>2. PairWrites(prog, nlatch, b, r) \in Int
        BY PairWritesIs
      <4> QED
        BY <4>1, <4>2
    <3>2. CASE b \notin Moving
      <4>1. /\ PairWrites(prog, latch', b, r) = PairWrites(prog, latch, b, r)
            /\ PairWrites(prog, nlatch', b, r) = PairWrites(prog, nlatch, b, r)
        BY <1>1, <3>2, PairIs DEF Past
      <4> QED
        BY <4>1
    <3> QED
      BY <3>1, <3>2
  <2>3. AllWrites(prog, latch', r) + AllWrites(prog, nlatch', r)
        = AllWrites(prog, latch, r) + AllWrites(prog, nlatch, r)
    BY <2>2, SameSums
  <2> QED
    BY <1>1, <1>4, <1>6, <2>3 DEF Counted
<1> QED
  BY <1>5, <1>6, CountedAgain

\* the core starts with nothing past execute and nothing counted
LEMMA InitCounted == Init => Sorted /\ Counted
<1> SUFFICES ASSUME Init PROVE Sorted /\ Counted
  OBVIOUS
<1>1. \A b \in Past, k \in Pipes : latch[b][k] = NullInstr /\ nlatch[b][k] = NullInstr
  BY DEF Init, Empty, Pair, Past
<1>2. \A r \in Regs : Entry(board[r]) /\ board[r].use = 0
  BY DEF Init, Entry
<1>3. ~sync.ack
  BY DEF Init
<1>4. Sorted
  BY <1>1, <1>3, NullIsInstr DEF Sorted, OfItsWord
<1>5. ASSUME NEW r \in Regs
      PROVE AllWrites(prog, latch, r) = 0 /\ AllWrites(prog, nlatch, r) = 0
  <2>1. \A b \in Past : PairWrites(prog, latch, b, r) = 0 /\ PairWrites(prog, nlatch, b, r) = 0
    BY <1>1, PairIs, WritesIs DEF Pipes
  <2> QED
    BY <2>1 DEF AllWrites, Past, Boundaries, Fetched
<1>6. Counted
  BY <1>2, <1>5 DEF Counted, Entries
<1> QED
  BY <1>4, <1>6

\* every step keeps the counts
LEMMA StepKeepsCounted ==
  ASSUME Structure, Addressed, Onward, Typed, Plain, Sorted, Counted, Steps
  PROVE Counted'
<1>0. \A r \in Regs : Entry(board[r])
  BY DEF Counted, Entries
<1>1. CASE FetchIdle \/ FetchStall \/ Release
  <2>1. UNCHANGED <<prog, latch, nlatch, board>>
    BY <1>1 DEF FetchIdle, FetchStall, Release, behindFetch
  <2> QED
    BY <1>0, <2>1, SameCounted DEF Entry
<1>2. CASE FetchLine
  <2>1. /\ UNCHANGED <<prog, latch, board>>
        /\ \A b \in Boundaries, k \in Pipes : b # "IF2DC" => nlatch'[b][k] = nlatch[b][k]
    BY <1>2, FetchLineIs DEF FetchLine, behindFetch
  <2>2. \A b \in Past, k \in Pipes :
          latch'[b][k] = latch[b][k] /\ nlatch'[b][k] = nlatch[b][k]
    BY <2>1 DEF Past, Fetched
  <2> QED
    BY <1>0, <2>1, <2>2, SameCounted DEF Entry
<1>3. CASE Decode
  <2>1. /\ UNCHANGED <<prog, board>>
        /\ \A b \in Past, k \in Pipes :
             latch'[b][k] = latch[b][k] /\ nlatch'[b][k] = nlatch[b][k]
    BY <1>3, DecodeIs DEF Decode, Past, Fetched
  <2> QED
    BY <1>0, <2>1, SameCounted DEF Entry
<1>4. CASE \E i, flags, slots, waiting : ExecuteStep(i, flags, slots, waiting)
  BY <1>4, ExecuteKeepsCounted
<1>5. CASE \/ \E i, flags : BackStage("mem", "EX2MC", "MC2FP", i, flags)
           \/ \E i, flags : BackStage("ccache", "FP2CC", "CC2WB", i, flags)
  <2>1. {"EX2MC", "FP2CC"} \subseteq Past /\ {"MC2FP", "CC2WB"} \subseteq Past \ {"EX2MC"}
    BY DEF Past, Boundaries, Fetched
  <2> QED
    BY <1>5, <2>1, BackStageKeepsCounted
<1>6. CASE FpComplete
  BY <1>6, FpCompleteKeepsCounted
<1>7. CASE WriteBack
  BY <1>7, WriteBackKeepsCounted
<1>8. CASE UpdateLatches
  BY <1>8, UpdateLatchesKeepsCounted
<1> QED
  BY <1>1, <1>2, <1>3, <1>4, <1>5, <1>6, <1>7, <1>8 DEF Steps

\* and a step that changes nothing keeps all of it
LEMMA StutterKeepsCounted ==
  ASSUME UNCHANGED vars
  PROVE /\ Onward => Onward'
        /\ Sorted => Sorted'
        /\ Counted => Counted'
<1>1. UNCHANGED <<at, prog, latch, nlatch, stalled, sync, board>>
  BY DEF vars
<1>2. Onward => Onward'
  BY <1>1 DEF Onward, MemTurn, CacheTurn, Passing, InTurn, Ahead, Over, NoneIn, Stops, IsNull
<1>3. Sorted => Sorted'
  BY <1>1, SortedAgain DEF Sorted
<1>4. Counted => Counted'
  <2> SUFFICES ASSUME Counted PROVE Counted'
    OBVIOUS
  <2>1. \A r \in Regs : Entry(board[r])
    BY DEF Counted, Entries
  <2> QED
    BY <1>1, <2>1, SameCounted DEF Entry
<1> QED
  BY <1>2, <1>3, <1>4

\* how many of the first n numbers are in a set, one number at a time
In(S, n) == IF n \in S THEN 1 ELSE 0
Below(S, k) == {n \in S \cap Nat : n < k}

\* a number more to count
LEMMA OneMore ==
  ASSUME NEW S, NEW k \in Nat, IsFiniteSet(Below(S, k))
  PROVE /\ IsFiniteSet(Below(S, k + 1))
        /\ Cardinality(Below(S, k + 1)) = Cardinality(Below(S, k)) + In(S, k)
<1> DEFINE T == Below(S, k)
           U == Below(S, k + 1)
<1>1. /\ k \notin T
      /\ k \in S => U = T \cup {k}
      /\ k \notin S => U = T
      /\ IsFiniteSet(T)
  BY DEF Below
<1> HIDE DEF T, U
<1>2. Cardinality(T) \in Nat
  BY <1>1, FS_CardinalityType
<1>3. ASSUME k \in S PROVE IsFiniteSet(U) /\ Cardinality(U) = Cardinality(T) + 1
  BY <1>1, <1>3, FS_AddElement
<1>4. ASSUME k \notin S PROVE IsFiniteSet(U) /\ Cardinality(U) = Cardinality(T) + 0
  BY <1>1, <1>2, <1>4
<1>5. IsFiniteSet(U) /\ Cardinality(U) = Cardinality(T) + In(S, k)
  BY <1>3, <1>4 DEF In
<1> QED
  BY <1>5 DEF T, U

\* a set of numbers below sixteen
LEMMA Sixteen ==
  ASSUME NEW S \in SUBSET (0 .. 15)
  PROVE Cardinality(S) = In(S, 0) + In(S, 1) + In(S, 2) + In(S, 3)
                        + In(S, 4) + In(S, 5) + In(S, 6) + In(S, 7)
                        + In(S, 8) + In(S, 9) + In(S, 10) + In(S, 11)
                        + In(S, 12) + In(S, 13) + In(S, 14) + In(S, 15)
<1> DEFINE T(k) == Below(S, k)
           c(k) == Cardinality(T(k))
<1>1. IsFiniteSet(T(0)) /\ c(0) = 0
  <2>1. T(0) = {}
    BY DEF Below
  <2> QED
    BY <2>1, FS_EmptySet
<1>2. ASSUME NEW k \in Nat, IsFiniteSet(T(k))
      PROVE IsFiniteSet(T(k + 1)) /\ c(k + 1) = c(k) + In(S, k)
  BY <1>2, OneMore, Zenon
<1>3. T(16) = S
  <2>1. \A n \in S : n \in Nat /\ n < 16
    OBVIOUS
  <2>2. \A n : n \in T(16) <=> n \in S
    BY <2>1 DEF Below
  <2> QED
    BY <2>2
<1>4. \A k \in Nat : In(S, k) \in Int
  BY DEF In
<1> HIDE DEF T
<1>5. IsFiniteSet(T(1)) /\ c(1) = c(0) + In(S, 0)
  BY <1>2, <1>1
<1>6. IsFiniteSet(T(2)) /\ c(2) = c(1) + In(S, 1)
  BY <1>2, <1>5
<1>7. IsFiniteSet(T(3)) /\ c(3) = c(2) + In(S, 2)
  BY <1>2, <1>6
<1>8. IsFiniteSet(T(4)) /\ c(4) = c(3) + In(S, 3)
  BY <1>2, <1>7
<1>9. IsFiniteSet(T(5)) /\ c(5) = c(4) + In(S, 4)
  BY <1>2, <1>8
<1>10. IsFiniteSet(T(6)) /\ c(6) = c(5) + In(S, 5)
  BY <1>2, <1>9
<1>11. IsFiniteSet(T(7)) /\ c(7) = c(6) + In(S, 6)
  BY <1>2, <1>10
<1>12. IsFiniteSet(T(8)) /\ c(8) = c(7) + In(S, 7)
  BY <1>2, <1>11
<1>13. IsFiniteSet(T(9)) /\ c(9) = c(8) + In(S, 8)
  BY <1>2, <1>12
<1>14. IsFiniteSet(T(10)) /\ c(10) = c(9) + In(S, 9)
  BY <1>2, <1>13
<1>15. IsFiniteSet(T(11)) /\ c(11) = c(10) + In(S, 10)
  BY <1>2, <1>14
<1>16. IsFiniteSet(T(12)) /\ c(12) = c(11) + In(S, 11)
  BY <1>2, <1>15
<1>17. IsFiniteSet(T(13)) /\ c(13) = c(12) + In(S, 12)
  BY <1>2, <1>16
<1>18. IsFiniteSet(T(14)) /\ c(14) = c(13) + In(S, 13)
  BY <1>2, <1>17
<1>19. IsFiniteSet(T(15)) /\ c(15) = c(14) + In(S, 14)
  BY <1>2, <1>18
<1>20. IsFiniteSet(T(16)) /\ c(16) = c(15) + In(S, 15)
  BY <1>2, <1>19
<1> QED
  BY <1>3, <1>4, <1>1, <1>5, <1>6, <1>7, <1>8, <1>9, <1>10, <1>11,
     <1>12, <1>13, <1>14, <1>15, <1>16, <1>17, <1>18, <1>19, <1>20

\* the places past execute
LEMMA FlightPastIs ==
  /\ Flight[0] = latch["CC2WB"][0] /\ Flight[1] = latch["CC2WB"][1]
  /\ Flight[2] = nlatch["CC2WB"][0] /\ Flight[3] = nlatch["CC2WB"][1]
  /\ Flight[4] = latch["FP2CC"][0] /\ Flight[5] = latch["FP2CC"][1]
  /\ Flight[6] = nlatch["FP2CC"][0] /\ Flight[7] = nlatch["FP2CC"][1]
  /\ Flight[8] = latch["MC2FP"][0] /\ Flight[9] = latch["MC2FP"][1]
  /\ Flight[10] = nlatch["MC2FP"][0] /\ Flight[11] = nlatch["MC2FP"][1]
  /\ Flight[12] = latch["EX2MC"][0] /\ Flight[13] = latch["EX2MC"][1]
  /\ Flight[14] = nlatch["EX2MC"][0] /\ Flight[15] = nlatch["EX2MC"][1]
<1> DEFINE places == <<latch["CC2WB"], nlatch["CC2WB"], latch["FP2CC"], nlatch["FP2CC"],
                       latch["MC2FP"], nlatch["MC2FP"], latch["EX2MC"], nlatch["EX2MC"],
                       latch["DC2EX"], nlatch["DC2EX"], latch["IF2DC"], nlatch["IF2DC"]>>
<1>1. Flight = [n \in 0 .. 23 |-> places[n \div 2 + 1][n % 2]]
  BY DEF Flight
<1>2.
      /\ 0 \div 2 + 1 = 1 /\ 0 % 2 = 0 /\ 1 \div 2 + 1 = 1 /\ 1 % 2 = 1
      /\ 2 \div 2 + 1 = 2 /\ 2 % 2 = 0 /\ 3 \div 2 + 1 = 2 /\ 3 % 2 = 1
      /\ 4 \div 2 + 1 = 3 /\ 4 % 2 = 0 /\ 5 \div 2 + 1 = 3 /\ 5 % 2 = 1
      /\ 6 \div 2 + 1 = 4 /\ 6 % 2 = 0 /\ 7 \div 2 + 1 = 4 /\ 7 % 2 = 1
      /\ 8 \div 2 + 1 = 5 /\ 8 % 2 = 0 /\ 9 \div 2 + 1 = 5 /\ 9 % 2 = 1
      /\ 10 \div 2 + 1 = 6 /\ 10 % 2 = 0 /\ 11 \div 2 + 1 = 6 /\ 11 % 2 = 1
      /\ 12 \div 2 + 1 = 7 /\ 12 % 2 = 0 /\ 13 \div 2 + 1 = 7 /\ 13 % 2 = 1
      /\ 14 \div 2 + 1 = 8 /\ 14 % 2 = 0 /\ 15 \div 2 + 1 = 8 /\ 15 % 2 = 1
  OBVIOUS
<1>3.
      /\ places[1] = latch["CC2WB"] /\ places[2] = nlatch["CC2WB"] /\ places[3] = latch["FP2CC"]
      /\ places[4] = nlatch["FP2CC"] /\ places[5] = latch["MC2FP"] /\ places[6] = nlatch["MC2FP"]
      /\ places[7] = latch["EX2MC"] /\ places[8] = nlatch["EX2MC"]
  OBVIOUS
<1> HIDE DEF places
<1> QED
  BY <1>1, <1>2, <1>3

\* what the scoreboard counts is what the property counts
LEMMA FlightIsCounted ==
  ASSUME Structure, NEW r
  PROVE Cardinality({n \in {m \in DOMAIN Flight : Issued(Flight[m])} : r \in Dests(Flight[n])})
        = AllWrites(prog, latch, r) + AllWrites(prog, nlatch, r)
<1> DEFINE f == Flight
           S == {n \in {m \in DOMAIN f : Issued(f[m])} : r \in Dests(f[n])}
           w(n) == Writes(prog, f[n], r)
<1>1. \A n \in 16 .. 23 : ~Issued(f[n])
  <2>1. \A j \in Pipes : ~Issued(A(j)) /\ ~Issued(B(j)) /\ ~Issued(C(j)) /\ ~Issued(D(j))
    BY DEF Structure, InOrder, PastIssue, A, B, C, D, Fetched, Boundaries
  <2> QED
    BY <2>1, FlightIs DEF Pipes
<1>2. S \in SUBSET (0 .. 15)
  <2>1. ASSUME NEW n \in S PROVE n \in 0 .. 15
    <3>1. n \in 0 .. 23 /\ Issued(f[n])
      BY <2>1, FlightIs
    <3> QED
      BY <1>1, <3>1
  <2> QED
    BY <2>1
<1>3. \A n \in 0 .. 15 : In(S, n) = w(n) /\ w(n) \in {0, 1}
  <2> TAKE n \in 0 .. 15
  <2>1. n \in S <=> Issued(f[n]) /\ r \in Dests(f[n])
    BY FlightIs
  <2>2. w(n) = IF Issued(f[n]) /\ r \in Dests(f[n]) THEN 1 ELSE 0
    BY DEF Writes, Issued, Dests, Decoded, Fields
  <2> QED
    BY <2>1, <2>2 DEF In
<1>4. Cardinality(S) = In(S, 0) + In(S, 1) + In(S, 2) + In(S, 3)
                       + In(S, 4) + In(S, 5) + In(S, 6) + In(S, 7)
                       + In(S, 8) + In(S, 9) + In(S, 10) + In(S, 11)
                       + In(S, 12) + In(S, 13) + In(S, 14) + In(S, 15)
  BY <1>2, Sixteen
<1>5. /\ AllWrites(prog, latch, r) = (w(0) + w(1)) + (w(4) + w(5)) + (w(8) + w(9)) + (w(12) + w(13))
      /\ AllWrites(prog, nlatch, r)
         = (w(2) + w(3)) + (w(6) + w(7)) + (w(10) + w(11)) + (w(14) + w(15))
  BY FlightPastIs DEF AllWrites, PairWrites
<1> HIDE DEF f, S, w
<1>6. Cardinality(S) = AllWrites(prog, latch, r) + AllWrites(prog, nlatch, r)
  BY <1>3, <1>4, <1>5
<1> QED
  BY <1>6 DEF S, f

\* For every program of plain types: the use count of every scoreboard entry
\* is the number of issued instructions in flight that write its register.
THEOREM UseCountsAreExact == Spec => [](Plain => ScoreboardBalanced)
<1> DEFINE I == Onward /\ Typed /\ (Plain => Sorted /\ Counted)
<1>1. Init => I
  BY InitOnward, InitTyped, InitCounted
<1>2. Structure /\ Addressed /\ I /\ [Next]_vars => I'
  <2>1. ASSUME UNCHANGED prog, Plain' PROVE Plain
    BY <2>1 DEF Plain, HasWord
  <2>2. ASSUME Structure, Addressed, I, Steps PROVE I'
    BY <2>1, <2>2, StepKeepsTyped, StepKeepsOnward, StepKeepsSorted, StepKeepsCounted
  <2>3. ASSUME I, UNCHANGED vars PROVE I'
    BY <2>1, <2>3, StutterKeepsTyped, StutterKeepsCounted
  <2> QED
    BY <2>2, <2>3, NextIsSteps
<1>3. Structure /\ I => (Plain => ScoreboardBalanced)
  BY FlightIsCounted DEF Counted, ScoreboardBalanced
<1> HIDE DEF I
<1> QED
  BY <1>1, <1>2, <1>3, StructureHolds, PTL DEF Spec
=============================================================================
