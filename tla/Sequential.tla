----------------------------- MODULE Sequential -----------------------------
(***************************************************************************)
(* What a thread of the functional core does with a program: one           *)
(* instruction after the other, each reading the registers as the ones     *)
(* before it left them.  The registers an instruction reads and writes are *)
(* those of the functional decoder; the types that core does not execute   *)
(* take the registers the legacy tables give them.                         *)
(*                                                                         *)
(* Values are not computed: what an instruction writes is the pair of its  *)
(* address and of the parity of the backward branches taken so far, so     *)
(* that two passes of a loop write different values.  A conditional branch *)
(* goes either way.                                                        *)
(***************************************************************************)
EXTENDS Isa

CONSTANTS Programs,  \* functions from 0 .. n to words
          Regs       \* the registers that occur in them
VARIABLES prog, pc, parity, regs, last, halted
seqVars == <<prog, pc, parity, regs, last, halted>>

NothingYet == [pc |-> -1, type |-> "NULL", operands |-> <<>>]

Init == /\ prog \in Programs
        /\ pc = 0
        /\ parity = 0
        /\ regs = [r \in Regs |-> Boot(r)]
        /\ last = NothingYet
        /\ halted = FALSE

\* the next instruction; the operands in `unsure' may have any value
Step(unsure) ==
  LET w == prog[pc]
      type == FunctionalType(w.op)
  IN /\ ~halted
     /\ pc' \in Targets(prog, pc, type)
     /\ last'.pc = pc /\ last'.type = type
     /\ DOMAIN last'.operands = Operands(type, w)
     /\ \A r \in Operands(type, w) \ unsure : last'.operands[r] = regs[r]
     /\ regs' = [r \in Results(type, w) |-> Written(parity, pc)] @@ regs
     /\ parity' = IF pc' <= pc THEN 1 - parity ELSE parity
     /\ halted' = (type = "HLT")
     /\ UNCHANGED prog
Next == Step({})

Spec == Init /\ [][Next]_seqVars
=============================================================================
