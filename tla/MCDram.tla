------------------------------- MODULE MCDram -------------------------------
(* Two banks of three slots, with latencies that keep the order of those in  *)
(* dram.h and limits in the ratio of those in sim.h.  Reads of two lines of  *)
(* row 0 of bank 0 may come without end: three slots of them are enough for  *)
(* the bank never to be without a row hit.  Among them comes one request     *)
(* that misses their row, writes to it, or takes the data bus for bank 1.    *)
EXTENDS Dram

MCEndless == {[bank |-> 0, row |-> 0, read |-> TRUE, lines |-> 2]}
MCOffered == MCEndless \cup
             {[bank |-> 0, row |-> 1, read |-> FALSE, lines |-> 1],
              [bank |-> 0, row |-> 0, read |-> FALSE, lines |-> 2],
              [bank |-> 1, row |-> 0, read |-> TRUE, lines |-> 3],
              [bank |-> 1, row |-> 0, read |-> FALSE, lines |-> 1]}
=============================================================================
