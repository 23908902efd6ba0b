SPECIFICATION FairSpec
CONSTANTS
  Programs <- MCPrograms
  Regs <- MCRegs
  MaxStalls = 1
INVARIANTS
  ScoreboardBalanced
  SpecRing
  UnitsReturned
PROPERTIES
  ImplementsSequential
  Halts
