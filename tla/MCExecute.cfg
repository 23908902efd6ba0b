SPECIFICATION Spec
CONSTANTS
  Width = 8
  Corners <- MCCorners
  Immediates <- MCImmediates
  Pcs <- MCPcs
INVARIANT
  CoresComputeAlike
