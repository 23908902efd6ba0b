----------------------------- MODULE MCExecute -----------------------------
(***************************************************************************)
(* Words of 8 bits; the operands lie at the edges of the word, of its      *)
(* halves and of a byte, and the immediates at the edges of theirs.        *)
(***************************************************************************)
EXTENDS Execute

MCCorners == {0, 1, 5, 8, 62, 127, 128, 129, 250, 255}
MCImmediates == {0, 1, 7, 8, 15, 31}
MCPcs == {0, 64, 252}
=============================================================================
