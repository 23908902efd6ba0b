----------------------------- MODULE MCTiledChip -----------------------------
EXTENDS TiledChip

(* Every thread may read, link, store and increment one shared word.       *)
MCRequests == Threads \X {"READ", "LDL", "STC", "INC"} \X {"w"} \X {1} \X {0}

(* One kind of access: what matters is where its packet goes.              *)
MCIncrements == Threads \X {"INC"} \X {"w"} \X {0} \X {0}
=============================================================================
