--------------------------- MODULE MCInterconnect ---------------------------
(* Two tiles of two clusters before two banks.  Two of what one cluster    *)
(* asks, what the banks probe and what they broadcast are under way at a   *)
(* time, in every combination; every list takes one entry before it stalls.*)
EXTENDS Interconnect

MCHome == [a |-> 0, b |-> 1]
MCMisses == {"b"}
MCHolders == [a |-> {0, 2}, b |-> {}]
MCOwners == [a |-> {2}, b |-> {}]
MCAsking == {<<0, "a">>, <<0, "b">>, <<1, "a">>}
MCProbed == {0, 3} \X {"a"}
MCWriting == {1, 2} \X {"a"}
=============================================================================
