---------------------------- MODULE MCCharDevice ----------------------------
(* CharDevice on small instances. *)
EXTENDS CharDevice, TLC

MCPayloads == {<<"a">>, <<"b", "\n">>}
MCPayloadsOdd == {<<>>, <<"a">>, <<"\n", "a">>}
MCEOL == "\n"

BlockSymmetry == Permutations(Blocks) \cup Permutations(Procs)

=============================================================================
