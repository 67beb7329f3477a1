------------------------------ MODULE MCNDRange ------------------------------
(* An instance of NDRange for TLC: two hosts, ranges of a few work-items, an   *)
(* int of three bits, to which four groups in x are negative and nine are one. *)
EXTENDS NDRange

MCGlobals == {<<3, 2, 1>>, <<1, 2, 3>>, <<4, 1, 1>>, <<9, 1, 1>>, <<0, 1, 1>>}
MCLocals == {<<1, 1, 1>>, <<2, 1, 1>>, <<2, 2, 1>>, <<0, 1, 1>>}
MCThreadCounts == {0, 2}
=============================================================================
