------------------------- MODULE MC_Eip1193Provider -------------------------
(* Model-checking instance of Eip1193Provider: two chains, two addresses, *)
(* account lists of length at most one (enough for a same-length change), *)
(* two connections and two changes of the node's state.                   *)
EXTENDS Eip1193Provider

CONSTANTS c1, c2, a1, a2

MC_Chains == {c1, c2}
MC_AccountLists == {<< >>, <<a1>>, <<a2>>}
=============================================================================
