------------------------- MODULE MC_AccountsMessage -------------------------
(* A plain text message and one made only of hex digits, two keys.       *)
EXTENDS AccountsMessage

CONSTANTS k1, k2

MC_Datas == {[t |-> "text", id |-> "hello"], [t |-> "hexText", id |-> "cafe"]}
MC_Keys  == {k1, k2}
=============================================================================
