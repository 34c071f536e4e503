---------------------------- MODULE MC_Resolver ----------------------------
(***************************************************************************)
(* Two callers and one name, two resolvers: r1 implements addr and name,  *)
(* r2 only pubkey. The interface table is that of the package's config.js *)
(* for the methods of the model.                                          *)
(***************************************************************************)
EXTENDS Resolver

CONSTANTS c1, c2, n1, r1, r2, iAddr, iName, iPubkey, v1

MC_Calls     == {c1, c2}
MC_Names     == {n1}
MC_Resolvers == {r1, r2}
MC_Ifaces    == {iAddr, iName, iPubkey}
MC_Supports  == (r1 :> {iAddr, iName}) @@ (r2 :> {iPubkey})
MC_Methods   == {"addr", "setAddr", "pubkey", "name"}
MC_IfaceOf   == [m \in MC_Methods |->
                    CASE m \in {"addr", "setAddr"} -> iAddr
                      [] m = "pubkey"               -> iPubkey
                      [] m = "name"                 -> iName]
MC_Values    == {v1}
\* The signature of the addr interface, whose sha3 begins with its id.
MC_Sha3Id    == "addr(bytes32)" :> iAddr
=============================================================================
