------------------------- MODULE MC_SignTransaction -------------------------
EXTENDS SignTransaction

CONSTANTS c1, c2, o1, o2

MC_Calls == {c1, c2}
MC_Objs  == {o1, o2}

\* Tx objects a caller builds: nothing set; nonce null beside a chainId and
\* gasPrice; a null chainId; no gas.
MC_InitTxs ==
    {[chainId |-> Undef, gasPrice |-> Undef, nonce |-> Undef, hasGas |-> TRUE],
     [chainId |-> Val,   gasPrice |-> Val,   nonce |-> Null,  hasGas |-> TRUE],
     [chainId |-> Null,  gasPrice |-> Undef, nonce |-> Undef, hasGas |-> TRUE],
     [chainId |-> Undef, gasPrice |-> Undef, nonce |-> Undef, hasGas |-> FALSE]}
=============================================================================
