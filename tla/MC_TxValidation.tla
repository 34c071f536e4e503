--------------------------- MODULE MC_TxValidation ---------------------------
EXTENDS TxValidation

CONSTANTS c1, c2

\* Type strings: the canonical types, zero-padded 0x02, and two types above 0x2.
MC_Types == {<<"0","x","0">>, <<"0","x","1">>, <<"0","x","2">>,
             <<"0","x","0","2">>, <<"0","x","a">>, <<"0","x","1","0">>}

\* Access lists: absent, not an array, empty, and one entry that is
\* well formed, has a short storage key, or has a bad address.
MC_AccessLists ==
    {[isArray |-> FALSE, entries |-> <<>>], [isArray |-> TRUE, entries |-> <<>>]}
    \cup {[isArray |-> TRUE, entries |-> <<e>>] :
            e \in {[address |-> "addr", storageKeys |-> <<"hex32">>],
                   [address |-> "addr", storageKeys |-> <<"hex">>],
                   [address |-> "bad", storageKeys |-> Undef]}}

\* Shapes: every combination of the fields the predicates tell apart; value
\* and input are hex (they are tested like nonce).
MC_Shapes ==
    [from: {Undef, "addr", "bad"}, to: {Undef, "addr", "bad"},
     type: {Undef, "hex", "len2", "bad"}, nonce: {"hex", "bad"}, gas: {Undef, "hex"},
     value: {"hex"}, input: {"hex"}, data: {Undef},
     chainId: {Undef, "falsy", "bad"},
     gasPrice: {Undef, "hex", "bad"}, maxFeePerGas: {Undef, "hex", "bad"},
     maxPriorityFeePerGas: {Undef, "hex"}, accessList: MC_AccessLists]

\* Chain information: a common with no custom chain, one without an id,
\* or with id c1; chain, hardfork and chainId each present or not.
MC_ChainTxs ==
    [common: {Undef, [customChain |-> Undef], [customChain |-> [chainId |-> Undef]],
              [customChain |-> [chainId |-> c1]]},
     chain: {Undef, "mainnet"}, hardfork: {Undef, "london"}, chainId: {Undef, c1, c2}]
=============================================================================
