---------------------------- MODULE TxValidation ----------------------------
(***************************************************************************)
(* The checks of web3-eth/src/validation.ts: the shape predicates         *)
(* (isBaseTransaction ... isTransactionCall), the chain checks            *)
(* validateCustomChainInfo and validateChainInfo, and the gas checks      *)
(* validateLegacyGas, validateFeeMarketGas and validateGas, which         *)
(* dispatches to them twice, once on which gas fields are present and     *)
(* once on the transaction type.                                           *)
(*                                                                         *)
(* The functions are pure. The module has one variable per family of      *)
(* checks, holding the value under test, and the properties are state     *)
(* predicates over every value of the model; Init takes a value of one    *)
(* family and leaves the others Undef.                                    *)
(*                                                                         *)
(* A gas or fee field is absent (Undef), a hex string (NonNeg) or a hex    *)
(* string that starts with '-' (Neg): the code looks at nothing else.     *)
(* The type is a string, kept as the sequence of its characters, because  *)
(* the code compares it with '>' (JavaScript string order) and '==='.     *)
(* For the shape predicates a field is Undef or one of the strings        *)
(* "addr" (an address, which is a hex string too), "hex", "hex32" (32     *)
(* bytes), "len2" (a two-character string that is not hex), "falsy" (''  *)
(* or 0) or "bad" (any other value).                                      *)
(***************************************************************************)
EXTENDS Integers, Sequences

CONSTANTS
    Types,      \* the type strings of the model, as character sequences
    Shapes,     \* the values of the shape predicates
    ChainTxs,   \* the values of the chain checks
    Undef       \* undefined: a field that is absent

VARIABLES
    tx,         \* the value under the gas checks
    val,        \* the value under the shape predicates
    chainTx     \* the value under the chain checks

vars == <<tx, val, chainTx>>

NonNeg == "hex"
Neg    == "negative hex"
Amounts == {Undef, NonNeg, Neg}

\* UTF-16 code units of the characters a hex type string can hold.
CharCode == [c \in {"0","1","2","3","4","5","6","7","8","9","a","b","c","d","e","f","x"} |->
               CASE c = "0" -> 48 [] c = "1" -> 49 [] c = "2" -> 50 [] c = "3" -> 51
                 [] c = "4" -> 52 [] c = "5" -> 53 [] c = "6" -> 54 [] c = "7" -> 55
                 [] c = "8" -> 56 [] c = "9" -> 57 [] c = "a" -> 97 [] c = "b" -> 98
                 [] c = "c" -> 99 [] c = "d" -> 100 [] c = "e" -> 101 [] c = "f" -> 102
                 [] c = "x" -> 120]

\* JavaScript's a > b on strings: code unit by code unit, and a proper
\* prefix is smaller than the longer string.
RECURSIVE StrGt(_, _)
StrGt(a, b) ==
    IF a = <<>> THEN FALSE
    ELSE IF b = <<>> THEN TRUE
    ELSE IF Head(a) # Head(b) THEN CharCode[Head(a)] > CharCode[Head(b)]
    ELSE StrGt(Tail(a), Tail(b))

T0x0 == <<"0","x","0">>
T0x1 == <<"0","x","1">>
T0x2 == <<"0","x","2">>

Txs == [gas: Amounts, gasLimit: Amounts, gasPrice: Amounts,
        maxFeePerGas: Amounts, maxPriorityFeePerGas: Amounts,
        type: Types \cup {Undef}]

\* The first error thrown by two validators called one after the other.
AndThen(r1, r2) == IF r1 = "ok" THEN r2 ELSE r1

validateLegacyGas(t) ==
    CASE t.gas \in {Undef, Neg} \/ t.gasPrice \in {Undef, Neg}
             -> "InvalidGasOrGasPrice"
      [] t.maxFeePerGas # Undef \/ t.maxPriorityFeePerGas # Undef
             -> "UnsupportedFeeMarketError"
      [] OTHER -> "ok"

\* Faulty variant: the sign of maxPriorityFeePerGas is not checked.
validateFeeMarketGasNoPrioritySign(t) ==
    CASE t.gasPrice # Undef /\ t.type = T0x2 -> "Eip1559GasPriceError"
      [] t.type \in {T0x0, T0x1}              -> "UnsupportedFeeMarketError"
      [] t.maxFeePerGas \in {Undef, Neg} \/ t.maxPriorityFeePerGas = Undef
             -> "InvalidMaxPriorityFeePerGasOrMaxFeePerGas"
      [] OTHER -> "ok"

validateFeeMarketGas(t) ==
    CASE t.gasPrice # Undef /\ t.type = T0x2 -> "Eip1559GasPriceError"
      [] t.type \in {T0x0, T0x1}              -> "UnsupportedFeeMarketError"
      [] t.maxFeePerGas \in {Undef, Neg} \/ t.maxPriorityFeePerGas \in {Undef, Neg}
             -> "InvalidMaxPriorityFeePerGasOrMaxFeePerGas"
      [] OTHER -> "ok"

GasPresent(t)          == t.gas # Undef \/ t.gasLimit # Undef
LegacyGasPresent(t)    == GasPresent(t) /\ t.gasPrice # Undef
FeeMarketGasPresent(t) == GasPresent(t) /\ t.maxPriorityFeePerGas # Undef
                                        /\ t.maxFeePerGas # Undef

\* Faulty variant: the type dispatch compares with '0x0' instead of '0x1'.
validateGasTypeThreshold(t) ==
    CASE ~LegacyGasPresent(t) /\ ~FeeMarketGasPresent(t) -> "MissingGasError"
      [] LegacyGasPresent(t) /\ FeeMarketGasPresent(t)   -> "TransactionGasMismatchError"
      [] OTHER ->
           AndThen(IF LegacyGasPresent(t) THEN validateLegacyGas(t)
                                          ELSE validateFeeMarketGas(t),
                   IF t.type # Undef /\ StrGt(t.type, T0x0)
                   THEN validateFeeMarketGas(t) ELSE validateLegacyGas(t))

validateGas(t) ==
    CASE ~LegacyGasPresent(t) /\ ~FeeMarketGasPresent(t) -> "MissingGasError"
      [] LegacyGasPresent(t) /\ FeeMarketGasPresent(t)   -> "TransactionGasMismatchError"
      [] OTHER ->
           AndThen(IF LegacyGasPresent(t) THEN validateLegacyGas(t)
                                          ELSE validateFeeMarketGas(t),
                   IF t.type # Undef /\ StrGt(t.type, T0x1)
                   THEN validateFeeMarketGas(t) ELSE validateLegacyGas(t))

-----------------------------------------------------------------------------
(* The shape predicates and the chain checks.                              *)

IsHexStrict(x)        == x \in {"addr", "hex", "hex32"}
IsAddress(x)          == x = "addr"
IsHexString32Bytes(x) == x = "hex32"

\* The type test lets through a hex string, undefined, and any string of
\* length 2.
isBaseTransaction(v) ==
    /\ v.to \in {Undef, "null"} \/ IsAddress(v.to)
    /\ IsHexStrict(v.type) \/ v.type = Undef \/ v.type = "len2"
    /\ IsHexStrict(v.nonce) /\ IsHexStrict(v.gas)
    /\ IsHexStrict(v.value) /\ IsHexStrict(v.input)
    /\ v.chainId \in {Undef, "falsy"} \/ IsHexStrict(v.chainId)

\* An entry is a record [address, storageKeys], storageKeys Undef or a
\* sequence of strings.
isAccessListEntry(e) ==
    /\ e.address = Undef \/ IsAddress(e.address)
    /\ e.storageKeys = Undef
       \/ \A i \in DOMAIN e.storageKeys : IsHexString32Bytes(e.storageKeys[i])

\* An access list is [isArray, entries]: Array.isArray, and the entries of
\* an array.
isAccessList(l) == l.isArray /\ \A i \in DOMAIN l.entries : isAccessListEntry(l.entries[i])

\* Faulty variant: the access list is not checked.
isTransaction1559UnsignedNoAccessList(v) ==
    isBaseTransaction(v) /\ IsHexStrict(v.maxFeePerGas) /\ IsHexStrict(v.maxPriorityFeePerGas)

isTransaction1559Unsigned(v) ==
    /\ isBaseTransaction(v)
    /\ IsHexStrict(v.maxFeePerGas) /\ IsHexStrict(v.maxPriorityFeePerGas)
    /\ isAccessList(v.accessList)

isTransaction2930Unsigned(v) ==
    isBaseTransaction(v) /\ IsHexStrict(v.gasPrice) /\ isAccessList(v.accessList)

isTransactionLegacyUnsigned(v) == isBaseTransaction(v) /\ IsHexStrict(v.gasPrice)

isTransactionWithSender(v) ==
    /\ IsAddress(v.from)
    /\ isBaseTransaction(v)
    /\ isTransaction1559Unsigned(v) \/ isTransaction2930Unsigned(v)
       \/ isTransactionLegacyUnsigned(v)

validateTransactionWithSender(v) ==
    IF isTransactionWithSender(v) THEN "ok" ELSE "InvalidTransactionWithSender"

isTransactionCall(v) ==
    /\ v.from = Undef \/ IsAddress(v.from)
    /\ IsAddress(v.to)
    /\ v.gas = Undef \/ IsHexStrict(v.gas)
    /\ v.gasPrice = Undef \/ IsHexStrict(v.gasPrice)
    /\ v.value = Undef \/ IsHexStrict(v.value)
    /\ v.data = Undef \/ IsHexStrict(v.data)
    /\ v.type = Undef
    /\ ~isTransaction1559Unsigned(v)
    /\ ~isTransaction2930Unsigned(v)

validateTransactionCall(v) ==
    IF isTransactionCall(v) THEN "ok" ELSE "InvalidTransactionCall"

\* common is Undef or [customChain], customChain Undef or [chainId].
validateCustomChainInfo(t) ==
    CASE t.common = Undef                          -> "ok"
      [] t.common.customChain = Undef              -> "MissingCustomChainError"
      [] t.common.customChain.chainId = Undef      -> "MissingCustomChainIdError"
      [] t.chainId # Undef /\ t.chainId # t.common.customChain.chainId
                                                   -> "ChainIdMismatchError"
      [] OTHER                                     -> "ok"

\* Faulty variant: only a chain without a hardfork is caught.
validateChainInfoOneSided(t) ==
    CASE t.common # Undef /\ t.chain # Undef /\ t.hardfork # Undef
             -> "CommonOrChainAndHardforkError"
      [] t.chain # Undef /\ t.hardfork = Undef -> "MissingChainOrHardforkError"
      [] OTHER -> "ok"

validateChainInfo(t) ==
    CASE t.common # Undef /\ t.chain # Undef /\ t.hardfork # Undef
             -> "CommonOrChainAndHardforkError"
      [] (t.chain # Undef /\ t.hardfork = Undef) \/ (t.hardfork # Undef /\ t.chain = Undef)
             -> "MissingChainOrHardforkError"
      [] OTHER -> "ok"

-----------------------------------------------------------------------------

Init ==
    \/ tx \in Txs /\ val = Undef /\ chainTx = Undef
    \/ tx = Undef /\ val \in Shapes /\ chainTx = Undef
    \/ tx = Undef /\ val = Undef /\ chainTx \in ChainTxs
Next == UNCHANGED vars
Spec == Init /\ [][Next]_vars

-----------------------------------------------------------------------------
(* Reference definitions: the numeric value of a type, and the shapes the  *)
(* doc comment of validateGas calls complete.                             *)

HexDigit(c) == IF CharCode[c] <= 57 THEN CharCode[c] - 48 ELSE CharCode[c] - 87

RECURSIVE DigitsValue(_, _)
DigitsValue(s, acc) == IF s = <<>> THEN acc
                       ELSE DigitsValue(Tail(s), 16 * acc + HexDigit(Head(s)))

\* The number a "0x..." type string denotes.
TypeValue(s) == DigitsValue(SubSeq(s, 3, Len(s)), 0)

Accepted(t) == validateGas(t) = "ok"

LegacyOnly(t) == LegacyGasPresent(t) /\ ~FeeMarketGasPresent(t)
FeeOnly(t)    == FeeMarketGasPresent(t) /\ ~LegacyGasPresent(t)

\* A complete legacy transaction (type '0x0' or '0x1', or none) and a
\* complete fee market transaction (type '0x2'), as the doc comment of
\* validateGas describes them, with the types spelt as it spells them. A
\* fee market transaction typed '0x02' is outside WellFormedFeeMarket, and
\* the code rejects it: as strings '0x02' < '0x1', so validateGas's second
\* dispatch sends it to validateLegacyGas, which throws on the missing
\* gasPrice.
WellFormedLegacy(t) ==
    /\ t.gas = NonNeg /\ t.gasPrice = NonNeg
    /\ t.maxFeePerGas = Undef /\ t.maxPriorityFeePerGas = Undef
    /\ t.type \in {Undef, T0x0, T0x1}
WellFormedFeeMarket(t) ==
    /\ t.gas = NonNeg /\ t.gasPrice = Undef
    /\ t.maxFeePerGas = NonNeg /\ t.maxPriorityFeePerGas = NonNeg
    /\ t.type = T0x2

\* An access list whose every address is an address and every storage key
\* 32 bytes.
WellFormedAccessList(l) ==
    l.isArray /\ \A i \in DOMAIN l.entries :
        /\ l.entries[i].address \in {Undef, "addr"}
        /\ l.entries[i].storageKeys = Undef
           \/ {l.entries[i].storageKeys[k] : k \in DOMAIN l.entries[i].storageKeys} \subseteq {"hex32"}

-----------------------------------------------------------------------------
(* Properties.                                                             *)

\* validateGas accepts only a transaction of one gas family whose prices
\* are non-negative: legacy with gas and gasPrice, or fee market with both
\* fee fields. Breaking it needs the two dispatches of validateGas to
\* disagree with the family and type checks of the two validators.
AcceptedPricesValid ==
    tx # Undef /\ Accepted(tx) =>
        \/ LegacyOnly(tx) /\ tx.gas = NonNeg /\ tx.gasPrice = NonNeg
        \/ FeeOnly(tx) /\ tx.maxFeePerGas = NonNeg /\ tx.maxPriorityFeePerGas = NonNeg

\* Every complete legacy or fee market transaction passes validateGas, in
\* both of its dispatches.
WellFormedAccepted ==
    tx # Undef /\ (WellFormedLegacy(tx) \/ WellFormedFeeMarket(tx)) => Accepted(tx)

\* A transaction accepted with legacy gas has a type whose value is 0 or 1,
\* or none: the doc comment of validateGas ties legacy gas to those types,
\* whatever the spelling of the hex string (validateGas dispatches on the
\* string order of the type).
AcceptedLegacyTypeIsLegacy ==
    tx # Undef /\ Accepted(tx) /\ LegacyOnly(tx) => tx.type = Undef \/ TypeValue(tx.type) <= 1

\* No transaction with a negative gas passes validateGas, as the comment in
\* validateLegacyGas says the check is for.
AcceptedGasNonNegative ==
    tx # Undef /\ Accepted(tx) => tx.gas # Neg

\* A value validateTransactionWithSender lets through has a sender and
\* the prices of a complete family: a hex gasPrice, or both fee market
\* fields with a well-formed access list. The three family predicates
\* each re-run the base check and test a different subset of fields.
SenderHasCompleteFamily ==
    val # Undef /\ validateTransactionWithSender(val) = "ok" =>
        /\ val.from = "addr"
        /\ \/ val.gasPrice \in {"hex", "hex32", "addr"}
           \/ /\ val.maxFeePerGas \in {"hex", "hex32", "addr"}
              /\ val.maxPriorityFeePerGas \in {"hex", "hex32", "addr"}
              /\ WellFormedAccessList(val.accessList)

\* A transaction both chain checks let through names its chain one way
\* only: chain and hardfork together or neither, never next to a common,
\* and a common's custom chain has the id of the transaction, if it has
\* one. The first check of validateChainInfo rejects only the three
\* together; the rest falls to the second check and to
\* validateCustomChainInfo.
ChainInfoUnambiguous ==
    chainTx # Undef
      /\ validateCustomChainInfo(chainTx) = "ok" /\ validateChainInfo(chainTx) = "ok" =>
        /\ chainTx.chain = Undef <=> chainTx.hardfork = Undef
        /\ chainTx.common # Undef =>
              /\ chainTx.chain = Undef
              /\ chainTx.common.customChain # Undef
              /\ chainTx.common.customChain.chainId # Undef
              /\ chainTx.chainId \in {Undef, chainTx.common.customChain.chainId}

\* The type of a transaction with sender, when it is given, is a hex
\* string, as isBaseTransaction requires of nonce, gas, value and input.
SenderTypeIsHex ==
    val # Undef /\ validateTransactionWithSender(val) = "ok" =>
        val.type \in {Undef, "hex", "hex32", "addr"}
=============================================================================
