---------------------------- MODULE RevertReason ----------------------------
(***************************************************************************)
(* getRevertReason and parseTransactionError                               *)
(* (web3-eth/src/utils/get_revert_reason.ts) over the ABI codec: the call  *)
(* (eth_call) either succeeds or throws one of the errors the request      *)
(* layer builds, and parseTransactionError turns the error into the        *)
(* result, decoding a revert's data against the error fragments of the    *)
(* contract ABI with decodeContractErrorData.                              *)
(*                                                                         *)
(* The errors the node can cause are the constant Errors; a revert's data  *)
(* is a record [hasSel, sel, body] of AbiCodec, carrying as well the       *)
(* fragment and arguments it was built from ("from", "args") and how it   *)
(* was then altered ("variant"), which only the properties read.          *)
(***************************************************************************)
EXTENDS AbiCodec

CONSTANTS
    Undef,      \* undefined
    Abis,       \* the contractAbi arguments: ABI item sequences, or Undef
    Raws,       \* the revert data a node can return
    Probes      \* [types, vals] argument lists an application encodes

LOCAL SQ == INSTANCE Sequences

VARIABLES
    abi,        \* the contractAbi argument
    phase,      \* "idle" before getRevertReason, "done" after
    err,        \* the error the call threw (Undef when it did not)
    result,     \* what getRevertReason resolves to
    probe       \* an argument list given to the checked encoder (a pure call)

vars == <<abi, phase, err, result, probe>>

EmptyRaw == [hasSel |-> FALSE, sel |-> Selector(StdError), body |-> <<>>,
             from |-> StdError, args |-> <<>>, variant |-> "empty"]

\* The errors eth_call can throw: a ContractExecutionError with an
\* Eip838ExecutionError inside (a revert, with its data) or another inner
\* error, an InvalidResponseError whose innerError is an object, an array
\* or undefined, and any other error.
Errors ==
    {[kind |-> "ContractExecution", inner |-> "Eip838", raw |-> r] : r \in Raws}
    \cup {[kind |-> k, inner |-> i, raw |-> EmptyRaw] :
            <<k, i>> \in {<<"ContractExecution", "other">>, <<"InvalidResponse", "object">>,
                          <<"InvalidResponse", "array">>, <<"InvalidResponse", "undefined">>,
                          <<"other", "other">>}}

\* A result: its kind, the signature and data fields (the selector and the
\* rest of the revert data), and the custom error's name, parameter types
\* and arguments.
Result(kind, raw, name, types, args) ==
    [kind |-> kind, signature |-> raw.sel, data |-> raw.body,
     name |-> name, types |-> types, args |-> args]

\* contractAbi.filter(abi => isAbiErrorFragment(abi)).
ErrorsAbi(a) == SQ!SelectSeq(a, LAMBDA item : item.type = "error")

\* decodeContractErrorData(errorsAbi, innerError): on a match it sets the
\* inner error's errorName, errorSignature and errorArgs; otherwise they
\* stay undefined.
decodeContractErrorData(errorsAbi, raw) ==
    LET m == MatchAndDecode(raw, {errorsAbi[i] : i \in DOMAIN errorsAbi}) IN
    IF m.st = "Match" THEN [name |-> m.frag.name, types |-> m.frag.types, args |-> m.vals]
    ELSE [name |-> Undef, types |-> <<>>, args |-> Undef]

parseTransactionError(e, a) ==
    CASE e.kind = "ContractExecution" /\ e.inner = "Eip838" /\ a # Undef ->
            LET d == decodeContractErrorData(ErrorsAbi(a), e.raw) IN
            Result("custom", e.raw, d.name, d.types, d.args)
      [] e.kind = "ContractExecution" /\ e.inner = "Eip838" ->
            Result("revertReason", e.raw, Undef, <<>>, Undef)
      [] e.kind = "InvalidResponse" /\ e.inner = "object" ->
            Result("message", EmptyRaw, Undef, <<>>, Undef)
      [] OTHER -> Result("thrown", EmptyRaw, Undef, <<>>, Undef)

Init ==
    /\ abi \in Abis
    /\ phase = "idle"
    /\ err = Undef
    /\ result = Undef
    /\ probe \in Probes

\* getRevertReason: await call(...); undefined when it succeeds, else the
\* parsed error (or the error thrown again).
GetRevertReason ==
    /\ phase = "idle"
    /\ phase' = "done"
    /\ \/ /\ result' = Result("undefined", EmptyRaw, Undef, <<>>, Undef)
          /\ UNCHANGED err
       \/ \E e \in Errors : err' = e /\ result' = parseTransactionError(e, abi)
    /\ UNCHANGED <<abi, probe>>

Next == GetRevertReason

Spec == Init /\ [][Next]_vars

-----------------------------------------------------------------------------
(* Reference definitions.                                                  *)

\* The error fragments decodeContractErrorData may report: those of the
\* ABI and the two standard ones.
ReportableErrors(a) ==
    {a[i] : i \in {j \in DOMAIN a : a[j].type = "error"}} \cup {StdError, StdPanic}

-----------------------------------------------------------------------------
(* Properties.                                                             *)

\* Every result is one of the kinds getRevertReason returns, and the
\* arguments of a decoded custom error are values of its parameter types.
TypeOK ==
    /\ phase \in {"idle", "done"}
    /\ probe \in Probes
    /\ err = Undef \/ err.kind \in {"ContractExecution", "InvalidResponse", "other"}
    /\ result # Undef =>
         /\ result.kind \in {"undefined", "custom", "revertReason", "message", "thrown"}
         /\ result.name # Undef => Conforms(TupleT(result.types), result.args)

\* A revert whose data is the encoding of an error of the contract ABI (or
\* Error/Panic), exactly or followed by a spare word, comes back as that
\* error with the arguments it was raised with: the encoder's offsets, the
\* decoder's pointer arithmetic and the matcher agree.
RevertDecodesCustomError ==
    result # Undef /\ result.kind = "custom"
      /\ err.raw.variant \in {"exact", "trailing"} /\ err.raw.from \in ReportableErrors(abi)
        => result.name = err.raw.from.name /\ result.args = err.raw.args

\* A revert whose data was cut short, or has a tail offset pointing at the
\* end of the data, or a bool word other than 0 and 1, is never reported
\* as a custom error. This rests on decodeContractErrorData leaving the
\* name undefined when the selector matches and the payload fails to
\* decode (spec 4.6's FragmentDecodeError): the codec is not under src/.
CorruptPayloadRejected ==
    result # Undef /\ result.kind = "custom"
      /\ err.raw.variant \in {"truncated", "pastEnd", "badBool"} => result.name = Undef

\* The checked encoder rejects only values that do not fit their types,
\* and whatever it accepts decodes back to the value (short fixed bytes
\* padded): its range checks come before the reduction of a uint to a
\* word, the two's-complement wrap of int and the cut of an address to its
\* bytes. An int is written sign-extended over the whole word, so reading
\* it at its declared width or at the word's gives the same value here.
EncodeChecksAndRoundTrips ==
    LET r == EncodeChecked(probe.types, probe.vals) IN
    /\ r.ok => Decode(probe.types, r.val) = Ok(Padded(TupleT(probe.types), probe.vals))
    /\ ~r.ok => ~Conforms(TupleT(probe.types), probe.vals)
=============================================================================
