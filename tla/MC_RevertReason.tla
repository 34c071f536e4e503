-------------------------- MODULE MC_RevertReason --------------------------
(***************************************************************************)
(* getRevertReason against a contract ABI with two custom errors and a    *)
(* function, and revert data built by encoding every argument list of a  *)
(* small value domain for each fragment whose selector a node can return, *)
(* exactly, with a spare zero word, cut short by a word, with its first   *)
(* tail offset pointing at the end of the data, or with a bool word of 2. *)
(***************************************************************************)
EXTENDS RevertReason

\* The values of the model: two numbers, and byte strings of 0, 1 and 3
\* bytes (across a 2-byte word boundary) over a zero and a non-zero byte.
MC_UintVals == {0, 7}
MC_IntVals  == {-1, 5}
MC_AddrVals == {0, 15}
MC_Strs == UNION {[1..n -> {0, 9}] : n \in {0, 1, 3}}
MC_MaxLen == 2

\* The sequences whose i-th element is in sets[i].
RECURSIVE MC_Product(_)
MC_Product(sets) ==
    IF sets = <<>> THEN {<<>>}
    ELSE {<<x>> \o rest : x \in Head(sets), rest \in MC_Product(Tail(sets))}

RECURSIVE MC_Values(_)
MC_Values(t) ==
    CASE t.k = "uint" -> MC_UintVals
      [] t.k = "int"  -> MC_IntVals
      [] t.k = "address" -> MC_AddrVals
      [] t.k = "bytesN" -> [1..t.n -> {0, 9}]
      [] t.k = "bool" -> BOOLEAN
      [] t.k \in {"bytes", "string"} -> MC_Strs
      [] t.k = "darray" -> UNION {[1..n -> MC_Values(t.elem)] : n \in 0..MC_MaxLen}
      [] OTHER -> MC_Product([i \in DOMAIN Elems(t) |-> MC_Values(Elems(t)[i])])

ErrBad    == [type |-> "error", name |-> "Bad", types |-> <<UintT, StringT>>]
ErrMany   == [type |-> "error", name |-> "Many", types |-> <<DArrayT(StringT), BoolT>>]
ErrPair   == [type |-> "error", name |-> "Pair", types |-> <<FArrayT(2, BytesT)>>]
FnPay     == [type |-> "function", name |-> "pay", types |-> <<UintT>>]
ErrOther  == [type |-> "error", name |-> "Other", types |-> <<BoolT>>]
ErrSigned == [type |-> "error", name |-> "Signed", types |-> <<IntT(1), AddressT, BytesNT(2)>>]

MC_Abi == <<ErrBad, FnPay, ErrMany, ErrPair, ErrSigned>>
MC_Abis == {Undef, <<>>, MC_Abi}

\* The fragments whose selectors revert data can carry.
MC_Frags == {ErrBad, ErrMany, ErrPair, FnPay, ErrOther, ErrSigned, StdError, StdPanic}

\* The word of the first bool parameter's head, if any.
BoolWord(ts) ==
    LET is == {i \in DOMAIN ts : ts[i] = BoolT} IN
    IF is = {} THEN 0
    ELSE LET i == CHOOSE i \in is : \A j \in is : i <= j
         IN 1 + HeadSize(SubSeq(ts, 1, i - 1))

Variants(f, body) ==
    {<<"exact", body>>, <<"trailing", body \o <<0>>>>}
    \cup (IF body # <<>> THEN {<<"truncated", SubSeq(body, 1, Len(body) - 1)>>} ELSE {})
    \cup (IF IsDynamic(f.types[1]) THEN {<<"pastEnd", [body EXCEPT ![1] = Size(body)]>>} ELSE {})
    \cup (IF BoolWord(f.types) > 0 THEN {<<"badBool", [body EXCEPT ![BoolWord(f.types)] = 2]>>}
          ELSE {})

MC_Raws ==
    LET RawsOf(f, a) ==
            {[hasSel |-> TRUE, sel |-> Selector(f), body |-> vb[2], from |-> f,
              args |-> a, variant |-> vb[1]] : vb \in Variants(f, Encode(f.types, a))}
    IN UNION {RawsOf(fa[1], fa[2]) :
                fa \in UNION {{<<f, a>> : a \in MC_Values(TupleT(f.types))} : f \in MC_Frags}}

\* Values at and one past the edges of every checked type (with W = 2 and
\* Base = 16: an int1 holds -8..7, an int2 -128..127, a uint 0..255, an
\* address of one byte 0..15), fixed bytes shorter, exact and longer than
\* declared, and arrays and tuples of the wrong arity.
MC_Probes ==
    LET one(t, vs) == {[types |-> <<t>>, vals |-> <<v>>] : v \in vs} IN
    one(IntT(1), {-9, -8, -1, 0, 7, 8}) \cup one(IntT(2), {-129, -128, 127, 128})
    \cup one(UintT, {-1, 255, 256}) \cup one(AddressT, {15, 16})
    \cup one(BytesNT(2), {<<>>, <<9>>, <<9, 0>>, <<9, 9, 9>>})
    \cup one(DArrayT(BytesNT(1)), {<<<<9>>, <<>>>>, <<<<9, 9>>>>})
    \cup one(TupleT(<<BoolT, IntT(1)>>), {<<TRUE, -8>>, <<TRUE>>, <<FALSE, 8>>})
    \cup {[types |-> <<FArrayT(2, IntT(1)), StringT>>, vals |-> vs] :
            vs \in {<<<<-1, 3>>, <<9>>>>, <<<<-1>>, <<>>>>, <<<<7, -9>>, <<>>>>}}
=============================================================================
