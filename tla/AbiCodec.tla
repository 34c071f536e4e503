------------------------------ MODULE AbiCodec ------------------------------
(***************************************************************************)
(* The ABI codec of spec.md (only its re-export index is in this          *)
(* repository): the static/dynamic classifier (4.2), the head/tail value  *)
(* encoder (4.3), the validating decoder (4.4), the canonical signature   *)
(* behind a selector (4.5) and the error/fragment matcher (4.6).          *)
(*                                                                         *)
(* A word is W bytes of radix Base, kept as the number it holds; offsets  *)
(* and lengths count bytes, so the head/tail arithmetic is the real one   *)
(* on a smaller word. Hashing is out of scope (spec 1): a selector is the *)
(* fragment's name with its canonical type list.                          *)
(***************************************************************************)
EXTENDS Integers, Sequences

CONSTANTS
    W,          \* bytes per word (32 in the ABI)
    Base,       \* values of one byte (256 in the ABI)
    MaxElems,   \* the decoder's bound on a dynamic array's length
    AddrBytes   \* bytes of an address (20 in the ABI)

LOCAL SX == INSTANCE SequencesExt

\* TypeNode (spec 3).
UintT          == [k |-> "uint"]
IntT(n)        == [k |-> "int", n |-> n]       \* n bytes wide (n <= W)
AddressT       == [k |-> "address"]
BytesNT(n)     == [k |-> "bytesN", n |-> n]    \* bytes1..bytesW
BoolT          == [k |-> "bool"]
BytesT         == [k |-> "bytes"]
StringT        == [k |-> "string"]
DArrayT(e)     == [k |-> "darray", elem |-> e]
FArrayT(n, e)  == [k |-> "farray", n |-> n, elem |-> e]
TupleT(cs)     == [k |-> "tuple", comps |-> cs]

\* 4.2: string, bytes and T[] are dynamic; T[n] and tuples are dynamic
\* when an element is.
RECURSIVE IsDynamic(_)
IsDynamic(t) ==
    CASE t.k \in {"bytes", "string", "darray"} -> TRUE
      [] t.k = "farray" -> IsDynamic(t.elem)
      [] t.k = "tuple"  -> \E i \in DOMAIN t.comps : IsDynamic(t.comps[i])
      [] OTHER          -> FALSE

\* The words a static type occupies in place.
RECURSIVE StaticWords(_)
StaticWords(t) ==
    CASE t.k = "farray" -> t.n * StaticWords(t.elem)
      [] t.k = "tuple"  -> SX!FoldLeft(LAMBDA acc, c : acc + StaticWords(c), 0, t.comps)
      [] OTHER          -> 1

HeadWords(t) == IF IsDynamic(t) THEN 1 ELSE StaticWords(t)
HeadSize(ts) == SX!FoldLeft(LAMBDA acc, t : acc + HeadWords(t), 0, ts)


\* The component types of a fixed array or tuple, as a parameter list.
Elems(t) == IF t.k = "tuple" THEN t.comps ELSE [i \in 1..t.n |-> t.elem]

CeilDiv(a, b) == (a + b - 1) \div b
ByteAt(v, i)  == IF i <= Len(v) THEN v[i] ELSE 0

\* 4.3 step 4: byte data right-padded with zero bytes to whole words, each
\* word big-endian.
PadWords(v) ==
    [j \in 1..CeilDiv(Len(v), W) |->
        SX!FoldLeft(LAMBDA acc, i : acc * Base + ByteAt(v, (j - 1) * W + i), 0,
                    [i \in 1..W |-> i])]

\* 4.3: the encoding of one value, and the head/tail layout of a list of
\* values in its own region: static values in place, dynamic ones as a
\* byte offset, from the start of the region, into the tail. A dynamic
\* array writes its length word and then lays out its elements the same
\* way in a region of their own.
RECURSIVE Enc(_, _), EncListOffsetFromTail(_, _), EncList(_, _)
Enc(t, v) ==
    CASE t.k = "uint"    -> <<v % (Base ^ W)>>
      [] t.k = "address" -> <<v % (Base ^ AddrBytes)>>
      [] t.k = "int"     -> <<v % (Base ^ W)>>
      [] t.k = "bytesN"  -> PadWords([i \in 1..W |-> ByteAt(v, i)])
      [] t.k = "bool"    -> <<IF v THEN 1 ELSE 0>>
      [] t.k \in {"bytes", "string"} ->
            <<Len(v)>> \o PadWords(v)
      [] t.k = "darray"  -> <<Len(v)>> \o EncList([i \in 1..Len(v) |-> t.elem], v)
      [] OTHER           -> EncList(Elems(t), v)

\* Faulty variant: the offsets leave out the head region.
EncListOffsetFromTail(ts, vs) ==
    LET tails == [i \in DOMAIN ts |-> IF IsDynamic(ts[i]) THEN Enc(ts[i], vs[i]) ELSE <<>>]
        before(i) == Len(SX!FlattenSeq(SubSeq(tails, 1, i - 1)))
        head(i) == IF IsDynamic(ts[i]) THEN <<W * before(i)>> ELSE Enc(ts[i], vs[i])
    IN SX!FlattenSeq([i \in DOMAIN ts |-> head(i)]) \o SX!FlattenSeq(tails)

EncList(ts, vs) ==
    LET tails == [i \in DOMAIN ts |-> IF IsDynamic(ts[i]) THEN Enc(ts[i], vs[i]) ELSE <<>>]
        before(i) == Len(SX!FlattenSeq(SubSeq(tails, 1, i - 1)))
        head(i) == IF IsDynamic(ts[i]) THEN <<W * (HeadSize(ts) + before(i))>>
                   ELSE Enc(ts[i], vs[i])
    IN SX!FlattenSeq([i \in DOMAIN ts |-> head(i)]) \o SX!FlattenSeq(tails)

Encode(ts, vs) == EncList(ts, vs)

\* Faulty variant: the top of the range is 2^(8n-1), one past it.
IntRangeWide(n) == (-(Base ^ n \div 2))..(Base ^ n \div 2)

\* The values an n-byte signed integer holds.
IntRange(n) == (-(Base ^ n \div 2))..(Base ^ n \div 2 - 1)

\* 4.3 errors, checked before any word is written: a number outside its
\* type (ValueOutOfRange), fixed bytes longer than declared
\* (ByteLengthMismatch), a fixed array or tuple of another arity
\* (TypeValueMismatch); "none" when the value is encodable. The first
\* failing element of a list is the error.
RECURSIVE EncError(_, _), EncListError(_, _)
EncError(t, v) ==
    CASE t.k = "uint"    -> IF v \in 0..(Base ^ W - 1) THEN "none" ELSE "ValueOutOfRange"
      [] t.k = "int"     -> IF v \in IntRange(t.n) THEN "none" ELSE "ValueOutOfRange"
      [] t.k = "address" -> IF v \in 0..(Base ^ AddrBytes - 1) THEN "none" ELSE "ValueOutOfRange"
      [] t.k = "bytesN"  -> IF Len(v) <= t.n THEN "none" ELSE "ByteLengthMismatch"
      [] t.k = "darray"  -> EncListError([i \in DOMAIN v |-> t.elem], v)
      [] t.k \in {"farray", "tuple"} -> EncListError(Elems(t), v)
      [] OTHER           -> "none"
EncListError(ts, vs) ==
    IF Len(ts) # Len(vs) THEN "TypeValueMismatch"
    ELSE LET es == SelectSeq([i \in DOMAIN ts |-> EncError(ts[i], vs[i])], LAMBDA e : e # "none")
         IN IF es = <<>> THEN "none" ELSE Head(es)

-----------------------------------------------------------------------------
(* 4.4: the decoder. A buffer is a sequence of words; positions are bytes. *)

Size(buf) == W * Len(buf)

\* The word at byte position p (0 past the end; every read is guarded).
Word(buf, p) == IF p \div W + 1 <= Len(buf) THEN buf[p \div W + 1] ELSE 0

\* Faulty variant: a region may end one word past the buffer.
FitsOffByWord(buf, p, n) == p + n <= Size(buf) + W

\* The n bytes from position p lie inside the buffer.
Fits(buf, p, n) == p + n <= Size(buf)

\* Faulty variant: the byte is not masked off the rest of the word.
ByteOfNoMask(w, i) == w \div (Base ^ (W - i))

\* Byte i (1..W) of a big-endian word.
ByteOf(w, i) == (w \div (Base ^ (W - i))) % Base

\* The n bytes of a length-prefixed payload whose data starts at p.
Unpack(buf, p, n) == [i \in 1..n |-> ByteOf(Word(buf, p + W * ((i - 1) \div W)), ((i - 1) % W) + 1)]

Ok(v)   == [ok |-> TRUE, val |-> v, err |-> "none"]
Fail(e) == [ok |-> FALSE, val |-> <<>>, err |-> e]

\* encode with its 4.3 checks: the error, or the head/tail layout.
EncodeChecked(ts, vs) ==
    LET e == EncListError(ts, vs) IN
    IF e = "none" THEN Ok(Encode(ts, vs)) ELSE Fail(e)

\* 4.4: the low n bytes of a word as a two's-complement number, the sign
\* taken from the top bit of the declared width.
Signed(w, n) ==
    LET x == w % (Base ^ n) IN IF x >= Base ^ n \div 2 THEN x - Base ^ n ELSE x

\* DecAt: the value whose head is at pos in the region starting at base;
\* DecPointer follows a dynamic value's offset, validating it; DecTail
\* decodes the value at its target; DecList decodes a parameter list laid
\* out from base. The first failure is the result.
RECURSIVE DecAt(_, _, _, _), DecPointer(_, _, _, _), DecTail(_, _, _),
          DecList(_, _, _), DecItems(_, _, _, _, _, _)
DecAt(t, buf, base, pos) ==
    CASE IsDynamic(t)        -> DecPointer(t, buf, base, pos)
      [] t.k \in {"uint", "int", "address", "bool", "bytesN"} /\ ~Fits(buf, pos, W) ->
            Fail("BufferTooShort")
      [] t.k = "uint"        -> Ok(Word(buf, pos))
      [] t.k = "int"         -> Ok(Signed(Word(buf, pos), t.n))
      [] t.k = "address"     -> Ok(Word(buf, pos) % (Base ^ AddrBytes))
      [] t.k = "bytesN"      -> Ok(Unpack(buf, pos, t.n))
      [] t.k = "bool"        -> IF Word(buf, pos) \in {0, 1} THEN Ok(Word(buf, pos) = 1)
                                ELSE Fail("InvalidBooleanValue")
      [] OTHER               -> DecList(Elems(t), buf, pos)
DecPointer(t, buf, base, pos) ==
    IF ~Fits(buf, pos, W) THEN Fail("BufferTooShort")
    ELSE LET ptr == Word(buf, pos) IN
         IF ptr % W # 0 \/ base + ptr > Size(buf) THEN Fail("InvalidOffset")
         ELSE DecTail(t, buf, base + ptr)
DecTail(t, buf, p) ==
    LET n == Word(buf, p) IN
    CASE t.k \in {"bytes", "string", "darray"} /\ ~Fits(buf, p, W) -> Fail("BufferTooShort")
      [] t.k \in {"bytes", "string"} ->
            IF Fits(buf, p + W, W * CeilDiv(n, W)) THEN Ok(Unpack(buf, p + W, n))
            ELSE Fail("BufferTooShort")
      [] t.k = "darray"  ->
            IF n > MaxElems THEN Fail("TooManyElements")
            ELSE DecList([i \in 1..n |-> t.elem], buf, p + W)
      [] OTHER -> DecList(Elems(t), buf, p)
DecList(ts, buf, base) == DecItems(ts, buf, base, 1, base, <<>>)
DecItems(ts, buf, base, i, pos, acc) ==
    IF i > Len(ts) THEN Ok(acc)
    ELSE LET r == DecAt(ts[i], buf, base, pos) IN
         IF ~r.ok THEN r
         ELSE DecItems(ts, buf, base, i + 1, pos + W * HeadWords(ts[i]), Append(acc, r.val))

Decode(ts, buf) == DecList(ts, buf, 0)

-----------------------------------------------------------------------------
(* 4.5 and 4.6: selectors and the error/fragment matcher. A fragment is a  *)
(* record [type, name, types]; raw error data is a record [hasSel, sel,   *)
(* body]: its first 4 bytes, when it has them, and the words after them.  *)

Selector(f) == [name |-> f.name, sig |-> f.types]

StdError == [type |-> "error", name |-> "Error", types |-> <<StringT>>]
StdPanic == [type |-> "error", name |-> "Panic", types |-> <<UintT>>]

NoMatch == [st |-> "NoMatch", frag |-> StdError, vals |-> <<>>]

\* match_and_decode: the empty buffer matches nothing; Error(string) and
\* Panic(uint256) are tried with the candidates; a matching selector with a
\* payload that does not decode is a FragmentDecodeError.
MatchAndDecode(raw, cands) ==
    LET ms == {f \in cands \cup {StdError, StdPanic} : Selector(f) = raw.sel} IN
    IF ~raw.hasSel \/ ms = {} THEN NoMatch
    ELSE LET f == CHOOSE f \in ms : TRUE
             d == Decode(f.types, raw.body)
         IN IF d.ok THEN [st |-> "Match", frag |-> f, vals |-> d.val]
            ELSE [st |-> "FragmentDecodeError", frag |-> f, vals |-> <<>>]
-----------------------------------------------------------------------------
(* Reference definitions.                                                  *)

\* The shape check of spec 3: v is a value of type t, every number within
\* its type, every byte a byte, fixed bytes of their declared width.
RECURSIVE Conforms(_, _)
Conforms(t, v) ==
    CASE t.k = "uint"    -> v \in 0..(Base ^ W - 1)
      [] t.k = "int"     -> v \in IntRange(t.n)
      [] t.k = "address" -> v \in 0..(Base ^ AddrBytes - 1)
      [] t.k = "bool"    -> v \in BOOLEAN
      [] t.k = "bytesN"  -> Len(v) = t.n /\ \A i \in DOMAIN v : v[i] \in 0..(Base - 1)
      [] t.k \in {"bytes", "string"} -> \A i \in DOMAIN v : v[i] \in 0..(Base - 1)
      [] t.k = "darray"  -> \A i \in DOMAIN v : Conforms(t.elem, v[i])
      [] OTHER -> Len(v) = Len(Elems(t)) /\ \A i \in DOMAIN v : Conforms(Elems(t)[i], v[i])

\* What decode gives back for an encodable value: fixed bytes shorter than
\* their width come back right-padded with zero bytes.
RECURSIVE Padded(_, _)
Padded(t, v) ==
    CASE t.k = "bytesN" -> v \o [i \in 1..(t.n - Len(v)) |-> 0]
      [] t.k = "darray"  -> [i \in DOMAIN v |-> Padded(t.elem, v[i])]
      [] t.k \in {"farray", "tuple"} -> [i \in DOMAIN v |-> Padded(Elems(t)[i], v[i])]
      [] OTHER -> v
=============================================================================
