--------------------------- MODULE AccountsMessage ---------------------------
(***************************************************************************)
(* Message signing and recovery of web3-eth-accounts (src/index.js):      *)
(* Accounts.prototype.hashMessage, sign and recover.                       *)
(*                                                                         *)
(* JavaScript values are tagged records: a string ("text", "hexText" for  *)
(* a string that utils.isHex accepts, such as "cafe" or "0x12", or a      *)
(* "hash", the 0x-prefixed digest), undefined, an object with fields, or  *)
(* the signature parts. keccak256 is injective: the digest of a message   *)
(* is the record of that message. eth-lib's Account.sign, recover,        *)
(* decodeSignature and encodeSignature (not in this repository) are       *)
(* operators with the one property the code relies on: recovering a       *)
(* signature against the digest it signed gives the signer's address,     *)
(* against any other digest another address.                              *)
(***************************************************************************)
EXTENDS Integers, Sequences

CONSTANTS
    Datas,      \* the messages a caller signs (text and hex-looking strings)
    Keys,       \* private keys; an address is the key it belongs to
    Stranger    \* the address ecrecover yields for a digest that was not signed

VARIABLE in     \* the message, the key and the argument form of recover

Undefined == [t |-> "undef"]
Throws    == [t |-> "threw"]

Hash(m)    == [t |-> "hash", msg |-> m]
Decoded(d) == [t |-> "decoded", of |-> d]

\* utils.isHex: a string of hex digits with an optional 0x prefix.
isHex(x)    == x.t \in {"hexText", "hash"}
isObject(x) == x.t = "obj"

\* A property of an object; undefined when it has none.
Get(o, f) == IF f \in DOMAIN o.fields THEN o.fields[f] ELSE Undefined

\* eth-lib.
EthSign(hash, key)   == [t |-> "sig", hash |-> hash, key |-> key]
DecodeSignature(sig) == <<[t |-> "part", p |-> "v", of |-> sig],
                          [t |-> "part", p |-> "r", of |-> sig],
                          [t |-> "part", p |-> "s", of |-> sig]>>
EncodeSignature(vrs) ==
    IF \A i \in 1..3 : vrs[i].t = "part" /\ vrs[i].of = vrs[1].of THEN vrs[1].of
    ELSE [t |-> "sig", hash |-> Undefined, key |-> Stranger]
EthRecover(hash, sig) == IF sig.hash = hash THEN sig.key ELSE Stranger

\* The message is the hex decoded when utils.isHex accepts the data; the
\* prefix carries message.length, which throws on undefined.
hashMessage(data) ==
    IF data.t = "undef" THEN Throws
    ELSE Hash(IF isHex(data) THEN Decoded(data) ELSE data)

sign(data, key) ==
    LET hash == hashMessage(data)
        signature == EthSign(hash, key)
        vrs == DecodeSignature(signature)
    IN [t |-> "obj", fields |-> [message |-> data, v |-> vrs[1], r |-> vrs[2], s |-> vrs[3],
                                 signature |-> signature]]

\* recover(hash, signature) and recover(hash, v, r, s), args being the
\* arguments object: an object first argument recurses on its messageHash
\* and encoded v, r, s; a first argument that is not hex is hashed; with
\* four arguments the last three are encoded.
RECURSIVE recover(_)
recover(args) ==
    LET hash == args[1] IN
    IF isObject(hash)
    THEN recover(<<Get(hash, "messageHash"),
                   EncodeSignature(<<Get(hash, "v"), Get(hash, "r"), Get(hash, "s")>>)>>)
    ELSE LET h == IF isHex(hash) THEN hash ELSE hashMessage(hash) IN
         IF h = Throws THEN Throws
         ELSE IF Len(args) = 4 THEN recover(<<h, EncodeSignature(SubSeq(args, 2, 4))>>)
         ELSE EthRecover(h, args[2])

\* The ways to hand a signature from sign back to recover: the signature
\* object, or the message or its digest with the signature or with v, r, s.
Forms == {"object", "messageSig", "hashSig", "messageVRS", "hashVRS"}

RecoverArgs(form, data, so) ==
    LET f == so.fields IN
    CASE form = "object"     -> <<so>>
      [] form = "messageSig" -> <<data, f.signature>>
      [] form = "hashSig"    -> <<hashMessage(data), f.signature>>
      [] form = "messageVRS" -> <<data, f.v, f.r, f.s>>
      [] OTHER               -> <<hashMessage(data), f.v, f.r, f.s>>

Init == in \in [data : Datas, key : Keys, form : Forms]
Next == UNCHANGED in
Spec == Init /\ [][Next]_in

-----------------------------------------------------------------------------
(* Properties.                                                             *)

\* recover, given back what sign returned for a message, names the signer,
\* in each form its branches accept: the object branch (which reads
\* messageHash, v, r and s, the fields signTransaction returns), or the
\* message or its digest with the signature or with v, r, s.
RecoverInvertsSign ==
    recover(RecoverArgs(in.form, in.data, sign(in.data, in.key))) = in.key
=============================================================================
