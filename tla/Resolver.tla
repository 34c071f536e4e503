------------------------------- MODULE Resolver -------------------------------
(***************************************************************************)
(* The ENS Resolver class (web3-eth-ens/src/resolver.ts), called by        *)
(* concurrent callers while the name owners change the registry.           *)
(*                                                                         *)
(* Every method awaits the registry's resolver for the name                *)
(* (getResolverContractAdapter), then, for the record methods, awaits      *)
(* checkInterfaceSupport (EIP-165 supportsInterface on that resolver) and  *)
(* then calls or sends the record method on the same resolver contract.    *)
(* Each await is a request the node answers later, so each is a step of    *)
(* its own, and the registry and the records may change in between.        *)
(*                                                                         *)
(* interfaceIds and methodsInInterface (config.js, not in this             *)
(* repository) are the constant IfaceOf: the interface a method is         *)
(* checked against, or Undef when interfaceIds has none for it. Names,    *)
(* addresses and record values are model values; namehash is left out.    *)
(***************************************************************************)
EXTENDS Integers, FiniteSets, TLC

CONSTANTS
    Calls,      \* the concurrent callers
    Names,      \* ENS names
    Resolvers,  \* resolver contracts
    Zero,       \* the zero address: the registry's answer for no resolver
    Ifaces,     \* EIP-165 interface ids
    Supports,   \* Supports[r]: the interfaces resolver r's supportsInterface accepts
    Sha3Id,     \* Sha3Id[s]: sha3(s).slice(0, 10) for an interface signature s (not hex)
    Methods,    \* the record methods: "addr", "pubkey", "contenthash", "text", "name", "setAddr"
    IfaceOf,    \* IfaceOf[m]: interfaceIds[methodsInInterface[m]], or Undef
    Values,     \* record values (addresses, keys, texts)
    Unset,      \* a record never written
    Undef,      \* undefined
    MaxChanges  \* bound on the registry changes by the name owners

VARIABLES
    registry,   \* registry[n]: the resolver the ENS registry names for n
    records,    \* records[r][n]: the record resolver r holds for n
    pc,         \* pc[c]: where call c is
    op,         \* op[c]: the call's method, name, argument and check flag
    res,        \* res[c]: the resolver contract call c obtained
    out,        \* out[c]: what call c resolved to
    changes     \* registry changes made so far

vars == <<registry, records, pc, op, res, out, changes>>

NoOp == [m |-> "none", n |-> Zero, v |-> Unset, check |-> FALSE]

\* The calls a caller can make: a record method (getName with and without
\* its check), or supportsInterface(name, id) with a hex id, a signature
\* or ''.
Ops ==
    {[m |-> m, n |-> n, v |-> Unset, check |-> TRUE] : m \in Methods \ {"setAddr"}, n \in Names}
    \cup {[m |-> "setAddr", n |-> n, v |-> v, check |-> TRUE] : n \in Names, v \in Values}
    \cup {[m |-> "name", n |-> n, v |-> Unset, check |-> FALSE] : n \in Names}
    \cup {[m |-> "supportsInterface", n |-> n, v |-> i, check |-> FALSE] :
            n \in Names, i \in Ifaces \cup DOMAIN Sha3Id \cup {""}}

Init ==
    /\ registry \in [Names -> Resolvers \cup {Zero}]
    /\ records = [r \in Resolvers |-> [n \in Names |-> Unset]]
    /\ pc = [c \in Calls |-> "idle"]
    /\ op = [c \in Calls |-> NoOp]
    /\ res = [c \in Calls |-> Zero]
    /\ out = [c \in Calls |-> Undef]
    /\ changes = 0

\* A public method is called: it awaits getResolverContractAdapter.
Start(c, o) ==
    /\ pc[c] = "idle"
    /\ pc' = [pc EXCEPT ![c] = "resolving"]
    /\ op' = [op EXCEPT ![c] = o]
    /\ UNCHANGED <<registry, records, res, out, changes>>

\* The registry answers with the resolver it names now. The method goes on:
\* supportsInterface throws on '' and otherwise calls; the record methods
\* enter checkInterfaceSupport, which throws at once when the method has no
\* interface id, or send supportsInterface; getName(.., false) calls.
Resolved(c) ==
    LET o == op[c] IN
    /\ pc[c] = "resolving"
    /\ res' = [res EXCEPT ![c] = registry[o.n]]
    /\ pc' = [pc EXCEPT ![c] =
                CASE o.m = "supportsInterface" /\ o.v = "" -> "threw"
                  [] ~o.check                              -> "calling"
                  [] IfaceOf[o.m] = Undef                  -> "threw"
                  [] OTHER                                 -> "checking"]
    /\ UNCHANGED <<registry, records, op, out, changes>>

\* EIP-165 answer of a resolver: the zero address has no code, so the call
\* fails and the await throws.
Supported(r, i) == r # Zero /\ i \in Supports[r]

\* The supportsInterface call of checkInterfaceSupport settles: the method
\* goes on when supported, else throws ResolverMethodMissingError; a failed
\* call throws as well.
Checked(c) ==
    /\ pc[c] = "checking"
    /\ \/ pc' = [pc EXCEPT ![c] = IF Supported(res[c], IfaceOf[op[c].m]) THEN "calling"
                                                                         ELSE "threw"]
       \/ pc' = [pc EXCEPT ![c] = "threw"]
    /\ UNCHANGED <<registry, records, op, res, out, changes>>

\* The id supportsInterface sends: a strict hex string as given, any other
\* string by the first four bytes of its sha3 ('' has thrown before).
interfaceIdParam(v) == IF v \in Ifaces THEN v ELSE Sha3Id[v]

\* Faulty variant: the record method goes to the resolver the registry
\* names when it is called, fetched again.
CalledRefetch(c) ==
    LET o == op[c]
        r == registry[o.n]
    IN
    /\ pc[c] = "calling"
    /\ \/ /\ r # Zero
          /\ pc' = [pc EXCEPT ![c] = "done"]
          /\ records' = IF o.m = "setAddr" THEN [records EXCEPT ![r][o.n] = o.v] ELSE records
          /\ out' = [out EXCEPT ![c] =
                        CASE o.m = "setAddr"           -> o.v
                          [] o.m = "supportsInterface" -> interfaceIdParam(o.v) \in Supports[r]
                          [] OTHER                     -> records[r][o.n]]
       \/ /\ pc' = [pc EXCEPT ![c] = "threw"]
          /\ UNCHANGED <<records, out>>
    /\ UNCHANGED <<registry, op, res, changes>>

\* Faulty variant: a failed call is never turned into a rejection.
CalledNoReject(c) ==
    LET o == op[c]
        r == res[c]
    IN
    /\ pc[c] = "calling"
    /\ r # Zero
    /\ pc' = [pc EXCEPT ![c] = "done"]
    /\ records' = IF o.m = "setAddr" THEN [records EXCEPT ![r][o.n] = o.v] ELSE records
    /\ out' = [out EXCEPT ![c] =
                  CASE o.m = "setAddr"           -> o.v
                    [] o.m = "supportsInterface" -> interfaceIdParam(o.v) \in Supports[r]
                    [] OTHER                     -> records[r][o.n]]
    /\ UNCHANGED <<registry, op, res, changes>>

\* The record method on the resolver contract obtained at the start. A read
\* returns the record the resolver holds now; setAddr is a transaction that
\* writes it; supportsInterface returns the resolver's answer. The call to
\* a resolver without code, or any failed call, throws.
Called(c) ==
    LET o == op[c]
        r == res[c]
    IN
    /\ pc[c] = "calling"
    /\ \/ /\ r # Zero
          /\ pc' = [pc EXCEPT ![c] = "done"]
          /\ records' = IF o.m = "setAddr" THEN [records EXCEPT ![r][o.n] = o.v] ELSE records
          /\ out' = [out EXCEPT ![c] =
                        CASE o.m = "setAddr"           -> o.v
                          [] o.m = "supportsInterface" -> interfaceIdParam(o.v) \in Supports[r]
                          [] OTHER                     -> records[r][o.n]]
       \/ /\ pc' = [pc EXCEPT ![c] = "threw"]
          /\ UNCHANGED <<records, out>>
    /\ UNCHANGED <<registry, op, res, changes>>

\* A name owner points the name at another resolver (setResolver).
SetResolver(n, r) ==
    /\ changes < MaxChanges
    /\ registry[n] # r
    /\ registry' = [registry EXCEPT ![n] = r]
    /\ changes' = changes + 1
    /\ UNCHANGED <<records, pc, op, res, out>>

Next ==
    \/ \E c \in Calls, o \in Ops : Start(c, o)
    \/ \E c \in Calls : Resolved(c) \/ Checked(c) \/ Called(c)
    \/ \E n \in Names, r \in Resolvers \cup {Zero} : SetResolver(n, r)

\* The node answers every request.
Fairness == \A c \in Calls : WF_vars(Resolved(c)) /\ WF_vars(Checked(c)) /\ WF_vars(Called(c))

Spec == Init /\ [][Next]_vars /\ Fairness

-----------------------------------------------------------------------------
(* Properties.                                                             *)

TypeOK ==
    /\ registry \in [Names -> Resolvers \cup {Zero}]
    /\ records \in [Resolvers -> [Names -> Values \cup {Unset}]]
    /\ pc \in [Calls -> {"idle", "resolving", "checking", "calling", "done", "threw"}]
    /\ op \in [Calls -> Ops \cup {NoOp}]
    /\ res \in [Calls -> Resolvers \cup {Zero}]
    /\ changes \in 0..MaxChanges

\* An address record is only ever written into a resolver that supports
\* the addr interface: setAddress sends setAddr to the very contract whose
\* supportsInterface it checked, whatever the registry names by the time
\* the check has settled.
AddrRecordsInAddrResolvers ==
    \A r \in Resolvers, n \in Names :
        records[r][n] # Unset => Supported(r, IfaceOf["setAddr"])

\* Every call settles: it returns or throws, whatever the registry names
\* and whichever requests fail.
CallsSettle == \A c \in Calls : pc[c] # "idle" ~> pc[c] \in {"done", "threw"}
=============================================================================
