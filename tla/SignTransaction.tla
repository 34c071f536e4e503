--------------------------- MODULE SignTransaction ---------------------------
(***************************************************************************)
(* Accounts.prototype.signTransaction (web3-eth-accounts/src/index.js),   *)
(* called with a callback by concurrent callers that may pass the same tx *)
(* object, against a node whose account nonce advances as the signed      *)
(* transactions are mined.                                                 *)
(*                                                                         *)
(* A call signs at once when nonce, chainId and gasPrice are all defined; *)
(* otherwise it asks the node for the missing ones (Promise.all) and, in  *)
(* the continuation, writes the three values into the caller's object     *)
(* (_.extend) and signs that object. A reply, the Promise.all settlement  *)
(* and the continuation run before any other caller code, so the last     *)
(* reply of a call and its continuation are one step.                      *)
(*                                                                         *)
(* chainId and gasPrice are abstracted to Val; the nonce keeps its number. *)
(* Hex formatting and the signature itself are left out.                  *)
(***************************************************************************)
EXTENDS Integers, FiniteSets

CONSTANTS
    Calls,      \* the signTransaction calls
    Objs,       \* the caller's tx objects; calls may share one
    Undef,      \* undefined
    Null,       \* null
    Val,        \* a chainId or gasPrice value
    MaxNonce,   \* bound on the account's nonce on the node
    InitTxs     \* the tx objects callers build (no nonce set)

VARIABLES
    txo,        \* txo[o]: the fields of tx object o
    pc,         \* pc[c]: where call c is
    obj,        \* obj[c]: the object call c was given
    args,       \* args[c][f]: the Promise.all entry of field f
    startCount, \* startCount[c]: the account nonce on the node when c began
    cbCalled,   \* cbCalled[c]: c's callback has been called
    count,      \* the account's nonce on the node (eth_getTransactionCount)
    signed      \* the signed transactions

vars == <<txo, pc, obj, args, startCount, cbCalled, count, signed>>

Fields == {"chainId", "gasPrice", "nonce"}
NoObj  == "none"

\* isNot(value): undefined or null.
isNot(v) == v \in {Undef, Null}

\* A Promise.all entry: the caller's value, a request in flight, or the
\* node's answer.
Entry(st, val) == [st |-> st, val |-> val]

TxObjects == [chainId: {Undef, Null, Val}, gasPrice: {Undef, Null, Val},
              nonce: {Undef, Null} \cup (0..MaxNonce), hasGas: BOOLEAN]

Init ==
    /\ txo \in [Objs -> InitTxs]
    /\ pc = [c \in Calls |-> "idle"]
    /\ obj = [c \in Calls |-> NoObj]
    /\ args = [c \in Calls |-> [f \in Fields |-> Entry("given", Undef)]]
    /\ startCount = [c \in Calls |-> 0]
    /\ cbCalled = [c \in Calls |-> FALSE]
    /\ count = 0
    /\ signed = {}

\* signed(tx): throws without gas, else signs and calls the callback. The
\* outcome names where a throw goes: to the caller ("threw") or into the
\* returned promise ("rejected").
Signed(c, t, path, thrown) ==
    IF ~t.hasGas
    THEN /\ pc' = [pc EXCEPT ![c] = thrown]
         /\ UNCHANGED <<cbCalled, signed>>
    ELSE /\ pc' = [pc EXCEPT ![c] = "signed"]
         /\ cbCalled' = [cbCalled EXCEPT ![c] = TRUE]
         /\ signed' = signed \cup {[call |-> c, path |-> path, nonce |-> t.nonce,
                                    chainId |-> t.chainId, gasPrice |-> t.gasPrice]}

\* Call c with object o: the synchronous path, or the requests for the
\* fields that are undefined or null.
SignTransaction(c, o) ==
    LET t == txo[o] IN
    /\ pc[c] = "idle"
    /\ obj' = [obj EXCEPT ![c] = o]
    /\ startCount' = [startCount EXCEPT ![c] = count]
    /\ IF t.nonce # Undef /\ t.chainId # Undef /\ t.gasPrice # Undef
       THEN /\ Signed(c, t, "sync", "threw")
            /\ UNCHANGED args
       ELSE /\ args' = [args EXCEPT ![c] = [f \in Fields |->
                           IF isNot(t[f]) THEN Entry("sent", Undef)
                                          ELSE Entry("given", t[f])]]
            /\ pc' = [pc EXCEPT ![c] = "fetching"]
            /\ UNCHANGED <<cbCalled, signed>>
    /\ UNCHANGED <<txo, count>>

\* The .then continuation with the settled entries a: throw on a missing
\* value, else _.extend the caller's object and sign it.
Continue(c, a) ==
    LET o == obj[c]
        t == [txo[o] EXCEPT !.chainId = a.chainId.val, !.gasPrice = a.gasPrice.val,
                            !.nonce = a.nonce.val]
    IN IF \E f \in Fields : isNot(a[f].val)
       THEN /\ pc' = [pc EXCEPT ![c] = "rejected"]
            /\ UNCHANGED <<txo, cbCalled, signed>>
       ELSE /\ txo' = [txo EXCEPT ![o] = t]
            /\ Signed(c, t, "async", "rejected")

\* Faulty variant: net_version's answer is used without its output
\* formatter (hexToNumber), as the raw hex string.
NodeValueNoFormatter(f) == IF f = "nonce" THEN count ELSE IF f = "chainId" THEN "0x.." ELSE Val

\* What the node answers for field f now.
NodeValue(f) == IF f = "nonce" THEN count ELSE Val

\* Faulty variant: a failed request is not passed on to Promise.all.
ReplyNoReject(c, f) ==
    /\ pc[c] = "fetching"
    /\ args[c][f].st = "sent"
    /\ \/ /\ args' = [args EXCEPT ![c][f] = Entry("err", Undef)]
          /\ UNCHANGED <<pc, txo, cbCalled, signed>>
       \/ \E v \in {NodeValue(f), Null} :
            LET a == [args[c] EXCEPT ![f] = Entry("back", v)] IN
            /\ args' = [args EXCEPT ![c] = a]
            /\ IF \A g \in Fields : a[g].st \in {"given", "back"}
               THEN Continue(c, a)
               ELSE UNCHANGED <<pc, txo, cbCalled, signed>>
    /\ UNCHANGED <<obj, startCount, count>>

\* The node answers request f of call c: a value (null when the node has
\* none) or a failure, which rejects the Promise.all at once. When it is
\* the last answer, the continuation runs in the same step.
Reply(c, f) ==
    /\ pc[c] = "fetching"
    /\ args[c][f].st = "sent"
    /\ \/ /\ args' = [args EXCEPT ![c][f] = Entry("err", Undef)]
          /\ pc' = [pc EXCEPT ![c] = "rejected"]
          /\ UNCHANGED <<txo, cbCalled, signed>>
       \/ \E v \in {NodeValue(f), Null} :
            LET a == [args[c] EXCEPT ![f] = Entry("back", v)] IN
            /\ args' = [args EXCEPT ![c] = a]
            /\ IF \A g \in Fields : a[g].st # "sent"
               THEN Continue(c, a)
               ELSE UNCHANGED <<pc, txo, cbCalled, signed>>
    /\ UNCHANGED <<obj, startCount, count>>

\* The node mines a signed transaction whose nonce is the account's next.
Mine ==
    /\ count < MaxNonce
    /\ \E s \in signed : s.nonce = count
    /\ count' = count + 1
    /\ UNCHANGED <<txo, pc, obj, args, startCount, cbCalled, signed>>

Next ==
    \/ \E c \in Calls, o \in Objs : SignTransaction(c, o)
    \/ \E c \in Calls, f \in Fields : Reply(c, f)
    \/ Mine

\* The node answers every request: an assumption on the transport.
Fairness == \A c \in Calls, f \in Fields : WF_vars(Reply(c, f))

Spec == Init /\ [][Next]_vars /\ Fairness

-----------------------------------------------------------------------------
(* Properties.                                                             *)

TypeOK ==
    /\ txo \in [Objs -> TxObjects]
    /\ pc \in [Calls -> {"idle", "fetching", "signed", "threw", "rejected"}]
    /\ obj \in [Calls -> Objs \cup {NoObj}]
    /\ startCount \in [Calls -> 0..MaxNonce]
    /\ cbCalled \in [Calls -> BOOLEAN]
    /\ count \in 0..MaxNonce
    /\ \A s \in signed : s.call \in Calls /\ s.path \in {"sync", "async"}

\* Every call that waits on the node settles: it signs, or its promise
\* rejects.
CallSettles == \A c \in Calls : pc[c] = "fetching" ~> pc[c] \in {"signed", "rejected"}

\* Every transaction signTransaction signs has a defined chainId, gasPrice
\* and nonce: the comment at the synchronous path says it is taken when
\* the three are provided, and the fetch path treats null as missing.
SignedValuesDefined ==
    \A s \in signed : {s.chainId, s.gasPrice, s.nonce} \cap {Undef, Null} = {}

\* A transaction is never signed with a nonce the account had already used
\* on the node when the call began (the callers never set a nonce).
NonceNotStale ==
    \A s \in signed : s.nonce \in Nat => s.nonce >= startCount[s.call]

\* A call that went to the node eventually calls its (error-first)
\* callback.
CallbackCalled == \A c \in Calls : pc[c] = "fetching" ~> cbCalled[c]
=============================================================================
