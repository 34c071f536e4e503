----------------------------- MODULE LogsReplay -----------------------------
(***************************************************************************)
(* Web3Eth.subscribe('logs', args) with args.fromBlock                    *)
(* (web3-eth/src/web3_eth.ts) and LogsSubscription                         *)
(* (web3-eth/src/web3_subscriptions.ts).                                   *)
(*                                                                         *)
(* subscribe awaits the subscription manager (eth_subscribe); when        *)
(* fromBlock is a finite number it then, on nextTick, calls getPastLogs   *)
(* (eth_getLogs) and pushes every past log into the subscription with     *)
(* _processSubscriptionResult, or an error with _processSubscriptionError. *)
(*                                                                         *)
(* The node and the socket are the environment: every block holds one    *)
(* matching log, named by its block number; the node pushes the logs of  *)
(* blocks mined after it registered the subscription; replies and         *)
(* notifications share one FIFO socket. The subscription manager (not in *)
(* this repository) drops notifications of a subscription it removed.    *)
(* Beside it the caller holds subscriptions of the other classes, made   *)
(* by name through the registeredSubscriptions the constructor chose; the *)
(* node pushes each a notification (a head, a pending transaction, a sync *)
(* status) or an error on every block, and clearSubscriptions may keep    *)
(* those of class SyncingSubscription (notClearSyncing).                   *)
(***************************************************************************)
EXTENDS Integers, Sequences, SequencesExt

CONSTANTS
    FromBlocks, \* the values of args.fromBlock: block numbers and Undef
    Undef,      \* args.fromBlock left undefined
    MaxBlock,   \* the last block the node mines
    Contexts,   \* the constructor's arguments: [kind, subs], subs a map or Undef
    Others      \* the names, besides 'logs', the caller subscribes to

VARIABLES
    fromBlock,  \* args.fromBlock
    head,       \* the node's latest block
    nodeSub,    \* the node pushes logs of blocks mined from now on
    phase,      \* where the subscribe call is
    registered, \* the manager holds the subscription (not unsubscribed)
    replay,     \* the getPastLogs branch
    chan,       \* the socket, node to client, in order
    emitted,    \* the subscription's 'data' and 'error' events, in order
    reg,        \* the registeredSubscriptions: name -> subscription class
    sub,        \* sub[n]: the subscription made by name n: "none", "registered", "removed"
    data        \* data[n]: its 'data' and 'error' events

vars == <<fromBlock, head, nodeSub, phase, registered, replay, chan, emitted,
          reg, sub, data>>
sVars == <<reg, sub, data>>

Blocks == 0..MaxBlock

\* A message on the socket: a live log, the eth_subscribe reply, the
\* eth_getLogs reply (its logs, or a failure).
LogMsg(b)       == [kind |-> "log", logs |-> <<b>>]
SubReplyMsg     == [kind |-> "subReply", logs |-> <<>>]
PastMsg(ls)     == [kind |-> "past", logs |-> ls]
PastErrMsg      == [kind |-> "pastErr", logs |-> <<>>]
NotifyMsg(n, b, ok) == [kind |-> "notify", logs |-> <<b>>, name |-> n, ok |-> ok]

\* The registeredSubscriptions of web3_eth.ts: every name and its class,
\* with the two 1.x aliases.
RegisteredSubscriptions ==
    [logs |-> "Logs", newPendingTransactions |-> "NewPendingTransactions",
     newHeads |-> "NewHeads", syncing |-> "Syncing",
     pendingTransactions |-> "NewPendingTransactions", newBlockHeaders |-> "NewHeads"]

\* The Web3Eth constructor: a provider (or URL) gets the default map; an
\* options object keeps its own registeredSubscriptions, or gets the
\* default one added.
Web3EthConstructor(ctx) ==
    IF ctx.kind = "options" /\ ctx.subs # Undef THEN ctx.subs ELSE RegisteredSubscriptions

\* A 'data' event with the log of block b, and an 'error' event.
DataEv(b) == [kind |-> "data", log |-> b]
ErrorEv   == [kind |-> "error", log |-> -1]

\* eth_getLogs from fromBlock to the latest block, in block order.
PastLogs(from) == [i \in 1..(IF head >= from THEN head - from + 1 ELSE 0) |-> from + i - 1]

Init ==
    /\ fromBlock \in FromBlocks
    /\ head = 0
    /\ nodeSub = FALSE
    /\ phase = "idle"
    /\ registered = FALSE
    /\ replay = "none"
    /\ chan = <<>>
    /\ emitted = <<>>
    /\ \E ctx \in Contexts : reg = Web3EthConstructor(ctx)
    /\ sub = [n \in Others |-> "none"]
    /\ data = [n \in Others |-> <<>>]

\* subscribe(...) sends eth_subscribe through the subscription manager.
Subscribe ==
    /\ phase = "idle"
    /\ phase' = "subscribing"
    /\ UNCHANGED <<fromBlock, head, nodeSub, registered, replay, chan, emitted, sVars>>

\* The node registers the subscription and replies.
NodeSubscribe ==
    /\ phase = "subscribing"
    /\ ~nodeSub
    /\ nodeSub' = TRUE
    /\ chan' = Append(chan, SubReplyMsg)
    /\ UNCHANGED <<fromBlock, head, phase, registered, replay, emitted, sVars>>

\* The node mines a block; a registered logs subscription is pushed its
\* log, every other registered subscription a notification or an error.
Mine ==
    /\ head < MaxBlock
    /\ head' = head + 1
    /\ LET live == {n \in Others : sub[n] = "registered"} IN
       \E ok \in [live -> BOOLEAN] :
           chan' = chan \o (IF nodeSub THEN <<LogMsg(head + 1)>> ELSE <<>>)
                        \o SetToSeq({NotifyMsg(n, head + 1, ok[n]) : n \in live})
    /\ UNCHANGED <<fromBlock, nodeSub, phase, registered, replay, emitted, sVars>>

\* subscribe(n) for a registered name other than 'logs' returns the
\* subscription once the manager has it; the fromBlock test fails.
SubscribeOther(n) ==
    /\ n \in DOMAIN reg
    /\ sub[n] = "none"
    /\ sub' = [sub EXCEPT ![n] = "registered"]
    /\ UNCHANGED <<fromBlock, head, nodeSub, phase, registered, replay, chan, emitted,
                   reg, data>>

\* A notification of subscription n: its class's
\* _processSubscriptionResult emits 'data', _processSubscriptionError
\* 'error', while the manager holds the subscription.
OnNotify ==
    /\ chan # <<>> /\ Head(chan).kind = "notify"
    /\ LET m == Head(chan) IN
       data' = IF sub[m.name] = "registered"
               THEN [data EXCEPT ![m.name] = Append(@, IF m.ok THEN DataEv(m.logs[1]) ELSE ErrorEv)]
               ELSE data
    /\ chan' = Tail(chan)
    /\ UNCHANGED <<fromBlock, head, nodeSub, phase, registered, replay, emitted,
                   reg, sub>>

\* The fromBlock test of subscribe: not nullish and Number.isFinite.
\* Faulty variant: a truthiness test, which skips fromBlock 0.
ReplayWantedTruthy(fb) == fb # Undef /\ fb # 0
ReplayWanted(fb) == fb # Undef

\* The eth_subscribe reply reaches the client: the manager registers the
\* subscription, the await in subscribe resumes, and the nextTick callback
\* sends eth_getLogs before any further socket message is handled.
OnSubscribed ==
    /\ chan # <<>> /\ Head(chan).kind = "subReply"
    /\ chan' = Tail(chan)
    /\ phase' = "returned"
    /\ registered' = TRUE
    /\ replay' = IF ReplayWanted(fromBlock) THEN "sent" ELSE "none"
    /\ UNCHANGED <<fromBlock, head, nodeSub, emitted, sVars>>

\* The node answers eth_getLogs with the logs up to its latest block, or
\* fails.
NodeGetLogs ==
    /\ replay = "sent"
    /\ replay' = "answered"
    /\ \/ chan' = Append(chan, PastMsg(PastLogs(fromBlock)))
       \/ chan' = Append(chan, PastErrMsg)
    /\ UNCHANGED <<fromBlock, head, nodeSub, phase, registered, emitted, sVars>>

\* A live log notification: emitted while the manager holds the
\* subscription (_processSubscriptionResult), dropped after.
OnLog ==
    /\ chan # <<>> /\ Head(chan).kind = "log"
    /\ chan' = Tail(chan)
    /\ emitted' = IF registered THEN Append(emitted, DataEv(Head(Head(chan).logs)))
                  ELSE emitted
    /\ UNCHANGED <<fromBlock, head, nodeSub, phase, registered, replay, sVars>>

\* Faulty variant: the whole getPastLogs result is pushed as one result.
OnPastLogsWhole ==
    /\ chan # <<>> /\ Head(chan).kind \in {"past", "pastErr"}
    /\ chan' = Tail(chan)
    /\ replay' = "done"
    /\ emitted' = IF Head(chan).kind = "past"
                  THEN Append(emitted, Head(chan))
                  ELSE Append(emitted, ErrorEv)
    /\ UNCHANGED <<fromBlock, head, nodeSub, phase, registered, sVars>>

\* The getPastLogs promise settles: .then pushes every log into the
\* subscription object, .catch pushes the error. Neither looks at whether
\* the subscription is still registered.
OnPastLogs ==
    /\ chan # <<>> /\ Head(chan).kind \in {"past", "pastErr"}
    /\ chan' = Tail(chan)
    /\ replay' = "done"
    /\ emitted' = IF Head(chan).kind = "past"
                  THEN emitted \o [i \in DOMAIN Head(chan).logs |-> DataEv(Head(chan).logs[i])]
                  ELSE Append(emitted, ErrorEv)
    /\ UNCHANGED <<fromBlock, head, nodeSub, phase, registered, sVars>>

\* Web3Eth.shouldClearSubscription: every subscription that is not an
\* instance of SyncingSubscription.
shouldClearSubscription(n) == reg[n] # "Syncing"

\* clearSubscriptions(notClearSyncing) (or unsubscribe() of the one logs subscription):
\* the manager drops the subscriptions the filter accepts (all of them
\* without a filter), and the node stops pushing to them. A logs
\* subscription whose eth_subscribe is still outstanding is not yet the
\* manager's: it is left alone.
clearSubscriptions(notClearSyncing) ==
    LET clears(n) == ~notClearSyncing \/ shouldClearSubscription(n) IN
    /\ registered \/ \E n \in Others : sub[n] = "registered"
    /\ registered' = (registered /\ ~clears("logs"))
    /\ nodeSub' = (nodeSub /\ ~(registered /\ clears("logs")))
    /\ sub' = [n \in Others |-> IF sub[n] = "registered" /\ clears(n) THEN "removed" ELSE sub[n]]
    /\ UNCHANGED <<fromBlock, head, phase, replay, chan, emitted, reg, data>>

Next ==
    \/ Subscribe \/ NodeSubscribe \/ Mine \/ OnSubscribed
    \/ NodeGetLogs \/ OnLog \/ OnPastLogs \/ OnNotify \/ \E n \in Others : SubscribeOther(n)
    \/ \E notClearSyncing \in BOOLEAN : clearSubscriptions(notClearSyncing)

\* The node answers and the client's event loop handles every socket
\* message; the caller and the chain may stop.
Fairness ==
    /\ WF_vars(NodeSubscribe) /\ WF_vars(NodeGetLogs)
    /\ WF_vars(OnSubscribed) /\ WF_vars(OnLog) /\ WF_vars(OnPastLogs) /\ WF_vars(OnNotify)

Spec == Init /\ [][Next]_vars /\ Fairness

-----------------------------------------------------------------------------
(* Properties.                                                             *)

TypeOK ==
    /\ fromBlock \in FromBlocks
    /\ head \in Blocks
    /\ phase \in {"idle", "subscribing", "returned"}
    /\ replay \in {"none", "sent", "answered", "done"}
    /\ nodeSub \in BOOLEAN /\ registered \in BOOLEAN
    /\ sub \in [Others -> {"none", "registered", "removed"}]
    /\ \A i \in 1..Len(emitted) : emitted[i] \in {DataEv(b) : b \in Blocks} \cup {ErrorEv}

Delivered(b) == \E i \in 1..Len(emitted) : emitted[i] = DataEv(b)
ErrorEmitted == \E i \in 1..Len(emitted) : emitted[i] = ErrorEv

\* With a numeric fromBlock, every log of a block from fromBlock on that
\* is mined while the subscription is held reaches the listener (or an
\* error does): the past logs cover what was mined before the node
\* registered the subscription, the live logs what came after, with no
\* gap between the eth_subscribe and the eth_getLogs.
NoLogLost ==
    \A b \in Blocks :
        (registered /\ fromBlock # Undef /\ b >= fromBlock /\ head >= b)
            ~> (Delivered(b) \/ ErrorEmitted \/ ~registered)

\* Every log reaches the listener at most once.
NoDuplicateData ==
    \A i, j \in 1..Len(emitted) : i < j /\ emitted[i].kind = "data" => emitted[i] # emitted[j]

\* The listener sees the logs in block order.
DataInBlockOrder ==
    \A i, j \in 1..Len(emitted) :
        i < j /\ emitted[i].kind = "data" /\ emitted[j].kind = "data"
            => emitted[i].log < emitted[j].log

\* After unsubscribe, no 'data' event reaches the subscription.
NoDataAfterUnsubscribe == [][~registered => Len(emitted') = Len(emitted)]_vars
=============================================================================
