--------------------------- MODULE Eip1193Provider ---------------------------
(***************************************************************************)
(* The connect/disconnect handling of the EIP-1193 base provider           *)
(* (src/packages/web3-utils/src/web3_eip1193_provider.ts, class            *)
(* Eip1193Provider).                                                       *)
(*                                                                         *)
(* When the transport connects, _onConnect sends eth_chainId and           *)
(* eth_accounts concurrently; each reply is applied by its own .then       *)
(* handler, which updates _chainId / _accounts and emits chainChanged /    *)
(* accountsChanged when the value differs; when both branches have         *)
(* settled, Promise.all's continuation emits 'connect' with the _chainId   *)
(* of that moment.  _onDisconnect emits 'disconnect'.                      *)
(*                                                                         *)
(* The node's chain and accounts may change at any time (a wallet          *)
(* switching networks); the node answers a request with its state at the   *)
(* time it processes it, and answers arrive in any order.  A reply and     *)
(* the handlers it triggers run in one macrotask, so the arrival of a      *)
(* reply, its handler and (for the branch that settles last) the           *)
(* Promise.all continuation are one atomic step.                           *)
(***************************************************************************)
EXTENDS Naturals, Sequences, FiniteSets

CONSTANTS
    Chains,        \* chain ids the node can report
    NoChain,       \* the empty string '' (initial _chainId, missing result)
    AccountLists,  \* account lists the node can report (sequences)
    MaxSessions,   \* bound on transport connections (_onConnect calls)
    MaxSwitches    \* bound on changes of the node's chain or accounts

ASSUME NoChain \notin Chains
ASSUME << >> \in AccountLists

SX == INSTANCE SequencesExt

VARIABLES
    nodeChain,   \* the chain the node is on
    nodeAccts,   \* the accounts the node exposes
    switches,    \* changes of the node state so far
    connected,   \* the transport is connected
    session,     \* number of _onConnect calls so far
    chainId,     \* this._chainId
    accounts,    \* this._accounts
    chainReq,    \* chainReq[s]: state of session s's eth_chainId branch
    acctReq,     \* acctReq[s]: state of session s's eth_accounts branch
    events       \* the events emitted by _eventEmitter, in order

vars == <<nodeChain, nodeAccts, switches, connected, session, chainId,
          accounts, chainReq, acctReq, events>>

Sessions == 1 .. MaxSessions

(* A branch is "idle" before _onConnect, "sent" while the request is      *)
(* outstanding, "arrived" while its reply (ok, val) travels back, and      *)
(* "settled" once its .then / .catch handler has run.  "rejected" is the  *)
(* phase of a branch whose rejection reaches Promise.all.                  *)
Phases == {"idle", "sent", "arrived", "settled", "rejected"}
BranchStates(Vals) == [ph : Phases, ok : BOOLEAN, val : Vals]

Branch(ph, ok, val) == [ph |-> ph, ok |-> ok, val |-> val]

Event ==
    [type : {"chainChanged"}, val : Chains \cup {NoChain}]
    \cup [type : {"accountsChanged"}, val : AccountLists]
    \cup [type : {"connect"}, val : Chains \cup {NoChain}, session : Sessions]
    \cup [type : {"disconnect"}]

(***************************************************************************)
(* The accounts handler's change test, exactly as written:                 *)
(*   this._accounts.length === accounts.length &&                          *)
(*   accounts.every(v => accounts.includes(v))                             *)
(* The second conjunct compares the new list with itself.                  *)
(***************************************************************************)
SameAccounts(old, new) ==
    /\ Len(old) = Len(new)
    /\ \A i \in 1 .. Len(new) : SX!Contains(new, new[i])

(* Faulty variant: _onAccountsChanged called before the assignment emits  *)
(* the old list.                                                           *)
OnAccountsChangedStale(newAccounts) ==
    << [type |-> "accountsChanged", val |-> accounts] >>

(* _onAccountsChanged: emit('accountsChanged', this._accounts), called   *)
(* after the assignment, so with the new list.                            *)
OnAccountsChanged(newAccounts) ==
    << [type |-> "accountsChanged", val |-> newAccounts] >>

(* Faulty variant: a branch without its .catch passes the rejection on    *)
(* to Promise.all.                                                         *)
BranchOutcomeNoCatch(r) == IF r.ok THEN "settled" ELSE "rejected"

(* How the .then/.catch chain of a branch ends for a reply: both branches *)
(* have a .catch, so a failed request settles the branch too.             *)
BranchOutcome(r) == "settled"

(* Promise.all([...]).then(() => emit('connect', {chainId})): runs once   *)
(* both branches are settled; if one rejected, the outer .catch logs it.  *)
ConnectEvents(s, chainSt, acctSt, cid) ==
    IF chainSt = "settled" /\ acctSt = "settled"
    THEN << [type |-> "connect", val |-> cid, session |-> s] >>
    ELSE << >>

-----------------------------------------------------------------------------

Init ==
    /\ nodeChain \in Chains
    /\ nodeAccts \in AccountLists
    /\ switches = 0
    /\ connected = FALSE
    /\ session = 0
    /\ chainId = NoChain
    /\ accounts = << >>
    /\ chainReq = [s \in Sessions |-> Branch("idle", FALSE, NoChain)]
    /\ acctReq = [s \in Sessions |-> Branch("idle", FALSE, << >>)]
    /\ events = << >>

(* The transport connects and calls _onConnect: both requests are sent.   *)
OnConnect ==
    /\ ~connected
    /\ session < MaxSessions
    /\ connected' = TRUE
    /\ session' = session + 1
    /\ chainReq' = [chainReq EXCEPT ![session + 1].ph = "sent"]
    /\ acctReq' = [acctReq EXCEPT ![session + 1].ph = "sent"]
    /\ UNCHANGED <<nodeChain, nodeAccts, switches, chainId, accounts, events>>

(* The transport closes and calls _onDisconnect(code, data).              *)
OnDisconnect ==
    /\ connected
    /\ connected' = FALSE
    /\ events' = Append(events, [type |-> "disconnect"])
    /\ UNCHANGED <<nodeChain, nodeAccts, switches, session, chainId,
                   accounts, chainReq, acctReq>>

(* The node's chain or accounts change (a wallet switches network).       *)
NodeSwitch ==
    /\ switches < MaxSwitches
    /\ \E c \in Chains, a \in AccountLists :
          /\ <<c, a>> # <<nodeChain, nodeAccts>>
          /\ nodeChain' = c
          /\ nodeAccts' = a
    /\ switches' = switches + 1
    /\ UNCHANGED <<connected, session, chainId, accounts, chainReq, acctReq,
                   events>>

(* Faulty variant: without `?? ''` a response lacking a result makes       *)
(* _getChainId return undefined.                                          *)
ChainReplyNoDefault(s) ==
    /\ chainReq[s].ph = "sent"
    /\ \E r \in {Branch("arrived", TRUE, nodeChain), Branch("arrived", TRUE, "undefined"),
                 Branch("arrived", FALSE, NoChain)} :
          chainReq' = [chainReq EXCEPT ![s] = r]
    /\ UNCHANGED <<nodeChain, nodeAccts, switches, connected, session, chainId,
                   accounts, acctReq, events>>

(* The node answers eth_chainId: with its chain, with a response that     *)
(* lacks a result (_getChainId returns ''), or the request fails.         *)
ChainReply(s) ==
    /\ chainReq[s].ph = "sent"
    /\ \E r \in {Branch("arrived", TRUE, nodeChain), Branch("arrived", TRUE, NoChain),
                 Branch("arrived", FALSE, NoChain)} :
          chainReq' = [chainReq EXCEPT ![s] = r]
    /\ UNCHANGED <<nodeChain, nodeAccts, switches, connected, session, chainId,
                   accounts, acctReq, events>>

(* The node answers eth_accounts (a missing result becomes []).           *)
AcctReply(s) ==
    /\ acctReq[s].ph = "sent"
    /\ \E r \in {Branch("arrived", TRUE, nodeAccts), Branch("arrived", TRUE, << >>),
                 Branch("arrived", FALSE, << >>)} :
          acctReq' = [acctReq EXCEPT ![s] = r]
    /\ UNCHANGED <<nodeChain, nodeAccts, switches, connected, session, chainId,
                   accounts, chainReq, events>>

(* The eth_chainId reply arrives: the .then (or .catch) handler runs, and *)
(* if the accounts branch already settled, the connect continuation.      *)
ChainDeliver(s) ==
    /\ chainReq[s].ph = "arrived"
    /\ LET r == chainReq[s]
           changed == r.ok /\ r.val # chainId
           cid == IF changed THEN r.val ELSE chainId
           st == BranchOutcome(r)
       IN /\ chainId' = cid
          /\ chainReq' = [chainReq EXCEPT ![s].ph = st]
          /\ events' = events
                       \o (IF changed THEN << [type |-> "chainChanged", val |-> cid] >>
                                      ELSE << >>)
                       \o ConnectEvents(s, st, acctReq[s].ph, cid)
    /\ UNCHANGED <<nodeChain, nodeAccts, switches, connected, session,
                   accounts, acctReq>>

(* The eth_accounts reply arrives: the .then handler replaces _accounts   *)
(* and calls _onAccountsChanged unless SameAccounts holds.                *)
AcctDeliver(s) ==
    /\ acctReq[s].ph = "arrived"
    /\ LET r == acctReq[s]
           changed == r.ok /\ ~SameAccounts(accounts, r.val)
           st == BranchOutcome(r)
       IN /\ accounts' = IF changed THEN r.val ELSE accounts
          /\ acctReq' = [acctReq EXCEPT ![s].ph = st]
          /\ events' = events
                       \o (IF changed THEN OnAccountsChanged(r.val) ELSE << >>)
                       \o ConnectEvents(s, chainReq[s].ph, st, chainId)
    /\ UNCHANGED <<nodeChain, nodeAccts, switches, connected, session,
                   chainId, chainReq>>

Next ==
    \/ OnConnect
    \/ OnDisconnect
    \/ NodeSwitch
    \/ \E s \in Sessions :
          \/ ChainReply(s) \/ AcctReply(s)
          \/ ChainDeliver(s) \/ AcctDeliver(s)

(* The event loop runs every handler whose reply has arrived, and the     *)
(* transport answers every request it sent (an assumption: _onConnect    *)
(* sets no timeout of its own).                                           *)
Fairness ==
    \A s \in Sessions :
        /\ WF_vars(ChainReply(s)) /\ WF_vars(AcctReply(s))
        /\ WF_vars(ChainDeliver(s)) /\ WF_vars(AcctDeliver(s))

Spec == Init /\ [][Next]_vars /\ Fairness

-----------------------------------------------------------------------------

TypeOK ==
    /\ nodeChain \in Chains /\ nodeAccts \in AccountLists
    /\ switches \in 0 .. MaxSwitches
    /\ connected \in BOOLEAN /\ session \in 0 .. MaxSessions
    /\ chainId \in Chains \cup {NoChain}
    /\ accounts \in AccountLists
    /\ chainReq \in [Sessions -> BranchStates(Chains \cup {NoChain})]
    /\ acctReq \in [Sessions -> BranchStates(AccountLists)]
    /\ events \in Seq(Event)

\* The chainChanged and accountsChanged events of a log.
ChangeEvents(es) == SelectSeq(es, LAMBDA e : e.type \in {"chainChanged", "accountsChanged"})

\* The promise to listeners (ProviderEvents.tla), seen through the event
\* log: its announcements are the log's change events.
View == INSTANCE ProviderEvents WITH announced <- ChangeEvents(events)

(***************************************************************************)
(* The provider implements ProviderEvents: _chainId and _accounts change  *)
(* only in a handler that emits chainChanged / accountsChanged with the   *)
(* new value, and no such event is emitted without a change, however the  *)
(* replies of several sessions interleave with each other, with the       *)
(* node's switches and with the disconnects.                              *)
(***************************************************************************)
ImplementsProviderEvents == View!Spec

ConnectAnnounced(s) ==
    \E i \in 1 .. Len(events) :
        events[i].type = "connect" /\ events[i].session = s

(***************************************************************************)
(* Every _onConnect call is eventually followed by its 'connect' event,   *)
(* even when eth_chainId or eth_accounts fails: each branch has a .catch,  *)
(* so Promise.all always resolves.  Assumes the transport answers every   *)
(* request and the event loop runs every ready handler (Fairness).         *)
(***************************************************************************)
EveryConnectAnnounced ==
    \A s \in Sessions : chainReq[s].ph # "idle" ~> ConnectAnnounced(s)

(***************************************************************************)
(* The accounts handler applies a successful eth_accounts reply: after it *)
(* runs, _accounts is the list the node returned (the doc comment: "fetching *)
(* the chain ID and accounts, emitting relevant events if they change").   *)
(* The change test compares the new list with itself, so a reply with a    *)
(* different list of the same length is dropped.                           *)
(***************************************************************************)
AccountsChangeApplied ==
    [][\A s \in Sessions :
         (AcctDeliver(s) /\ acctReq[s].ok) => accounts' = acctReq[s].val]_vars

(* Number of 'disconnect' events before position i of the event log. *)
DisconnectsBefore(i) ==
    Cardinality({j \in 1 .. i - 1 : events[j].type = "disconnect"})

(***************************************************************************)
(* 'connect' announces a live connection ("triggered when the provider     *)
(* establishes a connection"): the connect event of session s comes before *)
(* the disconnect that ends session s.  The code emits it whenever both    *)
(* replies have settled, also when they settle after the socket closed.   *)
(***************************************************************************)
ConnectBeforeItsDisconnect ==
    \A i \in 1 .. Len(events) :
        events[i].type = "connect" => DisconnectsBefore(i) < events[i].session

=============================================================================
