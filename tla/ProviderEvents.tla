--------------------------- MODULE ProviderEvents ---------------------------
(***************************************************************************)
(* What an EIP-1193 provider promises the listeners of chainChanged and   *)
(* accountsChanged: its chain id and its account list change only by a    *)
(* step that announces the new value, and an announcement is always a     *)
(* change. A listener that replays the announcements therefore knows the  *)
(* provider's state, and never sees an event that changes nothing.        *)
(* Eip1193Provider.tla implements it, its other events hidden.            *)
(***************************************************************************)
EXTENDS Sequences

CONSTANTS
    Chains,        \* chain ids
    NoChain,       \* the empty chain id '' a provider starts with
    AccountLists   \* account lists (sequences)

VARIABLES
    chainId,       \* the provider's chain id
    accounts,      \* the provider's account list
    announced      \* the chainChanged and accountsChanged events, in order

pvars == <<chainId, accounts, announced>>

Init ==
    /\ chainId = NoChain
    /\ accounts = << >>
    /\ announced = << >>

\* The chain id becomes c, and chainChanged carries c.
ChainChanged(c) ==
    /\ c # chainId
    /\ chainId' = c
    /\ announced' = Append(announced, [type |-> "chainChanged", val |-> c])
    /\ UNCHANGED accounts

\* The account list becomes a, and accountsChanged carries a.
AccountsChanged(a) ==
    /\ a # accounts
    /\ accounts' = a
    /\ announced' = Append(announced, [type |-> "accountsChanged", val |-> a])
    /\ UNCHANGED chainId

Next ==
    \/ \E c \in Chains \cup {NoChain} : ChainChanged(c)
    \/ \E a \in AccountLists : AccountsChanged(a)

\* A provider need never change: no fairness.
Spec == Init /\ [][Next]_pvars
=============================================================================
