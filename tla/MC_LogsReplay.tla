---------------------------- MODULE MC_LogsReplay ----------------------------
EXTENDS LogsReplay

\* fromBlock: 0, the first block, a later block, or left out.
MC_FromBlocks == {0, 1, Undef}

\* A provider, and an options object whose own registeredSubscriptions
\* names a SyncingSubscription 'chainSync'.
MC_Contexts ==
    {[kind |-> "provider", subs |-> Undef],
     [kind |-> "options", subs |-> [logs |-> "Logs", chainSync |-> "Syncing", newBlockHeaders |-> "NewHeads"]]}

\* A 1.x alias of newHeads, and the custom name of a syncing subscription.
MC_Others == {"newBlockHeaders", "chainSync"}
=============================================================================
