CONSTANTS
    c1 = c1
    c2 = c2
    a1 = a1
    a2 = a2
    NoChain = NoChain
    Chains <- MC_Chains
    AccountLists <- MC_AccountLists
    MaxSessions = 2
    MaxSwitches = 1

SPECIFICATION Spec

\* A provider whose connections are used up and whose requests are all
\* answered waits for the next transport event: it may stop.
CHECK_DEADLOCK FALSE

INVARIANT TypeOK
PROPERTY ImplementsProviderEvents
PROPERTY EveryConnectAnnounced
