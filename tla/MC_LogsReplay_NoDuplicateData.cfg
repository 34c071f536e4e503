CONSTANTS
    Undef = Undef
    FromBlocks <- MC_FromBlocks
    MaxBlock = 3
    Contexts <- MC_Contexts
    Others <- MC_Others

SPECIFICATION Spec

\* The chain may stop and the caller may never unsubscribe; once every
\* socket message is handled the client waits.
CHECK_DEADLOCK FALSE

INVARIANT NoDuplicateData
