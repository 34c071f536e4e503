\* The changelog check over every list of up to three staged paths.
CONSTANTS
    None = None
    Segs <- MC_Segs
    EndsPackages <- MC_EndsPackages
    CodeSegs <- MC_CodeSegs
    ChangelogSegs <- MC_ChangelogSegs
    StagedLists <- MC_StagedLists
SPECIFICATION Spec
\* The script ends.
CHECK_DEADLOCK FALSE
INVARIANT TypeOK
PROPERTY ImplementsDecision
