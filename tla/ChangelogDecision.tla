-------------------------- MODULE ChangelogDecision --------------------------
(***************************************************************************)
(* What the pre-commit changelog check promises, as one step: once it has *)
(* the staged files it exits 1 when some package, as its path tests judge *)
(* a path, has a staged code change and no staged changelog, and 0       *)
(* otherwise; when, and only when, git cannot be asked it exits 0 with no *)
(* verdict. The script of                                                 *)
(* Changelog.tla, with its scan and its Map walk, implements it.          *)
(***************************************************************************)
CONSTANTS
    StagedLists,    \* the outputs `git diff --cached --name-only` can give
    None,           \* no exit status yet
    PackageOf(_),   \* the package a path belongs to, or None
    isCodeFile(_),  \* the path is a code file
    isChangelog(_)  \* the path is a changelog

VARIABLES
    staged,  \* the staged paths
    git,     \* "unasked", "answered" (the list was read) or "failed"
    exit

Files == {staged[i] : i \in DOMAIN staged}

\* The packages with a code change and those with a changelog update.
Changed == {PackageOf(f) : f \in {g \in Files : isCodeFile(g) /\ ~isChangelog(g)}} \ {None}
Logged  == {PackageOf(f) : f \in {g \in Files : isChangelog(g)}} \ {None}

Init == staged \in StagedLists /\ git = "unasked" /\ exit = None

\* git gives the staged list.
Ask ==
    /\ git = "unasked"
    /\ git' = "answered"
    /\ UNCHANGED <<staged, exit>>

\* The verdict on the list git gave, in one step.
Decide ==
    /\ git = "answered"
    /\ exit = None
    /\ exit' = IF Changed \ Logged # {} THEN 1 ELSE 0
    /\ UNCHANGED <<staged, git>>

\* git is not there: the check is skipped, and only then.
Skip ==
    /\ git = "unasked"
    /\ git' = "failed"
    /\ exit' = 0
    /\ UNCHANGED staged

Next == Ask \/ Decide \/ Skip

\* The script runs to its end.
Spec == Init /\ [][Next]_<<staged, git, exit>> /\ WF_<<staged, git, exit>>(Next)
=============================================================================
