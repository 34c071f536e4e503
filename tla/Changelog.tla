------------------------------ MODULE Changelog ------------------------------
(***************************************************************************)
(* The pre-commit changelog check (scripts/check_changelog.js): it lists   *)
(* the staged files, scans them in order into a Map from package name to   *)
(* {hasCodeChanges, hasChangelogUpdate}, walks the Map in insertion order  *)
(* setting hasError, and exits 1 when a package has code changes and no    *)
(* changelog update. Any exception, from git or later, exits 0.           *)
(*                                                                         *)
(* A path is a sequence of segments. The three string tests of the script  *)
(* are tables over the segments: EndsPackages (the segment ends with       *)
(* "packages", so that "packages/" matches at its end), CodeSegs (the last *)
(* segment matches /\.(js|jsx|ts|tsx|css|json)$/) and ChangelogSegs (it    *)
(* ends with "CHANGELOG.md"). Colours and messages are left out.          *)
(***************************************************************************)
EXTENDS Integers, Sequences, FiniteSets

CONSTANTS
    Segs,           \* path segments
    EndsPackages,   \* segments that end with "packages"
    CodeSegs,       \* file names the code-file regex accepts
    ChangelogSegs,  \* file names that end with "CHANGELOG.md"
    StagedLists,    \* the outputs `git diff --cached --name-only` can give
    None            \* no match

VARIABLES
    phase,      \* "start", "scan", "check", "exit", or "caught" after the catch
    staged,     \* the staged files
    todo,       \* the files forEach has still to visit
    pkgs,       \* packagesWithChanges: name -> [code, log]
    order,      \* the Map's insertion order
    hasError,
    exit        \* the exit code (None before exit)

vars == <<phase, staged, todo, pkgs, order, hasError, exit>>

\* file.match(/packages\/([^/]+)/)[1]: the segment after the leftmost
\* segment that ends with "packages", when there is one.
PackageOf(f) ==
    LET is == {i \in 1..(Len(f) - 1) : f[i] \in EndsPackages} IN
    IF is = {} THEN None ELSE f[(CHOOSE i \in is : \A j \in is : i <= j) + 1]

\* The two tests of a file; endsWith on the path is a test of its last
\* segment, since "CHANGELOG.md" has no slash.
isCodeFile(f)  == f[Len(f)] \in CodeSegs
isChangelog(f) == f[Len(f)] \in ChangelogSegs

Init ==
    /\ phase = "start"
    /\ staged \in StagedLists
    /\ todo = <<>>
    /\ pkgs = [p \in {} |-> [code |-> FALSE, log |-> FALSE]]
    /\ order = <<>>
    /\ hasError = FALSE
    /\ exit = None

\* execSync('git diff --cached --name-only') returns; trim, split and
\* filter(Boolean) give the list of paths.
ListStaged ==
    /\ phase = "start"
    /\ phase' = "scan"
    /\ todo' = staged
    /\ UNCHANGED <<staged, pkgs, order, hasError, exit>>

\* execSync throws (no git, not a repository): the catch exits 0.
GitFails ==
    /\ phase = "start"
    /\ phase' = "caught"
    /\ exit' = 0
    /\ UNCHANGED <<staged, todo, pkgs, order, hasError>>

\* Faulty variant: a path without a package match is not skipped.
ScanFileNoSkip ==
    /\ phase = "scan"
    /\ todo # <<>>
    /\ LET f == Head(todo)
           p == PackageOf(f)
           e == IF p \in DOMAIN pkgs THEN pkgs[p] ELSE [code |-> FALSE, log |-> FALSE]
       IN /\ pkgs' = [q \in DOMAIN pkgs \cup {p} |->
                       IF q = p THEN [code |-> e.code \/ (isCodeFile(f) /\ ~isChangelog(f)),
                                      log  |-> e.log \/ isChangelog(f)]
                       ELSE pkgs[q]]
          /\ order' = IF p \in DOMAIN pkgs THEN order ELSE Append(order, p)
    /\ todo' = Tail(todo)
    /\ UNCHANGED <<phase, staged, hasError, exit>>

\* Faulty variant: the entry is created afresh for every file.
ScanFileFreshEntry ==
    /\ phase = "scan"
    /\ todo # <<>>
    /\ LET f == Head(todo)
           p == PackageOf(f)
       IN IF p = None THEN UNCHANGED <<pkgs, order>>
          ELSE /\ pkgs' = [q \in DOMAIN pkgs \cup {p} |->
                            IF q = p THEN [code |-> isCodeFile(f) /\ ~isChangelog(f),
                                           log  |-> isChangelog(f)]
                            ELSE pkgs[q]]
               /\ order' = IF p \in DOMAIN pkgs THEN order ELSE Append(order, p)
    /\ todo' = Tail(todo)
    /\ UNCHANGED <<phase, staged, hasError, exit>>

\* The forEach callback on the next file: skip it when it is outside a
\* package; else create the package's entry if it has none, and set its
\* flags.
ScanFile ==
    /\ phase = "scan"
    /\ todo # <<>>
    /\ LET f == Head(todo)
           p == PackageOf(f)
           e == IF p \in DOMAIN pkgs THEN pkgs[p] ELSE [code |-> FALSE, log |-> FALSE]
       IN IF p = None THEN UNCHANGED <<pkgs, order>>
          ELSE /\ pkgs' = [q \in DOMAIN pkgs \cup {p} |->
                            IF q = p THEN [code |-> e.code \/ (isCodeFile(f) /\ ~isChangelog(f)),
                                           log  |-> e.log \/ isChangelog(f)]
                            ELSE pkgs[q]]
               /\ order' = IF p \in DOMAIN pkgs THEN order ELSE Append(order, p)
    /\ todo' = Tail(todo)
    /\ UNCHANGED <<phase, staged, hasError, exit>>

\* forEach has visited every file.
ScanDone ==
    /\ phase = "scan"
    /\ todo = <<>>
    /\ phase' = "check"
    /\ todo' = order
    /\ UNCHANGED <<staged, pkgs, order, hasError, exit>>

\* One turn of the for...of loop over the Map, in insertion order.
CheckPackage ==
    /\ phase = "check"
    /\ todo # <<>>
    /\ LET i == pkgs[Head(todo)] IN
       hasError' = (hasError \/ (i.code /\ ~i.log))
    /\ todo' = Tail(todo)
    /\ UNCHANGED <<phase, staged, pkgs, order, exit>>

\* process.exit(1) when hasError, else the script ends with status 0.
Finish ==
    /\ phase = "check"
    /\ todo = <<>>
    /\ phase' = "exit"
    /\ exit' = IF hasError THEN 1 ELSE 0
    /\ UNCHANGED <<staged, todo, pkgs, order, hasError>>

Next == ListStaged \/ GitFails \/ ScanFile \/ ScanDone \/ CheckPackage \/ Finish

\* A sequential script: once started it runs to its exit.
Spec == Init /\ [][Next]_vars /\ WF_vars(Next)

-----------------------------------------------------------------------------
(* Reference definitions.                                                   *)

\* The one-step decision the script promises (ChangelogDecision.tla), over
\* the same staged files and exit status.
Decision == INSTANCE ChangelogDecision
    WITH git <- CASE phase = "start"  -> "unasked"
                  [] phase = "caught" -> "failed"
                  [] OTHER            -> "answered"

\* The rule the script's rejection message states: a package
\* packages/<p>/ with a code change needs packages/<p>/CHANGELOG.md.
InPackage(f, p) == Len(f) >= 3 /\ f[1] = "packages" /\ f[2] = p
Modified(p)     == \E f \in Decision!Files : InPackage(f, p) /\ isCodeFile(f)
HasChangelog(p) == <<"packages", p, "CHANGELOG.md">> \in Decision!Files

-----------------------------------------------------------------------------
(* Properties.                                                             *)

TypeOK ==
    /\ phase \in {"start", "scan", "check", "exit", "caught"}
    /\ DOMAIN pkgs \subseteq Segs
    /\ \A p \in DOMAIN pkgs : pkgs[p] \in [code : BOOLEAN, log : BOOLEAN]
    /\ exit \in {None, 0, 1}

\* The script implements its one-step decision: it ends, and its exit
\* status is 1 exactly when git gave the staged list and some package has
\* a code change and no changelog, and 0 without a verdict only when git
\* failed, however the staged files are ordered, the Map's entries being
\* created once and their flags only ever set. The mapping is the identity
\* on staged and exit, git's answer is read off the phase, and the scan is
\* hidden.
ImplementsDecision == Decision!Spec

\* Every path the script lets through follows the stated rule.
ChangelogOfEveryChangedPackage ==
    phase = "exit" /\ exit = 0 =>
        \A p \in Segs : Modified(p) => HasChangelog(p)
====
