----------------------------- MODULE MC_Changelog -----------------------------
(***************************************************************************)
(* Two packages, and the paths a commit touches: code and a changelog in  *)
(* each, a package.json, a README, a changelog one directory down, an     *)
(* OLD_CHANGELOG.md, a file outside the packages, and one under a         *)
(* directory whose name ends with "packages". Up to three staged files,   *)
(* in every order.                                                         *)
(***************************************************************************)
EXTENDS Changelog

MC_Paths ==
    { <<"packages", "p1", "src", "a.ts">>,
      <<"packages", "p1", "CHANGELOG.md">>,
      <<"packages", "p1", "docs", "CHANGELOG.md">>,
      <<"packages", "p2", "package.json">>,
      <<"packages", "p2", "README.md">>,
      <<"packages", "p2", "OLD_CHANGELOG.md">>,
      <<"packages", "p2", "CHANGELOG.md">>,
      <<"scripts", "a.js">>,
      <<"test-packages", "p1", "a.ts">> }

MC_Segs == {"packages", "test-packages", "p1", "p2", "src", "docs", "scripts", "a.ts",
            "a.js", "package.json", "README.md", "CHANGELOG.md", "OLD_CHANGELOG.md"}
MC_EndsPackages  == {"packages", "test-packages"}
MC_CodeSegs      == {"a.ts", "a.js", "package.json"}
MC_ChangelogSegs == {"CHANGELOG.md", "OLD_CHANGELOG.md"}

\* Lists of distinct paths, as git prints them, of length 0 to 3.
MC_StagedLists ==
    {<<>>} \cup {<<a>> : a \in MC_Paths}
    \cup {s \in {<<a, b>> : a, b \in MC_Paths} \cup {<<a, b, c>> : a, b, c \in MC_Paths} :
           \A i, j \in DOMAIN s : i # j => s[i] # s[j]}
=============================================================================
