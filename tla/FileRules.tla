----------------------------- MODULE FileRules -----------------------------
(***************************************************************************)
(* The file rules of internal/rules/registry.go, and what of a repository  *)
(* bears on them: its files, and the pull requests of other people that a  *)
(* rule's search terms match.                                              *)
(***************************************************************************)
EXTENDS GitHubRepo, Naturals, Sequences, FiniteSets, Functions

CONSTANTS
    NumRules,   \* number of enabled rules
    PathsOf,    \* PathsOf[r]: FileRule.Paths, in order of priority
    Target      \* Target[r]: FileRule.TargetPath

\* The enabled rules, in the registry's order.
Rules == 1..NumRules

ASSUME RulesAssumption ==
    /\ NumRules \in Nat \ {0}
    /\ PathsOf \in [Rules -> Seq(Path) \ {<<>>}]
    /\ Target \in [Rules -> Path]

VARIABLE others     \* rules some other open pull request matches

repo == <<files, refs, base, added, open, others>>

RulesTypeOK == RepoTypeOK /\ others \subseteq Rules

RulesInit == RepoInit /\ others \in SUBSET Rules

\* "If ANY path exists, the rule is satisfied."
Satisfied(r) == \E p \in Range(PathsOf[r]) : p \in files

-----------------------------------------------------------------------------
(* The people who work on the repository.                                  *)

OpenOther(r) ==
    /\ r \notin others
    /\ others' = others \cup {r}
    /\ UNCHANGED <<files, ownRefs>>

\* Close the pull request, or merge one that only looked like adding the file.
CloseOther(r) ==
    /\ r \in others
    /\ others' = others \ {r}
    /\ UNCHANGED <<files, ownRefs>>

MergeOther(r) ==
    /\ r \in others
    /\ others' = others \ {r}
    /\ \E p \in Range(PathsOf[r]) : files' = files \cup {p}
    /\ UNCHANGED ownRefs
=============================================================================
