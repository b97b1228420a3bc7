----------------------------- MODULE GitHubRepo -----------------------------
(***************************************************************************)
(* One repository at GitHub, as far as the app's calls can tell: which     *)
(* files the default branch has, and the app's own branches with the pull  *)
(* requests opened from them.                                              *)
(*                                                                         *)
(* The operators with the names of client.go's methods say what a method   *)
(* returns or does; Can... is what GitHub demands of the call, which is    *)
(* refused otherwise.  GitHub itself, and the people who work on the       *)
(* repository, are external to the program.                                *)
(***************************************************************************)
CONSTANTS
    Path,       \* file paths
    Branches    \* the fixed branch names the app uses

VARIABLES
    files,      \* paths present on the default branch
    refs,       \* the app's branches that exist
    base,       \* base[b]: paths the default branch had where b was cut
    added,      \* added[b]: paths committed to b since
    open        \* the app's branches with an open pull request

ownRefs == <<refs, base, added, open>>

RepoTypeOK ==
    /\ files \subseteq Path
    /\ refs \subseteq Branches
    /\ base \in [Branches -> SUBSET Path]
    /\ added \in [Branches -> SUBSET Path]
    /\ open \subseteq Branches

\* A repository the app has never worked on.
RepoInit ==
    /\ files \in SUBSET Path
    /\ refs = {} /\ open = {}
    /\ base = [b \in Branches |-> {}]
    /\ added = [b \in Branches |-> {}]

-----------------------------------------------------------------------------
(* The client's reads and writes.                                          *)

GetContents(p) == p \in files

GetBranchSHA(b) == b \in refs

CanCreateBranch(b) == b \notin refs

CreateBranch(b, from) ==
    /\ CanCreateBranch(b)
    /\ refs' = refs \cup {b}
    /\ base' = [base EXCEPT ![b] = from]
    /\ added' = [added EXCEPT ![b] = {}]
    /\ UNCHANGED <<files, open>>

CanDeleteBranch(b) == b \in refs

\* GitHub closes the pull request of a branch that goes away.
DeleteBranch(b) ==
    /\ CanDeleteBranch(b)
    /\ refs' = refs \ {b}
    /\ open' = open \ {b}
    /\ base' = [base EXCEPT ![b] = {}]
    /\ added' = [added EXCEPT ![b] = {}]
    /\ files' = files

\* The request names no blob to replace, so GitHub refuses it for a file that
\* the branch already has.
CanCreateFile(b, p) == b \in refs /\ p \notin base[b] \cup added[b]

CreateOrUpdateFile(b, p) ==
    /\ CanCreateFile(b, p)
    /\ added' = [added EXCEPT ![b] = @ \cup {p}]
    /\ UNCHANGED <<files, refs, base, open>>

\* One pull request per branch, and one with no commits is refused.
CanCreatePullRequest(b) == b \in refs /\ b \notin open /\ added[b] # {}

CreatePullRequest(b) ==
    /\ CanCreatePullRequest(b)
    /\ open' = open \cup {b}
    /\ UNCHANGED <<files, refs, base, added>>

-----------------------------------------------------------------------------
(* The people who work on the repository.                                  *)

\* Merge the app's pull request, and perhaps delete its branch.
MergeOwn(b) ==
    /\ b \in open
    /\ files' = files \cup added[b]
    /\ open' = open \ {b}
    /\ \/ UNCHANGED <<refs, base, added>>
       \/ /\ refs' = refs \ {b}
          /\ base' = [base EXCEPT ![b] = {}]
          /\ added' = [added EXCEPT ![b] = {}]

CloseOwn(b) ==
    /\ b \in open
    /\ open' = open \ {b}
    /\ UNCHANGED <<files, refs, base, added>>

\* Reopen the app's pull request, or open another one from its branch.
ReopenOwn(b) == CreatePullRequest(b)

DeleteOwn(b) == DeleteBranch(b)

AddFile(p) ==
    /\ p \notin files
    /\ files' = files \cup {p}
    /\ UNCHANGED ownRefs

RemoveFile(p) ==
    /\ p \in files
    /\ files' = files \ {p}
    /\ UNCHANGED ownRefs
=============================================================================
