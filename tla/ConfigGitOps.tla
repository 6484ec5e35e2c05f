----------------------------- MODULE ConfigGitOps -----------------------------
(***************************************************************************)
(* The Git side of configuration changes (backend/app/configmgmt/gitops.py    *)
(* called by api/v1/config.py and versioning.py).  All requests share one     *)
(* working tree, every git command is a subprocess that is awaited, and the   *)
(* manager keeps its own idea of the branch that is checked out.             *)
(***************************************************************************)
EXTENDS Naturals, FiniteSets

CONSTANTS
  Request,    \* requests, each with the feature branch it may create
  Base        \* branches that exist from the start

VARIABLES
  head,        \* the branch that is checked out
  believed,    \* current_branch
  commits,     \* per branch: the commits in the repository
  remote,      \* per branch: the commits at the origin
  dirty,       \* a rollback wrote config.yaml and nothing committed it
  step,        \* per request: the git command it waits for
  asked,       \* per request: the branch it named, and what the origin had
  clean        \* history: its commands succeeded, and once it had checked its
               \* branch out no other request checked another one out

gitVars == <<head, believed, commits, remote, dirty, step, asked, clean>>

Branch == Base \cup Request
Theirs == "theirs"    \* a commit somebody else merged at the origin
NotAsked == [branch |-> "none", feature |-> FALSE, origin |-> {}]

Init == /\ head \in Base /\ believed = head
        /\ commits = [b \in Branch |-> {}]
        /\ remote = [b \in Branch |-> {}]
        /\ dirty = FALSE
        /\ step = [r \in Request |-> "new"]
        /\ asked = [r \in Request |-> NotAsked]
        /\ clean = [r \in Request |-> TRUE]

Goto(r, s) == step' = [step EXCEPT ![r] = s]
Begin(r, s) == step[r] = "new" /\ Goto(r, s) /\ UNCHANGED clean

\* What r does to the others when it leaves the branch b checked out.
CheckedOut == {"checked out", "checked out again", "pull", "pulling", "pulled"}
CleanAfter(r, b) ==
  [q \in Request |-> clean[q] /\ (q # r /\ step[q] \in CheckedOut => b = head)]

\* POST /git/branch, POST /git/sync, and the Git half of a new version and of a
\* rollback, which has just written config.yaml.
Ask(r, s, feature) == \E b \in Base :
  /\ Begin(r, s)
  /\ asked' = [asked EXCEPT ![r] = [branch |-> b, feature |-> feature, origin |-> remote[b]]]
  /\ UNCHANGED <<head, believed, commits, remote, dirty>>
CreateBranch(r) == Ask(r, "checkout", TRUE)
SyncFromGit(r) == Ask(r, "pull", FALSE)
CreateVersion(r) ==
  /\ Begin(r, "commit")
  /\ UNCHANGED <<head, believed, commits, remote, dirty, asked>>
Rollback(r) ==
  /\ Begin(r, "push") /\ dirty' = TRUE
  /\ UNCHANGED <<head, believed, commits, remote, asked>>

-----------------------------------------------------------------------------
(* git commands                                                              *)

\* checkout_branch: a failure is logged and its False is not looked at.  The
\* assignment of current_branch comes after the command.
Checkout(r) ==
  /\ step[r] \in {"checkout", "checkout again"}
  /\ head' = asked[r].branch
  /\ Goto(r, IF step[r] = "checkout" THEN "checked out" ELSE "checked out again")
  /\ clean' = CleanAfter(r, asked[r].branch)
  /\ UNCHANGED <<believed, commits, remote, dirty, asked>>
CheckoutFails(r) ==
  /\ step[r] \in {"checkout", "checkout again"}
  /\ clean' = [clean EXCEPT ![r] = FALSE]
  /\ Goto(r, IF step[r] = "checkout" THEN "pull" ELSE "pulling")
  /\ UNCHANGED <<head, believed, commits, remote, dirty, asked>>
Believe(r) ==
  /\ step[r] \in {"checked out", "checked out again"}
  /\ believed' = asked[r].branch
  /\ Goto(r, IF step[r] = "checked out" THEN "pull" ELSE "pulling")
  /\ UNCHANGED <<head, commits, remote, dirty, asked, clean>>

\* pull_changes checks the branch out when it believes another one is.
Pull(r) ==
  /\ step[r] = "pull"
  /\ Goto(r, IF asked[r].branch = believed THEN "pulling" ELSE "checkout again")
  /\ UNCHANGED <<head, believed, commits, remote, dirty, asked, clean>>

\* A plausible slip: the remote branch is only fetched.
PulledOnlyFetches(r) == commits
Pulled(r) == [commits EXCEPT ![head] = @ \cup remote[asked[r].branch]]

Pulling(r) ==
  /\ step[r] = "pulling"
  /\ \/ commits' = Pulled(r) /\ UNCHANGED clean
     \/ UNCHANGED commits /\ clean' = [clean EXCEPT ![r] = FALSE]
  /\ Goto(r, "pulled")
  /\ UNCHANGED <<head, believed, remote, dirty, asked>>

\* checkout -b; a sync only lists what differs.  A timestamp that is taken
\* fails the request.
Branched(r) ==
  /\ step[r] = "pulled"
  /\ Goto(r, "done")
  /\ \/ /\ asked[r].feature
        /\ head' = r
        /\ commits' = [commits EXCEPT ![r] = commits[head]]
        /\ clean' = CleanAfter(r, r)
     \/ UNCHANGED <<head, commits, clean>>
  /\ UNCHANGED <<believed, remote, dirty, asked>>

\* add, diff --cached and commit of the project's files; any of them may fail.
Commit(r) ==
  /\ step[r] = "commit"
  /\ Goto(r, "done")
  /\ \/ /\ dirty /\ dirty' = FALSE
        /\ commits' = [commits EXCEPT ![head] = @ \cup {r}]
     \/ UNCHANGED <<dirty, commits>>
  /\ UNCHANGED <<head, believed, remote, asked, clean>>

\* Without --force the origin only takes a branch that contains its own.
Push(r) ==
  /\ step[r] = "push"
  /\ Goto(r, "done")
  /\ \/ /\ remote[believed] \subseteq commits[believed]
        /\ remote' = [remote EXCEPT ![believed] = commits[believed]]
     \/ UNCHANGED remote
  /\ UNCHANGED <<head, believed, commits, dirty, asked, clean>>

\* Somebody else's pull request is merged at the origin.
Merge(b) == /\ Theirs \notin remote[b]
            /\ remote' = [remote EXCEPT ![b] = @ \cup {Theirs}]
            /\ UNCHANGED <<head, believed, commits, dirty, step, asked, clean>>

Next == \/ \E r \in Request :
             \/ CreateBranch(r) \/ SyncFromGit(r) \/ CreateVersion(r) \/ Rollback(r)
             \/ Checkout(r) \/ CheckoutFails(r) \/ Believe(r) \/ Pull(r) \/ Pulling(r)
             \/ Branched(r) \/ Commit(r) \/ Push(r)
        \/ \E b \in Base : Merge(b)
Spec == Init /\ [][Next]_gitVars

-----------------------------------------------------------------------------
(* "Ensure we're on base branch and up to date" (gitops.py 175-180): whatever *)
(* earlier requests left checked out and whatever others commit, pull, push    *)
(* and believe in between, a feature branch whose own commands succeed starts   *)
(* with everything that both the local base and the origin have, and with       *)
(* nothing else, unless another request checks out another branch after it     *)
(* has checked out its base: nothing keeps the requests apart, and the branch   *)
(* then starts wherever the other one went.                                   *)
BranchesAtBase ==
  \A r \in Request :
    head # r /\ head' = r /\ clean[r] =>
      /\ commits'[r] = commits[asked[r].branch]
      /\ asked[r].origin \subseteq commits'[r]
FeatureStartsAtBase == [][BranchesAtBase]_gitVars
=============================================================================
