---------------------------- MODULE WorktreeSync ----------------------------
(* Commits sent to a repository elsewhere: worktree.sync_delta in the router  *)
(* (handle_worktree_sync_delta) with create_git_bundle, verify_git_bundle and *)
(* apply_git_bundle of pandamux-server/src/worktree.rs, between a hub and a   *)
(* node.  Calls over several connections run at once; in every repository     *)
(* somebody commits, amends and checks branches out meanwhile.  A commit is   *)
(* the sequence of the changes that lead to it, so that an ancestor is a      *)
(* prefix.                                                                    *)
(*                                                                            *)
(* Left out: files that are not committed (they are never sent), tags, and    *)
(* the collection of commits that no branch reaches.                          *)
EXTENDS Naturals, SequencesExt, Functions

CONSTANTS
  WkPaths,       \* paths of repositories, the same names on both machines
  WkCalls,       \* connections: one call each
  WkMaxCommits   \* bound: commits, amended ones included, and checkouts

ASSUME WkAssumption == WkMaxCommits \in Nat

VARIABLES
  wkRepos,   \* <<machine, path>> -> branches, the one checked out, the commit in the work tree
  wkCalls,   \* per connection: what it asks and how far it is
  wkMade     \* commits and checkouts so far

wkVars == <<wkRepos, wkCalls, wkMade>>

Machines == {"hub", "node"}
Branches == {"main", "synced"}
NoBundle == [tip |-> << >>, base |-> << >>]
WkIdle == [at |-> "idle", env |-> "hub", local |-> CHOOSE p \in WkPaths : TRUE,
           remote |-> CHOOSE p \in WkPaths : TRUE, base |-> << >>, branch |-> "main",
           given |-> FALSE, bundle |-> NoBundle, told |-> 0]

Fresh(history) == [branches |-> [b \in {"main"} |-> history], head |-> "main", tree |-> history]

(* The hub has a project at every path; the node has nothing there, a        *)
(* repository without a commit, or a clone.                                  *)
WkInit ==
  /\ \E there \in SUBSET WkPaths, cloned \in BOOLEAN :
       wkRepos = [r \in {<<"hub", p>> : p \in WkPaths} \cup {<<"node", p>> : p \in there} |->
                    Fresh(IF r[1] = "hub" \/ cloned THEN <<0>> ELSE << >>)]
  /\ wkCalls = [c \in WkCalls |-> WkIdle]
  /\ wkMade = 0

-----------------------------------------------------------------------------
(* Bundles, as git makes and takes them.                                     *)
Reaches(repo, commit) ==
  commit = << >> \/ \E b \in DOMAIN repo.branches : IsPrefix(commit, repo.branches[b])

(* create_git_bundle of base..HEAD: what the base lacks, and the last commit *)
(* they share, which whoever takes the bundle must have.                     *)
GitBundle(repo, base) ==
  [tip |-> repo.tree, base |-> LongestCommonPrefix({repo.tree, base})]
CanBundle(r, base) ==
  /\ r \in DOMAIN wkRepos
  /\ r[1] = "hub" \/ Reaches(wkRepos[r], base)  \* the base is a commit of the hub's
  /\ ~IsPrefix(wkRepos[r].tree, base)           \* no empty bundle

\* Mutant of TakesFetch: a refspec with "+".
TakesFetchForced(repo, branch, tip) == branch # repo.head

(* The branch that is checked out is not fetched into, another one only      *)
(* forward: the refspec has no "+".                                          *)
TakesFetch(repo, branch, tip) ==
  /\ branch # repo.head
  /\ branch \in DOMAIN repo.branches => IsPrefix(repo.branches[branch], tip)

-----------------------------------------------------------------------------
(* A fetch or a commit that moves a branch. *)
Moved(branches, branch, commit) ==
  [b \in DOMAIN branches \cup {branch} |-> IF b = branch THEN commit ELSE branches[b]]

(* The machine that answers a call: the hub forwards one that names a node   *)
(* as it is, before the handler, so that a bundle not given is made there.   *)
Answering(call) == call.env
SourceOf(call) == <<Answering(call), call.local>>
TargetOf(call) == <<Answering(call), call.remote>>

Failed(c) == wkCalls' = [wkCalls EXCEPT ![c] = [WkIdle EXCEPT !.at = "failed"]] /\ UNCHANGED <<wkRepos, wkMade>>

(* A client, with a bundle of its own or without.  A remote path that is     *)
(* empty is the local one.                                                   *)
WkBegin(c) ==
  /\ wkCalls[c].at = "idle"
  /\ \E env \in Machines, local \in WkPaths, remote \in WkPaths, branch \in Branches, given \in BOOLEAN :
       LET source == wkRepos[<<"hub", local>>]
       IN \E n \in {0} \cup {Len(source.tree) - 1} :
            LET base == SubSeq(source.tree, 1, n)
            IN /\ given => CanBundle(<<"hub", local>>, base)
               /\ wkCalls' = [wkCalls EXCEPT ![c] =
                    [at |-> "asked", env |-> env, local |-> local, remote |-> remote, base |-> base, branch |-> branch,
                     given |-> given, bundle |-> IF given THEN GitBundle(source, base) ELSE NoBundle, told |-> 0]]
  /\ UNCHANGED <<wkRepos, wkMade>>

WkMake(c) ==
  /\ wkCalls[c].at = "asked"
  /\ \/ /\ wkCalls[c].given
        /\ wkCalls' = [wkCalls EXCEPT ![c].at = "made"]
     \/ /\ ~wkCalls[c].given /\ CanBundle(SourceOf(wkCalls[c]), wkCalls[c].base)
        /\ wkCalls' = [wkCalls EXCEPT ![c].at = "made",
                         ![c].bundle = GitBundle(wkRepos[SourceOf(wkCalls[c])], wkCalls[c].base)]
  /\ UNCHANGED <<wkRepos, wkMade>>

(* No bundle can be made, the node is not connected, git cannot be run or    *)
(* its bundle file not be written: before the fetch is done, the call fails. *)
WkFails(c) ==
  /\ wkCalls[c].at \in {"asked", "made", "verified"}
  /\ Failed(c)

(* verify_git_bundle: the commits it builds on are there.                    *)
WkVerify(c) ==
  /\ wkCalls[c].at = "made"
  /\ LET target == TargetOf(wkCalls[c])
     IN IF target \in DOMAIN wkRepos /\ Reaches(wkRepos[target], wkCalls[c].bundle.base)
        THEN wkCalls' = [wkCalls EXCEPT ![c].at = "verified"] /\ UNCHANGED <<wkRepos, wkMade>>
        ELSE Failed(c)

(* apply_git_bundle: git fetch, which looks for those commits once more.     *)
WkFetch(c) ==
  /\ wkCalls[c].at = "verified"
  /\ LET call == wkCalls[c]
         repo == wkRepos[TargetOf(call)]
     IN IF Reaches(repo, call.bundle.base) /\ TakesFetch(repo, call.branch, call.bundle.tip)
        THEN /\ wkRepos' = [wkRepos EXCEPT ![TargetOf(call)].branches = Moved(@, call.branch, call.bundle.tip)]
             /\ wkCalls' = [wkCalls EXCEPT ![c].at = "fetched"]
             /\ UNCHANGED wkMade
        ELSE Failed(c)

(* The commits of the branch are counted, all of them.                       *)
WkCount(c) ==
  /\ wkCalls[c].at = "fetched"
  /\ wkCalls' = [wkCalls EXCEPT ![c].at = "synced",
                   ![c].told = Len(wkRepos[TargetOf(wkCalls[c])].branches[wkCalls[c].branch])]
  /\ UNCHANGED <<wkRepos, wkMade>>

(* git rev-list fails or prints no number: one commit is reported, however   *)
(* many there are.                                                           *)
WkCountFails(c) ==
  /\ wkCalls[c].at = "fetched"
  /\ wkCalls' = [wkCalls EXCEPT ![c].at = "guessed", ![c].told = 1]
  /\ UNCHANGED <<wkRepos, wkMade>>

-----------------------------------------------------------------------------
(* Agents and users in a repository.  Only work on the main branch is        *)
(* amended.                                                                  *)
Works(r, branch, commit) ==
  /\ wkMade < WkMaxCommits /\ wkMade' = wkMade + 1
  /\ wkRepos' = [wkRepos EXCEPT ![r] =
                   [branches |-> Moved(@.branches, branch, commit), head |-> branch, tree |-> commit]]
  /\ UNCHANGED wkCalls

WkCommit(r) == Works(r, wkRepos[r].head, Append(wkRepos[r].tree, wkMade + 1))

WkAmend(r) ==
  /\ wkRepos[r].head = "main" /\ wkRepos[r].tree # << >>
  /\ Works(r, "main", Append(Front(wkRepos[r].tree), wkMade + 1))

WkCheckout(r) ==
  \E b \in DOMAIN wkRepos[r].branches \ {wkRepos[r].head} : Works(r, b, wkRepos[r].branches[b])

WkNext ==
  \/ \E c \in WkCalls : WkBegin(c) \/ WkMake(c) \/ WkFails(c) \/ WkVerify(c) \/ WkFetch(c)
                          \/ WkCount(c) \/ WkCountFails(c)
  \/ \E r \in DOMAIN wkRepos : WkCommit(r) \/ WkAmend(r) \/ WkCheckout(r)

WkSpec == WkInit /\ [][WkNext]_wkVars

-----------------------------------------------------------------------------
(* What a call was told is synced stays on its branch, whatever other calls  *)
(* and commits come after (but for the main branch's own work, which may be  *)
(* amended), and a call whose commits could be counted is told of no fewer   *)
(* than it sent.  No call moves a branch under the work tree of those who    *)
(* work on it.                                                               *)
WkSyncedStays ==
  /\ \A c \in WkCalls : LET call == wkCalls[c] IN call.branch = "synced" =>
       /\ call.at \in {"fetched", "synced", "guessed"} =>
            IsPrefix(call.bundle.tip, wkRepos[TargetOf(call)].branches["synced"])
       /\ call.at = "synced" => call.told >= Len(call.bundle.tip) - Len(call.bundle.base)
  /\ \A r \in DOMAIN wkRepos : wkRepos[r].tree = wkRepos[r].branches[wkRepos[r].head]
=============================================================================
