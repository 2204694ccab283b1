------------------------------ MODULE Workspace ------------------------------
(* A thread's work tree as the server changes it with git                     *)
(* (pandamux-server/src/checkpoint.rs, git.rs, worktree.rs): the checkpoints  *)
(* taken before and after each turn, pruning, roll-back, commit, push and the *)
(* status the desktop's git bar shows.  The agent and the user write to the   *)
(* same files at any time, and each git command is a step of its own.         *)
(*                                                                            *)
(* A tree gives every path its content, 0 for none.  Left out: what a diff    *)
(* prints, branch names, pull requests (they change nothing here), the         *)
(* pairing of a removed and an added file to a rename.                        *)
EXTENDS Naturals, FiniteSets

CONSTANTS
  WsPaths,     \* paths of the work tree
  WsIgnored,   \* those .gitignore names
  WsTurns,     \* turns, numbered as their ids sort; they run in any order
  WsTexts,     \* contents a file can have, 1..WsTexts
  WsKeep,      \* refs kept by a prune (50 in the code)
  WsMaxWrites, \* bound: writes by the agent and the user
  WsMaxCommits \* bound: commits on the branch

ASSUME WsAssumption ==
  WsIgnored \subseteq WsPaths /\ WsTurns \subseteq Nat /\ {WsTexts, WsKeep, WsMaxWrites, WsMaxCommits} \subseteq Nat

VARIABLES
  wsTree,    \* the files
  wsIndex,   \* the user's index
  wsHead,    \* the branch: how many commits, and the last one's tree
  wsPushed,  \* commits the remote has
  wsRefs,    \* checkpoint ref -> tree
  wsTaking,  \* the checkpoint being taken
  wsCommit,  \* git_commit has staged
  wsRoll,    \* the roll-back under way or the last
  wsWrites

wsVars == <<wsTree, wsIndex, wsHead, wsPushed, wsRefs, wsTaking, wsCommit, wsRoll, wsWrites>>

WsTrees == [WsPaths -> 0..WsTexts]
WsNothing == [p \in WsPaths |-> 0]
WsRefNames == WsTurns \X {"after", "before"}
WsNoTake == [at |-> "none", ref |-> <<0, "before">>, tree |-> WsNothing]
WsNoRoll == [at |-> "none", to |-> WsNothing, from |-> WsNothing, kept |-> {}, alone |-> TRUE]

WsInit ==
  /\ wsTree = WsNothing /\ wsIndex = WsNothing
  /\ wsHead = [n |-> 1, tree |-> WsNothing] /\ wsPushed = 0
  /\ wsRefs = << >> /\ wsTaking = WsNoTake /\ wsCommit = FALSE
  /\ wsRoll = WsNoRoll /\ wsWrites = 0

(* What "git add -A" stages into an index: all but ignored files that the    *)
(* index does not have.                                                      *)
WsAddAll(index) ==
  [p \in WsPaths |-> IF p \in WsIgnored /\ index[p] = 0 THEN 0 ELSE wsTree[p]]

(* Anything that writes while a roll-back runs disturbs it.                  *)
WsMeanwhile == wsRoll' = IF wsRoll.at = "read" THEN [wsRoll EXCEPT !.alone = FALSE] ELSE WsNoRoll

-----------------------------------------------------------------------------
(* The agent and the user create, change or remove a file. *)

WsWrite ==
  /\ wsWrites < WsMaxWrites /\ wsWrites' = wsWrites + 1
  /\ \E p \in WsPaths, c \in 0..WsTexts : wsTree' = [wsTree EXCEPT ![p] = c]
  /\ WsMeanwhile
  /\ UNCHANGED <<wsIndex, wsHead, wsPushed, wsRefs, wsTaking, wsCommit>>

(* The user stages one file, an ignored one too (git add -f).                *)
WsStage ==
  /\ wsWrites < WsMaxWrites /\ wsWrites' = wsWrites + 1
  /\ \E p \in WsPaths : wsIndex' = [wsIndex EXCEPT ![p] = wsTree[p]]
  /\ WsMeanwhile
  /\ UNCHANGED <<wsTree, wsHead, wsPushed, wsRefs, wsTaking, wsCommit>>

-----------------------------------------------------------------------------
(* create_checkpoint, in an index of its own that starts from HEAD: stage    *)
(* and write the tree ...                                                    *)
WsTake(ref) ==
  /\ wsTaking.at = "none" /\ ref \notin DOMAIN wsRefs
  /\ wsTaking' = [at |-> "staged", ref |-> ref, tree |-> WsAddAll(wsHead.tree)]
  /\ UNCHANGED <<wsTree, wsIndex, wsHead, wsPushed, wsRefs, wsCommit, wsRoll, wsWrites>>

(* ... commit it and name it.  Any command may fail: then there is no ref.   *)
WsNamed(ok) ==
  /\ wsTaking.at = "staged"
  /\ wsRefs' = IF ok THEN [r \in DOMAIN wsRefs \cup {wsTaking.ref} |->
                             IF r = wsTaking.ref THEN wsTaking.tree ELSE wsRefs[r]]
               ELSE wsRefs
  /\ wsTaking' = IF wsTaking.ref[2] = "after" THEN [wsTaking EXCEPT !.at = "prune"] ELSE WsNoTake
  /\ UNCHANGED <<wsTree, wsIndex, wsHead, wsPushed, wsCommit, wsRoll, wsWrites>>

WsRefBefore(a, b) == a[1] < b[1] \/ (a[1] = b[1] /\ a[2] = "after" /\ b[2] = "before")

(* prune_old_checkpoints after a turn: all but the last refs by name go,     *)
(* which may be those of this very turn.                                     *)
WsPruned(keep) ==
  {r \in DOMAIN wsRefs : Cardinality({q \in DOMAIN wsRefs : WsRefBefore(r, q)}) < keep}

WsPrune ==
  /\ wsTaking.at = "prune"
  /\ wsRefs' = [r \in WsPruned(WsKeep) |-> wsRefs[r]]
  /\ wsTaking' = WsNoTake
  /\ UNCHANGED <<wsTree, wsIndex, wsHead, wsPushed, wsCommit, wsRoll, wsWrites>>

-----------------------------------------------------------------------------
(* rollback_to_checkpoint.  read-tree -u --reset makes the index the         *)
(* checkpoint's tree, writes its files and removes those only the old index  *)
(* had ...                                                                   *)
WsRollRead(ref) ==
  /\ wsRoll.at # "read" /\ ref \in DOMAIN wsRefs
  /\ LET to == wsRefs[ref]
     IN /\ wsTree' = [p \in WsPaths |-> IF to[p] # 0 THEN to[p] ELSE IF wsIndex[p] # 0 THEN 0 ELSE wsTree[p]]
        /\ wsIndex' = to
        /\ wsRoll' = [at |-> "read", to |-> to, from |-> wsTree, alone |-> TRUE,
                      kept |-> {p \in WsIgnored : wsIndex[p] = 0 /\ to[p] = 0}]
  /\ UNCHANGED <<wsHead, wsPushed, wsRefs, wsTaking, wsCommit, wsWrites>>

\* Mutant of WsCleaned: new files are left where they are.
WsCleanedNot == wsTree

(* ... and clean -f -d removes the files it does not track, except ignored   *)
(* ones.                                                                     *)
WsCleaned == [p \in WsPaths |-> IF wsIndex[p] = 0 /\ p \notin WsIgnored THEN 0 ELSE wsTree[p]]

WsRollClean ==
  /\ wsRoll.at = "read"
  /\ wsTree' = WsCleaned
  /\ wsRoll' = [wsRoll EXCEPT !.at = "done"]
  /\ UNCHANGED <<wsIndex, wsHead, wsPushed, wsRefs, wsTaking, wsCommit, wsWrites>>

(* Either command fails: the tree stays as far as it came.                   *)
WsRollFails ==
  /\ wsRoll.at = "read"
  /\ wsRoll' = WsNoRoll
  /\ UNCHANGED <<wsTree, wsIndex, wsHead, wsPushed, wsRefs, wsTaking, wsCommit, wsWrites>>

-----------------------------------------------------------------------------
(* git_commit stages all changes in the user's index; with nothing staged it *)
(* is an error that leaves the index as it is.                               *)
WsCommitStage ==
  /\ ~wsCommit /\ wsHead.n < WsMaxCommits
  /\ wsIndex' = WsAddAll(wsIndex)
  /\ wsCommit' = (WsAddAll(wsIndex) # wsHead.tree)
  /\ WsMeanwhile
  /\ UNCHANGED <<wsTree, wsHead, wsPushed, wsRefs, wsTaking, wsWrites>>

(* The commit takes the index as it is by then; a hook may refuse it.        *)
WsCommitMade(ok) ==
  /\ wsCommit /\ wsCommit' = FALSE
  /\ wsHead' = IF ok /\ wsIndex # wsHead.tree THEN [n |-> wsHead.n + 1, tree |-> wsIndex] ELSE wsHead
  /\ UNCHANGED <<wsTree, wsIndex, wsPushed, wsRefs, wsTaking, wsRoll, wsWrites>>

(* git_push.                                                                 *)
WsPush ==
  /\ wsPushed < wsHead.n /\ wsPushed' = wsHead.n
  /\ UNCHANGED <<wsTree, wsIndex, wsHead, wsRefs, wsTaking, wsCommit, wsRoll, wsWrites>>

(* get_git_status: a line for each path by what the index has of HEAD and    *)
(* the tree of the index, one more if a file that left the index is there.   *)
WsListed(p, status) ==
  LET head == wsHead.tree[p]
      index == wsIndex[p]
      file == wsTree[p]
  IN CASE status = "deleted"   -> (head # 0 /\ index = 0) \/ (index # 0 /\ file = 0)
       [] status = "added"     -> head = 0 /\ index # 0 /\ file # 0
       [] status = "modified"  -> 0 \notin {head, index, file} /\ (head # index \/ index # file)
       [] status = "untracked" -> index = 0 /\ file # 0 /\ p \notin WsIgnored

WsSomewhere == {p \in WsPaths : wsTree[p] # 0 \/ wsIndex[p] # 0 \/ wsHead.tree[p] # 0}

WsStatus ==
  {l \in WsSomewhere \X {"deleted", "added", "modified", "untracked"} : WsListed(l[1], l[2])}

(* draft_commit_message names up to three files, and says when there is      *)
(* nothing to commit.                                                        *)
WsDrafted ==
  IF WsStatus = {} THEN "clean"
  ELSE IF Cardinality(WsStatus) <= 3 THEN "named" ELSE "counted"

WsNext ==
  \/ WsWrite \/ WsStage
  \/ \E ref \in WsRefNames : WsTake(ref) \/ WsRollRead(ref)
  \/ \E ok \in BOOLEAN : WsNamed(ok) \/ WsCommitMade(ok)
  \/ WsPrune \/ WsRollClean \/ WsRollFails \/ WsCommitStage \/ WsPush

WsSpec == WsInit /\ [][WsNext]_wsVars

-----------------------------------------------------------------------------
(* A roll-back nobody writes into ends with exactly the checkpoint's files:  *)
(* what was changed, staged, committed, created or deleted since is undone,  *)
(* whatever the user's index held.  Ignored files stay, but for those the    *)
(* user had staged.                                                          *)
WsRollbackRestores ==
  wsRoll.at = "done" /\ wsRoll.alone =>
    /\ \A p \in WsPaths \ WsIgnored : wsTree[p] = wsRoll.to[p]
    /\ \A p \in wsRoll.kept : wsTree[p] = wsRoll.from[p]

(* The git bar offers a commit whenever git_commit would make one; and when  *)
(* it offers one that git_commit refuses, what was staged was taken back in  *)
(* the tree.                                                                 *)
WsStatusTells ==
  LET commits == WsAddAll(wsIndex) # wsHead.tree
  IN /\ commits => WsDrafted # "clean"
     /\ wsIndex = wsHead.tree /\ ~commits => WsDrafted = "clean"

(* The tree after a roll-back, and what the git bar says of it.              *)
WsBarTrue == WsRollbackRestores /\ WsStatusTells
=============================================================================
