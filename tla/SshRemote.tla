------------------------------ MODULE SshRemote ------------------------------
(* SshConnectionPool (pandamux-remote/src/pool.rs) and what runs over it:    *)
(* commands (exec.rs), uploads (sftp.rs) and the installation of the server  *)
(* on a node behind a bastion (bootstrap.rs), by several callers at once.    *)
(*                                                                           *)
(* The node is reached through the bastion "jump", each host has a slot with *)
(* a mutex in the pool.  A connection is a number; those of the node are     *)
(* lost with the one they run through.  One binary stands for the server and *)
(* the CLI, which are installed the same way; its content is good when its   *)
(* SHA-256 is the manifest's.  The two commands of detect_remote_platform    *)
(* stand as one, as do launch and the mkdir before it.  Left out: proxy      *)
(* tunnels and folder listings, which acquire and open a channel like a      *)
(* command and change nothing.                                               *)
EXTENDS Naturals, FiniteSets

CONSTANTS
  ShUsers,     \* callers of bootstrap_remote_environment
  ShMaxDials,  \* bound: connections made
  ShMaxLost    \* bound: connections lost and dials refused

NoUser == "nobody"
Older == "older"    \* a daemon of another version, running before

ASSUME ShAssumption ==
  NoUser \notin ShUsers /\ Older \notin ShUsers /\ ShMaxDials \in Nat /\ ShMaxLost \in Nat

VARIABLES
  shSlot,   \* per host: who holds the slot's mutex, and the pooled connection
  shDials,  \* connections made
  shLive,   \* the live ones, with the connection each runs through or 0
  shLost,   \* connections lost and dials refused
  shNode,   \* the node's disk and daemons
  shCall    \* per caller: stage of the bootstrap, place in acquire, the daemon
            \* read from the runtime file, result

shVars == <<shSlot, shDials, shLive, shLost, shNode, shCall>>

ShHosts == {"jump", "node"}

ShInit ==
  /\ shSlot = [h \in ShHosts |-> [by |-> NoUser, conn |-> 0]]
  /\ shDials = 0 /\ shLive = {} /\ shLost = 0
  /\ \E runtime \in {"none", Older} : \E daemons \in SUBSET ({runtime} \cap {Older}) :
       shNode = [binary |-> "none", temps |-> [u \in ShUsers |-> "none"],
                 runtime |-> runtime, daemons |-> daemons]
  /\ shCall = [u \in ShUsers |-> [stage |-> "detect", at |-> "idle", conn |-> 0,
                                  saw |-> "none", owner |-> "none"]]

ConnLive(c) == \E l \in shLive : l.conn = c
ShMayLose == shLost < ShMaxLost
ShAt(u, at) == shCall[u].at = at
GoTo(u, at) == shCall' = [shCall EXCEPT ![u].at = at]
(* A failure of the call is returned to the caller.                          *)
FailCall(u) == shCall' = [shCall EXCEPT ![u].at = "ended", ![u].stage = "failed"]

-----------------------------------------------------------------------------
(* acquire. *)

\* Mutant of ShLockNode: the mutex is not kept while dialling.
ShLockNodeUnheld(u) ==
  /\ ShAt(u, "want")
  /\ IF ConnLive(shSlot["node"].conn)
       THEN shCall' = [shCall EXCEPT ![u].at = "ready", ![u].conn = shSlot["node"].conn]
       ELSE GoTo(u, "wantJump")
  /\ UNCHANGED <<shSlot, shDials, shLive, shLost, shNode>>

(* The slot's mutex is free: a live connection is shared, else the caller    *)
(* keeps the mutex while it dials, for the node through the bastion.         *)
ShLockNode(u) ==
  /\ ShAt(u, "want") /\ shSlot["node"].by = NoUser
  /\ IF ConnLive(shSlot["node"].conn)
       THEN /\ shCall' = [shCall EXCEPT ![u].at = "ready", ![u].conn = shSlot["node"].conn]
            /\ UNCHANGED shSlot
       ELSE /\ shSlot' = [shSlot EXCEPT !["node"] = [by |-> u, conn |-> 0]]
            /\ GoTo(u, "wantJump")
  /\ UNCHANGED <<shDials, shLive, shLost, shNode>>

ShLockJump(u) ==
  /\ ShAt(u, "wantJump") /\ shSlot["jump"].by = NoUser
  /\ IF ConnLive(shSlot["jump"].conn)
       THEN /\ shCall' = [shCall EXCEPT ![u].at = "through", ![u].conn = shSlot["jump"].conn]
            /\ UNCHANGED shSlot
       ELSE /\ shSlot' = [shSlot EXCEPT !["jump"] = [by |-> u, conn |-> 0]]
            /\ GoTo(u, "dialJump")
  /\ UNCHANGED <<shDials, shLive, shLost, shNode>>

Dialled(via) ==
  /\ shDials < ShMaxDials /\ shDials' = shDials + 1
  /\ shLive' = shLive \cup {[conn |-> shDials + 1, via |-> via]}

ShDialJump(u) ==
  /\ ShAt(u, "dialJump")
  /\ Dialled(0)
  /\ shSlot' = [shSlot EXCEPT !["jump"] = [by |-> NoUser, conn |-> shDials + 1]]
  /\ shCall' = [shCall EXCEPT ![u].at = "through", ![u].conn = shDials + 1]
  /\ UNCHANGED <<shLost, shNode>>

ShDialNode(u) ==
  /\ ShAt(u, "through") /\ ConnLive(shCall[u].conn)
  /\ Dialled(shCall[u].conn)
  /\ shSlot' = [shSlot EXCEPT !["node"] = [by |-> NoUser, conn |-> shDials + 1]]
  /\ shCall' = [shCall EXCEPT ![u].at = "ready", ![u].conn = shDials + 1]
  /\ UNCHANGED <<shLost, shNode>>

\* Mutant of ShDialFails: only the slot of the host that refused is given back.
ShDialFailsHolding(u) ==
  /\ ShAt(u, "dialJump") \/ ShAt(u, "through")
  /\ \/ ShMayLose /\ shLost' = shLost + 1
     \/ ShAt(u, "through") /\ ~ConnLive(shCall[u].conn) /\ UNCHANGED shLost
     \/ shDials = ShMaxDials /\ UNCHANGED shLost
  /\ shSlot' = [h \in ShHosts |-> IF h = "jump" /\ shSlot[h].by = u THEN [by |-> NoUser, conn |-> 0]
                                  ELSE shSlot[h]]
  /\ FailCall(u)
  /\ UNCHANGED <<shDials, shLive, shNode>>

(* The dial fails (refused, host key unknown or changed, authentication), or *)
(* the bastion's connection is gone: every mutex held is released with the   *)
(* slots left empty.  The bound on dials counts as a refusal.                *)
ShDialFails(u) ==
  /\ ShAt(u, "dialJump") \/ ShAt(u, "through")
  /\ \/ ShMayLose /\ shLost' = shLost + 1
     \/ ShAt(u, "through") /\ ~ConnLive(shCall[u].conn) /\ UNCHANGED shLost
     \/ shDials = ShMaxDials /\ UNCHANGED shLost
  /\ shSlot' = [h \in ShHosts |-> IF shSlot[h].by = u THEN [by |-> NoUser, conn |-> 0]
                                  ELSE shSlot[h]]
  /\ FailCall(u)
  /\ UNCHANGED <<shDials, shLive, shNode>>

(* A connection is lost, and those through it.                               *)
ShLose ==
  /\ ShMayLose /\ shLost' = shLost + 1
  /\ \E l \in shLive : shLive' = {k \in shLive : k # l /\ k.via # l.conn}
  /\ UNCHANGED <<shSlot, shDials, shNode, shCall>>

-----------------------------------------------------------------------------
(* bootstrap_remote_environment: one command per stage. *)

ShBegin(u) ==
  /\ ShAt(u, "idle") /\ GoTo(u, "want")
  /\ UNCHANGED <<shSlot, shDials, shLive, shLost, shNode>>

(* The stage's command on the node: whether its answer is taken for a        *)
(* success, and what it changes.                                             *)
Command(u) ==
  LET n == shNode
      keep(ok) == [ok |-> ok, node |-> n]
  IN CASE shCall[u].stage \in {"detect", "mkdir"} -> {keep(TRUE)}
       [] shCall[u].stage = "check" -> {keep(n.binary = "good")}
       [] shCall[u].stage = "upload" ->
            {[ok |-> TRUE, node |-> [n EXCEPT !.temps[u] = b]] : b \in {"good", "bad"}}
       [] shCall[u].stage = "prepare" -> {keep(n.temps[u] = "good")}
       [] shCall[u].stage = "clean" -> {[ok |-> TRUE, node |-> [n EXCEPT !.temps[u] = "none"]]}
       [] shCall[u].stage = "move" ->
            {[ok |-> TRUE, node |-> [n EXCEPT !.binary = n.temps[u], !.temps[u] = "none"]]}
       [] shCall[u].stage \in {"discover", "poll", "again"} -> {keep(n.runtime # "none")}
       [] shCall[u].stage = "alive" ->
            {keep(shCall[u].saw \in n.daemons /\ shCall[u].saw # Older)}
       [] shCall[u].stage = "launch" ->
            {[ok |-> TRUE, node |-> [n EXCEPT !.daemons = @ \cup {u}]]}

(* What is made of the answer when the connection goes while the command     *)
(* runs.  execute_remote_command starts from exit code 0, so most commands   *)
(* count as done; but what these read must also parse, and whether it came   *)
(* through is open; and of a daemon the version has been read before.        *)
CutShort(u, ok) ==
  IF shCall[u].stage \in {"detect", "discover", "poll", "again"} THEN {ok, FALSE}
  ELSE {shCall[u].stage = "alive" => shCall[u].saw # Older}

\* Mutant of NextStage: the move does not wait for the hash of the upload.
NextStageUnverified(u, ok) ==
  CASE shCall[u].stage = "detect"   -> IF ok THEN "mkdir" ELSE "failed"
    [] shCall[u].stage = "mkdir"    -> "check"
    [] shCall[u].stage = "check"    -> IF ok THEN "discover" ELSE "upload"
    [] shCall[u].stage = "upload"   -> "move"
    [] shCall[u].stage = "prepare"  -> IF ok THEN "move" ELSE "clean"
    [] shCall[u].stage = "clean"    -> "failed"
    [] shCall[u].stage = "move"     -> IF ok THEN "discover" ELSE "failed"
    [] shCall[u].stage = "discover" -> IF ok THEN "alive" ELSE "launch"
    [] shCall[u].stage = "alive"    -> IF ok THEN "done" ELSE "launch"
    [] shCall[u].stage = "launch"   -> IF ok THEN "poll" ELSE "failed"
    [] shCall[u].stage = "poll"     -> IF ok THEN "done" ELSE "again"
    [] shCall[u].stage = "again"    -> IF ok THEN "done" ELSE "failed"

(* The runtime file is polled twice for the twenty times of the code.        *)
NextStage(u, ok) ==
  CASE shCall[u].stage = "detect"   -> IF ok THEN "mkdir" ELSE "failed"
    [] shCall[u].stage = "mkdir"    -> "check"
    [] shCall[u].stage = "check"    -> IF ok THEN "discover" ELSE "upload"
    [] shCall[u].stage = "upload"   -> "prepare"
    [] shCall[u].stage = "prepare"  -> IF ok THEN "move" ELSE "clean"
    [] shCall[u].stage = "clean"    -> "failed"
    [] shCall[u].stage = "move"     -> IF ok THEN "discover" ELSE "failed"
    [] shCall[u].stage = "discover" -> IF ok THEN "alive" ELSE "launch"
    [] shCall[u].stage = "alive"    -> IF ok THEN "done" ELSE "launch"
    [] shCall[u].stage = "launch"   -> IF ok THEN "poll" ELSE "failed"
    [] shCall[u].stage = "poll"     -> IF ok THEN "done" ELSE "again"
    [] shCall[u].stage = "again"    -> IF ok THEN "done" ELSE "failed"

Owner(u, next) ==
  IF next # "done" THEN "none"
  ELSE IF shCall[u].stage = "alive" THEN "Discovered" ELSE "LauncherOwned"

Advance(u, ok) ==
  LET next == NextStage(u, ok)
  IN shCall' = [shCall EXCEPT ![u] =
                  [stage |-> next, conn |-> 0, owner |-> Owner(u, next),
                   saw |-> IF shCall[u].stage \in {"discover", "poll", "again"} THEN shNode.runtime
                           ELSE shCall[u].saw,
                   at |-> IF next \in {"done", "failed"} THEN "ended" ELSE "want"]]

(* The command runs to its end; or its connection goes while it runs,        *)
(* whether or not it took effect: an upload reports the error.               *)
ShExec(u) ==
  /\ ShAt(u, "ready") /\ ConnLive(shCall[u].conn)
  /\ \E c \in Command(u) :
       \/ Advance(u, c.ok) /\ shNode' = c.node /\ UNCHANGED <<shLive, shLost>>
       \/ /\ ShMayLose /\ shLost' = shLost + 1
          /\ shLive' = {l \in shLive : l.conn # shCall[u].conn}
          /\ shNode' \in {shNode, c.node}
          /\ IF shCall[u].stage = "upload" THEN FailCall(u)
             ELSE \E ok \in CutShort(u, c.ok) : Advance(u, ok)
  /\ UNCHANGED <<shSlot, shDials>>

(* The channel cannot be opened on a connection that is gone.                *)
ShOpenFails(u) ==
  /\ ShAt(u, "ready") /\ ~ConnLive(shCall[u].conn)
  /\ FailCall(u)
  /\ UNCHANGED <<shSlot, shDials, shLive, shLost, shNode>>

-----------------------------------------------------------------------------
(* A daemon on the node writes its runtime file, and may die with the file   *)
(* left behind (teardown_remote_daemon, which removes it, has no caller).    *)
ShDaemonReady(u) ==
  /\ u \in shNode.daemons /\ shNode.runtime # u
  /\ shNode' = [shNode EXCEPT !.runtime = u]
  /\ UNCHANGED <<shSlot, shDials, shLive, shLost, shCall>>

ShDaemonDies(d) ==
  /\ ShMayLose /\ shLost' = shLost + 1
  /\ d \in shNode.daemons
  /\ shNode' = [shNode EXCEPT !.daemons = @ \ {d}]
  /\ UNCHANGED <<shSlot, shDials, shLive, shCall>>

ShUserStep(u) ==
  \/ ShLockNode(u) \/ ShLockJump(u) \/ ShDialJump(u) \/ ShDialNode(u) \/ ShDialFails(u)
  \/ ShExec(u) \/ ShOpenFails(u)

ShNext ==
  \/ ShLose
  \/ \E u \in ShUsers : ShBegin(u) \/ ShUserStep(u) \/ ShDaemonReady(u)
  \/ \E d \in ShUsers \cup {Older} : ShDaemonDies(d)

ShSpec == ShInit /\ [][ShNext]_shVars

-----------------------------------------------------------------------------
(* While no connection was lost, the binary at the install path is one whose *)
(* hash was verified, however two installations interleave, and a caller     *)
(* that goes on to the daemon finds it there.  (A connection lost in a check *)
(* is taken for its success.)                                                *)
ShInstalledIsVerified ==
  shLost = 0 =>
    /\ shNode.binary # "bad"
    /\ \A u \in ShUsers :
         shCall[u].stage \in {"discover", "alive", "launch", "poll", "again", "done"} => shNode.binary = "good"

(* Two callers that need a host at once share one connection: while a slot is*)
(* free and its connection lives, no other connection of that host does.     *)
ShOneConnection ==
  \A h \in ShHosts :
    shSlot[h].by = NoUser /\ ConnLive(shSlot[h].conn) =>
      \A l \in shLive : (l.via = 0) = (h = "jump") => l.conn = shSlot[h].conn

(* Every caller's bootstrap ends, with a daemon or with an error: waiting    *)
(* for the slot of the bastion while holding the node's never deadlocks, and *)
(* no failed dial leaves a slot locked.                                      *)
ShCallsEnd == \A u \in ShUsers : (shCall[u].at = "want") ~> (shCall[u].at = "ended")
=============================================================================
