----------------------------- MODULE ProviderStart -----------------------------
(* How provider sessions come to be (start_session of the drivers in          *)
(* pandamux-providers): a program is looked for, its profile made, a child    *)
(* spawned and told how to work, and then handed to a session.  Antigravity   *)
(* alone counts its starts with a limiter, and can have its program installed *)
(* by a client (antigravity.install), release by release, while sessions      *)
(* start.  A session's turns are the module ProviderSession's.                *)
(*                                                                            *)
(* Starts run on the server's threads in parallel; each step here is what one *)
(* does between two touches of what they share: the counter, the files, the   *)
(* child's pipe.                                                              *)
EXTENDS Naturals, Sequences, FiniteSets

CONSTANTS
  PsCalls,       \* calls of start_session, each with the session it makes
  PsKinds,       \* drivers in use
  PsModes,       \* access modes of their threads
  PsReleases,    \* releases of the managed bundle
  PsInstallers,  \* clients that install
  PsLimit,       \* max_processes (2 in the code)
  PsMaxStarts,   \* bound: calls made
  PsMaxInstalls  \* bound: installations begun

ASSUME PsAssumption ==
  /\ IsFiniteSet(PsCalls)
  /\ PsKinds \subseteq {"antigravity", "grok", "cursor", "codex", "claude", "opencode", "opencode serve"}
  /\ {"none", "torn", "elsewhere"} \cap PsReleases = {}
  /\ PsModes \subseteq {"ReadOnly", "Ask", "WorkspaceOnly", "AutoEdit", "FullAccess"}
  /\ {PsLimit, PsMaxStarts, PsMaxInstalls} \subseteq Nat

VARIABLES
  psCall,     \* where each call is: driver, mode, step, what it counted, program, what its child was told
  psChild,    \* its child: none, or the state of the file it was started from; dead when gone
  psCount,    \* active_count of the limiter
  psFiles,    \* the two entries of each release: absent, torn or whole
  psActive,   \* active.json: none, torn, or a release
  psInstall,  \* each installer's release, and the steps it has done
  psAgain,    \* releases whose installation began more than once
  psStarts, psInstalls

psVars == <<psCall, psChild, psCount, psFiles, psActive, psInstall, psAgain, psStarts, psInstalls>>

NoCall == [kind |-> "none", mode |-> "none", at |-> "idle", seen |-> 0, program |-> "none", told |-> << >>]
NoInstall == [release |-> "none", step |-> 0]
Gone == "dead"

PsInit ==
  /\ psCall = [c \in PsCalls |-> NoCall]
  /\ psChild = [c \in PsCalls |-> "none"]
  /\ psCount = 0
  /\ psFiles = [r \in PsReleases |-> <<"absent", "absent">>]
  /\ psActive = "none"
  /\ psInstall = [i \in PsInstallers |-> NoInstall]
  /\ psAgain = {}
  /\ psStarts = 0 /\ psInstalls = 0

-----------------------------------------------------------------------------
(* What a driver tells its child before it hands it over: two requests over  *)
(* ACP, one to Codex, and its arguments to Claude, before it runs.           *)

AcpMode(mode) ==
  CASE mode = "FullAccess" -> "yolo"
    [] mode = "AutoEdit" -> "autoEdit"
    [] mode \in {"ReadOnly", "Ask", "WorkspaceOnly"} -> "default"

CodexPolicy(mode) ==
  <<CASE mode = "ReadOnly" -> "read-only"
      [] mode \in {"Ask", "WorkspaceOnly", "AutoEdit"} -> "workspace-write"
      [] mode = "FullAccess" -> "danger-full-access",
    IF mode \in {"AutoEdit", "FullAccess"} THEN "never" ELSE "on-write">>

ClaudeMode(mode) == IF mode \in {"AutoEdit", "FullAccess"} THEN "auto" ELSE "ask"

AcpHandshake(mode) == <<"initialize", <<"session/new", AcpMode(mode)>>>>

(* What each driver makes of a call: whether there is a child, what it is    *)
(* told, and what becomes of the instructions of the session.                *)
Launch(told, instructions) == [child |-> TRUE, told |-> told, instructions |-> instructions]

AntigravityLaunch(mode) == Launch(AcpHandshake(mode), "dropped")
GrokLaunch(mode)        == Launch(AcpHandshake(mode), "before the first prompt")
CursorLaunch(mode)      == Launch(AcpHandshake(mode), "before the first prompt")
CodexLaunch(mode)       == Launch(<<<<"thread/start", CodexPolicy(mode)>>>>, "told")
ClaudeLaunch(mode)      == Launch(<<ClaudeMode(mode)>>, "argument")

(* As a server OpenCode is not started at all: its session answers alone.    *)
OpenCodeLaunch(mode, serves) ==
  IF serves THEN [child |-> FALSE, told |-> << >>, instructions |-> "dropped"]
  ELSE Launch(AcpHandshake(mode), "before the first prompt")

LaunchOf(kind, mode) ==
  CASE kind = "antigravity"    -> AntigravityLaunch(mode)
    [] kind = "grok"           -> GrokLaunch(mode)
    [] kind = "cursor"         -> CursorLaunch(mode)
    [] kind = "codex"          -> CodexLaunch(mode)
    [] kind = "claude"         -> ClaudeLaunch(mode)
    [] kind = "opencode"       -> OpenCodeLaunch(mode, FALSE)
    [] kind = "opencode serve" -> OpenCodeLaunch(mode, TRUE)

Handshake(kind, mode) == LaunchOf(kind, mode).told

-----------------------------------------------------------------------------
(* The limiter. *)

Holds(c) == psCall[c].kind = "antigravity" /\ psCall[c].at \in {"resolve", "spawn", "tell"}

PsBegin(c) ==
  \E kind \in PsKinds, mode \in PsModes :
    /\ psCall[c].at = "idle"
    /\ psStarts < PsMaxStarts /\ psStarts' = psStarts + 1
    /\ LET counts == kind = "antigravity"
       IN /\ psCall' = [psCall EXCEPT ![c] = [NoCall EXCEPT !.kind = kind, !.mode = mode,
                                               !.at = IF counts THEN "counted" ELSE "resolve",
                                               !.seen = psCount]]
          /\ psCount' = IF counts THEN psCount + 1 ELSE psCount
    /\ UNCHANGED <<psChild, psFiles, psActive, psInstall, psAgain, psInstalls>>

\* Mutant of PsLimitChecked: one too many.
PsLimitCheckedLate(c) ==
  /\ psCall[c].at = "counted"
  /\ IF psCall[c].seen > PsLimit
     THEN psCount' = psCount - 1 /\ psCall' = [psCall EXCEPT ![c] = NoCall]
     ELSE UNCHANGED psCount /\ psCall' = [psCall EXCEPT ![c].at = "resolve"]
  /\ UNCHANGED <<psChild, psFiles, psActive, psInstall, psAgain, psStarts, psInstalls>>

(* try_acquire decides on the count it saw, and takes a refused one back.    *)
PsLimitChecked(c) ==
  /\ psCall[c].at = "counted"
  /\ IF psCall[c].seen >= PsLimit
     THEN psCount' = psCount - 1 /\ psCall' = [psCall EXCEPT ![c] = NoCall]
     ELSE UNCHANGED psCount /\ psCall' = [psCall EXCEPT ![c].at = "resolve"]
  /\ UNCHANGED <<psChild, psFiles, psActive, psInstall, psAgain, psStarts, psInstalls>>

(* The guard goes with the call, whether it made a session or not; a session *)
(* lives on without one.                                                     *)
Released(c) == IF Holds(c) THEN psCount - 1 ELSE psCount

-----------------------------------------------------------------------------
(* The programs: one named in the settings or found on the machine, and for  *)
(* Antigravity the release active.json names, if its server is there.        *)

Managed == {r \in PsReleases : psActive = r /\ psFiles[r][1] # "absent"}
AntigravityPrograms == {"elsewhere"} \cup Managed

Programs(kind) == IF kind = "antigravity" THEN AntigravityPrograms ELSE {"elsewhere"}

PsResolve(c) ==
  /\ psCall[c].at = "resolve"
  /\ \E p \in Programs(psCall[c].kind) : psCall' = [psCall EXCEPT ![c].program = p, ![c].at = "spawn"]
  /\ UNCHANGED <<psChild, psCount, psFiles, psActive, psInstall, psAgain, psStarts, psInstalls>>

(* SupervisedChild::spawn, in a process group of its own; the arguments of   *)
(* Claude come with it.                                                      *)
PsSpawn(c) ==
  LET call == psCall[c]
  IN /\ call.at = "spawn"
     /\ psChild' = [psChild EXCEPT ![c] =
                      IF ~LaunchOf(call.kind, call.mode).child THEN "none"
                      ELSE IF call.program = "elsewhere" THEN "whole"
                      ELSE psFiles[call.program][1]]
     /\ psCall' = [psCall EXCEPT ![c].at = "tell",
                                 ![c].told = IF call.kind = "claude" THEN Handshake(call.kind, call.mode) ELSE << >>]
     /\ UNCHANGED <<psCount, psFiles, psActive, psInstall, psAgain, psStarts, psInstalls>>

(* The next line goes into the child's pipe; nobody waits for its answer.    *)
PsTell(c) ==
  LET lines == Handshake(psCall[c].kind, psCall[c].mode)
      told  == psCall[c].told
  IN /\ psCall[c].at = "tell" /\ Len(told) < Len(lines)
     /\ psCall' = [psCall EXCEPT ![c].told = Append(told, lines[Len(told) + 1])]
     /\ UNCHANGED <<psChild, psCount, psFiles, psActive, psInstall, psAgain, psStarts, psInstalls>>

PsStarted(c) ==
  /\ psCall[c].at = "tell"
  /\ Len(psCall[c].told) = Len(Handshake(psCall[c].kind, psCall[c].mode))
  /\ psCall' = [psCall EXCEPT ![c].at = "session"]
  /\ psCount' = Released(c)
  /\ UNCHANGED <<psChild, psFiles, psActive, psInstall, psAgain, psStarts, psInstalls>>

(* No program, no profile directory, no child, or a pipe whose child is dead *)
(* already.  What the call made goes with it, its child and all its group.   *)
PsFails(c) ==
  /\ \/ psCall[c].at \in {"resolve", "spawn"}
     \/ psCall[c].at = "tell" /\ psChild[c] = Gone
  /\ psCall' = [psCall EXCEPT ![c] = NoCall]
  /\ psChild' = [psChild EXCEPT ![c] = "none"]
  /\ psCount' = Released(c)
  /\ UNCHANGED <<psFiles, psActive, psInstall, psAgain, psStarts, psInstalls>>

(* A child may die at any time; a session is shut down, and takes it along.  *)
PsChildDies(c) ==
  /\ psChild[c] \notin {"none", Gone}
  /\ psChild' = [psChild EXCEPT ![c] = Gone]
  /\ UNCHANGED <<psCall, psCount, psFiles, psActive, psInstall, psAgain, psStarts, psInstalls>>

PsShutdown(c) ==
  /\ psCall[c].at = "session"
  /\ psCall' = [psCall EXCEPT ![c] = NoCall]
  /\ psChild' = [psChild EXCEPT ![c] = "none"]
  /\ UNCHANGED <<psCount, psFiles, psActive, psInstall, psAgain, psStarts, psInstalls>>

-----------------------------------------------------------------------------
(* Installing.  The bytes the client pushed have been checked against the    *)
(* manifest, and there is room on the disk; each file is cut to nothing and  *)
(* then written, the pointer last.                                           *)

PsInstallBegin(i) ==
  \E r \in PsReleases :
    /\ psInstall[i] = NoInstall
    /\ psInstalls < PsMaxInstalls /\ psInstalls' = psInstalls + 1
    /\ psInstall' = [psInstall EXCEPT ![i] = [release |-> r, step |-> 0]]
    /\ psAgain' = IF psFiles[r] = <<"absent", "absent">> /\ \A j \in PsInstallers : psInstall[j].release # r
                  THEN psAgain ELSE psAgain \cup {r}
    /\ UNCHANGED <<psCall, psChild, psCount, psFiles, psActive, psStarts>>

PsInstallStep(i) ==
  LET r == psInstall[i].release
      step == psInstall[i].step
  IN /\ r # "none"
     /\ psFiles' = CASE step = 0 -> [psFiles EXCEPT ![r][1] = "torn"]
                     [] step = 1 -> [psFiles EXCEPT ![r][1] = "whole"]
                     [] step = 2 -> [psFiles EXCEPT ![r][2] = "torn"]
                     [] step = 3 -> [psFiles EXCEPT ![r][2] = "whole"]
                     [] OTHER    -> psFiles
     /\ psActive' = CASE step = 4 -> "torn" [] step = 5 -> r [] OTHER -> psActive
     /\ psInstall' = [psInstall EXCEPT ![i] = IF step = 5 THEN NoInstall ELSE [release |-> r, step |-> step + 1]]
     /\ UNCHANGED <<psCall, psChild, psCount, psAgain, psStarts, psInstalls>>

(* A failed write ends it where it is; only the pointer's is passed over and *)
(* told as a success.                                                        *)
PsInstallFails(i) ==
  /\ psInstall[i] # NoInstall
  /\ psInstall' = [psInstall EXCEPT ![i] = NoInstall]
  /\ UNCHANGED <<psCall, psChild, psCount, psFiles, psActive, psAgain, psStarts, psInstalls>>

PsNext ==
  \/ \E c \in PsCalls : \/ PsBegin(c) \/ PsLimitChecked(c) \/ PsResolve(c) \/ PsSpawn(c) \/ PsTell(c)
                        \/ PsStarted(c) \/ PsFails(c) \/ PsChildDies(c) \/ PsShutdown(c)
  \/ \E i \in PsInstallers : PsInstallBegin(i) \/ PsInstallStep(i) \/ PsInstallFails(i)

PsSpec == PsInit /\ [][PsNext]_psVars

-----------------------------------------------------------------------------
(* Of parallel starts never more than the limit are let through, and the     *)
(* counter comes back to what is under way: it counts starts, and no longer  *)
(* the processes they leave behind.  A child belongs to a call under way or  *)
(* to a session, which it was told everything for; and one that was started  *)
(* from a managed release was started from a whole program, unless that      *)
(* release was being installed over.                                         *)
PsStartKept ==
  LET holders == {c \in PsCalls : Holds(c)}
      counted == {c \in PsCalls : psCall[c].at = "counted"}
  IN /\ Cardinality(holders) <= PsLimit
     /\ psCount = Cardinality(holders) + Cardinality(counted)
     /\ \A c \in PsCalls :
          /\ psChild[c] # "none" => psCall[c].at \in {"tell", "session"}
          /\ psCall[c].at = "session" => psCall[c].told = Handshake(psCall[c].kind, psCall[c].mode)
          /\ psChild[c] \in {"torn", "absent"} => psCall[c].program \in psAgain

(* antigravity.rs:628: "Concurrency limiter enforcing max 2 active           *)
(* Antigravity processes per environment."  No more of them live than the    *)
(* limit, those of sessions included.                                        *)
PsActiveLimited ==
  Cardinality({c \in PsCalls : psCall[c].kind = "antigravity" /\ psChild[c] \notin {"none", Gone}}) <= PsLimit
=============================================================================
