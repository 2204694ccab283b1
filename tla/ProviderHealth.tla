---------------------------- MODULE ProviderHealth ----------------------------
(* What is told of the providers' health: provider.health in the router       *)
(* (handle_provider_health), which has the driver of each instance of the     *)
(* settings look for its program and its login (probe, in pandamux-providers),*)
(* and the reports the desktop shows (run_health_checks).  Programs and       *)
(* logins come and go outside, also while a check is under way.  How sessions *)
(* are started is the module ProviderStart's; here is what such a start       *)
(* finds, with the configuration the thread manager makes up for it.          *)
(*                                                                            *)
(* Left out: versions, labels and accounts, models, and the report of one     *)
(* instance alone, which the desktop never asks for.                          *)
EXTENDS Naturals, SequencesExt, FiniteSetsExt

CONSTANTS
  HlKinds,       \* providers of the instances
  HlInstances,   \* how many instances the settings have
  HlMaxChanges,  \* bound: changes of the settings and the machine
  HlMaxChecks    \* bound: checks asked for

ASSUME HlAssumption ==
  /\ HlKinds \subseteq {"claude", "codex", "cursor", "grok", "opencode", "antigravity"}
  /\ {HlInstances, HlMaxChanges, HlMaxChecks} \subseteq Nat

VARIABLES
  hlConfig,   \* settings.providers: kind, the program named, a key given, enabled
  hlMachine,  \* programs there, instances with a login, kinds with a key in the environment, claude answers
  hlAsked,    \* requests not answered yet, and is_checking_health
  hlCheck,    \* the one the server works on: the settings it read, the reports it made so far
  hlShown,    \* health_reports; what each was made from comes with it
  hlBounds    \* changes and checks so far

hlVars == <<hlConfig, hlMachine, hlAsked, hlCheck, hlShown, hlBounds>>

NoCheck == [up |-> FALSE, read |-> << >>, made |-> << >>]

(* The programs a driver looks for, in its order; "managed" is the release   *)
(* that active.json names.                                                   *)
ProgramNames(kind) ==
  CASE kind = "cursor"      -> <<"cursor-agent", "cursor">>
    [] kind = "grok"        -> <<"grok-acp", "grok">>
    [] kind = "antigravity" -> <<"managed", "agy_acp_server">>
    [] OTHER -> <<kind>>
AllPrograms == UNION {ToSet(ProgramNames(k)) : k \in HlKinds}
HlKeyKinds == HlKinds \cap {"cursor", "grok", "opencode"}

HlInit ==
  /\ hlConfig \in [1..HlInstances -> [kind : HlKinds, named : {"none"}, key : {FALSE}, enabled : {TRUE}]]
  /\ \E programs \in SUBSET AllPrograms, env \in SUBSET HlKeyKinds :
       hlMachine = [programs |-> programs, logins |-> {}, env |-> env, answers |-> TRUE]
  /\ hlAsked = [waiting |-> 0, checking |-> FALSE]
  /\ hlCheck = NoCheck /\ hlShown = << >>
  /\ hlBounds = [changes |-> 0, checks |-> 0]

-----------------------------------------------------------------------------
(* resolve_binary of the drivers: what the settings name if it is a file,    *)
(* else the first of the driver's programs that is found.                    *)
FirstFound(config, machine) ==
  LET names == ProgramNames(config.kind)
      found == {n \in DOMAIN names : names[n] \in machine.programs}
  IN IF config.named = "file" THEN "named"
     ELSE IF found = {} THEN "nothing" ELSE names[Min(found)]

(* probe of the drivers.  Claude's asks its program, which may fail to       *)
(* answer; the others look for a file in the instance's profile, and for a   *)
(* key in the settings and the environment.                                  *)
Snapshot(installed, auth, health) == [installed |-> installed, auth |-> auth, health |-> health]
Missing == Snapshot(FALSE, "unknown", "unavailable")
Keyed(has) == IF has THEN Snapshot(TRUE, "yes", "healthy") ELSE Snapshot(TRUE, "no", "degraded")
HasKey(i, config, machine) == i \in machine.logins \/ config.key \/ config.kind \in machine.env

ClaudeProbe(i, machine) ==
  IF ~machine.answers THEN Snapshot(TRUE, "unknown", "degraded")
  ELSE Snapshot(TRUE, IF i \in machine.logins THEN "yes" ELSE "no", "healthy")
CodexProbe(i, machine) ==
  Snapshot(TRUE, IF i \in machine.logins THEN "yes" ELSE "no", "healthy")
CursorProbe(i, config, machine)   == Keyed(HasKey(i, config, machine))
GrokProbe(i, config, machine)     == Keyed(HasKey(i, config, machine))
OpenCodeProbe(i, config, machine) == Keyed(HasKey(i, config, machine))
AntigravityProbe(i, machine)      == Keyed(i \in machine.logins)

Probed(i, config, machine) ==
  CASE FirstFound(config, machine) = "nothing" -> Missing
    [] OTHER ->
         CASE config.kind = "claude"      -> ClaudeProbe(i, machine)
           [] config.kind = "codex"       -> CodexProbe(i, machine)
           [] config.kind = "cursor"      -> CursorProbe(i, config, machine)
           [] config.kind = "grok"        -> GrokProbe(i, config, machine)
           [] config.kind = "opencode"    -> OpenCodeProbe(i, config, machine)
           [] config.kind = "antigravity" -> AntigravityProbe(i, machine)

\* Mutant of StatusTold: who is not logged in is not told apart.
StatusToldOfHealthAlone(snapshot) == snapshot.health

StatusTold(snapshot) ==
  IF snapshot.health = "healthy" /\ snapshot.auth = "no" THEN "unauthenticated" ELSE snapshot.health

-----------------------------------------------------------------------------
(* run_health_checks, and the router's reading of the settings.              *)
HlAsk ==
  /\ hlBounds.checks < HlMaxChecks
  /\ hlAsked' = [waiting |-> hlAsked.waiting + 1, checking |-> TRUE]
  /\ hlBounds' = [hlBounds EXCEPT !.checks = @ + 1]
  /\ UNCHANGED <<hlConfig, hlMachine, hlCheck, hlShown>>

(* The requests of a connection are worked on one after the other.           *)
HlRead ==
  /\ hlAsked.waiting > 0 /\ ~hlCheck.up
  /\ hlCheck' = [up |-> TRUE, read |-> hlConfig, made |-> << >>]
  /\ UNCHANGED <<hlConfig, hlMachine, hlAsked, hlShown, hlBounds>>

(* One instance after the other, enabled or not.                             *)
HlProbe ==
  /\ hlCheck.up /\ Len(hlCheck.made) < Len(hlCheck.read)
  /\ LET i == Len(hlCheck.made) + 1
         snapshot == Probed(i, hlCheck.read[i], hlMachine)
     IN hlCheck' = [hlCheck EXCEPT !.made =
                      Append(@, [installed |-> snapshot.installed, status |-> StatusTold(snapshot),
                                 seen |-> <<hlCheck.read[i], hlMachine>>])]
  /\ UNCHANGED <<hlConfig, hlMachine, hlAsked, hlShown, hlBounds>>

(* The first answer takes the notice of checking down, whatever is asked.    *)
HlAnswered ==
  /\ hlCheck.up /\ Len(hlCheck.made) = Len(hlCheck.read)
  /\ hlShown' = hlCheck.made
  /\ hlAsked' = [waiting |-> hlAsked.waiting - 1, checking |-> FALSE]
  /\ hlCheck' = NoCheck
  /\ UNCHANGED <<hlConfig, hlMachine, hlBounds>>

(* The connection is lost: what was shown before stays.                      *)
HlLost ==
  /\ hlAsked.waiting > 0
  /\ hlAsked' = [waiting |-> 0, checking |-> FALSE]
  /\ hlCheck' = NoCheck
  /\ UNCHANGED <<hlConfig, hlMachine, hlShown, hlBounds>>

(* The user, elsewhere: the settings of an instance are saved, a program     *)
(* comes or goes, a login is made or ends, claude stops to answer.           *)
HlChange ==
  /\ hlBounds.changes < HlMaxChanges
  /\ hlBounds' = [hlBounds EXCEPT !.changes = @ + 1]
  /\ \/ /\ \E i \in 1..HlInstances :
             \/ \E named \in {"file", "gone"} : hlConfig' = [hlConfig EXCEPT ![i].named = named]
             \/ hlConfig' = [hlConfig EXCEPT ![i].key = TRUE]
             \/ hlConfig' = [hlConfig EXCEPT ![i].enabled = FALSE]
        /\ UNCHANGED hlMachine
     \/ /\ \/ \E p \in AllPrograms : hlMachine' = [hlMachine EXCEPT !.programs = SymDiff(@, {p})]
           \/ \E i \in 1..HlInstances : hlMachine' = [hlMachine EXCEPT !.logins = SymDiff(@, {i})]
           \/ hlMachine' = [hlMachine EXCEPT !.answers = FALSE]
        /\ UNCHANGED hlConfig
  /\ UNCHANGED <<hlAsked, hlCheck, hlShown>>

HlNext == HlAsk \/ HlRead \/ HlProbe \/ HlAnswered \/ HlLost \/ HlChange

HlSpec == HlInit /\ [][HlNext]_hlVars

-----------------------------------------------------------------------------
(* send_turn makes the configuration of a session up: the settings of the    *)
(* instance, its program and its switch among them, do not reach the driver. *)
SessionConfig(config) == [config EXCEPT !.named = "none", !.key = FALSE, !.enabled = TRUE]

(* The page says that it checks only while a request is out.  What is shown  *)
(* covers every instance, and is right of each of which nothing changed      *)
(* since it was probed: it is unavailable exactly when there is no program;  *)
(* healthy only with a login of its own or a key, never by the login of      *)
(* another instance; and if it names no program of its own, the session its  *)
(* thread starts finds a program exactly when the report says that there is  *)
(* one.                                                                      *)
HlReportTrue ==
  /\ hlAsked.checking => hlAsked.waiting > 0
  /\ Len(hlShown) \in {0, HlInstances}
  /\ \A i \in DOMAIN hlShown :
       LET report == hlShown[i]
           config == hlConfig[i]
           there  == config.named = "file" \/ ToSet(ProgramNames(config.kind)) \cap hlMachine.programs # {}
           known  == \/ i \in hlMachine.logins
                     \/ config.kind \in HlKeyKinds /\ (config.key \/ config.kind \in hlMachine.env)
       IN report.seen = <<config, hlMachine>> =>
            /\ report.installed = there
            /\ (report.status = "unavailable") = ~there
            /\ report.status = "healthy" => known
            /\ there /\ known /\ hlMachine.answers => report.status = "healthy"
            /\ config.named # "file" =>
                 (FirstFound(SessionConfig(config), hlMachine) # "nothing") = report.installed
=============================================================================
