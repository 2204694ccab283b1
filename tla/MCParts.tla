------------------------------- MODULE MCParts -------------------------------
(* The other components, of which the properties are about states alone: the  *)
(* transcript and the diffs drawn of it, windows and drafts of the desktop,   *)
(* the work tree with its checkpoints, commits sent to a node, the hub, the   *)
(* starts and the health of providers, the smoothing of tokens, a terminal's  *)
(* screen.  They share no state, so a behaviour of this module is one of the  *)
(* component named "part"; the others stay at their initial states.           *)
EXTENDS MCDiffs, Timeline, DesktopApp, Composer, Workspace, HubRouter, ProviderStart,
        TokenQueue, MCScreen, ProviderHealth, WorktreeSync

VARIABLE part

Parts == {"timeline", "diff", "desktop", "composer", "worktree", "hub", "starts",
          "tokens", "screen", "health", "sync"}
vars == <<tlVars, dfVars, dtVars, cpVars, wsVars, hbVars, psVars, tqVars, tvVars,
          hlVars, wkVars, part>>

(* The models the picker offers for two providers.                            *)
Models == << <<"a1", "a2">>, <<"b1">> >>

Init ==
  /\ part \in Parts
  /\ DfInit /\ DtInit /\ WsInit /\ HbInit /\ PsInit /\ TqInit
  /\ TlInit /\ (part # "timeline" => tlShown = CHOOSE t \in TlThreads : TRUE)
  /\ CpInit /\ (part # "composer" => cpActive = CHOOSE t \in CpThreads : TRUE)
  /\ TvInit /\ (part # "screen" => tvSize = CHOOSE s \in TvSizes : TRUE)
  /\ WkInit /\ (part # "sync" => \A r \in DOMAIN wkRepos : r[1] = "hub")
  /\ HlInit
  /\ part # "health" =>
       /\ \A i \in DOMAIN hlConfig : hlConfig[i].kind = CHOOSE k \in HlKinds : TRUE
       /\ hlMachine.programs = {} /\ hlMachine.env = {}

Next ==
  /\ UNCHANGED part
  /\ \/ /\ part = "timeline" /\ TlNext
        /\ UNCHANGED <<dfVars, dtVars, cpVars, wsVars, hbVars, psVars, tqVars, tvVars, hlVars, wkVars>>
     \/ /\ part = "diff" /\ DfNext
        /\ UNCHANGED <<tlVars, dtVars, cpVars, wsVars, hbVars, psVars, tqVars, tvVars, hlVars, wkVars>>
     \/ /\ part = "desktop" /\ DtNext
        /\ UNCHANGED <<tlVars, dfVars, cpVars, wsVars, hbVars, psVars, tqVars, tvVars, hlVars, wkVars>>
     \/ /\ part = "composer" /\ CpNext
        /\ UNCHANGED <<tlVars, dfVars, dtVars, wsVars, hbVars, psVars, tqVars, tvVars, hlVars, wkVars>>
     \/ /\ part = "worktree" /\ WsNext
        /\ UNCHANGED <<tlVars, dfVars, dtVars, cpVars, hbVars, psVars, tqVars, tvVars, hlVars, wkVars>>
     \/ /\ part = "hub" /\ HbNext
        /\ UNCHANGED <<tlVars, dfVars, dtVars, cpVars, wsVars, psVars, tqVars, tvVars, hlVars, wkVars>>
     \/ /\ part = "starts" /\ PsNext
        /\ UNCHANGED <<tlVars, dfVars, dtVars, cpVars, wsVars, hbVars, tqVars, tvVars, hlVars, wkVars>>
     \/ /\ part = "tokens" /\ TqNext
        /\ UNCHANGED <<tlVars, dfVars, dtVars, cpVars, wsVars, hbVars, psVars, tvVars, hlVars, wkVars>>
     \/ /\ part = "screen" /\ TvNext
        /\ UNCHANGED <<tlVars, dfVars, dtVars, cpVars, wsVars, hbVars, psVars, tqVars, hlVars, wkVars>>
     \/ /\ part = "health" /\ HlNext
        /\ UNCHANGED <<tlVars, dfVars, dtVars, cpVars, wsVars, hbVars, psVars, tqVars, tvVars, wkVars>>
     \/ /\ part = "sync" /\ WkNext
        /\ UNCHANGED <<tlVars, dfVars, dtVars, cpVars, wsVars, hbVars, psVars, tqVars, tvVars, hlVars>>

Spec == Init /\ [][Next]_vars
=============================================================================
