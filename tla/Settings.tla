------------------------------ MODULE Settings -------------------------------
(* The user's settings: one row of the hub's store, read and written by      *)
(* handle_settings_get, handle_settings_set and                              *)
(* handle_environment_import_ssh_config (pandamux-server/src/router.rs) for  *)
(* any number of connections, and the copy the desktop's settings page edits *)
(* and saves whole (pandamux-desktop/src/settings_view.rs, app_view.rs).     *)
(*                                                                           *)
(* Of the settings three stand for the others: a choice (theme), a number    *)
(* that is clamped (limit, for global_concurrency_limit), and a list that    *)
(* grows (envs, by id).  A theme no version knows stands for every other     *)
(* string; a key or value the schema does not take is refused and changes    *)
(* nothing, so it is not a step.                                             *)
EXTENDS Integers, SequencesExt

CONSTANTS
  StHosts,      \* host names an ssh config may list
  StMaxHosts,   \* bound: hosts one config lists, repetitions included
  StMaxEnvs,    \* bound: environments a client's own list names, repetitions included
  StLimitMax,   \* the page's upper bound of limit (16 in the code)
  StLimitTop,   \* the largest limit its type holds (u32::MAX)
  StConns,      \* connections of other clients (the command line)
  StMaxWrites   \* bound: writes of the other clients

ASSUME StAssumption ==
  /\ StLimitMax \in Nat \ {0} /\ StLimitTop \in Nat /\ StLimitMax < StLimitTop
  /\ StMaxHosts \in Nat /\ StMaxEnvs \in Nat /\ StMaxWrites \in Nat

VARIABLES
  stStored,   \* the row; the defaults before the first save
  stCalls,    \* per connection: the row it is about to write over what it read, or none
  stDraft,    \* settings_view.settings
  stTheme,    \* the theme the window is drawn with
  stAsks,     \* the desktop's calls that are not answered yet
  stSaving,   \* is_saving
  stWrites,   \* the other clients' writes so far
  stTwice     \* history: environments a client itself listed twice

stVars == <<stStored, stCalls, stDraft, stTheme, stAsks, stSaving, stWrites, stTwice>>

StLocal == <<"env_local">>
StEnvOf(host) == <<"env_ssh", host>>
StEnvs == {StLocal} \cup {StEnvOf(h) : h \in StHosts}
StThemes == {"dark", "light", "unknown"}
StDrawn(theme) == IF theme = "light" THEN "light" ELSE "dark"

StDefault == [theme |-> "dark", limit |-> 1, envs |-> <<StLocal>>]
StNoRow == [theme |-> "none", limit |-> 0, envs |-> << >>]
StConfigs == UNION {[1..n -> StHosts] : n \in 0..StMaxHosts}
StEnvLists == UNION {[1..n -> StEnvs] : n \in 0..StMaxEnvs}
StListedTwice(envs) == {e \in ToSet(envs) : \E i, j \in DOMAIN envs : i # j /\ envs[i] = e /\ envs[j] = e}

StNormalize(s) == [s EXCEPT !.limit = IF @ = 0 THEN 1 ELSE @]

StInit ==
  /\ stStored = StDefault /\ stDraft = StDefault /\ stTheme = "dark"
  /\ stCalls = [c \in StConns |-> StNoRow]
  /\ stAsks = {} /\ stSaving = FALSE
  /\ stWrites = 0 /\ stTwice = {}

-----------------------------------------------------------------------------
(* The server. *)

\* Mutant of StImported: names are only compared with what was stored before.
StImportedTwice(envs, hosts) ==
  envs \o SelectSeq([i \in DOMAIN hosts |-> StEnvOf(hosts[i])], LAMBDA e : e \notin ToSet(envs))

(* import_ssh_config_into_environments: hosts whose environment exists, or   *)
(* that the same config listed before, are skipped.                          *)
StImported(envs, hosts) ==
  LET known[n \in 0..Len(hosts)] ==
        IF n = 0 THEN envs
        ELSE IF StEnvOf(hosts[n]) \in ToSet(known[n - 1]) THEN known[n - 1]
        ELSE Append(known[n - 1], StEnvOf(hosts[n]))
  IN known[Len(hosts)]

(* settings.set of one key, with any value of its type, and an import read  *)
(* the row and change what they read.  An import with nothing new ends here. *)
StBeginWrite(c) ==
  /\ stCalls[c] = StNoRow /\ stWrites < StMaxWrites
  /\ \/ /\ \/ \E t \in StThemes : stCalls' = [stCalls EXCEPT ![c] = StNormalize([stStored EXCEPT !.theme = t])]
           \/ \E n \in 0..StLimitTop : stCalls' = [stCalls EXCEPT ![c] = StNormalize([stStored EXCEPT !.limit = n])]
        /\ UNCHANGED stTwice
     \/ \E envs \in StEnvLists :
          /\ stCalls' = [stCalls EXCEPT ![c] = StNormalize([stStored EXCEPT !.envs = envs])]
          /\ stTwice' = stTwice \cup StListedTwice(envs)
     \/ \E hosts \in StConfigs :
          LET envs == StImported(stStored.envs, hosts)
          IN /\ envs # stStored.envs
             /\ stCalls' = [stCalls EXCEPT ![c] = StNormalize([stStored EXCEPT !.envs = envs])]
             /\ UNCHANGED stTwice
  /\ stWrites' = stWrites + 1
  /\ UNCHANGED <<stStored, stDraft, stTheme, stAsks, stSaving>>

(* ... and write all of it back, over what was written in between; or the    *)
(* store refuses.                                                            *)
StEndWrite(c) ==
  /\ stCalls[c] # StNoRow
  /\ stStored' \in {stCalls[c], stStored}
  /\ stCalls' = [stCalls EXCEPT ![c] = StNoRow]
  /\ UNCHANGED <<stDraft, stTheme, stAsks, stSaving, stWrites, stTwice>>

(* settings.set of a whole row, and of an object without "settings" or "key" *)
(* and "value", which is read as a row whose missing fields are the defaults *)
(* (all of them when it names no setting).                                   *)
StSetWhole ==
  /\ stWrites < StMaxWrites
  /\ \E t \in StThemes, n \in 0..StLimitTop, envs \in StEnvLists \cup {StDefault.envs} :
       /\ stStored' = StNormalize([theme |-> t, limit |-> n, envs |-> envs])
       /\ stTwice' = stTwice \cup StListedTwice(envs)
  /\ stWrites' = stWrites + 1
  /\ UNCHANGED <<stCalls, stDraft, stTheme, stAsks, stSaving>>

(* The desktop's settings.get, and settings.set of the whole.                *)
StServe(a) ==
  /\ a.at = "sent"
  /\ IF a.kind = "get"
       THEN /\ stAsks' = (stAsks \ {a}) \cup {[a EXCEPT !.at = "ok", !.settings = stStored]}
            /\ UNCHANGED stStored
       ELSE /\ stStored' = StNormalize(a.settings)
            /\ stAsks' = (stAsks \ {a}) \cup {[a EXCEPT !.at = "ok", !.settings = StDefault]}
  /\ UNCHANGED <<stCalls, stDraft, stTheme, stSaving, stWrites, stTwice>>

(* The store fails, or the bridge loses its server.                          *)
StRefuse(a) ==
  /\ a.at = "sent"
  /\ stAsks' = (stAsks \ {a}) \cup {[a EXCEPT !.at = "failed", !.settings = StDefault]}
  /\ UNCHANGED <<stStored, stCalls, stDraft, stTheme, stSaving, stWrites, stTwice>>

-----------------------------------------------------------------------------
(* The desktop. *)

(* Bound: one call of each kind is under way.                                *)
StAsk(kind, settings) ==
  /\ \A a \in stAsks : a.kind # kind
  /\ stAsks' = stAsks \cup {[kind |-> kind, settings |-> settings, at |-> "sent"]}

(* load_settings, when the window opens.                                     *)
StLoad ==
  /\ StAsk("get", StDefault)
  /\ UNCHANGED <<stStored, stCalls, stDraft, stTheme, stSaving, stWrites, stTwice>>

(* The answer replaces the draft, whatever was edited since.                 *)
StLoaded(a) ==
  /\ a.kind = "get" /\ a.at \in {"ok", "failed"}
  /\ IF a.at = "ok" THEN stDraft' = a.settings /\ stTheme' = StDrawn(a.settings.theme)
     ELSE UNCHANGED <<stDraft, stTheme>>
  /\ stAsks' = stAsks \ {a}
  /\ UNCHANGED <<stStored, stCalls, stSaving, stWrites, stTwice>>

(* The page's controls.  Choices and flags are set outright, numbers are     *)
(* stepped: up to the page's bound, a larger one back to it, and the largest *)
(* of all to 0, where the addition wraps (a debug build stops there).        *)
StChoose == {[stDraft EXCEPT !.theme = t] : t \in {"dark", "light"}}
StUp(limit) ==
  LET next == IF limit = StLimitTop THEN 0 ELSE limit + 1
  IN IF next > StLimitMax THEN StLimitMax ELSE next
StDown(limit) == IF limit < 2 THEN 1 ELSE limit - 1
StStep == {[stDraft EXCEPT !.limit = StUp(@)], [stDraft EXCEPT !.limit = StDown(@)]}
StProvidersTab == StChoose \cup StStep   \* enabled, concurrency limit
StTerminalTab  == StChoose              \* scrollback presets, shell, three flags
StGeneralTab   == StChoose              \* theme, accent, three flags
StAdvancedTab  == StStep                \* global concurrency limit

(* An edit changes the draft and the window, nothing is sent (nor is it when *)
(* the theme is switched from the title bar or the palette, toggle_theme).   *)
StEdit ==
  /\ \E d \in StProvidersTab \cup StTerminalTab \cup StGeneralTab \cup StAdvancedTab :
       stDraft' = d /\ stTheme' = StDrawn(d.theme)
  /\ UNCHANGED <<stStored, stCalls, stAsks, stSaving, stWrites, stTwice>>

(* save_settings sends the draft as it is now.                               *)
StSave ==
  /\ StAsk("set", stDraft)
  /\ stSaving' = TRUE
  /\ UNCHANGED <<stStored, stCalls, stDraft, stTheme, stWrites, stTwice>>

StSaved(a) ==
  /\ a.kind = "set" /\ a.at \in {"ok", "failed"}
  /\ stSaving' = FALSE
  /\ stTheme' = IF a.at = "ok" THEN StDrawn(stDraft.theme) ELSE stTheme
  /\ stAsks' = stAsks \ {a}
  /\ UNCHANGED <<stStored, stCalls, stDraft, stWrites, stTwice>>

StNext ==
  \/ \E c \in StConns : StBeginWrite(c) \/ StEndWrite(c)
  \/ StSetWhole
  \/ \E a \in stAsks : StServe(a) \/ StRefuse(a) \/ StLoaded(a) \/ StSaved(a)
  \/ StLoad \/ StEdit \/ StSave

StSpec == StInit /\ [][StNext]_stVars

-----------------------------------------------------------------------------
(* Whatever is set, however the writes cross, a config repeats itself and is *)
(* imported again: no limit of 0 is stored, though the page may show one,    *)
(* and an environment is listed twice, in the row or on the page, only if a  *)
(* client listed it twice itself.  The window has the theme the page shows,  *)
(* and "Saving..." means a save.                                             *)
StSound ==
  /\ stStored.limit \in 1..StLimitTop
  /\ StListedTwice(stStored.envs) \cup StListedTwice(stDraft.envs) \subseteq stTwice
  /\ stTheme = StDrawn(stDraft.theme)
  /\ stSaving => \E a \in stAsks : a.kind = "set"
=============================================================================
