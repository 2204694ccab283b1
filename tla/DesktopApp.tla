------------------------------ MODULE DesktopApp ------------------------------
(* The desktop's window (pandamux-desktop/src/app_view.rs): which thread it   *)
(* shows, what the panels beside it show, and the calls that fetch this from  *)
(* the server.  Every call's answer changes the window when it comes, without *)
(* a look at what was selected meanwhile; the bridge and the server keep the  *)
(* order of the calls (ServerBridge), and a call lost with its connection is  *)
(* never answered.                                                            *)
(*                                                                            *)
(* Drawing is modelled by what it offers to click in a state, and what it     *)
(* shows by the thread it belongs to.  Composer and settings page have        *)
(* modules of their own; a terminal's content is the module Terminals'.       *)
EXTENDS Naturals, SequencesExt, Functions

CONSTANTS
  DtThreads,    \* threads the server makes for this window
  DtPaths,      \* files in a listing
  DtMaxToasts,  \* toasts shown at once (5 in the code)
  DtMaxCalls,   \* bound: calls under way
  DtMaxClicks   \* bound: clicks and events

Nobody == "nobody"
ASSUME DtAssumption ==
  /\ {DtMaxToasts, DtMaxCalls, DtMaxClicks} \subseteq Nat
  /\ Nobody \notin DtThreads

VARIABLES
  dtOrder,    \* thread_order; its elements have a projection
  dtActive,   \* active_thread_id, or Nobody
  dtRail,     \* active_rail_tab
  dtPalette,  \* the command palette is open
  dtPanel,    \* the surfaces panel: open, tab, tabs by thread, the terminal shown, terminals by thread
  dtGit,      \* the thread whose git status is shown, or Nobody
  dtBusy,     \* is_git_busy
  dtFiles,    \* the thread whose files are listed, or Nobody
  dtFile,     \* the file selected, and whose bytes the preview shows
  dtToasts,   \* toasts shown
  dtCalls,    \* calls under way, oldest first
  dtMissed,   \* kinds of calls that failed or were lost since the last answer of that kind
  dtClicks

dtVars == <<dtOrder, dtActive, dtRail, dtPalette, dtPanel, dtGit, dtBusy, dtFiles,
            dtFile, dtToasts, dtCalls, dtMissed, dtClicks>>

NoFilePath == <<"none">>
DtTabs == {"files", "terminal", "other"}
DtRails == {"threads", "agents", "settings"}     \* Terminal offers nothing, like an empty "threads"

DtInit ==
  /\ dtOrder = << >> /\ dtActive = Nobody /\ dtRail = "threads" /\ dtPalette = FALSE
  /\ dtPanel = [open |-> TRUE, tab |-> "none", tabs |-> << >>, term |-> Nobody, terms |-> {}]
  /\ dtGit = Nobody /\ dtBusy = FALSE
  /\ dtFiles = Nobody /\ dtFile = [path |-> NoFilePath, shows |-> NoFilePath]
  /\ dtToasts = 0 /\ dtCalls = << >> /\ dtMissed = {} /\ dtClicks = 0

-----------------------------------------------------------------------------
(* What the drawn window offers, as <<what, argument>>. *)

DtRailOffers     == {<<"rail", r>> : r \in DtRails}
DtTitlebarOffers == {<<"palette", "toggle">>, <<"rail", "settings">>, <<"panel", "toggle">>}

(* The sidebar lists the threads of the window by project and counts those   *)
(* that are settled; the agents tab makes threads for an agent.              *)
DtSidebarOffers ==
  CASE dtRail = "threads"  -> {<<"create", "new">>} \cup {<<"select", t>> : t \in ToSet(dtOrder)}
    [] dtRail = "agents"   -> {<<"create", "agent">>}
    [] dtRail = "settings" -> {}

(* Above the composer: the thread, or the button that makes the first one.   *)
DtMainOffers ==
  IF dtRail = "settings" THEN {}
  ELSE IF dtActive = Nobody THEN {<<"create", "new">>}
  ELSE {<<"tell", "cancel">>, <<"tell", "approval">>}

(* The git bar has buttons once a status says it is a repository.  They are  *)
(* not disabled while one of them is busy.                                   *)
DtGitOffers ==
  IF dtRail = "settings" \/ dtActive = Nobody \/ dtGit = Nobody THEN {}
  ELSE {<<"git", "status">>, <<"git", "action">>}

(* A second click on the open tab closes it; without a tab all are listed.   *)
DtPanelOffers ==
  IF dtRail = "settings" \/ ~dtPanel.open THEN {}
  ELSE {<<"panel", "toggle">>}
       \cup {<<"tab", IF tab = dtPanel.tab THEN "none" ELSE tab>> : tab \in DtTabs}

DtFilesOffers ==
  IF dtRail = "settings" \/ ~dtPanel.open \/ dtPanel.tab # "files" THEN {}
  ELSE {<<"file", <<dtFiles, p>>>> : p \in IF dtFiles = Nobody THEN {} ELSE DtPaths}

DtPaletteOffers ==
  IF ~dtPalette THEN {}
  ELSE {<<"palette", "close">>, <<"create", "new">>, <<"git", "status">>, <<"git", "action">>,
        <<"panel", "toggle">>}
       \cup {<<"select", t>> : t \in ToSet(dtOrder)}
       \cup {<<"rail", r>> : r \in DtRails} \cup {<<"opentab", tab>> : tab \in DtTabs}

DtToastOffers == IF dtToasts = 0 THEN {} ELSE {<<"toast", "dismiss">>}

(* While the palette is open only it and the toasts can be reached, and      *)
(* running one of its commands closes it first (execute_command_action).     *)
DtOffers ==
  DtToastOffers \cup
    IF dtPalette THEN DtPaletteOffers
    ELSE DtRailOffers \cup DtTitlebarOffers \cup DtSidebarOffers \cup DtMainOffers
           \cup DtGitOffers \cup DtPanelOffers \cup DtFilesOffers

DtClick(o) ==
  /\ o \in DtOffers
  /\ dtClicks < DtMaxClicks /\ dtClicks' = dtClicks + 1
  /\ dtPalette' = (o = <<"palette", "toggle">> \/ (dtPalette /\ o[1] = "toast"))

-----------------------------------------------------------------------------
(* Calls. *)

DtCall(kind, thread, path) == [kind |-> kind, thread |-> thread, path |-> path]
DtSend(calls) ==
  /\ Len(dtCalls) + Len(calls) <= DtMaxCalls
  /\ dtCalls' = dtCalls \o calls

(* refresh_git_status and load_surface_files, about the thread that is       *)
(* active then; without one they ask nothing.                                *)
DtStatusOf(t) == IF t = Nobody THEN << >> ELSE <<DtCall("status", t, NoFilePath)>>
DtListOf(t)   == IF t = Nobody THEN << >> ELSE <<DtCall("list", t, NoFilePath)>>

DtAddToast(n) == IF n < DtMaxToasts THEN n + 1 ELSE n      \* a sixth pushes out the oldest

-----------------------------------------------------------------------------
(* Clicks. *)

DtSelectRail ==
  \E r \in DtRails :
    /\ DtClick(<<"rail", r>>)
    /\ dtRail' = r
    /\ UNCHANGED <<dtOrder, dtActive, dtPanel, dtGit, dtBusy, dtFiles, dtFile, dtToasts, dtCalls, dtMissed>>

DtTogglePalette ==
  /\ DtClick(<<"palette", IF dtPalette THEN "close" ELSE "toggle">>)
  /\ UNCHANGED <<dtOrder, dtActive, dtRail, dtPanel, dtGit, dtBusy, dtFiles, dtFile, dtToasts, dtCalls, dtMissed>>

DtCreate ==
  \E how \in {"new", "agent"} :
    /\ DtClick(<<"create", how>>)
    /\ DtSend(<<DtCall("create", Nobody, NoFilePath)>>)
    /\ dtRail' = IF how = "agent" THEN "threads" ELSE dtRail
    /\ UNCHANGED <<dtOrder, dtActive, dtPanel, dtGit, dtBusy, dtFiles, dtFile, dtToasts, dtMissed>>

\* Mutant of DtRestored: the new thread keeps the tab of the old.
DtRestoredNot(t) == dtPanel

(* restore_for_thread: the tab the thread had, if it ever had one, and its   *)
(* terminal, if it has one.                                                  *)
DtRestored(t) ==
  [dtPanel EXCEPT !.tab  = IF t \in DOMAIN dtPanel.tabs THEN dtPanel.tabs[t] ELSE @,
                  !.term = IF t \in dtPanel.terms THEN t ELSE @]

DtSelectThread ==
  \E t \in DtThreads :
    /\ DtClick(<<"select", t>>)
    /\ dtActive' = t
    /\ dtPanel' = DtRestored(t)
    /\ DtSend(DtListOf(t) \o DtStatusOf(t))
    /\ UNCHANGED <<dtOrder, dtRail, dtGit, dtBusy, dtFiles, dtFile, dtToasts, dtMissed>>

(* respond_approval and cancel_turn: nobody waits for the answer.            *)
DtTell ==
  /\ \E what \in {"cancel", "approval"} : DtClick(<<"tell", what>>)
  /\ DtSend(<<DtCall("tell", dtActive, NoFilePath)>>)
  /\ UNCHANGED <<dtOrder, dtActive, dtRail, dtPanel, dtGit, dtBusy, dtFiles, dtFile, dtToasts, dtMissed>>

DtTogglePanel ==
  /\ DtClick(<<"panel", "toggle">>)
  /\ dtPanel' = [dtPanel EXCEPT !.open = ~@]
  /\ UNCHANGED <<dtOrder, dtActive, dtRail, dtGit, dtBusy, dtFiles, dtFile, dtToasts, dtCalls, dtMissed>>

(* ensure_surface_terminal makes a terminal only when none is shown, so the  *)
(* thread that opened the first has the only one.                            *)
DtWithTerminal(panel) ==
  IF panel.term # Nobody THEN panel
  ELSE IF dtActive = Nobody THEN [panel EXCEPT !.term = "home"]
  ELSE [panel EXCEPT !.term = dtActive, !.terms = @ \cup {dtActive}]

DtWithTab(panel, tab) ==
  LET tabs == IF dtActive = Nobody THEN panel.tabs
              ELSE [x \in DOMAIN panel.tabs \cup {dtActive} |-> IF x = dtActive THEN tab ELSE panel.tabs[x]]
      shown == [panel EXCEPT !.tab = tab, !.tabs = tabs]
  IN IF tab = "terminal" THEN DtWithTerminal(shown) ELSE shown

(* set_surface_tab, from the panel, or from the palette, which opens it too. *)
DtShowTab(panel, tab) ==
  /\ DtSend(IF tab = "files" THEN DtListOf(dtActive) ELSE << >>)
  /\ dtPanel' = DtWithTab(panel, tab)
  /\ UNCHANGED <<dtOrder, dtActive, dtRail, dtGit, dtBusy, dtFiles, dtFile, dtToasts, dtMissed>>

DtSetTab == \E tab \in DtTabs \cup {"none"} : DtClick(<<"tab", tab>>) /\ DtShowTab(dtPanel, tab)

DtOpenTab == \E tab \in DtTabs : DtClick(<<"opentab", tab>>) /\ DtShowTab([dtPanel EXCEPT !.open = TRUE], tab)

(* select_surface_file reads the path under the active thread's root, which  *)
(* need not be the root of the list it was clicked in.                       *)
DtSelectFile ==
  \E p \in DtPaths :
    /\ DtClick(<<"file", <<dtFiles, p>>>>)
    /\ dtFile' = [dtFile EXCEPT !.path = <<dtActive, p>>]
    /\ DtSend(<<DtCall("read", dtActive, <<dtActive, p>>)>>)
    /\ UNCHANGED <<dtOrder, dtActive, dtRail, dtPanel, dtGit, dtBusy, dtFiles, dtToasts, dtMissed>>

DtGitRefresh ==
  /\ DtClick(<<"git", "status">>)
  /\ DtSend(DtStatusOf(dtActive))
  /\ UNCHANGED <<dtOrder, dtActive, dtRail, dtPanel, dtGit, dtBusy, dtFiles, dtFile, dtToasts, dtMissed>>

(* commit_git, push_git, create_pr_git.                                      *)
DtGitAction ==
  /\ DtClick(<<"git", "action">>)
  /\ IF dtActive = Nobody THEN UNCHANGED <<dtBusy, dtCalls>>
     ELSE dtBusy' = TRUE /\ DtSend(<<DtCall("action", dtActive, NoFilePath)>>)
  /\ UNCHANGED <<dtOrder, dtActive, dtRail, dtPanel, dtGit, dtFiles, dtFile, dtToasts, dtMissed>>

DtDismiss ==
  /\ DtClick(<<"toast", "dismiss">>)
  /\ dtToasts' = dtToasts - 1
  /\ UNCHANGED <<dtOrder, dtActive, dtRail, dtPanel, dtGit, dtBusy, dtFiles, dtFile, dtCalls, dtMissed>>

-----------------------------------------------------------------------------
(* Answers and events. *)

DtFirst == Head(dtCalls)
DtAnswered(kinds) ==
  /\ dtCalls # << >> /\ DtFirst.kind \in kinds
  /\ UNCHANGED <<dtRail, dtPalette, dtToasts, dtClicks>>

(* add_thread: the first thread becomes the active one; nothing is fetched.  *)
DtCreated ==
  /\ DtAnswered({"create"})
  /\ \E t \in DtThreads \ ToSet(dtOrder) :
       /\ dtOrder' = Append(dtOrder, t)
       /\ dtActive' = IF dtActive = Nobody THEN t ELSE dtActive
  /\ dtCalls' = Tail(dtCalls)
  /\ UNCHANGED <<dtPanel, dtGit, dtBusy, dtFiles, dtFile, dtMissed>>

DtGotStatus ==
  /\ DtAnswered({"status"})
  /\ dtGit' = DtFirst.thread
  /\ dtMissed' = dtMissed \ {"status"}
  /\ dtCalls' = Tail(dtCalls)
  /\ UNCHANGED <<dtOrder, dtActive, dtPanel, dtBusy, dtFiles, dtFile>>

(* A failed listing or read falls back on the disk of this machine.          *)
DtGotFiles ==
  /\ DtAnswered({"list"})
  /\ dtFiles' = DtFirst.thread
  /\ dtMissed' = dtMissed \ {"list"}
  /\ dtCalls' = Tail(dtCalls)
  /\ UNCHANGED <<dtOrder, dtActive, dtPanel, dtGit, dtBusy, dtFile>>

DtGotFile ==
  /\ DtAnswered({"read"})
  /\ dtFile' = [dtFile EXCEPT !.shows = DtFirst.path]
  /\ dtMissed' = dtMissed \ {"read"}
  /\ dtCalls' = Tail(dtCalls)
  /\ UNCHANGED <<dtOrder, dtActive, dtPanel, dtGit, dtBusy, dtFiles>>

(* A git action that worked asks for the status of whatever is active now.   *)
DtGitDone ==
  /\ DtAnswered({"action"})
  /\ dtBusy' = FALSE
  /\ dtCalls' \in {Tail(dtCalls), Tail(dtCalls) \o DtStatusOf(dtActive)}
  /\ UNCHANGED <<dtOrder, dtActive, dtPanel, dtGit, dtFiles, dtFile, dtMissed>>

DtToldBack ==
  /\ DtAnswered({"tell"})
  /\ dtCalls' = Tail(dtCalls)
  /\ UNCHANGED <<dtOrder, dtActive, dtPanel, dtGit, dtBusy, dtFiles, dtFile, dtMissed>>

(* An error, or no answer at all: the window stays as it is.  The flag of a  *)
(* git action whose answer is lost stays up.                                 *)
DtFails ==
  /\ DtAnswered({"create", "status", "list", "read", "action"})
  /\ dtMissed' = dtMissed \cup {DtFirst.kind}
  /\ dtCalls' = Tail(dtCalls)
  /\ UNCHANGED <<dtOrder, dtActive, dtPanel, dtGit, dtBusy, dtFiles, dtFile>>

(* handle_event_envelope: the end of a turn, an approval or an error, of any *)
(* thread, makes a toast.                                                    *)
DtEvent ==
  /\ dtClicks < DtMaxClicks /\ dtClicks' = dtClicks + 1
  /\ dtToasts' = DtAddToast(dtToasts)
  /\ UNCHANGED <<dtOrder, dtActive, dtRail, dtPalette, dtPanel, dtGit, dtBusy, dtFiles, dtFile, dtCalls, dtMissed>>

DtNext ==
  \/ DtSelectRail \/ DtTogglePalette \/ DtCreate \/ DtSelectThread \/ DtTell
  \/ DtTogglePanel \/ DtSetTab \/ DtOpenTab \/ DtSelectFile
  \/ DtGitRefresh \/ DtGitAction \/ DtDismiss
  \/ DtCreated \/ DtGotStatus \/ DtGotFiles \/ DtGotFile \/ DtGitDone \/ DtToldBack \/ DtFails
  \/ DtEvent

DtSpec == DtInit /\ [][DtNext]_dtVars

-----------------------------------------------------------------------------
DtUnderWay(kind) == {n \in DOMAIN dtCalls : dtCalls[n].kind = kind}
\* Where the last of them is, if there is one.
DtNewest(kind) == {n \in DtUnderWay(kind) : \A m \in DtUnderWay(kind) : m <= n}

(* However selections, answers and git actions cross, the git bar, the list  *)
(* of files and the preview come to show what was selected last: the last    *)
(* call under way is about it, and with none under way it is shown, unless   *)
(* that call was missed.  The open tab is the one the thread was left with.  *)
DtShowsActive ==
  /\ \A kind \in {"status", "list"} :
       /\ \A n \in DtNewest(kind) : dtCalls[n].thread = dtActive
       /\ DtUnderWay(kind) = {} =>
            (IF kind = "status" THEN dtGit ELSE dtFiles) \in {Nobody, dtActive} \/ kind \in dtMissed
  /\ \A n \in DtNewest("read") : dtCalls[n].path = dtFile.path
  /\ DtUnderWay("read") = {} => dtFile.shows = dtFile.path \/ "read" \in dtMissed
  /\ dtActive \in DOMAIN dtPanel.tabs => dtPanel.tab = dtPanel.tabs[dtActive]
=============================================================================
