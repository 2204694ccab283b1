------------------------------- MODULE Timeline -------------------------------
(* The transcript in the desktop's window (pandamux-desktop/src/timeline.rs   *)
(* and its callers in app_view.rs): one scroll position and one selection for *)
(* whichever thread is shown, of whose items only those near the position are *)
(* drawn.  What the items are is the module ClientView's; here a thread's     *)
(* items grow and change as its events come, and an approval waits for the    *)
(* answer a click on its card sends.                                          *)
(*                                                                            *)
(* Nothing in the window scrolls or folds: on_scroll, toggle_subagent_fold    *)
(* and copy_selected_timeline are never called, so the transcript always      *)
(* follows its end.  Drawing is what the cards say and offer, not how.        *)
EXTENDS Naturals, SequencesExt, FiniteSets, FiniteSetsExt, Functions

CONSTANTS
  TlThreads,     \* threads of the window
  TlKinds,       \* kinds of items that come
  TlItemHeight,  \* estimated_item_height (72 in the code)
  TlViewport,    \* viewport_height (600)
  TlOverscan,    \* items drawn beyond the viewport (6)
  TlMaxItems,    \* bound: items of all threads
  TlMaxAsked     \* bound: answers on their way

ASSUME TlAssumption ==
  /\ TlItemHeight \in Nat \ {0}
  /\ {TlViewport, TlOverscan, TlMaxItems, TlMaxAsked} \subseteq Nat

VARIABLES
  tlItems,     \* the items of each thread's projection
  tlShown,     \* the thread shown
  tlScroll,    \* scroll_offset
  tlCounted,   \* the thread whose items were counted for it last
  tlSelected,  \* the items clicked on, by their place: selection
  tlAsked      \* answers on their way to the server: thread, place, decision

tlVars == <<tlItems, tlShown, tlScroll, tlCounted, tlSelected, tlAsked>>

Undecided == "none"
TlDecisions == {"Approved", "Denied", "TimedOut"}
TlItem(kind) ==
  [kind |-> kind, decision |-> Undecided,
   steps |-> IF kind = "plan" THEN <<"Pending">> ELSE << >>, status |-> "Running",
   about |-> "destructive"]

TlInit ==
  /\ tlItems = [t \in TlThreads |-> << >>]
  /\ tlShown \in TlThreads
  /\ tlScroll = 0 /\ tlCounted = tlShown /\ tlSelected = {} /\ tlAsked = {}

-----------------------------------------------------------------------------
(* Which items are drawn. *)

Least(a, b) == IF a < b THEN a ELSE b
Less(a, b) == IF a > b THEN a - b ELSE 0
Ceiling(a, b) == (a + b - 1) \div b

(* The children of a folded sub-agent would be passed over; since nothing    *)
(* calls toggle_subagent_fold, every item is there, with its place.          *)
VisibleItems(items) == [i \in DOMAIN items |-> <<i, items[i]>>]

(* Places from + 1 to upto, and the heights that stand for the others.       *)
VisibleRange(scroll, total) ==
  LET first == scroll \div TlItemHeight
      upto  == Least(first + Ceiling(TlViewport, TlItemHeight) + 1 + TlOverscan, total)
      from  == Least(Less(first, TlOverscan), total)
  IN IF total = 0 THEN [from |-> 0, upto |-> 0]
     ELSE [from |-> from, upto |-> IF upto < from THEN from ELSE upto]

TopSpacer(scroll, total) == VisibleRange(scroll, total).from * TlItemHeight
BottomSpacer(scroll, total) == (total - VisibleRange(scroll, total).upto) * TlItemHeight

JumpToBottom(total) == Less(total * TlItemHeight, TlViewport)

-----------------------------------------------------------------------------
(* What a card says and offers. *)

(* What somebody is asked about; a command that may destroy has a warning.   *)
ApprovalPreview(about) ==
  CASE about = "destructive" -> <<"warning", "command">>
    [] about = "command"     -> <<"command">>
    [] about = "edit"        -> <<"path", "diff">>
    [] about = "network"     -> <<"target">>
    [] about = "tool"        -> <<"payload">>
    [] about = "escalation"  -> <<"warning">>

(* Buttons as long as nobody decided, also when the turn is over.            *)
ApprovalOffers(item) == IF item.decision = Undecided THEN {"Approved", "Denied"} ELSE {}
ApprovalCard(item) ==
  [badge |-> item.decision, preview |-> ApprovalPreview(item.about), offers |-> ApprovalOffers(item)]

PlanCard(item) ==
  LET With(status) == Cardinality({i \in DOMAIN item.steps : item.steps[i] = status})
      total == Len(item.steps)
  IN [badge |-> IF With("Failed") > 0 THEN "failed" ELSE IF With("Completed") = total /\ total > 0 THEN "done" ELSE "going",
      percent |-> IF total = 0 THEN 0 ELSE (With("Completed") * 100) \div total, offers |-> {}]

(* A sub-agent's badge has the colour of success whatever its outcome was.   *)
SubAgentCard(item) == [badge |-> IF item.status = "Running" THEN "running" ELSE "green", offers |-> {}]

(* An entry of a work log is shown with its own state below the log's.       *)
WorkLogEntry(entry) == IF entry \in {"tool", "command"} THEN <<entry, "state">> ELSE <<entry>>
WorkLogCard(item) ==
  [badge |-> item.status, offers |-> {}, entries |-> {WorkLogEntry(e) : e \in {"thought", "tool", "command", "file"}}]

ToolCallCard(item) == [badge |-> item.status, offers |-> {}]
CommandCard(item) == [badge |-> IF item.status = "Running" THEN "" ELSE item.status, offers |-> {}]
MessageCard(item) == [badge |-> item.kind, offers |-> {}]
FilesCard(item) == [badge |-> "files", offers |-> {}]
TextCard == [badge |-> "", offers |-> {}]

Card(item) ==
  CASE item.kind = "approval"           -> ApprovalCard(item)
    [] item.kind = "plan"               -> PlanCard(item)
    [] item.kind \in {"agent", "child"}  -> SubAgentCard(item)
    [] item.kind = "log"                -> WorkLogCard(item)
    [] item.kind = "tool"               -> ToolCallCard(item)
    [] item.kind = "command"            -> CommandCard(item)
    [] item.kind \in {"notice", "error"} -> MessageCard(item)
    [] item.kind = "files"              -> FilesCard(item)
    [] item.kind \in {"prompt", "text", "thought"} -> TextCard

(* render_virtualized_timeline: a card with the place it has in the thread.  *)
TlDrawn ==
  LET items == VisibleItems(tlItems[tlShown])
      range == VisibleRange(tlScroll, Len(items))
  IN [k \in 1..(range.upto - range.from) |->
        LET v == items[range.from + k]
        IN [place |-> v[1], card |-> Card(v[2]), marked |-> v[1] \in tlSelected]]

-----------------------------------------------------------------------------
(* Events of a thread, shown or not: handle_event_envelope applies the event *)
(* and then tells the timeline how many items that thread has.               *)
TlCount(t) ==
  /\ tlScroll' = JumpToBottom(Len(tlItems'[t]))
  /\ tlCounted' = t
  /\ UNCHANGED <<tlShown, tlSelected>>

TlTotal == FoldFunction(LAMBDA items, n : n + Len(items), 0, tlItems)

TlNewItem ==
  \E t \in TlThreads, kind \in TlKinds :
    /\ TlTotal < TlMaxItems
    /\ tlItems' = [tlItems EXCEPT ![t] = Append(@, TlItem(kind))]
    /\ TlCount(t)
    /\ UNCHANGED tlAsked

(* The last item grows: another delta, another entry, the next step.         *)
Grown(item) ==
  CASE item.kind = "plan" ->
         {[item EXCEPT !.steps[i] = s] : i \in {j \in DOMAIN item.steps : item.steps[j] = "Pending"},
                                        s \in {"Completed", "Failed"}}
    [] item.kind = "approval" -> {}
    [] OTHER -> {[item EXCEPT !.status = "Completed"]}

TlLastGrows ==
  \E t \in TlThreads :
    /\ tlItems[t] # << >>
    /\ \E item \in Grown(Last(tlItems[t])) : tlItems' = [tlItems EXCEPT ![t] = Front(@) \o <<item>>]
    /\ TlCount(t)
    /\ UNCHANGED tlAsked

(* An approval is decided: by an answer that came, or by its time.           *)
TlDecided ==
  \E t \in TlThreads, d \in TlDecisions : \E i \in DOMAIN tlItems[t] :
    /\ tlItems[t][i].kind = "approval" /\ tlItems[t][i].decision = Undecided
    /\ d # "TimedOut" => <<t, i, d>> \in tlAsked
    /\ tlItems' = [tlItems EXCEPT ![t][i].decision = d]
    /\ tlAsked' = {a \in tlAsked : a[1] # t \/ a[2] # i}
    /\ TlCount(t)

-----------------------------------------------------------------------------
(* Clicks. *)

\* Mutant of TlSelectThread: the thread is shown where the old one was.
TlSelectThreadUnmoved ==
  \E t \in TlThreads :
    /\ tlShown' = t /\ tlCounted' = t
    /\ UNCHANGED <<tlItems, tlScroll, tlSelected, tlAsked>>

(* The selection stays, and marks items of the thread shown now.             *)
TlSelectThread ==
  \E t \in TlThreads :
    /\ tlShown' = t
    /\ tlScroll' = JumpToBottom(Len(tlItems[t])) /\ tlCounted' = t
    /\ UNCHANGED <<tlItems, tlSelected, tlAsked>>

TlSelectItem ==
  \E c \in ToSet(TlDrawn) :
    /\ tlSelected' = {c.place}
    /\ UNCHANGED <<tlItems, tlShown, tlScroll, tlCounted, tlAsked>>

(* Both buttons stay until the decision comes back, so that a second click   *)
(* sends a second answer; whether it also reaches the card is the toolkit's. *)
TlAnswer ==
  \E c \in ToSet(TlDrawn) : \E d \in c.card.offers :
    /\ Cardinality(tlAsked) < TlMaxAsked
    /\ tlAsked' = tlAsked \cup {<<tlShown, c.place, d>>}
    /\ tlSelected' \in {tlSelected, {c.place}}
    /\ UNCHANGED <<tlItems, tlShown, tlScroll, tlCounted>>

TlNext ==
  \/ TlNewItem \/ TlLastGrows \/ TlDecided
  \/ TlSelectThread \/ TlSelectItem \/ TlAnswer

TlSpec == TlInit /\ [][TlNext]_tlVars

-----------------------------------------------------------------------------
(* While no other thread's event moved the position since the shown one was  *)
(* selected or had an event of its own, every item that fits above the end   *)
(* of the transcript is drawn, in its place, and an approval nobody decided  *)
(* can be answered there.  What is drawn and the spacers always make up the  *)
(* whole height.                                                             *)
TlInReach ==
  LET total  == Len(tlItems[tlShown])
      drawn  == TlDrawn
      fitting == Less(total, TlViewport \div TlItemHeight) + 1 .. total
  IN /\ TopSpacer(tlScroll, total) + Len(drawn) * TlItemHeight + BottomSpacer(tlScroll, total)
          = total * TlItemHeight
     /\ tlCounted = tlShown =>
          \A i \in fitting : \E c \in ToSet(drawn) :
            /\ c.place = i
            /\ (tlItems[tlShown][i].kind = "approval" /\ tlItems[tlShown][i].decision = Undecided)
                 => c.card.offers # {}
=============================================================================
