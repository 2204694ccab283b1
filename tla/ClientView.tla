----------------------------- MODULE ClientView -----------------------------
(* ThreadProjection (pandamux-client/src/projections.rs): what a client shows *)
(* of a thread, accumulated from the envelopes it receives, here those of a  *)
(* remote node that the hub relays (pandamux-server/src/environment_router). *)
(* The node publishes the events of a thread in the order its ThreadManager  *)
(* does; its calls come at any time, and each is one step here: what happens *)
(* between the steps of two of them is in ThreadLifecycle.                   *)
(*                                                                           *)
(* An event is its kind, the item, request, agent or turn it is about, and a *)
(* value where the reducer looks at one.  Left out: timestamps, durations,   *)
(* summaries, token counts, the path parsing of changed files.               *)
EXTENDS Naturals, SequencesExt

CONSTANTS
  CvItems,      \* item ids a provider uses
  CvAgents,     \* sub-agent ids
  CvMaxEvents,  \* bound: events published
  CvMaxRelays,  \* bound: registrations of the node
  CvChannel     \* capacity of a transport's broadcast channel

ASSUME CvAssumption == CvMaxEvents \in Nat /\ CvMaxRelays \in Nat /\ CvChannel \in Nat

VARIABLES
  cvServer,  \* the node's thread: status, its turns' statuses, the turn whose task
             \* streams and its phase, the agents, whether the provider is gone;
             \* and, for the properties, what no event told: turns, 0 the status
  cvLog,     \* the events published
  cvRelays,  \* one per registration: places in cvLog to relay, still fed, not lagged
  cvView     \* the projection: status, turns, items, agents

cvVars == <<cvServer, cvLog, cvRelays, cvView>>

NoOne == "none"
CvEvent(kind, id, val) == [kind |-> kind, id |-> id, val |-> val]

-----------------------------------------------------------------------------
(* The reducer. *)

(* Where the items, or events, of a kind and id are; 0 stands for nowhere.   *)
OfKind(items, kind, id) == {i \in DOMAIN items : items[i].kind = kind /\ items[i].id = id}
LastOfKind(items, kind, id) == Max({0} \cup OfKind(items, kind, id))
FirstOfKind(items, kind, id) ==
  IF OfKind(items, kind, id) = {} THEN 0 ELSE Min(OfKind(items, kind, id))
WithState(items, i, st) == IF i = 0 THEN items ELSE [items EXCEPT ![i].st = st]
CvItem(kind, id, st, text) == [kind |-> kind, id |-> id, st |-> st, text |-> text]

(* A delta joins the last item when that has its kind and id, else it starts *)
(* an item.                                                                  *)
AddDelta(items, e, n) ==
  IF items # << >> /\ Last(items).kind = e.kind /\ Last(items).id = e.id
    THEN [items EXCEPT ![Len(items)].text = Append(@, n)]
    ELSE Append(items, CvItem(e.kind, e.id, NoOne, <<n>>))

(* n is the event's place in the log.                                        *)
ItemsAfter(items, e, n) ==
  CASE e.kind \in {"text", "reasoning"} -> AddDelta(items, e, n)
    [] e.kind = "tool" ->
         LET i == FirstOfKind(items, "tool", e.id)
         IN IF i = 0 THEN Append(items, CvItem("tool", e.id, e.val, << >>))
            ELSE WithState(items, i, e.val)
    [] e.kind = "resolved" -> WithState(items, FirstOfKind(items, "ask", e.id), e.val)
    [] e.kind = "finished" -> WithState(items, LastOfKind(items, "spawned", e.id), "finished")
    [] e.kind = "activity" ->
         LET i == LastOfKind(items, "spawned", e.id)
         IN IF i = 0 THEN items ELSE [items EXCEPT ![i].text = <<n>>]
    [] e.kind \in {"prompt", "ask", "command", "error", "spawned"} ->
         Append(items, CvItem(e.kind, e.id, NoOne, << >>))
    [] e.kind = "settled" /\ e.val = "changed" ->
         Append(items, CvItem(e.kind, e.id, NoOne, << >>))
    [] OTHER -> items

\* Mutant of StatusAfter: an error outlives its turn.
StatusAfterKeepingErrors(status, e) ==
  CASE e.kind \in {"prompt", "resolved"} -> "Working"
    [] e.kind = "ask" -> "AwaitingApproval"
    [] e.kind = "error" /\ e.val = "fatal" -> "Errored"
    [] e.kind = "settled" /\ status # "Errored" -> "Idle"
    [] OTHER -> status

StatusAfter(status, e) ==
  CASE e.kind \in {"prompt", "resolved"} -> "Working"
    [] e.kind = "ask" -> "AwaitingApproval"
    [] e.kind = "error" /\ e.val = "fatal" -> "Errored"
    [] e.kind = "settled" -> "Idle"
    [] OTHER -> status

(* TurnRequested and TurnStarted, which the node publishes one after the     *)
(* other, are one event.  TurnCompleted closes the last turn, whichever turn *)
(* it is about.                                                              *)
TurnsAfter(turns, e) ==
  CASE e.kind = "prompt" -> Append(turns, [id |-> e.id, st |-> "Running"])
    [] e.kind = "completed" -> WithState(turns, Len(turns), e.val)
    [] OTHER -> turns

(* An agent that is not known is left unknown.                               *)
Unknown == [parent |-> NoOne, st |-> NoOne, activity |-> << >>]
AgentsAfter(agents, e, n) ==
  CASE e.kind = "spawned" -> [agents EXCEPT ![e.id] = [parent |-> e.val, st |-> "running", activity |-> << >>]]
    [] e.kind = "activity" /\ agents[e.id] # Unknown -> [agents EXCEPT ![e.id].activity = <<n>>]
    [] e.kind = "finished" /\ agents[e.id] # Unknown -> [agents EXCEPT ![e.id].st = "finished"]
    [] OTHER -> agents

ApplyEvent(view, e, n) ==
  [status |-> StatusAfter(view.status, e), turns |-> TurnsAfter(view.turns, e),
   items |-> ItemsAfter(view.items, e, n), agents |-> AgentsAfter(view.agents, e, n)]

WorkKinds == {"reasoning", "tool", "command"}

(* grouped_items: a run of work is folded into one entry.  A group is the    *)
(* range of the items it holds.                                              *)
Grouped(items) ==
  LET groups[n \in 0..Len(items)] ==
        IF n = 0 THEN << >>
        ELSE IF items[n].kind \in WorkKinds /\ groups[n - 1] # << >> /\ Last(groups[n - 1]).log
        THEN [groups[n - 1] EXCEPT ![Len(groups[n - 1])] = [log |-> TRUE, from |-> @.from, to |-> n]]
        ELSE Append(groups[n - 1], [log |-> items[n].kind \in WorkKinds, from |-> n, to |-> n])
  IN groups[Len(items)]

(* subagent_tree: from the agents without a parent down, the least set with  *)
(* the children of its own.                                                  *)
Children(agents, ps) ==
  {a \in CvAgents : agents[a].st # NoOne /\ agents[a].parent \in ps}
\* Mutant of InTree: one level of children below the roots is missing.
InTreeRoots(agents) == Children(agents, {NoOne})

InTree(agents) ==
  {a \in CvAgents : \A found \in SUBSET CvAgents :
                      Children(agents, found \cup {NoOne}) \subseteq found => a \in found}

(* handle_subagent_tree of the node's router: the agents by the events it    *)
(* stored, for a client that asks instead of following them.                 *)
NodeAgents(events) ==
  [a \in CvAgents |->
     LET spawned == LastOfKind(events, "spawned", a)
         did == LastOfKind(events, "activity", a)
     IN IF spawned = 0 THEN Unknown
        ELSE [parent |-> events[spawned].val,
              st |-> IF LastOfKind(events, "finished", a) > spawned THEN "finished" ELSE "running",
              activity |-> IF did > spawned THEN <<did>> ELSE << >>]]

-----------------------------------------------------------------------------
CvInit ==
  /\ cvServer = [status |-> "Idle", turns |-> << >>, stream |-> 0, phase |-> "none",
                 spawned |-> {}, gone |-> FALSE, untold |-> {}]
  /\ cvLog = << >> /\ cvRelays = << >>
  /\ cvView = [status |-> "Idle", turns |-> << >>, items |-> << >>,
               agents |-> [a \in CvAgents |-> Unknown]]

(* An event goes to every relay whose transport is still there.              *)
Publish(event, server) ==
  /\ Len(cvLog) < CvMaxEvents
  /\ cvLog' = Append(cvLog, event)
  /\ cvServer' = server
  /\ cvRelays' = [r \in DOMAIN cvRelays |->
                    IF cvRelays[r].open
                      THEN [cvRelays[r] EXCEPT !.todo = Append(@, Len(cvLog) + 1)]
                      ELSE cvRelays[r]]
  /\ UNCHANGED cvView

(* send_turn refuses a thread at work.  The new turn's task has the receiver, *)
(* if no task of an earlier turn holds it; it has none either when the       *)
(* provider's session does not take the prompt, or is gone.                  *)
CvSendTurn ==
  /\ cvServer.status \notin {"Working", "AwaitingApproval"}
  /\ LET t == Len(cvServer.turns) + 1
         sent == [cvServer EXCEPT !.status = "Working", !.turns = Append(@, "Running"), !.untold = @ \ {0}]
     IN \E server \in {sent, [sent EXCEPT !.stream = t, !.phase = "running"]} :
          /\ server.stream = t => cvServer.phase = "none" /\ ~cvServer.gone
          /\ Publish(CvEvent("prompt", t, NoOne), server)

(* What a provider reports in the middle of a turn.  An error is shown as a   *)
(* status of the thread, and the node does not store that.                   *)
CvReport ==
  /\ cvServer.phase = "running"
  /\ \/ \E i \in CvItems :
          \/ Publish(CvEvent("text", i, NoOne), cvServer)
          \/ Publish(CvEvent("reasoning", i, NoOne), cvServer)
          \/ \E st \in {"Executing", "Completed"} : Publish(CvEvent("tool", i, st), cvServer)
     \/ Publish(CvEvent("error", 0, "fatal"), [cvServer EXCEPT !.untold = @ \cup {0}])
     \/ \E a \in CvAgents \ cvServer.spawned, p \in cvServer.spawned \cup {NoOne} :
          Publish(CvEvent("spawned", a, p), [cvServer EXCEPT !.spawned = @ \cup {a}])
     \/ \E a \in cvServer.spawned :
          \/ Publish(CvEvent("activity", a, NoOne), cvServer)
          \/ Publish(CvEvent("finished", a, NoOne), cvServer)

(* The request is named by the place of its event.  The turn is active        *)
(* again, also when it had been interrupted.                                 *)
CvAsk ==
  /\ cvServer.phase = "running"
  /\ Publish(CvEvent("ask", Len(cvLog) + 1, NoOne),
             [cvServer EXCEPT !.status = "AwaitingApproval", !.turns[cvServer.stream] = "Running",
                              !.untold = @ \ {0}])

(* A request may be answered at any time, and more than once.                *)
CvResolve ==
  \E r \in {n \in DOMAIN cvLog : cvLog[n].kind = "ask"}, d \in {"Approved", "Denied"} :
    Publish(CvEvent("resolved", r, d), [cvServer EXCEPT !.status = "Working", !.untold = @ \ {0}])

(* The provider ends the turn the task is of: its row is closed, and the view *)
(* closes its last turn.  Until the turn settles the view keeps its status.  *)
CvComplete ==
  /\ cvServer.phase = "running"
  /\ \E outcome \in {"Completed", "Interrupted"} :
       LET t == cvServer.stream
           last == Len(cvServer.turns)
       IN Publish(CvEvent("completed", 0, outcome),
                  [cvServer EXCEPT
                     !.status = "Idle", !.phase = "completed", !.turns[t] = outcome,
                     !.untold = {0} \cup IF t = last THEN @ \ {t} ELSE @ \cup {t, last}])

(* Settling shows the thread idle and leaves the node's row as it is.        *)
CvSettle ==
  /\ cvServer.phase = "completed"
  /\ \E changed \in {"changed", NoOne} :
       Publish(CvEvent("settled", cvServer.stream, changed),
               [cvServer EXCEPT
                  !.stream = 0, !.phase = "none",
                  !.untold = IF cvServer.status = "Idle" THEN @ \ {0} ELSE @ \cup {0}])

(* interrupt_turn makes the thread idle and its active turns interrupted, and *)
(* publishes nothing; the task goes on with what the provider still reports. *)
CvInterrupt ==
  /\ cvServer' = [cvServer EXCEPT
                    !.status = "Idle",
                    !.turns = [t \in DOMAIN @ |-> IF @[t] = "Running" THEN "Interrupted" ELSE @[t]],
                    !.untold = @ \cup {t \in DOMAIN cvServer.turns : cvServer.turns[t] = "Running"}
                                 \cup {t \in {0} : cvServer.status # "Idle"}]
  /\ UNCHANGED <<cvLog, cvRelays, cvView>>

(* The end of the provider ends the task, which then tells and stores        *)
(* nothing; the session stays and no later turn is streamed.                 *)
CvProviderDies ==
  /\ cvServer.turns # << >> /\ ~cvServer.gone
  /\ cvServer' = IF cvServer.phase = "running"
                   THEN [cvServer EXCEPT !.gone = TRUE, !.stream = 0, !.phase = "none"]
                   ELSE [cvServer EXCEPT !.gone = TRUE]
  /\ UNCHANGED <<cvLog, cvRelays, cvView>>

-----------------------------------------------------------------------------
(* The hub. *)

(* register_transport: a relay of its own each time.  With a new transport   *)
(* the old one is dropped and its relay ends when it has relayed what it     *)
(* has; with the same one both go on.                                        *)
CvRegister ==
  /\ Len(cvRelays) < CvMaxRelays
  /\ \E same \in BOOLEAN :
       cvRelays' = Append([r \in DOMAIN cvRelays |->
                             [cvRelays[r] EXCEPT !.open = @ /\ same]],
                          [todo |-> << >>, open |-> TRUE, up |-> TRUE, from |-> Len(cvLog)])
  /\ UNCHANGED <<cvServer, cvLog, cvView>>

(* A relay that fell behind the channel's capacity is told it lagged, which  *)
(* ends its loop.                                                            *)
CvRelayLags(r) ==
  /\ cvRelays[r].up /\ Len(cvRelays[r].todo) > CvChannel
  /\ cvRelays' = [cvRelays EXCEPT ![r] = [todo |-> << >>, open |-> FALSE, up |-> FALSE, from |-> @.from]]
  /\ UNCHANGED <<cvServer, cvLog, cvView>>

(* What a relay sends on the hub's bus the client applies, in that order.    *)
CvRelay(r) ==
  /\ cvRelays[r].todo # << >> /\ Len(cvRelays[r].todo) <= CvChannel
  /\ LET n == Head(cvRelays[r].todo)
     IN cvView' = ApplyEvent(cvView, cvLog[n], n)
  /\ cvRelays' = [cvRelays EXCEPT ![r].todo = Tail(@)]
  /\ UNCHANGED <<cvServer, cvLog>>

CvRelayStep(r) == CvRelayLags(r) \/ CvRelay(r)

CvNext ==
  \/ CvSendTurn \/ CvReport \/ CvAsk \/ CvResolve \/ CvComplete \/ CvSettle
  \/ CvInterrupt \/ CvProviderDies
  \/ CvRegister
  \/ \E r \in DOMAIN cvRelays : CvRelayStep(r)

CvSpec == CvInit /\ [][CvNext]_cvVars

-----------------------------------------------------------------------------
(* What the view promises. *)

(* One relay since before the first event, never behind: no event lost,      *)
(* doubled or out of order.                                                  *)
CvUnbroken == Len(cvRelays) = 1 /\ cvRelays[1].up /\ cvRelays[1].from = 0
CvApplied == SubSeq(cvLog, 1, Len(cvLog) - Len(cvRelays[1].todo))

(* The deltas of an item are shown once each and in the order they came in,  *)
(* also when other items come between them.                                  *)
CvTextInOrder ==
  \A i \in CvItems, kind \in {"text", "reasoning"} :
    LET came  == OfKind(CvApplied, kind, i)
        items == OfKind(cvView.items, kind, i)
        text  == [k \in items |-> cvView.items[k].text]
    IN /\ \A n \in came : \E k \in items : n \in ToSet(text[k])
       /\ \A k \in items : ToSet(text[k]) \subseteq came
       /\ \A k, m \in items : \A h \in DOMAIN text[k], j \in DOMAIN text[m] :
            k < m \/ (k = m /\ h < j) => text[k][h] < text[m][j]

(* A view over an unbroken stream differs from the node only in what no event *)
(* told.  It has the node's turns, each with the status the node stored, but *)
(* for a turn that was interrupted and has not completed since, and for one  *)
(* that was sent while an earlier one was still streaming, with the one      *)
(* before it.  And it has the node's status, whatever errors, requests and   *)
(* answers came before, but for an interrupt, an error or an end that no     *)
(* later event has settled.                                                  *)
CvSettledAgrees ==
  CvUnbroken /\ CvApplied = cvLog =>
    /\ 0 \notin cvServer.untold => cvView.status = cvServer.status
    /\ DOMAIN cvView.turns = DOMAIN cvServer.turns
    /\ \A t \in DOMAIN cvServer.turns \ cvServer.untold :
         cvView.turns[t] = [id |-> t, st |-> cvServer.turns[t]]

(* Nothing is missing from what a client shows.  Over an unbroken stream all  *)
(* text is shown in its order, and every agent that was spawned is in the     *)
(* tree, at whatever depth, is the agent the node tells of when it is asked,  *)
(* and is shown alike in the timeline; whatever the stream, grouping loses    *)
(* and reorders nothing, and two work logs never stand next to each other.    *)
CvShowsAll ==
  LET spawned == {cvLog[n].id : n \in {k \in DOMAIN CvApplied : cvLog[k].kind = "spawned"}}
      groups  == Grouped(cvView.items)
  IN /\ CvUnbroken =>
          /\ CvTextInOrder
          /\ InTree(cvView.agents) = spawned
          /\ cvView.agents = NodeAgents(CvApplied)
          /\ \A a \in spawned :
               LET shown == cvView.items[LastOfKind(cvView.items, "spawned", a)]
               IN /\ (cvView.agents[a].st = "finished") <=> (shown.st = "finished")
                  /\ cvView.agents[a].activity = shown.text
     /\ \A g \in DOMAIN groups :
          /\ groups[g].from = IF g = 1 THEN 1 ELSE groups[g - 1].to + 1
          /\ groups[g].from <= groups[g].to
          /\ \A i \in groups[g].from..groups[g].to : (cvView.items[i].kind \in WorkKinds) <=> groups[g].log
          /\ ~groups[g].log => groups[g].from = groups[g].to
          /\ g # 1 => ~(groups[g].log /\ groups[g - 1].log)
     /\ IF groups = << >> THEN cvView.items = << >> ELSE Last(groups).to = Len(cvView.items)
=============================================================================
