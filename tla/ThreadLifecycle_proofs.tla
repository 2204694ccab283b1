------------------------ MODULE ThreadLifecycle_proofs ------------------------
(***************************************************************************)
(* Proofs about ThreadLifecycle, for any number of calls, any capacity of  *)
(* the event channel and any number of crashes, deaths and faults.         *)
(***************************************************************************)
EXTENDS ThreadLifecycle, TLAPS

\* A non-empty events table has a latest seq, so SELECT MAX(seq) has a value.
HasLatest == Seqs # {} => \E n \in Seqs : \A m \in Seqs : m <= n

\* The map of sessions is locked by the call that starts a session, while there is none.
SessionLock ==
  /\ \A t \in Turns : pc[t] = "start" <=> lock = t
  /\ lock # None => sess = "none"

\* A task that handles an event has it at the head of the channel.
EventInHand ==
  \A t \in Turns :
    /\ task[t] \in {"ask_turn", "ask_append"} => chan # <<>> /\ Head(chan).kind = "asked"
    /\ task[t] \in {"done_turn", "done_thread", "done_append"} =>
         chan # <<>> /\ Head(chan).kind \in Outcomes

\* The inductive invariant: types need EventInHand (a row is written from the event),
\* which needs SingleReader (nobody else takes it), which needs SessionLock (a session
\* is not replaced while its receiver is out).
Inv == TypeOK /\ HasLatest /\ SessionLock /\ SingleReader /\ EventInHand

\* MaxSeq is the maximum of any set of seqs that has one, and 0 of none: what SELECT
\* COALESCE(MAX(seq), 0) returns to get_latest_seq.
LEMMA MaxSeqBounds ==
  ASSUME NEW S \in SUBSET Nat, S # {} => \E n \in S : \A m \in S : m <= n
  PROVE  /\ MaxSeq(S) \in Nat /\ \A m \in S : m <= MaxSeq(S)
         /\ S # {} => MaxSeq(S) \in S
<1>1. CASE S = {}
  BY <1>1 DEF MaxSeq
<1>2. CASE S # {}
  <2>1. MaxSeq(S) = CHOOSE n \in S : \A m \in S : m <= n
    BY <1>2 DEF MaxSeq
  <2>2. MaxSeq(S) \in S /\ \A m \in S : m <= MaxSeq(S)
    BY <1>2, <2>1
  <2> QED
    BY <2>2
<1> QED
  BY <1>1, <1>2

\* get_latest_seq returns a natural number, whatever has been stored.
LEMMA LatestIsNat == TypeOK /\ HasLatest => LatestSeq \in Nat
<1> SUFFICES ASSUME TypeOK, HasLatest PROVE LatestSeq \in Nat
  OBVIOUS
<1>1. Seqs \in SUBSET Nat
  BY DEF TypeOK, StoreTypes, Seqs, Event
<1> QED
  BY <1>1, MaxSeqBounds DEF HasLatest, LatestSeq

\* A fresh database and a server that has just come up satisfy the invariant.
LEMMA InitInv == Init => Inv
<1> SUFFICES ASSUME Init PROVE Inv
  OBVIOUS
<1> USE DEF Init
<1>1. StoreTypes
  BY DEF StoreTypes, ThreadStatus, TurnStatus
<1>2. SessTypes
  BY DEF SessTypes
<1>2a. ProvTypes
  <2>1. <<>> \in Seq(Turns) /\ <<>> \in Seq(ProviderEvent)
    OBVIOUS
  <2>2. asking \in BOOLEAN
    BY Zenon
  <2> QED
    BY <2>1, <2>2 DEF ProvTypes
<1>3. CallTypes
  BY DEF CallTypes, Ended, Calls, Actors
<1>4. TaskTypes
  BY DEF TaskTypes, TurnStatus
<1>5. CastTypes /\ UsedTypes
  BY DEF CastTypes, UsedTypes
<1>6. HasLatest
  BY DEF HasLatest, Seqs
<1>7. SessionLock /\ SingleReader
  BY CallsAssumption DEF SessionLock, SingleReader, Calls
<1>8. EventInHand
  BY DEF EventInHand
<1> QED
  BY <1>1, <1>2, <1>2a, <1>3, <1>4, <1>5, <1>6, <1>7, <1>8 DEF Inv, TypeOK

\* Types: the steps of send_turn.
LEMMA SendTypes == ASSUME Inv, NEW t \in Turns, SendTurn(t) PROVE TypeOK'
<1> USE DEF Inv, TypeOK, StoreTypes, SessTypes, ProvTypes, CallTypes, TaskTypes, CastTypes,
            UsedTypes, storeVars, sessVars, provVars, callVars, taskVars, castVars, usedVars,
            At, Go
<1>0. t \in Calls /\ t \in Actors
  BY DEF Calls, Actors
<1>1. CASE SendBegin(t)
  BY <1>0, <1>1 DEF SendBegin, Ended, Returned, CallSteps
<1>2. CASE SendReadSeq(t)
  <2>1. base' \in [Actors -> Nat]
    BY <1>0, <1>2, LatestIsNat DEF SendReadSeq
  <2>2. pc' \in [Calls -> Ended \cup CallSteps]
    BY <1>0, <1>2 DEF SendReadSeq, Ended, Returned, CallSteps
  <2> QED
    BY <1>2, <2>1, <2>2 DEF SendReadSeq
<1>3. CASE SendSaveTurn(t)
  BY <1>0, <1>3 DEF SendSaveTurn, TurnStatus, Active, CallSteps
<1>4. CASE SendSaveThread(t)
  BY <1>0, <1>4 DEF SendSaveThread, ThreadStatus, CallSteps
<1>5. CASE SendAppendRequested(t)
  <2>1. EventAt(base[t] + 1, "requested", t, t) \in Event
    BY <1>0 DEF EventAt, Event, EventKinds
  <2>2. log' \subseteq Event /\ outbox' \in [Actors -> Event \cup {NoEvent}]
    BY <1>0, <1>5, <2>1 DEF SendAppendRequested, AppendOrFail
  <2>3. pc' \in [Calls -> Ended \cup CallSteps]
    BY <1>0, <1>5 DEF SendAppendRequested, AppendOrFail, Ended, Returned, CallSteps
  <2> QED
    BY <1>5, <2>2, <2>3 DEF SendAppendRequested
<1>6. CASE SendAppendStarted(t)
  <2>1. EventAt(base[t] + 2, "started", t, t) \in Event
    BY <1>0 DEF EventAt, Event, EventKinds
  <2>2. log' \subseteq Event /\ outbox' \in [Actors -> Event \cup {NoEvent}]
    BY <1>0, <1>6, <2>1 DEF SendAppendStarted, AppendOrFail
  <2>3. pc' \in [Calls -> Ended \cup CallSteps]
    BY <1>0, <1>6 DEF SendAppendStarted, AppendOrFail, Ended, Returned, CallSteps
  <2> QED
    BY <1>6, <2>2, <2>3 DEF SendAppendStarted
<1>7. CASE SendLookup(t)
  BY <1>0, <1>7 DEF SendLookup, CallSteps
<1>8. CASE SendStartSession(t)
  BY <1>0, <1>8 DEF SendStartSession, Ended, Returned, CallSteps
<1>9. CASE SendPrompt(t)
  <2>1. Append(inbox, t) \in Seq(Turns)
    OBVIOUS
  <2> QED
    BY <1>0, <1>9, <2>1 DEF SendPrompt, Ended, Returned, CallSteps
<1>10. CASE SendTakeReceiver(t)
  <2>1. CallTypes' /\ StoreTypes' /\ ProvTypes' /\ CastTypes' /\ UsedTypes' /\ server' = server
    BY <1>0, <1>10 DEF SendTakeReceiver, Ended, Returned
  <2>2. CASE rx = "home"
    <3>1. rx' = t /\ lock' = lock /\ sess' = sess /\ copy' = copy
      BY <1>10, <2>2 DEF SendTakeReceiver
    <3>2. task' = [task EXCEPT ![t] = "recv"] /\ seq' = [seq EXCEPT ![t] = base[t] + 2]
      BY <1>10, <2>2 DEF SendTakeReceiver
    <3>3. base[t] + 2 \in Nat
      BY <1>0
    <3> QED
      BY <2>1, <3>1, <3>2, <3>3 DEF TaskSteps
  <2>3. CASE rx # "home"
    BY <1>10, <2>1, <2>3 DEF SendTakeReceiver
  <2> QED
    BY <2>2, <2>3
<1> QED
  BY <1>1, <1>2, <1>3, <1>4, <1>5, <1>6, <1>7, <1>8, <1>9, <1>10 DEF SendTurn

\* Types: a completion a provider reports unasked still is a provider event.
LEMMA EchoTypes == ProvTypes /\ Echo => chan' \in Seq(ProviderEvent)
<1> SUFFICES ASSUME ProvTypes, Echo PROVE chan' \in Seq(ProviderEvent)
  OBVIOUS
<1>1. CASE UNCHANGED chan
  BY <1>1 DEF ProvTypes
<1>2. ASSUME NEW o \in Outcomes, chan' = Append(chan, [kind |-> o, of |-> None])
      PROVE  chan' \in Seq(ProviderEvent)
  <2>1. [kind |-> o, of |-> None] \in ProviderEvent
    BY DEF ProviderEvent
  <2> QED
    BY <1>2, <2>1 DEF ProvTypes
<1> QED
  BY <1>1, <1>2 DEF Echo

\* Types: the steps of respond_approval.
LEMMA AnswerTypes == ASSUME Inv, NEW a \in Answers, RespondApproval(a) PROVE TypeOK'
<1> USE DEF Inv, TypeOK, StoreTypes, SessTypes, ProvTypes, CallTypes, TaskTypes, CastTypes,
            UsedTypes, storeVars, sessVars, provVars, callVars, taskVars, castVars, usedVars,
            At, Go
<1>0. a \in Calls /\ a \in Actors
  BY DEF Calls, Actors
<1>1. CASE AnswerBegin(a)
  BY <1>0, <1>1 DEF AnswerBegin, Ended, Returned, CallSteps
<1>2. CASE AnswerDeliver(a)
  <2>1. pc' \in [Calls -> Ended \cup CallSteps]
    BY <1>0, <1>2 DEF AnswerDeliver, Ended, Returned, CallSteps
  <2>2. chan' \in Seq(ProviderEvent) /\ asking' \in BOOLEAN
    BY <1>2, EchoTypes DEF AnswerDeliver
  <2> QED
    BY <1>2, <2>1, <2>2 DEF AnswerDeliver
<1>3. CASE AnswerReadSeq(a)
  <2>1. base' \in [Actors -> Nat]
    BY <1>0, <1>3, LatestIsNat DEF AnswerReadSeq
  <2>2. pc' \in [Calls -> Ended \cup CallSteps]
    BY <1>0, <1>3 DEF AnswerReadSeq, CallSteps
  <2> QED
    BY <1>3, <2>1, <2>2 DEF AnswerReadSeq
<1>4. CASE AnswerAppend(a)
  <2>1. EventAt(base[a] + 1, "resolved", None, None) \in Event
    BY <1>0 DEF EventAt, Event, EventKinds
  <2>2. log' \subseteq Event /\ outbox' \in [Actors -> Event \cup {NoEvent}]
    BY <1>0, <1>4, <2>1 DEF AnswerAppend, AppendOrFail
  <2>3. pc' \in [Calls -> Ended \cup CallSteps]
    BY <1>0, <1>4 DEF AnswerAppend, AppendOrFail, Ended, Returned, CallSteps
  <2> QED
    BY <1>4, <2>2, <2>3 DEF AnswerAppend
<1>5. CASE AnswerSaveThread(a)
  BY <1>0, <1>5 DEF AnswerSaveThread, ThreadStatus, Ended, Returned
<1> QED
  BY <1>1, <1>2, <1>3, <1>4, <1>5 DEF RespondApproval

\* Types: the steps of interrupt_turn; what it lists are turns.
LEMMA CancelTypes == ASSUME Inv, NEW c \in Cancels, InterruptTurn(c) PROVE TypeOK'
<1> USE DEF Inv, TypeOK, StoreTypes, SessTypes, ProvTypes, CallTypes, TaskTypes, CastTypes,
            UsedTypes, storeVars, sessVars, provVars, callVars, taskVars, castVars, usedVars,
            At, Go
<1>0. c \in Calls
  BY DEF Calls
<1>1. CASE CancelBegin(c)
  BY <1>0, <1>1 DEF CancelBegin, CallSteps
<1>2. CASE CancelDeliver(c)
  BY <1>0, <1>2, EchoTypes DEF CancelDeliver, CallSteps
<1>3. CASE CancelSaveThread(c)
  BY <1>0, <1>3 DEF CancelSaveThread, ThreadStatus, CallSteps
<1>4. CASE CancelListTurns(c)
  BY <1>0, <1>4 DEF CancelListTurns, CallSteps
<1>5. CASE CancelMarkTurn(c)
  <2>1. \A t \in Turns : [turn EXCEPT ![t] = "interrupted"] \in [Turns -> TurnStatus]
    BY DEF TurnStatus, Outcomes
  <2>2. \A t \in Turns : [snap EXCEPT ![c] = @ \ {t}] \in [Cancels -> SUBSET Turns]
    OBVIOUS
  <2>3. turn' \in [Turns -> TurnStatus] /\ snap' \in [Cancels -> SUBSET Turns]
    <3>1. CASE snap[c] = {}
      BY <1>5, <3>1 DEF CancelMarkTurn
    <3>2. CASE snap[c] # {}
      <4>1. PICK t \in snap[c] : /\ turn' = [turn EXCEPT ![t] = "interrupted"]
                                /\ snap' = [snap EXCEPT ![c] = @ \ {t}]
        BY <1>5, <3>2 DEF CancelMarkTurn
      <4>2. t \in Turns
        OBVIOUS
      <4> QED
        BY <2>1, <2>2, <4>1, <4>2
    <3> QED
      BY <3>1, <3>2
  <2>4. pc' \in [Calls -> Ended \cup CallSteps]
    BY <1>0, <1>5 DEF CancelMarkTurn, Ended, Returned
  <2>5. StoreTypes'
    BY <1>5, <2>3 DEF CancelMarkTurn
  <2>6. CallTypes'
    BY <1>5, <2>3, <2>4 DEF CancelMarkTurn
  <2>7. SessTypes' /\ ProvTypes' /\ TaskTypes' /\ CastTypes' /\ UsedTypes' /\ server' = server
    BY <1>5 DEF CancelMarkTurn
  <2> QED
    BY <2>5, <2>6, <2>7
<1> QED
  BY <1>1, <1>2, <1>3, <1>4, <1>5 DEF InterruptTurn

\* Types: the event a task records comes from the head of its channel.
LEMMA RecordTypes ==
  ASSUME Inv, NEW t \in Turns, NEW kind \in EventKinds, NEW next \in TaskSteps,
         chan # <<>>, Record(t, kind, next)
  PROVE  /\ seq' \in [Turns -> Nat] /\ task' \in [Turns -> {"off"} \cup TaskSteps]
         /\ log' \subseteq Event /\ outbox' \in [Actors -> Event \cup {NoEvent}]
         /\ chan' \in Seq(ProviderEvent)
<1> USE DEF Inv, TypeOK
<1>1. Head(chan) \in ProviderEvent /\ Tail(chan) \in Seq(ProviderEvent)
  BY DEF ProvTypes
<1>2. EventAt(seq[t] + 1, kind, t, Head(chan).of) \in Event
  BY <1>1 DEF TaskTypes, EventAt, Event, ProviderEvent
<1>3. t \in Actors
  BY DEF Actors
<1>4. log' \subseteq Event /\ outbox' \in [Actors -> Event \cup {NoEvent}]
  BY <1>2, <1>3 DEF Record, AppendAnyway, StoreTypes, CastTypes
<1> QED
  BY <1>1, <1>4 DEF Record, Move, TaskTypes

\* Types: the steps of the streaming task; the status it writes comes from the event in
\* hand, so it is an outcome and nothing else.
LEMMA StreamTypes == ASSUME Inv, NEW t \in Turns, Stream(t) PROVE TypeOK'
<1> USE DEF Inv, TypeOK, StoreTypes, SessTypes, ProvTypes, CallTypes, TaskTypes, CastTypes,
            UsedTypes, storeVars, sessVars, provVars, callVars, taskVars, castVars, usedVars,
            On, Move
<1>0. \A step \in TaskSteps : [task EXCEPT ![t] = step] \in [Turns -> {"off"} \cup TaskSteps]
  OBVIOUS
<1>1. CASE StreamText(t)
  <2>1. "text" \in EventKinds /\ "recv" \in TaskSteps /\ chan # <<>>
    BY <1>1 DEF StreamText, Receives, EventKinds, TaskSteps
  <2> QED
    BY <1>1, <2>1, RecordTypes DEF StreamText
<1>2. CASE StreamAsk(t)
  BY <1>2 DEF StreamAsk, ThreadStatus, TaskSteps
<1>3. CASE StreamAskTurn(t)
  BY <1>3 DEF StreamAskTurn, TurnStatus, Active, TaskSteps
<1>4. CASE StreamAskAppend(t)
  <2>1. "asked" \in EventKinds /\ "recv" \in TaskSteps /\ chan # <<>>
    BY <1>4 DEF StreamAskAppend, EventKinds, TaskSteps, EventInHand
  <2> QED
    BY <1>4, <2>1, RecordTypes DEF StreamAskAppend
<1>5. CASE StreamDone(t)
  <2>1. (token \/ IssuesToken) \in BOOLEAN
    OBVIOUS
  <2> QED
    BY <1>5, <2>1 DEF StreamDone, TaskSteps
<1>6. CASE StreamDoneTurn(t)
  <2>1. Head(chan).kind \in TurnStatus
    BY <1>6 DEF StreamDoneTurn, EventInHand, TurnStatus
  <2> QED
    BY <1>6, <2>1 DEF StreamDoneTurn, TaskSteps
<1>7. CASE StreamDoneThread(t)
  BY <1>7 DEF StreamDoneThread, ThreadStatus, TaskSteps
<1>8. CASE StreamDoneAppend(t)
  <2>1. "completed" \in EventKinds /\ "ckpt_read" \in TaskSteps /\ chan # <<>>
    BY <1>8 DEF StreamDoneAppend, EventKinds, TaskSteps, EventInHand
  <2> QED
    BY <1>8, <2>1, RecordTypes DEF StreamDoneAppend
<1>9. CASE StreamCheckpointRead(t)
  BY <1>9 DEF StreamCheckpointRead, TaskSteps
<1>10. CASE StreamCheckpointSave(t)
  BY <1>10 DEF StreamCheckpointSave, TaskSteps, TurnStatus
<1>11. CASE StreamSettle(t)
  <2>1. EventAt(seq[t] + 1, "settled", t, t) \in Event /\ t \in Actors
    BY DEF EventAt, Event, EventKinds, Actors
  <2> QED
    BY <1>11, <2>1 DEF StreamSettle, AppendAnyway, TaskSteps
<1>12. CASE StreamClosed(t)
  BY <1>12 DEF StreamClosed, TaskSteps
<1>13. CASE StreamPutBack(t)
  BY <1>13 DEF StreamPutBack
<1> QED
  BY <1>1, <1>2, <1>3, <1>4, <1>5, <1>6, <1>7, <1>8, <1>9, <1>10, <1>11, <1>12, <1>13 DEF Stream

\* Types: broadcasts, the provider's process, crash and reconciliation.
LEMMA OtherTypes ==
  ASSUME Inv,
         Provider \/ Crash \/ Restart \/ \E p \in Actors : Broadcast(p)
  PROVE  TypeOK'
<1> USE DEF Inv, TypeOK, StoreTypes, SessTypes, ProvTypes, CallTypes, TaskTypes, CastTypes,
            UsedTypes, storeVars, sessVars, provVars, callVars, taskVars, castVars, usedVars
<1>1. ASSUME NEW k \in {"text", "asked"} \cup Outcomes, CanEmit
      PROVE  Append(chan, [kind |-> k, of |-> Head(inbox)]) \in Seq(ProviderEvent)
  <2>1. Head(inbox) \in Turns
    BY <1>1 DEF CanEmit
  <2>2. [kind |-> k, of |-> Head(inbox)] \in ProviderEvent
    BY <2>1 DEF ProviderEvent
  <2> QED
    BY <2>2
<1>2. CASE ProviderText
  <2>1. chan' \in Seq(ProviderEvent)
    BY <1>1, <1>2 DEF ProviderText, Emits
  <2>2. {texts', asks', deaths', crashes', faults'} \subseteq Nat
    BY <1>2 DEF ProviderText
  <2> QED
    BY <1>2, <2>1, <2>2 DEF ProviderText
<1>3. CASE ProviderAsk
  <2>1. chan' \in Seq(ProviderEvent)
    BY <1>1, <1>3 DEF ProviderAsk, Emits
  <2>2. {texts', asks', deaths', crashes', faults'} \subseteq Nat
    BY <1>3 DEF ProviderAsk
  <2> QED
    BY <1>3, <2>1, <2>2 DEF ProviderAsk
<1>4. CASE ProviderFinish
  <2>1. Tail(inbox) \in Seq(Turns)
    BY <1>4 DEF ProviderFinish, CanEmit
  <2> QED
    BY <1>1, <1>4, <2>1 DEF ProviderFinish, Emits
<1>. <<>> \in Seq(Turns) /\ <<>> \in Seq(ProviderEvent) /\ FALSE \in BOOLEAN
  OBVIOUS
<1>5. CASE ProviderDies
  <2>1. ProvTypes'
    BY <1>5 DEF ProviderDies
  <2>2. StoreTypes' /\ SessTypes' /\ CallTypes' /\ TaskTypes' /\ CastTypes' /\ server' = server
    BY <1>5 DEF ProviderDies
  <2>3. UsedTypes'
    BY <1>5 DEF ProviderDies
  <2> QED
    BY <2>1, <2>2, <2>3
<1>6. CASE Crash
  <2>1. StoreTypes' /\ SessTypes' /\ server' = "down"
    BY <1>6 DEF Crash
  <2>4. ProvTypes'
    BY <1>6 DEF Crash
  <2>5. UsedTypes'
    BY <1>6 DEF Crash
  <2>2. CallTypes'
    BY <1>6 DEF Crash, Ended
  <2>3. TaskTypes' /\ CastTypes'
    BY <1>6 DEF Crash, TurnStatus
  <2> QED
    BY <2>1, <2>2, <2>3, <2>4, <2>5
<1>7. CASE ReconcileTurns
  BY <1>7 DEF ReconcileTurns, TurnStatus, Outcomes
<1>8. CASE ReconcileThread
  BY <1>8 DEF ReconcileThread, ThreadStatus
<1>9. ASSUME NEW p \in Actors, Broadcast(p) PROVE TypeOK'
  BY <1>9 DEF Broadcast
<1> QED
  BY <1>2, <1>3, <1>4, <1>5, <1>6, <1>7, <1>8, <1>9 DEF Provider, Restart

\* Types: store calls that fail.
LEMMA FaultTypes == ASSUME Inv, Faults PROVE TypeOK'
<1> USE DEF Inv, TypeOK, StoreTypes, SessTypes, ProvTypes, CallTypes, TaskTypes, CastTypes,
            UsedTypes, storeVars, sessVars, provVars, callVars, taskVars, castVars, usedVars, Go,
            Fault
<1>1. ASSUME NEW p \in Actors, CallFault(p) PROVE TypeOK'
  <2>1. pc' \in [Calls -> Ended \cup CallSteps]
    BY <1>1 DEF CallFault, Calls, Actors, Ended, Returned
  <2>2. lock' \in Turns \cup {None} /\ faults' \in Nat
    BY <1>1 DEF CallFault
  <2> QED
    BY <1>1, <2>1, <2>2 DEF CallFault
<1>2. ASSUME NEW p \in Answers \cup Cancels, SkipFault(p) PROVE TypeOK'
  <2>0. p \in Calls
    BY DEF Calls
  <2>1. pc' \in [Calls -> Ended \cup CallSteps]
    BY <1>2, <2>0 DEF SkipFault, Ended, Returned, CallSteps
  <2>2. ASSUME p \in Cancels
        PROVE  \A t \in snap[p] : [snap EXCEPT ![p] = @ \ {t}] \in [Cancels -> SUBSET Turns]
    BY <2>2
  <2>3. snap' \in [Cancels -> SUBSET Turns]
    BY <1>2, <2>2 DEF SkipFault
  <2> QED
    BY <1>2, <2>1, <2>3 DEF SkipFault
<1>3. ASSUME NEW t \in Turns, StreamAppendFault(t) PROVE TypeOK'
  <2>0. t \in Actors
    BY DEF Actors
  <2>1. ASSUME NEW step \in {<<"recv", "text", "recv">>, <<"ask_append", "asked", "recv">>,
                             <<"done_append", "completed", "ckpt_read">>},
               task[t] = step[1], step[1] = "recv" => Receives(t, {"text"}),
               outbox' = [outbox EXCEPT ![t] = EventAt(seq[t] + 1, step[2], t, Head(chan).of)],
               chan' = Tail(chan),
               Move(t, step[3])
        PROVE  /\ outbox' \in [Actors -> Event \cup {NoEvent}]
               /\ chan' \in Seq(ProviderEvent)
               /\ task' \in [Turns -> {"off"} \cup TaskSteps]
    <3>1. chan # <<>>
      BY <2>1 DEF EventInHand, Receives
    <3>2. Head(chan) \in ProviderEvent /\ Tail(chan) \in Seq(ProviderEvent)
      BY <3>1
    <3>3. EventAt(seq[t] + 1, step[2], t, Head(chan).of) \in Event
      BY <3>2 DEF EventAt, Event, EventKinds, ProviderEvent
    <3>4. outbox' \in [Actors -> Event \cup {NoEvent}]
      BY <2>0, <2>1, <3>3
    <3>5. task' \in [Turns -> {"off"} \cup TaskSteps]
      BY <2>1 DEF Move, TaskSteps
    <3> QED
      BY <2>1, <3>2, <3>4, <3>5
  <2>2. EventAt(seq[t] + 1, "settled", t, t) \in Event
    BY DEF EventAt, Event, EventKinds
  <2>3. /\ outbox' \in [Actors -> Event \cup {NoEvent}]
        /\ chan' \in Seq(ProviderEvent)
        /\ task' \in [Turns -> {"off"} \cup TaskSteps]
    <3>1. CASE /\ outbox' = [outbox EXCEPT ![t] = EventAt(seq[t] + 1, "settled", t, t)]
               /\ UNCHANGED chan
               /\ Move(t, "put_back")
      <4>1. outbox' \in [Actors -> Event \cup {NoEvent}]
        BY <2>0, <2>2, <3>1
      <4>2. task' \in [Turns -> {"off"} \cup TaskSteps]
        BY <3>1 DEF Move, TaskSteps
      <4> QED
        BY <3>1, <4>1, <4>2
    <3> QED
      BY <1>3, <2>1, <3>1 DEF StreamAppendFault
  <2>4. seq' \in [Turns -> Nat] /\ faults' \in Nat
    BY <1>3 DEF StreamAppendFault
  <2>5. /\ UNCHANGED <<thread, turn, log, token, sess, rx, lock, inbox, asking, pc, base, snap>>
        /\ UNCHANGED <<copy, bcast, server, texts, asks, deaths, crashes>>
    BY <1>3 DEF StreamAppendFault
  <2> QED
    BY <2>3, <2>4, <2>5
<1>4. ASSUME NEW t \in Turns, StreamRowFault(t) PROVE TypeOK'
  <2>1. task' \in [Turns -> {"off"} \cup TaskSteps]
    BY <1>4 DEF StreamRowFault, Move, TaskSteps
  <2>2. copy' \in [Turns -> TurnStatus] /\ faults' \in Nat
    BY <1>4 DEF StreamRowFault, TurnStatus
  <2>3. /\ UNCHANGED <<thread, turn, log, token, sess, rx, lock, inbox, asking, chan, pc, base>>
        /\ UNCHANGED <<snap, seq, outbox, bcast, server, texts, asks, deaths, crashes>>
    BY <1>4 DEF StreamRowFault
  <2> QED
    BY <2>1, <2>2, <2>3
<1>5. ASSUME NEW t \in Turns, StreamEntryFault(t) PROVE TypeOK'
  <2>1. task' \in [Turns -> {"off"} \cup TaskSteps]
    BY <1>5 DEF StreamEntryFault, Move, TaskSteps
  <2>2. faults' \in Nat
    BY <1>5 DEF StreamEntryFault
  <2> QED
    BY <1>5, <2>1, <2>2 DEF StreamEntryFault
<1>6. CASE ReconcileFault
  BY <1>6 DEF ReconcileFault
<1> QED
  BY <1>1, <1>2, <1>3, <1>4, <1>5, <1>6 DEF Faults

\* Types: every step.
LEMMA TypeStep == ASSUME Inv, [Next]_vars PROVE TypeOK'
<1>1. CASE UNCHANGED vars
  BY <1>1 DEF vars, Inv, TypeOK, StoreTypes, SessTypes, ProvTypes, CallTypes, TaskTypes, CastTypes,
              UsedTypes
<1>2. CASE Next
  BY <1>2, SendTypes, AnswerTypes, CancelTypes, StreamTypes, OtherTypes, FaultTypes DEF Next
<1> QED
  BY <1>1, <1>2

-----------------------------------------------------------------------------
(* Who holds the receiver *)

\* What most steps leave alone.
Steady ==
  /\ UNCHANGED <<sess, rx, lock>>
  /\ \A t \in Turns : /\ pc'[t] = "start" <=> pc[t] = "start"
                      /\ task'[t] = "off" <=> task[t] = "off"

\* A step that moves no receiver, no lock and no task in or out keeps the reader unique.
LEMMA SteadyKeeps == ASSUME Inv, Steady PROVE SessionLock' /\ SingleReader'
BY DEF Inv, Steady, SessionLock, SingleReader

\* send_turn: a session is started only while there is none and the map is locked, and
\* the receiver is taken only from active_sessions.
LEMMA SendKeepsReader ==
  ASSUME Inv, NEW t \in Turns, SendTurn(t) PROVE SessionLock' /\ SingleReader'
<1> USE DEF Inv, TypeOK, SessTypes, CallTypes, TaskTypes, At, Go
<1>0. t \in Calls /\ Turns \subseteq Calls
  BY DEF Calls
<1>1. CASE \/ SendBegin(t) \/ SendReadSeq(t) \/ SendSaveTurn(t) \/ SendSaveThread(t)
           \/ SendAppendRequested(t) \/ SendAppendStarted(t) \/ SendPrompt(t)
  <2>1. UNCHANGED <<sess, rx, lock, task>>
    BY <1>1 DEF SendBegin, SendReadSeq, SendSaveTurn, SendSaveThread, SendAppendRequested,
                SendAppendStarted, SendPrompt, sessVars, taskVars
  <2>2. \E s \in (Ended \cup CallSteps) \ {"start"} : pc[t] # "start" /\ pc' = [pc EXCEPT ![t] = s]
    BY <1>1 DEF SendBegin, SendReadSeq, SendSaveTurn, SendSaveThread, SendAppendRequested,
                SendAppendStarted, SendPrompt, AppendOrFail, Ended, Returned, CallSteps
  <2>3. Steady
    BY <1>0, <2>1, <2>2 DEF Steady
  <2> QED
    BY <2>3, SteadyKeeps
<1>2. CASE SendLookup(t)
  BY <1>0, <1>2, CallsAssumption DEF SendLookup, SessionLock, SingleReader, taskVars
<1>3. CASE SendStartSession(t)
  <2>1. lock = t /\ t # None /\ sess = "none" /\ rx = None /\ None # "home" /\ "home" \notin Turns
    BY <1>0, <1>3, CallsAssumption DEF SendStartSession, SessionLock, SingleReader
  <2>2. \A u \in Turns : task[u] = "off"
    BY <1>0, <2>1, CallsAssumption DEF SingleReader
  <2> QED
    BY <1>0, <1>3, <2>1, <2>2, CallsAssumption DEF SendStartSession, SessionLock, SingleReader, taskVars
<1>4. CASE SendTakeReceiver(t)
  <2>1. None \notin Turns /\ None # "home" /\ "home" \notin Turns
    BY <1>0, CallsAssumption
  <2>2. SessionLock'
    BY <1>0, <1>4 DEF SendTakeReceiver, SessionLock
  <2>3. CASE rx = "home"
    <3>1. rx' = t /\ task' = [task EXCEPT ![t] = "recv"] /\ sess' = sess
      BY <1>4, <2>3 DEF SendTakeReceiver
    <3>2. sess # "none" /\ \A u \in Turns : task[u] = "off"
      BY <2>1, <2>3 DEF SingleReader
    <3> QED
      BY <2>1, <2>2, <3>1, <3>2 DEF SingleReader
  <2>4. CASE rx # "home"
    <3>1. UNCHANGED <<rx, task, sess>>
      BY <1>4, <2>4 DEF SendTakeReceiver
    <3> QED
      BY <2>2, <3>1 DEF SingleReader
  <2> QED
    BY <2>3, <2>4
<1> QED
  BY <1>1, <1>2, <1>3, <1>4 DEF SendTurn

\* respond_approval and interrupt_turn never touch the receiver.
LEMMA CallsKeepReader ==
  ASSUME Inv, \/ \E a \in Answers : RespondApproval(a)
              \/ \E c \in Cancels : InterruptTurn(c)
  PROVE  SessionLock' /\ SingleReader'
<1> USE DEF Inv, TypeOK, CallTypes, At, Go
<1>1. UNCHANGED <<sess, rx, lock, task>>
  BY DEF RespondApproval, AnswerBegin, AnswerDeliver, AnswerReadSeq, AnswerAppend, AnswerSaveThread,
         InterruptTurn, CancelBegin, CancelDeliver, CancelSaveThread, CancelListTurns,
         CancelMarkTurn, sessVars, taskVars
<1>2. \A t \in Turns : pc'[t] = pc[t]
  <2>1. ASSUME NEW a \in Answers, RespondApproval(a), NEW t \in Turns PROVE pc'[t] = pc[t]
    BY <2>1, CallsAssumption
       DEF RespondApproval, AnswerBegin, AnswerDeliver, AnswerReadSeq, AnswerAppend,
           AnswerSaveThread, AppendOrFail, Calls
  <2>2. ASSUME NEW c \in Cancels, InterruptTurn(c), NEW t \in Turns PROVE pc'[t] = pc[t]
    BY <2>2, CallsAssumption
       DEF InterruptTurn, CancelBegin, CancelDeliver, CancelSaveThread, CancelListTurns,
           CancelMarkTurn, Calls
  <2> QED
    BY <2>1, <2>2
<1>3. Steady
  BY <1>1, <1>2 DEF Steady
<1> QED
  BY <1>3, SteadyKeeps

\* The streaming task gives the receiver up exactly when it ends.
LEMMA StreamKeepsReader ==
  ASSUME Inv, NEW t \in Turns, Stream(t) PROVE SessionLock' /\ SingleReader'
<1> USE DEF Inv, TypeOK, SessTypes, CallTypes, TaskTypes, On, Move
<1>1. CASE StreamPutBack(t)
  <2>1. None \notin Turns /\ None # "home" /\ "home" \notin Turns
    BY CallsAssumption DEF Calls
  <2>2. rx = t /\ task' = [task EXCEPT ![t] = "off"] /\ rx' = "home" /\ sess' = sess
    BY <1>1 DEF StreamPutBack, SingleReader
  <2>3. SingleReader'
    BY <2>1, <2>2 DEF SingleReader
  <2>4. SessionLock'
    BY <1>1 DEF StreamPutBack, SessionLock, callVars
  <2> QED
    BY <2>3, <2>4
<1>2. CASE ~StreamPutBack(t)
  <2>1. UNCHANGED <<sess, rx, lock, pc>>
    BY <1>2 DEF Stream, StreamText, StreamAsk, StreamAskTurn, StreamAskAppend, StreamDone,
                StreamDoneTurn, StreamDoneThread, StreamDoneAppend, StreamCheckpointRead,
                StreamCheckpointSave, StreamSettle, StreamClosed, sessVars, callVars
  <2>2. \E s \in TaskSteps : task[t] # "off" /\ task' = [task EXCEPT ![t] = s]
    BY <1>2 DEF Stream, StreamText, StreamAsk, StreamAskTurn, StreamAskAppend, StreamDone,
                StreamDoneTurn, StreamDoneThread, StreamDoneAppend, StreamCheckpointRead,
                StreamCheckpointSave, StreamSettle, StreamClosed, Record, TaskSteps
  <2>3. Steady
    BY <2>1, <2>2 DEF Steady, TaskSteps
  <2> QED
    BY <2>3, SteadyKeeps
<1> QED
  BY <1>1, <1>2

\* Broadcasts, the provider's process and a restart: a crash ends all tasks and sessions.
LEMMA OthersKeepReader ==
  ASSUME Inv, Provider \/ Crash \/ Restart \/ \E p \in Actors : Broadcast(p)
  PROVE  SessionLock' /\ SingleReader'
<1> USE DEF Inv, TypeOK, CallTypes, TaskTypes
<1>1. CASE Crash
  BY <1>1, CallsAssumption DEF Crash, SessionLock, SingleReader, Calls
<1>2. CASE ProviderDies
  BY <1>2 DEF ProviderDies, SessionLock, SingleReader, callVars, taskVars
<1>3. CASE \/ ProviderText \/ ProviderAsk \/ ProviderFinish \/ Restart
           \/ \E p \in Actors : Broadcast(p)
  <2>1. Steady
    BY <1>3 DEF Steady, ProviderText, ProviderAsk, ProviderFinish, Restart, ReconcileTurns,
                ReconcileThread, Broadcast, sessVars, callVars, taskVars
  <2> QED
    BY <2>1, SteadyKeeps
<1> QED
  BY <1>1, <1>2, <1>3 DEF Provider

\* A store call that fails moves no receiver; a failed token lookup unlocks the map.
LEMMA FaultsKeepReader == ASSUME Inv, Faults PROVE SessionLock' /\ SingleReader'
<1> USE DEF Inv, TypeOK, SessTypes, CallTypes, TaskTypes, Go, Move, On
<1>1. ASSUME NEW p \in Actors, CallFault(p) PROVE SessionLock' /\ SingleReader'
  <2>1. p \in Calls /\ Turns \subseteq Calls
    BY DEF Actors, Calls
  <2>2. SingleReader'
    BY <1>1 DEF CallFault, SingleReader, taskVars
  <2>3. CASE pc[p] = "start"
    <3>1. p \in Turns /\ lock = p /\ lock' = None
      BY <1>1, <2>3 DEF CallFault, SessionLock
    <3> QED
      BY <1>1, <2>1, <2>2, <2>3, <3>1, CallsAssumption DEF CallFault, SessionLock
  <2>4. CASE pc[p] # "start"
    BY <1>1, <2>1, <2>2, <2>4 DEF CallFault, SessionLock
  <2> QED
    BY <2>3, <2>4
<1>2. ASSUME NEW p \in Answers \cup Cancels, SkipFault(p) PROVE Steady
  <2>1. \A t \in Turns : pc'[t] = pc[t]
    BY <1>2, CallsAssumption DEF SkipFault, Calls
  <2> QED
    BY <1>2, <2>1 DEF SkipFault, Steady, sessVars, taskVars
<1>3. ASSUME NEW t \in Turns, StreamAppendFault(t) \/ StreamRowFault(t) \/ StreamEntryFault(t)
      PROVE  Steady
  <2>1. \E s \in TaskSteps : task[t] # "off" /\ task' = [task EXCEPT ![t] = s]
    BY <1>3 DEF StreamAppendFault, StreamRowFault, StreamEntryFault, TaskSteps
  <2>2. UNCHANGED <<sess, rx, lock, pc>>
    BY <1>3 DEF StreamAppendFault, StreamRowFault, StreamEntryFault, sessVars, callVars
  <2> QED
    BY <2>1, <2>2 DEF Steady, TaskSteps
<1>4. ASSUME ReconcileFault PROVE Steady
  BY <1>4 DEF ReconcileFault, Steady, sessVars, callVars, taskVars
<1> QED
  BY <1>1, <1>2, <1>3, <1>4, SteadyKeeps DEF Faults

\* Every step keeps the receiver with one holder.
LEMMA ReaderStep == ASSUME Inv, [Next]_vars PROVE SessionLock' /\ SingleReader'
<1>1. CASE UNCHANGED vars
  BY <1>1 DEF vars, Inv, SessionLock, SingleReader
<1>2. CASE Next
  BY <1>2, SendKeepsReader, CallsKeepReader, StreamKeepsReader, OthersKeepReader, FaultsKeepReader
     DEF Next
<1> QED
  BY <1>1, <1>2

-----------------------------------------------------------------------------
(* The event in hand *)

\* A task's step that takes no event in hand away keeps it for the others too: the
\* others have no receiver.
LEMMA HandStep == ASSUME Inv, [Next]_vars PROVE EventInHand'
<1> USE DEF Inv, TypeOK, TaskTypes, ProvTypes
<1>1. ASSUME UNCHANGED task, \/ UNCHANGED chan
                             \/ \E e \in ProviderEvent : chan' = Append(chan, e)
      PROVE  EventInHand'
  <2>1. ASSUME NEW e \in ProviderEvent, chan # <<>>
        PROVE  Append(chan, e) # <<>> /\ Head(Append(chan, e)) = Head(chan)
    BY <2>1
  <2> QED
    BY <1>1, <2>1 DEF EventInHand
<1>2. ASSUME NEW t \in Turns, Stream(t) PROVE EventInHand'
  <2>1. On(t, task[t]) /\ task[t] # "off"
    BY <1>2 DEF Stream, StreamText, StreamAsk, StreamAskTurn, StreamAskAppend, StreamDone,
                StreamDoneTurn, StreamDoneThread, StreamDoneAppend, StreamCheckpointRead,
                StreamCheckpointSave, StreamSettle, StreamClosed, StreamPutBack, On
  <2>2. \A u \in Turns \ {t} : task[u] = "off"
    BY <2>1 DEF SingleReader
  <2>3. \A u \in Turns \ {t} : task'[u] = "off"
    BY <1>2, <2>2
       DEF Stream, StreamText, StreamAsk, StreamAskTurn, StreamAskAppend, StreamDone,
           StreamDoneTurn, StreamDoneThread, StreamDoneAppend, StreamCheckpointRead,
           StreamCheckpointSave, StreamSettle, StreamClosed, StreamPutBack, Record, Move
  <2>4. \/ task'[t] \in {"recv", "ckpt_read", "ckpt_save", "settle", "put_back", "off"}
        \/ UNCHANGED chan /\ task'[t] \in {"ask_turn", "ask_append"}
             /\ chan # <<>> /\ Head(chan).kind = "asked"
        \/ UNCHANGED chan /\ task'[t] \in {"done_turn", "done_thread", "done_append"}
             /\ chan # <<>> /\ Head(chan).kind \in Outcomes
    BY <1>2 DEF Stream, StreamText, StreamAsk, StreamAskTurn, StreamAskAppend, StreamDone,
           StreamDoneTurn, StreamDoneThread, StreamDoneAppend, StreamCheckpointRead,
           StreamCheckpointSave, StreamSettle, StreamClosed, StreamPutBack, Record, Move,
           On, Receives, EventInHand, provVars
  <2> QED
    BY <2>3, <2>4 DEF EventInHand
<1>3. ASSUME NEW t \in Turns, StreamAppendFault(t) \/ StreamRowFault(t) \/ StreamEntryFault(t)
      PROVE  EventInHand'
  <2>1. task[t] # "off"
    BY <1>3 DEF StreamAppendFault, StreamRowFault, StreamEntryFault, On
  <2>2. \A u \in Turns \ {t} : task[u] = "off" /\ task'[u] = "off"
    BY <1>3, <2>1 DEF SingleReader, StreamAppendFault, StreamRowFault, StreamEntryFault, Move
  <2>3. \/ task'[t] \in {"recv", "ckpt_read", "settle", "put_back"}
        \/ UNCHANGED chan /\ task'[t] \in {"ask_turn", "ask_append"}
             /\ chan # <<>> /\ Head(chan).kind = "asked"
        \/ UNCHANGED chan /\ task'[t] \in {"done_turn", "done_thread", "done_append"}
             /\ chan # <<>> /\ Head(chan).kind \in Outcomes
    BY <1>3 DEF StreamAppendFault, StreamRowFault, StreamEntryFault, Move, Receives, EventInHand,
                On, provVars
  <2> QED
    BY <2>2, <2>3 DEF EventInHand
<1>4. ASSUME NEW t \in Turns, SendTurn(t) PROVE EventInHand'
  <2>1. UNCHANGED chan
    BY <1>4 DEF SendTurn, SendBegin, SendReadSeq, SendSaveTurn, SendSaveThread,
                SendAppendRequested, SendAppendStarted, SendLookup, SendStartSession, SendPrompt,
                SendTakeReceiver, provVars
  <2>2. UNCHANGED task \/ task' = [task EXCEPT ![t] = "recv"]
    BY <1>4 DEF SendTurn, SendBegin, SendReadSeq, SendSaveTurn, SendSaveThread,
                SendAppendRequested, SendAppendStarted, SendLookup, SendStartSession, SendPrompt,
                SendTakeReceiver, taskVars
  <2> QED
    BY <2>1, <2>2 DEF EventInHand
<1>5. ASSUME \/ \E a \in Answers : RespondApproval(a)
             \/ \E c \in Cancels : InterruptTurn(c)
      PROVE  EventInHand'
  <2>1. UNCHANGED task
    BY <1>5 DEF RespondApproval, AnswerBegin, AnswerDeliver, AnswerReadSeq, AnswerAppend,
                AnswerSaveThread, InterruptTurn, CancelBegin, CancelDeliver, CancelSaveThread,
                CancelListTurns, CancelMarkTurn, taskVars
  <2>2. UNCHANGED chan \/ Echo
    BY <1>5 DEF RespondApproval, AnswerBegin, AnswerDeliver, AnswerReadSeq, AnswerAppend,
                AnswerSaveThread, InterruptTurn, CancelBegin, CancelDeliver, CancelSaveThread,
                CancelListTurns, CancelMarkTurn, provVars
  <2>3. \A o \in Outcomes : [kind |-> o, of |-> None] \in ProviderEvent
    BY DEF ProviderEvent
  <2> QED
    BY <1>1, <2>1, <2>2, <2>3 DEF Echo
<1>6. ASSUME ProviderText \/ ProviderAsk \/ ProviderFinish PROVE EventInHand'
  <2>1. Head(inbox) \in Turns
    BY <1>6 DEF ProviderText, ProviderAsk, ProviderFinish, CanEmit
  <2>2. \A k \in {"text", "asked"} \cup Outcomes : [kind |-> k, of |-> Head(inbox)] \in ProviderEvent
    BY <2>1 DEF ProviderEvent
  <2>3. UNCHANGED task
    BY <1>6 DEF ProviderText, ProviderAsk, ProviderFinish, taskVars
  <2>4. \E k \in {"text", "asked"} \cup Outcomes : chan' = Append(chan, [kind |-> k, of |-> Head(inbox)])
    BY <1>6 DEF ProviderText, ProviderAsk, ProviderFinish, Emits
  <2> QED
    BY <1>1, <2>2, <2>3, <2>4
<1>7. CASE Crash
  BY <1>7 DEF Crash, EventInHand
<1>8. ASSUME \/ ProviderDies \/ Restart \/ UNCHANGED vars
             \/ \E p \in Actors : Broadcast(p) \/ CallFault(p)
             \/ \E p \in Answers \cup Cancels : SkipFault(p)
             \/ ReconcileFault
      PROVE  EventInHand'
  <2>1. UNCHANGED <<task, chan>>
    BY <1>8 DEF ProviderDies, Restart, ReconcileTurns, ReconcileThread, vars, Broadcast, CallFault,
                SkipFault, ReconcileFault, taskVars, provVars
  <2> QED
    BY <1>1, <2>1
<1> QED
  BY <1>2, <1>3, <1>4, <1>5, <1>6, <1>7, <1>8 DEF Next, Provider, Faults

-----------------------------------------------------------------------------
(* What a step does to the events table *)

\* A step stores nothing, or one event whose seq is free and follows a seq its writer
\* has read or reached.
LEMMA LogStep ==
  ASSUME Inv, [Next]_vars
  PROVE  \/ UNCHANGED log
         \/ \E p \in Actors, e \in Event :
              /\ log' = log \cup {e} /\ e.seq \notin Seqs
              /\ \/ pc[p] \in {"append_req", "append"} /\ e.seq = base[p] + 1
                 \/ pc[p] = "append_start" /\ e.seq = base[p] + 2
                 \/ p \in Turns /\ task[p] # "off" /\ e.seq = seq[p] + 1
<1> DEFINE Stores(p, e) ==
             /\ log' = log \cup {e} /\ e.seq \notin Seqs
             /\ \/ pc[p] \in {"append_req", "append"} /\ e.seq = base[p] + 1
                \/ pc[p] = "append_start" /\ e.seq = base[p] + 2
                \/ p \in Turns /\ task[p] # "off" /\ e.seq = seq[p] + 1
<1> SUFFICES UNCHANGED log \/ \E p \in Actors, e \in Event : Stores(p, e)
  OBVIOUS
<1> USE DEF Inv, TypeOK, storeVars
<1>1. ASSUME NEW t \in Turns, SendTurn(t)
      PROVE  UNCHANGED log \/ \E p \in Actors, e \in Event : Stores(p, e)
  <2>0. t \in Actors
    BY DEF Actors
  <2>1. CASE SendAppendRequested(t)
    <3>1. EventAt(base[t] + 1, "requested", t, t) \in Event
      BY <2>0 DEF CallTypes, EventAt, Event, EventKinds
    <3>2. \/ UNCHANGED log
          \/ Stores(t, EventAt(base[t] + 1, "requested", t, t))
      BY <2>1 DEF SendAppendRequested, AppendOrFail, Collides, EventAt, At
    <3> QED
      BY <2>0, <3>1, <3>2
  <2>2. CASE SendAppendStarted(t)
    <3>1. EventAt(base[t] + 2, "started", t, t) \in Event
      BY <2>0 DEF CallTypes, EventAt, Event, EventKinds
    <3>2. \/ UNCHANGED log
          \/ Stores(t, EventAt(base[t] + 2, "started", t, t))
      BY <2>2 DEF SendAppendStarted, AppendOrFail, Collides, EventAt, At
    <3> QED
      BY <2>0, <3>1, <3>2
  <2> QED
    BY <1>1, <2>1, <2>2
       DEF SendTurn, SendBegin, SendReadSeq, SendSaveTurn, SendSaveThread, SendLookup,
           SendStartSession, SendPrompt, SendTakeReceiver
<1>2. ASSUME NEW a \in Answers, RespondApproval(a)
      PROVE  UNCHANGED log \/ \E p \in Actors, e \in Event : Stores(p, e)
  <2>0. a \in Actors
    BY DEF Actors
  <2>1. CASE AnswerAppend(a)
    <3>1. EventAt(base[a] + 1, "resolved", None, None) \in Event
      BY <2>0 DEF CallTypes, EventAt, Event, EventKinds
    <3>2. \/ UNCHANGED log
          \/ Stores(a, EventAt(base[a] + 1, "resolved", None, None))
      BY <2>1 DEF AnswerAppend, AppendOrFail, Collides, EventAt, At
    <3> QED
      BY <2>0, <3>1, <3>2
  <2> QED
    BY <1>2, <2>1 DEF RespondApproval, AnswerBegin, AnswerDeliver, AnswerReadSeq, AnswerSaveThread
<1>3. ASSUME NEW t \in Turns, Stream(t)
      PROVE  UNCHANGED log \/ \E p \in Actors, e \in Event : Stores(p, e)
  <2>0. t \in Actors
    BY DEF Actors
  <2>1. ASSUME NEW kind \in EventKinds, NEW next \in TaskSteps, task[t] # "off", chan # <<>>,
               Record(t, kind, next)
        PROVE  UNCHANGED log \/ \E p \in Actors, e \in Event : Stores(p, e)
    <3>1. EventAt(seq[t] + 1, kind, t, Head(chan).of) \in Event
      <4>1. Head(chan) \in ProviderEvent
        BY <2>1 DEF ProvTypes
      <4> QED
        BY <4>1 DEF TaskTypes, EventAt, Event, ProviderEvent
    <3>2. UNCHANGED log \/ Stores(t, EventAt(seq[t] + 1, kind, t, Head(chan).of))
      BY <2>1 DEF Record, AppendAnyway, Collides, EventAt
    <3> QED
      BY <2>0, <3>1, <3>2
  <2>2. CASE StreamText(t) \/ StreamAskAppend(t) \/ StreamDoneAppend(t)
    BY <2>1, <2>2 DEF StreamText, StreamAskAppend, StreamDoneAppend, On, Receives, EventInHand,
                      EventKinds, TaskSteps
  <2>3. CASE StreamSettle(t)
    <3>1. EventAt(seq[t] + 1, "settled", t, t) \in Event
      BY DEF TaskTypes, EventAt, Event, EventKinds
    <3>2. UNCHANGED log \/ Stores(t, EventAt(seq[t] + 1, "settled", t, t))
      BY <2>3 DEF StreamSettle, AppendAnyway, Collides, EventAt, On
    <3> QED
      BY <2>0, <3>1, <3>2
  <2> QED
    BY <1>3, <2>2, <2>3
       DEF Stream, StreamAsk, StreamAskTurn, StreamDone, StreamDoneTurn, StreamDoneThread,
           StreamCheckpointRead, StreamCheckpointSave, StreamClosed, StreamPutBack
<1>4. ASSUME \/ \E c \in Cancels : InterruptTurn(c)
             \/ \E p \in Actors : Broadcast(p)
             \/ Provider \/ Crash \/ Restart \/ Faults \/ UNCHANGED vars
      PROVE  UNCHANGED log
  BY <1>4 DEF InterruptTurn, CancelBegin, CancelDeliver, CancelSaveThread, CancelListTurns,
              CancelMarkTurn, Broadcast, Provider, ProviderText, ProviderAsk, ProviderFinish,
              ProviderDies, Crash, Restart, ReconcileTurns, ReconcileThread, Faults, CallFault,
              SkipFault, StreamAppendFault, StreamRowFault, StreamEntryFault, ReconcileFault, vars
<1> QED
  BY <1>1, <1>2, <1>3, <1>4 DEF Next

\* A stored event is the latest or is not: the table keeps a latest seq.
LEMMA LatestStep == ASSUME Inv, [Next]_vars PROVE HasLatest'
<1>1. CASE UNCHANGED log
  BY <1>1 DEF Inv, HasLatest, Seqs
<1>2. ASSUME NEW e \in Event, log' = log \cup {e} PROVE HasLatest'
  <2>1. Seqs' = Seqs \cup {e.seq} /\ e.seq \in Nat /\ Seqs \subseteq Nat
    BY <1>2 DEF Seqs, Event, Inv, TypeOK, StoreTypes
  <2>2. CASE Seqs = {}
    BY <2>1, <2>2 DEF HasLatest
  <2>3. CASE Seqs # {}
    <3>1. PICK n \in Seqs : \A m \in Seqs : m <= n
      BY <2>3 DEF Inv, HasLatest
    <3>2. CASE e.seq <= n
      BY <2>1, <3>1, <3>2 DEF HasLatest
    <3>3. CASE ~(e.seq <= n)
      <4>1. \A m \in Seqs : m <= e.seq
        BY <2>1, <3>1, <3>3
      <4> QED
        BY <2>1, <4>1 DEF HasLatest
    <3> QED
      BY <3>2, <3>3
  <2> QED
    BY <2>2, <2>3
<1> QED
  BY <1>1, <1>2, LogStep

\* The invariant is inductive.
LEMMA InvStep == Inv /\ [Next]_vars => Inv'
BY TypeStep, LatestStep, ReaderStep, HandStep DEF Inv

\* The inductive invariant holds in every reachable state of the thread's server.
THEOREM Invariance == Spec => []Inv
<1>1. Init => Inv
  BY InitInv
<1>2. Inv /\ [Next]_vars => Inv'
  BY InvStep
<1> QED
  BY <1>1, <1>2, PTL DEF Spec

\* Whatever the calls, faults, deaths and crashes, every variable keeps its type.
THEOREM TypeCorrect == Spec => []TypeOK
<1>1. Inv => TypeOK
  BY DEF Inv
<1> QED
  BY <1>1, Invariance, PTL

\* Two tasks never read one provider's events, and a session's receiver is never lost:
\* send_turn takes it out of active_sessions, the task puts it back.
THEOREM ReceiverHasOneHolder == Spec => []SingleReader
<1>1. Inv => SingleReader
  BY DEF Inv
<1> QED
  BY <1>1, Invariance, PTL

-----------------------------------------------------------------------------
(* No seq is missing *)

\* While no store call has failed: the seqs are 1 to the latest, and no seq that was
\* read, or that a call or a task has counted up to, is beyond the latest.
Contiguous == Seqs = 1..LatestSeq
BasesReached == \A p \in Actors : base[p] <= LatestSeq
SendsReached ==
  \A p \in Actors : /\ pc[p] = "append_start" => base[p] + 1 <= LatestSeq
                    /\ pc[p] \in {"lookup", "start", "send", "take"} => base[p] + 2 <= LatestSeq
TasksReached == \A t \in Turns : task[t] # "off" => seq[t] <= LatestSeq
GapInv == faults = 0 => Contiguous /\ BasesReached /\ SendsReached /\ TasksReached

\* The latest of the seqs 1 to n is n.
LEMMA MaxOfInterval == ASSUME NEW n \in Nat PROVE MaxSeq(1..n) = n
<1>1. CASE n = 0
  BY <1>1 DEF MaxSeq
<1>2. CASE n # 0
  <2>1. 1..n # {} /\ n \in 1..n /\ \A m \in 1..n : m <= n
    BY <1>2
  <2>2. MaxSeq(1..n) \in 1..n /\ \A m \in 1..n : m <= MaxSeq(1..n)
    <3>1. 1..n \in SUBSET Nat /\ \E k \in 1..n : \A m \in 1..n : m <= k
      BY <2>1
    <3> QED
      BY <2>1, <3>1, MaxSeqBounds
  <2> QED
    BY <2>1, <2>2
<1> QED
  BY <1>1, <1>2

\* An empty table has no gap and no counter has run ahead of it.
LEMMA InitGap == Init => GapInv
<1> SUFFICES ASSUME Init PROVE GapInv
  OBVIOUS
<1>1. Seqs = {} /\ LatestSeq = 0
  BY DEF Init, Seqs, LatestSeq, MaxSeq
<1> QED
  BY <1>1 DEF Init, GapInv, Contiguous, BasesReached, SendsReached, TasksReached, Actors, Calls

\* The latest seq never goes down, and every stored seq is up to it.
LEMMA LatestGrows ==
  ASSUME Inv, Inv', [Next]_vars
  PROVE  /\ LatestSeq \in Nat /\ LatestSeq' \in Nat /\ LatestSeq <= LatestSeq'
         /\ Seqs \subseteq Seqs' /\ \A m \in Seqs' : m <= LatestSeq'
<1>1. Seqs \subseteq Seqs'
  BY LogStep DEF Seqs
<1>2. Seqs \in SUBSET Nat /\ Seqs' \in SUBSET Nat
  BY DEF Inv, TypeOK, StoreTypes, Seqs, Event
<1>3. /\ MaxSeq(Seqs) \in Nat /\ (Seqs # {} => MaxSeq(Seqs) \in Seqs)
      /\ MaxSeq(Seqs') \in Nat /\ \A m \in Seqs' : m <= MaxSeq(Seqs')
  BY <1>2, MaxSeqBounds DEF Inv, HasLatest
<1>4. LatestSeq = MaxSeq(Seqs) /\ LatestSeq' = MaxSeq(Seqs')
  BY DEF LatestSeq
<1>5. CASE Seqs = {}
  <2>1. LatestSeq = 0
    BY <1>4, <1>5 DEF MaxSeq
  <2> QED
    BY <1>1, <1>3, <1>4, <2>1
<1>6. CASE Seqs # {}
  BY <1>1, <1>3, <1>4, <1>6
<1> QED
  BY <1>5, <1>6

\* Without faults a step keeps the stored seqs an interval: what it appends follows a seq
\* that is stored already.
LEMMA ContiguousStep ==
  ASSUME Inv, [Next]_vars, Contiguous, BasesReached, SendsReached, TasksReached
  PROVE  Contiguous'
<1>0. LatestSeq \in Nat
  BY LatestIsNat DEF Inv
<1>1. CASE UNCHANGED log
  BY <1>1 DEF Contiguous, Seqs, LatestSeq
<1>2. ASSUME NEW p \in Actors, NEW e \in Event,
             log' = log \cup {e}, e.seq \notin Seqs,
             \/ pc[p] \in {"append_req", "append"} /\ e.seq = base[p] + 1
             \/ pc[p] = "append_start" /\ e.seq = base[p] + 2
             \/ p \in Turns /\ task[p] # "off" /\ e.seq = seq[p] + 1
      PROVE  Contiguous'
  <2>1. base[p] \in Nat /\ \A t \in Turns : seq[t] \in Nat
    BY DEF Inv, TypeOK, CallTypes, TaskTypes
  <2>3. e.seq <= LatestSeq + 1 /\ e.seq \in Nat /\ e.seq >= 1
    BY <1>0, <1>2, <2>1 DEF BasesReached, SendsReached, TasksReached
  <2>4. e.seq = LatestSeq + 1
    BY <1>0, <1>2, <2>3 DEF Contiguous
  <2>5. Seqs' = 1..(LatestSeq + 1)
    <3>1. Seqs' = Seqs \cup {e.seq}
      BY <1>2 DEF Seqs
    <3> QED
      BY <1>0, <2>4, <3>1 DEF Contiguous
  <2>6. LatestSeq' = LatestSeq + 1
    BY <1>0, <2>5, MaxOfInterval DEF LatestSeq
  <2> QED
    BY <2>5, <2>6 DEF Contiguous
<1> QED
  BY <1>1, <1>2, LogStep

\* The counters after a step: a seq counted up to has been stored, by the step or before.
CountersReached == BasesReached /\ SendsReached /\ TasksReached

\* send_turn's seqs are computed from one read: the second is used only after the first
\* was stored under it.
LEMMA SendCounters ==
  ASSUME Inv, Inv', NEW t \in Turns, SendTurn(t), CountersReached
  PROVE  CountersReached'
<1> USE DEF Inv, TypeOK, CallTypes, TaskTypes, At, Go
<1>0. t \in Calls /\ t \in Actors /\ Actors \subseteq Calls /\ Turns \subseteq Actors
  BY DEF Calls, Actors
<1>1. /\ LatestSeq \in Nat /\ LatestSeq' \in Nat /\ LatestSeq <= LatestSeq'
      /\ Seqs \subseteq Seqs' /\ \A m \in Seqs' : m <= LatestSeq'
  BY LatestGrows DEF Next
<1>2. \A p \in Actors : base[p] \in Nat /\ base'[p] \in Nat
  OBVIOUS
<1>3. BasesReached'
  <2>1. UNCHANGED base \/ base' = [base EXCEPT ![t] = LatestSeq]
    BY DEF SendTurn, SendBegin, SendReadSeq, SendSaveTurn, SendSaveThread, SendAppendRequested,
           SendAppendStarted, SendLookup, SendStartSession, SendPrompt, SendTakeReceiver
  <2> QED
    BY <1>0, <1>1, <1>2, <2>1 DEF CountersReached, BasesReached
<1>4. SendsReached'
  <2>1. CASE SendAppendRequested(t)
    <3>1. UNCHANGED base
      BY <2>1 DEF SendAppendRequested
    <3>2. \/ pc' = [pc EXCEPT ![t] = "error"]
          \/ pc' = [pc EXCEPT ![t] = "append_start"] /\ base[t] + 1 \in Seqs'
      <4>1. EventAt(base[t] + 1, "requested", t, t).seq = base[t] + 1
        BY DEF EventAt
      <4> QED
        BY <2>1, <4>1 DEF SendAppendRequested, AppendOrFail, Seqs
    <3> QED
      BY <1>0, <1>1, <1>2, <3>1, <3>2 DEF CountersReached, SendsReached
  <2>2. CASE SendAppendStarted(t)
    <3>1. UNCHANGED base
      BY <2>2 DEF SendAppendStarted
    <3>2. \/ pc' = [pc EXCEPT ![t] = "error"]
          \/ pc' = [pc EXCEPT ![t] = "lookup"] /\ base[t] + 2 \in Seqs'
      <4>1. EventAt(base[t] + 2, "started", t, t).seq = base[t] + 2
        BY DEF EventAt
      <4> QED
        BY <2>2, <4>1 DEF SendAppendStarted, AppendOrFail, Seqs
    <3> QED
      BY <1>0, <1>1, <1>2, <3>1, <3>2 DEF CountersReached, SendsReached
  <2>3. CASE SendBegin(t) \/ SendReadSeq(t) \/ SendSaveTurn(t) \/ SendSaveThread(t)
    <3>1. \A p \in Actors \ {t} : base'[p] = base[p]
      BY <1>0, <2>3 DEF SendBegin, SendReadSeq, SendSaveTurn, SendSaveThread
    <3>2. \E s \in {"rejected", "read", "save_turn", "save_thread", "append_req"} :
            pc' = [pc EXCEPT ![t] = s]
      BY <2>3 DEF SendBegin, SendReadSeq, SendSaveTurn, SendSaveThread
    <3> QED
      BY <1>0, <1>1, <1>2, <3>1, <3>2 DEF CountersReached, SendsReached
  <2>4. CASE SendLookup(t) \/ SendStartSession(t) \/ SendPrompt(t) \/ SendTakeReceiver(t)
    <3>1. UNCHANGED base /\ pc[t] \in {"lookup", "start", "send", "take"}
      BY <2>4 DEF SendLookup, SendStartSession, SendPrompt, SendTakeReceiver
    <3>2. \E s \in {"start", "send", "take", "ok", "error"} : pc' = [pc EXCEPT ![t] = s]
      BY <2>4 DEF SendLookup, SendStartSession, SendPrompt, SendTakeReceiver
    <3> QED
      BY <1>0, <1>1, <1>2, <3>1, <3>2 DEF CountersReached, SendsReached
  <2> QED
    BY <2>1, <2>2, <2>3, <2>4 DEF SendTurn
<1>5. TasksReached'
  <2>1. \/ UNCHANGED <<task, seq>>
        \/ /\ pc[t] = "take" /\ task' = [task EXCEPT ![t] = "recv"]
           /\ seq' = [seq EXCEPT ![t] = base[t] + 2]
    BY DEF SendTurn, SendBegin, SendReadSeq, SendSaveTurn, SendSaveThread, SendAppendRequested,
           SendAppendStarted, SendLookup, SendStartSession, SendPrompt, SendTakeReceiver, taskVars
  <2>2. \A u \in Turns : seq[u] \in Nat
    OBVIOUS
  <2>3. CASE UNCHANGED <<task, seq>>
    BY <1>1, <2>2, <2>3 DEF CountersReached, TasksReached
  <2>4. CASE /\ pc[t] = "take" /\ task' = [task EXCEPT ![t] = "recv"]
             /\ seq' = [seq EXCEPT ![t] = base[t] + 2]
    BY <1>0, <1>1, <1>2, <2>2, <2>4 DEF CountersReached, TasksReached, SendsReached
  <2> QED
    BY <2>1, <2>3, <2>4
<1> QED
  BY <1>3, <1>4, <1>5 DEF CountersReached

\* The streaming task's local counter: each number it counts has been stored, by its own
\* append or by the one that took the number from it.
LEMMA StreamCounters ==
  ASSUME Inv, Inv', NEW t \in Turns, Stream(t), CountersReached
  PROVE  CountersReached'
<1> USE DEF Inv, TypeOK, CallTypes, TaskTypes, On, Move
<1>1. /\ LatestSeq \in Nat /\ LatestSeq' \in Nat /\ LatestSeq <= LatestSeq'
      /\ Seqs \subseteq Seqs' /\ \A m \in Seqs' : m <= LatestSeq'
  BY LatestGrows DEF Next
<1>2. \A p \in Actors : base[p] \in Nat
  OBVIOUS
<1>3. UNCHANGED <<pc, base>>
  BY DEF Stream, StreamText, StreamAsk, StreamAskTurn, StreamAskAppend, StreamDone,
         StreamDoneTurn, StreamDoneThread, StreamDoneAppend, StreamCheckpointRead,
         StreamCheckpointSave, StreamSettle, StreamClosed, StreamPutBack, callVars
<1>4. BasesReached' /\ SendsReached'
  BY <1>1, <1>2, <1>3 DEF CountersReached, BasesReached, SendsReached
<1>5. task[t] # "off" /\ \A u \in Turns \ {t} : task'[u] = task[u]
  BY DEF Stream, StreamText, StreamAsk, StreamAskTurn, StreamAskAppend, StreamDone,
         StreamDoneTurn, StreamDoneThread, StreamDoneAppend, StreamCheckpointRead,
         StreamCheckpointSave, StreamSettle, StreamClosed, StreamPutBack, Record
<1>6. UNCHANGED seq \/ (seq' = [seq EXCEPT ![t] = @ + 1] /\ seq[t] + 1 \in Seqs')
  <2>1. ASSUME NEW e \in Event, e.seq = seq[t] + 1, AppendAnyway(t, e) PROVE seq[t] + 1 \in Seqs'
    BY <2>1 DEF AppendAnyway, Collides, Seqs
  <2>2. ASSUME NEW kind \in EventKinds, NEW next, chan # <<>>, Record(t, kind, next)
        PROVE  seq' = [seq EXCEPT ![t] = @ + 1] /\ seq[t] + 1 \in Seqs'
    <3>1. EventAt(seq[t] + 1, kind, t, Head(chan).of) \in Event
      <4>1. Head(chan) \in ProviderEvent
        BY <2>2 DEF ProvTypes
      <4> QED
        BY <4>1 DEF EventAt, Event, ProviderEvent
    <3> QED
      BY <2>1, <2>2, <3>1 DEF Record, EventAt
  <2>3. CASE StreamText(t) \/ StreamAskAppend(t) \/ StreamDoneAppend(t)
    BY <2>2, <2>3 DEF StreamText, StreamAskAppend, StreamDoneAppend, Receives, EventInHand, EventKinds
  <2>4. CASE StreamSettle(t)
    <3>1. EventAt(seq[t] + 1, "settled", t, t) \in Event
      BY DEF EventAt, Event, EventKinds
    <3>2. EventAt(seq[t] + 1, "settled", t, t).seq = seq[t] + 1
      BY DEF EventAt
    <3>3. AppendAnyway(t, EventAt(seq[t] + 1, "settled", t, t)) /\ seq' = [seq EXCEPT ![t] = @ + 1]
      BY <2>4 DEF StreamSettle
    <3> QED
      BY <2>1, <3>1, <3>2, <3>3
  <2>5. CASE \/ StreamAsk(t) \/ StreamAskTurn(t) \/ StreamDone(t) \/ StreamDoneTurn(t)
             \/ StreamDoneThread(t) \/ StreamCheckpointRead(t) \/ StreamCheckpointSave(t)
             \/ StreamClosed(t) \/ StreamPutBack(t)
    BY <2>5 DEF StreamAsk, StreamAskTurn, StreamDone, StreamDoneTurn, StreamDoneThread,
                StreamCheckpointRead, StreamCheckpointSave, StreamClosed, StreamPutBack
  <2> QED
    BY <2>3, <2>4, <2>5 DEF Stream
<1>7. TasksReached'
  BY <1>1, <1>5, <1>6 DEF CountersReached, TasksReached
<1> QED
  BY <1>4, <1>7 DEF CountersReached

\* Every other step that is no fault.
LEMMA OtherCounters ==
  ASSUME Inv, Inv', CountersReached,
         \/ \E a \in Answers : RespondApproval(a)
         \/ \E c \in Cancels : InterruptTurn(c)
         \/ \E p \in Actors : Broadcast(p)
         \/ Provider \/ Crash \/ Restart \/ UNCHANGED vars
  PROVE  CountersReached'
<1> USE DEF Inv, TypeOK, CallTypes, TaskTypes, At, Go
<1>0. Actors \subseteq Calls /\ Turns \subseteq Actors
  BY DEF Calls, Actors
<1>1. /\ LatestSeq \in Nat /\ LatestSeq' \in Nat /\ LatestSeq <= LatestSeq'
  BY LatestGrows DEF Next
<1>2. \A p \in Actors : base[p] \in Nat /\ base'[p] \in Nat
  OBVIOUS
<1>3. CASE \E a \in Answers : RespondApproval(a)
  <2> PICK a \in Answers : RespondApproval(a)
    BY <1>3
  <2>1. UNCHANGED <<task, seq>>
    BY DEF RespondApproval, AnswerBegin, AnswerDeliver, AnswerReadSeq, AnswerAppend,
           AnswerSaveThread, taskVars
  <2>2. UNCHANGED base \/ base' = [base EXCEPT ![a] = LatestSeq]
    BY DEF RespondApproval, AnswerBegin, AnswerDeliver, AnswerReadSeq, AnswerAppend,
           AnswerSaveThread
  <2>3. \E s \in {"rejected", "respond", "read", "append", "resume", "ok", "error"} :
          pc' = [pc EXCEPT ![a] = s]
    BY DEF RespondApproval, AnswerBegin, AnswerDeliver, AnswerReadSeq, AnswerAppend,
           AnswerSaveThread, AppendOrFail
  <2>4. a \in Actors
    BY DEF Actors
  <2>5. BasesReached'
    BY <1>1, <1>2, <2>2, <2>4 DEF CountersReached, BasesReached
  <2>6. SendsReached'
    BY <1>0, <1>1, <1>2, <2>2, <2>3, <2>4 DEF CountersReached, SendsReached
  <2>7. TasksReached'
    BY <1>1, <2>1 DEF CountersReached, TasksReached
  <2> QED
    BY <2>5, <2>6, <2>7 DEF CountersReached
<1>4. CASE Crash
  <2>1. UNCHANGED base /\ \A p \in Calls : pc'[p] \in {"new", "gone"}
    BY <1>4 DEF Crash
  <2>2. \A t \in Turns : task'[t] = "off"
    BY <1>4 DEF Crash
  <2> QED
    BY <1>0, <1>1, <1>2, <2>1, <2>2 DEF CountersReached, BasesReached, SendsReached, TasksReached
<1>5. CASE \/ \E c \in Cancels : InterruptTurn(c)
           \/ \E p \in Actors : Broadcast(p)
           \/ Provider \/ Restart \/ UNCHANGED vars
  <2>1. UNCHANGED <<base, task, seq>>
    BY <1>5 DEF InterruptTurn, CancelBegin, CancelDeliver, CancelSaveThread, CancelListTurns,
                CancelMarkTurn, Broadcast, Provider, ProviderText, ProviderAsk, ProviderFinish,
                ProviderDies, Restart, ReconcileTurns, ReconcileThread, vars, callVars, taskVars
  <2>2. \A p \in Actors : pc'[p] = pc[p]
    <3>1. ASSUME NEW c \in Cancels, InterruptTurn(c), NEW p \in Actors PROVE pc'[p] = pc[p]
      BY <3>1, CallsAssumption DEF InterruptTurn, CancelBegin, CancelDeliver, CancelSaveThread,
           CancelListTurns, CancelMarkTurn, Calls, Actors
    <3>2. CASE \/ \E p \in Actors : Broadcast(p)
               \/ Provider \/ Restart \/ UNCHANGED vars
      BY <3>2 DEF Broadcast, Provider, ProviderText, ProviderAsk, ProviderFinish,
                ProviderDies, Restart, ReconcileTurns, ReconcileThread, vars, callVars
    <3> QED
      BY <1>5, <3>1, <3>2
  <2> QED
    BY <1>1, <1>2, <2>1, <2>2
       DEF CountersReached, BasesReached, SendsReached, TasksReached
<1> QED
  BY <1>3, <1>4, <1>5

\* A fault is counted, so it is no step of the runs without faults.
LEMMA FaultsCounted ==
  ASSUME [Next]_vars
  PROVE  \/ UNCHANGED faults /\ ~Faults
         \/ faults < MaxFaults /\ faults' = faults + 1
<1>1. CASE Faults
  BY <1>1 DEF Faults, CallFault, SkipFault, StreamAppendFault, StreamRowFault, StreamEntryFault,
              ReconcileFault, Fault
<1>2. CASE ~Faults
  BY <1>2 DEF Next, SendTurn, SendBegin, SendReadSeq, SendSaveTurn, SendSaveThread,
         SendAppendRequested, SendAppendStarted, SendLookup, SendStartSession, SendPrompt,
         SendTakeReceiver, RespondApproval, AnswerBegin, AnswerDeliver, AnswerReadSeq,
         AnswerAppend, AnswerSaveThread, InterruptTurn, CancelBegin, CancelDeliver,
         CancelSaveThread, CancelListTurns, CancelMarkTurn, Stream, StreamText, StreamAsk,
         StreamAskTurn, StreamAskAppend, StreamDone, StreamDoneTurn, StreamDoneThread,
         StreamDoneAppend, StreamCheckpointRead, StreamCheckpointSave, StreamSettle, StreamClosed,
         StreamPutBack, Provider, ProviderText, ProviderAsk, ProviderFinish, ProviderDies,
         Crash, Restart, ReconcileTurns, ReconcileThread, Broadcast, usedVars, vars
<1> QED
  BY <1>1, <1>2

\* Every step keeps the seqs without a gap and the counters within them.
LEMMA GapStep == ASSUME Inv, Inv', GapInv, [Next]_vars PROVE GapInv'
<1> SUFFICES ASSUME faults' = 0
             PROVE  Contiguous' /\ CountersReached'
  BY DEF GapInv, CountersReached
<1>1. faults = 0 /\ ~Faults
  <2>1. faults \in Nat
    BY DEF Inv, TypeOK, UsedTypes
  <2> QED
    BY <2>1, FaultsCounted
<1>2. Contiguous /\ CountersReached
  BY <1>1 DEF GapInv, CountersReached
<1>3. Contiguous'
  BY <1>2, ContiguousStep DEF CountersReached
<1>4. CountersReached'
  BY <1>1, <1>2, SendCounters, StreamCounters, OtherCounters DEF Next
<1> QED
  BY <1>3, <1>4

\* However calls, tasks and crashes interleave, and however often two writers count up to
\* the same seq, append_event leaves no gap: seqs 1 to the latest are all stored.
THEOREM NoGaps == Spec => []LogGapFree
<1>1. Init => Inv /\ GapInv
  BY InitInv, InitGap
<1>2. Inv /\ GapInv /\ [Next]_vars => Inv' /\ GapInv'
  BY InvStep, GapStep
<1>3. Inv /\ GapInv => LogGapFree
  BY DEF GapInv, Contiguous, LogGapFree
<1> QED
  BY <1>1, <1>2, <1>3, PTL DEF Spec

-----------------------------------------------------------------------------
(* The events table implements the abstract event log *)

\* UNIQUE(thread_id, seq): no two rows of the table have one seq.
UniqueSeqs == \A e, f \in log : e.seq = f.seq => e = f

\* No step stores a second row under a seq: append_event's INSERT fails instead.
LEMMA UniqueStep == ASSUME Inv, UniqueSeqs, [Next]_vars PROVE UniqueSeqs'
<1>1. CASE UNCHANGED log
  BY <1>1 DEF UniqueSeqs
<1>2. ASSUME NEW e \in Event, log' = log \cup {e}, e.seq \notin Seqs PROVE UniqueSeqs'
  BY <1>2 DEF UniqueSeqs, Seqs
<1> QED
  BY <1>1, <1>2, LogStep

EntrySet == [kind : EventKinds, turn : Turns \cup {None}, of : Turns \cup {None}]
EntryOf(e) == [kind |-> e.kind, turn |-> e.turn, of |-> e.of]
Entries == [n \in 1..LatestSeq |-> [kind |-> StoredAt(n).kind,
                                    turn |-> StoredAt(n).turn,
                                    of   |-> StoredAt(n).of]]

\* The rows of a table without gaps or duplicate seqs are a sequence, in the order of seq.
LEMMA EntriesAreASequence ==
  TypeOK /\ HasLatest /\ Contiguous => Entries \in Seq(EntrySet) /\ Len(Entries) = LatestSeq
<1> SUFFICES ASSUME TypeOK, HasLatest, Contiguous
             PROVE  Entries \in Seq(EntrySet) /\ Len(Entries) = LatestSeq
  OBVIOUS
<1>1. LatestSeq \in Nat
  BY LatestIsNat
<1>2. ASSUME NEW n \in 1..LatestSeq PROVE StoredAt(n) \in Event
  <2>1. \E e \in log : e.seq = n
    BY DEF Contiguous, Seqs
  <2> QED
    BY <2>1 DEF StoredAt, TypeOK, StoreTypes
<1>3. \A n \in 1..LatestSeq : Entries[n] \in EntrySet
  BY <1>2 DEF Entries, EntrySet, Event
<1>4. Entries \in [1..LatestSeq -> EntrySet]
  BY <1>3 DEF Entries
<1> QED
  BY <1>1, <1>4

\* One more event in the table is one more entry, after those there were.
LEMMA EntriesStep ==
  ASSUME Inv, Inv', Contiguous, Contiguous', UniqueSeqs', [Next]_vars
  PROVE  \/ UNCHANGED Entries
         \/ /\ Len(Entries') = Len(Entries) + 1
            /\ Entries'[Len(Entries')] \in EntrySet
            /\ \A n \in 1..Len(Entries) : Entries'[n] = Entries[n]
<1>1. CASE UNCHANGED log
  BY <1>1 DEF Entries, StoredAt, LatestSeq, Seqs
<1>2. ASSUME NEW e \in Event, log' = log \cup {e}, e.seq \notin Seqs
      PROVE  /\ Len(Entries') = Len(Entries) + 1
             /\ Entries'[Len(Entries')] \in EntrySet
             /\ \A n \in 1..Len(Entries) : Entries'[n] = Entries[n]
  <2>1. LatestSeq \in Nat /\ LatestSeq' \in Nat /\ LatestSeq <= LatestSeq'
    BY LatestGrows
  <2>2. LatestSeq' = LatestSeq + 1
    <3>1. 1..LatestSeq' = (1..LatestSeq) \cup {e.seq} /\ e.seq \notin 1..LatestSeq /\ e.seq \in Nat
      BY <1>2 DEF Contiguous, Seqs, Event
    <3>2. e.seq \in LatestSeq + 1..LatestSeq'
      BY <2>1, <3>1
    <3>3. LatestSeq + 1 = e.seq
      BY <2>1, <3>1, <3>2
    <3>4. LatestSeq' = e.seq
      BY <2>1, <3>1, <3>2
    <3> QED
      BY <3>3, <3>4
  <2>3. Len(Entries) = LatestSeq
    BY EntriesAreASequence DEF Inv
  <2>4. Entries' \in Seq(EntrySet) /\ Len(Entries') = LatestSeq'
    <3>1. (TypeOK /\ HasLatest /\ Contiguous)'
      BY DEF Inv
    <3>2. (Entries \in Seq(EntrySet) /\ Len(Entries) = LatestSeq)'
      BY <3>1, EntriesAreASequence, PTL
    <3> QED
      BY <3>2 DEF EntrySet
  <2>5. ASSUME NEW n \in 1..LatestSeq PROVE (StoredAt(n))' = StoredAt(n)
    <3>1. \E f \in log : f.seq = n
      BY DEF Contiguous, Seqs
    <3>2. StoredAt(n) \in log /\ StoredAt(n).seq = n
      BY <3>1 DEF StoredAt
    <3>3. StoredAt(n) \in log'
      BY <1>2, <3>2
    <3>4. \A f \in log' : f.seq = n => f = StoredAt(n)
      BY <3>2, <3>3 DEF UniqueSeqs
    <3>5. (StoredAt(n))' = CHOOSE f \in log' : f.seq = n
      BY DEF StoredAt
    <3>6. (StoredAt(n))' \in log' /\ (StoredAt(n))'.seq = n
      BY <3>2, <3>3, <3>5
    <3> QED
      BY <3>4, <3>6
  <2>6. ASSUME NEW n \in 1..LatestSeq PROVE Entries'[n] = Entries[n]
    <3>1. n \in 1..LatestSeq'
      BY <2>1, <2>2
    <3> QED
      BY <2>5, <3>1 DEF Entries
  <2> QED
    BY <2>1, <2>2, <2>3, <2>4, <2>6
<1> QED
  BY <1>1, <1>2, LogStep

\* As long as store calls do not fail, whoever reads events after its last seq misses none:
\* the rows of the table are an event log that grows at its end, whatever the interleaving
\* of send_turn, respond_approval, the streaming tasks and crashes.
THEOREM EventsImplementLog == ASSUME MaxFaults = 0 PROVE Spec => ImplementsEventLog
<1> DEFINE RefInv == Inv /\ GapInv /\ UniqueSeqs /\ faults = 0
<1>1. Init => RefInv
  <2>1. Init => UniqueSeqs /\ faults = 0
    BY DEF Init, UniqueSeqs
  <2> QED
    BY <2>1, InitInv, InitGap
<1>2. RefInv /\ [Next]_vars => RefInv'
  <2>1. ASSUME RefInv, [Next]_vars PROVE faults' = 0
    BY <2>1, FaultsCounted
  <2> QED
    BY <2>1, InvStep, GapStep, UniqueStep
<1>3. Init => Log!Init
  <2> SUFFICES ASSUME Init PROVE Log!Init
    OBVIOUS
  <2>1. LatestSeq = 0
    BY DEF Init, Seqs, LatestSeq, MaxSeq
  <2> QED
    BY <2>1 DEF Log!Init
<1>4. RefInv /\ RefInv' /\ [Next]_vars => [Log!Insert]_Entries
  <2> SUFFICES ASSUME RefInv, RefInv', [Next]_vars PROVE [Log!Insert]_Entries
    OBVIOUS
  <2>1. Contiguous /\ Contiguous'
    BY DEF GapInv
  <2> QED
    BY <2>1, EntriesStep DEF Log!Insert, Entries, EntrySet
<1> QED
  BY <1>1, <1>2, <1>3, <1>4, PTL DEF Spec, ImplementsEventLog, Log!Spec, Entries

-----------------------------------------------------------------------------
(***************************************************************************)
(* The rows ThreadLifecycle writes: what the turns' rows, the thread's     *)
(* row, the stored events and the resume token say of each other after any *)
(* interleaving of calls, streaming tasks, deaths and restarts.            *)
(***************************************************************************)

\* Past the completion: the task appends it, records a checkpoint and settles.
Closing == {"done_append", "ckpt_read", "ckpt_save", "settle", "put_back", "off"}

\* Before it: the task receives an event or handles the one in hand.
Streaming == {"recv", "ask_turn", "ask_append", "done_turn", "done_thread"}

\* The steps of send_turn after the turn's row was saved.
SendSaved == {"save_thread", "append_req", "append_start", "lookup", "start", "send", "take"}

\* A turn's row and who may still write it: the call that saved it, then its task.
RowOrder(t) ==
  /\ task[t] # "off" => pc[t] = "ok"
  /\ pc[t] \in SendSaved \cup {"ok"} => turn[t] # "none"
  /\ task[t] = "ckpt_save" => copy[t] # "none"

\* Once a turn's row is finished its call has returned and its task is past writing it,
\* save for the copy it read back.
RowFinal(t) ==
  turn[t] \in Finished =>
    /\ pc[t] \in {"ok", "gone"}
    /\ task[t] \in Closing \cup {"done_thread"}
    /\ task[t] = "ckpt_save" => copy[t] \in Outcomes

\* A server that is not up runs nothing.
NothingRuns ==
  server # "up" => /\ \A p \in Calls : pc[p] \in {"new", "gone"}
                   /\ \A t \in Turns : task[t] = "off"

RowInv == NothingRuns /\ \A t \in Turns : RowOrder(t) /\ RowFinal(t)

\* While no store call has failed: from the completion on the row holds the outcome,
OutcomeKept(t) ==
  /\ task[t] \in {"done_thread", "done_append", "ckpt_read", "ckpt_save", "settle"} =>
       turn[t] \in Outcomes
  /\ task[t] = "ckpt_save" => copy[t] \in Outcomes

\* what the events table says of a turn its row says too,
Reported(t) ==
  \A e \in log :
    e.turn = t =>
      /\ turn[t] # "none"
      /\ e.kind \in {"completed", "settled"} =>
           /\ turn[t] \in Outcomes
           /\ pc[t] \in {"ok", "gone"} /\ task[t] \in Closing \ {"done_append"}

\* a provider's token is saved before the outcome is,
TokenKept(t) ==
  IssuesToken =>
    /\ task[t] = "done_turn" => token
    /\ turn[t] \in Finished => token
    /\ task[t] = "ckpt_save" /\ copy[t] \in Finished => token

\* and what a restarted server finds active, it started.
ActiveIsOurs(t) ==
  turn[t] \in Active => server # "reconciling" /\ (server = "up" => pc[t] \notin {"new", "gone"})
BusyIsOurs ==
  server = "up" /\ thread # "idle" =>
    \E p \in Actors : pc[p] \in (SendSaved \ {"save_thread"}) \cup {"ok", "error"}

\* only an answer's event is recorded under no turn,
Attributed == \A e \in log : e.turn = None => e.kind = "resolved"

Kept ==
  /\ BusyIsOurs /\ Attributed
  /\ \A t \in Turns : OutcomeKept(t) /\ Reported(t) /\ TokenKept(t) /\ ActiveIsOurs(t)
KeptInv == faults = 0 => Kept

-----------------------------------------------------------------------------
(* A turn's row *)

\* None is nobody's name.
LEMMA NoneIsNoTurn == None \notin Turns /\ None \notin Answers
BY CallsAssumption DEF Calls

\* No row, no call, no task.
LEMMA InitRows == Init => RowInv
BY DEF Init, RowInv, NothingRuns, RowOrder, RowFinal, Finished, SendSaved, Calls

\* send_turn saves the row once, before its call returns and its task begins.
LEMMA SendRows == ASSUME Inv, RowInv, NEW t \in Turns, SendTurn(t) PROVE RowInv'
<1> USE DEF Inv, TypeOK, StoreTypes, CallTypes, TaskTypes, At, Go
<1>0. t \in Calls /\ Turns \subseteq Calls /\ RowOrder(t) /\ RowFinal(t)
  BY DEF Calls, RowInv
<1>1. server = "up" /\ server' = "up" /\ pc[t] \notin {"ok", "gone"} /\ task[t] = "off"
  BY <1>0 DEF SendTurn, SendBegin, SendReadSeq, SendSaveTurn, SendSaveThread, SendAppendRequested,
     SendAppendStarted, SendLookup, SendStartSession, SendPrompt, SendTakeReceiver, RowOrder
<1>2. turn[t] \notin Finished
  BY <1>0, <1>1 DEF RowFinal
<1>3. /\ \A u \in Turns \ {t} : pc'[u] = pc[u] /\ turn'[u] = turn[u] /\ task'[u] = task[u]
      /\ UNCHANGED copy
  BY <1>0 DEF SendTurn, SendBegin, SendReadSeq, SendSaveTurn, SendSaveThread, SendAppendRequested,
     SendAppendStarted, SendLookup, SendStartSession, SendPrompt, SendTakeReceiver, AppendOrFail,
     storeVars, taskVars
<1>4. \A u \in Turns \ {t} : RowOrder(u)' /\ RowFinal(u)'
  BY <1>3 DEF RowInv, RowOrder, RowFinal
<1>5. RowOrder(t)' /\ RowFinal(t)'
  <2>1. CASE SendBegin(t)
    BY <1>0, <1>1, <1>2, <2>1 DEF SendBegin, RowOrder, RowFinal, SendSaved, Finished, storeVars, taskVars
  <2>2. CASE SendReadSeq(t)
    BY <1>0, <1>1, <1>2, <2>2 DEF SendReadSeq, RowOrder, RowFinal, SendSaved, Finished, storeVars, taskVars
  <2>3. CASE SendSaveTurn(t)
    BY <1>0, <1>1, <1>2, <2>3 DEF SendSaveTurn, RowOrder, RowFinal, SendSaved, Finished, storeVars, taskVars
  <2>4. CASE SendSaveThread(t)
    BY <1>0, <1>1, <1>2, <2>4 DEF SendSaveThread, RowOrder, RowFinal, SendSaved, Finished, storeVars, taskVars
  <2>5. CASE SendAppendRequested(t)
    BY <1>0, <1>1, <1>2, <2>5 DEF SendAppendRequested, RowOrder, RowFinal, SendSaved, Finished, storeVars, taskVars, AppendOrFail
  <2>6. CASE SendAppendStarted(t)
    BY <1>0, <1>1, <1>2, <2>6 DEF SendAppendStarted, RowOrder, RowFinal, SendSaved, Finished, storeVars, taskVars, AppendOrFail
  <2>7. CASE SendLookup(t)
    BY <1>0, <1>1, <1>2, <2>7 DEF SendLookup, RowOrder, RowFinal, SendSaved, Finished, storeVars, taskVars
  <2>8. CASE SendStartSession(t)
    BY <1>0, <1>1, <1>2, <2>8 DEF SendStartSession, RowOrder, RowFinal, SendSaved, Finished, storeVars, taskVars
  <2>9. CASE SendPrompt(t)
    BY <1>0, <1>1, <1>2, <2>9 DEF SendPrompt, RowOrder, RowFinal, SendSaved, Finished, storeVars, taskVars
  <2>10. CASE SendTakeReceiver(t)
    BY <1>0, <1>1, <1>2, <2>10 DEF SendTakeReceiver, RowOrder, RowFinal, SendSaved, Finished, storeVars, taskVars
  <2> QED
    BY <2>1, <2>2, <2>3, <2>4, <2>5, <2>6, <2>7, <2>8, <2>9, <2>10 DEF SendTurn
<1> QED
  BY <1>1, <1>4, <1>5 DEF RowInv, NothingRuns

\* respond_approval writes no turn's row; interrupt_turn writes only "interrupted", and
\* that over rows it has listed.
LEMMA CallRows ==
  ASSUME Inv, RowInv, \/ \E a \in Answers : RespondApproval(a)
                      \/ \E c \in Cancels : InterruptTurn(c)
  PROVE  RowInv'
<1> USE DEF Inv, TypeOK, StoreTypes, CallTypes, TaskTypes, At, Go
<1>0. server = "up" /\ server' = "up" /\ UNCHANGED <<task, copy>>
  BY DEF RespondApproval, AnswerBegin, AnswerDeliver, AnswerReadSeq, AnswerAppend, AnswerSaveThread,
         InterruptTurn, CancelBegin, CancelDeliver, CancelSaveThread, CancelListTurns,
         CancelMarkTurn, taskVars
<1>1. \A u \in Turns : pc'[u] = pc[u] /\ turn'[u] \in {turn[u], "interrupted"}
  <2>1. ASSUME NEW a \in Answers, RespondApproval(a), NEW u \in Turns
        PROVE  pc'[u] = pc[u] /\ turn'[u] = turn[u]
    BY <2>1, CallsAssumption
       DEF RespondApproval, AnswerBegin, AnswerDeliver, AnswerReadSeq, AnswerAppend,
           AnswerSaveThread, AppendOrFail, Calls, storeVars
  <2>2. ASSUME NEW c \in Cancels, InterruptTurn(c), NEW u \in Turns
        PROVE  pc'[u] = pc[u] /\ turn'[u] \in {turn[u], "interrupted"}
    <3>1. CASE CancelMarkTurn(c)
      <4>1. pc'[u] = pc[u]
        BY <3>1, CallsAssumption DEF CancelMarkTurn, Calls
      <4>2. UNCHANGED turn \/ \E t \in snap[c] : turn' = [turn EXCEPT ![t] = "interrupted"]
        BY <3>1 DEF CancelMarkTurn
      <4> QED
        BY <4>1, <4>2
    <3> QED
      BY <2>2, <3>1, CallsAssumption
         DEF InterruptTurn, CancelBegin, CancelDeliver, CancelSaveThread, CancelListTurns, Calls,
             storeVars
  <2> QED
    BY <2>1, <2>2
<1>2. \A u \in Turns : RowOrder(u)' /\ RowFinal(u)'
  BY <1>0, <1>1 DEF RowInv, RowOrder, RowFinal, Finished
<1> QED
  BY <1>0, <1>2 DEF RowInv, NothingRuns

\* The task writes its turn's row from the event in hand, and from a copy it read after that.
LEMMA StreamRows == ASSUME Inv, RowInv, NEW t \in Turns, Stream(t) PROVE RowInv'
<1> USE DEF Inv, TypeOK, StoreTypes, CallTypes, TaskTypes, On, Move
<1>0. RowOrder(t) /\ RowFinal(t)
  BY DEF RowInv
<1>1. server = "up" /\ server' = "up" /\ task[t] # "off" /\ pc[t] = "ok" /\ UNCHANGED pc
  BY <1>0 DEF Stream, StreamText, StreamAsk, StreamAskTurn, StreamAskAppend, StreamDone,
         StreamDoneTurn, StreamDoneThread, StreamDoneAppend, StreamCheckpointRead,
         StreamCheckpointSave, StreamSettle, StreamClosed, StreamPutBack, callVars, RowOrder
<1>2. \A u \in Turns \ {t} : turn'[u] = turn[u] /\ task'[u] = task[u] /\ copy'[u] = copy[u]
  BY DEF Stream, StreamText, StreamAsk, StreamAskTurn, StreamAskAppend, StreamDone,
         StreamDoneTurn, StreamDoneThread, StreamDoneAppend, StreamCheckpointRead,
         StreamCheckpointSave, StreamSettle, StreamClosed, StreamPutBack, Record, storeVars
<1>3. \A u \in Turns \ {t} : RowOrder(u)' /\ RowFinal(u)'
  BY <1>1, <1>2 DEF RowInv, RowOrder, RowFinal
<1>4. RowOrder(t)' /\ RowFinal(t)'
  <2> USE <1>0, <1>1 DEF RowOrder, RowFinal, Finished, Outcomes, Closing, storeVars
  <2>1. CASE StreamText(t)
    BY <2>1 DEF StreamText, Record
  <2>2. CASE StreamAsk(t)
    BY <2>2 DEF StreamAsk
  <2>3. CASE StreamAskTurn(t)
    BY <2>3 DEF StreamAskTurn
  <2>4. CASE StreamAskAppend(t)
    BY <2>4 DEF StreamAskAppend, Record
  <2>5. CASE StreamDone(t)
    BY <2>5 DEF StreamDone
  <2>6. CASE StreamDoneTurn(t)
    BY <2>6 DEF StreamDoneTurn, EventInHand
  <2>7. CASE StreamDoneThread(t)
    BY <2>7 DEF StreamDoneThread
  <2>8. CASE StreamDoneAppend(t)
    BY <2>8 DEF StreamDoneAppend, Record
  <2>9. CASE StreamCheckpointRead(t)
    BY <2>9 DEF StreamCheckpointRead
  <2>10. CASE StreamCheckpointSave(t)
    BY <2>10 DEF StreamCheckpointSave
  <2>11. CASE StreamSettle(t)
    BY <2>11 DEF StreamSettle
  <2>12. CASE StreamClosed(t)
    BY <2>12 DEF StreamClosed
  <2>13. CASE StreamPutBack(t)
    BY <2>13 DEF StreamPutBack
  <2> QED
    BY <2>1, <2>2, <2>3, <2>4, <2>5, <2>6, <2>7, <2>8, <2>9, <2>10, <2>11, <2>12, <2>13 DEF Stream
<1> QED
  BY <1>1, <1>3, <1>4 DEF RowInv, NothingRuns

\* Broadcasts and the provider touch no row; a crash ends whoever wrote one, and a restart
\* makes none finished.
LEMMA OtherRows ==
  ASSUME Inv, RowInv,
         Provider \/ Crash \/ Restart \/ UNCHANGED vars \/ \E p \in Actors : Broadcast(p)
  PROVE  RowInv'
<1> USE DEF Inv, TypeOK, StoreTypes, CallTypes, TaskTypes
<1>1. CASE Crash
  <2>1. server' = "down" /\ UNCHANGED turn
        /\ (\A p \in Calls : pc'[p] = IF pc[p] = "new" THEN "new" ELSE "gone")
        /\ \A t \in Turns : task'[t] = "off"
    BY <1>1 DEF Crash, storeVars
  <2>2. Turns \subseteq Calls
    BY DEF Calls
  <2> QED
    BY <2>1, <2>2 DEF RowInv, NothingRuns, RowOrder, RowFinal, SendSaved, Closing
<1>2. CASE ReconcileTurns
  <2>1. UNCHANGED <<pc, task, copy>> /\ server # "up"
        /\ \A t \in Turns : turn'[t] = IF turn[t] \in Active THEN "interrupted" ELSE turn[t]
    BY <1>2 DEF ReconcileTurns, callVars, taskVars
  <2> QED
    BY <2>1 DEF RowInv, NothingRuns, RowOrder, RowFinal, Finished
<1>3. CASE Provider \/ ReconcileThread \/ UNCHANGED vars \/ \E p \in Actors : Broadcast(p)
  <2>1. UNCHANGED <<turn, task, copy, pc>> /\ (UNCHANGED server \/ server' = "up")
    BY <1>3 DEF Provider, ProviderText, ProviderAsk, ProviderFinish, ProviderDies, ReconcileThread,
                Broadcast, vars, storeVars, callVars, taskVars
  <2> QED
    BY <2>1 DEF RowInv, NothingRuns, RowOrder, RowFinal
<1> QED
  BY <1>1, <1>2, <1>3 DEF Restart

\* A store call that fails writes no row; a call it fails ends, a task goes on.
LEMMA FaultRows == ASSUME Inv, RowInv, Faults PROVE RowInv'
<1> USE DEF Inv, TypeOK, StoreTypes, CallTypes, TaskTypes, Go, Move
<1>1. ASSUME NEW p \in Actors, CallFault(p) PROVE RowInv'
  <2>1. /\ server = "up" /\ server' = "up" /\ UNCHANGED <<turn, task, copy>>
        /\ pc' = [pc EXCEPT ![p] = "error"] /\ pc[p] \notin {"ok", "gone"}
    BY <1>1 DEF CallFault, storeVars, taskVars
  <2>2. Turns \subseteq Calls /\ p \in Calls
    BY DEF Calls, Actors
  <2> QED
    BY <2>1, <2>2 DEF RowInv, NothingRuns, RowOrder, RowFinal, SendSaved
<1>2. ASSUME NEW p \in Answers \cup Cancels, SkipFault(p) PROVE RowInv'
  <2>1. server = "up" /\ server' = "up" /\ UNCHANGED <<turn, task, copy>>
    BY <1>2 DEF SkipFault, storeVars, taskVars
  <2>2. \A u \in Turns : pc'[u] = pc[u]
    BY <1>2, CallsAssumption DEF SkipFault, Calls
  <2> QED
    BY <2>1, <2>2 DEF RowInv, NothingRuns, RowOrder, RowFinal
<1>3. ASSUME NEW t \in Turns, StreamAppendFault(t) PROVE RowInv'
  <2>1. /\ server = "up" /\ server' = "up" /\ UNCHANGED <<turn, pc, copy>>
        /\ \/ task[t] = "recv" /\ task' = [task EXCEPT ![t] = "recv"]
           \/ task[t] = "ask_append" /\ task' = [task EXCEPT ![t] = "recv"]
           \/ task[t] = "done_append" /\ task' = [task EXCEPT ![t] = "ckpt_read"]
           \/ task[t] = "settle" /\ task' = [task EXCEPT ![t] = "put_back"]
    BY <1>3 DEF StreamAppendFault, storeVars, callVars
  <2> QED
    BY <2>1 DEF RowInv, NothingRuns, RowOrder, RowFinal, Closing
<1>4. ASSUME NEW t \in Turns, StreamRowFault(t) PROVE RowInv'
  <2>1. /\ server = "up" /\ server' = "up" /\ UNCHANGED <<turn, pc>>
        /\ copy' = [copy EXCEPT ![t] = "none"]
    BY <1>4 DEF StreamRowFault, storeVars, callVars
  <2>2. \/ task[t] = "ask_turn" /\ task' = [task EXCEPT ![t] = "ask_append"]
        \/ task[t] = "done_turn" /\ task' = [task EXCEPT ![t] = "done_thread"]
        \/ task[t] = "done_thread" /\ task' = [task EXCEPT ![t] = "done_append"]
        \/ task[t] \in {"ckpt_read", "ckpt_save"} /\ task' = [task EXCEPT ![t] = "settle"]
    <3>1. PICK step \in {<<"ask_turn", "ask_append">>, <<"done_turn", "done_thread">>,
                         <<"done_thread", "done_append">>, <<"ckpt_read", "settle">>,
                         <<"ckpt_save", "settle">>} :
            task[t] = step[1] /\ task' = [task EXCEPT ![t] = step[2]]
      BY <1>4 DEF StreamRowFault
    <3>2. \/ step[1] = "ask_turn" /\ step[2] = "ask_append"
          \/ step[1] = "done_turn" /\ step[2] = "done_thread"
          \/ step[1] = "done_thread" /\ step[2] = "done_append"
          \/ step[1] \in {"ckpt_read", "ckpt_save"} /\ step[2] = "settle"
      OBVIOUS
    <3> QED
      BY <3>1, <3>2
  <2> QED
    BY <2>1, <2>2 DEF RowInv, NothingRuns, RowOrder, RowFinal, Closing
<1>5. ASSUME NEW t \in Turns, StreamEntryFault(t) PROVE RowInv'
  <2>1. /\ server = "up" /\ server' = "up" /\ UNCHANGED <<turn, pc, copy>> /\ task[t] = "recv"
        /\ \E s \in {"ask_turn", "done_turn"} : task' = [task EXCEPT ![t] = s]
    BY <1>5 DEF StreamEntryFault, storeVars, callVars, On
  <2> QED
    BY <2>1 DEF RowInv, NothingRuns, RowOrder, RowFinal, Closing
<1>6. CASE ReconcileFault
  BY <1>6 DEF ReconcileFault, RowInv, NothingRuns, RowOrder, RowFinal, storeVars, callVars, taskVars
<1> QED
  BY <1>1, <1>2, <1>3, <1>4, <1>5, <1>6 DEF Faults

\* Every step keeps the rows in order.
LEMMA RowStep == ASSUME Inv, RowInv, [Next]_vars PROVE RowInv'
BY SendRows, CallRows, StreamRows, OtherRows, FaultRows DEF Next
\* Who writes a turn's row, and what: the call that runs it, its task, a cancel, a restart.
LEMMA RowWrites ==
  ASSUME Inv, [Next]_vars, NEW t \in Turns
  PROVE  \/ turn'[t] = turn[t]
         \/ pc[t] = "save_turn" /\ turn'[t] = "running"
         \/ task[t] = "ask_turn" /\ turn'[t] = "awaiting_approval"
         \/ task[t] = "done_turn" /\ turn'[t] \in Outcomes
         \/ task[t] = "ckpt_save" /\ turn'[t] = copy[t]
         \/ turn'[t] = "interrupted"
<1> USE DEF Inv, TypeOK, StoreTypes, storeVars
<1>1. ASSUME NEW u \in Turns, SendTurn(u)
      PROVE  turn'[t] = turn[t] \/ (pc[t] = "save_turn" /\ turn'[t] = "running")
  BY <1>1 DEF SendTurn, SendBegin, SendReadSeq, SendSaveTurn, SendSaveThread, SendAppendRequested,
     SendAppendStarted, SendLookup, SendStartSession, SendPrompt, SendTakeReceiver, At
<1>2. ASSUME NEW c \in Cancels, InterruptTurn(c)
      PROVE  turn'[t] = turn[t] \/ turn'[t] = "interrupted"
  <2>1. UNCHANGED turn \/ \E u \in snap[c] : turn' = [turn EXCEPT ![u] = "interrupted"]
    BY <1>2 DEF InterruptTurn, CancelBegin, CancelDeliver, CancelSaveThread, CancelListTurns,
                CancelMarkTurn
  <2> QED
    BY <2>1
<1>3. ASSUME NEW u \in Turns, Stream(u)
      PROVE  \/ turn'[t] = turn[t]
             \/ task[t] = "ask_turn" /\ turn'[t] = "awaiting_approval"
             \/ task[t] = "done_turn" /\ turn'[t] \in Outcomes
             \/ task[t] = "ckpt_save" /\ turn'[t] = copy[t]
  BY <1>3 DEF Stream, StreamText, StreamAsk, StreamAskTurn, StreamAskAppend, StreamDone,
         StreamDoneTurn, StreamDoneThread, StreamDoneAppend, StreamCheckpointRead,
         StreamCheckpointSave, StreamSettle, StreamClosed, StreamPutBack, On, EventInHand
<1>4. ASSUME Restart PROVE turn'[t] = turn[t] \/ turn'[t] = "interrupted"
  BY <1>4 DEF Restart, ReconcileTurns, ReconcileThread
<1>5. ASSUME \/ \E a \in Answers : RespondApproval(a)
             \/ \E p \in Actors : Broadcast(p)
             \/ Provider \/ Crash \/ Faults \/ UNCHANGED vars
      PROVE  UNCHANGED turn
  BY <1>5 DEF RespondApproval, AnswerBegin, AnswerDeliver, AnswerReadSeq, AnswerAppend,
              AnswerSaveThread, Broadcast, Provider, ProviderText, ProviderAsk, ProviderFinish,
              ProviderDies, Crash, Faults, CallFault, SkipFault, StreamAppendFault, StreamRowFault,
              StreamEntryFault, ReconcileFault, vars
<1> QED
  BY <1>1, <1>2, <1>3, <1>4, <1>5 DEF Next

\* Whatever was read before, no writer of a turn's row makes a finished turn active again:
\* neither the checkpoint's copy, nor a late approval, nor a cancel, nor a restart.
THEOREM FinishedTurnsStay == Spec => FinishedStaysFinished
<1>1. Init => Inv /\ RowInv
  BY InitInv, InitRows
<1>2. Inv /\ RowInv /\ [Next]_vars => Inv' /\ RowInv'
  BY InvStep, RowStep
<1>3. ASSUME Inv, RowInv, [Next]_vars, NEW t \in Turns, turn[t] \in Finished
      PROVE  turn'[t] \in Outcomes
  <2>1. RowFinal(t)
    BY <1>3 DEF RowInv
  <2> QED
    BY <1>3, <2>1, RowWrites DEF RowFinal, Outcomes, Closing
<1>4. Inv /\ RowInv /\ [Next]_vars
        => [\A t \in Turns : turn[t] \in Finished => turn'[t] \in Outcomes]_turn
  BY <1>3
<1> QED
  BY <1>1, <1>2, <1>4, PTL DEF Spec, FinishedStaysFinished

-----------------------------------------------------------------------------
(* What the rows, the events and the token say of each other *)

\* Nothing is stored yet.
LEMMA InitKept == Init => KeptInv
BY DEF Init, KeptInv, Kept, Attributed, BusyIsOurs, OutcomeKept, Reported, TokenKept, ActiveIsOurs, Outcomes, Finished,
       Active

\* send_turn: events are appended once the row is there; a call that has begun stays to
\* account for the thread it made busy.
LEMMA SendKept == ASSUME Inv, RowInv, Kept, NEW t \in Turns, SendTurn(t) PROVE Kept'
<1> USE DEF Inv, TypeOK, StoreTypes, CallTypes, TaskTypes, At, Go
<1>0. /\ t \in Calls /\ t \in Actors /\ Turns \subseteq Calls /\ Actors \subseteq Calls
      /\ RowOrder(t) /\ RowFinal(t)
      /\ OutcomeKept(t) /\ Reported(t) /\ TokenKept(t) /\ ActiveIsOurs(t)
  BY DEF Calls, Actors, RowInv, Kept
<1>1. server = "up" /\ server' = "up" /\ pc[t] \notin {"ok", "gone"} /\ task[t] = "off"
  BY <1>0 DEF SendTurn, SendBegin, SendReadSeq, SendSaveTurn, SendSaveThread, SendAppendRequested,
     SendAppendStarted, SendLookup, SendStartSession, SendPrompt, SendTakeReceiver, RowOrder
<1>2. /\ \A p \in Calls \ {t} : pc'[p] = pc[p]
      /\ \A u \in Turns \ {t} : turn'[u] = turn[u] /\ task'[u] = task[u]
      /\ task'[t] \in {"off", "recv"} /\ UNCHANGED <<copy, token>>
  BY <1>0, <1>1 DEF SendTurn, SendBegin, SendReadSeq, SendSaveTurn, SendSaveThread,
     SendAppendRequested, SendAppendStarted, SendLookup, SendStartSession, SendPrompt,
     SendTakeReceiver, AppendOrFail, storeVars, taskVars
<1>3. turn[t] \notin Finished
  BY <1>0, <1>1 DEF RowFinal
<1>4. turn'[t] = turn[t] \/ (turn'[t] = "running" /\ pc[t] = "save_turn")
  BY <1>0 DEF SendTurn, SendBegin, SendReadSeq, SendSaveTurn, SendSaveThread, SendAppendRequested,
     SendAppendStarted, SendLookup, SendStartSession, SendPrompt, SendTakeReceiver, storeVars
<1>5. pc'[t] \notin {"new", "gone"}
  BY <1>0 DEF SendTurn, SendBegin, SendReadSeq, SendSaveTurn, SendSaveThread, SendAppendRequested,
     SendAppendStarted, SendLookup, SendStartSession, SendPrompt, SendTakeReceiver, AppendOrFail
<1>6. BusyIsOurs'
  <2> DEFINE Ours == (SendSaved \ {"save_thread"}) \cup {"ok", "error"}
  <2>1. \/ UNCHANGED thread
        \/ pc'[t] = "append_req"
    BY <1>0 DEF SendTurn, SendBegin, SendReadSeq, SendSaveTurn, SendSaveThread,
       SendAppendRequested, SendAppendStarted, SendLookup, SendStartSession, SendPrompt,
       SendTakeReceiver, storeVars
  <2>2. pc[t] \in Ours => pc'[t] \in Ours
    BY <1>0 DEF SendTurn, SendBegin, SendReadSeq, SendSaveTurn, SendSaveThread,
       SendAppendRequested, SendAppendStarted, SendLookup, SendStartSession, SendPrompt,
       SendTakeReceiver, AppendOrFail, SendSaved
  <2>3. CASE pc'[t] = "append_req"
    BY <1>0, <2>3 DEF BusyIsOurs, SendSaved
  <2>4. CASE UNCHANGED thread
    BY <1>0, <1>1, <1>2, <2>2, <2>4 DEF Kept, BusyIsOurs
  <2> QED
    BY <2>1, <2>3, <2>4
<1>7. \A u \in Turns : OutcomeKept(u)'
  BY <1>2 DEF Kept, OutcomeKept
<1>8. \A u \in Turns : TokenKept(u)'
  BY <1>2, <1>3, <1>4 DEF Kept, TokenKept, Finished
<1>9. \A u \in Turns : ActiveIsOurs(u)'
  BY <1>0, <1>1, <1>2, <1>5 DEF Kept, ActiveIsOurs
<1>10a. \/ UNCHANGED log
      \/ \E e \in Event : /\ log' = log \cup {e} /\ e.turn = t /\ e.kind \in {"requested", "started"}
                          /\ pc[t] \in SendSaved
  <2>1. CASE SendAppendRequested(t)
    <3>1. EventAt(base[t] + 1, "requested", t, t) \in Event
      BY <1>0 DEF EventAt, Event, EventKinds
    <3> QED
      BY <2>1, <3>1 DEF SendAppendRequested, AppendOrFail, EventAt, SendSaved
  <2>2. CASE SendAppendStarted(t)
    <3>1. EventAt(base[t] + 2, "started", t, t) \in Event
      BY <1>0 DEF EventAt, Event, EventKinds
    <3> QED
      BY <2>2, <3>1 DEF SendAppendStarted, AppendOrFail, EventAt, SendSaved
  <2> QED
    BY <2>1, <2>2
       DEF SendTurn, SendBegin, SendReadSeq, SendSaveTurn, SendSaveThread, SendLookup,
           SendStartSession, SendPrompt, SendTakeReceiver, storeVars
<1>10. \A u \in Turns : Reported(u)'
  <2>2. \A u \in Turns \ {t} : Reported(u)'
    BY <1>0, <1>2, <1>10a DEF Kept, Reported
  <2>3. Reported(t)'
    BY <1>0, <1>1, <1>4, <1>10a DEF Reported, RowOrder
  <2> QED
    BY <2>2, <2>3
<1>11. Attributed'
  BY <1>0, <1>10a, NoneIsNoTurn DEF Kept, Attributed
<1> QED
  BY <1>6, <1>7, <1>8, <1>9, <1>10, <1>11 DEF Kept

\* respond_approval makes the thread busy when it returns; an interrupted row still agrees
\* with its events.
LEMMA CallKept ==
  ASSUME Inv, RowInv, Kept, \/ \E a \in Answers : RespondApproval(a)
                            \/ \E c \in Cancels : InterruptTurn(c)
  PROVE  Kept'
<1> USE DEF Inv, TypeOK, StoreTypes, CallTypes, TaskTypes, At, Go
<1>0. Actors \subseteq Calls /\ Turns \subseteq Actors
  BY DEF Calls, Actors
<1>1. server = "up" /\ server' = "up" /\ UNCHANGED <<task, copy, token>>
  BY DEF RespondApproval, AnswerBegin, AnswerDeliver, AnswerReadSeq, AnswerAppend, AnswerSaveThread,
         InterruptTurn, CancelBegin, CancelDeliver, CancelSaveThread, CancelListTurns,
         CancelMarkTurn, taskVars, storeVars
<1>2. CASE \E a \in Answers : RespondApproval(a)
  <2> PICK a \in Answers : RespondApproval(a)
    BY <1>2
  <2>1. a \in Actors /\ a \notin Turns /\ UNCHANGED turn
    BY CallsAssumption DEF Actors, RespondApproval, AnswerBegin, AnswerDeliver, AnswerReadSeq,
       AnswerAppend, AnswerSaveThread, storeVars
  <2>2. \A p \in Actors \ {a} : pc'[p] = pc[p]
    BY <1>0 DEF RespondApproval, AnswerBegin, AnswerDeliver, AnswerReadSeq, AnswerAppend,
                AnswerSaveThread, AppendOrFail
  <2>3. UNCHANGED thread \/ pc'[a] = "ok"
    BY <1>0, <2>1 DEF RespondApproval, AnswerBegin, AnswerDeliver, AnswerReadSeq, AnswerAppend,
                      AnswerSaveThread, storeVars
  <2>4. pc[a] \notin {"ok", "error"} \cup SendSaved
    BY DEF RespondApproval, AnswerBegin, AnswerDeliver, AnswerReadSeq, AnswerAppend,
           AnswerSaveThread, SendSaved
  <2>5. BusyIsOurs'
    BY <1>0, <1>1, <2>1, <2>2, <2>3, <2>4 DEF Kept, BusyIsOurs
  <2>6. UNCHANGED log \/ \E e \in Event : log' = log \cup {e} /\ e.turn = None /\ e.kind = "resolved"
    <3>1. CASE AnswerAppend(a)
      <4>1. EventAt(base[a] + 1, "resolved", None, None) \in Event
        BY <2>1 DEF EventAt, Event, EventKinds
      <4> QED
        BY <3>1, <4>1 DEF AnswerAppend, AppendOrFail, EventAt
    <3> QED
      BY <3>1 DEF RespondApproval, AnswerBegin, AnswerDeliver, AnswerReadSeq, AnswerSaveThread,
                  storeVars
  <2>7. None \notin Turns
    BY NoneIsNoTurn
  <2>8. \A u \in Turns : Reported(u)'
    BY <1>0, <1>1, <2>1, <2>2, <2>6, <2>7 DEF Kept, Reported
  <2>9. \A u \in Turns : OutcomeKept(u)' /\ TokenKept(u)' /\ ActiveIsOurs(u)'
    BY <1>0, <1>1, <2>1, <2>2 DEF Kept, OutcomeKept, TokenKept, ActiveIsOurs
  <2>10. Attributed'
    BY <2>6 DEF Kept, Attributed
  <2> QED
    BY <2>5, <2>8, <2>9, <2>10 DEF Kept
<1>3. CASE \E c \in Cancels : InterruptTurn(c)
  <2> PICK c \in Cancels : InterruptTurn(c)
    BY <1>3
  <2>1. c \notin Actors
    BY CallsAssumption DEF Actors
  <2>2. \A p \in Actors : pc'[p] = pc[p]
    BY <1>0, <2>1 DEF InterruptTurn, CancelBegin, CancelDeliver, CancelSaveThread,
       CancelListTurns, CancelMarkTurn
  <2>3. (UNCHANGED thread \/ thread' = "idle") /\ UNCHANGED log
    BY DEF InterruptTurn, CancelBegin, CancelDeliver, CancelSaveThread, CancelListTurns,
           CancelMarkTurn, storeVars
  <2>4. \A u \in Turns : turn'[u] \in {turn[u], "interrupted"}
    <3>1. UNCHANGED turn \/ \E t \in snap[c] : turn' = [turn EXCEPT ![t] = "interrupted"]
      BY DEF InterruptTurn, CancelBegin, CancelDeliver, CancelSaveThread, CancelListTurns,
             CancelMarkTurn, storeVars
    <3> QED
      BY <3>1
  <2>5. BusyIsOurs'
    BY <1>1, <2>2, <2>3 DEF Kept, BusyIsOurs
  <2>6. \A u \in Turns : /\ OutcomeKept(u)' /\ Reported(u)' /\ TokenKept(u)' /\ ActiveIsOurs(u)'
    BY <1>0, <1>1, <2>2, <2>3, <2>4
       DEF Kept, OutcomeKept, Reported, TokenKept, ActiveIsOurs, Outcomes, Finished, Active
  <2> QED
    BY <2>3, <2>5, <2>6 DEF Kept, Attributed
<1> QED
  BY <1>2, <1>3

\* The streaming task: token, then row, then event, each from the completion in hand; the
\* row read back for the checkpoint still holds an outcome.
LEMMA StreamKept == ASSUME Inv, RowInv, Kept, NEW t \in Turns, Stream(t) PROVE Kept'
<1> USE DEF Inv, TypeOK, StoreTypes, CallTypes, TaskTypes, On, Move
<1>0. /\ RowOrder(t) /\ RowFinal(t) /\ t \in Actors
      /\ OutcomeKept(t) /\ Reported(t) /\ TokenKept(t) /\ ActiveIsOurs(t)
  BY DEF RowInv, Kept, Actors
<1>1. server = "up" /\ server' = "up" /\ task[t] # "off" /\ pc[t] = "ok" /\ UNCHANGED pc
  BY <1>0 DEF Stream, StreamText, StreamAsk, StreamAskTurn, StreamAskAppend, StreamDone,
         StreamDoneTurn, StreamDoneThread, StreamDoneAppend, StreamCheckpointRead,
         StreamCheckpointSave, StreamSettle, StreamClosed, StreamPutBack, callVars, RowOrder
<1>2. /\ \A u \in Turns \ {t} : turn'[u] = turn[u] /\ task'[u] = task[u] /\ copy'[u] = copy[u]
      /\ token => token'
  BY DEF Stream, StreamText, StreamAsk, StreamAskTurn, StreamAskAppend, StreamDone,
         StreamDoneTurn, StreamDoneThread, StreamDoneAppend, StreamCheckpointRead,
         StreamCheckpointSave, StreamSettle, StreamClosed, StreamPutBack, Record, storeVars
<1>3. BusyIsOurs'
  BY <1>0, <1>1 DEF BusyIsOurs
<1>4. \/ UNCHANGED log
      \/ \E e \in Event : /\ log' = log \cup {e} /\ e.turn = t
                          /\ \/ e.kind \in {"text", "asked"}
                             \/ e.kind = "completed" /\ StreamDoneAppend(t)
                             \/ e.kind = "settled" /\ StreamSettle(t)
  <2>1. ASSUME NEW kind \in EventKinds, NEW next, chan # <<>>, Record(t, kind, next)
        PROVE  UNCHANGED log \/ \E e \in Event : log' = log \cup {e} /\ e.turn = t /\ e.kind = kind
    <3>1. EventAt(seq[t] + 1, kind, t, Head(chan).of) \in Event
      <4>1. Head(chan) \in ProviderEvent
        BY <2>1 DEF ProvTypes
      <4> QED
        BY <4>1 DEF EventAt, Event, ProviderEvent
    <3> QED
      BY <2>1, <3>1 DEF Record, AppendAnyway, EventAt
  <2>2. CASE StreamText(t)
    BY <2>1, <2>2 DEF StreamText, Receives, EventKinds
  <2>3. CASE StreamAskAppend(t)
    BY <2>1, <2>3 DEF StreamAskAppend, EventInHand, EventKinds
  <2>4. CASE StreamDoneAppend(t)
    BY <2>1, <2>4 DEF StreamDoneAppend, EventInHand, EventKinds
  <2>5. CASE StreamSettle(t)
    <3>1. EventAt(seq[t] + 1, "settled", t, t) \in Event
      BY DEF EventAt, Event, EventKinds
    <3> QED
      BY <2>5, <3>1 DEF StreamSettle, AppendAnyway, EventAt
  <2> QED
    BY <2>2, <2>3, <2>4, <2>5
       DEF Stream, StreamAsk, StreamAskTurn, StreamDone, StreamDoneTurn, StreamDoneThread,
           StreamCheckpointRead, StreamCheckpointSave, StreamClosed, StreamPutBack, storeVars
<1>5. \A u \in Turns \ {t} : OutcomeKept(u)' /\ Reported(u)' /\ TokenKept(u)' /\ ActiveIsOurs(u)'
  <2>1. \A u \in Turns \ {t} : OutcomeKept(u)' /\ TokenKept(u)' /\ ActiveIsOurs(u)'
    BY <1>1, <1>2 DEF Kept, OutcomeKept, TokenKept, ActiveIsOurs
  <2>2. \A u \in Turns \ {t} : Reported(u)'
    BY <1>1, <1>2, <1>4 DEF Kept, Reported
  <2> QED
    BY <2>1, <2>2
<1>6. ActiveIsOurs(t)'
  BY <1>1 DEF ActiveIsOurs
<1>7. OutcomeKept(t)' /\ TokenKept(t)'
  <2> USE <1>0, <1>1 DEF OutcomeKept, TokenKept, RowFinal, Finished, Outcomes, Closing, storeVars
  <2>1. CASE StreamText(t)
    BY <2>1 DEF StreamText, Record
  <2>2. CASE StreamAsk(t)
    BY <2>2 DEF StreamAsk
  <2>3. CASE StreamAskTurn(t)
    BY <2>3 DEF StreamAskTurn
  <2>4. CASE StreamAskAppend(t)
    BY <2>4 DEF StreamAskAppend, Record
  <2>5. CASE StreamDone(t)
    BY <2>5 DEF StreamDone
  <2>6. CASE StreamDoneTurn(t)
    BY <2>6 DEF StreamDoneTurn, EventInHand
  <2>7. CASE StreamDoneThread(t)
    BY <2>7 DEF StreamDoneThread
  <2>8. CASE StreamDoneAppend(t)
    BY <2>8 DEF StreamDoneAppend, Record
  <2>9. CASE StreamCheckpointRead(t)
    BY <2>9 DEF StreamCheckpointRead
  <2>10. CASE StreamCheckpointSave(t)
    BY <2>10 DEF StreamCheckpointSave
  <2>11. CASE StreamSettle(t)
    BY <2>11 DEF StreamSettle
  <2>12. CASE StreamClosed(t)
    BY <2>12 DEF StreamClosed
  <2>13. CASE StreamPutBack(t)
    BY <2>13 DEF StreamPutBack
  <2> QED
    BY <2>1, <2>2, <2>3, <2>4, <2>5, <2>6, <2>7, <2>8, <2>9, <2>10, <2>11, <2>12, <2>13 DEF Stream
<1>8. Reported(t)'
  <2>1. \A e \in log : e.turn = t /\ e.kind \in {"completed", "settled"} =>
          task[t] \in {"ckpt_read", "ckpt_save", "settle", "put_back"}
    BY <1>0, <1>1 DEF Reported, Closing
  <2>2. turn'[t] # "none"
    BY <1>0, <1>1, RowStep DEF RowInv, RowOrder, Next
  <2>3. CASE StreamDoneAppend(t)
    <3>1. task'[t] = "ckpt_read" /\ UNCHANGED turn /\ turn[t] \in Outcomes
      BY <1>0, <2>3 DEF StreamDoneAppend, Record, OutcomeKept
    <3> QED
      BY <1>1, <1>4, <2>2, <3>1 DEF Reported, Closing
  <2>4. CASE StreamSettle(t)
    <3>1. task'[t] = "put_back" /\ UNCHANGED turn /\ turn[t] \in Outcomes
      BY <1>0, <2>4 DEF StreamSettle, OutcomeKept
    <3> QED
      BY <1>1, <1>4, <2>2, <3>1 DEF Reported, Closing
  <2>5. CASE StreamCheckpointRead(t) \/ StreamCheckpointSave(t) \/ StreamPutBack(t)
    <3>1. UNCHANGED log /\ task'[t] \in {"ckpt_save", "settle", "off"}
      BY <2>5 DEF StreamCheckpointRead, StreamCheckpointSave, StreamPutBack, storeVars
    <3>2. turn'[t] = turn[t] \/ turn'[t] \in Outcomes
      BY <1>0, <2>5 DEF StreamCheckpointRead, StreamCheckpointSave, StreamPutBack, OutcomeKept,
                        storeVars
    <3> QED
      BY <1>0, <1>1, <2>2, <3>1, <3>2 DEF Reported, Closing
  <2>6. CASE \/ StreamText(t) \/ StreamAsk(t) \/ StreamAskTurn(t) \/ StreamAskAppend(t)
             \/ StreamDone(t) \/ StreamDoneTurn(t) \/ StreamDoneThread(t) \/ StreamClosed(t)
    <3>1. task[t] \in Streaming
      BY <2>6 DEF StreamText, StreamAsk, StreamAskTurn, StreamAskAppend, StreamDone,
                  StreamDoneTurn, StreamDoneThread, StreamClosed, Streaming
    <3>2. UNCHANGED log
          \/ \E e \in Event : /\ log' = log \cup {e} /\ e.turn = t /\ e.kind \in {"text", "asked"}
      BY <1>4, <3>1 DEF Streaming, StreamDoneAppend, StreamSettle
    <3> QED
      BY <2>1, <2>2, <3>1, <3>2 DEF Reported, Streaming
  <2> QED
    BY <2>3, <2>4, <2>5, <2>6 DEF Stream
<1>9. Attributed'
  BY <1>4, NoneIsNoTurn DEF Kept, Attributed
<1> QED
  BY <1>3, <1>5, <1>6, <1>7, <1>8, <1>9 DEF Kept

\* A crash leaves the rows as they are; a restart interrupts what it finds active before the
\* server takes calls.
LEMMA OtherKept ==
  ASSUME Inv, RowInv, Kept,
         Provider \/ Crash \/ Restart \/ UNCHANGED vars \/ \E p \in Actors : Broadcast(p)
  PROVE  Kept'
<1> USE DEF Inv, TypeOK, StoreTypes, CallTypes, TaskTypes, storeVars
<1>0. Actors \subseteq Calls /\ Turns \subseteq Actors
  BY DEF Calls, Actors
<1>1. CASE Crash
  <2>1. /\ server' = "down" /\ UNCHANGED <<thread, turn, log, token>>
        /\ \A t \in Turns : task'[t] = "off" /\ pc'[t] = IF pc[t] = "new" THEN "new" ELSE "gone"
    BY <1>0, <1>1 DEF Crash
  <2> QED
    BY <2>1 DEF Kept, BusyIsOurs, Attributed, OutcomeKept, Reported, TokenKept, ActiveIsOurs, Closing
<1>2. CASE ReconcileTurns
  <2>1. /\ server' = "reconciling" /\ UNCHANGED <<thread, log, token, pc, task, copy>>
        /\ \A t \in Turns : turn'[t] = IF turn[t] \in Active THEN "interrupted" ELSE turn[t]
    BY <1>2 DEF ReconcileTurns, callVars, taskVars
  <2>2. \A t \in Turns : /\ turn'[t] \notin Active
                         /\ turn'[t] \in Finished => turn[t] \in Finished
                         /\ turn[t] # "none" => turn'[t] # "none"
                         /\ turn[t] \in Outcomes => turn'[t] \in Outcomes
    BY <2>1 DEF Active, Finished, Outcomes
  <2> QED
    BY <2>1, <2>2 DEF Kept, BusyIsOurs, Attributed, OutcomeKept, Reported, TokenKept, ActiveIsOurs
<1>3. CASE ReconcileThread
  <2>1. /\ server = "reconciling" /\ thread' = "idle" /\ UNCHANGED <<turn, log, token, pc, task, copy>>
    BY <1>3 DEF ReconcileThread, callVars, taskVars
  <2> QED
    BY <2>1 DEF Kept, BusyIsOurs, Attributed, OutcomeKept, Reported, TokenKept, ActiveIsOurs
<1>4. CASE Provider \/ UNCHANGED vars \/ \E p \in Actors : Broadcast(p)
  <2>1. UNCHANGED <<thread, turn, log, token, pc, task, copy, server>>
    BY <1>4 DEF Provider, ProviderText, ProviderAsk, ProviderFinish, ProviderDies, Broadcast, vars,
                callVars, taskVars
  <2> QED
    BY <2>1 DEF Kept, BusyIsOurs, Attributed, OutcomeKept, Reported, TokenKept, ActiveIsOurs
<1> QED
  BY <1>1, <1>2, <1>3, <1>4 DEF Restart

\* Every step that is no fault keeps rows, events and token in agreement.
LEMMA KeptStep == ASSUME Inv, RowInv, KeptInv, [Next]_vars PROVE KeptInv'
<1> SUFFICES ASSUME faults' = 0 PROVE Kept'
  BY DEF KeptInv
<1>1. faults = 0 /\ ~Faults
  <2>1. faults \in Nat
    BY DEF Inv, TypeOK, UsedTypes
  <2> QED
    BY <2>1, FaultsCounted
<1>2. Kept
  BY <1>1 DEF KeptInv
<1> QED
  BY <1>1, <1>2, SendKept, CallKept, StreamKept, OtherKept DEF Next

\* The rows' invariants hold in every reachable state.
LEMMA RowsInvariant == Spec => [](Inv /\ RowInv /\ KeptInv)
<1>1. Init => Inv /\ RowInv /\ KeptInv
  BY InitInv, InitRows, InitKept
<1>2. (Inv /\ RowInv /\ KeptInv) /\ [Next]_vars => (Inv /\ RowInv /\ KeptInv)'
  BY InvStep, RowStep, KeptStep
<1> QED
  BY <1>1, <1>2, PTL DEF Spec

\* A crash between two store calls never leaves an event that reports what the turn's row
\* does not say: send_turn and the task write the row first.
THEOREM EventsHaveRows == Spec => []RowsBeforeEvents
<1>1. Inv /\ RowInv /\ KeptInv => RowsBeforeEvents
  <2> SUFFICES ASSUME Inv, RowInv, KeptInv, faults = 0, NEW e \in log
               PROVE  /\ e.turn # None => turn[e.turn] # "none"
                      /\ e.kind \in {"completed", "settled"} => turn[e.turn] \in Outcomes
    BY DEF RowsBeforeEvents
  <2>1. e \in Event
    BY DEF Inv, TypeOK, StoreTypes
  <2> QED
    BY <2>1, NoneIsNoTurn DEF KeptInv, Kept, Attributed, Reported, Event
<1> QED
  BY <1>1, RowsInvariant, PTL

\* Once a restarted server takes calls, nothing of an earlier run is left active: the rows
\* are reconciled first, whatever moment the crash came at.
THEOREM RestartsClean == Spec => []RestartLeavesNothingActive
<1>1. Inv /\ RowInv /\ KeptInv => RestartLeavesNothingActive
  <2> SUFFICES ASSUME KeptInv, server = "up", faults = 0
               PROVE  /\ \A t \in Turns : turn[t] \in Active => pc[t] \notin {"new", "gone"}
                      /\ thread # "idle" => \E p \in Actors : pc[p] \notin {"new", "gone", "rejected"}
    BY DEF RestartLeavesNothingActive
  <2> QED
    BY DEF KeptInv, Kept, ActiveIsOurs, BusyIsOurs, SendSaved
<1> QED
  BY <1>1, RowsInvariant, PTL

\* A turn is never stored as finished before the token that lets the next session resume it.
THEOREM TokenSavedFirst == Spec => []TokenBeforeOutcome
<1>1. Inv /\ RowInv /\ KeptInv => TokenBeforeOutcome
  BY DEF KeptInv, Kept, TokenKept, TokenBeforeOutcome
<1> QED
  BY <1>1, RowsInvariant, PTL
-----------------------------------------------------------------------------
(* One connection, no cancel, no failing store call, and a provider that    *)
(* reports only what it was asked: turns do not overlap.                    *)

\* One call at a time.
OneCall == \A p, q \in Calls : pc[p] \notin Ended /\ pc[q] \notin Ended => p = q

\* The events in the channel, but for the completion a task is about to take off it.
Fresh == {i \in 1..Len(chan) : i = 1 => \A u \in Turns : task[u] # "done_append"}

\* What the provider has to answer, and has answered, is turn t's prompt; its completion
\* comes last.
OwnedBy(t) ==
  /\ inbox \in {<<>>, <<t>>}
  /\ \A i \in Fresh : /\ chan[i].of = t
                      /\ chan[i].kind \in Outcomes => i = Len(chan) /\ inbox = <<>>

AllClosing == \A t \in Turns : task[t] \in Closing

\* The provider has nothing to do and nothing it reported is waiting.
Quiet == inbox = <<>> /\ Fresh = {} /\ AllClosing

OnlyActive(t) == \A u \in Turns : turn[u] \in Active => u = t

\* An idle thread has no turn under way, but for one whose call is about to say so.
IdleIsQuiet ==
  thread = "idle" /\ server = "up" =>
    Quiet /\ \A t \in Turns : turn[t] \in Active => pc[t] = "save_thread"

\* A send that passed the status check finds the provider quiet until it prompts it.
SendsAlone(t) ==
  /\ pc[t] \in {"read", "save_turn", "save_thread"} => thread = "idle"
  /\ pc[t] \in SendSaved \ {"save_thread"} => thread # "idle"
  /\ pc[t] \in SendSaved \ {"save_thread", "take"} => Quiet
  /\ pc[t] = "take" => OwnedBy(t) /\ AllClosing
  /\ pc[t] \in SendSaved => OnlyActive(t)

\* A task that streams is the only one, of the only active turn, and reads that turn's events.
StreamsAlone(t) ==
  /\ task[t] \in Streaming => thread # "idle" /\ OwnedBy(t) /\ OnlyActive(t)
  /\ task[t] = "done_append" => Head(chan).of = t

SerialInv ==
  /\ OneCall /\ IdleIsQuiet /\ OneActiveTurn /\ EventsBelongToTurn
  /\ server # "up" => inbox = <<>> /\ chan = <<>>
  /\ \A t \in Turns : SendsAlone(t) /\ StreamsAlone(t)

\* What the hypotheses of the serial case say of a step.
Serial == OneConnection /\ Cancels = {} /\ ~Echoes

\* No event, no prompt, no call.
LEMMA InitSerial == Init => SerialInv
<1> SUFFICES ASSUME Init PROVE SerialInv
  OBVIOUS
<1>1. Fresh = {}
  BY DEF Init, Fresh
<1> QED
  BY <1>1 DEF Init, SerialInv, OneCall, IdleIsQuiet, Quiet, AllClosing, Closing, OneActiveTurn,
     EventsBelongToTurn, SendsAlone, StreamsAlone, SendSaved, Streaming, Active, Ended, Calls

\* send_turn: the status check lets a send pass only an idle, that is quiet, thread; the
\* rows of the thread and the turn keep others out until it is done.
LEMMA SendSerial ==
  ASSUME Serial, Inv, RowInv, Kept, SerialInv, NEW t \in Turns, SendTurn(t) PROVE SerialInv'
<1> USE DEF Inv, TypeOK, StoreTypes, ProvTypes, CallTypes, TaskTypes, At, Go
<1>0. /\ t \in Calls /\ t \in Actors /\ Turns \subseteq Calls
      /\ RowOrder(t) /\ RowFinal(t) /\ SendsAlone(t) /\ StreamsAlone(t)
  BY DEF Calls, Actors, RowInv, SerialInv
<1>1. server = "up" /\ server' = "up" /\ task[t] = "off" /\ UNCHANGED chan
  BY <1>0 DEF SendTurn, SendBegin, SendReadSeq, SendSaveTurn, SendSaveThread, SendAppendRequested,
     SendAppendStarted, SendLookup, SendStartSession, SendPrompt, SendTakeReceiver, RowOrder, provVars
<1>2. \A p \in Calls \ {t} : pc'[p] = pc[p] /\ pc[p] \in Ended
  BY <1>0 DEF SendTurn, SendBegin, SendReadSeq, SendSaveTurn, SendSaveThread,
     SendAppendRequested, SendAppendStarted, SendLookup, SendStartSession, SendPrompt,
     SendTakeReceiver, AppendOrFail, Serial, MayBegin, SerialInv, OneCall, Ended, Returned
<1>3. OneCall'
  BY <1>2 DEF OneCall
<1>4. \A u \in Turns \ {t} : pc[u] \notin SendSaved \cup {"read", "save_turn"}
  BY <1>0, <1>2 DEF Ended, Returned, SendSaved
<1>5. EventsBelongToTurn'
  BY DEF SendTurn, SendBegin, SendReadSeq, SendSaveTurn, SendSaveThread,
     SendAppendRequested, SendAppendStarted, SendLookup, SendStartSession, SendPrompt,
     SendTakeReceiver, AppendOrFail, EventAt, SerialInv, EventsBelongToTurn, storeVars
<1>6. ASSUME UNCHANGED <<inbox, task>>
      PROVE  Fresh' = Fresh /\ (Quiet' <=> Quiet) /\ (AllClosing' <=> AllClosing)
             /\ \A u \in Turns : OwnedBy(u)' <=> OwnedBy(u)
  BY <1>1, <1>6 DEF Fresh, Quiet, AllClosing, OwnedBy
<1>7. ASSUME UNCHANGED turn
      PROVE  \A u \in Turns : OnlyActive(u)' <=> OnlyActive(u)
  BY <1>7 DEF OnlyActive
<1> DEFINE Goal == IdleIsQuiet' /\ OneActiveTurn' /\ \A u \in Turns : SendsAlone(u)' /\ StreamsAlone(u)'
<1>8. ASSUME \/ SendBegin(t) \/ SendReadSeq(t) \/ SendAppendRequested(t) \/ SendAppendStarted(t)
             \/ SendLookup(t) \/ SendStartSession(t)
      PROVE  Goal
  <2>1. UNCHANGED <<inbox, task, turn, thread>>
    BY <1>8 DEF SendBegin, SendReadSeq, SendAppendRequested, SendAppendStarted, SendLookup,
                SendStartSession, provVars, taskVars, storeVars
  <2>2. \/ pc'[t] \in {"rejected", "error"}
        \/ pc[t] \in {"new", "read"} /\ pc'[t] \in {"read", "save_turn"} /\ thread = "idle"
        \/ /\ pc[t] \in {"append_req", "append_start", "lookup", "start"}
           /\ pc'[t] \in {"append_start", "lookup", "start", "send"}
    BY <1>0, <1>8 DEF SendBegin, SendReadSeq, SendAppendRequested, SendAppendStarted, SendLookup,
                SendStartSession, AppendOrFail, ThreadStatus, SendsAlone
  <2>3. pc[t] # "save_thread"
    BY <1>8 DEF SendBegin, SendReadSeq, SendAppendRequested, SendAppendStarted, SendLookup,
                SendStartSession
  <2>4. OneActiveTurn' /\ IdleIsQuiet'
    BY <1>0, <1>1, <1>2, <1>6, <2>1, <2>3 DEF SerialInv, OneActiveTurn, IdleIsQuiet
  <2>5. SendsAlone(t)'
    BY <1>0, <1>6, <1>7, <2>1, <2>2 DEF SendsAlone, SendSaved
  <2>6. \A u \in Turns \ {t} : SendsAlone(u)'
    BY <1>0, <1>2, <1>4 DEF SendsAlone, SendSaved
  <2>7. \A u \in Turns : StreamsAlone(u)'
    BY <1>1, <1>6, <1>7, <2>1 DEF SerialInv, StreamsAlone
  <2> QED
    BY <2>4, <2>5, <2>6, <2>7
<1>9. ASSUME SendSaveTurn(t) PROVE Goal
  <2>1. /\ UNCHANGED <<inbox, task, thread>> /\ pc[t] = "save_turn" /\ pc'[t] = "save_thread"
        /\ turn' = [turn EXCEPT ![t] = "running"]
    BY <1>0, <1>9 DEF SendSaveTurn, provVars, taskVars
  <2>2. thread = "idle" /\ Quiet /\ \A u \in Turns : turn[u] \notin Active
    BY <1>0, <1>1, <1>4, <2>1 DEF SendsAlone, SerialInv, IdleIsQuiet, SendSaved
  <2>3. OnlyActive(t)' /\ OneActiveTurn'
    BY <2>1, <2>2 DEF OnlyActive, OneActiveTurn
  <2>4. IdleIsQuiet'
    BY <1>6, <2>1, <2>2, <2>3 DEF IdleIsQuiet, OnlyActive
  <2>5. SendsAlone(t)'
    BY <2>1, <2>2, <2>3 DEF SendsAlone
  <2>6. \A u \in Turns \ {t} : SendsAlone(u)'
    BY <1>0, <1>2, <1>4 DEF SendsAlone, SendSaved
  <2>7. \A u \in Turns : StreamsAlone(u)'
    BY <1>1, <2>1, <2>2 DEF Quiet, AllClosing, Closing, Streaming, SerialInv, StreamsAlone
  <2> QED
    BY <2>3, <2>4, <2>5, <2>6, <2>7
<1>10. ASSUME SendSaveThread(t) PROVE Goal
  <2>1. /\ UNCHANGED <<inbox, task, turn>> /\ pc[t] = "save_thread" /\ pc'[t] = "append_req"
        /\ thread' = "working"
    BY <1>0, <1>10 DEF SendSaveThread, provVars, taskVars
  <2>2. Quiet
    BY <1>0, <1>1, <2>1 DEF SendsAlone, SerialInv, IdleIsQuiet
  <2>3. OneActiveTurn' /\ IdleIsQuiet'
    BY <2>1 DEF SerialInv, OneActiveTurn, IdleIsQuiet
  <2>5. SendsAlone(t)'
    BY <1>0, <1>6, <1>7, <2>1, <2>2 DEF SendsAlone, SendSaved
  <2>6. \A u \in Turns \ {t} : SendsAlone(u)'
    BY <1>0, <1>2, <1>4 DEF SendsAlone, SendSaved
  <2>7. \A u \in Turns : StreamsAlone(u)'
    BY <1>1, <2>1, <2>2 DEF Quiet, AllClosing, Closing, Streaming, SerialInv, StreamsAlone
  <2> QED
    BY <2>3, <2>5, <2>6, <2>7
<1>11. ASSUME SendPrompt(t) PROVE Goal
  <2>1. /\ UNCHANGED <<task, turn, thread>> /\ pc[t] = "send"
        /\ \/ UNCHANGED inbox /\ pc'[t] = "error"
           \/ inbox' = Append(inbox, t) /\ pc'[t] = "take"
    BY <1>0, <1>11 DEF SendPrompt, storeVars, taskVars
  <2>2. Quiet /\ thread # "idle" /\ OnlyActive(t)
    BY <1>0, <2>1 DEF SendsAlone, SendSaved
  <2>3. Fresh' = {} /\ AllClosing'
    BY <1>1, <2>1, <2>2 DEF Fresh, Quiet, AllClosing
  <2>4. OneActiveTurn' /\ IdleIsQuiet'
    BY <2>1, <2>2 DEF SerialInv, OneActiveTurn, IdleIsQuiet
  <2>5. SendsAlone(t)'
    <3>1. CASE pc'[t] = "error"
      BY <3>1 DEF SendsAlone, SendSaved
    <3>2. CASE inbox' = Append(inbox, t) /\ pc'[t] = "take"
      <4>1. inbox' = <<t>>
        BY <2>2, <3>2 DEF Quiet
      <4>2. OwnedBy(t)'
        BY <2>3, <4>1 DEF OwnedBy
      <4> QED
        BY <1>7, <2>1, <2>2, <2>3, <3>2, <4>2 DEF SendsAlone
    <3> QED
      BY <2>1, <3>1, <3>2
  <2>6. \A u \in Turns \ {t} : SendsAlone(u)'
    BY <1>0, <1>2, <1>4 DEF SendsAlone, SendSaved
  <2>7. \A u \in Turns : StreamsAlone(u)'
    BY <1>1, <2>1, <2>3 DEF AllClosing, Closing, Streaming, SerialInv, StreamsAlone
  <2> QED
    BY <2>4, <2>5, <2>6, <2>7
<1>12. ASSUME SendTakeReceiver(t) PROVE Goal
  <2>1. /\ UNCHANGED <<inbox, turn, thread>> /\ pc[t] = "take" /\ pc'[t] = "ok"
        /\ \/ UNCHANGED task
           \/ task' = [task EXCEPT ![t] = "recv"]
    BY <1>0, <1>12 DEF SendTakeReceiver, storeVars, taskVars, provVars
  <2>2. OwnedBy(t) /\ AllClosing /\ thread # "idle" /\ OnlyActive(t)
    BY <1>0, <2>1 DEF SendsAlone, SendSaved
  <2>3. \A u \in Turns : task'[u] = "done_append" <=> task[u] = "done_append"
    BY <1>1, <2>1
  <2>4. OwnedBy(t)' /\ OnlyActive(t)'
    BY <1>1, <2>1, <2>2, <2>3 DEF OwnedBy, Fresh, OnlyActive
  <2>5. OneActiveTurn' /\ IdleIsQuiet'
    BY <2>1, <2>2 DEF SerialInv, OneActiveTurn, IdleIsQuiet
  <2>6. SendsAlone(t)'
    BY <2>1 DEF SendsAlone, SendSaved
  <2>7. \A u \in Turns \ {t} : SendsAlone(u)'
    BY <1>0, <1>2, <1>4 DEF SendsAlone, SendSaved
  <2>8. StreamsAlone(t)'
    BY <1>0, <1>1, <2>1, <2>2, <2>3, <2>4 DEF StreamsAlone
  <2>9. \A u \in Turns \ {t} : StreamsAlone(u)'
    BY <1>1, <2>1, <2>2 DEF AllClosing, Closing, Streaming, SerialInv, StreamsAlone
  <2> QED
    BY <2>5, <2>6, <2>7, <2>8, <2>9
<1> QED
  BY <1>1, <1>3, <1>5, <1>8, <1>9, <1>10, <1>11, <1>12 DEF SendTurn, SerialInv

\* respond_approval: its call keeps sends out while it runs, and only makes the thread busy.
LEMMA AnswerSerial ==
  ASSUME Serial, Inv, SerialInv, NEW a \in Answers, RespondApproval(a) PROVE SerialInv'
<1> USE DEF Inv, TypeOK, StoreTypes, ProvTypes, CallTypes, TaskTypes, At, Go
<1>0. a \in Calls /\ a \in Actors /\ Turns \subseteq Calls /\ a \notin Turns
  BY CallsAssumption DEF Calls, Actors
<1>1. server = "up" /\ server' = "up" /\ UNCHANGED <<inbox, chan, task, turn>>
  BY DEF RespondApproval, AnswerBegin, AnswerDeliver, AnswerReadSeq, AnswerAppend, AnswerSaveThread,
         Echo, Serial, provVars, taskVars, storeVars
<1>2. \A p \in Calls \ {a} : pc'[p] = pc[p] /\ pc[p] \in Ended
  BY <1>0 DEF RespondApproval, AnswerBegin, AnswerDeliver, AnswerReadSeq, AnswerAppend,
     AnswerSaveThread, AppendOrFail, Serial, MayBegin, SerialInv, OneCall, Ended, Returned
<1>3. OneCall'
  BY <1>2 DEF OneCall
<1>4. EventsBelongToTurn'
  BY DEF RespondApproval, AnswerBegin, AnswerDeliver, AnswerReadSeq, AnswerAppend,
     AnswerSaveThread, AppendOrFail, EventAt, SerialInv, EventsBelongToTurn, storeVars
<1>5. UNCHANGED thread \/ thread' = "working"
  BY DEF RespondApproval, AnswerBegin, AnswerDeliver, AnswerReadSeq, AnswerAppend,
     AnswerSaveThread, storeVars
<1>6. /\ Fresh' = Fresh /\ (Quiet' <=> Quiet) /\ (AllClosing' <=> AllClosing)
      /\ \A u \in Turns : (OwnedBy(u)' <=> OwnedBy(u)) /\ (OnlyActive(u)' <=> OnlyActive(u))
  BY <1>1 DEF Fresh, Quiet, AllClosing, OwnedBy, OnlyActive
<1>7. IdleIsQuiet' /\ OneActiveTurn'
  BY <1>0, <1>1, <1>2, <1>5, <1>6 DEF SerialInv, IdleIsQuiet, OneActiveTurn
<1>8. \A u \in Turns : SendsAlone(u)'
  BY <1>0, <1>2 DEF SendsAlone, SendSaved, Ended, Returned
<1>9. \A u \in Turns : StreamsAlone(u)'
  BY <1>1, <1>5, <1>6 DEF SerialInv, StreamsAlone
<1> QED
  BY <1>1, <1>3, <1>4, <1>7, <1>8, <1>9 DEF SerialInv

\* The streaming task: it alone holds the receiver, all it reads is its own turn's, and the
\* completion it makes the thread idle with is the last thing the provider had to say.
LEMMA StreamSerial ==
  ASSUME Inv, RowInv, Kept, SerialInv, NEW t \in Turns, Stream(t) PROVE SerialInv'
<1> USE DEF Inv, TypeOK, StoreTypes, ProvTypes, CallTypes, TaskTypes, On, Move
<1>0. /\ StreamsAlone(t) /\ OutcomeKept(t)
      /\ \A u \in Turns \ {t} : task[u] = "off"
  <2>1. task[t] # "off"
    BY DEF Stream, StreamText, StreamAsk, StreamAskTurn, StreamAskAppend, StreamDone,
           StreamDoneTurn, StreamDoneThread, StreamDoneAppend, StreamCheckpointRead,
           StreamCheckpointSave, StreamSettle, StreamClosed, StreamPutBack
  <2> QED
    BY <2>1 DEF SerialInv, Kept, SingleReader
<1>1. server = "up" /\ server' = "up" /\ UNCHANGED <<pc, inbox>>
  BY DEF Stream, StreamText, StreamAsk, StreamAskTurn, StreamAskAppend, StreamDone,
         StreamDoneTurn, StreamDoneThread, StreamDoneAppend, StreamCheckpointRead,
         StreamCheckpointSave, StreamSettle, StreamClosed, StreamPutBack, callVars, provVars
<1>2. \A u \in Turns \ {t} : turn'[u] = turn[u] /\ task'[u] = "off"
  BY <1>0 DEF Stream, StreamText, StreamAsk, StreamAskTurn, StreamAskAppend, StreamDone,
         StreamDoneTurn, StreamDoneThread, StreamDoneAppend, StreamCheckpointRead,
         StreamCheckpointSave, StreamSettle, StreamClosed, StreamPutBack, Record, storeVars
<1>3. OneCall'
  BY <1>1 DEF SerialInv, OneCall
<1>4. \A u \in Turns \ {t} : StreamsAlone(u)'
  BY <1>2 DEF StreamsAlone, Streaming
<1>5. Fresh = {i \in 1..Len(chan) : i = 1 => task[t] # "done_append"}
      /\ Fresh' = {i \in 1..Len(chan') : i = 1 => task'[t] # "done_append"}
  BY <1>0, <1>2 DEF Fresh
<1> DEFINE Goal == /\ IdleIsQuiet' /\ OneActiveTurn' /\ EventsBelongToTurn'
                   /\ \A u \in Turns : SendsAlone(u)' /\ StreamsAlone(u)'
\* while the turn is streamed no send is past its status check
<1>6. ASSUME task[t] \in Streaming
      PROVE  /\ thread # "idle" /\ OwnedBy(t) /\ OnlyActive(t)
             /\ \A u \in Turns : pc[u] \notin {"read", "save_turn"} \cup SendSaved
  <2>1. thread # "idle" /\ OwnedBy(t) /\ OnlyActive(t)
    BY <1>0, <1>6 DEF StreamsAlone
  <2>2. ~AllClosing
    BY <1>6 DEF AllClosing, Closing, Streaming
  <2> QED
    BY <2>1, <2>2 DEF SerialInv, SendsAlone, SendSaved, Quiet
<1>7. ASSUME task[t] \in Streaming, task'[t] \in Streaming \cup {"put_back"},
             thread' # "idle", turn'[t] = turn[t] \/ turn'[t] \in Outcomes \cup Active,
             UNCHANGED log \/ \E e \in Event : log' = log \cup {e} /\ e.turn = e.of,
             UNCHANGED chan \/ (chan # <<>> /\ chan' = Tail(chan))
      PROVE  Goal
  <2>1. OnlyActive(t)'
    BY <1>2, <1>6, <1>7 DEF OnlyActive
  <2>2. OwnedBy(t)'
    <3>1. CASE UNCHANGED chan
      BY <1>1, <1>5, <1>6, <1>7, <3>1 DEF OwnedBy, Streaming
    <3>2. CASE chan # <<>> /\ chan' = Tail(chan)
      <4>1. /\ Len(chan') = Len(chan) - 1 /\ Len(chan) \in Nat
            /\ \A i \in 1..Len(chan') : chan'[i] = chan[i + 1] /\ i + 1 \in Fresh
        BY <1>5, <1>7, <3>2 DEF Streaming
      <4>2. \A i \in Fresh' : i \in 1..Len(chan')
        BY <1>5
      <4>3. ASSUME NEW i \in Fresh'
            PROVE  /\ chan'[i].of = t
                   /\ chan'[i].kind \in Outcomes => i = Len(chan') /\ inbox' = <<>>
        <5>1. i \in 1..Len(chan') /\ i + 1 \in Fresh /\ chan'[i] = chan[i + 1]
          BY <4>1, <4>2
        <5>2. /\ chan[i + 1].of = t
              /\ chan[i + 1].kind \in Outcomes => i + 1 = Len(chan) /\ inbox = <<>>
          BY <1>6, <1>7, <5>1 DEF OwnedBy
        <5> QED
          BY <1>1, <4>1, <5>1, <5>2
      <4> QED
        BY <1>1, <1>6, <1>7, <4>3 DEF OwnedBy
    <3> QED
      BY <1>7, <3>1, <3>2
  <2>3. StreamsAlone(t)'
    BY <1>7, <2>1, <2>2 DEF StreamsAlone, Streaming
  <2>4. \A u \in Turns : SendsAlone(u)'
    BY <1>1, <1>6, <1>7 DEF SendsAlone, SendSaved
  <2>5. IdleIsQuiet' /\ OneActiveTurn'
    BY <1>7, <2>1 DEF IdleIsQuiet, OnlyActive, OneActiveTurn
  <2>6. EventsBelongToTurn'
    BY <1>7 DEF SerialInv, EventsBelongToTurn
  <2> QED
    BY <1>4, <2>3, <2>4, <2>5, <2>6
<1>8. ASSUME NEW kind \in EventKinds, NEW next, chan # <<>>, Record(t, kind, next),
             Head(chan).of = t
      PROVE  UNCHANGED log \/ \E e \in Event : log' = log \cup {e} /\ e.turn = e.of
  <2>1. EventAt(seq[t] + 1, kind, t, Head(chan).of) \in Event
    <3>1. Head(chan) \in ProviderEvent
      BY <1>8
    <3> QED
      BY <3>1 DEF EventAt, Event, ProviderEvent
  <2> QED
    BY <1>8, <2>1 DEF Record, AppendAnyway, EventAt
\* the event in hand is the turn's
<1>9. ASSUME task[t] \in Streaming, chan # <<>> PROVE Head(chan).of = t /\ 1 \in Fresh
  <2>1. Head(chan) = chan[1] /\ 1 \in 1..Len(chan)
    BY <1>9
  <2>2. 1 \in Fresh
    BY <1>5, <1>9, <2>1 DEF Streaming
  <2> QED
    BY <1>6, <1>9, <2>1, <2>2 DEF OwnedBy
<1>10. CASE StreamText(t) \/ StreamAskAppend(t)
  <2>1. /\ task[t] \in Streaming /\ task'[t] = "recv" /\ UNCHANGED <<thread, turn>>
        /\ chan # <<>> /\ chan' = Tail(chan)
    BY <1>10 DEF StreamText, StreamAskAppend, Receives, EventInHand, Record, Streaming
  <2>2. Record(t, "text", "recv") \/ Record(t, "asked", "recv")
    BY <1>10 DEF StreamText, StreamAskAppend
  <2>3. UNCHANGED log \/ \E e \in Event : log' = log \cup {e} /\ e.turn = e.of
    BY <1>8, <1>9, <2>1, <2>2 DEF EventKinds
  <2>4. Goal
    BY <1>6, <1>7, <2>1, <2>3 DEF Streaming
  <2> QED
    BY <1>1, <1>3, <2>4 DEF SerialInv
<1>11. CASE \/ StreamAsk(t) \/ StreamAskTurn(t) \/ StreamDone(t) \/ StreamDoneTurn(t)
            \/ StreamClosed(t)
  <2>1. /\ task[t] \in Streaming /\ task'[t] \in Streaming \cup {"put_back"}
        /\ UNCHANGED <<log, chan>> /\ thread' \in {thread, "awaiting_approval"}
    BY <1>11 DEF StreamAsk, StreamAskTurn, StreamDone, StreamDoneTurn, StreamClosed, Streaming,
                 storeVars, provVars
  <2>2. turn'[t] = turn[t] \/ turn'[t] \in Outcomes \cup Active
    BY <1>11 DEF StreamAsk, StreamAskTurn, StreamDone, StreamDoneTurn, StreamClosed, EventInHand,
                 Active, storeVars
  <2>3. Goal
    BY <1>6, <1>7, <2>1, <2>2
  <2> QED
    BY <1>1, <1>3, <2>3 DEF SerialInv
<1>12. CASE StreamDoneThread(t)
  <2>1. /\ task[t] = "done_thread" /\ task'[t] = "done_append" /\ thread' = "idle"
        /\ UNCHANGED <<turn, log, chan>> /\ turn[t] \in Outcomes
    BY <1>0, <1>12 DEF StreamDoneThread, provVars, OutcomeKept
  <2>2. /\ OwnedBy(t) /\ OnlyActive(t)
        /\ \A u \in Turns : pc[u] \notin {"read", "save_turn"} \cup SendSaved
    BY <1>6, <2>1 DEF Streaming
  <2>3. chan # <<>> /\ Head(chan).kind \in Outcomes /\ Head(chan) = chan[1]
    BY <2>1 DEF EventInHand
  <2>4. 1 \in Fresh /\ Head(chan).of = t
    BY <1>9, <2>1, <2>3 DEF Streaming
  <2>5. Len(chan) = 1 /\ inbox = <<>>
    BY <2>2, <2>3, <2>4 DEF OwnedBy
  <2>6. Quiet'
    <3>1. Fresh' = {}
      BY <1>5, <2>1, <2>5
    <3>2. AllClosing'
      BY <1>2, <2>1 DEF AllClosing, Closing
    <3> QED
      BY <1>1, <2>5, <3>1, <3>2 DEF Quiet
  <2>7. \A u \in Turns : turn'[u] \notin Active
    BY <2>1, <2>2 DEF OnlyActive, Active, Outcomes, Finished
  <2>8. StreamsAlone(t)'
    BY <2>1, <2>4 DEF StreamsAlone, Streaming
  <2>9. \A u \in Turns : SendsAlone(u)'
    BY <1>1, <2>2 DEF SendsAlone, SendSaved
  <2>10. EventsBelongToTurn' /\ IdleIsQuiet' /\ OneActiveTurn'
    BY <2>1, <2>6, <2>7 DEF SerialInv, EventsBelongToTurn, IdleIsQuiet, OneActiveTurn
  <2> QED
    BY <1>1, <1>3, <1>4, <2>8, <2>9, <2>10 DEF SerialInv
\* past the completion the thread may be idle, and a send under way
<1>13. ASSUME task[t] \in Closing, task'[t] \in Closing \ {"done_append"}, UNCHANGED thread,
              turn'[t] = turn[t] \/ turn'[t] \in Outcomes,
              UNCHANGED log \/ \E e \in Event : log' = log \cup {e} /\ e.turn = e.of,
              \/ UNCHANGED chan /\ task[t] # "done_append"
              \/ task[t] = "done_append" /\ chan # <<>> /\ chan' = Tail(chan)
       PROVE  SerialInv'
  <2>1. AllClosing'
    BY <1>2, <1>13 DEF AllClosing, Closing
  <2>2. \A u \in Turns : OnlyActive(u) => OnlyActive(u)'
    BY <1>2, <1>13 DEF OnlyActive, Active, Outcomes, Finished
  <2>3. /\ Fresh = {} => Fresh' = {}
        /\ \A u \in Turns : OwnedBy(u) => OwnedBy(u)'
    <3>1. CASE UNCHANGED chan /\ task[t] # "done_append"
      <4>1. Fresh' = Fresh
        BY <1>5, <1>13, <3>1
      <4> QED
        BY <1>1, <3>1, <4>1 DEF OwnedBy
    <3>2. CASE task[t] = "done_append" /\ chan # <<>> /\ chan' = Tail(chan)
      <4>1. /\ Len(chan') = Len(chan) - 1 /\ Len(chan) \in Nat
            /\ \A i \in 1..Len(chan') : chan'[i] = chan[i + 1] /\ i + 1 \in Fresh
        BY <1>5, <3>2
      <4>2. \A i \in Fresh' : i \in 1..Len(chan')
        BY <1>5
      <4>3. ASSUME NEW u \in Turns, OwnedBy(u) PROVE OwnedBy(u)'
        <5>1. ASSUME NEW i \in Fresh'
              PROVE  /\ chan'[i].of = u
                     /\ chan'[i].kind \in Outcomes => i = Len(chan') /\ inbox' = <<>>
          <6>1. i \in 1..Len(chan') /\ i + 1 \in Fresh /\ chan'[i] = chan[i + 1]
            BY <4>1, <4>2
          <6>2. /\ chan[i + 1].of = u
                /\ chan[i + 1].kind \in Outcomes => i + 1 = Len(chan) /\ inbox = <<>>
            BY <4>3, <6>1 DEF OwnedBy
          <6> QED
            BY <1>1, <4>1, <6>1, <6>2
        <5> QED
          BY <1>1, <4>3, <5>1 DEF OwnedBy
      <4>4. Fresh = {} => Fresh' = {}
        BY <4>1, <4>2
      <4> QED
        BY <4>3, <4>4
    <3> QED
      BY <1>13, <3>1, <3>2
  <2>4. Quiet => Quiet'
    BY <1>1, <2>1, <2>3 DEF Quiet
  <2>5. IdleIsQuiet'
    BY <1>1, <1>2, <1>13, <2>4 DEF SerialInv, IdleIsQuiet, Active, Outcomes, Finished
  <2>6. OneActiveTurn' /\ EventsBelongToTurn'
    BY <1>2, <1>13 DEF SerialInv, OneActiveTurn, EventsBelongToTurn, Active, Outcomes, Finished
  <2>7. \A u \in Turns : SendsAlone(u)'
    BY <1>1, <1>13, <2>1, <2>2, <2>3, <2>4 DEF SerialInv, SendsAlone
  <2>8. StreamsAlone(t)'
    BY <1>13 DEF StreamsAlone, Closing, Streaming
  <2> QED
    BY <1>1, <1>3, <1>4, <2>5, <2>6, <2>7, <2>8 DEF SerialInv
<1>14. CASE StreamDoneAppend(t)
  <2>1. /\ task[t] = "done_append" /\ task'[t] = "ckpt_read" /\ UNCHANGED <<thread, turn>>
        /\ chan # <<>> /\ chan' = Tail(chan) /\ Record(t, "completed", "ckpt_read")
    BY <1>14 DEF StreamDoneAppend, Record, EventInHand
  <2>2. Head(chan).of = t
    BY <1>0, <2>1 DEF StreamsAlone
  <2>3. UNCHANGED log \/ \E e \in Event : log' = log \cup {e} /\ e.turn = e.of
    BY <1>8, <2>1, <2>2 DEF EventKinds
  <2> QED
    BY <1>13, <2>1, <2>3 DEF Closing
<1>15. CASE \/ StreamCheckpointRead(t) \/ StreamCheckpointSave(t) \/ StreamSettle(t)
            \/ StreamPutBack(t)
  <2>1. /\ task[t] \in Closing \ {"done_append"} /\ task'[t] \in Closing \ {"done_append"}
        /\ UNCHANGED <<thread, chan>>
    BY <1>15 DEF StreamCheckpointRead, StreamCheckpointSave, StreamSettle, StreamPutBack, Closing,
                 storeVars, provVars
  <2>2. turn'[t] = turn[t] \/ turn'[t] \in Outcomes
    BY <1>0, <1>15 DEF StreamCheckpointRead, StreamCheckpointSave, StreamSettle, StreamPutBack,
                       OutcomeKept, storeVars
  <2>3. UNCHANGED log \/ \E e \in Event : log' = log \cup {e} /\ e.turn = e.of
    <3>1. EventAt(seq[t] + 1, "settled", t, t) \in Event
      BY DEF EventAt, Event, EventKinds
    <3> QED
      BY <1>15, <3>1 DEF StreamCheckpointRead, StreamCheckpointSave, StreamSettle, StreamPutBack,
                         AppendAnyway, EventAt, storeVars
  <2> QED
    BY <1>13, <2>1, <2>2, <2>3
<1> QED
  BY <1>10, <1>11, <1>12, <1>14, <1>15 DEF Stream

\* The provider answers the one prompt it has, and its completion is the end of it.
LEMMA ProviderSerial == ASSUME Inv, SerialInv, Provider PROVE SerialInv'
<1> USE DEF Inv, TypeOK, StoreTypes, ProvTypes, TaskTypes
<1>1. UNCHANGED <<thread, turn, log, pc, task, server>>
  BY DEF Provider, ProviderText, ProviderAsk, ProviderFinish, ProviderDies, storeVars, callVars,
         taskVars
<1>2. OneCall' /\ OneActiveTurn' /\ EventsBelongToTurn' /\ (AllClosing' <=> AllClosing)
      /\ \A u \in Turns : OnlyActive(u)' <=> OnlyActive(u)
  BY <1>1 DEF SerialInv, OneCall, OneActiveTurn, EventsBelongToTurn, AllClosing, OnlyActive
<1>3. CASE ProviderDies
  <2>1. inbox' = <<>> /\ UNCHANGED chan
    BY <1>3 DEF ProviderDies
  <2>2. Fresh' = Fresh /\ (Quiet => Quiet') /\ \A u \in Turns : OwnedBy(u) => OwnedBy(u)'
    BY <1>1, <1>2, <2>1 DEF Fresh, Quiet, OwnedBy
  <2>3. IdleIsQuiet'
    BY <1>1, <2>2 DEF SerialInv, IdleIsQuiet
  <2>4. \A u \in Turns : SendsAlone(u)' /\ StreamsAlone(u)'
    BY <1>1, <1>2, <2>1, <2>2 DEF SerialInv, SendsAlone, StreamsAlone
  <2> QED
    BY <1>1, <1>2, <2>1, <2>3, <2>4 DEF SerialInv
<1>4. CASE ProviderText \/ ProviderAsk \/ ProviderFinish
  <2>1. inbox # <<>> /\ Head(inbox) \in Turns /\ Tail(inbox) \in Seq(Turns)
    BY <1>4 DEF ProviderText, ProviderAsk, ProviderFinish, CanEmit
  <2>2. PICK k \in {"text", "asked"} \cup Outcomes :
          /\ chan' = Append(chan, [kind |-> k, of |-> Head(inbox)])
          /\ IF k \in Outcomes THEN inbox' = Tail(inbox) ELSE UNCHANGED inbox
    <3>1. CASE ProviderText
      BY <3>1 DEF ProviderText, Emits, Outcomes, Finished
    <3>2. CASE ProviderAsk
      BY <3>2 DEF ProviderAsk, Emits, Outcomes, Finished
    <3>3. CASE ProviderFinish
      BY <3>3 DEF ProviderFinish, Emits
    <3> QED
      BY <1>4, <3>1, <3>2, <3>3
  <2>3. ~Quiet
    BY <2>1 DEF Quiet
  <2>4. IdleIsQuiet' /\ server = "up"
    BY <1>1, <2>1, <2>3 DEF SerialInv, IdleIsQuiet
  <2>5. /\ Len(chan) \in Nat /\ Len(chan') = Len(chan) + 1
        /\ \A i \in 1..Len(chan) : chan'[i] = chan[i]
        /\ chan'[Len(chan')] = [kind |-> k, of |-> Head(inbox)]
        /\ chan # <<>> => Head(chan') = Head(chan)
    BY <2>2
  <2>6. ASSUME NEW u \in Turns, OwnedBy(u) PROVE OwnedBy(u)'
    <3>1. inbox = <<u>> /\ Head(inbox) = u /\ Tail(inbox) = <<>>
      <4>1. inbox = <<u>>
        BY <2>1, <2>6 DEF OwnedBy
      <4>2. Head(<<u>>) = u /\ Tail(<<u>>) = <<>>
        OBVIOUS
      <4> QED
        BY <4>1, <4>2
    <3>2. \A i \in Fresh : chan[i].of = u /\ chan[i].kind \notin Outcomes
      <4>1. \A i \in Fresh : chan[i].of = u /\ (chan[i].kind \in Outcomes => inbox = <<>>)
        BY <2>6 DEF OwnedBy
      <4> QED
        BY <2>1, <4>1
    <3>3. \A i \in Fresh' : i \in Fresh \/ i = Len(chan')
      BY <1>1, <2>5 DEF Fresh
    <3>4. \A i \in Fresh : i \in 1..Len(chan)
      BY DEF Fresh
    <3>5. inbox' \in {<<>>, <<u>>} /\ (k \in Outcomes => inbox' = <<>>)
      BY <2>2, <3>1
    <3> QED
      BY <2>2, <2>5, <3>1, <3>2, <3>3, <3>4, <3>5 DEF OwnedBy
  <2>7. \A u \in Turns : SendsAlone(u)'
    BY <1>1, <1>2, <2>3, <2>6 DEF SerialInv, SendsAlone
  <2>8. \A u \in Turns : StreamsAlone(u)'
    BY <1>1, <1>2, <2>5, <2>6 DEF SerialInv, StreamsAlone, EventInHand
  <2> QED
    BY <1>1, <1>2, <2>4, <2>7, <2>8 DEF SerialInv
<1> QED
  BY <1>3, <1>4 DEF Provider

\* A crash leaves no prompt, no event and no call; the restarted server's thread is idle and
\* has no active turn.
LEMMA OtherSerial ==
  ASSUME Inv, RowInv, Kept, SerialInv,
         Crash \/ Restart \/ UNCHANGED vars \/ \E p \in Actors : Broadcast(p)
  PROVE  SerialInv'
<1> USE DEF Inv, TypeOK, StoreTypes, ProvTypes, TaskTypes, CallTypes
<1>0. Turns \subseteq Calls
  BY DEF Calls
<1>1. CASE Crash
  <2>1. /\ server' = "down" /\ UNCHANGED <<turn, log>> /\ inbox' = <<>> /\ chan' = <<>>
        /\ (\A p \in Calls : pc'[p] \in {"new", "gone"}) /\ \A t \in Turns : task'[t] = "off"
    BY <1>1 DEF Crash, storeVars
  <2> QED
    BY <1>0, <2>1 DEF SerialInv, OneCall, IdleIsQuiet, OneActiveTurn, EventsBelongToTurn, SendsAlone,
       StreamsAlone, SendSaved, Streaming, Ended
<1>2. CASE Restart
  <2>1. /\ server # "up" /\ UNCHANGED <<log, inbox, chan, pc, task>>
        /\ \A t \in Turns : turn'[t] \in {turn[t], "interrupted"}
        /\ server' = "up" => /\ thread' = "idle" /\ server = "reconciling" /\ UNCHANGED turn
    BY <1>2 DEF Restart, ReconcileTurns, ReconcileThread, storeVars, provVars, callVars, taskVars
  <2>2. /\ inbox = <<>> /\ chan = <<>>
        /\ (\A p \in Calls : pc[p] \in {"new", "gone"}) /\ \A t \in Turns : task[t] = "off"
    BY <2>1 DEF SerialInv, RowInv, NothingRuns
  <2>3. Quiet'
    BY <2>1, <2>2 DEF Quiet, Fresh, AllClosing, Closing
  <2>4. IdleIsQuiet'
    BY <2>1, <2>3 DEF IdleIsQuiet, Kept, ActiveIsOurs
  <2> QED
    BY <1>0, <2>1, <2>2, <2>4 DEF SerialInv, OneCall, OneActiveTurn, EventsBelongToTurn, SendsAlone,
       StreamsAlone, SendSaved, Streaming, Ended, Active
<1>3. CASE UNCHANGED vars \/ \E p \in Actors : Broadcast(p)
  <2>1. UNCHANGED <<thread, turn, log, pc, task, server, inbox, chan>>
    BY <1>3 DEF Broadcast, vars, storeVars, callVars, taskVars, provVars
  <2> QED
    BY <2>1 DEF SerialInv, OneCall, IdleIsQuiet, Quiet, Fresh, AllClosing, OneActiveTurn,
       EventsBelongToTurn, SendsAlone, StreamsAlone, OwnedBy, OnlyActive
<1> QED
  BY <1>1, <1>2, <1>3

LEMMA TurnsStayApart ==
  ASSUME OneConnection, Cancels = {}, ~Echoes, MaxFaults = 0
  PROVE  Spec => [](OneActiveTurn /\ EventsBelongToTurn)
<1> DEFINE All == Inv /\ RowInv /\ KeptInv /\ SerialInv /\ faults = 0
<1>1. Init => All
  BY InitInv, InitRows, InitKept, InitSerial DEF Init
<1>2. All /\ [Next]_vars => All'
  <2> SUFFICES ASSUME All, [Next]_vars PROVE All'
    OBVIOUS
  <2>1. faults' = 0 /\ ~Faults
    BY FaultsCounted
  <2>2. Inv' /\ RowInv' /\ KeptInv'
    BY InvStep, RowStep, KeptStep
  <2>3. Serial /\ Kept
    BY DEF Serial, KeptInv
  <2>4. SerialInv'
    BY <2>1, <2>3, SendSerial, AnswerSerial, StreamSerial, ProviderSerial, OtherSerial DEF Next
  <2> QED
    BY <2>1, <2>2, <2>4
<1>3. All => OneActiveTurn /\ EventsBelongToTurn
  BY DEF SerialInv
<1> QED
  BY <1>1, <1>2, <1>3, PTL DEF Spec

\* Over one connection, with no cancel, no store call that fails and a provider that reports
\* only completions it owes, the status check of send_turn suffices: at most one turn is
\* active, although calls return before their turns end and the provider's process and the
\* server may die.
THEOREM TurnsDoNotOverlap ==
  ASSUME OneConnection, Cancels = {}, ~Echoes, MaxFaults = 0
  PROVE  Spec => []OneActiveTurn
<1>1. Spec => [](OneActiveTurn /\ EventsBelongToTurn)
  BY TurnsStayApart
<1> QED
  BY <1>1, PTL

\* And under the same conditions every event stored under a turn answers that turn's prompt:
\* a streaming task never stores what the provider still had to say of an earlier one.
THEOREM EventsStayTheirs ==
  ASSUME OneConnection, Cancels = {}, ~Echoes, MaxFaults = 0
  PROVE  Spec => []EventsBelongToTurn
<1>1. Spec => [](OneActiveTurn /\ EventsBelongToTurn)
  BY TurnsStayApart
<1> QED
  BY <1>1, PTL
===============================================================================
