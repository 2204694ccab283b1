--------------------------- MODULE ThreadLifecycle ---------------------------
(***************************************************************************)
(* One conversation thread of the Pandamux server: the ThreadManager, the  *)
(* rows of that thread in the SQLite store, its provider session and the   *)
(* background task that streams a turn's events into the store.            *)
(*                                                                         *)
(* Every RPC call is a process that advances one store call or one await   *)
(* at a time: the store's mutex makes each store call atomic and nothing   *)
(* is held from one to the next.  A send_turn call generates the turn it   *)
(* submits, so calls and turns share their names; once the call returns,   *)
(* the task it spawned goes on under that name.                            *)
(*                                                                         *)
(* Where the code reads a row, changes its status and saves it back with   *)
(* nothing in between, the two store calls are one step: what is written   *)
(* does not depend on what was read.  Reads whose result IS used later     *)
(* (status check, latest seq, the rows listed by a cancel, the row the     *)
(* checkpoint goes into) are steps of their own.                           *)
(***************************************************************************)
EXTENDS Integers, Sequences

CONSTANTS
  Turns,          \* send_turn calls, each with the turn it generates
  Answers,        \* respond_approval calls
  Cancels,        \* cancel_turn calls
  None,           \* no turn: nobody
  OneConnection,  \* TRUE: all calls arrive over one connection, one at a time
  IssuesToken,    \* the provider's sessions yield a resume token
  Echoes,         \* the provider may report a completion it owes to no turn
  ChanCap,        \* capacity of the provider's event channel
  MaxText,        \* bound: text events the provider emits
  MaxAsks,        \* bound: approvals the provider requests
  MaxDeaths,      \* bound: times the provider's process dies
  MaxCrashes,     \* bound: times the server stops and is started again
  MaxFaults       \* bound: store calls that fail

Calls == Turns \cup Answers \cup Cancels
Actors == Turns \cup Answers    \* whoever appends events

ASSUME CallsAssumption ==
  /\ {None, "home"} \cap Calls = {} /\ None # "home"
  /\ Turns \cap Answers = {} /\ Turns \cap Cancels = {} /\ Answers \cap Cancels = {}
ASSUME BoundsAssumption ==
  /\ {OneConnection, IssuesToken, Echoes} \subseteq BOOLEAN
  /\ ChanCap \in Nat \ {0}
  /\ {MaxText, MaxAsks, MaxDeaths, MaxCrashes, MaxFaults} \subseteq Nat

VARIABLES
  \* the store
  thread,   \* status in the thread's row
  turn,     \* status in each turn's row
  log,      \* rows of the events table
  token,    \* a resume token is saved
  \* the entry of active_sessions, and the mutex around that map
  sess, rx, lock,
  \* the provider's process and the channel its events arrive on
  inbox, asking, chan,
  \* the calls
  pc, base, snap,
  \* the streaming tasks
  task, seq, copy,
  \* broadcasting
  outbox,   \* envelope an actor has appended and not yet broadcast
  bcast,    \* the last envelope broadcast
  \* the server's process
  server,
  \* used bounds
  texts, asks, deaths, crashes, faults

storeVars == <<thread, turn, log, token>>
sessVars  == <<sess, rx, lock>>
provVars  == <<inbox, asking, chan>>
callVars  == <<pc, base, snap>>
taskVars  == <<task, seq, copy>>
castVars  == <<outbox, bcast>>
usedVars  == <<texts, asks, deaths, crashes, faults>>
vars == <<thread, turn, log, token, sess, rx, lock, inbox, asking, chan, pc, base, snap,
          task, seq, copy, outbox, bcast, server, texts, asks, deaths, crashes, faults>>

ThreadStatus == {"idle", "working", "awaiting_approval"}
Finished     == {"completed", "failed"}
Outcomes     == Finished \cup {"interrupted"}
Active       == {"running", "awaiting_approval"}
TurnStatus   == {"none"} \cup Active \cup Outcomes

EventKinds == {"requested", "started", "text", "asked", "resolved", "completed", "settled"}
\* turn: the turn it is recorded under; of: the turn whose prompt it answers
Event   == [seq : Nat, kind : EventKinds, turn : Turns \cup {None}, of : Turns \cup {None}]
NoEvent == [seq |-> 0, kind |-> "none", turn |-> None, of |-> None]
EventAt(n, k, t, o) == [seq |-> n, kind |-> k, turn |-> t, of |-> o]

ProviderEvent == [kind : {"text", "asked"} \cup Outcomes, of : Turns \cup {None}]

Returned  == {"ok", "rejected", "error"}
Ended     == Returned \cup {"new", "gone"}    \* not executing
CallSteps == {"read", "save_turn", "save_thread", "append_req", "append_start", "lookup",
              "start", "send", "take",
              "respond", "append", "resume",
              "interrupt", "idle", "list", "mark"}
TaskSteps == {"recv", "ask_turn", "ask_append", "done_turn", "done_thread", "done_append",
              "ckpt_read", "ckpt_save", "settle", "put_back"}

-----------------------------------------------------------------------------
(* The store.  events has UNIQUE(thread_id, seq): a colliding insert fails. *)

MaxSeq(S)   == IF S = {} THEN 0 ELSE CHOOSE n \in S : \A m \in S : m <= n
Seqs        == {e.seq : e \in log}
LatestSeq   == MaxSeq(Seqs)
Collides(n) == n \in Seqs

\* append_event whose error is returned to the caller: on success the caller
\* goes on to broadcast and to its next step
AppendOrFail(p, e, next) ==
  IF Collides(e.seq)
    THEN /\ pc' = [pc EXCEPT ![p] = "error"]
         /\ UNCHANGED <<log, outbox>>
    ELSE /\ log' = log \cup {e}
         /\ outbox' = [outbox EXCEPT ![p] = e]
         /\ pc' = [pc EXCEPT ![p] = next]

\* Mutant of AppendAnyway: INSERT OR REPLACE, the later writer of a seq wins.
AppendReplacing(p, e) ==
  /\ log' = {f \in log : f.seq # e.seq} \cup {e}
  /\ outbox' = [outbox EXCEPT ![p] = e]

\* append_event whose error is dropped (`let _ =`), followed by the broadcast
AppendAnyway(p, e) ==
  /\ log' = IF Collides(e.seq) THEN log ELSE log \cup {e}
  /\ outbox' = [outbox EXCEPT ![p] = e]

\* broadcaster.send of what p appended last
Broadcast(p) ==
  /\ outbox[p] # NoEvent
  /\ bcast' = outbox[p]
  /\ outbox' = [outbox EXCEPT ![p] = NoEvent]
  /\ UNCHANGED <<storeVars, sessVars, provVars, callVars, taskVars, server, usedVars>>

Sent(p) == outbox[p] = NoEvent

-----------------------------------------------------------------------------
(* Calls.  A connection is read line by line, the next line after the reply. *)

At(p, step)    == pc[p] = step /\ server = "up"
Go(p, step)    == pc' = [pc EXCEPT ![p] = step]
MayBegin       == OneConnection => \A p \in Calls : pc[p] \in Ended


\* Mutant of SendBegin: the status check forgets awaiting_approval.
SendBeginUnlessWorking(t) ==
  /\ At(t, "new") /\ MayBegin
  /\ Go(t, IF thread = "working" THEN "rejected" ELSE "read")
  /\ UNCHANGED <<storeVars, sessVars, provVars, base, snap, taskVars, castVars, server, usedVars>>

SendBegin(t) ==
  /\ At(t, "new") /\ MayBegin
  /\ Go(t, IF thread \in {"working", "awaiting_approval"} THEN "rejected" ELSE "read")
  /\ UNCHANGED <<storeVars, sessVars, provVars, base, snap, taskVars, castVars, server, usedVars>>

\* latest seq; then attachments are resolved, which may refuse the call, and the
\* checkpoint before the turn is taken
SendReadSeq(t) ==
  /\ At(t, "read")
  /\ base' = [base EXCEPT ![t] = LatestSeq]
  /\ \E next \in {"save_turn", "rejected"} : Go(t, next)
  /\ UNCHANGED <<storeVars, sessVars, provVars, snap, taskVars, castVars, server, usedVars>>

SendSaveTurn(t) ==
  /\ At(t, "save_turn")
  /\ turn' = [turn EXCEPT ![t] = "running"]
  /\ Go(t, "save_thread")
  /\ UNCHANGED <<thread, log, token, sessVars, provVars, base, snap, taskVars, castVars,
                 server, usedVars>>

SendSaveThread(t) ==
  /\ At(t, "save_thread")
  /\ thread' = "working"
  /\ Go(t, "append_req")
  /\ UNCHANGED <<turn, log, token, sessVars, provVars, base, snap, taskVars, castVars,
                 server, usedVars>>

SendAppendRequested(t) ==
  /\ At(t, "append_req")
  /\ AppendOrFail(t, EventAt(base[t] + 1, "requested", t, t), "append_start")
  /\ UNCHANGED <<thread, turn, token, sessVars, provVars, base, snap, taskVars, bcast,
                 server, usedVars>>

SendAppendStarted(t) ==
  /\ At(t, "append_start") /\ Sent(t)
  /\ AppendOrFail(t, EventAt(base[t] + 2, "started", t, t), "lookup")
  /\ UNCHANGED <<thread, turn, token, sessVars, provVars, base, snap, taskVars, bcast,
                 server, usedVars>>

\* the map's mutex stays locked while a session is started
SendLookup(t) ==
  /\ At(t, "lookup") /\ Sent(t)
  /\ lock = None
  /\ IF sess = "none" THEN lock' = t /\ Go(t, "start")
                      ELSE UNCHANGED lock /\ Go(t, "send")
  /\ UNCHANGED <<storeVars, sess, rx, provVars, base, snap, taskVars, castVars, server, usedVars>>


\* Mutant of SendStartSession: a session that fails to start keeps the map locked.
SendStartSessionHoldingLock(t) ==
  /\ At(t, "start")
  /\ \/ lock' = None /\ sess' = "live" /\ rx' = "home" /\ Go(t, "send")
     \/ UNCHANGED <<lock, sess, rx>> /\ Go(t, "error")
  /\ UNCHANGED <<storeVars, provVars, base, snap, taskVars, castVars, server, usedVars>>

SendStartSession(t) ==
  /\ At(t, "start")
  /\ lock' = None
  /\ \/ sess' = "live" /\ rx' = "home" /\ Go(t, "send")
     \/ UNCHANGED <<sess, rx>> /\ Go(t, "error")
  /\ UNCHANGED <<storeVars, provVars, base, snap, taskVars, castVars, server, usedVars>>

\* the prompt is written to the provider; a dead process makes the write fail
SendPrompt(t) ==
  /\ At(t, "send")
  /\ IF sess = "live" THEN inbox' = Append(inbox, t) /\ Go(t, "take")
                      ELSE UNCHANGED inbox /\ Go(t, "error")
  /\ UNCHANGED <<storeVars, sessVars, asking, chan, base, snap, taskVars, castVars,
                 server, usedVars>>


\* Mutant of SendTakeReceiver: a task is spawned even when the receiver is out.
SendShareReceiver(t) ==
  /\ At(t, "take")
  /\ rx' = t
  /\ task' = [task EXCEPT ![t] = "recv"]
  /\ seq' = [seq EXCEPT ![t] = base[t] + 2]
  /\ Go(t, "ok")
  /\ UNCHANGED <<storeVars, sess, lock, provVars, base, snap, copy, castVars, server, usedVars>>

\* takes the receiver if it is there, spawns the task, returns
SendTakeReceiver(t) ==
  /\ At(t, "take")
  /\ IF rx = "home" THEN /\ rx' = t
                         /\ task' = [task EXCEPT ![t] = "recv"]
                         /\ seq' = [seq EXCEPT ![t] = base[t] + 2]
                    ELSE UNCHANGED <<rx, task, seq>>
  /\ Go(t, "ok")
  /\ UNCHANGED <<storeVars, sess, lock, provVars, base, snap, copy, castVars, server, usedVars>>

-----------------------------------------------------------------------------
(* respond_approval *)

AnswerBegin(a) ==
  /\ At(a, "new") /\ MayBegin /\ lock = None
  /\ Go(a, IF sess = "none" THEN "rejected" ELSE "respond")
  /\ UNCHANGED <<storeVars, sessVars, provVars, base, snap, taskVars, castVars, server, usedVars>>

\* a provider that is answered or interrupted with no turn to do may still report
\* a completion, as MockProviderSession does
Echo ==
  \/ UNCHANGED chan
  \/ /\ Echoes /\ inbox = <<>> /\ Len(chan) < ChanCap
     /\ \E o \in Outcomes : chan' = Append(chan, [kind |-> o, of |-> None])

AnswerDeliver(a) ==
  /\ At(a, "respond")
  /\ IF sess = "live" THEN asking' = FALSE /\ Echo /\ Go(a, "read")
                      ELSE UNCHANGED <<asking, chan>> /\ Go(a, "error")
  /\ UNCHANGED <<storeVars, sessVars, inbox, base, snap, taskVars, castVars, server, usedVars>>

AnswerReadSeq(a) ==
  /\ At(a, "read")
  /\ base' = [base EXCEPT ![a] = LatestSeq]
  /\ Go(a, "append")
  /\ UNCHANGED <<storeVars, sessVars, provVars, snap, taskVars, castVars, server, usedVars>>

AnswerAppend(a) ==
  /\ At(a, "append")
  /\ AppendOrFail(a, EventAt(base[a] + 1, "resolved", None, None), "resume")
  /\ UNCHANGED <<thread, turn, token, sessVars, provVars, base, snap, taskVars, bcast,
                 server, usedVars>>

AnswerSaveThread(a) ==
  /\ At(a, "resume") /\ Sent(a)
  /\ thread' = "working"
  /\ Go(a, "ok")
  /\ UNCHANGED <<turn, log, token, sessVars, provVars, base, snap, taskVars, castVars,
                 server, usedVars>>

-----------------------------------------------------------------------------
(* interrupt_turn *)

CancelBegin(c) ==
  /\ At(c, "new") /\ MayBegin /\ lock = None
  /\ Go(c, IF sess = "none" THEN "idle" ELSE "interrupt")
  /\ UNCHANGED <<storeVars, sessVars, provVars, base, snap, taskVars, castVars, server, usedVars>>

\* an interrupted provider drops its question; errors are dropped
CancelDeliver(c) ==
  /\ At(c, "interrupt")
  /\ IF sess = "live" THEN asking' = FALSE /\ Echo ELSE UNCHANGED <<asking, chan>>
  /\ Go(c, "idle")
  /\ UNCHANGED <<storeVars, sessVars, inbox, base, snap, taskVars, castVars, server, usedVars>>

CancelSaveThread(c) ==
  /\ At(c, "idle")
  /\ thread' = "idle"
  /\ Go(c, "list")
  /\ UNCHANGED <<turn, log, token, sessVars, provVars, base, snap, taskVars, castVars,
                 server, usedVars>>

CancelListTurns(c) ==
  /\ At(c, "list")
  /\ snap' = [snap EXCEPT ![c] = {t \in Turns : turn[t] \in Active}]
  /\ Go(c, "mark")
  /\ UNCHANGED <<storeVars, sessVars, provVars, base, taskVars, castVars, server, usedVars>>

\* the listed rows are saved back one by one, in the order of their seq
CancelMarkTurn(c) ==
  /\ At(c, "mark")
  /\ IF snap[c] = {}
       THEN Go(c, "ok") /\ UNCHANGED <<turn, snap>>
       ELSE /\ \E t \in snap[c] : /\ \A u \in snap[c] : base[t] <= base[u]
                                  /\ turn' = [turn EXCEPT ![t] = "interrupted"]
                                  /\ snap' = [snap EXCEPT ![c] = @ \ {t}]
            /\ UNCHANGED pc
  /\ UNCHANGED <<thread, log, token, sessVars, provVars, base, taskVars, castVars,
                 server, usedVars>>

-----------------------------------------------------------------------------
(* The task that streams a turn.  The event being handled stays at the head *)
(* of the channel until it is appended; the task's seq counter is local and *)
(* goes up by one per event received, whatever the store holds by then.     *)

On(t, step)    == task[t] = step /\ server = "up" /\ Sent(t)
Move(t, step)  == task' = [task EXCEPT ![t] = step]
Receives(t, K) == chan # <<>> /\ Head(chan).kind \in K

\* counts the event in hand, appends it as `kind` and takes it off the channel
Record(t, kind, next) ==
  /\ seq' = [seq EXCEPT ![t] = @ + 1]
  /\ AppendAnyway(t, EventAt(seq[t] + 1, kind, t, Head(chan).of))
  /\ chan' = Tail(chan)
  /\ Move(t, next)

\* every event without an effect on the rows: text, reasoning, tool calls,
\* sub-agents, errors, rate limits and notices
StreamText(t) ==
  /\ On(t, "recv") /\ Receives(t, {"text"})
  /\ Record(t, "text", "recv")
  /\ UNCHANGED <<thread, turn, token, sessVars, inbox, asking, callVars, copy, bcast,
                 server, usedVars>>

StreamAsk(t) ==
  /\ On(t, "recv") /\ Receives(t, {"asked"})
  /\ thread' = "awaiting_approval"
  /\ Move(t, "ask_turn")
  /\ UNCHANGED <<turn, log, token, sessVars, provVars, callVars, seq, copy, castVars,
                 server, usedVars>>

StreamAskTurn(t) ==
  /\ On(t, "ask_turn")
  /\ turn' = [turn EXCEPT ![t] = "awaiting_approval"]
  /\ Move(t, "ask_append")
  /\ UNCHANGED <<thread, log, token, sessVars, provVars, callVars, seq, copy, castVars,
                 server, usedVars>>

StreamAskAppend(t) ==
  /\ On(t, "ask_append")
  /\ Record(t, "asked", "recv")
  /\ UNCHANGED <<thread, turn, token, sessVars, inbox, asking, callVars, copy, bcast,
                 server, usedVars>>


\* Mutant of StreamDone: the resume token is not saved with the outcome.
StreamDoneWithoutToken(t) ==
  /\ On(t, "recv") /\ Receives(t, Outcomes)
  /\ Move(t, "done_turn")
  /\ UNCHANGED <<storeVars, sessVars, provVars, callVars, seq, copy, castVars, server, usedVars>>

\* Mutant of StreamDone: the completion is appended before its rows are written.
StreamDoneAppendFirst(t) ==
  /\ On(t, "recv") /\ Receives(t, Outcomes)
  /\ token' = (token \/ IssuesToken)
  /\ Move(t, "done_append")
  /\ UNCHANGED <<thread, turn, log, sessVars, provVars, callVars, seq, copy, castVars,
                 server, usedVars>>

\* a completion: first the session's resume token, if it has one
StreamDone(t) ==
  /\ On(t, "recv") /\ Receives(t, Outcomes)
  /\ token' = (token \/ IssuesToken)
  /\ Move(t, "done_turn")
  /\ UNCHANGED <<thread, turn, log, sessVars, provVars, callVars, seq, copy, castVars,
                 server, usedVars>>

StreamDoneTurn(t) ==
  /\ On(t, "done_turn")
  /\ turn' = [turn EXCEPT ![t] = Head(chan).kind]
  /\ Move(t, "done_thread")
  /\ UNCHANGED <<thread, log, token, sessVars, provVars, callVars, seq, copy, castVars,
                 server, usedVars>>


\* Mutant of StreamDoneThread: the turn's status goes into the thread's row.
StreamDoneThreadAsTurn(t) ==
  /\ On(t, "done_thread")
  /\ thread' = Head(chan).kind
  /\ Move(t, "done_append")
  /\ UNCHANGED <<turn, log, token, sessVars, provVars, callVars, seq, copy, castVars,
                 server, usedVars>>

StreamDoneThread(t) ==
  /\ On(t, "done_thread")
  /\ thread' = "idle"
  /\ Move(t, "done_append")
  /\ UNCHANGED <<turn, log, token, sessVars, provVars, callVars, seq, copy, castVars,
                 server, usedVars>>


\* Mutant of StreamDoneAppend: the task goes on receiving after the completion.
StreamDoneWithoutBreak(t) ==
  /\ On(t, "done_append")
  /\ Record(t, "completed", "recv")
  /\ UNCHANGED <<thread, turn, token, sessVars, inbox, asking, callVars, copy, bcast,
                 server, usedVars>>

StreamDoneAppend(t) ==
  /\ On(t, "done_append")
  /\ Record(t, "completed", "ckpt_read")
  /\ UNCHANGED <<thread, turn, token, sessVars, inbox, asking, callVars, copy, bcast,
                 server, usedVars>>


\* Mutant of StreamCheckpointRead: the checkpoint goes into the row as send_turn
\* built it, not as it is stored now.
StreamCheckpointOfFirstRow(t) ==
  /\ On(t, "ckpt_read")
  /\ copy' = [copy EXCEPT ![t] = "running"]
  /\ Move(t, "ckpt_save")
  /\ UNCHANGED <<storeVars, sessVars, provVars, callVars, seq, castVars, server, usedVars>>

\* the row is read, git computes the changed files, the row is written back
StreamCheckpointRead(t) ==
  /\ On(t, "ckpt_read")
  /\ copy' = [copy EXCEPT ![t] = turn[t]]
  /\ Move(t, "ckpt_save")
  /\ UNCHANGED <<storeVars, sessVars, provVars, callVars, seq, castVars, server, usedVars>>

StreamCheckpointSave(t) ==
  /\ On(t, "ckpt_save")
  /\ turn' = [turn EXCEPT ![t] = copy[t]]
  /\ copy' = [copy EXCEPT ![t] = "none"]
  /\ Move(t, "settle")
  /\ UNCHANGED <<thread, log, token, sessVars, provVars, callVars, seq, castVars, server, usedVars>>


\* Mutant of StreamSettle: the checkpoint uses up a seq although nothing is appended.
StreamSettleSkippingSeq(t) ==
  /\ On(t, "settle")
  /\ seq' = [seq EXCEPT ![t] = @ + 2]
  /\ AppendAnyway(t, EventAt(seq[t] + 2, "settled", t, t))
  /\ Move(t, "put_back")
  /\ UNCHANGED <<thread, turn, token, sessVars, provVars, callVars, copy, bcast, server, usedVars>>

StreamSettle(t) ==
  /\ On(t, "settle")
  /\ seq' = [seq EXCEPT ![t] = @ + 1]
  /\ AppendAnyway(t, EventAt(seq[t] + 1, "settled", t, t))
  /\ Move(t, "put_back")
  /\ UNCHANGED <<thread, turn, token, sessVars, provVars, callVars, copy, bcast, server, usedVars>>


\* Mutant of StreamClosed: the task polls a closed channel for ever.
StreamClosedRetry(t) ==
  /\ On(t, "recv") /\ chan = <<>> /\ sess = "dead"
  /\ Move(t, "recv")
  /\ UNCHANGED <<storeVars, sessVars, provVars, callVars, seq, copy, castVars, server, usedVars>>

\* the provider's process is gone and the channel drained: recv yields None
StreamClosed(t) ==
  /\ On(t, "recv") /\ chan = <<>> /\ sess = "dead"
  /\ Move(t, "put_back")
  /\ UNCHANGED <<storeVars, sessVars, provVars, callVars, seq, copy, castVars, server, usedVars>>

StreamPutBack(t) ==
  /\ On(t, "put_back")
  /\ rx' = "home"
  /\ Move(t, "off")
  /\ UNCHANGED <<storeVars, sess, lock, provVars, callVars, seq, copy, castVars, server, usedVars>>

-----------------------------------------------------------------------------
(* The provider's process: answers its prompts in order, any number of      *)
(* events for each and then its completion.  Blocked while the channel is   *)
(* full, and while an approval it asked for is open.                        *)

Emits(kind) == chan' = Append(chan, [kind |-> kind, of |-> Head(inbox)])
CanEmit     == inbox # <<>> /\ ~asking /\ Len(chan) < ChanCap

ProviderText ==
  /\ CanEmit /\ texts < MaxText
  /\ Emits("text")
  /\ texts' = texts + 1
  /\ UNCHANGED <<storeVars, sessVars, inbox, asking, callVars, taskVars, castVars, server,
                 asks, deaths, crashes, faults>>

ProviderAsk ==
  /\ CanEmit /\ asks < MaxAsks
  /\ Emits("asked")
  /\ asking' = TRUE
  /\ asks' = asks + 1
  /\ UNCHANGED <<storeVars, sessVars, inbox, callVars, taskVars, castVars, server,
                 texts, deaths, crashes, faults>>

ProviderFinish ==
  /\ CanEmit
  /\ \E o \in Outcomes : Emits(o)
  /\ inbox' = Tail(inbox)
  /\ UNCHANGED <<storeVars, sessVars, asking, callVars, taskVars, castVars, server, usedVars>>

ProviderDies ==
  /\ sess = "live" /\ deaths < MaxDeaths
  /\ sess' = "dead" /\ inbox' = <<>> /\ asking' = FALSE
  /\ deaths' = deaths + 1
  /\ UNCHANGED <<storeVars, rx, lock, chan, callVars, taskVars, castVars, server,
                 texts, asks, crashes, faults>>

-----------------------------------------------------------------------------
(* The server's process.  A crash or a shutdown (exit without waiting for   *)
(* anything) leaves only the store; reconcile_active_turns runs before the  *)
(* restarted server takes calls, in two statements.                         *)

Crash ==
  /\ crashes < MaxCrashes
  /\ crashes' = crashes + 1
  /\ server' = "down"
  /\ sess' = "none" /\ rx' = None /\ lock' = None
  /\ inbox' = <<>> /\ asking' = FALSE /\ chan' = <<>>
  /\ pc' = [p \in Calls |-> IF pc[p] = "new" THEN "new" ELSE "gone"]
  /\ snap' = [c \in Cancels |-> {}]
  /\ task' = [t \in Turns |-> "off"]
  /\ copy' = [t \in Turns |-> "none"]
  /\ outbox' = [p \in Actors |-> NoEvent]
  /\ UNCHANGED <<storeVars, base, seq, bcast, texts, asks, deaths, faults>>


\* Mutant of ReconcileTurns: only running turns are interrupted.
ReconcileRunningTurns ==
  /\ server = "down"
  /\ turn' = [t \in Turns |-> IF turn[t] = "running" THEN "interrupted" ELSE turn[t]]
  /\ server' = "reconciling"
  /\ UNCHANGED <<thread, log, token, sessVars, provVars, callVars, taskVars, castVars, usedVars>>

ReconcileTurns ==
  /\ server = "down"
  /\ turn' = [t \in Turns |-> IF turn[t] \in Active THEN "interrupted" ELSE turn[t]]
  /\ server' = "reconciling"
  /\ UNCHANGED <<thread, log, token, sessVars, provVars, callVars, taskVars, castVars, usedVars>>

ReconcileThread ==
  /\ server = "reconciling"
  /\ thread' = "idle"
  /\ server' = "up"
  /\ UNCHANGED <<turn, log, token, sessVars, provVars, callVars, taskVars, castVars, usedVars>>

-----------------------------------------------------------------------------
(* Store calls that fail: nothing is written; the caller returns an error,  *)
(* or goes on where the code drops it.                                      *)

Fault == faults < MaxFaults /\ faults' = faults + 1

\* send_turn and respond_approval up to their last append; a failing resume
\* token lookup gives the map's mutex back
CallFault(p) ==
  /\ Fault /\ server = "up" /\ Sent(p)
  /\ \/ p \in Turns /\ pc[p] \in {"read", "save_turn", "save_thread", "append_req",
                                  "append_start", "start"}
     \/ p \in Answers /\ pc[p] \in {"read", "append"}
  /\ Go(p, "error")
  /\ lock' = IF pc[p] = "start" THEN None ELSE lock
  /\ UNCHANGED <<storeVars, sess, rx, provVars, base, snap, taskVars, castVars, server,
                 texts, asks, deaths, crashes>>

\* the statuses written last by respond_approval and interrupt_turn
SkipFault(p) ==
  /\ Fault /\ server = "up"
  /\ \/ p \in Answers /\ pc[p] = "resume" /\ Sent(p) /\ Go(p, "ok") /\ UNCHANGED snap
     \/ p \in Cancels /\ pc[p] = "idle" /\ Go(p, "list") /\ UNCHANGED snap
     \/ p \in Cancels /\ pc[p] = "list" /\ Go(p, "ok") /\ UNCHANGED snap
     \/ /\ p \in Cancels /\ pc[p] = "mark" /\ UNCHANGED pc
        /\ \E t \in snap[p] : snap' = [snap EXCEPT ![p] = @ \ {t}]
  /\ UNCHANGED <<storeVars, sessVars, provVars, base, taskVars, castVars, server,
                 texts, asks, deaths, crashes>>

\* an append of the streaming task fails: the event is broadcast all the same
StreamAppendFault(t) ==
  /\ Fault /\ server = "up" /\ Sent(t)
  /\ \/ \E step \in {<<"recv", "text", "recv">>, <<"ask_append", "asked", "recv">>,
                     <<"done_append", "completed", "ckpt_read">>} :
          /\ task[t] = step[1] /\ (step[1] = "recv" => Receives(t, {"text"}))
          /\ outbox' = [outbox EXCEPT ![t] = EventAt(seq[t] + 1, step[2], t, Head(chan).of)]
          /\ chan' = Tail(chan)
          /\ Move(t, step[3])
     \/ /\ task[t] = "settle"
        /\ outbox' = [outbox EXCEPT ![t] = EventAt(seq[t] + 1, "settled", t, t)]
        /\ UNCHANGED chan
        /\ Move(t, "put_back")
  /\ seq' = [seq EXCEPT ![t] = @ + 1]
  /\ UNCHANGED <<storeVars, sessVars, inbox, asking, callVars, copy, bcast, server,
                 texts, asks, deaths, crashes>>

\* a row of the streaming task is not written
StreamRowFault(t) ==
  /\ Fault /\ server = "up" /\ Sent(t)
  /\ \E step \in {<<"ask_turn", "ask_append">>, <<"done_turn", "done_thread">>,
                  <<"done_thread", "done_append">>, <<"ckpt_read", "settle">>,
                  <<"ckpt_save", "settle">>} :
       task[t] = step[1] /\ Move(t, step[2])
  /\ copy' = [copy EXCEPT ![t] = "none"]
  /\ UNCHANGED <<storeVars, sessVars, provVars, callVars, seq, castVars, server,
                 texts, asks, deaths, crashes>>

\* the thread's row, when an approval is requested, and the resume token
StreamEntryFault(t) ==
  /\ Fault /\ On(t, "recv")
  /\ \/ Receives(t, {"asked"}) /\ Move(t, "ask_turn")
     \/ Receives(t, Outcomes) /\ Move(t, "done_turn")
  /\ UNCHANGED <<storeVars, sessVars, provVars, callVars, seq, copy, castVars, server,
                 texts, asks, deaths, crashes>>

\* `let _ = store.reconcile_active_turns()`: the first error ends it
ReconcileFault ==
  /\ Fault /\ server \in {"down", "reconciling"}
  /\ server' = "up"
  /\ UNCHANGED <<storeVars, sessVars, provVars, callVars, taskVars, castVars,
                 texts, asks, deaths, crashes>>

-----------------------------------------------------------------------------
Init ==
  /\ thread = "idle" /\ turn = [t \in Turns |-> "none"] /\ log = {} /\ token = FALSE
  /\ sess = "none" /\ rx = None /\ lock = None
  /\ inbox = <<>> /\ asking = FALSE /\ chan = <<>>
  /\ pc = [p \in Calls |-> "new"] /\ base = [p \in Actors |-> 0] /\ snap = [c \in Cancels |-> {}]
  /\ task = [t \in Turns |-> "off"] /\ seq = [t \in Turns |-> 0] /\ copy = [t \in Turns |-> "none"]
  /\ outbox = [p \in Actors |-> NoEvent] /\ bcast = NoEvent
  /\ server = "up"
  /\ texts = 0 /\ asks = 0 /\ deaths = 0 /\ crashes = 0 /\ faults = 0

SendTurn(t) ==
  \/ SendBegin(t) \/ SendReadSeq(t) \/ SendSaveTurn(t) \/ SendSaveThread(t)
  \/ SendAppendRequested(t) \/ SendAppendStarted(t)
  \/ SendLookup(t) \/ SendStartSession(t) \/ SendPrompt(t) \/ SendTakeReceiver(t)

RespondApproval(a) ==
  AnswerBegin(a) \/ AnswerDeliver(a) \/ AnswerReadSeq(a) \/ AnswerAppend(a) \/ AnswerSaveThread(a)

InterruptTurn(c) ==
  \/ CancelBegin(c) \/ CancelDeliver(c) \/ CancelSaveThread(c)
  \/ CancelListTurns(c) \/ CancelMarkTurn(c)

Stream(t) ==
  \/ StreamText(t) \/ StreamAsk(t) \/ StreamAskTurn(t) \/ StreamAskAppend(t)
  \/ StreamDone(t) \/ StreamDoneTurn(t) \/ StreamDoneThread(t) \/ StreamDoneAppend(t)
  \/ StreamCheckpointRead(t) \/ StreamCheckpointSave(t) \/ StreamSettle(t)
  \/ StreamClosed(t) \/ StreamPutBack(t)

Provider == ProviderText \/ ProviderAsk \/ ProviderFinish \/ ProviderDies

Restart == ReconcileTurns \/ ReconcileThread

Faults ==
  \/ \E p \in Actors : CallFault(p)
  \/ \E p \in Answers \cup Cancels : SkipFault(p)
  \/ \E t \in Turns : StreamAppendFault(t) \/ StreamRowFault(t) \/ StreamEntryFault(t)
  \/ ReconcileFault

Next ==
  \/ \E t \in Turns : SendTurn(t) \/ Stream(t)
  \/ \E a \in Answers : RespondApproval(a)
  \/ \E c \in Cancels : InterruptTurn(c)
  \/ \E p \in Actors : Broadcast(p)
  \/ Provider \/ Crash \/ Restart \/ Faults

Spec == Init /\ [][Next]_vars

-----------------------------------------------------------------------------
(* Properties *)

StoreTypes ==
  thread \in ThreadStatus /\ turn \in [Turns -> TurnStatus] /\ log \subseteq Event /\ token \in BOOLEAN
SessTypes ==
  sess \in {"none", "live", "dead"} /\ rx \in Turns \cup {"home", None} /\ lock \in Turns \cup {None}
ProvTypes ==
  inbox \in Seq(Turns) /\ asking \in BOOLEAN /\ chan \in Seq(ProviderEvent)
CallTypes ==
  /\ pc \in [Calls -> Ended \cup CallSteps]
  /\ base \in [Actors -> Nat] /\ snap \in [Cancels -> SUBSET Turns]
TaskTypes ==
  /\ task \in [Turns -> {"off"} \cup TaskSteps]
  /\ seq \in [Turns -> Nat] /\ copy \in [Turns -> TurnStatus]
CastTypes ==
  outbox \in [Actors -> Event \cup {NoEvent}] /\ bcast \in Event \cup {NoEvent}
UsedTypes ==
  {texts, asks, deaths, crashes, faults} \subseteq Nat

\* Every variable has its type.
TypeOK ==
  /\ StoreTypes /\ SessTypes /\ ProvTypes /\ CallTypes /\ TaskTypes /\ CastTypes /\ UsedTypes
  /\ server \in {"up", "down", "reconciling"}

\* A session's receiver is in one place: in active_sessions, or with the one task
\* that streams from it.  Two tasks never read one provider's events, and the
\* receiver is never lost while its session is registered.
SingleReader ==
  /\ \A t \in Turns : task[t] # "off" <=> rx = t
  /\ rx = None <=> sess = "none"

\* However calls, streaming tasks and crashes interleave, the seqs stored are 1 to
\* the latest with none missing: a colliding insert fails and its writer never
\* stores past the number it lost.  A reader that asks for what follows its last
\* seq relies on this.
LogGapFree == faults = 0 => Seqs = 1..LatestSeq

\* The rows are written before the events that report them, so after any crash a
\* stored event still finds its row: requested only with a row, completed only
\* with a finished one.
RowsBeforeEvents ==
  faults = 0 =>
    \A e \in log :
      /\ e.turn # None => turn[e.turn] # "none"
      /\ e.kind \in {"completed", "settled"} => turn[e.turn] \in Outcomes

\* Whatever moment the server stopped at, once it takes calls again no turn of an
\* earlier run is active, and the thread is busy only through a call of this run.
RestartLeavesNothingActive ==
  (server = "up" /\ faults = 0) =>
    /\ \A t \in Turns : turn[t] \in Active => pc[t] \notin {"new", "gone"}
    /\ thread # "idle" => \E p \in Actors : pc[p] \notin {"new", "gone", "rejected"}

\* A turn reported as finished by a provider that issues tokens has its resume
\* token saved already: a crash in between never leaves a finished turn that the
\* next session cannot resume.
TokenBeforeOutcome ==
  (IssuesToken /\ faults = 0) => ((\E t \in Turns : turn[t] \in Finished) => token)

\* A finished turn never becomes active again, although its row is written from
\* copies read earlier by the task (checkpoint) and by a cancel.
FinishedStaysFinished ==
  [][\A t \in Turns : turn[t] \in Finished => turn'[t] \in Outcomes]_turn

\* Over one connection and with no cancel, at most one turn is active.
OneActiveTurn == \A t, u \in Turns : turn[t] \in Active /\ turn[u] \in Active => t = u

\* What is stored under a turn was produced for that turn's prompt.
EventsBelongToTurn == \A e \in log : e.turn = e.of

\* The streamed events of a broadcast are in the store.
BroadcastIsStored == bcast # NoEvent => bcast \in log

\* Once every call has returned and the turn has settled, the thread is idle.
SettledThreadIsIdle ==
  ((\A p \in Calls : pc[p] = "ok") /\ bcast.kind = "settled") => thread = "idle"

\* A turn whose send_turn returned is active only while a task streams it.
AcceptedTurnIsStreamed ==
  \A t \in Turns : pc[t] = "ok" /\ turn[t] \in Active => task[t] # "off"

\* The store's rows seen as the abstract event log.
StoredAt(n) == CHOOSE e \in log : e.seq = n
Log == INSTANCE EventLog WITH
         Entry   <- [kind : EventKinds, turn : Turns \cup {None}, of : Turns \cup {None}],
         entries <- [n \in 1..LatestSeq |-> [kind |-> StoredAt(n).kind,
                                             turn |-> StoredAt(n).turn,
                                             of   |-> StoredAt(n).of]]

\* The events table only grows at its end, whoever appends to it.
ImplementsEventLog == Log!Spec

-----------------------------------------------------------------------------
(* Liveness.  The runtime keeps running calls, tasks and broadcasts, and a  *)
(* provider completes the prompts it accepted; nobody has to begin a call.  *)

SendProgress(t)   == SendTurn(t) /\ pc[t] # "new"
AnswerProgress(a) == RespondApproval(a) /\ pc[a] # "new"
CancelProgress(c) == InterruptTurn(c) /\ pc[c] # "new"

Fairness ==
  /\ \A t \in Turns : WF_vars(SendProgress(t)) /\ WF_vars(Stream(t))
  /\ \A a \in Answers : WF_vars(AnswerProgress(a))
  /\ \A c \in Cancels : WF_vars(CancelProgress(c))
  /\ \A p \in Actors : WF_vars(Broadcast(p))
  /\ WF_vars(ProviderFinish) /\ WF_vars(Restart)

FairSpec == Spec /\ Fairness

\* A call that has begun returns (or the server stops under it): the map's mutex
\* is always given back, and no call waits for one that waits for it.
CallsReturn == \A p \in Calls : pc[p] \in CallSteps ~> pc[p] \in Ended

\* A task that took the receiver gives it back, whether its own completion, one
\* left over from another turn, or the end of the provider's process stops it.
ReceiverReturns == \A t \in Turns : rx = t ~> rx # t
=============================================================================
