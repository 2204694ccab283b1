----------------------------- MODULE ServerBridge -----------------------------
(***************************************************************************)
(* The desktop's bridge to the server: requests of the user interface are  *)
(* queued for a worker, which numbers them, writes them to the connection  *)
(* and hands each answer to the request it belongs to.  The worker finds   *)
(* the server again when the connection is lost, and ends when the handle  *)
(* is dropped, which waits for it.                                         *)
(*                                                                         *)
(* The worker is one task: while it writes it does not read.  The server   *)
(* reads a line, answers it, and only then reads the next.  Both pipes     *)
(* hold a bounded amount, counted here in lines.                           *)
(*                                                                         *)
(* The server sends no event envelopes over a connection (its router has   *)
(* no system.subscribe), so the worker's count of seen seqs stays 0 and is *)
(* left out; the subscription is a request like any other.                 *)
(***************************************************************************)
EXTENDS Integers, Sequences

CONSTANTS
  Requests,   \* what the user interface asks
  Greeting,   \* hello and subscribe, which nobody waits for
  QueueCap,   \* capacity of the command channel
  ToServer,   \* lines the pipe to the server holds
  ToClient,   \* lines the pipe to the desktop holds
  MaxCuts,    \* bound: connections lost
  MaxFails    \* bound: attempts to find and connect to the server that fail

ASSUME BridgeAssumption ==
  /\ Greeting \notin Requests
  /\ {"none", "waiting", "failed"} \cap Requests = {}
  /\ {QueueCap, ToServer, ToClient} \subseteq Nat \ {0}
  /\ {MaxCuts, MaxFails} \subseteq Nat

VARIABLES
  result,    \* per request: not asked, waiting, failed (its sender was dropped) or what it got
  cmds,      \* the command channel
  handle,    \* the ServerBridgeHandle: held, joining the worker, gone
  signal,    \* the shutdown channel has its message
  worker,    \* where the worker is
  nextId, pending, writing,
  conn, up, down,   \* the connection and what is in its pipes
  serving,   \* the line the server works on
  cuts, fails

workVars == <<nextId, pending, writing>>
pipeVars == <<conn, up, down, serving>>
vars == <<result, cmds, handle, signal, worker, nextId, pending, writing,
          conn, up, down, serving, cuts, fails>>

Line   == [id : Nat, req : Requests \cup {Greeting}]
NoLine == [id |-> 0, req |-> Greeting]
Numbered(n, r) == [id |-> n, req |-> r]

Places == {"top", "connect", "hello", "subscribe", "select", "write", "backoff", "pause", "ended"}

-----------------------------------------------------------------------------
(* The user interface *)

\* try_send: a full channel, or one whose worker has ended, drops the request and with
\* it the sender of its answer.  A copy of the sender may outlive the handle.
Ask(r) ==
  /\ result[r] = "none"
  /\ IF worker # "ended" /\ Len(cmds) < QueueCap
       THEN cmds' = Append(cmds, r) /\ result' = [result EXCEPT ![r] = "waiting"]
       ELSE UNCHANGED cmds /\ result' = [result EXCEPT ![r] = "failed"]
  /\ UNCHANGED <<handle, signal, worker, workVars, pipeVars, cuts, fails>>

\* Mutant of DropBegin: the worker is joined before the senders are dropped.
DropJoiningFirst ==
  /\ handle = "held"
  /\ handle' = "joining"
  /\ UNCHANGED <<result, cmds, signal, worker, workVars, pipeVars, cuts, fails>>

DropBegin ==
  /\ handle = "held"
  /\ signal' = TRUE /\ handle' = "joining"
  /\ UNCHANGED <<result, cmds, worker, workVars, pipeVars, cuts, fails>>

DropJoin ==
  /\ handle = "joining" /\ worker = "ended"
  /\ handle' = "gone"
  /\ UNCHANGED <<result, cmds, signal, worker, workVars, pipeVars, cuts, fails>>

-----------------------------------------------------------------------------
(* The worker *)

\* it ends: the channel, the requests pending and the connection go with it
End ==
  /\ worker' = "ended"
  /\ result' = [r \in Requests |-> IF result[r] = "waiting" THEN "failed" ELSE result[r]]
  /\ cmds' = <<>> /\ pending' = {} /\ writing' = NoLine
  /\ conn' = "closed" /\ up' = <<>> /\ down' = <<>> /\ serving' = NoLine
  /\ UNCHANGED <<handle, signal, nextId, cuts, fails>>

\* wherever the worker selects on the shutdown channel, and at the top of its loop
Shutdown ==
  /\ worker \in {"top", "select", "backoff", "pause"} /\ signal
  /\ End

Retry ==
  /\ \/ worker = "top" /\ ~signal /\ worker' = "connect"
     \/ worker \in {"backoff", "pause"} /\ worker' = "top"
  /\ UNCHANGED <<result, cmds, handle, signal, workVars, pipeVars, cuts, fails>>

\* Mutant of Connect: every connection numbers its requests from 1.
ConnectFromOne ==
  /\ worker = "connect"
  /\ conn' = "open" /\ up' = <<>> /\ down' = <<>> /\ serving' = NoLine
  /\ worker' = "hello" /\ nextId' = 1
  /\ UNCHANGED <<result, cmds, handle, signal, pending, writing, cuts, fails>>

\* the server is found, or started, and connected to
Connect ==
  /\ worker = "connect"
  /\ conn' = "open" /\ up' = <<>> /\ down' = <<>> /\ serving' = NoLine
  /\ worker' = "hello"
  /\ UNCHANGED <<result, cmds, handle, signal, workVars, cuts, fails>>

ConnectFails ==
  /\ worker = "connect" /\ fails < MaxFails
  /\ worker' = "backoff" /\ fails' = fails + 1
  /\ UNCHANGED <<result, cmds, handle, signal, workVars, pipeVars, cuts>>

\* write_all: waits for room, and fails on a connection that is lost
Write(l, next) ==
  IF conn = "open" THEN /\ Len(up) < ToServer
                        /\ up' = Append(up, l) /\ worker' = next
                   ELSE UNCHANGED up /\ worker' = "pause"

Greet ==
  /\ \/ worker = "hello" /\ Write(Numbered(nextId, Greeting), "subscribe")
     \/ worker = "subscribe" /\ Write(Numbered(nextId, Greeting), "select")
  /\ nextId' = nextId + 1
  /\ UNCHANGED <<result, cmds, handle, signal, pending, writing, conn, down, serving, cuts, fails>>

\* HashMap::insert: an entry with the same id is replaced, and its sender dropped
Register(l) ==
  /\ pending' = {p \in pending : p.id # l.id} \cup {l}
  /\ result' = [r \in Requests |->
                  IF \E p \in pending : p.id = l.id /\ p.req = r THEN "failed" ELSE result[r]]

\* Mutant of TakeCommand: what is registered is the id after the one that is sent.
TakeCommandOffByOne ==
  /\ worker = "select" /\ cmds # <<>>
  /\ cmds' = Tail(cmds)
  /\ Register(Numbered(nextId + 1, Head(cmds)))
  /\ writing' = Numbered(nextId, Head(cmds)) /\ nextId' = nextId + 1
  /\ worker' = "write"
  /\ UNCHANGED <<handle, signal, pipeVars, cuts, fails>>

TakeCommand ==
  /\ worker = "select" /\ cmds # <<>>
  /\ cmds' = Tail(cmds)
  /\ Register(Numbered(nextId, Head(cmds)))
  /\ writing' = Numbered(nextId, Head(cmds)) /\ nextId' = nextId + 1
  /\ worker' = "write"
  /\ UNCHANGED <<handle, signal, pipeVars, cuts, fails>>

WriteCommand ==
  /\ worker = "write"
  /\ Write(writing, "select")
  /\ writing' = NoLine
  /\ UNCHANGED <<result, cmds, handle, signal, nextId, pending, conn, down, serving, cuts, fails>>

\* Mutant of ReadAnswer: answers are taken to come in the order of the requests.
ReadAnswerInOrder ==
  /\ worker = "select" /\ down # <<>>
  /\ down' = Tail(down)
  /\ LET Oldest == {p \in pending : \A q \in pending : p.id <= q.id}
         got    == IF Head(down).req = Greeting THEN {} ELSE Oldest
     IN  /\ pending' = pending \ got
         /\ result' = [r \in Requests |-> IF \E p \in got : p.req = r THEN Head(down).req ELSE result[r]]
  /\ UNCHANGED <<cmds, handle, signal, worker, nextId, writing, conn, up, serving, cuts, fails>>

\* Mutant of ReadAnswer: and the greeting's answers are not told apart.
ReadAnswerOfAny ==
  /\ worker = "select" /\ down # <<>>
  /\ down' = Tail(down)
  /\ LET got == {p \in pending : \A q \in pending : p.id <= q.id}
     IN  /\ pending' = pending \ got
         /\ result' = [r \in Requests |-> IF \E p \in got : p.req = r THEN Head(down).req ELSE result[r]]
  /\ UNCHANGED <<cmds, handle, signal, worker, nextId, writing, conn, up, serving, cuts, fails>>

\* a response whose id nobody registered is ignored
ReadAnswer ==
  /\ worker = "select" /\ down # <<>>
  /\ down' = Tail(down)
  /\ LET got == {p \in pending : p.id = Head(down).id}
     IN  /\ pending' = pending \ got
         /\ result' = [r \in Requests |-> IF \E p \in got : p.req = r THEN Head(down).req ELSE result[r]]
  /\ UNCHANGED <<cmds, handle, signal, worker, nextId, writing, conn, up, serving, cuts, fails>>

\* the end of the stream: what is pending stays so, and is not sent again
ReadEnd ==
  /\ worker = "select" /\ conn = "closed" /\ down = <<>>
  /\ worker' = "pause"
  /\ UNCHANGED <<result, cmds, handle, signal, workVars, pipeVars, cuts, fails>>

-----------------------------------------------------------------------------
(* The server's end of the connection *)

ServerRead ==
  /\ conn = "open" /\ serving = NoLine /\ up # <<>>
  /\ serving' = Head(up) /\ up' = Tail(up)
  /\ UNCHANGED <<result, cmds, handle, signal, worker, workVars, conn, down, cuts, fails>>

ServerReply ==
  /\ conn = "open" /\ serving # NoLine /\ Len(down) < ToClient
  /\ down' = Append(down, serving) /\ serving' = NoLine
  /\ UNCHANGED <<result, cmds, handle, signal, worker, workVars, conn, up, cuts, fails>>

\* the server goes away: what it has sent can still be read
Cut ==
  /\ conn = "open" /\ cuts < MaxCuts
  /\ conn' = "closed" /\ up' = <<>> /\ serving' = NoLine
  /\ cuts' = cuts + 1
  /\ UNCHANGED <<result, cmds, handle, signal, worker, workVars, down, fails>>

-----------------------------------------------------------------------------
Init ==
  /\ result = [r \in Requests |-> "none"] /\ cmds = <<>>
  /\ handle = "held" /\ signal = FALSE /\ worker = "top"
  /\ nextId = 1 /\ pending = {} /\ writing = NoLine
  /\ conn = "closed" /\ up = <<>> /\ down = <<>> /\ serving = NoLine
  /\ cuts = 0 /\ fails = 0

Worker ==
  \/ Shutdown \/ Retry \/ Connect \/ ConnectFails \/ Greet
  \/ TakeCommand \/ WriteCommand \/ ReadAnswer \/ ReadEnd

Server == ServerRead \/ ServerReply \/ Cut

Next == (\E r \in Requests : Ask(r)) \/ DropBegin \/ DropJoin \/ Worker \/ Server

Spec == Init /\ [][Next]_vars

-----------------------------------------------------------------------------
(* Properties *)

\* Every variable has its type.
TypeOK ==
  /\ result \in [Requests -> Requests \cup {"none", "waiting", "failed"}]
  /\ cmds \in Seq(Requests)
  /\ handle \in {"held", "joining", "gone"} /\ signal \in BOOLEAN /\ worker \in Places
  /\ nextId \in Nat \ {0} /\ pending \subseteq Line /\ writing \in Line
  /\ conn \in {"open", "closed"} /\ up \in Seq(Line) /\ down \in Seq(Line) /\ serving \in Line
  /\ {cuts, fails} \subseteq Nat

\* What a request is answered with is the answer to that request, also when others
\* were left pending by connections that are gone.
AnswersMatch == \A r \in Requests : result[r] \in {"none", "waiting", "failed", r}

\* Once queued, a request is not given up while the worker runs: no later request
\* takes its place in the table of pending ones.
NoneGivenUp ==
  [][\A r \in Requests : result[r] = "waiting" /\ result'[r] = "failed" => worker' = "ended"]_vars

-----------------------------------------------------------------------------
(* Liveness.  select! polls its branches in random order, so none that is   *)
(* ready is passed over for ever; the server answers what it has read.      *)
(* Nobody has to ask, to drop the handle or to lose the connection.         *)

Fairness ==
  /\ WF_vars(DropJoin)
  /\ WF_vars(Shutdown) /\ WF_vars(Retry) /\ WF_vars(Connect \/ ConnectFails) /\ WF_vars(Greet)
  /\ WF_vars(TakeCommand) /\ WF_vars(WriteCommand) /\ WF_vars(ReadAnswer) /\ WF_vars(ReadEnd)
  /\ WF_vars(ServerRead) /\ WF_vars(ServerReply)

FairSpec == Spec /\ Fairness

\* neither the request nor its answer is on its way any more
Stranded(r) ==
  \E p \in pending :
    /\ p.req = r
    /\ p.id \notin {writing.id, serving.id}
    /\ \A i \in DOMAIN up : up[i].id # p.id
    /\ \A i \in DOMAIN down : down[i].id # p.id

\* A queued request gets its answer, or fails, unless a lost connection took it along.
Answered == \A r \in Requests : result[r] = "waiting" ~> (result[r] # "waiting" \/ (cuts > 0 /\ Stranded(r)))

\* Dropping the handle returns: the worker notices and ends, wherever it is.
DropReturns == handle = "joining" ~> handle = "gone"
=============================================================================
