--------------------------- MODULE Client_proofs ----------------------------
(* What clients hold of their server, for every number of requests, events,   *)
(* chunks and calls: the desktop's bridge to its server, the view a client    *)
(* keeps of a thread, the queue between a provider's text and its display,    *)
(* and the stored settings.                                                   *)
EXTENDS ServerBridge, ClientView, TokenQueue, Settings, SequenceLemmas

-----------------------------------------------------------------------------
(* The bridge: a request is answered with its own answer and is not given up  *)
(* while the worker runs.  Both rest on ids that never repeat, over all       *)
(* connections.                                                               *)
\* A line's id has been handed out, and who waits under it asked what the line asks.
Agrees(l) == l.id < nextId /\ \A p \in pending : p.id = l.id => p.req = l.req

PendingNumbered == \A p \in pending : 0 < p.id /\ p.id < nextId

LinesAgree ==
  /\ Agrees(writing) /\ Agrees(serving)
  /\ \A i \in DOMAIN up : Agrees(up[i])
  /\ \A i \in DOMAIN down : Agrees(down[i])

Inv == TypeOK /\ PendingNumbered /\ LinesAgree /\ AnswersMatch

\* The initial states satisfy the invariant.
LEMMA InitInv == Init => Inv
<1> SUFFICES ASSUME Init PROVE Inv
  OBVIOUS
<1> USE DEF Init
<1>1. TypeOK
  <2>1. cmds \in Seq(Requests) /\ up \in Seq(Line) /\ down \in Seq(Line)
    OBVIOUS
  <2>2. signal \in BOOLEAN
    BY Zenon
  <2>3. writing \in Line /\ serving \in Line
    BY DEF Line, NoLine
  <2> QED BY <2>1, <2>2, <2>3 DEF TypeOK, Places
<1>2. PendingNumbered /\ LinesAgree /\ AnswersMatch
  BY DEF PendingNumbered, LinesAgree, Agrees, NoLine, AnswersMatch
<1> QED BY <1>1, <1>2 DEF Inv

\* What a user interface or a handle does leaves the numbering alone.
LEMMA AskInv == ASSUME Inv, NEW r \in Requests, Ask(r) PROVE Inv'
<1> USE DEF Inv
<1>1. UNCHANGED <<handle, signal, worker, nextId, pending, writing, conn, up, down, serving, cuts, fails>>
  BY DEF Ask, workVars, pipeVars
<1>2. TypeOK'
  <2>1a. cmds' = cmds \/ cmds' = Append(cmds, r)
    BY DEF Ask
  <2>1b. cmds \in Seq(Requests)
    BY DEF TypeOK
  <2>1. cmds' \in Seq(Requests)
    BY <2>1a, <2>1b
  <2>2. result' \in [Requests -> Requests \cup {"none", "waiting", "failed"}]
    BY DEF Ask, TypeOK
  <2> QED BY <1>1, <2>1, <2>2 DEF TypeOK
<1>3. PendingNumbered' /\ LinesAgree'
  BY <1>1 DEF PendingNumbered, LinesAgree, Agrees
<1>4. AnswersMatch'
  BY DEF Ask, AnswersMatch, TypeOK
<1> QED BY <1>2, <1>3, <1>4

\* The steps that move no line and number none: the worker's way round its loop, the
\* handle, a failed attempt to connect, the end of the stream, a stuttering step.
LEMMA QuietInv ==
  ASSUME Inv, DropBegin \/ DropJoin \/ Retry \/ ConnectFails \/ ReadEnd \/ UNCHANGED vars
  PROVE  Inv'
<1> USE DEF Inv
<1>1. signal' = TRUE \/ signal' = signal
  BY DEF DropBegin, DropJoin, Retry, ConnectFails, ReadEnd, vars
<1>2. UNCHANGED <<result, cmds, nextId, pending, writing, conn, serving, up, down, cuts>>
  BY DEF DropBegin, DropJoin, Retry, ConnectFails, ReadEnd, vars, workVars, pipeVars
<1>2a. handle' \in {"held", "joining", "gone"} /\ worker' \in Places /\ fails' \in Nat
  BY DEF TypeOK, Places, DropBegin, DropJoin, Retry, ConnectFails, ReadEnd, vars
<1>2b. signal' \in BOOLEAN
  BY <1>1, Zenon DEF TypeOK
<1>2c. TypeOK'
  BY <1>2, <1>2a, <1>2b DEF TypeOK
<1>3. PendingNumbered' /\ LinesAgree' /\ AnswersMatch'
  BY <1>2 DEF PendingNumbered, LinesAgree, Agrees, AnswersMatch
<1> QED BY <1>2c, <1>3

\* The worker's end empties everything that is numbered.
LEMMA EndInv == ASSUME Inv, End PROVE Inv'
<1> USE DEF Inv, End
<1>1. TypeOK'
  <2>1. cmds' \in Seq(Requests) /\ up' \in Seq(Line) /\ down' \in Seq(Line)
    OBVIOUS
  <2>2. writing' \in Line /\ serving' \in Line
    BY DEF Line, NoLine
  <2>3. result' \in [Requests -> Requests \cup {"none", "waiting", "failed"}]
    BY DEF TypeOK
  <2> QED BY <2>1, <2>2, <2>3 DEF TypeOK, Places
<1>2. PendingNumbered' /\ LinesAgree'
  BY DEF PendingNumbered, LinesAgree, Agrees, TypeOK, NoLine
<1>3. AnswersMatch'
  BY DEF AnswersMatch, TypeOK
<1> QED BY <1>1, <1>2, <1>3

\* A new connection starts with empty pipes, a lost one forgets what the server had.
LEMMA ConnectionInv == ASSUME Inv, Connect \/ Cut PROVE Inv'
<1> USE DEF Inv
<1>1. TypeOK'
  <2>1a. up' = <<>> /\ down' \in {<<>>, down}
    BY DEF Connect, Cut
  <2>1b. down \in Seq(Line) /\ <<>> \in Seq(Line)
    BY DEF TypeOK
  <2>1. up' \in Seq(Line) /\ down' \in Seq(Line)
    BY <2>1a, <2>1b
  <2>2. serving' \in Line
    BY DEF Line, NoLine, Connect, Cut
  <2>3. /\ worker' \in Places /\ conn' \in {"open", "closed"} /\ cuts' \in Nat
        /\ UNCHANGED <<result, cmds, handle, signal, nextId, pending, writing, fails>>
    BY DEF TypeOK, Places, Connect, Cut, workVars
  <2> QED BY <2>1, <2>2, <2>3 DEF TypeOK
<1>2. UNCHANGED <<result, nextId, pending, writing>>
  BY DEF Connect, Cut, workVars
<1>3. PendingNumbered' /\ AnswersMatch'
  BY <1>2 DEF PendingNumbered, AnswersMatch
<1>4. up' = <<>> /\ serving' = NoLine /\ (down' = <<>> \/ down' = down)
  BY DEF Connect, Cut
<1>5. Agrees(NoLine)'
  BY <1>2 DEF Agrees, NoLine, PendingNumbered, TypeOK
<1>6. LinesAgree'
  BY <1>2, <1>4, <1>5 DEF LinesAgree, Agrees
<1> QED BY <1>1, <1>3, <1>6

\* The greeting's id is new, so nobody waits under it.
LEMMA GreetInv == ASSUME Inv, Greet PROVE Inv'
<1> USE DEF Inv
<1> DEFINE l == Numbered(nextId, Greeting)
<1>1. UNCHANGED <<result, cmds, handle, signal, pending, writing, conn, down, serving, cuts, fails>> /\ nextId' = nextId + 1
  BY DEF Greet
<1>2. (up' = Append(up, l) \/ up' = up) /\ worker' \in Places
  BY DEF Greet, Write, Places
<1>3. l \in Line /\ up \in Seq(Line)
  BY DEF TypeOK, Line, Numbered
<1>4. TypeOK'
  <2>1. up' \in Seq(Line)
    BY <1>2, <1>3
  <2> QED BY <1>1, <1>2, <2>1 DEF TypeOK
<1>5. PendingNumbered' /\ AnswersMatch'
  BY <1>1 DEF PendingNumbered, AnswersMatch, TypeOK, Line
<1>6. l.id < nextId' /\ \A p \in pending : p.id # l.id
  BY <1>1 DEF PendingNumbered, Numbered, TypeOK
<1>7. \A i \in DOMAIN up' : up'[i] = l \/ (i \in DOMAIN up /\ up'[i] = up[i])
  BY <1>2, <1>3
<1>8. \A k \in Line : Agrees(k) => k.id < nextId' /\ \A p \in pending : p.id = k.id => p.req = k.req
  BY <1>1 DEF Agrees, TypeOK, Line
<1>9. \A i \in DOMAIN up : up[i] \in Line
  BY <1>3
<1>10. \A i \in DOMAIN down : down[i] \in Line
  BY DEF TypeOK
<1>11. (\A i \in DOMAIN up : Agrees(up[i]))'
  BY <1>1, <1>6, <1>7, <1>8, <1>9 DEF LinesAgree, Agrees
<1>12. LinesAgree'
  BY <1>1, <1>8, <1>10, <1>11 DEF LinesAgree, Agrees, TypeOK
<1> QED BY <1>4, <1>5, <1>12

\* A command is numbered with an id no line bears and nobody waits under: no entry is
\* replaced, and the entry and the line to be written ask the same.
LEMMA TakeCommandInv ==
  ASSUME Inv, TakeCommand
  PROVE  Inv' /\ result' = result
<1> USE DEF Inv
<1> DEFINE l == Numbered(nextId, Head(cmds))
<1>1. /\ nextId' = nextId + 1 /\ writing' = l /\ worker' = "write" /\ cmds' = Tail(cmds)
      /\ UNCHANGED <<handle, signal, conn, up, down, serving, cuts, fails>>
  BY DEF TakeCommand, pipeVars
<1>2. cmds \in Seq(Requests) /\ cmds # <<>>
  BY DEF TypeOK, TakeCommand
<1>3. Head(cmds) \in Requests /\ cmds' \in Seq(Requests)
  BY <1>1, <1>2
<1>4. l \in Line /\ l.id = nextId /\ nextId \in Nat /\ nextId > 0
  BY <1>3 DEF Numbered, Line, TypeOK
<1>5. \A p \in pending : p.id # l.id /\ p \in Line
  BY <1>4 DEF PendingNumbered, TypeOK, Line
<1>6. pending' = pending \cup {l}
  BY <1>5 DEF TakeCommand, Register
<1>7. result' = result
  <2>1. result' = [r \in Requests |-> result[r]]
    BY <1>5 DEF TakeCommand, Register
  <2> QED BY <2>1 DEF TypeOK
<1>8. TypeOK'
  BY <1>1, <1>3, <1>4, <1>6, <1>7 DEF TypeOK, Places
<1>9. PendingNumbered'
  BY <1>1, <1>4, <1>5, <1>6 DEF PendingNumbered, Line
<1>10. ASSUME NEW k \in Line, Agrees(k)
       PROVE  k.id < nextId' /\ \A p \in pending' : p.id = k.id => p.req = k.req
  BY <1>1, <1>4, <1>6, <1>10 DEF Agrees, Line
<1>11. l.id < nextId' /\ \A p \in pending' : p.id = l.id => p.req = l.req
  BY <1>1, <1>4, <1>5, <1>6
<1>12. serving \in Line /\ (\A i \in DOMAIN up : up[i] \in Line) /\ (\A i \in DOMAIN down : down[i] \in Line)
  BY DEF TypeOK
<1>13. LinesAgree'
  BY <1>1, <1>10, <1>11, <1>12 DEF LinesAgree, Agrees
<1>14. AnswersMatch'
  BY <1>7 DEF AnswersMatch
<1> QED BY <1>7, <1>8, <1>9, <1>13, <1>14

\* Lines move from the worker to the server and back; none changes.
LEMMA MoveInv == ASSUME Inv, WriteCommand \/ ServerRead \/ ServerReply PROVE Inv'
<1> USE DEF Inv
<1>1. UNCHANGED <<result, cmds, handle, signal, nextId, pending, conn, cuts, fails>>
  BY DEF WriteCommand, ServerRead, ServerReply, workVars
<1>2. worker' \in Places
  BY DEF TypeOK, Places, WriteCommand, Write, ServerRead, ServerReply
<1>3. writing \in Line /\ serving \in Line /\ NoLine \in Line /\ up \in Seq(Line) /\ down \in Seq(Line)
  BY DEF TypeOK, NoLine, Line
<1>4. writing' \in {writing, NoLine}
  BY DEF WriteCommand, ServerRead, ServerReply, workVars
<1>5. serving' = serving \/ serving' = NoLine \/ (up # <<>> /\ serving' = Head(up))
  BY DEF WriteCommand, ServerRead, ServerReply
<1>6. up' = up \/ up' = Append(up, writing) \/ (up # <<>> /\ up' = Tail(up))
  BY DEF WriteCommand, Write, ServerRead, ServerReply
<1>7. down' = down \/ down' = Append(down, serving)
  BY DEF WriteCommand, ServerRead, ServerReply
<1>8. writing' \in Line /\ serving' \in Line /\ up' \in Seq(Line) /\ down' \in Seq(Line)
  <2>1. writing' \in Line /\ serving' \in Line
    BY <1>3, <1>4, <1>5
  <2>2. up' \in Seq(Line)
    BY <1>3, <1>6, SMTT(30)
  <2>3. down' \in Seq(Line)
    BY <1>3, <1>7
  <2> QED BY <2>1, <2>2, <2>3
<1>9. TypeOK'
  BY <1>1, <1>2, <1>8 DEF TypeOK
<1>10. Agrees(NoLine) /\ Agrees(writing) /\ Agrees(serving)
  BY DEF Agrees, NoLine, PendingNumbered, TypeOK, LinesAgree
<1>11. Agrees(writing')
  BY <1>4, <1>10
<1>12. Agrees(serving')
  BY <1>3, <1>5, <1>10 DEF LinesAgree
<1>13. \A i \in DOMAIN up' : Agrees(up'[i])
  <2>1. \A i \in DOMAIN up' : up'[i] = writing \/ \E j \in DOMAIN up : up'[i] = up[j]
    BY <1>3, <1>6, SMTT(30)
  <2> QED BY <2>1, <1>10 DEF LinesAgree
<1>14. \A i \in DOMAIN down' : Agrees(down'[i])
  <2>1. \A i \in DOMAIN down' : down'[i] = serving \/ \E j \in DOMAIN down : down'[i] = down[j]
    BY <1>3, <1>7
  <2> QED BY <2>1, <1>10 DEF LinesAgree
<1>15. PendingNumbered' /\ LinesAgree' /\ AnswersMatch'
  BY <1>1, <1>11, <1>12, <1>13, <1>14 DEF PendingNumbered, LinesAgree, Agrees, AnswersMatch
<1> QED BY <1>9, <1>15

\* The answer goes to who waits under its id, who asked what it answers.
LEMMA ReadAnswerInv ==
  ASSUME Inv, ReadAnswer
  PROVE  Inv' /\ \A r \in Requests : result'[r] \in {r, result[r]}
<1> USE DEF Inv
<1> DEFINE l == Head(down)
           got == {p \in pending : p.id = l.id}
<1>1. UNCHANGED <<cmds, handle, signal, worker, nextId, writing, conn, up, serving, cuts, fails>>
  BY DEF ReadAnswer
<1>2. down \in Seq(Line) /\ down # <<>> /\ down' = Tail(down)
  BY DEF ReadAnswer, TypeOK
<1>3. l \in Line /\ Agrees(l)
  BY <1>2 DEF LinesAgree
<1>4. pending' \subseteq pending
  BY DEF ReadAnswer
<1>5. \A p \in got : p.req = l.req
  BY <1>3 DEF Agrees
<1>6. result' = [r \in Requests |-> IF \E p \in got : p.req = r THEN l.req ELSE result[r]]
  BY DEF ReadAnswer
<1>7. \A r \in Requests : result'[r] = r \/ result'[r] = result[r]
  BY <1>5, <1>6
<1>8. TypeOK'
  <2>1. down' \in Seq(Line)
    BY <1>2
  <2>2. result' \in [Requests -> Requests \cup {"none", "waiting", "failed"}]
    BY <1>6, <1>7 DEF TypeOK
  <2> QED BY <1>1, <1>4, <2>1, <2>2 DEF TypeOK
<1>9. PendingNumbered'
  BY <1>1, <1>4 DEF PendingNumbered
<1>10. \A i \in DOMAIN down' : \E j \in DOMAIN down : down'[i] = down[j]
  BY <1>2
<1>11. LinesAgree'
  BY <1>1, <1>4, <1>10 DEF LinesAgree, Agrees
<1>12. AnswersMatch'
  BY <1>7 DEF AnswersMatch
<1> QED BY <1>7, <1>8, <1>9, <1>11, <1>12

\* Every step preserves the invariant.
LEMMA StepInv == ASSUME Inv, [Next]_vars PROVE Inv'
<1>1. CASE \E r \in Requests : Ask(r)
  BY <1>1, AskInv
<1>2. CASE DropBegin \/ DropJoin \/ Retry \/ ConnectFails \/ ReadEnd \/ UNCHANGED vars
  BY <1>2, QuietInv
<1>3. CASE Shutdown
  BY <1>3, EndInv DEF Shutdown
<1>4. CASE Connect \/ Cut
  BY <1>4, ConnectionInv
<1>5. CASE Greet
  BY <1>5, GreetInv
<1>6. CASE TakeCommand
  BY <1>6, TakeCommandInv
<1>7. CASE WriteCommand \/ ServerRead \/ ServerReply
  BY <1>7, MoveInv
<1>8. CASE ReadAnswer
  BY <1>8, ReadAnswerInv
<1> QED
  BY <1>1, <1>2, <1>3, <1>4, <1>5, <1>6, <1>7, <1>8 DEF Next, Worker, Server

\* Every reachable state satisfies the invariant.
THEOREM InvHolds == Spec => []Inv
<1>1. Init => Inv
  BY InitInv
<1>2. Inv /\ [Next]_vars => Inv'
  BY StepInv
<1> QED
  BY <1>1, <1>2, PTL DEF Spec

\* Every variable keeps its type.
THEOREM BridgeTypes == Spec => []TypeOK
  BY InvHolds, PTL DEF Inv

\* A request is answered with the answer to that request (the ids under which
\* server_bridge.rs keeps the senders are counted on over reconnections).
THEOREM AnswersMatchHolds == Spec => []AnswersMatch
  BY InvHolds, PTL DEF Inv

\* A queued request is given up only by the worker's end: no insert into the table of
\* pending requests replaces an entry.
THEOREM NoneGivenUpHolds == Spec => NoneGivenUp
<1> DEFINE Kept == \A r \in Requests : result[r] = "waiting" /\ result'[r] = "failed" => worker' = "ended"
<1>1. ASSUME Inv, [Next]_vars PROVE Kept
  <2> USE <1>1 DEF Inv
  <2>1. ASSUME NEW r \in Requests, Ask(r) PROVE Kept
    BY <2>1 DEF Ask, TypeOK
  <2>2. CASE Shutdown
    BY <2>2 DEF Shutdown, End
  <2>3. CASE TakeCommand
    BY <2>3, TakeCommandInv
  <2>4. CASE ReadAnswer
    <3>1. \A r \in Requests : result'[r] \in {r, result[r]}
      BY <2>4, ReadAnswerInv
    <3>2. "failed" \notin Requests
      BY BridgeAssumption
    <3> QED BY <3>1, <3>2
  <2>5. CASE UNCHANGED result
    BY <2>5
  <2>6. DropBegin \/ DropJoin \/ Retry \/ Connect \/ ConnectFails \/ Greet \/ WriteCommand \/ ReadEnd
          \/ Server \/ UNCHANGED vars => UNCHANGED result
    BY DEF DropBegin, DropJoin, Retry, Connect, ConnectFails, Greet, WriteCommand, ReadEnd, Server,
           ServerRead, ServerReply, Cut, vars
  <2> QED
    BY <2>1, <2>2, <2>3, <2>4, <2>5, <2>6 DEF Next, Worker
<1> QED
  BY <1>1, InvHolds, PTL DEF Spec, NoneGivenUp

-----------------------------------------------------------------------------
(* What events, items and the node's thread are.                              *)
TextKinds == {"text", "reasoning"}
AgentKinds == {"spawned", "activity", "finished"}
CvKinds == TextKinds \cup AgentKinds \cup {"prompt", "tool", "error", "ask", "resolved", "completed", "settled"}
CvValues == {NoOne, "Executing", "Completed", "fatal", "Approved", "Denied", "Interrupted", "changed"} \cup CvAgents
CvIds == Nat \cup CvItems \cup CvAgents
CvEvents == [kind : CvKinds, id : CvIds, val : CvValues]
CvItemRecs == [kind : CvKinds, id : CvIds, st : CvValues \cup {"finished"}, text : Seq(Nat)]
CvOutcomes == {"Running", "Completed", "Interrupted"}
CvServers ==
  [status : {"Idle", "Working", "AwaitingApproval"}, turns : Seq(CvOutcomes), stream : Nat,
   phase : {"none", "running", "completed"}, spawned : SUBSET CvAgents, gone : BOOLEAN,
   untold : SUBSET Nat]
CvRelayRecs == [todo : Seq(Nat), open : BOOLEAN, up : BOOLEAN, from : Nat]
CvShownTurns == [id : Nat, st : CvOutcomes]

CvSound(s) ==
  /\ s \in CvServers
  /\ s.phase # "none" => s.stream \in 1..Len(s.turns)
  /\ s.phase = "running" /\ s.stream \notin s.untold => s.turns[s.stream] = "Running"

(* A view with this status and these turns differs from a node only in what   *)
(* the node did not tell.                                                     *)
CvAgrees(status, turns, s) ==
  /\ turns \in Seq(CvShownTurns) /\ Len(turns) = Len(s.turns)
  /\ \A i \in 1..Len(s.turns) : turns[i].id = i
  /\ \A i \in 1..Len(s.turns) : i \notin s.untold => turns[i].st = s.turns[i]
  /\ 0 \notin s.untold => status = s.status
CvAgreed(view, s) == CvAgrees(view.status, view.turns, s)

(* An event that tells of the node's step from s to t takes every view that   *)
(* agrees with s to one that agrees with t; a silent step keeps them.         *)
CvTells(s, e, t) ==
  \A status, turns :
    CvAgrees(status, turns, s) => CvAgrees(StatusAfter(status, e), TurnsAfter(turns, e), t)
CvSilent(s, t) ==
  \A status, turns : CvAgrees(status, turns, s) => CvAgrees(status, turns, t)

CvTypes ==
  /\ cvLog \in Seq(CvEvents) /\ cvRelays \in Seq(CvRelayRecs) /\ CvSound(cvServer)

CvHistory(past, log, server) ==
  /\ \A n \in 0..Len(log) : CvSound(past[n])
  /\ past[Len(log)] = server
  /\ \A n \in 1..Len(log) : CvTells(past[n - 1], log[n], past[n])

(* The places a relay that missed nothing has still to relay.                 *)
CvBehind(todo, log) ==
  /\ Len(todo) <= Len(log)
  /\ \A i \in 1..Len(todo) : todo[i] = Len(log) - Len(todo) + i

CvFollows(past, log, relays, view) ==
  /\ Len(relays) = 0 => CvAgreed(view, past[0])
  /\ Len(relays) = 1 /\ relays[1].up /\ relays[1].from = 0 =>
       /\ relays[1].open /\ CvBehind(relays[1].todo, log)
       /\ CvAgreed(view, past[Len(log) - Len(relays[1].todo)])

CvInv ==
  /\ CvTypes
  /\ \E past : CvHistory(past, cvLog, cvServer) /\ CvFollows(past, cvLog, cvRelays, cvView)

(* An event tells of the agents, too.                                         *)
CvSpawns(s, e, t) ==
  \/ e.kind \notin AgentKinds /\ t.spawned = s.spawned
  \/ e.kind \in {"activity", "finished"} /\ e.id \in s.spawned /\ t.spawned = s.spawned
  \/ /\ e.kind = "spawned" /\ e.id \in CvAgents \ s.spawned /\ e.val \in s.spawned \cup {NoOne}
     /\ t.spawned = s.spawned \cup {e.id}

CvPublished ==
  \E event \in CvEvents : \E server :
    /\ CvSound(server) /\ CvTells(cvServer, event, server) /\ CvSpawns(cvServer, event, server)
    /\ Publish(event, server)

(* The events, but for the start and the end of a turn.                       *)
LEMMA CvTellsSame ==
  ASSUME NEW s \in CvServers, NEW t \in CvServers, NEW e, e.kind \notin {"prompt", "completed"},
         Len(t.turns) = Len(s.turns),
         \A i \in 1..Len(s.turns) : i \notin t.untold => i \notin s.untold /\ t.turns[i] = s.turns[i],
         ASSUME NEW status, 0 \notin s.untold => status = s.status, 0 \notin t.untold
         PROVE  StatusAfter(status, e) = t.status
  PROVE  CvTells(s, e, t)
<1> SUFFICES ASSUME NEW status, NEW turns, CvAgrees(status, turns, s)
             PROVE  CvAgrees(StatusAfter(status, e), TurnsAfter(turns, e), t)
  BY DEF CvTells
<1>1. TurnsAfter(turns, e) = turns
  BY DEF TurnsAfter
<1>2. 0 \notin t.untold => StatusAfter(status, e) = t.status
  BY DEF CvAgrees
<1> QED
  BY <1>1, <1>2 DEF CvAgrees

LEMMA CvTellsPrompt ==
  ASSUME NEW s \in CvServers, NEW t \in CvServers, NEW e, e.kind = "prompt", e.id = Len(s.turns) + 1,
         t.turns = Append(s.turns, "Running"), t.untold = s.untold \ {0}, t.status = "Working"
  PROVE  CvTells(s, e, t)
<1> SUFFICES ASSUME NEW status, NEW turns, CvAgrees(status, turns, s)
             PROVE  CvAgrees(StatusAfter(status, e), TurnsAfter(turns, e), t)
  BY DEF CvTells
<1> DEFINE len == Len(s.turns)
           added == [id |-> e.id, st |-> "Running"]
           new == TurnsAfter(turns, e)
<1>1. s.turns \in Seq(CvOutcomes) /\ len \in Nat /\ turns \in Seq(CvShownTurns) /\ Len(turns) = len
  BY LenProperties DEF CvServers, CvAgrees
<1>2. StatusAfter(status, e) = "Working" /\ new = Append(turns, added)
  BY DEF StatusAfter, TurnsAfter
<1>3. "Running" \in CvOutcomes /\ added \in CvShownTurns /\ added.id = len + 1 /\ added.st = "Running"
  BY <1>1 DEF CvShownTurns, CvOutcomes
<1> HIDE DEF added, new, len
<1>4. /\ new \in Seq(CvShownTurns) /\ Len(new) = len + 1
      /\ new[len + 1] = added /\ \A i \in 1..len : new[i] = turns[i]
  BY <1>1, <1>2, <1>3, AppendProperties
<1>5. /\ Len(t.turns) = len + 1 /\ t.turns[len + 1] = "Running"
      /\ \A i \in 1..len : t.turns[i] = s.turns[i]
  BY <1>1, <1>3, AppendProperties DEF len
<1>6. /\ \A i \in 1..len : turns[i].id = i
      /\ \A i \in 1..len : i \notin s.untold => turns[i].st = s.turns[i]
  BY DEF CvAgrees, len
<1>7. ASSUME NEW i \in 1..(len + 1)
      PROVE  new[i].id = i /\ (i \notin t.untold => new[i].st = t.turns[i])
  <2>1. CASE i \in 1..len
    <3>1. i \notin t.untold => i \notin s.untold
      BY <1>1, <2>1
    <3> QED
      BY <1>4, <1>5, <1>6, <2>1, <3>1
  <2>2. CASE i = len + 1
    BY <1>3, <1>4, <1>5, <2>2
  <2>3. i \in 1..len \/ i = len + 1
    BY <1>1
  <2> QED
    BY <2>1, <2>2, <2>3
<1> QED
  BY <1>2, <1>4, <1>5, <1>7 DEF CvAgrees, new

LEMMA CvTellsEnd ==
  ASSUME NEW s \in CvServers, NEW t \in CvServers, NEW e, e.kind = "completed", e.val \in CvOutcomes,
         NEW n \in 1..Len(s.turns), t.turns = [s.turns EXCEPT ![n] = e.val],
         t.untold = {0} \cup (IF n = Len(s.turns) THEN s.untold \ {n} ELSE s.untold \cup {n, Len(s.turns)})
  PROVE  CvTells(s, e, t)
<1> SUFFICES ASSUME NEW status, NEW turns, CvAgrees(status, turns, s)
             PROVE  CvAgrees(StatusAfter(status, e), TurnsAfter(turns, e), t)
  BY DEF CvTells
<1> DEFINE len == Len(s.turns)
           new == TurnsAfter(turns, e)
           last == [turns[len] EXCEPT !.st = e.val]
<1>1. /\ s.turns \in Seq(CvOutcomes) /\ len \in Nat /\ turns \in Seq(CvShownTurns) /\ Len(turns) = len
      /\ n \in 1..len /\ len \in 1..len /\ len # 0
  BY LenProperties DEF CvServers, CvAgrees
<1>2. new = [turns EXCEPT ![len] = last]
  BY <1>1 DEF TurnsAfter, WithState
<1>3. turns[len] \in CvShownTurns
  BY <1>1, ElementOfSeq
<1>4. last \in CvShownTurns /\ last.st = e.val /\ last.id = turns[len].id
  BY <1>3 DEF CvShownTurns
<1>5. /\ \A i \in 1..len : turns[i].id = i
      /\ \A i \in 1..len : i \notin s.untold => turns[i].st = s.turns[i]
  BY DEF CvAgrees
<1>6. /\ Len(t.turns) = len /\ t.turns[n] = e.val
      /\ \A i \in 1..len : i # n => t.turns[i] = s.turns[i]
  BY <1>1, ExceptSeq
<1> HIDE DEF last, len, new
<1>7. /\ new \in Seq(CvShownTurns) /\ Len(new) = len /\ new[len] = last
      /\ \A i \in 1..len : i # len => new[i] = turns[i]
  <2>1. /\ new \in Seq(CvShownTurns) /\ Len(new) = Len(turns)
        /\ \A i \in 1..Len(turns) : new[i] = IF i = len THEN last ELSE turns[i]
    BY <1>1, <1>2, <1>4, ExceptSeq
  <2> QED
    BY <1>1, <2>1
<1>8. ASSUME NEW i \in 1..len
      PROVE  new[i].id = i /\ (i \notin t.untold => new[i].st = t.turns[i])
  <2>1. CASE i = len
    <3>1. i \notin t.untold => n = len
      BY <2>1 DEF len
    <3> QED
      BY <1>1, <1>4, <1>5, <1>6, <1>7, <2>1, <3>1
  <2>2. CASE i # len
    <3>1. i \notin t.untold => i \notin s.untold /\ i # n
      BY <2>2 DEF len
    <3> QED
      BY <1>5, <1>6, <1>7, <2>2, <3>1
  <2> QED
    BY <2>1, <2>2
<1> QED
  BY <1>6, <1>7, <1>8 DEF CvAgrees, new

(* An event that is applied takes a view that agrees with the node before it  *)
(* to one that agrees with the node after it.                                 *)
LEMMA CvApplyAgrees ==
  ASSUME NEW s, NEW t, NEW e, CvTells(s, e, t), NEW view, CvAgreed(view, s), NEW n
  PROVE  CvAgreed(ApplyEvent(view, e, n), t)
BY DEF CvTells, CvAgreed, ApplyEvent

(* What the node does without an event changes the last state of its history. *)
LEMMA CvSilentKeeps ==
  ASSUME CvInv, NEW server, CvSound(server), CvSilent(cvServer, server),
         cvServer' = server, UNCHANGED <<cvLog, cvRelays, cvView>>
  PROVE  CvInv'
<1> DEFINE len == Len(cvLog)
<1>1. PICK past : CvHistory(past, cvLog, cvServer) /\ CvFollows(past, cvLog, cvRelays, cvView)
  BY DEF CvInv
<1>2. cvLog \in Seq(CvEvents) /\ len \in Nat
  BY LenProperties DEF CvInv, CvTypes
<1>3. past[len] = cvServer
  BY <1>1 DEF CvHistory
<1> HIDE DEF len
<1> DEFINE now == [n \in 0..len |-> IF n = len THEN server ELSE past[n]]
<1>4. now[len] = server /\ \A n \in 0..len : n # len => now[n] = past[n]
  BY <1>2
<1> HIDE DEF now
<1>5. ASSUME NEW n \in 0..len, NEW view, CvAgreed(view, past[n]) PROVE CvAgreed(view, now[n])
  BY <1>3, <1>4, <1>5 DEF CvAgreed, CvSilent
<1>6. CvHistory(now, cvLog, server)
  <2>1. \A n \in 0..len : CvSound(now[n])
    BY <1>1, <1>4 DEF CvHistory, len
  <2>2. ASSUME NEW n \in 1..len PROVE CvTells(now[n - 1], cvLog[n], now[n])
    <3>1. n - 1 \in 0..len /\ n \in 0..len /\ n - 1 # len
      BY <1>2
    <3>2. CvTells(past[n - 1], cvLog[n], past[n]) /\ now[n - 1] = past[n - 1]
      BY <1>1, <1>4, <3>1 DEF CvHistory, len
    <3>3. \A status, turns : CvAgrees(status, turns, past[n]) => CvAgrees(status, turns, now[n])
      BY <1>3, <1>4, <3>1 DEF CvSilent
    <3> QED
      BY <3>2, <3>3 DEF CvTells
  <2> QED
    BY <1>4, <2>1, <2>2 DEF CvHistory, len
<1>7. CvFollows(now, cvLog, cvRelays, cvView)
  <2>1. Len(cvRelays) = 0 => CvAgreed(cvView, now[0])
    <3>1. 0 \in 0..len
      BY <1>2
    <3> QED
      BY <1>1, <1>5, <3>1 DEF CvFollows
  <2>2. ASSUME Len(cvRelays) = 1, cvRelays[1].up, cvRelays[1].from = 0
        PROVE  CvAgreed(cvView, now[len - Len(cvRelays[1].todo)])
    <3> DEFINE behind == Len(cvRelays[1].todo)
    <3>1. 1 \in 1..Len(cvRelays)
      BY <2>2
    <3>2. cvRelays[1] \in CvRelayRecs
      BY <3>1, ElementOfSeq DEF CvInv, CvTypes
    <3>3. behind \in Nat /\ behind <= len /\ CvAgreed(cvView, past[len - behind])
      BY <1>1, <2>2, <3>2, LenProperties DEF CvFollows, CvBehind, CvRelayRecs, len
    <3> HIDE DEF behind
    <3>4. len - behind \in 0..len
      BY <1>2, <3>3
    <3>5. CvAgreed(cvView, now[len - behind])
      BY <1>5, <3>3, <3>4
    <3> QED
      BY <3>5 DEF behind
  <2> QED
    BY <1>1, <2>1, <2>2 DEF CvFollows, len
<1> QED
  BY <1>6, <1>7 DEF CvInv, CvTypes

LEMMA CvPublishKeeps ==
  ASSUME CvInv, NEW event \in CvEvents, NEW server, CvSound(server), CvTells(cvServer, event, server),
         Publish(event, server)
  PROVE  CvInv'
<1> DEFINE len == Len(cvLog)
<1>1. PICK past : CvHistory(past, cvLog, cvServer) /\ CvFollows(past, cvLog, cvRelays, cvView)
  BY DEF CvInv
<1>2. /\ cvLog' = Append(cvLog, event) /\ cvServer' = server /\ cvView' = cvView
      /\ cvRelays' = [r \in DOMAIN cvRelays |->
                        IF cvRelays[r].open
                          THEN [cvRelays[r] EXCEPT !.todo = Append(cvRelays[r].todo, len + 1)]
                          ELSE cvRelays[r]]
  BY DEF Publish
<1>3. /\ len \in Nat /\ cvLog' \in Seq(CvEvents) /\ Len(cvLog') = len + 1 /\ cvLog'[len + 1] = event
      /\ \A n \in 1..len : cvLog'[n] = cvLog[n]
  BY <1>2, AppendProperties, LenProperties DEF CvInv, CvTypes
<1>4. /\ cvRelays' \in Seq(CvRelayRecs) /\ Len(cvRelays') = Len(cvRelays)
      /\ \A r \in 1..Len(cvRelays) :
           /\ cvRelays'[r].up = cvRelays[r].up /\ cvRelays'[r].from = cvRelays[r].from
           /\ cvRelays'[r].open = cvRelays[r].open
           /\ cvRelays[r].open => cvRelays'[r].todo = Append(cvRelays[r].todo, len + 1)
  <2>1. cvRelays \in Seq(CvRelayRecs) /\ DOMAIN cvRelays = 1..Len(cvRelays) /\ Len(cvRelays) \in Nat
    BY LenProperties DEF CvInv, CvTypes
  <2>2. ASSUME NEW r \in 1..Len(cvRelays)
        PROVE  /\ cvRelays'[r] \in CvRelayRecs
               /\ cvRelays'[r].up = cvRelays[r].up /\ cvRelays'[r].from = cvRelays[r].from
               /\ cvRelays'[r].open = cvRelays[r].open
               /\ cvRelays[r].open => cvRelays'[r].todo = Append(cvRelays[r].todo, len + 1)
    <3> DEFINE old == cvRelays[r]
               todo == Append(old.todo, len + 1)
    <3>1. old \in CvRelayRecs
      BY <2>1, ElementOfSeq
    <3>2. todo \in Seq(Nat)
      BY <1>3, <3>1, AppendProperties DEF CvRelayRecs
    <3>3. cvRelays'[r] = IF old.open THEN [old EXCEPT !.todo = todo] ELSE old
      BY <1>2, <2>1
    <3> HIDE DEF old, todo
    <3>4. /\ cvRelays'[r] \in CvRelayRecs
          /\ cvRelays'[r].up = old.up /\ cvRelays'[r].from = old.from /\ cvRelays'[r].open = old.open
          /\ old.open => cvRelays'[r].todo = todo
      BY <3>1, <3>2, <3>3 DEF CvRelayRecs
    <3> QED
      BY <3>4 DEF old, todo
  <2>3. DOMAIN cvRelays' = 1..Len(cvRelays) /\ cvRelays' = [r \in 1..Len(cvRelays) |-> cvRelays'[r]]
    BY <1>2, <2>1
  <2>4. cvRelays' \in [1..Len(cvRelays) -> CvRelayRecs]
    BY <2>2, <2>3
  <2> QED
    BY <2>1, <2>2, <2>4, FunctionIsSeq
<1> HIDE DEF len
<1> DEFINE longer == [n \in 0..(len + 1) |-> IF n <= len THEN past[n] ELSE server]
<1>5. longer[len + 1] = server /\ \A n \in 0..len : longer[n] = past[n]
  BY <1>3
<1> HIDE DEF longer
<1>6. CvHistory(longer, cvLog', cvServer')
  <2>1. \A n \in 0..Len(cvLog') : CvSound(longer[n])
    <3> TAKE n \in 0..Len(cvLog')
    <3>1. n \in 0..len \/ n = len + 1
      BY <1>3
    <3> QED
      BY <1>1, <1>5, <3>1 DEF CvHistory, len
  <2>2. \A n \in 1..Len(cvLog') : CvTells(longer[n - 1], cvLog'[n], longer[n])
    <3> TAKE n \in 1..Len(cvLog')
    <3>1. CASE n \in 1..len
      <4>1. n - 1 \in 0..len /\ n \in 0..len
        BY <1>3, <3>1
      <4>2. CvTells(past[n - 1], cvLog[n], past[n])
        BY <1>1, <3>1 DEF CvHistory, len
      <4> QED
        BY <1>3, <1>5, <3>1, <4>1, <4>2
    <3>2. CASE n = len + 1
      <4>1. n - 1 = len /\ len \in 0..len
        BY <1>3, <3>2
      <4>2. past[len] = cvServer
        BY <1>1 DEF CvHistory, len
      <4> QED
        BY <1>3, <1>5, <3>2, <4>1, <4>2
    <3> QED
      BY <1>3, <3>1, <3>2
  <2> QED
    BY <1>2, <1>3, <1>5, <2>1, <2>2 DEF CvHistory
<1>7. CvFollows(longer, cvLog', cvRelays', cvView')
  <2>1. Len(cvRelays') = 0 => CvAgreed(cvView', longer[0])
    <3>1. 0 \in 0..len
      BY <1>3
    <3> QED
      BY <1>1, <1>2, <1>4, <1>5, <3>1 DEF CvFollows
  <2>2. ASSUME Len(cvRelays') = 1, cvRelays'[1].up, cvRelays'[1].from = 0
        PROVE  /\ cvRelays'[1].open /\ CvBehind(cvRelays'[1].todo, cvLog')
               /\ CvAgreed(cvView', longer[Len(cvLog') - Len(cvRelays'[1].todo)])
    <3> DEFINE todo == cvRelays[1].todo
               more == cvRelays'[1].todo
    <3>1. Len(cvRelays) = 1 /\ 1 \in 1..Len(cvRelays) /\ cvRelays[1].up /\ cvRelays[1].from = 0
      BY <1>4, <2>2
    <3>2. cvRelays[1].open /\ CvBehind(todo, cvLog) /\ CvAgreed(cvView, past[len - Len(todo)])
      BY <1>1, <3>1 DEF CvFollows, len
    <3>3. todo \in Seq(Nat)
      <4>1. cvRelays[1] \in CvRelayRecs
        BY <3>1, ElementOfSeq DEF CvInv, CvTypes
      <4> QED
        BY <4>1 DEF CvRelayRecs
    <3>4. more = Append(todo, len + 1)
      BY <1>4, <3>1, <3>2
    <3> HIDE DEF todo, more
    <3>5. /\ Len(todo) \in Nat /\ Len(more) = Len(todo) + 1 /\ more[Len(todo) + 1] = len + 1
          /\ \A i \in 1..Len(todo) : more[i] = todo[i]
      BY <1>3, <3>3, <3>4, AppendProperties, LenProperties
    <3>6. Len(todo) <= len /\ \A i \in 1..Len(todo) : todo[i] = len - Len(todo) + i
      BY <3>2 DEF CvBehind, len
    <3>7. CvBehind(more, cvLog')
      <4>1. Len(more) <= Len(cvLog')
        BY <1>3, <3>5, <3>6
      <4>2. ASSUME NEW i \in 1..Len(more) PROVE more[i] = Len(cvLog') - Len(more) + i
        <5>1. Len(cvLog') - Len(more) + i = len - Len(todo) + i
          BY <1>3, <3>5
        <5>2. CASE i \in 1..Len(todo)
          BY <3>5, <3>6, <5>1, <5>2
        <5>3. CASE i = Len(todo) + 1
          BY <1>3, <3>5, <5>1, <5>3
        <5> QED
          BY <3>5, <5>2, <5>3
      <4> QED
        BY <4>1, <4>2 DEF CvBehind
    <3>8. Len(cvLog') - Len(more) = len - Len(todo) /\ len - Len(todo) \in 0..len
      BY <1>3, <3>5, <3>6
    <3>9. CvAgreed(cvView', longer[Len(cvLog') - Len(more)])
      BY <1>2, <1>5, <3>2, <3>8
    <3>10. cvRelays'[1].open
      BY <1>4, <3>1, <3>2
    <3> QED
      BY <3>7, <3>9, <3>10 DEF more
  <2> QED
    BY <2>1, <2>2 DEF CvFollows
<1> QED
  BY <1>2, <1>3, <1>4, <1>6, <1>7 DEF CvInv, CvTypes

LEMMA CvRelayKeeps ==
  ASSUME CvInv, NEW r \in DOMAIN cvRelays, CvRelayStep(r)
  PROVE  CvInv'
<1>0. /\ cvLog \in Seq(CvEvents) /\ Len(cvLog) \in Nat /\ cvRelays \in Seq(CvRelayRecs) /\ CvSound(cvServer)
      /\ r \in 1..Len(cvRelays) /\ cvRelays[r] \in CvRelayRecs
  BY LenProperties, ElementOfSeq DEF CvInv, CvTypes
<1>1. PICK past : CvHistory(past, cvLog, cvServer) /\ CvFollows(past, cvLog, cvRelays, cvView)
  BY DEF CvInv
<1>2. CASE CvRelayLags(r)
  <2> DEFINE gone == [todo |-> << >>, open |-> FALSE, up |-> FALSE, from |-> cvRelays[r].from]
  <2>1. cvRelays' = [cvRelays EXCEPT ![r] = gone] /\ UNCHANGED <<cvServer, cvLog, cvView>>
    BY <1>2 DEF CvRelayLags
  <2>2. gone \in CvRelayRecs /\ gone.up = FALSE
    <3> DEFINE old == cvRelays[r]
    <3>1. old \in CvRelayRecs
      BY <1>0
    <3> HIDE DEF old
    <3>2. << >> \in Seq(Nat) /\ old.from \in Nat
      BY <3>1 DEF CvRelayRecs
    <3> QED
      BY <3>2 DEF CvRelayRecs, old
  <2> HIDE DEF gone
  <2>3. cvRelays' \in Seq(CvRelayRecs) /\ Len(cvRelays') = Len(cvRelays) /\ cvRelays'[r] = gone
    BY <1>0, <2>1, <2>2, ExceptSeq DEF gone
  <2>4. CvFollows(past, cvLog', cvRelays', cvView')
    <3>1. Len(cvRelays') # 0 /\ (Len(cvRelays') = 1 => r = 1)
      BY <1>0, <2>3
    <3> QED
      BY <2>2, <2>3, <3>1 DEF CvFollows
  <2> QED
    BY <1>0, <1>1, <2>1, <2>3, <2>4 DEF CvInv, CvTypes
<1>3. CASE CvRelay(r)
  <2> DEFINE todo == cvRelays[r].todo
             rest == Tail(todo)
             n == Head(todo)
             new == [cvRelays[r] EXCEPT !.todo = rest]
  <2>1. /\ todo # << >> /\ cvView' = ApplyEvent(cvView, cvLog[n], n) /\ UNCHANGED <<cvServer, cvLog>>
        /\ cvRelays' = [cvRelays EXCEPT ![r] = new]
    BY <1>3 DEF CvRelay
  <2>2. todo \in Seq(Nat)
    BY <1>0 DEF CvRelayRecs
  <2>3. /\ rest \in Seq(Nat) /\ Len(rest) = Len(todo) - 1 /\ Len(todo) \in Nat \ {0} /\ n = todo[1]
        /\ \A i \in 1..Len(rest) : rest[i] = todo[i + 1]
    <3> HIDE DEF todo
    <3> QED
      BY <2>1, <2>2, HeadTailProperties, LenProperties, EmptySeq
  <2>4. new \in CvRelayRecs /\ new.todo = rest /\ new.open = cvRelays[r].open /\ new.up = cvRelays[r].up
        /\ new.from = cvRelays[r].from
    <3> HIDE DEF rest
    <3> QED
      BY <1>0, <2>3 DEF CvRelayRecs
  <2> HIDE DEF new
  <2>5. cvRelays' \in Seq(CvRelayRecs) /\ Len(cvRelays') = Len(cvRelays) /\ cvRelays'[r] = new
    BY <1>0, <2>1, <2>4, ExceptSeq
  <2>6. CvFollows(past, cvLog', cvRelays', cvView')
    <3>1. Len(cvRelays') # 0
      BY <1>0, <2>5
    <3>2. ASSUME Len(cvRelays') = 1, cvRelays'[1].up, cvRelays'[1].from = 0
          PROVE  /\ cvRelays'[1].open /\ CvBehind(cvRelays'[1].todo, cvLog')
                 /\ CvAgreed(cvView', past[Len(cvLog') - Len(cvRelays'[1].todo)])
      <4> DEFINE len == Len(cvLog)
      <4>1. r = 1 /\ Len(cvRelays) = 1 /\ cvRelays[1].up /\ cvRelays[1].from = 0
        BY <1>0, <2>4, <2>5, <3>2
      <4>2. cvRelays[1].open /\ CvBehind(todo, cvLog) /\ CvAgreed(cvView, past[len - Len(todo)])
        BY <1>1, <4>1 DEF CvFollows
      <4> HIDE DEF todo, rest, n
      <4>3. /\ Len(todo) <= len /\ Len(todo) \in Nat /\ Len(todo) > 0 /\ len \in Nat
            /\ \A i \in 1..Len(todo) : todo[i] = len - Len(todo) + i
        BY <1>0, <2>3, <4>2 DEF CvBehind
      <4> HIDE DEF len
      <4>4. n = len - Len(todo) + 1 /\ n \in 1..len /\ n - 1 = len - Len(todo) /\ n = len - Len(rest)
        BY <2>3, <4>3
      <4>5. CvBehind(rest, cvLog)
        <5>1. Len(rest) <= len
          BY <2>3, <4>3
        <5>2. ASSUME NEW i \in 1..Len(rest) PROVE rest[i] = len - Len(rest) + i
          <6>1. i + 1 \in 1..Len(todo) /\ len - Len(todo) + (i + 1) = len - Len(rest) + i
            BY <2>3, <4>3
          <6> QED
            BY <2>3, <4>3, <6>1
        <5> QED
          BY <5>1, <5>2 DEF CvBehind, len
      <4>6. CvTells(past[n - 1], cvLog[n], past[n]) /\ CvSound(past[n - 1]) /\ CvSound(past[n])
        <5>1. n - 1 \in 0..len /\ n \in 0..len
          BY <4>3, <4>4
        <5> QED
          BY <1>1, <4>4, <5>1 DEF CvHistory, len
      <4>7. cvLog[n] \in CvEvents
        BY <1>0, <4>4, ElementOfSeq DEF len
      <4>8. CvAgreed(cvView', past[n])
        BY <2>1, <4>2, <4>4, <4>6, <4>7, CvApplyAgrees
      <4> QED
        BY <2>1, <2>4, <2>5, <4>1, <4>2, <4>4, <4>5, <4>8 DEF len
    <3> QED
      BY <3>1, <3>2 DEF CvFollows
  <2> QED
    BY <1>0, <1>1, <2>1, <2>5, <2>6 DEF CvInv, CvTypes
<1> QED
  BY <1>2, <1>3 DEF CvRelayStep

LEMMA CvRegisterKeeps == ASSUME CvInv, CvRegister PROVE CvInv'
<1>1. PICK past : CvHistory(past, cvLog, cvServer) /\ CvFollows(past, cvLog, cvRelays, cvView)
  BY DEF CvInv
<1>2. PICK same \in BOOLEAN :
        cvRelays' = Append([r \in DOMAIN cvRelays |-> [cvRelays[r] EXCEPT !.open = cvRelays[r].open /\ same]],
                           [todo |-> << >>, open |-> TRUE, up |-> TRUE, from |-> Len(cvLog)])
  BY DEF CvRegister
<1>3. UNCHANGED <<cvServer, cvLog, cvView>>
  BY DEF CvRegister
<1> DEFINE kept == [r \in DOMAIN cvRelays |-> [cvRelays[r] EXCEPT !.open = cvRelays[r].open /\ same]]
           new == [todo |-> << >>, open |-> TRUE, up |-> TRUE, from |-> Len(cvLog)]
<1>4. Len(cvLog) \in Nat /\ Len(cvRelays) \in Nat /\ DOMAIN cvRelays = 1..Len(cvRelays)
  BY LenProperties DEF CvInv, CvTypes
<1>5. new \in CvRelayRecs /\ new.todo = << >> /\ new.open = TRUE /\ new.from = Len(cvLog)
  BY <1>4 DEF CvRelayRecs
<1>6. kept \in Seq(CvRelayRecs) /\ Len(kept) = Len(cvRelays)
  <2>1. \A r \in 1..Len(cvRelays) : [cvRelays[r] EXCEPT !.open = cvRelays[r].open /\ same] \in CvRelayRecs
    <3> TAKE r \in 1..Len(cvRelays)
    <3>1. cvRelays[r] \in CvRelayRecs
      BY ElementOfSeq DEF CvInv, CvTypes
    <3> QED
      BY <3>1 DEF CvRelayRecs
  <2>2. kept \in [1..Len(cvRelays) -> CvRelayRecs]
    BY <1>4, <2>1
  <2> QED
    BY <1>4, <2>2, FunctionIsSeq
<1> HIDE DEF kept, new
<1>7. /\ cvRelays' \in Seq(CvRelayRecs) /\ Len(cvRelays') = Len(cvRelays) + 1 /\ cvRelays'[Len(cvRelays) + 1] = new
  BY <1>2, <1>5, <1>6, AppendProperties DEF kept, new
<1>8. CvFollows(past, cvLog', cvRelays', cvView')
  <2>1. Len(cvRelays') # 0
    BY <1>4, <1>7
  <2>2. ASSUME Len(cvRelays') = 1, cvRelays'[1].up, cvRelays'[1].from = 0
        PROVE  /\ cvRelays'[1].open /\ CvBehind(cvRelays'[1].todo, cvLog')
               /\ CvAgreed(cvView', past[Len(cvLog') - Len(cvRelays'[1].todo)])
    <3>0. Len(cvRelays) = 0
      <4> DEFINE had == Len(cvRelays)
                 has == Len(cvRelays')
      <4>1. has = 1
        BY <2>2
      <4>2. has = had + 1 /\ had \in Nat
        BY <1>4, <1>7
      <4> HIDE DEF had, has
      <4>3. had = 0
        BY <4>1, <4>2
      <4> QED
        BY <4>3 DEF had
    <3>1. Len(cvRelays) = 0 /\ cvRelays'[1] = new
      <4>1. Len(cvRelays) + 1 = 1
        BY <3>0
      <4> QED
        BY <1>7, <3>0, <4>1
    <3>2. Len(cvLog) = 0 /\ CvAgreed(cvView, past[0])
      BY <1>1, <1>5, <2>2, <3>1 DEF CvFollows
    <3>3. Len(cvRelays'[1].todo) = 0
      BY <1>5, <3>1
    <3> QED
      BY <1>3, <1>5, <3>1, <3>2, <3>3 DEF CvBehind
  <2> QED
    BY <2>1, <2>2 DEF CvFollows
<1> QED
  BY <1>1, <1>3, <1>7, <1>8 DEF CvInv, CvTypes

(* A step of the node publishes an event that tells of it, or is silent.      *)
LEMMA CvPublishes ==
  ASSUME CvInv, CvSendTurn \/ CvReport \/ CvAsk \/ CvResolve \/ CvComplete \/ CvSettle
  PROVE  CvPublished
<1>0. CvSound(cvServer) /\ cvServer \in CvServers /\ Len(cvLog) \in Nat /\ Len(cvServer.turns) \in Nat
  BY LenProperties DEF CvInv, CvTypes, CvSound, CvServers
<1> DEFINE turns == cvServer.turns
           len == Len(turns)
<1>1. CASE CvSendTurn
  <2> DEFINE more == Append(turns, "Running")
             event == CvEvent("prompt", len + 1, NoOne)
             sent == [cvServer EXCEPT !.status = "Working", !.turns = more, !.untold = cvServer.untold \ {0}]
  <2>1. PICK server \in {sent, [sent EXCEPT !.stream = len + 1, !.phase = "running"]} :
          /\ server.stream = len + 1 => cvServer.phase = "none" /\ ~cvServer.gone
          /\ Publish(event, server)
    BY <1>1 DEF CvSendTurn
  <2>2. more \in Seq(CvOutcomes) /\ Len(more) = len + 1 /\ more[len + 1] = "Running"
        /\ \A i \in 1..len : more[i] = turns[i]
    <3>1. turns \in Seq(CvOutcomes) /\ "Running" \in CvOutcomes
      BY <1>0 DEF CvServers, CvOutcomes
    <3> HIDE DEF turns
    <3> QED
      BY <3>1, AppendProperties
  <2>3. event \in CvEvents /\ event.kind = "prompt" /\ event.id = len + 1
    BY <1>0 DEF CvEvents, CvEvent, CvKinds, CvIds, TextKinds, AgentKinds, CvValues
  <2> HIDE DEF more, len
  <2>4. /\ server \in CvServers /\ server.turns = more /\ server.spawned = cvServer.spawned
        /\ server.status = "Working" /\ server.untold = cvServer.untold \ {0}
        /\ \/ server.phase = cvServer.phase /\ server.stream = cvServer.stream
           \/ server.phase = "running" /\ server.stream = len + 1
    <3>1. len + 1 \in Nat
      BY <1>0 DEF len
    <3>2. CASE server = sent
      BY <1>0, <2>2, <3>2 DEF CvServers
    <3>3. CASE server = [sent EXCEPT !.stream = len + 1, !.phase = "running"]
      BY <1>0, <2>2, <3>1, <3>3 DEF CvServers
    <3> QED
      BY <2>1, <3>2, <3>3
  <2> HIDE DEF event, sent
  <2>5. CvTells(cvServer, event, server)
    BY <1>0, <2>3, <2>4, CvTellsPrompt DEF more, len
  <2>6. CvSound(server)
    <3>1. server.phase # "none" => server.stream \in 1..(len + 1)
      BY <1>0, <2>4 DEF CvSound, len
    <3>2. server.phase = "running" /\ server.stream \notin server.untold => more[server.stream] = "Running"
      <4>1. CASE server.phase = cvServer.phase /\ server.stream = cvServer.stream
        <5> SUFFICES ASSUME cvServer.phase = "running", cvServer.stream \notin server.untold
                     PROVE  more[cvServer.stream] = "Running"
          BY <4>1
        <5>1. cvServer.stream \in 1..len /\ cvServer.stream # 0
          BY <1>0 DEF CvSound, len
        <5>2. cvServer.stream \notin cvServer.untold
          BY <2>4, <5>1
        <5> QED
          BY <1>0, <2>2, <5>1, <5>2 DEF CvSound, turns
      <4>2. CASE server.stream = len + 1
        BY <2>2, <4>2
      <4> QED
        BY <2>4, <4>1, <4>2
    <3> QED
      BY <2>2, <2>4, <3>1, <3>2 DEF CvSound
  <2>7. CvSpawns(cvServer, event, server)
    BY <2>3, <2>4 DEF CvSpawns, AgentKinds
  <2> QED
    BY <2>1, <2>3, <2>5, <2>6, <2>7 DEF CvPublished
\* An event in the middle of a turn.
<1>2. ASSUME NEW event \in CvEvents, event.kind \notin {"prompt", "completed"}, NEW server \in CvServers,
             server.turns = turns, server.phase = cvServer.phase, server.stream = cvServer.stream,
             cvServer.untold \ {0} \subseteq server.untold,
             ASSUME NEW status, 0 \notin cvServer.untold => status = cvServer.status, 0 \notin server.untold
             PROVE  StatusAfter(status, event) = server.status,
             CvSpawns(cvServer, event, server), Publish(event, server)
      PROVE  CvPublished
  <2>1. CvSound(server)
    <3>1. cvServer.phase = "running" /\ cvServer.stream \notin server.untold => cvServer.stream \notin cvServer.untold
      <4>1. cvServer.phase = "running" => cvServer.stream # 0
        BY <1>0 DEF CvSound
      <4> QED
        BY <1>2, <4>1
    <3> QED
      BY <1>0, <1>2, <3>1 DEF CvSound
  <2>2. \A i \in 1..Len(turns) : i \notin server.untold => i \notin cvServer.untold /\ server.turns[i] = turns[i]
    BY <1>0, <1>2
  <2>3. Len(server.turns) = Len(turns)
    BY <1>2
  <2> HIDE DEF turns
  <2>4. CvTells(cvServer, event, server)
    BY <1>0, <1>2, <2>2, <2>3, CvTellsSame DEF turns
  <2> QED
    BY <1>2, <2>1, <2>4 DEF CvPublished
<1>3. CASE CvReport
  \* An event that is not about the thread as a whole.
  <2>1. ASSUME NEW event \in CvEvents, event.kind \in {"text", "reasoning", "tool", "spawned", "activity", "finished"},
               NEW server \in CvServers, server.turns = turns, server.phase = cvServer.phase,
               server.stream = cvServer.stream, server.untold = cvServer.untold, server.status = cvServer.status,
               CvSpawns(cvServer, event, server), Publish(event, server)
        PROVE  CvPublished
    <3>1. \A status : StatusAfter(status, event) = status
      BY <2>1 DEF StatusAfter
    <3> QED
      BY <1>2, <2>1, <3>1
  <2>2. ASSUME NEW kind \in {"text", "reasoning", "tool", "activity", "finished"},
               NEW id \in Nat \cup CvItems \cup CvAgents, NEW val \in CvValues,
               kind \in AgentKinds => id \in cvServer.spawned,
               Publish(CvEvent(kind, id, val), cvServer)
        PROVE  CvPublished
    <3> DEFINE event == CvEvent(kind, id, val)
    <3>1. event \in CvEvents /\ event.kind = kind
      BY DEF CvEvents, CvEvent, CvKinds, CvIds, TextKinds, AgentKinds
    <3>3. CvSpawns(cvServer, event, cvServer)
      BY <2>2 DEF CvSpawns, CvEvent, AgentKinds
    <3> HIDE DEF event
    <3>2. Publish(event, cvServer)
      BY <2>2 DEF event
    <3> QED
      BY <1>0, <2>1, <3>1, <3>2, <3>3
  <2>3. ASSUME NEW a \in CvAgents \ cvServer.spawned, NEW p \in cvServer.spawned \cup {NoOne},
               Publish(CvEvent("spawned", a, p), [cvServer EXCEPT !.spawned = cvServer.spawned \cup {a}])
        PROVE  CvPublished
    <3> DEFINE event == CvEvent("spawned", a, p)
               server == [cvServer EXCEPT !.spawned = cvServer.spawned \cup {a}]
    <3>1. p \in CvAgents \cup {NoOne}
      BY <1>0 DEF CvServers
    <3>2. event \in CvEvents /\ event.kind = "spawned"
      BY <3>1 DEF CvEvents, CvEvent, CvKinds, CvIds, TextKinds, AgentKinds, CvValues
    <3>3. /\ server \in CvServers /\ server.turns = turns /\ server.phase = cvServer.phase
          /\ server.stream = cvServer.stream /\ server.untold = cvServer.untold /\ server.status = cvServer.status
      BY <1>0 DEF CvServers
    <3>4. CvSpawns(cvServer, event, server)
      BY <1>0 DEF CvSpawns, CvEvent, CvServers
    <3> HIDE DEF event, server
    <3>5. Publish(event, server)
      BY <2>3 DEF event, server
    <3> QED
      BY <2>1, <3>2, <3>3, <3>4, <3>5
  <2>4. NoOne \in CvValues /\ "Executing" \in CvValues /\ "Completed" \in CvValues /\ "fatal" \in CvValues
    BY DEF CvValues
  <2>5. ASSUME NEW i \in CvItems,
               \/ Publish(CvEvent("text", i, NoOne), cvServer)
               \/ Publish(CvEvent("reasoning", i, NoOne), cvServer)
               \/ \E st \in {"Executing", "Completed"} : Publish(CvEvent("tool", i, st), cvServer)
        PROVE  CvPublished
    BY <2>2, <2>4, <2>5 DEF AgentKinds
  <2>6. ASSUME Publish(CvEvent("error", 0, "fatal"), [cvServer EXCEPT !.untold = cvServer.untold \cup {0}])
        PROVE  CvPublished
    <3> DEFINE event == CvEvent("error", 0, "fatal")
               server == [cvServer EXCEPT !.untold = cvServer.untold \cup {0}]
    <3>1. event \in CvEvents /\ event.kind = "error"
      BY DEF CvEvents, CvEvent, CvKinds, CvIds, TextKinds, AgentKinds, CvValues
    <3>2. /\ server \in CvServers /\ server.turns = turns /\ server.phase = cvServer.phase
          /\ server.stream = cvServer.stream /\ server.spawned = cvServer.spawned
          /\ server.untold = cvServer.untold \cup {0}
      BY <1>0 DEF CvServers
    <3>3. CvSpawns(cvServer, event, server)
      BY <3>1, <3>2 DEF CvSpawns, AgentKinds
    <3> HIDE DEF event, server
    <3>4. Publish(event, server)
      BY <2>6 DEF event, server
    <3> QED
      BY <1>2, <3>1, <3>2, <3>3, <3>4
  <2>7. ASSUME NEW a \in cvServer.spawned,
               \/ Publish(CvEvent("activity", a, NoOne), cvServer)
               \/ Publish(CvEvent("finished", a, NoOne), cvServer)
        PROVE  CvPublished
    <3>1. a \in CvAgents
      BY <1>0 DEF CvServers
    <3> QED
      BY <2>2, <2>4, <2>7, <3>1
  <2> QED
    BY <1>3, <2>3, <2>5, <2>6, <2>7 DEF CvReport
<1>4. CASE CvAsk
  <2> DEFINE event == CvEvent("ask", Len(cvLog) + 1, NoOne)
             again == [turns EXCEPT ![cvServer.stream] = "Running"]
             server == [cvServer EXCEPT !.status = "AwaitingApproval", !.turns = again, !.untold = cvServer.untold \ {0}]
  <2>1. event \in CvEvents /\ event.kind = "ask"
    BY <1>0 DEF CvEvents, CvEvent, CvKinds, CvIds, TextKinds, AgentKinds, CvValues
  <2>2. Publish(event, server) /\ cvServer.phase = "running"
    BY <1>4 DEF CvAsk
  <2>3. cvServer.stream \in 1..len
    BY <1>0, <2>2 DEF CvSound
  <2>4. /\ again \in Seq(CvOutcomes) /\ Len(again) = len /\ again[cvServer.stream] = "Running"
        /\ \A i \in 1..len : i # cvServer.stream => again[i] = turns[i]
    <3>1. turns \in Seq(CvOutcomes) /\ "Running" \in CvOutcomes
      BY <1>0 DEF CvServers, CvOutcomes
    <3> HIDE DEF turns
    <3> QED
      BY <2>3, <3>1, ExceptSeq
  <2> HIDE DEF again
  <2>5. /\ server \in CvServers /\ server.turns = again /\ server.phase = "running" /\ server.spawned = cvServer.spawned
        /\ server.stream = cvServer.stream /\ server.untold = cvServer.untold \ {0} /\ server.status = "AwaitingApproval"
    BY <1>0, <2>2, <2>4 DEF CvServers
  <2>6. CvSpawns(cvServer, event, server)
    BY <2>1, <2>5 DEF CvSpawns, AgentKinds
  <2> HIDE DEF event, server
  <2>7. \A i \in 1..len : i \notin server.untold => i \notin cvServer.untold /\ again[i] = turns[i]
    <3> TAKE i \in 1..len
    <3>1. i \notin server.untold => i \notin cvServer.untold
      BY <1>0, <2>5
    <3>2. i = cvServer.stream /\ i \notin cvServer.untold => turns[i] = "Running"
      BY <1>0, <2>2 DEF CvSound
    <3> QED
      BY <2>4, <3>1, <3>2
  <2>8. \A status : StatusAfter(status, event) = server.status
    BY <2>1, <2>5 DEF StatusAfter
  <2>9. CvTells(cvServer, event, server)
    <3> HIDE DEF turns
    <3>1. Len(server.turns) = Len(cvServer.turns)
      BY <2>4, <2>5 DEF turns
    <3>2. \A i \in 1..Len(cvServer.turns) : i \notin server.untold =>
            i \notin cvServer.untold /\ server.turns[i] = cvServer.turns[i]
      BY <2>5, <2>7 DEF turns
    <3> QED
      BY <1>0, <2>1, <2>5, <2>8, <3>1, <3>2, CvTellsSame
  <2>10. CvSound(server)
    BY <2>3, <2>4, <2>5 DEF CvSound
  <2> QED
    BY <2>1, <2>2, <2>6, <2>9, <2>10 DEF CvPublished
<1>5. CASE CvResolve
  <2> DEFINE server == [cvServer EXCEPT !.status = "Working", !.untold = cvServer.untold \ {0}]
  <2>1. PICK r \in DOMAIN cvLog, d \in {"Approved", "Denied"} : Publish(CvEvent("resolved", r, d), server)
    BY <1>5 DEF CvResolve
  <2> DEFINE event == CvEvent("resolved", r, d)
  <2>2. r \in Nat
    BY <1>0, LenProperties DEF CvInv, CvTypes
  <2>3. event \in CvEvents /\ event.kind = "resolved"
    BY <2>2 DEF CvEvents, CvEvent, CvKinds, CvIds, TextKinds, AgentKinds, CvValues
  <2>4. /\ server \in CvServers /\ server.turns = turns /\ server.phase = cvServer.phase /\ server.spawned = cvServer.spawned
        /\ server.stream = cvServer.stream /\ server.untold = cvServer.untold \ {0} /\ server.status = "Working"
    BY <1>0 DEF CvServers
  <2>6. CvSpawns(cvServer, event, server)
    BY <2>3, <2>4 DEF CvSpawns, AgentKinds
  <2> HIDE DEF event, server
  <2>7. Publish(event, server)
    BY <2>1 DEF event
  <2>8. \A status : StatusAfter(status, event) = server.status
    BY <2>3, <2>4 DEF StatusAfter
  <2> QED
    BY <1>2, <2>3, <2>4, <2>6, <2>7, <2>8
<1>6. CASE CvComplete
  <2> DEFINE n == cvServer.stream
  <2>1. PICK outcome \in {"Completed", "Interrupted"} :
          Publish(CvEvent("completed", 0, outcome),
                  [cvServer EXCEPT
                     !.status = "Idle", !.phase = "completed", !.turns[n] = outcome,
                     !.untold = {0} \cup IF n = len THEN cvServer.untold \ {n} ELSE cvServer.untold \cup {n, len}])
    BY <1>6 DEF CvComplete
  <2>2. n \in 1..len /\ n \in Nat /\ len \in Nat
    BY <1>0, <1>6 DEF CvComplete, CvSound
  <2> DEFINE ended == [turns EXCEPT ![n] = outcome]
             lost == {0} \cup IF n = len THEN cvServer.untold \ {n} ELSE cvServer.untold \cup {n, len}
             event == CvEvent("completed", 0, outcome)
             server == [cvServer EXCEPT !.status = "Idle", !.phase = "completed", !.turns = ended, !.untold = lost]
  <2>3. ended \in Seq(CvOutcomes) /\ Len(ended) = len
    <3>1. turns \in Seq(CvOutcomes) /\ outcome \in CvOutcomes
      BY <1>0 DEF CvServers, CvOutcomes
    <3> HIDE DEF turns
    <3> QED
      BY <2>2, <3>1, ExceptSeq
  <2>4. event \in CvEvents /\ event.kind = "completed" /\ event.val = outcome /\ outcome \in CvOutcomes
    BY DEF CvEvents, CvEvent, CvKinds, CvIds, TextKinds, AgentKinds, CvValues, CvOutcomes
  <2>5. Publish(event, server)
    BY <2>1
  <2>6. lost \in SUBSET Nat
    BY <1>0, <2>2 DEF CvServers
  <2> HIDE DEF ended, lost
  <2>7. server \in CvServers /\ server.turns = ended /\ server.phase = "completed" /\ server.stream = n
        /\ server.spawned = cvServer.spawned /\ server.untold = lost
    BY <1>0, <2>3, <2>6 DEF CvServers
  <2> HIDE DEF event, server
  <2>8. CvTells(cvServer, event, server)
    BY <1>0, <2>2, <2>4, <2>7, CvTellsEnd DEF ended, lost
  <2>9. CvSound(server)
    BY <2>2, <2>3, <2>7 DEF CvSound
  <2>10. CvSpawns(cvServer, event, server)
    BY <2>4, <2>7 DEF CvSpawns, AgentKinds
  <2> QED
    BY <2>4, <2>5, <2>8, <2>9, <2>10 DEF CvPublished
<1>7. CASE CvSettle
  <2> DEFINE left == IF cvServer.status = "Idle" THEN cvServer.untold \ {0} ELSE cvServer.untold \cup {0}
  <2>1. PICK changed \in {"changed", NoOne} :
          Publish(CvEvent("settled", cvServer.stream, changed),
                  [cvServer EXCEPT !.stream = 0, !.phase = "none", !.untold = left])
    BY <1>7 DEF CvSettle
  <2> DEFINE event == CvEvent("settled", cvServer.stream, changed)
             server == [cvServer EXCEPT !.stream = 0, !.phase = "none", !.untold = left]
  <2>2. event \in CvEvents /\ event.kind = "settled"
    BY <1>0 DEF CvEvents, CvEvent, CvKinds, CvIds, TextKinds, AgentKinds, CvValues, CvServers
  <2>3. left \in SUBSET Nat
    BY <1>0 DEF CvServers
  <2> HIDE DEF left
  <2>4. server \in CvServers /\ server.turns = turns /\ server.phase = "none" /\ server.status = cvServer.status
        /\ server.spawned = cvServer.spawned /\ server.untold = left
    BY <1>0, <2>3 DEF CvServers
  <2>5. CvSpawns(cvServer, event, server)
    BY <2>2, <2>4 DEF CvSpawns, AgentKinds
  <2> HIDE DEF event, server
  <2>6. Publish(event, server)
    BY <2>1 DEF event, server
  <2>7. \A status : 0 \notin server.untold => StatusAfter(status, event) = server.status
    BY <2>2, <2>4 DEF StatusAfter, left
  <2>8. \A i \in 1..Len(cvServer.turns) : i \notin server.untold =>
          i \notin cvServer.untold /\ server.turns[i] = cvServer.turns[i]
    BY <1>0, <2>4 DEF left
  <2>9. Len(server.turns) = Len(cvServer.turns)
    BY <2>4
  <2>10. CvTells(cvServer, event, server)
    <3> HIDE DEF turns
    <3> QED
      BY <1>0, <2>2, <2>4, <2>7, <2>8, <2>9, CvTellsSame
  <2>11. CvSound(server)
    BY <2>4 DEF CvSound
  <2> QED
    BY <2>2, <2>5, <2>6, <2>10, <2>11 DEF CvPublished
<1> QED
  BY <1>1, <1>3, <1>4, <1>5, <1>6, <1>7

LEMMA CvSilentStep ==
  ASSUME CvInv, CvInterrupt \/ CvProviderDies
  PROVE  /\ CvInv' /\ UNCHANGED <<cvLog, cvRelays, cvView>> /\ cvServer'.spawned = cvServer.spawned
<1>0. CvSound(cvServer) /\ cvServer \in CvServers /\ Len(cvServer.turns) \in Nat
  BY LenProperties DEF CvInv, CvTypes, CvSound, CvServers
<1>1. CASE CvInterrupt
  <2> DEFINE turns == cvServer.turns
             cut == [t \in DOMAIN turns |-> IF turns[t] = "Running" THEN "Interrupted" ELSE turns[t]]
             lost == cvServer.untold \cup {t \in DOMAIN turns : turns[t] = "Running"}
                       \cup {t \in {0} : cvServer.status # "Idle"}
             server == [cvServer EXCEPT !.status = "Idle", !.turns = cut, !.untold = lost]
  <2>1. cvServer' = server /\ UNCHANGED <<cvLog, cvRelays, cvView>>
    BY <1>1 DEF CvInterrupt
  <2>2. DOMAIN turns = 1..Len(turns) /\ turns \in [1..Len(turns) -> CvOutcomes]
    BY <1>0, LenProperties DEF CvServers
  <2>3. cut \in Seq(CvOutcomes) /\ Len(cut) = Len(turns)
    <3>1. cut \in [1..Len(turns) -> CvOutcomes]
      BY <2>2 DEF CvOutcomes
    <3> HIDE DEF cut, turns
    <3> QED
      BY <1>0, <3>1, FunctionIsSeq DEF turns
  <2>4. lost \in SUBSET Nat
    BY <1>0, <2>2 DEF CvServers
  <2>5. /\ cvServer.untold \subseteq lost /\ (0 \notin lost => cvServer.status = "Idle")
        /\ \A i \in 1..Len(turns) : i \notin lost => cut[i] = turns[i]
    BY <2>2
  <2> HIDE DEF cut, lost
  <2>6. /\ server \in CvServers /\ server.turns = cut /\ server.untold = lost /\ server.status = "Idle"
        /\ server.phase = cvServer.phase /\ server.stream = cvServer.stream /\ server.spawned = cvServer.spawned
    BY <1>0, <2>3, <2>4 DEF CvServers
  <2> HIDE DEF server
  <2>7. CvSilent(cvServer, server)
    BY <2>3, <2>5, <2>6 DEF CvSilent, CvAgrees
  <2>8. CvSound(server)
    BY <1>0, <2>3, <2>5, <2>6 DEF CvSound
  <2> QED
    BY <2>1, <2>6, <2>7, <2>8, CvSilentKeeps
<1>2. CASE CvProviderDies
  <2>1. /\ cvServer' \in {[cvServer EXCEPT !.gone = TRUE, !.stream = 0, !.phase = "none"], [cvServer EXCEPT !.gone = TRUE]}
        /\ UNCHANGED <<cvLog, cvRelays, cvView>>
    BY <1>2 DEF CvProviderDies
  <2> DEFINE server == cvServer'
  <2>2. /\ server \in CvServers /\ server.turns = cvServer.turns /\ server.untold = cvServer.untold
        /\ server.status = cvServer.status /\ server.spawned = cvServer.spawned
        /\ server.phase # "none" => server.phase = cvServer.phase /\ server.stream = cvServer.stream
    <3>1. CASE server = [cvServer EXCEPT !.gone = TRUE, !.stream = 0, !.phase = "none"]
      <4>1. 0 \in Nat
        OBVIOUS
      <4> HIDE DEF server
      <4> QED
        BY <1>0, <3>1, <4>1 DEF CvServers
    <3>2. CASE server = [cvServer EXCEPT !.gone = TRUE]
      <4> HIDE DEF server
      <4> QED
        BY <1>0, <3>2 DEF CvServers
    <3> QED
      BY <2>1, <3>1, <3>2
  <2>3. CvSilent(cvServer, server)
    BY <2>2 DEF CvSilent, CvAgrees
  <2>4. CvSound(server)
    BY <1>0, <2>2 DEF CvSound
  <2> QED
    BY <2>1, <2>2, <2>3, <2>4, CvSilentKeeps
<1> QED
  BY <1>1, <1>2

LEMMA CvStepKeeps == CvInv /\ [CvNext]_cvVars => CvInv'
<1> SUFFICES ASSUME CvInv, [CvNext]_cvVars PROVE CvInv'
  OBVIOUS
<1>1. CASE CvPublished
  BY <1>1, CvPublishKeeps DEF CvPublished
<1>2. CASE UNCHANGED cvVars
  BY <1>2 DEF CvInv, CvTypes, cvVars
<1> QED
  BY <1>1, <1>2, CvPublishes, CvSilentStep, CvRegisterKeeps, CvRelayKeeps DEF CvNext

LEMMA CvStarts == CvInit => CvInv
<1> SUFFICES ASSUME CvInit PROVE CvInv
  OBVIOUS
<1>1. /\ cvServer = [status |-> "Idle", turns |-> << >>, stream |-> 0, phase |-> "none",
                      spawned |-> {}, gone |-> FALSE, untold |-> {}]
      /\ cvLog = << >> /\ cvRelays = << >> /\ cvView.status = "Idle" /\ cvView.turns = << >>
  BY DEF CvInit
<1>2. CvSound(cvServer)
  BY <1>1 DEF CvSound, CvServers
<1>3. CvTypes
  BY <1>1, <1>2 DEF CvTypes
<1> DEFINE past == [n \in 0..0 |-> cvServer]
<1>4. past[0] = cvServer /\ Len(cvLog) = 0 /\ Len(cvRelays) = 0
  BY <1>1
<1> HIDE DEF past
<1>5. CvHistory(past, cvLog, cvServer)
  BY <1>2, <1>4 DEF CvHistory
<1>6. CvAgreed(cvView, cvServer)
  BY <1>1 DEF CvAgreed, CvAgrees
<1>7. CvFollows(past, cvLog, cvRelays, cvView)
  BY <1>4, <1>6 DEF CvFollows
<1> QED
  BY <1>3, <1>5, <1>7 DEF CvInv

(* For any number of events, turns, interrupts and registrations: a view over *)
(* an unbroken stream has the node's status and every turn as the node stored *)
(* it, but for what the node did without an event that tells of it            *)
(* (projections.rs, apply_event; thread_manager.rs, interrupt_turn).          *)
THEOREM CvViewAgrees == CvSpec => []CvSettledAgrees
<1>1. CvInit => CvInv
  BY CvStarts
<1>2. CvInv /\ [CvNext]_cvVars => CvInv'
  BY CvStepKeeps
<1>3. ASSUME CvInv PROVE CvSettledAgrees
  <2> DEFINE turns == cvServer.turns
             shown == cvView.turns
  <2> SUFFICES ASSUME CvUnbroken, CvApplied = cvLog
               PROVE  /\ 0 \notin cvServer.untold => cvView.status = cvServer.status
                      /\ DOMAIN shown = DOMAIN turns
                      /\ \A t \in DOMAIN turns \ cvServer.untold : shown[t] = [id |-> t, st |-> turns[t]]
    BY DEF CvSettledAgrees
  <2>1. PICK past : CvHistory(past, cvLog, cvServer) /\ CvFollows(past, cvLog, cvRelays, cvView)
    BY <1>3 DEF CvInv
  <2> DEFINE len == Len(cvLog)
             behind == Len(cvRelays[1].todo)
  <2>2. /\ cvLog \in Seq(CvEvents) /\ len \in Nat /\ cvRelays[1] \in CvRelayRecs
        /\ turns \in Seq(CvOutcomes)
    <3>1. 1 \in 1..Len(cvRelays)
      BY DEF CvUnbroken
    <3> QED
      BY <1>3, <3>1, LenProperties, ElementOfSeq DEF CvInv, CvTypes, CvSound, CvServers
  <2>3. behind \in Nat /\ behind <= len /\ CvAgreed(cvView, past[len - behind])
    BY <2>1, <2>2, LenProperties DEF CvFollows, CvUnbroken, CvBehind, CvRelayRecs
  <2>4. behind = 0
    <3> HIDE DEF behind
    <3>1. \A i \in 1..(len - behind) : cvLog[i] \in CvEvents
      BY <2>2, <2>3, ElementOfSeq
    <3>2. Len(SubSeq(cvLog, 1, len - behind)) = IF 1 <= len - behind THEN len - behind - 1 + 1 ELSE 0
      BY <2>2, <2>3, <3>1, SubSeqProperties
    <3>3. Len(SubSeq(cvLog, 1, len - behind)) = len
      BY DEF CvApplied, behind
    <3> QED
      BY <2>2, <2>3, <3>2, <3>3
  <2>5. CvAgrees(cvView.status, shown, cvServer)
    <3>1. len - behind = len
      BY <2>2, <2>4
    <3> QED
      BY <2>1, <2>3, <3>1 DEF CvHistory, CvAgreed
  <2>6. /\ shown \in Seq(CvShownTurns) /\ Len(shown) = Len(turns)
        /\ \A i \in 1..Len(turns) : shown[i].id = i /\ (i \notin cvServer.untold => shown[i].st = turns[i])
    BY <2>5 DEF CvAgrees
  <2>7. 0 \notin cvServer.untold => cvView.status = cvServer.status
    BY <2>5 DEF CvAgrees
  <2> HIDE DEF shown, turns
  <2>8. DOMAIN shown = 1..Len(turns) /\ DOMAIN turns = 1..Len(turns)
    BY <2>2, <2>6, LenProperties
  <2>9. ASSUME NEW t \in DOMAIN turns \ cvServer.untold PROVE shown[t] = [id |-> t, st |-> turns[t]]
    <3>1. shown[t] \in CvShownTurns
      BY <2>6, <2>8, ElementOfSeq
    <3> QED
      BY <2>6, <2>8, <3>1 DEF CvShownTurns
  <2> QED
    BY <2>7, <2>8, <2>9
<1> QED
  BY <1>1, <1>2, <1>3, PTL DEF CvSpec

-----------------------------------------------------------------------------
(* The last place of a kind and id.                                           *)
LEMMA CvLastIs ==
  ASSUME NEW n \in Nat, NEW M \in SUBSET (1..n)
  PROVE  /\ Max({0} \cup M) \in {0} \cup M /\ \A m \in M : m <= Max({0} \cup M)
         /\ \A x \in {0} \cup M : (\A m \in M : m <= x) => x = Max({0} \cup M)
<1> DEFINE K == {0} \cup M
<1>1. K \in SUBSET (0..n) /\ K # {}
  OBVIOUS
<1>2. Max(K) \in K /\ \A k \in K : k <= Max(K)
  <2> HIDE DEF K
  <2> QED
    BY <1>1, Largest
<1>3. ASSUME NEW x \in K, \A m \in M : m <= x PROVE x = Max(K)
  <2>0. \A k \in K : k <= x
    BY <1>1, <1>3
  <2> HIDE DEF K
  <2>1. Max(K) <= x
    BY <1>2, <2>0
  <2>2. x <= Max(K) /\ x \in Nat /\ Max(K) \in Nat
    <3>1. \A k \in K : k \in Nat
      BY <1>1
    <3> QED
      BY <1>2, <3>1
  <2> QED
    BY <2>1, <2>2
<1> QED
  BY <1>2, <1>3

LEMMA CvLastItem ==
  ASSUME NEW S, NEW items \in Seq(S), NEW kind, NEW id
  PROVE  /\ LastOfKind(items, kind, id) \in 0..Len(items)
         /\ OfKind(items, kind, id) \in SUBSET (1..Len(items))
         /\ LastOfKind(items, kind, id) # 0 => LastOfKind(items, kind, id) \in OfKind(items, kind, id)
         /\ \A i \in OfKind(items, kind, id) : i <= LastOfKind(items, kind, id)
<1> DEFINE M == OfKind(items, kind, id)
<1>1. Len(items) \in Nat /\ DOMAIN items = 1..Len(items)
  BY LenProperties
<1>2. M \in SUBSET (1..Len(items))
  BY <1>1 DEF OfKind
<1> HIDE DEF M
<1>3. Max({0} \cup M) \in {0} \cup M /\ \A m \in M : m <= Max({0} \cup M)
  BY <1>1, <1>2, CvLastIs
<1>4. LastOfKind(items, kind, id) = Max({0} \cup M)
  BY DEF LastOfKind, M
<1> DEFINE L == Max({0} \cup M)
<1>5. L \in {0} \cup M /\ \A m \in M : m <= L
  BY <1>3
<1> HIDE DEF L
<1>6. L \in 0..Len(items) /\ (L # 0 => L \in M)
  BY <1>1, <1>2, <1>5
<1>7. LastOfKind(items, kind, id) = L
  BY <1>4 DEF L
<1> QED
  BY <1>2, <1>5, <1>6, <1>7 DEF M

LEMMA CvLastAppend ==
  ASSUME NEW S, NEW items \in Seq(S), NEW x \in S, NEW kind, NEW id
  PROVE  LastOfKind(Append(items, x), kind, id)
           = IF x.kind = kind /\ x.id = id THEN Len(items) + 1 ELSE LastOfKind(items, kind, id)
<1> DEFINE more == Append(items, x)
           M == OfKind(items, kind, id)
           N == OfKind(more, kind, id)
           len == Len(items)
<1>1. /\ len \in Nat /\ DOMAIN items = 1..len /\ more \in Seq(S) /\ Len(more) = len + 1 /\ DOMAIN more = 1..(len + 1)
      /\ more[len + 1] = x /\ \A i \in 1..len : more[i] = items[i]
  BY AppendProperties, LenProperties
<1> HIDE DEF more, len
<1>2. N = IF x.kind = kind /\ x.id = id THEN M \cup {len + 1} ELSE M
  <2>1. \A i \in 1..len : i \in N <=> i \in M
    BY <1>1 DEF OfKind
  <2>2. len + 1 \in N <=> x.kind = kind /\ x.id = id
    BY <1>1 DEF OfKind
  <2>3. N \subseteq 1..(len + 1) /\ M \subseteq 1..len
    BY <1>1 DEF OfKind
  <2>4. 1..(len + 1) = 1..len \cup {len + 1}
    BY <1>1
  <2> HIDE DEF M, N
  <2>5. len + 1 \notin M
    BY <1>1, <2>3
  <2>6. CASE x.kind = kind /\ x.id = id
    <3>1. \A i : i \in N <=> i \in M \cup {len + 1}
      BY <2>1, <2>2, <2>3, <2>4, <2>6
    <3> QED
      BY <2>6, <3>1
  <2>7. CASE ~(x.kind = kind /\ x.id = id)
    <3>1. \A i : i \in N <=> i \in M
      BY <2>1, <2>2, <2>3, <2>4, <2>5, <2>7
    <3> QED
      BY <2>7, <3>1
  <2> QED
    BY <2>6, <2>7
<1>3. N \in SUBSET (1..(len + 1)) /\ M \in SUBSET (1..len)
  BY <1>1 DEF OfKind
<1>4. LastOfKind(more, kind, id) = Max({0} \cup N) /\ LastOfKind(items, kind, id) = Max({0} \cup M)
  BY DEF LastOfKind
<1> HIDE DEF M, N
<1>5. CASE x.kind = kind /\ x.id = id
  <2>1. len + 1 \in {0} \cup N /\ \A m \in N : m <= len + 1
    BY <1>1, <1>2, <1>3, <1>5
  <2>2. len + 1 = Max({0} \cup N)
    <3>1. len + 1 \in Nat
      BY <1>1
    <3>2. \A y \in {0} \cup N : (\A m \in N : m <= y) => y = Max({0} \cup N)
      BY <1>3, <3>1, CvLastIs
    <3> QED
      BY <2>1, <3>2
  <2> QED
    BY <1>4, <1>5, <2>2 DEF more, len
<1>6. CASE ~(x.kind = kind /\ x.id = id)
  BY <1>2, <1>4, <1>6 DEF more
<1> QED
  BY <1>5, <1>6

LEMMA CvLastExcept ==
  ASSUME NEW S, NEW items \in Seq(S), NEW j \in 1..Len(items), NEW y \in S,
         y.kind = items[j].kind, y.id = items[j].id, NEW kind, NEW id
  PROVE  LastOfKind([items EXCEPT ![j] = y], kind, id) = LastOfKind(items, kind, id)
<1> DEFINE new == [items EXCEPT ![j] = y]
<1>1. DOMAIN new = DOMAIN items /\ \A i \in DOMAIN items : new[i] = IF i = j THEN y ELSE items[i]
  BY LenProperties
<1> HIDE DEF new
<1>2. OfKind(new, kind, id) = OfKind(items, kind, id)
  BY <1>1 DEF OfKind
<1> QED
  BY <1>2 DEF LastOfKind, new

-----------------------------------------------------------------------------
(* What an event does to the items: one is added, one is changed without its  *)
(* kind and id, or nothing happens.                                           *)
CvAdds(items, e, n, new) ==
  \E x \in CvItemRecs :
    /\ new = Append(items, x) /\ x.kind = e.kind /\ x.id = e.id
    /\ x.text = IF e.kind \in TextKinds THEN <<n>> ELSE << >>
    /\ e.kind = "spawned" => x.st = NoOne
    /\ e.kind \notin {"activity", "finished"}

CvAlters(items, e, n, new) ==
  \E j \in 1..Len(items), y \in CvItemRecs :
    /\ new = [items EXCEPT ![j] = y] /\ y.kind = items[j].kind /\ y.id = items[j].id
    /\ \/ /\ e.kind \in TextKinds /\ j = Len(items) /\ y.kind = e.kind /\ y.id = e.id
          /\ y.text = Append(items[j].text, n)
       \/ e.kind \in {"tool", "resolved"} /\ y.kind \in {"tool", "ask"} /\ y.text = items[j].text
       \/ /\ e.kind = "finished" /\ j = LastOfKind(items, "spawned", e.id) /\ y.kind = "spawned"
          /\ y.st = "finished" /\ y.text = items[j].text
       \/ /\ e.kind = "activity" /\ j = LastOfKind(items, "spawned", e.id) /\ y.kind = "spawned"
          /\ y.st = items[j].st /\ y.text = <<n>>

CvLeaves(items, e, new) ==
  /\ new = items /\ e.kind \notin TextKinds \cup {"spawned"}
  /\ e.kind \in {"activity", "finished"} => LastOfKind(items, "spawned", e.id) = 0

LEMMA CvItemsAfter ==
  ASSUME NEW items \in Seq(CvItemRecs), NEW e \in CvEvents, NEW n \in Nat, NEW new, new = ItemsAfter(items, e, n)
  PROVE  /\ new \in Seq(CvItemRecs)
         /\ CvAdds(items, e, n, new) \/ CvAlters(items, e, n, new) \/ CvLeaves(items, e, new)
<1>0. /\ Len(items) \in Nat /\ DOMAIN items = 1..Len(items) /\ \A i \in 1..Len(items) : items[i] \in CvItemRecs
      /\ e.kind \in CvKinds /\ e.id \in CvIds /\ e.val \in CvValues
  BY LenProperties, ElementOfSeq DEF CvEvents
\* Adding an item.
<1>1. ASSUME NEW st \in CvValues, NEW text \in Seq(Nat), new = Append(items, CvItem(e.kind, e.id, st, text)),
             text = IF e.kind \in TextKinds THEN <<n>> ELSE << >>, e.kind = "spawned" => st = NoOne,
             e.kind \notin {"activity", "finished"}
      PROVE  new \in Seq(CvItemRecs) /\ CvAdds(items, e, n, new)
  <2> DEFINE x == CvItem(e.kind, e.id, st, text)
  <2>1. x \in CvItemRecs /\ x.kind = e.kind /\ x.id = e.id /\ x.st = st /\ x.text = text
    BY <1>0 DEF CvItem, CvItemRecs
  <2>2. new = Append(items, x)
    BY <1>1
  <2> HIDE DEF x
  <2>3. new \in Seq(CvItemRecs)
    BY <2>1, <2>2, AppendProperties
  <2> QED
    BY <1>1, <2>1, <2>2, <2>3 DEF CvAdds
\* Changing one.
<1>2. ASSUME NEW j \in 1..Len(items), NEW st \in CvValues \cup {"finished"}, new = WithState(items, j, st)
      PROVE  \E y \in CvItemRecs : /\ new = [items EXCEPT ![j] = y] /\ y.kind = items[j].kind /\ y.id = items[j].id
                                   /\ y.text = items[j].text /\ y.st = st
  <2> DEFINE old == items[j]
             y == [old EXCEPT !.st = st]
  <2>1. j # 0 /\ new = [items EXCEPT ![j] = y]
    BY <1>0, <1>2 DEF WithState
  <2>2. old \in CvItemRecs
    BY <1>0
  <2> HIDE DEF old
  <2>3. y \in CvItemRecs /\ y.kind = old.kind /\ y.id = old.id /\ y.text = old.text /\ y.st = st
    BY <2>2 DEF CvItemRecs
  <2> QED
    BY <2>1, <2>3 DEF old
<1>3. << >> \in Seq(Nat) /\ <<n>> \in Seq(Nat) /\ NoOne \in CvValues
  BY DEF CvValues
<1>4. CASE e.kind \in TextKinds
  <2>1. new = AddDelta(items, e, n)
    BY <1>4 DEF ItemsAfter, TextKinds
  <2>2. CASE items # << >> /\ Last(items).kind = e.kind /\ Last(items).id = e.id
    <3> DEFINE len == Len(items)
               old == items[len]
               text == Append(old.text, n)
               y == [old EXCEPT !.text = text]
    <3>1. len \in 1..len /\ old.kind = e.kind /\ old.id = e.id
      BY <1>0, <2>2, EmptySeq DEF Last
    <3>2. new = [items EXCEPT ![len] = y]
      BY <2>1, <2>2 DEF AddDelta
    <3>3. old \in CvItemRecs /\ old.text \in Seq(Nat)
      BY <1>0, <3>1 DEF CvItemRecs
    <3>4. text \in Seq(Nat)
      BY <3>3, AppendProperties
    <3> HIDE DEF old, text, len
    <3>5. y \in CvItemRecs /\ y.kind = old.kind /\ y.id = old.id /\ y.text = text
      BY <3>3, <3>4 DEF CvItemRecs
    <3> HIDE DEF y
    <3>6. new \in Seq(CvItemRecs)
      BY <3>1, <3>2, <3>5, ExceptSeq DEF len
    <3>7. CvAlters(items, e, n, new)
      BY <1>4, <3>1, <3>2, <3>5 DEF CvAlters, old, text, len
    <3> QED
      BY <3>6, <3>7
  <2>3. CASE ~(items # << >> /\ Last(items).kind = e.kind /\ Last(items).id = e.id)
    <3>1. new = Append(items, CvItem(e.kind, e.id, NoOne, <<n>>))
      BY <2>1, <2>3 DEF AddDelta
    <3>2. e.kind \notin {"activity", "finished", "spawned"}
      BY <1>4 DEF TextKinds
    <3> QED
      BY <1>1, <1>3, <1>4, <3>1, <3>2
  <2> QED
    BY <2>2, <2>3
<1>5. CASE e.kind = "tool"
  <2> DEFINE at == OfKind(items, "tool", e.id)
             i == FirstOfKind(items, "tool", e.id)
  <2>1. new = IF i = 0 THEN Append(items, CvItem("tool", e.id, e.val, << >>)) ELSE WithState(items, i, e.val)
    BY <1>5 DEF ItemsAfter
  <2>2. CASE i = 0
    <3>1. new = Append(items, CvItem(e.kind, e.id, e.val, << >>)) /\ e.kind \notin TextKinds
      BY <1>5, <2>1, <2>2 DEF TextKinds
    <3> QED
      BY <1>0, <1>1, <1>3, <1>5, <3>1
  <2>3. CASE i # 0
    <3>1. i \in at /\ at \in SUBSET (1..Len(items))
      <4>1. at # {} /\ i = Min(at)
        BY <2>3 DEF FirstOfKind
      <4>2. at \in SUBSET (1..Len(items))
        BY <1>0 DEF OfKind
      <4>3. at \in SUBSET Nat
        BY <4>2
      <4> HIDE DEF at
      <4>4. PICK m \in at : \A k \in at : m <= k
        BY <4>1, <4>3, Smallest
      <4> QED
        BY <4>1, <4>2, <4>4 DEF Min
    <3>2. i \in 1..Len(items) /\ items[i].kind = "tool"
      BY <3>1 DEF OfKind
    <3>3. PICK y \in CvItemRecs : /\ new = [items EXCEPT ![i] = y] /\ y.kind = items[i].kind /\ y.id = items[i].id
                                  /\ y.text = items[i].text /\ y.st = e.val
      BY <1>0, <1>2, <2>1, <2>3, <3>2
    <3> HIDE DEF i
    <3>4. new \in Seq(CvItemRecs)
      BY <3>2, <3>3, ExceptSeq
    <3>5. y.kind \in {"tool", "ask"}
      BY <3>2, <3>3
    <3>6. CvAlters(items, e, n, new)
      BY <1>5, <3>2, <3>3, <3>5 DEF CvAlters
    <3> QED
      BY <3>4, <3>6
  <2> QED
    BY <2>2, <2>3
<1>6. CASE e.kind = "resolved"
  <2> DEFINE at == OfKind(items, "ask", e.id)
             i == FirstOfKind(items, "ask", e.id)
  <2>1. new = WithState(items, i, e.val)
    BY <1>6 DEF ItemsAfter
  <2>2. CASE i = 0
    <3>1. new = items
      BY <2>1, <2>2 DEF WithState
    <3> QED
      BY <1>6, <3>1 DEF CvLeaves, TextKinds
  <2>3. CASE i # 0
    <3>1. i \in at /\ at \in SUBSET (1..Len(items))
      <4>1. at # {} /\ i = Min(at)
        BY <2>3 DEF FirstOfKind
      <4>2. at \in SUBSET (1..Len(items))
        BY <1>0 DEF OfKind
      <4>3. at \in SUBSET Nat
        BY <4>2
      <4> HIDE DEF at
      <4>4. PICK m \in at : \A k \in at : m <= k
        BY <4>1, <4>3, Smallest
      <4> QED
        BY <4>1, <4>2, <4>4 DEF Min
    <3>2. i \in 1..Len(items) /\ items[i].kind = "ask"
      BY <3>1 DEF OfKind
    <3>3. PICK y \in CvItemRecs : /\ new = [items EXCEPT ![i] = y] /\ y.kind = items[i].kind /\ y.id = items[i].id
                                  /\ y.text = items[i].text /\ y.st = e.val
      BY <1>0, <1>2, <2>1, <2>3, <3>2
    <3> HIDE DEF i
    <3>4. new \in Seq(CvItemRecs)
      BY <3>2, <3>3, ExceptSeq
    <3>5. y.kind \in {"tool", "ask"}
      BY <3>2, <3>3
    <3>6. CvAlters(items, e, n, new)
      BY <1>6, <3>2, <3>3, <3>5 DEF CvAlters
    <3> QED
      BY <3>4, <3>6
  <2> QED
    BY <2>2, <2>3
<1>7. CASE e.kind \in {"finished", "activity"}
  <2> DEFINE i == LastOfKind(items, "spawned", e.id)
  <2>1. i \in 0..Len(items) /\ (i # 0 => items[i].kind = "spawned")
    BY CvLastItem DEF OfKind
  <2> HIDE DEF i
  <2>2. CASE i = 0
    <3>1. new = items
      BY <1>7, <2>2 DEF ItemsAfter, WithState, i
    <3> QED
      BY <1>7, <2>2, <3>1 DEF CvLeaves, TextKinds, i
  <2>3. CASE i # 0 /\ e.kind = "finished"
    <3>1. new = WithState(items, i, "finished") /\ i \in 1..Len(items)
      BY <1>0, <2>1, <2>3 DEF ItemsAfter, i
    <3>2. PICK y \in CvItemRecs : /\ new = [items EXCEPT ![i] = y] /\ y.kind = items[i].kind /\ y.id = items[i].id
                                  /\ y.text = items[i].text /\ y.st = "finished"
      BY <1>2, <3>1
    <3>3. new \in Seq(CvItemRecs)
      BY <3>1, <3>2, ExceptSeq
    <3>4. CvAlters(items, e, n, new)
      BY <2>1, <2>3, <3>1, <3>2 DEF CvAlters, i
    <3> QED
      BY <3>3, <3>4
  <2>4. CASE i # 0 /\ e.kind = "activity"
    <3> DEFINE old == items[i]
               y == [old EXCEPT !.text = <<n>>]
    <3>1. new = [items EXCEPT ![i] = y] /\ i \in 1..Len(items) /\ old \in CvItemRecs
      BY <1>0, <2>1, <2>4 DEF ItemsAfter, i
    <3> HIDE DEF old
    <3>2. y \in CvItemRecs /\ y.kind = old.kind /\ y.id = old.id /\ y.text = <<n>> /\ y.st = old.st
      BY <1>3, <3>1 DEF CvItemRecs
    <3> HIDE DEF y
    <3>3. new \in Seq(CvItemRecs)
      BY <3>1, <3>2, ExceptSeq
    <3>4. /\ y \in CvItemRecs /\ y.kind = items[i].kind /\ y.id = items[i].id /\ y.text = <<n>>
          /\ y.st = items[i].st /\ new = [items EXCEPT ![i] = y]
      BY <3>1, <3>2 DEF old
    <3>5. CvAlters(items, e, n, new)
      BY <2>1, <2>4, <3>1, <3>4 DEF CvAlters, i
    <3> QED
      BY <3>3, <3>5
  <2> QED
    BY <1>7, <2>2, <2>3, <2>4
<1>8. CASE e.kind \in {"prompt", "ask", "command", "error", "spawned"} \/ (e.kind = "settled" /\ e.val = "changed")
  <2>1. new = Append(items, CvItem(e.kind, e.id, NoOne, << >>)) /\ e.kind \notin TextKinds
        /\ e.kind \notin {"activity", "finished"}
    BY <1>8 DEF ItemsAfter, TextKinds
  <2> QED
    BY <1>1, <1>3, <2>1
<1>9. CASE e.kind = "completed" \/ (e.kind = "settled" /\ e.val # "changed")
  <2>1. new = items
    BY <1>9 DEF ItemsAfter
  <2> QED
    BY <1>9, <2>1 DEF CvLeaves, TextKinds
<1> QED
  BY <1>0, <1>4, <1>5, <1>6, <1>7, <1>8, <1>9 DEF CvKinds, TextKinds, AgentKinds

-----------------------------------------------------------------------------
(* The text that is shown, of the first a events.                             *)
CvAllShown(items, log, a) ==
  \A n \in 1..a : log[n].kind \in TextKinds =>
    \E k \in 1..Len(items) : /\ items[k].kind = log[n].kind /\ items[k].id = log[n].id
                             /\ \E j \in 1..Len(items[k].text) : items[k].text[j] = n
CvOnlyShown(items, log, a) ==
  \A k \in 1..Len(items) : items[k].kind \in TextKinds =>
    \A j \in 1..Len(items[k].text) :
      /\ items[k].text[j] \in 1..a
      /\ log[items[k].text[j]].kind = items[k].kind /\ log[items[k].text[j]].id = items[k].id
CvInOrder(items) ==
  \A k, m \in 1..Len(items) : items[k].kind \in TextKinds /\ items[m].kind \in TextKinds =>
    \A h \in 1..Len(items[k].text), j \in 1..Len(items[m].text) :
      k < m \/ (k = m /\ h < j) => items[k].text[h] < items[m].text[j]
CvTexts(items, log, a) == CvAllShown(items, log, a) /\ CvOnlyShown(items, log, a) /\ CvInOrder(items)

LEMMA CvTextsKept ==
  ASSUME NEW items \in Seq(CvItemRecs), NEW log \in Seq(CvEvents), NEW a \in Nat, a + 1 <= Len(log),
         CvTexts(items, log, a), NEW new, new = ItemsAfter(items, log[a + 1], a + 1)
  PROVE  new \in Seq(CvItemRecs) /\ CvTexts(new, log, a + 1)
<1> DEFINE e == log[a + 1]
           len == Len(items)
           n == a + 1
<1>0. /\ len \in Nat /\ \A k \in 1..len : items[k] \in CvItemRecs
      /\ n \in Nat /\ n \in 1..(a + 1) /\ ~(n \in 1..a) /\ \A i \in 1..(a + 1) : i \in 1..a \/ i = n
  BY LenProperties, ElementOfSeq
<1>1. e \in CvEvents
  <2>1. a + 1 \in 1..Len(log)
    BY LenProperties
  <2> QED
    BY <2>1, ElementOfSeq
<1>2. \A k \in 1..len : items[k].text \in Seq(Nat) /\ Len(items[k].text) \in Nat
  BY <1>0, LenProperties DEF CvItemRecs
<1> HIDE DEF e, n
<1>3. new \in Seq(CvItemRecs) /\ (CvAdds(items, e, n, new) \/ CvAlters(items, e, n, new) \/ CvLeaves(items, e, new))
  <2>1. new = ItemsAfter(items, e, n)
    BY DEF e, n
  <2> QED
    BY <1>0, <1>1, <2>1, CvItemsAfter
<1>4. /\ \A i \in 1..a : log[i].kind \in TextKinds =>
           \E k \in 1..len : /\ items[k].kind = log[i].kind /\ items[k].id = log[i].id
                             /\ \E j \in 1..Len(items[k].text) : items[k].text[j] = i
      /\ \A k \in 1..len : items[k].kind \in TextKinds =>
           \A j \in 1..Len(items[k].text) :
             /\ items[k].text[j] \in 1..a
             /\ log[items[k].text[j]].kind = items[k].kind /\ log[items[k].text[j]].id = items[k].id
      /\ \A k, m \in 1..len : items[k].kind \in TextKinds /\ items[m].kind \in TextKinds =>
           \A h \in 1..Len(items[k].text), j \in 1..Len(items[m].text) :
             k < m \/ (k = m /\ h < j) => items[k].text[h] < items[m].text[j]
  BY DEF CvTexts, CvAllShown, CvOnlyShown, CvInOrder
\* An item is added behind all others.
<1>5. CASE CvAdds(items, e, n, new)
  <2>1. PICK x \in CvItemRecs : /\ new = Append(items, x) /\ x.kind = e.kind /\ x.id = e.id
                                /\ x.text = IF e.kind \in TextKinds THEN <<n>> ELSE << >>
    BY <1>5 DEF CvAdds
  <2>2. /\ Len(new) = len + 1 /\ new[len + 1] = x /\ \A k \in 1..len : new[k] = items[k]
        /\ \A k \in 1..(len + 1) : k \in 1..len \/ k = len + 1
    BY <1>0, <2>1, AppendProperties
  <2>3. x.kind \in TextKinds => Len(x.text) = 1 /\ x.text[1] = n /\ \A j \in 1..Len(x.text) : j = 1 /\ x.text[j] = n
    <3>1. Len(<<n>>) = 1 /\ <<n>>[1] = n /\ \A j \in 1..1 : j = 1
      OBVIOUS
    <3> QED
      BY <2>1, <3>1
  <2> HIDE DEF len
  <2>4. CvAllShown(new, log, a + 1)
    <3>1. ASSUME NEW i \in 1..(a + 1), log[i].kind \in TextKinds
          PROVE  \E k \in 1..Len(new) : /\ new[k].kind = log[i].kind /\ new[k].id = log[i].id
                                        /\ \E j \in 1..Len(new[k].text) : new[k].text[j] = i
      <4>1. CASE i \in 1..a
        <5>1. PICK k \in 1..len : /\ items[k].kind = log[i].kind /\ items[k].id = log[i].id
                                  /\ \E j \in 1..Len(items[k].text) : items[k].text[j] = i
          BY <1>4, <3>1, <4>1
        <5>2. k \in 1..Len(new) /\ new[k] = items[k]
          BY <1>0, <2>2
        <5> QED
          BY <5>1, <5>2
      <4>2. CASE i = n
        <5>1. log[i] = e /\ x.kind = log[i].kind /\ x.id = log[i].id
          BY <2>1, <4>2 DEF e, n
        <5>2. len + 1 \in 1..Len(new) /\ 1 \in 1..Len(x.text) /\ x.text[1] = i
          BY <1>0, <2>2, <2>3, <3>1, <4>2, <5>1
        <5> QED
          BY <2>2, <5>1, <5>2
      <4> QED
        BY <1>0, <4>1, <4>2
    <3> QED
      BY <3>1 DEF CvAllShown
  <2>5. CvOnlyShown(new, log, a + 1)
    <3>1. ASSUME NEW k \in 1..Len(new), new[k].kind \in TextKinds, NEW j \in 1..Len(new[k].text)
          PROVE  /\ new[k].text[j] \in 1..(a + 1)
                 /\ log[new[k].text[j]].kind = new[k].kind /\ log[new[k].text[j]].id = new[k].id
      <4>1. CASE k \in 1..len
        <5>1. /\ items[k].text[j] \in 1..a
              /\ log[items[k].text[j]].kind = items[k].kind /\ log[items[k].text[j]].id = items[k].id
          BY <1>4, <2>2, <3>1, <4>1
        <5> QED
          BY <2>2, <4>1, <5>1, SMTT(30)
      <4>2. CASE k = len + 1
        <5>0. new[k] = x
          BY <2>2, <4>2
        <5>1. new[k] = x /\ j = 1
          <6>1. x.kind \in TextKinds /\ j \in 1..Len(x.text)
            BY <3>1, <5>0
          <6> QED
            BY <2>3, <5>0, <6>1
        <5> QED
          BY <1>0, <2>1, <2>3, <3>1, <5>1 DEF e, n
      <4> QED
        BY <2>2, <4>1, <4>2
    <3> QED
      BY <3>1 DEF CvOnlyShown
  <2>6. CvInOrder(new)
    <3>1. ASSUME NEW k \in 1..Len(new), NEW m \in 1..Len(new), new[k].kind \in TextKinds, new[m].kind \in TextKinds,
                 NEW h \in 1..Len(new[k].text), NEW j \in 1..Len(new[m].text), k < m \/ (k = m /\ h < j)
          PROVE  new[k].text[h] < new[m].text[j]
      <4>1. CASE m \in 1..len
        <5>1. k \in 1..len
          BY <1>0, <2>2, <3>1, <4>1
        <5> QED
          BY <1>4, <2>2, <3>1, <4>1, <5>1
      <4>2. CASE m = len + 1
        <5>0. new[m] = x
          BY <2>2, <4>2
        <5>1. new[m] = x /\ j = 1 /\ new[m].text[j] = n
          <6>1. x.kind \in TextKinds /\ j \in 1..Len(x.text)
            BY <3>1, <5>0
          <6> QED
            BY <2>3, <5>0, <6>1
        <5>2. k \in 1..len
          BY <1>0, <2>2, <3>1, <4>2, <5>1
        <5>3. new[k].text[h] \in 1..a
          BY <1>4, <2>2, <3>1, <5>2
        <5> QED
          BY <5>1, <5>3 DEF n
      <4> QED
        BY <2>2, <4>1, <4>2
    <3> QED
      BY <3>1, SMTT(30) DEF CvInOrder
  <2> QED
    BY <1>3, <2>4, <2>5, <2>6 DEF CvTexts
\* A delta joins the last item.
<1>6. CASE e.kind \in TextKinds /\ CvAlters(items, e, n, new)
  <2>1. PICK y \in CvItemRecs : /\ len \in 1..len /\ new = [items EXCEPT ![len] = y] /\ y.kind = items[len].kind
                                /\ y.id = items[len].id /\ y.kind = e.kind /\ y.id = e.id
                                /\ y.text = Append(items[len].text, n)
    BY <1>6 DEF CvAlters, TextKinds
  <2> DEFINE old == items[len].text
             last == Len(old) + 1
  <2>2. /\ Len(new) = len /\ new[len] = y /\ \A k \in 1..len : k # len => new[k] = items[k]
    BY <2>1, ExceptSeq
  <2>3. /\ Len(y.text) = last /\ last \in Nat /\ last \in 1..last /\ y.text[last] = n
        /\ \A j \in 1..last : j # last => j \in 1..Len(old) /\ y.text[j] = old[j]
        /\ \A j \in 1..Len(old) : j \in 1..last /\ j # last
    <3>1. old \in Seq(Nat) /\ Len(old) \in Nat
      BY <1>2, <2>1
    <3> HIDE DEF old
    <3> QED
      BY <1>0, <2>1, <3>1, AppendProperties, SMTT(30) DEF old
  <2>4. y.kind \in TextKinds /\ items[len].kind \in TextKinds
    BY <1>6, <2>1
  <2> HIDE DEF len, old, last
  \* An entry of the new items is the new one, or an old one.
  <2>5. ASSUME NEW k \in 1..len, NEW j \in 1..Len(new[k].text)
        PROVE  \/ k = len /\ j = last /\ new[k].text[j] = n
               \/ j \in 1..Len(items[k].text) /\ new[k].text[j] = items[k].text[j]
    <3>1. CASE k = len
      BY <2>2, <2>3, <2>5, <3>1 DEF old
    <3>2. CASE k # len
      BY <2>2, <2>5, <3>2
    <3> QED
      BY <3>1, <3>2
  <2>6. \A k \in 1..len : new[k].kind = items[k].kind /\ new[k].id = items[k].id
    BY <2>1, <2>2
  <2>7. CvAllShown(new, log, a + 1)
    <3>1. ASSUME NEW i \in 1..(a + 1), log[i].kind \in TextKinds
          PROVE  \E k \in 1..Len(new) : /\ new[k].kind = log[i].kind /\ new[k].id = log[i].id
                                        /\ \E j \in 1..Len(new[k].text) : new[k].text[j] = i
      <4>1. CASE i \in 1..a
        <5>1. PICK k \in 1..len : /\ items[k].kind = log[i].kind /\ items[k].id = log[i].id
                                  /\ \E j \in 1..Len(items[k].text) : items[k].text[j] = i
          BY <1>4, <3>1, <4>1
        <5>2. PICK j \in 1..Len(items[k].text) : items[k].text[j] = i
          BY <5>1
        <5>3. j \in 1..Len(new[k].text) /\ new[k].text[j] = i
          <6>1. CASE k = len
            <7>1. j \in 1..Len(old) /\ old[j] = i
              BY <5>2, <6>1 DEF old
            <7> QED
              BY <2>2, <2>3, <6>1, <7>1
          <6>2. CASE k # len
            BY <2>2, <5>2, <6>2
          <6> QED
            BY <6>1, <6>2
        <5> QED
          BY <2>2, <2>6, <5>1, <5>3
      <4>2. CASE i = n
        <5>1. log[i] = e
          BY <4>2 DEF e, n
        <5> QED
          BY <2>1, <2>2, <2>3, <4>2, <5>1
      <4> QED
        BY <1>0, <4>1, <4>2
    <3> QED
      BY <3>1 DEF CvAllShown
  <2>8. CvOnlyShown(new, log, a + 1)
    <3>1. ASSUME NEW k \in 1..Len(new), new[k].kind \in TextKinds, NEW j \in 1..Len(new[k].text)
          PROVE  /\ new[k].text[j] \in 1..(a + 1)
                 /\ log[new[k].text[j]].kind = new[k].kind /\ log[new[k].text[j]].id = new[k].id
      <4>1. k \in 1..len
        BY <2>2
      <4>2. CASE k = len /\ j = last /\ new[k].text[j] = n
        BY <1>0, <2>1, <2>2, <4>2 DEF e, n
      <4>3. CASE j \in 1..Len(items[k].text) /\ new[k].text[j] = items[k].text[j]
        <5>1. /\ items[k].text[j] \in 1..a
              /\ log[items[k].text[j]].kind = items[k].kind /\ log[items[k].text[j]].id = items[k].id
          BY <1>4, <2>6, <3>1, <4>1, <4>3
        <5>2. items[k].text[j] \in 1..(a + 1)
          BY <5>1
        <5> QED
          BY <2>6, <4>1, <4>3, <5>1, <5>2
      <4> QED
        BY <2>5, <4>1, <4>2, <4>3
    <3> QED
      BY <3>1 DEF CvOnlyShown
  <2>9. CvInOrder(new)
    <3>1. ASSUME NEW k \in 1..Len(new), NEW m \in 1..Len(new), new[k].kind \in TextKinds, new[m].kind \in TextKinds,
                 NEW h \in 1..Len(new[k].text), NEW j \in 1..Len(new[m].text), k < m \/ (k = m /\ h < j)
          PROVE  new[k].text[h] < new[m].text[j]
      <4>1. k \in 1..len /\ m \in 1..len /\ items[k].kind \in TextKinds /\ items[m].kind \in TextKinds
        BY <2>2, <2>6, <3>1
      <4>2. ~(k = len /\ h = last)
        <5> SUFFICES ASSUME k = len, h = last PROVE FALSE
          OBVIOUS
        <5>1. m = len /\ last < j
          BY <1>0, <3>1, <4>1 DEF len
        <5>2. j \in 1..last
          BY <2>2, <2>3, <5>1
        <5> QED
          BY <2>3, <5>1, <5>2
      <4>3. h \in 1..Len(items[k].text) /\ new[k].text[h] = items[k].text[h]
        BY <2>5, <4>1, <4>2
      <4>4. CASE m = len /\ j = last /\ new[m].text[j] = n
        <5>1. items[k].text[h] \in 1..a
          BY <1>4, <4>1, <4>3
        <5> QED
          BY <4>3, <4>4, <5>1, SMTT(30) DEF n
      <4>5. CASE j \in 1..Len(items[m].text) /\ new[m].text[j] = items[m].text[j]
        BY <1>4, <3>1, <4>1, <4>3, <4>5
      <4> QED
        BY <2>5, <4>1, <4>4, <4>5
    <3> QED
      BY <3>1, SMTT(30) DEF CvInOrder
  <2> QED
    BY <1>3, <2>7, <2>8, <2>9 DEF CvTexts
\* No text is touched.
<1>7. CASE e.kind \notin TextKinds /\ (CvAlters(items, e, n, new) \/ CvLeaves(items, e, new))
  <2>1. /\ Len(new) = len
        /\ \A k \in 1..len : new[k].kind = items[k].kind /\ (items[k].kind \in TextKinds => new[k] = items[k])
    <3>1. CASE CvAlters(items, e, n, new)
      <4>1. PICK j \in 1..len, y \in CvItemRecs :
              new = [items EXCEPT ![j] = y] /\ y.kind = items[j].kind /\ y.kind \notin TextKinds
        BY <1>7, <3>1 DEF CvAlters, TextKinds
      <4>2. Len(new) = len /\ \A k \in 1..len : new[k] = IF k = j THEN y ELSE items[k]
        BY <4>1, ExceptSeq
      <4> QED
        BY <4>1, <4>2
    <3>2. CASE CvLeaves(items, e, new)
      BY <3>2 DEF CvLeaves
    <3> QED
      BY <1>7, <3>1, <3>2
  <2> HIDE DEF len
  <2>2. CvAllShown(new, log, a + 1)
    <3>1. ASSUME NEW i \in 1..(a + 1), log[i].kind \in TextKinds
          PROVE  \E k \in 1..Len(new) : /\ new[k].kind = log[i].kind /\ new[k].id = log[i].id
                                        /\ \E j \in 1..Len(new[k].text) : new[k].text[j] = i
      <4>1. i \in 1..a
        <5>1. i # n
          BY <1>7, <3>1 DEF e, n
        <5> QED
          BY <1>0, <5>1
      <4>2. PICK k \in 1..len : /\ items[k].kind = log[i].kind /\ items[k].id = log[i].id
                                /\ \E j \in 1..Len(items[k].text) : items[k].text[j] = i
        BY <1>4, <3>1, <4>1
      <4>3. new[k] = items[k]
        BY <2>1, <3>1, <4>2
      <4> QED
        BY <2>1, <4>2, <4>3, SMTT(30)
    <3> QED
      BY <3>1 DEF CvAllShown
  <2>3. CvOnlyShown(new, log, a + 1)
    <3>1. ASSUME NEW k \in 1..Len(new), new[k].kind \in TextKinds, NEW j \in 1..Len(new[k].text)
          PROVE  /\ new[k].text[j] \in 1..(a + 1)
                 /\ log[new[k].text[j]].kind = new[k].kind /\ log[new[k].text[j]].id = new[k].id
      <4>1. k \in 1..len /\ items[k].kind \in TextKinds /\ new[k] = items[k]
        BY <2>1, <3>1
      <4>2. /\ items[k].text[j] \in 1..a
            /\ log[items[k].text[j]].kind = items[k].kind /\ log[items[k].text[j]].id = items[k].id
        BY <1>4, <3>1, <4>1
      <4>3. items[k].text[j] \in 1..(a + 1)
        BY <4>2
      <4> QED
        BY <4>1, <4>2, <4>3
    <3> QED
      BY <3>1 DEF CvOnlyShown
  <2>4. CvInOrder(new)
    <3> SUFFICES ASSUME NEW k \in 1..Len(new), NEW m \in 1..Len(new), new[k].kind \in TextKinds, new[m].kind \in TextKinds,
                        NEW h \in 1..Len(new[k].text), NEW j \in 1..Len(new[m].text), k < m \/ (k = m /\ h < j)
                 PROVE  new[k].text[h] < new[m].text[j]
      BY SMTT(60) DEF CvInOrder
    <3>1. /\ k \in 1..len /\ items[k].kind \in TextKinds /\ new[k] = items[k]
          /\ m \in 1..len /\ items[m].kind \in TextKinds /\ new[m] = items[m]
      BY <2>1
    <3>2. h \in 1..Len(items[k].text) /\ j \in 1..Len(items[m].text)
      BY <3>1
    <3>3. items[k].text[h] < items[m].text[j]
      BY <1>4, <3>1, <3>2
    <3> QED
      BY <3>1, <3>3
  <2> QED
    BY <1>3, <2>2, <2>3, <2>4 DEF CvTexts
<1>8. CvLeaves(items, e, new) => e.kind \notin TextKinds
  BY DEF CvLeaves
<1> QED
  BY <1>3, <1>5, <1>6, <1>7, <1>8

-----------------------------------------------------------------------------
(* The agents, as the events tell of them.                                    *)
LastUpto(log, a, kind, id) == Max({0} \cup {n \in 1..a : log[n].kind = kind /\ log[n].id = id})
CvAgentNow(log, a, ag) ==
  LET spawned == LastUpto(log, a, "spawned", ag)
      did == LastUpto(log, a, "activity", ag)
  IN IF spawned = 0 THEN Unknown
     ELSE [parent |-> log[spawned].val,
           st |-> IF LastUpto(log, a, "finished", ag) > spawned THEN "finished" ELSE "running",
           activity |-> IF did > spawned THEN <<did>> ELSE << >>]
CvNode(log, a) == [ag \in CvAgents |-> CvAgentNow(log, a, ag)]

LEMMA CvLastNext ==
  ASSUME NEW log, NEW a \in Nat, NEW kind, NEW id
  PROVE  /\ LastUpto(log, a, kind, id) \in 0..a
         /\ LastUpto(log, a + 1, kind, id)
              = IF log[a + 1].kind = kind /\ log[a + 1].id = id THEN a + 1 ELSE LastUpto(log, a, kind, id)
<1> DEFINE M == {n \in 1..a : log[n].kind = kind /\ log[n].id = id}
           N == {n \in 1..(a + 1) : log[n].kind = kind /\ log[n].id = id}
<1>1. M \in SUBSET (1..a) /\ N \in SUBSET (1..(a + 1)) /\ a + 1 \in Nat
  OBVIOUS
<1>2. N = IF log[a + 1].kind = kind /\ log[a + 1].id = id THEN M \cup {a + 1} ELSE M
  <2>1. \A n : n \in 1..(a + 1) <=> n \in 1..a \/ n = a + 1
    OBVIOUS
  <2>2. CASE log[a + 1].kind = kind /\ log[a + 1].id = id
    <3>1. \A n : n \in N <=> n \in M \cup {a + 1}
      BY <2>1, <2>2
    <3> HIDE DEF M, N
    <3> QED
      BY <2>2, <3>1
  <2>3. CASE ~(log[a + 1].kind = kind /\ log[a + 1].id = id)
    <3>1. \A n : n \in N <=> n \in M
      BY <2>1, <2>3
    <3> HIDE DEF M, N
    <3> QED
      BY <2>3, <3>1
  <2> QED
    BY <2>2, <2>3
<1>3. LastUpto(log, a, kind, id) = Max({0} \cup M) /\ LastUpto(log, a + 1, kind, id) = Max({0} \cup N)
  BY DEF LastUpto
<1> HIDE DEF M, N
<1>4. Max({0} \cup M) \in 0..a
  <2>1. Max({0} \cup M) \in {0} \cup M
    BY <1>1, CvLastIs
  <2>2. \A x \in {0} \cup M : x \in 0..a
    BY <1>1
  <2> QED
    BY <2>1, <2>2
<1>5. CASE log[a + 1].kind = kind /\ log[a + 1].id = id
  <2>1. a + 1 \in {0} \cup N /\ \A n \in N : n <= a + 1
    BY <1>1, <1>2, <1>5
  <2>2. a + 1 = Max({0} \cup N)
    <3>1. \A x \in {0} \cup N : (\A n \in N : n <= x) => x = Max({0} \cup N)
      BY <1>1, CvLastIs
    <3> QED
      BY <2>1, <3>1
  <2> QED
    BY <1>3, <1>4, <1>5, <2>2
<1>6. CASE ~(log[a + 1].kind = kind /\ log[a + 1].id = id)
  BY <1>2, <1>3, <1>4, <1>6
<1> QED
  BY <1>5, <1>6

LEMMA CvNodeNext ==
  ASSUME NEW log, NEW a \in Nat, log[a + 1].kind \in {"spawned", "activity", "finished"} => log[a + 1].id \in CvAgents
  PROVE  CvNode(log, a + 1) = AgentsAfter(CvNode(log, a), log[a + 1], a + 1)
<1> DEFINE e == log[a + 1]
           n == a + 1
           old == CvNode(log, a)
           new == AgentsAfter(old, e, n)
<1>1. old = [ag \in CvAgents |-> CvAgentNow(log, a, ag)] /\ n \in Nat /\ n > a /\ n # 0
  BY DEF CvNode
<1>2. e.kind \in {"spawned", "activity", "finished"} => e.id \in CvAgents
  OBVIOUS
<1> HIDE DEF old
<1>3. ASSUME NEW ag \in CvAgents
      PROVE  /\ LastUpto(log, a, "spawned", ag) \in 0..a /\ LastUpto(log, a, "activity", ag) \in 0..a
             /\ LastUpto(log, a, "finished", ag) \in 0..a
             /\ \A kind : LastUpto(log, n, kind, ag) = IF e.kind = kind /\ e.id = ag THEN n ELSE LastUpto(log, a, kind, ag)
  BY CvLastNext
<1> HIDE DEF e, n
<1>4. ASSUME NEW ag \in CvAgents, ~(e.kind \in {"spawned", "activity", "finished"} /\ e.id = ag)
      PROVE  CvAgentNow(log, n, ag) = CvAgentNow(log, a, ag)
  BY <1>3, <1>4 DEF CvAgentNow
<1>5. CASE e.kind = "spawned"
  <2> DEFINE fresh == [parent |-> e.val, st |-> "running", activity |-> << >>]
  <2>1. new = [old EXCEPT ![e.id] = fresh] /\ e.id \in CvAgents
    BY <1>2, <1>5 DEF AgentsAfter
  <2>2. CvAgentNow(log, n, e.id) = fresh
    <3> DEFINE L(kind) == LastUpto(log, n, kind, e.id)
    <3>0. L("spawned") = n /\ L("finished") \in 0..a /\ L("activity") \in 0..a
      BY <1>3, <1>5, <2>1
    <3>1. L("spawned") = n /\ ~(L("finished") > n) /\ ~(L("activity") > n)
      <4> HIDE DEF L
      <4> QED
        BY <1>1, <3>0
    <3>2. log[n].val = e.val
      BY DEF e, n
    <3> QED
      BY <1>1, <3>1, <3>2 DEF CvAgentNow
  <2> HIDE DEF fresh, new
  <2>3. \A ag \in CvAgents : new[ag] = CvAgentNow(log, n, ag)
    BY <1>1, <1>4, <2>1, <2>2
  <2>4. new = [ag \in CvAgents |-> CvAgentNow(log, n, ag)]
    BY <1>1, <2>1, <2>3
  <2> QED
    BY <2>4 DEF CvNode, new, old, e, n
<1>6. CASE e.kind = "activity"
  <2> DEFINE was == CvAgentNow(log, a, e.id)
             now == [was EXCEPT !.activity = <<n>>]
  <2>1. e.id \in CvAgents /\ old[e.id] = was /\ new = IF was # Unknown THEN [old EXCEPT ![e.id] = now] ELSE old
    BY <1>1, <1>2, <1>6 DEF AgentsAfter
  <2>2. CvAgentNow(log, n, e.id) = IF was # Unknown THEN now ELSE was
    <3> DEFINE spawned == LastUpto(log, a, "spawned", e.id)
    <3>1. /\ LastUpto(log, n, "spawned", e.id) = spawned /\ LastUpto(log, n, "activity", e.id) = n
          /\ LastUpto(log, n, "finished", e.id) = LastUpto(log, a, "finished", e.id) /\ spawned \in 0..a
      BY <1>3, <1>6, <2>1
    <3>2. CASE spawned = 0
      BY <3>1, <3>2 DEF CvAgentNow
    <3>3. CASE spawned # 0
      <4> DEFINE st == IF LastUpto(log, a, "finished", e.id) > spawned THEN "finished" ELSE "running"
                 done == IF LastUpto(log, a, "activity", e.id) > spawned THEN <<LastUpto(log, a, "activity", e.id)>> ELSE << >>
      <4>1. was = [parent |-> log[spawned].val, st |-> st, activity |-> done]
        BY <3>3 DEF CvAgentNow
      <4>2. CvAgentNow(log, n, e.id) = [parent |-> log[spawned].val, st |-> st, activity |-> <<n>>]
        <5>1. n > spawned
          BY <1>1, <3>1
        <5> QED
          BY <3>1, <3>3, <5>1 DEF CvAgentNow
      <4>3. was # Unknown
        <5>1. was.st = st /\ st # NoOne
          <6>1. st # NoOne
            BY DEF NoOne
          <6> HIDE DEF st, done
          <6> QED
            BY <4>1, <6>1
        <5> QED
          BY <5>1 DEF Unknown
      <4> HIDE DEF st, done, was
      <4>4. now = [parent |-> log[spawned].val, st |-> st, activity |-> <<n>>]
        BY <4>1
      <4> QED
        BY <4>2, <4>3, <4>4
    <3> QED
      BY <3>2, <3>3
  <2> HIDE DEF was, now, new
  <2>3. \A ag \in CvAgents : new[ag] = CvAgentNow(log, n, ag)
    BY <1>1, <1>4, <2>1, <2>2
  <2>4. new = [ag \in CvAgents |-> CvAgentNow(log, n, ag)]
    BY <1>1, <2>1, <2>3
  <2> QED
    BY <2>4 DEF CvNode, new, old, e, n
<1>7. CASE e.kind = "finished"
  <2> DEFINE was == CvAgentNow(log, a, e.id)
             now == [was EXCEPT !.st = "finished"]
  <2>1. e.id \in CvAgents /\ old[e.id] = was /\ new = IF was # Unknown THEN [old EXCEPT ![e.id] = now] ELSE old
    BY <1>1, <1>2, <1>7 DEF AgentsAfter
  <2>2. CvAgentNow(log, n, e.id) = IF was # Unknown THEN now ELSE was
    <3> DEFINE spawned == LastUpto(log, a, "spawned", e.id)
    <3>1. /\ LastUpto(log, n, "spawned", e.id) = spawned /\ LastUpto(log, n, "finished", e.id) = n
          /\ LastUpto(log, n, "activity", e.id) = LastUpto(log, a, "activity", e.id) /\ spawned \in 0..a
      BY <1>3, <1>7, <2>1
    <3>2. CASE spawned = 0
      BY <3>1, <3>2 DEF CvAgentNow
    <3>3. CASE spawned # 0
      <4> DEFINE st == IF LastUpto(log, a, "finished", e.id) > spawned THEN "finished" ELSE "running"
                 done == IF LastUpto(log, a, "activity", e.id) > spawned THEN <<LastUpto(log, a, "activity", e.id)>> ELSE << >>
      <4>1. was = [parent |-> log[spawned].val, st |-> st, activity |-> done]
        BY <3>3 DEF CvAgentNow
      <4>2. CvAgentNow(log, n, e.id) = [parent |-> log[spawned].val, st |-> "finished", activity |-> done]
        <5>1. n > spawned
          BY <1>1, <3>1
        <5> QED
          BY <3>1, <3>3, <5>1 DEF CvAgentNow
      <4>3. was # Unknown
        <5>1. was.st = st /\ st # NoOne
          <6>1. st # NoOne
            BY DEF NoOne
          <6> HIDE DEF st, done
          <6> QED
            BY <4>1, <6>1
        <5> QED
          BY <5>1 DEF Unknown
      <4> HIDE DEF st, done, was
      <4>4. now = [parent |-> log[spawned].val, st |-> "finished", activity |-> done]
        BY <4>1
      <4> QED
        BY <4>2, <4>3, <4>4
    <3> QED
      BY <3>2, <3>3
  <2> HIDE DEF was, now, new
  <2>3. \A ag \in CvAgents : new[ag] = CvAgentNow(log, n, ag)
    BY <1>1, <1>4, <2>1, <2>2
  <2>4. new = [ag \in CvAgents |-> CvAgentNow(log, n, ag)]
    BY <1>1, <2>1, <2>3
  <2> QED
    BY <2>4 DEF CvNode, new, old, e, n
<1>8. CASE e.kind \notin {"spawned", "activity", "finished"}
  <2>1. new = old
    BY <1>8 DEF AgentsAfter
  <2>2. \A ag \in CvAgents : CvAgentNow(log, n, ag) = CvAgentNow(log, a, ag)
    BY <1>4, <1>8
  <2>3. new = [ag \in CvAgents |-> CvAgentNow(log, n, ag)]
    BY <1>1, <2>1, <2>2
  <2> QED
    BY <2>3 DEF CvNode, old, e, n
<1> QED
  BY <1>5, <1>6, <1>7, <1>8

-----------------------------------------------------------------------------
(* The agents and their rows in the timeline.                                 *)
CvAgentRecs == [parent : CvValues, st : {NoOne, "running", "finished"}, activity : Seq(Nat)]
CvAlike(items, agents) ==
  \A ag \in CvAgents : agents[ag] # Unknown =>
    LET row == LastOfKind(items, "spawned", ag)
    IN /\ row # 0 /\ (agents[ag].st = "finished" <=> items[row].st = "finished")
       /\ agents[ag].activity = items[row].text

\* An event about another agent, or about none, leaves an agent's row alone.
LEMMA CvRowKept ==
  ASSUME NEW items \in Seq(CvItemRecs), NEW e \in CvEvents, NEW n \in Nat, NEW new, new = ItemsAfter(items, e, n),
         NEW ag, e.kind \in AgentKinds => e.id # ag
  PROVE  LET row == LastOfKind(items, "spawned", ag)
         IN LastOfKind(new, "spawned", ag) = row /\ (row # 0 => new[row] = items[row])
<1> DEFINE row == LastOfKind(items, "spawned", ag)
<1>1. CvAdds(items, e, n, new) \/ CvAlters(items, e, n, new) \/ CvLeaves(items, e, new)
  BY CvItemsAfter
<1>2. row \in 0..Len(items) /\ Len(items) \in Nat /\ (row # 0 => items[row].kind = "spawned" /\ items[row].id = ag)
  BY CvLastItem, LenProperties DEF OfKind
<1> HIDE DEF row
<1>3. CASE CvAdds(items, e, n, new)
  <2>1. PICK x \in CvItemRecs : new = Append(items, x) /\ x.kind = e.kind /\ x.id = e.id
    BY <1>3 DEF CvAdds
  <2>2. ~(x.kind = "spawned" /\ x.id = ag)
    BY <2>1 DEF AgentKinds
  <2>3. LastOfKind(new, "spawned", ag) = row
    BY <2>1, <2>2, CvLastAppend DEF row
  <2>4. row # 0 => new[row] = items[row]
    BY <1>2, <2>1, AppendProperties
  <2> QED
    BY <2>3, <2>4 DEF row
<1>4. CASE CvAlters(items, e, n, new)
  <2>1. PICK j \in 1..Len(items), y \in CvItemRecs :
          /\ new = [items EXCEPT ![j] = y] /\ y.kind = items[j].kind /\ y.id = items[j].id
          /\ \/ e.kind \in TextKinds /\ y.kind = e.kind
             \/ y.kind \in {"tool", "ask"}
             \/ e.kind \in {"activity", "finished"} /\ j = LastOfKind(items, "spawned", e.id)
    BY <1>4 DEF CvAlters
  <2>2. LastOfKind(new, "spawned", ag) = row
    <3>1. y.kind = items[j].kind /\ y.id = items[j].id
      BY <2>1
    <3>2. LastOfKind([items EXCEPT ![j] = y], "spawned", ag) = LastOfKind(items, "spawned", ag)
      BY <3>1, CvLastExcept
    <3> QED
      BY <2>1, <3>2 DEF row
  <2>3. ASSUME row = j PROVE FALSE
    <3>1. y.kind = "spawned" /\ y.id = ag
      BY <1>2, <2>1, <2>3
    <3>2. e.kind \in {"activity", "finished"} /\ j = LastOfKind(items, "spawned", e.id)
      BY <2>1, <3>1 DEF TextKinds
    <3>3. j \in OfKind(items, "spawned", e.id)
      BY <2>1, <3>2, CvLastItem
    <3> QED
      BY <2>1, <3>1, <3>2, <3>3 DEF OfKind, AgentKinds
  <2>4. row # 0 => new[row] = items[row]
    BY <1>2, <2>1, <2>3, ExceptSeq
  <2> QED
    BY <2>2, <2>4 DEF row
<1>5. CASE CvLeaves(items, e, new)
  BY <1>5 DEF CvLeaves, row
<1> QED
  BY <1>1, <1>3, <1>4, <1>5

LEMMA CvAlikeKept ==
  ASSUME NEW items \in Seq(CvItemRecs), NEW e \in CvEvents, NEW n \in Nat, e.kind \in AgentKinds => e.id \in CvAgents,
         NEW agents \in [CvAgents -> CvAgentRecs], CvAlike(items, agents)
  PROVE  CvAlike(ItemsAfter(items, e, n), AgentsAfter(agents, e, n))
<1> DEFINE new == ItemsAfter(items, e, n)
           now == AgentsAfter(agents, e, n)
<1>1. CvAdds(items, e, n, new) \/ CvAlters(items, e, n, new) \/ CvLeaves(items, e, new)
  BY CvItemsAfter
<1>2. ASSUME NEW ag \in CvAgents, e.kind \in AgentKinds => e.id # ag PROVE now[ag] = agents[ag]
  BY <1>2 DEF AgentsAfter, AgentKinds
<1> DEFINE Alike(ag) == now[ag] # Unknown =>
             LET row == LastOfKind(new, "spawned", ag)
             IN /\ row # 0 /\ (now[ag].st = "finished" <=> new[row].st = "finished")
                /\ now[ag].activity = new[row].text
<1>3. ASSUME NEW ag \in CvAgents, e.kind \in AgentKinds => e.id # ag PROVE Alike(ag)
  <2> HIDE DEF new, now
  <2>1. LET row == LastOfKind(items, "spawned", ag)
        IN LastOfKind(new, "spawned", ag) = row /\ (row # 0 => new[row] = items[row])
    BY <1>3, CvRowKept DEF new
  <2> QED
    BY <1>2, <1>3, <2>1 DEF CvAlike
\* The agent the event is about.
<1>4. ASSUME e.kind \in AgentKinds PROVE Alike(e.id)
  <2> DEFINE id == e.id
             row == LastOfKind(items, "spawned", id)
  <2>1. id \in CvAgents /\ agents[id] \in CvAgentRecs
    BY <1>4
  <2>2. agents[id] # Unknown =>
          row # 0 /\ (agents[id].st = "finished" <=> items[row].st = "finished") /\ agents[id].activity = items[row].text
    BY <2>1 DEF CvAlike
  <2>3. row \in 0..Len(items) /\ Len(items) \in Nat /\ (row # 0 => items[row].kind = "spawned")
    BY CvLastItem, LenProperties DEF OfKind
  <2> HIDE DEF new
  <2>4. CASE e.kind = "spawned"
    <3>1. PICK x \in CvItemRecs : /\ new = Append(items, x) /\ x.kind = "spawned" /\ x.id = id
                                  /\ x.st = NoOne /\ x.text = << >>
      BY <1>1, <2>4 DEF CvAdds, CvAlters, CvLeaves, TextKinds
    <3>2. LastOfKind(new, "spawned", id) = Len(items) + 1
      BY <3>1, CvLastAppend
    <3>3. new[Len(items) + 1] = x
      BY <3>1, AppendProperties
    <3>4. now[id].st = "running" /\ now[id].activity = << >>
      BY <2>1, <2>4 DEF AgentsAfter
    <3>5. x.st # "finished" /\ Len(items) + 1 # 0
      BY <2>3, <3>1 DEF NoOne
    <3> HIDE DEF now, id, row
    <3> QED
      BY <3>1, <3>2, <3>3, <3>4, <3>5 DEF id
  <2>5. CASE e.kind # "spawned" /\ agents[id] = Unknown
    <3>1. now[id] = Unknown
      BY <1>4, <2>5 DEF AgentsAfter, AgentKinds
    <3> QED
      BY <3>1
  <2>6. CASE e.kind # "spawned" /\ agents[id] # Unknown
    <3>1. PICK y \in CvItemRecs :
            /\ new = [items EXCEPT ![row] = y] /\ y.kind = items[row].kind /\ y.id = items[row].id
            /\ \/ e.kind = "finished" /\ y.st = "finished" /\ y.text = items[row].text
               \/ e.kind = "activity" /\ y.st = items[row].st /\ y.text = <<n>>
      <4>1. e.kind \in {"activity", "finished"} /\ row # 0
        BY <1>4, <2>2, <2>6 DEF AgentKinds
      <4>2. CvAlters(items, e, n, new)
        BY <1>1, <4>1 DEF CvAdds, CvLeaves
      <4> HIDE DEF row
      <4>3. \E j \in 1..Len(items), y \in CvItemRecs :
              /\ new = [items EXCEPT ![j] = y] /\ y.kind = items[j].kind /\ y.id = items[j].id /\ j = row
              /\ \/ e.kind = "finished" /\ y.st = "finished" /\ y.text = items[j].text
                 \/ e.kind = "activity" /\ y.st = items[j].st /\ y.text = <<n>>
        BY <4>1, <4>2 DEF CvAlters, TextKinds, row, id
      <4> QED
        BY <4>3
    <3>2. row \in 1..Len(items)
      BY <2>2, <2>3, <2>6
    <3>3. LastOfKind(new, "spawned", id) = row
      <4>1. y.kind = items[row].kind /\ y.id = items[row].id
        BY <3>1
      <4> HIDE DEF row
      <4>2. LastOfKind([items EXCEPT ![row] = y], "spawned", id) = LastOfKind(items, "spawned", id)
        BY <3>2, <4>1, CvLastExcept
      <4> QED
        BY <3>1, <4>2 DEF row
    <3>4. new[row] = y
      BY <3>1, <3>2, ExceptSeq
    <3>5. CASE e.kind = "finished"
      <4>1. now[id].st = "finished" /\ now[id].activity = agents[id].activity
        BY <2>1, <2>6, <3>5 DEF AgentsAfter, CvAgentRecs
      <4>2. y.st = "finished" /\ y.text = items[row].text
        BY <3>1, <3>5
      <4> HIDE DEF now, id, row
      <4> QED
        BY <2>2, <2>6, <3>3, <3>4, <4>1, <4>2 DEF id
    <3>6. CASE e.kind = "activity"
      <4>1. now[id].st = agents[id].st /\ now[id].activity = <<n>>
        BY <2>1, <2>6, <3>6 DEF AgentsAfter, CvAgentRecs
      <4>2. y.st = items[row].st /\ y.text = <<n>>
        BY <3>1, <3>6
      <4> HIDE DEF now, id, row
      <4> QED
        BY <2>2, <2>6, <3>3, <3>4, <4>1, <4>2 DEF id
    <3> QED
      BY <3>1, <3>5, <3>6
  <2> QED
    BY <2>4, <2>5, <2>6
<1> HIDE DEF new, now
<1>5. \A ag \in CvAgents : Alike(ag)
  <2> TAKE ag \in CvAgents
  <2> HIDE DEF Alike
  <2>1. CASE e.kind \in AgentKinds /\ e.id = ag
    BY <1>4, <2>1
  <2>2. CASE e.kind \in AgentKinds => e.id # ag
    BY <1>3, <2>2
  <2> QED
    BY <2>1, <2>2
<1>6. CvAlike(new, now)
  BY <1>5 DEF CvAlike
<1> QED
  BY <1>6 DEF new, now

-----------------------------------------------------------------------------
(* The tree.  An agent is spawned once, below one that was spawned before.    *)
CvLogSound(log, spawned) ==
  /\ \A n \in 1..Len(log) : log[n].kind \in AgentKinds => log[n].id \in CvAgents
  /\ \A n \in 1..Len(log) : log[n].kind = "spawned" =>
       /\ log[n].id \in spawned
       /\ log[n].val = NoOne \/ \E m \in 1..(n - 1) : log[m].kind = "spawned" /\ log[m].id = log[n].val
  /\ \A m, n \in 1..Len(log) :
       log[m].kind = "spawned" /\ log[n].kind = "spawned" /\ log[m].id = log[n].id => m = n
  /\ \A ag \in spawned : \E n \in 1..Len(log) : log[n].kind = "spawned" /\ log[n].id = ag

LEMMA CvLastPlace ==
  ASSUME NEW log, NEW a \in Nat, NEW kind, NEW id
  PROVE  LET L == LastUpto(log, a, kind, id)
         IN /\ L # 0 => L \in 1..a /\ log[L].kind = kind /\ log[L].id = id
            /\ \A n \in 1..a : log[n].kind = kind /\ log[n].id = id => n <= L
<1> DEFINE M == {n \in 1..a : log[n].kind = kind /\ log[n].id = id}
           L == Max({0} \cup M)
<1>1. M \in SUBSET (1..a) /\ \A n \in M : log[n].kind = kind /\ log[n].id = id
  OBVIOUS
<1>2. \A n \in 1..a : log[n].kind = kind /\ log[n].id = id => n \in M
  OBVIOUS
<1>3. LastUpto(log, a, kind, id) = L
  BY DEF LastUpto
<1> HIDE DEF M
<1>4. L \in {0} \cup M /\ \A n \in M : n <= L
  BY <1>1, CvLastIs
<1> HIDE DEF L
<1> QED
  BY <1>1, <1>2, <1>3, <1>4

LEMMA CvTree ==
  ASSUME NEW log, Len(log) \in Nat, NEW a \in 0..Len(log), NEW spawned, CvLogSound(log, spawned)
  PROVE  InTree(CvNode(log, a)) = {log[n].id : n \in {k \in 1..a : log[k].kind = "spawned"}}
<1> DEFINE T == {log[n].id : n \in {k \in 1..a : log[k].kind = "spawned"}}
           agents == CvNode(log, a)
           Place(ag) == LastUpto(log, a, "spawned", ag)
<1>1. \A n \in 1..a : n \in 1..Len(log)
  OBVIOUS
<1>2. T \subseteq CvAgents
  BY <1>1 DEF CvLogSound, AgentKinds
<1>3. \A ag \in CvAgents : agents[ag].st # NoOne => ag \in T
  <2> SUFFICES ASSUME NEW ag \in CvAgents, agents[ag].st # NoOne PROVE ag \in T
    OBVIOUS
  <2>1. agents[ag] = CvAgentNow(log, a, ag)
    BY DEF CvNode
  <2> HIDE DEF agents
  <2>2. Place(ag) # 0
    BY <2>1 DEF CvAgentNow, Unknown
  <2>3. Place(ag) \in 1..a /\ log[Place(ag)].kind = "spawned" /\ log[Place(ag)].id = ag
    BY <2>2, CvLastPlace
  <2> HIDE DEF Place
  <2> QED
    BY <2>3
\* The event that spawned an agent tells of its parent.
<1>4. ASSUME NEW n \in 1..a, log[n].kind = "spawned"
      PROVE  agents[log[n].id].st # NoOne /\ agents[log[n].id].parent = log[n].val
  <2> DEFINE ag == log[n].id
             L == Place(ag)
  <2>1. ag \in CvAgents
    BY <1>2, <1>4
  <2>2. n <= L /\ (L # 0 => L \in 1..a /\ log[L].kind = "spawned" /\ log[L].id = ag)
    BY <1>4, CvLastPlace
  <2>3. L = n /\ L # 0
    <3> HIDE DEF L
    <3>1. L # 0
      BY <2>2
    <3> QED
      BY <1>1, <1>4, <2>2, <3>1 DEF CvLogSound
  <2>4. agents[ag] = CvAgentNow(log, a, ag)
    BY <2>1 DEF CvNode
  <2> HIDE DEF agents, ag
  <2>5. agents[ag].parent = log[L].val /\ agents[ag].st \in {"finished", "running"}
    BY <2>3, <2>4 DEF CvAgentNow
  <2> QED
    BY <2>3, <2>5 DEF ag, NoOne
<1> HIDE DEF agents
\* Nothing else is in the tree, because what was spawned is closed.
<1>5. Children(agents, T \cup {NoOne}) \subseteq T
  BY <1>3 DEF Children
<1>6. InTree(agents) \subseteq T
  <2> HIDE DEF T
  <2> QED
    BY <1>2, <1>5 DEF InTree
\* All of it is: the first that were missing would be a child of one that is there.
<1>7. ASSUME NEW found \in SUBSET CvAgents, Children(agents, found \cup {NoOne}) \subseteq found PROVE T \subseteq found
  <2> DEFINE M == {n \in 1..a : log[n].kind = "spawned" /\ log[n].id \notin found}
  <2> SUFFICES ASSUME M # {} PROVE FALSE
    BY Zenon
  <2>0. M \in SUBSET Nat
    OBVIOUS
  <2>1. PICK n \in M : \A k \in M : n <= k
    <3> HIDE DEF M
    <3> QED
      BY <2>0, Smallest
  <2> DEFINE ag == log[n].id
             p == log[n].val
  <2>2. n \in 1..a /\ log[n].kind = "spawned" /\ ag \notin found /\ ag \in CvAgents
    BY <1>2
  <2>3. agents[ag].st # NoOne /\ agents[ag].parent = p
    BY <1>4, <2>2
  <2>4. p = NoOne \/ \E m \in 1..(n - 1) : log[m].kind = "spawned" /\ log[m].id = p
    BY <1>1, <2>2 DEF CvLogSound
  <2>5. p \in found \cup {NoOne}
    <3>1. ASSUME NEW m \in 1..(n - 1), log[m].kind = "spawned", log[m].id = p PROVE p \in found
      <4>1. m \in 1..a /\ ~(n <= m)
        BY <2>2
      <4>2. m \notin M
        BY <2>1, <4>1
      <4> QED
        BY <3>1, <4>1, <4>2
    <3> QED
      BY <2>4, <3>1
  <2> HIDE DEF ag, p, M
  <2>6. ag \in Children(agents, found \cup {NoOne})
    BY <2>2, <2>3, <2>5 DEF Children
  <2> QED
    BY <1>7, <2>2, <2>6
<1>8. T \subseteq InTree(agents)
  <2> HIDE DEF T
  <2> QED
    BY <1>2, <1>7 DEF InTree
<1> QED
  BY <1>6, <1>8 DEF agents

-----------------------------------------------------------------------------
(* What a view over an unbroken stream shows of the first a events.           *)
CvShows(view, log, a) ==
  /\ CvTexts(view.items, log, a) /\ view.agents = CvNode(log, a) /\ CvAlike(view.items, view.agents)

CvShowInv ==
  /\ cvView.items \in Seq(CvItemRecs)
  /\ \A r \in 1..Len(cvRelays) : cvRelays[r].todo \in Seq(1..Len(cvLog))
  /\ CvLogSound(cvLog, cvServer.spawned)
  /\ Len(cvRelays) = 0 => CvShows(cvView, cvLog, 0)
  /\ CvUnbroken => CvShows(cvView, cvLog, Len(cvLog) - Len(cvRelays[1].todo))

\* Later events do not matter.
LEMMA CvShowsStill ==
  ASSUME NEW view, NEW log, NEW new, NEW a \in Nat, \A n \in 1..a : new[n] = log[n], CvShows(view, log, a)
  PROVE  CvShows(view, new, a)
<1> DEFINE items == view.items
<1> HIDE DEF items
<1>1. CvTexts(items, new, a)
  <2>1. CvTexts(items, log, a)
    BY DEF CvShows, items
  <2>2. CvAllShown(items, new, a)
    BY <2>1 DEF CvTexts, CvAllShown
  <2>3. CvOnlyShown(items, new, a)
    BY <2>1 DEF CvTexts, CvOnlyShown
  <2> QED
    BY <2>1, <2>2, <2>3 DEF CvTexts
<1>2. CvNode(new, a) = CvNode(log, a)
  <2>1. ASSUME NEW kind, NEW id PROVE LastUpto(new, a, kind, id) = LastUpto(log, a, kind, id)
    <3>1. {n \in 1..a : new[n].kind = kind /\ new[n].id = id} = {n \in 1..a : log[n].kind = kind /\ log[n].id = id}
      OBVIOUS
    <3> QED
      BY <3>1 DEF LastUpto
  <2>2. ASSUME NEW ag \in CvAgents PROVE CvAgentNow(new, a, ag) = CvAgentNow(log, a, ag)
    <3>1. LastUpto(log, a, "spawned", ag) # 0 => LastUpto(log, a, "spawned", ag) \in 1..a
      BY CvLastPlace
    <3> QED
      BY <2>1, <3>1 DEF CvAgentNow
  <2> QED
    BY <2>2 DEF CvNode
<1> QED
  BY <1>1, <1>2 DEF CvShows, items

LEMMA CvNodeAgents ==
  ASSUME NEW log \in Seq(CvEvents), NEW a \in 0..Len(log), NEW spawned, CvLogSound(log, spawned)
  PROVE  CvNode(log, a) \in [CvAgents -> CvAgentRecs]
<1>1. ASSUME NEW ag \in CvAgents PROVE CvAgentNow(log, a, ag) \in CvAgentRecs
  <2> DEFINE L == LastUpto(log, a, "spawned", ag)
             did == LastUpto(log, a, "activity", ag)
  <2>0. a \in Nat /\ Len(log) \in Nat
    BY LenProperties
  <2>1. (L # 0 => L \in 1..Len(log)) /\ did \in 0..a
    BY <2>0, CvLastNext
  <2>2. L # 0 => log[L].val \in CvValues
    <3> HIDE DEF L
    <3>1. L # 0 => log[L] \in CvEvents
      BY <2>1, ElementOfSeq
    <3> QED
      BY <3>1 DEF CvEvents
  <2>3. did \in Nat
    <3> HIDE DEF did
    <3> QED
      BY <2>0, <2>1
  <2>4. CvAgentNow(log, a, ag) = IF L = 0 THEN Unknown
          ELSE [parent |-> log[L].val, st |-> IF LastUpto(log, a, "finished", ag) > L THEN "finished" ELSE "running",
                activity |-> IF did > L THEN <<did>> ELSE << >>]
    BY DEF CvAgentNow
  <2> HIDE DEF L, did
  <2>5. NoOne \in CvValues
    BY DEF CvValues
  <2>6. <<did>> \in Seq(Nat) /\ << >> \in Seq(Nat)
    BY <2>3
  <2> QED
    BY <2>2, <2>4, <2>5, <2>6 DEF CvAgentRecs, Unknown
<1> QED
  BY <1>1 DEF CvNode

LEMMA CvShowsNext ==
  ASSUME NEW view, view.items \in Seq(CvItemRecs), NEW log \in Seq(CvEvents), NEW a \in Nat, a + 1 <= Len(log),
         NEW spawned, CvLogSound(log, spawned), CvShows(view, log, a)
  PROVE  CvShows(ApplyEvent(view, log[a + 1], a + 1), log, a + 1)
<1> DEFINE e == log[a + 1]
           n == a + 1
           new == ApplyEvent(view, e, n)
           items == view.items
           agents == view.agents
<1>0. a + 1 \in 1..Len(log) /\ a \in 0..Len(log) /\ a + 1 \in Nat
  BY LenProperties
<1>1. new.items = ItemsAfter(items, e, n) /\ new.agents = AgentsAfter(agents, e, n)
  BY DEF ApplyEvent
<1> HIDE DEF new, items, agents
<1>2. e \in CvEvents /\ (e.kind \in AgentKinds => e.id \in CvAgents)
  BY <1>0, ElementOfSeq DEF CvLogSound
<1>3. items \in Seq(CvItemRecs) /\ CvTexts(items, log, a) /\ agents = CvNode(log, a) /\ CvAlike(items, agents)
  BY DEF CvShows, items, agents
<1>4. agents \in [CvAgents -> CvAgentRecs]
  BY <1>0, <1>3, CvNodeAgents
<1>5. CvTexts(new.items, log, a + 1)
  BY <1>1, <1>3, CvTextsKept
<1>6. new.agents = CvNode(log, a + 1)
  BY <1>1, <1>2, <1>3, CvNodeNext DEF AgentKinds
<1>7. CvAlike(new.items, new.agents)
  <2> HIDE DEF e, n
  <2>1. n \in Nat
    BY <1>0 DEF n
  <2> QED
    BY <1>1, <1>2, <1>3, <1>4, <2>1, CvAlikeKept
<1> QED
  BY <1>5, <1>6, <1>7 DEF CvShows, new

LEMMA CvShowStarts == CvInit => CvShowInv
<1> SUFFICES ASSUME CvInit PROVE CvShowInv
  OBVIOUS
<1>1. /\ cvLog = << >> /\ cvRelays = << >> /\ cvServer.spawned = {}
      /\ cvView.items = << >> /\ cvView.agents = [a \in CvAgents |-> Unknown]
  BY DEF CvInit
<1>2. CvTexts(cvView.items, cvLog, 0)
  BY <1>1 DEF CvTexts, CvAllShown, CvOnlyShown, CvInOrder
<1>3. cvView.agents = CvNode(cvLog, 0)
  <2>1. \A ag \in CvAgents : LastUpto(cvLog, 0, "spawned", ag) \in 0..0
    BY CvLastNext
  <2>2. \A ag \in CvAgents : CvAgentNow(cvLog, 0, ag) = Unknown
    BY <2>1 DEF CvAgentNow
  <2> QED
    BY <1>1, <2>2 DEF CvNode
<1>4. CvAlike(cvView.items, cvView.agents)
  BY <1>1 DEF CvAlike
<1>5. CvLogSound(cvLog, cvServer.spawned)
  BY <1>1 DEF CvLogSound
<1> QED
  BY <1>1, <1>2, <1>3, <1>4, <1>5 DEF CvShowInv, CvShows, CvUnbroken

LEMMA CvShowPublish == ASSUME CvInv, CvShowInv, CvPublished PROVE CvShowInv'
<1> DEFINE len == Len(cvLog)
           spawned == cvServer.spawned
<1>1. PICK event \in CvEvents : \E server : CvSpawns(cvServer, event, server) /\ Publish(event, server)
  BY DEF CvPublished
<1>2. PICK server : CvSpawns(cvServer, event, server) /\ Publish(event, server)
  BY <1>1
<1>3. /\ cvLog' = Append(cvLog, event) /\ cvServer' = server /\ cvView' = cvView
      /\ cvRelays' = [r \in DOMAIN cvRelays |->
                        IF cvRelays[r].open
                          THEN [cvRelays[r] EXCEPT !.todo = Append(cvRelays[r].todo, len + 1)]
                          ELSE cvRelays[r]]
  BY <1>2 DEF Publish
<1>4. /\ len \in Nat /\ Len(cvLog') = len + 1 /\ cvLog'[len + 1] = event
      /\ \A n \in 1..len : cvLog'[n] = cvLog[n]
      /\ \A n \in 1..(len + 1) : n \in 1..len \/ n = len + 1
  BY <1>3, AppendProperties, LenProperties DEF CvInv, CvTypes
<1>5. /\ cvRelays \in Seq(CvRelayRecs) /\ DOMAIN cvRelays = 1..Len(cvRelays) /\ Len(cvRelays) \in Nat
      /\ \A r \in 1..Len(cvRelays) : cvRelays[r] \in CvRelayRecs
  BY LenProperties, ElementOfSeq DEF CvInv, CvTypes
<1>6. Len(cvRelays') = Len(cvRelays)
  <2>1. cvRelays' \in [1..Len(cvRelays) -> {cvRelays'[r] : r \in 1..Len(cvRelays)}]
    BY <1>3, <1>5
  <2> QED
    BY <1>5, <2>1, FunctionIsSeq
<1>7. ASSUME NEW r \in 1..Len(cvRelays)
      PROVE  /\ cvRelays'[r].up = cvRelays[r].up /\ cvRelays'[r].from = cvRelays[r].from
             /\ cvRelays'[r].todo \in Seq(1..(len + 1))
             /\ cvRelays[r].open => Len(cvRelays'[r].todo) = Len(cvRelays[r].todo) + 1
  <2> DEFINE old == cvRelays[r]
             todo == Append(old.todo, len + 1)
  <2>1. old \in CvRelayRecs /\ old.todo \in Seq(1..(len + 1))
    <3>1. old.todo \in Seq(1..len)
      BY DEF CvShowInv
    <3>2. 1..len \subseteq 1..(len + 1)
      BY <1>4
    <3> HIDE DEF old, len
    <3> DEFINE places == old.todo
               P == 1..len
               Q == 1..(len + 1)
    <3>3. places \in Seq(Q)
      <4>1. places \in Seq(P) /\ P \subseteq Q
        BY <3>1, <3>2
      <4> HIDE DEF places, P, Q
      <4> QED
        BY <4>1
    <3> QED
      BY <1>5, <3>3 DEF old
  <2>2. todo \in Seq(1..(len + 1)) /\ Len(todo) = Len(old.todo) + 1
    <3>1. len + 1 \in 1..(len + 1)
      BY <1>4
    <3> HIDE DEF old, len
    <3> QED
      BY <2>1, <3>1, AppendProperties
  <2>3. cvRelays'[r] = IF old.open THEN [old EXCEPT !.todo = todo] ELSE old
    BY <1>3, <1>5
  <2> HIDE DEF old, todo
  <2>4. /\ cvRelays'[r].up = old.up /\ cvRelays'[r].from = old.from
        /\ cvRelays'[r].todo = IF old.open THEN todo ELSE old.todo
    BY <2>1, <2>3 DEF CvRelayRecs
  <2>5. cvRelays'[r].todo \in Seq(1..(len + 1))
    BY <2>1, <2>2, <2>4
  <2> QED
    BY <2>2, <2>4, <2>5 DEF old
<1> HIDE DEF len
<1>8. CvLogSound(cvLog', cvServer'.spawned)
  <2> DEFINE more == cvServer'.spawned
  <2>0. CvLogSound(cvLog, spawned) /\ spawned \subseteq CvAgents
    BY DEF CvShowInv, CvInv, CvTypes, CvSound, CvServers
  <2>1. \/ event.kind \notin AgentKinds /\ more = spawned
        \/ event.kind \in {"activity", "finished"} /\ event.id \in spawned /\ more = spawned
        \/ /\ event.kind = "spawned" /\ event.id \in CvAgents \ spawned /\ event.val \in spawned \cup {NoOne}
           /\ more = spawned \cup {event.id}
    BY <1>2, <1>3 DEF CvSpawns
  <2> HIDE DEF more, spawned
  <2>2. \A n \in 1..Len(cvLog') : cvLog'[n].kind \in AgentKinds => cvLog'[n].id \in CvAgents
    BY <1>4, <2>0, <2>1 DEF CvLogSound, len
  <2>3. spawned \subseteq more
    BY <2>1
  <2>4. ASSUME NEW n \in 1..Len(cvLog'), cvLog'[n].kind = "spawned"
        PROVE  /\ cvLog'[n].id \in more
               /\ cvLog'[n].val = NoOne \/ \E m \in 1..(n - 1) : cvLog'[m].kind = "spawned" /\ cvLog'[m].id = cvLog'[n].val
    <3>1. CASE n \in 1..len
      <4>1. /\ cvLog[n].kind = "spawned" /\ cvLog[n].id \in spawned
            /\ cvLog[n].val = NoOne \/ \E m \in 1..(n - 1) : cvLog[m].kind = "spawned" /\ cvLog[m].id = cvLog[n].val
        BY <1>4, <2>0, <2>4, <3>1 DEF CvLogSound, len
      <4>2. \A m \in 1..(n - 1) : m \in 1..len
        BY <1>4, <3>1
      <4> QED
        BY <1>4, <2>3, <3>1, <4>1, <4>2
    <3>2. CASE n = len + 1
      <4>1. event.kind = "spawned" /\ event.id \in more /\ event.val \in spawned \cup {NoOne}
        BY <1>4, <2>1, <2>4, <3>2 DEF AgentKinds
      <4>2. \A ag \in spawned : \E m \in 1..len : cvLog[m].kind = "spawned" /\ cvLog[m].id = ag
        BY <2>0 DEF CvLogSound, len
      <4>3. \A m \in 1..len : m \in 1..(n - 1)
        BY <1>4, <3>2
      <4> QED
        BY <1>4, <3>2, <4>1, <4>2, <4>3
    <3> QED
      BY <1>4, <3>1, <3>2
  <2>5. ASSUME NEW m \in 1..Len(cvLog'), NEW n \in 1..Len(cvLog'), cvLog'[m].kind = "spawned", cvLog'[n].kind = "spawned",
               cvLog'[m].id = cvLog'[n].id
        PROVE  m = n
    <3>1. \A k \in 1..len : cvLog'[k].kind = "spawned" => cvLog'[k].id \in spawned
      BY <1>4, <2>0 DEF CvLogSound, len
    <3>2. cvLog'[len + 1].kind = "spawned" => cvLog'[len + 1].id \notin spawned
      BY <1>4, <2>1 DEF AgentKinds
    <3>3. CASE m \in 1..len /\ n \in 1..len
      BY <1>4, <2>0, <2>5, <3>3 DEF CvLogSound, len
    <3> QED
      BY <1>4, <2>5, <3>1, <3>2, <3>3
  <2>6. ASSUME NEW ag \in more PROVE \E n \in 1..Len(cvLog') : cvLog'[n].kind = "spawned" /\ cvLog'[n].id = ag
    <3>1. CASE ag \in spawned
      <4>1. PICK n \in 1..len : cvLog[n].kind = "spawned" /\ cvLog[n].id = ag
        BY <2>0, <3>1 DEF CvLogSound, len
      <4>2. n \in 1..Len(cvLog')
        BY <1>4
      <4> QED
        BY <1>4, <4>1, <4>2
    <3>2. CASE ag \notin spawned
      <4>1. event.kind = "spawned" /\ event.id = ag
        BY <2>1, <2>6, <3>2
      <4>2. len + 1 \in 1..Len(cvLog')
        BY <1>4
      <4> QED
        BY <1>4, <4>1, <4>2
    <3> QED
      BY <3>1, <3>2
  <2> QED
    BY <2>2, <2>4, <2>5, <2>6 DEF CvLogSound, more
<1>9. ASSUME NEW a \in 0..len, CvShows(cvView, cvLog, a) PROVE CvShows(cvView', cvLog', a)
  <2>1. a \in Nat /\ \A n \in 1..a : cvLog'[n] = cvLog[n]
    BY <1>4
  <2> QED
    BY <1>3, <1>9, <2>1, CvShowsStill
<1>10. Len(cvRelays') = 0 => CvShows(cvView', cvLog', 0)
  <2>1. 0 \in 0..len
    BY <1>4
  <2> QED
    BY <1>6, <1>9, <2>1 DEF CvShowInv
<1>11. ASSUME CvUnbroken' PROVE CvShows(cvView', cvLog', Len(cvLog') - Len(cvRelays'[1].todo))
  <2> DEFINE t == Len(cvRelays[1].todo)
             u == Len(cvRelays'[1].todo)
  <2>1. CvUnbroken /\ 1 \in 1..Len(cvRelays)
    BY <1>6, <1>7, <1>11 DEF CvUnbroken
  <2>2. cvRelays[1].open /\ t <= len /\ t \in Nat
    BY <1>5, <2>1, LenProperties DEF CvInv, CvFollows, CvUnbroken, CvBehind, CvRelayRecs, len
  <2>3. u = t + 1
    BY <1>7, <2>1, <2>2
  <2>4. CvShows(cvView, cvLog, len - t)
    BY <2>1 DEF CvShowInv, len
  <2> HIDE DEF t, u
  <2>5. len - t \in 0..len /\ Len(cvLog') - u = len - t
    BY <1>4, <2>2, <2>3
  <2>6. CvShows(cvView', cvLog', len - t)
    BY <1>9, <2>4, <2>5
  <2> QED
    BY <2>5, <2>6 DEF u
<1> QED
  BY <1>3, <1>4, <1>6, <1>7, <1>8, <1>10, <1>11 DEF CvShowInv

LEMMA CvShowRelay ==
  ASSUME CvInv, CvShowInv, NEW r \in DOMAIN cvRelays, CvRelayStep(r)
  PROVE  CvShowInv'
<1>0. /\ cvLog \in Seq(CvEvents) /\ Len(cvLog) \in Nat /\ cvRelays \in Seq(CvRelayRecs) /\ Len(cvRelays) \in Nat
      /\ r \in 1..Len(cvRelays) /\ cvRelays[r] \in CvRelayRecs /\ cvView.items \in Seq(CvItemRecs)
      /\ CvLogSound(cvLog, cvServer.spawned)
  BY LenProperties, ElementOfSeq DEF CvInv, CvTypes, CvShowInv
<1>1. CASE CvRelayLags(r)
  <2> DEFINE gone == [todo |-> << >>, open |-> FALSE, up |-> FALSE, from |-> cvRelays[r].from]
  <2>1. cvRelays' = [cvRelays EXCEPT ![r] = gone] /\ UNCHANGED <<cvServer, cvLog, cvView>>
    BY <1>1 DEF CvRelayLags
  <2>2. gone.up = FALSE /\ gone.todo = << >>
    OBVIOUS
  <2> HIDE DEF gone
  <2>3. Len(cvRelays') = Len(cvRelays) /\ \A k \in 1..Len(cvRelays) : cvRelays'[k] = IF k = r THEN gone ELSE cvRelays[k]
    BY <1>0, <2>1
  <2>4. \A k \in 1..Len(cvRelays') : cvRelays'[k].todo \in Seq(1..Len(cvLog'))
    <3> DEFINE P == 1..Len(cvLog)
    <3>1. \A k \in 1..Len(cvRelays) : cvRelays[k].todo \in Seq(P)
      BY DEF CvShowInv
    <3>2. 1..Len(cvLog') = P
      BY <2>1
    <3> HIDE DEF P
    <3>3. << >> \in Seq(P)
      OBVIOUS
    <3> QED
      BY <2>2, <2>3, <3>1, <3>2, <3>3
  <2>5. Len(cvRelays') # 0 /\ ~CvUnbroken'
    <3>1. Len(cvRelays') = 1 => r = 1 /\ 1 \in 1..Len(cvRelays)
      BY <1>0, <2>3
    <3> QED
      BY <1>0, <2>2, <2>3, <3>1 DEF CvUnbroken
  <2> QED
    BY <1>0, <2>1, <2>4, <2>5 DEF CvShowInv
<1>2. CASE CvRelay(r)
  <2> DEFINE todo == cvRelays[r].todo
             rest == Tail(todo)
             n == Head(todo)
             new == [cvRelays[r] EXCEPT !.todo = rest]
             len == Len(cvLog)
  <2>1. /\ todo # << >> /\ cvView' = ApplyEvent(cvView, cvLog[n], n) /\ UNCHANGED <<cvServer, cvLog>>
        /\ cvRelays' = [cvRelays EXCEPT ![r] = new]
    BY <1>2 DEF CvRelay
  <2>2. todo \in Seq(1..len)
    BY <1>0 DEF CvShowInv
  <2>3. /\ rest \in Seq(1..len) /\ Len(rest) = Len(todo) - 1 /\ Len(todo) \in Nat \ {0} /\ n = todo[1] /\ n \in 1..len
    <3> DEFINE P == 1..len
    <3> HIDE DEF todo, P
    <3>1. todo \in Seq(P) /\ todo # << >>
      BY <2>1, <2>2 DEF P
    <3>2. rest \in Seq(P) /\ Len(rest) = Len(todo) - 1 /\ Len(todo) \in Nat \ {0} /\ n = todo[1]
      BY <3>1, HeadTailProperties, LenProperties, EmptySeq
    <3>3. n \in P
      BY <3>1, <3>2, ElementOfSeq
    <3> QED
      BY <3>2, <3>3 DEF P
  <2>4. new.todo = rest /\ new.up = cvRelays[r].up /\ new.from = cvRelays[r].from
    <3> HIDE DEF rest
    <3> QED
      BY <1>0 DEF CvRelayRecs
  <2>5. Len(cvRelays') = Len(cvRelays) /\ \A k \in 1..Len(cvRelays) : cvRelays'[k] = IF k = r THEN new ELSE cvRelays[k]
    <3> HIDE DEF new
    <3> QED
      BY <1>0, <2>1
  <2> HIDE DEF new
  <2>6. cvView'.items \in Seq(CvItemRecs)
    <3> HIDE DEF n
    <3>1. cvView'.items = ItemsAfter(cvView.items, cvLog[n], n)
      BY <2>1 DEF ApplyEvent
    <3>2. n \in Nat /\ cvLog[n] \in CvEvents
      BY <1>0, <2>3, ElementOfSeq
    <3> QED
      BY <1>0, <3>1, <3>2, CvItemsAfter
  <2>7. \A k \in 1..Len(cvRelays') : cvRelays'[k].todo \in Seq(1..Len(cvLog'))
    <3> HIDE DEF rest
    <3> QED
      BY <2>1, <2>3, <2>4, <2>5 DEF CvShowInv
  <2>8. ASSUME CvUnbroken' PROVE CvShows(cvView', cvLog', Len(cvLog') - Len(cvRelays'[1].todo))
    <3>1. r = 1 /\ CvUnbroken
      BY <1>0, <2>4, <2>5, <2>8 DEF CvUnbroken
    <3>2. CvShows(cvView, cvLog, len - Len(todo)) /\ CvBehind(todo, cvLog)
      BY <3>1 DEF CvShowInv, CvInv, CvFollows, CvUnbroken
    <3>3. Len(todo) <= len /\ n = len - Len(todo) + 1
      <4> HIDE DEF todo
      <4>1. 1 \in 1..Len(todo)
        BY <2>3
      <4> QED
        BY <2>3, <3>2, <4>1 DEF CvBehind
    <3>4. cvRelays'[1].todo = rest
      BY <1>0, <2>4, <2>5, <3>1
    <3> HIDE DEF todo, rest, n
    <3> DEFINE a == len - Len(todo)
    <3>5. a \in Nat /\ n = a + 1 /\ a + 1 <= len /\ len - Len(rest) = a + 1
      BY <1>0, <2>3, <3>3
    <3> HIDE DEF a
    <3>6. CvShows(ApplyEvent(cvView, cvLog[a + 1], a + 1), cvLog, a + 1)
      <4>1. CvShows(cvView, cvLog, a)
        BY <3>2 DEF a
      <4> QED
        BY <1>0, <3>5, <4>1, CvShowsNext
    <3>7. cvView' = ApplyEvent(cvView, cvLog[a + 1], a + 1) /\ cvLog' = cvLog /\ Len(cvLog') = len
      BY <2>1, <3>5
    <3>8. Len(cvLog') - Len(cvRelays'[1].todo) = a + 1
      BY <3>4, <3>5, <3>7
    <3> QED
      BY <3>6, <3>7, <3>8
  <2> QED
    BY <1>0, <2>1, <2>5, <2>6, <2>7, <2>8 DEF CvShowInv
<1> QED
  BY <1>1, <1>2 DEF CvRelayStep

LEMMA CvShowRegister == ASSUME CvInv, CvShowInv, CvRegister PROVE CvShowInv'
<1>1. PICK same \in BOOLEAN :
        cvRelays' = Append([r \in DOMAIN cvRelays |-> [cvRelays[r] EXCEPT !.open = cvRelays[r].open /\ same]],
                           [todo |-> << >>, open |-> TRUE, up |-> TRUE, from |-> Len(cvLog)])
  BY DEF CvRegister
<1>2. UNCHANGED <<cvServer, cvLog, cvView>>
  BY DEF CvRegister
<1> DEFINE kept == [r \in DOMAIN cvRelays |-> [cvRelays[r] EXCEPT !.open = cvRelays[r].open /\ same]]
           new == [todo |-> << >>, open |-> TRUE, up |-> TRUE, from |-> Len(cvLog)]
           had == Len(cvRelays)
           S == {kept[r] : r \in 1..had} \cup {new}
<1>3. had \in Nat /\ DOMAIN cvRelays = 1..had /\ \A r \in 1..had : cvRelays[r] \in CvRelayRecs
  BY LenProperties, ElementOfSeq DEF CvInv, CvTypes
<1>4. new.todo = << >> /\ new.from = Len(cvLog)
  OBVIOUS
<1>5. \A r \in 1..had : kept[r].todo = cvRelays[r].todo
  BY <1>3 DEF CvRelayRecs
<1>6. kept \in Seq(S) /\ Len(kept) = had
  <2>1. kept \in [1..had -> S]
    BY <1>3
  <2> HIDE DEF kept, new, S, had
  <2> QED
    BY <1>3, <2>1, FunctionIsSeq
<1>7. new \in S
  OBVIOUS
<1> HIDE DEF kept, new, S
<1>8. /\ Len(cvRelays') = had + 1 /\ cvRelays'[had + 1] = new /\ \A r \in 1..had : cvRelays'[r] = kept[r]
      /\ \A r \in 1..(had + 1) : r \in 1..had \/ r = had + 1
  BY <1>1, <1>3, <1>6, <1>7, AppendProperties DEF kept, new
<1>9. \A r \in 1..Len(cvRelays') : cvRelays'[r].todo \in Seq(1..Len(cvLog'))
  <2> DEFINE P == 1..Len(cvLog)
  <2>1. \A r \in 1..had : cvRelays[r].todo \in Seq(P)
    BY DEF CvShowInv
  <2>2. 1..Len(cvLog') = P
    BY <1>2
  <2> HIDE DEF P, had
  <2>3. << >> \in Seq(P)
    OBVIOUS
  <2> QED
    BY <1>4, <1>5, <1>8, <2>1, <2>2, <2>3
<1>10. ASSUME CvUnbroken' PROVE CvShows(cvView', cvLog', Len(cvLog') - Len(cvRelays'[1].todo))
  <2>1. had = 0
    <3>1. had + 1 = 1
      BY <1>8, <1>10 DEF CvUnbroken
    <3> HIDE DEF had
    <3> QED
      BY <1>3, <3>1
  <2>2. cvRelays'[1] = new
    BY <1>8, <2>1
  <2>3. Len(cvLog) = 0
    BY <1>4, <1>10, <2>2 DEF CvUnbroken
  <2>4. CvShows(cvView, cvLog, 0)
    BY <2>1 DEF CvShowInv
  <2> QED
    BY <1>2, <1>4, <2>2, <2>3, <2>4
<1>11. Len(cvRelays') # 0
  BY <1>3, <1>8
<1> QED
  BY <1>2, <1>9, <1>10, <1>11 DEF CvShowInv

LEMMA CvShowKeeps == CvInv /\ CvShowInv /\ [CvNext]_cvVars => CvShowInv'
<1> SUFFICES ASSUME CvInv, CvShowInv, [CvNext]_cvVars PROVE CvShowInv'
  OBVIOUS
<1>1. CASE UNCHANGED cvVars
  BY <1>1 DEF CvShowInv, CvUnbroken, cvVars
<1>2. CASE CvInterrupt \/ CvProviderDies
  <2>1. UNCHANGED <<cvLog, cvRelays, cvView>> /\ cvServer'.spawned = cvServer.spawned
    BY <1>2, CvSilentStep
  <2> QED
    BY <2>1 DEF CvShowInv, CvUnbroken
<1> QED
  BY <1>1, <1>2, CvPublishes, CvShowPublish, CvShowRegister, CvShowRelay DEF CvNext

-----------------------------------------------------------------------------
(* The groups of any items.                                                   *)
CvGroups == [log : BOOLEAN, from : Nat, to : Nat]
CvGroupsOf(items, gs, n) ==
  /\ gs \in Seq(CvGroups)
  /\ \A g \in 1..Len(gs) :
       /\ gs[g].from = IF g = 1 THEN 1 ELSE gs[g - 1].to + 1
       /\ gs[g].from <= gs[g].to
       /\ \A i \in gs[g].from..gs[g].to : (items[i].kind \in WorkKinds) <=> gs[g].log
       /\ ~gs[g].log => gs[g].from = gs[g].to
       /\ g # 1 => ~(gs[g].log /\ gs[g - 1].log)
  /\ IF gs = << >> THEN n = 0 ELSE Last(gs).to = n

\* One item more joins the last group, or starts one.
CvGrouping(items, gs, n) ==
  IF items[n].kind \in WorkKinds /\ gs # << >> /\ Last(gs).log
    THEN [gs EXCEPT ![Len(gs)] = [log |-> TRUE, from |-> gs[Len(gs)].from, to |-> n]]
    ELSE Append(gs, [log |-> items[n].kind \in WorkKinds, from |-> n, to |-> n])

LEMMA CvGroupingTyped ==
  ASSUME NEW items, NEW gs \in Seq(CvGroups), NEW n \in Nat
  PROVE  CvGrouping(items, gs, n) \in Seq(CvGroups)
<1>1. CASE items[n].kind \in WorkKinds /\ gs # << >> /\ Last(gs).log
  <2> DEFINE len == Len(gs)
             new == [log |-> TRUE, from |-> gs[len].from, to |-> n]
  <2>1. len \in 1..len
    BY <1>1, EmptySeq, LenProperties
  <2>2. new \in CvGroups
    <3>1. gs[len] \in CvGroups
      BY <2>1, ElementOfSeq
    <3> DEFINE old == gs[len]
    <3> HIDE DEF old
    <3> QED
      BY <3>1 DEF CvGroups, old
  <2>3. CvGrouping(items, gs, n) = [gs EXCEPT ![len] = new]
    BY <1>1 DEF CvGrouping
  <2> HIDE DEF new, len
  <2> QED
    BY <2>1, <2>2, <2>3, ExceptSeq DEF len
<1>2. CASE ~(items[n].kind \in WorkKinds /\ gs # << >> /\ Last(gs).log)
  <2> DEFINE new == [log |-> items[n].kind \in WorkKinds, from |-> n, to |-> n]
  <2>1. new \in CvGroups
    BY DEF CvGroups
  <2>2. CvGrouping(items, gs, n) = Append(gs, new)
    BY <1>2 DEF CvGrouping
  <2> HIDE DEF new
  <2> QED
    BY <2>1, <2>2, AppendProperties
<1> QED
  BY <1>1, <1>2

LEMMA CvGroupingKeeps ==
  ASSUME NEW items, NEW n \in Nat, NEW gs, CvGroupsOf(items, gs, n)
  PROVE  CvGroupsOf(items, CvGrouping(items, gs, n + 1), n + 1)
<1> DEFINE m == n + 1
           new == CvGrouping(items, gs, m)
           len == Len(gs)
           work == items[m].kind \in WorkKinds
<1>0. /\ gs \in Seq(CvGroups) /\ len \in Nat /\ m \in Nat /\ m = n + 1 /\ \A g \in 1..len : gs[g] \in CvGroups
      /\ gs # << >> => len \in 1..len /\ Last(gs) = gs[len] /\ gs[len].to = n
      /\ gs = << >> => n = 0 /\ len = 0
  BY EmptySeq, LenProperties, ElementOfSeq DEF CvGroupsOf, Last
<1>1. \A g \in 1..len :
        /\ gs[g].from = IF g = 1 THEN 1 ELSE gs[g - 1].to + 1
        /\ gs[g].from <= gs[g].to /\ gs[g].from \in Nat /\ gs[g].to \in Nat
        /\ \A i \in gs[g].from..gs[g].to : (items[i].kind \in WorkKinds) <=> gs[g].log
        /\ ~gs[g].log => gs[g].from = gs[g].to
        /\ g # 1 => ~(gs[g].log /\ gs[g - 1].log)
  BY <1>0 DEF CvGroupsOf, CvGroups
<1>2. new \in Seq(CvGroups)
  BY <1>0, CvGroupingTyped
<1>3. CASE work /\ gs # << >> /\ Last(gs).log
  <2> DEFINE x == [log |-> TRUE, from |-> gs[len].from, to |-> m]
  <2>1. new = [gs EXCEPT ![len] = x]
    BY <1>3 DEF CvGrouping
  <2>2. x.log = TRUE /\ x.from = gs[len].from /\ x.to = m
    OBVIOUS
  <2> HIDE DEF x, m, new, work, len
  <2>3. /\ Len(new) = len /\ \A g \in 1..len : new[g] = IF g = len THEN x ELSE gs[g]
    <3>1. Len(gs) = len
      BY DEF len
    <3> QED
      BY <1>0, <2>1, <3>1
  <2>4. len \in 1..len /\ Last(new) = x /\ new # << >> /\ gs[len].log /\ gs[len].to = n
    BY <1>0, <1>2, <1>3, <2>3, EmptySeq DEF Last
  <2>5. ASSUME NEW g \in 1..Len(new)
        PROVE  /\ new[g].from = IF g = 1 THEN 1 ELSE new[g - 1].to + 1
               /\ new[g].from <= new[g].to
               /\ \A i \in new[g].from..new[g].to : (items[i].kind \in WorkKinds) <=> new[g].log
               /\ ~new[g].log => new[g].from = new[g].to
               /\ g # 1 => ~(new[g].log /\ new[g - 1].log)
    <3>1. g \in 1..len /\ (g # 1 => g - 1 \in 1..len /\ g - 1 # len)
      BY <1>0, <2>3
    <3>2. g # 1 => new[g - 1] = gs[g - 1]
      BY <2>3, <3>1
    <3>3. CASE g = len
      <4>1. new[g] = x
        BY <2>3, <3>1, <3>3
      <4>2. gs[len].from \in Nat /\ gs[len].from <= n
        BY <1>1, <2>4
      <4>3. \A i \in x.from..m : i \in gs[len].from..gs[len].to \/ i = m
        BY <1>0, <2>2, <2>4, <4>2
      <4>4. \A i \in x.from..m : items[i].kind \in WorkKinds
        BY <1>1, <1>3, <2>4, <4>3 DEF work
      <4>5. x.from <= x.to
        BY <1>0, <2>2, <4>2
      <4>6. x.from = IF g = 1 THEN 1 ELSE new[g - 1].to + 1
        BY <1>1, <2>2, <3>1, <3>2, <3>3
      <4>7. g # 1 => ~new[g - 1].log
        BY <1>1, <2>4, <3>1, <3>2, <3>3
      <4> QED
        BY <2>2, <4>1, <4>4, <4>5, <4>6, <4>7
    <3>4. CASE g # len
      <4>1. new[g] = gs[g]
        BY <2>3, <3>1, <3>4
      <4> QED
        BY <1>1, <3>1, <3>2, <4>1
    <3> QED
      BY <3>3, <3>4
  <2> QED
    BY <1>2, <2>2, <2>4, <2>5 DEF CvGroupsOf, new, m
<1>4. CASE ~(work /\ gs # << >> /\ Last(gs).log)
  <2> DEFINE x == [log |-> work, from |-> m, to |-> m]
             last == len + 1
  <2>1. new = Append(gs, x) /\ x \in CvGroups
    BY <1>0, <1>4 DEF CvGrouping, CvGroups
  <2>2. (x.log <=> work) /\ x.from = m /\ x.to = m
    OBVIOUS
  <2> HIDE DEF x, m, new, work
  <2>3. Len(new) = last /\ new[last] = x /\ \A g \in 1..len : new[g] = gs[g]
    BY <1>0, <2>1, AppendProperties
  <2> HIDE DEF len
  <2>4. last \in 1..last /\ Last(new) = x /\ new # << >>
    BY <1>0, <1>2, <2>3, EmptySeq DEF Last
  <2>5. ASSUME NEW g \in 1..Len(new)
        PROVE  /\ new[g].from = IF g = 1 THEN 1 ELSE new[g - 1].to + 1
               /\ new[g].from <= new[g].to
               /\ \A i \in new[g].from..new[g].to : (items[i].kind \in WorkKinds) <=> new[g].log
               /\ ~new[g].log => new[g].from = new[g].to
               /\ g # 1 => ~(new[g].log /\ new[g - 1].log)
    <3>1. (g \in 1..len \/ g = last) /\ (g # 1 => g - 1 \in 1..len)
      BY <1>0, <2>3
    <3>2. g # 1 => new[g - 1] = gs[g - 1]
      BY <2>3, <3>1
    <3>3. CASE g = last
      <4>1. new[g] = x
        BY <2>3, <3>3
      <4>2. x.from = IF g = 1 THEN 1 ELSE new[g - 1].to + 1
        <5>1. CASE g = 1
          <6>1. gs = << >>
            BY <1>0, <3>3, <5>1
          <6> QED
            BY <1>0, <2>2, <5>1, <6>1
        <5>2. CASE g # 1
          <6>1. g - 1 = len /\ gs # << >>
            BY <1>0, <3>3, <5>2
          <6> QED
            BY <1>0, <2>2, <3>2, <5>2, <6>1
        <5> QED
          BY <5>1, <5>2
      <4>3. \A i \in x.from..x.to : i = m
        BY <1>0, <2>2
      <4>4. \A i \in x.from..x.to : (items[i].kind \in WorkKinds) <=> x.log
        BY <2>2, <4>3 DEF work
      <4>5. g # 1 => ~(x.log /\ new[g - 1].log)
        <5>1. ASSUME g # 1 PROVE g - 1 = len /\ gs # << >>
          BY <1>0, <3>3, <5>1
        <5> QED
          BY <1>0, <1>4, <2>2, <3>2, <5>1
      <4>6. x.from <= x.to /\ x.from = x.to
        BY <1>0, <2>2
      <4> QED
        BY <4>1, <4>2, <4>4, <4>5, <4>6
    <3>4. CASE g # last
      <4>1. g \in 1..len /\ new[g] = gs[g]
        BY <2>3, <3>1, <3>4
      <4> QED
        BY <1>1, <3>1, <3>2, <4>1
    <3> QED
      BY <3>3, <3>4
  <2> QED
    BY <1>2, <2>2, <2>4, <2>5 DEF CvGroupsOf, new, m
<1> QED
  BY <1>3, <1>4

LEMMA CvGrouped ==
  ASSUME NEW items, Len(items) \in Nat
  PROVE  CvGroupsOf(items, Grouped(items), Len(items))
<1> DEFINE len == Len(items)
           groups[n \in 0..len] ==
             IF n = 0 THEN << >>
             ELSE IF items[n].kind \in WorkKinds /\ groups[n - 1] # << >> /\ Last(groups[n - 1]).log
             THEN [groups[n - 1] EXCEPT ![Len(groups[n - 1])] = [log |-> TRUE, from |-> @.from, to |-> n]]
             ELSE Append(groups[n - 1], [log |-> items[n].kind \in WorkKinds, from |-> n, to |-> n])
           step == [x \in (1..len) \X Seq(CvGroups) |-> CvGrouping(items, x[2], x[1])]
           f0 == CHOOSE f : f = [n \in 0..len |-> IF n = 0 THEN << >> ELSE CvGrouping(items, f[n - 1], n)]
<1>1. \E f \in [0..len -> Seq(CvGroups)] : Steps(f, len, << >>, step)
  <2>1. step \in [((1..len) \X Seq(CvGroups)) -> Seq(CvGroups)]
    <3>1. \A x \in (1..len) \X Seq(CvGroups) : CvGrouping(items, x[2], x[1]) \in Seq(CvGroups)
      BY CvGroupingTyped
    <3> QED
      BY <3>1
  <2>2. << >> \in Seq(CvGroups) /\ len \in Nat
    OBVIOUS
  <2> DEFINE S == Seq(CvGroups)
             start == << >>
  <2> HIDE DEF step, groups, f0, len, S, start
  <2>3. start \in S /\ step \in [((1..len) \X S) -> S]
    BY <2>1, <2>2 DEF S, start
  <2>4. \E f \in [0..len -> S] : Steps(f, len, start, step)
    BY <2>2, <2>3, Recursion
  <2> QED
    BY <2>4 DEF S, start
<1>2. PICK f \in [0..len -> Seq(CvGroups)] : f = [n \in 0..len |-> IF n = 0 THEN << >> ELSE CvGrouping(items, f[n - 1], n)]
  <2>1. PICK f \in [0..len -> Seq(CvGroups)] : Steps(f, len, << >>, step)
    <3> HIDE DEF groups, step, f0
    <3> QED
      BY <1>1
  <2>2. ASSUME NEW n \in 0..len, n # 0 PROVE step[<<n, f[n - 1]>>] = CvGrouping(items, f[n - 1], n)
    <3>1. n \in 1..len /\ f[n - 1] \in Seq(CvGroups)
      BY <2>2
    <3> QED
      BY <3>1
  <2> HIDE DEF step, groups, f0
  <2>3. f = [n \in 0..len |-> IF n = 0 THEN << >> ELSE CvGrouping(items, f[n - 1], n)]
    BY <2>1, <2>2 DEF Steps
  <2> QED
    BY <2>3
<1>3. f0 = [n \in 0..len |-> IF n = 0 THEN << >> ELSE CvGrouping(items, f0[n - 1], n)]
  BY <1>2
<1>4. groups = f0
  BY DEF CvGrouping
<1>5. Grouped(items) = f0[len]
  BY <1>4 DEF Grouped
<1> HIDE DEF f0, groups, step
<1> DEFINE P == {n \in 0..len : CvGroupsOf(items, f0[n], n)}
<1>6. 0 \in P
  <2>1. f0[0] = << >> /\ 0 \in 0..len
    BY <1>3
  <2>2. << >> \in Seq(CvGroups) /\ \A g \in 1..Len(<< >>) : FALSE
    OBVIOUS
  <2>3. CvGroupsOf(items, << >>, 0)
    BY <2>2 DEF CvGroupsOf
  <2> QED
    BY <2>1, <2>3
<1>7. \A n \in 0..(len - 1) : n \in P => n + 1 \in P
  <2> SUFFICES ASSUME NEW n \in 0..(len - 1), CvGroupsOf(items, f0[n], n) PROVE CvGroupsOf(items, f0[n + 1], n + 1)
    OBVIOUS
  <2>1. n + 1 \in 0..len /\ n + 1 # 0 /\ (n + 1) - 1 = n /\ n \in Nat
    OBVIOUS
  <2>2. f0[n + 1] = CvGrouping(items, f0[n], n + 1)
    BY <1>3, <2>1
  <2> QED
    BY <2>1, <2>2, CvGroupingKeeps
<1>8. len \in P
  <2> HIDE DEF P, len
  <2>1. len \in Nat
    BY DEF len
  <2>2. \A n \in 0..len : n \in P
    BY <1>6, <1>7, <2>1, Upto
  <2> QED
    BY <2>1, <2>2
<1> QED
  BY <1>5, <1>8

-----------------------------------------------------------------------------
(* The invariants as CvShowsAll puts them.                                    *)
LEMMA CvTextShown ==
  ASSUME NEW a \in Nat, cvView.items \in Seq(CvItemRecs), CvTexts(cvView.items, cvLog, a),
         DOMAIN CvApplied = 1..a, \A n \in 1..a : CvApplied[n] = cvLog[n]
  PROVE  CvTextInOrder
<1> DEFINE all == cvView.items
           applied == CvApplied
<1>1. all \in Seq(CvItemRecs) /\ DOMAIN all = 1..Len(all) /\ \A k \in 1..Len(all) : all[k] \in CvItemRecs
  BY LenProperties, ElementOfSeq
<1>2. \A k \in 1..Len(all) : DOMAIN all[k].text = 1..Len(all[k].text)
  BY <1>1, LenProperties DEF CvItemRecs
<1>3. CvAllShown(all, cvLog, a) /\ CvOnlyShown(all, cvLog, a) /\ CvInOrder(all)
  BY DEF CvTexts
<1>4. DOMAIN applied = 1..a /\ \A n \in 1..a : applied[n] = cvLog[n]
  OBVIOUS
<1> SUFFICES ASSUME NEW i \in CvItems, NEW kind \in {"text", "reasoning"}
             PROVE  LET came  == OfKind(applied, kind, i)
                        items == OfKind(all, kind, i)
                        text  == [k \in items |-> all[k].text]
                    IN /\ \A n \in came : \E k \in items : n \in ToSet(text[k])
                       /\ \A k \in items : ToSet(text[k]) \subseteq came
                       /\ \A k, m \in items : \A h \in DOMAIN text[k], j \in DOMAIN text[m] :
                            k < m \/ (k = m /\ h < j) => text[k][h] < text[m][j]
  BY DEF CvTextInOrder
<1> HIDE DEF all, applied
<1> DEFINE came == OfKind(applied, kind, i)
           items == OfKind(all, kind, i)
           text == [k \in items |-> all[k].text]
<1>5. \A n : n \in came <=> n \in 1..a /\ cvLog[n].kind = kind /\ cvLog[n].id = i
  BY <1>4 DEF OfKind
<1>6. \A k : k \in items <=> k \in 1..Len(all) /\ all[k].kind = kind /\ all[k].id = i
  BY <1>1 DEF OfKind
<1>7. \A k \in items : text[k] = all[k].text /\ DOMAIN text[k] = 1..Len(all[k].text)
  BY <1>2, <1>6
<1>8. kind \in TextKinds
  BY DEF TextKinds
<1> HIDE DEF came, items, text
<1>9. ASSUME NEW n \in came PROVE \E k \in items : n \in ToSet(text[k])
  <2>1. PICK k \in 1..Len(all) : /\ all[k].kind = kind /\ all[k].id = i
                                 /\ \E j \in 1..Len(all[k].text) : all[k].text[j] = n
    BY <1>3, <1>5, <1>8 DEF CvAllShown
  <2>2. k \in items
    BY <1>6, <2>1
  <2>3. n \in ToSet(text[k])
    BY <1>7, <2>1, <2>2 DEF ToSet
  <2> QED
    BY <2>2, <2>3
<1>10. ASSUME NEW k \in items PROVE ToSet(text[k]) \subseteq came
  <2>1. \A j \in 1..Len(all[k].text) :
          all[k].text[j] \in 1..a /\ cvLog[all[k].text[j]].kind = kind /\ cvLog[all[k].text[j]].id = i
    BY <1>3, <1>6, <1>8 DEF CvOnlyShown
  <2>2. \A j \in DOMAIN text[k] : text[k][j] \in came
    BY <1>5, <1>7, <2>1
  <2> QED
    BY <2>2 DEF ToSet
<1>11. ASSUME NEW k \in items, NEW m \in items, NEW h \in DOMAIN text[k], NEW j \in DOMAIN text[m],
             k < m \/ (k = m /\ h < j)
      PROVE  text[k][h] < text[m][j]
  <2>1. /\ k \in 1..Len(all) /\ m \in 1..Len(all) /\ all[k].kind \in TextKinds /\ all[m].kind \in TextKinds
        /\ h \in 1..Len(all[k].text) /\ j \in 1..Len(all[m].text)
    BY <1>6, <1>7, <1>8
  <2>2. all[k].text[h] < all[m].text[j]
    BY <1>3, <1>11, <2>1 DEF CvInOrder
  <2> QED
    BY <1>7, <2>2
<1> QED
  BY <1>9, <1>10, <1>11 DEF came, items, text

LEMMA CvNodeTells ==
  ASSUME NEW a \in Nat, DOMAIN CvApplied = 1..a, \A n \in 1..a : CvApplied[n] = cvLog[n]
  PROVE  NodeAgents(CvApplied) = CvNode(cvLog, a)
<1> DEFINE applied == CvApplied
<1>1. DOMAIN applied = 1..a /\ \A n \in 1..a : applied[n] = cvLog[n]
  OBVIOUS
<1> HIDE DEF applied
<1>2. ASSUME NEW kind, NEW id PROVE LastOfKind(applied, kind, id) = LastUpto(cvLog, a, kind, id)
  <2>1. OfKind(applied, kind, id) = {n \in 1..a : cvLog[n].kind = kind /\ cvLog[n].id = id}
    BY <1>1 DEF OfKind
  <2> QED
    BY <2>1 DEF LastOfKind, LastUpto
<1>3. ASSUME NEW ag \in CvAgents PROVE NodeAgents(applied)[ag] = CvAgentNow(cvLog, a, ag)
  <2>1. LastUpto(cvLog, a, "spawned", ag) # 0 => LastUpto(cvLog, a, "spawned", ag) \in 1..a
    BY CvLastPlace
  <2> QED
    BY <1>1, <1>2, <2>1 DEF NodeAgents, CvAgentNow
<1>4. NodeAgents(applied) = [ag \in CvAgents |-> NodeAgents(applied)[ag]]
  BY DEF NodeAgents
<1>5. NodeAgents(applied) = [ag \in CvAgents |-> CvAgentNow(cvLog, a, ag)]
  BY <1>3, <1>4
<1> QED
  BY <1>5 DEF CvNode, applied

LEMMA CvInTreeIsChild ==
  ASSUME NEW agents PROVE InTree(agents) \subseteq Children(agents, CvAgents \cup {NoOne})
<1> DEFINE T == Children(agents, CvAgents \cup {NoOne})
<1>1. T \in SUBSET CvAgents /\ Children(agents, T \cup {NoOne}) \subseteq T
  BY DEF Children
<1> HIDE DEF T
<1> QED
  BY <1>1 DEF InTree, T

-----------------------------------------------------------------------------
(* For any events, items, agents and registrations: over an unbroken stream   *)
(* all text is shown once and in its order, whatever comes between its        *)
(* deltas, every agent that was spawned is in the tree and is the agent the   *)
(* node tells of, and its row in the timeline says the same; whatever the     *)
(* stream, the groups hold all items in their order and no two work logs are  *)
(* next to each other (projections.rs, apply_event, grouped_items and         *)
(* subagent_tree; router.rs, handle_subagent_tree).                           *)
THEOREM CvShowsEverything == CvSpec => []CvShowsAll
<1>1. CvInit => CvInv /\ CvShowInv
  BY CvStarts, CvShowStarts
<1>2. CvInv /\ CvShowInv /\ [CvNext]_cvVars => (CvInv /\ CvShowInv)'
  BY CvStepKeeps, CvShowKeeps
<1>3. ASSUME CvInv, CvShowInv PROVE CvShowsAll
  <2> DEFINE spawned == {cvLog[n].id : n \in {k \in DOMAIN CvApplied : cvLog[k].kind = "spawned"}}
             groups == Grouped(cvView.items)
             items == cvView.items
  \* The groups.
  <2>1. CvGroupsOf(items, groups, Len(items)) /\ Len(items) \in Nat /\ DOMAIN groups = 1..Len(groups)
    <3>1. items \in Seq(CvItemRecs)
      BY <1>3 DEF CvShowInv
    <3> HIDE DEF items
    <3>2. Len(items) \in Nat
      BY <3>1, LenProperties
    <3>3. CvGroupsOf(items, Grouped(items), Len(items))
      BY <3>2, CvGrouped
    <3>4. Grouped(items) \in Seq(CvGroups)
      BY <3>3 DEF CvGroupsOf
    <3> QED
      BY <3>2, <3>3, <3>4, LenProperties DEF items
  <2>2. \A g \in DOMAIN groups :
          /\ groups[g].from = IF g = 1 THEN 1 ELSE groups[g - 1].to + 1
          /\ groups[g].from <= groups[g].to
          /\ \A i \in groups[g].from..groups[g].to : (items[i].kind \in WorkKinds) <=> groups[g].log
          /\ ~groups[g].log => groups[g].from = groups[g].to
          /\ g # 1 => ~(groups[g].log /\ groups[g - 1].log)
    <3> HIDE DEF groups, items
    <3> QED
      BY <2>1 DEF CvGroupsOf
  <2>3. IF groups = << >> THEN items = << >> ELSE Last(groups).to = Len(items)
    <3> HIDE DEF groups
    <3>1. items \in Seq(CvItemRecs)
      BY <1>3 DEF CvShowInv
    <3> HIDE DEF items
    <3> QED
      BY <2>1, <3>1, EmptySeq, LenProperties DEF CvGroupsOf
  \* The unbroken stream.
  <2>4. ASSUME CvUnbroken
        PROVE  /\ CvTextInOrder /\ InTree(cvView.agents) = spawned /\ cvView.agents = NodeAgents(CvApplied)
               /\ \A a \in spawned :
                    LET shown == items[LastOfKind(items, "spawned", a)]
                    IN /\ (cvView.agents[a].st = "finished") <=> (shown.st = "finished")
                       /\ cvView.agents[a].activity = shown.text
    <3> DEFINE len == Len(cvLog)
               a == len - Len(cvRelays[1].todo)
    <3>1. CvShows(cvView, cvLog, a) /\ CvLogSound(cvLog, cvServer.spawned) /\ cvLog \in Seq(CvEvents) /\ len \in Nat
      BY <1>3, <2>4, LenProperties DEF CvShowInv, CvInv, CvTypes
    <3>2. a \in 0..len
      <4> DEFINE behind == Len(cvRelays[1].todo)
      <4>1. cvRelays[1] \in CvRelayRecs
        BY <1>3, <2>4, ElementOfSeq DEF CvInv, CvTypes, CvUnbroken
      <4>2. behind \in Nat /\ behind <= len
        BY <1>3, <2>4, <4>1, LenProperties DEF CvInv, CvFollows, CvUnbroken, CvBehind, CvRelayRecs
      <4> HIDE DEF behind, len
      <4>3. len - behind \in 0..len
        BY <3>1, <4>2 DEF len
      <4> QED
        BY <4>3 DEF behind
    <3>3. CvApplied = SubSeq(cvLog, 1, a)
      BY DEF CvApplied
    <3> HIDE DEF len, a
    <3>4. DOMAIN CvApplied = 1..a /\ \A n \in 1..a : CvApplied[n] = cvLog[n]
      <4>1. \A i \in 1..a : cvLog[i] \in CvEvents
        BY <3>1, <3>2, ElementOfSeq DEF len
      <4> DEFINE sub == SubSeq(cvLog, 1, a)
      <4>2. sub \in Seq(CvEvents) /\ Len(sub) = a /\ \A n \in 1..a : sub[n] = cvLog[n]
        BY <3>1, <3>2, <4>1, SubSeqProperties
      <4>3. DOMAIN sub = 1..a
        <5> HIDE DEF sub
        <5> QED
          BY <4>2, LenProperties
      <4> HIDE DEF sub
      <4>4. CvApplied = sub
        BY <3>3 DEF sub
      <4> QED
        BY <4>2, <4>3, <4>4
    <3>5. spawned = {cvLog[n].id : n \in {k \in 1..a : cvLog[k].kind = "spawned"}}
      BY <3>4
    <3>6. InTree(cvView.agents) = spawned
      BY <3>1, <3>2, <3>5, CvTree DEF CvShows, len
    <3>7. CvTextInOrder
      BY <1>3, <3>1, <3>2, <3>4, CvTextShown DEF CvShowInv, CvShows, len
    <3>8. cvView.agents = NodeAgents(CvApplied)
      BY <3>1, <3>2, <3>4, CvNodeTells DEF CvShows, len
    <3>9. ASSUME NEW ag \in spawned
          PROVE  /\ (cvView.agents[ag].st = "finished") <=> (items[LastOfKind(items, "spawned", ag)].st = "finished")
                 /\ cvView.agents[ag].activity = items[LastOfKind(items, "spawned", ag)].text
      <4>1. ag \in InTree(cvView.agents)
        BY <3>6
      <4>2. ag \in CvAgents
        BY <4>1 DEF InTree
      <4>3. cvView.agents[ag] # Unknown
        <5>1. ag \in Children(cvView.agents, CvAgents \cup {NoOne})
          BY <4>1, CvInTreeIsChild
        <5> QED
          BY <5>1 DEF Children, Unknown
      <4> QED
        BY <3>1, <4>2, <4>3 DEF CvShows, CvAlike
    <3> QED
      BY <3>6, <3>7, <3>8, <3>9
  <2> HIDE DEF spawned, groups, items
  <2> QED
    BY <2>2, <2>3, <2>4 DEF CvShowsAll, spawned, groups, items
<1> QED
  BY <1>1, <1>2, <1>3, PTL DEF CvSpec

-----------------------------------------------------------------------------
(* Text shown over frames.  A run of chunks that starts at byte a has no gap, *)
(* TqAt is how far its first k chunks reach, TqStarts where they start.       *)
TqChunks == [from : Int, to : Int]
TqAt(s, a, k) == IF k = 0 THEN a ELSE s[k].to
TqEnd(s, a) == TqAt(s, a, Len(s))
TqChain(s, a) == \A i \in 1..Len(s) : s[i].from = TqAt(s, a, i - 1) /\ s[i].from < s[i].to
TqStarts(s) == {s[i].from : i \in 1..Len(s)}
TqMid == TqEnd(tqShown, tqReleased)
TqRuns ==
  /\ tqBuffer \in Seq(TqChunks) /\ tqShown \in Seq(TqChunks)
  /\ tqPushed \in Int /\ tqReleased \in Int
  /\ TqChain(tqShown, tqReleased) /\ TqChain(tqBuffer, TqMid)
  /\ TqEnd(tqBuffer, TqMid) = tqPushed /\ tqPending = tqPushed - TqMid
  /\ tqInside \subseteq Int /\ \A x \in tqInside : x < tqPushed
  /\ (TqStarts(tqShown) \cup TqStarts(tqBuffer)) \cap tqInside = {}
TqInv == /\ ~tqPanicked => TqRuns
         /\ tqPanicked => tqInside # {}

LEMMA TqAtInt == ASSUME NEW s \in Seq(TqChunks), NEW a \in Int, NEW k \in 0..Len(s) PROVE TqAt(s, a, k) \in Int
<1>1. CASE k = 0
  BY <1>1 DEF TqAt
<1>2. CASE k # 0
  <2>1. s[k] \in TqChunks
    BY <1>2, ElementOfSeq, LenProperties
  <2> QED
    BY <1>2, <2>1 DEF TqAt, TqChunks
<1> QED
  BY <1>1, <1>2

(* What the sizes of a run's chunks add up to is how far it reaches.          *)
LEMMA TqSpan ==
  ASSUME NEW s \in Seq(TqChunks), NEW a \in Int, TqChain(s, a), NEW k \in 0..Len(s)
  PROVE  TqUpto(s, k) = TqAt(s, a, k) - a /\ TqAt(s, a, k) >= a
<1> DEFINE len == Len(s)
           step == [p \in (1..len) \X Int |-> p[2] + ChunkSize(s[p[1]])]
           size[n \in 0..Len(s)] == IF n = 0 THEN 0 ELSE size[n - 1] + ChunkSize(s[n])
<1>1. len \in Nat /\ TqUpto(s, k) = size[k]
  BY LenProperties DEF TqUpto
<1>2. \A n \in 1..len : s[n] \in TqChunks
  BY ElementOfSeq
<1>3. \A n \in 1..len, old \in Int : old + ChunkSize(s[n]) \in Int /\ step[<<n, old>>] = old + ChunkSize(s[n])
  BY <1>2 DEF ChunkSize, TqChunks
<1>4. step \in [((1..len) \X Int) -> Int]
  BY <1>3
<1> HIDE DEF step
<1>5. PICK f \in [0..len -> Int] : Steps(f, len, 0, step)
  <2>1. len \in Nat /\ 0 \in Int
    BY <1>1
  <2> HIDE DEF len, size
  <2> QED
    BY <1>4, <2>1, Recursion
<1>6. f = [n \in 0..len |-> IF n = 0 THEN 0 ELSE f[n - 1] + ChunkSize(s[n])]
  <2>1. \A n \in 0..len : n # 0 => step[<<n, f[n - 1]>>] = f[n - 1] + ChunkSize(s[n])
    <3> HIDE DEF len, size
    <3> TAKE n \in 0..len
    <3>1. n # 0 => n \in 1..len /\ n - 1 \in 0..len
      BY <1>1
    <3>2. n # 0 => f[n - 1] \in Int
      BY <3>1
    <3> QED
      BY <1>3, <3>1, <3>2
  <2>2. f = [n \in 0..len |-> IF n = 0 THEN 0 ELSE step[<<n, f[n - 1]>>]]
    BY <1>5 DEF Steps
  <2> QED
    BY <2>1, <2>2
<1>7. size = [n \in 0..len |-> IF n = 0 THEN 0 ELSE size[n - 1] + ChunkSize(s[n])]
  BY <1>6
<1> HIDE DEF size, len
<1>8. \A n \in 0..len : size[n] = TqAt(s, a, n) - a /\ TqAt(s, a, n) >= a
  <2> DEFINE P == {n \in 0..len : size[n] = TqAt(s, a, n) - a /\ TqAt(s, a, n) >= a}
  <2>1. 0 \in P
    BY <1>1, <1>7 DEF TqAt
  <2>2. ASSUME NEW n \in 0..(len - 1), n \in P PROVE n + 1 \in P
    <3>1. n + 1 \in 1..len /\ n + 1 \in 0..len /\ n + 1 # 0 /\ (n + 1) - 1 = n
      BY <1>1, <2>2
    <3>2. size[n + 1] = size[n] + ChunkSize(s[n + 1])
      BY <1>7, <3>1
    <3>3. s[n + 1].from = TqAt(s, a, n) /\ s[n + 1].from < s[n + 1].to /\ TqAt(s, a, n + 1) = s[n + 1].to
      BY <3>1 DEF TqChain, TqAt, len
    <3>4. s[n + 1].from \in Int /\ s[n + 1].to \in Int
      BY <1>2, <3>1 DEF TqChunks
    <3>5. size[n + 1] = TqAt(s, a, n + 1) - a /\ TqAt(s, a, n + 1) >= a
      <4>1. size[n] = TqAt(s, a, n) - a /\ TqAt(s, a, n) >= a
        BY <2>2
      <4>2. ChunkSize(s[n + 1]) = s[n + 1].to - s[n + 1].from
        BY DEF ChunkSize
      <4> DEFINE from == s[n + 1].from
                 to == s[n + 1].to
                 was == size[n]
                 now == size[n + 1]
                 at == TqAt(s, a, n)
                 next == TqAt(s, a, n + 1)
      <4>3. now = was + (to - from) /\ was = at - a /\ at >= a /\ from = at /\ from < to /\ next = to
        BY <3>2, <3>3, <4>1, <4>2
      <4>4. from \in Int /\ to \in Int
        BY <3>4
      <4> HIDE DEF from, to, was, now, at, next
      <4>5. now = next - a /\ next >= a
        BY <4>3, <4>4
      <4> QED
        BY <4>5 DEF now, next
    <3> QED
      BY <3>1, <3>5
  <2> HIDE DEF P
  <2>3. \A n \in 0..len : n \in P
    BY <1>1, <2>1, <2>2, Upto
  <2> QED
    BY <2>3 DEF P
<1> QED
  BY <1>1, <1>8 DEF len

(* Two runs of which the second starts where the first ends are one run.      *)
LEMMA TqJoined ==
  ASSUME NEW s \in Seq(TqChunks), NEW t \in Seq(TqChunks), NEW a \in Int,
         TqChain(s, a), TqChain(t, TqEnd(s, a))
  PROVE  s \o t \in Seq(TqChunks) /\ TqChain(s \o t, a) /\ TqEnd(s \o t, a) = TqEnd(t, TqEnd(s, a))
<1> DEFINE all == s \o t
           m == Len(s)
           n == Len(t)
<1>1. /\ all \in Seq(TqChunks) /\ Len(all) = m + n /\ m \in Nat /\ n \in Nat
      /\ \A i \in 1..(m + n) : all[i] = IF i <= m THEN s[i] ELSE t[i - m]
  BY ConcatProperties, LenProperties
<1> HIDE DEF all
<1>2. \A i \in 0..m : TqAt(all, a, i) = TqAt(s, a, i)
  BY <1>1 DEF TqAt
<1>3. \A i \in 0..n : TqAt(all, a, m + i) = TqAt(t, TqEnd(s, a), i)
  <2> TAKE i \in 0..n
  <2>1. CASE i = 0
    BY <1>1, <1>2, <2>1 DEF TqAt, TqEnd
  <2>2. CASE i # 0
    <3>1. m + i \in 1..(m + n) /\ ~(m + i <= m) /\ (m + i) - m = i /\ m + i # 0
      BY <1>1, <2>2
    <3> QED
      BY <1>1, <2>2, <3>1 DEF TqAt
  <2> QED
    BY <2>1, <2>2
<1>4. ASSUME NEW i \in 1..(m + n) PROVE all[i].from = TqAt(all, a, i - 1) /\ all[i].from < all[i].to
  <2>1. CASE i <= m
    <3>1. all[i] = s[i] /\ i \in 1..m /\ i - 1 \in 0..m
      BY <1>1, <1>4, <2>1
    <3>2. s[i].from = TqAt(s, a, i - 1) /\ s[i].from < s[i].to
      BY <3>1 DEF TqChain
    <3> QED
      BY <1>2, <3>1, <3>2
  <2>2. CASE ~(i <= m)
    <3> DEFINE j == i - m
    <3>1. all[i] = t[j] /\ j \in 1..n /\ j - 1 \in 0..n /\ i - 1 = m + (j - 1)
      BY <1>1, <1>4, <2>2
    <3> HIDE DEF j
    <3>2. t[j].from = TqAt(t, TqEnd(s, a), j - 1) /\ t[j].from < t[j].to
      BY <3>1 DEF TqChain
    <3> QED
      BY <1>3, <3>1, <3>2
  <2> QED
    BY <2>1, <2>2
<1>5. TqChain(all, a) /\ TqEnd(all, a) = TqEnd(t, TqEnd(s, a))
  <2>1. TqAt(all, a, m + n) = TqAt(t, TqEnd(s, a), n)
    BY <1>1, <1>3
  <2> QED
    BY <1>1, <1>4, <2>1 DEF TqChain, TqEnd
<1> QED
  BY <1>1, <1>5 DEF all

(* The chunks of two runs start where those of the one or the other do.       *)
LEMMA TqStartsJoined ==
  ASSUME NEW s \in Seq(TqChunks), NEW t \in Seq(TqChunks)
  PROVE  TqStarts(s \o t) = TqStarts(s) \cup TqStarts(t)
<1> DEFINE all == s \o t
           m == Len(s)
           n == Len(t)
<1>1. /\ Len(all) = m + n /\ m \in Nat /\ n \in Nat
      /\ \A i \in 1..m : all[i] = s[i]
      /\ \A i \in 1..n : all[m + i] = t[i]
  <2>1. /\ Len(all) = m + n
        /\ \A i \in 1..(m + n) : all[i] = IF i <= m THEN s[i] ELSE t[i - m]
    BY ConcatProperties
  <2>2. m \in Nat /\ n \in Nat
    BY LenProperties
  <2> HIDE DEF all, m, n
  <2>3. ASSUME NEW i \in 1..n PROVE all[m + i] = t[i]
    <3>1. m + i \in 1..(m + n) /\ ~(m + i <= m) /\ (m + i) - m = i
      BY <2>2
    <3> QED
      BY <2>1, <3>1
  <2> QED
    BY <2>1, <2>2, <2>3
<1> HIDE DEF all, m, n
<1>2. ASSUME NEW x \in TqStarts(all) PROVE x \in TqStarts(s) \cup TqStarts(t)
  <2>1. PICK i \in 1..(m + n) : x = all[i].from
    BY <1>1 DEF TqStarts
  <2>2. CASE i <= m
    BY <1>1, <2>1, <2>2 DEF TqStarts, m
  <2>3. CASE ~(i <= m)
    <3>1. i - m \in 1..n /\ m + (i - m) = i
      BY <1>1, <2>3
    <3>2. all[i] = t[i - m]
      BY <1>1, <3>1
    <3> QED
      BY <2>1, <3>1, <3>2 DEF TqStarts, n
  <2> QED
    BY <2>2, <2>3
<1>3. ASSUME NEW x \in TqStarts(s) \cup TqStarts(t) PROVE x \in TqStarts(all)
  <2>1. CASE x \in TqStarts(s)
    <3>1. PICK i \in 1..m : x = s[i].from
      BY <2>1 DEF TqStarts, m
    <3>2. i \in 1..(m + n) /\ all[i] = s[i]
      BY <1>1
    <3> QED
      BY <1>1, <3>1, <3>2 DEF TqStarts
  <2>2. CASE x \in TqStarts(t)
    <3>1. PICK i \in 1..n : x = t[i].from
      BY <2>2 DEF TqStarts, n
    <3>2. all[m + i] = t[i]
      BY <1>1, <3>1
    <3>3. i \in Nat /\ m + i \in 1..(m + n)
      <4>1. m \in Nat /\ n \in Nat /\ i \in 1..n
        BY <1>1, <3>1
      <4> QED
        BY <4>1
    <3> QED
      BY <1>1, <3>1, <3>2, <3>3 DEF TqStarts
  <2> QED
    BY <1>3, <2>1, <2>2
<1> QED
  BY <1>2, <1>3 DEF all

(* One frame: what is shown and what stays waiting are together what waited,  *)
(* no more than the budget is shown, and the only new start of a chunk is the *)
(* slice of one that was split.                                               *)
LEMMA TqDrains ==
  ASSUME NEW budget \in Nat, NEW a \in Int, tqBuffer \in Seq(TqChunks), TqChain(tqBuffer, a),
         NEW d, d = DrainFrame(budget)
  PROVE  /\ d.shown \in Seq(TqChunks) /\ d.buffer \in Seq(TqChunks)
         /\ TqChain(d.shown, a) /\ TqChain(d.buffer, TqEnd(d.shown, a))
         /\ TqEnd(d.buffer, TqEnd(d.shown, a)) = TqEnd(tqBuffer, a)
         /\ TqEnd(d.shown, a) <= a + budget
         /\ TqStarts(d.shown) \cup TqStarts(d.buffer) \subseteq TqStarts(tqBuffer) \cup SlicesAt(budget)
<1> DEFINE s == tqBuffer
           len == Len(s)
           K == {k \in 0..len : TqUpto(s, k) <= budget}
           k == WholeChunks(budget)
           left == budget - TqUpto(s, k)
           whole == SubSeq(s, 1, k)
<1>0. s \in Seq(TqChunks) /\ len \in Nat /\ TqChain(s, a) /\ \A i \in 1..len : s[i] \in TqChunks
  BY LenProperties, ElementOfSeq
<1>1. \A i \in 0..len : TqUpto(s, i) = TqAt(s, a, i) - a /\ TqAt(s, a, i) \in Int
  BY <1>0, TqSpan, TqAtInt
<1>2. k = Max(K) /\ 0 \in K /\ K \in SUBSET (0..len)
  <2>1. TqUpto(s, 0) = 0 /\ 0 \in 0..len
    BY <1>0, <1>1 DEF TqAt
  <2> QED
    BY <2>1 DEF WholeChunks
<1>3. k \in 0..len /\ TqUpto(s, k) <= budget /\ (k < len => TqUpto(s, k + 1) > budget)
  <2>1. k \in K /\ \A i \in K : i <= k
    <3> HIDE DEF K, k, len
    <3> QED
      BY <1>0, <1>2, Largest
  <2>2. k \in 0..len /\ TqUpto(s, k) <= budget
    BY <2>1
  <2>3. ASSUME k < len PROVE TqUpto(s, k + 1) > budget
    <3> HIDE DEF k
    <3>1. k + 1 \in 0..len /\ k + 1 \notin K
      BY <1>0, <2>1, <2>2, <2>3
    <3>2. TqUpto(s, k + 1) \in Int
      BY <1>1, <3>1
    <3> QED
      BY <3>1, <3>2
  <2> QED
    BY <2>2, <2>3
<1>4. d = IF k = len \/ left = 0
            THEN [shown |-> whole, buffer |-> SubSeq(s, k + 1, len)]
          ELSE [shown |-> Append(whole, [from |-> s[k + 1].from, to |-> s[k + 1].from + left]),
                buffer |-> <<[from |-> s[k + 1].from + left, to |-> s[k + 1].to]>> \o SubSeq(s, k + 2, len)]
  BY DEF DrainFrame
<1>10. SlicesAt(budget) = IF k = len \/ left = 0 THEN {} ELSE {s[k + 1].from + left}
  BY DEF SlicesAt
<1> HIDE DEF K, k, s
<1>5. \A i \in 1..len : s[i].from = TqAt(s, a, i - 1) /\ s[i].from < s[i].to /\ s[i].from \in Int /\ s[i].to \in Int
  BY <1>0 DEF TqChain, TqChunks
<1>6. /\ whole \in Seq(TqChunks) /\ TqChain(whole, a) /\ TqEnd(whole, a) = TqAt(s, a, k)
      /\ TqStarts(whole) \subseteq TqStarts(s)
  <2>1. whole \in Seq(TqChunks) /\ Len(whole) = k /\ \A i \in 1..k : whole[i] = s[i]
    <3>1. \A i \in 1..k : s[i] \in TqChunks
      BY <1>0, <1>3
    <3>2. /\ whole \in Seq(TqChunks) /\ Len(whole) = IF 1 <= k THEN k - 1 + 1 ELSE 0
          /\ \A i \in 1..(k - 1 + 1) : whole[i] = s[1 + i - 1]
      BY <1>3, <3>1, SubSeqProperties
    <3> QED
      BY <1>3, <3>2
  <2> HIDE DEF whole
  <2>2. \A i \in 0..k : TqAt(whole, a, i) = TqAt(s, a, i)
    BY <1>3, <2>1 DEF TqAt
  <2>3. ASSUME NEW i \in 1..k PROVE whole[i].from = TqAt(whole, a, i - 1) /\ whole[i].from < whole[i].to
    <3>1. i \in 1..len /\ i - 1 \in 0..k
      BY <1>0, <1>3
    <3> QED
      BY <1>5, <2>1, <2>2, <3>1
  <2>4. TqStarts(whole) \subseteq TqStarts(s)
    BY <1>0, <1>3, <2>1 DEF TqStarts
  <2>5. TqChain(whole, a) /\ TqEnd(whole, a) = TqAt(s, a, k)
    BY <1>3, <2>1, <2>2, <2>3 DEF TqChain, TqEnd
  <2> QED
    BY <2>1, <2>4, <2>5
\* What follows chunk j is a run that starts where j ends.
<1>7. ASSUME NEW j \in 0..len
      PROVE  LET rest == SubSeq(s, j + 1, len) IN
             /\ rest \in Seq(TqChunks) /\ TqChain(rest, TqAt(s, a, j)) /\ TqEnd(rest, TqAt(s, a, j)) = TqEnd(s, a)
             /\ TqStarts(rest) \subseteq TqStarts(s)
  <2> DEFINE rest == SubSeq(s, j + 1, len)
             b == TqAt(s, a, j)
  <2>1. rest \in Seq(TqChunks) /\ Len(rest) = len - j /\ \A i \in 1..(len - j) : rest[i] = s[j + i]
    <3>1. \A i \in (j + 1)..len : s[i] \in TqChunks
      BY <1>0
    <3>2. /\ rest \in Seq(TqChunks) /\ Len(rest) = IF j + 1 <= len THEN len - (j + 1) + 1 ELSE 0
          /\ \A i \in 1..(len - (j + 1) + 1) : rest[i] = s[(j + 1) + i - 1]
      BY <1>0, <3>1, SubSeqProperties
    <3> QED
      BY <1>0, <3>2
  <2> HIDE DEF rest
  <2>2. \A i \in 0..(len - j) : TqAt(rest, b, i) = TqAt(s, a, j + i)
    <3> TAKE i \in 0..(len - j)
    <3>1. CASE i = 0
      BY <1>0, <3>1 DEF TqAt
    <3>2. CASE i # 0
      BY <1>0, <2>1, <3>2 DEF TqAt
    <3> QED
      BY <3>1, <3>2
  <2>3. ASSUME NEW i \in 1..(len - j) PROVE rest[i].from = TqAt(rest, b, i - 1) /\ rest[i].from < rest[i].to
    <3>1. j + i \in 1..len /\ i - 1 \in 0..(len - j) /\ (j + i) - 1 = j + (i - 1)
      BY <1>0
    <3>2. s[j + i].from = TqAt(s, a, (j + i) - 1) /\ s[j + i].from < s[j + i].to
      BY <1>5, <3>1
    <3> QED
      BY <2>1, <2>2, <3>1, <3>2
  <2>4. TqAt(rest, b, len - j) = TqAt(s, a, len)
    <3>1. len - j \in 0..(len - j) /\ j + (len - j) = len
      BY <1>0
    <3> QED
      BY <2>2, <3>1
  <2>5. TqChain(rest, b) /\ TqEnd(rest, b) = TqEnd(s, a)
    <3> HIDE DEF b
    <3> QED
      BY <1>0, <2>1, <2>3, <2>4 DEF TqChain, TqEnd
  <2>6. ASSUME NEW i \in 1..(len - j) PROVE rest[i].from \in TqStarts(s)
    <3>1. j + i \in 1..len
      BY <1>0
    <3> QED
      BY <2>1, <3>1 DEF TqStarts
  <2>7. TqStarts(rest) \subseteq TqStarts(s)
    BY <2>1, <2>6 DEF TqStarts
  <2> QED
    BY <2>1, <2>5, <2>7 DEF rest
<1>8. CASE k = len \/ left = 0
  <2> DEFINE rest == SubSeq(s, k + 1, len)
  <2>1. d = [shown |-> whole, buffer |-> rest]
    BY <1>4, <1>8
  <2> HIDE DEF whole, rest
  <2>3. d.shown = whole /\ d.buffer = rest
    BY <2>1
  <2>2. TqEnd(whole, a) <= a + budget
    BY <1>1, <1>3, <1>6
  <2> QED
    BY <1>3, <1>6, <1>7, <2>3, <2>2 DEF s, rest
<1>9. CASE ~(k = len \/ left = 0)
  <2> DEFINE next == s[k + 1]
             head == [from |-> next.from, to |-> next.from + left]
             tail == [from |-> next.from + left, to |-> next.to]
             rest == SubSeq(s, k + 2, len)
             here == TqAt(s, a, k)
             shown == Append(whole, head)
             buffer == <<tail>> \o rest
             sliced == {next.from, next.from + left}
  <2>0. d = [shown |-> shown, buffer |-> buffer]
    BY <1>4, <1>9
  <2>1. d.shown = Append(whole, head) /\ d.buffer = <<tail>> \o rest
    <3>1. d.shown = shown /\ d.buffer = buffer
      <4> HIDE DEF shown, buffer
      <4> QED
        BY <2>0
    <3> QED
      BY <3>1
  <2>2. k + 1 \in 1..len /\ k + 1 \in 0..len /\ (k + 1) + 1 = k + 2 /\ (k + 1) - 1 = k /\ k < len /\ k + 1 # 0
    BY <1>0, <1>3, <1>9
  <2>3. /\ next.from = here /\ next.from < next.to /\ next.from \in Int /\ next.to \in Int
        /\ TqAt(s, a, k + 1) = next.to
    BY <1>5, <2>2 DEF TqAt
  <2>14. sliced \subseteq TqStarts(s) \cup SlicesAt(budget)
    BY <1>9, <1>10, <2>2 DEF TqStarts
  <2>4. left \in Int /\ 0 < left /\ left < next.to - next.from /\ here + left <= a + budget
    <3>1. TqUpto(s, k) = here - a /\ here \in Int /\ TqUpto(s, k + 1) = next.to - a /\ TqUpto(s, k + 1) > budget
      BY <1>1, <1>3, <2>2, <2>3
    <3> HIDE DEF next, here
    <3> QED
      BY <1>3, <1>9, <2>3, <3>1
  <2> HIDE DEF left
  <2>5. /\ head \in TqChunks /\ head.from = here /\ head.to = here + left /\ head.from < head.to
        /\ tail \in TqChunks /\ tail.from = here + left /\ tail.to = next.to /\ tail.from < tail.to
    <3> HIDE DEF next
    <3> QED
      BY <2>3, <2>4 DEF TqChunks
  <2>6. /\ rest \in Seq(TqChunks) /\ TqChain(rest, next.to) /\ TqEnd(rest, next.to) = TqEnd(s, a)
        /\ TqStarts(rest) \subseteq TqStarts(s)
    BY <1>7, <2>2, <2>3
  <2>15. head.from \in sliced /\ tail.from \in sliced
    BY <2>3, <2>5
  <2>7. here \in Int /\ next.to \in Int /\ TqEnd(whole, a) = here
    BY <1>6, <2>3
  <2> HIDE DEF head, tail, rest, next, here, whole, sliced
  \* One chunk is a run of its own.
  <2>8. ASSUME NEW c \in TqChunks, c.from < c.to 
        PROVE /\ <<c>> \in Seq(TqChunks) /\ TqChain(<<c>>, c.from) /\ TqEnd(<<c>>, c.from) = c.to
              /\ TqStarts(<<c>>) = {c.from}
    <3>1. <<c>> \in Seq(TqChunks) /\ Len(<<c>>) = 1 /\ <<c>>[1] = c
      OBVIOUS
    <3> DEFINE one == <<c>>
    <3> HIDE DEF one
    <3>2. Len(one) = 1 /\ one[1] = c
      BY <3>1 DEF one
    <3>3. TqChain(one, c.from) /\ TqEnd(one, c.from) = c.to
      BY <2>8, <3>2 DEF TqChain, TqEnd, TqAt
    <3>4. TqStarts(one) = {c.from}
      BY <3>2 DEF TqStarts
    <3> QED
      BY <3>1, <3>3, <3>4 DEF one
  <2>9. /\ <<head>> \in Seq(TqChunks) /\ TqChain(<<head>>, here) /\ TqEnd(<<head>>, here) = here + left
        /\ TqStarts(<<head>>) = {head.from}
    BY <2>5, <2>8
  <2>10. /\ <<tail>> \in Seq(TqChunks) /\ TqChain(<<tail>>, here + left) /\ TqEnd(<<tail>>, here + left) = next.to
         /\ TqStarts(<<tail>>) = {tail.from}
    BY <2>5, <2>8
  <2>11. /\ d.shown = whole \o <<head>> /\ d.shown \in Seq(TqChunks)
         /\ TqChain(d.shown, a) /\ TqEnd(d.shown, a) = here + left
    <3>1. d.shown = whole \o <<head>>
      BY <1>6, <2>1, <2>5, AppendIsConcat
    <3> QED
      <4> DEFINE one == <<head>>
      <4>1. one \in Seq(TqChunks) /\ TqChain(one, TqEnd(whole, a)) /\ TqEnd(one, TqEnd(whole, a)) = here + left
        BY <2>7, <2>9
      <4> HIDE DEF one
      <4>2. /\ whole \o one \in Seq(TqChunks) /\ TqChain(whole \o one, a)
            /\ TqEnd(whole \o one, a) = TqEnd(one, TqEnd(whole, a))
        BY <1>6, <4>1, TqJoined
      <4> QED
        BY <3>1, <4>1, <4>2 DEF one
  <2>12. here + left \in Int
    BY <2>4, <2>7
  <2>13. /\ d.buffer \in Seq(TqChunks) /\ TqChain(d.buffer, here + left) /\ TqEnd(d.buffer, here + left) = TqEnd(s, a)
    <3> DEFINE one == <<tail>>
               b == here + left
    <3>1. one \in Seq(TqChunks) /\ TqChain(one, b) /\ TqEnd(one, b) = next.to /\ TqChain(rest, TqEnd(one, b))
      BY <2>6, <2>10
    <3>2. b \in Int
      BY <2>12
    <3> HIDE DEF one, b
    <3>3. one \o rest \in Seq(TqChunks) /\ TqChain(one \o rest, b) /\ TqEnd(one \o rest, b) = TqEnd(rest, TqEnd(one, b))
      BY <2>6, <3>1, <3>2, TqJoined
    <3> QED
      BY <2>1, <2>6, <3>1, <3>3 DEF one, b
  <2>16. TqStarts(d.shown) \cup TqStarts(d.buffer) \subseteq TqStarts(s) \cup sliced
    <3>1. TqStarts(d.shown) = TqStarts(whole) \cup TqStarts(<<head>>)
      BY <1>6, <2>9, <2>11, TqStartsJoined
    <3>2. TqStarts(d.buffer) = TqStarts(<<tail>>) \cup TqStarts(rest)
      BY <2>1, <2>6, <2>10, TqStartsJoined
    <3> QED
      BY <1>6, <2>6, <2>9, <2>10, <2>15, <3>1, <3>2
  <2>17. TqStarts(d.shown) \cup TqStarts(d.buffer) \subseteq TqStarts(s) \cup SlicesAt(budget)
    BY <2>14, <2>16
  <2> QED
    BY <2>4, <2>11, <2>13, <2>17 DEF s
<1> QED
  BY <1>8, <1>9

(* A frame's budget takes some of what waits, and never more than waits.      *)
LEMMA TqBudget ==
  ASSUME tqPending \in Nat
  PROVE  FrameBudget \in Nat /\ FrameBudget <= tqPending /\ (tqPending > 0 => FrameBudget > 0)
<1>1. tqPending \div 20 \in Nat /\ tqPending \div 20 <= tqPending
  BY Z3
<1> QED
  BY <1>1 DEF FrameBudget, AtLeast, AtMost

LEMMA TqInvTells ==
  ASSUME TqRuns
  PROVE  /\ TqMid \in Int /\ tqPending \in Nat
         /\ TqTotal(tqShown) = TqMid - tqReleased /\ TqTotal(tqBuffer) = tqPending
<1>1. Len(tqShown) \in 0..Len(tqShown) /\ Len(tqBuffer) \in 0..Len(tqBuffer)
  BY LenProperties DEF TqRuns
<1>2. TqMid \in Int /\ TqTotal(tqShown) = TqMid - tqReleased
  BY <1>1, TqAtInt, TqSpan DEF TqRuns, TqMid, TqEnd, TqTotal
<1>3. TqTotal(tqBuffer) = TqEnd(tqBuffer, TqMid) - TqMid /\ TqEnd(tqBuffer, TqMid) >= TqMid
  BY <1>1, <1>2, TqSpan DEF TqRuns, TqEnd, TqTotal
<1> QED
  BY <1>2, <1>3 DEF TqRuns

LEMMA TqEmpty == << >> \in Seq(TqChunks) /\ TqStarts(<< >>) = {} /\ \A a : TqChain(<< >>, a) /\ TqEnd(<< >>, a) = a
<1>1. << >> \in Seq(TqChunks) /\ Len(<< >>) = 0
  OBVIOUS
<1> QED
  BY <1>1 DEF TqChain, TqEnd, TqAt, TqStarts

(* A chunk of a run starts before the run ends.                               *)
LEMMA TqBefore ==
  ASSUME NEW s \in Seq(TqChunks), NEW a \in Int, TqChain(s, a), NEW i \in 1..Len(s)
  PROVE  s[i].from \in Int /\ s[i].from < TqEnd(s, a)
<1> DEFINE len == Len(s)
           rest == SubSeq(s, i + 1, len)
<1>1. len \in Nat /\ \A j \in 1..len : s[j] \in TqChunks
  BY LenProperties, ElementOfSeq
<1>2. /\ rest \in Seq(TqChunks) /\ Len(rest) = len - i /\ \A j \in 1..(len - i) : rest[j] = s[i + j]
  <2>1. \A j \in (i + 1)..len : s[j] \in TqChunks
    BY <1>1
  <2>2. /\ rest \in Seq(TqChunks) /\ Len(rest) = IF i + 1 <= len THEN len - (i + 1) + 1 ELSE 0
        /\ \A j \in 1..(len - (i + 1) + 1) : rest[j] = s[(i + 1) + j - 1]
    BY <1>1, <2>1, SubSeqProperties
  <2> QED
    BY <1>1, <2>2
<1> HIDE DEF rest, len
<1>3. s[i] \in TqChunks /\ s[i].from < s[i].to /\ i \in 1..len
  BY <1>1 DEF TqChain, len
<1>4. s[i].from \in Int /\ s[i].to \in Int
  BY <1>3 DEF TqChunks
<1>5. ASSUME NEW j \in 0..(len - i) PROVE TqAt(rest, s[i].to, j) = TqAt(s, a, i + j)
  <2>1. i + j # 0 /\ (j = 0 => i + j = i) /\ (j # 0 => j \in 1..(len - i))
    BY <1>1, <1>3
  <2>2. CASE j = 0
    BY <2>1, <2>2 DEF TqAt
  <2>3. CASE j # 0
    <3>1. rest[j] = s[i + j]
      BY <1>2, <2>1, <2>3
    <3> QED
      BY <2>1, <2>3, <3>1 DEF TqAt
  <2> QED
    BY <2>2, <2>3
<1>6. ASSUME NEW j \in 1..(len - i) PROVE rest[j].from = TqAt(rest, s[i].to, j - 1) /\ rest[j].from < rest[j].to
  <2>1. i + j \in 1..len /\ j - 1 \in 0..(len - i) /\ (i + j) - 1 = i + (j - 1)
    BY <1>1, <1>3
  <2>2. s[i + j].from = TqAt(s, a, (i + j) - 1) /\ s[i + j].from < s[i + j].to
    BY <2>1 DEF TqChain, len
  <2> QED
    BY <1>2, <1>5, <2>1, <2>2
<1>7. TqChain(rest, s[i].to) /\ Len(rest) \in 0..Len(rest)
  BY <1>1, <1>2, <1>3, <1>6 DEF TqChain
<1>8. TqAt(rest, s[i].to, len - i) >= s[i].to
  BY <1>2, <1>4, <1>7, TqSpan
<1>9. TqAt(rest, s[i].to, len - i) = TqEnd(s, a) /\ TqEnd(s, a) \in Int
  <2>1. len - i \in 0..(len - i) /\ i + (len - i) = len /\ len \in 0..len
    BY <1>1, <1>3
  <2> QED
    BY <1>5, <2>1, TqAtInt DEF TqEnd, len
<1> QED
  BY <1>3, <1>4, <1>8, <1>9

LEMMA TqStepKeeps == TqInv /\ [TqNext]_tqVars => TqInv'
<1> SUFFICES ASSUME TqInv, [TqNext]_tqVars PROVE TqInv'
  OBVIOUS
<1>4. CASE UNCHANGED tqVars
  BY <1>4 DEF TqInv, TqRuns, tqVars, TqMid
<1>5. CASE TqTickPanics
  BY <1>5 DEF TqInv, TqTickPanics
<1>6. CASE TqTick \/ TqFlush \/ \E n \in TqSizes, w \in TqWidths : TqPush(n, w)
  <2>0. /\ tqBuffer \in Seq(TqChunks) /\ tqShown \in Seq(TqChunks) /\ tqPushed \in Int /\ tqReleased \in Int
        /\ TqChain(tqShown, tqReleased) /\ TqChain(tqBuffer, TqMid)
        /\ TqEnd(tqBuffer, TqMid) = tqPushed /\ tqPending = tqPushed - TqMid
        /\ TqMid \in Int /\ tqPending \in Nat /\ TqTotal(tqShown) = TqMid - tqReleased
        /\ tqInside \subseteq Int /\ \A x \in tqInside : x < tqPushed
        /\ (TqStarts(tqShown) \cup TqStarts(tqBuffer)) \cap tqInside = {}
    <3>1. TqRuns
      BY <1>6 DEF TqInv, TqTick, TqFlush, TqPush
    <3> QED
      BY <3>1, TqInvTells DEF TqRuns
  <2>1. ASSUME NEW n \in TqSizes, NEW w \in TqWidths, TqPush(n, w) PROVE TqRuns'
    <3>1. CASE n = 0
      BY <2>0, <2>1, <3>1 DEF TqPush, TqRuns, TqMid
    <3>2. CASE n # 0
      <4> DEFINE c == [from |-> tqPushed, to |-> tqPushed + n]
                 inner == {tqPushed + i : i \in {j \in 1..(n - 1) : j % w # 0}}
      <4>1. /\ tqBuffer' = Append(tqBuffer, c) /\ tqPending' = tqPending + n /\ tqPushed' = tqPushed + n
            /\ tqInside' = tqInside \cup inner /\ UNCHANGED <<tqShown, tqReleased>>
        BY <2>1, <3>2 DEF TqPush
      <4>2. n \in Nat /\ 0 < n
        BY <3>2, TqAssumption
      <4>9. \A x \in inner : x \in Int /\ tqPushed < x /\ x < tqPushed + n
        BY <2>0, <4>2
      <4>3. c \in TqChunks /\ c.from = tqPushed /\ c.to = tqPushed + n /\ c.from < c.to
        BY <2>0, <4>2 DEF TqChunks
      <4> HIDE DEF c, inner
      <4>4. /\ <<c>> \in Seq(TqChunks) /\ TqChain(<<c>>, tqPushed) /\ TqEnd(<<c>>, tqPushed) = tqPushed + n
            /\ TqStarts(<<c>>) = {tqPushed}
        <5> DEFINE one == <<c>>
        <5>1. one \in Seq(TqChunks) /\ Len(one) = 1 /\ one[1] = c
          BY <4>3
        <5> HIDE DEF one
        <5>2. TqChain(one, tqPushed) /\ TqEnd(one, tqPushed) = tqPushed + n
          BY <4>3, <5>1 DEF TqChain, TqEnd, TqAt
        <5>3. TqStarts(one) = {tqPushed}
          BY <4>3, <5>1 DEF TqStarts
        <5> QED
          BY <5>1, <5>2, <5>3 DEF one
      <4>5. tqBuffer' = tqBuffer \o <<c>>
        BY <2>0, <4>1, <4>3, AppendIsConcat
      <4>6. /\ tqBuffer' \in Seq(TqChunks) /\ TqChain(tqBuffer', TqMid) /\ TqEnd(tqBuffer', TqMid) = tqPushed + n
        BY <2>0, <4>4, <4>5, TqJoined
      <4>7. TqMid' = TqMid
        BY <4>1 DEF TqMid
      <4>8. tqPushed' \in Int /\ tqPending' = tqPushed' - TqMid
        BY <2>0, <4>1, <4>2
      \* Old starts are not new insides, which lie beyond what was pushed; nor is the new start an old one.
      <4>10. /\ tqInside' \subseteq Int /\ \A x \in tqInside' : x < tqPushed'
        <5>1. ASSUME NEW x \in tqInside \cup inner PROVE x \in Int /\ x < tqPushed + n
          BY <2>0, <4>2, <4>9
        <5> QED
          BY <4>1, <5>1
      <4>11. \A s \in {tqShown, tqBuffer} : \A x \in TqStarts(s) : x \in Int /\ x < tqPushed
        <5>1. /\ \A i \in 0..Len(tqShown) : TqAt(tqShown, tqReleased, i) \in Int
              /\ \A i \in 0..Len(tqBuffer) : TqAt(tqBuffer, TqMid, i) \in Int
          BY <2>0, TqAtInt
        <5>2. TqMid <= tqPushed
          BY <2>0
        <5>3. ASSUME NEW i \in 1..Len(tqShown) PROVE tqShown[i].from \in Int /\ tqShown[i].from < TqMid
          BY <2>0, <5>3, TqBefore DEF TqMid
        <5>4. ASSUME NEW i \in 1..Len(tqBuffer) PROVE tqBuffer[i].from \in Int /\ tqBuffer[i].from < tqPushed
          BY <2>0, <5>4, TqBefore
        <5> QED
          BY <2>0, <5>2, <5>3, <5>4 DEF TqStarts
      <4>12. TqStarts(tqBuffer') = TqStarts(tqBuffer) \cup {tqPushed} /\ TqStarts(tqShown') = TqStarts(tqShown)
        BY <2>0, <4>1, <4>4, <4>5, TqStartsJoined
      <4>13. (TqStarts(tqShown') \cup TqStarts(tqBuffer')) \cap tqInside' = {}
        <5> SUFFICES ASSUME NEW x \in TqStarts(tqShown) \cup TqStarts(tqBuffer) \cup {tqPushed}, x \in tqInside \cup inner
                     PROVE  FALSE
          BY <4>1, <4>12
        <5>1. x \in Int /\ x <= tqPushed
          BY <2>0, <4>11
        <5>2. x \in tqInside
          BY <2>0, <4>9, <5>1
        <5>3. x # tqPushed
          BY <2>0, <5>2
        <5> QED
          BY <2>0, <5>2, <5>3
      <4>14. TqStarts(tqBuffer)' = TqStarts(tqBuffer') /\ TqStarts(tqShown)' = TqStarts(tqShown')
        BY DEF TqStarts
      <4> QED
        BY <2>0, <4>1, <4>6, <4>7, <4>8, <4>10, <4>13, <4>14 DEF TqRuns
    <3> QED
      BY <3>1, <3>2
  <2>2. ASSUME TqTick PROVE TqRuns'
    <3> DEFINE d == DrainFrame(FrameBudget)
    <3>1. /\ tqShown' = d.shown /\ tqBuffer' = d.buffer /\ tqPending' = tqPending - TqTotal(d.shown)
          /\ tqReleased' = tqReleased + TqTotal(tqShown) /\ UNCHANGED <<tqPushed, tqInside>>
          /\ SlicesAt(FrameBudget) \cap tqInside = {}
      BY <2>2 DEF TqTick
    <3>2. FrameBudget \in Nat /\ FrameBudget <= tqPending
      BY <2>0, TqBudget
    <3>3. /\ d.shown \in Seq(TqChunks) /\ d.buffer \in Seq(TqChunks)
          /\ TqChain(d.shown, TqMid) /\ TqChain(d.buffer, TqEnd(d.shown, TqMid))
          /\ TqEnd(d.buffer, TqEnd(d.shown, TqMid)) = tqPushed
          /\ TqStarts(d.shown) \cup TqStarts(d.buffer) \subseteq TqStarts(tqBuffer) \cup SlicesAt(FrameBudget)
      BY <2>0, <3>2, TqDrains
    <3> HIDE DEF d
    <3>4. tqReleased' = TqMid /\ TqMid' = TqEnd(d.shown, TqMid)
      <4>1. tqReleased' = TqMid
        BY <2>0, <3>1
      <4> QED
        BY <3>1, <4>1 DEF TqMid
    <3>5. TqTotal(d.shown) = TqEnd(d.shown, TqMid) - TqMid /\ TqEnd(d.shown, TqMid) \in Int
      <4>1. Len(d.shown) \in 0..Len(d.shown)
        BY <3>3, LenProperties
      <4> QED
        BY <2>0, <3>3, <4>1, TqSpan, TqAtInt DEF TqTotal, TqEnd
    <3>6. tqPending' = tqPushed' - TqMid'
      BY <2>0, <3>1, <3>4, <3>5
    <3>7. (TqStarts(tqShown') \cup TqStarts(tqBuffer')) \cap tqInside' = {}
      BY <2>0, <3>1, <3>3
    <3>8. TqStarts(tqBuffer)' = TqStarts(tqBuffer') /\ TqStarts(tqShown)' = TqStarts(tqShown')
      BY DEF TqStarts
    <3> QED
      BY <2>0, <3>1, <3>3, <3>4, <3>6, <3>7, <3>8 DEF TqRuns
  <2>3. ASSUME TqFlush PROVE TqRuns'
    <3>1. /\ tqShown' = tqBuffer /\ tqBuffer' = << >> /\ tqPending' = 0
          /\ tqReleased' = TqMid /\ UNCHANGED <<tqPushed, tqInside>>
      BY <2>0, <2>3 DEF TqFlush
    <3>2. TqMid' = tqPushed
      BY <2>0, <3>1 DEF TqMid
    <3>3. TqStarts(tqBuffer)' = {} /\ TqStarts(tqShown)' = TqStarts(tqBuffer)
      BY <3>1, TqEmpty DEF TqStarts
    <3> QED
      BY <2>0, <3>1, <3>2, <3>3, TqEmpty DEF TqRuns
  <2>4. tqPanicked' = tqPanicked /\ ~tqPanicked
    BY <1>6 DEF TqTick, TqFlush, TqPush
  <2> QED
    BY <1>6, <2>1, <2>2, <2>3, <2>4 DEF TqInv
<1> QED
  BY <1>4, <1>5, <1>6 DEF TqNext

(* For any sizes, any widths of characters and any number of chunks, pushed   *)
(* and drained in any order: until a frame panics, what is shown and what     *)
(* waits is the text that was pushed, without a gap, a repetition, an empty   *)
(* chunk or a cut character, and a frame takes some of what waits; and only   *)
(* text with characters of several bytes makes one panic (token_queue.rs,     *)
(* push, drain_frame, flush).                                                 *)
THEOREM TqKeepsStream == TqSpec => []TqStreamKept
<1>1. TqInit => TqInv
  BY TqEmpty DEF TqInit, TqInv, TqRuns, TqMid
<1>2. TqInv /\ [TqNext]_tqVars => TqInv'
  BY TqStepKeeps
<1>3. ASSUME TqInv PROVE TqStreamKept
  <2> SUFFICES ASSUME ~tqPanicked PROVE TqStreamKept
    BY <1>3 DEF TqInv, TqStreamKept
  <2> USE DEF TqInv
  <2>9. TqRuns
    BY <1>3
  <2> DEFINE chunks == tqShown \o tqBuffer
  <2>0. TqMid = TqEnd(tqShown, tqReleased)
    BY DEF TqMid
  <2>1. chunks \in Seq(TqChunks) /\ TqChain(chunks, tqReleased) /\ TqEnd(chunks, tqReleased) = tqPushed
    BY <2>9, <2>0, TqJoined DEF TqRuns
  <2>7. TqStarts(chunks) \cap tqInside = {}
    BY <2>9, TqStartsJoined DEF TqRuns
  <2> HIDE DEF chunks
  <2>2. tqReleased \in Int /\ Len(chunks) \in 0..Len(chunks)
    BY <2>9, <2>1, LenProperties DEF TqRuns
  <2>3. TqTotal(chunks) = tqPushed - tqReleased /\ tqPushed \in Int
    BY <2>9, <2>1, <2>2, TqSpan DEF TqTotal, TqEnd, TqRuns
  <2>4. \A i \in 1..Len(chunks) :
          /\ chunks[i].from = IF i = 1 THEN tqReleased ELSE chunks[i - 1].to
          /\ chunks[i].from < chunks[i].to
          /\ chunks[i].from \notin tqInside
    BY <2>1, <2>7 DEF TqChain, TqAt, TqStarts
  <2>5. tqPending = TqTotal(tqBuffer) /\ (tqPending > 0 => FrameBudget > 0)
    BY <2>9, TqInvTells, TqBudget
  <2>6. tqReleased + TqTotal(chunks) = tqPushed
    BY <2>2, <2>3
  <2> QED
    BY <2>4, <2>5, <2>6 DEF TqStreamKept, chunks
<1> QED
  BY <1>1, <1>2, <1>3, PTL DEF TqSpec

-----------------------------------------------------------------------------
(* The settings.  What is stored, read, drafted or sent has a limit of its    *)
(* type, not 0 where it was normalized, and lists twice only what a client    *)
(* itself did.                                                                *)
StListsOf(twice) == {e \in Seq(StEnvs) : StListedTwice(e) \subseteq twice}
StRowsOf(twice) == [theme : StThemes, limit : 1..StLimitTop, envs : StListsOf(twice)]
StDraftsOf(twice) == [theme : StThemes, limit : 0..StLimitTop, envs : StListsOf(twice)]
StAsksOf(twice) == [kind : {"get", "set"}, settings : StDraftsOf(twice), at : {"sent", "ok", "failed"}]
StInv ==
  /\ stStored \in StRowsOf(stTwice) /\ stDraft \in StDraftsOf(stTwice) /\ stTheme = StDrawn(stDraft.theme)
  /\ stCalls \in [StConns -> StRowsOf(stTwice) \cup {StNoRow}] /\ stAsks \subseteq StAsksOf(stTwice)
  /\ stSaving => \E a \in stAsks : a.kind = "set"

(* An import keeps a list sound, however its hosts repeat themselves.         *)
LEMMA StAdds ==
  ASSUME NEW twice, NEW envs \in StListsOf(twice), NEW e \in StEnvs, e \notin ToSet(envs)
  PROVE  Append(envs, e) \in StListsOf(twice)
<1>1. envs \in Seq(StEnvs) /\ Len(envs) \in Nat /\ DOMAIN envs = 1..Len(envs)
  BY LenProperties DEF StListsOf
<1> DEFINE grown == Append(envs, e)
<1>2. /\ grown \in Seq(StEnvs) /\ DOMAIN grown = DOMAIN envs \cup {Len(envs) + 1} /\ grown[Len(envs) + 1] = e
      /\ \A k \in DOMAIN envs : grown[k] = envs[k]
  BY <1>1, AppendProperties
<1>3. \A k \in DOMAIN envs : envs[k] # e
  BY DEF ToSet
<1> HIDE DEF grown
<1>4. ASSUME NEW i \in DOMAIN grown, NEW j \in DOMAIN grown, i # j, grown[i] = grown[j]
      PROVE  i \in DOMAIN envs /\ j \in DOMAIN envs
  BY <1>2, <1>3, <1>4
<1>5. ASSUME NEW x \in StListedTwice(grown) PROVE x \in StListedTwice(envs)
  <2>1. PICK i \in DOMAIN grown, j \in DOMAIN grown : i # j /\ grown[i] = x /\ grown[j] = x
    BY <1>5 DEF StListedTwice
  <2>2. i \in DOMAIN envs /\ j \in DOMAIN envs
    BY <1>4, <2>1
  <2>3. envs[i] = x /\ envs[j] = x /\ x \in ToSet(envs)
    BY <1>2, <2>1, <2>2 DEF ToSet
  <2> QED
    BY <2>1, <2>2, <2>3 DEF StListedTwice
<1>6. StListedTwice(envs) \subseteq twice
  BY DEF StListsOf
<1>7. grown \in StListsOf(twice)
  BY <1>2, <1>5, <1>6 DEF StListsOf
<1> QED
  BY <1>7 DEF grown

LEMMA StImportSound ==
  ASSUME NEW twice, NEW envs \in StListsOf(twice), NEW hosts \in StConfigs
  PROVE  StImported(envs, hosts) \in StListsOf(twice)
<1>1. PICK len \in Nat : hosts \in [1..len -> StHosts]
  BY StAssumption DEF StConfigs
<1>2. Len(hosts) = len
  BY <1>1
<1> DEFINE S == StListsOf(twice)
           next(n, old) == IF StEnvOf(hosts[n]) \in ToSet(old) THEN old ELSE Append(old, StEnvOf(hosts[n]))
           step == [p \in (1..len) \X S |-> next(p[1], p[2])]
           known[n \in 0..len] ==
             IF n = 0 THEN envs
             ELSE IF StEnvOf(hosts[n]) \in ToSet(known[n - 1]) THEN known[n - 1]
             ELSE Append(known[n - 1], StEnvOf(hosts[n]))
<1>3. StImported(envs, hosts) = known[len]
  BY <1>2 DEF StImported
<1>4. \A n \in 1..len, old \in S : next(n, old) \in S /\ step[<<n, old>>] = next(n, old)
  <2> SUFFICES ASSUME NEW n \in 1..len, NEW old \in S PROVE next(n, old) \in S
    OBVIOUS
  <2>1. StEnvOf(hosts[n]) \in StEnvs
    BY <1>1 DEF StEnvs
  <2> QED
    BY <2>1, StAdds
<1>s. envs \in S
  OBVIOUS
<1> HIDE DEF next, S
<1>5. step \in [((1..len) \X S) -> S]
  BY <1>4
<1> HIDE DEF step
<1>6. PICK f \in [0..len -> S] : Steps(f, len, envs, step)
  BY <1>5, <1>s, Recursion
<1>7. f = [n \in 0..len |-> IF n = 0 THEN envs ELSE next(n, f[n - 1])]
  <2>1. \A n \in 0..len : n # 0 => step[<<n, f[n - 1]>>] = next(n, f[n - 1])
    BY <1>4
  <2>2. f = [n \in 0..len |-> IF n = 0 THEN envs ELSE step[<<n, f[n - 1]>>]]
    BY <1>6 DEF Steps
  <2> QED
    BY <2>1, <2>2
<1>8. known = [n \in 0..len |-> IF n = 0 THEN envs ELSE next(n, known[n - 1])]
  BY <1>7 DEF next
<1> HIDE DEF known
<1>9. \A n \in 0..len : n \in {k \in 0..len : known[k] \in S}
  <2> DEFINE P == {k \in 0..len : known[k] \in S}
  <2>1. 0 \in P
    BY <1>8, <1>s
  <2>2. ASSUME NEW k \in 0..(len - 1), k \in P PROVE k + 1 \in P
    <3>1. k + 1 \in 1..len /\ k + 1 # 0 /\ (k + 1) - 1 = k
      BY <2>2
    <3>2. known[k + 1] = next(k + 1, known[k])
      BY <1>8, <3>1
    <3>3. known[k] \in S
      BY <2>2
    <3>4. next(k + 1, known[k]) \in S
      BY <1>4, <3>1, <3>3
    <3>5. k + 1 \in 0..len
      BY <3>1
    <3> QED
      BY <3>2, <3>4, <3>5
  <2> HIDE DEF P
  <2>3. \A n \in 0..len : n \in P
    BY <2>1, <2>2, Upto
  <2> QED
    BY <2>3 DEF P
<1> QED
  BY <1>3, <1>9 DEF S

(* A row, a draft and a call stay what they are when a client lists more      *)
(* environments twice.                                                        *)
LEMMA StGrows ==
  ASSUME NEW twice, NEW more, twice \subseteq more
  PROVE  /\ StListsOf(twice) \subseteq StListsOf(more) /\ StRowsOf(twice) \subseteq StRowsOf(more)
         /\ StDraftsOf(twice) \subseteq StDraftsOf(more) /\ StAsksOf(twice) \subseteq StAsksOf(more)
<1>1. StListsOf(twice) \subseteq StListsOf(more)
  BY DEF StListsOf
<1>2. StRowsOf(twice) \subseteq StRowsOf(more) /\ StDraftsOf(twice) \subseteq StDraftsOf(more)
  BY <1>1 DEF StRowsOf, StDraftsOf
<1>3. StAsksOf(twice) \subseteq StAsksOf(more)
  BY <1>2 DEF StAsksOf
<1> QED
  BY <1>1, <1>2, <1>3

(* What is normalized may be stored, and what is stored may be drafted.       *)
LEMMA StNormal ==
  ASSUME NEW twice, NEW theme \in StThemes, NEW limit \in 0..StLimitTop, NEW envs \in StListsOf(twice)
  PROVE  StNormalize([theme |-> theme, limit |-> limit, envs |-> envs]) \in StRowsOf(twice)
<1>1. StNormalize([theme |-> theme, limit |-> limit, envs |-> envs])
        = [theme |-> theme, limit |-> IF limit = 0 THEN 1 ELSE limit, envs |-> envs]
  BY DEF StNormalize
<1>2. (IF limit = 0 THEN 1 ELSE limit) \in 1..StLimitTop
  BY StAssumption
<1> QED
  BY <1>1, <1>2 DEF StRowsOf

LEMMA StDrafted == ASSUME NEW twice PROVE StRowsOf(twice) \subseteq StDraftsOf(twice)
<1>1. 1..StLimitTop \subseteq 0..StLimitTop
  BY StAssumption
<1> QED
  BY <1>1 DEF StRowsOf, StDraftsOf

LEMMA StDefaultSound == ASSUME NEW twice PROVE StDefault \in StRowsOf(twice) /\ StDefault.envs \in StListsOf(twice)
<1> DEFINE e == <<StLocal>>
<1>1. e \in Seq(StEnvs) /\ DOMAIN e = {1}
  BY DEF StEnvs
<1>2. e \in StListsOf(twice)
  <2>1. StListedTwice(e) = {}
    BY <1>1 DEF StListedTwice
  <2> QED
    BY <1>1, <2>1 DEF StListsOf
<1> HIDE DEF e
<1>3. StDefault = [theme |-> "dark", limit |-> 1, envs |-> e]
  BY DEF StDefault, e
<1>4. "dark" \in StThemes /\ 1 \in 1..StLimitTop
  BY StAssumption DEF StThemes
<1> QED
  BY <1>2, <1>3, <1>4 DEF StRowsOf

(* A list a client sends lists twice what is noted as such.                   *)
LEMMA StSent ==
  ASSUME NEW envs \in StEnvLists, NEW twice
  PROVE  envs \in StListsOf(twice \cup StListedTwice(envs))
<1>1. PICK n \in Nat : envs \in [1..n -> StEnvs]
  BY StAssumption DEF StEnvLists
<1>2. envs \in Seq(StEnvs)
  BY <1>1
<1> QED
  BY <1>2 DEF StListsOf

LEMMA StStepKeeps == StInv /\ [StNext]_stVars => StInv'
<1> SUFFICES ASSUME StInv, [StNext]_stVars PROVE StInv'
  OBVIOUS
<1> DEFINE T == stTwice
<1>0. /\ stStored \in StRowsOf(T) /\ stDraft \in StDraftsOf(T) /\ stTheme = StDrawn(stDraft.theme)
      /\ stCalls \in [StConns -> StRowsOf(T) \cup {StNoRow}] /\ stAsks \subseteq StAsksOf(T)
  BY DEF StInv
<1>s. ASSUME NEW r \in StRowsOf(T)
      PROVE  /\ r.theme \in StThemes /\ r.limit \in 0..StLimitTop /\ r.envs \in StListsOf(T)
             /\ \A t : [r EXCEPT !.theme = t] = [theme |-> t, limit |-> r.limit, envs |-> r.envs]
             /\ \A n : [r EXCEPT !.limit = n] = [theme |-> r.theme, limit |-> n, envs |-> r.envs]
             /\ \A e : [r EXCEPT !.envs = e] = [theme |-> r.theme, limit |-> r.limit, envs |-> e]
  <2>1. r.limit \in 0..StLimitTop
    BY StDrafted DEF StDraftsOf
  <2> QED
    BY <2>1 DEF StRowsOf
<1>1. ASSUME NEW c \in StConns, StBeginWrite(c) PROVE StInv'
  <2>1. UNCHANGED <<stStored, stDraft, stTheme, stAsks, stSaving>>
    BY <1>1 DEF StBeginWrite
  <2>2. \E row : row \in StRowsOf(T') /\ stCalls' = [stCalls EXCEPT ![c] = row] /\ T \subseteq T'
    <3>1. CASE \E t \in StThemes : stCalls' = [stCalls EXCEPT ![c] = StNormalize([stStored EXCEPT !.theme = t])]
                                   /\ UNCHANGED stTwice
      <4>1. PICK t \in StThemes : stCalls' = [stCalls EXCEPT ![c] = StNormalize([stStored EXCEPT !.theme = t])]
                                  /\ T' = T
        BY <3>1
      <4>2. StNormalize([stStored EXCEPT !.theme = t]) \in StRowsOf(T)
        <5>1. StNormalize([theme |-> t, limit |-> stStored.limit, envs |-> stStored.envs]) \in StRowsOf(T)
          BY <1>0, <1>s, StNormal
        <5> QED
          BY <1>0, <1>s, <5>1
      <4> QED
        BY <4>1, <4>2
    <3>2. CASE \E n \in 0..StLimitTop : stCalls' = [stCalls EXCEPT ![c] = StNormalize([stStored EXCEPT !.limit = n])]
                                        /\ UNCHANGED stTwice
      <4>1. PICK n \in 0..StLimitTop : stCalls' = [stCalls EXCEPT ![c] = StNormalize([stStored EXCEPT !.limit = n])]
                                       /\ T' = T
        BY <3>2
      <4>2. StNormalize([stStored EXCEPT !.limit = n]) \in StRowsOf(T)
        <5>1. StNormalize([theme |-> stStored.theme, limit |-> n, envs |-> stStored.envs]) \in StRowsOf(T)
          BY <1>0, <1>s, StNormal
        <5> QED
          BY <1>0, <1>s, <5>1
      <4> QED
        BY <4>1, <4>2
    <3>3. CASE \E envs \in StEnvLists : /\ stCalls' = [stCalls EXCEPT ![c] = StNormalize([stStored EXCEPT !.envs = envs])]
                                        /\ stTwice' = stTwice \cup StListedTwice(envs)
      <4>1. PICK envs \in StEnvLists : /\ stCalls' = [stCalls EXCEPT ![c] = StNormalize([stStored EXCEPT !.envs = envs])]
                                       /\ T' = T \cup StListedTwice(envs)
        BY <3>3
      <4>2. envs \in StListsOf(T')
        BY <4>1, StSent
      <4>3. StNormalize([stStored EXCEPT !.envs = envs]) \in StRowsOf(T')
        <5>1. StNormalize([theme |-> stStored.theme, limit |-> stStored.limit, envs |-> envs]) \in StRowsOf(T')
          BY <1>0, <1>s, <4>2, StNormal
        <5> QED
          BY <1>0, <1>s, <5>1
      <4> QED
        BY <4>1, <4>3
    <3>4. CASE \E hosts \in StConfigs :
                 /\ stCalls' = [stCalls EXCEPT ![c] = StNormalize([stStored EXCEPT !.envs = StImported(stStored.envs, hosts)])]
                 /\ UNCHANGED stTwice
      <4>1. PICK hosts \in StConfigs :
              /\ stCalls' = [stCalls EXCEPT ![c] = StNormalize([stStored EXCEPT !.envs = StImported(stStored.envs, hosts)])]
              /\ T' = T
        BY <3>4
      <4> DEFINE envs == StImported(stStored.envs, hosts)
      <4>2. envs \in StListsOf(T)
        BY <1>0, <1>s, StImportSound
      <4>4. stCalls' = [stCalls EXCEPT ![c] = StNormalize([stStored EXCEPT !.envs = envs])]
        BY <4>1
      <4> HIDE DEF envs
      <4>3. StNormalize([stStored EXCEPT !.envs = envs]) \in StRowsOf(T)
        <5>1. StNormalize([theme |-> stStored.theme, limit |-> stStored.limit, envs |-> envs]) \in StRowsOf(T)
          BY <1>0, <1>s, <4>2, StNormal
        <5> QED
          BY <1>0, <1>s, <5>1
      <4> QED
        BY <4>1, <4>3, <4>4
    <3> QED
      BY <1>1, <3>1, <3>2, <3>3, <3>4 DEF StBeginWrite
  <2>3. PICK row : row \in StRowsOf(T') /\ stCalls' = [stCalls EXCEPT ![c] = row] /\ T \subseteq T'
    BY <2>2
  <2>4. /\ StRowsOf(T) \subseteq StRowsOf(T') /\ StDraftsOf(T) \subseteq StDraftsOf(T') /\ StAsksOf(T) \subseteq StAsksOf(T')
    BY <2>3, StGrows
  <2> QED
    BY <1>0, <2>1, <2>3, <2>4 DEF StInv
<1>2. ASSUME NEW c \in StConns, StEndWrite(c) PROVE StInv'
  <2>1. /\ stCalls' = [stCalls EXCEPT ![c] = StNoRow] /\ UNCHANGED <<stDraft, stTheme, stAsks, stSaving, stTwice>>
        /\ stStored' = stCalls[c] \/ stStored' = stStored
        /\ stCalls[c] \in StRowsOf(T)
    BY <1>0, <1>2 DEF StEndWrite
  <2> QED
    BY <1>0, <2>1 DEF StInv
<1>3. CASE StSetWhole
  <2>1. PICK t \in StThemes, n \in 0..StLimitTop, envs \in StEnvLists \cup {StDefault.envs} :
          /\ stStored' = StNormalize([theme |-> t, limit |-> n, envs |-> envs])
          /\ T' = T \cup StListedTwice(envs)
    BY <1>3 DEF StSetWhole
  <2>2. envs \in StListsOf(T')
    BY <2>1, StSent, StDefaultSound
  <2>3. stStored' \in StRowsOf(T')
    BY <2>1, <2>2, StNormal
  <2>4. T \subseteq T'
    BY <2>1
  <2>5. StRowsOf(T) \subseteq StRowsOf(T') /\ StDraftsOf(T) \subseteq StDraftsOf(T') /\ StAsksOf(T) \subseteq StAsksOf(T')
    BY <2>4, StGrows
  <2>6. UNCHANGED <<stCalls, stDraft, stTheme, stAsks, stSaving>>
    BY <1>3 DEF StSetWhole
  <2> QED
    BY <1>0, <2>3, <2>5, <2>6 DEF StInv
\* An ask that is answered keeps its kind.
<1>4. ASSUME NEW a \in stAsks, NEW b \in StAsksOf(T), b.kind = a.kind, stAsks' = (stAsks \ {a}) \cup {b},
             stStored' \in StRowsOf(T), UNCHANGED <<stCalls, stDraft, stTheme, stSaving, stTwice>>
      PROVE  StInv'
  <2>1. stSaving' => \E x \in stAsks' : x.kind = "set"
    BY <1>4 DEF StInv
  <2> QED
    BY <1>0, <1>4, <2>1 DEF StInv
<1>d. StDefault \in StDraftsOf(T) /\ stStored \in StDraftsOf(T)
  BY <1>0, StDefaultSound, StDrafted
<1>5. ASSUME NEW a \in stAsks, StServe(a) PROVE StInv'
  <2>1. a \in StAsksOf(T) /\ a.settings \in StDraftsOf(T)
    BY <1>0 DEF StAsksOf
  <2>2. CASE a.kind = "get"
    <3> DEFINE b == [a EXCEPT !.at = "ok", !.settings = stStored]
    <3>1. b \in StAsksOf(T) /\ b.kind = a.kind
      BY <1>d, <2>1 DEF StAsksOf
    <3>2. stAsks' = (stAsks \ {a}) \cup {b} /\ stStored' = stStored
          /\ UNCHANGED <<stCalls, stDraft, stTheme, stSaving, stTwice>>
      BY <1>5, <2>2 DEF StServe
    <3> HIDE DEF b
    <3> QED
      BY <1>0, <1>4, <3>1, <3>2
  <2>3. CASE a.kind # "get"
    <3> DEFINE b == [a EXCEPT !.at = "ok", !.settings = StDefault]
               s == a.settings
    <3>1. b \in StAsksOf(T) /\ b.kind = a.kind
      BY <1>d, <2>1 DEF StAsksOf
    <3>2. stAsks' = (stAsks \ {a}) \cup {b} /\ stStored' = StNormalize(s)
          /\ UNCHANGED <<stCalls, stDraft, stTheme, stSaving, stTwice>>
      BY <1>5, <2>3 DEF StServe
    <3>3. s \in StDraftsOf(T)
      BY <2>1
    <3> HIDE DEF b, s
    <3>4. StNormalize(s) \in StRowsOf(T)
      <4>1. s = [theme |-> s.theme, limit |-> s.limit, envs |-> s.envs]
            /\ s.theme \in StThemes /\ s.limit \in 0..StLimitTop /\ s.envs \in StListsOf(T)
        BY <3>3 DEF StDraftsOf
      <4> QED
        BY <4>1, StNormal
    <3> QED
      BY <1>4, <3>1, <3>2, <3>4
  <2> QED
    BY <2>2, <2>3
<1>6. ASSUME NEW a \in stAsks, StRefuse(a) PROVE StInv'
  <2> DEFINE b == [a EXCEPT !.at = "failed", !.settings = StDefault]
  <2>1. b \in StAsksOf(T) /\ b.kind = a.kind
    BY <1>0, <1>d DEF StAsksOf
  <2>2. stAsks' = (stAsks \ {a}) \cup {b} /\ UNCHANGED <<stStored, stCalls, stDraft, stTheme, stSaving, stTwice>>
    BY <1>6 DEF StRefuse
  <2> HIDE DEF b
  <2> QED
    BY <1>0, <1>4, <2>1, <2>2
<1>7. ASSUME NEW a \in stAsks, StLoaded(a) PROVE StInv'
  <2>1. /\ a.kind = "get" /\ stAsks' = stAsks \ {a} /\ UNCHANGED <<stStored, stCalls, stSaving, stTwice>>
        /\ \/ stDraft' = a.settings /\ stTheme' = StDrawn(a.settings.theme)
           \/ UNCHANGED <<stDraft, stTheme>>
    BY <1>7 DEF StLoaded
  <2>2. a.settings \in StDraftsOf(T)
    BY <1>0 DEF StAsksOf
  <2>3. stSaving' => \E x \in stAsks' : x.kind = "set"
    BY <2>1 DEF StInv
  <2>4. stTheme' = StDrawn(stDraft'.theme) /\ stDraft' \in StDraftsOf(T)
    BY <1>0, <2>1, <2>2
  <2> QED
    BY <1>0, <2>1, <2>3, <2>4 DEF StInv
<1>8. ASSUME NEW a \in stAsks, StSaved(a) PROVE StInv'
  <2>1. /\ ~stSaving' /\ stAsks' = stAsks \ {a} /\ UNCHANGED <<stStored, stCalls, stDraft, stTwice>>
        /\ stTheme' = StDrawn(stDraft.theme)
    BY <1>0, <1>8 DEF StSaved
  <2> QED
    BY <1>0, <2>1 DEF StInv
<1>9. CASE StLoad
  <2> DEFINE ask == [kind |-> "get", settings |-> StDefault, at |-> "sent"]
  <2>1. ask \in StAsksOf(T)
    BY <1>d DEF StAsksOf
  <2>2. stAsks' = stAsks \cup {ask} /\ UNCHANGED <<stStored, stCalls, stDraft, stTheme, stSaving, stTwice>>
    BY <1>9 DEF StLoad, StAsk
  <2> HIDE DEF ask
  <2> QED
    BY <1>0, <2>1, <2>2 DEF StInv
<1>10. CASE StEdit
  <2>1. PICK d \in StChoose \cup StStep : stDraft' = d /\ stTheme' = StDrawn(d.theme)
    BY <1>10 DEF StEdit, StProvidersTab, StTerminalTab, StGeneralTab, StAdvancedTab
  <2>2. d \in StDraftsOf(T)
    <3>1. CASE d \in StChoose
      BY <1>0, <3>1 DEF StChoose, StDraftsOf, StThemes
    <3>2. CASE d \in StStep
      <4>1. stDraft.limit \in 0..StLimitTop
        BY <1>0 DEF StDraftsOf
      <4> DEFINE more == StUp(stDraft.limit)
                 less == StDown(stDraft.limit)
      <4>2. more \in 0..StLimitTop /\ less \in 0..StLimitTop
        BY <4>1, StAssumption DEF StUp, StDown
      <4>3. d = [stDraft EXCEPT !.limit = more] \/ d = [stDraft EXCEPT !.limit = less]
        BY <3>2 DEF StStep
      <4> HIDE DEF more, less
      <4> QED
        BY <1>0, <4>2, <4>3 DEF StDraftsOf
    <3> QED
      BY <3>1, <3>2
  <2>3. UNCHANGED <<stStored, stCalls, stAsks, stSaving, stTwice>>
    BY <1>10 DEF StEdit
  <2> QED
    BY <1>0, <2>1, <2>2, <2>3 DEF StInv
<1>11. CASE StSave
  <2> DEFINE ask == [kind |-> "set", settings |-> stDraft, at |-> "sent"]
  <2>1. ask \in StAsksOf(T) /\ ask.kind = "set"
    BY <1>0 DEF StAsksOf
  <2>2. stAsks' = stAsks \cup {ask} /\ UNCHANGED <<stStored, stCalls, stDraft, stTheme, stTwice>>
    BY <1>11 DEF StSave, StAsk
  <2> HIDE DEF ask
  <2> QED
    BY <1>0, <2>1, <2>2 DEF StInv
<1>12. CASE UNCHANGED stVars
  BY <1>0, <1>12 DEF StInv, stVars
<1> QED
  BY <1>1, <1>2, <1>3, <1>5, <1>6, <1>7, <1>8, <1>9, <1>10, <1>11, <1>12 DEF StNext

(* For any hosts, connections and range of the limit, and whatever the other  *)
(* clients set: no limit of 0 is stored, an environment is listed twice in    *)
(* the row or on the page only if a client listed it twice, and the window    *)
(* has the page's theme (router.rs, settings_view.rs).                        *)
THEOREM StStaysSound == StSpec => []StSound
<1>1. StInit => StInv
  BY StDefaultSound, StDrafted DEF StInit, StInv, StDefault, StDrawn
<1>2. StInv /\ [StNext]_stVars => StInv'
  BY StStepKeeps
<1>3. StInv => StSound
  <2> SUFFICES ASSUME StInv PROVE StSound
    OBVIOUS
  <2>1. stStored.limit \in 1..StLimitTop /\ stStored.envs \in StListsOf(stTwice) /\ stDraft.envs \in StListsOf(stTwice)
    BY DEF StInv, StRowsOf, StDraftsOf
  <2>2. StListedTwice(stStored.envs) \subseteq stTwice /\ StListedTwice(stDraft.envs) \subseteq stTwice
    BY <2>1 DEF StListsOf
  <2> QED
    BY <2>1, <2>2 DEF StInv, StSound
<1> QED
  BY <1>1, <1>2, <1>3, PTL DEF StSpec
=============================================================================
