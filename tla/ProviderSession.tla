--------------------------- MODULE ProviderSession ---------------------------
(* One session of a provider's command line program                          *)
(* (pandamux-providers/src: codex.rs, claude.rs, and acp.rs for opencode,    *)
(* grok, cursor and antigravity): the child under supervision.rs, what is    *)
(* written to its stdin, and the task that turns the lines of its stdout     *)
(* into events of a bounded channel, which one taker (the thread manager's   *)
(* task) empties.  What the child prints is its own affair.                  *)
(*                                                                           *)
(* Left out: what prompts, answers and events say beyond what is named here, *)
(* probes and model lists (they change nothing), the sizes of the pipes.     *)
EXTENDS Naturals, SequencesExt, FiniteSets

CONSTANTS
  PvCap,       \* capacity of the event channel (128 in the code)
  PvMaxLines,  \* bound: lines the child prints
  PvMaxSent    \* bound: prompts, answers and cancels written

ASSUME PvAssumption == PvCap \in Nat \ {0} /\ PvMaxLines \in Nat /\ PvMaxSent \in Nat

VARIABLES
  pvKind,      \* which driver started it
  pvInstr,     \* SessionSpec.instructions are given
  pvChild,     \* "up", "stuck" on its full stderr, or "dead"
  pvPrinted,   \* lines printed on stdout
  pvParsed,    \* lines the parser task has read
  pvParser,    \* the task runs, holding the channel's sender
  pvChan,      \* events in the channel
  pvGot,       \* events taken
  pvEnded,     \* the taker was told that no more will come
  pvSent,      \* messages written to stdin; for claude, its arguments first
  pvNextId,    \* next_id
  pvPreamble   \* AcpSession.preamble is there to send

pvVars == <<pvKind, pvInstr, pvChild, pvPrinted, pvParsed, pvParser, pvChan, pvGot, pvEnded,
            pvSent, pvNextId, pvPreamble>>

PvKinds == {"codex", "claude", "acp", "antigravity", "serve"}
PvMsg(what, id, pre) == [what |-> what, id |-> id, pre |-> pre]

(* start_session of each driver: what the child is told before the first     *)
(* prompt.  Codex gets the instructions with thread/start and claude as an   *)
(* argument; the ACP drivers send them with the first prompt; antigravity's  *)
(* driver does not pass them on, the serve mode of opencode starts nothing.  *)
PvCodexTold(instr)  == <<PvMsg("thread/start", 1, instr)>>
PvClaudeTold(instr) == <<PvMsg("arguments", 0, instr)>>
PvAcpTold           == <<PvMsg("initialize", 1, FALSE), PvMsg("session/new", 2, FALSE)>>

PvHandshake(kind, instr) ==
  CASE kind = "codex"  -> PvCodexTold(instr)
    [] kind = "claude" -> PvClaudeTold(instr)
    [] kind = "serve"  -> << >>
    [] OTHER -> PvAcpTold

PvFirstId(kind) == CASE kind = "codex" -> 2 [] kind \in {"acp", "antigravity"} -> 10 [] OTHER -> 0

PvInit ==
  /\ pvKind \in PvKinds /\ pvInstr \in BOOLEAN
  /\ pvChild = "up" /\ pvPrinted = << >> /\ pvParsed = 0
  /\ pvParser = (pvKind # "serve")
  /\ pvChan = IF pvKind = "serve" THEN <<"text">> ELSE << >>
  /\ pvGot = << >> /\ pvEnded = FALSE
  /\ pvSent = PvHandshake(pvKind, pvInstr)
  /\ pvNextId = PvFirstId(pvKind)
  /\ pvPreamble = (pvKind = "acp" /\ pvInstr)

-----------------------------------------------------------------------------
(* The session's calls. *)

(* A write to a child that is gone fails; the id and the preamble were taken *)
(* before it was tried.                                                      *)
PvWrite(msg) == pvSent' = IF pvChild = "dead" THEN pvSent ELSE Append(pvSent, msg)
PvMayWrite ==
  /\ pvKind # "serve"
  /\ Len(pvSent) < PvMaxSent + Len(PvHandshake(pvKind, pvInstr))
  /\ pvNextId < PvMaxSent + PvFirstId(pvKind) \/ pvKind = "claude"

(* send_turn of AcpSession: preamble.take(), so that it goes out once.       *)
PvTakePreamble == FALSE

PvTakeId == pvNextId' = IF pvKind = "claude" THEN 0 ELSE pvNextId + 1
PvSession == <<pvKind, pvInstr, pvPrinted, pvParsed, pvParser, pvChan, pvGot, pvEnded>>

PvCodexPrompt  == PvMsg("prompt", pvNextId, FALSE)
PvClaudePrompt == PvMsg("prompt", 0, FALSE)
PvAcpPrompt    == PvMsg("prompt", pvNextId, pvPreamble)

PvSendTurn ==
  /\ PvMayWrite
  /\ PvWrite(CASE pvKind = "codex" -> PvCodexPrompt
               [] pvKind = "claude" -> PvClaudePrompt
               [] OTHER -> PvAcpPrompt)
  /\ pvPreamble' = PvTakePreamble
  /\ PvTakeId
  /\ UNCHANGED <<PvSession, pvChild>>

(* respond_approval: codex sends a request of its own, ACP and claude answer *)
(* the child's, echoing its id.                                              *)
PvCodexAnswers == PvWrite(PvMsg("answer", pvNextId, FALSE)) /\ PvTakeId
PvEchoAnswers  == PvWrite(PvMsg("answer", 0, FALSE)) /\ UNCHANGED pvNextId

PvRespond ==
  /\ PvMayWrite /\ "ask" \in ToSet(pvGot)
  /\ IF pvKind = "codex" THEN PvCodexAnswers ELSE PvEchoAnswers
  /\ UNCHANGED <<PvSession, pvChild, pvPreamble>>

PvInterrupt ==
  /\ PvMayWrite
  /\ PvWrite(PvMsg("cancel", pvNextId, FALSE)) /\ PvTakeId
  /\ UNCHANGED <<PvSession, pvChild, pvPreamble>>

(* shutdown, or the session dropped: the child's whole group is killed.      *)
PvKill ==
  /\ pvChild # "dead" /\ pvKind # "serve"
  /\ pvChild' = "dead"
  /\ UNCHANGED <<PvSession, pvSent, pvNextId, pvPreamble>>

-----------------------------------------------------------------------------
(* The child. *)

(* "text" stands for all lines every parser makes an event of, reasoning and *)
(* the end of the turn among them, "ask" for those that want an answer.      *)
PvLines == {"text", "ask", "tool", "not utf8"}

PvChildPrints(line) ==
  /\ pvChild = "up" /\ pvKind # "serve" /\ Len(pvPrinted) < PvMaxLines
  /\ pvPrinted' = Append(pvPrinted, line)
  /\ UNCHANGED <<pvKind, pvInstr, pvChild, pvParsed, pvParser, pvChan, pvGot, pvEnded,
                 pvSent, pvNextId, pvPreamble>>

(* Its stderr is a pipe nobody reads: once it is full the child stops there. *)
PvChildStops(how) ==
  /\ pvChild = "up" /\ pvKind # "serve" /\ how \in {"stuck", "dead"}
  /\ pvChild' = how
  /\ UNCHANGED <<PvSession, pvSent, pvNextId, pvPreamble>>

-----------------------------------------------------------------------------
(* The parser task and the taker. *)

(* parse_codex_notification, parse_stream_json_line, parse_acp_line: at most *)
(* one event a line; codex reports no tool calls, nobody an error answer.    *)
PvCodexReports  == {"text", "ask"}
PvClaudeReports == {"text", "ask", "tool"}
PvAcpReports    == {"text", "ask", "tool"}
PvReports == CASE pvKind = "codex"  -> PvCodexReports
               [] pvKind = "claude" -> PvClaudeReports
               [] OTHER -> PvAcpReports
PvEvents(line) == IF line \in PvReports THEN <<line>> ELSE << >>

PvUnread == Len(pvPrinted) > pvParsed

\* Mutant of PvParse: an event that finds the channel full is dropped.
PvParseDropping ==
  /\ pvParser /\ PvUnread /\ pvPrinted[pvParsed + 1] # "not utf8"
  /\ pvChan' = IF Len(pvChan) < PvCap THEN pvChan \o PvEvents(pvPrinted[pvParsed + 1]) ELSE pvChan
  /\ pvParsed' = pvParsed + 1
  /\ UNCHANGED <<pvKind, pvInstr, pvChild, pvPrinted, pvParser, pvGot, pvEnded, pvSent, pvNextId, pvPreamble>>

(* One line to at most one event; with the channel full the task waits, and  *)
(* the child behind it.                                                      *)
PvParse ==
  LET events == PvEvents(pvPrinted[pvParsed + 1])
  IN /\ pvParser /\ PvUnread /\ pvPrinted[pvParsed + 1] # "not utf8"
     /\ Len(pvChan) + Len(events) <= PvCap
     /\ pvChan' = pvChan \o events
     /\ pvParsed' = pvParsed + 1
     /\ UNCHANGED <<pvKind, pvInstr, pvChild, pvPrinted, pvParser, pvGot, pvEnded,
                    pvSent, pvNextId, pvPreamble>>

\* Mutant of PvParserEnds: the task outlives a stream it cannot read on.
PvParserEndsAtEof ==
  /\ pvParser /\ ~PvUnread /\ pvChild = "dead"
  /\ pvParser' = FALSE
  /\ UNCHANGED <<pvKind, pvInstr, pvChild, pvPrinted, pvParsed, pvChan, pvGot, pvEnded,
                 pvSent, pvNextId, pvPreamble>>

(* The task ends with the stream, and also at a line that is not UTF-8,      *)
(* however much the child prints after it; its sender goes with it.          *)
PvParserEnds ==
  /\ pvParser
  /\ IF PvUnread THEN pvPrinted[pvParsed + 1] = "not utf8" ELSE pvChild = "dead"
  /\ pvParser' = FALSE
  /\ UNCHANGED <<pvKind, pvInstr, pvChild, pvPrinted, pvParsed, pvChan, pvGot, pvEnded,
                 pvSent, pvNextId, pvPreamble>>

PvTake ==
  /\ pvChan # << >>
  /\ pvGot' = Append(pvGot, Head(pvChan)) /\ pvChan' = Tail(pvChan)
  /\ UNCHANGED <<pvKind, pvInstr, pvChild, pvPrinted, pvParsed, pvParser, pvEnded,
                 pvSent, pvNextId, pvPreamble>>

PvTakeEnd ==
  /\ pvChan = << >> /\ ~pvParser /\ ~pvEnded
  /\ pvEnded' = TRUE
  /\ UNCHANGED <<pvKind, pvInstr, pvChild, pvPrinted, pvParsed, pvParser, pvChan, pvGot,
                 pvSent, pvNextId, pvPreamble>>

PvNext ==
  \/ PvSendTurn \/ PvRespond \/ PvInterrupt \/ PvKill
  \/ \E line \in PvLines : PvChildPrints(line)
  \/ \E how \in {"stuck", "dead"} : PvChildStops(how)
  \/ PvParse \/ PvParserEnds \/ PvTake \/ PvTakeEnd

PvSpec == PvInit /\ [][PvNext]_pvVars

-----------------------------------------------------------------------------
(* What a session promises. *)

(* The n-th line of those read so far that is an event is the n-th event the *)
(* taker gets: none is lost to a full channel, however slowly it takes them. *)
PvReported(i) == {j \in 1..i : pvPrinted[j] \in PvReports}
PvStreamKept ==
  LET events == pvGot \o pvChan
  IN pvKind # "serve" =>
       /\ Len(events) = Cardinality(PvReported(pvParsed))
       /\ \A i \in PvReported(pvParsed) : events[Cardinality(PvReported(i))] = pvPrinted[i]

(* No two requests to a child have the same id, the handshake's included,    *)
(* and the instructions of the session reach it once, no later than with the *)
(* first prompt (never with antigravity, whose driver leaves them out).      *)
PvToldOnce ==
  LET withId == {i \in DOMAIN pvSent : pvSent[i].id # 0}
      told == {i \in DOMAIN pvSent : pvSent[i].pre}
      prompts == {i \in DOMAIN pvSent : pvSent[i].what = "prompt"}
  IN /\ \A i, j \in withId : pvSent[i].id = pvSent[j].id => i = j
     /\ \A i, j \in told : i = j
     /\ pvInstr /\ pvKind \in {"codex", "claude", "acp"} /\ pvChild # "dead" /\ prompts # {} =>
          \E i \in told : \A j \in prompts : i <= j

(* Each thing passes once and in its place, either way: what the child says  *)
(* to the taker, what the session says to the child.                         *)
PvEachOnce == PvStreamKept /\ PvToldOnce

(* The taker learns that the child is gone, whatever it printed last and     *)
(* however it ended, so that its turn can be settled.                        *)
PvEndIsSeen == (pvChild = "dead") ~> pvEnded
=============================================================================
