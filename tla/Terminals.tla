----------------------------- MODULE Terminals ------------------------------
(* TerminalServerManager (pandamux-server/src/terminal.rs) for one terminal  *)
(* id, over PtySessionManager (pandamux-term/src/session.rs), with a client  *)
(* that keeps a TerminalViewState (pandamux-desktop/src/terminal_view.rs).   *)
(*                                                                           *)
(* Each open starts a generation: a child on a pty, a reader thread that     *)
(* moves what the child prints into a channel, a drain thread that moves it  *)
(* into a ring buffer.  A byte is named by its generation and its place in   *)
(* the output; a character is the bytes from one start to the next, and what *)
(* a child prints is whole characters.  Every answer to an attach is decoded *)
(* on its own, so a character that its ends cut is not shown.  Left out:     *)
(* what the characters mean to the grid, its size, the replies to terminal   *)
(* queries, list (it changes nothing).                                       *)
EXTENDS RingBuffer, FiniteSets, Functions

CONSTANTS
  TermOpens,    \* bound: how often the id is opened
  TermOutput,   \* bound: bytes the children print
  TermStarts    \* the places of the output at which a character starts

ASSUME TermAssumption ==
  TermOpens \in Nat /\ TermOutput \in Nat /\ TermStarts \subseteq Nat \ {0}

VARIABLES
  tGen,      \* opens so far
  tOpening,  \* the generation spawned and not yet in the sessions map, or 0
  tSession,  \* the generation the sessions map holds, or 0
  tTerm,     \* the generations: child, threads, ring
  tInput,    \* the generation an input call writes to, both locks held, or 0
  tView      \* the client: what its grid was fed, attached_offset, generations
             \* seen; and, kept for the properties, where what it shows begins
             \* and where the answers it is made of began and ended

tVars == <<tGen, tOpening, tSession, tTerm, tInput, tView>>

TermGens == 1..TermOpens
NoTerm == [child |-> "none", pty |-> FALSE, read |-> 0, broken |-> FALSE,
           drained |-> 0, batch |-> << >>, ring |-> RingEmpty,
           drain |-> "none", running |-> FALSE]

TermInit ==
  /\ tGen = 0 /\ tOpening = 0 /\ tSession = 0 /\ tInput = 0
  /\ tTerm = [g \in TermGens |-> NoTerm]
  /\ tView = [shown |-> << >>, off |-> 0, gens |-> {}, from |-> 0, cuts |-> {0}]

Put(g, rec) == tTerm' = [tTerm EXCEPT ![g] = rec]
SessionsFree == tInput = 0
PtyFree(g) == tInput # g /\ tTerm[g].drain # "wait"
Bytes(g, from, to) == [i \in 1..(to - from) |-> <<g, from + i>>]

(* The bytes at two places belong to one character.                          *)
SameChar(p, q) == \A start \in TermStarts : start <= p <=> start <= q

(* String::from_utf8_lossy of a stretch of the output: a character that is   *)
(* not all there becomes U+FFFD, one for each byte when its first byte is    *)
(* missing, a single one when the stretch ends in the middle of it.          *)
Replacement == <<0, 0>>
Places(s) == {s[i][2] : i \in DOMAIN s}
Whole(s, i) == \A q \in 1..TermOutput : SameChar(q, s[i][2]) => q \in Places(s)
Swallowed(s, i) ==
  /\ ~Whole(s, i) /\ s[i][2] \notin TermStarts
  /\ \E p \in Places(s) \cap TermStarts : SameChar(p, s[i][2])
LossyUtf8(s) ==
  [i \in {j \in DOMAIN s : ~Swallowed(s, j)} |-> IF Whole(s, i) THEN s[i] ELSE Replacement]

-----------------------------------------------------------------------------
(* Calls on the manager. *)

(* open: spawns the shell, the reader and the drain thread, lock-free ...    *)
TermOpenSpawn ==
  /\ tOpening = 0 /\ tGen < TermOpens
  /\ tGen' = tGen + 1 /\ tOpening' = tGen + 1
  /\ Put(tGen + 1, [NoTerm EXCEPT !.child = "up", !.pty = TRUE, !.drain = "top", !.running = TRUE])
  /\ UNCHANGED <<tSession, tInput, tView>>

(* ... then registers it: whatever was under the id is dropped from the map, *)
(* its child and its threads go on.                                          *)
TermOpenInsert ==
  /\ tOpening # 0 /\ SessionsFree
  /\ tSession' = tOpening /\ tOpening' = 0
  /\ UNCHANGED <<tGen, tTerm, tInput, tView>>

(* input locks the map and the pty, then writes.  The pty takes the bytes    *)
(* when the child reads, which it may never do; the write fails once the     *)
(* child is gone.                                                            *)
TermInputBegin ==
  /\ tSession # 0 /\ SessionsFree /\ PtyFree(tSession)
  /\ tInput' = tSession
  /\ UNCHANGED <<tGen, tOpening, tSession, tTerm, tView>>

TermInputEnd ==
  /\ tInput # 0
  /\ tInput' = 0
  /\ UNCHANGED <<tGen, tOpening, tSession, tTerm, tView>>

(* close: out of the map, the drain thread told to stop, the child killed.   *)
TermClose ==
  /\ tSession # 0 /\ SessionsFree /\ PtyFree(tSession)
  /\ LET t == tTerm[tSession]
     IN Put(tSession, [t EXCEPT !.running = FALSE, !.pty = FALSE,
                                !.child = IF t.child = "up" THEN "exited" ELSE t.child])
  /\ tSession' = 0
  /\ UNCHANGED <<tGen, tOpening, tInput, tView>>

(* apply_attach_result: a truncated answer starts the grid over, any other   *)
(* is appended to it.                                                        *)
TermShown(got) ==
  LET data  == LossyUtf8(got.bytes)
      begin == got.offset - Len(got.bytes)
  IN [shown |-> IF got.truncated THEN data ELSE tView.shown \o data,
      off   |-> got.offset,
      gens  |-> tView.gens \cup {tSession},
      from  |-> IF got.truncated THEN begin ELSE tView.from,
      cuts  |-> (IF got.truncated THEN {begin} ELSE tView.cuts) \cup {got.offset}]

(* attach since attached_offset.                                             *)
TermAttach ==
  /\ tSession # 0 /\ SessionsFree
  /\ tView' = TermShown(RingRead(tTerm[tSession].ring, tView.off))
  /\ UNCHANGED <<tGen, tOpening, tSession, tTerm, tInput>>

-----------------------------------------------------------------------------
(* The child and the two threads of a generation. *)

(* What the child prints the reader thread sends to the channel.             *)
TermPrint(g) ==
  /\ tTerm[g].child = "up"
  /\ FoldFunction(LAMBDA t, n : t.read + n, 0, tTerm) < TermOutput
  /\ Put(g, [tTerm[g] EXCEPT !.read = tTerm[g].read + 1])

TermExit(g) ==
  /\ tTerm[g].child = "up"
  /\ Put(g, [tTerm[g] EXCEPT !.child = "exited"])

(* drain_new_bytes takes what the channel holds.  The read at the end of a   *)
(* dead child's output may send one error: that call returns nothing, what   *)
(* it took stays for the next.  After kill there is nothing to drain.        *)
DrainNewBytes(g) ==
  LET t == tTerm[g]
      all == [t EXCEPT !.batch = Bytes(g, t.drained, t.read), !.drained = t.read]
  IN IF ~t.pty THEN {t}
     ELSE IF t.child = "up" \/ t.broken THEN {all}
     ELSE {all, [t EXCEPT !.broken = TRUE]}

TermDrainTop(g) ==
  /\ tTerm[g].drain = "top"
  /\ IF tTerm[g].running
       THEN /\ tInput # g
            /\ \E t \in DrainNewBytes(g) : Put(g, [t EXCEPT !.drain = "wait"])
       ELSE Put(g, [tTerm[g] EXCEPT !.drain = "stop"])

\* Mutant of TermDrainWait: only close stops the drain thread.
TermDrainForever(g) ==
  /\ tTerm[g].drain = "wait"
  /\ LET t == tTerm[g]
     IN Put(g, [t EXCEPT !.ring = RingWrite(t.ring, t.batch), !.batch = << >>, !.drain = "top"])

(* Still under the pty lock: has the child exited?  Then this is the last    *)
(* round, whatever it printed since the drain.  Then, the lock released, the *)
(* ring takes the batch (what another thread may do in between does not show *)
(* in either, so this is one step).                                          *)
TermDrainWait(g) ==
  /\ tTerm[g].drain = "wait"
  /\ LET t == tTerm[g]
         exited == t.child = "exited" /\ t.pty
     IN Put(g, [t EXCEPT !.ring = RingWrite(t.ring, t.batch), !.batch = << >>,
                         !.running = t.running /\ ~exited,
                         !.drain = IF exited THEN "stop" ELSE "top"])

TermGensStep(g) ==
  /\ \/ TermPrint(g) \/ TermExit(g)
     \/ TermDrainTop(g) \/ TermDrainWait(g)
  /\ UNCHANGED <<tGen, tOpening, tSession, tInput, tView>>

TermNext ==
  \/ TermOpenSpawn \/ TermOpenInsert \/ TermInputBegin \/ TermInputEnd
  \/ TermClose \/ TermAttach
  \/ \E g \in TermGens : TermGensStep(g)

TermSpec == TermInit /\ [][TermNext]_tVars

-----------------------------------------------------------------------------
(* What the terminals promise. *)

(* A cut that falls between a byte and another byte of its character.        *)
CutsChar(cut, p) ==
  \E q \in 1..TermOutput : SameChar(q, p) /\ cut \in q..(p - 1) \cup p..(q - 1)

(* A grid fed the output after "from" and up to "to", in answers cut at the  *)
(* given places: every byte at most once and in order, and none left out but *)
(* those of a character that a cut split, which is replaced.                 *)
Shows(fed, g, from, to, cuts) ==
  /\ \A i \in 1..Len(fed) :
       \/ \E p \in (from + 1)..to : fed[i] = <<g, p>>
       \/ fed[i] = Replacement /\ \E p \in (from + 1)..to, c \in cuts : CutsChar(c, p)
  /\ \A i, j \in 1..Len(fed) :
       i < j /\ Replacement \notin {fed[i], fed[j]} => fed[i][2] < fed[j][2]
  /\ \A p \in (from + 1)..to :
       (\E i \in 1..Len(fed) : fed[i] = <<g, p>>) \/ \E c \in cuts : CutsChar(c, p)

(* A ring holds exactly the bytes drained last, framed by its offsets; and a *)
(* view that has only seen one generation shows an unbroken stretch of its   *)
(* output that ends at attached_offset, even when the ring dropped what the  *)
(* view had not fetched: no byte twice, none left out, but for characters    *)
(* split where an answer began or ended.                                     *)
TermViewUnbroken ==
  \A g \in TermGens :
    LET r == tTerm[g].ring
    IN /\ RingFramed(r) /\ r.buf = Bytes(g, r.tail, r.head)
       /\ r.head + Len(tTerm[g].batch) = tTerm[g].drained
       /\ tView.gens = {g} => Shows(tView.shown, g, tView.from, tView.off, tView.cuts)

(* A child that ends, by itself or by close, also one whose id was opened    *)
(* again, has its drain thread stop: no thread polls a dead terminal.        *)
TermDrainStops ==
  \A g \in TermGens : (tTerm[g].child = "exited") ~> (tTerm[g].drain = "stop")
=============================================================================
