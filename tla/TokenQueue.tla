----------------------------- MODULE TokenQueue -----------------------------
(* TokenSmoothingQueue (pandamux-client/src/token_queue.rs): text that came  *)
(* from a provider in bursts is shown a little per frame.  All lengths are   *)
(* those of the code, in bytes: a chunk is the range of bytes of the whole   *)
(* stream it holds, and tqInside tells which bytes of the stream have the    *)
(* first half of a character before them, where a text cannot be sliced.     *)
EXTENDS Integers, SequencesExt

CONSTANTS
  TqSizes,   \* lengths in bytes a pushed chunk may have
  TqWidths,  \* bytes its characters may have, all of one chunk alike
  TqPushes   \* bound: chunks pushed

ASSUME TqAssumption == TqSizes \subseteq Nat /\ TqWidths \subseteq 1..4 /\ TqPushes \in Nat

VARIABLES
  tqBuffer,   \* chunks waiting: from (exclusive) and to
  tqPending,  \* pending_chars, which counts bytes
  tqInside,   \* positions of the stream inside a character
  tqShown,    \* the chunks drained in the last frame or flush
  tqPushed,   \* bytes pushed so far
  tqReleased, \* bytes released before the last frame
  tqPanicked, \* a frame sliced a character and panicked: the queue is gone
  tqCount     \* chunks pushed

tqVars == <<tqBuffer, tqPending, tqInside, tqShown, tqPushed, tqReleased, tqPanicked, tqCount>>

ChunkSize(c) == c.to - c.from
TqUpto(chunks, k) ==
  LET size[n \in 0..Len(chunks)] == IF n = 0 THEN 0 ELSE size[n - 1] + ChunkSize(chunks[n])
  IN size[k]
TqTotal(chunks) == TqUpto(chunks, Len(chunks))
AtLeast(a, b) == IF a >= b THEN a ELSE b
AtMost(a, b) == IF a <= b THEN a ELSE b

TqInit ==
  /\ tqBuffer = << >> /\ tqPending = 0 /\ tqShown = << >>
  /\ tqPushed = 0 /\ tqReleased = 0 /\ tqCount = 0
  /\ tqInside = {} /\ tqPanicked = FALSE

(* push: empty text is ignored.                                              *)
TqPush(n, w) ==
  /\ ~tqPanicked /\ n % w = 0
  /\ tqCount < TqPushes /\ tqCount' = tqCount + 1
  /\ IF n = 0 THEN UNCHANGED <<tqBuffer, tqPending, tqPushed, tqInside>>
     ELSE /\ tqInside' = tqInside \cup {tqPushed + i : i \in {j \in 1..(n - 1) : j % w # 0}}
          /\ tqBuffer' = Append(tqBuffer, [from |-> tqPushed, to |-> tqPushed + n])
          /\ tqPending' = tqPending + n
          /\ tqPushed' = tqPushed + n
  /\ UNCHANGED <<tqShown, tqReleased, tqPanicked>>

(* adaptive_frame_budget                                                     *)
FrameBudget ==
  LET pace == AtLeast(tqPending \div 20, 6)
  IN IF tqPending = 0 THEN 0
     ELSE IF tqPending > 2000 THEN AtLeast(pace, 120)
     ELSE IF tqPending > 500 THEN AtLeast(pace, 36)
     ELSE AtMost(pace, tqPending)

WholeChunks(budget) == Max({k \in 0..Len(tqBuffer) : TqUpto(tqBuffer, k) <= budget})

\* Mutant of DrainFrame: the rest of a split chunk is not put back.
DrainFrameDroppingRest(budget) ==
  LET k == WholeChunks(budget)
      left == budget - TqUpto(tqBuffer, k)
      whole == SubSeq(tqBuffer, 1, k)
  IN IF k = Len(tqBuffer) \/ left = 0
       THEN [shown |-> whole, buffer |-> SubSeq(tqBuffer, k + 1, Len(tqBuffer))]
     ELSE [shown |-> Append(whole, [tqBuffer[k + 1] EXCEPT !.to = tqBuffer[k + 1].from + left]),
           buffer |-> SubSeq(tqBuffer, k + 2, Len(tqBuffer))]

(* drain_frame: as many whole chunks as the budget pays for, and of the next *)
(* one what is left of it; the rest of that one goes back to the front.      *)
DrainFrame(budget) ==
  LET k == WholeChunks(budget)
      left == budget - TqUpto(tqBuffer, k)
      next == tqBuffer[k + 1]
      whole == SubSeq(tqBuffer, 1, k)
  IN IF k = Len(tqBuffer) \/ left = 0
       THEN [shown |-> whole, buffer |-> SubSeq(tqBuffer, k + 1, Len(tqBuffer))]
     ELSE [shown |-> Append(whole, [from |-> next.from, to |-> next.from + left]),
           buffer |-> <<[from |-> next.from + left, to |-> next.to]>>
                        \o SubSeq(tqBuffer, k + 2, Len(tqBuffer))]

\* Where that frame slices the chunk it only takes a part of.
SlicesAt(budget) ==
  LET k == WholeChunks(budget)
      left == budget - TqUpto(tqBuffer, k)
  IN IF k = Len(tqBuffer) \/ left = 0 THEN {} ELSE {tqBuffer[k + 1].from + left}

(* tick_frame                                                                *)
TqTick ==
  /\ ~tqPanicked /\ tqBuffer # << >>
  /\ SlicesAt(FrameBudget) \cap tqInside = {}
  /\ LET d == DrainFrame(FrameBudget)
     IN /\ tqShown' = d.shown /\ tqBuffer' = d.buffer
        /\ tqPending' = tqPending - TqTotal(d.shown)
  /\ tqReleased' = tqReleased + TqTotal(tqShown)
  /\ UNCHANGED <<tqPushed, tqInside, tqPanicked, tqCount>>

(* tick_frame whose slice text[..take] is not at a character's boundary: it  *)
(* panics, and what this frame had taken from the queue is lost.             *)
TqTickPanics ==
  /\ ~tqPanicked /\ tqBuffer # << >>
  /\ SlicesAt(FrameBudget) \cap tqInside # {}
  /\ LET k == WholeChunks(FrameBudget)
     IN /\ tqBuffer' = SubSeq(tqBuffer, k + 2, Len(tqBuffer))
        /\ tqPending' = tqPending - TqUpto(tqBuffer, k)
  /\ tqPanicked' = TRUE
  /\ UNCHANGED <<tqShown, tqReleased, tqPushed, tqInside, tqCount>>

(* flush, when the turn ends or is interrupted                               *)
TqFlush ==
  /\ ~tqPanicked /\ tqBuffer # << >>
  /\ tqShown' = tqBuffer /\ tqBuffer' = << >> /\ tqPending' = 0
  /\ tqReleased' = tqReleased + TqTotal(tqShown)
  /\ UNCHANGED <<tqPushed, tqInside, tqPanicked, tqCount>>

TqNext == TqTick \/ TqTickPanics \/ TqFlush \/ \E n \in TqSizes, w \in TqWidths : TqPush(n, w)
TqSpec == TqInit /\ [][TqNext]_tqVars

-----------------------------------------------------------------------------
(* Until a frame panics, what is shown and what waits are the stream, in     *)
(* order, without a gap or a repetition, however chunks were split over      *)
(* frames, no frame ends inside a character, and as long as something waits, *)
(* a frame takes some of it.  Only a stream with characters of several bytes *)
(* makes a frame panic.                                                      *)
TqStreamKept ==
  /\ ~tqPanicked =>
       LET chunks == tqShown \o tqBuffer
       IN /\ \A i \in 1..Len(chunks) :
               /\ chunks[i].from = IF i = 1 THEN tqReleased ELSE chunks[i - 1].to
               /\ chunks[i].from < chunks[i].to
               /\ chunks[i].from \notin tqInside
          /\ tqReleased + TqTotal(chunks) = tqPushed
          /\ tqPending = TqTotal(tqBuffer)
          /\ tqPending > 0 => FrameBudget > 0
  /\ tqPanicked => tqInside # {}
=============================================================================
