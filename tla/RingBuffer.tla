----------------------------- MODULE RingBuffer -----------------------------
(* TerminalRingBuffer (pandamux-term/src/ring_buffer.rs): the bytes a        *)
(* terminal printed last, addressed by the offset each byte had in the whole *)
(* output.  Operators on a record, so that they can be proved about and used *)
(* by the module of the terminals.  Offsets are u64 in the code and do not   *)
(* wrap in practice; here they are naturals.                                 *)
EXTENDS Naturals, Sequences

CONSTANT RingCap
ASSUME RingCapAssumption == RingCap \in Nat \ {0}

RingEmpty == [buf |-> << >>, head |-> 0, tail |-> 0]

LastOf(s, n) == SubSeq(s, Len(s) - n + 1, Len(s))

RingWrite(r, data) ==
  LET head == r.head + Len(data)
      all  == r.buf \o data
  IN IF Len(data) >= RingCap
       THEN [buf |-> LastOf(data, RingCap), head |-> head, tail |-> head - RingCap]
     ELSE IF Len(all) > RingCap
       THEN [buf |-> LastOf(all, RingCap), head |-> head, tail |-> head - RingCap]
     ELSE [r EXCEPT !.buf = all, !.head = head]

\* Mutant of RingRead: a reader that fell behind is not told.
RingReadUntold(r, since) ==
  [offset |-> r.head, truncated |-> FALSE,
   bytes |-> IF since < r.tail THEN r.buf
             ELSE IF since <= r.head
               THEN SubSeq(r.buf, since - r.tail + 1, Len(r.buf))
             ELSE << >>]

(* What read_since(offset) returns. *)
RingRead(r, since) ==
  [offset |-> r.head,
   truncated |-> since < r.tail,
   bytes |-> IF since < r.tail THEN r.buf
             ELSE IF since <= r.head
               THEN SubSeq(r.buf, since - r.tail + 1, Len(r.buf))
             ELSE << >>]

(* The offsets frame the retained bytes, and no more than RingCap are kept.  *)
RingFramed(r) ==
  /\ Len(r.buf) = r.head - r.tail
  /\ r.tail <= r.head
  /\ Len(r.buf) <= RingCap
  /\ r.tail > 0 => Len(r.buf) = RingCap
=============================================================================
