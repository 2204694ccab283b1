-------------------------- MODULE Terminals_proofs ---------------------------
(* What TerminalRingBuffer keeps and returns, for every capacity, every       *)
(* output and every way the output is cut into writes; and from it, what a    *)
(* client's view of a terminal shows, for any number of opens and any output. *)
(* Last, what is seen, found and marked of a terminal, for every size,        *)
(* history, output and query.                                                 *)
EXTENDS Terminals, TerminalScreen, SequenceLemmas

Rings(S) == [buf : Seq(S), head : Nat, tail : Nat]

(* s is what comes after the first "from" elements of an output.              *)
IsEnd(s, from, out) ==
  /\ Len(out) = from + Len(s)
  /\ \A i \in 1..Len(s) : s[i] = out[from + i]

(* The ring holds the end of an output: all of it, or the last RingCap bytes. *)
Holds(r, out) ==
  /\ r.head = Len(out)
  /\ r.tail = IF Len(out) > RingCap THEN Len(out) - RingCap ELSE 0
  /\ IsEnd(r.buf, r.tail, out)

-----------------------------------------------------------------------------
(* A part of a sequence from a place on, as RingWrite and RingRead take it.   *)
LEMMA EndOfSequence ==
  ASSUME NEW S, NEW s \in Seq(S), NEW k \in 0..Len(s)
  PROVE  /\ SubSeq(s, k + 1, Len(s)) \in Seq(S)
         /\ IsEnd(SubSeq(s, k + 1, Len(s)), k, s)
<1>1. Len(s) \in Nat /\ k \in Nat /\ k <= Len(s)
  BY LenProperties
<1>2. k + 1 \in Int /\ Len(s) \in Int
  BY <1>1
<1>3. \A i \in (k + 1)..Len(s) : s[i] \in S
  BY <1>1, ElementOfSeq
<1> DEFINE end == SubSeq(s, k + 1, Len(s))
<1>4. /\ end \in Seq(S)
      /\ Len(end) = IF k + 1 <= Len(s) THEN Len(s) - (k + 1) + 1 ELSE 0
      /\ \A i \in 1..(Len(s) - (k + 1) + 1) : end[i] = s[(k + 1) + i - 1]
  <2> HIDE DEF end
  <2> QED BY <1>2, <1>3, SubSeqProperties DEF end
<1> HIDE DEF end
<1>5. Len(end) = Len(s) - k
  BY <1>1, <1>4
<1>6. \A i \in 1..Len(end) : end[i] = s[k + i]
  <2> SUFFICES ASSUME NEW i \in 1..Len(end) PROVE end[i] = s[k + i]
    OBVIOUS
  <2>1. i \in 1..(Len(s) - (k + 1) + 1) /\ (k + 1) + i - 1 = k + i
    BY <1>1, <1>5
  <2> QED BY <1>4, <2>1
<1>7. end \in Seq(S) /\ IsEnd(end, k, s)
  BY <1>1, <1>4, <1>5, <1>6 DEF IsEnd
<1> QED
  BY <1>7 DEF end

(* The end of an end.                                                         *)
LEMMA EndOfEnd ==
  ASSUME NEW S, NEW out \in Seq(S), NEW s \in Seq(S), NEW t \in Seq(S),
         NEW from \in Nat, NEW k \in Nat, IsEnd(s, from, out), IsEnd(t, k, s)
  PROVE  IsEnd(t, from + k, out)
<1>1. Len(out) \in Nat /\ Len(s) \in Nat /\ Len(t) \in Nat
  BY LenProperties
<1>2. Len(out) = from + Len(s) /\ Len(s) = k + Len(t)
  BY DEF IsEnd
<1>3. ASSUME NEW i \in 1..Len(t) PROVE t[i] = out[(from + k) + i]
  <2>1. k + i \in 1..Len(s) /\ from + (k + i) = (from + k) + i
    BY <1>1, <1>2
  <2>2. t[i] = s[k + i] /\ s[k + i] = out[from + (k + i)]
    BY <2>1 DEF IsEnd
  <2> QED BY <2>1, <2>2
<1> QED
  BY <1>1, <1>2, <1>3 DEF IsEnd

(* What is appended to an output is its end, and is appended to every end.    *)
LEMMA Appended ==
  ASSUME NEW S, NEW out \in Seq(S), NEW data \in Seq(S)
  PROVE  /\ out \o data \in Seq(S) /\ Len(out \o data) = Len(out) + Len(data)
         /\ IsEnd(data, Len(out), out \o data)
<1>1. /\ out \o data \in Seq(S) /\ Len(out \o data) = Len(out) + Len(data)
      /\ \A i \in 1..(Len(out) + Len(data)) :
           (out \o data)[i] = IF i <= Len(out) THEN out[i] ELSE data[i - Len(out)]
  BY ConcatProperties
<1>2. Len(out) \in Nat /\ Len(data) \in Nat
  BY LenProperties
<1> DEFINE all == out \o data
<1> HIDE DEF all
<1>3. ASSUME NEW i \in 1..Len(data) PROVE data[i] = all[Len(out) + i]
  <2>1. /\ Len(out) + i \in 1..(Len(out) + Len(data)) /\ ~(Len(out) + i <= Len(out))
        /\ (Len(out) + i) - Len(out) = i
    BY <1>2
  <2> QED BY <1>1, <2>1 DEF all
<1> QED
  BY <1>1, <1>3 DEF all, IsEnd

LEMMA AppendedToEnd ==
  ASSUME NEW S, NEW out \in Seq(S), NEW data \in Seq(S), NEW s \in Seq(S),
         NEW from \in Nat, IsEnd(s, from, out)
  PROVE  IsEnd(s \o data, from, out \o data)
<1> DEFINE long == s \o data
           all  == out \o data
<1>1. /\ Len(long) = Len(s) + Len(data)
      /\ \A i \in 1..(Len(s) + Len(data)) :
           long[i] = IF i <= Len(s) THEN s[i] ELSE data[i - Len(s)]
  BY ConcatProperties
<1>2. /\ Len(all) = Len(out) + Len(data)
      /\ \A i \in 1..(Len(out) + Len(data)) :
           all[i] = IF i <= Len(out) THEN out[i] ELSE data[i - Len(out)]
  BY ConcatProperties
<1>3. Len(out) \in Nat /\ Len(data) \in Nat /\ Len(s) \in Nat
  BY LenProperties
<1> HIDE DEF long, all
<1>4. Len(out) = from + Len(s)
  BY DEF IsEnd
<1>5. ASSUME NEW i \in 1..Len(long) PROVE long[i] = all[from + i]
  <2>1. i \in 1..(Len(s) + Len(data)) /\ from + i \in 1..(Len(out) + Len(data))
    BY <1>1, <1>3, <1>4
  <2>2. CASE i <= Len(s)
    <3>1. i \in 1..Len(s) /\ from + i <= Len(out)
      BY <1>3, <1>4, <2>1, <2>2
    <3> QED BY <1>1, <1>2, <2>1, <2>2, <3>1 DEF IsEnd
  <2>3. CASE ~(i <= Len(s))
    <3>1. ~(from + i <= Len(out)) /\ (from + i) - Len(out) = i - Len(s)
      BY <1>3, <1>4, <2>1, <2>3
    <3> QED BY <1>1, <1>2, <2>1, <2>3, <3>1
  <2> QED BY <2>2, <2>3
<1>6. Len(all) = from + Len(long)
  BY <1>1, <1>2, <1>3, <1>4
<1> QED
  BY <1>5, <1>6 DEF IsEnd, long, all

(* The last n elements, by the code's arithmetic.                             *)
LEMMA LastOfIsEnd ==
  ASSUME NEW S, NEW out \in Seq(S), NEW s \in Seq(S), NEW from \in Nat, IsEnd(s, from, out),
         NEW n \in 0..Len(s)
  PROVE  /\ LastOf(s, n) \in Seq(S) /\ Len(LastOf(s, n)) = n
         /\ IsEnd(LastOf(s, n), Len(out) - n, out)
<1>1. Len(s) \in Nat /\ Len(s) - n \in 0..Len(s) /\ Len(out) = from + Len(s)
  BY LenProperties DEF IsEnd
<1>2. /\ LastOf(s, n) \in Seq(S)
      /\ IsEnd(LastOf(s, n), Len(s) - n, s)
  BY <1>1, EndOfSequence DEF LastOf
<1>3. IsEnd(LastOf(s, n), from + (Len(s) - n), out)
  BY <1>1, <1>2, EndOfEnd
<1>4. from + (Len(s) - n) = Len(out) - n
  BY <1>1
<1>5. Len(LastOf(s, n)) \in Nat /\ Len(s) = (Len(s) - n) + Len(LastOf(s, n))
  BY <1>2, LenProperties DEF IsEnd
<1> QED
  BY <1>1, <1>2, <1>3, <1>4, <1>5

-----------------------------------------------------------------------------
(* A new ring holds the empty output.                                         *)
THEOREM EmptyHolds ==
  ASSUME NEW S
  PROVE  RingEmpty \in Rings(S) /\ Holds(RingEmpty, << >>)
BY EmptySeq, RingCapAssumption DEF RingEmpty, Rings, Holds, IsEnd

(* A write appends to the output that the ring holds the end of, whether the  *)
(* data fit, push old bytes out, or are longer than the ring themselves: the  *)
(* three branches of TerminalRingBuffer::write.                               *)
THEOREM WriteHolds ==
  ASSUME NEW S, NEW out \in Seq(S), NEW data \in Seq(S),
         NEW r \in Rings(S), Holds(r, out)
  PROVE  RingWrite(r, data) \in Rings(S) /\ Holds(RingWrite(r, data), out \o data)
<1> DEFINE all   == r.buf \o data
           whole == out \o data
           new   == RingWrite(r, data)
<1>1. r.buf \in Seq(S) /\ r.head \in Nat /\ r.tail \in Nat /\ r.head = Len(out)
  BY DEF Rings, Holds
<1>2. /\ whole \in Seq(S) /\ Len(whole) = Len(out) + Len(data)
      /\ IsEnd(data, Len(out), whole)
  BY Appended
<1>3. all \in Seq(S) /\ Len(all) = Len(r.buf) + Len(data)
  BY <1>1, Appended
<1>4. IsEnd(all, r.tail, whole)
  BY <1>1, AppendedToEnd DEF Holds
<1>5. /\ Len(out) \in Nat /\ Len(data) \in Nat /\ Len(whole) \in Nat /\ Len(all) \in Nat
      /\ RingCap \in Nat /\ Len(whole) = r.tail + Len(all)
  BY <1>2, <1>3, <1>4, LenProperties, RingCapAssumption DEF IsEnd
<1>6. Len(out) = r.tail + Len(r.buf) /\ Len(r.buf) \in Nat
  BY <1>1, LenProperties DEF Holds, IsEnd
<1>7. CASE Len(data) >= RingCap
  <2>1. new = [buf |-> LastOf(data, RingCap), head |-> Len(whole), tail |-> Len(whole) - RingCap]
    BY <1>1, <1>2, <1>7 DEF RingWrite
  <2>2. RingCap \in 0..Len(data)
    BY <1>5, <1>7
  <2>3. LastOf(data, RingCap) \in Seq(S) /\ IsEnd(LastOf(data, RingCap), Len(whole) - RingCap, whole)
    BY <1>2, <1>5, <2>2, LastOfIsEnd
  <2>4. /\ Len(whole) - RingCap \in Nat
        /\ Len(whole) - RingCap = IF Len(whole) > RingCap THEN Len(whole) - RingCap ELSE 0
    BY <1>2, <1>5, <1>7
  <2>5. /\ new.buf = LastOf(data, RingCap) /\ new.head = Len(whole) /\ new.tail = Len(whole) - RingCap
        /\ new \in Rings(S)
    BY <1>5, <2>1, <2>3, <2>4 DEF Rings
  <2> HIDE DEF new, whole
  <2>6. Holds(new, whole)
    BY <2>3, <2>4, <2>5, Zenon DEF Holds
  <2> QED BY <2>5, <2>6 DEF new, whole
<1>8. CASE ~(Len(data) >= RingCap) /\ Len(all) > RingCap
  <2>1. new = [buf |-> LastOf(all, RingCap), head |-> Len(whole), tail |-> Len(whole) - RingCap]
    BY <1>1, <1>2, <1>8 DEF RingWrite
  <2>2. RingCap \in 0..Len(all)
    BY <1>5, <1>8
  <2>3. LastOf(all, RingCap) \in Seq(S) /\ IsEnd(LastOf(all, RingCap), Len(whole) - RingCap, whole)
    BY <1>1, <1>2, <1>3, <1>4, <2>2, LastOfIsEnd
  <2>4. /\ Len(whole) - RingCap \in Nat
        /\ Len(whole) - RingCap = IF Len(whole) > RingCap THEN Len(whole) - RingCap ELSE 0
    BY <1>1, <1>5, <1>8
  <2>5. /\ new.buf = LastOf(all, RingCap) /\ new.head = Len(whole) /\ new.tail = Len(whole) - RingCap
        /\ new \in Rings(S)
    BY <1>5, <2>1, <2>3, <2>4 DEF Rings
  <2> HIDE DEF new, whole
  <2>6. Holds(new, whole)
    BY <2>3, <2>4, <2>5, Zenon DEF Holds
  <2> QED BY <2>5, <2>6 DEF new, whole
<1>9. CASE ~(Len(data) >= RingCap) /\ ~(Len(all) > RingCap)
  <2>1. new = [buf |-> all, head |-> Len(whole), tail |-> r.tail]
    BY <1>1, <1>2, <1>9 DEF RingWrite, Rings
  <2>2. /\ Len(out) > RingCap => r.tail = Len(out) - RingCap
        /\ ~(Len(out) > RingCap) => r.tail = 0
    BY DEF Holds
  <2>3. r.tail = IF Len(whole) > RingCap THEN Len(whole) - RingCap ELSE 0
    <3> HIDE DEF whole, all
    <3>1. Len(whole) > RingCap => r.tail = Len(whole) - RingCap
      BY <1>1, <1>2, <1>3, <1>5, <1>9, <1>6, <2>2
    <3>2. ~(Len(whole) > RingCap) => r.tail = 0
      BY <1>1, <1>2, <1>5, <1>9, <2>2
    <3> QED BY <3>1, <3>2
  <2>4. /\ new.buf = all /\ new.head = Len(whole) /\ new.tail = r.tail
        /\ new \in Rings(S)
    BY <1>1, <1>3, <1>5, <2>1 DEF Rings
  <2> HIDE DEF new, whole, all
  <2>5. Holds(new, whole)
    BY <1>4, <2>3, <2>4, Zenon DEF Holds
  <2> QED BY <2>4, <2>5 DEF new, whole
<1> QED
  BY <1>7, <1>8, <1>9

(* A ring that holds an output is framed by its offsets.                      *)
THEOREM HoldsFramed ==
  ASSUME NEW S, NEW out \in Seq(S), NEW r \in Rings(S), Holds(r, out)
  PROVE  RingFramed(r)
<1>1. /\ Len(out) \in Nat /\ Len(r.buf) \in Nat /\ r.tail \in Nat /\ r.head = Len(out)
      /\ Len(out) > RingCap => r.tail = Len(out) - RingCap
      /\ ~(Len(out) > RingCap) => r.tail = 0
      /\ Len(out) = r.tail + Len(r.buf)
  BY LenProperties DEF Holds, IsEnd, Rings
<1>2. RingCap \in Nat
  BY RingCapAssumption
<1>3. Len(r.buf) = r.head - r.tail /\ r.tail <= r.head
  BY <1>1
<1>4. Len(r.buf) <= RingCap
  BY <1>1, <1>2
<1>5. r.tail > 0 => Len(r.buf) = RingCap
  BY <1>1, <1>2
<1> QED
  BY <1>3, <1>4, <1>5, Zenon DEF RingFramed

(* What read_since returns to a reader that had seen the first "since" bytes: *)
(* every byte from there on, once and in order; or, if some of them are gone, *)
(* a note of it with all bytes that are left.  The offset it returns is where *)
(* the reader goes on from.                                                   *)
THEOREM ReadExact ==
  ASSUME NEW S, NEW out \in Seq(S), NEW r \in Rings(S), Holds(r, out),
         NEW since \in 0..Len(out)
  PROVE  LET read == RingRead(r, since)
         IN /\ read.offset = Len(out)
            /\ read.truncated <=> since < r.tail
            /\ IsEnd(read.bytes, IF read.truncated THEN r.tail ELSE since, out)
<1> DEFINE read == RingRead(r, since)
<1>1. /\ r.buf \in Seq(S) /\ r.head = Len(out) /\ r.tail \in Nat
      /\ IsEnd(r.buf, r.tail, out)
  BY DEF Rings, Holds
<1>2. Len(out) \in Nat /\ Len(r.buf) \in Nat /\ Len(out) = r.tail + Len(r.buf) /\ since \in Nat
  BY <1>1, LenProperties DEF IsEnd
<1>3. CASE since < r.tail
  <2>1. read = [offset |-> Len(out), truncated |-> TRUE, bytes |-> r.buf]
    BY <1>1, <1>3 DEF RingRead
  <2> HIDE DEF read
  <2> QED BY <1>1, <1>3, <2>1 DEF read
<1>4. CASE ~(since < r.tail)
  <2> DEFINE rest == SubSeq(r.buf, (since - r.tail) + 1, Len(r.buf))
  <2>1. since <= r.head
    BY <1>1, <1>2
  <2>2. read = [offset |-> Len(out), truncated |-> FALSE, bytes |-> rest]
    <3>1. read.bytes = rest
      BY <1>4, <2>1 DEF RingRead
    <3>2. read = [offset |-> r.head, truncated |-> (since < r.tail), bytes |-> read.bytes]
      BY Zenon DEF RingRead
    <3>3. (since < r.tail) = FALSE /\ r.head = Len(out)
      BY <1>1, <1>4
    <3> HIDE DEF read, rest
    <3> QED BY <3>1, <3>2, <3>3
  <2>3. since - r.tail \in 0..Len(r.buf) /\ since - r.tail \in Nat /\ r.tail + (since - r.tail) = since
    BY <1>1, <1>2, <1>4
  <2>4. rest \in Seq(S) /\ IsEnd(rest, since - r.tail, r.buf)
    BY <1>1, <2>3, EndOfSequence
  <2> HIDE DEF rest
  <2>5. IsEnd(rest, r.tail + (since - r.tail), out)
    BY <1>1, <2>3, <2>4, EndOfEnd
  <2> HIDE DEF read
  <2> QED BY <1>4, <2>2, <2>3, <2>5 DEF read
<1> QED
  BY <1>3, <1>4

-----------------------------------------------------------------------------
(* The terminals *)

(* A byte is named by its generation and its place.                           *)
Chars == TermGens \X Nat

(* What a grid is fed.                                                        *)
Fed == Chars \cup {Replacement}
TermViews(n) ==
  [shown : Seq(Fed), off : Nat, gens : SUBSET (1..n), from : Nat, cuts : SUBSET Nat]

TermRecs ==
  [child : {"none", "up", "exited"}, pty : BOOLEAN, read : Nat, broken : BOOLEAN, drained : Nat,
   batch : Seq(Chars), ring : Rings(Chars), drain : {"none", "top", "wait", "stop"},
   running : BOOLEAN]

TermTypes ==
  /\ tGen \in 0..TermOpens /\ tOpening \in 0..tGen /\ tSession \in 0..tGen
  /\ tTerm \in [TermGens -> TermRecs]
  /\ tView \in TermViews(tGen)

(* The ring holds the end of what was drained, up to the batch in hand; a     *)
(* batch is in hand only between the two halves of a drain round.             *)
TermDrained(g, t) ==
  /\ Holds(t.ring, Bytes(g, 0, t.ring.head))
  /\ t.ring.head <= t.drained /\ t.drained <= t.read
  /\ t.batch = Bytes(g, t.ring.head, t.drained)
  /\ t.drain = "wait" \/ t.ring.head = t.drained

(* The view ends at its offset, which the ring has reached.                   *)
TermShownFrom(g) ==
  /\ tView.off <= tTerm[g].ring.head /\ tView.from <= tView.off /\ tView.off \in tView.cuts
  /\ Shows(tView.shown, g, tView.from, tView.off, tView.cuts)

TermSeen ==
  /\ tView.gens = {} => /\ tView.off = 0 /\ tView.shown = << >>
                        /\ tView.from = 0 /\ tView.cuts = {0}
  /\ \A g \in TermGens : tView.gens = {g} => TermShownFrom(g)

TermInv == TermTypes /\ TermSeen /\ \A g \in TermGens : TermDrained(g, tTerm[g])

(* A stretch of a generation's output.                                        *)
LEMMA BytesAre ==
  ASSUME NEW g \in TermGens, NEW from \in Nat, NEW to \in Nat, from <= to
  PROVE  /\ Bytes(g, from, to) \in Seq(Chars) /\ Len(Bytes(g, from, to)) = to - from
         /\ \A i \in 1..(to - from) : Bytes(g, from, to)[i] = <<g, from + i>>
<1>1. to - from \in Nat
  OBVIOUS
<1>2. \A i \in 1..(to - from) : <<g, from + i>> \in Chars
  BY DEF Chars
<1>3. Bytes(g, from, to) \in [1..(to - from) -> Chars]
  BY <1>2 DEF Bytes
<1> QED
  BY <1>1, <1>3 DEF Bytes

LEMMA BytesFromStart ==
  ASSUME NEW g \in TermGens, NEW n \in Nat
  PROVE  /\ Bytes(g, 0, n) \in Seq(Chars) /\ Len(Bytes(g, 0, n)) = n
         /\ \A i \in 1..n : Bytes(g, 0, n)[i] = <<g, 0 + i>>
<1>1. 0 \in Nat /\ 0 <= n /\ n - 0 = n
  OBVIOUS
<1> QED
  BY <1>1, BytesAre

(* Two stretches that meet are one.                                           *)
LEMMA BytesMeet ==
  ASSUME NEW g \in TermGens, NEW n \in Nat, NEW m \in Nat, n <= m
  PROVE  Bytes(g, 0, n) \o Bytes(g, n, m) = Bytes(g, 0, m)
<1> DEFINE a == Bytes(g, 0, n)
           b == Bytes(g, n, m)
           c == Bytes(g, 0, m)
<1>1. a \in Seq(Chars) /\ Len(a) = n /\ \A i \in 1..n : a[i] = <<g, 0 + i>>
  BY BytesFromStart
<1>2. b \in Seq(Chars) /\ Len(b) = m - n /\ \A i \in 1..(m - n) : b[i] = <<g, n + i>>
  BY BytesAre
<1>3. c \in Seq(Chars) /\ Len(c) = m /\ \A i \in 1..m : c[i] = <<g, 0 + i>>
  BY BytesFromStart
<1> HIDE DEF a, b, c
<1>4. /\ a \o b \in Seq(Chars) /\ Len(a \o b) = Len(a) + Len(b)
      /\ \A i \in 1..(Len(a) + Len(b)) : (a \o b)[i] = IF i <= Len(a) THEN a[i] ELSE b[i - Len(a)]
  BY <1>1, <1>2, ConcatProperties
<1>5. Len(a) + Len(b) = m
  BY <1>1, <1>2
<1>6. ASSUME NEW i \in 1..m PROVE (a \o b)[i] = c[i]
  <2>1. (a \o b)[i] = IF i <= n THEN a[i] ELSE b[i - n]
    BY <1>1, <1>4, <1>5
  <2>2. c[i] = <<g, i>>
    BY <1>3
  <2>3. CASE i <= n
    <3>1. i \in 1..n /\ 0 + i = i
      BY <2>3
    <3> QED
      BY <1>1, <2>1, <2>2, <3>1
  <2>4. CASE ~(i <= n)
    <3>1. i - n \in 1..(m - n) /\ n + (i - n) = i
      BY <2>4
    <3> QED
      BY <1>2, <2>1, <2>2, <2>4, <3>1
  <2> QED
    BY <2>3, <2>4
<1>7. a \o b = c
  BY <1>3, <1>4, <1>5, <1>6, SeqEqual
<1> QED
  BY <1>7 DEF a, b, c

(* No stretch is empty output.                                                *)
LEMMA NoBytes == ASSUME NEW g \in TermGens, NEW n \in Nat PROVE Bytes(g, n, n) = << >>
<1>1. Bytes(g, n, n) \in Seq(Chars) /\ Len(Bytes(g, n, n)) = 0
  BY BytesAre
<1> QED
  BY <1>1, EmptySeq

(* Nothing has been opened.                                                   *)
LEMMA TermInitInv == TermInit => TermInv
<1> SUFFICES ASSUME TermInit PROVE TermInv
  OBVIOUS
<1>1. RingEmpty \in Rings(Chars) /\ Holds(RingEmpty, << >>) /\ RingEmpty.head = 0
  BY EmptyHolds DEF RingEmpty
<1>2. << >> \in Seq(Chars)
  BY EmptySeq
<1>3. NoTerm \in TermRecs
  BY <1>1, <1>2 DEF NoTerm, TermRecs
<1>4. TermTypes
  <2>1. << >> \in Seq(Fed)
    BY EmptySeq
  <2>2. tView \in TermViews(0)
    BY <2>1 DEF TermInit, TermViews
  <2> QED
    BY <1>3, <2>2, TermAssumption DEF TermInit, TermTypes
<1>5. \A g \in TermGens : TermDrained(g, tTerm[g])
  BY <1>1, NoBytes DEF TermInit, TermDrained, NoTerm
<1>6. TermSeen
  BY DEF TermInit, TermSeen
<1> QED
  BY <1>4, <1>5, <1>6 DEF TermInv

(* A step of one generation, and of no view: what it has to keep.             *)
LEMMA TermPutInv ==
  ASSUME TermInv, NEW g \in TermGens, NEW t \in TermRecs, Put(g, t), TermDrained(g, t),
         tView' = tView, tGen' \in tGen..TermOpens, tOpening' \in 0..tGen', tSession' \in 0..tGen',
         g \in 1..tGen => tTerm[g].ring.head <= t.ring.head
  PROVE  TermInv'
<1>1. /\ tTerm \in [TermGens -> TermRecs] /\ tGen \in 0..TermOpens /\ TermOpens \in Nat
      /\ tView \in TermViews(tGen)
  BY TermAssumption DEF TermInv, TermTypes
<1>2. /\ tTerm' \in [TermGens -> TermRecs]
      /\ \A h \in TermGens : tTerm'[h] = IF h = g THEN t ELSE tTerm[h]
  BY <1>1 DEF Put
<1>3. tGen' \in 0..TermOpens /\ 1..tGen \subseteq 1..tGen'
  BY <1>1
<1>4. TermTypes'
  <2>1. tView \in TermViews(tGen')
    BY <1>1, <1>3 DEF TermViews
  <2> QED
    BY <1>1, <1>2, <1>3, <2>1 DEF TermTypes
<1>5. ASSUME NEW h \in TermGens PROVE TermDrained(h, tTerm[h])'
  BY <1>2 DEF TermInv, TermDrained
<1>6. ASSUME NEW h \in TermGens, tView'.gens = {h} PROVE TermShownFrom(h)'
  <2>1. TermShownFrom(h)
    BY <1>6 DEF TermInv, TermSeen
  <2>2. tTerm[h] \in TermRecs /\ tTerm[h].ring.head \in Nat /\ t.ring.head \in Nat /\ tView.off \in Nat
    BY <1>1 DEF TermRecs, Rings, TermViews
  <2>3. h \in 1..tGen
    BY <1>1, <1>6 DEF TermViews
  <2>4. tTerm[h].ring.head <= tTerm'[h].ring.head
    BY <1>2, <2>2, <2>3
  <2>5. tTerm'[h].ring.head \in Nat
    BY <1>2, <2>2
  <2> QED
    BY <2>1, <2>2, <2>4, <2>5 DEF TermShownFrom
<1>7. TermSeen'
  BY <1>6 DEF TermInv, TermSeen
<1> QED
  BY <1>4, <1>5, <1>7 DEF TermInv

(* A generation of the map is one that was opened.                            *)
LEMMA TermKnown ==
  ASSUME TermInv
  PROVE  /\ tGen \in Nat /\ TermOpens \in Nat /\ tGen \in tGen..TermOpens
         /\ tSession # 0 => tSession \in TermGens /\ tSession \in 1..tGen
         /\ \A g \in TermGens :
              /\ tTerm[g] \in TermRecs /\ tTerm[g].ring \in Rings(Chars)
              /\ tTerm[g].ring.head \in Nat /\ tTerm[g].drained \in Nat /\ tTerm[g].read \in Nat
              /\ TermDrained(g, tTerm[g])
<1>1. TermTypes /\ TermOpens \in Nat /\ \A g \in TermGens : TermDrained(g, tTerm[g])
  BY TermAssumption DEF TermInv
<1>2. /\ tGen \in Nat /\ tGen \in tGen..TermOpens
      /\ tSession # 0 => tSession \in TermGens /\ tSession \in 1..tGen
  BY <1>1 DEF TermTypes, TermGens
<1>3. \A g \in TermGens : tTerm[g] \in TermRecs
  BY <1>1 DEF TermTypes
<1>4. \A t \in TermRecs : /\ t.ring \in Rings(Chars) /\ t.ring.head \in Nat
                          /\ t.drained \in Nat /\ t.read \in Nat
  BY DEF TermRecs, Rings
<1> QED
  BY <1>1, <1>2, <1>3, <1>4

LEMMA TermOpenSpawnInv == TermInv /\ TermOpenSpawn => TermInv'
<1> SUFFICES ASSUME TermInv, TermOpenSpawn PROVE TermInv'
  OBVIOUS
<1> DEFINE g == tGen + 1
           t == [NoTerm EXCEPT !.child = "up", !.pty = TRUE, !.drain = "top", !.running = TRUE]
<1>1. /\ tGen \in 0..TermOpens /\ TermOpens \in Nat /\ tGen < TermOpens
      /\ tSession \in 0..tGen /\ tGen' = g /\ tOpening' = g
      /\ Put(g, t) /\ tSession' = tSession /\ tView' = tView
  BY TermAssumption DEF TermInv, TermTypes, TermOpenSpawn
<1>2. g \in TermGens /\ g \notin 1..tGen /\ tGen' \in tGen..TermOpens
  BY <1>1 DEF TermGens
<1>3. tOpening' \in 0..tGen' /\ tSession' \in 0..tGen'
  BY <1>1
<1>4. RingEmpty \in Rings(Chars) /\ Holds(RingEmpty, << >>) /\ RingEmpty.head = 0
  BY EmptyHolds DEF RingEmpty
<1>5. << >> \in Seq(Chars)
  BY EmptySeq
<1>6. /\ NoTerm \in TermRecs /\ NoTerm.ring = RingEmpty /\ NoTerm.drained = 0 /\ NoTerm.read = 0
      /\ NoTerm.batch = << >>
  BY <1>4, <1>5 DEF TermRecs, NoTerm
<1>7. /\ t \in TermRecs /\ t.ring = RingEmpty /\ t.drained = 0 /\ t.read = 0
      /\ t.batch = << >>
  BY <1>6 DEF TermRecs
<1> HIDE DEF g, t
<1>8. TermDrained(g, t)
  <2>1. Bytes(g, 0, 0) = << >>
    BY <1>2, NoBytes
  <2> QED
    BY <1>4, <1>7, <2>1 DEF TermDrained
<1> QED
  BY <1>1, <1>2, <1>3, <1>7, <1>8, TermPutInv

(* No generation and no view changes.                                         *)
LEMMA TermQuietInv ==
  ASSUME TermInv, tTerm' = tTerm, tView' = tView, tGen' = tGen,
         tOpening' \in 0..tGen, tSession' \in 0..tGen
  PROVE  TermInv'
BY DEF TermInv, TermTypes, TermSeen, TermShownFrom, TermDrained

LEMMA TermCloseInv == TermInv /\ TermClose => TermInv'
<1> SUFFICES ASSUME TermInv, TermClose PROVE TermInv'
  OBVIOUS
<1> DEFINE g == tSession
           t == [tTerm[g] EXCEPT !.running = FALSE, !.pty = FALSE,
                   !.child = IF tTerm[g].child = "up" THEN "exited" ELSE tTerm[g].child]
<1>1. /\ tSession # 0 /\ Put(g, t) /\ tSession' = 0
      /\ tGen' = tGen /\ tOpening' = tOpening /\ tView' = tView
  BY DEF TermClose
<1>2. /\ g \in TermGens /\ tGen' \in tGen..TermOpens /\ tTerm[g] \in TermRecs
      /\ tTerm[g].ring.head \in Nat /\ TermDrained(g, tTerm[g])
  BY <1>1, TermKnown
<1>3. tOpening' \in 0..tGen' /\ tSession' \in 0..tGen'
  BY <1>1, TermKnown DEF TermInv, TermTypes
<1>4. /\ t \in TermRecs /\ t.ring = tTerm[g].ring /\ t.drained = tTerm[g].drained /\ t.read = tTerm[g].read
      /\ t.batch = tTerm[g].batch /\ t.drain = tTerm[g].drain
  BY <1>2 DEF TermRecs
<1> HIDE DEF t
<1>5. TermDrained(g, t) /\ tTerm[g].ring.head <= t.ring.head
  BY <1>2, <1>4 DEF TermDrained
<1> QED
  BY <1>1, <1>2, <1>3, <1>4, <1>5, TermPutInv

(* The steps of a child and of the two threads of its generation.             *)
LEMMA TermPrintInv ==
  ASSUME TermInv, NEW g \in TermGens, TermPrint(g), UNCHANGED <<tGen, tOpening, tSession, tView>>
  PROVE  TermInv'
<1> DEFINE t == [tTerm[g] EXCEPT !.read = tTerm[g].read + 1]
<1>1. Put(g, t)
  BY DEF TermPrint
<1>2. /\ tTerm[g] \in TermRecs /\ tTerm[g].ring.head \in Nat /\ tTerm[g].read \in Nat
      /\ tTerm[g].drained \in Nat /\ TermDrained(g, tTerm[g]) /\ tGen' \in tGen..TermOpens
  BY TermKnown
<1>3. tOpening' \in 0..tGen' /\ tSession' \in 0..tGen'
  BY DEF TermInv, TermTypes
<1>4. /\ t \in TermRecs /\ t.ring = tTerm[g].ring /\ t.drained = tTerm[g].drained
      /\ t.read = tTerm[g].read + 1 /\ t.batch = tTerm[g].batch /\ t.drain = tTerm[g].drain
  BY <1>2 DEF TermRecs
<1> HIDE DEF t
<1>5. TermDrained(g, t) /\ tTerm[g].ring.head <= t.ring.head
  BY <1>2, <1>4 DEF TermDrained
<1> QED
  BY <1>1, <1>2, <1>3, <1>4, <1>5, TermPutInv

LEMMA TermExitInv ==
  ASSUME TermInv, NEW g \in TermGens, TermExit(g), UNCHANGED <<tGen, tOpening, tSession, tView>>
  PROVE  TermInv'
<1> DEFINE t == [tTerm[g] EXCEPT !.child = "exited"]
<1>1. Put(g, t)
  BY DEF TermExit
<1>2. /\ tTerm[g] \in TermRecs /\ tTerm[g].ring.head \in Nat
      /\ TermDrained(g, tTerm[g]) /\ tGen' \in tGen..TermOpens
  BY TermKnown
<1>3. tOpening' \in 0..tGen' /\ tSession' \in 0..tGen'
  BY DEF TermInv, TermTypes
<1>4. /\ t \in TermRecs /\ t.ring = tTerm[g].ring /\ t.drained = tTerm[g].drained
      /\ t.read = tTerm[g].read /\ t.batch = tTerm[g].batch /\ t.drain = tTerm[g].drain
  BY <1>2 DEF TermRecs
<1> HIDE DEF t
<1>5. TermDrained(g, t) /\ tTerm[g].ring.head <= t.ring.head
  BY <1>2, <1>4 DEF TermDrained
<1> QED
  BY <1>1, <1>2, <1>3, <1>4, <1>5, TermPutInv

(* What the channel holds is taken: it follows what the ring holds.           *)
LEMMA TermDrainTopInv ==
  ASSUME TermInv, NEW g \in TermGens, TermDrainTop(g), UNCHANGED <<tGen, tOpening, tSession, tView>>
  PROVE  TermInv'
<1> DEFINE t0 == tTerm[g]
           all == [t0 EXCEPT !.batch = Bytes(g, t0.drained, t0.read), !.drained = t0.read]
           broken == [t0 EXCEPT !.broken = TRUE]
<1>1. PICK t : /\ Put(g, t)
               /\ t \in {[all EXCEPT !.drain = "wait"], [t0 EXCEPT !.drain = "wait"],
                         [broken EXCEPT !.drain = "wait"], [t0 EXCEPT !.drain = "stop"]}
  <2>1. CASE tTerm[g].running
    <3>1. PICK u \in DrainNewBytes(g) : Put(g, [u EXCEPT !.drain = "wait"])
      BY <2>1 DEF TermDrainTop
    <3>2. u \in {all, t0, broken}
      BY DEF DrainNewBytes
    <3> QED
      BY <3>1, <3>2
  <2>2. CASE ~tTerm[g].running
    BY <2>2 DEF TermDrainTop
  <2> QED
    BY <2>1, <2>2
<1>2. /\ t0 \in TermRecs /\ t0.ring.head \in Nat /\ t0.drained \in Nat /\ t0.read \in Nat
      /\ TermDrained(g, t0) /\ t0.drain = "top" /\ tGen' \in tGen..TermOpens
  BY TermKnown DEF TermDrainTop
<1>3. tOpening' \in 0..tGen' /\ tSession' \in 0..tGen'
  BY DEF TermInv, TermTypes
<1>4. t0.ring.head = t0.drained /\ t0.drained <= t0.read
  BY <1>2 DEF TermDrained
<1>5. Bytes(g, t0.drained, t0.read) \in Seq(Chars)
  BY <1>2, <1>4, BytesAre
<1>6. /\ t \in TermRecs /\ t.ring = t0.ring /\ t.read = t0.read /\ t.drain \in {"wait", "stop"}
      /\ \/ t.batch = t0.batch /\ t.drained = t0.drained
         \/ /\ t.batch = Bytes(g, t0.drained, t0.read) /\ t.drained = t0.read
            /\ t.drain = "wait"
  <2>1. CASE t = [all EXCEPT !.drain = "wait"]
    BY <1>2, <1>5, <2>1 DEF TermRecs
  <2>2. CASE t = [t0 EXCEPT !.drain = "wait"]
    BY <1>2, <2>2 DEF TermRecs
  <2>3. CASE t = [broken EXCEPT !.drain = "wait"]
    BY <1>2, <2>3 DEF TermRecs
  <2>4. CASE t = [t0 EXCEPT !.drain = "stop"]
    BY <1>2, <2>4 DEF TermRecs
  <2> QED
    BY <1>1, <2>1, <2>2, <2>3, <2>4
<1> HIDE DEF all, broken
<1>7. TermDrained(g, t) /\ t0.ring.head <= t.ring.head
  BY <1>2, <1>4, <1>6 DEF TermDrained
<1> QED
  BY <1>1, <1>2, <1>3, <1>6, <1>7, TermPutInv

(* The ring takes the batch.                                                  *)
LEMMA TermDrainWaitInv ==
  ASSUME TermInv, NEW g \in TermGens, TermDrainWait(g), UNCHANGED <<tGen, tOpening, tSession, tView>>
  PROVE  TermInv'
<1> DEFINE t0 == tTerm[g]
           exited == t0.child = "exited" /\ t0.pty
           ring == RingWrite(t0.ring, t0.batch)
           t == [t0 EXCEPT !.ring = ring, !.batch = << >>, !.running = t0.running /\ ~exited,
                           !.drain = IF exited THEN "stop" ELSE "top"]
<1>1. Put(g, t)
  BY DEF TermDrainWait
<1>2. /\ t0 \in TermRecs /\ t0.ring.head \in Nat /\ t0.drained \in Nat /\ t0.read \in Nat
      /\ t0.ring \in Rings(Chars) /\ TermDrained(g, t0) /\ tGen' \in tGen..TermOpens
  BY TermKnown
<1>3. tOpening' \in 0..tGen' /\ tSession' \in 0..tGen'
  BY DEF TermInv, TermTypes
<1>4. /\ t0.ring.head <= t0.drained /\ t0.drained <= t0.read
      /\ Holds(t0.ring, Bytes(g, 0, t0.ring.head)) /\ t0.batch = Bytes(g, t0.ring.head, t0.drained)
  BY <1>2 DEF TermDrained
<1>5. /\ Bytes(g, 0, t0.ring.head) \in Seq(Chars) /\ t0.batch \in Seq(Chars)
      /\ Bytes(g, 0, t0.drained) \in Seq(Chars) /\ Len(Bytes(g, 0, t0.drained)) = t0.drained
  BY <1>2, <1>4, BytesAre, BytesFromStart
<1>6. ring \in Rings(Chars) /\ Holds(ring, Bytes(g, 0, t0.drained)) /\ ring.head = t0.drained
  <2>1. ring \in Rings(Chars) /\ Holds(ring, Bytes(g, 0, t0.ring.head) \o t0.batch)
    BY <1>2, <1>4, <1>5, WriteHolds
  <2>2. Bytes(g, 0, t0.ring.head) \o t0.batch = Bytes(g, 0, t0.drained)
    BY <1>2, <1>4, BytesMeet
  <2> HIDE DEF ring
  <2> QED
    BY <1>5, <2>1, <2>2 DEF Holds
<1> HIDE DEF ring
<1>7. << >> \in Seq(Chars)
  BY EmptySeq
<1>8. /\ t \in TermRecs /\ t.ring = ring /\ t.batch = << >> /\ t.read = t0.read /\ t.drained = t0.drained
  BY <1>2, <1>6, <1>7 DEF TermRecs
<1> HIDE DEF t
<1>9. << >> = Bytes(g, t0.drained, t0.drained)
  BY <1>2, NoBytes
<1>10. TermDrained(g, t)
  BY <1>2, <1>4, <1>6, <1>8, <1>9 DEF TermDrained
<1>11. t0.ring.head <= t.ring.head
  BY <1>4, <1>6, <1>8
<1> QED
  BY <1>1, <1>2, <1>3, <1>8, <1>10, <1>11, TermPutInv

(* What attach shows is output, whatever offset it is asked from.             *)
LEMMA ReadTyped ==
  ASSUME NEW S, NEW r \in Rings(S), r.tail <= r.head, Len(r.buf) = r.head - r.tail, NEW since \in Nat
  PROVE  LET read == RingRead(r, since)
         IN read.bytes \in Seq(S) /\ read.offset \in Nat /\ read.offset = r.head
<1> DEFINE read == RingRead(r, since)
<1>1. r.buf \in Seq(S) /\ r.head \in Nat /\ r.tail \in Nat
  BY DEF Rings
<1>2. read.offset = r.head
  BY DEF RingRead
<1>3. CASE since < r.tail
  <2>1. read.bytes = r.buf
    BY <1>3 DEF RingRead
  <2> QED BY <1>1, <1>2, <2>1
<1>4. CASE ~(since < r.tail) /\ since <= r.head
  <2>1. since - r.tail \in 0..Len(r.buf)
    BY <1>1, <1>4
  <2>2. SubSeq(r.buf, (since - r.tail) + 1, Len(r.buf)) \in Seq(S)
    BY <1>1, <2>1, EndOfSequence
  <2>3. read.bytes = SubSeq(r.buf, (since - r.tail) + 1, Len(r.buf))
    BY <1>4 DEF RingRead
  <2> QED BY <1>1, <1>2, <2>2, <2>3
<1>5. CASE ~(since < r.tail) /\ ~(since <= r.head)
  <2>1. read.bytes = << >>
    BY <1>5 DEF RingRead
  <2> QED BY <1>1, <1>2, <2>1, EmptySeq
<1> QED
  BY <1>3, <1>4, <1>5

(* What LossyUtf8 makes of a stretch: nothing twice, nothing left out but     *)
(* what the ends of the stretch split.                                        *)
LEMMA LossyShows ==
  ASSUME NEW g \in TermGens, NEW from \in Nat, NEW to \in Nat, from <= to
  PROVE  LET data == LossyUtf8(Bytes(g, from, to))
         IN data \in Seq(Fed) /\ Shows(data, g, from, to, {from, to})
<1> DEFINE s == Bytes(g, from, to)
           n == to - from
           places == Places(s)
           kept == {j \in DOMAIN s : ~Swallowed(s, j)}
           data == [i \in kept |-> IF Whole(s, i) THEN s[i] ELSE Replacement]
<1>1. LossyUtf8(s) = data
  BY DEF LossyUtf8
<1>2. s \in Seq(Chars) /\ Len(s) = n /\ n \in Nat /\ \A i \in 1..n : s[i] = <<g, from + i>>
  <2>1. n \in Nat
    OBVIOUS
  <2>2. /\ Bytes(g, from, to) \in Seq(Chars) /\ Len(Bytes(g, from, to)) = to - from
        /\ \A i \in 1..(to - from) : Bytes(g, from, to)[i] = <<g, from + i>>
    BY BytesAre
  <2> QED
    BY <2>1, <2>2
<1>3. DOMAIN s = 1..n /\ \A i \in 1..n : s[i][2] = from + i
  BY <1>2
<1>4. places = (from + 1)..to
  <2> HIDE DEF s
  <2>1. \A p \in (from + 1)..to : p - from \in 1..n /\ from + (p - from) = p
    BY <1>2
  <2>2. \A i \in 1..n : from + i \in (from + 1)..to
    BY <1>2
  <2>3. ASSUME NEW p \in places PROVE p \in (from + 1)..to
    <3>1. PICK i \in 1..n : p = s[i][2]
      BY <1>3 DEF Places
    <3> QED
      BY <1>3, <2>2, <3>1
  <2>4. ASSUME NEW p \in (from + 1)..to PROVE p \in places
    <3>1. p - from \in 1..n /\ s[p - from][2] = p
      BY <1>3, <2>1
    <3> QED
      BY <1>3, <3>1 DEF Places
  <2> QED
    BY <2>3, <2>4
<1> HIDE DEF s
<1>5. ASSUME NEW i \in 1..n, ~Whole(s, i)
      PROVE  \E c \in {from, to} : CutsChar(c, from + i)
  <2>1. PICK q \in 1..TermOutput : SameChar(q, from + i) /\ q \notin (from + 1)..to
    BY <1>3, <1>4, <1>5 DEF Whole
  <2>2. from + i \in (from + 1)..to /\ q \in Nat /\ TermOutput \in Nat
    BY <1>2, TermAssumption
  <2>3. CASE q <= from
    <3>1. from \in q..((from + i) - 1)
      BY <2>2, <2>3
    <3> QED
      BY <2>1, <3>1 DEF CutsChar
  <2>4. CASE to < q
    <3>1. to \in (from + i)..(q - 1)
      BY <2>2, <2>4
    <3> QED
      BY <2>1, <3>1 DEF CutsChar
  <2> QED
    BY <2>1, <2>2, <2>3, <2>4
<1>6. ASSUME NEW i \in 1..n, Swallowed(s, i), NEW j \in 1..n, i <= j PROVE Swallowed(s, j)
  <2>1. PICK f \in places \cap TermStarts : SameChar(f, from + i)
    BY <1>3, <1>6 DEF Swallowed
  <2>2. PICK q \in 1..TermOutput : SameChar(q, from + i) /\ q \notin (from + 1)..to
    BY <1>3, <1>4, <1>6 DEF Swallowed, Whole
  <2>3. /\ f \in (from + 1)..to /\ f \in TermStarts /\ q \in Nat
        /\ from + i \in Nat /\ from + j \in Nat /\ from + i <= from + j /\ from + j <= to
        /\ from + i \notin TermStarts
    BY <1>2, <1>3, <1>4, <1>6, <2>1, TermAssumption DEF Swallowed
  <2>4. TermStarts \subseteq Nat
    BY TermAssumption
  <2>5. f <= from + i /\ f <= q
    BY <2>1, <2>2, <2>3 DEF SameChar
  <2>6. to < q
    BY <2>2, <2>3, <2>5
  <2>7. SameChar(from + i, from + j) /\ SameChar(q, from + j)
    BY <2>2, <2>3, <2>4, <2>6 DEF SameChar
  <2>8. SameChar(f, from + j)
    BY <2>1, <2>7 DEF SameChar
  <2>9. from + j \notin TermStarts
    BY <2>2, <2>3, <2>4, <2>6, <2>7 DEF SameChar
  <2>10. ~Whole(s, j)
    BY <1>3, <1>4, <2>2, <2>7 DEF Whole
  <2> QED
    BY <1>3, <2>1, <2>8, <2>9, <2>10 DEF Swallowed
<1>7. \E m \in 0..n : kept = 1..m
  <2> DEFINE gone == {i \in 1..n : Swallowed(s, i)}
  <2>1. CASE gone = {}
    BY <1>2, <1>3, <2>1
  <2>2. CASE gone # {}
    <3>1. PICK i \in gone : \A k \in gone : i <= k
      <4>1. gone \in SUBSET Nat
        BY <1>2
      <4> HIDE DEF gone
      <4> QED
        BY <2>2, <4>1, Smallest
    <3>2. \A j \in 1..n : Swallowed(s, j) <=> i <= j
      BY <1>6, <3>1
    <3>3. i \in 1..n /\ i - 1 \in 0..n
      BY <1>2, <3>1
    <3>4. kept = 1..(i - 1)
      BY <1>2, <1>3, <3>2, <3>3
    <3> QED
      BY <3>3, <3>4
  <2> QED
    BY <2>1, <2>2
<1>8. PICK m \in 0..n : kept = 1..m
  BY <1>7
<1>9. m \in Nat /\ 1..m \subseteq 1..n
  BY <1>2, <1>8
<1>10. \A i \in 1..m : data[i] = IF Whole(s, i) THEN <<g, from + i>> ELSE Replacement
  BY <1>2, <1>8, <1>9
<1>11. \A i \in 1..m : data[i] \in Fed
  <2>1. \A i \in 1..m : <<g, from + i>> \in Chars
    BY <1>2, <1>9 DEF Chars
  <2> QED
    BY <1>10, <2>1 DEF Fed
<1>12. data \in [1..m -> Fed]
  BY <1>8, <1>11
<1> HIDE DEF data, kept
<1>13. data \in Seq(Fed) /\ Len(data) = m
  BY <1>9, <1>12, FunctionIsSeq
<1>14. \A i \in 1..m : from + i \in (from + 1)..to
  BY <1>2, <1>9
<1>15. Replacement = <<0, 0>> /\ 0 \notin TermGens /\ \A p : <<g, p>> # Replacement
  BY DEF Replacement, TermGens
<1>16. Shows(data, g, from, to, {from, to})
  <2>1. ASSUME NEW i \in 1..m
        PROVE  \/ \E p \in (from + 1)..to : data[i] = <<g, p>>
               \/ data[i] = Replacement /\ \E p \in (from + 1)..to, c \in {from, to} : CutsChar(c, p)
    <3>1. CASE Whole(s, i)
      BY <1>10, <1>14, <3>1
    <3>2. CASE ~Whole(s, i)
      <4>1. \E c \in {from, to} : CutsChar(c, from + i)
        BY <1>5, <1>9, <3>2
      <4> QED
        BY <1>10, <1>14, <3>2, <4>1
    <3> QED
      BY <3>1, <3>2
  <2>2. ASSUME NEW i \in 1..m, NEW j \in 1..m, i < j, Replacement \notin {data[i], data[j]}
        PROVE  data[i][2] < data[j][2]
    <3>1. data[i] = <<g, from + i>> /\ data[j] = <<g, from + j>>
      BY <1>10, <2>2
    <3>2. from + i < from + j
      BY <1>9, <2>2
    <3> QED
      BY <3>1, <3>2
  <2>3. ASSUME NEW p \in (from + 1)..to
        PROVE  (\E i \in 1..m : data[i] = <<g, p>>) \/ \E c \in {from, to} : CutsChar(c, p)
    <3>1. p - from \in 1..n /\ from + (p - from) = p
      BY <1>2
    <3>2. CASE Whole(s, p - from)
      <4>1. ~Swallowed(s, p - from)
        BY <3>2 DEF Swallowed
      <4>2. p - from \in 1..m
        BY <1>3, <1>8, <3>1, <4>1 DEF kept
      <4> QED
        BY <1>10, <3>1, <3>2, <4>2
    <3>3. CASE ~Whole(s, p - from)
      <4>1. \E c \in {from, to} : CutsChar(c, from + (p - from))
        BY <1>5, <3>1, <3>3
      <4> QED
        BY <3>1, <4>1
    <3> QED
      BY <3>2, <3>3
  <2> QED
    BY <1>13, <2>1, <2>2, <2>3 DEF Shows
<1> QED
  BY <1>1, <1>13, <1>16 DEF s

(* Stretches that meet, each decoded on its own.                              *)
LEMMA ShowsMore ==
  ASSUME NEW g \in TermGens, NEW a \in Nat, NEW b \in Nat, NEW c \in Nat, a <= b, b <= c,
         NEW cuts \in SUBSET Nat, b \in cuts,
         NEW s \in Seq(Fed), NEW t \in Seq(Fed),
         Shows(s, g, a, b, cuts), Shows(t, g, b, c, {b, c})
  PROVE  Shows(s \o t, g, a, c, cuts \cup {c})
<1> DEFINE u == s \o t
<1>1. /\ Len(s) \in Nat /\ Len(t) \in Nat /\ Len(u) = Len(s) + Len(t)
      /\ \A i \in 1..(Len(s) + Len(t)) : u[i] = IF i <= Len(s) THEN s[i] ELSE t[i - Len(s)]
  BY ConcatProperties, LenProperties
<1> HIDE DEF u
<1>2. \A i \in 1..Len(s) : i \in 1..Len(u) /\ u[i] = s[i]
  BY <1>1
<1>3. \A i \in 1..Len(t) : Len(s) + i \in 1..Len(u) /\ u[Len(s) + i] = t[i]
  <2> SUFFICES ASSUME NEW i \in 1..Len(t) PROVE Len(s) + i \in 1..Len(u) /\ u[Len(s) + i] = t[i]
    OBVIOUS
  <2>1. Len(s) + i \in 1..(Len(s) + Len(t)) /\ ~(Len(s) + i <= Len(s)) /\ (Len(s) + i) - Len(s) = i
    BY <1>1
  <2> QED
    BY <1>1, <2>1
<1>4. \A i \in 1..Len(u) : (i \in 1..Len(s)) \/ (i - Len(s) \in 1..Len(t) /\ u[i] = t[i - Len(s)])
  BY <1>1
<1>5. (a + 1)..c = ((a + 1)..b) \cup ((b + 1)..c)
  OBVIOUS
<1>6. {b, c} \subseteq cuts \cup {c}
  OBVIOUS
<1>7. ASSUME NEW i \in 1..Len(u)
      PROVE  \/ \E p \in (a + 1)..c : u[i] = <<g, p>>
             \/ u[i] = Replacement /\ \E p \in (a + 1)..c, x \in cuts \cup {c} : CutsChar(x, p)
  <2>1. CASE i \in 1..Len(s)
    BY <1>2, <1>5, <2>1, Zenon DEF Shows
  <2>2. CASE i - Len(s) \in 1..Len(t) /\ u[i] = t[i - Len(s)]
    BY <1>5, <1>6, <2>2, Zenon DEF Shows
  <2> QED
    BY <1>4, <2>1, <2>2
<1>8. Replacement = <<0, 0>> /\ \A p : <<g, p>> # Replacement
  BY DEF Replacement, TermGens
<1>9. ASSUME NEW i \in 1..Len(u), NEW j \in 1..Len(u), i < j, Replacement \notin {u[i], u[j]}
      PROVE  u[i][2] < u[j][2]
  <2>1. CASE i \in 1..Len(s) /\ j \in 1..Len(s)
    BY <1>2, <1>9, <2>1 DEF Shows
  <2>2. CASE i \in 1..Len(s) /\ j - Len(s) \in 1..Len(t)
    <3>1. u[i] = s[i] /\ u[j] = t[j - Len(s)]
      BY <1>1, <1>2, <2>2
    <3>2. PICK p \in (a + 1)..b : s[i] = <<g, p>>
      BY <1>9, <2>2, <3>1, Zenon DEF Shows
    <3>3. PICK q \in (b + 1)..c : t[j - Len(s)] = <<g, q>>
      BY <1>9, <2>2, <3>1, Zenon DEF Shows
    <3>4. p < q
      OBVIOUS
    <3> QED
      BY <3>1, <3>2, <3>3, <3>4
  <2>3. CASE i - Len(s) \in 1..Len(t) /\ j - Len(s) \in 1..Len(t)
    <3>1. u[i] = t[i - Len(s)] /\ u[j] = t[j - Len(s)]
      BY <1>1, <2>3
    <3>2. i - Len(s) < j - Len(s)
      BY <1>1, <1>9
    <3> QED
      BY <1>9, <2>3, <3>1, <3>2 DEF Shows
  <2>4. \/ i \in 1..Len(s) /\ j \in 1..Len(s)
        \/ i \in 1..Len(s) /\ j - Len(s) \in 1..Len(t)
        \/ i - Len(s) \in 1..Len(t) /\ j - Len(s) \in 1..Len(t)
    BY <1>1, <1>9
  <2> QED
    BY <2>1, <2>2, <2>3, <2>4
<1>10. ASSUME NEW p \in (a + 1)..c
       PROVE  (\E i \in 1..Len(u) : u[i] = <<g, p>>) \/ \E x \in cuts \cup {c} : CutsChar(x, p)
  <2>1. CASE p \in (a + 1)..b
    <3>1. (\E i \in 1..Len(s) : s[i] = <<g, p>>) \/ \E x \in cuts : CutsChar(x, p)
      BY <2>1, Zenon DEF Shows
    <3> QED
      BY <1>2, <3>1
  <2>2. CASE p \in (b + 1)..c
    <3>1. (\E i \in 1..Len(t) : t[i] = <<g, p>>) \/ \E x \in {b, c} : CutsChar(x, p)
      BY <2>2, Zenon DEF Shows
    <3> QED
      BY <1>3, <1>6, <3>1
  <2> QED
    BY <1>5, <2>1, <2>2
<1> QED
  BY <1>7, <1>9, <1>10, Zenon DEF Shows, u

(* Whatever offset attach is asked from, it answers with a stretch of the     *)
(* output that ends where the ring ends: from that offset if the ring has it, *)
(* else from the first byte that is left.                                     *)
LEMMA AttachReads ==
  ASSUME NEW g \in TermGens, NEW ring \in Rings(Chars), ring.head \in Nat,
         Holds(ring, Bytes(g, 0, ring.head)), NEW since \in Nat
  PROVE  LET got == RingRead(ring, since)
             from == ring.head - Len(got.bytes)
         IN /\ got.offset = ring.head /\ got.truncated \in BOOLEAN
            /\ from \in 0..ring.head /\ got.bytes = Bytes(g, from, ring.head)
            /\ ~got.truncated /\ since <= ring.head => from = since
<1> DEFINE out == Bytes(g, 0, ring.head)
           got == RingRead(ring, since)
           from == ring.head - Len(got.bytes)
<1>1. /\ out \in Seq(Chars) /\ Len(out) = ring.head
      /\ \A i \in 1..ring.head : out[i] = <<g, 0 + i>>
  BY BytesFromStart
<1>2. got.offset = ring.head /\ got.truncated = (since < ring.tail) /\ ring.tail \in Nat
  BY DEF RingRead, Rings
<1>3. CASE since <= ring.head
  <2> DEFINE start == IF got.truncated THEN ring.tail ELSE since
  <2>1. since \in 0..Len(out)
    BY <1>1, <1>3
  <2>2. IsEnd(got.bytes, start, out)
    BY <1>1, <2>1, ReadExact
  <2>3. RingFramed(ring)
    BY <1>1, HoldsFramed
  <2>4. got.bytes \in Seq(Chars)
    BY <2>3, ReadTyped DEF RingFramed
  <2>5. start \in Nat /\ Len(got.bytes) \in Nat /\ ring.head = start + Len(got.bytes)
    <3>1. start \in Nat /\ Len(got.bytes) \in Nat
      BY <1>2, <2>4, LenProperties
    <3> QED
      BY <1>1, <2>2, <3>1 DEF IsEnd
  <2>6. \A i \in 1..Len(got.bytes) : got.bytes[i] = out[start + i]
    BY <2>2 DEF IsEnd
  <2>7. (got.truncated => start = ring.tail) /\ (~got.truncated => start = since)
    OBVIOUS
  <2> HIDE DEF start, got, out
  <2>8. from = start /\ from \in 0..ring.head
    BY <2>5
  <2>9. \A i \in 1..Len(got.bytes) : got.bytes[i] = <<g, start + i>>
    <3>1. \A i \in 1..Len(got.bytes) : start + i \in 1..ring.head /\ 0 + (start + i) = start + i
      BY <2>5
    <3> QED
      BY <1>1, <2>6, <3>1
  <2>10. /\ Bytes(g, start, ring.head) \in Seq(Chars) /\ Len(Bytes(g, start, ring.head)) = Len(got.bytes)
         /\ \A i \in 1..Len(got.bytes) : Bytes(g, start, ring.head)[i] = <<g, start + i>>
    <3>1. start <= ring.head /\ ring.head - start = Len(got.bytes)
      BY <2>5
    <3>2. /\ Bytes(g, start, ring.head) \in Seq(Chars) /\ Len(Bytes(g, start, ring.head)) = ring.head - start
          /\ \A i \in 1..(ring.head - start) : Bytes(g, start, ring.head)[i] = <<g, start + i>>
      BY <2>5, <3>1, BytesAre
    <3> QED
      BY <3>1, <3>2
  <2>11. got.bytes = Bytes(g, start, ring.head)
    BY <2>4, <2>9, <2>10, SeqEqual
  <2> QED
    BY <1>2, <2>7, <2>8, <2>11 DEF got
<1>4. CASE ~(since <= ring.head)
  <2>1. ~(since < ring.tail)
    <3>1. ring.tail <= ring.head
      BY <1>1, HoldsFramed DEF RingFramed
    <3> QED
      BY <1>2, <1>4, <3>1
  <2>2. got.bytes = << >>
    BY <1>4, <2>1 DEF RingRead
  <2>3. Len(got.bytes) = 0 /\ from = ring.head
    BY <2>2, EmptySeq
  <2>4. Bytes(g, ring.head, ring.head) = << >>
    BY NoBytes
  <2> HIDE DEF got, from
  <2>5. from \in 0..ring.head /\ got.bytes = Bytes(g, from, ring.head)
    BY <2>2, <2>3, <2>4
  <2>6. got.truncated \in BOOLEAN
    BY <1>2
  <2> QED
    BY <1>2, <1>4, <2>5, <2>6 DEF got, from
<1> QED
  BY <1>3, <1>4

(* A view that has seen only this generation, or none, goes on where it was,  *)
(* or starts over at the first byte that is left.                             *)
LEMMA TermAttachInv == TermInv /\ TermAttach => TermInv'
<1> SUFFICES ASSUME TermInv, TermAttach PROVE TermInv'
  OBVIOUS
<1> DEFINE g == tSession
           ring == tTerm[g].ring
           got == RingRead(ring, tView.off)
           data == LossyUtf8(got.bytes)
           from == ring.head - Len(got.bytes)
<1>1. /\ tTerm' = tTerm /\ tGen' = tGen /\ tOpening' = tOpening /\ tSession' = tSession
      /\ tSession # 0
      /\ tView' = [shown |-> IF got.truncated THEN data ELSE tView.shown \o data,
                   off |-> got.offset, gens |-> tView.gens \cup {g},
                   from |-> IF got.truncated THEN got.offset - Len(got.bytes) ELSE tView.from,
                   cuts |-> (IF got.truncated THEN {got.offset - Len(got.bytes)} ELSE tView.cuts)
                              \cup {got.offset}]
  BY DEF TermAttach, TermShown
<1>2. /\ g \in TermGens /\ g \in 1..tGen /\ ring \in Rings(Chars) /\ ring.head \in Nat
      /\ Holds(ring, Bytes(g, 0, ring.head))
  BY <1>1, TermKnown DEF TermDrained
<1>3. /\ tView.off \in Nat /\ tView.from \in Nat /\ tView.shown \in Seq(Fed)
      /\ tView.cuts \in SUBSET Nat /\ tView.gens \in SUBSET (1..tGen)
  BY DEF TermInv, TermTypes, TermViews
<1>4. /\ got.offset = ring.head /\ got.truncated \in BOOLEAN
      /\ from \in 0..ring.head /\ got.bytes = Bytes(g, from, ring.head)
      /\ ~got.truncated /\ tView.off <= ring.head => from = tView.off
  <2> HIDE DEF ring
  <2> QED
    BY <1>2, <1>3, AttachReads
<1>5. /\ data \in Seq(Fed) /\ Shows(data, g, from, ring.head, {from, ring.head})
      /\ from \in Nat /\ from <= ring.head
  <2>1. from \in Nat /\ from <= ring.head
    <3> HIDE DEF from, ring
    <3> QED BY <1>2, <1>4
  <2>2. LossyUtf8(Bytes(g, from, ring.head)) = data
    BY <1>4, Zenon
  <2> HIDE DEF from, data, ring
  <2>3. LossyUtf8(Bytes(g, from, ring.head)) \in Seq(Fed)
        /\ Shows(LossyUtf8(Bytes(g, from, ring.head)), g, from, ring.head, {from, ring.head})
    BY <1>2, <2>1, LossyShows
  <2> QED
    BY <2>1, <2>2, <2>3
<1>6. /\ tView'.off = ring.head /\ tView'.gens = tView.gens \cup {g}
      /\ tView'.shown = IF got.truncated THEN data ELSE tView.shown \o data
      /\ tView'.from = IF got.truncated THEN from ELSE tView.from
      /\ tView'.cuts = (IF got.truncated THEN {from} ELSE tView.cuts) \cup {ring.head}
      /\ tView' = [shown |-> tView'.shown, off |-> tView'.off, gens |-> tView'.gens,
                   from |-> tView'.from, cuts |-> tView'.cuts]
  <2>1. from = got.offset - Len(got.bytes)
    BY <1>4
  <2> HIDE DEF data, from, got
  <2> QED
    BY <1>1, <1>4, <2>1
<1> HIDE DEF ring, got, data, from
<1>7. TermTypes'
  <2>1. tView.shown \o data \in Seq(Fed)
    BY <1>3, <1>5, ConcatProperties
  <2>2. /\ tView'.shown \in Seq(Fed) /\ tView'.off \in Nat /\ tView'.from \in Nat
        /\ tView'.cuts \in SUBSET Nat /\ tView'.gens \in SUBSET (1..tGen)
    BY <1>2, <1>3, <1>5, <1>6, <2>1
  <2>3. tView' \in TermViews(tGen)
    BY <1>6, <2>2 DEF TermViews
  <2> QED
    BY <1>1, <2>3 DEF TermInv, TermTypes
<1>8. ASSUME tView'.gens = {g}
      PROVE  /\ tView'.off <= ring.head /\ tView'.from <= tView'.off /\ tView'.off \in tView'.cuts
             /\ Shows(tView'.shown, g, tView'.from, tView'.off, tView'.cuts)
  <2>1. tView.gens = {} \/ tView.gens = {g}
    BY <1>6, <1>8
  <2>2. /\ tView.off <= ring.head /\ tView.from <= tView.off /\ tView.off \in tView.cuts
        /\ Shows(tView.shown, g, tView.from, tView.off, tView.cuts)
    <3>1. CASE tView.gens = {}
      <4>1. tView.off = 0 /\ tView.shown = << >> /\ tView.from = 0 /\ tView.cuts = {0}
        BY <3>1 DEF TermInv, TermSeen
      <4>2. Shows(<< >>, g, 0, 0, {0})
        BY EmptySeq DEF Shows
      <4> QED
        BY <1>2, <4>1, <4>2
    <3>2. CASE tView.gens = {g}
      BY <1>2, <3>2 DEF TermInv, TermSeen, TermShownFrom, ring
    <3> QED
      BY <2>1, <3>1, <3>2
  <2>3. CASE got.truncated
    <3>1. /\ tView'.cuts = {from, ring.head} /\ tView'.shown = data /\ tView'.from = from
          /\ tView'.off = ring.head
      BY <1>6, <2>3
    <3>2. ring.head <= ring.head
      BY <1>2
    <3> QED
      BY <1>5, <3>1, <3>2, Zenon
  <2>4. CASE ~got.truncated
    <3>1. /\ tView'.shown = tView.shown \o data /\ tView'.from = tView.from
          /\ tView'.cuts = tView.cuts \cup {ring.head} /\ from = tView.off
          /\ tView'.off = ring.head
      BY <1>4, <1>6, <2>2, <2>4
    <3>2. Shows(tView.shown \o data, g, tView.from, ring.head, tView.cuts \cup {ring.head})
      BY <1>2, <1>3, <1>5, <2>2, <3>1, ShowsMore
    <3>3. tView.from <= ring.head
      BY <1>2, <1>3, <2>2
    <3>4. ring.head <= ring.head
      BY <1>2
    <3> QED
      BY <3>1, <3>2, <3>3, <3>4, Zenon
  <2> QED
    BY <1>4, <2>3, <2>4
<1>9. TermSeen'
  <2>1. g \in tView'.gens
    BY <1>6
  <2>2. ASSUME NEW h \in TermGens, tView'.gens = {h} PROVE TermShownFrom(h)'
    <3>1. h = g /\ tView'.gens = {g}
      BY <2>1, <2>2
    <3> QED
      BY <1>1, <1>8, <3>1 DEF TermShownFrom, ring
  <2> QED
    BY <2>1, <2>2 DEF TermSeen
<1> QED
  BY <1>1, <1>7, <1>9 DEF TermInv, TermDrained

LEMMA TermStepInv == TermInv /\ [TermNext]_tVars => TermInv'
<1> SUFFICES ASSUME TermInv, [TermNext]_tVars PROVE TermInv'
  OBVIOUS
<1>1. tOpening \in 0..tGen /\ tSession \in 0..tGen /\ 0 \in 0..tGen
  BY DEF TermInv, TermTypes
<1>2. CASE TermOpenSpawn
  BY <1>2, TermOpenSpawnInv
<1>3. CASE TermOpenInsert
  BY <1>1, <1>3, TermQuietInv DEF TermOpenInsert
<1>4. CASE TermInputBegin
  BY <1>1, <1>4, TermQuietInv DEF TermInputBegin
<1>5. CASE TermInputEnd
  BY <1>1, <1>5, TermQuietInv DEF TermInputEnd
<1>6. CASE TermClose
  BY <1>6, TermCloseInv
<1>7. CASE TermAttach
  BY <1>7, TermAttachInv
<1>8. ASSUME NEW g \in TermGens, TermGensStep(g) PROVE TermInv'
  BY <1>8, TermPrintInv, TermExitInv, TermDrainTopInv, TermDrainWaitInv DEF TermGensStep
<1>9. CASE UNCHANGED tVars
  BY <1>1, <1>9, TermQuietInv DEF tVars
<1> QED
  BY <1>2, <1>3, <1>4, <1>5, <1>6, <1>7, <1>8, <1>9 DEF TermNext

(* Every generation's ring holds exactly the end of what was drained, and a   *)
(* client that has seen one generation of a terminal, attaching whenever it   *)
(* likes, shows an unbroken stretch of its output but for the characters that *)
(* the ends of an answer split: for every capacity of the ring, any number of *)
(* opens and closes, any output in characters of any width, and every order   *)
(* of the child, the two threads and the calls.                               *)
THEOREM TermViewsUnbroken == TermSpec => []TermViewUnbroken
<1>1. TermInv => TermViewUnbroken
  <2> SUFFICES ASSUME TermInv, NEW g \in TermGens
               PROVE  LET r == tTerm[g].ring
                      IN /\ RingFramed(r) /\ r.buf = Bytes(g, r.tail, r.head)
                         /\ r.head + Len(tTerm[g].batch) = tTerm[g].drained
                         /\ tView.gens = {g} => Shows(tView.shown, g, tView.from, tView.off, tView.cuts)
    BY DEF TermViewUnbroken
  <2> DEFINE t == tTerm[g]
             r == t.ring
             out == Bytes(g, 0, r.head)
  <2>1. /\ r \in Rings(Chars) /\ r.head \in Nat /\ t.drained \in Nat /\ TermDrained(g, t)
    BY TermKnown
  <2>2. Holds(r, out) /\ r.head <= t.drained /\ t.batch = Bytes(g, r.head, t.drained)
    BY <2>1 DEF TermDrained
  <2>3. /\ out \in Seq(Chars) /\ Len(out) = r.head /\ \A i \in 1..r.head : out[i] = <<g, 0 + i>>
    <3>1. r.head \in Nat
      BY <2>1
    <3> HIDE DEF r
    <3> QED
      BY <3>1, BytesFromStart
  <2>4. RingFramed(r)
    BY <2>1, <2>2, <2>3, HoldsFramed
  <2>5. r.head + Len(t.batch) = t.drained
    <3>1. Len(t.batch) = t.drained - r.head
      <4>1. Len(Bytes(g, r.head, t.drained)) = t.drained - r.head
        <5> HIDE DEF r, t
        <5> QED BY <2>1, <2>2, BytesAre
      <4> QED
        BY <2>2, <4>1
    <3> QED
      BY <2>1, <3>1
  <2>6. r.buf = Bytes(g, r.tail, r.head)
    <3>1. r.buf \in Seq(Chars) /\ r.tail \in Nat /\ r.tail <= r.head /\ Len(r.buf) = r.head - r.tail
      BY <2>1, <2>4 DEF Rings, RingFramed
    <3>2. /\ Bytes(g, r.tail, r.head) \in Seq(Chars) /\ Len(Bytes(g, r.tail, r.head)) = r.head - r.tail
          /\ \A i \in 1..(r.head - r.tail) : Bytes(g, r.tail, r.head)[i] = <<g, r.tail + i>>
      <4> HIDE DEF r
      <4> QED BY <2>1, <3>1, BytesAre
    <3>3. ASSUME NEW i \in 1..Len(r.buf) PROVE r.buf[i] = Bytes(g, r.tail, r.head)[i]
      <4>1. r.buf[i] = out[r.tail + i]
        BY <2>2 DEF Holds, IsEnd
      <4>2. r.tail + i \in 1..r.head /\ 0 + (r.tail + i) = r.tail + i
        BY <2>1, <3>1
      <4>3. out[r.tail + i] = <<g, 0 + (r.tail + i)>>
        BY <2>3, <4>2
      <4> QED
        BY <3>1, <3>2, <4>1, <4>2, <4>3
    <3> QED
      BY <3>1, <3>2, <3>3, SeqEqual
  <2>7. tView.gens = {g} => TermShownFrom(g)
    BY DEF TermInv, TermSeen
  <2> QED
    BY <2>4, <2>5, <2>6, <2>7 DEF TermShownFrom
<1> QED
  BY <1>1, TermInitInv, TermStepInv, PTL DEF TermSpec

-----------------------------------------------------------------------------
(* What a terminal's output looks like.  TvScreenRight rests on TvInv: every  *)
(* row of the grid has the grid's columns, the cursor and the view are within *)
(* it, and the cells kept for drawing are those of the grid as it is.  The    *)
(* rest is what the functions over those cells do: how a row is drawn in      *)
(* runs, which cells of a row are drawn at all, and where a query is found.   *)

(* Runs of cells.  What the first n cells of a row are drawn as, the cursor   *)
(* being on its cell "under" if that is one of them.                          *)
TvSpans(S) == [text : Seq(S), look : [style : {"bold", "plain"}, cursor : BOOLEAN]]
TvTexts(spans) == [i \in 1..Len(spans) |-> spans[i].text]

TvDrawn(S, cells, under, spans, n) ==
  /\ spans \in Seq(TvSpans(S))
  /\ FlattenSeq(TvTexts(spans)) = SubSeq(cells, 1, n)
  /\ \A i \in 1..Len(spans) : spans[i].look.cursor => under \in 1..n /\ spans[i].text = <<cells[under]>>
  /\ under \in 1..n => \E i \in 1..Len(spans) : spans[i].look.cursor

LEMMA TvTextsAppend ==
  ASSUME NEW S, NEW spans \in Seq(TvSpans(S)), NEW span \in TvSpans(S)
  PROVE  /\ TvTexts(spans) \in Seq(Seq(S)) /\ span.text \in Seq(S)
         /\ TvTexts(Append(spans, span)) = Append(TvTexts(spans), span.text)
<1>1. span.text \in Seq(S)
  BY DEF TvSpans
<1>2. \A i \in 1..Len(spans) : spans[i].text \in Seq(S)
  <2>1. \A i \in 1..Len(spans) : spans[i] \in TvSpans(S)
    OBVIOUS
  <2> QED
    BY <2>1 DEF TvSpans
<1>3. TvTexts(spans) \in [1..Len(spans) -> Seq(S)]
  BY <1>2 DEF TvTexts
<1>4. TvTexts(spans) \in Seq(Seq(S)) /\ Len(TvTexts(spans)) = Len(spans)
  <2>1. Len(spans) \in Nat
    OBVIOUS
  <2> QED
    BY <1>3, <2>1, FunctionIsSeq
<1>5. TvTexts(Append(spans, span)) = Append(TvTexts(spans), span.text)
  <2> DEFINE a == Append(spans, span)
             b == Append(TvTexts(spans), span.text)
             m == Len(spans) + 1
  <2>1. Len(a) = m /\ a[m] = span /\ \A i \in 1..Len(spans) : a[i] = spans[i]
    OBVIOUS
  <2>2. b \in [1..m -> Seq(S)] /\ b[m] = span.text /\ \A i \in 1..Len(spans) : b[i] = TvTexts(spans)[i]
    BY <1>1, <1>4, AppendIs
  <2>3. \A i \in 1..Len(spans) : TvTexts(spans)[i] = spans[i].text
    BY DEF TvTexts
  <2>4. TvTexts(a) = [i \in 1..m |-> a[i].text]
    BY <2>1 DEF TvTexts
  <2>5. \A i \in 1..m : b[i] = a[i].text
    <3> TAKE i \in 1..m
    <3>1. i = m \/ i \in 1..Len(spans)
      OBVIOUS
    <3> QED
      BY <2>1, <2>2, <2>3, <3>1
  <2>6. TvTexts(a) = b
    <3> HIDE DEF a, b, m
    <3>1. DOMAIN b = 1..m
      BY <2>2
    <3>2. b = [i \in 1..m |-> b[i]]
      BY <2>2
    <3> QED
      BY <2>4, <2>5, <3>2
  <2> QED
    BY <2>6
<1> QED
  BY <1>1, <1>4, <1>5

LEMMA TvAppendLast == ASSUME NEW S PROVE \A a, b \in Seq(S), c \in S : a \o Append(b, c) = Append(a \o b, c)
<1> TAKE a, b \in Seq(S), c \in S
<1> QED
  OBVIOUS

\* One more cell joins the last run, or begins one.
TvWith(spans, cell, look) ==
  IF spans # << >> /\ Last(spans).look = look
  THEN Append(Front(spans), [text |-> Append(Last(spans).text, cell), look |-> look])
  ELSE Append(spans, [text |-> <<cell>>, look |-> look])

LEMMA TvDrawnMore ==
  ASSUME NEW S, NEW cells \in Seq(S), NEW under \in Nat, NEW n \in 0..(Len(cells) - 1), NEW spans,
         TvDrawn(S, cells, under, spans, n), NEW look \in [style : {"bold", "plain"}, cursor : BOOLEAN],
         look.cursor <=> under = n + 1, NEW more, more = TvWith(spans, cells[n + 1], look)
  PROVE  TvDrawn(S, cells, under, more, n + 1)
<1> DEFINE cell == cells[n + 1]
<1>1. spans \in Seq(TvSpans(S)) /\ cell \in S /\ Len(spans) \in Nat
  BY DEF TvDrawn
<1>2. SubSeq(cells, 1, n + 1) = Append(SubSeq(cells, 1, n), cell)
  OBVIOUS
<1>3. CASE spans # << >> /\ Last(spans).look = look
  <2> DEFINE front == Front(spans)
             last == Last(spans)
             grown == [text |-> Append(last.text, cell), look |-> look]
             k == Len(spans)
  <2>1. front \in Seq(TvSpans(S)) /\ last \in TvSpans(S) /\ spans = Append(front, last) /\ Len(front) = k - 1
        /\ k \in 1..k /\ last = spans[k] /\ \A i \in 1..(k - 1) : front[i] = spans[i]
    <3> DEFINE T == TvSpans(S)
    <3> HIDE DEF T
    <3>1. spans \in Seq(T) /\ spans # << >>
      BY <1>1, <1>3 DEF T
    <3>2. /\ Front(spans) \in Seq(T) /\ Last(spans) \in T /\ Last(spans) = spans[Len(spans)]
          /\ Len(spans) \in Nat \ {0} /\ Len(Front(spans)) = Len(spans) - 1
          /\ \A i \in 1..(Len(spans) - 1) : Front(spans)[i] = spans[i]
          /\ spans = Append(Front(spans), Last(spans))
      BY <3>1, LastIs
    <3>3. k \in 1..k
      BY <3>2
    <3> QED
      BY <3>2, <3>3 DEF T
  <2> HIDE DEF front, last
  <2>2. grown \in TvSpans(S) /\ last.text \in Seq(S) /\ grown.look = look /\ grown.text = Append(last.text, cell)
    <3>1. last.text \in Seq(S)
      BY <2>1 DEF TvSpans
    <3>2. Append(last.text, cell) \in Seq(S)
      BY <1>1, <3>1
    <3> QED
      BY <3>1, <3>2 DEF TvSpans
  <2>3. more = Append(front, grown)
    BY <1>3 DEF front, last, TvWith
  <2> HIDE DEF grown
  <2>4. more \in Seq(TvSpans(S)) /\ Len(more) = k /\ more[k] = grown /\ \A i \in 1..(k - 1) : more[i] = front[i]
    <3> DEFINE T == TvSpans(S)
    <3> HIDE DEF T
    <3>1. front \in Seq(T) /\ grown \in T
      BY <2>1, <2>2 DEF T
    <3>2. /\ Append(front, grown) \in Seq(T)
          /\ Len(Append(front, grown)) = Len(front) + 1 /\ Append(front, grown)[Len(front) + 1] = grown
          /\ \A i \in 1..Len(front) : Append(front, grown)[i] = front[i]
      BY <3>1, AppendIs
    <3>3. Len(front) = k - 1 /\ (k - 1) + 1 = k
      BY <1>1, <2>1
    <3> HIDE DEF k
    <3> QED
      BY <2>3, <3>2, <3>3 DEF T
  <2>5. FlattenSeq(TvTexts(more)) = Append(FlattenSeq(TvTexts(spans)), cell)
    <3> DEFINE ts == TvTexts(front)
               F == FlattenSeq(ts)
    <3>1. ts \in Seq(Seq(S)) /\ TvTexts(more) = Append(ts, grown.text)
      <4>1. front \in Seq(TvSpans(S)) /\ grown \in TvSpans(S)
        BY <2>1, <2>2
      <4>2. ts \in Seq(Seq(S)) /\ TvTexts(Append(front, grown)) = Append(ts, grown.text)
        BY <4>1, TvTextsAppend
      <4> QED
        BY <2>3, <4>2
    <3>2. TvTexts(spans) = Append(ts, last.text)
      <4>1. front \in Seq(TvSpans(S)) /\ last \in TvSpans(S) /\ spans = Append(front, last)
        BY <2>1
      <4>2. TvTexts(Append(front, last)) = Append(ts, last.text)
        BY <4>1, TvTextsAppend
      <4> QED
        BY <4>1, <4>2
    <3>3. grown.text \in Seq(S) /\ grown.text = Append(last.text, cell)
      BY <1>1, <2>2
    <3> HIDE DEF ts
    <3>4. F \in Seq(S) /\ FlattenSeq(TvTexts(more)) = F \o grown.text /\ FlattenSeq(TvTexts(spans)) = F \o last.text
      <4>1. \A t \in Seq(S) : FlattenSeq(ts) \in Seq(S) /\ FlattenSeq(Append(ts, t)) = FlattenSeq(ts) \o t
        BY <3>1, FlattenAppend
      <4> QED
        BY <2>2, <3>1, <3>2, <3>3, <4>1
    <3> HIDE DEF F
    <3>5. F \o Append(last.text, cell) = Append(F \o last.text, cell)
      <4>1. \A a, b \in Seq(S), c \in S : a \o Append(b, c) = Append(a \o b, c)
        BY TvAppendLast
      <4>2. F \in Seq(S) /\ last.text \in Seq(S) /\ cell \in S
        BY <1>1, <2>2, <3>4
      <4> HIDE DEF cell
      <4> QED
        BY <4>1, <4>2
    <3> QED
      BY <3>3, <3>4, <3>5
  <2>6. ~look.cursor
    <3>1. last.look = look /\ last = spans[k] /\ k \in 1..Len(spans)
      BY <1>3, <2>1 DEF last
    <3>2. ASSUME look.cursor PROVE FALSE
      <4>1. under \in 1..n
        BY <3>1, <3>2 DEF TvDrawn
      <4> QED
        BY <3>2, <4>1
    <3> QED
      BY <3>2
  <2>7. ASSUME NEW i \in 1..k PROVE more[i].look = spans[i].look
    <3>1. CASE i = k
      BY <1>3, <2>1, <2>2, <2>4, <3>1 DEF last
    <3>2. CASE i # k
      <4>1. i \in 1..(k - 1)
        BY <1>1, <3>2
      <4> QED
        BY <2>1, <2>4, <4>1
    <3> QED
      BY <3>1, <3>2
  <2>8. ASSUME NEW i \in 1..Len(more), more[i].look.cursor PROVE under \in 1..(n + 1) /\ more[i].text = <<cells[under]>>
    <3>1. i # k
      BY <2>2, <2>4, <2>6, <2>8
    <3>2. more[i] = spans[i] /\ i \in 1..Len(spans)
      <4>1. i \in 1..(k - 1) /\ i \in 1..k
        BY <1>1, <2>4, <3>1
      <4> QED
        BY <2>1, <2>4, <4>1
    <3>3. \A j \in 1..Len(spans) : spans[j].look.cursor => under \in 1..n /\ spans[j].text = <<cells[under]>>
      BY DEF TvDrawn
    <3>4. under \in 1..n /\ more[i].text = <<cells[under]>>
      BY <2>8, <3>2, <3>3
    <3> QED
      BY <3>4
  <2>9. ASSUME under \in 1..(n + 1) PROVE \E i \in 1..Len(more) : more[i].look.cursor
    <3>1. under \in 1..n
      BY <2>6, <2>9
    <3>2. PICK i \in 1..Len(spans) : spans[i].look.cursor
      BY <3>1 DEF TvDrawn
    <3> QED
      BY <2>4, <2>7, <3>2
  <2>10. FlattenSeq(TvTexts(more)) = SubSeq(cells, 1, n + 1)
    BY <1>2, <2>5 DEF TvDrawn
  <2> QED
    BY <2>4, <2>8, <2>9, <2>10 DEF TvDrawn
<1>4. CASE ~(spans # << >> /\ Last(spans).look = look)
  <2> DEFINE new == [text |-> <<cell>>, look |-> look]
             k == Len(spans)
  <2>1. new \in TvSpans(S) /\ new.look = look /\ new.text = <<cell>>
    BY <1>1 DEF TvSpans
  <2> HIDE DEF new
  <2>2. more = Append(spans, new)
    BY <1>4 DEF new, TvWith
  <2>3. more \in Seq(TvSpans(S)) /\ Len(more) = k + 1 /\ more[k + 1] = new /\ \A i \in 1..k : more[i] = spans[i]
    <3> DEFINE T == TvSpans(S)
    <3> HIDE DEF T
    <3>1. spans \in Seq(T) /\ new \in T
      BY <1>1, <2>1 DEF T
    <3>2. /\ Append(spans, new) \in Seq(T)
          /\ Len(Append(spans, new)) = Len(spans) + 1 /\ Append(spans, new)[Len(spans) + 1] = new
          /\ \A i \in 1..Len(spans) : Append(spans, new)[i] = spans[i]
      BY <3>1, AppendIs
    <3> QED
      BY <2>2, <3>2 DEF T
  <2>4. FlattenSeq(TvTexts(more)) = SubSeq(cells, 1, n + 1)
    <3> DEFINE ts == TvTexts(spans)
    <3>1. ts \in Seq(Seq(S)) /\ TvTexts(more) = Append(ts, new.text) /\ new.text \in Seq(S)
      BY <1>1, <2>1, <2>2, TvTextsAppend
    <3>2. FlattenSeq(ts) = SubSeq(cells, 1, n)
      BY DEF TvDrawn
    <3> HIDE DEF ts
    <3>3. FlattenSeq(TvTexts(more)) = SubSeq(cells, 1, n) \o <<cell>>
      <4>1. \A t \in Seq(S) : FlattenSeq(ts) \in Seq(S) /\ FlattenSeq(Append(ts, t)) = FlattenSeq(ts) \o t
        BY <3>1, FlattenAppend
      <4> QED
        BY <2>1, <3>1, <3>2, <4>1
    <3>4. SubSeq(cells, 1, n) \o <<cell>> = Append(SubSeq(cells, 1, n), cell)
      OBVIOUS
    <3> QED
      BY <1>2, <3>3, <3>4
  <2>5. ASSUME NEW i \in 1..Len(more), more[i].look.cursor PROVE under \in 1..(n + 1) /\ more[i].text = <<cells[under]>>
    <3>1. CASE i = k + 1
      <4>1. look.cursor /\ more[i].text = <<cell>>
        BY <2>1, <2>3, <2>5, <3>1
      <4> QED
        BY <4>1
    <3>2. CASE i # k + 1
      <4>1. i \in 1..k /\ more[i] = spans[i]
        BY <1>1, <2>3, <3>2
      <4> QED
        BY <2>5, <4>1 DEF TvDrawn
    <3> QED
      BY <3>1, <3>2
  <2>6. ASSUME under \in 1..(n + 1) PROVE \E i \in 1..Len(more) : more[i].look.cursor
    <3>1. CASE under = n + 1
      <4>1. k + 1 \in 1..Len(more) /\ more[k + 1].look.cursor
        BY <1>1, <2>1, <2>3, <3>1
      <4> QED
        BY <4>1
    <3>2. CASE under # n + 1
      <4>1. under \in 1..n
        BY <2>6, <3>2
      <4>2. PICK i \in 1..k : spans[i].look.cursor
        BY <4>1 DEF TvDrawn
      <4> QED
        BY <1>1, <2>3, <4>2
    <3> QED
      BY <3>1, <3>2
  <2> QED
    BY <2>3, <2>4, <2>5, <2>6 DEF TvDrawn
<1> QED
  BY <1>3, <1>4

TvLook(cells, row, seen, c) == [style |-> Style(cells[c]), cursor |-> seen.visible /\ seen.cursor = <<row, c>>]
TvBatching(cells, row, seen, spans, c) == TvWith(spans, cells[c], TvLook(cells, row, seen, c))
TvUnder(seen, row) == IF seen.visible /\ seen.cursor[1] = row THEN seen.cursor[2] ELSE 0

LEMMA TvBatchingKeeps ==
  ASSUME NEW S, NEW cells \in Seq(S), NEW row \in Nat, NEW seen, seen.visible \in BOOLEAN, seen.cursor \in Nat \X Nat,
         NEW n \in 0..(Len(cells) - 1), NEW spans, TvDrawn(S, cells, TvUnder(seen, row), spans, n)
  PROVE  TvDrawn(S, cells, TvUnder(seen, row), TvBatching(cells, row, seen, spans, n + 1), n + 1)
<1> DEFINE look == TvLook(cells, row, seen, n + 1)
           under == TvUnder(seen, row)
           more == TvBatching(cells, row, seen, spans, n + 1)
<1>1. look \in [style : {"bold", "plain"}, cursor : BOOLEAN]
  BY DEF TvLook, Style
<1>2. under \in Nat
  BY DEF TvUnder
<1>3. look.cursor <=> under = n + 1
  <2>1. PICK a \in Nat, b \in Nat : seen.cursor = <<a, b>>
    OBVIOUS
  <2>2. look.cursor <=> seen.visible /\ a = row /\ b = n + 1
    <3>1. <<a, b>> = <<row, n + 1>> <=> a = row /\ b = n + 1
      OBVIOUS
    <3>2. look.cursor = (seen.visible /\ seen.cursor = <<row, n + 1>>)
      BY DEF TvLook
    <3> HIDE DEF look
    <3> QED
      BY <2>1, <3>1, <3>2
  <2>3. under = IF seen.visible /\ a = row THEN b ELSE 0
    BY <2>1 DEF TvUnder
  <2> HIDE DEF look, under
  <2> QED
    BY <2>2, <2>3
<1>4. more = TvWith(spans, cells[n + 1], look)
  BY DEF TvBatching
<1> HIDE DEF look, under, more
<1>5. TvDrawn(S, cells, under, spans, n)
  BY DEF under
<1>6. TvDrawn(S, cells, under, more, n + 1)
  BY <1>1, <1>2, <1>3, <1>4, <1>5, TvDrawnMore
<1> QED
  BY <1>6 DEF under, more

LEMMA TvBatchingTyped ==
  ASSUME NEW S, NEW cells \in Seq(S), NEW row, NEW seen, seen.visible \in BOOLEAN, NEW n \in 1..Len(cells),
         NEW spans \in Seq(TvSpans(S))
  PROVE  TvBatching(cells, row, seen, spans, n) \in Seq(TvSpans(S))
<1> DEFINE look == TvLook(cells, row, seen, n)
           cell == cells[n]
           T == TvSpans(S)
<1>1. look \in [style : {"bold", "plain"}, cursor : BOOLEAN] /\ cell \in S
  BY DEF TvLook, Style
<1> HIDE DEF look, cell
<1>2. \A text \in Seq(S) : [text |-> text, look |-> look] \in T
  BY <1>1 DEF TvSpans
<1>3. <<cell>> \in Seq(S)
  BY <1>1
<1>4. \A s \in T : Append(s.text, cell) \in Seq(S)
  BY <1>1 DEF TvSpans
<1>5. spans \in Seq(T)
  OBVIOUS
<1> HIDE DEF T
<1>6. CASE spans # << >> /\ Last(spans).look = look
  <2>1. Front(spans) \in Seq(T) /\ Last(spans) \in T
    BY <1>5, <1>6, LastIs
  <2>2. [text |-> Append(Last(spans).text, cell), look |-> look] \in T
    BY <1>2, <1>4, <2>1
  <2>3. Append(Front(spans), [text |-> Append(Last(spans).text, cell), look |-> look]) \in Seq(T)
    BY <2>1, <2>2, AppendIs
  <2> QED
    BY <1>6, <2>3 DEF TvBatching, TvWith, look, cell, T
<1>7. CASE ~(spans # << >> /\ Last(spans).look = look)
  <2>1. Append(spans, [text |-> <<cell>>, look |-> look]) \in Seq(T)
    BY <1>2, <1>3, <1>5, AppendIs
  <2> QED
    BY <1>7, <2>1 DEF TvBatching, TvWith, look, cell, T
<1> QED
  BY <1>6, <1>7

LEMMA TvBatched ==
  ASSUME NEW S, NEW cells \in Seq(S), NEW row \in Nat, NEW seen, seen.visible \in BOOLEAN, seen.cursor \in Nat \X Nat
  PROVE  TvDrawn(S, cells, TvUnder(seen, row), BatchRow(cells, row, seen), Len(cells))
<1> DEFINE len == Len(cells)
           Look(c) == [style |-> Style(cells[c]), cursor |-> seen.visible /\ seen.cursor = <<row, c>>]
           spans[c \in 0..len] ==
             IF c = 0 THEN << >>
             ELSE IF spans[c - 1] # << >> /\ Last(spans[c - 1]).look = Look(c)
             THEN Append(Front(spans[c - 1]), [text |-> Append(Last(spans[c - 1]).text, cells[c]), look |-> Look(c)])
             ELSE Append(spans[c - 1], [text |-> <<cells[c]>>, look |-> Look(c)])
           T == Seq(TvSpans(S))
           step == [x \in (1..len) \X T |-> TvBatching(cells, row, seen, x[2], x[1])]
           f0 == CHOOSE f : f = [c \in 0..len |-> IF c = 0 THEN << >> ELSE TvBatching(cells, row, seen, f[c - 1], c)]
<1>0. len \in Nat
  OBVIOUS
<1>1. \E f \in [0..len -> T] : Steps(f, len, << >>, step)
  <2>1. step \in [((1..len) \X T) -> T]
    <3>1. ASSUME NEW x \in (1..len) \X T PROVE TvBatching(cells, row, seen, x[2], x[1]) \in T
      <4>1. x[1] \in 1..Len(cells) /\ x[2] \in Seq(TvSpans(S))
        OBVIOUS
      <4> QED
        BY <4>1, TvBatchingTyped
    <3> QED
      BY <3>1
  <2>2. << >> \in T /\ len \in Nat
    OBVIOUS
  <2> DEFINE start == << >>
  <2> HIDE DEF step, spans, f0, len, T, start
  <2>3. start \in T
    BY <2>2 DEF start
  <2>4. \E f \in [0..len -> T] : Steps(f, len, start, step)
    BY <2>1, <2>2, <2>3, Recursion
  <2> QED
    BY <2>4 DEF start
<1>2. PICK f \in [0..len -> T] : f = [c \in 0..len |-> IF c = 0 THEN << >> ELSE TvBatching(cells, row, seen, f[c - 1], c)]
  <2>1. PICK f \in [0..len -> T] : Steps(f, len, << >>, step)
    <3> HIDE DEF spans, step, f0
    <3> QED
      BY <1>1
  <2>2. ASSUME NEW n \in 0..len, n # 0 PROVE step[<<n, f[n - 1]>>] = TvBatching(cells, row, seen, f[n - 1], n)
    <3>1. n \in 1..len /\ f[n - 1] \in T
      BY <2>2
    <3> QED
      BY <3>1
  <2> HIDE DEF step, spans, f0
  <2>3. f = [n \in 0..len |-> IF n = 0 THEN << >> ELSE TvBatching(cells, row, seen, f[n - 1], n)]
    BY <2>1, <2>2 DEF Steps
  <2> QED
    BY <2>3
<1>3. f0 = [c \in 0..len |-> IF c = 0 THEN << >> ELSE TvBatching(cells, row, seen, f0[c - 1], c)]
  BY <1>2
<1>4. spans = f0
  BY DEF TvBatching, TvWith, TvLook
<1>5. BatchRow(cells, row, seen) = f0[len]
  BY <1>4 DEF BatchRow
<1> HIDE DEF f0, spans, step
<1> DEFINE P == {c \in 0..len : TvDrawn(S, cells, TvUnder(seen, row), f0[c], c)}
<1>6. 0 \in P
  <2>1. f0[0] = << >> /\ 0 \in 0..len
    BY <1>3
  <2>2. << >> \in Seq(TvSpans(S)) /\ \A g \in 1..Len(<< >>) : FALSE
    OBVIOUS
  <2>3. FlattenSeq(TvTexts(<< >>)) = << >> /\ SubSeq(cells, 1, 0) = << >>
    <3>1. TvTexts(<< >>) = << >>
      BY DEF TvTexts
    <3> QED
      BY <3>1, FlattenNone
  <2>4. TvDrawn(S, cells, TvUnder(seen, row), << >>, 0)
    BY <2>2, <2>3 DEF TvDrawn
  <2> QED
    BY <2>1, <2>4
<1>7. ASSUME NEW n \in 0..(len - 1), n \in P PROVE n + 1 \in P
  <2>0. TvDrawn(S, cells, TvUnder(seen, row), f0[n], n)
    BY <1>7
  <2>1. n + 1 \in 0..len /\ n + 1 # 0 /\ (n + 1) - 1 = n /\ n \in Nat
    <3>1. len \in Nat /\ n \in 0..(len - 1)
      BY <1>0
    <3> HIDE DEF len, P
    <3> QED
      BY <3>1
  <2>2. f0[n + 1] = TvBatching(cells, row, seen, f0[n], n + 1)
    BY <1>3, <2>1
  <2>3. TvDrawn(S, cells, TvUnder(seen, row), f0[n + 1], n + 1)
    BY <2>0, <2>2, TvBatchingKeeps
  <2> QED
    BY <2>1, <2>3
<1>8. len \in P
  <2> HIDE DEF P, len
  <2>1. len \in Nat
    BY DEF len
  <2>2. \A n \in 0..len : n \in P
    BY <1>6, <1>7, <2>1, Upto
  <2> QED
    BY <2>1, <2>2
<1> QED
  BY <1>5, <1>8

-----------------------------------------------------------------------------
(* Where a query is found in a line.                                          *)
TvHitting(line, query, exact, whole, hits, n) ==
  IF Matches(line, query, exact, whole, n) /\ (hits # << >> => Last(hits) + Len(query) <= n)
  THEN Append(hits, n) ELSE hits
TvFound(line, query, exact, whole, hits, n) ==
  /\ hits \in Seq(Nat)
  /\ \A h \in 1..Len(hits) : hits[h] \in 1..n /\ Matches(line, query, exact, whole, hits[h])
  /\ \A h, k \in 1..Len(hits) : h < k => hits[h] + Len(query) <= hits[k]
  /\ \A i \in 1..n : Matches(line, query, exact, whole, i) => \E h \in 1..Len(hits) : hits[h] <= i /\ i < hits[h] + Len(query)

LEMMA TvHittingKeeps ==
  ASSUME NEW line, NEW query, query \in Seq(STRING), NEW exact, NEW whole, NEW n \in Nat, NEW hits, TvFound(line, query, exact, whole, hits, n)
  PROVE  TvFound(line, query, exact, whole, TvHitting(line, query, exact, whole, hits, n + 1), n + 1)
<1> DEFINE more == TvHitting(line, query, exact, whole, hits, n + 1)
           k == Len(hits)
           len == Len(query)
           Is(i) == Matches(line, query, exact, whole, i)
           free == hits # << >> => Last(hits) + len <= n + 1
<1>1. /\ hits \in Seq(Nat) /\ k \in Nat /\ len \in Nat
      /\ \A h \in 1..k : hits[h] \in 1..n /\ Is(hits[h])
      /\ \A h, j \in 1..k : h < j => hits[h] + len <= hits[j]
      /\ \A i \in 1..n : Is(i) => \E h \in 1..k : hits[h] <= i /\ i < hits[h] + len
  BY DEF TvFound
<1>2. Is(n + 1) => len > 0
  <2>1. ASSUME Is(n + 1) PROVE len > 0
    <3>1. query # << >>
      BY <2>1 DEF Matches, Occurs
    <3> QED
      BY <1>1, <3>1, EmptySeq
  <2> QED
    BY <2>1
<1>3. more = IF Is(n + 1) /\ free THEN Append(hits, n + 1) ELSE hits
  BY DEF TvHitting
<1>4. hits # << >> => k \in 1..k /\ Last(hits) = hits[k]
  <2>1. ASSUME hits # << >> PROVE k \in 1..k /\ Last(hits) = hits[k]
    <3>1. hits \in Seq(Nat)
      BY <1>1
    <3>2. Last(hits) = hits[Len(hits)] /\ Len(hits) \in Nat \ {0}
      BY <2>1, <3>1, LastIs
    <3> QED
      BY <3>2
  <2> QED
    BY <2>1
<1> HIDE DEF more, Is
<1>5. CASE Is(n + 1) /\ free
  <2>1. more \in Seq(Nat) /\ Len(more) = k + 1 /\ more[k + 1] = n + 1 /\ \A i \in 1..k : more[i] = hits[i]
    <3>1. n + 1 \in Nat
      OBVIOUS
    <3>2. more = Append(hits, n + 1)
      BY <1>3, <1>5
    <3> QED
      BY <1>1, <3>1, <3>2, AppendIs
  <2>2. \A h \in 1..(k + 1) : more[h] \in 1..(n + 1) /\ Is(more[h])
    <3> TAKE h \in 1..(k + 1)
    <3>1. CASE h = k + 1
      BY <1>5, <2>1, <3>1
    <3>2. CASE h # k + 1
      <4>1. h \in 1..k
        BY <1>1, <3>2
      <4>2. more[h] = hits[h] /\ hits[h] \in 1..n /\ Is(hits[h])
        BY <1>1, <2>1, <4>1
      <4> QED
        BY <4>2
    <3> QED
      BY <3>1, <3>2
  <2>3. \A h \in 1..k : hits[h] + len <= n + 1
    <3> TAKE h \in 1..k
    <3>1. hits # << >>
      BY EmptySeq
    <3>2. hits[k] + len <= n + 1 /\ hits[h] \in Nat /\ hits[k] \in Nat
      BY <1>1, <1>4, <1>5, <3>1
    <3>3. CASE h = k
      BY <3>2, <3>3
    <3>4. CASE h < k
      <4>1. hits[h] + len <= hits[k]
        BY <1>1, <1>4, <3>1, <3>4
      <4> QED
        BY <1>1, <3>2, <4>1
    <3> QED
      BY <1>1, <3>3, <3>4
  <2>4. \A h, j \in 1..(k + 1) : h < j => more[h] + len <= more[j]
    <3> SUFFICES ASSUME NEW h \in 1..(k + 1), NEW j \in 1..(k + 1), h < j PROVE more[h] + len <= more[j]
      OBVIOUS
    <3>1. h \in 1..k /\ more[h] = hits[h]
      BY <1>1, <2>1
    <3>2. CASE j = k + 1
      BY <2>1, <2>3, <3>1, <3>2
    <3>3. CASE j # k + 1
      <4>0. k \in Nat
        BY <1>1
      <4>1. j \in 1..k
        <5> HIDE DEF k
        <5> QED
          BY <3>3, <4>0
      <4>2. more[j] = hits[j]
        BY <2>1, <4>1
      <4> QED
        BY <1>1, <3>1, <4>1, <4>2
    <3> QED
      BY <3>2, <3>3
  <2>5. ASSUME NEW i \in 1..(n + 1), Is(i) PROVE \E h \in 1..(k + 1) : more[h] <= i /\ i < more[h] + len
    <3>1. CASE i = n + 1
      <4>1. k + 1 \in 1..(k + 1) /\ more[k + 1] <= i /\ i < more[k + 1] + len
        BY <1>1, <1>2, <1>5, <2>1, <3>1
      <4> QED
        BY <4>1
    <3>2. CASE i # n + 1
      <4>1. i \in 1..n
        BY <3>2
      <4>2. PICK h \in 1..k : hits[h] <= i /\ i < hits[h] + len
        BY <1>1, <2>5, <4>1
      <4>3. h \in 1..(k + 1) /\ more[h] = hits[h]
        BY <1>1, <2>1
      <4> QED
        BY <4>2, <4>3
    <3> QED
      BY <3>1, <3>2
  <2> QED
    BY <2>1, <2>2, <2>4, <2>5 DEF TvFound, Is, more
<1>6. CASE ~(Is(n + 1) /\ free)
  <2>1. more = hits
    BY <1>3, <1>6
  <2>2. \A h \in 1..k : hits[h] \in 1..(n + 1)
    BY <1>1
  <2>3. ASSUME NEW i \in 1..(n + 1), Is(i) PROVE \E h \in 1..k : hits[h] <= i /\ i < hits[h] + len
    <3>1. CASE i = n + 1
      <4>1. hits # << >> /\ ~(Last(hits) + len <= n + 1)
        BY <1>6, <2>3, <3>1
      <4>2. k \in 1..k /\ Last(hits) = hits[k] /\ hits[k] \in 1..n
        BY <1>1, <1>4, <4>1
      <4>3. hits[k] <= i /\ i < hits[k] + len
        BY <1>1, <3>1, <4>1, <4>2
      <4> QED
        BY <4>2, <4>3
    <3>2. CASE i # n + 1
      <4>1. i \in 1..n
        BY <3>2
      <4> QED
        BY <1>1, <2>3, <4>1
    <3> QED
      BY <3>1, <3>2
  <2>4. TvFound(line, query, exact, whole, hits, n + 1)
    BY <1>1, <2>2, <2>3 DEF TvFound, Is
  <2> QED
    BY <2>1, <2>4 DEF more
<1> QED
  BY <1>5, <1>6

LEMMA TvFoundAll ==
  ASSUME NEW line, Len(line) \in Nat, NEW query, query \in Seq(STRING), NEW exact, NEW whole
  PROVE  TvFound(line, query, exact, whole, LineHits(line, query, exact, whole), Len(line))
<1> DEFINE len == Len(line)
           found[n \in 0..len] ==
             IF n = 0 THEN << >>
             ELSE IF /\ Matches(line, query, exact, whole, n)
                     /\ found[n - 1] # << >> => Last(found[n - 1]) + Len(query) <= n
             THEN Append(found[n - 1], n)
             ELSE found[n - 1]
           T == Seq(Nat)
           step == [x \in (1..len) \X T |-> TvHitting(line, query, exact, whole, x[2], x[1])]
           f0 == CHOOSE f : f = [n \in 0..len |-> IF n = 0 THEN << >> ELSE TvHitting(line, query, exact, whole, f[n - 1], n)]
<1>1. \E f \in [0..len -> T] : Steps(f, len, << >>, step)
  <2>1. step \in [((1..len) \X T) -> T]
    <3>1. ASSUME NEW x \in (1..len) \X T PROVE TvHitting(line, query, exact, whole, x[2], x[1]) \in T
      <4>1. x[1] \in Nat /\ x[2] \in Seq(Nat)
        OBVIOUS
      <4>2. Append(x[2], x[1]) \in Seq(Nat)
        BY <4>1
      <4> QED
        BY <4>1, <4>2 DEF TvHitting
    <3> QED
      BY <3>1
  <2>2. << >> \in T /\ len \in Nat
    OBVIOUS
  <2> DEFINE start == << >>
  <2> HIDE DEF step, found, f0, len, T, start
  <2>3. start \in T
    BY <2>2 DEF start
  <2>4. \E f \in [0..len -> T] : Steps(f, len, start, step)
    BY <2>1, <2>2, <2>3, Recursion
  <2> QED
    BY <2>4 DEF start
<1>2. PICK f \in [0..len -> T] : f = [n \in 0..len |-> IF n = 0 THEN << >> ELSE TvHitting(line, query, exact, whole, f[n - 1], n)]
  <2>1. PICK f \in [0..len -> T] : Steps(f, len, << >>, step)
    <3> HIDE DEF found, step, f0
    <3> QED
      BY <1>1
  <2>2. ASSUME NEW n \in 0..len, n # 0 PROVE step[<<n, f[n - 1]>>] = TvHitting(line, query, exact, whole, f[n - 1], n)
    <3>1. n \in 1..len /\ f[n - 1] \in T
      <4>0. len \in Nat
        OBVIOUS
      <4> HIDE DEF T, len, step, found, f0
      <4>1. n \in 1..len /\ n - 1 \in 0..len
        BY <2>2, <4>0
      <4> QED
        BY <4>1
    <3> QED
      BY <3>1
  <2> HIDE DEF step, found, f0
  <2>3. f = [n \in 0..len |-> IF n = 0 THEN << >> ELSE TvHitting(line, query, exact, whole, f[n - 1], n)]
    BY <2>1, <2>2 DEF Steps
  <2> QED
    BY <2>3
<1>3. f0 = [n \in 0..len |-> IF n = 0 THEN << >> ELSE TvHitting(line, query, exact, whole, f0[n - 1], n)]
  BY <1>2
<1>4. found = f0
  BY DEF TvHitting
<1>5. LineHits(line, query, exact, whole) = f0[len]
  BY <1>4 DEF LineHits
<1> HIDE DEF f0, found, step
<1> DEFINE P == {n \in 0..len : TvFound(line, query, exact, whole, f0[n], n)}
<1>6. 0 \in P
  <2>1. f0[0] = << >> /\ 0 \in 0..len
    BY <1>3
  <2>2. << >> \in Seq(Nat) /\ Len(<< >>) = 0
    OBVIOUS
  <2>3. TvFound(line, query, exact, whole, << >>, 0)
    BY <2>2 DEF TvFound
  <2> QED
    BY <2>1, <2>3
<1>7. \A n \in 0..(len - 1) : n \in P => n + 1 \in P
  <2> SUFFICES ASSUME NEW n \in 0..(len - 1), TvFound(line, query, exact, whole, f0[n], n)
               PROVE  TvFound(line, query, exact, whole, f0[n + 1], n + 1)
    OBVIOUS
  <2>1. n + 1 \in 0..len /\ n + 1 # 0 /\ (n + 1) - 1 = n /\ n \in Nat
    OBVIOUS
  <2>2. f0[n + 1] = TvHitting(line, query, exact, whole, f0[n], n + 1)
    BY <1>3, <2>1
  <2> QED
    BY <2>1, <2>2, TvHittingKeeps
<1>8. len \in P
  <2> HIDE DEF P, len
  <2>1. len \in Nat
    BY DEF len
  <2>2. \A n \in 0..len : n \in P
    BY <1>6, <1>7, <2>1, Upto
  <2> QED
    BY <2>1, <2>2
<1> QED
  BY <1>5, <1>8

-----------------------------------------------------------------------------
(* The grid: whatever is printed, its rows keep their columns, and the cursor *)
(* and the view stay within it.                                               *)
TvCells == {Letter, Capital, Dot, Wide, BlankCell} \cup Spacers
TvChars == {Letter, Capital, Dot, Wide, NewLine}

\* A grid in which every row has its columns and the view and the cursor are within it.
TvGridOf(g, rows, cols, lines, row, col, wraps, off) ==
  /\ g = [rows |-> rows, cols |-> cols, lines |-> lines, row |-> row, col |-> col, wraps |-> wraps, off |-> off]
  /\ rows \in Nat \ {0} /\ cols \in Nat \ {0, 1}
  /\ lines \in Seq([1..cols -> TvCells]) /\ rows <= Len(lines)
  /\ row \in 1..rows /\ col \in 1..cols /\ wraps \in BOOLEAN
  /\ off \in 0..(Len(lines) - rows)
TvGridOK(g) == \E rows, cols, lines, row, col, wraps, off : TvGridOf(g, rows, cols, lines, row, col, wraps, off)

LEMMA TvMin ==
  ASSUME NEW a \in Int, NEW b \in Int
  PROVE  Min({a, b}) = IF a <= b THEN a ELSE b
<1> DEFINE m == IF a <= b THEN a ELSE b
<1>1. m \in {a, b} /\ \A x \in {a, b} : m <= x
  OBVIOUS
<1>2. \A x \in {a, b} : (\A y \in {a, b} : x <= y) => x = m
  OBVIOUS
<1> HIDE DEF m
<1>3. Min({a, b}) = m
  BY <1>1, <1>2 DEF Min
<1> QED
  BY <1>3 DEF m

LEMMA TvFresh ==
  ASSUME NEW size \in (Nat \ {0}) \X (Nat \ {0, 1})
  PROVE  TvGridOK(FreshGrid(size))
<1>1. PICK rows \in Nat \ {0}, cols \in Nat \ {0, 1} : size = <<rows, cols>>
  OBVIOUS
<1> DEFINE T == [1..cols -> TvCells]
           lines == [r \in 1..rows |-> BlankRow(cols)]
<1>2. BlankRow(cols) \in T
  BY DEF BlankRow, TvCells
<1>3. lines \in Seq(T) /\ Len(lines) = rows
  <2> HIDE DEF T
  <2>1. lines \in [1..rows -> T]
    BY <1>2
  <2> HIDE DEF lines
  <2> QED
    BY <2>1, FunctionIsSeq
<1>4. FreshGrid(size) = [rows |-> rows, cols |-> cols, lines |-> lines, row |-> 1, col |-> 1, wraps |-> FALSE, off |-> 0]
  BY <1>1 DEF FreshGrid
<1>5. TvGridOf(FreshGrid(size), rows, cols, lines, 1, 1, FALSE, 0)
  <2> HIDE DEF lines
  <2> QED
    BY <1>3, <1>4 DEF TvGridOf
<1> QED
  BY <1>5 DEF TvGridOK

LEMMA TvNextRow ==
  ASSUME NEW rows, NEW cols, NEW lines, NEW row, NEW col, NEW wraps, NEW off, NEW g,
         TvGridOf(g, rows, cols, lines, row, col, wraps, off), TvHistory \in Nat
  PROVE  \E l, r, o : TvGridOf(NextRow(g), rows, cols, l, r, 1, FALSE, o)
<1> DEFINE T == [1..cols -> TvCells]
           blank == BlankRow(cols)
<1>1. /\ g = [rows |-> rows, cols |-> cols, lines |-> lines, row |-> row, col |-> col, wraps |-> wraps, off |-> off]
      /\ rows \in Nat \ {0} /\ cols \in Nat \ {0, 1} /\ lines \in Seq(T) /\ rows <= Len(lines)
      /\ row \in 1..rows /\ off \in 0..(Len(lines) - rows) /\ Len(lines) \in Nat /\ 1 \in 1..cols
  BY DEF TvGridOf
<1>2. blank \in T
  BY DEF BlankRow, TvCells
<1>3. CASE row < rows
  <2>1. NextRow(g) = [rows |-> rows, cols |-> cols, lines |-> lines, row |-> row + 1, col |-> 1, wraps |-> FALSE, off |-> off]
    BY <1>1, <1>3 DEF NextRow
  <2>2. row + 1 \in 1..rows
    BY <1>1, <1>3
  <2>3. TvGridOf(NextRow(g), rows, cols, lines, row + 1, 1, FALSE, off)
    BY <1>1, <2>1, <2>2 DEF TvGridOf
  <2> QED
    BY <2>3
<1>4. CASE ~(row < rows)
  <2> DEFINE grown == Append(lines, blank)
             l == IF Len(grown) > rows + TvHistory THEN Tail(grown) ELSE grown
             o == IF off = 0 THEN 0 ELSE Min({off + 1, TvHistory})
  <2>1. NextRow(g) = [rows |-> rows, cols |-> cols, lines |-> l, row |-> row, col |-> 1, wraps |-> FALSE, off |-> o]
    BY <1>1, <1>4 DEF NextRow
  <2>2. grown \in Seq(T) /\ Len(grown) = Len(lines) + 1
    <3> HIDE DEF T, blank
    <3> QED
      BY <1>1, <1>2, AppendIs
  <2>3. l \in Seq(T) /\ Len(l) = IF Len(lines) + 1 > rows + TvHistory THEN Len(lines) ELSE Len(lines) + 1
    <3> HIDE DEF T, grown
    <3>1. grown # << >>
      BY <1>1, <2>2, EmptySeq
    <3>2. Tail(grown) \in Seq(T) /\ Len(Tail(grown)) = Len(grown) - 1
      BY <2>2, <3>1
    <3> QED
      BY <1>1, <2>2, <3>2
  <2>4. o = IF off = 0 THEN 0 ELSE IF off + 1 <= TvHistory THEN off + 1 ELSE TvHistory
    <3>1. off + 1 \in Int /\ TvHistory \in Int
      BY <1>1
    <3> QED
      BY <3>1, TvMin
  <2> HIDE DEF l, o, grown
  <2>5. rows <= Len(l) /\ o \in 0..(Len(l) - rows)
    BY <1>1, <2>3, <2>4
  <2>6. TvGridOf(NextRow(g), rows, cols, l, row, 1, FALSE, o)
    BY <1>1, <2>1, <2>3, <2>5 DEF TvGridOf
  <2> QED
    BY <2>6
<1> QED
  BY <1>3, <1>4

LEMMA TvWritten ==
  ASSUME NEW rows, NEW cols, NEW lines, NEW row, NEW col, NEW wraps, NEW off, NEW g,
         TvGridOf(g, rows, cols, lines, row, col, wraps, off), NEW cells \in Seq(TvCells)
  PROVE  \E l, c, w : TvGridOf(Written(g, cells), rows, cols, l, row, c, w, off)
<1> DEFINE T == [1..cols -> TvCells]
           line == Len(lines) - rows + row
           put == [c \in 1..cols |-> IF c \in col..(col + Len(cells) - 1)
                                     THEN cells[c - col + 1] ELSE lines[line][c]]
           l == [lines EXCEPT ![line] = put]
           c1 == Min({cols, col + Len(cells)})
           w == col + Len(cells) > cols
<1>1. /\ g = [rows |-> rows, cols |-> cols, lines |-> lines, row |-> row, col |-> col, wraps |-> wraps, off |-> off]
      /\ rows \in Nat \ {0} /\ cols \in Nat \ {0, 1} /\ lines \in Seq(T) /\ rows <= Len(lines)
      /\ row \in 1..rows /\ col \in 1..cols /\ off \in 0..(Len(lines) - rows) /\ Len(lines) \in Nat /\ Len(cells) \in Nat
  BY DEF TvGridOf
<1>2. line \in 1..Len(lines)
  BY <1>1
<1>3. lines[line] \in T
  <2> HIDE DEF T, line
  <2> QED
    BY <1>1, <1>2
<1>4. put \in T
  <2>1. ASSUME NEW c \in 1..cols PROVE put[c] \in TvCells
    <3>1. CASE c \in col..(col + Len(cells) - 1)
      <4>1. c - col + 1 \in 1..Len(cells)
        BY <1>1, <3>1
      <4>2. cells[c - col + 1] \in TvCells
        BY <4>1
      <4> QED
        BY <3>1, <4>2
    <3>2. CASE c \notin col..(col + Len(cells) - 1)
      <4>1. lines[line][c] \in TvCells
        BY <1>3
      <4> QED
        BY <3>2, <4>1
    <3> QED
      BY <3>1, <3>2
  <2> QED
    BY <2>1
<1>5. Written(g, cells) = [rows |-> rows, cols |-> cols, lines |-> l, row |-> row, col |-> c1, wraps |-> w, off |-> off]
  <2>1. g.rows = rows /\ g.cols = cols /\ g.lines = lines /\ g.row = row /\ g.col = col /\ g.off = off
    BY <1>1
  <2> DEFINE wr == [g EXCEPT !.lines = [g.lines EXCEPT ![line] = put], !.col = Min({g.cols, @ + Len(cells)}), !.wraps = g.col + Len(cells) > g.cols]
  <2>2. Written(g, cells) = wr
    BY <2>1 DEF Written
  <2> HIDE DEF put, line
  <2>3. wr = [rows |-> rows, cols |-> cols, lines |-> l, row |-> row, col |-> c1, wraps |-> w, off |-> off]
    <3>1. wr = [g EXCEPT !.lines = l, !.col = c1, !.wraps = w]
      BY <2>1
    <3> HIDE DEF l, c1, w
    <3>2. g \in [rows : {rows}, cols : {cols}, lines : {lines}, row : {row}, col : {col}, wraps : {wraps}, off : {off}]
      BY <1>1
    <3>3. [g EXCEPT !.lines = l, !.col = c1, !.wraps = w]
            \in [rows : {rows}, cols : {cols}, lines : {l}, row : {row}, col : {c1}, wraps : {w}, off : {off}]
      BY <3>2
    <3> HIDE DEF wr
    <3> QED
      BY <3>1, <3>3
  <2> QED
    BY <2>2, <2>3
<1>6. l \in Seq(T) /\ Len(l) = Len(lines)
  <2> HIDE DEF T, put, line
  <2>1. lines \in [1..Len(lines) -> T]
    BY <1>1
  <2>2. l \in [1..Len(lines) -> T]
    BY <1>4, <2>1
  <2> HIDE DEF l
  <2> QED
    BY <1>1, <2>2, FunctionIsSeq
<1>7. c1 \in 1..cols
  <2>1. cols \in Int /\ col + Len(cells) \in Int
    BY <1>1
  <2>2. c1 = IF cols <= col + Len(cells) THEN cols ELSE col + Len(cells)
    BY <2>1, TvMin
  <2> QED
    BY <1>1, <2>2
<1> HIDE DEF l, c1
<1>8. w \in BOOLEAN
  OBVIOUS
<1> HIDE DEF w
<1>9. TvGridOf(Written(g, cells), rows, cols, l, row, c1, w, off)
  BY <1>1, <1>5, <1>6, <1>7, <1>8 DEF TvGridOf
<1> QED
  BY <1>9

LEMMA TvPrinted ==
  ASSUME NEW g, TvGridOK(g), TvHistory \in Nat, NEW c \in TvChars
  PROVE  TvGridOK(Printed(g, c))
<1>1. ASSUME NEW h, TvGridOK(h) PROVE TvGridOK(NextRow(h))
  BY <1>1, TvNextRow DEF TvGridOK
<1>2. ASSUME NEW h, TvGridOK(h), NEW cells \in Seq(TvCells) PROVE TvGridOK(Written(h, cells))
  BY <1>2, TvWritten DEF TvGridOK
<1> DEFINE start == IF g.wraps THEN NextRow(g) ELSE g
<1>3. TvGridOK(start)
  BY <1>1
<1>4. start.col \in 1..start.cols /\ start.cols \in Nat
  <2>1. PICK rows, cols, lines, row, col, wraps, off : TvGridOf(start, rows, cols, lines, row, col, wraps, off)
    BY <1>3 DEF TvGridOK
  <2> HIDE DEF start
  <2>2. start.col = col /\ start.cols = cols /\ col \in 1..cols /\ cols \in Nat
    BY <2>1 DEF TvGridOf
  <2> QED
    BY <2>2
<1> HIDE DEF start
<1>5. <<"l">> \in Seq(TvCells) /\ <<Wide, "w">> \in Seq(TvCells) /\ \A x \in {Letter, Capital, Dot} : <<x>> \in Seq(TvCells)
  <2>1. "l" \in TvCells /\ "w" \in TvCells /\ Wide \in TvCells /\ Letter \in TvCells /\ Capital \in TvCells /\ Dot \in TvCells
    BY DEF TvCells, Spacers
  <2> HIDE DEF Wide, Letter, Capital, Dot
  <2> QED
    BY <2>1
<1>6. Printed(g, c) = CASE c = NewLine -> NextRow(g)
       [] c = Wide /\ start.col = g.cols -> Written(NextRow(Written(start, <<"l">>)), <<Wide, "w">>)
       [] c = Wide /\ start.col < g.cols -> Written(start, <<Wide, "w">>)
       [] c \in {Letter, Capital, Dot} -> Written(start, <<c>>)
  BY DEF Printed, start
<1>7. start.cols = g.cols
  <2>1. PICK rows, cols, lines, row, col, wraps, off : TvGridOf(g, rows, cols, lines, row, col, wraps, off)
    BY DEF TvGridOK
  <2>2. g.cols = cols
    BY <2>1 DEF TvGridOf
  <2>3. NextRow(g).cols = cols
    <3>1. PICK l, r, o : TvGridOf(NextRow(g), rows, cols, l, r, 1, FALSE, o)
      BY <2>1, TvNextRow
    <3> QED
      BY <3>1 DEF TvGridOf
  <2> QED
    BY <2>2, <2>3 DEF start
<1>8. CASE c = NewLine
  <2>1. c # Wide /\ c \notin {Letter, Capital, Dot}
    BY <1>8 DEF Wide, NewLine, Letter, Capital, Dot
  <2>2. Printed(g, c) = NextRow(g)
    BY <1>6, <1>8, <2>1
  <2> QED
    BY <1>1, <2>2
<1>9. CASE c = Wide
  <2>1. c # NewLine /\ c \notin {Letter, Capital, Dot}
    BY <1>9 DEF Wide, NewLine, Letter, Capital, Dot
  <2>2. CASE start.col = g.cols
    <3>1. Printed(g, c) = Written(NextRow(Written(start, <<"l">>)), <<Wide, "w">>)
      <4>1. ~(start.col < g.cols)
        BY <1>4, <1>7, <2>2
      <4> QED
        BY <1>6, <1>9, <2>1, <2>2, <4>1
    <3>2. TvGridOK(Written(start, <<"l">>))
      BY <1>2, <1>3, <1>5
    <3>3. TvGridOK(NextRow(Written(start, <<"l">>)))
      BY <1>1, <3>2
    <3> QED
      BY <1>2, <1>5, <3>1, <3>3
  <2>3. CASE start.col # g.cols
    <3>1. start.col < g.cols
      BY <1>4, <1>7, <2>3
    <3>2. Printed(g, c) = Written(start, <<Wide, "w">>)
      BY <1>6, <1>9, <2>1, <2>3, <3>1
    <3> QED
      BY <1>2, <1>3, <1>5, <3>2
  <2> QED
    BY <2>2, <2>3
<1>10. CASE c \in {Letter, Capital, Dot}
  <2>1. c # NewLine /\ c # Wide
    BY <1>10 DEF Wide, NewLine, Letter, Capital, Dot
  <2>2. Printed(g, c) = Written(start, <<c>>)
    BY <1>6, <1>10, <2>1
  <2> QED
    BY <1>2, <1>3, <1>5, <1>10, <2>2
<1> QED
  BY <1>8, <1>9, <1>10 DEF TvChars

TvGrids == UNION {[rows : Nat, cols : {k}, lines : Seq([1..k -> TvCells]), row : Nat, col : Nat, wraps : BOOLEAN, off : Nat] : k \in Nat}

LEMMA TvAdvanced ==
  ASSUME NEW g, TvGridOK(g), TvHistory \in Nat, NEW chars \in Seq(TvChars)
  PROVE  TvGridOK(Advance(g, chars))
<1> DEFINE len == Len(chars)
           S == {h \in TvGrids : TvGridOK(h)}
           grid[n \in 0..len] == IF n = 0 THEN g ELSE Printed(grid[n - 1], chars[n])
           step == [x \in (1..len) \X S |-> Printed(x[2], chars[x[1]])]
           f0 == CHOOSE f : f = [n \in 0..len |-> IF n = 0 THEN g ELSE Printed(f[n - 1], chars[n])]
<1>1. ASSUME NEW h, TvGridOK(h) PROVE h \in S
  <2>1. PICK rows, cols, lines, row, col, wraps, off : TvGridOf(h, rows, cols, lines, row, col, wraps, off)
    BY <1>1 DEF TvGridOK
  <2>2. h \in [rows : Nat, cols : {cols}, lines : Seq([1..cols -> TvCells]), row : Nat, col : Nat, wraps : BOOLEAN, off : Nat]
    BY <2>1 DEF TvGridOf
  <2>3. cols \in Nat
    BY <2>1 DEF TvGridOf
  <2>4. h \in TvGrids
    BY <2>2, <2>3 DEF TvGrids
  <2> QED
    BY <1>1, <2>4
<1>2. \E f \in [0..len -> S] : Steps(f, len, g, step)
  <2>1. step \in [((1..len) \X S) -> S]
    <3>1. ASSUME NEW x \in (1..len) \X S PROVE Printed(x[2], chars[x[1]]) \in S
      <4>1. x[1] \in 1..len /\ TvGridOK(x[2])
        OBVIOUS
      <4>2. chars[x[1]] \in TvChars
        BY <4>1
      <4> QED
        BY <1>1, <4>1, <4>2, TvPrinted
    <3> QED
      BY <3>1
  <2>2. g \in S /\ len \in Nat
    BY <1>1
  <2> HIDE DEF step, grid, f0, len, S
  <2> QED
    BY <2>1, <2>2, Recursion
<1>3. PICK f \in [0..len -> S] : f = [n \in 0..len |-> IF n = 0 THEN g ELSE Printed(f[n - 1], chars[n])]
  <2>1. PICK f \in [0..len -> S] : Steps(f, len, g, step)
    <3> HIDE DEF grid, step, f0
    <3> QED
      BY <1>2
  <2>2. ASSUME NEW n \in 0..len, n # 0 PROVE step[<<n, f[n - 1]>>] = Printed(f[n - 1], chars[n])
    <3> HIDE DEF S
    <3>1. n \in 1..len /\ f[n - 1] \in S
      BY <2>2
    <3> QED
      BY <3>1
  <2> HIDE DEF step, grid, f0, S
  <2>3. f = [n \in 0..len |-> IF n = 0 THEN g ELSE Printed(f[n - 1], chars[n])]
    BY <2>1, <2>2 DEF Steps
  <2> QED
    BY <2>3
<1>4. f0 = [n \in 0..len |-> IF n = 0 THEN g ELSE Printed(f0[n - 1], chars[n])]
  <2> HIDE DEF S
  <2> QED
    BY <1>3
<1>5. grid = f0
  OBVIOUS
<1>6. Advance(g, chars) = f0[len]
  BY <1>5 DEF Advance
<1> HIDE DEF f0, grid, step, S
<1> DEFINE P == {n \in 0..len : TvGridOK(f0[n])}
<1>7. 0 \in P
  <2>1. f0[0] = g /\ 0 \in 0..len
    BY <1>4
  <2> QED
    BY <2>1
<1>8. \A n \in 0..(len - 1) : n \in P => n + 1 \in P
  <2> SUFFICES ASSUME NEW n \in 0..(len - 1), TvGridOK(f0[n]) PROVE TvGridOK(f0[n + 1])
    OBVIOUS
  <2>1. n + 1 \in 0..len /\ n + 1 # 0 /\ (n + 1) - 1 = n /\ n + 1 \in 1..len
    OBVIOUS
  <2>2. f0[n + 1] = Printed(f0[n], chars[n + 1]) /\ chars[n + 1] \in TvChars
    BY <1>4, <2>1
  <2> QED
    BY <2>2, TvPrinted
<1>9. len \in P
  <2> HIDE DEF P, len
  <2>1. len \in Nat
    BY DEF len
  <2>2. \A n \in 0..len : n \in P
    BY <1>7, <1>8, <2>1, Upto
  <2> QED
    BY <2>1, <2>2
<1> QED
  BY <1>6, <1>9

-----------------------------------------------------------------------------
(* The cells of a row that are drawn, and the rows that are shown.            *)
LEMMA TvCollapsed ==
  ASSUME NEW cols \in Nat, NEW row, DOMAIN row = 1..cols
  PROVE  /\ IsFiniteSet(CellsOf(row)) /\ CellsOf(row) \subseteq 1..cols
         /\ Cardinality(CellsOf(row)) \in Nat
         /\ Len(Collapsed(row)) = Cardinality(CellsOf(row))
         /\ \E S : Collapsed(row) \in Seq(S)
<1>1. CellsOf(row) \subseteq 1..cols
  BY DEF CellsOf
<1>2. IsFiniteSet(CellsOf(row))
  <2>1. IsFiniteSet(1..cols)
    BY FS_Interval
  <2> QED
    BY <1>1, <2>1, FS_Subset
<1> DEFINE n == Cardinality(CellsOf(row))
           At(i) == row[CHOOSE c \in CellsOf(row) : Index(row, c) = i]
           S == {At(i) : i \in 1..n}
<1>3. n \in Nat
  BY <1>2, FS_CardinalityType
<1>4. Collapsed(row) = [i \in 1..n |-> At(i)]
  BY DEF Collapsed
<1> HIDE DEF n, At
<1>5. Collapsed(row) \in [1..n -> S]
  BY <1>4
<1> HIDE DEF S
<1>6. Collapsed(row) \in Seq(S) /\ Len(Collapsed(row)) = n
  BY <1>3, <1>5, FunctionIsSeq
<1> QED
  BY <1>1, <1>2, <1>3, <1>6 DEF n

LEMMA TvPlain ==
  ASSUME NEW cols \in Nat, NEW row, DOMAIN row = 1..cols, NEW col \in 0..cols, \A c \in 1..col : row[c] \notin Spacers,
         NEW c \in 1..col
  PROVE  /\ Index(row, c) = c
         /\ c \in 1..Len(Collapsed(row)) /\ Collapsed(row)[c] = row[c]
<1>1. 1..col \subseteq CellsOf(row)
  BY DEF CellsOf
<1>2. \A k \in 1..col : Index(row, k) = k
  <2> TAKE k \in 1..col
  <2>1. {j \in CellsOf(row) : j <= k} = 1..k
    <3>1. CellsOf(row) \subseteq 1..cols
      BY TvCollapsed
    <3>2. \A j \in 1..k : j \in CellsOf(row) /\ j <= k
      BY <1>1
    <3>3. \A j \in CellsOf(row) : j <= k => j \in 1..k
      BY <3>1
    <3> QED
      BY <3>2, <3>3
  <2>2. Cardinality(1..k) = k
    <3>1. 1 \in Int /\ k \in Int /\ ~(1 > k)
      OBVIOUS
    <3>2. Cardinality(1..k) = k - 1 + 1
      BY <3>1, FS_Interval
    <3> QED
      BY <3>1, <3>2
  <2> QED
    BY <2>1, <2>2 DEF Index
<1>3. \A k \in CellsOf(row) : Index(row, k) = c => k = c
  <2> SUFFICES ASSUME NEW k \in CellsOf(row), Index(row, k) = c PROVE k = c
    OBVIOUS
  <2>1. k \in 1..cols
    BY TvCollapsed
  <2>2. CASE k \in 1..col
    BY <1>2, <2>2
  <2>3. CASE k \notin 1..col
    <3>1. k > col
      BY <2>1, <2>3
    <3> DEFINE M == {j \in CellsOf(row) : j <= k}
    <3>2. IsFiniteSet(M)
      <4>1. IsFiniteSet(CellsOf(row)) /\ M \subseteq CellsOf(row)
        BY TvCollapsed
      <4> QED
        BY <4>1, FS_Subset
    <3>3. (1..c) \cup {k} \subseteq M
      <4>1. \A j \in 1..c : j \in CellsOf(row) /\ j <= k
        BY <1>1, <2>1, <3>1
      <4> QED
        BY <2>1, <4>1
    <3>4. Cardinality((1..c) \cup {k}) = c + 1
      <4>1. 1 \in Int /\ c \in Int /\ ~(1 > c) /\ k \notin 1..c
        BY <2>1, <3>1
      <4>2. Cardinality(1..c) = c - 1 + 1 /\ IsFiniteSet(1..c)
        BY <4>1, FS_Interval
      <4>3. Cardinality((1..c) \cup {k}) = Cardinality(1..c) + 1
        BY <4>1, <4>2, FS_AddElement
      <4> QED
        BY <4>1, <4>2, <4>3
    <3>5. Cardinality((1..c) \cup {k}) <= Cardinality(M)
      BY <3>2, <3>3, FS_Subset
    <3>6. Cardinality(M) = c
      BY DEF Index
    <3> QED
      BY <3>4, <3>5, <3>6
  <2> QED
    BY <2>2, <2>3
<1>4. c \in 1..Cardinality(CellsOf(row))
  <2>1. Cardinality(1..c) <= Cardinality(CellsOf(row))
    <3>1. 1..c \subseteq CellsOf(row)
      BY <1>1
    <3>2. IsFiniteSet(CellsOf(row))
      BY TvCollapsed
    <3> QED
      BY <3>1, <3>2, FS_Subset
  <2>2. Cardinality(1..c) = c
    <3>1. 1 \in Int /\ c \in Int /\ ~(1 > c)
      OBVIOUS
    <3>2. Cardinality(1..c) = c - 1 + 1
      BY <3>1, FS_Interval
    <3> QED
      BY <3>1, <3>2
  <2>3. Cardinality(CellsOf(row)) \in Nat
    BY TvCollapsed
  <2> QED
    BY <2>1, <2>2, <2>3
<1>5. (CHOOSE k \in CellsOf(row) : Index(row, k) = c) = c
  <2>1. c \in CellsOf(row) /\ Index(row, c) = c
    BY <1>1, <1>2
  <2> QED
    BY <1>3, <2>1
<1>6. Collapsed(row)[c] = row[c]
  BY <1>4, <1>5 DEF Collapsed
<1>7. Len(Collapsed(row)) = Cardinality(CellsOf(row))
  BY TvCollapsed
<1> QED
  BY <1>2, <1>4, <1>6, <1>7

LEMMA TvLines ==
  ASSUME NEW g, NEW rows, NEW cols, NEW lines, NEW row, NEW col, NEW wraps, NEW off,
         TvGridOf(g, rows, cols, lines, row, col, wraps, off)
  PROVE  /\ HistorySize(g) = Len(lines) - rows /\ HistorySize(g) \in Nat /\ off \in Nat /\ Len(lines) \in Nat
         /\ \A r \in 1..rows : LineAt(g, r) = Len(lines) - rows - off + r /\ LineAt(g, r) \in 1..Len(lines)
         /\ \A l \in 1..Len(lines) : DOMAIN g.lines[l] = 1..cols /\ g.lines[l] \in [1..cols -> TvCells]
         /\ g.rows = rows /\ g.cols = cols /\ g.lines = lines /\ g.row = row /\ g.col = col /\ g.off = off
<1> DEFINE T == [1..cols -> TvCells]
<1>1. /\ g = [rows |-> rows, cols |-> cols, lines |-> lines, row |-> row, col |-> col, wraps |-> wraps, off |-> off]
      /\ rows \in Nat \ {0} /\ lines \in Seq(T) /\ rows <= Len(lines) /\ off \in 0..(Len(lines) - rows) /\ Len(lines) \in Nat
  BY DEF TvGridOf
<1>2. g.rows = rows /\ g.cols = cols /\ g.lines = lines /\ g.row = row /\ g.col = col /\ g.off = off
  BY <1>1
<1>3. HistorySize(g) = Len(lines) - rows /\ HistorySize(g) \in Nat /\ off \in Nat
  BY <1>1, <1>2 DEF HistorySize
<1>4. ASSUME NEW r \in 1..rows PROVE LineAt(g, r) = Len(lines) - rows - off + r /\ LineAt(g, r) \in 1..Len(lines)
  BY <1>1, <1>2, <1>3 DEF LineAt
<1>5. ASSUME NEW l \in 1..Len(lines) PROVE g.lines[l] \in T
  <2> HIDE DEF T
  <2> QED
    BY <1>1, <1>2
<1> QED
  BY <1>1, <1>2, <1>3, <1>4, <1>5

\* What is drawn of a row of the grid.
TvTextOf(spans) == FlattenSeq([s \in DOMAIN spans |-> spans[s].text])
LEMMA TvRowDrawn ==
  ASSUME NEW cols \in Nat, NEW line, DOMAIN line = 1..cols, NEW r \in Nat, NEW seen,
         seen.visible \in BOOLEAN, seen.cursor \in Nat \X Nat,
         NEW spans, spans = BatchRow(Collapsed(line), r, seen), NEW Under, Under = CursorTexts(spans)
  PROVE  /\ TvTextOf(spans) = Collapsed(line)
         /\ Under # {} => seen.visible /\ seen.cursor[1] = r
         /\ seen.visible /\ seen.cursor[1] = r /\ seen.cursor[2] \in 1..cols /\ (\A c \in 1..seen.cursor[2] : line[c] \notin Spacers)
              => Under = {<<line[seen.cursor[2]]>>}
<1> DEFINE cells == Collapsed(line)
           under == TvUnder(seen, r)
<1>1. PICK S : cells \in Seq(S)
  BY TvCollapsed
<1>2. TvDrawn(S, cells, under, spans, Len(cells))
  BY <1>1, TvBatched
<1> HIDE DEF cells
<1>3. spans \in Seq(TvSpans(S)) /\ DOMAIN spans = 1..Len(spans)
  <2>1. spans \in Seq(TvSpans(S))
    BY <1>2 DEF TvDrawn
  <2> QED
    BY <2>1
<1>4. FlattenSeq([s \in DOMAIN spans |-> spans[s].text]) = cells
  <2>1. [s \in DOMAIN spans |-> spans[s].text] = TvTexts(spans)
    BY <1>3 DEF TvTexts
  <2>2. SubSeq(cells, 1, Len(cells)) = cells
    BY <1>1
  <2> QED
    BY <1>2, <2>1, <2>2 DEF TvDrawn
<1>5. \A t : t \in Under <=> \E i \in 1..Len(spans) : spans[i].look.cursor /\ t = spans[i].text
  BY <1>3 DEF ToSet, CursorTexts
<1>6. ASSUME NEW i \in 1..Len(spans), spans[i].look.cursor
      PROVE  under \in 1..Len(cells) /\ spans[i].text = <<cells[under]>>
  BY <1>2, <1>6 DEF TvDrawn
<1>7. ASSUME Under # {} PROVE seen.visible /\ seen.cursor[1] = r
  <2>1. under \in 1..Len(cells)
    BY <1>5, <1>6, <1>7
  <2>2. under # 0
    BY <2>1
  <2> QED
    BY <2>2 DEF TvUnder
<1>8. ASSUME seen.visible, seen.cursor[1] = r, seen.cursor[2] \in 1..cols, \A c \in 1..seen.cursor[2] : line[c] \notin Spacers
      PROVE  Under = {<<line[seen.cursor[2]]>>}
  <2> DEFINE col == seen.cursor[2]
  <2>1. under = col
    BY <1>8 DEF TvUnder
  <2>2. col \in 1..Len(cells) /\ cells[col] = line[col]
    <3>1. col \in 0..cols /\ col \in 1..col /\ \A c \in 1..col : line[c] \notin Spacers
      BY <1>8
    <3> HIDE DEF col
    <3>2. col \in 1..Len(Collapsed(line)) /\ Collapsed(line)[col] = line[col]
      <4>1. \A k \in 0..cols : (\A c \in 1..k : line[c] \notin Spacers)
               => \A c \in 1..k : c \in 1..Len(Collapsed(line)) /\ Collapsed(line)[c] = line[c]
        BY TvPlain
      <4> QED
        BY <3>1, <4>1
    <3> QED
      BY <3>2 DEF cells, col
  <2>3. PICK i \in 1..Len(spans) : spans[i].look.cursor
    <3>1. under \in 1..Len(cells)
      BY <2>1, <2>2
    <3> QED
      BY <1>2, <3>1 DEF TvDrawn
  <2> DEFINE text == <<line[col]>>
  <2>4. ASSUME NEW t \in Under PROVE t = text
    <3>1. PICK j \in 1..Len(spans) : spans[j].look.cursor /\ t = spans[j].text
      BY <1>5
    <3>2. spans[j].text = <<cells[under]>>
      BY <1>6, <3>1
    <3> QED
      BY <2>1, <2>2, <3>1, <3>2
  <2>5. text \in Under
    <3>1. spans[i].text = <<cells[under]>>
      BY <1>6, <2>3
    <3>2. spans[i].text \in Under
      BY <1>5, <2>3
    <3> QED
      BY <2>1, <2>2, <3>1, <3>2
  <2> QED
    BY <2>4, <2>5
<1> QED
  BY <1>4, <1>7, <1>8 DEF cells, TvTextOf

LEMMA TvDrawnIsRight ==
  ASSUME TvGridOK(tvGrid), tvView.cells = VisibleCells(tvGrid, NoSelection)
  PROVE  DrawnRight
<1>1. PICK rows, cols, lines, row, col, wraps, off : TvGridOf(tvGrid, rows, cols, lines, row, col, wraps, off)
  BY DEF TvGridOK
<1> DEFINE g == tvGrid
           seen == tvView.cells
           At(r) == lines[LineAt(g, r)]
           drawn == Drawn(tvView)
           Under(r) == CursorTexts(drawn.rows[r])
<1>2. /\ HistorySize(g) = Len(lines) - rows /\ off \in Nat /\ Len(lines) \in Nat /\ rows \in Nat /\ row \in 1..rows /\ col \in 1..cols /\ cols \in Nat
      /\ \A r \in 1..rows : LineAt(g, r) = Len(lines) - rows - off + r /\ LineAt(g, r) \in 1..Len(lines)
      /\ \A l \in 1..Len(lines) : DOMAIN lines[l] = 1..cols
      /\ g.rows = rows /\ g.cols = cols /\ g.lines = lines /\ g.row = row /\ g.col = col /\ g.off = off
  <2>1. rows \in Nat /\ row \in 1..rows /\ col \in 1..cols /\ cols \in Nat
    BY <1>1 DEF TvGridOf
  <2> QED
    BY <1>1, <2>1, TvLines
<1>3. /\ seen.rows = [r \in 1..rows |-> Collapsed(At(r))] /\ seen.cursor = <<row, col>> /\ seen.visible = (off = 0)
  BY <1>2 DEF VisibleCells
<1>4. drawn.rows = [r \in 1..rows |-> BatchRow(Collapsed(At(r)), r, seen)]
  <2>1. drawn.rows = [r \in DOMAIN seen.rows |-> BatchRow(seen.rows[r], r, seen)]
    BY DEF Drawn
  <2> QED
    BY <1>3, <2>1
<1>5. seen.visible \in BOOLEAN /\ seen.cursor \in Nat \X Nat /\ seen.cursor[1] = row /\ seen.cursor[2] = col
  BY <1>2, <1>3
<1> HIDE DEF drawn
<1>6. ASSUME NEW r \in 1..rows
      PROVE  /\ FlattenSeq([s \in DOMAIN drawn.rows[r] |-> drawn.rows[r][s].text]) = Collapsed(At(r))
             /\ Under(r) # {} => seen.visible /\ seen.cursor[1] = r
             /\ seen.visible /\ seen.cursor[1] = r /\ seen.cursor[2] \in 1..cols /\ (\A c \in 1..seen.cursor[2] : At(r)[c] \notin Spacers)
                  => Under(r) = {<<At(r)[seen.cursor[2]]>>}
  <2> DEFINE line == At(r)
             spans == drawn.rows[r]
             U == Under(r)
  <2>1. DOMAIN line = 1..cols /\ r \in Nat /\ spans = BatchRow(Collapsed(line), r, seen)
    BY <1>2, <1>4
  <2>2. U = CursorTexts(spans)
    OBVIOUS
  <2>0. cols \in Nat
    BY <1>2
  <2> HIDE DEF line, spans, U, seen
  <2>3. /\ TvTextOf(spans) = Collapsed(line)
        /\ U # {} => seen.visible /\ seen.cursor[1] = r
        /\ seen.visible /\ seen.cursor[1] = r /\ seen.cursor[2] \in 1..cols /\ (\A c \in 1..seen.cursor[2] : line[c] \notin Spacers)
              => U = {<<line[seen.cursor[2]]>>}
    <3>1. U = CursorTexts(spans) /\ spans = BatchRow(Collapsed(line), r, seen)
      BY <2>1, <2>2
    <3>2. cols \in Nat /\ DOMAIN line = 1..cols /\ r \in Nat /\ seen.visible \in BOOLEAN /\ seen.cursor \in Nat \X Nat
      BY <1>5, <2>0, <2>1 DEF seen
    <3> QED
      BY <3>1, <3>2, TvRowDrawn
  <2> QED
    BY <2>3 DEF line, spans, U, seen, TvTextOf
<1>7. \A r \in 1..rows : Under(r) # {} => r = row /\ off = 0
  BY <1>3, <1>5, <1>6
<1>8. off = 0 => CursorLine = At(row)
  <2>1. ASSUME off = 0 PROVE HistorySize(g) + row = LineAt(g, row)
    BY <1>2, <2>1
  <2> QED
    BY <1>2, <2>1 DEF CursorLine
<1>9. ASSUME off = 0, \A c \in 1..tvGrid.col : CursorLine[c] \notin Spacers PROVE Under(row) = {<<CursorLine[tvGrid.col]>>}
  <2>1. CursorLine = At(row)
    BY <1>8, <1>9
  <2>2. row \in 1..rows /\ col \in 1..cols /\ seen.visible /\ seen.cursor[1] = row /\ seen.cursor[2] = col
        /\ tvGrid.col = col
    BY <1>2, <1>3, <1>5, <1>9
  <2> HIDE DEF seen, Under
  <2>3. Under(row) = {<<At(row)[col]>>}
    BY <1>6, <1>9, <2>1, <2>2
  <2> QED
    BY <2>1, <2>2, <2>3
<1> HIDE DEF seen, Under
<1> QED
  BY <1>2, <1>6, <1>7, <1>9 DEF DrawnRight, Under, drawn

LEMMA TvText ==
  ASSUME NEW cols \in Nat, NEW row, DOMAIN row = 1..cols
  PROVE  \E S : RowText(row) \in Seq(S)
<1> DEFINE text == Collapsed(row)
           K == {0} \cup {i \in DOMAIN text : text[i] # BlankCell}
           m == Max(K)
<1>1. PICK S : text \in Seq(S)
  BY TvCollapsed
<1> HIDE DEF text
<1>2. Len(text) \in Nat /\ K \in SUBSET (0..Len(text)) /\ K # {}
  BY <1>1
<1>3. m \in 0..Len(text)
  <2> HIDE DEF K
  <2> QED
    BY <1>2, Largest
<1> HIDE DEF m
<1>4. SubSeq(text, 1, m) \in Seq(S)
  BY <1>1, <1>3
<1>5. RowText(row) = SubSeq(text, 1, m)
  BY DEF RowText, Trimmed, text, m
<1> QED
  BY <1>4, <1>5

\* What is read back from where a query was found.
LEMMA TvReadBack ==
  ASSUME NEW g, Len(SerializeLines(g)) \in Nat, NEW l \in 1..Len(SerializeLines(g)),
         NEW query, Len(query) \in Nat \ {0}, NEW i \in Nat \ {0}, NEW exact,
         Len(SerializeLines(g)[l]) \in Nat, Occurs(SerializeLines(g)[l], query, exact, i)
  PROVE  LET read == RegionText(g, <<l, i>>, <<l, i + Len(query) - 1>>)
         IN Len(read) = 1 /\ Alike(read[1], query, exact)
<1> DEFINE lines == SerializeLines(g)
           n == Len(lines)
           a == <<l, i>>
           b == <<l, i + Len(query) - 1>>
           len == Len(query)
<1>1. Before(a, b) /\ a[1] = l /\ b[1] = l /\ a[2] = i /\ b[2] = i + len - 1
  <2>1. i <= i + len - 1
    OBVIOUS
  <2> QED
    BY <2>1 DEF Before
<1>2. Min({l, Len(lines)}) = l
  <2>1. l \in Int /\ n \in Int /\ l <= n
    OBVIOUS
  <2> QED
    BY <2>1, TvMin
<1>3. i + len - 1 <= Len(lines[l]) /\ Alike(SubSeq(lines[l], i, i + len - 1), query, exact)
  BY DEF Occurs
<1>4. Min({i + len - 1, Len(lines[l])}) = i + len - 1
  <2>1. i + len - 1 \in Int /\ Len(lines[l]) \in Int
    OBVIOUS
  <2> QED
    BY <1>3, <2>1, TvMin
<1> HIDE DEF a, b, len
<1>5. RegionText(g, a, b) = <<SubSeq(lines[l], i, i + len - 1)>>
  BY <1>1, <1>2, <1>4 DEF RegionText
<1> DEFINE text == SubSeq(lines[l], i, i + len - 1)
<1> HIDE DEF text
<1>6. RegionText(g, a, b) = <<text>> /\ Alike(text, query, exact)
  BY <1>3, <1>5 DEF text
<1>7. Len(RegionText(g, a, b)) = 1 /\ RegionText(g, a, b)[1] = text
  BY <1>6
<1> QED
  BY <1>6, <1>7 DEF a, b

LEMMA TvHitsAreRight ==
  ASSUME TvGridOK(tvGrid), TvQueries \subseteq Seq(STRING)
  PROVE  HitsRight
<1> DEFINE g == tvGrid
           lines == SerializeLines(g)
<1>1. PICK n \in Nat, cols \in Nat : DOMAIN g.lines = 1..n /\ \A l \in 1..n : DOMAIN g.lines[l] = 1..cols
  <2>1. PICK rows, cols, ls, row, col, wraps, off : TvGridOf(g, rows, cols, ls, row, col, wraps, off)
    BY DEF TvGridOK
  <2>2. Len(ls) \in Nat /\ g.lines = ls /\ \A l \in 1..Len(ls) : DOMAIN g.lines[l] = 1..cols
    BY <2>1, TvLines
  <2>3. DOMAIN ls = 1..Len(ls) /\ cols \in Nat
    <3>1. ls \in Seq([1..cols -> TvCells]) /\ cols \in Nat
      BY <2>1 DEF TvGridOf
    <3> DEFINE T == [1..cols -> TvCells]
    <3> HIDE DEF T
    <3>2. ls \in Seq(T)
      BY <3>1 DEF T
    <3> QED
      BY <3>1, <3>2
  <2> QED
    BY <2>2, <2>3
<1>2. DOMAIN lines = 1..n /\ \A l \in 1..n : lines[l] = RowText(g.lines[l])
  BY <1>1 DEF SerializeLines
<1>3. Len(lines) = n
  <2>1. lines = [l \in 1..n |-> RowText(g.lines[l])]
    BY <1>1 DEF SerializeLines
  <2> DEFINE S == {RowText(g.lines[l]) : l \in 1..n}
  <2>2. lines \in [1..n -> S]
    BY <2>1
  <2> HIDE DEF S, lines
  <2> QED
    BY <2>2, FunctionIsSeq
<1> HIDE DEF lines
<1>4. SUFFICES ASSUME NEW query \in TvQueries, NEW l \in 1..n, NEW exact \in BOOLEAN, NEW whole \in BOOLEAN
      PROVE LET hits == LineHits(lines[l], query, exact, whole)
                Taken(i) == i..(i + Len(query) - 1)
                Read(i) == RegionText(g, <<l, i>>, <<l, i + Len(query) - 1>>)
            IN /\ \A h \in DOMAIN hits : Len(Read(hits[h])) = 1 /\ Alike(Read(hits[h])[1], query, exact)
               /\ \A h, k \in DOMAIN hits : h # k => Taken(hits[h]) \cap Taken(hits[k]) = {}
               /\ \A i \in DOMAIN lines[l] :
                    Matches(lines[l], query, exact, whole, i) => \E h \in DOMAIN hits : Taken(i) \cap Taken(hits[h]) # {}
  BY <1>2 DEF HitsRight, lines
<1> DEFINE hits == LineHits(lines[l], query, exact, whole)
           Taken(i) == i..(i + Len(query) - 1)
           Read(i) == RegionText(g, <<l, i>>, <<l, i + Len(query) - 1>>)
           line == lines[l]
           len == Len(query)
           k == Len(hits)
<1>5. Len(line) \in Nat /\ DOMAIN line = 1..Len(line)
  <2>1. DOMAIN g.lines[l] = 1..cols
    BY <1>1
  <2>2. PICK S : RowText(g.lines[l]) \in Seq(S)
    BY <2>1, TvText
  <2> QED
    BY <1>2, <2>2
<1>6. query \in Seq(STRING) /\ len \in Nat /\ (query # << >> => len # 0)
  BY EmptySeq
<1>7. TvFound(line, query, exact, whole, hits, Len(line))
  BY <1>5, <1>6, TvFoundAll
<1> HIDE DEF hits, line, len
<1>8. /\ k \in Nat /\ DOMAIN hits = 1..k
      /\ \A h \in 1..k : hits[h] \in 1..Len(line) /\ Matches(line, query, exact, whole, hits[h])
      /\ \A h, j \in 1..k : h < j => hits[h] + len <= hits[j]
      /\ \A i \in 1..Len(line) : Matches(line, query, exact, whole, i)
                                   => \E h \in 1..k : hits[h] <= i /\ i < hits[h] + len
  BY <1>7 DEF TvFound, len
<1>9. \A i : Matches(line, query, exact, whole, i) => Occurs(line, query, exact, i) /\ len \in Nat \ {0}
  BY <1>6 DEF Matches, Occurs
<1>10. ASSUME NEW h \in 1..k PROVE Len(Read(hits[h])) = 1 /\ Alike(Read(hits[h])[1], query, exact)
  <2> DEFINE i == hits[h]
  <2>1. i \in Nat \ {0} /\ Occurs(line, query, exact, i) /\ Len(query) \in Nat \ {0}
    BY <1>5, <1>8, <1>9 DEF len
  <2>2. Len(SerializeLines(g)) \in Nat /\ l \in 1..Len(SerializeLines(g)) /\ Len(SerializeLines(g)[l]) \in Nat
    BY <1>3, <1>5 DEF lines, line
  <2>3. Occurs(SerializeLines(g)[l], query, exact, i)
    BY <2>1 DEF line, lines
  <2> HIDE DEF i
  <2> QED
    BY <2>1, <2>2, <2>3, TvReadBack DEF i
<1>11. ASSUME NEW h \in 1..k, NEW j \in 1..k, h # j PROVE Taken(hits[h]) \cap Taken(hits[j]) = {}
  <2>1. hits[h] \in Nat /\ hits[j] \in Nat
    BY <1>5, <1>8
  <2>2. hits[h] + len <= hits[j] \/ hits[j] + len <= hits[h]
    <3>1. h < j \/ j < h
      BY <1>8, <1>11
    <3> QED
      BY <1>8, <3>1
  <2> QED
    BY <1>6, <2>1, <2>2 DEF len
<1>12. ASSUME NEW i \in 1..Len(line), Matches(line, query, exact, whole, i)
       PROVE  \E h \in 1..k : Taken(i) \cap Taken(hits[h]) # {}
  <2>1. PICK h \in 1..k : hits[h] <= i /\ i < hits[h] + len
    BY <1>8, <1>12
  <2>2. len \in Nat \ {0} /\ hits[h] \in Nat /\ i \in Nat
    BY <1>5, <1>8, <1>9, <1>12
  <2>3. i \in Taken(i) /\ i \in Taken(hits[h])
    BY <2>1, <2>2 DEF len
  <2> QED
    BY <2>3
<1> QED
  BY <1>5, <1>8, <1>10, <1>11, <1>12 DEF hits, line

\* The places the cells of a row are drawn at are in the order of the cells.
LEMMA TvInOrder ==
  ASSUME NEW cols \in Nat, NEW row, DOMAIN row = 1..cols, NEW c \in CellsOf(row), NEW e \in CellsOf(row)
  PROVE  Index(row, c) \in Nat /\ (c < e => Index(row, c) < Index(row, e))
<1> DEFINE M(k) == {j \in CellsOf(row) : j <= k}
<1>1. CellsOf(row) \subseteq 1..cols /\ IsFiniteSet(CellsOf(row))
  BY TvCollapsed
<1>2. \A k : IsFiniteSet(M(k)) /\ Cardinality(M(k)) \in Nat
  <2> TAKE k
  <2>1. M(k) \subseteq CellsOf(row)
    OBVIOUS
  <2> HIDE DEF M
  <2>2. IsFiniteSet(M(k))
    BY <1>1, <2>1, FS_Subset
  <2> QED
    BY <2>2, FS_CardinalityType
<1>3. ASSUME c < e PROVE Cardinality(M(c)) < Cardinality(M(e))
  <2>1. c \in Int /\ e \in Int
    BY <1>1
  <2>2. e \notin M(c) /\ M(c) \cup {e} \subseteq M(e)
    BY <1>1, <1>3, <2>1
  <2> HIDE DEF M
  <2>3. Cardinality(M(c) \cup {e}) = Cardinality(M(c)) + 1
    BY <1>2, <2>2, FS_AddElement
  <2>4. Cardinality(M(c) \cup {e}) <= Cardinality(M(e))
    BY <1>2, <2>2, FS_Subset
  <2> QED
    BY <1>2, <2>3, <2>4
<1> QED
  BY <1>2, <1>3 DEF Index

\* The smallest of some numbers.
LEMMA TvLeast == ASSUME NEW K \in SUBSET Nat, K # {} PROVE Min(K) \in K /\ \A k \in K : Min(K) <= k
<1>1. PICK m \in K : \A k \in K : m <= k
  BY Smallest
<1> QED
  BY <1>1 DEF Min

LEMMA TvMarksAreRight ==
  ASSUME TvGridOK(tvGrid)
  PROVE  MarksRight
<1> DEFINE g == tvGrid
<1>1. PICK rows, cols, lines, row, col, wraps, off : TvGridOf(g, rows, cols, lines, row, col, wraps, off)
  BY DEF TvGridOK
<1>2. /\ rows \in Nat \ {0} /\ cols \in Nat \ {0, 1} /\ off \in Nat /\ Len(lines) \in Nat
      /\ \A r \in 1..rows : LineAt(g, r) = Len(lines) - rows - off + r /\ LineAt(g, r) \in 1..Len(lines)
      /\ \A l \in 1..Len(lines) : DOMAIN lines[l] = 1..cols
      /\ g.rows = rows /\ g.cols = cols /\ g.lines = lines
  <2>1. rows \in Nat \ {0} /\ cols \in Nat \ {0, 1}
    BY <1>1 DEF TvGridOf
  <2> QED
    BY <1>1, <2>1, TvLines
<1>3. SUFFICES ASSUME NEW from \in (1..g.rows) \X (1..g.cols), NEW to \in (1..g.rows) \X (1..g.cols), Before(from, to),
                      NEW r \in 1..g.rows, NEW c \in CellsOf(g.lines[LineAt(g, r)])
      PROVE LET marks == VisibleCells(g, Selected(g, from, to)).selection
                line == g.lines[LineAt(g, r)]
            IN Before(from, <<r, c>>) /\ Before(<<r, c>>, to)
                 <=> marks[r] # << >> /\ Index(line, c) \in marks[r][1]..marks[r][2]
  BY DEF MarksRight
<1>0. from \in (1..rows) \X (1..cols) /\ to \in (1..rows) \X (1..cols) /\ r \in 1..rows
  BY <1>2, <1>3
<1> DEFINE sel == Selected(g, from, to)
           at == LineAt(g, r)
           line == lines[at]
           Over(e) == Before(from, <<r, e>>) /\ Before(<<r, e>>, to)
           cells == {e \in CellsOf(line) : InSelection(sel, <<at, e>>)}
           marked == {Index(line, e) : e \in cells}
           d == Len(lines) - rows - off
<1>4. ASSUME NEW p \in (1..rows) \X (1..cols) PROVE BufferPoint(g, p[1], p[2]) = <<d + p[1], p[2]>>
  <2>1. p[1] \in 1..rows /\ p[2] \in 1..cols
    OBVIOUS
  <2>2. Min({p[1], g.rows}) = p[1]
    <3>1. p[1] \in Int /\ g.rows \in Int /\ p[1] <= g.rows
      BY <1>2, <2>1
    <3> QED
      BY <3>1, TvMin
  <2>3. Min({p[2], g.cols}) = p[2]
    <3>1. p[2] \in Int /\ g.cols \in Int /\ p[2] <= g.cols
      BY <1>2, <2>1
    <3> QED
      BY <3>1, TvMin
  <2>4. Max({1, LineAt(g, p[1])}) = LineAt(g, p[1])
    <3> DEFINE x == LineAt(g, p[1])
    <3>0. x \in 1..Len(lines) /\ Len(lines) \in Nat
      BY <1>2, <2>1
    <3> HIDE DEF x
    <3>1. x \in Nat /\ 1 <= x
      BY <3>0
    <3>2. x \in {1, x} /\ \A y \in {1, x} : x >= y
      BY <3>1
    <3>3. \A z \in {1, x} : (\A y \in {1, x} : z >= y) => z = x
      BY <3>1
    <3>4. Max({1, x}) = x
      BY <3>2, <3>3 DEF Max
    <3> QED
      BY <3>4 DEF x
  <2>5. LineAt(g, p[1]) = d + p[1]
    BY <1>2, <2>1
  <2> QED
    BY <2>2, <2>3, <2>4, <2>5 DEF BufferPoint
<1>5. sel = [from |-> <<d + from[1], from[2]>>, to |-> <<d + to[1], to[2]>>] /\ at = d + r /\ d \in Int
  <2>1. BufferPoint(g, from[1], from[2]) = <<d + from[1], from[2]>>
    BY <1>0, <1>4
  <2>2. BufferPoint(g, to[1], to[2]) = <<d + to[1], to[2]>>
    BY <1>0, <1>4
  <2>3. at = d + r /\ d \in Int
    <3>1. r \in 1..rows
      BY <1>0
    <3>2. at = d + r
      BY <1>2, <3>1
    <3>3. d \in Int
      BY <1>2
    <3> QED
      BY <3>2, <3>3
  <2> HIDE DEF d, at
  <2> QED
    BY <2>1, <2>2, <2>3 DEF Selected
<1>6. /\ DOMAIN line = 1..cols /\ cols \in Nat /\ CellsOf(line) \subseteq 1..cols /\ c \in CellsOf(line)
  <2>1. DOMAIN line = 1..cols /\ cols \in Nat /\ c \in CellsOf(line)
    BY <1>0, <1>2, <1>3
  <2> HIDE DEF line
  <2>2. CellsOf(line) \subseteq 1..cols
    BY <2>1, TvCollapsed
  <2> QED
    BY <2>1, <2>2
<1>7. ASSUME NEW e \in 1..cols PROVE InSelection(sel, <<at, e>>) <=> Over(e)
  <2>1. PICK fr \in 1..rows, fc \in 1..cols, tr \in 1..rows, tc \in 1..cols : from = <<fr, fc>> /\ to = <<tr, tc>>
    BY <1>0
  <2>0. d \in Int /\ rows \in Nat /\ cols \in Nat /\ r \in 1..rows
    BY <1>0, <1>2, <1>5
  <2> HIDE DEF d, sel, at
  <2>2. Before(<<d + from[1], from[2]>>, <<d + r, e>>) <=> Before(from, <<r, e>>)
    BY <2>0, <2>1 DEF Before
  <2>3. Before(<<d + r, e>>, <<d + to[1], to[2]>>) <=> Before(<<r, e>>, to)
    BY <2>0, <2>1 DEF Before
  <2> QED
    BY <1>5, <2>2, <2>3 DEF InSelection
<1>8. \A e \in CellsOf(line) : e \in cells <=> Over(e)
  BY <1>6, <1>7
\* What is dragged over in a row has no gaps.
<1>9. ASSUME NEW a \in 1..cols, NEW b \in 1..cols, NEW e \in 1..cols, Over(a), Over(b), a <= e, e <= b PROVE Over(e)
  <2>1. PICK fr \in 1..rows, fc \in 1..cols, tr \in 1..rows, tc \in 1..cols : from = <<fr, fc>> /\ to = <<tr, tc>>
    BY <1>0
  <2>2. rows \in Nat /\ cols \in Nat /\ r \in 1..rows
    BY <1>0, <1>2
  <2>3. (fr < r \/ (fr = r /\ fc <= a)) /\ (r < tr \/ (r = tr /\ b <= tc))
    BY <1>9, <2>1 DEF Before
  <2>4. (fr < r \/ (fr = r /\ fc <= e)) /\ (r < tr \/ (r = tr /\ e <= tc))
    BY <1>9, <2>1, <2>2, <2>3
  <2> QED
    BY <2>1, <2>4 DEF Before
<1>10. \A a, b \in CellsOf(line) : Index(line, a) \in Nat /\ (a < b => Index(line, a) < Index(line, b))
  <2> HIDE DEF line
  <2> QED
    BY <1>6, TvInOrder
<1>11. VisibleCells(g, sel).selection[r] = IF marked = {} THEN << >> ELSE <<Min(marked), Max(marked)>>
  <2>1. VisibleCells(g, sel).selection[r] = Span(g, r, sel)
    BY <1>0, <1>2 DEF VisibleCells
  <2>2. Span(g, r, sel) = IF marked = {} THEN << >> ELSE <<Min(marked), Max(marked)>>
    BY <1>2 DEF Span
  <2> QED
    BY <2>1, <2>2
<1> DEFINE marks == VisibleCells(g, sel).selection
           i == Index(line, c)
<1>12. \E n \in Nat : marked \subseteq 0..n
  <2>1. IsFiniteSet(CellsOf(line)) /\ Cardinality(CellsOf(line)) \in Nat
    <3> HIDE DEF line
    <3> QED
      BY <1>6, TvCollapsed
  <2>2. \A e \in CellsOf(line) : Index(line, e) <= Cardinality(CellsOf(line))
    <3> TAKE e \in CellsOf(line)
    <3>1. {k \in CellsOf(line) : k <= e} \subseteq CellsOf(line)
      OBVIOUS
    <3> QED
      BY <2>1, <3>1, FS_Subset DEF Index
  <2>3. \A e \in cells : Index(line, e) \in 0..Cardinality(CellsOf(line))
    BY <1>10, <2>1, <2>2
  <2> HIDE DEF cells, line
  <2> QED
    BY <2>1, <2>3
<1> HIDE DEF cells, sel, line, Over, at
<1>13. ASSUME Over(c) PROVE marks[r] # << >> /\ i \in marks[r][1]..marks[r][2]
  <2>1. i \in marked
    BY <1>6, <1>8, <1>13
  <2>2. PICK n \in Nat : marked \subseteq 0..n
    BY <1>12
  <2>6. marked \in SUBSET Nat /\ marked \in SUBSET (0..n) /\ marked # {}
    BY <2>1, <2>2
  <2> HIDE DEF marked
  <2>3. Min(marked) \in marked /\ Max(marked) \in marked /\ Min(marked) <= i /\ i <= Max(marked)
    BY <2>1, <2>2, <2>6, TvLeast, Largest
  <2>4. marks[r] = <<Min(marked), Max(marked)>>
    BY <1>11, <2>1
  <2>5. i \in Nat /\ Min(marked) \in Nat /\ Max(marked) \in Nat
    <3> HIDE DEF i
    <3> QED
      BY <2>1, <2>3, <2>6
  <2> HIDE DEF i, marks
  <2> QED
    BY <2>3, <2>4, <2>5
<1>14. ASSUME marks[r] # << >>, i \in marks[r][1]..marks[r][2] PROVE Over(c)
  <2>1. marked # {} /\ marks[r] = <<Min(marked), Max(marked)>>
    BY <1>11, <1>14
  <2>2. PICK n \in Nat : marked \subseteq 0..n
    BY <1>12
  <2>3. Min(marked) \in marked /\ Max(marked) \in marked
    <3>0. marked \in SUBSET Nat /\ marked \in SUBSET (0..n) /\ marked # {}
      BY <2>1, <2>2
    <3> HIDE DEF marked
    <3> QED
      BY <2>2, <3>0, TvLeast, Largest
  <2>4. PICK a \in cells : Min(marked) = Index(line, a)
    BY <2>3
  <2>5. PICK b \in cells : Max(marked) = Index(line, b)
    BY <2>3
  <2>6. a \in CellsOf(line) /\ b \in CellsOf(line) /\ Over(a) /\ Over(b)
    BY <1>8 DEF cells
  <2>7. i >= Index(line, a) /\ i <= Index(line, b)
    <3>1. i >= marks[r][1] /\ i <= marks[r][2]
      BY <1>14
    <3> QED
      BY <2>1, <2>4, <2>5, <3>1
  <2>8. a \in 1..cols /\ b \in 1..cols /\ c \in 1..cols /\ cols \in Nat
    BY <1>6, <2>6
  <2>9. ~(c < a) /\ ~(b < c)
    BY <1>6, <1>10, <2>6, <2>7
  <2>10. a <= c /\ c <= b
    BY <2>8, <2>9
  <2> QED
    BY <1>9, <2>6, <2>8, <2>10
<1> QED
  BY <1>2, <1>13, <1>14 DEF sel, line, Over, at

-----------------------------------------------------------------------------
(* The view through every step.                                               *)
\* The view of the terminal shows its grid, in which every row has its columns.
TvInv ==
  /\ tvSize \in TvSizes
  /\ tvOut \in Seq(TvChars)
  /\ TvGridOK(tvGrid)
  /\ \E rows, cols, off, truncated :
       /\ off \in Nat
       /\ tvView = [rows |-> rows, cols |-> cols, off |-> off, truncated |-> truncated,
                    cells |-> VisibleCells(tvGrid, NoSelection)]

LEMMA TvScrolled ==
  ASSUME NEW g, TvGridOK(g), NEW up \in 0..HistorySize(g)
  PROVE  TvGridOK([g EXCEPT !.off = up])
<1>1. PICK rows, cols, lines, row, col, wraps, off : TvGridOf(g, rows, cols, lines, row, col, wraps, off)
  BY DEF TvGridOK
<1>2. HistorySize(g) = Len(lines) - rows
  BY <1>1, TvLines
<1>3. [g EXCEPT !.off = up]
        = [rows |-> rows, cols |-> cols, lines |-> lines, row |-> row, col |-> col, wraps |-> wraps, off |-> up]
  <2>1. g \in [rows : {rows}, cols : {cols}, lines : {lines}, row : {row}, col : {col}, wraps : {wraps}, off : {off}]
    BY <1>1 DEF TvGridOf
  <2>2. [g EXCEPT !.off = up]
          \in [rows : {rows}, cols : {cols}, lines : {lines}, row : {row}, col : {col}, wraps : {wraps}, off : {up}]
    BY <2>1
  <2> QED
    BY <2>2
<1>4. TvGridOf([g EXCEPT !.off = up], rows, cols, lines, row, col, wraps, up)
  BY <1>1, <1>2, <1>3 DEF TvGridOf
<1> QED
  BY <1>4 DEF TvGridOK

LEMMA TvInitShows == TvInit => TvInv
<1> SUFFICES ASSUME TvInit PROVE TvInv
  OBVIOUS
<1>1. tvSize \in (Nat \ {0}) \X (Nat \ {0, 1})
  BY TvAssumption DEF TvInit
<1>2. TvGridOK(tvGrid)
  BY <1>1, TvFresh DEF TvInit
<1>3. tvOut \in Seq(TvChars)
  BY DEF TvInit
<1> QED
  BY <1>2, <1>3 DEF TvInit, TvInv

LEMMA TvNextShows == TvInv /\ [TvNext]_tvVars => TvInv'
<1> SUFFICES ASSUME TvInv, [TvNext]_tvVars PROVE TvInv'
  OBVIOUS
<1> USE TvAssumption
<1>0. TvHistory \in Nat /\ TvRing \in Nat
  OBVIOUS
<1>1. PICK rows, cols, off, truncated :
        /\ off \in Nat
        /\ tvView = [rows |-> rows, cols |-> cols, off |-> off, truncated |-> truncated,
                     cells |-> VisibleCells(tvGrid, NoSelection)]
  BY DEF TvInv
<1>2. tvSize \in TvSizes /\ tvOut \in Seq(TvChars) /\ TvGridOK(tvGrid)
  BY DEF TvInv
<1>3. \A size \in TvSizes : TvGridOK(FreshGrid(size))
  BY TvFresh
<1>4. CASE TvPrint
  <2>1. PICK c \in TvChars : tvOut' = Append(tvOut, c) /\ UNCHANGED <<tvSize, tvGrid, tvView>>
    BY <1>4 DEF TvPrint, TvChars
  <2>2. tvOut' \in Seq(TvChars)
    BY <1>2, <2>1, AppendIs
  <2> QED
    BY <1>1, <1>2, <2>1, <2>2 DEF TvInv
<1>5. CASE TvSizeChanges
  BY <1>1, <1>2, <1>5 DEF TvSizeChanges, TvInv
<1>6. CASE TvAttach
  <2> DEFINE lost == tvView.off + TvRing < Len(tvOut)
             from == IF lost THEN Len(tvOut) - TvRing + 1 ELSE tvView.off + 1
             news == SubSeq(tvOut, from, Len(tvOut))
             grid == Advance(IF lost THEN FreshGrid(tvSize) ELSE tvGrid, news)
  <2>1. /\ tvGrid' = grid
        /\ tvView' = [rows |-> tvSize[1], cols |-> tvSize[2], off |-> Len(tvOut), truncated |-> lost,
                      cells |-> VisibleCells(grid, NoSelection)]
        /\ UNCHANGED <<tvOut, tvSize>>
    BY <1>6 DEF TvAttach
  <2>2. tvView.off = off /\ Len(tvOut) \in Nat
    BY <1>1, <1>2
  <2>3. from \in Nat \ {0}
    BY <1>0, <1>1, <2>2
  <2>4. news \in Seq(TvChars)
    <3> HIDE DEF from
    <3> QED
      BY <1>2, <2>2, <2>3
  <2>5. TvGridOK(grid)
    <3> DEFINE start == IF lost THEN FreshGrid(tvSize) ELSE tvGrid
    <3>1. TvGridOK(start)
      BY <1>2, <1>3
    <3> HIDE DEF news, start
    <3>2. TvGridOK(Advance(start, news))
      BY <1>0, <2>4, <3>1, TvAdvanced
    <3> QED
      BY <3>2 DEF start
  <2> HIDE DEF lost, grid
  <2>6. \E r, c, o, t : o \in Nat /\ tvView' = [rows |-> r, cols |-> c, off |-> o, truncated |-> t,
                                                cells |-> VisibleCells(tvGrid', NoSelection)]
    BY <2>1, <2>2
  <2>7. tvSize' \in TvSizes /\ tvOut' \in Seq(TvChars) /\ TvGridOK(tvGrid')
    BY <1>2, <2>1, <2>5
  <2> QED
    BY <2>6, <2>7 DEF TvInv
<1>7. CASE TvScroll
  <2>1. PICK up \in 0..HistorySize(tvGrid) :
          /\ tvGrid' = [tvGrid EXCEPT !.off = up]
          /\ tvView' = [tvView EXCEPT !.cells = VisibleCells([tvGrid EXCEPT !.off = up], NoSelection)]
          /\ UNCHANGED <<tvOut, tvSize>>
    BY <1>7 DEF TvScroll
  <2>2. TvGridOK(tvGrid')
    BY <1>2, <2>1, TvScrolled
  <2> DEFINE shown == VisibleCells(tvGrid', NoSelection)
  <2>3. tvView' = [tvView EXCEPT !.cells = shown]
    BY <2>1
  <2> HIDE DEF shown
  <2>4. tvView' = [rows |-> rows, cols |-> cols, off |-> off, truncated |-> truncated, cells |-> shown]
    BY <1>1, <2>3
  <2> QED
    BY <1>1, <1>2, <2>1, <2>2, <2>4 DEF TvInv, shown
<1>8. CASE TvResize
  <2>1. PICK size \in TvSizes :
          /\ tvGrid' = FreshGrid(size) /\ tvSize' = size
          /\ tvView' = [tvView EXCEPT !.rows = size[1], !.cols = size[2],
                                      !.cells = VisibleCells(FreshGrid(size), NoSelection)]
          /\ UNCHANGED tvOut
    BY <1>8 DEF TvResize
  <2> DEFINE shown == VisibleCells(tvGrid', NoSelection)
             r == size[1]
             c == size[2]
  <2>2. tvView' = [tvView EXCEPT !.rows = r, !.cols = c, !.cells = shown]
    BY <2>1
  <2> HIDE DEF shown, r, c
  <2>3. tvView' = [rows |-> r, cols |-> c, off |-> off, truncated |-> truncated, cells |-> shown]
    <3>1. tvView \in [rows : {rows}, cols : {cols}, off : {off}, truncated : {truncated},
                      cells : {VisibleCells(tvGrid, NoSelection)}]
      BY <1>1
    <3>2. [tvView EXCEPT !.rows = r, !.cols = c, !.cells = shown]
            \in [rows : {r}, cols : {c}, off : {off}, truncated : {truncated}, cells : {shown}]
      BY <3>1
    <3>3. tvView' \in [rows : {r}, cols : {c}, off : {off}, truncated : {truncated}, cells : {shown}]
      BY <2>2, <3>2
    <3> QED
      BY <3>3
  <2>4. TvGridOK(tvGrid')
    BY <1>3, <2>1
  <2> QED
    BY <1>1, <1>2, <2>1, <2>3, <2>4 DEF TvInv, shown
<1>9. CASE UNCHANGED tvVars
  BY <1>1, <1>2, <1>9 DEF tvVars, TvInv
<1> QED
  BY <1>4, <1>5, <1>6, <1>7, <1>8, <1>9 DEF TvNext

\* What a reader sees, finds and marks is on the grid.
THEOREM TvScreenHolds == TvSpec => []TvScreenRight
<1>1. TvInv => TvScreenRight
  <2> SUFFICES ASSUME TvInv PROVE DrawnRight /\ HitsRight /\ MarksRight
    BY DEF TvScreenRight
  <2>1. TvGridOK(tvGrid) /\ tvView.cells = VisibleCells(tvGrid, NoSelection)
    BY DEF TvInv
  <2>2. TvQueries \subseteq Seq(STRING)
    BY TvAssumption
  <2> QED
    BY <2>1, <2>2, TvDrawnIsRight, TvHitsAreRight, TvMarksAreRight
<1> QED
  BY <1>1, TvInitShows, TvNextShows, PTL DEF TvSpec
=============================================================================
