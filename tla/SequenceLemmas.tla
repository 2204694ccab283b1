--------------------------- MODULE SequenceLemmas ---------------------------
(* Facts about numbers, recursive functions and sequences that the proofs of  *)
(* several components need.                                                   *)
EXTENDS Naturals, SequencesExt, FiniteSetsExt, FiniteSetTheorems, SequenceTheorems, WellFoundedInduction, TLAPS

-----------------------------------------------------------------------------
(* About numbers. *)

LEMMA Smallest == ASSUME NEW M \in SUBSET Nat, M # {} PROVE \E m \in M : \A k \in M : m <= k
<1>1. PICK m \in M : \A k \in M : ~(<<k, m>> \in OpToRel(<, Nat))
  BY WFMin, NatLessThanWellFounded
<1>2. \A k \in M : ~(k < m)
  BY <1>1 DEF OpToRel
<1> QED
  BY <1>2

LEMMA Upto ==
  ASSUME NEW n \in Nat, NEW P, 0 \in P, \A k \in 0..(n - 1) : k \in P => k + 1 \in P
  PROVE  \A k \in 0..n : k \in P
<1> DEFINE M == {k \in 0..n : k \notin P}
<1>1. SUFFICES ASSUME M # {} PROVE FALSE
  OBVIOUS
<1>0. M \subseteq 0..n /\ M \in SUBSET Nat
  OBVIOUS
<1>2. PICK m \in M : \A k \in M : m <= k
  <2> HIDE DEF M
  <2> QED
    BY <1>0, <1>1, Smallest
<1>3. m \in 1..n /\ m - 1 \in 0..(n - 1) /\ m - 1 \notin M
  BY <1>2
<1>4. m - 1 \in P
  BY <1>3
<1>5. (m - 1) + 1 \in P
  BY <1>3, <1>4
<1> QED
  BY <1>2, <1>3, <1>5

LEMMA Largest ==
  ASSUME NEW len \in Nat, NEW K \in SUBSET (0..len), K # {}
  PROVE  Max(K) \in K /\ \A k \in K : k <= Max(K)
<1> DEFINE M == {len - k : k \in K}
<1>1. M # {} /\ M \in SUBSET Nat
  <2>1. PICK k \in K : TRUE
    OBVIOUS
  <2>2. len - k \in M
    BY <2>1
  <2>3. \A j \in K : len - j \in Nat
    OBVIOUS
  <2>4. M \subseteq Nat
    BY <2>3
  <2> QED
    BY <2>2, <2>4
<1>2. PICK m \in M : \A k \in M : m <= k
  <2> HIDE DEF M
  <2> QED
    BY <1>1, Smallest
<1>3. PICK x \in K : m = len - x
  BY <1>2
<1>4. \A k \in K : x >= k
  <2> TAKE k \in K
  <2>1. m <= len - k
    BY <1>2
  <2> QED
    BY <1>3, <2>1
<1> QED
  BY <1>3, <1>4 DEF Max

-----------------------------------------------------------------------------
(* A recursive function over 0..n whose steps stay in S is there.             *)
Steps(f, n, start, step) == f = [k \in 0..n |-> IF k = 0 THEN start ELSE step[<<k, f[k - 1]>>]]

LEMMA Recursion ==
  ASSUME NEW S, NEW start \in S, NEW n \in Nat, NEW step \in [((1..n) \X S) -> S]
  PROVE  \E f \in [0..n -> S] : Steps(f, n, start, step)
<1> DEFINE Exists(m) == \E f \in [0..m -> S] : Steps(f, m, start, step)
           P == {m \in 0..n : Exists(m)}
<1>1. Exists(0)
  <2> DEFINE f == [k \in 0..0 |-> start]
  <2>1. f \in [0..0 -> S] /\ Steps(f, 0, start, step)
    BY DEF Steps
  <2> QED
    BY <2>1
<1>2. ASSUME NEW m \in 0..(n - 1), Exists(m) PROVE Exists(m + 1)
  <2>1. PICK f \in [0..m -> S] : Steps(f, m, start, step)
    BY <1>2
  <2> DEFINE g == [k \in 0..(m + 1) |-> IF k = m + 1 THEN step[<<m + 1, f[m]>>] ELSE f[k]]
  <2>2. g \in [0..(m + 1) -> S]
    <3>1. <<m + 1, f[m]>> \in (1..n) \X S
      OBVIOUS
    <3>2. step[<<m + 1, f[m]>>] \in S
      BY <3>1
    <3> QED
      BY <3>2
  <2>3. ASSUME NEW k \in 0..(m + 1) PROVE g[k] = IF k = 0 THEN start ELSE step[<<k, g[k - 1]>>]
    <3>1. CASE k = m + 1
      <4>1. k # 0 /\ k - 1 = m /\ m \in 0..(m + 1) /\ m # m + 1
        BY <3>1
      <4>2. g[m] = f[m] /\ g[k] = step[<<m + 1, f[m]>>]
        BY <3>1, <4>1
      <4> QED
        BY <3>1, <4>1, <4>2
    <3>2. CASE k # m + 1
      <4>1. g[k] = f[k] /\ k \in 0..m /\ (k # 0 => k - 1 \in 0..m /\ g[k - 1] = f[k - 1])
        BY <3>2
      <4>2. f[k] = IF k = 0 THEN start ELSE step[<<k, f[k - 1]>>]
        BY <2>1, <4>1 DEF Steps
      <4> QED
        BY <4>1, <4>2
    <3> QED
      BY <3>1, <3>2
  <2> HIDE DEF g
  <2>4. Steps(g, m + 1, start, step)
    BY <2>2, <2>3 DEF Steps
  <2> QED
    BY <2>2, <2>4
<1> HIDE DEF Exists
<1>3. \A k \in 0..n : k \in P
  <2>1. 0 \in P /\ \A k \in 0..(n - 1) : k \in P => k + 1 \in P
    BY <1>1, <1>2
  <2> HIDE DEF P
  <2> QED
    BY <2>1, Upto
<1> QED
  BY <1>3 DEF Exists

LEMMA AppendIs ==
  ASSUME NEW T, NEW s \in Seq(T), NEW t \in T
  PROVE  /\ Append(s, t) \in Seq(T) /\ Append(s, t) \in [1..(Len(s) + 1) -> T]
         /\ Len(Append(s, t)) = Len(s) + 1 /\ Append(s, t)[Len(s) + 1] = t
         /\ Len(s) \in Nat /\ \A i \in 1..Len(s) : Append(s, t)[i] = s[i]
<1>1. Append(s, t) \in Seq(T) /\ Len(Append(s, t)) = Len(s) + 1 /\ Len(s) \in Nat
  OBVIOUS
<1>2. Append(s, t)[Len(s) + 1] = t
  OBVIOUS
<1>3. \A i \in 1..Len(s) : Append(s, t)[i] = s[i]
  OBVIOUS
<1>4. Append(s, t) \in [1..(Len(s) + 1) -> T]
  <2> DEFINE a == Append(s, t)
             n == Len(s) + 1
  <2>1. a \in Seq(T) /\ Len(a) = n
    BY <1>1
  <2> HIDE DEF a, n
  <2>2. a \in [1..n -> T]
    BY <2>1
  <2> QED
    BY <2>2 DEF a, n
<1> QED
  BY <1>1, <1>2, <1>3, <1>4

LEMMA LastIs ==
  ASSUME NEW T, NEW s \in Seq(T), s # << >>
  PROVE  /\ Front(s) \in Seq(T) /\ Last(s) \in T /\ Last(s) = s[Len(s)]
         /\ Len(s) \in Nat \ {0} /\ Len(Front(s)) = Len(s) - 1
         /\ \A i \in 1..(Len(s) - 1) : Front(s)[i] = s[i]
         /\ s = Append(Front(s), Last(s))
<1>1. Len(s) \in Nat \ {0}
  BY EmptySeq
<1>2. Front(s) \in Seq(T) /\ Len(Front(s)) = Len(s) - 1 /\ \A i \in 1..(Len(s) - 1) : Front(s)[i] = s[i]
  <2>1. Front(s) = [i \in 1..(Len(s) - 1) |-> s[i]]
    BY <1>1 DEF Front
  <2>2. \A i \in 1..(Len(s) - 1) : s[i] \in T
    BY <1>1
  <2>3. Front(s) \in [1..(Len(s) - 1) -> T] /\ Len(s) - 1 \in Nat
    BY <1>1, <2>1, <2>2
  <2>4. Front(s) \in Seq(T) /\ Len(Front(s)) = Len(s) - 1
    BY <2>3
  <2> QED
    BY <2>1, <2>4
<1>3. Last(s) \in T /\ Last(s) = s[Len(s)]
  BY <1>1 DEF Last
<1> QED
  BY <1>1, <1>2, <1>3

LEMMA FunctionIsSeq == ASSUME NEW S, NEW n \in Nat, NEW f \in [1..n -> S] PROVE f \in Seq(S) /\ Len(f) = n
  OBVIOUS

-----------------------------------------------------------------------------
(* A sequence of sequences put together.                                      *)
LEMMA FlattenRuns ==
  ASSUME NEW S, NEW s \in Seq(Seq(S)), s # << >>
  PROVE  \E f \in [1..Len(s) -> Seq(S)] :
           /\ \A i \in 1..Len(s) : f[i] = IF i = 1 THEN s[i] ELSE f[i - 1] \o s[i]
           /\ FlattenSeq(s) = f[Len(s)]
<1> DEFINE len == Len(s)
           T == Seq(S)
           flatten[i \in 1..len] == IF i = 1 THEN s[i] ELSE flatten[i - 1] \o s[i]
           n == len - 1
           start == s[1]
           step == [x \in (1..n) \X T |-> x[2] \o s[x[1] + 1]]
<1>1. len \in Nat /\ len # 0 /\ n \in Nat /\ start \in T /\ \A i \in 1..len : s[i] \in T
  BY EmptySeq
<1>2. step \in [((1..n) \X T) -> T]
  <2>1. ASSUME NEW x \in (1..n) \X T PROVE x[2] \o s[x[1] + 1] \in T
    <3>1. x[2] \in T /\ x[1] + 1 \in 1..len
      BY <1>1
    <3>2. s[x[1] + 1] \in T
      BY <1>1, <3>1
    <3> QED
      BY <3>1, <3>2
  <2> QED
    BY <2>1
<1>3. PICK g \in [0..n -> T] : Steps(g, n, start, step)
  <2> HIDE DEF n, T, start, step, len, flatten
  <2> QED
    BY <1>1, <1>2, Recursion
<1> DEFINE h == [i \in 1..len |-> g[i - 1]]
<1>4. \A i \in 1..len : i - 1 \in 0..n
  BY <1>1
<1>5. h \in [1..len -> T]
  BY <1>4
<1>6. ASSUME NEW i \in 1..len PROVE h[i] = IF i = 1 THEN s[i] ELSE h[i - 1] \o s[i]
  <2>1. CASE i = 1
    <3>1. g[0] = start
      BY <1>1, <1>3 DEF Steps
    <3> QED
      BY <2>1, <3>1
  <2>2. CASE i # 1
    <3>1. i - 1 \in 1..n /\ i - 1 # 0 /\ i - 1 \in 0..n /\ (i - 1) - 1 \in 0..n /\ i - 1 \in 1..len /\ (i - 1) + 1 = i
      BY <1>1, <2>2
    <3>2. g[i - 1] = step[<<i - 1, g[(i - 1) - 1]>>]
      BY <1>3, <3>1 DEF Steps
    <3>3. step[<<i - 1, g[(i - 1) - 1]>>] = g[(i - 1) - 1] \o s[i]
      <4>1. g[(i - 1) - 1] \in T
        BY <3>1
      <4>2. <<i - 1, g[(i - 1) - 1]>> \in (1..n) \X T
        BY <3>1, <4>1
      <4> QED
        BY <3>1, <4>2
    <3>4. h[i] = g[i - 1] /\ h[i - 1] = g[(i - 1) - 1]
      BY <3>1
    <3> QED
      BY <2>2, <3>2, <3>3, <3>4
  <2> QED
    BY <2>1, <2>2
<1> DEFINE f0 == CHOOSE f : f = [i \in 1..len |-> IF i = 1 THEN s[i] ELSE f[i - 1] \o s[i]]
<1>7. h = [i \in 1..len |-> IF i = 1 THEN s[i] ELSE h[i - 1] \o s[i]]
  <2> HIDE DEF h, len
  <2>1. DOMAIN h = 1..len
    BY <1>5
  <2> QED
    BY <1>5, <1>6, <2>1
<1>8. f0 = [i \in 1..len |-> IF i = 1 THEN s[i] ELSE f0[i - 1] \o s[i]]
  <2> HIDE DEF h
  <2> QED
    BY <1>7
<1>9. FlattenSeq(s) = f0[len]
  <2>1. flatten = f0
    OBVIOUS
  <2>2. FlattenSeq(s) = flatten[len]
    BY <1>1 DEF FlattenSeq
  <2> QED
    BY <2>1, <2>2
<1> HIDE DEF f0, h, flatten
<1> DEFINE P == {k \in 0..n : f0[k + 1] = h[k + 1]}
<1>10. 0 \in P
  <2>1. 1 \in 1..len /\ 0 \in 0..n
    BY <1>1
  <2>2. f0[1] = s[1] /\ h[1] = s[1]
    BY <1>6, <1>8, <2>1
  <2> QED
    BY <2>1, <2>2
<1>11. \A k \in 0..(n - 1) : k \in P => k + 1 \in P
  <2> SUFFICES ASSUME NEW k \in 0..(n - 1), f0[k + 1] = h[k + 1] PROVE k + 1 \in 0..n /\ f0[(k + 1) + 1] = h[(k + 1) + 1]
    OBVIOUS
  <2>1. (k + 1) + 1 \in 1..len /\ (k + 1) + 1 # 1 /\ ((k + 1) + 1) - 1 = k + 1 /\ k + 1 \in 0..n
    BY <1>1
  <2>2. f0[(k + 1) + 1] = f0[k + 1] \o s[(k + 1) + 1] /\ h[(k + 1) + 1] = h[k + 1] \o s[(k + 1) + 1]
    BY <1>6, <1>8, <2>1
  <2> QED
    BY <2>1, <2>2
<1>12. f0[len] = h[len]
  <2> HIDE DEF P
  <2>1. n \in P
    <3>1. \A k \in 0..n : k \in P
      BY <1>1, <1>10, <1>11, Upto
    <3> QED
      BY <1>1, <3>1
  <2>2. n + 1 = len
    BY <1>1
  <2> QED
    BY <2>1, <2>2 DEF P
<1> QED
  BY <1>5, <1>6, <1>9, <1>12

LEMMA FlattenNone == FlattenSeq(<< >>) = << >>
BY DEF FlattenSeq

LEMMA FlattenAppend ==
  ASSUME NEW S, NEW s \in Seq(Seq(S)), NEW t \in Seq(S)
  PROVE  FlattenSeq(s) \in Seq(S) /\ FlattenSeq(Append(s, t)) = FlattenSeq(s) \o t
<1> DEFINE u == Append(s, t)
<1>1. u \in Seq(Seq(S)) /\ u # << >> /\ Len(u) = Len(s) + 1 /\ u[Len(s) + 1] = t /\ Len(s) \in Nat
      /\ \A i \in 1..Len(s) : u[i] = s[i]
  <2>1. \A q \in Seq(Seq(S)) :
          /\ Append(q, t) \in Seq(Seq(S)) /\ Len(Append(q, t)) = Len(q) + 1 /\ Append(q, t)[Len(q) + 1] = t
          /\ Len(q) \in Nat /\ \A i \in 1..Len(q) : Append(q, t)[i] = q[i]
    <3> DEFINE T == Seq(S)
    <3> HIDE DEF T
    <3>1. t \in T
      BY DEF T
    <3>2. \A q \in Seq(T) :
          /\ Append(q, t) \in Seq(T) /\ Len(Append(q, t)) = Len(q) + 1 /\ Append(q, t)[Len(q) + 1] = t
          /\ Len(q) \in Nat /\ \A i \in 1..Len(q) : Append(q, t)[i] = q[i]
      BY <3>1
    <3> QED
      BY <3>2 DEF T
  <2>2. Len(<< >>) = 0
    OBVIOUS
  <2>3. Len(u) # 0
    BY <2>1
  <2> QED
    BY <2>1, <2>2, <2>3
<1> HIDE DEF u
<1>2. PICK g \in [1..Len(u) -> Seq(S)] :
        /\ \A i \in 1..Len(u) : g[i] = IF i = 1 THEN u[i] ELSE g[i - 1] \o u[i]
        /\ FlattenSeq(u) = g[Len(u)]
  BY <1>1, FlattenRuns
<1>3. CASE s = << >>
  <2>1. Len(u) = 1 /\ 1 \in 1..Len(u) /\ g[1] = t
    BY <1>1, <1>2, <1>3
  <2>2. FlattenSeq(u) = t /\ FlattenSeq(s) = << >>
    BY <1>2, <1>3, <2>1, FlattenNone
  <2> QED
    BY <2>2 DEF u
<1>4. CASE s # << >>
  <2> DEFINE n == Len(s) - 1
  <2>1. PICK f \in [1..Len(s) -> Seq(S)] :
          /\ \A i \in 1..Len(s) : f[i] = IF i = 1 THEN s[i] ELSE f[i - 1] \o s[i]
          /\ FlattenSeq(s) = f[Len(s)]
    BY <1>4, FlattenRuns
  <2>2. n \in Nat /\ n + 1 = Len(s)
    BY <1>4, EmptySeq
  <2> DEFINE P == {k \in 0..n : g[k + 1] = f[k + 1]}
  <2>3. 0 \in P
    <3>1. 1 \in 1..Len(s) /\ 1 \in 1..Len(u) /\ 0 \in 0..n
      BY <1>1, <2>2
    <3>2. f[1] = s[1] /\ g[1] = u[1]
      BY <1>2, <2>1, <3>1
    <3> QED
      BY <1>1, <3>1, <3>2
  <2>4. \A k \in 0..(n - 1) : k \in P => k + 1 \in P
    <3> SUFFICES ASSUME NEW k \in 0..(n - 1), g[k + 1] = f[k + 1] PROVE k + 1 \in 0..n /\ g[(k + 1) + 1] = f[(k + 1) + 1]
      OBVIOUS
    <3>1. (k + 1) + 1 \in 1..Len(s) /\ (k + 1) + 1 \in 1..Len(u) /\ (k + 1) + 1 # 1 /\ ((k + 1) + 1) - 1 = k + 1 /\ k + 1 \in 0..n
      BY <1>1, <2>2
    <3>2. f[(k + 1) + 1] = f[k + 1] \o s[(k + 1) + 1] /\ g[(k + 1) + 1] = g[k + 1] \o u[(k + 1) + 1]
      BY <1>2, <2>1, <3>1
    <3> QED
      BY <1>1, <3>1, <3>2
  <2>5. g[Len(s)] = f[Len(s)]
    <3> HIDE DEF P, n
    <3>1. \A k \in 0..n : k \in P
      BY <2>2, <2>3, <2>4, Upto
    <3>2. n \in P
      BY <2>2, <3>1
    <3> QED
      BY <2>2, <3>2 DEF P
  <2>6. g[Len(s) + 1] = g[Len(s)] \o t
    <3>1. Len(s) + 1 \in 1..Len(u) /\ Len(s) + 1 # 1 /\ (Len(s) + 1) - 1 = Len(s)
      BY <1>1, <2>2
    <3> QED
      BY <1>1, <1>2, <3>1
  <2>7. f[Len(s)] \in Seq(S)
    BY <2>1, <2>2
  <2> QED
    BY <1>1, <1>2, <2>1, <2>5, <2>6, <2>7 DEF u
<1> QED
  BY <1>3, <1>4
=============================================================================
