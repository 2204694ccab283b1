---------------------------- MODULE Diffs_proofs ----------------------------
(* Proofs about the two readers of a diff: the words they leave unmarked, the *)
(* rows of the split drawing, and that what is drawn and summed is what git   *)
(* wrote, for diffs of any length.  The induction is along the steps of       *)
(* Diffs: after each, the invariant DfRead relates the diff to the states of  *)
(* both readers after its text.                                               *)
EXTENDS Diffs, SequenceLemmas

-----------------------------------------------------------------------------
(* Orders and tables.                                                       *)

(* Two sets of places that correspond in their order.                         *)
Along(at, P, Q) ==
  /\ at \in [P -> Q]
  /\ \A i, j \in P : i < j => at[i] < at[j]
  /\ \A q \in Q : \E p \in P : at[p] = q

(* Such a correspondence can be turned round.                               *)
LEMMA AlongBack ==
  ASSUME NEW P \in SUBSET Nat, NEW Q \in SUBSET Nat, NEW at, Along(at, P, Q)
  PROVE  \E back : Along(back, Q, P) /\ \A q \in Q : at[back[q]] = q
<1> DEFINE back == [q \in Q |-> CHOOSE p \in P : at[p] = q]
<1>1. \A q \in Q : back[q] \in P /\ at[back[q]] = q
  BY DEF Along
<1>2. back \in [Q -> P]
  BY <1>1
<1> HIDE DEF back
<1>3. ASSUME NEW i \in Q, NEW j \in Q, i < j PROVE back[i] < back[j]
  <2>1. back[i] \in Nat /\ back[j] \in Nat /\ i \in Nat /\ j \in Nat
    BY <1>1
  <2>2. ~(back[j] < back[i]) /\ back[i] # back[j]
    BY <1>1, <1>3, <2>1 DEF Along
  <2> QED
    BY <2>1, <2>2
<1>4. ASSUME NEW p \in P PROVE \E q \in Q : back[q] = p
  <2>1. at[p] \in Q /\ back[at[p]] \in P /\ at[back[at[p]]] = at[p]
    BY <1>1 DEF Along
  <2>2. ~(back[at[p]] < p) /\ ~(p < back[at[p]])
    <3>1. at[p] \in Nat
      BY <2>1
    <3>2. ~(at[p] < at[p])
      BY <3>1
    <3> QED
      BY <2>1, <3>2 DEF Along
  <2>3. back[at[p]] = p
    <3>1. p \in Nat /\ back[at[p]] \in Nat
      BY <2>1
    <3> QED
      BY <2>2, <3>1
  <2> QED
    BY <2>1, <2>3
<1> QED
  BY <1>1, <1>2, <1>3, <1>4 DEF Along

(* Two sets that both correspond to a third one correspond to each other.   *)
LEMMA AlongBoth ==
  ASSUME NEW P, NEW Q, NEW R, NEW f, NEW g, Along(f, P, Q), Along(g, Q, R)
  PROVE  Along([p \in P |-> g[f[p]]], P, R)
<1> DEFINE h == [p \in P |-> g[f[p]]]
<1>1. h \in [P -> R] /\ \A p \in P : h[p] = g[f[p]] /\ f[p] \in Q
  BY DEF Along
<1> HIDE DEF h
<1>2. \A i, j \in P : i < j => h[i] < h[j]
  BY <1>1 DEF Along
<1>3. ASSUME NEW r \in R PROVE \E p \in P : h[p] = r
  <2>1. PICK q \in Q : g[q] = r
    BY DEF Along
  <2>2. PICK p \in P : f[p] = q
    BY DEF Along
  <2> QED
    BY <1>1, <2>1, <2>2
<1>4. Along(h, P, R)
  BY <1>1, <1>2, <1>3 DEF Along
<1> QED
  BY <1>4 DEF h

(* One more on each side, after all the others.                               *)
LEMMA AlongMore ==
  ASSUME NEW P \in SUBSET Nat, NEW Q \in SUBSET Nat, NEW at, Along(at, P, Q),
         NEW x \in Nat, \A p \in P : p < x, NEW y \in Nat, \A q \in Q : q < y
  PROVE  Along([p \in P \cup {x} |-> IF p = x THEN y ELSE at[p]], P \cup {x}, Q \cup {y})
<1> DEFINE P1 == P \cup {x}
           Q1 == Q \cup {y}
           h == [p \in P1 |-> IF p = x THEN y ELSE at[p]]
<1>1. x \in P1 /\ h[x] = y /\ \A p \in P : p \in P1 /\ p # x /\ h[p] = at[p] /\ at[p] \in Q
  BY DEF Along
<1>2. h \in [P1 -> Q1]
  BY <1>1
<1>3. \A p \in P1 : p = x \/ p \in P
  OBVIOUS
<1>4. \A q \in Q1 : q = y \/ q \in Q
  OBVIOUS
<1> HIDE DEF h, P1, Q1
<1>5. ASSUME NEW i \in P1, NEW j \in P1, i < j PROVE h[i] < h[j]
  <2>1. i # x
    <3>1. ASSUME i = x PROVE FALSE
      <4>1. j \in P \/ j = x
        BY <1>3
      <4> QED
        BY <1>5, <3>1, <4>1
    <3> QED
      BY <3>1
  <2>2. i \in P /\ h[i] = at[i] /\ at[i] \in Q
    BY <1>1, <1>3, <2>1
  <2>3. CASE j = x
    BY <1>1, <2>2, <2>3
  <2>4. CASE j \in P
    BY <1>1, <1>5, <2>2, <2>4 DEF Along
  <2> QED
    BY <1>3, <2>3, <2>4
<1>6. ASSUME NEW q \in Q1 PROVE \E p \in P1 : h[p] = q
  <2>1. CASE q = y
    BY <1>1, <2>1
  <2>2. CASE q \in Q
    <3>1. PICK p \in P : at[p] = q
      BY <2>2 DEF Along
    <3> QED
      BY <1>1, <3>1
  <2> QED
    BY <1>4, <2>1, <2>2
<1>7. Along(h, P1, Q1)
  BY <1>2, <1>5, <1>6 DEF Along
<1> QED
  BY <1>7 DEF h, P1, Q1

(* Without the last of a set, the last on the other side goes too.            *)
LEMMA AlongLess ==
  ASSUME NEW P \in SUBSET Nat, NEW Q \in SUBSET Nat, NEW at, Along(at, P, Q),
         NEW x \in P, \A p \in P : p <= x
  PROVE  /\ Along([p \in P \ {x} |-> at[p]], P \ {x}, Q \ {at[x]})
         /\ at[x] \in Q /\ \A q \in Q : q <= at[x]
         /\ \A p \in P \ {x} : p < x
         /\ \A q \in Q \ {at[x]} : q < at[x]
<1> DEFINE P1 == P \ {x}
           Q1 == Q \ {at[x]}
           h == [p \in P1 |-> at[p]]
<1>0. at[x] \in Q /\ at[x] \in Nat /\ x \in Nat
  BY DEF Along
<1>1. \A p \in P1 : p \in P /\ p \in Nat /\ p # x /\ p < x /\ h[p] = at[p] /\ at[p] \in Q /\ at[p] < at[x] /\ at[p] \in Nat
  <2> TAKE p \in P1
  <2>1. p \in P /\ p \in Nat /\ p # x /\ p <= x
    OBVIOUS
  <2>2. p < x
    BY <2>1
  <2>3. at[p] \in Q /\ at[p] < at[x]
    BY <2>1, <2>2 DEF Along
  <2> QED
    BY <2>1, <2>2, <2>3
<1>2. h \in [P1 -> Q1]
  <2>1. \A p \in P1 : at[p] \in Q1
    BY <1>0, <1>1
  <2> QED
    BY <2>1
<1>3. ASSUME NEW q \in Q1 PROVE \E p \in P1 : h[p] = q
  <2>1. PICK p \in P : at[p] = q
    BY DEF Along
  <2>2. p \in P1
    BY <2>1
  <2> QED
    BY <1>1, <2>1, <2>2
<1>4. \A q \in Q1 : q < at[x]
  BY <1>0, <1>1, <1>3
<1>5. \A i, j \in P1 : i < j => h[i] < h[j]
  BY <1>1 DEF Along
<1> HIDE DEF h
<1>6. Along(h, P1, Q1)
  BY <1>2, <1>3, <1>5 DEF Along
<1>7. \A q \in Q : q <= at[x]
  <2> TAKE q \in Q
  <2>1. CASE q = at[x]
    BY <1>0, <2>1
  <2>2. CASE q # at[x]
    BY <1>0, <1>4, <2>2
  <2> QED
    BY <2>1, <2>2
<1> QED
  BY <1>0, <1>1, <1>4, <1>6, <1>7 DEF h

(* What holds of a cell as soon as it holds of those before it holds of     *)
(* all.                                                                     *)
LEMMA CellInduction ==
  ASSUME NEW m \in Nat, NEW n \in Nat, NEW P,
         \A i \in 0..m, j \in 0..n :
           (\A x \in 0..m, y \in 0..n : x + y < i + j => <<x, y>> \in P) => <<i, j>> \in P
  PROVE  \A i \in 0..m, j \in 0..n : <<i, j>> \in P
<1> DEFINE Bad(k) == \E i \in 0..m, j \in 0..n : i + j = k /\ <<i, j>> \notin P
           M == {k \in Nat : Bad(k)}
<1>1. ASSUME NEW x \in 0..m, NEW y \in 0..n, <<x, y>> \notin P PROVE x + y \in M
  <2>1. x + y \in Nat
    OBVIOUS
  <2>2. Bad(x + y)
    BY <1>1
  <2> HIDE DEF Bad
  <2> QED
    BY <2>1, <2>2
<1>2. ASSUME M # {} PROVE FALSE
  <2>1. PICK k \in M : \A l \in M : k <= l
    <3>1. M \in SUBSET Nat
      OBVIOUS
    <3> HIDE DEF M
    <3> QED
      BY <1>2, <3>1, Smallest
  <2>2. PICK i \in 0..m, j \in 0..n : i + j = k /\ <<i, j>> \notin P
    BY <2>1
  <2>3. ASSUME NEW x \in 0..m, NEW y \in 0..n, x + y < i + j PROVE <<x, y>> \in P
    <3>1. ASSUME <<x, y>> \notin P PROVE FALSE
      <4>1. x + y \in M
        BY <1>1, <3>1
      <4>2. k <= x + y
        BY <2>1, <4>1
      <4> QED
        BY <2>2, <2>3, <4>2
    <3> QED
      BY <3>1
  <2> QED
    BY <2>2, <2>3
<1> HIDE DEF M
<1> QED
  BY <1>1, <1>2

(* A table over 0..m and 0..n, each entry made of those before it.            *)
Table(f, m, n, start, step) ==
  \A i \in 0..m, j \in 0..n :
    f[<<i, j>>] = IF i = 0 \/ j = 0 THEN start
                  ELSE step[<<<<i, j>>, <<f[<<i - 1, j - 1>>], f[<<i - 1, j>>], f[<<i, j - 1>>]>>>>]

(* Such a table exists, filled along its diagonals.                         *)
LEMMA TableThere ==
  ASSUME NEW S, NEW start \in S, NEW m \in Nat, NEW n \in Nat,
         NEW step \in [((1..m) \X (1..n)) \X (S \X S \X S) -> S]
  PROVE  \E f \in [(0..m) \X (0..n) -> S] : Table(f, m, n, start, step)
<1> DEFINE Cells == (0..m) \X (0..n)
           Entry1(f, i, j) ==
             IF i = 0 \/ j = 0 THEN start
             ELSE step[<<<<i, j>>, <<f[<<i - 1, j - 1>>], f[<<i - 1, j>>], f[<<i, j - 1>>]>>>>]
           Filled(f, k) == \A i \in 0..m, j \in 0..n : i + j <= k => f[<<i, j>>] = Entry1(f, i, j)
           P == {k \in 0..(m + n) : \E f \in [Cells -> S] : Filled(f, k)}
<1>1. ASSUME NEW f \in [Cells -> S], NEW i \in 0..m, NEW j \in 0..n PROVE Entry1(f, i, j) \in S
  <2>1. CASE i = 0 \/ j = 0
    BY <2>1
  <2>2. CASE ~(i = 0 \/ j = 0)
    <3>1. i \in 1..m /\ j \in 1..n /\ i - 1 \in 0..m /\ j - 1 \in 0..n
      BY <2>2
    <3>2. <<i - 1, j - 1>> \in Cells /\ <<i - 1, j>> \in Cells /\ <<i, j - 1>> \in Cells
      BY <3>1
    <3>3. f[<<i - 1, j - 1>>] \in S /\ f[<<i - 1, j>>] \in S /\ f[<<i, j - 1>>] \in S
      BY <3>2
    <3>4. <<<<i, j>>, <<f[<<i - 1, j - 1>>], f[<<i - 1, j>>], f[<<i, j - 1>>]>>>> \in ((1..m) \X (1..n)) \X (S \X S \X S)
      BY <3>1, <3>3
    <3>5. step[<<<<i, j>>, <<f[<<i - 1, j - 1>>], f[<<i - 1, j>>], f[<<i, j - 1>>]>>>>] \in S
      BY <3>4
    <3> QED
      BY <2>2, <3>5
  <2> QED
    BY <2>1, <2>2
<1>2. 0 \in P
  <2> DEFINE f == [c \in Cells |-> start]
  <2>1. f \in [Cells -> S]
    OBVIOUS
  <2>2. Filled(f, 0)
    <3> SUFFICES ASSUME NEW i \in 0..m, NEW j \in 0..n, i + j <= 0 PROVE f[<<i, j>>] = Entry1(f, i, j)
      OBVIOUS
    <3>1. i = 0
      OBVIOUS
    <3>2. <<i, j>> \in Cells
      OBVIOUS
    <3> QED
      BY <3>1, <3>2
  <2>3. 0 \in 0..(m + n)
    OBVIOUS
  <2> HIDE DEF f, Filled, Cells
  <2> QED
    BY <2>1, <2>2, <2>3
<1>3. ASSUME NEW k \in 0..((m + n) - 1), k \in P PROVE k + 1 \in P
  <2>1. PICK f \in [Cells -> S] : Filled(f, k)
    BY <1>3
  <2> DEFINE g == [c \in Cells |-> IF c[1] + c[2] = k + 1 THEN Entry1(f, c[1], c[2]) ELSE f[c]]
  <2>2. g \in [Cells -> S]
    <3>1. ASSUME NEW c \in Cells PROVE (IF c[1] + c[2] = k + 1 THEN Entry1(f, c[1], c[2]) ELSE f[c]) \in S
      <4>1. c[1] \in 0..m /\ c[2] \in 0..n /\ f[c] \in S
        OBVIOUS
      <4>2. Entry1(f, c[1], c[2]) \in S
        BY <1>1, <4>1
      <4> QED
        BY <4>1, <4>2
    <3> HIDE DEF Cells, Entry1
    <3> QED
      BY <3>1
  <2>3. ASSUME NEW i \in 0..m, NEW j \in 0..n
        PROVE  g[<<i, j>>] = IF i + j = k + 1 THEN Entry1(f, i, j) ELSE f[<<i, j>>]
    <3>1. <<i, j>> \in Cells /\ <<i, j>>[1] = i /\ <<i, j>>[2] = j
      OBVIOUS
    <3> HIDE DEF Cells, Entry1
    <3> QED
      BY <3>1
  <2> HIDE DEF g
  <2>4. ASSUME NEW i \in 0..m, NEW j \in 0..n, i + j <= k + 1 PROVE Entry1(g, i, j) = Entry1(f, i, j)
    <3>1. CASE i = 0 \/ j = 0
      BY <3>1
    <3>2. CASE ~(i = 0 \/ j = 0)
      <4>1. i - 1 \in 0..m /\ j - 1 \in 0..n /\ (i - 1) + (j - 1) # k + 1 /\ (i - 1) + j # k + 1 /\ i + (j - 1) # k + 1
        BY <2>4, <3>2
      <4>2. g[<<i - 1, j - 1>>] = f[<<i - 1, j - 1>>] /\ g[<<i - 1, j>>] = f[<<i - 1, j>>] /\ g[<<i, j - 1>>] = f[<<i, j - 1>>]
        BY <2>3, <4>1
      <4> QED
        BY <4>2
    <3> QED
      BY <3>1, <3>2
  <2>5. Filled(g, k + 1)
    <3> SUFFICES ASSUME NEW i \in 0..m, NEW j \in 0..n, i + j <= k + 1 PROVE g[<<i, j>>] = Entry1(g, i, j)
      OBVIOUS
    <3>1. Entry1(g, i, j) = Entry1(f, i, j)
      BY <2>4
    <3>2. CASE i + j = k + 1
      <4>1. g[<<i, j>>] = Entry1(f, i, j)
        BY <2>3, <3>2
      <4> QED
        BY <3>1, <4>1
    <3>3. CASE i + j # k + 1
      <4>1. i + j <= k
        BY <3>3
      <4>2. f[<<i, j>>] = Entry1(f, i, j)
        BY <2>1, <4>1
      <4>3. g[<<i, j>>] = f[<<i, j>>]
        BY <2>3, <3>3
      <4> QED
        BY <3>1, <4>2, <4>3
    <3> QED
      BY <3>2, <3>3
  <2>6. k + 1 \in 0..(m + n)
    OBVIOUS
  <2> HIDE DEF Filled, Cells
  <2> QED
    BY <2>2, <2>5, <2>6
<1>4. m + n \in P
  <2>1. m + n \in Nat /\ m + n \in 0..(m + n)
    OBVIOUS
  <2>2. \A k \in 0..((m + n) - 1) : k \in P => k + 1 \in P
    BY <1>3
  <2> HIDE DEF P
  <2>3. \A k \in 0..(m + n) : k \in P
    BY <1>2, <2>1, <2>2, Upto
  <2> QED
    BY <2>1, <2>3
<1>5. PICK f \in [Cells -> S] : Filled(f, m + n)
  BY <1>4
<1>6. Table(f, m, n, start, step)
  <2> SUFFICES ASSUME NEW i \in 0..m, NEW j \in 0..n PROVE f[<<i, j>>] = Entry1(f, i, j)
    BY DEF Table
  <2>1. i + j <= m + n
    OBVIOUS
  <2> QED
    BY <1>5, <2>1
<1> QED
  BY <1>6

LEMMA LargerOfTwo == ASSUME NEW p \in Nat, NEW q \in Nat PROVE Max({p, q}) = IF p <= q THEN q ELSE p
<1>1. {p, q} \in SUBSET (0..(p + q)) /\ {p, q} # {} /\ p + q \in Nat
  OBVIOUS
<1>2. Max({p, q}) \in {p, q} /\ \A k \in {p, q} : k <= Max({p, q})
  BY <1>1, Largest
<1>3. (Max({p, q}) = p \/ Max({p, q}) = q) /\ p <= Max({p, q}) /\ q <= Max({p, q})
  BY <1>2
<1> DEFINE x == Max({p, q})
<1> HIDE DEF x
<1>4. (x = p \/ x = q) /\ p <= x /\ q <= x
  BY <1>3 DEF x
<1>5. x = IF p <= q THEN q ELSE p
  BY <1>4
<1> QED
  BY <1>5 DEF x

-----------------------------------------------------------------------------
(* Words that changed.                                                      *)

(* The table of the lengths of common parts.                                *)
Cells(a, b) == (0..Len(a)) \X (0..Len(b))

LcsLength(len, a, b, i, j) ==
  IF i = 0 \/ j = 0 THEN 0
  ELSE IF a[i] = b[j] THEN len[<<i - 1, j - 1>>] + 1
  ELSE IF len[<<i, j - 1>>] <= len[<<i - 1, j>>] THEN len[<<i - 1, j>>]
  ELSE len[<<i, j - 1>>]

(* LcsLengths is that table.                                                *)
LEMMA LengthsThere ==
  ASSUME NEW W, NEW a \in Seq(W), NEW b \in Seq(W)
  PROVE  /\ LcsLengths(a, b) \in [Cells(a, b) -> Nat]
         /\ \A i \in 0..Len(a), j \in 0..Len(b) :
              LcsLengths(a, b)[<<i, j>>] = LcsLength(LcsLengths(a, b), a, b, i, j)
<1> DEFINE m == Len(a)
           n == Len(b)
           D == (0..m) \X (0..n)
           Rhs(f, c) == IF c[1] = 0 \/ c[2] = 0 THEN 0
                        ELSE IF a[c[1]] = b[c[2]] THEN f[<<c[1] - 1, c[2] - 1>>] + 1
                        ELSE Max({f[<<c[1], c[2] - 1>>], f[<<c[1] - 1, c[2]>>]})
           f0 == CHOOSE f : f = [c \in D |-> Rhs(f, c)]
           N3 == Nat \X Nat \X Nat
           step == [x \in ((1..m) \X (1..n)) \X N3 |->
                      IF a[x[1][1]] = b[x[1][2]] THEN x[2][1] + 1 ELSE Max({x[2][3], x[2][2]})]
<1>1. m \in Nat /\ n \in Nat
  OBVIOUS
<1>2. \A p, q \in Nat : Max({p, q}) \in Nat
  BY LargerOfTwo
<1>3. step \in [((1..m) \X (1..n)) \X N3 -> Nat]
  <2>1. ASSUME NEW x \in ((1..m) \X (1..n)) \X N3
        PROVE  (IF a[x[1][1]] = b[x[1][2]] THEN x[2][1] + 1 ELSE Max({x[2][3], x[2][2]})) \in Nat
    <3>1. x[2][1] \in Nat /\ x[2][2] \in Nat /\ x[2][3] \in Nat
      OBVIOUS
    <3>2. Max({x[2][3], x[2][2]}) \in Nat
      BY <1>2, <3>1
    <3> QED
      BY <3>1, <3>2
  <2> QED
    BY <2>1
<1>4. PICK f \in [D -> Nat] : Table(f, m, n, 0, step)
  <2> HIDE DEF m, n, step
  <2> QED
    BY <1>1, <1>3, TableThere
<1>5. f = [c \in D |-> Rhs(f, c)]
  <2>1. ASSUME NEW c \in D PROVE f[c] = Rhs(f, c)
    <3>1. PICK i \in 0..m, j \in 0..n : c = <<i, j>>
      OBVIOUS
    <3>2. c[1] = i /\ c[2] = j
      BY <3>1
    <3>3. CASE i = 0 \/ j = 0
      <4>1. f[<<i, j>>] = 0
        BY <1>4, <3>3 DEF Table
      <4> QED
        BY <3>1, <3>2, <3>3, <4>1
    <3>4. CASE ~(i = 0 \/ j = 0)
      <4> DEFINE u == <<i - 1, j - 1>>
                 v == <<i - 1, j>>
                 w == <<i, j - 1>>
                 x == <<<<i, j>>, <<f[u], f[v], f[w]>>>>
      <4>1. i \in 1..m /\ j \in 1..n /\ i - 1 \in 0..m /\ j - 1 \in 0..n
        BY <3>4
      <4>2. u \in D /\ v \in D /\ w \in D
        BY <4>1
      <4>3. f[u] \in Nat /\ f[v] \in Nat /\ f[w] \in Nat
        BY <4>2
      <4>4. x \in ((1..m) \X (1..n)) \X N3 /\ x[1][1] = i /\ x[1][2] = j /\ x[2][1] = f[u] /\ x[2][2] = f[v] /\ x[2][3] = f[w]
        BY <4>1, <4>3
      <4>5. f[<<i, j>>] = step[x]
        BY <1>4, <3>4, ZenonT(30) DEF Table
      <4>6. step[x] = IF a[x[1][1]] = b[x[1][2]] THEN x[2][1] + 1 ELSE Max({x[2][3], x[2][2]})
        BY <4>4
      <4>7. f[<<i, j>>] = IF a[i] = b[j] THEN f[u] + 1 ELSE Max({f[w], f[v]})
        <5> HIDE DEF x, step, u, v, w
        <5> QED
          BY <4>4, <4>5, <4>6
      <4> QED
        BY <3>1, <3>2, <3>4, <4>7
    <3> QED
      BY <3>3, <3>4
  <2> HIDE DEF Rhs, D
  <2> QED
    BY <2>1
<1>6. f0 = [c \in D |-> Rhs(f0, c)]
  BY <1>5
<1>7. LcsLengths(a, b) = f0
  BY DEF LcsLengths
<1> HIDE DEF f0
<1>8. \A i \in 0..m, j \in 0..n : f0[<<i, j>>] = Rhs(f0, <<i, j>>)
  <2> TAKE i \in 0..m, j \in 0..n
  <2>1. <<i, j>> \in D
    OBVIOUS
  <2> HIDE DEF D, Rhs
  <2> QED
    BY <1>6, <2>1
<1>9. \A i \in 0..m, j \in 0..n :
        f0[<<i, j>>] = IF i = 0 \/ j = 0 THEN 0
                       ELSE IF a[i] = b[j] THEN f0[<<i - 1, j - 1>>] + 1
                       ELSE Max({f0[<<i, j - 1>>], f0[<<i - 1, j>>]})
  BY <1>8
<1> DEFINE P == {c \in D : f0[c] \in Nat}
<1>10. \A i \in 0..m, j \in 0..n :
         (\A x \in 0..m, y \in 0..n : x + y < i + j => <<x, y>> \in P) => <<i, j>> \in P
  <2> SUFFICES ASSUME NEW i \in 0..m, NEW j \in 0..n,
                      \A x \in 0..m, y \in 0..n : x + y < i + j => <<x, y>> \in P
               PROVE  f0[<<i, j>>] \in Nat
    OBVIOUS
  <2>0. f0[<<i, j>>] = IF i = 0 \/ j = 0 THEN 0
                       ELSE IF a[i] = b[j] THEN f0[<<i - 1, j - 1>>] + 1
                       ELSE Max({f0[<<i, j - 1>>], f0[<<i - 1, j>>]})
    BY <1>9
  <2> HIDE DEF P
  <2>1. CASE i = 0 \/ j = 0
    BY <2>0, <2>1
  <2>2. CASE ~(i = 0 \/ j = 0)
    <3>1. i - 1 \in 0..m /\ j - 1 \in 0..n /\ (i - 1) + (j - 1) < i + j /\ (i - 1) + j < i + j /\ i + (j - 1) < i + j
      BY <2>2
    <3>2. <<i - 1, j - 1>> \in P /\ <<i - 1, j>> \in P /\ <<i, j - 1>> \in P
      BY <3>1
    <3>3. f0[<<i - 1, j - 1>>] \in Nat /\ f0[<<i - 1, j>>] \in Nat /\ f0[<<i, j - 1>>] \in Nat
      BY <3>2 DEF P
    <3>4. Max({f0[<<i, j - 1>>], f0[<<i - 1, j>>]}) \in Nat
      BY <1>2, <3>3
    <3> QED
      BY <2>0, <2>2, <3>3, <3>4
  <2> QED
    BY <2>1, <2>2
<1>11. \A i \in 0..m, j \in 0..n : <<i, j>> \in P
  <2> HIDE DEF P, m, n
  <2> QED
    BY <1>1, <1>10, CellInduction
<1>12. f0 \in [D -> Nat]
  <2>1. \A c \in D : f0[c] \in Nat
    <3> TAKE c \in D
    <3>1. PICK i \in 0..m, j \in 0..n : c = <<i, j>>
      OBVIOUS
    <3> QED
      BY <1>11, <3>1
  <2>2. DOMAIN f0 = D
    BY <1>6
  <2>3. f0 = [c \in D |-> f0[c]]
    <3> HIDE DEF D, Rhs
    <3> QED
      BY <1>6
  <2> HIDE DEF D
  <2> QED
    BY <2>1, <2>3
<1>13. ASSUME NEW i \in 0..m, NEW j \in 0..n PROVE f0[<<i, j>>] = LcsLength(f0, a, b, i, j)
  <2>1. CASE i = 0 \/ j = 0
    BY <1>9, <2>1 DEF LcsLength
  <2>2. CASE ~(i = 0 \/ j = 0)
    <3>1. i - 1 \in 0..m /\ j - 1 \in 0..n
      BY <2>2
    <3>2. f0[<<i - 1, j>>] \in Nat /\ f0[<<i, j - 1>>] \in Nat
      <4>1. <<i - 1, j>> \in P /\ <<i, j - 1>> \in P
        BY <1>11, <3>1
      <4> QED
        BY <4>1
    <3>3. Max({f0[<<i, j - 1>>], f0[<<i - 1, j>>]})
            = IF f0[<<i, j - 1>>] <= f0[<<i - 1, j>>] THEN f0[<<i - 1, j>>] ELSE f0[<<i, j - 1>>]
      BY <3>2, LargerOfTwo
    <3> QED
      BY <1>9, <2>2, <3>3 DEF LcsLength
  <2> QED
    BY <2>1, <2>2
<1> HIDE DEF m, n
<1>14. f0 \in [(0..m) \X (0..n) -> Nat]
  BY <1>12
<1> QED
  BY <1>7, <1>13, <1>14 DEF Cells, m, n

(* The way back through it.                                                 *)
LcsBack(back, len, a, b, i, j) ==
  IF i = 0 \/ j = 0 THEN << >>
  ELSE IF a[i] = b[j] THEN Append(back[<<i - 1, j - 1>>], a[i])
  ELSE IF len[<<i - 1, j>>] >= len[<<i, j - 1>>] THEN back[<<i - 1, j>>]
  ELSE back[<<i, j - 1>>]

(* Lcs is where the way back from the last cell leads.                      *)
LEMMA BackThere ==
  ASSUME NEW W, NEW a \in Seq(W), NEW b \in Seq(W)
  PROVE  \E back \in [Cells(a, b) -> Seq(W)] :
           /\ \A i \in 0..Len(a), j \in 0..Len(b) : back[<<i, j>>] = LcsBack(back, LcsLengths(a, b), a, b, i, j)
           /\ Lcs(a, b) = back[<<Len(a), Len(b)>>]
<1> DEFINE m == Len(a)
           n == Len(b)
           D == (0..m) \X (0..n)
           len == LcsLengths(a, b)
           S == Seq(W)
           Rhs(f, c) ==
             IF c[1] = 0 \/ c[2] = 0 THEN << >>
             ELSE IF a[c[1]] = b[c[2]] THEN Append(f[<<c[1] - 1, c[2] - 1>>], a[c[1]])
             ELSE IF len[<<c[1] - 1, c[2]>>] >= len[<<c[1], c[2] - 1>>] THEN f[<<c[1] - 1, c[2]>>]
             ELSE f[<<c[1], c[2] - 1>>]
           f0 == CHOOSE f : f = [c \in D |-> Rhs(f, c)]
           S3 == S \X S \X S
           Step(c, s) ==
             IF a[c[1]] = b[c[2]] THEN Append(s[1], a[c[1]])
             ELSE IF len[<<c[1] - 1, c[2]>>] >= len[<<c[1], c[2] - 1>>] THEN s[2] ELSE s[3]
           step == [x \in ((1..m) \X (1..n)) \X S3 |-> Step(x[1], x[2])]
<1> HIDE DEF len
<1>1. m \in Nat /\ n \in Nat /\ << >> \in S
  OBVIOUS
<1>2. \A i \in 1..m : a[i] \in W
  OBVIOUS
<1>3. step \in [((1..m) \X (1..n)) \X S3 -> S]
  <2>1. ASSUME NEW x \in ((1..m) \X (1..n)) \X S3 PROVE Step(x[1], x[2]) \in S
    <3>1. x[2][1] \in S /\ x[2][2] \in S /\ x[2][3] \in S /\ x[1][1] \in 1..m
      OBVIOUS
    <3>2. Append(x[2][1], a[x[1][1]]) \in S
      BY <1>2, <3>1
    <3> QED
      BY <3>1, <3>2
  <2> HIDE DEF Step
  <2> QED
    BY <2>1
<1>4. PICK f \in [D -> S] : Table(f, m, n, << >>, step)
  <2> HIDE DEF m, n, step, S
  <2> QED
    BY <1>1, <1>3, TableThere
<1>5. \A i \in 0..m, j \in 0..n : f[<<i, j>>] = LcsBack(f, len, a, b, i, j)
  <2> TAKE i \in 0..m, j \in 0..n
  <2>1. CASE i = 0 \/ j = 0
    BY <1>4, <2>1 DEF Table, LcsBack
  <2>2. CASE ~(i = 0 \/ j = 0)
    <3> DEFINE u == <<i - 1, j - 1>>
               v == <<i - 1, j>>
               w == <<i, j - 1>>
               c == <<i, j>>
               s == <<f[u], f[v], f[w]>>
               x == <<c, s>>
    <3>1. i \in 1..m /\ j \in 1..n /\ i - 1 \in 0..m /\ j - 1 \in 0..n
      BY <2>2
    <3>2. u \in D /\ v \in D /\ w \in D
      BY <3>1
    <3>3. f[u] \in S /\ f[v] \in S /\ f[w] \in S
      BY <3>2
    <3>4. x \in ((1..m) \X (1..n)) \X S3 /\ x[1] = c /\ x[2] = s /\ c[1] = i /\ c[2] = j
          /\ s[1] = f[u] /\ s[2] = f[v] /\ s[3] = f[w]
      BY <3>1, <3>3
    <3>5. f[<<i, j>>] = step[x]
      BY <1>4, <2>2 DEF Table
    <3>6. step[x] = Step(x[1], x[2])
      <4> HIDE DEF Step, x
      <4> QED
        BY <3>4
    <3>7. Step(c, s) = IF a[i] = b[j] THEN Append(f[u], a[i]) ELSE IF len[v] >= len[w] THEN f[v] ELSE f[w]
      <4> HIDE DEF c, s, x
      <4> QED
        BY <3>4
    <3>8. f[<<i, j>>] = IF a[i] = b[j] THEN Append(f[u], a[i]) ELSE IF len[v] >= len[w] THEN f[v] ELSE f[w]
      <4> HIDE DEF c, s, x, step, Step, u, v, w
      <4> QED
        BY <3>4, <3>5, <3>6, <3>7
    <3> QED
      BY <2>2, <3>8 DEF LcsBack
  <2> QED
    BY <2>1, <2>2
<1>6. f = [c \in D |-> Rhs(f, c)]
  <2>1. ASSUME NEW c \in D PROVE f[c] = Rhs(f, c)
    <3>1. PICK i \in 0..m, j \in 0..n : c = <<i, j>>
      OBVIOUS
    <3>2. c[1] = i /\ c[2] = j
      BY <3>1
    <3>3. f[<<i, j>>] = LcsBack(f, len, a, b, i, j)
      BY <1>5
    <3>4. Rhs(f, c) = LcsBack(f, len, a, b, i, j)
      BY <3>2 DEF LcsBack
    <3> QED
      BY <3>1, <3>3, <3>4
  <2> HIDE DEF Rhs, D
  <2> QED
    BY <2>1
<1>7. f0 = [c \in D |-> Rhs(f0, c)]
  BY <1>6
<1>8. Lcs(a, b) = f0[<<m, n>>]
  BY DEF Lcs, len
<1> HIDE DEF f0
<1> DEFINE P == {c \in D : f0[c] = f[c]}
<1>9. \A i \in 0..m, j \in 0..n :
        (\A x \in 0..m, y \in 0..n : x + y < i + j => <<x, y>> \in P) => <<i, j>> \in P
  <2> SUFFICES ASSUME NEW i \in 0..m, NEW j \in 0..n,
                      \A x \in 0..m, y \in 0..n : x + y < i + j => <<x, y>> \in P
               PROVE  f0[<<i, j>>] = f[<<i, j>>]
    OBVIOUS
  <2>0. f0[<<i, j>>] = LcsBack(f0, len, a, b, i, j)
    <3>1. <<i, j>> \in D /\ <<i, j>>[1] = i /\ <<i, j>>[2] = j
      OBVIOUS
    <3>2. f0[<<i, j>>] = Rhs(f0, <<i, j>>)
      <4> HIDE DEF D, Rhs
      <4> QED
        BY <1>7, <3>1
    <3> QED
      BY <3>1, <3>2 DEF LcsBack
  <2>00. f[<<i, j>>] = LcsBack(f, len, a, b, i, j)
    BY <1>5
  <2>1. CASE i = 0 \/ j = 0
    BY <2>0, <2>00, <2>1 DEF LcsBack
  <2>2. CASE ~(i = 0 \/ j = 0)
    <3>1. i - 1 \in 0..m /\ j - 1 \in 0..n /\ (i - 1) + (j - 1) < i + j /\ (i - 1) + j < i + j /\ i + (j - 1) < i + j
      BY <2>2
    <3>2. <<i - 1, j - 1>> \in P /\ <<i - 1, j>> \in P /\ <<i, j - 1>> \in P
      BY <3>1
    <3>3. f0[<<i - 1, j - 1>>] = f[<<i - 1, j - 1>>] /\ f0[<<i - 1, j>>] = f[<<i - 1, j>>] /\ f0[<<i, j - 1>>] = f[<<i, j - 1>>]
      BY <3>2
    <3> HIDE DEF P
    <3> QED
      BY <2>0, <2>00, <2>2, <3>3 DEF LcsBack
  <2> QED
    BY <2>1, <2>2
<1>10. f0[<<m, n>>] = f[<<m, n>>]
  <2>1. \A i \in 0..m, j \in 0..n : <<i, j>> \in P
    <3> HIDE DEF P, m, n
    <3> QED
      BY <1>1, <1>9, CellInduction
  <2>2. m \in 0..m /\ n \in 0..n
    BY <1>1
  <2> QED
    BY <2>1, <2>2
<1> HIDE DEF m, n
<1>11. f \in [(0..m) \X (0..n) -> Seq(W)]
  BY <1>4
<1>12. f \in [Cells(a, b) -> Seq(W)]
  BY <1>11 DEF Cells, m, n
<1>13. Lcs(a, b) = f[<<Len(a), Len(b)>>]
  BY <1>8, <1>10 DEF m, n
<1>14. \A i \in 0..Len(a), j \in 0..Len(b) : f[<<i, j>>] = LcsBack(f, LcsLengths(a, b), a, b, i, j)
  BY <1>5 DEF m, n, len
<1> QED
  BY <1>12, <1>13, <1>14

-----------------------------------------------------------------------------
(* A sequence is found in the first i places of another, in order.            *)
Embeds(s, a, i) ==
  \E at \in [1..Len(s) -> 1..i] :
    (\A k, l \in 1..Len(s) : k < l => at[k] < at[l]) /\ \A k \in 1..Len(s) : a[at[k]] = s[k]

(* What is found in some places is found in more of them.                   *)
LEMMA EmbedsWider ==
  ASSUME NEW s, NEW a, NEW i \in Nat, NEW j \in Nat, i <= j, Embeds(s, a, i)
  PROVE  Embeds(s, a, j)
<1>1. PICK at \in [1..Len(s) -> 1..i] :
        (\A k, l \in 1..Len(s) : k < l => at[k] < at[l]) /\ \A k \in 1..Len(s) : a[at[k]] = s[k]
  BY DEF Embeds
<1>2. at \in [1..Len(s) -> 1..j]
  <2>1. 1..i \subseteq 1..j
    OBVIOUS
  <2> QED
    BY <2>1
<1> QED
  BY <1>1, <1>2 DEF Embeds

(* One word more on either side.                                            *)
LEMMA EmbedsMore ==
  ASSUME NEW W, NEW s \in Seq(W), NEW a, NEW i \in Nat \ {0}, a[i] \in W, Embeds(s, a, i - 1)
  PROVE  Embeds(Append(s, a[i]), a, i)
<1> DEFINE n == Len(s)
           t == Append(s, a[i])
<1>0. n \in Nat /\ Len(t) = n + 1 /\ t[n + 1] = a[i] /\ \A k \in 1..n : t[k] = s[k]
  BY AppendIs
<1>1. PICK at \in [1..n -> 1..(i - 1)] :
        (\A k, l \in 1..n : k < l => at[k] < at[l]) /\ \A k \in 1..n : a[at[k]] = s[k]
  BY DEF Embeds
<1> DEFINE bt == [k \in 1..(n + 1) |-> IF k = n + 1 THEN i ELSE at[k]]
<1> HIDE DEF n, t
<1>2. bt \in [1..(n + 1) -> 1..i]
  <2>1. \A k \in 1..(n + 1) : k # n + 1 => k \in 1..n
    BY <1>0
  <2>3. \A k \in 1..n : at[k] \in 1..(i - 1)
    OBVIOUS
  <2>2. 1..(i - 1) \subseteq 1..i /\ i \in 1..i
    OBVIOUS
  <2> QED
    BY <2>1, <2>2, <2>3
<1>3. n + 1 \in 1..(n + 1) /\ bt[n + 1] = i
  BY <1>0
<1>4. \A k \in 1..n : k \in 1..(n + 1) /\ bt[k] = at[k] /\ at[k] \in 1..(i - 1) /\ k # n + 1
  <2>1. \A k \in 1..n : k \in 1..(n + 1) /\ k # n + 1
    BY <1>0
  <2> QED
    BY <2>1
<1> HIDE DEF bt
<1>5. ASSUME NEW k \in 1..(n + 1), NEW l \in 1..(n + 1), k < l PROVE bt[k] < bt[l]
  <2>1. k \in 1..n
    BY <1>0, <1>5
  <2>2. CASE l = n + 1
    BY <1>3, <1>4, <2>1, <2>2
  <2>3. CASE l # n + 1
    <3>1. l \in 1..n
      BY <1>0, <2>3
    <3> QED
      BY <1>1, <1>4, <1>5, <2>1, <3>1
  <2> QED
    BY <2>2, <2>3
<1>6. ASSUME NEW k \in 1..(n + 1) PROVE a[bt[k]] = t[k]
  <2>1. CASE k = n + 1
    BY <1>0, <1>3, <2>1
  <2>2. CASE k # n + 1
    <3>1. k \in 1..n
      BY <1>0, <2>2
    <3> QED
      BY <1>0, <1>1, <1>4, <3>1
  <2> QED
    BY <2>1, <2>2
<1>7. Embeds(t, a, i)
  BY <1>0, <1>2, <1>5, <1>6 DEF Embeds
<1> QED
  BY <1>7 DEF t

(* The way back through the table finds a common part, as long as the table   *)
(* says.                                                                      *)
LEMMA LcsIsCommon ==
  ASSUME NEW W, NEW a \in Seq(W), NEW b \in Seq(W)
  PROVE  /\ Lcs(a, b) \in Seq(W)
         /\ Len(Lcs(a, b)) = LcsLengths(a, b)[<<Len(a), Len(b)>>]
         /\ Embeds(Lcs(a, b), a, Len(a)) /\ Embeds(Lcs(a, b), b, Len(b))
<1> DEFINE m == Len(a)
           n == Len(b)
           D == (0..m) \X (0..n)
           len == LcsLengths(a, b)
<1>1. m \in Nat /\ n \in Nat /\ (\A i \in 1..m : a[i] \in W) /\ (\A j \in 1..n : b[j] \in W)
  OBVIOUS
<1>2. len \in [D -> Nat] /\ \A i \in 0..m, j \in 0..n : len[<<i, j>>] = LcsLength(len, a, b, i, j)
  BY LengthsThere DEF Cells
<1>3. PICK back \in [D -> Seq(W)] :
        /\ \A i \in 0..m, j \in 0..n : back[<<i, j>>] = LcsBack(back, len, a, b, i, j)
        /\ Lcs(a, b) = back[<<m, n>>]
  <2>1. \E back \in [Cells(a, b) -> Seq(W)] :
          /\ \A i \in 0..Len(a), j \in 0..Len(b) : back[<<i, j>>] = LcsBack(back, LcsLengths(a, b), a, b, i, j)
          /\ Lcs(a, b) = back[<<Len(a), Len(b)>>]
    BY BackThere
  <2> QED
    BY <2>1 DEF Cells
<1> HIDE DEF len, m, n
<1> DEFINE Ok(s, i, j, k) == Len(s) = k /\ Embeds(s, a, i) /\ Embeds(s, b, j)
           P == {c \in D : Ok(back[c], c[1], c[2], len[c])}
<1> HIDE DEF Ok
<1>4. \A i \in 0..m, j \in 0..n :
        /\ <<i, j>> \in D /\ (<<i, j>> \in P <=> Ok(back[<<i, j>>], i, j, len[<<i, j>>]))
        /\ back[<<i, j>>] \in Seq(W) /\ len[<<i, j>>] \in Nat
  <2> TAKE i \in 0..m, j \in 0..n
  <2>1. <<i, j>> \in D /\ <<i, j>>[1] = i /\ <<i, j>>[2] = j
    OBVIOUS
  <2> HIDE DEF D
  <2> QED
    BY <1>2, <1>3, <2>1
<1> HIDE DEF P
<1>5. \A i \in 0..m, j \in 0..n :
        (\A x \in 0..m, y \in 0..n : x + y < i + j => <<x, y>> \in P) => <<i, j>> \in P
  <2> SUFFICES ASSUME NEW i \in 0..m, NEW j \in 0..n,
                      \A x \in 0..m, y \in 0..n : x + y < i + j => <<x, y>> \in P
               PROVE  Ok(back[<<i, j>>], i, j, len[<<i, j>>])
    BY <1>4
  <2>0. back[<<i, j>>] = LcsBack(back, len, a, b, i, j) /\ len[<<i, j>>] = LcsLength(len, a, b, i, j)
    BY <1>2, <1>3
  <2>1. CASE i = 0 \/ j = 0
    <3>1. back[<<i, j>>] = << >> /\ len[<<i, j>>] = 0
      BY <2>0, <2>1 DEF LcsBack, LcsLength
    <3>2. ASSUME NEW w, NEW k \in Nat PROVE Embeds(<< >>, w, k)
      <4> DEFINE at == [x \in 1..0 |-> 1]
      <4>1. at \in [1..Len(<< >>) -> 1..k] /\ 1..Len(<< >>) = {}
        OBVIOUS
      <4> HIDE DEF at
      <4> QED
        BY <4>1 DEF Embeds
    <3>3. Len(<< >>) = 0 /\ i \in Nat /\ j \in Nat
      OBVIOUS
    <3>4. Embeds(<< >>, a, i) /\ Embeds(<< >>, b, j)
      BY <3>2, <3>3
    <3> QED
      BY <3>1, <3>3, <3>4 DEF Ok
  <2>2. CASE ~(i = 0 \/ j = 0)
    <3> DEFINE u == <<i - 1, j - 1>>
               v == <<i - 1, j>>
               w == <<i, j - 1>>
    <3>1. i - 1 \in 0..m /\ j - 1 \in 0..n /\ (i - 1) + (j - 1) < i + j /\ (i - 1) + j < i + j /\ i + (j - 1) < i + j
          /\ i \in Nat \ {0} /\ j \in Nat \ {0} /\ i \in 1..m /\ j \in 1..n
      BY <1>1, <2>2
    <3>2. u \in P /\ v \in P /\ w \in P
      BY <3>1
    <3>3. Ok(back[u], i - 1, j - 1, len[u]) /\ Ok(back[v], i - 1, j, len[v]) /\ Ok(back[w], i, j - 1, len[w])
      BY <1>4, <3>1, <3>2
    <3>4. back[u] \in Seq(W) /\ len[u] \in Nat /\ len[v] \in Nat /\ len[w] \in Nat
      BY <1>4, <3>1
    <3>5. /\ back[<<i, j>>] = IF a[i] = b[j] THEN Append(back[u], a[i]) ELSE IF len[v] >= len[w] THEN back[v] ELSE back[w]
          /\ len[<<i, j>>] = IF a[i] = b[j] THEN len[u] + 1 ELSE IF len[w] <= len[v] THEN len[v] ELSE len[w]
      BY <2>0, <2>2 DEF LcsBack, LcsLength
    <3> HIDE DEF u, v, w
    <3>6. CASE a[i] = b[j]
      <4>1. a[i] \in W /\ b[j] \in W
        BY <1>1, <3>1
      <4>2. Len(Append(back[u], a[i])) = len[u] + 1
        BY <3>3, <3>4, <4>1 DEF Ok
      <4>3. Embeds(back[u], a, i - 1) /\ Embeds(back[u], b, j - 1)
        BY <3>3 DEF Ok
      <4>4. Embeds(Append(back[u], a[i]), a, i)
        BY <3>1, <3>4, <4>1, <4>3, EmbedsMore
      <4>5. Embeds(Append(back[u], b[j]), b, j)
        BY <3>1, <3>4, <4>1, <4>3, EmbedsMore
      <4> QED
        BY <3>5, <3>6, <4>2, <4>4, <4>5 DEF Ok
    <3>7. CASE a[i] # b[j]
      <4>1. Ok(back[v], i, j, len[v])
        <5>1. Embeds(back[v], a, i)
          BY <3>1, <3>3, EmbedsWider DEF Ok
        <5> QED
          BY <3>3, <5>1 DEF Ok
      <4>2. Ok(back[w], i, j, len[w])
        <5>1. Embeds(back[w], b, j)
          BY <3>1, <3>3, EmbedsWider DEF Ok
        <5> QED
          BY <3>3, <5>1 DEF Ok
      <4>3. len[v] >= len[w] <=> len[w] <= len[v]
        BY <3>4
      <4> QED
        BY <3>5, <3>7, <4>1, <4>2, <4>3
    <3> QED
      BY <3>6, <3>7
  <2> QED
    BY <2>1, <2>2
<1>6. <<m, n>> \in P
  <2>1. \A i \in 0..m, j \in 0..n : <<i, j>> \in P
    BY <1>1, <1>5, CellInduction
  <2>2. m \in 0..m /\ n \in 0..n
    BY <1>1
  <2> QED
    BY <2>1, <2>2
<1>7. Ok(back[<<m, n>>], m, n, len[<<m, n>>]) /\ back[<<m, n>>] \in Seq(W)
  <2>1. m \in 0..m /\ n \in 0..n
    BY <1>1
  <2> QED
    BY <1>4, <1>6, <2>1
<1> QED
  BY <1>3, <1>7 DEF Ok, m, n, len

(* No common part of the words of two lines, taken in their order, is longer  *)
(* than the one the viewer's table of lengths and the way back through it     *)
(* find (compute_lcs), whatever the lines.                                    *)
THEOREM LcsIsLongest ==
  ASSUME NEW W, NEW a \in Seq(W), NEW b \in Seq(W),
         NEW P \in SUBSET (1..Len(a)), NEW Q \in SUBSET (1..Len(b)), NEW at, Along(at, P, Q),
         \A p \in P : a[p] = b[at[p]]
  PROVE  Cardinality(P) <= Len(Lcs(a, b))
<1> DEFINE m == Len(a)
           n == Len(b)
           D == (0..m) \X (0..n)
           len == LcsLengths(a, b)
<1>1. m \in Nat /\ n \in Nat
  OBVIOUS
<1>2. len \in [D -> Nat] /\ \A i \in 0..m, j \in 0..n : len[<<i, j>>] = LcsLength(len, a, b, i, j)
  <2>1. /\ LcsLengths(a, b) \in [Cells(a, b) -> Nat]
        /\ \A i \in 0..Len(a), j \in 0..Len(b) :
             LcsLengths(a, b)[<<i, j>>] = LcsLength(LcsLengths(a, b), a, b, i, j)
    BY LengthsThere
  <2> QED
    BY <2>1 DEF Cells
<1> DEFINE Same(f, X) == \A x \in X : a[x] = b[f[x]]
           Bound(i, j, k) == \A X \in SUBSET (1..i), Y \in SUBSET (1..j) : \A f \in [X -> Y] :
                               Along(f, X, Y) /\ Same(f, X) => Cardinality(X) <= k
           T == {c \in D : Bound(c[1], c[2], len[c])}
<1> HIDE DEF Bound, len, m, n
<1>3. \A i \in 0..m, j \in 0..n :
        <<i, j>> \in D /\ (<<i, j>> \in T <=> Bound(i, j, len[<<i, j>>])) /\ len[<<i, j>>] \in Nat
  <2> TAKE i \in 0..m, j \in 0..n
  <2>1. <<i, j>> \in D /\ <<i, j>>[1] = i /\ <<i, j>>[2] = j
    OBVIOUS
  <2> HIDE DEF D
  <2> QED
    BY <1>2, <2>1
<1> HIDE DEF T, D
<1>4. \A i \in 0..m, j \in 0..n :
        (\A x \in 0..m, y \in 0..n : x + y < i + j => <<x, y>> \in T) => <<i, j>> \in T
  <2> SUFFICES ASSUME NEW i \in 0..m, NEW j \in 0..n,
                      \A x \in 0..m, y \in 0..n : x + y < i + j => <<x, y>> \in T,
                      NEW X \in SUBSET (1..i), NEW Y \in SUBSET (1..j), NEW f \in [X -> Y], Along(f, X, Y), Same(f, X)
               PROVE  Cardinality(X) <= len[<<i, j>>]
    BY <1>3 DEF Bound
  <2>0. len[<<i, j>>] = LcsLength(len, a, b, i, j) /\ len[<<i, j>>] \in Nat
    BY <1>2, <1>3
  <2>00. i \in Nat /\ j \in Nat /\ X \in SUBSET Nat /\ Y \in SUBSET Nat /\ X \in SUBSET (0..i)
    OBVIOUS
  <2>1. CASE X = {}
    <3>1. Cardinality(X) = 0
      BY <2>1, FS_EmptySet
    <3> QED
      BY <2>0, <3>1
  <2>2. CASE X # {}
    <3> DEFINE x == Max(X)
               y == f[x]
               X1 == X \ {x}
               Y1 == Y \ {y}
               g == [p \in X1 |-> f[p]]
    <3>1. x \in X /\ \A p \in X : p <= x
      BY <2>00, <2>2, Largest
    <3> HIDE DEF x
    <3>2. /\ Along(g, X1, Y1) /\ y \in Y /\ \A q \in Y : q <= y
      BY <2>00, <3>1, AlongLess
    <3>3. \A p \in X1 : p < x
      BY <2>00, <3>1, AlongLess
    <3>4. \A q \in Y1 : q < y
      BY <2>00, <3>1, AlongLess
    <3>5. Same(g, X1)
      OBVIOUS
    <3>6. x \in 1..i /\ y \in 1..j /\ a[x] = b[y]
      BY <3>1, <3>2
    <3>7. IsFiniteSet(X1) /\ Cardinality(X1) \in Nat /\ Cardinality(X) = Cardinality(X1) + 1
      <4>1. IsFiniteSet(X)
        <5>1. IsFiniteSet(1..i) /\ X \subseteq 1..i
          BY <2>00, FS_Interval
        <5> QED
          BY <5>1, FS_Subset
      <4>2. IsFiniteSet(X1) /\ Cardinality(X1) = Cardinality(X) - 1 /\ Cardinality(X) \in Nat
        BY <3>1, <4>1, FS_RemoveElement, FS_CardinalityType
      <4>3. Cardinality(X1) \in Nat
        BY <4>2, FS_CardinalityType
      <4> QED
        BY <4>2, <4>3
    <3>8. i # 0 /\ j # 0 /\ i - 1 \in 0..m /\ j - 1 \in 0..n /\ (i - 1) + (j - 1) < i + j /\ (i - 1) + j < i + j /\ i + (j - 1) < i + j
      BY <1>1, <3>6
    <3>9. CASE a[i] = b[j]
      <4>1. len[<<i, j>>] = len[<<i - 1, j - 1>>] + 1
        BY <2>0, <3>8, <3>9 DEF LcsLength
      <4>2. Bound(i - 1, j - 1, len[<<i - 1, j - 1>>]) /\ len[<<i - 1, j - 1>>] \in Nat
        BY <1>3, <3>8
      <4>3. X1 \in SUBSET (1..(i - 1)) /\ Y1 \in SUBSET (1..(j - 1))
        <5>1. \A p \in X1 : p \in 1..(i - 1)
          BY <3>3, <3>6
        <5>2. \A q \in Y1 : q \in 1..(j - 1)
          BY <3>4, <3>6
        <5> QED
          BY <5>1, <5>2
      <4>4. g \in [X1 -> Y1]
        BY <3>2 DEF Along
      <4>5. Cardinality(X1) <= len[<<i - 1, j - 1>>]
        <5> HIDE DEF X1, Y1, g, Same
        <5> QED
          BY <3>2, <3>5, <4>2, <4>3, <4>4 DEF Bound
      <4> HIDE DEF X1
      <4> QED
        BY <3>7, <4>1, <4>2, <4>5
    <3>10. CASE a[i] # b[j]
      <4> DEFINE v == len[<<i - 1, j>>]
                 w == len[<<i, j - 1>>]
      <4>1. len[<<i, j>>] = IF w <= v THEN v ELSE w
        BY <2>0, <3>8, <3>10 DEF LcsLength
      <4>2. Bound(i - 1, j, v) /\ Bound(i, j - 1, w) /\ v \in Nat /\ w \in Nat
        BY <1>3, <3>8
      <4>3. CASE x # i
        <5>1. X \in SUBSET (1..(i - 1))
          <6>1. \A p \in X : p \in 1..(i - 1)
            BY <3>1, <3>6, <4>3
          <6> QED
            BY <6>1
        <5>2. Cardinality(X) <= v
          <6> HIDE DEF Same
          <6> QED
            BY <4>2, <5>1 DEF Bound
        <5> HIDE DEF v, w
        <5>3. Cardinality(X) \in Nat
          <6> HIDE DEF X1
          <6> QED
            BY <3>7
        <5> QED
          BY <4>1, <4>2, <5>2, <5>3
      <4>4. CASE x = i
        <5>1. Y \in SUBSET (1..(j - 1))
          <6>0. y # j
            BY <3>6, <3>10, <4>4
          <6>1. \A p \in Y : p \in 1..(j - 1)
            BY <3>2, <3>6, <6>0
          <6> QED
            BY <6>1
        <5>2. Cardinality(X) <= w
          <6> HIDE DEF Same
          <6> QED
            BY <4>2, <5>1 DEF Bound
        <5> HIDE DEF v, w
        <5>3. Cardinality(X) \in Nat
          <6> HIDE DEF X1
          <6> QED
            BY <3>7
        <5> QED
          BY <4>1, <4>2, <5>2, <5>3
      <4> QED
        BY <4>3, <4>4
    <3> QED
      BY <3>9, <3>10
  <2> QED
    BY <2>1, <2>2
<1>5. Bound(m, n, len[<<m, n>>])
  <2>1. \A i \in 0..m, j \in 0..n : <<i, j>> \in T
    BY <1>1, <1>4, CellInduction
  <2>2. m \in 0..m /\ n \in 0..n
    BY <1>1
  <2> QED
    BY <1>3, <2>1, <2>2
<1>6. Cardinality(P) <= len[<<m, n>>]
  <2>1. P \in SUBSET (1..m) /\ Q \in SUBSET (1..n) /\ at \in [P -> Q] /\ Same(at, P)
    BY DEF Along, m, n
  <2> HIDE DEF Same
  <2> QED
    BY <1>5, <2>1 DEF Bound
<1>7. Len(Lcs(a, b)) = len[<<m, n>>]
  BY LcsIsCommon DEF len, m, n
<1> QED
  BY <1>6, <1>7

(* How many of the common words are met after one word more.                *)
MetNext(words, common, i, k) == IF k < Len(common) /\ words[i] = common[k + 1] THEN k + 1 ELSE k

(* MetIn counts them.                                                       *)
LEMMA MetThere ==
  ASSUME NEW W, NEW words \in Seq(W), NEW common \in Seq(W)
  PROVE  /\ MetIn(words, common) \in [0..Len(words) -> 0..Len(common)]
         /\ MetIn(words, common)[0] = 0
         /\ \A i \in 1..Len(words) :
              MetIn(words, common)[i] = MetNext(words, common, i, MetIn(words, common)[i - 1])
<1> DEFINE n == Len(words)
           c == Len(common)
           S == 0..c
           step == [x \in (1..n) \X S |-> MetNext(words, common, x[1], x[2])]
           Rhs(f, i) == IF i = 0 THEN 0
                        ELSE IF f[i - 1] < c /\ words[i] = common[f[i - 1] + 1] THEN f[i - 1] + 1
                        ELSE f[i - 1]
           f0 == CHOOSE f : f = [i \in 0..n |-> Rhs(f, i)]
<1>1. n \in Nat /\ c \in Nat /\ 0 \in S
  OBVIOUS
<1>2. \A i \in 1..n, k \in S : MetNext(words, common, i, k) \in S
  BY <1>1 DEF MetNext
<1>3. step \in [(1..n) \X S -> S]
  BY <1>2
<1> HIDE DEF c
<1>4. PICK f \in [0..n -> S] : Steps(f, n, 0, step)
  <2> HIDE DEF n, S, step
  <2> QED
    BY <1>1, <1>3, Recursion
<1>5. ASSUME NEW i \in 0..n PROVE f[i] = Rhs(f, i)
  <2>1. CASE i = 0
    BY <1>4, <2>1 DEF Steps
  <2>2. CASE i # 0
    <3>1. i \in 1..n /\ i - 1 \in 0..n
      BY <1>1, <2>2
    <3>2. f[i - 1] \in S
      BY <3>1
    <3>3. f[i] = step[<<i, f[i - 1]>>]
      BY <1>4, <2>2 DEF Steps
    <3>4. step[<<i, f[i - 1]>>] = MetNext(words, common, i, f[i - 1])
      BY <3>1, <3>2
    <3> QED
      BY <2>2, <3>3, <3>4 DEF MetNext, c
  <2> QED
    BY <2>1, <2>2
<1>6. f = [i \in 0..n |-> Rhs(f, i)]
  <2> HIDE DEF Rhs, n
  <2> QED
    BY <1>5
<1>7. f0 = [i \in 0..n |-> Rhs(f0, i)]
  BY <1>6
<1>8. MetIn(words, common) = f0
  BY DEF MetIn, c
<1> HIDE DEF f0
<1>9. f0[0] = 0
  BY <1>1, <1>7
<1>10. ASSUME NEW i \in 1..n PROVE f0[i] = MetNext(words, common, i, f0[i - 1])
  <2>1. i \in 0..n /\ i # 0
    BY <1>1
  <2>2. f0[i] = Rhs(f0, i)
    <3> HIDE DEF Rhs, n
    <3> QED
      BY <1>7, <2>1
  <2> QED
    BY <2>1, <2>2 DEF MetNext, c
<1> DEFINE P == {i \in 0..n : f0[i] \in S}
<1>11. \A i \in 0..n : i \in P
  <2>1. 0 \in P
    BY <1>1, <1>9
  <2>2. \A i \in 0..(n - 1) : i \in P => i + 1 \in P
    <3> SUFFICES ASSUME NEW i \in 0..(n - 1), f0[i] \in S PROVE i + 1 \in 0..n /\ f0[i + 1] \in S
      OBVIOUS
    <3>1. i + 1 \in 1..n /\ (i + 1) - 1 = i /\ i + 1 \in 0..n
      BY <1>1
    <3>2. f0[i + 1] = MetNext(words, common, i + 1, f0[i])
      BY <1>10, <3>1
    <3> HIDE DEF S
    <3> QED
      BY <1>2, <3>1, <3>2
  <2> HIDE DEF P, n
  <2> QED
    BY <1>1, <2>1, <2>2, Upto
<1>12. f0 \in [0..n -> S]
  <2>1. f0 = [i \in 0..n |-> f0[i]]
    <3> HIDE DEF Rhs, n
    <3> QED
      BY <1>7
  <2>2. \A i \in 0..n : f0[i] \in S
    BY <1>11
  <2> HIDE DEF n, S
  <2> QED
    BY <2>1, <2>2
<1> HIDE DEF n
<1>13. f0 \in [0..n -> 0..c]
  BY <1>12
<1> QED
  BY <1>8, <1>9, <1>10, <1>13 DEF n, c

(* Going through words that hold the common ones, every one of them is met.   *)
LEMMA AllAreMet ==
  ASSUME NEW W, NEW words \in Seq(W), NEW common \in Seq(W), Embeds(common, words, Len(words))
  PROVE  MetIn(words, common)[Len(words)] = Len(common)
<1> DEFINE n == Len(words)
           c == Len(common)
           met == MetIn(words, common)
<1>1. n \in Nat /\ c \in Nat
  OBVIOUS
<1>2. PICK e \in [1..c -> 1..n] :
        (\A k, l \in 1..c : k < l => e[k] < e[l]) /\ \A k \in 1..c : words[e[k]] = common[k]
  BY DEF Embeds
<1>3. /\ met \in [0..n -> 0..c] /\ met[0] = 0
      /\ \A i \in 1..n : met[i] = MetNext(words, common, i, met[i - 1])
  BY MetThere
<1> DEFINE P == {i \in 0..n : \A k \in 1..c : e[k] <= i => k <= met[i]}
<1> HIDE DEF met, n, c
<1>4. 0 \in P
  <2>1. \A k \in 1..c : ~(e[k] <= 0)
    <3> TAKE k \in 1..c
    <3>1. e[k] \in 1..n
      BY <1>2
    <3> QED
      BY <1>1, <3>1
  <2> QED
    BY <1>1, <2>1
<1>5. \A i \in 0..(n - 1) : i \in P => i + 1 \in P
  <2> SUFFICES ASSUME NEW i \in 0..(n - 1), \A k \in 1..c : e[k] <= i => k <= met[i], NEW k \in 1..c, e[k] <= i + 1
               PROVE  k <= met[i + 1]
    <3>1. \A i \in 0..(n - 1) : i + 1 \in 0..n
      BY <1>1
    <3> QED
      BY <3>1
  <2>1. i \in 0..n /\ i + 1 \in 0..n /\ i + 1 \in 1..n /\ (i + 1) - 1 = i /\ i \in Nat /\ k \in Nat
    BY <1>1
  <2>2. met[i] \in 0..c /\ met[i + 1] = MetNext(words, common, i + 1, met[i])
    BY <1>3, <2>1
  <2>3. met[i] \in Nat /\ met[i] <= met[i + 1] /\ met[i + 1] \in Nat
    BY <1>1, <2>2 DEF MetNext
  <2>4. e[k] \in 1..n
    BY <1>2
  <2>5. CASE e[k] <= i
    BY <2>1, <2>3, <2>5
  <2>6. CASE ~(e[k] <= i)
    <3>1. e[k] = i + 1
      BY <2>1, <2>4, <2>6
    <3>2. k - 1 <= met[i]
      <4>1. CASE k = 1
        BY <2>3, <4>1
      <4>2. CASE k # 1
        <5>1. k - 1 \in 1..c /\ k - 1 < k
          BY <1>1, <4>2
        <5>2. e[k - 1] < e[k] /\ e[k - 1] \in 1..n
          BY <1>2, <5>1
        <5>3. e[k - 1] <= i
          BY <2>1, <3>1, <5>2
        <5> QED
          BY <5>1, <5>3
      <4> QED
        BY <4>1, <4>2
    <3>3. CASE k <= met[i]
      BY <2>1, <2>3, <3>3
    <3>4. CASE ~(k <= met[i])
      <4>1. met[i] = k - 1
        BY <2>1, <2>3, <3>2, <3>4
      <4>2. met[i] < c /\ met[i] + 1 = k
        BY <1>1, <4>1
      <4>3. words[i + 1] = common[met[i] + 1]
        BY <1>2, <3>1, <4>2
      <4>4. met[i + 1] = met[i] + 1
        BY <2>2, <4>2, <4>3 DEF MetNext, c
      <4> QED
        BY <2>1, <4>2, <4>4
    <3> QED
      BY <3>3, <3>4
  <2> QED
    BY <2>1, <2>5, <2>6
<1>6. n \in P
  <2>1. \A i \in 0..n : i \in P
    <3> HIDE DEF P
    <3> QED
      BY <1>1, <1>4, <1>5, Upto
  <2> QED
    BY <1>1, <2>1
<1>7. met[n] \in 0..c
  BY <1>1, <1>3
<1>8. c <= met[n]
  <2>1. CASE c = 0
    BY <1>1, <1>7, <2>1
  <2>2. CASE c # 0
    <3>1. c \in 1..c
      BY <1>1, <2>2
    <3>2. e[c] <= n
      BY <1>1, <1>2, <3>1
    <3> QED
      BY <1>6, <3>1, <3>2
  <2> QED
    BY <2>1, <2>2
<1>9. met[n] = c
  BY <1>1, <1>7, <1>8
<1> QED
  BY <1>9 DEF met, n, c

(* The words that are not blank, and those of them that are left unmarked.  *)
NotBlank(words) == {i \in 1..Len(words) : words[i] # Blank}
LeftPlain(words, marks) == {i \in DOMAIN words : i \notin marks /\ words[i] # Blank}

(* What is left unmarked, but for blanks, are the common words.               *)
LEMMA UnmarkedAreCommon ==
  ASSUME NEW W, NEW words \in Seq(W), NEW common \in Seq(W), Embeds(common, words, Len(words))
  PROVE  \E at : /\ Along(at, LeftPlain(words, Unmatched(words, common)), NotBlank(common))
                 /\ \A p \in LeftPlain(words, Unmatched(words, common)) : words[p] = common[at[p]]
<1> DEFINE n == Len(words)
           c == Len(common)
           met == MetIn(words, common)
           U(i) == {p \in 1..i : met[p] # met[p - 1] /\ words[p] # Blank}
           C(k) == {q \in 1..k : common[q] # Blank}
           Ok(i) == \E at : Along(at, U(i), C(met[i])) /\ \A p \in U(i) : words[p] = common[at[p]]
           P == {i \in 0..n : Ok(i)}
<1>1. n \in Nat /\ c \in Nat /\ DOMAIN words = 1..n
  OBVIOUS
<1>2. /\ met \in [0..n -> 0..c] /\ met[0] = 0
      /\ \A i \in 1..n : met[i] = MetNext(words, common, i, met[i - 1])
  BY MetThere
<1> HIDE DEF met, n, c
<1>3. \A i \in 0..n : i \in Nat /\ met[i] \in Nat /\ U(i) \in SUBSET Nat /\ C(met[i]) \in SUBSET Nat
  <2> TAKE i \in 0..n
  <2>1. i \in Nat /\ met[i] \in 0..c
    BY <1>1, <1>2
  <2>2. met[i] \in Nat
    BY <1>1, <2>1
  <2> QED
    BY <2>1, <2>2
<1>4. 0 \in P
  <2>1. U(0) = {} /\ C(met[0]) = {}
    BY <1>2
  <2>2. \E at : Along(at, {}, {})
    <3> DEFINE at == [x \in {} |-> 0]
    <3>1. Along(at, {}, {})
      BY DEF Along
    <3> QED
      BY <3>1
  <2>3. Ok(0)
    <3> HIDE DEF U, C
    <3> QED
      BY <2>1, <2>2
  <2> HIDE DEF Ok
  <2> QED
    BY <1>1, <2>3
<1>5. ASSUME NEW i \in 0..(n - 1), Ok(i) PROVE Ok(i + 1)
  <2>1. i \in 0..n /\ i + 1 \in 0..n /\ i + 1 \in 1..n /\ (i + 1) - 1 = i /\ i \in Nat
    BY <1>1
  <2>2. met[i] \in 0..c /\ met[i + 1] = MetNext(words, common, i + 1, met[i])
    BY <1>2, <2>1
  <2>3. PICK at : Along(at, U(i), C(met[i])) /\ \A p \in U(i) : words[p] = common[at[p]]
    BY <1>5
  <2>4. U(i + 1) = IF met[i + 1] # met[i] /\ words[i + 1] # Blank THEN U(i) \cup {i + 1} ELSE U(i)
    <3>1. 1..(i + 1) = (1..i) \cup {i + 1} /\ i + 1 \notin 1..i
      BY <2>1
    <3> QED
      BY <2>1, <3>1
  <2>5. CASE met[i + 1] = met[i]
    <3>1. U(i + 1) = U(i)
      BY <2>4, <2>5
    <3> HIDE DEF U, C
    <3> QED
      BY <2>3, <2>5, <3>1
  <2>6. CASE met[i + 1] # met[i]
    <3> DEFINE k == met[i]
    <3>1. met[i + 1] = k + 1 /\ words[i + 1] = common[k + 1] /\ k \in Nat
      BY <1>1, <2>2, <2>6 DEF MetNext
    <3>2. C(k + 1) = IF common[k + 1] # Blank THEN C(k) \cup {k + 1} ELSE C(k)
      <4>1. 1..(k + 1) = (1..k) \cup {k + 1} /\ k + 1 \notin 1..k
        BY <3>1, SMTT(30)
      <4> QED
        BY <4>1
    <3>3. CASE words[i + 1] = Blank
      <4>1. U(i + 1) = U(i) /\ C(met[i + 1]) = C(met[i])
        BY <2>4, <3>1, <3>2, <3>3
      <4> HIDE DEF U, C
      <4> QED
        BY <2>3, <4>1
    <3>4. CASE words[i + 1] # Blank
      <4> DEFINE x == i + 1
                 y == k + 1
                 bt == [p \in U(i) \cup {x} |-> IF p = x THEN y ELSE at[p]]
      <4>1. U(x) = U(i) \cup {x} /\ C(met[x]) = C(k) \cup {y}
        BY <2>4, <2>6, <3>1, <3>2, <3>4
      <4>2. U(i) \in SUBSET Nat /\ C(k) \in SUBSET Nat /\ x \in Nat /\ y \in Nat
        BY <1>3, <2>1, <3>1
      <4>3. (\A p \in U(i) : p < x /\ p # x) /\ \A q \in C(k) : q < y
        BY <2>1, <3>1
      <4> HIDE DEF U, C, k, x, y
      <4>4. Along(bt, U(i) \cup {x}, C(k) \cup {y})
        BY <2>3, <4>2, <4>3, AlongMore DEF k
      <4>5. \A p \in U(i) \cup {x} : words[p] = common[bt[p]]
        <5> TAKE p \in U(i) \cup {x}
        <5>1. CASE p = x
          BY <3>1, <5>1 DEF x, y
        <5>2. CASE p # x
          BY <2>3, <5>2
        <5> QED
          BY <5>1, <5>2
      <4> HIDE DEF bt
      <4>6. Along(bt, U(x), C(met[x])) /\ \A p \in U(x) : words[p] = common[bt[p]]
        BY <4>1, <4>4, <4>5
      <4>7. Ok(x)
        BY <4>6
      <4> QED
        BY <4>7 DEF x
    <3> QED
      BY <3>3, <3>4
  <2> QED
    BY <2>5, <2>6
<1>6. Ok(n)
  <2>1. \A i \in 0..(n - 1) : i \in P => i + 1 \in P
    <3> HIDE DEF Ok
    <3>1. \A i \in 0..(n - 1) : i + 1 \in 0..n
      BY <1>1
    <3> QED
      BY <1>5, <3>1
  <2> HIDE DEF P
  <2>2. \A i \in 0..n : i \in P
    BY <1>1, <1>4, <2>1, Upto
  <2>3. n \in P
    BY <1>1, <2>2
  <2> HIDE DEF Ok
  <2> QED
    BY <2>3 DEF P
<1>7. met[n] = c
  BY AllAreMet DEF met, n, c
<1>8. U(n) = LeftPlain(words, Unmatched(words, common))
  BY <1>1 DEF LeftPlain, Unmatched, met, n
<1>9. C(met[n]) = NotBlank(common)
  BY <1>7 DEF NotBlank, c
<1> HIDE DEF U, C
<1> QED
  BY <1>6, <1>8, <1>9

(* The words diff_words_with_emphasis leaves unmarked in a removed line and   *)
(* in the added line set against it are the same words in the same order,     *)
(* blanks left aside, although each line is gone through for itself.          *)
THEOREM PlainWordsAgree ==
  ASSUME NEW W, NEW u \in Seq(W), NEW v \in Seq(W)
  PROVE  SameWords(u, LeftPlain(u, MarkedWords(u, v, FALSE)), v, LeftPlain(v, MarkedWords(v, u, TRUE)))
<1> DEFINE c == Lcs(u, v)
           A == LeftPlain(u, Unmatched(u, c))
           B == LeftPlain(v, Unmatched(v, c))
           C == NotBlank(c)
<1>1. c \in Seq(W) /\ Embeds(c, u, Len(u)) /\ Embeds(c, v, Len(v))
  BY LcsIsCommon
<1>2. MarkedWords(u, v, FALSE) = Unmatched(u, c) /\ MarkedWords(v, u, TRUE) = Unmatched(v, c)
  BY DEF MarkedWords
<1> HIDE DEF c
<1>3. PICK f : Along(f, A, C) /\ \A p \in A : u[p] = c[f[p]]
  BY <1>1, UnmarkedAreCommon
<1>4. PICK g : Along(g, B, C) /\ \A p \in B : v[p] = c[g[p]]
  BY <1>1, UnmarkedAreCommon
<1>5. A \in SUBSET Nat /\ B \in SUBSET Nat /\ C \in SUBSET Nat
  BY DEF LeftPlain, NotBlank
<1> HIDE DEF A, B, C
<1>6. PICK h : Along(h, C, B) /\ \A q \in C : g[h[q]] = q
  BY <1>4, <1>5, AlongBack
<1> DEFINE at == [p \in A |-> h[f[p]]]
<1>7. Along(at, A, B)
  BY <1>3, <1>6, AlongBoth
<1>8. \A p \in A : u[p] = v[at[p]]
  <2> TAKE p \in A
  <2>1. f[p] \in C /\ h[f[p]] \in B
    BY <1>3, <1>6 DEF Along
  <2>2. g[h[f[p]]] = f[p] /\ at[p] = h[f[p]]
    BY <1>6, <2>1
  <2> QED
    BY <1>3, <1>4, <2>1, <2>2
<1> HIDE DEF at
<1>9. SameWords(u, A, v, B)
  BY <1>7, <1>8 DEF SameWords, InOrder, Along
<1> QED
  BY <1>2, <1>9 DEF A, B

-----------------------------------------------------------------------------
(* The split drawing.                                                       *)

(* What holds of the last number and of one below whenever it holds of all  *)
(* above holds of all.                                                      *)
LEMMA Downward ==
  ASSUME NEW n \in Nat, NEW P, \A i \in 1..(n + 1) : (\A j \in (i + 1)..(n + 1) : j \in P) => i \in P
  PROVE  \A i \in 1..(n + 1) : i \in P
<1> DEFINE M == {k \in Nat : (n + 1) - k \in 1..(n + 1) /\ (n + 1) - k \notin P}
<1>1. ASSUME NEW i \in 1..(n + 1), i \notin P PROVE (n + 1) - i \in M
  <2>1. (n + 1) - i \in Nat /\ (n + 1) - ((n + 1) - i) = i
    OBVIOUS
  <2> QED
    BY <1>1, <2>1
<1>2. ASSUME M # {} PROVE FALSE
  <2>1. PICK k \in M : \A l \in M : k <= l
    <3>1. M \in SUBSET Nat
      OBVIOUS
    <3> HIDE DEF M
    <3> QED
      BY <1>2, <3>1, Smallest
  <2> DEFINE i == (n + 1) - k
  <2>2. k \in Nat /\ i \in 1..(n + 1) /\ i \notin P
    BY <2>1
  <2>3. ASSUME NEW j \in (i + 1)..(n + 1) PROVE j \in P
    <3>1. ASSUME j \notin P PROVE FALSE
      <4>0. j \in 1..(n + 1)
        BY <2>2
      <4>1. (n + 1) - j \in M
        BY <1>1, <3>1, <4>0
      <4>2. k <= (n + 1) - j
        BY <2>1, <4>1
      <4> QED
        BY <2>2, <4>2
    <3> QED
      BY <3>1
  <2> QED
    BY <2>2, <2>3
<1> HIDE DEF M
<1> QED
  BY <1>1, <1>2

(* A run of lines of one kind, up to line e.                                *)
IsRun(run, T, L, from, kind, e) ==
  /\ run \in Seq(T) /\ Len(run) = (e + 1) - from
  /\ \A k \in 1..((e + 1) - from) : run[k] = L[(from + k) - 1]
  /\ \A k \in from..e : L[k].kind = kind
  /\ e < Len(L) => L[e + 1].kind # kind

(* RunOf finds the run.                                                     *)
LEMMA RunIs ==
  ASSUME NEW T, NEW L \in Seq(T), NEW from \in 1..(Len(L) + 1), NEW kind
  PROVE  \E e \in (from - 1)..Len(L) : IsRun(RunOf(L, from, kind), T, L, from, kind, e)
<1> DEFINE n == Len(L)
           E == {i \in (from - 1)..n : \A k \in from..i : L[k].kind = kind}
           e == Max(E)
           run == SubSeq(L, from, e)
<1>1. n \in Nat /\ from \in Nat /\ from >= 1 /\ from - 1 \in Nat /\ from - 1 \in (from - 1)..n
  OBVIOUS
<1>2. from - 1 \in E
  <2>1. from..(from - 1) = {}
    BY <1>1
  <2> QED
    BY <1>1, <2>1
<1>3. E \in SUBSET (0..n) /\ E # {}
  <2>1. (from - 1)..n \subseteq 0..n
    BY <1>1
  <2> QED
    BY <1>2, <2>1
<1>4. e \in E /\ \A k \in E : k <= e
  <2> HIDE DEF E, n
  <2> QED
    BY <1>1, <1>3, Largest
<1> HIDE DEF e
<1>5. e \in (from - 1)..n /\ \A k \in from..e : L[k].kind = kind
  BY <1>4
<1>6. ASSUME e < n PROVE L[e + 1].kind # kind
  <2>1. e + 1 \notin E
    <3>1. ~(e + 1 <= e)
      BY <1>1, <1>5
    <3> QED
      BY <1>4, <3>1
  <2>2. e + 1 \in (from - 1)..n
    BY <1>1, <1>5, <1>6
  <2>3. \A k \in from..(e + 1) : k \in from..e \/ k = e + 1
    BY <1>1, <1>5
  <2> QED
    BY <1>5, <2>1, <2>2, <2>3
<1>7. run = [k \in 1..((e + 1) - from) |-> L[(from + k) - 1]]
  <2>1. \A k \in 1..((e + 1) - from) : (k + from) - 1 = (from + k) - 1
    BY <1>1, <1>5
  <2>2. run = [k \in 1..((e - from) + 1) |-> L[(k + from) - 1]]
    BY <1>1, <1>5
  <2>3. (e - from) + 1 = (e + 1) - from
    BY <1>1, <1>5
  <2> QED
    BY <2>1, <2>2, <2>3
<1>8. run \in Seq(T) /\ Len(run) = (e + 1) - from
  <2>1. \A k \in 1..((e + 1) - from) : (from + k) - 1 \in 1..n
    BY <1>1, <1>5
  <2>2. \A k \in 1..((e + 1) - from) : L[(from + k) - 1] \in T
    BY <2>1
  <2>3. run \in [1..((e + 1) - from) -> T] /\ (e + 1) - from \in Nat
    BY <1>1, <1>5, <1>7, <2>2
  <2> HIDE DEF run
  <2> QED
    BY <2>3, FunctionIsSeq
<1>9. \A k \in 1..((e + 1) - from) : run[k] = L[(from + k) - 1]
  BY <1>7
<1>10. RunOf(L, from, kind) = run
  BY DEF RunOf, e
<1> HIDE DEF run
<1>11. IsRun(run, T, L, from, kind, e)
  BY <1>5, <1>6, <1>8, <1>9 DEF IsRun
<1> QED
  BY <1>5, <1>10, <1>11

-----------------------------------------------------------------------------
(* The rows of the split drawing, from line i on.                             *)
RowsFrom(rows, lines, i) ==
  IF i > Len(lines) THEN << >>
  ELSE CASE lines[i].kind = " " -> <<<<lines[i], lines[i]>>>> \o rows[i + 1]
         [] lines[i].kind = "+" -> <<<<NoLine, lines[i]>>>> \o rows[i + 1]
         [] lines[i].kind = "-" ->
              LET gone == RunOf(lines, i, "-")
                  come == RunOf(lines, i + Len(gone), "+")
              IN [k \in 1..Max({Len(gone), Len(come)}) |-> <<Beyond(gone, k), Beyond(come, k)>>]
                 \o rows[i + Len(gone) + Len(come)]

(* The lines of a hunk, and what may stand in a row.                        *)
Kinds == {" ", "-", "+"}
Lines(T, L) == L \in Seq(T) /\ \A i \in 1..Len(L) : L[i].kind \in Kinds
RowSet(T) == (T \cup {NoLine}) \X (T \cup {NoLine})

(* These rows come first of those from line i on, and those from line next    *)
(* on follow.                                                                 *)
Prepends(L, i, next, block) == \A rows : RowsFrom(rows, L, i) = block \o rows[next]

(* g removed lines from line i on, c added ones behind them, in one block.    *)
GoneBlock(L, i, g, c, block) ==
  /\ (i + g) + c \in (i + 1)..(Len(L) + 1)
  /\ \A k \in i..((i + g) - 1) : L[k].kind = "-"
  /\ \A k \in (i + g)..(((i + g) + c) - 1) : L[k].kind = "+"
  /\ c = 0 /\ i + g <= Len(L) => L[i + g].kind # "-"
  /\ \A r \in 1..Len(block) :
       block[r] = <<IF r <= g THEN L[(i + r) - 1] ELSE NoLine,
                    IF r <= c THEN L[((i + g) + r) - 1] ELSE NoLine>>
  /\ g <= Len(block) /\ c <= Len(block)

(* Where a removed line stands, its run and the added lines behind it make  *)
(* a block.                                                                 *)
LEMMA GoneAndCome ==
  ASSUME NEW T, NEW L, Lines(T, L), NEW i \in 1..Len(L), L[i].kind = "-"
  PROVE  \E g \in Nat \ {0}, c \in Nat, block \in Seq(RowSet(T)) :
           GoneBlock(L, i, g, c, block) /\ Prepends(L, i, (i + g) + c, block)
<1> DEFINE n == Len(L)
           gone == RunOf(L, i, "-")
           g == Len(gone)
           come == RunOf(L, i + g, "+")
           c == Len(come)
           len == Max({g, c})
           block == [k \in 1..len |-> <<Beyond(gone, k), Beyond(come, k)>>]
<1>1. n \in Nat /\ i \in Nat /\ i \in 1..(n + 1) /\ i <= n /\ L \in Seq(T) /\ \A k \in 1..n : L[k] \in T
  BY DEF Lines
<1>2. PICK e \in (i - 1)..n :
        /\ gone \in Seq(T) /\ g = (e + 1) - i
        /\ \A k \in 1..((e + 1) - i) : gone[k] = L[(i + k) - 1]
        /\ \A k \in i..e : L[k].kind = "-"
        /\ e < n => L[e + 1].kind # "-"
  <2>1. \E x \in (i - 1)..Len(L) : IsRun(RunOf(L, i, "-"), T, L, i, "-", x)
    BY <1>1, RunIs
  <2> QED
    BY <2>1 DEF IsRun
<1>3. e >= i
  BY <1>1, <1>2
<1>4. g \in Nat \ {0} /\ i + g = e + 1 /\ i + g \in 1..(n + 1)
  BY <1>1, <1>2, <1>3
<1> HIDE DEF gone, g
<1>5. PICK d \in ((i + g) - 1)..n :
        /\ come \in Seq(T) /\ c = (d + 1) - (i + g)
        /\ \A k \in 1..((d + 1) - (i + g)) : come[k] = L[((i + g) + k) - 1]
        /\ \A k \in (i + g)..d : L[k].kind = "+"
  <2>0. L \in Seq(T) /\ i + g \in 1..(Len(L) + 1)
    BY <1>1, <1>4
  <2>1. \E x \in ((i + g) - 1)..Len(L) : IsRun(RunOf(L, i + g, "+"), T, L, i + g, "+", x)
    BY <2>0, RunIs
  <2> QED
    BY <2>1 DEF IsRun
<1>6. c \in Nat /\ (i + g) + c = d + 1
  BY <1>1, <1>4, <1>5
<1> HIDE DEF come, c
<1>7. len \in Nat /\ g <= len /\ c <= len
  <2>1. len = IF g <= c THEN c ELSE g
    BY <1>4, <1>6, LargerOfTwo
  <2> HIDE DEF len
  <2> QED
    BY <1>4, <1>6, <2>1
<1> HIDE DEF len
<1>8. ASSUME NEW r \in 1..len
      PROVE  block[r] = <<IF r <= g THEN L[(i + r) - 1] ELSE NoLine,
                          IF r <= c THEN L[((i + g) + r) - 1] ELSE NoLine>>
  <2>1. DOMAIN gone = 1..g /\ DOMAIN come = 1..c
    BY <1>2, <1>5 DEF g, c
  <2>2. Beyond(gone, r) = IF r <= g THEN L[(i + r) - 1] ELSE NoLine
    <3>1. r \in DOMAIN gone <=> r <= g
      BY <1>4, <1>7, <2>1
    <3>2. r <= g => gone[r] = L[(i + r) - 1]
      BY <1>2, <1>4, <1>7
    <3> QED
      BY <3>1, <3>2 DEF Beyond
  <2>3. Beyond(come, r) = IF r <= c THEN L[((i + g) + r) - 1] ELSE NoLine
    <3>1. r \in DOMAIN come <=> r <= c
      BY <1>6, <1>7, <2>1
    <3>2. r <= c => come[r] = L[((i + g) + r) - 1]
      BY <1>5, <1>6, <1>7
    <3> QED
      BY <3>1, <3>2 DEF Beyond
  <2>4. block[r] = <<Beyond(gone, r), Beyond(come, r)>>
    OBVIOUS
  <2> QED
    BY <2>2, <2>3, <2>4
<1>9. block \in Seq(RowSet(T)) /\ Len(block) = len
  <2>1. ASSUME NEW r \in 1..len PROVE block[r] \in RowSet(T)
    <3>1. r <= g => L[(i + r) - 1] \in T
      <4>1. r <= g => (i + r) - 1 \in 1..n
        BY <1>1, <1>2, <1>4, <1>7
      <4> QED
        BY <1>1, <4>1
    <3>2. r <= c => L[((i + g) + r) - 1] \in T
      <4>1. r <= c => ((i + g) + r) - 1 \in 1..n
        BY <1>1, <1>4, <1>5, <1>6, <1>7
      <4> QED
        BY <1>1, <4>1
    <3> DEFINE x == IF r <= g THEN L[(i + r) - 1] ELSE NoLine
               y == IF r <= c THEN L[((i + g) + r) - 1] ELSE NoLine
    <3>3. x \in T \cup {NoLine} /\ y \in T \cup {NoLine}
      BY <3>1, <3>2
    <3>4. block[r] = <<x, y>>
      BY <1>8
    <3> HIDE DEF block, x, y
    <3> QED
      BY <3>3, <3>4 DEF RowSet
  <2>2. block = [r \in 1..len |-> block[r]]
    OBVIOUS
  <2> HIDE DEF block
  <2>3. block \in [1..len -> RowSet(T)]
    BY <2>1, <2>2
  <2> QED
    BY <1>7, <2>3, FunctionIsSeq
<1>10. ASSUME NEW rows PROVE RowsFrom(rows, L, i) = block \o rows[(i + g) + c]
  <2>1. ~(i > Len(L)) /\ L[i].kind # " " /\ L[i].kind # "+"
    BY <1>1
  <2> QED
    BY <2>1 DEF RowsFrom, gone, g, come, c, len
<1>11. (i + g) + c \in (i + 1)..(Len(L) + 1)
  <2>1. (i + g) + c <= n + 1
    BY <1>1, <1>4, <1>5, <1>6
  <2>2. (i + g) + c >= i + 1
    BY <1>1, <1>4, <1>6
  <2> QED
    BY <1>1, <1>4, <1>6, <2>1, <2>2
<1>12. /\ \A k \in i..((i + g) - 1) : L[k].kind = "-"
       /\ \A k \in (i + g)..(((i + g) + c) - 1) : L[k].kind = "+"
  BY <1>1, <1>2, <1>4, <1>5, <1>6
<1>13. i + g <= Len(L) => L[i + g].kind # "-"
  BY <1>1, <1>2, <1>4
<1> HIDE DEF block
<1>14. \A r \in 1..Len(block) : block[r] = <<IF r <= g THEN L[(i + r) - 1] ELSE NoLine,
                          IF r <= c THEN L[((i + g) + r) - 1] ELSE NoLine>>
  BY <1>8, <1>9
<1>15. GoneBlock(L, i, g, c, block)
  BY <1>7, <1>9, <1>11, <1>12, <1>13, <1>14 DEF GoneBlock
<1>16. Prepends(L, i, (i + g) + c, block)
  BY <1>10 DEF Prepends
<1> QED
  BY <1>4, <1>6, <1>9, <1>15, <1>16

(* The rows from line i on are some rows put before those from a later line.  *)
LEMMA RowsStep ==
  ASSUME NEW T, NEW L, Lines(T, L), NEW i \in 1..Len(L)
  PROVE  \E next \in (i + 1)..(Len(L) + 1), block \in Seq(RowSet(T)) :
           Prepends(L, i, next, block)
<1>1. Len(L) \in Nat /\ ~(i > Len(L)) /\ L[i] \in T /\ L[i].kind \in Kinds /\ i + 1 \in (i + 1)..(Len(L) + 1)
  BY DEF Lines
<1>2. CASE L[i].kind = "-"
  <2>1. PICK g \in Nat \ {0}, c \in Nat, block \in Seq(RowSet(T)) :
           GoneBlock(L, i, g, c, block) /\ Prepends(L, i, (i + g) + c, block)
    BY <1>2, GoneAndCome
  <2>2. (i + g) + c \in (i + 1)..(Len(L) + 1)
    BY <2>1 DEF GoneBlock
  <2> QED
    BY <2>1, <2>2
<1>3. CASE L[i].kind = " "
  <2> DEFINE block == <<<<L[i], L[i]>>>>
  <2>1. block \in Seq(RowSet(T))
    BY <1>1 DEF RowSet
  <2>2. Prepends(L, i, i + 1, block)
    BY <1>1, <1>3 DEF RowsFrom, Prepends
  <2> QED
    BY <1>1, <2>1, <2>2
<1>4. CASE L[i].kind = "+"
  <2> DEFINE block == <<<<NoLine, L[i]>>>>
  <2>1. block \in Seq(RowSet(T))
    BY <1>1 DEF RowSet
  <2>2. Prepends(L, i, i + 1, block)
    BY <1>1, <1>4 DEF RowsFrom, Prepends
  <2> QED
    BY <1>1, <2>1, <2>2
<1> QED
  BY <1>1, <1>2, <1>3, <1>4 DEF Kinds

(* SplitRows puts together the rows from the first line on.                 *)
LEMMA RowsThere ==
  ASSUME NEW T, NEW L, Lines(T, L)
  PROVE  \E rows \in [1..(Len(L) + 1) -> Seq(RowSet(T))] :
           /\ SplitRows(L) = rows[1]
           /\ rows[Len(L) + 1] = << >>
           /\ \A i \in 1..Len(L) : rows[i] = RowsFrom(rows, L, i)
<1> DEFINE n == Len(L)
           S == Seq(RowSet(T))
           D == 1..(n + 1)
           Right(f, i) == f[i] = RowsFrom(f, L, i)
           Made(k) == \E f \in [D -> S] : \A i \in ((n + 1) - k)..(n + 1) : Right(f, i)
           P == {k \in 0..n : Made(k)}
           f0 == CHOOSE f : f = [i \in D |-> RowsFrom(f, L, i)]
<1>0. n \in Nat
  BY DEF Lines
<1>1. Made(0)
  <2> DEFINE f == [i \in D |-> << >>]
  <2>1. f \in [D -> S]
    OBVIOUS
  <2>2. \A i \in (n + 1)..(n + 1) : Right(f, i)
    <3>1. \A i \in (n + 1)..(n + 1) : i \in D /\ i > Len(L) /\ f[i] = << >>
      BY <1>0
    <3> HIDE DEF f
    <3> QED
      BY <3>1 DEF RowsFrom
  <2>3. (n + 1) - 0 = n + 1
    BY <1>0
  <2> HIDE DEF f, Right
  <2> QED
    BY <2>1, <2>2, <2>3
<1>2. ASSUME NEW k \in 0..(n - 1), Made(k) PROVE Made(k + 1)
  <2> DEFINE i == n - k
  <2>1. i \in 1..n /\ i \in D /\ (n + 1) - (k + 1) = i /\ (n + 1) - k = i + 1
    BY <1>0
  <2>2. PICK f \in [D -> S] : \A j \in (i + 1)..(n + 1) : Right(f, j)
    BY <1>2, <2>1
  <2>3. PICK next \in (i + 1)..(n + 1), block \in Seq(RowSet(T)) : Prepends(L, i, next, block)
    BY <2>1, RowsStep
  <2> DEFINE g == [j \in D |-> IF j = i THEN block \o f[next] ELSE f[j]]
  <2> HIDE DEF i
  <2>4. next \in D /\ next # i /\ f[next] \in S
    BY <1>0, <2>1, <2>3
  <2>5. g \in [D -> S]
    <3>1. block \o f[next] \in S
      BY <2>4
    <3> HIDE DEF D, S
    <3> QED
      BY <3>1
  <2>6. Right(g, i)
    <3>1. g[i] = block \o f[next] /\ g[next] = f[next]
      BY <2>1, <2>4
    <3> HIDE DEF g
    <3>2. RowsFrom(g, L, i) = block \o g[next]
      BY <2>3 DEF Prepends
    <3> QED
      BY <3>1, <3>2
  <2>7. ASSUME NEW j \in (i + 1)..(n + 1) PROVE Right(g, j)
    <3>1. j \in D /\ j # i /\ g[j] = f[j] /\ Right(f, j)
      BY <1>0, <2>1, <2>2
    <3>2. CASE j = n + 1
      <4>0. j > Len(L)
        BY <1>0, <3>2
      <4>1. RowsFrom(g, L, j) = << >> /\ RowsFrom(f, L, j) = << >>
        BY <4>0 DEF RowsFrom
      <4> QED
        BY <3>1, <4>1
    <3>3. CASE j # n + 1
      <4>1. j \in 1..n
        <5> HIDE DEF n
        <5> QED
          BY <1>0, <2>1, <3>3
      <4>2. PICK to \in (j + 1)..(n + 1), rest \in Seq(RowSet(T)) : Prepends(L, j, to, rest)
        BY <4>1, RowsStep
      <4>3. to \in D /\ to # i
        BY <1>0, <2>1, <4>1, <4>2
      <4>4. g[to] = f[to]
        BY <4>3
      <4> HIDE DEF g
      <4> QED
        BY <3>1, <4>2, <4>4 DEF Prepends
    <3> QED
      BY <3>2, <3>3
  <2> HIDE DEF g, Right
  <2>8. \A j \in i..(n + 1) : j = i \/ j \in (i + 1)..(n + 1)
    BY <1>0, <2>1
  <2>9. \A j \in i..(n + 1) : Right(g, j)
    BY <2>6, <2>7, <2>8
  <2> QED
    BY <2>1, <2>5, <2>9
<1>3. Made(n)
  <2>1. 0 \in P
    BY <1>0, <1>1
  <2>2. \A k \in 0..(n - 1) : k \in P => k + 1 \in P
    <3>1. \A k \in 0..(n - 1) : k + 1 \in 0..n
      BY <1>0
    <3> HIDE DEF Made
    <3> QED
      BY <1>2, <3>1
  <2> HIDE DEF P, n
  <2>3. \A k \in 0..n : k \in P
    BY <1>0, <2>1, <2>2, Upto
  <2>4. n \in P
    BY <1>0, <2>3
  <2> HIDE DEF Made
  <2> QED
    BY <2>4 DEF P
<1>4. PICK f \in [D -> S] : \A i \in D : Right(f, i)
  <2>1. (n + 1) - n = 1
    BY <1>0
  <2> HIDE DEF Right
  <2> QED
    BY <1>3, <2>1
<1>5. f = [i \in D |-> RowsFrom(f, L, i)]
  <2> HIDE DEF D
  <2> QED
    BY <1>4
<1>6. f0 = [i \in D |-> RowsFrom(f0, L, i)]
  BY <1>5
<1>7. SplitRows(L) = f0[1]
  BY DEF SplitRows, RowsFrom
<1> HIDE DEF f0
<1> DEFINE Q == {i \in D : f0[i] = f[i]}
<1>8. \A i \in 1..(n + 1) : (\A j \in (i + 1)..(n + 1) : j \in Q) => i \in Q
  <2> SUFFICES ASSUME NEW i \in 1..(n + 1), \A j \in (i + 1)..(n + 1) : j \in Q PROVE f0[i] = f[i]
    OBVIOUS
  <2>0. f0[i] = RowsFrom(f0, L, i) /\ f[i] = RowsFrom(f, L, i)
    <3> HIDE DEF n
    <3> QED
      BY <1>4, <1>6
  <2>1. CASE i = n + 1
    <3>1. i > Len(L)
      BY <1>0, <2>1
    <3> QED
      BY <2>0, <3>1 DEF RowsFrom
  <2>2. CASE i # n + 1
    <3>1. i \in 1..n
      BY <1>0, <2>2
    <3>2. PICK next \in (i + 1)..(n + 1), block \in Seq(RowSet(T)) : Prepends(L, i, next, block)
      BY <3>1, RowsStep
    <3>3. f0[next] = f[next]
      BY <3>2
    <3> QED
      BY <2>0, <3>2, <3>3 DEF Prepends
  <2> QED
    BY <2>1, <2>2
<1>9. \A i \in 1..(n + 1) : i \in Q
  <2> HIDE DEF Q, n
  <2> QED
    BY <1>0, <1>8, Downward
<1>10. SplitRows(L) = f[1]
  <2>1. 1 \in 1..(n + 1)
    BY <1>0
  <2> QED
    BY <1>7, <1>9, <2>1
<1>11. f[n + 1] = << >>
  <2>1. n + 1 \in D
    BY <1>0
  <2>2. n + 1 > Len(L)
    BY <1>0
  <2> HIDE DEF n
  <2> QED
    BY <1>4, <2>1, <2>2 DEF RowsFrom
<1>12. \A i \in 1..n : f[i] = RowsFrom(f, L, i)
  <2>1. \A i \in 1..n : i \in D
    BY <1>0
  <2> QED
    BY <1>4, <2>1
<1> QED
  BY <1>10, <1>11, <1>12

(* The cells of a column, and the lines of a side.                          *)
Cells1(R, k) == {r \in 1..Len(R) : R[r][k] # NoLine}
Sided(L, lo, hi, S) == {j \in lo..(hi - 1) : L[j].kind \in S}

(* Column k of the rows has the lines of a side among those from lo up to hi. *)
ColumnIs(R, k, L, lo, hi, S) ==
  \E at : Along(at, Cells1(R, k), Sided(L, lo, hi, S)) /\ \A r \in Cells1(R, k) : R[r][k] = L[at[r]]

(* No line of a hunk is the missing one.                                    *)
LEMMA LineIsThere == ASSUME NEW T, NEW L, Lines(T, L), NEW j \in 1..Len(L) PROVE L[j] # NoLine /\ L[j] \in T
<1>1. L[j] \in T /\ L[j].kind \in Kinds
  BY DEF Lines
<1>2. NoLine.kind = "none" /\ "none" \notin Kinds
  BY DEF NoLine, Kinds
<1> QED
  BY <1>1, <1>2

(* A run of lines from place s on, one in each row from the first.            *)
LEMMA ColumnOfRun ==
  ASSUME NEW T, NEW L, Lines(T, L), NEW R, Len(R) \in Nat, NEW k, NEW lo \in Nat, NEW hi \in Nat, NEW S,
         NEW n \in Nat, n <= Len(R), NEW s \in Nat \ {0}, (s + n) - 1 <= Len(L),
         \A r \in 1..Len(R) : R[r][k] = IF r <= n THEN L[(s + r) - 1] ELSE NoLine,
         Sided(L, lo, hi, S) = s..((s + n) - 1)
  PROVE  ColumnIs(R, k, L, lo, hi, S)
<1> DEFINE at == [r \in 1..n |-> (s + r) - 1]
<1>1. Cells1(R, k) = 1..n
  <2>1. ASSUME NEW r \in 1..Len(R) PROVE R[r][k] # NoLine <=> r <= n
    <3>1. CASE r <= n
      <4>1. (s + r) - 1 \in 1..Len(L)
        BY <3>1 DEF Lines
      <4>2. L[(s + r) - 1] # NoLine
        BY <4>1, LineIsThere
      <4> QED
        BY <3>1, <4>2
    <3>2. CASE ~(r <= n)
      BY <3>2
    <3> QED
      BY <3>1, <3>2
  <2>2. 1..n \subseteq 1..Len(R)
    OBVIOUS
  <2> QED
    BY <2>1, <2>2 DEF Cells1
<1>2. Along(at, 1..n, s..((s + n) - 1))
  <2>1. at \in [1..n -> s..((s + n) - 1)]
    OBVIOUS
  <2>2. \A i, j \in 1..n : i < j => at[i] < at[j]
    OBVIOUS
  <2>3. ASSUME NEW q \in s..((s + n) - 1) PROVE \E p \in 1..n : at[p] = q
    <3>1. (q + 1) - s \in 1..n /\ (s + ((q + 1) - s)) - 1 = q
      OBVIOUS
    <3> QED
      BY <3>1
  <2> QED
    BY <2>1, <2>2, <2>3 DEF Along
<1>3. \A r \in 1..n : R[r][k] = L[at[r]]
  <2>1. \A r \in 1..n : r \in 1..Len(R) /\ r <= n
    OBVIOUS
  <2> QED
    BY <2>1
<1> HIDE DEF at
<1> QED
  BY <1>1, <1>2, <1>3 DEF ColumnIs

(* Columns put one below the other.                                         *)
LEMMA ColumnThen ==
  ASSUME NEW U, NEW A \in Seq(U), NEW B \in Seq(U), NEW k, NEW L, NEW lo \in Nat, NEW mid \in Nat, NEW hi \in Nat, NEW S,
         lo <= mid, mid <= hi, ColumnIs(A, k, L, lo, mid, S), ColumnIs(B, k, L, mid, hi, S)
  PROVE  ColumnIs(A \o B, k, L, lo, hi, S)
<1> DEFINE a == Len(A)
           b == Len(B)
           R == A \o B
           PA == Cells1(A, k)
           PB == Cells1(B, k)
           PR == Cells1(R, k)
           QA == Sided(L, lo, mid, S)
           QB == Sided(L, mid, hi, S)
           QR == Sided(L, lo, hi, S)
<1>1. PICK f : Along(f, PA, QA) /\ \A r \in PA : A[r][k] = L[f[r]]
  BY DEF ColumnIs
<1>2. PICK g : Along(g, PB, QB) /\ \A r \in PB : B[r][k] = L[g[r]]
  BY DEF ColumnIs
<1>3. a \in Nat /\ b \in Nat /\ Len(R) = a + b /\ (\A r \in 1..a : R[r] = A[r])
      /\ \A r \in (a + 1)..(a + b) : R[r] = B[r - a]
  OBVIOUS
<1> HIDE DEF a, b, R
<1>4. \A r \in PR : (r <= a => r \in PA /\ R[r] = A[r]) /\ (~(r <= a) => r - a \in PB /\ R[r] = B[r - a]) /\ r \in Nat
  <2> TAKE r \in PR
  <2>1. r \in 1..(a + b) /\ R[r][k] # NoLine /\ r \in Nat
    BY <1>3 DEF Cells1
  <2>2. CASE r <= a
    <3>1. r \in 1..a
      BY <1>3, <2>1, <2>2
    <3> QED
      BY <1>3, <2>1, <2>2, <3>1 DEF Cells1, a
  <2>3. CASE ~(r <= a)
    <3>1. r \in (a + 1)..(a + b) /\ r - a \in 1..b
      BY <1>3, <2>1, <2>3
    <3> QED
      BY <1>3, <2>1, <2>3, <3>1 DEF Cells1, b
  <2> QED
    BY <2>2, <2>3
<1>5. \A r \in PA : r \in PR /\ r <= a /\ R[r] = A[r]
  <2> TAKE r \in PA
  <2>1. r \in 1..a /\ A[r][k] # NoLine
    BY DEF Cells1, a
  <2>2. r \in 1..(a + b) /\ r <= a /\ R[r] = A[r]
    BY <1>3, <2>1
  <2> QED
    BY <1>3, <2>1, <2>2 DEF Cells1
<1>6. \A r \in PB : r + a \in PR /\ ~(r + a <= a) /\ R[r + a] = B[r] /\ (r + a) - a = r
  <2> TAKE r \in PB
  <2>1. r \in 1..b /\ B[r][k] # NoLine
    BY DEF Cells1, b
  <2>2. r + a \in 1..(a + b) /\ r + a \in (a + 1)..(a + b) /\ ~(r + a <= a) /\ (r + a) - a = r
    BY <1>3, <2>1
  <2>3. R[r + a] = B[r]
    BY <1>3, <2>2
  <2> QED
    BY <1>3, <2>1, <2>2, <2>3 DEF Cells1
<1>7. /\ \A q \in QA : q \in QR /\ q < mid /\ q \in Nat
      /\ \A q \in QB : q \in QR /\ mid <= q /\ q \in Nat
      /\ \A q \in QR : q \in QA \/ q \in QB
  BY DEF Sided
<1> HIDE DEF PA, PB, PR, QA, QB, QR
<1> DEFINE at == [r \in PR |-> IF r <= a THEN f[r] ELSE g[r - a]]
<1>8. \A r \in PR : (r <= a => at[r] = f[r] /\ f[r] \in QA) /\ (~(r <= a) => at[r] = g[r - a] /\ g[r - a] \in QB)
  BY <1>1, <1>2, <1>4 DEF Along
<1>9. at \in [PR -> QR]
  <2>1. \A r \in PR : (IF r <= a THEN f[r] ELSE g[r - a]) \in QR
    BY <1>7, <1>8
  <2> QED
    BY <2>1
<1> HIDE DEF at
<1>10. ASSUME NEW i \in PR, NEW j \in PR, i < j PROVE at[i] < at[j]
  <2>1. i \in Nat /\ j \in Nat
    BY <1>4
  <2>2. CASE j <= a
    <3>1. i <= a
      BY <1>3, <1>10, <2>1, <2>2
    <3>2. i \in PA /\ j \in PA
      BY <1>4, <2>2, <3>1
    <3>3. f[i] < f[j]
      BY <1>1, <1>10, <3>2 DEF Along
    <3> QED
      BY <1>8, <2>2, <3>1, <3>3
  <2>3. CASE ~(j <= a) /\ i <= a
    <3>1. at[i] \in QA /\ at[j] \in QB
      BY <1>8, <2>3
    <3>2. at[i] \in Nat /\ at[j] \in Nat /\ at[i] < mid /\ mid <= at[j]
      BY <1>7, <3>1
    <3> QED
      BY <3>2
  <2>4. CASE ~(j <= a) /\ ~(i <= a)
    <3>1. i - a \in PB /\ j - a \in PB
      BY <1>4, <2>4
    <3>2. i - a < j - a
      BY <1>3, <1>10, <2>1
    <3>3. g[i - a] < g[j - a]
      BY <1>2, <3>1, <3>2 DEF Along
    <3> QED
      BY <1>8, <2>4, <3>3
  <2> QED
    BY <2>2, <2>3, <2>4
<1>11. ASSUME NEW q \in QR PROVE \E p \in PR : at[p] = q
  <2>1. CASE q \in QA
    <3>1. PICK p \in PA : f[p] = q
      BY <1>1, <2>1 DEF Along
    <3> QED
      BY <1>5, <1>8, <3>1
  <2>2. CASE q \in QB
    <3>1. PICK p \in PB : g[p] = q
      BY <1>2, <2>2 DEF Along
    <3>2. p + a \in PR /\ ~(p + a <= a) /\ (p + a) - a = p
      BY <1>6, <3>1
    <3>3. at[p + a] = g[(p + a) - a]
      BY <1>8, <3>2
    <3> QED
      BY <3>1, <3>2, <3>3
  <2> QED
    BY <1>7, <2>1, <2>2
<1>12. ASSUME NEW r \in PR PROVE R[r][k] = L[at[r]]
  <2>1. CASE r <= a
    BY <1>1, <1>4, <1>8, <2>1
  <2>2. CASE ~(r <= a)
    BY <1>2, <1>4, <1>8, <2>2
  <2> QED
    BY <2>1, <2>2
<1>13. Along(at, PR, QR)
  BY <1>9, <1>10, <1>11 DEF Along
<1>14. ColumnIs(R, k, L, lo, hi, S)
  BY <1>12, <1>13 DEF ColumnIs, PR, QR
<1> QED
  BY <1>14 DEF R

(* The lines of the two files.                                              *)
OldKinds == {" ", "-"}
NewKinds == {" ", "+"}

(* Place p begins a run of changed lines.                                     *)
Starts(L, p) == p = 1 \/ L[p - 1].kind = " "

(* The m lines from p on are removed, those behind them up to b are added,    *)
(* and a and b are as far from the beginnings of these two runs.              *)
OppositeIn(L, a, b, p, m) ==
  /\ Starts(L, p) /\ p <= a /\ a < p + m /\ b = a + m
  /\ \A j \in p..((p + m) - 1) : L[j].kind = "-"
  /\ \A j \in (p + m)..b : L[j].kind = "+"
(* Such a, b are opposite each other; the rows only pair such lines.        *)
Opposite(L, a, b) == \E p, m \in 1..Len(L) : OppositeIn(L, a, b, p, m)

PairsIn(R, L) ==
  \A r \in 1..Len(R) : R[r][1].kind = "-" /\ R[r][2].kind = "+" =>
    \E a, b \in 1..Len(L) : Opposite(L, a, b) /\ R[r][1] = L[a] /\ R[r][2] = L[b]

(* Git removes before it adds.                                              *)
NoTurn(L) == \A i \in 1..(Len(L) - 1) : ~(L[i].kind = "+" /\ L[i + 1].kind = "-")

(* A block begins where a run of changed lines begins.                      *)
Reached(L, i) == i <= Len(L) /\ L[i].kind = "-" => Starts(L, i)

BlockRight(T, L, i, next, block) ==
  /\ Prepends(L, i, next, block)
  /\ ColumnIs(block, 1, L, i, next, OldKinds) /\ ColumnIs(block, 2, L, i, next, NewKinds)
  /\ Reached(L, i) => PairsIn(block, L)
  /\ Reached(L, next)

(* One step of SplitRows: a block that is right, and the line the next one  *)
(* begins with.                                                             *)
LEMMA BlockThere ==
  ASSUME NEW T, NEW L, Lines(T, L), NoTurn(L), NEW i \in 1..Len(L)
  PROVE  \E next \in (i + 1)..(Len(L) + 1), block \in Seq(RowSet(T)) : BlockRight(T, L, i, next, block)
<1> DEFINE n == Len(L)
<1>1. n \in Nat /\ ~(i > n) /\ L[i] \in T /\ L[i].kind \in Kinds /\ i + 1 \in (i + 1)..(n + 1)
      /\ L[i] # NoLine /\ i \in Nat /\ i \in Nat \ {0} /\ i <= n /\ i + 1 \in Nat /\ (i + 1) - 1 = i /\ NoLine.kind = "none"
  BY LineIsThere DEF Lines, NoLine
<1>2. CASE L[i].kind = " "
  <2> DEFINE block == <<<<L[i], L[i]>>>>
  <2>1. block \in Seq(RowSet(T)) /\ Len(block) = 1 /\ block[1] = <<L[i], L[i]>>
    BY <1>1 DEF RowSet
  <2>2. Prepends(L, i, i + 1, block)
    BY <1>1, <1>2 DEF RowsFrom, Prepends
  <2> HIDE DEF block
  <2>3. Sided(L, i, i + 1, OldKinds) = i..((i + 1) - 1) /\ Sided(L, i, i + 1, NewKinds) = i..((i + 1) - 1)
    <3>1. i..((i + 1) - 1) = {i}
      BY <1>1
    <3> QED
      BY <1>2, <3>1 DEF Sided, OldKinds, NewKinds
  <2>4. \A r \in 1..Len(block) : r = 1 /\ block[r][1] = L[(i + r) - 1] /\ block[r][2] = L[(i + r) - 1]
    BY <1>1, <2>1
  <2>5. \A r \in 1..Len(block) : /\ block[r][1] = IF r <= 1 THEN L[(i + r) - 1] ELSE NoLine
                                 /\ block[r][2] = IF r <= 1 THEN L[(i + r) - 1] ELSE NoLine
    BY <2>4
  <2>6. ColumnIs(block, 1, L, i, i + 1, OldKinds)
    <3>1. 1 \in Nat /\ 1 <= Len(block) /\ (i + 1) - 1 <= Len(L) /\ Len(block) \in Nat
      BY <1>1, <2>1
    <3> HIDE DEF n
    <3> QED
      BY <1>1, <2>3, <2>5, <3>1, ColumnOfRun
  <2>7. ColumnIs(block, 2, L, i, i + 1, NewKinds)
    <3>1. 1 \in Nat /\ 1 <= Len(block) /\ (i + 1) - 1 <= Len(L) /\ Len(block) \in Nat
      BY <1>1, <2>1
    <3> HIDE DEF n
    <3> QED
      BY <1>1, <2>3, <2>5, <3>1, ColumnOfRun
  <2>8. PairsIn(block, L)
    BY <1>2, <2>1, <2>4 DEF PairsIn
  <2>9. Reached(L, i + 1)
    BY <1>1, <1>2 DEF Reached, Starts
  <2> QED
    BY <1>1, <2>1, <2>2, <2>6, <2>7, <2>8, <2>9 DEF BlockRight
<1>3. CASE L[i].kind = "+"
  <2> DEFINE block == <<<<NoLine, L[i]>>>>
  <2>1. block \in Seq(RowSet(T)) /\ Len(block) = 1 /\ block[1] = <<NoLine, L[i]>>
    BY <1>1 DEF RowSet
  <2>2. Prepends(L, i, i + 1, block)
    BY <1>1, <1>3 DEF RowsFrom, Prepends
  <2> HIDE DEF block
  <2>3. Sided(L, i, i + 1, OldKinds) = i..((i + 0) - 1) /\ Sided(L, i, i + 1, NewKinds) = i..((i + 1) - 1)
    <3>1. i..((i + 1) - 1) = {i} /\ i..((i + 0) - 1) = {}
      BY <1>1
    <3> QED
      BY <1>3, <3>1 DEF Sided, OldKinds, NewKinds
  <2>4. \A r \in 1..Len(block) : r = 1 /\ block[r][1] = NoLine /\ block[r][2] = L[(i + r) - 1]
    BY <1>1, <2>1
  <2>5. \A r \in 1..Len(block) : /\ block[r][1] = IF r <= 0 THEN L[(i + r) - 1] ELSE NoLine
                                 /\ block[r][2] = IF r <= 1 THEN L[(i + r) - 1] ELSE NoLine
    BY <2>4
  <2>6. ColumnIs(block, 1, L, i, i + 1, OldKinds)
    <3>1. 0 \in Nat /\ 0 <= Len(block) /\ (i + 0) - 1 <= Len(L) /\ Len(block) \in Nat
      BY <1>1, <2>1
    <3> HIDE DEF n
    <3> QED
      BY <1>1, <2>3, <2>5, <3>1, ColumnOfRun
  <2>7. ColumnIs(block, 2, L, i, i + 1, NewKinds)
    <3>1. 1 \in Nat /\ 1 <= Len(block) /\ (i + 1) - 1 <= Len(L) /\ Len(block) \in Nat
      BY <1>1, <2>1
    <3> HIDE DEF n
    <3> QED
      BY <1>1, <2>3, <2>5, <3>1, ColumnOfRun
  <2>8. PairsIn(block, L)
    BY <1>1, <2>4 DEF PairsIn
  <2>9. Reached(L, i + 1)
    BY <1>1, <1>3 DEF Reached, NoTurn
  <2> QED
    BY <1>1, <2>1, <2>2, <2>6, <2>7, <2>8, <2>9 DEF BlockRight
<1>4. CASE L[i].kind = "-"
  <2>1. PICK g \in Nat \ {0}, c \in Nat, block \in Seq(RowSet(T)) :
           GoneBlock(L, i, g, c, block) /\ Prepends(L, i, (i + g) + c, block)
    BY <1>4, GoneAndCome
  <2> DEFINE next == (i + g) + c
  <2>2. /\ next \in (i + 1)..(n + 1) /\ next \in Nat
        /\ \A k \in i..((i + g) - 1) : L[k].kind = "-"
        /\ \A k \in (i + g)..(next - 1) : L[k].kind = "+"
        /\ c = 0 /\ i + g <= n => L[i + g].kind # "-"
        /\ \A r \in 1..Len(block) :
             block[r] = <<IF r <= g THEN L[(i + r) - 1] ELSE NoLine,
                          IF r <= c THEN L[((i + g) + r) - 1] ELSE NoLine>>
        /\ g <= Len(block) /\ c <= Len(block) /\ Len(block) \in Nat
    BY <1>1, <2>1 DEF GoneBlock
  <2>3. \A r \in 1..Len(block) : /\ block[r][1] = IF r <= g THEN L[(i + r) - 1] ELSE NoLine
                                 /\ block[r][2] = IF r <= c THEN L[((i + g) + r) - 1] ELSE NoLine
    <3> TAKE r \in 1..Len(block)
    <3> DEFINE x == IF r <= g THEN L[(i + r) - 1] ELSE NoLine
               y == IF r <= c THEN L[((i + g) + r) - 1] ELSE NoLine
    <3>1. block[r] = <<x, y>>
      BY <2>2
    <3> HIDE DEF x, y
    <3>2. block[r][1] = x /\ block[r][2] = y
      BY <3>1
    <3> QED
      BY <3>2 DEF x, y
  <2>4. \A j \in i..(next - 1) : (j \in i..((i + g) - 1) /\ L[j].kind = "-") \/ (j \in (i + g)..(next - 1) /\ L[j].kind = "+")
    <3> TAKE j \in i..(next - 1)
    <3>1. j \in i..((i + g) - 1) \/ j \in (i + g)..(next - 1)
      BY <1>1
    <3> QED
      BY <2>2, <3>1
  <2>5. i..((i + g) - 1) \subseteq i..(next - 1) /\ (i + g)..(next - 1) \subseteq i..(next - 1)
    BY <1>1
  <2>6. Sided(L, i, next, OldKinds) = i..((i + g) - 1)
    <3>1. \A j \in Sided(L, i, next, OldKinds) : j \in i..((i + g) - 1)
      <4> HIDE DEF next
      <4> QED
        BY <2>4 DEF Sided, OldKinds
    <3>2. \A j \in i..((i + g) - 1) : j \in Sided(L, i, next, OldKinds)
      <4> HIDE DEF next
      <4> QED
        BY <2>2, <2>5 DEF Sided, OldKinds
    <3> QED
      BY <3>1, <3>2
  <2>7. Sided(L, i, next, NewKinds) = (i + g)..(((i + g) + c) - 1)
    <3>1. \A j \in Sided(L, i, next, NewKinds) : j \in (i + g)..(next - 1)
      <4> HIDE DEF next
      <4> QED
        BY <2>4 DEF Sided, NewKinds
    <3>2. \A j \in (i + g)..(next - 1) : j \in Sided(L, i, next, NewKinds)
      <4> HIDE DEF next
      <4> QED
        BY <2>2, <2>5 DEF Sided, NewKinds
    <3> QED
      BY <3>1, <3>2
  <2>8. next - 1 <= Len(L) /\ (i + g) - 1 <= Len(L) /\ i + g \in Nat \ {0} /\ i \in Nat \ {0}
    <3>1. next <= n + 1 /\ i + g <= next
      BY <1>1, <2>2
    <3>2. next - 1 <= n /\ (i + g) - 1 <= n
      BY <1>1, <3>1, SMTT(30)
    <3>3. i + g \in Nat \ {0}
      BY <1>1
    <3> QED
      BY <1>1, <3>2, <3>3
  <2> HIDE DEF n
  <2>9. ColumnIs(block, 1, L, i, next, OldKinds)
    BY <1>1, <2>2, <2>3, <2>6, <2>8, ColumnOfRun
  <2>10. ColumnIs(block, 2, L, i, next, NewKinds)
    BY <1>1, <2>2, <2>3, <2>7, <2>8, ColumnOfRun, ZenonT(30)
  <2>11. ASSUME Reached(L, i), NEW r \in 1..Len(block), block[r][1].kind = "-", block[r][2].kind = "+"
         PROVE  \E a, b \in 1..Len(L) : Opposite(L, a, b) /\ block[r][1] = L[a] /\ block[r][2] = L[b]
    <3> DEFINE a == (i + r) - 1
               b == ((i + g) + r) - 1
    <3>1. r <= g /\ r <= c
      BY <1>1, <2>3, <2>11
    <3>2. block[r][1] = L[a] /\ block[r][2] = L[b]
      BY <2>3, <3>1
    <3>3. a \in 1..Len(L) /\ b \in 1..Len(L) /\ i \in 1..Len(L) /\ g \in 1..Len(L)
      <4> DEFINE m == Len(L)
      <4>1. /\ r \in Nat /\ r >= 1 /\ m \in Nat
            /\ i \in Nat /\ i >= 1 /\ g \in Nat /\ c \in Nat
        BY <1>1, <2>2 DEF n
      <4>2. (i + g) - 1 <= m /\ ((i + g) + c) - 1 <= m
        BY <2>8
      <4> HIDE DEF m
      <4>3. a \in 1..m
        BY <3>1, <4>1, <4>2
      <4>4. b \in 1..m
        BY <3>1, <4>1, <4>2
      <4>5. i \in 1..m /\ g \in 1..m
        BY <3>1, <4>1, <4>2
      <4> QED
        BY <4>3, <4>4, <4>5 DEF m
    <3>4. OppositeIn(L, a, b, i, g)
      <4>1. Starts(L, i)
        BY <1>1, <1>4, <2>11 DEF Reached, n
      <4>2. i <= a /\ a < i + g /\ b = a + g
        BY <1>1, <3>1
      <4>3. \A j \in (i + g)..b : L[j].kind = "+"
        <5>1. (i + g)..b \subseteq (i + g)..(next - 1)
          BY <1>1, <3>1
        <5> QED
          BY <2>2, <5>1
      <4> QED
        BY <2>2, <4>1, <4>2, <4>3 DEF OppositeIn
    <3>5. Opposite(L, a, b)
      BY <3>3, <3>4 DEF Opposite
    <3> HIDE DEF a, b
    <3> QED
      BY <3>2, <3>3, <3>5
  <2>12. Reached(L, next)
    <3>1. CASE c = 0
      <4>1. next = i + g
        BY <1>1, <3>1
      <4> QED
        BY <2>2, <3>1, <4>1 DEF Reached, n
    <3>2. CASE c # 0
      <4>1. next - 1 \in (i + g)..(next - 1) /\ next - 1 \in Nat \ {0} /\ (next - 1) + 1 = next
        BY <1>1, <3>2
      <4>2. L[next - 1].kind = "+"
        BY <2>2, <4>1
      <4>3. next <= Len(L) => next - 1 \in 1..(Len(L) - 1)
        BY <1>1, <4>1 DEF n
      <4>4. next <= Len(L) => L[next].kind # "-"
        <5> HIDE DEF next
        <5> QED
          BY <4>1, <4>2, <4>3 DEF NoTurn
      <4> QED
        BY <4>4 DEF Reached
    <3> QED
      BY <3>1, <3>2
  <2>13. Reached(L, i) => PairsIn(block, L)
    BY <2>11 DEF PairsIn
  <2> HIDE DEF next
  <2>14. BlockRight(T, L, i, next, block)
    BY <2>1, <2>9, <2>10, <2>12, <2>13 DEF BlockRight, next
  <2>15. next \in (i + 1)..(Len(L) + 1)
    BY <2>2 DEF n
  <2> QED
    BY <2>1, <2>14, <2>15
<1> QED
  BY <1>1, <1>2, <1>3, <1>4 DEF Kinds

(* Pairs of rows put one below the other.                                   *)
LEMMA PairsThen ==
  ASSUME NEW U, NEW A \in Seq(U), NEW B \in Seq(U), NEW L, PairsIn(A, L), PairsIn(B, L)
  PROVE  PairsIn(A \o B, L)
<1> DEFINE a == Len(A)
           b == Len(B)
           R == A \o B
<1>1. a \in Nat /\ b \in Nat /\ Len(R) = a + b /\ (\A r \in 1..a : R[r] = A[r])
      /\ \A r \in (a + 1)..(a + b) : R[r] = B[r - a] /\ r - a \in 1..b
  OBVIOUS
<1> HIDE DEF a, b, R
<1>2. \A r \in 1..Len(R) : (\E s \in 1..Len(A) : R[r] = A[s]) \/ (\E s \in 1..Len(B) : R[r] = B[s])
  <2> TAKE r \in 1..Len(R)
  <2>1. r \in 1..a \/ r \in (a + 1)..(a + b)
    BY <1>1
  <2> QED
    BY <1>1, <2>1 DEF a, b
<1>3. PairsIn(R, L)
  <2> SUFFICES ASSUME NEW r \in 1..Len(R), R[r][1].kind = "-", R[r][2].kind = "+"
               PROVE  \E x, y \in 1..Len(L) : Opposite(L, x, y) /\ R[r][1] = L[x] /\ R[r][2] = L[y]
    BY DEF PairsIn
  <2>1. CASE \E s \in 1..Len(A) : R[r] = A[s]
    <3>1. PICK s \in 1..Len(A) : R[r] = A[s]
      BY <2>1
    <3>2. A[s][1].kind = "-" /\ A[s][2].kind = "+"
      BY <3>1
    <3>3. \E x, y \in 1..Len(L) : Opposite(L, x, y) /\ A[s][1] = L[x] /\ A[s][2] = L[y]
      BY <3>2 DEF PairsIn
    <3> QED
      BY <3>1, <3>3
  <2>2. CASE \E s \in 1..Len(B) : R[r] = B[s]
    <3>1. PICK s \in 1..Len(B) : R[r] = B[s]
      BY <2>2
    <3>2. B[s][1].kind = "-" /\ B[s][2].kind = "+"
      BY <3>1
    <3>3. \E x, y \in 1..Len(L) : Opposite(L, x, y) /\ B[s][1] = L[x] /\ B[s][2] = L[y]
      BY <3>2 DEF PairsIn
    <3> QED
      BY <3>1, <3>3
  <2> QED
    BY <1>2, <2>1, <2>2
<1> QED
  BY <1>3 DEF R

(* The rows generate_split_rows makes of any hunk in which lines are removed  *)
(* before others are added: each column is its side of the hunk, complete and *)
(* in order, and a removed and an added line in one row are as far into their *)
(* runs.                                                                      *)
THEOREM SplitRowsRight ==
  ASSUME NEW T, NEW L, Lines(T, L), NoTurn(L)
  PROVE  /\ SplitRows(L) \in Seq(RowSet(T))
         /\ ColumnIs(SplitRows(L), 1, L, 1, Len(L) + 1, OldKinds)
         /\ ColumnIs(SplitRows(L), 2, L, 1, Len(L) + 1, NewKinds)
         /\ PairsIn(SplitRows(L), L)
<1> DEFINE n == Len(L)
           U == RowSet(T)
           S == Seq(U)
<1>1. n \in Nat /\ n + 1 \in Nat
  BY DEF Lines
<1>2. PICK rows \in [1..(n + 1) -> S] :
           SplitRows(L) = rows[1] /\ rows[n + 1] = << >> /\ \A i \in 1..n : rows[i] = RowsFrom(rows, L, i)
  BY RowsThere
<1> DEFINE Right(i) == /\ ColumnIs(rows[i], 1, L, i, n + 1, OldKinds) /\ ColumnIs(rows[i], 2, L, i, n + 1, NewKinds)
                       /\ Reached(L, i) => PairsIn(rows[i], L)
           P == {i \in 1..(n + 1) : Right(i)}
<1>3. ASSUME NEW i \in 1..(n + 1), \A j \in (i + 1)..(n + 1) : j \in P PROVE Right(i)
  <2>1. CASE i = n + 1
    <3>1. rows[i] = << >>
      BY <1>2, <2>1
    <3>2. \A k, K : ColumnIs(<< >>, k, L, i, n + 1, K)
      <4> TAKE k, K
      <4>1. Sided(L, i, n + 1, K) = {} /\ Cells1(<< >>, k) = {}
        BY <1>1, <2>1 DEF Sided, Cells1
      <4> DEFINE at == [x \in {} |-> 0]
      <4>2. Along(at, {}, {})
        BY DEF Along
      <4> HIDE DEF at
      <4> QED
        BY <4>1, <4>2 DEF ColumnIs
    <3>3. PairsIn(<< >>, L)
      BY DEF PairsIn
    <3> QED
      BY <3>1, <3>2, <3>3
  <2>2. CASE i # n + 1
    <3>1. i \in 1..n /\ i \in Nat
      BY <1>1, <2>2
    <3>2. PICK next \in (i + 1)..(n + 1), block \in S : BlockRight(T, L, i, next, block)
      BY <3>1, BlockThere
    <3>3. next \in Nat /\ i <= next /\ next <= n + 1 /\ next \in 1..(n + 1)
      BY <1>1, <3>1, <3>2
    <3>4. Right(next) /\ rows[next] \in S
      BY <1>3, <3>2, <3>3
    <3>5. rows[i] = block \o rows[next]
      BY <1>2, <3>1, <3>2 DEF BlockRight, Prepends
    <3> DEFINE rest == rows[next]
    <3> HIDE DEF n, U, rest
    <3>6. block \in Seq(U) /\ rest \in Seq(U)
      BY <3>2, <3>4 DEF rest
    <3>7. ColumnIs(block \o rest, 1, L, i, n + 1, OldKinds)
      BY <1>1, <3>1, <3>2, <3>3, <3>4, <3>6, ColumnThen DEF BlockRight, rest
    <3>8. ColumnIs(block \o rest, 2, L, i, n + 1, NewKinds)
      BY <1>1, <3>1, <3>2, <3>3, <3>4, <3>6, ColumnThen DEF BlockRight, rest
    <3>9. Reached(L, i) => PairsIn(block \o rest, L)
      BY <3>2, <3>4, <3>6, PairsThen DEF BlockRight, rest
    <3> QED
      BY <3>5, <3>7, <3>8, <3>9 DEF rest
  <2> QED
    BY <2>1, <2>2
<1>4. 1 \in P
  <2>1. \A i \in 1..(n + 1) : (\A j \in (i + 1)..(n + 1) : j \in P) => i \in P
    <3> HIDE DEF Right
    <3> QED
      BY <1>3
  <2> HIDE DEF P, n
  <2>2. \A i \in 1..(n + 1) : i \in P
    BY <1>1, <2>1, Downward
  <2> QED
    BY <1>1, <2>2
<1>5. Reached(L, 1)
  BY DEF Reached, Starts
<1>6. rows[1] \in S
  BY <1>1, <1>2
<1> QED
  BY <1>2, <1>4, <1>5, <1>6

-----------------------------------------------------------------------------
(* The two readers go through the text line by line.                        *)

(* The summary before any line.                                             *)
NothingSummed == [files |-> << >>, file |-> NoDfFile]

(* The states of the viewer while it reads.                                 *)
IsViewed(f, text, k) ==
  /\ DOMAIN f = 0..k /\ f[0] = DfNothing
  /\ \A i \in 1..k : f[i] = ViewLine(f[i - 1], text[i])

(* Viewed is the last of them.                                              *)
LEMMA ViewedThere ==
  ASSUME NEW text, Len(text) \in Nat
  PROVE  \E f : IsViewed(f, text, Len(text)) /\ Viewed(text) = f[Len(text)]
<1> DEFINE n == Len(text)
           Ok(k) == \E f : IsViewed(f, text, k)
           P == {k \in 0..n : Ok(k)}
<1>1. Ok(0)
  <2> DEFINE f == [i \in 0..0 |-> DfNothing]
  <2>1. IsViewed(f, text, 0)
    BY DEF IsViewed
  <2> QED
    BY <2>1
<1>2. ASSUME NEW k \in 0..(n - 1), Ok(k) PROVE Ok(k + 1)
  <2>1. PICK f : IsViewed(f, text, k)
    BY <1>2
  <2> DEFINE g == [i \in 0..(k + 1) |-> IF i = k + 1 THEN ViewLine(f[k], text[k + 1]) ELSE f[i]]
  <2>2. k \in Nat
    OBVIOUS
  <2>3. g[0] = DfNothing
    BY <2>1, <2>2 DEF IsViewed
  <2>4. ASSUME NEW i \in 1..(k + 1) PROVE g[i] = ViewLine(g[i - 1], text[i])
    <3>1. CASE i = k + 1
      <4>1. i - 1 = k /\ k \in 0..(k + 1) /\ k # k + 1 /\ k + 1 \in 0..(k + 1)
        BY <2>2, <3>1
      <4>2. g[i] = ViewLine(f[k], text[k + 1]) /\ g[i - 1] = f[k]
        BY <3>1, <4>1
      <4> HIDE DEF g
      <4> QED
        BY <3>1, <4>2
    <3>2. CASE i # k + 1
      <4>1. i \in 1..k /\ i \in 0..(k + 1) /\ i - 1 \in 0..(k + 1) /\ i - 1 # k + 1
        BY <2>2, <3>2
      <4>2. g[i] = f[i] /\ g[i - 1] = f[i - 1]
        BY <3>2, <4>1
      <4> HIDE DEF g
      <4> QED
        BY <2>1, <4>1, <4>2 DEF IsViewed
    <3> QED
      BY <3>1, <3>2
  <2>5. DOMAIN g = 0..(k + 1)
    OBVIOUS
  <2> HIDE DEF g
  <2>6. IsViewed(g, text, k + 1)
    BY <2>3, <2>4, <2>5 DEF IsViewed
  <2> QED
    BY <2>6
<1> HIDE DEF Ok
<1>3. \A k \in 0..n : k \in P
  <2>1. 0 \in P /\ \A k \in 0..(n - 1) : k \in P => k + 1 \in P
    BY <1>1, <1>2
  <2> HIDE DEF P
  <2> QED
    BY <2>1, Upto
<1>4. PICK f : IsViewed(f, text, n)
  BY <1>3 DEF Ok
<1> DEFINE Rhs(h, i) == IF i = 0 THEN DfNothing ELSE ViewLine(h[i - 1], text[i])
           f0 == CHOOSE h : h = [i \in 0..n |-> Rhs(h, i)]
<1>5. IsViewed(f0, text, n)
  <2>1. \E h : h = [i \in 0..n |-> Rhs(h, i)]
    <3> DEFINE h == [i \in 0..n |-> f[i]]
    <3>1. \A i \in 0..n : h[i] = f[i]
      OBVIOUS
    <3>2. \A i \in 0..n : i = 0 \/ (i \in 1..n /\ i - 1 \in 0..n)
      OBVIOUS
    <3>3. ASSUME NEW i \in 0..n PROVE f[i] = Rhs(h, i)
      <4> HIDE DEF h
      <4>1. CASE i = 0
        BY <1>4, <4>1 DEF IsViewed
      <4>2. CASE i # 0
        <5>1. i \in 1..n /\ h[i - 1] = f[i - 1]
          BY <3>1, <3>2, <4>2
        <5> QED
          BY <1>4, <4>2, <5>1 DEF IsViewed
      <4> QED
        BY <4>1, <4>2
    <3>4. h = [i \in 0..n |-> Rhs(h, i)]
      <4> HIDE DEF Rhs
      <4>1. \A i \in 0..n : f[i] = Rhs(h, i)
        BY <3>3
      <4> QED
        BY <4>1
    <3> QED
      BY <3>4
  <2> HIDE DEF Rhs
  <2>2. f0 = [i \in 0..n |-> Rhs(f0, i)]
    BY <2>1
  <2> HIDE DEF f0
  <2>3. DOMAIN f0 = 0..n /\ \A i \in 0..n : f0[i] = Rhs(f0, i)
    BY <2>2
  <2>4. f0[0] = DfNothing
    BY <2>3 DEF Rhs
  <2>5. \A i \in 1..n : f0[i] = ViewLine(f0[i - 1], text[i])
    BY <2>3 DEF Rhs
  <2> QED
    BY <2>3, <2>4, <2>5 DEF IsViewed
<1>6. Viewed(text) = f0[n]
  BY DEF Viewed
<1> QED
  BY <1>5, <1>6

(* What a line more of the text does.                                         *)
LEMMA ViewedMore ==
  ASSUME NEW W, NEW text \in Seq(W), NEW l \in W
  PROVE  Viewed(Append(text, l)) = ViewLine(Viewed(text), l)
<1> DEFINE more == Append(text, l)
           n == Len(text)
<1>1. n \in Nat /\ Len(more) = n + 1 /\ Len(more) \in Nat /\ more[n + 1] = l /\ \A i \in 1..n : more[i] = text[i]
  BY AppendIs
<1> HIDE DEF more
<1>2. PICK f : IsViewed(f, text, n) /\ Viewed(text) = f[n]
  BY <1>1, ViewedThere
<1>3. PICK g : IsViewed(g, more, n + 1) /\ Viewed(more) = g[n + 1]
  BY <1>1, ViewedThere
<1> DEFINE P == {k \in 0..n : g[k] = f[k]}
<1>4. \A k \in 0..n : k \in P
  <2>1. 0 \in P
    BY <1>1, <1>2, <1>3 DEF IsViewed
  <2>2. \A k \in 0..(n - 1) : k \in P => k + 1 \in P
    <3>0. ASSUME NEW k \in 0..(n - 1), g[k] = f[k] PROVE g[k + 1] = f[k + 1]
      <4>1. k + 1 \in 1..n /\ k + 1 \in 1..(n + 1) /\ (k + 1) - 1 = k
        BY <1>1
      <4>2. g[k + 1] = ViewLine(g[k], more[k + 1]) /\ f[k + 1] = ViewLine(f[k], text[k + 1])
        BY <1>2, <1>3, <4>1 DEF IsViewed
      <4> QED
        BY <1>1, <3>0, <4>1, <4>2
    <3>1. \A k \in 0..(n - 1) : k + 1 \in 0..n
      BY <1>1
    <3> HIDE DEF n
    <3> QED
      BY <3>0, <3>1
  <2> HIDE DEF P
  <2> QED
    BY <1>1, <2>1, <2>2, Upto
<1>5. g[n] = f[n]
  BY <1>1, <1>4
<1>6. n + 1 \in 1..(n + 1) /\ (n + 1) - 1 = n
  BY <1>1
<1>7. g[n + 1] = ViewLine(g[n], more[n + 1])
  BY <1>3, <1>6 DEF IsViewed
<1> QED
  BY <1>1, <1>2, <1>3, <1>5, <1>7 DEF more

(* Nothing read yet.                                                        *)
LEMMA ViewedNone == Viewed(<< >>) = DfNothing
<1>1. PICK f : IsViewed(f, << >>, Len(<< >>)) /\ Viewed(<< >>) = f[Len(<< >>)]
  BY ViewedThere
<1> QED
  BY <1>1 DEF IsViewed

(* The states of the summary.                                               *)
IsSummed(f, text, k) ==
  /\ DOMAIN f = 0..k /\ f[0] = NothingSummed
  /\ \A i \in 1..k : f[i] = SummaryLine(f[i - 1], text[i])

(* Summed is the last of them.                                              *)
LEMMA SummedThere ==
  ASSUME NEW text, Len(text) \in Nat
  PROVE  \E f : IsSummed(f, text, Len(text)) /\ Summed(text) = f[Len(text)]
<1> DEFINE n == Len(text)
           Ok(k) == \E f : IsSummed(f, text, k)
           P == {k \in 0..n : Ok(k)}
<1>1. Ok(0)
  <2> DEFINE f == [i \in 0..0 |-> NothingSummed]
  <2>1. IsSummed(f, text, 0)
    BY DEF IsSummed
  <2> QED
    BY <2>1
<1>2. ASSUME NEW k \in 0..(n - 1), Ok(k) PROVE Ok(k + 1)
  <2>1. PICK f : IsSummed(f, text, k)
    BY <1>2
  <2> DEFINE g == [i \in 0..(k + 1) |-> IF i = k + 1 THEN SummaryLine(f[k], text[k + 1]) ELSE f[i]]
  <2>2. k \in Nat
    OBVIOUS
  <2>3. g[0] = NothingSummed
    BY <2>1, <2>2 DEF IsSummed
  <2>4. ASSUME NEW i \in 1..(k + 1) PROVE g[i] = SummaryLine(g[i - 1], text[i])
    <3>1. CASE i = k + 1
      <4>1. i - 1 = k /\ k \in 0..(k + 1) /\ k # k + 1 /\ k + 1 \in 0..(k + 1)
        BY <2>2, <3>1
      <4>2. g[i] = SummaryLine(f[k], text[k + 1]) /\ g[i - 1] = f[k]
        BY <3>1, <4>1
      <4> HIDE DEF g
      <4> QED
        BY <3>1, <4>2
    <3>2. CASE i # k + 1
      <4>1. i \in 1..k /\ i \in 0..(k + 1) /\ i - 1 \in 0..(k + 1) /\ i - 1 # k + 1
        BY <2>2, <3>2
      <4>2. g[i] = f[i] /\ g[i - 1] = f[i - 1]
        BY <3>2, <4>1
      <4> HIDE DEF g
      <4> QED
        BY <2>1, <4>1, <4>2 DEF IsSummed
    <3> QED
      BY <3>1, <3>2
  <2>5. DOMAIN g = 0..(k + 1)
    OBVIOUS
  <2> HIDE DEF g
  <2>6. IsSummed(g, text, k + 1)
    BY <2>3, <2>4, <2>5 DEF IsSummed
  <2> QED
    BY <2>6
<1> HIDE DEF Ok
<1>3. \A k \in 0..n : k \in P
  <2>1. 0 \in P /\ \A k \in 0..(n - 1) : k \in P => k + 1 \in P
    BY <1>1, <1>2
  <2> HIDE DEF P
  <2> QED
    BY <2>1, Upto
<1>4. PICK f : IsSummed(f, text, n)
  BY <1>3 DEF Ok
<1> DEFINE Rhs(h, i) == IF i = 0 THEN NothingSummed ELSE SummaryLine(h[i - 1], text[i])
           f0 == CHOOSE h : h = [i \in 0..n |-> Rhs(h, i)]
<1>5. IsSummed(f0, text, n)
  <2>1. \E h : h = [i \in 0..n |-> Rhs(h, i)]
    <3> DEFINE h == [i \in 0..n |-> f[i]]
    <3>1. \A i \in 0..n : h[i] = f[i]
      OBVIOUS
    <3>2. \A i \in 0..n : i = 0 \/ (i \in 1..n /\ i - 1 \in 0..n)
      OBVIOUS
    <3>3. ASSUME NEW i \in 0..n PROVE f[i] = Rhs(h, i)
      <4> HIDE DEF h
      <4>1. CASE i = 0
        BY <1>4, <4>1 DEF IsSummed
      <4>2. CASE i # 0
        <5>1. i \in 1..n /\ h[i - 1] = f[i - 1]
          BY <3>1, <3>2, <4>2
        <5> QED
          BY <1>4, <4>2, <5>1 DEF IsSummed
      <4> QED
        BY <4>1, <4>2
    <3>4. h = [i \in 0..n |-> Rhs(h, i)]
      <4> HIDE DEF Rhs
      <4>1. \A i \in 0..n : f[i] = Rhs(h, i)
        BY <3>3
      <4> QED
        BY <4>1
    <3> QED
      BY <3>4
  <2> HIDE DEF Rhs
  <2>2. f0 = [i \in 0..n |-> Rhs(f0, i)]
    BY <2>1
  <2> HIDE DEF f0
  <2>3. DOMAIN f0 = 0..n /\ \A i \in 0..n : f0[i] = Rhs(f0, i)
    BY <2>2
  <2>4. f0[0] = NothingSummed
    BY <2>3 DEF Rhs
  <2>5. \A i \in 1..n : f0[i] = SummaryLine(f0[i - 1], text[i])
    BY <2>3 DEF Rhs
  <2> QED
    BY <2>3, <2>4, <2>5 DEF IsSummed
<1>6. Summed(text) = f0[n]
  BY DEF Summed, NothingSummed
<1> QED
  BY <1>5, <1>6

(* What a line more of the text does.                                         *)
LEMMA SummedMore ==
  ASSUME NEW W, NEW text \in Seq(W), NEW l \in W
  PROVE  Summed(Append(text, l)) = SummaryLine(Summed(text), l)
<1> DEFINE more == Append(text, l)
           n == Len(text)
<1>1. n \in Nat /\ Len(more) = n + 1 /\ Len(more) \in Nat /\ more[n + 1] = l /\ \A i \in 1..n : more[i] = text[i]
  BY AppendIs
<1> HIDE DEF more
<1>2. PICK f : IsSummed(f, text, n) /\ Summed(text) = f[n]
  BY <1>1, SummedThere
<1>3. PICK g : IsSummed(g, more, n + 1) /\ Summed(more) = g[n + 1]
  BY <1>1, SummedThere
<1> DEFINE P == {k \in 0..n : g[k] = f[k]}
<1>4. \A k \in 0..n : k \in P
  <2>1. 0 \in P
    BY <1>1, <1>2, <1>3 DEF IsSummed
  <2>2. \A k \in 0..(n - 1) : k \in P => k + 1 \in P
    <3>0. ASSUME NEW k \in 0..(n - 1), g[k] = f[k] PROVE g[k + 1] = f[k + 1]
      <4>1. k + 1 \in 1..n /\ k + 1 \in 1..(n + 1) /\ (k + 1) - 1 = k
        BY <1>1
      <4>2. g[k + 1] = SummaryLine(g[k], more[k + 1]) /\ f[k + 1] = SummaryLine(f[k], text[k + 1])
        BY <1>2, <1>3, <4>1 DEF IsSummed
      <4> QED
        BY <1>1, <3>0, <4>1, <4>2
    <3>1. \A k \in 0..(n - 1) : k + 1 \in 0..n
      BY <1>1
    <3> HIDE DEF n
    <3> QED
      BY <3>0, <3>1
  <2> HIDE DEF P
  <2> QED
    BY <1>1, <2>1, <2>2, Upto
<1>5. g[n] = f[n]
  BY <1>1, <1>4
<1>6. n + 1 \in 1..(n + 1) /\ (n + 1) - 1 = n
  BY <1>1
<1>7. g[n + 1] = SummaryLine(g[n], more[n + 1])
  BY <1>3, <1>6 DEF IsSummed
<1> QED
  BY <1>1, <1>2, <1>3, <1>5, <1>7 DEF more

(* Nothing read yet.                                                        *)
LEMMA SummedNone == Summed(<< >>) = NothingSummed
<1>1. PICK f : IsSummed(f, << >>, Len(<< >>)) /\ Summed(<< >>) = f[Len(<< >>)]
  BY SummedThere
<1> QED
  BY <1>1 DEF IsSummed

-----------------------------------------------------------------------------
(* What git writes.                                                         *)

(* What git writes: lines, hunks, files, and the lines of its text.         *)
GitLines == Kinds \X DfContents
GitHunks == [old : Nat, new : Nat, lines : Seq(GitLines)]
GitForms == {"kept", "created", "deleted", "snippet"}
GitFiles == [path : DfPaths, form : GitForms, hunks : Seq(GitHunks)]
TextLines ==
  GitLines \cup ({"diff", "---", "+++"} \X (DfPaths \cup {NullPath})) \cup {<<"index">>} \cup ({"@@"} \X Nat \X Nat)

(* The same hunk, with other lines.                                         *)
SameStart(h, k) == h.old = k.old /\ h.new = k.new

(* The text of a header, and of a hunk.                                     *)
LEMMA HeaderTyped == ASSUME NEW f \in GitFiles PROVE FileHeader(f) \in Seq(TextLines)
<1>1. f.path \in DfPaths
  BY DEF GitFiles
<1> DEFINE a == <<"diff", f.path>>
           b == <<"index">>
           c == <<"---", IF f.form = "created" THEN NullPath ELSE f.path>>
           d == <<"+++", IF f.form = "deleted" THEN NullPath ELSE f.path>>
<1>2. a \in TextLines /\ b \in TextLines /\ c \in TextLines /\ d \in TextLines
  BY <1>1 DEF TextLines
<1>3. FileHeader(f) = IF f.form = "snippet" THEN << >> ELSE <<a, b, c, d>>
  BY DEF FileHeader
<1> HIDE DEF a, b, c, d
<1> QED
  BY <1>2, <1>3

LEMMA HunkTextIs ==
  ASSUME NEW f \in GitFiles, NEW h \in GitHunks
  PROVE  /\ HunkText(f, h) \in Seq(TextLines)
         /\ \A l \in GitLines, k \in GitHunks : SameStart(k, h) /\ k.lines = Append(h.lines, l) =>
              HunkText(f, k) = Append(HunkText(f, h), l)
         /\ h.lines = << >> => HunkText(f, h) = IF f.form = "snippet" THEN << >> ELSE <<<<"@@", h.old, h.new>>>>
<1>1. h.old \in Nat /\ h.new \in Nat /\ h.lines \in Seq(GitLines) /\ GitLines \subseteq TextLines
  BY DEF GitHunks, TextLines
<1>2. h.lines \in Seq(TextLines)
  <2> HIDE DEF TextLines, GitLines
  <2>1. \A i \in 1..Len(h.lines) : h.lines[i] \in TextLines
    BY <1>1
  <2>2. h.lines \in [1..Len(h.lines) -> TextLines] /\ Len(h.lines) \in Nat
    BY <1>1, <2>1
  <2> QED
    BY <2>2, FunctionIsSeq
<1> DEFINE top == IF f.form = "snippet" THEN << >> ELSE <<<<"@@", h.old, h.new>>>>
<1>3. top \in Seq(TextLines)
  <2>1. <<"@@", h.old, h.new>> \in {"@@"} \X Nat \X Nat
    BY <1>1
  <2>2. <<"@@", h.old, h.new>> \in TextLines
    BY <2>1 DEF TextLines
  <2> HIDE DEF TextLines
  <2> QED
    BY <2>2
<1>4. HunkText(f, h) = top \o h.lines
  BY DEF HunkText
<1>5. ASSUME NEW l \in GitLines, NEW k \in GitHunks, SameStart(k, h), k.lines = Append(h.lines, l)
      PROVE  HunkText(f, k) = Append(HunkText(f, h), l)
  <2>1. HunkText(f, k) = top \o Append(h.lines, l)
    BY <1>5 DEF HunkText, SameStart
  <2> HIDE DEF top, TextLines, GitLines
  <2>2. l \in TextLines
    BY <1>1, <1>5
  <2>3. \A p, q \in Seq(TextLines) : p \o Append(q, l) = Append(p \o q, l)
    BY <2>2
  <2> QED
    BY <1>2, <1>3, <1>4, <2>1, <2>3
<1>6. h.lines = << >> => HunkText(f, h) = top
  <2> HIDE DEF top
  <2> QED
    BY <1>3, <1>4
<1> HIDE DEF top
<1>7. HunkText(f, h) \in Seq(TextLines)
  BY <1>2, <1>3, <1>4
<1> QED
  BY <1>5, <1>6, <1>7 DEF top

LEMMA MoreOf == ASSUME NEW T, NEW s \in Seq(T), NEW t \in T PROVE DOMAIN Append(s, t) = 1..(Len(s) + 1) /\ DOMAIN s = 1..Len(s)
BY AppendIs

(* A file with one hunk more.                                                 *)
LEMMA FileTextMore ==
  ASSUME NEW f \in GitFiles, NEW g \in GitFiles, NEW h \in GitHunks,
         g.path = f.path, g.form = f.form, g.hunks = Append(f.hunks, h)
  PROVE  /\ FileText(f) \in Seq(TextLines) /\ FileText(g) \in Seq(TextLines)
         /\ FileText(g) = FileText(f) \o HunkText(f, h)
<1> DEFINE hs == f.hunks
           n == Len(hs)
           F == [i \in DOMAIN hs |-> HunkText(f, hs[i])]
           G == [i \in DOMAIN g.hunks |-> HunkText(g, g.hunks[i])]
           t == HunkText(f, h)
           S == Seq(TextLines)
<1>1. hs \in Seq(GitHunks) /\ n \in Nat /\ DOMAIN hs = 1..n
  BY DEF GitFiles
<1>2. /\ DOMAIN g.hunks = 1..(n + 1) /\ g.hunks[n + 1] = h /\ \A i \in 1..n : g.hunks[i] = hs[i]
  <2> HIDE DEF hs
  <2>0. g.hunks = Append(hs, h)
    BY DEF hs
  <2> QED
    BY <1>1, <2>0, AppendIs, MoreOf
<1>3. \A k : HunkText(g, k) = HunkText(f, k)
  BY DEF HunkText
<1>4. F \in Seq(S) /\ Len(F) = n /\ t \in S
  <2>1. \A i \in 1..n : hs[i] \in GitHunks
    BY <1>1
  <2>2. \A i \in 1..n : HunkText(f, hs[i]) \in S
    BY <2>1, HunkTextIs
  <2>3. F \in [1..n -> S]
    <3> HIDE DEF S, hs
    <3> QED
      BY <1>1, <2>2
  <2>4. t \in S
    BY HunkTextIs
  <2> HIDE DEF F, n, t, S
  <2> QED
    BY <1>1, <2>3, <2>4, FunctionIsSeq
<1>5. G = Append(F, t)
  <2>1. DOMAIN G = 1..(n + 1) /\ G = [i \in 1..(n + 1) |-> G[i]]
    BY <1>2
  <2>2. \A i \in 1..n : G[i] = F[i]
    <3> TAKE i \in 1..n
    <3>1. i \in 1..(n + 1)
      BY <1>1
    <3> QED
      BY <1>1, <1>2, <1>3, <3>1
  <2>3. G[n + 1] = t
    BY <1>1, <1>2, <1>3
  <2>4. Append(F, t) \in [1..(n + 1) -> S] /\ Append(F, t)[n + 1] = t /\ \A i \in 1..n : Append(F, t)[i] = F[i]
    <3> HIDE DEF F, t, S, n
    <3> QED
      BY <1>4, AppendIs
  <2>5. \A i \in 1..(n + 1) : i \in 1..n \/ i = n + 1
    BY <1>1
  <2> HIDE DEF F, G, t, S, n
  <2>6. \A i \in 1..(n + 1) : G[i] = Append(F, t)[i]
    BY <2>2, <2>3, <2>4, <2>5
  <2>7. Append(F, t) = [i \in 1..(n + 1) |-> Append(F, t)[i]]
    BY <2>4
  <2> QED
    BY <2>1, <2>6, <2>7
<1>6. FileText(f) = FileHeader(f) \o FlattenSeq(F) /\ FileText(g) = FileHeader(f) \o FlattenSeq(G)
  BY DEF FileText, FileHeader
<1> HIDE DEF F, G, t, hs
<1>7. FlattenSeq(F) \in S /\ FlattenSeq(G) = FlattenSeq(F) \o t
  BY <1>4, <1>5, FlattenAppend
<1>8. FileHeader(f) \in S
  BY HeaderTyped
<1>9. \A p, q, r \in S : p \o q \in S /\ (p \o q) \o r = p \o (q \o r)
  <2> HIDE DEF TextLines
  <2> QED
    OBVIOUS
<1>10. FileText(f) \in S
  BY <1>6, <1>7, <1>8, <1>9
<1>11. FileText(g) = FileText(f) \o t
  <2> DEFINE p == FileHeader(f)
             q == FlattenSeq(F)
  <2>1. p \in S /\ q \in S /\ t \in S
    BY <1>4, <1>7, <1>8
  <2>2. FileText(f) = p \o q /\ FileText(g) = p \o (q \o t)
    BY <1>6, <1>7
  <2> HIDE DEF p, q, S
  <2>3. (p \o q) \o t = p \o (q \o t)
    BY <1>9, <2>1
  <2> QED
    BY <2>2, <2>3
<1>12. FileText(g) \in S
  BY <1>4, <1>9, <1>10, <1>11
<1> QED
  BY <1>10, <1>11, <1>12 DEF t

(* The text of a file.                                                      *)
LEMMA FileTextTyped ==
  ASSUME NEW f \in GitFiles, f.hunks # << >>
  PROVE  FileText(f) \in Seq(TextLines)
<1> DEFINE f0 == [f EXCEPT !.hunks = Front(@)]
<1>1. f.hunks \in Seq(GitHunks)
  BY DEF GitFiles
<1>2. Front(f.hunks) \in Seq(GitHunks) /\ Last(f.hunks) \in GitHunks /\ f.hunks = Append(Front(f.hunks), Last(f.hunks))
  BY <1>1, LastIs
<1>3. f0 \in GitFiles /\ f0.path = f.path /\ f0.form = f.form /\ f0.hunks = Front(f.hunks)
  BY <1>2 DEF GitFiles
<1> HIDE DEF f0
<1> QED
  BY <1>2, <1>3, FileTextMore

(* Every file has a hunk, and lines without a header come alone.            *)
WellMade(d) ==
  /\ d \in Seq(GitFiles)
  /\ \A i \in 1..Len(d) : d[i].hunks # << >> /\ (d[i].form = "snippet" => Len(d) = 1)

(* A diff with one file more.                                                 *)
LEMMA DfTextMore ==
  ASSUME NEW d \in Seq(GitFiles), \A i \in 1..Len(d) : d[i].hunks # << >>,
         NEW f \in GitFiles, f.hunks # << >>
  PROVE  /\ DfText(d) \in Seq(TextLines) /\ FileText(f) \in Seq(TextLines)
         /\ DfText(Append(d, f)) = DfText(d) \o FileText(f)
<1> DEFINE n == Len(d)
           e == Append(d, f)
           F == [i \in DOMAIN d |-> FileText(d[i])]
           G == [i \in DOMAIN e |-> FileText(e[i])]
           t == FileText(f)
           S == Seq(TextLines)
<1>1. n \in Nat /\ DOMAIN d = 1..n /\ \A i \in 1..n : d[i] \in GitFiles
  OBVIOUS
<1>2. DOMAIN e = 1..(n + 1) /\ e[n + 1] = f /\ \A i \in 1..n : e[i] = d[i]
  BY <1>1, AppendIs, MoreOf
<1>4. F \in Seq(S) /\ Len(F) = n /\ t \in S
  <2>2. \A i \in 1..n : FileText(d[i]) \in S
    BY <1>1, FileTextTyped
  <2>3. F \in [1..n -> S]
    <3> HIDE DEF S
    <3> QED
      BY <1>1, <2>2
  <2>4. t \in S
    BY FileTextTyped
  <2> HIDE DEF F, n, t, S
  <2> QED
    BY <1>1, <2>3, <2>4, FunctionIsSeq
<1> HIDE DEF e
<1>5. G = Append(F, t)
  <2>1. DOMAIN G = 1..(n + 1) /\ G = [i \in 1..(n + 1) |-> G[i]]
    BY <1>2
  <2>2. \A i \in 1..n : G[i] = F[i]
    <3> TAKE i \in 1..n
    <3>1. i \in 1..(n + 1)
      BY <1>1
    <3> QED
      BY <1>1, <1>2, <3>1
  <2>3. G[n + 1] = t
    BY <1>1, <1>2
  <2>4. Append(F, t) \in [1..(n + 1) -> S] /\ Append(F, t)[n + 1] = t /\ \A i \in 1..n : Append(F, t)[i] = F[i]
    <3> HIDE DEF F, t, S, n
    <3> QED
      BY <1>4, AppendIs
  <2>5. \A i \in 1..(n + 1) : i \in 1..n \/ i = n + 1
    BY <1>1
  <2> HIDE DEF F, G, t, S, n
  <2>6. \A i \in 1..(n + 1) : G[i] = Append(F, t)[i]
    BY <2>2, <2>3, <2>4, <2>5
  <2>7. Append(F, t) = [i \in 1..(n + 1) |-> Append(F, t)[i]]
    BY <2>4
  <2> QED
    BY <2>1, <2>6, <2>7
<1>6. DfText(d) = FlattenSeq(F) /\ DfText(e) = FlattenSeq(G)
  BY DEF DfText
<1> HIDE DEF F, G, t
<1>7. FlattenSeq(F) \in S /\ FlattenSeq(G) = FlattenSeq(F) \o t
  BY <1>4, <1>5, FlattenAppend
<1> QED
  BY <1>4, <1>6, <1>7 DEF t, e

(* One line more at the end of the last file.                                 *)
LEMMA DfTextGrows ==
  ASSUME NEW d, WellMade(d), d # << >>, NEW f \in GitFiles, f.hunks # << >>, NEW l \in TextLines,
         FileText(f) = Append(FileText(Last(d)), l)
  PROVE  DfText(Append(Front(d), f)) = Append(DfText(d), l) /\ DfText(d) \in Seq(TextLines)
<1> DEFINE e == Front(d)
           g == Last(d)
<1>1. e \in Seq(GitFiles) /\ g \in GitFiles /\ d = Append(e, g) /\ Len(d) \in Nat \ {0}
      /\ g = d[Len(d)] /\ Len(e) = Len(d) - 1 /\ \A i \in 1..(Len(d) - 1) : e[i] = d[i]
  BY LastIs DEF WellMade
<1>2. g.hunks # << >> /\ \A i \in 1..Len(e) : e[i].hunks # << >>
  <2>1. \A i \in 1..(Len(d) - 1) : i \in 1..Len(d)
    BY <1>1
  <2> QED
    BY <1>1, <2>1 DEF WellMade
<1> HIDE DEF e, g
<1>3. DfText(d) = DfText(e) \o FileText(g) /\ DfText(e) \in Seq(TextLines) /\ FileText(g) \in Seq(TextLines)
  BY <1>1, <1>2, DfTextMore
<1>4. DfText(Append(e, f)) = DfText(e) \o FileText(f)
  BY <1>1, <1>2, DfTextMore
<1>5. \A p, q \in Seq(TextLines) : p \o q \in Seq(TextLines) /\ p \o Append(q, l) = Append(p \o q, l)
  <2> HIDE DEF TextLines
  <2> QED
    OBVIOUS
<1>6. DfText(Append(e, f)) = DfText(e) \o Append(FileText(g), l)
  BY <1>4 DEF g
<1> QED
  BY <1>3, <1>5, <1>6 DEF e

-----------------------------------------------------------------------------
(* The steps of git, at the end of the diff.                                  *)
FirstHunk(form) == DfHunk(IF form = "created" THEN 0 ELSE 1, IF form = "deleted" THEN 0 ELSE 1)

NewFileOf(d, e) ==
  \E f \in GitFiles :
    /\ e = Append(d, f) /\ f.hunks = <<FirstHunk(f.form)>>
    /\ \A i \in 1..Len(d) : d[i].form # "snippet"
    /\ f.form = "snippet" => d = << >>

NewHunkOf(d, e) ==
  /\ d # << >> /\ Last(d).form # "snippet"
  /\ \E f \in GitFiles, old, new \in Nat :
       /\ e = Append(Front(d), f) /\ f.path = Last(d).path /\ f.form = Last(d).form
       /\ f.hunks = Append(Last(d).hunks, DfHunk(old, new))

(* h becomes k by the line l.                                                 *)
LineOf(h, k, l) ==
  /\ SameStart(k, h) /\ k.lines = Append(h.lines, l)
  /\ l[1] = "-" /\ h.lines # << >> => Last(h.lines)[1] # "+"

NewLineOf(d, e) ==
  /\ d # << >>
  /\ \E f \in GitFiles, k \in GitHunks, l \in GitLines :
       /\ e = Append(Front(d), f) /\ f.path = Last(d).path /\ f.form = Last(d).form
       /\ f.hunks = Append(Front(Last(d).hunks), k)
       /\ LineOf(Last(Last(d).hunks), k, l)

(* Replacing the last element.                                              *)
LEMMA ExceptLast ==
  ASSUME NEW T, NEW s \in Seq(T), s # << >>, NEW x \in T, NEW r, r = [s EXCEPT ![Len(s)] = x]
  PROVE  r = Append(Front(s), x)
<1> DEFINE n == Len(s)
           q == Append(Front(s), x)
<1>1. n \in Nat \ {0} /\ Front(s) \in Seq(T) /\ Len(Front(s)) = n - 1 /\ \A i \in 1..(n - 1) : Front(s)[i] = s[i]
  BY LastIs
<1>2. q \in [1..n -> T] /\ q[n] = x /\ \A i \in 1..(n - 1) : q[i] = s[i]
  <2>1. (n - 1) + 1 = n
    BY <1>1
  <2> QED
    BY <1>1, <2>1, AppendIs
<1>3. DOMAIN s = 1..n
  OBVIOUS
<1>4. r = [i \in 1..n |-> IF i = n THEN x ELSE s[i]]
  BY <1>3
<1> HIDE DEF q, n
<1>5. \A i \in 1..n : q[i] = IF i = n THEN x ELSE s[i]
  <2>1. \A i \in 1..n : i = n \/ i \in 1..(n - 1)
    BY <1>1
  <2> QED
    BY <1>2, <2>1
<1>6. q = [i \in 1..n |-> q[i]]
  BY <1>2
<1> QED
  BY <1>4, <1>5, <1>6 DEF q

LEMMA LastPlace == ASSUME NEW T, NEW s \in Seq(T), s # << >> PROVE Len(s) \in 1..Len(s)
<1>1. Len(s) \in Nat \ {0}
  BY EmptySeq
<1> QED
  BY <1>1

(* The actions are these steps.                                             *)
LEMMA HunkBegins ==
  ASSUME NEW old \in Nat, NEW new \in Nat
  PROVE  /\ DfHunk(old, new) \in GitHunks /\ DfHunk(old, new).lines = << >>
         /\ DfHunk(old, new).old = old /\ DfHunk(old, new).new = new
BY DEF DfHunk, GitHunks

LEMMA FirstBegins ==
  ASSUME NEW form
  PROVE  \E old, new \in Nat : FirstHunk(form) = DfHunk(old, new)
BY DEF FirstHunk

LEMMA GitNewFile == ASSUME DfNewFile, WellMade(dfDiff) PROVE NewFileOf(dfDiff, dfDiff')
<1> DEFINE d == dfDiff
<1>0. d \in Seq(GitFiles) /\ DOMAIN d = 1..Len(d)
  BY DEF WellMade
<1>1. PICK p \in DfPaths, form \in GitForms :
        /\ \A i \in DOMAIN d : d[i].path # p /\ d[i].form # "snippet"
        /\ form = "snippet" => d = << >>
        /\ d' = Append(d, [path |-> p, form |-> form, hunks |-> <<FirstHunk(form)>>])
  BY DEF DfNewFile, FirstHunk, GitForms
<1> DEFINE f == [path |-> p, form |-> form, hunks |-> <<FirstHunk(form)>>]
<1>2. FirstHunk(form) \in GitHunks
  <2>1. PICK old \in Nat, new \in Nat : FirstHunk(form) = DfHunk(old, new)
    BY FirstBegins
  <2> QED
    BY <2>1, HunkBegins
<1>3. f \in GitFiles /\ f.hunks = <<FirstHunk(form)>> /\ f.form = form
  BY <1>2 DEF GitFiles
<1>4. d' = Append(d, f)
  BY <1>1
<1> HIDE DEF f
<1> QED
  BY <1>0, <1>1, <1>3, <1>4 DEF NewFileOf

(* A file with other hunks, and a hunk with other lines.                    *)
LEMMA WithHunks ==
  ASSUME NEW g \in GitFiles, NEW hs \in Seq(GitHunks)
  PROVE  /\ [g EXCEPT !.hunks = hs] \in GitFiles
         /\ [g EXCEPT !.hunks = hs].path = g.path /\ [g EXCEPT !.hunks = hs].form = g.form
         /\ [g EXCEPT !.hunks = hs].hunks = hs
<1> HIDE DEF GitHunks
<1> QED
  BY DEF GitFiles

LEMMA WithLines ==
  ASSUME NEW h \in GitHunks, NEW ls \in Seq(GitLines)
  PROVE  [h EXCEPT !.lines = ls] \in GitHunks /\ SameStart([h EXCEPT !.lines = ls], h) /\ [h EXCEPT !.lines = ls].lines = ls
<1> HIDE DEF GitLines
<1> QED
  BY DEF GitHunks, SameStart

(* The number after some lines is a number.                                 *)
LEMMA NumberAfterIs ==
  ASSUME NEW from \in Nat, NEW ls, NEW n \in Nat
  PROVE  NumberAfter(from, ls, n, OldSide) \in Nat /\ NumberAfter(from, ls, n, NewSide) \in Nat
<1> DEFINE A == {k \in 1..n : OldSide(ls[k][1])}
           B == {k \in 1..n : NewSide(ls[k][1])}
<1>1. IsFiniteSet(1..n)
  BY FS_Interval
<1>2. A \subseteq 1..n /\ B \subseteq 1..n
  OBVIOUS
<1>3. NumberAfter(from, ls, n, OldSide) = from + Cardinality(A) /\ NumberAfter(from, ls, n, NewSide) = from + Cardinality(B)
  BY DEF NumberAfter
<1> HIDE DEF A, B
<1>4. Cardinality(A) \in Nat /\ Cardinality(B) \in Nat
  BY <1>1, <1>2, FS_Subset, FS_CardinalityType
<1> QED
  BY <1>3, <1>4

LEMMA GitNewHunk == ASSUME DfNewHunk, WellMade(dfDiff) PROVE NewHunkOf(dfDiff, dfDiff')
<1> DEFINE d == dfDiff
           n == Len(d)
           k == Last(Last(d).hunks)
           old == NumberAfter(k.old, k.lines, Len(k.lines), OldSide) + DfGap
           new == NumberAfter(k.new, k.lines, Len(k.lines), NewSide) + DfGap
           h == DfHunk(old, new)
           f == [d[n] EXCEPT !.hunks = Append(@, h)]
<1>1. d # << >> /\ Last(d).form # "snippet" /\ d' = [d EXCEPT ![n] = f]
  BY DEF DfNewHunk
<1>2. d \in Seq(GitFiles) /\ Last(d) = d[n] /\ d[n] \in GitFiles /\ d[n].hunks # << >>
  <2>1. d \in Seq(GitFiles) /\ n \in 1..n
    BY <1>1, LastPlace DEF WellMade
  <2> QED
    BY <1>1, <2>1, LastIs DEF WellMade
<1>3. d[n].hunks \in Seq(GitHunks)
  BY <1>2 DEF GitFiles
<1>4. old \in Nat /\ new \in Nat
  <2>1. k \in GitHunks
    BY <1>2, <1>3, LastIs
  <2>2. k.old \in Nat /\ k.new \in Nat /\ k.lines \in Seq(GitLines)
    BY <2>1 DEF GitHunks
  <2>3. Len(k.lines) \in Nat
    BY <2>2
  <2> HIDE DEF k
  <2> QED
    BY <2>2, <2>3, NumberAfterIs, DfAssumption
<1> HIDE DEF old, new
<1>5. h \in GitHunks
  BY <1>4, HunkBegins
<1> HIDE DEF h
<1> DEFINE hs == Append(d[n].hunks, h)
<1>6. f \in GitFiles /\ f.path = d[n].path /\ f.form = d[n].form /\ f.hunks = Append(d[n].hunks, h)
  <2>1. hs \in Seq(GitHunks)
    BY <1>3, <1>5, AppendIs
  <2>2. f = [d[n] EXCEPT !.hunks = hs]
    OBVIOUS
  <2> HIDE DEF hs, n, f
  <2>3. f \in GitFiles /\ f.path = d[n].path /\ f.form = d[n].form /\ f.hunks = hs
    BY <1>2, <2>1, <2>2, WithHunks
  <2> QED
    BY <2>3 DEF hs
<1> HIDE DEF f
<1>7. d' = Append(Front(d), f)
  BY <1>1, <1>2, <1>6, ExceptLast
<1> QED
  BY <1>1, <1>2, <1>4, <1>6, <1>7 DEF NewHunkOf, h

LEMMA GitNewLine == ASSUME DfNewLine, WellMade(dfDiff) PROVE NewLineOf(dfDiff, dfDiff')
<1> DEFINE d == dfDiff
           n == Len(d)
           hs == d[n].hunks
           m == Len(hs)
<1>1. d # << >>
  BY DEF DfNewLine
<1>2. PICK sign \in {" ", "-", "+"}, words \in DfContents :
        /\ sign = "-" /\ hs[m].lines # << >> => Last(hs[m].lines)[1] # "+"
        /\ d' = [d EXCEPT ![n].hunks[m].lines = Append(@, <<sign, words>>)]
  BY DEF DfNewLine
<1> DEFINE l == <<sign, words>>
           k == [hs[m] EXCEPT !.lines = Append(@, l)]
           f == [d[n] EXCEPT !.hunks = [@ EXCEPT ![m] = k]]
<1>3. d \in Seq(GitFiles) /\ Last(d) = d[n] /\ d[n] \in GitFiles /\ n \in Nat \ {0}
  BY <1>1, LastIs DEF WellMade
<1>4. hs \in Seq(GitHunks) /\ hs # << >>
  <2>1. n \in 1..Len(d)
    BY <1>1, <1>3, LastPlace
  <2> QED
    BY <1>3, <2>1 DEF WellMade, GitFiles
<1>5. Last(hs) = hs[m] /\ hs[m] \in GitHunks /\ Front(hs) \in Seq(GitHunks)
  BY <1>4, LastIs
<1>6. l \in GitLines /\ l[1] = sign
  BY DEF GitLines, Kinds
<1>7. k \in GitHunks /\ SameStart(k, hs[m]) /\ k.lines = Append(hs[m].lines, l)
  <2>1. hs[m].lines \in Seq(GitLines)
    BY <1>5 DEF GitHunks
  <2> DEFINE ls == Append(hs[m].lines, l)
  <2>2. ls \in Seq(GitLines)
    <3> HIDE DEF l, hs, m
    <3> QED
      BY <1>6, <2>1, AppendIs
  <2>3. k = [hs[m] EXCEPT !.lines = ls]
    OBVIOUS
  <2> HIDE DEF ls, k, l, hs, m
  <2> QED
    BY <1>5, <2>2, <2>3, WithLines DEF ls
<1>8. d' = [d EXCEPT ![n] = f]
  BY <1>2
<1> DEFINE ks == [hs EXCEPT ![m] = k]
<1> HIDE DEF k
<1>9. ks = Append(Front(hs), k) /\ ks \in Seq(GitHunks)
  <2>1. ks = Append(Front(hs), k)
    <3> HIDE DEF hs
    <3> QED
      BY <1>4, <1>7, ExceptLast
  <2> HIDE DEF ks
  <2> QED
    BY <1>5, <1>7, <2>1, AppendIs
<1>10. f = [d[n] EXCEPT !.hunks = ks]
  OBVIOUS
<1> HIDE DEF ks, f, hs
<1>11. f \in GitFiles /\ f.path = d[n].path /\ f.form = d[n].form /\ f.hunks = ks
  BY <1>3, <1>9, <1>10, WithHunks
<1>12. d' = Append(Front(d), f)
  BY <1>1, <1>3, <1>8, <1>11, ExceptLast
<1>13. LineOf(Last(Last(d).hunks), k, l)
  BY <1>2, <1>3, <1>5, <1>6, <1>7 DEF LineOf, hs
<1> QED
  BY <1>1, <1>3, <1>6, <1>7, <1>9, <1>11, <1>12, <1>13 DEF NewLineOf, hs

-----------------------------------------------------------------------------
(* The lines waiting for a counterpart.                                     *)

(* A record with these fields.                                              *)
Rec(v, F) == v = [f \in F |-> v[f]]
LEMMA RecDomain == ASSUME NEW v, NEW F, Rec(v, F) PROVE DOMAIN v = F
  BY DEF Rec

(* The state of the viewer and its parts.                                   *)
Places == SUBSET Nat
ShownLines == [kind : Kinds, old : Nat, new : Nat, words : Seq(STRING), marks : Places]
HunkFields == {"lines", "additions", "deletions"}
IsHunk(v) == Rec(v, HunkFields) /\ v.lines \in Seq(ShownLines) /\ v.additions \in Nat /\ v.deletions \in Nat
StateFields == {"files", "file", "hunk", "old", "new", "removed", "added"}

(* The smaller of two numbers.                                              *)
LEMMA SmallerOfTwo == ASSUME NEW p \in Nat, NEW q \in Nat PROVE Min({p, q}) = IF p <= q THEN p ELSE q
<1> DEFINE x == IF p <= q THEN p ELSE q
<1>1. x \in {p, q} /\ \A y \in {p, q} : x <= y
  OBVIOUS
<1>2. \A z \in {p, q} : (\A y \in {p, q} : z <= y) => z = x
  OBVIOUS
<1>3. Min({p, q}) = CHOOSE z \in {p, q} : \A y \in {p, q} : z <= y
  BY DEF Min
<1> HIDE DEF x
<1>4. Min({p, q}) = x
  BY <1>1, <1>2, <1>3
<1> QED
  BY <1>4 DEF x

(* Opposite lines are marked against each other, as far as place p.         *)
PairMarked(L, a, b) ==
  /\ L[a].marks = MarkedWords(L[a].words, L[b].words, FALSE)
  /\ L[b].marks = MarkedWords(L[b].words, L[a].words, TRUE)
MarkedTo(L, p) == \A a, b \in 1..Len(L) : Opposite(L, a, b) /\ b < p => PairMarked(L, a, b)

(* The changed lines since the last unchanged one: m removed from p on, then  *)
(* n added.                                                                   *)
PendingFrom(L, rem, add, p, m, n) ==
  /\ p \in 1..(Len(L) + 1) /\ m \in Nat /\ n \in Nat /\ (p + m) + n = Len(L) + 1
  /\ Starts(L, p)
  /\ rem \in Seq(Nat) /\ Len(rem) = m /\ \A k \in 1..m : rem[k] = (p + k) - 1
  /\ add \in Seq(Nat) /\ Len(add) = n /\ \A k \in 1..n : add[k] = ((p + m) + k) - 1
  /\ \A j \in p..((p + m) - 1) : L[j].kind = "-"
  /\ \A j \in (p + m)..Len(L) : L[j].kind = "+"
  /\ MarkedTo(L, p)
(* There are such runs at the end of the hunk.                              *)
Pending(L, rem, add) == \E p, m, n : PendingFrom(L, rem, add, p, m, n)

(* What flushing makes of the lines.                                        *)
MarkOf(L, rem, add, i) ==
  LET pairs == 1..Min({Len(rem), Len(add)})
  IN IF \E k \in pairs : rem[k] = i
     THEN MarkedWords(L[i].words, L[add[CHOOSE k \in pairs : rem[k] = i]].words, FALSE)
     ELSE IF \E k \in pairs : add[k] = i
     THEN MarkedWords(L[i].words, L[rem[CHOOSE k \in pairs : add[k] = i]].words, TRUE)
     ELSE L[i].marks
MarkedLines(L, rem, add) == [i \in DOMAIN L |-> [L[i] EXCEPT !.marks = MarkOf(L, rem, add, i)]]

(* Lines that differ in their marks only.                                   *)
SameButMarks(A, B) ==
  /\ Len(A) = Len(B)
  /\ \A i \in 1..Len(A) : /\ A[i].kind = B[i].kind /\ A[i].words = B[i].words
                          /\ A[i].old = B[i].old /\ A[i].new = B[i].new

LEMMA MarksTyped ==
  ASSUME NEW words \in Seq(STRING), NEW other, NEW added
  PROVE  MarkedWords(words, other, added) \in Places
<1>1. 1..Len(words) \subseteq Nat
  OBVIOUS
<1> QED
  BY <1>1 DEF MarkedWords, Unmatched, Places

(* Flushing marks places of words.                                          *)
LEMMA MarkTyped ==
  ASSUME NEW L \in Seq(ShownLines), NEW rem, NEW add, NEW i \in 1..Len(L)
  PROVE  MarkOf(L, rem, add, i) \in Places
<1>1. L[i].words \in Seq(STRING) /\ L[i].marks \in Places
  <2> DEFINE v == L[i]
  <2>1. v \in ShownLines
    OBVIOUS
  <2> HIDE DEF v
  <2>2. v.words \in Seq(STRING) /\ v.marks \in Places
    BY <2>1 DEF ShownLines
  <2> QED
    BY <2>2 DEF v
<1>2. \A x, y : MarkedWords(L[i].words, x, y) \in Places
  BY <1>1, MarksTyped
<1> QED
  BY <1>1, <1>2 DEF MarkOf

LEMMA LineTyped ==
  ASSUME NEW v, Rec(v, {"kind", "old", "new", "words", "marks"}),
         v.kind \in Kinds, v.old \in Nat, v.new \in Nat, v.words \in Seq(STRING), v.marks \in Places
  PROVE  v \in ShownLines
BY DEF Rec, ShownLines

LEMMA WithMarks ==
  ASSUME NEW v \in ShownLines, NEW M \in Places, NEW t, t = [v EXCEPT !.marks = M]
  PROVE  /\ t \in ShownLines /\ t.marks = M
         /\ t.kind = v.kind /\ t.words = v.words /\ t.old = v.old /\ t.new = v.new
<1>1. DOMAIN v = {"kind", "old", "new", "words", "marks"} /\ v.kind \in Kinds /\ v.old \in Nat /\ v.new \in Nat /\ v.words \in Seq(STRING)
  BY DEF ShownLines
<1>2. /\ t.marks = M /\ t.kind = v.kind /\ t.words = v.words /\ t.old = v.old /\ t.new = v.new
  BY <1>1
<1>3. Rec(t, {"kind", "old", "new", "words", "marks"})
  BY <1>1 DEF Rec
<1>4. t \in ShownLines
  BY <1>1, <1>2, <1>3, LineTyped
<1> QED
  BY <1>2, <1>4

(* Flushing changes nothing but marks.                                      *)
LEMMA MarkedLinesAre ==
  ASSUME NEW L \in Seq(ShownLines), NEW rem, NEW add
  PROVE  /\ MarkedLines(L, rem, add) \in Seq(ShownLines)
         /\ SameButMarks(L, MarkedLines(L, rem, add))
         /\ \A i \in 1..Len(L) : MarkedLines(L, rem, add)[i].marks = MarkOf(L, rem, add, i)
<1> DEFINE B == MarkedLines(L, rem, add)
           n == Len(L)
<1>1. n \in Nat /\ DOMAIN L = 1..n /\ \A i \in 1..n : L[i] \in ShownLines
  OBVIOUS
<1>2. ASSUME NEW i \in 1..n
      PROVE  /\ B[i] \in ShownLines /\ B[i].kind = L[i].kind /\ B[i].words = L[i].words
             /\ B[i].old = L[i].old /\ B[i].new = L[i].new /\ B[i].marks = MarkOf(L, rem, add, i)
  <2>1. B[i] = [L[i] EXCEPT !.marks = MarkOf(L, rem, add, i)]
    BY <1>1 DEF MarkedLines
  <2>2. MarkOf(L, rem, add, i) \in Places
    BY MarkTyped
  <2> DEFINE M == MarkOf(L, rem, add, i)
             v == L[i]
  <2>3. v \in ShownLines /\ M \in Places /\ B[i] = [v EXCEPT !.marks = M]
    BY <1>1, <2>1, <2>2
  <2> HIDE DEF B, M, v
  <2>4. /\ B[i] \in ShownLines /\ B[i].kind = v.kind /\ B[i].words = v.words
        /\ B[i].old = v.old /\ B[i].new = v.new /\ B[i].marks = M
    BY <2>3, WithMarks
  <2> QED
    BY <2>4 DEF v, M
<1>3. B = [i \in 1..n |-> B[i]]
  BY <1>1 DEF MarkedLines
<1> HIDE DEF B, n
<1>4. B \in [1..n -> ShownLines]
  BY <1>2, <1>3
<1>5. B \in Seq(ShownLines) /\ Len(B) = n
  BY <1>1, <1>4, FunctionIsSeq
<1>6. SameButMarks(L, B)
  BY <1>2, <1>5 DEF SameButMarks, n
<1> QED
  BY <1>2, <1>5, <1>6 DEF B, n

(* Marks decide nothing about which lines are opposite each other.          *)
LEMMA SameOpposite ==
  ASSUME NEW A, NEW B, SameButMarks(A, B), NEW a \in 1..Len(A), NEW b \in 1..Len(A), Len(A) \in Nat
  PROVE  Opposite(A, a, b) <=> Opposite(B, a, b)
<1>1. ASSUME NEW p \in 1..Len(A), NEW m \in 1..Len(A)
      PROVE  OppositeIn(A, a, b, p, m) <=> OppositeIn(B, a, b, p, m)
  <2>1. p = 1 \/ p - 1 \in 1..Len(A)
    OBVIOUS
  <2>2. Starts(A, p) <=> Starts(B, p)
    BY <2>1 DEF Starts, SameButMarks
  <2>3. p <= a /\ a < p + m /\ b = a + m =>
          /\ \A j \in p..((p + m) - 1) : j \in 1..Len(A)
          /\ \A j \in (p + m)..b : j \in 1..Len(A)
    OBVIOUS
  <2>4. p <= a /\ a < p + m /\ b = a + m =>
          /\ \A j \in p..((p + m) - 1) : A[j].kind = B[j].kind
          /\ \A j \in (p + m)..b : A[j].kind = B[j].kind
    BY <2>3 DEF SameButMarks
  <2> QED
    BY <2>2, <2>4 DEF OppositeIn
<1>2. Len(A) = Len(B)
  BY DEF SameButMarks
<1> QED
  BY <1>1, <1>2 DEF Opposite

(* Lines opposite each other among the pending ones are those that are paired.*)
LEMMA PendingPairs ==
  ASSUME NEW L, Len(L) \in Nat, NEW rem, NEW add, NEW p, NEW m, NEW n, PendingFrom(L, rem, add, p, m, n),
         NEW a \in 1..Len(L), NEW b \in 1..Len(L), Opposite(L, a, b), ~(b < p)
  PROVE  b = a + m /\ p <= a /\ a < p + m /\ b < (p + m) + n
<1> DEFINE len == Len(L)
<1>1. p \in 1..(len + 1) /\ m \in Nat /\ n \in Nat /\ (p + m) + n = len + 1
  BY DEF PendingFrom
<1>2. PICK q, k \in 1..len : OppositeIn(L, a, b, q, k)
  BY DEF Opposite
<1>3. q <= a /\ a < q + k /\ b = a + k /\ a \in Nat /\ b \in Nat /\ q \in Nat /\ k \in Nat \ {0} /\ b <= len
  BY <1>2 DEF OppositeIn
<1>4. \A j \in q..b : L[j].kind \in {"-", "+"}
  <2> TAKE j \in q..b
  <2>1. j \in q..((q + k) - 1) \/ j \in (q + k)..b
    BY <1>3
  <2> QED
    BY <1>2, <2>1 DEF OppositeIn
<1>5. \A j \in p..len : L[j].kind \in {"-", "+"}
  <2> TAKE j \in p..len
  <2>1. j \in p..((p + m) - 1) \/ j \in (p + m)..len
    BY <1>1
  <2> QED
    BY <2>1 DEF PendingFrom
<1>6. ~(q < p)
  <2>1. ASSUME q < p PROVE FALSE
    <3>0. p # 1
      BY <1>1, <1>3, <2>1
    <3>1. L[p - 1].kind = " "
      BY <3>0 DEF PendingFrom, Starts
    <3>2. p - 1 \in q..b
      BY <1>1, <1>3, <2>1
    <3> QED
      BY <1>4, <3>1, <3>2
  <2> QED
    BY <2>1
<1>7. ~(p < q)
  <2>1. ASSUME p < q PROVE FALSE
    <3>0. q # 1
      BY <1>1, <1>3, <2>1
    <3>1. L[q - 1].kind = " "
      BY <1>2, <3>0 DEF OppositeIn, Starts
    <3>2. q - 1 \in p..len
      BY <1>1, <1>3, <2>1
    <3> QED
      BY <1>5, <3>1, <3>2
  <2> QED
    BY <2>1
<1>8. q = p
  BY <1>1, <1>3, <1>6, <1>7
<1>9. k = m
  <2>1. ASSUME k < m PROVE FALSE
    <3>1. p + k \in p..((p + m) - 1) /\ q + k \in (q + k)..b
      BY <1>1, <1>3, <1>8, <2>1
    <3>2. L[p + k].kind = "-" /\ L[q + k].kind = "+"
      BY <1>2, <3>1 DEF OppositeIn, PendingFrom
    <3> QED
      BY <1>8, <3>2
  <2>2. ASSUME m < k PROVE FALSE
    <3>1. p + m \in (p + m)..len /\ q + m \in q..((q + k) - 1)
      BY <1>1, <1>3, <1>8, <2>2
    <3>2. L[p + m].kind = "+" /\ L[q + m].kind = "-"
      BY <1>2, <3>1 DEF OppositeIn, PendingFrom
    <3> QED
      BY <1>8, <3>2
  <2> QED
    BY <1>1, <1>3, <2>1, <2>2
<1> QED
  BY <1>1, <1>3, <1>8, <1>9

(* After flushing the pending lines, all opposite lines are marked.         *)
LEMMA MarkedToAll ==
  ASSUME NEW L \in Seq(ShownLines), NEW rem, NEW add, Pending(L, rem, add)
  PROVE  MarkedTo(MarkedLines(L, rem, add), Len(L) + 1)
<1> DEFINE B == MarkedLines(L, rem, add)
           len == Len(L)
<1>1. PICK p, m, n : PendingFrom(L, rem, add, p, m, n)
  BY DEF Pending
<1> DEFINE pairs == 1..Min({m, n})
<1>2. /\ p \in 1..(len + 1) /\ p \in Nat /\ m \in Nat /\ n \in Nat /\ (p + m) + n = len + 1 /\ len \in Nat
      /\ Len(rem) = m /\ Len(add) = n
      /\ \A k \in 1..m : rem[k] = (p + k) - 1
      /\ \A k \in 1..n : add[k] = ((p + m) + k) - 1
  BY <1>1 DEF PendingFrom
<1>3. \A k : k \in pairs <=> k \in 1..m /\ k \in 1..n
  <2>1. Min({m, n}) = IF m <= n THEN m ELSE n
    BY <1>2, SmallerOfTwo
  <2> DEFINE x == Min({m, n})
  <2> HIDE DEF x
  <2>2. x = IF m <= n THEN m ELSE n
    BY <2>1 DEF x
  <2>3. \A k : k \in 1..x <=> k \in 1..m /\ k \in 1..n
    BY <1>2, <2>2
  <2> QED
    BY <2>3 DEF x
<1> HIDE DEF pairs
<1>4. \A k \in pairs : k \in Nat /\ k >= 1 /\ k <= m /\ k <= n /\ rem[k] = (p + k) - 1 /\ add[k] = ((p + m) + k) - 1
  BY <1>2, <1>3
<1>5. \A i : MarkOf(L, rem, add, i) =
        IF \E k \in pairs : rem[k] = i
        THEN MarkedWords(L[i].words, L[add[CHOOSE k \in pairs : rem[k] = i]].words, FALSE)
        ELSE IF \E k \in pairs : add[k] = i
        THEN MarkedWords(L[i].words, L[rem[CHOOSE k \in pairs : add[k] = i]].words, TRUE)
        ELSE L[i].marks
  BY <1>2 DEF MarkOf, pairs
<1>6. /\ SameButMarks(L, B) /\ Len(B) = len
      /\ \A i \in 1..len : B[i].marks = MarkOf(L, rem, add, i) /\ B[i].words = L[i].words
  BY MarkedLinesAre DEF SameButMarks
<1> HIDE DEF B
<1>7. ASSUME NEW a \in 1..len, NEW b \in 1..len, Opposite(L, a, b) PROVE PairMarked(B, a, b)
  <2>0. a \in Nat /\ b \in Nat /\ a < b
    <3>1. PICK q, k \in 1..len : OppositeIn(L, a, b, q, k)
      BY <1>7 DEF Opposite
    <3> QED
      BY <3>1 DEF OppositeIn
  <2>1. CASE b < p
    <3>1. ~(\E k \in pairs : rem[k] = a) /\ ~(\E k \in pairs : add[k] = a)
      BY <1>2, <1>4, <2>0, <2>1, SMTT(30)
    <3>2. ~(\E k \in pairs : rem[k] = b) /\ ~(\E k \in pairs : add[k] = b)
      BY <1>2, <1>4, <2>0, <2>1, SMTT(30)
    <3>3. B[a].marks = L[a].marks /\ B[b].marks = L[b].marks
      BY <1>5, <1>6, <3>1, <3>2
    <3>4. PairMarked(L, a, b)
      BY <1>1, <1>7, <2>1 DEF PendingFrom, MarkedTo
    <3> QED
      BY <1>6, <3>3, <3>4 DEF PairMarked
  <2>2. CASE ~(b < p)
    <3> DEFINE k == (a - p) + 1
    <3>1. b = a + m /\ p <= a /\ a < p + m /\ b < (p + m) + n
      BY <1>1, <1>2, <1>7, <2>2, PendingPairs, SMTT(30)
    <3>2. k \in 1..m /\ k \in 1..n /\ k \in Nat
      BY <1>2, <2>0, <3>1
    <3>3. k \in pairs /\ rem[k] = a /\ add[k] = b
      <4>1. (p + k) - 1 = a /\ ((p + m) + k) - 1 = b
        BY <1>2, <2>0, <3>1
      <4> HIDE DEF k
      <4> QED
        BY <1>3, <1>4, <3>2, <4>1
    <3> HIDE DEF k
    <3>4. \A j \in pairs : rem[j] = a => j = k
      BY <1>2, <1>4, <3>3, SMTT(30)
    <3>5. \A j \in pairs : add[j] = b => j = k
      BY <1>2, <1>4, <3>3, SMTT(30)
    <3>6. ~(\E j \in pairs : rem[j] = b)
      BY <1>2, <1>4, <3>1
    <3>7. (CHOOSE j \in pairs : rem[j] = a) = k /\ (CHOOSE j \in pairs : add[j] = b) = k
      BY <3>3, <3>4, <3>5
    <3>8. MarkOf(L, rem, add, a) = MarkedWords(L[a].words, L[b].words, FALSE)
      <4> DEFINE c == CHOOSE j \in pairs : rem[j] = a
      <4>1. \E j \in pairs : rem[j] = a
        BY <3>3
      <4>2. MarkOf(L, rem, add, a) = MarkedWords(L[a].words, L[add[c]].words, FALSE)
        BY <1>5, <4>1
      <4>3. c = k
        BY <3>7
      <4> HIDE DEF c
      <4> QED
        BY <3>3, <4>2, <4>3
    <3>9. MarkOf(L, rem, add, b) = MarkedWords(L[b].words, L[a].words, TRUE)
      <4> DEFINE c == CHOOSE j \in pairs : add[j] = b
      <4>1. \E j \in pairs : add[j] = b
        BY <3>3
      <4>2. MarkOf(L, rem, add, b) = MarkedWords(L[b].words, L[rem[c]].words, TRUE)
        BY <1>5, <3>6, <4>1
      <4>3. c = k
        BY <3>7
      <4> HIDE DEF c
      <4> QED
        BY <3>3, <4>2, <4>3
    <3> QED
      BY <1>6, <3>8, <3>9 DEF PairMarked
  <2> QED
    BY <2>1, <2>2
<1>8. ASSUME NEW a \in 1..len, NEW b \in 1..len, Opposite(B, a, b) PROVE PairMarked(B, a, b)
  <2>1. Opposite(L, a, b)
    BY <1>2, <1>6, <1>8, SameOpposite
  <2> QED
    BY <1>7, <2>1
<1>9. MarkedTo(B, len + 1)
  BY <1>6, <1>8 DEF MarkedTo
<1> QED
  BY <1>9 DEF B

-----------------------------------------------------------------------------
(* A state of the viewer, and the one after flushing it.                    *)
IsState(s) == Rec(s, StateFields)

LEMMA FlushedIs ==
  ASSUME NEW s, IsState(s), IsHunk(s.hunk)
  PROVE  /\ IsState(Flushed(s)) /\ IsHunk(Flushed(s).hunk)
         /\ Flushed(s).files = s.files /\ Flushed(s).file = s.file
         /\ Flushed(s).old = s.old /\ Flushed(s).new = s.new
         /\ Flushed(s).removed = << >> /\ Flushed(s).added = << >>
         /\ Flushed(s).hunk.additions = s.hunk.additions /\ Flushed(s).hunk.deletions = s.hunk.deletions
         /\ Flushed(s).hunk.lines = MarkedLines(s.hunk.lines, s.removed, s.added)
<1> DEFINE M == MarkedLines(s.hunk.lines, s.removed, s.added)
           t == [s EXCEPT !.hunk.lines = M, !.removed = << >>, !.added = << >>]
<1>1. Flushed(s) = t
  BY DEF Flushed, MarkedLines, MarkOf
<1>2. DOMAIN s = StateFields /\ DOMAIN s.hunk = HunkFields
  BY RecDomain DEF IsState, IsHunk
<1>3. M \in Seq(ShownLines)
  BY MarkedLinesAre DEF IsHunk
<1> HIDE DEF M
<1>4. IsState(t)
  BY <1>2 DEF IsState, Rec
<1>5. Rec(t.hunk, HunkFields)
  BY <1>2 DEF HunkFields, StateFields, Rec
<1>6. /\ t.files = s.files /\ t.file = s.file /\ t.old = s.old /\ t.new = s.new
      /\ t.removed = << >> /\ t.added = << >>
      /\ t.hunk.additions = s.hunk.additions /\ t.hunk.deletions = s.hunk.deletions /\ t.hunk.lines = M
  BY <1>2 DEF HunkFields, StateFields
<1> HIDE DEF t
<1>7. IsHunk(t.hunk)
  BY <1>3, <1>5, <1>6 DEF IsHunk
<1> QED
  BY <1>1, <1>4, <1>6, <1>7 DEF M

(* A hunk with one line more.                                               *)
Extends(L, M, v) ==
  /\ Len(L) \in Nat /\ Len(M) = Len(L) + 1 /\ M[Len(L) + 1] = v
  /\ \A i \in 1..Len(L) : M[i] = L[i]

(* A line more does not change what is opposite before it.                  *)
LEMMA OppositeBefore ==
  ASSUME NEW L, NEW M, NEW v, Extends(L, M, v), NEW a \in 1..Len(M), NEW b \in 1..Len(L), Opposite(M, a, b)
  PROVE  a \in 1..Len(L) /\ Opposite(L, a, b)
<1> DEFINE len == Len(L)
<1>1. len \in Nat /\ Len(M) = len + 1 /\ \A i \in 1..len : M[i] = L[i]
  BY DEF Extends
<1>2. PICK q, k \in 1..Len(M) : OppositeIn(M, a, b, q, k)
  BY DEF Opposite
<1>3. q <= a /\ a < q + k /\ b = a + k /\ a \in Nat /\ b \in Nat /\ q \in Nat /\ k \in Nat \ {0} /\ q >= 1 /\ b <= len
  BY <1>1, <1>2 DEF OppositeIn
<1>4. q \in 1..len /\ k \in 1..len /\ a \in 1..len
  BY <1>1, <1>3
<1>5. Starts(L, q)
  <2>1. q = 1 \/ q - 1 \in 1..len
    BY <1>1, <1>4
  <2> QED
    BY <1>1, <1>2, <2>1 DEF OppositeIn, Starts
<1>6. \A j \in q..((q + k) - 1) : j \in 1..len
  BY <1>1, <1>3
<1>7. \A j \in (q + k)..b : j \in 1..len
  BY <1>1, <1>3
<1>8. OppositeIn(L, a, b, q, k)
  BY <1>1, <1>2, <1>5, <1>6, <1>7 DEF OppositeIn
<1> QED
  BY <1>4, <1>8 DEF Opposite

LEMMA MarkedMore ==
  ASSUME NEW L, NEW M, NEW v, Extends(L, M, v), NEW p \in 1..(Len(L) + 1), MarkedTo(L, p)
  PROVE  MarkedTo(M, p)
<1> SUFFICES ASSUME NEW a \in 1..Len(M), NEW b \in 1..Len(M), Opposite(M, a, b), b < p PROVE PairMarked(M, a, b)
  BY DEF MarkedTo
<1>1. b \in 1..Len(L)
  BY DEF Extends
<1>2. a \in 1..Len(L) /\ Opposite(L, a, b)
  BY <1>1, OppositeBefore
<1>3. PairMarked(L, a, b)
  BY <1>1, <1>2 DEF MarkedTo
<1> QED
  BY <1>1, <1>2, <1>3 DEF PairMarked, Extends

(* An added line joins the pending ones.                                    *)
LEMMA PendingAdded ==
  ASSUME NEW L, NEW M, NEW v, Extends(L, M, v), NEW rem, NEW add, Pending(L, rem, add), v.kind = "+"
  PROVE  Pending(M, rem, Append(add, Len(L) + 1))
<1> DEFINE len == Len(L)
           more == Append(add, len + 1)
<1>0. len \in Nat /\ Len(M) = len + 1 /\ M[len + 1] = v /\ \A i \in 1..len : M[i] = L[i]
  BY DEF Extends
<1>1. PICK p, m, n : PendingFrom(L, rem, add, p, m, n)
  BY DEF Pending
<1>2. /\ p \in 1..(len + 1) /\ p \in Nat /\ m \in Nat /\ n \in Nat /\ (p + m) + n = len + 1
      /\ add \in Seq(Nat) /\ Len(add) = n /\ \A k \in 1..n : add[k] = ((p + m) + k) - 1
  BY <1>1 DEF PendingFrom
<1>3. more \in Seq(Nat) /\ Len(more) = n + 1 /\ more[n + 1] = len + 1 /\ \A k \in 1..n : more[k] = add[k]
  <2>1. len + 1 \in Nat
    BY <1>0
  <2> HIDE DEF len
  <2> QED
    BY <1>2, <2>1, AppendIs
<1> HIDE DEF more
<1>4. \A k \in 1..(n + 1) : more[k] = ((p + m) + k) - 1
  <2> TAKE k \in 1..(n + 1)
  <2>1. k \in 1..n \/ k = n + 1
    BY <1>2
  <2>2. len + 1 = ((p + m) + (n + 1)) - 1
    BY <1>0, <1>2
  <2> QED
    BY <1>2, <1>3, <2>1, <2>2
<1>5. \A j \in p..((p + m) - 1) : M[j].kind = "-"
  <2>1. \A j \in p..((p + m) - 1) : j \in 1..len
    BY <1>0, <1>2
  <2> QED
    BY <1>0, <1>1, <2>1 DEF PendingFrom
<1>6. \A j \in (p + m)..(len + 1) : M[j].kind = "+"
  <2> TAKE j \in (p + m)..(len + 1)
  <2>1. j = len + 1 \/ (j \in (p + m)..len /\ j \in 1..len)
    BY <1>0, <1>2
  <2> QED
    BY <1>0, <1>1, <2>1 DEF PendingFrom
<1>7. Starts(M, p)
  <2>1. p = 1 \/ p - 1 \in 1..len
    BY <1>0, <1>2
  <2> QED
    BY <1>0, <1>1, <2>1 DEF PendingFrom, Starts
<1>8. MarkedTo(M, p)
  BY <1>1, <1>2, MarkedMore DEF PendingFrom
<1>9. p \in 1..(Len(M) + 1) /\ n + 1 \in Nat /\ (p + m) + (n + 1) = Len(M) + 1
  BY <1>0, <1>2
<1>10. PendingFrom(M, rem, more, p, m, n + 1)
  BY <1>0, <1>1, <1>2, <1>3, <1>4, <1>5, <1>6, <1>7, <1>8, <1>9 DEF PendingFrom
<1> QED
  BY <1>10 DEF Pending, more

(* So does a removed line, as long as no line was added.                    *)
LEMMA PendingRemoved ==
  ASSUME NEW L, NEW M, NEW v, Extends(L, M, v), NEW rem, NEW add, Pending(L, rem, add), v.kind = "-",
         Len(L) # 0 => L[Len(L)].kind # "+"
  PROVE  Pending(M, Append(rem, Len(L) + 1), add)
<1> DEFINE len == Len(L)
           more == Append(rem, len + 1)
<1>0. len \in Nat /\ Len(M) = len + 1 /\ M[len + 1] = v /\ \A i \in 1..len : M[i] = L[i]
  BY DEF Extends
<1>1. PICK p, m, n : PendingFrom(L, rem, add, p, m, n)
  BY DEF Pending
<1>2. /\ p \in 1..(len + 1) /\ p \in Nat /\ m \in Nat /\ n \in Nat /\ (p + m) + n = len + 1
      /\ rem \in Seq(Nat) /\ Len(rem) = m /\ \A k \in 1..m : rem[k] = (p + k) - 1
      /\ add \in Seq(Nat) /\ Len(add) = n
  BY <1>1 DEF PendingFrom
<1>a. n = 0
  <2>1. ASSUME n # 0 PROVE FALSE
    <3>1. len # 0 /\ len \in (p + m)..len
      BY <1>0, <1>2, <2>1
    <3>2. L[len].kind = "+"
      BY <1>1, <3>1 DEF PendingFrom
    <3> QED
      BY <3>1, <3>2
  <2> QED
    BY <2>1
<1>3. more \in Seq(Nat) /\ Len(more) = m + 1 /\ more[m + 1] = len + 1 /\ \A k \in 1..m : more[k] = rem[k]
  <2>1. len + 1 \in Nat
    BY <1>0
  <2> HIDE DEF len
  <2> QED
    BY <1>2, <2>1, AppendIs
<1> HIDE DEF more
<1>4. \A k \in 1..(m + 1) : more[k] = (p + k) - 1
  <2> TAKE k \in 1..(m + 1)
  <2>1. k \in 1..m \/ k = m + 1
    BY <1>2
  <2>2. len + 1 = (p + (m + 1)) - 1
    BY <1>0, <1>2, <1>a
  <2> QED
    BY <1>2, <1>3, <2>1, <2>2
<1>5. \A j \in p..((p + (m + 1)) - 1) : M[j].kind = "-"
  <2> TAKE j \in p..((p + (m + 1)) - 1)
  <2>1. j = len + 1 \/ (j \in p..((p + m) - 1) /\ j \in 1..len)
    BY <1>0, <1>2, <1>a
  <2> QED
    BY <1>0, <1>1, <2>1 DEF PendingFrom
<1>6. \A j \in (p + (m + 1))..(len + 1) : M[j].kind = "+"
  BY <1>0, <1>2, <1>a
<1>7. Starts(M, p)
  <2>1. p = 1 \/ p - 1 \in 1..len
    BY <1>0, <1>2
  <2> QED
    BY <1>0, <1>1, <2>1 DEF PendingFrom, Starts
<1>8. MarkedTo(M, p)
  BY <1>1, <1>2, MarkedMore DEF PendingFrom
<1>9. p \in 1..(Len(M) + 1) /\ m + 1 \in Nat /\ (p + (m + 1)) + n = Len(M) + 1 /\ \A k \in 1..n : add[k] = ((p + (m + 1)) + k) - 1
  BY <1>0, <1>2, <1>a
<1>10. PendingFrom(M, more, add, p, m + 1, n)
  BY <1>0, <1>1, <1>2, <1>3, <1>4, <1>5, <1>6, <1>7, <1>8, <1>9 DEF PendingFrom
<1> QED
  BY <1>10 DEF Pending, more

(* In a new hunk nothing is pending.                                        *)
LEMMA PendingNone ==
  ASSUME NEW L, Len(L) \in Nat, Starts(L, Len(L) + 1), MarkedTo(L, Len(L) + 1)
  PROVE  Pending(L, << >>, << >>)
<1>1. PendingFrom(L, << >>, << >>, Len(L) + 1, 0, 0)
  BY DEF PendingFrom
<1> QED
  BY <1>1 DEF Pending

(* An unchanged line.                                                         *)
IsContext(v) == v.kind = " "

(* After an unchanged line a new run begins.                                *)
LEMMA PendingContext ==
  ASSUME NEW L, NEW M, NEW v, Extends(L, M, v), NEW p, p = Len(L) + 1, MarkedTo(L, p), IsContext(v)
  PROVE  Pending(M, << >>, << >>)
<1> DEFINE len == Len(L)
<1>0. len \in Nat /\ Len(M) = len + 1 /\ M[len + 1] = v /\ \A i \in 1..len : M[i] = L[i]
  BY DEF Extends
<1>1. MarkedTo(M, p)
  <2>1. p \in 1..(Len(L) + 1)
    BY <1>0
  <2> QED
    BY <2>1, MarkedMore
<1>2. MarkedTo(M, (len + 1) + 1)
  <2> SUFFICES ASSUME NEW a \in 1..Len(M), NEW b \in 1..Len(M), Opposite(M, a, b) PROVE PairMarked(M, a, b)
    BY DEF MarkedTo
  <2>1. b # len + 1
    <3>1. PICK q, k \in 1..Len(M) : OppositeIn(M, a, b, q, k)
      BY DEF Opposite
    <3>2. b \in (q + k)..b
      <4>1. q <= a /\ b = a + k
        BY <3>1 DEF OppositeIn
      <4> QED
        BY <4>1
    <3>3. M[b].kind = "+"
      BY <3>1, <3>2 DEF OppositeIn
    <3> QED
      BY <1>0, <3>3 DEF IsContext
  <2>2. b < p
    BY <1>0, <2>1
  <2> QED
    BY <1>1, <2>2 DEF MarkedTo
<1>3. Starts(M, (len + 1) + 1)
  <2>1. ((len + 1) + 1) - 1 = len + 1
    BY <1>0
  <2> QED
    BY <1>0, <2>1 DEF Starts, IsContext
<1> DEFINE q == Len(M) + 1
<1>4. MarkedTo(M, q) /\ Starts(M, q)
  BY <1>0, <1>2, <1>3
<1>5. Len(M) \in Nat
  BY <1>0
<1> QED
  BY <1>4, <1>5, PendingNone

-----------------------------------------------------------------------------
(* The lines of a hunk, and their numbers.                                  *)

(* How many lines of some kinds stand before a place.                       *)
Count(ls, K, i) == Cardinality({k \in 1..(i - 1) : ls[k][1] \in K})

CountsOn(ls, ms, l, K) ==
  /\ \A i \in 1..(Len(ls) + 1) : Count(ls, K, i) \in Nat /\ Count(ms, K, i) = Count(ls, K, i)
  /\ Count(ms, K, Len(ls) + 2) = Count(ls, K, Len(ls) + 1) + IF l[1] \in K THEN 1 ELSE 0

(* The counts with one line more.                                           *)
LEMMA CountMore ==
  ASSUME NEW ls, NEW ms, NEW l, Extends(ls, ms, l), NEW K
  PROVE  CountsOn(ls, ms, l, K)
<1> DEFINE n == Len(ls)
           A(i) == {k \in 1..(i - 1) : ls[k][1] \in K}
           B(i) == {k \in 1..(i - 1) : ms[k][1] \in K}
<1>1. n \in Nat /\ ms[n + 1] = l /\ \A i \in 1..n : ms[i] = ls[i]
  BY DEF Extends
<1>2. ASSUME NEW i \in 1..(n + 1) PROVE A(i) = B(i) /\ IsFiniteSet(A(i))
  <2>1. \A k \in 1..(i - 1) : k \in 1..n
    BY <1>1
  <2>2. A(i) = B(i)
    BY <1>1, <2>1
  <2>3. IsFiniteSet(1..(i - 1))
    <3>1. 1 \in Int /\ i - 1 \in Int
      BY <1>1
    <3> QED
      BY <3>1, FS_Interval
  <2>4. A(i) \subseteq 1..(i - 1)
    OBVIOUS
  <2> HIDE DEF A, B
  <2> QED
    BY <2>2, <2>3, <2>4, FS_Subset
<1>3. ASSUME NEW i \in 1..(n + 1) PROVE Cardinality(A(i)) \in Nat
  <2> HIDE DEF A
  <2> QED
    BY <1>2, FS_CardinalityType
<1>4. Cardinality(B(n + 2)) = Cardinality(A(n + 1)) + IF l[1] \in K THEN 1 ELSE 0
  <2>1. (n + 1) - 1 = n /\ (n + 2) - 1 = n + 1 /\ n + 1 \in 1..(n + 1)
    BY <1>1
  <2>2. B(n + 2) = {k \in 1..(n + 1) : ms[k][1] \in K} /\ A(n + 1) = {k \in 1..n : ls[k][1] \in K}
    BY <2>1
  <2>3. \A k : k \in 1..(n + 1) <=> k \in 1..n \/ k = n + 1
    BY <1>1
  <2>4. CASE l[1] \in K
    <3>1. B(n + 2) = A(n + 1) \cup {n + 1} /\ n + 1 \notin A(n + 1)
      <4>1. ~(n + 1 \in 1..n)
        BY <1>1
      <4> QED
        BY <1>1, <2>2, <2>3, <2>4, <4>1
    <3>2. IsFiniteSet(A(n + 1))
      BY <1>2, <2>1
    <3> HIDE DEF A, B
    <3> QED
      BY <2>4, <3>1, <3>2, FS_AddElement
  <2>5. CASE l[1] \notin K
    <3>1. B(n + 2) = A(n + 1)
      BY <1>1, <2>2, <2>3, <2>5
    <3>2. Cardinality(A(n + 1)) \in Nat
      BY <1>3, <2>1
    <3> HIDE DEF A, B
    <3> QED
      BY <2>5, <3>1, <3>2
  <2> QED
    BY <2>4, <2>5
<1>5. \A i : Count(ls, K, i) = Cardinality(A(i)) /\ Count(ms, K, i) = Cardinality(B(i))
  BY DEF Count
<1> HIDE DEF A, B
<1> QED
  BY <1>2, <1>3, <1>4, <1>5 DEF CountsOn

LEMMA AppendExtends ==
  ASSUME NEW T, NEW s \in Seq(T), NEW t \in T
  PROVE  Extends(s, Append(s, t), t)
BY AppendIs DEF Extends

(* The lines shown of git's, in order.                                        *)
ShownAs(ls, L, at) ==
  /\ Along(at, Kept(ls), 1..Len(L))
  /\ \A i \in Kept(ls) : ls[i] = <<L[at[i]].kind, L[at[i]].words>>
(* None among them is left out: then the numbers are those in the files.    *)
AllKept(ls) == Kept(ls) = 1..Len(ls)
Numbered(g, L) ==
  /\ Len(L) = Len(g.lines)
  /\ \A i \in 1..Len(L) : /\ L[i].kind \in OldKinds => L[i].old = g.old + Count(g.lines, OldKinds, i)
                          /\ L[i].kind \in NewKinds => L[i].new = g.new + Count(g.lines, NewKinds, i)
EndsAlike(ls, L) == Len(L) # 0 /\ L[Len(L)].kind = "+" => Len(ls) # 0 /\ ls[Len(ls)][1] = "+"

(* The lines of a hunk as they are shown of the lines git wrote.            *)
HunkLines(g, L) ==
  /\ L \in Seq(ShownLines)
  /\ \E at : ShownAs(g.lines, L, at)
  /\ AllKept(g.lines) => Numbered(g, L)
  /\ NoTurn(L) /\ EndsAlike(g.lines, L)

(* Of a line more, what is kept.                                            *)
LEMMA KeptMore ==
  ASSUME NEW T, NEW ls \in Seq(T), NEW l \in T
  PROVE  /\ Kept(ls) \in SUBSET (1..Len(ls))
         /\ LooksLikeHeader(l) => Kept(Append(ls, l)) = Kept(ls)
         /\ ~LooksLikeHeader(l) => Kept(Append(ls, l)) = Kept(ls) \cup {Len(ls) + 1}
<1> DEFINE n == Len(ls)
           ms == Append(ls, l)
<1>1. n \in Nat /\ ms[n + 1] = l /\ (\A i \in 1..n : ms[i] = ls[i]) /\ DOMAIN ms = 1..(n + 1) /\ DOMAIN ls = 1..n
  BY AppendIs, MoreOf
<1>2. \A k : k \in 1..(n + 1) <=> k \in 1..n \/ k = n + 1
  BY <1>1
<1> HIDE DEF ms, n
<1>3. LooksLikeHeader(l) => Kept(ms) = Kept(ls)
  BY <1>1, <1>2 DEF Kept
<1>4. ~LooksLikeHeader(l) => Kept(ms) = Kept(ls) \cup {n + 1}
  BY <1>1, <1>2 DEF Kept
<1>5. Kept(ls) \in SUBSET (1..n)
  BY <1>1 DEF Kept
<1> QED
  BY <1>3, <1>4, <1>5 DEF n, ms

(* New marks leave that as it is.                                           *)
LEMMA HunkSame ==
  ASSUME NEW g, NEW L \in Seq(ShownLines), NEW M \in Seq(ShownLines), SameButMarks(L, M), HunkLines(g, L)
  PROVE  HunkLines(g, M)
<1> DEFINE n == Len(L)
<1>1. n \in Nat /\ Len(M) = n /\ \A i \in 1..n : M[i].kind = L[i].kind /\ M[i].words = L[i].words /\ M[i].old = L[i].old /\ M[i].new = L[i].new
  BY DEF SameButMarks
<1>2. ASSUME NEW at, ShownAs(g.lines, L, at) PROVE ShownAs(g.lines, M, at)
  <2>1. \A i \in Kept(g.lines) : at[i] \in 1..n
    BY <1>2 DEF ShownAs, Along
  <2> QED
    BY <1>1, <1>2, <2>1 DEF ShownAs
<1>3. NoTurn(M)
  <2>1. \A i \in 1..(n - 1) : i \in 1..n /\ i + 1 \in 1..n
    BY <1>1
  <2> QED
    BY <1>1, <2>1 DEF HunkLines, NoTurn
<1>4. EndsAlike(g.lines, M)
  <2>1. n # 0 => n \in 1..n
    BY <1>1
  <2> QED
    BY <1>1, <2>1 DEF HunkLines, EndsAlike
<1>5. AllKept(g.lines) => Numbered(g, M)
  BY <1>1 DEF HunkLines, Numbered
<1> QED
  BY <1>2, <1>3, <1>4, <1>5 DEF HunkLines

(* A line that is left out leaves the lines as they are.                      *)
LEMMA HunkSkips ==
  ASSUME NEW g \in GitHunks, NEW k \in GitHunks, NEW l \in GitLines, LineOf(g, k, l), LooksLikeHeader(l),
         NEW L, HunkLines(g, L)
  PROVE  HunkLines(k, L) /\ ~AllKept(k.lines)
<1> DEFINE ls == g.lines
           n == Len(ls)
<1>1. ls \in Seq(GitLines) /\ n \in Nat
  BY DEF GitHunks
<1>2. k.lines = Append(ls, l)
  BY DEF LineOf
<1>3. /\ Kept(k.lines) = Kept(ls) /\ Kept(ls) \in SUBSET (1..n) /\ Len(k.lines) = n + 1
      /\ \A i \in 1..n : k.lines[i] = ls[i]
  BY <1>1, <1>2, KeptMore, AppendIs
<1> HIDE DEF ls
<1>4. ~AllKept(k.lines)
  <2>1. n + 1 \in 1..(n + 1) /\ ~(n + 1 \in 1..n)
    BY <1>1
  <2>2. n + 1 \in 1..Len(k.lines) /\ n + 1 \notin Kept(k.lines)
    BY <1>3, <2>1
  <2> QED
    BY <2>2 DEF AllKept
<1>5. \E at : ShownAs(k.lines, L, at)
  <2>1. PICK at : ShownAs(ls, L, at)
    BY DEF HunkLines, ls
  <2>2. ShownAs(k.lines, L, at)
    BY <1>3, <2>1 DEF ShownAs
  <2> QED
    BY <2>2
<1>6. EndsAlike(k.lines, L)
  <2>1. CASE l[1] = "-"
    <3>1. ls # << >> => Last(ls)[1] # "+"
      BY <2>1 DEF LineOf, ls
    <3>2. ~(n # 0 /\ ls[n][1] = "+")
      <4>1. n # 0 => ls # << >>
        OBVIOUS
      <4> QED
        BY <1>1, <3>1, <4>1, LastIs
    <3>3. ~(Len(L) # 0 /\ L[Len(L)].kind = "+")
      BY <3>2 DEF HunkLines, EndsAlike, ls
    <3> QED
      BY <3>3 DEF EndsAlike
  <2>2. CASE l[1] = "+"
    <3>1. k.lines[n + 1] = l
      BY <1>1, <1>2, AppendIs
    <3> QED
      BY <1>1, <1>3, <2>2, <3>1 DEF EndsAlike
  <2> QED
    BY <2>1, <2>2 DEF LooksLikeHeader
<1> QED
  BY <1>4, <1>5, <1>6 DEF HunkLines

(* The numbers of the next line.                                            *)
NumbersFit(g, v) ==
  /\ v.kind \in OldKinds => v.old = g.old + Count(g.lines, OldKinds, Len(g.lines) + 1)
  /\ v.kind \in NewKinds => v.new = g.new + Count(g.lines, NewKinds, Len(g.lines) + 1)

(* A line that is kept is shown behind the others.                          *)
LEMMA HunkGrows ==
  ASSUME NEW g \in GitHunks, NEW k \in GitHunks, NEW l \in GitLines, LineOf(g, k, l), ~LooksLikeHeader(l),
         NEW L, HunkLines(g, L), NEW v \in ShownLines, v.kind = l[1], v.words = l[2],
         AllKept(g.lines) => NumbersFit(g, v)
  PROVE  /\ HunkLines(k, Append(L, v)) /\ Extends(L, Append(L, v), v)
         /\ AllKept(k.lines) => AllKept(g.lines)
<1> DEFINE ls == g.lines
           n == Len(ls)
           ks == k.lines
           M == Append(L, v)
           len == Len(L)
<1>1. ls \in Seq(GitLines) /\ n \in Nat /\ L \in Seq(ShownLines) /\ len \in Nat
  BY DEF GitHunks, HunkLines
<1>2. ks = Append(ls, l)
  BY DEF LineOf
<1>3. /\ Kept(ks) = Kept(ls) \cup {n + 1} /\ Kept(ls) \in SUBSET (1..n) /\ Len(ks) = n + 1 /\ ks[n + 1] = l
      /\ \A i \in 1..n : ks[i] = ls[i]
  BY <1>1, <1>2, KeptMore, AppendIs
<1>4. M \in Seq(ShownLines) /\ Len(M) = len + 1 /\ M[len + 1] = v /\ \A i \in 1..len : M[i] = L[i]
  BY <1>1, AppendIs
<1> DEFINE cs == Append(ls, l)
<1>b. Extends(ls, cs, l)
  <2> HIDE DEF ls
  <2> QED
    BY <1>1, AppendExtends
<1>c. \A K : \A i \in 1..(n + 1) : Count(cs, K, i) = Count(ls, K, i)
  <2> HIDE DEF ls, cs
  <2>1. \A K : CountsOn(ls, cs, l, K)
    BY <1>b, CountMore
  <2> QED
    BY <2>1 DEF CountsOn
<1> HIDE DEF ls, ks, M, len, n, cs
<1>5. \E at : ShownAs(ks, M, at)
  <2>1. PICK at : ShownAs(ls, L, at)
    BY DEF HunkLines, ls
  <2> DEFINE P == Kept(ls)
             Q == 1..len
             x == n + 1
             y == len + 1
             bt == [p \in P \cup {x} |-> IF p = x THEN y ELSE at[p]]
  <2>2. P \in SUBSET Nat /\ x \in Nat /\ (\A p \in P : p < x) /\ Q \in SUBSET Nat /\ y \in Nat /\ \A q \in Q : q < y
    BY <1>1, <1>3
  <2>3. Along(at, P, Q)
    BY <2>1 DEF ShownAs, len
  <2>4. x \notin P /\ at \in [P -> Q]
    <3>1. ~(n + 1 \in 1..n)
      BY <1>1
    <3> QED
      BY <1>3, <2>3, <3>1 DEF Along
  <2>5. Along(bt, P \cup {x}, Q \cup {y})
    <3> HIDE DEF P, Q, x, y, bt
    <3>1. Along([p \in P \cup {x} |-> IF p = x THEN y ELSE at[p]], P \cup {x}, Q \cup {y})
      BY <2>2, <2>3, AlongMore
    <3> QED
      BY <3>1 DEF bt
  <2>6. Q \cup {y} = 1..Len(M) /\ P \cup {x} = Kept(ks)
    <3>1. 1..(len + 1) = 1..len \cup {len + 1}
      BY <1>1
    <3> QED
      BY <1>3, <1>4, <3>1
  <2>7. bt[x] = y /\ \A p \in P : bt[p] = at[p]
    BY <2>4
  <2>8. ASSUME NEW i \in P \cup {x} PROVE ks[i] = <<M[bt[i]].kind, M[bt[i]].words>>
    <3>1. CASE i = x
      <4>1. l = <<l[1], l[2]>>
        BY DEF GitLines
      <4>2. ks[i] = l /\ M[bt[i]] = v
        BY <1>3, <1>4, <2>7, <3>1
      <4> QED
        BY <4>1, <4>2
    <3>2. CASE i \in P
      <4>1. ls[i] = <<L[at[i]].kind, L[at[i]].words>>
        BY <2>1, <3>2 DEF ShownAs
      <4>2. at[i] \in Q
        BY <2>4, <3>2
      <4>3. M[bt[i]] = L[at[i]] /\ ks[i] = ls[i]
        BY <1>3, <1>4, <2>7, <3>2, <4>2
      <4> QED
        BY <4>1, <4>3
    <3> QED
      BY <3>1, <3>2
  <2> HIDE DEF P, Q, x, y, bt
  <2>9. ShownAs(ks, M, bt)
    BY <2>5, <2>6, <2>8 DEF ShownAs
  <2> QED
    BY <2>9
<1>6. ASSUME AllKept(ks) PROVE AllKept(ls)
  <2>1. Kept(ks) = 1..(n + 1)
    BY <1>3, <1>6 DEF AllKept
  <2>2. ~(n + 1 \in 1..n) /\ \A i \in 1..n : i \in 1..(n + 1) /\ i # n + 1
    BY <1>1
  <2>3. Kept(ls) = 1..n
    BY <1>3, <2>1, <2>2
  <2> QED
    BY <2>3 DEF AllKept, n
<1>7. ASSUME AllKept(ks) PROVE Numbered(k, M)
  <2>1. AllKept(ls) /\ SameStart(k, g)
    BY <1>6, <1>7 DEF LineOf
  <2>2. Numbered(g, L) /\ NumbersFit(g, v)
    BY <2>1 DEF HunkLines, ls
  <2>3. len = n
    BY <2>2 DEF Numbered, len, n, ls
  <2>4. ks = cs
    BY <1>2 DEF cs
  <2>5. Len(M) = Len(ks)
    BY <1>3, <1>4, <2>3
  <2>6. ASSUME NEW i \in 1..(n + 1)
        PROVE  /\ M[i].kind \in OldKinds => M[i].old = g.old + Count(ks, OldKinds, i)
               /\ M[i].kind \in NewKinds => M[i].new = g.new + Count(ks, NewKinds, i)
    <3>0. Count(ks, OldKinds, i) = Count(ls, OldKinds, i) /\ Count(ks, NewKinds, i) = Count(ls, NewKinds, i)
      BY <1>c, <2>4
    <3>1. CASE i \in 1..n
      <4>1. M[i] = L[i] /\ i \in 1..Len(L)
        BY <1>4, <2>3, <3>1 DEF len
      <4> QED
        BY <2>2, <3>0, <4>1 DEF Numbered, ls
    <3>2. CASE i = n + 1
      <4>1. M[i] = v
        BY <1>4, <2>3, <3>2
      <4> QED
        BY <2>2, <3>0, <3>2, <4>1 DEF NumbersFit, n, ls
    <3>3. i \in 1..n \/ i = n + 1
      BY <1>1
    <3> QED
      BY <3>1, <3>2, <3>3
  <2>7. Len(M) = n + 1
    BY <1>4, <2>3
  <2> QED
    BY <2>1, <2>5, <2>6, <2>7 DEF Numbered, SameStart, ks
<1>8. EndsAlike(ks, M)
  BY <1>1, <1>3, <1>4 DEF EndsAlike
<1>9. NoTurn(M)
  <2>1. ASSUME NEW i \in 1..(Len(M) - 1), M[i].kind = "+", M[i + 1].kind = "-" PROVE FALSE
    <3>1. i \in 1..len /\ (i = len \/ (i \in 1..(len - 1) /\ i + 1 \in 1..len))
      BY <1>1, <1>4
    <3>2. CASE i = len
      <4>1. l[1] = "-" /\ len # 0 /\ L[len].kind = "+"
        BY <1>4, <2>1, <3>1, <3>2
      <4>2. n # 0 /\ ls[n][1] = "+"
        BY <4>1 DEF HunkLines, EndsAlike, len, ls, n
      <4>3. ls # << >> => Last(ls)[1] # "+"
        BY <4>1 DEF LineOf, ls
      <4>4. n # 0 => ls # << >>
        BY DEF n
      <4> QED
        BY <1>1, <4>2, <4>3, <4>4, LastIs DEF n
    <3>3. CASE i # len
      <4>1. L[i].kind = "+" /\ L[i + 1].kind = "-" /\ i \in 1..(len - 1)
        BY <1>4, <2>1, <3>1, <3>3
      <4> QED
        BY <4>1 DEF HunkLines, NoTurn, len
    <3> QED
      BY <3>2, <3>3
  <2> QED
    BY <2>1 DEF NoTurn
<1>10. HunkLines(k, M)
  BY <1>4, <1>5, <1>7, <1>8, <1>9 DEF HunkLines, ks
<1>11. Extends(L, M, v)
  BY <1>1, <1>4 DEF Extends, len
<1> QED
  BY <1>6, <1>10, <1>11 DEF M, ks, ls

-----------------------------------------------------------------------------
(* One line of a hunk.                                                      *)

(* The numbers the viewer goes on with, and the hunk it reads.              *)
NumbersAt(g, old, new) ==
  /\ old = g.old + Count(g.lines, OldKinds, Len(g.lines) + 1)
  /\ new = g.new + Count(g.lines, NewKinds, Len(g.lines) + 1)

CurrentHunk(g, s) ==
  /\ IsHunk(s.hunk) /\ HunkLines(g, s.hunk.lines)
  /\ Pending(s.hunk.lines, s.removed, s.added)
  /\ s.old \in Nat /\ s.new \in Nat
  /\ AllKept(g.lines) => NumbersAt(g, s.old, s.new)

(* The numbers move by one on the sides a line is on.                       *)
Step(l, K) == IF l[1] \in K THEN 1 ELSE 0

LEMMA NumbersMove ==
  ASSUME NEW g \in GitHunks, NEW k \in GitHunks, NEW l \in GitLines, LineOf(g, k, l),
         NEW old \in Nat, NEW new \in Nat, NumbersAt(g, old, new)
  PROVE  NumbersAt(k, old + Step(l, OldKinds), new + Step(l, NewKinds))
<1> DEFINE ls == g.lines
           ks == k.lines
           n == Len(ls)
<1>1. ls \in Seq(GitLines) /\ g.old \in Nat /\ g.new \in Nat
  BY DEF GitHunks
<1>2. ks = Append(ls, l) /\ k.old = g.old /\ k.new = g.new
  BY DEF LineOf, SameStart
<1> HIDE DEF ls, ks
<1>3. Extends(ls, ks, l)
  BY <1>1, <1>2, AppendExtends
<1>4. n \in Nat /\ Len(ks) + 1 = n + 2 /\ n + 1 \in 1..(n + 1)
  BY <1>3 DEF Extends
<1>5. \A K : CountsOn(ls, ks, l, K)
  BY <1>3, CountMore
<1> DEFINE A(K) == Count(ls, K, n + 1)
           B(K) == Count(ks, K, n + 2)
<1>6. ASSUME NEW K PROVE A(K) \in Nat /\ B(K) = A(K) + Step(l, K)
  <2>1. CountsOn(ls, ks, l, K)
    BY <1>5
  <2> QED
    BY <1>4, <2>1 DEF CountsOn, Step
<1>7. old = g.old + A(OldKinds) /\ new = g.new + A(NewKinds)
  BY DEF NumbersAt, ls
<1>8. NumbersAt(k, old + Step(l, OldKinds), new + Step(l, NewKinds)) <=>
        /\ old + Step(l, OldKinds) = k.old + B(OldKinds)
        /\ new + Step(l, NewKinds) = k.new + B(NewKinds)
  BY <1>4 DEF NumbersAt, ks
<1>9. \A K : Step(l, K) \in Nat
  BY DEF Step
<1> HIDE DEF A, B
<1>10. old + Step(l, OldKinds) = k.old + B(OldKinds)
  BY <1>1, <1>2, <1>6, <1>7, <1>9
<1>11. new + Step(l, NewKinds) = k.new + B(NewKinds)
  BY <1>1, <1>2, <1>6, <1>7, <1>9
<1> QED
  BY <1>8, <1>10, <1>11

LEMMA StepsOf ==
  ASSUME NEW l
  PROVE  /\ l[1] = "+" => Step(l, OldKinds) = 0 /\ Step(l, NewKinds) = 1
         /\ l[1] = "-" => Step(l, OldKinds) = 1 /\ Step(l, NewKinds) = 0
         /\ IsContext([kind |-> l[1]]) => Step(l, OldKinds) = 1 /\ Step(l, NewKinds) = 1
<1>1. "+" \notin OldKinds /\ "+" \in NewKinds /\ "-" \in OldKinds /\ "-" \notin NewKinds
  BY DEF OldKinds, NewKinds
<1>2. IsContext([kind |-> l[1]]) => l[1] \in OldKinds /\ l[1] \in NewKinds
  BY DEF IsContext, OldKinds, NewKinds
<1> QED
  BY <1>1, <1>2 DEF Step

LEMMA GitLineIs ==
  ASSUME NEW l \in GitLines
  PROVE  l[1] \in Kinds /\ l[2] \in Seq(STRING) /\ l = <<l[1], l[2]>>
<1>1. l[1] \in Kinds /\ l[2] \in DfContents /\ l = <<l[1], l[2]>>
  BY DEF GitLines
<1> QED
  BY <1>1, DfAssumption

LEMMA ShownLineIs ==
  ASSUME NEW kind \in Kinds, NEW old \in Nat, NEW new \in Nat, NEW words \in Seq(STRING)
  PROVE  /\ ShownLine(kind, old, new, words) \in ShownLines
         /\ ShownLine(kind, old, new, words).kind = kind /\ ShownLine(kind, old, new, words).words = words
         /\ ShownLine(kind, old, new, words).old = old /\ ShownLine(kind, old, new, words).new = new
<1> DEFINE v == ShownLine(kind, old, new, words)
<1>1. v.kind = kind /\ v.old = old /\ v.new = new /\ v.words = words /\ v.marks = {}
  BY DEF ShownLine
<1>2. Rec(v, {"kind", "old", "new", "words", "marks"})
  BY DEF ShownLine, Rec
<1>3. {} \in Places
  BY DEF Places
<1> HIDE DEF v
<1>4. v \in ShownLines
  BY <1>1, <1>2, <1>3, LineTyped
<1> QED
  BY <1>1, <1>4 DEF v

(* What the three operations on a line leave and change.                    *)
LEMMA AddedLineIs ==
  ASSUME NEW s, IsState(s), IsHunk(s.hunk), s.old \in Nat, s.new \in Nat, NEW w \in Seq(STRING),
         NEW t, t = AddedLine(s, w), NEW v, v = ShownLine("+", 0, s.new, w)
  PROVE  /\ IsState(t) /\ IsHunk(t.hunk) /\ t.files = s.files /\ t.file = s.file
         /\ t.old = s.old /\ t.new = s.new + 1
         /\ t.removed = s.removed /\ t.added = Append(s.added, Len(s.hunk.lines) + 1)
         /\ t.hunk.lines = Append(s.hunk.lines, v)
         /\ t.hunk.additions = s.hunk.additions + 1 /\ t.hunk.deletions = s.hunk.deletions
<1> DEFINE u == [s EXCEPT !.added = Append(@, Len(s.hunk.lines) + 1), !.hunk.lines = Append(@, v),
                          !.hunk.additions = @ + 1, !.new = @ + 1]
<1>0. t = u
  BY DEF AddedLine
<1>1. DOMAIN s = StateFields /\ DOMAIN s.hunk = HunkFields
  BY RecDomain DEF IsState, IsHunk
<1>2. IsState(u)
  BY <1>1 DEF IsState, Rec
<1>3. Rec(u.hunk, HunkFields)
  BY <1>1 DEF HunkFields, StateFields, Rec
<1>4. /\ u.files = s.files /\ u.file = s.file /\ u.old = s.old /\ u.new = s.new + 1
      /\ u.removed = s.removed /\ u.added = Append(s.added, Len(s.hunk.lines) + 1)
      /\ u.hunk.lines = Append(s.hunk.lines, v)
      /\ u.hunk.additions = s.hunk.additions + 1 /\ u.hunk.deletions = s.hunk.deletions
  BY <1>1 DEF HunkFields, StateFields
<1> HIDE DEF u
<1>5. v \in ShownLines
  <2>1. "+" \in Kinds
    BY DEF Kinds
  <2> QED
    BY <2>1, ShownLineIs
<1>6. u.hunk.lines \in Seq(ShownLines) /\ u.hunk.additions \in Nat /\ u.hunk.deletions \in Nat
  BY <1>4, <1>5, SMTT(30) DEF IsHunk
<1>7. IsHunk(u.hunk)
  BY <1>3, <1>6 DEF IsHunk
<1> QED
  BY <1>0, <1>2, <1>4, <1>7

LEMMA RemovedLineIs ==
  ASSUME NEW s, IsState(s), IsHunk(s.hunk), s.old \in Nat, s.new \in Nat, NEW w \in Seq(STRING),
         NEW t, t = RemovedLine(s, w), NEW v, v = ShownLine("-", s.old, 0, w)
  PROVE  /\ IsState(t) /\ IsHunk(t.hunk) /\ t.files = s.files /\ t.file = s.file
         /\ t.old = s.old + 1 /\ t.new = s.new
         /\ t.removed = Append(s.removed, Len(s.hunk.lines) + 1) /\ t.added = s.added
         /\ t.hunk.lines = Append(s.hunk.lines, v)
         /\ t.hunk.additions = s.hunk.additions /\ t.hunk.deletions = s.hunk.deletions + 1
<1> DEFINE u == [s EXCEPT !.removed = Append(@, Len(s.hunk.lines) + 1), !.hunk.lines = Append(@, v),
                          !.hunk.deletions = @ + 1, !.old = @ + 1]
<1>0. t = u
  BY DEF RemovedLine
<1>1. DOMAIN s = StateFields /\ DOMAIN s.hunk = HunkFields
  BY RecDomain DEF IsState, IsHunk
<1>2. IsState(u)
  BY <1>1 DEF IsState, Rec
<1>3. Rec(u.hunk, HunkFields)
  BY <1>1 DEF HunkFields, StateFields, Rec
<1>4. /\ u.files = s.files /\ u.file = s.file /\ u.new = s.new /\ u.old = s.old + 1
      /\ u.added = s.added /\ u.removed = Append(s.removed, Len(s.hunk.lines) + 1)
      /\ u.hunk.lines = Append(s.hunk.lines, v)
      /\ u.hunk.deletions = s.hunk.deletions + 1 /\ u.hunk.additions = s.hunk.additions
  BY <1>1 DEF HunkFields, StateFields
<1> HIDE DEF u
<1>5. v \in ShownLines
  <2>1. "-" \in Kinds
    BY DEF Kinds
  <2> QED
    BY <2>1, ShownLineIs
<1>6. u.hunk.lines \in Seq(ShownLines) /\ u.hunk.additions \in Nat /\ u.hunk.deletions \in Nat
  BY <1>4, <1>5 DEF IsHunk
<1>7. IsHunk(u.hunk)
  BY <1>3, <1>6 DEF IsHunk
<1> QED
  BY <1>0, <1>2, <1>4, <1>7

LEMMA ContextLineIs ==
  ASSUME NEW s, IsState(s), IsHunk(s.hunk), s.old \in Nat, s.new \in Nat, NEW w \in Seq(STRING),
         NEW t, t = ContextLine(s, w)
  PROVE  \E v \in ShownLines :
         /\ v.words = w /\ IsContext(v) /\ v.old = s.old /\ v.new = s.new
         /\ IsState(t) /\ IsHunk(t.hunk) /\ t.files = s.files /\ t.file = s.file
         /\ t.old = s.old + 1 /\ t.new = s.new + 1
         /\ t.removed = << >> /\ t.added = << >>
         /\ t.hunk.lines = Append(MarkedLines(s.hunk.lines, s.removed, s.added), v)
         /\ t.hunk.additions = s.hunk.additions /\ t.hunk.deletions = s.hunk.deletions
<1> DEFINE v == ShownLine(" ", s.old, s.new, w)
           f == Flushed(s)
           u == [f EXCEPT !.hunk.lines = Append(@, v), !.old = @ + 1, !.new = @ + 1]
           M == MarkedLines(s.hunk.lines, s.removed, s.added)
<1>0. t = u
  BY DEF ContextLine
<1>5. v \in ShownLines /\ v.words = w /\ v.old = s.old /\ v.new = s.new /\ IsContext(v)
  <2>1. " " \in Kinds
    BY DEF Kinds
  <2> DEFINE kind == " "
  <2>2. kind \in Kinds /\ v = ShownLine(kind, s.old, s.new, w)
    BY <2>1
  <2> HIDE DEF kind, v
  <2>3. v \in ShownLines /\ v.words = w /\ v.old = s.old /\ v.new = s.new /\ v.kind = kind
    BY <2>2, ShownLineIs
  <2> QED
    BY <2>3 DEF IsContext, kind
<1>a. /\ IsState(f) /\ IsHunk(f.hunk) /\ f.files = s.files /\ f.file = s.file /\ f.old = s.old /\ f.new = s.new
      /\ f.removed = << >> /\ f.added = << >>
      /\ f.hunk.additions = s.hunk.additions /\ f.hunk.deletions = s.hunk.deletions /\ f.hunk.lines = M
  BY FlushedIs
<1> HIDE DEF v, f, M
<1>1. DOMAIN f = StateFields /\ DOMAIN f.hunk = HunkFields
  BY <1>a, RecDomain DEF IsState, IsHunk
<1>2. IsState(u)
  BY <1>1 DEF IsState, Rec
<1>3. Rec(u.hunk, HunkFields)
  BY <1>1 DEF HunkFields, StateFields, Rec
<1>4. /\ u.files = f.files /\ u.file = f.file /\ u.old = f.old + 1 /\ u.new = f.new + 1
      /\ u.removed = f.removed /\ u.added = f.added
      /\ u.hunk.lines = Append(f.hunk.lines, v)
      /\ u.hunk.additions = f.hunk.additions /\ u.hunk.deletions = f.hunk.deletions
  BY <1>1 DEF HunkFields, StateFields
<1> HIDE DEF u
<1>6. u.hunk.lines \in Seq(ShownLines) /\ u.hunk.additions \in Nat /\ u.hunk.deletions \in Nat
  BY <1>a, <1>4, <1>5 DEF IsHunk
<1>7. IsHunk(u.hunk)
  BY <1>3, <1>6 DEF IsHunk
<1> QED
  BY <1>0, <1>a, <1>2, <1>4, <1>5, <1>7 DEF M

(* One line of git's more has been read into the hunk.                        *)
ReadInto(k, l, s, t) ==
  /\ IsState(t) /\ CurrentHunk(k, t) /\ t.files = s.files /\ t.file = s.file
  /\ t.hunk.additions = s.hunk.additions + (IF l[1] = "+" /\ ~LooksLikeHeader(l) THEN 1 ELSE 0)
  /\ t.hunk.deletions = s.hunk.deletions + (IF l[1] = "-" /\ ~LooksLikeHeader(l) THEN 1 ELSE 0)

(* A line read into the hunk: one left out, an added line, a removed one,   *)
(* an unchanged one.                                                        *)
LEMMA ReadSkipped ==
  ASSUME NEW g \in GitHunks, NEW k \in GitHunks, NEW l \in GitLines, LineOf(g, k, l), LooksLikeHeader(l),
         NEW s, IsState(s), CurrentHunk(g, s)
  PROVE  ReadInto(k, l, s, s)
<1>1. HunkLines(k, s.hunk.lines) /\ ~AllKept(k.lines)
  BY HunkSkips DEF CurrentHunk
<1>2. CurrentHunk(k, s)
  BY <1>1 DEF CurrentHunk
<1>3. s.hunk.additions \in Nat /\ s.hunk.deletions \in Nat
  BY DEF CurrentHunk, IsHunk
<1> QED
  BY <1>2, <1>3 DEF ReadInto

LEMMA ReadAdded ==
  ASSUME NEW g \in GitHunks, NEW k \in GitHunks, NEW l \in GitLines, LineOf(g, k, l), l[1] = "+", ~LooksLikeHeader(l),
         NEW s, IsState(s), CurrentHunk(g, s), NEW t, t = AddedLine(s, l[2])
  PROVE  ReadInto(k, l, s, t)
<1> DEFINE w == l[2]
           L == s.hunk.lines
           M == t.hunk.lines
           v == ShownLine("+", 0, s.new, w)
<1>1. w \in Seq(STRING) /\ IsHunk(s.hunk) /\ s.old \in Nat /\ s.new \in Nat
  BY GitLineIs DEF CurrentHunk
<1>2. v \in ShownLines /\ v.kind = "+" /\ v.words = w /\ v.new = s.new
  <2>1. "+" \in Kinds
    BY DEF Kinds
  <2> QED
    BY <1>1, <2>1, ShownLineIs
<1>3. /\ IsState(t) /\ IsHunk(t.hunk) /\ t.files = s.files /\ t.file = s.file
      /\ t.old = s.old /\ t.new = s.new + 1
      /\ t.removed = s.removed /\ t.added = Append(s.added, Len(L) + 1)
      /\ M = Append(L, v)
      /\ t.hunk.additions = s.hunk.additions + 1 /\ t.hunk.deletions = s.hunk.deletions
  <2>1. t = AddedLine(s, w) /\ v = ShownLine("+", 0, s.new, w)
    OBVIOUS
  <2> HIDE DEF v, w
  <2> QED
    BY <1>1, <2>1, AddedLineIs, SMTT(30)
<1>5. v.kind \notin OldKinds /\ Step(l, OldKinds) = 0 /\ Step(l, NewKinds) = 1
  BY <1>2, StepsOf DEF OldKinds
<1> HIDE DEF v
<1>6. AllKept(g.lines) => NumbersFit(g, v)
  BY <1>2, <1>5 DEF CurrentHunk, NumbersAt, NumbersFit
<1>7. /\ HunkLines(k, M) /\ Extends(L, M, v)
      /\ AllKept(k.lines) => AllKept(g.lines)
  <2>1. HunkLines(g, L)
    BY DEF CurrentHunk
  <2> HIDE DEF L, M
  <2> QED
    BY <1>2, <1>3, <1>6, <2>1, HunkGrows
<1>8. Pending(M, t.removed, t.added)
  <2>1. Pending(L, s.removed, s.added)
    BY DEF CurrentHunk
  <2> HIDE DEF L, M
  <2>2. Pending(M, s.removed, Append(s.added, Len(L) + 1))
    BY <1>2, <1>7, <2>1, PendingAdded
  <2> QED
    BY <1>3, <2>2
<1>9. AllKept(k.lines) => NumbersAt(k, t.old, t.new)
  <2>1. ASSUME AllKept(k.lines) PROVE NumbersAt(k, t.old, t.new)
    <3>1. NumbersAt(g, s.old, s.new)
      BY <1>7, <2>1 DEF CurrentHunk
    <3>2. NumbersAt(k, s.old + Step(l, OldKinds), s.new + Step(l, NewKinds))
      BY <1>1, <3>1, NumbersMove
    <3>3. t.old = s.old + Step(l, OldKinds) /\ t.new = s.new + Step(l, NewKinds)
      BY <1>1, <1>3, <1>5
    <3> QED
      BY <3>2, <3>3
  <2> QED
    BY <2>1
<1>10. t.old \in Nat /\ t.new \in Nat /\ s.hunk.deletions \in Nat
  BY <1>1, <1>3 DEF IsHunk
<1>11. CurrentHunk(k, t)
  BY <1>3, <1>7, <1>8, <1>9, <1>10 DEF CurrentHunk
<1> QED
  BY <1>3, <1>10, <1>11 DEF ReadInto

LEMMA ReadRemoved ==
  ASSUME NEW g \in GitHunks, NEW k \in GitHunks, NEW l \in GitLines, LineOf(g, k, l), l[1] = "-", ~LooksLikeHeader(l),
         NEW s, IsState(s), CurrentHunk(g, s), NEW t, t = RemovedLine(s, l[2])
  PROVE  ReadInto(k, l, s, t)
<1> DEFINE w == l[2]
           L == s.hunk.lines
           M == t.hunk.lines
           v == ShownLine("-", s.old, 0, w)
<1>1. w \in Seq(STRING) /\ IsHunk(s.hunk) /\ s.old \in Nat /\ s.new \in Nat
  BY GitLineIs DEF CurrentHunk
<1>2. v \in ShownLines /\ v.kind = "-" /\ v.words = w /\ v.old = s.old
  <2>1. "-" \in Kinds
    BY DEF Kinds
  <2> QED
    BY <1>1, <2>1, ShownLineIs
<1>3. /\ IsState(t) /\ IsHunk(t.hunk) /\ t.files = s.files /\ t.file = s.file
      /\ t.old = s.old + 1 /\ t.new = s.new
      /\ t.removed = Append(s.removed, Len(L) + 1) /\ t.added = s.added
      /\ M = Append(L, v)
      /\ t.hunk.additions = s.hunk.additions /\ t.hunk.deletions = s.hunk.deletions + 1
  <2>1. t = RemovedLine(s, w) /\ v = ShownLine("-", s.old, 0, w)
    OBVIOUS
  <2> HIDE DEF v, w
  <2> QED
    BY <1>1, <2>1, RemovedLineIs, SMTT(30)
<1>5. v.kind \notin NewKinds /\ Step(l, OldKinds) = 1 /\ Step(l, NewKinds) = 0
  BY <1>2, StepsOf DEF NewKinds
<1> HIDE DEF v
<1>6. AllKept(g.lines) => NumbersFit(g, v)
  BY <1>2, <1>5 DEF CurrentHunk, NumbersAt, NumbersFit
<1>7. /\ HunkLines(k, M) /\ Extends(L, M, v)
      /\ AllKept(k.lines) => AllKept(g.lines)
  <2>1. HunkLines(g, L)
    BY DEF CurrentHunk
  <2> HIDE DEF L, M
  <2> QED
    BY <1>2, <1>3, <1>6, <2>1, HunkGrows
<1>a. Len(L) # 0 => L[Len(L)].kind # "+"
  <2> DEFINE ls == g.lines
             n == Len(ls)
  <2>1. ls \in Seq(GitLines) /\ EndsAlike(ls, L)
    BY DEF GitHunks, CurrentHunk, HunkLines
  <2>2. ls # << >> => Last(ls)[1] # "+"
    BY DEF LineOf
  <2>3. ~(n # 0 /\ ls[n][1] = "+")
    <3>1. n # 0 => ls # << >>
      OBVIOUS
    <3> HIDE DEF ls
    <3> QED
      BY <2>1, <2>2, <3>1, LastIs
  <2> HIDE DEF ls, L
  <2> QED
    BY <2>1, <2>3 DEF EndsAlike
<1>8. Pending(M, t.removed, t.added)
  <2>1. Pending(L, s.removed, s.added)
    BY DEF CurrentHunk
  <2> HIDE DEF L, M
  <2>2. Pending(M, Append(s.removed, Len(L) + 1), s.added)
    BY <1>2, <1>7, <1>a, <2>1, PendingRemoved
  <2> QED
    BY <1>3, <2>2
<1>9. AllKept(k.lines) => NumbersAt(k, t.old, t.new)
  <2>1. ASSUME AllKept(k.lines) PROVE NumbersAt(k, t.old, t.new)
    <3>1. NumbersAt(g, s.old, s.new)
      BY <1>7, <2>1 DEF CurrentHunk
    <3>2. NumbersAt(k, s.old + Step(l, OldKinds), s.new + Step(l, NewKinds))
      BY <1>1, <3>1, NumbersMove
    <3>3. t.old = s.old + Step(l, OldKinds) /\ t.new = s.new + Step(l, NewKinds)
      BY <1>1, <1>3, <1>5
    <3> QED
      BY <3>2, <3>3
  <2> QED
    BY <2>1
<1>10. t.old \in Nat /\ t.new \in Nat /\ s.hunk.additions \in Nat
  BY <1>1, <1>3 DEF IsHunk
<1>11. CurrentHunk(k, t)
  BY <1>3, <1>7, <1>8, <1>9, <1>10 DEF CurrentHunk
<1> QED
  BY <1>3, <1>10, <1>11 DEF ReadInto

(* The first character of an unchanged line.                                  *)
Unchanged(l) == l[1] \notin {"-", "+"}

LEMMA ReadContext ==
  ASSUME NEW g \in GitHunks, NEW k \in GitHunks, NEW l \in GitLines, LineOf(g, k, l), Unchanged(l),
         NEW s, IsState(s), CurrentHunk(g, s), NEW t, t = ContextLine(s, l[2])
  PROVE  ReadInto(k, l, s, t)
<1> DEFINE w == l[2]
           L == s.hunk.lines
           B == MarkedLines(L, s.removed, s.added)
           M == t.hunk.lines
<1>1. w \in Seq(STRING) /\ IsHunk(s.hunk) /\ s.old \in Nat /\ s.new \in Nat /\ L \in Seq(ShownLines)
  BY GitLineIs DEF CurrentHunk, IsHunk
<1>2. PICK v \in ShownLines :
      /\ v.words = w /\ IsContext(v) /\ v.old = s.old /\ v.new = s.new
      /\ IsState(t) /\ IsHunk(t.hunk) /\ t.files = s.files /\ t.file = s.file
      /\ t.old = s.old + 1 /\ t.new = s.new + 1
      /\ t.removed = << >> /\ t.added = << >>
      /\ M = Append(B, v)
      /\ t.hunk.additions = s.hunk.additions /\ t.hunk.deletions = s.hunk.deletions
  <2>1. t = ContextLine(s, w)
    OBVIOUS
  <2> HIDE DEF w
  <2> QED
    BY <1>1, <2>1, ContextLineIs, SMTT(30)
<1>3. IsContext([kind |-> l[1]]) /\ v.kind = l[1] /\ l[1] # "+" /\ l[1] # "-"
  <2>1. l[1] \in Kinds /\ v.kind = " "
    BY <1>2, GitLineIs DEF IsContext
  <2> QED
    <3>1. l[1] = " "
      BY <2>1 DEF Kinds, Unchanged
    <3>2. l[1] # "+" /\ l[1] # "-"
      BY DEF Unchanged
    <3>3. [kind |-> l[1]].kind = l[1]
      OBVIOUS
    <3>4. IsContext([kind |-> l[1]])
      BY <3>1, <3>3 DEF IsContext
    <3>5. v.kind = l[1]
      BY <2>1, <3>1
    <3> QED
      BY <3>2, <3>4, <3>5
<1>4. ~LooksLikeHeader(l)
  BY <1>3 DEF LooksLikeHeader
<1>5. Step(l, OldKinds) = 1 /\ Step(l, NewKinds) = 1
  BY <1>3, StepsOf
<1>6. AllKept(g.lines) => NumbersFit(g, v)
  BY <1>2 DEF CurrentHunk, NumbersAt, NumbersFit
<1>b. /\ B \in Seq(ShownLines) /\ SameButMarks(L, B) /\ Len(B) = Len(L) /\ HunkLines(g, B)
      /\ MarkedTo(B, Len(L) + 1)
  <2>1. HunkLines(g, L) /\ Pending(L, s.removed, s.added)
    BY DEF CurrentHunk
  <2>2. B \in Seq(ShownLines) /\ SameButMarks(L, B)
    BY <1>1, MarkedLinesAre
  <2>3. MarkedTo(B, Len(L) + 1)
    BY <1>1, <2>1, MarkedToAll
  <2> HIDE DEF B, L
  <2> QED
    BY <1>1, <2>1, <2>2, <2>3, HunkSame DEF SameButMarks
<1>7. /\ HunkLines(k, M) /\ Extends(B, M, v)
      /\ AllKept(k.lines) => AllKept(g.lines)
  <2> HIDE DEF B, M
  <2> QED
    BY <1>2, <1>3, <1>4, <1>6, <1>b, HunkGrows
<1>8. Pending(M, t.removed, t.added)
  <2> DEFINE p == Len(B) + 1
  <2>1. MarkedTo(B, p)
    BY <1>b
  <2> HIDE DEF B, M
  <2>2. Pending(M, << >>, << >>)
    BY <1>2, <1>7, <2>1, PendingContext
  <2> QED
    BY <1>2, <2>2
<1>9. AllKept(k.lines) => NumbersAt(k, t.old, t.new)
  <2>1. ASSUME AllKept(k.lines) PROVE NumbersAt(k, t.old, t.new)
    <3>1. NumbersAt(g, s.old, s.new)
      BY <1>7, <2>1 DEF CurrentHunk
    <3>2. NumbersAt(k, s.old + Step(l, OldKinds), s.new + Step(l, NewKinds))
      BY <1>1, <3>1, NumbersMove
    <3>3. t.old = s.old + Step(l, OldKinds) /\ t.new = s.new + Step(l, NewKinds)
      BY <1>1, <1>2, <1>5
    <3> QED
      BY <3>2, <3>3
  <2> QED
    BY <2>1
<1>10. t.old \in Nat /\ t.new \in Nat /\ s.hunk.additions \in Nat /\ s.hunk.deletions \in Nat
  BY <1>1, <1>2 DEF IsHunk
<1>11. CurrentHunk(k, t)
  BY <1>2, <1>7, <1>8, <1>9, <1>10 DEF CurrentHunk
<1> QED
  BY <1>2, <1>3, <1>10, <1>11 DEF ReadInto

(* A hunk is not the missing one.                                           *)
LEMMA HunkIsNot == ASSUME NEW v, IsHunk(v) PROVE v # NoHunk
<1>1. DOMAIN v = HunkFields
  BY RecDomain DEF IsHunk
<1>2. DOMAIN NoHunk = {"lines"}
  BY DEF NoHunk
<1> QED
  BY <1>1, <1>2 DEF HunkFields

(* Which operation a line of a hunk calls for.                              *)
LEMMA ViewSkipped ==
  ASSUME NEW s, s.file # NoDfFile, s.hunk # NoHunk, NEW l, LooksLikeHeader(l)
  PROVE  ViewLine(s, l) = s
<1>1. Begins(l) \in {"---", "+++", "-", "+"}
  BY DEF Begins, ReadsAsHeader, LooksLikeHeader
<1>2. CASE Begins(l) \in {"---", "+++"}
  <2>1. Begins(l) # "diff"
    BY <1>2
  <2> QED
    BY <1>2, <2>1 DEF ViewLine, InFile
<1>3. CASE Begins(l) \in {"-", "+"}
  <2>1. Begins(l) \notin {"diff", "@@", " "} /\ Begins(l) \notin {"---", "+++"}
    BY <1>3
  <2> QED
    BY <1>3, <2>1 DEF ViewLine
<1> QED
  BY <1>1, <1>2, <1>3

LEMMA ViewAdded ==
  ASSUME NEW s, s.hunk # NoHunk, NEW l, l[1] = "+", ~LooksLikeHeader(l)
  PROVE  ViewLine(s, l) = AddedLine(s, l[2])
<1>1. Begins(l) = "+"
  BY DEF Begins, ReadsAsHeader
<1> QED
  BY <1>1 DEF ViewLine

LEMMA ViewRemoved ==
  ASSUME NEW s, s.hunk # NoHunk, NEW l, l[1] = "-", ~LooksLikeHeader(l)
  PROVE  ViewLine(s, l) = RemovedLine(s, l[2])
<1>1. Begins(l) = "-"
  BY DEF Begins, ReadsAsHeader
<1> QED
  BY <1>1 DEF ViewLine

LEMMA ViewContext ==
  ASSUME NEW s, s.hunk # NoHunk, NEW l \in GitLines, Unchanged(l)
  PROVE  ViewLine(s, l) = ContextLine(s, l[2])
<1>0. l[1] = " "
  BY GitLineIs DEF Unchanged, Kinds
<1>1. Begins(l) = " "
  BY <1>0 DEF Begins, ReadsAsHeader, LooksLikeHeader
<1> QED
  BY <1>1 DEF ViewLine

(* Whatever line git writes, it is read into the hunk.                      *)
LEMMA LineRead ==
  ASSUME NEW g \in GitHunks, NEW k \in GitHunks, NEW l \in GitLines, LineOf(g, k, l),
         NEW s, IsState(s), CurrentHunk(g, s), s.file # NoDfFile
  PROVE  ReadInto(k, l, s, ViewLine(s, l))
<1>1. s.hunk # NoHunk
  BY HunkIsNot DEF CurrentHunk
<1>2. CASE LooksLikeHeader(l)
  BY <1>1, <1>2, ReadSkipped, ViewSkipped
<1>3. CASE l[1] = "+" /\ ~LooksLikeHeader(l)
  BY <1>1, <1>3, ReadAdded, ViewAdded
<1>4. CASE l[1] = "-" /\ ~LooksLikeHeader(l)
  BY <1>1, <1>4, ReadRemoved, ViewRemoved
<1>5. CASE Unchanged(l)
  BY <1>1, <1>5, ReadContext, ViewContext
<1>6. LooksLikeHeader(l) \/ (l[1] \in {"-", "+"} /\ ~LooksLikeHeader(l)) \/ Unchanged(l)
  BY DEF Unchanged
<1> QED
  BY <1>2, <1>3, <1>4, <1>5, <1>6

-----------------------------------------------------------------------------
(* A hunk, and a file, that have been read to their end.                      *)
HunkSet == [lines : Seq(ShownLines), additions : Nat, deletions : Nat]
FileFields == {"path", "hunks", "additions", "deletions"}
FilePaths == {ShownPath(p) : p \in DfPaths}
FileSet == [path : FilePaths, hunks : Seq(HunkSet), additions : Nat, deletions : Nat]
IsFile(v) == /\ Rec(v, FileFields) /\ v.path \in FilePaths /\ v.hunks \in Seq(HunkSet)
             /\ v.additions \in Nat /\ v.deletions \in Nat

HunkMatches(g, v) == v \in HunkSet /\ HunkLines(g, v.lines) /\ MarkedTo(v.lines, Len(v.lines) + 1)
(* The hunks and files read are those of git.                               *)
HunksMatch(gs, vs) ==
  /\ vs \in Seq(HunkSet) /\ Len(vs) = Len(gs)
  /\ \A h \in 1..Len(gs) : HunkMatches(gs[h], vs[h])
FileMatches(f, v) == v \in FileSet /\ v.path = ShownPath(f.path) /\ HunksMatch(f.hunks, v.hunks)

LEMMA HunkTyped == ASSUME NEW v, IsHunk(v) PROVE v \in HunkSet
BY DEF IsHunk, Rec, HunkFields, HunkSet

LEMMA FileTyped == ASSUME NEW v, IsFile(v) PROVE v \in FileSet
BY DEF IsFile, Rec, FileFields, FileSet

LEMMA FileIsNot == ASSUME NEW v, IsFile(v) PROVE v # NoDfFile
<1>1. DOMAIN v = FileFields
  BY RecDomain DEF IsFile
<1>2. DOMAIN NoDfFile = {"path"}
  BY DEF NoDfFile
<1> QED
  BY <1>1, <1>2 DEF FileFields

(* A hunk that has been flushed matches.                                    *)
LEMMA Matched ==
  ASSUME NEW gs \in Seq(GitHunks), NEW g \in GitHunks, NEW vs, HunksMatch(gs, vs), NEW v, HunkMatches(g, v)
  PROVE  HunksMatch(Append(gs, g), Append(vs, v))
<1> DEFINE n == Len(gs)
<1>1. n \in Nat /\ Len(Append(gs, g)) = n + 1 /\ Append(gs, g)[n + 1] = g /\ \A i \in 1..n : Append(gs, g)[i] = gs[i]
  BY AppendIs
<1>2. vs \in Seq(HunkSet) /\ v \in HunkSet /\ Len(vs) = n
  BY DEF HunksMatch, HunkMatches
<1>3. Append(vs, v) \in Seq(HunkSet) /\ Len(Append(vs, v)) = n + 1 /\ Append(vs, v)[n + 1] = v /\ \A i \in 1..n : Append(vs, v)[i] = vs[i]
  BY <1>2, AppendIs
<1>4. \A i \in 1..(n + 1) : i \in 1..n \/ i = n + 1
  BY <1>1
<1> DEFINE A == Append(gs, g)
           B == Append(vs, v)
<1>5. ASSUME NEW i \in 1..(n + 1) PROVE HunkMatches(A[i], B[i])
  <2>1. CASE i \in 1..n
    BY <1>1, <1>3, <2>1 DEF HunksMatch
  <2>2. CASE i = n + 1
    BY <1>1, <1>3, <2>2
  <2> QED
    BY <1>4, <2>1, <2>2
<1> HIDE DEF A, B
<1>6. HunksMatch(A, B)
  BY <1>1, <1>3, <1>5 DEF HunksMatch, A, B
<1> QED
  BY <1>6 DEF A, B

(* The end of a hunk.                                                         *)
EndsHunk(s, t) ==
  /\ IsState(t) /\ t.hunk = NoHunk /\ t.removed = << >> /\ t.added = << >> /\ t.files = s.files
  /\ IsFile(t.file) /\ t.file.path = s.file.path
  /\ t.file.additions = s.file.additions + s.hunk.additions
  /\ t.file.deletions = s.file.deletions + s.hunk.deletions

(* HunkDone ends the hunk.                                                  *)
LEMMA HunkDoneIs ==
  ASSUME NEW gs \in Seq(GitHunks), gs # << >>,
         NEW s, IsState(s), CurrentHunk(Last(gs), s), IsFile(s.file), HunksMatch(Front(gs), s.file.hunks)
  PROVE  EndsHunk(s, HunkDone(s)) /\ HunksMatch(gs, HunkDone(s).file.hunks)
<1> DEFINE f == Flushed(s)
           L == s.hunk.lines
           M == MarkedLines(L, s.removed, s.added)
           t == [f EXCEPT !.file.hunks = Append(@, f.hunk),
                          !.file.additions = @ + f.hunk.additions,
                          !.file.deletions = @ + f.hunk.deletions,
                          !.hunk = NoHunk]
<1>1. s.hunk # NoHunk /\ IsHunk(s.hunk)
  BY HunkIsNot DEF CurrentHunk
<1>2. HunkDone(s) = t
  BY <1>1 DEF HunkDone, HunkAdded
<1>3. /\ IsState(f) /\ IsHunk(f.hunk) /\ f.files = s.files /\ f.file = s.file
      /\ f.removed = << >> /\ f.added = << >>
      /\ f.hunk.additions = s.hunk.additions /\ f.hunk.deletions = s.hunk.deletions /\ f.hunk.lines = M
  BY <1>1, FlushedIs
<1> HIDE DEF f
<1>4. DOMAIN f = StateFields /\ DOMAIN f.file = FileFields
  BY <1>3, RecDomain DEF IsState, IsFile
<1>5. IsState(t)
  BY <1>4 DEF IsState, Rec
<1>6. Rec(t.file, FileFields)
  BY <1>4 DEF FileFields, StateFields, Rec
<1>7. /\ t.files = f.files /\ t.hunk = NoHunk /\ t.removed = f.removed /\ t.added = f.added
      /\ t.file.path = f.file.path /\ t.file.hunks = Append(f.file.hunks, f.hunk)
      /\ t.file.additions = f.file.additions + f.hunk.additions
      /\ t.file.deletions = f.file.deletions + f.hunk.deletions
  BY <1>4 DEF FileFields, StateFields
<1> HIDE DEF t
<1>8. HunkMatches(Last(gs), f.hunk)
  <2>1. HunkLines(Last(gs), L) /\ Pending(L, s.removed, s.added) /\ L \in Seq(ShownLines)
    BY <1>1 DEF CurrentHunk, IsHunk
  <2>2. M \in Seq(ShownLines) /\ SameButMarks(L, M)
    BY <2>1, MarkedLinesAre
  <2>3. MarkedTo(M, Len(L) + 1)
    BY <2>1, MarkedToAll
  <2>4. HunkLines(Last(gs), M)
    <3> HIDE DEF L, M
    <3> QED
      BY <2>1, <2>2, HunkSame
  <2>5. f.hunk \in HunkSet
    BY <1>3, HunkTyped
  <2>6. Len(M) = Len(L)
    BY <2>2 DEF SameButMarks
  <2> HIDE DEF L, M
  <2> QED
    BY <1>3, <2>3, <2>4, <2>5, <2>6 DEF HunkMatches
<1>9. HunksMatch(gs, t.file.hunks)
  <2>1. Front(gs) \in Seq(GitHunks) /\ Last(gs) \in GitHunks /\ gs = Append(Front(gs), Last(gs))
    BY LastIs
  <2>2. HunksMatch(Append(Front(gs), Last(gs)), Append(s.file.hunks, f.hunk))
    BY <1>8, <2>1, Matched
  <2> QED
    BY <1>3, <1>7, <2>1, <2>2
<1>10. IsFile(t.file)
  <2>1. t.file.hunks \in Seq(HunkSet)
    BY <1>9 DEF HunksMatch
  <2> QED
    BY <1>3, <1>6, <1>7, <2>1 DEF IsFile, IsHunk
<1>11. EndsHunk(s, t)
  BY <1>3, <1>5, <1>7, <1>10 DEF EndsHunk
<1> QED
  BY <1>2, <1>9, <1>11

(* A hunk that has just been announced.                                       *)
Announce(s, old, new) == [s EXCEPT !.hunk = FreshHunk, !.old = old, !.new = new]

Announced(g, s, t) ==
  /\ IsState(t) /\ CurrentHunk(g, t) /\ t.files = s.files /\ t.file = s.file
  /\ t.hunk.additions = 0 /\ t.hunk.deletions = 0

LEMMA FreshHunkIs == IsHunk(FreshHunk) /\ FreshHunk.lines = << >> /\ FreshHunk.additions = 0 /\ FreshHunk.deletions = 0
BY DEF IsHunk, Rec, FreshHunk, HunkFields

(* A new hunk has the lines git has written of it: none.                    *)
LEMMA NoLinesYet ==
  ASSUME NEW g, g.lines = << >>
  PROVE  HunkLines(g, << >>) /\ Pending(<< >>, << >>, << >>)
         /\ \A K : Count(g.lines, K, Len(g.lines) + 1) = 0
<1> DEFINE E == << >>
<1>1. Len(E) = 0 /\ E \in Seq(ShownLines) /\ DOMAIN E = {} /\ 1..0 = {} /\ 1..(0 - 1) = {}
  OBVIOUS
<1>2. Kept(E) = {}
  BY <1>1 DEF Kept
<1> DEFINE at == [x \in {} |-> x]
<1>3. Along(at, {}, {})
  BY DEF Along
<1> HIDE DEF E, at
<1>4. ShownAs(E, E, at)
  BY <1>1, <1>2, <1>3 DEF ShownAs
<1>7. g.lines = E
  BY DEF E
<1>5. Numbered(g, E)
  BY <1>1, <1>7 DEF Numbered
<1>6. NoTurn(E) /\ EndsAlike(E, E)
  BY <1>1 DEF NoTurn, EndsAlike
<1>8. HunkLines(g, E)
  BY <1>1, <1>4, <1>5, <1>6, <1>7 DEF HunkLines
<1>9. MarkedTo(E, Len(E) + 1) /\ Starts(E, Len(E) + 1) /\ Len(E) \in Nat
  BY <1>1 DEF MarkedTo, Starts
<1>10. Pending(E, << >>, << >>)
  BY <1>9, PendingNone
<1>11. ASSUME NEW K PROVE Count(E, K, Len(E) + 1) = 0
  <2>1. Len(E) + 1 = 1 /\ 1..(1 - 1) = {}
    BY <1>1
  <2>2. {k \in 1..(1 - 1) : E[k][1] \in K} = {}
    BY <2>1
  <2>3. Count(E, K, 1) = Cardinality({})
    BY <2>2 DEF Count
  <2> QED
    BY <2>1, <2>3, FS_EmptySet
<1> QED
  BY <1>7, <1>8, <1>10, <1>11 DEF E

(* The hunk announced is the one being read.                                *)
LEMMA AnnouncedIs ==
  ASSUME NEW old \in Nat, NEW new \in Nat, NEW s, IsState(s), s.removed = << >>, s.added = << >>,
         NEW t, t = Announce(s, old, new)
  PROVE  Announced(DfHunk(old, new), s, t)
<1> DEFINE g == DfHunk(old, new)
           u == [s EXCEPT !.hunk = FreshHunk, !.old = old, !.new = new]
<1>1. DOMAIN s = StateFields
  BY RecDomain DEF IsState
<1>2. IsState(u)
  BY <1>1 DEF IsState, Rec
<1>3. /\ u.files = s.files /\ u.file = s.file /\ u.hunk = FreshHunk /\ u.old = old /\ u.new = new
      /\ u.removed = << >> /\ u.added = << >>
  BY <1>1 DEF StateFields
<1>4. g.old = old /\ g.new = new /\ g.lines = << >>
  BY HunkBegins
<1> HIDE DEF u, g
<1>5. HunkLines(g, << >>) /\ Pending(<< >>, << >>, << >>) /\ \A K : Count(g.lines, K, Len(g.lines) + 1) = 0
  BY <1>4, NoLinesYet
<1>6. NumbersAt(g, old, new)
  BY <1>4, <1>5 DEF NumbersAt
<1>7. CurrentHunk(g, u)
  BY <1>3, <1>5, <1>6, FreshHunkIs DEF CurrentHunk
<1>8. Announced(g, s, u)
  BY <1>2, <1>3, <1>7, FreshHunkIs DEF Announced
<1> QED
  BY <1>8 DEF u, g, Announce

(* The line that announces it.                                              *)
LEMMA ViewHunkLine ==
  ASSUME NEW s, NEW old, NEW new, NEW l, l = <<"@@", old, new>>, HunkDone(s).file # NoDfFile
  PROVE  ViewLine(s, l) = Announce(HunkDone(s), old, new)
<1>1. Begins(l) = "@@" /\ l[2] = old /\ l[3] = new
  BY DEF Begins, ReadsAsHeader, LooksLikeHeader
<1> QED
  BY <1>1 DEF ViewLine, HunkHeader, InFile, Announce

(* The parts of a sequence that has grown.                                  *)
LEMMA FrontLast ==
  ASSUME NEW T, NEW s \in Seq(T), NEW x \in T
  PROVE  Front(Append(s, x)) = s /\ Last(Append(s, x)) = x /\ Append(s, x) # << >> /\ Append(s, x) \in Seq(T)
<1> DEFINE e == Append(s, x)
           n == Len(s)
<1>1. n \in Nat /\ e \in Seq(T) /\ Len(e) = n + 1 /\ e[n + 1] = x /\ \A i \in 1..n : e[i] = s[i]
  BY AppendIs
<1>2. e # << >> /\ (n + 1) - 1 = n
  BY <1>1
<1> HIDE DEF e
<1>3. Front(e) \in Seq(T) /\ Len(Front(e)) = n /\ Last(e) = x /\ \A i \in 1..n : Front(e)[i] = e[i]
  <2>1. Front(e) \in Seq(T) /\ Len(Front(e)) = Len(e) - 1 /\ Last(e) = e[Len(e)] /\ \A i \in 1..(Len(e) - 1) : Front(e)[i] = e[i]
    BY <1>1, <1>2, LastIs
  <2> QED
    BY <1>1, <1>2, <2>1
<1>4. Front(e) = s
  <2>1. DOMAIN Front(e) = 1..n /\ DOMAIN s = 1..n /\ Front(e) = [i \in 1..n |-> Front(e)[i]] /\ s = [i \in 1..n |-> s[i]]
    BY <1>3
  <2>2. \A i \in 1..n : Front(e)[i] = s[i]
    BY <1>1, <1>3
  <2> QED
    BY <2>1, <2>2
<1> QED
  BY <1>1, <1>2, <1>3, <1>4 DEF e

(* The files read, and the one being read.                                  *)
FilesMatch(d, vs) ==
  /\ vs \in Seq(FileSet) /\ Len(vs) = Len(d)
  /\ \A i \in 1..Len(d) : FileMatches(d[i], vs[i])

CurrentFile(f, s) ==
  /\ IsFile(s.file) /\ s.file.path = ShownPath(f.path)
  /\ HunksMatch(Front(f.hunks), s.file.hunks)
  /\ CurrentHunk(Last(f.hunks), s)

(* What has been read of the diff.                                            *)
ViewOf(d, s) ==
  /\ IsState(s)
  /\ d = << >> => s = DfNothing
  /\ d # << >> => FilesMatch(Front(d), s.files) /\ CurrentFile(Last(d), s)

(* Between two files.                                                         *)
Between(d, s) ==
  /\ IsState(s) /\ s.file = NoDfFile /\ s.hunk = NoHunk /\ s.removed = << >> /\ s.added = << >>
  /\ FilesMatch(d, s.files)

(* One file more.                                                           *)
LEMMA FilesMore ==
  ASSUME NEW d \in Seq(GitFiles), NEW f \in GitFiles, NEW vs, FilesMatch(d, vs), NEW v, FileMatches(f, v)
  PROVE  FilesMatch(Append(d, f), Append(vs, v))
<1> DEFINE n == Len(d)
           A == Append(d, f)
           B == Append(vs, v)
<1>1. n \in Nat /\ Len(A) = n + 1 /\ A[n + 1] = f /\ \A i \in 1..n : A[i] = d[i]
  BY AppendIs
<1>2. vs \in Seq(FileSet) /\ v \in FileSet /\ Len(vs) = n
  BY DEF FilesMatch, FileMatches
<1>3. B \in Seq(FileSet) /\ Len(B) = n + 1 /\ B[n + 1] = v /\ \A i \in 1..n : B[i] = vs[i]
  BY <1>2, AppendIs
<1>4. \A i \in 1..(n + 1) : i \in 1..n \/ i = n + 1
  BY <1>1
<1>5. ASSUME NEW i \in 1..(n + 1) PROVE FileMatches(A[i], B[i])
  <2>1. CASE i \in 1..n
    BY <1>1, <1>3, <2>1 DEF FilesMatch
  <2>2. CASE i = n + 1
    BY <1>1, <1>3, <2>2
  <2> QED
    BY <1>4, <2>1, <2>2
<1> HIDE DEF A, B
<1>6. FilesMatch(A, B)
  BY <1>1, <1>3, <1>5 DEF FilesMatch
<1> QED
  BY <1>6 DEF A, B

(* The end of a file: v is what was made of it.                               *)
FileEnds(s, t, v) ==
  /\ t.files = Append(s.files, v) /\ v.path = s.file.path
  /\ v.additions = s.file.additions + s.hunk.additions
  /\ v.deletions = s.file.deletions + s.hunk.deletions

(* FileDone ends the file being read.                                       *)
LEMMA FileDoneIs ==
  ASSUME NEW d \in Seq(GitFiles), d # << >>, Last(d).hunks # << >>, NEW s, ViewOf(d, s)
  PROVE  Between(d, FileDone(s)) /\ \E v : FileEnds(s, FileDone(s), v)
<1> DEFINE u == HunkDone(s)
           f == Last(d)
           t == [u EXCEPT !.files = Append(@, u.file), !.file = NoDfFile]
           gs == f.hunks
<1>1. f \in GitFiles /\ Front(d) \in Seq(GitFiles) /\ d = Append(Front(d), f)
  BY LastIs
<1>2. gs \in Seq(GitHunks) /\ gs # << >>
  BY <1>1 DEF GitFiles
<1>3. /\ IsState(s) /\ FilesMatch(Front(d), s.files) /\ IsFile(s.file) /\ s.file.path = ShownPath(f.path)
      /\ HunksMatch(Front(gs), s.file.hunks) /\ CurrentHunk(Last(gs), s)
  BY DEF ViewOf, CurrentFile
<1>4. EndsHunk(s, u) /\ HunksMatch(gs, u.file.hunks)
  <2> HIDE DEF gs
  <2> QED
    BY <1>2, <1>3, HunkDoneIs
<1> HIDE DEF u
<1>5. /\ IsState(u) /\ u.hunk = NoHunk /\ u.removed = << >> /\ u.added = << >> /\ u.files = s.files
      /\ IsFile(u.file) /\ u.file.path = s.file.path
      /\ u.file.additions = s.file.additions + s.hunk.additions
      /\ u.file.deletions = s.file.deletions + s.hunk.deletions
  BY <1>4 DEF EndsHunk
<1>6. FileDone(s) = t
  <2>1. u.file # NoDfFile
    BY <1>5, FileIsNot
  <2> QED
    BY <2>1 DEF FileDone, FileAdded, u
<1>7. DOMAIN u = StateFields
  BY <1>5, RecDomain DEF IsState
<1>8. IsState(t)
  BY <1>7 DEF IsState, Rec
<1>9. /\ t.files = Append(u.files, u.file) /\ t.file = NoDfFile /\ t.hunk = u.hunk
      /\ t.removed = u.removed /\ t.added = u.added
  BY <1>7 DEF StateFields
<1> HIDE DEF t
<1>10. FileMatches(f, u.file)
  BY <1>3, <1>4, <1>5, FileTyped DEF FileMatches
<1>11. FilesMatch(d, t.files)
  <2>1. FilesMatch(Append(Front(d), f), Append(s.files, u.file))
    BY <1>1, <1>3, <1>10, FilesMore
  <2> QED
    BY <1>1, <1>5, <1>9, <2>1
<1>12. Between(d, t)
  BY <1>5, <1>8, <1>9, <1>11 DEF Between
<1>13. FileEnds(s, t, u.file)
  BY <1>5, <1>9 DEF FileEnds
<1> QED
  BY <1>6, <1>12, <1>13

(* Before the first file there is nothing to end.                           *)
LEMMA NothingDone == FileDone(DfNothing) = DfNothing /\ Between(<< >>, DfNothing) /\ IsState(DfNothing)
<1>1. /\ DfNothing.files = << >> /\ DfNothing.file = NoDfFile /\ DfNothing.hunk = NoHunk
      /\ DfNothing.removed = << >> /\ DfNothing.added = << >>
  BY DEF DfNothing
<1>2. IsState(DfNothing)
  BY DEF IsState, Rec, DfNothing, StateFields
<1>3. FilesMatch(<< >>, << >>)
  BY DEF FilesMatch
<1> QED
  BY <1>1, <1>2, <1>3 DEF FileDone, HunkDone, FileAdded, Between

-----------------------------------------------------------------------------
(* The header of a file.                                                    *)

(* A file that begins: its header, then its first hunk.                       *)
LEMMA OpenedIs ==
  ASSUME NEW s, IsState(s), s.hunk = NoHunk, s.removed = << >>, s.added = << >>,
         NEW p,
         NEW a, a = [s EXCEPT !.file = FreshFile(p)]
  PROVE  /\ IsState(a) /\ HunkDone(a) = a /\ a.files = s.files /\ a.file = FreshFile(p)
         /\ a.removed = << >> /\ a.added = << >>
<1> DEFINE b == [s EXCEPT !.file = FreshFile(p)]
<1>1. DOMAIN s = StateFields
  BY RecDomain DEF IsState
<1>2. IsState(b)
  BY <1>1 DEF IsState, Rec
<1>3. b.files = s.files /\ b.file = FreshFile(p) /\ b.hunk = s.hunk /\ b.removed = s.removed /\ b.added = s.added
  BY <1>1 DEF StateFields
<1> HIDE DEF b
<1>4. HunkDone(b) = b
  BY <1>3 DEF HunkDone
<1> QED
  BY <1>2, <1>3, <1>4 DEF b

LEMMA FreshFileIs ==
  ASSUME NEW p \in FilePaths
  PROVE  /\ IsFile(FreshFile(p)) /\ FreshFile(p) # NoDfFile /\ FreshFile(p).path = p /\ FreshFile(p).hunks = << >>
         /\ FreshFile(p).additions = 0 /\ FreshFile(p).deletions = 0
<1>1. /\ FreshFile(p).path = p /\ FreshFile(p).hunks = << >>
      /\ FreshFile(p).additions = 0 /\ FreshFile(p).deletions = 0
  BY DEF FreshFile
<1>2. Rec(FreshFile(p), FileFields)
  BY DEF Rec, FreshFile, FileFields
<1>3. IsFile(FreshFile(p))
  BY <1>1, <1>2 DEF IsFile
<1> QED
  BY <1>1, <1>3, FileIsNot

Opened(s, p) == [FileDone(s) EXCEPT !.file = FreshFile(p)]

(* The lines of a header, one by one.                                       *)
LEMMA HeaderOpens == ASSUME NEW s, NEW p PROVE ViewLine(s, <<"diff", p>>) = Opened(s, ShownPath(p))
<1> DEFINE l == <<"diff", p>>
<1>1. Begins(l) = "diff" /\ l[2] = p
  BY DEF Begins, ReadsAsHeader, LooksLikeHeader
<1> HIDE DEF l
<1>2. ViewLine(s, l) = Opened(s, ShownPath(p))
  BY <1>1 DEF ViewLine, Opened
<1> QED
  BY <1>2 DEF l

LEMMA IndexRead == ASSUME NEW a PROVE ViewLine(a, <<"index">>) = a
<1> DEFINE l == <<"index">>
<1>1. Begins(l) = "index"
  BY DEF Begins, ReadsAsHeader, LooksLikeHeader
<1> HIDE DEF l
<1>2. ViewLine(a, l) = a
  BY <1>1 DEF ViewLine
<1> QED
  BY <1>2 DEF l

LEMMA SidesRead ==
  ASSUME NEW a, a.file # NoDfFile, NEW p
  PROVE  ViewLine(a, <<"---", p>>) = a /\ ViewLine(a, <<"+++", p>>) = a
<1> DEFINE l == <<"---", p>>
           m == <<"+++", p>>
<1>1. Begins(l) = "---" /\ Begins(m) = "+++"
  BY DEF Begins, ReadsAsHeader, LooksLikeHeader
<1> HIDE DEF l, m
<1>2. ViewLine(a, l) = a /\ ViewLine(a, m) = a
  BY <1>1 DEF ViewLine, InFile
<1> QED
  BY <1>2 DEF l, m

(* The summary of the same lines.                                             *)
LEMMA HeaderSummed ==
  ASSUME NEW r, NEW p, NEW q, q # NullPath, NEW from, NEW to
  PROVE  /\ SummaryLine(r, <<"diff", p>>) = r /\ SummaryLine(r, <<"index">>) = r
         /\ SummaryLine(r, <<"---", p>>) = r /\ SummaryLine(r, <<"@@", from, to>>) = r
         /\ SummaryLine(r, <<"+++", q>>) = InSummary(SummaryDone(r), SummaryFile(SummedPath(q)))
<1>1. SummaryLine(r, <<"diff", p>>) = r
  <2> DEFINE l == <<"diff", p>>
  <2>1. Begins(l) = "diff" /\ l[1] = "diff"
    BY DEF Begins, ReadsAsHeader, LooksLikeHeader
  <2> HIDE DEF l
  <2>2. SummaryLine(r, l) = r
    BY <2>1 DEF SummaryLine
  <2> QED
    BY <2>2 DEF l
<1>2. SummaryLine(r, <<"index">>) = r
  <2> DEFINE l == <<"index">>
  <2>1. Begins(l) = "index" /\ l[1] = "index"
    BY DEF Begins, ReadsAsHeader, LooksLikeHeader
  <2> HIDE DEF l
  <2>2. SummaryLine(r, l) = r
    BY <2>1 DEF SummaryLine
  <2> QED
    BY <2>2 DEF l
<1>3. SummaryLine(r, <<"---", p>>) = r
  <2> DEFINE l == <<"---", p>>
  <2>1. Begins(l) = "---" /\ l[1] = "---"
    BY DEF Begins, ReadsAsHeader, LooksLikeHeader
  <2> HIDE DEF l
  <2>2. SummaryLine(r, l) = r
    BY <2>1 DEF SummaryLine
  <2> QED
    BY <2>2 DEF l
<1>4. SummaryLine(r, <<"@@", from, to>>) = r
  <2> DEFINE l == <<"@@", from, to>>
  <2>1. Begins(l) = "@@" /\ l[1] = "@@"
    BY DEF Begins, ReadsAsHeader, LooksLikeHeader
  <2> HIDE DEF l
  <2>2. SummaryLine(r, l) = r
    BY <2>1 DEF SummaryLine
  <2> QED
    BY <2>2 DEF l
<1>5. SummaryLine(r, <<"+++", q>>) = InSummary(SummaryDone(r), SummaryFile(SummedPath(q)))
  <2> DEFINE l == <<"+++", q>>
  <2>1. Begins(l) = "+++" /\ l[1] = "+++" /\ l[2] = q
    BY DEF Begins, ReadsAsHeader, LooksLikeHeader
  <2> HIDE DEF l
  <2>3. NamesPath(l) /\ NamedPath(l) = SummedPath(q)
    BY <2>1 DEF NamesPath, NamedPath, ReadsAsHeader, LooksLikeHeader
  <2>2. SummaryLine(r, l) = InSummary(SummaryDone(r), SummaryFile(SummedPath(q)))
    BY <2>1, <2>3 DEF SummaryLine
  <2> QED
    BY <2>2 DEF l
<1> QED
  BY <1>1, <1>2, <1>3, <1>4, <1>5

(* Five lines more.                                                         *)
LEMMA FiveMore ==
  ASSUME NEW W, NEW t \in Seq(W), NEW a \in W, NEW b \in W, NEW c \in W, NEW d \in W, NEW e \in W
  PROVE  t \o <<a, b, c, d, e>> = Append(Append(Append(Append(Append(t, a), b), c), d), e)
OBVIOUS

(* Five lines read one after the other.                                       *)
LEMMA ViewFive ==
  ASSUME NEW W, NEW t \in Seq(W), NEW a \in W, NEW b \in W, NEW c \in W, NEW d \in W, NEW e \in W,
         NEW v1, v1 = ViewLine(Viewed(t), a), NEW v2, v2 = ViewLine(v1, b), NEW v3, v3 = ViewLine(v2, c),
         NEW v4, v4 = ViewLine(v3, d), NEW v5, v5 = ViewLine(v4, e)
  PROVE  Viewed(t \o <<a, b, c, d, e>>) = v5
<1> DEFINE t1 == Append(t, a)
           t2 == Append(t1, b)
           t3 == Append(t2, c)
           t4 == Append(t3, d)
           t5 == Append(t4, e)
<1>1. t \o <<a, b, c, d, e>> = t5
  BY FiveMore
<1>2. t1 \in Seq(W)
  OBVIOUS
<1> HIDE DEF t1
<1>3. t2 \in Seq(W)
  BY <1>2
<1> HIDE DEF t2
<1>4. t3 \in Seq(W)
  BY <1>3
<1> HIDE DEF t3
<1>5. t4 \in Seq(W)
  BY <1>4
<1> HIDE DEF t4
<1>6. Viewed(t1) = v1
  BY ViewedMore DEF t1
<1>7. Viewed(t2) = v2
  BY <1>2, <1>6, ViewedMore DEF t2
<1>8. Viewed(t3) = v3
  BY <1>3, <1>7, ViewedMore DEF t3
<1>9. Viewed(t4) = v4
  BY <1>4, <1>8, ViewedMore DEF t4
<1>10. Viewed(t5) = v5
  BY <1>5, <1>9, ViewedMore DEF t5
<1> QED
  BY <1>1, <1>10

LEMMA SumFive ==
  ASSUME NEW W, NEW t \in Seq(W), NEW a \in W, NEW b \in W, NEW c \in W, NEW d \in W, NEW e \in W,
         NEW v1, v1 = SummaryLine(Summed(t), a), NEW v2, v2 = SummaryLine(v1, b), NEW v3, v3 = SummaryLine(v2, c),
         NEW v4, v4 = SummaryLine(v3, d), NEW v5, v5 = SummaryLine(v4, e)
  PROVE  Summed(t \o <<a, b, c, d, e>>) = v5
<1> DEFINE t1 == Append(t, a)
           t2 == Append(t1, b)
           t3 == Append(t2, c)
           t4 == Append(t3, d)
           t5 == Append(t4, e)
<1>1. t \o <<a, b, c, d, e>> = t5
  BY FiveMore
<1>2. t1 \in Seq(W)
  OBVIOUS
<1> HIDE DEF t1
<1>3. t2 \in Seq(W)
  BY <1>2
<1> HIDE DEF t2
<1>4. t3 \in Seq(W)
  BY <1>3
<1> HIDE DEF t3
<1>5. t4 \in Seq(W)
  BY <1>4
<1> HIDE DEF t4
<1>6. Summed(t1) = v1
  BY SummedMore DEF t1
<1>7. Summed(t2) = v2
  BY <1>2, <1>6, SummedMore DEF t2
<1>8. Summed(t3) = v3
  BY <1>3, <1>7, SummedMore DEF t3
<1>9. Summed(t4) = v4
  BY <1>4, <1>8, SummedMore DEF t4
<1>10. Summed(t5) = v5
  BY <1>5, <1>9, SummedMore DEF t5
<1> QED
  BY <1>1, <1>10

LEMMA FourAndOne ==
  ASSUME NEW W, NEW a \in W, NEW b \in W, NEW c \in W, NEW d \in W, NEW e \in W
  PROVE  <<a, b, c, d>> \o <<e>> = <<a, b, c, d, e>>
<1> DEFINE p == <<a, b, c, d>>
<1>1. p \in Seq(W) /\ Len(p) = 4 /\ p[1] = a /\ p[2] = b /\ p[3] = c /\ p[4] = d
  OBVIOUS
<1> DEFINE q == <<a, b, c, d, e>>
<1>2. q \in Seq(W) /\ Len(q) = 5 /\ q[1] = a /\ q[2] = b /\ q[3] = c /\ q[4] = d /\ q[5] = e
  OBVIOUS
<1>3. p \o <<e>> = Append(p, e)
  <2> HIDE DEF p
  <2> QED
    BY <1>1
<1> HIDE DEF p, q
<1>4. Append(p, e) \in [1..5 -> W] /\ Append(p, e)[5] = e /\ \A i \in 1..4 : Append(p, e)[i] = p[i]
  <2> QED
    <3>1. Append(p, e) \in [1..(Len(p) + 1) -> W] /\ Append(p, e)[Len(p) + 1] = e /\ \A i \in 1..Len(p) : Append(p, e)[i] = p[i]
      <4>1. p \in Seq(W)
        BY <1>1
      <4> QED
        BY <4>1, AppendIs
    <3>2. Len(p) + 1 = 5 /\ Len(p) = 4
      BY <1>1
    <3> QED
      BY <3>1, <3>2
<1>5. q \in [1..5 -> W] /\ \A i \in 1..5 : Append(p, e)[i] = q[i]
  <2>1. \A i \in 1..5 : i = 1 \/ i = 2 \/ i = 3 \/ i = 4 \/ i = 5
    OBVIOUS
  <2>2. 1 \in 1..4 /\ 2 \in 1..4 /\ 3 \in 1..4 /\ 4 \in 1..4
    OBVIOUS
  <2>3. q \in [1..5 -> W]
    BY <1>2
  <2> QED
    BY <1>1, <1>2, <1>4, <2>1, <2>2, <2>3
<1>6. Append(p, e) = q
  <2>1. Append(p, e) = [i \in 1..5 |-> Append(p, e)[i]] /\ q = [i \in 1..5 |-> q[i]]
    BY <1>4, <1>5
  <2> QED
    BY <1>5, <2>1
<1> QED
  BY <1>3, <1>6 DEF p, q

(* The text of a file that has but its first hunk.                            *)
LEMMA NewFileText ==
  ASSUME NEW f \in GitFiles, NEW old \in Nat, NEW new \in Nat, f.hunks = <<DfHunk(old, new)>>
  PROVE  FileText(f) = IF f.form = "snippet" THEN << >>
                       ELSE <<<<"diff", f.path>>, <<"index">>, <<"---", IF f.form = "created" THEN NullPath ELSE f.path>>,
                              <<"+++", IF f.form = "deleted" THEN NullPath ELSE f.path>>, <<"@@", old, new>>>>
<1> DEFINE h == DfHunk(old, new)
           F == [i \in DOMAIN f.hunks |-> HunkText(f, f.hunks[i])]
           top == HunkText(f, h)
<1>1. h \in GitHunks /\ h.old = old /\ h.new = new /\ h.lines = << >>
  BY HunkBegins
<1>2. top \in Seq(TextLines) /\ top = IF f.form = "snippet" THEN << >> ELSE <<<<"@@", old, new>>>>
  <2> HIDE DEF h
  <2> QED
    BY <1>1, HunkTextIs
<1>3. F = <<top>>
  BY DEF F
<1> HIDE DEF top, h
<1>4. FlattenSeq(<< >>) \in Seq(TextLines) /\ FlattenSeq(Append(<< >>, top)) = FlattenSeq(<< >>) \o top
  <2> DEFINE E == << >>
             S == TextLines
  <2>1. E \in Seq(Seq(S)) /\ top \in Seq(S)
    BY <1>2
  <2> HIDE DEF E, S
  <2>2. FlattenSeq(E) \in Seq(S) /\ FlattenSeq(Append(E, top)) = FlattenSeq(E) \o top
    BY <2>1, FlattenAppend
  <2> QED
    BY <2>2 DEF E, S
<1>5. FlattenSeq(<<top>>) = top
  <2>1. top \in Seq(TextLines) /\ FlattenSeq(Append(<< >>, top)) = << >> \o top
    BY <1>2, <1>4, FlattenNone
  <2> HIDE DEF TextLines
  <2>2. << >> \o top = top /\ Append(<< >>, top) = <<top>>
    BY <2>1
  <2> QED
    BY <2>1, <2>2
<1>6. FileText(f) = FileHeader(f) \o top
  BY <1>3, <1>5 DEF FileText
<1>7. CASE f.form = "snippet"
  <2>1. FileHeader(f) = << >> /\ top = << >>
    BY <1>2, <1>7 DEF FileHeader
  <2> QED
    BY <1>6, <1>7, <2>1
<1>8. CASE f.form # "snippet"
  <2> DEFINE a == <<"diff", f.path>>
             b == <<"index">>
             c == <<"---", IF f.form = "created" THEN NullPath ELSE f.path>>
             d == <<"+++", IF f.form = "deleted" THEN NullPath ELSE f.path>>
             e == <<"@@", old, new>>
  <2>1. FileHeader(f) = <<a, b, c, d>> /\ top = <<e>>
    BY <1>2, <1>8 DEF FileHeader
  <2> HIDE DEF a, b, c, d, e
  <2>2. FileText(f) = <<a, b, c, d, e>>
    <3>1. <<a, b, c, d>> \o <<e>> = <<a, b, c, d, e>>
      <4> DEFINE W == {a, b, c, d, e}
      <4>1. a \in W /\ b \in W /\ c \in W /\ d \in W /\ e \in W
        OBVIOUS
      <4> HIDE DEF W
      <4> QED
        BY <4>1, FourAndOne
    <3> QED
      BY <1>6, <2>1, <3>1
  <2> QED
    BY <1>8, <2>2 DEF a, b, c, d, e
<1> QED
  BY <1>7, <1>8

HunksThere(d) == \A i \in 1..Len(d) : d[i].hunks # << >>

(* The whole text.                                                          *)
LEMMA TextTyped ==
  ASSUME NEW d \in Seq(GitFiles), HunksThere(d)
  PROVE  DfText(d) \in Seq(TextLines)
<1>1. CASE d = << >>
  <2>1. DfText(d) = << >>
    BY <1>1, FlattenNone DEF DfText
  <2> QED
    BY <2>1
<1>2. CASE d # << >>
  <2>1. /\ Front(d) \in Seq(GitFiles) /\ Last(d) \in GitFiles /\ Last(d) = d[Len(d)]
        /\ d = Append(Front(d), Last(d)) /\ Len(Front(d)) = Len(d) - 1 /\ Len(d) \in Nat \ {0}
        /\ \A i \in 1..(Len(d) - 1) : Front(d)[i] = d[i]
    BY <1>2, LastIs
  <2>2. Last(d).hunks # << >> /\ \A i \in 1..Len(Front(d)) : Front(d)[i].hunks # << >>
    <3>1. Len(d) \in 1..Len(d) /\ \A i \in 1..(Len(d) - 1) : i \in 1..Len(d)
      BY <2>1
    <3> QED
      BY <2>1, <3>1 DEF HunksThere
  <2>3. /\ DfText(Front(d)) \in Seq(TextLines) /\ FileText(Last(d)) \in Seq(TextLines)
        /\ DfText(d) = DfText(Front(d)) \o FileText(Last(d))
    BY <2>1, <2>2, DfTextMore
  <2>4. \A p, q \in Seq(TextLines) : p \o q \in Seq(TextLines)
    <3> HIDE DEF TextLines
    <3> QED
      OBVIOUS
  <2> QED
    BY <2>3, <2>4
<1> QED
  BY <1>1, <1>2

(* The text of a diff with one file more is read as its header and hunk     *)
(* line after the text before.                                              *)
LEMMA NewFileRead ==
  ASSUME NEW d \in Seq(GitFiles), HunksThere(d),
         NEW f \in GitFiles, NEW old \in Nat, NEW new \in Nat, f.hunks = <<DfHunk(old, new)>>, f.form # "snippet",
         NEW s, s = Viewed(DfText(d)), NEW a, a = Opened(s, ShownPath(f.path)), a.file # NoDfFile, HunkDone(a) = a
  PROVE  /\ Viewed(DfText(Append(d, f))) = Announce(a, old, new)
         /\ f.form \in {"kept", "created"} => Summed(DfText(Append(d, f)))
                                 = InSummary(SummaryDone(Summed(DfText(d))), SummaryFile(SummedPath(f.path)))
<1> DEFINE t == DfText(d)
           p == f.path
           q == IF f.form = "deleted" THEN NullPath ELSE p
           o == IF f.form = "created" THEN NullPath ELSE p
           l1 == <<"diff", p>>
           l2 == <<"index">>
           l3 == <<"---", o>>
           l4 == <<"+++", q>>
           l5 == <<"@@", old, new>>
<1>1. t \in Seq(TextLines)
  BY TextTyped
<1>2. DfText(Append(d, f)) = t \o FileText(f)
  <2>1. \A i \in 1..Len(d) : d[i].hunks # << >>
    BY DEF HunksThere
  <2>2. f.hunks # << >>
    OBVIOUS
  <2> QED
    BY <2>1, <2>2, DfTextMore
<1>3. FileText(f) = <<l1, l2, l3, l4, l5>>
  BY NewFileText
<1>4. p \in DfPaths
  BY DEF GitFiles
<1>5. l1 \in TextLines /\ l2 \in TextLines /\ l3 \in TextLines /\ l4 \in TextLines /\ l5 \in TextLines
  BY <1>4 DEF TextLines
<1>6. /\ ViewLine(s, l1) = a /\ ViewLine(a, l2) = a /\ ViewLine(a, l3) = a /\ ViewLine(a, l4) = a
      /\ ViewLine(a, l5) = Announce(a, old, new)
  <2>1. ViewLine(s, l1) = a
    BY HeaderOpens
  <2>2. ViewLine(a, l2) = a
    BY IndexRead
  <2>3. ViewLine(a, l3) = a
    <3> HIDE DEF o
    <3> QED
      BY SidesRead
  <2>4. ViewLine(a, l4) = a
    <3> HIDE DEF q
    <3> QED
      BY SidesRead
  <2>5. ViewLine(a, l5) = Announce(HunkDone(a), old, new)
    <3>1. l5 = <<"@@", old, new>> /\ HunkDone(a).file # NoDfFile
      OBVIOUS
    <3> HIDE DEF l5
    <3> QED
      BY <3>1, ViewHunkLine
  <2> QED
    BY <2>1, <2>2, <2>3, <2>4, <2>5
<1>7. ASSUME q # NullPath, NEW r
      PROVE  /\ SummaryLine(r, l1) = r /\ SummaryLine(r, l2) = r /\ SummaryLine(r, l3) = r /\ SummaryLine(r, l5) = r
             /\ SummaryLine(r, l4) = InSummary(SummaryDone(r), SummaryFile(SummedPath(q)))
  <2> HIDE DEF q, p, o
  <2>1. SummaryLine(r, l1) = r /\ SummaryLine(r, l2) = r
    <3>1. SummaryLine(r, l1) = r
      BY <1>7, HeaderSummed
    <3>2. SummaryLine(r, l2) = r
      BY <1>7, HeaderSummed
    <3> QED
      BY <3>1, <3>2
  <2>2. SummaryLine(r, l3) = r
    BY <1>7, HeaderSummed
  <2>3. SummaryLine(r, l4) = InSummary(SummaryDone(r), SummaryFile(SummedPath(q)))
    BY <1>7, HeaderSummed
  <2>4. SummaryLine(r, l5) = r
    BY <1>7, HeaderSummed
  <2> QED
    BY <2>1, <2>2, <2>3, <2>4
<1>8. f.form \in {"kept", "created"} => q = p /\ q # NullPath
  BY <1>4, DfAssumption
<1> HIDE DEF t, q, o, l1, l2, l3, l4, l5
<1>9. Viewed(t) = s
  BY DEF t
<1>10. Viewed(t \o <<l1, l2, l3, l4, l5>>) = Announce(a, old, new)
  <2> DEFINE u == Announce(a, old, new)
  <2>1. a = ViewLine(Viewed(t), l1) /\ a = ViewLine(a, l2) /\ a = ViewLine(a, l3) /\ a = ViewLine(a, l4) /\ u = ViewLine(a, l5)
    BY <1>6, <1>9
  <2> HIDE DEF u
  <2>2. Viewed(t \o <<l1, l2, l3, l4, l5>>) = u
    BY <1>1, <1>5, <2>1, ViewFive
  <2> QED
    BY <2>2 DEF u
<1>11. Viewed(DfText(Append(d, f))) = Announce(a, old, new)
  BY <1>2, <1>3, <1>10
<1>12. ASSUME f.form \in {"kept", "created"}
       PROVE  Summed(DfText(Append(d, f))) = InSummary(SummaryDone(Summed(t)), SummaryFile(SummedPath(p)))
  <2> DEFINE r == Summed(t)
             u == InSummary(SummaryDone(r), SummaryFile(SummedPath(p)))
  <2>1. /\ r = SummaryLine(r, l1) /\ r = SummaryLine(r, l2) /\ r = SummaryLine(r, l3)
        /\ u = SummaryLine(r, l4) /\ u = SummaryLine(u, l5)
    BY <1>7, <1>8, <1>12
  <2>2. r = Summed(t)
    OBVIOUS
  <2> HIDE DEF r, u
  <2>3. Summed(t \o <<l1, l2, l3, l4, l5>>) = u
    BY <1>1, <1>5, <2>1, <2>2, SumFive
  <2> QED
    BY <1>2, <1>3, <2>3 DEF u, r
<1> QED
  BY <1>11, <1>12 DEF t

-----------------------------------------------------------------------------
(* The summary.                                                             *)

SumFields == {"files", "file"}
SumFileFields == {"path", "changes", "added", "removed"}

(* The summary counts for its files what the viewer counts.                   *)
Counted(f, v, c) == c.path = SummedPath(f.path) /\ c.added = v.additions /\ c.removed = v.deletions
CountsMatch(d, vs, cs) ==
  /\ \E T : cs \in Seq(T)
  /\ Len(cs) = Len(vs) /\ \A i \in 1..Len(vs) : Counted(d[i], vs[i], cs[i])
CountsSo(f, s, c) ==
  /\ Rec(c, SumFileFields) /\ c.path = SummedPath(f.path)
  /\ c.added = s.file.additions + s.hunk.additions
  /\ c.removed = s.file.deletions + s.hunk.deletions
SumOf(d, s, r) ==
  /\ Rec(r, SumFields)
  /\ d = << >> => r = NothingSummed
  /\ d # << >> => CountsMatch(Front(d), s.files, r.files) /\ CountsSo(Last(d), s, r.file)

(* What the summary does with an added and with a removed line.             *)
LEMMA NoteAddedIs ==
  ASSUME NEW c, Rec(c, SumFileFields), NEW words
  PROVE  /\ Rec(NoteAdded(c, words), SumFileFields) /\ NoteAdded(c, words).path = c.path
         /\ NoteAdded(c, words).added = c.added + 1 /\ NoteAdded(c, words).removed = c.removed
<1> DEFINE f == [c EXCEPT !.added = @ + 1]
           new == {n \in Symbols(words) : Entry(c, n) = {}}
           x == [name |-> CHOOSE n \in new : TRUE, change |-> "added"]
           g == [f EXCEPT !.changes = Append(@, x)]
<1>1. DOMAIN c = SumFileFields
  BY RecDomain
<1>2. Rec(f, SumFileFields) /\ f.path = c.path /\ f.added = c.added + 1 /\ f.removed = c.removed
  BY <1>1 DEF Rec, SumFileFields
<1>3. NoteAdded(c, words) = f \/ NoteAdded(c, words) = g
  BY DEF NoteAdded
<1> HIDE DEF f, new, x
<1>4. DOMAIN f = SumFileFields
  BY <1>2, RecDomain
<1>5. Rec(g, SumFileFields) /\ g.path = f.path /\ g.added = f.added /\ g.removed = f.removed
  BY <1>4 DEF Rec, SumFileFields
<1> HIDE DEF g
<1> QED
  BY <1>2, <1>3, <1>5

LEMMA NoteRemovedIs ==
  ASSUME NEW c, Rec(c, SumFileFields), NEW words
  PROVE  /\ Rec(NoteRemoved(c, words), SumFileFields) /\ NoteRemoved(c, words).path = c.path
         /\ NoteRemoved(c, words).removed = c.removed + 1 /\ NoteRemoved(c, words).added = c.added
<1> DEFINE f == [c EXCEPT !.removed = @ + 1]
           n == CHOOSE x \in Symbols(words) : TRUE
           y == [name |-> n, change |-> "removed"]
           zs == [i \in DOMAIN f.changes |->
                    IF f.changes[i].name = n THEN [f.changes[i] EXCEPT !.change = "modified"] ELSE f.changes[i]]
           g == [f EXCEPT !.changes = Append(@, y)]
           h == [f EXCEPT !.changes = zs]
<1>1. DOMAIN c = SumFileFields
  BY RecDomain
<1>2. Rec(f, SumFileFields) /\ f.path = c.path /\ f.removed = c.removed + 1 /\ f.added = c.added
  BY <1>1 DEF Rec, SumFileFields
<1>3. NoteRemoved(c, words) \in {f, g, h}
  BY DEF NoteRemoved
<1> HIDE DEF f, n, y, zs
<1>4. DOMAIN f = SumFileFields
  BY <1>2, RecDomain
<1>5. Rec(g, SumFileFields) /\ g.path = f.path /\ g.added = f.added /\ g.removed = f.removed
  BY <1>4 DEF Rec, SumFileFields
<1>6. Rec(h, SumFileFields) /\ h.path = f.path /\ h.added = f.added /\ h.removed = f.removed
  BY <1>4 DEF Rec, SumFileFields
<1> HIDE DEF g, h
<1> QED
  BY <1>2, <1>3, <1>5, <1>6

LEMMA SumFileIsNot == ASSUME NEW c, Rec(c, SumFileFields) PROVE c # NoDfFile
<1>1. DOMAIN c = SumFileFields
  BY RecDomain
<1>2. DOMAIN NoDfFile = {"path"}
  BY DEF NoDfFile
<1> QED
  BY <1>1, <1>2 DEF SumFileFields

(* Which of it a line calls for.                                            *)
LEMMA SumSkips ==
  ASSUME NEW r, NEW l, Begins(l) \in {"diff", "---", "@@"}
  PROVE  SummaryLine(r, l) = r
<1>1. l[1] \notin {"+++", "+"} /\ Begins(l) # "-"
  BY DEF Begins, ReadsAsHeader
<1> QED
  BY <1>1 DEF SummaryLine

LEMMA SumAdds ==
  ASSUME NEW r, r.file # NoDfFile, NEW l, l[1] = "+", Begins(l) = "+"
  PROVE  SummaryLine(r, l) = InSummary(r, NoteAdded(r.file, l[2]))
BY DEF SummaryLine

LEMMA SumRemoves ==
  ASSUME NEW r, r.file # NoDfFile, NEW l, l[1] = "-", Begins(l) = "-"
  PROVE  SummaryLine(r, l) = InSummary(r, NoteRemoved(r.file, l[2]))
BY DEF SummaryLine

LEMMA SumPasses ==
  ASSUME NEW r, NEW l,
         Begins(l) \notin {"diff", "---", "@@"}, l[1] # "+++", l[1] # "+", Begins(l) # "-"
  PROVE  SummaryLine(r, l) = r
<1>1. Begins(l) # "+++"
  <2>1. CASE ReadsAsHeader(l)
    <3>1. l[1] = "-"
      BY <2>1 DEF ReadsAsHeader, LooksLikeHeader
    <3>2. Begins(l) = "---"
      BY <2>1, <3>1 DEF Begins
    <3> QED
      BY <3>2
  <2>2. CASE ~ReadsAsHeader(l)
    <3>1. Begins(l) = l[1]
      BY <2>2 DEF Begins
    <3> QED
      BY <3>1
  <2> QED
    BY <2>1, <2>2
<1> QED
  BY <1>1 DEF SummaryLine

(* A line the viewer leaves out is left out of the summary too.               *)
Alike(l) == LooksLikeHeader(l) => Begins(l) = "---"

(* What the summary makes of a line of git's.                                 *)
LEMMA LineSummed ==
  ASSUME NEW r, r.file # NoDfFile, NEW l \in GitLines, Alike(l)
  PROVE  /\ LooksLikeHeader(l) \/ Unchanged(l) => SummaryLine(r, l) = r
         /\ l[1] = "+" /\ ~LooksLikeHeader(l) => SummaryLine(r, l) = InSummary(r, NoteAdded(r.file, l[2]))
         /\ l[1] = "-" /\ ~LooksLikeHeader(l) => SummaryLine(r, l) = InSummary(r, NoteRemoved(r.file, l[2]))
<1>1. LooksLikeHeader(l) => SummaryLine(r, l) = r
  BY SumSkips DEF Alike
<1>2. ASSUME l[1] = "+", ~LooksLikeHeader(l) PROVE SummaryLine(r, l) = InSummary(r, NoteAdded(r.file, l[2]))
  <2>1. Begins(l) = "+"
    BY <1>2 DEF Begins, ReadsAsHeader
  <2> QED
    BY <1>2, <2>1, SumAdds
<1>3. ASSUME l[1] = "-", ~LooksLikeHeader(l) PROVE SummaryLine(r, l) = InSummary(r, NoteRemoved(r.file, l[2]))
  <2>1. Begins(l) = "-"
    BY <1>3 DEF Begins, ReadsAsHeader
  <2> QED
    BY <1>3, <2>1, SumRemoves
<1>4. ASSUME Unchanged(l) PROVE SummaryLine(r, l) = r
  <2>1. l[1] = " "
    BY <1>4, GitLineIs DEF Unchanged, Kinds
  <2>2. Begins(l) = " "
    BY <2>1 DEF Begins, ReadsAsHeader, LooksLikeHeader
  <2>3. Begins(l) \notin {"diff", "---", "@@"} /\ l[1] # "+++" /\ l[1] # "+" /\ Begins(l) # "-"
    BY <2>1, <2>2, Zenon
  <2> QED
    BY <2>3, SumPasses
<1> QED
  BY <1>1, <1>2, <1>3, <1>4

(* The summary counts a line as the viewer does.                            *)
LEMMA SumFollows ==
  ASSUME NEW d, d # << >>, NEW e, e # << >>, Front(e) = Front(d), Last(e).path = Last(d).path, NEW k, NEW l \in GitLines, Alike(l), NEW s, NEW t, ReadInto(k, l, s, t),
         IsFile(s.file), IsHunk(s.hunk), NEW r, SumOf(d, s, r)
  PROVE  SumOf(e, t, SummaryLine(r, l))
<1> DEFINE u == SummaryLine(r, l)
<1>1. /\ t.files = s.files /\ t.file = s.file
      /\ t.hunk.additions = s.hunk.additions + (IF l[1] = "+" /\ ~LooksLikeHeader(l) THEN 1 ELSE 0)
      /\ t.hunk.deletions = s.hunk.deletions + (IF l[1] = "-" /\ ~LooksLikeHeader(l) THEN 1 ELSE 0)
  BY DEF ReadInto
<1>2. /\ s.file.additions \in Nat /\ s.file.deletions \in Nat /\ s.hunk.additions \in Nat /\ s.hunk.deletions \in Nat
  BY DEF IsFile, IsHunk
<1>3. /\ Rec(r, SumFields) /\ CountsMatch(Front(d), s.files, r.files) /\ Rec(r.file, SumFileFields)
      /\ r.file.path = SummedPath(Last(d).path) /\ r.file.added = s.file.additions + s.hunk.additions
      /\ r.file.removed = s.file.deletions + s.hunk.deletions
  BY DEF SumOf, CountsSo
<1>4. r.file # NoDfFile /\ DOMAIN r = SumFields
  BY <1>3, SumFileIsNot, RecDomain
<1>5. SumOf(e, t, u) <=> Rec(u, SumFields) /\ CountsMatch(Front(d), t.files, u.files) /\ CountsSo(Last(e), t, u.file)
  BY DEF SumOf
<1>6. ASSUME NEW c, u = InSummary(r, c) PROVE Rec(u, SumFields) /\ u.files = r.files /\ u.file = c
  BY <1>4, <1>6 DEF Rec, SumFields, InSummary
<1>7. CASE LooksLikeHeader(l) \/ Unchanged(l)
  <2>1. u = r
    BY <1>4, <1>7, LineSummed
  <2>2. ~(l[1] = "+" /\ ~LooksLikeHeader(l)) /\ ~(l[1] = "-" /\ ~LooksLikeHeader(l))
    BY <1>7 DEF Unchanged
  <2>3. t.hunk.additions = s.hunk.additions /\ t.hunk.deletions = s.hunk.deletions
    BY <1>1, <1>2, <2>2
  <2> HIDE DEF u
  <2>4. CountsSo(Last(e), t, u.file)
    BY <1>1, <1>3, <2>1, <2>3 DEF CountsSo
  <2>5. SumOf(e, t, u)
    BY <1>1, <1>3, <1>5, <2>1, <2>4
  <2> QED
    BY <2>5 DEF u
<1>8. CASE l[1] = "+" /\ ~LooksLikeHeader(l)
  <2> DEFINE c == NoteAdded(r.file, l[2])
  <2>1. u = InSummary(r, c)
    BY <1>4, <1>8, LineSummed
  <2>2. Rec(c, SumFileFields) /\ c.path = r.file.path /\ c.added = r.file.added + 1 /\ c.removed = r.file.removed
    BY <1>3, NoteAddedIs
  <2> HIDE DEF c, u
  <2>3. Rec(u, SumFields) /\ u.files = r.files /\ u.file = c
    BY <1>6, <2>1
  <2>4. t.hunk.additions = s.hunk.additions + 1 /\ t.hunk.deletions = s.hunk.deletions
    BY <1>1, <1>2, <1>8
  <2>5. CountsSo(Last(e), t, u.file)
    BY <1>1, <1>2, <1>3, <2>2, <2>3, <2>4 DEF CountsSo
  <2>6. SumOf(e, t, u)
    BY <1>1, <1>3, <1>5, <2>3, <2>5
  <2> QED
    BY <2>6 DEF u
<1>9. CASE l[1] = "-" /\ ~LooksLikeHeader(l)
  <2> DEFINE c == NoteRemoved(r.file, l[2])
  <2>1. u = InSummary(r, c)
    BY <1>4, <1>9, LineSummed
  <2>2. Rec(c, SumFileFields) /\ c.path = r.file.path /\ c.removed = r.file.removed + 1 /\ c.added = r.file.added
    BY <1>3, NoteRemovedIs
  <2> HIDE DEF c, u
  <2>3. Rec(u, SumFields) /\ u.files = r.files /\ u.file = c
    BY <1>6, <2>1
  <2>4. t.hunk.additions = s.hunk.additions /\ t.hunk.deletions = s.hunk.deletions + 1
    BY <1>1, <1>2, <1>9
  <2>5. CountsSo(Last(e), t, u.file)
    BY <1>1, <1>2, <1>3, <2>2, <2>3, <2>4 DEF CountsSo
  <2>6. SumOf(e, t, u)
    BY <1>1, <1>3, <1>5, <2>3, <2>5
  <2> QED
    BY <2>6 DEF u
<1> QED
  BY <1>7, <1>8, <1>9 DEF Unchanged

(* The last file has a hunk.                                                *)
LEMMA LastHunks ==
  ASSUME NEW d \in Seq(GitFiles), HunksThere(d), d # << >>
  PROVE  Last(d).hunks # << >> /\ Last(d) \in GitFiles /\ Last(d).hunks \in Seq(GitHunks)
<1>1. Last(d) = d[Len(d)] /\ Last(d) \in GitFiles /\ Len(d) \in Nat \ {0}
  BY LastIs
<1>2. Len(d) \in 1..Len(d)
  BY <1>1
<1> QED
  BY <1>1, <1>2 DEF HunksThere, GitFiles

(* What View ends with: the files of git.                                   *)
LEMMA DoneIs ==
  ASSUME NEW d \in Seq(GitFiles), HunksThere(d), NEW s, ViewOf(d, s)
  PROVE  /\ Between(d, FileDone(s))
         /\ d # << >> => \E v : FileEnds(s, FileDone(s), v)
<1>1. CASE d = << >>
  <2>1. s = DfNothing
    BY <1>1 DEF ViewOf
  <2> QED
    BY <1>1, <2>1, NothingDone
<1>2. CASE d # << >>
  BY <1>2, LastHunks, FileDoneIs
<1> QED
  BY <1>1, <1>2

(* One file more is counted.                                                *)
LEMMA CountsMore ==
  ASSUME NEW S, NEW vs \in Seq(S), NEW v \in S, NEW G, NEW d \in Seq(G), NEW f \in G, Len(d) = Len(vs),
         NEW cs, CountsMatch(d, vs, cs), NEW c, Counted(f, v, c)
  PROVE  CountsMatch(Append(d, f), Append(vs, v), Append(cs, c))
<1> DEFINE n == Len(vs)
           A == Append(vs, v)
           B == Append(cs, c)
           D == Append(d, f)
<1>0. D[n + 1] = f /\ \A i \in 1..n : D[i] = d[i]
  BY AppendIs
<1>1. n \in Nat /\ Len(A) = n + 1 /\ A[n + 1] = v /\ \A i \in 1..n : A[i] = vs[i]
  BY AppendIs
<1>2. PICK T : cs \in Seq(T)
  BY DEF CountsMatch
<1>3. Len(cs) = n /\ \A i \in 1..n : Counted(d[i], vs[i], cs[i])
  BY DEF CountsMatch
<1> DEFINE U == T \cup {c}
<1>4. cs \in Seq(U) /\ c \in U
  <2>1. cs \in [1..n -> U]
    <3>1. \A i \in 1..n : cs[i] \in U
      BY <1>2, <1>3
    <3>2. cs = [i \in 1..n |-> cs[i]]
      BY <1>2, <1>3
    <3> HIDE DEF U
    <3> QED
      BY <3>1, <3>2
  <2>2. c \in U
    OBVIOUS
  <2> HIDE DEF U
  <2> QED
    BY <1>1, <2>1, <2>2, FunctionIsSeq
<1> HIDE DEF U
<1>5. B \in Seq(U) /\ Len(B) = n + 1 /\ B[n + 1] = c /\ \A i \in 1..n : B[i] = cs[i]
  BY <1>3, <1>4, AppendIs
<1>6. \A i \in 1..(n + 1) : i \in 1..n \/ i = n + 1
  BY <1>1
<1> HIDE DEF A, B, D
<1>7. ASSUME NEW i \in 1..(n + 1) PROVE Counted(D[i], A[i], B[i])
  <2>1. CASE i \in 1..n
    BY <1>0, <1>1, <1>3, <1>5, <2>1
  <2>2. CASE i = n + 1
    BY <1>0, <1>1, <1>5, <2>2
  <2> QED
    BY <1>6, <2>1, <2>2
<1>8. CountsMatch(D, A, B)
  BY <1>1, <1>5, <1>7 DEF CountsMatch
<1> QED
  BY <1>8 DEF A, B, D

(* What Summary ends with: the counts of these files.                       *)
LEMMA SumDone ==
  ASSUME NEW d \in Seq(GitFiles), HunksThere(d), NEW s, ViewOf(d, s), NEW r, SumOf(d, s, r)
  PROVE  Rec(SummaryDone(r), SumFields) /\ CountsMatch(d, FileDone(s).files, SummaryDone(r).files)
<1>1. CASE d = << >>
  <2>1. s = DfNothing /\ r = NothingSummed
    BY <1>1 DEF ViewOf, SumOf
  <2>2. FileDone(s).files = << >>
    BY <2>1, NothingDone DEF DfNothing
  <2>3. SummaryDone(r) = NothingSummed
    BY <2>1 DEF SummaryDone, NothingSummed
  <2>4. NothingSummed.files = << >> /\ Rec(NothingSummed, SumFields)
    BY DEF NothingSummed, Rec, SumFields
  <2>5. CountsMatch(d, << >>, << >>)
    <3>1. << >> \in Seq({}) /\ Len(<< >>) = 0 /\ 1..0 = {}
      OBVIOUS
    <3> QED
      BY <3>1 DEF CountsMatch
  <2> QED
    BY <2>2, <2>3, <2>4, <2>5
<1>2. CASE d # << >>
  <2>1. PICK v : FileEnds(s, FileDone(s), v)
    BY <1>2, DoneIs
  <2>2. /\ FileDone(s).files = Append(s.files, v) /\ v.path = s.file.path
        /\ v.additions = s.file.additions + s.hunk.additions
        /\ v.deletions = s.file.deletions + s.hunk.deletions
    BY <2>1 DEF FileEnds
  <2>3. s.files \in Seq(FileSet)
    BY <1>2 DEF ViewOf, FilesMatch
  <2>4. CountsMatch(Front(d), s.files, r.files) /\ CountsSo(Last(d), s, r.file)
    BY <1>2 DEF SumOf
  <2>5. r.file # NoDfFile /\ Counted(Last(d), v, r.file)
    BY <2>2, <2>4, SumFileIsNot DEF CountsSo, Counted
  <2> DEFINE q == [files |-> Append(r.files, r.file), file |-> NoDfFile]
  <2>6. SummaryDone(r) = q
    BY <2>5 DEF SummaryDone
  <2>7. Rec(q, SumFields) /\ q.files = Append(r.files, r.file)
    BY DEF Rec, SumFields
  <2> HIDE DEF q
  <2> DEFINE S == FileSet \cup {v}
  <2>8. s.files \in Seq(S) /\ v \in S
    <3>1. \A i \in 1..Len(s.files) : s.files[i] \in S
      BY <2>3
    <3>2. s.files = [i \in 1..Len(s.files) |-> s.files[i]] /\ Len(s.files) \in Nat
      BY <2>3
    <3>3. v \in S
      OBVIOUS
    <3> HIDE DEF S
    <3>4. s.files \in [1..Len(s.files) -> S]
      BY <3>1, <3>2
    <3> QED
      BY <3>2, <3>3, <3>4, FunctionIsSeq
  <2> HIDE DEF S
  <2>9. CountsMatch(d, Append(s.files, v), Append(r.files, r.file))
    <3>1. Front(d) \in Seq(GitFiles) /\ Last(d) \in GitFiles /\ d = Append(Front(d), Last(d))
      BY <1>2, LastIs
    <3>2. Len(Front(d)) = Len(s.files)
      BY <1>2 DEF ViewOf, FilesMatch
    <3>3. CountsMatch(Append(Front(d), Last(d)), Append(s.files, v), Append(r.files, r.file))
      BY <2>4, <2>5, <2>8, <3>1, <3>2, CountsMore
    <3> QED
      BY <3>1, <3>3
  <2> QED
    BY <2>2, <2>6, <2>7, <2>9
<1> QED
  BY <1>1, <1>2

LEMMA InSummaryIs ==
  ASSUME NEW r, Rec(r, SumFields), NEW c
  PROVE  Rec(InSummary(r, c), SumFields) /\ InSummary(r, c).files = r.files /\ InSummary(r, c).file = c
<1>1. DOMAIN r = SumFields
  BY RecDomain
<1> QED
  BY <1>1 DEF InSummary, Rec, SumFields

-----------------------------------------------------------------------------
(* The steps of git as they are read.                                       *)

(* A hunk, a file and a line more, in the view.                               *)
LEMMA FileOpened ==
  ASSUME NEW d \in Seq(GitFiles), NEW f \in GitFiles, NEW old \in Nat, NEW new \in Nat, f.hunks = <<DfHunk(old, new)>>,
         NEW s, Between(d, FileDone(s)), NEW a, a = Opened(s, ShownPath(f.path)), NEW t, t = Announce(a, old, new)
  PROVE  /\ a.file # NoDfFile /\ HunkDone(a) = a
         /\ ViewOf(Append(d, f), t)
         /\ t.files = FileDone(s).files /\ t.file = FreshFile(ShownPath(f.path)) /\ t.hunk.additions = 0 /\ t.hunk.deletions = 0
<1> DEFINE e == Append(d, f)
           h == DfHunk(old, new)
           p == ShownPath(f.path)
           u == FileDone(s)
<1>0. a = [u EXCEPT !.file = FreshFile(p)]
  BY DEF Opened
<1> HIDE DEF u
<1>1. /\ IsState(u) /\ u.hunk = NoHunk /\ u.removed = << >> /\ u.added = << >> /\ FilesMatch(d, u.files)
  BY DEF Between, u
<1>2. p \in FilePaths
  BY DEF GitFiles, FilePaths
<1>p. p = ShownPath(f.path)
  OBVIOUS
<1> HIDE DEF p
<1>3. /\ IsState(a) /\ HunkDone(a) = a /\ a.files = u.files /\ a.file = FreshFile(p)
      /\ a.removed = << >> /\ a.added = << >>
  BY <1>0, <1>1, <1>2, OpenedIs, SMTT(30)
<1>4. /\ IsFile(FreshFile(p)) /\ FreshFile(p) # NoDfFile /\ FreshFile(p).path = p /\ FreshFile(p).hunks = << >>
  BY <1>2, FreshFileIs
<1>5. Announced(h, a, t)
  BY <1>3, AnnouncedIs
<1> HIDE DEF h
<1>6. /\ IsState(t) /\ CurrentHunk(h, t) /\ t.files = a.files /\ t.file = a.file
      /\ t.hunk.additions = 0 /\ t.hunk.deletions = 0
  BY <1>5 DEF Announced
<1>7. Front(e) = d /\ Last(e) = f /\ e # << >>
  BY FrontLast
<1>8. Front(f.hunks) = << >> /\ Last(f.hunks) = h
  <2>1. h \in GitHunks
    BY HunkBegins DEF h
  <2>2. << >> \in Seq(GitHunks) /\ Append(<< >>, h) = <<h>>
    OBVIOUS
  <2> DEFINE E == << >>
  <2>3. E \in Seq(GitHunks) /\ f.hunks = Append(E, h)
    BY <2>2 DEF h
  <2> HIDE DEF E
  <2>4. Front(Append(E, h)) = E /\ Last(Append(E, h)) = h
    BY <2>1, <2>3, FrontLast
  <2> QED
    BY <2>3, <2>4 DEF E
<1>9. HunksMatch(<< >>, << >>)
  BY DEF HunksMatch
<1>10. CurrentFile(f, t)
  BY <1>p, <1>3, <1>4, <1>6, <1>8, <1>9 DEF CurrentFile
<1>11. ViewOf(e, t)
  <2> HIDE DEF e
  <2> QED
    BY <1>1, <1>3, <1>6, <1>7, <1>10 DEF ViewOf
<1> QED
  BY <1>p, <1>3, <1>4, <1>6, <1>11 DEF u

(* Both readers keep up with a new file.                                    *)
LEMMA NewFileViewed ==
  ASSUME NEW d \in Seq(GitFiles), HunksThere(d),
         NEW f \in GitFiles, NEW old \in Nat, NEW new \in Nat, f.hunks = <<DfHunk(old, new)>>, f.form # "snippet",
         ViewOf(d, Viewed(DfText(d)))
  PROVE  /\ ViewOf(Append(d, f), Viewed(DfText(Append(d, f))))
         /\ f.form \in {"kept", "created"} /\ SumOf(d, Viewed(DfText(d)), Summed(DfText(d))) =>
              SumOf(Append(d, f), Viewed(DfText(Append(d, f))), Summed(DfText(Append(d, f))))
<1> DEFINE e == Append(d, f)
           s == Viewed(DfText(d))
           r == Summed(DfText(d))
           t == Viewed(DfText(e))
           w == Summed(DfText(e))
           p == ShownPath(f.path)
           a == Opened(s, p)
           b == Announce(a, old, new)
           u == FileDone(s)
<1>1. Between(d, u)
  BY DoneIs
<1> HIDE DEF a
<1>3. /\ a.file # NoDfFile /\ HunkDone(a) = a /\ ViewOf(e, b)
      /\ b.files = u.files /\ b.file = FreshFile(p) /\ b.hunk.additions = 0 /\ b.hunk.deletions = 0
  <2>0. b = Announce(a, old, new) /\ a = Opened(s, ShownPath(f.path))
    BY DEF a
  <2>1. Between(d, FileDone(s))
    BY <1>1
  <2> HIDE DEF b, s
  <2>2. /\ a.file # NoDfFile /\ HunkDone(a) = a /\ ViewOf(Append(d, f), b)
        /\ b.files = FileDone(s).files /\ b.file = FreshFile(ShownPath(f.path)) /\ b.hunk.additions = 0 /\ b.hunk.deletions = 0
    BY <2>0, <2>1, FileOpened
  <2> QED
    BY <2>2
<1>4. /\ t = b
      /\ f.form \in {"kept", "created"} => w = InSummary(SummaryDone(r), SummaryFile(SummedPath(f.path)))
  <2>1. a = Opened(s, p)
    BY DEF a
  <2>2. s = Viewed(DfText(d))
    OBVIOUS
  <2> HIDE DEF s
  <2>3. /\ Viewed(DfText(Append(d, f))) = Announce(a, old, new)
        /\ f.form \in {"kept", "created"} => Summed(DfText(Append(d, f)))
                                = InSummary(SummaryDone(Summed(DfText(d))), SummaryFile(SummedPath(f.path)))
    BY <1>3, <2>1, <2>2, NewFileRead
  <2> QED
    BY <2>3
<1> HIDE DEF b
<1>5. ASSUME f.form \in {"kept", "created"}, SumOf(d, s, r) PROVE SumOf(e, t, w)
  <2>1. Rec(SummaryDone(r), SumFields) /\ CountsMatch(d, u.files, SummaryDone(r).files)
    <3> HIDE DEF r
    <3>1. ViewOf(d, s)
      OBVIOUS
    <3> HIDE DEF s
    <3> QED
      BY <1>5, <3>1, SumDone
  <2> DEFINE c == SummaryFile(SummedPath(f.path))
             q == SummaryDone(r)
  <2>2. /\ c.path = SummedPath(f.path) /\ c.added = 0 /\ c.removed = 0 /\ Rec(c, SumFileFields)
    BY DEF SummaryFile, Rec, SumFileFields
  <2> HIDE DEF c
  <2>3. Rec(InSummary(q, c), SumFields) /\ InSummary(q, c).files = q.files /\ InSummary(q, c).file = c
    <3>1. Rec(q, SumFields)
      BY <2>1
    <3> HIDE DEF q
    <3> QED
      BY <3>1, InSummaryIs
  <2>4. w = InSummary(q, c)
    BY <1>4, <1>5 DEF c
  <2>5. FreshFile(p).path = p /\ FreshFile(p).additions = 0 /\ FreshFile(p).deletions = 0
    BY DEF FreshFile
  <2>6. CountsSo(f, t, c)
    BY <1>3, <1>4, <2>2, <2>5 DEF CountsSo
  <2>7. e # << >> /\ Front(e) = d /\ Last(e) = f
    BY FrontLast
  <2>8. CountsMatch(d, t.files, w.files) /\ w.file = c /\ Rec(w, SumFields)
    BY <1>3, <1>4, <2>1, <2>3, <2>4
  <2> HIDE DEF w, e, t
  <2> QED
    BY <2>6, <2>7, <2>8 DEF SumOf
<1>6. ViewOf(e, t)
  BY <1>3, <1>4
<1> QED
  BY <1>5, <1>6

(* Both readers keep up with a new hunk.                                    *)
LEMMA NewHunkViewed ==
  ASSUME NEW d, WellMade(d), NEW e, NewHunkOf(d, e), ViewOf(d, Viewed(DfText(d)))
  PROVE  /\ ViewOf(e, Viewed(DfText(e)))
         /\ SumOf(d, Viewed(DfText(d)), Summed(DfText(d))) => SumOf(e, Viewed(DfText(e)), Summed(DfText(e)))
<1> DEFINE s == Viewed(DfText(d))
           r == Summed(DfText(d))
           g == Last(d)
           gs == g.hunks
           u == HunkDone(s)
<1>1. PICK f \in GitFiles, old \in Nat, new \in Nat :
        /\ e = Append(Front(d), f) /\ f.path = g.path /\ f.form = g.form
        /\ f.hunks = Append(gs, DfHunk(old, new))
  BY DEF NewHunkOf
<1> DEFINE h == DfHunk(old, new)
           l == <<"@@", old, new>>
           t == Announce(u, old, new)
<1>2. d # << >> /\ g.form # "snippet" /\ d \in Seq(GitFiles) /\ HunksThere(d)
  BY DEF NewHunkOf, WellMade, HunksThere
<1>3. g \in GitFiles /\ gs \in Seq(GitHunks) /\ gs # << >>
  BY <1>2, LastHunks
<1>4. h \in GitHunks /\ h.old = old /\ h.new = new /\ h.lines = << >>
  BY HunkBegins
<1>5. l \in TextLines
  BY DEF TextLines
<1>a. f.hunks = Append(gs, h)
  BY <1>1
<1>6. f.hunks # << >> /\ Front(f.hunks) = gs /\ Last(f.hunks) = h
  <2> HIDE DEF gs, h
  <2> QED
    BY <1>a, <1>3, <1>4, FrontLast
<1>7. FileText(f) = Append(FileText(g), l)
  <2>1. FileText(g) \in Seq(TextLines) /\ FileText(f) = FileText(g) \o HunkText(g, h)
    <3> HIDE DEF g, h
    <3> QED
      BY <1>1, <1>a, <1>3, <1>4, FileTextMore
  <2>2. HunkText(g, h) = <<l>>
    <3> HIDE DEF g, h
    <3> QED
      BY <1>2, <1>3, <1>4, HunkTextIs
  <2> HIDE DEF g, h, l, TextLines
  <2> QED
    BY <1>5, <2>1, <2>2
<1>8. DfText(e) = Append(DfText(d), l) /\ DfText(d) \in Seq(TextLines)
  <2> HIDE DEF l
  <2> QED
    BY <1>1, <1>2, <1>5, <1>6, <1>7, DfTextGrows
<1>9. CurrentFile(g, s) /\ IsState(s) /\ FilesMatch(Front(d), s.files)
  BY <1>2 DEF ViewOf
<1>10. EndsHunk(s, u) /\ HunksMatch(gs, u.file.hunks)
  <2>1. IsFile(s.file) /\ HunksMatch(Front(gs), s.file.hunks) /\ CurrentHunk(Last(gs), s)
    BY <1>9 DEF CurrentFile
  <2> HIDE DEF s, gs
  <2> QED
    BY <1>3, <1>9, <2>1, HunkDoneIs
<1>11. /\ IsState(u) /\ u.removed = << >> /\ u.added = << >> /\ u.files = s.files
       /\ IsFile(u.file) /\ u.file.path = s.file.path
       /\ u.file.additions = s.file.additions + s.hunk.additions
       /\ u.file.deletions = s.file.deletions + s.hunk.deletions
  BY <1>10 DEF EndsHunk
<1>12. Viewed(DfText(e)) = t
  <2>1. u.file # NoDfFile
    BY <1>11, FileIsNot
  <2>2. ViewLine(s, l) = t
    BY <2>1, ViewHunkLine
  <2>3. Viewed(Append(DfText(d), l)) = ViewLine(s, l)
    <3> HIDE DEF l
    <3> QED
      BY <1>5, <1>8, ViewedMore
  <2> QED
    BY <1>8, <2>2, <2>3
<1>13. Summed(DfText(e)) = r
  <2>1. Begins(l) = "@@"
    BY DEF Begins, ReadsAsHeader, LooksLikeHeader
  <2>2. SummaryLine(r, l) = r
    BY <2>1, SumSkips
  <2>3. Summed(Append(DfText(d), l)) = SummaryLine(r, l)
    <3> HIDE DEF l
    <3> QED
      BY <1>5, <1>8, SummedMore
  <2> QED
    BY <1>8, <2>2, <2>3
<1>14. Announced(h, u, t)
  <2>1. t = Announce(u, old, new)
    OBVIOUS
  <2> HIDE DEF u, t
  <2> QED
    BY <1>11, <2>1, AnnouncedIs
<1> HIDE DEF t, u, h
<1>15. /\ IsState(t) /\ CurrentHunk(h, t) /\ t.files = s.files /\ t.file = u.file
       /\ t.hunk.additions = 0 /\ t.hunk.deletions = 0
  BY <1>11, <1>14 DEF Announced
<1>16. Front(e) = Front(d) /\ Last(e) = f /\ e # << >>
  <2>1. Front(d) \in Seq(GitFiles)
    BY <1>2, LastIs
  <2> QED
    BY <1>1, <2>1, FrontLast
<1>17. CurrentFile(f, t)
  <2>1. s.file.path = ShownPath(g.path)
    BY <1>9 DEF CurrentFile
  <2> HIDE DEF s
  <2> QED
    BY <1>1, <1>6, <1>10, <1>11, <1>15, <2>1 DEF CurrentFile
<1> HIDE DEF s, r
<1>18. ViewOf(e, t)
  BY <1>9, <1>15, <1>16, <1>17 DEF ViewOf
<1>19. ASSUME SumOf(d, s, r) PROVE SumOf(e, t, r)
  <2>1. Rec(r, SumFields) /\ CountsMatch(Front(d), s.files, r.files) /\ CountsSo(g, s, r.file)
    BY <1>2, <1>19 DEF SumOf
  <2>2. u.file.additions \in Nat /\ u.file.deletions \in Nat
    BY <1>11 DEF IsFile
  <2>3. CountsSo(f, t, r.file)
    BY <1>1, <1>11, <1>15, <2>1, <2>2 DEF CountsSo
  <2> QED
    BY <1>15, <1>16, <2>1, <2>3 DEF SumOf
<1> QED
  BY <1>12, <1>13, <1>18, <1>19 DEF s, r

(* The text grows by the line git writes.                                     *)
LEMMA NewLineText ==
  ASSUME NEW d, WellMade(d), d # << >>, NEW f \in GitFiles, NEW k \in GitHunks, NEW l \in GitLines,
         f.path = Last(d).path, f.form = Last(d).form,
         f.hunks = Append(Front(Last(d).hunks), k), LineOf(Last(Last(d).hunks), k, l)
  PROVE  /\ DfText(Append(Front(d), f)) = Append(DfText(d), l)
         /\ DfText(d) \in Seq(TextLines) /\ l \in TextLines
<1> DEFINE g == Last(d)
           gs == g.hunks
           h == Last(gs)
           b == Front(gs)
           f0 == [g EXCEPT !.hunks = b]
<1>1. d \in Seq(GitFiles) /\ HunksThere(d)
  BY DEF WellMade, HunksThere
<1>2. g \in GitFiles /\ gs \in Seq(GitHunks) /\ gs # << >>
  BY <1>1, LastHunks
<1>3. b \in Seq(GitHunks) /\ h \in GitHunks /\ gs = Append(b, h)
  <2> HIDE DEF gs
  <2> QED
    BY <1>2, LastIs
<1>4. f0 \in GitFiles /\ f0.path = g.path /\ f0.form = g.form /\ f0.hunks = b
  <2> HIDE DEF b, g
  <2> QED
    BY <1>2, <1>3, WithHunks
<1> HIDE DEF f0
<1>5. FileText(g) = FileText(f0) \o HunkText(f0, h) /\ FileText(f0) \in Seq(TextLines)
  <2>1. g.path = f0.path /\ g.form = f0.form /\ g.hunks = Append(f0.hunks, h)
    BY <1>3, <1>4
  <2> HIDE DEF g, h
  <2> QED
    BY <1>2, <1>3, <1>4, <2>1, FileTextMore
<1>6. FileText(f) = FileText(f0) \o HunkText(f0, k)
  <2>1. f.path = f0.path /\ f.form = f0.form /\ f.hunks = Append(f0.hunks, k)
    BY <1>3, <1>4
  <2> QED
    BY <1>4, <2>1, FileTextMore
<1>7. HunkText(f0, h) \in Seq(TextLines) /\ HunkText(f0, k) = Append(HunkText(f0, h), l)
  <2>1. SameStart(k, h) /\ k.lines = Append(h.lines, l)
    BY DEF LineOf
  <2> HIDE DEF h
  <2> QED
    BY <1>3, <1>4, <2>1, HunkTextIs
<1>8. l \in TextLines
  BY DEF TextLines
<1>9. FileText(f) = Append(FileText(g), l)
  <2>1. \A p, q \in Seq(TextLines) : p \o Append(q, l) = Append(p \o q, l)
    <3> HIDE DEF TextLines
    <3> QED
      BY <1>8
  <2> QED
    BY <1>5, <1>6, <1>7, <2>1
<1>10. f.hunks # << >>
  <2> HIDE DEF b
  <2> QED
    BY <1>3, FrontLast DEF b
<1> QED
  BY <1>1, <1>8, <1>9, <1>10, DfTextGrows

(* If all lines of a file are, so are those it had before.                  *)
LEMMA AlikeIs ==
  ASSUME NEW f \in GitFiles
  PROVE  /\ f.hunks \in Seq(GitHunks) /\ \A h \in 1..Len(f.hunks) : f.hunks[h].lines \in Seq(GitLines)
         /\ CountedAlike(f) <=>
              f.form \in {"kept", "created"} /\ \A h \in 1..Len(f.hunks) : \A i \in 1..Len(f.hunks[h].lines) : Alike(f.hunks[h].lines[i])
<1> DEFINE hs == f.hunks
<1>1. hs \in Seq(GitHunks) /\ DOMAIN hs = 1..Len(hs)
  BY DEF GitFiles
<1> HIDE DEF hs
<1>2. \A h \in 1..Len(hs) : hs[h].lines \in Seq(GitLines)
  <2>1. \A h \in 1..Len(hs) : hs[h] \in GitHunks
    BY <1>1
  <2> QED
    BY <2>1 DEF GitHunks
<1>3. \A h \in 1..Len(hs) : DOMAIN hs[h].lines = 1..Len(hs[h].lines)
  <2> TAKE h \in 1..Len(hs)
  <2> DEFINE ls == hs[h].lines
  <2>1. ls \in Seq(GitLines)
    BY <1>2
  <2> HIDE DEF ls
  <2>2. DOMAIN ls = 1..Len(ls)
    BY <2>1
  <2> QED
    BY <2>2 DEF ls
<1>4. CountedAlike(f) <=>
        f.form \in {"kept", "created"} /\ \A h \in 1..Len(hs) : \A i \in 1..Len(hs[h].lines) : Alike(hs[h].lines[i])
  BY <1>1, <1>3 DEF CountedAlike, Alike, hs
<1> QED
  BY <1>1, <1>2, <1>4 DEF hs

LEMMA AlikeHunks ==
  ASSUME NEW f \in GitFiles, NEW g \in GitFiles, NEW h \in GitHunks, f.form = g.form,
         f.hunks = Append(g.hunks, h), CountedAlike(f)
  PROVE  CountedAlike(g)
<1> DEFINE gs == g.hunks
           fs == f.hunks
<1>1. gs \in Seq(GitHunks) /\ fs = Append(gs, h)
  BY AlikeIs
<1> HIDE DEF fs, gs
<1>2. Len(fs) = Len(gs) + 1 /\ Len(gs) \in Nat /\ \A j \in 1..Len(gs) : fs[j] = gs[j] /\ j \in 1..Len(fs)
  BY <1>1, AppendIs
<1>3. f.form \in {"kept", "created"} /\ \A j \in 1..Len(fs) : \A i \in 1..Len(fs[j].lines) : Alike(fs[j].lines[i])
  BY AlikeIs DEF fs
<1>4. g.form \in {"kept", "created"} /\ \A j \in 1..Len(gs) : \A i \in 1..Len(gs[j].lines) : Alike(gs[j].lines[i])
  BY <1>2, <1>3
<1> QED
  BY <1>4, AlikeIs DEF gs

LEMMA AlikeLine ==
  ASSUME NEW f \in GitFiles, NEW g \in GitFiles, NEW b \in Seq(GitHunks), NEW h \in GitHunks, NEW k \in GitHunks,
         NEW l \in GitLines, f.form = g.form, g.hunks = Append(b, h), f.hunks = Append(b, k), LineOf(h, k, l),
         CountedAlike(f)
  PROVE  CountedAlike(g) /\ Alike(l)
<1> DEFINE gs == g.hunks
           fs == f.hunks
           n == Len(b)
           hl == h.lines
           kl == k.lines
<1>1. gs = Append(b, h) /\ fs = Append(b, k)
  OBVIOUS
<1>2. hl \in Seq(GitLines) /\ kl = Append(hl, l)
  BY DEF LineOf, GitHunks
<1> HIDE DEF fs, gs, hl, kl
<1>3. /\ Len(fs) = n + 1 /\ Len(gs) = n + 1 /\ n \in Nat /\ gs[n + 1] = h /\ fs[n + 1] = k
      /\ \A j \in 1..n : fs[j] = b[j] /\ gs[j] = b[j]
  BY <1>1, AppendIs
<1>4. Len(kl) = Len(hl) + 1 /\ Len(hl) \in Nat /\ kl[Len(hl) + 1] = l /\ \A i \in 1..Len(hl) : kl[i] = hl[i]
  BY <1>2, AppendIs
<1>5. f.form \in {"kept", "created"} /\ \A j \in 1..Len(fs) : \A i \in 1..Len(fs[j].lines) : Alike(fs[j].lines[i])
  BY AlikeIs DEF fs
<1>6. \A i \in 1..Len(kl) : Alike(kl[i])
  <2>1. n + 1 \in 1..Len(fs)
    BY <1>3
  <2> QED
    BY <1>3, <1>5, <2>1 DEF kl
<1>7. Alike(l) /\ \A i \in 1..Len(hl) : Alike(hl[i])
  <2>1. Len(hl) + 1 \in 1..Len(kl) /\ \A i \in 1..Len(hl) : i \in 1..Len(kl)
    BY <1>4
  <2> QED
    BY <1>4, <1>6, <2>1
<1>8. ASSUME NEW j \in 1..Len(gs), NEW i \in 1..Len(gs[j].lines) PROVE Alike(gs[j].lines[i])
  <2>1. CASE j = n + 1
    BY <1>3, <1>7, <1>8, <2>1 DEF hl
  <2>2. CASE j \in 1..n
    <3>1. gs[j] = fs[j] /\ j \in 1..Len(fs)
      BY <1>3, <2>2
    <3> QED
      BY <1>5, <1>8, <3>1
  <2> QED
    BY <1>3, <2>1, <2>2
<1> QED
  BY <1>5, <1>7, <1>8, AlikeIs DEF gs

(* Both readers keep up with a new line.                                    *)
LEMMA NewLineViewed ==
  ASSUME NEW d, WellMade(d), NEW e, NewLineOf(d, e), ViewOf(d, Viewed(DfText(d)))
  PROVE  /\ ViewOf(e, Viewed(DfText(e)))
         /\ CountedAlike(Last(e)) => CountedAlike(Last(d))
         /\ CountedAlike(Last(e)) /\ SumOf(d, Viewed(DfText(d)), Summed(DfText(d))) =>
              SumOf(e, Viewed(DfText(e)), Summed(DfText(e)))
<1> DEFINE s == Viewed(DfText(d))
           r == Summed(DfText(d))
           g == Last(d)
           gs == g.hunks
           h == Last(gs)
           b == Front(gs)
<1>1. PICK f \in GitFiles, k \in GitHunks, l \in GitLines :
       /\ e = Append(Front(d), f) /\ f.path = g.path /\ f.form = g.form
       /\ f.hunks = Append(b, k)
       /\ LineOf(h, k, l)
  BY DEF NewLineOf
<1>2. d # << >> /\ d \in Seq(GitFiles) /\ HunksThere(d)
  BY DEF NewLineOf, WellMade, HunksThere
<1>3. g \in GitFiles /\ gs \in Seq(GitHunks) /\ gs # << >>
  BY <1>2, LastHunks
<1>4. b \in Seq(GitHunks) /\ h \in GitHunks /\ gs = Append(b, h)
  <2> HIDE DEF gs
  <2> QED
    BY <1>3, LastIs
<1>5. DfText(e) = Append(DfText(d), l) /\ DfText(d) \in Seq(TextLines) /\ l \in TextLines
  BY <1>1, <1>2, NewLineText
<1>6. CurrentFile(g, s) /\ IsState(s) /\ FilesMatch(Front(d), s.files)
  BY <1>2 DEF ViewOf
<1> DEFINE t == ViewLine(s, l)
<1>7. IsFile(s.file) /\ s.file.path = ShownPath(g.path) /\ HunksMatch(b, s.file.hunks) /\ CurrentHunk(h, s)
  BY <1>6 DEF CurrentFile
<1>8. ReadInto(k, l, s, t)
  <2>1. s.file # NoDfFile
    BY <1>7, FileIsNot
  <2> HIDE DEF s, h
  <2> QED
    BY <1>1, <1>4, <1>6, <1>7, <2>1, LineRead
<1>9. Viewed(DfText(e)) = t /\ Summed(DfText(e)) = SummaryLine(r, l)
  BY <1>5, ViewedMore, SummedMore
<1> HIDE DEF s, r, t
<1>10. IsState(t) /\ CurrentHunk(k, t) /\ t.files = s.files /\ t.file = s.file
  BY <1>8 DEF ReadInto
<1>11. Front(e) = Front(d) /\ Last(e) = f /\ e # << >>
  <2>1. Front(d) \in Seq(GitFiles)
    BY <1>2, LastIs
  <2> QED
    BY <1>1, <2>1, FrontLast
<1>12. Front(f.hunks) = b /\ Last(f.hunks) = k
  <2> HIDE DEF b
  <2> QED
    BY <1>1, <1>4, FrontLast
<1>13. CurrentFile(f, t)
  BY <1>1, <1>7, <1>10, <1>12 DEF CurrentFile
<1>14. ViewOf(e, t)
  BY <1>6, <1>10, <1>11, <1>13 DEF ViewOf
<1>15. CountedAlike(f) => CountedAlike(g) /\ Alike(l)
  <2> HIDE DEF b, g, h
  <2> QED
    BY <1>1, <1>3, <1>4, AlikeLine DEF gs
<1>16. ASSUME CountedAlike(f), SumOf(d, s, r) PROVE SumOf(e, t, SummaryLine(r, l))
  <2>1. IsHunk(s.hunk)
    BY <1>7 DEF CurrentHunk
  <2> QED
    BY <1>1, <1>2, <1>7, <1>8, <1>11, <1>15, <1>16, <2>1, SumFollows
<1> QED
  BY <1>9, <1>11, <1>14, <1>15, <1>16 DEF s, r, g

-----------------------------------------------------------------------------
(* Lines an agent sent without a header never end a file.                     *)
NoFilesYet(s) == "files" \in DOMAIN s /\ s.files = << >>

(* No operation on a line ends a file.                                      *)
LEMMA FlushedYet == ASSUME NEW s, NoFilesYet(s) PROVE NoFilesYet(Flushed(s))
BY DEF NoFilesYet, Flushed

LEMMA LinesYet ==
  ASSUME NEW s, NoFilesYet(s), NEW w
  PROVE  NoFilesYet(AddedLine(s, w)) /\ NoFilesYet(RemovedLine(s, w))
BY DEF NoFilesYet, AddedLine, RemovedLine

LEMMA ContextYet == ASSUME NEW s, NoFilesYet(s), NEW w PROVE NoFilesYet(ContextLine(s, w))
<1> DEFINE f == Flushed(s)
           v == ShownLine(" ", s.old, s.new, w)
           t == [f EXCEPT !.hunk.lines = Append(@, v), !.old = @ + 1, !.new = @ + 1]
<1>1. ContextLine(s, w) = t
  BY DEF ContextLine
<1>2. NoFilesYet(f)
  BY FlushedYet
<1> HIDE DEF f, v
<1>3. NoFilesYet(t)
  BY <1>2 DEF NoFilesYet
<1> QED
  BY <1>1, <1>3

LEMMA ImplicitYet == ASSUME NEW s, NoFilesYet(s), NEW l PROVE NoFilesYet(ImplicitHunk(s, l))
<1> DEFINE a == InFile(s, <<"snippet">>)
           begun == [a EXCEPT !.hunk = FreshHunk, !.old = 1, !.new = 1]
           first == IF l[1] = "+" THEN AddedLine(begun, l[2]) ELSE RemovedLine(begun, l[2])
           t == [first EXCEPT !.removed = s.removed, !.added = s.added]
<1>1. ImplicitHunk(s, l) = t
  BY DEF ImplicitHunk
<1>2. NoFilesYet(a)
  BY DEF NoFilesYet, InFile
<1> HIDE DEF a
<1>3. NoFilesYet(begun)
  BY <1>2 DEF NoFilesYet
<1> HIDE DEF begun
<1>4. NoFilesYet(first)
  BY <1>3, LinesYet
<1> HIDE DEF first
<1>5. NoFilesYet(t)
  BY <1>4 DEF NoFilesYet
<1> QED
  BY <1>1, <1>5

LEMMA LineYet ==
  ASSUME NEW s, NoFilesYet(s), NEW l \in GitLines
  PROVE  NoFilesYet(ViewLine(s, l))
<1> DEFINE A == AddedLine(s, l[2])
           R == RemovedLine(s, l[2])
           C == ContextLine(s, l[2])
           I == ImplicitHunk(s, l)
           F == InFile(s, HeaderRest(l))
<1>1. NoFilesYet(A) /\ NoFilesYet(R) /\ NoFilesYet(C) /\ NoFilesYet(I)
  BY LinesYet, ContextYet, ImplicitYet
<1>2. NoFilesYet(F)
  BY DEF NoFilesYet, InFile
<1>3. Begins(l) # "diff" /\ Begins(l) # "@@"
  <2>1. l[1] \in Kinds
    BY GitLineIs
  <2>2. Begins(l) \in {"---", "+++", l[1]}
    BY DEF Begins
  <2>3. "diff" \notin Kinds /\ "@@" \notin Kinds
    BY Zenon DEF Kinds
  <2> QED
    BY <2>1, <2>2, <2>3
<1>4. ViewLine(s, l) \in {s, A, R, C, I, F}
  BY <1>3 DEF ViewLine
<1> HIDE DEF A, R, C, I, F
<1> QED
  BY <1>1, <1>2, <1>4

-----------------------------------------------------------------------------
(* A hunk that is drawn.                                                      *)
LEMMA OldNumber ==
  ASSUME NEW from, NEW ls, NEW i PROVE NumberAfter(from, ls, i - 1, OldSide) = from + Count(ls, OldKinds, i)
BY DEF NumberAfter, Count, OldSide, OldKinds

LEMMA NewNumber ==
  ASSUME NEW from, NEW ls, NEW i PROVE NumberAfter(from, ls, i - 1, NewSide) = from + Count(ls, NewKinds, i)
BY DEF NumberAfter, Count, NewSide, NewKinds

LEMMA SidesAre == ASSUME NEW k PROVE (OldSide(k) <=> k \in OldKinds) /\ (NewSide(k) <=> k \in NewKinds)
BY DEF OldSide, NewSide, OldKinds, NewKinds

LEMMA CellIsNot == ASSUME NEW x, NEW y, NEW z PROVE [number |-> x, sign |-> y, text |-> z] # NoLine
<1> DEFINE v == [number |-> x, sign |-> y, text |-> z]
<1>1. DOMAIN v = {"number", "sign", "text"} /\ DOMAIN NoLine = {"kind"}
  BY DEF NoLine
<1>2. {"number", "sign", "text"} # {"kind"}
  OBVIOUS
<1> HIDE DEF v
<1>3. v # NoLine
  BY <1>1, <1>2
<1> QED
  BY <1>3 DEF v

(* The cells of a row.                                                      *)
LEMMA OldCell ==
  ASSUME NEW line, line # NoLine, line.kind \in OldKinds, NEW e
  PROVE  SplitCell(line, TRUE, e) = [number |-> line.old, sign |-> line.kind, text |-> WordsSpan(line, e)]
<1>1. line.kind = "-" \/ (line.kind = " " /\ TRUE)
  BY Zenon DEF OldKinds
<1> QED
  BY <1>1, Zenon DEF SplitCell

LEMMA NewCell ==
  ASSUME NEW line, line # NoLine, line.kind \in NewKinds, NEW e
  PROVE  SplitCell(line, FALSE, e) = [number |-> line.new, sign |-> line.kind, text |-> WordsSpan(line, e)]
<1>1. ~(line.kind = "-" \/ (line.kind = " " /\ FALSE))
  BY Zenon DEF NewKinds
<1> QED
  BY <1>1, Zenon DEF SplitCell

LEMMA CellThere ==
  ASSUME NEW line, NEW left, NEW e
  PROVE  SplitCell(line, left, e) # NoLine <=> line # NoLine
<1>1. CASE line = NoLine
  BY <1>1 DEF SplitCell
<1>2. CASE line # NoLine
  <2> DEFINE n == IF line.kind = "-" \/ (line.kind = " " /\ left) THEN line.old ELSE line.new
             s == line.kind
             t == WordsSpan(line, e)
  <2>1. SplitCell(line, left, e) = [number |-> n, sign |-> s, text |-> t]
    BY <1>2, Zenon DEF SplitCell
  <2> HIDE DEF n, s, t
  <2> QED
    BY <1>2, <2>1, CellIsNot
<1> QED
  BY <1>1, <1>2

(* The rows of the unified drawing.                                           *)
Rows(L) == [i \in DOMAIN L |-> UnifiedRow(L[i], TRUE)]
SplitDrawn(R) == [i \in DOMAIN R |-> <<SplitCell(R[i][1], TRUE, TRUE), SplitCell(R[i][2], FALSE, TRUE)>>]

LEMMA RowsAre ==
  ASSUME NEW T, NEW L \in Seq(T)
  PROVE  /\ DOMAIN Rows(L) = 1..Len(L)
         /\ \A i \in 1..Len(L) :
              /\ Rows(L)[i].sign = L[i].kind /\ Rows(L)[i].text = WordsSpan(L[i], TRUE) /\ Rows(L)[i].text[1] = L[i].words
              /\ Rows(L)[i].old = L[i].old /\ Rows(L)[i].new = L[i].new
<1>1. DOMAIN L = 1..Len(L)
  OBVIOUS
<1>2. ASSUME NEW v
      PROVE  /\ UnifiedRow(v, TRUE).sign = v.kind /\ UnifiedRow(v, TRUE).text = WordsSpan(v, TRUE)
             /\ UnifiedRow(v, TRUE).old = v.old /\ UnifiedRow(v, TRUE).new = v.new
  BY DEF UnifiedRow
<1>3. ASSUME NEW v PROVE WordsSpan(v, TRUE)[1] = v.words
  BY DEF WordsSpan
<1>4. ASSUME NEW i \in 1..Len(L) PROVE Rows(L)[i] = UnifiedRow(L[i], TRUE)
  BY <1>1 DEF Rows
<1>5. DOMAIN Rows(L) = 1..Len(L)
  BY <1>1 DEF Rows
<1> QED
  BY <1>2, <1>3, <1>4, <1>5

(* The rows of the unified drawing are the lines kept.                      *)
LinesDrawn(ls, rows) ==
  \E at \in [Kept(ls) -> DOMAIN rows] :
    /\ \A i, j \in Kept(ls) : i < j => at[i] < at[j]
    /\ \A q \in DOMAIN rows : \E p \in Kept(ls) : at[p] = q
    /\ \A p \in Kept(ls) : ls[p] = <<rows[at[p]].sign, rows[at[p]].text[1]>>

LEMMA LinesInOrder ==
  ASSUME NEW T, NEW L \in Seq(T), NEW ls, NEW at, ShownAs(ls, L, at)
  PROVE  LinesDrawn(ls, Rows(L))
<1> DEFINE P == Kept(ls)
           Q == 1..Len(L)
           rows == Rows(L)
<1>1. DOMAIN rows = Q /\ \A i \in Q : rows[i].sign = L[i].kind /\ rows[i].text[1] = L[i].words
  BY RowsAre
<1>2. /\ at \in [P -> Q] /\ (\A i, j \in P : i < j => at[i] < at[j]) /\ (\A q \in Q : \E p \in P : at[p] = q)
      /\ \A i \in P : ls[i] = <<L[at[i]].kind, L[at[i]].words>>
  BY DEF ShownAs, Along
<1> HIDE DEF P, Q, rows
<1>3. \A i \in P : ls[i] = <<rows[at[i]].sign, rows[at[i]].text[1]>>
  BY <1>1, <1>2
<1>4. LinesDrawn(ls, rows)
  BY <1>1, <1>2, <1>3 DEF LinesDrawn, P
<1> QED
  BY <1>4 DEF rows

(* The rows of the split drawing.                                           *)
LEMMA DrawnAre ==
  ASSUME NEW T, NEW R \in Seq(T)
  PROVE  /\ DOMAIN SplitDrawn(R) = 1..Len(R)
         /\ \A r \in 1..Len(R) : /\ SplitDrawn(R)[r][1] = SplitCell(R[r][1], TRUE, TRUE)
                                 /\ SplitDrawn(R)[r][2] = SplitCell(R[r][2], FALSE, TRUE)
<1>1. DOMAIN R = 1..Len(R)
  OBVIOUS
<1> QED
  BY <1>1 DEF SplitDrawn

(* Its columns are the two sides of the unified rows.                       *)
OldKept(rows, split) ==
  LET P == {r \in DOMAIN split : split[r][1] # NoLine}
      Q == {i \in DOMAIN rows : OldSide(rows[i].sign)}
  IN \E at \in [P -> Q] :
       /\ \A i, j \in P : i < j => at[i] < at[j]
       /\ \A q \in Q : \E p \in P : at[p] = q
       /\ \A p \in P : split[p][1] = [number |-> rows[at[p]].old, sign |-> rows[at[p]].sign, text |-> rows[at[p]].text]

NewKept(rows, split) ==
  LET P == {r \in DOMAIN split : split[r][2] # NoLine}
      Q == {i \in DOMAIN rows : NewSide(rows[i].sign)}
  IN \E at \in [P -> Q] :
       /\ \A i, j \in P : i < j => at[i] < at[j]
       /\ \A q \in Q : \E p \in P : at[p] = q
       /\ \A p \in P : split[p][2] = [number |-> rows[at[p]].new, sign |-> rows[at[p]].sign, text |-> rows[at[p]].text]

LEMMA OldColumn ==
  ASSUME NEW T, NEW L \in Seq(T), \A i \in 1..Len(L) : L[i] # NoLine,
         NEW U, NEW R \in Seq(U), ColumnIs(R, 1, L, 1, Len(L) + 1, OldKinds)
  PROVE  OldKept(Rows(L), SplitDrawn(R))
<1> DEFINE rows == Rows(L)
           split == SplitDrawn(R)
           n == Len(L)
           P == {r \in DOMAIN split : split[r][1] # NoLine}
           Q == {i \in DOMAIN rows : OldSide(rows[i].sign)}
           Same(r, i) == split[r][1] = [number |-> rows[i].old, sign |-> rows[i].sign, text |-> rows[i].text]
<1>1. /\ DOMAIN rows = 1..n
      /\ \A i \in 1..n : rows[i].sign = L[i].kind /\ rows[i].text = WordsSpan(L[i], TRUE) /\ rows[i].old = L[i].old
  BY RowsAre
<1>2. DOMAIN split = 1..Len(R) /\ \A r \in 1..Len(R) : split[r][1] = SplitCell(R[r][1], TRUE, TRUE)
  BY DrawnAre
<1>3. PICK at : Along(at, Cells1(R, 1), Sided(L, 1, n + 1, OldKinds)) /\ \A r \in Cells1(R, 1) : R[r][1] = L[at[r]]
  BY DEF ColumnIs
<1> HIDE DEF rows, split
<1>4. P = Cells1(R, 1)
  <2>1. \A r \in 1..Len(R) : split[r][1] # NoLine <=> R[r][1] # NoLine
    BY <1>2, CellThere
  <2>2. DOMAIN R = 1..Len(R)
    OBVIOUS
  <2>3. Cells1(R, 1) = {r \in DOMAIN split : R[r][1] # NoLine}
    BY <1>2, <2>2 DEF Cells1
  <2> QED
    BY <1>2, <2>1, <2>3
<1>5. Q = Sided(L, 1, n + 1, OldKinds) /\ \A i \in Q : i \in 1..n /\ L[i].kind \in OldKinds
  <2>1. n \in Nat /\ (n + 1) - 1 = n
    OBVIOUS
  <2>2. Sided(L, 1, n + 1, OldKinds) = {j \in 1..n : L[j].kind \in OldKinds}
    BY <2>1 DEF Sided
  <2>3. \A i \in 1..n : OldSide(rows[i].sign) <=> L[i].kind \in OldKinds
    BY <1>1, SidesAre
  <2> QED
    BY <1>1, <2>2, <2>3
<1> HIDE DEF P, Q
<1>6. /\ at \in [P -> Q] /\ (\A i, j \in P : i < j => at[i] < at[j]) /\ (\A q \in Q : \E p \in P : at[p] = q)
  BY <1>3, <1>4, <1>5 DEF Along
<1>7. ASSUME NEW r \in P PROVE Same(r, at[r])
  <2> DEFINE line == L[at[r]]
  <2>1. at[r] \in Q /\ at[r] \in 1..n /\ line.kind \in OldKinds /\ line # NoLine /\ R[r][1] = line /\ r \in 1..Len(R)
    BY <1>3, <1>4, <1>5, <1>6 DEF Cells1
  <2>2. split[r][1] = SplitCell(line, TRUE, TRUE)
    BY <1>2, <2>1
  <2>3. rows[at[r]].sign = line.kind /\ rows[at[r]].text = WordsSpan(line, TRUE) /\ rows[at[r]].old = line.old
    BY <1>1, <2>1
  <2> HIDE DEF line
  <2>4. SplitCell(line, TRUE, TRUE) = [number |-> line.old, sign |-> line.kind, text |-> WordsSpan(line, TRUE)]
    BY <2>1, OldCell
  <2> QED
    BY <2>2, <2>3, <2>4
<1>8. OldKept(rows, split)
  BY <1>6, <1>7 DEF OldKept, P, Q
<1> QED
  BY <1>8 DEF rows, split

LEMMA NewColumn ==
  ASSUME NEW T, NEW L \in Seq(T), \A i \in 1..Len(L) : L[i] # NoLine,
         NEW U, NEW R \in Seq(U), ColumnIs(R, 2, L, 1, Len(L) + 1, NewKinds)
  PROVE  NewKept(Rows(L), SplitDrawn(R))
<1> DEFINE rows == Rows(L)
           split == SplitDrawn(R)
           n == Len(L)
           P == {r \in DOMAIN split : split[r][2] # NoLine}
           Q == {i \in DOMAIN rows : NewSide(rows[i].sign)}
           Same(r, i) == split[r][2] = [number |-> rows[i].new, sign |-> rows[i].sign, text |-> rows[i].text]
<1>1. /\ DOMAIN rows = 1..n
      /\ \A i \in 1..n : rows[i].sign = L[i].kind /\ rows[i].text = WordsSpan(L[i], TRUE) /\ rows[i].new = L[i].new
  BY RowsAre
<1>2. DOMAIN split = 1..Len(R) /\ \A r \in 1..Len(R) : split[r][2] = SplitCell(R[r][2], FALSE, TRUE)
  BY DrawnAre
<1>3. PICK at : Along(at, Cells1(R, 2), Sided(L, 1, n + 1, NewKinds)) /\ \A r \in Cells1(R, 2) : R[r][2] = L[at[r]]
  BY DEF ColumnIs
<1> HIDE DEF rows, split
<1>4. P = Cells1(R, 2)
  <2>1. \A r \in 1..Len(R) : split[r][2] # NoLine <=> R[r][2] # NoLine
    BY <1>2, CellThere
  <2>2. DOMAIN R = 1..Len(R)
    OBVIOUS
  <2>3. Cells1(R, 2) = {r \in DOMAIN split : R[r][2] # NoLine}
    BY <1>2, <2>2 DEF Cells1
  <2> QED
    BY <1>2, <2>1, <2>3
<1>5. Q = Sided(L, 1, n + 1, NewKinds) /\ \A i \in Q : i \in 1..n /\ L[i].kind \in NewKinds
  <2>1. n \in Nat /\ (n + 1) - 1 = n
    OBVIOUS
  <2>2. Sided(L, 1, n + 1, NewKinds) = {j \in 1..n : L[j].kind \in NewKinds}
    BY <2>1 DEF Sided
  <2>3. \A i \in 1..n : NewSide(rows[i].sign) <=> L[i].kind \in NewKinds
    BY <1>1, SidesAre
  <2> QED
    BY <1>1, <2>2, <2>3
<1> HIDE DEF P, Q
<1>6. /\ at \in [P -> Q] /\ (\A i, j \in P : i < j => at[i] < at[j]) /\ (\A q \in Q : \E p \in P : at[p] = q)
  BY <1>3, <1>4, <1>5 DEF Along
<1>7. ASSUME NEW r \in P PROVE Same(r, at[r])
  <2> DEFINE line == L[at[r]]
  <2>1. at[r] \in Q /\ at[r] \in 1..n /\ line.kind \in NewKinds /\ line # NoLine /\ R[r][2] = line /\ r \in 1..Len(R)
    BY <1>3, <1>4, <1>5, <1>6 DEF Cells1
  <2>2. split[r][2] = SplitCell(line, FALSE, TRUE)
    BY <1>2, <2>1
  <2>3. rows[at[r]].sign = line.kind /\ rows[at[r]].text = WordsSpan(line, TRUE) /\ rows[at[r]].new = line.new
    BY <1>1, <2>1
  <2> HIDE DEF line
  <2>4. SplitCell(line, FALSE, TRUE) = [number |-> line.new, sign |-> line.kind, text |-> WordsSpan(line, TRUE)]
    BY <2>1, NewCell
  <2> QED
    BY <2>2, <2>3, <2>4
<1>8. NewKept(rows, split)
  BY <1>6, <1>7 DEF NewKept, P, Q
<1> QED
  BY <1>8 DEF rows, split

-----------------------------------------------------------------------------
(* What is known of a hunk that was read.                                   *)
LEMMA LinesThere ==
  ASSUME NEW g \in GitHunks, NEW v, HunkMatches(g, v)
  PROVE  /\ v.lines \in Seq(ShownLines) /\ Lines(ShownLines, v.lines) /\ NoTurn(v.lines)
         /\ \A i \in 1..Len(v.lines) : v.lines[i] # NoLine
         /\ MarkedTo(v.lines, Len(v.lines) + 1)
         /\ HunkLines(g, v.lines)
<1> DEFINE L == v.lines
<1>1. HunkLines(g, L) /\ MarkedTo(L, Len(L) + 1) /\ L \in Seq(ShownLines) /\ NoTurn(L)
  BY DEF HunkMatches, HunkLines
<1> HIDE DEF L
<1>2. ASSUME NEW i \in 1..Len(L) PROVE L[i].kind \in Kinds
  <2>1. L[i] \in ShownLines
    BY <1>1
  <2> DEFINE x == L[i]
  <2> HIDE DEF x
  <2>2. x \in ShownLines => x.kind \in Kinds
    BY DEF ShownLines
  <2> QED
    BY <2>1, <2>2 DEF x
<1>3. Lines(ShownLines, L)
  BY <1>1, <1>2 DEF Lines
<1>4. \A i \in 1..Len(L) : L[i] # NoLine
  BY <1>3, LineIsThere
<1> QED
  BY <1>1, <1>3, <1>4 DEF L

(* The numbers drawn are those in the files.                                *)
NumbersKept(git, rows) ==
  Kept(git.lines) = DOMAIN git.lines => \A i \in DOMAIN rows :
    /\ OldSide(rows[i].sign) => rows[i].old = NumberAfter(git.old, git.lines, i - 1, OldSide)
    /\ NewSide(rows[i].sign) => rows[i].new = NumberAfter(git.new, git.lines, i - 1, NewSide)

LEMMA KeptInParts ==
  ASSUME NEW git, NEW u, NEW s, LinesDrawn(git.lines, u.rows), NumbersKept(git, u.rows),
         OldKept(u.rows, s.rows), NewKept(u.rows, s.rows)
  PROVE  HunkKept(git, u, s)
<1>1. InOrder(Kept(git.lines), DOMAIN u.rows, LAMBDA i, r : git.lines[i] = <<u.rows[r].sign, u.rows[r].text[1]>>)
  BY DEF LinesDrawn, InOrder
<1>2. SideKept(u.rows, s.rows, 1, OldSide, LAMBDA row : row.old)
  BY DEF OldKept, SideKept, InOrder
<1>3. SideKept(u.rows, s.rows, 2, NewSide, LAMBDA row : row.new)
  BY DEF NewKept, SideKept, InOrder
<1> QED
  BY <1>1, <1>2, <1>3, Zenon DEF HunkKept, NumbersKept

(* A hunk that matches is kept.                                             *)
LEMMA HunkIsKept ==
  ASSUME NEW g \in GitHunks, NEW v, HunkMatches(g, v)
  PROVE  HunkKept(g, UnifiedHunk(v, FALSE, TRUE), SplitHunk(v, FALSE, TRUE))
<1> DEFINE L == v.lines
           R == SplitRows(L)
           ls == g.lines
           rows == Rows(L)
<1>1. /\ L \in Seq(ShownLines) /\ Lines(ShownLines, L) /\ NoTurn(L) /\ HunkLines(g, L)
      /\ \A i \in 1..Len(L) : L[i] # NoLine
  BY LinesThere
<1>2. UnifiedHunk(v, FALSE, TRUE).rows = rows /\ SplitHunk(v, FALSE, TRUE).rows = SplitDrawn(R)
  BY DEF UnifiedHunk, SplitHunk, Rows, SplitDrawn
<1> HIDE DEF L, rows, R
<1>3. /\ R \in Seq(RowSet(ShownLines))
      /\ ColumnIs(R, 1, L, 1, Len(L) + 1, OldKinds) /\ ColumnIs(R, 2, L, 1, Len(L) + 1, NewKinds)
  BY <1>1, SplitRowsRight DEF R
<1>4. OldKept(rows, SplitDrawn(R))
  BY <1>1, <1>3, OldColumn DEF rows
<1>5. NewKept(rows, SplitDrawn(R))
  BY <1>1, <1>3, NewColumn DEF rows
<1>6. LinesDrawn(ls, rows)
  <2>1. PICK at : ShownAs(ls, L, at)
    BY <1>1 DEF HunkLines
  <2> QED
    BY <1>1, <2>1, LinesInOrder DEF rows
<1>7. ASSUME Kept(ls) = DOMAIN ls, NEW i \in DOMAIN rows
      PROVE  /\ OldSide(rows[i].sign) => rows[i].old = NumberAfter(g.old, ls, i - 1, OldSide)
             /\ NewSide(rows[i].sign) => rows[i].new = NumberAfter(g.new, ls, i - 1, NewSide)
  <2>1. AllKept(ls)
    <3>1. ls \in Seq(GitLines)
      BY DEF GitHunks
    <3> HIDE DEF ls
    <3>2. DOMAIN ls = 1..Len(ls)
      BY <3>1
    <3> QED
      BY <1>7, <3>2 DEF AllKept
  <2>2. Numbered(g, L)
    BY <1>1, <2>1 DEF HunkLines
  <2>3. i \in 1..Len(L) /\ rows[i].sign = L[i].kind /\ rows[i].old = L[i].old /\ rows[i].new = L[i].new
    BY <1>1, <1>7, RowsAre DEF rows
  <2>4. /\ L[i].kind \in OldKinds => L[i].old = g.old + Count(ls, OldKinds, i)
        /\ L[i].kind \in NewKinds => L[i].new = g.new + Count(ls, NewKinds, i)
    BY <2>2, <2>3 DEF Numbered
  <2> HIDE DEF ls
  <2> QED
    BY <2>3, <2>4, SidesAre, OldNumber, NewNumber
<1>8. NumbersKept(g, rows)
  BY <1>7 DEF NumbersKept
<1> HIDE DEF ls
<1> DEFINE u == UnifiedHunk(v, FALSE, TRUE)
           s == SplitHunk(v, FALSE, TRUE)
<1>9. /\ LinesDrawn(g.lines, u.rows) /\ NumbersKept(g, u.rows)
      /\ OldKept(u.rows, s.rows) /\ NewKept(u.rows, s.rows)
  BY <1>2, <1>4, <1>5, <1>6, <1>8 DEF ls
<1> HIDE DEF u, s
<1>10. HunkKept(g, u, s)
  BY <1>9, KeptInParts
<1> QED
  BY <1>10 DEF u, s

(* Two lines set against each other.                                          *)
LinesPair(gone, come) ==
  /\ SameWords(gone.words, Unmarked(gone), come.words, Unmarked(come))
  /\ \A P \in SUBSET (DOMAIN gone.words), Q \in SUBSET (DOMAIN come.words) :
       SameWords(gone.words, P, come.words, Q) => Cardinality(P) <= Len(Lcs(gone.words, come.words))

(* No longer common part is left out.                                       *)
LEMMA NoneLonger ==
  ASSUME NEW W, NEW a \in Seq(W), NEW b \in Seq(W),
         NEW P \in SUBSET (DOMAIN a), NEW Q \in SUBSET (DOMAIN b), SameWords(a, P, b, Q)
  PROVE  Cardinality(P) <= Len(Lcs(a, b))
<1>1. PICK at \in [P -> Q] :
        /\ \A i, j \in P : i < j => at[i] < at[j]
        /\ \A q \in Q : \E p \in P : at[p] = q
        /\ \A p \in P : a[p] = b[at[p]]
  BY DEF SameWords, InOrder
<1>2. DOMAIN a = 1..Len(a) /\ DOMAIN b = 1..Len(b)
  OBVIOUS
<1>3. Along(at, P, Q)
  BY <1>1 DEF Along
<1> QED
  BY <1>1, <1>2, <1>3, LcsIsLongest

(* Lines marked against each other satisfy both.                            *)
LEMMA MarkedPair ==
  ASSUME NEW W, NEW x, NEW y, x.words \in Seq(W), y.words \in Seq(W),
         x.marks = MarkedWords(x.words, y.words, FALSE), y.marks = MarkedWords(y.words, x.words, TRUE)
  PROVE  LinesPair(x, y)
<1> DEFINE u == x.words
           v == y.words
<1>1. Unmarked(x) = LeftPlain(u, MarkedWords(u, v, FALSE)) /\ Unmarked(y) = LeftPlain(v, MarkedWords(v, u, TRUE))
  BY DEF Unmarked, LeftPlain
<1>2. u \in Seq(W) /\ v \in Seq(W)
  OBVIOUS
<1> HIDE DEF u, v
<1>3. SameWords(u, Unmarked(x), v, Unmarked(y))
  BY <1>1, <1>2, PlainWordsAgree
<1>4. \A P \in SUBSET (DOMAIN u), Q \in SUBSET (DOMAIN v) : SameWords(u, P, v, Q) => Cardinality(P) <= Len(Lcs(u, v))
  BY <1>2, NoneLonger
<1> QED
  BY <1>3, <1>4 DEF LinesPair, u, v

(* The rows of the split drawing only pair such lines.                      *)
LEMMA RowsPair ==
  ASSUME NEW g \in GitHunks, NEW w, HunkMatches(g, w), NEW R, R = SplitRows(w.lines),
         NEW r \in DOMAIN R, R[r][1].kind = "-", R[r][2].kind = "+"
  PROVE  LinesPair(R[r][1], R[r][2])
<1> DEFINE L == w.lines
<1>1. /\ L \in Seq(ShownLines) /\ Lines(ShownLines, L) /\ NoTurn(L)
      /\ MarkedTo(L, Len(L) + 1) /\ R = SplitRows(L)
  BY LinesThere
<1> HIDE DEF L
<1>2. R \in Seq(RowSet(ShownLines)) /\ PairsIn(R, L)
  BY <1>1, SplitRowsRight
<1>3. DOMAIN R = 1..Len(R)
  BY <1>2
<1>4. PICK a \in 1..Len(L), b \in 1..Len(L) : Opposite(L, a, b) /\ R[r][1] = L[a] /\ R[r][2] = L[b]
  BY <1>2, <1>3 DEF PairsIn
<1>5. b < Len(L) + 1
  BY <1>1
<1>6. PairMarked(L, a, b)
  <2> DEFINE p == Len(L) + 1
  <2>1. MarkedTo(L, p) /\ b < p
    BY <1>1, <1>5
  <2> HIDE DEF p
  <2> QED
    BY <1>4, <2>1 DEF MarkedTo
<1>7. L[a] \in ShownLines /\ L[b] \in ShownLines
  BY <1>1
<1> DEFINE x == L[a]
           y == L[b]
<1>8. /\ x.marks = MarkedWords(x.words, y.words, FALSE) /\ y.marks = MarkedWords(y.words, x.words, TRUE)
      /\ x \in ShownLines /\ y \in ShownLines
  BY <1>6, <1>7 DEF PairMarked
<1> HIDE DEF x, y
<1>9. x.words \in Seq(STRING) /\ y.words \in Seq(STRING)
  BY <1>8 DEF ShownLines
<1>10. LinesPair(x, y)
  BY <1>8, <1>9, MarkedPair
<1> QED
  BY <1>4, <1>10 DEF x, y

(* So do all hunks of all files.                                            *)
LEMMA WordsArePaired ==
  ASSUME dfDiff \in Seq(GitFiles), NEW view, FilesMatch(dfDiff, view)
  PROVE  WordsPair(view)
<1>1. ASSUME NEW f \in DOMAIN view, NEW h \in DOMAIN view[f].hunks, NEW R, R = SplitRows(view[f].hunks[h].lines),
             NEW r \in DOMAIN R, R[r][1].kind = "-", R[r][2].kind = "+"
      PROVE  LinesPair(R[r][1], R[r][2])
  <2> DEFINE gs == dfDiff[f].hunks
             vs == view[f].hunks
  <2>1. view \in Seq(FileSet) /\ Len(view) = Len(dfDiff) /\ f \in 1..Len(dfDiff)
    BY DEF FilesMatch
  <2>2. HunksMatch(gs, vs)
    BY <2>1 DEF FilesMatch, FileMatches
  <2>3. gs \in Seq(GitHunks)
    <3>1. dfDiff[f] \in GitFiles
      BY <2>1
    <3> QED
      BY <3>1 DEF GitFiles
  <2>4. R = SplitRows(vs[h].lines) /\ h \in DOMAIN vs
    BY <1>1
  <2> HIDE DEF gs, vs
  <2>5. h \in 1..Len(gs) /\ HunkMatches(gs[h], vs[h]) /\ gs[h] \in GitHunks
    BY <2>2, <2>3, <2>4 DEF HunksMatch
  <2> QED
    BY <1>1, <2>4, <2>5, RowsPair
<1>2. \A f \in DOMAIN view : \A h \in DOMAIN view[f].hunks : \A r \in DOMAIN SplitRows(view[f].hunks[h].lines) :
        LET gone == SplitRows(view[f].hunks[h].lines)[r][1]
            come == SplitRows(view[f].hunks[h].lines)[r][2]
        IN gone.kind = "-" /\ come.kind = "+" => LinesPair(gone, come)
  BY <1>1
<1> QED
  BY <1>2, ZenonT(30) DEF WordsPair, LinesPair

(* The two ways of drawing.                                                 *)
SplitViewer == [FreshViewer EXCEPT !.mode = "split"]

LEMMA NoneFolded ==
  ASSUME NEW v, NEW h
  PROVE  /\ UnifiedHunk(v, h \in {}, TRUE) = UnifiedHunk(v, FALSE, TRUE)
         /\ SplitHunk(v, h \in {}, TRUE) = SplitHunk(v, FALSE, TRUE)
<1>1. UnifiedHunk(v, h \in {}, TRUE) = UnifiedHunk(v, FALSE, TRUE)
  BY DEF UnifiedHunk
<1>2. SplitHunk(v, h \in {}, TRUE) = SplitHunk(v, FALSE, TRUE)
  BY DEF SplitHunk
<1> QED
  BY <1>1, <1>2

LEMMA ViewersAre ==
  /\ FreshViewer.mode = "unified" /\ FreshViewer.folded = {} /\ FreshViewer.emphasis = TRUE
  /\ SplitViewer.mode = "split" /\ SplitViewer.folded = {} /\ SplitViewer.emphasis = TRUE
BY DEF FreshViewer, SplitViewer

(* A file that is drawn.                                                      *)
LEMMA FileDrawn ==
  ASSUME NEW v \in FileSet
  PROVE  /\ DrawnFile(v, FreshViewer).path = v.path
         /\ DrawnFile(v, FreshViewer).stats = <<v.additions, v.deletions>>
         /\ Len(DrawnFile(v, FreshViewer).hunks) = Len(v.hunks)
         /\ \A h \in 1..Len(v.hunks) :
              /\ DrawnFile(v, FreshViewer).hunks[h] = UnifiedHunk(v.hunks[h], FALSE, TRUE)
              /\ DrawnFile(v, SplitViewer).hunks[h] = SplitHunk(v.hunks[h], FALSE, TRUE)
<1> DEFINE H == v.hunks
           n == Len(H)
           A == [h \in 1..n |-> UnifiedHunk(H[h], FALSE, TRUE)]
           B == [h \in 1..n |-> SplitHunk(H[h], FALSE, TRUE)]
<1>1. H \in Seq(HunkSet) /\ n \in Nat /\ DOMAIN H = 1..n
  BY DEF FileSet, IsFile
<1>2. DrawnFile(v, FreshViewer) = [path |-> v.path, stats |-> <<v.additions, v.deletions>>, hunks |-> A]
  BY <1>1, ViewersAre, NoneFolded DEF DrawnFile
<1>3. DrawnFile(v, SplitViewer).hunks = B
  BY <1>1, ViewersAre, NoneFolded DEF DrawnFile
<1>4. Len(A) = n
  <2>1. A \in [1..n -> {UnifiedHunk(H[h], FALSE, TRUE) : h \in 1..n}]
    OBVIOUS
  <2> HIDE DEF A
  <2> QED
    BY <1>1, <2>1, FunctionIsSeq
<1>5. \A h \in 1..n : A[h] = UnifiedHunk(H[h], FALSE, TRUE) /\ B[h] = SplitHunk(H[h], FALSE, TRUE)
  OBVIOUS
<1> HIDE DEF A, B
<1>6. /\ DrawnFile(v, FreshViewer).path = v.path /\ DrawnFile(v, FreshViewer).hunks = A
      /\ DrawnFile(v, FreshViewer).stats = <<v.additions, v.deletions>>
  BY <1>2
<1> QED
  BY <1>3, <1>4, <1>5, <1>6

(* All files that are drawn.                                                *)
LEMMA FilesDrawn ==
  ASSUME NEW view \in Seq(FileSet)
  PROVE  /\ Len(DrawnDiff(view, FreshViewer)) = Len(view)
         /\ DOMAIN DrawnDiff(view, FreshViewer) = 1..Len(view)
         /\ \A i \in 1..Len(view) : /\ DrawnDiff(view, FreshViewer)[i] = DrawnFile(view[i], FreshViewer)
                                    /\ DrawnDiff(view, SplitViewer)[i] = DrawnFile(view[i], SplitViewer)
<1> DEFINE n == Len(view)
           A == [i \in 1..n |-> DrawnFile(view[i], FreshViewer)]
           B == [i \in 1..n |-> DrawnFile(view[i], SplitViewer)]
<1>1. n \in Nat /\ DOMAIN view = 1..n
  OBVIOUS
<1>2. DrawnDiff(view, FreshViewer) = A /\ DrawnDiff(view, SplitViewer) = B
  BY <1>1 DEF DrawnDiff
<1>3. Len(A) = n
  <2>1. A \in [1..n -> {DrawnFile(view[i], FreshViewer) : i \in 1..n}]
    OBVIOUS
  <2> HIDE DEF A
  <2> QED
    BY <1>1, <2>1, FunctionIsSeq
<1> QED
  BY <1>2, <1>3

-----------------------------------------------------------------------------
(* The files and hunks drawn are those of git.                              *)
LEMMA AllDrawn ==
  ASSUME NEW d \in Seq(GitFiles), NEW view, FilesMatch(d, view),
         NEW drawn, drawn = DrawnDiff(view, FreshViewer), NEW split, split = DrawnDiff(view, SplitViewer)
  PROVE  /\ Len(drawn) = Len(d)
         /\ \A i \in 1..Len(d) :
              /\ drawn[i].path = ShownPath(d[i].path)
              /\ Len(drawn[i].hunks) = Len(d[i].hunks)
              /\ \A h \in 1..Len(d[i].hunks) : HunkKept(d[i].hunks[h], drawn[i].hunks[h], split[i].hunks[h])
<1>1. view \in Seq(FileSet) /\ Len(view) = Len(d) /\ \A i \in 1..Len(d) : FileMatches(d[i], view[i])
  BY DEF FilesMatch
<1>2. /\ Len(drawn) = Len(view)
      /\ \A i \in 1..Len(view) : drawn[i] = DrawnFile(view[i], FreshViewer) /\ split[i] = DrawnFile(view[i], SplitViewer)
  BY <1>1, FilesDrawn
<1>3. ASSUME NEW i \in 1..Len(d)
      PROVE  /\ drawn[i].path = ShownPath(d[i].path)
             /\ Len(drawn[i].hunks) = Len(d[i].hunks)
             /\ \A h \in 1..Len(d[i].hunks) : HunkKept(d[i].hunks[h], drawn[i].hunks[h], split[i].hunks[h])
  <2> DEFINE f == d[i]
             v == view[i]
  <2>1. f \in GitFiles /\ v \in FileSet /\ v.path = ShownPath(f.path) /\ HunksMatch(f.hunks, v.hunks)
    BY <1>1 DEF FileMatches
  <2>2. drawn[i] = DrawnFile(v, FreshViewer) /\ split[i] = DrawnFile(v, SplitViewer)
    BY <1>1, <1>2
  <2> HIDE DEF f, v
  <2> DEFINE gs == f.hunks
             vs == v.hunks
  <2>3. gs \in Seq(GitHunks)
    BY <2>1 DEF GitFiles
  <2>4. /\ drawn[i].path = v.path /\ Len(drawn[i].hunks) = Len(vs)
        /\ \A h \in 1..Len(vs) : /\ drawn[i].hunks[h] = UnifiedHunk(vs[h], FALSE, TRUE)
                                 /\ split[i].hunks[h] = SplitHunk(vs[h], FALSE, TRUE)
    BY <2>1, <2>2, FileDrawn
  <2>5. HunksMatch(gs, vs)
    BY <2>1
  <2> HIDE DEF gs, vs
  <2>6. Len(vs) = Len(gs) /\ \A h \in 1..Len(gs) : HunkMatches(gs[h], vs[h]) /\ gs[h] \in GitHunks
    BY <2>3, <2>5 DEF HunksMatch
  <2>7. \A h \in 1..Len(gs) : HunkKept(gs[h], UnifiedHunk(vs[h], FALSE, TRUE), SplitHunk(vs[h], FALSE, TRUE))
    BY <2>6, HunkIsKept
  <2>8. \A h \in 1..Len(gs) : HunkKept(gs[h], drawn[i].hunks[h], split[i].hunks[h])
    BY <2>4, <2>6, <2>7
  <2> QED
    BY <2>1, <2>4, <2>6, <2>8 DEF f, gs
<1> QED
  BY <1>1, <1>2, <1>3

(* The summary has their paths and numbers.                                 *)
LEMMA SumsMatch ==
  ASSUME NEW d, NEW view \in Seq(FileSet), NEW sums, CountsMatch(d, view, sums),
         NEW drawn, drawn = DrawnDiff(view, FreshViewer)
  PROVE  /\ Len(sums) = Len(drawn) /\ DOMAIN drawn = 1..Len(view)
         /\ \A i \in DOMAIN drawn : /\ <<sums[i].added, sums[i].removed>> = drawn[i].stats
                                   /\ sums[i].path = SummedPath(d[i].path)
<1>1. /\ Len(drawn) = Len(view) /\ DOMAIN drawn = 1..Len(view)
      /\ \A i \in 1..Len(view) : drawn[i] = DrawnFile(view[i], FreshViewer)
  BY FilesDrawn
<1>2. Len(sums) = Len(view) /\ \A i \in 1..Len(view) : Counted(d[i], view[i], sums[i])
  BY DEF CountsMatch
<1>3. ASSUME NEW i \in 1..Len(view)
      PROVE  <<sums[i].added, sums[i].removed>> = drawn[i].stats /\ sums[i].path = SummedPath(d[i].path)
  <2>1. view[i] \in FileSet
    OBVIOUS
  <2>2. drawn[i].stats = <<view[i].additions, view[i].deletions>>
    BY <1>1, <2>1, FileDrawn
  <2> QED
    BY <1>2, <2>2 DEF Counted
<1> QED
  BY <1>1, <1>2, <1>3

(* Parts of sequences.                                                      *)
LEMMA PutTogether ==
  ASSUME NEW T, NEW s \in Seq(T), NEW t \in Seq(T)
  PROVE  /\ s \o t \in Seq(T) /\ Len(s \o t) = Len(s) + Len(t) /\ \A i \in 1..Len(s) : (s \o t)[i] = s[i]
         /\ \A i \in (Len(s) + 1)..(Len(s) + Len(t)) : (s \o t)[i] = t[i - Len(s)]
  OBVIOUS

LEMMA PartOf ==
  ASSUME NEW T, NEW s \in Seq(T), NEW i \in 1..Len(s)
  PROVE  /\ SubSeq(s, i, Len(s)) \in Seq(T) /\ Len(SubSeq(s, i, Len(s))) = Len(s) - (i - 1)
         /\ \A j \in 1..(Len(s) - (i - 1)) : SubSeq(s, i, Len(s))[j] = s[j + (i - 1)]
  OBVIOUS

LEMMA TailOf ==
  ASSUME NEW T, NEW s \in Seq(T), s # << >>
  PROVE  Tail(s) \in Seq(T) /\ Len(Tail(s)) = Len(s) - 1 /\ \A i \in 1..(Len(s) - 1) : Tail(s)[i] = s[i + 1]
  OBVIOUS

(* A path that is plain is named as it is, by both.                         *)
LEMMA PlainShown ==
  ASSUME NEW p \in DfPaths, PlainPath(p)
  PROVE  ShownPath(p) = p /\ SummedPath(p) = p
<1> DEFINE n == Len(p)
           T == STRING \cup {"a/", "b/", Blank}
           h == <<"a/">> \o p
           t == <<Blank, "b/">>
           q == h \o t \o p
           m == SubSeq(q, n + 2, Len(q))
           b == Tail(m)
<1>1. p \in Seq(T) /\ n \in Nat /\ DOMAIN p = 1..n
  <2>1. p \in Seq(STRING)
    BY DfAssumption
  <2>2. p \in [1..n -> STRING] /\ n \in Nat
    BY <2>1
  <2>3. p \in [1..n -> T]
    BY <2>2
  <2> HIDE DEF T
  <2> QED
    BY <2>2, <2>3, FunctionIsSeq
<1>2. \A i \in 1..n : p[i] # Blank
  <2>1. \A i \in DOMAIN p : p[i] \in ToSet(p)
    BY DEF ToSet
  <2> QED
    BY <1>1, <2>1 DEF PlainPath
<1>3. n # 0 => p[1] # "b/"
  <2>1. Head(p) # "b/"
    BY DEF PlainPath
  <2> QED
    BY <1>1, <2>1
<1>4. "a/" # Blank /\ "b/" # Blank
  BY DEF Blank
<1>s. <<"a/">> \in Seq(T) /\ t \in Seq(T) /\ Len(<<"a/">>) = 1 /\ Len(t) = 2 /\ t[1] = Blank /\ t[2] = "b/"
  OBVIOUS
<1> HIDE DEF T
<1>5. h \in Seq(T) /\ Len(h) = n + 1 /\ h[1] = "a/" /\ \A i \in 2..(n + 1) : h[i] = p[i - 1]
  <2> DEFINE u == <<"a/">>
  <2>1. u \in Seq(T) /\ Len(u) = 1 /\ u[1] = "a/" /\ h = u \o p
    BY <1>s
  <2> HIDE DEF u, h
  <2>2. p \in Seq(T)
    BY <1>1
  <2>3. /\ u \o p \in Seq(T) /\ Len(u \o p) = Len(u) + Len(p) /\ \A i \in 1..Len(u) : (u \o p)[i] = u[i]
        /\ \A i \in (Len(u) + 1)..(Len(u) + Len(p)) : (u \o p)[i] = p[i - Len(u)]
    BY <2>1, <2>2, PutTogether
  <2> HIDE DEF n
  <2>4. Len(u) = 1 /\ Len(p) = n /\ n \in Nat
    BY <1>1, <2>1 DEF n
  <2>5. 1 \in 1..1 /\ 1 + n = n + 1 /\ 1 + 1 = 2
    BY <2>4
  <2>6. /\ h \in Seq(T) /\ Len(h) = 1 + n /\ \A i \in 1..1 : h[i] = u[i]
        /\ \A i \in (1 + 1)..(1 + n) : h[i] = p[i - 1]
    BY <2>1, <2>3, <2>4
  <2> QED
    BY <2>1, <2>5, <2>6
<1>6. t \in Seq(T) /\ Len(t) = 2 /\ t[1] = Blank /\ t[2] = "b/"
  BY <1>s
<1> HIDE DEF h, t, n
<1>7. /\ q \in Seq(T) /\ Len(q) = n + n + 3
      /\ \A i \in 1..(n + 1) : q[i] = h[i]
      /\ q[n + 2] = Blank /\ q[n + 3] = "b/"
      /\ \A i \in (n + 4)..(n + n + 3) : q[i] = p[i - (n + 3)]
  <2> DEFINE g == h \o t
  <2>1. /\ g \in Seq(T) /\ Len(g) = (n + 1) + 2 /\ \A i \in 1..(n + 1) : g[i] = h[i]
        /\ \A i \in (n + 2)..((n + 1) + 2) : g[i] = t[i - (n + 1)]
    <3>1. h \in Seq(T) /\ t \in Seq(T) /\ Len(h) = n + 1 /\ Len(t) = 2 /\ g = h \o t /\ (n + 1) + 1 = n + 2
      BY <1>1, <1>5, <1>6
    <3> HIDE DEF g
    <3>2. /\ h \o t \in Seq(T) /\ Len(h \o t) = Len(h) + Len(t) /\ \A i \in 1..Len(h) : (h \o t)[i] = h[i]
          /\ \A i \in (Len(h) + 1)..(Len(h) + Len(t)) : (h \o t)[i] = t[i - Len(h)]
      BY <3>1, PutTogether
    <3> QED
      BY <3>1, <3>2
  <2> HIDE DEF g
  <2>2. Len(g) = n + 3 /\ g[n + 2] = Blank /\ g[n + 3] = "b/"
    <3>1. n + 2 \in (n + 2)..((n + 1) + 2) /\ n + 3 \in (n + 2)..((n + 1) + 2)
      BY <1>1
    <3>2. g[n + 2] = t[(n + 2) - (n + 1)] /\ g[n + 3] = t[(n + 3) - (n + 1)]
      BY <2>1, <3>1
    <3>3. (n + 2) - (n + 1) = 1 /\ (n + 3) - (n + 1) = 2 /\ (n + 1) + 2 = n + 3
      BY <1>1
    <3> QED
      BY <1>6, <2>1, <3>2, <3>3
  <2>3. q = g \o p /\ Len(p) = n
    BY DEF g, n
  <2> HIDE DEF q
  <2>4. /\ q \in Seq(T) /\ Len(q) = (n + 3) + n /\ \A i \in 1..(n + 3) : q[i] = g[i]
        /\ \A i \in ((n + 3) + 1)..((n + 3) + n) : q[i] = p[i - (n + 3)]
    <3>1. p \in Seq(T) /\ g \in Seq(T) /\ Len(g) = n + 3
      BY <1>1, <2>1, <2>2
    <3>2. /\ g \o p \in Seq(T) /\ Len(g \o p) = Len(g) + Len(p) /\ \A i \in 1..Len(g) : (g \o p)[i] = g[i]
          /\ \A i \in (Len(g) + 1)..(Len(g) + Len(p)) : (g \o p)[i] = p[i - Len(g)]
      BY <3>1, PutTogether
    <3> QED
      BY <2>3, <3>1, <3>2
  <2>5. (n + 3) + 1 = n + 4 /\ (n + 3) + n = n + n + 3 /\ \A i \in 1..(n + 1) : i \in 1..(n + 3)
    BY <1>1
  <2>6. n + 2 \in 1..(n + 3) /\ n + 3 \in 1..(n + 3)
    BY <1>1
  <2>7. \A i \in 1..(n + 1) : q[i] = h[i]
    BY <2>1, <2>4, <2>5
  <2>8. q[n + 2] = Blank /\ q[n + 3] = "b/"
    BY <2>2, <2>4, <2>6
  <2>9. \A i \in (n + 4)..(n + n + 3) : q[i] = p[i - (n + 3)]
    BY <2>4, <2>5
  <2>10. Len(q) = n + n + 3
    BY <2>4, <2>5
  <2>11. q \in Seq(T)
    BY <2>4
  <2> QED
    BY <2>7, <2>8, <2>9, <2>10, <2>11
<1> HIDE DEF q
<1>8. {i \in DOMAIN q : IsBlank(q[i])} = {n + 2}
  <2>1. DOMAIN q = 1..(n + n + 3)
    BY <1>7
  <2>2. ASSUME NEW i \in 1..(n + n + 3), i # n + 2 PROVE q[i] # Blank
    <3>1. CASE i = 1
      <4>1. 1 \in 1..(n + 1)
        BY <1>1
      <4>2. q[1] = "a/"
        BY <1>5, <1>7, <4>1
      <4> QED
        BY <1>4, <3>1, <4>2
    <3>2. CASE i \in 2..(n + 1)
      <4>1. i \in 1..(n + 1) /\ i - 1 \in 1..n
        BY <1>1, <3>2
      <4>2. q[i] = h[i] /\ h[i] = p[i - 1]
        BY <1>5, <1>7, <3>2, <4>1
      <4> QED
        BY <1>2, <4>1, <4>2
    <3>3. CASE i = n + 3
      BY <1>4, <1>7, <3>3
    <3>4. CASE i \in (n + 4)..(n + n + 3)
      <4>1. i - (n + 3) \in 1..n
        BY <1>1, <3>4
      <4>2. q[i] = p[i - (n + 3)]
        BY <1>7, <3>4
      <4> QED
        BY <1>2, <4>1, <4>2
    <3> QED
      BY <1>1, <2>2, <3>1, <3>2, <3>3, <3>4
  <2>3. n + 2 \in 1..(n + n + 3)
    BY <1>1
  <2> QED
    BY <1>7, <2>1, <2>2, <2>3 DEF IsBlank
<1>9. FromFirst(q, IsBlank) = m
  <2>1. Min({n + 2}) = n + 2
    BY <1>1 DEF Min
  <2>2. {n + 2} # {}
    OBVIOUS
  <2> QED
    BY <1>8, <2>1, <2>2 DEF FromFirst
<1>10. m \in Seq(T) /\ Len(m) = n + 2 /\ \A i \in 1..(n + 2) : m[i] = q[i + (n + 1)]
  <2> DEFINE lo == n + 2
             hi == n + n + 3
  <2>1. lo \in 1..hi /\ hi \in Nat /\ hi - (lo - 1) = n + 2 /\ lo - 1 = n + 1
    BY <1>1
  <2>2. q \in Seq(T) /\ Len(q) = hi
    BY <1>7
  <2> HIDE DEF lo, hi, q
  <2>3. /\ SubSeq(q, lo, hi) \in Seq(T) /\ Len(SubSeq(q, lo, hi)) = hi - (lo - 1)
        /\ \A i \in 1..(hi - (lo - 1)) : SubSeq(q, lo, hi)[i] = q[i + (lo - 1)]
    BY <2>1, <2>2, PartOf
  <2>4. m = SubSeq(q, lo, hi)
    BY <2>2 DEF lo
  <2> HIDE DEF m
  <2> QED
    BY <2>1, <2>3, <2>4
<1> HIDE DEF m
<1>11. /\ b \in Seq(T) /\ Len(b) = n + 1 /\ b[1] = "b/" /\ \A i \in 1..n : b[i + 1] = p[i]
  <2>1. b \in Seq(T) /\ Len(b) = n + 1 /\ \A i \in 1..(n + 1) : b[i] = m[i + 1]
    <3>1. m # << >> /\ (n + 2) - 1 = n + 1
      BY <1>1, <1>10
    <3> QED
      BY <1>10, <3>1, TailOf
  <2> HIDE DEF b
  <2>2. b[1] = q[n + 3]
    <3>1. 1 \in 1..(n + 1) /\ 2 \in 1..(n + 2) /\ 1 + 1 = 2 /\ 2 + (n + 1) = n + 3
      BY <1>1
    <3>2. b[1] = m[1 + 1] /\ m[2] = q[2 + (n + 1)]
      BY <1>10, <2>1, <3>1
    <3> QED
      BY <3>1, <3>2
  <2>3. ASSUME NEW i \in 1..n PROVE b[i + 1] = p[i]
    <3>1. i + 1 \in 1..(n + 1) /\ i + 2 \in 1..(n + 2) /\ (i + 1) + 1 = i + 2 /\ (i + 2) + (n + 1) = i + (n + 3)
      BY <1>1
    <3>2. b[i + 1] = m[(i + 1) + 1] /\ m[i + 2] = q[(i + 2) + (n + 1)]
      BY <1>10, <2>1, <3>1
    <3>3. i + (n + 3) \in (n + 4)..(n + n + 3) /\ (i + (n + 3)) - (n + 3) = i
      BY <1>1
    <3>4. q[i + (n + 3)] = p[(i + (n + 3)) - (n + 3)]
      BY <1>7, <3>3
    <3> QED
      BY <3>1, <3>2, <3>3, <3>4
  <2> QED
    BY <1>7, <2>1, <2>2, <2>3
<1> HIDE DEF b
<1>12. UpToFirst(b, IsBlank) = b
  <2>1. \A i \in DOMAIN b : b[i] # Blank
    <3>1. DOMAIN b = 1..(n + 1)
      BY <1>11
    <3>2. ASSUME NEW i \in 1..(n + 1) PROVE b[i] # Blank
      <4>1. CASE i = 1
        BY <1>4, <1>11, <4>1
      <4>2. CASE i # 1
        <5>1. i - 1 \in 1..n /\ (i - 1) + 1 = i
          BY <1>1, <4>2
        <5>2. b[i] = p[i - 1]
          BY <1>11, <5>1
        <5> QED
          BY <1>2, <5>1, <5>2
      <4> QED
        BY <4>1, <4>2
    <3> QED
      BY <3>1, <3>2
  <2>2. {i \in DOMAIN b : IsBlank(b[i])} = {}
    BY <2>1 DEF IsBlank
  <2> QED
    BY <2>2 DEF UpToFirst
<1> DEFINE C == {i \in DOMAIN b : b[i] # "b/"}
<1>13. (IF C = {} THEN << >> ELSE SubSeq(b, Min(C), Len(b))) = p
  <2>1. CASE n = 0
    <3>1. DOMAIN b = {1}
      BY <1>11, <2>1
    <3>2. C = {}
      BY <1>11, <3>1
    <3>3. p = << >>
      BY <1>1, <2>1 DEF n
    <3> QED
      BY <3>2, <3>3
  <2>2. CASE n # 0
    <3>1. DOMAIN b = 1..(n + 1)
      BY <1>11
    <3>2. b[2] # "b/"
      <4>1. 1 \in 1..n
        BY <1>1, <2>2
      <4>2. b[1 + 1] = p[1]
        BY <1>11, <4>1
      <4> QED
        BY <1>3, <2>2, <4>2
    <3>3. 2 \in C /\ 1 \notin C /\ C \subseteq 1..(n + 1)
      BY <1>1, <1>11, <2>2, <3>1, <3>2
    <3> HIDE DEF C
    <3>4. \A k \in C : 2 <= k
      BY <1>1, <3>3
    <3>5. Min(C) = 2
      <4>1. \A x \in C : (\A k \in C : x <= k) => x = 2
        BY <1>1, <3>3, <3>4
      <4> QED
        BY <3>3, <3>4, <4>1 DEF Min
    <3>6. SubSeq(b, 2, Len(b)) = p
      <4>1. SubSeq(b, 2, Len(b)) = [i \in 1..n |-> b[i + 1]]
        BY <1>1, <1>11
      <4>2. \A i \in 1..n : b[i + 1] = p[i]
        BY <1>11
      <4> QED
        BY <1>1, <4>1, <4>2
    <3> QED
      BY <3>3, <3>5, <3>6
  <2> QED
    BY <2>1, <2>2
<1>14. FromFirst(b, LAMBDA part : part # "b/") = p
  BY <1>13 DEF FromFirst
<1>15. ShownPath(p) = p
  BY <1>9, <1>12, <1>14 DEF ShownPath, q, h, t, b
<1>16. SummedPath(p) = p
  BY DEF SummedPath, PlainPath
<1> QED
  BY <1>15, <1>16

-----------------------------------------------------------------------------
(* The invariant.                                                           *)

(* Forms of files.                                                            *)
NoSnippet(d) == \A i \in 1..Len(d) : d[i].form # "snippet"
NoneGone(d) == \A i \in 1..Len(d) : CountedAlike(d[i])

(* What the two readers have understood of the text so far.                   *)
ReadSoFar(d, s, r) ==
  /\ NoSnippet(d) => ViewOf(d, s)
  /\ ~NoSnippet(d) => NoFilesYet(s)
  /\ NoneGone(d) => SumOf(d, s, r)
DfRead(d) == WellMade(d) /\ ReadSoFar(d, Viewed(DfText(d)), Summed(DfText(d)))

LEMMA FormsGone == ASSUME NEW d, NoneGone(d) PROVE NoSnippet(d)
BY DEF NoneGone, NoSnippet, CountedAlike

(* With one file more, or the last one replaced by one of its form.           *)
LEMMA FormsMore ==
  ASSUME NEW d \in Seq(GitFiles), NEW f \in GitFiles
  PROVE  /\ Append(d, f) \in Seq(GitFiles) /\ Len(Append(d, f)) = Len(d) + 1
         /\ NoSnippet(Append(d, f)) <=> NoSnippet(d) /\ f.form # "snippet"
         /\ NoneGone(Append(d, f)) <=> NoneGone(d) /\ CountedAlike(f)
         /\ HunksThere(Append(d, f)) <=> HunksThere(d) /\ f.hunks # << >>
<1> DEFINE e == Append(d, f)
           n == Len(d)
<1>1. e \in Seq(GitFiles) /\ Len(e) = n + 1 /\ e[n + 1] = f /\ n \in Nat /\ \A i \in 1..n : e[i] = d[i]
  BY AppendIs
<1> HIDE DEF e, n
<1>2. \A i \in 1..(n + 1) : i \in 1..n \/ i = n + 1
  BY <1>1
<1>3. n + 1 \in 1..(n + 1) /\ \A i \in 1..n : i \in 1..(n + 1)
  BY <1>1
<1>4. NoSnippet(e) <=> NoSnippet(d) /\ f.form # "snippet"
  BY <1>1, <1>2, <1>3 DEF NoSnippet, n
<1>5. NoneGone(e) <=> NoneGone(d) /\ CountedAlike(f)
  BY <1>1, <1>2, <1>3 DEF NoneGone, n
<1>6. HunksThere(e) <=> HunksThere(d) /\ f.hunks # << >>
  BY <1>1, <1>2, <1>3 DEF HunksThere, n
<1> QED
  BY <1>1, <1>4, <1>5, <1>6 DEF e, n

LEMMA SameForms ==
  ASSUME NEW d, WellMade(d), d # << >>, NEW f \in GitFiles, f.form = Last(d).form, f.hunks # << >>,
         CountedAlike(f) => CountedAlike(Last(d))
  PROVE  /\ WellMade(Append(Front(d), f))
         /\ NoSnippet(Append(Front(d), f)) <=> NoSnippet(d)
         /\ NoneGone(Append(Front(d), f)) => NoneGone(d) /\ CountedAlike(f)
<1> DEFINE b == Front(d)
           g == Last(d)
           e == Append(b, f)
<1>1. d \in Seq(GitFiles) /\ HunksThere(d) /\ (~NoSnippet(d) => Len(d) = 1)
  BY DEF WellMade, HunksThere, NoSnippet
<1>2. b \in Seq(GitFiles) /\ g \in GitFiles /\ d = Append(b, g) /\ Len(d) \in Nat
  BY <1>1, LastIs
<1> HIDE DEF b, g, e
<1>3. /\ Len(d) = Len(b) + 1 /\ (NoSnippet(d) <=> NoSnippet(b) /\ g.form # "snippet")
      /\ NoneGone(d) <=> NoneGone(b) /\ CountedAlike(g)
      /\ HunksThere(d) <=> HunksThere(b) /\ g.hunks # << >>
  BY <1>2, FormsMore
<1>4. /\ e \in Seq(GitFiles) /\ Len(e) = Len(b) + 1 /\ (NoSnippet(e) <=> NoSnippet(b) /\ f.form # "snippet")
      /\ NoneGone(e) <=> NoneGone(b) /\ CountedAlike(f)
      /\ HunksThere(e) <=> HunksThere(b) /\ f.hunks # << >>
  BY <1>2, FormsMore DEF e
<1>5. f.form = g.form /\ (CountedAlike(f) => CountedAlike(g))
  BY DEF g
<1>6. HunksThere(e) /\ (~NoSnippet(e) => Len(e) = 1) /\ (NoSnippet(e) <=> NoSnippet(d)) /\ (NoneGone(e) => NoneGone(d) /\ CountedAlike(f))
  BY <1>1, <1>3, <1>4, <1>5
<1>7. WellMade(e)
  BY <1>4, <1>6 DEF WellMade, HunksThere, NoSnippet
<1> QED
  BY <1>6, <1>7 DEF e, b

(* The invariant holds of the empty diff and is kept by every step of git.  *)
LEMMA NothingRead == DfRead(<< >>)
<1> DEFINE d == << >>
<1>1. DfText(d) = << >>
  BY FlattenNone DEF DfText
<1>2. Viewed(DfText(d)) = DfNothing /\ Summed(DfText(d)) = NothingSummed
  BY <1>1, ViewedNone, SummedNone
<1>3. d \in Seq(GitFiles) /\ Len(d) = 0
  OBVIOUS
<1>4. WellMade(d) /\ NoSnippet(d)
  BY <1>3 DEF WellMade, NoSnippet
<1>5. ViewOf(d, DfNothing)
  BY NothingDone DEF ViewOf
<1>6. SumOf(d, DfNothing, NothingSummed)
  BY DEF SumOf, Rec, NothingSummed, SumFields
<1> HIDE DEF d
<1>7. DfRead(d)
  BY <1>2, <1>4, <1>5, <1>6 DEF DfRead, ReadSoFar
<1> QED
  BY <1>7 DEF d

LEMMA FileStep == ASSUME NEW d, DfRead(d), NEW e, NewFileOf(d, e) PROVE DfRead(e)
<1>1. PICK f \in GitFiles :
        /\ e = Append(d, f) /\ f.hunks = <<FirstHunk(f.form)>>
        /\ \A i \in 1..Len(d) : d[i].form # "snippet"
        /\ f.form = "snippet" => d = << >>
  BY DEF NewFileOf
<1>a. PICK old \in Nat, new \in Nat : f.hunks = <<DfHunk(old, new)>>
  BY <1>1, FirstBegins
<1>2. /\ d \in Seq(GitFiles) /\ HunksThere(d) /\ NoSnippet(d) /\ ViewOf(d, Viewed(DfText(d)))
      /\ NoneGone(d) => SumOf(d, Viewed(DfText(d)), Summed(DfText(d)))
  BY <1>1 DEF DfRead, ReadSoFar, WellMade, HunksThere, NoSnippet
<1>3. f.hunks # << >>
  BY <1>a
<1>4. /\ e \in Seq(GitFiles) /\ Len(e) = Len(d) + 1 /\ HunksThere(e)
      /\ (NoSnippet(e) <=> f.form # "snippet") /\ (NoneGone(e) => NoneGone(d) /\ f.form \in {"kept", "created"})
  BY <1>1, <1>2, <1>3, FormsMore DEF CountedAlike
<1>5. WellMade(e)
  <2>1. f.form = "snippet" => Len(e) = 1
    BY <1>1, <1>4
  <2> QED
    BY <1>4, <2>1 DEF WellMade, HunksThere, NoSnippet
<1>6. CASE f.form # "snippet"
  <2>1. /\ ViewOf(e, Viewed(DfText(e)))
        /\ f.form \in {"kept", "created"} /\ NoneGone(d) => SumOf(e, Viewed(DfText(e)), Summed(DfText(e)))
    BY <1>1, <1>a, <1>2, <1>6, NewFileViewed
  <2> QED
    BY <1>4, <1>5, <1>6, <2>1 DEF DfRead, ReadSoFar
<1>7. CASE f.form = "snippet"
  <2>1. d = << >> /\ FileText(f) = << >>
    BY <1>1, <1>a, <1>7, NewFileText
  <2>2. DfText(d) = << >>
    BY <2>1, FlattenNone DEF DfText
  <2>3. DfText(e) = << >> \o << >>
    <3>1. \A i \in 1..Len(d) : d[i].hunks # << >>
      BY <1>2 DEF HunksThere
    <3>2. DfText(Append(d, f)) = DfText(d) \o FileText(f)
      BY <1>2, <1>3, <3>1, DfTextMore
    <3> QED
      BY <1>1, <2>1, <2>2, <3>2
  <2>4. Viewed(DfText(e)) = DfNothing
    <3>1. << >> \o << >> = << >>
      OBVIOUS
    <3> QED
      BY <2>3, <3>1, ViewedNone
  <2>5. NoFilesYet(DfNothing)
    BY DEF NoFilesYet, DfNothing
  <2>6. ~NoSnippet(e) /\ ~NoneGone(e)
    BY <1>4, <1>7, FormsGone
  <2> QED
    BY <1>5, <2>4, <2>5, <2>6 DEF DfRead, ReadSoFar
<1> QED
  BY <1>6, <1>7

LEMMA HunkStep == ASSUME NEW d, DfRead(d), NEW e, NewHunkOf(d, e) PROVE DfRead(e)
<1>1. PICK f \in GitFiles, old \in Nat, new \in Nat :
        /\ e = Append(Front(d), f) /\ f.path = Last(d).path /\ f.form = Last(d).form
        /\ f.hunks = Append(Last(d).hunks, DfHunk(old, new))
  BY DEF NewHunkOf
<1>2. d # << >> /\ Last(d).form # "snippet" /\ WellMade(d) /\ d \in Seq(GitFiles) /\ HunksThere(d)
  BY DEF NewHunkOf, DfRead, WellMade, HunksThere
<1>3. f.hunks # << >>
  <2>1. Last(d).hunks \in Seq(GitHunks)
    BY <1>2, LastHunks
  <2>2. DfHunk(old, new) \in GitHunks
    BY HunkBegins
  <2> DEFINE hs == Last(d).hunks
             h == DfHunk(old, new)
  <2> HIDE DEF hs, h
  <2>3. f.hunks = Append(hs, h) /\ hs \in Seq(GitHunks) /\ h \in GitHunks
    BY <1>1, <2>1, <2>2 DEF hs, h
  <2> QED
    BY <2>3, FrontLast
<1>a. CountedAlike(f) => CountedAlike(Last(d))
  <2>1. Last(d) \in GitFiles /\ DfHunk(old, new) \in GitHunks
    BY <1>2, LastHunks, HunkBegins
  <2> QED
    BY <1>1, <2>1, AlikeHunks
<1>4. WellMade(e) /\ (NoSnippet(e) <=> NoSnippet(d)) /\ (NoneGone(e) => NoneGone(d))
  BY <1>1, <1>2, <1>3, <1>a, SameForms
<1>5. NoSnippet(d)
  <2>1. Last(d) = d[Len(d)] /\ Len(d) \in 1..Len(d)
    BY <1>2, LastIs, LastPlace
  <2>2. ASSUME NEW i \in 1..Len(d), d[i].form = "snippet" PROVE FALSE
    <3>1. Len(d) = 1
      BY <1>2, <2>2 DEF WellMade
    <3> QED
      BY <1>2, <2>1, <2>2, <3>1
  <2> QED
    BY <2>2 DEF NoSnippet
<1>6. ViewOf(d, Viewed(DfText(d))) /\ (NoneGone(d) => SumOf(d, Viewed(DfText(d)), Summed(DfText(d))))
  BY <1>5 DEF DfRead, ReadSoFar
<1>7. ViewOf(e, Viewed(DfText(e))) /\ (NoneGone(d) => SumOf(e, Viewed(DfText(e)), Summed(DfText(e))))
  BY <1>2, <1>6, NewHunkViewed
<1> QED
  BY <1>4, <1>5, <1>7 DEF DfRead, ReadSoFar

LEMMA LineStep == ASSUME NEW d, DfRead(d), NEW e, NewLineOf(d, e) PROVE DfRead(e)
<1>1. PICK f \in GitFiles, k \in GitHunks, l \in GitLines :
       /\ e = Append(Front(d), f) /\ f.path = Last(d).path /\ f.form = Last(d).form
       /\ f.hunks = Append(Front(Last(d).hunks), k)
       /\ LineOf(Last(Last(d).hunks), k, l)
  BY DEF NewLineOf
<1>2. d # << >> /\ WellMade(d) /\ d \in Seq(GitFiles) /\ HunksThere(d)
  BY DEF NewLineOf, DfRead, WellMade, HunksThere
<1>3. f.hunks # << >>
  <2> DEFINE hs == Last(d).hunks
             b == Front(hs)
  <2>1. hs \in Seq(GitHunks) /\ hs # << >>
    BY <1>2, LastHunks
  <2> HIDE DEF hs
  <2>2. b \in Seq(GitHunks)
    BY <2>1, LastIs
  <2> HIDE DEF b
  <2>3. f.hunks = Append(b, k)
    BY <1>1 DEF b, hs
  <2> QED
    BY <2>2, <2>3, FrontLast
<1>a. CountedAlike(f) => CountedAlike(Last(d))
  <2> DEFINE g == Last(d)
             gs == g.hunks
             b == Front(gs)
             h == Last(gs)
  <2>1. g \in GitFiles /\ gs \in Seq(GitHunks) /\ gs # << >>
    BY <1>2, LastHunks
  <2> HIDE DEF gs
  <2>2. b \in Seq(GitHunks) /\ h \in GitHunks /\ gs = Append(b, h)
    BY <2>1, LastIs
  <2>3. f.form = g.form /\ f.hunks = Append(b, k) /\ LineOf(h, k, l) /\ g.hunks = Append(b, h)
    BY <1>1, <2>2 DEF gs
  <2> HIDE DEF g, b, h
  <2>4. CountedAlike(f) => CountedAlike(g)
    BY <2>1, <2>2, <2>3, AlikeLine
  <2> QED
    BY <2>4 DEF g
<1>4. WellMade(e) /\ (NoSnippet(e) <=> NoSnippet(d)) /\ (NoneGone(e) => NoneGone(d) /\ CountedAlike(f))
  BY <1>1, <1>2, <1>3, <1>a, SameForms
<1>b. Last(e) = f
  <2>1. Front(d) \in Seq(GitFiles)
    BY <1>2, LastIs
  <2> QED
    BY <1>1, <2>1, FrontLast
<1>5. CASE NoSnippet(d)
  <2>1. ViewOf(d, Viewed(DfText(d))) /\ (NoneGone(d) => SumOf(d, Viewed(DfText(d)), Summed(DfText(d))))
    BY <1>5 DEF DfRead, ReadSoFar
  <2>2. ViewOf(e, Viewed(DfText(e))) /\ (NoneGone(e) => SumOf(e, Viewed(DfText(e)), Summed(DfText(e))))
    BY <1>2, <1>4, <1>b, <2>1, NewLineViewed
  <2> QED
    BY <1>4, <1>5, <2>2 DEF DfRead, ReadSoFar
<1>6. CASE ~NoSnippet(d)
  <2>1. NoFilesYet(Viewed(DfText(d)))
    BY <1>6 DEF DfRead, ReadSoFar
  <2>2. DfText(e) = Append(DfText(d), l) /\ DfText(d) \in Seq(TextLines) /\ l \in TextLines
    BY <1>1, <1>2, NewLineText
  <2>3. Viewed(DfText(e)) = ViewLine(Viewed(DfText(d)), l)
    BY <2>2, ViewedMore
  <2>4. NoFilesYet(Viewed(DfText(e)))
    BY <2>1, <2>3, LineYet
  <2> QED
    BY <1>4, <1>6, <2>4, FormsGone DEF DfRead, ReadSoFar
<1> QED
  BY <1>5, <1>6

-----------------------------------------------------------------------------
(* What it says of the drawings and the summary.                            *)

(* Of such lines at most one file is made, at the end.                      *)
LEMMA ViewYet ==
  ASSUME NEW s, NoFilesYet(s)
  PROVE  DOMAIN FileDone(s).files \subseteq {1}
<1> DEFINE u == HunkDone(s)
<1>1. u.files = << >> /\ "files" \in DOMAIN u
  <2>1. NoFilesYet(Flushed(s))
    BY FlushedYet
  <2> DEFINE v == Flushed(s)
  <2> HIDE DEF v
  <2>2. NoFilesYet(HunkAdded(v))
    BY <2>1 DEF NoFilesYet, HunkAdded, v
  <2>3. u = s \/ u = HunkAdded(v)
    BY DEF HunkDone, v
  <2> HIDE DEF u
  <2> QED
    BY <2>2, <2>3 DEF NoFilesYet
<1>2. FileDone(s) = FileAdded(u)
  BY DEF FileDone
<1> HIDE DEF u
<1>3. CASE u.file = NoDfFile
  <2>1. FileDone(s).files = << >>
    BY <1>1, <1>2, <1>3 DEF FileAdded
  <2> QED
    BY <2>1
<1>4. CASE u.file # NoDfFile
  <2> DEFINE x == u.file
  <2>1. FileDone(s).files = Append(<< >>, x)
    BY <1>1, <1>2, <1>4 DEF FileAdded
  <2> HIDE DEF x
  <2>2. DOMAIN Append(<< >>, x) = {1}
    <3>1. << >> \in Seq({x}) /\ x \in {x} /\ Len(<< >>) = 0
      OBVIOUS
    <3>2. DOMAIN Append(<< >>, x) = 1..(0 + 1)
      BY <3>1, MoreOf
    <3> QED
      BY <3>2
  <2> QED
    BY <2>1, <2>2
<1> QED
  BY <1>3, <1>4

(* The pairs of words, whatever the form of the files.                        *)
LEMMA WordsRead == ASSUME DfRead(dfDiff) PROVE WordsPair(View(DfText(dfDiff)))
<1> DEFINE d == dfDiff
           s == Viewed(DfText(dfDiff))
           view == FileDone(s).files
<1>1. d \in Seq(GitFiles) /\ HunksThere(d) /\ WellMade(d)
  BY DEF DfRead, WellMade, HunksThere
<1>2. CASE NoSnippet(d)
  <2>1. ViewOf(d, s)
    BY <1>2 DEF DfRead, ReadSoFar
  <2>2. FilesMatch(d, view)
    BY <1>1, <2>1, DoneIs DEF Between
  <2> HIDE DEF view
  <2>3. WordsPair(view)
    BY <1>1, <2>2, WordsArePaired
  <2> QED
    BY <2>3 DEF View, view
<1>3. CASE ~NoSnippet(d)
  <2>1. NoFilesYet(s)
    BY <1>3 DEF DfRead, ReadSoFar
  <2>2. DOMAIN view \subseteq {1}
    BY <2>1, ViewYet
  <2>3. d[1].form = "snippet"
    <3>1. PICK i \in 1..Len(d) : d[i].form = "snippet"
      BY <1>3 DEF NoSnippet
    <3>2. Len(d) = 1
      BY <1>1, <3>1 DEF WellMade
    <3> QED
      BY <3>1, <3>2
  <2> HIDE DEF view
  <2>4. \A f \in DOMAIN view : dfDiff[f].form # "kept"
    BY <2>2, <2>3
  <2>5. WordsPair(view)
    BY <2>4, Zenon DEF WordsPair
  <2> QED
    BY <2>5 DEF View, view
<1> QED
  BY <1>2, <1>3

(* The files drawn and summed, whatever has been written so far.            *)
LEMMA FilesRead ==
  ASSUME DfRead(dfDiff)
  PROVE  FilesKept(DrawnDiff(View(DfText(dfDiff)), FreshViewer), DrawnDiff(View(DfText(dfDiff)), SplitViewer),
                   Summary(DfText(dfDiff)))
<1> DEFINE d == dfDiff
           s == Viewed(DfText(dfDiff))
           r == Summed(DfText(dfDiff))
           view == FileDone(s).files
           sums == SummaryDone(r).files
           drawn == DrawnDiff(view, FreshViewer)
           split == DrawnDiff(view, SplitViewer)
<1>1. d \in Seq(GitFiles) /\ HunksThere(d) /\ DOMAIN d = 1..Len(d)
  BY DEF DfRead, WellMade, HunksThere
<1>2. ASSUME NoSnippet(d)
      PROVE  /\ Len(drawn) = Len(d)
             /\ \A i \in DOMAIN d :
                  /\ drawn[i].path = ShownPath(d[i].path)
                  /\ Len(drawn[i].hunks) = Len(d[i].hunks)
                  /\ \A h \in DOMAIN d[i].hunks : HunkKept(d[i].hunks[h], drawn[i].hunks[h], split[i].hunks[h])
             /\ NoneGone(d) =>
                  /\ Len(sums) = Len(drawn) /\ DOMAIN drawn = DOMAIN d
                  /\ \A i \in DOMAIN drawn : /\ <<sums[i].added, sums[i].removed>> = drawn[i].stats
                                            /\ sums[i].path = SummedPath(d[i].path)
  <2>1. ViewOf(d, s) /\ (NoneGone(d) => SumOf(d, s, r))
    BY <1>2 DEF DfRead, ReadSoFar
  <2> HIDE DEF s, r
  <2>2. FilesMatch(d, view)
    BY <1>1, <2>1, DoneIs DEF Between
  <2>3. NoneGone(d) => CountsMatch(d, view, sums)
    BY <1>1, <2>1, SumDone
  <2> HIDE DEF view, sums
  <2>4. view \in Seq(FileSet) /\ Len(view) = Len(d)
    BY <2>2 DEF FilesMatch
  <2>5. drawn = DrawnDiff(view, FreshViewer) /\ split = DrawnDiff(view, SplitViewer)
    OBVIOUS
  <2> HIDE DEF drawn, split, d
  <2>6. /\ Len(drawn) = Len(d)
        /\ \A i \in 1..Len(d) :
             /\ drawn[i].path = ShownPath(d[i].path)
             /\ Len(drawn[i].hunks) = Len(d[i].hunks)
             /\ \A h \in 1..Len(d[i].hunks) : HunkKept(d[i].hunks[h], drawn[i].hunks[h], split[i].hunks[h])
    BY <1>1, <2>2, <2>5, AllDrawn
  <2>7. ASSUME NEW i \in 1..Len(d) PROVE DOMAIN d[i].hunks = 1..Len(d[i].hunks)
    <3>1. d[i] \in GitFiles
      BY <1>1
    <3>2. d[i].hunks \in Seq(GitHunks)
      BY <3>1 DEF GitFiles
    <3> QED
      BY <3>2
  <2>8. ASSUME NoneGone(d)
        PROVE  /\ Len(sums) = Len(drawn) /\ DOMAIN drawn = 1..Len(view)
               /\ \A i \in DOMAIN drawn : /\ <<sums[i].added, sums[i].removed>> = drawn[i].stats
                                         /\ sums[i].path = SummedPath(d[i].path)
    BY <2>3, <2>4, <2>5, <2>8, SumsMatch
  <2> QED
    BY <1>1, <2>4, <2>6, <2>7, <2>8
<1>3. /\ NoSnippet(d) <=> \A i \in DOMAIN d : d[i].form # "snippet"
      /\ NoneGone(d) <=> \A i \in DOMAIN d : CountedAlike(d[i])
  BY <1>1 DEF NoSnippet, NoneGone
<1>p. \A i \in DOMAIN d : PlainPath(d[i].path) => ShownPath(d[i].path) = d[i].path /\ SummedPath(d[i].path) = d[i].path
  <2> TAKE i \in DOMAIN d
  <2>1. d[i] \in GitFiles
    BY <1>1
  <2>2. d[i].path \in DfPaths
    BY <2>1 DEF GitFiles
  <2> QED
    BY <2>2, PlainShown
<1> HIDE DEF drawn, split, sums
<1>4. FilesKept(drawn, split, sums)
  BY <1>2, <1>3, <1>p DEF FilesKept
<1> QED
  BY <1>4 DEF drawn, split, sums, View, Summary

(* The invariant says enough.                                               *)
LEMMA ReadIsKept == ASSUME DfRead(dfDiff) PROVE DfKept
<1>1. SplitViewer = [FreshViewer EXCEPT !.mode = "split"]
  BY DEF SplitViewer
<1> HIDE DEF SplitViewer
<1> QED
  BY <1>1, WordsRead, FilesRead DEF DfKept, BothKept

LEMMA DfReadSteps == ASSUME DfRead(dfDiff), [DfNext]_dfVars PROVE DfRead(dfDiff')
<1>1. WellMade(dfDiff)
  BY DEF DfRead
<1>2. CASE DfNewFile
  BY <1>1, <1>2, GitNewFile, FileStep
<1>3. CASE DfNewHunk
  BY <1>1, <1>3, GitNewHunk, HunkStep
<1>4. CASE DfNewLine
  BY <1>1, <1>4, GitNewLine, LineStep
<1>5. CASE UNCHANGED dfVars
  BY <1>5 DEF dfVars
<1> QED
  BY <1>2, <1>3, <1>4, <1>5 DEF DfNext

(* In every diff git can write, of any files, contents and length, the viewer *)
(* draws git's files, hunks and lines with the numbers the lines have in the  *)
(* files, the columns of the split drawing are its two sides, lines set       *)
(* against each other are marked in what changed and nowhere else, and as     *)
(* long as no file is deleted, and the summary counts no line the viewer      *)
(* leaves out, it has as many files with the same counts; both name a file    *)
(* whose path has no blank and does not begin with "b/" by that path.         *)
THEOREM DfKeptHolds == DfSpec => []DfKept
<1>1. DfInit => DfRead(dfDiff)
  BY NothingRead DEF DfInit
<1>2. DfRead(dfDiff) /\ [DfNext]_dfVars => DfRead(dfDiff)'
  BY DfReadSteps
<1>3. DfRead(dfDiff) => DfKept
  BY ReadIsKept
<1> QED
  BY <1>1, <1>2, <1>3, PTL DEF DfSpec
=============================================================================
