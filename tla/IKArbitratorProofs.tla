-------------------------- MODULE IKArbitratorProofs --------------------------
(***************************************************************************)
(* The arbitrator and the lists of lexemes it works on, for lexemes and    *)
(* stretches of any number and length.  The loops of the code are folds in *)
(* the model; each is first put as the sequence of the values it goes      *)
(* through, by induction on how far it has come.                           *)
(***************************************************************************)
EXTENDS IKArbitrator, SequenceTheorems, FiniteSetTheorems, TLAPS

-----------------------------------------------------------------------------
(* Induction and folds.                                                    *)

(* A set of numbers that is not empty has a least one.                     *)
LEMMA LeastNumber ==
  ASSUME NEW T, T \subseteq Nat, T # {}
  PROVE  \E x \in T : \A y \in T : x <= y
<1> DEFINE R == OpToRel(<, Nat)
<1>1. IsWellFoundedOn(R, Nat)
  BY NatLessThanWellFounded
<1> HIDE DEF R
<1>2. PICK x \in T : \A y \in T : ~(<<y, x>> \in R)
  BY <1>1, WFMin
<1>3. \A y \in T : ~(y < x)
  BY <1>2 DEF R, OpToRel
<1> QED
  BY <1>3

(* What holds of 0, and of m + 1 when of m, holds up to n.                 *)
LEMMA UpTo ==
  ASSUME NEW n \in Nat, NEW G, 0 \in G, \A m \in 0..(n - 1) : m \in G => m + 1 \in G
  PROVE  \A m \in 0..n : m \in G
<1> SUFFICES ASSUME \E m \in 0..n : m \notin G PROVE FALSE
  OBVIOUS
<1> DEFINE T == {m \in 0..n : m \notin G}
<1>1. PICK x \in T : \A y \in T : x <= y
  <2>1. T \subseteq Nat /\ T # {}
    OBVIOUS
  <2> HIDE DEF T
  <2> QED
    BY <2>1, LeastNumber
<1>2. x - 1 \in 0..(n - 1) /\ x - 1 \notin T
  BY <1>1
<1> QED
  BY <1>1, <1>2

(* The set 1..i without its greatest element is 1..(i - 1).                *)
LEMMA PrefixMax ==
  ASSUME NEW i \in Nat \ {0}
  PROVE  Max(1..i) = i /\ (1..i) \ {i} = 1..(i - 1) /\ 1..i # {}
<1>1. i \in 1..i /\ \A y \in 1..i : i >= y
  OBVIOUS
<1>2. \A x \in 1..i : (\A y \in 1..i : x >= y) => x = i
  BY <1>1
<1>3. Max(1..i) = i
  BY <1>1, <1>2 DEF Max
<1> QED
  BY <1>1, <1>3

(* Max picks the greatest element of a set of positions.                   *)
LEMMA SubsetMax ==
  ASSUME NEW n \in Nat, NEW s \in SUBSET (1..n), s # {}
  PROVE  Max(s) \in s /\ \A y \in s : y <= Max(s)
<1> DEFINE T == {n - x : x \in s}
<1>1. T \subseteq Nat /\ T # {}
  <2>1. \A x \in s : n - x \in Nat
    OBVIOUS
  <2>2. \E x \in s : n - x \in T
    OBVIOUS
  <2> QED
    BY <2>1, <2>2
<1> HIDE DEF T
<1>2. PICK t \in T : \A y \in T : t <= y
  BY <1>1, LeastNumber
<1>3. PICK x \in s : t = n - x
  BY DEF T
<1>4. ASSUME NEW y \in s PROVE x >= y
  <2>1. n - y \in T
    BY DEF T
  <2> QED
    BY <1>2, <1>3, <2>1
<1> QED
  BY <1>4 DEF Max

(* The function that a fold over 1..n is made with, and that it exists.    *)
IsFold(g, n, base, step) ==
    \A s \in SUBSET (1..n) :
       g[s] = IF s = {} THEN base ELSE step[<<g[s \ {Max(s)}], Max(s)>>]

(* A fold over a set of positions, taken from the greatest down, exists as *)
(* a function of the set. The library states this of any operator; here    *)
(* the step is a function, which the provers can reason about.             *)
LEMMA FoldExists ==
  ASSUME NEW n \in Nat, NEW V, NEW base \in V, NEW step \in [V \X (1..n) -> V]
  PROVE  \E g \in [SUBSET (1..n) -> V] : IsFold(g, n, base, step)
<1> DEFINE Folds(m, g) == \A s \in SUBSET (1..m) :
                             g[s] = IF s = {} THEN base ELSE step[<<g[s \ {Max(s)}], Max(s)>>]
           G == {m \in 0..n : \E g \in [SUBSET (1..m) -> V] : Folds(m, g)}
<1>1. 0 \in G
  <2>1. 1..0 = {} /\ SUBSET (1..0) = {{}}
    OBVIOUS
  <2>2. Folds(0, [s \in {{}} |-> base])
    BY <2>1
  <2>3. [s \in {{}} |-> base] \in [SUBSET (1..0) -> V]
    BY <2>1
  <2>4. 0 \in 0..n
    OBVIOUS
  <2> HIDE DEF Folds
  <2> QED
    BY <2>2, <2>3, <2>4
<1>2. ASSUME NEW m \in 0..(n - 1), m \in G PROVE m + 1 \in G
  <2>1. PICK g \in [SUBSET (1..m) -> V] : Folds(m, g)
    BY <1>2
  <2>2. 1..(m + 1) = (1..m) \cup {m + 1} /\ m + 1 \notin 1..m /\ m + 1 \in 1..n
    OBVIOUS
  <2> DEFINE h == [s \in SUBSET (1..(m + 1)) |->
                     IF m + 1 \in s THEN step[<<g[s \ {m + 1}], m + 1>>] ELSE g[s]]
  <2>3. \A s \in SUBSET (1..(m + 1)) : s \ {m + 1} \in SUBSET (1..m)
    BY <2>2
  <2>4. h \in [SUBSET (1..(m + 1)) -> V]
    <3>1. ASSUME NEW s \in SUBSET (1..(m + 1)) PROVE h[s] \in V
      <4>1. m + 1 \notin s => s \in SUBSET (1..m)
        BY <2>2
      <4>2. <<g[s \ {m + 1}], m + 1>> \in V \X (1..n)
        BY <2>2, <2>3
      <4> QED
        BY <4>1, <4>2
    <3> QED
      BY <3>1
  <2>5. ASSUME NEW s \in SUBSET (1..(m + 1))
        PROVE  h[s] = IF s = {} THEN base ELSE step[<<h[s \ {Max(s)}], Max(s)>>]
    <3>1. CASE m + 1 \in s
      <4>1. Max(s) = m + 1
        <5>1. \A y \in s : y \in Nat /\ m + 1 >= y
          BY <2>2
        <5>2. \A x \in s : (\A y \in s : x >= y) => x = m + 1
          BY <3>1, <5>1
        <5> QED
          BY <3>1, <5>1, <5>2 DEF Max
      <4>2. h[s \ {m + 1}] = g[s \ {m + 1}]
        BY <2>3
      <4> QED
        BY <3>1, <4>1, <4>2
    <3>2. CASE m + 1 \notin s
      <4>1. s \in SUBSET (1..m) /\ s \ {Max(s)} \in SUBSET (1..m)
        BY <2>2, <3>2
      <4>2. h[s] = g[s] /\ h[s \ {Max(s)}] = g[s \ {Max(s)}]
        BY <2>2, <3>2, <4>1
      <4> HIDE DEF h
      <4> QED
        BY <2>1, <4>1, <4>2
    <3> QED
      BY <3>1, <3>2
  <2> HIDE DEF h
  <2>6. Folds(m + 1, h) /\ m + 1 \in 0..n
    BY <2>5
  <2> HIDE DEF Folds
  <2> QED
    BY <2>4, <2>6
<1> HIDE DEF G
<1>3. n \in G
  BY <1>1, <1>2, UpTo
<1> QED
  BY <1>3 DEF G, IsFold

-----------------------------------------------------------------------------
(* The sum of the lengths.                                                 *)
Total(q) == FoldLeft(LAMBDA n, l : n + l.length, 0, q)

(* From the d-th on, f adds up the lengths of q.                           *)
AddsUp(f, q, d) == \A i \in 1..Len(q) : f[i + d] = f[i + d - 1] + q[i].length

(* Total is the last of the sums of the lengths of a list's prefixes.      *)
LEMMA TotalSteps ==
  ASSUME NEW q \in Seq(Lexeme)
  PROVE  \E f : f[0] = 0 /\ AddsUp(f, q, 0) /\ f[Len(q)] = Total(q)
<1> DEFINE n == Len(q)
           step == [x \in Nat \X (1..n) |-> x[1] + q[x[2]].length]
           Eq(g) == g = [s \in SUBSET DOMAIN q |->
                           IF s = {} THEN 0 ELSE g[s \ {Max(s)}] + q[Max(s)].length]
           fold == CHOOSE g : Eq(g)
<1>1. n \in Nat /\ DOMAIN q = 1..n /\ \A i \in 1..n : q[i].length \in Nat
  <2>1. \A l \in Lexeme : l.length \in Nat
    BY DEF Lexeme
  <2> QED
    BY <2>1
<1>2. Total(q) = fold[DOMAIN q]
  BY DEF Total, FoldLeft, MapThenFoldSet
<1>3. \E h : Eq(h)
  <2> DEFINE V == Nat
             none == 0
  <2>1. step \in [V \X (1..n) -> V] /\ none \in V
    BY <1>1
  <2> HIDE DEF Eq, fold, step, n, V, none
  <2>2. PICK h \in [SUBSET (1..n) -> V] : IsFold(h, n, none, step)
    BY <1>1, <2>1, FoldExists
  <2>3. ASSUME NEW s \in SUBSET (1..n), s # {} PROVE Max(s) \in 1..n
    BY <1>1, <2>3, SubsetMax DEF n
  <2>4. \A s \in SUBSET (1..n) :
           h[s] = IF s = {} THEN 0 ELSE h[s \ {Max(s)}] + q[Max(s)].length
    BY <2>2, <2>3 DEF IsFold, step, V, none
  <2> QED
    BY <1>1, <2>2, <2>4 DEF Eq, V
<1> HIDE DEF fold, Eq
<1>4. Eq(fold)
  BY <1>3 DEF fold
<1> DEFINE f == [i \in 0..n |-> fold[1..i]]
<1>5. \A s \in SUBSET (1..n) : fold[s] = IF s = {} THEN 0 ELSE fold[s \ {Max(s)}] + q[Max(s)].length
  BY <1>1, <1>4 DEF Eq
<1>6. f[0] = 0 /\ f[n] = Total(q)
  <2>1. 1..0 = {} /\ 1..0 \in SUBSET (1..n)
    OBVIOUS
  <2>2. f[0] = fold[1..0] /\ f[n] = fold[1..n]
    BY <1>1
  <2> HIDE DEF f
  <2> QED
    BY <1>1, <1>2, <1>5, <2>1, <2>2
<1>7. ASSUME NEW i \in 1..n PROVE f[i] = f[i - 1] + q[i].length
  <2>1. Max(1..i) = i /\ (1..i) \ {i} = 1..(i - 1) /\ 1..i # {}
    BY <1>1, PrefixMax
  <2>2. 1..i \in SUBSET (1..n) /\ i \in 0..n /\ i - 1 \in 0..n
    BY <1>1
  <2> QED
    BY <1>5, <2>1, <2>2
<1> HIDE DEF f
<1>8. AddsUp(f, q, 0)
  BY <1>7 DEF AddsUp
<1> QED
  BY <1>6, <1>8

(* Two that add up the same lengths.                                       *)
LEMMA TotalShift ==
  ASSUME NEW q \in Seq(Lexeme), NEW d \in Nat, NEW f, NEW g,
         AddsUp(f, q, 0), AddsUp(g, q, d), f[0] = 0, g[d] \in Nat
  PROVE  f[Len(q)] \in Nat /\ g[Len(q) + d] = g[d] + f[Len(q)]
<1> DEFINE k == Len(q)
           G == {m \in 0..k : f[m] \in Nat /\ g[m + d] = g[d] + f[m]}
<1>1. \A i \in 1..Len(q) : q[i].length \in Nat
  <2>1. \A l \in Lexeme : l.length \in Nat
    BY DEF Lexeme
  <2> QED
    BY <2>1
<1>2. 0 \in G
  OBVIOUS
<1>3. ASSUME NEW m \in 0..(k - 1), m \in G PROVE m + 1 \in G
  <2>1. /\ m + 1 \in 1..k /\ m + 1 \in 1..Len(q) /\ (m + 1) - 1 = m
        /\ (m + 1) + d - 1 = m + d
      /\ (m + 1) + 0 = m + 1 /\ (m + 1) + 0 - 1 = m
    OBVIOUS
  <2>2. f[m + 1] = f[m] + q[m + 1].length /\ g[(m + 1) + d] = g[m + d] + q[m + 1].length
    <3>1. f[(m + 1) + 0] = f[(m + 1) + 0 - 1] + q[m + 1].length
      BY <2>1 DEF AddsUp
    <3>2. g[(m + 1) + d] = g[(m + 1) + d - 1] + q[m + 1].length
      BY <2>1 DEF AddsUp
    <3> QED
      BY <2>1, <3>1, <3>2
  <2>3. f[m] \in Nat /\ g[m + d] = g[d] + f[m] /\ q[m + 1].length \in Nat
    BY <1>1, <1>3, <2>1
  <2>4. f[m + 1] \in Nat /\ g[(m + 1) + d] = g[d] + f[m + 1]
    BY <2>2, <2>3
  <2> QED
    BY <2>1, <2>4
<1> HIDE DEF G
<1>4. k \in Nat
  OBVIOUS
<1>5. \A m \in 0..k : m \in G
  BY <1>2, <1>3, <1>4, UpTo
<1> QED
  BY <1>4, <1>5 DEF G

(* Total counts the empty list as nothing, and one more lexeme, at either  *)
(* end, as its length.                                                     *)
LEMMA TotalFacts ==
  /\ Total(<<>>) = 0
  /\ \A q \in Seq(Lexeme) : Total(q) \in Nat
  /\ \A q \in Seq(Lexeme), l \in Lexeme :
        /\ Total(Append(q, l)) = Total(q) + l.length
        /\ Total(<<l>> \o q) = l.length + Total(q)
<1>1. ASSUME NEW q \in Seq(Lexeme) PROVE Total(q) \in Nat
  <2>1. PICK f : f[0] = 0 /\ AddsUp(f, q, 0) /\ f[Len(q)] = Total(q)
    BY TotalSteps
  <2>3. f[Len(q)] \in Nat
    BY <2>1, TotalShift
  <2> QED
    BY <2>1, <2>3
<1>2. Total(<<>>) = 0
  <2>1. <<>> \in Seq(Lexeme) /\ Len(<<>>) = 0
    BY EmptySeq
  <2> QED
    BY <2>1, TotalSteps
<1>3. ASSUME NEW q \in Seq(Lexeme), NEW l \in Lexeme
      PROVE  Total(Append(q, l)) = Total(q) + l.length
  <2> DEFINE r == Append(q, l)
             n == Len(q)
  <2>1. r \in Seq(Lexeme) /\ Len(r) = n + 1 /\ n \in Nat /\ r[n + 1] = l
        /\ \A i \in 1..n : r[i] = q[i]
    OBVIOUS
  <2>2. PICK f : f[0] = 0 /\ AddsUp(f, q, 0) /\ f[n] = Total(q)
    BY TotalSteps
  <2> HIDE DEF r
  <2>3. PICK g : g[0] = 0 /\ AddsUp(g, r, 0) /\ g[Len(r)] = Total(r)
    BY <2>1, TotalSteps
  <2>9. \A i \in 1..(n + 1) : g[i] = g[i - 1] + r[i].length
    BY <2>1, <2>3 DEF AddsUp
  <2>4. AddsUp(g, q, 0)
    BY <2>1, <2>9 DEF AddsUp
  <2>6. f[n] \in Nat /\ g[n + 0] = g[0] + f[n]
    BY <2>2, <2>3, <2>4, TotalShift
  <2>7. g[n] = f[n]
    BY <2>1, <2>3, <2>6
  <2>8. g[n + 1] = g[n] + r[n + 1].length
    BY <2>1, <2>9
  <2> QED
    BY <2>1, <2>2, <2>3, <2>7, <2>8 DEF r
<1>4. ASSUME NEW q \in Seq(Lexeme), NEW l \in Lexeme
      PROVE  Total(<<l>> \o q) = l.length + Total(q)
  <2> DEFINE r == <<l>> \o q
             n == Len(q)
  <2>1. r \in Seq(Lexeme) /\ Len(r) = n + 1 /\ n \in Nat /\ r[1] = l
        /\ \A i \in 1..n : r[i + 1] = q[i]
    OBVIOUS
  <2>2. PICK f : f[0] = 0 /\ AddsUp(f, q, 0) /\ f[n] = Total(q)
    BY TotalSteps
  <2> HIDE DEF r
  <2>3. PICK g : g[0] = 0 /\ AddsUp(g, r, 0) /\ g[Len(r)] = Total(r)
    BY <2>1, TotalSteps
  <2>9. \A i \in 1..(n + 1) : g[i] = g[i - 1] + r[i].length
    BY <2>1, <2>3 DEF AddsUp
  <2>4. AddsUp(g, q, 1)
    BY <2>1, <2>9 DEF AddsUp
  <2>5. l.length \in Nat /\ g[1] = l.length
    <3>1. g[1] = g[1 - 1] + r[1].length
      BY <2>1, <2>9
    <3> QED
      BY <2>1, <2>3, <3>1 DEF Lexeme
  <2>6. f[n] \in Nat /\ g[n + 1] = g[1] + f[n]
    BY <2>2, <2>4, <2>5, TotalShift
  <2> QED
    BY <2>1, <2>2, <2>3, <2>5, <2>6 DEF r
<1> QED
  BY <1>1, <1>2, <1>3, <1>4

-----------------------------------------------------------------------------
(* The list of lexemes.                                                    *)
Ordered(q) == \A i, j \in DOMAIN q : i < j => Before(q[i], q[j])

(* Before is a strict order on lexemes of which SameSpan is the equality   *)
(* (lexeme.go:80-94).                                                      *)
LEMMA OrderFacts ==
  /\ \A l \in Lexeme : /\ l.begin \in Nat /\ l.length \in Nat \ {0} /\ l.offset \in Nat
                       /\ End(l) = l.begin + l.length /\ End(l) \in Nat
  /\ \A l, m \in Lexeme : Before(l, m) \/ Before(m, l) \/ SameSpan(l, m)
  /\ \A l, m \in Lexeme : Before(l, m) => ~Before(m, l) /\ ~SameSpan(l, m)
  /\ \A l, m, n \in Lexeme : Before(l, m) /\ Before(m, n) => Before(l, n)
  /\ \A l, m, n \in Lexeme : Before(l, m) /\ SameSpan(m, n) => Before(l, n)
<1>1. \A l \in Lexeme : /\ l.begin \in Nat /\ l.length \in Nat \ {0} /\ l.offset \in Nat
                        /\ End(l) = l.begin + l.length /\ End(l) \in Nat
  BY DEF Lexeme, End
<1> QED
  BY <1>1 DEF Before, SameSpan

(* r is q with e behind the m-th.                                          *)
Inserted(r, q, m, e) ==
    /\ Len(r) = Len(q) + 1
    /\ \A i \in 1..m : r[i] = q[i]
    /\ r[m + 1] = e
    /\ \A i \in (m + 1)..Len(q) : r[i + 1] = q[i]

(* InsertAt puts the newcomer behind the first m and moves the rest up.    *)
LEMMA InsertFacts ==
  ASSUME NEW S, NEW q \in Seq(S), NEW m \in 0..Len(q), NEW e \in S
  PROVE  InsertAt(q, m + 1, e) \in Seq(S) /\ Inserted(InsertAt(q, m + 1, e), q, m, e)
<1> DEFINE a == SubSeq(q, 1, m)
           b == SubSeq(q, m + 1, Len(q))
           r == a \o <<e>> \o b
<1>1. InsertAt(q, m + 1, e) = r
  <2>1. (m + 1) - 1 = m
    OBVIOUS
  <2> QED
    BY <2>1 DEF InsertAt
<1>2. a \in Seq(S) /\ Len(a) = m /\ \A i \in 1..m : a[i] = q[i]
  <2>1. \A i \in 1..m : q[i] \in S
    OBVIOUS
  <2> QED
    BY <2>1, SubSeqProperties
<1>3. b \in Seq(S) /\ Len(b) = Len(q) - m /\ \A i \in 1..(Len(q) - m) : b[i] = q[m + i]
  <2>1. \A i \in (m + 1)..Len(q) : q[i] \in S
    OBVIOUS
  <2>2. m + 1 \in Int /\ Len(q) \in Int
    OBVIOUS
  <2> QED
    BY <2>1, <2>2, SubSeqProperties
<1> HIDE DEF a, b
<1>4. /\ a \o <<e>> \in Seq(S) /\ Len(a \o <<e>>) = m + 1
      /\ \A i \in 1..m : (a \o <<e>>)[i] = q[i]
      /\ (a \o <<e>>)[m + 1] = e
  BY <1>2
<1> DEFINE ae == a \o <<e>>
<1>9. m \in Nat /\ Len(q) \in Nat /\ m <= Len(q) /\ ae \in Seq(S) /\ Len(ae) = m + 1
  BY <1>4
<1> HIDE DEF ae
<1>5. /\ ae \o b \in Seq(S) /\ Len(ae \o b) = m + 1 + (Len(q) - m)
      /\ \A i \in 1..(m + 1) : (ae \o b)[i] = ae[i]
      /\ \A i \in 1..(Len(q) - m) : (ae \o b)[m + 1 + i] = b[i]
  <2> DEFINE n == Len(q) - m
             c == ae \o b
  <2>1. n \in Nat /\ Len(b) = n /\ b \in Seq(S)
    BY <1>3, <1>9
  <2>2. /\ c \in Seq(S) /\ Len(c) = m + 1 + n
        /\ \A i \in 1..(m + 1 + n) : c[i] = IF i <= m + 1 THEN ae[i] ELSE b[i - (m + 1)]
    <3> HIDE DEF n
    <3>1. /\ c \in Seq(S) /\ Len(c) = Len(ae) + Len(b)
          /\ \A i \in 1..(Len(ae) + Len(b)) : c[i] = IF i <= Len(ae) THEN ae[i] ELSE b[i - Len(ae)]
      <4> HIDE DEF c
      <4>1. c = ae \o b
        BY DEF c
      <4> QED
        BY <1>9, <2>1, <4>1, ConcatProperties
    <3> HIDE DEF c
    <3> QED
      BY <1>9, <2>1, <3>1
  <2> HIDE DEF n, c
  <2>3. \A i \in 1..(m + 1) : c[i] = ae[i]
    BY <1>9, <2>1, <2>2
  <2>4. ASSUME NEW i \in 1..n PROVE c[m + 1 + i] = b[i]
    <3>1. m + 1 + i \in 1..(m + 1 + n) /\ ~(m + 1 + i <= m + 1) /\ m + 1 + i - (m + 1) = i
      BY <1>9, <2>1
    <3> QED
      BY <2>2, <3>1
  <2> QED
    BY <2>2, <2>3, <2>4 DEF n, c
<1>6. r \in Seq(S) /\ Len(r) = Len(q) + 1
      /\ (\A i \in 1..(m + 1) : r[i] = ae[i])
      /\ \A i \in 1..(Len(q) - m) : r[m + 1 + i] = b[i]
  BY <1>5, <1>9 DEF ae
<1> HIDE DEF r
<1>7. \A i \in (m + 1)..Len(q) : r[i + 1] = q[i]
  <2> SUFFICES ASSUME NEW i \in (m + 1)..Len(q) PROVE r[i + 1] = q[i]
    OBVIOUS
  <2>1. i - m \in 1..(Len(q) - m) /\ m + 1 + (i - m) = i + 1 /\ m + (i - m) = i
    OBVIOUS
  <2>2. r[m + 1 + (i - m)] = b[i - m] /\ b[i - m] = q[m + (i - m)]
    BY <1>3, <1>6, <2>1
  <2> QED
    BY <2>1, <2>2
<1>8. (\A i \in 1..m : r[i] = q[i]) /\ r[m + 1] = e
  <2>1. \A i \in 1..(m + 1) : ae[i] = IF i = m + 1 THEN e ELSE q[i]
    BY <1>4, <1>9 DEF ae
  <2> HIDE DEF ae
  <2>2. ASSUME NEW i \in 1..m PROVE r[i] = q[i]
    <3>1. i \in 1..(m + 1) /\ i # m + 1
      BY <1>9
    <3>2. ae[i] = q[i]
      BY <2>1, <3>1
    <3> QED
      BY <1>6, <3>1, <3>2
  <2>3. r[m + 1] = e
    <3>1. m + 1 \in 1..(m + 1)
      BY <1>9
    <3>2. ae[m + 1] = e
      BY <2>1, <3>1
    <3> QED
      BY <1>6, <3>1, <3>2
  <2> QED
    BY <2>2, <2>3
<1>10. r \in Seq(S) /\ Inserted(r, q, m, e)
  BY <1>6, <1>7, <1>8 DEF Inserted
<1> QED
  BY <1>1, <1>10

(* Where a lexeme goes.                                                    *)
Earlier(q, l) == {k \in DOMAIN q : Before(q[k], l)}

(* The number of members before a lexeme is at most the length of the      *)
(* list.                                                                   *)
LEMMA EarlierCount ==
  ASSUME NEW q \in Seq(Lexeme), NEW l
  PROVE  Cardinality(Earlier(q, l)) \in 0..Len(q)
<1>1. Earlier(q, l) \in SUBSET (1..Len(q))
  BY DEF Earlier
<1>2. IsFiniteSet(1..Len(q)) /\ Cardinality(1..Len(q)) = Len(q)
  <2>1. Len(q) \in Nat /\ Len(q) - 1 + 1 = Len(q) /\ 1 <= Len(q) + 1
    OBVIOUS
  <2> QED
    BY <2>1, FS_Interval
<1>3. IsFiniteSet(Earlier(q, l)) /\ Cardinality(Earlier(q, l)) <= Len(q)
  BY <1>1, <1>2, FS_Subset
<1> QED
  BY <1>3, FS_CardinalityType

(* In a sorted list the members before a lexeme are a prefix.              *)
LEMMA EarlierIsPrefix ==
  ASSUME NEW q \in Seq(Lexeme), Ordered(q), NEW l \in Lexeme
  PROVE  \E m \in 0..Len(q) : /\ Cardinality(Earlier(q, l)) = m
                              /\ Earlier(q, l) = 1..m
<1> DEFINE later == {k \in 1..(Len(q) + 1) : k \notin Earlier(q, l)}
<1>1. later \subseteq Nat /\ Len(q) + 1 \in later
  BY DEF Earlier
<1> HIDE DEF later
<1>2. PICK x \in later : \A y \in later : x <= y
  BY <1>1, LeastNumber
<1>3. x \in 1..(Len(q) + 1) /\ x \notin Earlier(q, l)
  BY DEF later
<1>4. \A k \in 1..(x - 1) : k \in Earlier(q, l)
  BY <1>2, <1>3 DEF later
<1>5. ASSUME NEW k \in Earlier(q, l) PROVE k \in 1..(x - 1)
  <2>1. k \in 1..Len(q) /\ Before(q[k], l) /\ q[k] \in Lexeme
    BY DEF Earlier
  <2>2. ASSUME x < k PROVE FALSE
    <3>1. x \in DOMAIN q /\ k \in DOMAIN q /\ q[x] \in Lexeme
      BY <1>3, <2>1, <2>2
    <3>2. Before(q[x], q[k])
      BY <2>2, <3>1 DEF Ordered
    <3>3. Before(q[x], l)
      BY <2>1, <3>1, <3>2, OrderFacts
    <3> QED
      BY <1>3, <3>1, <3>3 DEF Earlier
  <2> QED
    BY <1>3, <2>1, <2>2
<1>6. Earlier(q, l) = 1..(x - 1)
  BY <1>4, <1>5
<1>7. x - 1 \in Nat /\ x - 1 \in 0..Len(q)
  BY <1>3
<1>8. Cardinality(1..(x - 1)) = x - 1
  BY <1>7, FS_Interval
<1> QED
  BY <1>6, <1>7, <1>8

-----------------------------------------------------------------------------
(* Adding a lexeme.                                                        *)

(* A lexeme of a new span goes behind those before it                      *)
(* (quick_sort_set.go:35-79).                                              *)
LEMMA AddedAt ==
  ASSUME NEW q \in Seq(Lexeme), NEW l \in Lexeme, \A k \in DOMAIN q : ~SameSpan(q[k], l),
         NEW m \in 0..Len(q), Cardinality(Earlier(q, l)) = m
  PROVE  /\ AddLexeme(q, l) \in Seq(Lexeme) /\ Len(AddLexeme(q, l)) = Len(q) + 1
         /\ \A i \in 1..m : AddLexeme(q, l)[i] = q[i]
         /\ AddLexeme(q, l)[m + 1] = l
         /\ \A i \in (m + 1)..Len(q) : AddLexeme(q, l)[i + 1] = q[i]
<1>1. AddLexeme(q, l) = InsertAt(q, m + 1, l)
  BY DEF AddLexeme, Earlier
<1> DEFINE r == InsertAt(q, m + 1, l)
<1>2. r \in Seq(Lexeme) /\ Inserted(r, q, m, l)
  BY InsertFacts
<1> HIDE DEF r
<1>3. AddLexeme(q, l) = r
  BY <1>1 DEF r
<1> QED
  BY <1>2, <1>3 DEF Inserted

(* A list of lexemes stays one, and is not empty after an addition.        *)
LEMMA AddLexemeTyped ==
  ASSUME NEW q \in Seq(Lexeme), NEW l \in Lexeme
  PROVE  AddLexeme(q, l) \in Seq(Lexeme) /\ (AddLexeme(q, l) # <<>>)
<1>1. CASE \E k \in DOMAIN q : SameSpan(q[k], l)
  <2>1. AddLexeme(q, l) = q /\ q # <<>>
    BY <1>1 DEF AddLexeme
  <2> QED
    BY <2>1
<1>2. CASE \A k \in DOMAIN q : ~SameSpan(q[k], l)
  <2>1. PICK m \in 0..Len(q) : Cardinality(Earlier(q, l)) = m
    BY EarlierCount
  <2>2. AddLexeme(q, l) \in Seq(Lexeme) /\ Len(AddLexeme(q, l)) = Len(q) + 1
    BY <1>2, <2>1, AddedAt
  <2>3. Len(q) + 1 # 0 /\ Len(<<>>) = 0
    OBVIOUS
  <2> QED
    BY <2>2, <2>3
<1> QED
  BY <1>1, <1>2

(* What is behind every member is put at the end.                          *)
LEMMA AddLast ==
  ASSUME NEW q \in Seq(Lexeme), NEW l \in Lexeme, \A k \in DOMAIN q : Before(q[k], l)
  PROVE  AddLexeme(q, l) = Append(q, l)
<1>1. \A k \in DOMAIN q : q[k] \in Lexeme /\ ~SameSpan(q[k], l)
  BY OrderFacts
<1>2. Earlier(q, l) = 1..Len(q) /\ Len(q) \in 0..Len(q)
  BY DEF Earlier
<1>3. Cardinality(Earlier(q, l)) = Len(q)
  BY <1>2, FS_Interval
<1>4. /\ AddLexeme(q, l) \in Seq(Lexeme) /\ Len(AddLexeme(q, l)) = Len(q) + 1
      /\ \A i \in 1..Len(q) : AddLexeme(q, l)[i] = q[i]
      /\ AddLexeme(q, l)[Len(q) + 1] = l
  BY <1>1, <1>2, <1>3, AddedAt
<1> DEFINE r == AddLexeme(q, l)
<1> HIDE DEF r
<1>5. r \in Seq(Lexeme) /\ Len(r) = Len(q) + 1 /\ \A i \in 1..(Len(q) + 1) : r[i] = Append(q, l)[i]
  BY <1>4 DEF r
<1>6. Append(q, l) \in Seq(Lexeme) /\ Len(Append(q, l)) = Len(q) + 1
  OBVIOUS
<1> QED
  BY <1>5, <1>6, SeqEqual DEF r

(* What is before every member is put at the head.                         *)
LEMMA AddFirst ==
  ASSUME NEW q \in Seq(Lexeme), NEW l \in Lexeme, \A k \in DOMAIN q : Before(l, q[k])
  PROVE  AddLexeme(q, l) = <<l>> \o q
<1>1. \A k \in DOMAIN q : q[k] \in Lexeme /\ ~SameSpan(q[k], l) /\ ~Before(q[k], l)
  <2>1. \A k \in DOMAIN q : q[k] \in Lexeme
    OBVIOUS
  <2>2. \A k \in DOMAIN q : SameSpan(q[k], l) => SameSpan(l, q[k])
    BY DEF SameSpan
  <2> QED
    BY <2>1, <2>2, OrderFacts
<1>2. Earlier(q, l) = {} /\ \E m \in 0..Len(q) : m = 0
  BY <1>1 DEF Earlier
<1>9. PICK m \in 0..Len(q) : m = 0
  BY <1>2
<1>3. Cardinality(Earlier(q, l)) = m
  BY <1>2, <1>9, FS_EmptySet
<1> DEFINE r == AddLexeme(q, l)
           c == <<l>> \o q
<1>4. /\ r \in Seq(Lexeme) /\ Len(r) = Len(q) + 1
      /\ r[m + 1] = l
      /\ \A i \in (m + 1)..Len(q) : r[i + 1] = q[i]
  <2> HIDE DEF c
  <2> QED
    BY <1>1, <1>3, AddedAt
<1>5. c \in Seq(Lexeme) /\ Len(c) = Len(q) + 1 /\ c[1] = l
      /\ \A i \in 1..Len(q) : c[i + 1] = q[i]
  OBVIOUS
<1> HIDE DEF r, c
<1>6. ASSUME NEW i \in 1..(Len(q) + 1) PROVE r[i] = c[i]
  <2>1. CASE i = 1
    <3>1. m + 1 = 1
      BY <1>9
    <3> QED
      BY <1>4, <1>5, <2>1, <3>1
  <2>2. CASE i # 1
    <3>1. i - 1 \in 1..Len(q) /\ i - 1 \in (m + 1)..Len(q) /\ (i - 1) + 1 = i
      BY <1>9, <2>2
    <3>2. r[(i - 1) + 1] = q[i - 1]
      BY <1>4, <3>1
    <3>3. c[(i - 1) + 1] = q[i - 1]
      BY <1>5, <3>1
    <3> QED
      BY <3>1, <3>2, <3>3
  <2> QED
    BY <2>1, <2>2
<1>7. r = c
  BY <1>4, <1>5, <1>6, SeqEqual
<1> QED
  BY <1>7 DEF r, c

(* A sorted list stays sorted, and a new span adds one member.             *)
LEMMA AddLexemeFacts ==
  ASSUME NEW q \in Seq(Lexeme), Ordered(q), NEW l \in Lexeme
  PROVE  /\ AddLexeme(q, l) \in Seq(Lexeme) /\ Ordered(AddLexeme(q, l))
         /\ (\A k \in DOMAIN q : ~SameSpan(q[k], l))
               => ToSet(AddLexeme(q, l)) = ToSet(q) \cup {l}
<1>1. CASE \E k \in DOMAIN q : SameSpan(q[k], l)
  BY <1>1 DEF AddLexeme
<1>2. CASE \A k \in DOMAIN q : ~SameSpan(q[k], l)
  <2> DEFINE r == AddLexeme(q, l)
             n == Len(q)
  <2>1. PICK m \in 0..n : Cardinality(Earlier(q, l)) = m /\ Earlier(q, l) = 1..m
    BY EarlierIsPrefix
  <2>2. /\ r \in Seq(Lexeme) /\ Len(r) = n + 1
        /\ \A i \in 1..m : r[i] = q[i]
        /\ r[m + 1] = l
        /\ \A i \in (m + 1)..n : r[i + 1] = q[i]
    BY <1>2, <2>1, AddedAt
  <2> HIDE DEF r
  <2>3. DOMAIN q = 1..n /\ DOMAIN r = 1..(n + 1) /\ n \in Nat /\ \A i \in 1..n : q[i] \in Lexeme
    BY <2>2
  <2> HIDE DEF n
  <2>4. (\A i \in 1..m : Before(q[i], l)) /\ \A i \in (m + 1)..n : Before(l, q[i])
    <3>1. ASSUME NEW i \in 1..m PROVE Before(q[i], l)
      BY <2>1, <3>1 DEF Earlier
    <3>2. ASSUME NEW i \in (m + 1)..n PROVE Before(l, q[i])
      <4>1. i \in 1..n /\ i \notin 1..m
        BY <2>3
      <4>2. ~Before(q[i], l) /\ ~SameSpan(q[i], l) /\ q[i] \in Lexeme
        BY <1>2, <2>1, <2>3, <4>1 DEF Earlier
      <4> QED
        BY <4>2, OrderFacts
    <3> QED
      BY <3>1, <3>2
  <2>5. ASSUME NEW i \in 1..(n + 1)
        PROVE  \/ i \in 1..m /\ i \in 1..n /\ r[i] = q[i]
               \/ i = m + 1 /\ r[i] = l
               \/ i - 1 \in (m + 1)..n /\ i - 1 \in 1..n /\ r[i] = q[i - 1]
    <3>1. CASE i \in 1..m
      <4>1. i \in 1..n
        BY <2>3, <3>1
      <4> QED
        BY <2>2, <3>1, <4>1
    <3>2. CASE i = m + 1
      BY <2>2, <3>2
    <3>3. CASE i > m + 1
      <4>1. i - 1 \in (m + 1)..n /\ (i - 1) + 1 = i /\ i - 1 \in 1..n
        BY <2>3, <3>3
      <4>2. r[(i - 1) + 1] = q[i - 1]
        BY <2>2, <4>1
      <4> QED
        BY <4>1, <4>2
    <3> QED
      BY <2>3, <3>1, <3>2, <3>3
  <2>6. ASSUME NEW i \in 1..(n + 1), NEW j \in 1..(n + 1), i < j
        PROVE  Before(r[i], r[j])
    <3>1. \A x, y \in 1..n : x < y => Before(q[x], q[y])
      BY <2>3 DEF Ordered
    <3>2. CASE i \in 1..m /\ i \in 1..n /\ r[i] = q[i]
      <4>1. CASE j \in 1..m /\ j \in 1..n /\ r[j] = q[j]
        BY <2>6, <3>1, <3>2, <4>1
      <4>2. CASE j = m + 1 /\ r[j] = l
        BY <2>4, <3>2, <4>2
      <4>3. CASE j - 1 \in (m + 1)..n /\ j - 1 \in 1..n /\ r[j] = q[j - 1]
        <5>1. i < j - 1
          BY <3>2, <4>3
        <5> QED
          BY <3>1, <3>2, <4>3, <5>1
      <4> QED
        BY <2>5, <4>1, <4>2, <4>3
    <3>3. CASE i = m + 1 /\ r[i] = l
      <4>1. j - 1 \in (m + 1)..n /\ j - 1 \in 1..n /\ r[j] = q[j - 1]
        BY <2>5, <2>6, <3>3
      <4> QED
        BY <2>4, <3>3, <4>1
    <3>4. CASE i - 1 \in (m + 1)..n /\ i - 1 \in 1..n /\ r[i] = q[i - 1]
      <4>1. j - 1 \in (m + 1)..n /\ j - 1 \in 1..n /\ r[j] = q[j - 1]
        BY <2>5, <2>6, <3>4
      <4>2. i - 1 < j - 1
        BY <2>6
      <4> QED
        BY <3>1, <3>4, <4>1, <4>2
    <3> QED
      BY <2>5, <3>2, <3>3, <3>4
  <2>7. Ordered(r)
    BY <2>3, <2>6 DEF Ordered
  <2>8. ToSet(r) = ToSet(q) \cup {l}
    <3>1. ASSUME NEW i \in 1..(n + 1) PROVE r[i] \in ToSet(q) \cup {l}
      BY <2>3, <2>5 DEF ToSet
    <3>2. ASSUME NEW i \in 1..n PROVE q[i] \in ToSet(r)
      <4>1. CASE i \in 1..m
        <5>1. i \in 1..(n + 1) /\ r[i] = q[i]
          BY <2>2, <2>3, <4>1
        <5> QED
          BY <2>3, <5>1 DEF ToSet
      <4>2. CASE i \in (m + 1)..n
        <5>1. i + 1 \in 1..(n + 1) /\ r[i + 1] = q[i]
          BY <2>2, <2>3, <4>2
        <5> QED
          BY <2>3, <5>1 DEF ToSet
      <4> QED
        BY <2>3, <4>1, <4>2
    <3>3. m + 1 \in 1..(n + 1)
      BY <2>3
    <3>4. l \in ToSet(r)
      BY <2>2, <2>3, <3>3 DEF ToSet
    <3> QED
      BY <2>3, <3>1, <3>2, <3>4 DEF ToSet
  <2> QED
    BY <2>2, <2>7, <2>8 DEF r
<1> QED
  BY <1>1, <1>2

-----------------------------------------------------------------------------
(* Segmentations.                                                          *)
Path == [lexemes: Seq(Lexeme), pathBegin: Int, pathEnd: Int, payloadLength: Int]

Spaced(q) == \A i, j \in DOMAIN q : i < j => End(q[i]) <= q[j].begin

(* What IsSegmentation says of a chain that is not empty.                  *)
LEMMA SegmentationIs ==
  /\ \A p : IsSegmentation(p) <=>
        /\ Spaced(p.lexemes)
        /\ p.lexemes = <<>> => p = newLexemePath
        /\ p.lexemes # <<>> =>
              /\ p.pathBegin = Head(p.lexemes).begin
              /\ p.pathEnd = End(Last(p.lexemes))
              /\ p.payloadLength = Total(p.lexemes)
  /\ newLexemePath \in Path /\ IsSegmentation(newLexemePath)
<1>1. ASSUME NEW p
      PROVE  IsSegmentation(p) <=>
                /\ Spaced(p.lexemes)
                /\ p.lexemes = <<>> => p = newLexemePath
                /\ p.lexemes # <<>> =>
                      /\ p.pathBegin = Head(p.lexemes).begin
                      /\ p.pathEnd = End(Last(p.lexemes))
                      /\ p.payloadLength = Total(p.lexemes)
  BY DEF IsSegmentation, Spaced, IsEmpty, Total
<1>2. newLexemePath \in Path /\ newLexemePath.lexemes = <<>>
  BY DEF Path, newLexemePath
<1>3. Spaced(<<>>)
  BY DEF Spaced
<1>4. IsSegmentation(newLexemePath)
  BY <1>1, <1>2, <1>3
<1> QED
  BY <1>1, <1>2, <1>4

(* Lexemes that follow one another without overlap begin behind the first  *)
(* one's begin and end before the last one's end.                          *)
LEMMA SpacedEnds ==
  ASSUME NEW q \in Seq(Lexeme), Spaced(q), q # <<>>
  PROVE  /\ Len(q) \in Nat \ {0} /\ Head(q) = q[1] /\ Last(q) = q[Len(q)]
         /\ q[1] \in Lexeme /\ q[Len(q)] \in Lexeme
         /\ \A k \in DOMAIN q : /\ q[k] \in Lexeme
                                /\ q[1].begin <= q[k].begin
                                /\ End(q[k]) <= End(q[Len(q)])
<1>1. Len(q) \in Nat \ {0} /\ Head(q) = q[1] /\ Last(q) = q[Len(q)] /\ DOMAIN q = 1..Len(q)
  BY DEF Last
<1>2. \A k \in DOMAIN q : q[k] \in Lexeme
  OBVIOUS
<1>3. 1 \in DOMAIN q /\ Len(q) \in DOMAIN q
  BY <1>1
<1>4. ASSUME NEW k \in DOMAIN q PROVE q[1].begin <= q[k].begin
  <2>1. CASE k = 1
    BY <1>2, <1>3, <2>1, OrderFacts
  <2>2. CASE k # 1
    <3>1. End(q[1]) <= q[k].begin
      BY <1>1, <1>3, <2>2 DEF Spaced
    <3> QED
      BY <1>2, <1>3, <3>1, OrderFacts
  <2> QED
    BY <2>1, <2>2
<1>5. ASSUME NEW k \in DOMAIN q PROVE End(q[k]) <= End(q[Len(q)])
  <2>1. CASE k = Len(q)
    BY <1>2, <1>3, <2>1, OrderFacts
  <2>2. CASE k # Len(q)
    <3>1. End(q[k]) <= q[Len(q)].begin
      BY <1>1, <1>3, <2>2 DEF Spaced
    <3> QED
      BY <1>2, <1>3, <3>1, OrderFacts
  <2> QED
    BY <2>1, <2>2
<1> QED
  BY <1>1, <1>2, <1>3, <1>4, <1>5

(* The lengths add up to no more than the extent, and to no less than any. *)
LEMMA SpacedTotal ==
  ASSUME NEW q \in Seq(Lexeme), Spaced(q), q # <<>>
  PROVE  /\ Total(q) <= End(q[Len(q)]) - q[1].begin
         /\ \A k \in DOMAIN q : q[k].length <= Total(q)
<1> DEFINE n == Len(q)
<1>1. n \in Nat \ {0} /\ DOMAIN q = 1..n /\ \A k \in 1..n : q[k] \in Lexeme /\ q[1].begin <= q[k].begin
  BY SpacedEnds
<1>2. PICK f : f[0] = 0 /\ AddsUp(f, q, 0) /\ f[n] = Total(q)
  BY TotalSteps
<1>3. \A i \in 1..n : f[i] = f[i - 1] + q[i].length
  BY <1>2 DEF AddsUp
<1> HIDE DEF n
<1> DEFINE G == {m \in 0..n : /\ f[m] \in Nat
                              /\ m > 0 => f[m] <= End(q[m]) - q[1].begin
                              /\ \A k \in 1..m : q[k].length <= f[m]}
<1>4. 0 \in G
  BY <1>1, <1>2
<1>5. ASSUME NEW m \in 0..(n - 1), m \in G PROVE m + 1 \in G
  <2>1. m + 1 \in 1..n /\ (m + 1) - 1 = m /\ m + 1 \in 0..n /\ 1 \in 1..n
    BY <1>1
  <2>2. f[m + 1] = f[m] + q[m + 1].length
    BY <1>3, <2>1
  <2>3. /\ q[m + 1].length \in Nat /\ q[m + 1].begin \in Nat /\ End(q[m + 1]) = q[m + 1].begin + q[m + 1].length
        /\ q[1].begin \in Nat /\ q[1].begin <= q[m + 1].begin
    BY <1>1, <2>1, OrderFacts
  <2>4. f[m] \in Nat /\ f[m + 1] \in Nat
    BY <1>5, <2>2, <2>3
  <2>5. f[m + 1] <= End(q[m + 1]) - q[1].begin
    <3>1. CASE m = 0
      BY <1>2, <2>2, <2>3, <3>1
    <3>2. CASE m > 0
      <4>1. m \in 1..n /\ m < m + 1
        BY <1>1, <3>2
      <4>2. f[m] <= End(q[m]) - q[1].begin /\ End(q[m]) \in Nat
        BY <1>1, <1>5, <3>2, <4>1, OrderFacts
      <4>3. End(q[m]) <= q[m + 1].begin
        BY <1>1, <2>1, <4>1 DEF Spaced
      <4> QED
        BY <2>2, <2>3, <2>4, <4>2, <4>3
    <3> QED
      BY <3>1, <3>2
  <2>6. ASSUME NEW k \in 1..(m + 1) PROVE q[k].length <= f[m + 1]
    <3>1. CASE k = m + 1
      BY <2>2, <2>3, <2>4, <3>1
    <3>2. CASE k # m + 1
      <4>1. k \in 1..m /\ k \in 1..n
        BY <1>1, <3>2
      <4>2. q[k].length <= f[m] /\ q[k].length \in Nat
        BY <1>1, <1>5, <4>1, OrderFacts
      <4> QED
        BY <2>2, <2>3, <2>4, <4>2
    <3> QED
      BY <3>1, <3>2
  <2> QED
    BY <2>1, <2>4, <2>5, <2>6
<1> HIDE DEF G
<1>6. n \in G
  BY <1>1, <1>4, <1>5, UpTo
<1> QED
  BY <1>1, <1>2, <1>6 DEF G, n

(* A path of one lexeme is a segmentation.                                 *)
LEMMA PathOfFacts ==
  ASSUME NEW l \in Lexeme
  PROVE  /\ PathOf(l) \in Path /\ IsSegmentation(PathOf(l)) /\ ToSet(PathOf(l).lexemes) = {l}
         /\ PathOf(l).lexemes = <<l>> /\ PathOf(l).payloadLength = l.length
         /\ PathOf(l).pathBegin = l.begin /\ PathOf(l).pathEnd = End(l)
<1>1. l.length \in Nat /\ l.begin \in Nat /\ End(l) \in Nat
  BY OrderFacts
<1>2. PathOf(l) \in Path /\ PathOf(l).lexemes = <<l>>
  BY <1>1 DEF Path, PathOf
<1>3. Total(<<l>>) = l.length
  <2>1. Append(<<>>, l) = <<l>> /\ <<>> \in Seq(Lexeme)
    OBVIOUS
  <2>2. Total(Append(<<>>, l)) = Total(<<>>) + l.length /\ Total(<<>>) = 0
    BY <2>1, TotalFacts
  <2> QED
    BY <1>1, <2>1, <2>2
<1>4. Spaced(<<l>>) /\ ToSet(<<l>>) = {l} /\ Head(<<l>>) = l /\ Last(<<l>>) = l /\ (<<l>> # <<>>)
  BY DEF Spaced, ToSet, Last
<1> QED
  BY <1>1, <1>2, <1>3, <1>4, SegmentationIs DEF PathOf

(* A lexeme behind the last one extends a segmentation at its end.         *)
LEMMA AppendSpaced ==
  ASSUME NEW q \in Seq(Lexeme), Spaced(q), q # <<>>, NEW l \in Lexeme, End(q[Len(q)]) <= l.begin
  PROVE  LET r == AddLexeme(q, l)
         IN  /\ r \in Seq(Lexeme) /\ Spaced(r) /\ (r # <<>>)
             /\ ToSet(r) = ToSet(q) \cup {l} /\ Total(r) = Total(q) + l.length
             /\ Head(r) = q[1] /\ Last(r) = l
<1>1. Len(q) \in Nat \ {0} /\ q[Len(q)] \in Lexeme
      /\ \A k \in DOMAIN q : q[k] \in Lexeme /\ End(q[k]) <= End(q[Len(q)])
  BY SpacedEnds
<1>2. \A k \in DOMAIN q : End(q[k]) <= l.begin
  BY <1>1, OrderFacts
<1>3. \A k \in DOMAIN q : Before(q[k], l)
  BY <1>1, <1>2, OrderFacts DEF Before
<1> DEFINE r == Append(q, l)
<1>4. AddLexeme(q, l) = r
  BY <1>3, AddLast
<1>5. /\ r \in Seq(Lexeme) /\ Len(r) = Len(q) + 1 /\ DOMAIN r = 1..(Len(q) + 1)
      /\ (\A i \in 1..Len(q) : r[i] = q[i]) /\ r[Len(q) + 1] = l /\ DOMAIN q = 1..Len(q)
  BY <1>1
<1>6. Total(r) = Total(q) + l.length
  BY TotalFacts
<1> HIDE DEF r
<1>7. Spaced(r)
  <2> SUFFICES ASSUME NEW i \in 1..(Len(q) + 1), NEW j \in 1..(Len(q) + 1), i < j
               PROVE  End(r[i]) <= r[j].begin
    BY <1>5 DEF Spaced
  <2>1. i \in 1..Len(q) /\ r[i] = q[i]
    BY <1>1, <1>5
  <2>2. CASE j = Len(q) + 1
    BY <1>2, <1>5, <2>1, <2>2
  <2>3. CASE j # Len(q) + 1
    <3>1. j \in 1..Len(q) /\ r[j] = q[j]
      BY <1>1, <1>5, <2>3
    <3> QED
      BY <1>5, <2>1, <3>1 DEF Spaced
  <2> QED
    BY <2>2, <2>3
<1>8. ToSet(r) = ToSet(q) \cup {l}
  <2>1. \A i \in 1..(Len(q) + 1) : i \in 1..Len(q) \/ i = Len(q) + 1
    BY <1>1
  <2>2. \A i \in 1..Len(q) : i \in 1..(Len(q) + 1)
    BY <1>1
  <2>3. Len(q) + 1 \in 1..(Len(q) + 1)
    BY <1>1
  <2> QED
    BY <1>5, <2>1, <2>2, <2>3 DEF ToSet
<1>9. r # <<>> /\ Head(r) = r[1] /\ Last(r) = r[Len(r)]
  <2>1. Len(r) # 0
    BY <1>1, <1>5
  <2> QED
    BY <1>5, <2>1 DEF Last
<1>10. 1 \in 1..Len(q)
  BY <1>1
<1>11. Head(r) = q[1] /\ Last(r) = l
  BY <1>5, <1>9, <1>10
<1> QED
  BY <1>4, <1>5, <1>6, <1>7, <1>8, <1>9, <1>11

(* A lexeme before the first one extends a segmentation at its head.       *)
LEMMA PrependSpaced ==
  ASSUME NEW q \in Seq(Lexeme), Spaced(q), q # <<>>, NEW l \in Lexeme, End(l) <= q[1].begin
  PROVE  LET r == AddLexeme(q, l)
         IN  /\ r \in Seq(Lexeme) /\ Spaced(r) /\ (r # <<>>)
             /\ ToSet(r) = ToSet(q) \cup {l} /\ Total(r) = Total(q) + l.length
             /\ Head(r) = l /\ Last(r) = q[Len(q)]
<1>1. Len(q) \in Nat \ {0} /\ q[1] \in Lexeme
      /\ \A k \in DOMAIN q : q[k] \in Lexeme /\ q[1].begin <= q[k].begin
  BY SpacedEnds
<1>2. \A k \in DOMAIN q : End(l) <= q[k].begin
  BY <1>1, OrderFacts
<1>3. \A k \in DOMAIN q : Before(l, q[k])
  BY <1>1, <1>2, OrderFacts DEF Before
<1> DEFINE r == <<l>> \o q
<1>4. AddLexeme(q, l) = r
  BY <1>3, AddFirst
<1>5. /\ r \in Seq(Lexeme) /\ Len(r) = Len(q) + 1 /\ DOMAIN r = 1..(Len(q) + 1)
      /\ (\A i \in 1..Len(q) : r[i + 1] = q[i]) /\ r[1] = l /\ DOMAIN q = 1..Len(q)
  BY <1>1
<1>6. Total(r) = Total(q) + l.length
  <2>1. Total(r) = l.length + Total(q) /\ Total(q) \in Nat /\ l.length \in Nat
    BY TotalFacts, OrderFacts
  <2> HIDE DEF r
  <2> QED
    BY <2>1
<1> HIDE DEF r
<1>12. \A i \in 1..(Len(q) + 1) : i = 1 \/ (i - 1 \in 1..Len(q) /\ r[i] = q[i - 1])
  <2> SUFFICES ASSUME NEW i \in 1..(Len(q) + 1), i # 1 PROVE i - 1 \in 1..Len(q) /\ r[i] = q[i - 1]
    OBVIOUS
  <2>1. i - 1 \in 1..Len(q) /\ (i - 1) + 1 = i
    BY <1>1
  <2> QED
    BY <1>5, <2>1
<1>7. Spaced(r)
  <2> SUFFICES ASSUME NEW i \in 1..(Len(q) + 1), NEW j \in 1..(Len(q) + 1), i < j
               PROVE  End(r[i]) <= r[j].begin
    BY <1>5 DEF Spaced
  <2>1. j - 1 \in 1..Len(q) /\ r[j] = q[j - 1]
    BY <1>1, <1>12
  <2>2. CASE i = 1
    BY <1>2, <1>5, <2>1, <2>2
  <2>3. CASE i # 1
    <3>1. i - 1 \in 1..Len(q) /\ r[i] = q[i - 1] /\ i - 1 < j - 1
      BY <1>12, <2>3
    <3> QED
      BY <1>5, <2>1, <3>1 DEF Spaced
  <2> QED
    BY <2>2, <2>3
<1>8. ToSet(r) = ToSet(q) \cup {l}
  <2>1. \A i \in 1..Len(q) : i + 1 \in 1..(Len(q) + 1)
    BY <1>1
  <2>2. 1 \in 1..(Len(q) + 1)
    BY <1>1
  <2>3. ASSUME NEW i \in 1..(Len(q) + 1) PROVE r[i] \in ToSet(q) \cup {l}
    BY <1>5, <1>12 DEF ToSet
  <2>4. ASSUME NEW i \in 1..Len(q) PROVE q[i] \in ToSet(r)
    <3>1. i + 1 \in DOMAIN r /\ r[i + 1] = q[i]
      BY <1>5, <2>1
    <3> QED
      BY <3>1 DEF ToSet
  <2>5. l \in ToSet(r)
    BY <1>5, <2>2 DEF ToSet
  <2> QED
    BY <1>5, <2>3, <2>4, <2>5 DEF ToSet
<1>9. r # <<>> /\ Head(r) = r[1] /\ Last(r) = r[Len(r)]
  <2>1. Len(r) # 0
    BY <1>1, <1>5
  <2> QED
    BY <1>5, <2>1 DEF Last
<1>10. Len(q) \in 1..Len(q)
  BY <1>1
<1>11. Head(r) = l /\ Last(r) = q[Len(q)]
  BY <1>5, <1>9, <1>10
<1> QED
  BY <1>4, <1>5, <1>6, <1>7, <1>8, <1>9, <1>11

(* A lexeme that fits goes to one end of a segmentation.                   *)
LEMMA AddFits ==
  ASSUME NEW p \in Path, IsSegmentation(p), NEW l \in Lexeme, MayAddNotCross(p, l)
  PROVE  LET r == AddNotCrossLexeme(p, l)
         IN  /\ r \in Path /\ IsSegmentation(r)
             /\ ToSet(r.lexemes) = ToSet(p.lexemes) \cup {l}
             /\ r.lexemes # <<>>
<1>1. CASE p.lexemes = <<>>
  <2>1. AddNotCrossLexeme(p, l) = PathOf(l) /\ ToSet(p.lexemes) = {}
    BY <1>1 DEF AddNotCrossLexeme, IsEmpty, ToSet
  <2>2. <<l>> # <<>>
    OBVIOUS
  <2> QED
    BY <2>1, <2>2, PathOfFacts
<1>2. CASE p.lexemes # <<>>
  <2> DEFINE q == p.lexemes
             s == AddLexeme(q, l)
             r == [lexemes |-> s, pathBegin |-> Head(s).begin, pathEnd |-> End(Last(s)),
                   payloadLength |-> p.payloadLength + l.length]
  <2>1. AddNotCrossLexeme(p, l) = r
    BY <1>2 DEF AddNotCrossLexeme, IsEmpty
  <2>2. q \in Seq(Lexeme) /\ Spaced(q) /\ p.payloadLength = Total(q)
        /\ p.pathBegin = Head(q).begin /\ p.pathEnd = End(Last(q))
    BY <1>2, SegmentationIs DEF Path
  <2>3. ~CheckCross(p, l)
    BY <1>2 DEF MayAddNotCross, IsEmpty
  <2> HIDE DEF q, s
  <2>4. q # <<>>
    BY <1>2 DEF q
  <2>5. /\ Len(q) \in Nat \ {0} /\ q[1] \in Lexeme /\ q[Len(q)] \in Lexeme
        /\ p.pathBegin = q[1].begin /\ p.pathEnd = End(q[Len(q)]) /\ q[1].begin <= q[Len(q)].begin
        /\ Head(q) = q[1] /\ Last(q) = q[Len(q)]
    <3>1. Len(q) \in DOMAIN q
      BY <2>2, <2>4, SpacedEnds
    <3> QED
      BY <2>2, <2>4, <3>1, SpacedEnds
  <2>6. /\ s \in Seq(Lexeme) /\ Spaced(s) /\ (s # <<>>)
        /\ ToSet(s) = ToSet(q) \cup {l} /\ Total(s) = Total(q) + l.length
    <3>1. End(q[Len(q)]) <= l.begin \/ End(l) <= q[1].begin
      BY <2>3, <2>5, OrderFacts DEF CheckCross
    <3>2. CASE End(q[Len(q)]) <= l.begin
      BY <2>2, <2>4, <3>2, AppendSpaced DEF s
    <3>3. CASE End(l) <= q[1].begin
      BY <2>2, <2>4, <3>3, PrependSpaced DEF s
    <3> QED
      BY <3>1, <3>2, <3>3
  <2>7. Head(s).begin \in Int /\ End(Last(s)) \in Int
    BY <2>6, SpacedEnds, OrderFacts
  <2>8. Total(s) \in Int /\ r.payloadLength = Total(s)
    BY <2>2, <2>6, TotalFacts
  <2>9. r \in Path
    BY <2>6, <2>7, <2>8 DEF Path
  <2>10. IsSegmentation(r)
    BY <2>6, <2>8, SegmentationIs
  <2> QED
    BY <2>1, <2>6, <2>9, <2>10 DEF q
<1> QED
  BY <1>1, <1>2

(* Taking a segmentation back.                                             *)
Segmentations == {p \in Path : IsSegmentation(p)}

(* m ends the path p, and what removeTail leaves begins no later.          *)
IsTail(m, p) == /\ p.pathEnd = End(m) /\ p.pathBegin <= m.begin
                /\ \A x \in ToSet(RemoveTail(p).lexemes) : x.begin <= m.begin

(* removeTail takes one lexeme away, the last one, and leaves a            *)
(* segmentation whose fields agree with what is left                       *)
(* (lexeme_path.go:67-80).                                                 *)
LEMMA RemoveTailFacts ==
  ASSUME NEW p \in Segmentations
  PROVE  /\ RemoveTail(p) \in Segmentations
         /\ ToSet(RemoveTail(p).lexemes) \subseteq ToSet(p.lexemes)
         /\ Len(p.lexemes) > 0 => Len(RemoveTail(p).lexemes) = Len(p.lexemes) - 1
         /\ \A m \in ToSet(p.lexemes) : m \in ToSet(RemoveTail(p).lexemes) \/ IsTail(m, p)
<1> DEFINE q == p.lexemes
           n == Len(q)
<1>1. p \in Path /\ q \in Seq(Lexeme) /\ Spaced(q) /\ n \in Nat /\ DOMAIN q = 1..n
  BY SegmentationIs DEF Segmentations, Path
<1>2. CASE n <= 1
  <2>1. RemoveTail(p) = newLexemePath /\ newLexemePath.lexemes = <<>>
    BY <1>2 DEF RemoveTail, newLexemePath
  <2>2. newLexemePath \in Segmentations /\ ToSet(<<>>) = {} /\ Len(<<>>) = 0
    BY SegmentationIs DEF Segmentations, ToSet
  <2>3. RemoveTail(p) \in Segmentations /\ RemoveTail(p).lexemes = <<>>
    BY <2>1, <2>2
  <2>4. n > 0 => n = 1
    <3> HIDE DEF n
    <3> QED
      BY <1>1, <1>2
  <2>5. ToSet(RemoveTail(p).lexemes) = {} /\ Len(RemoveTail(p).lexemes) = 0
    BY <2>2, <2>3
  <2>6. ASSUME NEW m \in ToSet(q) PROVE IsTail(m, p)
    <3>1. PICK i \in 1..n : q[i] = m
      BY <1>1, <2>6 DEF ToSet
    <3> HIDE DEF q
    <3>2. n = 1 /\ (q # <<>>)
      <4>1. Len(<<>>) = 0
        OBVIOUS
      <4> QED
        BY <1>1, <1>2, <3>1, <4>1
    <3>3. i = 1 /\ i = n
      <4>1. \A k \in 1..1 : k = 1
        OBVIOUS
      <4> HIDE DEF n
      <4> QED
        BY <3>1, <3>2, <4>1
    <3>4. q[1] = m /\ q[n] = m /\ Head(q) = q[1] /\ Last(q) = q[n]
      BY <1>1, <3>1, <3>2, <3>3 DEF Last
    <3>5. p.pathBegin = Head(q).begin /\ p.pathEnd = End(Last(q))
      BY <3>2, SegmentationIs DEF Segmentations, q
    <3>6. m \in Lexeme /\ m.begin \in Nat
      BY <1>1, <3>1, OrderFacts
    <3> QED
      BY <2>5, <3>4, <3>5, <3>6 DEF IsTail
  <2> QED
    BY <2>3, <2>4, <2>5, <2>6
<1>3. CASE n > 1
  <2> DEFINE s == Front(q)
             r == [lexemes |-> s, pathBegin |-> p.pathBegin, pathEnd |-> End(Last(s)),
                   payloadLength |-> p.payloadLength - Last(q).length]
  <2>1. RemoveTail(p) = r
    BY <1>3, <1>1 DEF RemoveTail
  <2>2. /\ p.pathBegin = Head(q).begin /\ p.payloadLength = Total(q) /\ (q # <<>>)
        /\ Last(q) = q[n] /\ Head(q) = q[1] /\ q[n] \in Lexeme
    <3>1. q # <<>>
      BY <1>1, <1>3
    <3> HIDE DEF q
    <3>2. Head(q) = q[1]
      BY <1>1, <3>1
    <3>3. n \in 1..n
      BY <1>1, <1>3
    <3> QED
      BY <1>1, <3>1, <3>2, <3>3, SegmentationIs DEF Segmentations, q, Last
  <2> HIDE DEF q
  <2>3. s \in Seq(Lexeme) /\ Len(s) = n - 1 /\ (s # <<>>) /\ \A i \in 1..(n - 1) : s[i] = q[i]
    <3>1. \A i \in 1..(n - 1) : q[i] \in Lexeme
      BY <1>1
    <3>2. n - 1 \in Nat /\ n - 1 >= 1 /\ (n - 1) - 1 + 1 = n - 1
      BY <1>1, <1>3
    <3>3. s = SubSeq(q, 1, n - 1)
      BY DEF Front
    <3> HIDE DEF s, n
    <3>4. s \in Seq(Lexeme) /\ Len(s) = n - 1 /\ \A i \in 1..(n - 1) : s[i] = q[i]
      BY <3>1, <3>2, <3>3, SubSeqProperties
    <3>5. Len(s) # 0 /\ Len(<<>>) = 0
      BY <3>2, <3>4
    <3> QED
      BY <3>4, <3>5
  <2>4. Append(s, q[n]) = q
    <3> DEFINE t == Append(s, q[n])
    <3>1. /\ t \in Seq(Lexeme) /\ Len(t) = (n - 1) + 1 /\ t[(n - 1) + 1] = q[n]
          /\ \A i \in 1..(n - 1) : t[i] = s[i]
      BY <2>2, <2>3
    <3>2. n - 1 + 1 = n /\ \A i \in 1..n : i \in 1..(n - 1) \/ i = n
      <4> HIDE DEF n
      <4> QED
        BY <1>1
    <3> HIDE DEF s, t
    <3>3. \A i \in 1..n : t[i] = q[i]
      BY <2>3, <3>1, <3>2
    <3>4. t = q
      BY <1>1, <3>1, <3>2, <3>3, SeqEqual
    <3> QED
      BY <3>4 DEF t
  <2> HIDE DEF s
  <2>5. Total(q) = Total(s) + q[n].length /\ Total(s) \in Nat /\ q[n].length \in Nat
    BY <2>2, <2>3, <2>4, TotalFacts, OrderFacts
  <2>6. 1 \in 1..(n - 1) /\ Head(s) = q[1]
    <3>1. Head(s) = s[1] /\ 1 \in 1..(n - 1)
      BY <1>1, <1>3, <2>3
    <3> QED
      BY <2>3, <3>1
  <2>7. Spaced(s)
    BY <1>1, <2>3 DEF Spaced
  <2>8. End(Last(s)) \in Int /\ q[1].begin \in Int
    BY <1>1, <2>2, <2>3, <2>7, SpacedEnds, OrderFacts
  <2>9. r.payloadLength = Total(s) /\ Total(s) \in Int
    BY <2>2, <2>5
  <2>10. r \in Path
    BY <2>2, <2>3, <2>8, <2>9 DEF Path
  <2>11. IsSegmentation(r)
    BY <2>2, <2>3, <2>6, <2>7, <2>9, SegmentationIs
  <2>12. ToSet(s) \subseteq ToSet(q)
    <3>1. \A i \in 1..(n - 1) : i \in 1..n
      BY <1>1
    <3> QED
      BY <1>1, <2>3, <3>1 DEF ToSet
  <2>13. ASSUME NEW m \in ToSet(q) PROVE m \in ToSet(s) \/ IsTail(m, p)
    <3>1. PICK i \in 1..n : q[i] = m
      BY <1>1 DEF ToSet
    <3>2. CASE i \in 1..(n - 1)
      <4>1. DOMAIN s = 1..(n - 1) /\ s[i] = m
        BY <2>3, <3>1, <3>2
      <4> QED
        BY <3>2, <4>1 DEF ToSet
    <3>3. CASE i \notin 1..(n - 1)
      <4>1. i = n
        <5> HIDE DEF n
        <5> QED
          BY <1>1, <3>3
      <4>2. 1 \in DOMAIN q /\ n \in DOMAIN q /\ 1 < n
        BY <1>1, <1>3
      <4>3. q[1] \in Lexeme /\ m \in Lexeme /\ End(q[1]) <= m.begin
        BY <1>1, <3>1, <4>1, <4>2 DEF Spaced
      <4>4. p.pathEnd = End(m)
        BY <2>2, <3>1, <4>1, SegmentationIs DEF Segmentations, q
      <4>5. p.pathBegin <= m.begin
        BY <2>2, <4>3, OrderFacts
      <4>6. ASSUME NEW x \in ToSet(s) PROVE x.begin <= m.begin
        <5>1. PICK k \in 1..(n - 1) : s[k] = x
          BY <2>3 DEF ToSet
        <5>2. k \in DOMAIN q /\ k < n /\ q[k] = x
          BY <1>1, <2>3, <5>1
        <5>3. x \in Lexeme /\ End(x) <= m.begin
          BY <1>1, <3>1, <4>1, <4>2, <5>2 DEF Spaced
        <5> QED
          BY <4>3, <5>3, OrderFacts
      <4>7. RemoveTail(p).lexemes = s
        BY <2>1
      <4> QED
        BY <4>4, <4>5, <4>6, <4>7 DEF IsTail
    <3> QED
      BY <3>2, <3>3
  <2> QED
    BY <2>1, <2>3, <2>10, <2>11, <2>12, <2>13 DEF Segmentations, q
<1> QED
  BY <1>1, <1>2, <1>3

(* What an iteration goes through.                                         *)
IsIteration(f, n, base, step) ==
    f[0] = base /\ \A i \in 1..n : f[i] = step[<<f[i - 1], i>>]

(* The values of a fold over 1..m for each m, as a sequence.               *)
LEMMA IterationExists ==
  ASSUME NEW n \in Nat, NEW V, NEW base \in V, NEW step \in [V \X (1..n) -> V]
  PROVE  \E f \in [0..n -> V] : IsIteration(f, n, base, step)
<1>1. PICK g \in [SUBSET (1..n) -> V] : IsFold(g, n, base, step)
  BY FoldExists
<1> DEFINE f == [i \in 0..n |-> g[1..i]]
<1>2. \A i \in 0..n : 1..i \in SUBSET (1..n)
  OBVIOUS
<1>3. f \in [0..n -> V]
  BY <1>2
<1>4. f[0] = base
  <2>1. 1..0 = {} /\ f[0] = g[1..0] /\ 1..0 \in SUBSET (1..n)
    OBVIOUS
  <2> HIDE DEF f
  <2> QED
    BY <1>1, <2>1 DEF IsFold
<1>5. ASSUME NEW i \in 1..n PROVE f[i] = step[<<f[i - 1], i>>]
  <2>1. Max(1..i) = i /\ (1..i) \ {i} = 1..(i - 1) /\ 1..i # {}
    BY PrefixMax
  <2>2. 1..i \in SUBSET (1..n) /\ i \in 0..n /\ i - 1 \in 0..n
    OBVIOUS
  <2>3. f[i] = g[1..i] /\ f[i - 1] = g[1..(i - 1)]
    BY <2>2
  <2> HIDE DEF f
  <2> QED
    BY <1>1, <2>1, <2>2, <2>3 DEF IsFold
<1> HIDE DEF f
<1>6. IsIteration(f, n, base, step)
  BY <1>4, <1>5 DEF IsIteration
<1> QED
  BY <1>3, <1>6

(* backPath takes lexemes off the end until the one wanted fits            *)
(* (ik_arbitrator.go:160-165): what is taken off ends behind its begin, so *)
(* no lexeme goes that lies before it, and what is left begins earlier.    *)
LEMMA BackPathFacts ==
  ASSUME NEW l \in Lexeme, NEW option \in Segmentations
  PROVE  /\ BackPath(l, option) \in Segmentations
         /\ ToSet(BackPath(l, option).lexemes) \subseteq ToSet(option.lexemes)
         /\ ~CheckCross(BackPath(l, option), l)
         /\ \A m \in ToSet(option.lexemes) :
               \/ m \in ToSet(BackPath(l, option).lexemes)
               \/ /\ l.begin < End(m)
                  /\ \A x \in ToSet(BackPath(l, option).lexemes) : x.begin <= m.begin
<1> DEFINE n == Len(option.lexemes)
           Eq(w) == w = [i \in 0..n |-> IF i = 0 THEN option ELSE RemoveTail(w[i - 1])]
           without == CHOOSE w : Eq(w)
           fits == {i \in DOMAIN without : ~CheckCross(without[i], l)}
<1>1. BackPath(l, option) = without[Min(fits)]
  BY DEF BackPath
<1>2. n \in Nat
  BY DEF Segmentations, Path
<1>3. \E w : Eq(w)
  <2> DEFINE step == [x \in Segmentations \X (1..n) |-> RemoveTail(x[1])]
  <2>1. step \in [Segmentations \X (1..n) -> Segmentations]
    BY RemoveTailFacts
  <2> HIDE DEF step, n, Eq
  <2>2. PICK f \in [0..n -> Segmentations] : IsIteration(f, n, option, step)
    BY <1>2, <2>1, IterationExists
  <2>3. ASSUME NEW i \in 0..n PROVE f[i] = IF i = 0 THEN option ELSE RemoveTail(f[i - 1])
    <3>1. CASE i = 0
      BY <2>2, <3>1 DEF IsIteration
    <3>2. CASE i # 0
      <4>1. i \in 1..n /\ i - 1 \in 0..n
        BY <1>2, <3>2
      <4>2. f[i] = step[<<f[i - 1], i>>] /\ f[i - 1] \in Segmentations
        BY <2>2, <4>1 DEF IsIteration
      <4> QED
        BY <3>2, <4>1, <4>2 DEF step
    <3> QED
      BY <3>1, <3>2
  <2>4. f = [i \in 0..n |-> IF i = 0 THEN option ELSE RemoveTail(f[i - 1])]
    BY <2>2, <2>3
  <2> QED
    BY <2>4 DEF Eq
<1> HIDE DEF without, Eq
<1>4. Eq(without)
  BY <1>3 DEF without
<1>5. DOMAIN without = 0..n /\ without[0] = option /\ \A i \in 1..n : without[i] = RemoveTail(without[i - 1])
  <2> HIDE DEF n
  <2>1. DOMAIN without = 0..n /\ \A i \in 0..n : without[i] = IF i = 0 THEN option ELSE RemoveTail(without[i - 1])
    BY <1>4 DEF Eq
  <2> QED
    BY <1>2, <2>1
<1> DEFINE Ok(i) == /\ without[i] \in Segmentations
                    /\ ToSet(without[i].lexemes) \subseteq ToSet(option.lexemes)
                    /\ Len(without[i].lexemes) = n - i
           Gone(m, i) == /\ \A x \in ToSet(without[i].lexemes) : x.begin <= m.begin
                         /\ \E j \in 0..(i - 1) : CheckCross(without[j], l) => l.begin < End(m)
           Kept(i) == \A m \in ToSet(option.lexemes) :
                         m \in ToSet(without[i].lexemes) \/ Gone(m, i)
           G == {i \in 0..n : Ok(i)}
<1>6. 0 \in G
  <2>1. Ok(0)
    BY <1>2, <1>5
  <2> HIDE DEF Ok, n
  <2> QED
    BY <1>2, <2>1
<1>7. ASSUME NEW m \in 0..(n - 1), m \in G PROVE m + 1 \in G
  <2> HIDE DEF n
  <2>1. m + 1 \in 1..n /\ (m + 1) - 1 = m /\ m \in 0..n /\ n - m > 0 /\ (n - m) - 1 = n - (m + 1)
    BY <1>2
  <2>2. without[m + 1] = RemoveTail(without[m])
    BY <1>5, <2>1
  <2>3. Ok(m)
    BY <1>7
  <2>4. Ok(m + 1)
    BY <2>1, <2>2, <2>3, RemoveTailFacts
  <2> HIDE DEF Ok
  <2> QED
    BY <2>1, <2>4
<1> HIDE DEF G, n
<1>8. \A i \in 0..n : i \in G
  BY <1>2, <1>6, <1>7, UpTo
<1>9. \A i \in 0..n : Ok(i)
  BY <1>8 DEF G
<1> HIDE DEF Ok
<1> DEFINE H == {i \in 0..n : Kept(i)}
<1>16. 0 \in H
  <2>1. Kept(0)
    BY <1>5
  <2> HIDE DEF Kept
  <2> QED
    BY <1>2, <2>1
<1>17. ASSUME NEW k \in 0..(n - 1), k \in H PROVE k + 1 \in H
  <2>1. /\ k + 1 \in 1..n /\ (k + 1) - 1 = k /\ k \in 0..n /\ k + 1 \in 0..n /\ k \in 0..((k + 1) - 1)
        /\ \A j \in 0..(k - 1) : j \in 0..((k + 1) - 1)
    BY <1>2
  <2>2. without[k + 1] = RemoveTail(without[k])
    BY <1>5, <2>1
  <2>3. without[k] \in Segmentations
    BY <1>9, <2>1 DEF Ok
  <2>4. Kept(k)
    BY <1>17
  <2>5. /\ ToSet(without[k + 1].lexemes) \subseteq ToSet(without[k].lexemes)
        /\ \A m \in ToSet(without[k].lexemes) :
              m \in ToSet(without[k + 1].lexemes) \/ IsTail(m, without[k])
    BY <2>2, <2>3, RemoveTailFacts
  <2>6. ASSUME NEW m \in ToSet(option.lexemes)
        PROVE  m \in ToSet(without[k + 1].lexemes) \/ Gone(m, k + 1)
    <3>1. CASE Gone(m, k)
      <4>1. \A x \in ToSet(without[k + 1].lexemes) : x.begin <= m.begin
        BY <2>5, <3>1
      <4>2. \E j \in 0..((k + 1) - 1) : CheckCross(without[j], l) => l.begin < End(m)
        BY <2>1, <3>1
      <4> QED
        BY <4>1, <4>2
    <3>2. CASE m \in ToSet(without[k].lexemes) /\ IsTail(m, without[k])
      <4>1. /\ without[k].pathEnd = End(m) /\ without[k].pathBegin <= m.begin
            /\ \A x \in ToSet(without[k + 1].lexemes) : x.begin <= m.begin
        BY <2>2, <3>2 DEF IsTail
      <4>2. m \in Lexeme /\ without[k].pathBegin \in Int
        BY <2>3, <3>2 DEF Segmentations, Path, ToSet
      <4>3. CheckCross(without[k], l) => l.begin < End(m)
        BY <4>1, <4>2, OrderFacts DEF CheckCross
      <4>4. \E j \in 0..((k + 1) - 1) : CheckCross(without[j], l) => l.begin < End(m)
        BY <2>1, <4>3
      <4> QED
        BY <4>1, <4>4
    <3> HIDE DEF Gone
    <3> QED
      BY <2>4, <2>5, <3>1, <3>2
  <2>7. Kept(k + 1)
    <3> HIDE DEF Gone
    <3> QED
      BY <2>6
  <2> HIDE DEF Kept
  <2> QED
    BY <2>1, <2>7
<1> HIDE DEF H
<1>18. \A i \in 0..n : i \in H
  BY <1>2, <1>16, <1>17, UpTo
<1>19. \A i \in 0..n : Kept(i)
  BY <1>18 DEF H
<1> HIDE DEF Kept
<1>10. n \in fits
  <2>1. n \in 0..n /\ Ok(n) /\ n - n = 0
    BY <1>2, <1>9
  <2>2. without[n] \in Segmentations /\ Len(without[n].lexemes) = 0
    BY <2>1 DEF Ok
  <2>3. without[n].lexemes = <<>>
    BY <2>2 DEF Segmentations, Path
  <2>4. without[n] = newLexemePath
    BY <2>2, <2>3, SegmentationIs DEF Segmentations
  <2>5. ~CheckCross(newLexemePath, l)
    BY OrderFacts DEF CheckCross, newLexemePath
  <2> QED
    BY <1>5, <2>1, <2>4, <2>5
<1>11. fits \subseteq Nat /\ fits # {}
  BY <1>5, <1>10
<1> HIDE DEF fits
<1>12. \E x \in fits : \A y \in fits : x <= y
  BY <1>11, LeastNumber
<1>13. Min(fits) \in fits /\ \A y \in fits : Min(fits) <= y
  BY <1>12 DEF Min
<1>14. Min(fits) \in 0..n /\ ~CheckCross(without[Min(fits)], l)
  BY <1>5, <1>13 DEF fits
<1>15. Ok(Min(fits))
  BY <1>9, <1>14
<1>20. \A m \in ToSet(option.lexemes) :
          m \in ToSet(without[Min(fits)].lexemes) \/ Gone(m, Min(fits))
  BY <1>14, <1>19 DEF Kept
<1>21. ASSUME NEW m, Gone(m, Min(fits)) PROVE l.begin < End(m)
  <2>1. PICK j \in 0..(Min(fits) - 1) : CheckCross(without[j], l) => l.begin < End(m)
    BY <1>21
  <2>2. j \in 0..n /\ ~(Min(fits) <= j)
    BY <1>2, <1>14
  <2>3. j \notin fits
    BY <1>13, <2>2
  <2>4. CheckCross(without[j], l)
    BY <1>5, <2>2, <2>3 DEF fits
  <2> QED
    BY <2>1, <2>4
<1> QED
  BY <1>1, <1>14, <1>15, <1>20, <1>21 DEF Ok

-----------------------------------------------------------------------------
(* One way through the candidates.                                         *)
Walks(chain) == [option: Segmentations, conflicts: Seq(DOMAIN chain)]

(* f goes through the walk of ForwardPath, and w is where it ends.         *)
IsForward(f, w, chain, k, option) ==
    /\ f[0] = [option |-> option, conflicts |-> <<>>]
    /\ \A i \in 1..Len(chain) :
          /\ i < k => f[i] = f[i - 1]
          /\ (~(i < k) /\ MayAddNotCross(f[i - 1].option, chain[i])) =>
                f[i] = [option |-> AddNotCrossLexeme(f[i - 1].option, chain[i]),
                        conflicts |-> f[i - 1].conflicts]
          /\ (~(i < k) /\ ~MayAddNotCross(f[i - 1].option, chain[i])) =>
                f[i] = [option |-> f[i - 1].option,
                        conflicts |-> Append(f[i - 1].conflicts, i)]
    /\ w = f[Len(chain)]

(* ForwardPath is the last of a sequence of values, one for each lexeme of *)
(* the chain.                                                              *)
LEMMA ForwardSteps ==
  ASSUME NEW chain \in Seq(Lexeme), NEW k \in Nat, NEW option \in Segmentations
  PROVE  \E f \in [0..Len(chain) -> Walks(chain)] :
            IsForward(f, ForwardPath(chain, k, option), chain, k, option)
<1> DEFINE n == Len(chain)
           visit(walk, i) ==
             IF i < k THEN walk
             ELSE IF MayAddNotCross(walk.option, chain[i])
             THEN [walk EXCEPT !.option = AddNotCrossLexeme(@, chain[i])]
             ELSE [walk EXCEPT !.conflicts = Append(@, i)]
           none == [option |-> option, conflicts |-> <<>>]
           ids == [i \in DOMAIN chain |-> i]
           Eq(g) == g = [s \in SUBSET DOMAIN ids |->
                           IF s = {} THEN none ELSE visit(g[s \ {Max(s)}], ids[Max(s)])]
           fold == CHOOSE g : Eq(g)
           V == Walks(chain)
           step == [x \in V \X (1..n) |-> visit(x[1], x[2])]
<1>1. ForwardPath(chain, k, option) = fold[DOMAIN ids]
  BY DEF ForwardPath, FoldLeftDomain, FoldLeft, MapThenFoldSet
<1>2. n \in Nat /\ DOMAIN chain = 1..n /\ DOMAIN ids = 1..n /\ \A i \in 1..n : ids[i] = i /\ chain[i] \in Lexeme
  OBVIOUS
<1>3. none \in V
  BY DEF Walks
<1>4. ASSUME NEW w \in V, NEW i \in 1..n
      PROVE  /\ visit(w, i) \in V
             /\ visit(w, i) = IF i < k THEN w
                              ELSE IF MayAddNotCross(w.option, chain[i])
                              THEN [option |-> AddNotCrossLexeme(w.option, chain[i]),
                                    conflicts |-> w.conflicts]
                              ELSE [option |-> w.option,
                                    conflicts |-> Append(w.conflicts, i)]
  <2>1. /\ w = [option |-> w.option, conflicts |-> w.conflicts]
        /\ w.option \in Segmentations /\ w.conflicts \in Seq(1..n)
    BY <1>2 DEF Walks
  <2>2. MayAddNotCross(w.option, chain[i]) => AddNotCrossLexeme(w.option, chain[i]) \in Segmentations
    BY <1>2, <2>1, AddFits DEF Segmentations
  <2>3. Append(w.conflicts, i) \in Seq(1..n)
    BY <2>1
  <2>4. ASSUME NEW a
        PROVE  /\ [w EXCEPT !.option = a] = [option |-> a, conflicts |-> w.conflicts]
               /\ [w EXCEPT !.conflicts = a] = [option |-> w.option, conflicts |-> a]
    BY <2>1
  <2> HIDE DEF n
  <2> QED
    BY <1>2, <2>1, <2>2, <2>3, <2>4 DEF Walks
<1>5. step \in [V \X (1..n) -> V]
  <2> HIDE DEF V, visit, n
  <2> QED
    BY <1>4
<1>6. \A w \in V, i \in 1..n : step[<<w, i>>] = visit(w, i)
  <2> HIDE DEF V, visit, n
  <2> QED
    OBVIOUS
<1> HIDE DEF visit, none, V, step, n
<1>7. \E h : Eq(h)
  <2> HIDE DEF Eq, fold, ids
  <2>1. PICK h \in [SUBSET (1..n) -> V] : IsFold(h, n, none, step)
    BY <1>2, <1>3, <1>5, FoldExists
  <2>2. ASSUME NEW s \in SUBSET (1..n), s # {} PROVE Max(s) \in 1..n
    BY <1>2, <2>2, SubsetMax
  <2>3. ASSUME NEW s \in SUBSET (1..n)
        PROVE  h[s] = IF s = {} THEN none ELSE visit(h[s \ {Max(s)}], ids[Max(s)])
    <3>1. CASE s = {}
      BY <2>1, <3>1 DEF IsFold
    <3>2. CASE s # {}
      <4>1. Max(s) \in 1..n /\ s \ {Max(s)} \in SUBSET (1..n)
        BY <2>2, <3>2
      <4>2. h[s \ {Max(s)}] \in V /\ ids[Max(s)] = Max(s)
        BY <1>2, <2>1, <4>1
      <4>3. h[s] = step[<<h[s \ {Max(s)}], Max(s)>>]
        BY <2>1, <3>2 DEF IsFold
      <4> QED
        BY <1>6, <3>2, <4>1, <4>2, <4>3
    <3> QED
      BY <3>1, <3>2
  <2>4. h = [s \in SUBSET (1..n) |-> IF s = {} THEN none ELSE visit(h[s \ {Max(s)}], ids[Max(s)])]
    BY <2>1, <2>3
  <2> QED
    BY <1>2, <2>4 DEF Eq
<1> HIDE DEF fold, Eq, ids
<1>8. Eq(fold)
  BY <1>7 DEF fold
<1>9. \A s \in SUBSET (1..n) : fold[s] = IF s = {} THEN none ELSE visit(fold[s \ {Max(s)}], ids[Max(s)])
  BY <1>2, <1>8 DEF Eq
<1> DEFINE f == [i \in 0..n |-> fold[1..i]]
<1>10. f[0] = none /\ f[n] = ForwardPath(chain, k, option)
  <2>1. 1..0 = {} /\ 1..0 \in SUBSET (1..n)
    OBVIOUS
  <2>2. f[0] = fold[1..0] /\ f[n] = fold[1..n]
    BY <1>2
  <2> HIDE DEF f
  <2> QED
    BY <1>1, <1>2, <1>9, <2>1, <2>2
<1>11. ASSUME NEW i \in 1..n PROVE f[i] = visit(f[i - 1], i)
  <2>1. Max(1..i) = i /\ (1..i) \ {i} = 1..(i - 1) /\ 1..i # {}
    <3>1. i \in Nat \ {0}
      BY <1>2
    <3> QED
      BY <3>1, PrefixMax
  <2>2. 1..i \in SUBSET (1..n) /\ i \in 0..n /\ i - 1 \in 0..n
    BY <1>2
  <2>3. f[i] = fold[1..i] /\ f[i - 1] = fold[1..(i - 1)]
    BY <2>2
  <2> HIDE DEF f
  <2>4. fold[1..i] = visit(fold[(1..i) \ {Max(1..i)}], ids[Max(1..i)])
    BY <1>9, <2>1, <2>2
  <2> QED
    BY <1>2, <2>1, <2>3, <2>4
<1>12. DOMAIN f = 0..n /\ f = [i \in 0..n |-> f[i]]
  OBVIOUS
<1> HIDE DEF f
<1> DEFINE G == {i \in 0..n : f[i] \in V}
<1>13. 0 \in G
  BY <1>2, <1>3, <1>10
<1>14. ASSUME NEW m \in 0..(n - 1), m \in G PROVE m + 1 \in G
  <2>1. m + 1 \in 1..n /\ (m + 1) - 1 = m /\ m + 1 \in 0..n
    BY <1>2
  <2>2. f[m + 1] = visit(f[m], m + 1)
    BY <1>11, <2>1
  <2>3. f[m] \in V
    BY <1>14
  <2> QED
    BY <1>4, <2>1, <2>2, <2>3
<1> HIDE DEF G
<1>15. \A i \in 0..n : i \in G
  BY <1>2, <1>13, <1>14, UpTo
<1>16. \A i \in 0..n : f[i] \in V
  BY <1>15 DEF G
<1>17. f \in [0..n -> V]
  BY <1>12, <1>16
<1>18. ASSUME NEW i \in 1..n
       PROVE  /\ i < k => f[i] = f[i - 1]
              /\ (~(i < k) /\ MayAddNotCross(f[i - 1].option, chain[i])) =>
                    f[i] = [option |-> AddNotCrossLexeme(f[i - 1].option, chain[i]),
                            conflicts |-> f[i - 1].conflicts]
              /\ (~(i < k) /\ ~MayAddNotCross(f[i - 1].option, chain[i])) =>
                    f[i] = [option |-> f[i - 1].option,
                            conflicts |-> Append(f[i - 1].conflicts, i)]
  <2>1. i - 1 \in 0..n
    BY <1>2
  <2>2. f[i - 1] \in V
    BY <1>16, <2>1
  <2> QED
    BY <1>4, <1>11, <2>2
<1>19. IsForward(f, ForwardPath(chain, k, option), chain, k, option)
  BY <1>10, <1>18 DEF IsForward, none, n
<1> QED
  BY <1>17, <1>19 DEF n, V

(* From the k-th candidate on, each is taken or remembered.                *)
LEMMA ForwardFacts ==
  ASSUME NEW chain \in Seq(Lexeme), NEW k \in Nat \ {0}, NEW option \in Segmentations
  PROVE  LET w == ForwardPath(chain, k, option)
         IN  /\ w \in Walks(chain)
             /\ ToSet(w.option.lexemes) \subseteq ToSet(option.lexemes) \cup ToSet(chain)
             /\ \A j \in DOMAIN chain :
                   j >= k => chain[j] \in ToSet(w.option.lexemes) \/ j \in ToSet(w.conflicts)
             /\ (k \in DOMAIN chain /\ MayAddNotCross(option, chain[k]))
                   => chain[k] \in ToSet(w.option.lexemes)
<1> DEFINE n == Len(chain)
           w == ForwardPath(chain, k, option)
<1>1. PICK f \in [0..n -> Walks(chain)] : IsForward(f, w, chain, k, option)
  BY ForwardSteps
<1>2. n \in Nat /\ DOMAIN chain = 1..n /\ \A i \in 1..n : chain[i] \in Lexeme
  OBVIOUS
<1>3. /\ f[0] = [option |-> option, conflicts |-> <<>>] /\ w = f[n]
      /\ \A i \in 1..n :
            /\ i < k => f[i] = f[i - 1]
            /\ (~(i < k) /\ MayAddNotCross(f[i - 1].option, chain[i])) =>
                  f[i] = [option |-> AddNotCrossLexeme(f[i - 1].option, chain[i]),
                          conflicts |-> f[i - 1].conflicts]
            /\ (~(i < k) /\ ~MayAddNotCross(f[i - 1].option, chain[i])) =>
                  f[i] = [option |-> f[i - 1].option,
                          conflicts |-> Append(f[i - 1].conflicts, i)]
  BY <1>1 DEF IsForward
<1>4. \A i \in 0..n : /\ f[i].option \in Segmentations /\ f[i].conflicts \in Seq(1..n)
  BY <1>1, <1>2 DEF Walks
<1> HIDE DEF n, w
<1> DEFINE Taken(i) == ToSet(f[i].option.lexemes)
           Left(i) == ToSet(f[i].conflicts)
(* What a turn of the loop does to the two.                                *)
<1>5. ASSUME NEW i \in 1..n
      PROVE  /\ Taken(i - 1) \subseteq Taken(i) /\ Left(i - 1) \subseteq Left(i)
             /\ Taken(i) \subseteq Taken(i - 1) \cup {chain[i]}
             /\ i >= k => chain[i] \in Taken(i) \/ i \in Left(i)
             /\ (i >= k /\ MayAddNotCross(f[i - 1].option, chain[i])) => chain[i] \in Taken(i)
             /\ i < k => f[i] = f[i - 1]
  <2>1. i - 1 \in 0..n /\ i \in 0..n /\ i \in Int /\ k \in Int /\ chain[i] \in Lexeme
    BY <1>2
  <2>2. CASE i < k
    <3>1. f[i] = f[i - 1]
      BY <1>3, <2>2
    <3>2. ~(i >= k)
      BY <2>1, <2>2
    <3> QED
      BY <2>2, <3>1, <3>2
  <2>3. CASE ~(i < k) /\ MayAddNotCross(f[i - 1].option, chain[i])
    <3>1. /\ f[i].option = AddNotCrossLexeme(f[i - 1].option, chain[i])
          /\ f[i].conflicts = f[i - 1].conflicts
      <4>1. f[i] = [option |-> AddNotCrossLexeme(f[i - 1].option, chain[i]),
                    conflicts |-> f[i - 1].conflicts]
        BY <1>3, <2>3
      <4> QED
        BY <4>1
    <3>2. Taken(i) = Taken(i - 1) \cup {chain[i]}
      BY <1>4, <2>1, <2>3, <3>1, AddFits DEF Segmentations
    <3>3. Left(i - 1) \subseteq Left(i)
      BY <3>1
    <3> HIDE DEF Taken, Left
    <3> QED
      BY <2>3, <3>2, <3>3
  <2>4. CASE ~(i < k) /\ ~MayAddNotCross(f[i - 1].option, chain[i])
    <3>1. /\ f[i].option = f[i - 1].option
          /\ f[i].conflicts = Append(f[i - 1].conflicts, i)
      <4>1. f[i] = [option |-> f[i - 1].option, conflicts |-> Append(f[i - 1].conflicts, i)]
        BY <1>3, <2>4
      <4> QED
        BY <4>1
    <3>2. /\ Left(i - 1) \subseteq Left(i) /\ i \in Left(i)
      <4> DEFINE c == f[i - 1].conflicts
      <4>1. c \in Seq(1..n)
        BY <1>4, <2>1
      <4> HIDE DEF c
      <4>2. /\ Len(Append(c, i)) = Len(c) + 1 /\ Append(c, i)[Len(c) + 1] = i
            /\ \A j \in 1..Len(c) : Append(c, i)[j] = c[j]
            /\ DOMAIN Append(c, i) = 1..(Len(c) + 1) /\ DOMAIN c = 1..Len(c) /\ Len(c) \in Nat
        BY <4>1
      <4>3. Len(c) + 1 \in 1..(Len(c) + 1) /\ \A j \in 1..Len(c) : j \in 1..(Len(c) + 1)
        BY <4>2
      <4>4. ToSet(c) \subseteq ToSet(Append(c, i)) /\ i \in ToSet(Append(c, i))
        BY <4>2, <4>3 DEF ToSet
      <4> QED
        BY <3>1, <4>4 DEF c
    <3> QED
      BY <2>4, <3>1, <3>2
  <2> QED
    BY <2>1, <2>2, <2>3, <2>4
<1>6. \A i \in 0..(k - 1) : i <= n => f[i] = f[0]
  <2> DEFINE G == {i \in 0..(k - 1) : i <= n => f[i] = f[0]}
  <2>1. 0 \in G
    OBVIOUS
  <2>2. ASSUME NEW m \in 0..((k - 1) - 1), m \in G PROVE m + 1 \in G
    <3>1. m + 1 \in 0..(k - 1) /\ m + 1 < k /\ (m + 1) - 1 = m
      OBVIOUS
    <3>2. ASSUME m + 1 <= n PROVE f[m + 1] = f[0]
      <4>1. m + 1 \in 1..n /\ m <= n
        BY <1>2, <3>2
      <4>2. f[m + 1] = f[(m + 1) - 1]
        BY <1>5, <3>1, <4>1
      <4> QED
        BY <2>2, <3>1, <4>1, <4>2
    <3> QED
      BY <3>1, <3>2
  <2>3. k - 1 \in Nat
    OBVIOUS
  <2> HIDE DEF G
  <2>4. \A i \in 0..(k - 1) : i \in G
    BY <2>1, <2>2, <2>3, UpTo
  <2> QED
    BY <2>4 DEF G
<1> DEFINE Seen(i) ==
             /\ Taken(i) \subseteq ToSet(option.lexemes) \cup ToSet(chain)
             /\ \A j \in 1..i : j >= k => chain[j] \in Taken(i) \/ j \in Left(i)
             /\ (k <= i /\ MayAddNotCross(option, chain[k])) => chain[k] \in Taken(i)
           G == {i \in 0..n : Seen(i)}
<1>7. 0 \in G
  <2>1. Taken(0) = ToSet(option.lexemes)
    BY <1>3
  <2>2. Seen(0)
    BY <2>1
  <2> HIDE DEF Seen
  <2> QED
    BY <1>2, <2>2
<1>8. ASSUME NEW m \in 0..(n - 1), m \in G PROVE m + 1 \in G
  <2>1. m + 1 \in 1..n /\ (m + 1) - 1 = m /\ m + 1 \in 0..n /\ m \in Nat
    BY <1>2
  <2>2. Seen(m)
    BY <1>8
  <2>3. /\ Taken(m) \subseteq Taken(m + 1) /\ Left(m) \subseteq Left(m + 1)
        /\ Taken(m + 1) \subseteq Taken(m) \cup {chain[m + 1]}
        /\ m + 1 >= k => chain[m + 1] \in Taken(m + 1) \/ m + 1 \in Left(m + 1)
        /\ (m + 1 >= k /\ MayAddNotCross(f[m].option, chain[m + 1])) => chain[m + 1] \in Taken(m + 1)
    <3> HIDE DEF Taken, Left
    <3> QED
      BY <1>5, <2>1
  <2>4. chain[m + 1] \in ToSet(chain)
    BY <1>2, <2>1 DEF ToSet
  <2> HIDE DEF Taken, Left
  <2>5. Taken(m + 1) \subseteq ToSet(option.lexemes) \cup ToSet(chain)
    BY <2>2, <2>3, <2>4
  <2>6. ASSUME NEW j \in 1..(m + 1), j >= k PROVE chain[j] \in Taken(m + 1) \/ j \in Left(m + 1)
    <3>1. CASE j = m + 1
      BY <2>3, <2>6, <3>1
    <3>2. CASE j # m + 1
      <4>1. j \in 1..m
        BY <2>1, <3>2
      <4> QED
        BY <2>2, <2>3, <2>6, <4>1
    <3> QED
      BY <3>1, <3>2
  <2>7. ASSUME k <= m + 1, MayAddNotCross(option, chain[k]) PROVE chain[k] \in Taken(m + 1)
    <3>1. CASE k = m + 1
      <4>1. m \in 0..(k - 1) /\ m <= n
        BY <1>2, <2>1, <3>1
      <4>2. f[m].option = option
        BY <1>3, <1>6, <4>1
      <4> QED
        BY <2>3, <2>7, <3>1, <4>2
    <3>2. CASE k # m + 1
      <4>1. k <= m
        BY <2>1, <2>7, <3>2
      <4> QED
        BY <2>2, <2>3, <2>7, <4>1
    <3> QED
      BY <3>1, <3>2
  <2>8. Seen(m + 1)
    BY <2>5, <2>6, <2>7
  <2> HIDE DEF Seen
  <2> QED
    BY <2>1, <2>8
<1> HIDE DEF G
<1>9. n \in G
  <2>1. \A i \in 0..n : i \in G
    BY <1>2, <1>7, <1>8, UpTo
  <2> QED
    BY <1>2, <2>1
<1>10. Seen(n)
  BY <1>9 DEF G
<1>11. w \in Walks(chain)
  <2>1. n \in 0..n
    BY <1>2
  <2> QED
    BY <1>1, <1>3, <2>1
<1>12. /\ ToSet(w.option.lexemes) \subseteq ToSet(option.lexemes) \cup ToSet(chain)
       /\ \A j \in 1..n : j >= k => chain[j] \in ToSet(w.option.lexemes) \/ j \in ToSet(w.conflicts)
       /\ (k <= n /\ MayAddNotCross(option, chain[k])) => chain[k] \in ToSet(w.option.lexemes)
  BY <1>3, <1>10
<1>13. k \in DOMAIN chain => k <= n
  BY <1>2
<1> QED
  BY <1>2, <1>11, <1>12, <1>13 DEF w

-----------------------------------------------------------------------------
(* The choice among the ways through the candidates.                       *)
LEMMA BetterFacts ==
  ASSUME NEW p \in Path, NEW q \in Path
  PROVE  /\ Better(p, q) => p.payloadLength >= q.payloadLength
         /\ ~Better(p, q) => q.payloadLength >= p.payloadLength
         /\ (Better(p, q) /\ p.payloadLength = q.payloadLength) => Len(p.lexemes) <= Len(q.lexemes)
<1>1. /\ p.payloadLength \in Int /\ q.payloadLength \in Int
      /\ Len(p.lexemes) \in Nat /\ Len(q.lexemes) \in Nat
  BY DEF Path
<1> DEFINE a == Rank(p)
           b == Rank(q)
<1>2. /\ DOMAIN a = 1..6
      /\ a[1] = p.payloadLength /\ b[1] = q.payloadLength
      /\ a[2] = -Len(p.lexemes) /\ b[2] = -Len(q.lexemes)
  BY DEF Rank
<1>3. Better(p, q) <=> \E i \in 1..6 : a[i] > b[i] /\ \A j \in 1..(i - 1) : a[j] = b[j]
  BY <1>2 DEF Better
<1> HIDE DEF a, b
<1>4. ASSUME Better(p, q)
      PROVE  \/ a[1] > b[1]
             \/ a[1] = b[1] /\ a[2] > b[2]
             \/ a[1] = b[1] /\ a[2] = b[2]
  <2>1. PICK i \in 1..6 : a[i] > b[i] /\ \A j \in 1..(i - 1) : a[j] = b[j]
    BY <1>3, <1>4
  <2>2. i = 1 \/ i = 2 \/ (1 \in 1..(i - 1) /\ 2 \in 1..(i - 1))
    OBVIOUS
  <2>3. i = 2 => 1 \in 1..(i - 1)
    OBVIOUS
  <2> QED
    BY <2>1, <2>2, <2>3
<1>5. ASSUME a[1] > b[1] PROVE Better(p, q)
  <2>1. 1 \in 1..6 /\ 1..(1 - 1) = {}
    OBVIOUS
  <2> QED
    BY <1>3, <1>5, <2>1
<1> QED
  BY <1>1, <1>2, <1>4, <1>5

Ways(chain) == {p \in Segmentations : ToSet(p.lexemes) \subseteq ToSet(chain)}

Outcomes(chain) == [option: Ways(chain), best: Ways(chain)]

(* One alternative: the best so far is kept or beaten, and from now on it  *)
(* carries at least what the skipped lexeme carries                        *)
(* (ik_arbitrator.go:135-143).                                             *)
LEMMA TurnFacts ==
  ASSUME NEW chain \in Seq(Lexeme), NEW state \in Outcomes(chain), NEW k \in DOMAIN chain
  PROVE  /\ Turn(chain, state, k) \in Outcomes(chain)
         /\ chain[k].length <= Turn(chain, state, k).best.payloadLength
         /\ state.best.payloadLength <= Turn(chain, state, k).best.payloadLength
         /\ \/ Turn(chain, state, k).best = state.best
            \/ Better(Turn(chain, state, k).best, state.best)
<1> DEFINE back == BackPath(chain[k], state.option)
           option == ForwardPath(chain, k, back).option
           best == IF Better(option, state.best) THEN option ELSE state.best
<1>1. Turn(chain, state, k) = [option |-> option, best |-> best]
  BY DEF Turn
<1>2. k \in Nat \ {0} /\ chain[k] \in Lexeme
  OBVIOUS
<1>3. /\ state.option \in Segmentations /\ ToSet(state.option.lexemes) \subseteq ToSet(chain)
      /\ state.best \in Ways(chain)
  BY DEF Outcomes, Ways
<1>4. /\ back \in Segmentations /\ ToSet(back.lexemes) \subseteq ToSet(chain)
      /\ MayAddNotCross(back, chain[k])
  BY <1>2, <1>3, BackPathFacts DEF MayAddNotCross
<1> HIDE DEF back
<1>5. /\ option \in Segmentations /\ ToSet(option.lexemes) \subseteq ToSet(chain)
      /\ chain[k] \in ToSet(option.lexemes)
  BY <1>2, <1>4, ForwardFacts DEF Walks
<1> HIDE DEF option
<1>6. chain[k].length <= option.payloadLength
  <2> DEFINE q == option.lexemes
  <2>1. PICK i \in DOMAIN q : q[i] = chain[k]
    BY <1>5 DEF ToSet
  <2>2. q \in Seq(Lexeme) /\ Spaced(q) /\ (q # <<>>) /\ option.payloadLength = Total(q)
    BY <1>5, <2>1, SegmentationIs DEF Segmentations, Path
  <2> HIDE DEF q
  <2>3. q[i].length <= Total(q)
    BY <2>1, <2>2, SpacedTotal
  <2> QED
    BY <2>1, <2>2, <2>3
<1>7. option \in Ways(chain) /\ option \in Path /\ state.best \in Path
  BY <1>3, <1>5 DEF Ways, Segmentations
<1>8. /\ option.payloadLength \in Int /\ state.best.payloadLength \in Int
      /\ chain[k].length \in Int
  BY <1>2, <1>7, OrderFacts DEF Path
<1>9. CASE Better(option, state.best)
  <2>1. best = option /\ option.payloadLength >= state.best.payloadLength
    BY <1>7, <1>9, BetterFacts
  <2> QED
    BY <1>1, <1>6, <1>7, <1>8, <1>9, <2>1 DEF Outcomes
<1>10. CASE ~Better(option, state.best)
  <2>1. best = state.best /\ state.best.payloadLength >= option.payloadLength
    BY <1>7, <1>10, BetterFacts
  <2> QED
    BY <1>1, <1>3, <1>6, <1>7, <1>8, <2>1 DEF Outcomes
<1> QED
  BY <1>9, <1>10

(* A lexeme that covers all the others is the only one of a segmentation.  *)
LEMMA AloneInItsSpan ==
  ASSUME NEW p \in Segmentations, NEW l \in ToSet(p.lexemes),
         \A m \in ToSet(p.lexemes) : l.begin <= m.begin /\ End(m) <= End(l)
  PROVE  p.lexemes = <<l>>
<1> DEFINE q == p.lexemes
<1>1. q \in Seq(Lexeme) /\ Spaced(q) /\ DOMAIN q = 1..Len(q) /\ Len(q) \in Nat
  BY SegmentationIs DEF Segmentations, Path
<1>2. PICK k \in DOMAIN q : q[k] = l
  BY DEF ToSet
<1>3. \A j \in DOMAIN q : l.begin <= q[j].begin /\ End(q[j]) <= End(l)
  BY DEF ToSet
<1> HIDE DEF q
<1>4. ASSUME NEW j \in DOMAIN q, j # k PROVE FALSE
  <2>1. q[j] \in Lexeme /\ l \in Lexeme /\ j \in 1..Len(q) /\ k \in 1..Len(q)
    BY <1>1, <1>2
  <2>2. j < k \/ k < j
    BY <1>1, <1>4, <2>1
  <2>3. End(q[j]) <= l.begin \/ End(l) <= q[j].begin
    BY <1>1, <1>2, <2>2 DEF Spaced
  <2> QED
    BY <1>3, <2>1, <2>3, OrderFacts
<1>5. Len(q) = 1 /\ k = 1
  <2>1. 1 \in DOMAIN q /\ Len(q) \in DOMAIN q
    BY <1>1, <1>2
  <2> QED
    BY <1>4, <2>1
<1>6. <<l>> \in Seq(Lexeme) /\ Len(<<l>>) = 1 /\ <<l>>[1] = l
  BY <1>1, <1>2
<1>7. \A i \in 1..Len(q) : q[i] = <<l>>[i]
  BY <1>2, <1>5, <1>6
<1>8. q = <<l>>
  BY <1>1, <1>5, <1>6, <1>7, SeqEqual
<1> QED
  BY <1>8 DEF q

(* And nothing that fits in its span is better.                            *)
LEMMA NothingBeatsTheCover ==
  ASSUME NEW chain \in Seq(Lexeme), NEW l \in ToSet(chain),
         \A m \in ToSet(chain) : /\ l.begin <= m.begin /\ End(m) <= End(l)
                                 /\ SameSpan(m, l) => m = l,
         NEW p \in Ways(chain), p.lexemes = <<l>>,
         NEW r \in Ways(chain), Better(r, p)
  PROVE  r.lexemes = <<l>>
<1> DEFINE q == r.lexemes
<1>1. /\ r \in Segmentations /\ p \in Segmentations /\ r \in Path /\ p \in Path
      /\ \A i \in DOMAIN q : q[i] \in ToSet(chain)
      /\ l \in Lexeme
  <2>1. r \in Segmentations /\ p \in Segmentations /\ ToSet(q) \subseteq ToSet(chain)
    BY DEF Ways
  <2>2. \A i \in DOMAIN q : q[i] \in ToSet(chain)
    BY <2>1 DEF ToSet
  <2>3. l \in Lexeme
    BY DEF ToSet
  <2> QED
    BY <2>1, <2>2, <2>3 DEF Segmentations
<1>2. Len(<<l>>) = 1 /\ Head(<<l>>) = l /\ (<<l>> # <<>>) /\ Total(<<l>>) = l.length
  BY <1>1, PathOfFacts, SegmentationIs
<1>3. p.payloadLength = l.length /\ l.length > 0
  <2>1. p.lexemes # <<>> /\ IsSegmentation(p)
    BY <1>1, <1>2 DEF Segmentations
  <2>2. p.payloadLength = Total(p.lexemes)
    BY <2>1, SegmentationIs
  <2> QED
    BY <1>1, <1>2, <2>2, OrderFacts
<1>4. r.payloadLength >= l.length /\ r.payloadLength \in Int /\ l.length \in Nat
  BY <1>1, <1>3, BetterFacts, OrderFacts DEF Path
<1>5. q \in Seq(Lexeme) /\ Spaced(q) /\ (q # <<>>) /\ r.payloadLength = Total(q)
  <2>1. newLexemePath.payloadLength = 0
    BY DEF newLexemePath
  <2>2. r # newLexemePath
    BY <1>3, <1>4, <2>1
  <2> QED
    BY <1>1, <2>2, SegmentationIs DEF Segmentations, Path
<1> HIDE DEF q
<1>6. /\ Len(q) \in Nat \ {0} /\ q[1] \in Lexeme /\ q[Len(q)] \in Lexeme
      /\ 1 \in DOMAIN q /\ Len(q) \in DOMAIN q
  BY <1>5, SpacedEnds
<1>7. l.begin <= q[1].begin /\ End(q[Len(q)]) <= End(l)
  BY <1>1, <1>6
<1>8. Total(q) = l.length
  BY <1>1, <1>4, <1>5, <1>6, <1>7, SpacedTotal, OrderFacts
<1>9. Len(q) <= 1
  <2>1. Len(r.lexemes) <= Len(p.lexemes)
    BY <1>1, <1>3, <1>5, <1>8, BetterFacts
  <2> QED
    BY <1>2, <2>1 DEF q
<1>10. Len(q) = 1
  <2>1. PICK n \in Nat \ {0} : n = Len(q)
    BY <1>6
  <2>2. n <= 1
    BY <1>9, <2>1
  <2> QED
    BY <2>1, <2>2
<1>11. q[1].length = l.length
  <2> DEFINE m == q[1]
  <2>1. <<m>> \in Seq(Lexeme) /\ Len(<<m>>) = 1 /\ <<m>>[1] = m
    BY <1>6
  <2>2. q = <<m>>
    <3>1. \A i \in 1..Len(q) : q[i] = <<m>>[i]
      BY <1>10, <2>1
    <3> HIDE DEF m
    <3> QED
      BY <1>5, <1>10, <2>1, <3>1, SeqEqual
  <2>3. Total(<<m>>) = m.length
    BY <1>6, PathOfFacts, SegmentationIs
  <2> QED
    BY <1>8, <2>2, <2>3
<1>12. SameSpan(q[1], l)
  BY <1>1, <1>6, <1>7, <1>10, <1>11, OrderFacts DEF SameSpan
<1>13. q[1] = l
  BY <1>1, <1>6, <1>12
<1>14. l \in ToSet(q) /\ ToSet(q) \subseteq ToSet(chain)
  BY <1>1, <1>6, <1>13 DEF ToSet
<1> QED
  BY <1>1, <1>14, AloneInItsSpan DEF q

(* f goes through the loop of judge over the places c.                     *)
IsJudging(f, chain, first, c) ==
    /\ f[0] = [option |-> first, best |-> first]
    /\ \A i \in 1..Len(c) : f[i] = Turn(chain, f[i - 1], c[i])

(* Judge is the last of a sequence of choices, one for each lexeme that    *)
(* the first pass skipped.                                                 *)
LEMMA JudgeSteps ==
  ASSUME NEW cross, cross.lexemes \in Seq(Lexeme), IsEmpty(cross) \/ ~ShouldFallback(cross)
  PROVE  LET chain == cross.lexemes
             first == ForwardPath(chain, 1, newLexemePath)
             c == Reverse(first.conflicts)
         IN  \E f \in [0..Len(c) -> Outcomes(chain)] :
                /\ IsJudging(f, chain, first.option, c)
                /\ Judge(cross) = f[Len(c)].best
<1> DEFINE chain == cross.lexemes
           first == ForwardPath(chain, 1, newLexemePath)
           c == Reverse(first.conflicts)
           n == Len(c)
           none == [option |-> first.option, best |-> first.option]
           Eq(g) == g = [s \in SUBSET DOMAIN c |->
                           IF s = {} THEN none ELSE Turn(chain, g[s \ {Max(s)}], c[Max(s)])]
           fold == CHOOSE g : Eq(g)
           V == Outcomes(chain)
           step == [x \in V \X (1..n) |-> Turn(chain, x[1], c[x[2]])]
<1>1. Judge(cross) = fold[DOMAIN c].best
  BY DEF Judge, FoldLeft, MapThenFoldSet
<1>2. first \in Walks(chain) /\ ToSet(first.option.lexemes) \subseteq ToSet(chain)
  <2>1. newLexemePath \in Segmentations /\ ToSet(newLexemePath.lexemes) = {}
    <3>1. ToSet(<<>>) = {}
      BY DEF ToSet
    <3> QED
      BY <3>1, SegmentationIs DEF Segmentations, newLexemePath
  <2>2. PICK one \in Nat \ {0} : one = 1
    OBVIOUS
  <2>3. ForwardPath(chain, one, newLexemePath) \in Walks(chain)
        /\ ToSet(ForwardPath(chain, one, newLexemePath).option.lexemes)
              \subseteq ToSet(newLexemePath.lexemes) \cup ToSet(chain)
    BY <2>1, ForwardFacts
  <2> QED
    BY <2>1, <2>2, <2>3
<1>3. none \in V
  BY <1>2 DEF Walks, Outcomes, Ways
<1>4. c \in Seq(DOMAIN chain) /\ n \in Nat /\ DOMAIN c = 1..n /\ \A i \in 1..n : c[i] \in DOMAIN chain
  <2> DEFINE d == first.conflicts
  <2>1. d \in Seq(DOMAIN chain)
    BY <1>2 DEF Walks
  <2> HIDE DEF d
  <2>2. Len(d) \in Nat /\ \A i \in 1..Len(d) : Len(d) - i + 1 \in 1..Len(d) /\ d[Len(d) - i + 1] \in DOMAIN chain
    BY <2>1
  <2>3. [i \in 1..Len(d) |-> d[(Len(d) - i) + 1]] \in Seq(DOMAIN chain)
    BY <2>2
  <2>4. c \in Seq(DOMAIN chain)
    BY <2>3 DEF Reverse, d
  <2> HIDE DEF c
  <2> QED
    BY <2>4
<1> HIDE DEF first, c
<1>5. step \in [V \X (1..n) -> V]
  <2>1. \A w \in V, i \in 1..n : Turn(chain, w, c[i]) \in V
    BY <1>4, TurnFacts
  <2> HIDE DEF V, n
  <2> QED
    BY <2>1
<1>6. \A w \in V, i \in 1..n : step[<<w, i>>] = Turn(chain, w, c[i])
  <2> HIDE DEF V, n
  <2> QED
    OBVIOUS
<1> HIDE DEF chain, none, V, step, n
<1>7. \E h : Eq(h)
  <2> HIDE DEF Eq, fold
  <2>1. PICK h \in [SUBSET (1..n) -> V] : IsFold(h, n, none, step)
    BY <1>3, <1>4, <1>5, FoldExists
  <2>2. ASSUME NEW s \in SUBSET (1..n), s # {} PROVE Max(s) \in 1..n
    BY <1>4, <2>2, SubsetMax
  <2>3. ASSUME NEW s \in SUBSET (1..n)
        PROVE  h[s] = IF s = {} THEN none ELSE Turn(chain, h[s \ {Max(s)}], c[Max(s)])
    <3>1. CASE s = {}
      BY <2>1, <3>1 DEF IsFold
    <3>2. CASE s # {}
      <4>1. Max(s) \in 1..n /\ s \ {Max(s)} \in SUBSET (1..n)
        BY <2>2, <3>2
      <4>2. h[s \ {Max(s)}] \in V
        BY <2>1, <4>1
      <4>3. h[s] = step[<<h[s \ {Max(s)}], Max(s)>>]
        BY <2>1, <3>2 DEF IsFold
      <4> QED
        BY <1>6, <3>2, <4>1, <4>2, <4>3
    <3> QED
      BY <3>1, <3>2
  <2>4. h = [s \in SUBSET (1..n) |-> IF s = {} THEN none ELSE Turn(chain, h[s \ {Max(s)}], c[Max(s)])]
    BY <2>1, <2>3
  <2> QED
    BY <1>4, <2>4 DEF Eq
<1> HIDE DEF fold, Eq
<1>8. Eq(fold)
  BY <1>7 DEF fold
<1>9. \A s \in SUBSET (1..n) : fold[s] = IF s = {} THEN none ELSE Turn(chain, fold[s \ {Max(s)}], c[Max(s)])
  BY <1>4, <1>8 DEF Eq
<1> DEFINE f == [i \in 0..n |-> fold[1..i]]
<1>10. f[0] = none /\ f[n] = fold[1..n]
  <2>1. 1..0 = {} /\ 1..0 \in SUBSET (1..n)
    OBVIOUS
  <2>2. f[0] = fold[1..0] /\ f[n] = fold[1..n]
    BY <1>4
  <2> HIDE DEF f
  <2> QED
    BY <1>9, <2>1, <2>2
<1>11. ASSUME NEW i \in 1..n PROVE f[i] = Turn(chain, f[i - 1], c[i])
  <2>1. Max(1..i) = i /\ (1..i) \ {i} = 1..(i - 1) /\ 1..i # {}
    <3>1. i \in Nat \ {0}
      BY <1>4
    <3> QED
      BY <3>1, PrefixMax
  <2>2. 1..i \in SUBSET (1..n) /\ i \in 0..n /\ i - 1 \in 0..n
    BY <1>4
  <2>3. f[i] = fold[1..i] /\ f[i - 1] = fold[1..(i - 1)]
    BY <2>2
  <2> HIDE DEF f
  <2>4. fold[1..i] = Turn(chain, fold[(1..i) \ {Max(1..i)}], c[Max(1..i)])
    BY <1>9, <2>1, <2>2
  <2> QED
    BY <2>1, <2>3, <2>4
<1>12. DOMAIN f = 0..n /\ f = [i \in 0..n |-> f[i]]
  OBVIOUS
<1> HIDE DEF f
<1> DEFINE G == {i \in 0..n : f[i] \in V}
<1>13. 0 \in G
  BY <1>3, <1>4, <1>10
<1>14. ASSUME NEW m \in 0..(n - 1), m \in G PROVE m + 1 \in G
  <2>1. m + 1 \in 1..n /\ (m + 1) - 1 = m /\ m + 1 \in 0..n
    BY <1>4
  <2>2. f[m + 1] = Turn(chain, f[m], c[m + 1])
    BY <1>11, <2>1
  <2>3. f[m] \in V /\ c[m + 1] \in DOMAIN chain
    BY <1>4, <1>14, <2>1
  <2>4. chain \in Seq(Lexeme)
    BY DEF chain
  <2>5. f[m + 1] \in V
    BY <2>2, <2>3, <2>4, TurnFacts DEF V
  <2> QED
    BY <2>1, <2>5
<1> HIDE DEF G
<1>15. \A i \in 0..n : i \in G
  BY <1>4, <1>13, <1>14, UpTo
<1>16. \A i \in 0..n : f[i] \in V
  BY <1>15 DEF G
<1>17. f \in [0..n -> V]
  BY <1>12, <1>16
<1>18. IsJudging(f, chain, first.option, c)
  BY <1>10, <1>11 DEF IsJudging, none, n
<1>19. Judge(cross) = f[n].best
  BY <1>1, <1>4, <1>10
<1> QED
  BY <1>17, <1>18, <1>19 DEF n, V, chain, first, c

(* The first pass takes the first lexeme, and every lexeme is taken or     *)
(* skipped.                                                                *)
LEMMA FirstWay ==
  ASSUME NEW chain \in Seq(Lexeme)
  PROVE  LET first == ForwardPath(chain, 1, newLexemePath)
         IN  /\ first \in Walks(chain) /\ first.option \in Ways(chain)
             /\ \A j \in DOMAIN chain :
                   chain[j] \in ToSet(first.option.lexemes)
                   \/ \E i \in DOMAIN Reverse(first.conflicts) : Reverse(first.conflicts)[i] = j
             /\ chain # <<>> => chain[1] \in ToSet(first.option.lexemes)
<1> DEFINE first == ForwardPath(chain, 1, newLexemePath)
           d == first.conflicts
<1>1. /\ newLexemePath \in Segmentations /\ ToSet(newLexemePath.lexemes) = {}
      /\ \A l : MayAddNotCross(newLexemePath, l)
  <2>1. ToSet(<<>>) = {} /\ newLexemePath.lexemes = <<>>
    BY DEF ToSet, newLexemePath
  <2> QED
    BY <2>1, SegmentationIs DEF Segmentations, MayAddNotCross, IsEmpty
<1>2. /\ first \in Walks(chain) /\ ToSet(first.option.lexemes) \subseteq ToSet(chain)
      /\ \A j \in DOMAIN chain : chain[j] \in ToSet(first.option.lexemes) \/ j \in ToSet(d)
      /\ 1 \in DOMAIN chain => chain[1] \in ToSet(first.option.lexemes)
  <2>1. PICK one \in Nat \ {0} : one = 1
    OBVIOUS
  <2> DEFINE w == ForwardPath(chain, one, newLexemePath)
  <2>2. /\ w \in Walks(chain) /\ ToSet(w.option.lexemes) \subseteq ToSet(newLexemePath.lexemes) \cup ToSet(chain)
        /\ \A j \in DOMAIN chain : j >= one => chain[j] \in ToSet(w.option.lexemes) \/ j \in ToSet(w.conflicts)
        /\ (one \in DOMAIN chain /\ MayAddNotCross(newLexemePath, chain[one]))
              => chain[one] \in ToSet(w.option.lexemes)
    BY <1>1, ForwardFacts
  <2>3. \A j \in DOMAIN chain : j >= one
    BY <2>1
  <2>4. w = first
    BY <2>1
  <2> HIDE DEF w, first
  <2> QED
    BY <1>1, <2>1, <2>2, <2>3, <2>4
<1> HIDE DEF first
<1>3. d \in Seq(DOMAIN chain) /\ first.option \in Ways(chain)
  BY <1>2 DEF Walks, Ways
<1> HIDE DEF d
<1>4. ASSUME NEW j \in ToSet(d) PROVE \E i \in DOMAIN Reverse(d) : Reverse(d)[i] = j
  <2>1. PICK k \in 1..Len(d) : d[k] = j
    BY <1>3 DEF ToSet
  <2>2. Len(d) - k + 1 \in 1..Len(d) /\ (Len(d) - (Len(d) - k + 1)) + 1 = k
    BY <1>3
  <2>3. DOMAIN Reverse(d) = 1..Len(d) /\ \A i \in 1..Len(d) : Reverse(d)[i] = d[(Len(d) - i) + 1]
    BY DEF Reverse
  <2>4. Reverse(d)[Len(d) - k + 1] = j
    BY <2>1, <2>2, <2>3
  <2> QED
    BY <2>2, <2>3, <2>4
<1>5. chain # <<>> => 1 \in DOMAIN chain
  OBVIOUS
<1> QED
  BY <1>2, <1>3, <1>4, <1>5 DEF first, d

(* What judge returns is a segmentation of the chain that carries at least *)
(* what each lexeme of it carries, and is the first lexeme alone if that   *)
(* covers the chain.                                                       *)
LEMMA JudgeFacts ==
  ASSUME NEW cross, NEW chain \in Seq(Lexeme), cross.lexemes = chain,
         IsEmpty(cross) \/ ~ShouldFallback(cross)
  PROVE  /\ Judge(cross) \in Ways(chain)
         /\ \A j \in DOMAIN chain : chain[j].length <= Judge(cross).payloadLength
         /\ (/\ chain # <<>>
             /\ \A m \in ToSet(chain) : /\ chain[1].begin <= m.begin /\ End(m) <= End(chain[1])
                                        /\ SameSpan(m, chain[1]) => m = chain[1])
            => Judge(cross).lexemes = <<chain[1]>>
<1> DEFINE first == ForwardPath(chain, 1, newLexemePath)
           way == first.option
           c == Reverse(first.conflicts)
           n == Len(c)
<1>1. PICK f \in [0..n -> Outcomes(chain)] : /\ IsJudging(f, chain, way, c)
                                            /\ Judge(cross) = f[n].best
  BY JudgeSteps
<1>2. /\ first \in Walks(chain) /\ way \in Ways(chain)
      /\ \A j \in DOMAIN chain : chain[j] \in ToSet(way.lexemes) \/ \E i \in DOMAIN c : c[i] = j
      /\ chain # <<>> => chain[1] \in ToSet(way.lexemes)
  BY FirstWay
<1>3. n \in Nat /\ DOMAIN c = 1..n /\ \A i \in 1..n : c[i] \in DOMAIN chain
  <2> DEFINE d == first.conflicts
  <2>1. d \in Seq(DOMAIN chain)
    BY <1>2 DEF Walks
  <2> HIDE DEF d
  <2>2. Len(d) \in Nat /\ \A i \in 1..Len(d) : d[(Len(d) - i) + 1] \in DOMAIN chain
    BY <2>1
  <2>3. [i \in 1..Len(d) |-> d[(Len(d) - i) + 1]] \in Seq(DOMAIN chain)
    BY <2>2
  <2>4. c \in Seq(DOMAIN chain)
    BY <2>3 DEF Reverse, d
  <2> HIDE DEF c
  <2> QED
    BY <2>4
<1> HIDE DEF first, c
<1>4. /\ f[0].best = way
      /\ \A i \in 1..n : f[i] = Turn(chain, f[i - 1], c[i])
  BY <1>1 DEF IsJudging
<1>5. \A i \in 0..n : f[i] \in Outcomes(chain) /\ f[i].best \in Ways(chain)
  BY <1>1 DEF Outcomes
<1> HIDE DEF way, n
<1>6. ASSUME NEW p \in Ways(chain), NEW l \in ToSet(p.lexemes) PROVE l.length <= p.payloadLength
  <2> DEFINE q == p.lexemes
  <2>1. PICK i \in DOMAIN q : q[i] = l
    BY DEF ToSet
  <2>2. q \in Seq(Lexeme) /\ Spaced(q) /\ (q # <<>>) /\ p.payloadLength = Total(q)
    BY <2>1, SegmentationIs DEF Ways, Segmentations, Path
  <2> HIDE DEF q
  <2>3. q[i].length <= Total(q)
    BY <2>1, <2>2, SpacedTotal
  <2> QED
    BY <2>1, <2>2, <2>3
<1>7. \A p \in Ways(chain) : p.payloadLength \in Int
  BY DEF Ways, Segmentations, Path
<1>8. \A j \in DOMAIN chain : chain[j] \in Lexeme /\ chain[j].length \in Nat
  BY OrderFacts
(* What a turn of the loop does to the best.                               *)
<1>9. ASSUME NEW m \in 0..(n - 1)
      PROVE  /\ m + 1 \in 1..n /\ m \in 0..n /\ m + 1 \in 0..n /\ c[m + 1] \in DOMAIN chain
             /\ chain[c[m + 1]].length <= f[m + 1].best.payloadLength
             /\ f[m].best.payloadLength <= f[m + 1].best.payloadLength
             /\ f[m + 1].best = f[m].best \/ Better(f[m + 1].best, f[m].best)
  <2>1. m + 1 \in 1..n /\ m \in 0..n /\ m + 1 \in 0..n /\ (m + 1) - 1 = m
    BY <1>3
  <2>2. f[m + 1] = Turn(chain, f[m], c[m + 1]) /\ c[m + 1] \in DOMAIN chain /\ f[m] \in Outcomes(chain)
    BY <1>3, <1>4, <1>5, <2>1
  <2> QED
    BY <2>1, <2>2, TurnFacts
<1>10. \A m \in 0..n : /\ way.payloadLength <= f[m].best.payloadLength
                       /\ \A i \in 1..m : chain[c[i]].length <= f[m].best.payloadLength
  <2> DEFINE Had(m) == /\ way.payloadLength <= f[m].best.payloadLength
                       /\ \A i \in 1..m : chain[c[i]].length <= f[m].best.payloadLength
             G == {m \in 0..n : Had(m)}
  <2>1. 0 \in G
    BY <1>2, <1>3, <1>4, <1>7
  <2>2. ASSUME NEW m \in 0..(n - 1), m \in G PROVE m + 1 \in G
    <3>1. Had(m)
      BY <2>2
    <3>2. /\ f[m].best.payloadLength \in Int /\ f[m + 1].best.payloadLength \in Int
          /\ way.payloadLength \in Int /\ \A i \in 1..m : chain[c[i]].length \in Int
      <4>1. \A i \in 1..m : i \in 1..n
        BY <1>3
      <4> QED
        BY <1>2, <1>3, <1>5, <1>7, <1>8, <1>9, <4>1
    <3>3. way.payloadLength <= f[m + 1].best.payloadLength
      BY <1>9, <3>1, <3>2
    <3>4. ASSUME NEW i \in 1..(m + 1) PROVE chain[c[i]].length <= f[m + 1].best.payloadLength
      <4>1. CASE i = m + 1
        BY <1>9, <4>1
      <4>2. CASE i # m + 1
        <5>1. i \in 1..m
          BY <4>2
        <5> QED
          BY <1>9, <3>1, <3>2, <5>1
      <4> QED
        BY <4>1, <4>2
    <3>5. Had(m + 1) /\ m + 1 \in 0..n
      BY <1>9, <3>3, <3>4
    <3> HIDE DEF Had
    <3> QED
      BY <3>5
  <2> HIDE DEF G
  <2>3. \A m \in 0..n : m \in G
    BY <1>3, <2>1, <2>2, UpTo
  <2> QED
    BY <2>3 DEF G
<1>11. n \in 0..n /\ Judge(cross) \in Ways(chain) /\ Judge(cross).payloadLength \in Int
  BY <1>1, <1>3, <1>5, <1>7 DEF n
<1>12. ASSUME NEW j \in DOMAIN chain PROVE chain[j].length <= Judge(cross).payloadLength
  <2>1. CASE chain[j] \in ToSet(way.lexemes)
    <3>1. chain[j].length <= way.payloadLength /\ way.payloadLength <= Judge(cross).payloadLength
      BY <1>1, <1>2, <1>6, <1>10, <1>11, <2>1 DEF n
    <3> QED
      BY <1>2, <1>7, <1>8, <1>11, <3>1
  <2>2. CASE \E i \in DOMAIN c : c[i] = j
    BY <1>1, <1>3, <1>10, <1>11, <2>2 DEF n
  <2> QED
    BY <1>2, <2>1, <2>2
<1>13. ASSUME chain # <<>>,
              \A m \in ToSet(chain) : /\ chain[1].begin <= m.begin /\ End(m) <= End(chain[1])
                                      /\ SameSpan(m, chain[1]) => m = chain[1]
       PROVE  Judge(cross).lexemes = <<chain[1]>>
  <2> DEFINE l == chain[1]
             G == {m \in 0..n : f[m].best.lexemes = <<l>>}
  <2>1. l \in ToSet(chain)
    <3>1. 1 \in DOMAIN chain
      BY <1>13
    <3> QED
      BY <3>1 DEF ToSet
  <2>2. way \in Segmentations /\ ToSet(way.lexemes) \subseteq ToSet(chain) /\ l \in ToSet(way.lexemes)
    BY <1>2, <1>13 DEF Ways
  <2>3. way.lexemes = <<l>>
    <3> HIDE DEF l
    <3>1. \A m \in ToSet(way.lexemes) : l.begin <= m.begin /\ End(m) <= End(l)
      BY <1>13, <2>2 DEF l
    <3> QED
      BY <2>2, <3>1, AloneInItsSpan
  <2>4. 0 \in G
    BY <1>3, <1>4, <2>3
  <2>5. ASSUME NEW m \in 0..(n - 1), m \in G PROVE m + 1 \in G
    <3>1. /\ f[m].best \in Ways(chain) /\ f[m + 1].best \in Ways(chain) /\ m + 1 \in 0..n
          /\ f[m + 1].best = f[m].best \/ Better(f[m + 1].best, f[m].best)
          /\ f[m].best.lexemes = <<l>>
      BY <1>5, <1>9, <2>5
    <3>2. f[m + 1].best.lexemes = <<l>>
      <4>1. CASE f[m + 1].best = f[m].best
        BY <3>1, <4>1
      <4>2. CASE Better(f[m + 1].best, f[m].best)
        <5>1. \A x \in ToSet(chain) : /\ l.begin <= x.begin /\ End(x) <= End(l)
                                      /\ SameSpan(x, l) => x = l
          BY <1>13
        <5> HIDE DEF l
        <5> QED
          BY <2>1, <3>1, <4>2, <5>1, NothingBeatsTheCover
      <4> QED
        BY <3>1, <4>1, <4>2
    <3> QED
      BY <3>1, <3>2
  <2> HIDE DEF G
  <2>6. \A m \in 0..n : m \in G
    BY <1>3, <2>4, <2>5, UpTo
  <2>7. f[n].best.lexemes = <<l>>
    BY <1>11, <2>6 DEF G
  <2> QED
    BY <1>1, <2>7 DEF n
<1> QED
  BY <1>11, <1>12, <1>13

-----------------------------------------------------------------------------
(* A stretch of candidates.                                                *)
IsStretch(p) ==
    /\ p \in Path /\ p.lexemes # <<>> /\ Ordered(p.lexemes)
    /\ p.pathBegin = p.lexemes[1].begin
    /\ p.payloadLength = p.pathEnd - p.pathBegin
    /\ \A l \in ToSet(p.lexemes) : p.pathBegin <= l.begin /\ End(l) <= p.pathEnd
    /\ \E l \in ToSet(p.lexemes) : End(l) = p.pathEnd

(* The parts of a stretch are of their types.                              *)
LEMMA StretchFacts ==
  ASSUME NEW p, IsStretch(p)
  PROVE  /\ p.lexemes \in Seq(Lexeme) /\ Len(p.lexemes) \in Nat \ {0}
         /\ p.lexemes[1] \in Lexeme /\ p.lexemes[1] \in ToSet(p.lexemes)
         /\ Head(p.lexemes) = p.lexemes[1]
         /\ p.pathBegin \in Nat /\ p.pathEnd \in Nat
         /\ \A l \in ToSet(p.lexemes) : l \in Lexeme
<1> DEFINE q == p.lexemes
<1>1. q \in Seq(Lexeme) /\ (q # <<>>)
  BY DEF IsStretch, Path
<1> HIDE DEF q
<1>2. Len(q) \in Nat \ {0} /\ q[1] \in Lexeme /\ 1 \in DOMAIN q /\ Head(q) = q[1]
  BY <1>1
<1>3. q[1] \in ToSet(q) /\ \A l \in ToSet(q) : l \in Lexeme
  BY <1>1, <1>2 DEF ToSet
<1>4. \A l \in Lexeme : l.begin \in Nat /\ End(l) \in Nat
  BY OrderFacts
<1>5. p.pathBegin = q[1].begin /\ \E l \in ToSet(q) : End(l) = p.pathEnd
  BY DEF IsStretch, q
<1> QED
  BY <1>1, <1>2, <1>3, <1>4, <1>5 DEF q

(* The first candidate, and the rest as one word.                          *)
LEMMA FallbackFacts ==
  ASSUME NEW p, IsStretch(p)
  PROVE  /\ FallbackPath(p) \in Segmentations
         /\ \A l \in ToSet(FallbackPath(p).lexemes) : p.pathBegin <= l.begin /\ End(l) <= p.pathEnd
         /\ FallbackPath(p).pathBegin = p.pathBegin /\ FallbackPath(p).pathEnd = p.pathEnd
         /\ FallbackPath(p).payloadLength = p.pathEnd - p.pathBegin
<1> DEFINE first == p.lexemes[1]
           remain == p.pathEnd - End(first)
<1>1. /\ first \in Lexeme /\ Head(p.lexemes) = first /\ p.pathBegin = first.begin
      /\ p.pathBegin \in Nat /\ p.pathEnd \in Nat /\ End(first) <= p.pathEnd
      /\ first.begin \in Nat /\ first.length \in Nat \ {0} /\ first.offset \in Nat
      /\ End(first) = first.begin + first.length
  BY StretchFacts, OrderFacts DEF IsStretch
<1> HIDE DEF first
<1>2. /\ PathOf(first) \in Path /\ IsSegmentation(PathOf(first)) /\ ToSet(PathOf(first).lexemes) = {first}
      /\ PathOf(first).lexemes = <<first>> /\ PathOf(first).payloadLength = first.length
      /\ PathOf(first).pathBegin = first.begin /\ PathOf(first).pathEnd = End(first)
  BY <1>1, PathOfFacts
<1>3. CASE remain > 0
  <2> DEFINE word == NewLexeme(first.offset, End(first), remain, TypeCNWord)
             q == <<first>>
             s == AddLexeme(q, word)
             r == AddNotCrossLexeme(PathOf(first), word)
  <2>1. FallbackPath(p) = r
    BY <1>1, <1>3 DEF FallbackPath
  <2>2. /\ word \in Lexeme /\ word.begin = End(first) /\ word.length = remain
        /\ End(word) = p.pathEnd /\ remain \in Nat
    BY <1>1, <1>3 DEF NewLexeme, Lexeme, LexemeType, TypeCNWord, End
  <2> HIDE DEF word
  <2>3. MayAddNotCross(PathOf(first), word)
    BY <1>1, <1>2, <2>2 DEF MayAddNotCross, CheckCross
  <2>4. r \in Segmentations /\ ToSet(r.lexemes) = {first} \cup {word}
    <3> HIDE DEF r
    <3>1. r = AddNotCrossLexeme(PathOf(first), word)
      BY DEF r
    <3> QED
      BY <1>2, <2>2, <2>3, <3>1, AddFits DEF Segmentations
  <2>5. q \in Seq(Lexeme) /\ Len(q) = 1 /\ (q # <<>>) /\ q[1] = first /\ Spaced(q)
    BY <1>1 DEF Spaced
  <2>6. End(q[Len(q)]) <= word.begin
    BY <1>1, <2>2, <2>5
  <2>7. r = [lexemes |-> s, pathBegin |-> Head(s).begin, pathEnd |-> End(Last(s)),
             payloadLength |-> PathOf(first).payloadLength + word.length]
    BY <1>2, <2>5 DEF AddNotCrossLexeme, IsEmpty
  <2> HIDE DEF q
  <2>8. Head(s) = first /\ Last(s) = word
    BY <2>2, <2>5, <2>6, AppendSpaced
  <2> HIDE DEF r, s
  <2>9. r.pathBegin = first.begin /\ r.pathEnd = End(word) /\ r.payloadLength = first.length + remain
    BY <1>2, <2>2, <2>7, <2>8
  <2>10. \A l \in ToSet(r.lexemes) : p.pathBegin <= l.begin /\ End(l) <= p.pathEnd
    BY <1>1, <2>2, <2>4
  <2>11. first.length + remain = p.pathEnd - p.pathBegin
    BY <1>1
  <2> QED
    BY <1>1, <2>1, <2>2, <2>4, <2>9, <2>10, <2>11
<1>4. CASE ~(remain > 0)
  <2>1. FallbackPath(p) = PathOf(first)
    BY <1>1, <1>4 DEF FallbackPath
  <2>2. End(first) = p.pathEnd /\ first.length = p.pathEnd - p.pathBegin
    BY <1>1, <1>4
  <2>3. \A l \in ToSet(PathOf(first).lexemes) : p.pathBegin <= l.begin /\ End(l) <= p.pathEnd
    BY <1>1, <1>2, <2>2
  <2> QED
    BY <1>1, <1>2, <2>1, <2>2, <2>3 DEF Segmentations
<1> QED
  BY <1>3, <1>4

(* What becomes of a stretch.                                              *)
LEMMA ResolvedFacts ==
  ASSUME NEW p, IsStretch(p)
  PROVE  /\ Resolved(p, TRUE) \in Segmentations
         /\ \A l \in ToSet(Resolved(p, TRUE).lexemes) : p.pathBegin <= l.begin /\ End(l) <= p.pathEnd
         /\ \A l \in ToSet(p.lexemes) : l.length <= Resolved(p, TRUE).payloadLength
         /\ \A l \in ToSet(p.lexemes) :
               (l.length = p.pathEnd - p.pathBegin /\ ~ShouldFallback(p))
                  => Resolved(p, TRUE).lexemes = <<l>>
         /\ (Len(p.lexemes) > 1 /\ ShouldFallback(p))
               => Resolved(p, TRUE) = FallbackPath(p)
<1> DEFINE q == p.lexemes
           r == Resolved(p, TRUE)
<1>1. /\ q \in Seq(Lexeme) /\ Len(q) \in Nat \ {0} /\ q[1] \in Lexeme /\ q[1] \in ToSet(q)
      /\ Head(q) = q[1] /\ p.pathBegin \in Nat /\ p.pathEnd \in Nat
      /\ \A l \in ToSet(q) : l \in Lexeme
  BY StretchFacts
<1>2. /\ p \in Path /\ (q # <<>>) /\ Ordered(q) /\ p.pathBegin = q[1].begin
      /\ p.payloadLength = p.pathEnd - p.pathBegin
      /\ \A l \in ToSet(q) : p.pathBegin <= l.begin /\ End(l) <= p.pathEnd
      /\ \E l \in ToSet(q) : End(l) = p.pathEnd
  BY DEF IsStretch
<1>3. ~IsEmpty(p)
  BY <1>2 DEF IsEmpty
<1>4. r = IF Len(q) = 1 THEN p ELSE Judge(p)
  BY DEF Resolved
<1>5. ASSUME NEW l \in ToSet(q) PROVE l.length <= p.pathEnd - p.pathBegin
  <2>1. l \in Lexeme /\ p.pathBegin <= l.begin /\ End(l) <= p.pathEnd
    BY <1>1, <1>2
  <2>2. l.begin \in Nat /\ l.length \in Nat /\ End(l) = l.begin + l.length
    BY <2>1, OrderFacts
  <2> QED
    BY <1>1, <2>1, <2>2
<1>6. CASE Len(q) = 1
  <2>1. r = p
    BY <1>4, <1>6
  <2> HIDE DEF q, r
  <2>2. \A l \in ToSet(q) : l = q[1]
    BY <1>1, <1>6 DEF ToSet
  <2>3. q = <<q[1]>>
    <3>1. PICK l \in Lexeme : l = q[1]
      BY <1>1
    <3>2. <<l>> \in Seq(Lexeme) /\ Len(<<l>>) = 1 /\ <<l>>[1] = l
      OBVIOUS
    <3>3. \A i \in 1..Len(q) : q[i] = <<l>>[i]
      BY <1>6, <3>1, <3>2
    <3>4. q = <<l>>
      BY <1>1, <1>6, <3>2, <3>3, SeqEqual
    <3> QED
      BY <3>1, <3>4
  <2>4. End(q[1]) = p.pathEnd /\ Total(q) = q[1].length /\ Last(q) = q[1] /\ Spaced(q)
    <3>1. Total(<<q[1]>>) = q[1].length
      BY <1>1, PathOfFacts, SegmentationIs
    <3>2. Last(q) = q[1] /\ Spaced(q)
      BY <1>1, <1>6 DEF Last, Spaced
    <3> QED
      BY <1>2, <2>2, <2>3, <3>1, <3>2
  <2>5. p.payloadLength = Total(q)
    BY <1>1, <1>2, <2>4, OrderFacts
  <2>6. IsSegmentation(p)
    BY <1>1, <1>2, <2>4, <2>5, SegmentationIs DEF q
  <2>7. ~(Len(q) > 1)
    BY <1>6
  <2>8. p \in Segmentations
    BY <1>2, <2>6 DEF Segmentations
  <2>9. \A l \in ToSet(q) : q = <<l>>
    BY <2>2, <2>3
  <2> QED
    BY <1>2, <1>5, <2>1, <2>7, <2>8, <2>9 DEF q, r
<1>7. CASE Len(q) # 1 /\ ShouldFallback(p)
  <2>1. r = FallbackPath(p)
    BY <1>3, <1>4, <1>7 DEF Judge
  <2> QED
    BY <1>5, <1>7, <2>1, FallbackFacts
<1>8. CASE Len(q) # 1 /\ ~ShouldFallback(p)
  <2>1. r = Judge(p)
    BY <1>4, <1>8
  <2>2. /\ r \in Ways(q)
        /\ \A j \in DOMAIN q : q[j].length <= r.payloadLength
        /\ (/\ q # <<>>
            /\ \A m \in ToSet(q) : /\ q[1].begin <= m.begin /\ End(m) <= End(q[1])
                                   /\ SameSpan(m, q[1]) => m = q[1])
           => r.lexemes = <<q[1]>>
    BY <1>1, <1>8, <2>1, JudgeFacts
  <2> HIDE DEF r, q
  <2>3. r \in Segmentations /\ \A l \in ToSet(r.lexemes) : p.pathBegin <= l.begin /\ End(l) <= p.pathEnd
    BY <1>2, <2>2 DEF Ways
  <2>4. \A l \in ToSet(q) : l.length <= r.payloadLength
    BY <2>2 DEF ToSet
  <2>5. ASSUME NEW l \in ToSet(q), l.length = p.pathEnd - p.pathBegin
        PROVE  r.lexemes = <<l>>
    <3>1. PICK k \in DOMAIN q : q[k] = l
      BY DEF ToSet
    <3>2. l.begin = p.pathBegin /\ End(l) = p.pathEnd /\ l \in Lexeme
      BY <1>1, <1>2, <2>5, OrderFacts
    <3>3. \A i, j \in DOMAIN q : i < j => Before(q[i], q[j])
      BY <1>2 DEF Ordered
    <3>4. k = 1
      <4> SUFFICES ASSUME k # 1 PROVE FALSE
        OBVIOUS
      <4>1. 1 \in DOMAIN q /\ 1 < k
        BY <1>1, <3>1
      <4>2. Before(q[1], l)
        BY <3>1, <3>3, <4>1
      <4>3. q[1].begin = l.begin /\ End(q[1]) <= End(l)
        BY <1>1, <1>2, <3>2
      <4> QED
        BY <1>1, <3>2, <4>2, <4>3, OrderFacts DEF Before
    <3>5. ASSUME NEW m \in ToSet(q), SameSpan(m, l) PROVE m = l
      <4>1. PICK j \in DOMAIN q : q[j] = m
        BY DEF ToSet
      <4>2. j < k \/ k < j \/ j = k
        BY <1>1, <3>1, <4>1
      <4>3. m \in Lexeme /\ SameSpan(l, m)
        BY <1>1, <3>5 DEF SameSpan
      <4>4. ~Before(m, l) /\ ~Before(l, m)
        BY <3>2, <3>5, <4>3, OrderFacts
      <4> QED
        BY <3>1, <3>3, <4>1, <4>2, <4>4
    <3>6. \A m \in ToSet(q) : l.begin <= m.begin /\ End(m) <= End(l)
      BY <1>2, <3>2
    <3> QED
      BY <1>2, <2>2, <3>1, <3>4, <3>5, <3>6
  <2> QED
    BY <1>8, <2>3, <2>4, <2>5 DEF q, r
<1> QED
  BY <1>6, <1>7, <1>8

-----------------------------------------------------------------------------
(* A pair of cells that no candidate cuts.                                 *)

(* l neither begins on the second of the cells t and t + 1 nor takes the   *)
(* first in without ending behind the second.                              *)
Neat(l, t) == /\ l.begin # t + 1
              /\ (l.begin <= t /\ t < End(l)) => End(l) = t + 2

(* Some lexeme of the path takes in both cells.                            *)
CoversPair(p, t) == \E m \in ToSet(p.lexemes) : m.begin <= t /\ t + 2 <= End(m)

(* The path covers the pair, or nothing of it begins behind the first cell.*)
PairAhead(p, t) == \/ CoversPair(p, t)
                   \/ \A m \in ToSet(p.lexemes) : m.begin <= t

(* A path that stops short of the pair's own candidate either has room for *)
(* it or covers the pair already.                                          *)
LEMMA PairFits ==
  ASSUME NEW t \in Nat, NEW p \in Segmentations, \A m \in ToSet(p.lexemes) : Neat(m, t),
         \A m \in ToSet(p.lexemes) : m.begin <= t,
         NEW x \in Lexeme, x.begin = t, x.length = 2, ~MayAddNotCross(p, x)
  PROVE  CoversPair(p, t)
<1> DEFINE q == p.lexemes
<1>1. q \in Seq(Lexeme) /\ Spaced(q) /\ (q # <<>>) /\ CheckCross(p, x)
      /\ p.pathBegin = Head(q).begin /\ p.pathEnd = End(Last(q))
  BY SegmentationIs DEF MayAddNotCross, IsEmpty, Segmentations, Path
<1> HIDE DEF q
<1>2. /\ Len(q) \in Nat \ {0} /\ Head(q) = q[1] /\ Last(q) = q[Len(q)]
      /\ q[1] \in Lexeme /\ q[Len(q)] \in Lexeme
  BY <1>1, SpacedEnds
<1> DEFINE a == q[1]
           z == q[Len(q)]
<1>3. a \in ToSet(q) /\ z \in ToSet(q)
  <2>1. 1 \in DOMAIN q /\ Len(q) \in DOMAIN q
    BY <1>1, <1>2
  <2> QED
    BY <2>1 DEF ToSet
<1>4. a \in Lexeme /\ z \in Lexeme /\ p.pathBegin = a.begin /\ p.pathEnd = End(z)
  BY <1>1, <1>2
<1>5. Neat(a, t) /\ Neat(z, t) /\ a.begin <= t /\ z.begin <= t
  BY <1>3 DEF q
<1> HIDE DEF a, z
<1>6. (t >= a.begin /\ t < End(z)) \/ (a.begin >= t /\ a.begin < End(x))
  BY <1>1, <1>4 DEF CheckCross
<1>7. /\ a.begin \in Nat /\ z.begin \in Nat /\ End(a) \in Nat /\ End(z) \in Nat
      /\ End(a) = a.begin + a.length /\ a.length \in Nat \ {0}
  BY <1>4, OrderFacts
<1>8. CASE t < End(z)
  BY <1>3, <1>5, <1>7, <1>8 DEF Neat, CoversPair, q
<1>9. CASE a.begin >= t
  BY <1>3, <1>5, <1>7, <1>9 DEF Neat, CoversPair, q
<1> QED
  BY <1>6, <1>8, <1>9

(* Going forward past the pair's candidate leaves the pair covered.        *)
LEMMA ForwardCovers ==
  ASSUME NEW t \in Nat, NEW chain \in Seq(Lexeme), Ordered(chain),
         \A m \in ToSet(chain) : Neat(m, t),
         NEW x \in DOMAIN chain, chain[x].begin = t, chain[x].length = 2,
         NEW k \in Nat, NEW option \in Ways(chain),
         CoversPair(option, t) \/ (k <= x /\ PairAhead(option, t))
  PROVE  CoversPair(ForwardPath(chain, k, option).option, t)
<1> DEFINE n == Len(chain)
           w == ForwardPath(chain, k, option)
<1>0. option \in Segmentations /\ ToSet(option.lexemes) \subseteq ToSet(chain)
  BY DEF Ways
<1>1. PICK f \in [0..n -> Walks(chain)] : IsForward(f, w, chain, k, option)
  BY <1>0, ForwardSteps
<1>2. n \in Nat /\ DOMAIN chain = 1..n /\ (\A i \in 1..n : chain[i] \in Lexeme) /\ x \in 1..n
  OBVIOUS
<1>3. f[0].option = option /\ w = f[n]
  BY <1>1 DEF IsForward
<1>4. \A i \in 0..n : f[i].option \in Segmentations
  BY <1>1 DEF Walks
<1> HIDE DEF n, w
<1> DEFINE Taken(i) == ToSet(f[i].option.lexemes)
<1>5. ASSUME NEW i \in 1..n
      PROVE  /\ i < k => f[i].option = f[i - 1].option
             /\ (~(i < k) /\ MayAddNotCross(f[i - 1].option, chain[i]))
                   => Taken(i) = Taken(i - 1) \cup {chain[i]}
             /\ (~(i < k) /\ ~MayAddNotCross(f[i - 1].option, chain[i]))
                   => f[i].option = f[i - 1].option
  <2>1. i - 1 \in 0..n
    BY <1>2
  <2>2. /\ i < k => f[i] = f[i - 1]
        /\ (~(i < k) /\ MayAddNotCross(f[i - 1].option, chain[i])) =>
              f[i] = [option |-> AddNotCrossLexeme(f[i - 1].option, chain[i]),
                      conflicts |-> f[i - 1].conflicts]
        /\ (~(i < k) /\ ~MayAddNotCross(f[i - 1].option, chain[i])) =>
              f[i] = [option |-> f[i - 1].option,
                      conflicts |-> Append(f[i - 1].conflicts, i)]
    BY <1>1 DEF IsForward, n
  <2>3. ASSUME ~(i < k), MayAddNotCross(f[i - 1].option, chain[i])
        PROVE  Taken(i) = Taken(i - 1) \cup {chain[i]}
    <3>1. f[i].option = AddNotCrossLexeme(f[i - 1].option, chain[i])
      BY <2>2, <2>3
    <3> QED
      BY <1>2, <1>4, <2>1, <2>3, <3>1, AddFits DEF Segmentations
  <2>4. ASSUME ~(i < k), ~MayAddNotCross(f[i - 1].option, chain[i])
        PROVE  f[i].option = f[i - 1].option
    BY <2>2, <2>4
  <2> QED
    BY <2>2, <2>3, <2>4
(* What the walk has by the time it has seen the first i candidates.       *)
<1> DEFINE On(i) == /\ Taken(i) \subseteq ToSet(chain)
                    /\ i < x => PairAhead(f[i].option, t)
                    /\ i >= x => CoversPair(f[i].option, t)
                    /\ ~(k <= x) => CoversPair(f[i].option, t)
           G == {i \in 0..n : On(i)}
<1>6. 0 \in G
  <2>1. On(0)
    BY <1>0, <1>2, <1>3 DEF PairAhead
  <2> HIDE DEF On
  <2> QED
    BY <1>2, <2>1
<1>7. ASSUME NEW m \in 0..(n - 1), m \in G PROVE m + 1 \in G
  <2>1. m + 1 \in 1..n /\ (m + 1) - 1 = m /\ m + 1 \in 0..n /\ m \in 0..n
    BY <1>2
  <2>2. On(m)
    BY <1>7
  <2> DEFINE l == chain[m + 1]
             o == f[m].option
             p == f[m + 1].option
  <2>3. l \in Lexeme /\ l \in ToSet(chain)
    BY <1>2, <2>1 DEF ToSet
  <2>4. /\ m + 1 < k => p = o
        /\ (~(m + 1 < k) /\ MayAddNotCross(o, l)) => ToSet(p.lexemes) = ToSet(o.lexemes) \cup {l}
        /\ (~(m + 1 < k) /\ ~MayAddNotCross(o, l)) => p = o
    BY <1>5, <2>1
  <2>5. o \in Segmentations /\ ToSet(o.lexemes) \subseteq ToSet(chain)
    BY <1>4, <2>1, <2>2
  <2>6. /\ m < x => PairAhead(o, t)
        /\ m >= x => CoversPair(o, t)
        /\ ~(k <= x) => CoversPair(o, t)
    BY <2>2
  <2> HIDE DEF On
  <2>7. m + 1 <= x => l.begin <= t
    <3>1. CASE m + 1 = x
      BY <1>2, <3>1
    <3>2. CASE m + 1 < x
      <4>1. Before(l, chain[x])
        BY <1>2, <2>1, <3>2 DEF Ordered
      <4> QED
        BY <1>2, <2>3, <4>1, OrderFacts DEF Before
    <3> QED
      BY <1>2, <3>1, <3>2
  <2> HIDE DEF o, p, l
  <2>8. ToSet(o.lexemes) \subseteq ToSet(p.lexemes) /\ ToSet(p.lexemes) \subseteq ToSet(o.lexemes) \cup {l}
    BY <2>4
  <2>9. CoversPair(o, t) => CoversPair(p, t)
    BY <2>8 DEF CoversPair
  <2>10. ASSUME m + 1 < x PROVE PairAhead(p, t)
    BY <1>2, <2>6, <2>7, <2>8, <2>9, <2>10 DEF PairAhead
  <2>11. ASSUME m + 1 = x, ~CoversPair(o, t) PROVE CoversPair(p, t)
    <3>1. k <= x /\ \A y \in ToSet(o.lexemes) : y.begin <= t
      BY <1>2, <2>6, <2>11 DEF PairAhead
    <3>2. l.begin = t /\ l.length = 2 /\ End(l) = t + 2
      BY <2>11 DEF l, End
    <3>3. MayAddNotCross(o, l)
      BY <2>3, <2>5, <2>11, <3>1, <3>2, PairFits
    <3>4. l \in ToSet(p.lexemes)
      BY <1>2, <2>4, <2>11, <3>1, <3>3
    <3> QED
      BY <3>2, <3>4 DEF CoversPair
  <2>12. On(m + 1)
    <3>1. ToSet(p.lexemes) \subseteq ToSet(chain)
      BY <2>3, <2>5, <2>8
    <3>2. m + 1 >= x => CoversPair(p, t)
      BY <1>2, <2>6, <2>9, <2>11
    <3>3. ~(k <= x) => CoversPair(p, t)
      BY <2>6, <2>9
    <3> QED
      BY <2>10, <3>1, <3>2, <3>3 DEF On, p
  <2> QED
    BY <2>1, <2>12
<1> HIDE DEF G
<1>8. n \in G
  <2>1. \A i \in 0..n : i \in G
    BY <1>2, <1>6, <1>7, UpTo
  <2> QED
    BY <1>2, <2>1
<1>9. On(n)
  BY <1>8 DEF G
<1>10. n >= x
  BY <1>2
<1> QED
  BY <1>3, <1>9, <1>10 DEF w

(* A turn of the loop of judge does not lose the pair: when the way back   *)
(* drops what covered it, the way forward passes its candidate again.      *)
LEMMA TurnCovers ==
  ASSUME NEW t \in Nat, NEW chain \in Seq(Lexeme), Ordered(chain),
         \A m \in ToSet(chain) : Neat(m, t),
         NEW x \in DOMAIN chain, chain[x].begin = t, chain[x].length = 2,
         NEW state \in Outcomes(chain), NEW k \in DOMAIN chain,
         CoversPair(state.option, t), CoversPair(state.best, t)
  PROVE  CoversPair(Turn(chain, state, k).option, t) /\ CoversPair(Turn(chain, state, k).best, t)
<1> DEFINE l == chain[k]
           back == BackPath(l, state.option)
           option == ForwardPath(chain, k, back).option
<1>1. Turn(chain, state, k) = [option |-> option,
                               best |-> IF Better(option, state.best) THEN option ELSE state.best]
  BY DEF Turn
<1>2. k \in Nat \ {0} /\ l \in Lexeme /\ chain[x] \in Lexeme /\ x \in Nat /\ Neat(l, t)
  BY DEF ToSet
<1>3. state.option \in Segmentations /\ ToSet(state.option.lexemes) \subseteq ToSet(chain)
  BY DEF Outcomes, Ways
<1>4. PICK m \in ToSet(state.option.lexemes) : m.begin <= t /\ t + 2 <= End(m)
  BY DEF CoversPair
<1>5. m \in Lexeme /\ Neat(m, t)
  <2>1. m \in ToSet(chain)
    BY <1>3
  <2>2. \A y \in ToSet(chain) : y \in Lexeme
    BY DEF ToSet
  <2> QED
    BY <2>1, <2>2
<1>6. End(m) = t + 2
  BY <1>4, <1>5, OrderFacts DEF Neat
<1>7. /\ back \in Segmentations /\ ToSet(back.lexemes) \subseteq ToSet(chain)
      /\ MayAddNotCross(back, l)
      /\ \/ m \in ToSet(back.lexemes)
         \/ l.begin < End(m) /\ \A y \in ToSet(back.lexemes) : y.begin <= m.begin
  BY <1>2, <1>3, BackPathFacts DEF MayAddNotCross
<1> HIDE DEF back
<1>8. back \in Ways(chain)
  BY <1>7 DEF Ways
<1>9. CoversPair(option, t)
  <2>1. CASE m \in ToSet(back.lexemes)
    <3>1. CoversPair(back, t)
      BY <1>4, <2>1 DEF CoversPair
    <3> QED
      BY <1>2, <1>8, <3>1, ForwardCovers
  <2>2. CASE m \notin ToSet(back.lexemes)
    <3>1. l.begin < t + 2 /\ \A y \in ToSet(back.lexemes) : y.begin <= m.begin
      BY <1>6, <1>7, <2>2
    <3>2. l.begin <= t
      BY <1>2, <3>1, OrderFacts DEF Neat
    <3>3. PairAhead(back, t)
      <4>1. \A y \in ToSet(back.lexemes) : y.begin \in Nat
        <5>1. \A y \in ToSet(chain) : y \in Lexeme
          BY DEF ToSet
        <5> QED
          BY <1>7, <5>1, OrderFacts
      <4> QED
        BY <1>4, <1>5, <3>1, <4>1, OrderFacts DEF PairAhead
    <3>4. CASE l.begin = t
      <4>1. l \in ToSet(option.lexemes)
        BY <1>2, <1>7, ForwardFacts
      <4>2. End(l) = t + 2
        BY <1>2, <3>4, OrderFacts DEF Neat
      <4> QED
        BY <3>4, <4>1, <4>2 DEF CoversPair
    <3>5. CASE l.begin < t
      <4>1. k <= x
        <5> SUFFICES ASSUME ~(k <= x) PROVE FALSE
          OBVIOUS
        <5>1. Before(chain[x], l)
          BY <1>2 DEF Ordered
        <5> QED
          BY <1>2, <3>5, <5>1, OrderFacts DEF Before
      <4> QED
        BY <1>2, <1>8, <3>3, <4>1, ForwardCovers
    <3> QED
      BY <1>2, <3>2, <3>4, <3>5, OrderFacts
  <2> QED
    BY <2>1, <2>2
<1> HIDE DEF option
<1> QED
  BY <1>1, <1>9

(* What judge chooses covers the pair.                                     *)
LEMMA JudgeCovers ==
  ASSUME NEW t \in Nat, NEW cross, NEW chain \in Seq(Lexeme), cross.lexemes = chain,
         IsEmpty(cross) \/ ~ShouldFallback(cross), Ordered(chain),
         \A m \in ToSet(chain) : Neat(m, t),
         NEW x \in DOMAIN chain, chain[x].begin = t, chain[x].length = 2
  PROVE  CoversPair(Judge(cross), t)
<1> DEFINE first == ForwardPath(chain, 1, newLexemePath)
           way == first.option
           c == Reverse(first.conflicts)
           n == Len(c)
<1>1. PICK f \in [0..n -> Outcomes(chain)] : /\ IsJudging(f, chain, way, c)
                                            /\ Judge(cross) = f[n].best
  BY JudgeSteps
<1>2. first \in Walks(chain)
  BY FirstWay
<1>3. n \in Nat /\ DOMAIN c = 1..n /\ \A i \in 1..n : c[i] \in DOMAIN chain
  <2> DEFINE d == first.conflicts
  <2>1. d \in Seq(DOMAIN chain)
    BY <1>2 DEF Walks
  <2> HIDE DEF d
  <2>2. Len(d) \in Nat /\ \A i \in 1..Len(d) : d[(Len(d) - i) + 1] \in DOMAIN chain
    BY <2>1
  <2>3. [i \in 1..Len(d) |-> d[(Len(d) - i) + 1]] \in Seq(DOMAIN chain)
    BY <2>2
  <2>4. c \in Seq(DOMAIN chain)
    BY <2>3 DEF Reverse, d
  <2> HIDE DEF c
  <2> QED
    BY <2>4
<1>4. CoversPair(way, t)
  <2>1. newLexemePath \in Ways(chain) /\ PairAhead(newLexemePath, t)
    <3>1. ToSet(newLexemePath.lexemes) = {}
      BY DEF newLexemePath, ToSet
    <3> QED
      BY <3>1, SegmentationIs DEF Ways, Segmentations, PairAhead
  <2>2. PICK one \in Nat : one = 1
    OBVIOUS
  <2>3. one <= x
    BY <2>2
  <2>4. CoversPair(ForwardPath(chain, one, newLexemePath).option, t)
    BY <2>1, <2>3, ForwardCovers
  <2> QED
    BY <2>2, <2>4
<1> HIDE DEF first, c
<1>5. /\ f[0].option = way /\ f[0].best = way
      /\ \A i \in 1..n : f[i] = Turn(chain, f[i - 1], c[i])
  BY <1>1 DEF IsJudging
<1> HIDE DEF way
<1> DEFINE G == {i \in 0..n : CoversPair(f[i].option, t) /\ CoversPair(f[i].best, t)}
<1>6. 0 \in G
  BY <1>3, <1>4, <1>5
<1>7. ASSUME NEW m \in 0..(n - 1), m \in G PROVE m + 1 \in G
  <2>1. m + 1 \in 1..n /\ m \in 0..n /\ m + 1 \in 0..n /\ (m + 1) - 1 = m
    BY <1>3
  <2>2. f[m + 1] = Turn(chain, f[m], c[m + 1]) /\ c[m + 1] \in DOMAIN chain /\ f[m] \in Outcomes(chain)
    BY <1>1, <1>3, <1>5, <2>1
  <2>3. CoversPair(f[m].option, t) /\ CoversPair(f[m].best, t)
    BY <1>7
  <2>4. CoversPair(f[m + 1].option, t) /\ CoversPair(f[m + 1].best, t)
    BY <2>2, <2>3, TurnCovers
  <2> QED
    BY <2>1, <2>4
<1> HIDE DEF G
<1>8. \A m \in 0..n : m \in G
  BY <1>3, <1>6, <1>7, UpTo
<1>9. CoversPair(f[n].best, t)
  BY <1>3, <1>8 DEF G
<1> QED
  BY <1>1, <1>9

(* And so does what becomes of the stretch, however it is resolved: a pair *)
(* of cells that is a candidate of its own and that no candidate cuts is   *)
(* within one lexeme of the outcome (ik_arbitrator.go:67-150).             *)
LEMMA ResolvedCovers ==
  ASSUME NEW t \in Nat, NEW p, IsStretch(p), \A m \in ToSet(p.lexemes) : Neat(m, t),
         NEW l \in ToSet(p.lexemes), l.begin = t, l.length = 2
  PROVE  CoversPair(Resolved(p, TRUE), t)
<1> DEFINE q == p.lexemes
           a == q[1]
<1>1. /\ q \in Seq(Lexeme) /\ Len(q) \in Nat \ {0} /\ a \in Lexeme /\ a \in ToSet(q)
      /\ Head(q) = a /\ p.pathBegin \in Nat /\ p.pathEnd \in Nat
      /\ \A m \in ToSet(q) : m \in Lexeme
  BY StretchFacts
<1>2. /\ (q # <<>>) /\ Ordered(q) /\ p.pathBegin = a.begin
      /\ \A m \in ToSet(q) : p.pathBegin <= m.begin /\ End(m) <= p.pathEnd
  BY DEF IsStretch
<1>3. l \in Lexeme /\ End(l) = t + 2 /\ Neat(a, t)
  BY <1>1, OrderFacts
<1>4. CASE Len(q) = 1
  BY <1>3, <1>4 DEF Resolved, CoversPair
<1>5. CASE Len(q) # 1 /\ ShouldFallback(p)
  <2>1. Resolved(p, TRUE) = FallbackPath(p)
    BY <1>2, <1>5 DEF Resolved, Judge, IsEmpty
  <2>2. /\ a.begin <= t /\ t + 2 <= p.pathEnd
        /\ a.begin \in Nat /\ End(a) \in Nat /\ a.length \in Nat \ {0} /\ a.offset \in Nat
        /\ End(a) = a.begin + a.length
    BY <1>1, <1>2, <1>3, OrderFacts
  <2>3. PathOf(a) \in Segmentations /\ ToSet(PathOf(a).lexemes) = {a} /\ (PathOf(a).lexemes # <<>>)
        /\ PathOf(a).pathBegin = a.begin /\ PathOf(a).pathEnd = End(a)
    <3>1. <<a>> # <<>>
      OBVIOUS
    <3> HIDE DEF a
    <3> QED
      BY <1>1, <3>1, PathOfFacts DEF Segmentations
  <2> DEFINE remain == p.pathEnd - End(a)
             word == NewLexeme(a.offset, End(a), remain, TypeCNWord)
  <2>4. FallbackPath(p) = IF remain > 0 THEN AddNotCrossLexeme(PathOf(a), word) ELSE PathOf(a)
    BY <1>1 DEF FallbackPath
  <2> HIDE DEF q, a
  <2>5. CASE remain > 0
    <3>1. word \in Lexeme /\ word.begin = End(a) /\ End(word) = p.pathEnd
      BY <1>1, <2>2, <2>5 DEF NewLexeme, Lexeme, LexemeType, TypeCNWord, End
    <3> HIDE DEF word
    <3>2. MayAddNotCross(PathOf(a), word)
      BY <1>1, <2>2, <2>3, <3>1 DEF MayAddNotCross, CheckCross
    <3>3. ToSet(FallbackPath(p).lexemes) = {a} \cup {word}
      BY <2>3, <2>4, <2>5, <3>1, <3>2, AddFits DEF Segmentations
    <3>4. CASE End(a) <= t
      BY <2>1, <2>2, <3>1, <3>3, <3>4 DEF CoversPair
    <3>5. CASE ~(End(a) <= t)
      <4>1. End(a) = t + 2
        BY <1>3, <2>2, <3>5 DEF Neat
      <4>2. t + 2 <= End(a)
        BY <4>1
      <4>3. a \in ToSet(Resolved(p, TRUE).lexemes)
        BY <2>1, <3>3
      <4> QED
        BY <2>2, <4>2, <4>3 DEF CoversPair
    <3> QED
      BY <3>4, <3>5
  <2>6. CASE ~(remain > 0)
    <3>1. t + 2 <= End(a)
      BY <1>1, <2>2, <2>6
    <3> QED
      BY <2>1, <2>2, <2>3, <2>4, <2>6, <3>1 DEF CoversPair
  <2> QED
    BY <2>5, <2>6
<1>6. CASE Len(q) # 1 /\ ~ShouldFallback(p)
  <2>1. Resolved(p, TRUE) = Judge(p)
    BY <1>6 DEF Resolved
  <2>2. PICK x \in DOMAIN q : q[x] = l
    BY DEF ToSet
  <2> HIDE DEF a
  <2> QED
    BY <1>1, <1>2, <1>6, <2>1, <2>2, JudgeCovers
<1> QED
  BY <1>4, <1>5, <1>6

-----------------------------------------------------------------------------
(* Gathering the candidates into stretches.                                *)
LEMMA MaxOfTwo ==
  ASSUME NEW a \in Int, NEW b \in Int
  PROVE  /\ Max({a, b}) \in {a, b} /\ Max({a, b}) \in Int
         /\ a <= Max({a, b}) /\ b <= Max({a, b})
<1> DEFINE S == {a, b}
<1>1. \E x \in S : \A y \in S : x >= y
  <2>1. CASE a >= b
    BY <2>1
  <2>2. CASE b >= a
    BY <2>2
  <2> QED
    BY <2>1, <2>2
<1> HIDE DEF S
<1>2. Max(S) \in S /\ \A y \in S : Max(S) >= y
  BY <1>1 DEF Max
<1> QED
  BY <1>2 DEF S

(* A path stays a path, whatever lexeme is added as crossing.              *)
LEMMA AddCrossTyped ==
  ASSUME NEW p \in Path, NEW l \in Lexeme
  PROVE  AddCrossLexeme(p, l) \in Path
<1>1. CASE IsEmpty(p)
  BY <1>1, PathOfFacts DEF AddCrossLexeme
<1>2. CASE ~IsEmpty(p)
  <2> DEFINE end == Max({End(l), p.pathEnd})
             q == AddLexeme(p.lexemes, l)
  <2>1. p.lexemes \in Seq(Lexeme) /\ p.pathBegin \in Int /\ p.pathEnd \in Int /\ End(l) \in Int
    BY OrderFacts DEF Path
  <2>2. end \in Int /\ q \in Seq(Lexeme)
    BY <2>1, MaxOfTwo, AddLexemeTyped
  <2>3. AddCrossLexeme(p, l) = [lexemes |-> q, pathBegin |-> p.pathBegin, pathEnd |-> end,
                                payloadLength |-> end - p.pathBegin]
    BY <1>2 DEF AddCrossLexeme
  <2> HIDE DEF end, q
  <2>4. end - p.pathBegin \in Int
    BY <2>1, <2>2
  <2> QED
    BY <2>1, <2>2, <2>3, <2>4 DEF Path
<1> QED
  BY <1>1, <1>2

(* A lexeme alone is a stretch.                                            *)
LEMMA AloneIsAStretch ==
  ASSUME NEW l \in Lexeme
  PROVE  /\ IsStretch(PathOf(l)) /\ ToSet(PathOf(l).lexemes) = {l}
         /\ PathOf(l).pathBegin = l.begin /\ PathOf(l).pathEnd = End(l)
<1>1. /\ PathOf(l) \in Path /\ PathOf(l).lexemes = <<l>> /\ ToSet(PathOf(l).lexemes) = {l}
      /\ PathOf(l).pathBegin = l.begin /\ PathOf(l).pathEnd = End(l) /\ PathOf(l).payloadLength = l.length
  BY PathOfFacts
<1>2. <<l>> # <<>> /\ Ordered(<<l>>) /\ <<l>>[1] = l
  BY DEF Ordered
<1>3. l.begin \in Nat /\ l.length \in Nat /\ End(l) = l.begin + l.length
  BY OrderFacts
<1> QED
  BY <1>1, <1>2, <1>3 DEF IsStretch

(* A stretch grows by a later lexeme and keeps its begin                   *)
(* (lexeme_path.go:24-41).                                                 *)
LEMMA StretchGrows ==
  ASSUME NEW p, IsStretch(p), NEW l \in Lexeme, \A m \in ToSet(p.lexemes) : Before(m, l)
  PROVE  LET r == AddCrossLexeme(p, l)
         IN  /\ IsStretch(r) /\ ToSet(r.lexemes) = ToSet(p.lexemes) \cup {l}
             /\ r.pathBegin = p.pathBegin /\ p.pathEnd <= r.pathEnd /\ End(l) <= r.pathEnd
<1> DEFINE q == p.lexemes
           end == Max({End(l), p.pathEnd})
           s == Append(q, l)
           r == AddCrossLexeme(p, l)
<1>1. /\ q \in Seq(Lexeme) /\ Len(q) \in Nat \ {0} /\ q[1] \in Lexeme /\ q[1] \in ToSet(q)
      /\ p.pathBegin \in Nat /\ p.pathEnd \in Nat /\ \A m \in ToSet(q) : m \in Lexeme
  BY StretchFacts
<1>2. /\ p \in Path /\ (q # <<>>) /\ Ordered(q) /\ p.pathBegin = q[1].begin
      /\ \A m \in ToSet(q) : p.pathBegin <= m.begin /\ End(m) <= p.pathEnd
      /\ \E m \in ToSet(q) : End(m) = p.pathEnd
  BY DEF IsStretch
<1>3. l.begin \in Nat /\ l.length \in Nat /\ End(l) \in Nat /\ End(l) = l.begin + l.length
  BY OrderFacts
<1>4. end \in {End(l), p.pathEnd} /\ end \in Int /\ p.pathEnd <= end /\ End(l) <= end
  <2>1. PICK a \in Int, b \in Int : a = End(l) /\ b = p.pathEnd
    BY <1>1, <1>3
  <2>2. /\ Max({a, b}) \in {a, b} /\ Max({a, b}) \in Int
        /\ a <= Max({a, b}) /\ b <= Max({a, b})
    BY MaxOfTwo
  <2>3. end = Max({a, b})
    BY <2>1
  <2> HIDE DEF end
  <2> QED
    BY <2>1, <2>2, <2>3
<1> HIDE DEF end
<1>5. \A k \in DOMAIN q : Before(q[k], l)
  BY DEF ToSet
<1>6. AddLexeme(q, l) = s
  BY <1>1, <1>5, AddLast
<1>7. r = [lexemes |-> s, pathBegin |-> p.pathBegin, pathEnd |-> end,
           payloadLength |-> end - p.pathBegin]
  BY <1>2, <1>6 DEF AddCrossLexeme, IsEmpty, end
<1> HIDE DEF q
<1>8. /\ s \in Seq(Lexeme) /\ Len(s) = Len(q) + 1 /\ DOMAIN s = 1..(Len(q) + 1) /\ DOMAIN q = 1..Len(q)
      /\ s[Len(q) + 1] = l /\ \A k \in 1..Len(q) : s[k] = q[k]
  BY <1>1
<1> HIDE DEF s, r
<1>9. \A k \in 1..(Len(q) + 1) : k \in 1..Len(q) \/ k = Len(q) + 1
  BY <1>1
<1>10. ToSet(s) = ToSet(q) \cup {l}
  <2>1. \A k \in 1..(Len(q) + 1) : s[k] \in ToSet(q) \cup {l}
    BY <1>8, <1>9 DEF ToSet
  <2>2. ASSUME NEW k \in 1..Len(q) PROVE q[k] \in ToSet(s)
    <3>1. k \in 1..(Len(q) + 1)
      BY <1>1
    <3> QED
      BY <1>8, <3>1 DEF ToSet
  <2>3. l \in ToSet(s)
    <3>1. Len(q) + 1 \in 1..(Len(q) + 1)
      BY <1>1
    <3> QED
      BY <1>8, <3>1 DEF ToSet
  <2> QED
    BY <1>8, <2>1, <2>2, <2>3 DEF ToSet
<1>11. Ordered(s)
  <2> SUFFICES ASSUME NEW i \in 1..(Len(q) + 1), NEW j \in 1..(Len(q) + 1), i < j
               PROVE  Before(s[i], s[j])
    BY <1>8 DEF Ordered
  <2>1. i \in 1..Len(q) /\ s[i] = q[i]
    BY <1>1, <1>8
  <2>2. CASE j \in 1..Len(q)
    BY <1>2, <1>8, <2>1, <2>2 DEF Ordered
  <2>3. CASE j = Len(q) + 1
    BY <1>5, <1>8, <2>1, <2>3 DEF q
  <2> QED
    BY <1>9, <2>2, <2>3
<1>12. s # <<>> /\ s[1] = q[1]
  <2>1. 1 \in 1..Len(q) /\ Len(s) # 0 /\ Len(<<>>) = 0
    BY <1>1, <1>8
  <2> QED
    BY <1>8, <2>1
<1>13. p.pathBegin <= l.begin
  <2>1. Before(q[1], l)
    BY <1>1 DEF q
  <2> QED
    BY <1>1, <1>2, <1>3, <2>1, OrderFacts DEF Before
<1>14. \A m \in ToSet(s) : p.pathBegin <= m.begin /\ End(m) <= end
  <2>1. \A m \in ToSet(q) : End(m) \in Nat /\ m.begin \in Nat
    BY <1>1, OrderFacts DEF q
  <2>2. \A m \in ToSet(q) : End(m) <= end
    BY <1>1, <1>2, <1>4, <2>1 DEF q
  <2> QED
    BY <1>2, <1>4, <1>10, <1>13, <2>2 DEF q
<1>15. \E m \in ToSet(s) : End(m) = end
  BY <1>2, <1>4, <1>10 DEF q
<1>16. /\ r.lexemes = s /\ r.pathBegin = p.pathBegin /\ r.pathEnd = end
       /\ r.payloadLength = end - p.pathBegin
  BY <1>7
<1>17. r \in Path
  BY <1>2, AddCrossTyped DEF r
<1>18. p.pathBegin = q[1].begin
  BY <1>2 DEF q
<1>19. IsStretch(r)
  BY <1>11, <1>12, <1>14, <1>15, <1>16, <1>17, <1>18 DEF IsStretch
<1> QED
  BY <1>4, <1>10, <1>16, <1>19 DEF r, q

(* f goes through the loop of process.                                     *)
IsGathering(f, q, useSmart) ==
    /\ f[0] = [cross |-> newLexemePath, paths |-> {}]
    /\ \A i \in 1..Len(q) :
          /\ f[i - 1].cross \in Path
          /\ MayAddCross(f[i - 1].cross, q[i]) =>
                f[i] = [cross |-> AddCrossLexeme(f[i - 1].cross, q[i]), paths |-> f[i - 1].paths]
          /\ ~MayAddCross(f[i - 1].cross, q[i]) =>
                f[i] = [cross |-> AddCrossLexeme(newLexemePath, q[i]),
                        paths |-> f[i - 1].paths \cup {Resolved(f[i - 1].cross, useSmart)}]

(* Process is the last of a sequence of gatherings, one for each           *)
(* candidate, and the stretch still open (ik_arbitrator.go:23-49).         *)
LEMMA ProcessSteps ==
  ASSUME NEW q \in Seq(Lexeme), NEW useSmart
  PROVE  \E f : /\ IsGathering(f, q, useSmart)
                /\ Process(q, useSmart)
                      = f[Len(q)].paths \cup {Resolved(f[Len(q)].cross, useSmart)}
<1> DEFINE n == Len(q)
           poll(state, l) ==
             IF MayAddCross(state.cross, l)
             THEN [state EXCEPT !.cross = AddCrossLexeme(@, l)]
             ELSE [cross |-> AddCrossLexeme(newLexemePath, l),
                   paths |-> state.paths \cup {Resolved(state.cross, useSmart)}]
           none == [cross |-> newLexemePath, paths |-> {}]
           Eq(g) == g = [s \in SUBSET DOMAIN q |->
                           IF s = {} THEN none ELSE poll(g[s \ {Max(s)}], q[Max(s)])]
           fold == CHOOSE g : Eq(g)
           R == {Resolved(p, useSmart) : p \in Path}
           V == [cross: Path, paths: SUBSET R]
           step == [x \in V \X (1..n) |-> poll(x[1], q[x[2]])]
<1>1. Process(q, useSmart) = fold[DOMAIN q].paths \cup {Resolved(fold[DOMAIN q].cross, useSmart)}
  BY DEF Process, FoldLeft, MapThenFoldSet
<1>2. n \in Nat /\ DOMAIN q = 1..n /\ \A i \in 1..n : q[i] \in Lexeme
  OBVIOUS
<1>3. none \in V /\ newLexemePath \in Path
  BY SegmentationIs
<1>4. ASSUME NEW w \in V, NEW l \in Lexeme
      PROVE  /\ poll(w, l) \in V
             /\ MayAddCross(w.cross, l) =>
                   poll(w, l) = [cross |-> AddCrossLexeme(w.cross, l), paths |-> w.paths]
             /\ ~MayAddCross(w.cross, l) =>
                   poll(w, l) = [cross |-> AddCrossLexeme(newLexemePath, l),
                                 paths |-> w.paths \cup {Resolved(w.cross, useSmart)}]
  <2>1. w = [cross |-> w.cross, paths |-> w.paths] /\ w.cross \in Path /\ w.paths \subseteq R
    OBVIOUS
  <2>2. AddCrossLexeme(w.cross, l) \in Path /\ AddCrossLexeme(newLexemePath, l) \in Path
    BY <1>3, <2>1, AddCrossTyped
  <2>3. Resolved(w.cross, useSmart) \in R
    BY <2>1
  <2>4. ASSUME NEW a
        PROVE  [w EXCEPT !.cross = a] = [cross |-> a, paths |-> w.paths]
    BY <2>1
  <2> HIDE DEF R
  <2> QED
    BY <2>1, <2>2, <2>3, <2>4
<1>5. step \in [V \X (1..n) -> V]
  <2> HIDE DEF V, poll, n
  <2> QED
    BY <1>2, <1>4
<1>6. \A w \in V, i \in 1..n : step[<<w, i>>] = poll(w, q[i])
  <2> HIDE DEF V, poll, n
  <2> QED
    OBVIOUS
<1>20. \A w \in V : w.cross \in Path
  OBVIOUS
<1> HIDE DEF poll, none, V, R, step, n
<1>7. \E h : Eq(h)
  <2> HIDE DEF Eq, fold
  <2>1. PICK h \in [SUBSET (1..n) -> V] : IsFold(h, n, none, step)
    BY <1>2, <1>3, <1>5, FoldExists
  <2>2. ASSUME NEW s \in SUBSET (1..n), s # {} PROVE Max(s) \in 1..n
    BY <1>2, <2>2, SubsetMax
  <2>3. ASSUME NEW s \in SUBSET (1..n)
        PROVE  h[s] = IF s = {} THEN none ELSE poll(h[s \ {Max(s)}], q[Max(s)])
    <3>1. CASE s = {}
      BY <2>1, <3>1 DEF IsFold
    <3>2. CASE s # {}
      <4>1. Max(s) \in 1..n /\ s \ {Max(s)} \in SUBSET (1..n)
        BY <2>2, <3>2
      <4>2. h[s \ {Max(s)}] \in V
        BY <2>1, <4>1
      <4>3. h[s] = step[<<h[s \ {Max(s)}], Max(s)>>]
        BY <2>1, <3>2 DEF IsFold
      <4> QED
        BY <1>6, <3>2, <4>1, <4>2, <4>3
    <3> QED
      BY <3>1, <3>2
  <2>4. h = [s \in SUBSET (1..n) |-> IF s = {} THEN none ELSE poll(h[s \ {Max(s)}], q[Max(s)])]
    BY <2>1, <2>3
  <2> QED
    BY <1>2, <2>4 DEF Eq
<1> HIDE DEF fold, Eq
<1>8. Eq(fold)
  BY <1>7 DEF fold
<1>9. \A s \in SUBSET (1..n) : fold[s] = IF s = {} THEN none ELSE poll(fold[s \ {Max(s)}], q[Max(s)])
  BY <1>2, <1>8 DEF Eq
<1> DEFINE f == [i \in 0..n |-> fold[1..i]]
<1>10. f[0] = none /\ f[n] = fold[1..n]
  <2>1. 1..0 = {} /\ 1..0 \in SUBSET (1..n)
    OBVIOUS
  <2>2. f[0] = fold[1..0] /\ f[n] = fold[1..n]
    BY <1>2
  <2> HIDE DEF f
  <2> QED
    BY <1>9, <2>1, <2>2
<1>11. ASSUME NEW i \in 1..n PROVE f[i] = poll(f[i - 1], q[i])
  <2>1. Max(1..i) = i /\ (1..i) \ {i} = 1..(i - 1) /\ 1..i # {}
    <3>1. i \in Nat \ {0}
      BY <1>2
    <3> QED
      BY <3>1, PrefixMax
  <2>2. 1..i \in SUBSET (1..n) /\ i \in 0..n /\ i - 1 \in 0..n
    BY <1>2
  <2>3. f[i] = fold[1..i] /\ f[i - 1] = fold[1..(i - 1)]
    BY <2>2
  <2> HIDE DEF f
  <2>4. fold[1..i] = poll(fold[(1..i) \ {Max(1..i)}], q[Max(1..i)])
    BY <1>9, <2>1, <2>2
  <2> QED
    BY <2>1, <2>3, <2>4
<1> HIDE DEF f
<1> DEFINE G == {i \in 0..n : f[i] \in V}
<1>13. 0 \in G
  BY <1>2, <1>3, <1>10
<1>14. ASSUME NEW m \in 0..(n - 1), m \in G PROVE m + 1 \in G
  <2>1. m + 1 \in 1..n /\ (m + 1) - 1 = m /\ m + 1 \in 0..n
    BY <1>2
  <2>2. f[m + 1] = poll(f[m], q[m + 1])
    BY <1>11, <2>1
  <2>3. f[m] \in V /\ q[m + 1] \in Lexeme
    BY <1>2, <1>14, <2>1
  <2> QED
    BY <1>4, <2>1, <2>2, <2>3
<1> HIDE DEF G
<1>15. \A i \in 0..n : i \in G
  BY <1>2, <1>13, <1>14, UpTo
<1>16. \A i \in 0..n : f[i] \in V
  BY <1>15 DEF G
<1>17. ASSUME NEW i \in 1..n
       PROVE  /\ f[i - 1].cross \in Path
              /\ MayAddCross(f[i - 1].cross, q[i]) =>
                    f[i] = [cross |-> AddCrossLexeme(f[i - 1].cross, q[i]), paths |-> f[i - 1].paths]
              /\ ~MayAddCross(f[i - 1].cross, q[i]) =>
                    f[i] = [cross |-> AddCrossLexeme(newLexemePath, q[i]),
                            paths |-> f[i - 1].paths \cup {Resolved(f[i - 1].cross, useSmart)}]
  <2>1. i - 1 \in 0..n
    BY <1>2
  <2>2. f[i - 1] \in V /\ q[i] \in Lexeme
    BY <1>2, <1>16, <2>1
  <2> QED
    BY <1>4, <1>11, <1>20, <2>2
<1>18. IsGathering(f, q, useSmart)
  BY <1>10, <1>17 DEF IsGathering, none, n
<1>19. Process(q, useSmart) = f[n].paths \cup {Resolved(f[n].cross, useSmart)}
  BY <1>1, <1>2, <1>10
<1> QED
  BY <1>18, <1>19 DEF n

(* The mode only tells what becomes of a stretch.                          *)
LEMMA SmartFollowsMaxWord ==
  ASSUME NEW q \in Seq(Lexeme)
  PROVE  Process(q, TRUE) = {Resolved(p, TRUE) : p \in Process(q, FALSE)}
<1> DEFINE n == Len(q)
<1>1. PICK f : IsGathering(f, q, FALSE) /\ Process(q, FALSE) = f[n].paths \cup {Resolved(f[n].cross, FALSE)}
  BY ProcessSteps
<1>2. PICK g : IsGathering(g, q, TRUE) /\ Process(q, TRUE) = g[n].paths \cup {Resolved(g[n].cross, TRUE)}
  BY ProcessSteps
<1>3. \A p : Resolved(p, FALSE) = p
  BY DEF Resolved
<1>4. n \in Nat
  OBVIOUS
<1>5. /\ f[0] = [cross |-> newLexemePath, paths |-> {}]
      /\ \A i \in 1..n :
          /\ MayAddCross(f[i - 1].cross, q[i]) =>
                f[i] = [cross |-> AddCrossLexeme(f[i - 1].cross, q[i]), paths |-> f[i - 1].paths]
          /\ ~MayAddCross(f[i - 1].cross, q[i]) =>
                f[i] = [cross |-> AddCrossLexeme(newLexemePath, q[i]),
                        paths |-> f[i - 1].paths \cup {f[i - 1].cross}]
  BY <1>1, <1>3 DEF IsGathering
<1>6. /\ g[0] = [cross |-> newLexemePath, paths |-> {}]
      /\ \A i \in 1..n :
          /\ MayAddCross(g[i - 1].cross, q[i]) =>
                g[i] = [cross |-> AddCrossLexeme(g[i - 1].cross, q[i]), paths |-> g[i - 1].paths]
          /\ ~MayAddCross(g[i - 1].cross, q[i]) =>
                g[i] = [cross |-> AddCrossLexeme(newLexemePath, q[i]),
                        paths |-> g[i - 1].paths \cup {Resolved(g[i - 1].cross, TRUE)}]
  BY <1>2 DEF IsGathering
<1> DEFINE Same(i) == /\ g[i].cross = f[i].cross
                      /\ g[i].paths = {Resolved(p, TRUE) : p \in f[i].paths}
           G == {i \in 0..n : Same(i)}
<1>7. 0 \in G
  <2>1. /\ f[0].cross = newLexemePath /\ f[0].paths = {}
        /\ g[0].cross = newLexemePath /\ g[0].paths = {}
    BY <1>5, <1>6
  <2>2. Same(0)
    BY <2>1
  <2> HIDE DEF Same, n
  <2> QED
    BY <1>4, <2>2
<1>8. ASSUME NEW m \in 0..(n - 1), m \in G PROVE m + 1 \in G
  <2> HIDE DEF n
  <2>1. m + 1 \in 1..n /\ (m + 1) - 1 = m /\ m + 1 \in 0..n
    BY <1>4
  <2>2. Same(m)
    BY <1>8
  <2>3. CASE MayAddCross(f[m].cross, q[m + 1])
    <3>1. f[m + 1] = [cross |-> AddCrossLexeme(f[m].cross, q[m + 1]), paths |-> f[m].paths]
      BY <1>5, <2>1, <2>3
    <3>2. g[m + 1] = [cross |-> AddCrossLexeme(g[m].cross, q[m + 1]), paths |-> g[m].paths]
      BY <1>6, <2>1, <2>2, <2>3
    <3>3. /\ f[m + 1].cross = AddCrossLexeme(f[m].cross, q[m + 1]) /\ f[m + 1].paths = f[m].paths
          /\ g[m + 1].cross = AddCrossLexeme(g[m].cross, q[m + 1]) /\ g[m + 1].paths = g[m].paths
      BY <3>1, <3>2
    <3>4. Same(m + 1)
      BY <2>2, <3>3
    <3> HIDE DEF Same
    <3> QED
      BY <2>1, <3>4
  <2>4. CASE ~MayAddCross(f[m].cross, q[m + 1])
    <3>1. f[m + 1] = [cross |-> AddCrossLexeme(newLexemePath, q[m + 1]),
                      paths |-> f[m].paths \cup {f[m].cross}]
      BY <1>5, <2>1, <2>4
    <3>2. g[m + 1] = [cross |-> AddCrossLexeme(newLexemePath, q[m + 1]),
                      paths |-> g[m].paths \cup {Resolved(g[m].cross, TRUE)}]
      BY <1>6, <2>1, <2>2, <2>4
    <3>3. /\ f[m + 1].cross = AddCrossLexeme(newLexemePath, q[m + 1])
          /\ g[m + 1].cross = AddCrossLexeme(newLexemePath, q[m + 1])
          /\ f[m + 1].paths = f[m].paths \cup {f[m].cross}
          /\ g[m + 1].paths = g[m].paths \cup {Resolved(f[m].cross, TRUE)}
      BY <2>2, <3>1, <3>2
    <3>4. g[m + 1].paths = {Resolved(p, TRUE) : p \in f[m + 1].paths}
      BY <2>2, <3>3
    <3>5. Same(m + 1)
      BY <3>3, <3>4
    <3> HIDE DEF Same
    <3> QED
      BY <2>1, <3>5
  <2> QED
    BY <2>3, <2>4
<1> HIDE DEF G, n
<1>9. \A i \in 0..n : i \in G
  BY <1>4, <1>7, <1>8, UpTo
<1>10. Same(n)
  <2> HIDE DEF Same
  <2>1. n \in G
    BY <1>4, <1>9
  <2> QED
    BY <2>1 DEF G
<1>11. Process(q, FALSE) = f[n].paths \cup {f[n].cross}
  BY <1>1, <1>3
<1> QED
  BY <1>2, <1>10, <1>11

Follows(p, r) == p.pathEnd <= r.pathBegin

(* The stretches that the first i candidates make.                         *)
AreStretches(paths, q, i) ==
    /\ \A p \in paths : /\ IsStretch(p)
                        /\ \A l \in ToSet(p.lexemes) : \E j \in 1..i : l = q[j]
    /\ \A p, r \in paths : p = r \/ Follows(p, r) \/ Follows(r, p)
    /\ \A j \in 1..i : \E p \in paths : q[j] \in ToSet(p.lexemes)

(* A candidate that crosses the open stretch joins it; one that does not   *)
(* files it and opens the next behind it.                                  *)
LEMMA StretchesGrow ==
  ASSUME NEW q \in Seq(Lexeme), Ordered(q), NEW m \in 1..(Len(q) - 1),
         NEW paths, NEW cross, AreStretches(paths \cup {cross}, q, m),
         \A p \in paths : Follows(p, cross)
  PROVE  /\ MayAddCross(cross, q[m + 1]) =>
               /\ AreStretches(paths \cup {AddCrossLexeme(cross, q[m + 1])}, q, m + 1)
               /\ \A p \in paths : Follows(p, AddCrossLexeme(cross, q[m + 1]))
         /\ ~MayAddCross(cross, q[m + 1]) =>
               /\ AreStretches((paths \cup {cross}) \cup {AddCrossLexeme(newLexemePath, q[m + 1])}, q, m + 1)
               /\ \A p \in paths \cup {cross} : Follows(p, AddCrossLexeme(newLexemePath, q[m + 1]))
<1> DEFINE l == q[m + 1]
<1>1. /\ l \in Lexeme /\ m + 1 \in DOMAIN q /\ m \in Nat
      /\ \A j \in 1..m : j \in DOMAIN q /\ j < m + 1 /\ j \in 1..(m + 1)
      /\ \A j \in 1..(m + 1) : j \in 1..m \/ j = m + 1
      /\ m + 1 \in 1..(m + 1)
  OBVIOUS
<1>2. \A j \in 1..m : Before(q[j], l)
  BY <1>1 DEF Ordered
<1> HIDE DEF l
<1>3. /\ \A p \in paths \cup {cross} : /\ IsStretch(p)
                                       /\ \A x \in ToSet(p.lexemes) : \E j \in 1..m : x = q[j]
      /\ \A p, r \in paths \cup {cross} : p = r \/ Follows(p, r) \/ Follows(r, p)
      /\ \A j \in 1..m : \E p \in paths \cup {cross} : q[j] \in ToSet(p.lexemes)
  BY DEF AreStretches
<1>4. \A x \in ToSet(cross.lexemes) : Before(x, l)
  BY <1>2, <1>3
<1>5. ASSUME MayAddCross(cross, l)
      PROVE  /\ AreStretches(paths \cup {AddCrossLexeme(cross, l)}, q, m + 1)
             /\ \A p \in paths : Follows(p, AddCrossLexeme(cross, l))
  <2> DEFINE r == AddCrossLexeme(cross, l)
  <2>1. /\ IsStretch(r) /\ ToSet(r.lexemes) = ToSet(cross.lexemes) \cup {l}
        /\ r.pathBegin = cross.pathBegin
    BY <1>1, <1>3, <1>4, StretchGrows
  <2> HIDE DEF r
  <2>2. \A p \in paths : Follows(p, r)
    BY <2>1 DEF Follows
  <2>3. \A p \in paths \cup {r} : /\ IsStretch(p)
                                  /\ \A x \in ToSet(p.lexemes) : \E j \in 1..(m + 1) : x = q[j]
    <3>1. ASSUME NEW p \in paths \cup {cross}, NEW x \in ToSet(p.lexemes) PROVE \E j \in 1..(m + 1) : x = q[j]
      BY <1>1, <1>3
    <3>2. \E j \in 1..(m + 1) : l = q[j]
      BY <1>1 DEF l
    <3> QED
      BY <1>3, <2>1, <3>1, <3>2
  <2>4. \A p, s \in paths \cup {r} : p = s \/ Follows(p, s) \/ Follows(s, p)
    BY <1>3, <2>2
  <2>5. ASSUME NEW j \in 1..(m + 1) PROVE \E p \in paths \cup {r} : q[j] \in ToSet(p.lexemes)
    <3>1. CASE j \in 1..m
      BY <1>3, <2>1, <3>1
    <3>2. CASE j = m + 1
      BY <2>1, <3>2 DEF l
    <3> QED
      BY <1>1, <3>1, <3>2
  <2> QED
    BY <2>2, <2>3, <2>4, <2>5 DEF AreStretches, r
<1>6. ASSUME ~MayAddCross(cross, l)
      PROVE  /\ AreStretches((paths \cup {cross}) \cup {AddCrossLexeme(newLexemePath, l)}, q, m + 1)
             /\ \A p \in paths \cup {cross} : Follows(p, AddCrossLexeme(newLexemePath, l))
  <2> DEFINE r == AddCrossLexeme(newLexemePath, l)
             olds == paths \cup {cross}
  <2>1. r = PathOf(l)
    BY DEF AddCrossLexeme, IsEmpty, newLexemePath
  <2> HIDE DEF r
  <2>2. IsStretch(r) /\ ToSet(r.lexemes) = {l} /\ r.pathBegin = l.begin
    BY <1>1, <2>1, AloneIsAStretch
  <2>3. /\ cross.pathBegin \in Nat /\ cross.pathEnd \in Nat
        /\ cross.lexemes[1] \in ToSet(cross.lexemes) /\ cross.lexemes[1] \in Lexeme
        /\ cross.pathBegin = cross.lexemes[1].begin /\ End(cross.lexemes[1]) <= cross.pathEnd
    BY <1>3, StretchFacts DEF IsStretch
  <2>4. Before(cross.lexemes[1], l)
    BY <1>4, <2>3
  <2> DEFINE k == cross.lexemes[1]
  <2>11. /\ l.begin \in Nat /\ l.length \in Nat \ {0}
         /\ k.begin \in Nat /\ k.length \in Nat \ {0} /\ End(k) = k.begin + k.length
    BY <1>1, <2>3, OrderFacts
  <2>12. k.begin <= l.begin
    BY <2>4, <2>11 DEF Before
  <2>5. cross.pathBegin <= l.begin /\ cross.pathBegin <= cross.pathEnd
    <3> HIDE DEF k
    <3>1. cross.pathBegin = k.begin /\ End(k) <= cross.pathEnd
      BY <2>3 DEF k
    <3> QED
      BY <2>3, <2>11, <2>12, <3>1
  <2>13. ~CheckCross(cross, l)
    BY <1>6 DEF MayAddCross
  <2>6. cross.pathEnd <= l.begin
    <3> HIDE DEF k
    <3> QED
      BY <2>3, <2>5, <2>11, <2>13 DEF CheckCross
  <2>7. \A p \in olds : Follows(p, r)
    <3>1. Follows(cross, r)
      BY <2>2, <2>6 DEF Follows
    <3>2. ASSUME NEW p \in paths PROVE Follows(p, r)
      <4>1. p.pathEnd <= cross.pathBegin /\ p.pathEnd \in Nat
        BY <1>3, StretchFacts DEF Follows
      <4>2. l.begin \in Nat
        BY <1>1, OrderFacts
      <4> QED
        BY <2>2, <2>3, <2>5, <4>1, <4>2 DEF Follows
    <3> QED
      BY <3>1, <3>2
  <2> HIDE DEF olds
  <2>8. \A p \in olds \cup {r} : /\ IsStretch(p)
                                 /\ \A x \in ToSet(p.lexemes) : \E j \in 1..(m + 1) : x = q[j]
    <3>1. ASSUME NEW p \in olds, NEW x \in ToSet(p.lexemes) PROVE \E j \in 1..(m + 1) : x = q[j]
      BY <1>1, <1>3 DEF olds
    <3>2. \E j \in 1..(m + 1) : l = q[j]
      BY <1>1 DEF l
    <3> QED
      BY <1>3, <2>2, <3>1, <3>2 DEF olds
  <2>9. \A p, s \in olds \cup {r} : p = s \/ Follows(p, s) \/ Follows(s, p)
    BY <1>3, <2>7 DEF olds
  <2>10. ASSUME NEW j \in 1..(m + 1) PROVE \E p \in olds \cup {r} : q[j] \in ToSet(p.lexemes)
    <3>1. CASE j \in 1..m
      BY <1>3, <3>1 DEF olds
    <3>2. CASE j = m + 1
      BY <2>2, <3>2 DEF l
    <3> QED
      BY <1>1, <3>1, <3>2
  <2> QED
    BY <2>7, <2>8, <2>9, <2>10 DEF AreStretches, r, olds
<1> QED
  BY <1>5, <1>6 DEF l

(* The stretches of max-word mode hold the candidates and are apart.       *)
LEMMA ProcessFacts ==
  ASSUME NEW q \in Seq(Lexeme), Ordered(q)
  PROVE  IF q = <<>> THEN Process(q, FALSE) = {newLexemePath}
         ELSE AreStretches(Process(q, FALSE), q, Len(q))
<1> DEFINE n == Len(q)
<1>1. PICK f : IsGathering(f, q, FALSE) /\ Process(q, FALSE) = f[n].paths \cup {Resolved(f[n].cross, FALSE)}
  BY ProcessSteps
<1>2. \A p : Resolved(p, FALSE) = p
  BY DEF Resolved
<1>3. n \in Nat /\ Process(q, FALSE) = f[n].paths \cup {f[n].cross}
  <2>1. n \in Nat
    OBVIOUS
  <2> HIDE DEF n
  <2> QED
    BY <1>1, <1>2, <2>1
<1>4. /\ f[0] = [cross |-> newLexemePath, paths |-> {}]
      /\ \A i \in 1..n :
          /\ MayAddCross(f[i - 1].cross, q[i]) =>
                f[i] = [cross |-> AddCrossLexeme(f[i - 1].cross, q[i]), paths |-> f[i - 1].paths]
          /\ ~MayAddCross(f[i - 1].cross, q[i]) =>
                f[i] = [cross |-> AddCrossLexeme(newLexemePath, q[i]),
                        paths |-> f[i - 1].paths \cup {f[i - 1].cross}]
  BY <1>1, <1>2 DEF IsGathering
<1>5. CASE q = <<>>
  <2>1. n = 0
    BY <1>5
  <2> HIDE DEF n
  <2>2. f[n].paths = {} /\ f[n].cross = newLexemePath
    BY <1>4, <2>1
  <2> QED
    BY <1>3, <1>5, <2>2
<1>6. CASE q # <<>>
  <2>1. n \in Nat \ {0}
    BY <1>6
  <2> DEFINE Good(i) == /\ AreStretches(f[i].paths \cup {f[i].cross}, q, i)
                        /\ \A p \in f[i].paths : Follows(p, f[i].cross)
             G == {i \in 0..n : i # 0 => Good(i)}
  <2>2. 0 \in G
    BY <1>3
  <2>3. ASSUME NEW m \in 0..(n - 1), m \in G PROVE m + 1 \in G
    <3>1. m + 1 \in 1..n /\ (m + 1) - 1 = m /\ m + 1 \in 0..n
      BY <1>3
    <3>2. CASE m = 0
      <4> DEFINE r == AddCrossLexeme(newLexemePath, q[1])
      <4>1. MayAddCross(newLexemePath, q[1]) /\ r = PathOf(q[1])
        BY DEF MayAddCross, AddCrossLexeme, IsEmpty, newLexemePath
      <4>2. q[1] \in Lexeme /\ 1 \in 1..n
        BY <2>1
      <4> HIDE DEF r, n
      <4>3. f[1] = [cross |-> r, paths |-> {}]
        <5>1. f[1 - 1].cross = newLexemePath /\ f[1 - 1].paths = {}
          BY <1>4
        <5> QED
          BY <1>4, <4>1, <4>2, <5>1 DEF r
      <4>4. IsStretch(r) /\ ToSet(r.lexemes) = {q[1]}
        BY <4>1, <4>2, AloneIsAStretch
      <4>5. f[1].paths = {} /\ f[1].cross = r
        BY <4>3
      <4>6. AreStretches({r}, q, 1)
        BY <4>4 DEF AreStretches
      <4>7. Good(1)
        BY <4>5, <4>6
      <4> QED
        BY <3>1, <3>2, <4>7
    <3>3. CASE m # 0
      <4>1. m \in 1..(Len(q) - 1) /\ Good(m)
        BY <2>3, <3>3
      <4>2. CASE MayAddCross(f[m].cross, q[m + 1])
        <5>1. f[m + 1] = [cross |-> AddCrossLexeme(f[m].cross, q[m + 1]), paths |-> f[m].paths]
          BY <1>4, <3>1, <4>2
        <5>2. /\ AreStretches(f[m].paths \cup {AddCrossLexeme(f[m].cross, q[m + 1])}, q, m + 1)
              /\ \A p \in f[m].paths : Follows(p, AddCrossLexeme(f[m].cross, q[m + 1]))
          BY <4>1, <4>2, StretchesGrow
        <5>3. Good(m + 1)
          BY <5>1, <5>2
        <5> QED
          BY <3>1, <5>3
      <4>3. CASE ~MayAddCross(f[m].cross, q[m + 1])
        <5>1. f[m + 1] = [cross |-> AddCrossLexeme(newLexemePath, q[m + 1]),
                          paths |-> f[m].paths \cup {f[m].cross}]
          BY <1>4, <3>1, <4>3
        <5>2. /\ AreStretches((f[m].paths \cup {f[m].cross}) \cup {AddCrossLexeme(newLexemePath, q[m + 1])}, q, m + 1)
              /\ \A p \in f[m].paths \cup {f[m].cross} : Follows(p, AddCrossLexeme(newLexemePath, q[m + 1]))
          BY <4>1, <4>3, StretchesGrow
        <5>3. Good(m + 1)
          BY <5>1, <5>2
        <5> QED
          BY <3>1, <5>3
      <4> QED
        BY <4>2, <4>3
    <3> QED
      BY <3>2, <3>3
  <2> HIDE DEF G, n
  <2>4. \A i \in 0..n : i \in G
    BY <1>3, <2>2, <2>3, UpTo
  <2>5. Good(n)
    BY <2>1, <2>4 DEF G
  <2>6. AreStretches(Process(q, FALSE), q, n)
    BY <1>3, <2>5
  <2> QED
    BY <1>6, <2>6 DEF n
<1> QED
  BY <1>5, <1>6
=============================================================================
