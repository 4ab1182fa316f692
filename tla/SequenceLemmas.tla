--------------------------- MODULE SequenceLemmas ---------------------------
(***************************************************************************)
(* Lemmas about sequences that the proofs of the components share, and the *)
(* induction on natural numbers that they rest on.                         *)
(***************************************************************************)
EXTENDS Selection, SequencesExt, SequenceTheorems, FiniteSetTheorems,
        FunctionTheorems, TLAPS

\* Induction, with a set in place of a predicate: the intervals 0..n are finite sets,
\* which strict inclusion orders well, so there is no smallest one that is left out.
LEMMA SetInduction ==
  ASSUME NEW T, 0 \in T, \A n \in Nat : n \in T => n + 1 \in T
  PROVE  Nat \subseteq T
<1> DEFINE U == Nat \ T
           W == {0..n : n \in U}
           R == StrictSubsetOrdering(Nat)
<1>1. SUFFICES ASSUME U # {} PROVE FALSE
  OBVIOUS
<1>2. ASSUME NEW n \in Nat PROVE 0..n \in FiniteSubsetsOf(Nat)
  BY FS_Interval DEF FiniteSubsetsOf
<1>3. W \subseteq FiniteSubsetsOf(Nat) /\ W # {}
  BY <1>1, <1>2
<1>4. IsWellFoundedOn(R, FiniteSubsetsOf(Nat))
  BY FS_StrictSubsetOrderingWellFounded
<1>5. PICK s \in W : \A y \in W : <<y, s>> \notin R
  <2> HIDE DEF R, W
  <2> QED
    BY <1>3, <1>4, WFMin
<1>6. PICK n \in U : s = 0..n
  OBVIOUS
<1>7. n \in Nat /\ n - 1 \in Nat /\ n - 1 \in U
  OBVIOUS
<1>8. 0..(n - 1) \in W /\ 0..(n - 1) \subseteq s /\ 0..(n - 1) # s
  BY <1>6, <1>7
<1>9. <<0..(n - 1), s>> \in R
  BY <1>8, <1>6, <1>7 DEF StrictSubsetOrdering
<1> QED
  BY <1>5, <1>8, <1>9
-----------------------------------------------------------------------------
(* Keep *)

\* The function inside Keep, up to any position, is what its equation says.
LEMMA KeepEquation ==
  ASSUME NEW q, NEW kept, Len(q) \in Nat
  PROVE  \E f : /\ f[0] = <<>>
                /\ \A n \in Nat : n < Len(q) =>
                     f[n + 1] = IF n + 1 \in kept THEN Append(f[n], q[n + 1]) ELSE f[n]
                /\ Keep(q, kept) = f[Len(q)]
<1> DEFINE Is(f, n) == f = [i \in 0..n |->
                              IF i = 0 THEN <<>>
                              ELSE IF i \in kept THEN Append(f[i - 1], q[i])
                              ELSE f[i - 1]]
           T == {n \in Nat : \E f : Is(f, n)}
<1>1. 0 \in T
  <2>1. Is([i \in 0..0 |-> <<>>], 0)
    OBVIOUS
  <2> QED
    BY <2>1
<1>2. ASSUME NEW n \in Nat, n \in T PROVE n + 1 \in T
  <2>1. PICK f : Is(f, n)
    BY <1>2
  <2> DEFINE e == IF n + 1 \in kept THEN Append(f[n], q[n + 1]) ELSE f[n]
             g == [i \in 0..(n + 1) |-> IF i = n + 1 THEN e ELSE f[i]]
  <2>2. ASSUME NEW i \in 0..(n + 1)
        PROVE  g[i] = IF i = 0 THEN <<>>
                      ELSE IF i \in kept THEN Append(g[i - 1], q[i])
                      ELSE g[i - 1]
    <3>1. CASE i = n + 1
      BY <3>1
    <3>2. CASE i \in 0..n
      <4>1. g[i] = f[i] /\ (i # 0 => g[i - 1] = f[i - 1])
        BY <3>2
      <4>2. f[i] = IF i = 0 THEN <<>>
                   ELSE IF i \in kept THEN Append(f[i - 1], q[i])
                   ELSE f[i - 1]
        BY <2>1, <3>2
      <4> QED
        BY <4>1, <4>2
    <3> QED
      BY <3>1, <3>2
  <2>3. Is(g, n + 1)
    BY <2>2
  <2>4. \E h : Is(h, n + 1)
    <3> HIDE DEF g, Is
    <3> QED
      BY <2>3
  <2> HIDE DEF Is
  <2> QED
    BY <2>4
<1>3. Len(q) \in T
  <2> HIDE DEF T
  <2> QED
    BY <1>1, <1>2, SetInduction
<1>4. PICK f : Is(f, Len(q))
  BY <1>3
<1> DEFINE g == CHOOSE h : Is(h, Len(q))
<1>5. Is(g, Len(q))
  BY <1>4
<1>6. Keep(q, kept) = g[Len(q)]
  BY DEF Keep
<1> HIDE DEF g
<1>7. g[0] = <<>>
  BY <1>5
<1>8. ASSUME NEW n \in Nat, n < Len(q)
      PROVE  g[n + 1] = IF n + 1 \in kept THEN Append(g[n], q[n + 1]) ELSE g[n]
  <2>1. n + 1 \in 0..Len(q) /\ n + 1 # 0 /\ (n + 1) - 1 = n
    BY <1>8
  <2> QED
    BY <1>5, <2>1
<1> QED
  BY <1>6, <1>7, <1>8

\* Keep keeps the elements of the kept positions, each once and in their order: place
\* says where each of them was.
LEMMA KeepProperties ==
  ASSUME NEW S, NEW q \in Seq(S), NEW kept
  PROVE  /\ Keep(q, kept) \in Seq(S)
         /\ \E place \in [1..Len(Keep(q, kept)) -> 1..Len(q)] :
              /\ \A k \in 1..Len(Keep(q, kept)) :
                   place[k] \in kept /\ Keep(q, kept)[k] = q[place[k]]
              /\ \A j, k \in 1..Len(Keep(q, kept)) : j < k => place[j] < place[k]
              /\ \A i \in 1..Len(q) : i \in kept =>
                   \E k \in 1..Len(Keep(q, kept)) : place[k] = i
<1>1. Len(q) \in Nat /\ q \in [1..Len(q) -> S]
  BY LenProperties
<1>2. PICK f : /\ f[0] = <<>>
               /\ \A n \in Nat : n < Len(q) =>
                    f[n + 1] = IF n + 1 \in kept THEN Append(f[n], q[n + 1]) ELSE f[n]
               /\ Keep(q, kept) = f[Len(q)]
  BY <1>1, KeepEquation
<1> DEFINE Placed(place, s, n) ==
             /\ \A k \in 1..Len(s) : place[k] \in kept /\ s[k] = q[place[k]]
             /\ \A j, k \in 1..Len(s) : j < k => place[j] < place[k]
             /\ \A i \in 1..n : i \in kept => \E k \in 1..Len(s) : place[k] = i
           Good(s, n) == /\ s \in Seq(S)
                         /\ \E place \in [1..Len(s) -> 1..n] : Placed(place, s, n)
           T == {n \in Nat : n <= Len(q) => Good(f[n], n)}
<1>3. 0 \in T
  <2>1. f[0] = <<>> /\ <<>> \in Seq(S) /\ Len(<<>>) = 0
    BY <1>1, <1>2
  <2>2. Placed([k \in 1..0 |-> 0], <<>>, 0)
    BY <2>1
  <2>3. [k \in 1..0 |-> 0] \in [1..0 -> 1..0]
    OBVIOUS
  <2>4. Good(<<>>, 0)
    <3> HIDE DEF Placed
    <3> QED
      BY <2>1, <2>2, <2>3
  <2> HIDE DEF Good
  <2> QED
    BY <2>1, <2>4
<1>4. ASSUME NEW n \in Nat, n \in T, n + 1 <= Len(q) PROVE Good(f[n + 1], n + 1)
  <2> DEFINE s == f[n]
  <2>1. Good(s, n)
    <3> HIDE DEF Good
    <3> QED
      BY <1>1, <1>4
  <2> HIDE DEF s
  <2>2. PICK place \in [1..Len(s) -> 1..n] : Placed(place, s, n)
    BY <2>1
  <2>3. f[n + 1] = IF n + 1 \in kept THEN Append(s, q[n + 1]) ELSE s
    <3>1. n < Len(q)
      BY <1>1, <1>4
    <3> QED
      BY <1>2, <3>1 DEF s
  <2>4. CASE n + 1 \notin kept
    <3>1. place \in [1..Len(s) -> 1..(n + 1)]
      BY <2>2
    <3>2. Placed(place, s, n + 1)
      BY <2>2, <2>4
    <3> HIDE DEF Placed
    <3> QED
      BY <2>1, <2>3, <2>4, <3>1, <3>2
  <2>5. CASE n + 1 \in kept
    <3> DEFINE t == Append(s, q[n + 1])
               more == [k \in 1..(Len(s) + 1) |-> IF k = Len(s) + 1 THEN n + 1 ELSE place[k]]
    <3>1. /\ q[n + 1] \in S /\ t \in Seq(S) /\ Len(t) = Len(s) + 1 /\ Len(s) \in Nat
          /\ \A k \in 1..Len(s) : t[k] = s[k]
          /\ t[Len(s) + 1] = q[n + 1]
      BY <1>1, <1>4, <2>1, AppendProperties, LenProperties
    <3>2. more \in [1..Len(t) -> 1..(n + 1)]
      BY <2>2, <3>1
    <3> HIDE DEF t
    <3>3. \A k \in 1..Len(t) : more[k] \in kept /\ t[k] = q[more[k]]
      BY <2>2, <2>5, <3>1
    <3>4. ASSUME NEW j \in 1..Len(t), NEW k \in 1..Len(t), j < k PROVE more[j] < more[k]
      <4>1. j \in 1..Len(s) /\ more[j] = place[j] /\ place[j] \in 1..n
        BY <2>2, <3>1, <3>4
      <4>2. CASE k = Len(s) + 1
        BY <4>1, <4>2
      <4>3. CASE k \in 1..Len(s)
        BY <2>2, <3>4, <4>1, <4>3
      <4> QED
        BY <3>1, <4>2, <4>3
    <3>5. ASSUME NEW i \in 1..(n + 1), i \in kept PROVE \E k \in 1..Len(t) : more[k] = i
      <4>1. CASE i = n + 1
        BY <3>1, <4>1
      <4>2. CASE i \in 1..n
        <5>1. PICK k \in 1..Len(s) : place[k] = i
          BY <2>2, <3>5, <4>2
        <5>2. k \in 1..Len(t) /\ more[k] = i
          BY <3>1, <5>1
        <5> HIDE DEF more
        <5> QED
          BY <5>2
      <4> QED
        BY <4>1, <4>2
    <3>6. Placed(more, t, n + 1)
      BY <3>3, <3>4, <3>5
    <3>7. f[n + 1] = t
      BY <2>3, <2>5 DEF t
    <3> HIDE DEF Placed, more
    <3> QED
      BY <3>1, <3>2, <3>6, <3>7
  <2> QED
    BY <2>4, <2>5
<1>5. Len(q) \in T
  <2>1. ASSUME NEW n \in Nat, n \in T PROVE n + 1 \in T
    <3> HIDE DEF Good
    <3> QED
      BY <1>4, <2>1
  <2> HIDE DEF T
  <2> QED
    BY <1>1, <1>3, <2>1, SetInduction
<1> QED
  BY <1>1, <1>2, <1>5

\* A sequence whose elements all lie in a set is a sequence over it.
LEMMA SeqInside ==
  ASSUME NEW S, NEW q \in Seq(S), NEW P, \A i \in 1..Len(q) : q[i] \in P
  PROVE  q \in Seq(P)
<1>1. Len(q) \in Nat /\ q \in [1..Len(q) -> P]
  BY LenProperties
<1> QED
  BY <1>1, SeqDef

\* What Keep keeps of a sequence that has grown by an element is what it kept, and the
\* new element if that is kept.
LEMMA KeepAppend ==
  ASSUME NEW S, NEW q \in Seq(S), NEW x \in S, NEW before, NEW after,
         \A i \in 1..Len(q) : i \in before <=> i \in after
  PROVE  Keep(Append(q, x), after) =
           IF Len(q) + 1 \in after THEN Append(Keep(q, before), x) ELSE Keep(q, before)
<1> DEFINE r == Append(q, x)
<1>1. /\ Len(q) \in Nat /\ Len(r) = Len(q) + 1 /\ r[Len(q) + 1] = x
      /\ \A i \in 1..Len(q) : r[i] = q[i]
  BY LenProperties, AppendProperties
<1> HIDE DEF r
<1>2. PICK f : /\ f[0] = <<>>
               /\ \A n \in Nat : n < Len(q) =>
                    f[n + 1] = IF n + 1 \in before THEN Append(f[n], q[n + 1]) ELSE f[n]
               /\ Keep(q, before) = f[Len(q)]
  BY <1>1, KeepEquation
<1>3. PICK g : /\ g[0] = <<>>
               /\ \A n \in Nat : n < Len(r) =>
                    g[n + 1] = IF n + 1 \in after THEN Append(g[n], r[n + 1]) ELSE g[n]
               /\ Keep(r, after) = g[Len(r)]
  BY <1>1, KeepEquation
<1> DEFINE T == {n \in Nat : n <= Len(q) => f[n] = g[n]}
<1>4. 0 \in T
  BY <1>1, <1>2, <1>3
<1>5. ASSUME NEW n \in Nat, n \in T PROVE n + 1 \in T
  <2>1. SUFFICES ASSUME n + 1 <= Len(q) PROVE f[n + 1] = g[n + 1]
    OBVIOUS
  <2>2. n < Len(q) /\ n < Len(r) /\ n + 1 \in 1..Len(q)
    BY <1>1, <2>1
  <2>3. f[n] = g[n] /\ q[n + 1] = r[n + 1] /\ (n + 1 \in before <=> n + 1 \in after)
    BY <1>1, <1>5, <2>2
  <2>4. f[n + 1] = IF n + 1 \in before THEN Append(f[n], q[n + 1]) ELSE f[n]
    BY <1>2, <2>2
  <2>5. g[n + 1] = IF n + 1 \in after THEN Append(g[n], r[n + 1]) ELSE g[n]
    BY <1>3, <2>2
  <2> QED
    BY <2>3, <2>4, <2>5, Zenon
<1>6. Len(q) \in T
  <2> HIDE DEF T
  <2> QED
    BY <1>1, <1>4, <1>5, SetInduction
<1>7. g[Len(q) + 1] = IF Len(q) + 1 \in after THEN Append(g[Len(q)], r[Len(q) + 1])
                      ELSE g[Len(q)]
  BY <1>1, <1>3
<1> QED
  BY <1>1, <1>2, <1>3, <1>6, <1>7 DEF r

\* A selection whose elements all lie in a set is a sequence over it.
LEMMA KeepInside ==
  ASSUME NEW S, NEW q \in Seq(S), NEW kept, NEW P,
         \A i \in 1..Len(q) : i \in kept => q[i] \in P
  PROVE  Keep(q, kept) \in Seq(P)
<1> DEFINE k == Keep(q, kept)
<1>1. k \in Seq(S)
  BY KeepProperties
<1>2. PICK place \in [1..Len(k) -> 1..Len(q)] :
        \A i \in 1..Len(k) : place[i] \in kept /\ k[i] = q[place[i]]
  BY KeepProperties
<1> HIDE DEF k
<1>3. \A i \in 1..Len(k) : k[i] \in P
  BY <1>2
<1> QED
  BY <1>1, <1>3, SeqInside DEF k
-----------------------------------------------------------------------------
(* Least elements, and sequences with an element taken out *)

\* Min of the community modules is the least element of a set of naturals.
LEMMA MinIsLeast ==
  ASSUME NEW S, S \subseteq Nat, S # {}
  PROVE  Min(S) \in S /\ \A y \in S : Min(S) <= y
<1>1. \E x \in S : \A y \in S : x <= y
  <2> DEFINE T == {n \in Nat : \A m \in S : n <= m}
  <2>1. PICK s \in S : TRUE
    OBVIOUS
  <2>2. 0 \in T /\ s + 1 \notin T
    BY <2>1
  <2>3. PICK n \in Nat : n \in T /\ n + 1 \notin T
    <3>1. ~(\A n \in Nat : n \in T => n + 1 \in T)
      <4> HIDE DEF T
      <4> QED
        BY <2>1, <2>2, SetInduction
    <3> QED
      BY <3>1
  <2>4. PICK m \in S : ~(n + 1 <= m)
    BY <2>3
  <2>5. n <= m /\ m = n
    BY <2>3, <2>4
  <2> QED
    BY <2>3, <2>5
<1> QED
  BY <1>1 DEF Min

LEMMA MaxOfTwo ==
  ASSUME NEW a \in Nat, NEW b \in Nat
  PROVE  Max({a, b}) = IF a >= b THEN a ELSE b
<1> DEFINE m == IF a >= b THEN a ELSE b
<1>1. m \in {a, b} /\ \A y \in {a, b} : m >= y
  OBVIOUS
<1>2. \A x \in {a, b} : (\A y \in {a, b} : x >= y) => x = m
  OBVIOUS
<1> HIDE DEF m
<1>3. Max({a, b}) \in {a, b} /\ \A y \in {a, b} : Max({a, b}) >= y
  BY <1>1 DEF Max
<1> QED
  BY <1>2, <1>3 DEF m

\* RemoveAt takes one element out and moves those behind it up.
LEMMA RemoveAtProperties ==
  ASSUME NEW S, NEW s \in Seq(S), NEW i \in 1..Len(s)
  PROVE  /\ RemoveAt(s, i) \in Seq(S)
         /\ Len(RemoveAt(s, i)) = Len(s) - 1
         /\ \A j \in 1..(Len(s) - 1) :
              RemoveAt(s, i)[j] = IF j < i THEN s[j] ELSE s[j + 1]
<1> DEFINE a == SubSeq(s, 1, i - 1)
           b == SubSeq(s, i + 1, Len(s))
<1>1. Len(s) \in Nat /\ \A j \in 1..Len(s) : s[j] \in S
  BY LenProperties, ElementOfSeq
<1>2. /\ a \in Seq(S) /\ Len(a) = i - 1
      /\ \A j \in 1..(i - 1) : a[j] = s[j]
  <2>1. 1 \in Int /\ i - 1 \in Int /\ \A j \in 1..(i - 1) : s[j] \in S
    BY <1>1
  <2>2. /\ a \in Seq(S)
        /\ Len(a) = IF 1 <= i - 1 THEN (i - 1) - 1 + 1 ELSE 0
        /\ \A j \in 1..((i - 1) - 1 + 1) : a[j] = s[1 + j - 1]
    BY <2>1, SubSeqProperties
  <2> QED
    BY <1>1, <2>2
<1>3. /\ b \in Seq(S) /\ Len(b) = Len(s) - i
      /\ \A j \in 1..(Len(s) - i) : b[j] = s[i + j]
  <2>1. i + 1 \in Int /\ Len(s) \in Int /\ \A j \in (i + 1)..Len(s) : s[j] \in S
    BY <1>1
  <2>2. /\ b \in Seq(S)
        /\ Len(b) = IF i + 1 <= Len(s) THEN Len(s) - (i + 1) + 1 ELSE 0
        /\ \A j \in 1..(Len(s) - (i + 1) + 1) : b[j] = s[(i + 1) + j - 1]
    BY <2>1, SubSeqProperties
  <2> QED
    BY <1>1, <2>2
<1> HIDE DEF a, b
<1>4. /\ a \o b \in Seq(S) /\ Len(a \o b) = Len(a) + Len(b)
      /\ \A j \in 1..(Len(a) + Len(b)) :
           (a \o b)[j] = IF j <= Len(a) THEN a[j] ELSE b[j - Len(a)]
  BY <1>2, <1>3, ConcatProperties
<1>5. RemoveAt(s, i) = a \o b
  BY DEF RemoveAt, a, b
<1>6. ASSUME NEW j \in 1..(Len(s) - 1)
      PROVE  (a \o b)[j] = IF j < i THEN s[j] ELSE s[j + 1]
  <2>1. CASE j < i
    BY <1>1, <1>2, <1>3, <1>4, <2>1
  <2>2. CASE ~(j < i)
    <3>1. j - (i - 1) \in 1..(Len(s) - i) /\ ~(j <= i - 1) /\ i + (j - (i - 1)) = j + 1
      BY <1>1, <2>2
    <3>2. (a \o b)[j] = b[j - (i - 1)]
      BY <1>1, <1>2, <1>3, <1>4, <3>1
    <3> QED
      BY <1>3, <2>2, <3>1, <3>2
  <2> QED
    BY <2>1, <2>2
<1> QED
  BY <1>1, <1>2, <1>3, <1>4, <1>5, <1>6
-----------------------------------------------------------------------------
(* Sequences in an order *)

\* Of any two elements the earlier and the later one are a pair of R.
InPairs(q, R) == \A i, j \in 1..Len(q) : i < j => <<q[i], q[j]>> \in R

\* A selection keeps the order.
LEMMA KeepPairs ==
  ASSUME NEW S, NEW q \in Seq(S), NEW kept, NEW R, InPairs(q, R)
  PROVE  InPairs(Keep(q, kept), R)
<1> DEFINE k == Keep(q, kept)
<1>1. PICK place \in [1..Len(k) -> 1..Len(q)] :
        /\ \A i \in 1..Len(k) : place[i] \in kept /\ k[i] = q[place[i]]
        /\ \A i, j \in 1..Len(k) : i < j => place[i] < place[j]
  BY KeepProperties
<1> HIDE DEF k
<1>2. ASSUME NEW i \in 1..Len(k), NEW j \in 1..Len(k), i < j
      PROVE  <<k[i], k[j]>> \in R
  <2>1. /\ place[i] \in 1..Len(q) /\ place[j] \in 1..Len(q) /\ place[i] < place[j]
        /\ k[i] = q[place[i]] /\ k[j] = q[place[j]]
    BY <1>1, <1>2
  <2> QED
    BY <2>1 DEF InPairs
<1> QED
  BY <1>2 DEF InPairs, k

\* So does the loss of an element.
LEMMA RemoveAtPairs ==
  ASSUME NEW S, NEW q \in Seq(S), NEW v \in 1..Len(q), NEW R, InPairs(q, R)
  PROVE  InPairs(RemoveAt(q, v), R)
<1> DEFINE r == RemoveAt(q, v)
<1>1. /\ Len(q) \in Nat /\ Len(r) = Len(q) - 1
      /\ \A j \in 1..(Len(q) - 1) : r[j] = IF j < v THEN q[j] ELSE q[j + 1]
  BY LenProperties, RemoveAtProperties
<1> HIDE DEF r
<1>2. ASSUME NEW i \in 1..Len(r), NEW j \in 1..Len(r), i < j
      PROVE  <<r[i], r[j]>> \in R
  <2>1. PICK a \in 1..Len(q) : a = IF i < v THEN i ELSE i + 1
    BY <1>1
  <2>2. PICK b \in 1..Len(q) : b = IF j < v THEN j ELSE j + 1
    BY <1>1
  <2>3. a < b /\ r[i] = q[a] /\ r[j] = q[b]
    BY <1>1, <1>2, <2>1, <2>2
  <2> QED
    BY <2>3 DEF InPairs
<1> QED
  BY <1>2 DEF InPairs, r

\* What may come after every element may come at the end.
LEMMA AppendPairs ==
  ASSUME NEW S, NEW q \in Seq(S), NEW e, NEW R, InPairs(q, R), \A x \in S : <<x, e>> \in R
  PROVE  InPairs(Append(q, e), R)
<1> DEFINE r == Append(q, e)
<1>1. PICK T : T = S \cup {e}
  OBVIOUS
<1>2. q \in Seq(T) /\ e \in T
  BY <1>1, SeqMonotonic
<1>3. /\ Len(q) \in Nat /\ Len(r) = Len(q) + 1 /\ r[Len(q) + 1] = e
      /\ \A i \in 1..Len(q) : r[i] = q[i] /\ q[i] \in S
  BY <1>2, LenProperties, AppendProperties, ElementOfSeq
<1> HIDE DEF r
<1>4. ASSUME NEW i \in 1..Len(r), NEW j \in 1..Len(r), i < j
      PROVE  <<r[i], r[j]>> \in R
  <2>1. i \in 1..Len(q) /\ (j \in 1..Len(q) \/ j = Len(q) + 1)
    BY <1>3, <1>4
  <2>2. CASE j \in 1..Len(q)
    BY <1>3, <1>4, <2>1, <2>2 DEF InPairs
  <2>3. CASE j = Len(q) + 1
    BY <1>3, <2>1, <2>3
  <2> QED
    BY <2>1, <2>2, <2>3
<1> QED
  BY <1>4 DEF InPairs, r

\* What may come after and before every element may come in the place of one.
LEMMA ReplacePairs ==
  ASSUME NEW S, NEW q \in Seq(S), NEW m \in 1..Len(q), NEW e, NEW R, InPairs(q, R),
         \A x \in S : <<x, e>> \in R /\ <<e, x>> \in R
  PROVE  InPairs([q EXCEPT ![m] = e], R)
<1>1. PICK r : r = [q EXCEPT ![m] = e]
  OBVIOUS
<1>2. /\ Len(q) \in Nat /\ \A i \in 1..Len(q) : q[i] \in S
  BY LenProperties, ElementOfSeq
<1>3. Len(r) = Len(q) /\ \A i \in 1..Len(q) : r[i] = IF i = m THEN e ELSE q[i]
  <2>1. PICK T : T = S \cup {e}
    OBVIOUS
  <2>2. q \in Seq(T) /\ e \in T
    BY <2>1, SeqMonotonic
  <2>3. Len(r) = Len(q)
    BY <1>1, <2>2, ExceptSeq
  <2>4. q \in [1..Len(q) -> T]
    BY <2>2, LenProperties
  <2> QED
    BY <1>1, <2>3, <2>4
<1>4. ASSUME NEW i \in 1..Len(q), NEW j \in 1..Len(q), i < j
      PROVE  <<r[i], r[j]>> \in R
  <2>1. <<q[i], q[j]>> \in R /\ q[i] \in S /\ q[j] \in S
    BY <1>2, <1>4 DEF InPairs
  <2>2. i # m \/ j # m
    BY <1>4
  <2> QED
    BY <1>3, <2>1, <2>2
<1> QED
  BY <1>1, <1>3, <1>4 DEF InPairs

\* The first comes before all of the rest, which stay as they are.
LEMMA TailPairs ==
  ASSUME NEW S, NEW q \in Seq(S), q # <<>>, NEW R, InPairs(q, R)
  PROVE  /\ InPairs(Tail(q), R)
         /\ \A i \in 1..Len(Tail(q)) : <<Head(q), Tail(q)[i]>> \in R
<1>1. PICK t : t = Tail(q)
  OBVIOUS
<1>2. /\ Len(q) \in Nat /\ Len(q) > 0 /\ Len(t) = Len(q) - 1 /\ Head(q) = q[1]
      /\ \A i \in 1..Len(t) : t[i] = q[i + 1]
  BY <1>1, LenProperties, HeadTailProperties, EmptySeq
<1>3. ASSUME NEW i \in 1..Len(t), NEW j \in 1..Len(t), i < j
      PROVE  <<t[i], t[j]>> \in R
  <2>1. i + 1 \in 1..Len(q) /\ j + 1 \in 1..Len(q) /\ i + 1 < j + 1
    BY <1>2, <1>3
  <2> QED
    BY <1>2, <2>1 DEF InPairs
<1>4. ASSUME NEW i \in 1..Len(t)
      PROVE  <<q[1], t[i]>> \in R
  <2>1. 1 \in 1..Len(q) /\ i + 1 \in 1..Len(q) /\ 1 < i + 1
    BY <1>2
  <2> QED
    BY <1>2, <2>1 DEF InPairs
<1> QED
  BY <1>1, <1>2, <1>3, <1>4 DEF InPairs
-----------------------------------------------------------------------------
(* How many elements of a sequence are of a kind *)

\* The positions at which the elements of a set stand.
Positions(q, B) == {i \in 1..Len(q) : q[i] \in B}

LEMMA PositionsAreFinite ==
  ASSUME NEW S, NEW q \in Seq(S), NEW B
  PROVE  /\ IsFiniteSet(Positions(q, B)) /\ Cardinality(Positions(q, B)) \in Nat
         /\ Cardinality(Positions(q, B)) <= Len(q)
<1>1. Len(q) \in Nat
  BY LenProperties
<1>2. IsFiniteSet(1..Len(q)) /\ Cardinality(1..Len(q)) = Len(q)
  BY <1>1, FS_Interval
<1>3. Positions(q, B) \in SUBSET (1..Len(q))
  BY DEF Positions
<1> QED
  BY <1>2, <1>3, FS_Subset, FS_CardinalityType

\* A selection has no more of a kind, and is no longer.
LEMMA KeepCounts ==
  ASSUME NEW S, NEW q \in Seq(S), NEW kept, NEW B
  PROVE  /\ Cardinality(Positions(Keep(q, kept), B)) <= Cardinality(Positions(q, B))
         /\ Len(Keep(q, kept)) <= Len(q)
<1> DEFINE k == Keep(q, kept)
<1>1. k \in Seq(S) /\ Len(k) \in Nat /\ Len(q) \in Nat
  BY KeepProperties, LenProperties
<1>2. PICK place \in [1..Len(k) -> 1..Len(q)] :
        /\ \A i \in 1..Len(k) : place[i] \in kept /\ k[i] = q[place[i]]
        /\ \A i, j \in 1..Len(k) : i < j => place[i] < place[j]
  BY KeepProperties
<1> HIDE DEF k
<1>3. \A i, j \in 1..Len(k) : place[i] = place[j] => i = j
  <2> SUFFICES ASSUME NEW i \in 1..Len(k), NEW j \in 1..Len(k), place[i] = place[j], i # j
               PROVE  FALSE
    OBVIOUS
  <2>1. i < j \/ j < i
    BY <1>1
  <2>2. place[i] \in Nat /\ place[j] \in Nat
    BY <1>2
  <2> QED
    BY <1>2, <2>1, <2>2
<1>4. Cardinality(Positions(k, B)) <= Cardinality(Positions(q, B))
  <2> DEFINE f == [i \in Positions(k, B) |-> place[i]]
  <2>1. f \in [Positions(k, B) -> Positions(q, B)]
    BY <1>2 DEF Positions
  <2>2. f \in Injection(Positions(k, B), Positions(q, B))
    BY <1>3, <2>1 DEF Positions, Injection, IsInjective
  <2> QED
    BY <2>2, PositionsAreFinite, FS_Injection
<1>5. Len(k) <= Len(q)
  <2>1. place \in Injection(1..Len(k), 1..Len(q))
    BY <1>3 DEF Injection, IsInjective
  <2>2. IsFiniteSet(1..Len(q))
    BY <1>1, FS_Interval
  <2>3. Cardinality(1..Len(k)) <= Cardinality(1..Len(q))
    BY <2>1, <2>2, FS_Injection
  <2>4. \A n \in Nat : Cardinality(1..n) = n
    BY FS_Interval
  <2>5. Cardinality(1..Len(k)) = Len(k) /\ Cardinality(1..Len(q)) = Len(q)
    BY <1>1, <2>4
  <2> QED
    BY <2>3, <2>5
<1> QED
  BY <1>4, <1>5 DEF k

\* One that has lost an element has one less of its kind.
LEMMA RemoveAtCounts ==
  ASSUME NEW S, NEW q \in Seq(S), NEW v \in 1..Len(q), NEW B
  PROVE  Cardinality(Positions(RemoveAt(q, v), B)) =
           IF q[v] \in B THEN Cardinality(Positions(q, B)) - 1 ELSE Cardinality(Positions(q, B))
<1> DEFINE r == RemoveAt(q, v)
           N == Positions(q, B) \ {v}
           M == Positions(r, B)
           f == [j \in N |-> IF j < v THEN j ELSE j - 1]
<1>1. /\ Len(q) \in Nat /\ r \in Seq(S) /\ Len(r) = Len(q) - 1
      /\ \A j \in 1..(Len(q) - 1) : r[j] = IF j < v THEN q[j] ELSE q[j + 1]
  BY LenProperties, RemoveAtProperties
<1> HIDE DEF r
<1>2. f \in [N -> M]
  BY <1>1 DEF Positions
<1>3. f \in Injection(N, M)
  <2>1. \A i, j \in N : f[i] = f[j] => i = j
    BY <1>1 DEF Positions
  <2> HIDE DEF f, N, M
  <2> QED
    BY <1>2, <2>1, Fun_IsInj
<1>4. f \in Surjection(N, M)
  <2>1. ASSUME NEW m \in M PROVE \E j \in N : f[j] = m
    <3>1. CASE m < v
      <4>1. m \in N /\ f[m] = m
        BY <1>1, <3>1 DEF Positions
      <4> HIDE DEF f, N, M
      <4> QED
        BY <4>1
    <3>2. CASE ~(m < v)
      <4>1. m + 1 \in N /\ f[m + 1] = m
        BY <1>1, <3>2 DEF Positions
      <4> HIDE DEF f, N, M
      <4> QED
        BY <4>1
    <3> QED
      BY <3>1, <3>2
  <2> HIDE DEF f, N, M
  <2> QED
    BY <1>2, <2>1, Fun_IsSurj
<1>5. IsFiniteSet(Positions(q, B))
  BY PositionsAreFinite
<1>6. /\ IsFiniteSet(N)
      /\ Cardinality(N) = IF v \in Positions(q, B) THEN Cardinality(Positions(q, B)) - 1
                          ELSE Cardinality(Positions(q, B))
  BY <1>5, FS_RemoveElement
<1>7. ExistsBijection(N, M)
  <2> HIDE DEF f, N, M
  <2> QED
    BY <1>3, <1>4 DEF ExistsBijection, Bijection
<1>8. Cardinality(M) = Cardinality(N)
  <2> HIDE DEF N, M
  <2> QED
    BY <1>6, <1>7, FS_Bijection
<1> QED
  BY <1>6, <1>8 DEF Positions, r

\* One that has grown by an element has one more of its kind.
LEMMA AppendCounts ==
  ASSUME NEW S, NEW q \in Seq(S), NEW x \in S, NEW B
  PROVE  Cardinality(Positions(Append(q, x), B)) =
           IF x \in B THEN Cardinality(Positions(q, B)) + 1 ELSE Cardinality(Positions(q, B))
<1> DEFINE r == Append(q, x)
<1>1. /\ Len(q) \in Nat /\ Len(r) = Len(q) + 1 /\ r[Len(q) + 1] = x
      /\ \A i \in 1..Len(q) : r[i] = q[i]
  BY LenProperties, AppendProperties
<1> HIDE DEF r
<1>2. Positions(r, B) = IF x \in B THEN Positions(q, B) \cup {Len(q) + 1} ELSE Positions(q, B)
  BY <1>1 DEF Positions
<1>3. Len(q) + 1 \notin Positions(q, B) /\ IsFiniteSet(Positions(q, B))
  <2>1. Len(q) + 1 \notin Positions(q, B)
    BY <1>1 DEF Positions
  <2>2. IsFiniteSet(Positions(q, B))
    BY PositionsAreFinite
  <2> QED
    BY <2>1, <2>2
<1>4. Cardinality(Positions(q, B) \cup {Len(q) + 1}) = Cardinality(Positions(q, B)) + 1
  BY <1>3, FS_AddElement
<1> QED
  BY <1>2, <1>4 DEF r

\* The rest of a sequence has no more of a kind.
LEMMA TailCounts ==
  ASSUME NEW S, NEW q \in Seq(S), q # <<>>, NEW B
  PROVE  Cardinality(Positions(Tail(q), B)) <= Cardinality(Positions(q, B))
<1> DEFINE f == [j \in Positions(Tail(q), B) |-> j + 1]
<1>1. /\ Len(q) \in Nat /\ Tail(q) \in Seq(S) /\ Len(Tail(q)) = Len(q) - 1
      /\ \A i \in 1..Len(Tail(q)) : Tail(q)[i] = q[i + 1]
  BY LenProperties, HeadTailProperties
<1>2. f \in [Positions(Tail(q), B) -> Positions(q, B)]
  BY <1>1 DEF Positions
<1>3. f \in Injection(Positions(Tail(q), B), Positions(q, B))
  BY <1>1, <1>2 DEF Positions, Injection, IsInjective
<1> QED
  BY <1>3, PositionsAreFinite, FS_Injection

\* What an insertion puts where.
LEMMA InsertAtProperties ==
  ASSUME NEW S, NEW s \in Seq(S), NEW i \in 1..(Len(s) + 1), NEW e \in S
  PROVE  /\ InsertAt(s, i, e) \in Seq(S)
         /\ Len(InsertAt(s, i, e)) = Len(s) + 1
         /\ \A j \in 1..(Len(s) + 1) :
              InsertAt(s, i, e)[j] = IF j < i THEN s[j] ELSE IF j = i THEN e ELSE s[j - 1]
<1> DEFINE a == SubSeq(s, 1, i - 1)
           b == SubSeq(s, i, Len(s))
           c == Append(a, e)
<1>1. Len(s) \in Nat /\ \A j \in 1..Len(s) : s[j] \in S
  BY LenProperties, ElementOfSeq
<1>2. /\ a \in Seq(S) /\ Len(a) = i - 1
      /\ \A j \in 1..(i - 1) : a[j] = s[j]
  <2>1. 1 \in Int /\ i - 1 \in Int /\ \A j \in 1..(i - 1) : s[j] \in S
    BY <1>1
  <2>2. /\ a \in Seq(S)
        /\ Len(a) = IF 1 <= i - 1 THEN (i - 1) - 1 + 1 ELSE 0
        /\ \A j \in 1..((i - 1) - 1 + 1) : a[j] = s[1 + j - 1]
    BY <2>1, SubSeqProperties
  <2> QED
    BY <1>1, <2>2
<1>3. /\ b \in Seq(S) /\ Len(b) = Len(s) + 1 - i
      /\ \A j \in 1..(Len(s) + 1 - i) : b[j] = s[i + j - 1]
  <2>1. i \in Int /\ Len(s) \in Int /\ \A j \in i..Len(s) : s[j] \in S
    BY <1>1
  <2>2. /\ b \in Seq(S)
        /\ Len(b) = IF i <= Len(s) THEN Len(s) - i + 1 ELSE 0
        /\ \A j \in 1..(Len(s) - i + 1) : b[j] = s[i + j - 1]
    BY <2>1, SubSeqProperties
  <2> QED
    BY <1>1, <2>2
<1> HIDE DEF a, b
<1>4. /\ c \in Seq(S) /\ Len(c) = i /\ c[i] = e
      /\ \A j \in 1..(i - 1) : c[j] = a[j]
  BY <1>1, <1>2, AppendProperties
<1>5. InsertAt(s, i, e) = c \o b
  <2>1. c = a \o <<e>>
    BY <1>2, AppendIsConcat
  <2> QED
    BY <2>1 DEF InsertAt, a, b
<1> HIDE DEF c
<1>6. /\ c \o b \in Seq(S) /\ Len(c \o b) = Len(c) + Len(b)
      /\ \A j \in 1..(Len(c) + Len(b)) :
           (c \o b)[j] = IF j <= Len(c) THEN c[j] ELSE b[j - Len(c)]
  BY <1>3, <1>4, ConcatProperties
<1>7. ASSUME NEW j \in 1..(Len(s) + 1)
      PROVE  (c \o b)[j] = IF j < i THEN s[j] ELSE IF j = i THEN e ELSE s[j - 1]
  <2>1. Len(c) + Len(b) = Len(s) + 1
    BY <1>1, <1>3, <1>4
  <2>2. CASE j < i
    <3>1. j \in 1..(i - 1) /\ j <= i
      BY <1>1, <2>2
    <3> QED
      BY <1>2, <1>4, <1>6, <2>1, <2>2, <3>1
  <2>3. CASE j = i
    BY <1>4, <1>6, <2>1, <2>3
  <2>4. CASE j > i
    <3>1. j - i \in 1..(Len(s) + 1 - i) /\ ~(j <= i) /\ i + (j - i) - 1 = j - 1
      BY <1>1, <2>4
    <3>2. (c \o b)[j] = b[j - i]
      BY <1>4, <1>6, <2>1, <3>1
    <3> QED
      BY <1>3, <2>4, <3>1, <3>2
  <2>5. j < i \/ j = i \/ j > i
    BY <1>1
  <2>6. j > i => ~(j < i) /\ j # i
    BY <1>1
  <2> QED
    BY <2>2, <2>3, <2>4, <2>5, <2>6
<1> QED
  BY <1>1, <1>3, <1>4, <1>5, <1>6, <1>7

\* A finite set of integers has a greatest one: of the sets of what is not below one of
\* its elements there is a smallest.
LEMMA MaxIsGreatest ==
  ASSUME NEW S, S \subseteq Int, S # {}, IsFiniteSet(S)
  PROVE  Max(S) \in S /\ \A y \in S : Max(S) >= y
<1> DEFINE Above(x) == {y \in S : y >= x}
           W == {Above(x) : x \in S}
           R == StrictSubsetOrdering(S)
<1>1. W \subseteq FiniteSubsetsOf(S) /\ W # {}
  <2>1. \A x \in S : Above(x) \in SUBSET S
    OBVIOUS
  <2>2. \A x \in S : IsFiniteSet(Above(x))
    BY <2>1, FS_Subset
  <2> QED
    BY <2>1, <2>2 DEF FiniteSubsetsOf
<1>2. IsWellFoundedOn(R, FiniteSubsetsOf(S))
  BY FS_StrictSubsetOrderingWellFounded
<1>3. PICK s \in W : \A y \in W : <<y, s>> \notin R
  <2> HIDE DEF R, W
  <2> QED
    BY <1>1, <1>2, WFMin
<1>4. PICK x \in S : s = Above(x)
  OBVIOUS
<1>5. ASSUME NEW y \in S, ~(x >= y) PROVE FALSE
  <2>1. x \in Int /\ y \in Int /\ y > x
    BY <1>5
  <2>2. Above(y) \subseteq Above(x) /\ x \in Above(x) /\ x \notin Above(y)
    <3>1. \A z \in S : z \in Int /\ (z >= y => z >= x)
      BY <2>1
    <3>2. x >= x /\ ~(x >= y)
      BY <2>1
    <3>3. Above(y) \subseteq Above(x)
      BY <3>1
    <3> QED
      BY <3>2, <3>3
  <2>3. Above(y) \in W /\ Above(y) \in SUBSET S /\ s \in SUBSET S
    BY <1>4
  <2>4. <<Above(y), s>> \in R
    BY <1>4, <2>2, <2>3 DEF StrictSubsetOrdering
  <2> QED
    BY <1>3, <2>3, <2>4
<1> QED
  BY <1>5 DEF Max

\* A set of the values of a function over a finite set is finite.
LEMMA ImageIsFinite ==
  ASSUME NEW S, IsFiniteSet(S), NEW f
  PROVE  IsFiniteSet({f[x] : x \in S})
<1> DEFINE T == {f[x] : x \in S}
           g == [x \in S |-> f[x]]
<1>1. g \in Surjection(S, T)
  BY Fun_IsSurj
<1> HIDE DEF g, T
<1>2. IsFiniteSet(T)
  BY <1>1, FS_Surjection
<1> QED
  BY <1>2 DEF T
=============================================================================
