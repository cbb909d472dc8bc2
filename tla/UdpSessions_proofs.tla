------------------------ MODULE UdpSessions_proofs ------------------------
(***************************************************************************)
(* The session table of a UDP tunnel, for any number of peers, session     *)
(* ids, frames and any limit: SessionsInv is inductive.  It implies that   *)
(* the two maps and the order always describe the same sessions, that the  *)
(* eviction takes the one silent longest, and that an answer never reaches *)
(* another peer than the one it answers.                                   *)
(***************************************************************************)
EXTENDS UdpSessions, SequenceTheorems, FiniteSetTheorems, WellFoundedInduction, TLAPS

-----------------------------------------------------------------------------
\* Induction over the natural numbers, for sets of them: the provers cannot
\* instantiate the theorem of the library, which takes a predicate.

Less == {p \in Nat \X Nat : p[1] < p[2]}

LEMMA Least ==
    ASSUME NEW S \in SUBSET Nat, S # {}
    PROVE  \E m \in S : \A k \in S : m <= k
<1>1. IsWellFoundedOn(Less, Nat)
  <2>1. OpToRel(<, Nat) = Less
    BY DEF OpToRel, Less
  <2> QED
    BY <2>1, NatLessThanWellFounded
<1>2. \A k, m \in Nat : <<k, m>> \in Less <=> k < m
  BY DEF Less
<1>3. PICK m \in S : \A k \in S : <<k, m>> \notin Less
  BY <1>1, WFMin
<1>4. \A k \in S : ~(k < m) /\ k \in Nat /\ m \in Nat
  BY <1>2, <1>3
<1>5. \A k \in S : m <= k
  BY <1>4
<1> QED
  BY <1>5

LEMMA SetInduction ==
    ASSUME NEW S \in SUBSET Nat, 0 \in S, \A n \in S : n + 1 \in S
    PROVE  S = Nat
<1> SUFFICES ASSUME Nat \ S # {} PROVE FALSE
  OBVIOUS
<1>1. PICK m \in Nat \ S : \A k \in Nat \ S : m <= k
  BY Least
<1>2. m # 0 /\ m - 1 \in Nat
  BY <1>1
<1>3. m - 1 \in S
  BY <1>1, <1>2
<1> QED
  BY <1>2, <1>3

-----------------------------------------------------------------------------
\* The sweep of the order.

Grows(q, gone, g, n) ==
    g[n] = IF n = 0 THEN <<>>
           ELSE IF q[n] \in gone THEN g[n - 1] ELSE Append(g[n - 1], q[n])

\* The recursive function Left is defined by: there is one.
LEMMA LeftIsDefined ==
    ASSUME NEW q \in Seq(Peers), NEW gone
    PROVE  \A n \in 0..Len(q) : Grows(q, gone, Left(q, gone), n)
<1>0. Len(q) \in Nat
  BY LenProperties
<1> DEFINE Dom == {n \in Nat : \E g : g = [k \in 0..n |-> g[k]] /\ \A k \in 0..n : Grows(q, gone, g, k)}
<1>1. 0 \in Dom
  <2> DEFINE g == [k \in 0..0 |-> <<>>]
  <2>1. g = [k \in 0..0 |-> g[k]] /\ \A k \in 0..0 : Grows(q, gone, g, k)
    BY DEF Grows
  <2> QED
    BY <2>1
<1>2. ASSUME NEW n \in Dom PROVE n + 1 \in Dom
  <2>1. PICK g : g = [k \in 0..n |-> g[k]] /\ \A k \in 0..n : Grows(q, gone, g, k)
    BY <1>2
  <2> DEFINE x == IF q[n + 1] \in gone THEN g[n] ELSE Append(g[n], q[n + 1])
             h == [k \in 0..(n + 1) |-> IF k = n + 1 THEN x ELSE g[k]]
  <2>2. n \in Nat
    BY <1>2
  <2>3. ASSUME NEW k \in 0..(n + 1) PROVE Grows(q, gone, h, k)
    <3>1. CASE k = n + 1
      <4>1. h[k] = x /\ h[k - 1] = g[n] /\ k # 0
        BY <2>2, <3>1
      <4> QED
        BY <3>1, <4>1 DEF Grows
    <3>2. CASE k # n + 1
      <4>1. k \in 0..n /\ h[k] = g[k] /\ (k # 0 => h[k - 1] = g[k - 1])
        BY <2>2, <3>2
      <4>2. Grows(q, gone, g, k)
        BY <2>1, <4>1
      <4> HIDE DEF h
      <4> QED
        BY <4>1, <4>2 DEF Grows
    <3> QED
      BY <3>1, <3>2
  <2>4. h = [k \in 0..(n + 1) |-> h[k]]
    OBVIOUS
  <2> HIDE DEF h
  <2> QED
    BY <2>2, <2>3, <2>4
<1>3. Dom = Nat
  <2> HIDE DEF Dom
  <2>1. Dom \in SUBSET Nat
    BY DEF Dom
  <2> QED
    BY <1>1, <1>2, <2>1, SetInduction
<1>4. PICK g : g = [k \in 0..Len(q) |-> g[k]] /\ \A k \in 0..Len(q) : Grows(q, gone, g, k)
  BY <1>0, <1>3
<1> DEFINE step(h) == [n \in 0..Len(q) |->
                IF n = 0 THEN <<>>
                ELSE IF q[n] \in gone THEN h[n - 1] ELSE Append(h[n - 1], q[n])]
<1>5. g = step(g)
  BY <1>4 DEF Grows
<1>6. Left(q, gone) = step(Left(q, gone))
  BY <1>5, Zenon DEF Left
<1> QED
  BY <1>6 DEF Grows

Once(q) == \A i, j \in 1..Len(q) : q[i] = q[j] => i = j
Sorted(q, f) == \A i, j \in 1..Len(q) : i < j => f[q[i]] <= f[q[j]]
Follows(p, q, f) == \A k \in 1..Len(q) : q[k] # p /\ f[q[k]] <= f[p]
Extends(s, q, p) == /\ s \in Seq(Peers) /\ Len(s) = Len(q) + 1 /\ s[Len(q) + 1] = p
                    /\ \A k \in 1..Len(q) : s[k] = q[k]

\* An order with one more peer at its end.
LEMMA Appended ==
    ASSUME NEW r \in Seq(Peers), NEW p \in Peers, Once(r), NEW f \in [Peers -> Nat], Sorted(r, f),
           Follows(p, r, f), NEW s, s = Append(r, p)
    PROVE  Once(s) /\ Sorted(s, f) /\ Extends(s, r, p)
<1>1. /\ s \in Seq(Peers) /\ Len(r) \in Nat /\ Len(s) = Len(r) + 1
      /\ \A k \in 1..Len(r) : s[k] = r[k]
      /\ s[Len(r) + 1] = p
  BY AppendProperties, LenProperties
<1>0. \A i \in 1..Len(s) : i \in 1..Len(r) \/ i = Len(r) + 1
  BY <1>1
<1>2. Once(s)
  <2> SUFFICES ASSUME NEW i \in 1..Len(s), NEW j \in 1..Len(s), s[i] = s[j] PROVE i = j
    BY DEF Once
  <2>1. CASE i = Len(r) + 1 \/ j = Len(r) + 1
    BY <1>1, <2>1 DEF Follows
  <2>2. CASE i \in 1..Len(r) /\ j \in 1..Len(r)
    BY <1>1, <2>2 DEF Once
  <2> QED
    BY <1>0, <2>1, <2>2
<1>3. Sorted(s, f)
  <2> SUFFICES ASSUME NEW i \in 1..Len(s), NEW j \in 1..Len(s), i < j
               PROVE  f[s[i]] <= f[s[j]]
    BY DEF Sorted
  <2>1. i \in 1..Len(r)
    BY <1>1
  <2>2. CASE j = Len(r) + 1
    BY <1>1, <2>1, <2>2 DEF Follows
  <2>3. CASE j \in 1..Len(r)
    BY <1>1, <2>1, <2>3 DEF Sorted
  <2> QED
    BY <1>0, <2>2, <2>3
<1> QED
  BY <1>1, <1>2, <1>3 DEF Extends

\* r is what is left of the first n of q: those that stay, once each, in order.
LeftOf(r, q, gone, f, n) ==
    /\ r \in Seq(Peers) /\ Once(r) /\ Sorted(r, f) /\ Len(r) <= n
    /\ \A k \in 1..Len(r) : \E i \in 1..n : r[k] = q[i] /\ q[i] \notin gone
    /\ \A i \in 1..n : q[i] \notin gone => \E k \in 1..Len(r) : r[k] = q[i]

LEMMA LeftStep ==
    ASSUME NEW q \in Seq(Peers), Once(q), NEW f \in [Peers -> Nat], Sorted(q, f), NEW gone,
           NEW n \in Nat, n + 1 <= Len(q), NEW r, LeftOf(r, q, gone, f, n)
    PROVE  LeftOf(IF q[n + 1] \in gone THEN r ELSE Append(r, q[n + 1]), q, gone, f, n + 1)
<1>0. Len(q) \in Nat /\ n + 1 \in 1..Len(q) /\ q[n + 1] \in Peers /\ r \in Seq(Peers)
      /\ Len(r) \in Nat
  BY LenProperties, ElementOfSeq DEF LeftOf
<1>1. CASE q[n + 1] \in gone
  <2>1. \A i \in 1..(n + 1) : q[i] \notin gone => i \in 1..n
    BY <1>1
  <2>2. \A k \in 1..Len(r) : \E i \in 1..(n + 1) : r[k] = q[i] /\ q[i] \notin gone
    BY DEF LeftOf
  <2> QED
    BY <1>0, <1>1, <2>1, <2>2 DEF LeftOf
<1>2. CASE q[n + 1] \notin gone
  <2>p. PICK p \in Peers : p = q[n + 1]
    BY <1>0
  <2>0. PICK s : s = Append(r, p)
    OBVIOUS
  <2>1. Follows(p, r, f)
    <3> SUFFICES ASSUME NEW k \in 1..Len(r) PROVE r[k] # p /\ f[r[k]] <= f[p]
      BY DEF Follows
    <3>1. PICK i \in 1..n : r[k] = q[i]
      BY DEF LeftOf
    <3>2. i \in 1..Len(q) /\ i < n + 1
      BY <1>0
    <3> QED
      BY <1>0, <2>p, <3>1, <3>2 DEF Once, Sorted
  <2>2. /\ s \in Seq(Peers) /\ Len(s) = Len(r) + 1 /\ Once(s) /\ Sorted(s, f)
        /\ \A k \in 1..Len(r) : s[k] = r[k]
        /\ s[Len(r) + 1] = p
    <3>1. Once(r) /\ Sorted(r, f)
      BY DEF LeftOf
    <3>2. Once(s) /\ Sorted(s, f) /\ Extends(s, r, p)
      BY <1>0, <2>0, <2>1, <3>1, Appended
    <3> QED
      BY <3>2 DEF Extends
  <2>7. \A k \in 1..Len(s) : k \in 1..Len(r) \/ k = Len(r) + 1
    BY <1>0, <2>2
  <2>8. Len(r) + 1 \in 1..Len(s) /\ \A k \in 1..Len(r) : k \in 1..Len(s)
    BY <1>0, <2>2
  <2>3. \A k \in 1..Len(s) : \E i \in 1..(n + 1) : s[k] = q[i] /\ q[i] \notin gone
    <3> SUFFICES ASSUME NEW k \in 1..Len(s)
                 PROVE  \E i \in 1..(n + 1) : s[k] = q[i] /\ q[i] \notin gone
      OBVIOUS
    <3>1. CASE k = Len(r) + 1
      <4>1. n + 1 \in 1..(n + 1) /\ s[k] = q[n + 1]
        BY <2>p, <2>2, <3>1
      <4> QED
        BY <1>2, <4>1
    <3>2. CASE k \in 1..Len(r)
      <4>1. PICK i \in 1..n : r[k] = q[i] /\ q[i] \notin gone
        BY <3>2 DEF LeftOf
      <4>2. i \in 1..(n + 1) /\ s[k] = q[i]
        BY <2>2, <3>2, <4>1
      <4> QED
        BY <4>1, <4>2
    <3> QED
      BY <2>7, <3>1, <3>2
  <2>4. \A i \in 1..(n + 1) : q[i] \notin gone => \E k \in 1..Len(s) : s[k] = q[i]
    <3> SUFFICES ASSUME NEW i \in 1..(n + 1), q[i] \notin gone
                 PROVE  \E k \in 1..Len(s) : s[k] = q[i]
      OBVIOUS
    <3>1. CASE i = n + 1
      BY <2>p, <2>2, <2>8, <3>1
    <3>2. CASE i \in 1..n
      <4>1. PICK k \in 1..Len(r) : r[k] = q[i]
        BY <3>2 DEF LeftOf
      <4> QED
        BY <2>2, <2>8, <4>1
    <3> QED
      BY <3>1, <3>2
  <2>5. Len(s) <= n + 1
    BY <1>0, <2>2 DEF LeftOf
  <2>6. LeftOf(s, q, gone, f, n + 1)
    BY <2>2, <2>3, <2>4, <2>5 DEF LeftOf
  <2> QED
    BY <1>2, <2>p, <2>0, <2>6
<1> QED
  BY <1>1, <1>2

LEMMA Swept ==
    ASSUME NEW q \in Seq(Peers), Once(q), NEW f \in [Peers -> Nat], Sorted(q, f), NEW gone
    PROVE  LeftOf(Left(q, gone)[Len(q)], q, gone, f, Len(q))
<1> DEFINE L == Left(q, gone)
           Good == {n \in Nat : n <= Len(q) => LeftOf(L[n], q, gone, f, n)}
<1>0. Len(q) \in Nat
  BY LenProperties
<1>1. 0 \in Good
  <2>1. L[0] = <<>>
    <3>1. Grows(q, gone, L, 0)
      BY <1>0, LeftIsDefined
    <3> QED
      BY <3>1 DEF Grows
  <2>2. LeftOf(<<>>, q, gone, f, 0)
    <3>1. <<>> \in Seq(Peers) /\ Len(<<>>) = 0 /\ 1..0 = {}
      BY EmptySeq
    <3> QED
      BY <3>1 DEF LeftOf, Once, Sorted
  <2> QED
    BY <2>1, <2>2
<1>2. ASSUME NEW n \in Good PROVE n + 1 \in Good
  <2>1. CASE n + 1 <= Len(q)
    <3>1. n \in Nat /\ LeftOf(L[n], q, gone, f, n)
      BY <1>0, <2>1
    <3>2. LeftOf(IF q[n + 1] \in gone THEN L[n] ELSE Append(L[n], q[n + 1]), q, gone, f, n + 1)
      BY <2>1, <3>1, LeftStep
    <3>3. L[n + 1] = IF q[n + 1] \in gone THEN L[n] ELSE Append(L[n], q[n + 1])
      <4>1. n + 1 \in 0..Len(q) /\ n + 1 # 0 /\ (n + 1) - 1 = n
        BY <1>0, <2>1, <3>1
      <4>2. Grows(q, gone, L, n + 1)
        BY <4>1, LeftIsDefined
      <4> QED
        BY <4>1, <4>2 DEF Grows
    <3> QED
      BY <3>1, <3>2, <3>3
  <2>2. CASE ~(n + 1 <= Len(q))
    BY <2>2
  <2> QED
    BY <2>1, <2>2
<1>3. Good = Nat
  <2> HIDE DEF Good
  <2>1. Good \in SUBSET Nat
    BY DEF Good
  <2> QED
    BY <1>1, <1>2, <2>1, SetInduction
<1> QED
  BY <1>0, <1>3

-----------------------------------------------------------------------------
\* A peer leaves the order it is in, and it is the only one.
LEMMA Removed ==
    ASSUME NEW q \in Seq(Peers), Once(q), NEW f \in [Peers -> Nat], Sorted(q, f),
           NEW m \in 1..Len(q)
    PROVE  LET r == RemoveFirst(q, q[m])
           IN  /\ r \in Seq(Peers) /\ Len(r) = Len(q) - 1 /\ Once(r) /\ Sorted(r, f)
               /\ \A k \in 1..Len(r) : r[k] = q[IF k < m THEN k ELSE k + 1]
<1> DEFINE a == SubSeq(q, 1, m - 1)
           b == SubSeq(q, m + 1, Len(q))
           r == RemoveFirst(q, q[m])
<1>0. Len(q) \in Nat /\ m \in Nat /\ m >= 1 /\ m <= Len(q)
  BY LenProperties
<1>1. r = a \o b
  <2>1. SelectInSeq(q, LAMBDA v : v = q[m]) = m
    BY DEF SelectInSeq, Min, Once
  <2> QED
    BY <2>1 DEF RemoveFirst, RemoveAt
<1>2. /\ a \in Seq(Peers) /\ Len(a) = m - 1 /\ \A k \in 1..(m - 1) : a[k] = q[k]
  BY <1>0, SubSeqProperties
<1>3. /\ b \in Seq(Peers) /\ Len(b) = Len(q) - m /\ \A k \in 1..(Len(q) - m) : b[k] = q[m + k]
  BY <1>0, SubSeqProperties
<1> HIDE DEF a, b, r
<1>4. /\ r \in Seq(Peers) /\ Len(r) = Len(q) - 1
      /\ \A k \in 1..Len(r) : r[k] = IF k <= Len(a) THEN a[k] ELSE b[k - Len(a)]
  <2>1. /\ r \in Seq(Peers) /\ Len(r) = Len(a) + Len(b)
        /\ \A k \in 1..(Len(a) + Len(b)) : r[k] = IF k <= Len(a) THEN a[k] ELSE b[k - Len(a)]
    BY <1>1, <1>2, <1>3, ConcatProperties
  <2>2. Len(a) + Len(b) = Len(q) - 1
    BY <1>0, <1>2, <1>3
  <2> QED
    BY <2>1, <2>2
<1>5. ASSUME NEW k \in 1..Len(r) PROVE r[k] = q[IF k < m THEN k ELSE k + 1]
  <2>1. CASE k < m
    BY <1>0, <1>2, <1>4, <2>1
  <2>2. CASE ~(k < m)
    <3>1. k - Len(a) \in 1..(Len(q) - m) /\ m + (k - Len(a)) = k + 1 /\ ~(k <= Len(a))
      BY <1>0, <1>2, <1>4, <2>2
    <3> QED
      BY <1>3, <1>4, <2>2, <3>1
  <2> QED
    BY <2>1, <2>2
<1> DEFINE at(k) == IF k < m THEN k ELSE k + 1
<1>6. \A k \in 1..Len(r) : at(k) \in 1..Len(q) /\ r[k] = q[at(k)]
  BY <1>0, <1>4, <1>5
<1>7. \A i, j \in 1..Len(r) : (at(i) = at(j) => i = j) /\ (i < j => at(i) < at(j))
  BY <1>0, <1>4
<1> HIDE DEF at
<1>8. Once(r)
  BY <1>6, <1>7 DEF Once
<1>9. Sorted(r, f)
  BY <1>6, <1>7 DEF Sorted
<1> QED
  BY <1>4, <1>5, <1>8, <1>9 DEF r

\* The order counts the sessions.
LEMMA Counted ==
    ASSUME NEW q \in Seq(Peers), Once(q), NEW S, S = ToSet(q)
    PROVE  IsFiniteSet(S) /\ Cardinality(S) = Len(q)
<1>1. q \in [1..Len(q) -> S] /\ \A x \in S : \E i \in 1..Len(q) : q[i] = x
  BY LenProperties DEF ToSet
<1>2. q \in Bijection(1..Len(q), S)
  BY <1>1 DEF Once, Bijection, Injection, Surjection, IsInjective
<1>3. PICK n \in Nat : n = Len(q)
  BY LenProperties
<1>4. ExistsBijection(1..n, S)
  BY <1>2, <1>3 DEF ExistsBijection
<1> QED
  BY <1>3, <1>4, FS_CountingElements, FS_NatBijection

NotAfter(f, t) == \A x \in Peers : f[x] <= t

\* A peer that is not in the order is put at its end, active now.
LEMMA PutLast ==
    ASSUME NEW q \in Seq(Peers), Once(q), NEW f \in [Peers -> Nat], Sorted(q, f),
           NEW p \in Peers, p \notin ToSet(q), NEW t \in Nat, NotAfter(f, t),
           NEW g, g = [f EXCEPT ![p] = t], NEW s, s = Append(q, p)
    PROVE  Once(s) /\ Sorted(s, g) /\ Extends(s, q, p) /\ ToSet(s) = ToSet(q) \cup {p}
<1>0. /\ Len(q) \in Nat /\ DOMAIN q = 1..Len(q)
      /\ \A k \in 1..Len(q) : q[k] \in Peers /\ q[k] # p
  <2>1. Len(q) \in Nat /\ DOMAIN q = 1..Len(q) /\ \A k \in 1..Len(q) : q[k] \in Peers
    BY LenProperties, ElementOfSeq
  <2> QED
    BY <2>1 DEF ToSet
<1>1. g \in [Peers -> Nat] /\ g[p] = t /\ \A x \in Peers : x # p => g[x] = f[x]
  OBVIOUS
<1>2. Sorted(q, g)
  BY <1>0, <1>1 DEF Sorted
<1>3. Follows(p, q, g)
  BY <1>0, <1>1 DEF Follows, NotAfter
<1>4. Once(s) /\ Sorted(s, g) /\ Extends(s, q, p)
  BY <1>1, <1>2, <1>3, Appended
<1>5. ToSet(s) = ToSet(q) \cup {p}
  <2>1. DOMAIN s = 1..(Len(q) + 1) /\ s[Len(q) + 1] = p /\ \A k \in 1..Len(q) : s[k] = q[k]
    BY <1>4, LenProperties DEF Extends
  <2>2. \A k \in 1..(Len(q) + 1) : k \in 1..Len(q) \/ k = Len(q) + 1
    BY <1>0
  <2>3. \A k \in 1..Len(q) : k \in 1..(Len(q) + 1)
    BY <1>0
  <2>4. Len(q) + 1 \in 1..(Len(q) + 1)
    BY <1>0
  <2>5. ToSet(s) = {s[k] : k \in 1..(Len(q) + 1)} /\ ToSet(q) = {q[k] : k \in 1..Len(q)}
    BY <1>0, <2>1 DEF ToSet
  <2>6. ASSUME NEW x \in ToSet(s) PROVE x \in ToSet(q) \cup {p}
    <3>1. PICK k \in 1..(Len(q) + 1) : x = s[k]
      BY <2>5, <2>6
    <3>2. CASE k = Len(q) + 1
      BY <2>1, <3>1, <3>2
    <3>3. CASE k \in 1..Len(q)
      BY <2>1, <2>5, <3>1, <3>3
    <3> QED
      BY <2>2, <3>2, <3>3
  <2>7. ASSUME NEW x \in ToSet(q) PROVE x \in ToSet(s)
    <3>1. PICK k \in 1..Len(q) : x = q[k]
      BY <2>5, <2>7
    <3>2. k \in 1..(Len(q) + 1) /\ x = s[k]
      BY <2>1, <2>3, <3>1
    <3> QED
      BY <2>5, <3>2
  <2>8. p \in ToSet(s)
    BY <2>1, <2>4, <2>5
  <2> QED
    BY <2>6, <2>7, <2>8
<1> QED
  BY <1>4, <1>5

Reordered(s, q) == s \in Seq(Peers) /\ Len(s) = Len(q) /\ ToSet(s) = ToSet(q)

\* touchLocked: a peer of the order goes to its end, active now.
LEMMA Touched ==
    ASSUME NEW q \in Seq(Peers), Once(q), NEW f \in [Peers -> Nat], Sorted(q, f),
           NEW p \in ToSet(q), NEW t \in Nat, NotAfter(f, t),
           NEW g, g = [f EXCEPT ![p] = t],
           NEW r, r = RemoveFirst(q, p), NEW s, s = Append(r, p)
    PROVE  Once(s) /\ Sorted(s, g) /\ Reordered(s, q)
<1>0. Len(q) \in Nat /\ DOMAIN q = 1..Len(q) /\ \A k \in 1..Len(q) : q[k] \in Peers
  BY LenProperties, ElementOfSeq
<1>1. PICK m \in 1..Len(q) : q[m] = p
  BY <1>0 DEF ToSet
<1>2. r = RemoveFirst(q, q[m])
  BY <1>1
<1>3. /\ r \in Seq(Peers) /\ Len(r) = Len(q) - 1 /\ Once(r) /\ Sorted(r, f)
      /\ \A k \in 1..Len(r) : r[k] = q[IF k < m THEN k ELSE k + 1]
  BY <1>2, Removed
<1>4. ToSet(r) = {r[k] : k \in 1..Len(r)} /\ ToSet(q) = {q[k] : k \in 1..Len(q)}
  BY <1>0, <1>3, LenProperties DEF ToSet
<1>5. p \notin ToSet(r) /\ ToSet(r) \subseteq ToSet(q)
  <2>1. ASSUME NEW k \in 1..Len(r)
        PROVE  \E i \in 1..Len(q) : i # m /\ r[k] = q[i]
    <3>1. CASE k < m
      <4>1. k \in 1..Len(q) /\ k # m
        BY <1>0, <1>3, <3>1
      <4> QED
        BY <1>3, <3>1, <4>1
    <3>2. CASE ~(k < m)
      <4>1. k + 1 \in 1..Len(q) /\ k + 1 # m
        BY <1>0, <1>3, <3>2
      <4> QED
        BY <1>3, <3>2, <4>1
    <3> QED
      BY <3>1, <3>2
  <2>2. \A k \in 1..Len(r) : r[k] # p /\ r[k] \in ToSet(q)
    <3> SUFFICES ASSUME NEW k \in 1..Len(r) PROVE r[k] # p /\ r[k] \in ToSet(q)
      OBVIOUS
    <3>1. PICK i \in 1..Len(q) : i # m /\ r[k] = q[i]
      BY <2>1
    <3> QED
      BY <1>1, <1>4, <3>1 DEF Once
  <2> QED
    BY <1>4, <2>2
<1>6. ToSet(q) \subseteq ToSet(r) \cup {p}
  <2>1. ASSUME NEW i \in 1..Len(q), i # m PROVE \E k \in 1..Len(r) : r[k] = q[i]
    <3>1. CASE i < m
      <4>1. i \in 1..Len(r)
        BY <1>0, <1>3, <3>1
      <4> QED
        BY <1>3, <3>1, <4>1
    <3>2. CASE ~(i < m)
      <4>1. i - 1 \in 1..Len(r) /\ ~(i - 1 < m) /\ (i - 1) + 1 = i
        BY <1>0, <1>3, <2>1, <3>2
      <4> QED
        BY <1>3, <4>1
    <3> QED
      BY <3>1, <3>2
  <2>2. ASSUME NEW x \in ToSet(q) PROVE x \in ToSet(r) \cup {p}
    <3>1. PICK i \in 1..Len(q) : x = q[i]
      BY <1>4, <2>2
    <3>2. CASE i = m
      BY <1>1, <3>1, <3>2
    <3>3. CASE i # m
      BY <1>4, <2>1, <3>1, <3>3
    <3> QED
      BY <3>2, <3>3
  <2> QED
    BY <2>2
<1>7. Once(s) /\ Sorted(s, g) /\ Extends(s, r, p) /\ ToSet(s) = ToSet(r) \cup {p}
  <2>1. p \in Peers /\ s = Append(r, p)
    BY <1>0, <1>1, <1>2
  <2>2. r \in Seq(Peers) /\ Once(r) /\ Sorted(r, f) /\ p \notin ToSet(r)
    BY <1>3, <1>5
  <2> QED
    BY <2>1, <2>2, PutLast
<1>8. ToSet(s) = ToSet(q)
  BY <1>5, <1>6, <1>7
<1>9. Len(s) = Len(q) /\ s \in Seq(Peers)
  BY <1>0, <1>3, <1>7 DEF Extends
<1> QED
  BY <1>7, <1>8, <1>9 DEF Reordered

\* evictLRULocked: the head of the order leaves.
LEMMA TailOrder ==
    ASSUME NEW q \in Seq(Peers), Once(q), NEW f \in [Peers -> Nat], Sorted(q, f), q # <<>>
    PROVE  /\ Tail(q) \in Seq(Peers) /\ Once(Tail(q)) /\ Sorted(Tail(q), f)
           /\ Len(Tail(q)) = Len(q) - 1 /\ Head(q) \in ToSet(q)
           /\ ToSet(Tail(q)) = ToSet(q) \ {Head(q)}
<1>0. Len(q) \in Nat /\ Len(q) >= 1 /\ DOMAIN q = 1..Len(q)
  BY LenProperties, EmptySeq
<1>1. PICK r : r = Tail(q)
  OBVIOUS
<1>2. /\ r \in Seq(Peers) /\ Len(r) = Len(q) - 1 /\ DOMAIN r = 1..Len(r)
      /\ \A k \in 1..Len(r) : r[k] = q[k + 1]
  BY <1>0, <1>1, HeadTailProperties, LenProperties
<1>3. Head(q) = q[1]
  OBVIOUS
<1>4. \A k \in 1..Len(r) : k + 1 \in 1..Len(q)
  BY <1>0, <1>2
<1>5. Once(r)
  <2> SUFFICES ASSUME NEW i \in 1..Len(r), NEW j \in 1..Len(r), r[i] = r[j] PROVE i = j
    BY DEF Once
  <2>1. i + 1 = j + 1
    BY <1>2, <1>4 DEF Once
  <2> QED
    BY <2>1
<1>6. Sorted(r, f)
  <2> SUFFICES ASSUME NEW i \in 1..Len(r), NEW j \in 1..Len(r), i < j PROVE f[r[i]] <= f[r[j]]
    BY DEF Sorted
  <2>1. i + 1 < j + 1
    OBVIOUS
  <2> QED
    BY <1>2, <1>4, <2>1 DEF Sorted
<1>7. ToSet(r) = {r[k] : k \in 1..Len(r)} /\ ToSet(q) = {q[k] : k \in 1..Len(q)}
  BY <1>0, <1>2 DEF ToSet
<1>8. 1 \in 1..Len(q)
  BY <1>0
<1>9. \A k \in 1..Len(r) : r[k] \in ToSet(q) /\ r[k] # q[1]
  <2> SUFFICES ASSUME NEW k \in 1..Len(r) PROVE r[k] \in ToSet(q) /\ r[k] # q[1]
    OBVIOUS
  <2>1. k + 1 # 1
    BY <1>0, <1>2
  <2> QED
    BY <1>2, <1>4, <1>7, <1>8, <2>1 DEF Once
<1>10. \A i \in 1..Len(q) : i # 1 => q[i] \in ToSet(r)
  <2> SUFFICES ASSUME NEW i \in 1..Len(q), i # 1 PROVE q[i] \in ToSet(r)
    OBVIOUS
  <2>1. i - 1 \in 1..Len(r) /\ (i - 1) + 1 = i
    BY <1>0, <1>2
  <2> QED
    BY <1>2, <1>7, <2>1
<1>11. ToSet(r) = ToSet(q) \ {q[1]} /\ q[1] \in ToSet(q)
  BY <1>7, <1>8, <1>9, <1>10
<1> QED
  BY <1>1, <1>2, <1>3, <1>5, <1>6, <1>11

-----------------------------------------------------------------------------
\* The table.

TableInv == OrderOK /\ TableConsistent /\ OrderIsLRU
Inverse2(x, y) == \A p \in Peers, i \in Ids : x[p] = i <=> y[i] = p

LEMMA Limit == MaxSessions \in Nat \ {0}
  BY UdpSessionsAssumption DEF MaxSessions, UDPMaxSessions

\* What a step has to show of the table it leaves.
LEMMA TableRebuilt ==
    ASSUME NEW q \in Seq(Peers), order' = q, Once(q), Sorted(q, last'), Len(q) <= MaxSessions,
           Sessions' = ToSet(q), Inverse2(byPeer', byID'), \A p \in Peers : last'[p] <= now'
    PROVE  TableInv'
<1>1. Len(q) = Cardinality(Sessions')
  <2>1. PICK S : S = Sessions'
    OBVIOUS
  <2>2. Cardinality(S) = Len(q)
    BY <2>1, Counted
  <2> QED
    BY <2>1, <2>2
<1>2. TableConsistent'
  BY <1>1 DEF TableConsistent, Inverse2, MaxSessions, UDPMaxSessions
<1>3. OrderOK' /\ OrderIsLRU'
  BY DEF OrderOK, OrderIsLRU, Once, Sorted
<1> QED
  BY <1>2, <1>3 DEF TableInv

LEMMA TableFacts ==
    ASSUME TypeOK, TableInv
    PROVE  /\ order \in Seq(Peers) /\ last \in [Peers -> Nat] /\ now \in Nat
           /\ Once(order) /\ Sorted(order, last) /\ \A p \in Peers : last[p] <= now
           /\ Sessions = ToSet(order) /\ Len(order) = Cardinality(Sessions)
           /\ Len(order) \in Nat /\ Len(order) <= MaxSessions /\ Inverse2(byPeer, byID)
  BY LenProperties
     DEF TypeOK, TableInv, OrderOK, TableConsistent, OrderIsLRU, Once, Sorted, Inverse2

LEMMA TableKept ==
    ASSUME TypeOK, TableInv, UNCHANGED tableVars, now' \in Nat, now' >= now
    PROVE  TableInv'
<1>1. PICK q \in Seq(Peers) : q = order
  BY DEF TypeOK
<1>2. Sessions' = Sessions
  BY DEF Sessions, tableVars
<1>3. \A p \in Peers : last'[p] <= now'
  BY TableFacts DEF tableVars
<1> QED
  BY <1>1, <1>2, <1>3, TableFacts, TableRebuilt DEF tableVars

\* Sessions leave, with their ids.
LEMMA Dropped ==
    ASSUME TypeOK, Inverse2(byPeer, byID), NEW gone \in SUBSET Peers, Drop(gone)
    PROVE  /\ Sessions' = Sessions \ gone /\ Inverse2(byPeer', byID')
           /\ byPeer' \in [Peers -> Ids \cup {NoId}] /\ byID' \in [Ids -> Peers \cup {NoPeer}]
           /\ \A i \in Ids : byID'[i] \in {byID[i], NoPeer}
<1> USE UdpSessionsAssumption
<1>1. /\ byPeer' \in [Peers -> Ids \cup {NoId}] /\ byID' \in [Ids -> Peers \cup {NoPeer}]
      /\ \A i \in Ids : byID'[i] = IF byID[i] \in gone THEN NoPeer ELSE byID[i]
      /\ \A p \in Peers : byPeer'[p] = IF p \in gone THEN NoId ELSE byPeer[p]
  BY DEF Drop, TypeOK
<1>2. Sessions' = Sessions \ gone
  BY <1>1 DEF Sessions
<1>3. Inverse2(byPeer', byID')
  BY <1>1 DEF Inverse2
<1> QED
  BY <1>1, <1>2, <1>3

\* What evictLRULocked leaves: room for one session, and the rest in order.
LEMMA RoomMade ==
    ASSUME TypeOK, TableInv
    PROVE  /\ Kept \in Seq(Peers) /\ Once(Kept) /\ Sorted(Kept, last)
           /\ ToSet(Kept) = Sessions \ Evicted /\ Evicted \subseteq Peers
           /\ Len(Kept) \in Nat /\ Len(Kept) + 1 <= MaxSessions
<1>0. /\ order \in Seq(Peers) /\ last \in [Peers -> Nat]
      /\ Once(order) /\ Sorted(order, last) /\ Sessions = ToSet(order)
      /\ Len(order) = Cardinality(Sessions) /\ Len(order) \in Nat /\ Len(order) <= MaxSessions
  BY TableFacts
<1>1. CASE Cardinality(Sessions) >= MaxSessions
  <2>1. order # <<>>
    BY <1>0, <1>1, Limit
  <2>2. Evicted = {Head(order)}
    BY <1>1, <2>1 DEF Evicted
  <2>3. Kept = Tail(order)
    BY <2>2 DEF Kept
  <2>4. /\ Tail(order) \in Seq(Peers) /\ Once(Tail(order)) /\ Sorted(Tail(order), last)
        /\ Len(Tail(order)) = Len(order) - 1 /\ Head(order) \in ToSet(order)
        /\ ToSet(Tail(order)) = ToSet(order) \ {Head(order)}
    BY <1>0, <2>1, TailOrder
  <2>5. Evicted \subseteq Peers
    BY <1>0, <2>2, <2>4 DEF Sessions
  <2>6. Len(Kept) \in Nat /\ Len(Kept) + 1 <= MaxSessions
    <3>1. Len(Kept) = Len(order) - 1 /\ Len(order) >= 1
      BY <1>0, <1>1, <2>3, <2>4, Limit
    <3> QED
      BY <1>0, <3>1, Limit
  <2> QED
    BY <1>0, <2>2, <2>3, <2>4, <2>5, <2>6
<1>2. CASE ~(Cardinality(Sessions) >= MaxSessions)
  <2>1. Evicted = {} /\ Kept = order
    BY <1>2 DEF Evicted, Kept
  <2>2. Len(order) + 1 <= MaxSessions
    BY <1>0, <1>2, Limit
  <2> QED
    BY <1>0, <2>1, <2>2
<1> QED
  BY <1>1, <1>2

-----------------------------------------------------------------------------
\* The steps that change the table.

LEMMA TableTouch ==
    ASSUME TypeOK, ReaderOK, TableInv, Touch
    PROVE  TableInv' /\ order' \in Seq(Peers) /\ last' \in [Peers -> Nat]
<1> DEFINE p == reader.peer
<1>0. /\ order \in Seq(Peers) /\ last \in [Peers -> Nat] /\ now \in Nat
      /\ Once(order) /\ Sorted(order, last) /\ \A x \in Peers : last[x] <= now
      /\ Sessions = ToSet(order) /\ Len(order) <= MaxSessions /\ Inverse2(byPeer, byID)
  BY TableFacts
<1>1. p \in Peers /\ p \in ToSet(order)
  BY <1>0 DEF Touch, ReaderOK, Sessions
<1>2. /\ last' = [last EXCEPT ![p] = now] /\ order' = Append(RemoveFirst(order, p), p)
      /\ UNCHANGED <<now, byPeer, byID>>
  BY DEF Touch
<1> HIDE DEF p
<1>3. /\ order' \in Seq(Peers) /\ Once(order') /\ Sorted(order', last')
      /\ Len(order') = Len(order) /\ ToSet(order') = ToSet(order)
  <2>0. PICK r : r = RemoveFirst(order, p)
    OBVIOUS
  <2>1. PICK s : s = Append(r, p)
    OBVIOUS
  <2>2. PICK g : g = [last EXCEPT ![p] = now]
    OBVIOUS
  <2>3. NotAfter(last, now)
    BY <1>0 DEF NotAfter
  <2>4. Once(s) /\ Sorted(s, g) /\ Reordered(s, order)
    BY <1>0, <1>1, <2>0, <2>1, <2>2, <2>3, Touched
  <2> QED
    BY <1>2, <2>0, <2>1, <2>2, <2>4 DEF Reordered
<1>4. last' \in [Peers -> Nat] /\ \A x \in Peers : last'[x] <= now'
  BY <1>0, <1>1, <1>2
<1>5. Sessions' = ToSet(order') /\ Inverse2(byPeer', byID') /\ Len(order') <= MaxSessions
  <2>1. Sessions' = Sessions
    BY <1>2 DEF Sessions
  <2> QED
    BY <1>0, <1>2, <1>3, <2>1
<1>6. PICK q \in Seq(Peers) : q = order'
  BY <1>3
<1> QED
  BY <1>3, <1>4, <1>5, <1>6, TableRebuilt

LEMMA TableCreate ==
    ASSUME TypeOK, ReaderOK, TableInv, OneOwner, NEW i \in Ids, Create(i)
    PROVE  /\ TableInv' /\ order' \in Seq(Peers) /\ last' \in [Peers -> Nat]
           /\ byPeer' \in [Peers -> Ids \cup {NoId}] /\ byID' \in [Ids -> Peers \cup {NoPeer}]
           /\ byID'[i] = reader.peer
           /\ \A j \in Ids \ {i} : byID'[j] \in {byID[j], NoPeer}
<1> USE UdpSessionsAssumption
<1> DEFINE p == reader.peer
<1>0. /\ last \in [Peers -> Nat] /\ now \in Nat /\ \A x \in Peers : last[x] <= now
      /\ Inverse2(byPeer, byID) /\ byPeer \in [Peers -> Ids \cup {NoId}]
      /\ byID \in [Ids -> Peers \cup {NoPeer}]
  BY TableFacts DEF TypeOK
<1>1. /\ Kept \in Seq(Peers) /\ Once(Kept) /\ Sorted(Kept, last)
      /\ ToSet(Kept) = Sessions \ Evicted /\ Evicted \subseteq Peers
      /\ Len(Kept) \in Nat /\ Len(Kept) + 1 <= MaxSessions
  BY RoomMade
<1>2. p \in Peers /\ byPeer[p] = NoId /\ i \notin used
  BY DEF Create, ReaderOK
<1>3. /\ byPeer' = [x \in Peers |-> IF x = p THEN i ELSE IF x \in Evicted THEN NoId ELSE byPeer[x]]
      /\ byID' = [j \in Ids |-> IF j = i THEN p ELSE IF byID[j] \in Evicted THEN NoPeer ELSE byID[j]]
      /\ order' = Append(Kept, p) /\ last' = [last EXCEPT ![p] = now] /\ now' = now
  BY DEF Create
<1>4. byID[i] = NoPeer
  BY <1>0, <1>2 DEF OneOwner, Claim
<1> HIDE DEF p
<1>5. /\ \A x \in Peers : byPeer'[x] = IF x = p THEN i ELSE IF x \in Evicted THEN NoId ELSE byPeer[x]
      /\ \A j \in Ids : byID'[j] = IF j = i THEN p ELSE IF byID[j] \in Evicted THEN NoPeer ELSE byID[j]
      /\ byPeer' \in [Peers -> Ids \cup {NoId}] /\ byID' \in [Ids -> Peers \cup {NoPeer}]
  BY <1>0, <1>2, <1>3
<1>6. Sessions' = (Sessions \ Evicted) \cup {p}
  BY <1>2, <1>5 DEF Sessions
<1>7. Inverse2(byPeer', byID')
  <2> SUFFICES ASSUME NEW x \in Peers, NEW j \in Ids PROVE byPeer'[x] = j <=> byID'[j] = x
    BY DEF Inverse2
  <2>1. byPeer[x] = j <=> byID[j] = x
    BY <1>0 DEF Inverse2
  <2>2. byPeer[x] # i /\ byID[j] # p
    BY <1>0, <1>2, <1>4 DEF Inverse2
  <2> QED
    BY <1>1, <1>5, <2>1, <2>2
<1>8. p \notin ToSet(Kept)
  BY <1>1, <1>2 DEF Sessions
<1>9. PICK q : q = order'
  OBVIOUS
<1>14. NotAfter(last, now)
  BY <1>0 DEF NotAfter
<1>10. Once(q) /\ Sorted(q, last') /\ Extends(q, Kept, p) /\ ToSet(q) = ToSet(Kept) \cup {p}
  BY <1>0, <1>1, <1>2, <1>3, <1>8, <1>9, <1>14, PutLast
<1>11. q \in Seq(Peers) /\ Len(q) <= MaxSessions /\ Sessions' = ToSet(q)
  BY <1>1, <1>6, <1>10 DEF Extends
<1>12. last' \in [Peers -> Nat] /\ \A x \in Peers : last'[x] <= now'
  BY <1>0, <1>2, <1>3
<1>13. TableInv'
  BY <1>7, <1>9, <1>10, <1>11, <1>12, TableRebuilt
<1> QED
  BY <1>5, <1>9, <1>11, <1>12, <1>13 DEF p

LEMMA TableCreateFails ==
    ASSUME TypeOK, TableInv, CreateFails
    PROVE  /\ TableInv' /\ order' \in Seq(Peers)
           /\ byPeer' \in [Peers -> Ids \cup {NoId}] /\ byID' \in [Ids -> Peers \cup {NoPeer}]
           /\ \A i \in Ids : byID'[i] \in {byID[i], NoPeer}
<1>1. /\ Kept \in Seq(Peers) /\ Once(Kept) /\ Sorted(Kept, last)
      /\ ToSet(Kept) = Sessions \ Evicted /\ Evicted \subseteq Peers
      /\ Len(Kept) \in Nat /\ Len(Kept) + 1 <= MaxSessions
  BY RoomMade
<1>2. Drop(Evicted) /\ order' = Kept /\ UNCHANGED <<now, last>>
  BY DEF CreateFails
<1>3. PICK gone \in SUBSET Peers : gone = Evicted
  BY <1>1
<1>4. /\ Sessions' = Sessions \ gone /\ Inverse2(byPeer', byID')
      /\ byPeer' \in [Peers -> Ids \cup {NoId}] /\ byID' \in [Ids -> Peers \cup {NoPeer}]
      /\ \A i \in Ids : byID'[i] \in {byID[i], NoPeer}
  BY <1>2, <1>3, Dropped, TableFacts
<1>5. PICK q \in Seq(Peers) : q = Kept
  BY <1>1
<1>6. Len(q) <= MaxSessions /\ \A x \in Peers : last'[x] <= now'
  BY <1>1, <1>2, <1>5, TableFacts, Limit
<1> QED
  BY <1>1, <1>2, <1>3, <1>4, <1>5, <1>6, TableRebuilt

LEMMA TableExpire ==
    ASSUME TypeOK, TableInv, ExpireIdle
    PROVE  /\ TableInv' /\ order' \in Seq(Peers)
           /\ byPeer' \in [Peers -> Ids \cup {NoId}] /\ byID' \in [Ids -> Peers \cup {NoPeer}]
           /\ \A i \in Ids : byID'[i] \in {byID[i], NoPeer}
<1>0. /\ order \in Seq(Peers) /\ last \in [Peers -> Nat] /\ Once(order) /\ Sorted(order, last)
      /\ Sessions = ToSet(order) /\ Len(order) \in Nat /\ Len(order) <= MaxSessions
      /\ Inverse2(byPeer, byID) /\ \A p \in Peers : last[p] <= now
  BY TableFacts
<1>1. PICK gone \in SUBSET Peers :
         Drop(gone) /\ order' = Left(order, gone)[Len(order)] /\ UNCHANGED <<now, last>>
  BY DEF ExpireIdle, Sessions
<1>2. /\ Sessions' = Sessions \ gone /\ Inverse2(byPeer', byID')
      /\ byPeer' \in [Peers -> Ids \cup {NoId}] /\ byID' \in [Ids -> Peers \cup {NoPeer}]
      /\ \A i \in Ids : byID'[i] \in {byID[i], NoPeer}
  BY <1>0, <1>1, Dropped
<1>3. PICK q : q = order'
  OBVIOUS
<1>4. LeftOf(q, order, gone, last, Len(order))
  BY <1>0, <1>1, <1>3, Swept
<1>5. q \in Seq(Peers) /\ Once(q) /\ Sorted(q, last) /\ Len(q) <= Len(order) /\ Len(q) \in Nat
  BY <1>4, LenProperties DEF LeftOf
<1>6. ToSet(q) = ToSet(order) \ gone
  <2>1. ToSet(q) = {q[k] : k \in 1..Len(q)} /\ ToSet(order) = {order[k] : k \in 1..Len(order)}
    BY <1>0, <1>5, LenProperties DEF ToSet
  <2>2. \A k \in 1..Len(q) : q[k] \in ToSet(order) \ gone
    BY <1>4, <2>1 DEF LeftOf
  <2>3. \A k \in 1..Len(order) : order[k] \notin gone => order[k] \in ToSet(q)
    BY <1>4, <2>1 DEF LeftOf
  <2> QED
    BY <2>1, <2>2, <2>3
<1>7. Len(q) <= MaxSessions /\ Sorted(q, last') /\ \A p \in Peers : last'[p] <= now'
  <2>1. Len(q) <= MaxSessions
    BY <1>0, <1>5, Limit
  <2> QED
    BY <1>0, <1>1, <1>5, <2>1
<1> QED
  BY <1>0, <1>2, <1>3, <1>5, <1>6, <1>7, TableRebuilt

LEMMA TableClose ==
    ASSUME TypeOK, TableInv, Close
    PROVE  /\ TableInv' /\ order' \in Seq(Peers)
           /\ byPeer' \in [Peers -> Ids \cup {NoId}] /\ byID' \in [Ids -> Peers \cup {NoPeer}]
           /\ \A i \in Ids : byID'[i] \in {byID[i], NoPeer}
<1>0. Inverse2(byPeer, byID) /\ \A p \in Peers : last[p] <= now
  BY TableFacts
<1>1. PICK gone \in SUBSET Peers : gone = Sessions
  BY DEF Sessions
<1>2. Drop(gone) /\ order' = <<>> /\ UNCHANGED <<now, last>>
  BY <1>1 DEF Close
<1>3. /\ Sessions' = Sessions \ gone /\ Inverse2(byPeer', byID')
      /\ byPeer' \in [Peers -> Ids \cup {NoId}] /\ byID' \in [Ids -> Peers \cup {NoPeer}]
      /\ \A i \in Ids : byID'[i] \in {byID[i], NoPeer}
  BY <1>0, <1>2, Dropped
<1>4. PICK q \in Seq(Peers) : q = <<>>
  BY EmptySeq
<1>5. Len(q) = 0 /\ ToSet(q) = {} /\ 1..0 = {}
  BY <1>4 DEF ToSet
<1>6. Once(q) /\ Sorted(q, last') /\ Len(q) <= MaxSessions
  BY <1>5, Limit DEF Once, Sorted
<1>7. Sessions' = {}
  BY <1>1, <1>3
<1> QED
  BY <1>0, <1>2, <1>3, <1>4, <1>5, <1>6, <1>7, TableRebuilt

-----------------------------------------------------------------------------
\* Types.

LEMMA SessionsInit == Init => SessionsInv
<1> SUFFICES ASSUME Init PROVE SessionsInv
  OBVIOUS
<1> USE UdpSessionsAssumption
<1>1. TypeOK /\ ReaderOK
  BY EmptySeq DEF Init, TypeOK, ReaderOK, Idle
<1>2. order = <<>> /\ Len(order) = 0 /\ 1..0 = {} /\ Sessions = {} /\ ToSet(order) = {}
  BY DEF Init, Sessions, ToSet
<1>3. OrderOK /\ OrderIsLRU
  BY <1>2 DEF Init, OrderOK, OrderIsLRU
<1>4. TableConsistent
  BY <1>2, FS_EmptySet, Limit DEF Init, TableConsistent
<1>5. OneOwner
  <2>1. \A i \in Ids, p \in Peers : ~Claim(i, p)
    BY DEF Init, Claim, Idle
  <2> QED
    BY <2>1 DEF OneOwner
<1>6. ReplyToAsker
  BY DEF Init, ReplyToAsker
<1> QED
  BY <1>1, <1>3, <1>4, <1>5, <1>6 DEF SessionsInv

\* The steps that leave the table alone keep the types.
LEMMA TypesElsewhere ==
    ASSUME TypeOK, ReaderOK, UNCHANGED tableVars,
           \/ Tick \/ (\E p \in Peers : Receive(p)) \/ Forward \/ ClientFrame \/ Return
           \/ (\E s \in socks : LocalReply(s) \/ SocketFails(s))
           \/ ChannelDrops \/ ChannelBack \/ UNCHANGED vars
    PROVE  TypeOK' /\ ReaderOK'
<1> USE DEF chanVars, tableVars, vars
<1>0. \A d \in Seq(Frame), x \in Frame : Append(d, x) \in Seq(Frame)
  BY AppendProperties
<1>1. CASE Tick
  BY <1>1 DEF Tick, TypeOK, ReaderOK
<1>2. ASSUME NEW p \in Peers, Receive(p) PROVE TypeOK' /\ ReaderOK'
  BY <1>2 DEF Receive, TypeOK, ReaderOK
<1>3. CASE Forward
  <2>1. <<reader.id, reader.peer>> \in Frame
    BY <1>3 DEF Forward, ReaderOK, Frame
  <2>2. down' \in Seq(Frame)
    <3>1. down \in Seq(Frame) /\ (down' = down \/ down' = Append(down, <<reader.id, reader.peer>>))
      BY <1>3 DEF Forward, TypeOK
    <3> QED
      BY <1>0, <2>1, <3>1
  <2> QED
    BY <1>3, <2>2 DEF Forward, TypeOK, ReaderOK, Idle
<1>4. CASE ClientFrame
  <2>1. Head(down) \in Frame /\ down' \in Seq(Frame)
    BY <1>4, HeadTailProperties DEF ClientFrame, TypeOK
  <2>2. socks' \subseteq Frame
    BY <1>4, <2>1 DEF ClientFrame, TypeOK
  <2> QED
    BY <1>4, <2>1, <2>2 DEF ClientFrame, TypeOK, ReaderOK
<1>5. CASE Return
  <2>1. up' \in Seq(Frame)
    BY <1>5, HeadTailProperties DEF Return, TypeOK
  <2> QED
    BY <1>5, <2>1 DEF Return, TypeOK, ReaderOK
<1>6. ASSUME NEW s \in socks, LocalReply(s) \/ SocketFails(s) PROVE TypeOK' /\ ReaderOK'
  <2>1. up' \in Seq(Frame) /\ socks' \subseteq Frame
    <3>1. /\ up \in Seq(Frame) /\ s \in Frame /\ socks' \subseteq socks /\ socks \subseteq Frame
          /\ up' = up \/ up' = Append(up, s)
      BY <1>6 DEF LocalReply, SocketFails, TypeOK
    <3> QED
      BY <1>0, <3>1
  <2>2. UNCHANGED <<now, bound, reader, chan, down>>
    BY <1>6 DEF LocalReply, SocketFails
  <2> QED
    BY <2>1, <2>2 DEF TypeOK, ReaderOK
<1>7. CASE ChannelDrops \/ ChannelBack
  BY <1>7, EmptySeq DEF ChannelDrops, ChannelBack, TypeOK, ReaderOK
<1>8. CASE UNCHANGED vars
  BY <1>8 DEF TypeOK, ReaderOK
<1> QED
  BY <1>1, <1>2, <1>3, <1>4, <1>5, <1>6, <1>7, <1>8

\* Types and table, step by step.
LEMMA SessionsTable ==
    ASSUME TypeOK, ReaderOK, TableInv, OneOwner, [Next]_vars
    PROVE  TypeOK' /\ ReaderOK' /\ TableInv'
<1> USE DEF chanVars, tableVars, vars
<1>1. CASE \/ Tick \/ (\E p \in Peers : Receive(p)) \/ Forward \/ ClientFrame \/ Return
           \/ (\E s \in socks : LocalReply(s) \/ SocketFails(s))
           \/ ChannelDrops \/ ChannelBack \/ UNCHANGED vars
  <2>1. UNCHANGED tableVars
    BY <1>1 DEF Tick, Receive, Forward, ClientFrame, Return, LocalReply, SocketFails,
                ChannelDrops, ChannelBack
  <2>2. now' \in Nat /\ now' >= now
    BY <1>1 DEF Tick, Receive, Forward, ClientFrame, Return, LocalReply, SocketFails,
                ChannelDrops, ChannelBack, TypeOK
  <2>3. TypeOK' /\ ReaderOK'
    BY <1>1, <2>1, TypesElsewhere
  <2> QED
    BY <2>1, <2>2, <2>3, TableKept
<1>2. CASE Touch
  <2>1. TableInv' /\ order' \in Seq(Peers) /\ last' \in [Peers -> Nat]
    BY <1>2, TableTouch
  <2>2. byPeer[reader.peer] \in Ids /\ reader.peer \in Peers
    BY <1>2 DEF Touch, TypeOK, ReaderOK
  <2>3. /\ UNCHANGED <<now, byPeer, byID, used, bound, chanVars>>
        /\ reader' = [reader EXCEPT !.st = "send", !.id = byPeer[reader.peer]]
    BY <1>2 DEF Touch
  <2>4. /\ reader' \in [st : {"idle", "lookup", "send"},
                        peer : Peers \cup {NoPeer}, id : Ids \cup {NoId}]
        /\ reader'.peer \in Peers /\ reader'.id \in Ids
    BY <2>2, <2>3 DEF TypeOK
  <2> QED
    BY <2>1, <2>3, <2>4 DEF TypeOK, ReaderOK
<1>3. ASSUME NEW i \in Ids, Create(i) PROVE TypeOK' /\ ReaderOK' /\ TableInv'
  <2>1. /\ TableInv' /\ order' \in Seq(Peers) /\ last' \in [Peers -> Nat]
        /\ byPeer' \in [Peers -> Ids \cup {NoId}] /\ byID' \in [Ids -> Peers \cup {NoPeer}]
    BY <1>3, TableCreate
  <2> QED
    BY <1>3, <2>1 DEF Create, TypeOK, ReaderOK
<1>4. CASE CreateFails
  <2>1. /\ TableInv' /\ order' \in Seq(Peers)
        /\ byPeer' \in [Peers -> Ids \cup {NoId}] /\ byID' \in [Ids -> Peers \cup {NoPeer}]
    BY <1>4, TableCreateFails
  <2> QED
    BY <1>4, <2>1 DEF CreateFails, TypeOK, ReaderOK, Idle
<1>5. CASE ExpireIdle
  <2>1. /\ TableInv' /\ order' \in Seq(Peers)
        /\ byPeer' \in [Peers -> Ids \cup {NoId}] /\ byID' \in [Ids -> Peers \cup {NoPeer}]
    BY <1>5, TableExpire
  <2>2. UNCHANGED <<now, last, used, bound, reader, chanVars, sent>>
    BY <1>5 DEF ExpireIdle
  <2> QED
    BY <2>1, <2>2 DEF TypeOK, ReaderOK
<1>6. CASE Close
  <2>1. /\ TableInv' /\ order' \in Seq(Peers)
        /\ byPeer' \in [Peers -> Ids \cup {NoId}] /\ byID' \in [Ids -> Peers \cup {NoPeer}]
    BY <1>6, TableClose
  <2> QED
    BY <1>6, <2>1 DEF Close, TypeOK, ReaderOK
<1> QED
  BY <1>1, <1>2, <1>3, <1>4, <1>5, <1>6 DEF Next

-----------------------------------------------------------------------------
\* Who a session belongs to.

In(x, d) == \E k \in 1..Len(d) : d[k] = x

LEMMA InAppend ==
    ASSUME NEW d \in Seq(Frame), NEW f \in Frame, NEW x, In(x, Append(d, f))
    PROVE  x = f \/ In(x, d)
<1>1. PICK k \in 1..Len(Append(d, f)) : Append(d, f)[k] = x
  BY DEF In
<1>2. /\ Len(d) \in Nat /\ Len(Append(d, f)) = Len(d) + 1 /\ Append(d, f)[Len(d) + 1] = f
      /\ \A j \in 1..Len(d) : Append(d, f)[j] = d[j]
  BY AppendProperties, LenProperties
<1>3. CASE k = Len(d) + 1
  BY <1>1, <1>2, <1>3
<1>4. CASE k \in 1..Len(d)
  BY <1>1, <1>2, <1>4 DEF In
<1> QED
  BY <1>1, <1>2, <1>3, <1>4

LEMMA InTail ==
    ASSUME NEW d \in Seq(Frame), d # <<>>
    PROVE  In(Head(d), d) /\ \A x : In(x, Tail(d)) => In(x, d)
<1>1. Len(d) \in Nat /\ Len(d) >= 1 /\ Head(d) = d[1]
  BY LenProperties, EmptySeq
<1>2. Len(Tail(d)) = Len(d) - 1 /\ \A k \in 1..Len(Tail(d)) : Tail(d)[k] = d[k + 1]
  BY HeadTailProperties
<1>3. 1 \in 1..Len(d) /\ \A k \in 1..Len(Tail(d)) : k + 1 \in 1..Len(d)
  BY <1>1, <1>2
<1> QED
  BY <1>1, <1>2, <1>3 DEF In

ClaimIn(i, p) == \/ byID[i] = p
                 \/ reader.st = "send" /\ reader.id = i /\ reader.peer = p
                 \/ In(<<i, p>>, down) \/ In(<<i, p>>, up) \/ <<i, p>> \in socks

\* Nobody makes a new claim.
LEMMA OwnerKept ==
    ASSUME OneOwner, used \subseteq used',
           \A i \in Ids, p \in Peers : ClaimIn(i, p)' => ClaimIn(i, p)
    PROVE  OneOwner'
<1>1. \A i \in Ids, p \in Peers : Claim(i, p)' => Claim(i, p)
  BY DEF Claim, ClaimIn, In
<1> QED
  BY <1>1 DEF OneOwner

LEMMA SessionsOwner ==
    ASSUME TypeOK, ReaderOK, TableInv, OneOwner, [Next]_vars
    PROVE  OneOwner'
<1> USE DEF chanVars, tableVars, vars
<1>0. down \in Seq(Frame) /\ up \in Seq(Frame) /\ socks \subseteq Frame
  BY DEF TypeOK
<1>1. CASE Tick \/ ChannelBack \/ UNCHANGED vars
  <2>1. UNCHANGED <<used, byID, reader, down, up, socks>>
    BY <1>1 DEF Tick, ChannelBack
  <2> QED
    BY <2>1, OwnerKept DEF ClaimIn
<1>2. ASSUME NEW p \in Peers, Receive(p) PROVE OneOwner'
  <2>1. UNCHANGED <<used, byID, down, up, socks>> /\ reader'.st = "lookup"
    BY <1>2 DEF Receive
  <2> QED
    BY <2>1, OwnerKept DEF ClaimIn
<1>3. CASE Touch
  <2>1. /\ UNCHANGED <<used, byID, down, up, socks>>
        /\ reader'.id = byPeer[reader.peer] /\ reader'.peer = reader.peer
        /\ reader.peer \in Peers /\ byPeer[reader.peer] \in Ids
    BY <1>3 DEF Touch, TypeOK, ReaderOK
  <2>2. byID[reader'.id] = reader'.peer
    BY <2>1, TableFacts DEF Inverse2
  <2> QED
    BY <2>1, <2>2, OwnerKept DEF ClaimIn
<1>4. ASSUME NEW i \in Ids, Create(i) PROVE OneOwner'
  <2>1. /\ UNCHANGED <<down, up, socks>> /\ used' = used \cup {i} /\ i \notin used
        /\ reader'.id = i /\ reader'.peer = reader.peer /\ reader.peer \in Peers
    BY <1>4 DEF Create, TypeOK, ReaderOK
  <2>2. byID'[i] = reader.peer /\ \A j \in Ids \ {i} : byID'[j] \in {byID[j], NoPeer}
    BY <1>4, TableCreate
  <2>3. \A j \in Ids, p \in Peers : Claim(j, p)' =>
           Claim(j, p) \/ (j = i /\ p = reader.peer)
    BY <2>1, <2>2, UdpSessionsAssumption DEF Claim
  <2>4. \A p \in Peers : ~Claim(i, p)
    BY <2>1 DEF OneOwner
  <2> QED
    BY <2>1, <2>3, <2>4 DEF OneOwner
<1>5. ASSUME UNCHANGED <<used, down, up, socks>>, reader' = reader \/ reader'.st = "idle",
             \A i \in Ids : byID'[i] \in {byID[i], NoPeer}
      PROVE  OneOwner'
  BY <1>5, OwnerKept, UdpSessionsAssumption DEF ClaimIn
<1>6. CASE CreateFails \/ ExpireIdle \/ Close
  <2>1. UNCHANGED <<used, down, up, socks>> /\ (reader' = reader \/ reader'.st = "idle")
    BY <1>6 DEF CreateFails, ExpireIdle, Close, Idle
  <2>2. \A i \in Ids : byID'[i] \in {byID[i], NoPeer}
    BY <1>6, TableCreateFails, TableExpire, TableClose
  <2> QED
    BY <1>5, <2>1, <2>2
<1>7. CASE Forward
  <2>1. /\ UNCHANGED <<used, byID, up, socks>> /\ reader'.st = "idle"
        /\ reader.st = "send" /\ <<reader.id, reader.peer>> \in Frame
        /\ UNCHANGED down \/ down' = Append(down, <<reader.id, reader.peer>>)
    BY <1>7 DEF Forward, Idle, ReaderOK, Frame
  <2>2. \A i \in Ids, p \in Peers : In(<<i, p>>, down') =>
           In(<<i, p>>, down) \/ (reader.id = i /\ reader.peer = p)
    BY <1>0, <2>1, InAppend
  <2> QED
    BY <2>1, <2>2, OwnerKept DEF ClaimIn
<1>8. CASE ClientFrame
  <2>1. /\ UNCHANGED <<used, byID, reader, up>> /\ down # <<>> /\ down' = Tail(down)
        /\ socks' \subseteq socks \cup {Head(down)}
    BY <1>8 DEF ClientFrame
  <2>2. In(Head(down), down) /\ \A x : In(x, down') => In(x, down)
    BY <1>0, <2>1, InTail
  <2> QED
    BY <2>1, <2>2, OwnerKept DEF ClaimIn
<1>9. CASE Return
  <2>1. UNCHANGED <<used, byID, reader, down, socks>> /\ up # <<>> /\ up' = Tail(up)
    BY <1>9 DEF Return
  <2>2. \A x : In(x, up') => In(x, up)
    BY <1>0, <2>1, InTail
  <2> QED
    BY <2>1, <2>2, OwnerKept DEF ClaimIn
<1>10. ASSUME NEW s \in socks, LocalReply(s) PROVE OneOwner'
  <2>1. UNCHANGED <<used, byID, reader, down, socks>> /\ up' = Append(up, s) /\ s \in Frame
    BY <1>0, <1>10 DEF LocalReply
  <2>2. \A x : In(x, up') => x = s \/ In(x, up)
    BY <1>0, <2>1, InAppend
  <2> QED
    BY <2>1, <2>2, OwnerKept DEF ClaimIn
<1>11. ASSUME NEW s \in socks, SocketFails(s) PROVE OneOwner'
  <2>1. UNCHANGED <<used, byID, reader, down, up>> /\ socks' \subseteq socks
    BY <1>11 DEF SocketFails
  <2> QED
    BY <2>1, OwnerKept DEF ClaimIn
<1>12. CASE ChannelDrops
  <2>1. /\ UNCHANGED <<used, byID, reader>> /\ socks' = {} /\ Len(down') = 0 /\ Len(up') = 0
    BY <1>12 DEF ChannelDrops
  <2>2. \A x : ~In(x, down') /\ ~In(x, up')
    BY <2>1 DEF In
  <2> QED
    BY <2>1, <2>2, OwnerKept DEF ClaimIn
<1> QED
  BY <1>1, <1>2, <1>3, <1>4, <1>6, <1>7, <1>8, <1>9, <1>10, <1>11, <1>12 DEF Next

LEMMA SessionsAsker ==
    ASSUME TypeOK, OneOwner, ReplyToAsker, [Next]_vars
    PROVE  ReplyToAsker'
<1> USE DEF chanVars, tableVars, vars
<1>1. CASE Return
  <2> DEFINE x == Head(up)
  <2>1. up # <<>> /\ sent' \in {sent, <<x[2], byID[x[1]]>>}
        /\ (sent' # sent => byID[x[1]] # NoPeer)
    BY <1>1 DEF Return
  <2>2. x \in Frame /\ In(x, up)
    BY <2>1, HeadTailProperties, InTail DEF TypeOK
  <2>3. PICK i \in Ids, p \in Peers : x = <<i, p>>
    BY <2>2 DEF Frame
  <2>4. Claim(i, p) /\ Claim(i, byID[i])
    BY <2>2, <2>3 DEF Claim, In
  <2>5. byID[i] # NoPeer => byID[i] = p
    BY <2>4 DEF OneOwner, TypeOK
  <2> HIDE DEF x
  <2>6. x[1] = i /\ x[2] = p
    BY <2>3
  <2> QED
    BY <2>1, <2>5, <2>6 DEF ReplyToAsker
<1>2. CASE ~Return
  <2>1. sent' = sent
    BY <1>2 DEF Next, Tick, Receive, Touch, Create, CreateFails, Forward, ExpireIdle, Close,
                ClientFrame, LocalReply, SocketFails, ChannelDrops, ChannelBack
  <2> QED
    BY <2>1 DEF ReplyToAsker
<1> QED
  BY <1>1, <1>2

-----------------------------------------------------------------------------
\* SessionsInv holds in every state, whatever the limit, the peers and the
\* delays of frames and answers.
THEOREM SessionsInvariant == Spec => []SessionsInv
<1>1. SessionsInv /\ [Next]_vars => SessionsInv'
  BY SessionsTable, SessionsOwner, SessionsAsker DEF SessionsInv, TableInv
<1> QED
  BY SessionsInit, <1>1, PTL DEF Spec

\* The maps byPeer and byID, the order and the limit agree in every state:
\* sessionFor, its eviction, expireIdle and close leave nothing half removed.
THEOREM SessionsTableConsistent == Spec => []TableConsistent
<1>1. SessionsInv => TableConsistent
  BY DEF SessionsInv
<1> QED
  BY SessionsInvariant, <1>1, PTL

\* The head of the order, which evictLRULocked takes, is a session that has
\* been silent longest.
THEOREM SessionsOrderIsLRU == Spec => []OrderIsLRU
<1>1. SessionsInv => OrderIsLRU
  BY DEF SessionsInv
<1> QED
  BY SessionsInvariant, <1>1, PTL

\* udpChannelReadLoop never sends an answer to another peer than the one it
\* answers, though it finds the peer by a session id that may be stale.
THEOREM SessionsReplyToAsker == Spec => []ReplyToAsker
<1>1. SessionsInv => ReplyToAsker
  BY DEF SessionsInv
<1> QED
  BY SessionsInvariant, <1>1, PTL
=============================================================================
