---------------------------- MODULE SequenceFacts ----------------------------
(***************************************************************************)
(* What the proofs about recursive functions and about sequences share:    *)
(* induction by least elements, the functions that recursion defines, and  *)
(* the elements of sequences that are cut, joined and inserted into.       *)
(***************************************************************************)
EXTENDS Integers, Sequences, SequencesExt, FiniteSetTheorems, TLAPS

(***************************************************************************)
(* Induction.  A set of naturals has a least element, and so has, for      *)
(* inclusion, a set of subsets of a finite set; a function defined by      *)
(* recursion on 0..N exists.                                               *)
(***************************************************************************)
LEMMA SmallestSet ==
  ASSUME NEW S, IsFiniteSet(S), NEW F \in SUBSET (SUBSET S), F # {}
  PROVE  \E m \in F : \A n \in F : n \subseteq m => n = m
<1>1. F \subseteq FiniteSubsetsOf(S)
  BY FS_FiniteSubsetsOfFinite
<1>2. IsWellFoundedOn(StrictSubsetOrdering(S), FiniteSubsetsOf(S))
  BY FS_StrictSubsetOrderingWellFounded
<1>3. PICK m \in F : \A n \in F : ~(<<n, m>> \in StrictSubsetOrdering(S))
  BY <1>1, <1>2, WFMin
<1>4. QED
  BY <1>3 DEF StrictSubsetOrdering

LEMMA LeastNat ==
  ASSUME NEW T \in SUBSET Nat, T # {}
  PROVE  \E x \in T : \A y \in T : x <= y
<1>1. PICK t \in T : t \in Nat
  OBVIOUS
<1> DEFINE F == {1..y : y \in {z \in T : z <= t}}
<1>2. F \subseteq SUBSET (1..t) /\ F # {}
  BY <1>1
<1>3. PICK m \in F : \A n \in F : n \subseteq m => n = m
  <2> HIDE DEF F
  <2>1. PICK S : S = 1..t
    OBVIOUS
  <2>2. IsFiniteSet(S) /\ F \in SUBSET (SUBSET S) /\ F # {}
    BY <1>1, <1>2, <2>1, FS_Interval
  <2>3. QED
    BY <2>2, SmallestSet
<1>4. PICK x \in T : x <= t /\ m = 1..x
  BY <1>3
<1>5. ASSUME NEW y \in T, y < x PROVE FALSE
  <2>1. 1..y \in F /\ 1..y \subseteq 1..x /\ x \in 1..x /\ x \notin 1..y
    BY <1>1, <1>4, <1>5
  <2>2. QED
    BY <1>3, <1>4, <2>1
<1>6. QED
  BY <1>4, <1>5

Iteration(f, n, S, start, step) ==
  f \in [0..n -> S] /\ f[0] = start /\ \A k \in 1..n : f[k] = step[<<k, f[k - 1]>>]

LEMMA Iterates ==
  ASSUME NEW N \in Nat, NEW S, NEW start \in S, NEW step, step \in [(1..N) \X S -> S]
  PROVE  \E f : Iteration(f, N, S, start, step)
<1> DEFINE Good(n) == \E f : Iteration(f, n, S, start, step)
<1>1. Good(0)
  <2>1. [k \in 0..0 |-> start] \in [0..0 -> S] /\ [k \in 0..0 |-> start][0] = start /\ 1..0 = {}
    OBVIOUS
  <2>2. PICK f : f = [k \in 0..0 |-> start]
    OBVIOUS
  <2>3. QED
    BY <2>1, <2>2 DEF Iteration
<1>2. ASSUME NEW n \in Nat, n < N, Good(n) PROVE Good(n + 1)
  <2>1. PICK f \in [0..n -> S] : f[0] = start /\ \A k \in 1..n : f[k] = step[<<k, f[k - 1]>>]
    BY <1>2 DEF Iteration
  <2> DEFINE g == [k \in 0..(n + 1) |-> IF k <= n THEN f[k] ELSE step[<<n + 1, f[n]>>]]
  <2>2. f[n] \in S /\ n + 1 \in 1..N
    BY <1>2
  <2>3. g \in [0..(n + 1) -> S] /\ g[0] = start
    BY <2>1, <2>2
  <2>4. ASSUME NEW k \in 1..(n + 1) PROVE g[k] = step[<<k, g[k - 1]>>]
    <3>1. CASE k <= n
      BY <2>1, <3>1
    <3>2. CASE k = n + 1
      <4>1. g[k] = step[<<k, f[n]>>] /\ g[k - 1] = f[n]
        BY <3>2
      <4>2. QED
        BY <4>1
    <3>3. QED
      BY <3>1, <3>2
  <2>5. PICK h : h = g
    OBVIOUS
  <2>6. QED
    BY <2>3, <2>4, <2>5 DEF Iteration
<1>3. ASSUME ~Good(N) PROVE FALSE
  <2> DEFINE T == {n \in 0..N : ~Good(n)}
  <2> HIDE DEF Good
  <2>1. T # {} /\ T \in SUBSET Nat
    BY <1>3
  <2>2. PICK x \in T : \A y \in T : x <= y
    <3> HIDE DEF T
    <3>1. QED
      BY <2>1, LeastNat
  <2>3. x # 0
    BY <1>1, <2>2
  <2>4. x - 1 \in Nat /\ x - 1 < N /\ Good(x - 1)
    BY <2>2, <2>3
  <2>5. QED
    BY <1>2, <2>2, <2>4
<1>4. QED
  BY <1>3

(***************************************************************************)
(* Sequences.                                                              *)
(***************************************************************************)
(* A sequence with an element put in.                                      *)
PutIn(u, s, S, i, e) ==
  /\ u \in Seq(S) /\ Len(u) = Len(s) + 1 /\ u[i] = e
  /\ \A k \in 1..(i - 1) : u[k] = s[k]
  /\ \A k \in i..Len(s) : u[k + 1] = s[k]

LEMMA InsertionIs ==
  ASSUME NEW S, NEW s \in Seq(S), NEW e \in S, NEW i \in 1..(Len(s) + 1)
  PROVE  PutIn(InsertAt(s, i, e), s, S, i, e)
<1>1. Len(s) \in Nat /\ i \in Nat /\ i >= 1 /\ i <= Len(s) + 1
  OBVIOUS
<1>2. PICK a, b : a = SubSeq(s, 1, i - 1) /\ b = SubSeq(s, i, Len(s))
  OBVIOUS
<1>3. a \in Seq(S) /\ Len(a) = i - 1 /\ \A k \in 1..(i - 1) : a[k] = s[k]
  BY <1>1, <1>2
<1>4. b \in Seq(S) /\ Len(b) = Len(s) - i + 1 /\ \A k \in 1..(Len(s) - i + 1) : b[k] = s[i + k - 1]
  <2>1. \A t \in Seq(S) : \A k \in 1..(Len(t) + 1) :
          /\ SubSeq(t, k, Len(t)) \in Seq(S) /\ Len(SubSeq(t, k, Len(t))) = Len(t) - k + 1
          /\ \A n \in 1..(Len(t) - k + 1) : SubSeq(t, k, Len(t))[n] = t[k + n - 1]
    OBVIOUS
  <2>2. QED
    BY <1>2, <2>1
<1>5. PICK u : u = a \o <<e>> \o b
  OBVIOUS
<1>6. /\ u \in Seq(S) /\ Len(u) = Len(s) + 1
      /\ \A k \in 1..(i - 1) : u[k] = a[k]
      /\ u[i] = e
      /\ \A k \in 1..(Len(s) - i + 1) : u[i + k] = b[k]
  <2>1. \A f, g \in Seq(S) :
          /\ f \o g \in Seq(S) /\ Len(f \o g) = Len(f) + Len(g)
          /\ \A k \in 1..Len(f) : (f \o g)[k] = f[k]
          /\ \A k \in 1..Len(g) : (f \o g)[Len(f) + k] = g[k]
    <3>1. SUFFICES ASSUME NEW f \in Seq(S), NEW g \in Seq(S)
                   PROVE  /\ f \o g \in Seq(S) /\ Len(f \o g) = Len(f) + Len(g)
                          /\ \A k \in 1..Len(f) : (f \o g)[k] = f[k]
                          /\ \A k \in 1..Len(g) : (f \o g)[Len(f) + k] = g[k]
      OBVIOUS
    <3>2. PICK h : h = f \o g
      OBVIOUS
    <3>3. /\ h \in Seq(S) /\ Len(h) = Len(f) + Len(g) /\ Len(f) \in Nat /\ Len(g) \in Nat
          /\ \A k \in 1..Len(h) : h[k] = IF k <= Len(f) THEN f[k] ELSE g[k - Len(f)]
      BY <3>2
    <3>4. ASSUME NEW k \in 1..Len(g) PROVE h[Len(f) + k] = g[k]
      <4>1. PICK n : n = Len(f) + k
        OBVIOUS
      <4>2. n \in 1..Len(h) /\ ~(n <= Len(f)) /\ n - Len(f) = k
        BY <3>3, <4>1
      <4>3. QED
        BY <3>3, <4>1, <4>2
    <3>5. \A k \in 1..Len(f) : h[k] = f[k]
      BY <3>3
    <3>6. QED
      BY <3>2, <3>3, <3>4, <3>5
  <2>2. PICK one : one = <<e>> /\ one \in Seq(S) /\ Len(one) = 1 /\ one[1] = e
    <3>1. <<e>> \in Seq(S) /\ Len(<<e>>) = 1 /\ <<e>>[1] = e
      OBVIOUS
    <3>2. QED
      BY <3>1, Zenon
  <2>3. PICK v : v = a \o one
    OBVIOUS
  <2>4. /\ v \in Seq(S) /\ Len(v) = i /\ v[i] = e
        /\ \A k \in 1..(i - 1) : v[k] = a[k]
    <3>1. /\ v \in Seq(S) /\ Len(v) = Len(a) + Len(one)
          /\ \A k \in 1..Len(a) : v[k] = a[k]
          /\ \A k \in 1..Len(one) : v[Len(a) + k] = one[k]
      BY <1>3, <2>1, <2>2, <2>3
    <3>2. 1 \in 1..Len(one) /\ Len(a) + 1 = i /\ Len(a) + Len(one) = i
      BY <1>1, <1>3, <2>2
    <3>3. QED
      BY <1>3, <2>2, <3>1, <3>2
  <2>5. u = v \o b
    BY <1>5, <2>2, <2>3
  <2>6. /\ u \in Seq(S) /\ Len(u) = Len(v) + Len(b)
        /\ \A k \in 1..Len(v) : u[k] = v[k]
        /\ \A k \in 1..Len(b) : u[Len(v) + k] = b[k]
    BY <1>4, <2>1, <2>4, <2>5
  <2>7. Len(v) = i /\ Len(b) = Len(s) - i + 1 /\ Len(u) = Len(s) + 1
    BY <1>1, <1>4, <2>4, <2>6
  <2>8. \A k \in 1..(i - 1) : u[k] = a[k]
    BY <1>1, <2>4, <2>6, <2>7
  <2>9. u[i] = e
    <3>1. i \in 1..Len(v)
      BY <1>1, <2>7
    <3>2. QED
      BY <2>4, <2>6, <3>1
  <2>10. \A k \in 1..(Len(s) - i + 1) : u[i + k] = b[k]
    BY <2>6, <2>7
  <2>11. QED
    BY <2>6, <2>7, <2>8, <2>9, <2>10
<1>7. InsertAt(s, i, e) = u
  BY <1>2, <1>5 DEF InsertAt
<1>8. \A k \in i..Len(s) : u[k + 1] = s[k]
  <2>1. SUFFICES ASSUME NEW k \in i..Len(s) PROVE u[k + 1] = s[k]
    OBVIOUS
  <2>2. PICK n : n = k - i + 1
    OBVIOUS
  <2>3. n \in 1..(Len(s) - i + 1) /\ i + n = k + 1 /\ i + n - 1 = k
    BY <1>1, <2>1, <2>2
  <2>4. QED
    BY <1>4, <1>6, <2>3
<1>9. \A k \in 1..(i - 1) : u[k] = s[k]
  BY <1>3, <1>6
<1>10. QED
  BY <1>6, <1>7, <1>8, <1>9 DEF PutIn

(* What two sequences make joined, and what cutting one leaves.            *)
Joined(u, f, g, S) ==
  /\ u \in Seq(S) /\ Len(u) = Len(f) + Len(g)
  /\ \A k \in 1..Len(f) : u[k] = f[k]
  /\ \A k \in 1..Len(g) : u[Len(f) + k] = g[k]

LEMMA JoinIs ==
  ASSUME NEW S, NEW f \in Seq(S), NEW g \in Seq(S)
  PROVE  Joined(f \o g, f, g, S)
<1>1. PICK h : h = f \o g
  OBVIOUS
<1>2. /\ h \in Seq(S) /\ Len(h) = Len(f) + Len(g) /\ Len(f) \in Nat /\ Len(g) \in Nat
      /\ \A k \in 1..Len(h) : h[k] = IF k <= Len(f) THEN f[k] ELSE g[k - Len(f)]
  BY <1>1
<1>3. ASSUME NEW k \in 1..Len(g) PROVE h[Len(f) + k] = g[k]
  <2>1. PICK n : n = Len(f) + k
    OBVIOUS
  <2>2. n \in 1..Len(h) /\ ~(n <= Len(f)) /\ n - Len(f) = k
    BY <1>2, <2>1
  <2>3. QED
    BY <1>2, <2>1, <2>2
<1>4. \A k \in 1..Len(f) : h[k] = f[k]
  BY <1>2
<1>5. QED
  BY <1>1, <1>2, <1>3, <1>4 DEF Joined

FrontOf(u, s, n, S) == u \in Seq(S) /\ Len(u) = n /\ \A k \in 1..n : u[k] = s[k]
RestOf(u, s, n, S) ==
  u \in Seq(S) /\ Len(u) = Len(s) - n /\ \A k \in 1..(Len(s) - n) : u[k] = s[n + k]

LEMMA CutIs ==
  ASSUME NEW S, NEW s \in Seq(S), NEW n \in 0..Len(s)
  PROVE  FrontOf(SubSeq(s, 1, n), s, n, S) /\ RestOf(SubSeq(s, n + 1, Len(s)), s, n, S)
<1>1. PICK u, v : u = SubSeq(s, 1, n) /\ v = SubSeq(s, n + 1, Len(s))
  OBVIOUS
<1>2. FrontOf(u, s, n, S)
  BY <1>1 DEF FrontOf
<1>3. v \in Seq(S) /\ Len(v) = Len(s) - n /\ \A k \in 1..(Len(s) - n) : v[k] = s[n + k]
  <2>1. \A t \in Seq(S) : \A k \in 0..Len(t) :
          /\ SubSeq(t, k + 1, Len(t)) \in Seq(S) /\ Len(SubSeq(t, k + 1, Len(t))) = Len(t) - k
          /\ \A m \in 1..(Len(t) - k) : SubSeq(t, k + 1, Len(t))[m] = t[k + m]
    OBVIOUS
  <2>2. QED
    BY <1>1, <2>1
<1>4. QED
  BY <1>1, <1>2, <1>3 DEF RestOf

LEMMA SameElements ==
  ASSUME NEW S, NEW f \in Seq(S), NEW g \in Seq(S), Len(f) = Len(g),
         \A k \in 1..Len(f) : f[k] = g[k]
  PROVE  f = g
OBVIOUS
=============================================================================
