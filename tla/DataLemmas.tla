----------------------------- MODULE DataLemmas -----------------------------
(* Facts about numbers and sequences that several proofs need: least and   *)
(* greatest elements, induction in a first-order form (over a set, where   *)
(* the library's is over an operator), division by a constant of the       *)
(* model, and what sieving a sequence leaves.                              *)
EXTENDS Integers, Sieve, WellFoundedInduction, TLAPS

(* A set of naturals that is not empty has a least element.                *)
LEMMA Least ==
    ASSUME NEW S \in SUBSET Nat, S # {}
    PROVE  \E m \in S : \A k \in S : m <= k
<1> DEFINE R == OpToRel(<, Nat)
<1>1. IsWellFoundedOn(R, Nat)
  BY NatLessThanWellFounded
<1>2. \A y, x \in Nat : y < x => <<y, x>> \in R
  BY DEF OpToRel
<1> HIDE DEF R
<1>3. PICK x \in S : \A y \in S : ~ (<<y, x>> \in R)
  BY <1>1, WFMin
<1>4. \A y \in S : x \in Nat /\ y \in Nat /\ ~ (y < x)
  BY <1>2, <1>3
<1> QED
  BY <1>4

(* A set of integers with an upper bound has a greatest element.           *)
LEMMA Greatest ==
    ASSUME NEW S \in SUBSET Int, S # {}, NEW b \in Int, \A x \in S : x <= b
    PROVE  \E m \in S : \A k \in S : k <= m
<1> DEFINE D == {n \in Nat : b - n \in S}
<1>1. D # {}
  <2>1. PICK x \in S : TRUE
    OBVIOUS
  <2>2. b - x \in Nat /\ b - (b - x) = x
    BY <2>1
  <2> QED
    BY <2>1, <2>2
<1>2. PICK d \in D : \A k \in D : d <= k
  <2>1. D \in SUBSET Nat
    OBVIOUS
  <2> HIDE DEF D
  <2> QED
    BY <1>1, <2>1, Least
<1>3. ASSUME NEW x \in S PROVE x <= b - d
  <2>1. b - x \in Nat /\ b - (b - x) = x
    BY <1>3
  <2> QED
    BY <1>2, <2>1
<1> QED
  BY <1>2, <1>3

(* Induction: a set that holds 0 and with n also n + 1 holds every natural.*)
LEMMA Induction ==
    ASSUME NEW S, 0 \in S, \A n \in Nat : n \in S => n + 1 \in S
    PROVE  Nat \subseteq S
<1> SUFFICES ASSUME ~(Nat \subseteq S) PROVE FALSE
  OBVIOUS
<1>1. PICK m \in Nat \ S : \A k \in Nat \ S : m <= k
  <2>1. Nat \ S \in SUBSET Nat /\ Nat \ S # {}
    OBVIOUS
  <2> QED
    BY <2>1, Least
<1>2. m # 0 /\ m - 1 \in Nat /\ m - 1 \in S
  BY <1>1
<1> QED
  BY <1>1, <1>2

(* The same over an interval.                                              *)
LEMMA IntervalInduction ==
    ASSUME NEW S, NEW lo \in Int, NEW hi \in Int, lo \in S,
           \A i \in lo + 1 .. hi : i - 1 \in S => i \in S
    PROVE  lo .. hi \subseteq S
<1> DEFINE D == {k \in Nat : lo + k <= hi => lo + k \in S}
<1>1. 0 \in D
  OBVIOUS
<1>2. ASSUME NEW k \in Nat, k \in D PROVE k + 1 \in D
  <2>1. ASSUME lo + (k + 1) <= hi PROVE lo + (k + 1) \in S
    <3>1. lo + (k + 1) \in lo + 1 .. hi /\ (lo + (k + 1)) - 1 = lo + k /\ lo + k \in S
      BY <1>2, <2>1
    <3> QED
      BY <3>1
  <2> QED
    BY <2>1
<1> HIDE DEF D
<1>3. Nat \subseteq D
  BY <1>1, <1>2, Induction
<1>4. ASSUME NEW i \in lo .. hi PROVE i \in S
  <2>1. i - lo \in Nat /\ lo + (i - lo) = i
    OBVIOUS
  <2>2. i - lo \in D
    BY <1>3, <2>1
  <2> QED
    BY <2>1, <2>2 DEF D
<1> QED
  BY <1>4

(* What a loop leaves turn by turn: f is a at lo, and from there on st     *)
(* takes the value at i - 1 to the one at i.                               *)
Turns(f, V, a, lo, hi, st) ==
    /\ f \in [lo .. hi -> V]
    /\ f[lo] = a
    /\ \A i \in lo + 1 .. hi : f[i] = st[i][f[i - 1]]

LEMMA Recursion ==
    ASSUME NEW V, NEW a \in V, NEW lo \in Int, NEW hi \in Int, lo <= hi,
           NEW st \in [lo + 1 .. hi -> [V -> V]]
    PROVE  \E f : Turns(f, V, a, lo, hi, st)
<1> DEFINE Upto(f, k) == /\ f \in [lo .. lo + k -> V]
                         /\ f[lo] = a
                         /\ \A i \in lo + 1 .. lo + k : f[i] = st[i][f[i - 1]]
           Done == {k \in Nat : lo + k <= hi => \E f : Upto(f, k)}
<1>1. 0 \in Done
  <2>1. Upto([i \in lo .. lo + 0 |-> a], 0)
    OBVIOUS
  <2> QED
    BY <2>1
<1>2. ASSUME NEW k \in Nat, k \in Done PROVE k + 1 \in Done
  <2> SUFFICES ASSUME lo + (k + 1) <= hi PROVE \E f : Upto(f, k + 1)
    OBVIOUS
  <2>1. PICK f : Upto(f, k)
    BY <1>2
  <2>2. lo + (k + 1) = (lo + k) + 1 /\ lo + k \in Int
    OBVIOUS
  <2> DEFINE n == lo + k
             g == [i \in lo .. n + 1 |-> IF i = n + 1 THEN st[n + 1][f[n]] ELSE f[i]]
  <2>3. /\ n \in Int /\ lo <= n /\ n + 1 <= hi
        /\ f \in [lo .. n -> V] /\ f[lo] = a
        /\ \A i \in lo + 1 .. n : f[i] = st[i][f[i - 1]]
    BY <2>1
  <2> HIDE DEF n
  <2>4. f[n] \in V /\ st[n + 1][f[n]] \in V
    BY <2>3
  <2>5. g \in [lo .. n + 1 -> V] /\ g[n + 1] = st[n + 1][f[n]]
        /\ \A i \in lo .. n : g[i] = f[i]
    BY <2>3, <2>4
  <2> HIDE DEF g
  <2>6. g[lo] = a
    BY <2>3, <2>5
  <2>7. ASSUME NEW i \in lo + 1 .. n + 1 PROVE g[i] = st[i][g[i - 1]]
    <3>1. CASE i = n + 1
      <4>1. i - 1 = n /\ n \in lo .. n
        BY <2>3, <3>1
      <4> QED
        BY <2>5, <3>1, <4>1
    <3>2. CASE i # n + 1
      <4>1. i \in lo + 1 .. n /\ i \in lo .. n /\ i - 1 \in lo .. n
        BY <2>3, <3>2
      <4> QED
        BY <2>3, <2>5, <4>1
    <3> QED
      BY <3>1, <3>2
  <2>8. Upto(g, k + 1)
    BY <2>2, <2>5, <2>6, <2>7 DEF n
  <2> QED
    BY <2>8
<1> HIDE DEF Done
<1>3. Nat \subseteq Done
  BY <1>1, <1>2, Induction
<1>4. hi - lo \in Done /\ lo + (hi - lo) = hi
  <2>1. hi - lo \in Nat /\ lo + (hi - lo) = hi
    OBVIOUS
  <2> QED
    BY <1>3, <2>1
<1>5. PICK f : Upto(f, hi - lo)
  BY <1>4 DEF Done
<1> QED
  BY <1>4, <1>5 DEF Turns

(* What is left of a set of integers, when all that left it was smaller    *)
(* than all that stayed, is what is above the greatest that left.          *)
LEMMA LowerPartRemoved ==
    ASSUME NEW A \in SUBSET Int, NEW B \in SUBSET A, A # B,
           NEW top \in Int, \A x \in A : x <= top,
           \A x \in A \ B, y \in B : x < y
    PROVE  \E b \in A : B = {x \in A : x > b}
<1>1. PICK b \in A \ B : \A x \in A \ B : x <= b
  <2>1. A \ B \in SUBSET Int /\ A \ B # {} /\ \A x \in A \ B : x <= top
    OBVIOUS
  <2> QED
    BY <2>1, Greatest
<1>2. \A x \in A : x > b => x \in B
  BY <1>1
<1>3. \A x \in B : x > b
  BY <1>1
<1> QED
  BY <1>1, <1>2, <1>3

(* One step round a ring of c places.                                      *)
LEMMA NextInRing ==
    ASSUME NEW c \in Nat \ {0}, NEW i \in 0 .. c - 1
    PROVE  (i + 1) % c = IF i = c - 1 THEN 0 ELSE i + 1
<1>1. CASE i = c - 1
  BY <1>1
<1>2. CASE i # c - 1
  BY <1>2
<1> QED
  BY <1>1, <1>2

(* k places ahead and k places back in a ring of c places.                 *)
LEMMA AheadInRing ==
    ASSUME NEW c \in Nat \ {0}, NEW i \in 0 .. c - 1, NEW k \in 0 .. c - 1
    PROVE  (i + k) % c = IF i + k < c THEN i + k ELSE i + k - c
<1>1. CASE i + k < c
  BY <1>1
<1>2. CASE i + k >= c
  <2> DEFINE q == (i + k) \div c
             r == (i + k) % c
  <2>1. i + k = c * q + r /\ r \in 0 .. c - 1 /\ q \in Int
    OBVIOUS
  <2> HIDE DEF q, r
  <2>2. c * (q - 1) = c * q - c
    BY <2>1
  <2>3. (q - 1 >= 1 => c * (q - 1) >= c) /\ (q - 1 <= -1 => c * (q - 1) <= -c)
    BY <2>1
  <2>4. q - 1 = 0
    BY <1>2, <2>1, <2>2, <2>3
  <2> QED
    BY <1>2, <2>1, <2>2, <2>4 DEF r
<1> QED
  BY <1>1, <1>2

LEMMA BackInRing ==
    ASSUME NEW c \in Nat \ {0}, NEW i \in 0 .. c - 1, NEW k \in 1 .. c
    PROVE  (i - k) % c = IF k <= i THEN i - k ELSE i - k + c
<1>1. CASE k <= i
  BY <1>1
<1>2. CASE k > i
  BY <1>2
<1> QED
  BY <1>1, <1>2

(* A place in a ring of n blocks of b is in one of them.                   *)
LEMMA BlockOf ==
    ASSUME NEW b \in Nat \ {0}, NEW n \in Nat, NEW i \in Nat, i < n * b
    PROVE  i \div b \in 0 .. n - 1
  OBVIOUS

(* The block that begins at a.                                             *)
LEMMA SameBlock ==
    ASSUME NEW b \in Nat \ {0}, NEW a \in Nat, a % b = 0, NEW i \in Nat
    PROVE  i \div b = a \div b <=> a <= i /\ i < a + b
  OBVIOUS

----------------------------------------------------------------------------
\* g sieves s position by position, up to the n-th.
SieveFunction(g, s, I, n) ==
    g = [i \in 0 .. n |->
           IF i = 0 THEN <<>>
           ELSE IF i \in I THEN Append(g[i - 1], s[i])
           ELSE g[i - 1]]

\* The positions of I up to n at which s has the elements of t, in order.
Positions(at, t, s, I, n) ==
    /\ at \in [1 .. Len(t) -> I \cap 1 .. n]
    /\ \A j \in 1 .. Len(t) : t[j] = s[at[j]]
    /\ \A j, k \in 1 .. Len(t) : j < k => at[j] < at[k]
    /\ \A i \in I \cap 1 .. n : \E j \in 1 .. Len(t) : at[j] = i

LEMMA SieveExists ==
    ASSUME NEW s, NEW I, NEW n \in Nat
    PROVE  \E g : SieveFunction(g, s, I, n)
<1> DEFINE Done == {m \in Nat : \E g : SieveFunction(g, s, I, m)}
<1>1. 0 \in Done
  <2>1. SieveFunction([i \in 0 .. 0 |-> <<>>], s, I, 0)
    BY DEF SieveFunction
  <2> QED
    BY <2>1
<1>2. ASSUME NEW m \in Nat, m \in Done PROVE m + 1 \in Done
  <2>1. PICK g : SieveFunction(g, s, I, m)
    BY <1>2
  <2> DEFINE Step(v, i) == IF i \in I THEN Append(v, s[i]) ELSE v
             h == [i \in 0 .. m + 1 |-> IF i = m + 1 THEN Step(g[m], m + 1) ELSE g[i]]
  <2>2. \A i \in 0 .. m : g[i] = IF i = 0 THEN <<>> ELSE Step(g[i - 1], i)
    BY <2>1 DEF SieveFunction
  <2>3. h = [i \in 0 .. m + 1 |-> h[i]]
    OBVIOUS
  <2>4. h[m + 1] = Step(g[m], m + 1) /\ \A i \in 0 .. m : h[i] = g[i]
    OBVIOUS
  <2> HIDE DEF h, Step
  <2>5. \A i \in 0 .. m + 1 : h[i] = IF i = 0 THEN <<>> ELSE Step(h[i - 1], i)
    <3> SUFFICES ASSUME NEW i \in 0 .. m + 1
                 PROVE  h[i] = IF i = 0 THEN <<>> ELSE Step(h[i - 1], i)
      OBVIOUS
    <3>1. CASE i \in 0 .. m
      BY <2>2, <2>4, <3>1
    <3>2. CASE i = m + 1
      BY <2>4, <3>2
    <3> QED
      BY <3>1, <3>2
  <2>6. SieveFunction(h, s, I, m + 1)
    BY <2>3, <2>5 DEF SieveFunction, Step
  <2> QED
    BY <2>6
<1> HIDE DEF Done
<1>3. Nat \subseteq Done
  BY <1>1, <1>2, Induction
<1> QED
  BY <1>3 DEF Done

\* What one more position adds.
LEMMA SieveStep ==
    ASSUME NEW S, NEW s \in Seq(S), NEW I, NEW n \in Nat, n + 1 <= Len(s),
           NEW t \in Seq(S), NEW at, Positions(at, t, s, I, n),
           NEW u, u = IF n + 1 \in I THEN Append(t, s[n + 1]) ELSE t
    PROVE  u \in Seq(S) /\ \E up : Positions(up, u, s, I, n + 1)
<1>1. CASE n + 1 \notin I
  <2>1. I \cap 1 .. n + 1 = I \cap 1 .. n
    BY <1>1
  <2>2. Positions(at, u, s, I, n + 1)
    BY <1>1, <2>1 DEF Positions
  <2> QED
    BY <1>1, <2>2
<1>2. CASE n + 1 \in I
  <2> DEFINE up == [j \in 1 .. Len(t) + 1 |-> IF j = Len(t) + 1 THEN n + 1 ELSE at[j]]
  <2>1. /\ u \in Seq(S) /\ Len(u) = Len(t) + 1 /\ Len(t) \in Nat
        /\ \A j \in 1 .. Len(t) : u[j] = t[j]
        /\ u[Len(t) + 1] = s[n + 1]
    BY <1>2
  <2>2. \A j \in 1 .. Len(t) : at[j] \in I /\ at[j] \in 1 .. n
    BY DEF Positions
  <2>3. /\ up[Len(t) + 1] = n + 1
        /\ \A j \in 1 .. Len(t) : up[j] = at[j]
    BY <2>1
  <2>4. up \in [1 .. Len(u) -> I \cap 1 .. n + 1]
    BY <1>2, <2>1, <2>2
  <2> HIDE DEF up
  <2>5. \A j \in 1 .. Len(u) : u[j] = s[up[j]]
    BY <2>1, <2>3 DEF Positions
  <2>6. \A j, k \in 1 .. Len(u) : j < k => up[j] < up[k]
    <3> SUFFICES ASSUME NEW j \in 1 .. Len(u), NEW k \in 1 .. Len(u), j < k
                 PROVE  up[j] < up[k]
      OBVIOUS
    <3>1. j \in 1 .. Len(t) /\ up[j] = at[j] /\ at[j] \in 1 .. n
      BY <2>1, <2>2, <2>3
    <3>2. CASE k = Len(t) + 1
      BY <2>3, <3>1, <3>2
    <3>3. CASE k \in 1 .. Len(t)
      BY <2>3, <3>1, <3>3 DEF Positions
    <3> QED
      BY <2>1, <3>2, <3>3
  <2>7. \A i \in I \cap 1 .. n + 1 : \E j \in 1 .. Len(u) : up[j] = i
    <3> SUFFICES ASSUME NEW i \in I, i \in 1 .. n + 1
                 PROVE  \E j \in 1 .. Len(u) : up[j] = i
      OBVIOUS
    <3>1. CASE i = n + 1
      BY <2>1, <2>3, <3>1
    <3>2. CASE i \in 1 .. n
      <4>1. PICK j \in 1 .. Len(t) : at[j] = i
        BY <3>2 DEF Positions
      <4> QED
        BY <2>1, <2>3, <4>1
    <3> QED
      BY <3>1, <3>2
  <2>8. Positions(up, u, s, I, n + 1)
    BY <2>4, <2>5, <2>6, <2>7 DEF Positions
  <2> QED
    BY <2>1, <2>8
<1> QED
  BY <1>1, <1>2

(* A sieved sequence has the chosen elements, all of them, in their order. *)
LEMMA SievedElements ==
    ASSUME NEW S, NEW s \in Seq(S), NEW I
    PROVE  /\ Sieved(s, I) \in Seq(S)
           /\ \E at : Positions(at, Sieved(s, I), s, I, Len(s))
<1> DEFINE f == CHOOSE g : SieveFunction(g, s, I, Len(s))
           Done == {n \in Nat : n <= Len(s) =>
                      /\ f[n] \in Seq(S)
                      /\ \E at : Positions(at, f[n], s, I, n)}
<1>1. Sieved(s, I) = f[Len(s)]
  BY DEF Sieved, SieveFunction
<1>2. SieveFunction(f, s, I, Len(s))
  BY SieveExists
<1> HIDE DEF f
<1>3. /\ f[0] = <<>>
      /\ \A i \in 1 .. Len(s) :
           f[i] = IF i \in I THEN Append(f[i - 1], s[i]) ELSE f[i - 1]
  <2>1. PICK g : g = f /\ SieveFunction(g, s, I, Len(s))
    BY <1>2
  <2>2. \A i \in 0 .. Len(s) : g[i] = IF i = 0 THEN <<>>
                                     ELSE IF i \in I THEN Append(g[i - 1], s[i])
                                     ELSE g[i - 1]
    BY <2>1 DEF SieveFunction
  <2>3. Len(s) \in Nat
    OBVIOUS
  <2> QED
    BY <2>1, <2>2, <2>3
<1>4. 0 \in Done
  <2>1. Positions(<<>>, <<>>, s, I, 0)
    BY DEF Positions
  <2>2. <<>> \in Seq(S)
    OBVIOUS
  <2> QED
    BY <1>3, <2>1, <2>2
<1>5. ASSUME NEW n \in Nat, n \in Done PROVE n + 1 \in Done
  <2> SUFFICES ASSUME n + 1 <= Len(s)
               PROVE  /\ f[n + 1] \in Seq(S)
                      /\ \E at : Positions(at, f[n + 1], s, I, n + 1)
    OBVIOUS
  <2>1. f[n] \in Seq(S) /\ \E at : Positions(at, f[n], s, I, n)
    BY <1>5
  <2>2. f[n + 1] = IF n + 1 \in I THEN Append(f[n], s[n + 1]) ELSE f[n]
    BY <1>3
  <2> QED
    BY <2>1, <2>2, SieveStep
<1>6. Nat \subseteq Done
  <2> HIDE DEF Done
  <2> QED
    BY <1>4, <1>5, Induction
<1> QED
  BY <1>1, <1>6
=============================================================================
