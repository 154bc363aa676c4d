----------------------------- MODULE LoopTheorems -----------------------------
(***************************************************************************)
(* Loops as functions of the number of turns taken.  A loop's state after   *)
(* k turns is defined by recursion on k; these say that such a function     *)
(* exists, is the only one, and that what each turn keeps holds at the end. *)
(* They rest on every nonempty set of naturals having a least element.      *)
(***************************************************************************)
EXTENDS Integers, WellFoundedInduction, TLAPS

\* The library's order on naturals, as the provers take it.
LEMMA LessThanNat ==
    ASSUME NEW a \in Nat, NEW b \in Nat, ~(<<a, b>> \in OpToRel(<, Nat))
    PROVE  ~(a < b)
<1>1. <<a, b>>[1] = a /\ <<a, b>>[2] = b
    OBVIOUS
<1>2. <<a, b>> \in Nat \X Nat
    OBVIOUS
<1> QED BY <1>1, <1>2, Zenon DEF OpToRel

\* Every nonempty set of naturals has a least element.
LEMMA LeastNat ==
    ASSUME NEW S, S \subseteq Nat, S # {}
    PROVE  \E x \in S : \A y \in S : x <= y
<1>1. \E x \in S : \A y \in S : ~(<<y, x>> \in OpToRel(<, Nat))
    BY NatLessThanWellFounded, WFMin
<1>2. PICK x \in S : \A y \in S : ~(<<y, x>> \in OpToRel(<, Nat))
    BY <1>1
<1>3. \A y \in S : ~(y < x)
    BY <1>2, LessThanNat, Zenon
<1>4. \A y \in S : x <= y
    BY <1>3
<1> QED BY <1>4

\* Every nonempty set of naturals up to B has a greatest element.
LEMMA GreatestNat ==
    ASSUME NEW B \in Nat, NEW S, S \subseteq 0..B, S # {}
    PROVE  \E x \in S : \A y \in S : y <= x
<1>1. PICK T : T = {B - x : x \in S}
    OBVIOUS
<1>2. T \subseteq Nat /\ T # {}
  <2>1. \A x \in S : B - x \in Nat
      OBVIOUS
  <2> QED BY <1>1, <2>1
<1>3. PICK t \in T : \A y \in T : t <= y
    BY <1>2, LeastNat
<1>4. PICK x \in S : t = B - x
    BY <1>1, <1>3
<1>5. ASSUME NEW y \in S PROVE y <= x
  <2>1. t <= B - y
      BY <1>1, <1>3
  <2> QED BY <1>4, <2>1
<1> QED BY <1>5

\* What holds at 0 and is passed on by each step holds up to N.
LEMMA UpTo ==
    ASSUME NEW N \in Nat, NEW Good, 0 \in Good, \A n \in 1..N : n - 1 \in Good => n \in Good
    PROVE  0..N \subseteq Good
<1> DEFINE Bad == (0..N) \ Good
<1>1. SUFFICES ASSUME Bad # {} PROVE FALSE
    OBVIOUS
<1>2. Bad \subseteq Nat
    OBVIOUS
<1>3. PICK n \in Bad : \A k \in Bad : n <= k
  <2> HIDE DEF Bad
  <2> QED BY <1>1, <1>2, LeastNat
<1>4. n \in 1..N
    BY <1>2, <1>3
<1>5. n - 1 \notin Bad
    BY <1>2, <1>3, <1>4
<1>6. n - 1 \in Good
    BY <1>4, <1>5
<1> QED BY <1>3, <1>4, <1>6

\* The states of a loop over N turns, the n-th of which makes F[n][x] of x.
Turns(N, S, base, F) ==
    {g \in [0..N -> S] : g[0] = base /\ \A n \in 1..N : g[n] = F[n][g[n - 1]]}

\* Every loop has them: no shortest loop is without.
LEMMA TurnsExist ==
    ASSUME NEW N \in Nat, NEW S, NEW base \in S, NEW F \in [1..N -> [S -> S]]
    PROVE  Turns(N, S, base, F) # {}
<1> DEFINE Good == {n \in 0..N : Turns(n, S, base, F) # {}}
<1>1. 0 \in Good
  <2>1. [n \in 0..0 |-> base] \in Turns(0, S, base, F)
      BY DEF Turns
  <2> QED BY <2>1
<1>2. ASSUME NEW n \in 1..N, n - 1 \in Good PROVE n \in Good
  <2>1. PICK g : g \in Turns(n - 1, S, base, F)
      BY <1>2
  <2>2. g \in [0..(n - 1) -> S] /\ g[0] = base /\ \A k \in 1..(n - 1) : g[k] = F[k][g[k - 1]]
      BY <2>1 DEF Turns
  <2> PICK next : next = F[n][g[n - 1]]
      OBVIOUS
  <2>3. next \in S
      BY <2>2
  <2> PICK h : h = [k \in 0..n |-> IF k = n THEN next ELSE g[k]]
      OBVIOUS
  <2>4. h \in [0..n -> S] /\ h[0] = base /\ h[n] = next /\ \A k \in 0..(n - 1) : h[k] = g[k]
      BY <2>2, <2>3
  <2>5. ASSUME NEW k \in 1..n PROVE h[k] = F[k][h[k - 1]]
    <3>1. CASE k = n
        BY <2>4, <3>1
    <3>2. CASE k # n
      <4>1. k \in 1..(n - 1) /\ k \in 0..(n - 1) /\ k - 1 \in 0..(n - 1)
          BY <3>2
      <4> QED BY <2>2, <2>4, <4>1
    <3> QED BY <3>1, <3>2
  <2>6. h \in Turns(n, S, base, F)
      BY <2>4, <2>5 DEF Turns
  <2> QED BY <2>6
<1>3. 0..N \subseteq Good
  <2> HIDE DEF Good
  <2> QED BY <1>1, <1>2, UpTo
<1>4. N \in 0..N
    OBVIOUS
<1> QED BY <1>3, <1>4

\* Two loops that start alike and whose turns agree are the same.
LEMMA TurnsAgree ==
    ASSUME NEW N \in Nat, NEW f, NEW g, f[0] = g[0],
           \A n \in 1..N : f[n - 1] = g[n - 1] => f[n] = g[n]
    PROVE  \A n \in 0..N : f[n] = g[n]
<1> DEFINE Good == {n \in 0..N : f[n] = g[n]}
<1>1. 0 \in Good
    OBVIOUS
<1>2. ASSUME NEW n \in 1..N, n - 1 \in Good PROVE n \in Good
  <2>1. f[n] = g[n]
      BY <1>2
  <2> QED BY <2>1
<1>3. 0..N \subseteq Good
  <2> HIDE DEF Good
  <2> QED BY <1>1, <1>2, UpTo
<1> QED BY <1>3

\* A number is its quotient times the divisor and its remainder.
LEMMA Division ==
    ASSUME NEW a \in Int, NEW d \in Nat, d > 0
    PROVE  a \div d \in Int /\ a % d \in 0..(d - 1) /\ a = d * (a \div d) + (a % d)
    OBVIOUS

\* What a quotient and a remainder are.
LEMMA DivisionIs ==
    ASSUME NEW a \in Int, NEW d \in Nat, NEW q \in Int, NEW r \in 0..(d - 1), a = d * q + r
    PROVE  a \div d = q /\ a % d = r
<1>1. PICK x \in Int, y \in 0..(d - 1) : x = a \div d /\ y = a % d /\ a = d * x + y
    BY Division
<1>2. ASSUME x < q PROVE FALSE
  <2>1. PICK e \in Nat : q = x + 1 + e
    <3>1. q - x - 1 \in Nat /\ q = x + 1 + (q - x - 1)
        BY <1>2
    <3> QED BY <3>1
  <2>2. d * q = d * x + d + d * e /\ d * e \in Nat /\ d * x \in Int
      BY <2>1
  <2> QED BY <1>1, <2>2
<1>3. ASSUME q < x PROVE FALSE
  <2>1. PICK e \in Nat : x = q + 1 + e
    <3>1. x - q - 1 \in Nat /\ x = q + 1 + (x - q - 1)
        BY <1>3
    <3> QED BY <3>1
  <2>2. d * x = d * q + d + d * e /\ d * e \in Nat /\ d * q \in Int
      BY <2>1
  <2> QED BY <1>1, <2>2
<1>4. x = q
    BY <1>2, <1>3
<1>5. y = r
    BY <1>1, <1>4
<1> QED BY <1>1, <1>4, <1>5

\* The same in one word each, for where the provers have much else in view.
Alike(N, f, g) == f[0] = g[0] /\ \A n \in 1..N : f[n - 1] = g[n - 1] => f[n] = g[n]
SameTurns(N, f, g) == \A n \in 0..N : f[n] = g[n]
\* TurnsAgree in those words.
LEMMA AlikeSame ==
    ASSUME NEW N \in Nat, NEW f, NEW g, Alike(N, f, g)
    PROVE  SameTurns(N, f, g)
<1>1. f[0] = g[0] /\ \A n \in 1..N : f[n - 1] = g[n - 1] => f[n] = g[n]
    BY DEF Alike
<1>2. \A n \in 0..N : f[n] = g[n]
    BY <1>1, TurnsAgree
<1> QED BY <1>2 DEF SameTurns
=============================================================================
