-------------------------- MODULE LoadBalance_proofs --------------------------
(***************************************************************************)
(* The pickers for any number of targets, any weights, any width of the    *)
(* counter and any number of picks.                                        *)
(***************************************************************************)
EXTENDS LoadBalance, FiniteSetTheorems, TLAPS

-----------------------------------------------------------------------------
(* Induction, quotients and sums *)

\* What holds of zero and of each number's successor holds of all: a least
\* number for which it did not would follow one for which it does.
LEMMA CountUp ==
    ASSUME NEW L \in Nat, NEW S, 0 \in S, \A n \in 0..(L - 1) : n \in S => n + 1 \in S
    PROVE  0..L \subseteq S
<1> DEFINE T == (0..L) \ S
<1> SUFFICES ASSUME T # {} PROVE FALSE
  OBVIOUS
<1>1. IsWellFoundedOn(OpToRel(<, Nat), Nat)
  BY NatLessThanWellFounded
<1>2. T \subseteq Nat
  OBVIOUS
<1> HIDE DEF T
<1>3. PICK n \in T : \A m \in T : ~(<<m, n>> \in OpToRel(<, Nat))
  BY <1>1, <1>2, WFMin
<1> USE DEF T
<1>4. n \in 1..L
  OBVIOUS
<1>5. n - 1 \in 0..(L - 1) /\ (n - 1) + 1 = n
  BY <1>4
<1>6. n - 1 \in T
  BY <1>5
<1>7. <<n - 1, n>> \in OpToRel(<, Nat)
  <2>1. n - 1 \in Nat /\ n \in Nat /\ n - 1 < n
    BY <1>4
  <2> QED BY <2>1 DEF OpToRel
<1> QED BY <1>3, <1>6, <1>7

\* A number and its quotient and remainder.
LEMMA Quotient ==
    ASSUME NEW p \in Nat, NEW d \in Nat \ {0}
    PROVE  /\ p \div d \in Nat /\ p % d \in 0..(d - 1)
           /\ p = d * (p \div d) + (p % d)
OBVIOUS

\* They are the only ones.
LEMMA QuotientIs ==
    ASSUME NEW p \in Nat, NEW d \in Nat \ {0}, NEW q \in Nat, NEW r \in 0..(d - 1),
           p = d * q + r
    PROVE  p \div d = q /\ p % d = r
<1> DEFINE a == p \div d
           b == p % d
<1>1. a \in Nat /\ b \in 0..(d - 1) /\ p = d * a + b
  BY Quotient
<1> HIDE DEF a, b
<1>2. d * a + b = d * q + r
  BY <1>1
<1>3. a = q
  <2>1. CASE a > q
    <3>1. a >= q + 1
      BY <1>1, <2>1
    <3>2. d * a >= d * (q + 1)
      BY <1>1, <3>1
    <3>3. d * (q + 1) = d * q + d
      OBVIOUS
    <3>4. d * a \in Int /\ d * q \in Int
      BY <1>1
    <3> QED BY <1>1, <1>2, <3>2, <3>3, <3>4
  <2>2. CASE a < q
    <3>1. q >= a + 1
      BY <1>1, <2>2
    <3>2. d * q >= d * (a + 1)
      BY <1>1, <3>1
    <3>3. d * (a + 1) = d * a + d
      BY <1>1
    <3>4. d * a \in Int /\ d * q \in Int
      BY <1>1
    <3> QED BY <1>1, <1>2, <3>2, <3>3, <3>4
  <2> QED BY <1>1, <2>1, <2>2
<1>4. b = r
  <2>1. d * a \in Int
    BY <1>1
  <2> QED BY <1>1, <1>2, <1>3, <2>1
<1> QED BY <1>3, <1>4 DEF a, b

\* The next number: one more of the same run, or the first of the next.
LEMMA QuotientNext ==
    ASSUME NEW p \in Nat, NEW d \in Nat \ {0}
    PROVE  IF p % d = d - 1 THEN (p + 1) % d = 0 /\ (p + 1) \div d = p \div d + 1
           ELSE (p + 1) % d = (p % d) + 1 /\ (p + 1) \div d = p \div d
<1> DEFINE q == p \div d
           r == p % d
<1>1. q \in Nat /\ r \in 0..(d - 1) /\ p = d * q + r
  BY Quotient
<1> HIDE DEF q, r
<1>2. CASE r = d - 1
  <2>1. p + 1 = d * (q + 1) + 0 /\ 0 \in 0..(d - 1) /\ q + 1 \in Nat /\ p + 1 \in Nat
    BY <1>1, <1>2
  <2> QED BY <1>2, <2>1, QuotientIs DEF q, r
<1>3. CASE r # d - 1
  <2>1. p + 1 = d * q + (r + 1) /\ r + 1 \in 0..(d - 1) /\ p + 1 \in Nat
    BY <1>1, <1>3
  <2>2. (p + 1) \div d = q /\ (p + 1) % d = r + 1
    BY <1>1, <2>1, QuotientIs
  <2> QED BY <1>3, <2>2 DEF q, r
<1> QED BY <1>2, <1>3 DEF r

IsUpto(s, f, m) == s = [n \in 0..m |-> IF n = 0 THEN 0 ELSE s[n - 1] + f[n]]

\* The recursion of Upto defines a function.
LEMMA UptoIs ==
    ASSUME NEW f
    PROVE  /\ Upto(f)[0] = 0
           /\ \A n \in 1..N : Upto(f)[n] = Upto(f)[n - 1] + f[n]
<1> DEFINE S == {m \in 0..N : \E s : IsUpto(s, f, m)}
<1>1. N \in Nat
  BY LoadBalanceAssumption
<1>2. 0 \in S
  <2>1. IsUpto([n \in 0..0 |-> 0], f, 0)
    BY DEF IsUpto
  <2> QED BY <1>1, <2>1
<1>3. ASSUME NEW k \in 0..(N - 1), k \in S
      PROVE  k + 1 \in S
  <2>1. PICK s : IsUpto(s, f, k)
    BY <1>3
  <2> DEFINE t == [n \in 0..(k + 1) |-> IF n = k + 1 THEN s[k] + f[k + 1] ELSE s[n]]
  <2>2. \A n \in 0..k : s[n] = IF n = 0 THEN 0 ELSE s[n - 1] + f[n]
    BY <2>1 DEF IsUpto
  <2>3. ASSUME NEW n \in 0..(k + 1)
        PROVE  t[n] = IF n = 0 THEN 0 ELSE t[n - 1] + f[n]
    <3>1. CASE n = k + 1
      <4>1. n # 0 /\ n - 1 = k /\ k \in 0..(k + 1) /\ k # k + 1
        BY <3>1
      <4> QED BY <3>1, <4>1
    <3>2. CASE n # k + 1
      <4>1. n \in 0..k /\ (n # 0 => n - 1 \in 0..(k + 1) /\ n - 1 # k + 1)
        BY <3>2
      <4> QED BY <2>2, <3>2, <4>1
    <3> QED BY <3>1, <3>2
  <2>4. IsUpto(t, f, k + 1)
    <3>1. t = [n \in 0..(k + 1) |-> t[n]]
      OBVIOUS
    <3> HIDE DEF t
    <3> QED BY <2>3, <3>1 DEF IsUpto
  <2> QED BY <1>1, <2>4
<1>4. N \in S
  <2> HIDE DEF S
  <2>1. 0..N \subseteq S
    BY <1>1, <1>2, <1>3, CountUp
  <2> QED BY <1>1, <2>1
<1>5. IsUpto(Upto(f), f, N)
  <2>1. \E s : IsUpto(s, f, N)
    BY <1>4
  <2> QED BY <2>1 DEF Upto, IsUpto
<1>6. \A n \in 0..N : Upto(f)[n] = IF n = 0 THEN 0 ELSE Upto(f)[n - 1] + f[n]
  BY <1>5 DEF IsUpto
<1> QED BY <1>1, <1>6

Credits == [Target -> Int]

LEMMA SumType ==
    ASSUME NEW f \in Credits
    PROVE  Sum(f) \in Int /\ \A n \in 0..N : Upto(f)[n] \in Int
<1> DEFINE S == {n \in 0..N : Upto(f)[n] \in Int}
<1>1. N \in Nat
  BY LoadBalanceAssumption
<1>2. 0 \in S
  BY <1>1, UptoIs
<1>3. ASSUME NEW n \in 0..(N - 1), n \in S PROVE n + 1 \in S
  <2>1. n + 1 \in 1..N /\ n + 1 \in 0..N /\ (n + 1) - 1 = n
    BY <1>1
  <2>2. Upto(f)[n + 1] = Upto(f)[n] + f[n + 1]
    BY <2>1, UptoIs
  <2>3. f[n + 1] \in Int
    BY <2>1 DEF Credits, Target
  <2> QED BY <1>3, <2>1, <2>2, <2>3
<1>4. 0..N \subseteq S
  <2> HIDE DEF S
  <2> QED BY <1>1, <1>2, <1>3, CountUp
<1> QED BY <1>1, <1>4 DEF Sum

\* Sums add up: of two functions, and with one value changed.
LEMMA SumAdd ==
    ASSUME NEW f \in Credits, NEW g \in Credits, NEW h \in Credits,
           \A i \in Target : h[i] = f[i] + g[i]
    PROVE  Sum(h) = Sum(f) + Sum(g)
<1> DEFINE S == {n \in 0..N : Upto(h)[n] = Upto(f)[n] + Upto(g)[n]}
<1>1. N \in Nat
  BY LoadBalanceAssumption
<1>2. 0 \in S
  BY <1>1, UptoIs
<1>3. ASSUME NEW n \in 0..(N - 1), n \in S PROVE n + 1 \in S
  <2>1. n + 1 \in 1..N /\ n + 1 \in 0..N /\ (n + 1) - 1 = n /\ n \in 0..N
    BY <1>1
  <2>2. /\ Upto(f)[n + 1] = Upto(f)[n] + f[n + 1] /\ Upto(g)[n + 1] = Upto(g)[n] + g[n + 1]
        /\ Upto(h)[n + 1] = Upto(h)[n] + h[n + 1]
    BY <2>1, UptoIs
  <2>3. /\ h[n + 1] = f[n + 1] + g[n + 1] /\ f[n + 1] \in Int /\ g[n + 1] \in Int
        /\ Upto(f)[n] \in Int /\ Upto(g)[n] \in Int /\ Upto(h)[n] = Upto(f)[n] + Upto(g)[n]
    BY <1>3, <2>1, SumType DEF Credits, Target
  <2>4. Upto(h)[n + 1] = Upto(f)[n + 1] + Upto(g)[n + 1]
    BY <2>2, <2>3
  <2> QED BY <2>1, <2>4
<1>4. 0..N \subseteq S
  <2> HIDE DEF S
  <2> QED BY <1>1, <1>2, <1>3, CountUp
<1> QED BY <1>1, <1>4 DEF Sum

LEMMA SumChange ==
    ASSUME NEW f \in Credits, NEW k \in Target, NEW v \in Int
    PROVE  Sum([f EXCEPT ![k] = v]) = Sum(f) - f[k] + v
<1> DEFINE h == [f EXCEPT ![k] = v]
           S == {n \in 0..N : Upto(h)[n] = IF n < k THEN Upto(f)[n] ELSE Upto(f)[n] - f[k] + v}
<1>1. N \in Nat /\ k \in 1..N /\ f[k] \in Int /\ h \in Credits
  BY LoadBalanceAssumption DEF Target, Credits
<1>2. 0 \in S
  BY <1>1, UptoIs
<1>3. ASSUME NEW n \in 0..(N - 1), n \in S PROVE n + 1 \in S
  <2>1. n + 1 \in 1..N /\ n + 1 \in 0..N /\ (n + 1) - 1 = n /\ n \in 0..N
    BY <1>1
  <2>2. /\ Upto(f)[n + 1] = Upto(f)[n] + f[n + 1] /\ Upto(h)[n + 1] = Upto(h)[n] + h[n + 1]
        /\ Upto(f)[n] \in Int
    BY <2>1, UptoIs, SumType
  <2>3. f[n + 1] \in Int /\ h[n + 1] = IF n + 1 = k THEN v ELSE f[n + 1]
    BY <2>1 DEF Credits, Target
  <2>4. Upto(h)[n] = IF n < k THEN Upto(f)[n] ELSE Upto(f)[n] - f[k] + v
    BY <1>3
  <2> HIDE DEF h
  <2>5. Upto(h)[n + 1] = IF n + 1 < k THEN Upto(f)[n + 1] ELSE Upto(f)[n + 1] - f[k] + v
    <3>1. CASE n + 1 < k
      BY <1>1, <2>2, <2>3, <2>4, <3>1
    <3>2. CASE n + 1 = k
      BY <1>1, <2>2, <2>3, <2>4, <3>2
    <3>3. CASE n + 1 > k
      BY <1>1, <2>2, <2>3, <2>4, <3>3
    <3> QED BY <1>1, <3>1, <3>2, <3>3
  <2> QED BY <2>1, <2>5
<1>4. 0..N \subseteq S
  <2> HIDE DEF S
  <2> QED BY <1>1, <1>2, <1>3, CountUp
<1>5. N \in S
  <2> HIDE DEF S
  <2> QED BY <1>1, <1>4
<1> QED BY <1>1, <1>5 DEF Sum

\* Values of at least c sum to at least N * c.
LEMMA SumAtLeast ==
    ASSUME NEW f \in Credits, NEW c \in Int, \A i \in Target : f[i] >= c
    PROVE  Sum(f) >= N * c
<1> DEFINE S == {n \in 0..N : Upto(f)[n] >= n * c}
<1>1. N \in Nat
  BY LoadBalanceAssumption
<1>2. 0 \in S
  <2>1. 0 * c = 0
    OBVIOUS
  <2> QED BY <1>1, <2>1, UptoIs
<1>3. ASSUME NEW n \in 0..(N - 1), n \in S PROVE n + 1 \in S
  <2>1. n + 1 \in 1..N /\ n + 1 \in 0..N /\ (n + 1) - 1 = n /\ n \in 0..N
    BY <1>1
  <2>2. Upto(f)[n + 1] = Upto(f)[n] + f[n + 1] /\ Upto(f)[n] \in Int
    BY <2>1, UptoIs, SumType
  <2>3. f[n + 1] \in Int /\ f[n + 1] >= c
    BY <2>1 DEF Credits, Target
  <2>4. (n + 1) * c = n * c + c /\ n * c \in Int /\ Upto(f)[n] >= n * c
    BY <1>3
  <2>5. Upto(f)[n + 1] >= (n + 1) * c
    BY <2>2, <2>3, <2>4
  <2> QED BY <2>1, <2>5
<1>4. 0..N \subseteq S
  <2> HIDE DEF S
  <2> QED BY <1>1, <1>2, <1>3, CountUp
<1> QED BY <1>1, <1>4 DEF Sum

\* No value of a sum of natural numbers exceeds it.
LEMMA SumBounds ==
    ASSUME NEW f \in Credits, \A i \in Target : f[i] >= 0, NEW k \in Target
    PROVE  f[k] <= Sum(f)
<1> DEFINE h == [f EXCEPT ![k] = 0]
<1>1. h \in Credits /\ \A i \in Target : h[i] >= 0
  BY DEF Credits
<1>2. Sum(h) = Sum(f) - f[k] + 0
  BY SumChange
<1>3. Sum(h) >= N * 0 /\ N * 0 = 0
  <2> HIDE DEF h
  <2>1. N * 0 = 0
    BY LoadBalanceAssumption
  <2>2. Sum(h) >= N * 0
    BY <1>1, SumAtLeast
  <2> QED BY <2>1, <2>2
<1>4. Sum(h) \in Int /\ Sum(f) \in Int /\ f[k] \in Int
  BY <1>1, SumType DEF Credits
<1> HIDE DEF h
<1> QED BY <1>2, <1>3, <1>4

LEMMA SumZero ==
    ASSUME NEW f \in Credits, \A i \in Target : f[i] = 0
    PROVE  Sum(f) = 0
<1>1. \A i \in Target : f[i] = f[i] + f[i]
  OBVIOUS
<1>2. Sum(f) = Sum(f) + Sum(f)
  BY <1>1, SumAdd
<1>3. Sum(f) \in Int
  BY SumType
<1>4. \A s \in Int : s = s + s => s = 0
  OBVIOUS
<1> QED BY <1>2, <1>3, <1>4

\* Values of at most zero sum to at most zero.
LEMMA SumAtMostZero ==
    ASSUME NEW f \in Credits, \A i \in Target : f[i] <= 0
    PROVE  Sum(f) <= 0
<1> DEFINE g == [i \in Target |-> -f[i]]
           z == [i \in Target |-> 0]
<1>1. g \in Credits /\ \A i \in Target : g[i] = -f[i] /\ g[i] >= 0
  <2>1. \A i \in Target : f[i] \in Int
    BY DEF Credits
  <2> QED BY <2>1 DEF Credits
<1>2. z \in Credits /\ \A i \in Target : z[i] = 0 /\ z[i] = f[i] + g[i]
  <2>1. \A i \in Target : f[i] \in Int
    BY DEF Credits
  <2> QED BY <2>1 DEF Credits
<1> HIDE DEF g, z
<1>3. Sum(z) = 0 /\ Sum(z) = Sum(f) + Sum(g)
  BY <1>1, <1>2, SumAdd, SumZero
<1>4. Sum(g) >= N * 0 /\ N * 0 = 0
  <2>1. N * 0 = 0
    BY LoadBalanceAssumption
  <2>2. Sum(g) >= N * 0
    BY <1>1, SumAtLeast
  <2> QED BY <2>1, <2>2
<1>5. Sum(f) \in Int /\ Sum(g) \in Int
  BY <1>1, SumType
<1> QED BY <1>3, <1>4, <1>5

-----------------------------------------------------------------------------
(* The picks *)

\* The number of a round-robin picker is that of its picks; the targets that
\* come before it in the pool have had one pick more, and a wrap of the
\* counter may add one more to any of them.
Ahead(i) == IF i <= next % N THEN 1 ELSE 0

RoundRobinInv ==
    strategy = "round-robin" =>
        /\ next = Picks % Wrap
        /\ \A i, j \in Target :
               served[i] - served[j] <= (Picks \div Wrap) + Ahead(i) - Ahead(j)

\* The credits of a weighted picker sum to zero, and each is what its target
\* is owed; none is overdrawn by a whole pick.
WeightedInv ==
    strategy = "weighted" =>
        /\ Sum(current) = 0
        /\ \A i \in Target :
               /\ current[i] = Picks * weight[i] - served[i] * Total
               /\ current[i] > -Total
               /\ 2 * current[i] <= Total + (N - 2) * (Total - 1)

Inv == TypeOK /\ RoundRobinInv /\ WeightedInv

\* The picker of the richest finds one: among the first n by induction.
LEMMA BestIs ==
    ASSUME NEW f \in Credits
    PROVE  Best(f) \in Target /\ \A j \in Target : f[j] <= f[Best(f)]
<1> DEFINE Leads(i, n) == \A j \in 1..n : f[i] > f[j] \/ (f[i] = f[j] /\ i <= j)
           S == {n \in 0..N : n = 0 \/ \E i \in 1..n : Leads(i, n)}
<1>1. N \in Nat \ {0} /\ N \in Nat /\ \A i \in 1..N : f[i] \in Int
  BY LoadBalanceAssumption DEF Credits, Target
<1>2. 0 \in S
  BY <1>1
<1>3. ASSUME NEW n \in 0..(N - 1), n \in S PROVE n + 1 \in S
  <2>1. n + 1 \in 1..N /\ n + 1 \in 0..N /\ 1..n \subseteq 1..N
    BY <1>1
  <2>2. \E i \in 1..(n + 1) : Leads(i, n + 1)
    <3>1. CASE n = 0
      <4>1. 1 \in 1..(n + 1) /\ 1..(n + 1) = {1}
        BY <3>1
      <4>2. Leads(1, n + 1)
        BY <4>1
      <4> QED BY <4>1, <4>2
    <3>2. CASE n # 0
      <4>1. PICK i \in 1..n : Leads(i, n)
        BY <1>3, <3>2
      <4>2. \A j \in 1..(n + 1) : j \in 1..n \/ j = n + 1
        OBVIOUS
      <4>3. f[i] \in Int /\ f[n + 1] \in Int /\ \A j \in 1..n : f[j] \in Int
        BY <1>1, <2>1
      <4>4. i \in 1..(n + 1) /\ n + 1 \in 1..(n + 1) /\ i <= n + 1
        OBVIOUS
      <4>5. CASE f[n + 1] > f[i]
        <5>1. Leads(n + 1, n + 1)
          BY <4>1, <4>2, <4>3, <4>5
        <5> QED BY <4>4, <5>1
      <4>6. CASE f[n + 1] <= f[i]
        <5>1. Leads(i, n + 1)
          BY <4>1, <4>2, <4>3, <4>4, <4>6
        <5> QED BY <4>4, <5>1
      <4> QED BY <4>3, <4>5, <4>6
    <3> QED BY <3>1, <3>2
  <2> QED BY <2>1, <2>2
<1>4. N \in S
  <2> HIDE DEF S
  <2>1. 0..N \subseteq S
    BY <1>1, <1>2, <1>3, CountUp
  <2> QED BY <1>1, <2>1
<1>5. \E i \in Target : \A j \in Target : f[i] > f[j] \/ (f[i] = f[j] /\ i <= j)
  BY <1>1, <1>4 DEF Target
<1>6. /\ Best(f) \in Target
      /\ \A j \in Target :
             f[Best(f)] > f[j] \/ (f[Best(f)] = f[j] /\ Best(f) <= j)
  BY <1>5 DEF Best
<1> QED BY <1>1, <1>6 DEF Target

\* Weights are positive, so their total is, and none exceeds it.
LEMMA TotalIs ==
    ASSUME NEW w \in [Target -> 1..MaxWeight]
    PROVE  /\ w \in Credits /\ Sum(w) \in Nat \ {0}
           /\ \A i \in Target : w[i] \in Nat \ {0} /\ w[i] <= Sum(w)
<1>1. w \in Credits /\ \A i \in Target : w[i] \in Nat \ {0} /\ w[i] >= 0
  BY LoadBalanceAssumption DEF Credits
<1>2. Sum(w) \in Int /\ \A i \in Target : w[i] <= Sum(w)
  BY <1>1, SumType, SumBounds
<1>3. 1 \in Target
  BY LoadBalanceAssumption DEF Target
<1> QED BY <1>1, <1>2, <1>3

\* The bound on a credit is positive: (N - 2) * (t - 1) is at least 1 - t.
LEMMA Margin ==
    ASSUME NEW t \in Nat \ {0}
    PROVE  (N - 2) * (t - 1) \in Int /\ t + (N - 2) * (t - 1) >= 1
<1>1. N - 1 \in Nat /\ t - 1 \in Nat /\ N - 2 \in Int
  BY LoadBalanceAssumption
<1>2. (N - 1) * (t - 1) >= 0 /\ (N - 1) * (t - 1) = (N - 2) * (t - 1) + (t - 1)
  <2>1. \A m, n \in Nat : m * n >= 0 /\ m * n = (m - 1) * n + n
    OBVIOUS
  <2>2. N - 2 = (N - 1) - 1
    BY <1>1, LoadBalanceAssumption
  <2> QED BY <1>1, <2>1, <2>2
<1>3. (N - 2) * (t - 1) \in Int
  BY <1>1
<1> QED BY <1>1, <1>2, <1>3

\* Picks are counted from zero, and no target has had more than all.
LEMMA PicksIs ==
    ASSUME TypeOK
    PROVE  /\ served \in Credits /\ Picks \in Nat
           /\ \A i \in Target : served[i] \in Nat /\ served[i] <= Picks
<1>1. served \in Credits /\ \A i \in Target : served[i] \in Nat /\ served[i] >= 0
  BY LoadBalanceAssumption DEF TypeOK, Credits
<1>2. Picks \in Int /\ \A i \in Target : served[i] <= Picks
  BY <1>1, SumType, SumBounds DEF Picks
<1>3. 1 \in Target
  BY LoadBalanceAssumption DEF Target
<1> QED BY <1>1, <1>2, <1>3

\* A pick adds one to its target and to the total, within the bound.
LEMMA ServeIs ==
    ASSUME TypeOK, NEW i \in Target, Serve(i)
    PROVE  /\ served' \in [Target -> 0..MaxPicks]
           /\ \A j \in Target : served'[j] = served[j] + (IF j = i THEN 1 ELSE 0)
           /\ Picks' = Picks + 1
           /\ Total' = Total
<1>1. /\ served \in Credits /\ Picks \in Nat
      /\ \A j \in Target : served[j] \in Nat /\ served[j] <= Picks
  BY PicksIs
<1>2. served' = [served EXCEPT ![i] = served[i] + 1] /\ Picks < MaxPicks /\ weight' = weight
  BY DEF Serve
<1>3. served[i] + 1 \in Int
  BY <1>1
<1>4. Picks' = Picks + 1
  <2>1. Picks' = Picks - served[i] + (served[i] + 1)
    BY <1>1, <1>2, <1>3, SumChange DEF Picks
  <2> QED BY <1>1, <2>1
<1>5. served' \in Credits /\ \A j \in Target : served'[j] = served[j] + (IF j = i THEN 1 ELSE 0)
  <2>1. \A j \in Target : served'[j] = IF j = i THEN served[i] + 1 ELSE served[j]
    BY <1>1, <1>2 DEF Credits
  <2>2. served' = [j \in Target |-> served'[j]]
    BY <1>1, <1>2 DEF Credits
  <2>3. \A j \in Target : served'[j] = served[j] + (IF j = i THEN 1 ELSE 0) /\ served'[j] \in Int
    BY <1>1, <2>1
  <2> QED BY <2>2, <2>3 DEF Credits
<1>6. \A j \in Target : served'[j] \in 0..MaxPicks
  <2> TAKE j \in Target
  <2>1. served'[j] \in Nat
    BY <1>1, <1>5
  <2>2. \A k \in Target : served'[k] >= 0
    BY <1>1, <1>5
  <2>3. served'[j] <= Picks'
    BY <1>5, <2>2, SumBounds DEF Picks
  <2> QED BY <1>1, <1>2, <1>4, <2>1, <2>3, LoadBalanceAssumption
<1>7. served' = [j \in Target |-> served'[j]]
  BY <1>5 DEF Credits
<1>8. served' \in [Target -> 0..MaxPicks]
  BY <1>6, <1>7
<1> QED BY <1>2, <1>4, <1>5, <1>8 DEF Total

\* A fresh picker: nothing picked, nothing owed.
LEMMA FreshIs ==
    ASSUME TypeOK', next' = 0, current' = [i \in Target |-> 0], served' = [i \in Target |-> 0]
    PROVE  RoundRobinInv' /\ WeightedInv'
<1>1. /\ current' \in Credits /\ served' \in Credits
      /\ \A i \in Target : current'[i] = 0 /\ served'[i] = 0
  BY DEF Credits
<1>2. Sum(current') = 0 /\ Picks' = 0
  BY <1>1, SumZero DEF Picks
<1>3. N \in Nat \ {0} /\ Wrap \in Nat \ {0}
  BY LoadBalanceAssumption
<1>4. 0 % Wrap = 0 /\ 0 \div Wrap = 0 /\ 0 % N = 0
  <2>1. 0 = Wrap * 0 + 0 /\ 0 \in 0..(Wrap - 1) /\ 0 = N * 0 + 0 /\ 0 \in 0..(N - 1) /\ 0 \in Nat
    BY <1>3
  <2> QED BY <1>3, <2>1, QuotientIs
<1>5. RoundRobinInv'
  BY <1>1, <1>2, <1>4 DEF RoundRobinInv, Ahead, Target
<1>6. /\ Total' \in Nat \ {0} /\ \A i \in Target : weight'[i] \in Nat
      /\ Total' + (N - 2) * (Total' - 1) >= 1 /\ (N - 2) * (Total' - 1) \in Int
  BY TotalIs, Margin DEF TypeOK, Total
<1>7. 0 * Total' = 0 /\ \A i \in Target : 0 * weight'[i] = 0
  <2>1. \A n \in Nat : 0 * n = 0
    OBVIOUS
  <2> QED BY <2>1, <1>6
<1>8. WeightedInv'
  <2>1. \A i \in Target :
            /\ current'[i] = Picks' * weight'[i] - served'[i] * Total'
            /\ current'[i] > -Total'
            /\ 2 * current'[i] <= Total' + (N - 2) * (Total' - 1)
    <3> TAKE i \in Target
    <3>1. current'[i] = 0 /\ served'[i] = 0 /\ 0 * weight'[i] = 0 /\ 0 * Total' = 0
      BY <1>1, <1>7
    <3>2. current'[i] = Picks' * weight'[i] - served'[i] * Total'
      BY <1>2, <3>1
    <3>3. current'[i] > -Total' /\ 2 * current'[i] <= Total' + (N - 2) * (Total' - 1)
      <4> DEFINE m == (N - 2) * (Total' - 1)
                 t == Total'
      <4>1. m \in Int /\ t \in Nat \ {0} /\ t + m >= 1
        BY <1>6
      <4> HIDE DEF m, t
      <4>2. current'[i] > -t /\ 2 * current'[i] <= t + m
        BY <3>1, <4>1
      <4> QED BY <4>2 DEF m, t
    <3> QED BY <3>2, <3>3
  <2> QED BY <1>2, <2>1 DEF WeightedInv
<1> QED BY <1>5, <1>8

-----------------------------------------------------------------------------
(* The steps *)

LEMMA InitInv ==
    ASSUME Init PROVE Inv
<1>1. N \in Nat \ {0} /\ Wrap \in Nat \ {0} /\ MaxPicks \in Nat
  BY LoadBalanceAssumption
<1>2. TypeOK
  BY <1>1 DEF Init, TypeOK
<1>3. /\ current \in Credits /\ served \in Credits
      /\ \A i \in Target : current[i] = 0 /\ served[i] = 0
  BY DEF Credits, Init
<1>4. Sum(current) = 0 /\ Picks = 0
  BY <1>3, SumZero DEF Picks
<1>5. 0 % Wrap = 0 /\ 0 \div Wrap = 0 /\ 0 % N = 0
  <2>1. 0 = Wrap * 0 + 0 /\ 0 \in 0..(Wrap - 1) /\ 0 = N * 0 + 0 /\ 0 \in 0..(N - 1) /\ 0 \in Nat
    BY <1>1
  <2> QED BY <1>1, <2>1, QuotientIs
<1>6. RoundRobinInv
  BY <1>3, <1>4, <1>5 DEF RoundRobinInv, Ahead, Target, Init
<1>7. /\ Total \in Nat \ {0} /\ \A i \in Target : weight[i] \in Nat
      /\ Total + (N - 2) * (Total - 1) >= 1 /\ (N - 2) * (Total - 1) \in Int
  BY <1>2, TotalIs, Margin DEF TypeOK, Total
<1>8. 0 * Total = 0 /\ \A i \in Target : 0 * weight[i] = 0
  <2>1. \A n \in Nat : 0 * n = 0
    OBVIOUS
  <2> QED BY <2>1, <1>7
<1>9. WeightedInv
  BY <1>3, <1>4, <1>7, <1>8 DEF WeightedInv
<1> QED BY <1>2, <1>6, <1>9 DEF Inv

LEMMA ReloadInv ==
    ASSUME Inv, Reload PROVE Inv'
<1>1. TypeOK'
  BY LoadBalanceAssumption DEF Inv, TypeOK, Reload, FreshPicker
<1> QED BY <1>1, FreshIs DEF Inv, Reload, FreshPicker

\* The target whose turn it is gets the pick: the one after those ahead, or
\* the last of the round, when the next begins.
LEMMA RoundRobinStep ==
    ASSUME Inv, RoundRobinNext PROVE Inv'
<1> DEFINE i0 == (next % N) + 1
           w == (next + 1) % Wrap
<1>1. /\ TypeOK /\ strategy = "round-robin" /\ strategy' = strategy /\ weight' = weight
      /\ next' = w /\ current' = current /\ last' = i0 /\ Serve(i0)
  BY DEF Inv, RoundRobinNext, Serve
<1>2. N \in Nat \ {0} /\ Wrap \in Nat \ {0} /\ next \in 0..(Wrap - 1) /\ next \in Nat
  BY <1>1, LoadBalanceAssumption DEF TypeOK
<1>3. next % N \in 0..(N - 1) /\ i0 \in Target
  BY <1>2, Quotient DEF Target
<1>4. /\ served' \in [Target -> 0..MaxPicks] /\ Picks' = Picks + 1 /\ Picks \in Nat
      /\ \A j \in Target : served'[j] = served[j] + (IF j = i0 THEN 1 ELSE 0)
      /\ \A j \in Target : served[j] \in Nat
  BY <1>1, <1>3, ServeIs, PicksIs
<1>5. /\ next = Picks % Wrap /\ Picks \div Wrap \in Nat
      /\ \A i, j \in Target : served[i] - served[j] <= (Picks \div Wrap) + Ahead(i) - Ahead(j)
  BY <1>1, <1>4, <1>2, Quotient DEF Inv, RoundRobinInv
<1>6. next = Wrap - 1 => w = 0 /\ Picks' % Wrap = 0 /\ Picks' \div Wrap = (Picks \div Wrap) + 1
  <2> SUFFICES ASSUME next = Wrap - 1
               PROVE  w = 0 /\ Picks' % Wrap = 0 /\ Picks' \div Wrap = (Picks \div Wrap) + 1
    OBVIOUS
  <2>1. next + 1 = Wrap * 1 + 0 /\ 0 \in 0..(Wrap - 1) /\ 1 \in Nat /\ next + 1 \in Nat
    BY <1>2
  <2>2. w = 0
    BY <1>2, <2>1, QuotientIs
  <2>3. (Picks + 1) % Wrap = 0 /\ (Picks + 1) \div Wrap = (Picks \div Wrap) + 1
    BY <1>2, <1>4, <1>5, QuotientNext
  <2> QED BY <1>4, <2>2, <2>3
<1>7. next # Wrap - 1 => /\ w = next + 1 /\ Picks' % Wrap = next + 1
                         /\ Picks' \div Wrap = Picks \div Wrap
  <2> SUFFICES ASSUME next # Wrap - 1
               PROVE  /\ w = next + 1 /\ Picks' % Wrap = next + 1
                      /\ Picks' \div Wrap = Picks \div Wrap
    OBVIOUS
  <2>1. next + 1 = Wrap * 0 + (next + 1) /\ next + 1 \in 0..(Wrap - 1) /\ 0 \in Nat /\ next + 1 \in Nat
    BY <1>2
  <2>2. w = next + 1
    BY <1>2, <2>1, QuotientIs
  <2>3. (Picks + 1) % Wrap = next + 1 /\ (Picks + 1) \div Wrap = Picks \div Wrap
    BY <1>2, <1>4, <1>5, QuotientNext
  <2> QED BY <1>4, <2>2, <2>3
<1>8. TypeOK'
  <2>1. w \in 0..(Wrap - 1)
    BY <1>2, Quotient
  <2> HIDE DEF w, i0
  <2>2. last' \in Target
    BY <1>1, <1>3
  <2> QED BY <1>1, <1>4, <2>1, <2>2 DEF TypeOK
<1>9. RoundRobinInv'
  <2>1. next' = Picks' % Wrap
    BY <1>1, <1>2, <1>5, <1>6, <1>7
  <2>2. \A i, j \in Target :
            served'[i] - served'[j] <= (Picks' \div Wrap) + Ahead(i)' - Ahead(j)'
    <3> TAKE i, j \in Target
    <3>1. i \in 1..N /\ j \in 1..N
      BY DEF Target
    <3> DEFINE k == Picks \div Wrap
    <3>3. /\ k \in Nat /\ served[i] \in Nat /\ served[j] \in Nat
          /\ served[i] - served[j] <= k + Ahead(i) - Ahead(j)
          /\ served'[i] = served[i] + (IF i = i0 THEN 1 ELSE 0)
          /\ served'[j] = served[j] + (IF j = i0 THEN 1 ELSE 0)
      BY <1>4, <1>5
    <3> HIDE DEF k
    <3>4. CASE next' = 0 /\ Picks' \div Wrap = k + 1
      <4>1. next' % N = 0
        <5>1. 0 = N * 0 + 0 /\ 0 \in 0..(N - 1) /\ 0 \in Nat
          BY <1>2
        <5> QED BY <1>2, <3>4, <5>1, QuotientIs
      <4>2. Ahead(i)' = 0 /\ Ahead(j)' = 0
        BY <3>1, <4>1 DEF Ahead
      <4> QED BY <1>3, <3>1, <3>3, <3>4, <4>2 DEF Ahead
    <3>5. CASE next' = next + 1 /\ Picks' \div Wrap = k /\ next % N = N - 1
      <4>1. next' % N = 0
        BY <1>2, <3>5, QuotientNext
      <4>2. Ahead(i)' = 0 /\ Ahead(j)' = 0
        BY <3>1, <4>1 DEF Ahead
      <4> QED BY <1>2, <1>3, <3>1, <3>3, <3>5, <4>2 DEF Ahead
    <3>6. CASE next' = next + 1 /\ Picks' \div Wrap = k /\ next % N # N - 1
      <4>1. next' % N = (next % N) + 1
        BY <1>2, <3>6, QuotientNext
      <4>2. /\ Ahead(i)' = Ahead(i) + (IF i = i0 THEN 1 ELSE 0)
            /\ Ahead(j)' = Ahead(j) + (IF j = i0 THEN 1 ELSE 0)
        BY <1>3, <3>1, <4>1 DEF Ahead
      <4>3. Ahead(i) \in Int /\ Ahead(j) \in Int
        BY DEF Ahead
      <4> QED BY <3>3, <3>6, <4>2, <4>3
    <3> QED BY <1>1, <1>6, <1>7, <3>4, <3>5, <3>6 DEF k
  <2> QED BY <2>1, <2>2 DEF RoundRobinInv
<1>10. WeightedInv'
  BY <1>1 DEF WeightedInv
<1> QED BY <1>8, <1>9, <1>10 DEF Inv

LEMMA RandomStep ==
    ASSUME Inv, RandomNext PROVE Inv'
<1>1. PICK i \in Target : Serve(i)
  BY DEF RandomNext
<1>2. /\ TypeOK /\ strategy = "random" /\ strategy' = strategy /\ weight' = weight
      /\ next' = next /\ current' = current /\ last' = i
  BY <1>1 DEF Inv, RandomNext, Serve
<1>3. served' \in [Target -> 0..MaxPicks]
  BY <1>1, <1>2, ServeIs
<1>4. TypeOK'
  BY <1>2, <1>3 DEF TypeOK
<1> QED BY <1>2, <1>4 DEF Inv, RoundRobinInv, WeightedInv
\* The target with the most credit is served.  Its raised credit is positive,
\* since the raised credits sum to the total: it can pay without a debt of a
\* whole pick.  No other had more, and all together owe nothing: what two of
\* them may hold is bounded by what the rest may owe.
LEMMA WeightedStep ==
    ASSUME Inv, WeightedNext PROVE Inv'
<1> DEFINE b == Best(Raised)
<1>1. /\ TypeOK /\ strategy = "weighted" /\ strategy' = strategy /\ weight' = weight
      /\ next' = next /\ Serve(b) /\ last' = b
      /\ current' = [Raised EXCEPT ![b] = Raised[b] - Total]
  BY DEF Inv, WeightedNext, Serve
<1>2. /\ Total \in Nat \ {0} /\ Total \in Nat /\ weight \in Credits
      /\ \A i \in Target : weight[i] \in Nat \ {0} /\ weight[i] <= Total
  BY <1>1, TotalIs DEF TypeOK, Total
<1>3. /\ current \in Credits /\ Sum(current) = 0
      /\ \A i \in Target :
             /\ current[i] \in Int
             /\ current[i] = Picks * weight[i] - served[i] * Total
             /\ current[i] > -Total
             /\ 2 * current[i] <= Total + (N - 2) * (Total - 1)
  BY <1>1 DEF Inv, WeightedInv, TypeOK, Credits
<1>4. Raised \in Credits /\ \A i \in Target : Raised[i] = current[i] + weight[i] /\ Raised[i] \in Int
  BY <1>2, <1>3 DEF Raised, Credits
<1>5. Sum(Raised) = Total
  BY <1>2, <1>3, <1>4, SumAdd DEF Total
<1>6. b \in Target /\ \A j \in Target : Raised[j] <= Raised[b]
  BY <1>4, BestIs
<1> HIDE DEF b
<1>7. Raised[b] > 0
  <2> SUFFICES ASSUME ~(Raised[b] > 0) PROVE FALSE
    OBVIOUS
  <2>1. \A j \in Target : Raised[j] <= 0
    BY <1>4, <1>6
  <2>2. Sum(Raised) <= 0
    BY <1>4, <2>1, SumAtMostZero
  <2> QED BY <1>2, <1>5, <2>2
<1>8. /\ current' \in Credits
      /\ \A i \in Target : current'[i] = (IF i = b THEN Raised[b] - Total ELSE Raised[i])
      /\ \A i \in Target : current'[i] \in Int
  <2>1. \A i \in Target : current'[i] = (IF i = b THEN Raised[b] - Total ELSE Raised[i])
    BY <1>1, <1>4 DEF Credits
  <2>2. \A i \in Target : current'[i] \in Int
    BY <1>2, <1>4, <1>6, <2>1
  <2>3. current' = [i \in Target |-> current'[i]]
    BY <1>1, <1>4 DEF Credits
  <2> QED BY <2>1, <2>2, <2>3 DEF Credits
<1>9. Sum(current') = 0
  <2>1. Raised[b] - Total \in Int /\ Raised[b] \in Int
    BY <1>2, <1>4, <1>6
  <2>2. Sum(current') = Sum(Raised) - Raised[b] + (Raised[b] - Total)
    BY <1>1, <1>4, <1>6, <2>1, SumChange
  <2> QED BY <1>2, <1>5, <2>1, <2>2
<1>10. /\ served' \in [Target -> 0..MaxPicks] /\ Picks' = Picks + 1 /\ Picks \in Nat
       /\ \A j \in Target : served'[j] = served[j] + (IF j = b THEN 1 ELSE 0)
       /\ \A j \in Target : served[j] \in Nat
       /\ Total' = Total
  BY <1>1, <1>6, ServeIs, PicksIs
<1>11. TypeOK'
  BY <1>1, <1>6, <1>8, <1>10 DEF TypeOK, Credits
<1>12. ASSUME NEW i \in Target
       PROVE  current'[i] = Picks' * weight'[i] - served'[i] * Total'
  <2>1. /\ weight[i] \in Nat /\ served[i] \in Nat
        /\ current[i] = Picks * weight[i] - served[i] * Total
    BY <1>2, <1>3, <1>10
  <2>0. \A m, n \in Nat : (m + 1) * n = m * n + n
    OBVIOUS
  <2>2. (Picks + 1) * weight[i] = Picks * weight[i] + weight[i]
    BY <1>10, <2>0, <2>1
  <2>3. (served[i] + 1) * Total = served[i] * Total + Total
    BY <1>2, <2>0, <2>1
  <2>4. Picks * weight[i] \in Int /\ served[i] * Total \in Int
    BY <1>2, <1>10, <2>1
  <2> DEFINE e == Picks * weight[i]
             h == served[i] * Total
  <2>5. /\ e \in Int /\ h \in Int /\ current[i] = e - h
        /\ Picks' * weight'[i] = e + weight[i]
        /\ Raised[i] = current[i] + weight[i]
    BY <1>1, <1>4, <1>10, <2>1, <2>2, <2>4
  <2>6. CASE i = b
    <3>1. served'[i] * Total' = h + Total /\ current'[i] = Raised[i] - Total
      BY <1>8, <1>10, <2>3, <2>6
    <3> HIDE DEF e, h
    <3> QED BY <1>2, <2>1, <2>5, <3>1
  <2>7. CASE i # b
    <3>1. served'[i] * Total' = h /\ current'[i] = Raised[i]
      BY <1>8, <1>10, <2>1, <2>7
    <3> HIDE DEF e, h
    <3> QED BY <1>2, <2>1, <2>5, <3>1
  <2> QED BY <2>6, <2>7
<1>13. \A i \in Target : current'[i] > -Total
  <2> TAKE i \in Target
  <2>1. /\ Raised[i] \in Int /\ Raised[b] \in Int /\ current[i] \in Int /\ weight[i] \in Nat
        /\ current[i] > -Total /\ Raised[i] = current[i] + weight[i]
    BY <1>2, <1>3, <1>4, <1>6
  <2>2. CASE i = b
    BY <1>2, <1>7, <1>8, <2>1, <2>2
  <2>3. CASE i # b
    BY <1>2, <1>8, <2>1, <2>3
  <2> QED BY <2>2, <2>3
<1>14. ASSUME NEW i \in Target
       PROVE  2 * current'[i] <= Total + (N - 2) * (Total - 1)
  <2>1. (N - 2) * (Total - 1) \in Int /\ N \in Nat /\ N - 2 \in Int
    BY <1>2, Margin, LoadBalanceAssumption
  <2>2. CASE i = b
    <3>1. /\ Raised[b] = current[b] + weight[b] /\ weight[b] <= Total /\ weight[b] \in Nat
          /\ 2 * current[b] <= Total + (N - 2) * (Total - 1) /\ current[b] \in Int
          /\ current'[b] = Raised[b] - Total
      BY <1>2, <1>3, <1>4, <1>6, <1>8
    <3> QED BY <1>2, <2>1, <2>2, <3>1
  <2>3. CASE i # b
    <3> DEFINE c == 1 - Total
               f == [current' EXCEPT ![i] = c]
               g == [f EXCEPT ![b] = c]
    <3>1. /\ c \in Int /\ current'[i] \in Int /\ current'[b] \in Int
          /\ \A j \in Target : current'[j] >= c
      BY <1>2, <1>6, <1>8, <1>13
    <3>2. /\ f \in Credits /\ g \in Credits /\ f[b] = current'[b]
          /\ \A j \in Target : g[j] = (IF j = b THEN c ELSE IF j = i THEN c ELSE current'[j])
      BY <1>6, <1>8, <2>3, <3>1 DEF Credits
    <3>3. Sum(f) = Sum(current') - current'[i] + c
      BY <1>8, <3>1, SumChange
    <3>4. Sum(g) = Sum(f) - current'[b] + c
      <4>1. Sum(g) = Sum(f) - f[b] + c
        <5> HIDE DEF f, c
        <5> QED BY <1>6, <3>1, <3>2, SumChange
      <4> QED BY <3>2, <4>1
    <3>5. Sum(g) >= N * c
      <4>1. \A j \in Target : g[j] >= c
        <5> HIDE DEF g, f
        <5> QED BY <3>1, <3>2
      <4> HIDE DEF g, f, c
      <4> QED BY <3>1, <3>2, <4>1, SumAtLeast
    <3>6. (N - 2) * (Total - 1) = 2 * c - N * c /\ N * c \in Int
      <4>1. \A n, t \in Int : (n - 2) * (t - 1) = 2 * (1 - t) - n * (1 - t) /\ n * (1 - t) \in Int
        OBVIOUS
      <4> QED BY <1>2, <2>1, <4>1
    <3>7. current'[i] <= current'[b] + Total
      <4>1. current'[i] = Raised[i] /\ current'[b] = Raised[b] - Total
        BY <1>6, <1>8, <2>3
      <4>2. Raised[i] <= Raised[b] /\ Raised[i] \in Int /\ Raised[b] \in Int
        BY <1>4, <1>6
      <4> QED BY <1>2, <4>1, <4>2
    <3>8. Sum(g) \in Int /\ Sum(f) \in Int
      <4> HIDE DEF g, f
      <4> QED BY <3>2, SumType
    <3> HIDE DEF f, g, c
    <3> QED BY <1>2, <1>9, <2>1, <3>1, <3>3, <3>4, <3>5, <3>6, <3>7, <3>8
  <2> QED BY <2>2, <2>3
<1>15. WeightedInv'
  BY <1>9, <1>10, <1>12, <1>13, <1>14 DEF WeightedInv
<1>16. RoundRobinInv'
  BY <1>1 DEF RoundRobinInv
<1> QED BY <1>11, <1>15, <1>16 DEF Inv
-----------------------------------------------------------------------------
(* What the pickers promise *)

\* The conjunction is inductive: it holds of new pickers, and a pick or a
\* reload keeps it.
THEOREM BalanceInductive == Spec => []Inv
<1>1. Init => Inv
  BY InitInv
<1>2. Inv /\ [Next]_vars => Inv'
  <2> SUFFICES ASSUME Inv, [Next]_vars PROVE Inv'
    OBVIOUS
  <2>1. CASE RoundRobinNext
    BY <2>1, RoundRobinStep
  <2>2. CASE WeightedNext
    BY <2>2, WeightedStep
  <2>3. CASE RandomNext
    BY <2>3, RandomStep
  <2>4. CASE Reload
    BY <2>4, ReloadInv
  <2>5. CASE UNCHANGED vars
    BY <2>5 DEF vars, Inv, TypeOK, RoundRobinInv, WeightedInv, Picks, Total, Ahead
  <2> QED BY <2>1, <2>2, <2>3, <2>4, <2>5 DEF Next, Pick
<1> QED BY <1>1, <1>2, PTL DEF Spec

\* Every pick is of a target of the pool, whatever the strategy, and no target
\* is counted more picks than were made.
THEOREM PicksAreOfThePool == Spec => []TypeOK
<1>1. Inv => TypeOK
  BY DEF Inv
<1> QED BY <1>1, BalanceInductive, PTL

\* Round robin serves all targets of the pool alike, to within one pick and
\* one more for each wrap of its counter.
THEOREM RoundRobinStaysEven == Spec => []RoundRobinEven
<1>1. ASSUME Inv PROVE RoundRobinEven
  <2> SUFFICES ASSUME strategy = "round-robin", NEW i \in Target, NEW j \in Target
               PROVE  served[i] - served[j] <= 1 + (Picks \div Wrap)
    BY DEF RoundRobinEven
  <2>1. served[i] - served[j] <= (Picks \div Wrap) + Ahead(i) - Ahead(j)
    BY <1>1 DEF Inv, RoundRobinInv
  <2>2. served[i] \in Nat /\ served[j] \in Nat /\ Picks \div Wrap \in Nat
    BY <1>1, PicksIs, Quotient, LoadBalanceAssumption DEF Inv
  <2> QED BY <2>1, <2>2 DEF Ahead
<1> QED BY <1>1, BalanceInductive, PTL

\* Weighted picks never stray a whole pick above a target's share of any
\* number of picks, fall behind by a bounded number, and are exactly its share
\* after every full cycle: a debt is then a multiple of the total, and nobody
\* owes a whole one, so nobody owes or holds anything.
THEOREM WeightedKeepsShares == Spec => []WeightedShare
<1>1. ASSUME Inv PROVE WeightedShare
  <2> SUFFICES ASSUME strategy = "weighted" PROVE WeightedShare
    BY DEF WeightedShare
  <2>1. /\ Total \in Nat \ {0} /\ Picks \in Nat
        /\ \A i \in Target : weight[i] \in Nat /\ served[i] \in Nat
    BY <1>1, TotalIs, PicksIs DEF Inv, TypeOK, Total
  <2>2. /\ current \in Credits /\ Sum(current) = 0
        /\ \A i \in Target :
               /\ current[i] \in Int
               /\ current[i] = Picks * weight[i] - served[i] * Total
               /\ current[i] > -Total
               /\ 2 * current[i] <= Total + (N - 2) * (Total - 1)
    BY <1>1 DEF Inv, WeightedInv, TypeOK, Credits
  <2>3. \A i \in Target : served[i] * Total - Picks * weight[i] = -current[i]
    <3> TAKE i \in Target
    <3> DEFINE e == Picks * weight[i]
               h == served[i] * Total
    <3>1. e \in Int /\ h \in Int /\ current[i] = e - h
      BY <2>1, <2>2
    <3> HIDE DEF e, h
    <3>2. h - e = -current[i]
      BY <3>1
    <3> QED BY <3>2 DEF e, h
  <2>4. ASSUME Picks % Total = 0, NEW k \in Target PROVE current[k] = 0
    <3> DEFINE m == Picks \div Total
    <3>1. m \in Nat /\ Picks = Total * m
      <4>1. m \in Nat /\ Picks = Total * m + 0
        BY <2>1, <2>4, Quotient
      <4>2. Total * m \in Int
        BY <2>1, <4>1
      <4> QED BY <4>1, <4>2
    <3> HIDE DEF m
    <3>2. ASSUME NEW i \in Target PROVE current[i] >= 0
      <4> DEFINE u == m * weight[i] - served[i]
      <4>1. u \in Int /\ current[i] = u * Total
        <5>1. \A t, n, w, s \in Nat : (t * n) * w - s * t = (n * w - s) * t /\ n * w - s \in Int
          OBVIOUS
        <5> QED BY <2>1, <2>2, <3>1, <5>1
      <4> HIDE DEF u
      <4>2. u * Total > -Total
        BY <2>2, <4>1
      <4>3. u >= 0
        <5>1. \A t \in Nat \ {0} : \A n \in Int : n <= -1 => n * t <= -t
          OBVIOUS
        <5>2. u <= -1 => u * Total <= -Total
          BY <2>1, <4>1, <5>1
        <5>3. u * Total \in Int
          BY <2>1, <4>1
        <5> QED BY <2>1, <4>1, <4>2, <5>2, <5>3
      <4>4. u * Total >= 0
        <5>1. \A n, t \in Nat : n * t >= 0
          OBVIOUS
        <5> QED BY <2>1, <4>1, <4>3, <5>1
      <4> QED BY <4>1, <4>4
    <3>3. current[k] <= Sum(current)
      BY <2>2, <3>2, SumBounds
    <3> QED BY <2>2, <3>2, <3>3
  <2>5. ASSUME NEW i \in Target
        PROVE  LET stray == served[i] * Total - Picks * weight[i]
               IN  /\ stray < Total
                   /\ -2 * stray <= Total + (N - 2) * (Total - 1)
                   /\ Picks % Total = 0 => stray = 0
    <3> DEFINE stray == served[i] * Total - Picks * weight[i]
               bound == Total + (N - 2) * (Total - 1)
    <3>1. /\ stray = -current[i] /\ current[i] \in Int /\ current[i] > -Total
          /\ 2 * current[i] <= bound
      BY <2>2, <2>3
    <3>2. Picks % Total = 0 => stray = 0
      BY <2>4, <3>1
    <3> HIDE DEF stray, bound
    <3>3. stray < Total /\ -2 * stray <= bound
      BY <2>1, <3>1
    <3> QED BY <3>2, <3>3 DEF stray, bound
  <2> QED BY <2>5 DEF WeightedShare
<1> QED BY <1>1, BalanceInductive, PTL
=============================================================================
