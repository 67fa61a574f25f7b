----------------------- MODULE ResponseMapping_proofs -----------------------
(***************************************************************************)
(* Responses mapped in parallel, for any rules and documents: documents    *)
(* are well formed, and for rules that write into nothing shared every     *)
(* client gets what the rules mean of its own response, while the          *)
(* configuration stays as it was loaded.                                   *)
(***************************************************************************)
EXTENDS ResponseMapping, FiniteSetTheorems, SequenceTheorems, TLAPS

-----------------------------------------------------------------------------
(* Induction, prefixes *)

\* What holds for 0 and for each next number holds up to n.
LEMMA CountUp ==
    ASSUME NEW n \in Nat, NEW T, 0 \in T, \A i \in 0..(n - 1) : i \in T => i + 1 \in T
    PROVE  0..n \subseteq T
<1> SUFFICES ASSUME ~(0..n \subseteq T) PROVE FALSE
  OBVIOUS
<1> DEFINE left == {i \in 0..n : i \notin T}
<1>1. left \subseteq Nat /\ left # {}
  OBVIOUS
<1>2. IsWellFoundedOn(OpToRel(<, Nat), Nat)
  BY NatLessThanWellFounded
<1>3. PICK x \in left : \A y \in left : ~(<<y, x>> \in OpToRel(<, Nat))
  BY <1>1, <1>2, WFMin
<1>4. x \in 0..n /\ x \notin T /\ x # 0
  OBVIOUS
<1>5. x - 1 \in 0..(n - 1) /\ x - 1 \in 0..n /\ x - 1 \in Nat /\ x \in Nat /\ x - 1 < x
      /\ (x - 1) + 1 = x
  BY <1>4
<1>6. x - 1 \notin T
  BY <1>4, <1>5
<1>7. x - 1 \in left
  BY <1>5, <1>6
<1>8. <<x - 1, x>> \in OpToRel(<, Nat)
  BY <1>5 DEF OpToRel
<1> QED BY <1>3, <1>7, <1>8

Step == Key \cup Index
Walk == Seq(Step)
Upto(p, n) == SubSeq(p, 1, n)

LEMMA StepsApart == \A s \in Step : s \in Key <=> s \notin Index
BY MappingAssumption, TreeAssumption DEF Step, Index

\* Paths are the walks within the bound; most of what follows needs no bound.
LEMMA PathIs == Path = {p \in Walk : Len(p) <= MaxDepth}
<1>1. ASSUME NEW p \in Path PROVE p \in Walk /\ Len(p) <= MaxDepth
  <2>1. PICK m \in 0..MaxDepth : p \in [1..m -> Step]
    BY DEF Path, BoundedSeq, SeqOf, Step
  <2>2. m \in Nat /\ m <= MaxDepth
    BY <2>1, MappingAssumption, TreeAssumption
  <2> QED BY <2>1, <2>2 DEF Walk
<1>2. ASSUME NEW p \in Walk, Len(p) <= MaxDepth PROVE p \in Path
  <2>1. Len(p) \in 0..MaxDepth /\ p \in [1..Len(p) -> Step]
    BY <1>2, MappingAssumption, TreeAssumption DEF Walk
  <2> QED BY <2>1 DEF Path, BoundedSeq, SeqOf, Step
<1> QED BY <1>1, <1>2

LEMMA UptoIs ==
    ASSUME NEW p \in Walk, NEW n \in 0..Len(p)
    PROVE  /\ Upto(p, n) \in Walk /\ Len(Upto(p, n)) = n
           /\ \A i \in 1..n : Upto(p, n)[i] = p[i]
           /\ n = 0 => Upto(p, n) = <<>>
           /\ n = Len(p) => Upto(p, n) = p
           /\ n > 0 => Upto(p, n) = Append(Upto(p, n - 1), p[n]) /\ p[n] \in Step
<1>1. Len(p) \in Nat /\ n \in Int /\ \A i \in 1..Len(p) : p[i] \in Step
  BY DEF Walk
<1>2. Upto(p, n) \in Walk /\ Len(Upto(p, n)) = n
  BY DEF Upto, Walk
<1>3. \A i \in 1..n : Upto(p, n)[i] = p[i]
  BY DEF Upto, Walk
<1>4. n = 0 => Upto(p, n) = <<>>
  BY DEF Upto, Walk
<1>5. n = Len(p) => Upto(p, n) = p
  BY DEF Upto, Walk
<1>6. n > 0 => Upto(p, n) = Append(Upto(p, n - 1), p[n]) /\ p[n] \in Step
  BY DEF Upto, Walk
<1> QED BY <1>2, <1>3, <1>4, <1>5, <1>6

LEMMA AppendIs ==
    ASSUME NEW p \in Walk, NEW s \in Step
    PROVE  /\ Append(p, s) \in Walk /\ Len(Append(p, s)) = Len(p) + 1 /\ Append(p, s) # <<>>
           /\ Append(p, s)[Len(p) + 1] = s /\ \A i \in 1..Len(p) : Append(p, s)[i] = p[i]
           /\ \A n \in 0..Len(p) : Upto(Append(p, s), n) = Upto(p, n)
           /\ Front(Append(p, s)) = p /\ Last(Append(p, s)) = s
BY DEF Upto, Walk, Front, Last

LEMMA FrontIs ==
    ASSUME NEW p \in Walk, p # <<>>
    PROVE  Front(p) \in Walk /\ Last(p) \in Step /\ p = Append(Front(p), Last(p))
           /\ Len(Front(p)) = Len(p) - 1
<1>1. Len(p) \in Nat /\ Len(p) > 0
  BY DEF Walk
<1>2. Front(p) = Upto(p, Len(p) - 1) /\ Last(p) = p[Len(p)]
  BY DEF Front, Last, Upto
<1>3. Len(p) \in 0..Len(p) /\ Len(p) - 1 \in 0..Len(p)
  BY <1>1
<1> QED BY <1>1, <1>2, <1>3, UptoIs

\* What holds for the empty path and for each path one step longer holds for all.
LEMMA WalkInduction ==
    ASSUME NEW T, <<>> \in T, \A p \in Walk, s \in Step : p \in T => Append(p, s) \in T
    PROVE  Walk \subseteq T
<1> SUFFICES ASSUME NEW x \in Walk PROVE x \in T
  OBVIOUS
<1> DEFINE S == {n \in 0..Len(x) : Upto(x, n) \in T}
<1>1. Len(x) \in Nat
  BY DEF Walk
<1>2. 0 \in S
  BY <1>1, UptoIs
<1>3. ASSUME NEW i \in 0..(Len(x) - 1), i \in S PROVE i + 1 \in S
  <2>1. i + 1 \in 0..Len(x) /\ i + 1 > 0 /\ i \in 0..Len(x) /\ (i + 1) - 1 = i
    BY <1>1
  <2>2. Upto(x, i + 1) = Append(Upto(x, i), x[i + 1]) /\ x[i + 1] \in Step /\ Upto(x, i) \in Walk
    BY <2>1, UptoIs
  <2> QED BY <1>3, <2>1, <2>2
<1>4. 0..Len(x) \subseteq S
  <2> HIDE DEF S
  <2> QED BY <1>1, <1>2, <1>3, CountUp
<1>5. Len(x) \in S
  BY <1>1, <1>4
<1> QED BY <1>5, <1>1, UptoIs

LEMMA PrefixIs ==
    ASSUME NEW p \in Walk, NEW x \in Walk
    PROVE  /\ IsPrefix(p, x) <=> Len(p) <= Len(x) /\ \A i \in 1..Len(p) : p[i] = x[i]
           /\ IsPrefix(p, x) <=> Len(p) <= Len(x) /\ Upto(x, Len(p)) = p
           /\ IsStrictPrefix(p, x) <=> IsPrefix(p, x) /\ Len(p) < Len(x)
BY DEF IsPrefix, IsStrictPrefix, Walk, Upto

LEMMA ConcatIs ==
    ASSUME NEW p \in Walk, NEW y \in Walk
    PROVE  /\ p \o y \in Walk /\ Len(p \o y) = Len(p) + Len(y) /\ IsPrefix(p, p \o y)
           /\ \A i \in 1..Len(p) : (p \o y)[i] = p[i]
           /\ \A i \in 1..Len(y) : (p \o y)[Len(p) + i] = y[i]
           /\ SubSeq(p \o y, Len(p) + 1, Len(p \o y)) = y
           /\ \A s \in Step : p \o Append(y, s) = Append(p \o y, s)
           /\ p \o <<>> = p
<1>1. p \o y \in Walk /\ Len(p \o y) = Len(p) + Len(y)
  BY DEF Walk
<1>2. \A i \in 1..Len(p) : (p \o y)[i] = p[i]
  BY DEF Walk
<1>3. \A i \in 1..Len(y) : (p \o y)[Len(p) + i] = y[i]
  BY DEF Walk
<1>4. IsPrefix(p, p \o y)
  <2>1. Len(p) \in Nat /\ Len(y) \in Nat
    BY DEF Walk
  <2> DEFINE c == p \o y
  <2>2. c \in Walk /\ Len(p) <= Len(c) /\ \A i \in 1..Len(p) : p[i] = c[i]
    BY <1>1, <1>2, <2>1
  <2>3. IsPrefix(p, c)
    <3> HIDE DEF c
    <3> QED BY <2>2, PrefixIs
  <2> QED BY <2>3
<1>5. SubSeq(p \o y, Len(p) + 1, Len(p \o y)) = y
  BY DEF Walk
<1>6. \A s \in Step : p \o Append(y, s) = Append(p \o y, s)
  BY DEF Walk
<1>7. p \o <<>> = p
  BY DEF Walk
<1> QED BY <1>1, <1>2, <1>3, <1>4, <1>5, <1>6, <1>7

\* What follows a prefix.
After(p, x) == SubSeq(x, Len(p) + 1, Len(x))

LEMMA AfterIs ==
    ASSUME NEW p \in Walk, NEW x \in Walk, IsPrefix(p, x)
    PROVE  /\ After(p, x) \in Walk /\ x = p \o After(p, x) /\ Len(After(p, x)) = Len(x) - Len(p)
           /\ \A y \in Walk : x = p \o y => y = After(p, x)
<1>1. Len(p) <= Len(x) /\ \A i \in 1..Len(p) : p[i] = x[i]
  BY PrefixIs
<1>2. After(p, x) \in Walk /\ Len(After(p, x)) = Len(x) - Len(p)
      /\ \A i \in 1..(Len(x) - Len(p)) : After(p, x)[i] = x[Len(p) + i]
  BY <1>1 DEF After, Walk
<1>3. x = p \o After(p, x)
  <2>1. Len(p \o After(p, x)) = Len(x)
    BY <1>2, ConcatIs DEF Walk
  <2>2. ASSUME NEW i \in 1..Len(x) PROVE (p \o After(p, x))[i] = x[i]
    <3>1. CASE i <= Len(p)
      BY <3>1, <1>1, <1>2, ConcatIs DEF Walk
    <3>2. CASE i > Len(p)
      <4> DEFINE k == i - Len(p)
      <4>1. k \in 1..(Len(x) - Len(p)) /\ Len(p) + k = i
        BY <3>2 DEF Walk
      <4>2. k \in 1..Len(After(p, x)) /\ After(p, x)[k] = x[Len(p) + k]
        BY <4>1, <1>2
      <4>3. (p \o After(p, x))[Len(p) + k] = After(p, x)[k]
        <5> HIDE DEF k
        <5> QED BY <4>2, <1>2, ConcatIs
      <4> QED BY <4>1, <4>2, <4>3
    <3>3. i <= Len(p) \/ i > Len(p)
      BY DEF Walk
    <3> QED BY <3>1, <3>2, <3>3
  <2>3. p \o After(p, x) \in Walk
    BY <1>2, ConcatIs
  <2> HIDE DEF After
  <2> QED BY <2>1, <2>2, <2>3, SeqEqual DEF Walk
<1>4. \A y \in Walk : x = p \o y => y = After(p, x)
  BY ConcatIs DEF After
<1> QED BY <1>2, <1>3, <1>4

LEMMA PrefixTwo ==
    ASSUME NEW p \in Walk, NEW r \in Walk, NEW x \in Walk, IsPrefix(p, x)
    PROVE  /\ IsPrefix(r, x) => IsPrefix(p, r) \/ IsStrictPrefix(r, p)
           /\ IsPrefix(x, r) => IsPrefix(p, r)
           /\ IsPrefix(r, p) => IsPrefix(r, x)
<1>1. Len(p) \in Nat /\ Len(r) \in Nat /\ Len(x) \in Nat
  BY DEF Walk
<1> QED BY <1>1, PrefixIs

\* Two paths part somewhere unless one goes on where the other ends.
LEMMA PartAt ==
    ASSUME NEW p \in Walk, NEW x \in Walk, ~IsPrefix(p, x), ~IsStrictPrefix(x, p)
    PROVE  \E n \in 1..Len(p) : /\ n <= Len(x) /\ p[n] # x[n] /\ Upto(p, n - 1) = Upto(x, n - 1)
<1>1. Len(p) \in Nat /\ Len(x) \in Nat
  BY DEF Walk
<1> DEFINE Agree(n) == n <= Len(x) /\ \A i \in 1..n : p[i] = x[i]
           S == {n \in 0..Len(p) : Agree(n)}
<1> SUFFICES ASSUME \A n \in 1..Len(p) :
                        ~(n <= Len(x) /\ p[n] # x[n] /\ Upto(p, n - 1) = Upto(x, n - 1))
             PROVE  FALSE
  OBVIOUS
<1>2. 0 \in S
  BY <1>1
<1>3. ASSUME NEW n \in 0..(Len(p) - 1), n \in S PROVE n + 1 \in S
  <2>1. n + 1 \in 1..Len(p) /\ (n + 1) - 1 = n /\ n \in 0..Len(p) /\ n \in 0..Len(x)
        /\ n + 1 \in 0..Len(p)
    BY <1>1, <1>3
  <2>2. Upto(p, n) = Upto(x, n)
    <3>1. Upto(p, n) \in Walk /\ Upto(x, n) \in Walk /\ Len(Upto(p, n)) = n /\ Len(Upto(x, n)) = n
          /\ \A i \in 1..n : Upto(p, n)[i] = p[i] /\ Upto(x, n)[i] = x[i]
      BY <2>1, UptoIs
    <3>2. \A i \in 1..n : Upto(p, n)[i] = Upto(x, n)[i]
      BY <1>3, <3>1
    <3> QED BY <3>1, <3>2, SeqEqual DEF Walk
  <2>3. n + 1 <= Len(x)
    <3>1. n # Len(x)
      <4> SUFFICES ASSUME n = Len(x) PROVE FALSE
        OBVIOUS
      <4>1. IsPrefix(x, p)
        BY <1>1, <1>3, PrefixIs
      <4> QED BY <1>1, <2>1, <4>1, PrefixIs
    <3> QED BY <1>1, <2>1, <3>1
  <2>4. p[n + 1] = x[n + 1]
    BY <2>1, <2>2, <2>3
  <2>5. \A i \in 1..(n + 1) : i \in 1..n \/ i = n + 1
    BY <2>1
  <2> QED BY <1>3, <2>1, <2>3, <2>4, <2>5
<1>4. 0..Len(p) \subseteq S
  <2> HIDE DEF S
  <2> QED BY <1>1, <1>2, <1>3, CountUp
<1>5. Len(p) \in S
  BY <1>1, <1>4
<1> QED BY <1>1, <1>5, PrefixIs

-----------------------------------------------------------------------------
(* Walks along a path *)

\* g is a walk of m steps.
IsWalk(g, h, root, p, m) ==
    g = [n \in 0..m |-> IF n = 0 THEN root ELSE Member(h, g[n - 1], p[n])]

\* Get's recursive function exists.
LEMMA WalkIs ==
    ASSUME NEW h, NEW root, NEW p \in Walk
    PROVE  \E g : IsWalk(g, h, root, p, Len(p))
<1> DEFINE S == {m \in 0..Len(p) : \E g : IsWalk(g, h, root, p, m)}
<1>1. Len(p) \in Nat
  BY DEF Walk
<1>2. 0 \in S
  <2>1. IsWalk([n \in 0..0 |-> root], h, root, p, 0)
    BY DEF IsWalk
  <2> QED BY <1>1, <2>1
<1>3. ASSUME NEW m \in 0..(Len(p) - 1), m \in S PROVE m + 1 \in S
  <2>1. PICK g : IsWalk(g, h, root, p, m)
    BY <1>3
  <2> DEFINE t == [n \in 0..(m + 1) |-> IF n = m + 1 THEN Member(h, g[m], p[m + 1]) ELSE g[n]]
  <2>2. \A n \in 0..m : g[n] = IF n = 0 THEN root ELSE Member(h, g[n - 1], p[n])
    BY <2>1 DEF IsWalk
  <2>3. ASSUME NEW n \in 0..(m + 1)
        PROVE  t[n] = IF n = 0 THEN root ELSE Member(h, t[n - 1], p[n])
    <3>1. CASE n = m + 1
      <4>1. n # 0 /\ n - 1 = m /\ m \in 0..(m + 1) /\ m # m + 1
        BY <3>1
      <4> QED BY <3>1, <4>1
    <3>2. CASE n # m + 1
      <4>1. n \in 0..m /\ (n # 0 => n - 1 \in 0..(m + 1) /\ n - 1 # m + 1)
        BY <3>2
      <4> QED BY <2>2, <3>2, <4>1
    <3> QED BY <3>1, <3>2
  <2>4. IsWalk(t, h, root, p, m + 1)
    <3>1. t = [n \in 0..(m + 1) |-> t[n]]
      OBVIOUS
    <3> HIDE DEF t
    <3> QED BY <2>3, <3>1 DEF IsWalk
  <2> QED BY <1>1, <2>4
<1>4. 0..Len(p) \subseteq S
  <2> HIDE DEF S
  <2> QED BY <1>1, <1>2, <1>3, CountUp
<1> QED BY <1>1, <1>4

LEMMA GetIsWalk ==
    ASSUME NEW h, NEW root, NEW p \in Walk
    PROVE  \E g : IsWalk(g, h, root, p, Len(p)) /\ Get(h, root, p) = g[Len(p)]
<1> DEFINE w == CHOOSE g : IsWalk(g, h, root, p, Len(p))
<1>1. IsWalk(w, h, root, p, Len(p))
  BY WalkIs
<1>2. Get(h, root, p) = w[Len(p)]
  BY DEF Get, IsWalk
<1> QED BY <1>1, <1>2

\* The walks along two paths agree as long as the paths do.
LEMMA WalksAgree ==
    ASSUME NEW h, NEW root, NEW p \in Walk, NEW x \in Walk, IsPrefix(p, x),
           NEW f, IsWalk(f, h, root, p, Len(p)), NEW g, IsWalk(g, h, root, x, Len(x))
    PROVE  \A n \in 0..Len(p) : f[n] = g[n]
<1>1. Len(p) \in Nat /\ Len(x) \in Nat /\ Len(p) <= Len(x) /\ \A i \in 1..Len(p) : p[i] = x[i]
  BY PrefixIs DEF Walk
<1> DEFINE S == {n \in 0..Len(p) : f[n] = g[n]}
<1>2. 0 \in S
  BY <1>1 DEF IsWalk
<1>3. ASSUME NEW n \in 0..(Len(p) - 1), n \in S PROVE n + 1 \in S
  <2>1. n + 1 \in 0..Len(p) /\ n + 1 \in 0..Len(x) /\ n + 1 # 0 /\ (n + 1) - 1 = n
        /\ n + 1 \in 1..Len(p)
    BY <1>1
  <2>2. f[n + 1] = Member(h, f[n], p[n + 1]) /\ g[n + 1] = Member(h, g[n], x[n + 1])
    BY <2>1 DEF IsWalk
  <2> QED BY <1>1, <1>3, <2>1, <2>2
<1>4. 0..Len(p) \subseteq S
  <2> HIDE DEF S
  <2> QED BY <1>1, <1>2, <1>3, CountUp
<1> QED BY <1>4

LEMMA GetRoot == ASSUME NEW h, NEW root PROVE Get(h, root, <<>>) = root
<1>1. <<>> \in Walk /\ Len(<<>>) = 0
  BY DEF Walk
<1>2. PICK g : IsWalk(g, h, root, <<>>, 0) /\ Get(h, root, <<>>) = g[0]
  BY <1>1, GetIsWalk
<1> QED BY <1>1, <1>2 DEF IsWalk

LEMMA GetStep ==
    ASSUME NEW h, NEW root, NEW p \in Walk, NEW s \in Step
    PROVE  Get(h, root, Append(p, s)) = Member(h, Get(h, root, p), s)
<1> DEFINE x == Append(p, s)
<1>1. x \in Walk /\ Len(x) = Len(p) + 1 /\ x[Len(p) + 1] = s /\ Len(p) \in Nat
      /\ \A i \in 1..Len(p) : p[i] = x[i]
  BY AppendIs DEF Walk
<1> HIDE DEF x
<1>2. IsPrefix(p, x)
  BY <1>1, PrefixIs
<1>3. PICK f : IsWalk(f, h, root, p, Len(p)) /\ Get(h, root, p) = f[Len(p)]
  BY GetIsWalk
<1>4. PICK g : IsWalk(g, h, root, x, Len(x)) /\ Get(h, root, x) = g[Len(x)]
  BY <1>1, GetIsWalk
<1>5. f[Len(p)] = g[Len(p)]
  BY <1>1, <1>2, <1>3, <1>4, WalksAgree
<1>6. g[Len(p) + 1] = Member(h, g[Len(p)], x[Len(p) + 1])
  <2>1. Len(p) + 1 \in 0..Len(x) /\ Len(p) + 1 # 0 /\ (Len(p) + 1) - 1 = Len(p)
    BY <1>1
  <2> QED BY <1>4, <2>1 DEF IsWalk
<1> QED BY <1>1, <1>3, <1>4, <1>5, <1>6 DEF x

\* One step further on a path.
LEMMA GetNext ==
    ASSUME NEW h, NEW root, NEW p \in Walk, NEW n \in 1..Len(p)
    PROVE  Get(h, root, Upto(p, n)) = Member(h, Get(h, root, Upto(p, n - 1)), p[n])
<1>1. n \in 0..Len(p) /\ n - 1 \in 0..Len(p) /\ n > 0
  BY DEF Walk
<1>2. Upto(p, n - 1) \in Walk /\ p[n] \in Step /\ Upto(p, n) = Append(Upto(p, n - 1), p[n])
  BY <1>1, UptoIs
<1> QED BY <1>2, GetStep

\* Walking on from where a walk has come.
LEMMA GetOver ==
    ASSUME NEW h, NEW root, NEW p \in Walk
    PROVE  \A y \in Walk : Get(h, root, p \o y) = Get(h, Get(h, root, p), y)
<1> DEFINE v == Get(h, root, p)
           T == {y \in Walk : Get(h, root, p \o y) = Get(h, v, y)}
<1>1. <<>> \in T
  <2>1. <<>> \in Walk /\ p \o <<>> = p
    BY ConcatIs DEF Walk
  <2> QED BY <2>1, GetRoot
<1>2. ASSUME NEW y \in Walk, NEW s \in Step, y \in T PROVE Append(y, s) \in T
  <2>1. p \o Append(y, s) = Append(p \o y, s) /\ p \o y \in Walk /\ Append(y, s) \in Walk
    BY ConcatIs, AppendIs
  <2>2. Get(h, root, Append(p \o y, s)) = Member(h, Get(h, root, p \o y), s)
    BY <2>1, GetStep
  <2>3. Get(h, v, Append(y, s)) = Member(h, Get(h, v, y), s)
    BY GetStep
  <2>4. Get(h, root, p \o y) = Get(h, v, y)
    BY <1>2
  <2> HIDE DEF v
  <2> QED BY <2>1, <2>2, <2>3, <2>4
<1> HIDE DEF T
<1>3. Walk \subseteq T
  BY <1>1, <1>2, WalkInduction
<1> QED BY <1>3 DEF T

-----------------------------------------------------------------------------
(* Heaps and values *)

Shaped(h) ==
    /\ DOMAIN h \subseteq Name
    /\ \A o \in DOMAIN h :
          /\ o[1] = Map => DOMAIN h[o] \subseteq Key
          /\ o[1] # Map => \E c \in Nat : DOMAIN h[o] = 0..(c - 1)
          /\ \A s \in DOMAIN h[o] : IsValue(h, h[o][s])

\* Nothing of h is gone from g.
Extends(h, g) ==
    DOMAIN h \subseteq DOMAIN g /\ \A o \in DOMAIN h : DOMAIN h[o] \subseteq DOMAIN g[o]

\* A value is a scalar, a map or a slice.
LEMMA Kinds ==
    ASSUME NEW h, DOMAIN h \subseteq Name, NEW v
    PROVE  /\ v \in Scalar \cup {Missing} => ~IsMap(h, v) /\ ~IsSlice(h, v)
           /\ IsMap(h, v) => ~IsSlice(h, v) /\ Cells(v) = v /\ Cells(v) \in DOMAIN h
           /\ IsSlice(h, v) => /\ ~IsMap(h, v) /\ Cells(v) = v[2] /\ v[2] \in DOMAIN h
                               /\ v[3] \in Nat /\ v = <<Slice, v[2], v[3]>>
<1>1. \A o \in DOMAIN h : o[1] \in {Map, List}
  BY DEF Name
<1>2. Slice \notin {Map, List}
  BY MappingAssumption, TreeAssumption
<1>3. IsSlice(h, v) => v[1] = Slice /\ v[2] \in DOMAIN h /\ v[3] \in Nat /\ v = <<Slice, v[2], v[3]>>
  BY DEF IsSlice
<1>4. v \in Scalar \cup {Missing} => ~IsMap(h, v) /\ ~IsSlice(h, v)
  <2> SUFFICES ASSUME v \in Scalar \cup {Missing} PROVE ~IsMap(h, v) /\ ~IsSlice(h, v)
    OBVIOUS
  <2>1. v \notin Name /\ v \notin {Slice} \X Name \X Nat
    BY MappingAssumption, TreeAssumption
  <2>2. ~IsMap(h, v)
    BY <2>1 DEF IsMap
  <2>3. ~IsSlice(h, v)
    BY <2>1 DEF IsSlice
  <2> QED BY <2>2, <2>3
<1>5. IsMap(h, v) => v \in DOMAIN h /\ v[1] \in {Map, List}
  BY <1>1 DEF IsMap
<1> QED BY <1>2, <1>3, <1>4, <1>5 DEF Cells, IsMap

LEMMA NullIs == Null \in Scalar /\ \A h : IsValue(h, Null)
BY MappingAssumption, TreeAssumption DEF IsValue

LEMMA NotMissing ==
    ASSUME NEW h, DOMAIN h \subseteq Name, NEW v, IsValue(h, v)
    PROVE  v # Missing
<1>1. Missing \notin Scalar
  BY MappingAssumption, TreeAssumption
<1> QED BY <1>1, Kinds DEF IsValue

\* Later the same values are values, of the same kind.
LEMMA ValueStays ==
    ASSUME NEW h, NEW g, Shaped(h), DOMAIN g \subseteq Name, Extends(h, g),
           NEW v, IsValue(h, v) \/ v = Missing
    PROVE  /\ IsValue(h, v) => IsValue(g, v)
           /\ IsMap(h, v) <=> IsMap(g, v)
           /\ IsSlice(h, v) <=> IsSlice(g, v)
           /\ \A s \in Step : Holds(h, v, s) <=> Holds(g, v, s)
<1>1. DOMAIN h \subseteq Name /\ DOMAIN h \subseteq DOMAIN g
  BY DEF Shaped, Extends
<1>2. CASE v \in Scalar \cup {Missing}
  <2>1. ~IsMap(h, v) /\ ~IsSlice(h, v) /\ ~IsMap(g, v) /\ ~IsSlice(g, v)
    BY <1>1, <1>2, Kinds
  <2> QED BY <2>1, <1>2 DEF Holds, IsValue
<1>3. CASE IsMap(h, v) /\ v[1] = Map
  <2>1. IsMap(g, v)
    BY <1>1, <1>3 DEF IsMap
  <2>2. ~IsSlice(h, v) /\ ~IsSlice(g, v)
    BY <1>1, <1>3, <2>1, Kinds
  <2> QED BY <1>3, <2>1, <2>2 DEF Holds, IsValue
<1>4. CASE IsSlice(h, v) /\ v[2][1] = List /\ 0..(v[3] - 1) \subseteq DOMAIN h[v[2]]
  <2>1. v[2] \in DOMAIN h /\ ~IsMap(h, v)
    BY <1>1, <1>4, Kinds
  <2>2. IsSlice(g, v)
    BY <1>1, <1>4 DEF IsSlice
  <2>3. ~IsMap(g, v)
    BY <2>2, Kinds
  <2>4. DOMAIN h[v[2]] \subseteq DOMAIN g[v[2]]
    BY <2>1 DEF Extends
  <2> QED BY <1>4, <2>1, <2>2, <2>3, <2>4 DEF Holds, IsValue
<1> QED BY <1>2, <1>3, <1>4 DEF IsValue

LEMMA ExtendsTwo ==
    ASSUME NEW f, NEW g, NEW h, Extends(f, g), Extends(g, h) PROVE Extends(f, h)
<1>1. \A o \in DOMAIN f : o \in DOMAIN g /\ DOMAIN f[o] \subseteq DOMAIN g[o]
  BY DEF Extends
<1>2. \A o \in DOMAIN g : o \in DOMAIN h /\ DOMAIN g[o] \subseteq DOMAIN h[o]
  BY DEF Extends
<1> QED BY <1>1, <1>2 DEF Extends

\* In a well-formed heap a member is a value of that heap.
LEMMA MemberValue ==
    ASSUME NEW h, Shaped(h), NEW v, NEW s \in Step
    PROVE  /\ IsValue(h, Member(h, v, s)) \/ Member(h, v, s) = Missing
           /\ Member(h, v, s) # Missing =>
                 /\ Holds(h, v, s) /\ s \in DOMAIN h[Cells(v)] /\ (s \in Index => s < v[3])
                 /\ Member(h, v, s) = h[Cells(v)][s]
<1>1. Holds(h, v, s) => Cells(v) \in DOMAIN h
  BY Kinds DEF Holds, Shaped
<1>2. CASE Holds(h, v, s) /\ s \in DOMAIN h[Cells(v)] /\ (s \in Index => s < v[3])
  <2>1. Member(h, v, s) = h[Cells(v)][s]
    BY <1>2 DEF Member
  <2>2. IsValue(h, h[Cells(v)][s])
    BY <1>1, <1>2 DEF Shaped
  <2> QED BY <1>2, <2>1, <2>2
<1>3. CASE ~(Holds(h, v, s) /\ s \in DOMAIN h[Cells(v)] /\ (s \in Index => s < v[3]))
  BY <1>3 DEF Member
<1> QED BY <1>2, <1>3

\* An array has a member at each index below its length.
LEMMA MemberBelow ==
    ASSUME NEW h, Shaped(h), NEW v, IsValue(h, v), IsSlice(h, v), NEW i \in Index
    PROVE  /\ i < v[3] => /\ Member(h, v, i) = h[v[2]][i] /\ i \in DOMAIN h[v[2]]
                          /\ IsValue(h, Member(h, v, i)) /\ Member(h, v, i) # Missing
           /\ ~(i < v[3]) => Member(h, v, i) = Missing
<1>1. DOMAIN h \subseteq Name
  BY DEF Shaped
<1>2. Cells(v) = v[2] /\ v[2] \in DOMAIN h /\ v[3] \in Nat /\ ~IsMap(h, v) /\ v \notin Scalar
  BY <1>1, Kinds
<1>3. 0..(v[3] - 1) \subseteq DOMAIN h[v[2]]
  BY <1>2 DEF IsValue
<1>4. i \in Int /\ i >= 0
  BY MappingAssumption, TreeAssumption DEF Index
<1>5. ASSUME i < v[3]
      PROVE  /\ Member(h, v, i) = h[v[2]][i] /\ i \in DOMAIN h[v[2]]
             /\ IsValue(h, Member(h, v, i)) /\ Member(h, v, i) # Missing
  <2>1. i \in DOMAIN h[v[2]]
    BY <1>2, <1>3, <1>4, <1>5
  <2>2. Member(h, v, i) = h[v[2]][i]
    BY <1>2, <1>5, <2>1 DEF Member, Holds
  <2>3. IsValue(h, h[v[2]][i])
    BY <1>2, <2>1 DEF Shaped
  <2> QED BY <1>1, <2>1, <2>2, <2>3, NotMissing
<1>6. ~(i < v[3]) => Member(h, v, i) = Missing
  BY DEF Member
<1> QED BY <1>5, <1>6

\* What a path leads to is a value of the heap, if it is anything.
LEMMA GetValue ==
    ASSUME NEW h, Shaped(h), NEW root, IsValue(h, root) \/ root = Missing
    PROVE  \A x \in Walk : IsValue(h, Get(h, root, x)) \/ Get(h, root, x) = Missing
<1> DEFINE T == {x \in Walk : IsValue(h, Get(h, root, x)) \/ Get(h, root, x) = Missing}
<1>1. <<>> \in T
  BY GetRoot DEF Walk
<1>2. ASSUME NEW x \in Walk, NEW s \in Step, x \in T PROVE Append(x, s) \in T
  <2>1. Get(h, root, Append(x, s)) = Member(h, Get(h, root, x), s) /\ Append(x, s) \in Walk
    BY GetStep, AppendIs
  <2> QED BY <2>1, MemberValue
<1> HIDE DEF T
<1>3. Walk \subseteq T
  BY <1>1, <1>2, WalkInduction
<1> QED BY <1>3 DEF T

\* From what is no container nothing is reached.
LEMMA GetNothing ==
    ASSUME NEW h, Shaped(h), NEW v, ~IsNode(h, v)
    PROVE  \A y \in Walk : Get(h, v, y) = IF y = <<>> THEN v ELSE Missing
<1> DEFINE T == {y \in Walk : Get(h, v, y) = IF y = <<>> THEN v ELSE Missing}
<1>1. <<>> \in T
  BY GetRoot DEF Walk
<1>2. ASSUME NEW y \in Walk, NEW s \in Step, y \in T PROVE Append(y, s) \in T
  <2>1. Get(h, v, Append(y, s)) = Member(h, Get(h, v, y), s) /\ Append(y, s) # <<>>
        /\ Append(y, s) \in Walk
    BY GetStep, AppendIs
  <2>2. ~IsMap(h, Missing) /\ ~IsSlice(h, Missing)
    BY Kinds DEF Shaped
  <2>3. ~Holds(h, Get(h, v, y), s)
    BY <1>2, <2>2 DEF Holds, IsNode
  <2>4. Member(h, Get(h, v, y), s) = Missing
    BY <2>3 DEF Member
  <2> QED BY <2>1, <2>4
<1> HIDE DEF T
<1>3. Walk \subseteq T
  BY <1>1, <1>2, WalkInduction
<1> QED BY <1>3 DEF T

\* On the way to what is there, there are containers.
LEMMA GetThrough ==
    ASSUME NEW h, Shaped(h), NEW root, NEW x \in Walk, Get(h, root, x) # Missing,
           NEW n \in 1..Len(x)
    PROVE  Holds(h, Get(h, root, Upto(x, n - 1)), x[n])
<1> DEFINE S == {k \in 0..Len(x) : Get(h, root, Upto(x, Len(x) - k)) # Missing}
<1>1. Len(x) \in Nat
  BY DEF Walk
<1>2. 0 \in S
  <2>1. Len(x) - 0 = Len(x) /\ Upto(x, Len(x)) = x
    BY <1>1, UptoIs
  <2> QED BY <1>1, <2>1
<1>3. ASSUME NEW k \in 0..(Len(x) - 1), k \in S PROVE k + 1 \in S
  <2> DEFINE m == Len(x) - k
  <2>1. m \in 1..Len(x) /\ Len(x) - (k + 1) = m - 1 /\ k + 1 \in 0..Len(x)
    BY <1>1
  <2>2. m \in 0..Len(x) /\ m > 0
    BY <2>1
  <2>3. x[m] \in Step
    BY <2>2, UptoIs
  <2>4. Get(h, root, Upto(x, m)) = Member(h, Get(h, root, Upto(x, m - 1)), x[m])
    BY <2>1, GetNext
  <2>5. Holds(h, Get(h, root, Upto(x, m - 1)), x[m])
    <3> HIDE DEF m
    <3> QED BY <1>3, <2>3, <2>4, MemberValue DEF m
  <2>6. ~IsMap(h, Missing) /\ ~IsSlice(h, Missing)
    BY Kinds DEF Shaped
  <2>7. Get(h, root, Upto(x, m - 1)) # Missing
    BY <2>5, <2>6 DEF Holds
  <2> QED BY <2>1, <2>7
<1>4. 0..Len(x) \subseteq S
  <2> HIDE DEF S
  <2> QED BY <1>1, <1>2, <1>3, CountUp
<1>5. Len(x) - n \in S
  <2> HIDE DEF S
  <2> QED BY <1>1, <1>4
<1>6. Get(h, root, Upto(x, n)) # Missing
  <2>1. Len(x) - (Len(x) - n) = n
    BY <1>1
  <2> QED BY <1>5, <2>1
<1>7. x[n] \in Step /\ n \in 0..Len(x)
  BY <1>1, UptoIs
<1>8. Get(h, root, Upto(x, n)) = Member(h, Get(h, root, Upto(x, n - 1)), x[n])
  BY GetNext
<1> QED BY <1>6, <1>7, <1>8, MemberValue

\* Two heaps in which a walk meets the same objects.
LEMMA GetSame ==
    ASSUME NEW h, NEW g, Shaped(h), Shaped(g), Extends(h, g),
           NEW T \in SUBSET Walk, <<>> \in T,
           \A p \in Walk, s \in Step : Append(p, s) \in T => p \in T,
           NEW v, IsValue(h, v) \/ v = Missing,
           \A x \in T : IsNode(h, Get(h, v, x)) =>
                            g[Cells(Get(h, v, x))] = h[Cells(Get(h, v, x))]
    PROVE  \A x \in T : Get(g, v, x) = Get(h, v, x)
<1> DEFINE S == {x \in Walk : x \in T => Get(g, v, x) = Get(h, v, x)}
<1>1. <<>> \in S
  BY GetRoot DEF Walk
<1>2. ASSUME NEW x \in Walk, NEW s \in Step, x \in S PROVE Append(x, s) \in S
  <2> SUFFICES ASSUME Append(x, s) \in T
               PROVE  Get(g, v, Append(x, s)) = Get(h, v, Append(x, s))
    BY AppendIs
  <2>1. x \in T /\ Get(g, v, x) = Get(h, v, x)
    BY <1>2
  <2> DEFINE w == Get(h, v, x)
  <2>2. IsValue(h, w) \/ w = Missing
    BY GetValue
  <2>3. IsNode(h, w) => g[Cells(w)] = h[Cells(w)]
    BY <2>1
  <2>4. Get(g, v, Append(x, s)) = Member(g, w, s) /\ Get(h, v, Append(x, s)) = Member(h, w, s)
    BY <2>1, GetStep
  <2> HIDE DEF w
  <2>5. Holds(h, w, s) <=> Holds(g, w, s)
    BY <2>2, ValueStays DEF Shaped
  <2>6. Holds(h, w, s) => IsNode(h, w)
    BY DEF Holds, IsNode
  <2> QED BY <2>3, <2>4, <2>5, <2>6 DEF Member
<1> HIDE DEF S
<1>3. Walk \subseteq S
  BY <1>1, <1>2, WalkInduction
<1> QED BY <1>3 DEF S

-----------------------------------------------------------------------------
(* append *)

IsRoom(room, m) ==
    room = [k \in 0..m |-> IF k = 0 THEN 0
                           ELSE IF room[k - 1] >= k THEN room[k - 1]
                           ELSE IF k = 1 THEN 1 ELSE 2 * room[k - 1]]

LEMMA RoomIs == ASSUME NEW m \in Nat PROVE \E room : IsRoom(room, m)
<1> DEFINE S == {n \in 0..m : \E room : IsRoom(room, n)}
<1>1. 0 \in S
  <2>1. IsRoom([k \in 0..0 |-> 0], 0)
    BY DEF IsRoom
  <2> QED BY <2>1
<1>2. ASSUME NEW n \in 0..(m - 1), n \in S PROVE n + 1 \in S
  <2>1. PICK g : IsRoom(g, n)
    BY <1>2
  <2> DEFINE next == IF g[n] >= n + 1 THEN g[n] ELSE IF n + 1 = 1 THEN 1 ELSE 2 * g[n]
             t == [k \in 0..(n + 1) |-> IF k = n + 1 THEN next ELSE g[k]]
  <2>2. \A k \in 0..n : g[k] = IF k = 0 THEN 0
                               ELSE IF g[k - 1] >= k THEN g[k - 1]
                               ELSE IF k = 1 THEN 1 ELSE 2 * g[k - 1]
    BY <2>1 DEF IsRoom
  <2>3. ASSUME NEW k \in 0..(n + 1)
        PROVE  t[k] = IF k = 0 THEN 0
                      ELSE IF t[k - 1] >= k THEN t[k - 1]
                      ELSE IF k = 1 THEN 1 ELSE 2 * t[k - 1]
    <3>1. CASE k = n + 1
      <4>1. k # 0 /\ k - 1 = n /\ n \in 0..(n + 1) /\ n # n + 1
        BY <3>1
      <4>2. t[k] = next /\ t[k - 1] = g[n]
        <5> HIDE DEF next
        <5> QED BY <3>1, <4>1
      <4> HIDE DEF t
      <4> QED BY <3>1, <4>1, <4>2
    <3>2. CASE k # n + 1
      <4>1. k \in 0..n /\ (k # 0 => k - 1 \in 0..(n + 1) /\ k - 1 # n + 1)
        BY <3>2
      <4>2. t[k] = g[k] /\ (k # 0 => t[k - 1] = g[k - 1])
        <5> HIDE DEF next
        <5> QED BY <3>2, <4>1
      <4> HIDE DEF t
      <4> QED BY <2>2, <4>1, <4>2
    <3> QED BY <3>1, <3>2
  <2>4. IsRoom(t, n + 1)
    <3>1. t = [k \in 0..(n + 1) |-> t[k]]
      OBVIOUS
    <3> HIDE DEF t
    <3> QED BY <2>3, <3>1 DEF IsRoom
  <2> QED BY <2>4
<1>3. 0..m \subseteq S
  <2> HIDE DEF S
  <2> QED BY <1>1, <1>2, CountUp
<1> QED BY <1>3

\* There is room for what is appended.
LEMMA CapacityIs == ASSUME NEW m \in Nat PROVE Capacity(m) \in Nat /\ Capacity(m) >= m
<1> DEFINE room == CHOOSE r : IsRoom(r, m)
<1>1. IsRoom(room, m)
  BY RoomIs
<1>2. Capacity(m) = room[m]
  BY DEF Capacity, IsRoom
<1> HIDE DEF room
<1> DEFINE S == {n \in 0..m : room[n] \in Nat /\ room[n] >= n}
<1>3. 0 \in S
  BY <1>1 DEF IsRoom
<1>4. ASSUME NEW n \in 0..(m - 1), n \in S PROVE n + 1 \in S
  <2>1. n + 1 \in 0..m /\ n + 1 # 0 /\ (n + 1) - 1 = n
    OBVIOUS
  <2>2. room[n + 1] = IF room[n] >= n + 1 THEN room[n]
                      ELSE IF n + 1 = 1 THEN 1 ELSE 2 * room[n]
    BY <1>1, <2>1 DEF IsRoom
  <2>3. room[n] \in Nat /\ room[n] >= n
    BY <1>4
  <2> QED BY <2>1, <2>2, <2>3
<1>5. 0..m \subseteq S
  <2> HIDE DEF S
  <2> QED BY <1>3, <1>4, CountUp
<1> QED BY <1>2, <1>5

LEMMA MaxOfTwo ==
    ASSUME NEW a \in Int, NEW b \in Int
    PROVE  Max({a, b}) = IF a >= b THEN a ELSE b
BY DEF Max

-----------------------------------------------------------------------------
(* A container for a member *)

\* What the members of v become when it is opened for a member s.
Opening(h, v, s, i) ==
    IF Holds(h, v, s) /\ Member(h, v, i) # Missing THEN Member(h, v, i)
    ELSE IF s \in Index /\ i \in Index /\ i <= s THEN Null ELSE Missing

\* g and w are a heap h and a value v of it opened for a member s, where m is new.
IsOpened(h, v, s, m, g, w) ==
    /\ Shaped(g) /\ Extends(h, g) /\ DOMAIN g \subseteq DOMAIN h \cup {m}
    /\ IsValue(g, w) /\ Holds(g, w, s) /\ (s \in Index => s < w[3])
    /\ Cells(w) = m \/ (Holds(h, v, s) /\ Cells(w) = Cells(v))
    /\ Cells(w) \in DOMAIN g
    /\ \A o \in DOMAIN h : ~(Holds(h, v, s) /\ o = Cells(v)) => g[o] = h[o]
    /\ \A i \in Step : Member(g, w, i) = Opening(h, v, s, i)

LEMMA OpenedMap ==
    ASSUME NEW h, Shaped(h), NEW v, IsValue(h, v) \/ v = Missing, NEW s \in Step, s \notin Index,
           NEW m \in Name, m[1] = Map, m \notin DOMAIN h
    PROVE  LET o == Opened(h, v, s, m) IN IsOpened(h, v, s, m, o.heap, o.value)
<1>0. DOMAIN h \subseteq Name
  BY DEF Shaped
<1>1. CASE IsMap(h, v)
  <2>1. Opened(h, v, s, m) = [heap |-> h, value |-> v]
    BY <1>1 DEF Opened
  <2>2. Cells(v) = v /\ v \in DOMAIN h /\ v # Missing /\ ~IsSlice(h, v) /\ Holds(h, v, s)
    BY <1>0, <1>1, Kinds DEF IsMap, Holds
  <2>3. \A i \in Step : Member(h, v, i) = Opening(h, v, s, i)
    BY <2>2 DEF Opening
  <2>4. Extends(h, h)
    BY DEF Extends
  <2>5. IsValue(h, v) /\ Cells(v) \in DOMAIN h
    BY <2>2
  <2>6. IsOpened(h, v, s, m, h, v)
    BY <2>2, <2>3, <2>4, <2>5 DEF IsOpened
  <2> QED BY <2>1, <2>6
<1>2. CASE ~IsMap(h, v)
  <2> DEFINE g == With(h, m, <<>>)
  <2>1. Opened(h, v, s, m) = [heap |-> g, value |-> m]
    BY <1>2 DEF Opened
  <2>2. DOMAIN g = DOMAIN h \cup {m} /\ g[m] = <<>> /\ \A o \in DOMAIN h : g[o] = h[o]
    BY DEF With
  <2> HIDE DEF g
  <2>3. Extends(h, g) /\ DOMAIN g \subseteq Name
    BY <1>0, <2>2 DEF Extends
  <2>4. \A x : IsValue(h, x) => IsValue(g, x)
    BY <2>3, ValueStays
  <2>5. DOMAIN <<>> = {}
    OBVIOUS
  <2>6. Shaped(g)
    <3> SUFFICES ASSUME NEW o \in DOMAIN g
                 PROVE  /\ o[1] = Map => DOMAIN g[o] \subseteq Key
                        /\ o[1] # Map => \E c \in Nat : DOMAIN g[o] = 0..(c - 1)
                        /\ \A i \in DOMAIN g[o] : IsValue(g, g[o][i])
      BY <2>3 DEF Shaped
    <3>1. CASE o = m
      BY <3>1, <2>2, <2>5
    <3>2. CASE o \in DOMAIN h
      BY <3>2, <2>2, <2>4 DEF Shaped
    <3> QED BY <3>1, <3>2, <2>2
  <2>7. IsMap(g, m) /\ ~IsSlice(g, m) /\ Cells(m) = m /\ IsValue(g, m)
    BY <2>2, <2>3, Kinds DEF IsMap, IsValue
  <2>8. ~Holds(h, v, s)
    BY <1>2 DEF Holds
  <2>9. \A i \in Step : Member(g, m, i) = Opening(h, v, s, i)
    BY <2>2, <2>5, <2>7, <2>8 DEF Member, Opening
  <2>10. Holds(g, m, s)
    BY <2>7 DEF Holds
  <2>11. DOMAIN g \subseteq DOMAIN h \cup {m} /\ Cells(m) \in DOMAIN g
    BY <2>2, <2>7
  <2>12. IsOpened(h, v, s, m, g, m)
    BY <2>2, <2>3, <2>6, <2>7, <2>9, <2>10, <2>11 DEF IsOpened
  <2> QED BY <2>1, <2>12
<1> QED BY <1>1, <1>2

\* The same for an index: a slice with room, one without, and no slice.
LEMMA OpenedSlice ==
    ASSUME NEW h, Shaped(h), NEW v, IsValue(h, v) \/ v = Missing, NEW s \in Index,
           NEW m \in Name, m[1] = List, m \notin DOMAIN h
    PROVE  LET o == Opened(h, v, s, m) IN IsOpened(h, v, s, m, o.heap, o.value)
<1>0. DOMAIN h \subseteq Name /\ s \in Step /\ s \in Nat /\ \A i \in Index : i \in Nat
  BY MappingAssumption, TreeAssumption DEF Shaped, Step, Index
<1> DEFINE old    == IF IsSlice(h, v) THEN h[v[2]] ELSE <<>>
           length == IF IsSlice(h, v) THEN v[3] ELSE 0
           filled == [i \in DOMAIN old |-> IF i \in length..s THEN Null ELSE old[i]]
           grown  == [i \in 0..(Capacity(s + 1) - 1) |-> IF i < length THEN old[i] ELSE Null]
           kept   == IF IsSlice(h, v) THEN With(h, v[2], filled) ELSE h
<1>1. /\ Holds(h, v, s) <=> IsSlice(h, v)
      /\ Opened(h, v, s, m) =
             IF s \in DOMAIN old
             THEN [heap |-> kept, value |-> <<Slice, v[2], Max({length, s + 1})>>]
             ELSE [heap |-> With(kept, m, grown), value |-> <<Slice, m, s + 1>>]
  BY DEF Opened, Holds
<1>2. length \in Nat /\ (IsSlice(h, v) => v # Missing /\ v \notin Scalar /\ ~IsMap(h, v) /\ IsValue(h, v)
                            /\ Cells(v) = v[2] /\ v[2] \in DOMAIN h)
  BY <1>0, Kinds
<1>3. /\ IsSlice(h, v) => 0..(length - 1) \subseteq DOMAIN old /\ v[2][1] # Map
      /\ \E c \in Nat : DOMAIN old = 0..(c - 1)
      /\ \A i \in DOMAIN old : IsValue(h, old[i])
  <2>1. CASE IsSlice(h, v)
    <3>1. v[2][1] = List /\ 0..(v[3] - 1) \subseteq DOMAIN h[v[2]] /\ v[2] \in DOMAIN h
      BY <1>2, <2>1 DEF IsValue
    <3>2. v[2][1] # Map
      BY <3>1, MappingAssumption, TreeAssumption
    <3> QED BY <2>1, <3>1, <3>2 DEF Shaped
  <2>2. CASE ~IsSlice(h, v)
    <3>1. DOMAIN old = {} /\ 0..(0 - 1) = {}
      BY <2>2
    <3> HIDE DEF old
    <3> QED BY <2>2, <3>1
  <2> QED BY <2>1, <2>2
<1>4. /\ DOMAIN kept = DOMAIN h
      /\ \A o \in DOMAIN h : ~(IsSlice(h, v) /\ o = v[2]) => kept[o] = h[o]
      /\ IsSlice(h, v) => kept[v[2]] = filled
  BY <1>2 DEF With
<1>5. DOMAIN filled = DOMAIN old /\ \A i \in DOMAIN old : IsValue(h, filled[i])
  BY <1>3, NullIs
<1>6. Capacity(s + 1) \in Nat /\ s + 1 <= Capacity(s + 1)
  BY <1>0, CapacityIs
<1>7. ASSUME s \notin DOMAIN old
      PROVE  length <= s /\ DOMAIN grown = 0..(Capacity(s + 1) - 1)
             /\ \A i \in DOMAIN grown : IsValue(h, grown[i])
  <2>1. length <= s
    <3>1. CASE IsSlice(h, v)
      BY <1>0, <1>2, <1>3, <1>7, <3>1
    <3>2. CASE ~IsSlice(h, v)
      BY <1>0, <3>2
    <3> QED BY <3>1, <3>2
  <2>2. ASSUME NEW i \in DOMAIN grown PROVE IsValue(h, grown[i])
    <3>1. i \in Nat
      OBVIOUS
    <3>2. CASE i < length
      <4>1. IsSlice(h, v)
        BY <3>1, <3>2
      <4>2. i \in 0..(length - 1)
        <5> HIDE DEF length
        <5> QED BY <1>2, <3>1, <3>2
      <4>3. i \in DOMAIN old
        BY <1>3, <4>1, <4>2
      <4> QED BY <1>3, <3>2, <4>3
    <3>3. CASE ~(i < length)
      BY <3>3, NullIs
    <3> QED BY <3>2, <3>3
  <2> QED BY <2>1, <2>2
<1> HIDE DEF old, length, filled, grown, kept
<1>8. \A g : DOMAIN h \subseteq DOMAIN g /\ DOMAIN g \subseteq Name
             /\ (\A o \in DOMAIN h : o # m => g[o] = kept[o]) => Extends(h, g)
  <2> SUFFICES ASSUME NEW g, DOMAIN h \subseteq DOMAIN g, \A o \in DOMAIN h : o # m => g[o] = kept[o],
                      NEW o \in DOMAIN h
               PROVE  DOMAIN h[o] \subseteq DOMAIN g[o]
    BY DEF Extends
  <2>1. g[o] = kept[o]
    OBVIOUS
  <2>2. CASE IsSlice(h, v) /\ o = v[2]
    BY <1>4, <1>5, <2>1, <2>2 DEF old
  <2>3. CASE ~(IsSlice(h, v) /\ o = v[2])
    BY <1>4, <2>1, <2>3
  <2> QED BY <2>2, <2>3
\* the cells of h, as they are kept
<1>9. \A g : Extends(h, g) /\ DOMAIN g \subseteq Name /\ (\A o \in DOMAIN h : g[o] = kept[o]) =>
          \A o \in DOMAIN h : /\ o[1] = Map => DOMAIN g[o] \subseteq Key
                              /\ o[1] # Map => \E c \in Nat : DOMAIN g[o] = 0..(c - 1)
                              /\ \A i \in DOMAIN g[o] : IsValue(g, g[o][i])
  <2> SUFFICES ASSUME NEW g, Extends(h, g), DOMAIN g \subseteq Name,
                      \A o \in DOMAIN h : g[o] = kept[o], NEW o \in DOMAIN h
               PROVE  /\ o[1] = Map => DOMAIN g[o] \subseteq Key
                      /\ o[1] # Map => \E c \in Nat : DOMAIN g[o] = 0..(c - 1)
                      /\ \A i \in DOMAIN g[o] : IsValue(g, g[o][i])
    OBVIOUS
  <2>1. \A x : IsValue(h, x) => IsValue(g, x)
    BY ValueStays
  <2>2. CASE IsSlice(h, v) /\ o = v[2]
    <3>1. g[o] = filled /\ o[1] # Map
      BY <1>3, <1>4, <2>2
    <3> QED BY <1>3, <1>5, <2>1, <3>1
  <2>3. CASE ~(IsSlice(h, v) /\ o = v[2])
    <3>1. g[o] = h[o]
      BY <1>4, <2>3
    <3> QED BY <2>1, <3>1 DEF Shaped
  <2> QED BY <2>2, <2>3
\* the members of v before
<1>10. \A i \in Step : Opening(h, v, s, i) =
           IF i \notin Index THEN Missing
           ELSE IF i < length THEN old[i]
           ELSE IF i <= s THEN Null ELSE Missing
  <2> SUFFICES ASSUME NEW i \in Step
               PROVE  Opening(h, v, s, i) =
                          IF i \notin Index THEN Missing
                          ELSE IF i < length THEN old[i]
                          ELSE IF i <= s THEN Null ELSE Missing
    OBVIOUS
  <2>1. CASE i \notin Index
    <3>1. Member(h, v, i) # Missing => IsMap(h, v)
      BY <2>1, MemberValue DEF Holds
    <3> QED BY <1>1, <1>2, <2>1, <3>1 DEF Opening
  <2>2. CASE i \in Index /\ IsSlice(h, v)
    <3>1. length = v[3] /\ old = h[v[2]]
      BY <2>2 DEF length, old
    <3>2. /\ i < length => Member(h, v, i) = old[i] /\ Member(h, v, i) # Missing
          /\ ~(i < length) => Member(h, v, i) = Missing
      BY <1>2, <2>2, <3>1, MemberBelow
    <3> QED BY <1>1, <2>2, <3>2 DEF Opening
  <2>3. CASE i \in Index /\ ~IsSlice(h, v)
    <3>1. length = 0
      BY <2>3 DEF length
    <3>2. i \in Nat
      BY <2>3, TreeAssumption DEF Index
    <3>3. ~(i < 0)
      BY <3>2
    <3> QED BY <1>1, <2>3, <3>1, <3>3 DEF Opening
  <2> QED BY <2>1, <2>2, <2>3
<1>11. CASE s \in DOMAIN old
  <2> DEFINE w == <<Slice, v[2], Max({length, s + 1})>>
             top == Max({length, s + 1})
  <2>1. Opened(h, v, s, m) = [heap |-> kept, value |-> w]
    BY <1>1, <1>11
  <2>2. IsSlice(h, v)
    BY <1>11 DEF old
  <2>3. top = (IF length >= s + 1 THEN length ELSE s + 1) /\ top \in Nat
    BY <1>0, <1>2, MaxOfTwo
  <2>4. Extends(h, kept) /\ DOMAIN kept \subseteq Name
    <3>1. DOMAIN h \subseteq DOMAIN kept /\ DOMAIN kept \subseteq Name
      BY <1>0, <1>4
    <3> QED BY <1>8, <3>1
  <2>5. Shaped(kept)
    BY <1>4, <1>9, <2>4 DEF Shaped
  <2>6. IsSlice(kept, w) /\ Cells(w) = v[2] /\ w[3] = top /\ w[2] = v[2] /\ v[2] \in DOMAIN kept
    <3> HIDE DEF top
    <3>1. w = <<Slice, v[2], top>>
      BY DEF top
    <3> HIDE DEF w
    <3> QED BY <1>2, <1>4, <2>2, <2>3, <3>1 DEF IsSlice, Cells
  <2>7. 0..(top - 1) \subseteq DOMAIN filled
    <3>1. PICK c \in Nat : DOMAIN old = 0..(c - 1)
      BY <1>3
    <3>2. s + 1 <= c /\ length <= c
      <4>1. length = 0 \/ length - 1 \in DOMAIN old
        BY <1>2, <1>3, <2>2
      <4> QED BY <1>0, <1>2, <1>11, <3>1, <4>1
    <3> HIDE DEF top
    <3> QED BY <1>0, <1>2, <1>5, <2>3, <3>1, <3>2
  <2>8. v[2][1] = List
    BY <1>2, <2>2 DEF IsValue
  <2>9. IsValue(kept, w)
    <3> HIDE DEF w, top
    <3> QED BY <1>4, <2>2, <2>6, <2>7, <2>8 DEF IsValue
  <2>10. \A i \in Step : Member(kept, w, i) = Opening(h, v, s, i)
    <3> SUFFICES ASSUME NEW i \in Step PROVE Member(kept, w, i) = Opening(h, v, s, i)
      OBVIOUS
    <3> HIDE DEF w, top
    <3>1. CASE i \notin Index
      <4>1. ~IsMap(kept, w)
        BY <2>4, <2>6, Kinds
      <4> QED BY <1>10, <3>1, <4>1 DEF Member, Holds
    <3>2. CASE i \in Index
      <4>1. /\ i < top => Member(kept, w, i) = filled[i] /\ i \in DOMAIN filled
            /\ ~(i < top) => Member(kept, w, i) = Missing
        BY <1>4, <2>2, <2>5, <2>6, <2>9, <3>2, MemberBelow
      <4>2. i \in DOMAIN filled => filled[i] = IF i \in length..s THEN Null ELSE old[i]
        BY <1>5 DEF filled
      <4>3. i \in Nat
        BY <1>0, <3>2
      <4> QED BY <1>0, <1>2, <1>10, <2>3, <3>2, <4>1, <4>2, <4>3
    <3> QED BY <3>1, <3>2
  <2>11. IsOpened(h, v, s, m, kept, w)
    <3>1. Holds(h, v, s) /\ Cells(w) = Cells(v) /\ Holds(kept, w, s)
      <4> HIDE DEF w, top
      <4> QED BY <1>1, <1>2, <2>2, <2>6 DEF Holds
    <3>2. s < w[3]
      <4> HIDE DEF w, top
      <4> QED BY <1>0, <1>2, <2>3, <2>6
    <3> HIDE DEF w, top
    <3> QED BY <1>2, <1>4, <2>2, <2>4, <2>5, <2>6, <2>9, <2>10, <3>1, <3>2 DEF IsOpened
  <2> QED BY <2>1, <2>11
<1>12. CASE s \notin DOMAIN old
  <2> DEFINE g == With(kept, m, grown)
             w == <<Slice, m, s + 1>>
  <2>1. Opened(h, v, s, m) = [heap |-> g, value |-> w]
    BY <1>1, <1>12
  <2>2. DOMAIN g = DOMAIN h \cup {m} /\ g[m] = grown /\ \A o \in DOMAIN h : g[o] = kept[o]
    BY <1>4 DEF With
  <2> HIDE DEF g
  <2>3. Extends(h, g) /\ DOMAIN g \subseteq Name
    <3>1. DOMAIN h \subseteq DOMAIN g /\ DOMAIN g \subseteq Name
      BY <1>0, <2>2
    <3> QED BY <1>8, <2>2, <3>1
  <2>4. Shaped(g)
    <3> SUFFICES ASSUME NEW o \in DOMAIN g
                 PROVE  /\ o[1] = Map => DOMAIN g[o] \subseteq Key
                        /\ o[1] # Map => \E c \in Nat : DOMAIN g[o] = 0..(c - 1)
                        /\ \A i \in DOMAIN g[o] : IsValue(g, g[o][i])
      BY <2>3 DEF Shaped
    <3>1. CASE o = m
      <4>1. m[1] # Map
        BY MappingAssumption, TreeAssumption
      <4>2. DOMAIN g[o] = 0..(Capacity(s + 1) - 1)
        BY <1>7, <1>12, <2>2, <3>1
      <4>3. \A i \in DOMAIN g[o] : IsValue(g, g[o][i])
        BY <1>7, <1>12, <2>2, <2>3, <3>1, ValueStays
      <4> QED BY <1>6, <3>1, <4>1, <4>2, <4>3
    <3>2. CASE o \in DOMAIN h
      BY <1>9, <2>2, <2>3, <3>2
    <3> QED BY <2>2, <3>1, <3>2
  <2>5. IsSlice(g, w) /\ Cells(w) = m /\ w[3] = s + 1 /\ w[2] = m /\ m \in DOMAIN g
    BY <1>0, <2>2 DEF IsSlice, Cells
  <2> HIDE DEF w
  <2>6. IsValue(g, w)
    BY <1>0, <1>6, <1>7, <1>12, <2>2, <2>5 DEF IsValue
  <2>7. \A i \in Step : Member(g, w, i) = Opening(h, v, s, i)
    <3> SUFFICES ASSUME NEW i \in Step PROVE Member(g, w, i) = Opening(h, v, s, i)
      OBVIOUS
    <3>1. CASE i \notin Index
      <4>1. ~IsMap(g, w)
        BY <2>3, <2>5, Kinds
      <4> QED BY <1>10, <3>1, <4>1 DEF Member, Holds
    <3>2. CASE i \in Index
      <4>1. /\ i < s + 1 => Member(g, w, i) = grown[i] /\ i \in DOMAIN grown
            /\ ~(i < s + 1) => Member(g, w, i) = Missing
        BY <2>2, <2>4, <2>5, <2>6, <3>2, MemberBelow
      <4>2. i \in DOMAIN grown => grown[i] = IF i < length THEN old[i] ELSE Null
        BY <1>7, <1>12 DEF grown
      <4>3. i \in Nat
        BY <1>0, <3>2
      <4> QED BY <1>0, <1>2, <1>7, <1>10, <1>12, <3>2, <4>1, <4>2, <4>3
    <3> QED BY <3>1, <3>2
  <2>8. IsOpened(h, v, s, m, g, w)
    <3>1. Holds(g, w, s)
      BY <2>5 DEF Holds
    <3>2. s < w[3]
      BY <1>0, <2>5
    <3>3. \A o \in DOMAIN h : ~(Holds(h, v, s) /\ o = Cells(v)) => g[o] = h[o]
      BY <1>1, <1>2, <1>4, <2>2
    <3> QED BY <2>2, <2>3, <2>4, <2>5, <2>6, <2>7, <3>1, <3>2, <3>3 DEF IsOpened
  <2> QED BY <2>1, <2>8
<1> QED BY <1>11, <1>12

\* One step of setAt on its way in: a container with room for s, in a heap that
\* is still well formed and shows the old members and, before s, nulls.
LEMMA OpenedIs ==
    ASSUME NEW h, Shaped(h), NEW v, IsValue(h, v) \/ v = Missing, NEW s \in Step,
           NEW m \in Name, m[1] = NodeFor(s), m \notin DOMAIN h
    PROVE  LET o == Opened(h, v, s, m) IN IsOpened(h, v, s, m, o.heap, o.value)
BY OpenedMap, OpenedSlice DEF NodeFor

-----------------------------------------------------------------------------
(* The way in *)

\* The name of a container that is made at step n.
NewName(q, p, n) == <<NodeFor(p[n]), q, rule[q], Upto(p, n - 1)>>

Onward(last, q, root, p, n) ==
    Opened(last.heap, IF n = 1 THEN root ELSE Member(last.heap, last.value, p[n - 1]),
           p[n], NewName(q, p, n))

IsWay(way, h, q, root, p, m) ==
    way = [n \in 0..m |-> IF n = 0 THEN [heap |-> h, value |-> root]
                          ELSE Onward(way[n - 1], q, root, p, n)]

LEMMA WayIs ==
    ASSUME NEW h, NEW q, NEW root, NEW p \in Walk
    PROVE  \E way : IsWay(way, h, q, root, p, Len(p))
<1> DEFINE S == {m \in 0..Len(p) : \E g : IsWay(g, h, q, root, p, m)}
<1>1. Len(p) \in Nat
  BY DEF Walk
<1>2. 0 \in S
  <2>1. IsWay([n \in 0..0 |-> [heap |-> h, value |-> root]], h, q, root, p, 0)
    BY DEF IsWay
  <2> QED BY <1>1, <2>1
<1>3. ASSUME NEW m \in 0..(Len(p) - 1), m \in S PROVE m + 1 \in S
  <2>1. PICK g : IsWay(g, h, q, root, p, m)
    BY <1>3
  <2> DEFINE next == Onward(g[m], q, root, p, m + 1)
             t == [n \in 0..(m + 1) |-> IF n = m + 1 THEN next ELSE g[n]]
  <2>2. \A n \in 0..m : g[n] = IF n = 0 THEN [heap |-> h, value |-> root]
                               ELSE Onward(g[n - 1], q, root, p, n)
    BY <2>1 DEF IsWay
  <2>3. ASSUME NEW n \in 0..(m + 1)
        PROVE  t[n] = IF n = 0 THEN [heap |-> h, value |-> root]
                      ELSE Onward(t[n - 1], q, root, p, n)
    <3>1. CASE n = m + 1
      <4>1. n # 0 /\ n - 1 = m /\ m \in 0..(m + 1) /\ m # m + 1
        BY <3>1
      <4> QED BY <3>1, <4>1
    <3>2. CASE n # m + 1
      <4>1. n \in 0..m /\ (n # 0 => n - 1 \in 0..(m + 1) /\ n - 1 # m + 1)
        BY <3>2
      <4> QED BY <2>2, <3>2, <4>1
    <3> QED BY <3>1, <3>2
  <2>4. IsWay(t, h, q, root, p, m + 1)
    <3>1. t = [n \in 0..(m + 1) |-> t[n]]
      OBVIOUS
    <3> HIDE DEF t
    <3> QED BY <2>3, <3>1 DEF IsWay
  <2> QED BY <1>1, <2>4
<1>4. 0..Len(p) \subseteq S
  <2> HIDE DEF S
  <2> QED BY <1>1, <1>2, <1>3, CountUp
<1> QED BY <1>1, <1>4

\* The way in, step by step.
LEMMA DescentIs ==
    ASSUME NEW h, NEW q, NEW root, NEW p \in Walk
    PROVE  IsWay(Descent(h, q, root, p), h, q, root, p, Len(p))
<1>1. \E way : IsWay(way, h, q, root, p, Len(p))
  BY WayIs
<1> QED BY <1>1 DEF Descent, IsWay, Onward, NewName, Upto

LEMMA DescentStep ==
    ASSUME NEW h, NEW q, NEW root, NEW p \in Walk
    PROVE  /\ Descent(h, q, root, p)[0] = [heap |-> h, value |-> root]
           /\ \A n \in 1..Len(p) : Descent(h, q, root, p)[n] =
                                     Onward(Descent(h, q, root, p)[n - 1], q, root, p, n)
<1>1. Len(p) \in Nat
  BY DEF Walk
<1> DEFINE way == Descent(h, q, root, p)
<1>2. IsWay(way, h, q, root, p, Len(p))
  BY DescentIs
<1> HIDE DEF way
<1>3. \A n \in 0..Len(p) : way[n] = IF n = 0 THEN [heap |-> h, value |-> root]
                                    ELSE Onward(way[n - 1], q, root, p, n)
  BY <1>2 DEF IsWay
<1>4. way[0] = [heap |-> h, value |-> root]
  BY <1>1, <1>3
<1>5. ASSUME NEW n \in 1..Len(p) PROVE way[n] = Onward(way[n - 1], q, root, p, n)
  <2>1. n \in 0..Len(p) /\ n # 0
    BY <1>1
  <2> QED BY <1>3, <2>1
<1> QED BY <1>4, <1>5 DEF way

\* None of the names a rule of q may give is taken.
AllNew(h, q) == \A o \in DOMAIN h : o[2] = q => o[3] < rule[q]

LEMMA NewNameIs ==
    ASSUME NEW q \in Request, rule[q] \in Int, NEW p \in Path, NEW n \in 1..Len(p)
    PROVE  /\ NewName(q, p, n) \in Name /\ NewName(q, p, n)[1] = NodeFor(p[n])
           /\ NewName(q, p, n)[2] = q /\ NewName(q, p, n)[3] = rule[q]
           /\ NewName(q, p, n)[4] = Upto(p, n - 1)
           /\ \A h : AllNew(h, q) => NewName(q, p, n) \notin DOMAIN h
           /\ \A k \in 1..Len(p) : NewName(q, p, n) = NewName(q, p, k) => n = k
<1>1. p \in Walk /\ Len(p) <= MaxDepth /\ Len(p) \in Nat
  BY PathIs DEF Walk
<1>2. \A k \in 1..Len(p) : k - 1 \in 0..Len(p) /\ k - 1 <= MaxDepth /\ k - 1 \in Int /\ k \in Int
  BY <1>1, MappingAssumption, TreeAssumption
<1>3. \A k \in 1..Len(p) : Upto(p, k - 1) \in Path /\ Len(Upto(p, k - 1)) = k - 1
  BY <1>1, <1>2, UptoIs, PathIs
<1>4. NodeFor(p[n]) \in {Map, List}
  BY DEF NodeFor
<1>5. NewName(q, p, n) \in Name
  BY <1>3, <1>4 DEF NewName, Name
<1>6. /\ NewName(q, p, n)[1] = NodeFor(p[n])
      /\ \A k \in 1..Len(p) : /\ NewName(q, p, k)[2] = q /\ NewName(q, p, k)[3] = rule[q]
                              /\ NewName(q, p, k)[4] = Upto(p, k - 1)
  BY DEF NewName
<1>7. \A h : AllNew(h, q) => NewName(q, p, n) \notin DOMAIN h
  BY <1>6 DEF AllNew
<1>8. ASSUME NEW k \in 1..Len(p), NewName(q, p, n) = NewName(q, p, k) PROVE n = k
  <2>1. Upto(p, n - 1) = Upto(p, k - 1)
    BY <1>6, <1>8
  <2>2. n - 1 = k - 1
    BY <1>3, <2>1
  <2> QED BY <1>2, <2>2
<1> QED BY <1>5, <1>6, <1>7, <1>8

\* What is found at step n.
Sought(way, root, p, n) ==
    IF n = 1 THEN root ELSE Member(way[n - 1].heap, way[n - 1].value, p[n - 1])

\* The conditions under which q writes at p.
CanSet(h, q, root, p) ==
    /\ q \in Request /\ rule[q] \in Int /\ p \in Path /\ p # <<>>
    /\ Shaped(h) /\ AllNew(h, q) /\ IsValue(h, root)

NewNames(q, p, n) == {NewName(q, p, i) : i \in 1..n}

\* On the way in the heap only grows, by new names, and stays well formed.
LEMMA WayShaped ==
    ASSUME NEW h, NEW q, NEW root, NEW p, CanSet(h, q, root, p)
    PROVE  LET way == Descent(h, q, root, p)
           IN  \A n \in 1..Len(p) :
                  /\ Shaped(way[n - 1].heap) /\ Extends(h, way[n - 1].heap)
                  /\ NewName(q, p, n) \notin DOMAIN way[n - 1].heap
                  /\ DOMAIN way[n].heap \subseteq DOMAIN h \cup NewNames(q, p, n)
                  /\ IsValue(way[n - 1].heap, Sought(way, root, p, n))
                        \/ Sought(way, root, p, n) = Missing
                  /\ IsOpened(way[n - 1].heap, Sought(way, root, p, n), p[n], NewName(q, p, n),
                              way[n].heap, way[n].value)
                  /\ Shaped(way[n].heap) /\ Extends(h, way[n].heap)
<1> DEFINE way == Descent(h, q, root, p)
           Good(n) == /\ Shaped(way[n].heap) /\ Extends(h, way[n].heap)
                      /\ DOMAIN way[n].heap \subseteq DOMAIN h \cup NewNames(q, p, n)
           u(n) == Sought(way, root, p, n)
           S == {n \in 0..Len(p) : Good(n)}
<1>1. p \in Walk /\ Len(p) \in Nat /\ Len(p) > 0 /\ Shaped(h) /\ q \in Request /\ rule[q] \in Int
      /\ p \in Path /\ AllNew(h, q) /\ IsValue(h, root)
  BY PathIs DEF CanSet, Walk
<1>2. /\ way[0] = [heap |-> h, value |-> root]
      /\ \A n \in 1..Len(p) : way[n] = Onward(way[n - 1], q, root, p, n)
  BY <1>1, DescentStep
<1> HIDE DEF way
<1>3. 0 \in S
  <2>1. way[0].heap = h
    BY <1>2
  <2>2. Extends(h, h)
    BY DEF Extends
  <2> QED BY <1>1, <2>1, <2>2
<1>4. ASSUME NEW n \in 1..Len(p), Good(n - 1)
      PROVE  /\ NewName(q, p, n) \notin DOMAIN way[n - 1].heap
             /\ IsValue(way[n - 1].heap, u(n)) \/ u(n) = Missing
             /\ IsOpened(way[n - 1].heap, u(n), p[n], NewName(q, p, n), way[n].heap, way[n].value)
             /\ Good(n)
  <2> DEFINE g == way[n - 1].heap
             m == NewName(q, p, n)
  <2>1. way[n] = Opened(g, u(n), p[n], m)
    BY <1>2 DEF Onward, Sought
  <2>2. p[n] \in Step /\ n - 1 \in 0..Len(p) /\ n \in 0..Len(p)
    BY <1>1, UptoIs
  <2>3. m \in Name /\ m[1] = NodeFor(p[n]) /\ m \notin DOMAIN h
        /\ \A k \in 1..Len(p) : m = NewName(q, p, k) => n = k
    BY <1>1, NewNameIs
  <2>4. m \notin DOMAIN g
    <3>1. \A i \in 1..(n - 1) : i \in 1..Len(p) /\ i # n
      BY <1>1
    <3>2. m \notin NewNames(q, p, n - 1)
      <4> HIDE DEF m
      <4> QED BY <2>3, <3>1 DEF NewNames
    <3> QED BY <1>4, <2>3, <3>2
  <2>5. Shaped(g) /\ Extends(h, g)
    BY <1>4
  <2>6. IsValue(g, u(n)) \/ u(n) = Missing
    <3>1. CASE n = 1
      <4>1. u(n) = root /\ g = h
        BY <1>2, <3>1 DEF Sought
      <4> QED BY <1>1, <4>1
    <3>2. CASE n # 1
      <4>1. n - 1 \in 1..Len(p) /\ n - 1 \in 0..Len(p) /\ n - 1 > 0
        BY <1>1, <3>2
      <4>2. p[n - 1] \in Step
        BY <1>1, <4>1, UptoIs
      <4>3. u(n) = Member(g, way[n - 1].value, p[n - 1])
        BY <3>2 DEF Sought
      <4> HIDE DEF u, g
      <4> QED BY <2>5, <4>2, <4>3, MemberValue
    <3> QED BY <3>1, <3>2
  <2>7. IsOpened(g, u(n), p[n], m, way[n].heap, way[n].value)
    <3> HIDE DEF u, g, m
    <3> QED BY <2>1, <2>2, <2>3, <2>4, <2>5, <2>6, OpenedIs
  <2>8. Shaped(way[n].heap) /\ Extends(g, way[n].heap) /\ DOMAIN way[n].heap \subseteq DOMAIN g \cup {m}
    BY <2>7 DEF IsOpened
  <2>9. Extends(h, way[n].heap)
    BY <2>5, <2>8, ExtendsTwo
  <2>10. DOMAIN way[n].heap \subseteq DOMAIN h \cup NewNames(q, p, n)
    <3>1. NewNames(q, p, n - 1) \subseteq NewNames(q, p, n)
      <4>1. \A i \in 1..(n - 1) : i \in 1..n
        BY <1>1
      <4> QED BY <4>1 DEF NewNames
    <3>2. m \in NewNames(q, p, n)
      <4>1. n \in 1..n
        BY <1>1
      <4> QED BY <4>1 DEF NewNames
    <3>3. DOMAIN g \subseteq DOMAIN h \cup NewNames(q, p, n - 1)
      BY <1>4
    <3> HIDE DEF g, m
    <3> QED BY <2>8, <3>1, <3>2, <3>3
  <2> QED BY <2>4, <2>6, <2>7, <2>8, <2>9, <2>10
<1>5. ASSUME NEW i \in 0..(Len(p) - 1), i \in S PROVE i + 1 \in S
  <2>1. i + 1 \in 1..Len(p) /\ i + 1 \in 0..Len(p) /\ (i + 1) - 1 = i
    BY <1>1
  <2>2. Good((i + 1) - 1)
    BY <1>5, <2>1
  <2>3. Good(i + 1)
    <3> HIDE DEF Good
    <3> QED BY <1>4, <2>1, <2>2
  <2> QED BY <2>1, <2>3
<1>6. 0..Len(p) \subseteq S
  <2> HIDE DEF S
  <2> QED BY <1>1, <1>3, <1>5, CountUp
<1> SUFFICES ASSUME NEW n \in 1..Len(p)
             PROVE  /\ Good(n - 1)
                    /\ NewName(q, p, n) \notin DOMAIN way[n - 1].heap
                    /\ IsValue(way[n - 1].heap, u(n)) \/ u(n) = Missing
                    /\ IsOpened(way[n - 1].heap, u(n), p[n], NewName(q, p, n), way[n].heap, way[n].value)
                    /\ Good(n)
  BY DEF way
<1>7. Good(n - 1)
  <2>1. n - 1 \in 0..Len(p)
    BY <1>1
  <2> QED BY <1>6, <2>1
<1> HIDE DEF Good, u
<1> QED BY <1>4, <1>7

-----------------------------------------------------------------------------
(* The way out *)

\* A container is assigned a member.
Assign(g, w, s, x) == [g EXCEPT ![Cells(w)] = With(@, s, x)]

\* What assigning a member changes, and what not.
LEMMA Assigned ==
    ASSUME NEW g, Shaped(g), NEW w, IsValue(g, w), NEW s \in Step, Holds(g, w, s),
           s \in Index => s < w[3], NEW x, IsValue(g, x)
    PROVE  LET G == Assign(g, w, s, x)
           IN  /\ Shaped(G) /\ Extends(g, G) /\ DOMAIN G = DOMAIN g
               /\ \A o \in DOMAIN g : o # Cells(w) => G[o] = g[o]
               /\ \A i \in Step : Member(G, w, i) = IF i = s THEN x ELSE Member(g, w, i)
<1> DEFINE c == Cells(w)
           f == With(g[c], s, x)
           G == [g EXCEPT ![c] = f]
<1>0. DOMAIN g \subseteq Name
  BY DEF Shaped
<1>1. c \in DOMAIN g
  BY <1>0, Kinds DEF Holds
<1>2. DOMAIN f = DOMAIN g[c] \cup {s} /\ f[s] = x /\ \A i \in DOMAIN g[c] : i # s => f[i] = g[c][i]
  BY DEF With
<1>3. DOMAIN G = DOMAIN g /\ G[c] = f /\ \A o \in DOMAIN g : o # c => G[o] = g[o]
  BY <1>1
<1> HIDE DEF G, f
<1>4. Extends(g, G)
  <2> SUFFICES ASSUME NEW o \in DOMAIN g PROVE DOMAIN g[o] \subseteq DOMAIN G[o]
    BY <1>3 DEF Extends
  <2> QED BY <1>2, <1>3
<1>5. \A v : IsValue(g, v) => IsValue(G, v)
  BY <1>0, <1>3, <1>4, ValueStays
<1>6. /\ s \in Index => IsSlice(g, w) /\ c = w[2] /\ c[1] # Map /\ s \in DOMAIN g[c]
      /\ s \notin Index => c[1] = Map /\ s \in Key
  <2>1. CASE s \in Index
    <3>1. IsSlice(g, w) /\ c = w[2] /\ w \notin Scalar /\ ~IsMap(g, w) /\ w[3] \in Nat
      BY <1>0, <2>1, Kinds DEF Holds
    <3>2. w[2][1] = List /\ 0..(w[3] - 1) \subseteq DOMAIN g[w[2]]
      BY <3>1 DEF IsValue
    <3>3. s \in 0..(w[3] - 1)
      BY <2>1, <3>1, MappingAssumption, TreeAssumption DEF Index
    <3> QED BY <2>1, <3>1, <3>2, <3>3, MappingAssumption, TreeAssumption
  <2>2. CASE s \notin Index
    <3>1. IsMap(g, w) /\ c = w /\ w \notin Scalar /\ ~IsSlice(g, w)
      BY <1>0, <2>2, Kinds DEF Holds
    <3>2. w[1] = Map
      BY <3>1 DEF IsValue
    <3> QED BY <2>2, <3>1, <3>2, StepsApart
  <2> QED BY <2>1, <2>2
<1>7. Shaped(G)
  <2> SUFFICES ASSUME NEW o \in DOMAIN g
               PROVE  /\ o[1] = Map => DOMAIN G[o] \subseteq Key
                      /\ o[1] # Map => \E n \in Nat : DOMAIN G[o] = 0..(n - 1)
                      /\ \A i \in DOMAIN G[o] : IsValue(G, G[o][i])
    BY <1>0, <1>3 DEF Shaped
  <2>1. /\ o[1] = Map => DOMAIN g[o] \subseteq Key
        /\ o[1] # Map => \E n \in Nat : DOMAIN g[o] = 0..(n - 1)
        /\ \A i \in DOMAIN g[o] : IsValue(g, g[o][i])
    BY DEF Shaped
  <2>2. CASE o # c
    <3>1. G[o] = g[o]
      BY <1>3, <2>2
    <3> QED BY <1>5, <2>1, <3>1
  <2>3. CASE o = c
    <3>1. G[o] = f
      BY <1>3, <2>3
    <3>2. \A i \in DOMAIN f : IsValue(G, f[i])
      BY <1>2, <1>5, <2>1, <2>3
    <3>3. CASE s \in Index
      <4>1. DOMAIN f = DOMAIN g[c]
        BY <1>2, <1>6, <3>3
      <4> HIDE DEF c
      <4> QED BY <2>1, <2>3, <3>1, <3>2, <4>1
    <3>4. CASE s \notin Index
      <4>1. DOMAIN f \subseteq Key
        BY <1>2, <1>6, <2>1, <2>3, <3>4
      <4> QED BY <1>6, <2>3, <3>1, <3>2, <3>4, <4>1
    <3> QED BY <3>3, <3>4
  <2> QED BY <2>2, <2>3
<1>8. ASSUME NEW i \in Step
      PROVE  Member(G, w, i) = IF i = s THEN x ELSE Member(g, w, i)
  <2>1. Holds(G, w, i) <=> Holds(g, w, i)
    BY <1>0, <1>3, <1>4, ValueStays
  <2>2. CASE i = s
    <3>1. Holds(G, w, s) /\ s \in DOMAIN G[c]
      BY <1>2, <1>3, <2>1, <2>2
    <3> QED BY <1>2, <1>3, <2>2, <3>1 DEF Member
  <2>3. CASE i # s
    <3>1. (i \in DOMAIN G[c] <=> i \in DOMAIN g[c]) /\ (i \in DOMAIN g[c] => G[c][i] = g[c][i])
      BY <1>2, <1>3, <2>3
    <3> QED BY <2>1, <2>3, <3>1 DEF Member
  <2> QED BY <2>2, <2>3
<1>9. G = Assign(g, w, s, x)
  BY DEF G, f, Assign
<1> QED BY <1>3, <1>4, <1>7, <1>8, <1>9

AssignAt(g, way, p, x, n) ==
    Assign(g, way[n].value, p[n], IF n = Len(p) THEN x ELSE way[n + 1].value)

AllOut(out, way, p, x) ==
    out = [n \in 1..(Len(p) + 1) |->
              IF n = Len(p) + 1 THEN way[Len(p)].heap ELSE AssignAt(out[n + 1], way, p, x, n)]

\* The last m assignments.
IsOut(out, way, p, x, m) ==
    out = [n \in (Len(p) + 1 - m)..(Len(p) + 1) |->
              IF n = Len(p) + 1 THEN way[Len(p)].heap ELSE AssignAt(out[n + 1], way, p, x, n)]

LEMMA OutIs ==
    ASSUME NEW way, NEW p \in Walk, NEW x
    PROVE  \E out : IsOut(out, way, p, x, Len(p))
<1> DEFINE top == Len(p) + 1
           S == {m \in 0..Len(p) : \E g : IsOut(g, way, p, x, m)}
<1>1. Len(p) \in Nat
  BY DEF Walk
<1>2. 0 \in S
  <2>1. IsOut([n \in (top - 0)..top |-> way[Len(p)].heap], way, p, x, 0)
    BY <1>1 DEF IsOut
  <2> QED BY <1>1, <2>1
<1>3. ASSUME NEW m \in 0..(Len(p) - 1), m \in S PROVE m + 1 \in S
  <2>1. PICK g : IsOut(g, way, p, x, m)
    BY <1>3
  <2> DEFINE k == top - (m + 1)
             next == AssignAt(g[k + 1], way, p, x, k)
             t == [n \in k..top |-> IF n = k THEN next ELSE g[n]]
  <2>2. \A n \in (top - m)..top : g[n] = IF n = top THEN way[Len(p)].heap
                                         ELSE AssignAt(g[n + 1], way, p, x, n)
    BY <2>1 DEF IsOut
  <2>3. ASSUME NEW n \in k..top
        PROVE  t[n] = IF n = top THEN way[Len(p)].heap ELSE AssignAt(t[n + 1], way, p, x, n)
    <3>1. CASE n = k
      <4>1. n # top /\ k + 1 \in k..top /\ k + 1 # k
        BY <1>1, <3>1
      <4>2. t[n] = next /\ t[n + 1] = g[k + 1]
        <5> HIDE DEF next
        <5> QED BY <3>1, <4>1
      <4> HIDE DEF t
      <4> QED BY <3>1, <4>1, <4>2
    <3>2. CASE n # k
      <4>1. n \in (top - m)..top /\ (n # top => n + 1 \in k..top /\ n + 1 # k)
        BY <1>1, <3>2
      <4>2. t[n] = g[n] /\ (n # top => t[n + 1] = g[n + 1])
        <5> HIDE DEF next
        <5> QED BY <3>2, <4>1
      <4> HIDE DEF t
      <4> QED BY <2>2, <4>1, <4>2
    <3> QED BY <3>1, <3>2
  <2>4. IsOut(t, way, p, x, m + 1)
    <3>1. t = [n \in k..top |-> t[n]] /\ Len(p) + 1 - (m + 1) = k /\ Len(p) + 1 = top
      OBVIOUS
    <3> HIDE DEF t, k, top
    <3> QED BY <2>3, <3>1 DEF IsOut
  <2> QED BY <1>1, <2>4
<1>4. 0..Len(p) \subseteq S
  <2> HIDE DEF S
  <2> QED BY <1>1, <1>2, <1>3, CountUp
<1> QED BY <1>1, <1>4

Outward(way, p, x) == CHOOSE g : AllOut(g, way, p, x)

\* The way out, step by step.
LEMMA AscentIs ==
    ASSUME NEW way, NEW p \in Walk, p # <<>>, NEW x
    PROVE  LET out == Outward(way, p, x)
           IN  /\ Ascent(way, p, x) = out[1]
               /\ out[Len(p) + 1] = way[Len(p)].heap
               /\ \A n \in 1..Len(p) : out[n] = AssignAt(out[n + 1], way, p, x, n)
<1> DEFINE out == CHOOSE g : AllOut(g, way, p, x)
<1>2. Len(p) \in Nat /\ Len(p) > 0 /\ Len(p) + 1 - Len(p) = 1
  BY DEF Walk
<1>1. AllOut(out, way, p, x)
  <2>1. PICK g : IsOut(g, way, p, x, Len(p))
    BY OutIs
  <2>2. AllOut(g, way, p, x)
    BY <1>2, <2>1 DEF IsOut, AllOut
  <2> QED BY <2>2
<1>3. Ascent(way, p, x) = out[1]
  BY DEF Ascent, AllOut, AssignAt, Assign
<1>7. out = Outward(way, p, x)
  BY DEF Outward
<1> HIDE DEF out
<1>4. \A n \in 1..(Len(p) + 1) : out[n] = IF n = Len(p) + 1 THEN way[Len(p)].heap
                                          ELSE AssignAt(out[n + 1], way, p, x, n)
  BY <1>1 DEF AllOut
<1>5. out[Len(p) + 1] = way[Len(p)].heap
  BY <1>2, <1>4
<1>6. ASSUME NEW n \in 1..Len(p) PROVE out[n] = AssignAt(out[n + 1], way, p, x, n)
  <2>1. n \in 1..(Len(p) + 1) /\ n # Len(p) + 1
    BY <1>2
  <2> QED BY <1>4, <2>1
<1> QED BY <1>3, <1>5, <1>6, <1>7

\* From one step in to a later one nothing is lost.
LEMMA WayExtends ==
    ASSUME NEW h, NEW q, NEW root, NEW p, CanSet(h, q, root, p), NEW n \in 1..Len(p)
    PROVE  \A k \in n..Len(p) :
              Extends(Descent(h, q, root, p)[n].heap, Descent(h, q, root, p)[k].heap)
<1> DEFINE way == Descent(h, q, root, p)
           S == {i \in 0..(Len(p) - n) : Extends(way[n].heap, way[n + i].heap)}
<1>1. Len(p) \in Nat /\ n \in Nat
  BY PathIs DEF CanSet, Walk
<1>2. \A i \in 1..Len(p) : Extends(way[i - 1].heap, way[i].heap)
  BY WayShaped DEF IsOpened
<1> HIDE DEF way
<1>3. 0 \in S
  <2>1. n + 0 = n /\ Extends(way[n].heap, way[n].heap)
    BY <1>1 DEF Extends
  <2> QED BY <1>1, <2>1
<1>4. ASSUME NEW i \in 0..((Len(p) - n) - 1), i \in S PROVE i + 1 \in S
  <2>1. n + (i + 1) \in 1..Len(p) /\ (n + (i + 1)) - 1 = n + i /\ i + 1 \in 0..(Len(p) - n)
    BY <1>1
  <2>2. Extends(way[n + i].heap, way[n + (i + 1)].heap)
    BY <1>2, <2>1
  <2>3. Extends(way[n].heap, way[n + i].heap)
    BY <1>4
  <2>4. Extends(way[n].heap, way[n + (i + 1)].heap)
    BY <2>2, <2>3, ExtendsTwo
  <2> QED BY <2>1, <2>4
<1>5. 0..(Len(p) - n) \subseteq S
  <2>1. Len(p) - n \in Nat
    BY <1>1
  <2> HIDE DEF S
  <2> QED BY <1>3, <1>4, <2>1, CountUp
<1>6. ASSUME NEW k \in n..Len(p) PROVE Extends(way[n].heap, way[k].heap)
  <2>1. k - n \in 0..(Len(p) - n) /\ n + (k - n) = k
    BY <1>1
  <2> QED BY <1>5, <2>1
<1> QED BY <1>6 DEF way

\* What the assignments on the way out leave.
IsWayOut(out, way, p, x) ==
    /\ out[Len(p) + 1] = way[Len(p)].heap
    /\ \A n \in 1..Len(p) :
          /\ Shaped(out[n]) /\ Extends(way[Len(p)].heap, out[n])
          /\ DOMAIN out[n] = DOMAIN way[Len(p)].heap
          /\ \A o \in DOMAIN out[n] : o # Cells(way[n].value) => out[n][o] = out[n + 1][o]
          /\ \A i \in Step : Member(out[n], way[n].value, i) =
                                 IF i # p[n] THEN Member(out[n + 1], way[n].value, i)
                                 ELSE IF n = Len(p) THEN x ELSE way[n + 1].value

LEMMA WayOut ==
    ASSUME NEW h, NEW q, NEW root, NEW p, CanSet(h, q, root, p), NEW x, IsValue(h, x)
    PROVE  \E out : IsWayOut(out, Descent(h, q, root, p), p, x)
                    /\ Ascent(Descent(h, q, root, p), p, x) = out[1]
<1> DEFINE way == Descent(h, q, root, p)
           L == Len(p)
           last == way[L].heap
<1>1. p \in Walk /\ L \in Nat /\ L > 0 /\ Shaped(h) /\ p # <<>>
  BY PathIs DEF CanSet, Walk
<1>2. /\ Shaped(last) /\ Extends(h, last)
      /\ \A n \in 1..L : /\ Shaped(way[n].heap) /\ IsValue(way[n].heap, way[n].value)
                         /\ Holds(way[n].heap, way[n].value, p[n])
                         /\ p[n] \in Index => p[n] < way[n].value[3]
                         /\ Extends(way[n].heap, last)
  <2>1. L \in 1..L /\ \A n \in 1..L : L \in n..L
    BY <1>1
  <2>2. \A n \in 1..L : Extends(way[n].heap, last)
    <3> HIDE DEF L
    <3> QED BY <2>1, WayExtends DEF L
  <2>3. \A n \in 1..L : /\ Shaped(way[n].heap) /\ IsValue(way[n].heap, way[n].value)
                        /\ Holds(way[n].heap, way[n].value, p[n])
                        /\ p[n] \in Index => p[n] < way[n].value[3]
    BY WayShaped DEF IsOpened
  <2>4. Extends(h, last) /\ Shaped(last)
    <3> HIDE DEF L
    <3> QED BY <2>1, WayShaped DEF L
  <2> QED BY <2>2, <2>3, <2>4
<1> DEFINE out == Outward(way, p, x)
<1>3. /\ Ascent(way, p, x) = out[1] /\ out[L + 1] = last
      /\ \A n \in 1..L : out[n] = AssignAt(out[n + 1], way, p, x, n)
  <2> HIDE DEF way
  <2> QED BY <1>1, AscentIs
<1> HIDE DEF out
<1> HIDE DEF way
<1> DEFINE Good(g) == Shaped(g) /\ Extends(last, g) /\ DOMAIN g = DOMAIN last
           child(n) == IF n = L THEN x ELSE way[n + 1].value
<1>4. ASSUME NEW n \in 1..L, Good(out[n + 1])
      PROVE  /\ Good(out[n])
             /\ \A o \in DOMAIN out[n] : o # Cells(way[n].value) => out[n][o] = out[n + 1][o]
             /\ \A i \in Step : Member(out[n], way[n].value, i) =
                                   IF i # p[n] THEN Member(out[n + 1], way[n].value, i) ELSE child(n)
  <2> DEFINE g == out[n + 1]
             w == way[n].value
  <2>0. Shaped(g) /\ Extends(last, g) /\ DOMAIN g = DOMAIN last /\ DOMAIN g \subseteq Name
    BY <1>4 DEF Shaped
  <2>1. p[n] \in Step
    <3>1. n \in 0..Len(p) /\ n > 0
      BY <1>1
    <3> QED BY <1>1, <3>1, UptoIs
  <2>2. \A k \in 1..L : Extends(way[k].heap, g)
    BY <1>2, <2>0, ExtendsTwo
  <2>3. \A k \in 1..L : IsValue(g, way[k].value)
    BY <1>2, <2>0, <2>2, ValueStays
  <2>4. Holds(g, w, p[n])
    BY <1>2, <2>0, <2>1, <2>2, ValueStays
  <2>5. IsValue(g, child(n))
    <3>1. CASE n = L
      <4>1. Extends(h, g)
        BY <1>2, <2>0, ExtendsTwo
      <4> QED BY <1>1, <2>0, <3>1, <4>1, ValueStays
    <3>2. CASE n # L
      <4>1. n + 1 \in 1..L
        BY <1>1, <3>2
      <4> QED BY <2>3, <3>2, <4>1
    <3> QED BY <3>1, <3>2
  <2>6. out[n] = Assign(g, w, p[n], child(n))
    BY <1>3 DEF AssignAt
  <2>7. p[n] \in Index => p[n] < w[3]
    BY <1>2
  <2>8. IsValue(g, w)
    BY <2>3
  <2> HIDE DEF g, w, child
  <2>9. /\ Shaped(out[n]) /\ Extends(g, out[n]) /\ DOMAIN out[n] = DOMAIN g
        /\ \A o \in DOMAIN g : o # Cells(w) => out[n][o] = g[o]
        /\ \A i \in Step : Member(out[n], w, i) = IF i = p[n] THEN child(n) ELSE Member(g, w, i)
    <3> DEFINE c == child(n)
    <3> HIDE DEF c
    <3>1. LET G == Assign(g, w, p[n], c)
          IN  /\ Shaped(G) /\ Extends(g, G) /\ DOMAIN G = DOMAIN g
              /\ \A o \in DOMAIN g : o # Cells(w) => G[o] = g[o]
              /\ \A i \in Step : Member(G, w, i) = IF i = p[n] THEN c ELSE Member(g, w, i)
      <4>1. IsValue(g, c)
        BY <2>5 DEF c
      <4> QED BY <2>0, <2>1, <2>4, <4>1, <2>7, <2>8, Assigned
    <3>2. out[n] = Assign(g, w, p[n], c)
      BY <2>6 DEF c
    <3>3. /\ Shaped(out[n]) /\ Extends(g, out[n]) /\ DOMAIN out[n] = DOMAIN g
          /\ \A o \in DOMAIN g : o # Cells(w) => out[n][o] = g[o]
          /\ \A i \in Step : Member(out[n], w, i) = IF i = p[n] THEN c ELSE Member(g, w, i)
      BY <3>1, <3>2
    <3> QED BY <3>3 DEF c
  <2>10. Extends(last, out[n])
    BY <2>0, <2>9, ExtendsTwo
  <2> QED BY <2>0, <2>9, <2>10 DEF g, w
<1> DEFINE S == {m \in 0..L : Good(out[L + 1 - m])}
<1>5. 0 \in S
  <2>1. Good(last)
    BY <1>2 DEF Extends
  <2>2. out[L + 1 - 0] = last
    BY <1>1, <1>3
  <2> QED BY <1>1, <2>1, <2>2
<1>6. ASSUME NEW m \in 0..(L - 1), m \in S PROVE m + 1 \in S
  <2> DEFINE n == L - m
  <2>1. n \in 1..L /\ n + 1 = L + 1 - m /\ n = L + 1 - (m + 1) /\ m + 1 \in 0..L
    BY <1>1
  <2>2. Good(out[n + 1])
    BY <1>6, <2>1
  <2>3. Good(out[n])
    <3> HIDE DEF Good, n
    <3> QED BY <1>4, <2>1, <2>2
  <2> QED BY <2>1, <2>3
<1>7. 0..L \subseteq S
  <2> HIDE DEF S
  <2> QED BY <1>1, <1>5, <1>6, CountUp
<1>8. \A n \in 1..L : Good(out[n + 1])
  <2> SUFFICES ASSUME NEW n \in 1..L PROVE Good(out[n + 1])
    OBVIOUS
  <2>1. L - n \in 0..L /\ L + 1 - (L - n) = n + 1
    BY <1>1
  <2>2. L - n \in S
    BY <1>7, <2>1
  <2> QED BY <2>1, <2>2
<1>9. IsWayOut(out, way, p, x)
  <2> HIDE DEF Good
  <2>1. \A n \in 1..L : /\ Good(out[n])
             /\ \A o \in DOMAIN out[n] : o # Cells(way[n].value) => out[n][o] = out[n + 1][o]
             /\ \A i \in Step : Member(out[n], way[n].value, i) =
                                   IF i # p[n] THEN Member(out[n + 1], way[n].value, i) ELSE child(n)
    BY <1>4, <1>8
  <2>2. out[Len(p) + 1] = way[Len(p)].heap
    BY <1>3
  <2>3. \A n \in 1..Len(p) :
          /\ Shaped(out[n]) /\ Extends(way[Len(p)].heap, out[n])
          /\ DOMAIN out[n] = DOMAIN way[Len(p)].heap
    BY <2>1 DEF Good
  <2>4. \A n \in 1..Len(p) : \A o \in DOMAIN out[n] :
          o # Cells(way[n].value) => out[n][o] = out[n + 1][o]
    BY <2>1
  <2>5. \A n \in 1..Len(p) : \A i \in Step : Member(out[n], way[n].value, i) =
                                 IF i # p[n] THEN Member(out[n + 1], way[n].value, i)
                                 ELSE IF n = Len(p) THEN x ELSE way[n + 1].value
    <3> SUFFICES ASSUME NEW n \in 1..Len(p), NEW i \in Step
                 PROVE  Member(out[n], way[n].value, i) =
                            IF i # p[n] THEN Member(out[n + 1], way[n].value, i)
                            ELSE IF n = Len(p) THEN x ELSE way[n + 1].value
      OBVIOUS
    <3>1. Good(out[n + 1])
      BY <1>8
    <3>2. Member(out[n], way[n].value, i) =
             IF i # p[n] THEN Member(out[n + 1], way[n].value, i) ELSE child(n)
      <4> HIDE DEF child
      <4> QED BY <1>4, <3>1
    <3> QED BY <3>2
  <2> QED BY <2>2, <2>3, <2>4, <2>5 DEF IsWayOut
<1> QED BY <1>3, <1>9 DEF way

\* Whatever the sharing, a heap stays one, and the new document is a value of it.
LEMMA SetShaped ==
    ASSUME NEW h, NEW q, NEW root, NEW p, CanSet(h, q, root, p), NEW x, IsValue(h, x)
    PROVE  LET s == SetAt(h, q, root, p, x)
           IN  /\ Shaped(s.heap) /\ Extends(h, s.heap) /\ IsValue(s.heap, s.root)
               /\ DOMAIN s.heap \subseteq DOMAIN h \cup NewNames(q, p, Len(p))
<1> DEFINE way == Descent(h, q, root, p)
<1>1. Len(p) \in Nat /\ 1 \in 1..Len(p) /\ Len(p) \in 1..Len(p) /\ Len(p) \in 1..Len(p)
  BY PathIs DEF CanSet, Walk
<1>2. PICK out : IsWayOut(out, way, p, x) /\ Ascent(way, p, x) = out[1]
  BY WayOut
<1>3. SetAt(h, q, root, p, x) = [heap |-> out[1], root |-> way[1].value]
  BY <1>2 DEF SetAt
<1>4. /\ Extends(h, way[Len(p)].heap) /\ DOMAIN way[Len(p)].heap \subseteq DOMAIN h \cup NewNames(q, p, Len(p))
      /\ Shaped(way[1].heap) /\ IsValue(way[1].heap, way[1].value)
  BY <1>1, WayShaped DEF IsOpened
<1>5. Extends(way[1].heap, way[Len(p)].heap)
  <2>1. Len(p) \in 1..Len(p)
    BY <1>1
  <2> QED BY <1>1, <2>1, WayExtends
<1> HIDE DEF way
<1>6. /\ Shaped(out[1]) /\ Extends(way[Len(p)].heap, out[1])
      /\ DOMAIN out[1] = DOMAIN way[Len(p)].heap
  BY <1>1, <1>2 DEF IsWayOut
<1>7. Extends(h, out[1]) /\ Extends(way[1].heap, out[1])
  BY <1>4, <1>5, <1>6, ExtendsTwo
<1>8. IsValue(out[1], way[1].value)
  BY <1>4, <1>6, <1>7, ValueStays DEF Shaped
<1> QED BY <1>3, <1>4, <1>6, <1>7, <1>8

-----------------------------------------------------------------------------
(* What is set, where nothing is shared *)

\* What there was before step n on the way.
Old(h, root, p, n) == Get(h, root, Upto(p, n - 1))

\* What setAt writes to is reached in one way only.
Unshared(h, root, p) ==
    \A n \in 1..Len(p) : Holds(h, Old(h, root, p, n), p[n]) =>
        \A y \in Walk : /\ IsNode(h, Get(h, root, y))
                        /\ Cells(Get(h, root, y)) = Cells(Old(h, root, p, n))
                        => y = Upto(p, n - 1)

\* Where there was nothing, there may be a null now.
Alike(u, v) == u = v \/ (v = Missing /\ u \in {Null, Missing})

\* Opening a container of which no member has changed gives the same one.
LEMMA OpeningSame ==
    ASSUME NEW h, NEW g, Shaped(h), Shaped(g), Extends(h, g), NEW v,
           IsValue(h, v) \/ v = Missing, NEW u, Alike(u, v), NEW s \in Step,
           Holds(h, v, s) => g[Cells(v)] = h[Cells(v)]
    PROVE  /\ Holds(g, u, s) <=> Holds(h, v, s)
           /\ Holds(h, v, s) => u = v
           /\ \A i \in Step : Opening(g, u, s, i) = Opening(h, v, s, i)
<1>1. DOMAIN h \subseteq Name /\ DOMAIN g \subseteq Name
  BY DEF Shaped
<1>2. \A i \in Step : Holds(h, v, i) <=> Holds(g, v, i)
  BY <1>1, ValueStays
<1>3. CASE u = v
  <2>1. ASSUME NEW i \in Step, Holds(h, v, s) PROVE Member(g, v, i) = Member(h, v, i)
    BY <1>2, <2>1 DEF Member
  <2> QED BY <1>2, <1>3, <2>1 DEF Opening
<1>4. CASE v = Missing /\ u \in {Null, Missing}
  <2>1. ~Holds(g, u, s) /\ ~Holds(h, v, s)
    BY <1>1, <1>4, Kinds, NullIs DEF Holds
  <2> QED BY <2>1 DEF Opening
<1> QED BY <1>3, <1>4 DEF Alike

\* If the containers on the way are different ones, each is opened as if it were
\* the only one: what setAt did further out does not show in it.
LEMMA WayView ==
    ASSUME NEW h, NEW q, NEW root, NEW p, CanSet(h, q, root, p), Unshared(h, root, p)
    PROVE  LET way  == Descent(h, q, root, p)
               v(n) == Old(h, root, p, n)
           IN  \A n \in 1..Len(p) :
                  /\ \A i \in Step : Member(way[n].heap, way[n].value, i) = Opening(h, v(n), p[n], i)
                  /\ \/ Cells(way[n].value) = NewName(q, p, n)
                     \/ Holds(h, v(n), p[n]) /\ Cells(way[n].value) = Cells(v(n))
                  /\ \A o \in DOMAIN way[n - 1].heap :
                        ~(Holds(h, v(n), p[n]) /\ o = Cells(v(n)))
                            => way[n].heap[o] = way[n - 1].heap[o]
                  /\ n = 1 => way[n - 1].heap = h
                  /\ \A o \in DOMAIN h : (\A k \in 1..n : Holds(h, v(k), p[k]) => o # Cells(v(k)))
                                            => way[n].heap[o] = h[o]
<1> DEFINE way == Descent(h, q, root, p)
           v(n) == Old(h, root, p, n)
           u(n) == Sought(way, root, p, n)
           Kept(n) == \A o \in DOMAIN h :
                         (\A k \in 1..n : Holds(h, v(k), p[k]) => o # Cells(v(k)))
                             => way[n].heap[o] = h[o]
           Upheld(n) == Kept(n) /\ (n < Len(p) => Alike(u(n + 1), v(n + 1)))
<1>1. p \in Walk /\ Len(p) \in Nat /\ Len(p) > 0 /\ Shaped(h) /\ p \in Path /\ IsValue(h, root)
      /\ DOMAIN h \subseteq Name
  <2>1. p \in Path /\ p # <<>> /\ Shaped(h) /\ IsValue(h, root)
    BY DEF CanSet
  <2>2. p \in Walk
    BY <2>1, PathIs
  <2>3. Len(p) \in Nat /\ Len(p) > 0
    BY <2>1, <2>2 DEF Walk
  <2> QED BY <2>1, <2>2, <2>3 DEF Shaped
<1>2. way[0].heap = h
  <2>1. way[0] = [heap |-> h, value |-> root]
    BY <1>1, DescentStep
  <2> HIDE DEF way
  <2> QED BY <2>1
<1>3. \A n \in 1..Len(p) :
         /\ Shaped(way[n - 1].heap) /\ Extends(h, way[n - 1].heap)
         /\ IsOpened(way[n - 1].heap, u(n), p[n], NewName(q, p, n), way[n].heap, way[n].value)
  BY WayShaped
<1> HIDE DEF way
<1>4. \A n \in 1..Len(p) : p[n] \in Step /\ Upto(p, n - 1) \in Walk /\ Len(Upto(p, n - 1)) = n - 1
  <2> SUFFICES ASSUME NEW n \in 1..Len(p)
               PROVE  p[n] \in Step /\ Upto(p, n - 1) \in Walk /\ Len(Upto(p, n - 1)) = n - 1
    OBVIOUS
  <2>1. n \in 0..Len(p) /\ n - 1 \in 0..Len(p) /\ n > 0
    BY <1>1
  <2> QED BY <1>1, <2>1, UptoIs
<1>5. \A n \in 1..Len(p) : IsValue(h, v(n)) \/ v(n) = Missing
  BY <1>1, <1>4, GetValue DEF Old
<1>6. \A n, k \in 1..Len(p) : Holds(h, v(n), p[n]) /\ Holds(h, v(k), p[k]) /\ n # k
                                 => Cells(v(n)) # Cells(v(k))
  <2> SUFFICES ASSUME NEW n \in 1..Len(p), NEW k \in 1..Len(p),
                      Holds(h, v(n), p[n]), Holds(h, v(k), p[k]), n # k, Cells(v(n)) = Cells(v(k))
               PROVE  FALSE
    OBVIOUS
  <2>1. IsNode(h, Get(h, root, Upto(p, k - 1))) /\ Upto(p, k - 1) \in Walk
    BY <1>4 DEF Holds, IsNode, Old
  <2>2. Cells(Get(h, root, Upto(p, k - 1))) = Cells(v(n))
    BY DEF Old
  <2>3. Upto(p, k - 1) = Upto(p, n - 1)
    BY <2>1, <2>2 DEF Unshared
  <2> QED BY <1>1, <1>4, <2>3
<1>7. Upheld(0)
  <2>1. Kept(0)
    BY <1>2
  <2>2. 0 + 1 = 1 /\ 1 - 1 = 0
    OBVIOUS
  <2>3. u(1) = root
    BY DEF Sought
  <2>4. v(1) = root
    BY <1>1, <2>2, GetRoot, UptoIs DEF Old
  <2> QED BY <2>1, <2>3, <2>4 DEF Alike
<1>8. ASSUME NEW n \in 1..Len(p), Upheld(n - 1)
      PROVE  /\ \A i \in Step : Member(way[n].heap, way[n].value, i) = Opening(h, v(n), p[n], i)
             /\ \/ Cells(way[n].value) = NewName(q, p, n)
                \/ Holds(h, v(n), p[n]) /\ Cells(way[n].value) = Cells(v(n))
             /\ \A o \in DOMAIN way[n - 1].heap :
                   ~(Holds(h, v(n), p[n]) /\ o = Cells(v(n)))
                       => way[n].heap[o] = way[n - 1].heap[o]
             /\ Upheld(n)
  <2> DEFINE g == way[n - 1].heap
  <2>1. Shaped(g) /\ Extends(h, g) /\ p[n] \in Step
        /\ IsOpened(g, u(n), p[n], NewName(q, p, n), way[n].heap, way[n].value)
    BY <1>3, <1>4
  <2>2. Kept(n - 1) /\ Alike(u(n), v(n))
    <3>1. n - 1 < Len(p) /\ (n - 1) + 1 = n
      BY <1>1
    <3> QED BY <1>8, <3>1
  <2>3. Holds(h, v(n), p[n]) => g[Cells(v(n))] = h[Cells(v(n))]
    <3> SUFFICES ASSUME Holds(h, v(n), p[n]) PROVE g[Cells(v(n))] = h[Cells(v(n))]
      OBVIOUS
    <3>1. \A k \in 1..(n - 1) : k \in 1..Len(p) /\ k # n
      BY <1>1
    <3>2. Cells(v(n)) \in DOMAIN h
      BY <1>1, Kinds DEF Holds
    <3>3. \A k \in 1..(n - 1) : Holds(h, v(k), p[k]) => Cells(v(n)) # Cells(v(k))
      <4> HIDE DEF v
      <4> QED BY <1>6, <3>1
    <3> HIDE DEF v
    <3> QED BY <2>2, <3>2, <3>3
  <2>4. /\ Holds(g, u(n), p[n]) <=> Holds(h, v(n), p[n])
        /\ Holds(h, v(n), p[n]) => u(n) = v(n)
        /\ \A i \in Step : Opening(g, u(n), p[n], i) = Opening(h, v(n), p[n], i)
    <3>1. IsValue(h, v(n)) \/ v(n) = Missing
      BY <1>5
    <3> HIDE DEF u, v, g
    <3> QED BY <1>1, <2>1, <2>2, <2>3, <3>1, OpeningSame
  <2> HIDE DEF u, v
  <2>5. \A i \in Step : Member(way[n].heap, way[n].value, i) = Opening(h, v(n), p[n], i)
    BY <2>1, <2>4 DEF IsOpened
  <2>6. \/ Cells(way[n].value) = NewName(q, p, n)
        \/ Holds(h, v(n), p[n]) /\ Cells(way[n].value) = Cells(v(n))
    BY <2>1, <2>4 DEF IsOpened
  <2>7. \A o \in DOMAIN g : ~(Holds(h, v(n), p[n]) /\ o = Cells(v(n))) => way[n].heap[o] = g[o]
    BY <2>1, <2>4 DEF IsOpened
  <2>8. Kept(n)
    <3> SUFFICES ASSUME NEW o \in DOMAIN h,
                        \A k \in 1..n : Holds(h, v(k), p[k]) => o # Cells(v(k))
                 PROVE  way[n].heap[o] = h[o]
      OBVIOUS
    <3>1. \A k \in 1..(n - 1) : k \in 1..n
      BY <1>1
    <3>2. n \in 1..n
      BY <1>1
    <3>3. g[o] = h[o]
      BY <2>2, <3>1
    <3>4. o \in DOMAIN g
      BY <2>1 DEF Extends
    <3>5. way[n].heap[o] = g[o]
      BY <2>7, <3>2, <3>4
    <3> QED BY <3>3, <3>5
  <2>9. ASSUME n < Len(p) PROVE Alike(u(n + 1), v(n + 1))
    <3>1. n + 1 # 1 /\ (n + 1) - 1 = n
      BY <1>1
    <3>2. u(n + 1) = Member(way[n].heap, way[n].value, p[n])
      BY <3>1 DEF u, Sought
    <3>3. v(n + 1) = Member(h, v(n), p[n])
      BY <1>1, <3>1, GetNext DEF v, Old
    <3>4. u(n + 1) = Opening(h, v(n), p[n], p[n])
      BY <2>1, <2>5, <3>2
    <3>5. Member(h, v(n), p[n]) # Missing => Holds(h, v(n), p[n])
      BY DEF Member
    <3> QED BY <3>3, <3>4, <3>5 DEF Opening, Alike
  <2> QED BY <2>5, <2>6, <2>7, <2>8, <2>9
<1> DEFINE S == {n \in 0..Len(p) : Upheld(n)}
<1>9. ASSUME NEW i \in 0..(Len(p) - 1), i \in S PROVE i + 1 \in S
  <2>1. i + 1 \in 1..Len(p) /\ i + 1 \in 0..Len(p) /\ (i + 1) - 1 = i
    BY <1>1
  <2> HIDE DEF Upheld
  <2>2. Upheld((i + 1) - 1)
    BY <1>9, <2>1
  <2>3. Upheld(i + 1)
    BY <1>8, <2>1, <2>2
  <2> QED BY <2>1, <2>3
<1>10. 0..Len(p) \subseteq S
  <2>1. 0 \in S
    BY <1>1, <1>7
  <2> HIDE DEF S
  <2> QED BY <1>1, <1>9, <2>1, CountUp
<1> SUFFICES ASSUME NEW n \in 1..Len(p)
             PROVE  /\ \A i \in Step : Member(way[n].heap, way[n].value, i) = Opening(h, v(n), p[n], i)
                    /\ \/ Cells(way[n].value) = NewName(q, p, n)
                       \/ Holds(h, v(n), p[n]) /\ Cells(way[n].value) = Cells(v(n))
                    /\ \A o \in DOMAIN way[n - 1].heap :
                          ~(Holds(h, v(n), p[n]) /\ o = Cells(v(n)))
                              => way[n].heap[o] = way[n - 1].heap[o]
                    /\ n = 1 => way[n - 1].heap = h
                    /\ Kept(n)
  BY DEF way
<1>11. Upheld(n - 1)
  <2>1. n - 1 \in 0..Len(p)
    BY <1>1
  <2> QED BY <1>10, <2>1
<1>12. n = 1 => way[n - 1].heap = h
  <2>1. 1 - 1 = 0
    OBVIOUS
  <2> QED BY <1>2, <2>1
<1>13. Kept(n)
  BY <1>8, <1>11
<1> HIDE DEF Upheld, Kept, v
<1> QED BY <1>8, <1>11, <1>12, <1>13

LEMMA UpTo ==
    ASSUME NEW a \in Int, NEW b \in Int, a <= b, NEW T, a \in T,
           \A i \in a..(b - 1) : i \in T => i + 1 \in T
    PROVE  a..b \subseteq T
<1> DEFINE S == {n \in 0..(b - a) : a + n \in T}
<1>1. b - a \in Nat /\ 0 \in S
  OBVIOUS
<1>2. ASSUME NEW n \in 0..((b - a) - 1), n \in S PROVE n + 1 \in S
  <2>1. a + n \in a..(b - 1) /\ (a + n) + 1 = a + (n + 1) /\ n + 1 \in 0..(b - a)
    OBVIOUS
  <2> QED BY <1>2, <2>1
<1>3. 0..(b - a) \subseteq S
  <2> HIDE DEF S
  <2> QED BY <1>1, <1>2, CountUp
<1> SUFFICES ASSUME NEW i \in a..b PROVE i \in T
  OBVIOUS
<1>4. i - a \in 0..(b - a) /\ a + (i - a) = i
  OBVIOUS
<1> QED BY <1>3, <1>4

LEMMA DownTo ==
    ASSUME NEW a \in Int, NEW b \in Int, a <= b, NEW T, b \in T,
           \A i \in a..(b - 1) : i + 1 \in T => i \in T
    PROVE  a..b \subseteq T
<1> DEFINE S == {n \in 0..(b - a) : b - n \in T}
<1>1. b - a \in Nat /\ 0 \in S
  OBVIOUS
<1>2. ASSUME NEW n \in 0..((b - a) - 1), n \in S PROVE n + 1 \in S
  <2>1. b - (n + 1) \in a..(b - 1) /\ (b - (n + 1)) + 1 = b - n /\ n + 1 \in 0..(b - a)
    OBVIOUS
  <2> QED BY <1>2, <2>1
<1>3. 0..(b - a) \subseteq S
  <2> HIDE DEF S
  <2> QED BY <1>1, <1>2, CountUp
<1> SUFFICES ASSUME NEW i \in a..b PROVE i \in T
  OBVIOUS
<1>4. b - i \in 0..(b - a) /\ b - (b - i) = i
  OBVIOUS
<1> QED BY <1>3, <1>4

LEMMA MemberSame ==
    ASSUME NEW h, NEW g, Shaped(h), Shaped(g), Extends(h, g), NEW v, IsValue(h, v),
           g[Cells(v)] = h[Cells(v)]
    PROVE  \A i \in Step : Member(g, v, i) = Member(h, v, i)
<1>1. \A i \in Step : Holds(h, v, i) <=> Holds(g, v, i)
  BY ValueStays DEF Shaped
<1> QED BY <1>1 DEF Member

\* Outside what the way out assigns to, nothing changes on it.
LEMMA OutFrame ==
    ASSUME NEW out, NEW way, NEW p \in Walk, NEW x, IsWayOut(out, way, p, x)
    PROVE  \A m \in 1..(Len(p) + 1) : \A n \in 1..m :
              \A o \in DOMAIN way[Len(p)].heap :
                 (\A k \in n..(m - 1) : o # Cells(way[k].value)) => out[n][o] = out[m][o]
<1>1. Len(p) \in Nat
  BY DEF Walk
<1> SUFFICES ASSUME NEW m \in 1..(Len(p) + 1), NEW n \in 1..m, NEW o \in DOMAIN way[Len(p)].heap,
                    \A k \in n..(m - 1) : o # Cells(way[k].value)
             PROVE  out[n][o] = out[m][o]
  OBVIOUS
<1> DEFINE T == {k \in n..m : out[k][o] = out[m][o]}
<1>2. m \in T /\ n <= m /\ n \in Int /\ m \in Int
  BY <1>1
<1>3. ASSUME NEW k \in n..(m - 1), k + 1 \in T PROVE k \in T
  <2>1. k \in 1..Len(p) /\ k \in n..m
    BY <1>1
  <2>2. out[k][o] = out[k + 1][o]
    BY <2>1 DEF IsWayOut
  <2>3. out[k + 1][o] = out[m][o]
    BY <1>3
  <2> QED BY <2>1, <2>2, <2>3
<1>4. n..m \subseteq T
  <2> HIDE DEF T
  <2> QED BY <1>2, <1>3, DownTo
<1>5. n \in n..m
  BY <1>1
<1> QED BY <1>4, <1>5

\* The container setAt has at step n.
Box(h, q, root, p, n) == Descent(h, q, root, p)[n].value

\* g is what becomes of h.
IsSet(g, h, q, root, p, x) ==
    /\ Shaped(g) /\ Extends(h, g)
    /\ \A n \in 1..Len(p) :
          LET w == Box(h, q, root, p, n)
              v == Old(h, root, p, n)
          IN  /\ IsValue(g, w) /\ Holds(g, w, p[n])
              /\ \/ Cells(w) = NewName(q, p, n)
                 \/ Holds(h, v, p[n]) /\ Cells(w) = Cells(v)
              /\ \A i \in Step : Member(g, w, i) =
                    IF i # p[n] THEN Opening(h, v, p[n], i)
                    ELSE IF n = Len(p) THEN x ELSE Box(h, q, root, p, n + 1)
    /\ \A o \in DOMAIN h :
          (\A n \in 1..Len(p) : Holds(h, Old(h, root, p, n), p[n]) => o # Cells(Old(h, root, p, n)))
              => g[o] = h[o]

\* What a set leaves in each container of the way, and that it leaves the others.
LEMMA SetView ==
    ASSUME NEW h, NEW q, NEW root, NEW p, CanSet(h, q, root, p), Unshared(h, root, p),
           NEW x, IsValue(h, x)
    PROVE  LET s == SetAt(h, q, root, p, x)
           IN  s.root = Box(h, q, root, p, 1) /\ IsSet(s.heap, h, q, root, p, x)
<1> DEFINE way == Descent(h, q, root, p)
           last == way[Len(p)].heap
           v(n) == Old(h, root, p, n)
           w(n) == way[n].value
<1>1. p \in Walk /\ Len(p) \in Nat /\ Len(p) > 0 /\ Shaped(h) /\ p \in Path /\ IsValue(h, root)
      /\ DOMAIN h \subseteq Name /\ q \in Request /\ rule[q] \in Int /\ AllNew(h, q)
  BY PathIs DEF CanSet, Walk, Shaped
<1>2. PICK out : IsWayOut(out, way, p, x) /\ Ascent(way, p, x) = out[1]
  BY WayOut
<1>3. SetAt(h, q, root, p, x) = [heap |-> out[1], root |-> w(1)]
  BY <1>2 DEF SetAt
<1>4. \A n \in 1..Len(p) :
         /\ Shaped(way[n].heap) /\ IsValue(way[n].heap, w(n)) /\ Holds(way[n].heap, w(n), p[n])
         /\ Cells(w(n)) \in DOMAIN way[n].heap
         /\ Extends(way[n - 1].heap, way[n].heap) /\ Extends(h, way[n].heap)
  BY WayShaped DEF IsOpened
<1>5. \A n \in 1..Len(p) :
         /\ \A i \in Step : Member(way[n].heap, w(n), i) = Opening(h, v(n), p[n], i)
         /\ \/ Cells(w(n)) = NewName(q, p, n)
            \/ Holds(h, v(n), p[n]) /\ Cells(w(n)) = Cells(v(n))
         /\ \A o \in DOMAIN way[n - 1].heap :
               ~(Holds(h, v(n), p[n]) /\ o = Cells(v(n))) => way[n].heap[o] = way[n - 1].heap[o]
         /\ \A o \in DOMAIN h : (\A k \in 1..n : Holds(h, v(k), p[k]) => o # Cells(v(k)))
                                   => way[n].heap[o] = h[o]
  BY WayView
<1>6. \A n \in 1..Len(p) : \A k \in n..Len(p) : Extends(way[n].heap, way[k].heap)
  BY WayExtends
<1>7. \A n \in 1..Len(p) : NewName(q, p, n) \notin DOMAIN h
        /\ \A k \in 1..Len(p) : NewName(q, p, n) = NewName(q, p, k) => n = k
  BY <1>1, NewNameIs
<1>8. \A n, k \in 1..Len(p) : Holds(h, v(n), p[n]) /\ Holds(h, v(k), p[k]) /\ n # k
                                 => Cells(v(n)) # Cells(v(k))
  <2> SUFFICES ASSUME NEW n \in 1..Len(p), NEW k \in 1..Len(p),
                      Holds(h, v(n), p[n]), Holds(h, v(k), p[k]), n # k, Cells(v(n)) = Cells(v(k))
               PROVE  FALSE
    OBVIOUS
  <2>0. n - 1 \in 0..Len(p) /\ k - 1 \in 0..Len(p)
    BY <1>1
  <2>1. IsNode(h, Get(h, root, Upto(p, k - 1))) /\ Upto(p, k - 1) \in Walk
        /\ Len(Upto(p, k - 1)) = k - 1 /\ Len(Upto(p, n - 1)) = n - 1
    BY <1>1, <2>0, UptoIs DEF Holds, IsNode, Old
  <2>2. Cells(Get(h, root, Upto(p, k - 1))) = Cells(v(n))
    BY DEF Old
  <2>3. Upto(p, k - 1) = Upto(p, n - 1)
    BY <2>1, <2>2 DEF Unshared
  <2> QED BY <1>1, <2>1, <2>3
<1>9. \A n \in 1..Len(p) : Holds(h, v(n), p[n]) => Cells(v(n)) \in DOMAIN h
  BY <1>1, Kinds DEF Holds
<1> HIDE DEF way, v, w
<1>10. \A n, k \in 1..Len(p) : n # k => Cells(w(n)) # Cells(w(k))
  <2> SUFFICES ASSUME NEW n \in 1..Len(p), NEW k \in 1..Len(p), n # k
               PROVE  Cells(w(n)) # Cells(w(k))
    OBVIOUS
  <2> QED BY <1>5, <1>7, <1>8, <1>9
<1>23. \A n, k \in 1..Len(p) : n # k /\ Holds(h, v(k), p[k]) => Cells(w(n)) # Cells(v(k))
  <2> SUFFICES ASSUME NEW n \in 1..Len(p), NEW k \in 1..Len(p), n # k, Holds(h, v(k), p[k])
               PROVE  Cells(w(n)) # Cells(v(k))
    OBVIOUS
  <2> QED BY <1>5, <1>7, <1>8, <1>9
<1>11. \A n \in 1..Len(p) : last[Cells(w(n))] = way[n].heap[Cells(w(n))]
  <2> SUFFICES ASSUME NEW n \in 1..Len(p) PROVE last[Cells(w(n))] = way[n].heap[Cells(w(n))]
    OBVIOUS
  <2> DEFINE c == Cells(w(n))
             T == {k \in n..Len(p) : way[k].heap[c] = way[n].heap[c]}
  <2>1. n \in T /\ n <= Len(p) /\ n \in Int /\ Len(p) \in Int
    BY <1>1
  <2>2. ASSUME NEW k \in n..(Len(p) - 1), k \in T PROVE k + 1 \in T
    <3>1. k \in n..Len(p) /\ k + 1 \in 1..Len(p) /\ k + 1 \in n..Len(p) /\ (k + 1) - 1 = k /\ k + 1 # n
      BY <1>1
    <3>2. c \in DOMAIN way[k].heap
      BY <1>4, <1>6, <3>1 DEF Extends
    <3>3. ~(Holds(h, v(k + 1), p[k + 1]) /\ c = Cells(v(k + 1)))
      <4>1. k + 1 # n /\ k + 1 \in 1..Len(p) /\ n \in 1..Len(p)
        BY <3>1
      <4> DEFINE j == k + 1
      <4>2. j \in 1..Len(p) /\ n # j
        BY <4>1
      <4> HIDE DEF j
      <4>3. Holds(h, v(j), p[j]) => Cells(w(n)) # Cells(v(j))
        BY <1>23, <4>2
      <4> QED BY <4>3 DEF j
    <3>4. way[k + 1].heap[c] = way[k].heap[c]
      <4> HIDE DEF c
      <4> QED BY <1>5, <3>1, <3>2, <3>3
    <3>5. way[k].heap[c] = way[n].heap[c]
      BY <2>2
    <3> QED BY <3>1, <3>4, <3>5
  <2>3. n..Len(p) \subseteq T
    <3> HIDE DEF T
    <3> QED BY <2>1, <2>2, UpTo
  <2>4. Len(p) \in n..Len(p)
    BY <1>1
  <2> QED BY <2>3, <2>4
<1>12. \A n \in 1..Len(p) : /\ Shaped(out[n]) /\ Extends(last, out[n]) /\ DOMAIN out[n] = DOMAIN last
                            /\ \A i \in Step : Member(out[n], w(n), i) =
                                   IF i # p[n] THEN Member(out[n + 1], w(n), i)
                                   ELSE IF n = Len(p) THEN x ELSE w(n + 1)
  BY <1>2 DEF IsWayOut, w
<1>13. out[Len(p) + 1] = last
  BY <1>2 DEF IsWayOut
<1>14. \A m \in 1..(Len(p) + 1) : \A n \in 1..m : \A o \in DOMAIN last :
          (\A k \in n..(m - 1) : o # Cells(w(k))) => out[n][o] = out[m][o]
  BY <1>1, <1>2, OutFrame DEF w
<1>15. 1 \in 1..Len(p) /\ Len(p) \in 1..Len(p) /\ \A n \in 1..Len(p) : Len(p) \in n..Len(p)
  BY <1>1
<1>16. Shaped(out[1]) /\ Extends(last, out[1]) /\ Extends(h, last) /\ Extends(h, out[1]) /\ Shaped(last)
  BY <1>4, <1>12, <1>15, ExtendsTwo
<1>17. ASSUME NEW n \in 1..Len(p)
       PROVE  /\ IsValue(out[1], w(n)) /\ Holds(out[1], w(n), p[n])
              /\ \A i \in Step : Member(out[1], w(n), i) =
                    IF i # p[n] THEN Opening(h, v(n), p[n], i)
                    ELSE IF n = Len(p) THEN x ELSE w(n + 1)
  <2> DEFINE c == Cells(w(n))
             g == way[n].heap
  <2>0. p[n] \in Step
    <3>1. n \in 0..Len(p) /\ n > 0
      BY <1>1
    <3> QED BY <1>1, <3>1, UptoIs
  <2>1. Shaped(g) /\ IsValue(g, w(n)) /\ Holds(g, w(n), p[n]) /\ c \in DOMAIN g /\ Extends(g, last)
    BY <1>4, <1>6, <1>15
  <2>2. c \in DOMAIN last
    BY <2>1 DEF Extends
  <2>3. Shaped(out[n]) /\ Extends(g, out[n]) /\ Extends(g, out[1]) /\ Extends(last, out[n])
    BY <1>12, <1>16, <2>1, ExtendsTwo
  <2>4. out[1][c] = out[n][c]
    <3>1. \A k \in 1..(n - 1) : k \in 1..Len(p) /\ k # n
      BY <1>1
    <3>2. \A k \in 1..(n - 1) : c # Cells(w(k))
      <4> SUFFICES ASSUME NEW k \in 1..(n - 1) PROVE Cells(w(n)) # Cells(w(k))
        OBVIOUS
      <4>1. k \in 1..Len(p) /\ n # k
        BY <3>1
      <4> QED BY <1>10, <4>1
    <3>3. n \in 1..(Len(p) + 1) /\ 1 \in 1..n
      BY <1>1
    <3> HIDE DEF c
    <3> QED BY <1>14, <2>2, <3>2, <3>3
  <2>5. n < Len(p) => out[n + 1][c] = last[c]
    <3> SUFFICES ASSUME n < Len(p) PROVE out[n + 1][c] = last[c]
      OBVIOUS
    <3>1. \A k \in (n + 1)..((Len(p) + 1) - 1) : k \in 1..Len(p) /\ k # n
      BY <1>1
    <3>2. \A k \in (n + 1)..((Len(p) + 1) - 1) : c # Cells(w(k))
      <4> SUFFICES ASSUME NEW k \in (n + 1)..((Len(p) + 1) - 1) PROVE Cells(w(n)) # Cells(w(k))
        OBVIOUS
      <4>1. k \in 1..Len(p) /\ n # k
        BY <3>1
      <4> QED BY <1>10, <4>1
    <3>3. Len(p) + 1 \in 1..(Len(p) + 1) /\ n + 1 \in 1..(Len(p) + 1)
      BY <1>1
    <3> HIDE DEF c
    <3> QED BY <1>13, <1>14, <2>2, <3>2, <3>3
  <2>6. Shaped(out[n + 1]) /\ Extends(last, out[n + 1]) /\ out[n + 1][c] = last[c]
    <3>1. CASE n < Len(p)
      <4>1. n + 1 \in 1..Len(p)
        BY <1>1, <3>1
      <4> QED BY <1>12, <2>5, <3>1, <4>1
    <3>2. CASE n = Len(p)
      BY <1>13, <1>16, <3>2 DEF Extends
    <3>3. n < Len(p) \/ n = Len(p)
      BY <1>1
    <3> QED BY <3>1, <3>2, <3>3
  <2>7. out[n + 1][c] = g[c] /\ Extends(g, out[n + 1])
    <3>1. last[c] = g[c]
      BY <1>11
    <3> QED BY <2>1, <2>6, <3>1, ExtendsTwo
  <2>8. \A i \in Step : Member(out[n + 1], w(n), i) = Opening(h, v(n), p[n], i)
    <3>1. \A i \in Step : Member(out[n + 1], w(n), i) = Member(g, w(n), i)
      BY <2>1, <2>6, <2>7, MemberSame
    <3> QED BY <1>5, <3>1
  <2>9. IsValue(out[n], w(n)) /\ IsValue(out[1], w(n)) /\ Holds(out[1], w(n), p[n])
    BY <1>16, <2>0, <2>1, <2>3, ValueStays DEF Shaped
  <2>10. \A i \in Step : Member(out[1], w(n), i) = Member(out[n], w(n), i)
    <3>2. ASSUME NEW i \in Step PROVE Holds(out[1], w(n), i) <=> Holds(out[n], w(n), i)
      <4>1. Holds(g, w(n), i) <=> Holds(out[1], w(n), i)
        BY <1>16, <2>1, <2>3, ValueStays DEF Shaped
      <4>2. Holds(g, w(n), i) <=> Holds(out[n], w(n), i)
        BY <1>16, <2>1, <2>3, ValueStays DEF Shaped
      <4> QED BY <4>1, <4>2
    <3> QED BY <2>4, <3>2 DEF Member
  <2> QED BY <1>12, <2>8, <2>9, <2>10
<1>18. ASSUME NEW o \in DOMAIN h,
              \A n \in 1..Len(p) : Holds(h, v(n), p[n]) => o # Cells(v(n))
       PROVE  out[1][o] = h[o]
  <2>1. last[o] = h[o]
    BY <1>5, <1>15, <1>18
  <2>2. o \in DOMAIN last
    BY <1>16 DEF Extends
  <2>3. \A n \in 1..((Len(p) + 1) - 1) : o # Cells(w(n))
    <3>1. \A n \in 1..Len(p) : o # Cells(w(n))
      BY <1>5, <1>7, <1>18
    <3> QED BY <1>1, <3>1
  <2>4. Len(p) + 1 \in 1..(Len(p) + 1) /\ 1 \in 1..(Len(p) + 1)
    BY <1>1
  <2> QED BY <1>13, <1>14, <2>1, <2>2, <2>3, <2>4
<1>19. \A n \in 1..Len(p) : w(n) = Box(h, q, root, p, n)
  BY DEF w, way, Box
<1>20. \A n \in 1..Len(p) : n # Len(p) => w(n + 1) = Box(h, q, root, p, n + 1)
  BY DEF w, way, Box
<1>21. \A n \in 1..Len(p) : \/ Cells(w(n)) = NewName(q, p, n)
                            \/ Holds(h, v(n), p[n]) /\ Cells(w(n)) = Cells(v(n))
  BY <1>5
<1>22. IsSet(out[1], h, q, root, p, x)
  BY <1>16, <1>17, <1>18, <1>19, <1>20, <1>21 DEF IsSet, v
<1> QED BY <1>3, <1>15, <1>19, <1>22

\* What setAt writes to is not reached from the value it sets.
Apart(h, root, p, x) ==
    \A n \in 1..Len(p) : Holds(h, Old(h, root, p, n), p[n]) =>
        \A y \in Walk : IsNode(h, Get(h, x, y)) =>
            Cells(Get(h, x, y)) # Cells(Old(h, root, p, n))

\* y leaves the way along p at step n.
Leaves(p, y, n) ==
    n \in 1..Len(p) /\ n <= Len(y) /\ y[n] # p[n] /\ Upto(y, n - 1) = Upto(p, n - 1)

\* What is found beside the way.
Beside(h, root, p, y, n) ==
    IF Holds(h, Old(h, root, p, n), p[n]) /\ Get(h, root, y) # Missing THEN Get(h, root, y)
    ELSE IF Len(y) = n /\ p[n] \in Index /\ y[n] \in Index /\ y[n] <= p[n] THEN Null
    ELSE Missing

\* Nodes that are not written to are found as they were.
LEMMA GetKept ==
    ASSUME NEW h, Shaped(h), NEW q, NEW root, NEW p, NEW x, NEW g, IsSet(g, h, q, root, p, x),
           NEW v, IsValue(h, v) \/ v = Missing,
           \A y \in Walk : IsNode(h, Get(h, v, y)) => \A n \in 1..Len(p) :
              Holds(h, Old(h, root, p, n), p[n]) => Cells(Get(h, v, y)) # Cells(Old(h, root, p, n))
    PROVE  \A y \in Walk : Get(g, v, y) = Get(h, v, y)
<1>1. Shaped(g) /\ Extends(h, g)
  BY DEF IsSet
<1>2. ASSUME NEW y \in Walk, IsNode(h, Get(h, v, y))
      PROVE  g[Cells(Get(h, v, y))] = h[Cells(Get(h, v, y))]
  <2>1. Cells(Get(h, v, y)) \in DOMAIN h
    BY <1>2, Kinds DEF Shaped, IsNode
  <2> QED BY <1>2, <2>1 DEF IsSet
<1>3. <<>> \in Walk /\ Walk \in SUBSET Walk
  BY DEF Walk
<1>4. \A y \in Walk, s \in Step : Append(y, s) \in Walk => y \in Walk
  OBVIOUS
<1> QED BY <1>1, <1>2, <1>3, <1>4, GetSame

\* On the way to p the new document has the opened containers, at p the value.
LEMMA SetOnWay ==
    ASSUME NEW h, NEW q, NEW root, NEW p, CanSet(h, q, root, p), NEW x, NEW g,
           IsSet(g, h, q, root, p, x)
    PROVE  /\ \A n \in 1..Len(p) : Get(g, Box(h, q, root, p, 1), Upto(p, n - 1)) = Box(h, q, root, p, n)
           /\ Get(g, Box(h, q, root, p, 1), p) = x
<1> DEFINE w(n) == Box(h, q, root, p, n)
           r == w(1)
           T == {n \in 1..Len(p) : Get(g, r, Upto(p, n - 1)) = w(n)}
<1>1. p \in Walk /\ Len(p) \in Nat /\ Len(p) > 0
  BY PathIs DEF CanSet, Walk
<1>2. \A n \in 1..Len(p) : Upto(p, n - 1) \in Walk /\ p[n] \in Step
  <2> SUFFICES ASSUME NEW n \in 1..Len(p) PROVE Upto(p, n - 1) \in Walk /\ p[n] \in Step
    OBVIOUS
  <2>1. n \in 0..Len(p) /\ n > 0 /\ n - 1 \in 0..Len(p)
    BY <1>1
  <2> QED BY <1>1, <2>1, UptoIs
<1>3. \A n \in 1..Len(p) : \A i \in Step : i = p[n] =>
        Member(g, w(n), i) = IF n = Len(p) THEN x ELSE w(n + 1)
  BY DEF IsSet
<1> HIDE DEF w
<1>4. ASSUME NEW n \in 1..Len(p), n \in T
      PROVE  Get(g, r, Upto(p, n)) = IF n = Len(p) THEN x ELSE w(n + 1)
  <2>1. Get(g, r, Upto(p, n)) = Member(g, w(n), p[n])
    BY <1>1, <1>4, GetNext
  <2>2. Member(g, w(n), p[n]) = IF n = Len(p) THEN x ELSE w(n + 1)
    BY <1>2, <1>3
  <2> QED BY <2>1, <2>2
<1>5. 1..Len(p) \subseteq T
  <2>1. 1 \in T
    <3>1. 1 - 1 = 0 /\ 0 \in 0..Len(p) /\ 1 \in 1..Len(p)
      BY <1>1
    <3> QED BY <1>1, <3>1, GetRoot, UptoIs
  <2>2. ASSUME NEW n \in 1..(Len(p) - 1), n \in T PROVE n + 1 \in T
    <3>1. n \in 1..Len(p) /\ n + 1 \in 1..Len(p) /\ n # Len(p) /\ (n + 1) - 1 = n
      BY <1>1
    <3> QED BY <1>4, <2>2, <3>1
  <2>3. 1 \in Int /\ Len(p) \in Int /\ 1 <= Len(p)
    BY <1>1
  <2> HIDE DEF T
  <2> QED BY <2>1, <2>2, <2>3, UpTo
<1>6. Get(g, r, p) = x
  <2>1. Len(p) \in 1..Len(p) /\ Upto(p, Len(p)) = p
    BY <1>1, UptoIs
  <2> QED BY <1>4, <1>5, <2>1
<1>7. \A n \in 1..Len(p) : Get(g, r, Upto(p, n - 1)) = w(n)
  BY <1>5
<1> QED BY <1>6, <1>7 DEF w

\* Get after SetAt: at and below p it finds the value, on the way to p the opened
\* containers, beside the way what was there before or the padding.
LEMMA SetGet ==
    ASSUME NEW h, NEW q, NEW root, NEW p, CanSet(h, q, root, p), Unshared(h, root, p),
           NEW x, IsValue(h, x), Apart(h, root, p, x)
    PROVE  LET s == SetAt(h, q, root, p, x)
           IN  /\ \A n \in 1..Len(p) : Get(s.heap, s.root, Upto(p, n - 1)) = Box(h, q, root, p, n)
               /\ \A y \in Walk : Get(s.heap, s.root, p \o y) = Get(h, x, y)
               /\ \A y \in Walk, n \in 1..Len(p) : Leaves(p, y, n) =>
                     Get(s.heap, s.root, y) = Beside(h, root, p, y, n)
<1> DEFINE s == SetAt(h, q, root, p, x)
           g == s.heap
           r == s.root
           v(n) == Old(h, root, p, n)
<1>1. p \in Walk /\ Len(p) \in Nat /\ Len(p) > 0 /\ Shaped(h) /\ IsValue(h, root)
      /\ DOMAIN h \subseteq Name
  <2>1. p \in Path /\ p # <<>> /\ Shaped(h) /\ IsValue(h, root)
    BY DEF CanSet
  <2>2. p \in Walk
    BY <2>1, PathIs
  <2>3. Len(p) \in Nat /\ Len(p) > 0
    BY <2>1, <2>2 DEF Walk
  <2> QED BY <2>1, <2>2, <2>3 DEF Shaped
<1>2. r = Box(h, q, root, p, 1) /\ IsSet(g, h, q, root, p, x)
  BY SetView
<1> HIDE DEF s
<1>3. Shaped(g) /\ Extends(h, g)
  BY <1>2 DEF IsSet
<1>4. /\ \A n \in 1..Len(p) : Get(g, r, Upto(p, n - 1)) = Box(h, q, root, p, n)
      /\ Get(g, r, p) = x
  BY <1>2, SetOnWay
<1>5. ASSUME NEW y \in Walk PROVE Get(g, r, p \o y) = Get(h, x, y)
  <2>1. Get(g, r, p \o y) = Get(g, x, y)
    BY <1>1, <1>4, GetOver
  <2>2. Get(g, x, y) = Get(h, x, y)
    BY <1>1, <1>2, GetKept DEF Apart
  <2> QED BY <2>1, <2>2
<1>6. ASSUME NEW y \in Walk, NEW n \in 1..Len(p), Leaves(p, y, n)
      PROVE  Get(g, r, y) = Beside(h, root, p, y, n)
  <2> DEFINE a == Upto(y, n)
             z == After(a, y)
             m == Opening(h, v(n), p[n], y[n])
  <2>1. /\ n \in 0..Len(y) /\ n > 0 /\ n \in 1..Len(y) /\ n - 1 \in 0..Len(y) /\ n \in 0..Len(p)
        /\ Len(y) \in Nat
    BY <1>1, <1>6 DEF Leaves, Walk
  <2>2. /\ a \in Walk /\ Len(a) = n /\ y[n] \in Step /\ p[n] \in Step /\ a[n] = y[n]
        /\ Upto(y, n - 1) = Upto(p, n - 1)
    <3>1. n \in 1..n
      BY <2>1
    <3> QED BY <1>1, <1>6, <2>1, <3>1, UptoIs DEF Leaves
  <2>3. z \in Walk /\ y = a \o z /\ (z = <<>> <=> Len(y) = n)
    <3>1. IsPrefix(a, y)
      BY <2>1, <2>2, PrefixIs
    <3>2. z \in Walk /\ y = a \o z /\ Len(z) = Len(y) - n
      BY <2>2, <3>1, AfterIs
    <3> QED BY <2>1, <3>2 DEF Walk
  <2>4. Get(g, r, a) = m
    <3>1. Get(g, r, a) = Member(g, Get(g, r, Upto(p, n - 1)), y[n])
      BY <2>1, <2>2, GetNext
    <3>2. Get(g, r, Upto(p, n - 1)) = Box(h, q, root, p, n)
      BY <1>4
    <3>3. Member(g, Box(h, q, root, p, n), y[n]) = m
      BY <1>2, <1>6, <2>2 DEF IsSet, Leaves
    <3> QED BY <3>1, <3>2, <3>3
  <2>5. Get(h, root, a) = Member(h, v(n), y[n])
    BY <2>1, <2>2, GetNext DEF Old
  <2>6. Get(g, r, y) = Get(g, m, z) /\ Get(h, root, y) = Get(h, Member(h, v(n), y[n]), z)
    <3>1. Get(g, r, a \o z) = Get(g, Get(g, r, a), z)
      <4> HIDE DEF a, z, g
      <4> QED BY <2>2, <2>3, GetOver
    <3>2. Get(h, root, a \o z) = Get(h, Get(h, root, a), z)
      <4> HIDE DEF a, z, g
      <4> QED BY <2>2, <2>3, GetOver
    <3> HIDE DEF a, z, g, m
    <3> QED BY <2>3, <2>4, <2>5, <3>1, <3>2
  <2>7. CASE Holds(h, v(n), p[n]) /\ Member(h, v(n), y[n]) # Missing
    <3>1. m = Get(h, root, a)
      BY <2>5, <2>7 DEF Opening
    <3>2. IsValue(h, m) \/ m = Missing
      BY <1>1, <2>2, <3>1, GetValue
    <3>3. ASSUME NEW b \in Walk, IsNode(h, Get(h, m, b)), NEW k \in 1..Len(p),
                 Holds(h, v(k), p[k]), Cells(Get(h, m, b)) = Cells(v(k))
          PROVE  FALSE
      <4>1. Get(h, m, b) = Get(h, root, a \o b) /\ a \o b \in Walk
        BY <2>2, <3>1, GetOver, ConcatIs
      <4>2. a \o b = Upto(p, k - 1)
        BY <3>3, <4>1 DEF Unshared
      <4>3. k - 1 \in 0..Len(p)
        BY <1>1
      <4>4. Len(a \o b) = k - 1 /\ Len(a \o b) >= n
        <5>1. Len(Upto(p, k - 1)) = k - 1
          BY <1>1, <4>3, UptoIs
        <5>2. Len(a \o b) = Len(a) + Len(b)
          <6> HIDE DEF a
          <6> QED BY <2>2, <3>3, ConcatIs
        <5>3. Len(b) \in Nat
          BY <3>3 DEF Walk
        <5> HIDE DEF a
        <5> QED BY <1>1, <2>1, <2>2, <4>2, <5>1, <5>2, <5>3
      <4>5. n \in 1..(k - 1) /\ n \in 1..Len(a)
        BY <1>1, <2>1, <2>2, <4>4
      <4>6. (a \o b)[n] = y[n] /\ Upto(p, k - 1)[n] = p[n]
        <5>1. Upto(p, k - 1)[n] = p[n]
          BY <1>1, <4>3, <4>5, UptoIs
        <5>2. (a \o b)[n] = a[n]
          <6> HIDE DEF a
          <6> QED BY <2>2, <3>3, <4>5, ConcatIs
        <5> HIDE DEF a
        <5> QED BY <2>2, <5>1, <5>2
      <4> QED BY <1>6, <4>2, <4>6 DEF Leaves
    <3>4. Get(g, m, z) = Get(h, m, z)
      <4> HIDE DEF m, z, g
      <4>1. \A b \in Walk : IsNode(h, Get(h, m, b)) => \A k \in 1..Len(p) :
               Holds(h, Old(h, root, p, k), p[k]) => Cells(Get(h, m, b)) # Cells(Old(h, root, p, k))
        BY <3>3
      <4> HIDE DEF v
      <4>2. Shaped(h) /\ IsSet(g, h, q, root, p, x) /\ z \in Walk
        BY <1>1, <1>2, <2>3
      <4>3. \A b \in Walk : Get(g, m, b) = Get(h, m, b)
        BY <3>2, <4>1, <4>2, GetKept
      <4> QED BY <4>2, <4>3
    <3>5. Get(g, r, y) = Get(h, root, y)
      BY <2>5, <2>6, <3>1, <3>4
    <3>6. Get(h, root, y) = Missing => z # <<>>
      BY <2>5, <2>6, <2>7, GetRoot
    <3> QED BY <2>3, <2>7, <3>5, <3>6 DEF Beside
  <2>8. CASE ~(Holds(h, v(n), p[n]) /\ Member(h, v(n), y[n]) # Missing)
    <3>1. m = IF p[n] \in Index /\ y[n] \in Index /\ y[n] <= p[n] THEN Null ELSE Missing
      BY <2>8 DEF Opening
    <3>2. ~IsNode(g, m) /\ ~IsNode(h, Missing)
      BY <1>1, <1>3, <3>1, NullIs, Kinds DEF Shaped, IsNode
    <3>3. Get(g, m, z) = IF z = <<>> THEN m ELSE Missing
      <4> HIDE DEF m, z, g
      <4> QED BY <1>3, <2>3, <3>2, GetNothing
    <3>4. Holds(h, v(n), p[n]) => Get(h, root, y) = Missing
      <4>1. Get(h, Missing, z) = Missing
        BY <1>1, <2>3, <3>2, GetNothing
      <4> QED BY <2>6, <2>8, <4>1
    <3> QED BY <2>3, <2>6, <3>1, <3>3, <3>4 DEF Beside
  <2> QED BY <2>7, <2>8
<1> QED BY <1>4, <1>5, <1>6 DEF s

-----------------------------------------------------------------------------
(* Documents *)

LEMMA WrittenIs ==
    ASSUME NEW h, Shaped(h), NEW v, IsValue(h, v)
    PROVE  /\ \A s \in Step : Written(h, v) = NodeFor(s) <=> Holds(h, v, s)
           /\ IsMap(h, v) <=> Written(h, v) = Map
           /\ IsSlice(h, v) <=> Written(h, v) = List
           /\ v \in Scalar => Written(h, v) = v
           /\ Written(h, v) \in Scalar \cup {Map, List}
<1>1. /\ v \in Scalar => ~IsMap(h, v) /\ ~IsSlice(h, v)
      /\ IsMap(h, v) => ~IsSlice(h, v)
  BY Kinds DEF Shaped
<1>2. Map # List /\ Map \notin Scalar /\ List \notin Scalar
  BY MappingAssumption, TreeAssumption
<1>3. v \in Scalar \/ IsMap(h, v) \/ IsSlice(h, v)
  BY DEF IsValue
<1>4. IsMap(h, v) <=> Written(h, v) = Map
  BY <1>1, <1>2, <1>3 DEF Written
<1>5. IsSlice(h, v) <=> Written(h, v) = List
  BY <1>1, <1>2, <1>3 DEF Written
<1>6. \A s \in Step : Written(h, v) = NodeFor(s) <=> Holds(h, v, s)
  BY <1>4, <1>5 DEF NodeFor, Holds
<1>7. v \in Scalar => Written(h, v) = v
  BY <1>1 DEF Written
<1>8. Written(h, v) \in Scalar \cup {Map, List}
  BY <1>3 DEF Written
<1> QED BY <1>4, <1>5, <1>6, <1>7, <1>8

LEMMA WrittenStays ==
    ASSUME NEW h, Shaped(h), NEW g, Shaped(g), Extends(h, g), NEW v, IsValue(h, v)
    PROVE  Written(g, v) = Written(h, v)
BY ValueStays DEF Written, Shaped

\* A document by what Get finds.
LEMMA DocumentIs ==
    ASSUME NEW h, NEW root
    PROVE  /\ DOMAIN Document(h, root) = {x \in Path : Get(h, root, x) # Missing}
           /\ \A x \in DOMAIN Document(h, root) : Document(h, root)[x] = Written(h, Get(h, root, x))
           /\ Document(h, root) = [x \in DOMAIN Document(h, root) |-> Document(h, root)[x]]
BY DEF Document

\* Whatever the heap, its documents are trees.
LEMMA DocumentTree ==
    ASSUME NEW h, Shaped(h), NEW root, IsValue(h, root)
    PROVE  IsTree(Document(h, root))
<1> DEFINE d == Document(h, root)
           v(x) == Get(h, root, x)
<1>1. /\ DOMAIN d = {x \in Path : v(x) # Missing}
      /\ \A x \in DOMAIN d : d[x] = Written(h, v(x))
      /\ d = [x \in DOMAIN d |-> d[x]]
  BY DocumentIs
<1>2. \A x \in Walk : IsValue(h, v(x)) \/ v(x) = Missing
  BY GetValue
<1>3. \A x \in Path : x \in Walk /\ Len(x) \in Nat /\ Len(x) <= MaxDepth
  BY PathIs DEF Walk
<1>4. \A x \in DOMAIN d : x \in Walk /\ x \in Path /\ IsValue(h, v(x))
  BY <1>1, <1>2, <1>3
<1> HIDE DEF d
<1>5. <<>> \in DOMAIN d
  <2>1. v(<<>>) = root /\ root # Missing
    BY GetRoot, NotMissing DEF Shaped
  <2>2. <<>> \in Path
    BY PathIs, MappingAssumption, TreeAssumption DEF Walk
  <2> QED BY <1>1, <2>1, <2>2
<1>6. d \in [DOMAIN d -> Scalar \cup {Map, List}]
  <2>1. \A x \in DOMAIN d : d[x] \in Scalar \cup {Map, List}
    BY <1>1, <1>4, WrittenIs
  <2> QED BY <1>1, <2>1
<1>7. ASSUME NEW x \in DOMAIN d \ {<<>>}
      PROVE  Front(x) \in DOMAIN d /\ d[Front(x)] = NodeFor(Last(x))
  <2>1. x \in Walk /\ x # <<>> /\ Len(x) <= MaxDepth /\ v(x) # Missing /\ Len(x) \in Nat
    BY <1>1, <1>3, <1>4
  <2>2. /\ Front(x) \in Walk /\ Last(x) \in Step /\ x = Append(Front(x), Last(x))
        /\ Len(Front(x)) = Len(x) - 1
    BY <2>1, FrontIs
  <2> DEFINE f == Front(x)
             s == Last(x)
  <2> HIDE DEF f, s
  <2>3. v(x) = Member(h, v(f), s)
    BY <2>2, GetStep DEF f, s
  <2>4. Holds(h, v(f), s)
    BY <2>1, <2>3 DEF Member
  <2>5. v(f) # Missing
    BY <2>4, Kinds DEF Holds, Shaped
  <2>6. f \in Path
    <3>1. Len(f) <= MaxDepth /\ f \in Walk
      <4>1. Len(f) = Len(x) - 1 /\ f \in Walk
        BY <2>2 DEF f
      <4> QED BY <2>1, <4>1, MappingAssumption, TreeAssumption
    <3> QED BY <3>1, PathIs
  <2>7. f \in DOMAIN d
    BY <1>1, <2>5, <2>6
  <2>8. d[f] = Written(h, v(f)) /\ IsValue(h, v(f))
    BY <1>1, <1>4, <2>7
  <2>9. d[f] = NodeFor(s)
    BY <2>2, <2>4, <2>8, WrittenIs DEF s
  <2> QED BY <2>7, <2>9 DEF f, s
<1>8. ASSUME NEW x \in DOMAIN d, d[x] = List
      PROVE  Members(d, x) = 0..(Cardinality(Members(d, x)) - 1)
  <2>1. x \in Walk /\ x \in Path /\ IsValue(h, v(x)) /\ d[x] = Written(h, v(x))
    BY <1>1, <1>4
  <2>2. IsSlice(h, v(x))
    BY <1>8, <2>1, WrittenIs
  <2>3. v(x)[3] \in Nat
    BY <2>2, Kinds DEF Shaped
  <2>4. \A s \in Step : /\ Append(x, s) \in DOMAIN d <=>
                              Append(x, s) \in Path /\ Member(h, v(x), s) # Missing
    BY <1>1, <2>1, GetStep
  <2>5. \A s \in Step : Append(x, s) \in Path <=> Len(x) < MaxDepth
    <3> SUFFICES ASSUME NEW s \in Step PROVE Append(x, s) \in Path <=> Len(x) < MaxDepth
      OBVIOUS
    <3>1. Append(x, s) \in Walk /\ Len(Append(x, s)) = Len(x) + 1
      BY <2>1, AppendIs
    <3> QED BY <1>3, <2>1, <3>1, PathIs, MappingAssumption, TreeAssumption
  <2>6. \A s \in Step : Member(h, v(x), s) # Missing <=> s \in Index /\ s < v(x)[3]
    <3> SUFFICES ASSUME NEW s \in Step
                 PROVE  Member(h, v(x), s) # Missing <=> s \in Index /\ s < v(x)[3]
      OBVIOUS
    <3>1. CASE s \in Index
      <4> HIDE DEF v
      <4> QED BY <2>1, <2>2, <3>1, MemberBelow
    <3>2. CASE s \notin Index
      <4>1. ~Holds(h, v(x), s)
        BY <2>2, <3>2, Kinds DEF Holds, Shaped
      <4> QED BY <3>2, <4>1 DEF Member
    <3> QED BY <3>1, <3>2
  <2>7. Members(d, x) = {s \in Step : Append(x, s) \in DOMAIN d}
    BY DEF Members, Step
  <2>8. \E n \in Nat : Members(d, x) = 0..(n - 1)
    <3> HIDE DEF v
    <3>1. CASE Len(x) < MaxDepth
      <4> DEFINE n == IF v(x)[3] <= MaxIndex THEN v(x)[3] ELSE MaxIndex + 1
      <4>1. n \in Nat
        BY <2>3, MappingAssumption, TreeAssumption
      <4>2. \A s \in Step : Append(x, s) \in DOMAIN d <=> s \in Index /\ s < v(x)[3]
        BY <2>4, <2>5, <2>6, <3>1
      <4>3. Members(d, x) = {s \in Step : s \in Index /\ s < v(x)[3]}
        BY <2>7, <4>2
      <4>4. 0..(n - 1) = {s \in Index : s < v(x)[3]}
        BY <2>3, MappingAssumption, TreeAssumption DEF Index
      <4>5. {s \in Step : s \in Index /\ s < v(x)[3]} = {s \in Index : s < v(x)[3]}
        BY DEF Step
      <4> QED BY <4>1, <4>3, <4>4, <4>5
    <3>2. CASE ~(Len(x) < MaxDepth)
      <4>1. Members(d, x) = {}
        BY <2>4, <2>5, <2>7, <3>2
      <4>2. {} = 0..(0 - 1) /\ 0 \in Nat
        OBVIOUS
      <4> QED BY <4>1, <4>2
    <3> QED BY <3>1, <3>2
  <2>9. PICK n \in Nat : Members(d, x) = 0..(n - 1)
    BY <2>8
  <2>10. Cardinality(0..(n - 1)) = n
    <3>1. Cardinality(0..(n - 1)) = IF 0 > n - 1 THEN 0 ELSE ((n - 1) - 0) + 1
      BY FS_Interval
    <3> QED BY <3>1
  <2> QED BY <2>9, <2>10
<1>9. DOMAIN d \subseteq Path
  BY <1>1
<1> QED BY <1>5, <1>6, <1>7, <1>8, <1>9 DEF IsTree, d

-----------------------------------------------------------------------------
(* Grafts *)

LEMMA StepsIs ==
    ASSUME NEW p \in Walk
    PROVE  /\ \A y \in Walk : y \in Steps(p) <=> IsStrictPrefix(y, p)
           /\ \A y \in Steps(p) : \E n \in 1..Len(p) : y = Upto(p, n - 1)
           /\ \A n \in 1..Len(p) : Upto(p, n - 1) \in Steps(p)
<1>1. Len(p) \in Nat
  BY DEF Walk
<1>2. \A y \in Steps(p) : \E n \in 1..Len(p) : y = Upto(p, n - 1)
  <2> SUFFICES ASSUME NEW y \in Steps(p) PROVE \E n \in 1..Len(p) : y = Upto(p, n - 1)
    OBVIOUS
  <2>1. PICK k \in 0..(Len(p) - 1) : y = SubSeq(p, 1, k)
    BY DEF Steps
  <2>2. k + 1 \in 1..Len(p) /\ (k + 1) - 1 = k
    BY <1>1
  <2> QED BY <2>1, <2>2 DEF Upto
<1>3. \A n \in 1..Len(p) : Upto(p, n - 1) \in Steps(p)
  <2> SUFFICES ASSUME NEW n \in 1..Len(p) PROVE Upto(p, n - 1) \in Steps(p)
    OBVIOUS
  <2>1. n - 1 \in 0..(Len(p) - 1)
    BY <1>1
  <2> QED BY <2>1 DEF Upto, Steps
<1>4. ASSUME NEW y \in Walk, y \in Steps(p) PROVE IsStrictPrefix(y, p)
  <2>1. PICK n \in 1..Len(p) : y = Upto(p, n - 1)
    BY <1>2, <1>4
  <2>2. n - 1 \in 0..Len(p)
    BY <1>1
  <2>3. Len(y) = n - 1
    BY <2>1, <2>2, UptoIs
  <2>4. Len(y) <= Len(p) /\ Upto(p, Len(y)) = y /\ Len(y) < Len(p)
    BY <1>1, <2>1, <2>3
  <2> QED BY <2>4, PrefixIs
<1>5. ASSUME NEW y \in Walk, IsStrictPrefix(y, p) PROVE y \in Steps(p)
  <2>1. Len(y) < Len(p) /\ Upto(p, Len(y)) = y /\ Len(y) \in Nat
    BY <1>5, PrefixIs DEF Walk
  <2>2. Len(y) \in 0..(Len(p) - 1)
    BY <1>1, <2>1
  <2> QED BY <2>1, <2>2 DEF Upto, Steps
<1> QED BY <1>2, <1>3, <1>4, <1>5

\* A path that leaves the way to p after n steps.
LEMMA LeavesIs ==
    ASSUME NEW p \in Walk, NEW y \in Walk, NEW n \in 1..Len(p), Leaves(p, y, n)
    PROVE  /\ ~IsPrefix(p, y) /\ ~IsPrefix(y, p)
           /\ \A k \in 1..Len(p) : Leaves(p, y, k) => k = n
           /\ \A k \in 1..Len(p) : IsStrictPrefix(Upto(p, k - 1), y) <=> k <= n
           /\ \A k \in 1..(n - 1) : y[k] = p[k]
           /\ \A k \in 1..n : Upto(y, k - 1) = Upto(p, k - 1) /\ k \in 1..Len(y)
<1>1. /\ Len(p) \in Nat /\ Len(y) \in Nat /\ n <= Len(y) /\ n <= Len(p)
      /\ n \in 1..Len(y) /\ n \in Nat /\ n > 0
      /\ y[n] # p[n] /\ Upto(y, n - 1) = Upto(p, n - 1)
      /\ n - 1 \in 0..Len(p) /\ n - 1 \in 0..Len(y)
  BY DEF Leaves, Walk
<1>2. \A i \in 1..(n - 1) : y[i] = p[i]
  <2>1. \A i \in 1..(n - 1) : Upto(y, n - 1)[i] = y[i] /\ Upto(p, n - 1)[i] = p[i]
    BY <1>1, UptoIs
  <2> QED BY <1>1, <2>1
<1>3. ~IsPrefix(p, y) /\ ~IsPrefix(y, p)
  <2>1. n \in 1..Len(p) /\ n \in 1..Len(y)
    BY <1>1
  <2> QED BY <1>1, <2>1, PrefixIs
<1>4. ASSUME NEW k \in 1..Len(p), Leaves(p, y, k) PROVE k = n
  <2>1. /\ k <= Len(y) /\ y[k] # p[k] /\ Upto(y, k - 1) = Upto(p, k - 1)
        /\ k - 1 \in 0..Len(p) /\ k - 1 \in 0..Len(y) /\ k \in Nat
    BY <1>1, <1>4 DEF Leaves
  <2>2. \A i \in 1..(k - 1) : y[i] = p[i]
    <3>1. \A i \in 1..(k - 1) : Upto(y, k - 1)[i] = y[i] /\ Upto(p, k - 1)[i] = p[i]
      BY <2>1, UptoIs
    <3> QED BY <2>1, <3>1
  <2>3. ~(k < n)
    <3>1. k < n => k \in 1..(n - 1)
      BY <1>1
    <3> QED BY <1>2, <2>1, <3>1
  <2>4. ~(n < k)
    <3>1. n < k => n \in 1..(k - 1)
      BY <1>1
    <3> QED BY <1>1, <2>2, <3>1
  <2> QED BY <1>1, <2>3, <2>4
<1>5. ASSUME NEW k \in 1..Len(p) PROVE IsStrictPrefix(Upto(p, k - 1), y) <=> k <= n
  <2>1. k - 1 \in 0..Len(p) /\ k \in Nat
    BY <1>1
  <2>2. /\ Upto(p, k - 1) \in Walk /\ Len(Upto(p, k - 1)) = k - 1
        /\ \A i \in 1..(k - 1) : Upto(p, k - 1)[i] = p[i]
    BY <2>1, UptoIs
  <2> DEFINE u == Upto(p, k - 1)
  <2> HIDE DEF u
  <2>3. IsStrictPrefix(u, y) <=> Len(u) <= Len(y) /\ (\A i \in 1..Len(u) : u[i] = y[i]) /\ Len(u) < Len(y)
    BY <2>2, PrefixIs DEF u
  <2>4. ASSUME k <= n PROVE IsStrictPrefix(u, y)
    <3>1. \A i \in 1..Len(u) : u[i] = y[i]
      <4>1. \A i \in 1..(k - 1) : i \in 1..(n - 1)
        BY <1>1, <2>4
      <4> QED BY <1>2, <2>2, <4>1 DEF u
    <3>2. Len(u) < Len(y) /\ Len(u) <= Len(y)
      BY <1>1, <2>1, <2>2, <2>4 DEF u
    <3> QED BY <2>3, <3>1, <3>2
  <2>5. ASSUME IsStrictPrefix(u, y) PROVE k <= n
    <3> SUFFICES ASSUME ~(k <= n) PROVE FALSE
      OBVIOUS
    <3>1. n \in 1..(k - 1)
      BY <1>1
    <3>2. u[n] = p[n] /\ u[n] = y[n]
      BY <2>2, <2>3, <2>5, <3>1 DEF u
    <3> QED BY <1>1, <3>2
  <2> QED BY <2>4, <2>5 DEF u
<1>6. ASSUME NEW k \in 1..n PROVE Upto(y, k - 1) = Upto(p, k - 1) /\ k \in 1..Len(y)
  <2>1. k - 1 \in 0..Len(p) /\ k - 1 \in 0..Len(y) /\ k \in 1..Len(y) /\ k - 1 \in Nat
        /\ k \in 1..Len(p) /\ k <= n
    BY <1>1
  <2>2. IsStrictPrefix(Upto(p, k - 1), y)
    BY <1>5, <2>1
  <2>3. Upto(p, k - 1) \in Walk /\ Len(Upto(p, k - 1)) = k - 1
    BY <2>1, UptoIs
  <2>4. Upto(y, k - 1) = Upto(p, k - 1)
    BY <2>2, <2>3, PrefixIs
  <2> QED BY <2>1, <2>4
<1> QED BY <1>2, <1>3, <1>4, <1>5, <1>6

LEMMA PaddingIs ==
    ASSUME NEW p \in Path
    PROVE  /\ Padding(p) \subseteq Path
           /\ \A y \in Padding(p) : \E n \in 1..Len(p) : Leaves(p, y, n)
           /\ \A y \in Walk, n \in 1..Len(p) : Leaves(p, y, n) =>
                (y \in Padding(p) <=> Len(y) = n /\ p[n] \in Index /\ y[n] \in Index /\ y[n] <= p[n])
<1>1. p \in Walk /\ Len(p) \in Nat /\ Len(p) <= MaxDepth /\ MaxIndex \in Nat /\ MaxDepth \in Nat
  BY PathIs, MappingAssumption, TreeAssumption DEF Walk
<1> DEFINE At1(n, i) == Append(Upto(p, n - 1), i)
<1>2. \A y : y \in Padding(p) <=> \E n \in 1..Len(p) : p[n] \in Index /\ \E i \in 0..(p[n] - 1) : y = At1(n, i)
  <2>1. Padding(p) = UNION {{At1(n, i) : i \in 0..(p[n] - 1)} : n \in {k \in 1..Len(p) : p[k] \in Index}}
    BY DEF Padding, Upto
  <2> DEFINE row(n) == {At1(n, i) : i \in 0..(p[n] - 1)}
             K == {k \in 1..Len(p) : p[k] \in Index}
  <2>2. \A y, n : y \in row(n) <=> \E i \in 0..(p[n] - 1) : y = At1(n, i)
    <3> HIDE DEF At1
    <3> QED OBVIOUS
  <2>3. Padding(p) = UNION {row(n) : n \in K}
    BY <2>1
  <2>4. \A n : n \in K <=> n \in 1..Len(p) /\ p[n] \in Index
    OBVIOUS
  <2> HIDE DEF row, K
  <2>5. \A y : y \in Padding(p) <=> \E n \in K : y \in row(n)
    BY <2>3
  <2> HIDE DEF At1
  <2>6. ASSUME NEW y PROVE y \in Padding(p) <=>
            \E n \in 1..Len(p) : p[n] \in Index /\ \E i \in 0..(p[n] - 1) : y = At1(n, i)
    BY <2>2, <2>4, <2>5
  <2> QED BY <2>6
<1>3. ASSUME NEW n \in 1..Len(p), p[n] \in Index, NEW i \in 0..(p[n] - 1)
      PROVE  /\ At1(n, i) \in Path /\ Len(At1(n, i)) = n /\ At1(n, i)[n] = i /\ i \in Index
             /\ Leaves(p, At1(n, i), n)
  <2>1. n - 1 \in 0..Len(p) /\ (n - 1) + 1 = n /\ n <= MaxDepth /\ n - 1 \in 0..(n - 1)
    BY <1>1
  <2>2. i \in Index /\ i \in Step /\ i # p[n]
    BY <1>1, <1>3 DEF Index, Step
  <2>3. Upto(p, n - 1) \in Walk /\ Len(Upto(p, n - 1)) = n - 1
    BY <1>1, <2>1, UptoIs
  <2> DEFINE u == Upto(p, n - 1)
             y == Append(u, i)
  <2> HIDE DEF u
  <2>4. /\ y \in Walk /\ Len(y) = (n - 1) + 1 /\ y[(n - 1) + 1] = i
        /\ Upto(y, n - 1) = Upto(u, n - 1)
    <3>1. /\ y \in Walk /\ Len(y) = Len(u) + 1 /\ y[Len(u) + 1] = i
          /\ \A m \in 0..Len(u) : Upto(y, m) = Upto(u, m)
      BY <2>2, <2>3, AppendIs DEF u
    <3> QED BY <2>1, <2>3, <3>1 DEF u
  <2>5. Upto(u, n - 1) = u
    BY <2>1, <2>3, UptoIs DEF u
  <2> HIDE DEF y
  <2>6. y \in Path
    BY <2>1, <2>4, PathIs
  <2>7. Leaves(p, y, n)
    BY <2>1, <2>2, <2>4, <2>5 DEF Leaves, u
  <2> QED BY <2>1, <2>2, <2>4, <2>6, <2>7 DEF y, u
<1> HIDE DEF At1
<1>4. Padding(p) \subseteq Path
  BY <1>2, <1>3
<1>5. \A y \in Padding(p) : \E n \in 1..Len(p) : Leaves(p, y, n)
  BY <1>2, <1>3
<1>6. ASSUME NEW y \in Walk, NEW n \in 1..Len(p), Leaves(p, y, n), y \in Padding(p)
      PROVE  Len(y) = n /\ p[n] \in Index /\ y[n] \in Index /\ y[n] <= p[n]
  <2>1. PICK k \in 1..Len(p) : p[k] \in Index /\ \E i \in 0..(p[k] - 1) : y = At1(k, i)
    BY <1>2, <1>6
  <2>2. PICK i \in 0..(p[k] - 1) : y = At1(k, i)
    BY <2>1
  <2>3. Len(y) = k /\ y[k] = i /\ i \in Index /\ Leaves(p, y, k)
    BY <1>3, <2>1, <2>2
  <2>4. k = n
    BY <1>1, <1>6, <2>3, LeavesIs
  <2>5. i <= p[k]
    BY <1>1, <2>1 DEF Index
  <2> QED BY <2>1, <2>3, <2>4, <2>5
<1>7. ASSUME NEW y \in Walk, NEW n \in 1..Len(p), Leaves(p, y, n),
             Len(y) = n, p[n] \in Index, y[n] \in Index, y[n] <= p[n]
      PROVE  y \in Padding(p)
  <2>1. y[n] \in 0..(p[n] - 1)
    BY <1>1, <1>7 DEF Leaves, Index
  <2>2. n \in 0..Len(y) /\ n > 0 /\ Upto(y, n - 1) = Upto(p, n - 1) /\ n = Len(y)
    BY <1>1, <1>7 DEF Leaves
  <2>3. y = Append(Upto(y, n - 1), y[n])
    BY <2>2, UptoIs
  <2> QED BY <1>2, <1>7, <2>1, <2>2, <2>3 DEF At1
<1> QED BY <1>4, <1>5, <1>6, <1>7

\* Beside the way, a document keeps what its own nodes let it keep.
LEMMA ClearedIs ==
    ASSUME NEW h, Shaped(h), NEW root, IsValue(h, root), NEW p \in Path, NEW y \in Path,
           NEW n \in 1..Len(p), Leaves(p, y, n)
    PROVE  y \in DOMAIN Cleared(Document(h, root), p) <=>
               Get(h, root, y) # Missing /\ Holds(h, Old(h, root, p, n), p[n])
<1> DEFINE d == Document(h, root)
<1>1. p \in Walk /\ y \in Walk /\ Len(p) \in Nat /\ Len(p) <= MaxDepth /\ Len(y) \in Nat
      /\ n <= Len(y) /\ n \in Nat /\ MaxDepth \in Nat
  BY PathIs, MappingAssumption, TreeAssumption DEF Walk, Leaves
<1>2. /\ DOMAIN d = {x \in Path : Get(h, root, x) # Missing}
      /\ \A x \in DOMAIN d : d[x] = Written(h, Get(h, root, x))
  BY DocumentIs
<1>3. y \in DOMAIN Cleared(d, p) <=> y \in DOMAIN d /\ \A k \in 1..Len(p) :
          IsStrictPrefix(Upto(p, k - 1), y) => d[Upto(p, k - 1)] = NodeFor(p[k])
  BY DEF Cleared, Upto
<1> HIDE DEF d
<1>4. \A k \in 1..Len(p) : IsStrictPrefix(Upto(p, k - 1), y) <=> k <= n
  BY <1>1, LeavesIs
<1>5. /\ \A k \in 1..(n - 1) : y[k] = p[k]
      /\ \A k \in 1..n : Upto(y, k - 1) = Upto(p, k - 1) /\ k \in 1..Len(y)
  BY <1>1, LeavesIs
<1>6. ASSUME NEW k \in 1..Len(p), Get(h, root, Upto(p, k - 1)) # Missing
      PROVE  d[Upto(p, k - 1)] = NodeFor(p[k]) <=> Holds(h, Get(h, root, Upto(p, k - 1)), p[k])
  <2>1. k - 1 \in 0..Len(p) /\ k \in 0..Len(p) /\ k > 0 /\ k - 1 <= MaxDepth
    BY <1>1
  <2>2. Upto(p, k - 1) \in Walk /\ Len(Upto(p, k - 1)) = k - 1 /\ p[k] \in Step
    BY <1>1, <2>1, UptoIs
  <2>3. Upto(p, k - 1) \in Path
    BY <2>1, <2>2, PathIs
  <2>4. d[Upto(p, k - 1)] = Written(h, Get(h, root, Upto(p, k - 1)))
    BY <1>2, <1>6, <2>3
  <2>5. IsValue(h, Get(h, root, Upto(p, k - 1)))
    BY <1>6, <2>2, GetValue
  <2> QED BY <2>2, <2>4, <2>5, WrittenIs
<1>7. ASSUME Get(h, root, y) # Missing, NEW k \in 1..n
      PROVE  /\ k \in 1..Len(p) /\ Holds(h, Get(h, root, Upto(p, k - 1)), y[k])
             /\ Get(h, root, Upto(p, k - 1)) # Missing
  <2>1. k \in 1..Len(y) /\ Upto(y, k - 1) = Upto(p, k - 1)
    BY <1>5
  <2>2. Holds(h, Get(h, root, Upto(p, k - 1)), y[k])
    BY <1>1, <1>7, <2>1, GetThrough
  <2>3. Get(h, root, Upto(p, k - 1)) # Missing
    BY <2>2, Kinds DEF Holds, Shaped
  <2>4. k \in 1..Len(p)
    BY <1>1
  <2> QED BY <2>2, <2>3, <2>4
<1>8. n \in 1..n
  BY <1>1
<1>9. ASSUME y \in DOMAIN Cleared(d, p)
      PROVE  Get(h, root, y) # Missing /\ Holds(h, Old(h, root, p, n), p[n])
  <2>1. Get(h, root, y) # Missing
    BY <1>2, <1>3, <1>9
  <2>2. d[Upto(p, n - 1)] = NodeFor(p[n])
    BY <1>1, <1>3, <1>4, <1>9
  <2> QED BY <1>6, <1>7, <1>8, <2>1, <2>2 DEF Old
<1>10. ASSUME Get(h, root, y) # Missing, Holds(h, Old(h, root, p, n), p[n])
       PROVE  y \in DOMAIN Cleared(d, p)
  <2>1. y \in DOMAIN d
    BY <1>2, <1>10
  <2> SUFFICES ASSUME NEW k \in 1..Len(p), IsStrictPrefix(Upto(p, k - 1), y)
               PROVE  d[Upto(p, k - 1)] = NodeFor(p[k])
    BY <1>3, <2>1
  <2>2. k \in 1..n
    BY <1>1, <1>4
  <2>3. Holds(h, Get(h, root, Upto(p, k - 1)), y[k]) /\ Get(h, root, Upto(p, k - 1)) # Missing
    BY <1>7, <1>10, <2>2
  <2>4. Holds(h, Get(h, root, Upto(p, k - 1)), p[k])
    <3>1. CASE k = n
      BY <1>10, <3>1 DEF Old
    <3>2. CASE k # n
      <4>1. k \in 1..(n - 1)
        BY <1>1, <2>2, <3>2
      <4> QED BY <1>5, <2>3, <4>1
    <3> QED BY <3>1, <3>2
  <2> QED BY <1>6, <2>3, <2>4
<1> QED BY <1>9, <1>10 DEF d

\* What a graft has at p and below, on the way to p, and beside it.
LEMMA GraftIs ==
    ASSUME NEW t, DOMAIN t \subseteq Path, NEW p \in Path, NEW sub, DOMAIN sub \subseteq Walk
    PROVE  LET d == Graft(t, p, sub)
           IN  /\ DOMAIN d \subseteq Path
               /\ d = [x \in DOMAIN d |-> d[x]]
               /\ \A z \in Walk : p \o z \in Path =>
                     /\ p \o z \in DOMAIN d <=> z \in DOMAIN sub
                     /\ z \in DOMAIN sub => d[p \o z] = sub[z]
               /\ \A n \in 1..Len(p) : /\ Upto(p, n - 1) \in DOMAIN d
                                       /\ d[Upto(p, n - 1)] = NodeFor(p[n])
               /\ \A y \in Path, n \in 1..Len(p) : Leaves(p, y, n) =>
                     /\ y \in DOMAIN d <=> y \in Padding(p) \cup DOMAIN Cleared(t, p)
                     /\ y \in DOMAIN d => d[y] = IF y \in DOMAIN Cleared(t, p)
                                                 THEN t[y] ELSE Null
<1> DEFINE old == Cleared(t, p)
           d == Graft(t, p, sub)
           D == Steps(p) \cup Padding(p) \cup {y \in DOMAIN old : ~IsPrefix(p, y)}
                    \cup ({p \o y : y \in DOMAIN sub} \cap Path)
           val(x) == CASE IsPrefix(p, x)  -> sub[SubSeq(x, Len(p) + 1, Len(x))]
                       [] x \in Steps(p)  -> NodeFor(p[Len(x) + 1])
                       [] OTHER           -> IF x \in DOMAIN old THEN old[x] ELSE Null
<1>1. p \in Walk /\ Len(p) \in Nat /\ Len(p) <= MaxDepth /\ MaxDepth \in Nat
  BY PathIs, MappingAssumption, TreeAssumption DEF Walk
<1>2. d = [x \in D |-> val(x)]
  BY DEF Graft
<1>3. DOMAIN old \subseteq DOMAIN t /\ \A y \in DOMAIN old : old[y] = t[y]
  BY DEF Cleared
<1> HIDE DEF old, d
<1>4. Padding(p) \subseteq Path /\ \A y \in Padding(p) : \E n \in 1..Len(p) : Leaves(p, y, n)
  BY PaddingIs
<1>5. \A n \in 1..Len(p) : /\ Upto(p, n - 1) \in Path /\ Upto(p, n - 1) \in Walk
                           /\ Upto(p, n - 1) \in Steps(p) /\ Len(Upto(p, n - 1)) = n - 1
  <2> SUFFICES ASSUME NEW n \in 1..Len(p)
               PROVE  /\ Upto(p, n - 1) \in Path /\ Upto(p, n - 1) \in Walk
                      /\ Upto(p, n - 1) \in Steps(p) /\ Len(Upto(p, n - 1)) = n - 1
    OBVIOUS
  <2>1. n - 1 \in 0..Len(p) /\ n - 1 <= MaxDepth
    BY <1>1
  <2>2. Upto(p, n - 1) \in Walk /\ Len(Upto(p, n - 1)) = n - 1
    BY <1>1, <2>1, UptoIs
  <2>3. Upto(p, n - 1) \in Path
    BY <2>1, <2>2, PathIs
  <2> QED BY <1>1, <2>2, <2>3, StepsIs
<1>6. Steps(p) \subseteq Path
  BY <1>1, <1>5, StepsIs
<1>7. DOMAIN d = D /\ \A x \in D : d[x] = val(x)
  <2> HIDE DEF D, val
  <2> QED BY <1>2
<1>8. DOMAIN d \subseteq Path /\ d = [x \in DOMAIN d |-> d[x]]
  <2>1. D \subseteq Path
    BY <1>3, <1>4, <1>6
  <2>2. d = [x \in DOMAIN d |-> d[x]]
    <3> HIDE DEF D, val
    <3> QED BY <1>2
  <2> QED BY <1>7, <2>1, <2>2
<1>9. ASSUME NEW y \in Walk, IsPrefix(p, y)
      PROVE  y \notin Steps(p) /\ y \notin Padding(p)
  <2>1. y \notin Steps(p)
    BY <1>1, <1>9, StepsIs, PrefixIs DEF Walk
  <2>2. ASSUME y \in Padding(p) PROVE FALSE
    <3>1. PICK n \in 1..Len(p) : Leaves(p, y, n)
      BY <1>4, <2>2
    <3> QED BY <1>1, <1>9, <3>1, LeavesIs
  <2> QED BY <2>1, <2>2
<1>10. ASSUME NEW z \in Walk, p \o z \in Path
       PROVE  /\ p \o z \in DOMAIN d <=> z \in DOMAIN sub
              /\ z \in DOMAIN sub => d[p \o z] = sub[z]
  <2>1. p \o z \in Walk /\ IsPrefix(p, p \o z) /\ SubSeq(p \o z, Len(p) + 1, Len(p \o z)) = z
    BY <1>1, ConcatIs
  <2> DEFINE y == p \o z
  <2> HIDE DEF y
  <2>2. y \notin Steps(p) /\ y \notin Padding(p) /\ IsPrefix(p, y)
    BY <1>9, <2>1 DEF y
  <2>3. y \in D <=> \E x \in DOMAIN sub : y = p \o x
    BY <2>2, <1>10 DEF y
  <2>4. z \in DOMAIN sub => y \in D
    BY <2>3 DEF y
  <2>5. ASSUME NEW x \in DOMAIN sub, y = p \o x PROVE x = z
    <3>1. SubSeq(p \o x, Len(p) + 1, Len(p \o x)) = z
      BY <2>1, <2>5 DEF y
    <3>2. SubSeq(p \o x, Len(p) + 1, Len(p \o x)) = x
      <4>1. x \in Walk
        OBVIOUS
      <4> QED BY <1>1, <4>1, ConcatIs
    <3> QED BY <3>1, <3>2
  <2>6. y \in D => z \in DOMAIN sub
    BY <2>3, <2>5
  <2>7. val(y) = sub[z]
    BY <2>1, <2>2 DEF y
  <2> HIDE DEF D, val
  <2> QED BY <1>7, <2>4, <2>6, <2>7 DEF y
<1>11. ASSUME NEW n \in 1..Len(p)
       PROVE  Upto(p, n - 1) \in DOMAIN d /\ d[Upto(p, n - 1)] = NodeFor(p[n])
  <2> DEFINE y == Upto(p, n - 1)
  <2>1. y \in D /\ y \in Steps(p) /\ y \in Walk /\ Len(y) + 1 = n
    BY <1>1, <1>5
  <2>2. ~IsPrefix(p, y)
    <3> HIDE DEF y
    <3> QED BY <1>9, <2>1
  <2> HIDE DEF y
  <2>3. val(y) = NodeFor(p[n])
    BY <2>1, <2>2
  <2> HIDE DEF D, val
  <2> QED BY <1>7, <2>1, <2>3 DEF y
<1>12. ASSUME NEW y \in Path, NEW n \in 1..Len(p), Leaves(p, y, n)
       PROVE  /\ y \in DOMAIN d <=> y \in Padding(p) \cup DOMAIN old
              /\ y \in DOMAIN d => d[y] = IF y \in DOMAIN old THEN t[y] ELSE Null
  <2>1. y \in Walk
    BY PathIs
  <2>2. ~IsPrefix(p, y) /\ y \notin Steps(p)
    BY <1>1, <1>12, <2>1, LeavesIs, StepsIs, PrefixIs
  <2>3. \A x \in DOMAIN sub : y # p \o x
    <3>1. \A x \in Walk : IsPrefix(p, p \o x)
      BY <1>1, ConcatIs
    <3> QED BY <2>2, <3>1
  <2>4. y \in D <=> y \in Padding(p) \cup DOMAIN old
    BY <2>2, <2>3
  <2>5. val(y) = IF y \in DOMAIN old THEN t[y] ELSE Null
    BY <1>3, <2>2
  <2> HIDE DEF D, val
  <2> QED BY <1>7, <2>4, <2>5
<1> QED BY <1>8, <1>10, <1>11, <1>12 DEF d, old

\* A step of Set on documents.
LEMMA DocumentSet ==
    ASSUME NEW h, NEW q, NEW root, NEW p, CanSet(h, q, root, p), Unshared(h, root, p),
           NEW x, IsValue(h, x), Apart(h, root, p, x)
    PROVE  LET s == SetAt(h, q, root, p, x)
           IN  Document(s.heap, s.root) = Graft(Document(h, root), p, Document(h, x))
<1> DEFINE s == SetAt(h, q, root, p, x)
           g == s.heap
           r == s.root
           e == Document(h, x)
           old == Document(h, root)
           D == Document(g, r)
           G == Graft(old, p, e)
<1>1. p \in Walk /\ p \in Path /\ Len(p) \in Nat /\ Shaped(h) /\ IsValue(h, root)
  <2>1. p \in Path /\ Shaped(h) /\ IsValue(h, root) /\ p \in Walk
    BY PathIs DEF CanSet
  <2> QED BY <2>1 DEF Walk
<1>2. /\ \A n \in 1..Len(p) : Get(g, r, Upto(p, n - 1)) = Box(h, q, root, p, n)
      /\ \A y \in Walk : Get(g, r, p \o y) = Get(h, x, y)
      /\ \A y \in Walk, n \in 1..Len(p) : Leaves(p, y, n) => Get(g, r, y) = Beside(h, root, p, y, n)
  BY SetGet
<1>3. IsSet(g, h, q, root, p, x)
  BY SetView
<1> HIDE DEF s
<1>4. Shaped(g) /\ Extends(h, g)
  BY <1>3 DEF IsSet
<1>5. /\ DOMAIN D = {y \in Path : Get(g, r, y) # Missing}
      /\ \A y \in DOMAIN D : D[y] = Written(g, Get(g, r, y))
      /\ D = [y \in DOMAIN D |-> D[y]]
  BY DocumentIs
<1>6. /\ DOMAIN e = {y \in Path : Get(h, x, y) # Missing}
      /\ \A y \in DOMAIN e : e[y] = Written(h, Get(h, x, y))
  BY DocumentIs
<1>7. /\ DOMAIN old = {y \in Path : Get(h, root, y) # Missing}
      /\ \A y \in DOMAIN old : old[y] = Written(h, Get(h, root, y))
  BY DocumentIs
<1> HIDE DEF D, e, old
<1>8. /\ DOMAIN G \subseteq Path
      /\ G = [y \in DOMAIN G |-> G[y]]
      /\ \A z \in Walk : p \o z \in Path =>
            (p \o z \in DOMAIN G <=> z \in DOMAIN e) /\ (z \in DOMAIN e => G[p \o z] = e[z])
      /\ \A n \in 1..Len(p) : Upto(p, n - 1) \in DOMAIN G /\ G[Upto(p, n - 1)] = NodeFor(p[n])
      /\ \A y \in Path, n \in 1..Len(p) : Leaves(p, y, n) =>
            /\ y \in DOMAIN G <=> y \in Padding(p) \cup DOMAIN Cleared(old, p)
            /\ y \in DOMAIN G => G[y] = IF y \in DOMAIN Cleared(old, p) THEN old[y] ELSE Null
  <2>1. DOMAIN old \subseteq Path /\ DOMAIN e \subseteq Walk
    BY <1>6, <1>7, PathIs
  <2> QED BY <1>1, <2>1, GraftIs
<1> HIDE DEF G
<1>9. ASSUME NEW y \in Path
      PROVE  (y \in DOMAIN D <=> y \in DOMAIN G) /\ (y \in DOMAIN D => D[y] = G[y])
  <2>0. y \in Walk /\ Len(y) \in Nat /\ Len(y) <= MaxDepth
    BY PathIs DEF Walk
  <2>1. CASE IsPrefix(p, y)
    <3> DEFINE z == After(p, y)
    <3>1. z \in Walk /\ y = p \o z /\ Len(z) = Len(y) - Len(p)
      BY <1>1, <2>0, <2>1, AfterIs
    <3> HIDE DEF z
    <3>2. z \in Path
      <4>1. Len(z) <= MaxDepth
        BY <1>1, <2>0, <3>1, MappingAssumption, TreeAssumption
      <4> QED BY <3>1, <4>1, PathIs
    <3>3. Get(g, r, y) = Get(h, x, z)
      BY <1>2, <3>1
    <3>4. y \in DOMAIN D <=> z \in DOMAIN e
      BY <1>5, <1>6, <3>2, <3>3
    <3>5. (y \in DOMAIN G <=> z \in DOMAIN e) /\ (z \in DOMAIN e => G[y] = e[z])
      BY <1>8, <3>1
    <3>6. z \in DOMAIN e => D[y] = e[z]
      <4> SUFFICES ASSUME z \in DOMAIN e PROVE D[y] = e[z]
        OBVIOUS
      <4>1. IsValue(h, Get(h, x, z))
        BY <1>1, <1>6, <3>1, GetValue
      <4>2. Written(g, Get(h, x, z)) = Written(h, Get(h, x, z))
        BY <1>1, <1>4, <4>1, WrittenStays
      <4> QED BY <1>5, <1>6, <3>3, <3>4, <4>2
    <3> QED BY <3>4, <3>5, <3>6
  <2>2. CASE IsStrictPrefix(y, p)
    <3>1. PICK n \in 1..Len(p) : y = Upto(p, n - 1)
      BY <1>1, <2>0, <2>2, StepsIs
    <3>2. Get(g, r, y) = Box(h, q, root, p, n) /\ IsValue(g, Box(h, q, root, p, n))
          /\ Holds(g, Box(h, q, root, p, n), p[n])
      BY <1>2, <1>3, <3>1 DEF IsSet
    <3>3. p[n] \in Step
      <4>1. n \in 0..Len(p) /\ n > 0
        BY <1>1
      <4> QED BY <1>1, <4>1, UptoIs
    <3>4. y \in DOMAIN D /\ D[y] = Written(g, Box(h, q, root, p, n))
      <4>1. Box(h, q, root, p, n) # Missing
        BY <1>4, <3>2, NotMissing DEF Shaped
      <4> QED BY <1>5, <3>2, <4>1
    <3>5. D[y] = NodeFor(p[n])
      BY <1>4, <3>2, <3>3, <3>4, WrittenIs
    <3> QED BY <1>8, <3>1, <3>4, <3>5
  <2>3. CASE ~IsPrefix(p, y) /\ ~IsStrictPrefix(y, p)
    <3>1. PICK n \in 1..Len(p) : Leaves(p, y, n)
      BY <1>1, <2>0, <2>3, PartAt DEF Leaves
    <3>2. Get(g, r, y) = Beside(h, root, p, y, n)
      BY <1>2, <2>0, <3>1
    <3>3. y \in DOMAIN Cleared(old, p) <=>
             Get(h, root, y) # Missing /\ Holds(h, Old(h, root, p, n), p[n])
      BY <1>1, <3>1, ClearedIs DEF old
    <3>4. y \in Padding(p) <=> Len(y) = n /\ p[n] \in Index /\ y[n] \in Index /\ y[n] <= p[n]
      BY <1>1, <2>0, <3>1, PaddingIs
    <3>5. CASE y \in DOMAIN Cleared(old, p)
      <4>1. Get(g, r, y) = Get(h, root, y) /\ Get(h, root, y) # Missing
        BY <3>2, <3>3, <3>5 DEF Beside
      <4>2. y \in DOMAIN D /\ D[y] = Written(g, Get(h, root, y))
        BY <1>5, <4>1
      <4>3. old[y] = Written(h, Get(h, root, y))
        BY <1>7, <4>1
      <4>4. IsValue(h, Get(h, root, y))
        BY <1>1, <2>0, <4>1, GetValue
      <4>5. Written(g, Get(h, root, y)) = Written(h, Get(h, root, y))
        BY <1>1, <1>4, <4>4, WrittenStays
      <4> QED BY <1>8, <3>1, <3>5, <4>2, <4>3, <4>5
    <3>6. CASE y \notin DOMAIN Cleared(old, p)
      <4>1. Get(g, r, y) = IF y \in Padding(p) THEN Null ELSE Missing
        BY <3>2, <3>3, <3>4, <3>6 DEF Beside
      <4>2. Null # Missing /\ Written(g, Null) = Null
        <5>1. Null # Missing
          BY MappingAssumption, TreeAssumption
        <5> QED BY <1>4, <5>1, NullIs, WrittenIs
      <4>3. y \in DOMAIN D <=> y \in Padding(p)
        BY <1>5, <4>1, <4>2
      <4>4. y \in Padding(p) => D[y] = Null
        BY <1>5, <4>1, <4>2, <4>3
      <4> QED BY <1>8, <3>1, <3>6, <4>3, <4>4
    <3> QED BY <3>5, <3>6
  <2> QED BY <2>1, <2>2, <2>3
<1>10. DOMAIN D = DOMAIN G
  <2>1. DOMAIN D \subseteq Path /\ DOMAIN G \subseteq Path
    BY <1>5, <1>8
  <2> QED BY <1>9, <2>1
<1>11. \A y \in DOMAIN D : D[y] = G[y]
  <2>1. DOMAIN D \subseteq Path
    BY <1>5
  <2> QED BY <1>9, <2>1
<1>12. D = G
  <2>1. D = [y \in DOMAIN D |-> D[y]] /\ G = [y \in DOMAIN G |-> G[y]]
    BY <1>5, <1>8
  <2> QED BY <1>10, <1>11, <2>1
<1> QED BY <1>12 DEF D, G, e, old, s

LEMMA DocumentRoot ==
    ASSUME NEW h, NEW root, NEW x
    PROVE  Document(h, x) = Graft(Document(h, root), <<>>, Document(h, x))
<1> DEFINE e == Document(h, x)
           t == Document(h, root)
           G == Graft(t, <<>>, e)
<1>1. DOMAIN e \subseteq Path /\ DOMAIN t \subseteq Path /\ e = [y \in DOMAIN e |-> e[y]]
  BY DocumentIs
<1> HIDE DEF e, t
<1>2. Path \subseteq Walk /\ <<>> \in Walk /\ <<>> \in Path
  BY PathIs, MappingAssumption, TreeAssumption DEF Walk
<1>3. /\ DOMAIN G \subseteq Path /\ G = [y \in DOMAIN G |-> G[y]]
      /\ \A z \in Walk : <<>> \o z \in Path =>
            (<<>> \o z \in DOMAIN G <=> z \in DOMAIN e) /\ (z \in DOMAIN e => G[<<>> \o z] = e[z])
  <2>1. DOMAIN e \subseteq Walk
    BY <1>1, <1>2
  <2> DEFINE p == <<>>
  <2>2. p \in Path
    BY <1>2
  <2> HIDE DEF p
  <2>3. LET d == Graft(t, p, e)
        IN  /\ DOMAIN d \subseteq Path
            /\ d = [y \in DOMAIN d |-> d[y]]
            /\ \A z \in Walk : p \o z \in Path =>
                  (p \o z \in DOMAIN d <=> z \in DOMAIN e) /\ (z \in DOMAIN e => d[p \o z] = e[z])
    BY <1>1, <2>1, <2>2, GraftIs
  <2> QED BY <2>3 DEF p
<1> HIDE DEF G
<1>4. \A z \in Walk : <<>> \o z = z
  BY DEF Walk
<1>5. DOMAIN G = DOMAIN e
  BY <1>1, <1>2, <1>3, <1>4
<1>6. \A z \in DOMAIN e : G[z] = e[z]
  BY <1>1, <1>2, <1>3, <1>4
<1> QED BY <1>1, <1>3, <1>5, <1>6 DEF e, t, G

-----------------------------------------------------------------------------
(* Trees *)

LEMMA TreeStep ==
    ASSUME NEW t, IsTree(t), NEW x \in Walk, NEW s \in Step, Append(x, s) \in DOMAIN t
    PROVE  x \in DOMAIN t /\ t[x] = NodeFor(s) /\ s \in Members(t, x)
<1>1. Append(x, s) # <<>> /\ Front(Append(x, s)) = x /\ Last(Append(x, s)) = s
  BY AppendIs
<1>2. s \in Members(t, x)
  BY DEF Members, Step
<1> QED BY <1>1, <1>2 DEF IsTree

\* A tree has what is on the way to each of its places.
LEMMA TreeDown ==
    ASSUME NEW t, IsTree(t), NEW x \in DOMAIN t
    PROVE  /\ x \in Walk
           /\ \A n \in 0..Len(x) : /\ Upto(x, n) \in DOMAIN t
                                   /\ n < Len(x) => t[Upto(x, n)] = NodeFor(x[n + 1])
<1>1. x \in Walk /\ Len(x) \in Nat
  BY PathIs DEF IsTree, Walk
<1> DEFINE T == {n \in 0..Len(x) : Upto(x, n) \in DOMAIN t}
<1>2. Len(x) \in T
  BY <1>1, UptoIs
<1>3. ASSUME NEW n \in 0..(Len(x) - 1), n + 1 \in T
      PROVE  n \in T /\ t[Upto(x, n)] = NodeFor(x[n + 1])
  <2>1. n + 1 \in 0..Len(x) /\ n + 1 > 0 /\ (n + 1) - 1 = n /\ n \in 0..Len(x)
    BY <1>1
  <2>2. Upto(x, n + 1) = Append(Upto(x, n), x[n + 1]) /\ x[n + 1] \in Step /\ Upto(x, n) \in Walk
    BY <1>1, <2>1, UptoIs
  <2>3. Append(Upto(x, n), x[n + 1]) \in DOMAIN t
    BY <1>3, <2>2
  <2>4. Upto(x, n) \in DOMAIN t /\ t[Upto(x, n)] = NodeFor(x[n + 1])
    BY <2>2, <2>3, TreeStep
  <2> QED BY <2>1, <2>4
<1>4. 0..Len(x) \subseteq T
  <2>1. \A n \in 0..(Len(x) - 1) : n + 1 \in T => n \in T
    BY <1>3
  <2>2. 0 \in Int /\ Len(x) \in Int /\ 0 <= Len(x)
    BY <1>1
  <2> HIDE DEF T
  <2> QED BY <1>2, <2>1, <2>2, DownTo
<1>5. ASSUME NEW n \in 0..Len(x), n < Len(x) PROVE t[Upto(x, n)] = NodeFor(x[n + 1])
  <2>1. n \in 0..(Len(x) - 1) /\ n + 1 \in 0..Len(x)
    BY <1>1, <1>5
  <2> QED BY <1>3, <1>4, <2>1
<1> QED BY <1>1, <1>4, <1>5

LEMMA TreeMembers ==
    ASSUME NEW t, IsTree(t), NEW x \in DOMAIN t
    PROVE  /\ t[x] = Map => Members(t, x) \subseteq Key
           /\ t[x] = List => \E n \in Nat : /\ Cardinality(Members(t, x)) = n
                                           /\ Members(t, x) = 0..(n - 1)
           /\ t[x] \notin {Map, List} => Members(t, x) = {}
<1>1. x \in Walk
  BY TreeDown
<1>2. \A s \in Members(t, x) : s \in Step /\ t[x] = NodeFor(s)
  <2>1. \A s \in Members(t, x) : s \in Step /\ Append(x, s) \in DOMAIN t
    BY DEF Members, Step
  <2> QED BY <1>1, <2>1, TreeStep
<1>3. t[x] = Map => Members(t, x) \subseteq Key
  BY <1>2, StepsApart, MappingAssumption, TreeAssumption DEF NodeFor
<1>4. ASSUME t[x] = List
      PROVE  \E n \in Nat : Cardinality(Members(t, x)) = n /\ Members(t, x) = 0..(n - 1)
  <2>1. Members(t, x) \subseteq Index
    BY <1>2, <1>4, StepsApart, MappingAssumption, TreeAssumption DEF NodeFor
  <2>2. IsFiniteSet(Index)
    <3>1. 0 \in Int /\ MaxIndex \in Int
      BY MappingAssumption, TreeAssumption
    <3> QED BY <3>1, FS_Interval DEF Index
  <2>3. IsFiniteSet(Members(t, x))
    BY <2>1, <2>2, FS_Subset
  <2>4. Cardinality(Members(t, x)) \in Nat
    BY <2>3, FS_CardinalityType
  <2>5. Members(t, x) = 0..(Cardinality(Members(t, x)) - 1)
    BY <1>4 DEF IsTree
  <2> QED BY <2>4, <2>5
<1>5. t[x] \notin {Map, List} => Members(t, x) = {}
  BY <1>2 DEF NodeFor
<1> QED BY <1>3, <1>4, <1>5

LEMMA EmptyTree == IsTree(Empty) /\ DOMAIN Empty = {<<>>} /\ Empty[<<>>] = Map
<1>1. DOMAIN Empty = {<<>>} /\ Empty[<<>>] = Map
  BY DEF Empty
<1>2. <<>> \in Path
  BY PathIs, MappingAssumption, TreeAssumption DEF Walk
<1>3. Empty \in [DOMAIN Empty -> Scalar \cup {Map, List}]
  BY DEF Empty
<1>4. \A p \in DOMAIN Empty : Empty[p] # List
  BY <1>1, MappingAssumption, TreeAssumption
<1> QED BY <1>1, <1>2, <1>3, <1>4 DEF IsTree

-----------------------------------------------------------------------------
(* json.Unmarshal *)

LEMMA DecodeIs ==
    ASSUME NEW t, NEW o, NEW n
    PROVE  LET d == Decode(o, n, t)
           IN  /\ \A m : m \in DOMAIN d <=> \E x \in DOMAIN t : t[x] \in {Map, List} /\ m = <<t[x], o, n, x>>
               /\ \A m \in DOMAIN d :
                     /\ DOMAIN d[m] = IF m[1] = Map THEN Members(t, m[4])
                                      ELSE 0..(Capacity(Cardinality(Members(t, m[4]))) - 1)
                     /\ \A s \in DOMAIN d[m] :
                           d[m][s] = IF s \in Members(t, m[4])
                                     THEN ValueAt(o, n, t, Append(m[4], s)) ELSE Null
BY DEF Decode

\* The value decoded at a place of the tree.
LEMMA ValueAtIs ==
    ASSUME NEW t, IsTree(t), NEW o \in Request \cup {Config}, NEW n \in Int,
           NEW h, DOMAIN h \subseteq Name,
           \A m \in DOMAIN Decode(o, n, t) : m \in DOMAIN h /\ h[m] = Decode(o, n, t)[m],
           NEW x \in DOMAIN t
    PROVE  LET v == ValueAt(o, n, t, x)
           IN  /\ IsValue(h, v) /\ Written(h, v) = t[x]
               /\ IsMap(h, v) <=> t[x] = Map
               /\ IsSlice(h, v) <=> t[x] = List
               /\ IsNode(h, v) => Cells(v) = <<t[x], o, n, x>> /\ Cells(v) \in DOMAIN Decode(o, n, t)
               /\ t[x] = List => v[3] = Cardinality(Members(t, x))
<1> DEFINE d == Decode(o, n, t)
           v == ValueAt(o, n, t, x)
           m == <<t[x], o, n, x>>
<1>1. Map # List /\ Map \notin Scalar /\ List \notin Scalar /\ Slice # Map /\ Slice # List
  BY MappingAssumption, TreeAssumption
<1>2. t[x] \in Scalar \cup {Map, List}
  BY DEF IsTree
<1>3. /\ t[x] \in {Map, List} => m \in DOMAIN d
      /\ m \in DOMAIN d => DOMAIN d[m] = IF m[1] = Map THEN Members(t, x)
                                      ELSE 0..(Capacity(Cardinality(Members(t, x))) - 1)
  BY DecodeIs
<1>4. m \in DOMAIN d => m \in DOMAIN h /\ h[m] = d[m]
  OBVIOUS
<1> HIDE DEF d
<1>5. CASE t[x] = Map
  <2>1. v = m
    BY <1>1, <1>5 DEF ValueAt
  <2>2. IsMap(h, v) /\ v[1] = Map
    BY <1>3, <1>4, <1>5, <2>1 DEF IsMap
  <2>3. Cells(v) = v /\ ~IsSlice(h, v)
    BY <2>2, Kinds
  <2> QED BY <1>1, <1>3, <1>5, <2>1, <2>2, <2>3 DEF IsValue, Written, d
<1>6. CASE t[x] = List
  <2>1. v = <<Slice, m, Cardinality(Members(t, x))>>
    BY <1>1, <1>6 DEF ValueAt
  <2>2. PICK c \in Nat : Cardinality(Members(t, x)) = c
    BY <1>6, TreeMembers
  <2>3. m \in DOMAIN d /\ m \in DOMAIN h
    BY <1>3, <1>4, <1>6
  <2>4. IsSlice(h, v)
    BY <2>1, <2>2, <2>3 DEF IsSlice
  <2>5. ~IsMap(h, v) /\ Cells(v) = v[2]
    BY <2>4, Kinds
  <2>6. v[2] = m /\ v[3] = c /\ m[1] = List
    BY <1>6, <2>1, <2>2
  <2>7. 0..(c - 1) \subseteq DOMAIN h[m]
    <3>1. Capacity(c) \in Nat /\ Capacity(c) >= c
      BY CapacityIs
    <3>2. DOMAIN h[m] = 0..(Capacity(c) - 1)
      BY <1>1, <1>3, <1>4, <2>2, <2>3, <2>6
    <3> QED BY <3>1, <3>2
  <2>8. IsValue(h, v)
    BY <2>4, <2>6, <2>7 DEF IsValue
  <2> QED BY <1>1, <1>6, <2>2, <2>3, <2>4, <2>5, <2>6, <2>8 DEF Written, d
<1>7. CASE t[x] \notin {Map, List}
  <2>1. v = t[x] /\ v \in Scalar
    BY <1>2, <1>7 DEF ValueAt
  <2>2. ~IsMap(h, v) /\ ~IsSlice(h, v)
    BY <2>1, Kinds
  <2> QED BY <1>7, <2>1, <2>2 DEF IsNode, IsValue, Written
<1> QED BY <1>5, <1>6, <1>7

\* A decoded document is well formed and named after its owner and its place.
LEMMA DecodeShaped ==
    ASSUME NEW t, IsTree(t), NEW o \in Request \cup {Config}, NEW n \in Int
    PROVE  /\ Shaped(Decode(o, n, t))
           /\ \A m \in DOMAIN Decode(o, n, t) :
                 m[2] = o /\ m[3] = n /\ m[4] \in DOMAIN t /\ t[m[4]] = m[1] /\ m[1] \in {Map, List}
<1> DEFINE d == Decode(o, n, t)
<1>1. /\ \A m : m \in DOMAIN d <=> \E x \in DOMAIN t : t[x] \in {Map, List} /\ m = <<t[x], o, n, x>>
      /\ \A m \in DOMAIN d :
            /\ DOMAIN d[m] = IF m[1] = Map THEN Members(t, m[4])
                             ELSE 0..(Capacity(Cardinality(Members(t, m[4]))) - 1)
            /\ \A s \in DOMAIN d[m] :
                  d[m][s] = IF s \in Members(t, m[4])
                            THEN ValueAt(o, n, t, Append(m[4], s)) ELSE Null
  BY DecodeIs
<1>2. \A m \in DOMAIN d :
         /\ m[2] = o /\ m[3] = n /\ m[4] \in DOMAIN t /\ t[m[4]] = m[1] /\ m[1] \in {Map, List}
         /\ m \in Name
  <2> SUFFICES ASSUME NEW m \in DOMAIN d
               PROVE  /\ m[2] = o /\ m[3] = n /\ m[4] \in DOMAIN t /\ t[m[4]] = m[1] /\ m[1] \in {Map, List}
                      /\ m \in Name
    OBVIOUS
  <2>1. PICK x \in DOMAIN t : t[x] \in {Map, List} /\ m = <<t[x], o, n, x>>
    BY <1>1
  <2>2. x \in Path
    BY DEF IsTree
  <2> QED BY <2>1, <2>2 DEF Name
<1>3. \A x \in DOMAIN t : IsValue(d, ValueAt(o, n, t, x))
  BY <1>2, ValueAtIs
<1> HIDE DEF d
<1>4. ASSUME NEW m \in DOMAIN d
      PROVE  /\ m[1] = Map => DOMAIN d[m] \subseteq Key
             /\ m[1] # Map => \E c \in Nat : DOMAIN d[m] = 0..(c - 1)
             /\ \A s \in DOMAIN d[m] : IsValue(d, d[m][s])
  <2>1. m[4] \in DOMAIN t /\ t[m[4]] = m[1] /\ m[1] \in {Map, List}
    BY <1>2
  <2>2. m[1] = Map => DOMAIN d[m] \subseteq Key
    BY <1>1, <2>1, TreeMembers
  <2>3. m[1] # Map => \E c \in Nat : DOMAIN d[m] = 0..(c - 1)
    <3> SUFFICES ASSUME m[1] # Map PROVE \E c \in Nat : DOMAIN d[m] = 0..(c - 1)
      OBVIOUS
    <3>1. PICK c \in Nat : Cardinality(Members(t, m[4])) = c
      BY <2>1, TreeMembers
    <3>2. Capacity(c) \in Nat
      BY CapacityIs
    <3> QED BY <1>1, <3>1, <3>2
  <2>4. ASSUME NEW s \in DOMAIN d[m] PROVE IsValue(d, d[m][s])
    <3>1. CASE s \in Members(t, m[4])
      <4>1. Append(m[4], s) \in DOMAIN t
        BY <3>1 DEF Members
      <4> QED BY <1>1, <1>3, <3>1, <4>1
    <3>2. CASE s \notin Members(t, m[4])
      BY <1>1, <3>2, NullIs
    <3> QED BY <3>1, <3>2
  <2> QED BY <2>2, <2>3, <2>4
<1>5. Shaped(d)
  BY <1>2, <1>4 DEF Shaped
<1> QED BY <1>2, <1>5 DEF d

\* The value at a place of the tree, if it has that place.
Original(o, n, t, x) == IF x \in DOMAIN t THEN ValueAt(o, n, t, x) ELSE Missing

\* Walks through a decoded document find what the tree has.
LEMMA GetDecode ==
    ASSUME NEW t, IsTree(t), NEW o \in Request \cup {Config}, NEW n \in Int,
           NEW h, Shaped(h),
           \A m \in DOMAIN Decode(o, n, t) : m \in DOMAIN h /\ h[m] = Decode(o, n, t)[m]
    PROVE  \A x \in Walk : Get(h, ValueAt(o, n, t, <<>>), x) = Original(o, n, t, x)
<1> DEFINE root == ValueAt(o, n, t, <<>>)
           T == {x \in Walk : Get(h, root, x) = Original(o, n, t, x)}
<1>1. <<>> \in T
  <2>1. <<>> \in DOMAIN t /\ <<>> \in Walk
    BY DEF IsTree, Walk
  <2> QED BY <2>1, GetRoot DEF Original
<1>2. ASSUME NEW x \in Walk, NEW s \in Step, x \in T PROVE Append(x, s) \in T
  <2>0. Append(x, s) \in Walk
    BY AppendIs
  <2>1. Get(h, root, Append(x, s)) = Member(h, Original(o, n, t, x), s)
    BY <1>2, GetStep
  <2>2. DOMAIN h \subseteq Name
    BY DEF Shaped
  <2>3. CASE x \notin DOMAIN t
    <3>1. Append(x, s) \notin DOMAIN t
      BY <2>3, TreeStep
    <3>2. ~Holds(h, Missing, s)
      BY <2>2, Kinds DEF Holds
    <3> QED BY <2>0, <2>1, <2>3, <3>1, <3>2 DEF Original, Member
  <2>4. CASE x \in DOMAIN t
    <3> DEFINE v == ValueAt(o, n, t, x)
               d == Decode(o, n, t)
    <3>1. /\ IsValue(h, v)
          /\ IsMap(h, v) <=> t[x] = Map
          /\ IsSlice(h, v) <=> t[x] = List
          /\ IsNode(h, v) => Cells(v) = <<t[x], o, n, x>> /\ Cells(v) \in DOMAIN d
          /\ t[x] = List => v[3] = Cardinality(Members(t, x))
      BY <2>2, <2>4, ValueAtIs
    <3>2. \A m \in DOMAIN d :
            /\ DOMAIN d[m] = IF m[1] = Map THEN Members(t, m[4])
                             ELSE 0..(Capacity(Cardinality(Members(t, m[4]))) - 1)
            /\ \A i \in DOMAIN d[m] :
                  d[m][i] = IF i \in Members(t, m[4])
                            THEN ValueAt(o, n, t, Append(m[4], i)) ELSE Null
      BY DecodeIs
    <3>3. s \in Members(t, x) <=> Append(x, s) \in DOMAIN t
      BY DEF Members, Step
    <3>4. \A m \in DOMAIN d : m \in DOMAIN h /\ h[m] = d[m]
      OBVIOUS
    <3> HIDE DEF v, d
    <3>5. CASE s \in Members(t, x)
      <4>1. t[x] = NodeFor(s)
        BY <3>3, <3>5, TreeStep
      <4>2. Holds(h, v, s) /\ IsNode(h, v)
        BY <3>1, <4>1 DEF NodeFor, Holds, IsNode
      <4>3. Cells(v) = <<t[x], o, n, x>> /\ h[Cells(v)] = d[Cells(v)] /\ Cells(v) \in DOMAIN d
        BY <3>1, <3>4, <4>2
      <4>4. s \in Index => s < v[3] /\ s \in DOMAIN d[Cells(v)]
        <5> SUFFICES ASSUME s \in Index PROVE s < v[3] /\ s \in DOMAIN d[Cells(v)]
          OBVIOUS
        <5>1. t[x] = List
          BY <4>1 DEF NodeFor
        <5>2. PICK c \in Nat : Cardinality(Members(t, x)) = c /\ Members(t, x) = 0..(c - 1)
          BY <2>4, <5>1, TreeMembers
        <5>3. s \in 0..(c - 1) /\ v[3] = c
          BY <3>1, <3>5, <5>1, <5>2
        <5>4. Capacity(c) \in Nat /\ Capacity(c) >= c
          BY CapacityIs
        <5>5. DOMAIN d[Cells(v)] = 0..(Capacity(c) - 1)
          BY <3>2, <4>3, <5>1, <5>2, MappingAssumption, TreeAssumption
        <5> QED BY <5>3, <5>4, <5>5
      <4>5. s \notin Index => s \in DOMAIN d[Cells(v)]
        <5> SUFFICES ASSUME s \notin Index PROVE s \in DOMAIN d[Cells(v)]
          OBVIOUS
        <5>1. t[x] = Map
          BY <4>1 DEF NodeFor
        <5> QED BY <3>2, <3>5, <4>3, <5>1
      <4>6. Member(h, v, s) = d[Cells(v)][s]
        BY <4>2, <4>3, <4>4, <4>5 DEF Member
      <4>7. d[Cells(v)][s] = ValueAt(o, n, t, Append(x, s))
        BY <3>2, <3>5, <4>3, <4>4, <4>5
      <4> QED BY <2>0, <2>1, <2>4, <3>3, <3>5, <4>6, <4>7 DEF Original, v
    <3>6. CASE s \notin Members(t, x)
      <4>1. Member(h, v, s) = Missing
        <5> SUFFICES ASSUME Holds(h, v, s), s \in DOMAIN h[Cells(v)], s \in Index => s < v[3]
                     PROVE  FALSE
          BY DEF Member
        <5>1. IsNode(h, v)
          BY DEF Holds, IsNode
        <5>2. Cells(v) = <<t[x], o, n, x>> /\ h[Cells(v)] = d[Cells(v)] /\ Cells(v) \in DOMAIN d
          BY <3>1, <3>4, <5>1
        <5>3. CASE s \in Index
          <6>1. t[x] = List
            BY <3>1, <5>3 DEF Holds
          <6>2. PICK c \in Nat : Cardinality(Members(t, x)) = c /\ Members(t, x) = 0..(c - 1)
            BY <2>4, <6>1, TreeMembers
          <6> QED BY <3>1, <3>6, <5>3, <6>1, <6>2, MappingAssumption, TreeAssumption DEF Index
        <5>4. CASE s \notin Index
          <6>1. t[x] = Map
            BY <3>1, <5>4 DEF Holds
          <6> QED BY <3>2, <3>6, <5>2, <6>1
        <5> QED BY <5>3, <5>4
      <4> QED BY <2>0, <2>1, <2>4, <3>3, <3>6, <4>1 DEF Original, v
    <3> QED BY <3>5, <3>6
  <2> QED BY <2>3, <2>4
<1>3. Walk \subseteq T
  <2> HIDE DEF T
  <2> QED BY <1>1, <1>2, WalkInduction
<1> QED BY <1>3

\* What a node of a decoded document is, and that there is one.
LEMMA ValueAtPlace ==
    ASSUME NEW t, IsTree(t), NEW o \in Request \cup {Config}, NEW n \in Int,
           NEW h, DOMAIN h \subseteq Name, NEW x \in DOMAIN t
    PROVE  LET v == ValueAt(o, n, t, x)
           IN  /\ v # Missing
               /\ IsNode(h, v) => <<Cells(v)[2], Cells(v)[3], Cells(v)[4]>> = <<o, n, x>>
               /\ IsNode(h, v) => Cells(v) \in DOMAIN h
               /\ IsValue(h, v) => Written(h, v) = t[x]
<1> DEFINE v == ValueAt(o, n, t, x)
           m == <<t[x], o, n, x>>
<1>1. Map # List /\ Map \notin Scalar /\ List \notin Scalar /\ Slice # Map /\ Slice # List
      /\ Missing \notin Scalar /\ Missing \notin Name \cup {Slice} \X Name \X Nat
      /\ Scalar \cap (Name \cup {Slice} \X Name \X Nat) = {}
  BY MappingAssumption, TreeAssumption
<1>2. t[x] \in Scalar \cup {Map, List} /\ x \in Path
  BY DEF IsTree
<1>3. t[x] \in {Map, List} => m \in Name /\ m[1] = t[x]
  BY <1>2 DEF Name
<1>4. IsNode(h, v) => Cells(v) \in DOMAIN h
  BY Kinds DEF IsNode
<1>5. CASE t[x] = Map
  <2>1. v = m
    BY <1>1, <1>5 DEF ValueAt
  <2>2. v # Missing /\ v \notin Scalar
    BY <1>1, <1>3, <1>5, <2>1
  <2>3. ~IsSlice(h, v)
    <3>1. IsSlice(h, v) => v[1] = Slice
      BY DEF IsSlice
    <3> QED BY <1>1, <1>3, <1>5, <2>1, <3>1
  <2>4. IsNode(h, v) => Cells(v) = m
    BY <1>1, <1>3, <1>5, <2>1 DEF Cells
  <2>5. IsValue(h, v) => Written(h, v) = Map
    BY <2>2, <2>3 DEF IsValue, Written
  <2> QED BY <1>4, <1>5, <2>2, <2>4, <2>5
<1>6. CASE t[x] = List
  <2>1. v = <<Slice, m, Cardinality(Members(t, x))>>
    BY <1>1, <1>6 DEF ValueAt
  <2>2. Cardinality(Members(t, x)) \in Nat
    BY <1>6, TreeMembers
  <2>3. v \in {Slice} \X Name \X Nat
    BY <1>3, <1>6, <2>1, <2>2
  <2>4. v # Missing /\ v \notin Scalar
    BY <1>1, <2>3
  <2>5. ~IsMap(h, v)
    <3>1. \A k \in DOMAIN h : k[1] # Slice
      BY <1>1 DEF Name
    <3> QED BY <2>1, <3>1 DEF IsMap
  <2>6. Cells(v) = m
    BY <2>1 DEF Cells
  <2>7. IsValue(h, v) => Written(h, v) = List
    BY <2>4, <2>5 DEF IsValue, Written
  <2> QED BY <1>4, <1>6, <2>4, <2>6, <2>7
<1>7. CASE t[x] \notin {Map, List}
  <2>1. v = t[x] /\ v \in Scalar
    BY <1>2, <1>7 DEF ValueAt
  <2>2. ~IsMap(h, v) /\ ~IsSlice(h, v)
    BY <2>1, Kinds
  <2> QED BY <1>1, <2>1, <2>2 DEF IsNode, Written
<1> QED BY <1>5, <1>6, <1>7

\* Decoding a document and writing it again changes nothing.
LEMMA DocumentDecode ==
    ASSUME NEW t, IsTree(t), NEW o \in Request \cup {Config}, NEW n \in Int,
           NEW h, Shaped(h),
           \A m \in DOMAIN Decode(o, n, t) : m \in DOMAIN h /\ h[m] = Decode(o, n, t)[m]
    PROVE  Document(h, ValueAt(o, n, t, <<>>)) = t
<1> DEFINE root == ValueAt(o, n, t, <<>>)
           d == Document(h, root)
<1>1. /\ DOMAIN d = {x \in Path : Get(h, root, x) # Missing}
      /\ \A x \in DOMAIN d : d[x] = Written(h, Get(h, root, x))
      /\ d = [x \in DOMAIN d |-> d[x]]
  BY DocumentIs
<1>2. \A x \in Walk : Get(h, root, x) = IF x \in DOMAIN t THEN ValueAt(o, n, t, x) ELSE Missing
  BY GetDecode DEF Original
<1>3. DOMAIN t \subseteq Path /\ t = [x \in DOMAIN t |-> t[x]] /\ Path \subseteq Walk
  BY PathIs DEF IsTree
<1>4. \A x \in DOMAIN t : ValueAt(o, n, t, x) # Missing /\ Written(h, ValueAt(o, n, t, x)) = t[x]
  <2>1. DOMAIN h \subseteq Name
    BY DEF Shaped
  <2> QED BY <2>1, ValueAtIs, ValueAtPlace
<1> HIDE DEF d, root
<1>5. DOMAIN d = DOMAIN t
  BY <1>1, <1>2, <1>3, <1>4
<1>6. \A x \in DOMAIN t : d[x] = t[x]
  BY <1>1, <1>2, <1>3, <1>4, <1>5
<1> QED BY <1>1, <1>3, <1>5, <1>6 DEF d, root

-----------------------------------------------------------------------------
(* What rules mean *)

IsOutcome(out, rs, body, m) ==
    out = [n \in 0..m |-> IF n = 0 THEN Empty ELSE Meaning(body, out[n - 1], rs[n])]

LEMMA OutcomeThere ==
    ASSUME NEW rs, Len(rs) \in Nat, NEW body
    PROVE  \E out : IsOutcome(out, rs, body, Len(rs))
<1> DEFINE S == {m \in 0..Len(rs) : \E out : IsOutcome(out, rs, body, m)}
<1>1. 0 \in S
  <2>1. IsOutcome([n \in 0..0 |-> Empty], rs, body, 0)
    BY DEF IsOutcome
  <2> QED BY <2>1
<1>2. ASSUME NEW m \in 0..(Len(rs) - 1), m \in S PROVE m + 1 \in S
  <2>1. PICK g : IsOutcome(g, rs, body, m)
    BY <1>2
  <2> DEFINE next == Meaning(body, g[m], rs[m + 1])
             t == [n \in 0..(m + 1) |-> IF n = m + 1 THEN next ELSE g[n]]
  <2>2. \A n \in 0..m : g[n] = IF n = 0 THEN Empty ELSE Meaning(body, g[n - 1], rs[n])
    BY <2>1 DEF IsOutcome
  <2>3. ASSUME NEW n \in 0..(m + 1)
        PROVE  t[n] = IF n = 0 THEN Empty ELSE Meaning(body, t[n - 1], rs[n])
    <3>1. CASE n = m + 1
      <4>1. n # 0 /\ n - 1 = m /\ n - 1 \in 0..(m + 1) /\ n - 1 # m + 1
        BY <3>1
      <4>2. t[n] = next /\ t[n - 1] = g[m]
        <5> HIDE DEF next
        <5> QED BY <3>1, <4>1
      <4> HIDE DEF t
      <4> QED BY <3>1, <4>1, <4>2
    <3>2. CASE n # m + 1
      <4>1. n \in 0..m /\ (n # 0 => n - 1 \in 0..(m + 1) /\ n - 1 # m + 1)
        BY <3>2
      <4>2. t[n] = g[n] /\ (n # 0 => t[n - 1] = g[n - 1])
        <5> HIDE DEF next
        <5> QED BY <3>2, <4>1
      <4> HIDE DEF t
      <4> QED BY <2>2, <4>1, <4>2
    <3> QED BY <3>1, <3>2
  <2>4. IsOutcome(t, rs, body, m + 1)
    <3>1. t = [n \in 0..(m + 1) |-> t[n]]
      OBVIOUS
    <3> HIDE DEF t
    <3> QED BY <2>3, <3>1 DEF IsOutcome
  <2>5. m + 1 \in 0..Len(rs)
    OBVIOUS
  <2> HIDE DEF t
  <2> QED BY <2>4, <2>5
<1>3. 0..Len(rs) \subseteq S
  <2> HIDE DEF S
  <2> QED BY <1>1, <1>2, CountUp
<1>4. Len(rs) \in 0..Len(rs)
  OBVIOUS
<1> QED BY <1>3, <1>4

\* Outcome rule by rule; what has failed stays failed.
LEMMA OutcomeIs ==
    ASSUME NEW rs, Len(rs) \in Nat, NEW body
    PROVE  /\ Outcome(rs, body)[0] = Empty
           /\ \A n \in 1..Len(rs) :
                 Outcome(rs, body)[n] = Meaning(body, Outcome(rs, body)[n - 1], rs[n])
           /\ \A n \in 0..Len(rs) : Outcome(rs, body)[n] = Failed => Mapped(rs, body) = Failed
<1> DEFINE out == CHOOSE g : IsOutcome(g, rs, body, Len(rs))
<1>1. IsOutcome(out, rs, body, Len(rs))
  BY OutcomeThere
<1>2. Outcome(rs, body) = out
  BY DEF Outcome, IsOutcome
<1> HIDE DEF out
<1>3. \A n \in 0..Len(rs) : out[n] = IF n = 0 THEN Empty ELSE Meaning(body, out[n - 1], rs[n])
  BY <1>1 DEF IsOutcome
<1>4. out[0] = Empty
  BY <1>3
<1>5. \A n \in 1..Len(rs) : out[n] = Meaning(body, out[n - 1], rs[n])
  BY <1>3
<1>6. ASSUME NEW n \in 0..Len(rs), out[n] = Failed PROVE out[Len(rs)] = Failed
  <2> DEFINE T == {k \in n..Len(rs) : out[k] = Failed}
  <2>1. n \in T /\ n \in Int /\ Len(rs) \in Int /\ n <= Len(rs) /\ Len(rs) \in n..Len(rs)
    BY <1>6
  <2>2. ASSUME NEW k \in n..(Len(rs) - 1), k \in T PROVE k + 1 \in T
    <3>1. k + 1 \in 1..Len(rs) /\ (k + 1) - 1 = k /\ k + 1 \in n..Len(rs) /\ out[k] = Failed
      BY <2>2
    <3>2. out[k + 1] = Meaning(body, Failed, rs[k + 1])
      BY <1>5, <3>1
    <3> QED BY <3>1, <3>2 DEF Meaning
  <2>3. n..Len(rs) \subseteq T
    <3> HIDE DEF T
    <3> QED BY <2>1, <2>2, UpTo
  <2> QED BY <2>1, <2>3
<1> QED BY <1>2, <1>4, <1>5, <1>6 DEF Mapped

-----------------------------------------------------------------------------
(* A request after k rules *)

Related(p, x) == IsPrefix(p, x) \/ IsPrefix(x, p)

Place(o) == <<o[2], o[3], o[4]>>

Applied(rs, body, i) == rs[i].from = NoPath \/ rs[i].from \in DOMAIN body

\* Of the first k rules, i is the last to set something at x or above.
LastOn(rs, body, k, i, x) ==
    /\ i \in 1..k /\ Applied(rs, body, i) /\ IsPrefix(rs[i].to, x)
    /\ \A j \in (i + 1)..k : Applied(rs, body, j) => ~IsPrefix(rs[j].to, x)

\* Where rule i takes what it sets at y below its place.
Copied(rs, q, i, y) ==
    IF rs[i].from = NoPath THEN <<Config, i, y>> ELSE <<q, 0, rs[i].from \o y>>

\* A node of q's document at x was made for x, or the last rule on it copied it.
Origin(rs, q, body, k, o, x) ==
    \/ \E n \in {-1} \cup 1..k : Place(o) = <<q, n, x>>
    \/ \E i \in 1..k, y \in Walk :
          LastOn(rs, body, k, i, x) /\ x = rs[i].to \o y /\ Place(o) = Copied(rs, q, i, y)

\* The document so far, and the response where rules to come will look.
Good(rs, h, q, root, src, k, body) ==
    /\ \A x \in Walk : IsNode(h, Get(h, root, x)) =>
          Origin(rs, q, body, k, Cells(Get(h, root, x)), x)
    /\ \A j \in (k + 1)..Len(rs) : rs[j].from \in Path =>
          \A x \in Walk : Related(rs[j].from, x) => Get(h, src, x) = Original(q, 0, body, x)
    /\ Document(h, root) = Outcome(rs, body)[k]
    /\ \A j \in 1..k : Applied(rs, body, j) => rs[j].to \in Path

\* The configuration's values are as they were, and it has no others.
ConfigHas(rs, h) ==
    \A i \in DOMAIN rs : rs[i].from = NoPath =>
        \A m \in DOMAIN Decode(Config, i, rs[i].value) :
            m \in DOMAIN h /\ h[m] = Decode(Config, i, rs[i].value)[m]

ConfigOnly(rs, h) ==
    \A o \in DOMAIN h : o[2] = Config =>
        /\ o[3] \in DOMAIN rs /\ rs[o[3]].from = NoPath
        /\ o \in DOMAIN Decode(Config, o[3], rs[o[3]].value)

Going(rs, h, q, root, src, k, body) ==
    /\ rs \in RuleLists /\ AliasFree(rs) /\ q \in Request /\ IsTree(body)
    /\ Shaped(h) /\ ConfigHas(rs, h) /\ ConfigOnly(rs, h)
    /\ IsValue(h, root) /\ IsValue(h, src) /\ k \in 0..Len(rs)
    /\ Good(rs, h, q, root, src, k, body)

LEMMA RulesAre ==
    ASSUME NEW rs \in RuleLists
    PROVE  /\ Len(rs) \in Nat /\ DOMAIN rs = 1..Len(rs)
           /\ \A i \in 1..Len(rs) :
                 /\ rs[i].from \in Path \cup {NoPath, BadPath} /\ rs[i].to \in Path \cup {NoPath, BadPath}
                 /\ rs[i].from = NoPath => IsTree(rs[i].value) /\ rs[i].from \notin Path
                 /\ rs[i].from = BadPath => rs[i].from \notin Path
                 /\ rs[i].to \in {NoPath, BadPath} => rs[i].to \notin Path
<1>1. rs \in Seq(ToSet(rs)) /\ \A i \in DOMAIN rs : IsRule(rs[i])
  BY MappingAssumption, TreeAssumption
<1>2. Len(rs) \in Nat /\ DOMAIN rs = 1..Len(rs)
  BY <1>1
<1>3. Path \cap {NoPath, BadPath} = {}
  BY MappingAssumption, TreeAssumption
<1> QED BY <1>1, <1>2, <1>3 DEF IsRule

\* Two paths with a common continuation, or one that leads to a continuation of the other.
LEMMA RelatedIs ==
    ASSUME NEW p \in Walk, NEW r \in Walk
    PROVE  /\ \A x \in Walk : IsPrefix(p, x) /\ IsPrefix(r, x) => Related(p, r)
           /\ \A x \in Walk : IsPrefix(p, x) /\ IsPrefix(x, r) => Related(p, r)
           /\ \A y \in Walk, z \in Walk : p \o y = r \o z => Related(p, r)
           /\ \A y \in Walk, z \in Walk : p \o y = p \o z => y = z
           /\ Related(p, r) => Related(r, p)
<1>1. ASSUME NEW x \in Walk, IsPrefix(p, x), IsPrefix(r, x) PROVE Related(p, r)
  <2>1. IsPrefix(p, r) \/ IsStrictPrefix(r, p)
    BY <1>1, PrefixTwo
  <2> QED BY <2>1, PrefixIs DEF Related
<1>2. ASSUME NEW x \in Walk, IsPrefix(p, x), IsPrefix(x, r) PROVE Related(p, r)
  BY <1>2, PrefixTwo DEF Related
<1>3. ASSUME NEW y \in Walk, NEW z \in Walk, p \o y = r \o z PROVE Related(p, r)
  <2>1. p \o y \in Walk /\ IsPrefix(p, p \o y) /\ IsPrefix(r, r \o z)
    BY ConcatIs
  <2> QED BY <1>1, <1>3, <2>1
<1>4. ASSUME NEW y \in Walk, NEW z \in Walk, p \o y = p \o z PROVE y = z
  <2>1. p \o y \in Walk /\ IsPrefix(p, p \o y)
    BY ConcatIs
  <2>2. y = After(p, p \o y) /\ z = After(p, p \o y)
    BY <1>4, <2>1, AfterIs
  <2> QED BY <2>2
<1>5. Related(p, r) => Related(r, p)
  BY DEF Related
<1> QED BY <1>1, <1>2, <1>3, <1>4, <1>5

\* Nodes of the configuration's values, and places made there.
LEMMA ConfigPlace ==
    ASSUME NEW rs \in RuleLists, NEW h, ConfigOnly(rs, h), NEW o \in DOMAIN h,
           NEW i, NEW y, Place(o) = <<Config, i, y>>
    PROVE  /\ i \in 1..Len(rs) /\ rs[i].from = NoPath
           /\ y \in DOMAIN rs[i].value /\ rs[i].value[<<>>] \in {Map, List}
<1>1. o[2] = Config /\ o[3] = i /\ o[4] = y
  BY DEF Place
<1>2. i \in 1..Len(rs) /\ rs[i].from = NoPath /\ o \in DOMAIN Decode(Config, i, rs[i].value)
  BY <1>1, RulesAre DEF ConfigOnly
<1> DEFINE t == rs[i].value
<1>3. IsTree(t) /\ i \in Int
  BY <1>2, RulesAre
<1>4. y \in DOMAIN t /\ t[y] \in {Map, List}
  <2>1. \A m \in DOMAIN Decode(Config, i, t) :
           m[4] \in DOMAIN t /\ t[m[4]] = m[1] /\ m[1] \in {Map, List}
    <3> HIDE DEF t
    <3>1. Config \in Request \cup {Config}
      OBVIOUS
    <3> QED BY <1>3, <3>1, DecodeShaped
  <2> QED BY <1>1, <1>2, <2>1
<1> HIDE DEF t
<1>5. t[<<>>] \in {Map, List}
  <2>1. y \in Walk /\ Len(y) \in Nat
    BY <1>3, <1>4, TreeDown DEF Walk
  <2>2. 0 \in 0..Len(y) /\ Upto(y, 0) = <<>>
    BY <2>1, UptoIs
  <2>3. 0 < Len(y) => t[Upto(y, 0)] = NodeFor(y[0 + 1])
    BY <1>3, <1>4, <2>2, TreeDown
  <2>4. Len(y) = 0 => y = <<>>
    BY <2>1 DEF Walk
  <2> QED BY <1>4, <2>1, <2>2, <2>3, <2>4 DEF NodeFor
<1> QED BY <1>2, <1>4, <1>5 DEF t

\* Made for x after k rules, or copied by one whose source no other rule looks at.
Ours(rs, q, k, o, x) ==
    \/ \E n \in {-1} \cup 1..k : Place(o) = <<q, n, x>>
    \/ \E i \in 1..k, y \in Walk :
          /\ rs[i].from \in Path /\ rs[i].to \in Path /\ x = rs[i].to \o y
          /\ Place(o) = <<q, 0, rs[i].from \o y>>
          /\ \A j \in 1..Len(rs) : j # i /\ rs[j].from \in Path => ~Related(rs[i].from, rs[j].from)

\* What a rule writes to is its own request's.
LEMMA OursOnWay ==
    ASSUME NEW rs, NEW h, NEW q, NEW root, NEW src, NEW k \in 1..Len(rs), NEW body,
           Going(rs, h, q, root, src, k - 1, body), rs[k].to \in Path,
           NEW n \in 1..Len(rs[k].to), IsNode(h, Old(h, root, rs[k].to, n))
    PROVE  Ours(rs, q, k - 1, Cells(Old(h, root, rs[k].to, n)), Upto(rs[k].to, n - 1))
<1> DEFINE p == rs[k].to
           x == Upto(p, n - 1)
           o == Cells(Old(h, root, p, n))
<1>1. /\ rs \in RuleLists /\ AliasFree(rs) /\ q \in Request /\ IsTree(body) /\ Shaped(h)
      /\ ConfigOnly(rs, h) /\ Good(rs, h, q, root, src, k - 1, body) /\ DOMAIN h \subseteq Name
  BY DEF Going, Shaped
<1>2. p \in Walk /\ Len(p) \in Nat /\ Len(rs) \in Nat /\ DOMAIN rs = 1..Len(rs)
  BY <1>1, PathIs, RulesAre DEF Walk
<1>3. x \in Walk /\ x \in Steps(p) /\ IsStrictPrefix(x, p)
  <2>1. n - 1 \in 0..Len(p)
    BY <1>2
  <2>2. x \in Walk /\ x \in Steps(p)
    BY <1>2, <2>1, UptoIs, StepsIs
  <2> HIDE DEF x, p
  <2> QED BY <1>2, <2>2, StepsIs
<1>4. o \in DOMAIN h
  BY <1>1, Kinds DEF IsNode
<1>5. Origin(rs, q, body, k - 1, o, x)
  BY <1>1, <1>3 DEF Good, Old
<1> HIDE DEF o, x, p
<1>6. CASE \E m \in {-1} \cup 1..(k - 1) : Place(o) = <<q, m, x>>
  BY <1>6 DEF Ours, o, x, p
<1>7. CASE \E i \in 1..(k - 1), y \in Walk :
              LastOn(rs, body, k - 1, i, x) /\ x = rs[i].to \o y /\ Place(o) = Copied(rs, q, i, y)
  <2>1. PICK i \in 1..(k - 1), y \in Walk :
              LastOn(rs, body, k - 1, i, x) /\ x = rs[i].to \o y /\ Place(o) = Copied(rs, q, i, y)
    BY <1>7
  <2>2. Applied(rs, body, i) /\ IsPrefix(rs[i].to, x)
    BY <2>1 DEF LastOn
  <2>3. rs[i].to \in Path /\ i \in 1..Len(rs) /\ k \in 1..Len(rs) /\ i < k
    BY <1>1, <1>2, <2>2 DEF Good
  <2>4. rs[i].to \in Walk
    BY <2>3, PathIs
  <2>5. IsStrictPrefix(rs[i].to, p)
    <3>1. IsPrefix(x, p) /\ Len(x) < Len(p) /\ Len(rs[i].to) <= Len(x)
      BY <1>2, <1>3, <2>2, <2>4, PrefixIs
    <3>2. IsPrefix(rs[i].to, p)
      BY <1>2, <1>3, <2>2, <2>4, <3>1, PrefixTwo
    <3> QED BY <1>2, <1>3, <2>4, <3>1, <3>2, PrefixIs DEF Walk
  <2>6. /\ rs[i].from = NoPath => rs[i].value[<<>>] \notin {Map, List}
        /\ rs[i].from # NoPath => \A j \in 1..Len(rs) : j # i /\ rs[j].from \in Path =>
                                     ~Related(rs[i].from, rs[j].from)
    BY <1>1, <1>2, <2>3, <2>5 DEF AliasFree, Related, p
  <2>7. rs[i].from # NoPath
    <3> SUFFICES ASSUME rs[i].from = NoPath PROVE FALSE
      OBVIOUS
    <3>1. Place(o) = <<Config, i, y>>
      BY <2>1 DEF Copied
    <3>2. rs[i].value[<<>>] \in {Map, List}
      BY <1>1, <1>4, <3>1, ConfigPlace
    <3> QED BY <2>6, <3>2
  <2>8. rs[i].from \in Path
    BY <1>1, <2>2, <2>7 DEF Applied, IsTree
  <2>9. Place(o) = <<q, 0, rs[i].from \o y>>
    BY <2>1, <2>7 DEF Copied
  <2>10. Ours(rs, q, k - 1, o, x)
    BY <2>1, <2>3, <2>6, <2>7, <2>8, <2>9 DEF Ours
  <2> QED BY <2>10 DEF o, x, p
<1> QED BY <1>5, <1>6, <1>7 DEF Origin

\* A document has such a node in one place only.
LEMMA OursOnce ==
    ASSUME NEW rs \in RuleLists, NEW q \in Request, NEW k \in 0..Len(rs), NEW body, IsTree(body),
           NEW o, NEW x \in Walk, Ours(rs, q, k, o, x), NEW y \in Walk, Origin(rs, q, body, k, o, y),
           \A j \in 1..k : Applied(rs, body, j) => rs[j].to \in Path
    PROVE  y = x
<1>0. Config \notin Request /\ Path \subseteq Walk
  BY PathIs, MappingAssumption, TreeAssumption
<1>1. ASSUME NEW m \in {-1} \cup 1..k, Place(o) = <<q, m, y>> PROVE y = x
  <2>1. \A z : Place(o) # <<q, 0, z>>
    BY <1>1
  <2> QED BY <1>1, <2>1 DEF Ours
<1>2. ASSUME NEW i \in 1..k, NEW z \in Walk, LastOn(rs, body, k, i, y), y = rs[i].to \o z,
             Place(o) = Copied(rs, q, i, z)
      PROVE  y = x
  <2>1. rs[i].from # NoPath
    <3> SUFFICES ASSUME rs[i].from = NoPath PROVE FALSE
      OBVIOUS
    <3>1. Place(o)[1] = Config
      BY <1>2 DEF Copied
    <3> QED BY <1>0, <3>1 DEF Ours
  <2>2. Place(o) = <<q, 0, rs[i].from \o z>>
    BY <1>2, <2>1 DEF Copied
  <2>3. rs[i].from \in Path
    BY <1>2, <2>1 DEF LastOn, Applied, IsTree
  <2>4. PICK j \in 1..k, w \in Walk :
          /\ rs[j].from \in Path /\ rs[j].to \in Path /\ x = rs[j].to \o w
          /\ Place(o) = <<q, 0, rs[j].from \o w>>
          /\ \A l \in 1..Len(rs) : l # j /\ rs[l].from \in Path => ~Related(rs[j].from, rs[l].from)
    <3>1. Place(o)[2] = 0
      BY <2>2
    <3>2. ~\E m \in {-1} \cup 1..k : Place(o) = <<q, m, x>>
      BY <3>1
    <3> QED BY <3>2 DEF Ours
  <2>5. rs[j].from \o w = rs[i].from \o z
    <3>1. Place(o)[3] = rs[i].from \o z
      BY <2>2
    <3>2. Place(o)[3] = rs[j].from \o w
      BY <2>4
    <3> QED BY <3>1, <3>2
  <2>6. Related(rs[j].from, rs[i].from)
    BY <1>0, <2>3, <2>4, <2>5, RelatedIs
  <2>7. i = j
    BY <2>3, <2>4, <2>6, RulesAre
  <2>8. w = z
    BY <1>0, <2>3, <2>5, <2>7, RelatedIs
  <2> QED BY <1>2, <2>4, <2>7, <2>8
<1> QED BY <1>1, <1>2 DEF Origin

\* No node is in a document and somewhere below itself.
LEMMA OriginOnce ==
    ASSUME NEW rs \in RuleLists, AliasFree(rs), NEW q \in Request, NEW k \in 0..Len(rs), NEW body,
           IsTree(body), \A j \in 1..k : Applied(rs, body, j) => rs[j].to \in Path,
           NEW o, NEW x \in Walk, Origin(rs, q, body, k, o, x),
           NEW y \in Walk, Origin(rs, q, body, k, o, y), IsStrictPrefix(y, x)
    PROVE  FALSE
<1>0. Config # q /\ Path \subseteq Walk /\ x # y /\ IsPrefix(y, x)
  <2>1. Config # q /\ Path \subseteq Walk
    BY PathIs, MappingAssumption, TreeAssumption
  <2>2. Len(x) # Len(y) /\ IsPrefix(y, x)
    BY PrefixIs DEF Walk
  <2> QED BY <2>1, <2>2
<1> DEFINE Own(z) == \E n \in {-1} \cup 1..k : Place(o) = <<q, n, z>>
           Copy(z, i, w) == LastOn(rs, body, k, i, z) /\ z = rs[i].to \o w /\ Place(o) = Copied(rs, q, i, w)
<1>1. \A z : Own(z) => Place(o)[1] = q /\ Place(o)[2] # 0 /\ Place(o)[3] = z
  OBVIOUS
<1>2. \A z, i, w : Copy(z, i, w) =>
         \/ rs[i].from = NoPath /\ Place(o) = <<Config, i, w>>
         \/ rs[i].from # NoPath /\ Place(o) = <<q, 0, rs[i].from \o w>>
  <2> SUFFICES ASSUME NEW z, NEW i, NEW w, Copy(z, i, w)
               PROVE  \/ rs[i].from = NoPath /\ Place(o) = <<Config, i, w>>
                      \/ rs[i].from # NoPath /\ Place(o) = <<q, 0, rs[i].from \o w>>
    <3> HIDE DEF Copy
    <3> QED OBVIOUS
  <2>1. Place(o) = Copied(rs, q, i, w)
    OBVIOUS
  <2> HIDE DEF Copy
  <2> QED BY <2>1 DEF Copied
<1>3. Own(x) \/ \E i \in 1..k, w \in Walk : Copy(x, i, w)
  BY DEF Origin
<1>4. Own(y) \/ \E i \in 1..k, w \in Walk : Copy(y, i, w)
  BY DEF Origin
<1>5. ~Own(x) /\ ~Own(y)
  <2> HIDE DEF Own, Copy
  <2> QED BY <1>0, <1>1, <1>2, <1>3, <1>4
<1>6. PICK i \in 1..k, u \in Walk : Copy(x, i, u)
  BY <1>3, <1>5
<1>7. PICK j \in 1..k, v \in Walk : Copy(y, j, v)
  BY <1>4, <1>5
<1>8. /\ Applied(rs, body, i) /\ IsPrefix(rs[i].to, x) /\ x = rs[i].to \o u
      /\ \A l \in (i + 1)..k : Applied(rs, body, l) => ~IsPrefix(rs[l].to, x)
  BY <1>6 DEF LastOn
<1>9. /\ Applied(rs, body, j) /\ IsPrefix(rs[j].to, y) /\ y = rs[j].to \o v
      /\ \A l \in (j + 1)..k : Applied(rs, body, l) => ~IsPrefix(rs[l].to, y)
  BY <1>7 DEF LastOn
<1>10. /\ rs[i].to \in Path /\ rs[j].to \in Path /\ rs[i].to \in Walk /\ rs[j].to \in Walk
       /\ Len(rs) \in Nat /\ DOMAIN rs = 1..Len(rs) /\ i \in 1..Len(rs) /\ j \in 1..Len(rs)
  <2>1. rs[i].to \in Path /\ rs[j].to \in Path
    BY <1>8, <1>9
  <2> QED BY <1>0, <2>1, RulesAre
<1>11. \/ rs[i].from = NoPath /\ Place(o) = <<Config, i, u>>
       \/ rs[i].from # NoPath /\ Place(o) = <<q, 0, rs[i].from \o u>>
  <2> HIDE DEF Copy
  <2> QED BY <1>2, <1>6
<1>12. \/ rs[j].from = NoPath /\ Place(o) = <<Config, j, v>>
       \/ rs[j].from # NoPath /\ Place(o) = <<q, 0, rs[j].from \o v>>
  <2> HIDE DEF Copy
  <2> QED BY <1>2, <1>7
<1> HIDE DEF Copy, Own
<1>13. rs[i].from # NoPath /\ rs[j].from # NoPath
  <2>1. rs[i].from = NoPath <=> rs[j].from = NoPath
    BY <1>0, <1>11, <1>12
  <2>2. ASSUME rs[i].from = NoPath PROVE FALSE
    <3>1. i = j /\ u = v
      BY <1>11, <1>12, <2>1, <2>2
    <3> QED BY <1>0, <1>8, <1>9, <3>1
  <2> QED BY <2>1, <2>2
<1>14. rs[i].from \o u = rs[j].from \o v
  <2>1. Place(o)[3] = rs[i].from \o u /\ Place(o)[3] = rs[j].from \o v
    BY <1>11, <1>12, <1>13
  <2> QED BY <2>1
<1>15. rs[i].from \in Path /\ rs[j].from \in Path /\ rs[i].from \in Walk /\ rs[j].from \in Walk
  BY <1>0, <1>8, <1>9, <1>13 DEF Applied, IsTree
<1>16. CASE i = j
  <2>1. u = v
    BY <1>14, <1>15, <1>16, RelatedIs
  <2> QED BY <1>0, <1>8, <1>9, <1>16, <2>1
<1>17. CASE i # j
  <2>1. Related(rs[j].from, rs[i].from)
    BY <1>14, <1>15, RelatedIs
  <2>2. j < i
    <3>1. IsPrefix(rs[j].to, x)
      BY <1>0, <1>9, <1>10, PrefixTwo
    <3>2. j \notin (i + 1)..k
      BY <1>8, <1>9, <3>1
    <3> QED BY <1>17, <3>2
  <2>3. ~IsPrefix(rs[i].to, y)
    <3>1. i \in (j + 1)..k
      BY <2>2
    <3> QED BY <1>8, <1>9, <3>1
  <2>4. IsStrictPrefix(y, rs[i].to)
    BY <1>0, <1>8, <1>10, <2>3, PrefixTwo
  <2>5. IsStrictPrefix(rs[j].to, rs[i].to)
    <3>1. IsPrefix(y, rs[i].to) /\ Len(y) < Len(rs[i].to) /\ Len(rs[j].to) <= Len(y)
      BY <1>9, <1>10, <2>4, PrefixIs
    <3>2. IsPrefix(rs[j].to, rs[i].to)
      BY <1>9, <1>10, <3>1, PrefixTwo
    <3>3. Len(rs[j].to) \in Nat /\ Len(y) \in Nat /\ Len(rs[i].to) \in Nat
      BY <1>10 DEF Walk
    <3> QED BY <1>10, <3>1, <3>2, <3>3, PrefixIs
  <2>6. ~Related(rs[j].from, rs[i].from)
    BY <1>10, <1>13, <1>15, <2>2, <2>5 DEF AliasFree, Related
  <2> QED BY <2>1, <2>6
<1> QED BY <1>16, <1>17

\* No container is inside itself: the two places would give it two origins.
LEMMA GoingEncodable ==
    ASSUME NEW rs, NEW h, NEW q, NEW root, NEW src, NEW k, NEW body,
           Going(rs, h, q, root, src, k, body)
    PROVE  Encodable(h, root)
<1>1. /\ rs \in RuleLists /\ AliasFree(rs) /\ q \in Request /\ IsTree(body) /\ k \in 0..Len(rs)
      /\ Good(rs, h, q, root, src, k, body) /\ Path \subseteq Walk
  BY PathIs DEF Going
<1> SUFFICES ASSUME NEW x \in Path, IsNode(h, Get(h, root, x)), NEW n \in 0..(Len(x) - 1),
                    Get(h, root, Upto(x, n)) = Get(h, root, x)
             PROVE  FALSE
  BY DEF Encodable, Upto
<1>2. x \in Walk /\ Len(x) \in Nat
  BY <1>1 DEF Walk
<1>3. Upto(x, n) \in Walk /\ Len(Upto(x, n)) = n /\ n < Len(x)
  <2>1. n \in 0..Len(x)
    BY <1>2
  <2> QED BY <1>2, <2>1, UptoIs
<1>4. IsStrictPrefix(Upto(x, n), x)
  <2>1. IsPrefix(Upto(x, n), x)
    <3>1. Len(Upto(x, n)) <= Len(x) /\ Upto(x, Len(Upto(x, n))) = Upto(x, n)
      BY <1>2, <1>3
    <3> QED BY <1>2, <1>3, <3>1, PrefixIs
  <2> QED BY <1>2, <1>3, <2>1, PrefixIs
<1>5. /\ Origin(rs, q, body, k, Cells(Get(h, root, x)), x)
      /\ Origin(rs, q, body, k, Cells(Get(h, root, x)), Upto(x, n))
  BY <1>1, <1>2, <1>3 DEF Good
<1>6. \A j \in 1..k : Applied(rs, body, j) => rs[j].to \in Path
  BY <1>1 DEF Good
<1> QED BY <1>1, <1>2, <1>3, <1>4, <1>5, <1>6, OriginOnce

-----------------------------------------------------------------------------
(* The value of a rule *)

\* Nodes of the response, where nothing has changed it.
LEMMA SourceNode ==
    ASSUME NEW rs, NEW h, NEW q, NEW root, NEW src, NEW k, NEW body,
           Going(rs, h, q, root, src, k, body),
           NEW x \in Walk, Get(h, src, x) = Original(q, 0, body, x)
    PROVE  /\ Get(h, src, x) # Missing <=> x \in DOMAIN body
           /\ IsNode(h, Get(h, src, x)) =>
                 Place(Cells(Get(h, src, x))) = <<q, 0, x>> /\ Cells(Get(h, src, x)) \in DOMAIN h
           /\ x \in DOMAIN body => IsValue(h, Get(h, src, x)) /\ Written(h, Get(h, src, x)) = body[x]
<1>1. IsTree(body) /\ q \in Request \cup {Config} /\ DOMAIN h \subseteq Name /\ Shaped(h) /\ IsValue(h, src)
  BY DEF Going, Shaped
<1>2. CASE x \notin DOMAIN body
  <2>1. Get(h, src, x) = Missing
    BY <1>2 DEF Original
  <2> QED BY <1>1, <1>2, <2>1, Kinds DEF IsNode
<1>3. CASE x \in DOMAIN body
  <2> DEFINE v == ValueAt(q, 0, body, x)
  <2>1. Get(h, src, x) = v
    BY <1>3 DEF Original
  <2>2. /\ v # Missing
        /\ IsNode(h, v) => <<Cells(v)[2], Cells(v)[3], Cells(v)[4]>> = <<q, 0, x>>
        /\ IsNode(h, v) => Cells(v) \in DOMAIN h
        /\ IsValue(h, v) => Written(h, v) = body[x]
    BY <1>1, <1>3, ValueAtPlace
  <2> HIDE DEF v
  <2>3. IsValue(h, v)
    <3>1. IsValue(h, Get(h, src, x)) \/ Get(h, src, x) = Missing
      BY <1>1, GetValue
    <3> QED BY <2>1, <2>2, <3>1
  <2> QED BY <1>3, <2>1, <2>2, <2>3 DEF Place
<1> QED BY <1>2, <1>3

\* What rule k sets, as ApplyRule takes it.
Taken(rs, h, src, k) ==
    IF rs[k].from = NoPath THEN ValueAt(Config, k, rs[k].value, <<>>) ELSE Get(h, src, rs[k].from)

TakenAs(rs, h, q, k, body, v) ==
    /\ Applied(rs, body, k) /\ IsValue(h, v)
    /\ \A y \in Walk : IsNode(h, Get(h, v, y)) => Place(Cells(Get(h, v, y))) = Copied(rs, q, k, y)
    /\ Document(h, v) = IF rs[k].from = NoPath THEN rs[k].value ELSE Below(body, rs[k].from)

\* What a rule takes is what it means, and its containers are copied from there.
LEMMA TakenIs ==
    ASSUME NEW rs, NEW h, NEW q, NEW root, NEW src, NEW k \in 1..Len(rs), NEW body,
           Going(rs, h, q, root, src, k - 1, body),
           rs[k].from = NoPath \/ rs[k].from \in Path,
           rs[k].from # NoPath => Get(h, src, rs[k].from) # Missing
    PROVE  TakenAs(rs, h, q, k, body, Taken(rs, h, src, k))
<1> DEFINE v == Taken(rs, h, src, k)
           d == Document(h, v)
<1>1. /\ rs \in RuleLists /\ q \in Request /\ IsTree(body) /\ Shaped(h) /\ ConfigHas(rs, h)
      /\ Good(rs, h, q, root, src, k - 1, body) /\ DOMAIN h \subseteq Name /\ Path \subseteq Walk
  BY PathIs DEF Going, Shaped
<1>2. k \in DOMAIN rs /\ k \in Int /\ k \in ((k - 1) + 1)..Len(rs)
  BY <1>1, RulesAre
<1>3. CASE rs[k].from = NoPath
  <2> DEFINE t == rs[k].value
  <2>1. IsTree(t) /\ Config \in Request \cup {Config}
    BY <1>1, <1>3, RulesAre
  <2>2. \A m \in DOMAIN Decode(Config, k, t) : m \in DOMAIN h /\ h[m] = Decode(Config, k, t)[m]
    BY <1>1, <1>2, <1>3 DEF ConfigHas
  <2>3. v = ValueAt(Config, k, t, <<>>) /\ <<>> \in DOMAIN t
    BY <1>3, <2>1 DEF Taken, IsTree
  <2> HIDE DEF v, t
  <2>4. IsValue(h, v)
    BY <1>1, <1>2, <2>1, <2>2, <2>3, ValueAtIs
  <2>5. d = t
    BY <1>1, <1>2, <2>1, <2>2, <2>3, DocumentDecode
  <2>6. \A y \in Walk : Get(h, v, y) = Original(Config, k, t, y)
    BY <1>1, <1>2, <2>1, <2>2, <2>3, GetDecode
  <2>7. ASSUME NEW y \in Walk, IsNode(h, Get(h, v, y))
        PROVE  Place(Cells(Get(h, v, y))) = <<Config, k, y>>
    <3>1. y \in DOMAIN t
      <4>1. ~IsNode(h, Missing)
        BY <1>1, Kinds DEF IsNode
      <4> QED BY <2>6, <2>7, <4>1 DEF Original
    <3>2. Get(h, v, y) = ValueAt(Config, k, t, y)
      BY <2>6, <3>1 DEF Original
    <3> QED BY <1>1, <1>2, <2>1, <2>7, <3>1, <3>2, ValueAtPlace DEF Place
  <2>8. Applied(rs, body, k)
    BY <1>3 DEF Applied
  <2> QED BY <1>3, <2>4, <2>5, <2>7, <2>8 DEF v, t, Copied, TakenAs
<1>4. CASE rs[k].from # NoPath
  <2> DEFINE f == rs[k].from
  <2>1. f \in Path /\ f \in Walk /\ v = Get(h, src, f)
    BY <1>1, <1>4 DEF Taken
  <2> HIDE DEF v, f
  <2>2. \A x \in Walk : IsPrefix(f, x) => Get(h, src, x) = Original(q, 0, body, x)
    BY <1>1, <1>2, <2>1 DEF Good, Related, f
  <2>3. \A y \in Walk : f \o y \in Walk /\ Get(h, v, y) = Get(h, src, f \o y)
                        /\ Get(h, src, f \o y) = Original(q, 0, body, f \o y)
    BY <2>1, <2>2, ConcatIs, GetOver
  <2>4. ASSUME NEW y \in Walk
        PROVE  /\ Get(h, v, y) # Missing <=> f \o y \in DOMAIN body
               /\ IsNode(h, Get(h, v, y)) => Place(Cells(Get(h, v, y))) = <<q, 0, f \o y>>
               /\ f \o y \in DOMAIN body => /\ IsValue(h, Get(h, v, y))
                                            /\ Written(h, Get(h, v, y)) = body[f \o y]
    <3> DEFINE x == f \o y
    <3>1. x \in Walk /\ Get(h, v, y) = Get(h, src, x) /\ Get(h, src, x) = Original(q, 0, body, x)
      BY <2>3
    <3> HIDE DEF x
    <3>2. /\ Get(h, src, x) # Missing <=> x \in DOMAIN body
          /\ IsNode(h, Get(h, src, x)) => Place(Cells(Get(h, src, x))) = <<q, 0, x>>
          /\ x \in DOMAIN body => IsValue(h, Get(h, src, x)) /\ Written(h, Get(h, src, x)) = body[x]
      BY <3>1, SourceNode
    <3>3. /\ Get(h, v, y) # Missing <=> x \in DOMAIN body
          /\ IsNode(h, Get(h, v, y)) => Place(Cells(Get(h, v, y))) = <<q, 0, x>>
          /\ x \in DOMAIN body => IsValue(h, Get(h, v, y)) /\ Written(h, Get(h, v, y)) = body[x]
      BY <3>1, <3>2
    <3> QED BY <3>3 DEF x
  <2>5. <<>> \in Walk /\ f \o <<>> = f /\ Get(h, v, <<>>) = v
    BY <2>1, ConcatIs, GetRoot DEF Walk
  <2>6. v # Missing
    BY <1>4, <2>1 DEF f
  <2>7. f \in DOMAIN body /\ IsValue(h, v)
    BY <2>4, <2>5, <2>6
  <2>8. /\ DOMAIN d = {y \in Path : Get(h, v, y) # Missing}
        /\ \A y \in DOMAIN d : d[y] = Written(h, Get(h, v, y))
        /\ d = [y \in DOMAIN d |-> d[y]]
    BY DocumentIs
  <2> HIDE DEF d
  <2>9. d = Below(body, f)
    <3> DEFINE b == Below(body, f)
    <3>1. /\ DOMAIN b = {y \in Path : f \o y \in DOMAIN body}
          /\ \A y \in DOMAIN b : b[y] = body[f \o y]
          /\ b = [y \in DOMAIN b |-> b[y]]
      BY DEF Below
    <3> HIDE DEF b
    <3>2. DOMAIN d = DOMAIN b
      BY <1>1, <2>4, <2>8, <3>1
    <3>3. \A y \in DOMAIN b : d[y] = b[y]
      BY <1>1, <2>4, <2>8, <3>1, <3>2
    <3> QED BY <2>8, <3>1, <3>2, <3>3 DEF b
  <2>10. Applied(rs, body, k)
    BY <2>7 DEF Applied, f
  <2> QED BY <1>4, <2>4, <2>7, <2>9, <2>10 DEF v, f, d, Copied, TakenAs
<1> QED BY <1>3, <1>4

-----------------------------------------------------------------------------
(* What a rule does to its own request *)

CanApply(rs, h, q, root, src, k, body) ==
    /\ k \in 1..Len(rs) /\ Going(rs, h, q, root, src, k - 1, body)
    /\ rule[q] = k /\ AllNew(h, q)
    /\ rs[k].to \in Path /\ ~Refused(rs[k])
    /\ rs[k].from = NoPath \/ rs[k].from \in Path
    /\ rs[k].from # NoPath => Get(h, src, rs[k].from) # Missing

LEMMA ApplyBasics ==
    ASSUME NEW rs, NEW h, NEW q, NEW root, NEW src, NEW k, NEW body,
           CanApply(rs, h, q, root, src, k, body)
    PROVE  /\ rs \in RuleLists /\ AliasFree(rs) /\ q \in Request /\ IsTree(body) /\ Config # q
           /\ Shaped(h) /\ DOMAIN h \subseteq Name /\ IsValue(h, root) /\ IsValue(h, src)
           /\ Len(rs) \in Nat /\ DOMAIN rs = 1..Len(rs) /\ k \in Int /\ k - 1 \in 0..Len(rs)
           /\ rs[k].to \in Walk /\ Len(rs[k].to) \in Nat
           /\ Good(rs, h, q, root, src, k - 1, body)
<1>1. rs \in RuleLists /\ AliasFree(rs) /\ q \in Request /\ IsTree(body) /\ Shaped(h)
      /\ IsValue(h, root) /\ IsValue(h, src) /\ Good(rs, h, q, root, src, k - 1, body)
      /\ k \in 1..Len(rs) /\ rs[k].to \in Path /\ k - 1 \in 0..Len(rs)
  BY DEF CanApply, Going
<1>2. Len(rs) \in Nat /\ DOMAIN rs = 1..Len(rs)
  BY <1>1, RulesAre
<1>3. rs[k].to \in Walk /\ Len(rs[k].to) \in Nat
  BY <1>1, PathIs DEF Walk
<1> QED BY <1>1, <1>2, <1>3, MappingAssumption, TreeAssumption DEF Shaped

\* It writes to what is found in one place, and not in what it sets.
LEMMA ApplyFree ==
    ASSUME NEW rs, NEW h, NEW q, NEW root, NEW src, NEW k, NEW body,
           CanApply(rs, h, q, root, src, k, body), rs[k].to # <<>>
    PROVE  /\ CanSet(h, q, root, rs[k].to) /\ Unshared(h, root, rs[k].to)
           /\ Apart(h, root, rs[k].to, Taken(rs, h, src, k))
<1> DEFINE p == rs[k].to
           v == Taken(rs, h, src, k)
<1>1. /\ rs \in RuleLists /\ q \in Request /\ IsTree(body) /\ Shaped(h) /\ Config # q
      /\ DOMAIN h \subseteq Name /\ Len(rs) \in Nat /\ DOMAIN rs = 1..Len(rs) /\ k - 1 \in 0..Len(rs)
      /\ p \in Walk /\ Len(p) \in Nat /\ Good(rs, h, q, root, src, k - 1, body) /\ IsValue(h, root)
  BY ApplyBasics
<1>2. CanSet(h, q, root, p)
  BY <1>1 DEF CanApply, CanSet
<1>3. /\ k \in 1..Len(rs) /\ Going(rs, h, q, root, src, k - 1, body) /\ p \in Path
      /\ rs[k].from = NoPath \/ rs[k].from \in Path
      /\ rs[k].from # NoPath => Get(h, src, rs[k].from) # Missing
  BY DEF CanApply
<1>4. ASSUME NEW n \in 1..Len(p), Holds(h, Old(h, root, p, n), p[n])
      PROVE  Ours(rs, q, k - 1, Cells(Old(h, root, p, n)), Upto(p, n - 1)) /\ Upto(p, n - 1) \in Walk
  <2>1. IsNode(h, Old(h, root, p, n))
    BY <1>4 DEF Holds, IsNode
  <2>2. n - 1 \in 0..Len(p)
    BY <1>1
  <2> QED BY <1>1, <1>3, <2>1, <2>2, OursOnWay, UptoIs
<1>5. \A y \in Walk : IsNode(h, Get(h, v, y)) => Place(Cells(Get(h, v, y))) = Copied(rs, q, k, y)
  <2>1. TakenAs(rs, h, q, k, body, v)
    BY <1>3, TakenIs
  <2> QED BY <2>1 DEF TakenAs
<1> HIDE DEF v, p
<1>6. Unshared(h, root, p)
  <2> SUFFICES ASSUME NEW n \in 1..Len(p), Holds(h, Old(h, root, p, n), p[n]),
                      NEW y \in Walk, IsNode(h, Get(h, root, y)),
                      Cells(Get(h, root, y)) = Cells(Old(h, root, p, n))
               PROVE  y = Upto(p, n - 1)
    BY DEF Unshared
  <2> DEFINE o == Cells(Old(h, root, p, n))
             x == Upto(p, n - 1)
  <2>1. Ours(rs, q, k - 1, o, x) /\ x \in Walk
    BY <1>4
  <2>2. Origin(rs, q, body, k - 1, o, y)
    BY <1>1 DEF Good
  <2>3. \A j \in 1..(k - 1) : Applied(rs, body, j) => rs[j].to \in Path
    BY <1>1 DEF Good
  <2> HIDE DEF o, x
  <2>4. y = x
    BY <1>1, <2>1, <2>2, <2>3, OursOnce
  <2> QED BY <2>4 DEF x
<1>7. Apart(h, root, p, v)
  <2> SUFFICES ASSUME NEW n \in 1..Len(p), Holds(h, Old(h, root, p, n), p[n]),
                      NEW y \in Walk, IsNode(h, Get(h, v, y)),
                      Cells(Get(h, v, y)) = Cells(Old(h, root, p, n))
               PROVE  FALSE
    BY DEF Apart
  <2> DEFINE o == Cells(Old(h, root, p, n))
             x == Upto(p, n - 1)
  <2>1. Ours(rs, q, k - 1, o, x)
    BY <1>4
  <2>2. Place(o) = Copied(rs, q, k, y)
    BY <1>5
  <2> HIDE DEF o, x
  <2>3. Place(o)[1] = q
    BY <2>1 DEF Ours
  <2>4. rs[k].from # NoPath
    BY <1>1, <2>2, <2>3 DEF Copied
  <2>5. Place(o) = <<q, 0, rs[k].from \o y>> /\ rs[k].from \in Path
    BY <1>3, <2>2, <2>4 DEF Copied
  <2>6. ~\E m \in {-1} \cup 1..(k - 1) : Place(o) = <<q, m, x>>
    <3>1. Place(o)[2] = 0
      BY <2>5
    <3> QED BY <3>1
  <2>7. PICK i \in 1..(k - 1), z \in Walk :
          /\ rs[i].from \in Path /\ Place(o) = <<q, 0, rs[i].from \o z>>
          /\ \A j \in 1..Len(rs) : j # i /\ rs[j].from \in Path => ~Related(rs[i].from, rs[j].from)
    BY <2>1, <2>6 DEF Ours
  <2>8. rs[i].from \o z = rs[k].from \o y
    <3>1. Place(o)[3] = rs[k].from \o y
      BY <2>5
    <3>2. Place(o)[3] = rs[i].from \o z
      BY <2>7
    <3> QED BY <3>1, <3>2
  <2>9. Related(rs[i].from, rs[k].from)
    <3>1. rs[i].from \in Walk /\ rs[k].from \in Walk
      BY <2>5, <2>7, PathIs
    <3> QED BY <2>8, <3>1, RelatedIs
  <2>10. k # i /\ k \in 1..Len(rs)
    BY <1>1, <1>3
  <2> QED BY <2>5, <2>7, <2>9, <2>10
<1> QED BY <1>2, <1>6, <1>7 DEF p, v

\* What a rule sets nothing on keeps its origin.
LEMMA OriginStays ==
    ASSUME NEW rs, NEW q, NEW body, NEW k, k \in Nat, k > 0, NEW o, NEW x,
           Origin(rs, q, body, k - 1, o, x), Applied(rs, body, k) => ~IsPrefix(rs[k].to, x)
    PROVE  Origin(rs, q, body, k, o, x)
<1>1. ASSUME NEW n \in {-1} \cup 1..(k - 1), Place(o) = <<q, n, x>> PROVE Origin(rs, q, body, k, o, x)
  <2>1. n \in {-1} \cup 1..k
    OBVIOUS
  <2> QED BY <1>1, <2>1 DEF Origin
<1>2. ASSUME NEW i \in 1..(k - 1), NEW y \in Walk, LastOn(rs, body, k - 1, i, x),
             x = rs[i].to \o y, Place(o) = Copied(rs, q, i, y)
      PROVE  Origin(rs, q, body, k, o, x)
  <2>1. i \in 1..k /\ \A j \in (i + 1)..k : j \in (i + 1)..(k - 1) \/ j = k
    OBVIOUS
  <2>2. LastOn(rs, body, k, i, x)
    BY <1>2, <2>1 DEF LastOn
  <2> QED BY <1>2, <2>1, <2>2 DEF Origin
<1> QED BY <1>1, <1>2 DEF Origin

LEMMA RelatedAbove ==
    ASSUME NEW f \in Walk
    PROVE  LET T == {x \in Walk : Related(f, x)}
           IN  <<>> \in T /\ \A x \in Walk, s \in Step : Append(x, s) \in T => x \in T
<1> DEFINE T == {x \in Walk : Related(f, x)}
<1>1. <<>> \in T
  <2>1. <<>> \in Walk /\ Len(<<>>) = 0 /\ Len(f) \in Nat
    BY DEF Walk
  <2>2. IsPrefix(<<>>, f)
    BY <2>1, PrefixIs
  <2> QED BY <2>1, <2>2 DEF Related
<1>2. ASSUME NEW x \in Walk, NEW s \in Step, Append(x, s) \in T PROVE x \in T
  <2> DEFINE y == Append(x, s)
  <2>1. y \in Walk /\ Related(f, y) /\ Len(y) = Len(x) + 1 /\ Len(x) \in Nat /\ Len(y) \in Nat
    BY <1>2 DEF Walk
  <2>2. IsPrefix(x, y)
    <3>1. y = x \o <<s>> /\ <<s>> \in Walk
      BY DEF Walk
    <3> QED BY <3>1, ConcatIs
  <2> HIDE DEF y
  <2>3. CASE IsPrefix(f, y)
    <3>1. IsPrefix(f, x) \/ IsStrictPrefix(x, f)
      BY <2>1, <2>2, <2>3, PrefixTwo
    <3> QED BY <3>1, PrefixIs DEF Related
  <2>4. CASE IsPrefix(y, f)
    <3>1. IsPrefix(x, f)
      BY <2>1, <2>2, <2>4, PrefixTwo
    <3> QED BY <3>1 DEF Related
  <2> QED BY <2>1, <2>3, <2>4 DEF Related
<1> QED BY <1>1, <1>2

\* A rule changes only what is its request's, and nothing of its response that
\* rules to come will look at.
LEMMA ApplySource ==
    ASSUME NEW rs, NEW h, NEW q, NEW root, NEW src, NEW k, NEW body,
           CanApply(rs, h, q, root, src, k, body),
           NEW g, IsSet(g, h, q, root, rs[k].to, Taken(rs, h, src, k)),
           NEW j \in (k + 1)..Len(rs), rs[j].from \in Path
    PROVE  \A x \in Walk : Related(rs[j].from, x) => Get(g, src, x) = Original(q, 0, body, x)
<1> DEFINE p == rs[k].to
           f == rs[j].from
           T == {x \in Walk : Related(f, x)}
<1>1. /\ rs \in RuleLists /\ q \in Request /\ IsTree(body) /\ Shaped(h) /\ IsValue(h, src)
      /\ DOMAIN h \subseteq Name /\ Len(rs) \in Nat /\ DOMAIN rs = 1..Len(rs) /\ k \in Int
      /\ p \in Walk /\ Len(p) \in Nat /\ Good(rs, h, q, root, src, k - 1, body)
  BY ApplyBasics
<1>2. k \in 1..Len(rs) /\ Going(rs, h, q, root, src, k - 1, body) /\ p \in Path
  BY DEF CanApply
<1>3. f \in Walk /\ Len(f) \in Nat /\ j \in 1..Len(rs) /\ k < j
  <2>1. f \in Walk
    BY PathIs
  <2>2. Len(f) \in Nat
    BY <2>1 DEF Walk
  <2>3. j \in 1..Len(rs) /\ k < j
    BY <1>1, <1>2
  <2> QED BY <2>1, <2>2, <2>3
<1>4. \A x \in T : Get(h, src, x) = Original(q, 0, body, x)
  <2>1. j \in ((k - 1) + 1)..Len(rs)
    BY <1>1, <1>2
  <2> QED BY <1>1, <2>1 DEF Good
<1>5. Shaped(g) /\ Extends(h, g)
  BY DEF IsSet
<1> HIDE DEF f
<1>6. ASSUME NEW x \in T, IsNode(h, Get(h, src, x))
      PROVE  g[Cells(Get(h, src, x))] = h[Cells(Get(h, src, x))]
  <2> DEFINE o == Cells(Get(h, src, x))
  <2>1. Place(o) = <<q, 0, x>> /\ o \in DOMAIN h /\ x \in Walk /\ Related(f, x)
    BY <1>2, <1>4, <1>6, SourceNode
  <2>2. ASSUME NEW n \in 1..Len(p), Holds(h, Old(h, root, p, n), p[n]), o = Cells(Old(h, root, p, n))
        PROVE  FALSE
    <3>1. IsNode(h, Old(h, root, p, n))
      BY <2>2 DEF Holds, IsNode
    <3>2. Ours(rs, q, k - 1, o, Upto(p, n - 1))
      BY <1>2, <2>2, <3>1, OursOnWay
    <3> HIDE DEF o
    <3>3. ~\E m \in {-1} \cup 1..(k - 1) : Place(o) = <<q, m, Upto(p, n - 1)>>
      <4>1. Place(o)[2] = 0
        BY <2>1
      <4> QED BY <4>1
    <3>4. PICK i \in 1..(k - 1), z \in Walk :
            /\ rs[i].from \in Path /\ Place(o) = <<q, 0, rs[i].from \o z>>
            /\ \A l \in 1..Len(rs) : l # i /\ rs[l].from \in Path => ~Related(rs[i].from, rs[l].from)
      BY <3>2, <3>3 DEF Ours
    <3>5. x = rs[i].from \o z
      <4>1. Place(o)[3] = x
        BY <2>1
      <4>2. Place(o)[3] = rs[i].from \o z
        BY <3>4
      <4> QED BY <4>1, <4>2
    <3>6. rs[i].from \in Walk /\ IsPrefix(rs[i].from, x)
      <4>1. rs[i].from \in Walk
        BY <3>4, PathIs
      <4> QED BY <3>5, <4>1, ConcatIs
    <3>7. Related(rs[i].from, f)
      BY <1>3, <2>1, <3>6, RelatedIs DEF Related
    <3>8. j # i /\ rs[j].from \in Path
      BY <1>1, <1>2, <1>3
    <3> QED BY <1>3, <3>4, <3>7, <3>8 DEF f
  <2> HIDE DEF o
  <2>3. g[o] = h[o]
    BY <2>1, <2>2 DEF IsSet
  <2> QED BY <2>3 DEF o
<1>7. T \in SUBSET Walk /\ <<>> \in T /\ \A x \in Walk, s \in Step : Append(x, s) \in T => x \in T
  BY <1>3, RelatedAbove
<1> HIDE DEF T
<1>8. \A x \in T : Get(g, src, x) = Get(h, src, x)
  BY <1>1, <1>5, <1>6, <1>7, GetSame
<1>9. \A x \in T : Get(g, src, x) = Original(q, 0, body, x)
  BY <1>4, <1>8
<1> QED BY <1>9 DEF T, f

\* g is h after a step of request q.
Owns(h, g, q) ==
    /\ Shaped(g) /\ Extends(h, g)
    /\ \A o \in DOMAIN h : o[2] # q => g[o] = h[o]
    /\ \A o \in DOMAIN g \ DOMAIN h : o[2] = q

\* What changes a request's own part of the heap leaves the configuration's.
LEMMA ConfigStays ==
    ASSUME NEW rs \in RuleLists, NEW h, ConfigHas(rs, h), ConfigOnly(rs, h), NEW q \in Request,
           NEW g, Owns(h, g, q)
    PROVE  ConfigHas(rs, g) /\ ConfigOnly(rs, g)
<1>1. q # Config /\ DOMAIN h \subseteq DOMAIN g
  BY MappingAssumption, TreeAssumption DEF Owns, Extends
<1>2. ConfigHas(rs, g)
  <2> SUFFICES ASSUME NEW i \in DOMAIN rs, rs[i].from = NoPath,
                      NEW m \in DOMAIN Decode(Config, i, rs[i].value)
               PROVE  m \in DOMAIN g /\ g[m] = Decode(Config, i, rs[i].value)[m]
    BY DEF ConfigHas
  <2>1. m \in DOMAIN h /\ h[m] = Decode(Config, i, rs[i].value)[m]
    BY DEF ConfigHas
  <2>2. m[2] = Config
    <3>1. IsTree(rs[i].value) /\ i \in Int /\ Config \in Request \cup {Config}
      BY RulesAre
    <3> QED BY <3>1, DecodeShaped
  <2> QED BY <1>1, <2>1, <2>2 DEF Owns
<1>3. ConfigOnly(rs, g)
  <2> SUFFICES ASSUME NEW o \in DOMAIN g, o[2] = Config
               PROVE  /\ o[3] \in DOMAIN rs /\ rs[o[3]].from = NoPath
                      /\ o \in DOMAIN Decode(Config, o[3], rs[o[3]].value)
    BY DEF ConfigOnly
  <2>1. o \in DOMAIN h
    BY <1>1 DEF Owns
  <2> QED BY <2>1 DEF ConfigOnly
<1> QED BY <1>2, <1>3

\* A rule changes only maps and cells of its own request.
LEMMA ApplyOwns ==
    ASSUME NEW rs, NEW h, NEW q, NEW root, NEW src, NEW k, NEW body,
           CanApply(rs, h, q, root, src, k, body), rs[k].to # <<>>,
           IsValue(h, Taken(rs, h, src, k))
    PROVE  LET s == SetAt(h, q, root, rs[k].to, Taken(rs, h, src, k))
           IN  Owns(h, s.heap, q) /\ IsValue(s.heap, s.root)
<1> DEFINE p == rs[k].to
           v == Taken(rs, h, src, k)
           s == SetAt(h, q, root, p, v)
           g == s.heap
<1>1. CanSet(h, q, root, p) /\ Unshared(h, root, p)
  BY ApplyFree
<1>2. /\ q \in Request /\ rule[q] \in Int /\ p \in Path /\ Len(p) \in Nat /\ DOMAIN h \subseteq Name
      /\ k \in 1..Len(rs) /\ Going(rs, h, q, root, src, k - 1, body) /\ rs[k].to \in Path
  BY ApplyBasics DEF CanApply
<1> HIDE DEF p, v
<1>3. /\ Shaped(g) /\ Extends(h, g) /\ IsValue(g, s.root)
      /\ DOMAIN g \subseteq DOMAIN h \cup NewNames(q, p, Len(p))
  BY <1>1, SetShaped DEF v
<1>4. IsSet(g, h, q, root, p, v)
  BY <1>1, SetView DEF v
<1> HIDE DEF s
<1>5. ASSUME NEW o \in DOMAIN h, o[2] # q PROVE g[o] = h[o]
  <2>1. ASSUME NEW n \in 1..Len(p), Holds(h, Old(h, root, p, n), p[n]) PROVE o # Cells(Old(h, root, p, n))
    <3>1. IsNode(h, Old(h, root, p, n))
      BY <2>1 DEF Holds, IsNode
    <3>2. Ours(rs, q, k - 1, Cells(Old(h, root, p, n)), Upto(p, n - 1))
      BY <1>2, <3>1, OursOnWay DEF p
    <3> DEFINE c == Cells(Old(h, root, p, n))
    <3> HIDE DEF c
    <3>3. Place(c)[1] = q
      BY <3>2 DEF Ours, c
    <3>4. c[2] = q
      BY <3>3 DEF Place
    <3> QED BY <1>5, <3>4 DEF c
  <2> QED BY <1>4, <2>1 DEF IsSet
<1>6. ASSUME NEW o \in DOMAIN g \ DOMAIN h PROVE o[2] = q
  <2>1. PICK n \in 1..Len(p) : o = NewName(q, p, n)
    BY <1>3 DEF NewNames
  <2> QED BY <1>2, <2>1, NewNameIs
<1>7. Owns(h, g, q)
  BY <1>3, <1>5, <1>6 DEF Owns
<1> QED BY <1>3, <1>7 DEF s, p, v

\* Where the nodes of the document are from, after a rule.
LEMMA ApplyOrigin ==
    ASSUME NEW rs, NEW h, NEW q, NEW root, NEW src, NEW k, NEW body,
           CanApply(rs, h, q, root, src, k, body), rs[k].to # <<>>,
           IsValue(h, Taken(rs, h, src, k)),
           NEW x \in Walk
    PROVE  LET s == SetAt(h, q, root, rs[k].to, Taken(rs, h, src, k))
           IN  IsNode(s.heap, Get(s.heap, s.root, x)) =>
                  Origin(rs, q, body, k, Cells(Get(s.heap, s.root, x)), x)
<1> DEFINE p == rs[k].to
           v == Taken(rs, h, src, k)
           s == SetAt(h, q, root, p, v)
           g == s.heap
           r == s.root
<1> SUFFICES ASSUME IsNode(g, Get(g, r, x)) PROVE Origin(rs, q, body, k, Cells(Get(g, r, x)), x)
  OBVIOUS
<1>1. CanSet(h, q, root, p) /\ Unshared(h, root, p) /\ Apart(h, root, p, v)
  BY ApplyFree
<1>2. /\ q \in Request /\ rule[q] = k /\ p \in Path /\ p \in Walk /\ Len(p) \in Nat /\ DOMAIN h \subseteq Name
      /\ k \in 1..Len(rs) /\ Len(rs) \in Nat /\ k \in Nat /\ k > 0 /\ Shaped(h) /\ rule[q] \in Int
      /\ Going(rs, h, q, root, src, k - 1, body) /\ Good(rs, h, q, root, src, k - 1, body)
      /\ IsValue(h, root)
      /\ rs[k].from = NoPath \/ rs[k].from \in Path
      /\ rs[k].from # NoPath => Get(h, src, rs[k].from) # Missing
  <2>1. /\ q \in Request /\ p \in Walk /\ Len(p) \in Nat /\ DOMAIN h \subseteq Name
        /\ Len(rs) \in Nat /\ Shaped(h) /\ IsValue(h, root) /\ Good(rs, h, q, root, src, k - 1, body)
    BY ApplyBasics
  <2>2. /\ k \in 1..Len(rs) /\ rule[q] = k /\ p \in Path /\ Going(rs, h, q, root, src, k - 1, body)
        /\ rs[k].from = NoPath \/ rs[k].from \in Path
        /\ rs[k].from # NoPath => Get(h, src, rs[k].from) # Missing
    BY DEF CanApply
  <2> QED BY <2>1, <2>2
<1>3. /\ Applied(rs, body, k)
      /\ \A y \in Walk : IsNode(h, Get(h, v, y)) => Place(Cells(Get(h, v, y))) = Copied(rs, q, k, y)
  <2>1. TakenAs(rs, h, q, k, body, v)
    BY <1>2, TakenIs
  <2> QED BY <2>1 DEF TakenAs
<1> HIDE DEF p, v
<1>4. /\ \A n \in 1..Len(p) : Get(g, r, Upto(p, n - 1)) = Box(h, q, root, p, n)
      /\ \A y \in Walk : Get(g, r, p \o y) = Get(h, v, y)
      /\ \A y \in Walk, n \in 1..Len(p) : Leaves(p, y, n) => Get(g, r, y) = Beside(h, root, p, y, n)
  BY <1>1, SetGet DEF v
<1>5. IsSet(g, h, q, root, p, v)
  BY <1>1, SetView DEF v
<1> HIDE DEF s
<1>6. Shaped(g) /\ Extends(h, g) /\ DOMAIN g \subseteq Name
  BY <1>5 DEF IsSet, Shaped
<1>7. \A w : (IsValue(h, w) \/ w = Missing) /\ IsNode(g, w) => IsNode(h, w)
  BY <1>2, <1>6, ValueStays DEF IsNode
<1>8. ~IsNode(g, Null) /\ ~IsNode(g, Missing)
  BY <1>6, Kinds, NullIs DEF IsNode
<1>9. ASSUME IsNode(h, Get(h, root, x)), ~IsPrefix(p, x),
             Cells(Get(g, r, x)) = Cells(Get(h, root, x))
      PROVE  Origin(rs, q, body, k, Cells(Get(g, r, x)), x)
  <2>1. Origin(rs, q, body, k - 1, Cells(Get(h, root, x)), x)
    BY <1>2, <1>9 DEF Good
  <2> QED BY <1>2, <1>9, <2>1, OriginStays DEF p
<1>10. CASE IsPrefix(p, x)
  <2> DEFINE y == After(p, x)
  <2>1. y \in Walk /\ x = p \o y
    BY <1>2, <1>10, AfterIs
  <2> HIDE DEF y
  <2>2. Get(g, r, x) = Get(h, v, y)
    BY <1>4, <2>1
  <2>3. IsNode(h, Get(h, v, y))
    BY <1>2, <1>7, <2>1, <2>2, GetValue DEF v
  <2>4. Place(Cells(Get(g, r, x))) = Copied(rs, q, k, y)
    BY <1>3, <2>1, <2>2, <2>3
  <2>5. k \in 1..k /\ (k + 1)..k = {}
    BY <1>2
  <2>6. LastOn(rs, body, k, k, x)
    BY <1>3, <1>10, <2>5 DEF LastOn, p
  <2> QED BY <2>1, <2>4, <2>5, <2>6 DEF Origin, p
<1>11. CASE IsStrictPrefix(x, p)
  <2>1. PICK n \in 1..Len(p) : x = Upto(p, n - 1)
    BY <1>2, <1>11, StepsIs
  <2>2. Get(g, r, x) = Box(h, q, root, p, n)
    BY <1>4, <2>1
  <2>3. \/ Cells(Box(h, q, root, p, n)) = NewName(q, p, n)
        \/ Holds(h, Old(h, root, p, n), p[n])
           /\ Cells(Box(h, q, root, p, n)) = Cells(Old(h, root, p, n))
    BY <1>5 DEF IsSet
  <2>4. CASE Cells(Box(h, q, root, p, n)) = NewName(q, p, n)
    <3>1. Place(NewName(q, p, n)) = <<q, k, x>>
      BY <1>2, <2>1, NewNameIs DEF Place
    <3>2. k \in {-1} \cup 1..k
      BY <1>2
    <3> QED BY <2>2, <2>4, <3>1, <3>2 DEF Origin
  <2>5. CASE Holds(h, Old(h, root, p, n), p[n])
             /\ Cells(Box(h, q, root, p, n)) = Cells(Old(h, root, p, n))
    <3>1. Old(h, root, p, n) = Get(h, root, x)
      BY <2>1 DEF Old
    <3>2. IsNode(h, Get(h, root, x))
      BY <2>5, <3>1 DEF Holds, IsNode
    <3>3. ~IsPrefix(p, x)
      <4>1. Len(x) < Len(p) /\ Len(x) \in Nat
        BY <1>2, <1>11, PrefixIs DEF Walk
      <4> QED BY <1>2, <4>1, PrefixIs
    <3> QED BY <1>9, <2>2, <2>5, <3>1, <3>2, <3>3
  <2> QED BY <2>3, <2>4, <2>5
<1>12. CASE ~IsPrefix(p, x) /\ ~IsStrictPrefix(x, p)
  <2>1. PICK n \in 1..Len(p) : Leaves(p, x, n)
    BY <1>2, <1>12, PartAt DEF Leaves
  <2>2. Get(g, r, x) = Beside(h, root, p, x, n)
    BY <1>4, <2>1
  <2>3. Get(g, r, x) = Get(h, root, x)
    BY <1>8, <2>2 DEF Beside
  <2>4. IsNode(h, Get(h, root, x))
    BY <1>2, <1>7, <2>3, GetValue
  <2> QED BY <1>9, <1>12, <2>3, <2>4
<1>13. Origin(rs, q, body, k, Cells(Get(g, r, x)), x)
  BY <1>10, <1>11, <1>12
<1> QED BY <1>13

\* What a rule makes of the document is what it means.
LEMMA ApplyMeaning ==
    ASSUME NEW rs, NEW h, NEW q, NEW root, NEW src, NEW k, NEW body,
           CanApply(rs, h, q, root, src, k, body), NEW d,
           d = Graft(Document(h, root), rs[k].to, Document(h, Taken(rs, h, src, k)))
    PROVE  d = Outcome(rs, body)[k]
<1> DEFINE out == Outcome(rs, body)[k - 1]
           v == Taken(rs, h, src, k)
<1>1. /\ rs \in RuleLists /\ Len(rs) \in Nat /\ k \in 1..Len(rs) /\ Shaped(h) /\ IsValue(h, root)
      /\ Good(rs, h, q, root, src, k - 1, body)
  BY ApplyBasics DEF CanApply
<1>2. /\ Going(rs, h, q, root, src, k - 1, body) /\ rs[k].to \in Path
      /\ rs[k].from = NoPath \/ rs[k].from \in Path
      /\ rs[k].from # NoPath => Get(h, src, rs[k].from) # Missing
  BY DEF CanApply
<1>3. /\ Applied(rs, body, k)
      /\ Document(h, v) = IF rs[k].from = NoPath THEN rs[k].value ELSE Below(body, rs[k].from)
  <2>1. k \in 1..Len(rs)
    BY <1>1
  <2>2. TakenAs(rs, h, q, k, body, v)
    BY <1>2, <2>1, TakenIs
  <2> HIDE DEF v
  <2> QED BY <2>2 DEF TakenAs
<1>4. out = Document(h, root)
  BY <1>1 DEF Good
<1>5. out # Failed
  <2>1. <<>> \in DOMAIN out
    BY <1>1, <1>4, DocumentTree DEF IsTree
  <2>2. DOMAIN Failed = {}
    BY DEF Failed
  <2> QED BY <2>1, <2>2
<1>6. Outcome(rs, body)[k] = Meaning(body, out, rs[k])
  BY <1>1, OutcomeIs
<1>7. ~Refused(rs[k]) /\ rs[k].to # BadPath
  <2>1. rs[k].to \notin {BadPath}
    BY <1>2, MappingAssumption, TreeAssumption
  <2> QED BY <2>1 DEF CanApply
<1>8. rs[k].from # NoPath => rs[k].from \in DOMAIN body
  BY <1>3 DEF Applied
<1> HIDE DEF out, v
<1>9. Meaning(body, out, rs[k]) =
        Graft(out, rs[k].to, IF rs[k].from = NoPath THEN rs[k].value ELSE Below(body, rs[k].from))
  BY <1>5, <1>7, <1>8 DEF Meaning
<1> QED BY <1>3, <1>4, <1>6, <1>9 DEF v

\* All that is known of a request in progress holds after its next rule.
LEMMA ApplyGood ==
    ASSUME NEW rs, NEW h, NEW q, NEW root, NEW src, NEW k, NEW body,
           CanApply(rs, h, q, root, src, k, body)
    PROVE  LET s == Set(h, q, root, rs[k].to, Taken(rs, h, src, k))
           IN  Going(rs, s.heap, q, s.root, src, k, body) /\ Owns(h, s.heap, q)
<1> DEFINE p == rs[k].to
           v == Taken(rs, h, src, k)
           s == Set(h, q, root, p, v)
           g == s.heap
           r == s.root
<1>1. /\ rs \in RuleLists /\ AliasFree(rs) /\ q \in Request /\ IsTree(body)
      /\ Shaped(h) /\ IsValue(h, root) /\ IsValue(h, src) /\ p \in Walk
      /\ Len(rs) \in Nat /\ k \in Int /\ Good(rs, h, q, root, src, k - 1, body)
  BY ApplyBasics
<1>2. /\ k \in 1..Len(rs) /\ Going(rs, h, q, root, src, k - 1, body) /\ p \in Path
      /\ rs[k].from = NoPath \/ rs[k].from \in Path
      /\ rs[k].from # NoPath => Get(h, src, rs[k].from) # Missing
  BY DEF CanApply
<1>3. /\ Applied(rs, body, k) /\ IsValue(h, v)
      /\ \A y \in Walk : IsNode(h, Get(h, v, y)) => Place(Cells(Get(h, v, y))) = Copied(rs, q, k, y)
  <2>1. TakenAs(rs, h, q, k, body, v)
    BY <1>2, TakenIs
  <2> HIDE DEF v
  <2> QED BY <2>1 DEF TakenAs
<1> HIDE DEF p, v
<1>4. CASE p = <<>>
  <2>1. g = h /\ r = v
    BY <1>4 DEF Set
  <2> HIDE DEF s
  <2>2. Owns(h, h, q)
    BY <1>1 DEF Owns, Extends
  <2>3. ASSUME NEW x \in Walk, IsNode(h, Get(h, v, x)) PROVE Origin(rs, q, body, k, Cells(Get(h, v, x)), x)
    <3>1. x = p \o x /\ IsPrefix(p, x)
      <4>1. p \o x = x
        BY <1>4 DEF Walk
      <4> QED BY <1>1, <4>1, ConcatIs
    <3>2. k \in 1..k /\ (k + 1)..k = {}
      BY <1>1, <1>2
    <3>3. LastOn(rs, body, k, k, x)
      BY <1>3, <3>1, <3>2 DEF LastOn, p
    <3> QED BY <1>3, <2>3, <3>1, <3>2, <3>3 DEF Origin, p
  <2>4. ASSUME NEW j \in (k + 1)..Len(rs), rs[j].from \in Path, NEW x \in Walk, Related(rs[j].from, x)
        PROVE  Get(h, src, x) = Original(q, 0, body, x)
    <3>1. j \in ((k - 1) + 1)..Len(rs)
      BY <1>1
    <3> QED BY <1>1, <2>4, <3>1 DEF Good
  <2>5. Document(h, v) = Outcome(rs, body)[k]
    BY <1>4, ApplyMeaning, DocumentRoot DEF p, v
  <2>6. \A j \in 1..k : Applied(rs, body, j) => rs[j].to \in Path
    <3>1. \A j \in 1..k : j \in 1..(k - 1) \/ j = k
      BY <1>1
    <3> QED BY <1>1, <1>2, <3>1 DEF Good, p
  <2>7. Good(rs, h, q, v, src, k, body)
    BY <2>3, <2>4, <2>5, <2>6 DEF Good
  <2>8. k \in 0..Len(rs)
    BY <1>2
  <2> QED BY <1>2, <1>3, <2>1, <2>2, <2>7, <2>8 DEF Going, s, p, v
<1>5. CASE p # <<>>
  <2>1. s = SetAt(h, q, root, p, v)
    BY <1>5 DEF Set
  <2>2. Owns(h, g, q) /\ IsValue(g, r)
    BY <1>3, <1>5, <2>1, ApplyOwns DEF p, v
  <2>3. ASSUME NEW x \in Walk, IsNode(g, Get(g, r, x)) PROVE Origin(rs, q, body, k, Cells(Get(g, r, x)), x)
    BY <1>3, <1>5, <2>1, <2>3, ApplyOrigin DEF p, v
  <2>4. CanSet(h, q, root, p) /\ Unshared(h, root, p) /\ Apart(h, root, p, v)
    BY <1>5, ApplyFree DEF p, v
  <2>5. Document(g, r) = Graft(Document(h, root), p, Document(h, v)) /\ IsSet(g, h, q, root, p, v)
    BY <1>3, <2>1, <2>4, DocumentSet, SetView
  <2> HIDE DEF s
  <2>6. Document(g, r) = Outcome(rs, body)[k]
    BY <2>5, ApplyMeaning DEF p, v
  <2>7. ASSUME NEW j \in (k + 1)..Len(rs), rs[j].from \in Path
        PROVE  \A x \in Walk : Related(rs[j].from, x) => Get(g, src, x) = Original(q, 0, body, x)
    BY <2>5, <2>7, ApplySource DEF p, v
  <2>8. \A j \in 1..k : Applied(rs, body, j) => rs[j].to \in Path
    <3>1. \A j \in 1..k : j \in 1..(k - 1) \/ j = k
      BY <1>1
    <3> QED BY <1>1, <1>2, <3>1 DEF Good, p
  <2>9. Good(rs, g, q, r, src, k, body)
    BY <2>3, <2>6, <2>7, <2>8 DEF Good
  <2>10. ConfigHas(rs, g) /\ ConfigOnly(rs, g)
    BY <1>1, <1>2, <2>2, ConfigStays DEF Going
  <2>11. Shaped(g) /\ IsValue(g, src)
    BY <1>1, <2>2, ValueStays DEF Owns, Shaped
  <2>12. k \in 0..Len(rs)
    BY <1>2
  <2>13. Going(rs, g, q, r, src, k, body)
    BY <1>1, <2>2, <2>9, <2>10, <2>11, <2>12 DEF Going
  <2> QED BY <2>2, <2>13 DEF s, p, v
<1> QED BY <1>4, <1>5

\* A rule whose value is missing changes nothing and means nothing.
LEMMA SkipGood ==
    ASSUME NEW rs, NEW h, NEW q, NEW root, NEW src, NEW k \in 1..Len(rs), NEW body,
           Going(rs, h, q, root, src, k - 1, body),
           ~Refused(rs[k]), rs[k].from # NoPath, Get(h, src, rs[k].from) = Missing
    PROVE  Going(rs, h, q, root, src, k, body)
<1>1. /\ rs \in RuleLists /\ q \in Request /\ IsTree(body) /\ Shaped(h) /\ IsValue(h, root)
      /\ Good(rs, h, q, root, src, k - 1, body)
  BY DEF Going
<1>2. Len(rs) \in Nat /\ k \in Nat /\ k > 0 /\ k \in 0..Len(rs) /\ rs[k].from \in Path
  BY <1>1, RulesAre DEF Refused
<1> DEFINE f == rs[k].from
<1>3. f \in Walk /\ IsPrefix(f, f)
  <2>1. f \in Walk
    BY <1>2, PathIs
  <2>2. Len(f) \in Nat
    BY <2>1 DEF Walk
  <2> HIDE DEF f
  <2> QED BY <2>1, <2>2, PrefixIs
<1>4. Get(h, src, f) = Original(q, 0, body, f)
  <2>1. k \in ((k - 1) + 1)..Len(rs)
    BY <1>2
  <2> QED BY <1>1, <1>2, <1>3, <2>1 DEF Good, Related
<1>5. f \notin DOMAIN body
  BY <1>3, <1>4, SourceNode
<1>6. ~Applied(rs, body, k)
  BY <1>5 DEF Applied
<1>7. Outcome(rs, body)[k] = Outcome(rs, body)[k - 1]
  <2> DEFINE out == Outcome(rs, body)[k - 1]
  <2>1. Outcome(rs, body)[k] = Meaning(body, out, rs[k])
    BY <1>2, OutcomeIs
  <2> HIDE DEF out
  <2>2. Meaning(body, out, rs[k]) = IF out = Failed THEN Failed ELSE out
    BY <1>5 DEF Meaning
  <2> QED BY <2>1, <2>2 DEF out
<1>8. ASSUME NEW x \in Walk, IsNode(h, Get(h, root, x)) PROVE Origin(rs, q, body, k, Cells(Get(h, root, x)), x)
  <2>1. Origin(rs, q, body, k - 1, Cells(Get(h, root, x)), x)
    BY <1>1, <1>8 DEF Good
  <2> QED BY <1>2, <1>6, <2>1, OriginStays
<1>9. ASSUME NEW j \in (k + 1)..Len(rs), rs[j].from \in Path, NEW x \in Walk, Related(rs[j].from, x)
      PROVE  Get(h, src, x) = Original(q, 0, body, x)
  <2>1. j \in ((k - 1) + 1)..Len(rs)
    BY <1>2
  <2> QED BY <1>1, <1>9, <2>1 DEF Good
<1>10. \A j \in 1..k : Applied(rs, body, j) => rs[j].to \in Path
  <2>1. \A j \in 1..k : j \in 1..(k - 1) \/ j = k
    BY <1>2
  <2> QED BY <1>1, <1>6, <2>1 DEF Good
<1>11. Good(rs, h, q, root, src, k, body)
  BY <1>1, <1>7, <1>8, <1>9, <1>10 DEF Good
<1> QED BY <1>2, <1>11 DEF Going

-----------------------------------------------------------------------------
(* A response comes in, and others are mapped meanwhile *)

LEMMA JoinedIs ==
    ASSUME NEW f, Shaped(f), NEW h, Shaped(h), DOMAIN f \cap DOMAIN h = {}
    PROVE  LET g == Joined(f, h)
           IN  /\ Shaped(g) /\ Extends(f, g) /\ Extends(h, g) /\ DOMAIN g = DOMAIN f \cup DOMAIN h
               /\ \A o \in DOMAIN f : g[o] = f[o]
               /\ \A o \in DOMAIN h : g[o] = h[o]
<1> DEFINE g == Joined(f, h)
<1>1. /\ DOMAIN g = DOMAIN f \cup DOMAIN h
      /\ \A o \in DOMAIN f : g[o] = f[o]
      /\ \A o \in DOMAIN h : g[o] = h[o]
  BY DEF Joined
<1> HIDE DEF g
<1>2. DOMAIN g \subseteq Name
  BY <1>1 DEF Shaped
<1>3. Extends(f, g) /\ Extends(h, g)
  BY <1>1 DEF Extends
<1>4. ASSUME NEW v PROVE (IsValue(f, v) => IsValue(g, v)) /\ (IsValue(h, v) => IsValue(g, v))
  BY <1>2, <1>3, ValueStays
<1>5. ASSUME NEW o \in DOMAIN g
      PROVE  /\ o[1] = Map => DOMAIN g[o] \subseteq Key
             /\ o[1] # Map => \E c \in Nat : DOMAIN g[o] = 0..(c - 1)
             /\ \A s \in DOMAIN g[o] : IsValue(g, g[o][s])
  <2>1. CASE o \in DOMAIN f
    <3>1. g[o] = f[o]
      BY <1>1, <2>1
    <3> QED BY <1>4, <2>1, <3>1 DEF Shaped
  <2>2. CASE o \in DOMAIN h
    <3>1. g[o] = h[o]
      BY <1>1, <2>2
    <3> QED BY <1>4, <2>2, <3>1 DEF Shaped
  <2> QED BY <1>1, <2>1, <2>2
<1>6. Shaped(g)
  BY <1>2, <1>5 DEF Shaped
<1> QED BY <1>1, <1>3, <1>6 DEF g

\* The heap when q's response has come in.
Begun(h, q, body) == Joined(Decode(q, 0, body), Joined(Decode(q, -1, Empty), h))

LEMMA BegunIs ==
    ASSUME NEW h, Shaped(h), NEW q \in Request, \A o \in DOMAIN h : o[2] # q, NEW body, IsTree(body)
    PROVE  LET g    == Begun(h, q, body)
               root == <<Map, q, -1, <<>> >>
               src  == ValueAt(q, 0, body, <<>>)
           IN  /\ Owns(h, g, q)
               /\ \A o \in DOMAIN g : o \in DOMAIN h \/ (o[2] = q /\ o[3] \in {-1, 0} /\ o[4] \in Path)
               /\ IsValue(g, root) /\ IsValue(g, src) /\ root = ValueAt(q, -1, Empty, <<>>)
               /\ \A m \in DOMAIN Decode(q, 0, body) : m \in DOMAIN g /\ g[m] = Decode(q, 0, body)[m]
               /\ \A m \in DOMAIN Decode(q, -1, Empty) :
                     m \in DOMAIN g /\ g[m] = Decode(q, -1, Empty)[m]
<1> DEFINE a == Decode(q, 0, body)
           b == Decode(q, -1, Empty)
           c == Joined(b, h)
           g == Joined(a, c)
<1>1. IsTree(Empty) /\ Empty[<<>>] = Map /\ q \in Request \cup {Config} /\ DOMAIN Empty = {<<>>}
  BY EmptyTree
<1>2. Shaped(a) /\ \A m \in DOMAIN a : m[2] = q /\ m[3] = 0
  BY <1>1, DecodeShaped
<1>3. Shaped(b) /\ \A m \in DOMAIN b : m[2] = q /\ m[3] = -1
  BY <1>1, DecodeShaped
<1> HIDE DEF a, b
<1>4. DOMAIN b \cap DOMAIN h = {}
  BY <1>3
<1>5. /\ Shaped(c) /\ Extends(b, c) /\ Extends(h, c) /\ DOMAIN c = DOMAIN b \cup DOMAIN h
      /\ \A o \in DOMAIN b : c[o] = b[o]
      /\ \A o \in DOMAIN h : c[o] = h[o]
  BY <1>3, <1>4, JoinedIs
<1>6. DOMAIN a \cap DOMAIN c = {}
  BY <1>2, <1>3, <1>5
<1> HIDE DEF c
<1>7. /\ Shaped(g) /\ Extends(a, g) /\ Extends(c, g) /\ DOMAIN g = DOMAIN a \cup DOMAIN c
      /\ \A o \in DOMAIN a : g[o] = a[o]
      /\ \A o \in DOMAIN c : g[o] = c[o]
  <2>1. Shaped(a) /\ Shaped(c)
    BY <1>2, <1>5
  <2> QED BY <1>6, <2>1, JoinedIs
<1> HIDE DEF g
<1>8. Extends(h, g)
  BY <1>5, <1>7, ExtendsTwo
<1>9. /\ \A o \in DOMAIN h : g[o] = h[o]
      /\ \A o \in DOMAIN b : o \in DOMAIN g /\ g[o] = b[o]
      /\ \A o \in DOMAIN a : o \in DOMAIN g /\ g[o] = a[o]
  BY <1>5, <1>7
<1>10. Owns(h, g, q)
  BY <1>2, <1>3, <1>5, <1>7, <1>8, <1>9 DEF Owns
<1>11. \A o \in DOMAIN g : o \in DOMAIN h \/ (o[2] = q /\ o[3] \in {-1, 0} /\ o[4] \in Path)
  <2>1. \A o \in DOMAIN g : o[4] \in Path
    BY <1>7 DEF Shaped, Name
  <2> QED BY <1>2, <1>3, <1>5, <1>7, <2>1
<1>12. <<Map, q, -1, <<>> >> = ValueAt(q, -1, Empty, <<>>)
  <2> DEFINE t == Empty
             x == <<>>
  <2>1. t[x] = Map /\ Map # List
    BY <1>1, MappingAssumption, TreeAssumption
  <2> HIDE DEF t, x
  <2>2. \A n : ValueAt(q, n, t, x) = <<Map, q, n, x>>
    BY <2>1 DEF ValueAt
  <2> QED BY <2>2 DEF t, x
<1>13. DOMAIN g \subseteq Name /\ <<>> \in DOMAIN body
  BY <1>7 DEF Shaped, IsTree
<1>14. IsValue(g, ValueAt(q, -1, Empty, <<>>))
  BY <1>1, <1>9, <1>13, ValueAtIs DEF b
<1>15. IsValue(g, ValueAt(q, 0, body, <<>>))
  BY <1>1, <1>9, <1>13, ValueAtIs DEF a
<1> QED BY <1>9, <1>10, <1>11, <1>12, <1>14, <1>15 DEF Begun, g, c, a, b

\* It holds at the start, for an empty document and a decoded response.
LEMMA BeginGood ==
    ASSUME NEW rs, rs \in RuleLists, AliasFree(rs), NEW h, Shaped(h), ConfigHas(rs, h), ConfigOnly(rs, h),
           NEW q \in Request, \A o \in DOMAIN h : o[2] # q, NEW body, IsTree(body)
    PROVE  Going(rs, Begun(h, q, body), q, <<Map, q, -1, <<>> >>, ValueAt(q, 0, body, <<>>), 0, body)
<1> DEFINE g    == Begun(h, q, body)
           root == <<Map, q, -1, <<>> >>
           src  == ValueAt(q, 0, body, <<>>)
<1>1. /\ Owns(h, g, q)
      /\ IsValue(g, root) /\ IsValue(g, src) /\ root = ValueAt(q, -1, Empty, <<>>)
      /\ \A m \in DOMAIN Decode(q, 0, body) : m \in DOMAIN g /\ g[m] = Decode(q, 0, body)[m]
      /\ \A m \in DOMAIN Decode(q, -1, Empty) : m \in DOMAIN g /\ g[m] = Decode(q, -1, Empty)[m]
  BY BegunIs
<1>2. ConfigHas(rs, g) /\ ConfigOnly(rs, g) /\ Shaped(g) /\ DOMAIN g \subseteq Name
  BY <1>1, ConfigStays DEF Owns, Shaped
<1>3. q \in Request \cup {Config} /\ -1 \in Int /\ IsTree(Empty) /\ Len(rs) \in Nat
  BY EmptyTree, RulesAre
<1> HIDE DEF g
<1>4. \A x \in Walk : Get(g, src, x) = Original(q, 0, body, x)
  BY <1>1, <1>2, <1>3, GetDecode
<1>5. \A x \in Walk : Get(g, root, x) = Original(q, -1, Empty, x)
  BY <1>1, <1>2, <1>3, GetDecode
<1>6. Document(g, root) = Outcome(rs, body)[0]
  <2>1. Document(g, root) = Empty
    BY <1>1, <1>2, <1>3, DocumentDecode
  <2> QED BY <1>3, <2>1, OutcomeIs
<1> HIDE DEF root, src
<1>7. ASSUME NEW x \in Walk, IsNode(g, Get(g, root, x)) PROVE Origin(rs, q, body, 0, Cells(Get(g, root, x)), x)
  <2>1. x \in DOMAIN Empty
    <3>1. ~IsNode(g, Missing)
      BY <1>2, Kinds DEF IsNode
    <3> QED BY <1>5, <1>7, <3>1 DEF Original
  <2>2. Get(g, root, x) = ValueAt(q, -1, Empty, x)
    BY <1>5, <2>1 DEF Original
  <2>3. Place(Cells(Get(g, root, x))) = <<q, -1, x>>
    BY <1>2, <1>3, <1>7, <2>1, <2>2, ValueAtPlace DEF Place
  <2>4. -1 \in {-1} \cup 1..0
    OBVIOUS
  <2> QED BY <2>3, <2>4 DEF Origin
<1>8. Good(rs, g, q, root, src, 0, body)
  BY <1>4, <1>6, <1>7 DEF Good
<1>9. 0 \in 0..Len(rs)
  BY <1>3
<1> QED BY <1>1, <1>2, <1>8, <1>9 DEF Going, g, root, src

\* Another request's step leaves a request's documents as they are.
LEMMA OthersGood ==
    ASSUME NEW rs, NEW h, NEW s, NEW root, NEW src, NEW k, NEW body,
           Going(rs, h, s, root, src, k, body), NEW q \in Request, q # s, NEW g, Owns(h, g, q)
    PROVE  Going(rs, g, s, root, src, k, body)
<1>1. /\ rs \in RuleLists /\ s \in Request /\ IsTree(body) /\ Shaped(h) /\ IsValue(h, root) /\ IsValue(h, src)
      /\ DOMAIN h \subseteq Name /\ ConfigHas(rs, h) /\ ConfigOnly(rs, h)
      /\ Good(rs, h, s, root, src, k, body)
  BY DEF Going, Shaped
<1>2. Shaped(g) /\ Extends(h, g) /\ DOMAIN g \subseteq Name /\ q # Config
      /\ \A o \in DOMAIN h : o[2] # q => g[o] = h[o]
  BY MappingAssumption, TreeAssumption DEF Owns, Shaped
<1>3. \A v : IsNode(h, v) => Cells(v) \in DOMAIN h
  BY <1>1, Kinds DEF IsNode
<1>4. \A o, x : Origin(rs, s, body, k, o, x) => o[2] # q
  <2> SUFFICES ASSUME NEW o, NEW x, Origin(rs, s, body, k, o, x) PROVE o[2] # q
    OBVIOUS
  <2>1. ASSUME NEW n, Place(o) = <<s, n, x>> PROVE o[2] # q
    BY <2>1 DEF Place
  <2>2. ASSUME NEW i, NEW y, Place(o) = Copied(rs, s, i, y) PROVE o[2] # q
    <3>1. Place(o)[1] = Config \/ Place(o)[1] = s
      BY <2>2 DEF Copied
    <3>2. Place(o)[1] = o[2]
      BY DEF Place
    <3> QED BY <1>2, <3>1, <3>2
  <2> QED BY <2>1, <2>2 DEF Origin
<1>5. \A x \in Walk : Get(g, root, x) = Get(h, root, x)
  <2>1. \A x \in Walk : IsNode(h, Get(h, root, x)) => g[Cells(Get(h, root, x))] = h[Cells(Get(h, root, x))]
    BY <1>1, <1>2, <1>3, <1>4 DEF Good
  <2>2. Walk \in SUBSET Walk /\ <<>> \in Walk
    BY DEF Walk
  <2> QED BY <1>1, <1>2, <2>1, <2>2, GetSame
<1>6. ASSUME NEW j \in (k + 1)..Len(rs), rs[j].from \in Path
      PROVE  \A x \in Walk : Related(rs[j].from, x) => Get(g, src, x) = Original(s, 0, body, x)
  <2> DEFINE f == rs[j].from
             T == {x \in Walk : Related(f, x)}
  <2>1. \A x \in T : Get(h, src, x) = Original(s, 0, body, x)
    BY <1>1, <1>6 DEF Good
  <2>2. f \in Walk
    BY <1>6, PathIs
  <2> HIDE DEF f
  <2>3. T \in SUBSET Walk /\ <<>> \in T /\ \A x \in Walk, i \in Step : Append(x, i) \in T => x \in T
    BY <2>2, RelatedAbove
  <2>4. ASSUME NEW x \in T, IsNode(h, Get(h, src, x))
        PROVE  g[Cells(Get(h, src, x))] = h[Cells(Get(h, src, x))]
    <3>1. Place(Cells(Get(h, src, x))) = <<s, 0, x>>
      BY <2>1, <2>4, SourceNode
    <3>2. Cells(Get(h, src, x))[2] = s
      BY <3>1 DEF Place
    <3> QED BY <1>2, <1>3, <2>4, <3>2
  <2> HIDE DEF T
  <2>5. \A x \in T : Get(g, src, x) = Get(h, src, x)
    BY <1>1, <1>2, <2>3, <2>4, GetSame
  <2> QED BY <2>1, <2>5 DEF T, f
<1>7. Document(g, root) = Document(h, root)
  <2> DEFINE d == Document(h, root)
             e == Document(g, root)
  <2>1. /\ DOMAIN d = {x \in Path : Get(h, root, x) # Missing}
        /\ \A x \in DOMAIN d : d[x] = Written(h, Get(h, root, x))
        /\ d = [x \in DOMAIN d |-> d[x]]
    BY DocumentIs
  <2>2. /\ DOMAIN e = {x \in Path : Get(g, root, x) # Missing}
        /\ \A x \in DOMAIN e : e[x] = Written(g, Get(g, root, x))
        /\ e = [x \in DOMAIN e |-> e[x]]
    BY DocumentIs
  <2> HIDE DEF d, e
  <2>3. Path \subseteq Walk
    BY PathIs
  <2>4. DOMAIN d = DOMAIN e
    BY <1>5, <2>1, <2>2, <2>3
  <2>5. ASSUME NEW x \in DOMAIN d PROVE e[x] = d[x]
    <3>1. x \in Walk /\ x \in DOMAIN e /\ Get(h, root, x) # Missing
      BY <2>1, <2>3, <2>4
    <3>2. IsValue(h, Get(h, root, x)) /\ Get(g, root, x) = Get(h, root, x)
      BY <1>1, <1>5, <3>1, GetValue
    <3>3. Written(g, Get(h, root, x)) = Written(h, Get(h, root, x))
      BY <1>1, <1>2, <3>2, WrittenStays
    <3> QED BY <2>1, <2>2, <3>1, <3>2, <3>3
  <2> QED BY <2>1, <2>2, <2>4, <2>5 DEF d, e
<1>8. ASSUME NEW x \in Walk, IsNode(g, Get(g, root, x))
      PROVE  Origin(rs, s, body, k, Cells(Get(g, root, x)), x)
  <2>1. IsNode(h, Get(h, root, x))
    <3>1. IsValue(h, Get(h, root, x)) \/ Get(h, root, x) = Missing
      BY <1>1, GetValue
    <3> QED BY <1>1, <1>2, <1>5, <1>8, <3>1, ValueStays DEF IsNode
  <2> QED BY <1>1, <1>5, <2>1 DEF Good
<1>9. Good(rs, g, s, root, src, k, body)
  BY <1>1, <1>6, <1>7, <1>8 DEF Good
<1>10. IsValue(g, root) /\ IsValue(g, src) /\ ConfigHas(rs, g) /\ ConfigOnly(rs, g)
  BY <1>1, <1>2, ValueStays, ConfigStays
<1> QED BY <1>2, <1>9, <1>10 DEF Going

-----------------------------------------------------------------------------
(* What two requests use at once *)

\* q is at its next rule or at the end, and has kept to what the rules mean.
Mapping(q) ==
    /\ Going(rules, heap, q, output[q], source[q], rule[q] - 1, got[q].body)
    /\ rule[q] \in 1..(Len(rules) + 1) /\ AllNew(heap, q)

\* A rule that neither fails nor is left out sets what it means.
LEMMA MappingApplies ==
    ASSUME NEW q, Mapping(q), rule[q] <= Len(rules), NEW r, r = rules[rule[q]],
           ~Refused(r), Found(q, r), r.to # BadPath
    PROVE  /\ CanApply(rules, heap, q, output[q], source[q], rule[q], got[q].body)
           /\ RuleValue(q, r) = Taken(rules, heap, source[q], rule[q])
<1>1. rules \in RuleLists
  BY DEF Mapping, Going
<1>2. Len(rules) \in Nat /\ rule[q] \in 1..Len(rules)
  <2>1. Len(rules) \in Nat
    BY <1>1, RulesAre
  <2> QED BY <2>1 DEF Mapping
<1>3. /\ r.from \in Path \cup {NoPath, BadPath} /\ r.to \in Path \cup {NoPath, BadPath}
  BY <1>1, <1>2, RulesAre
<1>4. r.to \in Path /\ (r.from = NoPath \/ r.from \in Path)
  BY <1>3 DEF Refused
<1>5. r.from # NoPath => Get(heap, source[q], r.from) # Missing
  BY DEF Found
<1>6. CanApply(rules, heap, q, output[q], source[q], rule[q], got[q].body)
  BY <1>2, <1>4, <1>5 DEF CanApply, Mapping
<1> QED BY <1>6 DEF RuleValue, Taken

\* A request writes into what is its own.
LEMMA WritesOwn ==
    ASSUME NEW q, Mapping(q) PROVE \A o \in Writes(q) : o[2] = q
<1> DEFINE r == rules[rule[q]]
           p == r.to
           k == rule[q]
           way == Descent(heap, q, output[q], p)
<1> SUFFICES ASSUME NEW o \in Writes(q) PROVE o[2] = q
  OBVIOUS
<1>1. Len(rules) \in Nat /\ k \in Int
  BY RulesAre DEF Mapping, Going
<1>2. k <= Len(rules)
  BY <1>1 DEF Writes
<1>3. /\ ~Refused(r) /\ Found(q, r) /\ p # BadPath
      /\ o \in DOMAIN heap
      /\ (\E n \in 1..Len(p) : o = Cells(way[n].value)) \/ way[Len(p)].heap[o] # heap[o]
  <2> HIDE DEF way
  <2> QED BY <1>1, <1>2 DEF Writes, way
<1>4. CanApply(rules, heap, q, output[q], source[q], k, got[q].body)
  BY <1>2, <1>3, MappingApplies
<1>5. /\ q \in Request /\ p \in Walk /\ Len(p) \in Nat /\ p \in Path
  BY <1>4, ApplyBasics DEF CanApply
<1>6. p # <<>>
  <2> SUFFICES ASSUME p = <<>> PROVE FALSE
    OBVIOUS
  <2>1. Len(p) = 0 /\ way[0] = [heap |-> heap, value |-> output[q]]
    BY <1>5, DescentStep
  <2> HIDE DEF way, p
  <2> QED BY <1>3, <2>1
<1>7. CanSet(heap, q, output[q], p) /\ Unshared(heap, output[q], p) /\ Len(p) \in 1..Len(p)
  <2>1. Len(p) # 0
    BY <1>5, <1>6 DEF Walk
  <2>2. CanSet(heap, q, output[q], p) /\ Unshared(heap, output[q], p)
    BY <1>4, <1>6, ApplyFree
  <2> QED BY <1>5, <2>1, <2>2
<1>8. \A n \in 1..Len(p) :
         /\ \/ Cells(way[n].value) = NewName(q, p, n)
            \/ Holds(heap, Old(heap, output[q], p, n), p[n])
               /\ Cells(way[n].value) = Cells(Old(heap, output[q], p, n))
         /\ \A x \in DOMAIN heap :
               (\A i \in 1..n : Holds(heap, Old(heap, output[q], p, i), p[i])
                                   => x # Cells(Old(heap, output[q], p, i)))
                   => way[n].heap[x] = heap[x]
  BY <1>7, WayView
<1>9. ASSUME NEW n \in 1..Len(p), Holds(heap, Old(heap, output[q], p, n), p[n])
      PROVE  Cells(Old(heap, output[q], p, n))[2] = q
  <2> DEFINE c == Cells(Old(heap, output[q], p, n))
  <2>1. IsNode(heap, Old(heap, output[q], p, n))
    BY <1>9 DEF Holds, IsNode
  <2>2. k \in 1..Len(rules) /\ Going(rules, heap, q, output[q], source[q], k - 1, got[q].body)
    BY <1>4 DEF CanApply
  <2>3. Ours(rules, q, k - 1, c, Upto(p, n - 1))
    BY <1>5, <2>1, <2>2, OursOnWay
  <2> HIDE DEF c
  <2>4. Place(c)[1] = q
    BY <2>3 DEF Ours
  <2>5. c[2] = q
    BY <2>4 DEF Place
  <2> QED BY <2>5 DEF c
<1>10. \A n \in 1..Len(p) : NewName(q, p, n)[2] = q
  BY DEF NewName
<1> HIDE DEF way, r
<1>11. ASSUME NEW n \in 1..Len(p), o = Cells(way[n].value) PROVE o[2] = q
  BY <1>8, <1>9, <1>10, <1>11
<1>12. ASSUME way[Len(p)].heap[o] # heap[o] PROVE o[2] = q
  <2>1. PICK i \in 1..Len(p) : Holds(heap, Old(heap, output[q], p, i), p[i])
                               /\ o = Cells(Old(heap, output[q], p, i))
    BY <1>3, <1>7, <1>8, <1>12
  <2> QED BY <1>9, <2>1
<1> QED BY <1>3, <1>11, <1>12

\* A request reads what is its own or the configuration's.
LEMMA ReadsOwn ==
    ASSUME NEW s, Mapping(s) PROVE \A o \in Reads(s) : o[2] \in {s, Config}
<1> DEFINE k == rule[s] - 1
           body == got[s].body
           r == rules[rule[s]]
           V(root, p) == IF p \in Path THEN Visited(heap, root, p) ELSE {}
<1>1. /\ Going(rules, heap, s, output[s], source[s], k, body)
      /\ Good(rules, heap, s, output[s], source[s], k, body) /\ rules \in RuleLists
      /\ Len(rules) \in Nat /\ rule[s] \in Int /\ Path \subseteq Walk
      /\ rule[s] \in 1..(Len(rules) + 1)
  BY RulesAre, PathIs DEF Mapping, Going
<1> HIDE DEF body
<1>2. ASSUME NEW x \in Walk, IsNode(heap, Get(heap, output[s], x))
      PROVE  Cells(Get(heap, output[s], x))[2] \in {s, Config}
  <2> DEFINE o == Cells(Get(heap, output[s], x))
  <2>1. Origin(rules, s, body, k, o, x)
    BY <1>1, <1>2 DEF Good
  <2> HIDE DEF o
  <2>2. Place(o)[1] \in {s, Config}
    <3>1. ASSUME NEW n, Place(o) = <<s, n, x>> PROVE Place(o)[1] \in {s, Config}
      BY <3>1
    <3>2. ASSUME NEW i, NEW y, Place(o) = Copied(rules, s, i, y) PROVE Place(o)[1] \in {s, Config}
      BY <3>2 DEF Copied
    <3> QED BY <2>1, <3>1, <3>2 DEF Origin
  <2>3. o[2] \in {s, Config}
    BY <2>2 DEF Place
  <2> QED BY <2>3 DEF o
<1>3. CASE rule[s] > Len(rules)
  <2>1. ASSUME NEW o \in Reads(s)
        PROVE  \E x \in Path : IsNode(heap, Get(heap, output[s], x)) /\ o = Cells(Get(heap, output[s], x))
    BY <1>3 DEF Reads
  <2> QED BY <1>1, <1>2, <2>1
<1>4. CASE rule[s] <= Len(rules)
  <2>1. Reads(s) = V(source[s], r.from) \cup V(output[s], r.to)
    BY <1>1, <1>4 DEF Reads
  <2>2. \A root, p : \A o \in V(root, p) : p \in Path /\
           \E n \in 1..Len(p) : /\ Holds(heap, Get(heap, root, Upto(p, n - 1)), p[n])
                                /\ o = Cells(Get(heap, root, Upto(p, n - 1)))
    BY DEF Visited, Upto
  <2> HIDE DEF V
  <2>3. \A p \in Path : \A n \in 1..Len(p) : Upto(p, n - 1) \in Walk /\ Related(p, Upto(p, n - 1))
    <3> SUFFICES ASSUME NEW p \in Path, NEW n \in 1..Len(p)
                 PROVE  Upto(p, n - 1) \in Walk /\ Related(p, Upto(p, n - 1))
      OBVIOUS
    <3>1. p \in Walk /\ Len(p) \in Nat
      BY <1>1 DEF Walk
    <3>2. n - 1 \in 0..Len(p)
      BY <3>1
    <3> DEFINE x == Upto(p, n - 1)
    <3>3. x \in Walk /\ x \in Steps(p)
      BY <3>1, <3>2, UptoIs, StepsIs
    <3> HIDE DEF x
    <3>4. IsPrefix(x, p)
      BY <3>1, <3>3, StepsIs, PrefixIs
    <3> QED BY <3>3, <3>4 DEF x, Related
  <2>4. ASSUME NEW o \in V(output[s], r.to) PROVE o[2] \in {s, Config}
    <3>1. r.to \in Path /\ \E n \in 1..Len(r.to) :
             /\ Holds(heap, Get(heap, output[s], Upto(r.to, n - 1)), r.to[n])
             /\ o = Cells(Get(heap, output[s], Upto(r.to, n - 1)))
      BY <2>2
    <3>2. PICK n \in 1..Len(r.to) :
             /\ Holds(heap, Get(heap, output[s], Upto(r.to, n - 1)), r.to[n])
             /\ o = Cells(Get(heap, output[s], Upto(r.to, n - 1)))
      BY <3>1
    <3>3. IsNode(heap, Get(heap, output[s], Upto(r.to, n - 1)))
      BY <3>2 DEF Holds, IsNode
    <3> QED BY <1>2, <2>3, <3>1, <3>2, <3>3
  <2>5. ASSUME NEW o \in V(source[s], r.from) PROVE o[2] \in {s, Config}
    <3> DEFINE f == r.from
    <3>1. f \in Path /\ \E n \in 1..Len(f) :
             /\ Holds(heap, Get(heap, source[s], Upto(f, n - 1)), f[n])
             /\ o = Cells(Get(heap, source[s], Upto(f, n - 1)))
      BY <2>2
    <3>2. PICK n \in 1..Len(f) :
             /\ Holds(heap, Get(heap, source[s], Upto(f, n - 1)), f[n])
             /\ o = Cells(Get(heap, source[s], Upto(f, n - 1)))
      BY <3>1
    <3> DEFINE x == Upto(f, n - 1)
    <3>3. IsNode(heap, Get(heap, source[s], x))
      BY <3>2 DEF Holds, IsNode
    <3>4. x \in Walk /\ Related(f, x)
      BY <2>3, <3>1
    <3>5. rule[s] \in (k + 1)..Len(rules)
      BY <1>1, <1>4
    <3>6. Get(heap, source[s], x) = Original(s, 0, body, x)
      <4> HIDE DEF x, k
      <4> QED BY <1>1, <3>1, <3>4, <3>5 DEF Good
    <3> HIDE DEF x
    <3>7. Place(Cells(Get(heap, source[s], x))) = <<s, 0, x>>
      BY <1>1, <3>3, <3>4, <3>6, SourceNode
    <3>8. Cells(Get(heap, source[s], x))[2] = s
      BY <3>7 DEF Place
    <3> QED BY <3>2, <3>8 DEF x
  <2> QED BY <2>1, <2>4, <2>5
<1> QED BY <1>1, <1>3, <1>4

\* Two requests never collide.
LEMMA NoCollision ==
    ASSUME NEW q \in Request, NEW s \in Request, q # s, Mapping(q), Mapping(s)
    PROVE  Writes(q) \cap (Writes(s) \cup Reads(s)) = {}
<1>1. q # Config
  BY MappingAssumption, TreeAssumption
<1>2. \A o \in Writes(q) : o[2] = q
  BY WritesOwn
<1>3. \A o \in Writes(s) : o[2] = s
  BY WritesOwn
<1>4. \A o \in Reads(s) : o[2] \in {s, Config}
  BY ReadsOwn
<1> QED BY <1>1, <1>2, <1>3, <1>4

-----------------------------------------------------------------------------
(* Documents are well formed *)

HeapInv ==
    /\ rules \in RuleLists
    /\ Shaped(heap)
    /\ \A o \in DOMAIN heap : o[3] \in -1..Len(rules)
    /\ \A q \in Request, o \in DOMAIN heap : o[2] = q =>
          at[q] # "idle" /\ (at[q] = "mapping" => o[3] < rule[q])
    /\ \A i \in DOMAIN rules : rules[i].from = NoPath =>
          IsValue(heap, ValueAt(Config, i, rules[i].value, <<>>))

RequestInv(q) ==
    /\ at[q] \in {"idle", "mapping", "done"}
    /\ at[q] = "mapping" => /\ IsValue(heap, source[q]) /\ IsValue(heap, output[q])
                            /\ rule[q] \in 1..(Len(rules) + 1)
                            /\ got[q].kind = "json" /\ ~Untouched(got[q])
    /\ at[q] # "idle" => got[q] \in Responses
    /\ at[q] = "done" => sent[q] = Failed \/ IsTree(sent[q])

Functions ==
    /\ DOMAIN at = Request /\ at = [q \in Request |-> at[q]]
    /\ DOMAIN output = Request /\ output = [q \in Request |-> output[q]]
    /\ DOMAIN got = Request /\ DOMAIN source = Request
    /\ DOMAIN rule = Request /\ DOMAIN sent = Request

TypeInv == HeapInv /\ Functions /\ alive \in BOOLEAN /\ \A q \in Request : RequestInv(q)

LEMMA TypesHold == TypeInv => TypeOK
<1> SUFFICES ASSUME TypeInv PROVE TypeOK
  OBVIOUS
<1>1. /\ rules \in RuleLists /\ Shaped(heap) /\ alive \in BOOLEAN
      /\ \A o \in DOMAIN heap : o[3] \in -1..Len(rules)
  BY DEF TypeInv, HeapInv
<1>2. at \in [Request -> {"idle", "mapping", "done"}]
  BY DEF TypeInv, Functions, RequestInv
<1>3. \A q \in Request :
          /\ at[q] = "mapping" => /\ IsValue(heap, source[q]) /\ IsValue(heap, output[q])
                                  /\ rule[q] \in 1..(Len(rules) + 1)
          /\ at[q] # "idle" => got[q] \in Responses
          /\ at[q] = "done" => sent[q] = Failed \/ IsTree(sent[q])
  BY DEF TypeInv, RequestInv
<1>4. DOMAIN heap \subseteq {Map, List} \X (Request \cup {Config}) \X (-1..Len(rules)) \X Path
  BY <1>1 DEF Shaped, Name
<1>5. IsHeap(heap)
  <2> SUFFICES ASSUME NEW o \in DOMAIN heap
               PROVE  /\ IF o[1] = Map THEN DOMAIN heap[o] \subseteq Key
                                       ELSE DOMAIN heap[o] = 0..(Cardinality(DOMAIN heap[o]) - 1)
                      /\ \A s \in DOMAIN heap[o] : IsValue(heap, heap[o][s])
    BY DEF IsHeap
  <2>1. /\ o[1] = Map => DOMAIN heap[o] \subseteq Key
        /\ o[1] # Map => \E c \in Nat : DOMAIN heap[o] = 0..(c - 1)
        /\ \A s \in DOMAIN heap[o] : IsValue(heap, heap[o][s])
    BY <1>1 DEF Shaped
  <2>2. ASSUME NEW c \in Nat PROVE Cardinality(0..(c - 1)) = c
    <3>1. CASE c = 0
      BY <3>1, FS_EmptySet
    <3>2. CASE c # 0
      BY <3>2, FS_Interval
    <3> QED BY <3>1, <3>2
  <2> QED BY <2>1, <2>2
<1> QED BY <1>1, <1>2, <1>3, <1>4, <1>5 DEF TypeOK

\* The heap the configuration is loaded into.
LEMMA Loaded ==
    ASSUME Init
    PROVE  /\ Shaped(heap) /\ ConfigHas(rules, heap) /\ ConfigOnly(rules, heap)
           /\ \A o \in DOMAIN heap : o[2] = Config /\ o[3] \in 1..Len(rules)
<1> DEFINE I == {j \in DOMAIN rules : rules[j].from = NoPath}
           d(i) == Decode(Config, i, rules[i].value)
<1>1. /\ rules \in RuleLists
      /\ heap = [m \in UNION {DOMAIN d(i) : i \in I} |-> d(m[3])[m]]
  BY DEF Init
<1>2. Len(rules) \in Nat /\ DOMAIN rules = 1..Len(rules)
  BY <1>1, RulesAre
<1>3. ASSUME NEW i \in I
      PROVE  Shaped(d(i)) /\ \A m \in DOMAIN d(i) : m[2] = Config /\ m[3] = i
  <2>1. IsTree(rules[i].value) /\ i \in Int /\ Config \in Request \cup {Config}
    BY <1>1, <1>2, RulesAre
  <2> QED BY <2>1, DecodeShaped
<1> HIDE DEF d
<1>4. DOMAIN heap = UNION {DOMAIN d(i) : i \in I}
  BY <1>1
<1>5. \A i \in I : \A m \in DOMAIN d(i) : m \in DOMAIN heap /\ heap[m] = d(i)[m]
  BY <1>1, <1>3, <1>4
<1>6. DOMAIN heap \subseteq Name
  BY <1>3, <1>4 DEF Shaped
<1>7. \A i \in I : Extends(d(i), heap)
  BY <1>5 DEF Extends
<1>8. \A i \in I : \A v : IsValue(d(i), v) => IsValue(heap, v)
  BY <1>3, <1>6, <1>7, ValueStays
<1>9. ASSUME NEW o \in DOMAIN heap
      PROVE  /\ o[1] = Map => DOMAIN heap[o] \subseteq Key
             /\ o[1] # Map => \E c \in Nat : DOMAIN heap[o] = 0..(c - 1)
             /\ \A s \in DOMAIN heap[o] : IsValue(heap, heap[o][s])
             /\ o[2] = Config /\ o[3] \in I /\ o \in DOMAIN d(o[3])
  <2>1. PICK i \in I : o \in DOMAIN d(i)
    BY <1>4
  <2>2. heap[o] = d(i)[o] /\ o[2] = Config /\ o[3] = i
    BY <1>3, <1>5, <2>1
  <2>3. /\ o[1] = Map => DOMAIN d(i)[o] \subseteq Key
        /\ o[1] # Map => \E c \in Nat : DOMAIN d(i)[o] = 0..(c - 1)
        /\ \A s \in DOMAIN d(i)[o] : IsValue(d(i), d(i)[o][s])
    BY <1>3, <2>1 DEF Shaped
  <2> QED BY <1>8, <2>1, <2>2, <2>3
<1>10. Shaped(heap)
  BY <1>6, <1>9 DEF Shaped
<1>11. ConfigHas(rules, heap)
  BY <1>5 DEF ConfigHas, d
<1>12. ConfigOnly(rules, heap)
  BY <1>9 DEF ConfigOnly, d
<1> QED BY <1>2, <1>9, <1>10, <1>11, <1>12

LEMMA TypeStarts == Init => TypeInv
<1> SUFFICES ASSUME Init PROVE TypeInv
  OBVIOUS
<1>1. /\ rules \in RuleLists /\ Shaped(heap) /\ ConfigHas(rules, heap)
      /\ \A o \in DOMAIN heap : o[2] = Config /\ o[3] \in 1..Len(rules)
  BY Loaded DEF Init
<1>2. Len(rules) \in Nat /\ DOMAIN rules = 1..Len(rules) /\ Config \notin Request
  BY <1>1, RulesAre, MappingAssumption, TreeAssumption
<1>3. ASSUME NEW i \in DOMAIN rules, rules[i].from = NoPath
      PROVE  IsValue(heap, ValueAt(Config, i, rules[i].value, <<>>))
  <2>1. IsTree(rules[i].value) /\ i \in Int /\ Config \in Request \cup {Config}
    BY <1>1, <1>2, <1>3, RulesAre
  <2>2. <<>> \in DOMAIN rules[i].value /\ DOMAIN heap \subseteq Name
    BY <1>1, <2>1 DEF IsTree, Shaped
  <2>3. \A m \in DOMAIN Decode(Config, i, rules[i].value) :
           m \in DOMAIN heap /\ heap[m] = Decode(Config, i, rules[i].value)[m]
    BY <1>1, <1>3 DEF ConfigHas
  <2> QED BY <2>1, <2>2, <2>3, ValueAtIs
<1>4. HeapInv
  BY <1>1, <1>2, <1>3 DEF HeapInv
<1>5. Functions /\ alive \in BOOLEAN
  BY DEF Init, Functions
<1>6. \A q \in Request : RequestInv(q)
  BY DEF Init, RequestInv
<1> QED BY <1>4, <1>5, <1>6 DEF TypeInv

\* What a rule sets is a value, and it leaves the heap well formed.
LEMMA ApplyTypes ==
    ASSUME TypeInv, NEW q \in Request, NEW r, At(q, r), ~Refused(r), Found(q, r), r.to # BadPath
    PROVE  LET s == Set(heap, q, output[q], r.to, RuleValue(q, r))
           IN  /\ Shaped(s.heap) /\ Extends(heap, s.heap) /\ IsValue(s.heap, s.root)
               /\ \A o \in DOMAIN s.heap : o \in DOMAIN heap \/ (o[2] = q /\ o[3] = rule[q])
<1> DEFINE v == RuleValue(q, r)
           p == r.to
<1>1. /\ rules \in RuleLists /\ Shaped(heap) /\ at[q] = "mapping" /\ rule[q] <= Len(rules)
      /\ r = rules[rule[q]] /\ rule[q] \in 1..(Len(rules) + 1)
      /\ IsValue(heap, source[q]) /\ IsValue(heap, output[q])
  BY DEF TypeInv, HeapInv, RequestInv, At
<1>2. Len(rules) \in Nat /\ DOMAIN rules = 1..Len(rules) /\ rule[q] \in 1..Len(rules)
  BY <1>1, RulesAre
<1>3. p \in Path /\ (r.from # NoPath => r.from \in Path) /\ Path \subseteq Walk
  BY <1>1, <1>2, RulesAre, PathIs DEF Refused
<1>4. IsValue(heap, v)
  <2>1. CASE r.from = NoPath
    <3>1. IsValue(heap, ValueAt(Config, rule[q], rules[rule[q]].value, <<>>))
      BY <1>1, <1>2, <2>1 DEF TypeInv, HeapInv
    <3> QED BY <1>1, <2>1, <3>1 DEF RuleValue
  <2>2. CASE r.from # NoPath
    <3>1. Get(heap, source[q], r.from) # Missing
      BY <2>2 DEF Found
    <3>2. IsValue(heap, Get(heap, source[q], r.from))
      BY <1>1, <1>3, <2>2, <3>1, GetValue
    <3> QED BY <2>2, <3>2 DEF RuleValue
  <2> QED BY <2>1, <2>2
<1>5. AllNew(heap, q)
  BY <1>1 DEF AllNew, TypeInv, HeapInv
<1> HIDE DEF v, p
<1> DEFINE s == Set(heap, q, output[q], p, v)
<1>6. CASE p = <<>>
  <2>1. s.heap = heap /\ s.root = v
    BY <1>6 DEF Set
  <2> HIDE DEF s
  <2> QED BY <1>1, <1>4, <2>1 DEF Extends, s, p, v
<1>7. CASE p # <<>>
  <2>1. s = SetAt(heap, q, output[q], p, v)
    BY <1>7 DEF Set
  <2>2. CanSet(heap, q, output[q], p)
    BY <1>1, <1>2, <1>3, <1>5, <1>7 DEF CanSet, p
  <2>3. /\ Shaped(s.heap) /\ Extends(heap, s.heap) /\ IsValue(s.heap, s.root)
        /\ DOMAIN s.heap \subseteq DOMAIN heap \cup NewNames(q, p, Len(p))
    BY <1>4, <2>1, <2>2, SetShaped
  <2> HIDE DEF s
  <2>4. \A o \in NewNames(q, p, Len(p)) : o[2] = q /\ o[3] = rule[q]
    BY DEF NewNames, NewName
  <2>5. \A o \in DOMAIN s.heap : o \in DOMAIN heap \/ (o[2] = q /\ o[3] = rule[q])
    BY <2>3, <2>4
  <2> QED BY <2>3, <2>5 DEF s, p, v
<1> QED BY <1>6, <1>7

\* A request stays well typed while others work and the heap grows.
LEMMA RequestStays ==
    ASSUME TypeInv, Shaped(heap)', Extends(heap, heap'), rules' = rules, NEW s \in Request,
           at'[s] = at[s], got'[s] = got[s], source'[s] = source[s], output'[s] = output[s],
           rule'[s] = rule[s], sent'[s] = sent[s]
    PROVE  RequestInv(s)'
<1>1. RequestInv(s) /\ Shaped(heap) /\ DOMAIN heap' \subseteq Name
  BY DEF TypeInv, HeapInv, Shaped
<1>2. at[s] = "mapping" => IsValue(heap', source[s]) /\ IsValue(heap', output[s])
  BY <1>1, ValueStays DEF RequestInv
<1>3. Untouched(got[s])' <=> Untouched(got'[s])
  BY DEF Untouched
<1>4. Untouched(got'[s]) <=> Untouched(got[s])
  BY DEF Untouched
<1> QED BY <1>1, <1>2 DEF RequestInv, Untouched

LEMMA AnswerTypes ==
    ASSUME TypeInv, NEW q \in Request, NEW m \in Responses, NEW b, b = Failed \/ IsTree(b),
           Answer(q, m, b), UNCHANGED <<rules, heap, source, output, rule, alive>>
    PROVE  TypeInv'
<1>1. /\ rules' = rules /\ heap' = heap /\ source' = source /\ output' = output /\ rule' = rule
      /\ alive' = alive /\ at' = [at EXCEPT ![q] = "done"] /\ got' = [got EXCEPT ![q] = m]
      /\ sent' = [sent EXCEPT ![q] = b]
  BY DEF Answer
<1>2. HeapInv /\ Functions /\ alive \in BOOLEAN
  BY DEF TypeInv
<1>3. at'[q] = "done" /\ got'[q] = m /\ sent'[q] = b
  BY <1>1, <1>2 DEF Functions
<1>4. \A s \in Request : s # q => at'[s] = at[s] /\ got'[s] = got[s] /\ sent'[s] = sent[s]
  BY <1>1, <1>2 DEF Functions
<1>5. HeapInv'
  BY <1>1, <1>2, <1>3, <1>4 DEF HeapInv
<1>6. Functions'
  BY <1>1, <1>2 DEF Functions
<1>7. ASSUME NEW s \in Request PROVE RequestInv(s)'
  <2>1. CASE s = q
    BY <1>3, <2>1 DEF RequestInv
  <2>2. CASE s # q
    <3>1. Shaped(heap)' /\ Extends(heap, heap')
      BY <1>1, <1>2 DEF HeapInv, Extends
    <3> QED BY <1>1, <1>4, <2>2, <3>1, RequestStays
  <2> QED BY <2>1, <2>2
<1> QED BY <1>1, <1>2, <1>5, <1>6, <1>7 DEF TypeInv

LEMMA BeginTypes ==
    ASSUME TypeInv, NEW q \in Request, NEW m \in Responses, Begin(q, m) PROVE TypeInv'
<1>1. /\ at[q] = "idle" /\ ~Untouched(m) /\ m.kind = "json" /\ heap' = Begun(heap, q, m.body)
      /\ at' = [at EXCEPT ![q] = "mapping"] /\ got' = [got EXCEPT ![q] = m]
      /\ source' = [source EXCEPT ![q] = ValueAt(q, 0, m.body, <<>>)]
      /\ output' = [output EXCEPT ![q] = <<Map, q, -1, <<>> >>]
      /\ rule' = [rule EXCEPT ![q] = 1] /\ rules' = rules /\ sent' = sent /\ alive' = alive
  BY DEF Begin, Begun
<1>2. HeapInv /\ Functions /\ alive \in BOOLEAN /\ rules \in RuleLists /\ Shaped(heap)
  BY DEF TypeInv, HeapInv
<1>3. /\ at'[q] = "mapping" /\ got'[q] = m /\ source'[q] = ValueAt(q, 0, m.body, <<>>)
      /\ output'[q] = <<Map, q, -1, <<>> >> /\ rule'[q] = 1
  BY <1>1, <1>2 DEF Functions
<1>4. \A s \in Request : s # q =>
         /\ at'[s] = at[s] /\ got'[s] = got[s] /\ source'[s] = source[s] /\ output'[s] = output[s]
         /\ rule'[s] = rule[s] /\ sent'[s] = sent[s]
  BY <1>1, <1>2 DEF Functions
<1>5. \A o \in DOMAIN heap : o[2] # q
  BY <1>1, <1>2 DEF HeapInv
<1>6. IsTree(m.body)
  BY MappingAssumption, TreeAssumption DEF IsResponse
<1>7. /\ Owns(heap, heap', q)
      /\ \A o \in DOMAIN heap' : o \in DOMAIN heap \/ (o[2] = q /\ o[3] \in {-1, 0} /\ o[4] \in Path)
      /\ IsValue(heap', <<Map, q, -1, <<>> >>) /\ IsValue(heap', ValueAt(q, 0, m.body, <<>>))
  BY <1>1, <1>2, <1>5, <1>6, BegunIs
<1>8. Shaped(heap') /\ Extends(heap, heap') /\ DOMAIN heap' \subseteq Name
  BY <1>7 DEF Owns, Shaped
<1>9. Len(rules) \in Nat
  BY <1>2, RulesAre
<1>10. HeapInv'
  <2>1. \A o \in DOMAIN heap' : o[3] \in -1..Len(rules)
    BY <1>2, <1>7, <1>9 DEF HeapInv
  <2>2. ASSUME NEW s \in Request, NEW o \in DOMAIN heap', o[2] = s
        PROVE  at'[s] # "idle" /\ (at'[s] = "mapping" => o[3] < rule'[s])
    <3>1. CASE s = q
      <4>1. o[3] \in {-1, 0}
        BY <1>5, <1>7, <2>2, <3>1
      <4> QED BY <1>3, <3>1, <4>1
    <3>2. CASE s # q
      <4>1. o \in DOMAIN heap
        BY <1>7, <2>2, <3>2
      <4> QED BY <1>2, <1>4, <2>2, <3>2, <4>1 DEF HeapInv
    <3> QED BY <3>1, <3>2
  <2>3. \A i \in DOMAIN rules : rules[i].from = NoPath =>
          IsValue(heap', ValueAt(Config, i, rules[i].value, <<>>))
    BY <1>2, <1>8, ValueStays DEF HeapInv
  <2> QED BY <1>1, <1>2, <1>8, <2>1, <2>2, <2>3 DEF HeapInv
<1>11. Functions'
  BY <1>1, <1>2 DEF Functions
<1>12. ASSUME NEW s \in Request PROVE RequestInv(s)'
  <2>1. CASE s = q
    <3>1. 1 \in 1..(Len(rules) + 1)
      BY <1>9
    <3> QED BY <1>1, <1>3, <1>7, <2>1, <3>1 DEF RequestInv, Untouched
  <2>2. CASE s # q
    BY <1>1, <1>4, <1>8, <2>2, RequestStays
  <2> QED BY <2>1, <2>2
<1> QED BY <1>1, <1>2, <1>10, <1>11, <1>12 DEF TypeInv

\* One rule further.
LEMMA RuleTypes ==
    ASSUME TypeInv, NEW q \in Request, at[q] = "mapping", rule[q] <= Len(rules),
           Shaped(heap'), Extends(heap, heap'),
           \A o \in DOMAIN heap' : o \in DOMAIN heap \/ (o[2] = q /\ o[3] = rule[q]),
           NEW w, IsValue(heap', w), output' = [output EXCEPT ![q] = w],
           rule' = [rule EXCEPT ![q] = @ + 1], UNCHANGED <<rules, at, got, source, sent, alive>>
    PROVE  TypeInv'
<1>1. HeapInv /\ Functions /\ alive \in BOOLEAN /\ rules \in RuleLists /\ Shaped(heap)
      /\ DOMAIN heap' \subseteq Name
  BY DEF TypeInv, HeapInv, Shaped
<1>2. Len(rules) \in Nat /\ rule[q] \in 1..(Len(rules) + 1) /\ IsValue(heap, source[q])
      /\ RequestInv(q)
  BY <1>1, RulesAre DEF TypeInv, RequestInv
<1>3. output'[q] = w /\ rule'[q] = rule[q] + 1
  BY <1>1 DEF Functions
<1>4. \A s \in Request : s # q => output'[s] = output[s] /\ rule'[s] = rule[s]
  BY <1>1 DEF Functions
<1>5. HeapInv'
  <2>1. \A o \in DOMAIN heap' : o[3] \in -1..Len(rules)
    BY <1>1, <1>2 DEF HeapInv
  <2>2. ASSUME NEW s \in Request, NEW o \in DOMAIN heap', o[2] = s
        PROVE  at'[s] # "idle" /\ (at'[s] = "mapping" => o[3] < rule'[s])
    <3>1. CASE o \in DOMAIN heap
      <4>1. at[s] # "idle" /\ (at[s] = "mapping" => o[3] < rule[s])
        BY <1>1, <2>2, <3>1 DEF HeapInv
      <4>2. CASE s = q
        <5>1. o[3] \in Int
          BY <1>1, <1>2, <3>1 DEF HeapInv
        <5> QED BY <1>2, <1>3, <4>1, <4>2, <5>1
      <4>3. CASE s # q
        BY <1>4, <4>1, <4>3
      <4> QED BY <4>2, <4>3
    <3>2. CASE o[2] = q /\ o[3] = rule[q]
      BY <1>2, <1>3, <2>2, <3>2
    <3> QED BY <3>1, <3>2
  <2>3. \A i \in DOMAIN rules : rules[i].from = NoPath =>
          IsValue(heap', ValueAt(Config, i, rules[i].value, <<>>))
    BY <1>1, ValueStays DEF HeapInv
  <2> QED BY <1>1, <2>1, <2>2, <2>3 DEF HeapInv
<1>6. Functions'
  BY <1>1 DEF Functions
<1>7. ASSUME NEW s \in Request PROVE RequestInv(s)'
  <2>1. CASE s = q
    <3>1. rule'[q] \in 1..(Len(rules) + 1)
      BY <1>2, <1>3
    <3>2. IsValue(heap', source[q])
      BY <1>1, <1>2, ValueStays
    <3> QED BY <1>2, <1>3, <2>1, <3>1, <3>2 DEF RequestInv, Untouched
  <2>2. CASE s # q
    BY <1>4, <2>2, RequestStays
  <2> QED BY <2>1, <2>2
<1> QED BY <1>1, <1>5, <1>6, <1>7 DEF TypeInv

\* Every step keeps the types.
LEMMA TypeKeeps == TypeInv /\ [Next]_vars => TypeInv'
<1> SUFFICES ASSUME TypeInv, [Next]_vars PROVE TypeInv'
  OBVIOUS
<1>1. ASSUME NEW q \in Request, NEW m \in Responses, PassOn(q, m) PROVE TypeInv'
  <2>1. IsTree(m.body)
    BY MappingAssumption, TreeAssumption DEF IsResponse
  <2> QED BY <1>1, <2>1, AnswerTypes DEF PassOn
<1>2. ASSUME NEW q \in Request, NEW m \in Responses, Refuse(q, m) PROVE TypeInv'
  BY <1>2, AnswerTypes DEF Refuse
<1>3. ASSUME NEW q \in Request, NEW m \in Responses, Begin(q, m) PROVE TypeInv'
  BY <1>3, BeginTypes
<1>4. ASSUME NEW q \in Request, NEW r, SkipRule(q, r) PROVE TypeInv'
  <2>1. /\ at[q] = "mapping" /\ rule[q] <= Len(rules) /\ heap' = heap /\ output' = output
        /\ rule' = [rule EXCEPT ![q] = @ + 1] /\ UNCHANGED <<rules, at, got, source, sent, alive>>
    BY <1>4 DEF SkipRule, At
  <2>2. Shaped(heap') /\ Extends(heap, heap') /\ IsValue(heap', output[q])
    BY <2>1 DEF TypeInv, HeapInv, RequestInv, Extends
  <2>3. output' = [output EXCEPT ![q] = output[q]]
    <3>1. DOMAIN output = Request
      BY DEF TypeInv, Functions
    <3>2. \A f : [f EXCEPT ![q] = f[q]] = [x \in DOMAIN f |-> f[x]]
      OBVIOUS
    <3>3. output = [x \in DOMAIN output |-> output[x]]
      BY DEF TypeInv, Functions
    <3> QED BY <2>1, <3>2, <3>3
  <2> QED BY <2>1, <2>2, <2>3, RuleTypes
<1>5. ASSUME NEW q \in Request, NEW r, ApplyRule(q, r) PROVE TypeInv'
  <2> DEFINE s == Set(heap, q, output[q], r.to, RuleValue(q, r))
  <2>1. /\ At(q, r) /\ ~Refused(r) /\ Found(q, r) /\ r.to # BadPath
        /\ heap' = s.heap /\ output' = [output EXCEPT ![q] = s.root]
        /\ rule' = [rule EXCEPT ![q] = @ + 1] /\ UNCHANGED <<rules, at, got, source, sent, alive>>
    BY <1>5 DEF ApplyRule
  <2>2. /\ Shaped(s.heap) /\ Extends(heap, s.heap) /\ IsValue(s.heap, s.root)
        /\ \A o \in DOMAIN s.heap : o \in DOMAIN heap \/ (o[2] = q /\ o[3] = rule[q])
    BY <2>1, ApplyTypes
  <2>3. at[q] = "mapping" /\ rule[q] <= Len(rules)
    BY <2>1 DEF At
  <2> HIDE DEF s
  <2> QED BY <2>1, <2>2, <2>3, RuleTypes
<1>6. ASSUME NEW q \in Request, NEW r, FailRule(q, r) PROVE TypeInv'
  <2>1. got[q] \in Responses
    BY <1>6 DEF FailRule, At, TypeInv, RequestInv
  <2> QED BY <1>6, <2>1, AnswerTypes DEF FailRule
<1>7. ASSUME NEW q \in Request, Send(q) PROVE TypeInv'
  <2> DEFINE b == IF Encodable(heap, output[q]) THEN Document(heap, output[q]) ELSE Failed
  <2>1. got[q] \in Responses /\ Shaped(heap) /\ IsValue(heap, output[q])
    BY <1>7 DEF Send, TypeInv, HeapInv, RequestInv
  <2>2. b = Failed \/ IsTree(b)
    BY <2>1, DocumentTree
  <2>3. Answer(q, got[q], b) /\ UNCHANGED <<rules, heap, source, output, rule, alive>>
    BY <1>7 DEF Send
  <2> HIDE DEF b
  <2> QED BY <2>1, <2>2, <2>3, AnswerTypes
<1>8. ASSUME NEW q, NEW s, Collide(q, s) PROVE TypeInv'
  BY <1>8 DEF Collide, reqVars, TypeInv, HeapInv, Functions, RequestInv, Untouched
<1>9. CASE UNCHANGED vars
  BY <1>9 DEF vars, reqVars, TypeInv, HeapInv, Functions, RequestInv, Untouched
<1> QED BY <1>1, <1>2, <1>3, <1>4, <1>5, <1>6, <1>7, <1>8, <1>9 DEF Next

\* Whatever the rules write into whatever they share: no value refers to a map
\* or to cells that are not there, slices are no longer than their cells, and
\* what a client gets is a document or an error.
THEOREM MappingTypes == Spec => []TypeOK
<1> QED BY TypeStarts, TypeKeeps, TypesHold, PTL DEF Spec

-----------------------------------------------------------------------------
(* Nothing is shared, and every document is what the rules mean *)

Meant ==
    AliasFree(rules) =>
        /\ alive /\ ConfigHas(rules, heap) /\ ConfigOnly(rules, heap)
        /\ \A q \in Request : at[q] = "mapping" =>
              Going(rules, heap, q, output[q], source[q], rule[q] - 1, got[q].body)
        /\ \A q \in Request : at[q] = "done" => sent[q] = Expected(got[q])

LEMMA MeantStarts == Init => Meant
BY Loaded DEF Init, Meant

\* A request that maps is where the invariant has it.
LEMMA MappingIs ==
    ASSUME TypeInv, Meant, AliasFree(rules), NEW q \in Request, at[q] = "mapping"
    PROVE  /\ Mapping(q) /\ got[q] \in Responses /\ IsTree(got[q].body)
           /\ Expected(got[q]) = Mapped(rules, got[q].body)
<1>1. /\ rule[q] \in 1..(Len(rules) + 1) /\ got[q] \in Responses
      /\ got[q].kind = "json" /\ ~Untouched(got[q])
  BY DEF TypeInv, RequestInv
<1>2. AllNew(heap, q)
  BY DEF AllNew, TypeInv, HeapInv
<1>3. Mapping(q)
  BY <1>1, <1>2 DEF Mapping, Meant
<1>4. IsTree(got[q].body)
  BY <1>1, MappingAssumption, TreeAssumption DEF IsResponse
<1>5. Expected(got[q]) = Mapped(rules, got[q].body)
  BY <1>1 DEF Expected
<1> QED BY <1>1, <1>3, <1>4, <1>5

LEMMA MeantAnswer ==
    ASSUME TypeInv, Meant, AliasFree(rules), NEW q \in Request, NEW m \in Responses, NEW b,
           b = Expected(m), Answer(q, m, b), UNCHANGED <<rules, heap, source, output, rule, alive>>
    PROVE  Meant'
<1>1. /\ rules' = rules /\ heap' = heap /\ source' = source /\ output' = output /\ rule' = rule
      /\ alive' = alive /\ at' = [at EXCEPT ![q] = "done"] /\ got' = [got EXCEPT ![q] = m]
      /\ sent' = [sent EXCEPT ![q] = b] /\ Functions
  BY DEF Answer, TypeInv
<1>2. at'[q] = "done" /\ got'[q] = m /\ sent'[q] = b
  BY <1>1 DEF Functions
<1>3. \A s \in Request : s # q => at'[s] = at[s] /\ got'[s] = got[s] /\ sent'[s] = sent[s]
  BY <1>1 DEF Functions
<1>4. alive /\ ConfigHas(rules, heap) /\ ConfigOnly(rules, heap)
  BY DEF Meant
<1>5. ASSUME NEW s \in Request, at'[s] = "mapping"
      PROVE  Going(rules, heap, s, output[s], source[s], rule[s] - 1, got'[s].body)
  BY <1>2, <1>3, <1>5 DEF Meant
<1>6. ASSUME NEW s \in Request, at'[s] = "done" PROVE sent'[s] = Expected(got'[s])
  BY <1>2, <1>3, <1>6 DEF Meant
<1>7. \A x : Expected(x)' = Expected(x')
  BY <1>1 DEF Expected, Untouched
<1> QED BY <1>1, <1>4, <1>5, <1>6 DEF Meant, Expected, Untouched

\* The mapping fails where the rules mean it to.
LEMMA FailMeant ==
    ASSUME TypeInv, Meant, AliasFree(rules), NEW q \in Request, NEW r, FailRule(q, r)
    PROVE  Expected(got[q]) = Failed
<1> DEFINE k == rule[q]
           body == got[q].body
<1>1. /\ at[q] = "mapping" /\ k <= Len(rules) /\ r = rules[k]
      /\ Refused(r) \/ (Found(q, r) /\ r.to = BadPath)
  BY DEF FailRule, At
<1>2. Mapping(q) /\ Expected(got[q]) = Mapped(rules, body)
  BY <1>1, MappingIs
<1>3. /\ Going(rules, heap, q, output[q], source[q], k - 1, body) /\ rules \in RuleLists
      /\ k \in 1..(Len(rules) + 1) /\ IsTree(body)
      /\ Good(rules, heap, q, output[q], source[q], k - 1, body)
  BY <1>2 DEF Mapping, Going
<1>4. Len(rules) \in Nat /\ k \in 1..Len(rules) /\ k \in 0..Len(rules) /\ k \in ((k - 1) + 1)..Len(rules)
  BY <1>1, <1>3, RulesAre
<1>5. ~Refused(r) => r.from = NoPath \/ r.from \in DOMAIN body
  <2> SUFFICES ASSUME ~Refused(r), r.from # NoPath PROVE r.from \in DOMAIN body
    OBVIOUS
  <2> DEFINE f == r.from
  <2>1. f \in Path /\ f \in Walk
    BY <1>1, <1>3, <1>4, RulesAre, PathIs DEF Refused
  <2>2. Len(f) \in Nat
    BY <2>1 DEF Walk
  <2>3. Related(f, f)
    <3> HIDE DEF f
    <3> QED BY <2>1, <2>2, PrefixIs DEF Related
  <2>4. Get(heap, source[q], f) = Original(q, 0, body, f)
    BY <1>1, <1>3, <1>4, <2>1, <2>3 DEF Good
  <2>5. Get(heap, source[q], f) # Missing
    BY <1>1 DEF Found
  <2> HIDE DEF f
  <2>6. f \in DOMAIN body
    BY <2>4, <2>5 DEF Original
  <2> QED BY <2>6 DEF f
<1> DEFINE out == Outcome(rules, body)[k - 1]
<1>6. Outcome(rules, body)[k] = Meaning(body, out, rules[k])
  BY <1>4, OutcomeIs
<1> HIDE DEF out, body
<1>7. Meaning(body, out, r) = Failed
  BY <1>1, <1>5 DEF Meaning
<1>8. Mapped(rules, body) = Failed
  BY <1>1, <1>4, <1>6, <1>7, OutcomeIs
<1> QED BY <1>2, <1>8

LEMMA SendMeant ==
    ASSUME TypeInv, Meant, AliasFree(rules), NEW q \in Request, Send(q)
    PROVE  Encodable(heap, output[q]) /\ Document(heap, output[q]) = Expected(got[q])
<1>1. at[q] = "mapping" /\ rule[q] = Len(rules) + 1
  BY DEF Send
<1>2. Mapping(q) /\ Expected(got[q]) = Mapped(rules, got[q].body)
  BY <1>1, MappingIs
<1>3. Going(rules, heap, q, output[q], source[q], rule[q] - 1, got[q].body)
      /\ Len(rules) \in Nat
  BY <1>2, RulesAre DEF Mapping, Going
<1>4. rule[q] - 1 = Len(rules)
  BY <1>1, <1>3
<1>5. Document(heap, output[q]) = Outcome(rules, got[q].body)[Len(rules)]
  BY <1>3, <1>4 DEF Going, Good
<1>6. Encodable(heap, output[q])
  BY <1>3, GoingEncodable
<1> QED BY <1>2, <1>5, <1>6 DEF Mapped

\* A step of q that only it and the heap take part in.
LEMMA MeantStep ==
    ASSUME TypeInv, Meant, AliasFree(rules), NEW q \in Request, Owns(heap, heap', q),
           rules' = rules, alive' = alive, sent' = sent, at'[q] = "mapping",
           \A s \in Request : s # q =>
              /\ at'[s] = at[s] /\ got'[s] = got[s] /\ source'[s] = source[s]
              /\ output'[s] = output[s] /\ rule'[s] = rule[s],
           Going(rules, heap', q, output'[q], source'[q], rule'[q] - 1, got'[q].body)
    PROVE  Meant'
<1>1. alive /\ ConfigHas(rules, heap) /\ ConfigOnly(rules, heap) /\ rules \in RuleLists
  BY DEF Meant, TypeInv, HeapInv
<1>2. ConfigHas(rules, heap') /\ ConfigOnly(rules, heap')
  BY <1>1, ConfigStays
<1>3. ASSUME NEW s \in Request, at'[s] = "mapping"
      PROVE  Going(rules, heap', s, output'[s], source'[s], rule'[s] - 1, got'[s].body)
  <2>1. CASE s = q
    BY <2>1
  <2>2. CASE s # q
    <3>1. Going(rules, heap, s, output[s], source[s], rule[s] - 1, got[s].body)
      BY <1>3, <2>2 DEF Meant
    <3>2. Going(rules, heap', s, output[s], source[s], rule[s] - 1, got[s].body)
      BY <2>2, <3>1, OthersGood
    <3> QED BY <2>2, <3>2
  <2> QED BY <2>1, <2>2
<1>4. ASSUME NEW s \in Request, at'[s] = "done" PROVE sent'[s] = Expected(got'[s])
  <2>1. s # q
    BY <1>4
  <2> QED BY <1>4, <2>1 DEF Meant
<1> QED BY <1>1, <1>2, <1>3, <1>4 DEF Meant, Expected, Untouched

LEMMA BeginMeant ==
    ASSUME TypeInv, Meant, AliasFree(rules), NEW q \in Request, NEW m \in Responses, Begin(q, m)
    PROVE  Meant'
<1>1. /\ at[q] = "idle" /\ heap' = Begun(heap, q, m.body)
      /\ at' = [at EXCEPT ![q] = "mapping"] /\ got' = [got EXCEPT ![q] = m]
      /\ source' = [source EXCEPT ![q] = ValueAt(q, 0, m.body, <<>>)]
      /\ output' = [output EXCEPT ![q] = <<Map, q, -1, <<>> >>]
      /\ rule' = [rule EXCEPT ![q] = 1] /\ rules' = rules /\ sent' = sent /\ alive' = alive
  BY DEF Begin, Begun
<1>2. HeapInv /\ Functions /\ rules \in RuleLists /\ Shaped(heap)
      /\ ConfigHas(rules, heap) /\ ConfigOnly(rules, heap)
  BY DEF TypeInv, HeapInv, Meant
<1>3. /\ at'[q] = "mapping" /\ got'[q] = m /\ source'[q] = ValueAt(q, 0, m.body, <<>>)
      /\ output'[q] = <<Map, q, -1, <<>> >> /\ rule'[q] = 1
  BY <1>1, <1>2 DEF Functions
<1>4. \A s \in Request : s # q =>
         /\ at'[s] = at[s] /\ got'[s] = got[s] /\ source'[s] = source[s] /\ output'[s] = output[s]
         /\ rule'[s] = rule[s]
  BY <1>1, <1>2 DEF Functions
<1>5. \A o \in DOMAIN heap : o[2] # q
  BY <1>1, <1>2 DEF HeapInv
<1>6. IsTree(m.body)
  BY MappingAssumption, TreeAssumption DEF IsResponse
<1>7. Going(rules, heap', q, <<Map, q, -1, <<>> >>, ValueAt(q, 0, m.body, <<>>), 0, m.body)
  BY <1>1, <1>2, <1>5, <1>6, BeginGood
<1>8. Owns(heap, heap', q)
  BY <1>1, <1>2, <1>5, <1>6, BegunIs
<1>9. Going(rules, heap', q, output'[q], source'[q], rule'[q] - 1, got'[q].body)
  <2>1. rule'[q] - 1 = 0
    BY <1>3
  <2> QED BY <1>3, <1>7, <2>1
<1> QED BY <1>1, <1>3, <1>4, <1>8, <1>9, MeantStep

\* The next rule, whether it sets anything or not.
LEMMA RuleMeant ==
    ASSUME TypeInv, Meant, AliasFree(rules), NEW q \in Request, NEW r,
           SkipRule(q, r) \/ ApplyRule(q, r)
    PROVE  Meant'
<1> DEFINE k == rule[q]
           body == got[q].body
<1>1. /\ at[q] = "mapping" /\ k <= Len(rules) /\ r = rules[k] /\ ~Refused(r)
      /\ rule' = [rule EXCEPT ![q] = @ + 1] /\ UNCHANGED <<rules, at, got, source, sent, alive>>
  BY DEF SkipRule, ApplyRule, At
<1>2. Functions /\ Mapping(q)
  BY <1>1, MappingIs DEF TypeInv
<1>3. /\ Going(rules, heap, q, output[q], source[q], k - 1, body) /\ k \in 1..(Len(rules) + 1)
      /\ Len(rules) \in Nat /\ Shaped(heap)
  BY <1>2, RulesAre DEF Mapping, Going
<1>4. k \in 1..Len(rules) /\ rule'[q] - 1 = k /\ \A s \in Request : s # q => rule'[s] = rule[s]
  BY <1>1, <1>2, <1>3 DEF Functions
<1>5. CASE SkipRule(q, r)
  <2>1. heap' = heap /\ output' = output /\ ~Found(q, r)
    BY <1>5 DEF SkipRule
  <2>2. r.from # NoPath /\ Get(heap, source[q], r.from) = Missing
    BY <2>1 DEF Found
  <2>3. Going(rules, heap, q, output[q], source[q], k, body)
    BY <1>1, <1>3, <1>4, <2>2, SkipGood
  <2>4. Owns(heap, heap', q)
    BY <1>3, <2>1 DEF Owns, Extends
  <2> QED BY <1>1, <1>4, <2>1, <2>3, <2>4, MeantStep
<1>6. CASE ApplyRule(q, r)
  <2> DEFINE s == Set(heap, q, output[q], r.to, RuleValue(q, r))
  <2>1. /\ Found(q, r) /\ r.to # BadPath /\ heap' = s.heap /\ output' = [output EXCEPT ![q] = s.root]
    BY <1>6 DEF ApplyRule
  <2>2. /\ CanApply(rules, heap, q, output[q], source[q], k, body)
        /\ RuleValue(q, r) = Taken(rules, heap, source[q], k)
    BY <1>1, <1>2, <2>1, MappingApplies
  <2>3. Going(rules, s.heap, q, s.root, source[q], k, body) /\ Owns(heap, s.heap, q)
    BY <1>1, <2>2, ApplyGood
  <2> HIDE DEF s
  <2>4. output'[q] = s.root /\ \A x \in Request : x # q => output'[x] = output[x]
    BY <1>2, <2>1 DEF Functions
  <2>5. Going(rules, heap', q, output'[q], source'[q], rule'[q] - 1, got'[q].body)
    BY <1>1, <1>4, <2>1, <2>3, <2>4
  <2> QED BY <1>1, <1>4, <2>1, <2>3, <2>4, <2>5, MeantStep
<1> QED BY <1>5, <1>6

\* Every step keeps what is known of the requests, if the rules share nothing.
LEMMA MeantKeeps == TypeInv /\ Meant /\ [Next]_vars => Meant'
<1> SUFFICES ASSUME TypeInv, Meant, [Next]_vars PROVE Meant'
  OBVIOUS
<1>0. rules' = rules
  BY DEF Next, PassOn, Refuse, Begin, SkipRule, ApplyRule, FailRule, Send, Collide, vars
<1>1. CASE ~AliasFree(rules)
  <2>1. ~AliasFree(rules)'
    BY <1>0, <1>1 DEF AliasFree
  <2> QED BY <2>1 DEF Meant
<1>2. CASE AliasFree(rules)
  <2>1. ASSUME NEW q \in Request, NEW m \in Responses, PassOn(q, m) PROVE Meant'
    <3>1. m.body = Expected(m)
      BY <2>1 DEF PassOn, Expected
    <3> QED BY <1>2, <2>1, <3>1, MeantAnswer DEF PassOn
  <2>2. ASSUME NEW q \in Request, NEW m \in Responses, Refuse(q, m) PROVE Meant'
    <3>1. Failed = Expected(m)
      BY <2>2 DEF Refuse, Expected
    <3> QED BY <1>2, <2>2, <3>1, MeantAnswer DEF Refuse
  <2>3. ASSUME NEW q \in Request, NEW m \in Responses, Begin(q, m) PROVE Meant'
    BY <1>2, <2>3, BeginMeant
  <2>4. ASSUME NEW q \in Request, NEW r, SkipRule(q, r) \/ ApplyRule(q, r) PROVE Meant'
    BY <1>2, <2>4, RuleMeant
  <2>5. ASSUME NEW q \in Request, NEW r, FailRule(q, r) PROVE Meant'
    <3>1. got[q] \in Responses
      BY <1>2, <2>5, MappingIs DEF FailRule, At
    <3>2. Failed = Expected(got[q])
      BY <1>2, <2>5, FailMeant
    <3> QED BY <1>2, <2>5, <3>1, <3>2, MeantAnswer DEF FailRule
  <2>6. ASSUME NEW q \in Request, Send(q) PROVE Meant'
    <3> DEFINE b == Document(heap, output[q])
    <3>1. got[q] \in Responses
      BY <1>2, <2>6, MappingIs DEF Send
    <3>2. Encodable(heap, output[q]) /\ b = Expected(got[q])
      BY <1>2, <2>6, SendMeant
    <3>3. Answer(q, got[q], b) /\ UNCHANGED <<rules, heap, source, output, rule, alive>>
      BY <2>6, <3>2 DEF Send
    <3> HIDE DEF b
    <3> QED BY <1>2, <3>1, <3>2, <3>3, MeantAnswer
  <2>7. ASSUME NEW q \in Request, NEW s \in Request, Collide(q, s) PROVE Meant'
    <3>1. Mapping(q) /\ Mapping(s) /\ q # s /\ Writes(q) \cap (Writes(s) \cup Reads(s)) # {}
      BY <1>2, <2>7, MappingIs DEF Collide
    <3> QED BY <3>1, NoCollision
  <2>8. CASE UNCHANGED vars
    BY <2>8 DEF vars, reqVars, Meant, Expected, Untouched
  <2> QED BY <2>1, <2>2, <2>3, <2>4, <2>5, <2>6, <2>7, <2>8 DEF Next
<1> QED BY <1>1, <1>2

IInv == TypeInv /\ Meant

LEMMA MappingStarts == Init => IInv
BY TypeStarts, MeantStarts DEF IInv

LEMMA MappingKeeps == IInv /\ [Next]_vars => IInv'
BY TypeKeeps, MeantKeeps DEF IInv

\* Rules that write into nothing another shares: whatever the responses are
\* and however their mappings interleave, each client gets what the rules mean
\* on trees of its own upstream's response, or that response, or an error.
THEOREM MappingMeans == Spec => []MapsAsWritten
<1>1. IInv => MapsAsWritten
  BY DEF IInv, Meant, MapsAsWritten
<1> QED BY <1>1, MappingStarts, MappingKeeps, PTL DEF Spec

\* With such rules no two requests ever use a map or cells at once, so the
\* process stays up, and the values of the configuration are what they were
\* when it was loaded.
THEOREM MappingShares == Spec => []RequestsShareNothing
<1>1. IInv => RequestsShareNothing
  <2> SUFFICES ASSUME IInv, AliasFree(rules), NEW i \in DOMAIN rules, rules[i].from = NoPath
               PROVE  alive /\ Document(heap, ValueAt(Config, i, rules[i].value, <<>>)) = rules[i].value
    BY DEF IInv, Meant, RequestsShareNothing
  <2>1. alive /\ ConfigHas(rules, heap) /\ Shaped(heap) /\ rules \in RuleLists
    BY DEF IInv, Meant, TypeInv, HeapInv
  <2>2. IsTree(rules[i].value) /\ i \in Int /\ Config \in Request \cup {Config}
    BY <2>1, RulesAre
  <2>3. \A m \in DOMAIN Decode(Config, i, rules[i].value) :
           m \in DOMAIN heap /\ heap[m] = Decode(Config, i, rules[i].value)[m]
    BY <2>1 DEF ConfigHas
  <2> QED BY <2>1, <2>2, <2>3, DocumentDecode
<1> QED BY <1>1, MappingStarts, MappingKeeps, PTL DEF Spec
=============================================================================
