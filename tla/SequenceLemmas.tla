--------------------------- MODULE SequenceLemmas ---------------------------
(***************************************************************************)
(* Induction, for what the modules compute by recursion: FlattenSeq and    *)
(* Kept, one element at a time, and functions defined along a height.      *)
(*                                                                         *)
(* The library's induction theorems have operators for parameters, which   *)
(* the provers cannot instantiate.  That a set of naturals has a least     *)
(* element needs none: a property is proved of all by showing that no      *)
(* number is the least without it.                                         *)
(***************************************************************************)
EXTENDS Selecting, SequencesExt, SequenceTheorems, WellFoundedInduction, TLAPS

(***************************************************************************)
(* Naturals.                                                               *)
(***************************************************************************)
(* Less-than is well-founded. *)
LEMMA LessWellFounded ==
  IsWellFoundedOn({ss \in Nat \X Nat : ss[1] < ss[2]}, Nat)
BY NatLessThanWellFounded DEF OpToRel

(* A set of naturals that is not empty has a least element. *)
LEMMA LeastNatural ==
  ASSUME NEW T, T \subseteq Nat, T # {}
  PROVE  \E n \in T : \A m \in T : n <= m
<1>. DEFINE R == {ss \in Nat \X Nat : ss[1] < ss[2]}
<1>1. \E x \in T : \A y \in T : ~(<<y, x>> \in R)
  <2>1. IsWellFoundedOn(R, Nat) BY LessWellFounded
  <2>2. \A RR, S, TT :
          IsWellFoundedOn(RR, S) /\ TT \subseteq S /\ TT # {}
            => \E x \in TT : \A y \in TT : ~(<<y, x>> \in RR)
    BY WFMin
  <2> HIDE DEF R
  <2> QED BY <2>1, <2>2
<1>2. PICK x \in T : \A y \in T : ~(<<y, x>> \in R) BY <1>1
<1>3. ASSUME NEW y \in T PROVE x <= y
  <2>1. ~(<<y, x>> \in R) BY <1>2
  <2> QED BY <2>1
<1> QED BY <1>3

(* Induction up to n: T are the numbers with the property. *)
LEMMA UpTo ==
  ASSUME NEW n \in Nat, NEW T, 0 \in T,
         \A m \in 1..n : m - 1 \in T => m \in T
  PROVE  0..n \subseteq T
<1>. DEFINE Without == {m \in 0..n : m \notin T}
<1>1. SUFFICES ASSUME Without # {} PROVE FALSE OBVIOUS
<1>2. PICK m \in Without : \A k \in Without : m <= k
  <2>1. Without \subseteq Nat OBVIOUS
  <2> HIDE DEF Without
  <2> QED BY <1>1, <2>1, LeastNatural
<1>3. m \in 1..n /\ m - 1 \in 0..n /\ m - 1 \in T BY <1>2
<1> QED BY <1>2, <1>3

(* f begins with c and goes on by step, up to n.                           *)
Computes(f, V, c, step, n) ==
  f \in [0..n -> V] /\ f[0] = c /\ \A i \in 1..n : f[i] = step[i][f[i - 1]]

(* A function may be defined from each number to the next. *)
LEMMA Recursion ==
  ASSUME NEW V, NEW c \in V, NEW n \in Nat, NEW step \in [1..n -> [V -> V]]
  PROVE  \E f : Computes(f, V, c, step, n)
<1>. DEFINE Has(m) ==
       \E f \in [0..m -> V] : f[0] = c /\ \A i \in 1..m : f[i] = step[i][f[i - 1]]
            T == {m \in 0..n : Has(m)}
<1>1. 0 \in T
  <2>. DEFINE f == [i \in 0..0 |-> c]
  <2>1. f \in [0..0 -> V] /\ f[0] = c OBVIOUS
  <2> HIDE DEF f
  <2>2. \A i \in 1..0 : f[i] = step[i][f[i - 1]] OBVIOUS
  <2>3. Has(0) BY <2>1, <2>2
  <2> QED BY <2>3
<1>2. ASSUME NEW m \in 1..n, m - 1 \in T PROVE m \in T
  <2>1. PICK f \in [0..(m - 1) -> V] :
          f[0] = c /\ \A i \in 1..(m - 1) : f[i] = step[i][f[i - 1]]
    BY <1>2
  <2>. DEFINE g == [i \in 0..m |-> IF i = m THEN step[m][f[m - 1]] ELSE f[i]]
  <2>2. m - 1 \in 0..(m - 1) /\ f[m - 1] \in V BY <2>1
  <2>3. step[m][f[m - 1]] \in V BY <2>2
  <2>4. g \in [0..m -> V] BY <2>3
  <2>5. g[0] = c BY <2>1
  <2>6. ASSUME NEW i \in 1..m PROVE g[i] = step[i][g[i - 1]]
    <3>1. g[i - 1] = f[i - 1] OBVIOUS
    <3>2. CASE i = m
      <4>1. g[m] = step[m][f[m - 1]] OBVIOUS
      <4> HIDE DEF g
      <4> QED BY <3>1, <3>2, <4>1
    <3>3. CASE i # m
      <4>1. i \in 1..(m - 1) BY <3>3
      <4>2. g[i] = f[i] BY <3>3
      <4>3. f[i] = step[i][f[i - 1]] BY <2>1, <4>1
      <4> QED BY <3>1, <4>2, <4>3
    <3> QED BY <3>2, <3>3
  <2> HIDE DEF g
  <2>7. Has(m) BY <2>4, <2>5, <2>6
  <2> HIDE DEF Has
  <2> QED BY <2>7
<1>3. 0..n \subseteq T
  <2> HIDE DEF T
  <2> QED BY <1>1, <1>2, UpTo
<1>4. n \in T BY <1>3
<1> QED BY <1>4 DEF Computes

(* A function may be defined on a set from lower elements to higher ones:  *)
(* f is right up to a height, or everywhere.                               *)
Body(f, A, next, base, step, d) == IF d \in A THEN step[d][f[next[d]]] ELSE base[d]

RightUpTo(f, D, V, height, A, next, base, step, n) ==
  f \in [D -> V] /\ \A d \in D : height[d] <= n => f[d] = Body(f, A, next, base, step, d)

Descends(D, V, height, A, next, base, step) ==
  /\ height \in [D -> Nat] /\ next \in [D -> D]
  /\ \A d \in D : d \in A => height[next[d]] < height[d]
  /\ base \in [D -> V] /\ step \in [D -> [V -> V]]

LEMMA Descent ==
  ASSUME NEW D, NEW V, NEW height, NEW A, NEW next, NEW base, NEW step,
         Descends(D, V, height, A, next, base, step)
  PROVE  \E f \in [D -> V] : \A d \in D : f[d] = Body(f, A, next, base, step, d)
<1> USE DEF Descends
<1>. DEFINE Has(f, d) == f[d] = Body(f, A, next, base, step, d)
            Right(f, n) == RightUpTo(f, D, V, height, A, next, base, step, n)
<1>1. \A f, n : Right(f, n) <=> f \in [D -> V] /\ \A d \in D : height[d] <= n => Has(f, d)
  BY DEF RightUpTo
<1>2. ASSUME NEW f \in [D -> V], NEW d \in D PROVE Body(f, A, next, base, step, d) \in V
  BY DEF Body
<1>. HIDE DEF Right
<1>3. ASSUME NEW n \in Nat PROVE \E f : Right(f, n)
  <2>. DEFINE T == {m \in 0..n : \E f : Right(f, m)}
              lift(f) == [d \in D |-> Body(f, A, next, base, step, d)]
  <2>1. ASSUME NEW f \in [D -> V] PROVE lift(f) \in [D -> V]
    BY <1>2
  <2>2. 0 \in T
    <3>1. lift(base) \in [D -> V] BY <2>1
    <3>2. ASSUME NEW d \in D, height[d] <= 0 PROVE Has(lift(base), d)
      <4>1. d \notin A
        <5>1. height[next[d]] \in Nat /\ height[d] \in Nat OBVIOUS
        <5> QED BY <3>2, <5>1
      <4> QED BY <4>1 DEF Body
    <3>3. Right(lift(base), 0)
      <4> HIDE DEF lift, Has
      <4> QED BY <1>1, <3>1, <3>2
    <3> QED BY <3>3
  <2>3. ASSUME NEW m \in 1..n, m - 1 \in T PROVE m \in T
    <3>1. PICK f : Right(f, m - 1) BY <2>3
    <3>2. f \in [D -> V] BY <1>1, <3>1
    <3>3. lift(f) \in [D -> V] BY <2>1, <3>2
    <3>4. ASSUME NEW d \in D, height[d] <= m PROVE Has(lift(f), d)
      <4>1. lift(f)[d] = Body(f, A, next, base, step, d) OBVIOUS
      <4>2. CASE d \in A
        <5>1. PICK e \in D : e = next[d] OBVIOUS
        <5>2. height[e] <= m - 1
          <6>1. height[e] \in Nat /\ height[d] \in Nat /\ height[e] < height[d]
            BY <4>2, <5>1
          <6> QED BY <3>4, <6>1
        <5>3. f[e] = Body(f, A, next, base, step, e) BY <1>1, <3>1, <5>2
        <5>4. lift(f)[e] = f[e] BY <5>3
        <5> HIDE DEF lift
        <5> QED BY <4>1, <4>2, <5>1, <5>4 DEF Body
      <4>3. CASE d \notin A
        <5> HIDE DEF lift
        <5> QED BY <4>1, <4>3 DEF Body
      <4> QED BY <4>2, <4>3
    <3>5. Right(lift(f), m)
      <4> HIDE DEF lift, Has
      <4> QED BY <1>1, <3>3, <3>4
    <3> QED BY <3>5
  <2>4. 0..n \subseteq T
    <3> HIDE DEF T
    <3> QED BY <2>2, <2>3, UpTo
  <2>5. n \in T
    <3> HIDE DEF T
    <3> QED BY <2>4
  <2> QED BY <2>5
<1>4. ASSUME NEW f, NEW m \in Nat, Right(f, m), NEW g, NEW n \in Nat, Right(g, n),
             NEW d \in D, height[d] <= m, height[d] <= n
      PROVE  f[d] = g[d]
  <2>. DEFINE Low(e) == height[e] <= m /\ height[e] <= n
              T == {height[e] : e \in {e \in D : Low(e) /\ f[e] # g[e]}}
  <2>1. SUFFICES ASSUME T # {} PROVE FALSE BY <1>4
  <2>2. T \subseteq Nat OBVIOUS
  <2>3. PICK h \in T : \A k \in T : h <= k
    <3> HIDE DEF T
    <3> QED BY <2>1, <2>2, LeastNatural
  <2>4. PICK e \in D : h = height[e] /\ Low(e) /\ f[e] # g[e] BY <2>3
  <2>5. Has(f, e) /\ Has(g, e) BY <1>1, <1>4, <2>4
  <2>6. e \in A BY <2>5, <2>4 DEF Body
  <2>7. PICK c \in D : c = next[e] OBVIOUS
  <2>8. height[c] \in Nat /\ height[e] \in Nat /\ height[c] < height[e] BY <2>6, <2>7
  <2>9. Low(c) BY <2>4, <2>8
  <2>10. height[c] \notin T
    <3> HIDE DEF T
    <3> QED BY <2>3, <2>4, <2>8
  <2>11. f[c] = g[c] BY <2>9, <2>10
  <2> QED BY <2>4, <2>5, <2>6, <2>7, <2>11 DEF Body
<1>. DEFINE some == [d \in D |-> CHOOSE f : Right(f, height[d])]
            f == [d \in D |-> some[d][d]]
<1>5. ASSUME NEW d \in D PROVE Right(some[d], height[d])
  <2>1. height[d] \in Nat OBVIOUS
  <2>2. \E g : Right(g, height[d]) BY <1>3, <2>1
  <2> QED BY <2>2
<1> HIDE DEF some
<1>6. \A d \in D : some[d] \in [D -> V] /\ Has(some[d], d)
  <2> SUFFICES ASSUME NEW d \in D PROVE some[d] \in [D -> V] /\ Has(some[d], d) OBVIOUS
  <2>1. height[d] \in Nat OBVIOUS
  <2>2. height[d] <= height[d] BY <2>1
  <2> HIDE DEF Has
  <2> QED BY <1>1, <1>5, <2>2
<1>7. f \in [D -> V] BY <1>6
<1>8. ASSUME NEW d \in D PROVE f[d] = Body(f, A, next, base, step, d)
  <2>1. f[d] = Body(some[d], A, next, base, step, d) BY <1>6
  <2>2. CASE d \in A
    <3>1. PICK e \in D : e = next[d] OBVIOUS
    <3>2. height[e] \in Nat /\ height[d] \in Nat /\ height[e] < height[d] BY <2>2, <3>1
    <3>3. height[e] <= height[e] /\ height[e] <= height[d] BY <3>2
    <3>4. some[d][e] = some[e][e]
      <4> HIDE DEF f
      <4> QED BY <1>4, <1>5, <3>2, <3>3
    <3>5. f[e] = some[d][e] BY <3>4
    <3> HIDE DEF f
    <3> QED BY <2>1, <2>2, <3>1, <3>5 DEF Body
  <2>3. CASE d \notin A
    <3> HIDE DEF f
    <3> QED BY <2>1, <2>3 DEF Body
  <2> QED BY <2>2, <2>3
<1> HIDE DEF f
<1> QED BY <1>7, <1>8

(***************************************************************************)
(* Kept.                                                                   *)
(***************************************************************************)
(* f has what is kept of each front of s.                                  *)
Keeps(f, V, s, S) ==
  /\ f \in [0..Len(s) -> Seq(V)]
  /\ f[0] = <<>>
  /\ \A i \in 1..Len(s) :
       f[i] = IF s[i] \in S THEN Append(f[i - 1], s[i]) ELSE f[i - 1]

(* The function that computes it, and its equation.                        *)
LEMMA KeptFunction ==
  ASSUME NEW V, NEW s \in Seq(V), NEW S
  PROVE  \E f : Keeps(f, V, s, S) /\ Kept(s, S) = f[Len(s)]
<1>. DEFINE n == Len(s)
            step == [i \in 1..n |-> [v \in Seq(V) |-> IF s[i] \in S THEN Append(v, s[i]) ELSE v]]
            body(f, i) == IF i = 0 THEN <<>>
                          ELSE IF s[i] \in S THEN Append(f[i - 1], s[i]) ELSE f[i - 1]
            kept == CHOOSE f : f = [i \in 0..n |-> body(f, i)]
<1>1. n \in Nat /\ <<>> \in Seq(V) OBVIOUS
<1>2. step \in [1..n -> [Seq(V) -> Seq(V)]]
  <2>1. ASSUME NEW i \in 1..n, NEW v \in Seq(V)
        PROVE  (IF s[i] \in S THEN Append(v, s[i]) ELSE v) \in Seq(V)
    BY ElementOfSeq
  <2> QED BY <2>1
<1>3. \A i \in 1..n, v \in Seq(V) :
        step[i][v] = IF s[i] \in S THEN Append(v, s[i]) ELSE v
  OBVIOUS
<1> HIDE DEF step
<1>4. PICK f \in [0..n -> Seq(V)] : f[0] = <<>> /\ \A i \in 1..n : f[i] = step[i][f[i - 1]]
  <2> HIDE DEF n, body, kept
  <2>1. PICK f : Computes(f, Seq(V), <<>>, step, n) BY <1>1, <1>2, Recursion
  <2> QED BY <2>1 DEF Computes
<1>5. f = [i \in 0..n |-> body(f, i)]
  <2>1. ASSUME NEW i \in 0..n PROVE f[i] = body(f, i)
    <3>1. CASE i = 0 BY <1>4, <3>1
    <3>2. CASE i # 0
      <4>1. i \in 1..n /\ f[i - 1] \in Seq(V) BY <1>4, <3>2
      <4> QED BY <1>3, <1>4, <3>2, <4>1
    <3> QED BY <3>1, <3>2
  <2> HIDE DEF body
  <2> QED BY <1>4, <2>1
<1>6. kept = [i \in 0..n |-> body(kept, i)]
  <2> HIDE DEF body
  <2> QED BY <1>5, Zenon
<1>7. ASSUME NEW i \in 0..n PROVE kept[i] = f[i]
  <2>. DEFINE T == {j \in 0..n : kept[j] = f[j]}
  <2>1. 0 \in T
    <3>1. 0 \in 0..n BY <1>1
    <3>2. kept[0] = body(kept, 0)
      <4> HIDE DEF kept, body
      <4> QED BY <1>6, <3>1
    <3> HIDE DEF kept
    <3> QED BY <1>1, <1>4, <3>1, <3>2
  <2>2. ASSUME NEW j \in 1..n, j - 1 \in T PROVE j \in T
    <3>1. j \in 0..n /\ j # 0 BY <1>1
    <3>2. kept[j] = body(kept, j) /\ f[j] = body(f, j)
      <4> HIDE DEF kept, body
      <4> QED BY <1>5, <1>6, <3>1
    <3>3. kept[j - 1] = f[j - 1] BY <2>2
    <3> HIDE DEF kept
    <3>4. body(kept, j) = body(f, j) BY <3>3
    <3> QED BY <3>1, <3>2, <3>4
  <2>3. 0..n \subseteq T
    <3> HIDE DEF T
    <3> QED BY <1>1, <2>1, <2>2, UpTo
  <2> QED BY <2>3
<1>8. Kept(s, S) = kept[n] BY DEF Kept
<1> HIDE DEF kept
<1>9. Kept(s, S) = f[n] BY <1>1, <1>7, <1>8
<1>10. ASSUME NEW i \in 1..n
       PROVE  f[i] = IF s[i] \in S THEN Append(f[i - 1], s[i]) ELSE f[i - 1]
  <2>1. i - 1 \in 0..n /\ f[i - 1] \in Seq(V) BY <1>1
  <2> QED BY <1>3, <1>4, <2>1
<1> QED BY <1>4, <1>9, <1>10 DEF Keeps

(* Nothing is kept of nothing; and one more element is kept or not.        *)
LEMMA KeptEmpty == \A S : Kept(<<>>, S) = <<>>
<1> SUFFICES ASSUME NEW S PROVE Kept(<<>>, S) = <<>> OBVIOUS
<1>1. <<>> \in Seq({}) /\ Len(<<>>) = 0 OBVIOUS
<1>2. PICK f : Keeps(f, {}, <<>>, S) /\ Kept(<<>>, S) = f[Len(<<>>)]
  BY <1>1, KeptFunction
<1> QED BY <1>1, <1>2 DEF Keeps

LEMMA KeptAppend ==
  ASSUME NEW V, NEW s \in Seq(V), NEW x \in V, NEW S
  PROVE  /\ Kept(s, S) \in Seq(V)
         /\ Kept(Append(s, x), S) = IF x \in S THEN Append(Kept(s, S), x) ELSE Kept(s, S)
<1>. DEFINE n == Len(s)  t == Append(s, x)
<1>1. /\ n \in Nat /\ t \in Seq(V) /\ Len(t) = n + 1 /\ t[n + 1] = x
      /\ \A i \in 1..n : t[i] = s[i]
  OBVIOUS
<1> HIDE DEF t
<1>2. PICK f \in [0..n -> Seq(V)] :
        /\ f[0] = <<>>
        /\ \A i \in 1..n : f[i] = IF s[i] \in S THEN Append(f[i - 1], s[i]) ELSE f[i - 1]
        /\ Kept(s, S) = f[n]
  <2>1. PICK f : Keeps(f, V, s, S) /\ Kept(s, S) = f[n] BY KeptFunction
  <2> QED BY <2>1 DEF Keeps
<1>3. PICK g \in [0..(n + 1) -> Seq(V)] :
        /\ g[0] = <<>>
        /\ \A i \in 1..(n + 1) :
             g[i] = IF t[i] \in S THEN Append(g[i - 1], t[i]) ELSE g[i - 1]
        /\ Kept(t, S) = g[n + 1]
  <2>1. PICK g : Keeps(g, V, t, S) /\ Kept(t, S) = g[Len(t)] BY <1>1, KeptFunction
  <2> QED BY <1>1, <2>1 DEF Keeps
<1>. DEFINE T == {i \in 0..n : f[i] = g[i]}
<1> HIDE DEF n
<1>4. 0 \in T BY <1>1, <1>2, <1>3
<1>5. ASSUME NEW i \in 1..n, i - 1 \in T PROVE i \in T
  <2>1. i \in 1..(n + 1) /\ i \in 0..n /\ f[i - 1] = g[i - 1] /\ t[i] = s[i] BY <1>1, <1>5
  <2>2. f[i] = IF s[i] \in S THEN Append(f[i - 1], s[i]) ELSE f[i - 1] BY <1>2
  <2>3. g[i] = IF t[i] \in S THEN Append(g[i - 1], t[i]) ELSE g[i - 1] BY <1>3, <2>1
  <2>4. f[i] = g[i] BY <2>1, <2>2, <2>3
  <2> QED BY <2>1, <2>4
<1>6. 0..n \subseteq T
  <2> HIDE DEF T
  <2> QED BY <1>1, <1>4, <1>5, UpTo
<1>7. f[n] = g[n]
  <2>1. n \in 0..n BY <1>1
  <2> QED BY <1>6, <2>1
<1>8. n + 1 \in 1..(n + 1) /\ (n + 1) - 1 = n BY <1>1
<1>9. g[n + 1] = IF x \in S THEN Append(g[n], x) ELSE g[n] BY <1>1, <1>3, <1>8
<1>10. f[n] \in Seq(V) BY <1>1, <1>2
<1> QED BY <1>2, <1>3, <1>7, <1>9, <1>10 DEF t

(* What is kept depends on which elements of s are in the set, no more.    *)
LEMMA KeptSame ==
  ASSUME NEW V, NEW s \in Seq(V), NEW S, NEW T,
         \A i \in 1..Len(s) : s[i] \in S <=> s[i] \in T
  PROVE  Kept(s, S) = Kept(s, T)
<1>. DEFINE n == Len(s)
<1>1. n \in Nat OBVIOUS
<1>2. PICK f : Keeps(f, V, s, S) /\ Kept(s, S) = f[n] BY KeptFunction
<1>3. PICK g : Keeps(g, V, s, T) /\ Kept(s, T) = g[n] BY KeptFunction
<1>. DEFINE Same == {i \in 0..n : f[i] = g[i]}
<1>4. 0 \in Same BY <1>1, <1>2, <1>3 DEF Keeps
<1>5. ASSUME NEW i \in 1..n, i - 1 \in Same PROVE i \in Same
  <2>1. f[i] = IF s[i] \in S THEN Append(f[i - 1], s[i]) ELSE f[i - 1] BY <1>2 DEF Keeps
  <2>2. g[i] = IF s[i] \in T THEN Append(g[i - 1], s[i]) ELSE g[i - 1] BY <1>3 DEF Keeps
  <2>3. f[i - 1] = g[i - 1] /\ i \in 0..n BY <1>1, <1>5
  <2> QED BY <2>1, <2>2, <2>3
<1>6. 0..n \subseteq Same
  <2> HIDE DEF Same, n
  <2> QED BY <1>1, <1>4, <1>5, UpTo
<1>7. n \in 0..n BY <1>1
<1> QED BY <1>2, <1>3, <1>6, <1>7

(* What is kept are elements of s. *)
LEMMA KeptType ==
  ASSUME NEW V, NEW s \in Seq(V), NEW S
  PROVE  Kept(s, S) \in Seq(V)
<1>1. PICK f : Keeps(f, V, s, S) /\ Kept(s, S) = f[Len(s)] BY KeptFunction
<1>2. Len(s) \in 0..Len(s) OBVIOUS
<1> QED BY <1>1, <1>2 DEF Keeps

(* The elements of what is kept are those of s that are in the set. *)
LEMMA KeptElements ==
  ASSUME NEW V, NEW s \in Seq(V), NEW S
  PROVE  ToSet(Kept(s, S)) = ToSet(s) \cap S
<1>. DEFINE n == Len(s)
            Elements(q) == {q[k] : k \in 1..Len(q)}
            Begun(m) == {s[i] : i \in 1..m}
<1>1. n \in Nat OBVIOUS
<1>2. PICK f : Keeps(f, V, s, S) /\ Kept(s, S) = f[n] BY KeptFunction
<1>. DEFINE T == {m \in 0..n : Elements(f[m]) = Begun(m) \cap S}
<1>3. 0 \in T
  <2>1. f[0] = <<>> BY <1>2 DEF Keeps
  <2>2. Elements(f[0]) = {} /\ Begun(0) = {} BY <2>1
  <2>3. Elements(f[0]) = Begun(0) \cap S BY <2>2
  <2>4. 0 \in 0..n BY <1>1
  <2> HIDE DEF Elements, Begun, n
  <2> QED BY <2>3, <2>4
<1>4. ASSUME NEW m \in 1..n, m - 1 \in T PROVE m \in T
  <2>1. m - 1 \in 0..n /\ m \in 0..n BY <1>1
  <2>2. PICK q : q = f[m - 1] OBVIOUS
  <2>3. PICK x : x = s[m] OBVIOUS
  <2>4. q \in Seq(V) /\ x \in V BY <1>1, <1>2, <2>1, <2>2, <2>3, ElementOfSeq DEF Keeps
  <2>5. f[m] = IF x \in S THEN Append(q, x) ELSE q BY <1>2, <2>2, <2>3 DEF Keeps
  <2>6. Elements(q) = Begun(m - 1) \cap S BY <1>4, <2>2
  <2>7. Begun(m) = Begun(m - 1) \cup {x}
    <3>1. 1..m = 1..(m - 1) \cup {m} BY <1>1
    <3> QED BY <2>3, <3>1
  <2>8. Elements(Append(q, x)) = Elements(q) \cup {x}
    <3>1. /\ Len(q) \in Nat /\ Len(Append(q, x)) = Len(q) + 1
          /\ Append(q, x)[Len(q) + 1] = x
          /\ \A i \in 1..Len(q) : Append(q, x)[i] = q[i]
      BY <2>4
    <3>2. 1..(Len(q) + 1) = 1..Len(q) \cup {Len(q) + 1} BY <3>1
    <3> QED BY <3>1, <3>2
  <2> HIDE DEF Elements, Begun
  <2>9. CASE x \in S
    <3>1. Elements(f[m]) = Begun(m) \cap S BY <2>5, <2>6, <2>7, <2>8, <2>9
    <3> QED BY <2>1, <3>1
  <2>10. CASE x \notin S
    <3>1. Elements(f[m]) = Begun(m) \cap S BY <2>5, <2>6, <2>7, <2>10
    <3> QED BY <2>1, <3>1
  <2> QED BY <2>9, <2>10
<1>5. 0..n \subseteq T
  <2> HIDE DEF T, n
  <2> QED BY <1>1, <1>3, <1>4, UpTo
<1>6. n \in T
  <2> HIDE DEF T, n
  <2> QED BY <1>1, <1>5
<1>7. \A q \in Seq(V) : ToSet(q) = Elements(q) BY DEF ToSet
<1>8. Kept(s, S) \in Seq(V) BY KeptType
<1> QED BY <1>2, <1>6, <1>7, <1>8

(***************************************************************************)
(* FlattenSeq.                                                             *)
(***************************************************************************)
(* The function that computes it, and its equation.                        *)
LEMMA FlattenFunction ==
  ASSUME NEW V, NEW s \in Seq(Seq(V)), s # <<>>
  PROVE  \E f :
           /\ \A i \in 1..Len(s) : f[i] \in Seq(V)
           /\ f[1] = s[1]
           /\ \A i \in 2..Len(s) : f[i] = f[i - 1] \o s[i]
           /\ FlattenSeq(s) = f[Len(s)]
<1>. DEFINE n == Len(s)
            step == [i \in 1..n |-> [v \in Seq(V) |-> v \o s[i]]]
            body(f, i) == IF i = 1 THEN s[i] ELSE f[i - 1] \o s[i]
            flat == CHOOSE f : f = [i \in 1..n |-> body(f, i)]
<1>1. n \in Nat /\ n > 0 /\ <<>> \in Seq(V) /\ \A i \in 1..n : s[i] \in Seq(V)
  BY ElementOfSeq
<1>2. step \in [1..n -> [Seq(V) -> Seq(V)]]
  <2>1. ASSUME NEW i \in 1..n, NEW v \in Seq(V) PROVE v \o s[i] \in Seq(V)
    BY <1>1, ConcatProperties
  <2> QED BY <2>1
<1>3. \A i \in 1..n, v \in Seq(V) : step[i][v] = v \o s[i] OBVIOUS
<1> HIDE DEF step
<1>4. PICK g \in [0..n -> Seq(V)] : g[0] = <<>> /\ \A i \in 1..n : g[i] = step[i][g[i - 1]]
  <2> HIDE DEF n, body, flat
  <2>1. PICK g : Computes(g, Seq(V), <<>>, step, n) BY <1>1, <1>2, Recursion
  <2> QED BY <2>1 DEF Computes
<1>. DEFINE f == [i \in 1..n |-> g[i]]
<1>5. \A i \in 1..n : f[i] \in Seq(V) /\ f[i] = g[i] OBVIOUS
<1>6. f[1] = s[1]
  <2>1. g[1] = g[0] \o s[1]
    <3>1. 1 \in 1..n /\ 1 - 1 = 0 BY <1>1
    <3>2. g[1] = step[1][g[0]] BY <1>4, <3>1
    <3> QED BY <1>1, <1>3, <1>4, <3>1, <3>2
  <2>2. s[1] \in Seq(V) /\ 1 \in 1..n BY <1>1
  <2>3. <<>> \o s[1] = s[1] BY <2>2, ConcatEmptySeq
  <2> QED BY <1>4, <1>5, <2>1, <2>2, <2>3
<1>7. ASSUME NEW i \in 2..n PROVE f[i] = f[i - 1] \o s[i]
  <2>1. i \in 1..n /\ i - 1 \in 1..n /\ i - 1 \in 0..n BY <1>1
  <2>0. g[i - 1] \in Seq(V) BY <2>1
  <2>2. g[i] = g[i - 1] \o s[i] BY <1>3, <1>4, <2>0, <2>1
  <2> HIDE DEF f
  <2> QED BY <1>5, <2>1, <2>2
<1>8. f = [i \in 1..n |-> body(f, i)]
  <2>1. ASSUME NEW i \in 1..n PROVE f[i] = body(f, i)
    <3>1. CASE i = 1 BY <1>6, <3>1
    <3>2. CASE i # 1
      <4>1. i \in 2..n BY <1>1, <3>2
      <4>2. f[i] = f[i - 1] \o s[i] BY <1>7, <4>1
      <4> HIDE DEF f
      <4> QED BY <3>2, <4>2
    <3> QED BY <3>1, <3>2
  <2> HIDE DEF body
  <2> QED BY <2>1
<1>9. flat = [i \in 1..n |-> body(flat, i)]
  <2> HIDE DEF body, f
  <2> QED BY <1>8, Zenon
<1>10. FlattenSeq(s) = flat[n] BY <1>1 DEF FlattenSeq
<1> HIDE DEF f, flat
<1>11. ASSUME NEW i \in 1..n PROVE flat[i] = body(flat, i)
  <2> HIDE DEF body
  <2> QED BY <1>9
<1>. DEFINE T == {0} \cup {j \in 1..n : flat[j] = f[j]}
<1>12. ASSUME NEW j \in 1..n, j - 1 \in T PROVE j \in T
  <2>1. flat[j] = body(flat, j) BY <1>11
  <2>2. CASE j = 1 BY <1>6, <2>1, <2>2
  <2>3. CASE j # 1
    <3>1. j \in 2..n /\ j - 1 # 0 BY <1>1, <2>3
    <3>2. flat[j - 1] = f[j - 1] BY <1>12, <3>1
    <3>3. f[j] = f[j - 1] \o s[j] BY <1>7, <3>1
    <3> QED BY <2>1, <2>3, <3>2, <3>3
  <2> QED BY <2>2, <2>3
<1>13. 0..n \subseteq T
  <2>1. 0 \in T OBVIOUS
  <2> HIDE DEF T, body, n
  <2> QED BY <1>1, <1>12, <2>1, UpTo
<1>14. FlattenSeq(s) = f[n]
  <2>1. n \in 0..n /\ n # 0 BY <1>1
  <2> QED BY <1>10, <1>13, <2>1
<1> QED BY <1>5, <1>6, <1>7, <1>14

(* Nothing joined is nothing; one more sequence comes behind the others.   *)
LEMMA FlattenEmpty == FlattenSeq(<<>>) = <<>>
BY DEF FlattenSeq

LEMMA FlattenAppend ==
  ASSUME NEW V, NEW s \in Seq(Seq(V)), NEW x \in Seq(V)
  PROVE  /\ FlattenSeq(s) \in Seq(V)
         /\ FlattenSeq(Append(s, x)) = FlattenSeq(s) \o x
<1>. DEFINE n == Len(s)  t == Append(s, x)
<1>1. /\ n \in Nat /\ t \in Seq(Seq(V)) /\ Len(t) = n + 1 /\ t[n + 1] = x
      /\ t # <<>> /\ \A i \in 1..n : t[i] = s[i]
  OBVIOUS
<1> HIDE DEF t
<1>2. PICK g :
        /\ \A i \in 1..(n + 1) : g[i] \in Seq(V)
        /\ g[1] = t[1]
        /\ \A i \in 2..(n + 1) : g[i] = g[i - 1] \o t[i]
        /\ FlattenSeq(t) = g[n + 1]
  <2>1. \E g : /\ \A i \in 1..Len(t) : g[i] \in Seq(V)
               /\ g[1] = t[1]
               /\ \A i \in 2..Len(t) : g[i] = g[i - 1] \o t[i]
               /\ FlattenSeq(t) = g[Len(t)]
    BY <1>1, FlattenFunction
  <2> QED BY <1>1, <2>1
<1>3. CASE s = <<>>
  <2>1. n = 0 /\ FlattenSeq(s) = <<>> BY <1>3, FlattenEmpty
  <2>2. g[n + 1] = x BY <1>1, <1>2, <2>1
  <2> QED BY <1>2, <2>1, <2>2, ConcatEmptySeq DEF t
<1>4. CASE s # <<>>
  <2>1. PICK f :
        /\ \A i \in 1..n : f[i] \in Seq(V)
        /\ f[1] = s[1]
        /\ \A i \in 2..n : f[i] = f[i - 1] \o s[i]
        /\ FlattenSeq(s) = f[n]
    BY <1>4, FlattenFunction
  <2>0. n > 0 BY <1>4
  <2>. DEFINE T == {0} \cup {j \in 1..n : g[j] = f[j]}
  <2> HIDE DEF n
  <2>2. ASSUME NEW j \in 1..n, j - 1 \in T PROVE j \in T
    <3>1. CASE j = 1 BY <1>1, <1>2, <2>1, <3>1
    <3>2. CASE j # 1
      <4>1. j \in 2..n /\ j \in 2..(n + 1) /\ j - 1 # 0 BY <1>1, <3>2
      <4>2. g[j - 1] = f[j - 1] /\ t[j] = s[j] BY <1>1, <2>2, <4>1
      <4>3. g[j] = f[j] BY <1>2, <2>1, <4>1, <4>2
      <4> QED BY <4>3
    <3> QED BY <3>1, <3>2
  <2>3. 0..n \subseteq T
    <3>1. 0 \in T OBVIOUS
    <3> HIDE DEF T
    <3> QED BY <1>1, <2>2, <3>1, UpTo
  <2>4. n \in 0..n /\ n \in 1..n /\ n + 1 \in 2..(n + 1) /\ (n + 1) - 1 = n BY <1>1, <2>0
  <2>5. g[n] = f[n] BY <2>3, <2>4, <2>0
  <2>6. g[n + 1] = g[n] \o x BY <1>1, <1>2, <2>4
  <2> QED BY <1>2, <2>1, <2>4, <2>5, <2>6 DEF t
<1> QED BY <1>3, <1>4

(* The first m sequences joined are the first m - 1 joined and the m-th.   *)
LEMMA FlattenFront ==
  ASSUME NEW V, NEW s \in Seq(Seq(V)), NEW m \in 1..Len(s)
  PROVE  /\ FlattenSeq(SubSeq(s, 1, m - 1)) \in Seq(V)
         /\ FlattenSeq(SubSeq(s, 1, m)) \in Seq(V)
         /\ FlattenSeq(SubSeq(s, 1, m)) = FlattenSeq(SubSeq(s, 1, m - 1)) \o s[m]
<1>. DEFINE r == SubSeq(s, 1, m - 1)
<1>1. m \in Nat /\ Len(s) \in Nat /\ s[m] \in Seq(V) BY ElementOfSeq
<1>2. r \in Seq(Seq(V)) BY <1>1
<1>3. SubSeq(s, 1, m) = r \o <<s[m]>>
  <2>1. 1 \in 1..Len(s) /\ m \in 1..Len(s) BY <1>1
  <2> QED BY <2>1, SubSeqRecursiveSecond
<1> HIDE DEF r
<1>4. r \o <<s[m]>> = Append(r, s[m]) BY <1>1, <1>2, AppendIsConcat
<1>5. /\ FlattenSeq(r) \in Seq(V)
      /\ FlattenSeq(Append(r, s[m])) = FlattenSeq(r) \o s[m]
  BY <1>1, <1>2, FlattenAppend
<1>6. FlattenSeq(r) \o s[m] \in Seq(V) BY <1>1, <1>5, ConcatProperties
<1> QED BY <1>3, <1>4, <1>5, <1>6 DEF r

(* Sequences joined are a sequence. *)
LEMMA FlattenType ==
  ASSUME NEW V, NEW s \in Seq(Seq(V))
  PROVE  FlattenSeq(s) \in Seq(V)
BY FlattenAppend, EmptySeq

(* Joining is associative: the fact of the library, in a form that can be   *)
(* cited where there are other sequences about.                            *)
Associative(V) == \A a, b, c \in Seq(V) : (a \o b) \o c = a \o (b \o c)

LEMMA JoinAssociative == ASSUME NEW V PROVE Associative(V)
<1> SUFFICES ASSUME NEW a \in Seq(V), NEW b \in Seq(V), NEW c \in Seq(V)
             PROVE  (a \o b) \o c = a \o (b \o c)
  BY DEF Associative
<1> QED BY ConcatAssociative

(* Joining distributes over concatenation. *)
LEMMA FlattenConcat ==
  ASSUME NEW V, NEW s \in Seq(Seq(V)), NEW t \in Seq(Seq(V))
  PROVE  FlattenSeq(s \o t) = FlattenSeq(s) \o FlattenSeq(t)
<1>. DEFINE u == s \o t  n == Len(s)  m == Len(t)
            T == {k \in 0..m :
                    FlattenSeq(SubSeq(u, 1, n + k)) = FlattenSeq(s) \o FlattenSeq(SubSeq(t, 1, k))}
<1>1. n \in Nat /\ m \in Nat OBVIOUS
<1>2. /\ u \in Seq(Seq(V)) /\ Len(u) = n + m
      /\ \A i \in 1..(n + m) : u[i] = IF i <= n THEN s[i] ELSE t[i - n]
  BY ConcatProperties
<1> HIDE DEF u
<1>3. 0 \in T
  <2>1. SubSeq(u, 1, n) = s
    <3>1. SubSeq(u, 1, n) \in Seq(Seq(V)) /\ Len(SubSeq(u, 1, n)) = n
          /\ \A i \in 1..n : SubSeq(u, 1, n)[i] = u[i]
      BY <1>1, <1>2
    <3>2. \A i \in 1..n : SubSeq(u, 1, n)[i] = s[i] BY <1>1, <1>2, <3>1
    <3> QED BY <1>1, <3>1, <3>2, SeqEqual
  <2>2. SubSeq(t, 1, 0) = <<>> BY SubSeqEmpty
  <2>3. FlattenSeq(s) \o <<>> = FlattenSeq(s) BY FlattenType, ConcatEmptySeq
  <2>4. 0 \in 0..m /\ n + 0 = n BY <1>1
  <2>5. FlattenSeq(SubSeq(u, 1, n + 0)) = FlattenSeq(s) \o FlattenSeq(SubSeq(t, 1, 0))
    <3> HIDE DEF n
    <3> QED BY <2>1, <2>2, <2>3, <2>4, FlattenEmpty
  <2> QED BY <2>4, <2>5
<1>4. ASSUME NEW k \in 1..m, k - 1 \in T PROVE k \in T
  <2>. DEFINE f(w, j) == FlattenSeq(SubSeq(w, 1, j))
  <2>1. /\ k \in 0..m /\ n + k \in 1..Len(u) /\ (n + k) - 1 = n + (k - 1)
        /\ n + k \in 1..(n + m) /\ ~(n + k <= n) /\ (n + k) - n = k
    BY <1>1, <1>2
  <2>2. u[n + k] = t[k] BY <1>2, <2>1
  <2>3. f(u, n + k) = f(u, (n + k) - 1) \o u[n + k] BY <1>2, <2>1, FlattenFront
  <2>4. f(t, k) = f(t, k - 1) \o t[k] /\ f(t, k - 1) \in Seq(V) BY FlattenFront
  <2>5. f(u, n + (k - 1)) = FlattenSeq(s) \o f(t, k - 1) BY <1>4
  <2>6. t[k] \in Seq(V) /\ FlattenSeq(s) \in Seq(V) BY ElementOfSeq, FlattenType
  <2> HIDE DEF f
  <2>7. (FlattenSeq(s) \o f(t, k - 1)) \o t[k] = FlattenSeq(s) \o (f(t, k - 1) \o t[k])
    <3>1. FlattenSeq(s) \in Seq(V) /\ f(t, k - 1) \in Seq(V) /\ t[k] \in Seq(V)
      BY <2>4, <2>6
    <3>2. Associative(V) BY JoinAssociative
    <3> QED BY <3>1, <3>2, Zenon DEF Associative
  <2>8. f(u, n + k) = FlattenSeq(s) \o f(t, k) BY <2>1, <2>2, <2>3, <2>4, <2>5, <2>7
  <2> QED BY <2>1, <2>8 DEF f
<1>5. 0..m \subseteq T
  <2> HIDE DEF T
  <2> QED BY <1>1, <1>3, <1>4, UpTo
<1>6. m \in T
  <2> HIDE DEF T
  <2> QED BY <1>1, <1>5
<1>7. SubSeq(u, 1, n + m) = u /\ SubSeq(t, 1, m) = t BY <1>2, SubSeqFull
<1> QED BY <1>6, <1>7 DEF u

(* Empty sequences joined are empty. *)
LEMMA FlattenNothing ==
  ASSUME NEW s \in Seq({<<>>})
  PROVE  FlattenSeq(s) = <<>>
<1>1. {<<>>} \subseteq Seq({}) OBVIOUS
<1>2. s \in Seq(Seq({})) BY <1>1, SeqMonotonic
<1>. DEFINE r == FlattenSeq(s)
<1>3. r \in Seq({}) BY <1>2, FlattenType
<1> HIDE DEF r
<1>4. Len(r) \in Nat /\ \A i \in 1..Len(r) : r[i] \in {} BY <1>3, ElementOfSeq
<1>5. Len(r) = 0
  <2>1. Len(r) # 0 => 1 \in 1..Len(r) BY <1>4
  <2> QED BY <1>4, <2>1
<1>6. r = <<>> BY <1>3, <1>5, EmptySeq
<1> QED BY <1>6 DEF r

------------------------------------------------------------------------------
(* The front of a sequence, an element longer. *)
LEMMA FrontAppend ==
  ASSUME NEW V, NEW s \in Seq(V), NEW m \in 1..Len(s)
  PROVE  /\ SubSeq(s, 1, m - 1) \in Seq(V) /\ s[m] \in V
         /\ SubSeq(s, 1, m) = Append(SubSeq(s, 1, m - 1), s[m])
<1>. DEFINE r == SubSeq(s, 1, m - 1)
<1>1. m \in Nat /\ Len(s) \in Nat /\ s[m] \in V BY ElementOfSeq
<1>2. r \in Seq(V) BY <1>1
<1>3. SubSeq(s, 1, m) = r \o <<s[m]>>
  <2>1. 1 \in 1..Len(s) /\ m \in 1..Len(s) BY <1>1
  <2> QED BY <2>1, SubSeqRecursiveSecond
<1> HIDE DEF r
<1>4. r \o <<s[m]>> = Append(r, s[m]) BY <1>1, <1>2, AppendIsConcat
<1> QED BY <1>1, <1>2, <1>3, <1>4 DEF r

(* If only a front of s is in the set, that is what is kept.               *)
LEMMA KeptFront ==
  ASSUME NEW V, NEW s \in Seq(V), NEW S, NEW k \in 0..Len(s),
         \A i \in 1..Len(s) : s[i] \in S <=> i <= k
  PROVE  Kept(s, S) = SubSeq(s, 1, k)
<1>. DEFINE n == Len(s)
            upto(i) == IF i <= k THEN i ELSE k
            T == {i \in 0..n : Kept(SubSeq(s, 1, i), S) = SubSeq(s, 1, upto(i))}
<1>1. n \in Nat /\ k \in Nat /\ k <= n OBVIOUS
<1>2. 0 \in T
  <2>1. SubSeq(s, 1, 0) = <<>> BY SubSeqEmpty
  <2>2. upto(0) = 0 BY <1>1
  <2>3. Kept(SubSeq(s, 1, 0), S) = SubSeq(s, 1, upto(0))
    <3> HIDE DEF upto
    <3> QED BY <2>1, <2>2, KeptEmpty
  <2> HIDE DEF upto
  <2> QED BY <1>1, <2>3
<1>3. ASSUME NEW i \in 1..n, i - 1 \in T PROVE i \in T
  <2>1. /\ SubSeq(s, 1, i - 1) \in Seq(V) /\ s[i] \in V
        /\ SubSeq(s, 1, i) = Append(SubSeq(s, 1, i - 1), s[i])
    BY FrontAppend
  <2>2. Kept(SubSeq(s, 1, i), S)
          = IF s[i] \in S THEN Append(Kept(SubSeq(s, 1, i - 1), S), s[i])
            ELSE Kept(SubSeq(s, 1, i - 1), S)
    <3>1. PICK r, x : r = SubSeq(s, 1, i - 1) /\ x = s[i] OBVIOUS
    <3>2. r \in Seq(V) /\ x \in V /\ SubSeq(s, 1, i) = Append(r, x) BY <2>1, <3>1
    <3> HIDE DEF T, n
    <3>3. Kept(Append(r, x), S) = IF x \in S THEN Append(Kept(r, S), x) ELSE Kept(r, S)
      BY <3>2, KeptAppend
    <3> QED BY <3>1, <3>2, <3>3
  <2>3. Kept(SubSeq(s, 1, i - 1), S) = SubSeq(s, 1, upto(i - 1)) BY <1>3
  <2>4. CASE i <= k
    <3>1. upto(i - 1) = i - 1 /\ upto(i) = i /\ s[i] \in S BY <1>1, <2>4
    <3> HIDE DEF upto
    <3>2. Kept(SubSeq(s, 1, i), S) = SubSeq(s, 1, upto(i)) BY <2>1, <2>2, <2>3, <3>1
    <3> QED BY <1>1, <3>2
  <2>5. CASE ~(i <= k)
    <3>1. upto(i - 1) = k /\ upto(i) = k /\ s[i] \notin S BY <1>1, <2>5
    <3> HIDE DEF upto
    <3>2. Kept(SubSeq(s, 1, i), S) = SubSeq(s, 1, upto(i)) BY <2>2, <2>3, <3>1
    <3> QED BY <1>1, <3>2
  <2> QED BY <2>4, <2>5
<1>4. n \in T
  <2>1. 0..n \subseteq T
    <3> HIDE DEF T, n
    <3> QED BY <1>1, <1>2, <1>3, UpTo
  <2> QED BY <1>1, <2>1
<1>5. SubSeq(s, 1, n) = s BY SubSeqFull
<1>6. upto(n) = k BY <1>1
<1> HIDE DEF upto
<1> QED BY <1>4, <1>5, <1>6

(* An element behind two sequences. *)
LEMMA AppendBehind ==
  ASSUME NEW V, NEW s \in Seq(V), NEW t \in Seq(V), NEW x \in V
  PROVE  /\ s \o t \in Seq(V) /\ Append(t, x) \in Seq(V)
         /\ s \o Append(t, x) = Append(s \o t, x)
<1>1. s \o t \in Seq(V) /\ Append(t, x) \in Seq(V) BY ConcatProperties, AppendProperties
<1>2. Append(t, x) = t \o <<x>> BY AppendIsConcat
<1>3. PICK r : r = s \o t OBVIOUS
<1>4. Append(r, x) = r \o <<x>> BY <1>1, <1>3, AppendIsConcat
<1>5. <<x>> \in Seq(V) OBVIOUS
<1>6. (s \o t) \o <<x>> = s \o (t \o <<x>>) BY <1>5, ConcatAssociative
<1> QED BY <1>1, <1>2, <1>3, <1>4, <1>6
=============================================================================
