---------------------------- MODULE CallArgsProofs ----------------------------
(***************************************************************************)
(* The splitters and the checks of calls are right for all texts: for any  *)
(* set of operands and lexemes, calls of any length, constants of any word *)
(* size.  The argument goes from the lexemes to the verdicts:              *)
(*                                                                         *)
(*   - the depth of parentheses counts up and down with the lexemes, so    *)
(*     what is printed in pairs comes back to the depth it began at;       *)
(*   - what the walkers print for a statement is in every set of texts     *)
(*     that is closed under what they do with the texts of its operands;   *)
(*     the texts that can be split are such a set;                         *)
(*   - so each loop over the text of a call, the one of checks-utils.c and *)
(*     the one of parser.py, stands in front of one argument each time     *)
(*     around and stops behind the last;                                   *)
(*   - in the text of a constant the first word is its number, and what    *)
(*     __get_int_cst makes of the two words of a constant is the constant; *)
(*   - so a check finds the argument it is about, and reads its value;     *)
(*   - what the matcher cuts off a call leaves the arguments in front of   *)
(*     the cut where they were, and no constant in the one that is cut.    *)
(***************************************************************************)
EXTENDS CallArgs, SequenceLemmas, FiniteSetTheorems

(* Two sequences, one behind the other. *)
LEMMA ConcatParts ==
  ASSUME NEW V, NEW a \in Seq(V), NEW b \in Seq(V)
  PROVE  /\ a \o b \in Seq(V)
         /\ Len(a) \in Nat /\ Len(b) \in Nat /\ Len(a \o b) = Len(a) + Len(b)
         /\ \A i \in 1..Len(a) : (a \o b)[i] = a[i]
         /\ \A i \in 1..Len(b) : (a \o b)[Len(a) + i] = b[i]
<1>1. Len(a) \in Nat /\ Len(b) \in Nat OBVIOUS
<1>2. /\ a \o b \in Seq(V) /\ Len(a \o b) = Len(a) + Len(b)
      /\ \A i \in 1..(Len(a) + Len(b)) :
           (a \o b)[i] = IF i <= Len(a) THEN a[i] ELSE b[i - Len(a)]
  BY ConcatProperties
<1>3. ASSUME NEW i \in 1..Len(a) PROVE (a \o b)[i] = a[i] BY <1>1, <1>2
<1>4. ASSUME NEW i \in 1..Len(b) PROVE (a \o b)[Len(a) + i] = b[i]
  <2>1. PICK j : j = Len(a) + i OBVIOUS
  <2>2. j \in 1..(Len(a) + Len(b)) /\ ~(j <= Len(a)) /\ j - Len(a) = i BY <1>1, <2>1
  <2> QED BY <1>2, <2>1, <2>2
<1> QED BY <1>1, <1>2, <1>3, <1>4

(***************************************************************************)
(* Counting parentheses.                                                   *)
(***************************************************************************)
LEMMA CountType ==
  ASSUME NEW text, NEW from \in Int, NEW to \in Int, NEW c
  PROVE  /\ IsFiniteSet({p \in from..to : text[p] = c})
         /\ Count(text, from, to, c) \in Nat
<1>1. IsFiniteSet(from..to) BY FS_Interval
<1>2. {p \in from..to : text[p] = c} \subseteq from..to OBVIOUS
<1>3. IsFiniteSet({p \in from..to : text[p] = c}) BY <1>1, <1>2, FS_Subset
<1> QED BY <1>3, FS_CardinalityType DEF Count

(* One place more. *)
LEMMA CountStep ==
  ASSUME NEW text, NEW from \in Int, NEW to \in Int, from <= to, NEW c
  PROVE  Count(text, from, to, c)
           = Count(text, from, to - 1, c) + (IF text[to] = c THEN 1 ELSE 0)
<1>. DEFINE S == {p \in from..(to - 1) : text[p] = c}
<1>1. IsFiniteSet(S) /\ Cardinality(S) \in Nat /\ Cardinality(S) = Count(text, from, to - 1, c)
  <2>1. PICK last : last = to - 1 OBVIOUS
  <2>2. last \in Int BY <2>1
  <2>3. /\ IsFiniteSet({p \in from..last : text[p] = c}) /\ Count(text, from, last, c) \in Nat
        /\ Count(text, from, last, c) = Cardinality({p \in from..last : text[p] = c})
    <3>1. /\ IsFiniteSet({p \in from..last : text[p] = c})
          /\ Count(text, from, last, c) \in Nat
      BY <2>2, CountType
    <3>2. Count(text, from, last, c) = Cardinality({p \in from..last : text[p] = c})
      BY DEF Count
    <3> QED BY <3>1, <3>2
  <2>4. S = {p \in from..last : text[p] = c} BY <2>1
  <2> HIDE DEF S
  <2> QED BY <2>1, <2>3, <2>4
<1>2. CASE text[to] = c
  <2>1. {p \in from..to : text[p] = c} = S \cup {to} BY <1>2
  <2>2. to \notin S OBVIOUS
  <2>3. Cardinality(S \cup {to}) = Cardinality(S) + 1
    <3> HIDE DEF S
    <3> QED BY <1>1, <2>2, FS_AddElement
  <2>4. Count(text, from, to, c) = Cardinality(S \cup {to}) BY <2>1 DEF Count
  <2> HIDE DEF S
  <2> QED BY <1>1, <1>2, <2>3, <2>4
<1>3. CASE text[to] # c
  <2>1. {p \in from..to : text[p] = c} = S BY <1>3
  <2>2. Count(text, from, to, c) = Cardinality(S) BY <2>1 DEF Count
  <2> HIDE DEF S
  <2> QED BY <1>1, <1>3, <2>2
<1> QED BY <1>2, <1>3

(* What a lexeme does to the depth. *)
Turn(c) == IF c = "(" THEN 1 ELSE IF c = ")" THEN -1 ELSE 0

(* The depth is an integer, and one place on it has turned with the        *)
(* lexeme passed.                                                          *)
LEMMA DepthStep ==
  ASSUME NEW text, NEW from \in Int, NEW p \in Int, from <= p
  PROVE  /\ Depth(text, from, p) \in Int
         /\ Depth(text, from, p + 1) = Depth(text, from, p) + Turn(text[p])
<1>. DEFINE open == Count(text, from, p - 1, "(")  close == Count(text, from, p - 1, ")")
<1>1. open \in Nat /\ close \in Nat
  <2>1. p - 1 \in Int OBVIOUS
  <2> QED BY <2>1, CountType
<1>2. /\ Count(text, from, p, "(") = open + (IF text[p] = "(" THEN 1 ELSE 0)
      /\ Count(text, from, p, ")") = close + (IF text[p] = ")" THEN 1 ELSE 0)
  <2>1. \A c : Count(text, from, p, c)
                = Count(text, from, p - 1, c) + (IF text[p] = c THEN 1 ELSE 0)
    BY CountStep
  <2> QED BY <2>1
<1>3. (p + 1) - 1 = p OBVIOUS
<1>4. Depth(text, from, p + 1) = Count(text, from, p, "(") - Count(text, from, p, ")")
  BY <1>3 DEF Depth
<1>5. Depth(text, from, p) = open - close BY DEF Depth
<1> HIDE DEF open, close
<1> QED BY <1>1, <1>2, <1>4, <1>5 DEF Turn

(* Where a scan begins the depth is 0. *)
LEMMA DepthStart ==
  ASSUME NEW text, NEW from \in Int
  PROVE  Depth(text, from, from) = 0
<1>1. \A c : {p \in from..(from - 1) : text[p] = c} = {} OBVIOUS
<1>2. \A c : Count(text, from, from - 1, c) = 0 BY <1>1, FS_EmptySet DEF Count
<1> QED BY <1>2 DEF Depth

(* The depth is decided by the lexemes, wherever in a text they are. *)
LEMMA DepthSame ==
  ASSUME NEW s, NEW t, NEW at \in Int, NEW n \in Nat, \A j \in 1..n : t[at + j] = s[j]
  PROVE  \A m \in 0..n : Depth(t, at + 1, (at + m) + 1) = Depth(s, 1, m + 1)
<1>. DEFINE T == {m \in 0..n : Depth(t, at + 1, (at + m) + 1) = Depth(s, 1, m + 1)}
<1>1. 0 \in T
  <2>1. at + 1 \in Int /\ (at + 0) + 1 = at + 1 /\ 0 + 1 = 1 OBVIOUS
  <2>2. Depth(t, at + 1, at + 1) = 0 /\ Depth(s, 1, 1) = 0 BY <2>1, DepthStart
  <2> QED BY <2>1, <2>2
<1>2. ASSUME NEW m \in 1..n, m - 1 \in T PROVE m \in T
  <2>1. PICK f, p : f = at + 1 /\ p = at + m OBVIOUS
  <2>2. /\ f \in Int /\ p \in Int /\ f <= p /\ 1 <= m /\ (m - 1) + 1 = m
        /\ (at + (m - 1)) + 1 = p
    BY <2>1
  <2>3. Depth(t, f, p) = Depth(s, 1, m) BY <1>2, <2>1, <2>2
  <2>4. /\ Depth(t, f, p + 1) = Depth(t, f, p) + Turn(t[p])
        /\ Depth(s, 1, m + 1) = Depth(s, 1, m) + Turn(s[m])
    BY <2>2, DepthStep
  <2>5. t[p] = s[m] BY <2>1
  <2>6. Depth(t, f, p + 1) = Depth(s, 1, m + 1) BY <2>3, <2>4, <2>5
  <2> QED BY <2>1, <2>6
<1>3. 0..n \subseteq T
  <2> HIDE DEF T
  <2> QED BY <1>1, <1>2, UpTo
<1> QED BY <1>3

(* It adds up. *)
LEMMA DepthJoin ==
  ASSUME NEW t, NEW from \in Int, NEW mid \in Int, from <= mid, NEW to \in Int, mid <= to
  PROVE  /\ Depth(t, from, to) = Depth(t, from, mid) + Depth(t, mid, to)
         /\ Depth(t, from, mid) \in Int /\ Depth(t, mid, to) \in Int
<1>. DEFINE n == to - mid
            T == {m \in 0..n :
                    Depth(t, from, mid + m) = Depth(t, from, mid) + Depth(t, mid, mid + m)}
<1>0. Depth(t, from, mid) \in Int BY DepthStep
<1>n. n \in Nat /\ mid + n = to OBVIOUS
<1> HIDE DEF n
<1>1. 0 \in T
  <2>1. mid + 0 = mid /\ Depth(t, mid, mid) = 0 BY DepthStart
  <2> QED BY <1>0, <1>n, <2>1
<1>2. ASSUME NEW m \in 1..n, m - 1 \in T PROVE m \in T
  <2>1. PICK q : q = mid + (m - 1) OBVIOUS
  <2>2. q \in Int /\ from <= q /\ mid <= q /\ q + 1 = mid + m BY <1>n, <2>1
  <2>3. Depth(t, from, q) = Depth(t, from, mid) + Depth(t, mid, q) BY <1>2, <2>1
  <2>4. /\ Depth(t, from, q + 1) = Depth(t, from, q) + Turn(t[q])
        /\ Depth(t, mid, q + 1) = Depth(t, mid, q) + Turn(t[q])
        /\ Depth(t, mid, q) \in Int /\ Turn(t[q]) \in Int
    BY <2>2, DepthStep DEF Turn
  <2>5. Depth(t, from, mid + m) = Depth(t, from, mid) + Depth(t, mid, mid + m)
    BY <1>0, <2>2, <2>3, <2>4
  <2> QED BY <1>n, <2>5
<1>3. 0..n \subseteq T
  <2> HIDE DEF T
  <2> QED BY <1>n, <1>1, <1>2, UpTo
<1>4. n \in 0..n BY <1>n
<1>5. Depth(t, mid, to) \in Int BY DepthStep
<1> QED BY <1>0, <1>n, <1>3, <1>4, <1>5

(* No other lexeme is a comma or a blank. *)
LEMMA CommaApart == Comma # "(" /\ Comma # ")" /\ Comma # Blank /\ Blank # "(" /\ Blank # ")"
BY Zenon DEF Comma, Blank

(* Balanced, in terms of the depth alone: it comes back to 0 and never     *)
(* goes below.                                                             *)
LEMMA BalancedDepth ==
  ASSUME NEW a \in Seq(Lexeme)
  PROVE  /\ Balanced(a) <=> /\ Depth(a, 1, Len(a) + 1) = 0
                            /\ \A m \in 0..Len(a) : Depth(a, 1, m + 1) >= 0
         /\ \A m \in 0..Len(a) : Depth(a, 1, m + 1) \in Int
<1>. DEFINE n == Len(a)
<1>1. n \in Nat /\ DOMAIN a = 1..n OBVIOUS
<1>2. (n + 1) - 1 = n BY <1>1
<1>3. Depth(a, 1, n + 1) = Count(a, 1, n, "(") - Count(a, 1, n, ")") BY <1>2 DEF Depth
<1>4. Count(a, 1, n, "(") \in Nat /\ Count(a, 1, n, ")") \in Nat
  <2>1. 1 \in Int /\ n \in Int BY <1>1
  <2> HIDE DEF n
  <2> QED BY <2>1, CountType
<1>5. Depth(a, 1, 1) = 0 BY DepthStart
<1>6. ASSUME NEW m \in 0..n PROVE Depth(a, 1, m + 1) \in Int
  <2>1. m + 1 \in Int /\ 1 <= m + 1 BY <1>1
  <2> QED BY <2>1, DepthStep
<1>7. Balanced(a) <=> /\ Count(a, 1, n, "(") = Count(a, 1, n, ")")
                      /\ \A p \in 1..n : Depth(a, 1, p + 1) >= 0
  BY <1>1 DEF Balanced
<1>8. (\A p \in 1..n : Depth(a, 1, p + 1) >= 0) <=> \A m \in 0..n : Depth(a, 1, m + 1) >= 0
  <2> HIDE DEF n
  <2>1. ASSUME \A p \in 1..n : Depth(a, 1, p + 1) >= 0, NEW m \in 0..n
        PROVE  Depth(a, 1, m + 1) >= 0
    <3>1. CASE m = 0
      <4>1. m + 1 = 1 BY <3>1
      <4>2. Depth(a, 1, m + 1) = 0 BY <1>5, <4>1
      <4> QED BY <4>2
    <3>2. CASE m # 0
      <4>1. m \in 1..n BY <1>1, <3>2
      <4> QED BY <2>1, <4>1
    <3> QED BY <3>1, <3>2
  <2>2. 1..n \subseteq 0..n BY <1>1
  <2> QED BY <2>1, <2>2
<1>9. Count(a, 1, n, "(") = Count(a, 1, n, ")") <=> Depth(a, 1, n + 1) = 0 BY <1>3, <1>4
<1> HIDE DEF n
<1>10. Balanced(a) <=> /\ Depth(a, 1, n + 1) = 0
                       /\ \A m \in 0..n : Depth(a, 1, m + 1) >= 0
  BY <1>7, <1>8, <1>9
<1> QED BY <1>6, <1>10 DEF n

(* Two texts, one behind the other. *)
LEMMA DepthConcat ==
  ASSUME NEW a \in Seq(Lexeme), NEW b \in Seq(Lexeme)
  PROVE  /\ \A m \in 0..Len(a) : Depth(a \o b, 1, m + 1) = Depth(a, 1, m + 1)
         /\ \A m \in 0..Len(b) : Depth(a \o b, 1, (Len(a) + m) + 1)
                                   = Depth(a, 1, Len(a) + 1) + Depth(b, 1, m + 1)
<1>. DEFINE c == a \o b  n == Len(a)  k == Len(b)
<1>1. /\ n \in Nat /\ k \in Nat
      /\ \A i \in 1..n : c[i] = a[i]
      /\ \A i \in 1..k : c[n + i] = b[i]
  BY ConcatParts
<1> HIDE DEF c, n, k
<1>2. \A m \in 0..n : Depth(c, 1, m + 1) = Depth(a, 1, m + 1)
  <2>1. PICK z : z = 0 OBVIOUS
  <2>2. z \in Int /\ \A j \in 1..n : c[z + j] = a[j] BY <1>1, <2>1
  <2>3. \A m \in 0..n : Depth(c, z + 1, (z + m) + 1) = Depth(a, 1, m + 1)
    BY <1>1, <2>2, DepthSame
  <2>4. z + 1 = 1 /\ \A m \in 0..n : (z + m) + 1 = m + 1 BY <1>1, <2>1
  <2> QED BY <2>3, <2>4
<1>3. ASSUME NEW m \in 0..k
      PROVE  Depth(c, 1, (n + m) + 1) = Depth(a, 1, n + 1) + Depth(b, 1, m + 1)
  <2>1. \A j \in 0..k : Depth(c, n + 1, (n + j) + 1) = Depth(b, 1, j + 1)
    <3>1. n \in Int /\ \A j \in 1..k : c[n + j] = b[j] BY <1>1
    <3> QED BY <1>1, <3>1, DepthSame
  <2>2. PICK mid, to : mid = n + 1 /\ to = (n + m) + 1 OBVIOUS
  <2>3. 1 \in Int /\ mid \in Int /\ to \in Int /\ 1 <= mid /\ mid <= to BY <1>1, <2>2
  <2>4. Depth(c, 1, to) = Depth(c, 1, mid) + Depth(c, mid, to) BY <2>3, DepthJoin
  <2>5. Depth(c, mid, to) = Depth(b, 1, m + 1) BY <2>1, <2>2
  <2>6. n \in 0..n BY <1>1
  <2>7. Depth(c, 1, mid) = Depth(a, 1, n + 1) BY <1>2, <2>2, <2>6
  <2> QED BY <2>2, <2>4, <2>5, <2>7
<1>4. /\ \A m \in 0..n : Depth(c, 1, m + 1) = Depth(a, 1, m + 1)
      /\ \A m \in 0..k : Depth(c, 1, (n + m) + 1) = Depth(a, 1, n + 1) + Depth(b, 1, m + 1)
  BY <1>2, <1>3
<1> QED BY <1>4 DEF c, n, k

(* Two balanced texts, one behind the other, are balanced. *)
LEMMA BalancedConcat ==
  ASSUME NEW a \in Seq(Lexeme), NEW b \in Seq(Lexeme), Balanced(a), Balanced(b)
  PROVE  Balanced(a \o b)
<1>. DEFINE c == a \o b  n == Len(a)  k == Len(b)
<1>1. n \in Nat /\ k \in Nat /\ c \in Seq(Lexeme) /\ Len(c) = n + k BY ConcatParts
<1>2. /\ Depth(a, 1, n + 1) = 0 /\ Depth(b, 1, k + 1) = 0
      /\ \A m \in 0..n : Depth(a, 1, m + 1) >= 0
      /\ \A m \in 0..k : Depth(b, 1, m + 1) >= 0 /\ Depth(b, 1, m + 1) \in Int
  BY BalancedDepth
<1>3. /\ \A m \in 0..n : Depth(c, 1, m + 1) = Depth(a, 1, m + 1)
      /\ \A m \in 0..k : Depth(c, 1, (n + m) + 1) = Depth(a, 1, n + 1) + Depth(b, 1, m + 1)
  BY DepthConcat
<1>4. Balanced(c) <=> /\ Depth(c, 1, Len(c) + 1) = 0
                      /\ \A m \in 0..Len(c) : Depth(c, 1, m + 1) >= 0
  BY <1>1, BalancedDepth
<1> HIDE DEF c, n, k
<1>5. \A m \in 0..k : Depth(c, 1, (n + m) + 1) = Depth(b, 1, m + 1) BY <1>2, <1>3
<1>6. Depth(c, 1, (n + k) + 1) = 0
  <2>1. k \in 0..k BY <1>1
  <2> QED BY <1>2, <1>5, <2>1
<1>7. ASSUME NEW m \in 0..(n + k) PROVE Depth(c, 1, m + 1) >= 0
  <2>1. CASE m <= n
    <3>1. m \in 0..n BY <1>1, <2>1
    <3> QED BY <1>2, <1>3, <3>1
  <2>2. CASE m > n
    <3>1. PICK j : j = m - n OBVIOUS
    <3>2. j \in 0..k /\ n + j = m BY <1>1, <2>2, <3>1
    <3>3. Depth(c, 1, (n + j) + 1) >= 0 BY <1>2, <1>5, <3>2
    <3> QED BY <3>2, <3>3
  <2> QED BY <1>1, <2>1, <2>2
<1>8. Balanced(c) BY <1>1, <1>4, <1>6, <1>7
<1> QED BY <1>8 DEF c

(* The depth at the commas. *)
CommasInside(a) == \A p \in 1..Len(a) : a[p] = Comma => Depth(a, 1, p) > 0

(* Splittable, in terms of the depth alone. *)
LEMMA SplittableIs ==
  ASSUME NEW a \in Seq(Lexeme)
  PROVE  Splittable(a) <=> Balanced(a) /\ CommasInside(a)
<1>1. DOMAIN a = 1..Len(a) OBVIOUS
<1> QED BY <1>1 DEF Splittable, CommasInside

(* Two texts that can be split, one behind the other, can be. *)
LEMMA SplittableConcat ==
  ASSUME NEW a \in Seq(Lexeme), NEW b \in Seq(Lexeme), Splittable(a), Splittable(b)
  PROVE  Splittable(a \o b)
<1>. DEFINE c == a \o b  n == Len(a)  k == Len(b)
<1>1. /\ n \in Nat /\ k \in Nat /\ c \in Seq(Lexeme) /\ Len(c) = n + k
      /\ \A i \in 1..n : c[i] = a[i]
      /\ \A i \in 1..k : c[n + i] = b[i]
  BY ConcatParts
<1>2. /\ Balanced(a) /\ CommasInside(a) /\ Balanced(b) /\ CommasInside(b) BY SplittableIs
<1>3. Balanced(c) BY <1>2, BalancedConcat
<1>4. /\ \A p \in 1..n : a[p] = Comma => Depth(a, 1, p) > 0
      /\ \A p \in 1..k : b[p] = Comma => Depth(b, 1, p) > 0
  BY <1>2 DEF CommasInside
<1>5. /\ \A m \in 0..n : Depth(c, 1, m + 1) = Depth(a, 1, m + 1)
      /\ \A m \in 0..k : Depth(c, 1, (n + m) + 1) = Depth(a, 1, n + 1) + Depth(b, 1, m + 1)
  BY DepthConcat
<1>6. /\ Depth(a, 1, n + 1) = 0
      /\ \A m \in 0..k : Depth(b, 1, m + 1) \in Int
  BY <1>2, BalancedDepth
<1>7. CommasInside(c) <=> \A p \in 1..(n + k) : c[p] = Comma => Depth(c, 1, p) > 0
  BY <1>1 DEF CommasInside
<1>8. Splittable(c) <=> Balanced(c) /\ CommasInside(c) BY <1>1, SplittableIs
<1> HIDE DEF c, n, k
<1>9. ASSUME NEW p \in 1..(n + k), c[p] = Comma PROVE Depth(c, 1, p) > 0
  <2>1. CASE p <= n
    <3>1. p \in 1..n /\ p - 1 \in 0..n /\ (p - 1) + 1 = p BY <1>1, <2>1
    <3>2. Depth(c, 1, p) = Depth(a, 1, p) BY <1>5, <3>1
    <3>3. a[p] = Comma BY <1>1, <1>9, <3>1
    <3> QED BY <1>4, <3>1, <3>2, <3>3
  <2>2. CASE p > n
    <3>1. PICK j : j = p - n OBVIOUS
    <3>2. j \in 1..k /\ j - 1 \in 0..k /\ (j - 1) + 1 = j /\ n + j = p /\ (n + (j - 1)) + 1 = p
      BY <1>1, <2>2, <3>1
    <3>3. b[j] = Comma BY <1>1, <1>9, <3>2
    <3>4. Depth(c, 1, (n + (j - 1)) + 1) = Depth(a, 1, n + 1) + Depth(b, 1, (j - 1) + 1)
      BY <1>5, <3>2
    <3>5. Depth(b, 1, j) \in Int BY <1>6, <3>2
    <3>6. Depth(c, 1, p) = Depth(b, 1, j) BY <1>6, <3>2, <3>4, <3>5
    <3> QED BY <1>4, <3>2, <3>3, <3>6
  <2> QED BY <1>1, <2>1, <2>2
<1>10. Splittable(c) BY <1>3, <1>7, <1>8, <1>9
<1> QED BY <1>10 DEF c

(* Lexemes without commas and parentheses. *)
LEMMA PlainSplittable ==
  ASSUME NEW a \in Seq(Plain)
  PROVE  a \in Seq(Lexeme) /\ Splittable(a)
<1>. DEFINE n == Len(a)
<1>1. /\ a \in Seq(Lexeme) /\ n \in Nat
      /\ \A i \in 1..n : a[i] \notin {"(", ")", Comma}
  <2>1. n \in Nat /\ a \in [1..n -> Plain] OBVIOUS
  <2>2. \A i \in 1..n : a[i] \in Lexeme /\ a[i] \notin {"(", ")", Comma} BY <2>1 DEF Plain
  <2>3. a \in Seq(Lexeme) BY <2>1, <2>2
  <2> QED BY <2>1, <2>2, <2>3
<1>. DEFINE T == {m \in 0..n : Depth(a, 1, m + 1) = 0}
<1> HIDE DEF n
<1>2. 0 \in T
  <2>1. Depth(a, 1, 1) = 0 /\ 0 + 1 = 1 /\ 0 \in 0..n BY <1>1, DepthStart
  <2> QED BY <2>1
<1>3. ASSUME NEW m \in 1..n, m - 1 \in T PROVE m \in T
  <2>1. (m - 1) + 1 = m /\ m \in Int /\ 1 <= m /\ m \in 0..n BY <1>1
  <2>2. Depth(a, 1, m) = 0 BY <1>3, <2>1
  <2>3. Depth(a, 1, m + 1) = Depth(a, 1, m) + Turn(a[m]) BY <2>1, DepthStep
  <2>4. Turn(a[m]) = 0 BY <1>1 DEF Turn
  <2>5. Depth(a, 1, m + 1) = 0 BY <2>2, <2>3, <2>4
  <2> QED BY <2>1, <2>5
<1>4. 0..n \subseteq T
  <2> HIDE DEF T
  <2> QED BY <1>1, <1>2, <1>3, UpTo
<1>5. \A m \in 0..n : Depth(a, 1, m + 1) = 0 BY <1>4
<1>6. n \in 0..n BY <1>1
<1>7. Depth(a, 1, n + 1) = 0 /\ \A m \in 0..n : Depth(a, 1, m + 1) >= 0 BY <1>5, <1>6
<1>8. Balanced(a)
  <2>1. Depth(a, 1, Len(a) + 1) = 0 /\ \A m \in 0..Len(a) : Depth(a, 1, m + 1) >= 0
    BY <1>7 DEF n
  <2> QED BY <1>1, <2>1, BalancedDepth
<1>9. CommasInside(a) BY <1>1 DEF CommasInside, n
<1> QED BY <1>1, <1>8, <1>9, SplittableIs

(* Parentheses around a text hide its commas. *)
LEMMA ParenthesizedSplittable ==
  ASSUME NEW a \in Seq(Lexeme), Balanced(a)
  PROVE  Parenthesized(a) \in Seq(Lexeme) /\ Splittable(Parenthesized(a))
<1>. DEFINE c == Parenthesized(a)  n == Len(a)
            open == <<"(">>  close == <<")">>  front == open \o a
<1>1. /\ n \in Nat /\ open \in Seq(Lexeme) /\ close \in Seq(Lexeme)
      /\ Len(open) = 1 /\ Len(close) = 1 /\ open[1] = "(" /\ close[1] = ")"
  <2>1. "(" \in Lexeme /\ ")" \in Lexeme BY LexemeAssumption
  <2> QED BY <2>1
<1>2. c = front \o close BY DEF Parenthesized
<1>3. /\ front \in Seq(Lexeme) /\ Len(front) = 1 + n /\ front[1] = "("
      /\ \A m \in 0..n : Depth(front, 1, (1 + m) + 1) = Depth(open, 1, 1 + 1) + Depth(a, 1, m + 1)
  <2> HIDE DEF open
  <2>1. 1 \in 1..Len(open) BY <1>1
  <2> QED BY <1>1, <2>1, ConcatParts, DepthConcat
<1>4. Depth(open, 1, 1 + 1) = 1
  <2>1. Depth(open, 1, 1) = 0 BY DepthStart
  <2>2. Depth(open, 1, 1 + 1) = Depth(open, 1, 1) + Turn(open[1]) BY DepthStep
  <2> HIDE DEF open
  <2> QED BY <1>1, <2>1, <2>2 DEF Turn
<1> HIDE DEF open, close, front
<1>5. /\ c \in Seq(Lexeme) /\ Len(c) = n + 2 /\ c[n + 2] = ")" /\ c[1] = "("
      /\ \A i \in 1..(1 + n) : c[i] = front[i]
      /\ \A m \in 0..(1 + n) : Depth(c, 1, m + 1) = Depth(front, 1, m + 1)
  <2>1. 1 \in 1..Len(close) /\ 1 \in 1..Len(front) BY <1>1, <1>3
  <2>2. /\ c \in Seq(Lexeme) /\ Len(c) = (1 + n) + 1 /\ c[(1 + n) + 1] = ")" /\ c[1] = "("
        /\ \A i \in 1..(1 + n) : c[i] = front[i]
    <3>1. Len(close) = 1 /\ close[1] = ")" BY <1>1
    <3>2. /\ c \in Seq(Lexeme) /\ Len(c) = Len(front) + Len(close)
          /\ \A i \in 1..Len(front) : c[i] = front[i]
          /\ \A i \in 1..Len(close) : c[Len(front) + i] = close[i]
      <4>1. LET d == front \o close
            IN /\ d \in Seq(Lexeme) /\ Len(d) = Len(front) + Len(close)
               /\ \A i \in 1..Len(front) : d[i] = front[i]
               /\ \A i \in 1..Len(close) : d[Len(front) + i] = close[i]
        <5>1. front \in Seq(Lexeme) /\ close \in Seq(Lexeme) BY <1>1, <1>3
        <5> QED BY <5>1, ConcatParts
      <4> QED BY <1>2, <4>1
    <3> QED BY <1>3, <2>1, <3>1, <3>2
  <2>3. \A m \in 0..(1 + n) : Depth(c, 1, m + 1) = Depth(front, 1, m + 1)
    BY <1>1, <1>2, <1>3, DepthConcat
  <2>4. (1 + n) + 1 = n + 2 BY <1>1
  <2> QED BY <2>2, <2>3, <2>4
<1>6. /\ Depth(a, 1, n + 1) = 0
      /\ \A m \in 0..n : Depth(a, 1, m + 1) >= 0 /\ Depth(a, 1, m + 1) \in Int
  BY BalancedDepth
<1>7. CommasInside(c) <=> \A p \in 1..(n + 2) : c[p] = Comma => Depth(c, 1, p) > 0
  BY <1>5 DEF CommasInside
<1>8. Balanced(c) <=> /\ Depth(c, 1, (n + 2) + 1) = 0
                      /\ \A m \in 0..(n + 2) : Depth(c, 1, m + 1) >= 0
  BY <1>5, BalancedDepth
<1> HIDE DEF c, n
<1>9. ASSUME NEW m \in 1..(n + 1) PROVE Depth(c, 1, m + 1) >= 1
  <2>1. PICK j : j = m - 1 OBVIOUS
  <2>2. j \in 0..n /\ 1 + j = m /\ m \in 0..(1 + n) BY <1>1, <2>1
  <2>3. Depth(front, 1, (1 + j) + 1) = 1 + Depth(a, 1, j + 1) BY <1>3, <1>4, <2>2
  <2>4. Depth(c, 1, m + 1) = Depth(front, 1, m + 1) BY <1>5, <2>2
  <2>5. Depth(a, 1, j + 1) >= 0 /\ Depth(a, 1, j + 1) \in Int BY <1>6, <2>2
  <2>6. Depth(c, 1, m + 1) = 1 + Depth(a, 1, j + 1) BY <2>2, <2>3, <2>4
  <2> QED BY <2>5, <2>6
<1>10. Depth(c, 1, (n + 1) + 1) = 1
  <2>1. n \in 0..n /\ n + 1 \in 0..(1 + n) /\ 1 + n = n + 1 BY <1>1
  <2>2. Depth(front, 1, (1 + n) + 1) = 1 + Depth(a, 1, n + 1) BY <1>3, <1>4, <2>1
  <2>3. Depth(c, 1, (n + 1) + 1) = Depth(front, 1, (n + 1) + 1) BY <1>5, <2>1
  <2> QED BY <1>6, <2>1, <2>2, <2>3
<1>11. Depth(c, 1, (n + 2) + 1) = 0
  <2>1. n + 2 \in Int /\ 1 <= n + 2 /\ (n + 1) + 1 = n + 2 BY <1>1
  <2>2. Depth(c, 1, (n + 2) + 1) = Depth(c, 1, n + 2) + Turn(c[n + 2]) BY <2>1, DepthStep
  <2>3. Turn(c[n + 2]) = -1 BY <1>5 DEF Turn
  <2> QED BY <1>10, <2>1, <2>2, <2>3
<1>12. ASSUME NEW m \in 0..(n + 2) PROVE Depth(c, 1, m + 1) >= 0
  <2>1. CASE m = 0
    <3>1. Depth(c, 1, 1) = 0 /\ m + 1 = 1 BY <2>1, DepthStart
    <3> QED BY <3>1
  <2>2. CASE m \in 1..(n + 1)
    <3>1. m + 1 \in Int /\ 1 <= m + 1 BY <1>1
    <3>2. Depth(c, 1, m + 1) \in Int BY <3>1, DepthStep
    <3> QED BY <1>9, <2>2, <3>2
  <2>3. CASE m = n + 2 BY <1>11, <2>3
  <2> QED BY <1>1, <2>1, <2>2, <2>3
<1>13. ASSUME NEW p \in 1..(n + 2), c[p] = Comma PROVE Depth(c, 1, p) > 0
  <2>1. p # 1 /\ p # n + 2 BY <1>5, <1>13, CommaApart
  <2>2. PICK m : m = p - 1 OBVIOUS
  <2>3. m \in 1..(n + 1) /\ m + 1 = p /\ p \in Int /\ 1 <= p BY <1>1, <2>1, <2>2
  <2>4. Depth(c, 1, p) \in Int BY <2>3, DepthStep
  <2>5. Depth(c, 1, p) >= 1 BY <1>9, <2>3
  <2> QED BY <2>4, <2>5
<1>14. Balanced(c) /\ CommasInside(c) BY <1>7, <1>8, <1>11, <1>12, <1>13
<1>15. c \in Seq(Lexeme) /\ Splittable(c) BY <1>5, <1>14, SplittableIs
<1> QED BY <1>15 DEF c

(***************************************************************************)
(* What is printed for an argument.                                        *)
(***************************************************************************)
LEMMA PlainWords ==
  /\ {Blank, "<integer_cst>", "<pointer_type>", "u", "l", "ll", "<string_cst>", "quote", "...",
      "ABS_EXPR", "*", "+", "?", ":", "=", "<gimple_phi>", "newline", "<@>"} \subseteq Plain
  /\ "(" \in Lexeme /\ ")" \in Lexeme /\ Comma \in Lexeme
<1>. DEFINE Words ==
       {Blank, "<integer_cst>", "<pointer_type>", "u", "l", "ll", "<string_cst>", "quote", "...",
        "ABS_EXPR", "*", "+", "?", ":", "=", "<gimple_phi>", "newline", "<@>"}
<1>1. \A x \in Words : x # Comma BY Zenon DEF Comma, Blank
<1>2. \A x \in Words : x # "(" /\ x # ")" BY CommaApart
<1>3. \A x \in Words : x \in Lexeme BY LexemeAssumption DEF IntCst
<1>4. "(" \in Lexeme /\ ")" \in Lexeme /\ Comma \in Lexeme BY LexemeAssumption
<1>5. Words \subseteq Plain
  <2> HIDE DEF Words
  <2> QED BY <1>1, <1>2, <1>3 DEF Plain
<1> QED BY <1>4, <1>5

(* Plain lexemes are lexemes. *)
LEMMA PlainText == Seq(Plain) \subseteq Seq(Lexeme)
BY PlainSplittable

(* The texts of a list, each with what is put in front of it. *)
Parts(texts) == [i \in DOMAIN texts |-> (IF i = 1 THEN <<>> ELSE <<Comma, Blank>>) \o texts[i]]

(* A list is the concatenation of its parts, which are texts. *)
LEMMA PartsType ==
  ASSUME NEW texts \in Seq(Seq(Lexeme))
  PROVE  /\ Listed(texts) = FlattenSeq(Parts(texts)) /\ Listed(texts) \in Seq(Lexeme)
         /\ Parts(texts) \in Seq(Seq(Lexeme)) /\ Len(Parts(texts)) = Len(texts)
         /\ \A i \in 1..Len(texts) :
              Parts(texts)[i] = (IF i = 1 THEN <<>> ELSE <<Comma, Blank>>) \o texts[i]
<1>1. Len(texts) \in Nat /\ DOMAIN texts = 1..Len(texts) OBVIOUS
<1>2. ASSUME NEW i \in 1..Len(texts)
      PROVE  (IF i = 1 THEN <<>> ELSE <<Comma, Blank>>) \o texts[i] \in Seq(Lexeme)
  <2>1. <<>> \in Seq(Lexeme) /\ <<Comma, Blank>> \in Seq(Lexeme)
    <3>1. Comma \in Lexeme /\ Blank \in Lexeme BY PlainWords DEF Plain
    <3> QED BY <3>1
  <2>2. texts[i] \in Seq(Lexeme) BY ElementOfSeq
  <2> QED BY <2>1, <2>2, ConcatParts
<1>3. Parts(texts) \in [1..Len(texts) -> Seq(Lexeme)] BY <1>1, <1>2 DEF Parts
<1>4. Parts(texts) \in Seq(Seq(Lexeme)) /\ Len(Parts(texts)) = Len(texts) BY <1>1, <1>3
<1>5. Listed(texts) = FlattenSeq(Parts(texts)) BY DEF Listed, Parts
<1>6. FlattenSeq(Parts(texts)) \in Seq(Lexeme) BY <1>4, FlattenType
<1> QED BY <1>1, <1>4, <1>5, <1>6 DEF Parts

(* What is put between the texts of a list has no parenthesis. *)
LEMMA SeparatorBalanced == <<Comma, Blank>> \in Seq(Lexeme) /\ Balanced(<<Comma, Blank>>)
<1>. DEFINE s == <<Comma, Blank>>
<1>1. s \in Seq(Lexeme) /\ Len(s) = 2 /\ s[1] = Comma /\ s[2] = Blank
  <2>1. Comma \in Lexeme /\ Blank \in Lexeme BY PlainWords DEF Plain
  <2> QED BY <2>1
<1> HIDE DEF s
<1>2. Depth(s, 1, 1) = 0 BY DepthStart
<1>3. /\ Depth(s, 1, 1 + 1) = Depth(s, 1, 1) + Turn(s[1])
      /\ Depth(s, 1, 2 + 1) = Depth(s, 1, 2) + Turn(s[2])
  BY DepthStep
<1>4. Turn(s[1]) = 0 /\ Turn(s[2]) = 0 BY <1>1, CommaApart DEF Turn
<1>5. Depth(s, 1, 1) = 0 /\ Depth(s, 1, 2) = 0 /\ Depth(s, 1, 3) = 0 BY <1>2, <1>3, <1>4
<1>6. \A m \in 0..2 : Depth(s, 1, m + 1) >= 0
  <2> SUFFICES ASSUME NEW m \in 0..2 PROVE Depth(s, 1, m + 1) >= 0 OBVIOUS
  <2>1. CASE m = 0 BY <1>5, <2>1
  <2>2. CASE m = 1 BY <1>5, <2>2
  <2>3. CASE m = 2 BY <1>5, <2>3
  <2> QED BY <2>1, <2>2, <2>3
<1>7. Balanced(s)
  <2>1. Depth(s, 1, Len(s) + 1) = 0 /\ \A m \in 0..Len(s) : Depth(s, 1, m + 1) >= 0
    BY <1>1, <1>5, <1>6
  <2> QED BY <1>1, <2>1, BalancedDepth
<1> QED BY <1>1, <1>7 DEF s

(* The empty text can be split. *)
LEMMA EmptySplittable == <<>> \in Seq(Lexeme) /\ Splittable(<<>>)
<1>1. <<>> \in Seq(Plain) OBVIOUS
<1> QED BY <1>1, PlainSplittable

(* A list of texts that can be split is balanced: its own commas are at    *)
(* depth 0, so that it can be split only in parentheses.                   *)
LEMMA ListedBalanced ==
  ASSUME NEW texts \in Seq(Seq(Lexeme)), \A i \in 1..Len(texts) : Splittable(texts[i])
  PROVE  Balanced(Listed(texts))
<1>. DEFINE s == Parts(texts)  n == Len(s)
            T == {m \in 0..n : Balanced(FlattenSeq(SubSeq(s, 1, m)))}
<1>1. s \in Seq(Seq(Lexeme)) /\ n = Len(texts) /\ n \in Nat
  <2>1. Parts(texts) \in Seq(Seq(Lexeme)) /\ Len(Parts(texts)) = Len(texts) BY PartsType
  <2>2. Len(texts) \in Nat OBVIOUS
  <2> QED BY <2>1, <2>2
<1>2. \A i \in 1..n : s[i] \in Seq(Lexeme) /\ Balanced(s[i])
  <2> SUFFICES ASSUME NEW i \in 1..n PROVE s[i] \in Seq(Lexeme) /\ Balanced(s[i]) OBVIOUS
  <2>1. s[i] = (IF i = 1 THEN <<>> ELSE <<Comma, Blank>>) \o texts[i] BY <1>1, PartsType
  <2>2. texts[i] \in Seq(Lexeme) /\ Balanced(texts[i])
    <3>1. texts[i] \in Seq(Lexeme) /\ Splittable(texts[i]) BY <1>1, ElementOfSeq
    <3> QED BY <3>1, SplittableIs
  <2>3. <<>> \in Seq(Lexeme) /\ Balanced(<<>>) BY EmptySplittable, SplittableIs
  <2>4. s[i] \in Seq(Lexeme) BY <1>1, ElementOfSeq
  <2>5. CASE i = 1
    <3>1. s[i] = <<>> \o texts[i] BY <2>1, <2>5
    <3> QED BY <2>2, <2>3, <2>4, <3>1, BalancedConcat
  <2>6. CASE i # 1
    <3>1. s[i] = <<Comma, Blank>> \o texts[i] BY <2>1, <2>6
    <3> QED BY <2>2, <2>4, <3>1, BalancedConcat, SeparatorBalanced
  <2> QED BY <2>5, <2>6
<1> HIDE DEF s, n
<1>3. 0 \in T
  <2>1. SubSeq(s, 1, 0) = <<>> BY <1>1
  <2>2. Balanced(<<>>) BY EmptySplittable, SplittableIs
  <2>3. Balanced(FlattenSeq(SubSeq(s, 1, 0))) BY <2>1, <2>2, FlattenEmpty
  <2> QED BY <1>1, <2>3
<1>4. ASSUME NEW m \in 1..n, m - 1 \in T PROVE m \in T
  <2>1. PICK a, b : /\ a = FlattenSeq(SubSeq(s, 1, m - 1))
                    /\ b = FlattenSeq(SubSeq(s, 1, m))
    OBVIOUS
  <2>2. m \in 1..Len(s) BY DEF n
  <2>3. /\ a \in Seq(Lexeme) /\ b = a \o s[m] BY <1>1, <2>1, <2>2, FlattenFront
  <2>4. Balanced(a) /\ s[m] \in Seq(Lexeme) /\ Balanced(s[m]) BY <1>2, <1>4, <2>1
  <2>5. Balanced(b) BY <2>3, <2>4, BalancedConcat
  <2>6. m \in 0..n BY <1>1
  <2> QED BY <2>1, <2>5, <2>6
<1>5. 0..n \subseteq T
  <2> HIDE DEF T
  <2> QED BY <1>1, <1>3, <1>4, UpTo
<1>6. n \in T BY <1>1, <1>5
<1>7. SubSeq(s, 1, n) = s
  <2>1. Len(s) \in Nat BY <1>1 DEF n
  <2> QED BY <1>1, <2>1 DEF n
<1>8. Balanced(FlattenSeq(s)) BY <1>6, <1>7
<1> QED BY <1>8, PartsType DEF s

(* A set of texts that is closed under what the walkers do with the texts  *)
(* of operands. *)
Closed(K) ==
  /\ K \subseteq Seq(Lexeme) /\ Seq(Plain) \subseteq K
  /\ \A a, b \in K : a \o b \in K
  /\ \A a \in K : Parenthesized(a) \in K
  /\ \A texts \in Seq(K) : Parenthesized(Listed(texts)) \in K

(* The two closed sets: all texts, and those that can be split.            *)
Texts == Seq(Lexeme)
SplittableTexts == {a \in Seq(Lexeme) : Splittable(a)}

(* A text in parentheses is a text. *)
LEMMA ParenthesizedType ==
  ASSUME NEW a \in Seq(Lexeme) PROVE Parenthesized(a) \in Seq(Lexeme)
<1>1. <<"(">> \in Seq(Lexeme) /\ <<")">> \in Seq(Lexeme)
  <2>1. "(" \in Lexeme /\ ")" \in Lexeme BY PlainWords
  <2> QED BY <2>1
<1>2. <<"(">> \o a \in Seq(Lexeme) BY <1>1, ConcatParts
<1>3. (<<"(">> \o a) \o <<")">> \in Seq(Lexeme) BY <1>1, <1>2, ConcatParts
<1> QED BY <1>3 DEF Parenthesized

(* The walkers make texts of texts, *)
LEMMA TextsClosed == Closed(Texts)
<1>1. \A a, b \in Texts : a \o b \in Texts BY ConcatParts DEF Texts
<1>2. \A a \in Texts : Parenthesized(a) \in Texts BY ParenthesizedType DEF Texts
<1>3. \A texts \in Seq(Texts) : Parenthesized(Listed(texts)) \in Texts
  <2> SUFFICES ASSUME NEW texts \in Seq(Texts) PROVE Parenthesized(Listed(texts)) \in Texts
    OBVIOUS
  <2>1. Listed(texts) \in Seq(Lexeme) BY PartsType DEF Texts
  <2> QED BY <1>2, <2>1 DEF Texts
<1> QED BY <1>1, <1>2, <1>3, PlainText DEF Closed, Texts

(* and texts that can be split of texts that can be. *)
LEMMA SplittableClosed == Closed(SplittableTexts)
<1>1. \A a, b \in SplittableTexts : a \o b \in SplittableTexts
  <2> SUFFICES ASSUME NEW a \in SplittableTexts, NEW b \in SplittableTexts
               PROVE  a \o b \in SplittableTexts
    OBVIOUS
  <2>1. a \in Seq(Lexeme) /\ b \in Seq(Lexeme) /\ Splittable(a) /\ Splittable(b)
    BY DEF SplittableTexts
  <2>2. a \o b \in Seq(Lexeme) BY <2>1, ConcatParts
  <2>3. Splittable(a \o b) BY <2>1, SplittableConcat
  <2> QED BY <2>2, <2>3 DEF SplittableTexts
<1>2. ASSUME NEW a \in Seq(Lexeme), Balanced(a) PROVE Parenthesized(a) \in SplittableTexts
  BY <1>2, ParenthesizedSplittable DEF SplittableTexts
<1>3. \A a \in SplittableTexts : Parenthesized(a) \in SplittableTexts
  <2> SUFFICES ASSUME NEW a \in SplittableTexts PROVE Parenthesized(a) \in SplittableTexts
    OBVIOUS
  <2>1. a \in Seq(Lexeme) /\ Balanced(a) BY SplittableIs DEF SplittableTexts
  <2> QED BY <1>2, <2>1
<1>4. \A texts \in Seq(SplittableTexts) : Parenthesized(Listed(texts)) \in SplittableTexts
  <2> SUFFICES ASSUME NEW texts \in Seq(SplittableTexts)
               PROVE  Parenthesized(Listed(texts)) \in SplittableTexts
    OBVIOUS
  <2>1. \A i \in 1..Len(texts) : texts[i] \in Seq(Lexeme) /\ Splittable(texts[i])
    <3>1. \A i \in 1..Len(texts) : texts[i] \in SplittableTexts BY ElementOfSeq
    <3> QED BY <3>1 DEF SplittableTexts
  <2>2. texts \in Seq(Seq(Lexeme))
    <3>1. texts \in [1..Len(texts) -> Seq(Lexeme)] /\ Len(texts) \in Nat BY <2>1
    <3> QED BY <3>1
  <2>3. Listed(texts) \in Seq(Lexeme) BY <2>2, PartsType
  <2>4. Balanced(Listed(texts)) BY <2>1, <2>2, ListedBalanced
  <2> QED BY <1>2, <2>3, <2>4
<1>5. Seq(Plain) \subseteq SplittableTexts BY PlainSplittable DEF SplittableTexts
<1>6. SplittableTexts \subseteq Seq(Lexeme) BY DEF SplittableTexts
<1> QED BY <1>1, <1>3, <1>4, <1>5, <1>6 DEF Closed

(* The type of a few lexemes written out. *)
LEMMA ShortTexts ==
  ASSUME NEW V
  PROVE  /\ <<>> \in Seq(V)
         /\ \A a \in V : <<a>> \in Seq(V)
         /\ \A a, b \in V : <<a, b>> \in Seq(V)
         /\ \A a, b, c \in V : <<a, b, c>> \in Seq(V)
         /\ \A a, b, c, d, e \in V : <<a, b, c, d, e>> \in Seq(V)
OBVIOUS

(* The numerals are plain, and a leaf is a text. *)
LEMMA DigitsPlain ==
  ASSUME NEW n \in DOMAIN Digits
  PROVE  Digits[n] \in Plain /\ Digits[n] # Blank /\ Digits[n] \notin Tags
BY WordsAssumption

(* The suffix of a number (output_int_cst) is plain. *)
LEMMA SuffixPlain ==
  ASSUME NEW type \in [unsigned : BOOLEAN, long : {"none", "l", "ll"}, pointer : BOOLEAN]
  PROVE  Suffix(type) \in Seq(Plain)
<1>1. {"u", "l", "ll"} \subseteq Plain BY PlainWords
<1>2. (IF type.unsigned THEN <<"u">> ELSE <<>>) \in Seq(Plain) BY <1>1, ShortTexts
<1>3. (IF type.long # "none" THEN <<type.long>> ELSE <<>>) \in Seq(Plain)
  <2>1. type.long \in {"none", "l", "ll"} OBVIOUS
  <2>2. CASE type.long = "none" BY <2>2, ShortTexts
  <2>3. CASE type.long # "none"
    <3>1. type.long \in Plain BY <1>1, <2>1, <2>3
    <3> QED BY <2>3, <3>1, ShortTexts
  <2> QED BY <2>2, <2>3
<1>4. (IF type.unsigned THEN <<"u">> ELSE <<>>)
        \o (IF type.long # "none" THEN <<type.long>> ELSE <<>>) \in Seq(Plain)
  BY <1>2, <1>3, ConcatParts
<1>5. <<>> \in Seq(Plain) BY ShortTexts
<1> QED BY <1>4, <1>5 DEF Suffix

(* The text of a constant, in the parts the reader looks for: the tag of   *)
(* a pointer, the tag and the number, the suffix.                          *)
LEMMA IntText ==
  ASSUME NEW c \in Constants
  PROVE  /\ Leaf(c) = output_int_cst(c)
         /\ output_int_cst(c)
              = ((IF c.type.pointer THEN <<"<pointer_type>", Blank>> ELSE <<>>)
                 \o <<IntCst, Blank, Digits[__get_int_cst(c)]>>) \o Suffix(c.type)
         /\ (IF c.type.pointer THEN <<"<pointer_type>", Blank>> ELSE <<>>) \in Seq(Plain)
         /\ <<IntCst, Blank, Digits[__get_int_cst(c)]>> \in Seq(Plain)
         /\ Suffix(c.type) \in Seq(Plain)
         /\ output_int_cst(c) \in Seq(Plain)
<1>1. /\ c.kind = "int" /\ __get_int_cst(c) \in DOMAIN Digits
      /\ c.type \in [unsigned : BOOLEAN, long : {"none", "l", "ll"}, pointer : BOOLEAN]
  BY DEF Constants
<1>2. PICK n : n = __get_int_cst(c) OBVIOUS
<1>3. Leaf(c) = output_int_cst(c) BY <1>1 DEF Leaf
<1>4. Suffix(c.type) \in Seq(Plain) BY <1>1, SuffixPlain
<1>5. IntCst \in Plain /\ Blank \in Plain /\ "<pointer_type>" \in Plain BY PlainWords DEF IntCst
<1>6. Digits[n] \in Plain BY <1>1, <1>2, DigitsPlain
<1>7. <<IntCst, Blank, Digits[n]>> \in Seq(Plain) BY <1>5, <1>6, ShortTexts
<1>8. (IF c.type.pointer THEN <<"<pointer_type>", Blank>> ELSE <<>>) \in Seq(Plain)
  BY <1>5, ShortTexts
<1>9. (IF c.type.pointer THEN <<"<pointer_type>", Blank>> ELSE <<>>)
        \o <<IntCst, Blank, Digits[n]>> \in Seq(Plain)
  BY <1>7, <1>8, ConcatParts
<1>10. ((IF c.type.pointer THEN <<"<pointer_type>", Blank>> ELSE <<>>)
          \o <<IntCst, Blank, Digits[n]>>) \o Suffix(c.type) \in Seq(Plain)
  BY <1>4, <1>9, ConcatParts
<1>11. output_int_cst(c)
         = ((IF c.type.pointer THEN <<"<pointer_type>", Blank>> ELSE <<>>)
             \o <<IntCst, Blank, Digits[__get_int_cst(c)]>>) \o Suffix(c.type)
  BY DEF output_int_cst
<1> QED BY <1>2, <1>3, <1>4, <1>7, <1>8, <1>10, <1>11

(* A string is a text, whatever characters it has. *)
LEMMA StringText ==
  ASSUME NEW s, s.chars \in Seq(Lexeme)
  PROVE  output_string_cst(s) \in Seq(Lexeme)
<1>1. Blank \in Lexeme /\ {"<string_cst>", "quote", "..."} \subseteq Lexeme
  BY PlainWords DEF Plain
<1>2. <<"<string_cst>", Blank, "quote">> \in Seq(Lexeme) /\ <<"quote">> \in Seq(Lexeme)
  BY <1>1, ShortTexts
<1>3. (IF Len(s.chars) + 1 > MaxStrPrint THEN <<"...">> ELSE <<>>) \in Seq(Lexeme)
  BY <1>1, ShortTexts
<1>4. PICK q, n : /\ q = s.chars
                  /\ n = IF Len(s.chars) > MaxStrPrint THEN MaxStrPrint ELSE Len(s.chars)
  OBVIOUS
<1>5. n \in 0..Len(q) BY <1>4, WordAssumption
<1>6. SubSeq(q, 1, n) \in Seq(Lexeme) BY <1>4, <1>5
<1>7. <<"<string_cst>", Blank, "quote">> \o SubSeq(q, 1, n) \in Seq(Lexeme)
  BY <1>2, <1>6, ConcatParts
<1>8. (<<"<string_cst>", Blank, "quote">> \o SubSeq(q, 1, n))
        \o (IF Len(s.chars) + 1 > MaxStrPrint THEN <<"...">> ELSE <<>>) \in Seq(Lexeme)
  BY <1>3, <1>7, ConcatParts
<1>9. ((<<"<string_cst>", Blank, "quote">> \o SubSeq(q, 1, n))
        \o (IF Len(s.chars) + 1 > MaxStrPrint THEN <<"...">> ELSE <<>>)) \o <<"quote">>
      \in Seq(Lexeme)
  BY <1>2, <1>8, ConcatParts
<1> QED BY <1>4, <1>9 DEF output_string_cst

(* Every leaf is printed as a text. *)
LEMMA LeafText ==
  ASSUME NEW l \in Leaves
  PROVE  Leaf(l) \in Seq(Lexeme)
<1>1. CASE l \in [kind : {"name"}, code : STRING, text : Seq(Lexeme)]
  <2>1. l.kind = "name" /\ l.text \in Seq(Lexeme) BY <1>1
  <2> QED BY <2>1 DEF Leaf
<1>2. CASE l \in Constants
  <2>1. Leaf(l) \in Seq(Plain) BY <1>2, IntText
  <2> QED BY <2>1, PlainText
<1>3. CASE l \in [kind : {"string"}, chars : Seq(Lexeme)]
  <2>1. l.kind = "string" /\ l.chars \in Seq(Lexeme) BY <1>3
  <2>2. Leaf(l) = output_string_cst(l) BY <2>1 DEF Leaf
  <2> QED BY <2>1, <2>2, StringText
<1> QED BY <1>1, <1>2, <1>3 DEF Leaves

(* What the walkers print for a statement is in every closed set that the  *)
(* texts of its operands are in.                                           *)
StatementIn(s, K) ==
  /\ s \in Statements /\ Closed(K)
  /\ \A i \in 1..Len(s.ops) : Leaf(s.ops[i]) \in K
  /\ Parenthesized(s.cast) \in K

(* What a statement is made of, by its kind. *)
LEMMA StatementShape ==
  ASSUME NEW s \in Statements
  PROVE  /\ s.kind \in {"unary", "binary", "ternary", "nop", "phi", "call"}
         /\ s.code \in Plain /\ s.ops \in Seq(Leaves) /\ s.cast \in Seq(Lexeme)
         /\ s.kind \in {"unary", "nop"} => Len(s.ops) = 1
         /\ s.kind = "binary" => Len(s.ops) = 2
         /\ s.kind = "ternary" => Len(s.ops) = 3
         /\ s.kind = "phi" => Len(s.ops) \in Nat \ {0}
         /\ s.kind \in {"unary", "binary"} => Symbol[s.code] \in Seq(Plain)
<1>1. /\ s.kind \in DOMAIN Arity /\ s.code \in Plain
      /\ s.ops \in Seq(Leaves) /\ s.cast \in Seq(Lexeme)
      /\ Len(s.ops) \in Arity[s.kind]
      /\ s.kind \in {"unary", "binary"} => s.code \in DOMAIN Symbol
  BY DEF Statements
<1>2. DOMAIN Arity = {"unary", "binary", "ternary", "nop", "phi", "call"} BY DEF Arity
<1>3. /\ Arity["unary"] = {1} /\ Arity["binary"] = {2} /\ Arity["ternary"] = {3}
      /\ Arity["nop"] = {1} /\ Arity["phi"] = Nat \ {0}
  BY DEF Arity
<1>4. s.kind \in {"unary", "binary"} => Symbol[s.code] \in Seq(Plain)
  BY <1>1, WordsAssumption
<1> QED BY <1>1, <1>2, <1>3, <1>4

(* The operands of a tagged expression, in parentheses. *)
LEMMA TaggedIn ==
  ASSUME NEW K, Closed(K), NEW code \in Plain, NEW ops,
         ops \in Seq(Leaves), \A i \in 1..Len(ops) : Leaf(ops[i]) \in K
  PROVE  /\ Parenthesized(Listed(LeafTexts(ops))) \in K
         /\ Tagged(code, ops) \in K
<1>1. DOMAIN ops = 1..Len(ops) /\ Len(ops) \in Nat OBVIOUS
<1>2. LeafTexts(ops) \in [1..Len(ops) -> K] BY <1>1 DEF LeafTexts
<1>3. LeafTexts(ops) \in Seq(K) BY <1>1, <1>2
<1>4. Parenthesized(Listed(LeafTexts(ops))) \in K BY <1>3 DEF Closed
<1>5. <<code, Blank>> \in K
  <2>1. Blank \in Plain BY PlainWords
  <2>2. <<code, Blank>> \in Seq(Plain) BY <2>1, ShortTexts
  <2> QED BY <2>2 DEF Closed
<1>6. <<code, Blank>> \o Parenthesized(Listed(LeafTexts(ops))) \in K
  BY <1>4, <1>5 DEF Closed
<1> QED BY <1>4, <1>6 DEF Tagged

(* Plain words between. *)
LEMMA WordsIn ==
  ASSUME NEW K, Closed(K)
  PROVE  /\ <<>> \in K /\ <<Blank>> \in K /\ <<"ABS_EXPR">> \in K
         /\ \A a \in {"*", "+", "?", ":", "="} : <<Blank, a, Blank>> \in K
         /\ \A code \in Plain : <<"newline", Blank, "<@>", Blank, code>> \in K
<1>1. Seq(Plain) \subseteq K BY DEF Closed
<1>2. /\ {Blank, "ABS_EXPR", "newline", "<@>"} \subseteq Plain
      /\ {"*", "+", "?", ":", "="} \subseteq Plain
  BY PlainWords
<1>3. /\ <<>> \in Seq(Plain) /\ <<Blank>> \in Seq(Plain) /\ <<"ABS_EXPR">> \in Seq(Plain)
  BY <1>2, ShortTexts
<1>4. \A a \in {"*", "+", "?", ":", "="} : <<Blank, a, Blank>> \in Seq(Plain)
  BY <1>2, ShortTexts
<1>5. \A code \in Plain : <<"newline", Blank, "<@>", Blank, code>> \in Seq(Plain)
  BY <1>2, ShortTexts
<1> QED BY <1>1, <1>3, <1>4, <1>5

(* A unary right-hand side, for each of its codes. *)
LEMMA UnaryIn ==
  ASSUME NEW s, NEW K, StatementIn(s, K), s.kind = "unary"
  PROVE  walk_gimple_unary_rhs(s) \in K
<1>1. PICK a, c, y : a = Leaf(s.ops[1]) /\ c = Parenthesized(s.cast) /\ y = Symbol[s.code]
  OBVIOUS
<1>2. Closed(K) /\ Len(s.ops) = 1 /\ y \in Seq(Plain)
  BY <1>1, StatementShape DEF StatementIn
<1>3. a \in K /\ c \in K
  <2>1. 1 \in 1..Len(s.ops) BY <1>2
  <2> QED BY <1>1, <2>1 DEF StatementIn
<1>4. /\ \A u, v \in K : u \o v \in K
      /\ \A u \in K : Parenthesized(u) \in K
      /\ y \in K
  BY <1>2 DEF Closed
<1>5. <<Blank>> \in K /\ <<"ABS_EXPR">> \in K BY <1>2, WordsIn
<1>6. PICK p : p = Parenthesized(a) /\ p \in K BY <1>3, <1>4
<1>7. p \o <<Blank>> \in K /\ c \o <<Blank>> \in K BY <1>3, <1>4, <1>5, <1>6
<1>8. \A loose \in BOOLEAN :
        /\ (IF loose THEN p \o <<Blank>> ELSE a) \in K
        /\ (IF loose THEN p ELSE a) \in K
  BY <1>3, <1>6, <1>7
<1>9. PICK loose \in BOOLEAN : loose <=> op_prio(s.ops[1]) < Prio[s.code] OBVIOUS
<1>10. (c \o <<Blank>>) \o (IF loose THEN p \o <<Blank>> ELSE a) \in K
  BY <1>4, <1>7, <1>8
<1>11. y \o (IF loose THEN p ELSE a) \in K BY <1>4, <1>8
<1>12. Parenthesized(p) \in K /\ <<"ABS_EXPR">> \o p \in K BY <1>4, <1>5, <1>6
<1>13. walk_gimple_unary_rhs(s)
         = CASE s.code \in {"view_convert_expr", "assert_expr", "reference"} -> a
             [] s.code = "convert" -> (c \o <<Blank>>) \o (IF loose THEN p \o <<Blank>> ELSE a)
             [] s.code = "paren_expr" -> Parenthesized(p)
             [] s.code = "abs_expr" -> <<"ABS_EXPR">> \o p
             [] OTHER -> y \o (IF loose THEN p ELSE a)
  BY <1>1, <1>6, <1>9 DEF walk_gimple_unary_rhs
<1>14. CASE s.code \in {"view_convert_expr", "assert_expr", "reference"}
  BY <1>3, <1>13, <1>14
<1>15. CASE s.code = "convert" BY <1>10, <1>13, <1>15
<1>16. CASE s.code = "paren_expr" BY <1>12, <1>13, <1>16
<1>17. CASE s.code = "abs_expr" BY <1>12, <1>13, <1>17
<1>18. CASE s.code \notin {"view_convert_expr", "assert_expr", "reference", "convert",
                           "paren_expr", "abs_expr"}
  BY <1>11, <1>13, <1>18
<1> QED BY <1>14, <1>15, <1>16, <1>17, <1>18

(* A binary one. *)
LEMMA BinaryIn ==
  ASSUME NEW s, NEW K, StatementIn(s, K), s.kind = "binary"
  PROVE  walk_gimple_binary_rhs(s) \in K
<1>1. PICK a, b, y : /\ a = Operand(s.ops[1], s.code) /\ b = Operand(s.ops[2], s.code)
                     /\ y = Symbol[s.code]
  OBVIOUS
<1>2. /\ Closed(K) /\ Len(s.ops) = 2 /\ y \in Seq(Plain) /\ s.code \in Plain
      /\ s.ops \in Seq(Leaves)
  BY <1>1, StatementShape DEF StatementIn
<1>3. \A i \in 1..Len(s.ops) : Leaf(s.ops[i]) \in K BY DEF StatementIn
<1>4. Tagged(s.code, s.ops) \in K BY <1>2, <1>3, TaggedIn
<1>5. /\ \A u, v \in K : u \o v \in K
      /\ \A u \in K : Parenthesized(u) \in K
      /\ y \in K
  BY <1>2 DEF Closed
<1>6. a \in K /\ b \in K
  <2>1. Leaf(s.ops[1]) \in K /\ Leaf(s.ops[2]) \in K BY <1>2, <1>3
  <2>2. Parenthesized(Leaf(s.ops[1])) \in K /\ Parenthesized(Leaf(s.ops[2])) \in K
    BY <1>5, <2>1
  <2> QED BY <1>1, <2>1, <2>2 DEF Operand
<1>7. <<Blank>> \in K BY <1>2, WordsIn
<1>8. a \o <<Blank>> \in K BY <1>5, <1>6, <1>7
<1>9. (a \o <<Blank>>) \o y \in K BY <1>5, <1>8
<1>10. ((a \o <<Blank>>) \o y) \o <<Blank>> \in K BY <1>5, <1>7, <1>9
<1>11. (((a \o <<Blank>>) \o y) \o <<Blank>>) \o b \in K BY <1>5, <1>6, <1>10
<1>12. \/ walk_gimple_binary_rhs(s) = Tagged(s.code, s.ops)
       \/ walk_gimple_binary_rhs(s) = (((a \o <<Blank>>) \o y) \o <<Blank>>) \o b
  BY <1>1 DEF walk_gimple_binary_rhs
<1> QED BY <1>4, <1>11, <1>12

(* A ternary one. *)
LEMMA TernaryIn ==
  ASSUME NEW s, NEW K, StatementIn(s, K), s.kind = "ternary"
  PROVE  walk_gimple_ternary_rhs(s) \in K
<1>1. PICK l1, l2, l3 : l1 = Leaf(s.ops[1]) /\ l2 = Leaf(s.ops[2]) /\ l3 = Leaf(s.ops[3])
  OBVIOUS
<1>2. Closed(K) /\ Len(s.ops) = 3 /\ s.code \in Plain /\ s.ops \in Seq(Leaves)
  BY StatementShape DEF StatementIn
<1>3. \A i \in 1..Len(s.ops) : Leaf(s.ops[i]) \in K BY DEF StatementIn
<1>4. Tagged(s.code, s.ops) \in K BY <1>2, <1>3, TaggedIn
<1>5. \A u, v \in K : u \o v \in K BY <1>2 DEF Closed
<1>6. l1 \in K /\ l2 \in K /\ l3 \in K BY <1>1, <1>2, <1>3
<1>7. <<>> \in K /\ \A a \in {"*", "+", "?", ":"} : <<Blank, a, Blank>> \in K BY <1>2, WordsIn
<1>8. ASSUME NEW a \in {"*", "+", "?", ":"}, NEW b \in {"*", "+", "?", ":"}
      PROVE  (((l1 \o <<Blank, a, Blank>>) \o l2) \o <<Blank, b, Blank>>) \o l3 \in K
  <2>1. PICK u, v : /\ u = <<Blank, a, Blank>> /\ v = <<Blank, b, Blank>> /\ u \in K /\ v \in K
    BY <1>7
  <2>2. l1 \o u \in K BY <1>5, <1>6, <2>1
  <2>3. (l1 \o u) \o l2 \in K BY <1>5, <1>6, <2>2
  <2>4. ((l1 \o u) \o l2) \o v \in K BY <1>5, <2>1, <2>3
  <2>5. (((l1 \o u) \o l2) \o v) \o l3 \in K BY <1>5, <1>6, <2>4
  <2> QED BY <2>1, <2>5
<1>9. /\ (((l1 \o <<Blank, "*", Blank>>) \o l2) \o <<Blank, "+", Blank>>) \o l3 \in K
      /\ (((l1 \o <<Blank, "?", Blank>>) \o l2) \o <<Blank, ":", Blank>>) \o l3 \in K
  BY <1>8
<1>10. walk_gimple_ternary_rhs(s)
         = CASE s.code \in {"<widen_mult_plus_expr>", "<widen_mult_minus_expr>"} ->
                  Tagged(s.code, s.ops)
             [] s.code = "fma_expr" ->
                  (((l1 \o <<Blank, "*", Blank>>) \o l2) \o <<Blank, "+", Blank>>) \o l3
             [] s.code = "cond_expr" ->
                  (((l1 \o <<Blank, "?", Blank>>) \o l2) \o <<Blank, ":", Blank>>) \o l3
             [] OTHER -> <<>>
  BY <1>1 DEF walk_gimple_ternary_rhs
<1>11. CASE s.code \in {"<widen_mult_plus_expr>", "<widen_mult_minus_expr>"}
  BY <1>4, <1>10, <1>11
<1>12. CASE s.code = "fma_expr" BY <1>9, <1>10, <1>12
<1>13. CASE s.code = "cond_expr" BY <1>9, <1>10, <1>13
<1>14. CASE s.code \notin {"<widen_mult_plus_expr>", "<widen_mult_minus_expr>", "fma_expr",
                           "cond_expr"}
  BY <1>7, <1>10, <1>14
<1> QED BY <1>11, <1>12, <1>13, <1>14

(* A phi node. *)
LEMMA PhiIn ==
  ASSUME NEW s, NEW K, StatementIn(s, K), s.kind = "phi"
  PROVE  walk_gimple_phi(s) \in K
<1>1. PICK ops, n, t : ops = s.ops /\ n = Len(ops) /\ t = Tail(ops) OBVIOUS
<1>2. Closed(K) /\ n \in Nat \ {0} /\ ops \in Seq(Leaves)
  BY <1>1, StatementShape DEF StatementIn
<1>3. \A i \in 1..n : Leaf(ops[i]) \in K BY <1>1 DEF StatementIn
<1>4. t \in Seq(Leaves) /\ Len(t) = n - 1 /\ \A i \in 1..(n - 1) : t[i] = ops[i + 1]
  BY <1>1, <1>2
<1>5. \A i \in 1..Len(t) : Leaf(t[i]) \in K
  <2> SUFFICES ASSUME NEW i \in 1..Len(t) PROVE Leaf(t[i]) \in K OBVIOUS
  <2>1. i + 1 \in 1..n /\ t[i] = ops[i + 1] BY <1>2, <1>4
  <2> QED BY <1>3, <2>1
<1>6. "<gimple_phi>" \in Plain BY PlainWords
<1>7. Tagged("<gimple_phi>", t) \in K BY <1>2, <1>4, <1>5, <1>6, TaggedIn
<1>8. Leaf(Head(ops)) \in K
  <2>1. 1 \in 1..n /\ Head(ops) = ops[1] BY <1>1, <1>2
  <2> QED BY <1>3, <2>1
<1>9. <<Blank, "=", Blank>> \in K BY <1>2, WordsIn
<1>10. \A u, v \in K : u \o v \in K BY <1>2 DEF Closed
<1>11. Leaf(Head(ops)) \o <<Blank, "=", Blank>> \in K BY <1>8, <1>9, <1>10
<1>12. (Leaf(Head(ops)) \o <<Blank, "=", Blank>>) \o Tagged("<gimple_phi>", t) \in K
  BY <1>7, <1>10, <1>11
<1> QED BY <1>1, <1>12 DEF walk_gimple_phi

(* A call inside a call. *)
LEMMA CallIn ==
  ASSUME NEW s, NEW K, StatementIn(s, K), s.kind = "call"
  PROVE  NestedCall(s) \in K
<1>1. Closed(K) /\ s.code \in Plain /\ s.ops \in Seq(Leaves)
  BY StatementShape DEF StatementIn
<1>2. \A i \in 1..Len(s.ops) : Leaf(s.ops[i]) \in K BY DEF StatementIn
<1>3. Parenthesized(Listed(LeafTexts(s.ops))) \in K BY <1>1, <1>2, TaggedIn
<1>4. <<"newline", Blank, "<@>", Blank, s.code>> \in K BY <1>1, WordsIn
<1>5. \A u, v \in K : u \o v \in K BY <1>1 DEF Closed
<1>6. <<"newline", Blank, "<@>", Blank, s.code>>
        \o Parenthesized(Listed(LeafTexts(s.ops))) \in K
  BY <1>3, <1>4, <1>5
<1> QED BY <1>6 DEF NestedCall

(* A conversion, with its cast. *)
LEMMA NopIn ==
  ASSUME NEW s, NEW K, StatementIn(s, K), s.kind = "nop"
  PROVE  walk_gimple_nop(s) \in K
<1>1. Len(s.ops) = 1 BY StatementShape DEF StatementIn
<1>2. 1 \in 1..Len(s.ops) BY <1>1
<1> QED BY <1>2 DEF StatementIn, walk_gimple_nop

(* Every statement. *)
LEMMA ArgTextIn ==
  ASSUME NEW s, NEW K, StatementIn(s, K)
  PROVE  ArgText(s) \in K
<1>1. s.kind \in {"unary", "binary", "ternary", "nop", "phi", "call"}
  BY StatementShape DEF StatementIn
<1>2. CASE s.kind = "unary"
  <2>1. ArgText(s) = walk_gimple_unary_rhs(s) BY <1>2 DEF ArgText
  <2> QED BY <1>2, <2>1, UnaryIn
<1>3. CASE s.kind = "binary"
  <2>1. ArgText(s) = walk_gimple_binary_rhs(s) BY <1>3 DEF ArgText
  <2> QED BY <1>3, <2>1, BinaryIn
<1>4. CASE s.kind = "ternary"
  <2>1. ArgText(s) = walk_gimple_ternary_rhs(s) BY <1>4 DEF ArgText
  <2> QED BY <1>4, <2>1, TernaryIn
<1>5. CASE s.kind = "nop"
  <2>1. ArgText(s) = walk_gimple_nop(s) BY <1>5 DEF ArgText
  <2> QED BY <1>5, <2>1, NopIn
<1>6. CASE s.kind = "phi"
  <2>1. ArgText(s) = walk_gimple_phi(s) BY <1>6 DEF ArgText
  <2> QED BY <1>6, <2>1, PhiIn
<1>7. CASE s.kind = "call"
  <2>1. ArgText(s) = NestedCall(s) BY <1>7 DEF ArgText
  <2> QED BY <1>7, <2>1, CallIn
<1> QED BY <1>1, <1>2, <1>3, <1>4, <1>5, <1>6, <1>7

(* Every argument is printed as a text, and one that can be split by       *)
(* counting parentheses if its leaves can.                                 *)
LEMMA ArgTextType ==
  ASSUME NEW arg \in Operands
  PROVE  ArgText(arg) \in Seq(Lexeme)
<1>1. CASE arg \in Leaves
  <2>1. arg.kind \in {"name", "int", "string"} BY <1>1 DEF Leaves, Constants
  <2>2. ArgText(arg) = Leaf(arg) BY <2>1 DEF ArgText
  <2> QED BY <1>1, <2>2, LeafText
<1>2. CASE arg \in Statements
  <2>1. arg.ops \in Seq(Leaves) /\ arg.cast \in Seq(Lexeme) BY <1>2, StatementShape
  <2>2. \A i \in 1..Len(arg.ops) : Leaf(arg.ops[i]) \in Texts
    <3> SUFFICES ASSUME NEW i \in 1..Len(arg.ops) PROVE Leaf(arg.ops[i]) \in Texts OBVIOUS
    <3>1. arg.ops[i] \in Leaves BY <2>1, ElementOfSeq
    <3> QED BY <3>1, LeafText DEF Texts
  <2>3. Parenthesized(arg.cast) \in Texts BY <2>1, ParenthesizedType DEF Texts
  <2>4. StatementIn(arg, Texts) BY <1>2, <2>2, <2>3, TextsClosed DEF StatementIn
  <2>5. ArgText(arg) \in Texts BY <2>4, ArgTextIn
  <2> QED BY <2>5 DEF Texts
<1> QED BY <1>1, <1>2, OperandsAssumption

(* Calls, casts and expressions nested in an argument never make it one    *)
(* that cannot be split: only the text of a leaf can.                      *)
LEMMA ArgTextSplittable ==
  ASSUME NEW arg \in Operands, \A leaf \in LeavesOf(arg) : Splittable(Leaf(leaf))
  PROVE  Splittable(ArgText(arg))
<1>1. CASE arg \in Leaves
  <2>1. arg.kind \in {"name", "int", "string"} BY <1>1 DEF Leaves, Constants
  <2>2. ArgText(arg) = Leaf(arg) BY <2>1 DEF ArgText
  <2>3. arg \in LeavesOf(arg) BY <2>1 DEF LeavesOf
  <2> QED BY <2>2, <2>3
<1>2. CASE arg \in Statements
  <2>1. /\ arg.ops \in Seq(Leaves) /\ arg.cast \in Seq(Lexeme)
        /\ arg.kind \notin {"name", "int", "string"}
    BY <1>2, StatementShape
  <2>2. LeavesOf(arg) = {arg.ops[i] : i \in 1..Len(arg.ops)} BY <2>1 DEF LeavesOf
  <2>3. \A i \in 1..Len(arg.ops) : Leaf(arg.ops[i]) \in SplittableTexts
    <3> SUFFICES ASSUME NEW i \in 1..Len(arg.ops) PROVE Leaf(arg.ops[i]) \in SplittableTexts
      OBVIOUS
    <3>1. arg.ops[i] \in Leaves BY <2>1, ElementOfSeq
    <3>2. arg.ops[i] \in LeavesOf(arg) BY <2>2
    <3> QED BY <3>1, <3>2, LeafText DEF SplittableTexts
  <2>4. Parenthesized(arg.cast) \in SplittableTexts
    <3>1. Balanced(arg.cast) BY <1>2, OperandsAssumption
    <3> QED BY <2>1, <3>1, ParenthesizedSplittable DEF SplittableTexts
  <2>5. StatementIn(arg, SplittableTexts)
    BY <1>2, <2>3, <2>4, SplittableClosed DEF StatementIn
  <2>6. ArgText(arg) \in SplittableTexts BY <2>5, ArgTextIn
  <2> QED BY <2>6 DEF SplittableTexts
<1> QED BY <1>1, <1>2, OperandsAssumption

(***************************************************************************)
(* The loop over an argument, and the loop over the arguments.             *)
(***************************************************************************)
(* Where EndOfArg may stop.                                                *)
Stops(text, from) ==
  {p \in from..Len(text) : text[p] \in {Comma, ")"} /\ Depth(text, from, p) = 0}

(* The loop ends at the first place where it may, or at the Nul.           *)
LEMMA EndOfArgIs ==
  ASSUME NEW text \in Seq(Lexeme), NEW from \in Nat
  PROVE  \/ Stops(text, from) = {} /\ EndOfArg(text, from) = Len(text) + 1
         \/ /\ EndOfArg(text, from) \in Stops(text, from)
            /\ \A q \in Stops(text, from) : EndOfArg(text, from) <= q
<1>. DEFINE S == Stops(text, from)
<1>1. EndOfArg(text, from)
        = IF S = {} THEN Len(text) + 1 ELSE CHOOSE p \in S : \A q \in S : p <= q
  BY DEF EndOfArg, Stops
<1>2. S \subseteq Nat BY DEF Stops
<1> HIDE DEF S
<1>3. CASE S = {} BY <1>1, <1>3 DEF S
<1>4. CASE S # {}
  <2>1. \E p \in S : \A q \in S : p <= q BY <1>2, <1>4, LeastNatural
  <2>2. PICK e : e = CHOOSE p \in S : \A q \in S : p <= q OBVIOUS
  <2>3. e \in S /\ \A q \in S : e <= q BY <2>1, <2>2, Zenon
  <2>4. EndOfArg(text, from) = e BY <1>1, <1>4, <2>2
  <2> QED BY <2>3, <2>4 DEF S
<1> QED BY <1>3, <1>4

(* It ends behind its start, at a comma, a parenthesis or the Nul.         *)
LEMMA EndOfArgType ==
  ASSUME NEW text \in Seq(Lexeme), NEW from \in Nat, from <= Len(text)
  PROVE  /\ EndOfArg(text, from) \in Nat /\ from <= EndOfArg(text, from)
         /\ EndOfArg(text, from) <= Len(text) + 1
         /\ EndOfArg(text, from) <= Len(text) =>
              text[EndOfArg(text, from)] \in {Comma, ")"}
<1>1. Len(text) \in Nat OBVIOUS
<1>2. CASE EndOfArg(text, from) = Len(text) + 1 BY <1>1, <1>2
<1>3. CASE EndOfArg(text, from) \in Stops(text, from)
  <2>1. PICK e : e = EndOfArg(text, from) OBVIOUS
  <2>2. e \in from..Len(text) /\ text[e] \in {Comma, ")"} BY <1>3, <2>1 DEF Stops
  <2>3. e \in Nat /\ from <= e /\ e <= Len(text) + 1 BY <1>1, <2>2
  <2> QED BY <2>1, <2>2, <2>3
<1> QED BY <1>2, <1>3, EndOfArgIs

(* The loop goes over a text it can split, and stops behind it.            *)
LEMMA EndOfArgFinds ==
  ASSUME NEW text \in Seq(Lexeme), NEW arg \in Seq(Lexeme), Splittable(arg), NEW o \in Nat,
         o + Len(arg) + 1 <= Len(text),
         \A j \in 1..Len(arg) : text[o + j] = arg[j],
         text[o + Len(arg) + 1] \in {Comma, ")"}
  PROVE  EndOfArg(text, o + 1) = o + Len(arg) + 1
<1>. DEFINE n == Len(arg)  e == o + n + 1
<1>1. n \in Nat /\ Len(text) \in Nat /\ o + 1 \in Nat OBVIOUS
<1>2. \A m \in 0..n : Depth(text, o + 1, (o + m) + 1) = Depth(arg, 1, m + 1)
  <2>1. PICK k : k = n OBVIOUS
  <2>2. o \in Int /\ k \in Nat /\ \A j \in 1..k : text[o + j] = arg[j] BY <2>1
  <2>3. \A m \in 0..k : Depth(text, o + 1, (o + m) + 1) = Depth(arg, 1, m + 1)
    BY ONLY <2>2, DepthSame
  <2> QED BY <2>1, <2>3
<1>3. /\ Balanced(arg) /\ CommasInside(arg)
  BY SplittableIs
<1>4. /\ Depth(arg, 1, n + 1) = 0
      /\ \A m \in 0..n : Depth(arg, 1, m + 1) >= 0
      /\ \A m \in 0..n : Depth(arg, 1, m + 1) \in Int
  BY <1>3, BalancedDepth
<1>5. \A p \in 1..n : arg[p] = Comma => Depth(arg, 1, p) > 0 BY <1>3 DEF CommasInside
<1>6. \A j \in 1..n : text[o + j] = arg[j] OBVIOUS
<1>7. text[e] \in {Comma, ")"} /\ e <= Len(text) OBVIOUS
<1>8. e \in Stops(text, o + 1)
  <2>1. n \in 0..n /\ (o + n) + 1 = e /\ e \in (o + 1)..Len(text)
    <3> HIDE DEF n
    <3> QED BY <1>1, <1>7
  <2>2. Depth(text, o + 1, e) = 0 BY <1>2, <1>4, <2>1
  <2> HIDE DEF e
  <2> QED BY <1>7, <2>1, <2>2 DEF Stops
<1>9. ASSUME NEW p \in Stops(text, o + 1), p < e PROVE FALSE
  <2>1. /\ p \in (o + 1)..Len(text) /\ text[p] \in {Comma, ")"} /\ Depth(text, o + 1, p) = 0
    BY DEF Stops
  <2> HIDE DEF n
  <2>2. PICK j : j = p - o OBVIOUS
  <2>3. j \in 1..n /\ o + j = p /\ j - 1 \in 0..n /\ j \in 0..n /\ (o + (j - 1)) + 1 = p
        /\ (j - 1) + 1 = j
    BY <1>1, <1>9, <2>1, <2>2
  <2>4. arg[j] = text[p] BY <1>6, <2>3
  <2>5. Depth(arg, 1, j) = 0 BY <1>2, <2>1, <2>3
  <2>6. Depth(arg, 1, j + 1) = Depth(arg, 1, j) + Turn(arg[j])
    <3>1. 1 \in Int /\ j \in Int /\ 1 <= j BY <2>3
    <3> QED BY <3>1, DepthStep
  <2>7. CASE text[p] = Comma
    <3>1. Depth(arg, 1, j) > 0 BY <1>5, <2>3, <2>4, <2>7
    <3> QED BY <2>5, <3>1
  <2>8. CASE text[p] = ")"
    <3>1. Turn(arg[j]) = -1 BY <2>4, <2>8 DEF Turn
    <3>2. Depth(arg, 1, j + 1) >= 0 BY <1>4, <2>3
    <3> QED BY <2>5, <2>6, <3>1, <3>2
  <2> QED BY <2>1, <2>7, <2>8
<1>10. PICK f : f = EndOfArg(text, o + 1) OBVIOUS
<1>11. f \in Stops(text, o + 1) /\ f <= e
  <2> HIDE DEF e
  <2> QED BY <1>1, <1>8, <1>10, EndOfArgIs
<1>12. f \in Int /\ e \in Int BY <1>1, <1>11 DEF Stops
<1>13. f = e
  <2>1. ~(f < e) BY <1>9, <1>11
  <2> HIDE DEF e
  <2> QED BY <1>11, <1>12, <2>1
<1> QED BY <1>10, <1>13

(* What get_next_arg returns and leaves.                                   *)
Steps == [ptr : Nat, offset : Nat]

(* What get_next_arg returns and leaves is in the text, or at its Nul, or  *)
(* behind it if a comma is in front of that.                               *)
LEMMA NextArgType ==
  ASSUME NEW text \in Seq(Lexeme), NEW offset \in Nat
  PROVE  /\ get_next_arg(text, offset) \in Steps
         /\ get_next_arg(text, offset).ptr <= Len(text)
         /\ get_next_arg(text, offset).offset
              <= Len(text) + (IF text # <<>> /\ text[Len(text)] = Comma THEN 2 ELSE 1)
<1>1. PICK p : p = IF offset = 1 THEN 2 ELSE offset OBVIOUS
<1>2. p \in Nat /\ Len(text) \in Nat BY <1>1
<1>3. get_next_arg(text, offset)
        = IF offset = 0 \/ p > Len(text) \/ text[p] = ")"
          THEN [ptr |-> 0, offset |-> 0]
          ELSE [ptr |-> p, offset |-> AfterArg(text, EndOfArg(text, p))]
  BY <1>1 DEF get_next_arg
<1>4. CASE offset = 0 \/ p > Len(text) \/ text[p] = ")"
  <2>1. get_next_arg(text, offset) = [ptr |-> 0, offset |-> 0] BY <1>3, <1>4
  <2> QED BY <1>2, <2>1 DEF Steps
<1>5. CASE ~(offset = 0 \/ p > Len(text) \/ text[p] = ")")
  <2>1. PICK e : e = EndOfArg(text, p) OBVIOUS
  <2>2. p <= Len(text) BY <1>2, <1>5
  <2>3. e \in Nat /\ e <= Len(text) + 1 BY <1>2, <2>1, <2>2, EndOfArgType
  <2>4. PICK a : a = AfterArg(text, e) OBVIOUS
  <2>5. a = IF e <= Len(text) /\ text[e] = Comma THEN e + 2 ELSE e BY <2>4 DEF AfterArg
  <2>6. a \in Nat BY <2>3, <2>5
  <2>7. get_next_arg(text, offset) = [ptr |-> p, offset |-> a] BY <1>3, <1>5, <2>1, <2>4
  <2>8. text # <<>> BY <1>2, <2>2, <1>5, <1>1
  <2>9. a <= Len(text) + (IF text[Len(text)] = Comma THEN 2 ELSE 1)
    <3>1. CASE e <= Len(text) /\ text[e] = Comma
      <4>1. CASE e = Len(text) BY <1>2, <2>3, <2>5, <3>1, <4>1
      <4>2. CASE e # Len(text) BY <1>2, <2>3, <2>5, <3>1, <4>2
      <4> QED BY <4>1, <4>2
    <3>2. CASE ~(e <= Len(text) /\ text[e] = Comma) BY <1>2, <2>3, <2>5, <3>2
    <3> QED BY <3>1, <3>2
  <2> QED BY <1>2, <2>2, <2>6, <2>7, <2>8, <2>9 DEF Steps
<1> QED BY <1>4, <1>5

(* f has what each call of the loop leaves; the loop begins at the start.  *)
Walks(f, text, n) ==
  /\ f \in [0..n -> Steps] /\ f[0].offset = 1
  /\ \A i \in 1..n : f[i] = get_next_arg(text, f[i - 1].offset)

(* Walk collects what the calls of the loop leave, one after the other.    *)
LEMMA WalkIs ==
  ASSUME NEW text \in Seq(Lexeme), NEW n \in Nat
  PROVE  \E f : Walks(f, text, n) /\ Walk(text, n) = [i \in 1..n |-> f[i]]
<1>. DEFINE start == [ptr |-> 0, offset |-> 1]
            step == [i \in 1..n |-> [v \in Steps |-> get_next_arg(text, v.offset)]]
            body(g, k) == IF k = 0 THEN <<>>
                          ELSE LET before == g[k - 1]
                                   offset == IF before = <<>> THEN 1 ELSE Last(before).offset
                               IN Append(before, get_next_arg(text, offset))
            walk == CHOOSE g : g = [k \in 0..n |-> body(g, k)]
<1>1. start \in Steps /\ start.offset = 1 BY DEF Steps
<1>2. step \in [1..n -> [Steps -> Steps]]
  <2>1. ASSUME NEW v \in Steps PROVE get_next_arg(text, v.offset) \in Steps
    <3>1. v.offset \in Nat BY DEF Steps
    <3> QED BY <3>1, NextArgType
  <2> QED BY <2>1
<1>3. \A i \in 1..n, v \in Steps : step[i][v] = get_next_arg(text, v.offset) OBVIOUS
<1> HIDE DEF step, start
<1>4. PICK f : Computes(f, Steps, start, step, n) BY <1>1, <1>2, Recursion
<1>5. Walks(f, text, n)
  <2>1. /\ f \in [0..n -> Steps] /\ f[0] = start
        /\ \A i \in 1..n : f[i] = step[i][f[i - 1]]
    BY <1>4 DEF Computes
  <2>2. ASSUME NEW i \in 1..n PROVE f[i] = get_next_arg(text, f[i - 1].offset)
    <3>1. f[i - 1] \in Steps BY <2>1
    <3> QED BY <1>3, <2>1, <3>1
  <2> QED BY <1>1, <2>1, <2>2 DEF Walks
<1>6. /\ f \in [0..n -> Steps] /\ f[0].offset = 1
      /\ \A i \in 1..n : f[i] = get_next_arg(text, f[i - 1].offset)
  BY <1>5 DEF Walks
<1>. DEFINE front(k) == [i \in 1..k |-> f[i]]
            fronts == [k \in 0..n |-> front(k)]
<1>7. \A k \in 0..n : front(k) \in Seq(Steps) /\ Len(front(k)) = k
  <2>1. ASSUME NEW k \in 0..n PROVE front(k) \in Seq(Steps) /\ Len(front(k)) = k
    <3>1. \A i \in 1..k : f[i] \in Steps BY <1>6
    <3>2. k \in Nat OBVIOUS
    <3> QED BY <3>1, <3>2
  <2> QED BY <2>1
<1>8. ASSUME NEW k \in 1..n
      PROVE  front(k) = Append(front(k - 1),
               get_next_arg(text, IF front(k - 1) = <<>> THEN 1 ELSE Last(front(k - 1)).offset))
  <2>1. k - 1 \in 0..n /\ k \in 0..n /\ k - 1 \in Nat OBVIOUS
  <2>2. PICK b : b = front(k - 1) OBVIOUS
  <2>3. /\ b \in Seq(Steps) /\ Len(b) = k - 1
        /\ \A i \in 1..(k - 1) : b[i] = f[i]
    BY <1>7, <2>1, <2>2
  <2>4. (IF b = <<>> THEN 1 ELSE Last(b).offset) = f[k - 1].offset
    <3>1. CASE k = 1
      <4>1. b = <<>> BY <2>3, <3>1
      <4> QED BY <1>6, <3>1, <4>1
    <3>2. CASE k # 1
      <4>1. b # <<>> /\ k - 1 \in 1..(k - 1) BY <2>3, <3>2
      <4> QED BY <2>3, <4>1 DEF Last
    <3> QED BY <3>1, <3>2
  <2>5. get_next_arg(text, f[k - 1].offset) = f[k] BY <1>6
  <2>6. f[k] \in Steps BY <1>6, <2>1
  <2>7. front(k) = Append(b, f[k])
    <3>1. front(k) \in Seq(Steps) /\ Len(front(k)) = k /\ \A i \in 1..k : front(k)[i] = f[i]
      BY <1>7, <2>1
    <3>2. PICK g : g = front(k) OBVIOUS
    <3> HIDE DEF front
    <3> QED BY <2>3, <2>6, <3>1, <3>2
  <2> HIDE DEF front
  <2> QED BY <2>2, <2>4, <2>5, <2>7
<1>9. fronts = [k \in 0..n |-> body(fronts, k)]
  <2>1. ASSUME NEW k \in 0..n PROVE front(k) = body(fronts, k)
    <3>1. CASE k = 0
      <4>1. front(0) = <<>> OBVIOUS
      <4> HIDE DEF front, fronts
      <4> QED BY <3>1, <4>1
    <3>2. CASE k # 0
      <4>1. k \in 1..n /\ k - 1 \in 0..n BY <3>2
      <4>2. fronts[k - 1] = front(k - 1)
        <5> HIDE DEF front
        <5> QED BY <4>1
      <4> HIDE DEF fronts, front
      <4> QED BY <1>8, <3>2, <4>1, <4>2
    <3> QED BY <3>1, <3>2
  <2> HIDE DEF body, front
  <2> QED BY <2>1
<1>10. walk = [k \in 0..n |-> body(walk, k)]
  <2> HIDE DEF body, fronts
  <2> QED BY <1>9, Zenon
<1>. DEFINE T == {k \in 0..n : walk[k] = front(k)}
<1>11. n \in T
  <2>1. 0 \in T
    <3>1. 0 \in 0..n OBVIOUS
    <3>2. walk[0] = body(walk, 0)
      <4> HIDE DEF walk, body
      <4> QED BY <1>10, <3>1
    <3>3. front(0) = <<>> OBVIOUS
    <3> HIDE DEF walk, front
    <3> QED BY <3>1, <3>2, <3>3
  <2>2. ASSUME NEW k \in 1..n, k - 1 \in T PROVE k \in T
    <3>1. k \in 0..n /\ k # 0 OBVIOUS
    <3>2. walk[k] = body(walk, k)
      <4> HIDE DEF walk, body
      <4> QED BY <1>10, <3>1
    <3>3. walk[k - 1] = front(k - 1) BY <2>2
    <3> HIDE DEF walk, front
    <3>4. body(walk, k) = front(k) BY <1>8, <3>1, <3>3
    <3> QED BY <3>1, <3>2, <3>4
  <2>3. 0..n \subseteq T
    <3> HIDE DEF T
    <3> QED BY <2>1, <2>2, UpTo
  <2>4. n \in 0..n OBVIOUS
  <2> HIDE DEF T
  <2> QED BY <2>3, <2>4
<1>12. Walk(text, n) = walk[n] BY DEF Walk
<1> QED BY <1>5, <1>11, <1>12

(***************************************************************************)
(* Where the arguments are in the text of a call.                          *)
(***************************************************************************)

(* A sequence is a front and the rest.                                     *)
LEMMA FrontAndRest ==
  ASSUME NEW V, NEW s \in Seq(V), NEW m \in 0..Len(s)
  PROVE  /\ SubSeq(s, 1, m) \in Seq(V) /\ SubSeq(s, m + 1, Len(s)) \in Seq(V)
         /\ Len(SubSeq(s, 1, m)) = m /\ \A i \in 1..m : SubSeq(s, 1, m)[i] = s[i]
         /\ s = SubSeq(s, 1, m) \o SubSeq(s, m + 1, Len(s))
<1>. DEFINE n == Len(s)
<1>1. n \in Nat /\ \A i \in 1..n : s[i] \in V BY ElementOfSeq
<1>2. PICK a, b : a = SubSeq(s, 1, m) /\ b = SubSeq(s, m + 1, n) OBVIOUS
<1>3. a \in Seq(V) /\ Len(a) = m /\ \A i \in 1..m : a[i] = s[i] BY <1>1, <1>2
<1>4. b \in Seq(V) /\ Len(b) = n - m /\ \A i \in 1..(n - m) : b[i] = s[m + i] BY <1>1, <1>2
<1>5. PICK c : c = a \o b OBVIOUS
<1>6. /\ c \in Seq(V) /\ Len(c) = m + (n - m)
      /\ \A i \in 1..Len(a) : c[i] = a[i]
      /\ \A i \in 1..Len(b) : c[Len(a) + i] = b[i]
  <2>1. a \in Seq(V) /\ b \in Seq(V) BY <1>3, <1>4
  <2>2. LET d == a \o b
        IN  /\ d \in Seq(V) /\ Len(d) = Len(a) + Len(b)
            /\ \A i \in 1..Len(a) : d[i] = a[i]
            /\ \A i \in 1..Len(b) : d[Len(a) + i] = b[i]
    BY <2>1, ConcatParts
  <2>3. /\ c \in Seq(V) /\ Len(c) = Len(a) + Len(b)
        /\ \A i \in 1..Len(a) : c[i] = a[i]
        /\ \A i \in 1..Len(b) : c[Len(a) + i] = b[i]
    BY <1>5, <2>2
  <2>4. Len(a) = m /\ Len(b) = n - m BY <1>3, <1>4
  <2> QED BY <2>3, <2>4
<1>7. ASSUME NEW i \in 1..n PROVE c[i] = s[i]
  <2>1. CASE i <= m
    <3>1. i \in 1..m BY <2>1
    <3> QED BY <1>3, <1>6, <3>1
  <2>2. CASE i > m
    <3>1. PICK j : j = i - m OBVIOUS
    <3>2. j \in 1..(n - m) /\ m + j = i BY <1>1, <2>2, <3>1
    <3>3. c[m + j] = b[j] BY <1>3, <1>4, <1>6, <3>2
    <3> QED BY <1>4, <3>2, <3>3
  <2> QED BY <1>1, <2>1, <2>2
<1>8. Len(c) = n BY <1>1, <1>6
<1>9. c = s BY <1>6, <1>7, <1>8, SeqEqual
<1> QED BY <1>2, <1>3, <1>4, <1>5, <1>9

(* The arguments before the k-th one have the parts they had.              *)
LEMMA PartsFront ==
  ASSUME NEW texts \in Seq(Seq(Lexeme)), NEW m \in 0..Len(texts)
  PROVE  /\ SubSeq(texts, 1, m) \in Seq(Seq(Lexeme))
         /\ Listed(SubSeq(texts, 1, m)) = FlattenSeq(SubSeq(Parts(texts), 1, m))
<1>1. PICK a : a = SubSeq(texts, 1, m) OBVIOUS
<1>2. a \in Seq(Seq(Lexeme)) /\ Len(a) = m /\ \A i \in 1..m : a[i] = texts[i]
  BY <1>1, FrontAndRest
<1>3. PICK p, q : p = Parts(texts) /\ q = Parts(a) OBVIOUS
<1>4. /\ p \in Seq(Seq(Lexeme)) /\ Len(p) = Len(texts)
      /\ \A i \in 1..Len(texts) : p[i] = (IF i = 1 THEN <<>> ELSE <<Comma, Blank>>) \o texts[i]
  BY <1>3, PartsType
<1>5. /\ Listed(a) = FlattenSeq(q) /\ q \in Seq(Seq(Lexeme)) /\ Len(q) = m
      /\ \A i \in 1..m : q[i] = (IF i = 1 THEN <<>> ELSE <<Comma, Blank>>) \o a[i]
  BY <1>2, <1>3, PartsType
<1>6. PICK r : r = SubSeq(p, 1, m) OBVIOUS
<1>7. r \in Seq(Seq(Lexeme)) /\ Len(r) = m /\ \A i \in 1..m : r[i] = p[i]
  BY <1>4, <1>6, FrontAndRest
<1>8. ASSUME NEW i \in 1..m PROVE q[i] = r[i]
  <2>1. i \in 1..Len(texts) BY <1>4
  <2>2. PICK g : g = IF i = 1 THEN <<>> ELSE <<Comma, Blank>> OBVIOUS
  <2>3. q[i] = g \o a[i] BY <1>5, <2>2
  <2>4. p[i] = g \o texts[i] BY <1>4, <2>1, <2>2
  <2>5. a[i] = texts[i] /\ r[i] = p[i] BY <1>2, <1>7
  <2> QED BY <2>3, <2>4, <2>5
<1>9. q = r BY <1>5, <1>7, <1>8, SeqEqual
<1> QED BY <1>1, <1>2, <1>3, <1>5, <1>6, <1>9

(* The place in front of the k-th argument.                                *)
Before(texts, k) ==
  1 + Len(Listed(SubSeq(texts, 1, k - 1))) + (IF k = 1 THEN 0 ELSE 2)

(* The text of a call is its list between two parentheses. *)
LEMMA CallTextIs ==
  ASSUME NEW texts \in Seq(Seq(Lexeme))
  PROVE  /\ CallText(texts) \in Seq(Lexeme) /\ Listed(texts) \in Seq(Lexeme)
         /\ Len(Listed(texts)) \in Nat /\ Len(CallText(texts)) = Len(Listed(texts)) + 2
         /\ CallText(texts)[1] = "(" /\ CallText(texts)[Len(Listed(texts)) + 2] = ")"
         /\ \A i \in 1..Len(Listed(texts)) : CallText(texts)[1 + i] = Listed(texts)[i]
<1>. DEFINE open == <<"(">>  close == <<")">>
<1>1. PICK l : l = Listed(texts) OBVIOUS
<1>2. l \in Seq(Lexeme) BY <1>1, PartsType
<1>3. open \in Seq(Lexeme) /\ close \in Seq(Lexeme) BY PlainWords, ShortTexts
<1>4. Len(open) = 1 /\ open[1] = "(" /\ Len(close) = 1 /\ close[1] = ")" OBVIOUS
<1>5. CallText(texts) = (open \o l) \o close BY <1>1 DEF CallText, Parenthesized
<1> HIDE DEF open, close
<1>6. PICK f : f = open \o l OBVIOUS
<1>7. /\ f \in Seq(Lexeme) /\ Len(l) \in Nat /\ Len(f) = 1 + Len(l)
      /\ \A i \in 1..1 : f[i] = open[i]
      /\ \A i \in 1..Len(l) : f[1 + i] = l[i]
  <2>1. /\ f \in Seq(Lexeme) /\ Len(l) \in Nat /\ Len(f) = Len(open) + Len(l)
        /\ \A i \in 1..Len(open) : f[i] = open[i]
        /\ \A i \in 1..Len(l) : f[Len(open) + i] = l[i]
    BY <1>2, <1>3, <1>6, ConcatParts
  <2> QED BY <1>4, <2>1
<1>8. PICK t : t = f \o close OBVIOUS
<1>9. /\ t \in Seq(Lexeme) /\ Len(t) = (1 + Len(l)) + 1
      /\ \A i \in 1..(1 + Len(l)) : t[i] = f[i]
      /\ \A i \in 1..1 : t[(1 + Len(l)) + i] = close[i]
  <2>1. /\ t \in Seq(Lexeme) /\ Len(t) = Len(f) + Len(close)
        /\ \A i \in 1..Len(f) : t[i] = f[i]
        /\ \A i \in 1..Len(close) : t[Len(f) + i] = close[i]
    <3>1. f \in Seq(Lexeme) BY <1>7
    <3>2. /\ f \o close \in Seq(Lexeme) /\ Len(f \o close) = Len(f) + Len(close)
          /\ \A i \in 1..Len(f) : (f \o close)[i] = f[i]
          /\ \A i \in 1..Len(close) : (f \o close)[Len(f) + i] = close[i]
      BY <1>3, <3>1, ConcatParts
    <3> QED BY <1>8, <3>2
  <2> QED BY <1>4, <1>7, <2>1
<1>10. Len(t) = Len(l) + 2 BY <1>7, <1>9
<1>11. t[1] = "("
  <2>1. 1 \in 1..(1 + Len(l)) /\ 1 \in 1..1 BY <1>7
  <2> QED BY <1>4, <1>7, <1>9, <2>1
<1>12. t[Len(l) + 2] = ")"
  <2>1. 1 \in 1..1 /\ (1 + Len(l)) + 1 = Len(l) + 2 BY <1>7
  <2>2. t[(1 + Len(l)) + 1] = close[1] BY <1>9, <2>1
  <2> QED BY <1>4, <2>1, <2>2
<1>13. ASSUME NEW i \in 1..Len(l) PROVE t[1 + i] = l[i]
  <2>1. PICK z : z = 1 + i OBVIOUS
  <2>2. z \in 1..(1 + Len(l)) BY <1>7, <2>1
  <2>3. t[z] = f[z] BY <1>9, <2>2
  <2> QED BY <1>7, <2>1, <2>3
<1>14. CallText(texts) = t BY <1>5, <1>6, <1>8
<1> QED BY <1>1, <1>2, <1>7, <1>9, <1>10, <1>11, <1>12, <1>13, <1>14

(* The k-th argument is where it is, and so is what follows.               *)
LEMMA Layout ==
  ASSUME NEW texts \in Seq(Seq(Lexeme)), NEW k \in 1..Len(texts)
  PROVE  LET text == CallText(texts)  o == Before(texts, k)  e == o + Len(texts[k]) + 1 IN
         /\ texts[k] \in Seq(Lexeme)
         /\ o \in Nat /\ o >= 1 /\ Len(texts[k]) \in Nat /\ e <= Len(text)
         /\ \A j \in 1..Len(texts[k]) : text[o + j] = texts[k][j]
         /\ k = Len(texts) => e = Len(text)
         /\ k # Len(texts) => text[e] = Comma /\ Before(texts, k + 1) = e + 1
<1>. DEFINE n == Len(texts)  sep == <<Comma, Blank>>
<1>1. PICK text, p, l, a :
        /\ text = CallText(texts) /\ p = Parts(texts) /\ l = Listed(texts) /\ a = texts[k]
  OBVIOUS
<1>2. a \in Seq(Lexeme) /\ Len(a) \in Nat /\ n \in Nat
  <2>1. a \in Seq(Lexeme) BY <1>1, ElementOfSeq
  <2> QED BY <2>1
<1>3. /\ p \in Seq(Seq(Lexeme)) /\ Len(p) = n /\ l = FlattenSeq(p)
      /\ \A i \in 1..n : p[i] = (IF i = 1 THEN <<>> ELSE sep) \o texts[i]
  BY <1>1, PartsType
<1>4. /\ text \in Seq(Lexeme) /\ l \in Seq(Lexeme) /\ Len(l) \in Nat /\ Len(text) = Len(l) + 2
      /\ text[Len(l) + 2] = ")"
      /\ \A i \in 1..Len(l) : text[1 + i] = l[i]
  BY <1>1, CallTextIs
<1>5. sep \in Seq(Lexeme) /\ Len(sep) = 2 /\ sep[1] = Comma
  <2>1. sep \in Seq(Lexeme) BY SeparatorBalanced
  <2> QED BY <2>1
<1>. DEFINE F(m) == FlattenSeq(SubSeq(p, 1, m))
<1>6. ASSUME NEW m \in 0..n
      PROVE  /\ F(m) = Listed(SubSeq(texts, 1, m)) /\ F(m) \in Seq(Lexeme)
             /\ Len(F(m)) \in Nat /\ Len(F(m)) <= Len(l)
             /\ \A i \in 1..Len(F(m)) : l[i] = F(m)[i]
  <2>1. F(m) = Listed(SubSeq(texts, 1, m)) BY <1>1, PartsFront
  <2>2. PICK r, s : r = SubSeq(p, 1, m) /\ s = SubSeq(p, m + 1, Len(p)) OBVIOUS
  <2>3. r \in Seq(Seq(Lexeme)) /\ s \in Seq(Seq(Lexeme)) /\ p = r \o s
    <3> HIDE DEF n
    <3> QED BY <1>3, <2>2, FrontAndRest
  <2>4. PICK x, y : x = FlattenSeq(r) /\ y = FlattenSeq(s) OBVIOUS
  <2>5. x \in Seq(Lexeme) /\ y \in Seq(Lexeme) BY <2>3, <2>4, FlattenType
  <2>6. l = x \o y BY <1>3, <2>3, <2>4, FlattenConcat
  <2>7. /\ Len(x) \in Nat /\ Len(y) \in Nat /\ Len(l) = Len(x) + Len(y)
        /\ \A i \in 1..Len(x) : l[i] = x[i]
    BY <2>5, <2>6, ConcatParts
  <2>8. F(m) = x BY <2>2, <2>4
  <2> HIDE DEF F
  <2> QED BY <2>1, <2>5, <2>7, <2>8
<1>7. ASSUME NEW m \in 1..n
      PROVE  /\ Len(F(m)) = Len(F(m - 1)) + Len(p[m]) /\ Len(p[m]) \in Nat
             /\ \A i \in 1..Len(p[m]) : l[Len(F(m - 1)) + i] = p[m][i]
  <2>1. m \in 0..n /\ m - 1 \in 0..n OBVIOUS
  <2>2. /\ F(m) = F(m - 1) \o p[m] /\ F(m - 1) \in Seq(Lexeme) /\ p[m] \in Seq(Lexeme)
    <3>1. m \in 1..Len(p) BY <1>3
    <3> QED BY <1>3, <3>1, FlattenFront, ElementOfSeq
  <2>3. PICK x, y, b : x = F(m - 1) /\ y = F(m) /\ b = p[m] OBVIOUS
  <2>4. /\ Len(x) \in Nat /\ Len(b) \in Nat /\ Len(y) = Len(x) + Len(b)
        /\ \A i \in 1..Len(b) : y[Len(x) + i] = b[i]
    <3>1. y = x \o b /\ x \in Seq(Lexeme) /\ b \in Seq(Lexeme)
      <4> HIDE DEF F
      <4> QED BY <2>2, <2>3
    <3> QED BY <3>1, ConcatParts
  <2>5. \A i \in 1..Len(y) : l[i] = y[i] BY <1>6, <2>1, <2>3
  <2>6. ASSUME NEW i \in 1..Len(b) PROVE l[Len(x) + i] = b[i]
    <3>1. PICK z : z = Len(x) + i OBVIOUS
    <3>2. z \in 1..Len(y) BY <2>4, <3>1
    <3> QED BY <2>4, <2>5, <3>1, <3>2
  <2> HIDE DEF F
  <2> QED BY <2>3, <2>4, <2>6
<1>8. F(n) = l
  <2>1. SubSeq(p, 1, n) = p BY <1>3, SubSeqFull
  <2> QED BY <1>3, <2>1
<1>. DEFINE gap(m) == IF m = 1 THEN 0 ELSE 2
<1>9. ASSUME NEW m \in 1..n
      PROVE  /\ Before(texts, m) = 1 + Len(F(m - 1)) + gap(m)
             /\ Len(F(m - 1)) \in Nat /\ m - 1 \in 0..n
  <2>1. m - 1 \in 0..n OBVIOUS
  <2>2. F(m - 1) = Listed(SubSeq(texts, 1, m - 1)) /\ Len(F(m - 1)) \in Nat BY <1>6, <2>1
  <2> HIDE DEF F
  <2> QED BY <2>1, <2>2 DEF Before
<1>10. /\ Len(p[k]) = gap(k) + Len(a)
       /\ \A j \in 1..Len(a) : p[k][gap(k) + j] = a[j]
  <2>1. p[k] = (IF k = 1 THEN <<>> ELSE sep) \o a BY <1>1, <1>3
  <2>2. PICK g : g = IF k = 1 THEN <<>> ELSE sep OBVIOUS
  <2>3. g \in Seq(Lexeme) /\ Len(g) = gap(k)
    <3>1. <<>> \in Seq(Lexeme) /\ Len(<<>>) = 0 OBVIOUS
    <3> HIDE DEF sep
    <3>2. CASE k = 1
      <4>1. g = <<>> /\ gap(k) = 0 BY <2>2, <3>2
      <4> QED BY <3>1, <4>1
    <3>3. CASE k # 1
      <4>1. g = sep /\ gap(k) = 2 BY <2>2, <3>3
      <4> QED BY <1>5, <4>1
    <3> QED BY <3>2, <3>3
  <2> HIDE DEF sep, gap
  <2>4. /\ Len(g \o a) = Len(g) + Len(a)
        /\ \A j \in 1..Len(a) : (g \o a)[Len(g) + j] = a[j]
    <3>1. a \in Seq(Lexeme) /\ g \in Seq(Lexeme) BY <1>2, <2>3
    <3> QED BY ONLY <3>1, ConcatParts
  <2>5. p[k] = g \o a BY <2>1, <2>2
  <2> QED BY <2>3, <2>4, <2>5
<1>11. PICK o, f : o = Before(texts, k) /\ f = Len(F(k - 1)) OBVIOUS
<1>12. /\ o = 1 + f + gap(k) /\ f \in Nat /\ gap(k) \in Nat /\ o \in Nat /\ o >= 1
  <2>1. gap(k) \in Nat OBVIOUS
  <2>2. o = 1 + f + gap(k) /\ f \in Nat
    <3> HIDE DEF F, gap
    <3> QED BY <1>9, <1>11
  <2> HIDE DEF gap
  <2> QED BY <2>1, <2>2
<1>13. /\ Len(F(k)) = f + gap(k) + Len(a) /\ Len(F(k)) <= Len(l) /\ Len(F(k)) \in Nat
  <2>1. Len(F(k)) = f + Len(p[k])
    <3> HIDE DEF F
    <3> QED BY <1>7, <1>11
  <2>2. k \in 0..n BY <1>2
  <2>3. Len(F(k)) <= Len(l) /\ Len(F(k)) \in Nat BY <1>6, <2>2
  <2> HIDE DEF F, gap
  <2> QED BY <1>2, <1>10, <1>12, <2>1, <2>3
<1>14. PICK e : e = o + Len(a) + 1 OBVIOUS
<1>15. e = Len(F(k)) + 2 /\ e <= Len(text)
  <2>1. PICK x, g, b : x = Len(F(k)) /\ g = gap(k) /\ b = Len(a) OBVIOUS
  <2>2. o = 1 + f + g /\ x = f + g + b /\ e = o + b + 1 /\ x <= Len(l)
    <3> HIDE DEF F, gap
    <3> QED BY <1>12, <1>13, <1>14, <2>1
  <2>3. f \in Nat /\ g \in Nat /\ b \in Nat
    <3> HIDE DEF F, gap
    <3> QED BY <1>2, <1>12, <2>1
  <2>4. e = x + 2 /\ e <= Len(text) BY <1>4, <2>2, <2>3
  <2> HIDE DEF F
  <2> QED BY <2>1, <2>4
<1>16. ASSUME NEW j \in 1..Len(a) PROVE text[o + j] = a[j]
  <2>1. PICK z : z = gap(k) + j OBVIOUS
  <2>2. z \in 1..Len(p[k]) /\ p[k][z] = a[j]
    <3> HIDE DEF gap
    <3>1. PICK g, b : g = gap(k) /\ b = Len(a) OBVIOUS
    <3>2. g \in Nat /\ b \in Nat /\ j \in 1..b /\ z = g + j BY <1>2, <1>12, <2>1, <3>1
    <3>3. Len(p[k]) = g + b BY <1>10, <3>1
    <3>4. z \in 1..(g + b) BY <3>2
    <3>5. p[k][gap(k) + j] = a[j] BY <1>10
    <3> QED BY <2>1, <3>3, <3>4, <3>5
  <2>3. l[f + z] = p[k][z]
    <3> HIDE DEF F
    <3> QED BY <1>7, <1>11, <2>2
  <2>4. PICK y : y = f + z OBVIOUS
  <2>5. y \in 1..Len(l) /\ 1 + y = o + j
    <3>1. PICK x, g, b : x = Len(F(k)) /\ g = gap(k) /\ b = Len(a) OBVIOUS
    <3>2. o = 1 + f + g /\ x = f + g + b /\ x <= Len(l) /\ z = g + j /\ j \in 1..b
      <4> HIDE DEF F, gap
      <4> QED BY <1>12, <1>13, <2>1, <3>1
    <3>3. f \in Nat /\ g \in Nat /\ b \in Nat
      <4> HIDE DEF F, gap
      <4> QED BY <1>2, <1>12, <3>1
    <3> QED BY <1>4, <2>4, <3>2, <3>3
  <2>6. text[1 + y] = l[y] BY <1>4, <2>5
  <2> QED BY <2>2, <2>3, <2>4, <2>5, <2>6
<1>17. ASSUME k = n PROVE e = Len(text)
  <2>1. F(k) = l BY <1>8, <1>17
  <2> HIDE DEF F
  <2> QED BY <1>4, <1>15, <2>1
<1>18. ASSUME k # n PROVE text[e] = Comma /\ Before(texts, k + 1) = e + 1
  <2>1. PICK m : m = k + 1 OBVIOUS
  <2>2. m \in 1..n /\ m - 1 = k /\ m # 1 BY <1>2, <1>18, <2>1
  <2>3. gap(m) = 2 BY <2>2
  <2>4. Before(texts, m) = 1 + Len(F(k)) + 2
    <3> HIDE DEF F, gap
    <3> QED BY <1>9, <2>2, <2>3
  <2>5. PICK fk : fk = Len(F(k)) OBVIOUS
  <2>6. fk \in Nat /\ e = fk + 2
    <3> HIDE DEF F
    <3> QED BY <1>13, <1>15, <2>5
  <2>7. Before(texts, k + 1) = e + 1
    <3> HIDE DEF F
    <3> QED BY <2>1, <2>4, <2>5, <2>6
  <2>8. p[m] = sep \o texts[m] /\ texts[m] \in Seq(Lexeme) BY <1>3, <2>2, ElementOfSeq
  <2>9. /\ Len(p[m]) = 2 + Len(texts[m]) /\ Len(texts[m]) \in Nat
        /\ p[m][1] = Comma
    <3> HIDE DEF sep
    <3>1. PICK c : c = texts[m] OBVIOUS
    <3>2. /\ Len(sep \o c) = Len(sep) + Len(c) /\ Len(c) \in Nat
          /\ \A i \in 1..Len(sep) : (sep \o c)[i] = sep[i]
      <4>1. sep \in Seq(Lexeme) /\ c \in Seq(Lexeme) BY <1>5, <2>8, <3>1
      <4> QED BY ONLY <4>1, ConcatParts
    <3>3. 1 \in 1..Len(sep) BY <1>5
    <3> QED BY <1>5, <2>8, <3>1, <3>2, <3>3
  <2>10. PICK pm, tm : pm = Len(p[m]) /\ tm = Len(texts[m]) OBVIOUS
  <2>11. 1 \in 1..Len(p[m]) BY <2>9, <2>10
  <2>12. l[Len(F(k)) + 1] = Comma /\ Len(F(m)) = Len(F(k)) + Len(p[m])
    <3>1. \A i \in 1..Len(p[m]) : l[Len(F(m - 1)) + i] = p[m][i]
      <4> HIDE DEF F
      <4> QED BY <1>7, <2>2
    <3>2. Len(F(m)) = Len(F(m - 1)) + Len(p[m])
      <4> HIDE DEF F
      <4> QED BY <1>7, <2>2
    <3>3. l[Len(F(m - 1)) + 1] = p[m][1] BY <2>11, <3>1
    <3> HIDE DEF F
    <3> QED BY <2>2, <2>9, <3>2, <3>3
  <2>13. fk + 1 \in 1..Len(l)
    <3>1. m \in 0..n BY <2>2
    <3>2. Len(F(m)) <= Len(l) BY <1>6, <3>1
    <3> HIDE DEF F
    <3>3. fk + pm <= Len(l) BY <2>5, <2>10, <2>12, <3>2
    <3>4. pm = 2 + tm /\ tm \in Nat BY <2>9, <2>10
    <3> QED BY <1>4, <2>6, <3>3, <3>4
  <2>14. PICK y : y = fk + 1 OBVIOUS
  <2>15. text[1 + y] = l[y] /\ l[y] = Comma
    <3> HIDE DEF F
    <3> QED BY <1>4, <2>5, <2>12, <2>13, <2>14
  <2>16. 1 + y = e BY <2>6, <2>14
  <2> QED BY <2>7, <2>15, <2>16
<1> HIDE DEF F, gap
<1> QED BY <1>1, <1>2, <1>11, <1>12, <1>14, <1>15, <1>16, <1>17, <1>18

(* Texts of arguments that can be told apart.                              *)
Apart(texts) ==
  /\ texts \in Seq(Seq(Lexeme)) /\ \A k \in 1..Len(texts) : Splittable(texts[k])
  /\ texts # <<>> => texts[Len(texts)] # <<>>

(* A text that can be split does not begin with a closing parenthesis.     *)
LEMMA FirstIsNoEnd ==
  ASSUME NEW a \in Seq(Lexeme), Splittable(a), a # <<>>
  PROVE  a[1] # ")"
<1>1. SUFFICES ASSUME a[1] = ")" PROVE FALSE OBVIOUS
<1>2. Balanced(a) BY SplittableIs
<1>3. 1 \in 0..Len(a) OBVIOUS
<1>4. Depth(a, 1, 1 + 1) >= 0 BY <1>2, <1>3, BalancedDepth
<1>5. Depth(a, 1, 1 + 1) = Depth(a, 1, 1) + Turn(a[1]) /\ Depth(a, 1, 1) = 0
  <2>1. 1 \in Int /\ 1 <= 1 OBVIOUS
  <2> QED BY <2>1, DepthStep, DepthStart
<1>6. Turn(a[1]) = -1 BY <1>1 DEF Turn
<1>7. PICK d : d = Depth(a, 1, 1 + 1) OBVIOUS
<1> QED BY <1>4, <1>5, <1>6, <1>7

(* A list of no texts is empty. *)
LEMMA NothingListed == Listed(<<>>) = <<>>
<1>1. \A g : [i \in DOMAIN <<>> |-> g] = <<>> OBVIOUS
<1>2. <<>> \in Seq(Seq(Lexeme)) /\ Len(<<>>) = 0 OBVIOUS
<1>3. Parts(<<>>) \in Seq(Seq(Lexeme)) /\ Len(Parts(<<>>)) = 0 BY <1>2, PartsType
<1>4. Parts(<<>>) = <<>> BY <1>3
<1>5. Listed(<<>>) = FlattenSeq(Parts(<<>>)) BY <1>2, PartsType
<1> QED BY <1>4, <1>5, FlattenEmpty

(* Before the first argument there is only the parenthesis. *)
LEMMA BeforeFirst ==
  ASSUME NEW texts \in Seq(Seq(Lexeme))
  PROVE  Before(texts, 1) = 1
<1>1. SubSeq(texts, 1, 1 - 1) = <<>> BY SubSeqEmpty
<1>2. Listed(SubSeq(texts, 1, 1 - 1)) = <<>> BY <1>1, NothingListed
<1>3. Len(Listed(SubSeq(texts, 1, 1 - 1))) = 0 BY <1>2
<1> QED BY <1>3 DEF Before

(* What get_next_arg returns of the k-th argument.                         *)
Found(texts, k) ==
  [ptr |-> Before(texts, k) + 1,
   offset |-> IF k = Len(texts) THEN Len(CallText(texts)) ELSE Before(texts, k + 1) + 1]

(* The answer of get_next_arg when there is no argument. *)
NothingFound == [ptr |-> 0, offset |-> 0]

(* Called where the loop is before the k-th argument, get_next_arg finds   *)
(* the k-th argument.                                                      *)
LEMMA NextArgInCall ==
  ASSUME NEW texts, Apart(texts), NEW k \in 1..Len(texts)
  PROVE  get_next_arg(CallText(texts), IF k = 1 THEN 1 ELSE Before(texts, k) + 1)
           = Found(texts, k)
<1>1. PICK text, o, a, n :
        text = CallText(texts) /\ o = Before(texts, k) /\ a = texts[k] /\ n = Len(texts)
  OBVIOUS
<1>2. /\ texts \in Seq(Seq(Lexeme)) /\ n \in Nat /\ Splittable(a)
      /\ k = n => a # <<>>
  BY <1>1 DEF Apart
<1>3. text \in Seq(Lexeme) /\ Len(text) \in Nat BY <1>1, <1>2, CallTextIs
<1>4. text[Len(text)] = ")"
  <2>1. /\ Len(CallText(texts)) = Len(Listed(texts)) + 2
        /\ CallText(texts)[Len(Listed(texts)) + 2] = ")"
    BY <1>2, CallTextIs
  <2> QED BY <1>1, <2>1
<1>5. PICK e : e = o + Len(a) + 1 OBVIOUS
<1>6. /\ a \in Seq(Lexeme) /\ o \in Nat /\ o >= 1 /\ Len(a) \in Nat /\ e <= Len(text)
      /\ \A j \in 1..Len(a) : text[o + j] = a[j]
      /\ k = n => e = Len(text)
      /\ k # n => text[e] = Comma /\ Before(texts, k + 1) = e + 1
  <2> QED BY <1>1, <1>2, <1>5, Layout
<1>7. text[e] \in {Comma, ")"} /\ e \in Nat BY <1>4, <1>5, <1>6
<1>8. PICK p : p = o + 1 OBVIOUS
<1>9. EndOfArg(text, p) = e
  <2>1. /\ o + Len(a) + 1 <= Len(text)
        /\ text[o + Len(a) + 1] \in {Comma, ")"}
    BY <1>5, <1>6, <1>7
  <2>2. EndOfArg(text, o + 1) = o + Len(a) + 1 BY <1>2, <1>3, <1>6, <2>1, EndOfArgFinds
  <2> QED BY <1>5, <1>8, <2>2
<1>10. p \in Nat /\ p >= 2 /\ p <= e /\ p <= Len(text) BY <1>3, <1>5, <1>6, <1>8
<1>11. text[p] # ")"
  <2>1. CASE a = <<>>
    <3>1. e = p BY <1>5, <1>6, <1>8, <2>1
    <3>2. text[e] = Comma BY <1>2, <1>6, <2>1
    <3> QED BY <3>1, <3>2, CommaApart
  <2>2. CASE a # <<>>
    <3>1. 1 \in 1..Len(a) BY <1>6, <2>2
    <3>2. text[p] = a[1] BY <1>6, <1>8, <3>1
    <3> QED BY <1>2, <1>6, <2>2, <3>2, FirstIsNoEnd
  <2> QED BY <2>1, <2>2
<1>12. PICK next : next = IF k = n THEN Len(text) ELSE Before(texts, k + 1) + 1 OBVIOUS
<1>13. AfterArg(text, e) = next
  <2>1. CASE k = n
    <3>1. text[e] # Comma BY <1>4, <1>6, <2>1, CommaApart
    <3>2. next = e BY <1>6, <1>12, <2>1
    <3> QED BY <3>1, <3>2 DEF AfterArg
  <2>2. CASE k # n
    <3>1. text[e] = Comma /\ e <= Len(text) /\ next = e + 2 BY <1>6, <1>7, <1>12, <2>2
    <3> QED BY <3>1 DEF AfterArg
  <2> QED BY <2>1, <2>2
<1>14. PICK offset : offset = IF k = 1 THEN 1 ELSE p OBVIOUS
<1>15. (IF offset = 1 THEN 2 ELSE offset) = p /\ offset # 0
  <2>1. CASE k = 1
    <3>1. p = 2 BY <1>1, <1>2, <1>8, <2>1, BeforeFirst
    <3> QED BY <1>14, <2>1, <3>1
  <2>2. CASE k # 1 BY <1>10, <1>14, <2>2
  <2> QED BY <2>1, <2>2
<1>16. get_next_arg(text, offset)
         = IF offset = 0 \/ p > Len(text) \/ text[p] = ")"
           THEN [ptr |-> 0, offset |-> 0]
           ELSE [ptr |-> p, offset |-> AfterArg(text, EndOfArg(text, p))]
  BY <1>15 DEF get_next_arg
<1>17. get_next_arg(text, offset) = [ptr |-> p, offset |-> next]
  BY <1>3, <1>9, <1>10, <1>11, <1>13, <1>15, <1>16
<1>18. Found(texts, k) = [ptr |-> p, offset |-> next] BY <1>1, <1>8, <1>12 DEF Found
<1>19. (IF k = 1 THEN 1 ELSE Before(texts, k) + 1) = offset BY <1>1, <1>8, <1>14
<1> QED BY <1>1, <1>17, <1>18, <1>19

(* Behind the last argument there is none.                                 *)
LEMMA NothingBehind ==
  ASSUME NEW texts \in Seq(Seq(Lexeme))
  PROVE  /\ get_next_arg(CallText(texts), IF texts = <<>> THEN 1 ELSE Len(CallText(texts)))
              = NothingFound
         /\ get_next_arg(CallText(texts), 0) = NothingFound
<1>1. PICK text : text = CallText(texts) OBVIOUS
<1>2. /\ Len(text) \in Nat /\ Len(text) >= 2 /\ text[Len(text)] = ")"
      /\ texts = <<>> => Len(text) = 2
  <2>1. PICK l : l = Listed(texts) OBVIOUS
  <2>2. Len(l) \in Nat /\ Len(text) = Len(l) + 2 /\ text[Len(l) + 2] = ")"
    BY <1>1, <2>1, CallTextIs
  <2>3. ASSUME texts = <<>> PROVE Len(l) = 0
    <3>1. l = <<>> BY <2>1, <2>3, NothingListed
    <3> QED BY <3>1
  <2> QED BY <2>2, <2>3
<1>3. PICK offset : offset = IF texts = <<>> THEN 1 ELSE Len(text) OBVIOUS
<1>4. (IF offset = 1 THEN 2 ELSE offset) = Len(text) BY <1>2, <1>3
<1>5. get_next_arg(text, offset) = NothingFound BY <1>2, <1>4 DEF get_next_arg, NothingFound
<1>6. get_next_arg(text, 0) = NothingFound BY DEF get_next_arg, NothingFound
<1> QED BY <1>1, <1>3, <1>5, <1>6

(* So that the loop finds each argument, and then none.                    *)
LEMMA WalkInCall ==
  ASSUME NEW texts, Apart(texts), NEW m \in Nat, NEW f, Walks(f, CallText(texts), m)
  PROVE  \A k \in 1..m : f[k] = IF k <= Len(texts) THEN Found(texts, k) ELSE NothingFound
<1>1. PICK text, n : text = CallText(texts) /\ n = Len(texts) OBVIOUS
<1>2. texts \in Seq(Seq(Lexeme)) /\ n \in Nat BY <1>1 DEF Apart
<1>3. /\ f[0].offset = 1
      /\ \A i \in 1..m : f[i] = get_next_arg(text, f[i - 1].offset)
  BY <1>1 DEF Walks
<1>. DEFINE Right(k) == f[k] = IF k <= n THEN Found(texts, k) ELSE NothingFound
            T == {k \in 0..m : k = 0 \/ Right(k)}
<1>4. 0 \in T OBVIOUS
<1>5. ASSUME NEW k \in 1..m, k - 1 \in T PROVE k \in T
  <2>1. PICK b : b = k - 1 OBVIOUS
  <2>2. b \in 0..m /\ (b = 0 \/ Right(b)) /\ b + 1 = k BY <1>5, <2>1
  <2>3. f[k] = get_next_arg(text, f[b].offset) BY <1>3, <2>1
  <2>4. CASE k <= n
    <3>1. k \in 1..n BY <2>4
    <3>2. f[b].offset = IF k = 1 THEN 1 ELSE Before(texts, k) + 1
      <4>1. CASE b = 0 BY <1>3, <2>1, <4>1
      <4>2. CASE b # 0
        <5>1. b <= n /\ b # n /\ k # 1 BY <1>2, <2>2, <2>4, <4>2
        <5>2. f[b] = Found(texts, b) BY <2>2, <4>2, <5>1
        <5>3. Found(texts, b).offset = Before(texts, k) + 1 BY <1>1, <2>2, <5>1 DEF Found
        <5> QED BY <5>1, <5>2, <5>3
      <4> QED BY <4>1, <4>2
    <3>3. f[k] = Found(texts, k)
      <4>1. get_next_arg(text, IF k = 1 THEN 1 ELSE Before(texts, k) + 1) = Found(texts, k)
        BY <1>1, <3>1, NextArgInCall
      <4> QED BY <2>3, <3>2, <4>1
    <3> QED BY <2>4, <3>3
  <2>5. CASE ~(k <= n)
    <3>1. f[k] = NothingFound
      <4>1. /\ get_next_arg(text, IF texts = <<>> THEN 1 ELSE Len(text)) = NothingFound
            /\ get_next_arg(text, 0) = NothingFound
        BY <1>1, <1>2, NothingBehind
      <4>2. CASE b = 0
        <5>1. n = 0 BY <1>2, <2>2, <2>5, <4>2
        <5>2. texts = <<>>
          <6>1. Len(texts) = 0 BY <1>1, <5>1
          <6> QED BY ONLY <1>2, <6>1
        <5> QED BY <1>3, <2>3, <4>1, <4>2, <5>2
      <4>3. CASE b # 0 /\ b = n
        <5>1. f[b] = Found(texts, b) BY <1>2, <2>2, <4>3
        <5>2. f[b].offset = Len(text) BY <1>1, <4>3, <5>1 DEF Found
        <5>3. texts # <<>> BY <1>1, <1>2, <2>2, <4>3
        <5> QED BY <2>3, <4>1, <5>2, <5>3
      <4>4. CASE b # 0 /\ b # n
        <5>1. ~(b <= n) BY <1>2, <2>2, <2>5, <4>4
        <5>2. f[b] = NothingFound BY <2>2, <4>4, <5>1
        <5>3. f[b].offset = 0 BY <5>2 DEF NothingFound
        <5> QED BY <2>3, <4>1, <5>3
      <4> QED BY <4>2, <4>3, <4>4
    <3> QED BY <2>5, <3>1
  <2> QED BY <2>4, <2>5
<1>6. 0..m \subseteq T
  <2> HIDE DEF T
  <2> QED BY <1>4, <1>5, UpTo
<1>7. ASSUME NEW k \in 1..m PROVE Right(k)
  <2>1. k \in T /\ k # 0 BY <1>6
  <2> HIDE DEF Right
  <2> QED BY <2>1
<1> QED BY <1>1, <1>7

(* There is room for as many steps as the loop takes.                      *)
LEMMA RoomToWalk ==
  ASSUME NEW texts \in Seq(Seq(Lexeme))
  PROVE  Len(texts) + 1 <= Len(CallText(texts))
<1>1. PICK n, t : n = Len(texts) /\ t = Len(CallText(texts)) OBVIOUS
<1>2. n \in Nat /\ t \in Nat /\ t >= 2
  <2>1. Len(Listed(texts)) \in Nat /\ t = Len(Listed(texts)) + 2 BY <1>1, CallTextIs
  <2> QED BY <1>1, <2>1
<1>. DEFINE T == {k \in 0..n : k = 0 \/ Before(texts, k) >= k}
<1>3. 0 \in T BY <1>2
<1>4. ASSUME NEW k \in 1..n, k - 1 \in T PROVE k \in T
  <2>1. CASE k = 1
    <3>1. Before(texts, 1) = 1 BY BeforeFirst
    <3> QED BY <2>1, <3>1
  <2>2. CASE k # 1
    <3>1. PICK b : b = k - 1 OBVIOUS
    <3>2. b \in 1..n /\ b # n /\ b + 1 = k BY <1>2, <2>2, <3>1
    <3>3. Before(texts, b) >= b BY <1>4, <3>1, <3>2
    <3>4. PICK o, l : o = Before(texts, b) /\ l = Len(texts[b]) OBVIOUS
    <3>5. /\ o \in Nat /\ l \in Nat
          /\ Before(texts, b + 1) = (o + l + 1) + 1
      BY <1>1, <3>2, <3>4, Layout
    <3>6. Before(texts, k) = o + l + 2 BY <3>2, <3>5
    <3>7. Before(texts, k) >= k BY <3>2, <3>3, <3>4, <3>5, <3>6
    <3> QED BY <3>7
  <2> QED BY <2>1, <2>2
<1>5. 0..n \subseteq T
  <2> HIDE DEF T
  <2> QED BY <1>2, <1>3, <1>4, UpTo
<1>6. CASE n = 0 BY <1>1, <1>2, <1>6
<1>7. CASE n # 0
  <2>1. n \in 1..n /\ n \in 0..n BY <1>2, <1>7
  <2>2. Before(texts, n) >= n BY <1>5, <1>7, <2>1
  <2>3. PICK o, l : o = Before(texts, n) /\ l = Len(texts[n]) OBVIOUS
  <2>4. o \in Nat /\ l \in Nat /\ o + l + 1 <= t BY <1>1, <2>1, <2>3, Layout
  <2> QED BY <1>1, <1>2, <2>2, <2>3, <2>4
<1> QED BY <1>6, <1>7

(***************************************************************************)
(* The numbers of constants.                                               *)
(***************************************************************************)
LEMMA DivMod ==
  ASSUME NEW a \in Int, NEW b \in Nat \ {0}
  PROVE  a % b \in 0..(b - 1) /\ a \div b \in Int /\ a = b * (a \div b) + (a % b)
OBVIOUS

(* Quotient and remainder are unique. *)
LEMMA DivUnique ==
  ASSUME NEW b \in Nat \ {0}, NEW q \in Int, NEW p \in Int,
         NEW r \in 0..(b - 1), NEW s \in 0..(b - 1), b * q + r = b * p + s
  PROVE  q = p /\ r = s
OBVIOUS

(* A quotient below a bound. *)
LEMMA DivBelow ==
  ASSUME NEW b \in Nat \ {0}, NEW q \in Int, NEW p \in Int, NEW r \in Nat, b * q + r < b * p
  PROVE  q < p
OBVIOUS

(* A quotient above one. *)
LEMMA DivFrom ==
  ASSUME NEW b \in Nat \ {0}, NEW q \in Int, NEW p \in Int, NEW r \in 0..(b - 1),
         b * p <= b * q + r
  PROVE  p <= q
OBVIOUS

(* The remainder of a number that fits, *)
LEMMA ModSmall ==
  ASSUME NEW b \in Nat \ {0}, NEW a \in Int, 0 <= a, a < b
  PROVE  a % b = a
OBVIOUS

(* and of a negative one that does. *)
LEMMA ModNegative ==
  ASSUME NEW b \in Nat \ {0}, NEW a \in Int, -b <= a, a < 0
  PROVE  a % b = a + b
OBVIOUS

(* A signed word is the number it was made from.                           *)
LEMMA SignedWord ==
  ASSUME NEW q \in Int, -(Word \div 2) <= q, q < Word \div 2
  PROVE  Signed(q % Word) = q
<1>. DEFINE h == Word \div 2
<1>1. Word \in Nat \ {0} /\ h \in Nat /\ Word = h + h
  <2>1. Word \in Nat \ {0} /\ Word % 2 = 0 BY WordAssumption
  <2> QED BY <2>1
<1>2. -h <= q /\ q < h OBVIOUS
<1>3. PICK w : w = q % Word OBVIOUS
<1>4. Signed(w) = IF w < h THEN w ELSE w - Word BY DEF Signed
<1> HIDE DEF h
<1>5. CASE 0 <= q
  <2>1. q < Word BY <1>1, <1>2
  <2>2. w = q BY <1>1, <1>3, <1>5, <2>1, ModSmall
  <2> QED BY <1>2, <1>3, <1>4, <2>2
<1>6. CASE q < 0
  <2>1. -Word <= q BY <1>1, <1>2
  <2>2. w = q + Word BY <1>1, <1>3, <1>6, <2>1, ModNegative
  <2>3. ~(w < h) /\ w - Word = q BY <1>1, <1>2, <2>2
  <2> QED BY <1>3, <1>4, <2>3
<1> QED BY <1>5, <1>6

(* What __get_int_cst makes of a constant is the constant.                 *)
LEMMA IntCstRight ==
  ASSUME NEW c \in Constants, ~Misprinted(c)
  PROVE  __get_int_cst(c) = c.value
<1>. DEFINE h == Word \div 2
<1>1. Word \in Nat \ {0} /\ h \in Nat /\ Word = h + h /\ h > 0
  <2>1. Word \in Nat \ {0} /\ Word % 2 = 0 BY WordAssumption
  <2> QED BY <2>1
<1>2. PICK v, u, p, wide :
        v = c.value /\ u = c.type.unsigned /\ p = c.type.pointer /\ wide = c.wide
  OBVIOUS
<1>3. v \in Int /\ u \in BOOLEAN /\ p \in BOOLEAN /\ wide \in BOOLEAN
  BY <1>2 DEF Constants
<1>4. v \in Values(u) BY <1>2 DEF Constants
<1>5. PICK low, high, q :
        low = Low(c) /\ high = High(c) /\ q = v \div Word
  OBVIOUS
<1>6. low \in 0..(Word - 1) /\ q \in Int /\ v = Word * q + low
  BY <1>1, <1>2, <1>3, <1>5, DivMod DEF Low
<1>7. high = Signed(q % Word) BY <1>2, <1>5 DEF High
<1>8. __get_int_cst(c)
        = LET one == IF u THEN low ELSE Signed(low)
              two == high * Word + low IN
          IF p THEN Signed(low)
          ELSE IF wide \/ high = 0 \/ (high = -1 /\ ~u) THEN one
          ELSE IF u THEN two % (Word * Word) ELSE two
  BY <1>2, <1>5 DEF __get_int_cst
<1>9. (wide \/ p \/ (~u /\ high \in {0, -1})) => v \in OneWord(c.type)
  BY <1>2, <1>5 DEF Misprinted
<1>10. OneWord(c.type) = IF u /\ ~p THEN 0..(Word - 1) ELSE (-h)..(h - 1)
  BY <1>2 DEF OneWord
<1>11. low = v % Word BY <1>2, <1>5 DEF Low
<1>12. ASSUME v \in (-h)..(h - 1) PROVE Signed(low) = v
  <2>1. -h <= v /\ v < h
    <3> HIDE DEF h
    <3> QED BY <1>1, <1>12
  <2> QED BY <1>3, <1>11, <2>1, SignedWord
<1>13. ASSUME v \in 0..(Word - 1) PROVE low = v
  <2>1. 0 <= v /\ v < Word BY <1>1, <1>13
  <2> QED BY <1>1, <1>3, <1>11, <2>1, ModSmall
<1>14. Values(u) = IF u THEN 0..(Word * Word - 1) ELSE (-(Word * h))..(Word * h - 1)
  BY DEF Values
<1> HIDE DEF h
<1>15. CASE p
  <2>1. v \in (-h)..(h - 1) BY <1>9, <1>10, <1>15
  <2> QED BY <1>2, <1>8, <1>12, <1>15, <2>1
<1>16. CASE ~p /\ wide
  <2>1. CASE u
    <3>1. low = v BY <1>9, <1>10, <1>13, <1>16, <2>1
    <3> QED BY <1>2, <1>8, <1>16, <2>1, <3>1
  <2>2. CASE ~u
    <3>1. Signed(low) = v BY <1>9, <1>10, <1>12, <1>16, <2>2
    <3> QED BY <1>2, <1>8, <1>16, <2>2, <3>1
  <2> QED BY <2>1, <2>2
<1>17. CASE ~p /\ ~wide /\ ~u
  <2>1. CASE high \in {0, -1}
    <3>1. Signed(low) = v BY <1>9, <1>10, <1>12, <1>17, <2>1
    <3> QED BY <1>2, <1>8, <1>17, <2>1, <3>1
  <2>2. CASE high \notin {0, -1}
    <3>1. v \in (-(Word * h))..(Word * h - 1) BY <1>4, <1>14, <1>17
    <3>2. Word * h \in Int /\ Word * q \in Int /\ Word * (-h) \in Int /\ Word * (-h) = -(Word * h)
      BY <1>1, <1>6
    <3>3. Word * (-h) <= Word * q + low /\ Word * q + low < Word * h BY <1>6, <3>1, <3>2
    <3>4. -h \in Int /\ h \in Int /\ low \in Nat BY <1>1, <1>6
    <3>5. -h <= q /\ q < h BY <1>1, <1>6, <3>3, <3>4, DivFrom, DivBelow
    <3>6. high = q BY <1>6, <1>7, <3>5, SignedWord DEF h
    <3>7. high * Word + low = v BY <1>1, <1>6, <3>6
    <3> QED BY <1>2, <1>8, <1>17, <2>2, <3>7
  <2> QED BY <2>1, <2>2
<1>18. CASE ~p /\ ~wide /\ u
  <2>1. v \in 0..(Word * Word - 1) BY <1>4, <1>14, <1>18
  <2>2. Word * 0 <= Word * q + low /\ Word * q + low < Word * Word BY <1>1, <1>6, <2>1
  <2>3. 0 \in Int /\ Word \in Int /\ low \in Nat BY <1>1, <1>6
  <2>4. 0 <= q /\ q < Word BY <1>1, <1>6, <2>2, <2>3, DivFrom, DivBelow
  <2>5. q % Word = q BY <1>1, <1>6, <2>4, ModSmall
  <2>6. high = IF q < h THEN q ELSE q - Word BY <1>7, <2>5 DEF Signed, h
  <2>7. CASE high = 0
    <3>1. q = 0 BY <1>1, <1>6, <2>4, <2>6, <2>7
    <3>2. v = low BY <1>1, <1>6, <3>1
    <3> QED BY <1>2, <1>8, <1>18, <2>7, <3>2
  <2>8. CASE high # 0
    <3>1. PICK two, sq : two = high * Word + low /\ sq = Word * Word OBVIOUS
    <3>2. sq \in Nat \ {0} /\ 0 <= v /\ v < sq BY <1>1, <2>1, <3>1
    <3>3. two % sq = v
      <4>1. CASE q < h
        <5>1. two = v BY <1>1, <1>6, <2>6, <3>1, <4>1
        <5> QED BY <1>3, <3>2, <5>1, ModSmall
      <4>2. CASE ~(q < h)
        <5>1. two = (q - Word) * Word + low BY <2>6, <3>1, <4>2
        <5>2. two = v - sq BY <1>1, <1>6, <3>1, <5>1
        <5>3. two \in Int /\ -sq <= two /\ two < 0 BY <1>3, <3>2, <5>2
        <5>4. two % sq = two + sq BY <3>2, <5>3, ModNegative
        <5> QED BY <1>3, <3>2, <5>2, <5>4
      <4> QED BY <4>1, <4>2
    <3>4. __get_int_cst(c) = two % sq BY <1>8, <1>18, <2>8, <3>1
    <3> QED BY <1>2, <3>3, <3>4
  <2> QED BY <2>7, <2>8
<1> QED BY <1>3, <1>15, <1>16, <1>17, <1>18

(* A numeral has the digits of one number.                                 *)
LEMMA NumeralRead ==
  ASSUME NEW n \in DOMAIN Digits
  PROVE  Digits[n] \in Numerals /\ NumberIn(Digits[n]) = n
<1>1. Digits[n] \in Numerals BY DEF Numerals
<1>2. \A m \in DOMAIN Digits : Digits[m] = Digits[n] => m = n BY WordsAssumption
<1>3. PICK s : s = NumberIn(Digits[n]) OBVIOUS
<1>4. s = CHOOSE m \in DOMAIN Digits : Digits[m] = Digits[n] BY <1>3 DEF NumberIn
<1>5. s \in DOMAIN Digits /\ Digits[s] = Digits[n] BY <1>4, Zenon
<1> QED BY <1>1, <1>2, <1>3, <1>5

(* What the conversions make of it: the number, if it is in range.         *)
LEMMA Converted ==
  ASSUME NEW word, NEW n \in Int, NumberIn(word) = n
  PROVE  /\ strtol(word).errno = 0 <=> n \in Long
         /\ n \in Long => strtol(word).value = n
         /\ strtoul(word).errno = 0 <=> n \in SignedULong
         /\ n \in SignedULong => /\ strtoul(word).value = n % ULong
                                 /\ n % ULong = IF n < 0 THEN n + ULong ELSE n
<1>1. ULong \in Nat \ {0} BY WordsAssumption
<1>2. ERANGE # 0 BY DEF ERANGE
<1>3. (strtol(word).errno = 0 <=> n \in Long) /\ (n \in Long => strtol(word).value = n)
  <2>1. CASE n \in Long
    <3>1. strtol(word) = [value |-> n, errno |-> 0] BY <2>1 DEF strtol
    <3> QED BY <2>1, <3>1
  <2>2. CASE n \notin Long
    <3>1. PICK limit : limit = IF n < 0 THEN -(ULong \div 2) ELSE ULong \div 2 - 1 OBVIOUS
    <3>2. strtol(word) = [value |-> limit, errno |-> ERANGE] BY <2>2, <3>1 DEF strtol
    <3> QED BY <1>2, <2>2, <3>2
  <2> QED BY <2>1, <2>2
<1>4. CASE n \in SignedULong
  <2>1. PICK r : r = n % ULong OBVIOUS
  <2>2. strtoul(word) = [value |-> r, errno |-> 0] BY <1>4, <2>1 DEF strtoul
  <2>3. -ULong <= n /\ n < ULong BY <1>1, <1>4 DEF SignedULong
  <2>4. r = IF n < 0 THEN n + ULong ELSE n
    <3>1. CASE n < 0 BY <1>1, <2>1, <2>3, <3>1, ModNegative
    <3>2. CASE ~(n < 0)
      <4>1. 0 <= n BY <3>2
      <4> QED BY <1>1, <2>1, <2>3, <3>2, <4>1, ModSmall
    <3> QED BY <3>1, <3>2
  <2> QED BY <1>3, <1>4, <2>1, <2>2, <2>4
<1>5. CASE n \notin SignedULong
  <2>1. strtoul(word) = [value |-> ULong - 1, errno |-> ERANGE] BY <1>5 DEF strtoul
  <2> QED BY <1>2, <1>3, <1>5, <2>1
<1> QED BY <1>4, <1>5

(* In plain text there is nothing to count.                                *)
LEMMA PlainDepth ==
  ASSUME NEW a \in Seq(Plain)
  PROVE  \A m \in 0..Len(a) : Depth(a, 1, m + 1) = 0
<1>. DEFINE n == Len(a)  T == {m \in 0..n : Depth(a, 1, m + 1) = 0}
<1>1. n \in Nat /\ \A i \in 1..n : Turn(a[i]) = 0
  <2>1. ASSUME NEW i \in 1..n PROVE Turn(a[i]) = 0
    <3>1. a[i] \in Plain BY ElementOfSeq
    <3> QED BY <3>1 DEF Plain, Turn
  <2> QED BY <2>1
<1> HIDE DEF n
<1>2. 0 \in T
  <2>1. 1 \in Int /\ 0 + 1 = 1 OBVIOUS
  <2>2. Depth(a, 1, 1) = 0 BY <2>1, DepthStart
  <2> QED BY <1>1, <2>1, <2>2
<1>3. ASSUME NEW m \in 1..n, m - 1 \in T PROVE m \in T
  <2>1. 1 \in Int /\ m \in Int /\ 1 <= m /\ (m - 1) + 1 = m OBVIOUS
  <2>2. Depth(a, 1, m) = 0 BY <1>3, <2>1
  <2>3. Depth(a, 1, m + 1) = Depth(a, 1, m) + Turn(a[m]) BY <2>1, DepthStep
  <2>4. Depth(a, 1, m + 1) = 0 BY <1>1, <2>2, <2>3
  <2> QED BY <2>4
<1>4. 0..n \subseteq T
  <2> HIDE DEF T
  <2> QED BY <1>1, <1>2, <1>3, UpTo
<1> QED BY <1>4 DEF n

(* The value of an argument is its first word that is no tag.              *)
LEMMA ValueFound ==
  ASSUME NEW text \in Seq(Lexeme), NEW a \in Seq(Plain), NEW o \in Nat, NEW d \in 1..Len(a),
         EndOfArg(text, o + 1) = o + Len(a) + 1,
         \A j \in 1..Len(a) : text[o + j] = a[j],
         a[d] \notin {Blank} \cup Tags,
         \A j \in 1..(d - 1) : a[j] \in {Blank} \cup Tags
  PROVE  get_arg_value(text, o + 1) = o + d
<1>. DEFINE n == Len(a)
<1>1. PICK from, end : from = o + 1 /\ end = o + n + 1 OBVIOUS
<1>2. n \in Nat /\ EndOfArg(text, from) = end BY <1>1
<1>3. \A m \in 0..n : Depth(text, o + 1, (o + m) + 1) = Depth(a, 1, m + 1)
  <2>1. o \in Int /\ \A j \in 1..n : text[o + j] = a[j] OBVIOUS
  <2> HIDE DEF n
  <2> QED BY ONLY <1>2, <2>1, DepthSame
<1>4. PICK W :
        W = {p \in from..(end - 1) :
               text[p] \notin {"(", ")", Comma, Blank} \cup Tags /\ Depth(text, from, p) = 0}
  OBVIOUS
<1>5. get_arg_value(text, from)
        = IF W = {} THEN 0 ELSE CHOOSE p \in W : \A q \in W : p <= q
  BY <1>2, <1>4 DEF get_arg_value
<1>6. PICK v : v = o + d OBVIOUS
<1>7. v \in W
  <2>1. v \in from..(end - 1) BY <1>1, <1>2, <1>6
  <2>2. text[v] = a[d] /\ a[d] \in Plain BY <1>6, ElementOfSeq
  <2>3. text[v] \notin {"(", ")", Comma, Blank} \cup Tags BY <2>2 DEF Plain
  <2>4. Depth(text, from, v) = 0
    <3>1. d - 1 \in 0..n /\ (o + (d - 1)) + 1 = v /\ (d - 1) + 1 = d BY <1>2, <1>6
    <3>2. Depth(a, 1, (d - 1) + 1) = 0 BY <3>1, PlainDepth
    <3>3. Depth(text, o + 1, (o + (d - 1)) + 1) = Depth(a, 1, (d - 1) + 1) BY <1>3, <3>1
    <3> QED BY <1>1, <3>1, <3>2, <3>3
  <2> QED BY <1>4, <2>1, <2>3, <2>4
<1>8. ASSUME NEW q \in W PROVE v <= q
  <2>1. q \in from..(end - 1) /\ text[q] \notin {Blank} \cup Tags BY <1>4
  <2>2. SUFFICES ASSUME q < v PROVE FALSE BY <1>1, <1>2, <1>6, <2>1
  <2>3. PICK j : j = q - o OBVIOUS
  <2>4. j \in 1..(d - 1) /\ j \in 1..n /\ o + j = q BY <1>1, <1>2, <1>6, <2>1, <2>2, <2>3
  <2>5. text[q] = a[j] /\ a[j] \in {Blank} \cup Tags BY <2>4
  <2> QED BY <2>1, <2>5
<1>9. PICK g : g = CHOOSE p \in W : \A q \in W : p <= q OBVIOUS
<1>10. g \in W /\ \A q \in W : g <= q BY <1>7, <1>8, <1>9, Zenon
<1>11. g = v
  <2>1. g <= v /\ v <= g BY <1>7, <1>8, <1>10
  <2>2. g \in Int /\ v \in Int BY <1>1, <1>4, <1>6, <1>10
  <2> QED BY <2>1, <2>2
<1>12. get_arg_value(text, from) = v BY <1>5, <1>7, <1>9, <1>11
<1> QED BY <1>1, <1>6, <1>12

(* The place of the number in the text of a constant.                      *)
NumberAt(c) == IF c.type.pointer THEN 5 ELSE 3

(* In the text of a constant only blanks and tags are before its number.   *)
LEMMA ConstantText ==
  ASSUME NEW c \in Constants
  PROVE  /\ Leaf(c) \in Seq(Plain) /\ NumberAt(c) \in 1..Len(Leaf(c))
         /\ Leaf(c)[NumberAt(c)] = Digits[__get_int_cst(c)]
         /\ __get_int_cst(c) \in DOMAIN Digits
         /\ \A j \in 1..(NumberAt(c) - 1) : Leaf(c)[j] \in {Blank} \cup Tags
         /\ ~c.type.pointer => Leaf(c)[1] = IntCst /\ Leaf(c)[2] = Blank
<1>1. PICK pre, num, mid, suf, a, f :
        /\ pre = IF c.type.pointer THEN <<"<pointer_type>", Blank>> ELSE <<>>
        /\ num = Digits[__get_int_cst(c)] /\ mid = <<IntCst, Blank, num>>
        /\ suf = Suffix(c.type) /\ f = pre \o mid /\ a = Leaf(c)
  OBVIOUS
<1>2. /\ a = f \o suf /\ a \in Seq(Plain)
      /\ pre \in Seq(Plain) /\ mid \in Seq(Plain) /\ suf \in Seq(Plain)
  BY <1>1, IntText
<1>3. __get_int_cst(c) \in DOMAIN Digits BY DEF Constants
<1>4. Len(mid) = 3 /\ mid[1] = IntCst /\ mid[2] = Blank /\ mid[3] = num BY <1>1
<1>5. /\ f \in Seq(Plain) /\ Len(f) = Len(pre) + Len(mid) /\ Len(pre) \in Nat
      /\ \A i \in 1..Len(pre) : f[i] = pre[i]
      /\ \A i \in 1..Len(mid) : f[Len(pre) + i] = mid[i]
  <2>1. /\ pre \o mid \in Seq(Plain) /\ Len(pre \o mid) = Len(pre) + Len(mid) /\ Len(pre) \in Nat
        /\ \A i \in 1..Len(pre) : (pre \o mid)[i] = pre[i]
        /\ \A i \in 1..Len(mid) : (pre \o mid)[Len(pre) + i] = mid[i]
    BY <1>2, ConcatParts
  <2> QED BY <1>1, <2>1
<1>6. /\ Len(a) = Len(f) + Len(suf) /\ Len(suf) \in Nat /\ Len(f) \in Nat
      /\ \A i \in 1..Len(f) : a[i] = f[i]
  <2>1. f \in Seq(Plain) BY <1>5
  <2> QED BY <1>2, <2>1, ConcatParts
<1>7. {IntCst, "<pointer_type>"} \subseteq Tags BY WordsAssumption
<1>8. CASE c.type.pointer
  <2>1. NumberAt(c) = 5 BY <1>8 DEF NumberAt
  <2>2. Len(pre) = 2 /\ pre[1] = "<pointer_type>" /\ pre[2] = Blank BY <1>1, <1>8
  <2>3. Len(f) = 5 BY <1>4, <1>5, <2>2
  <2>4. f[1] = "<pointer_type>" /\ f[2] = Blank
    <3>1. 1 \in 1..2 /\ 2 \in 1..2 OBVIOUS
    <3> QED BY <1>5, <2>2, <3>1
  <2>5. f[3] = IntCst /\ f[4] = Blank /\ f[5] = num
    <3>1. \A i \in 1..3 : f[2 + i] = mid[i] BY <1>4, <1>5, <2>2
    <3> QED BY <1>4, <3>1
  <2>6. a[1] = f[1] /\ a[2] = f[2] /\ a[3] = f[3] /\ a[4] = f[4] /\ a[5] = f[5] BY <1>6, <2>3
  <2>7. 5 \in 1..Len(a) BY <1>6, <2>3
  <2>8. ASSUME NEW j \in 1..(5 - 1) PROVE a[j] \in {Blank} \cup Tags
    <3>1. j = 1 \/ j = 2 \/ j = 3 \/ j = 4 OBVIOUS
    <3> QED BY <1>7, <2>4, <2>5, <2>6, <3>1
  <2> QED BY <1>1, <1>2, <1>3, <1>8, <2>1, <2>5, <2>6, <2>7, <2>8
<1>9. CASE ~c.type.pointer
  <2>1. NumberAt(c) = 3 BY <1>9 DEF NumberAt
  <2>2. Len(pre) = 0 BY <1>1, <1>9
  <2>3. Len(f) = 3 BY <1>4, <1>5, <2>2
  <2>5. f[1] = IntCst /\ f[2] = Blank /\ f[3] = num
    <3>1. \A i \in 1..3 : f[i] = mid[i] BY <1>4, <1>5, <2>2
    <3> QED BY <1>4, <3>1
  <2>6. a[1] = f[1] /\ a[2] = f[2] /\ a[3] = f[3] BY <1>6, <2>3
  <2>7. 3 \in 1..Len(a) BY <1>6, <2>3
  <2>8. ASSUME NEW j \in 1..(3 - 1) PROVE a[j] \in {Blank} \cup Tags
    <3>1. j = 1 \/ j = 2 OBVIOUS
    <3> QED BY <1>7, <2>5, <2>6, <3>1
  <2> QED BY <1>1, <1>2, <1>3, <2>1, <2>5, <2>6, <2>7, <2>8
<1> QED BY <1>8, <1>9

(* The value of a constant is its number, wherever the constant is.        *)
LEMMA ConstantValue ==
  ASSUME NEW c \in Constants, NEW text \in Seq(Lexeme), NEW o \in Nat,
         EndOfArg(text, o + 1) = o + Len(Leaf(c)) + 1,
         \A j \in 1..Len(Leaf(c)) : text[o + j] = Leaf(c)[j]
  PROVE  /\ get_arg_value(text, o + 1) = o + NumberAt(c)
         /\ text[o + NumberAt(c)] \in Numerals
         /\ ~Misprinted(c) => NumberIn(text[o + NumberAt(c)]) = c.value
<1>1. PICK a, d, n : a = Leaf(c) /\ d = NumberAt(c) /\ n = __get_int_cst(c) OBVIOUS
<1>2. /\ a \in Seq(Plain) /\ d \in 1..Len(a) /\ a[d] = Digits[n] /\ n \in DOMAIN Digits
      /\ \A j \in 1..(d - 1) : a[j] \in {Blank} \cup Tags
  BY <1>1, ConstantText
<1>3. a[d] \notin {Blank} \cup Tags BY <1>2, DigitsPlain
<1>4. EndOfArg(text, o + 1) = o + Len(a) + 1 /\ \A j \in 1..Len(a) : text[o + j] = a[j] BY <1>1
<1>5. get_arg_value(text, o + 1) = o + d BY <1>2, <1>3, <1>4, ValueFound
<1>6. text[o + d] = Digits[n] BY <1>2, <1>4
<1>7. Digits[n] \in Numerals /\ NumberIn(Digits[n]) = n BY <1>2, NumeralRead
<1>8. ~Misprinted(c) => n = c.value BY <1>1, IntCstRight
<1> QED BY <1>1, <1>5, <1>6, <1>7, <1>8

(* Also in a text of its own.                                              *)
LEMMA ConstantAlone ==
  ASSUME NEW c \in Constants
  PROVE  /\ get_arg_value(Leaf(c), 1) # 0
         /\ Leaf(c)[get_arg_value(Leaf(c), 1)] \in Numerals
         /\ ~Misprinted(c) => NumberIn(Leaf(c)[get_arg_value(Leaf(c), 1)]) = c.value
<1>1. PICK a : a = Leaf(c) OBVIOUS
<1>2. a \in Seq(Plain) /\ NumberAt(c) \in 1..Len(a) BY <1>1, ConstantText
<1>3. a \in Seq(Lexeme) BY <1>2, PlainText
<1>4. PICK z : z = 0 OBVIOUS
<1>5. z \in Nat /\ z + 1 = 1 /\ \A j \in 1..Len(a) : z + j = j BY <1>4
<1>6. Stops(a, 1) = {}
  <2>1. ASSUME NEW p \in 1..Len(a) PROVE a[p] \notin {Comma, ")"}
    <3>1. a[p] \in Plain BY <1>2, ElementOfSeq
    <3> QED BY <3>1 DEF Plain
  <2> QED BY <2>1 DEF Stops
<1>7. EndOfArg(a, 1) = Len(a) + 1
  <2>1. PICK from : from = 1 OBVIOUS
  <2>2. Stops(a, from) = {} /\ from \in Nat BY <1>6, <2>1
  <2>3. EndOfArg(a, from) = Len(a) + 1 BY <1>3, <2>2, EndOfArgIs
  <2> QED BY <2>1, <2>3
<1>8. EndOfArg(a, z + 1) = z + Len(a) + 1
  <2>1. z + Len(a) + 1 = Len(a) + 1 BY <1>2, <1>4
  <2> QED BY <1>5, <1>7, <2>1
<1>9. \A j \in 1..Len(a) : a[z + j] = a[j] BY <1>5
<1>10. PICK d : d = z + NumberAt(c) OBVIOUS
<1>11. /\ get_arg_value(a, z + 1) = d
       /\ a[d] \in Numerals
       /\ ~Misprinted(c) => NumberIn(a[d]) = c.value
  BY <1>1, <1>3, <1>5, <1>8, <1>9, <1>10, ConstantValue
<1>12. get_arg_value(a, 1) = d /\ d # 0 BY <1>2, <1>4, <1>5, <1>10, <1>11
<1> QED BY <1>1, <1>11, <1>12

(* What the C splitter returns of a call.                                  *)
LEMMA CallStart ==
  ASSUME NEW texts, Apart(texts), NEW k \in Nat
  PROVE  call_start_at_arg(CallText(texts), k)
           = IF k \in 1..Len(texts) THEN Before(texts, k) + 1 ELSE 0
<1>1. PICK text : text = CallText(texts) OBVIOUS
<1>2. texts \in Seq(Seq(Lexeme)) /\ Len(texts) \in Nat BY DEF Apart
<1>3. text \in Seq(Lexeme) BY <1>1, <1>2, CallTextIs
<1>4. CASE k = 0 BY <1>1, <1>2, <1>4 DEF call_start_at_arg
<1>5. CASE k # 0
  <2>1. PICK f : Walks(f, text, k) /\ Walk(text, k) = [i \in 1..k |-> f[i]] BY <1>3, WalkIs
  <2>2. k \in 1..k BY <1>5
  <2>3. f[k] = IF k <= Len(texts) THEN Found(texts, k) ELSE NothingFound
    BY <1>1, <2>1, <2>2, WalkInCall
  <2>4. PICK w : w = [i \in 1..k |-> f[i]] OBVIOUS
  <2>5. Len(w) = k /\ w[k] = f[k] BY <2>2, <2>4
  <2>6. Last(Walk(text, k)) = f[k] BY <2>1, <2>4, <2>5 DEF Last
  <2>7. call_start_at_arg(text, k) = f[k].ptr BY <1>5, <2>6 DEF call_start_at_arg
  <2>8. f[k].ptr = IF k <= Len(texts) THEN Before(texts, k) + 1 ELSE 0
    BY <2>3 DEF Found, NothingFound
  <2> QED BY <1>1, <1>2, <1>5, <2>7, <2>8
<1> QED BY <1>4, <1>5

(* The number of arguments get_args_nr counts is theirs. *)
LEMMA ArgsNr ==
  ASSUME NEW texts, Apart(texts)
  PROVE  get_args_nr(CallText(texts)) = Len(texts)
<1>1. PICK text, n, m : text = CallText(texts) /\ n = Len(texts) /\ m = Len(text) OBVIOUS
<1>2. texts \in Seq(Seq(Lexeme)) /\ n \in Nat BY <1>1 DEF Apart
<1>3. text \in Seq(Lexeme) /\ m \in Nat /\ n + 1 <= m BY <1>1, <1>2, CallTextIs, RoomToWalk
<1>4. PICK f : Walks(f, text, m) /\ Walk(text, m) = [i \in 1..m |-> f[i]] BY <1>3, WalkIs
<1>5. \A k \in 1..m : f[k] = IF k <= n THEN Found(texts, k) ELSE NothingFound
  BY <1>1, <1>3, <1>4, WalkInCall
<1>6. PICK w : w = Walk(text, m) OBVIOUS
<1>7. Len(w) = m /\ \A k \in 1..m : w[k] = f[k] BY <1>3, <1>4, <1>6
<1>. DEFINE I == {i \in 1..Len(w) : w[i].ptr = 0}
<1>8. SelectInSeq(w, LAMBDA step : step.ptr = 0) = IF I # {} THEN Min(I) ELSE 0
  BY DEF SelectInSeq
<1>9. I = (n + 1)..m
  <2>1. ASSUME NEW k \in 1..m PROVE w[k].ptr = 0 <=> n + 1 <= k
    <3>1. w[k] = f[k] BY <1>7
    <3>2. CASE k <= n
      <4>1. w[k].ptr = Before(texts, k) + 1
        <5>1. w[k] = Found(texts, k) BY <1>5, <3>1, <3>2
        <5> QED BY <5>1 DEF Found
      <4>2. k \in 1..Len(texts) BY <1>1, <3>2
      <4>3. PICK o : o = Before(texts, k) OBVIOUS
      <4>4. o \in Nat /\ o >= 1 BY <1>2, <4>2, <4>3, Layout
      <4> QED BY <1>2, <3>2, <4>1, <4>3, <4>4
    <3>3. CASE ~(k <= n)
      <4>1. w[k].ptr = 0 BY <1>5, <3>1, <3>3 DEF NothingFound
      <4> QED BY <1>2, <3>3, <4>1
    <3> QED BY <3>2, <3>3
  <2>2. I = {i \in 1..m : w[i].ptr = 0} BY <1>7
  <2> HIDE DEF I
  <2> QED BY <1>2, <1>3, <2>1, <2>2
<1> HIDE DEF I
<1>10. n + 1 \in I /\ \A i \in I : n + 1 <= i BY <1>2, <1>3, <1>9
<1>11. Min(I) = n + 1
  <2>1. PICK x : x = Min(I) OBVIOUS
  <2>2. x = CHOOSE y \in I : \A i \in I : y <= i BY <2>1 DEF Min
  <2>3. x \in I /\ \A i \in I : x <= i BY <1>10, <2>2, Zenon
  <2>4. x <= n + 1 /\ n + 1 <= x BY <1>10, <2>3
  <2>5. x \in Int BY <1>9, <2>3
  <2> QED BY <1>2, <2>1, <2>4, <2>5
<1>12. get_args_nr(text) = SelectInSeq(w, LAMBDA step : step.ptr = 0) - 1
  BY <1>1, <1>6 DEF get_args_nr
<1>13. get_args_nr(text) = n BY <1>2, <1>8, <1>10, <1>11, <1>12
<1> QED BY <1>1, <1>13

(***************************************************************************)
(* The call that is printed.                                               *)
(***************************************************************************)
LEMMA PrintedIs ==
  ASSUME TypeOK
  PROVE  /\ Printed \in Seq(Seq(Lexeme)) /\ Len(Printed) = Len(call) /\ Len(call) \in Nat
         /\ DOMAIN call = 1..Len(call) /\ Len(call) <= MaxArgs
         /\ \A i \in 1..Len(call) : call[i] \in Operands /\ Printed[i] = ArgText(call[i])
         /\ Text = CallText(Printed)
         /\ call # <<>> <=> Printed # <<>>
<1>1. call \in Seq(Operands) /\ Len(call) <= MaxArgs BY DEF TypeOK
<1>2. /\ Len(call) \in Nat /\ DOMAIN call = 1..Len(call)
      /\ \A i \in 1..Len(call) : call[i] \in Operands
  <2>1. \A i \in 1..Len(call) : call[i] \in Operands BY <1>1, ElementOfSeq
  <2> QED BY <1>1, <2>1
<1>3. Printed = [i \in 1..Len(call) |-> ArgText(call[i])] BY <1>2 DEF Printed
<1>4. \A i \in 1..Len(call) : ArgText(call[i]) \in Seq(Lexeme) BY <1>2, ArgTextType
<1>5. PICK n, p : n = Len(call) /\ p = Printed OBVIOUS
<1>6. p \in [1..n -> Seq(Lexeme)] /\ n \in Nat BY <1>2, <1>3, <1>4, <1>5
<1>7. p \in Seq(Seq(Lexeme)) /\ Len(p) = n BY ONLY <1>6
<1>8. call # <<>> <=> n # 0 BY <1>1, <1>5
<1>9. p # <<>> <=> n # 0 BY ONLY <1>6, <1>7
<1> QED BY <1>1, <1>2, <1>3, <1>5, <1>7, <1>8, <1>9 DEF Text

(* What is printed for the arguments of a call can be told apart, if       *)
(* their leaves can be split and the last one has a text.                  *)
LEMMA PrintedApart ==
  ASSUME TypeOK, LeavesSplittable
  PROVE  /\ \A k \in 1..Len(call) : Splittable(Printed[k])
         /\ LastHasText => Apart(Printed)
<1>1. ASSUME NEW k \in 1..Len(call) PROVE Splittable(Printed[k])
  <2>1. call[k] \in Operands /\ Printed[k] = ArgText(call[k]) /\ k \in DOMAIN call BY PrintedIs
  <2>2. \A leaf \in LeavesOf(call[k]) : Splittable(Leaf(leaf)) BY <2>1 DEF LeavesSplittable
  <2>3. Splittable(ArgText(call[k])) BY <2>1, <2>2, ArgTextSplittable
  <2> QED BY <2>1, <2>3
<1>2. ASSUME LastHasText PROVE Apart(Printed)
  <2>1. Printed # <<>> => Last(Printed) # <<>> BY <1>2, PrintedIs DEF LastHasText
  <2>2. Printed \in Seq(Seq(Lexeme)) /\ Len(Printed) = Len(call) BY PrintedIs
  <2> QED BY <1>1, <2>1, <2>2 DEF Apart, Last
<1> QED BY <1>1, <1>2

(***************************************************************************)
(* What the matcher hands over of it.                                      *)
(***************************************************************************)
LEMMA LineIs ==
  ASSUME TypeOK
  PROVE  /\ Text \in Seq(Lexeme) /\ Len(Text) \in Nat /\ Len(Text) >= 2
         /\ Text[1] = "(" /\ Text[Len(Text)] = ")"
         /\ Line \in Seq(Lexeme \cup {Bracket}) /\ Len(Line) = Len(Text) + 2
         /\ \A i \in 1..Len(Text) : Line[i] = Text[i]
         /\ Line[Len(Text) + 1] = Blank /\ Line[Len(Text) + 2] = Bracket
<1>1. PICK t, l, n, b :
        t = Text /\ l = Len(Listed(Printed)) /\ n = Len(t) /\ b = <<Blank, Bracket>>
  OBVIOUS
<1>2. Printed \in Seq(Seq(Lexeme)) /\ t = CallText(Printed) BY <1>1, PrintedIs
<1>3. t \in Seq(Lexeme) /\ l \in Nat /\ n = l + 2 /\ t[1] = "(" /\ t[l + 2] = ")"
  BY <1>1, <1>2, CallTextIs
<1>. DEFINE V == Lexeme \cup {Bracket}
<1>4. t \in Seq(V)
  <2>1. PICK m : m = Len(t) OBVIOUS
  <2>2. m \in Nat /\ t \in [1..m -> Lexeme] BY <1>3, <2>1
  <2> QED BY <2>2
<1>5. Blank \in V /\ Bracket \in V BY LexemeAssumption
<1>6. b \in Seq(V) /\ Len(b) = 2 /\ b[1] = Blank /\ b[2] = Bracket
  <2> HIDE DEF V
  <2> QED BY <1>1, <1>5
<1>7. /\ t \o b \in Seq(V) /\ Len(t \o b) = n + 2
      /\ \A i \in 1..n : (t \o b)[i] = t[i]
      /\ \A i \in 1..2 : (t \o b)[n + i] = b[i]
  <2> HIDE DEF V
  <2> QED BY <1>1, <1>4, <1>6, ConcatParts
<1>8. Line = t \o b BY <1>1 DEF Line
<1>9. Line[n + 1] = Blank /\ Line[n + 2] = Bracket
  <2>1. 1 \in 1..2 /\ 2 \in 1..2 OBVIOUS
  <2> QED BY <1>6, <1>7, <1>8, <2>1
<1> QED BY <1>1, <1>3, <1>7, <1>8, <1>9

(* The first bracket of a line is behind its parenthesis, and at the       *)
(* latest that of the location.                                            *)
LEMMA CopiedIs ==
  ASSUME TypeOK
  PROVE  /\ Copied(Line) \in Nat \ {0} /\ Copied(Line) <= TmpBuf
         /\ Copied(Line) <= Len(Text) + 1
         /\ HandedWhole => Copied(Line) = Len(Text) + 1
         /\ Len(Text) < TmpBuf => Line[Copied(Line) + 1] = Bracket
<1>1. PICK line, n, end :
        /\ line = Line /\ n = Len(Text)
        /\ end = CHOOSE p \in DOMAIN line :
                   line[p] = Bracket /\ \A q \in 1..(p - 1) : line[q] # Bracket
  OBVIOUS
<1>2. /\ n \in Nat /\ n >= 2 /\ DOMAIN line = 1..(n + 2) /\ Text[1] = "("
      /\ \A i \in 1..n : line[i] = Text[i]
      /\ line[n + 1] = Blank /\ line[n + 2] = Bracket
  BY <1>1, LineIs
<1>3. TmpBuf \in Nat \ {0} BY BufferAssumption
<1>. DEFINE S == {p \in 1..(n + 2) : line[p] = Bracket}
<1>4. \E p \in DOMAIN line : line[p] = Bracket /\ \A q \in 1..(p - 1) : line[q] # Bracket
  <2>1. S \subseteq Nat /\ S # {}
    <3>1. n + 2 \in S BY <1>2
    <3> QED BY <1>2, <3>1
  <2>2. PICK p \in S : \A q \in S : p <= q
    <3> HIDE DEF S
    <3> QED BY <2>1, LeastNatural
  <2>3. ASSUME NEW q \in 1..(p - 1) PROVE line[q] # Bracket
    <3>1. p \in 1..(n + 2) OBVIOUS
    <3>2. q \in 1..(n + 2) /\ q < p BY <1>2, <3>1
    <3>3. q \notin S
      <4>1. q \in S => p <= q BY <2>2
      <4> QED BY <3>1, <3>2, <4>1
    <3> QED BY <3>2, <3>3
  <2> QED BY <1>2, <2>3
<1>5. end \in DOMAIN line /\ line[end] = Bracket /\ \A q \in 1..(end - 1) : line[q] # Bracket
  BY <1>1, <1>4, Zenon
<1>6. end \in 1..(n + 2) BY <1>2, <1>5
<1>7. end # 1
  <2>1. line[1] = "(" BY <1>2
  <2>2. "(" # Bracket BY DEF Bracket
  <2> QED BY <1>5, <2>1, <2>2
<1>8. Copied(Line) = IF end - 1 > TmpBuf THEN TmpBuf ELSE end - 1 BY <1>1 DEF Copied
<1>9. ASSUME HandedWhole PROVE Copied(Line) = n + 1
  <2>1. n < TmpBuf /\ \A p \in 1..n : line[p] # Bracket
    <3>1. DOMAIN Text = 1..n BY <1>1, LineIs
    <3> QED BY <1>1, <1>2, <1>9, <3>1 DEF HandedWhole
  <2>2. line[n + 1] # Bracket
    <3>1. Blank # Bracket BY DEF Blank, Bracket
    <3> QED BY <1>2, <3>1
  <2>3. end = n + 2
    <3>1. end \notin 1..n /\ end # n + 1 BY <1>5, <2>1, <2>2
    <3> QED BY <1>2, <1>6, <3>1
  <2> QED BY <1>2, <1>3, <1>8, <2>1, <2>3
<1>10. ASSUME n < TmpBuf PROVE line[Copied(Line) + 1] = Bracket
  <2>1. Copied(Line) = end - 1 BY <1>2, <1>3, <1>6, <1>8, <1>10
  <2>2. Copied(Line) + 1 = end BY <1>6, <2>1
  <2> QED BY <1>5, <2>2
<1> QED BY <1>1, <1>2, <1>3, <1>6, <1>7, <1>8, <1>9, <1>10

(* What is handed over is the text up to there, less the last character.   *)
LEMMA BufferIs ==
  ASSUME TypeOK
  PROVE  /\ tmp_buffer(Line) \in Seq(Lexeme)
         /\ Len(tmp_buffer(Line)) \in {Copied(Line) - 1, Copied(Line)}
         /\ CutBehindComma => Len(tmp_buffer(Line)) = Copied(Line) - 1
         /\ tmp_buffer(Line) # <<>> /\ tmp_buffer(Line)[Len(tmp_buffer(Line))] = Comma =>
              CutBehindComma
         /\ HandedWhole => tmp_buffer(Line) = Text
         /\ \A i \in 1..(Copied(Line) - 1) : tmp_buffer(Line)[i] = Text[i]
         /\ Len(tmp_buffer(Line)) = Copied(Line) =>
              /\ tmp_buffer(Line)[Copied(Line)] \in Plain
              /\ Copied(Line) <= Len(Text) /\ Text[Copied(Line)] \in Plain
<1>1. PICK line, n, c, last, front :
        /\ line = Line /\ n = Len(Text) /\ c = Copied(Line) /\ last = line[c]
        /\ front = SubSeq(line, 1, c - 1)
  OBVIOUS
<1>2. /\ Text \in Seq(Lexeme) /\ n \in Nat /\ n >= 2
      /\ line \in Seq(Lexeme \cup {Bracket}) /\ Len(line) = n + 2
      /\ \A i \in 1..n : line[i] = Text[i]
      /\ line[n + 1] = Blank
  BY <1>1, LineIs
<1>3. c \in Nat \ {0} /\ c <= n + 1 /\ (HandedWhole => c = n + 1) BY <1>1, CopiedIs
<1>4. /\ front \in Seq(Lexeme) /\ Len(front) = c - 1
      /\ \A i \in 1..(c - 1) : front[i] = line[i] /\ front[i] = Text[i]
  <2>1. \A i \in 1..(c - 1) : i \in 1..n /\ i \in 1..(n + 2) BY <1>2, <1>3
  <2>2. \A i \in 1..n : Text[i] \in Lexeme BY <1>1, <1>2, ElementOfSeq
  <2>3. front = [i \in 1..(c - 1) |-> line[i]]
    <3>1. \A i \in 1..(c - 1) : line[i] \in Lexeme BY <1>2, <2>1, <2>2
    <3> QED BY <1>1, <1>2, <1>3, <2>1
  <2>4. \A i \in 1..(c - 1) : line[i] \in Lexeme /\ line[i] = Text[i] BY <1>2, <2>1, <2>2
  <2>5. c - 1 \in Nat BY <1>3
  <2> QED BY <2>3, <2>4, <2>5
<1>5. tmp_buffer(Line) = front \o (IF last \in DOMAIN Shortened THEN <<Shortened[last]>> ELSE <<>>)
  BY <1>1 DEF tmp_buffer
<1>6. CASE last \in DOMAIN Shortened
  <2>1. PICK s, two : s = Shortened[last] /\ two = <<s>> OBVIOUS
  <2>2. s \in Plain BY <1>6, <2>1, BufferAssumption
  <2>3. s \in Lexeme /\ s # Comma BY <2>2 DEF Plain
  <2>4. two \in Seq(Lexeme) /\ Len(two) = 1 /\ two[1] = s BY <2>1, <2>3
  <2>5. PICK text : text = front \o two OBVIOUS
  <2>6. /\ text \in Seq(Lexeme) /\ Len(text) = (c - 1) + 1
        /\ \A i \in 1..1 : text[(c - 1) + i] = two[i]
        /\ \A i \in 1..(c - 1) : text[i] = front[i]
    <3>1. front \in Seq(Lexeme) /\ two \in Seq(Lexeme) BY <1>4, <2>4
    <3>2. LET d == front \o two
          IN  /\ d \in Seq(Lexeme) /\ Len(d) = Len(front) + Len(two)
              /\ \A i \in 1..Len(front) : d[i] = front[i]
              /\ \A i \in 1..Len(two) : d[Len(front) + i] = two[i]
      BY <3>1, ConcatParts
    <3>3. /\ text \in Seq(Lexeme) /\ Len(text) = Len(front) + Len(two)
          /\ \A i \in 1..Len(front) : text[i] = front[i]
          /\ \A i \in 1..Len(two) : text[Len(front) + i] = two[i]
      BY ONLY <2>5, <3>2
    <3>4. Len(front) = c - 1 /\ Len(two) = 1 BY <1>4, <2>4
    <3> QED BY ONLY <3>3, <3>4
  <2>7. Len(text) = c /\ text[c] = s
    <3>1. 1 \in 1..1 /\ (c - 1) + 1 = c BY <1>3
    <3> QED BY <2>4, <2>6, <3>1
  <2>8. tmp_buffer(Line) = text BY <1>5, <1>6, <2>1, <2>5
  <2>9. ~CutBehindComma BY <1>1, <1>6 DEF CutBehindComma
  <2>10. ~HandedWhole
    <3>1. Blank \notin DOMAIN Shortened BY BufferAssumption
    <3> QED BY <1>1, <1>2, <1>3, <1>6, <3>1
  <2>11. c <= n /\ Text[c] \in Plain
    <3>1. Blank \notin DOMAIN Shortened /\ DOMAIN Shortened \subseteq Plain BY BufferAssumption
    <3>2. c # n + 1 BY <1>1, <1>2, <1>6, <3>1
    <3>3. c \in 1..n BY <1>2, <1>3, <3>2
    <3> QED BY <1>1, <1>2, <1>6, <3>1, <3>3
  <2> QED BY <1>1, <1>4, <2>2, <2>3, <2>6, <2>7, <2>8, <2>9, <2>10, <2>11
<1>7. CASE last \notin DOMAIN Shortened
  <2>1. tmp_buffer(Line) = front \o <<>> BY <1>5, <1>7
  <2>2. tmp_buffer(Line) = front BY <1>4, <2>1
  <2>3. ASSUME front # <<>>, front[Len(front)] = Comma PROVE CutBehindComma
    <3>1. c - 1 # 0 BY <1>4, <2>3
    <3>2. c - 1 \in 1..(c - 1) /\ c > 1 BY <1>3, <3>1
    <3>3. line[c - 1] = Comma BY <1>4, <2>3, <3>2
    <3> QED BY <1>1, <1>7, <3>2, <3>3 DEF CutBehindComma
  <2>4. ASSUME HandedWhole PROVE front = Text
    <3>1. c - 1 = n BY <1>2, <1>3, <2>4
    <3> QED BY <1>1, <1>2, <1>4, <3>1
  <2> QED BY <1>1, <1>3, <1>4, <2>2, <2>3, <2>4
<1> QED BY <1>6, <1>7

(* The place where CSplits expects an argument is the one behind what is   *)
(* before it.                                                              *)
LEMMA StartIs ==
  ASSUME TypeOK, NEW k \in 1..Len(call)
  PROVE  StartOf(k) = Before(Printed, k) + 1
<1>1. Printed \in Seq(Seq(Lexeme)) /\ Len(Printed) = Len(call) /\ Len(call) \in Nat BY PrintedIs
<1>2. PICK b, front : b = k - 1 /\ front = SubSeq(Printed, 1, b) OBVIOUS
<1>3. b \in 0..Len(Printed) BY <1>1, <1>2
<1>4. front \in Seq(Seq(Lexeme)) BY <1>1, <1>2, <1>3, FrontAndRest
<1>5. PICK l, t : l = Len(Listed(front)) /\ t = Len(CallText(front)) OBVIOUS
<1>6. l \in Nat /\ t = l + 2 BY <1>4, <1>5, CallTextIs
<1>7. StartOf(k) = t + (IF k = 1 THEN 0 ELSE 2) BY <1>2, <1>5 DEF StartOf
<1>8. Before(Printed, k) = 1 + l + (IF k = 1 THEN 0 ELSE 2) BY <1>2, <1>5 DEF Before
<1> QED BY <1>6, <1>7, <1>8

(* The splitter of the checks is right about every call.                   *)
LEMMA CSplitsRight == ASSUME TypeOK PROVE CSplits
<1>1. SUFFICES ASSUME LeavesSplittable, LastHasText
               PROVE  /\ get_args_nr(Text) = Len(call)
                      /\ \A k \in 0..(MaxArgs + 1) :
                           call_start_at_arg(Text, k) = IF k \in DOMAIN call THEN StartOf(k) ELSE 0
  <2>1. HandedWhole => tmp_buffer(Line) = Text BY BufferIs
  <2> QED BY <2>1 DEF CSplits
<1>2. Apart(Printed) BY <1>1, PrintedApart
<1>3. Text = CallText(Printed) /\ Len(Printed) = Len(call) /\ DOMAIN call = 1..Len(call)
  BY PrintedIs
<1>4. get_args_nr(Text) = Len(call) BY <1>2, <1>3, ArgsNr
<1>5. ASSUME NEW k \in 0..(MaxArgs + 1)
      PROVE  call_start_at_arg(Text, k) = IF k \in DOMAIN call THEN StartOf(k) ELSE 0
  <2>1. k \in Nat OBVIOUS
  <2>2. call_start_at_arg(Text, k)
          = IF k \in 1..Len(call) THEN Before(Printed, k) + 1 ELSE 0
    BY <1>2, <1>3, <2>1, CallStart
  <2>3. k \in 1..Len(call) => StartOf(k) = Before(Printed, k) + 1 BY StartIs
  <2> QED BY <1>3, <2>2, <2>3
<1> QED BY <1>4, <1>5

(* The walk over a text stays in it and its Nul, or ends one place behind  *)
(* it if the text ends in a comma.                                         *)
LEMMA WalkStays ==
  ASSUME NEW text \in Seq(Lexeme)
  PROVE  \A k \in DOMAIN Walk(text, Len(text)) :
           /\ Walk(text, Len(text))[k].ptr <= Len(text)
           /\ Walk(text, Len(text))[k].offset
                <= Len(text) + (IF text # <<>> /\ text[Len(text)] = Comma THEN 2 ELSE 1)
<1>1. PICK n, last :
        n = Len(text) /\ last = n + (IF text # <<>> /\ text[n] = Comma THEN 2 ELSE 1)
  OBVIOUS
<1>2. n \in Nat BY <1>1
<1>3. PICK f : Walks(f, text, n) /\ Walk(text, n) = [i \in 1..n |-> f[i]] BY <1>2, WalkIs
<1>4. PICK step : step = Walk(text, n) OBVIOUS
<1>5. DOMAIN step = 1..n /\ \A k \in 1..n : step[k] = f[k] BY <1>3, <1>4
<1>6. ASSUME NEW k \in DOMAIN step PROVE step[k].ptr <= n /\ step[k].offset <= last
  <2>1. k \in 1..n /\ step[k] = f[k] BY <1>5
  <2>2. /\ f \in [0..n -> Steps]
        /\ f[k] = get_next_arg(text, f[k - 1].offset)
    BY <1>3, <2>1 DEF Walks
  <2>3. k - 1 \in 0..n BY <1>2, <2>1
  <2>4. PICK offset : offset = f[k - 1].offset OBVIOUS
  <2>5. offset \in Nat BY <2>2, <2>3, <2>4 DEF Steps
  <2>6. /\ get_next_arg(text, offset).ptr <= n
        /\ get_next_arg(text, offset).offset <= last
    BY <1>1, <2>5, NextArgType
  <2> QED BY <2>1, <2>2, <2>4, <2>6
<1> QED BY <1>1, <1>4, <1>6

(* Wherever the text was cut, the offsets are in it, or behind a comma.    *)
LEMMA OffsetsRight == ASSUME TypeOK PROVE OffsetsInText
<1>1. PICK text, n, c, room :
        /\ text = tmp_buffer(Line) /\ n = Len(text) /\ c = Copied(Line)
        /\ room = IF CutBehindComma THEN 2 ELSE 1
  OBVIOUS
<1>2. /\ text \in Seq(Lexeme) /\ n \in Nat /\ c \in Nat \ {0} /\ c <= TmpBuf /\ n \in {c - 1, c}
      /\ CutBehindComma => n = c - 1
      /\ text # <<>> /\ text[n] = Comma => CutBehindComma
  BY <1>1, CopiedIs, BufferIs
<1>3. PICK step : step = Walk(text, n) OBVIOUS
<1>4. ASSUME NEW k \in DOMAIN step PROVE step[k].ptr <= n /\ step[k].offset <= n + room
  <2>1. PICK r : r = IF text # <<>> /\ text[n] = Comma THEN 2 ELSE 1 OBVIOUS
  <2>2. step[k].ptr <= n /\ step[k].offset <= n + r BY <1>1, <1>2, <1>3, <2>1, WalkStays
  <2>3. r \in {1, 2} /\ room \in {1, 2} /\ (r = 2 => room = 2) BY <1>1, <1>2, <2>1
  <2>4. k \in 1..n /\ step[k] \in Steps
    <3>1. PICK f : Walks(f, text, n) /\ step = [i \in 1..n |-> f[i]] BY <1>2, <1>3, WalkIs
    <3>2. k \in 1..n BY <3>1
    <3>3. step[k] = f[k] BY <3>1, <3>2
    <3>4. f \in [0..n -> Steps] /\ k \in 0..n BY <3>1, <3>2 DEF Walks
    <3> QED BY <3>2, <3>3, <3>4
  <2>5. PICK o : o = step[k].offset OBVIOUS
  <2>6. o \in Nat /\ o <= n + r BY <2>2, <2>4, <2>5 DEF Steps
  <2>7. o <= n + room BY <1>2, <2>3, <2>6
  <2> QED BY <2>2, <2>5, <2>7
<1>5. ASSUME c < TmpBuf PROVE n + room <= TmpBuf
  <2>1. TmpBuf \in Nat BY BufferAssumption
  <2>2. (room = 2 /\ n = c - 1) \/ (room = 1 /\ n <= c) BY <1>1, <1>2
  <2> QED BY <1>2, <1>5, <2>1, <2>2
<1> QED BY <1>1, <1>3, <1>4, <1>5 DEF OffsetsInText

(* Of a call that fits in the buffer, the walk stays in it.                *)
LEMMA NoOverrun == ASSUME TypeOK, Len(Text) < TmpBuf PROVE ~Overruns(Line)
<1>1. SUFFICES ASSUME Overruns(Line) PROVE FALSE OBVIOUS
<1>2. PICK text, l, n, c : text = tmp_buffer(Line) /\ l = Len(text) /\ n = Len(Text) /\ c = Copied(Line)
  OBVIOUS
<1>3. PICK step : step = Walk(text, l) OBVIOUS
<1>4. c = TmpBuf /\ \E k \in DOMAIN step : step[k].offset > l + 1
  BY <1>1, <1>2, <1>3 DEF Overruns
<1>5. text \in Seq(Lexeme) /\ l \in Nat BY <1>2, BufferIs
<1>6. c = n + 1
  <2>1. c \in Nat /\ n \in Nat /\ c <= n + 1 /\ n < TmpBuf BY <1>2, CopiedIs, LineIs
  <2> QED BY <1>4, <2>1
<1>7. ~CutBehindComma
  <2>1. n \in 1..n /\ Line[n] = Text[n] /\ Text[n] = ")" /\ (n + 1) - 1 = n BY <1>2, LineIs
  <2>2. Line[n] # Comma BY <2>1, CommaApart
  <2>3. PICK b : b = c - 1 OBVIOUS
  <2>4. b = n BY <1>6, <2>1, <2>3
  <2>5. CutBehindComma => Line[b] = Comma BY <1>2, <2>3 DEF CutBehindComma
  <2> QED BY <2>2, <2>4, <2>5
<1>8. ~(text # <<>> /\ text[l] = Comma) BY <1>2, <1>7, BufferIs
<1>9. PICK k \in DOMAIN step : step[k].offset > l + 1 BY <1>4
<1>10. step[k].offset <= l + 1 BY <1>2, <1>3, <1>5, <1>8, WalkStays
<1>11. step[k].offset \in Nat
  <2>1. PICK f : Walks(f, text, l) /\ step = [i \in 1..l |-> f[i]] BY <1>3, <1>5, WalkIs
  <2>2. k \in 1..l BY <2>1
  <2>3. step[k] = f[k] BY <2>1, <2>2
  <2>4. f \in [0..l -> Steps] /\ k \in 0..l BY <2>1, <2>2 DEF Walks
  <2> QED BY <2>3, <2>4 DEF Steps
<1> QED BY <1>5, <1>9, <1>10, <1>11

(* A constant is read back.                                                *)
LEMMA ReadBackRight == ASSUME TypeOK PROVE ConstantsReadBack
<1>1. ASSUME NEW i \in DOMAIN call, call[i].kind = "int", ~Misprinted(call[i])
      PROVE  LET text == Printed[i]  p == get_arg_value(text, 1)  n == call[i].value IN
             /\ p # 0 /\ text[p] \in Numerals
             /\ strtol(text[p]).errno = 0 <=> n \in Long
             /\ n \in Long => strtol(text[p]).value = n
             /\ strtoul(text[p]).errno = 0 <=> n \in SignedULong
             /\ n \in SignedULong => strtoul(text[p]).value = IF n < 0 THEN n + ULong ELSE n
  <2>1. i \in 1..Len(call) BY PrintedIs
  <2>2. PICK c : c = call[i] OBVIOUS
  <2>3. c \in Operands /\ Printed[i] = ArgText(c) BY <2>1, <2>2, PrintedIs
  <2>4. c \in Constants
    <3>1. c \in Leaves \cup Statements BY <2>3, OperandsAssumption
    <3>2. c \notin Statements BY <1>1, <2>2, StatementShape
    <3> QED BY <1>1, <2>2, <3>1, <3>2 DEF Leaves
  <2>5. Printed[i] = Leaf(c) BY <1>1, <2>2, <2>3 DEF ArgText
  <2>6. ~Misprinted(c) BY <1>1, <2>2
  <2>7. PICK word, n, p : word = Leaf(c)[p] /\ n = c.value /\ p = get_arg_value(Leaf(c), 1) OBVIOUS
  <2>8. p # 0 /\ word \in Numerals /\ NumberIn(word) = n BY <2>4, <2>6, <2>7, ConstantAlone
  <2>9. n \in Int BY <2>4, <2>7 DEF Constants
  <2>10. /\ strtol(word).errno = 0 <=> n \in Long
         /\ n \in Long => strtol(word).value = n
         /\ strtoul(word).errno = 0 <=> n \in SignedULong
         /\ n \in SignedULong => strtoul(word).value = IF n < 0 THEN n + ULong ELSE n
    BY <2>8, <2>9, Converted
  <2> QED BY <2>2, <2>5, <2>7, <2>8, <2>10
<1> QED BY <1>1 DEF ConstantsReadBack

(***************************************************************************)
(* The splitter of the scripts.                                            *)
(***************************************************************************)
LEMMA PyEndType ==
  ASSUME NEW text \in Seq(Lexeme), text # <<>>, NEW from \in Nat \ {0}
  PROVE  PyEndOfArg(text, from) \in 1..Len(text)
<1>1. Len(text) \in Nat \ {0} OBVIOUS
<1>2. PICK e : e = EndOfArg(text, from) OBVIOUS
<1>3. e = Len(text) + 1 \/ e \in from..Len(text) BY <1>2, EndOfArgIs DEF Stops
<1>4. PyEndOfArg(text, from) = IF e > Len(text) THEN Len(text) ELSE e BY <1>2 DEF PyEndOfArg
<1> QED BY <1>1, <1>3, <1>4

(* What the script's function returns: where it stopped, and the           *)
(* argument.                                                               *)
PyFound == [end : Nat \ {0}, arg : Seq(Lexeme)]

(* It returns a place and a text. *)
LEMMA PyNextType ==
  ASSUME NEW text \in Seq(Lexeme), text # <<>>, NEW offset \in Nat \ {0}
  PROVE  py_get_next_arg(text, offset) \in PyFound
<1>1. PICK idx : idx = IF offset = 1 THEN 2 ELSE offset OBVIOUS
<1>2. PICK from : from = IF text[idx] = Comma THEN idx + 2 ELSE idx OBVIOUS
<1>3. from \in Nat \ {0} BY <1>1, <1>2
<1>4. PICK e : e = PyEndOfArg(text, from) OBVIOUS
<1>5. e \in 1..Len(text) BY <1>3, <1>4, PyEndType
<1>6. PICK a : a = SubSeq(text, from, e - 1) OBVIOUS
<1>7. a \in Seq(Lexeme)
  <2>1. \A i \in 1..Len(text) : text[i] \in Lexeme BY ElementOfSeq
  <2> QED BY <1>3, <1>5, <1>6, <2>1
<1>8. py_get_next_arg(text, offset)
        = IF text[idx] = ")" THEN [end |-> 1, arg |-> <<>>] ELSE [end |-> e, arg |-> a]
  BY <1>1, <1>2, <1>4, <1>6 DEF py_get_next_arg, PyArg, NoArg
<1>9. <<>> \in Seq(Lexeme) OBVIOUS
<1> QED BY <1>5, <1>7, <1>8, <1>9 DEF PyFound

(* What the loop over the arguments has, each time around.                 *)
PyStates == [offset : Nat \ {0}, found : Seq(Seq(Lexeme)), more : BOOLEAN]

(* One time around the loop of py_get_call_args, *)
PyStep(text, max, k, before) ==
  LET next == py_get_next_arg(text, before.offset) IN
  IF before.more /\ next.arg # <<>>
  THEN [offset |-> next.end, found |-> Append(before.found, next.arg),
        more |-> max = 0 \/ k < max]
  ELSE [before EXCEPT !.more = FALSE]

(* what it starts with, *)
PyStart == [offset |-> 1, found |-> <<>>, more |-> TRUE]

(* what it has each time around, *)
LEMMA PyStepType ==
  ASSUME NEW text \in Seq(Lexeme), text # <<>>, NEW max, NEW k, NEW before \in PyStates
  PROVE  PyStep(text, max, k, before) \in PyStates
<1>1. PICK next : next = py_get_next_arg(text, before.offset) OBVIOUS
<1>2. /\ before.offset \in Nat \ {0} /\ before.found \in Seq(Seq(Lexeme))
      /\ before.more \in BOOLEAN
  BY DEF PyStates
<1>3. next \in PyFound BY <1>1, <1>2, PyNextType
<1>4. next.end \in Nat \ {0} /\ next.arg \in Seq(Lexeme) BY <1>3 DEF PyFound
<1>5. Append(before.found, next.arg) \in Seq(Seq(Lexeme)) BY <1>2, <1>4, AppendProperties
<1>6. (max = 0 \/ k < max) \in BOOLEAN OBVIOUS
<1>7. CASE before.more /\ next.arg # <<>>
  <2>1. PyStep(text, max, k, before)
          = [offset |-> next.end, found |-> Append(before.found, next.arg),
             more |-> max = 0 \/ k < max]
    BY <1>1, <1>7 DEF PyStep
  <2> QED BY <1>4, <1>5, <1>6, <2>1 DEF PyStates
<1>8. CASE ~(before.more /\ next.arg # <<>>)
  <2>1. PyStep(text, max, k, before) = [before EXCEPT !.more = FALSE]
    BY <1>1, <1>8 DEF PyStep
  <2> QED BY <2>1 DEF PyStates
<1> QED BY <1>7, <1>8

(* and a run of n times. *)
PyWalks(f, text, max, n) ==
  /\ f \in [0..n -> PyStates] /\ f[0] = PyStart
  /\ \A k \in 1..n : f[k] = PyStep(text, max, k, f[k - 1])

(* py_get_call_args returns what such a run has found at its end.          *)
LEMMA PyIs ==
  ASSUME NEW text \in Seq(Lexeme), text # <<>>, NEW max
  PROVE  \E f : /\ PyWalks(f, text, max, Len(text))
                /\ py_get_call_args(text, max) = f[Len(text)].found
<1>. DEFINE step == [k \in 1..Len(text) |->
                       [before \in PyStates |-> PyStep(text, max, k, before)]]
<1>1. PICK n : n = Len(text) OBVIOUS
<1>2. n \in Nat BY <1>1
<1>3. PyStart \in PyStates
  <2>1. <<>> \in Seq(Seq(Lexeme)) OBVIOUS
  <2> QED BY <2>1 DEF PyStart, PyStates
<1>4. step \in [1..n -> [PyStates -> PyStates]] BY <1>1, PyStepType
<1>5. \A k \in 1..n, before \in PyStates : step[k][before] = PyStep(text, max, k, before)
  BY <1>1
<1> HIDE DEF step
<1>6. PICK f : Computes(f, PyStates, PyStart, step, n) BY <1>2, <1>3, <1>4, Recursion
<1>7. /\ f \in [0..n -> PyStates] /\ f[0] = PyStart
      /\ \A k \in 1..n : f[k] = PyStep(text, max, k, f[k - 1])
  <2>1. /\ f \in [0..n -> PyStates] /\ f[0] = PyStart
        /\ \A k \in 1..n : f[k] = step[k][f[k - 1]]
    BY <1>6 DEF Computes
  <2>2. ASSUME NEW k \in 1..n PROVE f[k] = PyStep(text, max, k, f[k - 1])
    <3>1. f[k - 1] \in PyStates BY <1>2, <2>1
    <3> QED BY <1>5, <2>1, <3>1
  <2> QED BY <2>1, <2>2
<1>. DEFINE body(g, k) == IF k = 0 THEN PyStart ELSE PyStep(text, max, k, g[k - 1])
            args == CHOOSE g : g = [k \in 0..Len(text) |-> body(g, k)]
<1>8. f = [k \in 0..Len(text) |-> body(f, k)]
  <2>1. ASSUME NEW k \in 0..n PROVE f[k] = body(f, k)
    <3>1. CASE k = 0 BY <1>7, <3>1
    <3>2. CASE k # 0
      <4>1. k \in 1..n BY <3>2
      <4> QED BY <1>7, <3>2, <4>1
    <3> QED BY <3>1, <3>2
  <2> HIDE DEF body
  <2> QED BY <1>1, <1>7, <2>1
<1>9. args = [k \in 0..Len(text) |-> body(args, k)]
  <2> HIDE DEF body
  <2> QED BY <1>8, Zenon
<1>. DEFINE T == {k \in 0..n : args[k] = f[k]}
<1>10. n \in T
  <2>1. 0 \in T
    <3>1. 0 \in 0..n /\ 0 \in 0..Len(text) BY <1>1, <1>2
    <3>2. args[0] = body(args, 0)
      <4> HIDE DEF args, body
      <4> QED BY <1>9, <3>1
    <3> HIDE DEF args
    <3> QED BY <1>7, <3>1, <3>2
  <2>2. ASSUME NEW k \in 1..n, k - 1 \in T PROVE k \in T
    <3>1. k \in 0..n /\ k \in 0..Len(text) /\ k # 0 BY <1>1, <1>2
    <3>2. args[k] = body(args, k)
      <4> HIDE DEF args, body
      <4> QED BY <1>9, <3>1
    <3>3. args[k - 1] = f[k - 1] BY <2>2
    <3> HIDE DEF args
    <3>4. args[k] = f[k] BY <1>7, <3>1, <3>2, <3>3
    <3> QED BY <3>1, <3>4
  <2>3. 0..n \subseteq T
    <3> HIDE DEF T
    <3> QED BY <1>2, <2>1, <2>2, UpTo
  <2>4. n \in 0..n BY <1>2
  <2> HIDE DEF T
  <2> QED BY <2>3, <2>4
<1>11. py_get_call_args(text, max) = args[Len(text)].found
  BY DEF py_get_call_args, PyStep, PyStart
<1>12. PyWalks(f, text, max, Len(text)) BY <1>1, <1>7 DEF PyWalks
<1>13. args[n] = f[n] BY <1>10
<1> HIDE DEF args
<1> QED BY <1>1, <1>11, <1>12, <1>13

(* Texts of arguments that are not empty.                                  *)
Full(texts) ==
  /\ texts \in Seq(Seq(Lexeme))
  /\ \A k \in 1..Len(texts) : Splittable(texts[k]) /\ texts[k] # <<>>

(* A text that can be split does not begin with a comma. *)
LEMMA FirstIsNoComma ==
  ASSUME NEW a \in Seq(Lexeme), Splittable(a), a # <<>>
  PROVE  a[1] # Comma
<1>1. CommasInside(a) BY SplittableIs
<1>2. 1 \in 1..Len(a) /\ 1 \in Int OBVIOUS
<1>3. Depth(a, 1, 1) = 0 BY <1>2, DepthStart
<1>4. a[1] = Comma => Depth(a, 1, 1) > 0 BY <1>1, <1>2 DEF CommasInside
<1>5. PICK d : d = Depth(a, 1, 1) OBVIOUS
<1> QED BY <1>3, <1>4, <1>5

(* Where the script goes on.                                               *)
PyOffset(texts, k) == IF k = 1 THEN 1 ELSE Before(texts, k) - 1

(* Called where the loop is before the k-th argument, the script's         *)
(* function returns the k-th argument,                                     *)
LEMMA PyNextInCall ==
  ASSUME NEW texts, Full(texts), NEW k \in 1..Len(texts)
  PROVE  py_get_next_arg(CallText(texts), PyOffset(texts, k))
           = [end |-> Before(texts, k) + Len(texts[k]) + 1, arg |-> texts[k]]
<1>1. PICK text, o, a, n :
        text = CallText(texts) /\ o = Before(texts, k) /\ a = texts[k] /\ n = Len(texts)
  OBVIOUS
<1>2. texts \in Seq(Seq(Lexeme)) /\ n \in Nat /\ Splittable(a) /\ a # <<>>
  BY <1>1 DEF Full
<1>3. text \in Seq(Lexeme) /\ Len(text) \in Nat BY <1>1, <1>2, CallTextIs
<1>4. text[Len(text)] = ")"
  <2>1. /\ Len(CallText(texts)) = Len(Listed(texts)) + 2
        /\ CallText(texts)[Len(Listed(texts)) + 2] = ")"
    BY <1>2, CallTextIs
  <2> QED BY <1>1, <2>1
<1>5. PICK e : e = o + Len(a) + 1 OBVIOUS
<1>6. /\ a \in Seq(Lexeme) /\ o \in Nat /\ o >= 1 /\ Len(a) \in Nat /\ e <= Len(text)
      /\ \A j \in 1..Len(a) : text[o + j] = a[j]
      /\ k = n => e = Len(text)
      /\ k # n => text[e] = Comma
  BY <1>1, <1>2, <1>5, Layout
<1>7. text[e] \in {Comma, ")"} /\ e \in Nat BY <1>4, <1>5, <1>6
<1>8. PICK p : p = o + 1 OBVIOUS
<1>9. EndOfArg(text, p) = e
  <2>1. /\ o + Len(a) + 1 <= Len(text)
        /\ text[o + Len(a) + 1] \in {Comma, ")"}
    BY <1>5, <1>6, <1>7
  <2>2. EndOfArg(text, o + 1) = o + Len(a) + 1 BY <1>2, <1>3, <1>6, <2>1, EndOfArgFinds
  <2> QED BY <1>5, <1>8, <2>2
<1>10. PyEndOfArg(text, p) = e BY <1>3, <1>6, <1>7, <1>9 DEF PyEndOfArg
<1>11. text[p] # ")" /\ text[p] # Comma
  <2>1. 1 \in 1..Len(a) BY <1>2, <1>6
  <2>2. text[p] = a[1] BY <1>6, <1>8, <2>1
  <2> QED BY <1>2, <1>6, <2>2, FirstIsNoEnd, FirstIsNoComma
<1>12. PICK offset, idx : offset = PyOffset(texts, k) /\ idx = IF offset = 1 THEN 2 ELSE offset
  OBVIOUS
<1>13. /\ text[idx] # ")"
       /\ (IF text[idx] = Comma THEN idx + 2 ELSE idx) = p
  <2>1. CASE k = 1
    <3>1. o = 1 BY <1>1, <1>2, <2>1, BeforeFirst
    <3>2. idx = p BY <1>8, <1>12, <2>1, <3>1 DEF PyOffset
    <3> QED BY <1>11, <3>2
  <2>2. CASE k # 1
    <3>1. PICK b : b = k - 1 OBVIOUS
    <3>2. b \in 1..n /\ b # n /\ b + 1 = k BY <1>1, <1>2, <2>2, <3>1
    <3>3. PICK c, eb : c = Before(texts, b) /\ eb = c + Len(texts[b]) + 1 OBVIOUS
    <3>4. /\ c \in Nat /\ c >= 1 /\ Len(texts[b]) \in Nat
          /\ text[eb] = Comma /\ Before(texts, b + 1) = eb + 1
      BY <1>1, <1>2, <3>2, <3>3, Layout
    <3>5. offset = eb
      <4>1. o = eb + 1 BY <1>1, <3>2, <3>4
      <4>2. offset = o - 1 BY <1>1, <1>12, <2>2 DEF PyOffset
      <4>3. eb \in Nat BY <3>3, <3>4
      <4> QED BY <4>1, <4>2, <4>3
    <3>6. eb >= 2 /\ eb \in Nat BY <3>3, <3>4
    <3>7. idx = eb BY <1>12, <3>5, <3>6
    <3>8. idx + 2 = p
      <4>1. o = eb + 1 BY <1>1, <3>2, <3>4
      <4> QED BY <1>8, <3>6, <3>7, <4>1
    <3> QED BY <3>4, <3>7, <3>8, CommaApart
  <2> QED BY <2>1, <2>2
<1>14. SubSeq(text, p, e - 1) = a
  <2>1. PICK s : s = SubSeq(text, p, e - 1) OBVIOUS
  <2>2. \A i \in 1..Len(text) : text[i] \in Lexeme BY <1>3, ElementOfSeq
  <2>3. s \in Seq(Lexeme) /\ Len(s) = Len(a) /\ \A i \in 1..Len(a) : s[i] = text[o + i]
    <3>1. PICK b : b = Len(a) OBVIOUS
    <3>2. b \in Nat /\ o \in Nat /\ p = o + 1 /\ e - 1 = o + b /\ o + b <= Len(text)
      BY <1>5, <1>6, <1>8, <3>1
    <3>3. s = SubSeq(text, o + 1, o + b) BY <2>1, <3>2
    <3>4. \A i \in 1..b : o + i \in 1..Len(text) BY <1>3, <3>2
    <3>5. Len(s) = b /\ \A i \in 1..b : s[i] = text[o + i] BY <1>3, <3>2, <3>3
    <3>6. s = [i \in 1..b |-> text[o + i]] BY <1>3, <3>2, <3>3
    <3>7. \A i \in 1..b : text[o + i] \in Lexeme BY <2>2, <3>4
    <3>8. s \in Seq(Lexeme) BY <3>2, <3>6, <3>7
    <3> QED BY <3>1, <3>5, <3>8
  <2>4. \A i \in 1..Len(a) : s[i] = a[i] BY <1>6, <2>3
  <2>5. s = a BY <1>6, <2>3, <2>4, SeqEqual
  <2> QED BY <2>1, <2>5
<1>15. py_get_next_arg(text, offset) = PyArg(text, idx, p)
  BY <1>12, <1>13 DEF py_get_next_arg
<1>16. py_get_next_arg(text, offset) = [end |-> e, arg |-> a]
  BY <1>10, <1>13, <1>14, <1>15 DEF PyArg
<1> QED BY <1>1, <1>5, <1>12, <1>16

(* Where it is after k arguments.                                          *)
PyNext(texts, k) ==
  IF k # Len(texts) THEN PyOffset(texts, k + 1)
  ELSE IF texts = <<>> THEN 1 ELSE Len(CallText(texts))

(* also when that place is still at the comma. *)
LEMMA PyNextIs ==
  ASSUME NEW texts, Full(texts), NEW k \in 1..Len(texts)
  PROVE  py_get_next_arg(CallText(texts), PyNext(texts, k - 1))
           = [end |-> PyNext(texts, k), arg |-> texts[k]]
<1>1. texts \in Seq(Seq(Lexeme)) /\ Len(texts) \in Nat /\ texts # <<>> BY DEF Full
<1>2. PICK b : b = k - 1 OBVIOUS
<1>3. b # Len(texts) /\ b + 1 = k BY <1>1, <1>2
<1>4. PyNext(texts, b) = PyOffset(texts, k) BY <1>3 DEF PyNext
<1>5. PICK o, e : o = Before(texts, k) /\ e = o + Len(texts[k]) + 1 OBVIOUS
<1>6. /\ o \in Nat /\ Len(texts[k]) \in Nat
      /\ k = Len(texts) => e = Len(CallText(texts))
      /\ k # Len(texts) => Before(texts, k + 1) = e + 1
  BY <1>1, <1>5, Layout
<1>7. PyNext(texts, k) = e
  <2>1. CASE k = Len(texts) BY <1>1, <1>6, <2>1 DEF PyNext
  <2>2. CASE k # Len(texts)
    <3>1. PICK q : q = k + 1 OBVIOUS
    <3>2. q # 1 /\ Before(texts, q) = e + 1 /\ e \in Nat BY <1>5, <1>6, <2>2, <3>1
    <3>3. PyOffset(texts, q) = e BY <3>2 DEF PyOffset
    <3> QED BY <2>2, <3>1, <3>3 DEF PyNext
  <2> QED BY <2>1, <2>2
<1>8. py_get_next_arg(CallText(texts), PyOffset(texts, k)) = [end |-> e, arg |-> texts[k]]
  BY <1>5, PyNextInCall
<1> QED BY <1>2, <1>4, <1>7, <1>8

(* Behind the last argument it returns nothing. *)
LEMMA PyNothingBehind ==
  ASSUME NEW texts \in Seq(Seq(Lexeme))
  PROVE  py_get_next_arg(CallText(texts), PyNext(texts, Len(texts))).arg = <<>>
<1>1. PICK text : text = CallText(texts) OBVIOUS
<1>2. /\ Len(text) \in Nat /\ Len(text) >= 2 /\ text[Len(text)] = ")"
      /\ texts = <<>> => Len(text) = 2
  <2>1. PICK l : l = Listed(texts) OBVIOUS
  <2>2. Len(l) \in Nat /\ Len(text) = Len(l) + 2 /\ text[Len(l) + 2] = ")"
    BY <1>1, <2>1, CallTextIs
  <2>3. ASSUME texts = <<>> PROVE Len(l) = 0
    <3>1. l = <<>> BY <2>1, <2>3, NothingListed
    <3> QED BY <3>1
  <2> QED BY <2>2, <2>3
<1>3. PICK offset : offset = PyNext(texts, Len(texts)) OBVIOUS
<1>4. offset = IF texts = <<>> THEN 1 ELSE Len(text) BY <1>1, <1>3 DEF PyNext
<1>5. (IF offset = 1 THEN 2 ELSE offset) = Len(text) BY <1>2, <1>4
<1>6. py_get_next_arg(text, offset) = NoArg
  <2>1. PICK idx, from :
          /\ idx = IF offset = 1 THEN 2 ELSE offset
          /\ from = IF text[idx] = Comma THEN idx + 2 ELSE idx
    OBVIOUS
  <2>2. py_get_next_arg(text, offset) = PyArg(text, idx, from) BY <2>1 DEF py_get_next_arg
  <2>3. text[idx] = ")" BY <1>2, <1>5, <2>1
  <2> QED BY <2>2, <2>3 DEF PyArg
<1> QED BY <1>1, <1>3, <1>6 DEF NoArg

(* The loop has the arguments up to where it is, and stops at the last or  *)
(* at the limit.                                                           *)
PyHas(texts, max, limit, k, state) ==
  IF k <= limit
  THEN /\ state.found = SubSeq(texts, 1, k) /\ state.offset = PyNext(texts, k)
       /\ state.more = (k = 0 \/ max = 0 \/ k < max)
  ELSE state.found = SubSeq(texts, 1, limit) /\ state.more = FALSE

(* The loop has one argument more each time around, until it stops.        *)
LEMMA PyHasNext ==
  ASSUME NEW texts, Full(texts), NEW max \in Nat, NEW k \in Nat \ {0}, NEW limit,
         limit = IF max = 0 \/ max > Len(texts) THEN Len(texts) ELSE max,
         NEW before \in PyStates, PyHas(texts, max, limit, k - 1, before)
  PROVE  PyHas(texts, max, limit, k, PyStep(CallText(texts), max, k, before))
<1>1. PICK n, text, b : n = Len(texts) /\ text = CallText(texts) /\ b = k - 1 OBVIOUS
<1>2. texts \in Seq(Seq(Lexeme)) /\ n \in Nat BY <1>1 DEF Full
<1>3. limit \in Nat /\ limit <= n /\ b \in Nat /\ b + 1 = k BY <1>1, <1>2
<1>4. PICK next : next = py_get_next_arg(text, before.offset) OBVIOUS
<1>5. PICK after : after = PyStep(text, max, k, before) OBVIOUS
<1>6. after = IF before.more /\ next.arg # <<>>
              THEN [offset |-> next.end, found |-> Append(before.found, next.arg),
                    more |-> max = 0 \/ k < max]
              ELSE [before EXCEPT !.more = FALSE]
  BY <1>4, <1>5 DEF PyStep
<1>7. PyHas(texts, max, limit, b, before) BY <1>1
<1>8. CASE k <= limit
  <2>1. k \in 1..n /\ b <= limit BY <1>2, <1>3, <1>8
  <2>2. /\ before.found = SubSeq(texts, 1, b) /\ before.offset = PyNext(texts, b)
        /\ before.more = (b = 0 \/ max = 0 \/ b < max)
    BY <1>7, <2>1 DEF PyHas
  <2>3. max = 0 \/ b < max
    <3>1. max = 0 \/ limit <= max BY <1>1, <1>2
    <3> QED BY <1>3, <1>8, <3>1
  <2>4. before.more BY <2>2, <2>3
  <2>5. next = [end |-> PyNext(texts, k), arg |-> texts[k]] BY <1>1, <1>4, <2>1, <2>2, PyNextIs
  <2>6. texts[k] # <<>> BY <1>1, <2>1 DEF Full
  <2>7. after = [offset |-> PyNext(texts, k), found |-> Append(before.found, texts[k]),
                 more |-> max = 0 \/ k < max]
    BY <1>6, <2>4, <2>5, <2>6
  <2>8. SubSeq(texts, 1, k) = Append(SubSeq(texts, 1, k - 1), texts[k])
    BY <1>1, <1>2, <2>1, FrontAppend
  <2>9. after.found = SubSeq(texts, 1, k) BY <1>1, <2>2, <2>7, <2>8
  <2>10. after.offset = PyNext(texts, k) BY <2>7
  <2>11. after.more = (k = 0 \/ max = 0 \/ k < max)
    <3>1. after.more = (max = 0 \/ k < max) BY <2>7
    <3>2. k # 0 OBVIOUS
    <3> QED BY <3>1, <3>2
  <2>12. PyHas(texts, max, limit, k, after) BY <1>8, <2>9, <2>10, <2>11 DEF PyHas
  <2> QED BY <1>1, <1>5, <2>12
<1>9. CASE ~(k <= limit)
  <2>1. before.found = SubSeq(texts, 1, limit) /\ ~(before.more /\ next.arg # <<>>)
    <3>1. CASE b <= limit
      <4>1. b = limit BY <1>3, <1>9, <3>1
      <4>2. /\ before.found = SubSeq(texts, 1, b) /\ before.offset = PyNext(texts, b)
            /\ before.more = (b = 0 \/ max = 0 \/ b < max)
        BY <1>7, <3>1 DEF PyHas
      <4>3. CASE b = n
        <5>1. next.arg = <<>> BY <1>1, <1>2, <1>4, <4>2, <4>3, PyNothingBehind
        <5> QED BY <4>1, <4>2, <5>1
      <4>4. CASE b # n
        <5>1. max # 0 /\ b = max BY <1>1, <4>1, <4>4
        <5>2. ~before.more
          <6>1. ~(b = 0 \/ max = 0 \/ b < max) BY <1>3, <5>1
          <6> QED BY <4>2, <6>1
        <5> QED BY <4>1, <4>2, <5>2
      <4> QED BY <4>3, <4>4
    <3>2. CASE ~(b <= limit) BY <1>7, <3>2 DEF PyHas
    <3> QED BY <3>1, <3>2
  <2>2. after = [before EXCEPT !.more = FALSE] BY <1>6, <2>1
  <2>3. after.found = before.found /\ after.more = FALSE BY <2>2 DEF PyStates
  <2>4. PyHas(texts, max, limit, k, after) BY <1>9, <2>1, <2>3 DEF PyHas
  <2> QED BY <1>1, <1>5, <2>4
<1> QED BY <1>8, <1>9

(* So it returns the arguments, up to as many as it is asked for.          *)
LEMMA PyArgs ==
  ASSUME NEW texts, Full(texts), NEW max \in Nat
  PROVE  py_get_call_args(CallText(texts), max)
           = IF max = 0 \/ max > Len(texts) THEN texts ELSE SubSeq(texts, 1, max)
<1>1. PICK text, n, m, limit :
        /\ text = CallText(texts) /\ n = Len(texts) /\ m = Len(text)
        /\ limit = IF max = 0 \/ max > Len(texts) THEN Len(texts) ELSE max
  OBVIOUS
<1>2. texts \in Seq(Seq(Lexeme)) /\ n \in Nat /\ limit \in Nat /\ limit <= n BY <1>1 DEF Full
<1>3. text \in Seq(Lexeme) /\ m \in Nat /\ n + 1 <= m BY <1>1, <1>2, CallTextIs, RoomToWalk
<1>4. text # <<>>
  <2>1. Len(text) # 0 BY <1>1, <1>2, <1>3
  <2> QED BY <2>1
<1>5. PICK f : PyWalks(f, text, max, m) /\ py_get_call_args(text, max) = f[m].found
  BY <1>1, <1>3, <1>4, PyIs
<1>6. /\ f \in [0..m -> PyStates] /\ f[0] = PyStart
      /\ \A k \in 1..m : f[k] = PyStep(text, max, k, f[k - 1])
  BY <1>5 DEF PyWalks
<1>. DEFINE T == {k \in 0..m : PyHas(texts, max, limit, k, f[k])}
<1>7. 0 \in T
  <2>1. PyStart.found = <<>> /\ PyStart.offset = 1 /\ PyStart.more = TRUE BY DEF PyStart
  <2>2. SubSeq(texts, 1, 0) = <<>> BY SubSeqEmpty
  <2>3. PyNext(texts, 0) = 1
    <3>1. CASE n # 0 BY <1>1, <3>1 DEF PyNext, PyOffset
    <3>2. CASE n = 0
      <4>1. texts = <<>>
        <5>1. Len(texts) = 0 BY <1>1, <3>2
        <5> QED BY ONLY <1>2, <5>1
      <4> QED BY <1>1, <3>2, <4>1 DEF PyNext
    <3> QED BY <3>1, <3>2
  <2>4. 0 <= limit /\ 0 \in 0..m BY <1>2, <1>3
  <2>5. PyHas(texts, max, limit, 0, PyStart) BY <2>1, <2>2, <2>3, <2>4 DEF PyHas
  <2> QED BY <1>6, <2>4, <2>5
<1>8. ASSUME NEW k \in 1..m, k - 1 \in T PROVE k \in T
  <2>1. PICK before : before = f[k - 1] OBVIOUS
  <2>2. before \in PyStates
    <3>1. k - 1 \in 0..m BY <1>3
    <3> QED BY <1>6, <2>1, <3>1
  <2>3. PyHas(texts, max, limit, k - 1, before) BY <1>8, <2>1
  <2>4. k \in Nat \ {0} /\ k \in 0..m BY <1>3
  <2>5. PyHas(texts, max, limit, k, PyStep(text, max, k, before))
    BY <1>1, <2>2, <2>3, <2>4, PyHasNext
  <2>6. f[k] = PyStep(text, max, k, before) BY <1>6, <2>1
  <2>7. PyHas(texts, max, limit, k, f[k]) BY <2>5, <2>6
  <2> QED BY <2>4, <2>7
<1>9. 0..m \subseteq T
  <2> HIDE DEF T
  <2> QED BY <1>3, <1>7, <1>8, UpTo
<1>10. PyHas(texts, max, limit, m, f[m])
  <2>1. m \in 0..m BY <1>3
  <2>2. m \in T BY <1>9, <2>1
  <2> QED BY <2>2
<1>11. f[m].found = SubSeq(texts, 1, limit)
  <2>1. ~(m <= limit) BY <1>2, <1>3
  <2> QED BY <1>10, <2>1 DEF PyHas
<1>12. SubSeq(texts, 1, n) = texts BY <1>1, <1>2, SubSeqFull
<1> QED BY <1>1, <1>5, <1>11, <1>12

(* The splitter of the scripts is right about every call.                  *)
LEMMA PySplitsRight == ASSUME TypeOK PROVE PySplits
<1>1. SUFFICES ASSUME LeavesSplittable, \A i \in DOMAIN call : Printed[i] # <<>>,
                      NEW max \in 0..(MaxArgs + 1)
               PROVE  py_get_call_args(Text, max)
                        = IF max = 0 \/ max > Len(call) THEN Printed ELSE SubSeq(Printed, 1, max)
  BY DEF PySplits
<1>2. /\ Printed \in Seq(Seq(Lexeme)) /\ Len(Printed) = Len(call) /\ Text = CallText(Printed)
      /\ DOMAIN call = 1..Len(call)
  BY PrintedIs
<1>3. Full(Printed) BY <1>1, <1>2, PrintedApart DEF Full
<1>4. max \in Nat OBVIOUS
<1> QED BY <1>2, <1>3, <1>4, PyArgs

(***************************************************************************)
(* The verdicts.                                                           *)
(***************************************************************************)
(* What VerdictRight supposes of a call.                                   *)
Supposed ==
  LeavesSplittable /\ LastHasText
  /\ (\A k \in DOMAIN call : ~ConstantInFront(k) /\ (IsConstant(k) => ~Misprinted(call[k])))

(* The value of an argument that is a constant is found and read.          *)
LEMMA SizeOfArg ==
  ASSUME TypeOK, Supposed, NEW k \in Nat \ {0}
  PROVE  /\ IsConstant(k) =>
              /\ mem_to_int_cst_size(Text, k) # 0
              /\ Text[mem_to_int_cst_size(Text, k)] \in Numerals
              /\ NumberIn(Text[mem_to_int_cst_size(Text, k)]) = call[k].value
              /\ call[k].value \in Int
         /\ ~IsConstant(k) => mem_to_int_cst_size(Text, k) = 0
<1>1. PICK text, n, p, v :
        /\ text = Text /\ n = Len(call) /\ p = call_start_at_arg(Text, k)
        /\ v = mem_to_int_cst_size(Text, k)
  OBVIOUS
<1>2. /\ Printed \in Seq(Seq(Lexeme)) /\ Len(Printed) = n /\ n \in Nat
      /\ DOMAIN call = 1..n /\ text = CallText(Printed)
      /\ \A i \in 1..n : call[i] \in Operands /\ Printed[i] = ArgText(call[i])
  BY <1>1, PrintedIs
<1>3. Apart(Printed) /\ \A i \in 1..n : Splittable(Printed[i])
  BY <1>1, PrintedApart DEF Supposed
<1>4. p = IF k \in 1..n THEN Before(Printed, k) + 1 ELSE 0 BY <1>1, <1>2, <1>3, CallStart
<1>5. v = IF p # 0 /\ p < Len(text) /\ text[p] = IntCst /\ text[p + 1] = Blank
          THEN get_arg_value(text, p) ELSE 0
  BY <1>1 DEF mem_to_int_cst_size
<1>6. CASE k \notin 1..n
  <2>1. ~IsConstant(k) BY <1>2, <1>6 DEF IsConstant
  <2>2. v = 0 BY <1>4, <1>5, <1>6
  <2> QED BY <1>1, <2>1, <2>2
<1>7. CASE k \in 1..n
  <2>1. PICK o, a, e :
          o = Before(Printed, k) /\ a = Printed[k] /\ e = o + Len(Printed[k]) + 1
    OBVIOUS
  <2>2. /\ a \in Seq(Lexeme) /\ o \in Nat /\ o >= 1 /\ Len(a) \in Nat /\ e <= Len(text)
        /\ \A j \in 1..Len(a) : text[o + j] = a[j]
        /\ k = n => e = Len(text)
        /\ k # n => text[e] = Comma
    BY <1>2, <1>7, <2>1, Layout
  <2>3. text \in Seq(Lexeme) /\ Len(text) \in Nat /\ text[Len(text)] = ")"
    <3>1. /\ Len(CallText(Printed)) = Len(Listed(Printed)) + 2 /\ CallText(Printed) \in Seq(Lexeme)
          /\ CallText(Printed)[Len(Listed(Printed)) + 2] = ")" /\ Len(Listed(Printed)) \in Nat
      BY <1>2, CallTextIs
    <3> QED BY <1>2, <3>1
  <2>4. text[e] \in {Comma, ")"} /\ e \in Nat BY <2>1, <2>2, <2>3
  <2>5. p = o + 1 BY <1>4, <1>7, <2>1
  <2>6. EndOfArg(text, o + 1) = o + Len(a) + 1
    <3>1. /\ o + Len(a) + 1 <= Len(text)
          /\ text[o + Len(a) + 1] \in {Comma, ")"}
      BY <2>1, <2>2, <2>4
    <3>2. Splittable(a) BY <1>3, <1>7, <2>1
    <3> QED BY <2>2, <2>3, <3>1, <3>2, EndOfArgFinds
  <2>8. CASE IsConstant(k)
    <3>1. PICK c : c = call[k] OBVIOUS
    <3>2. c.kind = "int" /\ ~c.type.pointer /\ ~Misprinted(c)
      BY <1>2, <1>7, <2>8, <3>1 DEF IsConstant, Supposed
    <3>3. c \in Constants
      <4>1. c \in Leaves \cup Statements BY <1>2, <1>7, <3>1, OperandsAssumption
      <4>2. c \notin Statements BY <3>2, StatementShape
      <4> QED BY <3>2, <4>1, <4>2 DEF Leaves
    <3>4. a = Leaf(c) BY <1>2, <1>7, <2>1, <3>1, <3>2 DEF ArgText
    <3>5. /\ NumberAt(c) = 3 /\ 3 \in 1..Len(a) /\ a[1] = IntCst /\ a[2] = Blank
      BY <3>2, <3>3, <3>4, ConstantText DEF NumberAt
    <3>6. /\ get_arg_value(text, o + 1) = o + 3 /\ text[o + 3] \in Numerals
          /\ NumberIn(text[o + 3]) = c.value
      <4>1. /\ EndOfArg(text, o + 1) = o + Len(Leaf(c)) + 1
            /\ \A j \in 1..Len(Leaf(c)) : text[o + j] = Leaf(c)[j]
        BY <2>2, <2>6, <3>4
      <4>2. /\ get_arg_value(text, o + 1) = o + NumberAt(c)
            /\ text[o + NumberAt(c)] \in Numerals
            /\ ~Misprinted(c) => NumberIn(text[o + NumberAt(c)]) = c.value
        BY <2>2, <2>3, <3>3, <4>1, ConstantValue
      <4> QED BY <3>2, <3>5, <4>2
    <3>7. p < Len(text) /\ text[p] = IntCst /\ text[p + 1] = Blank
      <4>1. text[o + 1] = IntCst /\ text[o + 2] = Blank
        <5>1. 1 \in 1..Len(a) /\ 2 \in 1..Len(a) BY <2>2, <3>5
        <5> QED BY <2>2, <3>5, <5>1
      <4>2. p + 1 = o + 2 BY <2>2, <2>5
      <4>3. p < Len(text)
        <5>1. PICK b : b = Len(a) OBVIOUS
        <5>2. e = o + b + 1 /\ b \in Nat /\ b >= 3 BY <2>1, <2>2, <3>5, <5>1
        <5> QED BY <2>2, <2>3, <2>5, <5>2
      <4> QED BY <2>5, <4>1, <4>2, <4>3
    <3>8. v = o + 3 /\ v # 0
      <4>1. p # 0 BY <2>2, <2>5
      <4>2. v = get_arg_value(text, p) BY <1>5, <3>7, <4>1
      <4> QED BY <2>2, <2>5, <3>6, <4>2
    <3>9. c.value \in Int BY <3>3 DEF Constants
    <3> QED BY <1>1, <2>8, <3>1, <3>6, <3>8, <3>9
  <2>9. CASE ~IsConstant(k)
    <3>1. ~ConstantInFront(k) BY <1>2, <1>7 DEF Supposed
    <3>2. ~(a # <<>> /\ a[1] = IntCst) BY <2>1, <2>9, <3>1 DEF ConstantInFront
    <3>3. text[p] # IntCst /\ p < Len(text)
      <4>1. CASE a = <<>>
        <5>1. k # n
          <6>1. Printed # <<>> BY <1>2, <1>7
          <6>2. Printed[n] # <<>> BY <1>2, <1>3, <6>1 DEF Apart
          <6> QED BY <2>1, <4>1, <6>2
        <5>2. e = p BY <2>1, <2>2, <2>5, <4>1
        <5>3. text[p] = Comma BY <2>2, <5>1, <5>2
        <5>4. Comma # IntCst
          <6>1. IntCst \in Plain BY PlainWords DEF IntCst
          <6> QED BY <6>1 DEF Plain
        <5>5. e # Len(text) BY <2>3, <5>2, <5>3, CommaApart
        <5> QED BY <2>2, <2>3, <2>4, <5>2, <5>3, <5>4, <5>5
      <4>2. CASE a # <<>>
        <5>1. 1 \in 1..Len(a) BY <2>2, <4>2
        <5>2. text[p] = a[1] BY <2>2, <2>5, <5>1
        <5>3. p < Len(text) BY <2>1, <2>2, <2>3, <2>5, <5>1
        <5> QED BY <3>2, <4>2, <5>2, <5>3
      <4> QED BY <4>1, <4>2
    <3>4. v = 0 BY <1>5, <3>3
    <3> QED BY <1>1, <2>9, <3>4
  <2> QED BY <2>8, <2>9
<1> QED BY <1>6, <1>7

(* What a check reads of an argument is the constant the argument is.      *)
ReadIn(text, k) ==
  LET p == mem_to_int_cst_size(text, k) IN
  p # 0 =>
    /\ IsConstant(k) /\ call[k].value \in Int
    /\ text[p] \in Numerals /\ NumberIn(text[p]) = call[k].value

(* Then its size is judged right. *)
LEMMA SizeRead ==
  ASSUME NEW text, NEW k, ReadIn(text, k)
  PROVE  mem_chk_common_size(text, k)
           = IF mem_to_int_cst_size(text, k) = 0 THEN NoMatch ELSE SizeVerdict(k)
<1>0. SUFFICES ASSUME mem_to_int_cst_size(text, k) # 0
               PROVE  mem_chk_common_size(text, k) = SizeVerdict(k)
  BY DEF mem_chk_common_size
<1>1. PICK word, n, p :
        p = mem_to_int_cst_size(text, k) /\ word = text[p] /\ n = call[k].value
  OBVIOUS
<1>2. /\ p # 0 /\ IsConstant(k) /\ word \in Numerals /\ NumberIn(word) = n /\ n \in Int
  BY <1>0, <1>1 DEF ReadIn
<1>5. mem_chk_common_size(text, k)
        = IF word \notin Numerals \/ strtoul(word).errno # 0 THEN NoMatch
          ELSE chk_memory_size(strtoul(word).value)
  BY <1>1, <1>2 DEF mem_chk_common_size, Unread
<1>3. CASE n \notin SignedULong
  <2>1. strtoul(word).errno # 0 BY <1>2, <1>3, Converted
  <2>2. mem_chk_common_size(text, k) = NoMatch BY <1>5, <1>1, <2>1
  <2>3. SizeVerdict(k) = NoMatch BY <1>1, <1>3 DEF SizeVerdict
  <2> QED BY <2>2, <2>3
<1>4. CASE n \in SignedULong
  <2>1. PICK s : s = n % ULong OBVIOUS
  <2>2. s \in Nat /\ PointerSize \in Nat \ {0}
    <3>1. ULong \in Nat \ {0} /\ PointerSize \in Nat \ {0} BY WordsAssumption
    <3>2. s \in 0..(ULong - 1) BY <1>2, <2>1, <3>1, DivMod
    <3> QED BY <3>1, <3>2
  <2>3. strtoul(word).errno = 0 /\ strtoul(word).value = s BY <1>2, <1>4, <2>1, Converted
  <2>4. mem_chk_common_size(text, k) = chk_memory_size(s) BY <1>5, <1>1, <1>2, <2>3
  <2>5. SizeVerdict(k)
          = Matched(CASE s = 0 -> "zero"
                      [] s \in 1..(PointerSize - 1) -> "small"
                      [] s = PointerSize -> "pointer"
                      [] OTHER -> "none")
    BY <1>2, <1>1, <1>4, <2>1 DEF SizeVerdict
  <2>6. CASE s = 0
    <3>1. s \notin 1..(PointerSize - 1) /\ s # PointerSize BY <2>2, <2>6
    <3>2. chk_memory_size(s) = Matched("zero") BY <2>6 DEF chk_memory_size
    <3>3. SizeVerdict(k) = Matched("zero") BY <2>5, <2>6, <3>1
    <3> QED BY <2>4, <3>2, <3>3
  <2>7. CASE s # 0 /\ s < PointerSize
    <3>1. s \in 1..(PointerSize - 1) /\ s # PointerSize BY <2>2, <2>7
    <3>2. chk_memory_size(s) = Matched("small") BY <2>7 DEF chk_memory_size
    <3>3. SizeVerdict(k) = Matched("small") BY <2>5, <2>7, <3>1
    <3> QED BY <2>4, <3>2, <3>3
  <2>8. CASE s # 0 /\ s = PointerSize
    <3>1. s \notin 1..(PointerSize - 1) /\ ~(s < PointerSize) BY <2>2, <2>8
    <3>2. chk_memory_size(s) = Matched("pointer") BY <2>8, <3>1 DEF chk_memory_size
    <3>3. SizeVerdict(k) = Matched("pointer") BY <2>5, <2>8, <3>1
    <3> QED BY <2>4, <3>2, <3>3
  <2>9. CASE s # 0 /\ s > PointerSize
    <3>1. s \notin 1..(PointerSize - 1) /\ ~(s < PointerSize) /\ s # PointerSize BY <2>2, <2>9
    <3> QED BY <2>4, <2>5, <2>9, <3>1 DEF chk_memory_size
  <2> QED BY <2>2, <2>6, <2>7, <2>8, <2>9
<1> QED BY <1>3, <1>4

(* The checks of a size.                                                   *)
LEMMA SizeRight ==
  ASSUME TypeOK, Supposed, NEW k \in Nat \ {0}
  PROVE  mem_chk_common_size(Text, k) = SizeVerdict(k)
<1>1. PICK p : p = mem_to_int_cst_size(Text, k) OBVIOUS
<1>2. ReadIn(Text, k) /\ (p = 0 => ~IsConstant(k)) BY <1>1, SizeOfArg DEF ReadIn
<1>3. CASE p = 0
  <2>1. mem_chk_common_size(Text, k) = NoMatch BY <1>1, <1>2, <1>3, SizeRead
  <2>2. SizeVerdict(k) = NoMatch BY <1>2, <1>3 DEF SizeVerdict
  <2> QED BY <2>1, <2>2
<1>4. CASE p # 0 BY <1>1, <1>2, <1>4, SizeRead
<1> QED BY <1>3, <1>4

(* Every callback returns a match and a message it may return.             *)
Verdicts == {v \in [match : BOOLEAN, msg : Messages] : ~v.match => v.msg = "none"}

(* The verdicts without a size are verdicts. *)
LEMMA SimpleVerdicts ==
  /\ NoMatch \in Verdicts
  /\ \A msg \in Messages : Matched(msg) \in Verdicts
  /\ \A msg \in Messages : Matched(msg).match = TRUE /\ Matched(msg).msg = msg
  /\ NoMatch.match = FALSE /\ NoMatch.msg = "none"
BY DEF Verdicts, Messages, NoMatch, Matched

(* A check of a size returns a verdict, of any text. *)
LEMMA SizeVerdictType ==
  ASSUME NEW text, NEW k
  PROVE  mem_chk_common_size(text, k) \in Verdicts
<1>1. \A size : chk_memory_size(size) \in Verdicts
  <2>1. SUFFICES ASSUME NEW size PROVE chk_memory_size(size) \in Verdicts OBVIOUS
  <2>2. PICK msg : msg = IF size = 0 THEN "zero"
                         ELSE IF size < PointerSize THEN "small"
                         ELSE IF size = PointerSize THEN "pointer" ELSE "none"
    OBVIOUS
  <2>3. msg \in Messages BY <2>2 DEF Messages
  <2>4. chk_memory_size(size) = Matched(msg) BY <2>2 DEF chk_memory_size
  <2> QED BY <2>3, <2>4, SimpleVerdicts
<1> QED BY <1>1, SimpleVerdicts DEF mem_chk_common_size

(* The argument each of the checks of a size is about.                     *)
SizeArg(name) ==
  IF name \in {"malloc", "kmalloc", "kzalloc"} THEN 1
  ELSE IF name \in {"strndup", "strndupa"} THEN 2 ELSE 3

(* Which check a name stands for. *)
LEMMA RunIs ==
  ASSUME NEW name \in Checks, NEW text
  PROVE  Run(name, text) =
           IF name = "open_assumes_file_exists" THEN open_assumes_file_exists(text)
           ELSE IF name = "open_needs_mode_arg" THEN open_needs_mode_arg(text)
           ELSE IF name = "open_chk_flag_mode" THEN open_chk_flag_mode(text)
           ELSE mem_chk_common_size(text, SizeArg(name))
<1>1. /\ DOMAIN mem_size_arg = {"memset", "memcpy", "strncpy", "strncat", "memmove", "memcmp"}
      /\ DOMAIN malloc_size_arg = {"malloc", "kmalloc", "kzalloc", "strndup", "strndupa"}
  BY DEF mem_size_arg, malloc_size_arg
<1>2. CASE name = "open_assumes_file_exists" BY <1>1, <1>2 DEF Run
<1>3. CASE name = "open_needs_mode_arg" BY <1>1, <1>3 DEF Run
<1>4. CASE name = "open_chk_flag_mode" BY <1>1, <1>4 DEF Run
<1>5. CASE name \in DOMAIN mem_size_arg
  <2>1. /\ name \notin {"open_assumes_file_exists", "open_needs_mode_arg", "open_chk_flag_mode"}
        /\ name \notin DOMAIN malloc_size_arg
    BY <1>1, <1>5
  <2>2. Run(name, text) = mem_chk_common_size(text, mem_size_arg[name])
    BY <1>5, <2>1 DEF Run
  <2>3. mem_size_arg[name] = 3 BY <1>1, <1>5 DEF mem_size_arg
  <2>4. SizeArg(name) = 3 BY <1>1, <1>5 DEF SizeArg
  <2> QED BY <2>1, <2>2, <2>3, <2>4
<1>6. CASE name \in DOMAIN malloc_size_arg
  <2>1. /\ name \notin {"open_assumes_file_exists", "open_needs_mode_arg", "open_chk_flag_mode"}
        /\ name \notin DOMAIN mem_size_arg
    BY <1>1, <1>6
  <2>2. Run(name, text) = mem_chk_common_size(text, malloc_size_arg[name])
    BY <1>6, <2>1 DEF Run
  <2>3. malloc_size_arg[name] = SizeArg(name)
    <3>1. CASE name \in {"malloc", "kmalloc", "kzalloc"} BY <3>1 DEF malloc_size_arg, SizeArg
    <3>2. CASE name \in {"strndup", "strndupa"} BY <3>2 DEF malloc_size_arg, SizeArg
    <3> QED BY <1>1, <1>6, <3>1, <3>2
  <2> QED BY <2>1, <2>2, <2>3
<1> QED BY <1>2, <1>3, <1>4, <1>5, <1>6 DEF Checks

(* Every check returns a verdict, of any text. *)
LEMMA RunType ==
  ASSUME NEW name \in Checks, NEW text
  PROVE  Run(name, text) \in Verdicts
<1>1. "none" \in Messages /\ "mode" \in Messages BY DEF Messages
<1>2. open_assumes_file_exists(text) \in Verdicts
  BY <1>1, SimpleVerdicts DEF open_assumes_file_exists
<1>3. open_needs_mode_arg(text) \in Verdicts
  BY <1>1, SimpleVerdicts DEF open_needs_mode_arg
<1>4. open_chk_flag_mode(text) \in Verdicts
  BY <1>1, SimpleVerdicts DEF open_chk_flag_mode
<1>5. mem_chk_common_size(text, SizeArg(name)) \in Verdicts BY SizeVerdictType
<1> QED BY <1>2, <1>3, <1>4, <1>5, RunIs

(* Whatever is behind a full buffer, a check returns a verdict. *)
LEMMA OutcomesType ==
  ASSUME NEW name \in Checks, NEW line
  PROVE  Outcomes(name, line) \subseteq Verdicts
<1>1. CASE Overruns(line) BY <1>1, SimpleVerdicts DEF Outcomes
<1>2. CASE ~Overruns(line)
  <2>1. PICK v : v = Run(name, tmp_buffer(line)) OBVIOUS
  <2>2. v \in Verdicts BY <2>1, RunType
  <2>3. Outcomes(name, line) = {v} BY <1>2, <2>1 DEF Outcomes
  <2> QED BY <2>2, <2>3
<1> QED BY <1>1, <1>2

(* What the last check returned is what it may return of the call.         *)
VerdictIs == IF check = "none" THEN verdict = NoMatch ELSE verdict \in Outcomes(check, Line)

(* The invariant: the types, and that a verdict is about the call in the   *)
(* state. No action changes one of the two alone.                          *)
IInv == TypeOK /\ VerdictIs

(* TypeOK, with the type of the verdict in one set. *)
LEMMA TypeFromVerdicts ==
  TypeOK <=> /\ call \in Seq(Operands) /\ Len(call) <= MaxArgs
             /\ check \in Checks \cup {"none"} /\ verdict \in Verdicts
BY DEF TypeOK, Verdicts

(* Initially there is no call. *)
LEMMA InitIInv == ASSUME Init PROVE IInv
<1>1. call = <<>> /\ check = "none" /\ verdict = NoMatch BY DEF Init
<1>2. call \in Seq(Operands) /\ Len(call) <= MaxArgs
  <2>1. <<>> \in Seq(Operands) /\ Len(<<>>) = 0 OBVIOUS
  <2>2. MaxArgs \in Nat BY OperandsAssumption
  <2> QED BY <1>1, <2>1, <2>2
<1>3. TypeOK BY <1>1, <1>2, SimpleVerdicts, TypeFromVerdicts
<1> QED BY <1>1, <1>3 DEF IInv, VerdictIs

(* No check is called "none". *)
LEMMA NotACheck == "none" \notin Checks
BY DEF Checks, mem_size_arg, malloc_size_arg

(* The step of an action. *)
LEMMA NextIInv == ASSUME IInv, [Next]_vars PROVE IInv'
<1>1. /\ call \in Seq(Operands) /\ Len(call) <= MaxArgs
      /\ check \in Checks \cup {"none"} /\ verdict \in Verdicts /\ VerdictIs
  BY TypeFromVerdicts DEF IInv
<1>2. SUFFICES /\ call' \in Seq(Operands) /\ Len(call') <= MaxArgs
               /\ check' \in Checks \cup {"none"} /\ verdict' \in Verdicts /\ VerdictIs'
  <2>1. (TypeOK <=> /\ call \in Seq(Operands) /\ Len(call) <= MaxArgs
                    /\ check \in Checks \cup {"none"} /\ verdict \in Verdicts)'
    BY DEF TypeOK, Verdicts
  <2> QED BY <2>1 DEF IInv
<1>3. CASE PrintArg
  <2>1. PICK arg \in Operands : call' = Append(call, arg) BY <1>3 DEF PrintArg
  <2>2. /\ check = "none" /\ Len(call) < MaxArgs /\ check' = check /\ verdict' = verdict
    BY <1>3 DEF PrintArg
  <2>3. call' \in Seq(Operands) /\ Len(call') = Len(call) + 1 BY <1>1, <2>1, AppendProperties
  <2>4. MaxArgs \in Nat /\ Len(call) \in Nat BY <1>1, OperandsAssumption
  <2>5. Len(call') <= MaxArgs BY <2>2, <2>3, <2>4
  <2>6. VerdictIs' BY <1>1, <2>2 DEF VerdictIs
  <2> QED BY <1>1, <2>2, <2>3, <2>5, <2>6
<1>4. CASE regexp_match_cargs
  <2>1. /\ check' \in Checks /\ verdict' \in Outcomes(check', Line) /\ call' = call
    BY <1>4 DEF regexp_match_cargs
  <2>2. Line' = Line BY <2>1 DEF Line, Text, Printed
  <2>3. VerdictIs' BY <2>1, <2>2, NotACheck DEF VerdictIs
  <2>4. verdict' \in Verdicts BY <2>1, OutcomesType
  <2> QED BY <1>1, <2>1, <2>3, <2>4
<1>5. CASE NextCall
  <2>1. call' = <<>> /\ check' = "none" /\ verdict' = NoMatch BY <1>5 DEF NextCall
  <2>2. <<>> \in Seq(Operands) /\ Len(<<>>) = 0 /\ MaxArgs \in Nat BY OperandsAssumption
  <2>3. VerdictIs' BY <2>1 DEF VerdictIs
  <2> QED BY <2>1, <2>2, <2>3, SimpleVerdicts
<1>6. CASE UNCHANGED vars
  <2>1. call' = call /\ check' = check /\ verdict' = verdict BY <1>6 DEF vars
  <2>2. Line' = Line BY <2>1 DEF Line, Text, Printed
  <2>3. VerdictIs' BY <1>1, <2>1, <2>2 DEF VerdictIs
  <2> QED BY <1>1, <2>1, <2>3
<1> QED BY <1>3, <1>4, <1>5, <1>6 DEF Next

(* The invariant holds of every reachable state. *)
LEMMA SpecIInv == Spec => []IInv
<1>1. Init => IInv BY InitIInv
<1>2. IInv /\ [Next]_vars => IInv' BY NextIInv
<1> QED BY <1>1, <1>2, PTL DEF Spec

(* The checks of open().                                                   *)
LEMMA OpenRight ==
  ASSUME TypeOK, Supposed
  PROVE  /\ open_assumes_file_exists(Text).match <=> Len(call) = 2
         /\ open_needs_mode_arg(Text).match <=>
              Len(call) # 3 /\ IsConstant(2) /\ call[2].value \in CreatFlags \cap Long
         /\ open_chk_flag_mode(Text).match <=>
              /\ IsConstant(2) => call[2].value \in Long
              /\ IsConstant(3) =>
                   call[3].value \in SignedULong /\ call[3].value % ULong \in LooseModes
         /\ open_chk_flag_mode(Text).msg = "mode" <=>
              open_chk_flag_mode(Text).match /\ IsConstant(3)
<1>1. PICK text, flag, mode :
        text = Text /\ flag = open_to_int_cst_arg(text, 2) /\ mode = open_to_int_cst_arg(text, 3)
  OBVIOUS
<1>2. get_args_nr(text) = Len(call)
  <2>1. CSplits /\ LeavesSplittable /\ LastHasText BY CSplitsRight DEF Supposed
  <2>2. Apart(Printed) BY <2>1, PrintedApart
  <2> QED BY <1>1, <2>2, PrintedIs, ArgsNr
<1>3. "none" \in Messages /\ "mode" \in Messages BY DEF Messages
<1>4. /\ ~IsConstant(2) => flag = 0
      /\ IsConstant(2) =>
           /\ flag # 0 /\ text[flag] \in Numerals
           /\ strtol(text[flag]).errno = 0 <=> call[2].value \in Long
           /\ call[2].value \in Long => strtol(text[flag]).value = call[2].value
  <2>1. 2 \in Nat \ {0} /\ flag = mem_to_int_cst_size(text, 2) BY <1>1 DEF open_to_int_cst_arg
  <2>2. CASE IsConstant(2)
    <3>1. PICK word, n : word = text[flag] /\ n = call[2].value OBVIOUS
    <3>2. flag # 0 /\ word \in Numerals /\ NumberIn(word) = n /\ n \in Int
      BY <1>1, <2>1, <2>2, <3>1, SizeOfArg
    <3>3. (strtol(word).errno = 0 <=> n \in Long) /\ (n \in Long => strtol(word).value = n)
      BY <3>2, Converted
    <3> QED BY <2>2, <3>1, <3>2, <3>3
  <2>3. CASE ~IsConstant(2) BY <1>1, <2>1, <2>3, SizeOfArg
  <2> QED BY <2>2, <2>3
<1>5. /\ ~IsConstant(3) => mode = 0
      /\ IsConstant(3) =>
           /\ mode # 0 /\ text[mode] \in Numerals
           /\ strtoul(text[mode]).errno = 0 <=> call[3].value \in SignedULong
           /\ call[3].value \in SignedULong => strtoul(text[mode]).value = call[3].value % ULong
  <2>1. 3 \in Nat \ {0} /\ mode = mem_to_int_cst_size(text, 3) BY <1>1 DEF open_to_int_cst_arg
  <2>2. CASE IsConstant(3)
    <3>1. PICK word, n : word = text[mode] /\ n = call[3].value OBVIOUS
    <3>2. mode # 0 /\ word \in Numerals /\ NumberIn(word) = n /\ n \in Int
      BY <1>1, <2>1, <2>2, <3>1, SizeOfArg
    <3>3. /\ strtoul(word).errno = 0 <=> n \in SignedULong
          /\ n \in SignedULong => strtoul(word).value = n % ULong
      BY <3>2, Converted
    <3> QED BY <2>2, <3>1, <3>2, <3>3
  <2>3. CASE ~IsConstant(3) BY <1>1, <2>1, <2>3, SizeOfArg
  <2> QED BY <2>2, <2>3
<1>6. open_assumes_file_exists(text).match <=> Len(call) = 2
  BY <1>2, <1>3, SimpleVerdicts DEF open_assumes_file_exists
<1>7. open_needs_mode_arg(text).match <=>
        Len(call) # 3 /\ IsConstant(2) /\ call[2].value \in CreatFlags \cap Long
  <2>1. open_needs_mode_arg(text)
          = IF Len(call) # 3 /\ flag # 0 /\ text[flag] \in Numerals
               /\ strtol(text[flag]).errno = 0 /\ strtol(text[flag]).value \in CreatFlags
            THEN Matched("none") ELSE NoMatch
    BY <1>1, <1>2 DEF open_needs_mode_arg, Unread
  <2> QED BY <1>3, <1>4, <2>1, SimpleVerdicts
<1>8. open_chk_flag_mode(text)
        = IF \/ flag # 0 /\ (text[flag] \notin Numerals \/ strtol(text[flag]).errno # 0)
             \/ mode # 0 /\ (text[mode] \notin Numerals \/ strtoul(text[mode]).errno # 0)
          THEN NoMatch
          ELSE IF mode = 0 THEN Matched("none")
          ELSE IF strtoul(text[mode]).value \in LooseModes THEN Matched("mode") ELSE NoMatch
  BY <1>1 DEF open_chk_flag_mode, Unread
<1>9. /\ open_chk_flag_mode(text).match <=>
           /\ IsConstant(2) => call[2].value \in Long
           /\ IsConstant(3) =>
                call[3].value \in SignedULong /\ call[3].value % ULong \in LooseModes
      /\ open_chk_flag_mode(text).msg = "mode" <=>
           open_chk_flag_mode(text).match /\ IsConstant(3)
  <2>1. CASE IsConstant(2) /\ call[2].value \notin Long
    <3>1. open_chk_flag_mode(text) = NoMatch BY <1>4, <1>8, <2>1
    <3> QED BY <2>1, <3>1, SimpleVerdicts
  <2>2. CASE IsConstant(2) => call[2].value \in Long
    <3>1. ~(flag # 0 /\ (text[flag] \notin Numerals \/ strtol(text[flag]).errno # 0)) BY <1>4, <2>2
    <3>2. CASE ~IsConstant(3)
      <4>1. open_chk_flag_mode(text) = Matched("none") BY <1>5, <1>8, <3>1, <3>2
      <4> QED BY <1>3, <2>2, <3>2, <4>1, SimpleVerdicts
    <3>3. CASE IsConstant(3) /\ call[3].value \notin SignedULong
      <4>1. open_chk_flag_mode(text) = NoMatch BY <1>5, <1>8, <3>3
      <4> QED BY <3>3, <4>1, SimpleVerdicts
    <3>4. CASE IsConstant(3) /\ call[3].value \in SignedULong
      <4>1. open_chk_flag_mode(text)
              = IF call[3].value % ULong \in LooseModes THEN Matched("mode") ELSE NoMatch
        BY <1>5, <1>8, <3>1, <3>4
      <4> QED BY <1>3, <2>2, <3>4, <4>1, SimpleVerdicts
    <3> QED BY <3>2, <3>3, <3>4
  <2> QED BY <2>1, <2>2
<1> QED BY <1>1, <1>6, <1>7, <1>9

(***************************************************************************)
(* Calls that are cut at a "[" of an argument.                             *)
(***************************************************************************)
(* What is left of a text that is cut behind place m: the lexemes up to    *)
(* there, and perhaps one that is plain where a plain one was.             *)
CutAfter(text, whole, m) ==
  /\ text \in Seq(Lexeme) /\ whole \in Seq(Lexeme)
  /\ m \in Nat /\ m <= Len(whole)
  /\ \A i \in 1..m : text[i] = whole[i]
  /\ Len(text) \in {m, m + 1}
  /\ Len(text) = m + 1 => m + 1 <= Len(whole) /\ text[m + 1] \in Plain /\ whole[m + 1] \in Plain

(* Up to the cut the parentheses are the same. *)
LEMMA CutDepth ==
  ASSUME NEW text, NEW whole, NEW m, CutAfter(text, whole, m),
         NEW from \in Nat \ {0}, NEW p \in from..(m + 1)
  PROVE  Depth(text, from, p) = Depth(whole, from, p)
<1>1. m \in Nat /\ \A i \in 1..m : text[i] = whole[i] BY DEF CutAfter
<1>2. ASSUME NEW i \in from..(p - 1) PROVE text[i] = whole[i]
  <2>1. i \in 1..m BY <1>1
  <2> QED BY <1>1, <2>1
<1>3. ASSUME NEW c PROVE Count(text, from, p - 1, c) = Count(whole, from, p - 1, c)
  <2>1. {i \in from..(p - 1) : text[i] = c} = {i \in from..(p - 1) : whole[i] = c} BY <1>2
  <2> QED BY <2>1 DEF Count
<1> QED BY <1>3 DEF Depth

(* An argument ends where it did, or where the text does.                  *)
LEMMA CutEnd ==
  ASSUME NEW text, NEW whole, NEW m, CutAfter(text, whole, m),
         NEW p \in Nat \ {0}
  PROVE  EndOfArg(text, p) = IF EndOfArg(whole, p) <= m THEN EndOfArg(whole, p) ELSE Len(text) + 1
<1>1. PICK n, l, e, f :
        n = Len(whole) /\ l = Len(text) /\ e = EndOfArg(whole, p) /\ f = EndOfArg(text, p)
  OBVIOUS
<1>2. /\ text \in Seq(Lexeme) /\ whole \in Seq(Lexeme) /\ m \in Nat /\ n \in Nat /\ m <= n
      /\ \A i \in 1..m : text[i] = whole[i]
      /\ l \in {m, m + 1} /\ (l = m + 1 => text[m + 1] \in Plain)
  BY <1>1 DEF CutAfter
<1>3. ASSUME NEW q \in p..m PROVE q \in Stops(text, p) <=> q \in Stops(whole, p)
  <2>1. q \in 1..m /\ q \in p..(m + 1) /\ q \in p..l /\ q \in p..n BY <1>2
  <2>2. text[q] = whole[q] BY <1>2, <2>1
  <2>3. Depth(text, p, q) = Depth(whole, p, q) BY <2>1, CutDepth
  <2> QED BY <1>1, <2>1, <2>2, <2>3 DEF Stops
<1>4. ASSUME NEW q \in Stops(text, p) PROVE q \in p..m
  <2>1. q \in p..l /\ text[q] \in {Comma, ")"} BY <1>1 DEF Stops
  <2>2. q = m + 1 => text[q] \notin Plain BY <2>1 DEF Plain
  <2>3. ~(q = m + 1 /\ l = m + 1) BY <1>2, <2>2
  <2> QED BY <1>2, <2>1, <2>3
<1>5. \/ Stops(whole, p) = {} /\ e = n + 1
      \/ e \in Stops(whole, p) /\ \A q \in Stops(whole, p) : e <= q
  BY <1>1, <1>2, EndOfArgIs
<1>6. \/ Stops(text, p) = {} /\ f = l + 1
      \/ f \in Stops(text, p) /\ \A q \in Stops(text, p) : f <= q
  BY <1>1, <1>2, EndOfArgIs
<1>7. CASE e <= m
  <2>1. e \in Stops(whole, p) /\ \A q \in Stops(whole, p) : e <= q BY <1>2, <1>5, <1>7
  <2>2. e \in p..m BY <1>1, <1>2, <1>7, <2>1 DEF Stops
  <2>3. e \in Stops(text, p) BY <1>3, <2>1, <2>2
  <2>4. f \in Stops(text, p) /\ f <= e BY <1>6, <2>3
  <2>5. f \in p..m /\ e <= f BY <1>3, <1>4, <2>1, <2>4
  <2>6. f = e BY <2>2, <2>4, <2>5
  <2> QED BY <1>1, <1>7, <2>6
<1>8. CASE ~(e <= m)
  <2>1. ASSUME NEW q \in Stops(text, p) PROVE FALSE
    <3>1. q \in p..m /\ q \in Stops(whole, p) BY <1>3, <1>4
    <3>2. e <= q /\ e \in Int BY <1>5, <3>1 DEF Stops
    <3> QED BY <1>2, <1>8, <3>1, <3>2
  <2>2. f = l + 1 BY <1>6, <2>1
  <2> QED BY <1>1, <1>8, <2>2
<1> QED BY <1>7, <1>8

(* A step of the walk finds the argument it found in the call, and goes on *)
(* to the same place or behind the text, or it finds none.                 *)
LEMMA CutNext ==
  ASSUME NEW texts, Apart(texts), NEW text, NEW m, CutAfter(text, CallText(texts), m),
         NEW k \in 1..Len(texts)
  PROVE  LET next == get_next_arg(text, IF k = 1 THEN 1 ELSE Before(texts, k) + 1) IN
         \/ next = NothingFound
         \/ /\ next.ptr = Found(texts, k).ptr /\ next.ptr <= Len(text)
            /\ next.offset = Found(texts, k).offset \/ next.offset = Len(text) + 1
<1>1. PICK whole, p, offset, n, l :
        /\ whole = CallText(texts) /\ p = Before(texts, k) + 1 /\ n = Len(whole) /\ l = Len(text)
        /\ offset = IF k = 1 THEN 1 ELSE p
  OBVIOUS
<1>2. /\ m \in Nat /\ n \in Nat /\ m <= n /\ \A i \in 1..m : text[i] = whole[i]
      /\ l \in {m, m + 1} /\ (l = m + 1 => text[m + 1] \in Plain)
  BY <1>1 DEF CutAfter
<1>3. p \in Nat /\ p >= 2
  <2>1. texts \in Seq(Seq(Lexeme)) BY DEF Apart
  <2>2. PICK o : o = Before(texts, k) OBVIOUS
  <2>3. o \in Nat /\ o >= 1 BY <2>1, <2>2, Layout
  <2> QED BY <1>1, <2>2, <2>3
<1>4. (IF offset = 1 THEN 2 ELSE offset) = p /\ offset # 0
  <2>1. CASE k = 1
    <3>1. Before(texts, 1) = 1 BY BeforeFirst DEF Apart
    <3> QED BY <1>1, <2>1, <3>1
  <2>2. CASE k # 1 BY <1>1, <1>3, <2>2
  <2> QED BY <2>1, <2>2
<1>5. get_next_arg(whole, offset) = Found(texts, k) BY <1>1, NextArgInCall
<1>6. get_next_arg(whole, offset)
        = IF offset = 0 \/ p > n \/ whole[p] = ")"
          THEN [ptr |-> 0, offset |-> 0]
          ELSE [ptr |-> p, offset |-> AfterArg(whole, EndOfArg(whole, p))]
  BY <1>1, <1>4 DEF get_next_arg
<1>7. Found(texts, k).ptr = p BY <1>1 DEF Found
<1>8. /\ ~(offset = 0 \/ p > n \/ whole[p] = ")")
      /\ Found(texts, k).offset = AfterArg(whole, EndOfArg(whole, p))
  <2>1. CASE offset = 0 \/ p > n \/ whole[p] = ")"
    <3>1. Found(texts, k) = [ptr |-> 0, offset |-> 0] BY <1>5, <1>6, <2>1
    <3> QED BY <1>3, <1>7, <3>1
  <2>2. CASE ~(offset = 0 \/ p > n \/ whole[p] = ")")
    <3>1. Found(texts, k) = [ptr |-> p, offset |-> AfterArg(whole, EndOfArg(whole, p))]
      BY <1>5, <1>6, <2>2
    <3> QED BY <2>2, <3>1
  <2> QED BY <2>1, <2>2
<1>9. PICK next : next = get_next_arg(text, offset) OBVIOUS
<1>10. next
         = IF offset = 0 \/ p > l \/ text[p] = ")"
           THEN [ptr |-> 0, offset |-> 0]
           ELSE [ptr |-> p, offset |-> AfterArg(text, EndOfArg(text, p))]
  BY <1>1, <1>4, <1>9 DEF get_next_arg
<1>11. CASE offset = 0 \/ p > l \/ text[p] = ")"
  <2>1. next = NothingFound BY <1>10, <1>11 DEF NothingFound
  <2> QED BY <1>1, <1>9, <2>1
<1>12. CASE ~(offset = 0 \/ p > l \/ text[p] = ")")
  <2>1. next = [ptr |-> p, offset |-> AfterArg(text, EndOfArg(text, p))] BY <1>10, <1>12
  <2>2. PICK e, f : e = EndOfArg(whole, p) /\ f = EndOfArg(text, p) OBVIOUS
  <2>3. f = IF e <= m THEN e ELSE l + 1
    <3>1. CutAfter(text, whole, m) /\ p \in Nat \ {0} BY <1>1, <1>3
    <3> QED BY <1>1, <2>2, <3>1, CutEnd
  <2>4. AfterArg(text, f) = AfterArg(whole, e) \/ AfterArg(text, f) = l + 1
    <3>1. CASE e <= m
      <4>1. e \in 1..m
        <5>1. whole \in Seq(Lexeme) /\ p \in Nat BY <1>1, <1>3 DEF CutAfter
        <5>2. p <= n BY <1>2, <1>3, <1>8
        <5>3. e \in Nat /\ p <= e BY <1>1, <2>2, <5>1, <5>2, EndOfArgType
        <5> QED BY <1>2, <1>3, <3>1, <5>3
      <4>2. text[e] = whole[e] /\ e <= l /\ e <= n BY <1>2, <4>1
      <4>3. f = e BY <2>3, <3>1
      <4> QED BY <1>1, <4>2, <4>3 DEF AfterArg
    <3>2. CASE ~(e <= m)
      <4>1. f = l + 1 /\ ~(f <= l) BY <1>2, <2>3, <3>2
      <4>2. AfterArg(text, f) = f BY <1>1, <4>1 DEF AfterArg
      <4> QED BY <4>1, <4>2
    <3> QED BY <3>1, <3>2
  <2>5. p <= l BY <1>2, <1>3, <1>12
  <2>6. next.ptr = p /\ next.offset = AfterArg(text, f) BY <2>1, <2>2
  <2>7. Found(texts, k).offset = AfterArg(whole, e) BY <1>8, <2>2
  <2>8. /\ next.ptr = Found(texts, k).ptr /\ next.ptr <= l
        /\ next.offset = Found(texts, k).offset \/ next.offset = l + 1
    BY <1>7, <2>4, <2>5, <2>6, <2>7
  <2> QED BY <1>1, <1>9, <2>8
<1> QED BY <1>11, <1>12

(* Where there was no argument, and behind the text, none is found.        *)
LEMMA CutBehind ==
  ASSUME NEW texts \in Seq(Seq(Lexeme)), NEW text, NEW m, CutAfter(text, CallText(texts), m)
  PROVE  /\ get_next_arg(text, IF texts = <<>> THEN 1 ELSE Len(CallText(texts))) = NothingFound
         /\ get_next_arg(text, 0) = NothingFound
         /\ \A offset \in Nat : offset > Len(text) /\ offset > 1 =>
              get_next_arg(text, offset) = NothingFound
<1>1. PICK whole, n, l : whole = CallText(texts) /\ n = Len(whole) /\ l = Len(text) OBVIOUS
<1>2. /\ m \in Nat /\ m <= n /\ \A i \in 1..m : text[i] = whole[i]
      /\ l \in {m, m + 1} /\ (l = m + 1 => m + 1 <= n /\ whole[m + 1] \in Plain)
  BY <1>1 DEF CutAfter
<1>3. n \in Nat /\ n >= 2 /\ whole[n] = ")" /\ (texts = <<>> => n = 2)
  <2>1. PICK t : t = Len(Listed(texts)) OBVIOUS
  <2>2. t \in Nat /\ n = t + 2 /\ whole[t + 2] = ")" BY <1>1, <2>1, CallTextIs
  <2>3. ASSUME texts = <<>> PROVE t = 0
    <3>1. Listed(texts) = <<>> BY <2>3, NothingListed
    <3> QED BY <2>1, <3>1
  <2> QED BY <2>2, <2>3
<1>4. PICK offset : offset = IF texts = <<>> THEN 1 ELSE n OBVIOUS
<1>5. (IF offset = 1 THEN 2 ELSE offset) = n BY <1>3, <1>4
<1>6. n > l \/ text[n] = ")"
  <2>1. CASE n <= m
    <3>1. n \in 1..m BY <1>2, <1>3, <2>1
    <3> QED BY <1>2, <1>3, <3>1
  <2>2. CASE n = m + 1 /\ l = m + 1
    <3>1. whole[n] \in Plain BY <1>2, <2>2
    <3> QED BY <1>3, <3>1 DEF Plain
  <2> QED BY <1>2, <1>3, <2>1, <2>2
<1>7. get_next_arg(text, offset) = NothingFound
  BY <1>1, <1>5, <1>6 DEF get_next_arg, NothingFound
<1>8. get_next_arg(text, 0) = NothingFound BY DEF get_next_arg, NothingFound
<1>9. ASSUME NEW o \in Nat, o > l, o > 1 PROVE get_next_arg(text, o) = NothingFound
  <2>1. (IF o = 1 THEN 2 ELSE o) = o BY <1>9
  <2> QED BY <1>1, <1>9, <2>1 DEF get_next_arg, NothingFound
<1> QED BY <1>1, <1>4, <1>7, <1>8, <1>9

(* A step of the walk over what is left, the k-th: it finds the k-th       *)
(* argument or none.                                                       *)
KthOrNone(step, texts, text, k) ==
  \/ step = NothingFound
  \/ /\ k <= Len(texts) /\ step.ptr = Found(texts, k).ptr /\ step.ptr <= Len(text)
     /\ step.offset = Found(texts, k).offset \/ step.offset = Len(text) + 1

(* So do all of them.                                                      *)
LEMMA CutWalk ==
  ASSUME NEW texts, Apart(texts), NEW text, NEW m, CutAfter(text, CallText(texts), m),
         NEW last \in Nat, NEW f, Walks(f, text, last)
  PROVE  \A k \in 1..last : KthOrNone(f[k], texts, text, k)
<1>1. PICK n, l : n = Len(texts) /\ l = Len(text) OBVIOUS
<1>2. texts \in Seq(Seq(Lexeme)) /\ n \in Nat /\ l \in Nat
  <2>1. text \in Seq(Lexeme) BY DEF CutAfter
  <2> QED BY <1>1, <2>1 DEF Apart
<1>3. /\ f[0].offset = 1
      /\ \A i \in 1..last : f[i] = get_next_arg(text, f[i - 1].offset)
  BY DEF Walks
<1>. DEFINE Right(k) == KthOrNone(f[k], texts, text, k)
            T == {k \in 0..last : k = 0 \/ Right(k)}
<1>4. 0 \in T BY <1>2
<1>5. ASSUME NEW k \in 1..last, k - 1 \in T PROVE k \in T
  <2>1. PICK b, offset : b = k - 1 /\ offset = f[k - 1].offset OBVIOUS
  <2>2. b \in 0..last /\ (b = 0 \/ Right(b)) /\ b + 1 = k BY <1>5, <2>1
  <2>3. f[k] = get_next_arg(text, offset) BY <1>3, <2>1
  <2>4. offset = (IF k = 1 THEN 1 ELSE Before(texts, k) + 1) /\ k <= n => Right(k)
    <3>1. SUFFICES ASSUME offset = IF k = 1 THEN 1 ELSE Before(texts, k) + 1, k <= n
                   PROVE  Right(k)
      OBVIOUS
    <3>2. k \in 1..Len(texts) BY <1>1, <3>1
    <3> QED BY <1>1, <2>3, <3>1, <3>2, CutNext DEF KthOrNone
  <2>5. /\ offset = (IF texts = <<>> THEN 1 ELSE Len(CallText(texts))) => Right(k)
        /\ offset = 0 => Right(k)
        /\ offset \in Nat /\ offset > l /\ offset > 1 => Right(k)
    BY <1>1, <1>2, <2>3, CutBehind DEF KthOrNone
  <2> HIDE DEF Right
  <2>6. CASE b = 0
    <3>1. k = 1 /\ offset = 1 BY <1>3, <2>1, <2>2, <2>6
    <3>2. CASE n = 0
      <4>1. texts = <<>>
        <5>1. Len(texts) = 0 BY <1>1, <3>2
        <5> QED BY ONLY <1>2, <5>1
      <4> QED BY <2>5, <3>1, <4>1
    <3>3. CASE n # 0 BY <1>2, <2>4, <3>1, <3>3
    <3> QED BY <3>2, <3>3
  <2>7. CASE b # 0 /\ f[b] = NothingFound
    <3>1. offset = 0 BY <2>1, <2>7 DEF NothingFound
    <3> QED BY <2>5, <3>1
  <2>8. CASE b # 0 /\ f[b] # NothingFound
    <3>1. /\ b <= n /\ f[b].ptr = Found(texts, b).ptr /\ f[b].ptr <= l
          /\ f[b].offset = Found(texts, b).offset \/ f[b].offset = l + 1
      BY <1>1, <2>2, <2>8 DEF Right, KthOrNone
    <3>2. offset = f[b].offset BY <2>1
    <3>3. CASE offset = l + 1
      <4>1. PICK o : o = Before(texts, b) OBVIOUS
      <4>2. b \in 1..Len(texts) BY <1>1, <1>2, <2>2, <2>8, <3>1
      <4>3. o \in Nat /\ o >= 1 BY <1>2, <4>1, <4>2, Layout
      <4>4. o + 1 <= l BY <3>1, <4>1 DEF Found
      <4> QED BY <1>2, <2>5, <3>3, <4>3, <4>4
    <3>4. CASE offset = Found(texts, b).offset /\ b = n
      <4>1. offset = Len(CallText(texts)) BY <1>1, <3>4 DEF Found
      <4>2. texts # <<>> BY <1>1, <1>2, <2>2, <2>8, <3>4
      <4> QED BY <2>5, <4>1, <4>2
    <3>5. CASE offset = Found(texts, b).offset /\ b # n
      <4>1. offset = Before(texts, k) + 1 BY <1>1, <2>2, <3>5 DEF Found
      <4>2. k # 1 /\ k <= n BY <1>2, <2>2, <2>8, <3>1, <3>5
      <4> QED BY <2>4, <4>1, <4>2
    <3> QED BY <3>1, <3>2, <3>3, <3>4, <3>5
  <2>9. Right(k) BY <2>6, <2>7, <2>8
  <2> QED BY <2>9
<1>6. 0..last \subseteq T
  <2> HIDE DEF T
  <2> QED BY <1>4, <1>5, UpTo
<1>7. ASSUME NEW k \in 1..last PROVE Right(k)
  <2>1. k \in T /\ k # 0 BY <1>6
  <2> HIDE DEF Right
  <2> QED BY <2>1
<1> QED BY <1>7

(* The argument a check asks for is that argument of the call, or none.    *)
LEMMA CutStart ==
  ASSUME NEW texts, Apart(texts), NEW text, NEW m, CutAfter(text, CallText(texts), m),
         NEW k \in Nat \ {0}, call_start_at_arg(text, k) # 0
  PROVE  /\ k \in 1..Len(texts) /\ call_start_at_arg(text, k) = Before(texts, k) + 1
         /\ call_start_at_arg(text, k) <= Len(text)
<1>1. text \in Seq(Lexeme) /\ Len(texts) \in Nat BY DEF CutAfter, Apart
<1>2. PICK f : Walks(f, text, k) /\ Walk(text, k) = [i \in 1..k |-> f[i]] BY <1>1, WalkIs
<1>3. k \in 1..k OBVIOUS
<1>4. KthOrNone(f[k], texts, text, k) BY <1>2, <1>3, CutWalk
<1>5. PICK w : w = [i \in 1..k |-> f[i]] OBVIOUS
<1>6. Len(w) = k /\ w[k] = f[k] BY <1>3, <1>5
<1>7. Last(Walk(text, k)) = f[k] BY <1>2, <1>5, <1>6 DEF Last
<1>8. call_start_at_arg(text, k) = f[k].ptr BY <1>7 DEF call_start_at_arg
<1>9. f[k] # NothingFound BY <1>8 DEF NothingFound
<1>10. k <= Len(texts) /\ f[k].ptr = Before(texts, k) + 1 /\ f[k].ptr <= Len(text)
  BY <1>4, <1>9 DEF KthOrNone, Found
<1> QED BY <1>1, <1>8, <1>10

(* Two arguments are not counted of a call that has fewer.                 *)
LEMMA CutArgs ==
  ASSUME NEW texts, Apart(texts), NEW text, NEW m, CutAfter(text, CallText(texts), m),
         get_args_nr(text) = 2
  PROVE  Len(texts) >= 2
<1>1. PICK l : l = Len(text) OBVIOUS
<1>2. text \in Seq(Lexeme) /\ l \in Nat /\ Len(texts) \in Nat BY <1>1 DEF CutAfter, Apart
<1>3. PICK f : Walks(f, text, l) /\ Walk(text, l) = [i \in 1..l |-> f[i]] BY <1>2, WalkIs
<1>4. \A k \in 1..l : KthOrNone(f[k], texts, text, k) BY <1>2, <1>3, CutWalk
<1>5. PICK w : w = Walk(text, l) OBVIOUS
<1>6. Len(w) = l /\ \A k \in 1..l : w[k] = f[k] BY <1>2, <1>3, <1>5
<1>. DEFINE I == {i \in 1..Len(w) : w[i].ptr = 0}
<1>7. SelectInSeq(w, LAMBDA step : step.ptr = 0) = IF I # {} THEN Min(I) ELSE 0
  BY DEF SelectInSeq
<1>8. get_args_nr(text) = SelectInSeq(w, LAMBDA step : step.ptr = 0) - 1
  BY <1>1, <1>5 DEF get_args_nr
<1>9. I \subseteq 1..l /\ \A i \in 1..l : i \in I <=> w[i].ptr = 0 BY <1>6
<1> HIDE DEF I
<1>10. I # {} /\ Min(I) = 3
  <2>1. CASE I = {} BY <1>7, <1>8, <2>1
  <2>2. CASE I # {}
    <3>1. PICK x : x = Min(I) OBVIOUS
    <3>2. x = CHOOSE y \in I : \A i \in I : y <= i BY <3>1 DEF Min
    <3>3. \E y \in I : \A i \in I : y <= i
      <4>1. I \subseteq Nat BY <1>9
      <4> QED BY <2>2, <4>1, LeastNatural
    <3>4. x \in I BY <3>2, <3>3, Zenon
    <3>5. x \in Int /\ x - 1 = 2 BY <1>7, <1>8, <1>9, <2>2, <3>1, <3>4
    <3> QED BY <2>2, <3>1, <3>5
  <2> QED BY <2>1, <2>2
<1>11. 3 \in I /\ \A i \in I : 3 <= i
  <2>1. PICK x : x = Min(I) OBVIOUS
  <2>2. x = CHOOSE y \in I : \A i \in I : y <= i BY <2>1 DEF Min
  <2>3. \E y \in I : \A i \in I : y <= i
    <3>1. I \subseteq Nat BY <1>9
    <3> QED BY <1>10, <3>1, LeastNatural
  <2>4. x \in I /\ \A i \in I : x <= i BY <2>2, <2>3, Zenon
  <2> QED BY <1>10, <2>1, <2>4
<1>12. 2 \in 1..l /\ 2 \notin I BY <1>2, <1>9, <1>11
<1>13. w[2].ptr # 0 BY <1>9, <1>12
<1>14. f[2] # NothingFound BY <1>6, <1>12, <1>13 DEF NothingFound
<1>15. 2 <= Len(texts) BY <1>4, <1>12, <1>14 DEF KthOrNone
<1> QED BY <1>2, <1>15

(* A "[" is neither a comma nor a parenthesis. *)
LEMMA BracketApart == Bracket # Comma /\ Bracket # ")"
BY DEF Bracket, Comma

(* No constant that is a number has a "[" in its text. *)
LEMMA ConstantNoBracket ==
  ASSUME NEW c \in Constants, ~c.type.pointer
  PROVE  \A j \in 1..Len(Leaf(c)) : Leaf(c)[j] # Bracket
<1>. DEFINE V == Plain \ {Bracket}
<1>1. {IntCst, Blank, "u", "l", "ll"} \subseteq V
  <2>1. {IntCst, Blank, "u", "l", "ll"} \subseteq Plain BY PlainWords DEF IntCst
  <2>2. /\ IntCst # Bracket /\ Blank # Bracket /\ "u" # Bracket /\ "l" # Bracket
        /\ "ll" # Bracket
    BY DEF IntCst, Blank, Bracket
  <2> QED BY <2>1, <2>2
<1>2. Digits[__get_int_cst(c)] \in V
  <2>1. __get_int_cst(c) \in DOMAIN Digits BY DEF Constants
  <2> QED BY <2>1, WordsAssumption
<1>3. c.type \in [unsigned : BOOLEAN, long : {"none", "l", "ll"}, pointer : BOOLEAN]
  BY DEF Constants
<1> HIDE DEF V
<1>4. <<IntCst, Blank, Digits[__get_int_cst(c)]>> \in Seq(V) BY <1>1, <1>2, ShortTexts
<1>5. (IF c.type.unsigned THEN <<"u">> ELSE <<>>) \in Seq(V) BY <1>1, ShortTexts
<1>6. (IF c.type.long # "none" THEN <<c.type.long>> ELSE <<>>) \in Seq(V)
  <2>1. c.type.long \in {"none", "l", "ll"} BY <1>3
  <2>2. CASE c.type.long = "none" BY <2>2, ShortTexts
  <2>3. CASE c.type.long # "none"
    <3>1. c.type.long \in V BY <1>1, <2>1, <2>3
    <3> QED BY <2>3, <3>1, ShortTexts
  <2> QED BY <2>2, <2>3
<1>7. Suffix(c.type) \in Seq(V)
  <2>1. Suffix(c.type) = (IF c.type.unsigned THEN <<"u">> ELSE <<>>)
                           \o (IF c.type.long # "none" THEN <<c.type.long>> ELSE <<>>)
    BY DEF Suffix
  <2> QED BY <1>5, <1>6, <2>1, ConcatParts
<1>8. Leaf(c) = (<<>> \o <<IntCst, Blank, Digits[__get_int_cst(c)]>>) \o Suffix(c.type)
  <2>1. (IF c.type.pointer THEN <<"<pointer_type>", Blank>> ELSE <<>>) = <<>> OBVIOUS
  <2> QED BY <2>1, IntText
<1>9. <<>> \o <<IntCst, Blank, Digits[__get_int_cst(c)]>> \in Seq(V)
  <2>1. <<>> \in Seq(V) BY ShortTexts
  <2> QED BY <1>4, <2>1, ConcatParts
<1>10. Leaf(c) \in Seq(V) BY <1>7, <1>8, <1>9, ConcatParts
<1>11. ASSUME NEW j \in 1..Len(Leaf(c)) PROVE Leaf(c)[j] # Bracket
  <2>1. Leaf(c)[j] \in V BY <1>10, ElementOfSeq
  <2> QED BY <2>1 DEF V
<1> QED BY <1>11

(* What the matcher hands over of a call that fits is the call, cut.       *)
LEMMA BufferCut ==
  ASSUME TypeOK, Len(Text) < TmpBuf
  PROVE  /\ CutAfter(tmp_buffer(Line), Text, Copied(Line) - 1)
         /\ \A i \in 1..Len(Text) : i = Copied(Line) + 1 => Text[i] = Bracket
<1>1. PICK t, c, m : t = tmp_buffer(Line) /\ c = Copied(Line) /\ m = c - 1 OBVIOUS
<1>2. /\ c \in Nat \ {0} /\ c <= Len(Text) + 1 /\ Line[c + 1] = Bracket
  BY <1>1, CopiedIs
<1>3. /\ Text \in Seq(Lexeme) /\ Len(Text) \in Nat /\ \A i \in 1..Len(Text) : Line[i] = Text[i]
  BY LineIs
<1>4. /\ t \in Seq(Lexeme) /\ Len(t) \in {m, c} /\ \A i \in 1..m : t[i] = Text[i]
      /\ Len(t) = c => t[c] \in Plain /\ c <= Len(Text) /\ Text[c] \in Plain
  BY <1>1, BufferIs
<1>5. m \in Nat /\ m <= Len(Text) /\ m + 1 = c BY <1>1, <1>2, <1>3
<1>6. CutAfter(t, Text, m) BY <1>3, <1>4, <1>5 DEF CutAfter
<1>7. \A i \in 1..Len(Text) : i = c + 1 => Text[i] = Bracket BY <1>2, <1>3
<1> QED BY <1>1, <1>6, <1>7

(* So what is read there of an argument is what the argument is.           *)
LEMMA CutRead ==
  ASSUME TypeOK, Supposed, Len(Text) < TmpBuf, NEW k \in Nat \ {0}
  PROVE  ReadIn(tmp_buffer(Line), k)
<1>1. PICK t, m, text, n, p, v, l :
        /\ t = tmp_buffer(Line) /\ m = Copied(Line) - 1 /\ text = Text /\ n = Len(call)
        /\ p = call_start_at_arg(t, k) /\ v = mem_to_int_cst_size(t, k) /\ l = Len(t)
  OBVIOUS
<1>2. SUFFICES ASSUME v # 0
               PROVE  /\ IsConstant(k) /\ call[k].value \in Int
                      /\ t[v] \in Numerals /\ NumberIn(t[v]) = call[k].value
  BY <1>1 DEF ReadIn
<1>3. /\ CutAfter(t, text, m) /\ Copied(Line) \in Nat
      /\ \A i \in 1..Len(text) : i = m + 2 => text[i] = Bracket
  <2>1. Copied(Line) \in Nat /\ Copied(Line) + 1 = m + 2 BY <1>1, CopiedIs
  <2> QED BY <1>1, <2>1, BufferCut
<1>4. /\ t \in Seq(Lexeme) /\ text \in Seq(Lexeme) /\ m \in Nat /\ l \in Nat /\ Len(text) \in Nat
      /\ m <= Len(text) /\ \A i \in 1..m : t[i] = text[i]
      /\ l \in {m, m + 1} /\ (l = m + 1 => m + 1 <= Len(text) /\ text[m + 1] \in Plain)
  BY <1>1, <1>3 DEF CutAfter
<1>5. /\ Printed \in Seq(Seq(Lexeme)) /\ Len(Printed) = n /\ n \in Nat
      /\ DOMAIN call = 1..n /\ text = CallText(Printed)
      /\ \A i \in 1..n : call[i] \in Operands /\ Printed[i] = ArgText(call[i])
  BY <1>1, PrintedIs
<1>6. Apart(Printed) /\ \A i \in 1..n : Splittable(Printed[i])
  BY <1>1, PrintedApart DEF Supposed
<1>7. /\ p # 0 /\ p < l /\ t[p] = IntCst /\ t[p + 1] = Blank /\ v = get_arg_value(t, p)
  BY <1>1, <1>2 DEF mem_to_int_cst_size
<1>8. k \in 1..n /\ p = Before(Printed, k) + 1 BY <1>1, <1>3, <1>5, <1>6, <1>7, CutStart
<1>9. PICK o, a, e :
        o = Before(Printed, k) /\ a = Printed[k] /\ e = o + Len(Printed[k]) + 1
  OBVIOUS
<1>10. /\ a \in Seq(Lexeme) /\ o \in Nat /\ o >= 1 /\ Len(a) \in Nat /\ e <= Len(text)
       /\ \A j \in 1..Len(a) : text[o + j] = a[j]
       /\ k = n => e = Len(text)
       /\ k # n => text[e] = Comma
  BY <1>5, <1>8, <1>9, Layout
<1>11. text[e] \in {Comma, ")"} /\ e \in Nat
  <2>1. text[Len(text)] = ")" BY <1>1, LineIs
  <2> QED BY <1>9, <1>10, <2>1
<1>12. p = o + 1 /\ p \in 1..m /\ text[p] = IntCst
  <2>1. p = o + 1 BY <1>8, <1>9
  <2>2. p \in 1..m BY <1>4, <1>7, <1>10, <2>1
  <2> QED BY <1>4, <1>7, <2>1, <2>2
<1>13. a # <<>> /\ a[1] = IntCst
  <2>1. CASE a = <<>>
    <3>1. e = p BY <1>9, <1>10, <1>12, <2>1
    <3>2. IntCst \in Plain BY PlainWords DEF IntCst
    <3> QED BY <1>11, <1>12, <3>1, <3>2 DEF Plain
  <2>2. CASE a # <<>>
    <3>1. 1 \in 1..Len(a) BY <1>10, <2>2
    <3> QED BY <1>10, <1>12, <2>2, <3>1
  <2> QED BY <2>1, <2>2
<1>14. IsConstant(k)
  <2>1. ~ConstantInFront(k) BY <1>5, <1>8 DEF Supposed
  <2> QED BY <1>9, <1>13, <2>1 DEF ConstantInFront
<1>15. PICK c : c = call[k] OBVIOUS
<1>16. c.kind = "int" /\ ~c.type.pointer /\ ~Misprinted(c)
  BY <1>5, <1>8, <1>14, <1>15 DEF IsConstant, Supposed
<1>17. c \in Constants
  <2>1. c \in Leaves \cup Statements BY <1>5, <1>8, <1>15, OperandsAssumption
  <2>2. c \notin Statements BY <1>16, StatementShape
  <2> QED BY <1>16, <2>1, <2>2 DEF Leaves
<1>18. a = Leaf(c) BY <1>5, <1>8, <1>9, <1>15, <1>16 DEF ArgText
<1>19. NumberAt(c) = 3 /\ 3 \in 1..Len(a) BY <1>16, <1>17, <1>18, ConstantText DEF NumberAt
<1>20. e <= m + 1
  <2>1. SUFFICES ASSUME e > m + 1 PROVE FALSE BY <1>4, <1>11
  <2>2. PICK j : j = m + 2 - o OBVIOUS
  <2>3. o + j = m + 2 /\ j \in 1..(Len(a) + 1) /\ m + 2 \in 1..Len(text)
    <3>1. PICK b, x : b = Len(a) /\ x = Len(text) OBVIOUS
    <3>2. /\ o \in Nat /\ b \in Nat /\ m \in Nat /\ x \in Nat /\ e = o + b + 1 /\ e <= x
          /\ o + 1 <= m /\ e > m + 1
      BY <1>4, <1>9, <1>10, <1>12, <2>1, <3>1
    <3>3. o + j = m + 2 /\ j \in 1..(b + 1) /\ m + 2 \in 1..x BY ONLY <2>2, <3>2
    <3> QED BY <3>1, <3>3
  <2>4. text[m + 2] = Bracket BY <1>3, <2>3
  <2>5. CASE j \in 1..Len(a)
    <3>1. a[j] = Bracket BY <1>10, <2>3, <2>4, <2>5
    <3>2. a[j] # Bracket BY <1>16, <1>17, <1>18, <2>5, ConstantNoBracket
    <3> QED BY <3>1, <3>2
  <2>6. CASE j = Len(a) + 1
    <3>1. e = m + 2 BY <1>4, <1>9, <1>10, <2>3, <2>6
    <3>2. Bracket # Comma /\ Bracket # ")" BY BracketApart
    <3> QED BY <1>11, <2>4, <3>1, <3>2
  <2> QED BY <1>10, <2>3, <2>5, <2>6
<1>21. EndOfArg(t, p) = e
  <2>1. EndOfArg(text, p) = e
    <3>1. /\ o + Len(a) + 1 <= Len(text)
          /\ text[o + Len(a) + 1] \in {Comma, ")"}
      BY <1>9, <1>10, <1>11
    <3>2. Splittable(a) BY <1>6, <1>8, <1>9
    <3>3. EndOfArg(text, o + 1) = o + Len(a) + 1 BY <1>4, <1>10, <3>1, <3>2, EndOfArgFinds
    <3> QED BY <1>9, <1>12, <3>3
  <2>2. EndOfArg(t, p) = IF e <= m THEN e ELSE l + 1
    <3>1. p \in Nat \ {0} BY <1>12
    <3> QED BY <1>1, <1>3, <2>1, <3>1, CutEnd
  <2>3. ~(e <= m) => l + 1 = e
    <3>1. SUFFICES ASSUME ~(e <= m) PROVE l + 1 = e OBVIOUS
    <3>2. e = m + 1 BY <1>4, <1>11, <1>20, <3>1
    <3>3. l # m + 1
      <4>1. text[e] \notin Plain BY <1>11 DEF Plain
      <4> QED BY <1>4, <3>2, <4>1
    <3> QED BY <1>4, <3>2, <3>3
  <2> QED BY <2>2, <2>3
<1>22. /\ EndOfArg(t, o + 1) = o + Len(Leaf(c)) + 1
       /\ \A j \in 1..Len(Leaf(c)) : t[o + j] = Leaf(c)[j]
  <2>1. ASSUME NEW j \in 1..Len(a) PROVE t[o + j] = a[j]
    <3>1. PICK b : b = Len(a) OBVIOUS
    <3>2. o \in Nat /\ b \in Nat /\ m \in Nat /\ e = o + b + 1 /\ e <= m + 1 /\ j \in 1..b
      BY <1>4, <1>9, <1>10, <1>20, <3>1
    <3>3. o + j \in 1..m BY ONLY <3>2
    <3> QED BY <1>4, <1>10, <3>3
  <2> QED BY <1>9, <1>12, <1>18, <1>21, <2>1
<1>23. /\ get_arg_value(t, o + 1) = o + NumberAt(c)
       /\ t[o + NumberAt(c)] \in Numerals
       /\ ~Misprinted(c) => NumberIn(t[o + NumberAt(c)]) = c.value
  BY <1>4, <1>10, <1>17, <1>22, ConstantValue
<1>24. v = o + NumberAt(c) BY <1>7, <1>12, <1>23
<1>25. c.value \in Int BY <1>17 DEF Constants
<1> QED BY <1>14, <1>15, <1>16, <1>23, <1>24, <1>25

(* The checks of open(), of a call that is cut.                            *)
LEMMA CutOpen ==
  ASSUME TypeOK, Supposed, Len(Text) < TmpBuf
  PROVE  /\ open_assumes_file_exists(tmp_buffer(Line)).match => Len(call) >= 2
         /\ open_needs_mode_arg(tmp_buffer(Line)).match =>
              IsConstant(2) /\ call[2].value \in CreatFlags \cap Long
         /\ open_chk_flag_mode(tmp_buffer(Line)).msg = "mode" =>
              /\ IsConstant(3)
              /\ call[3].value \in SignedULong /\ call[3].value % ULong \in LooseModes
<1>1. PICK t, flag, mode :
        /\ t = tmp_buffer(Line) /\ flag = mem_to_int_cst_size(t, 2)
        /\ mode = mem_to_int_cst_size(t, 3)
  OBVIOUS
<1>2. "none" \in Messages /\ "mode" \in Messages BY DEF Messages
<1>3. ASSUME open_assumes_file_exists(t).match PROVE Len(call) >= 2
  <2>1. get_args_nr(t) = 2 BY <1>3, SimpleVerdicts DEF open_assumes_file_exists
  <2>2. CutAfter(t, CallText(Printed), Copied(Line) - 1) BY <1>1, BufferCut, PrintedIs
  <2>3. Apart(Printed) BY PrintedApart DEF Supposed
  <2> QED BY <2>1, <2>2, <2>3, CutArgs, PrintedIs
<1>4. ASSUME open_needs_mode_arg(t).match
      PROVE  IsConstant(2) /\ call[2].value \in CreatFlags \cap Long
  <2>1. PICK word, n : word = t[flag] /\ n = call[2].value OBVIOUS
  <2>2. flag # 0 /\ strtol(word).errno = 0 /\ strtol(word).value \in CreatFlags
    BY <1>1, <1>4, <2>1, SimpleVerdicts DEF open_needs_mode_arg, open_to_int_cst_arg, Unread
  <2>3. IsConstant(2) /\ n \in Int /\ NumberIn(word) = n
    <3>1. 2 \in Nat \ {0} OBVIOUS
    <3>2. ReadIn(t, 2) BY <1>1, <3>1, CutRead
    <3> QED BY <1>1, <2>1, <2>2, <3>2 DEF ReadIn
  <2>4. n \in Long /\ strtol(word).value = n BY <2>2, <2>3, Converted
  <2> QED BY <2>1, <2>2, <2>3, <2>4
<1>5. ASSUME open_chk_flag_mode(t).msg = "mode"
      PROVE  /\ IsConstant(3)
             /\ call[3].value \in SignedULong /\ call[3].value % ULong \in LooseModes
  <2>1. PICK word, n : word = t[mode] /\ n = call[3].value OBVIOUS
  <2>2. "mode" # "none" OBVIOUS
  <2>3. mode # 0 /\ strtoul(word).errno = 0 /\ strtoul(word).value \in LooseModes
    <3>1. open_chk_flag_mode(t) # NoMatch /\ open_chk_flag_mode(t) # Matched("none")
      BY <1>2, <1>5, <2>2, SimpleVerdicts
    <3> QED BY <1>1, <2>1, <3>1 DEF open_chk_flag_mode, open_to_int_cst_arg, Unread
  <2>4. IsConstant(3) /\ n \in Int /\ NumberIn(word) = n
    <3>1. 3 \in Nat \ {0} OBVIOUS
    <3>2. ReadIn(t, 3) BY <1>1, <3>1, CutRead
    <3> QED BY <1>1, <2>1, <2>3, <3>2 DEF ReadIn
  <2>5. n \in SignedULong /\ strtoul(word).value = n % ULong BY <2>3, <2>4, Converted
  <2> QED BY <2>1, <2>3, <2>4, <2>5
<1> QED BY <1>1, <1>3, <1>4, <1>5

(* Nothing else is reported of a cut call. *)
LEMMA CutsHide == ASSUME IInv PROVE CutOnlyHides
<1>1. SUFFICES ASSUME Len(Text) < TmpBuf, Supposed, verdict.match
               PROVE  CASE check = "open_assumes_file_exists" -> Len(call) >= 2
                        [] check = "open_needs_mode_arg" ->
                             IsConstant(2) /\ call[2].value \in CreatFlags \cap Long
                        [] check = "open_chk_flag_mode" ->
                             verdict.msg = "mode" =>
                               /\ IsConstant(3)
                               /\ call[3].value \in SignedULong
                               /\ call[3].value % ULong \in LooseModes
                        [] check \in {"malloc", "kmalloc", "kzalloc"} -> verdict = SizeVerdict(1)
                        [] check \in {"strndup", "strndupa"} -> verdict = SizeVerdict(2)
                        [] OTHER -> verdict = SizeVerdict(3)
  BY DEF CutOnlyHides, Supposed
<1>2. TypeOK /\ check \in Checks \cup {"none"}
      /\ IF check = "none" THEN verdict = NoMatch ELSE verdict \in Outcomes(check, Line)
  BY DEF IInv, VerdictIs, TypeOK
<1>3. check # "none" BY <1>1, <1>2, SimpleVerdicts
<1>4. PICK t : t = tmp_buffer(Line) OBVIOUS
<1>5. check \in Checks /\ verdict = Run(check, t)
  <2>1. check \in Checks /\ verdict \in Outcomes(check, Line) BY <1>2, <1>3
  <2>2. ~Overruns(Line) BY <1>1, <1>2, NoOverrun
  <2>3. Outcomes(check, Line) = {Run(check, t)} BY <1>4, <2>2 DEF Outcomes
  <2> QED BY <2>1, <2>3
<1>6. CASE check = "open_assumes_file_exists"
  <2>1. verdict = open_assumes_file_exists(t) BY <1>5, <1>6, RunIs
  <2>2. Len(call) >= 2 BY <1>1, <1>2, <1>4, <2>1, CutOpen
  <2> QED BY <1>6, <2>2
<1>7. CASE check = "open_needs_mode_arg"
  <2>1. verdict = open_needs_mode_arg(t) BY <1>5, <1>7, RunIs
  <2>2. IsConstant(2) /\ call[2].value \in CreatFlags \cap Long
    BY <1>1, <1>2, <1>4, <2>1, CutOpen
  <2> QED BY <1>7, <2>2
<1>8. CASE check = "open_chk_flag_mode"
  <2>1. verdict = open_chk_flag_mode(t) BY <1>5, <1>8, RunIs
  <2>2. verdict.msg = "mode" =>
          /\ IsConstant(3)
          /\ call[3].value \in SignedULong /\ call[3].value % ULong \in LooseModes
    BY <1>1, <1>2, <1>4, <2>1, CutOpen
  <2> QED BY <1>8, <2>2
<1>9. CASE check \notin {"open_assumes_file_exists", "open_needs_mode_arg", "open_chk_flag_mode"}
  <2>1. verdict = mem_chk_common_size(t, SizeArg(check)) BY <1>5, <1>9, RunIs
  <2>2. SizeArg(check) \in Nat \ {0} BY DEF SizeArg
  <2>3. ReadIn(t, SizeArg(check)) BY <1>1, <1>2, <1>4, <2>2, CutRead
  <2>4. verdict = SizeVerdict(SizeArg(check)) BY <1>1, <2>1, <2>3, SizeRead, SimpleVerdicts
  <2>5. CASE check \in {"malloc", "kmalloc", "kzalloc"}
    <3>1. verdict = SizeVerdict(1) BY <2>4, <2>5 DEF SizeArg
    <3> QED BY <1>9, <2>5, <3>1
  <2>6. CASE check \in {"strndup", "strndupa"}
    <3>1. verdict = SizeVerdict(2) BY <2>4, <2>6 DEF SizeArg
    <3> QED BY <1>9, <2>6, <3>1
  <2>7. CASE check \notin {"malloc", "kmalloc", "kzalloc", "strndup", "strndupa"}
    <3>1. verdict = SizeVerdict(3) BY <2>4, <2>7 DEF SizeArg
    <3> QED BY <1>9, <2>7, <3>1
  <2> QED BY <2>5, <2>6, <2>7
<1> QED BY <1>6, <1>7, <1>8, <1>9

(* In each of them the verdict is the right one. *)
LEMMA VerdictsRight == ASSUME IInv PROVE VerdictRight
<1>1. SUFFICES ASSUME HandedWhole, Supposed
               PROVE  CASE check = "none" -> verdict = NoMatch
                        [] check = "open_assumes_file_exists" -> verdict.match <=> Len(call) = 2
                        [] check = "open_needs_mode_arg" ->
                             verdict.match <=>
                               /\ Len(call) # 3 /\ IsConstant(2)
                               /\ call[2].value \in CreatFlags \cap Long
                        [] check = "open_chk_flag_mode" ->
                             /\ verdict.match <=>
                                  /\ IsConstant(2) => call[2].value \in Long
                                  /\ IsConstant(3) =>
                                       /\ call[3].value \in SignedULong
                                       /\ call[3].value % ULong \in LooseModes
                             /\ verdict.msg = "mode" <=> verdict.match /\ IsConstant(3)
                        [] check \in {"malloc", "kmalloc", "kzalloc"} -> verdict = SizeVerdict(1)
                        [] check \in {"strndup", "strndupa"} -> verdict = SizeVerdict(2)
                        [] OTHER -> verdict = SizeVerdict(3)
  BY DEF VerdictRight, Supposed
<1>2. TypeOK /\ check \in Checks \cup {"none"}
      /\ IF check = "none" THEN verdict = NoMatch ELSE verdict \in Outcomes(check, Line)
  BY DEF IInv, VerdictIs, TypeOK
<1>3. CASE check = "none" BY <1>2, <1>3
<1>4. CASE check # "none"
  <2>1. check \in Checks /\ verdict = Run(check, Text)
    <3>1. check \in Checks /\ verdict \in Outcomes(check, Line) BY <1>2, <1>4
    <3>2. ~Overruns(Line) /\ tmp_buffer(Line) = Text
      <4>1. Len(Text) < TmpBuf BY <1>1 DEF HandedWhole
      <4> QED BY <1>1, <1>2, <4>1, NoOverrun, BufferIs
    <3>3. Outcomes(check, Line) = {Run(check, Text)} BY <3>2 DEF Outcomes
    <3> QED BY <3>1, <3>3
  <2>2. CASE check = "open_assumes_file_exists"
    <3>1. verdict = open_assumes_file_exists(Text) BY <2>1, <2>2, RunIs
    <3>2. verdict.match <=> Len(call) = 2 BY <1>1, <1>2, <3>1, OpenRight
    <3> QED BY <2>2, <3>2
  <2>3. CASE check = "open_needs_mode_arg"
    <3>1. verdict = open_needs_mode_arg(Text) BY <2>1, <2>3, RunIs
    <3>2. verdict.match <=>
            Len(call) # 3 /\ IsConstant(2) /\ call[2].value \in CreatFlags \cap Long
      BY <1>1, <1>2, <3>1, OpenRight
    <3> QED BY <2>3, <3>2
  <2>4. CASE check = "open_chk_flag_mode"
    <3>1. verdict = open_chk_flag_mode(Text) BY <2>1, <2>4, RunIs
    <3>2. /\ verdict.match <=>
               /\ IsConstant(2) => call[2].value \in Long
               /\ IsConstant(3) =>
                    call[3].value \in SignedULong /\ call[3].value % ULong \in LooseModes
          /\ verdict.msg = "mode" <=> verdict.match /\ IsConstant(3)
      BY <1>1, <1>2, <3>1, OpenRight
    <3> QED BY <2>4, <3>2
  <2>5. CASE check \notin {"open_assumes_file_exists", "open_needs_mode_arg", "open_chk_flag_mode"}
    <3>1. verdict = mem_chk_common_size(Text, SizeArg(check)) BY <2>1, <2>5, RunIs
    <3>2. SizeArg(check) \in Nat \ {0} BY DEF SizeArg
    <3>3. verdict = SizeVerdict(SizeArg(check)) BY <1>1, <1>2, <3>1, <3>2, SizeRight
    <3>4. CASE check \in {"malloc", "kmalloc", "kzalloc"}
      <4>1. verdict = SizeVerdict(1) BY <3>3, <3>4 DEF SizeArg
      <4> QED BY <1>4, <2>5, <3>4, <4>1
    <3>5. CASE check \in {"strndup", "strndupa"}
      <4>1. verdict = SizeVerdict(2) BY <3>3, <3>5 DEF SizeArg
      <4> QED BY <1>4, <2>5, <3>5, <4>1
    <3>6. CASE check \notin {"malloc", "kmalloc", "kzalloc", "strndup", "strndupa"}
      <4>1. verdict = SizeVerdict(3) BY <3>3, <3>6 DEF SizeArg
      <4> QED BY <1>4, <2>5, <3>6, <4>1
    <3> QED BY <3>4, <3>5, <3>6
  <2> QED BY <2>2, <2>3, <2>4, <2>5
<1> QED BY <1>3, <1>4

(* The types of all variables; a callback of fncalls_checks/ that returns  *)
(* REG_NOMATCH has written no message, whatever the text of the call.      *)
THEOREM TypeCorrect == Spec => []TypeOK
<1>1. IInv => TypeOK BY DEF IInv
<1> QED BY <1>1, SpecIInv, PTL

(* What get_arg_value and strtol or strtoul find in the text               *)
(* output_int_cst printed for a constant is the constant, of every type,   *)
(* sign and word size, if it fits in a long or an unsigned long, and an    *)
(* error if it does not; but for one that the printer itself gets wrong.   *)
THEOREM ConstantsRead == Spec => []ConstantsReadBack
<1>1. IInv => ConstantsReadBack BY ReadBackRight DEF IInv
<1> QED BY <1>1, SpecIInv, PTL

(* Wherever regexp_match_cargs cuts the line of a call, and whatever       *)
(* parentheses and commas a string in it has, a walk of get_next_arg over  *)
(* what is left stays between its first character and its Nul, or ends one *)
(* place behind it if the cut was right behind a comma (checks-utils.c).   *)
THEOREM OffsetsStay == Spec => []OffsetsInText
<1>1. IInv => OffsetsInText BY OffsetsRight DEF IInv
<1> QED BY <1>1, SpecIInv, PTL

(* Of a call that regexp_match_cargs hands over whole, the C splitter      *)
(* finds every argument where the plugin printed it and counts as many as  *)
(* there are, for calls of any length and nesting.                         *)
THEOREM CSplitterRight == Spec => []CSplits
<1>1. IInv => CSplits BY CSplitsRight DEF IInv
<1> QED BY <1>1, SpecIInv, PTL

(* The splitter of parser.py returns the arguments of every call as they   *)
(* were printed, as many as it is asked for.                               *)
THEOREM PySplitterRight == Spec => []PySplits
<1>1. IInv => PySplits BY PySplitsRight DEF IInv
<1> QED BY <1>1, SpecIInv, PTL

(* Of a call that regexp_match_cargs hands over whole, the verdict of each *)
(* check of fncalls_checks/ is decided by the value of the argument it is  *)
(* about, with nothing decided by a number out of range, and by no other.  *)
THEOREM VerdictsAreRight == Spec => []VerdictRight
<1>1. IInv => VerdictRight BY VerdictsRight
<1> QED BY <1>1, SpecIInv, PTL

(* A call that regexp_match_cargs cuts at a "[" of an argument may lose    *)
(* arguments, but each size, flag and mode a check reports of it is that   *)
(* of the call.                                                            *)
THEOREM CutsOnlyHide == Spec => []CutOnlyHides
<1>1. IInv => CutOnlyHides BY CutsHide
<1> QED BY <1>1, SpecIInv, PTL
=============================================================================
