--------------------------- MODULE SequenceLemmas ---------------------------
(***************************************************************************)
(* What several proofs need of numbers and of sequences of sequences.      *)
(* Induction over them goes by the least number for which something would  *)
(* not hold.                                                               *)
(***************************************************************************)
EXTENDS Naturals, SequencesExt, WellFoundedInduction, TLAPS

(* A set of numbers has a least one: what induction on them comes down to.  *)
LEMMA LeastNat ==
  ASSUME NEW T \in SUBSET Nat, T # {}
  PROVE  \E x \in T : \A y \in T : x <= y
<1>1. PICK x \in T : \A y \in T : ~(<<y, x>> \in OpToRel(<, Nat))
  BY NatLessThanWellFounded, WFMin, Zenon
<1>2. \A a, b \in Nat : a < b => <<a, b>> \in OpToRel(<, Nat)
  BY Zenon DEF OpToRel
<1>3. \A y \in T : ~(y < x)
  BY <1>1, <1>2, Zenon
<1> QED
  BY <1>3

(* A set that has 0, and with a number less than n the next one, has all    *)
(* numbers up to n.                                                         *)
LEMMA UpTo ==
  ASSUME NEW n \in Nat, NEW T, 0 \in T, \A i \in 0..(n - 1) : i \in T => i + 1 \in T
  PROVE  0..n \subseteq T
<1> DEFINE B == {i \in 0..n : i \notin T}
<1> SUFFICES ASSUME B # {} PROVE FALSE
  OBVIOUS
<1>1. PICK m \in B : \A y \in B : m <= y
  <2>1. B \in SUBSET Nat
    OBVIOUS
  <2> QED
    BY <2>1, LeastNat
<1>2. m # 0 /\ m \in 0..n
  OBVIOUS
<1>3. m - 1 \in 0..(n - 1) /\ (m - 1) + 1 = m /\ ~(m <= m - 1) /\ m - 1 \in 0..n
  BY <1>2
<1>4. m - 1 \in T
  BY <1>1, <1>3
<1> QED
  BY <1>3, <1>4

(* One more element.                                                        *)
LEMMA Appended ==
  ASSUME NEW U, NEW s \in Seq(U), NEW x \in U
  PROVE  /\ Append(s, x) \in Seq(U)
         /\ Len(Append(s, x)) = Len(s) + 1
         /\ Append(s, x)[Len(s) + 1] = x
         /\ \A i \in 1..Len(s) : Append(s, x)[i] = s[i]
OBVIOUS

LEMMA NoElements ==
  ASSUME NEW U, NEW s \in Seq(U), Len(s) = 0 PROVE s = <<>>
OBVIOUS

(* The beginnings of the text that FlattenSeq makes of a sequence.          *)
LEMMA FlattenPrefixes ==
  ASSUME NEW S, NEW ss \in Seq(Seq(S))
  PROVE  \E f : /\ f[0] = <<>>
                /\ \A i \in 1..Len(ss) : f[i] = f[i - 1] \o ss[i]
                /\ \A i \in 0..Len(ss) : f[i] \in Seq(S)
                /\ FlattenSeq(ss) = f[Len(ss)]
<1> DEFINE n == Len(ss)
<1>1. n \in Nat
  OBVIOUS
<1>2. \A i \in 1..n : ss[i] \in Seq(S)
  OBVIOUS
<1> HIDE DEF n
<1> DEFINE From(f, i) == IF i = 1 THEN ss[i] ELSE f[i - 1] \o ss[i]
           T == {m \in Nat : \E f : f = [i \in 1..m |-> From(f, i)]}
<1>3. n \in T
  <2>1. 0 \in T
    <3>1. 1..0 = {} /\ 0 \in Nat
      OBVIOUS
    <3>2. \E f : f = [i \in {} |-> From(f, i)]
      <4> DEFINE h == [i \in {} |-> 0]
      <4>1. h = [i \in {} |-> From(h, i)]
        OBVIOUS
      <4> QED
        BY <4>1, Zenon
    <3> QED
      BY <3>1, <3>2, Zenon
  <2>2. ASSUME NEW m \in 0..(n - 1), m \in T PROVE m + 1 \in T
    <3>1. PICK g : g = [i \in 1..m |-> From(g, i)]
      BY <2>2
    <3> DEFINE h == [i \in 1..(m + 1) |-> From(g, i)]
    <3>2. \A i \in 1..(m + 1) : i - 1 \in 1..m \/ i = 1
      OBVIOUS
    <3>3. \A i \in 1..m : i \in 1..(m + 1) /\ h[i] = g[i]
      <4>1. \A i \in 1..m : i \in 1..(m + 1)
        OBVIOUS
      <4> QED
        BY <3>1, <4>1, Zenon
    <3>4. \A i \in 1..(m + 1) : From(h, i) = From(g, i)
      BY <3>2, <3>3, Zenon
    <3>5. h = [i \in 1..(m + 1) |-> From(h, i)]
      BY <3>4, Zenon
    <3>6. m + 1 \in Nat
      BY <1>1
    <3> QED
      BY <3>5, <3>6, Zenon
  <2> HIDE DEF T
  <2>3. 0..n \subseteq T
    BY <1>1, <2>1, <2>2, UpTo, Zenon
  <2> QED
    BY <1>1, <2>3
<1> DEFINE F == CHOOSE f : f = [i \in 1..n |-> From(f, i)]
<1>4. F = [i \in 1..n |-> From(F, i)]
  <2>1. \E f : f = [i \in 1..n |-> From(f, i)]
    BY <1>3, Zenon
  <2> QED
    BY <2>1, Zenon
<1>5. FlattenSeq(ss) = IF n = 0 THEN ss ELSE F[n]
  BY Zenon DEF FlattenSeq, n
<1> HIDE DEF F
<1> DEFINE G == [i \in 0..n |-> IF i = 0 THEN <<>> ELSE F[i]]
<1>6. G[0] = <<>>
  <2>1. 0 \in 0..n
    BY <1>1
  <2> QED
    BY <2>1, Zenon
<1>7. ASSUME NEW i \in 1..n, i = 1 \/ G[i - 1] \in Seq(S) PROVE G[i] = G[i - 1] \o ss[i]
  <2>1. G[i] = From(F, i)
    <3>1. i \in 0..n /\ i # 0
      BY <1>1
    <3>2. G[i] = F[i]
      BY <3>1, Zenon
    <3> QED
      BY <1>4, <3>2, Zenon
  <2>2. CASE i = 1
    <3>1. G[i] = ss[i]
      BY <2>1, <2>2, Zenon
    <3>2. i - 1 = 0
      BY <2>2
    <3>3. <<>> \o ss[i] = ss[i]
      BY <1>2
    <3> QED
      BY <1>6, <3>1, <3>2, <3>3, Zenon
  <2>3. CASE i # 1
    <3>1. i - 1 \in 0..n /\ i - 1 # 0
      BY <1>1, <2>3
    <3>2. G[i - 1] = F[i - 1]
      BY <3>1, Zenon
    <3> QED
      BY <2>1, <2>3, <3>2, Zenon
  <2> QED
    BY <2>2, <2>3
<1>8. \A i \in 0..n : G[i] \in Seq(S)
  <2> DEFINE Q == {i \in 0..n : G[i] \in Seq(S)}
  <2>1. 0 \in Q
    <3>1. <<>> \in Seq(S) /\ 0 \in 0..n
      BY <1>1
    <3> QED
      BY <1>6, <3>1, Zenon
  <2>2. ASSUME NEW i \in 0..(n - 1), i \in Q PROVE i + 1 \in Q
    <3>1. i + 1 \in 1..n /\ (i + 1) - 1 = i /\ i + 1 \in 0..n
      BY <1>1
    <3>2. G[i] \in Seq(S)
      BY <2>2, Zenon
    <3> HIDE DEF G
    <3>3. G[i + 1] = G[i] \o ss[i + 1]
      BY <1>7, <3>1, <3>2, Zenon
    <3>4. \A a, b \in Seq(S) : a \o b \in Seq(S)
      OBVIOUS
    <3> QED
      BY <1>2, <3>1, <3>2, <3>3, <3>4, Zenon
  <2> HIDE DEF Q
  <2>3. 0..n \subseteq Q
    BY <1>1, <2>1, <2>2, UpTo, Zenon
  <2> QED
    BY <2>3, Zenon DEF Q
<1>9. FlattenSeq(ss) = G[n]
  <2>1. n \in 0..n
    BY <1>1
  <2>2. n = 0 => ss = <<>>
    BY NoElements, Zenon DEF n
  <2> QED
    BY <1>5, <2>1, <2>2, Zenon
<1> HIDE DEF G
<1>10. \A i \in 1..n : G[i] = G[i - 1] \o ss[i]
  <2>1. \A i \in 1..n : i - 1 \in 0..n
    BY <1>1
  <2> QED
    BY <1>7, <1>8, <2>1, Zenon
<1> QED
  BY <1>6, <1>8, <1>9, <1>10, Zenon DEF n

LEMMA FlattenInSeq ==
  ASSUME NEW S, NEW ss \in Seq(Seq(S))
  PROVE  FlattenSeq(ss) \in Seq(S)
<1>1. Len(ss) \in 0..Len(ss)
  OBVIOUS
<1> QED
  BY <1>1, FlattenPrefixes, Zenon

LEMMA FlattenEmpty == FlattenSeq(<<>>) = <<>>
BY DEF FlattenSeq

(* One more sequence.                                                       *)
LEMMA FlattenAppend ==
  ASSUME NEW S, NEW ss \in Seq(Seq(S)), NEW x \in Seq(S)
  PROVE  FlattenSeq(Append(ss, x)) = FlattenSeq(ss) \o x
<1>1. PICK n \in Nat : n = Len(ss)
  OBVIOUS
<1>2. PICK tt \in Seq(Seq(S)) : tt = Append(ss, x)
  BY Appended, Zenon
<1>3. Len(tt) = n + 1 /\ tt[n + 1] = x /\ \A i \in 1..n : tt[i] = ss[i]
  <2>1. /\ Len(Append(ss, x)) = Len(ss) + 1
        /\ Append(ss, x)[Len(ss) + 1] = x
        /\ \A i \in 1..Len(ss) : Append(ss, x)[i] = ss[i]
    BY Appended
  <2> QED
    BY <1>1, <1>2, <2>1, Zenon
<1>4. PICK f : /\ f[0] = <<>>
               /\ \A i \in 1..n : f[i] = f[i - 1] \o ss[i]
               /\ FlattenSeq(ss) = f[n]
  BY <1>1, FlattenPrefixes, Zenon
<1>5. PICK h : /\ h[0] = <<>>
               /\ \A i \in 1..(n + 1) : h[i] = h[i - 1] \o tt[i]
               /\ FlattenSeq(tt) = h[n + 1]
  <2>1. PICK h : /\ h[0] = <<>>
                 /\ \A i \in 1..Len(tt) : h[i] = h[i - 1] \o tt[i]
                 /\ FlattenSeq(tt) = h[Len(tt)]
    BY FlattenPrefixes, Zenon
  <2> QED
    BY <1>3, <2>1, Zenon
<1> DEFINE Q == {i \in 0..n : f[i] = h[i]}
<1>6. 0 \in Q
  BY <1>4, <1>5
<1>7. ASSUME NEW i \in 0..(n - 1), i \in Q PROVE i + 1 \in Q
  <2>1. i + 1 \in 1..n /\ (i + 1) - 1 = i /\ i + 1 \in 0..n /\ i + 1 \in 1..(n + 1)
    OBVIOUS
  <2>2. f[i] = h[i]
    BY <1>7, Zenon
  <2>3. f[i + 1] = f[i] \o ss[i + 1] /\ h[i + 1] = h[i] \o tt[i + 1]
    BY <1>4, <1>5, <2>1, Zenon
  <2>4. f[i + 1] = h[i + 1]
    BY <1>3, <2>1, <2>2, <2>3, Zenon
  <2> QED
    BY <2>1, <2>4, Zenon
<1>8. f[n] = h[n]
  <2> HIDE DEF Q
  <2>1. 0..n \subseteq Q
    BY <1>6, <1>7, UpTo, Zenon
  <2>2. n \in 0..n
    OBVIOUS
  <2> QED
    BY <2>1, <2>2, Zenon DEF Q
<1>9. h[n + 1] = h[n] \o x
  <2>1. n + 1 \in 1..(n + 1) /\ (n + 1) - 1 = n
    OBVIOUS
  <2> QED
    BY <1>3, <1>5, <2>1, Zenon
<1> QED
  BY <1>2, <1>4, <1>5, <1>8, <1>9, Zenon

(* The elements of a concatenation.                                         *)
Concatenates(a, c) ==
  /\ Len(a \o c) = Len(a) + Len(c)
  /\ \A k \in 1..Len(a) : (a \o c)[k] = a[k]
  /\ \A k \in 1..Len(c) : (a \o c)[Len(a) + k] = c[k]
  /\ \A k \in 1..(Len(a) + Len(c)) : k \in 1..Len(a) \/ \E j \in 1..Len(c) : k = Len(a) + j

LEMMA ConcatParts ==
  ASSUME NEW S, NEW a \in Seq(S), NEW c \in Seq(S) PROVE Concatenates(a, c)
<1>1. Len(a) \in Nat /\ Len(c) \in Nat /\ Len(a \o c) = Len(a) + Len(c)
  OBVIOUS
<1>2. \A m, n \in Nat : \A k \in 1..(m + n) : k \in 1..m \/ (k - m \in 1..n /\ k = m + (k - m))
  OBVIOUS
<1>3. \A k \in 1..(Len(a) + Len(c)) : k \in 1..Len(a) \/ \E j \in 1..Len(c) : k = Len(a) + j
  BY <1>1, <1>2, Zenon
<1>4. \A k \in 1..Len(a) : (a \o c)[k] = a[k]
  OBVIOUS
<1>5. \A k \in 1..Len(c) : (a \o c)[Len(a) + k] = c[k]
  OBVIOUS
<1> QED
  BY <1>1, <1>3, <1>4, <1>5, Zenon DEF Concatenates

(* Concatenations of sequences that are related element by element.         *)
LEMMA ConcatRelated ==
  ASSUME NEW S, NEW R, NEW a \in Seq(S), NEW b \in Seq(S), NEW c \in Seq(S), NEW d \in Seq(S),
         Len(b) = Len(a), \A k \in 1..Len(a) : <<a[k], b[k]>> \in R,
         Len(d) = Len(c), \A k \in 1..Len(c) : <<c[k], d[k]>> \in R
  PROVE  /\ Len(b \o d) = Len(a \o c)
         /\ \A k \in 1..Len(a \o c) : <<(a \o c)[k], (b \o d)[k]>> \in R
<1>1. Concatenates(a, c) /\ Concatenates(b, d)
  BY ConcatParts, Zenon
<1>2. /\ Len(a \o c) = Len(a) + Len(c)
      /\ \A k \in 1..Len(a) : (a \o c)[k] = a[k]
      /\ \A k \in 1..Len(c) : (a \o c)[Len(a) + k] = c[k]
      /\ \A k \in 1..(Len(a) + Len(c)) : k \in 1..Len(a) \/ \E j \in 1..Len(c) : k = Len(a) + j
  BY <1>1, Zenon DEF Concatenates
<1>3. Len(b \o d) = Len(b) + Len(d)
  BY <1>1, Zenon DEF Concatenates
<1>4. \A k \in 1..Len(b) : (b \o d)[k] = b[k]
  BY <1>1, Zenon DEF Concatenates
<1>5. \A k \in 1..Len(d) : (b \o d)[Len(b) + k] = d[k]
  BY <1>1, Zenon DEF Concatenates
<1>6. ASSUME NEW k \in 1..(Len(a) + Len(c)) PROVE <<(a \o c)[k], (b \o d)[k]>> \in R
  <2>1. CASE k \in 1..Len(a)
    <3>1. (a \o c)[k] = a[k] /\ (b \o d)[k] = b[k]
      BY <1>2, <1>4, <2>1, Zenon
    <3> QED
      BY <2>1, <3>1, Zenon
  <2>2. CASE \E j \in 1..Len(c) : k = Len(a) + j
    <3>1. PICK j \in 1..Len(c) : k = Len(a) + j
      BY <2>2
    <3>2. (a \o c)[Len(a) + j] = c[j]
      BY <1>2, Zenon
    <3>3. (b \o d)[Len(a) + j] = d[j]
      <4>1. j \in 1..Len(d)
        BY Zenon
      <4>2. (b \o d)[Len(b) + j] = d[j]
        BY <1>5, <4>1, Zenon
      <4> QED
        BY <4>2, Zenon
    <3>4. <<c[j], d[j]>> \in R
      BY Zenon
    <3> QED
      BY <3>1, <3>2, <3>3, <3>4, Zenon
  <2> QED
    BY <1>2, <2>1, <2>2, Zenon
<1>7. Len(b \o d) = Len(a \o c)
  BY <1>2, <1>3, Zenon
<1> QED
  BY <1>2, <1>6, <1>7, Zenon

(* Sequences related element by element flatten to related sequences.       *)
LEMMA FlattenRelated ==
  ASSUME NEW S, NEW R, NEW ss \in Seq(Seq(S)), NEW tt \in Seq(Seq(S)), Len(tt) = Len(ss),
         \A i \in 1..Len(ss) : /\ Len(tt[i]) = Len(ss[i])
                               /\ \A k \in 1..Len(ss[i]) : <<ss[i][k], tt[i][k]>> \in R
  PROVE  /\ Len(FlattenSeq(tt)) = Len(FlattenSeq(ss))
         /\ \A k \in 1..Len(FlattenSeq(ss)) : <<FlattenSeq(ss)[k], FlattenSeq(tt)[k]>> \in R
<1>1. PICK n \in Nat : n = Len(ss) /\ \A i \in 1..n : ss[i] \in Seq(S) /\ tt[i] \in Seq(S)
  <2>1. \A U : \A s \in Seq(U) : Len(s) \in Nat /\ \A i \in 1..Len(s) : s[i] \in U
    OBVIOUS
  <2> QED
    BY <2>1, Zenon
<1>2. PICK f : /\ f[0] = <<>>
               /\ \A i \in 1..Len(ss) : f[i] = f[i - 1] \o ss[i]
               /\ \A i \in 0..Len(ss) : f[i] \in Seq(S)
               /\ FlattenSeq(ss) = f[Len(ss)]
  BY FlattenPrefixes, Zenon
<1>3. PICK g : /\ g[0] = <<>>
               /\ \A i \in 1..Len(tt) : g[i] = g[i - 1] \o tt[i]
               /\ \A i \in 0..Len(tt) : g[i] \in Seq(S)
               /\ FlattenSeq(tt) = g[Len(tt)]
  BY FlattenPrefixes, Zenon
<1> DEFINE Related(i) == /\ Len(g[i]) = Len(f[i])
                         /\ \A k \in 1..Len(f[i]) : <<f[i][k], g[i][k]>> \in R
           Q == {i \in 0..n : Related(i)}
<1>4. 0 \in Q
  <2>1. 0 \in 0..n /\ Len(<<>>) = 0 /\ 1..0 = {}
    BY <1>1
  <2> QED
    BY <1>2, <1>3, <2>1, Zenon
<1>5. ASSUME NEW i \in 0..(n - 1), i \in Q PROVE i + 1 \in Q
  <2>1. PICK j \in 1..n : j = i + 1 /\ j - 1 = i /\ i \in 0..n /\ j \in 0..n
    BY <1>1
  <2>2. PICK a, b \in Seq(S) : a = f[i] /\ b = g[i]
    BY <1>1, <1>2, <1>3, <2>1, Zenon
  <2>3. PICK c, d \in Seq(S) : c = ss[j] /\ d = tt[j]
    BY <1>1, <2>1, Zenon
  <2>4. f[j] = a \o c /\ g[j] = b \o d
    BY <1>1, <1>2, <1>3, <2>1, <2>2, <2>3, Zenon
  <2>5. Len(b) = Len(a) /\ \A k \in 1..Len(a) : <<a[k], b[k]>> \in R
    BY <1>5, <2>2, Zenon
  <2>6. Len(d) = Len(c) /\ \A k \in 1..Len(c) : <<c[k], d[k]>> \in R
    BY <1>1, <2>1, <2>3, Zenon
  <2>7. Len(b \o d) = Len(a \o c) /\ \A k \in 1..Len(a \o c) : <<(a \o c)[k], (b \o d)[k]>> \in R
    BY <2>5, <2>6, ConcatRelated, Zenon
  <2>8. Related(j)
    BY <2>4, <2>7, Zenon
  <2> QED
    BY <2>1, <2>8, Zenon
<1>6. n \in Q
  <2>1. n \in 0..n
    BY <1>1
  <2> HIDE DEF Q
  <2>2. 0..n \subseteq Q
    BY <1>1, <1>4, <1>5, UpTo, Zenon
  <2> QED
    BY <2>1, <2>2, Zenon
<1> QED
  BY <1>1, <1>2, <1>3, <1>6, Zenon
=============================================================================
