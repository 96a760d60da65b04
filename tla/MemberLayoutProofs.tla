------------------------- MODULE MemberLayoutProofs -------------------------
(***************************************************************************)
(* Proofs about the alignments that defn_of_die chooses, for every width   *)
(* of `unsigned' and every aggregate: the search finds the least power of  *)
(* two that puts the member where DWARF has it.                            *)
(***************************************************************************)
EXTENDS MemberLayout, FiniteSetTheorems, WellFoundedInduction, TLAPS

(* Powers of two: the library knows them from the sizes of sets of subsets. *)
LEMMA TwoExp ==
  ASSUME NEW n \in Nat
  PROVE  2^(n + 1) = 2 * 2^n /\ 2^n \in Nat \ {0}
<1> DEFINE S == 1..n
           x == n + 1
           A == SUBSET S
           B == {s \cup {x} : s \in A}
           f == [s \in A |-> s \cup {x}]
<1>1. IsFiniteSet(S) /\ Cardinality(S) = n
  <2>1. ~(1 > n) \/ n = 0
    OBVIOUS
  <2> QED
    BY <2>1, FS_Interval
<1>2. x \notin S /\ S \cup {x} = 1..(n + 1)
  OBVIOUS
<1>3. IsFiniteSet(S \cup {x}) /\ Cardinality(S \cup {x}) = n + 1
  BY <1>1, <1>2, FS_AddElement
<1>4. IsFiniteSet(A) /\ Cardinality(A) = 2^n
  BY <1>1, FS_SUBSET
<1>5. IsFiniteSet(SUBSET (S \cup {x})) /\ Cardinality(SUBSET (S \cup {x})) = 2^(n + 1)
  BY <1>3, FS_SUBSET
<1> HIDE DEF S, x
<1>6. SUBSET (S \cup {x}) = A \cup B
  <2>1. ASSUME NEW t \in SUBSET (S \cup {x}) PROVE t \in A \cup B
    <3>1. t = (t \ {x}) \cup {x} \/ t \in A
      OBVIOUS
    <3> QED
      BY <3>1
  <2> QED
    BY <2>1
<1>7. A \cap B = {}
  BY <1>2
<1>8. f \in Bijection(A, B)
  <2>1. \A s, t \in A : f[s] = f[t] => s = t
    <3>1. \A s \in A : s = f[s] \ {x}
      BY <1>2
    <3> QED
      BY <3>1
  <2>2. f \in [A -> B] /\ \A b \in B : \E s \in A : f[s] = b
    OBVIOUS
  <2> QED
    BY <2>1, <2>2 DEF Bijection, Injection, Surjection, IsInjective
<1>9. IsFiniteSet(B) /\ Cardinality(B) = 2^n
  BY <1>4, <1>8, FS_Bijection DEF ExistsBijection
<1>10. IsFiniteSet(A \cap B) /\ Cardinality(A \cap B) = 0
  BY <1>7, FS_EmptySet
<1>11. Cardinality(A \cup B) = Cardinality(A) + Cardinality(B) - Cardinality(A \cap B)
  BY <1>4, <1>9, FS_Union
<1>12. 2^n \in Nat
  BY <1>4, FS_CardinalityType
<1>13. 2^n # 0
  <2>1. A # {}
    OBVIOUS
  <2> QED
    BY <2>1, <1>4, FS_EmptySet
<1>14. 2^(n + 1) = 2^n + 2^n - 0
  BY <1>4, <1>5, <1>6, <1>9, <1>10, <1>11
<1> QED
  BY <1>12, <1>13, <1>14

(* A set of numbers has a least one: what induction on them comes down to.  *)
LEMMA LeastNat ==
  ASSUME NEW T \in SUBSET Nat, T # {}
  PROVE  \E x \in T : \A y \in T : x <= y
<1>1. PICK x \in T : \A y \in T : ~(<<y, x>> \in OpToRel(<, Nat))
  BY NatLessThanWellFounded, WFMin, Zenon
<1>2. \A a, b \in Nat : a < b => <<a, b>> \in OpToRel(<, Nat)
  BY Zenon DEF OpToRel
<1>3. \A y \in T : ~(y < x)
  BY <1>1, <1>2, Zenon
<1> QED
  BY <1>3

LEMMA PowersMultiply ==
  ASSUME NEW n \in Nat, NEW i \in 0..n
  PROVE  2^i * 2^(n - i) = 2^n
<1> DEFINE T == {j \in 0..n : 2^j * 2^(n - j) # 2^n}
<1> SUFFICES ASSUME T # {} PROVE FALSE
  OBVIOUS
<1>1. PICK m \in T : \A y \in T : m <= y
  <2>1. T \in SUBSET Nat
    OBVIOUS
  <2> QED
    BY <2>1, LeastNat
<1>2. m # 0
  <2>1. 2^0 * 2^(n - 0) = 2^n
    <3>1. 2^0 = 1 /\ n - 0 = n
      OBVIOUS
    <3> QED
      BY <3>1, TwoExp
  <2> QED
    BY <2>1
<1>3. PICK l \in 0..(n - 1) : m = l + 1
  <2>1. m - 1 \in 0..(n - 1) /\ m = (m - 1) + 1
    BY <1>2
  <2> QED
    BY <2>1
<1>4. PICK r \in Nat : n - m = r /\ n - l = r + 1
  BY <1>3
<1>5. 2^l * 2^(n - l) = 2^n
  <2>1. l \notin T
    BY <1>1, <1>3
  <2> QED
    BY <2>1, <1>3
<1>6. /\ 2^m = 2 * 2^l /\ 2^l \in Nat
      /\ 2^(n - l) = 2 * 2^(n - m) /\ 2^(n - m) \in Nat
  BY <1>3, <1>4, TwoExp
<1>7. \A a, b \in Nat : (2 * a) * b = a * (2 * b)
  OBVIOUS
<1>8. 2^m * 2^(n - m) = 2^n
  BY <1>5, <1>6, <1>7
<1> QED
  BY <1>8

LEMMA PowersGrow ==
  ASSUME NEW i \in Nat, NEW j \in Nat, i < j
  PROVE  2^i < 2^j
<1>1. PICK r \in Nat : j - i = r + 1
  <2>1. j - i - 1 \in Nat
    OBVIOUS
  <2> QED
    BY <2>1
<1>2. 2^(j - i) = 2 * 2^r /\ 2^r \in Nat \ {0} /\ 2^i \in Nat \ {0}
  BY <1>1, TwoExp
<1>3. 2^i * 2^(j - i) = 2^j
  BY PowersMultiply
<1>4. \A a, b \in Nat \ {0} : a < a * (2 * b)
  <2>1. \A a, b \in Nat \ {0} : a * (2 * b) = a * b + a * b /\ a * b \in Nat
    OBVIOUS
  <2>2. ASSUME NEW a \in Nat \ {0}, NEW b \in Nat \ {0} PROVE a <= a * b
    <3>1. PICK d \in Nat : b = d + 1
      <4>1. b - 1 \in Nat
        OBVIOUS
      <4> QED
        BY <4>1
    <3>2. a * b = a * d + a /\ a * d \in Nat
      BY <3>1
    <3> QED
      BY <3>2
  <2> QED
    BY <2>1, <2>2
<1> QED
  BY <1>2, <1>3, <1>4
-----------------------------------------------------------------------------
(* Quotients and remainders.                                                *)
LEMMA Divided ==
  ASSUME NEW n \in Nat, NEW m \in Nat \ {0}
  PROVE  /\ n \div m \in Nat
         /\ n % m \in 0..(m - 1)
         /\ n = (n \div m) * m + (n % m)
OBVIOUS

LEMMA Product ==
  ASSUME NEW a \in Nat, NEW b \in Nat, NEW m \in Nat \ {0}, a < b
  PROVE  a * m + m <= b * m /\ a * m \in Nat /\ b * m \in Nat
<1>1. PICK d \in Nat : b = a + 1 + d
  <2>1. b - a - 1 \in Nat
    OBVIOUS
  <2> QED
    BY <2>1
<1>2. b * m = a * m + m + d * m /\ d * m \in Nat /\ a * m \in Nat
  BY <1>1
<1> QED
  BY <1>2

(* There is one multiple of m from n on and before n + m.                   *)
LEMMA OneMultiple ==
  ASSUME NEW n \in Nat, NEW m \in Nat \ {0}, NEW a \in Nat, NEW b \in Nat,
         n <= a * m, a * m < n + m, n <= b * m, b * m < n + m
  PROVE  a = b
<1>1. ~(a < b)
  BY Product
<1>2. ~(b < a)
  BY Product
<1> QED
  BY <1>1, <1>2

(* RoundUp gives it.                                                        *)
LEMMA RoundedUp ==
  ASSUME NEW n \in Nat, NEW m \in Nat \ {0}
  PROVE  \E a \in Nat : RoundUp(n, m) = a * m /\ n <= a * m /\ a * m < n + m
<1> DEFINE a == (n + m - 1) \div m
<1>1. n + m - 1 \in Nat
  OBVIOUS
<1>2. a \in Nat /\ n + m - 1 = a * m + ((n + m - 1) % m) /\ (n + m - 1) % m \in 0..(m - 1)
  BY <1>1, Divided
<1>3. RoundUp(n, m) = a * m
  BY DEF RoundUp
<1> HIDE DEF a
<1>4. a * m \in Nat
  BY <1>2
<1>5. n <= a * m /\ a * m < n + m
  BY <1>2, <1>4
<1> QED
  BY <1>2, <1>3, <1>5

LEMMA RoundUpIs ==
  ASSUME NEW n \in Nat, NEW m \in Nat \ {0}, NEW a \in Nat,
         n <= a * m, a * m < n + m
  PROVE  RoundUp(n, m) = a * m
BY RoundedUp, OneMultiple

LEMMA RemainderIs ==
  ASSUME NEW n \in Nat, NEW m \in Nat \ {0}, NEW a \in Nat, NEW r \in 0..(m - 1), n = a * m + r
  PROVE  n % m = r /\ n \div m = a
<1>1. n \div m \in Nat /\ n % m \in 0..(m - 1) /\ n = (n \div m) * m + (n % m)
  BY Divided
<1>2. ~(a < n \div m)
  BY <1>1, Product
<1>3. ~(n \div m < a)
  BY <1>1, Product
<1> QED
  BY <1>1, <1>2, <1>3

LEMMA SmallRemainder ==
  ASSUME NEW n \in Nat, NEW m \in Nat \ {0}, n < m
  PROVE  n % m = n
<1>1. 0 \in Nat /\ n \in 0..(m - 1) /\ n = 0 * m + n
  OBVIOUS
<1> QED
  BY <1>1, RemainderIs

LEMMA SameRemainder ==
  ASSUME NEW n \in Nat, NEW m \in Nat \ {0}, NEW z \in Nat
  PROVE  (z * m + n) % m = n % m
<1>1. n \div m \in Nat /\ n % m \in 0..(m - 1) /\ n = (n \div m) * m + (n % m)
  BY Divided
<1> DEFINE y == n \div m
           r == n % m
<1>2. y \in Nat /\ r \in 0..(m - 1) /\ n = y * m + r
  BY <1>1
<1> HIDE DEF y, r
<1>3. z + y \in Nat /\ z * m + n = (z + y) * m + r /\ z * m + n \in Nat
  BY <1>2
<1>4. (z * m + n) % m = r
  BY <1>2, <1>3, RemainderIs
<1> QED
  BY <1>4 DEF r

(* The next multiple that the loop computes, with the wrap of `unsigned'.   *)
LEMMA NextMultiple ==
  ASSUME NEW M \in Nat \ {0}, NEW t \in 0..(M - 1), NEW p \in Nat \ {0}
  PROVE  (IF t % p = 0 THEN t ELSE (((t \div p) + 1) * p) % M) = RoundUp(t, p) % M
<1> DEFINE a == t \div p
<1>1. a \in Nat /\ t % p \in 0..(p - 1) /\ t = a * p + (t % p)
  BY Divided
<1>2. CASE t % p = 0
  <2> HIDE DEF a
  <2>1. a \in Nat /\ t <= a * p /\ a * p < t + p /\ a * p = t
    BY <1>1, <1>2
  <2>2. RoundUp(t, p) = t
    BY <2>1, RoundUpIs
  <2>3. t % M = t
    BY SmallRemainder
  <2> QED
    BY <1>2, <2>2, <2>3
<1>3. CASE t % p # 0
  <2>1. (a + 1) * p = RoundUp(t, p)
    <3> HIDE DEF a
    <3>1. (a + 1) * p = a * p + p /\ a * p \in Nat
      BY <1>1
    <3>2. PICK b \in Nat : b = a + 1
      BY <1>1
    <3>3. t <= b * p /\ b * p < t + p
      BY <1>1, <1>3, <3>1, <3>2
    <3> QED
      BY <3>2, <3>3, RoundUpIs
  <2> QED
    BY <1>3, <2>1
<1> QED
  BY <1>2, <1>3

Divides(q, p) == \E d \in Nat \ {0} : p = d * q

RoundsOn(c, q, p, M) == RoundUp(RoundUp(c, q) % M, p) % M = RoundUp(c, p) % M

(* Rounding up to a power from where a smaller one got, in arithmetic that  *)
(* wraps at a multiple of both, ends where rounding up from the start does. *)
LEMMA RoundedOn ==
  ASSUME NEW c \in Nat, NEW q \in Nat \ {0}, NEW p \in Nat \ {0}, NEW M \in Nat \ {0},
         Divides(q, p), Divides(p, M)
  PROVE  RoundsOn(c, q, p, M)
<1> DEFINE t == RoundUp(c, q) % M
<1>0. t = RoundUp(c, q) % M
  OBVIOUS
<1> HIDE DEF t
<1> SUFFICES RoundUp(t, p) % M = RoundUp(c, p) % M
  BY <1>0 DEF RoundsOn
<1>1. PICK d \in Nat \ {0}, e \in Nat \ {0} : p = d * q /\ M = e * p
  BY DEF Divides
<1>2. PICK a \in Nat : RoundUp(c, q) = a * q /\ c <= a * q /\ a * q < c + q
  BY RoundedUp
<1>3. PICK z \in Nat : a * q = z * M + t /\ t \in Nat
  <2>1. PICK n \in Nat : n = a * q
    OBVIOUS
  <2>2. n \div M \in Nat /\ n % M \in 0..(M - 1) /\ n = (n \div M) * M + (n % M)
    BY <1>1, Divided
  <2>3. t = n % M
    BY <1>0, <1>2, <2>1
  <2>4. t \in Nat /\ n = (n \div M) * M + t
    BY <1>1, <2>2, <2>3
  <2> QED
    BY <2>1, <2>2, <2>4, Zenon
<1>4. PICK b \in Nat : RoundUp(t, p) = b * p /\ t <= b * p /\ b * p < t + p
  BY <1>1, <1>3, RoundedUp
<1> DEFINE x == (z * e + b) * d
<1>5. z * e + b \in Nat /\ (z * e + b) * p = z * M + b * p
  BY <1>1
<1>6. x \in Nat /\ x * q = z * M + b * p
  BY <1>1, <1>5
<1>7. (a + d) * q = a * q + p /\ a + d \in Nat
  BY <1>1
<1> HIDE DEF x
<1>8. x * q < (a + d) * q
  <2>1. z * M \in Nat /\ b * p \in Nat /\ a * q \in Nat
    BY <1>1
  <2> QED
    BY <1>1, <1>3, <1>4, <1>6, <1>7, <2>1
<1>9. x < a + d
  <2>1. ~(a + d < x)
    BY <1>6, <1>7, <1>8, Product
  <2>2. a + d # x
    BY <1>6, <1>8
  <2> QED
    BY <1>6, <2>1, <2>2
<1>10. x * q + q <= (a + d) * q /\ x * q \in Nat /\ a * q \in Nat
  BY <1>6, <1>7, <1>9, Product
<1>11. (z * e + b) * p < c + p
  BY <1>1, <1>2, <1>5, <1>6, <1>7, <1>10
<1>12. c <= (z * e + b) * p
  <2>1. z * M \in Nat /\ b * p \in Nat
    BY <1>1
  <2> QED
    BY <1>2, <1>3, <1>4, <1>5, <2>1
<1>13. RoundUp(c, p) = z * M + b * p
  <2>1. PICK y \in Nat : y = z * e + b
    BY <1>5
  <2>2. c <= y * p /\ y * p < c + p
    BY <1>11, <1>12, <2>1
  <2>3. RoundUp(c, p) = y * p
    BY <1>1, <2>2, RoundUpIs
  <2> QED
    BY <1>5, <2>1, <2>3
<1>14. PICK n \in Nat : n = b * p
  BY <1>1
<1>15. (z * M + n) % M = n % M
  BY SameRemainder, Zenon
<1> QED
  BY <1>4, <1>13, <1>14, <1>15

(* Where the loop arrives at a target that is not behind the start, nothing *)
(* has wrapped.                                                             *)
LEMMA Reached ==
  ASSUME NEW c \in Nat, NEW p \in Nat \ {0}, NEW e \in Nat \ {0}, NEW M, M = e * p,
         NEW T, T > 0, c <= T, T = RoundUp(c, p) % M
  PROVE  RoundUp(c, p) = T
<1>1. M \in Nat \ {0}
  OBVIOUS
<1>2. PICK a \in Nat : RoundUp(c, p) = a * p /\ c <= a * p /\ a * p < c + p
  BY RoundedUp
<1>3. a * p \in Nat /\ T \in 0..(M - 1)
  <2>1. PICK n \in Nat : n = a * p
    OBVIOUS
  <2>2. n % M \in 0..(M - 1)
    BY <1>1, Divided
  <2>3. T = n % M
    BY <1>2, <2>1
  <2> QED
    BY <2>1, <2>2, <2>3
<1>4. ~(e < a)
  BY <1>1, <1>2, <1>3, Product
<1>5. a # e
  <2>1. SUFFICES ASSUME a = e PROVE FALSE
    OBVIOUS
  <2>2. RoundUp(c, p) = 1 * M + 0
    BY <1>1, <1>2, <2>1
  <2>3. M % M = 0
    BY <1>1, RemainderIs
  <2> QED
    BY <1>1, <1>3, <2>2, <2>3
<1>6. a * p < M
  BY <1>3, <1>4, <1>5, Product
<1> QED
  BY <1>1, <1>2, <1>3, <1>6, SmallRemainder
-----------------------------------------------------------------------------
TypeOK == /\ Aggregate(aggregate)
          /\ k \in 0..Len(aggregate.members)
          /\ at \in {"between members", "searching", "found"}
          /\ at # "between members" => k < Len(aggregate.members) /\ Aligned
          /\ end \in Nat
          /\ placed \in Seq(Nat)
          /\ Len(placed) = k

(* The search has come to the i-th power: it is where rounding up to the    *)
(* power before would have brought it, and no smaller one has reached the   *)
(* target.                                                                  *)
Wrapped(p) == RoundUp(cur_offset, p) % 2^UnsignedWidth
Missed(i) == \A j \in 0..(i - 1) : Wrapped(2^j) # target_offset
Before(i) == IF i = 0 THEN 1 ELSE 2^(i - 1)
SearchInvariant ==
  at = "searching" =>
    \E i \in 0..UnsignedWidth :
      /\ power = IF i = UnsignedWidth THEN 0 ELSE 2^i
      /\ test_offset = Wrapped(Before(i))
      /\ Missed(i)
FoundInvariant ==
  at = "found" =>
    \E i \in 0..(UnsignedWidth - 1) :
      /\ power = 2^i
      /\ test_offset = Wrapped(2^i)
      /\ test_offset = target_offset
      /\ Missed(i)

(* What has been written of a natural struct ends where its members do.     *)
EndInvariant ==
  Natural(aggregate) =>
    /\ \A i \in 1..k : placed[i] = aggregate.members[i].location
    /\ k = 0 => end = 0
    /\ k > 0 => end = prev_member.location + prev_member.size

IInv == TypeOK /\ SearchInvariant /\ FoundInvariant /\ EndInvariant
-----------------------------------------------------------------------------
LEMMA Widths ==
  /\ UnsignedWidth \in Nat \ {0} /\ DwarfWidth \in Nat
  /\ 2^UnsignedWidth \in Nat \ {0} /\ 2^DwarfWidth \in Nat \ {0}
  /\ 2^UnsignedWidth <= 2^DwarfWidth
<1>1. /\ UnsignedWidth \in Nat \ {0} /\ DwarfWidth \in Nat
      /\ UnsignedWidth < DwarfWidth \/ UnsignedWidth = DwarfWidth
  BY WidthAssumption
<1>2. 2^UnsignedWidth \in Nat \ {0} /\ 2^DwarfWidth \in Nat \ {0}
  BY <1>1, TwoExp
<1>3. CASE UnsignedWidth < DwarfWidth
  BY <1>1, <1>2, <1>3, PowersGrow
<1>4. CASE UnsignedWidth = DwarfWidth
  BY <1>1, <1>2, <1>4
<1> QED
  BY <1>1, <1>2, <1>3, <1>4

(* The members before and at the one being written.                         *)
LEMMA Members ==
  ASSUME Aggregate(aggregate), k \in 0..Len(aggregate.members)
  PROVE  /\ Len(aggregate.members) \in Nat
         /\ k < Len(aggregate.members) => p_d \in Member
         /\ k > 0 => prev_member \in Member
<1>1. aggregate.members \in Seq(Member)
  BY DEF Aggregate
<1>2. \A i \in 1..Len(aggregate.members) : aggregate.members[i] \in Member
  BY <1>1
<1>3. Len(aggregate.members) \in Nat
  BY <1>1
<1>4. k < Len(aggregate.members) => k + 1 \in 1..Len(aggregate.members)
  BY <1>3
<1>5. k > 0 => k \in 1..Len(aggregate.members)
  BY <1>3
<1> QED
  BY <1>2, <1>3, <1>4, <1>5 DEF p_d, prev_member

LEMMA Offsets ==
  ASSUME Aggregate(aggregate), k \in 0..Len(aggregate.members),
         k < Len(aggregate.members), Aligned
  PROVE  cur_offset \in Nat /\ target_offset \in Nat \ {0}
<1>0. DwarfWidth \in Nat /\ 2^DwarfWidth \in Nat \ {0}
  BY Widths
<1> DEFINE D == 2^DwarfWidth
<1>1. D \in Nat \ {0} /\ Dwarf_Unsigned = 0..(D - 1) /\ max_Dwarf_Unsigned = D - 1
  BY <1>0 DEF Dwarf_Unsigned, max_Dwarf_Unsigned
<1> HIDE DEF D
<1>2. target_offset \in Nat \ {0}
  <2>1. p_d.location \in Dwarf_Unsigned
    BY Members DEF Member, Aligned
  <2> QED
    BY <1>1, <2>1 DEF target_offset, Aligned
<1>3. CASE k = 0
  <2>0. ~(k > 0)
    BY <1>3
  <2>1. cur_offset = 0
    BY <1>3, <2>0, Zenon DEF cur_offset
  <2> QED
    BY <1>2, <2>1
<1>4. CASE k > 0 /\ prev_member.location # NoLocation
  <2>1. CASE prev_member.size = NoSize
    BY <1>1, <1>2, <1>4, <2>1 DEF cur_offset, Aligned
  <2>2. CASE prev_member.size # NoSize
    <3>1. PICK n \in Nat : n = prev_member.location + prev_member.size
      BY <1>1, <1>4, <2>2, Members DEF Member
    <3>2. cur_offset = n % D
      BY <1>4, <2>2, <3>1 DEF cur_offset, D
    <3>3. n % D \in 0..(D - 1)
      BY <1>1, <3>1, Divided
    <3> QED
      BY <1>1, <1>2, <3>2, <3>3
  <2> QED
    BY <2>1, <2>2
<1>5. CASE k > 0 /\ prev_member.location = NoLocation
  <2>1. cur_offset = IF aggregate.is_union THEN 0 ELSE max_Dwarf_Unsigned
    BY <1>5 DEF cur_offset
  <2> QED
    BY <1>1, <1>2, <2>1
<1>6. k = 0 \/ k > 0
  OBVIOUS
<1> QED
  BY <1>3, <1>4, <1>5, <1>6

(* What the search has come to is the least power that reaches the target.  *)
LEMMA WrappedReaches ==
  ASSUME NEW i \in 0..(UnsignedWidth - 1), cur_offset \in Nat, target_offset \in Nat \ {0},
         cur_offset <= target_offset, Wrapped(2^i) = target_offset
  PROVE  Reaches(2^i)
<1>1. UnsignedWidth \in Nat \ {0} /\ i \in 0..UnsignedWidth /\ UnsignedWidth - i \in Nat
  BY Widths
<1>2. 2^i \in Nat \ {0} /\ 2^(UnsignedWidth - i) \in Nat \ {0}
  BY <1>1, TwoExp
<1>3. 2^UnsignedWidth = 2^(UnsignedWidth - i) * 2^i
  <2>1. 2^i * 2^(UnsignedWidth - i) = 2^UnsignedWidth
    BY <1>1, PowersMultiply
  <2> QED
    BY <1>2, <2>1
<1>4. RoundUp(cur_offset, 2^i) = target_offset
  <2>1. PICK p \in Nat \ {0}, e \in Nat \ {0} : p = 2^i /\ e = 2^(UnsignedWidth - i)
    BY <1>2
  <2>2. target_offset = RoundUp(cur_offset, p) % (e * p)
    BY <1>3, <2>1 DEF Wrapped
  <2>3. PICK c \in Nat, T \in Nat \ {0} : c = cur_offset /\ T = target_offset
    OBVIOUS
  <2>4. T > 0 /\ c <= T /\ T = RoundUp(c, p) % (e * p)
    BY <2>2, <2>3
  <2>5. RoundUp(c, p) = T
    BY <2>4, Reached
  <2> QED
    BY <2>1, <2>3, <2>5
<1> QED
  BY <1>4 DEF Reaches

LEMMA MissedNotReached ==
  ASSUME NEW i \in 0..UnsignedWidth, Missed(i), target_offset \in unsigned,
         NEW p \in Power, p < 2^i \/ i = UnsignedWidth
  PROVE  ~Reaches(p)
<1>1. UnsignedWidth \in Nat \ {0} /\ 2^UnsignedWidth \in Nat \ {0}
  BY Widths
<1>2. PICK j \in 0..(UnsignedWidth - 1) : p = 2^j
  BY DEF Power
<1>3. j \in 0..(i - 1)
  <2>1. CASE i = UnsignedWidth
    BY <2>1
  <2>2. CASE p < 2^i
    <3>1. 2^i \in Nat /\ 2^j \in Nat
      BY <1>1, TwoExp
    <3>2. ~(i < j)
      BY <1>1, <1>2, <2>2, <3>1, PowersGrow
    <3>3. i # j
      BY <1>2, <2>2, <3>1
    <3> QED
      BY <1>1, <3>2, <3>3
  <2> QED
    BY <2>1, <2>2
<1>4. Wrapped(p) # target_offset
  BY <1>2, <1>3 DEF Missed
<1>5. target_offset % 2^UnsignedWidth = target_offset
  <2>1. target_offset \in Nat /\ target_offset < 2^UnsignedWidth
    BY <1>1 DEF unsigned
  <2> QED
    BY <1>1, <2>1, SmallRemainder
<1> QED
  BY <1>4, <1>5 DEF Reaches, Wrapped

(* The lemmas above, of the states that the search is in.                   *)
LEMMA InvariantExact == IInv => SearchExact
<1> SUFFICES ASSUME IInv PROVE SearchExact
  OBVIOUS
<1>1. UnsignedWidth \in Nat \ {0} /\ 2^UnsignedWidth \in Nat \ {0}
  BY Widths
<1>2. ASSUME at # "between members"
      PROVE  cur_offset \in Nat /\ target_offset \in Nat \ {0}
  BY <1>2, Offsets DEF IInv, TypeOK
<1>3. ASSUME at = "found"
      PROVE  \E i \in 0..(UnsignedWidth - 1) :
               /\ power = 2^i /\ Wrapped(2^i) = target_offset /\ test_offset = target_offset
               /\ Missed(i)
  BY <1>3 DEF IInv, FoundInvariant
<1>4. ASSUME at = "found"
      PROVE  target_offset \in unsigned
  <2>1. PICK i \in 0..(UnsignedWidth - 1) : Wrapped(2^i) = target_offset
    BY <1>3, <1>4
  <2>2. cur_offset \in Nat /\ 2^i \in Nat \ {0}
    BY <1>1, <1>2, <1>4, TwoExp
  <2>3. PICK n \in Nat : n = RoundUp(cur_offset, 2^i)
    BY <2>2, RoundedUp
  <2>4. n % 2^UnsignedWidth \in 0..(2^UnsignedWidth - 1)
    BY <1>1, Divided
  <2> QED
    BY <2>1, <2>3, <2>4 DEF unsigned, Wrapped
<1>5. ASSUME at = "found", ~Failed
      PROVE  Reaches(power) /\ \A p \in Power : p < power => ~Reaches(p)
  <2>1. PICK i \in 0..(UnsignedWidth - 1) :
           /\ power = 2^i /\ Wrapped(2^i) = target_offset /\ test_offset = target_offset
           /\ Missed(i)
    BY <1>3, <1>5
  <2>2. cur_offset <= target_offset
    BY <1>2, <1>5, <2>1 DEF Failed
  <2>3. i \in 0..UnsignedWidth
    BY <1>1
  <2> QED
    BY <1>2, <1>4, <1>5, <2>1, <2>2, <2>3, WrappedReaches, MissedNotReached
<1>6. ASSUME Failed, target_offset \in unsigned, NEW p \in Power
      PROVE  ~Reaches(p)
  <2>1. CASE at = "searching" /\ power = 0
    <3>1. PICK i \in 0..UnsignedWidth : /\ power = IF i = UnsignedWidth THEN 0 ELSE 2^i
                                        /\ Missed(i)
      BY <2>1 DEF IInv, SearchInvariant
    <3>2. i = UnsignedWidth
      BY <1>1, <2>1, <3>1, TwoExp
    <3> QED
      BY <1>6, <3>1, <3>2, MissedNotReached
  <2>2. CASE at = "found" /\ test_offset < cur_offset
    <3>1. target_offset < cur_offset /\ cur_offset \in Nat /\ target_offset \in Nat
      BY <1>2, <1>3, <2>2
    <3>2. PICK j \in 0..(UnsignedWidth - 1) : p = 2^j
      BY DEF Power
    <3>3. p \in Nat \ {0}
      BY <1>1, <3>2, TwoExp
    <3>4. PICK n \in Nat : n = RoundUp(cur_offset, p) /\ cur_offset <= n
      <4>1. PICK a \in Nat : RoundUp(cur_offset, p) = a * p /\ cur_offset <= a * p
        BY <3>1, <3>3, RoundedUp
      <4>2. a * p \in Nat
        BY <3>3
      <4> QED
        BY <4>1, <4>2
    <3> QED
      BY <3>1, <3>4 DEF Reaches
  <2> QED
    BY <1>6, <2>1, <2>2 DEF Failed
<1> QED
  BY <1>5, <1>6, Zenon DEF SearchExact

(* A turn of the loop.                                                      *)
LEMMA TryPowerKeeps ==
  ASSUME IInv, TryPower
  PROVE  SearchInvariant' /\ FoundInvariant'
<1> DEFINE W == UnsignedWidth
           M == 2^UnsignedWidth
<1>1. W \in Nat \ {0} /\ M \in Nat \ {0}
  BY Widths
<1>2. /\ at = "searching" /\ power # 0
      /\ test_offset' = next_multiple
      /\ UNCHANGED <<aggregate, k>>
  BY DEF TryPower
<1>3. cur_offset' = cur_offset /\ target_offset' = target_offset
  BY <1>2 DEF cur_offset, target_offset, prev_member, p_d
<1>4. cur_offset \in Nat
  BY <1>2, Offsets DEF IInv, TypeOK
<1>5. PICK i \in 0..(W - 1) : power = 2^i /\ test_offset = Wrapped(Before(i)) /\ Missed(i)
  <2>1. PICK i \in 0..W : /\ power = IF i = W THEN 0 ELSE 2^i
                          /\ test_offset = Wrapped(Before(i)) /\ Missed(i)
    BY <1>2 DEF IInv, SearchInvariant
  <2>2. i # W
    BY <1>2, <2>1
  <2> QED
    BY <1>1, <2>1, <2>2
<1>6. PICK q \in Nat \ {0}, d \in Nat \ {0}, e \in Nat \ {0} :
         q = Before(i) /\ 2^i = d * q /\ M = e * 2^i
  <2>1. PICK e \in Nat \ {0} : M = e * 2^i
    <3>1. 2^i * 2^(W - i) = M /\ 2^i \in Nat /\ 2^(W - i) \in Nat \ {0}
      BY <1>1, PowersMultiply, TwoExp
    <3>2. 2^(W - i) * 2^i = M
      BY <3>1
    <3> QED
      BY <3>1, <3>2
  <2>2. PICK q \in Nat \ {0}, d \in Nat \ {0} : q = Before(i) /\ 2^i = d * q
    <3>1. CASE i = 0
      <4>1. Before(i) = 1 /\ 2^i = 1 * 1
        BY <3>1 DEF Before
      <4> QED
        BY <4>1
    <3>2. CASE i # 0
      <4>1. PICK l \in Nat : i = l + 1 /\ i - 1 = l
        <5>1. i - 1 \in Nat /\ i = (i - 1) + 1
          BY <1>1, <3>2
        <5> QED
          BY <5>1
      <4>2. 2^i = 2 * 2^l /\ 2^l \in Nat \ {0} /\ Before(i) = 2^l
        BY <3>2, <4>1, TwoExp DEF Before
      <4> QED
        BY <4>2
    <3> QED
      BY <3>1, <3>2
  <2> QED
    BY <2>1, <2>2
<1>7. PICK p \in Nat \ {0} : p = 2^i
  BY <1>1, TwoExp
<1>8. test_offset' = RoundUp(cur_offset, p) % M
  <2>1. PICK t \in 0..(M - 1) : t = test_offset /\ t = RoundUp(cur_offset, q) % M
    <3>1. PICK a \in Nat : RoundUp(cur_offset, q) = a * q
      BY <1>4, RoundedUp
    <3>2. PICK n \in Nat : n = a * q
      OBVIOUS
    <3>3. n % M \in 0..(M - 1)
      BY <1>1, Divided
    <3> QED
      BY <1>5, <1>6, <3>1, <3>2, <3>3 DEF Wrapped
  <2>2. test_offset' = RoundUp(t, p) % M
    <3>1. next_multiple = IF t % p = 0 THEN t ELSE (((t \div p) + 1) * p) % M
      BY <1>5, <1>7, <2>1 DEF next_multiple
    <3> HIDE DEF M
    <3>2. (IF t % p = 0 THEN t ELSE (((t \div p) + 1) * p) % M) = RoundUp(t, p) % M
      BY <1>1, NextMultiple
    <3> QED
      BY <1>2, <3>1, <3>2
  <2>3. RoundUp(t, p) % M = RoundUp(cur_offset, p) % M
    <3>1. Divides(q, p) /\ Divides(p, M)
      BY <1>6, <1>7 DEF Divides
    <3>2. t = RoundUp(cur_offset, q) % M
      BY <2>1
    <3>3. M \in Nat \ {0}
      BY <1>1
    <3> HIDE DEF M
    <3>4. RoundsOn(cur_offset, q, p, M)
      BY <1>4, <3>1, <3>3, RoundedOn, Zenon
    <3> QED
      BY <3>2, <3>4, Zenon DEF RoundsOn
  <2> QED
    BY <2>2, <2>3
<1>9. test_offset' = Wrapped(2^i)
  BY <1>7, <1>8 DEF Wrapped
<1>10. Missed(i)' /\ Wrapped(2^i)' = Wrapped(2^i)
  BY <1>3, <1>5 DEF Missed, Wrapped
<1>11. CASE next_multiple = target_offset
  <2>1. at' = "found" /\ power' = power
    BY <1>11 DEF TryPower
  <2>2. FoundInvariant'
    BY <1>2, <1>3, <1>5, <1>9, <1>10, <1>11, <2>1 DEF FoundInvariant
  <2> QED
    BY <2>1, <2>2 DEF SearchInvariant
<1>12. CASE next_multiple # target_offset
  <2>1. at' = "searching" /\ power' = (2 * power) % M
    BY <1>2, <1>12 DEF TryPower
  <2>2. PICK j \in 1..W : j = i + 1 /\ j - 1 = i
    <3>1. i + 1 \in 1..W /\ (i + 1) - 1 = i
      BY <1>1
    <3> QED
      BY <3>1
  <2>3. power' = IF j = W THEN 0 ELSE 2^j
    <3>1. 2 * power = 2^j /\ 2^j \in Nat
      BY <1>1, <1>5, <2>2, TwoExp
    <3>2. CASE j = W
      <4>1. M = 1 * M + 0
        BY <1>1
      <4>2. M % M = 0
        <5> HIDE DEF M
        <5> QED
          BY <1>1, <4>1, RemainderIs
      <4> QED
        BY <2>1, <3>1, <3>2, <4>2
    <3>3. CASE j # W
      <4>1. 2^j < M
        BY <1>1, <3>3, PowersGrow
      <4>2. 2^j % M = 2^j
        BY <1>1, <3>1, <4>1, SmallRemainder
      <4> QED
        BY <2>1, <3>1, <3>3, <4>2
    <3> QED
      BY <3>2, <3>3
  <2>4. test_offset' = Wrapped(Before(j))'
    BY <1>9, <1>10, <2>2 DEF Before
  <2>5. Missed(j)'
    <3>1. ASSUME NEW l \in 0..(j - 1)
          PROVE  (Wrapped(2^l) # target_offset)'
      <4>1. CASE l = i
        BY <1>2, <1>3, <1>9, <1>10, <1>12, <4>1
      <4>2. CASE l # i
        <5>1. l \in 0..(i - 1)
          BY <1>1, <2>2, <4>2
        <5> QED
          BY <1>10, <5>1 DEF Missed
      <4> QED
        BY <4>1, <4>2
    <3> QED
      BY <3>1 DEF Missed
  <2>6. SearchInvariant'
    <3>1. j \in 0..W
      BY <1>1
    <3> QED
      BY <2>3, <2>4, <2>5, <3>1 DEF SearchInvariant
  <2> QED
    BY <2>1, <2>6 DEF FoundInvariant
<1> QED
  BY <1>11, <1>12

-----------------------------------------------------------------------------
(* Writing a member.                                                        *)
LEMMA PowerSound == \A p \in Power : p \in Nat \ {0}
<1>1. \A i \in 0..(UnsignedWidth - 1) : 2^i \in Nat \ {0}
  BY Widths, TwoExp
<1> QED
  BY <1>1 DEF Power

LEMMA TypeFacts ==
  ASSUME TypeOK
  PROVE  /\ aggregate.members \in Seq(Member)
         /\ DOMAIN aggregate.members = 1..Len(aggregate.members)
         /\ Len(aggregate.members) \in Nat
         /\ k \in Nat /\ k <= Len(aggregate.members)
         /\ end \in Nat /\ placed \in Seq(Nat) /\ Len(placed) = k
<1>1. /\ aggregate.members \in Seq(Member)
      /\ k \in 0..Len(aggregate.members)
      /\ end \in Nat /\ placed \in Seq(Nat) /\ Len(placed) = k
  BY Zenon DEF TypeOK, Aggregate
<1> QED
  BY <1>1

LEMMA RoundUpNat ==
  ASSUME NEW n \in Nat, NEW m \in Nat \ {0}
  PROVE  RoundUp(n, m) \in Nat /\ n <= RoundUp(n, m)
<1>1. PICK a \in Nat : RoundUp(n, m) = a * m /\ n <= a * m
  BY RoundedUp
<1>2. a * m \in Nat
  OBVIOUS
<1> QED
  BY <1>1, <1>2

LEMMA Appended ==
  ASSUME NEW s \in Seq(Nat), NEW x \in Nat
  PROVE  /\ Append(s, x) \in Seq(Nat)
         /\ Len(Append(s, x)) = Len(s) + 1
         /\ Append(s, x)[Len(s) + 1] = x
         /\ \A i \in 1..Len(s) : Append(s, x)[i] = s[i]
OBVIOUS

LEMMA OneMore ==
  /\ \A n, j \in Nat : n < j => n + 1 \in 0..j
  /\ \A x, y, z \in Nat : x + y + z \in Nat
OBVIOUS

LEMMA WriteTypes ==
  ASSUME TypeOK, k < Len(aggregate.members), NEW alignment \in Nat \ {0},
         NEW padding \in Nat, Write(alignment, padding), aggregate' = aggregate
  PROVE  /\ TypeOK'
         /\ at' = "between members" /\ k' = k + 1
         /\ \A i \in 1..k : placed'[i] = placed[i]
         /\ placed'[k + 1] = IF aggregate.is_union THEN 0 ELSE RoundUp(end, alignment)
         /\ end' = placed'[k + 1] + SizeOf(p_d) + padding
<1> DEFINE offset == IF aggregate.is_union THEN 0 ELSE RoundUp(end, alignment)
<1>1. offset \in Nat
  BY RoundUpNat DEF TypeOK
<1>2. SizeOf(p_d) \in Nat
  <2>1. p_d.size \in Dwarf_Unsigned \cup {NoSize}
    BY Members DEF TypeOK, Member
  <2>2. Dwarf_Unsigned \subseteq Nat
    BY Widths DEF Dwarf_Unsigned
  <2> QED
    BY <2>1, <2>2 DEF SizeOf
<1>3. /\ placed' = Append(placed, offset)
      /\ end' = offset + SizeOf(p_d) + padding
      /\ k' = k + 1
      /\ at' = "between members"
  BY DEF Write
<1> HIDE DEF offset
<1>4. /\ placed' \in Seq(Nat) /\ Len(placed') = k + 1
      /\ placed'[k + 1] = offset
      /\ \A i \in 1..k : placed'[i] = placed[i]
  <2>1. placed \in Seq(Nat) /\ Len(placed) = k
    BY TypeFacts, Zenon
  <2>2. Append(placed, offset) = placed'
    BY <1>3, Zenon
  <2> QED
    BY <1>1, <2>1, <2>2, Appended, Zenon
<1>5. end' \in Nat /\ k' \in 0..Len(aggregate.members)
  <2>1. k + 1 \in 0..Len(aggregate.members)
    BY OneMore, TypeFacts, Zenon
  <2> QED
    BY <1>1, <1>2, <1>3, <2>1, OneMore, TypeFacts, Zenon
<1>6. TypeOK'
  BY <1>3, <1>4, <1>5, Zenon DEF TypeOK
<1> QED
  BY <1>3, <1>4, <1>6 DEF offset

(* Of a natural struct: where the member goes that comes next.              *)
LEMMA NaturalNext ==
  ASSUME IInv, Natural(aggregate), k < Len(aggregate.members)
  PROVE  /\ p_d.location \in unsigned
         /\ p_d.size \in Dwarf_Unsigned
         /\ p_d.align \in Power
         /\ p_d.location = RoundUp(end, p_d.align)
         /\ ~aggregate.is_union
<1>1. TypeOK /\ EndInvariant
  BY DEF IInv
<1>2. DOMAIN aggregate.members = 1..Len(aggregate.members) /\ Len(aggregate.members) \in Nat
  BY <1>1, TypeFacts
<1>3. k + 1 \in DOMAIN aggregate.members
  BY <1>1, <1>2, TypeFacts
<1>4. p_d.align \in Power
  BY <1>1, Members DEF TypeOK, Member
<1>5. /\ p_d.location \in unsigned /\ p_d.size \in Dwarf_Unsigned
      /\ p_d.location = RoundUp(IF k + 1 = 1 THEN 0
                                ELSE aggregate.members[(k + 1) - 1].location
                                       + aggregate.members[(k + 1) - 1].size, p_d.align)
      /\ ~aggregate.is_union
  BY <1>3 DEF Natural, p_d
<1>6. end = IF k + 1 = 1 THEN 0
            ELSE aggregate.members[(k + 1) - 1].location
                   + aggregate.members[(k + 1) - 1].size
  <2>1. k \in Nat
    BY <1>1, TypeFacts
  <2>2. CASE k = 0
    BY <1>1, <2>2 DEF EndInvariant
  <2>3. CASE k # 0
    <3>1. k > 0 /\ k + 1 # 1 /\ (k + 1) - 1 = k
      BY <2>1, <2>3
    <3>2. end = aggregate.members[k].location + aggregate.members[k].size
      BY <1>1, <3>1 DEF EndInvariant, prev_member
    <3> QED
      BY <3>1, <3>2
  <2> QED
    BY <2>2, <2>3
<1> QED
  BY <1>4, <1>5, <1>6

(* A member written where DWARF has it, without padding, leaves the end     *)
(* where DWARF has the end of the member.                                   *)
LEMMA WriteKeeps ==
  ASSUME IInv, k < Len(aggregate.members), aggregate' = aggregate,
         NEW alignment \in Nat \ {0}, NEW padding \in Nat, Write(alignment, padding),
         Natural(aggregate) => padding = 0 /\ RoundUp(end, alignment) = p_d.location
  PROVE  IInv'
<1>1. /\ TypeOK'
      /\ at' = "between members" /\ k' = k + 1
      /\ \A i \in 1..k : placed'[i] = placed[i]
      /\ placed'[k + 1] = IF aggregate.is_union THEN 0 ELSE RoundUp(end, alignment)
      /\ end' = placed'[k + 1] + SizeOf(p_d) + padding
  BY WriteTypes DEF IInv
<1>2. EndInvariant'
  <2> SUFFICES ASSUME Natural(aggregate)
               PROVE  /\ \A i \in 1..k' : placed'[i] = aggregate.members[i].location
                      /\ k' = 0 => end' = 0
                      /\ k' > 0 => end' = (prev_member.location + prev_member.size)'
    BY DEF EndInvariant
  <2>1. k \in Nat
    BY TypeFacts DEF IInv
  <2>2. p_d.location \in Nat /\ p_d.size \in Nat /\ SizeOf(p_d) = p_d.size
    <3>1. p_d.location \in unsigned /\ p_d.size \in Dwarf_Unsigned
      BY NaturalNext
    <3>2. unsigned \subseteq Nat /\ Dwarf_Unsigned \subseteq Nat
      BY Widths DEF unsigned, Dwarf_Unsigned
    <3>3. p_d.size # NoSize
      BY <3>1, NoneAssumption
    <3> QED
      BY <3>1, <3>2, <3>3 DEF SizeOf
  <2>3. placed'[k + 1] = p_d.location
    BY <1>1, NaturalNext
  <2>4. end' = p_d.location + p_d.size
    <3>1. padding = 0 /\ end' = p_d.location + p_d.size + padding
      BY <1>1, <2>2, <2>3
    <3> QED
      BY <2>2, <3>1
  <2>5. prev_member' = p_d
    BY <1>1 DEF prev_member, p_d
  <2>6. ASSUME NEW i \in 1..(k + 1) PROVE placed'[i] = aggregate.members[i].location
    <3>1. CASE i = k + 1
      BY <2>3, <3>1 DEF p_d
    <3>2. CASE i # k + 1
      <4>1. i \in 1..k
        BY <2>1, <3>2
      <4> QED
        BY <1>1, <4>1 DEF IInv, EndInvariant
    <3> QED
      BY <3>1, <3>2
  <2>7. ~(k' = 0)
    <3>1. k' = k + 1
      BY <1>1, Zenon
    <3> QED
      BY <2>1, <3>1
  <2> QED
    BY <1>1, <2>4, <2>5, <2>6, <2>7
<1> QED
  BY <1>1, <1>2 DEF IInv, SearchInvariant, FoundInvariant
-----------------------------------------------------------------------------
(* The steps.                                                               *)
LEMMA InitIInv == Init => IInv
<1> SUFFICES ASSUME Init PROVE IInv
  OBVIOUS
<1>0. k = 0 /\ end = 0 /\ placed = <<>> /\ at = "between members"
  BY DEF Init
<1>1. Aggregate(aggregate)
  BY AggregatesAssumption, Zenon DEF Init
<1>2. aggregate.members \in Seq(Member)
  BY <1>1 DEF Aggregate
<1>3. 0 \in 0..Len(aggregate.members)
  BY <1>2
<1>4. TypeOK
  <2>1. 0 \in Nat /\ <<>> \in Seq(Nat) /\ Len(<<>>) = 0
    OBVIOUS
  <2> QED
    BY <1>0, <1>1, <1>3, <2>1, Zenon DEF TypeOK
<1>5. EndInvariant
  <2>1. 1..0 = {} /\ ~(0 > 0)
    OBVIOUS
  <2> QED
    BY <1>0, <2>1, Zenon DEF EndInvariant
<1> QED
  BY <1>0, <1>4, <1>5, Zenon DEF IInv, SearchInvariant, FoundInvariant

(* Searching leaves everything as it is but the search.                     *)
LEMMA SearchKeeps ==
  ASSUME IInv, at' \in {"searching", "found"}, k < Len(aggregate.members), Aligned,
         UNCHANGED <<aggregate, k, end, placed>>
  PROVE  TypeOK' /\ EndInvariant'
<1>1. Aligned'
  BY DEF Aligned, cur_offset, target_offset, prev_member, p_d
<1>2. TypeOK'
  <2>1. /\ aggregate' = aggregate /\ k' = k /\ end' = end /\ placed' = placed
        /\ at' \in {"between members", "searching", "found"}
    OBVIOUS
  <2> QED
    BY <1>1, <2>1, Zenon DEF IInv, TypeOK
<1>3. EndInvariant'
  BY DEF IInv, EndInvariant, prev_member
<1> QED
  BY <1>2, <1>3

LEMMA BeginSearchKeeps ==
  ASSUME IInv, BeginSearch
  PROVE  IInv'
<1>1. /\ at' = "searching" /\ k < Len(aggregate.members) /\ Aligned
      /\ power' = 1 /\ test_offset' = cur_offset % 2^UnsignedWidth
      /\ UNCHANGED <<aggregate, k, end, placed>>
  BY DEF BeginSearch
<1>2. TypeOK' /\ EndInvariant'
  BY <1>1, SearchKeeps
<1>3. cur_offset \in Nat
  BY <1>1, Offsets DEF IInv, TypeOK
<1>4. RoundUp(cur_offset, 1) = cur_offset
  <2>1. PICK c \in Nat : c = cur_offset
    BY <1>3
  <2>2. c <= c * 1 /\ c * 1 < c + 1 /\ c * 1 = c
    OBVIOUS
  <2>3. RoundUp(c, 1) = c * 1
    BY <2>2, RoundUpIs
  <2> QED
    BY <2>1, <2>2, <2>3
<1>5. cur_offset' = cur_offset
  BY <1>1 DEF cur_offset, prev_member, p_d
<1>6. test_offset' = Wrapped(Before(0))'
  BY <1>1, <1>4, <1>5 DEF Wrapped, Before
<1>7. 0 \in 0..UnsignedWidth /\ 0 # UnsignedWidth /\ 2^0 = 1
  <2>1. UnsignedWidth \in Nat \ {0}
    BY Widths
  <2> QED
    BY <2>1
<1>8. power' = IF 0 = UnsignedWidth THEN 0 ELSE 2^0
  BY <1>1, <1>7
<1>9. Missed(0)'
  BY DEF Missed
<1>10. SearchInvariant'
  BY <1>6, <1>7, <1>8, <1>9, Zenon DEF SearchInvariant
<1> QED
  BY <1>1, <1>2, <1>10 DEF IInv, FoundInvariant

LEMMA AlignSound ==
  ASSUME IInv, k < Len(aggregate.members)
  PROVE  p_d.align \in Nat \ {0}
<1>1. p_d.align \in Power
  BY Members DEF IInv, TypeOK, Member
<1> QED
  BY <1>1, PowerSound

LEMMA WriteUnalignedKeeps ==
  ASSUME IInv, WriteUnaligned
  PROVE  IInv'
<1>1. Write(p_d.align, 0) /\ k < Len(aggregate.members) /\ aggregate' = aggregate
  BY DEF WriteUnaligned
<1>2. p_d.align \in Nat \ {0} /\ 0 \in Nat
  BY <1>1, AlignSound
<1>3. Natural(aggregate) => 0 = 0 /\ RoundUp(end, p_d.align) = p_d.location
  BY <1>1, NaturalNext
<1> QED
  BY <1>1, <1>2, <1>3, WriteKeeps, Zenon

(* In a natural struct the compiler is where DWARF is.                      *)
LEMMA CurrentIsEnd ==
  ASSUME IInv, Natural(aggregate), k < Len(aggregate.members), Aligned
  PROVE  cur_offset = end /\ target_offset \in unsigned /\ p_d.align \in Power /\ Reaches(p_d.align)
<1>1. /\ p_d.location \in unsigned /\ p_d.align \in Power
      /\ p_d.location = RoundUp(end, p_d.align)
  BY NaturalNext
<1>2. cur_offset = end
  <2>1. TypeOK /\ EndInvariant /\ k \in Nat /\ end \in Nat
    BY TypeFacts DEF IInv
  <2>2. CASE k = 0
    BY <2>1, <2>2 DEF EndInvariant, cur_offset
  <2>3. CASE k # 0
    <3>1. k > 0
      BY <2>1, <2>3
    <3>2. end = prev_member.location + prev_member.size
      BY <2>1, <3>1 DEF EndInvariant
    <3>3. prev_member.location \in unsigned /\ prev_member.size \in Dwarf_Unsigned
      <4>1. k \in DOMAIN aggregate.members
        BY <2>1, <3>1, TypeFacts
      <4> QED
        BY <4>1 DEF Natural, prev_member
    <3>4. unsigned \subseteq Dwarf_Unsigned
      BY Widths DEF unsigned, Dwarf_Unsigned
    <3>5. prev_member.location # NoLocation /\ prev_member.size # NoSize
      BY <3>3, <3>4, NoneAssumption
    <3>6. cur_offset = end % 2^DwarfWidth
      BY <3>1, <3>2, <3>5 DEF cur_offset
    <3>7. end < 2^DwarfWidth
      <4>1. p_d.align \in Nat \ {0}
        BY AlignSound
      <4>2. end <= p_d.location
        BY <1>1, <2>1, <4>1, RoundUpNat
      <4>3. p_d.location \in Nat /\ p_d.location < 2^DwarfWidth
        <5> DEFINE D == 2^DwarfWidth
        <5>1. D \in Nat /\ p_d.location \in 0..(D - 1)
          BY <1>1, <3>4, Widths DEF Dwarf_Unsigned
        <5> HIDE DEF D
        <5>2. p_d.location \in Nat /\ p_d.location < D
          BY <5>1
        <5> QED
          BY <5>2 DEF D
      <4> QED
        BY <2>1, <4>2, <4>3, Widths
    <3> QED
      BY <2>1, <3>6, <3>7, Widths, SmallRemainder
  <2> QED
    BY <2>2, <2>3
<1> QED
  BY <1>1, <1>2 DEF Reaches, target_offset

LEMMA WriteAlignedKeeps ==
  ASSUME IInv, WriteAligned
  PROVE  IInv'
<1>1. /\ Write(Larger(p_d.align, power), 0) /\ aggregate' = aggregate
      /\ at = "found" /\ ~Failed
  BY DEF WriteAligned
<1>2. k < Len(aggregate.members) /\ Aligned
  BY <1>1 DEF IInv, TypeOK
<1>3. power \in Nat \ {0}
  <2>1. PICK i \in 0..(UnsignedWidth - 1) : power = 2^i
    BY <1>1 DEF IInv, FoundInvariant
  <2> QED
    BY <2>1, Widths, TwoExp
<1>4. p_d.align \in Nat \ {0}
  BY <1>2, AlignSound
<1>5. Larger(p_d.align, power) \in Nat \ {0} /\ 0 \in Nat
  BY <1>3, <1>4 DEF Larger
<1>6. ASSUME Natural(aggregate)
      PROVE  RoundUp(end, Larger(p_d.align, power)) = p_d.location
  <2>1. p_d.align \in Power /\ Reaches(p_d.align) /\ cur_offset = end
    BY <1>2, <1>6, CurrentIsEnd
  <2>2. ~(p_d.align < power)
    BY <1>1, <2>1, InvariantExact DEF SearchExact
  <2>3. Larger(p_d.align, power) = p_d.align
    BY <1>3, <1>4, <2>2 DEF Larger
  <2> QED
    BY <2>1, <2>3 DEF Reaches, target_offset
<1> QED
  BY <1>1, <1>2, <1>5, <1>6, WriteKeeps, Zenon

LEMMA WriteWarningKeeps ==
  ASSUME IInv, WriteWarning
  PROVE  IInv'
<1> DEFINE gap == (target_offset - cur_offset) % 2^DwarfWidth
           padding == IF gap < MAXIMUM_SANE_OFFSET THEN gap ELSE 0
<1>1. Write(p_d.align, padding) /\ aggregate' = aggregate /\ Failed
  BY DEF WriteWarning
<1>2. k < Len(aggregate.members) /\ Aligned
  BY <1>1 DEF IInv, TypeOK, Failed
<1>3. p_d.align \in Nat \ {0}
  BY <1>2, AlignSound
<1>4. padding \in Nat
  <2>1. cur_offset \in Nat /\ target_offset \in Nat
    BY <1>2, Offsets DEF IInv, TypeOK
  <2>2. \A n \in Int, m \in Nat \ {0} : n % m \in Nat
    OBVIOUS
  <2>3. gap \in Nat
    BY <2>1, <2>2, Widths
  <2> QED
    BY <2>3
<1>5. ~Natural(aggregate)
  <2> SUFFICES ASSUME Natural(aggregate) PROVE FALSE
    OBVIOUS
  <2>1. target_offset \in unsigned /\ p_d.align \in Power /\ Reaches(p_d.align)
    BY <1>2, CurrentIsEnd
  <2> QED
    BY <1>1, <2>1, InvariantExact DEF SearchExact
<1> HIDE DEF padding
<1> QED
  BY <1>1, <1>2, <1>3, <1>4, <1>5, WriteKeeps, Zenon
-----------------------------------------------------------------------------
(* The inductive invariant: the state of the search after each of its turns *)
(* (defn_of_die's loop over power), and where the text so far ends.         *)
THEOREM Invariance == Spec => []IInv
<1>1. Init => IInv
  BY InitIInv
<1>2. IInv /\ [Next]_vars => IInv'
  <2> SUFFICES ASSUME IInv, [Next]_vars PROVE IInv'
    OBVIOUS
  <2>1. CASE WriteUnaligned
    BY <2>1, WriteUnalignedKeeps
  <2>2. CASE BeginSearch
    BY <2>2, BeginSearchKeeps
  <2>3. CASE TryPower
    <3>1. SearchInvariant' /\ FoundInvariant'
      BY <2>3, TryPowerKeeps
    <3>2. /\ UNCHANGED <<aggregate, k, end, placed>>
          /\ at = "searching" /\ at' \in {"searching", "found"}
      BY <2>3 DEF TryPower
    <3>3. k < Len(aggregate.members) /\ Aligned
      BY <3>2 DEF IInv, TypeOK
    <3> QED
      BY <3>1, <3>2, <3>3, SearchKeeps DEF IInv
  <2>4. CASE WriteAligned
    BY <2>4, WriteAlignedKeeps
  <2>5. CASE WriteWarning
    BY <2>5, WriteWarningKeeps
  <2>6. CASE UNCHANGED vars
    <3>1. /\ aggregate' = aggregate /\ k' = k /\ at' = at /\ power' = power
          /\ test_offset' = test_offset /\ end' = end /\ placed' = placed
      BY <2>6 DEF vars
    <3>2. /\ cur_offset' = cur_offset /\ target_offset' = target_offset
          /\ prev_member' = prev_member /\ Aligned' = Aligned
      BY <3>1 DEF Aligned, cur_offset, target_offset, prev_member, p_d
    <3>3. TypeOK' /\ EndInvariant'
      BY <3>1, <3>2, Zenon DEF IInv, TypeOK, EndInvariant
    <3>4. SearchInvariant'
      BY <3>1, <3>2 DEF IInv, SearchInvariant, Missed, Wrapped
    <3>5. FoundInvariant'
      BY <3>1, <3>2 DEF IInv, FoundInvariant, Missed, Wrapped
    <3> QED
      BY <3>3, <3>4, <3>5 DEF IInv
  <2> QED
    BY <2>1, <2>2, <2>3, <2>4, <2>5, <2>6 DEF Next
<1> QED
  BY <1>1, <1>2, PTL DEF Spec

(* The search of defn_of_die stops with the least power of two whose next   *)
(* multiple from the current offset is the member's, and fails only if none *)
(* has it: for every width of `unsigned', though its arithmetic wraps.      *)
THEOREM Exact == Spec => []SearchExact
<1>1. IInv => SearchExact
  BY InvariantExact
<1> QED
  BY <1>1, Invariance, PTL

(* A struct that a compiler laid out by its members' alignments is laid out *)
(* again from the attributes that defn_of_die writes.                       *)
THEOREM SameLayout == Spec => []LaidOutAgain
<1>1. IInv => LaidOutAgain
  BY DEF IInv, EndInvariant, LaidOutAgain
<1> QED
  BY <1>1, Invariance, PTL
=============================================================================
