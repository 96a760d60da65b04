------------------- MODULE DependencyOrderingTargetProofs -------------------
(***************************************************************************)
(* Proofs about the two calls of a client, for every set of DIE graphs and *)
(* of requests: what transitively_close leaves is what                     *)
(* write_ordered_output may be called with, and what comes out is in the   *)
(* order of the dependencies.  The theorems on each of the calls are used  *)
(* as they stand.                                                          *)
(***************************************************************************)
EXTENDS DependencyOrderingTarget, FiniteSetTheorems, SequenceLemmas

(* The theorems on transitively_close, of the jobs that clients give it.    *)
ClientJobs == {JobOf(g, out) : g \in DieGraphs, out \in Outputs}
Call == INSTANCE DependencyClosureProofs WITH Jobs <- ClientJobs

(* Their definitions are the definitions of this module.                    *)
LEMMA SamePairs ==
  /\ Call!Pair = Pair
  /\ \A p : Call!KeyOf(p) = KeyOf(p)
  /\ \A S : Call!Keys(S) = Keys(S)
  /\ \A S : Call!OnePerKey(S) <=> OnePerKey(S)
BY DEF Call!Pair, Pair, Call!emit_kind, emit_kind, Call!EMIT_DECL, EMIT_DECL,
       Call!EMIT_DEF, EMIT_DEF, Call!KeyOf, KeyOf, Call!Keys, Keys, Call!OnePerKey, OnePerKey

LEMMA SameWriterPairs ==
  /\ Writer!Pair = Pair
  /\ \A p : Writer!KeyOf(p) = KeyOf(p)
  /\ \A S : Writer!Keys(S) = Keys(S)
  /\ \A S : Writer!OnePerKey(S) <=> OnePerKey(S)
  /\ \A S : Writer!IsFiniteSet(S) <=> IsFiniteSet(S)
BY DEF Writer!IsFiniteSet, IsFiniteSet, Writer!Pair, Pair, Writer!emit_kind, emit_kind,
       Writer!EMIT_DECL, EMIT_DECL,
       Writer!EMIT_DEF, EMIT_DEF, Writer!KeyOf, KeyOf, Writer!Keys, Keys,
       Writer!OnePerKey, OnePerKey

(* The elements of a sequence.                                              *)
LEMMA EmptyRange == Call!Range(<<>>) = {}
BY DEF Call!Range

LEMMA ElementsOfSeq ==
  ASSUME NEW T, NEW s \in Seq(T)
  PROVE  /\ \A e \in Range(s) : \E i \in 1..Len(s) : e = s[i]
         /\ \A i \in 1..Len(s) : s[i] \in T /\ s[i] \in Range(s)
<1>1. DOMAIN s = 1..Len(s)
  OBVIOUS
<1> QED
  BY <1>1 DEF Range

-----------------------------------------------------------------------------
(* The generator.                                                           *)

(* A well-founded relation on the DIEs has ranks, and type-equal DIEs have  *)
(* one rank where what they are related to is type-equal.                   *)
LEMMA Ranks ==
  ASSUME NEW R \in [Die -> SUBSET Die], WellFounded(R)
  PROVE  \E N \in Nat : \E rank \in [Die -> 0..N] :
           /\ \A d \in Die : \A e \in R[d] : rank[e] < rank[d]
           /\ (\A d, e \in Die : TypeRank[d] = TypeRank[e] => Alike(R[d]) = Alike(R[e]))
                => \A d, e \in Die : TypeRank[d] = TypeRank[e] => rank[d] = rank[e]
<1>1. PICK N \in Nat : N = Cardinality(Die)
  BY DiesAssumption, FS_CardinalityType
<1> DEFINE Level(f, n) == IF n = 0 THEN {} ELSE {d \in Die : R[d] \subseteq f[n - 1]}
           T == {m \in Nat : \E f : f = [n \in 0..m |-> Level(f, n)]}
<1>2. N \in T
  <2>1. 0 \in T
    <3> DEFINE h == [n \in 0..0 |-> {}]
    <3>1. \A n \in 0..0 : n = 0
      OBVIOUS
    <3>2. h = [n \in 0..0 |-> Level(h, n)]
      BY <3>1
    <3> HIDE DEF h
    <3>3. 0 \in Nat
      OBVIOUS
    <3> QED
      BY <3>2, <3>3, Zenon
  <2>2. ASSUME NEW m \in 0..(N - 1), m \in T PROVE m + 1 \in T
    <3>1. PICK g : g = [n \in 0..m |-> Level(g, n)]
      BY <2>2
    <3> DEFINE h == [n \in 0..(m + 1) |-> Level(g, n)]
    <3>2. \A n \in 0..(m + 1) : n - 1 \in 0..m \/ n = 0
      OBVIOUS
    <3>3. \A n \in 0..m : n \in 0..(m + 1) /\ h[n] = g[n]
      <4>1. \A n \in 0..m : n \in 0..(m + 1)
        OBVIOUS
      <4> QED
        BY <3>1, <4>1, Zenon
    <3> HIDE DEF h
    <3>4. \A n \in 0..(m + 1) : Level(h, n) = Level(g, n)
      BY <3>2, <3>3, Zenon
    <3>5. h = [n \in 0..(m + 1) |-> Level(h, n)]
      BY <3>4, Zenon DEF h
    <3>6. m + 1 \in Nat
      OBVIOUS
    <3> QED
      BY <3>5, <3>6, Zenon
  <2> HIDE DEF T
  <2>3. 0..N \subseteq T
    BY <2>1, <2>2, UpTo, Zenon
  <2> QED
    BY <2>3
<1> DEFINE L == CHOOSE f : f = [n \in 0..N |-> Level(f, n)]
<1>3. L = [n \in 0..N |-> Level(L, n)]
  BY <1>2, Zenon
<1>4. L[N] = Die
  BY <1>1, Zenon DEF WellFounded
<1> HIDE DEF L, T
<1>5. L[0] = {}
  <2>1. 0 \in 0..N
    OBVIOUS
  <2> QED
    BY <1>3, <2>1, Zenon
<1>6. \A n \in 1..N : n - 1 \in 0..N /\ L[n] = {d \in Die : R[d] \subseteq L[n - 1]}
  <2>1. \A n \in 1..N : n \in 0..N /\ n # 0 /\ n - 1 \in 0..N
    OBVIOUS
  <2> QED
    BY <1>3, <2>1, Zenon
<1>7. ASSUME NEW d \in Die
      PROVE  \E n \in 1..N : d \in L[n] /\ \A m \in 0..N : d \in L[m] => n <= m
  <2> DEFINE S == {n \in 0..N : d \in L[n]}
  <2>1. S \in SUBSET Nat /\ N \in S
    BY <1>4
  <2>2. PICK n \in S : \A m \in S : n <= m
    BY <2>1, LeastNat
  <2>3. n # 0
    BY <1>5
  <2>4. n \in 1..N
    BY <2>3
  <2> QED
    BY <2>2, <2>4
<1> DEFINE rank == [d \in Die |-> CHOOSE n \in 1..N :
                      d \in L[n] /\ \A m \in 0..N : d \in L[m] => n <= m]
<1>8. \A d \in Die : /\ rank[d] \in 1..N /\ d \in L[rank[d]]
                     /\ \A m \in 0..N : d \in L[m] => rank[d] <= m
  BY <1>7, Zenon
<1>9. rank \in [Die -> 0..N]
  <2>1. 1..N \subseteq 0..N
    OBVIOUS
  <2> QED
    BY <1>8, <2>1, Zenon
<1> HIDE DEF rank
<1>10. ASSUME NEW d \in Die, NEW e \in R[d] PROVE rank[e] < rank[d]
  <2>1. e \in Die
    OBVIOUS
  <2>2. rank[d] - 1 \in 0..N /\ d \in L[rank[d]] /\ L[rank[d]] = {x \in Die : R[x] \subseteq L[rank[d] - 1]}
    BY <1>6, <1>8, Zenon
  <2>3. e \in L[rank[d] - 1]
    BY <2>2, Zenon
  <2>4. rank[e] <= rank[d] - 1
    BY <1>8, <2>1, <2>2, <2>3, Zenon
  <2>5. rank[e] \in Nat /\ rank[d] \in Nat
    BY <1>9, <2>1
  <2> QED
    BY <2>4, <2>5
<1>11. ASSUME \A d, e \in Die : TypeRank[d] = TypeRank[e] => Alike(R[d]) = Alike(R[e])
       PROVE  \A d, e \in Die : TypeRank[d] = TypeRank[e] => rank[d] = rank[e]
  <2> DEFINE Closed(n) == \A d, e \in Die : TypeRank[d] = TypeRank[e] /\ d \in L[n] => e \in L[n]
             Q == {n \in 0..N : Closed(n)}
  <2>1. 0 \in Q
    BY <1>5
  <2>2. ASSUME NEW n \in 0..(N - 1), n \in Q PROVE n + 1 \in Q
    <3>1. n + 1 \in 1..N /\ (n + 1) - 1 = n /\ n + 1 \in 0..N
      OBVIOUS
    <3>2. L[n + 1] = {d \in Die : R[d] \subseteq L[n]}
      <4>1. PICK k \in 1..N : k = n + 1 /\ k - 1 = n
        BY <3>1
      <4>2. L[k] = {d \in Die : R[d] \subseteq L[k - 1]}
        BY <1>6, Zenon
      <4> QED
        BY <4>1, <4>2, Zenon
    <3>3. Closed(n)
      BY <2>2, Zenon
    <3>4. ASSUME NEW d \in Die, NEW e \in Die, TypeRank[d] = TypeRank[e], R[d] \subseteq L[n],
                 NEW x \in R[e]
          PROVE  x \in L[n]
      <4>1. PICK y \in R[d] : TypeRank[y] = TypeRank[x]
        <5>1. Alike(R[e]) = Alike(R[d])
          BY <1>11, <3>4, Zenon
        <5>2. TypeRank[x] \in Alike(R[e])
          BY DEF Alike
        <5>3. TypeRank[x] \in Alike(R[d])
          BY <5>1, <5>2, Zenon
        <5> QED
          BY <5>3, Zenon DEF Alike
      <4>2. x \in Die /\ y \in Die
        OBVIOUS
      <4> QED
        BY <3>3, <3>4, <4>1, <4>2, Zenon
    <3>5. Closed(n + 1)
      BY <3>2, <3>4, Zenon
    <3> QED
      BY <3>1, <3>5, Zenon
  <2>3. \A n \in 0..N : Closed(n)
    <3> HIDE DEF Q
    <3>1. 0..N \subseteq Q
      BY <2>1, <2>2, UpTo, Zenon
    <3> QED
      BY <3>1, Zenon DEF Q
  <2>4. ASSUME NEW d \in Die, NEW e \in Die, TypeRank[d] = TypeRank[e]
        PROVE  rank[e] <= rank[d]
    <3>1. rank[d] \in 0..N
      BY <1>8
    <3> QED
      BY <1>8, <2>3, <2>4, <3>1, Zenon
  <2>5. ASSUME NEW d \in Die, NEW e \in Die, TypeRank[d] = TypeRank[e]
        PROVE  rank[d] = rank[e]
    <3>1. rank[e] <= rank[d] /\ rank[d] <= rank[e]
      BY <2>4, <2>5, Zenon
    <3>2. rank[d] \in 0..N /\ rank[e] \in 0..N
      BY <1>9
    <3> QED
      BY <3>1, <3>2
  <2> QED
    BY <2>5, Zenon
<1> QED
  BY <1>9, <1>10, <1>11, Zenon
(* The types of members and of parameters.                                  *)
LEMMA ComponentTypes ==
  ASSUME NEW s \in Seq(Component)
  PROVE  /\ DOMAIN s = 1..Len(s) /\ Len(s) \in Nat
         /\ \A i \in DOMAIN s : s[i].type \in TypesOf(s)
         /\ TypesOf(s) \subseteq Die
<1>1. DOMAIN s = 1..Len(s) /\ Len(s) \in Nat
  OBVIOUS
<1>2. \A i \in DOMAIN s : s[i] \in Component
  OBVIOUS
<1> QED
  BY <1>1, <1>2 DEF TypesOf, Component

(* What a DIE is spelled with, by its tag.                                  *)
LEMMA SpellingOf ==
  ASSUME NEW g, DieGraph(g), NEW t \in Die
  PROVE  /\ g.tag[t] = "aggregate" /\ ~HasName(g, t) => Spelling(g, t) = TypesOf(g.members[t])
         /\ g.tag[t] \in {"subrange", "qualified", "pointer", "reference", "array",
                          "subroutine", "subprogram", "typedef", "variable"}
              => Spelling(g, t) = {g.type[t]} \cup TypesOf(g.params[t])
         /\ Spelling(g, t) \in SUBSET Die
         /\ Holding(g, t) \in SUBSET Die
         /\ g.members[t] \in Seq(Component) /\ g.params[t] \in Seq(Component)
         /\ g.type[t] \in Die
<1>1. /\ g.members[t] \in Seq(Component) /\ g.params[t] \in Seq(Component)
      /\ g.type[t] \in Die
  BY DEF DieGraph
<1>2. TypesOf(g.members[t]) \subseteq Die /\ TypesOf(g.params[t]) \subseteq Die
  BY <1>1, ComponentTypes
<1>3. Spelling(g, t) \in SUBSET Die
  BY <1>1, <1>2 DEF Spelling
<1>4. Holding(g, t) \in SUBSET Die
  BY <1>1, <1>2 DEF Holding
<1> QED
  BY <1>1, <1>3, <1>4 DEF Spelling

(* A declarator depends on the names of the types it is spelled with only. *)
LEMMA DeclaratorAlike ==
  ASSUME NEW g, DieGraph(g), NEW t \in Die, NEW f, NEW h,
         \A e \in Spelling(g, t) : f[e] = h[e], NEW b \in BOOLEAN
  PROVE  declarator(g, f, t, b) = declarator(g, h, t, b)
<1>1. CASE g.tag[t] # "subprogram" /\ HasName(g, t)
  BY <1>1, Zenon DEF declarator
<1>2. CASE ~(g.tag[t] # "subprogram" /\ HasName(g, t))
  <2>1. CASE g.tag[t] = "aggregate"
    <3>1. \A i \in DOMAIN g.members[t] : f[g.members[t][i].type] = h[g.members[t][i].type]
      BY <1>2, <2>1, SpellingOf, ComponentTypes
    <3> QED
      BY <1>2, <2>1, <3>1, Zenon DEF declarator
  <2>2. CASE g.tag[t] \in {"subroutine", "subprogram"}
    <3>1. /\ \A i \in DOMAIN g.params[t] : f[g.params[t][i].type] = h[g.params[t][i].type]
          /\ f[g.type[t]] = h[g.type[t]]
      BY <2>2, SpellingOf, ComponentTypes
    <3>2. \A n \in BOOLEAN : 
            [i \in DOMAIN g.params[t] |-> (IF b => g.params[t][i].named THEN <<>> ELSE <<Abort>>) \o f[g.params[t][i].type][FALSE]]
            = [i \in DOMAIN g.params[t] |-> (IF b => g.params[t][i].named THEN <<>> ELSE <<Abort>>) \o h[g.params[t][i].type][FALSE]]
      BY <3>1, Zenon
    <3> QED
      BY <1>2, <2>2, <3>1, <3>2, Zenon DEF declarator
  <2>3. CASE g.tag[t] \in {"subrange", "qualified", "pointer", "reference", "array"}
    <3>1. f[g.type[t]] = h[g.type[t]]
      BY <2>3, SpellingOf
    <3> QED
      BY <1>2, <2>3, <3>1, Zenon DEF declarator
  <2>4. CASE g.tag[t] \notin {"aggregate", "subroutine", "subprogram", "subrange", "qualified",
                              "pointer", "reference", "array"}
    BY <1>2, <2>4 DEF declarator
  <2> QED
    BY <2>1, <2>2, <2>3, <2>4
<1> QED
  BY <1>1, <1>2

(* And is made of theirs, the type's own and aborts.                       *)
LEMMA DeclaratorTyped ==
  ASSUME NEW g, DieGraph(g), NEW t \in Die, NEW f, NEW U, Abort \in U,
         \A e \in Spelling(g, t) : \A b \in BOOLEAN : f[e][b] \in Seq(U),
         g.tag[t] # "subprogram" => Normal(t) \in U,
         NEW fp_names \in BOOLEAN
  PROVE  declarator(g, f, t, fp_names) \in Seq(U)
<1> DEFINE asks == IF g.tag[t] \in {"void", "base", "subprogram"} THEN <<>> ELSE <<Normal(t)>>
           child(c, name_needed) ==
             (IF name_needed => c.named THEN <<>> ELSE <<Abort>>) \o f[c.type][FALSE]
<1>1. asks \in Seq(U) /\ <<>> \in Seq(U) /\ <<Abort>> \in Seq(U)
  OBVIOUS
<1>2. \A x, y \in Seq(U) : x \o y \in Seq(U)
  OBVIOUS
<1>3. ASSUME NEW s \in Seq(Component), TypesOf(s) \subseteq Spelling(g, t),
             NEW name_needed \in BOOLEAN
      PROVE  FlattenSeq([i \in DOMAIN s |-> child(s[i], name_needed)]) \in Seq(U)
  <2>1. /\ DOMAIN s = 1..Len(s) /\ Len(s) \in Nat
        /\ \A i \in DOMAIN s : s[i].type \in Spelling(g, t)
    BY <1>3, ComponentTypes
  <2>2. ASSUME NEW i \in DOMAIN s PROVE child(s[i], name_needed) \in Seq(U)
    BY <1>1, <1>2, <2>1, <2>2, Zenon
  <2> HIDE DEF child
  <2>3. [i \in DOMAIN s |-> child(s[i], name_needed)] \in Seq(Seq(U))
    BY <2>1, <2>2
  <2> QED
    BY <2>3, FlattenInSeq, Zenon
<1>4. CASE g.tag[t] # "subprogram" /\ HasName(g, t)
  BY <1>1, <1>2, <1>4, Zenon DEF declarator
<1>5. CASE ~(g.tag[t] # "subprogram" /\ HasName(g, t))
  <2>1. CASE g.tag[t] = "aggregate"
    <3>1. FlattenSeq([i \in DOMAIN g.members[t] |-> child(g.members[t][i], TRUE)]) \in Seq(U)
      BY <1>3, <1>5, <2>1, SpellingOf
    <3> QED
      BY <1>1, <1>2, <1>5, <2>1, <3>1, Zenon DEF declarator
  <2>2. CASE g.tag[t] \in {"subroutine", "subprogram"}
    <3>1. FlattenSeq([i \in DOMAIN g.params[t] |-> child(g.params[t][i], fp_names)]) \in Seq(U)
      BY <1>3, <2>2, SpellingOf
    <3>2. f[g.type[t]][FALSE] \in Seq(U)
      BY <2>2, SpellingOf
    <3> QED
      BY <1>1, <1>2, <1>5, <2>2, <3>1, <3>2, Zenon DEF declarator
  <2>3. CASE g.tag[t] \in {"subrange", "qualified", "pointer", "reference", "array"}
    <3>1. f[g.type[t]][FALSE] \in Seq(U) /\ f[g.type[t]][fp_names] \in Seq(U)
      BY <2>3, SpellingOf
    <3> QED
      BY <1>1, <1>2, <1>5, <2>3, <3>1, Zenon DEF declarator
  <2>4. CASE g.tag[t] \in {"void", "base"}
    BY <1>1, <1>2, <1>5, <2>4, Zenon DEF declarator
  <2>5. CASE g.tag[t] = "enumeration"
    <3>1. <<Normal(t), Abort>> \in Seq(U)
      BY <2>5
    <3> QED
      BY <1>1, <1>2, <1>5, <2>5, <3>1, Zenon DEF declarator
  <2>6. CASE g.tag[t] \in {"typedef", "variable", "string"}
    BY <1>1, <1>2, <1>5, <2>6, Zenon DEF declarator
  <2> QED
    BY <2>1, <2>2, <2>3, <2>4, <2>5, <2>6 DEF DieGraph, Tag
<1> QED
  BY <1>4, <1>5

(* How deep the spelling of a DIE is.                                       *)
LEMMA SpellingRanks ==
  ASSUME NEW g, DieGraph(g)
  PROVE  \E N \in Nat : \E rank \in [Die -> 0..N] :
           /\ \A d \in Die : \A e \in Spelling(g, d) : rank[e] < rank[d]
           /\ g \in DieGraphs => \A d, e \in Die : TypeRank[d] = TypeRank[e] => rank[d] = rank[e]
<1> DEFINE R == [u \in Die |-> Spelling(g, u)]
<1>1. R \in [Die -> SUBSET Die] /\ WellFounded(R)
  BY SpellingOf DEF DieGraph
<1>2. \A u \in Die : R[u] = Spelling(g, u)
  OBVIOUS
<1>3. g \in DieGraphs => \A d, e \in Die : TypeRank[d] = TypeRank[e] => Alike(R[d]) = Alike(R[e])
  BY <1>2, EqualTypesAssumption, Zenon
<1> HIDE DEF R
<1>4. PICK N \in Nat : \E rank \in [Die -> 0..N] :
           /\ \A d \in Die : \A e \in R[d] : rank[e] < rank[d]
           /\ (\A d, e \in Die : TypeRank[d] = TypeRank[e] => Alike(R[d]) = Alike(R[e]))
                => \A d, e \in Die : TypeRank[d] = TypeRank[e] => rank[d] = rank[e]
  BY <1>1, Ranks, Zenon
<1>5. PICK rank \in [Die -> 0..N] :
           /\ \A d \in Die : \A e \in R[d] : rank[e] < rank[d]
           /\ (\A d, e \in Die : TypeRank[d] = TypeRank[e] => Alike(R[d]) = Alike(R[e]))
                => \A d, e \in Die : TypeRank[d] = TypeRank[e] => rank[d] = rank[e]
  BY <1>4, Zenon
<1>6. \A d \in Die : \A e \in Spelling(g, d) : rank[e] < rank[d]
  BY <1>2, <1>5, Zenon
<1> QED
  BY <1>3, <1>5, <1>6, Zenon

(* The recursion over the types ends: the equation that defines it has a    *)
(* solution.                                                                *)
LEMMA DeclHavingType ==
  ASSUME NEW g, DieGraph(g), NEW t \in Die, NEW b \in BOOLEAN
  PROVE  decl_having_type(g)[t][b] = declarator(g, decl_having_type(g), t, b)
<1> DEFINE Row(f, u) == [c \in BOOLEAN |-> declarator(g, f, u, c)]
<1>1. \E f : f = [u \in Die |-> Row(f, u)]
  <2>1. PICK N \in Nat : \E rank \in [Die -> 0..N] :
          \A u \in Die : \A e \in Spelling(g, u) : rank[e] < rank[u]
    BY SpellingRanks, Zenon
  <2>2. PICK rank \in [Die -> 0..N] :
          \A u \in Die : \A e \in Spelling(g, u) : rank[e] < rank[u]
    BY <2>1, Zenon
  <2> DEFINE Solves(n, f) == f = [u \in Die |-> f[u]] /\ \A u \in Die : rank[u] < n => f[u] = Row(f, u)
             T == {n \in Nat : \E f : Solves(n, f)}
  <2>3. 0 \in T
    <3> DEFINE h == [u \in Die |-> 0]
    <3>1. \A u \in Die : ~(rank[u] < 0) /\ 0 \in Nat
      OBVIOUS
    <3>2. Solves(0, h)
      BY <3>1, Zenon
    <3> HIDE DEF Solves, h
    <3> QED
      BY <3>1, <3>2
  <2>4. ASSUME NEW n \in 0..N, n \in T PROVE n + 1 \in T
    <3>1. PICK f : Solves(n, f)
      BY <2>4, Zenon
    <3> DEFINE h == [u \in Die |-> Row(f, u)]
    <3>2. \A u \in Die : rank[u] < n => h[u] = f[u]
      BY <3>1, Zenon
    <3>3. ASSUME NEW u \in Die, rank[u] < n + 1 PROVE h[u] = Row(h, u)
      <4>1. ASSUME NEW e \in Spelling(g, u) PROVE f[e] = h[e]
        <5>1. e \in Die /\ rank[e] < rank[u]
          BY <2>2, SpellingOf
        <5>2. rank[e] < n
          BY <3>3, <5>1
        <5> QED
          BY <3>2, <5>1, <5>2, Zenon
      <4> HIDE DEF h
      <4>2. ASSUME NEW c \in BOOLEAN
            PROVE  declarator(g, f, u, c) = declarator(g, h, u, c)
        BY <4>1, DeclaratorAlike
      <4>3. h[u] = Row(f, u)
        BY Zenon DEF h
      <4> QED
        BY <4>2, <4>3, Zenon
    <3>4. Solves(n + 1, h)
      BY <3>3, Zenon
    <3>5. n + 1 \in Nat
      OBVIOUS
    <3> HIDE DEF h, Solves
    <3> QED
      BY <3>4, <3>5, Zenon
  <2> HIDE DEF T
  <2>5. N + 1 \in T
    <3>1. 0..(N + 1) \subseteq T
      <4>1. N + 1 \in Nat /\ 0..((N + 1) - 1) = 0..N
        OBVIOUS
      <4> QED
        BY <2>3, <2>4, <4>1, UpTo, Zenon
    <3> QED
      BY <3>1
  <2>6. PICK f : Solves(N + 1, f)
    BY <2>5, Zenon DEF T
  <2>7. \A u \in Die : rank[u] < N + 1
    OBVIOUS
  <2>8. f = [u \in Die |-> f[u]] /\ \A u \in Die : f[u] = Row(f, u)
    BY <2>6, <2>7, Zenon
  <2>9. [u \in Die |-> f[u]] = [u \in Die |-> Row(f, u)]
    BY <2>8, Zenon
  <2> QED
    BY <2>8, <2>9, Zenon
<1> DEFINE names == CHOOSE f : f = [u \in Die |-> Row(f, u)]
<1>2. decl_having_type(g) = names
  BY Zenon DEF decl_having_type
<1>3. names = [u \in Die |-> Row(names, u)]
  BY <1>1, Zenon
<1> HIDE DEF names
<1>4. names[t][b] = declarator(g, names, t, b)
  <2>1. names[t] = Row(names, t)
    BY <1>3, Zenon
  <2> QED
    BY <2>1, Zenon
<1> QED
  BY <1>2, <1>4, Zenon

(* A type is concrete after finitely many steps.                            *)
LEMMA ConcreteTypeIsType ==
  ASSUME NEW g, DieGraph(g), NEW d \in Die
  PROVE  get_concrete_type(g, d) \in Die
<1> DEFINE Through == {t \in Die : g.tag[t] \in {"typedef", "qualified", "subrange"}}
           Concrete(f, t) == IF t \in Through THEN f[g.type[t]] ELSE t
           concrete == CHOOSE f : f = [t \in Die |-> Concrete(f, t)]
<1>1. get_concrete_type(g, d) = concrete[d]
  <2> DEFINE c == CHOOSE f : f = [t \in Die |-> IF g.tag[t] \in {"typedef", "qualified", "subrange"} THEN f[g.type[t]] ELSE t]
  <2>1. get_concrete_type(g, d) = c[d]
    BY Zenon DEF get_concrete_type
  <2>2. \A f, t : t \in Die => Concrete(f, t) = IF g.tag[t] \in {"typedef", "qualified", "subrange"} THEN f[g.type[t]] ELSE t
    OBVIOUS
  <2>3. \A f : [t \in Die |-> Concrete(f, t)] = [t \in Die |-> IF g.tag[t] \in {"typedef", "qualified", "subrange"} THEN f[g.type[t]] ELSE t]
    BY <2>2, Zenon
  <2>4. c = concrete
    BY <2>3
  <2> QED
    BY <2>1, <2>4, Zenon
<1>2. \A t \in Through : g.type[t] \in Die /\ g.type[t] \in Holding(g, t)
  BY SpellingOf DEF Holding
<1> HIDE DEF Through
<1>3. PICK N \in Nat : \E rank \in [Die -> 0..N] :
        \A u \in Die : \A e \in Holding(g, u) : rank[e] < rank[u]
  <2> DEFINE R == [u \in Die |-> Holding(g, u)]
  <2>1. R \in [Die -> SUBSET Die] /\ WellFounded(R)
    BY SpellingOf DEF DieGraph
  <2>2. \A u \in Die : R[u] = Holding(g, u)
    OBVIOUS
  <2> HIDE DEF R
  <2>3. PICK N \in Nat : \E rank \in [Die -> 0..N] :
          \A u \in Die : \A e \in R[u] : rank[e] < rank[u]
    BY <2>1, Ranks, Zenon
  <2>4. PICK rank \in [Die -> 0..N] : \A u \in Die : \A e \in R[u] : rank[e] < rank[u]
    BY <2>3, Zenon
  <2> QED
    BY <2>2, <2>4, Zenon
<1>4. PICK rank \in [Die -> 0..N] :
        \A u \in Die : \A e \in Holding(g, u) : rank[e] < rank[u]
  BY <1>3, Zenon
<1>5. \A t \in Through : t \in Die => g.type[t] \in Die /\ rank[g.type[t]] < rank[t]
  BY <1>2, <1>4, Zenon
<1>6. \E f : f = [t \in Die |-> Concrete(f, t)]
  <2> DEFINE Solves(n, f) == f = [t \in Die |-> f[t]] /\ \A t \in Die : rank[t] < n => f[t] = Concrete(f, t)
             T == {n \in Nat : \E f : Solves(n, f)}
  <2>1. 0 \in T
    <3> DEFINE h == [u \in Die |-> 0]
    <3>1. \A u \in Die : ~(rank[u] < 0) /\ 0 \in Nat
      OBVIOUS
    <3>2. Solves(0, h)
      BY <3>1, Zenon
    <3> HIDE DEF Solves, h
    <3> QED
      BY <3>1, <3>2
  <2>2. ASSUME NEW n \in 0..N, n \in T PROVE n + 1 \in T
    <3>1. PICK f : Solves(n, f)
      BY <2>2, Zenon
    <3> DEFINE h == [t \in Die |-> Concrete(f, t)]
    <3>2. ASSUME NEW t \in Die, rank[t] < n + 1 PROVE h[t] = Concrete(h, t)
      <4>1. h[t] = Concrete(f, t)
        BY Zenon
      <4>2. t \in Through => rank[g.type[t]] < n
        <5> SUFFICES ASSUME t \in Through PROVE rank[g.type[t]] < n
          OBVIOUS
        <5>1. PICK u \in Die : u = g.type[t] /\ rank[u] < rank[t]
          BY <1>5
        <5>2. rank[u] < n
          BY <3>2, <5>1
        <5> QED
          BY <5>1, <5>2, Zenon
      <4>3. t \in Through => h[g.type[t]] = f[g.type[t]]
        BY <1>5, <3>1, <4>2, Zenon
      <4> QED
        BY <4>1, <4>3, Zenon
    <3>3. Solves(n + 1, h)
      BY <3>2, Zenon
    <3>4. n + 1 \in Nat
      OBVIOUS
    <3> HIDE DEF h, Solves
    <3> QED
      BY <3>3, <3>4, Zenon
  <2> HIDE DEF T
  <2>3. N + 1 \in T
    <3>1. 0..(N + 1) \subseteq T
      <4>1. N + 1 \in Nat /\ 0..((N + 1) - 1) = 0..N
        OBVIOUS
      <4> QED
        BY <2>1, <2>2, <4>1, UpTo, Zenon
    <3> QED
      BY <3>1
  <2>4. PICK f : Solves(N + 1, f)
    BY <2>3, Zenon DEF T
  <2>5. \A u \in Die : rank[u] < N + 1
    OBVIOUS
  <2>6. f = [t \in Die |-> f[t]] /\ \A t \in Die : f[t] = Concrete(f, t)
    BY <2>4, <2>5, Zenon
  <2>7. [t \in Die |-> f[t]] = [t \in Die |-> Concrete(f, t)]
    BY <2>6, Zenon
  <2> QED
    BY <2>6, <2>7, Zenon
<1>7. concrete = [t \in Die |-> Concrete(concrete, t)]
  BY <1>6, Zenon
<1> HIDE DEF concrete
<1>8. \A t \in Die : concrete[t] = Concrete(concrete, t)
  BY <1>7, Zenon
<1> DEFINE Q == {n \in 0..(N + 1) : \A t \in Die : rank[t] < n => concrete[t] \in Die}
<1>9. 0 \in Q
  OBVIOUS
<1>10. ASSUME NEW n \in 0..N, n \in Q PROVE n + 1 \in Q
  <2>1. ASSUME NEW t \in Die, rank[t] < n + 1 PROVE concrete[t] \in Die
    <3>1. CASE t \in Through
      <4>1. PICK u \in Die : u = g.type[t] /\ rank[u] < rank[t]
        BY <1>5, <3>1
      <4>2. rank[u] < n
        BY <2>1, <4>1
      <4> QED
        BY <1>8, <1>10, <3>1, <4>1, <4>2, Zenon
    <3>2. CASE t \notin Through
      BY <1>8, <3>2, Zenon
    <3> QED
      BY <3>1, <3>2
  <2> QED
    BY <2>1
<1> HIDE DEF Q
<1>11. N + 1 \in Q
  <2>1. N + 1 \in Nat /\ 0..((N + 1) - 1) = 0..N
    OBVIOUS
  <2>2. 0..(N + 1) \subseteq Q
    BY <1>9, <1>10, <2>1, UpTo, Zenon
  <2> QED
    BY <2>1, <2>2
<1>12. rank[d] < N + 1
  OBVIOUS
<1> QED
  BY <1>1, <1>11, <1>12, Zenon DEF Q

(* What a text asks for by name, up to a rank: the end of a run in an       *)
(* assertion among it.                                                      *)
Named(rank, k) == {Abort} \cup {Normal(x) : x \in {y \in Die : rank[y] <= k}}
Asked(rank, k) == Named(rank, k) \cup {Defining(x) : x \in Die}

LEMMA SeqOfMore ==
  ASSUME NEW S, NEW T, S \subseteq T PROVE Seq(S) \subseteq Seq(T)
OBVIOUS

(* A declarator names nothing whose spelling is deeper than that of its     *)
(* type; that of a subprogram does not name the subprogram.                 *)
LEMMA DeclHavingTypeNames ==
  ASSUME NEW g, DieGraph(g), NEW N \in Nat, NEW rank \in [Die -> 0..N],
         \A d \in Die : \A e \in Spelling(g, d) : rank[e] < rank[d],
         NEW t \in Die, NEW b \in BOOLEAN
  PROVE  /\ decl_having_type(g)[t][b] \in Seq(Named(rank, rank[t]))
         /\ g.tag[t] = "subprogram"
              => decl_having_type(g)[t][b] \in Seq(Named(rank, rank[t] - 1))
<1> DEFINE names == decl_having_type(g)
           Typed(u) == \A c \in BOOLEAN : names[u][c] \in Seq(Named(rank, rank[u]))
           Q == {n \in 0..(N + 1) : \A u \in Die : rank[u] < n => Typed(u)}
<1>1. \A u \in Die : rank[u] \in 0..N
  OBVIOUS
<1>2. ASSUME NEW u \in Die, NEW k \in Int, rank[u] - 1 <= k,
             g.tag[u] # "subprogram" => rank[u] <= k,
             \A e \in Spelling(g, u) : Typed(e), NEW c \in BOOLEAN
      PROVE  names[u][c] \in Seq(Named(rank, k))
  <2>1. Abort \in Named(rank, k)
    BY DEF Named
  <2>2. g.tag[u] # "subprogram" => Normal(u) \in Named(rank, k)
    BY <1>2 DEF Named
  <2>3. ASSUME NEW e \in Spelling(g, u), NEW a \in BOOLEAN
        PROVE  names[e][a] \in Seq(Named(rank, k))
    <3>1. e \in Die /\ rank[e] <= k
      <4>1. e \in Die
        BY SpellingOf
      <4>2. rank[e] < rank[u] /\ rank[e] \in 0..N /\ rank[u] \in 0..N
        BY <1>1, <4>1, Zenon
      <4> QED
        BY <1>2, <4>1, <4>2
    <3>2. Named(rank, rank[e]) \subseteq Named(rank, k)
      BY <1>1, <3>1 DEF Named
    <3>3. names[e][a] \in Seq(Named(rank, rank[e]))
      BY <1>2, Zenon
    <3> QED
      BY <3>2, <3>3, SeqOfMore, Zenon
  <2>4. names[u][c] = declarator(g, names, u, c)
    BY DeclHavingType
  <2> HIDE DEF names
  <2>5. declarator(g, names, u, c) \in Seq(Named(rank, k))
    BY <2>1, <2>2, <2>3, DeclaratorTyped
  <2> QED
    BY <2>4, <2>5, Zenon
<1> HIDE DEF names
<1>3. 0 \in Q
  BY <1>1
<1>4. ASSUME NEW n \in 0..N, n \in Q PROVE n + 1 \in Q
  <2>1. ASSUME NEW u \in Die, rank[u] < n + 1 PROVE Typed(u)
    <3>1. ASSUME NEW e \in Spelling(g, u) PROVE Typed(e)
      <4>1. e \in Die
        BY SpellingOf
      <4>2. rank[e] < rank[u] /\ rank[e] \in 0..N /\ rank[u] \in 0..N
        BY <1>1, <4>1, Zenon
      <4>3. rank[e] < n
        BY <2>1, <4>2
      <4> QED
        BY <1>4, <4>1, <4>3, Zenon
    <3>2. rank[u] \in Int /\ rank[u] - 1 <= rank[u] /\ rank[u] <= rank[u]
      BY <1>1
    <3> QED
      BY <1>2, <3>1, <3>2, Zenon
  <2>2. n + 1 \in 0..(N + 1)
    OBVIOUS
  <2> HIDE DEF Typed
  <2> QED
    BY <2>1, <2>2, Zenon
<1> HIDE DEF Q
<1>5. \A u \in Die : Typed(u)
  <2>1. N + 1 \in Nat /\ 0..((N + 1) - 1) = 0..N
    OBVIOUS
  <2>2. 0..(N + 1) \subseteq Q
    BY <1>3, <1>4, <2>1, UpTo, Zenon
  <2>3. N + 1 \in Q /\ \A u \in Die : rank[u] < N + 1
    BY <1>1, <2>1, <2>2
  <2> HIDE DEF Typed
  <2> QED
    BY <2>3, Zenon DEF Q
<1>6. ASSUME g.tag[t] = "subprogram" PROVE names[t][b] \in Seq(Named(rank, rank[t] - 1))
  <2>1. rank[t] - 1 \in Int /\ rank[t] - 1 <= rank[t] - 1
    BY <1>1
  <2>2. \A e \in Spelling(g, t) : Typed(e)
    <3>1. Spelling(g, t) \in SUBSET Die
      BY SpellingOf
    <3> QED
      BY <1>5, <3>1, Zenon
  <2> QED
    BY <1>2, <1>6, <2>1, <2>2, Zenon
<1> QED
  BY <1>5, <1>6, Zenon DEF names

(* The text of a pair names DIEs; that of a declaration, DIEs whose         *)
(* spelling is less deep.                                                   *)
LEMMA GenerateAsks ==
  ASSUME NEW g, DieGraph(g), NEW N \in Nat, NEW rank \in [Die -> 0..N],
         \A d \in Die : \A e \in Spelling(g, d) : rank[e] < rank[d],
         NEW p \in Pair
  PROVE  /\ Generate(g, p) \in Seq(Asked(rank, N))
         /\ p.kind = EMIT_DECL => Generate(g, p) \in Seq(Asked(rank, rank[p.die] - 1))
<1>1. p.die \in Die /\ p.kind \in {EMIT_DECL, EMIT_DEF}
  BY DEF Pair, emit_kind
<1>2. PICK d \in Die : d = p.die
  BY <1>1
<1>3. \A u \in Die : rank[u] \in 0..N
  OBVIOUS
<1>4. \A k : \A x, y \in Seq(Asked(rank, k)) : x \o y \in Seq(Asked(rank, k))
  OBVIOUS
<1>5. \A k : /\ <<>> \in Seq(Asked(rank, k))
             /\ <<Abort>> \in Seq(Asked(rank, k))
             /\ \A u \in Die : <<Defining(u)>> \in Seq(Asked(rank, k))
  BY DEF Asked, Named
<1>6. \A k, u : DerefName(g, u) \in Seq(Asked(rank, k))
  BY <1>5, Zenon DEF DerefName
<1>7. ASSUME NEW u \in Die, NEW b \in BOOLEAN, NEW k \in Int, rank[u] <= k
      PROVE  decl_having_type(g)[u][b] \in Seq(Asked(rank, k))
  <2>1. decl_having_type(g)[u][b] \in Seq(Named(rank, rank[u]))
    BY DeclHavingTypeNames
  <2>2. Named(rank, rank[u]) \subseteq Asked(rank, k)
    BY <1>3, <1>7 DEF Named, Asked
  <2> QED
    BY <2>1, <2>2, SeqOfMore, Zenon
<1>8. ASSUME NEW b \in BOOLEAN, g.tag[d] = "subprogram"
      PROVE  decl_having_type(g)[d][b] \in Seq(Asked(rank, rank[d] - 1))
  <2>1. decl_having_type(g)[d][b] \in Seq(Named(rank, rank[d] - 1))
    BY <1>8, DeclHavingTypeNames
  <2>2. \A k : Named(rank, k) \subseteq Asked(rank, k)
    BY DEF Asked
  <2>3. \A k : Seq(Named(rank, k)) \subseteq Seq(Asked(rank, k))
    BY <2>2, SeqOfMore
  <2> QED
    BY <2>1, <2>3, Zenon
<1>9. decl_of_die(g, d) \in Seq(Asked(rank, rank[d] - 1))
  <2>1. CASE g.tag[d] \in {"variable", "typedef"}
    <3>1. g.type[d] \in Die /\ g.type[d] \in Spelling(g, d)
      BY <2>1, SpellingOf
    <3>2. rank[g.type[d]] < rank[d]
      BY <3>1
    <3>3. rank[g.type[d]] <= rank[d] - 1 /\ rank[d] - 1 \in Int
      <4>1. PICK e \in Die : e = g.type[d] /\ rank[e] < rank[d]
        BY <3>1, <3>2
      <4> QED
        BY <1>3, <4>1
    <3>4. decl_having_type(g)[g.type[d]][FALSE] \in Seq(Asked(rank, rank[d] - 1))
      BY <1>7, <3>1, <3>3
    <3> QED
      BY <1>4, <1>6, <2>1, <3>4, Zenon DEF decl_of_die
  <2>2. CASE g.tag[d] = "subprogram"
    BY <1>4, <1>5, <1>6, <1>8, <2>2, Zenon DEF decl_of_die
  <2>3. CASE g.tag[d] \in {"aggregate", "enumeration"}
    BY <1>5, <2>3, Zenon DEF decl_of_die
  <2>4. CASE g.tag[d] \notin {"variable", "typedef", "subprogram", "aggregate", "enumeration"}
    BY <1>5, <2>4, Zenon DEF decl_of_die
  <2> QED
    BY <2>1, <2>2, <2>3, <2>4
<1>10. decl_of_die(g, d) \in Seq(Asked(rank, N))
  <2>1. Asked(rank, rank[d] - 1) \subseteq Asked(rank, N)
    BY <1>3 DEF Asked, Named
  <2> QED
    BY <1>9, <2>1, SeqOfMore, Zenon
<1>11. \A u \in Die : <<Normal(u)>> \in Seq(Asked(rank, N))
  <2>1. \A u \in Die : rank[u] <= N
    <3>1. \A n \in 0..N : n <= N
      OBVIOUS
    <3> QED
      BY <1>3, <3>1, Zenon
  <2>2. \A u \in Die : Normal(u) \in Asked(rank, N)
    BY <2>1, Zenon DEF Asked, Named
  <2>3. \A S : \A x \in S : <<x>> \in Seq(S)
    OBVIOUS
  <2> QED
    BY <2>2, <2>3, Zenon
<1>12. \A u \in Die : \A b \in BOOLEAN : decl_having_type(g)[u][b] \in Seq(Asked(rank, N))
  <2>1. N \in Int /\ \A n \in 0..N : n <= N
    OBVIOUS
  <2> QED
    BY <1>3, <1>7, <2>1, Zenon
<1>13. defn_of_die(g, d) \in Seq(Asked(rank, N))
  <2>1. CASE g.tag[d] = "enumeration"
    BY <1>4, <1>6, <1>11, <2>1, Zenon DEF defn_of_die
  <2>2. CASE g.tag[d] = "aggregate"
    <3>1. g.members[d] \in Seq(Component)
      BY SpellingOf
    <3>2. /\ DOMAIN g.members[d] = 1..Len(g.members[d]) /\ Len(g.members[d]) \in Nat
          /\ \A i \in DOMAIN g.members[d] : g.members[d][i].type \in Die
      BY <3>1, ComponentTypes
    <3>3. ASSUME NEW i \in DOMAIN g.members[d]
          PROVE  member_definition(g, g.members[d][i]) \in Seq(Asked(rank, N))
      <4>1. PICK e \in Die : e = g.members[d][i].type
        BY <3>2
      <4>2. decl_having_type(g)[e][FALSE] \in Seq(Asked(rank, N))
        BY <1>12, Zenon
      <4> QED
        BY <1>4, <1>5, <4>1, <4>2, Zenon DEF member_definition
    <3>4. [i \in DOMAIN g.members[d] |-> member_definition(g, g.members[d][i])]
            \in Seq(Seq(Asked(rank, N)))
      BY <3>2, <3>3
    <3>5. FlattenSeq([i \in DOMAIN g.members[d] |-> member_definition(g, g.members[d][i])])
            \in Seq(Asked(rank, N))
      BY <3>4, FlattenInSeq, Zenon
    <3> QED
      BY <1>4, <1>5, <1>6, <2>2, <3>5, Zenon DEF defn_of_die
  <2>3. CASE g.tag[d] = "subprogram"
    <3>1. decl_having_type(g)[d][TRUE] \in Seq(Asked(rank, N))
      BY <1>12, Zenon
    <3>2. default_expression_of_type(g, g.type[d]) \in Seq(Asked(rank, N))
      <4>1. g.type[d] \in Die
        BY SpellingOf
      <4>2. get_concrete_type(g, g.type[d]) \in Die
        BY <4>1, ConcreteTypeIsType
      <4> QED
        BY <1>4, <1>5, <1>6, <1>11, <4>1, <4>2, Zenon DEF default_expression_of_type
    <3> QED
      BY <1>4, <1>6, <2>3, <3>1, <3>2, Zenon DEF defn_of_die
  <2>4. CASE g.tag[d] \notin {"enumeration", "aggregate", "subprogram"}
    BY <1>5, <2>4, Zenon DEF defn_of_die
  <2> QED
    BY <2>1, <2>2, <2>3, <2>4
<1> QED
  BY <1>2, <1>9, <1>10, <1>13, Zenon DEF Generate

(* A run ends at the first abort: what comes before is without one.         *)
LEMMA RequestsBeforeAbort ==
  ASSUME NEW g, NEW p, NEW U, Generate(g, p) \in Seq(U)
  PROVE  Requests(g, p) \in Seq(U \ {Abort})
<1>1. PICK all \in Seq(U) : all = Generate(g, p)
  OBVIOUS
<1>2. DOMAIN all = 1..Len(all) /\ Len(all) \in Nat /\ \A i \in 1..Len(all) : all[i] \in U
  OBVIOUS
<1>3. CASE ~Aborts(g, p)
  <2>1. \A i \in 1..Len(all) : all[i] # Abort
    BY <1>1, <1>2, <1>3, Zenon DEF Aborts, Contains
  <2>2. all \in Seq(U \ {Abort})
    BY <1>2, <2>1
  <2> QED
    BY <1>1, <1>3, <2>2, Zenon DEF Requests
<1>4. CASE Aborts(g, p)
  <2> DEFINE S == {i \in 1..Len(all) : all[i] = Abort}
             First(i) == all[i] = Abort /\ \A j \in 1..(i - 1) : all[j] # Abort
  <2>1. S # {} /\ S \in SUBSET Nat
    BY <1>1, <1>2, <1>4 DEF Aborts, Contains
  <2>2. PICK m \in S : \A i \in S : m <= i
    BY <2>1, LeastNat
  <2>3. First(m)
    <3>1. \A j \in 1..(m - 1) : j \in 1..Len(all) /\ ~(m <= j)
      BY <1>2
    <3> QED
      BY <2>2, <3>1
  <2>4. \E i \in DOMAIN all : First(i)
    BY <1>2, <2>3
  <2>5. PICK k \in DOMAIN all : First(k) /\ k = CHOOSE i \in DOMAIN all : First(i)
    BY <2>4, Zenon
  <2>6. Requests(g, p) = SubSeq(all, 1, k - 1)
    BY <1>1, <1>4, <2>5, Zenon DEF Requests
  <2>7. SubSeq(all, 1, k - 1) \in Seq(U \ {Abort})
    <3>1. \A j \in 1..(k - 1) : all[j] \in U \ {Abort}
      BY <1>2, <2>5
    <3> QED
      BY <1>2, <3>1
  <2> QED
    BY <2>6, <2>7, Zenon
<1> QED
  BY <1>3, <1>4

(* A run of the generator asks for names of DIEs, which is what             *)
(* transitively_close takes, and never for a type that must be complete:    *)
(* for every graph in which types recur through names of aggregates only.   *)
Asking == {r \in Closure!Request : r.kind # "TYPE_MUST_BE_COMPLETE"}
THEOREM GeneratorAsks ==
  ASSUME NEW g, DieGraph(g)
  PROVE  \A p \in Pair : Requests(g, p) \in Seq(Asking)
<1>1. PICK N \in Nat : \E rank \in [Die -> 0..N] :
        \A d \in Die : \A e \in Spelling(g, d) : rank[e] < rank[d]
  BY SpellingRanks, Zenon
<1>2. PICK rank \in [Die -> 0..N] : \A d \in Die : \A e \in Spelling(g, d) : rank[e] < rank[d]
  BY <1>1, Zenon
<1> SUFFICES ASSUME NEW p \in Pair PROVE Requests(g, p) \in Seq(Asking)
  OBVIOUS
<1>3. Generate(g, p) \in Seq(Asked(rank, N))
  BY <1>2, GenerateAsks
<1>4. Asked(rank, N) \ {Abort} \subseteq Asking
  BY DEF Asking, Asked, Named, Normal, Defining, Closure!Request, Closure!ref_kind
<1>5. Requests(g, p) \in Seq(Asked(rank, N) \ {Abort})
  BY <1>3, RequestsBeforeAbort
<1>6. Seq(Asked(rank, N) \ {Abort}) \subseteq Seq(Asking)
  BY <1>4, SeqOfMore
<1> QED
  BY <1>5, <1>6, Zenon

LEMMA ClosureRequests ==
  ASSUME NEW g \in DieGraphs, NEW p \in Pair
  PROVE  Requests(g, p) \in Seq(Closure!Request)
<1>1. Requests(g, p) \in Seq(Asking)
  BY DieGraphsAssumption, GeneratorAsks
<1>2. Asking \subseteq Closure!Request
  BY DEF Asking
<1> QED
  BY <1>1, <1>2, SeqOfMore, Zenon

(* The declaration of a DIE asks by name for DIEs whose spelling is less    *)
(* deep, and type-equal DIEs are as deep.                                   *)
LEMMA DeclarationsAsk ==
  ASSUME NEW g \in DieGraphs
  PROVE  \E rank \in [Die -> Nat] :
           /\ \A d \in Die : \A r \in Range(Requests(g, Decl(d))) :
                r.kind = "NORMAL" => r.die \in Die /\ rank[r.die] < rank[d]
           /\ \A d, e \in Die : TypeRank[d] = TypeRank[e] => rank[d] = rank[e]
<1>0. DieGraph(g)
  BY DieGraphsAssumption
<1>1. PICK N \in Nat : \E rank \in [Die -> 0..N] :
        /\ \A d \in Die : \A e \in Spelling(g, d) : rank[e] < rank[d]
        /\ g \in DieGraphs => \A d, e \in Die : TypeRank[d] = TypeRank[e] => rank[d] = rank[e]
  BY <1>0, SpellingRanks, Zenon
<1>2. PICK rank \in [Die -> 0..N] :
        /\ \A d \in Die : \A e \in Spelling(g, d) : rank[e] < rank[d]
        /\ \A d, e \in Die : TypeRank[d] = TypeRank[e] => rank[d] = rank[e]
  BY <1>1, Zenon
<1>3. ASSUME NEW d \in Die, NEW r \in Range(Requests(g, Decl(d))), r.kind = "NORMAL"
      PROVE  r.die \in Die /\ rank[r.die] < rank[d]
  <2>1. Decl(d) \in Pair /\ Decl(d).kind = EMIT_DECL /\ Decl(d).die = d
    BY DEF Decl, Pair, emit_kind
  <2>2. Generate(g, Decl(d)) \in Seq(Asked(rank, rank[d] - 1))
    <3>1. Decl(d).kind = EMIT_DECL => Generate(g, Decl(d)) \in Seq(Asked(rank, rank[Decl(d).die] - 1))
      BY <1>0, <1>2, <2>1, GenerateAsks
    <3> QED
      BY <2>1, <3>1, Zenon
  <2>3. Requests(g, Decl(d)) \in Seq(Asked(rank, rank[d] - 1) \ {Abort})
    BY <2>2, RequestsBeforeAbort
  <2>4. r \in Asked(rank, rank[d] - 1) \ {Abort}
    BY <2>3 DEF Range
  <2>5. \E x \in Die : rank[x] <= rank[d] - 1 /\ r = Normal(x)
    BY <1>3, <2>4 DEF Asked, Named, Defining
  <2>6. PICK x \in Die : rank[x] <= rank[d] - 1 /\ r.die = x
    BY <2>5 DEF Normal
  <2>7. rank[x] \in 0..N /\ rank[d] \in 0..N
    OBVIOUS
  <2> QED
    BY <2>6, <2>7
<1>4. rank \in [Die -> Nat]
  OBVIOUS
<1> QED
  BY <1>2, <1>3, <1>4, Zenon
-----------------------------------------------------------------------------
(* The jobs of clients are jobs the theorems on the first call are about.   *)
LEMMA CallAssumptions ==
  Call!TypeRankAssumption /\ Call!DieAssumption /\ Call!JobsAssumption
<1>1. Call!TypeRankAssumption /\ Call!DieAssumption
  BY TypeRankAssumption, DieAssumption, DiesAssumption DEF Call!TypeRankAssumption, Call!DieAssumption
<1>2. Call!Request = Closure!Request
  BY DEF Call!Request, Closure!Request, Call!ref_kind, Closure!ref_kind
<1>3. ASSUME NEW g \in DieGraphs, NEW out \in Outputs
      PROVE  Call!ClosureJob(JobOf(g, out))
  BY <1>2, <1>3, SamePairs, OutputsAssumption, ClosureRequests DEF Call!ClosureJob, JobOf
<1> QED
  BY <1>1, <1>3 DEF Call!JobsAssumption, ClientJobs

(* The steps do not depend on which jobs there are.                         *)
LEMMA SameStep == Closure!Next => Call!Next
BY DEF Closure!Next, Call!Next, Closure!AddOutput, Call!AddOutput, Closure!BeginFragment,
       Call!BeginFragment, Closure!NameOnly, Call!NameOnly, Closure!NameNormal,
       Call!NameNormal, Closure!NameComplete, Call!NameComplete,
       Closure!NameCompleteIndirect, Call!NameCompleteIndirect,
       Closure!NameCompleteOfNoType, Call!NameCompleteOfNoType, Closure!GeneratorAborts,
       Call!GeneratorAborts, Closure!EndFragment, Call!EndFragment, Closure!Return,
       Call!Return, Closure!Asks, Call!Asks, Closure!Aborting, Call!Aborting,
       Closure!Unchanged_maybe_get_name, Call!Unchanged_maybe_get_name,
       Closure!maybe_add_to_worklist, Call!maybe_add_to_worklist, Closure!request,
       Call!request, Closure!requests, Call!requests, Closure!current, Call!current,
       Closure!IsFirst, Call!IsFirst, Closure!compare_with_type_equality,
       Call!compare_with_type_equality, Closure!KeyOf, Call!KeyOf, Closure!Keys,
       Call!Keys, Closure!Decl, Call!Decl, Closure!Def, Call!Def, Closure!EMIT_DECL,
       Call!EMIT_DECL, Closure!EMIT_DEF, Call!EMIT_DEF, Closure!Emissible, Call!Emissible

LEMMA SameDependsOn ==
  \A r \in Closure!Request : Call!DependsOn(r) = Closure!DependsOn(r)
BY DEF Call!DependsOn, Closure!DependsOn, Call!Indirect, Closure!Indirect, Call!Decl,
       Closure!Decl, Call!Def, Closure!Def, Call!EMIT_DECL, Closure!EMIT_DECL,
       Call!EMIT_DEF, Closure!EMIT_DEF, Closure!Request, Closure!ref_kind

LEMMA DependsOnPairs ==
  \A r \in Closure!Request : Closure!DependsOn(r) \subseteq Pair
BY DieAssumption
   DEF Closure!DependsOn, Closure!Indirect, Closure!Decl, Closure!Def, Closure!EMIT_DECL,
       Closure!EMIT_DEF, Closure!Request, Closure!ref_kind, Pair, emit_kind, EMIT_DECL, EMIT_DEF

(* What a step of the first call does to output_expanded and to the job.    *)
LEMMA ExpandedByOne ==
  Closure!Next => \/ UNCHANGED output_expanded
                  \/ \E el : output_expanded' = output_expanded \cup {el}
BY DEF Closure!Next, Closure!AddOutput, Closure!BeginFragment, Closure!NameOnly,
       Closure!NameNormal, Closure!NameComplete, Closure!NameCompleteIndirect,
       Closure!NameCompleteOfNoType, Closure!GeneratorAborts, Closure!EndFragment,
       Closure!Return, Closure!Aborting, Closure!maybe_add_to_worklist

LEMMA JobKept == Closure!Next => UNCHANGED given_job
BY DEF Closure!Next, Closure!AddOutput, Closure!BeginFragment, Closure!NameOnly,
       Closure!NameNormal, Closure!NameComplete, Closure!NameCompleteIndirect,
       Closure!NameCompleteOfNoType, Closure!GeneratorAborts, Closure!EndFragment,
       Closure!Return, Closure!Aborting, Closure!Unchanged_maybe_get_name

(* A call that has returned does nothing more.                              *)
LEMMA ClosedIsOver == phase = "closed" => ~Closure!Next
BY DEF Closure!Next, Closure!AddOutput, Closure!BeginFragment, Closure!NameOnly,
       Closure!NameNormal, Closure!NameComplete, Closure!NameCompleteIndirect,
       Closure!NameCompleteOfNoType, Closure!GeneratorAborts, Closure!EndFragment,
       Closure!Return, Closure!Asks

(* The theorems on write_ordered_output.                                    *)
Passes == INSTANCE OrderedOutputProofs WITH Inputs <- {}

(* They hold of any state their invariant holds in; no input is needed.     *)
LEMMA PassesAssumptions == Passes!TypeRankAssumption /\ Passes!InputsAssumption
BY TypeRankAssumption DEF Passes!TypeRankAssumption, Passes!InputsAssumption

LEMMA SameInput == \A in : Writer!WriterInput(in) <=> Passes!WriterInput(in)
BY Zenon
   DEF Writer!WriterInput, Passes!WriterInput, Writer!IsFiniteSet, Passes!IsFiniteSet,
       Writer!Pair, Passes!Pair, Writer!emit_kind, Passes!emit_kind, Writer!EMIT_DECL,
       Passes!EMIT_DECL, Writer!EMIT_DEF, Passes!EMIT_DEF, Writer!KeyOf, Passes!KeyOf,
       Writer!Keys, Passes!Keys, Writer!OnePerKey, Passes!OnePerKey

LEMMA SameWriterStep == Writer!Next => Passes!Next /\ UNCHANGED given
BY DEF Writer!Next, Passes!Next, Writer!BeginPass, Passes!BeginPass, Writer!Return,
       Passes!Return, Writer!EndPass, Passes!EndPass, Writer!Defer, Passes!Defer,
       Writer!Emit, Passes!Emit, Writer!ReadPastEnd, Passes!ReadPastEnd,
       Writer!IncompleteNamesake, Passes!IncompleteNamesake, Writer!Emitting,
       Passes!Emitting, Writer!Visiting, Passes!Visiting, Writer!IsFirst, Passes!IsFirst,
       Writer!compare_with_type_equality, Passes!compare_with_type_equality,
       Writer!all_sat, Passes!all_sat, Writer!KeyOf, Passes!KeyOf, Writer!Keys,
       Passes!Keys, Writer!WriteOrSuppress, Passes!WriteOrSuppress, Writer!Remember,
       Passes!Remember, Writer!is_a_named_type_die, Passes!is_a_named_type_die,
       Writer!already_emitted_compatible_type, Passes!already_emitted_compatible_type,
       Writer!Erased, Passes!Erased, Writer!order_constraints_reversed,
       Passes!order_constraints_reversed, Writer!ScanReachesEnd, Passes!ScanReachesEnd

-----------------------------------------------------------------------------
(* Before write_ordered_output is called the invariant of the first call    *)
(* holds and the second has done nothing.                                   *)
Closing ==
  status = "not called" =>
    /\ Call!IInv
    /\ IsFiniteSet(output_expanded)
    /\ <<emitted, written, type_definitions_generated_by_name, pass>> = <<{}, {}, {}, {}>>
    /\ removed_one = FALSE

(* After that the first one is over, the invariant of the second holds, and *)
(* what it was given has the request and all its dependencies.              *)
Writing ==
  status # "not called" =>
    /\ phase = "closed"
    /\ Passes!IInv
    /\ Keys(given_job.to_output) \subseteq Keys(given.fragments)
    /\ \A p \in given.fragments : \A t \in DependsOn(p) : <<p, t>> \in given.constraints
    /\ \A c \in given.constraints : c[2] \in DependsOn(c[1])

Composed == /\ dies \in DieGraphs
            /\ \E out \in Outputs : given_job = JobOf(dies, out)
            /\ Closing
            /\ Writing

LEMMA InitComposed == Init => Composed
<1> SUFFICES ASSUME Init PROVE Composed
  OBVIOUS
<1>1. given_job \in ClientJobs
  <2>1. PICK out \in Outputs : given_job = JobOf(dies, out)
    BY Zenon DEF Init
  <2>2. dies \in DieGraphs
    BY Zenon DEF Init
  <2>3. \A g \in DieGraphs, o \in Outputs : JobOf(g, o) \in ClientJobs
    BY DEF ClientJobs
  <2> QED
    BY <2>1, <2>2, <2>3, Zenon
<1>2. Call!Init
  BY <1>1 DEF Init, Call!Init, Decl, Call!Decl, EMIT_DECL, Call!EMIT_DECL
<1>3. Call!IInv
  BY <1>2, Call!InitIInv, CallAssumptions
<1>4. IsFiniteSet(output_expanded)
  BY FS_EmptySet DEF Init
<1> QED
  BY <1>3, <1>4 DEF Init, Composed, Closing, Writing

(* The first call goes on.                                                  *)
LEMMA CloseComposed == Composed /\ transitively_close => Composed'
<1> SUFFICES ASSUME Composed, transitively_close PROVE Composed'
  OBVIOUS
<1>1. status = "not called" /\ status' = status
  BY ClosedIsOver DEF Composed, Writing, transitively_close, writing
<1>2. Call!IInv'
  BY <1>1, SameStep, Call!NextIInv, CallAssumptions DEF Composed, Closing, transitively_close
<1>3. IsFiniteSet(output_expanded')
  BY <1>1, ExpandedByOne, FS_AddElement DEF Composed, Closing, transitively_close
<1>4. UNCHANGED <<dies, given_job>>
  BY JobKept DEF transitively_close
<1> QED
  BY <1>1, <1>2, <1>3, <1>4 DEF Composed, Closing, Writing, transitively_close, writing

(* What the first call leaves when it has returned.                         *)
LEMMA ClosureLeaves ==
  ASSUME Composed, status = "not called", phase = "closed"
  PROVE  /\ Writer!WriterInput([fragments |-> m_output_fragments,
                                constraints |-> m_order_constraints])
         /\ Keys(given_job.to_output) \subseteq Keys(m_output_fragments)
         /\ \A p \in m_output_fragments : \A t \in DependsOn(p) :
              <<p, t>> \in m_order_constraints
         /\ \A c \in m_order_constraints : c[2] \in DependsOn(c[1])
<1>0. Call!IInv
  BY DEF Composed, Closing
<1>1. worklist = <<>> /\ to_add = {} /\ Call!Emissible
  BY <1>0 DEF Call!IInv, Call!PhaseInvariant
<1>2. m_output_fragments = output_expanded
  <2>1. Call!Range(worklist) = {}
    BY <1>1, EmptyRange, Zenon
  <2> QED
    BY <1>0, <2>1 DEF Call!IInv, Call!WorklistExact
<1>3. /\ OnePerKey(m_output_fragments)
      /\ m_output_fragments \subseteq Pair
      /\ IsFiniteSet(m_output_fragments)
  BY <1>0, <1>2, SamePairs
     DEF Call!IInv, Call!WorklistExact, Call!TypeOK, Composed, Closing
<1>4. m_order_constraints \subseteq m_output_fragments \X Pair
  BY <1>0, <1>2, SamePairs DEF Call!IInv, Call!TypeOK
<1>5. \A c \in m_order_constraints : KeyOf(c[2]) \in Keys(m_output_fragments)
  BY <1>1, SamePairs DEF Call!Emissible
<1>6. Keys(given_job.to_output) \subseteq Keys(m_output_fragments)
  <2>1. \A el \in given_job.to_output : KeyOf(el) \in Keys(output_expanded)
    BY <1>0, <1>1, SamePairs DEF Call!IInv, Call!OutputExpanded
  <2> QED
    BY <2>1, <1>2 DEF Keys
<1>7. ASSUME NEW p \in m_output_fragments, NEW t \in DependsOn(p)
      PROVE  <<p, t>> \in m_order_constraints
  <2>1. p \in Pair
    BY <1>3
  <2>2. given_job.requests[p] = Requests(dies, p)
    <3>1. PICK out \in Outputs : given_job = JobOf(dies, out)
      BY Zenon DEF Composed
    <3>2. given_job.requests = [q \in Pair |-> Requests(dies, q)]
      BY <3>1 DEF JobOf
    <3> QED
      BY <2>1, <3>2
  <2>3. Requests(dies, p) \in Seq(Closure!Request)
    BY <2>1, ClosureRequests DEF Composed
  <2>4. PICK r \in Range(Requests(dies, p)) : t \in Closure!DependsOn(r)
    BY DEF DependsOn
  <2>5. PICK i \in 1..Len(Requests(dies, p)) : r = Requests(dies, p)[i]
    BY <2>3, <2>4, ElementsOfSeq
  <2>6. r \in Closure!Request
    BY <2>3, <2>5, ElementsOfSeq
  <2>7. t \in Call!DependsOn(r)
    BY <2>4, <2>6, SameDependsOn
  <2>8. r \in Call!Made(p)
    BY <2>2, <2>5 DEF Call!Made
  <2>9. t \in Pair
    BY <2>6, <2>4, DependsOnPairs
  <2> QED
    BY <1>0, <1>2, <2>1, <2>7, <2>8, <2>9, SamePairs DEF Call!IInv, Call!ConstraintsExact
<1>8. ASSUME NEW c \in m_order_constraints
      PROVE  c[2] \in DependsOn(c[1])
  <2>1. PICK p \in m_output_fragments : p = c[1] /\ p \in Pair
    BY <1>3, <1>4
  <2>2. PICK r \in Call!Made(p) : c[2] \in Call!DependsOn(r)
    BY <1>0, <2>1 DEF Call!IInv, Call!ConstraintsExact
  <2>3. given_job.requests[p] = Requests(dies, p)
    <3>1. PICK out \in Outputs : given_job = JobOf(dies, out)
      BY Zenon DEF Composed
    <3>2. given_job.requests = [q \in Pair |-> Requests(dies, q)]
      BY <3>1 DEF JobOf
    <3> QED
      BY <2>1, <3>2
  <2>4. Requests(dies, p) \in Seq(Closure!Request)
    BY <2>1, ClosureRequests DEF Composed
  <2>5. PICK i \in 1..Len(Requests(dies, p)) : r = Requests(dies, p)[i]
    BY <2>1, <2>2, <2>3 DEF Call!Made
  <2>6. r \in Closure!Request /\ r \in Range(Requests(dies, p))
    BY <2>4, <2>5, ElementsOfSeq, Zenon
  <2>7. c[2] \in Closure!DependsOn(r)
    BY <2>2, <2>6, SameDependsOn
  <2> QED
    BY <2>1, <2>6, <2>7, Zenon DEF DependsOn
<1>9. Writer!WriterInput([fragments |-> m_output_fragments,
                          constraints |-> m_order_constraints])
  <2> DEFINE in == [fragments   |-> m_output_fragments,
                    constraints |-> m_order_constraints]
  <2>1. in.fragments = m_output_fragments /\ in.constraints = m_order_constraints
    OBVIOUS
  <2> HIDE DEF in
  <2>2. Writer!WriterInput(in)
    BY <1>3, <1>4, <1>5, <2>1, SameWriterPairs, Zenon DEF Writer!WriterInput
  <2> QED
    BY <2>2 DEF in
<1> QED
  BY <1>6, <1>7, <1>8, <1>9, Zenon


(* The second call begins with it.                                          *)
LEMMA CallWriterComposed == Composed /\ CallWriter => Composed'
<1> SUFFICES ASSUME Composed, CallWriter PROVE Composed'
  OBVIOUS
<1>1. /\ Writer!WriterInput(given)'
      /\ Keys(given_job.to_output)' \subseteq Keys(given.fragments)'
      /\ (\A p \in given.fragments : \A t \in DependsOn(p) : <<p, t>> \in given.constraints)'
      /\ (\A c \in given.constraints : c[2] \in DependsOn(c[1]))'
  <2>1. UNCHANGED <<dies, given_job>>
    BY DEF CallWriter, closing
  <2>2. /\ given' = [fragments |-> m_output_fragments, constraints |-> m_order_constraints]
        /\ given'.fragments = m_output_fragments
        /\ given'.constraints = m_order_constraints
    BY DEF CallWriter
  <2>3. status = "not called" /\ phase = "closed"
    BY DEF CallWriter
  <2> QED
    BY <2>1, <2>2, <2>3, ClosureLeaves, Zenon DEF DependsOn, Writer!WriterInput
<1>2. /\ given'.fragments = m_output_fragments'
      /\ given'.constraints = m_order_constraints'
      /\ <<emitted, written, type_definitions_generated_by_name, pass>>'
           = <<{}, {}, {}, {}>>
      /\ removed_one' = FALSE
      /\ status' = "between passes"
      /\ phase' = "closed"
  BY DEF CallWriter, Composed, Closing, closing
<1>3. Passes!IInv'
  <2>1. Passes!WriterInput(given)'
    BY <1>1, SameInput, Zenon
  <2>2. Passes!Keys({}) = {}
    BY DEF Passes!Keys
  <2>3. Passes!TypeOK'
    BY <1>2, <2>1 DEF Passes!TypeOK, Passes!Ended
  <2>4. Passes!ConstraintsExact' /\ Passes!DependenciesFirst'
    BY <1>2, <2>2 DEF Passes!ConstraintsExact, Passes!DependenciesFirst
  <2>5. Passes!FragmentsConserved'
    BY <1>2 DEF Passes!FragmentsConserved
  <2>6. /\ Passes!PassInvariant' /\ Passes!StuckInvariant' /\ Passes!DoneInvariant'
        /\ Passes!DefinitionsInvariant' /\ Passes!OneDefinitionPerName'
        /\ Passes!SuppressedHasNamesake'
    BY <1>2 DEF Passes!PassInvariant, Passes!StuckInvariant, Passes!DoneInvariant,
       Passes!DefinitionsInvariant, Passes!OneDefinitionPerName,
       Passes!SuppressedHasNamesake
  <2> QED
    BY <2>3, <2>4, <2>5, <2>6, Zenon DEF Passes!IInv
<1>4. UNCHANGED <<dies, given_job>>
  BY DEF CallWriter, closing
<1> QED
  BY <1>1, <1>2, <1>3, <1>4 DEF Composed, Closing, Writing

(* And goes on.                                                             *)
LEMMA WriteComposed == Composed /\ write_ordered_output => Composed'
<1> SUFFICES ASSUME Composed, write_ordered_output PROVE Composed'
  OBVIOUS
<1>1. status # "not called" /\ status' # "not called"
  BY DEF write_ordered_output, Writer!Next, Writer!BeginPass, Writer!Return,
     Writer!EndPass, Writer!Defer, Writer!Emit, Writer!ReadPastEnd,
     Writer!IncompleteNamesake, Writer!Emitting, Writer!Visiting
<1>2. Passes!IInv'
  BY <1>1, SameWriterStep, Passes!NextIInv, PassesAssumptions
     DEF Composed, Writing, write_ordered_output
<1>3. UNCHANGED <<dies, given_job, phase, given>>
  BY SameWriterStep DEF write_ordered_output, closing
<1> QED
  BY <1>1, <1>2, <1>3 DEF Composed, Closing, Writing, DependsOn
-----------------------------------------------------------------------------
(* The inductive invariant of the two calls.                                *)
THEOREM Invariance == Spec => []Composed
<1>1. Composed /\ [Next]_vars => Composed'
  <2> SUFFICES ASSUME Composed, [Next]_vars PROVE Composed'
    OBVIOUS
  <2>1. CASE UNCHANGED vars
    <3>1. Closing'
      BY <2>1, Call!NextIInv, CallAssumptions
         DEF Composed, Closing, vars, closing, writing, Call!vars
    <3>2. Writing'
      BY <2>1, Passes!NextIInv, PassesAssumptions
         DEF Composed, Writing, DependsOn, vars, closing, writing, Passes!vars
    <3> QED
      BY <2>1, <3>1, <3>2 DEF Composed, vars, closing
  <2> QED
    BY <2>1, CloseComposed, CallWriterComposed, WriteComposed DEF Next
<1> QED
  BY <1>1, InitComposed, PTL DEF Spec

(* What transitively_close leaves is what write_ordered_output assumes of   *)
(* the object, for every DIE graph and every request: each key once, and    *)
(* constraints between fragments there are.                                 *)
THEOREM WriterInputLegal == Spec => []WriterGetsLegalInput
<1>1. Composed => WriterGetsLegalInput
  <2> SUFFICES ASSUME Passes!WriterInput(given) PROVE Writer!WriterInput(given)
    BY DEF Composed, Writing, Passes!IInv, Passes!TypeOK, WriterGetsLegalInput
  <2> QED
    BY SameInput
<1> QED
  BY <1>1, Invariance, PTL

(* A pair reaches the output only after all its generation depended on, and *)
(* all that was asked for has reached it at the end.                        *)
THEOREM OutputOrdered == Spec => []OutputInDependencyOrder
<1>1. Composed => OutputInDependencyOrder
  <2> SUFFICES ASSUME Composed PROVE OutputInDependencyOrder
    OBVIOUS
  <2>1. CASE status = "not called"
    BY <2>1 DEF Composed, Closing, OutputInDependencyOrder
  <2>2. CASE status # "not called"
    <3>0. /\ Passes!IInv
          /\ Keys(given_job.to_output) \subseteq Keys(given.fragments)
          /\ \A p \in given.fragments : \A t \in DependsOn(p) : <<p, t>> \in given.constraints
      BY <2>2 DEF Composed, Writing
    <3>1. ASSUME NEW p \in emitted, NEW t \in DependsOn(p)
          PROVE  KeyOf(t) \in Keys(emitted)
      <4>1. Passes!TypeOK /\ Passes!DependenciesFirst
        BY <3>0 DEF Passes!IInv
      <4>2. <<p, t>> \in given.constraints
        BY <3>0, <3>1, <4>1 DEF Passes!TypeOK
      <4> QED
        BY <3>1, <4>1, <4>2
           DEF Passes!DependenciesFirst, Passes!KeyOf, KeyOf, Passes!Keys, Keys
    <3>2. ASSUME status = "done"
          PROVE  Keys(given_job.to_output) \subseteq Keys(emitted)
      <4>1. Passes!DoneInvariant /\ Passes!FragmentsConserved
        BY <3>0 DEF Passes!IInv
      <4> QED
        BY <3>0, <3>2, <4>1 DEF Passes!DoneInvariant, Passes!FragmentsConserved
    <3> QED
      BY <3>1, <3>2, Zenon DEF OutputInDependencyOrder
  <2> QED
    BY <2>1, <2>2
<1> QED
  BY <1>1, Invariance, PTL

-----------------------------------------------------------------------------
(* Where the C++ names follow from what the containers compare: equal types *)
(* have one C++ name, and so have two named types with the same name_here().*)
(* (A typedef and a struct tag of one name break the second half: the run   *)
(* that expects a violation shows what then comes out.)                     *)
NamesTellTypes ==
  /\ \A d, e \in Die : TypeRank[d] = TypeRank[e] => CxxName[d] = CxxName[e]
  /\ \A d, e \in TypeDie : NameHere[d] = NameHere[e] /\ NameHere[d] # NoName
                             => CxxName[d] = CxxName[e]

(* A reference in the text of a pair makes the pair depend on the           *)
(* declaration of the DIE.                                                  *)
LEMMA ReferenceIsDependency ==
  ASSUME dies \in DieGraphs, NEW p \in Pair, NEW d \in References(p)
  PROVE  d \in Die /\ Decl(d) \in DependsOn(p)
<1>1. Requests(dies, p) \in Seq(Closure!Request)
  BY ClosureRequests
<1>2. PICK r \in Range(Requests(dies, p)) : r.kind = "NORMAL" /\ HasName(dies, r.die) /\ d = r.die
  BY DEF References
<1>3. r \in Closure!Request
  BY <1>1, <1>2, ElementsOfSeq
<1>4. d \in Die
  BY <1>2, <1>3 DEF Closure!Request
<1>5. CxxName[d] # NoName
  BY <1>2, <1>4, DieGraphsAssumption
<1>6. Closure!DependsOn(r) = {Decl(d)}
  BY <1>2, <1>5 DEF Closure!DependsOn, Closure!Decl, Decl, Closure!EMIT_DECL, EMIT_DECL
<1> QED
  BY <1>2, <1>4, <1>6 DEF DependsOn

(* Every name that the written text uses is introduced by a pair that was   *)
(* written: its declaration is recorded, closed over, emitted before the    *)
(* use, and when it is left out, left out for one that has the name.        *)
THEOREM NamesDeclared ==
  ASSUME NamesTellTypes PROVE Spec => []NamesDeclaredBeforeUse
<1>1. Composed /\ OutputInDependencyOrder => NamesDeclaredBeforeUse
  <2> SUFFICES ASSUME Composed, OutputInDependencyOrder,
                      NEW p \in written, NEW d \in References(p)
               PROVE  \E q \in written : CxxName[q.die] = CxxName[d]
    BY DEF NamesDeclaredBeforeUse
  <2>1. CASE status = "not called"
    BY <2>1 DEF Composed, Closing
  <2>2. CASE status # "not called"
    <3>1. Passes!TypeOK /\ Passes!SuppressedHasNamesake
      BY <2>2 DEF Composed, Writing, Passes!IInv
    <3>2. emitted \subseteq Pair /\ written \subseteq emitted
      BY <3>1 DEF Passes!TypeOK, Passes!WriterInput, Passes!Pair, Pair, Passes!emit_kind,
         emit_kind, Passes!EMIT_DECL, EMIT_DECL, Passes!EMIT_DEF, EMIT_DEF
    <3>3. dies \in DieGraphs
      BY Zenon DEF Composed
    <3>4. d \in Die /\ Decl(d) \in DependsOn(p)
      BY <3>2, <3>3, ReferenceIsDependency
    <3>5. PICK e \in emitted : KeyOf(e) = KeyOf(Decl(d))
      BY <3>2, <3>4 DEF OutputInDependencyOrder, Keys
    <3>6. e.die \in Die /\ CxxName[e.die] = CxxName[d]
      BY <3>2, <3>4, <3>5, NamesTellTypes DEF NamesTellTypes, KeyOf, Decl, Pair
    <3>7. CASE e \in written
      BY <3>6, <3>7
    <3>8. CASE e \notin written
      <4>1. PICK q \in written : /\ Passes!is_a_named_type_die(e)
                                 /\ Passes!is_a_named_type_die(q)
                                 /\ NameHere[q.die] = NameHere[e.die]
        BY <3>1, <3>8 DEF Passes!SuppressedHasNamesake
      <4> QED
        BY <4>1, <3>6, NamesTellTypes DEF NamesTellTypes, Passes!is_a_named_type_die
    <3> QED
      BY <3>7, <3>8
  <2> QED
    BY <2>1, <2>2
<1> QED
  BY <1>1, Invariance, OutputOrdered, PTL
-----------------------------------------------------------------------------
(* The passes do not run out of progress on what the generator depends on:  *)
(* of the fragments that remain some declaration is spelled least deep, and *)
(* it depends on declarations spelled less deep still.                      *)
THEOREM NeverStuck == Spec => []CNeverStuck
<1>1. Composed => CNeverStuck
  <2> SUFFICES ASSUME Composed, status = "stuck" PROVE FALSE
    BY DEF CNeverStuck
  <2>1. /\ Passes!IInv
        /\ \A c \in given.constraints : c[2] \in DependsOn(c[1])
    BY DEF Composed, Writing
  <2>2. /\ m_output_fragments # {}
        /\ \A p \in m_output_fragments :
             \E c \in given.constraints :
               c[1] = p /\ KeyOf(c[2]) \in Keys(m_output_fragments)
    BY <2>1, Passes!StuckHasCycle, PassesAssumptions
       DEF Passes!StuckOnlyOnCycle, Passes!KeyOf, KeyOf, Passes!Keys, Keys
  <2>3. m_output_fragments \subseteq Pair
    BY <2>1 DEF Passes!IInv, Passes!TypeOK, Passes!WriterInput, Passes!Pair, Pair,
       Passes!emit_kind, emit_kind, Passes!EMIT_DECL, EMIT_DECL, Passes!EMIT_DEF, EMIT_DEF
  <2>4. dies \in DieGraphs
    BY Zenon DEF Composed
  <2>5. PICK rank \in [Die -> Nat] :
          /\ \A d \in Die : \A r \in Range(Requests(dies, Decl(d))) :
               r.kind = "NORMAL" => r.die \in Die /\ rank[r.die] < rank[d]
          /\ \A d, e \in Die : TypeRank[d] = TypeRank[e] => rank[d] = rank[e]
    BY <2>4, DeclarationsAsk, Zenon
  <2>6. ASSUME NEW p \in m_output_fragments
        PROVE  \E r \in Range(Requests(dies, p)), y \in Die :
                 /\ r.kind = "NORMAL" /\ r.die \in Die
                 /\ Decl(y) \in m_output_fragments /\ rank[y] = rank[r.die]
    <3>1. PICK c \in given.constraints : c[1] = p /\ KeyOf(c[2]) \in Keys(m_output_fragments)
      BY <2>2, Zenon
    <3>2. PICK r \in Range(Requests(dies, p)) : c[2] \in Closure!DependsOn(r)
      BY <2>1, <3>1, Zenon DEF DependsOn
    <3>3. r \in Asking
      <4>1. Requests(dies, p) \in Seq(Asking)
        BY <2>3, <2>4, DieGraphsAssumption, GeneratorAsks
      <4> QED
        BY <4>1 DEF Range
    <3>4. r.kind = "NORMAL" /\ r.die \in Die /\ c[2] = Decl(r.die)
      BY <3>2, <3>3
         DEF Asking, Closure!Request, Closure!ref_kind, Closure!DependsOn, Closure!Decl, Decl,
             Closure!EMIT_DECL, EMIT_DECL
    <3>5. PICK q \in m_output_fragments : KeyOf(q) = KeyOf(Decl(r.die))
      BY <3>1, <3>4 DEF Keys
    <3>6. q \in Pair
      BY <2>3
    <3>7. q.die \in Die /\ q = Decl(q.die) /\ TypeRank[q.die] = TypeRank[r.die]
      BY <3>5, <3>6 DEF KeyOf, Decl, Pair
    <3> QED
      BY <2>5, <3>4, <3>7, Zenon
  <2> DEFINE Left == {x \in Die : Decl(x) \in m_output_fragments}
             Depths == {rank[x] : x \in Left}
  <2>7. Depths # {}
    <3>1. PICK p \in m_output_fragments : TRUE
      BY <2>2
    <3>2. PICK y \in Die : Decl(y) \in m_output_fragments
      BY <2>6, Zenon
    <3> QED
      BY <3>2
  <2>8. PICK x \in Left : \A y \in Left : rank[x] <= rank[y]
    <3>1. Depths \in SUBSET Nat
      OBVIOUS
    <3>2. PICK m \in Depths : \A k \in Depths : m <= k
      BY <2>7, <3>1, LeastNat
    <3> QED
      BY <3>2
  <2>9. PICK r \in Range(Requests(dies, Decl(x))), y \in Die :
          /\ r.kind = "NORMAL" /\ r.die \in Die
          /\ Decl(y) \in m_output_fragments /\ rank[y] = rank[r.die]
    BY <2>6, <2>8, Zenon
  <2>10. rank[r.die] < rank[x]
    BY <2>5, <2>8, <2>9, Zenon
  <2> QED
    BY <2>8, <2>9, <2>10
<1> QED
  BY <1>1, Invariance, PTL
=============================================================================
