------------------------------ MODULE EmitKeys ------------------------------
(***************************************************************************)
(* What dependency_ordering_cxx_target works on: pairs of an emit_kind and *)
(* a DIE, kept in ordered containers that compare the kind first and then  *)
(* the DIEs by less_by_type_equality.  Two DIEs that describe equal types  *)
(* are one key for the containers, though they are two values for `=='.    *)
(* TypeRank[d] is the place of d's equality class in the container order,  *)
(* so d and e are type-equal exactly when their ranks are equal.           *)
(***************************************************************************)
EXTENDS Naturals

CONSTANTS Die,       \* the DIE positions, the null iterator (`void') included
          TypeRank   \* the order less_by_type_equality puts them in

ASSUME TypeRankAssumption == TypeRank \in [Die -> Nat]

EMIT_DECL == 0
EMIT_DEF  == 1
emit_kind == {EMIT_DECL, EMIT_DEF}

Pair == [kind : emit_kind, die : Die]
Decl(d) == [kind |-> EMIT_DECL, die |-> d]
Def(d)  == [kind |-> EMIT_DEF, die |-> d]

compare_with_type_equality(p, q) ==
  \/ p.kind < q.kind
  \/ p.kind = q.kind /\ TypeRank[p.die] < TypeRank[q.die]

(* A container holds one element of each key: the kind and the type class. *)
KeyOf(p) == <<p.kind, TypeRank[p.die]>>
Keys(S) == {KeyOf(p) : p \in S}
OnePerKey(S) == \A p, q \in S : KeyOf(p) = KeyOf(q) => p = q

(* The element a pass over the container S meets first. *)
IsFirst(p, S) == \A q \in S \ {p} : compare_with_type_equality(p, q)
=============================================================================
