-------------------------- MODULE MCInterfaceWalk --------------------------
(***************************************************************************)
(* DIE trees for TLC:                                                      *)
(*   s, s2  a structure type in two compilation units, equal               *)
(*   p      a pointer          f   a function type                         *)
(*   q      another structure  c   a typedef or a qualified type           *)
(*   en     an enumeration     bt  its base type                           *)
(*   v      a variable         n   a namespace, q and v are in it          *)
(* Structures have members, static ones too, pointers and return types     *)
(* lead back, so the types have cycles of every kind the walk tells apart. *)
(***************************************************************************)
EXTENDS InterfacePrinting, TLC

CONSTANTS s, s2, p, f, q, c, en, bt, v, n

To(t, why) == [to |-> t, reason |-> why]

Members == {<<>>, <<To(p, "component")>>, <<To(q, "static member"), To(en, "component")>>,
            <<To(q, "static member"), To(f, "component"), To(q, "component")>>}
Returns == {<<To(Void, "return")>>, <<To(p, "return"), To(s2, "component")>>,
            <<To(f, "return"), To(q, "component")>>}

(* Equal types are made of equal types.                                     *)
Edges(ms, pointee, rs, mq, aliased) ==
  s :> ms @@ s2 :> ms @@ p :> <<To(pointee, "type")>> @@ f :> rs @@ q :> mq
    @@ c :> <<To(aliased, "type")>> @@ en :> <<To(bt, "type")>> @@ bt :> <<>>

MCRoots ==
  {[grandchildren |-> order, pred |-> want, edges |-> Edges(ms, pt, rs, mq, ct),
    get_type |-> v :> vt,
    equality_class |-> s :> 1 @@ s2 :> 1 @@ p :> 2 @@ f :> 3 @@ q :> 4 @@ c :> 5 @@ en :> 6 @@ bt :> 7,
    named |-> {bt, v} \cup (IF mq = <<>> THEN {q, c} ELSE {})
                      \cup (IF Len(ms) = 1 THEN {s, s2} ELSE {}),
    children |-> [d \in Die |-> CASE d = n -> {q, v} [] d = f -> {q} [] OTHER -> {}],
    other_refs |-> [d \in Die |-> IF d = f THEN {p, n} ELSE {}],
    implicit |-> IF ct = Void THEN {en} ELSE {}] :
     order \in {<<s, v, n, p, f, q>>, <<s2, f, v>>},
     want \in {{v}, {v, s, s2}, {n, f, p}, {}},
     ms \in Members, pt \in {s, s2, f, c, p}, rs \in Returns,
     mq \in {<<>>, <<To(s2, "component"), To(f, "component"), To(s, "static member")>>},
     vt \in {c, p, f, Void}, ct \in {s2, Void}}
=============================================================================
