--------------------- MODULE MCDependencyOrderingTarget ---------------------
(***************************************************************************)
(* DIE graphs for TLC, all over these DIEs:                                *)
(*   Base  a base type          Ptr  a pointer         Arr  an array        *)
(*   S, S2  one struct, in two compilation units      U    a nameless one  *)
(*   R    another struct      Enm  a nameless enumeration                  *)
(*   T, T2  one typedef, in the two units             V    a variable      *)
(*   F    a function                                                       *)
(***************************************************************************)
EXTENDS DependencyOrderingTarget, TLC

CONSTANTS Base, Ptr, Arr, S, S2, U, R, Enm, T, T2, V, F,
          struct_S, struct_R, n_T, n_V, n_F, n_S, n_R

MCDie == {Void, Base, Ptr, Arr, S, S2, U, R, Enm, T, T2, V, F}
(* The typedef's key sorts before those of the types it may stand for, so   *)
(* that only constraints keep its fragment behind theirs.                   *)
MCTypeRank == Void :> 0 @@ Base :> 1 @@ Ptr :> 2 @@ Arr :> 3 @@ T :> 4 @@ T2 :> 4 @@ S :> 5
              @@ S2 :> 5 @@ U :> 6 @@ R :> 7 @@ Enm :> 8 @@ V :> 9 @@ F :> 10
MCTypeDie == MCDie \ {Void, V}
Tags == Void :> "void" @@ Base :> "base" @@ Ptr :> "pointer" @@ Arr :> "array"
        @@ S :> "aggregate" @@ S2 :> "aggregate" @@ U :> "aggregate"
        @@ R :> "aggregate" @@ Enm :> "enumeration" @@ T :> "typedef" @@ T2 :> "typedef"
        @@ V :> "variable" @@ F :> "subprogram"

(* C++ names carry the tag, name_here() does not.                          *)
MCCxxName == [d \in MCDie |-> CASE d \in {S, S2} -> struct_S
                                [] d = R -> struct_R
                                [] d \in {T, T2} -> n_T
                                [] d = V -> n_V
                                [] d = F -> n_F
                                [] OTHER -> NoName]
BareName(of_T) == [d \in MCDie |-> CASE d \in {S, S2} -> n_S
                                     [] d = R -> n_R
                                     [] d \in {T, T2} -> of_T
                                     [] d = V -> n_V
                                     [] d = F -> n_F
                                     [] OTHER -> NoName]
DistinctNames == BareName(n_T)
TagsAsTypedefs == BareName(n_S)     \* typedef struct S S;
IncompleteR == [MCTypeRank EXCEPT ![R] = NoCode]
MCConcreteType == [d \in MCTypeDie |-> d]  \* nothing asked for must be complete

None == [d \in MCDie |-> <<>>]
Field(d) == [type |-> d, named |-> TRUE]
Nameless(d) == [type |-> d, named |-> FALSE]

Graph(ty, members, params, language) ==
  [tag |-> Tags, named |-> [d \in MCDie |-> d \in {S, S2, R, T, T2, V, F, Base}],
   type |-> ty @@ [d \in MCDie |-> Base], members |-> members @@ None,
   params |-> params @@ None,
   declaration |-> [d \in MCDie |-> d = R], language |-> language]

(* The members of S, in the other unit.                                    *)
InUnit2(h) == [i \in DOMAIN h |-> IF h[i] = Field(T) THEN Field(T2) ELSE h[i]]

Graphs(typedefs, pointees, held, params, languages) ==
  {g \in {Graph(T :> t @@ T2 :> t @@ Ptr :> p @@ V :> v @@ F :> r @@ Arr :> S,
                S :> h @@ S2 :> InUnit2(h) @@ U :> <<Field(Ptr)>>, F :> fp, l) :
            t \in typedefs, p \in pointees, v \in {T, U, Arr}, r \in {T, Void, S2},
            h \in held, fp \in params, l \in languages} :
     DieGraph(g)}

Held == {<<>>, <<Field(T), Field(Ptr)>>}
Params == {<<>>, <<Field(S2), Field(Ptr)>>, <<Nameless(T)>>}
MCOutputs == {{Def(F)}, {Def(S), Decl(V)}, {Def(S2), Decl(F), Decl(T)}}

AllGraphs == Graphs({S2, U, Ptr, Enm, R}, {S, T, R}, Held, Params, Language)
               \cup {[g EXCEPT !.tag[Ptr] = "reference"] :
                        g \in Graphs({Ptr}, {S}, Held, {<<>>}, {"C", "C++"})}
CGraphs == Graphs({S2, U, Ptr}, {S, T, Void}, Held, {<<>>, <<Field(T)>>}, {"C"})
=============================================================================
