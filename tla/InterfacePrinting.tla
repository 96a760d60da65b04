-------------------------- MODULE InterfacePrinting --------------------------
(***************************************************************************)
(* print_dies for the DIEs and the set of types that gather_interface_dies *)
(* returns: how the text of a DIE refers to its type.  It has no state of  *)
(* its own: what is printed is a function of `out' and `types'.            *)
(* Of a struct's text the members' lines are its own, and so are the       *)
(* parameters' of a function's; other children are DIEs printed within.    *)
(* A tree also says which types have no type attribute although the walk   *)
(* gives them a type (implicit), and what other attributes of a DIE refer  *)
(* to: containing_type, abstract_origin, object_pointer (other_refs).      *)
(***************************************************************************)
EXTENDS InterfaceWalk

CONSTANTS Alias,     \* typedefs and qualified types
          Raw        \* enumerations and subranges
Chain(t) == root.edges[t][1].to    \* what an alias is an alias of

(* An alias has a type, and aliases of aliases come to an end.  Equal types *)
(* are made of equal types, in the same way, and are named alike.           *)
ASSUME AliasAssumption ==
  /\ Alias \cup Raw \subseteq Type
  /\ \A r \in Roots :
       /\ r.named \subseteq Die
       /\ r.children \in [Die -> SUBSET Die]
       /\ r.other_refs \in [Die -> SUBSET Die]
       /\ r.implicit \subseteq Raw
       /\ \A t \in Alias : Len(r.edges[t]) = 1 /\ r.edges[t][1].reason = "type"
       /\ \A S \in SUBSET Alias : S # {} => \E t \in S : r.edges[t][1].to \notin S
       /\ \A s, t \in Type : r.equality_class[s] = r.equality_class[t] =>
            /\ s \in r.named <=> t \in r.named
            /\ Len(r.edges[s]) = Len(r.edges[t])
            /\ \A k \in 1..Len(r.edges[t]) :
                 LET of_s == r.edges[s][k]
                     of_t == r.edges[t][k]
                 IN  /\ of_s.reason = of_t.reason
                     /\ of_s.to = Void <=> of_t.to = Void
                     /\ of_s.to # Void => r.equality_class[of_s.to] = r.equality_class[of_t.to]

(* What a type is but for typedefs and qualifiers, Void for aliases of it:  *)
(* where every way out of the aliases that come after it leads.             *)
WaysFrom(t) == {S \in SUBSET Alias :
                  t \in S /\ \A u \in S : Chain(u) \in Alias => Chain(u) \in S}
get_concrete_type(t) ==
  IF t \notin Alias THEN t
  ELSE CHOOSE u \in (Type \cup {Void}) \ Alias :
         \A S \in WaysFrom(t) : \E a \in S : Chain(a) = u

name_here(t) == t \in root.named

(* The member of the set that is equal to a type, if there is one.          *)
Dedup(t) == IF t # Void /\ Has(types, t) THEN CHOOSE s \in types : Class(s) = Class(t) ELSE t

(* Mutant: only the type itself is looked up.                               *)
Concrete_once(t) == get_concrete_type(Dedup(t))

(* "Also dedup that. Just in case."                                         *)
Concrete(t) == Dedup(get_concrete_type(Dedup(t)))

(* What comes after the colon: the concrete type's name or else the type's  *)
(* own, or an offset, with a warning when neither of the two was gathered.  *)
Reference(t) ==
  LET abstract == Dedup(t)
      concrete == Concrete(t)
      called == IF concrete = Void THEN abstract ELSE concrete
  IN  CASE name_here(concrete) -> [by |-> "name", to |-> concrete, warning |-> FALSE]
        [] ~name_here(concrete) /\ name_here(abstract) ->
             [by |-> "name", to |-> abstract, warning |-> FALSE]
        [] OTHER -> [by |-> "offset", to |-> called,
                     warning |-> ~Has(types, abstract)
                                   /\ (concrete = Void \/ ~Has(types, concrete))]

(* An attribute is printed as it is: the offset of the very DIE it refers   *)
(* to, which nothing has looked up in the set.                              *)
Verbatim(u) == [by |-> "attribute", to |-> u, warning |-> FALSE]

(* All that a line says of a type.  Only an offset after the colon sets     *)
(* type_printed: beside a name the type attribute is printed as well.  On   *)
(* an enumeration or a subrange it is all there is.                         *)
References(d, t) ==
  CASE d \in Raw -> {Verbatim(t)}
    [] d \notin Raw /\ Reference(t).by = "offset" -> {Reference(t)}
    [] OTHER -> {Reference(t), Verbatim(t)}

(* The types a DIE's own lines refer to, and whether the walk follows them. *)
TypesOf(d) ==
  {[t |-> e.to, followed |-> Followed(e)] :
     e \in CASE d \in Variable -> {[to |-> root.get_type[d], reason |-> "type"]}
             [] d \in Type \ root.implicit -> Range(root.edges[d])
             [] OTHER -> {}}

(* The DIEs whose text is within that of another: children, theirs, and so  *)
(* on, local variables excepted.                                            *)
PrintedWithin(d) ==
  LET within[n \in 0..Cardinality(Die)] ==
        IF n = 0 THEN {d}
        ELSE within[n - 1] \cup ((UNION {root.children[c] : c \in within[n - 1]}) \ Variable)
  IN  within[Cardinality(Die)]

LinesOf(c) ==
  (UNION {{[die |-> c, followed |-> y.followed, ref |-> ref] : ref \in References(c, y.t)} :
            y \in {z \in TypesOf(c) : z.t # Void}})
    \cup {[die |-> c, followed |-> FALSE, ref |-> Verbatim(u)] : u \in root.other_refs[c]}
print_type_die(d) == UNION {LinesOf(c) : c \in PrintedWithin(d)}
print_dies == UNION {print_type_die(d) : d \in out}

(* What a gathered DIE is made of can be found in the text: what comes      *)
(* after the colon is a gathered type's, and of a type that an attribute    *)
(* refers to a gathered equal is printed, under the same or another offset. *)
(* Elsewhere (static members, DIEs only printed because they are within     *)
(* another) an offset after the colon is that of a DIE printed too, or      *)
(* there has been a warning; of an attribute's offset nothing is promised.  *)
PrintedReferencesGathered ==
  status = "done" =>
    \A x \in print_dies :
      /\ x.ref.by = "offset" => x.ref.to \in out \/ x.ref.warning
      /\ x.followed /\ x.die \in out =>
           IF x.ref.by = "attribute" THEN Has(out \cap Type, x.ref.to)
           ELSE x.ref.to \in out
=============================================================================
