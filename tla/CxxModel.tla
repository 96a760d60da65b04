------------------------------ MODULE CxxModel ------------------------------
(***************************************************************************)
(* cxx_generator_from_dwarf: which names the C++ text of a DIE makes it    *)
(* ask maybe_get_name for.  The text itself is left out; what is modelled  *)
(* is which DIEs the recursion over the types comes to, where it stops     *)
(* because a DIE can be named, and where it aborts.                        *)
(*                                                                         *)
(* A DIE graph g gives, for each DIE: its tag, whether it is named, the    *)
(* type it refers to, its members and its formal parameters (their types,  *)
(* and whether they are named), whether it is a declaration; and the       *)
(* language of the compilation unit.                                       *)
(***************************************************************************)
EXTENDS EmitKeys, FiniteSets, Sequences, SequencesExt

CONSTANT Void          \* the null iterator, which is type void

ASSUME DiesAssumption == IsFiniteSet(Die) /\ Void \in Die

Tag == {"void", "base", "typedef", "aggregate", "enumeration", "pointer", "reference",
        "array", "qualified", "subrange", "subroutine", "subprogram", "variable", "string"}
type_die == Tag \ {"void", "variable"}

(* The names the generator can give: not to void, nor to base types, which  *)
(* it knows from the compiler.                                              *)
HasName(g, d) == g.tag[d] \notin {"void", "base"} /\ g.named[d]

Language == {"C", "C11", "C++"}    \* C is any C before C11
Component == [type : Die, named : BOOLEAN]   \* a member, a formal parameter

(* The DIEs a type is spelled with where it is not named, and those a value *)
(* of it holds.                                                             *)
TypesOf(s) == {s[i].type : i \in DOMAIN s}
Spelling(g, d) ==
  CASE g.tag[d] \in {"void", "base", "string", "enumeration"} -> {}
    [] g.tag[d] = "aggregate" -> IF HasName(g, d) THEN {} ELSE TypesOf(g.members[d])
    [] OTHER -> {g.type[d]} \cup TypesOf(g.params[d])
Holding(g, d) ==
  CASE g.tag[d] = "aggregate" -> TypesOf(g.members[d])
    [] g.tag[d] \in {"typedef", "qualified", "subrange", "array"} -> {g.type[d]}
    [] OTHER -> {}
WellFounded(R) ==
  LET settled[n \in 0..Cardinality(Die)] ==
        IF n = 0 THEN {}
        ELSE LET before == settled[n - 1] IN {d \in Die : R[d] \subseteq before}
  IN  settled[Cardinality(Die)] = Die

(* The DIE graphs that programs have: types recur through the names of      *)
(* aggregates only, no value holds another of its own type, typedefs have   *)
(* names, base types and void have no members.                              *)
DieGraph(g) ==
  /\ g.tag \in [Die -> Tag]
  /\ g.named \in [Die -> BOOLEAN]
  /\ g.type \in [Die -> Die]
  /\ g.members \in [Die -> Seq(Component)]
  /\ g.params \in [Die -> Seq(Component)]
  /\ g.declaration \in [Die -> BOOLEAN]
  /\ g.language \in Language
  /\ \A d \in Die : /\ g.tag[d] = "void" <=> d = Void
                    /\ g.tag[d] = "typedef" => g.named[d]
                    /\ g.declaration[d] => g.members[d] = <<>>
  /\ WellFounded([d \in Die |-> Spelling(g, d)])
  /\ WellFounded([d \in Die |-> Holding(g, d)])

Normal(d) == [die |-> d, kind |-> "NORMAL"]
Defining(d) == [die |-> d, kind |-> "DEFINING"]
(* The end of a run that meets an assertion, an abort or *maybe_get_name    *)
(* where there is no name.                                                  *)
Abort == [die |-> Void, kind |-> "ABORT"]

DerefName(g, d) == IF HasName(g, d) THEN <<>> ELSE <<Abort>>

(* The references of a declarator of type t: the name of t if it has one,   *)
(* else those of the types t is built from, which are in names.  fp_names   *)
(* is emit_fp_names: whether formal parameters are written with their names. *)
declarator(g, names, t, fp_names) ==
  LET stops == g.tag[t] # "subprogram" /\ HasName(g, t)
      asks  == IF g.tag[t] \in {"void", "base", "subprogram"} THEN <<>>
               ELSE <<Normal(t)>>
      child(c, name_needed) ==
        (IF name_needed => c.named THEN <<>> ELSE <<Abort>>) \o names[c.type][FALSE]
  IN  IF stops THEN asks \o asks
      ELSE asks \o
        CASE g.tag[t] \in {"void", "base"} -> <<>>
          [] g.tag[t] = "aggregate" /\ ~g.declaration[t] ->
               FlattenSeq([i \in DOMAIN g.members[t] |-> child(g.members[t][i], TRUE)])
          [] g.tag[t] = "aggregate" /\ g.declaration[t] -> <<>>
          [] g.tag[t] = "enumeration" -> <<Normal(t), Abort>>
          [] g.tag[t] \in {"subrange", "qualified"} -> names[g.type[t]][fp_names]
          [] g.tag[t] \in {"pointer", "reference"} -> names[g.type[t]][FALSE]
          [] g.tag[t] = "array" ->
               IF g.language = "C" THEN names[g.type[t]][fp_names] ELSE <<Abort>>
          [] g.tag[t] \in {"subroutine", "subprogram"} ->
               FlattenSeq([i \in DOMAIN g.params[t] |-> child(g.params[t][i], fp_names)])
                 \o names[g.type[t]][FALSE]
          [] OTHER -> <<Abort>>

decl_having_type(g) ==
  LET names[t \in Die] == [fp_names \in BOOLEAN |-> declarator(g, names, t, fp_names)]
  IN  names

(* Mutant: a declaration of an aggregate names its members' types.          *)
decl_of_die_with_members(g, d) ==
  IF g.tag[d] = "aggregate"
  THEN FlattenSeq([i \in DOMAIN g.members[d] |->
                     decl_having_type(g)[g.members[d][i].type][FALSE]])
  ELSE IF g.tag[d] \in {"variable", "typedef"}
  THEN DerefName(g, d) \o decl_having_type(g)[g.type[d]][FALSE]
  ELSE <<>>

(* decl_of_die: an aggregate or enumeration is declared by its tag alone,   *)
(* other types than those and typedefs are not declared at all.             *)
decl_of_die(g, d) ==
  CASE g.tag[d] \in {"variable", "typedef"} ->
         DerefName(g, d) \o decl_having_type(g)[g.type[d]][FALSE]
    [] g.tag[d] = "subprogram" ->
         DerefName(g, d)
           \o IF g.language # "C++" THEN decl_having_type(g)[d][TRUE] ELSE <<Abort>>
    [] g.tag[d] \in {"aggregate", "enumeration"} -> <<Defining(d)>>
    [] OTHER -> <<>>

(* get_concrete_type: through typedefs, qualifiers and the like.            *)
get_concrete_type(g, d) ==
  LET concrete[t \in Die] ==
        IF g.tag[t] \in {"typedef", "qualified", "subrange"} THEN concrete[g.type[t]] ELSE t
  IN  concrete[d]

(* body_of_subprogram_die: `return' with the default value of the type.     *)
default_expression_of_type(g, t) ==
  LET c == get_concrete_type(g, t)
  IN  CASE g.tag[c] \in {"void", "base", "enumeration", "pointer"} -> <<>>
        [] g.tag[c] = "aggregate" ->
             <<Normal(c)>>
               \o IF HasName(g, c) THEN <<>>
                  ELSE <<Normal(t)>> \o DerefName(g, t)
        [] OTHER -> <<Abort>>

member_definition(g, m) ==
  (IF m.named THEN <<>> ELSE <<Abort>>) \o decl_having_type(g)[m.type][FALSE]

(* defn_of_die: a definition of an aggregate declares its members, one of a *)
(* subprogram has a body; an enumeration asks for its own name.             *)
defn_of_die(g, d) ==
  CASE g.tag[d] = "enumeration" -> <<Normal(d)>> \o DerefName(g, d)
    [] g.tag[d] = "aggregate" ->
         <<Defining(d)>> \o DerefName(g, d)
           \o IF g.declaration[d] THEN <<>>
              ELSE FlattenSeq([i \in DOMAIN g.members[d] |-> member_definition(g, g.members[d][i])])
    [] g.tag[d] = "subprogram" ->
         DerefName(g, d) \o decl_having_type(g)[d][TRUE]
           \o default_expression_of_type(g, g.type[d])
    [] OTHER -> <<>>

Generate(g, p) == IF p.kind = EMIT_DECL THEN decl_of_die(g, p.die)
                  ELSE defn_of_die(g, p.die)

(* The run of the generator up to where it aborts, if it does.              *)
Aborts(g, p) == Contains(Generate(g, p), Abort)
Requests(g, p) ==
  LET all == Generate(g, p)
  IN  IF Aborts(g, p)
      THEN SubSeq(all, 1, (CHOOSE i \in DOMAIN all :
                             all[i] = Abort /\ \A j \in 1..(i - 1) : all[j] # Abort) - 1)
      ELSE all
=============================================================================
