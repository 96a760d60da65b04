--------------------------- MODULE OrderedOutput ---------------------------
(***************************************************************************)
(* dependency_ordering_cxx_target::write_ordered_output: passes over the   *)
(* remaining fragments in key order; in each pass a fragment is written as *)
(* soon as everything it depends on has been, unless a type of the same    *)
(* name was written before it; then the constraints on it are dropped and  *)
(* it leaves m_output_fragments.  A pass that removes nothing aborts.      *)
(*                                                                         *)
(* A step is one visit of a pass.  `given' is what the call found in the   *)
(* object's m_output_fragments and m_order_constraints.  `written' is what *)
(* went to the output stream: `emitted' less the suppressed fragments.     *)
(***************************************************************************)
EXTENDS EmitKeys, FiniteSets

CONSTANTS Inputs,        \* the [fragments, constraints] the call may find
          TypeDie,       \* the DIEs that are type_dies
          NameHere,      \* name_here() of a DIE, or NoName
          SummaryCode,   \* summary_code() of a type, or NoCode (incomplete)
          NoName, NoCode

WriterInput(in) ==
  /\ in.fragments \subseteq Pair
  /\ IsFiniteSet(in.fragments)
  /\ OnePerKey(in.fragments)
  /\ in.constraints \subseteq in.fragments \X Pair
  /\ \A c \in in.constraints : KeyOf(c[2]) \in Keys(in.fragments)

ASSUME InputsAssumption == \A in \in Inputs : WriterInput(in)

VARIABLES given, m_output_fragments, m_order_constraints,
          emitted, written,
          type_definitions_generated_by_name,
          pass,          \* the fragments this pass has not come to yet
          removed_one,
          status         \* where control is, or how the call ended

vars == <<given, m_output_fragments, m_order_constraints, emitted, written,
          type_definitions_generated_by_name, pass, removed_one, status>>

order_constraints_reversed == {<<c[2], c[1]>> : c \in given.constraints}

Init == /\ given \in Inputs
        /\ m_output_fragments = given.fragments
        /\ m_order_constraints = given.constraints
        /\ emitted = {}
        /\ written = {}
        /\ type_definitions_generated_by_name = {}
        /\ pass = {}
        /\ removed_one = FALSE
        /\ status = "between passes"
-----------------------------------------------------------------------------
(* Mutant: the flag is set once, for all passes.                            *)
BeginPass_no_reset == /\ status = "between passes"
                      /\ m_output_fragments # {}
                      /\ pass' = m_output_fragments
                      /\ status' = "in pass"
                      /\ UNCHANGED <<given, m_output_fragments, m_order_constraints,
                                     emitted, written, removed_one,
                                     type_definitions_generated_by_name>>

BeginPass == /\ status = "between passes"
             /\ m_output_fragments # {}
             /\ pass' = m_output_fragments
             /\ removed_one' = FALSE
             /\ status' = "in pass"
             /\ UNCHANGED <<given, m_output_fragments, m_order_constraints,
                            emitted, written,
                            type_definitions_generated_by_name>>

Return == /\ status = "between passes"
          /\ m_output_fragments = {}
          /\ status' = "done"
          /\ UNCHANGED <<given, m_output_fragments, m_order_constraints,
                         emitted, written,
                         type_definitions_generated_by_name, pass, removed_one>>

(* Mutant: the call gives up on whatever the first pass leaves.             *)
EndPass_single == /\ status = "in pass"
                  /\ pass = {}
                  /\ status' = IF m_output_fragments = {} THEN "between passes" ELSE "stuck"
                  /\ UNCHANGED <<given, m_output_fragments, m_order_constraints,
                                 emitted, written,
                                 type_definitions_generated_by_name, pass, removed_one>>

(* The pass is over; without progress the call prints the constraints that *)
(* are left and aborts.                                                    *)
EndPass == /\ status = "in pass"
           /\ pass = {}
           /\ status' = IF removed_one THEN "between passes" ELSE "stuck"
           /\ UNCHANGED <<given, m_output_fragments, m_order_constraints,
                          emitted, written,
                          type_definitions_generated_by_name, pass, removed_one>>

(* Mutant: being visited is enough.                                         *)
all_sat_visited(el) ==
  \A c \in m_order_constraints :
    KeyOf(c[1]) = KeyOf(el) => KeyOf(c[2]) \notin Keys(pass)

all_sat(el) ==
  \A c \in m_order_constraints :
    KeyOf(c[1]) = KeyOf(el) => KeyOf(c[2]) \in Keys(emitted)

Visiting(el) == /\ status = "in pass"
                /\ el \in pass
                /\ IsFirst(el, pass)

Defer(el) == /\ Visiting(el)
             /\ ~all_sat(el)
             /\ pass' = pass \ {el}
             /\ UNCHANGED <<given, m_output_fragments, m_order_constraints,
                            emitted, written,
                            type_definitions_generated_by_name, removed_one,
                            status>>

(* The name a fragment would define: the bare one, whatever its tag is and *)
(* whether the fragment declares it or defines it.                         *)
is_a_named_type_die(el) == el.die \in TypeDie /\ NameHere[el.die] # NoName

(* Mutant: a type of another summary code is no namesake.                   *)
already_emitted_same_code(el) ==
  /\ is_a_named_type_die(el)
  /\ \E t \in type_definitions_generated_by_name :
       t.name = NameHere[el.die] /\ t.code = SummaryCode[el.die]

already_emitted_compatible_type(el) ==
  /\ is_a_named_type_die(el)
  /\ \E t \in type_definitions_generated_by_name : t.name = NameHere[el.die]

(* Mutant: incomplete types are remembered too.                             *)
Remember_incomplete(el) ==
  IF is_a_named_type_die(el)
  THEN type_definitions_generated_by_name \cup
         {[name |-> NameHere[el.die], code |-> SummaryCode[el.die], frag |-> el]}
  ELSE type_definitions_generated_by_name

(* The definitions the map has once el's fragment is written. *)
Remember(el) ==
  IF is_a_named_type_die(el) /\ SummaryCode[el.die] # NoCode
  THEN type_definitions_generated_by_name \cup
         {[name |-> NameHere[el.die], code |-> SummaryCode[el.die], frag |-> el]}
  ELSE type_definitions_generated_by_name

(* Mutant: a suppressed fragment is remembered as written.                  *)
WriteOrSuppress_remembers(el) ==
  /\ type_definitions_generated_by_name' = Remember(el)
  /\ \/ ~already_emitted_compatible_type(el) /\ written' = written \cup {el}
     \/ /\ already_emitted_compatible_type(el)
        /\ SummaryCode[el.die] # NoCode
        /\ UNCHANGED written

WriteOrSuppress(el) ==
  \/ /\ ~already_emitted_compatible_type(el)
     /\ written' = written \cup {el}
     /\ type_definitions_generated_by_name' = Remember(el)
  \/ /\ already_emitted_compatible_type(el)
     /\ SummaryCode[el.die] # NoCode
     /\ UNCHANGED <<written, type_definitions_generated_by_name>>

(* Mutant: only constraints on this very DIE are erased.                    *)
Erased_identical(el) ==
  {<<r[2], r[1]>> : r \in {s \in order_constraints_reversed : s[1] = el}}

(* Each constraint on el is looked up under its dependent, and erased where *)
(* both ends are the ones order_constraints_reversed has.                   *)
Erased(el) ==
  {<<r[2], r[1]>> : r \in {s \in order_constraints_reversed : KeyOf(s[1]) = KeyOf(el)}}

(* The scan for a dependent's constraints stops at the first that is not    *)
(* one of them.  For the last dependent in the map there is none: the scan  *)
(* reads through end().  What it finds there may stop it like a foreign     *)
(* key, or be anything.                                                     *)
ScanReachesEnd(el) ==
  \E c \in Erased(el) :
    \A k \in m_order_constraints : ~compare_with_type_equality(c[1], k[1])

(* Mutant: the dependencies are not looked at.                              *)
Emitting_unchecked(el) == /\ Visiting(el)
                          /\ WriteOrSuppress(el)
                          /\ emitted' = emitted \cup {el}
                          /\ m_order_constraints' = m_order_constraints \ Erased(el)

Emitting(el) == /\ Visiting(el)
                /\ all_sat(el)
                /\ WriteOrSuppress(el)
                /\ emitted' = emitted \cup {el}
                /\ m_order_constraints' = m_order_constraints \ Erased(el)

(* Mutant: the fragment stays in the map.                                   *)
Emit_keeps(el) == /\ Emitting(el)
                  /\ pass' = pass \ {el}
                  /\ removed_one' = TRUE
                  /\ UNCHANGED <<given, m_output_fragments, status>>

Emit(el) == /\ Emitting(el)
            /\ m_output_fragments' = m_output_fragments \ {el}
            /\ pass' = pass \ {el}
            /\ removed_one' = TRUE
            /\ UNCHANGED <<given, status>>

ReadPastEnd(el) == /\ Emitting(el)
                   /\ ScanReachesEnd(el)
                   /\ status' = "undefined"
                   /\ UNCHANGED <<given, m_output_fragments, pass, removed_one>>

(* assert(maybe_our_summary_code): el has the name of a type that was       *)
(* written, and no summary code to compare with.                            *)
IncompleteNamesake(el) == /\ Visiting(el)
                          /\ all_sat(el)
                          /\ already_emitted_compatible_type(el)
                          /\ SummaryCode[el.die] = NoCode
                          /\ status' = "assertion failed"
                          /\ UNCHANGED <<given, m_output_fragments,
                                         m_order_constraints, emitted, written,
                                         type_definitions_generated_by_name,
                                         pass, removed_one>>

Ended == {"done", "stuck", "undefined", "assertion failed"}

Next == \/ BeginPass
        \/ Return
        \/ EndPass
        \/ \E el \in pass : Defer(el)
        \/ \E el \in pass : Emit(el)
        \/ \E el \in pass : ReadPastEnd(el)
        \/ \E el \in pass : IncompleteNamesake(el)

Spec == Init /\ [][Next]_vars
(* One thread runs the call to its end: a step that is enabled is taken.   *)
FairSpec == Spec /\ WF_vars(Next)
-----------------------------------------------------------------------------
TypeOK ==
  /\ WriterInput(given)
  /\ m_output_fragments \subseteq given.fragments
  /\ m_order_constraints \subseteq given.constraints
  /\ emitted \subseteq given.fragments
  /\ written \subseteq emitted
  /\ \A t \in type_definitions_generated_by_name :
       t.frag \in written /\ t.code # NoCode
  /\ pass \subseteq given.fragments
  /\ removed_one \in BOOLEAN
  /\ status \in Ended \cup {"between passes", "in pass"}

(* No fragment is dropped or emitted twice, however often a pass is started *)
(* again over what is left: each is either still there or emitted.          *)
FragmentsConserved ==
  status # "undefined" =>
    /\ emitted \cup m_output_fragments = given.fragments
    /\ emitted \cap m_output_fragments = {}

(* The constraints erased after each emission are all those on the emitted  *)
(* key, whichever of its type-equal DIEs they name, and no other.           *)
ConstraintsExact ==
  m_order_constraints = {c \in given.constraints : KeyOf(c[2]) \notin Keys(emitted)}

(* Although satisfied constraints are erased as the passes go, every        *)
(* emitted fragment has all it ever depended on emitted before it.          *)
DependenciesFirst ==
  \A c \in given.constraints : c[1] \in emitted => KeyOf(c[2]) \in Keys(emitted)

(* "lack of progress" is a verdict on the input, not on the order of the    *)
(* visits: when the call aborts, each remaining fragment depends on another *)
(* that remains, so the constraints have a cycle.                           *)
StuckOnlyOnCycle ==
  status = "stuck" =>
    /\ m_output_fragments # {}
    /\ \A p \in m_output_fragments :
         \E c \in given.constraints :
           c[1] = p /\ KeyOf(c[2]) \in Keys(m_output_fragments)

(* Constraints in which every set of fragments has one that depends on none *)
(* of the set are always put in order.                                      *)
AcyclicInput(in) ==
  \A S \in SUBSET in.fragments :
    S # {} => \E p \in S : \A c \in in.constraints :
                             c[1] = p => KeyOf(c[2]) \notin Keys(S)
AcyclicNeverStuck == AcyclicInput(given) => status # "stuck"

(* "we can't emit both in the same file": of the complete types of one name *)
(* at most one is defined in the output, across incompatible types; that it *)
(* is declared as well is no matter, "duplicate declarations are OK".       *)
OneDefinitionPerName ==
  \A p, q \in {d \in written : d.kind = EMIT_DEF} :
    /\ is_a_named_type_die(p) /\ SummaryCode[p.die] # NoCode
    /\ is_a_named_type_die(q) /\ SummaryCode[q.die] # NoCode
    /\ NameHere[p.die] = NameHere[q.die]
    => p = q

(* A fragment is left out of the output only for a complete type of the     *)
(* same name that is in it.                                                 *)
SuppressedHasNamesake ==
  \A p \in emitted \ written :
    \E q \in written : /\ is_a_named_type_die(p)
                       /\ is_a_named_type_die(q)
                       /\ NameHere[q.die] = NameHere[p.die]
                       /\ SummaryCode[q.die] # NoCode

(* The passes end: each but the last removes a fragment, and the last       *)
(* returns or aborts.                                                       *)
Terminates == <>(status \in Ended)

(* The writer emits keys in an order of the constraints between keys.       *)
KeyGraph(in) == [nodes |-> Keys(in.fragments),
                 edges |-> {<<KeyOf(c[1]), KeyOf(c[2])>> : c \in in.constraints}]
Result == CASE status = "done"  -> "complete"
            [] status = "stuck" -> "stuck"
            [] OTHER            -> "emitting"
Abstract == INSTANCE TopologicalEmission
              WITH Node <- emit_kind \X Nat,
                   graph <- KeyGraph(given), done <- Keys(emitted),
                   result <- Result
EmitsInDependencyOrder == Abstract!Spec
-----------------------------------------------------------------------------
(* What the source says of the writer and the writer does not do.           *)

(* dependency_ordering_cxx_target.cpp:288 "We suppress repeated             *)
(* definitions": a definition is left out only when a definition of that    *)
(* name was written.                                                        *)
SuppressesOnlyRepeatedDefinitions ==
  \A p \in emitted \ written :
    p.kind = EMIT_DEF =>
      \E q \in written : q.kind = EMIT_DEF /\ NameHere[q.die] = NameHere[p.die]
=============================================================================
