------------------------ MODULE OrderedOutputProofs ------------------------
(***************************************************************************)
(* Proofs about write_ordered_output, for every set of DIEs, every order   *)
(* of their types, every naming of them and every input the call may find. *)
(***************************************************************************)
EXTENDS OrderedOutput, TLAPS

(* Where the pass stands: it still has to come to part of what is left, and *)
(* until it removes something, what it has come to stays blocked.           *)
PassInvariant ==
  status = "in pass" =>
    /\ pass \subseteq m_output_fragments
    /\ ~removed_one => /\ m_output_fragments # {}
                       /\ \A p \in m_output_fragments \ pass : ~all_sat(p)

StuckInvariant ==
  status = "stuck" => /\ m_output_fragments # {}
                      /\ \A p \in m_output_fragments : ~all_sat(p)

DoneInvariant == status = "done" => m_output_fragments = {}

(* type_definitions_generated_by_name is the record of the complete named   *)
(* types among the fragments written.                                       *)
IsDefinition(p) == is_a_named_type_die(p) /\ SummaryCode[p.die] # NoCode
DefinitionsInvariant ==
  /\ \A t \in type_definitions_generated_by_name :
       IsDefinition(t.frag) /\ t.name = NameHere[t.frag.die]
  /\ \A p \in written : IsDefinition(p) =>
       \E t \in type_definitions_generated_by_name : t.name = NameHere[p.die]

IInv == /\ TypeOK
        /\ FragmentsConserved
        /\ ConstraintsExact
        /\ DependenciesFirst
        /\ PassInvariant
        /\ StuckInvariant
        /\ DoneInvariant
        /\ DefinitionsInvariant
        /\ OneDefinitionPerName
        /\ SuppressedHasNamesake
-----------------------------------------------------------------------------
(* Adding an element to a container adds its key.                           *)
LEMMA KeysAdd == ASSUME NEW E, NEW el PROVE Keys(E \cup {el}) = Keys(E) \cup {KeyOf(el)}
  BY DEF Keys

(* The two-step erasure, through order_constraints_reversed and back, hits  *)
(* the constraints on the emitted key and no other.                         *)
LEMMA ErasedExact ==
  ASSUME WriterInput(given), NEW el
  PROVE  Erased(el) = {c \in given.constraints : KeyOf(c[2]) = KeyOf(el)}
<1>1. \A c \in given.constraints : c = <<c[1], c[2]>>
  BY DEF WriterInput
<1>2. ASSUME NEW c \in Erased(el)
      PROVE  c \in given.constraints /\ KeyOf(c[2]) = KeyOf(el)
  <2>1. PICK r \in order_constraints_reversed :
               KeyOf(r[1]) = KeyOf(el) /\ c = <<r[2], r[1]>>
    BY <1>2 DEF Erased
  <2>2. PICK d \in given.constraints : r = <<d[2], d[1]>>
    BY DEF order_constraints_reversed
  <2>3. c = d
    BY <2>1, <2>2, <1>1
  <2> QED
    BY <2>1, <2>2, <2>3
<1>3. ASSUME NEW c \in given.constraints, KeyOf(c[2]) = KeyOf(el)
      PROVE  c \in Erased(el)
  <2> DEFINE r == <<c[2], c[1]>>
  <2>1. r \in order_constraints_reversed
    BY DEF order_constraints_reversed
  <2>2. KeyOf(r[1]) = KeyOf(el) /\ c = <<r[2], r[1]>>
    BY <1>1, <1>3
  <2> QED
    BY <2>1, <2>2 DEF Erased
<1> QED
  BY <1>2, <1>3

(* A blocked fragment has an original constraint on a key not yet emitted.  *)
LEMMA BlockedBy ==
  ASSUME WriterInput(given), ConstraintsExact,
         NEW p \in given.fragments, ~all_sat(p)
  PROVE  \E c \in given.constraints : c[1] = p /\ KeyOf(c[2]) \notin Keys(emitted)
<1>1. PICK c \in m_order_constraints :
             KeyOf(c[1]) = KeyOf(p) /\ KeyOf(c[2]) \notin Keys(emitted)
  BY DEF all_sat
<1>2. c \in given.constraints
  BY DEF ConstraintsExact
<1>3. c[1] \in given.fragments
  BY <1>2 DEF WriterInput
<1>4. c[1] = p
  BY <1>1, <1>3 DEF WriterInput, OnePerKey
<1> QED
  BY <1>1, <1>2, <1>4

(* What an emission does to the output, whether or not the scan that        *)
(* follows it reads past the end.                                           *)
LEMMA EmittingStep ==
  ASSUME IInv, NEW el \in pass, Emitting(el), UNCHANGED given
  PROVE  /\ el \in m_output_fragments /\ el \in given.fragments
         /\ m_order_constraints' \subseteq given.constraints
         /\ emitted' \subseteq given.fragments
         /\ written' \subseteq emitted'
         /\ \A t \in type_definitions_generated_by_name' :
              t.frag \in written' /\ t.code # NoCode
         /\ ConstraintsExact'
         /\ DependenciesFirst'
         /\ DefinitionsInvariant'
         /\ OneDefinitionPerName'
         /\ SuppressedHasNamesake'
<1> USE DEF Emitting
<1>1. el \in m_output_fragments /\ el \in given.fragments
  BY DEF IInv, TypeOK, PassInvariant, Visiting
<1>2. m_order_constraints' \subseteq given.constraints
  BY DEF IInv, TypeOK
<1>3. emitted' \subseteq given.fragments /\ written' \subseteq emitted'
  BY <1>1 DEF IInv, TypeOK, WriteOrSuppress
<1>4. ConstraintsExact'
  <2>1. Erased(el) = {c \in given.constraints : KeyOf(c[2]) = KeyOf(el)}
    BY ErasedExact DEF IInv, TypeOK
  <2>2. m_order_constraints = {c \in given.constraints : KeyOf(c[2]) \notin Keys(emitted)}
    BY DEF IInv, ConstraintsExact
  <2>3. Keys(emitted') = Keys(emitted) \cup {KeyOf(el)}
    BY KeysAdd
  <2>4. m_order_constraints' =
          {c \in given.constraints : KeyOf(c[2]) \notin Keys(emitted')}
    BY <2>1, <2>2, <2>3
  <2> QED
    BY <2>4 DEF ConstraintsExact
<1>5. DependenciesFirst'
  <2> SUFFICES ASSUME NEW c \in given.constraints, c[1] \in emitted \cup {el}
               PROVE  KeyOf(c[2]) \in Keys(emitted) \cup {KeyOf(el)}
    BY KeysAdd DEF DependenciesFirst
  <2>1. CASE c[1] \in emitted
    BY <2>1 DEF IInv, DependenciesFirst
  <2>2. CASE c[1] = el
    BY <2>2 DEF all_sat, IInv, ConstraintsExact
  <2> QED
    BY <2>1, <2>2
<1>6. CASE /\ ~already_emitted_compatible_type(el)
           /\ written' = written \cup {el}
           /\ type_definitions_generated_by_name' = Remember(el)
  <2>1. IsDefinition(el) =>
          /\ type_definitions_generated_by_name' =
               type_definitions_generated_by_name \cup
                 {[name |-> NameHere[el.die], code |-> SummaryCode[el.die],
                   frag |-> el]}
          /\ \A p \in written :
               IsDefinition(p) => NameHere[p.die] # NameHere[el.die]
    BY <1>6 DEF Remember, IsDefinition, IInv, DefinitionsInvariant,
                already_emitted_compatible_type
  <2>2. ~IsDefinition(el) =>
          type_definitions_generated_by_name' = type_definitions_generated_by_name
    BY <1>6 DEF Remember, IsDefinition
  <2>3. \A t \in type_definitions_generated_by_name' :
          \/ t \in type_definitions_generated_by_name
          \/ /\ IsDefinition(el)
             /\ t.name = NameHere[el.die]
             /\ t.code = SummaryCode[el.die]
             /\ t.frag = el
    BY <2>1, <2>2
  <2>4. \A t \in type_definitions_generated_by_name' :
          t.frag \in written' /\ t.code # NoCode
    BY <1>6, <2>3 DEF IInv, TypeOK, IsDefinition
  <2>5. DefinitionsInvariant'
    <3>1. \A t \in type_definitions_generated_by_name' :
            IsDefinition(t.frag) /\ t.name = NameHere[t.frag.die]
      BY <2>3 DEF IInv, DefinitionsInvariant
    <3>2. ASSUME NEW p \in written', IsDefinition(p)
          PROVE  \E t \in type_definitions_generated_by_name' :
                   t.name = NameHere[p.die]
      <4>1. CASE p \in written
        <5>1. PICK t \in type_definitions_generated_by_name : t.name = NameHere[p.die]
          BY <3>2, <4>1 DEF IInv, DefinitionsInvariant
        <5>2. t \in type_definitions_generated_by_name'
          BY <2>1, <2>2
        <5> QED
          BY <5>1, <5>2
      <4>2. CASE p = el
        <5> DEFINE t == [name |-> NameHere[el.die], code |-> SummaryCode[el.die],
                         frag |-> el]
        <5>1. IsDefinition(el)
          BY <3>2, <4>2
        <5>2. t \in type_definitions_generated_by_name'
          BY <5>1, <2>1
        <5>3. t.name = NameHere[p.die]
          BY <4>2
        <5> QED
          BY <5>2, <5>3
      <4> QED
        BY <1>6, <4>1, <4>2
    <3> QED
      BY <3>1, <3>2 DEF DefinitionsInvariant, IsDefinition, is_a_named_type_die
  <2>6. OneDefinitionPerName'
    BY <1>6, <2>1 DEF IInv, OneDefinitionPerName, IsDefinition, is_a_named_type_die
  <2>7. SuppressedHasNamesake'
    BY <1>6 DEF IInv, SuppressedHasNamesake, is_a_named_type_die
  <2> QED
    BY <1>1, <1>2, <1>3, <1>4, <1>5, <2>4, <2>5, <2>6, <2>7
<1>7. CASE /\ already_emitted_compatible_type(el)
           /\ UNCHANGED <<written, type_definitions_generated_by_name>>
  <2>1. PICK t \in type_definitions_generated_by_name : t.name = NameHere[el.die]
    BY <1>7 DEF already_emitted_compatible_type
  <2>2. /\ is_a_named_type_die(el)
        /\ t.frag \in written
        /\ IsDefinition(t.frag)
        /\ NameHere[t.frag.die] = NameHere[el.die]
    BY <1>7, <2>1
       DEF already_emitted_compatible_type, IInv, TypeOK, DefinitionsInvariant
  <2>3. SuppressedHasNamesake'
    BY <1>7, <2>2 DEF IInv, SuppressedHasNamesake, IsDefinition, is_a_named_type_die
  <2>4. DefinitionsInvariant' /\ OneDefinitionPerName'
    BY <1>7 DEF IInv, DefinitionsInvariant, OneDefinitionPerName, IsDefinition,
                is_a_named_type_die
  <2>5. \A u \in type_definitions_generated_by_name' :
          u.frag \in written' /\ u.code # NoCode
    BY <1>7 DEF IInv, TypeOK
  <2> QED
    BY <1>1, <1>2, <1>3, <1>4, <1>5, <2>3, <2>4, <2>5
<1> QED
  BY <1>6, <1>7 DEF WriteOrSuppress

(* The invariant holds at the call.                                         *)
LEMMA InitIInv == Init => IInv
<1> SUFFICES ASSUME Init PROVE IInv
  OBVIOUS
<1>1. WriterInput(given)
  BY InputsAssumption DEF Init
<1>2. ConstraintsExact /\ DependenciesFirst
  BY <1>1 DEF Init, ConstraintsExact, DependenciesFirst, Keys
<1> QED
  BY <1>1, <1>2 DEF Init, IInv, TypeOK, FragmentsConserved, PassInvariant,
     StuckInvariant, DoneInvariant, DefinitionsInvariant,
     OneDefinitionPerName, SuppressedHasNamesake

(* Every step of the passes keeps it.                                       *)
LEMMA NextIInv == IInv /\ [Next]_vars => IInv'
<1> SUFFICES ASSUME IInv, [Next]_vars PROVE IInv'
  OBVIOUS
<1> DEFINE Outputs == <<given, m_order_constraints, emitted, written,
                        type_definitions_generated_by_name>>
<1>1. ASSUME UNCHANGED Outputs
      PROVE  /\ ConstraintsExact' /\ DependenciesFirst' /\ DefinitionsInvariant'
             /\ OneDefinitionPerName' /\ SuppressedHasNamesake'
             /\ \A p : all_sat(p)' <=> all_sat(p)
  BY <1>1 DEF IInv, ConstraintsExact, DependenciesFirst, DefinitionsInvariant,
     OneDefinitionPerName, SuppressedHasNamesake, all_sat, IsDefinition,
     is_a_named_type_die
<1>2. CASE BeginPass
  BY <1>1, <1>2 DEF BeginPass, IInv, TypeOK, Ended, FragmentsConserved,
     PassInvariant, StuckInvariant, DoneInvariant
<1>3. CASE Return
  BY <1>1, <1>3 DEF Return, IInv, TypeOK, Ended, FragmentsConserved,
     PassInvariant, StuckInvariant, DoneInvariant
<1>4. CASE EndPass
  BY <1>1, <1>4 DEF EndPass, IInv, TypeOK, Ended, FragmentsConserved,
     PassInvariant, StuckInvariant, DoneInvariant
<1>5. ASSUME NEW el \in pass, Defer(el) PROVE IInv'
  BY <1>1, <1>5 DEF Defer, Visiting, IInv, TypeOK, Ended, FragmentsConserved,
     PassInvariant, StuckInvariant, DoneInvariant
<1>6. ASSUME NEW el \in pass, Emit(el) PROVE IInv'
  <2>1. Emitting(el) /\ UNCHANGED given /\ status = "in pass"
    BY <1>6 DEF Emit, Emitting, Visiting
  <2>2. TypeOK'
    BY <1>6, <2>1, EmittingStep DEF Emit, IInv, TypeOK, Ended
  <2>3. FragmentsConserved'
    BY <1>6, <2>1, EmittingStep DEF Emit, Emitting, IInv, FragmentsConserved
  <2>4. PassInvariant' /\ StuckInvariant' /\ DoneInvariant'
    BY <1>6, <2>1 DEF Emit, IInv, PassInvariant, StuckInvariant, DoneInvariant
  <2> QED
    BY <2>1, <2>2, <2>3, <2>4, EmittingStep DEF IInv
<1>7. ASSUME NEW el \in pass, ReadPastEnd(el) PROVE IInv'
  <2>1. Emitting(el) /\ UNCHANGED given
    BY <1>7 DEF ReadPastEnd
  <2>2. TypeOK'
    BY <1>7, <2>1, EmittingStep DEF ReadPastEnd, IInv, TypeOK, Ended
  <2>3. FragmentsConserved' /\ PassInvariant' /\ StuckInvariant' /\ DoneInvariant'
    BY <1>7 DEF ReadPastEnd, FragmentsConserved, PassInvariant, StuckInvariant,
       DoneInvariant
  <2> QED
    BY <2>1, <2>2, <2>3, EmittingStep DEF IInv
<1>8. ASSUME NEW el \in pass, IncompleteNamesake(el) PROVE IInv'
  BY <1>1, <1>8 DEF IncompleteNamesake, Visiting, IInv, TypeOK, Ended,
     FragmentsConserved, PassInvariant, StuckInvariant, DoneInvariant
<1>9. CASE UNCHANGED vars
  BY <1>1, <1>9 DEF vars, IInv, TypeOK, Ended, FragmentsConserved,
     PassInvariant, StuckInvariant, DoneInvariant
<1> QED
  BY <1>2, <1>3, <1>4, <1>5, <1>6, <1>7, <1>8, <1>9 DEF Next
-----------------------------------------------------------------------------
(* The inductive invariant, from which the results below follow.            *)
THEOREM Invariance == Spec => []IInv
  BY InitIInv, NextIInv, PTL DEF Spec

(* The containers, the pass and the control state stay well formed.         *)
THEOREM TypeCorrect == Spec => []TypeOK
  BY Invariance, PTL DEF IInv

(* No fragment is emitted before everything it depends on.                  *)
THEOREM OrderRespected == Spec => []DependenciesFirst
  BY Invariance, PTL DEF IInv

(* No fragment is lost between the passes or emitted twice.                 *)
THEOREM NothingLost == Spec => []FragmentsConserved
  BY Invariance, PTL DEF IInv

(* The erasure by identity never misses a constraint on a type-equal DIE.   *)
THEOREM ErasureExact == Spec => []ConstraintsExact
  BY Invariance, PTL DEF IInv

(* No two complete types of one name are both defined in the output.        *)
THEOREM NamesDefinedOnce == Spec => []OneDefinitionPerName
  BY Invariance, PTL DEF IInv

(* Nothing is suppressed but for a complete namesake in the output.         *)
THEOREM SuppressionJustified == Spec => []SuppressedHasNamesake
  BY Invariance, PTL DEF IInv

(* "lack of progress" is only reported of constraints with a cycle.         *)
LEMMA StuckHasCycle == IInv => StuckOnlyOnCycle
<1> SUFFICES ASSUME IInv, status = "stuck",
                    NEW p \in m_output_fragments
             PROVE  \E c \in given.constraints :
                      c[1] = p /\ KeyOf(c[2]) \in Keys(m_output_fragments)
  BY DEF IInv, StuckInvariant, StuckOnlyOnCycle
<1>1. p \in given.fragments /\ ~all_sat(p)
  BY DEF IInv, TypeOK, StuckInvariant
<1>2. PICK c \in given.constraints : c[1] = p /\ KeyOf(c[2]) \notin Keys(emitted)
  BY <1>1, BlockedBy DEF IInv, TypeOK
<1>3. KeyOf(c[2]) \in Keys(given.fragments)
  BY DEF IInv, TypeOK, WriterInput
<1>4. Keys(given.fragments) = Keys(emitted) \cup Keys(m_output_fragments)
  BY DEF IInv, FragmentsConserved, Keys
<1> QED
  BY <1>2, <1>3, <1>4

THEOREM StuckMeansCycle == Spec => []StuckOnlyOnCycle
  BY Invariance, StuckHasCycle, PTL

(* Constraints without a cycle are always put in order: the passes in key   *)
(* order never paint themselves into a corner.                              *)
THEOREM AcyclicIsOrdered == Spec => []AcyclicNeverStuck
<1>1. IInv => AcyclicNeverStuck
  <2> SUFFICES ASSUME IInv, AcyclicInput(given), status = "stuck" PROVE FALSE
    BY DEF AcyclicNeverStuck
  <2>1. /\ m_output_fragments \in SUBSET given.fragments
        /\ m_output_fragments # {}
    BY DEF IInv, TypeOK, StuckInvariant
  <2>2. PICK p \in m_output_fragments :
               \A c \in given.constraints :
                 c[1] = p => KeyOf(c[2]) \notin Keys(m_output_fragments)
    BY <2>1 DEF AcyclicInput
  <2> QED
    BY <2>2, StuckHasCycle DEF StuckOnlyOnCycle
<1> QED
  BY <1>1, Invariance, PTL
-----------------------------------------------------------------------------
(* The writer implements TopologicalEmission, keys for nodes: an emission   *)
(* is an Emit of the abstract specification, the return a Complete, the     *)
(* abort a GiveUp, and starting, deferring and the failures are stutters.   *)

(* A fragment whose key is ready has no constraint left that blocks it, and *)
(* one that is blocked is not ready.                                        *)
LEMMA ReadyIsAllSat ==
  ASSUME IInv, NEW p \in given.fragments
  PROVE  Abstract!Ready(KeyOf(p)) <=> all_sat(p)
<1>1. ASSUME all_sat(p), NEW e \in KeyGraph(given).edges, e[1] = KeyOf(p)
      PROVE  e[2] \in Keys(emitted)
  <2>1. PICK c \in given.constraints : e = <<KeyOf(c[1]), KeyOf(c[2])>>
    BY DEF KeyGraph
  <2>2. c[1] \in given.fragments
    BY DEF IInv, TypeOK, WriterInput
  <2> QED
    BY <1>1, <2>1, <2>2 DEF IInv, ConstraintsExact, all_sat
<1>2. ASSUME ~all_sat(p) PROVE ~Abstract!Ready(KeyOf(p))
  <2>1. PICK c \in given.constraints : c[1] = p /\ KeyOf(c[2]) \notin Keys(emitted)
    BY <1>2, BlockedBy DEF IInv, TypeOK
  <2>2. <<KeyOf(c[1]), KeyOf(c[2])>> \in KeyGraph(given).edges
    BY DEF KeyGraph
  <2> QED
    BY <2>1, <2>2 DEF Abstract!Ready
<1> QED
  BY <1>1, <1>2 DEF Abstract!Ready

(* Different fragments have different keys, so what is left as fragments is *)
(* what is left as keys.                                                    *)
LEMMA RemainingKeys ==
  ASSUME IInv, status # "undefined"
  PROVE  KeyGraph(given).nodes \ Keys(emitted) = Keys(m_output_fragments)
<1>1. /\ emitted \cup m_output_fragments = given.fragments
      /\ emitted \cap m_output_fragments = {}
  BY DEF IInv, FragmentsConserved
<1>2. \A p, q \in given.fragments : KeyOf(p) = KeyOf(q) => p = q
  BY DEF IInv, TypeOK, WriterInput, OnePerKey
<1>3. KeyGraph(given).nodes = {KeyOf(p) : p \in given.fragments}
  BY DEF KeyGraph, Keys
<1>4. Keys(m_output_fragments) \cap Keys(emitted) = {}
  BY <1>1, <1>2 DEF Keys
<1>5. KeyGraph(given).nodes = Keys(m_output_fragments) \cup Keys(emitted)
  BY <1>1, <1>3 DEF Keys
<1> QED
  BY <1>4, <1>5

LEMMA AbstractInit == Init => Abstract!Init
<1> SUFFICES ASSUME Init PROVE Abstract!Init
  OBVIOUS
<1>1. WriterInput(given)
  BY InputsAssumption DEF Init
<1>2. \A p \in Pair : KeyOf(p) \in emit_kind \X Nat
  BY TypeRankAssumption DEF Pair, KeyOf
<1>3. KeyGraph(given).nodes \in SUBSET (emit_kind \X Nat)
  BY <1>1, <1>2 DEF WriterInput, KeyGraph, Keys
<1>4. KeyGraph(given).edges \in SUBSET ((emit_kind \X Nat) \X (emit_kind \X Nat))
  <2> SUFFICES ASSUME NEW c \in given.constraints
               PROVE  KeyOf(c[1]) \in emit_kind \X Nat /\ KeyOf(c[2]) \in emit_kind \X Nat
    BY DEF KeyGraph
  <2>1. c[1] \in Pair /\ c[2] \in Pair
    BY <1>1 DEF WriterInput
  <2> QED
    BY <1>2, <2>1
<1>5. KeyGraph(given) \in [nodes : SUBSET (emit_kind \X Nat),
                           edges : SUBSET ((emit_kind \X Nat) \X (emit_kind \X Nat))]
  BY <1>3, <1>4 DEF KeyGraph
<1>6. Keys(emitted) = {} /\ Result = "emitting"
  BY DEF Init, Keys, Result
<1> QED
  BY <1>5, <1>6 DEF Abstract!Init

LEMMA AbstractEmission ==
  ASSUME IInv, NEW el \in pass, Emitting(el), UNCHANGED given,
         Result' = "emitting"
  PROVE  Abstract!Next
<1>1. el \in m_output_fragments /\ el \in given.fragments /\ status = "in pass"
  BY EmittingStep DEF Emitting, Visiting
<1>2. KeyOf(el) \in KeyGraph(given).nodes \ Keys(emitted)
  BY <1>1, RemainingKeys DEF Keys
<1>3. Abstract!Ready(KeyOf(el))
  BY <1>1, ReadyIsAllSat DEF Emitting
<1>4. Keys(emitted') = Keys(emitted) \cup {KeyOf(el)}
  BY KeysAdd DEF Emitting
<1>5. Result = "emitting"
  BY <1>1 DEF Result
<1>6. Keys(emitted)' = Keys(emitted) \cup {KeyOf(el)}
  BY <1>4
<1>7. KeyGraph(given)' = KeyGraph(given)
  OBVIOUS
<1>8. Abstract!Emit(KeyOf(el))
  BY <1>3, <1>5, <1>6, <1>7 DEF Abstract!Emit
<1> QED
  BY <1>2, <1>8 DEF Abstract!Next

LEMMA AbstractStep == IInv /\ [Next]_vars => [Abstract!Next]_(Abstract!vars)
<1> SUFFICES ASSUME IInv, [Next]_vars PROVE [Abstract!Next]_(Abstract!vars)
  OBVIOUS
<1> DEFINE Same == /\ KeyGraph(given)' = KeyGraph(given)
                   /\ Keys(emitted)' = Keys(emitted)
<1>1. ASSUME UNCHANGED <<given, emitted>>
      PROVE  Same
  BY <1>1
<1>2. ASSUME Same, Result' = Result PROVE UNCHANGED Abstract!vars
  BY <1>2 DEF Abstract!vars
<1>3. CASE BeginPass
  BY <1>1, <1>2, <1>3 DEF BeginPass, Result
<1>4. CASE Return
  <2>1. KeyGraph(given).nodes = Keys(emitted)
    BY <1>4 DEF Return, IInv, FragmentsConserved, KeyGraph
  <2> QED
    BY <1>1, <1>4, <2>1 DEF Return, Result, Abstract!Complete, Abstract!Next
<1>5. CASE EndPass /\ removed_one
  BY <1>1, <1>2, <1>5 DEF EndPass, Result
<1>6. CASE EndPass /\ ~removed_one
  <2>1. /\ status = "in pass"
        /\ m_output_fragments # {}
        /\ \A p \in m_output_fragments : ~all_sat(p) /\ p \in given.fragments
    BY <1>6 DEF EndPass, IInv, PassInvariant, TypeOK
  <2>2. KeyGraph(given).nodes \ Keys(emitted) = Keys(m_output_fragments)
    BY <2>1, RemainingKeys
  <2>3. \A n \in Keys(m_output_fragments) : ~Abstract!Ready(n)
    BY <2>1, ReadyIsAllSat DEF Keys
  <2>4. Keys(m_output_fragments) # {}
    BY <2>1 DEF Keys
  <2>5. Result = "emitting" /\ Result' = "stuck"
    BY <1>6, <2>1 DEF EndPass, Result
  <2>6. Same
    BY <1>1, <1>6 DEF EndPass
  <2>7. Abstract!GiveUp
    BY <2>2, <2>3, <2>4, <2>5, <2>6 DEF Abstract!GiveUp
  <2> QED
    BY <2>7 DEF Abstract!Next
<1>7. ASSUME NEW el \in pass, Defer(el) PROVE UNCHANGED Abstract!vars
  BY <1>1, <1>2, <1>7 DEF Defer, Result
<1>8. ASSUME NEW el \in pass, Emit(el) PROVE Abstract!Next
  <2>1. Emitting(el) /\ UNCHANGED given /\ Result' = "emitting"
    BY <1>8 DEF Emit, Emitting, Visiting, Result
  <2> QED
    BY <2>1, AbstractEmission
<1>9. ASSUME NEW el \in pass, ReadPastEnd(el) PROVE Abstract!Next
  <2>1. Emitting(el) /\ UNCHANGED given /\ Result' = "emitting"
    BY <1>9 DEF ReadPastEnd, Result
  <2> QED
    BY <2>1, AbstractEmission
<1>10. ASSUME NEW el \in pass, IncompleteNamesake(el) PROVE UNCHANGED Abstract!vars
  BY <1>1, <1>2, <1>10 DEF IncompleteNamesake, Visiting, Result
<1>11. CASE UNCHANGED vars
  BY <1>1, <1>2, <1>11 DEF vars, Result
<1> QED
  BY <1>3, <1>4, <1>5, <1>6, <1>7, <1>8, <1>9, <1>10, <1>11 DEF Next

(* Whatever the names and types do to the text, keys are emitted in an      *)
(* order of their constraints, all of them or up to a cycle.                *)
THEOREM ImplementsTopologicalEmission == Spec => EmitsInDependencyOrder
  BY Invariance, AbstractInit, AbstractStep, PTL
     DEF Spec, Abstract!Spec, EmitsInDependencyOrder
=============================================================================
