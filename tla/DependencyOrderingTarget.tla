----------------------- MODULE DependencyOrderingTarget -----------------------
(***************************************************************************)
(* dependency_ordering_cxx_target as its client uses it: constructed with  *)
(* the pairs to output, transitively_close, then write_ordered_output.     *)
(* The generator that transitively_close runs is the one of CxxModel, over *)
(* a DIE graph; the two calls share m_output_fragments and                 *)
(* m_order_constraints, which the second one consumes.                     *)
(***************************************************************************)
EXTENDS CxxModel, FiniteSets

CONSTANTS DieGraphs,     \* the DIE graphs the client may be working on
          Outputs,       \* the sets of pairs it may ask for
          CxxName,       \* maybe_get_name(d, DEFINING), or NoName
          NameHere,      \* name_here(), or NoName
          SummaryCode,   \* summary_code(), or NoCode
          TypeDie, ConcreteType, NoName, NoCode

VARIABLES dies,          \* the DIE graph
          given_job, to_add, output_expanded, worklist,
          current_pair_transitively_closing_from, asked,
          phase,
          m_output_fragments, m_order_constraints,
          given, emitted, written, type_definitions_generated_by_name,
          pass, removed_one, status

closing == <<given_job, to_add, output_expanded, worklist,
             current_pair_transitively_closing_from, asked,
             phase>>
writing == <<given, emitted, written, type_definitions_generated_by_name,
             pass, removed_one, status>>
vars == <<dies, closing, m_output_fragments, m_order_constraints, writing>>

Closure == INSTANCE DependencyClosure WITH Jobs <- {}
Writer == INSTANCE OrderedOutput WITH Inputs <- {}

ASSUME DieGraphsAssumption ==
  \A g \in DieGraphs :
    /\ DieGraph(g)
    /\ \A d \in Die : (CxxName[d] # NoName) = HasName(g, d)
ASSUME DieAssumption == /\ TypeDie \subseteq Die \ {Void}
                        /\ ConcreteType \in [TypeDie -> Die]
                        /\ CxxName[Void] = NoName
(* Equal types are spelled with equal types.                                *)
Alike(D) == {TypeRank[d] : d \in D}
ASSUME EqualTypesAssumption ==
  \A g \in DieGraphs : \A d, e \in Die :
    TypeRank[d] = TypeRank[e] => Alike(Spelling(g, d)) = Alike(Spelling(g, e))
ASSUME OutputsAssumption ==
  \A out \in Outputs : out \subseteq Pair /\ OnePerKey(out)

JobOf(g, out) == [to_output |-> out,
                  requests  |-> [p \in Pair |-> Requests(g, p)],
                  aborts    |-> {p \in Pair : Aborts(g, p)}]

(* The constructor, and the call of transitively_close.                     *)
Init == /\ dies \in DieGraphs
        /\ \E out \in Outputs : given_job = JobOf(dies, out)
        /\ to_add = given_job.to_output
        /\ output_expanded = {}
        /\ worklist = <<>>
        /\ current_pair_transitively_closing_from = Decl(Void)
        /\ asked = 0
        /\ phase = "adding"
        /\ m_output_fragments = {}
        /\ m_order_constraints = {}
        /\ given = [fragments |-> {}, constraints |-> {}]
        /\ emitted = {}
        /\ written = {}
        /\ type_definitions_generated_by_name = {}
        /\ pass = {}
        /\ removed_one = FALSE
        /\ status = "not called"

transitively_close == Closure!Next /\ UNCHANGED <<dies, writing>>

(* The client calls write_ordered_output once the closure returned.         *)
CallWriter == /\ phase = "closed"
              /\ status = "not called"
              /\ given' = [fragments   |-> m_output_fragments,
                           constraints |-> m_order_constraints]
              /\ status' = "between passes"
              /\ UNCHANGED <<dies, closing, m_output_fragments, m_order_constraints,
                             emitted, written, type_definitions_generated_by_name,
                             pass, removed_one>>

write_ordered_output == Writer!Next /\ UNCHANGED <<dies, closing>>

Next == transitively_close \/ CallWriter \/ write_ordered_output

Spec == Init /\ [][Next]_vars
FairSpec == Spec /\ WF_vars(Next)
-----------------------------------------------------------------------------
(* What the writer assumes of its input is what the closure leaves it,      *)
(* whichever generator ran: one fragment for each class of type-equal DIEs, *)
(* and constraints between fragments there are.                             *)
WriterGetsLegalInput == status # "not called" => Writer!WriterInput(given)

(* From the client's request to the output: a pair is emitted only after a  *)
(* fragment for all that its generation depended on, whatever was recorded, *)
(* erased or deduplicated on the way; done, all the client asked for has    *)
(* been emitted.                                                            *)
DependsOn(p) == UNION {Closure!DependsOn(r) : r \in Range(Requests(dies, p))}
OutputInDependencyOrder ==
  /\ \A p \in emitted : \A t \in DependsOn(p) : KeyOf(t) \in Keys(emitted)
  /\ status = "done" => Keys(given_job.to_output) \subseteq Keys(emitted)

(* A reference is the name of a DIE in the text of a fragment.              *)
References(p) == {r.die : r \in {q \in Range(Requests(dies, p)) :
                                   q.kind = "NORMAL" /\ HasName(dies, q.die)}}

(* Each name a written fragment uses is one that a fragment written no      *)
(* later introduces, over the two calls: the reference is recorded on the   *)
(* right pair, its pair is generated, put before this one, and not left out *)
(* as a duplicate of something with another name.                           *)
NamesDeclaredBeforeUse ==
  \A p \in written : \A d \in References(p) :
    \E q \in written : CxxName[q.die] = CxxName[d]

(* A declaration of an aggregate needs no names, so the recursion of types  *)
(* that C has, through tagged aggregates, never becomes a cycle of          *)
(* constraints: the passes do not run out of progress.                      *)
CNeverStuck == status # "stuck"
-----------------------------------------------------------------------------
(* What the source says of its output and the calls do not do.              *)

(* dependency_ordering_cxx_target.cpp:207 "'struct foo' and 'foo' don't     *)
(* conflict because the struct namespace can still disambiguate": what is   *)
(* left out has the C++ name of something that is not.                      *)
TagsAndTypedefsDontConflict ==
  \A p \in emitted \ written : \E q \in written : CxxName[q.die] = CxxName[p.die]
=============================================================================
