------------------------- MODULE DependencyClosure -------------------------
(***************************************************************************)
(* dependency_ordering_cxx_target::transitively_close with maybe_get_name, *)
(* add_order_constraint and maybe_add_to_worklist.  The pairs the client   *)
(* asked for go on a worklist; for each one the generator (decl_of_die or  *)
(* defn_of_die) is run, and every name it asks for on the way is recorded  *)
(* as a constraint of the pair it is working on, known to it only as       *)
(* current_pair_transitively_closing_from, and put on the worklist.  Every *)
(* pair has its fragment when the worklist is empty.                       *)
(*                                                                         *)
(* The generator is a parameter: for each pair, the sequence of references *)
(* it asks maybe_get_name for.  A step is one such call.                   *)
(***************************************************************************)
EXTENDS EmitKeys, Sequences, Functions

CONSTANTS Jobs,          \* the [to_output, requests, aborts] a target may be given
          Void,          \* the null iterator, which is type void
          TypeDie,       \* the DIEs that are type_dies
          ConcreteType,  \* get_concrete_type() of a type, Void for one of void
          CxxName,       \* maybe_get_name(d, DEFINING), or NoName
          NoName

ref_kind == {"NORMAL", "TYPE_MUST_BE_COMPLETE", "DEFINING"}
Request == [die : Die, kind : ref_kind]

ClosureJob(job) ==
  /\ job.to_output \subseteq Pair
  /\ OnePerKey(job.to_output)
  /\ job.requests \in [Pair -> Seq(Request)]  \* what generating a pair asks for
  /\ job.aborts \subseteq Pair                \* the pairs the generator aborts on

ASSUME JobsAssumption == \A job \in Jobs : ClosureJob(job)
ASSUME DieAssumption == /\ Void \in Die
                        /\ TypeDie \subseteq Die \ {Void}
                        /\ ConcreteType \in [TypeDie -> Die]
                        /\ CxxName[Void] = NoName

VARIABLES given_job,
          to_add,           \* the elements of m_to_output not yet offered
          output_expanded,
          worklist,
          current_pair_transitively_closing_from,
          asked,            \* how many references the running generator has asked for
          m_order_constraints,
          m_output_fragments,
          phase             \* where control is, or how the call ended

vars == <<given_job, to_add, output_expanded, worklist,
          current_pair_transitively_closing_from, asked, m_order_constraints,
          m_output_fragments, phase>>

current == current_pair_transitively_closing_from

Init == /\ given_job \in Jobs
        /\ to_add = given_job.to_output
        /\ output_expanded = {}
        /\ worklist = <<>>
        /\ current_pair_transitively_closing_from = Decl(Void)
        /\ asked = 0
        /\ m_order_constraints = {}
        /\ m_output_fragments = {}
        /\ phase = "adding"
-----------------------------------------------------------------------------
(* Mutant: output_expanded is searched by identity.                         *)
maybe_add_to_worklist_identical(el) ==
  IF el \in output_expanded
  THEN UNCHANGED <<output_expanded, worklist>>
  ELSE /\ output_expanded' = output_expanded \cup {el}
       /\ worklist' = Append(worklist, el)

maybe_add_to_worklist(el) ==
  IF KeyOf(el) \in Keys(output_expanded)
  THEN UNCHANGED <<output_expanded, worklist>>
  ELSE /\ output_expanded' = output_expanded \cup {el}
       /\ worklist' = Append(worklist, el)

(* Pre-population: what the client asked for, in the order of its set.      *)
AddOutput(el) ==
  /\ phase = "adding"
  /\ IsFirst(el, to_add)
  /\ to_add' = to_add \ {el}
  /\ maybe_add_to_worklist(el)
  /\ UNCHANGED <<given_job, current_pair_transitively_closing_from, asked,
                 m_order_constraints, m_output_fragments, phase>>

(* Mutant: the pair is erased before it is generated.                       *)
BeginFragment_erases ==
  /\ \/ phase = "adding" /\ to_add = {}
     \/ phase = "closing"
  /\ worklist # <<>>
  /\ current_pair_transitively_closing_from' = Head(worklist)
  /\ asked' = 0
  /\ phase' = "generating"
  /\ worklist' = Tail(worklist)
  /\ UNCHANGED <<given_job, to_add, output_expanded,
                 m_order_constraints, m_output_fragments>>

(* Take the next pair, which stays on the list while it is generated.       *)
BeginFragment ==
  /\ \/ phase = "adding" /\ to_add = {}
     \/ phase = "closing"
  /\ worklist # <<>>
  /\ current_pair_transitively_closing_from' = Head(worklist)
  /\ asked' = 0
  /\ phase' = "generating"
  /\ UNCHANGED <<given_job, to_add, output_expanded, worklist,
                 m_order_constraints, m_output_fragments>>

requests == given_job.requests[current]
request == requests[asked + 1]

Asks(kind) == /\ phase = "generating"
              /\ asked < Len(requests)
              /\ request.kind = kind
              /\ asked' = asked + 1

Unchanged_maybe_get_name ==
  UNCHANGED <<given_job, to_add, current_pair_transitively_closing_from,
              m_output_fragments>>

(* The name of a definition, or of something that gets none: no dependency. *)
NameOnly ==
  /\ \/ Asks("DEFINING")
     \/ \E kind \in {"NORMAL", "TYPE_MUST_BE_COMPLETE"} :
          Asks(kind) /\ CxxName[request.die] = NoName
  /\ UNCHANGED <<output_expanded, worklist, m_order_constraints, phase>>
  /\ Unchanged_maybe_get_name

(* Mutants: a dependency is recorded only with its first reference; it is   *)
(* recorded and not put on the worklist; it is put there and not recorded.  *)
NameNormal_first_only ==
  LET d == request.die
  IN  /\ Asks("NORMAL")
      /\ CxxName[d] # NoName
      /\ m_order_constraints' = m_order_constraints \cup
           {c \in {<<current, Decl(d)>>} : KeyOf(Decl(d)) \notin Keys(output_expanded)}
      /\ maybe_add_to_worklist(Decl(d))
      /\ UNCHANGED phase
      /\ Unchanged_maybe_get_name
NameNormal_unexpanded ==
  LET d == request.die
  IN  /\ Asks("NORMAL")
      /\ CxxName[d] # NoName
      /\ m_order_constraints' = m_order_constraints \cup {<<current, Decl(d)>>}
      /\ UNCHANGED <<output_expanded, worklist, phase>>
      /\ Unchanged_maybe_get_name
NameNormal_unrecorded ==
  LET d == request.die
  IN  /\ Asks("NORMAL")
      /\ CxxName[d] # NoName
      /\ maybe_add_to_worklist(Decl(d))
      /\ UNCHANGED <<m_order_constraints, phase>>
      /\ Unchanged_maybe_get_name

(* A reference by name: its declaration comes before the current pair.      *)
NameNormal ==
  LET d == request.die
  IN  /\ Asks("NORMAL")
      /\ CxxName[d] # NoName
      /\ m_order_constraints' = m_order_constraints \cup {<<current, Decl(d)>>}
      /\ maybe_add_to_worklist(Decl(d))
      /\ UNCHANGED phase
      /\ Unchanged_maybe_get_name

(* Mutant: the definition is recorded and not put on the worklist.          *)
NameComplete_unexpanded ==
  LET d == request.die
  IN  /\ Asks("TYPE_MUST_BE_COMPLETE")
      /\ CxxName[d] # NoName
      /\ d \in TypeDie
      /\ ConcreteType[d] = d
      /\ m_order_constraints' = m_order_constraints \cup {<<current, Def(d)>>}
      /\ UNCHANGED <<output_expanded, worklist, phase>>
      /\ Unchanged_maybe_get_name

(* A concrete type that must be complete: its definition comes first.       *)
NameComplete ==
  LET d == request.die
  IN  /\ Asks("TYPE_MUST_BE_COMPLETE")
      /\ CxxName[d] # NoName
      /\ d \in TypeDie
      /\ ConcreteType[d] = d
      /\ m_order_constraints' = m_order_constraints \cup {<<current, Def(d)>>}
      /\ maybe_add_to_worklist(Def(d))
      /\ UNCHANGED phase
      /\ Unchanged_maybe_get_name

(* Another type that must be complete, say a typedef: its declaration and   *)
(* the concrete type's definition come first.  Only the former is put on    *)
(* the worklist.                                                            *)
NameCompleteIndirect ==
  LET d == request.die
  IN  /\ Asks("TYPE_MUST_BE_COMPLETE")
      /\ CxxName[d] # NoName
      /\ d \in TypeDie
      /\ ConcreteType[d] # d
      /\ m_order_constraints' = m_order_constraints \cup
           {<<current, Decl(d)>>, <<current, Def(ConcreteType[d])>>}
      /\ maybe_add_to_worklist(Decl(d))
      /\ UNCHANGED phase
      /\ Unchanged_maybe_get_name

Aborting == /\ phase' = "aborted"
            /\ UNCHANGED <<given_job, to_add, output_expanded, worklist,
                           current_pair_transitively_closing_from,
                           m_order_constraints, m_output_fragments>>

(* Something that is no type cannot be complete.                            *)
NameCompleteOfNoType == /\ Asks("TYPE_MUST_BE_COMPLETE")
                        /\ CxxName[request.die] # NoName
                        /\ request.die \notin TypeDie
                        /\ Aborting

GeneratorAborts == /\ phase = "generating"
                   /\ asked = Len(requests)
                   /\ current \in given_job.aborts
                   /\ UNCHANGED asked
                   /\ Aborting

(* Mutant: the pair that was generated stays on the list.                   *)
EndFragment_keeps ==
  /\ phase = "generating"
  /\ asked = Len(requests)
  /\ current \notin given_job.aborts
  /\ m_output_fragments' = m_output_fragments \cup {current}
  /\ phase' = "closing"
  /\ UNCHANGED <<given_job, to_add, output_expanded, worklist,
                 current_pair_transitively_closing_from, asked,
                 m_order_constraints>>

(* The fragment is complete.  One of a C++ name there was before is only    *)
(* warned of.                                                               *)
EndFragment ==
  /\ phase = "generating"
  /\ asked = Len(requests)
  /\ current \notin given_job.aborts
  /\ m_output_fragments' = m_output_fragments \cup {current}
  /\ worklist' = Tail(worklist)
  /\ phase' = "closing"
  /\ UNCHANGED <<given_job, to_add, output_expanded,
                 current_pair_transitively_closing_from, asked,
                 m_order_constraints>>

(* "anything that's depended on must also be emissible"                     *)
Emissible == \A c \in m_order_constraints : KeyOf(c[2]) \in Keys(m_output_fragments)

(* Mutant: without the closing assertion.                                   *)
Return_unasserted ==
  /\ \/ phase = "adding" /\ to_add = {}
     \/ phase = "closing"
  /\ worklist = <<>>
  /\ phase' = "closed"
  /\ UNCHANGED <<given_job, to_add, output_expanded, worklist,
                 current_pair_transitively_closing_from, asked,
                 m_order_constraints, m_output_fragments>>

Return ==
  /\ \/ phase = "adding" /\ to_add = {}
     \/ phase = "closing"
  /\ worklist = <<>>
  /\ phase' = IF Emissible THEN "closed" ELSE "assertion failed"
  /\ UNCHANGED <<given_job, to_add, output_expanded, worklist,
                 current_pair_transitively_closing_from, asked,
                 m_order_constraints, m_output_fragments>>

Ended == {"closed", "assertion failed", "aborted"}

Next == \/ \E el \in to_add : AddOutput(el)
        \/ BeginFragment
        \/ NameOnly
        \/ NameNormal
        \/ NameComplete
        \/ NameCompleteIndirect
        \/ NameCompleteOfNoType
        \/ GeneratorAborts
        \/ EndFragment
        \/ Return

Spec == Init /\ [][Next]_vars
(* One thread runs the call to its end: a step that is enabled is taken.    *)
FairSpec == Spec /\ WF_vars(Next)
-----------------------------------------------------------------------------
TypeOK ==
  /\ ClosureJob(given_job)
  /\ to_add \subseteq given_job.to_output
  /\ output_expanded \subseteq Pair
  /\ worklist \in Seq(output_expanded)
  /\ current \in Pair
  /\ asked \in 0..Len(requests)
  /\ m_order_constraints \subseteq output_expanded \X Pair
  /\ m_output_fragments \subseteq output_expanded
  /\ phase \in {"adding", "closing", "generating"} \cup Ended
  /\ phase \in {"generating", "aborted"} => worklist # <<>> /\ current = Head(worklist)

(* What a request makes its pair depend on, and which of that is put on the *)
(* worklist.                                                                *)
Indirect(r) == /\ r.kind = "TYPE_MUST_BE_COMPLETE"
               /\ r.die \in TypeDie
               /\ ConcreteType[r.die] # r.die
DependsOn(r) ==
  LET d == r.die
  IN  CASE CxxName[d] = NoName \/ r.kind = "DEFINING" -> {}
        [] CxxName[d] # NoName /\ r.kind = "NORMAL" -> {Decl(d)}
        [] CxxName[d] # NoName /\ r.kind = "TYPE_MUST_BE_COMPLETE" ->
             IF d \notin TypeDie THEN {}
             ELSE {Def(ConcreteType[d])} \cup IF Indirect(r) THEN {Decl(d)} ELSE {}
Follows(r) == IF DependsOn(r) # {} /\ Indirect(r) THEN {Decl(r.die)} ELSE DependsOn(r)

(* The requests a pair's generation has made so far.                        *)
Made(p) ==
  LET all == given_job.requests[p]
  IN  IF p \in m_output_fragments THEN {all[i] : i \in 1..Len(all)}
      ELSE IF phase \in {"generating", "aborted"} /\ p = current
      THEN {all[i] : i \in 1..asked}
      ELSE {}

(* Every class of DIEs that is reached is generated once: it waits on the   *)
(* worklist once, or has its fragment, never both and never twice, however  *)
(* often and through whichever type-equal DIEs it is asked for.             *)
WorklistExact ==
  /\ OnePerKey(output_expanded)
  /\ output_expanded = Range(worklist) \cup m_output_fragments
  /\ Range(worklist) \cap m_output_fragments = {}
  /\ \A i, j \in DOMAIN worklist : worklist[i] = worklist[j] => i = j

(* The generator is told nothing of what it works for: every dependency it  *)
(* asks for is still booked on the pair that asked, none is missed and none *)
(* is booked on another.                                                    *)
ConstraintsExact ==
  m_order_constraints =
    {c \in output_expanded \X Pair : \E r \in Made(c[1]) : c[2] \in DependsOn(r)}

(* What is depended on and never put on the worklist is the definition      *)
(* behind a typedef or qualified type that had to be complete.              *)
OpenOnlyThroughTypedefs ==
  \A c \in m_order_constraints :
    \/ KeyOf(c[2]) \in Keys(output_expanded)
    \/ \E r \in Made(c[1]) : Indirect(r) /\ c[2] = Def(ConcreteType[r.die])

(* Closed, the fragments are a legal input of write_ordered_output: one for *)
(* each key, with constraints from and to fragments.                        *)
ClosedForWriter ==
  phase = "closed" =>
    /\ OnePerKey(m_output_fragments)
    /\ Keys(given_job.to_output) \subseteq Keys(m_output_fragments)
    /\ m_order_constraints \subseteq m_output_fragments \X Pair
    /\ \A c \in m_order_constraints : KeyOf(c[2]) \in Keys(m_output_fragments)

(* A finite set of DIEs is closed in finitely many steps, cycles included.  *)
Terminates == <>(phase \in Ended)

(* The references of finished fragments that were put on the worklist.      *)
Followed == {c \in m_output_fragments \X Pair :
               \E r \in Made(c[1]) : c[2] \in Follows(r)}

Result == IF phase \in {"closed", "assertion failed"} THEN "closed" ELSE "open"

(* The worklist generates what is reachable from the pairs asked for.       *)
Abstract == INSTANCE ReferenceClosure
  WITH roots <- Keys(given_job.to_output),
       generated <- Keys(m_output_fragments),
       refs <- {<<KeyOf(c[1]), KeyOf(c[2])>> : c \in Followed},
       result <- Result
GeneratesReachable == Abstract!Spec
=============================================================================
