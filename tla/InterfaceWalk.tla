--------------------------- MODULE InterfaceWalk ---------------------------
(***************************************************************************)
(* gather_interface_dies: of the DIEs at the top of a DWARF tree those the *)
(* client's predicate selects, and the types they are made of.             *)
(* my_walk_type walks the types depth first; its activations are a stack.  *)
(* Types go into dedup_types_out, a set under type equality, through the   *)
(* pre-visit function, which also says whether to walk on.                 *)
(***************************************************************************)
EXTENDS Naturals, Sequences, SequencesExt, FiniteSets

CONSTANTS Roots,      \* the DIE trees
          Die,
          Void,       \* the null iterator
          Variable,   \* the DIEs that are variables
          Type        \* those that are types, subprograms included

(* What a walk from a type calls itself for: the type, or Void, and what    *)
(* the reason is: the type itself, an ordinary member or parameter, or the  *)
(* declaration of a static member.  A return type comes first, and its walk *)
(* starts with nothing on the way to it.                                    *)
Edge == [to : Type \cup {Void}, reason : {"type", "return", "component", "static member"}]
Root(r) ==
  /\ r.grandchildren \in Seq(Die)
  /\ r.pred \subseteq Die                       \* the DIEs the client wants
  /\ r.edges \in [Type -> Seq(Edge)]
  /\ r.get_type \in [Variable -> Type \cup {Void}]
  /\ r.equality_class \in [Type -> Nat]         \* equal for equal types

ASSUME DieAssumption == /\ Void \notin Die
                        /\ Variable \cup Type \subseteq Die
                        /\ Variable \cap Type = {}
ASSUME RootsAssumption == \A r \in Roots : Root(r)

VARIABLES root,
          i_d,        \* how many grandchildren the loop has come to
          out,
          types,      \* dedup_types_out
          stack,      \* the activations of my_walk_type
          status
vars == <<root, i_d, out, types, stack, status>>

Init == /\ root \in Roots
        /\ i_d = 0
        /\ out = {}
        /\ types = {}
        /\ stack = <<>>
        /\ status = "gathering"

Class(t) == root.equality_class[t]
(* Mutant: find() by identity.                                              *)
Has_identical(S, t) == t \in S

Has(S, t) == \E s \in S : Class(s) = Class(t)    \* find() in a type_set

Walk(t, reason, currently_walking) ==
  [t |-> t, reason |-> reason, currently_walking |-> currently_walking,
   at |-> "entered", next |-> 1]
-----------------------------------------------------------------------------
(* The loop over the grandchildren: those selected go to out, and a walk    *)
(* starts from a variable's type, or from a type.                           *)
NextGrandchild ==
  LET d == root.grandchildren[i_d + 1]
  IN  /\ status = "gathering"
      /\ stack = <<>>
      /\ i_d < Len(root.grandchildren)
      /\ i_d' = i_d + 1
      /\ out' = IF d \in root.pred THEN out \cup {d} ELSE out
      /\ stack' = CASE d \in root.pred \cap Variable -> <<Walk(root.get_type[d], "root", {})>>
                    [] d \in root.pred \cap Type -> <<Walk(d, "root", {})>>
                    [] OTHER -> <<>>
      /\ UNCHANGED <<root, types, status>>

frame == Last(stack)
(* Mutants: the caller's loop advances twice, or not at all.                *)
Pop_twice == LET callers == Front(stack)
             IN  stack' = IF callers = <<>> THEN <<>>
                          ELSE Front(callers) \o <<[Last(callers) EXCEPT !.next = @ + 2]>>

Pop_again == stack' = Front(stack)

Pop == LET callers == Front(stack)
       IN  stack' = IF callers = <<>> THEN <<>>
                    ELSE Front(callers) \o <<[Last(callers) EXCEPT !.next = @ + 1]>>

(* A "grey node".                                                           *)
OnTheWay(w) == w.t # Void /\ Has(w.currently_walking, w.t)
Grey == /\ stack # <<>>
        /\ frame.at = "entered"
        /\ OnTheWay(frame)
        /\ Pop
        /\ UNCHANGED <<root, i_d, out, types, status>>

(* Mutants: always walk on from a type; static members are like others.     *)
pre_f_always(w) == w.t # Void /\ w.reason # "static member"
pre_f_static(w) == w.t # Void /\ ~Has(types, w.t)

(* The pre-visit, true to walk on: void and the types of static members are *)
(* left out, types there is an equal of in the set are not walked again.    *)
pre_f(w) == w.t # Void /\ w.reason # "static member" /\ ~Has(types, w.t)

(* Mutant: types are inserted before static members are left out.           *)
PreVisitStops_inserts == /\ stack # <<>>
                         /\ frame.at = "entered"
                         /\ ~OnTheWay(frame)
                         /\ ~pre_f(frame)
                         /\ Pop
                         /\ types' = types \cup
                              {t \in {frame.t} : t # Void /\ ~Has(types, t)}
                         /\ UNCHANGED <<root, i_d, out, status>>

PreVisitStops == /\ stack # <<>>
                 /\ frame.at = "entered"
                 /\ ~OnTheWay(frame)
                 /\ ~pre_f(frame)
                 /\ Pop
                 /\ UNCHANGED <<root, i_d, out, types, status>>

PreVisit == /\ stack # <<>>
            /\ frame.at = "entered"
            /\ ~OnTheWay(frame)
            /\ pre_f(frame)
            /\ types' = types \cup {frame.t}
            /\ stack' = Front(stack) \o <<[frame EXCEPT !.at = "walking"]>>
            /\ UNCHANGED <<root, i_d, out, status>>

edges == root.edges[frame.t]

(* The call for the return type leaves next_currently_walking out.          *)
Recurse ==
  LET e == edges[frame.next]
      next_currently_walking == IF e.reason = "return" THEN {}
                                ELSE frame.currently_walking \cup {frame.t}
  IN  /\ stack # <<>>
      /\ frame.at = "walking"
      /\ frame.next <= Len(edges)
      /\ stack' = Append(stack, Walk(e.to, e.reason, next_currently_walking))
      /\ UNCHANGED <<root, i_d, out, types, status>>

Leave == /\ stack # <<>>
         /\ frame.at = "walking"
         /\ frame.next > Len(edges)
         /\ Pop
         /\ UNCHANGED <<root, i_d, out, types, status>>

(* Everything in types goes to out, and what is in out must be in types.    *)
Finish == /\ status = "gathering"
          /\ stack = <<>>
          /\ i_d = Len(root.grandchildren)
          /\ out' = out \cup types
          /\ status' = "done"
          /\ UNCHANGED <<root, i_d, types, stack>>

Next == \/ NextGrandchild \/ Grey \/ PreVisitStops \/ PreVisit
        \/ Recurse \/ Leave \/ Finish

Spec == Init /\ [][Next]_vars
(* One thread runs the call to its end: a step that is enabled is taken.    *)
FairSpec == Spec /\ WF_vars(Next)
-----------------------------------------------------------------------------
Activation == [t : Type \cup {Void},
               reason : {"root", "type", "return", "component", "static member"},
               currently_walking : SUBSET Type, at : {"entered", "walking"}, next : Nat]
TypeOK ==
  /\ Root(root)
  /\ i_d \in 0..Len(root.grandchildren)
  /\ out \subseteq Die
  /\ types \subseteq Type
  /\ stack \in Seq(Activation)
  /\ \A i \in DOMAIN stack :
       LET w == stack[i]
       IN  /\ w.currently_walking \subseteq types
           /\ w.at = "walking" => w.t \in types /\ w.next \in 1..(Len(root.edges[w.t]) + 1)
           /\ i < Len(stack) => w.at = "walking" /\ w.next <= Len(root.edges[w.t])
  /\ status \in {"gathering", "done"}

(* The dedup set has one of each class of equal types, from whichever DIE   *)
(* it was come to first.                                                    *)
OneOfEachType == \A s, t \in types : Class(s) = Class(t) => s = t

(* No type is walked within its own walk, not even by way of a return type, *)
(* where the set of grey nodes is lost.                                     *)
NoTypeWithinItself ==
  \A i, j \in DOMAIN stack :
    /\ i # j
    /\ stack[i].at = "walking" /\ stack[j].at = "walking"
    => Class(stack[i].t) # Class(stack[j].t)

(* The set closes as the walk goes: what a gathered type is made of is      *)
(* gathered too, or the type's walk has yet to come to it.  A type first    *)
(* come to as a static member's is not lost to the members that need it.    *)
Followed(e) == e.to # Void /\ e.reason # "static member"
Closing ==
  \A t \in types : \A k \in DOMAIN root.edges[t] :
    Followed(root.edges[t][k]) =>
      \/ Has(types, root.edges[t][k].to)
      \/ \E w \in Range(stack) : w.t = t /\ w.at = "walking" /\ w.next <= k

(* The types gathered are those that the selected variables and types are   *)
(* made of: an equal of each root is there, an equal of whatever a gathered *)
(* type is made of, and nothing that some closed set of types could spare.  *)
Selected == Range(root.grandchildren) \cap root.pred
RootTypes == (Selected \cap Type)
               \cup ({root.get_type[v] : v \in Selected \cap Variable} \ {Void})
MadeOf(t) == {e.to : e \in {f \in Range(root.edges[t]) : Followed(f)}}
HoldsItsParts(S) == RootTypes \subseteq S /\ \A t \in S : MadeOf(t) \subseteq S
GathersReachable ==
  status = "done" =>
    /\ \A t \in RootTypes : Has(types, t)
    /\ \A t \in types : \A u \in MadeOf(t) : Has(types, u)
    /\ \A S \in SUBSET Type : HoldsItsParts(S) => types \subseteq S

(* The walk of a finite tree ends, whatever cycles its types have.          *)
Terminates == <>(status = "done")
=============================================================================
