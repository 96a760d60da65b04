----------------------------- MODULE CreateDies -----------------------------
(***************************************************************************)
(* dwarfidl::create_dies: DIEs made from the syntax tree of a dwarfidl     *)
(* text.  create_one_die_with_children calls itself for the DIEs written   *)
(* inline as attribute values and for the children; here its activations   *)
(* are a stack.  A DIE whose attributes name something that cannot be      *)
(* resolved is postponed: its tree is gone through again in a later pass.  *)
(*                                                                         *)
(* A DIE is its position in `dies', in the order of making.                *)
(***************************************************************************)
EXTENDS Integers, Sequences, SequencesExt, FiniteSets

CONSTANTS Texts,     \* the syntax trees, and whether they are put under a CU
          Node,      \* the DIE nodes of syntax trees
          NoNode,    \* the dummy compilation unit's
          Name, NoName

ASSUME NoNodeAssumption == NoNode \notin Node

Given == 0           \* the caller's parent
END == -1            \* iterator_base::END

Value == [kind : {"ident"}, to : Name] \cup [kind : {"die"}, to : Node]
Subtrees(t, n) == {t.children[n][i] : i \in DOMAIN t.children[n]}
                    \cup {v.to : v \in {u \in Range(t.attrs[n]) : u.kind = "die"}}
Text(t) ==
  /\ t.top \in Seq(Node) \ {<<>>}
  /\ t.name \in [Node -> Name \cup {NoName}]
  /\ t.attrs \in [Node -> Seq(Value)]       \* the attributes but the name
  /\ t.children \in [Node -> Seq(Node)]
  /\ t.compile_unit \in SUBSET Node
  /\ t.under_cu \in BOOLEAN
  (* a tree: a node has one place *)
  /\ IsInjective(t.top)
  /\ \A n \in Node : Subtrees(t, n) \cap Range(t.top) = {}
  /\ \A m, n \in Node : m # n => Subtrees(t, m) \cap Subtrees(t, n) = {}

ASSUME TextsAssumption == \A t \in Texts : Text(t)

VARIABLES text, real_parent, dies,
          stack,     \* the activations of create_one_die_with_children
          todo,      \* what the pass has not come to yet: <<parent, node>>
          postpone,
          postponed_pass_n, old_size,
          status
vars == <<text, real_parent, dies, stack, todo, postpone, postponed_pass_n,
          old_size, status>>

Init == /\ text \in Texts
        /\ real_parent = Given
        /\ dies = <<>>
        /\ stack = <<>>
        /\ todo = <<>>
        /\ postpone = <<>>
        /\ postponed_pass_n = 0
        /\ old_size = 0
        /\ status = "called"

Entry(parent, node) == [parent |-> parent, node |-> node]
Complete(i) == /\ dies[i].node # NoNode
               /\ Len(dies[i].refs) = Len(text.attrs[dies[i].node])
-----------------------------------------------------------------------------
(* A dummy compilation unit goes between the parent and the DIEs, unless    *)
(* the tag looked at is compile_unit: the loop leaves it at the last one.   *)
top_tag_keyword == Last(text.top)

ChooseParent ==
  LET adds_cu == top_tag_keyword \notin text.compile_unit /\ ~text.under_cu
      parent  == IF adds_cu THEN 1 ELSE Given
  IN  /\ status = "called"
      /\ dies' = IF adds_cu THEN <<[node |-> NoNode, parent |-> Given, refs |-> <<>>]>> ELSE <<>>
      /\ real_parent' = parent
      /\ todo' = [i \in DOMAIN text.top |-> Entry(parent, text.top[i])]
      /\ status' = "creating"
      /\ UNCHANGED <<text, stack, postpone, postponed_pass_n, old_size>>

Activation(parent, node) == [parent |-> parent, node |-> node, at |-> "nested",
                             next |-> 1, nested |-> <<>>, created |-> END]

(* The next tree of the pass.  A postponed entry holds its parent by        *)
(* reference.  It is there for an entry of the first pass whose parent is   *)
(* create_dies' own variable.  A reference to the variable of the           *)
(* activation that made the parent, or to that of a postponed pass's loop,  *)
(* dangles: what is read is what the memory still holds, or anything.       *)
CreateNext == /\ status = "creating"
              /\ stack = <<>>
              /\ todo # <<>>
              /\ stack' = <<Activation(Head(todo).parent, Head(todo).node)>>
              /\ todo' = Tail(todo)
              /\ UNCHANGED <<text, real_parent, dies, postpone, postponed_pass_n,
                             old_size, status>>

Undefined == /\ status' = "undefined"
             /\ UNCHANGED <<text, real_parent, dies, stack, todo, postpone,
                            postponed_pass_n, old_size>>

ParentIsGone == /\ status = "creating"
                /\ stack = <<>>
                /\ todo # <<>>
                /\ Head(todo).parent # real_parent \/ postponed_pass_n > 1
                /\ Undefined
-----------------------------------------------------------------------------
(* create_one_die_with_children(frame.parent, frame.node)                   *)
frame == Last(stack)
attrs == text.attrs[frame.node]
children == text.children[frame.node]
Becomes(f) == stack' = Front(stack) \o <<f>>
Running(at) == status = "creating" /\ stack # <<>> /\ frame.at = at

(* The inline DIEs first, as siblings: find_or_create_die always creates.   *)
CreateNested == /\ Running("nested")
                /\ frame.next \in DOMAIN attrs
                /\ attrs[frame.next].kind = "die"
                /\ stack' = Append(stack, Activation(frame.parent, attrs[frame.next].to))
                /\ UNCHANGED <<text, real_parent, dies, todo, postpone,
                               postponed_pass_n, old_size, status>>

(* Mutant: the scan stays where it is.                                      *)
NotNested_stays == /\ Running("nested")
                   /\ frame.next \in DOMAIN attrs
                   /\ attrs[frame.next].kind # "die"
                   /\ UNCHANGED vars

NotNested == /\ Running("nested")
             /\ frame.next \in DOMAIN attrs
             /\ attrs[frame.next].kind # "die"
             /\ Becomes([frame EXCEPT !.next = @ + 1, !.nested = Append(@, END)])
             /\ UNCHANGED <<text, real_parent, dies, todo, postpone,
                            postponed_pass_n, old_size, status>>

(* make_new, and the name, which is first in the list where it is written   *)
(* before the brackets, as in all texts here, and needs no resolving.       *)
MakeNew == /\ Running("nested")
           /\ frame.next \notin DOMAIN attrs
           /\ dies' = Append(dies, [node |-> frame.node, parent |-> frame.parent, refs |-> <<>>])
           /\ Becomes([frame EXCEPT !.at = "attrs", !.next = 1, !.created = Len(dies) + 1])
           /\ UNCHANGED <<text, real_parent, todo, postpone, postponed_pass_n,
                          old_size, status>>

Called(name) == {i \in DOMAIN dies : /\ dies[i].node # NoNode
                                     /\ text.name[dies[i].node] = name}
First(positions) == CHOOSE i \in positions : \A j \in positions : i <= j

(* Mutants: the root stands for what is not found; only whole DIEs count.   *)
scoped_resolve_root(context, name) ==
  IF Called(name) = {} THEN Given ELSE First(Called(name))
scoped_resolve_whole(context, name) ==
  LET whole == {i \in Called(name) : Complete(i)}
  IN  IF whole = {} THEN END ELSE First(whole)

(* The first DIE of that name in the nearest scope around, whole or not.    *)
scoped_resolve(context, name) ==
  LET within(p) == {i \in Called(name) : dies[i].parent = p}
      resolve[p \in Given..Len(dies)] ==
        IF within(p) # {} THEN First(within(p))
        ELSE IF p = Given THEN END ELSE resolve[dies[p].parent]
  IN  resolve[context]

value == attrs[frame.next]
make_attribute_value == IF value.kind = "die" THEN frame.nested[frame.next]
                        ELSE scoped_resolve(frame.created, value.to)

(* An inline DIE that was itself postponed is END here.  Asked for its root *)
(* and offset, END answers with those of no DIE, or with anything.          *)
SetAttribute ==
  /\ Running("attrs")
  /\ frame.next \in DOMAIN attrs
  /\ value.kind = "die" \/ make_attribute_value # END
  /\ dies' = [dies EXCEPT ![frame.created].refs = Append(@, make_attribute_value)]
  /\ Becomes([frame EXCEPT !.next = @ + 1])
  /\ UNCHANGED <<text, real_parent, todo, postpone, postponed_pass_n, old_size, status>>

ReferToEnd == /\ Running("attrs")
              /\ frame.next \in DOMAIN attrs
              /\ value.kind = "die"
              /\ make_attribute_value = END
              /\ Undefined

(* Mutants: the tree is dropped; the DIE made so far is taken back.         *)
Postpone_drops == /\ Running("attrs")
                  /\ frame.next \in DOMAIN attrs
                  /\ value.kind = "ident"
                  /\ make_attribute_value = END
                  /\ Becomes([frame EXCEPT !.at = "children", !.next = 1, !.created = END])
                  /\ UNCHANGED <<text, real_parent, dies, todo, postpone,
                                 postponed_pass_n, old_size, status>>
Postpone_takes_back ==
  /\ Running("attrs")
  /\ frame.next \in DOMAIN attrs
  /\ value.kind = "ident"
  /\ make_attribute_value = END
  /\ postpone' = Append(postpone, Entry(frame.parent, frame.node))
  /\ dies' = Front(dies)
  /\ Becomes([frame EXCEPT !.at = "children", !.next = 1, !.created = END])
  /\ UNCHANGED <<text, real_parent, todo, postponed_pass_n, old_size, status>>

(* ident_not_found: the DIE made so far stays in the tree, END is returned. *)
Postpone == /\ Running("attrs")
            /\ frame.next \in DOMAIN attrs
            /\ value.kind = "ident"
            /\ make_attribute_value = END
            /\ postpone' = Append(postpone, Entry(frame.parent, frame.node))
            /\ Becomes([frame EXCEPT !.at = "children", !.next = 1, !.created = END])
            /\ UNCHANGED <<text, real_parent, dies, todo, postponed_pass_n,
                           old_size, status>>

AllAttributes == /\ Running("attrs")
                 /\ frame.next \notin DOMAIN attrs
                 /\ Becomes([frame EXCEPT !.at = "children", !.next = 1])
                 /\ UNCHANGED <<text, real_parent, dies, todo, postpone,
                                postponed_pass_n, old_size, status>>

CreateChild == /\ Running("children")
               /\ frame.next \in DOMAIN children
               /\ frame.created # END
               /\ stack' = Append(stack, Activation(frame.created, children[frame.next]))
               /\ UNCHANGED <<text, real_parent, dies, todo, postpone,
                              postponed_pass_n, old_size, status>>

(* The children of a postponed DIE are made all the same, under END.        *)
ChildOfEnd == /\ Running("children")
              /\ frame.next \in DOMAIN children
              /\ frame.created = END
              /\ Undefined

Return ==
  /\ Running("children")
  /\ frame.next \notin DOMAIN children
  /\ LET callers == Front(stack)
         caller  == Last(callers)
     IN  stack' = CASE callers = <<>> -> <<>>
                    [] callers # <<>> /\ caller.at = "nested" ->
                         Front(callers) \o <<[caller EXCEPT !.next = @ + 1,
                                                            !.nested = Append(@, frame.created)]>>
                    [] callers # <<>> /\ caller.at = "children" ->
                         Front(callers) \o <<[caller EXCEPT !.next = @ + 1]>>
  /\ UNCHANGED <<text, real_parent, dies, todo, postpone, postponed_pass_n,
                 old_size, status>>
-----------------------------------------------------------------------------
PassOver == status = "creating" /\ stack = <<>> /\ todo = <<>>

(* assert(old_size > new_size)                                              *)
Progress == postponed_pass_n > 0 => old_size > Len(postpone)

(* Mutant: the pass begins with the second tree.                            *)
PostponedPass_second == /\ PassOver
                        /\ Progress
                        /\ postpone # <<>>
                        /\ todo' = Tail(postpone)
                        /\ old_size' = Len(postpone)
                        /\ postpone' = <<>>
                        /\ postponed_pass_n' = postponed_pass_n + 1
                        /\ UNCHANGED <<text, real_parent, dies, stack, status>>

PostponedPass == /\ PassOver
                 /\ Progress
                 /\ postpone # <<>>
                 /\ todo' = postpone
                 /\ old_size' = Len(postpone)
                 /\ postpone' = <<>>
                 /\ postponed_pass_n' = postponed_pass_n + 1
                 /\ UNCHANGED <<text, real_parent, dies, stack, status>>

Finish == /\ PassOver
          /\ ~Progress \/ postpone = <<>>
          /\ status' = IF Progress THEN "done" ELSE "assertion failed"
          /\ UNCHANGED <<text, real_parent, dies, stack, todo, postpone,
                         postponed_pass_n, old_size>>

Next == \/ ChooseParent \/ CreateNext \/ ParentIsGone
        \/ CreateNested \/ NotNested \/ MakeNew \/ SetAttribute \/ ReferToEnd
        \/ Postpone \/ AllAttributes \/ CreateChild \/ ChildOfEnd \/ Return
        \/ PostponedPass \/ Finish

Spec == Init /\ [][Next]_vars
(* One thread runs the call to its end: a step that is enabled is taken.    *)
FairSpec == Spec /\ WF_vars(Next)
-----------------------------------------------------------------------------
Position == {END} \cup Given..Len(dies)
TypeOK ==
  /\ Text(text)
  /\ real_parent \in {Given, 1}
  /\ \A i \in DOMAIN dies : /\ dies[i].node \in Node \cup {NoNode}
                            /\ dies[i].parent \in Given..(i - 1)
                            /\ dies[i].refs \in Seq(Position \ {Given})
  /\ \A f \in Range(stack) : /\ f.node \in Node
                             /\ f.parent \in Position \ {END}
                             /\ f.created \in Position \ {Given}
                             /\ f.nested \in Seq(Position)
  /\ \A e \in Range(todo) \cup Range(postpone) : e.node \in Node /\ e.parent \in Position
  /\ status \in {"called", "creating", "done", "assertion failed", "undefined"}

Made(n) == \E i \in DOMAIN dies : dies[i].node = n /\ Complete(i)

(* Through failures in the middle of an attribute list, and however often a *)
(* tree is gone through again, no tree of the text is forgotten: between    *)
(* two trees each is either made, with all of its attributes, or will be    *)
(* gone through exactly once more.                                          *)
NothingForgotten ==
  status = "creating" /\ stack = <<>> =>
    \A i \in DOMAIN text.top :
      LET pending == todo \o postpone
          again == {j \in DOMAIN pending : pending[j].node = text.top[i]}
      IN  Cardinality(again) = IF Made(text.top[i]) THEN 0 ELSE 1

(* Done, every DIE of the text is there, those within others included.      *)
Written(n) == \A S \in SUBSET Node :
                Range(text.top) \subseteq S /\ (\A m \in S : Subtrees(text, m) \subseteq S)
                  => n \in S
DoneIsComplete == status = "done" => \A n \in Node : Written(n) => Made(n)

(* A name is in the tree before the attributes that may fail, so where all  *)
(* that is referred to is at the top, one postponed pass resolves whatever  *)
(* can be resolved, in any order of the text.  (Names of children may take  *)
(* more: those of an inline DIE are made anew with each pass of its user.)  *)
RefersToTop ==
  \A n \in Node : \A v \in Range(text.attrs[n]) :
    v.kind = "ident" => \/ \E m \in Range(text.top) : text.name[m] = v.to
                        \/ \A m \in Node : text.name[m] # v.to
OnePassResolves == status = "done" /\ RefersToTop => postponed_pass_n <= 1

(* The lack of progress that the assertion finds is never due to the order  *)
(* of the text: all that is left names something nothing at its top has.    *)
GivesUpOnUnknownNames ==
  status = "assertion failed" =>
    \A e \in Range(postpone) : \E v \in Range(text.attrs[e.node]) :
      v.kind = "ident" /\ \A n \in Range(text.top) : text.name[n] # v.to

(* Each postponed pass but the last makes the list shorter.                 *)
Terminates == <>(status \in {"done", "assertion failed", "undefined"})
-----------------------------------------------------------------------------
(* What the source says of the call and the call does not do.               *)

(* create.cpp:71 "nested DIE; we should already have created it".           *)
NestedAlreadyCreated == \A i \in DOMAIN dies : END \notin Range(dies[i].refs)
=============================================================================
