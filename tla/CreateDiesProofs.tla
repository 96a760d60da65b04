-------------------------- MODULE CreateDiesProofs --------------------------
(***************************************************************************)
(* Proofs about create_dies, for every text: no tree is forgotten, a call  *)
(* that ends has made all of them, and it gives up, or takes a second      *)
(* postponed pass, for names that the text does not have.                  *)
(***************************************************************************)
EXTENDS CreateDies, FiniteSetTheorems, SequenceTheorems, WellFoundedInduction, TLAPS

(* What each variable holds.                                                *)
Die == [node : Node \cup {NoNode}, parent : Nat, refs : Seq(Int)]
Frame == [parent : Nat, node : Node, at : {"nested", "attrs", "children"},
          next : Nat \ {0}, nested : Seq(Int), created : Int]
Tree == [parent : Nat, node : Node]
Static == /\ Text(text)
          /\ real_parent \in {0, 1} /\ real_parent <= Len(dies)
          /\ dies \in Seq(Die)
          /\ stack \in Seq(Frame)
          /\ todo \in Seq(Tree) /\ postpone \in Seq(Tree)
          /\ postponed_pass_n \in Nat
          /\ status \in {"called", "creating", "done", "assertion failed", "undefined"}

(* Where the call starts, and what is left when it ends.                    *)
Ends == /\ status = "called" =>
             /\ dies = <<>> /\ stack = <<>> /\ todo = <<>> /\ postpone = <<>>
             /\ postponed_pass_n = 0
        /\ status = "done" => stack = <<>> /\ todo = <<>> /\ postpone = <<>>
        /\ status = "assertion failed" => postponed_pass_n > 0

(* DIEs are made under earlier ones, and have the first of their            *)
(* attributes, which are DIEs or END.                                       *)
Found == {END} \cup 1..Len(dies)
DieSound(i) ==
  /\ dies[i].parent < i
  /\ i = real_parent \/ real_parent <= dies[i].parent
  /\ Range(dies[i].refs) \subseteq Found
  /\ dies[i].node # NoNode => Len(dies[i].refs) <= Len(text.attrs[dies[i].node])
DiesSound == \A i \in 1..Len(dies) : DieSound(i)

(* The trees to come have a parent.                                         *)
Pending == todo \o postpone
TreesSound == \A j \in 1..Len(Pending) : /\ real_parent <= Pending[j].parent
                                         /\ Pending[j].parent <= Len(dies)

(* How far an activation has come, and what it waits for.                   *)
FrameSound(f) ==
  /\ real_parent <= f.parent /\ f.parent <= Len(dies)
  /\ f.created \in Found
  /\ Range(f.nested) \subseteq Found
  /\ f.at = "nested" => /\ Len(f.nested) = f.next - 1
                        /\ f.next <= Len(text.attrs[f.node]) + 1
                        /\ f.created = END
  /\ f.at = "attrs" => /\ Len(f.nested) = Len(text.attrs[f.node])
                       /\ f.created # END
                       /\ dies[f.created].node = f.node
                       /\ dies[f.created].parent = f.parent
                       /\ Len(dies[f.created].refs) = f.next - 1
  /\ f.at = "children" /\ f.created # END =>
       dies[f.created].node = f.node /\ Complete(f.created)
FramesSound == \A i \in 1..Len(stack) : FrameSound(stack[i])
Calls(f, g) ==
  \/ /\ f.at = "nested"
     /\ f.next \in 1..Len(text.attrs[f.node])
     /\ text.attrs[f.node][f.next].kind = "die"
     /\ text.attrs[f.node][f.next].to = g.node
  \/ /\ f.at = "children"
     /\ f.created # END
     /\ f.next \in 1..Len(text.children[f.node])
     /\ text.children[f.node][f.next] = g.node
CallsSound == \A i \in 1..(Len(stack) - 1) : Calls(stack[i], stack[i + 1])

Shape == Static /\ Ends /\ DiesSound /\ TreesSound /\ FramesSound /\ CallsSound

(* Every tree that has been come to is made, or pending, or being made.     *)
InProgress(n) == \E i \in 1..Len(stack) : /\ stack[i].node = n
                                          /\ stack[i].at \in {"nested", "attrs"}
Awaited(n) == \E j \in 1..Len(Pending) : Pending[j].node = n
Accounted(n) == Made(n) \/ Awaited(n) \/ InProgress(n)

InlinesOf(n) == {text.attrs[n][j].to : j \in {l \in 1..Len(text.attrs[n]) :
                                                text.attrs[n][l].kind = "die"}}
Waits(f, i, j) == /\ f.created = i
                  /\ \/ f.at = "attrs"
                     \/ f.at = "children" /\ f.next <= j
TopAccounted ==
  status \in {"creating", "done"} => \A n \in Range(text.top) : Accounted(n)
FrameAccounted(f) ==
  /\ f.at = "nested" =>
       \A j \in 1..(f.next - 1) :
         text.attrs[f.node][j].kind = "die" => Accounted(text.attrs[f.node][j].to)
  /\ f.at = "children" => Accounted(f.node)
FramesAccounted == \A i \in 1..Len(stack) : FrameAccounted(stack[i])
InlinesAccounted ==
  \A i \in 1..Len(dies) : dies[i].node # NoNode =>
    \A n \in InlinesOf(dies[i].node) : Accounted(n)
ChildrenAccounted ==
  \A i \in 1..Len(dies) : Complete(i) =>
    \A j \in 1..Len(text.children[dies[i].node]) :
      \/ Accounted(text.children[dies[i].node][j])
      \/ \E g \in 1..Len(stack) : Waits(stack[g], i, j)
AllAccounted == TopAccounted /\ FramesAccounted /\ InlinesAccounted /\ ChildrenAccounted

(* A tree of the top is pending once, and not when it is made or on its way. *)
PendingOnce == \A i, j \in 1..Len(Pending) :
                 Pending[i].node = Pending[j].node /\ Pending[i].node \in Range(text.top) => i = j
PendingOnly == \A j \in 1..Len(Pending) :
                 Pending[j].node \in Range(text.top) =>
                   ~Made(Pending[j].node) /\ ~InProgress(Pending[j].node)
Unfinished(f) == \/ f.at = "nested"
                 \/ f.at = "attrs" /\ f.next <= Len(text.attrs[f.node])
UnfinishedUnmade ==
  \A i \in 1..Len(stack) :
    stack[i].node \in Range(text.top) /\ Unfinished(stack[i]) => ~Made(stack[i].node)
Once == PendingOnce /\ PendingOnly /\ UnfinishedUnmade

(* After the first pass every name of the top is under real_parent.         *)
Named(n) == \E i \in 1..Len(dies) : dies[i].node = n /\ dies[i].parent = real_parent
FirstPass ==
  postponed_pass_n = 0 =>
    /\ \A j \in 1..Len(todo) : todo[j].parent = real_parent
    /\ stack # <<>> => stack[1].parent = real_parent
ToBeNamed(n) == /\ postponed_pass_n = 0
                /\ \/ \E j \in 1..Len(todo) : todo[j].node = n
                   \/ stack # <<>> /\ stack[1].node = n /\ stack[1].at = "nested"
TopNamed == status # "called" => \A n \in Range(text.top) : Named(n) \/ ToBeNamed(n)
NotAtTop(n) == \E v \in Range(text.attrs[n]) :
                 v.kind = "ident" /\ \A m \in Range(text.top) : text.name[m] # v.to
PostponedNotAtTop ==
  postponed_pass_n > 0 => \A j \in 1..Len(postpone) : NotAtTop(postpone[j].node)
NamesInv == FirstPass /\ TopNamed /\ PostponedNotAtTop

(* An attribute that names what no DIE has is never set.                    *)
HopelessAt(n, j) == /\ text.attrs[n][j].kind = "ident"
                    /\ \A m \in Node : text.name[m] # text.attrs[n][j].to
Hopeless(n) == \E j \in 1..Len(text.attrs[n]) : HopelessAt(n, j)
NeverSet ==
  \A i \in 1..Len(dies) : dies[i].node # NoNode =>
    \A j \in 1..Len(text.attrs[dies[i].node]) :
      HopelessAt(dies[i].node, j) => Len(dies[i].refs) < j
LaterPass ==
  RefersToTop /\ postponed_pass_n > 1 => \E n \in Node : Hopeless(n) /\ Accounted(n)

IInv == Shape /\ AllAccounted /\ Once /\ NamesInv /\ NeverSet /\ LaterPass
-----------------------------------------------------------------------------
(* Sequences.                                                               *)
LEMMA Popped ==
  ASSUME NEW S, NEW s \in Seq(S), s # <<>>
  PROVE  /\ Len(s) \in Nat \ {0}
         /\ Last(s) = s[Len(s)] /\ s[Len(s)] \in S
         /\ Front(s) \in Seq(S) /\ Len(Front(s)) = Len(s) - 1
         /\ \A i \in 1..(Len(s) - 1) : Front(s)[i] = s[i]
<1>1. Len(s) \in Nat \ {0}
  OBVIOUS
<1>2. Last(s) = s[Len(s)] /\ s[Len(s)] \in S
  BY <1>1, ElementOfSeq DEF Last
<1>3. /\ Front(s) \in Seq(S) /\ Len(Front(s)) = Len(s) - 1
      /\ \A i \in 1..(Len(s) - 1) : Front(s)[i] = s[i]
  <2>1. PICK n \in Nat : n = Len(s) - 1
    BY <1>1
  <2>2. \A i \in 1..n : s[i] \in S
    BY <1>1, <2>1, ElementOfSeq
  <2>3. 1 \in Int /\ n \in Int
    OBVIOUS
  <2>4. /\ SubSeq(s, 1, n) \in Seq(S)
        /\ Len(SubSeq(s, 1, n)) = IF 1 <= n THEN n - 1 + 1 ELSE 0
        /\ \A i \in 1..(n - 1 + 1) : SubSeq(s, 1, n)[i] = s[1 + i - 1]
    BY <2>2, <2>3, SubSeqProperties
  <2>5. /\ (IF 1 <= n THEN n - 1 + 1 ELSE 0) = n /\ n - 1 + 1 = n
        /\ \A i \in 1..n : 1 + i - 1 = i
    OBVIOUS
  <2>6. Front(s) = SubSeq(s, 1, n)
    BY <2>1 DEF Front
  <2> QED
    BY <2>1, <2>4, <2>5, <2>6, Zenon
<1> QED
  BY <1>1, <1>2, <1>3

LEMMA Replaced ==
  ASSUME NEW S, NEW s \in Seq(S), s # <<>>, NEW g \in S
  PROVE  /\ Front(s) \o <<g>> \in Seq(S)
         /\ Len(Front(s) \o <<g>>) = Len(s)
         /\ (Front(s) \o <<g>>)[Len(s)] = g
         /\ \A i \in 1..(Len(s) - 1) : (Front(s) \o <<g>>)[i] = s[i]
<1>1. PICK t \in Seq(S) : /\ t = Front(s) /\ Len(t) = Len(s) - 1
                          /\ \A i \in 1..(Len(s) - 1) : t[i] = s[i]
  BY Popped
<1>2. Len(s) \in Nat \ {0}
  OBVIOUS
<1> QED
  BY <1>1, <1>2

LEMMA Pushed ==
  ASSUME NEW S, NEW s \in Seq(S), NEW g \in S
  PROVE  /\ Append(s, g) \in Seq(S)
         /\ Len(Append(s, g)) = Len(s) + 1
         /\ Append(s, g)[Len(s) + 1] = g
         /\ \A i \in 1..Len(s) : Append(s, g)[i] = s[i]
OBVIOUS

LEMMA RangeAppend ==
  ASSUME NEW S, NEW s \in Seq(S), NEW x \in S
  PROVE  Range(Append(s, x)) = Range(s) \cup {x}
<1>1. /\ Len(s) \in Nat /\ DOMAIN s = 1..Len(s)
      /\ DOMAIN Append(s, x) = 1..(Len(s) + 1)
      /\ Append(s, x)[Len(s) + 1] = x
      /\ \A i \in 1..Len(s) : Append(s, x)[i] = s[i]
  OBVIOUS
<1>2. \A i : i \in 1..(Len(s) + 1) <=> i \in 1..Len(s) \/ i = Len(s) + 1
  BY <1>1
<1>3. PICK t : t = Append(s, x)
  OBVIOUS
<1>4. PICK n : n = Len(s) + 1
  OBVIOUS
<1>5. Range(t) = Range(s) \cup {x}
  <2>1. \A y : y \in Range(t) <=> \E i \in 1..n : t[i] = y
    <3>1. DOMAIN t = 1..n
      BY <1>1, <1>3, <1>4, Zenon
    <3>2. \A y : y \in Range(t) <=> \E i \in DOMAIN t : t[i] = y
      BY Zenon DEF Range
    <3> QED
      BY <3>1, <3>2
  <2>2. \A y : y \in Range(s) <=> \E i \in 1..Len(s) : s[i] = y
    BY <1>1, Zenon DEF Range
  <2>3. \A y : y \in Range(t) <=> y \in Range(s) \/ y = x
    <3>1. \A i : i \in 1..n <=> i \in 1..Len(s) \/ i = n
      BY <1>2, <1>4, Zenon
    <3>2. t[n] = x /\ \A i \in 1..Len(s) : t[i] = s[i]
      BY <1>1, <1>3, <1>4, Zenon
    <3> QED
      BY <2>1, <2>2, <3>1, <3>2, Zenon
  <2> QED
    BY <2>3, Zenon
<1> QED
  BY <1>3, <1>5, Zenon

LEMMA IntsAppended ==
  \A s \in Seq(Int), x \in Int :
    Len(Append(s, x)) = Len(s) + 1 /\ Range(Append(s, x)) = Range(s) \cup {x}
<1>1. \A s \in Seq(Int), x \in Int : Len(Append(s, x)) = Len(s) + 1
  OBVIOUS
<1>2. ASSUME NEW s \in Seq(Int), NEW x \in Int
      PROVE  Range(Append(s, x)) = Range(s) \cup {x}
  BY RangeAppend
<1> QED
  BY <1>1, <1>2, Zenon

LEMMA DieAppended ==
  \A s \in Seq(Die), d \in Die :
    /\ Append(s, d) \in Seq(Die) /\ Len(Append(s, d)) = Len(s) + 1
    /\ Append(s, d)[Len(s) + 1] = d
    /\ \A i \in 1..Len(s) : Append(s, d)[i] = s[i]
OBVIOUS

(* What a text is.                                                          *)
LEMMA TextFacts ==
  ASSUME Text(text)
  PROVE  /\ text.top \in Seq(Node) /\ text.top # <<>>
         /\ text.attrs \in [Node -> Seq(Value)]
         /\ text.children \in [Node -> Seq(Node)]
         /\ \A n \in Node : Subtrees(text, n) \cap Range(text.top) = {}
BY DEF Text
-----------------------------------------------------------------------------
(* What the actions do to the activation that runs and to its caller.       *)
top == Len(stack)
Others(n) == \A i \in 1..n : stack'[i] = stack[i]
Moves(f, g) == g.parent = f.parent /\ g.node = f.node

LEMMA StaticFacts ==
  ASSUME Static
  PROVE  /\ Text(text)
         /\ real_parent \in {0, 1} /\ real_parent <= Len(dies)
         /\ dies \in Seq(Die) /\ Len(dies) \in Nat
         /\ stack \in Seq(Frame) /\ Len(stack) \in Nat
         /\ todo \in Seq(Tree) /\ postpone \in Seq(Tree)
         /\ postponed_pass_n \in Nat
<1>1. /\ Text(text)
      /\ real_parent \in {0, 1} /\ real_parent <= Len(dies)
      /\ dies \in Seq(Die) /\ stack \in Seq(Frame)
      /\ todo \in Seq(Tree) /\ postpone \in Seq(Tree)
      /\ postponed_pass_n \in Nat
  BY Zenon DEF Static
<1>2. /\ dies \in Seq(Die) => Len(dies) \in Nat
      /\ stack \in Seq(Frame) => Len(stack) \in Nat
  OBVIOUS
<1> QED
  BY <1>1, <1>2, Zenon

LEMMA FrameFields ==
  ASSUME NEW f \in Frame
  PROVE  /\ f.parent \in Nat /\ f.node \in Node
         /\ f.at \in {"nested", "attrs", "children"}
         /\ f.next \in Nat \ {0} /\ f.nested \in Seq(Int) /\ f.created \in Int
BY DEF Frame

LEMMA Advanced ==
  ASSUME NEW f \in Frame, NEW n \in Nat \ {0}, NEW s \in Seq(Int)
  PROVE  /\ [f EXCEPT !.next = n] \in Frame
         /\ [f EXCEPT !.next = n].next = n /\ [f EXCEPT !.next = n].at = f.at
         /\ [f EXCEPT !.next = n].created = f.created /\ [f EXCEPT !.next = n].nested = f.nested
         /\ Moves(f, [f EXCEPT !.next = n])
BY DEF Frame, Moves

LEMMA NextFrame ==
  ASSUME NEW f \in Frame, NEW v \in Int
  PROVE  /\ \E g \in Frame : /\ g = [f EXCEPT !.next = @ + 1]
                             /\ g.next = f.next + 1 /\ g.at = f.at
                             /\ g.created = f.created /\ g.nested = f.nested
                             /\ Moves(f, g)
         /\ \E g \in Frame : /\ g = [f EXCEPT !.next = @ + 1, !.nested = Append(@, v)]
                             /\ g.next = f.next + 1 /\ g.at = f.at
                             /\ g.created = f.created /\ g.nested = Append(f.nested, v)
                             /\ Moves(f, g)
<1>1. PICK n \in Nat \ {0}, s \in Seq(Int) : n = f.next + 1 /\ s = Append(f.nested, v)
  <2>1. f.next + 1 \in Nat \ {0} /\ Append(f.nested, v) \in Seq(Int)
    BY FrameFields
  <2> QED
    BY <2>1, Zenon
<1> DEFINE g == [f EXCEPT !.next = n]
           h == [f EXCEPT !.next = n, !.nested = s]
<1>2. /\ g \in Frame /\ g.next = n /\ g.at = f.at /\ g.created = f.created
      /\ g.nested = f.nested /\ Moves(f, g)
  BY Advanced, Zenon
<1>3. /\ h \in Frame /\ h.next = n /\ h.at = f.at /\ h.created = f.created
      /\ h.nested = s /\ Moves(f, h)
  BY DEF Frame, Moves
<1>4. g = [f EXCEPT !.next = @ + 1] /\ h = [f EXCEPT !.next = @ + 1, !.nested = Append(@, v)]
  BY <1>1, Zenon
<1> HIDE DEF g, h
<1> QED
  BY <1>1, <1>2, <1>3, <1>4, Zenon

IsTurned(f, g, at) == /\ g.at = at /\ g.next = 1
                      /\ g.nested = f.nested /\ Moves(f, g)

LEMMA Turned ==
  ASSUME NEW f \in Frame, NEW at \in {"nested", "attrs", "children"}
  PROVE  \E g \in Frame : /\ g = [f EXCEPT !.at = at, !.next = 1]
                          /\ g.created = f.created /\ IsTurned(f, g, at)
<1>1. PICK n \in Nat \ {0} : n = 1
  OBVIOUS
<1> DEFINE g == [f EXCEPT !.at = at, !.next = n]
<1>2. /\ g \in Frame /\ g.at = at /\ g.next = n /\ g.created = f.created
      /\ g.nested = f.nested /\ Moves(f, g)
  BY DEF Frame, Moves
<1>3. g = [f EXCEPT !.at = at, !.next = 1]
  BY <1>1, Zenon
<1> HIDE DEF g
<1> QED
  BY <1>1, <1>2, <1>3, Zenon DEF IsTurned

LEMMA TurnedWith ==
  ASSUME NEW f \in Frame, NEW at \in {"nested", "attrs", "children"}, NEW c \in Int
  PROVE  \E g \in Frame : /\ g = [f EXCEPT !.at = at, !.next = 1, !.created = c]
                          /\ g.created = c /\ IsTurned(f, g, at)
<1>1. PICK n \in Nat \ {0} : n = 1
  OBVIOUS
<1> DEFINE g == [f EXCEPT !.at = at, !.next = n, !.created = c]
<1>2. /\ g \in Frame /\ g.at = at /\ g.next = n /\ g.created = c
      /\ g.nested = f.nested /\ Moves(f, g)
  BY DEF Frame, Moves
<1>3. g = [f EXCEPT !.at = at, !.next = 1, !.created = c]
  BY <1>1, Zenon
<1> HIDE DEF g
<1> QED
  BY <1>1, <1>2, <1>3, Zenon DEF IsTurned

(* The running activation goes on as g.                                     *)
GoesOn(g) == /\ g \in Frame
             /\ top \in Nat \ {0} /\ stack[top] \in Frame
             /\ Moves(stack[top], g)
             /\ stack' \in Seq(Frame) /\ Len(stack') = top
             /\ stack'[top] = g
             /\ Others(top - 1)

LEMMA BecomesGoesOn ==
  ASSUME stack \in Seq(Frame), stack # <<>>, NEW g \in Frame, Moves(stack[Len(stack)], g),
         Becomes(g)
  PROVE  GoesOn(g)
<1>1. stack' = Front(stack) \o <<g>>
  BY DEF Becomes
<1>2. /\ Len(stack) \in Nat \ {0} /\ stack[Len(stack)] \in Frame
  BY Popped
<1>3. /\ stack' \in Seq(Frame) /\ Len(stack') = Len(stack)
      /\ stack'[Len(stack)] = g
      /\ \A i \in 1..(Len(stack) - 1) : stack'[i] = stack[i]
  BY <1>1, Replaced
<1> QED
  BY <1>2, <1>3 DEF GoesOn, top, Others
LEMMA Runs ==
  ASSUME Static, stack # <<>>
  PROVE  /\ top \in Nat \ {0}
         /\ frame = stack[top] /\ frame \in Frame
         /\ attrs \in Seq(Value) /\ DOMAIN attrs = 1..Len(attrs) /\ Len(attrs) \in Nat
         /\ attrs = text.attrs[stack[top].node]
         /\ children \in Seq(Node) /\ DOMAIN children = 1..Len(children) /\ Len(children) \in Nat
         /\ children = text.children[stack[top].node]
<1>1. top \in Nat \ {0} /\ frame = stack[top] /\ frame \in Frame
  <2>1. stack \in Seq(Frame)
    BY StaticFacts, Zenon
  <2>2. Len(stack) \in Nat \ {0} /\ Last(stack) = stack[Len(stack)] /\ stack[Len(stack)] \in Frame
    BY <2>1, Popped, Zenon
  <2> QED
    BY <2>2, Zenon DEF frame, top
<1>2. frame.node \in Node
  BY <1>1, FrameFields
<1>3. attrs \in Seq(Value) /\ children \in Seq(Node)
  BY <1>2, TextFacts DEF Static, attrs, children
<1> QED
  BY <1>1, <1>3 DEF attrs, children

(* The frame after the step, for each way in which it changes.              *)
Next1(g) == /\ GoesOn(g) /\ g.at = stack[top].at /\ g.created = stack[top].created
            /\ g.next = stack[top].next + 1
Turns(g, at) == GoesOn(g) /\ g.at = at /\ g.next = 1 /\ g.nested = stack[top].nested

LEMMA NotNestedDoes ==
  ASSUME Static, NotNested
  PROVE  \E g : Next1(g) /\ g.nested = Append(stack[top].nested, END)
<1>1. stack # <<>> /\ Becomes([frame EXCEPT !.next = @ + 1, !.nested = Append(@, END)])
  BY Zenon DEF NotNested, Running
<1>2. END \in Int
  BY DEF END
<1>3. PICK g \in Frame : /\ g = [frame EXCEPT !.next = @ + 1, !.nested = Append(@, END)]
                         /\ g.next = frame.next + 1 /\ g.at = frame.at
                         /\ g.created = frame.created /\ g.nested = Append(frame.nested, END)
                         /\ Moves(frame, g)
  BY <1>1, <1>2, Runs, NextFrame, Zenon
<1>4. frame = stack[top] /\ stack \in Seq(Frame) /\ top = Len(stack)
  BY <1>1, Runs, Zenon DEF Static, top
<1>5. GoesOn(g)
  BY <1>1, <1>3, <1>4, BecomesGoesOn, Zenon
<1> QED
  BY <1>3, <1>4, <1>5, Zenon DEF Next1

LEMMA SetAttributeDoes ==
  ASSUME Static, SetAttribute
  PROVE  \E g : Next1(g) /\ g.nested = stack[top].nested
<1>1. stack # <<>> /\ Becomes([frame EXCEPT !.next = @ + 1])
  BY Zenon DEF SetAttribute, Running
<1>2. END \in Int
  BY DEF END
<1>3. PICK g \in Frame : /\ g = [frame EXCEPT !.next = @ + 1]
                         /\ g.next = frame.next + 1 /\ g.at = frame.at
                         /\ g.created = frame.created /\ g.nested = frame.nested
                         /\ Moves(frame, g)
  BY <1>1, <1>2, Runs, NextFrame, Zenon
<1>4. frame = stack[top] /\ stack \in Seq(Frame) /\ top = Len(stack)
  BY <1>1, Runs, Zenon DEF Static, top
<1>5. GoesOn(g)
  BY <1>1, <1>3, <1>4, BecomesGoesOn, Zenon
<1> QED
  BY <1>3, <1>4, <1>5, Zenon DEF Next1

LEMMA MakeNewDoes ==
  ASSUME Static, MakeNew
  PROVE  /\ \E g : Turns(g, "attrs") /\ g.created = Len(dies) + 1
         /\ dies' \in Seq(Die) /\ Len(dies') = Len(dies) + 1
         /\ \A i \in 1..Len(dies) : dies'[i] = dies[i]
         /\ dies'[Len(dies) + 1] = [node |-> stack[top].node, parent |-> stack[top].parent,
                                    refs |-> <<>>]
<1>1. /\ stack # <<>> /\ Becomes([frame EXCEPT !.at = "attrs", !.next = 1, !.created = Len(dies) + 1])
      /\ dies' = Append(dies, [node |-> frame.node, parent |-> frame.parent, refs |-> <<>>])
  BY Zenon DEF MakeNew, Running
<1>2. PICK c \in Int : c = Len(dies) + 1
  <2>1. Len(dies) \in Nat
    BY StaticFacts, Zenon
  <2> QED
    BY <2>1
<1>3. frame = stack[top] /\ stack \in Seq(Frame) /\ top = Len(stack) /\ frame \in Frame
  BY <1>1, Runs, Zenon DEF Static, top
<1>0. "attrs" \in {"nested", "attrs", "children"}
  OBVIOUS
<1>4. PICK g \in Frame : /\ g = [frame EXCEPT !.at = "attrs", !.next = 1, !.created = c]
                         /\ g.created = c /\ IsTurned(frame, g, "attrs")
  <2>1. PICK f \in Frame : f = frame
    BY <1>3, Zenon
  <2>2. PICK g \in Frame : /\ g = [f EXCEPT !.at = "attrs", !.next = 1, !.created = c]
                           /\ g.created = c /\ IsTurned(f, g, "attrs")
    BY <1>0, TurnedWith, Zenon
  <2> QED
    BY <2>1, <2>2, Zenon
<1>5. Becomes(g)
  BY <1>1, <1>2, <1>4, Zenon
<1>6. GoesOn(g)
  BY <1>1, <1>3, <1>4, <1>5, BecomesGoesOn, Zenon DEF IsTurned
<1>7. Turns(g, "attrs") /\ g.created = Len(dies) + 1
  BY <1>2, <1>3, <1>4, <1>6, Zenon DEF Turns, IsTurned
<1>8. PICK d \in Die : d = [node |-> stack[top].node, parent |-> stack[top].parent, refs |-> <<>>]
  <2>1. PICK n \in Node, p \in Nat : n = stack[top].node /\ p = stack[top].parent
    BY <1>3, FrameFields, Zenon
  <2>2. [node |-> n, parent |-> p, refs |-> <<>>] \in Die
    BY DEF Die
  <2> QED
    BY <2>1, <2>2, Zenon
<1>9. /\ dies' \in Seq(Die) /\ Len(dies') = Len(dies) + 1
      /\ \A i \in 1..Len(dies) : dies'[i] = dies[i]
      /\ dies'[Len(dies) + 1] = d
  <2>1. dies' = Append(dies, d) /\ dies \in Seq(Die)
    BY <1>1, <1>3, <1>8, Zenon DEF Static
  <2> QED
    BY <2>1, DieAppended, Zenon
<1> QED
  BY <1>7, <1>8, <1>9, Zenon

LEMMA PostponeDoes ==
  ASSUME Static, Postpone
  PROVE  \E g : Turns(g, "children") /\ g.created = END
<1>1. stack # <<>> /\ Becomes([frame EXCEPT !.at = "children", !.next = 1, !.created = END])
  BY Zenon DEF Postpone, Running
<1>2. frame = stack[top] /\ stack \in Seq(Frame) /\ top = Len(stack) /\ frame \in Frame
  BY <1>1, Runs, Zenon DEF Static, top
<1>0. END \in Int
  BY DEF END
<1>9. "children" \in {"nested", "attrs", "children"}
  OBVIOUS
<1>3. PICK g \in Frame : /\ g = [frame EXCEPT !.at = "children", !.next = 1, !.created = END]
                         /\ g.created = END /\ IsTurned(frame, g, "children")
  BY <1>0, <1>2, <1>9, TurnedWith, Zenon
<1>4. Becomes(g)
  BY <1>1, <1>3, Zenon
<1>5. GoesOn(g)
  BY <1>1, <1>2, <1>3, <1>4, BecomesGoesOn, Zenon DEF IsTurned
<1> QED
  BY <1>2, <1>3, <1>5, Zenon DEF Turns, IsTurned

LEMMA AllAttributesDoes ==
  ASSUME Static, AllAttributes
  PROVE  \E g : Turns(g, "children") /\ g.created = stack[top].created
<1>1. stack # <<>> /\ Becomes([frame EXCEPT !.at = "children", !.next = 1])
  BY Zenon DEF AllAttributes, Running
<1>2. frame = stack[top] /\ stack \in Seq(Frame) /\ top = Len(stack) /\ frame \in Frame
  BY <1>1, Runs, Zenon DEF Static, top
<1>0. END \in Int
  BY DEF END
<1>9. "children" \in {"nested", "attrs", "children"}
  OBVIOUS
<1>3. PICK g \in Frame : /\ g = [frame EXCEPT !.at = "children", !.next = 1]
                         /\ g.created = frame.created /\ IsTurned(frame, g, "children")
  BY <1>2, <1>9, Turned, Zenon
<1>4. Becomes(g)
  BY <1>1, <1>3, Zenon
<1>5. GoesOn(g)
  BY <1>1, <1>2, <1>3, <1>4, BecomesGoesOn, Zenon DEF IsTurned
<1> QED
  BY <1>2, <1>3, <1>5, Zenon DEF Turns, IsTurned
(* A new activation, and a return.                                          *)
Starts(p, n) == /\ stack' \in Seq(Frame) /\ Len(stack') = top + 1
                /\ top \in Nat /\ Others(top)
                /\ stack'[top + 1] = Activation(p, n)

LEMMA NewActivation ==
  ASSUME NEW p \in Nat, NEW n \in Node
  PROVE  Activation(p, n) \in Frame
BY DEF Activation, Frame, END

LEMMA AppendStarts ==
  ASSUME Static, NEW p, NEW n, Activation(p, n) \in Frame,
         stack' = Append(stack, Activation(p, n))
  PROVE  Starts(p, n)
<1>1. PICK a \in Frame, s \in Seq(Frame) : a = Activation(p, n) /\ s = stack
  BY StaticFacts, Zenon
<1>2. stack' = Append(s, a)
  BY <1>1, Zenon
<1>3. /\ Append(s, a) \in Seq(Frame)
      /\ Len(Append(s, a)) = Len(s) + 1
      /\ Append(s, a)[Len(s) + 1] = a
      /\ \A i \in 1..Len(s) : Append(s, a)[i] = s[i]
  BY Pushed
<1>4. Len(s) \in Nat
  OBVIOUS
<1> QED
  BY <1>1, <1>2, <1>3, <1>4, Zenon DEF Starts, top, Others

LEMMA CreateNestedDoes ==
  ASSUME Static, CreateNested
  PROVE  /\ stack # <<>>
         /\ stack[top].next \in 1..Len(attrs)
         /\ attrs[stack[top].next] \in Value /\ attrs[stack[top].next].kind = "die"
         /\ attrs[stack[top].next].to \in Node
         /\ Starts(stack[top].parent, attrs[stack[top].next].to)
<1>1. /\ stack # <<>> /\ frame.next \in DOMAIN attrs /\ attrs[frame.next].kind = "die"
      /\ stack' = Append(stack, Activation(frame.parent, attrs[frame.next].to))
  BY Zenon DEF CreateNested, Running
<1>2. /\ frame = stack[top] /\ frame \in Frame /\ attrs \in Seq(Value)
      /\ DOMAIN attrs = 1..Len(attrs)
  BY <1>1, Runs, Zenon
<1>3. attrs[frame.next] \in Value
  BY <1>1, <1>2, ElementOfSeq
<1>4. attrs[frame.next].to \in Node
  <2>1. \A v \in Value : v.kind = "die" => v.to \in Node
    BY DEF Value
  <2> QED
    BY <1>1, <1>3, <2>1, Zenon
<1>5. Activation(frame.parent, attrs[frame.next].to) \in Frame
  BY <1>2, <1>4, FrameFields, NewActivation, Zenon
<1>6. Starts(frame.parent, attrs[frame.next].to)
  BY <1>1, <1>5, AppendStarts, Zenon
<1> QED
  BY <1>1, <1>2, <1>3, <1>4, <1>6, Zenon

LEMMA CreateChildDoes ==
  ASSUME Static, CreateChild, stack[top].created \in Nat
  PROVE  /\ stack # <<>>
         /\ stack[top].next \in 1..Len(children)
         /\ children[stack[top].next] \in Node
         /\ Starts(stack[top].created, children[stack[top].next])
<1>1. /\ stack # <<>> /\ frame.next \in DOMAIN children
      /\ stack' = Append(stack, Activation(frame.created, children[frame.next]))
  BY Zenon DEF CreateChild, Running
<1>2. /\ frame = stack[top] /\ frame \in Frame /\ children \in Seq(Node)
      /\ DOMAIN children = 1..Len(children)
  BY <1>1, Runs, Zenon
<1>3. children[frame.next] \in Node
  BY <1>1, <1>2, ElementOfSeq
<1>4. Activation(frame.created, children[frame.next]) \in Frame
  BY <1>2, <1>3, NewActivation, Zenon
<1>5. Starts(frame.created, children[frame.next])
  BY <1>1, <1>4, AppendStarts, Zenon
<1> QED
  BY <1>1, <1>2, <1>3, <1>5, Zenon

LEMMA CreateNextDoes ==
  ASSUME Static, CreateNext
  PROVE  /\ top = 0 /\ stack = <<>> /\ todo # <<>> /\ Head(todo) \in Tree
         /\ Starts(Head(todo).parent, Head(todo).node)
         /\ todo' \in Seq(Tree) /\ Len(Pending') = Len(Pending) - 1
         /\ Len(todo') = Len(todo) - 1 /\ \A j \in 1..Len(todo') : todo'[j] = todo[j + 1]
         /\ Head(todo) = Pending[1] /\ Head(todo) = todo[1]
         /\ \A j \in 1..Len(Pending') : Pending'[j] = Pending[j + 1]
<1>1. /\ stack = <<>> /\ todo # <<>>
      /\ stack' = <<Activation(Head(todo).parent, Head(todo).node)>>
      /\ todo' = Tail(todo) /\ postpone' = postpone
  BY Zenon DEF CreateNext
<1>2. todo \in Seq(Tree) /\ postpone \in Seq(Tree)
  BY StaticFacts, Zenon
<1>3. Head(todo) \in Tree
  BY <1>1, <1>2
<1>4. Head(todo).parent \in Nat /\ Head(todo).node \in Node
  BY <1>3 DEF Tree
<1>5. PICK a \in Frame : a = Activation(Head(todo).parent, Head(todo).node)
  BY <1>4, NewActivation, Zenon
<1>6. /\ top = 0 /\ stack' \in Seq(Frame) /\ Len(stack') = top + 1 /\ top \in Nat
      /\ Others(top) /\ stack'[top + 1] = a
  <2>1. stack' = <<a>> /\ top = 0
    BY <1>1, <1>5 DEF top
  <2> QED
    BY <2>1 DEF Others
<1>7. PICK t \in Seq(Tree), p \in Seq(Tree) : t = todo /\ p = postpone
  BY <1>2, Zenon
<1>8. /\ todo' \in Seq(Tree) /\ Len(Pending') = Len(Pending) - 1
      /\ Len(todo') = Len(todo) - 1 /\ \A j \in 1..Len(todo') : todo'[j] = todo[j + 1]
      /\ Head(todo) = Pending[1] /\ Head(todo) = todo[1]
      /\ \A j \in 1..Len(Pending') : Pending'[j] = Pending[j + 1]
  <2>1. /\ Tail(t) \in Seq(Tree) /\ Len(Tail(t)) = Len(t) - 1
        /\ \A j \in 1..Len(Tail(t)) : Tail(t)[j] = t[j + 1]
        /\ Len(t) \in Nat \ {0} /\ Len(p) \in Nat /\ Head(t) = t[1]
    BY <1>1, <1>7
  <2>2. /\ Len(Tail(t) \o p) = Len(t \o p) - 1
        /\ Head(t) = (t \o p)[1]
        /\ \A j \in 1..Len(Tail(t) \o p) : (Tail(t) \o p)[j] = (t \o p)[j + 1]
    BY <2>1
  <2> QED
    BY <1>1, <1>7, <2>1, <2>2 DEF Pending
<1> QED
  BY <1>1, <1>3, <1>5, <1>6, <1>8, Zenon DEF Starts

Returns(g) ==
  LET f == stack[top - 1]
  IN  /\ f \in Frame /\ g \in Frame /\ stack'[top - 1] = g
      /\ Moves(f, g) /\ g.at = f.at /\ g.created = f.created /\ g.next = f.next + 1
      /\ g.nested = IF f.at = "nested" THEN Append(f.nested, stack[top].created) ELSE f.nested

LEMMA ReturnDoes ==
  ASSUME Static, CallsSound, Return
  PROVE  /\ stack # <<>> /\ top \in Nat \ {0}
         /\ stack' \in Seq(Frame) /\ Len(stack') = top - 1 /\ Others(top - 2)
         /\ top > 1 => Calls(stack[top - 1], stack[top]) /\ \E g : Returns(g)
<1> DEFINE callers == Front(stack)
           caller == Last(callers)
<1>1. /\ stack # <<>>
      /\ stack' = CASE callers = <<>> -> <<>>
                    [] callers # <<>> /\ caller.at = "nested" ->
                         Front(callers) \o <<[caller EXCEPT !.next = @ + 1,
                                                            !.nested = Append(@, frame.created)]>>
                    [] callers # <<>> /\ caller.at = "children" ->
                         Front(callers) \o <<[caller EXCEPT !.next = @ + 1]>>
  BY Zenon DEF Return, Running
<1>2. /\ top \in Nat \ {0} /\ frame = stack[top] /\ frame \in Frame
      /\ stack \in Seq(Frame) /\ top = Len(stack)
  BY <1>1, Runs, StaticFacts, Zenon DEF top
<1>3. /\ callers \in Seq(Frame) /\ Len(callers) = top - 1
      /\ \A i \in 1..(top - 1) : callers[i] = stack[i]
  BY <1>1, <1>2, Popped, Zenon
<1> HIDE DEF callers
<1>4. CASE callers = <<>>
  <2>1. top = 1 /\ stack' = <<>>
    <3>1. stack' = <<>>
      BY <1>1, <1>4, Zenon
    <3>2. Len(<<>>) = 0
      OBVIOUS
    <3>3. top - 1 = 0
      BY <1>3, <1>4, <3>2, Zenon
    <3>4. top = 1
      <4>1. \A n \in Nat \ {0} : n - 1 = 0 => n = 1
        OBVIOUS
      <4> QED
        BY <1>2, <3>3, <4>1, Zenon
    <3> QED
      BY <3>1, <3>4, Zenon
  <2>2. stack' \in Seq(Frame) /\ Len(stack') = top - 1 /\ Others(top - 2) /\ ~(top > 1)
    BY <2>1 DEF Others
  <2> QED
    BY <1>1, <1>2, <2>2, Zenon
<1>5. CASE callers # <<>>
  <2>1. /\ Len(callers) \in Nat \ {0} /\ caller = callers[Len(callers)] /\ caller \in Frame
    BY <1>3, <1>5, Popped, Zenon
  <2>2. top > 1 /\ top - 1 \in 1..(Len(stack) - 1) /\ (top - 1) + 1 = top
    BY <1>2, <1>3, <2>1
  <2>3. caller = stack[top - 1] /\ Calls(stack[top - 1], stack[top])
    <3>1. top - 1 \in 1..(top - 1)
      BY <2>2, <1>2
    <3>2. caller = stack[top - 1]
      BY <1>3, <2>1, <3>1, Zenon
    <3>3. Calls(stack[top - 1], stack[(top - 1) + 1])
      BY <2>2, Zenon DEF CallsSound
    <3> QED
      BY <2>2, <3>2, <3>3, Zenon
  <2>4. caller.at = "nested" \/ caller.at = "children"
    BY <2>3, Zenon DEF Calls
  <2>5. frame.created \in Int
    BY <1>2, FrameFields
  <2>6. PICK g \in Frame : /\ stack' = Front(callers) \o <<g>>
                           /\ Moves(caller, g) /\ g.at = caller.at
                           /\ g.created = caller.created /\ g.next = caller.next + 1
                           /\ g.nested = IF caller.at = "nested"
                                         THEN Append(caller.nested, frame.created)
                                         ELSE caller.nested
    <3>1. CASE caller.at = "nested"
      <4>1. PICK g \in Frame :
               /\ g = [caller EXCEPT !.next = @ + 1, !.nested = Append(@, frame.created)]
               /\ g.next = caller.next + 1 /\ g.at = caller.at
               /\ g.created = caller.created /\ g.nested = Append(caller.nested, frame.created)
               /\ Moves(caller, g)
        BY <2>1, <2>5, NextFrame, Zenon
      <4>2. stack' = Front(callers) \o <<g>>
        <5>1. "nested" # "children"
          OBVIOUS
        <5> QED
          BY <1>1, <1>5, <3>1, <4>1, <5>1, Zenon
      <4> QED
        BY <3>1, <4>1, <4>2, Zenon
    <3>2. CASE caller.at = "children"
      <4>0. END \in Int
        BY DEF END
      <4>1. PICK g \in Frame : /\ g = [caller EXCEPT !.next = @ + 1]
                               /\ g.next = caller.next + 1 /\ g.at = caller.at
                               /\ g.created = caller.created /\ g.nested = caller.nested
                               /\ Moves(caller, g)
        BY <2>1, <4>0, NextFrame, Zenon
      <4>2. caller.at # "nested"
        BY <3>2
      <4>3. stack' = Front(callers) \o <<g>>
        BY <1>1, <1>5, <3>2, <4>1, <4>2, Zenon
      <4> QED
        BY <4>1, <4>2, <4>3, Zenon
    <3> QED
      BY <2>4, <3>1, <3>2, Zenon
  <2>7. /\ stack' \in Seq(Frame) /\ Len(stack') = Len(callers)
        /\ stack'[Len(callers)] = g
        /\ \A i \in 1..(Len(callers) - 1) : stack'[i] = callers[i]
    <3>1. PICK c \in Seq(Frame) : c = callers
      BY <1>3
    <3>2. /\ Front(c) \o <<g>> \in Seq(Frame)
          /\ Len(Front(c) \o <<g>>) = Len(c)
          /\ (Front(c) \o <<g>>)[Len(c)] = g
          /\ \A i \in 1..(Len(c) - 1) : (Front(c) \o <<g>>)[i] = c[i]
      BY <1>5, <3>1, Replaced
    <3>3. stack' = Front(c) \o <<g>>
      BY <2>6, <3>1, Zenon
    <3> QED
      BY <3>1, <3>2, <3>3, Zenon
  <2>8. Others(top - 2)
    <3>1. (top - 1) - 1 = top - 2 /\ \A i \in 1..(top - 2) : i \in 1..(top - 1)
      BY <1>2
    <3>2. \A i \in 1..(top - 2) : stack'[i] = callers[i]
      BY <1>3, <2>7, <3>1, Zenon
    <3> QED
      BY <1>3, <3>1, <3>2, Zenon DEF Others
  <2>9. Returns(g)
    BY <1>2, <1>3, <2>1, <2>3, <2>6, <2>7, Zenon DEF Returns
  <2> QED
    BY <1>1, <1>2, <1>3, <2>2, <2>3, <2>7, <2>8, <2>9, Zenon
<1> QED
  BY <1>4, <1>5, Zenon
-----------------------------------------------------------------------------
(* Looking up a name.                                                       *)
LEMMA LeastNat ==
  ASSUME NEW T \in SUBSET Nat, T # {}
  PROVE  \E x \in T : \A y \in T : x <= y
<1>1. PICK x \in T : \A y \in T : ~(<<y, x>> \in OpToRel(<, Nat))
  BY NatLessThanWellFounded, WFMin, Zenon
<1>2. \A a, b \in Nat : a < b => <<a, b>> \in OpToRel(<, Nat)
  BY Zenon DEF OpToRel
<1>3. \A y \in T : ~(y < x)
  BY <1>1, <1>2, Zenon
<1> QED
  BY <1>3

LEMMA FirstIs ==
  ASSUME NEW T \in SUBSET Nat, T # {}
  PROVE  First(T) \in T
<1>1. \E x \in T : \A y \in T : x <= y
  BY LeastNat
<1> QED
  BY <1>1, Zenon DEF First

(* The scopes around a DIE come before it, so that the search has an end.   *)
Within(p, name) == {i \in Called(name) : dies[i].parent = p}
Step(f, p, name) == IF Within(p, name) # {} THEN First(Within(p, name))
                    ELSE IF p = Given THEN END ELSE f[dies[p].parent]

LEMMA ResolveExists ==
  ASSUME NEW N \in Nat, NEW name,
         \A p \in 1..N : dies[p].parent \in 0..(p - 1)
  PROVE  \E f : f = [p \in 0..N |-> Step(f, p, name)]
<1> DEFINE T == {k \in 0..N : ~ \E f : f = [p \in 0..k |-> Step(f, p, name)]}
<1> SUFFICES ASSUME T # {} PROVE FALSE
  OBVIOUS
<1>1. PICK m \in T : \A k \in T : m <= k
  <2>1. T \in SUBSET Nat
    OBVIOUS
  <2> QED
    BY <2>1, LeastNat
<1>2. m # 0
  <2> DEFINE h == [p \in 0..0 |-> Step(<<>>, p, name)]
  <2>1. h = [p \in 0..0 |-> Step(h, p, name)]
    <3>1. \A p \in 0..0 : p = Given
      BY DEF Given
    <3>2. \A p \in 0..0 : Step(<<>>, p, name) = Step(h, p, name)
      BY <3>1, Zenon DEF Step
    <3> QED
      BY <3>2, Zenon
  <2>2. 0 \notin T
    BY <2>1
  <2> QED
    BY <2>2
<1>3. PICK l \in 0..(N - 1) : m = l + 1 /\ l \notin T
  <2>1. m - 1 \in 0..(N - 1) /\ m = (m - 1) + 1
    BY <1>2
  <2>2. m - 1 \notin T
    BY <1>1, <1>2
  <2> QED
    BY <2>1, <2>2
<1>4. PICK g : g = [p \in 0..l |-> Step(g, p, name)]
  BY <1>3
<1> DEFINE h == [p \in 0..m |-> IF p = m THEN Step(g, m, name) ELSE g[p]]
<1>5. \A p \in 0..m : Step(h, p, name) = Step(g, p, name)
  <2> SUFFICES ASSUME NEW p \in 0..m, p # 0 PROVE h[dies[p].parent] = g[dies[p].parent]
    BY Zenon DEF Step, Given
  <2>1. p \in 1..N /\ dies[p].parent \in 0..(p - 1)
    BY <1>3
  <2>2. dies[p].parent \in 0..m /\ dies[p].parent # m
    BY <2>1
  <2> QED
    BY <2>2, Zenon
<1>6. \A p \in 0..m : h[p] = Step(h, p, name)
  <2> SUFFICES ASSUME NEW p \in 0..m PROVE h[p] = Step(g, p, name)
    BY <1>5, Zenon
  <2>1. CASE p = m
    BY <2>1, Zenon
  <2>2. CASE p # m
    <3>1. p \in 0..l
      BY <1>3, <2>2
    <3>2. g[p] = Step(g, p, name)
      BY <1>4, <3>1, Zenon
    <3> QED
      BY <2>2, <3>2, Zenon
  <2> QED
    BY <2>1, <2>2, Zenon
<1>7. h = [p \in 0..m |-> Step(h, p, name)]
  BY <1>6, Zenon
<1>8. m \notin T
  BY <1>7, Zenon
<1> QED
  BY <1>8

LEMMA ResolveIs ==
  ASSUME Static, DiesSound, NEW name
  PROVE  \E f : /\ \A p \in 0..Len(dies) : f[p] = Step(f, p, name)
                /\ \A c : scoped_resolve(c, name) = f[c]
<1>1. PICK N \in Nat : N = Len(dies)
  BY StaticFacts, Zenon
<1>2. \A p \in 1..N : dies[p].parent \in 0..(p - 1)
  <2>1. ASSUME NEW p \in 1..N PROVE dies[p].parent \in 0..(p - 1)
    <3>1. dies[p].parent < p
      BY <1>1, Zenon DEF DiesSound, DieSound
    <3>2. dies[p] \in Die
      BY <1>1, StaticFacts, ElementOfSeq, Zenon
    <3>3. dies[p].parent \in Nat
      BY <3>2 DEF Die
    <3> QED
      BY <3>1, <3>3
  <2> QED
    BY <2>1, Zenon
<1>3. \E f : f = [p \in 0..N |-> Step(f, p, name)]
  BY <1>2, ResolveExists, Zenon
<1> DEFINE F == CHOOSE f : f = [p \in 0..N |-> Step(f, p, name)]
<1>4. F = [p \in 0..N |-> Step(F, p, name)]
  BY <1>3, Zenon
<1>5. \A c : scoped_resolve(c, name) = F[c]
  BY <1>1, Zenon DEF scoped_resolve, Step, Within, Given
<1> HIDE DEF F
<1>6. \A p \in 0..N : F[p] = Step(F, p, name)
  BY <1>4, Zenon
<1> QED
  BY <1>1, <1>5, <1>6, Zenon

LEMMA Resolves ==
  ASSUME Static, DiesSound, NEW name, NEW c \in 0..Len(dies)
  PROVE  /\ scoped_resolve(c, name) = END \/ scoped_resolve(c, name) \in Called(name)
         /\ scoped_resolve(c, name) = END /\ real_parent <= c =>
              \A i \in Called(name) : dies[i].parent # real_parent
<1>1. PICK f : /\ \A p \in 0..Len(dies) : f[p] = Step(f, p, name)
               /\ \A x : scoped_resolve(x, name) = f[x]
  BY ResolveIs, Zenon
<1>0. PICK N \in Nat : N = Len(dies)
  BY StaticFacts, Zenon
<1>2. PICK r \in 0..N : r = real_parent
  <2>1. real_parent \in {0, 1} /\ real_parent <= Len(dies) /\ Len(dies) \in Nat
    BY StaticFacts, Zenon
  <2> QED
    BY <1>0, <2>1
<1>3. \A p \in 1..N : dies[p].parent \in 0..(p - 1) /\ (p = r \/ r <= dies[p].parent)
  <2>1. ASSUME NEW p \in 1..N PROVE dies[p].parent \in 0..(p - 1) /\ (p = r \/ r <= dies[p].parent)
    <3>1. dies[p].parent < p /\ (p = r \/ r <= dies[p].parent)
      BY <1>0, <1>2, Zenon DEF DiesSound, DieSound
    <3>2. dies[p] \in Die
      BY <1>0, StaticFacts, ElementOfSeq, Zenon
    <3>3. dies[p].parent \in Nat
      BY <3>2 DEF Die
    <3> QED
      BY <3>1, <3>3
  <2> QED
    BY <2>1, Zenon
<1>4. ASSUME NEW p, Within(p, name) # {}
      PROVE  First(Within(p, name)) \in Within(p, name) /\ First(Within(p, name)) # END
  <2>1. Within(p, name) \in SUBSET Nat
    <3>1. DOMAIN dies \subseteq Nat
      <4>1. dies \in Seq(Die)
        BY StaticFacts, Zenon
      <4> QED
        BY <4>1
    <3> QED
      BY <3>1, Zenon DEF Within, Called
  <2>2. First(Within(p, name)) \in Within(p, name)
    BY <1>4, <2>1, FirstIs, Zenon
  <2>3. END \notin Nat
    BY DEF END
  <2> QED
    BY <2>1, <2>2, <2>3, Zenon
<1>5. ASSUME NEW p \in 0..N
      PROVE  f[p] = END \/ f[p] \in Called(name)
  <2> DEFINE T == {q \in 0..N : ~(f[q] = END \/ f[q] \in Called(name))}
  <2> SUFFICES ASSUME T # {} PROVE FALSE
    OBVIOUS
  <2>1. PICK m \in T : \A q \in T : m <= q
    <3>1. T \in SUBSET Nat
      OBVIOUS
    <3> QED
      BY <3>1, LeastNat
  <2>2. f[m] = Step(f, m, name)
    BY <1>0, <1>1, <1>2, Zenon
  <2>3. Within(m, name) = {}
    BY <1>4, <2>2, Zenon DEF Step, Within
  <2>4. m # 0
    BY <2>2, <2>3, Zenon DEF Step, Given
  <2>5. f[m] = f[dies[m].parent]
    BY <2>2, <2>3, <2>4, Zenon DEF Step, Given
  <2>6. dies[m].parent \in 0..N /\ ~(m <= dies[m].parent)
    <3>1. m \in 1..N
      BY <2>4
    <3>2. dies[m].parent \in 0..(m - 1)
      BY <1>3, <3>1, Zenon
    <3> QED
      BY <3>1, <3>2
  <2>7. dies[m].parent \notin T
    BY <2>1, <2>6, Zenon
  <2> QED
    BY <2>1, <2>5, <2>6, <2>7, Zenon
<1>6. ASSUME f[c] = END, r <= c
      PROVE  Within(r, name) = {}
  <2> DEFINE T == {q \in r..N : f[q] = END}
  <2>1. c \in T
    BY <1>0, <1>2, <1>6
  <2>2. PICK m \in T : \A q \in T : m <= q
    <3>1. T \in SUBSET Nat
      OBVIOUS
    <3> QED
      BY <2>1, <3>1, LeastNat
  <2>3. f[m] = Step(f, m, name) /\ f[m] = END
    <3>1. m \in 0..N
      OBVIOUS
    <3> QED
      BY <1>0, <1>1, <1>2, <3>1, Zenon
  <2>4. Within(m, name) = {}
    BY <1>4, <2>3, Zenon DEF Step
  <2>5. m = r
    <3> SUFFICES ASSUME m # r PROVE FALSE
      OBVIOUS
    <3>1. m \in 1..N /\ m # 0
      OBVIOUS
    <3>2. f[m] = f[dies[m].parent]
      BY <2>3, <2>4, <3>1, Zenon DEF Step, Given
    <3>3. dies[m].parent \in r..N /\ ~(m <= dies[m].parent)
      <4>1. dies[m].parent \in 0..(m - 1) /\ r <= dies[m].parent
        BY <1>3, <3>1, Zenon
      <4> QED
        BY <3>1, <4>1
    <3>4. dies[m].parent \in T
      BY <2>3, <3>2, <3>3, Zenon
    <3> QED
      BY <2>2, <3>3, <3>4, Zenon
  <2> QED
    BY <2>4, <2>5, Zenon
<1>7. scoped_resolve(c, name) = f[c] /\ c \in 0..N
  BY <1>0, <1>1, <1>2, Zenon
<1>8. ASSUME scoped_resolve(c, name) = END, real_parent <= c
      PROVE  \A i \in Called(name) : dies[i].parent # real_parent
  BY <1>0, <1>2, <1>6, <1>7, <1>8, Zenon DEF Within
<1> QED
  BY <1>5, <1>7, <1>8, Zenon
-----------------------------------------------------------------------------
(* DIEs are only added, and attributes only to a DIE that lacks some.       *)
Grows == /\ text' = text /\ real_parent' = real_parent
         /\ Len(dies') \in Nat /\ Len(dies) <= Len(dies')
         /\ \A i \in 1..Len(dies) : /\ dies'[i].node = dies[i].node
                                    /\ dies'[i].parent = dies[i].parent
                                    /\ Complete(i) => dies'[i].refs = dies[i].refs

LEMMA SameGrows ==
  ASSUME Static, UNCHANGED <<text, real_parent, dies>>
  PROVE  Grows
<1>1. Len(dies) \in Nat /\ Len(dies) <= Len(dies)
  <2>1. Len(dies) \in Nat
    BY StaticFacts, Zenon
  <2> QED
    BY <2>1
<1>2. text' = text /\ real_parent' = real_parent /\ dies' = dies
  OBVIOUS
<1> QED
  BY <1>1, <1>2, Zenon DEF Grows

LEMMA CompleteKept ==
  ASSUME Static, Grows, NEW i \in 1..Len(dies), Complete(i)
  PROVE  Complete(i)'
<1>1. /\ dies'[i].node = dies[i].node /\ dies'[i].refs = dies[i].refs /\ text' = text
  BY Zenon DEF Grows
<1> QED
  BY <1>1 DEF Complete

LEMMA FoundKept ==
  ASSUME Static, Grows
  PROVE  Found \subseteq Found' /\ Len(dies) \in Nat /\ Len(dies') \in Nat /\ Len(dies) <= Len(dies')
<1>1. Len(dies) \in Nat /\ Len(dies') \in Nat /\ Len(dies) <= Len(dies')
  BY StaticFacts, Zenon DEF Grows
<1>2. \A m, n \in Nat : m <= n => 1..m \subseteq 1..n
  OBVIOUS
<1> QED
  BY <1>1, <1>2, Zenon DEF Found

LEMMA FrameKept ==
  ASSUME Static, Grows, NEW f \in Frame, FrameSound(f), f.at # "attrs"
  PROVE  FrameSound(f)'
<1>1. f.parent \in Nat /\ f.created \in Int /\ f.at \in {"nested", "attrs", "children"}
  BY FrameFields
<1>2. text' = text /\ real_parent' = real_parent
  BY Zenon DEF Grows
<1>3. /\ real_parent <= f.parent /\ f.parent <= Len(dies)
      /\ f.created \in Found
      /\ Range(f.nested) \subseteq Found
  BY Zenon DEF FrameSound
<1>4. f.parent <= Len(dies')
  BY <1>1, <1>3, FoundKept
<1>5. f.created \in Found' /\ Range(f.nested) \subseteq Found'
  BY <1>3, FoundKept, Zenon
<1>6. ASSUME f.at = "children", f.created # END
      PROVE  dies'[f.created].node = f.node /\ Complete(f.created)'
  <2>1. PICK c \in 1..Len(dies) : c = f.created
    BY <1>3, <1>6, Zenon DEF Found
  <2>2. dies[c].node = f.node /\ Complete(c)
    BY <1>6, <2>1, Zenon DEF FrameSound
  <2>3. dies'[c].node = dies[c].node
    BY <2>1, Zenon DEF Grows
  <2>4. Complete(c)'
    BY <2>1, <2>2, CompleteKept
  <2> QED
    BY <2>1, <2>2, <2>3, <2>4, Zenon DEF Complete
<1>7. f.at = "nested" => /\ Len(f.nested) = f.next - 1
                         /\ f.next <= Len(text.attrs[f.node]) + 1
                         /\ f.created = END
  BY Zenon DEF FrameSound
<1> QED
  BY <1>2, <1>3, <1>4, <1>5, <1>6, <1>7, Zenon DEF FrameSound

(* The frames below one that keeps its callers.                             *)
LEMMA BelowKept ==
  ASSUME Static, FramesSound, CallsSound, Grows, NEW n \in Nat, n < top, Others(n)
  PROVE  /\ \A i \in 1..n : FrameSound(stack[i])'
         /\ \A i \in 1..(n - 1) : Calls(stack[i], stack[i + 1])'
<1>1. top \in Nat /\ top = Len(stack) /\ stack \in Seq(Frame)
  BY StaticFacts, Zenon DEF top
<1>2. ASSUME NEW i \in 1..n
      PROVE  FrameSound(stack[i])'
  <2>1. i \in 1..top /\ i \in 1..(top - 1)
    BY <1>1
  <2>2. PICK f \in Frame : f = stack[i]
    BY <1>1, <2>1, ElementOfSeq, Zenon
  <2>3. FrameSound(f) /\ f.at # "attrs"
    <3>1. Calls(f, stack[i + 1])
      BY <1>1, <2>1, <2>2, Zenon DEF CallsSound
    <3>2. f.at = "nested" \/ f.at = "children"
      BY <3>1, Zenon DEF Calls
    <3>3. f.at # "attrs"
      BY <3>2
    <3> QED
      BY <1>1, <2>1, <2>2, <3>3, Zenon DEF FramesSound
  <2>4. FrameSound(f)'
    BY <2>3, FrameKept
  <2>5. stack'[i] = f
    BY <2>2, Zenon DEF Others
  <2> QED
    BY <2>4, <2>5, Zenon DEF FrameSound
<1>3. ASSUME NEW i \in 1..(n - 1)
      PROVE  Calls(stack[i], stack[i + 1])'
  <2>1. i \in 1..(top - 1) /\ i \in 1..n /\ i + 1 \in 1..n
    BY <1>1
  <2>2. Calls(stack[i], stack[i + 1])
    BY <1>1, <2>1, Zenon DEF CallsSound
  <2>3. stack'[i] = stack[i] /\ stack'[i + 1] = stack[i + 1] /\ text' = text
    BY <2>1, Zenon DEF Others, Grows
  <2> QED
    BY <2>2, <2>3, Zenon DEF Calls
<1> QED
  BY <1>2, <1>3, Zenon

LEMMA GoesOnSound ==
  ASSUME Static, FramesSound, CallsSound, Grows, NEW g, GoesOn(g), FrameSound(g)'
  PROVE  FramesSound' /\ CallsSound'
<1>1. /\ top \in Nat \ {0} /\ Len(stack') = top /\ stack'[top] = g /\ Others(top - 1)
      /\ Moves(stack[top], g) /\ top = Len(stack)
  BY Zenon DEF GoesOn, top
<1>2. PICK n \in Nat : n = top - 1 /\ n < top /\ n + 1 = top /\ (\A i \in 1..top : i \in 1..n \/ i = top)
                       /\ (\A i \in 1..(top - 1) : i \in 1..(n - 1) \/ i = n)
  <2>1. \A m \in Nat \ {0} : /\ m - 1 \in Nat /\ m - 1 < m /\ (m - 1) + 1 = m
                             /\ \A i \in 1..m : i \in 1..(m - 1) \/ i = m
                             /\ \A i \in 1..(m - 1) : i \in 1..((m - 1) - 1) \/ i = m - 1
    OBVIOUS
  <2> QED
    BY <1>1, <2>1, Zenon
<1>3. /\ \A i \in 1..n : FrameSound(stack[i])'
      /\ \A i \in 1..(n - 1) : Calls(stack[i], stack[i + 1])'
  BY <1>1, <1>2, BelowKept, Zenon
<1>4. FrameSound(stack[top])'
  <2>1. stack'[top'] = g
    BY <1>1, Zenon DEF top
  <2> QED
    BY <2>1, Zenon DEF FrameSound
<1>5. FramesSound'
  <2>1. top' = top
    BY <1>1, Zenon DEF top
  <2> QED
    BY <1>1, <1>2, <1>3, <1>4, <2>1, Zenon DEF FramesSound
<1>6. ASSUME n \in 1..(top - 1)
      PROVE  Calls(stack[n], stack[n + 1])'
  <2>1. Calls(stack[n], stack[n + 1])
    BY <1>1, <1>6, Zenon DEF CallsSound
  <2>2. stack'[n] = stack[n] /\ stack'[n + 1] = g /\ g.node = stack[n + 1].node /\ text' = text
    BY <1>1, <1>2, <1>6, Zenon DEF Others, Moves, Grows
  <2> QED
    BY <2>1, <2>2, Zenon DEF Calls
<1>7. CallsSound'
  BY <1>1, <1>2, <1>3, <1>6, Zenon DEF CallsSound
<1> QED
  BY <1>5, <1>7
LEMMA NewFrameSound ==
  ASSUME Static, UNCHANGED <<text, real_parent, dies>>, NEW p \in Nat, NEW n \in Node,
         real_parent <= p, p <= Len(dies)
  PROVE  FrameSound(Activation(p, n))'
<1> DEFINE f == Activation(p, n)
<1>1. /\ f.parent = p /\ f.node = n /\ f.at = "nested" /\ f.next = 1 /\ f.nested = <<>>
      /\ f.created = END
  BY DEF Activation
<1>2. Len(text.attrs[n]) \in Nat
  <2>1. text.attrs[n] \in Seq(Value)
    BY StaticFacts, TextFacts, Zenon
  <2> QED
    BY <2>1
<1> HIDE DEF f
<1>3. Range(f.nested) = {}
  BY <1>1 DEF Range
<1>4. Len(f.nested) = f.next - 1 /\ f.next <= Len(text.attrs[n]) + 1
  BY <1>1, <1>2
<1>5. f.at # "attrs" /\ f.at # "children"
  BY <1>1
<1>6. END \in Found'
  BY Zenon DEF Found
<1>7. FrameSound(f)'
  <2>1. text' = text /\ real_parent' = real_parent /\ dies' = dies
    OBVIOUS
  <2>2. Range(f.nested) \subseteq Found'
    BY <1>3, Zenon
  <2> QED
    BY <1>1, <1>4, <1>5, <1>6, <2>1, <2>2, Zenon DEF FrameSound
<1> QED
  BY <1>7 DEF f

LEMMA StartsSound ==
  ASSUME Static, FramesSound, CallsSound, UNCHANGED <<text, real_parent, dies>>,
         NEW p \in Nat, NEW n \in Node, Starts(p, n),
         real_parent <= p, p <= Len(dies),
         top > 0 => Calls(stack[top], Activation(p, n))
  PROVE  FramesSound' /\ CallsSound'
<1> DEFINE a == Activation(p, n)
<1>1. /\ top \in Nat /\ Len(stack') = top + 1 /\ stack'[top + 1] = a /\ Others(top)
      /\ top = Len(stack)
  BY Zenon DEF Starts, top
<1>2. FrameSound(a)'
  BY NewFrameSound
<1> HIDE DEF a
<1>3. Grows /\ text' = text
  BY SameGrows
<1>4. ASSUME NEW i \in 1..top
      PROVE  FrameSound(stack[i])'
  <2>1. CASE i = top
    <3>1. top > 0
      BY <1>1, <2>1
    <3>2. PICK f \in Frame : f = stack[top]
      <4>1. stack \in Seq(Frame)
        BY StaticFacts, Zenon
      <4> QED
        BY <1>1, <2>1, <4>1, ElementOfSeq, Zenon
    <3>3. f.at = "nested" \/ f.at = "children"
      BY <3>1, <3>2, Zenon DEF Calls
    <3>4. f.at # "attrs"
      BY <3>3
    <3>5. FrameSound(f)
      BY <1>1, <2>1, <3>2, Zenon DEF FramesSound
    <3>6. FrameSound(f)'
      BY <1>3, <3>4, <3>5, FrameKept
    <3>7. stack'[i] = f
      BY <1>1, <2>1, <3>2, Zenon DEF Others
    <3> QED
      BY <3>6, <3>7, Zenon DEF FrameSound
  <2>2. CASE i # top
    <3>1. i \in 1..(top - 1) /\ top - 1 \in Nat /\ top - 1 < top /\ \A j \in 1..(top - 1) : j \in 1..top
      BY <1>1, <2>2
    <3>2. Others(top - 1)
      BY <1>1, <3>1, Zenon DEF Others
    <3> QED
      BY <1>3, <3>1, <3>2, BelowKept, Zenon
  <2> QED
    BY <2>1, <2>2
<1>5. FramesSound'
  <2>1. \A i \in 1..(top + 1) : i \in 1..top \/ i = top + 1
    BY <1>1
  <2>2. ASSUME NEW i \in 1..Len(stack')
        PROVE  FrameSound(stack[i])'
    <3>1. CASE i \in 1..top
      BY <1>4, <3>1
    <3>2. CASE i = top + 1
      <4>1. stack'[i] = a
        BY <1>1, <3>2, Zenon
      <4> QED
        BY <1>2, <4>1, Zenon DEF FrameSound
    <3> QED
      BY <1>1, <2>1, <3>1, <3>2, Zenon
  <2> QED
    BY <2>2, Zenon DEF FramesSound
<1>6. CallsSound'
  <2>1. ASSUME NEW i \in 1..(Len(stack') - 1)
        PROVE  Calls(stack[i], stack[i + 1])'
    <3>1. i \in 1..top /\ i <= top /\ top > 0
      BY <1>1
    <3>2. CASE i = top
      <4>1. Calls(stack[top], a)
        BY <3>1 DEF a
      <4>2. stack'[i] = stack[top] /\ stack'[i + 1] = a
        BY <1>1, <3>1, <3>2, Zenon DEF Others
      <4> QED
        BY <1>3, <4>1, <4>2, Zenon DEF Calls
    <3>3. CASE i # top
      <4>1. i \in 1..(Len(stack) - 1) /\ i + 1 \in 1..top
        BY <1>1, <3>1, <3>3
      <4>2. Calls(stack[i], stack[i + 1])
        BY <4>1, Zenon DEF CallsSound
      <4>3. stack'[i] = stack[i] /\ stack'[i + 1] = stack[i + 1]
        BY <1>1, <3>1, <4>1, Zenon DEF Others
      <4> QED
        BY <1>3, <4>2, <4>3, Zenon DEF Calls
    <3> QED
      BY <3>2, <3>3
  <2> QED
    BY <2>1, Zenon DEF CallsSound
<1> QED
  BY <1>5, <1>6

LEMMA ReturnsSound ==
  ASSUME Static, FramesSound, CallsSound, UNCHANGED <<text, real_parent, dies>>,
         top \in Nat \ {0}, stack' \in Seq(Frame), Len(stack') = top - 1, Others(top - 2),
         top > 1 => Calls(stack[top - 1], stack[top]) /\ \E g : Returns(g)
  PROVE  FramesSound' /\ CallsSound'
<1>1. Grows /\ text' = text /\ real_parent' = real_parent /\ dies' = dies
  BY SameGrows
<1>2. top = Len(stack) /\ stack \in Seq(Frame)
  BY StaticFacts, Zenon DEF top
<1>3. CASE top = 1
  <2>1. 1..Len(stack') = {} /\ 1..(Len(stack') - 1) = {}
    BY <1>3
  <2> QED
    BY <2>1, Zenon DEF FramesSound, CallsSound
<1>4. CASE top # 1
  <2>1. top > 1
    BY <1>4
  <2>2. PICK g : Returns(g)
    BY <2>1
  <2>3. PICK m \in Nat \ {0} : m = top - 1 /\ m + 1 = top /\ m - 1 = top - 2 /\ m < top /\ m \in 1..top
    <3>1. \A t \in Nat \ {0} : t > 1 => /\ t - 1 \in Nat \ {0} /\ (t - 1) + 1 = t
                                        /\ (t - 1) - 1 = t - 2 /\ t - 1 < t /\ t - 1 \in 1..t
      OBVIOUS
    <3> QED
      BY <2>1, <3>1, Zenon
  <2>4. PICK f \in Frame : /\ f = stack[m] /\ g \in Frame /\ stack'[m] = g
                           /\ Moves(f, g) /\ g.at = f.at /\ g.created = f.created
                           /\ g.next = f.next + 1
                           /\ g.nested = IF f.at = "nested"
                                         THEN Append(f.nested, stack[top].created) ELSE f.nested
    BY <2>2, <2>3, Zenon DEF Returns
  <2>5. FrameSound(f) /\ Calls(f, stack[top])
    BY <1>2, <2>1, <2>3, <2>4, Zenon DEF FramesSound
  <2>6. f.at = "nested" \/ f.at = "children"
    BY <2>5, Zenon DEF Calls
  <2>7. f.at # "attrs"
    BY <2>6
  <2>8. FrameSound(f)'
    BY <1>1, <2>5, <2>7, FrameKept
  <2>9. stack[top].created \in Found /\ stack[top].created \in Int
    <3>1. top \in 1..Len(stack) /\ stack[top] \in Frame
      <4>1. top \in 1..Len(stack)
        BY <1>2
      <4> QED
        BY <1>2, <4>1, ElementOfSeq, Zenon
    <3>2. FrameSound(stack[top])
      BY <3>1, Zenon DEF FramesSound
    <3> QED
      BY <3>1, <3>2, FrameFields, Zenon DEF FrameSound
  <2>10. FrameSound(g)'
    <3>1. PICK x \in Int : x = stack[top].created /\ x \in Found'
      BY <1>1, <2>9, Zenon DEF Found
    <3>2. f.nested \in Seq(Int) /\ f.next \in Nat \ {0}
      BY FrameFields
    <3>3. CASE f.at = "nested"
      <4>1. g.nested = Append(f.nested, x)
        BY <2>4, <3>1, <3>3, Zenon
      <4>2. Len(g.nested) = g.next - 1
        <5>1. Len(f.nested) = f.next - 1
          BY <2>5, <3>3, Zenon DEF FrameSound
        <5>2. Len(Append(f.nested, x)) = Len(f.nested) + 1
          BY <3>1, <3>2, IntsAppended, Zenon
        <5>3. \A a \in Nat \ {0} : (a - 1) + 1 = (a + 1) - 1
          OBVIOUS
        <5> QED
          BY <2>4, <3>2, <4>1, <5>1, <5>2, <5>3, Zenon
      <4>3. Range(g.nested) \subseteq Found'
        <5>1. Range(Append(f.nested, x)) = Range(f.nested) \cup {x}
          BY <3>1, <3>2, IntsAppended, Zenon
        <5>2. Range(f.nested) \subseteq Found'
          BY <2>8, Zenon DEF FrameSound
        <5> QED
          BY <3>1, <4>1, <5>1, <5>2, Zenon
      <4>4. g.next <= Len(text.attrs[g.node]) + 1
        <5>1. f.next \in 1..Len(text.attrs[f.node])
          <6>1. f.at # "children"
            BY <3>3
          <6> QED
            BY <2>5, <6>1, Zenon DEF Calls
        <5>2. PICK l \in Nat : l = Len(text.attrs[f.node])
          <6>1. text.attrs[f.node] \in Seq(Value)
            BY FrameFields, StaticFacts, TextFacts, Zenon
          <6> QED
            BY <6>1
        <5>3. f.next + 1 <= l + 1
          BY <3>2, <5>1, <5>2
        <5> QED
          BY <2>4, <5>2, <5>3, Zenon DEF Moves
      <4>5. f.at # "children" /\ f.at # "attrs"
        BY <3>3
      <4> QED
        BY <1>1, <2>4, <2>8, <3>3, <4>2, <4>3, <4>4, <4>5, Zenon DEF FrameSound, Moves
    <3>4. CASE f.at = "children"
      <4>1. f.at # "nested" /\ f.at # "attrs"
        BY <3>4
      <4> QED
        BY <2>4, <2>8, <4>1, Zenon DEF FrameSound, Moves
    <3> QED
      BY <2>6, <3>3, <3>4
  <2>11. Others(m - 1)
    BY <2>3, Zenon
  <2>12. PICK n \in Nat : n = m - 1 /\ n < top /\ n + 1 = m
    BY <2>3
  <2>13. /\ \A i \in 1..n : FrameSound(stack[i])'
         /\ \A i \in 1..(n - 1) : Calls(stack[i], stack[i + 1])'
    BY <1>1, <2>11, <2>12, BelowKept, Zenon
  <2>14. FramesSound'
    <3>1. \A i \in 1..m : i \in 1..n \/ i = m
      BY <2>12
    <3>2. FrameSound(g)' /\ stack'[m] = g
      BY <2>4, <2>10
    <3>3. ASSUME NEW i \in 1..Len(stack') PROVE FrameSound(stack[i])'
      <4>1. CASE i \in 1..n
        BY <2>13, <4>1
      <4>2. CASE i = m
        <5>1. stack'[i] = g
          BY <3>2, <4>2
        <5> QED
          BY <2>10, <5>1, Zenon DEF FrameSound
      <4> QED
        BY <2>3, <3>1, <4>1, <4>2, Zenon
    <3> QED
      BY <3>3, Zenon DEF FramesSound
  <2>15. CallsSound'
    <3>1. ASSUME NEW i \in 1..(Len(stack') - 1) PROVE Calls(stack[i], stack[i + 1])'
      <4>0. Len(stack') = m
        BY <2>3, Zenon
      <4>1. i \in 1..n /\ (i \in 1..(n - 1) \/ i = n)
        BY <2>12, <4>0
      <4>2. CASE i \in 1..(n - 1)
        BY <2>13, <4>2
      <4>3. CASE i = n
        <5>1. n \in 1..(Len(stack) - 1) /\ n \in 1..(top - 2)
          BY <1>2, <2>3, <2>12, <4>1, <4>3
        <5>2. Calls(stack[n], stack[n + 1])
          BY <5>1, Zenon DEF CallsSound
        <5>3. stack'[i] = stack[n] /\ stack'[i + 1] = g /\ g.node = stack[n + 1].node
          BY <2>4, <2>12, <4>3, <5>1, Zenon DEF Others, Moves
        <5> QED
          BY <1>1, <5>2, <5>3, Zenon DEF Calls
      <4> QED
        BY <4>1, <4>2, <4>3
    <3> QED
      BY <3>1, Zenon DEF CallsSound
  <2> QED
    BY <2>14, <2>15
<1> QED
  BY <1>3, <1>4
-----------------------------------------------------------------------------
(* Shape is kept.                                                           *)
LEMMA RunningFacts ==
  ASSUME Shape, stack # <<>>
  PROVE  /\ top \in Nat \ {0} /\ top = Len(stack) /\ stack[top] \in Frame
         /\ frame = stack[top] /\ FrameSound(stack[top])
         /\ stack[top].parent \in Nat /\ stack[top].node \in Node
         /\ stack[top].next \in Nat \ {0} /\ stack[top].created \in Int
         /\ stack[top].nested \in Seq(Int)
         /\ attrs \in Seq(Value) /\ DOMAIN attrs = 1..Len(attrs) /\ Len(attrs) \in Nat
         /\ attrs = text.attrs[stack[top].node]
         /\ children \in Seq(Node) /\ DOMAIN children = 1..Len(children) /\ Len(children) \in Nat
         /\ children = text.children[stack[top].node]
<1>1. Static /\ FramesSound
  BY Zenon DEF Shape
<1>2. /\ top \in Nat \ {0} /\ frame = stack[top] /\ frame \in Frame /\ top = Len(stack)
      /\ attrs \in Seq(Value) /\ DOMAIN attrs = 1..Len(attrs) /\ Len(attrs) \in Nat
      /\ attrs = text.attrs[stack[top].node]
      /\ children \in Seq(Node) /\ DOMAIN children = 1..Len(children) /\ Len(children) \in Nat
      /\ children = text.children[stack[top].node]
  BY <1>1, Runs, Zenon DEF top
<1>3. top \in 1..Len(stack)
  BY <1>2
<1>4. FrameSound(stack[top])
  BY <1>1, <1>3, Zenon DEF FramesSound
<1>5. /\ stack[top].parent \in Nat /\ stack[top].node \in Node
      /\ stack[top].next \in Nat \ {0} /\ stack[top].created \in Int
      /\ stack[top].nested \in Seq(Int)
  BY <1>2, FrameFields, Zenon
<1> QED
  BY <1>2, <1>4, <1>5, Zenon

LEMMA DiesKept ==
  ASSUME DiesSound, UNCHANGED <<text, real_parent, dies>>
  PROVE  DiesSound'
<1>1. text' = text /\ real_parent' = real_parent /\ dies' = dies
  OBVIOUS
<1> QED
  BY <1>1, Zenon DEF DiesSound, DieSound, Found

LEMMA TreesKept ==
  ASSUME Static, Grows, TreesSound, UNCHANGED <<todo, postpone>>
  PROVE  TreesSound'
<1>1. Pending' = Pending /\ real_parent' = real_parent
  BY DEF Pending, Grows
<1>2. /\ Pending \in Seq(Tree) /\ Len(dies) \in Nat /\ Len(dies') \in Nat /\ Len(dies) <= Len(dies')
  <2>1. todo \in Seq(Tree) /\ postpone \in Seq(Tree)
    BY StaticFacts, Zenon
  <2>2. Pending \in Seq(Tree)
    BY <2>1 DEF Pending
  <2> QED
    BY <2>2, FoundKept, Zenon
<1>3. ASSUME NEW j \in 1..Len(Pending)
      PROVE  real_parent <= Pending[j].parent /\ Pending[j].parent <= Len(dies')
  <2>1. real_parent <= Pending[j].parent /\ Pending[j].parent <= Len(dies)
    BY Zenon DEF TreesSound
  <2>2. Pending[j] \in Tree
    BY <1>2, ElementOfSeq, Zenon
  <2>3. Pending[j].parent \in Nat
    BY <2>2 DEF Tree
  <2> QED
    BY <1>2, <2>1, <2>3
<1> QED
  BY <1>1, <1>3, Zenon DEF TreesSound

(* A step in which only the activations change.                             *)
LEMMA StackStep ==
  ASSUME Shape, status = "creating",
         UNCHANGED <<text, real_parent, dies, todo, postpone, postponed_pass_n, status>>,
         stack' \in Seq(Frame), FramesSound', CallsSound'
  PROVE  Shape'
<1>1. Static /\ DiesSound /\ TreesSound
  BY Zenon DEF Shape
<1>2. /\ text' = text /\ real_parent' = real_parent /\ dies' = dies /\ todo' = todo
      /\ postpone' = postpone /\ postponed_pass_n' = postponed_pass_n /\ status' = status
  OBVIOUS
<1>3. Static'
  BY <1>1, <1>2, Zenon DEF Static
<1>4. Ends'
  <2>1. status' # "called" /\ status' # "done" /\ status' # "assertion failed"
    BY <1>2
  <2> QED
    BY <2>1, Zenon DEF Ends
<1>5. DiesSound' /\ TreesSound'
  BY <1>1, <1>2, SameGrows, DiesKept, TreesKept
<1> QED
  BY <1>3, <1>4, <1>5, Zenon DEF Shape

LEMMA NotNestedShape ==
  ASSUME Shape, NotNested
  PROVE  Shape'
<1>1. /\ status = "creating" /\ stack # <<>> /\ frame.at = "nested" /\ frame.next \in DOMAIN attrs
      /\ UNCHANGED <<text, real_parent, dies, todo, postpone, postponed_pass_n, status>>
  BY DEF NotNested, Running
<1>2. Static /\ FramesSound /\ CallsSound
  BY Zenon DEF Shape
<1>3. Grows
  BY <1>1, <1>2, SameGrows
<1>4. PICK g : Next1(g) /\ g.nested = Append(stack[top].nested, END)
  BY <1>2, NotNestedDoes, Zenon
<1>5. PICK f \in Frame : f = stack[top] /\ FrameSound(f)
  BY <1>1, RunningFacts, Zenon
<1>6. /\ GoesOn(g) /\ g.parent = f.parent /\ g.node = f.node /\ g.at = f.at
      /\ g.created = f.created /\ g.next = f.next + 1 /\ g.nested = Append(f.nested, END)
      /\ stack' \in Seq(Frame)
  BY <1>4, <1>5, Zenon DEF Next1, GoesOn, Moves
<1>7. f.at = "nested" /\ f.at # "attrs" /\ f.at # "children"
  BY <1>1, <1>5, RunningFacts
<1>8. FrameSound(f)'
  BY <1>2, <1>3, <1>5, <1>7, FrameKept
<1>9. PICK e \in Int : /\ e = END /\ g.nested = Append(f.nested, e)
                       /\ f.nested \in Seq(Int) /\ f.next \in Nat \ {0}
  <2>1. END \in Int
    BY DEF END
  <2> QED
    BY <1>6, <2>1, FrameFields, Zenon
<1>10. Range(g.nested) \subseteq Found'
  <2>1. Range(g.nested) = Range(f.nested) \cup {e}
    BY <1>9, IntsAppended, Zenon
  <2> QED
    BY <1>8, <1>9, <2>1, Zenon DEF FrameSound, Found
<1>11. Len(g.nested) = g.next - 1
  <2>1. Len(f.nested) = f.next - 1
    BY <1>5, <1>7, Zenon DEF FrameSound
  <2>2. Len(Append(f.nested, e)) = Len(f.nested) + 1
    BY <1>9, IntsAppended, Zenon
  <2>3. \A a \in Nat \ {0} : (a - 1) + 1 = (a + 1) - 1
    OBVIOUS
  <2> QED
    BY <1>6, <1>9, <2>1, <2>2, <2>3, Zenon
<1>12. g.next <= Len(text.attrs[f.node]) + 1
  <2>1. PICK l \in Nat : l = Len(text.attrs[f.node]) /\ f.next \in 1..l
    BY <1>1, <1>5, RunningFacts, Zenon
  <2>2. f.next + 1 <= l + 1
    BY <1>9, <2>1
  <2> QED
    BY <1>6, <2>1, <2>2, Zenon
<1>13. FrameSound(g)'
  <2>1. text' = text
    BY <1>1
  <2> QED
    BY <1>6, <1>7, <1>8, <1>10, <1>11, <1>12, <2>1, Zenon DEF FrameSound
<1>14. FramesSound' /\ CallsSound'
  BY <1>2, <1>3, <1>6, <1>13, GoesOnSound
<1> QED
  BY <1>1, <1>6, <1>14, StackStep

LEMMA AllAttributesShape ==
  ASSUME Shape, AllAttributes
  PROVE  Shape'
<1>1. /\ status = "creating" /\ stack # <<>> /\ frame.at = "attrs" /\ frame.next \notin DOMAIN attrs
      /\ UNCHANGED <<text, real_parent, dies, todo, postpone, postponed_pass_n, status>>
  BY DEF AllAttributes, Running
<1>2. Static /\ FramesSound /\ CallsSound /\ DiesSound
  BY Zenon DEF Shape
<1>3. Grows /\ dies' = dies /\ text' = text /\ real_parent' = real_parent
  BY <1>1, <1>2, SameGrows
<1>4. PICK g : Turns(g, "children") /\ g.created = stack[top].created
  BY <1>2, AllAttributesDoes, Zenon
<1>5. PICK f \in Frame : f = stack[top] /\ FrameSound(f)
  BY <1>1, RunningFacts, Zenon
<1>6. /\ GoesOn(g) /\ g.parent = f.parent /\ g.node = f.node /\ g.at = "children"
      /\ g.created = f.created /\ g.nested = f.nested
      /\ stack' \in Seq(Frame)
  BY <1>4, <1>5, Zenon DEF Turns, GoesOn, Moves
<1>7. f.at = "attrs" /\ f.created # END /\ g.at # "nested" /\ g.at # "attrs"
  <2>1. f.at = "attrs"
    BY <1>1, <1>5, RunningFacts, Zenon
  <2> QED
    BY <1>5, <1>6, <2>1 DEF FrameSound
<1>8. dies[f.created].node = f.node /\ Complete(f.created)
  <2>1. PICK c \in 1..Len(dies) : c = f.created
    BY <1>5, <1>7, Zenon DEF FrameSound, Found
  <2>2. /\ dies[c].node = f.node /\ Len(dies[c].refs) = f.next - 1 /\ f.node \in Node
        /\ dies[c].node # NoNode
    BY <1>5, <1>7, <2>1, FrameFields, NoNodeAssumption, Zenon DEF FrameSound
  <2>3. Len(dies[c].refs) <= Len(text.attrs[f.node])
    BY <1>2, <2>2, Zenon DEF DiesSound, DieSound
  <2>4. PICK l \in Nat : l = Len(text.attrs[f.node]) /\ f.next \notin 1..l
    BY <1>1, <1>5, RunningFacts, Zenon
  <2>5. f.next \in Nat \ {0}
    BY FrameFields
  <2>6. f.next - 1 = l
    BY <2>2, <2>3, <2>4, <2>5
  <2> QED
    BY <2>1, <2>2, <2>4, <2>6, Zenon DEF Complete
<1>9. FrameSound(g)'
  <2>1. Complete(f.created)' /\ Found' = Found
    BY <1>3, <1>8, Zenon DEF Complete, Found
  <2> QED
    BY <1>3, <1>5, <1>6, <1>7, <1>8, <2>1, Zenon DEF FrameSound
<1>10. FramesSound' /\ CallsSound'
  BY <1>2, <1>3, <1>6, <1>9, GoesOnSound
<1> QED
  BY <1>1, <1>6, <1>10, StackStep

LEMMA CreateNestedShape ==
  ASSUME Shape, CreateNested
  PROVE  Shape'
<1>1. /\ status = "creating" /\ stack # <<>> /\ frame.at = "nested"
      /\ UNCHANGED <<text, real_parent, dies, todo, postpone, postponed_pass_n, status>>
  BY DEF CreateNested, Running
<1>2. Static /\ FramesSound /\ CallsSound
  BY Zenon DEF Shape
<1>3. PICK f \in Frame : f = stack[top] /\ FrameSound(f) /\ f.at = "nested" /\ f.parent \in Nat
  BY <1>1, RunningFacts, Zenon
<1>4. PICK n \in Node : n = attrs[f.next].to /\ Starts(f.parent, n)
                        /\ attrs[f.next].kind = "die" /\ f.next \in 1..Len(attrs)
  BY <1>2, <1>3, CreateNestedDoes, Zenon
<1>5. real_parent <= f.parent /\ f.parent <= Len(dies)
  BY <1>3, Zenon DEF FrameSound
<1>6. Calls(stack[top], Activation(f.parent, n))
  <2>1. Activation(f.parent, n).node = n
    BY DEF Activation
  <2>2. attrs = text.attrs[f.node]
    BY <1>1, <1>3, RunningFacts, Zenon
  <2> QED
    BY <1>3, <1>4, <2>1, <2>2, Zenon DEF Calls
<1>7. FramesSound' /\ CallsSound'
  <2>1. UNCHANGED <<text, real_parent, dies>>
    BY <1>1
  <2> QED
    BY <1>2, <1>3, <1>4, <1>5, <1>6, <2>1, StartsSound, Zenon
<1>8. stack' \in Seq(Frame)
  BY <1>4, Zenon DEF Starts
<1> QED
  BY <1>1, <1>7, <1>8, StackStep

LEMMA CreateChildShape ==
  ASSUME Shape, CreateChild
  PROVE  Shape'
<1>1. /\ status = "creating" /\ stack # <<>> /\ frame.at = "children" /\ frame.created # END
      /\ UNCHANGED <<text, real_parent, dies, todo, postpone, postponed_pass_n, status>>
  BY DEF CreateChild, Running
<1>2. Static /\ FramesSound /\ CallsSound /\ DiesSound
  BY Zenon DEF Shape
<1>3. PICK f \in Frame : /\ f = stack[top] /\ FrameSound(f) /\ f.at = "children"
                         /\ f.created # END /\ children = text.children[f.node]
  BY <1>1, RunningFacts, Zenon
<1>4. f.created \in 1..Len(dies)
  BY <1>3, Zenon DEF FrameSound, Found
<1>5. PICK p \in Nat : p = f.created /\ real_parent <= p /\ p <= Len(dies)
  <2>1. PICK i \in 1..Len(dies) : i = f.created
    BY <1>4
  <2>2. i = real_parent \/ real_parent <= dies[i].parent
    BY <1>2, Zenon DEF DiesSound, DieSound
  <2>3. dies[i].parent < i
    BY <1>2, Zenon DEF DiesSound, DieSound
  <2>4. real_parent \in {0, 1} /\ dies \in Seq(Die) /\ Len(dies) \in Nat
    BY <1>2, StaticFacts, Zenon
  <2>5. i \in Nat /\ i <= Len(dies) /\ real_parent <= i
    BY <2>1, <2>4
  <2> QED
    BY <2>1, <2>5, Zenon
<1>6. PICK n \in Node : n = children[f.next] /\ Starts(p, n) /\ f.next \in 1..Len(children)
  BY <1>2, <1>3, <1>5, CreateChildDoes, Zenon
<1>7. Calls(stack[top], Activation(p, n))
  <2>1. Activation(p, n).node = n
    BY DEF Activation
  <2> QED
    BY <1>3, <1>6, <2>1, Zenon DEF Calls
<1>8. FramesSound' /\ CallsSound'
  <2>1. UNCHANGED <<text, real_parent, dies>>
    BY <1>1
  <2> QED
    BY <1>2, <1>5, <1>6, <1>7, <2>1, StartsSound, Zenon
<1>9. stack' \in Seq(Frame)
  BY <1>6, Zenon DEF Starts
<1> QED
  BY <1>1, <1>8, <1>9, StackStep

LEMMA ReturnShape ==
  ASSUME Shape, Return
  PROVE  Shape'
<1>1. /\ status = "creating"
      /\ UNCHANGED <<text, real_parent, dies, todo, postpone, postponed_pass_n, status>>
  BY DEF Return, Running
<1>2. Static /\ FramesSound /\ CallsSound
  BY Zenon DEF Shape
<1>3. FramesSound' /\ CallsSound' /\ stack' \in Seq(Frame)
  <2>1. UNCHANGED <<text, real_parent, dies>>
    BY <1>1
  <2> QED
    BY <1>2, <2>1, ReturnDoes, ReturnsSound, Zenon
<1> QED
  BY <1>1, <1>3, StackStep

LEMMA CreateNextShape ==
  ASSUME Shape, CreateNext
  PROVE  Shape'
<1>1. /\ status = "creating" /\ status' = status /\ text' = text /\ real_parent' = real_parent
      /\ dies' = dies /\ postpone' = postpone /\ postponed_pass_n' = postponed_pass_n
  BY DEF CreateNext
<1>2. Static /\ FramesSound /\ CallsSound /\ DiesSound /\ TreesSound
  BY Zenon DEF Shape
<1>3. /\ top = 0 /\ stack = <<>> /\ todo # <<>>
      /\ Starts(Head(todo).parent, Head(todo).node)
      /\ todo' \in Seq(Tree) /\ Len(Pending') = Len(Pending) - 1
      /\ Head(todo) = Pending[1] /\ Head(todo) \in Tree
      /\ \A j \in 1..Len(Pending') : Pending'[j] = Pending[j + 1]
  BY <1>2, CreateNextDoes, Zenon
<1>4. PICK p \in Nat, n \in Node : p = Head(todo).parent /\ n = Head(todo).node
  <2>1. Head(todo).parent \in Nat /\ Head(todo).node \in Node
    BY <1>3 DEF Tree
  <2> QED
    BY <2>1, Zenon
<1>5. PICK l \in Nat \ {0} : l = Len(Pending)
  <2>1. todo \in Seq(Tree) /\ postpone \in Seq(Tree)
    BY <1>2, StaticFacts, Zenon
  <2>2. Len(todo \o postpone) \in Nat \ {0}
    BY <1>3, <2>1
  <2> QED
    BY <2>2, Zenon DEF Pending
<1>6. real_parent <= p /\ p <= Len(dies)
  <2>1. 1 \in 1..l
    BY <1>5
  <2> QED
    BY <1>2, <1>3, <1>4, <1>5, <2>1, Zenon DEF TreesSound
<1>7. FramesSound' /\ CallsSound' /\ stack' \in Seq(Frame)
  <2>1. UNCHANGED <<text, real_parent, dies>> /\ ~(top > 0)
    BY <1>1, <1>3
  <2>2. Starts(p, n)
    BY <1>3, <1>4, Zenon
  <2>3. stack' \in Seq(Frame)
    BY <2>2, Zenon DEF Starts
  <2> QED
    BY <1>2, <1>6, <2>1, <2>2, <2>3, StartsSound, Zenon
<1>8. TreesSound'
  <2>1. ASSUME NEW j \in 1..Len(Pending')
        PROVE  real_parent <= Pending'[j].parent /\ Pending'[j].parent <= Len(dies)
    <3>1. j + 1 \in 1..l
      BY <1>3, <1>5
    <3>2. real_parent <= Pending[j + 1].parent /\ Pending[j + 1].parent <= Len(dies)
      BY <1>2, <1>5, <3>1, Zenon DEF TreesSound
    <3> QED
      BY <1>3, <3>2, Zenon
  <2> QED
    BY <1>1, <2>1, Zenon DEF TreesSound
<1>9. Static'
  BY <1>1, <1>2, <1>3, <1>7, Zenon DEF Static
<1>10. Ends'
  <2>1. status' # "called" /\ status' # "done" /\ status' # "assertion failed"
    BY <1>1
  <2> QED
    BY <2>1, Zenon DEF Ends
<1>11. DiesSound'
  <2>1. UNCHANGED <<text, real_parent, dies>>
    BY <1>1
  <2> QED
    BY <1>2, <2>1, DiesKept
<1> QED
  BY <1>7, <1>8, <1>9, <1>10, <1>11, Zenon DEF Shape

LEMMA MakeNewShape ==
  ASSUME Shape, MakeNew
  PROVE  Shape' /\ Grows
<1>1. /\ status = "creating" /\ status' = status /\ text' = text /\ real_parent' = real_parent
      /\ todo' = todo /\ postpone' = postpone /\ postponed_pass_n' = postponed_pass_n
      /\ stack # <<>> /\ frame.at = "nested" /\ frame.next \notin DOMAIN attrs
  BY DEF MakeNew, Running
<1>2. Static /\ FramesSound /\ CallsSound /\ DiesSound /\ TreesSound
  BY Zenon DEF Shape
<1>3. PICK f \in Frame : /\ f = stack[top] /\ FrameSound(f) /\ f.at = "nested"
                         /\ f.parent \in Nat /\ f.node \in Node /\ f.next \in Nat \ {0}
                         /\ attrs = text.attrs[f.node] /\ Len(attrs) \in Nat
                         /\ f.next \notin 1..Len(attrs)
  BY <1>1, RunningFacts, Zenon
<1>4. PICK g : Turns(g, "attrs") /\ g.created = Len(dies) + 1
  BY <1>2, MakeNewDoes, Zenon
<1>5. /\ dies' \in Seq(Die) /\ Len(dies') = Len(dies) + 1
      /\ \A i \in 1..Len(dies) : dies'[i] = dies[i]
      /\ dies'[Len(dies) + 1] = [node |-> f.node, parent |-> f.parent, refs |-> <<>>]
  BY <1>2, <1>3, MakeNewDoes, Zenon
<1>6. PICK n \in Nat \ {0} : /\ n = Len(dies) + 1 /\ n \in 1..n /\ Len(dies) < n /\ Len(dies) <= n
                             /\ Len(dies) \in Nat /\ n # END
                             /\ \A i \in 1..n : i \in 1..Len(dies) \/ i = n
  <2>1. Len(dies) \in Nat
    BY <1>2, StaticFacts, Zenon
  <2>2. \A m \in Nat : /\ m + 1 \in Nat \ {0} /\ m + 1 \in 1..(m + 1) /\ m < m + 1 /\ m <= m + 1
                       /\ m + 1 # END
                       /\ \A i \in 1..(m + 1) : i \in 1..m \/ i = m + 1
    BY DEF END
  <2> QED
    BY <2>1, <2>2, Zenon
<1>7. dies'[n].node = f.node /\ dies'[n].parent = f.parent /\ dies'[n].refs = <<>>
  BY <1>5, <1>6
<1>8. Grows
  BY <1>1, <1>5, <1>6, Zenon DEF Grows
<1>9. DiesSound'
  <2>1. ASSUME NEW i \in 1..Len(dies)
        PROVE  DieSound(i)'
    <3>1. DieSound(i) /\ dies'[i] = dies[i] /\ text' = text /\ real_parent' = real_parent
      BY <1>1, <1>2, <1>5, Zenon DEF DiesSound
    <3>2. Found \subseteq Found'
      BY <1>2, <1>8, FoundKept
    <3> QED
      BY <3>1, <3>2, Zenon DEF DieSound
  <2>2. DieSound(n)'
    <3>1. f.parent <= Len(dies) /\ real_parent <= f.parent
      BY <1>3, Zenon DEF FrameSound
    <3>2. f.parent < n
      BY <1>3, <1>6, <3>1
    <3>3. Range(<<>>) = {} /\ Len(<<>>) = 0
      BY DEF Range
    <3>4. 0 <= Len(text.attrs[f.node])
      <4>1. \A m \in Nat : 0 <= m
        OBVIOUS
      <4> QED
        BY <1>3, <4>1, Zenon
    <3> QED
      BY <1>1, <1>7, <3>1, <3>2, <3>3, <3>4, Zenon DEF DieSound
  <2> QED
    BY <1>5, <1>6, <2>1, <2>2, Zenon DEF DiesSound
<1>10. TreesSound'
  <2>1. UNCHANGED <<todo, postpone>>
    BY <1>1
  <2> QED
    BY <1>2, <1>8, <2>1, TreesKept
<1>11. /\ GoesOn(g) /\ g.parent = f.parent /\ g.node = f.node /\ g.at = "attrs" /\ g.next = 1
       /\ g.created = n /\ g.nested = f.nested /\ stack' \in Seq(Frame)
  BY <1>3, <1>4, <1>6, Zenon DEF Turns, GoesOn, Moves
<1>12. FrameSound(g)'
  <2>1. FrameSound(f)'
    <3>1. f.at # "attrs"
      BY <1>3
    <3> QED
      BY <1>2, <1>3, <1>8, <3>1, FrameKept
  <2>2. Len(f.nested) = Len(text.attrs[f.node])
    <3>1. Len(f.nested) = f.next - 1 /\ f.next <= Len(attrs) + 1
      BY <1>3, Zenon DEF FrameSound
    <3>2. f.next - 1 = Len(attrs)
      <4>1. \A a \in Nat \ {0}, l \in Nat : a \notin 1..l /\ a <= l + 1 => a - 1 = l
        OBVIOUS
      <4> QED
        BY <1>3, <3>1, <4>1, Zenon
    <3> QED
      BY <1>3, <3>1, <3>2, Zenon
  <2>3. Len(<<>>) = 1 - 1
    OBVIOUS
  <2>4. g.at # "nested" /\ g.at # "children" /\ n \in Found'
    BY <1>5, <1>6, <1>11 DEF Found
  <2> QED
    BY <1>1, <1>6, <1>7, <1>11, <2>1, <2>2, <2>3, <2>4, Zenon DEF FrameSound
<1>13. FramesSound' /\ CallsSound'
  BY <1>2, <1>8, <1>11, <1>12, GoesOnSound
<1>14. Static'
  <2>1. real_parent <= Len(dies')
    <3>1. real_parent \in {0, 1} /\ real_parent <= Len(dies)
      BY <1>2, StaticFacts, Zenon
    <3>2. real_parent <= n
      BY <1>6, <3>1
    <3> QED
      BY <1>5, <1>6, <3>2, Zenon
  <2> QED
    BY <1>1, <1>2, <1>5, <1>11, <2>1, Zenon DEF Static
<1>15. Ends'
  <2>1. status' # "called" /\ status' # "done" /\ status' # "assertion failed"
    BY <1>1
  <2> QED
    BY <2>1, Zenon DEF Ends
<1> QED
  BY <1>8, <1>9, <1>10, <1>13, <1>14, <1>15, Zenon DEF Shape

(* The attribute goes to the DIE of the activation, which lacks it.         *)
Sets(c, v) == /\ c = stack[top].created /\ v = make_attribute_value
              /\ dies[c].node = stack[top].node
              /\ Len(dies[c].refs) = stack[top].next - 1
              /\ stack[top].next <= Len(text.attrs[stack[top].node])
              /\ dies' \in Seq(Die) /\ Len(dies') = Len(dies)
              /\ dies'[c].node = dies[c].node /\ dies'[c].parent = dies[c].parent
              /\ dies'[c].refs = Append(dies[c].refs, v)
              /\ \A i \in 1..Len(dies) : i # c => dies'[i] = dies[i]

RefAdded(ds, es, c, v) == /\ es \in Seq(Die) /\ Len(es) = Len(ds)
                          /\ es[c].node = ds[c].node /\ es[c].parent = ds[c].parent
                          /\ es[c].refs = Append(ds[c].refs, v)
                          /\ \A i \in 1..Len(ds) : i # c => es[i] = ds[i]

LEMMA WithRef ==
  ASSUME NEW ds \in Seq(Die), NEW c \in 1..Len(ds), NEW v \in Int
  PROVE  RefAdded(ds, [ds EXCEPT ![c].refs = Append(@, v)], c, v)
<1> DEFINE es == [ds EXCEPT ![c].refs = Append(@, v)]
<1>1. ds[c] \in Die
  BY ElementOfSeq
<1>2. PICK d \in Die : d = ds[c] /\ d.refs \in Seq(Int)
  BY <1>1 DEF Die
<1>3. PICK r \in Seq(Int) : r = Append(d.refs, v)
  <2>1. Append(d.refs, v) \in Seq(Int)
    BY <1>2
  <2> QED
    BY <2>1, Zenon
<1>4. PICK e \in Die : e = [d EXCEPT !.refs = r] /\ e.node = d.node /\ e.parent = d.parent /\ e.refs = r
  <2>1. /\ [d EXCEPT !.refs = r] \in Die /\ [d EXCEPT !.refs = r].node = d.node
        /\ [d EXCEPT !.refs = r].parent = d.parent /\ [d EXCEPT !.refs = r].refs = r
    BY DEF Die
  <2> QED
    BY <2>1, Zenon
<1>5. es = [ds EXCEPT ![c] = e]
  BY <1>2, <1>3, <1>4, Zenon
<1>6. /\ [ds EXCEPT ![c] = e] \in Seq(Die) /\ Len([ds EXCEPT ![c] = e]) = Len(ds)
      /\ [ds EXCEPT ![c] = e][c] = e
      /\ \A i \in 1..Len(ds) : i # c => [ds EXCEPT ![c] = e][i] = ds[i]
  BY ExceptSeq
<1> HIDE DEF es
<1>7. RefAdded(ds, es, c, v)
  BY <1>2, <1>3, <1>4, <1>5, <1>6, Zenon DEF RefAdded
<1> QED
  BY <1>7 DEF es

LEMMA SetAttributeSets ==
  ASSUME Shape, SetAttribute
  PROVE  /\ \E c \in 1..Len(dies), v \in Found : Sets(c, v)
         /\ value.kind = "ident" => make_attribute_value \in Called(value.to)
<1>1. /\ stack # <<>> /\ frame.at = "attrs" /\ frame.next \in DOMAIN attrs
      /\ value.kind = "die" \/ make_attribute_value # END
      /\ dies' = [dies EXCEPT ![frame.created].refs = Append(@, make_attribute_value)]
  BY Zenon DEF SetAttribute, Running
<1>2. Static /\ DiesSound
  BY Zenon DEF Shape
<1>3. PICK f \in Frame : /\ f = stack[top] /\ f = frame /\ FrameSound(f) /\ f.at = "attrs"
                         /\ attrs = text.attrs[f.node] /\ attrs \in Seq(Value)
                         /\ f.next \in 1..Len(attrs) /\ f.nested \in Seq(Int)
  BY <1>1, RunningFacts, Zenon
<1>4. /\ f.created # END /\ dies[f.created].node = f.node /\ Len(dies[f.created].refs) = f.next - 1
      /\ Len(f.nested) = Len(attrs) /\ Range(f.nested) \subseteq Found /\ f.created \in Found
  BY <1>3, Zenon DEF FrameSound
<1>5. PICK c \in 1..Len(dies) : c = f.created
  BY <1>4, Zenon DEF Found
<1>6. value \in Value /\ value = attrs[f.next] /\ (value.kind = "die" \/ value.kind = "ident")
  <2>1. value = attrs[f.next]
    BY <1>3, Zenon DEF value
  <2>2. attrs[f.next] \in Value
    BY <1>3, ElementOfSeq, Zenon
  <2>3. \A u \in Value : u.kind = "die" \/ u.kind = "ident"
    BY DEF Value
  <2> QED
    BY <2>1, <2>2, <2>3, Zenon
<1>7. value.kind = "ident" =>
        make_attribute_value \in Called(value.to) /\ make_attribute_value \in Found
  <2> SUFFICES ASSUME value.kind = "ident"
               PROVE  make_attribute_value \in Called(value.to) /\ make_attribute_value \in Found
    BY Zenon
  <2>1. value.kind # "die"
    OBVIOUS
  <2>2. make_attribute_value = scoped_resolve(c, value.to)
    BY <1>3, <1>5, <2>1, Zenon DEF make_attribute_value
  <2>3. c \in 0..Len(dies)
    <3>1. Len(dies) \in Nat
      BY <1>2, StaticFacts, Zenon
    <3> QED
      BY <3>1
  <2>4. make_attribute_value \in Called(value.to)
    BY <1>1, <1>2, <2>1, <2>2, <2>3, Resolves, Zenon
  <2>5. DOMAIN dies = 1..Len(dies)
    <3>1. dies \in Seq(Die)
      BY <1>2, StaticFacts, Zenon
    <3> QED
      BY <3>1
  <2> QED
    BY <2>4, <2>5, Zenon DEF Called, Found
<1>8. value.kind = "die" => make_attribute_value \in Found
  <2> SUFFICES ASSUME value.kind = "die" PROVE make_attribute_value \in Found
    BY Zenon
  <2>1. make_attribute_value = f.nested[f.next]
    BY <1>3, Zenon DEF make_attribute_value
  <2>2. f.next \in DOMAIN f.nested
    BY <1>3, <1>4
  <2>3. f.nested[f.next] \in Range(f.nested)
    BY <2>2, Zenon DEF Range
  <2> QED
    BY <1>4, <2>1, <2>3, Zenon
<1>9. PICK v \in Found : v = make_attribute_value
  BY <1>6, <1>7, <1>8, Zenon
<1>10. v \in Int
  <2>1. Len(dies) \in Nat
    BY <1>2, StaticFacts, Zenon
  <2> QED
    BY <2>1 DEF Found, END
<1>11. /\ dies' \in Seq(Die) /\ Len(dies') = Len(dies)
       /\ dies'[c].node = dies[c].node /\ dies'[c].parent = dies[c].parent
       /\ dies'[c].refs = Append(dies[c].refs, v)
       /\ \A i \in 1..Len(dies) : i # c => dies'[i] = dies[i]
  <2>1. dies' = [dies EXCEPT ![c].refs = Append(@, v)]
    BY <1>1, <1>3, <1>5, <1>9, Zenon
  <2>0. PICK es : es = dies'
    OBVIOUS
  <2>2. PICK ds \in Seq(Die) : ds = dies /\ c \in 1..Len(ds)
    BY <1>2, StaticFacts, Zenon
  <2>3. RefAdded(ds, [ds EXCEPT ![c].refs = Append(@, v)], c, v)
    BY <1>10, <2>2, WithRef, Zenon
  <2>4. RefAdded(ds, es, c, v)
    BY <2>0, <2>1, <2>2, <2>3, Zenon
  <2> QED
    BY <2>0, <2>2, <2>4, Zenon DEF RefAdded
<1>12. f.next <= Len(text.attrs[f.node])
  <2>1. PICK l \in Nat : l = Len(attrs) /\ f.next \in 1..l
    BY <1>3
  <2> QED
    BY <1>3, <2>1
<1>13. Sets(c, v)
  BY <1>3, <1>4, <1>5, <1>9, <1>11, <1>12, Zenon DEF Sets
<1> QED
  BY <1>7, <1>13, Zenon

LEMMA SetAttributeShape ==
  ASSUME Shape, SetAttribute
  PROVE  Shape' /\ Grows
<1>1. /\ status = "creating" /\ status' = status /\ text' = text /\ real_parent' = real_parent
      /\ todo' = todo /\ postpone' = postpone /\ postponed_pass_n' = postponed_pass_n
      /\ stack # <<>> /\ frame.at = "attrs"
  BY DEF SetAttribute, Running
<1>2. Static /\ FramesSound /\ CallsSound /\ DiesSound /\ TreesSound
  BY Zenon DEF Shape
<1>3. PICK f \in Frame : /\ f = stack[top] /\ FrameSound(f) /\ f.at = "attrs"
                         /\ f.node \in Node /\ f.next \in Nat \ {0}
  BY <1>1, RunningFacts, Zenon
<1>4. PICK c \in 1..Len(dies), v \in Found : Sets(c, v)
  BY SetAttributeSets
<1>5. /\ c = f.created /\ dies[c].node = f.node /\ Len(dies[c].refs) = f.next - 1
      /\ f.next <= Len(text.attrs[f.node])
      /\ dies' \in Seq(Die) /\ Len(dies') = Len(dies)
      /\ dies'[c].node = dies[c].node /\ dies'[c].parent = dies[c].parent
      /\ dies'[c].refs = Append(dies[c].refs, v)
      /\ \A i \in 1..Len(dies) : i # c => dies'[i] = dies[i]
  BY <1>3, <1>4, Zenon DEF Sets
<1>6. Found' = Found /\ v \in Int
  <2>1. Len(dies) \in Nat
    BY <1>2, StaticFacts, Zenon
  <2>2. v \in Int
    BY <2>1 DEF Found, END
  <2> QED
    BY <1>5, <2>2, Zenon DEF Found
<1>7. /\ Range(dies'[c].refs) = Range(dies[c].refs) \cup {v}
      /\ Len(dies'[c].refs) = f.next
  <2>1. dies[c] \in Die
    BY <1>2, StaticFacts, ElementOfSeq, Zenon
  <2>2. dies[c].refs \in Seq(Int)
    BY <2>1 DEF Die
  <2>3. Range(Append(dies[c].refs, v)) = Range(dies[c].refs) \cup {v}
    <3>1. PICK r \in Seq(Int), x \in Int : r = dies[c].refs /\ x = v
      BY <1>6, <2>2, Zenon
    <3>2. Range(Append(r, x)) = Range(r) \cup {x}
      BY RangeAppend
    <3> QED
      BY <3>1, <3>2, Zenon
  <2>4. Len(Append(dies[c].refs, v)) = Len(dies[c].refs) + 1
    BY <1>6, <2>2, IntsAppended, Zenon
  <2>5. \A a \in Nat \ {0} : (a - 1) + 1 = a
    OBVIOUS
  <2>6. dies'[c].refs = Append(dies[c].refs, v)
    BY <1>5, Zenon
  <2>7. Len(dies'[c].refs) = f.next
    BY <1>3, <1>5, <2>4, <2>5, <2>6, Zenon
  <2>8. Range(dies'[c].refs) = Range(Append(dies[c].refs, v))
    BY <2>6, Zenon
  <2> QED
    BY <2>3, <2>7, <2>8, Zenon
<1>8. ~Complete(c)
  <2>1. PICK l \in Nat : l = Len(text.attrs[f.node])
    <3>1. text.attrs[f.node] \in Seq(Value)
      BY <1>2, <1>3, StaticFacts, TextFacts, Zenon
    <3> QED
      BY <3>1
  <2>2. f.next \in Nat \ {0} /\ f.next <= l
    BY <1>3, <1>5, <2>1, Zenon
  <2>3. \A a \in Nat \ {0} : a <= l => a - 1 # l
    OBVIOUS
  <2>4. f.next - 1 # l
    BY <2>2, <2>3, Zenon
  <2> QED
    BY <1>5, <2>1, <2>4, Zenon DEF Complete
<1>9. Grows
  <2>1. Len(dies') \in Nat /\ Len(dies) <= Len(dies')
    <3>1. Len(dies) \in Nat
      BY <1>2, StaticFacts, Zenon
    <3>2. \A m \in Nat : m <= m
      OBVIOUS
    <3> QED
      BY <1>5, <3>1, <3>2, Zenon
  <2> QED
    BY <1>1, <1>5, <1>8, <2>1, Zenon DEF Grows
<1>10. DiesSound'
  <2>1. ASSUME NEW i \in 1..Len(dies)
        PROVE  DieSound(i)'
    <3>1. DieSound(i)
      BY <1>2, Zenon DEF DiesSound
    <3>2. CASE i = c
      <4>1. Range(dies'[i].refs) \subseteq Found
        BY <1>7, <3>1, <3>2, Zenon DEF DieSound
      <4> QED
        BY <1>1, <1>5, <1>6, <1>7, <3>1, <3>2, <4>1, Zenon DEF DieSound
    <3>3. CASE i # c
      BY <1>1, <1>5, <1>6, <3>1, <3>3, Zenon DEF DieSound
    <3> QED
      BY <3>2, <3>3
  <2> QED
    BY <1>5, <2>1, Zenon DEF DiesSound
<1>11. TreesSound'
  <2>1. UNCHANGED <<todo, postpone>>
    BY <1>1
  <2> QED
    BY <1>2, <1>9, <2>1, TreesKept
<1>12. PICK g : Next1(g) /\ g.nested = stack[top].nested
  BY <1>2, SetAttributeDoes, Zenon
<1>13. /\ GoesOn(g) /\ g.parent = f.parent /\ g.node = f.node /\ g.at = "attrs"
       /\ g.next = f.next + 1 /\ g.created = c /\ g.nested = f.nested /\ stack' \in Seq(Frame)
  BY <1>3, <1>5, <1>12, Zenon DEF Next1, GoesOn, Moves
<1>14. FrameSound(g)'
  <2>1. g.at # "nested" /\ g.at # "children"
    BY <1>13
  <2>2. f.next = g.next - 1
    <3>1. \A a \in Nat \ {0} : a = (a + 1) - 1
      OBVIOUS
    <3> QED
      BY <1>3, <1>13, <3>1, Zenon
  <2> QED
    BY <1>1, <1>3, <1>5, <1>6, <1>7, <1>13, <2>1, <2>2, Zenon DEF FrameSound
<1>15. FramesSound' /\ CallsSound'
  BY <1>2, <1>9, <1>13, <1>14, GoesOnSound
<1>16. Static'
  BY <1>1, <1>2, <1>5, <1>13, Zenon DEF Static
<1>17. Ends'
  <2>1. status' # "called" /\ status' # "done" /\ status' # "assertion failed"
    BY <1>1
  <2> QED
    BY <2>1, Zenon DEF Ends
<1> QED
  BY <1>9, <1>10, <1>11, <1>15, <1>16, <1>17, Zenon DEF Shape

(* The tree of the activation goes to the end of the pending ones.          *)
LEMMA PostponePends ==
  ASSUME Shape, Postpone
  PROVE  /\ postpone' \in Seq(Tree) /\ Len(postpone') = Len(postpone) + 1
         /\ \A j \in 1..Len(postpone) : postpone'[j] = postpone[j]
         /\ postpone'[Len(postpone) + 1] = Entry(stack[top].parent, stack[top].node)
         /\ Len(Pending) \in Nat /\ Len(Pending') = Len(Pending) + 1
         /\ \A j \in 1..Len(Pending) : Pending'[j] = Pending[j]
         /\ Pending'[Len(Pending) + 1] = Entry(stack[top].parent, stack[top].node)
<1>1. /\ stack # <<>> /\ todo' = todo
      /\ postpone' = Append(postpone, Entry(frame.parent, frame.node))
  BY DEF Postpone, Running
<1>2. PICK t \in Seq(Tree), p \in Seq(Tree) : t = todo /\ p = postpone
  BY StaticFacts, Zenon DEF Shape
<1>3. PICK e \in Tree : e = Entry(stack[top].parent, stack[top].node) /\ e = Entry(frame.parent, frame.node)
  <2>1. stack[top].parent \in Nat /\ stack[top].node \in Node /\ frame = stack[top]
    BY <1>1, RunningFacts, Zenon
  <2>2. Entry(stack[top].parent, stack[top].node) \in Tree
    BY <2>1 DEF Entry, Tree
  <2> QED
    BY <2>1, <2>2, Zenon
<1>4. postpone' = Append(p, e)
  BY <1>1, <1>2, <1>3, Zenon
<1>5. /\ Append(p, e) \in Seq(Tree) /\ Len(Append(p, e)) = Len(p) + 1
      /\ \A j \in 1..Len(p) : Append(p, e)[j] = p[j]
      /\ Append(p, e)[Len(p) + 1] = e
      /\ Len(t \o p) \in Nat /\ Len(t \o Append(p, e)) = Len(t \o p) + 1
      /\ \A j \in 1..Len(t \o p) : (t \o Append(p, e))[j] = (t \o p)[j]
      /\ (t \o Append(p, e))[Len(t \o p) + 1] = e
  OBVIOUS
<1>6. Pending = t \o p /\ Pending' = t \o Append(p, e)
  BY <1>1, <1>2, <1>4, Zenon DEF Pending
<1> QED
  BY <1>2, <1>3, <1>4, <1>5, <1>6, Zenon

LEMMA PostponeShape ==
  ASSUME Shape, Postpone
  PROVE  Shape'
<1>1. /\ status = "creating" /\ status' = status /\ text' = text /\ real_parent' = real_parent
      /\ todo' = todo /\ dies' = dies /\ postponed_pass_n' = postponed_pass_n
      /\ stack # <<>>
  BY DEF Postpone, Running
<1>2. Static /\ FramesSound /\ CallsSound /\ DiesSound /\ TreesSound
  BY Zenon DEF Shape
<1>3. Grows
  <2>1. UNCHANGED <<text, real_parent, dies>>
    BY <1>1
  <2> QED
    BY <1>2, <2>1, SameGrows
<1>4. PICK f \in Frame : f = stack[top] /\ FrameSound(f)
  BY <1>1, RunningFacts, Zenon
<1>5. PICK g : Turns(g, "children") /\ g.created = END
  BY <1>2, PostponeDoes, Zenon
<1>6. /\ GoesOn(g) /\ g.parent = f.parent /\ g.node = f.node /\ g.at = "children"
      /\ g.created = END /\ g.nested = f.nested /\ stack' \in Seq(Frame)
  BY <1>4, <1>5, Zenon DEF Turns, GoesOn, Moves
<1>7. FrameSound(g)'
  <2>1. g.at # "nested" /\ g.at # "attrs"
    BY <1>6
  <2> QED
    BY <1>1, <1>4, <1>6, <2>1, Zenon DEF FrameSound, Found
<1>8. FramesSound' /\ CallsSound'
  BY <1>2, <1>3, <1>6, <1>7, GoesOnSound
<1>9. postpone' \in Seq(Tree)
  BY PostponePends, Zenon
<1>10. TreesSound'
  <2>1. ASSUME NEW j \in 1..Len(Pending')
        PROVE  real_parent <= Pending'[j].parent /\ Pending'[j].parent <= Len(dies)
    <3>1. PICK l \in Nat : l = Len(Pending) /\ Len(Pending') = l + 1
      BY PostponePends, Zenon
    <3>2. CASE j \in 1..l
      <4>1. Pending'[j] = Pending[j]
        BY <3>1, <3>2, PostponePends, Zenon
      <4> QED
        BY <1>2, <3>1, <3>2, <4>1, Zenon DEF TreesSound
    <3>3. CASE j = l + 1
      <4>1. Pending'[j] = Entry(f.parent, f.node)
        BY <1>4, <3>1, <3>3, PostponePends, Zenon
      <4>2. Entry(f.parent, f.node).parent = f.parent
        BY DEF Entry
      <4> QED
        BY <1>4, <4>1, <4>2, Zenon DEF FrameSound
    <3> QED
      BY <3>1, <3>2, <3>3
  <2> QED
    BY <1>1, <2>1, Zenon DEF TreesSound
<1>11. Static'
  BY <1>1, <1>2, <1>6, <1>9, Zenon DEF Static
<1>12. Ends'
  <2>1. status' # "called" /\ status' # "done" /\ status' # "assertion failed"
    BY <1>1
  <2> QED
    BY <2>1, Zenon DEF Ends
<1>13. DiesSound'
  <2>1. UNCHANGED <<text, real_parent, dies>>
    BY <1>1
  <2> QED
    BY <1>2, <2>1, DiesKept
<1> QED
  BY <1>8, <1>10, <1>11, <1>12, <1>13, Zenon DEF Shape

LEMMA PassPends ==
  ASSUME Static, PostponedPass
  PROVE  Pending' = Pending /\ Pending = postpone /\ todo' = postpone /\ postpone' = <<>>
<1>1. todo = <<>> /\ todo' = postpone /\ postpone' = <<>>
  BY DEF PostponedPass, PassOver
<1>2. PICK p \in Seq(Tree) : p = postpone
  BY StaticFacts, Zenon
<1>3. <<>> \o p = p /\ p \o <<>> = p
  OBVIOUS
<1> QED
  BY <1>1, <1>2, <1>3, Zenon DEF Pending

LEMMA PostponedPassShape ==
  ASSUME Shape, PostponedPass
  PROVE  Shape'
<1>1. /\ status = "creating" /\ status' = status /\ text' = text /\ real_parent' = real_parent
      /\ dies' = dies /\ stack' = stack /\ postponed_pass_n' = postponed_pass_n + 1
  BY DEF PostponedPass, PassOver
<1>2. Static /\ FramesSound /\ CallsSound /\ DiesSound /\ TreesSound
  BY Zenon DEF Shape
<1>3. Pending' = Pending /\ todo' = postpone /\ postpone' = <<>>
  BY <1>2, PassPends
<1>4. TreesSound'
  BY <1>1, <1>2, <1>3, Zenon DEF TreesSound
<1>5. DiesSound'
  <2>1. UNCHANGED <<text, real_parent, dies>>
    BY <1>1
  <2> QED
    BY <1>2, <2>1, DiesKept
<1>6. FramesSound' /\ CallsSound'
  BY <1>1, <1>2, Zenon DEF FramesSound, CallsSound, FrameSound, Calls, Found, Complete
<1>7. Static'
  <2>1. postponed_pass_n' \in Nat
    <3>1. postponed_pass_n \in Nat
      BY <1>2, StaticFacts, Zenon
    <3> QED
      BY <1>1, <3>1
  <2>2. <<>> \in Seq(Tree)
    OBVIOUS
  <2> QED
    BY <1>1, <1>2, <1>3, <2>1, <2>2, Zenon DEF Static
<1>8. Ends'
  <2>1. status' # "called" /\ status' # "done" /\ status' # "assertion failed"
    BY <1>1
  <2> QED
    BY <2>1, Zenon DEF Ends
<1> QED
  BY <1>4, <1>5, <1>6, <1>7, <1>8, Zenon DEF Shape

LEMMA ChooseParentDoes ==
  ASSUME Shape, ChooseParent
  PROVE  /\ stack' = stack /\ stack = <<>> /\ postpone' = postpone /\ postpone = <<>>
         /\ postponed_pass_n' = 0 /\ text' = text /\ status' = "creating"
         /\ todo' \in Seq(Tree) /\ Len(todo') = Len(text.top)
         /\ \A j \in 1..Len(text.top) : /\ todo'[j].parent = real_parent'
                                        /\ todo'[j].node = text.top[j]
         /\ \/ dies' = <<>> /\ real_parent' = 0
            \/ dies' = <<[node |-> NoNode, parent |-> 0, refs |-> <<>>]>> /\ real_parent' = 1
<1>1. PICK p \in {0, 1} :
         /\ \/ dies' = <<>> /\ p = 0
            \/ dies' = <<[node |-> NoNode, parent |-> 0, refs |-> <<>>]>> /\ p = 1
         /\ real_parent' = p
         /\ todo' = [i \in DOMAIN text.top |-> Entry(p, text.top[i])]
         /\ status = "called" /\ status' = "creating" /\ text' = text /\ stack' = stack
         /\ postpone' = postpone /\ postponed_pass_n' = postponed_pass_n
  <2> DEFINE adds_cu == top_tag_keyword \notin text.compile_unit /\ ~text.under_cu
             parent == IF adds_cu THEN 1 ELSE Given
  <2>1. /\ status = "called"
        /\ dies' = IF adds_cu THEN <<[node |-> NoNode, parent |-> Given, refs |-> <<>>]>> ELSE <<>>
        /\ real_parent' = parent
        /\ todo' = [i \in DOMAIN text.top |-> Entry(parent, text.top[i])]
        /\ status' = "creating" /\ text' = text /\ stack' = stack
        /\ postpone' = postpone /\ postponed_pass_n' = postponed_pass_n
    BY DEF ChooseParent
  <2> HIDE DEF adds_cu
  <2>2. CASE adds_cu
    <3>1. parent = 1 /\ 1 \in {0, 1}
      BY <2>2
    <3> QED
      BY <2>1, <2>2, <3>1, Zenon DEF Given
  <2>3. CASE ~adds_cu
    <3>1. parent = 0 /\ 0 \in {0, 1}
      BY <2>3 DEF Given
    <3> QED
      BY <2>1, <2>3, <3>1, Zenon DEF Given
  <2> QED
    BY <2>2, <2>3, Zenon
<1>2. stack = <<>> /\ postpone = <<>> /\ postponed_pass_n = 0
  BY <1>1, Zenon DEF Shape, Ends
<1>3. PICK t \in Seq(Node) : t = text.top
  BY StaticFacts, TextFacts, Zenon DEF Shape
<1>4. p \in Nat
  OBVIOUS
<1>5. /\ [i \in DOMAIN t |-> Entry(p, t[i])] \in Seq(Tree)
      /\ Len([i \in DOMAIN t |-> Entry(p, t[i])]) = Len(t)
      /\ \A j \in 1..Len(t) : [i \in DOMAIN t |-> Entry(p, t[i])][j] = Entry(p, t[j])
  <2> DEFINE s == [i \in DOMAIN t |-> Entry(p, t[i])]
  <2>1. PICK n \in Nat : n = Len(t) /\ DOMAIN t = 1..n /\ \A j \in 1..n : t[j] \in Node
    BY ElementOfSeq
  <2>2. \A j \in 1..n : Entry(p, t[j]) \in Tree
    BY <1>4, <2>1 DEF Entry, Tree
  <2>3. s = [i \in 1..n |-> Entry(p, t[i])]
    BY <2>1, Zenon
  <2>4. s \in [1..n -> Tree] /\ \A j \in 1..n : s[j] = Entry(p, t[j])
    BY <2>2, <2>3, Zenon
  <2> HIDE DEF s
  <2>5. s \in Seq(Tree) /\ Len(s) = n
    <3>1. \A m \in Nat : \A u \in [1..m -> Tree] : u \in Seq(Tree) /\ Len(u) = m
      OBVIOUS
    <3> QED
      BY <2>4, <3>1, Zenon
  <2> QED
    BY <2>1, <2>4, <2>5, Zenon DEF s
<1>6. \A j : Entry(p, t[j]).parent = p /\ Entry(p, t[j]).node = t[j]
  BY DEF Entry
<1>7. /\ todo' \in Seq(Tree) /\ Len(todo') = Len(text.top)
      /\ \A j \in 1..Len(text.top) : todo'[j].parent = p /\ todo'[j].node = text.top[j]
  <2>1. todo' = [i \in DOMAIN t |-> Entry(p, t[i])]
    BY <1>1, <1>3, Zenon
  <2>2. todo' \in Seq(Tree) /\ Len(todo') = Len(t)
    BY <1>5, <2>1, Zenon
  <2>3. \A j \in 1..Len(t) : todo'[j] = Entry(p, t[j])
    BY <1>5, <2>1, Zenon
  <2>4. \A j \in 1..Len(t) : todo'[j].parent = p /\ todo'[j].node = t[j]
    BY <1>6, <2>3, Zenon
  <2> QED
    BY <1>3, <2>2, <2>4, Zenon
<1> QED
  BY <1>1, <1>2, <1>7, Zenon

LEMMA ChooseParentShape ==
  ASSUME Shape, ChooseParent
  PROVE  Shape'
<1>1. /\ stack' = <<>> /\ postpone' = <<>>
      /\ postponed_pass_n' = 0 /\ text' = text /\ status' = "creating"
      /\ todo' \in Seq(Tree) /\ Len(todo') = Len(text.top)
      /\ \A j \in 1..Len(text.top) : todo'[j].parent = real_parent'
      /\ \/ dies' = <<>> /\ real_parent' = 0
         \/ dies' = <<[node |-> NoNode, parent |-> 0, refs |-> <<>>]>> /\ real_parent' = 1
  BY ChooseParentDoes, Zenon
<1>2. Text(text)
  BY Zenon DEF Shape, Static
<1>3. PICK d \in Die : /\ d = [node |-> NoNode, parent |-> 0, refs |-> <<>>]
                       /\ d.node = NoNode /\ d.parent = 0 /\ d.refs = <<>>
  <2>1. [node |-> NoNode, parent |-> 0, refs |-> <<>>] \in Die
    BY DEF Die
  <2>2. /\ [node |-> NoNode, parent |-> 0, refs |-> <<>>].node = NoNode
        /\ [node |-> NoNode, parent |-> 0, refs |-> <<>>].parent = 0
        /\ [node |-> NoNode, parent |-> 0, refs |-> <<>>].refs = <<>>
    OBVIOUS
  <2> QED
    BY <2>1, <2>2, Zenon
<1>4. /\ dies' \in Seq(Die) /\ real_parent' \in {0, 1} /\ real_parent' = Len(dies')
      /\ \A i \in 1..Len(dies') : i = 1 /\ dies'[i] = d /\ real_parent' = i
  <2>1. CASE dies' = <<>> /\ real_parent' = 0
    <3>1. <<>> \in Seq(Die) /\ 0 \in {0, 1} /\ 0 = Len(<<>>) /\ 1..Len(<<>>) = {}
      OBVIOUS
    <3> QED
      BY <2>1, <3>1, Zenon
  <2>2. CASE dies' = <<[node |-> NoNode, parent |-> 0, refs |-> <<>>]>> /\ real_parent' = 1
    <3>1. dies' = <<d>>
      BY <1>3, <2>2, Zenon
    <3>2. /\ <<d>> \in Seq(Die) /\ 1 \in {0, 1} /\ 1 = Len(<<d>>)
          /\ \A i \in 1..Len(<<d>>) : i = 1 /\ <<d>>[i] = d
      OBVIOUS
    <3> QED
      BY <2>2, <3>1, <3>2, Zenon
  <2> QED
    BY <1>1, <2>1, <2>2
<1>5. Static'
  <2>1. /\ stack' \in Seq(Frame) /\ postpone' \in Seq(Tree) /\ postponed_pass_n' \in Nat
        /\ real_parent' <= Len(dies')
    BY <1>1, <1>4
  <2> QED
    BY <1>1, <1>2, <1>4, <2>1, Zenon DEF Static
<1>6. Ends'
  <2>1. status' # "called" /\ status' # "done" /\ status' # "assertion failed"
    BY <1>1
  <2> QED
    BY <2>1, Zenon DEF Ends
<1>7. DiesSound'
  <2>1. 0 < 1 /\ Range(<<>>) = {}
    BY DEF Range
  <2> QED
    BY <1>3, <1>4, <2>1, Zenon DEF DiesSound, DieSound
<1>8. TreesSound'
  <2>1. PICK t \in Seq(Tree) : t = todo' /\ Len(t) = Len(text.top)
    BY <1>1, Zenon
  <2>2. t \o <<>> = t
    OBVIOUS
  <2>3. Pending' = t
    BY <1>1, <2>1, <2>2, Zenon DEF Pending
  <2>4. real_parent' <= real_parent' /\ real_parent' <= Len(dies')
    BY <1>4
  <2> QED
    BY <1>1, <2>1, <2>3, <2>4, Zenon DEF TreesSound
<1>9. FramesSound' /\ CallsSound'
  <2>1. 1..Len(stack') = {} /\ 1..(Len(stack') - 1) = {}
    BY <1>1
  <2> QED
    BY <2>1, Zenon DEF FramesSound, CallsSound
<1> QED
  BY <1>5, <1>6, <1>7, <1>8, <1>9, Zenon DEF Shape

(* A step that ends the call.                                               *)
LEMMA StatusStep ==
  ASSUME Shape, UNCHANGED <<text, real_parent, dies, stack, todo, postpone, postponed_pass_n>>
  PROVE  /\ Static => (status' \in {"called", "creating", "done", "assertion failed", "undefined"}
                         => Static')
         /\ DiesSound' /\ TreesSound' /\ FramesSound' /\ CallsSound'
<1>1. /\ text' = text /\ real_parent' = real_parent /\ dies' = dies /\ stack' = stack
      /\ todo' = todo /\ postpone' = postpone /\ postponed_pass_n' = postponed_pass_n
  OBVIOUS
<1>2. Static /\ DiesSound /\ TreesSound /\ FramesSound /\ CallsSound
  BY Zenon DEF Shape
<1>3. DiesSound'
  BY <1>1, <1>2, Zenon DEF DiesSound, DieSound, Found
<1>4. TreesSound'
  BY <1>1, <1>2, Zenon DEF TreesSound, Pending
<1>5. FramesSound' /\ CallsSound'
  <2>1. FramesSound'
    BY <1>1, <1>2, Zenon DEF FramesSound, FrameSound, Found, Complete
  <2>2. CallsSound'
    BY <1>1, <1>2, Zenon DEF CallsSound, Calls
  <2> QED
    BY <2>1, <2>2, Zenon
<1>6. status' \in {"called", "creating", "done", "assertion failed", "undefined"} => Static'
  BY <1>1, <1>2, Zenon DEF Static
<1> QED
  BY <1>3, <1>4, <1>5, <1>6, Zenon

LEMMA UndefinedShape ==
  ASSUME Shape, Undefined
  PROVE  Shape'
<1>1. /\ UNCHANGED <<text, real_parent, dies, stack, todo, postpone, postponed_pass_n>>
      /\ status' = "undefined"
  BY DEF Undefined
<1>2. /\ status' \in {"called", "creating", "done", "assertion failed", "undefined"}
      /\ status' # "called" /\ status' # "done" /\ status' # "assertion failed"
  BY <1>1
<1>3. Static
  BY Zenon DEF Shape
<1> QED
  BY <1>1, <1>2, <1>3, StatusStep, Zenon DEF Shape, Ends

LEMMA FinishShape ==
  ASSUME Shape, Finish
  PROVE  Shape'
<1>1. /\ UNCHANGED <<text, real_parent, dies, stack, todo, postpone, postponed_pass_n>>
      /\ stack' = stack /\ todo' = todo /\ postpone' = postpone
      /\ postponed_pass_n' = postponed_pass_n
      /\ stack = <<>> /\ todo = <<>> /\ (~Progress \/ postpone = <<>>)
      /\ status' = IF Progress THEN "done" ELSE "assertion failed"
  BY DEF Finish, PassOver
<1>2. Ends' /\ status' \in {"called", "creating", "done", "assertion failed", "undefined"}
  <2>1. CASE Progress
    <3>1. status' = "done" /\ status' # "called" /\ status' # "assertion failed"
      BY <1>1, <2>1
    <3>2. postpone = <<>>
      BY <1>1, <2>1
    <3> QED
      BY <1>1, <3>1, <3>2 DEF Ends
  <2>2. CASE ~Progress
    <3>1. status' = "assertion failed" /\ status' # "called" /\ status' # "done"
      BY <1>1, <2>2
    <3>2. postponed_pass_n > 0
      BY <2>2, Zenon DEF Progress
    <3> QED
      BY <1>1, <3>1, <3>2 DEF Ends
  <2> QED
    BY <2>1, <2>2
<1>3. Static
  BY Zenon DEF Shape
<1> QED
  BY <1>1, <1>2, <1>3, StatusStep, Zenon DEF Shape

LEMMA ShapeKept ==
  ASSUME Shape, [Next]_vars
  PROVE  Shape'
<1>1. CASE ParentIsGone \/ ReferToEnd \/ ChildOfEnd
  <2>1. Undefined
    BY <1>1, Zenon DEF ParentIsGone, ReferToEnd, ChildOfEnd
  <2> QED
    BY <2>1, UndefinedShape
<1>2. CASE UNCHANGED vars
  <2>1. /\ UNCHANGED <<text, real_parent, dies, stack, todo, postpone, postponed_pass_n>>
        /\ stack' = stack /\ todo' = todo /\ postpone' = postpone /\ dies' = dies
        /\ postponed_pass_n' = postponed_pass_n /\ status' = status
    BY <1>2 DEF vars
  <2>2. Static /\ Ends
    BY Zenon DEF Shape
  <2>3. Static'
    BY <2>1, <2>2, StatusStep, Zenon DEF Static
  <2>4. Ends'
    BY <2>1, <2>2, Zenon DEF Ends
  <2> QED
    BY <2>1, <2>3, <2>4, StatusStep, Zenon DEF Shape
<1> QED
  BY <1>1, <1>2, ChooseParentShape, CreateNextShape, CreateNestedShape, NotNestedShape,
     MakeNewShape, SetAttributeShape, PostponeShape, AllAttributesShape, CreateChildShape,
     ReturnShape, PostponedPassShape, FinishShape, Zenon DEF Next

LEMMA ShapeAtFirst ==
  ASSUME Init
  PROVE  Shape
<1>1. /\ real_parent = 0 /\ dies = <<>> /\ stack = <<>> /\ todo = <<>> /\ postpone = <<>>
      /\ postponed_pass_n = 0 /\ status = "called"
  BY DEF Init, Given
<1>2. Text(text)
  BY TextsAssumption, Zenon DEF Init
<1>3. Static
  <2>1. /\ real_parent \in {0, 1} /\ real_parent <= Len(dies)
        /\ dies \in Seq(Die) /\ stack \in Seq(Frame) /\ todo \in Seq(Tree) /\ postpone \in Seq(Tree)
        /\ postponed_pass_n \in Nat
        /\ status \in {"called", "creating", "done", "assertion failed", "undefined"}
    BY <1>1
  <2> QED
    BY <1>2, <2>1, Zenon DEF Static
<1>4. Ends
  BY <1>1 DEF Ends
<1>5. 1..Len(dies) = {} /\ 1..Len(stack) = {} /\ 1..(Len(stack) - 1) = {} /\ 1..Len(Pending) = {}
  BY <1>1 DEF Pending
<1>6. DiesSound /\ TreesSound /\ FramesSound /\ CallsSound
  BY <1>5, Zenon DEF DiesSound, TreesSound, FramesSound, CallsSound
<1> QED
  BY <1>3, <1>4, <1>6, Zenon DEF Shape
-----------------------------------------------------------------------------
(* A tree that has been come to stays so.                                   *)
Keeps == \A n : Accounted(n) => Accounted(n)'

LEMMA DomainDies ==
  ASSUME Static
  PROVE  DOMAIN dies = 1..Len(dies)
<1>1. dies \in Seq(Die)
  BY StaticFacts, Zenon
<1> QED
  BY <1>1

LEMMA MadeKept ==
  ASSUME Static, Static', Grows, NEW n, Made(n)
  PROVE  Made(n)'
<1>1. PICK i \in 1..Len(dies) : dies[i].node = n /\ Complete(i)
  BY DomainDies, Zenon DEF Made
<1>2. dies'[i].node = n /\ Complete(i)'
  BY <1>1, CompleteKept, Zenon DEF Grows
<1>3. i \in 1..Len(dies')
  BY FoundKept
<1>4. DOMAIN dies' = 1..Len(dies')
  <2>1. dies' \in Seq(Die)
    BY Zenon DEF Static
  <2> QED
    BY <2>1
<1> QED
  BY <1>2, <1>3, <1>4, Zenon DEF Made

LEMMA KeepsIf ==
  ASSUME Static, Static', Grows, \A n : Awaited(n) => Accounted(n)',
         \A n : InProgress(n) => Accounted(n)'
  PROVE  Keeps
<1> SUFFICES ASSUME NEW n, Accounted(n) PROVE Accounted(n)'
  BY Zenon DEF Keeps
<1>1. CASE Made(n)
  BY <1>1, MadeKept, Zenon DEF Accounted
<1>2. CASE Awaited(n) \/ InProgress(n)
  BY <1>2, Zenon
<1> QED
  BY <1>1, <1>2, Zenon DEF Accounted

(* Whoever waited for a child still does, or the child is accounted for.    *)
Served(i, j) == \A n : n = text.children[dies[i].node][j] =>
                  Accounted(n)' \/ \E h \in 1..Len(stack') : Waits(stack'[h], i, j)

LEMMA AllAccountedKept ==
  ASSUME Static, Static', AllAccounted, Grows, Keeps,
         status' \in {"creating", "done"} => status \in {"creating", "done"},
         \A i \in 1..Len(stack') : FrameAccounted(stack[i])',
         \A i \in 1..Len(dies') :
           i \in 1..Len(dies) \/ \A n \in InlinesOf(dies'[i].node) : Accounted(n)',
         \A i \in 1..Len(dies') :
           Complete(i)' => \/ i \in 1..Len(dies) /\ Complete(i)
                           \/ \E h \in 1..Len(stack') : /\ stack'[h].created = i
                                                        /\ stack'[h].at = "attrs",
         \A i \in 1..Len(dies) : \A j \in 1..Len(text.children[dies[i].node]) :
           Complete(i) => \A h \in 1..Len(stack) : Waits(stack[h], i, j) => Served(i, j)
  PROVE  AllAccounted'
<1>1. TopAccounted'
  <2>1. text' = text
    BY Zenon DEF Grows
  <2> QED
    BY <2>1, Zenon DEF AllAccounted, TopAccounted, Keeps
<1>2. FramesAccounted'
  BY Zenon DEF FramesAccounted
<1>3. InlinesAccounted'
  <2> SUFFICES ASSUME NEW i \in 1..Len(dies'), dies'[i].node # NoNode,
                      NEW n \in InlinesOf(dies'[i].node)
               PROVE  Accounted(n)'
    <3>1. \A m : InlinesOf(m)' = InlinesOf(m)
      BY Zenon DEF InlinesOf, Grows
    <3> QED
      BY <3>1, Zenon DEF InlinesAccounted
  <2>1. CASE i \in 1..Len(dies)
    <3>1. dies'[i].node = dies[i].node
      BY <2>1, Zenon DEF Grows
    <3>2. Accounted(n)
      BY <2>1, <3>1, Zenon DEF AllAccounted, InlinesAccounted
    <3> QED
      BY <3>2, Zenon DEF Keeps
  <2>2. CASE i \notin 1..Len(dies)
    BY <2>2, Zenon
  <2> QED
    BY <2>1, <2>2, Zenon
<1>4. ChildrenAccounted'
  <2> SUFFICES ASSUME NEW i \in 1..Len(dies'), Complete(i)',
                      NEW j \in 1..Len(text'.children[dies'[i].node]),
                      NEW n, n = text'.children[dies'[i].node][j]
               PROVE  Accounted(n)' \/ \E h \in 1..Len(stack') : Waits(stack'[h], i, j)
    BY Zenon DEF ChildrenAccounted
  <2>1. CASE i \in 1..Len(dies) /\ Complete(i)
    <3>1. dies'[i].node = dies[i].node /\ text' = text
      BY <2>1, Zenon DEF Grows
    <3>2. \/ Accounted(n)
          \/ \E h \in 1..Len(stack) : Waits(stack[h], i, j)
      BY <2>1, <3>1, Zenon DEF AllAccounted, ChildrenAccounted
    <3>3. CASE Accounted(n)
      BY <3>3, Zenon DEF Keeps
    <3>4. CASE \E h \in 1..Len(stack) : Waits(stack[h], i, j)
      <4>1. Served(i, j)
        BY <2>1, <3>1, <3>4, Zenon
      <4> QED
        BY <3>1, <4>1, Zenon DEF Served
    <3> QED
      BY <3>2, <3>3, <3>4, Zenon
  <2>2. CASE \E h \in 1..Len(stack') : stack'[h].created = i /\ stack'[h].at = "attrs"
    BY <2>2, Zenon DEF Waits
  <2> QED
    BY <2>1, <2>2, Zenon
<1> QED
  BY <1>1, <1>2, <1>3, <1>4, Zenon DEF AllAccounted

LEMMA FrameAccountedKept ==
  ASSUME Keeps, text' = text, NEW f, FrameAccounted(f)
  PROVE  FrameAccounted(f)'
BY Zenon DEF Keeps, FrameAccounted

LEMMA OthersAccounted ==
  ASSUME Keeps, text' = text, FramesAccounted, NEW n \in Nat, Len(stack) \in Nat, n <= Len(stack),
         Others(n)
  PROVE  \A i \in 1..n : FrameAccounted(stack[i])'
<1> SUFFICES ASSUME NEW i \in 1..n PROVE FrameAccounted(stack[i])'
  BY Zenon
<1>1. i \in 1..Len(stack)
  OBVIOUS
<1>2. PICK f : f = stack[i] /\ FrameAccounted(f)
  BY <1>1, Zenon DEF FramesAccounted
<1>3. FrameAccounted(f)'
  BY <1>2, FrameAccountedKept, Zenon
<1>4. stack'[i] = f
  BY <1>2, Zenon DEF Others
<1> QED
  BY <1>3, <1>4, Zenon DEF FrameAccounted

(* What is on its way below n still is.                                     *)
LEMMA OthersInProgress ==
  ASSUME NEW n \in Nat, Others(n), Len(stack') \in Nat, n <= Len(stack'),
         NEW i \in 1..n, stack[i].at \in {"nested", "attrs"}
  PROVE  \A m : m = stack[i].node => InProgress(m)'
<1>1. i \in 1..Len(stack') /\ stack'[i] = stack[i]
  <2>1. \A l \in Nat : n <= l => i \in 1..l
    OBVIOUS
  <2> QED
    BY <2>1, Zenon DEF Others
<1> QED
  BY <1>1, Zenon DEF InProgress

(* What a step in which the running activation goes on, as g, must keep.    *)
AwaitedKept == \A n : Awaited(n) => Accounted(n)'
RunningKept == stack[top].at \in {"nested", "attrs"} =>
                 \A n : n = stack[top].node => (InProgress(n) => Accounted(n)')
AccountedNext(g) == Keeps => FrameAccounted(g)'
InlinesKept == Keeps => \A i \in 1..Len(dies') :
                 i \in 1..Len(dies) \/ \A n \in InlinesOf(dies'[i].node) : Accounted(n)'
Completes(g) == \A i \in 1..Len(dies') :
                  Complete(i)' => \/ i \in 1..Len(dies) /\ Complete(i)
                                  \/ g.created = i /\ g.at = "attrs"
WaitsNext(g) == \A i \in 1..Len(dies), j \in Nat \ {0} :
                  Complete(i) /\ Waits(stack[top], i, j) => Waits(g, i, j)

LEMMA PendingSame ==
  ASSUME UNCHANGED <<todo, postpone>>
  PROVE  AwaitedKept
<1>1. Pending' = Pending
  BY DEF Pending
<1> QED
  BY <1>1, Zenon DEF Awaited, Accounted, AwaitedKept

LEMMA GoesOnAccounted ==
  ASSUME Shape, Static', AllAccounted, Grows, NEW g, GoesOn(g), status' = status,
         status = "creating", AwaitedKept, RunningKept, AccountedNext(g), InlinesKept,
         Completes(g), WaitsNext(g)
  PROVE  AllAccounted' /\ Keeps
<1>1. Static
  BY Zenon DEF Shape
<1>2. /\ top \in Nat \ {0} /\ top = Len(stack) /\ Len(stack') = top /\ stack'[top] = g
      /\ Others(top - 1)
  BY Zenon DEF GoesOn, top
<1>3. PICK n \in Nat : n = top - 1 /\ n <= Len(stack) /\ n <= Len(stack') /\ Len(stack) \in Nat
                       /\ top \in 1..Len(stack')
                       /\ \A i \in 1..top : i \in 1..n \/ i = top
  <2>1. \A m \in Nat \ {0} : /\ m - 1 \in Nat /\ m - 1 <= m /\ m \in 1..m
                             /\ \A i \in 1..m : i \in 1..(m - 1) \/ i = m
    OBVIOUS
  <2> QED
    BY <1>2, <2>1, Zenon
<1>4. Keeps
  <2>1. ASSUME NEW m, InProgress(m)
        PROVE  Accounted(m)'
    <3>1. PICK i \in 1..top : stack[i].node = m /\ stack[i].at \in {"nested", "attrs"}
      BY <1>2, <2>1, Zenon DEF InProgress
    <3>2. CASE i = top
      BY <2>1, <3>1, <3>2, Zenon DEF RunningKept
    <3>3. CASE i \in 1..n
      BY <1>2, <1>3, <3>1, <3>3, OthersInProgress, Zenon DEF Accounted
    <3> QED
      BY <1>3, <3>2, <3>3, Zenon
  <2> QED
    BY <1>1, <2>1, KeepsIf, Zenon DEF AwaitedKept
<1>5. \A i \in 1..Len(stack') : FrameAccounted(stack[i])'
  <2>1. \A i \in 1..n : FrameAccounted(stack[i])'
    <3>1. text' = text /\ FramesAccounted
      BY Zenon DEF Grows, AllAccounted
    <3> QED
      BY <1>2, <1>3, <1>4, <3>1, OthersAccounted, Zenon
  <2>2. ASSUME NEW i, i = top
        PROVE  FrameAccounted(stack[i])'
    <3>1. FrameAccounted(g)' /\ stack'[i] = g
      BY <1>2, <1>4, <2>2, Zenon DEF AccountedNext
    <3> QED
      BY <3>1, Zenon DEF FrameAccounted
  <2> QED
    BY <1>2, <1>3, <2>1, <2>2, Zenon
<1>6. \A i \in 1..Len(dies') :
        Complete(i)' => \/ i \in 1..Len(dies) /\ Complete(i)
                        \/ \E h \in 1..Len(stack') : /\ stack'[h].created = i
                                                     /\ stack'[h].at = "attrs"
  BY <1>2, <1>3, Zenon DEF Completes
<1>7. ASSUME NEW i \in 1..Len(dies), NEW j \in 1..Len(text.children[dies[i].node]), Complete(i),
             NEW h \in 1..Len(stack), Waits(stack[h], i, j)
      PROVE  Served(i, j)
  <2>1. CASE h = top
    <3>1. j \in Nat \ {0}
      <4>1. dies[i] \in Die
        BY <1>1, StaticFacts, ElementOfSeq, Zenon
      <4>2. dies[i].node \in Node
        BY <1>7, <4>1, Zenon DEF Complete, Die
      <4>3. text.children[dies[i].node] \in Seq(Node)
        BY <1>1, <4>2, StaticFacts, TextFacts, Zenon
      <4> QED
        BY <4>3
    <3>2. Waits(g, i, j)
      BY <1>7, <2>1, <3>1, Zenon DEF WaitsNext
    <3> QED
      BY <1>2, <1>3, <3>2, Zenon DEF Served
  <2>2. CASE h \in 1..n
    <3>1. stack'[h] = stack[h] /\ h \in 1..Len(stack')
      BY <1>2, <1>3, <2>2 DEF Others
    <3> QED
      BY <1>7, <3>1, Zenon DEF Served
  <2> QED
    BY <1>2, <1>3, <2>1, <2>2, Zenon
<1>8. \A i \in 1..Len(dies') :
        i \in 1..Len(dies) \/ \A m \in InlinesOf(dies'[i].node) : Accounted(m)'
  BY <1>4, Zenon DEF InlinesKept
<1>9. status' \in {"creating", "done"} => status \in {"creating", "done"}
  BY Zenon
<1> QED
  BY <1>1, <1>4, <1>5, <1>6, <1>7, <1>8, <1>9, AllAccountedKept, Zenon

LEMMA NotNestedAccounted ==
  ASSUME Shape, Shape', AllAccounted, NotNested
  PROVE  AllAccounted' /\ Keeps
<1>1. /\ status = "creating" /\ status' = status /\ stack # <<>> /\ frame.at = "nested"
      /\ frame.next \in DOMAIN attrs /\ attrs[frame.next].kind # "die"
      /\ text' = text /\ dies' = dies
      /\ UNCHANGED <<text, real_parent, dies>> /\ UNCHANGED <<todo, postpone>>
  BY DEF NotNested, Running
<1>2. Static /\ Static' /\ FramesAccounted
  BY Zenon DEF Shape, AllAccounted
<1>3. Grows
  BY <1>1, <1>2, SameGrows
<1>4. PICK f \in Frame : /\ f = stack[top] /\ f = frame /\ FrameSound(f) /\ f.at = "nested"
                         /\ attrs = text.attrs[f.node] /\ f.next \in Nat \ {0}
                         /\ FrameAccounted(f)
  <2>1. top \in 1..Len(stack)
    <3>1. top \in Nat \ {0} /\ top = Len(stack)
      BY <1>1, RunningFacts, Zenon
    <3> QED
      BY <3>1
  <2> QED
    BY <1>1, <1>2, <2>1, RunningFacts, Zenon DEF FramesAccounted
<1>5. PICK g : Next1(g)
  BY <1>2, NotNestedDoes, Zenon
<1>6. /\ GoesOn(g) /\ g.node = f.node /\ g.at = "nested" /\ g.next = f.next + 1
      /\ g.created = f.created
  BY <1>4, <1>5, Zenon DEF Next1, GoesOn, Moves
<1>7. f.created = END /\ f.at # "children" /\ f.at # "attrs"
  <2>1. f.at # "children" /\ f.at # "attrs"
    BY <1>4
  <2> QED
    BY <1>4, <2>1, Zenon DEF FrameSound
<1>8. AwaitedKept
  BY <1>1, PendingSame
<1>9. RunningKept
  <2>1. top \in 1..Len(stack') /\ stack'[top] = g
    <3>1. Len(stack') = top /\ top \in Nat \ {0} /\ stack'[top] = g
      BY <1>6, Zenon DEF GoesOn
    <3> QED
      BY <3>1
  <2>2. g.at \in {"nested", "attrs"}
    BY <1>6
  <2> QED
    BY <1>4, <1>6, <2>1, <2>2, Zenon DEF InProgress, Accounted, RunningKept
<1>10. AccountedNext(g)
  <2> SUFFICES ASSUME Keeps PROVE FrameAccounted(g)'
    BY Zenon DEF AccountedNext
  <2>1. \A j \in 1..(g.next - 1) : j \in 1..(f.next - 1) \/ j = f.next
    <3>1. \A m \in Nat \ {0} : \A j \in 1..((m + 1) - 1) : j \in 1..(m - 1) \/ j = m
      OBVIOUS
    <3> QED
      BY <1>4, <1>6, <3>1, Zenon
  <2>2. FrameAccounted(f)'
    BY <1>1, <1>4, FrameAccountedKept, Zenon
  <2>3. text.attrs[g.node][f.next].kind # "die"
    BY <1>1, <1>4, <1>6, Zenon
  <2> QED
    BY <1>1, <1>4, <1>6, <1>7, <2>1, <2>2, <2>3, Zenon DEF FrameAccounted
<1>11. InlinesKept /\ Completes(g)
  BY <1>1, Zenon DEF Complete, InlinesKept, Completes
<1>12. WaitsNext(g)
  BY <1>4, <1>7, Zenon DEF WaitsNext, Waits
<1> QED
  BY <1>1, <1>2, <1>3, <1>6, <1>8, <1>9, <1>10, <1>11, <1>12, GoesOnAccounted, Zenon

LEMMA GoesOnTop ==
  ASSUME NEW g, GoesOn(g)
  PROVE  top \in 1..Len(stack') /\ stack'[top] = g /\ g.node = stack[top].node
<1>1. Len(stack') = top /\ top \in Nat \ {0} /\ stack'[top] = g /\ Moves(stack[top], g)
  BY Zenon DEF GoesOn
<1>2. \A m \in Nat \ {0} : m \in 1..m
  OBVIOUS
<1> QED
  BY <1>1, <1>2, Zenon DEF Moves

LEMMA RunningAccounted ==
  ASSUME Shape, AllAccounted, stack # <<>>
  PROVE  FrameAccounted(stack[top])
<1>1. top \in Nat \ {0} /\ top = Len(stack)
  BY RunningFacts, Zenon
<1>2. \A m \in Nat \ {0} : m \in 1..m
  OBVIOUS
<1> QED
  BY <1>1, <1>2, Zenon DEF AllAccounted, FramesAccounted

(* It is on its way still.                                                  *)
LEMMA StillRunning ==
  ASSUME NEW g, GoesOn(g), g.at \in {"nested", "attrs"}
  PROVE  RunningKept
<1>1. top \in 1..Len(stack') /\ stack'[top] = g /\ g.node = stack[top].node
  BY GoesOnTop, Zenon
<1> QED
  BY <1>1, Zenon DEF InProgress, Accounted, RunningKept

LEMMA MakeNewAccounted ==
  ASSUME Shape, Shape', AllAccounted, MakeNew
  PROVE  AllAccounted' /\ Keeps
<1>1. /\ status = "creating" /\ status' = status /\ stack # <<>> /\ frame.at = "nested"
      /\ frame.next \notin DOMAIN attrs /\ text' = text
      /\ UNCHANGED <<todo, postpone>>
  BY DEF MakeNew, Running
<1>2. Static /\ Static' /\ Grows
  BY MakeNewShape, Zenon DEF Shape
<1>3. PICK f \in Frame : /\ f = stack[top] /\ f = frame /\ FrameSound(f) /\ f.at = "nested"
                         /\ attrs = text.attrs[f.node] /\ f.next \in Nat \ {0}
                         /\ FrameAccounted(f) /\ Len(attrs) \in Nat
                         /\ f.next \notin 1..Len(attrs)
  BY <1>1, RunningFacts, RunningAccounted, Zenon
<1>4. PICK g : Turns(g, "attrs") /\ g.created = Len(dies) + 1
  BY <1>2, MakeNewDoes, Zenon
<1>5. GoesOn(g) /\ g.at = "attrs"
  BY <1>4, Zenon DEF Turns
<1>6. f.created = END /\ f.at # "children" /\ f.at # "attrs"
  <2>1. f.at # "children" /\ f.at # "attrs"
    BY <1>3
  <2> QED
    BY <1>3, <2>1, Zenon DEF FrameSound
<1>7. /\ Len(dies') = Len(dies) + 1
      /\ dies'[Len(dies) + 1].node = f.node
      /\ \A i \in 1..Len(dies) : dies'[i] = dies[i]
  <2>1. [node |-> f.node, parent |-> f.parent, refs |-> <<>>].node = f.node
    OBVIOUS
  <2> QED
    BY <1>2, <1>3, <2>1, MakeNewDoes, Zenon
<1>8. \A i \in 1..Len(dies') : i \in 1..Len(dies) \/ i = Len(dies) + 1
  <2>1. Len(dies) \in Nat
    BY <1>2, StaticFacts, Zenon
  <2>2. \A m \in Nat : \A i \in 1..(m + 1) : i \in 1..m \/ i = m + 1
    OBVIOUS
  <2> QED
    BY <1>7, <2>1, <2>2, Zenon
<1>9. AwaitedKept
  BY <1>1, PendingSame
<1>10. RunningKept
  <2>1. g.at \in {"nested", "attrs"}
    BY <1>5
  <2> QED
    BY <1>5, <2>1, StillRunning, Zenon
<1>11. AccountedNext(g)
  <2>1. g.at # "nested" /\ g.at # "children"
    BY <1>5
  <2> QED
    BY <2>1, Zenon DEF AccountedNext, FrameAccounted
<1>12. InlinesKept
  <2> SUFFICES ASSUME Keeps, NEW i \in 1..Len(dies'), i \notin 1..Len(dies),
                      NEW n \in InlinesOf(dies'[i].node)
               PROVE  Accounted(n)'
    BY Zenon DEF InlinesKept
  <2>1. dies'[i].node = f.node
    BY <1>7, <1>8, Zenon
  <2>2. PICK j \in 1..Len(attrs) : attrs[j].kind = "die" /\ n = attrs[j].to
    BY <1>3, <2>1, Zenon DEF InlinesOf
  <2>3. j \in 1..(f.next - 1)
    <3>1. f.next <= Len(attrs) + 1
      BY <1>3, Zenon DEF FrameSound
    <3>2. \A a \in Nat \ {0}, l \in Nat : a \notin 1..l => \A k \in 1..l : k \in 1..(a - 1)
      OBVIOUS
    <3> QED
      BY <1>3, <3>1, <3>2, Zenon
  <2>4. Accounted(n)
    BY <1>3, <2>2, <2>3, Zenon DEF FrameAccounted
  <2> QED
    BY <2>4, Zenon DEF Keeps
<1>13. Completes(g)
  <2>1. \A i \in 1..Len(dies) : Complete(i)' => Complete(i)
    BY <1>1, <1>7, Zenon DEF Complete
  <2> QED
    BY <1>4, <1>5, <1>8, <2>1, Zenon DEF Completes
<1>14. WaitsNext(g)
  BY <1>3, <1>6, Zenon DEF WaitsNext, Waits
<1> QED
  BY <1>1, <1>2, <1>5, <1>9, <1>10, <1>11, <1>12, <1>13, <1>14, GoesOnAccounted, Zenon

LEMMA SetAttributeAccounted ==
  ASSUME Shape, Shape', AllAccounted, SetAttribute
  PROVE  AllAccounted' /\ Keeps
<1>1. /\ status = "creating" /\ status' = status /\ stack # <<>> /\ frame.at = "attrs"
      /\ text' = text /\ UNCHANGED <<todo, postpone>>
  BY DEF SetAttribute, Running
<1>2. Static /\ Static' /\ Grows
  BY SetAttributeShape, Zenon DEF Shape
<1>3. PICK f \in Frame : f = stack[top] /\ f.at = "attrs"
  BY <1>1, RunningFacts, Zenon
<1>4. PICK g : Next1(g)
  BY <1>2, SetAttributeDoes, Zenon
<1>5. GoesOn(g) /\ g.at = "attrs" /\ g.created = f.created
  BY <1>3, <1>4, Zenon DEF Next1
<1>6. PICK c \in 1..Len(dies) : /\ c = f.created /\ Len(dies') = Len(dies)
                                /\ \A i \in 1..Len(dies) : i # c => dies'[i] = dies[i]
  BY <1>3, SetAttributeSets, Zenon DEF Sets
<1>7. AwaitedKept
  BY <1>1, PendingSame
<1>8. g.at \in {"nested", "attrs"} /\ g.at # "nested" /\ g.at # "children"
  BY <1>5
<1>9. RunningKept
  BY <1>5, <1>8, StillRunning, Zenon
<1>10. AccountedNext(g)
  BY <1>8, Zenon DEF AccountedNext, FrameAccounted
<1>11. InlinesKept
  BY <1>6, Zenon DEF InlinesKept
<1>12. Completes(g)
  BY <1>1, <1>5, <1>6, Zenon DEF Completes, Complete
<1>13. WaitsNext(g)
  BY <1>3, <1>5, <1>8, Zenon DEF WaitsNext, Waits
<1> QED
  BY <1>1, <1>2, <1>5, <1>7, <1>9, <1>10, <1>11, <1>12, <1>13, GoesOnAccounted, Zenon

LEMMA AllAttributesAccounted ==
  ASSUME Shape, Shape', AllAccounted, AllAttributes
  PROVE  AllAccounted' /\ Keeps
<1>1. /\ status = "creating" /\ status' = status /\ stack # <<>> /\ frame.at = "attrs"
      /\ text' = text /\ dies' = dies
      /\ UNCHANGED <<text, real_parent, dies>> /\ UNCHANGED <<todo, postpone>>
  BY DEF AllAttributes, Running
<1>2. Static /\ Static' /\ Grows
  BY <1>1, SameGrows DEF Shape
<1>3. PICK f \in Frame : /\ f = stack[top] /\ f.at = "attrs" /\ f.created # END
  <2>1. PICK f \in Frame : f = stack[top] /\ f.at = "attrs" /\ FrameSound(f)
    BY <1>1, RunningFacts, Zenon
  <2> QED
    BY <2>1, Zenon DEF FrameSound
<1>4. PICK g : Turns(g, "children") /\ g.created = f.created
  BY <1>2, <1>3, AllAttributesDoes, Zenon
<1>5. GoesOn(g) /\ g.at = "children" /\ g.next = 1
  BY <1>4, Zenon DEF Turns
<1>6. top \in 1..Len(stack') /\ stack'[top] = g /\ g.node = f.node
  BY <1>3, <1>5, GoesOnTop, Zenon
<1>7. \A n : n = f.node => Accounted(n)'
  <2>1. FrameSound(g)'
    <3>1. FrameSound(stack[top])'
      <4>1. top' = top
        BY <1>5, Zenon DEF GoesOn, top
      <4>2. FramesSound'
        BY Zenon DEF Shape
      <4> QED
        BY <1>6, <4>1, <4>2, Zenon DEF FramesSound
    <3>2. stack'[top'] = g
      BY <1>5, <1>6, Zenon DEF GoesOn, top
    <3> QED
      BY <3>1, <3>2, Zenon DEF FrameSound
  <2>2. dies'[g.created].node = g.node /\ Complete(g.created)' /\ g.created \in 1..Len(dies')
    BY <1>3, <1>4, <1>5, <2>1, Zenon DEF FrameSound, Found
  <2>3. DOMAIN dies' = 1..Len(dies')
    BY <1>1, <1>2, DomainDies, Zenon
  <2>4. PICK c \in DOMAIN dies' : c = g.created
    BY <2>2, <2>3, Zenon
  <2>5. \E i \in DOMAIN dies' : dies'[i].node = f.node /\ Complete(i)'
    BY <1>6, <2>2, <2>4, Zenon DEF Complete
  <2> QED
    BY <2>5, Zenon DEF Made, Accounted
<1>8. AwaitedKept
  BY <1>1, PendingSame
<1>9. RunningKept
  BY <1>3, <1>7, Zenon DEF RunningKept
<1>10. AccountedNext(g)
  <2>1. g.at # "nested"
    BY <1>5
  <2> QED
    BY <1>6, <1>7, <2>1, Zenon DEF AccountedNext, FrameAccounted
<1>11. InlinesKept /\ Completes(g)
  BY <1>1, Zenon DEF Complete, InlinesKept, Completes
<1>12. WaitsNext(g)
  <2>1. \A j \in Nat \ {0} : 1 <= j
    OBVIOUS
  <2> QED
    BY <1>3, <1>4, <1>5, <2>1, Zenon DEF WaitsNext, Waits
<1> QED
  BY <1>1, <1>2, <1>5, <1>8, <1>9, <1>10, <1>11, <1>12, GoesOnAccounted, Zenon

LEMMA PostponeAccounted ==
  ASSUME Shape, Shape', AllAccounted, Postpone
  PROVE  AllAccounted' /\ Keeps
<1>1. /\ status = "creating" /\ status' = status /\ stack # <<>> /\ frame.at = "attrs"
      /\ text' = text /\ dies' = dies /\ frame.next \in DOMAIN attrs
      /\ UNCHANGED <<text, real_parent, dies>>
  BY DEF Postpone, Running
<1>2. Static /\ Static' /\ Grows
  BY <1>1, SameGrows DEF Shape
<1>3. PICK f \in Frame : /\ f = stack[top] /\ f.at = "attrs" /\ FrameSound(f)
                         /\ attrs = text.attrs[f.node] /\ f.next \in Nat \ {0}
                         /\ Len(attrs) \in Nat /\ f.next \in 1..Len(attrs) /\ f.node \in Node
  BY <1>1, RunningFacts, Zenon
<1>4. PICK g : Turns(g, "children") /\ g.created = END
  BY <1>2, PostponeDoes, Zenon
<1>5. GoesOn(g) /\ g.at = "children" /\ g.next = 1
  BY <1>4, Zenon DEF Turns
<1>6. top \in 1..Len(stack') /\ stack'[top] = g /\ g.node = f.node
  BY <1>3, <1>5, GoesOnTop, Zenon
<1>7. PICK l \in Nat : /\ l = Len(Pending) /\ l + 1 = Len(Pending') /\ l + 1 \in 1..(l + 1)
                       /\ \A j \in 1..l : j \in 1..(l + 1)
                       /\ \A j \in 1..l : Pending'[j] = Pending[j]
                       /\ Pending'[l + 1].node = f.node
  <2>1. Entry(f.parent, f.node).node = f.node
    BY DEF Entry
  <2>2. \A m \in Nat : m + 1 \in 1..(m + 1) /\ \A j \in 1..m : j \in 1..(m + 1)
    OBVIOUS
  <2> QED
    BY <1>3, <2>1, <2>2, PostponePends, Zenon
<1>8. \A n : n = f.node => Accounted(n)'
  BY <1>7, Zenon DEF Awaited, Accounted
<1>9. AwaitedKept
  BY <1>7, Zenon DEF Awaited, Accounted, AwaitedKept
<1>10. RunningKept
  BY <1>3, <1>8, Zenon DEF RunningKept
<1>11. AccountedNext(g)
  <2>1. g.at # "nested"
    BY <1>5
  <2> QED
    BY <1>6, <1>8, <2>1, Zenon DEF AccountedNext, FrameAccounted
<1>12. InlinesKept /\ Completes(g)
  BY <1>1, Zenon DEF Complete, InlinesKept, Completes
<1>13. WaitsNext(g)
  <2> SUFFICES ASSUME NEW i \in 1..Len(dies), Complete(i), i = f.created PROVE FALSE
    BY <1>3, Zenon DEF WaitsNext, Waits
  <2>1. /\ dies[i].node = f.node /\ Len(dies[i].refs) = f.next - 1
        /\ Len(dies[i].refs) = Len(attrs)
    BY <1>3, Zenon DEF FrameSound, Complete
  <2>2. PICK n \in Nat : n = Len(attrs)
    BY <1>3, Zenon
  <2>3. PICK k \in 1..n : k = f.next
    BY <1>3, <2>2, Zenon
  <2>4. n = k - 1
    BY <2>1, <2>2, <2>3, Zenon
  <2> QED
    BY <2>4
<1> QED
  BY <1>1, <1>2, <1>5, <1>9, <1>10, <1>11, <1>12, <1>13, GoesOnAccounted, Zenon

(* A step in which an activation is added.                                  *)
LEMMA StartsAccounted ==
  ASSUME Shape, Static', AllAccounted, UNCHANGED <<text, real_parent, dies>>,
         status' = status, status = "creating", NEW p, NEW n, Starts(p, n), AwaitedKept
  PROVE  AllAccounted' /\ Keeps
<1>1. Static /\ Grows /\ text' = text /\ dies' = dies
  BY SameGrows DEF Shape
<1>2. /\ top \in Nat /\ top = Len(stack) /\ Len(stack') = top + 1 /\ Others(top)
      /\ stack'[top + 1] = Activation(p, n)
  BY Zenon DEF Starts, top
<1>3. /\ Len(stack') \in Nat /\ top <= Len(stack) /\ top <= Len(stack') /\ Len(stack) \in Nat
      /\ \A i \in 1..top : i \in 1..Len(stack')
      /\ \A i \in 1..Len(stack') : i \in 1..top \/ i = top + 1
  BY <1>2
<1>4. Keeps
  <2>1. ASSUME NEW m, InProgress(m)
        PROVE  Accounted(m)'
    <3>1. PICK i \in 1..top : stack[i].node = m /\ stack[i].at \in {"nested", "attrs"}
      BY <1>2, <2>1, Zenon DEF InProgress
    <3> QED
      BY <1>2, <1>3, <3>1, OthersInProgress, Zenon DEF Accounted
  <2> QED
    BY <1>1, <2>1, KeepsIf, Zenon DEF AwaitedKept
<1>5. \A i \in 1..Len(stack') : FrameAccounted(stack[i])'
  <2>1. \A i \in 1..top : FrameAccounted(stack[i])'
    BY <1>1, <1>2, <1>3, <1>4, OthersAccounted, Zenon DEF AllAccounted
  <2>2. ASSUME NEW i, i = top + 1
        PROVE  FrameAccounted(stack[i])'
    <3>1. PICK f : /\ f = Activation(p, n) /\ f = stack'[i]
      BY <1>2, <2>2, Zenon
    <3>2. f.at = "nested" /\ f.next = 1 /\ f.at # "children"
      BY <3>1 DEF Activation
    <3>3. 1..(1 - 1) = {}
      OBVIOUS
    <3>4. FrameAccounted(f)'
      BY <3>2, <3>3, Zenon DEF FrameAccounted
    <3> QED
      BY <3>1, <3>4, Zenon DEF FrameAccounted
  <2> QED
    BY <1>3, <2>1, <2>2, Zenon
<1>6. \A i \in 1..Len(dies') :
        i \in 1..Len(dies) \/ \A m \in InlinesOf(dies'[i].node) : Accounted(m)'
  BY <1>1, Zenon
<1>7. \A i \in 1..Len(dies') :
        Complete(i)' => \/ i \in 1..Len(dies) /\ Complete(i)
                        \/ \E h \in 1..Len(stack') : /\ stack'[h].created = i
                                                     /\ stack'[h].at = "attrs"
  BY <1>1, Zenon DEF Complete
<1>8. \A i \in 1..Len(dies) : \A j \in 1..Len(text.children[dies[i].node]) :
        Complete(i) => \A h \in 1..Len(stack) : Waits(stack[h], i, j) => Served(i, j)
  BY <1>2, <1>3, Zenon DEF Served, Others
<1>9. status' \in {"creating", "done"} => status \in {"creating", "done"}
  BY Zenon
<1> QED
  BY <1>1, <1>4, <1>5, <1>6, <1>7, <1>8, <1>9, AllAccountedKept, Zenon

LEMMA CreateNestedAccounted ==
  ASSUME Shape, Shape', AllAccounted, CreateNested
  PROVE  AllAccounted' /\ Keeps
<1>1. /\ status = "creating" /\ status' = status
      /\ UNCHANGED <<text, real_parent, dies>> /\ UNCHANGED <<todo, postpone>>
  BY DEF CreateNested, Running
<1>2. \E p, n : Starts(p, n)
  BY CreateNestedDoes, Zenon DEF Shape
<1>3. AwaitedKept /\ Static'
  BY <1>1, PendingSame, Zenon DEF Shape
<1> QED
  BY <1>1, <1>2, <1>3, StartsAccounted, Zenon

LEMMA CreateChildAccounted ==
  ASSUME Shape, Shape', AllAccounted, CreateChild
  PROVE  AllAccounted' /\ Keeps
<1>1. /\ status = "creating" /\ status' = status /\ stack # <<>> /\ frame.created # END
      /\ UNCHANGED <<text, real_parent, dies>> /\ UNCHANGED <<todo, postpone>>
  BY DEF CreateChild, Running
<1>2. Static
  BY Zenon DEF Shape
<1>3. stack[top].created \in Nat
  <2>1. stack[top].created \in 1..Len(dies)
    BY <1>1, RunningFacts, Zenon DEF FrameSound, Found
  <2> QED
    BY <2>1
<1>4. \E p, n : Starts(p, n)
  BY <1>2, <1>3, CreateChildDoes, Zenon
<1>5. AwaitedKept /\ Static'
  BY <1>1, PendingSame, Zenon DEF Shape
<1> QED
  BY <1>1, <1>4, <1>5, StartsAccounted, Zenon

LEMMA CreateNextAccounted ==
  ASSUME Shape, Shape', AllAccounted, CreateNext
  PROVE  AllAccounted' /\ Keeps
<1>1. /\ status = "creating" /\ status' = status /\ UNCHANGED <<text, real_parent, dies>>
  BY DEF CreateNext
<1>2. Static /\ Static'
  BY Zenon DEF Shape
<1>3. PICK e : e = Head(todo) /\ Starts(e.parent, e.node) /\ e = Pending[1] /\ top = 0
               /\ Len(Pending') = Len(Pending) - 1
               /\ \A j \in 1..Len(Pending') : Pending'[j] = Pending[j + 1]
  BY <1>2, CreateNextDoes, Zenon
<1>4. InProgress(e.node)'
  <2>1. top + 1 \in 1..Len(stack')
    <3>1. Len(stack') = top + 1
      BY <1>3, Zenon DEF Starts
    <3> QED
      BY <1>3, <3>1
  <2>2. /\ stack'[top + 1] = Activation(e.parent, e.node)
        /\ Activation(e.parent, e.node).node = e.node
        /\ Activation(e.parent, e.node).at = "nested"
    BY <1>3 DEF Starts, Activation
  <2>3. "nested" \in {"nested", "attrs"}
    OBVIOUS
  <2>4. \E i \in 1..Len(stack') : stack'[i].node = e.node /\ stack'[i].at \in {"nested", "attrs"}
    BY <2>1, <2>2, <2>3, Zenon
  <2> QED
    BY <2>4, Zenon DEF InProgress
<1>5. AwaitedKept
  <2> SUFFICES ASSUME NEW n, Awaited(n) PROVE Accounted(n)'
    BY Zenon DEF AwaitedKept
  <2>1. PICK j \in 1..Len(Pending) : Pending[j].node = n
    BY Zenon DEF Awaited
  <2>2. PICK l \in Nat : l = Len(Pending)
    <3>1. todo \in Seq(Tree) /\ postpone \in Seq(Tree)
      BY <1>2, StaticFacts, Zenon
    <3> QED
      BY <3>1 DEF Pending
  <2>3. CASE j = 1
    BY <1>3, <1>4, <2>1, <2>3, Zenon DEF Accounted
  <2>4. CASE j # 1
    <3>1. PICK k \in 1..(l - 1) : k + 1 = j
      <4>1. j - 1 \in 1..(l - 1) /\ (j - 1) + 1 = j
        BY <2>1, <2>2, <2>4
      <4> QED
        BY <4>1, Zenon
    <3>2. k \in 1..Len(Pending') /\ Pending'[k].node = n
      BY <1>3, <2>1, <2>2, <3>1, Zenon
    <3> QED
      BY <3>2, Zenon DEF Awaited, Accounted
  <2> QED
    BY <2>3, <2>4
<1> QED
  BY <1>1, <1>2, <1>3, <1>5, StartsAccounted, Zenon

(* A step that leaves the DIEs, the activations and the pending trees.      *)
LEMMA SameAccounted ==
  ASSUME AllAccounted, text' = text, dies' = dies, stack' = stack, Pending' = Pending,
         status' \in {"creating", "done"} => status \in {"creating", "done"}
  PROVE  AllAccounted' /\ Keeps
<1>1. \A n : Accounted(n)' = Accounted(n)
  BY Zenon DEF Accounted, Made, Complete, Awaited, InProgress
<1>2. TopAccounted'
  BY <1>1, Zenon DEF AllAccounted, TopAccounted
<1>3. FramesAccounted'
  <2>1. ASSUME NEW i \in 1..Len(stack')
        PROVE  FrameAccounted(stack[i])'
    <3>1. PICK f : f = stack[i] /\ FrameAccounted(f)
      BY Zenon DEF AllAccounted, FramesAccounted
    <3>2. FrameAccounted(f)'
      BY <1>1, <3>1, FrameAccountedKept, Zenon DEF Keeps
    <3> QED
      BY <3>1, <3>2, Zenon DEF FrameAccounted
  <2> QED
    BY <2>1, Zenon DEF FramesAccounted
<1>4. InlinesAccounted' /\ ChildrenAccounted'
  <2>1. \A i : Complete(i)' = Complete(i)
    BY Zenon DEF Complete
  <2>2. \A n : InlinesOf(n)' = InlinesOf(n)
    BY Zenon DEF InlinesOf
  <2>3. InlinesAccounted'
    <3> SUFFICES ASSUME NEW i \in 1..Len(dies), dies[i].node # NoNode,
                        NEW n \in InlinesOf(dies[i].node)
                 PROVE  Accounted(n)'
      BY <2>2, Zenon DEF InlinesAccounted
    <3>1. Accounted(n)
      BY Zenon DEF AllAccounted, InlinesAccounted
    <3> QED
      BY <1>1, <3>1, Zenon
  <2>4. ChildrenAccounted'
    <3> SUFFICES ASSUME NEW i \in 1..Len(dies), Complete(i),
                        NEW j \in 1..Len(text.children[dies[i].node]),
                        NEW n, n = text.children[dies[i].node][j]
                 PROVE  Accounted(n)' \/ \E g \in 1..Len(stack) : Waits(stack[g], i, j)
      BY <2>1, Zenon DEF ChildrenAccounted
    <3>1. Accounted(n) \/ \E g \in 1..Len(stack) : Waits(stack[g], i, j)
      BY Zenon DEF AllAccounted, ChildrenAccounted
    <3> QED
      BY <1>1, <3>1, Zenon
  <2> QED
    BY <2>3, <2>4
<1> QED
  BY <1>1, <1>2, <1>3, <1>4, Zenon DEF AllAccounted, Keeps

LEMMA ReturnAccounted ==
  ASSUME Shape, Shape', AllAccounted, Return
  PROVE  AllAccounted' /\ Keeps
<1>1. /\ status = "creating" /\ status' = status /\ stack # <<>> /\ frame.at = "children"
      /\ frame.next \notin DOMAIN children /\ text' = text /\ dies' = dies
      /\ UNCHANGED <<text, real_parent, dies>> /\ UNCHANGED <<todo, postpone>>
  BY DEF Return, Running
<1>2. Static /\ Static' /\ CallsSound /\ Grows
  BY <1>1, SameGrows DEF Shape
<1>3. PICK f \in Frame : /\ f = stack[top] /\ f.at = "children" /\ FrameSound(f)
                         /\ FrameAccounted(f) /\ children = text.children[f.node]
                         /\ Len(children) \in Nat
                         /\ f.next \in Nat \ {0} /\ f.next \notin 1..Len(children)
  BY <1>1, RunningFacts, RunningAccounted, Zenon
<1>4. /\ top \in Nat \ {0} /\ top = Len(stack)
      /\ Len(stack') = top - 1 /\ Others(top - 2)
      /\ top > 1 => Calls(stack[top - 1], f) /\ \E g : Returns(g)
  BY <1>1, <1>2, <1>3, ReturnDoes, RunningFacts, Zenon
<1>5. Accounted(f.node)
  BY <1>3, Zenon DEF FrameAccounted
<1>6. f.at # "nested" /\ f.at # "attrs" /\ f.at \notin {"nested", "attrs"}
  BY <1>3
(* It waits for no more.                                                    *)
<1>7. ASSUME NEW i \in 1..Len(dies), NEW j \in 1..Len(text.children[dies[i].node]),
             Waits(f, i, j)
      PROVE  FALSE
  <2>1. f.created = i /\ f.next <= j
    BY <1>6, <1>7, Zenon DEF Waits
  <2>2. i # END
    BY DEF END
  <2>3. dies[i].node = f.node
    BY <1>3, <2>1, <2>2, Zenon DEF FrameSound
  <2>4. PICK l \in Nat : l = Len(children) /\ j \in 1..l
    BY <1>3, <2>3, Zenon
  <2>5. f.next \in 1..l
    BY <1>3, <2>1, <2>4
  <2> QED
    BY <1>3, <2>4, <2>5, Zenon
<1>8. AwaitedKept
  BY <1>1, PendingSame
<1>9. \A i \in 1..Len(dies') :
        i \in 1..Len(dies) \/ \A x \in InlinesOf(dies'[i].node) : Accounted(x)'
  BY <1>1, Zenon
<1>10. \A i \in 1..Len(dies') :
         Complete(i)' => \/ i \in 1..Len(dies) /\ Complete(i)
                         \/ \E h \in 1..Len(stack') : /\ stack'[h].created = i
                                                      /\ stack'[h].at = "attrs"
  BY <1>1, Zenon DEF Complete
<1>11. status' \in {"creating", "done"} => status \in {"creating", "done"}
  BY <1>1, Zenon
<1>12. CASE top = 1
  <2>1. 1..Len(stack') = {} /\ 1..Len(stack) = {top}
    BY <1>4, <1>12
  <2>2. Keeps
    <3>1. \A x : ~InProgress(x)
      BY <1>3, <1>6, <2>1, Zenon DEF InProgress
    <3> QED
      BY <1>2, <1>8, <3>1, KeepsIf, Zenon DEF AwaitedKept
  <2>3. \A i \in 1..Len(stack') : FrameAccounted(stack[i])'
    BY <2>1, Zenon
  <2>4. \A i \in 1..Len(dies) : \A j \in 1..Len(text.children[dies[i].node]) :
          Complete(i) => \A h \in 1..Len(stack) : Waits(stack[h], i, j) => Served(i, j)
    BY <1>3, <1>7, <2>1, Zenon
  <2> QED
    BY <1>2, <1>9, <1>10, <1>11, <2>2, <2>3, <2>4, AllAccountedKept, Zenon
<1>13. CASE top # 1
  <2>1. PICK m \in Nat \ {0} : /\ m = top - 1 /\ Len(stack') = m
                               /\ \A i \in 1..top : i \in 1..m \/ i = top
                               /\ m \in 1..Len(stack')
    BY <1>4, <1>13
  <2>2. PICK n \in Nat : /\ n = top - 2 /\ Others(n) /\ n <= Len(stack) /\ n <= Len(stack')
                         /\ Len(stack) \in Nat /\ Len(stack') \in Nat
                         /\ \A i \in 1..m : i \in 1..n \/ i = m
                         /\ \A i \in 1..n : i \in 1..m
    <3>1. top > 1
      BY <1>4, <1>13
    <3>2. \A t \in Nat \ {0} : t > 1 =>
            /\ t - 2 \in Nat /\ t - 2 <= t /\ t - 2 <= t - 1
            /\ \A i \in 1..(t - 1) : i \in 1..(t - 2) \/ i = t - 1
            /\ \A i \in 1..(t - 2) : i \in 1..(t - 1)
      OBVIOUS
    <3>3. /\ top - 2 \in Nat /\ top - 2 <= top /\ top - 2 <= m /\ top \in Nat /\ m \in Nat
          /\ \A i \in 1..m : i \in 1..(top - 2) \/ i = m
          /\ \A i \in 1..(top - 2) : i \in 1..m
      BY <1>4, <2>1, <3>1, <3>2, Zenon
    <3> QED
      BY <1>4, <2>1, <3>3, Zenon
  <2>3. PICK g : Returns(g) /\ Calls(stack[m], f)
    <3>1. top > 1
      BY <1>4, <1>13
    <3> QED
      BY <1>4, <2>1, <3>1, Zenon
  <2>4. PICK c \in Frame : /\ c = stack[m] /\ g \in Frame /\ stack'[m] = g /\ Calls(c, f)
                           /\ g.node = c.node /\ g.at = c.at /\ g.created = c.created
                           /\ g.next = c.next + 1
    BY <2>1, <2>3, Zenon DEF Returns, Moves
  <2>5. c.next \in Nat \ {0} /\ (c.at = "nested" \/ c.at = "children")
    BY <2>4, FrameFields, Zenon DEF Calls
  <2>6. Keeps
    <3>1. ASSUME NEW x, InProgress(x)
          PROVE  Accounted(x)'
      <4>1. PICK i \in 1..top : stack[i].node = x /\ stack[i].at \in {"nested", "attrs"}
        BY <1>4, <3>1, Zenon DEF InProgress
      <4>2. i # top
        BY <1>3, <1>6, <4>1, Zenon
      <4>3. CASE i \in 1..n
        BY <2>2, <4>1, <4>3, OthersInProgress, Zenon DEF Accounted
      <4>4. CASE i = m
        BY <2>1, <2>4, <4>1, <4>4, Zenon DEF InProgress, Accounted
      <4> QED
        BY <2>1, <2>2, <4>1, <4>2, <4>3, <4>4, Zenon
    <3> QED
      BY <1>2, <1>8, <3>1, KeepsIf, Zenon DEF AwaitedKept
  <2>7. FrameAccounted(g)'
    <3>1. FrameAccounted(c)
      <4>1. m \in 1..Len(stack)
        BY <1>4, <2>1
      <4> QED
        BY <2>4, <4>1, Zenon DEF AllAccounted, FramesAccounted
    <3>2. FrameAccounted(c)'
      BY <1>1, <2>6, <3>1, FrameAccountedKept, Zenon
    <3>3. CASE c.at = "nested"
      <4>1. c.at # "children"
        BY <3>3
      <4>2. text.attrs[c.node][c.next].to = f.node
        BY <2>4, <4>1, Zenon DEF Calls
      <4>3. \A x : x = f.node => Accounted(x)'
        BY <1>5, <2>6, Zenon DEF Keeps
      <4>4. \A j \in 1..(g.next - 1) : j \in 1..(c.next - 1) \/ j = c.next
        <5>1. \A a \in Nat \ {0} : \A j \in 1..((a + 1) - 1) : j \in 1..(a - 1) \/ j = a
          OBVIOUS
        <5> QED
          BY <2>4, <2>5, <5>1, Zenon
      <4>5. \A x, j : j \in 1..(g.next - 1) /\ text.attrs[g.node][j].kind = "die"
                      /\ x = text.attrs[g.node][j].to => Accounted(x)'
        BY <1>1, <2>4, <3>2, <3>3, <4>2, <4>3, <4>4, Zenon DEF FrameAccounted
      <4> QED
        BY <1>1, <2>4, <3>3, <4>1, <4>5, Zenon DEF FrameAccounted
    <3>4. CASE c.at = "children"
      <4>1. c.at # "nested"
        BY <3>4
      <4> QED
        BY <2>4, <3>2, <4>1, Zenon DEF FrameAccounted
    <3> QED
      BY <2>5, <3>3, <3>4
  <2>8. \A i \in 1..Len(stack') : FrameAccounted(stack[i])'
    <3>1. \A i \in 1..n : FrameAccounted(stack[i])'
      BY <1>1, <2>2, <2>6, OthersAccounted, Zenon DEF AllAccounted
    <3>2. ASSUME NEW i, i = m
          PROVE  FrameAccounted(stack[i])'
      <4>1. stack'[i] = g
        BY <2>4, <3>2, Zenon
      <4> QED
        BY <2>7, <4>1, Zenon DEF FrameAccounted
    <3> QED
      BY <2>1, <2>2, <3>1, <3>2, Zenon
  <2>9. ASSUME NEW i \in 1..Len(dies), NEW j \in 1..Len(text.children[dies[i].node]),
               Complete(i), NEW h \in 1..Len(stack), Waits(stack[h], i, j)
        PROVE  Served(i, j)
    <3>1. h # top
      BY <1>3, <1>7, <2>9, Zenon
    <3>2. CASE h \in 1..n
      <4>1. stack'[h] = stack[h] /\ h \in 1..Len(stack')
        BY <2>1, <2>2, <3>2, Zenon DEF Others
      <4> QED
        BY <2>9, <4>1, Zenon DEF Served
    <3>3. CASE h = m
      <4>1. c.at = "children" /\ c.at # "nested" /\ c.at # "attrs" /\ c.created = i /\ c.next <= j
        <5>1. c.at # "attrs"
          BY <2>5
        <5>2. c.at = "children" /\ c.created = i /\ c.next <= j
          BY <2>4, <2>9, <3>3, <5>1, Zenon DEF Waits
        <5> QED
          BY <5>1, <5>2
      <4>2. PICK k \in Nat : k = j
        <5>1. \A l : j \in 1..l => j \in Nat
          OBVIOUS
        <5> QED
          BY <5>1, Zenon
      <4>3. CASE c.next = j
        <5>1. dies[i].node = c.node
          <6>1. FrameSound(c)
            <7>1. m \in 1..Len(stack)
              BY <1>4, <2>1
            <7> QED
              BY <2>4, <7>1, Zenon DEF Shape, FramesSound
          <6>2. i # END
            BY DEF END
          <6> QED
            BY <4>1, <6>1, <6>2, Zenon DEF FrameSound
        <5>2. text.children[dies[i].node][j] = f.node
          BY <2>4, <4>1, <4>3, <5>1, Zenon DEF Calls
        <5> QED
          BY <1>5, <2>6, <5>2, Zenon DEF Served, Keeps
      <4>4. CASE c.next # j
        <5>1. g.next <= j
          BY <2>4, <2>5, <4>1, <4>2, <4>4
        <5>2. Waits(g, i, j)
          BY <2>4, <4>1, <5>1, Zenon DEF Waits
        <5> QED
          BY <2>1, <2>4, <5>2, Zenon DEF Served
      <4> QED
        BY <4>3, <4>4
    <3> QED
      BY <1>4, <2>1, <2>2, <3>1, <3>2, <3>3, Zenon
  <2> QED
    BY <1>2, <1>9, <1>10, <1>11, <2>6, <2>8, <2>9, AllAccountedKept, Zenon
<1> QED
  BY <1>12, <1>13

LEMMA ChooseParentAccounted ==
  ASSUME Shape, Shape', AllAccounted, ChooseParent
  PROVE  AllAccounted'
<1>1. /\ stack' = <<>> /\ postpone' = <<>> /\ text' = text /\ todo' \in Seq(Tree)
      /\ Len(todo') = Len(text.top)
      /\ \A j \in 1..Len(text.top) : todo'[j].node = text.top[j]
      /\ \/ dies' = <<>>
         \/ dies' = <<[node |-> NoNode, parent |-> 0, refs |-> <<>>]>>
  BY ChooseParentDoes, Zenon
<1>2. \A i \in 1..Len(dies') : dies'[i].node = NoNode
  BY <1>1
<1>3. TopAccounted'
  <2> SUFFICES ASSUME NEW n \in Range(text.top) PROVE Awaited(n)'
    BY <1>1, Zenon DEF TopAccounted, Accounted
  <2>1. PICK t \in Seq(Node) : t = text.top
    BY StaticFacts, TextFacts, Zenon DEF Shape
  <2>2. PICK j \in 1..Len(t) : n = t[j]
    BY <2>1 DEF Range
  <2>3. Pending' = todo'
    <3>1. PICK u \in Seq(Tree) : u = todo'
      BY <1>1
    <3>2. u \o <<>> = u
      OBVIOUS
    <3> QED
      BY <1>1, <3>1, <3>2, Zenon DEF Pending
  <2> QED
    BY <1>1, <2>1, <2>2, <2>3, Zenon DEF Awaited
<1>4. FramesAccounted'
  <2>1. 1..Len(stack') = {}
    BY <1>1
  <2> QED
    BY <2>1, Zenon DEF FramesAccounted
<1>5. InlinesAccounted' /\ ChildrenAccounted'
  BY <1>2, Zenon DEF InlinesAccounted, ChildrenAccounted, Complete
<1> QED
  BY <1>3, <1>4, <1>5, Zenon DEF AllAccounted

LEMMA AllAccountedStep ==
  ASSUME Shape, Shape', AllAccounted, [Next]_vars
  PROVE  AllAccounted' /\ (ChooseParent \/ Keeps)
<1>1. CASE ParentIsGone \/ ReferToEnd \/ ChildOfEnd
  <2>1. Undefined
    BY <1>1, Zenon DEF ParentIsGone, ReferToEnd, ChildOfEnd
  <2>2. /\ text' = text /\ dies' = dies /\ stack' = stack /\ Pending' = Pending
        /\ status' \notin {"creating", "done"}
    BY <2>1 DEF Undefined, Pending
  <2> QED
    BY <2>2, SameAccounted, Zenon
<1>2. CASE UNCHANGED vars
  <2>1. text' = text /\ dies' = dies /\ stack' = stack /\ Pending' = Pending /\ status' = status
    BY <1>2 DEF vars, Pending
  <2> QED
    BY <2>1, SameAccounted, Zenon
<1>3. CASE Finish
  <2>1. /\ text' = text /\ dies' = dies /\ stack' = stack /\ Pending' = Pending
        /\ status \in {"creating", "done"}
    BY <1>3 DEF Finish, PassOver, Pending
  <2> QED
    BY <2>1, SameAccounted, Zenon
<1>4. CASE PostponedPass
  <2>1. text' = text /\ dies' = dies /\ stack' = stack /\ status' = status
    BY <1>4 DEF PostponedPass
  <2>2. Pending' = Pending
    BY <1>4, PassPends DEF Shape
  <2> QED
    BY <2>1, <2>2, SameAccounted, Zenon
<1> QED
  BY <1>1, <1>2, <1>3, <1>4, ChooseParentAccounted, CreateNextAccounted, CreateNestedAccounted,
     NotNestedAccounted, MakeNewAccounted, SetAttributeAccounted, PostponeAccounted,
     AllAttributesAccounted, CreateChildAccounted, ReturnAccounted, Zenon DEF Next

LEMMA AllAccountedAtFirst ==
  ASSUME Init
  PROVE  AllAccounted
<1>1. 1..Len(dies) = {} /\ 1..Len(stack) = {} /\ status \notin {"creating", "done"}
  BY DEF Init
<1> QED
  BY <1>1, Zenon DEF AllAccounted, TopAccounted, FramesAccounted, InlinesAccounted, ChildrenAccounted
-----------------------------------------------------------------------------
(* Only the first activation is for a tree of the top.                      *)
LEMMA CalledIsWithin ==
  ASSUME Static, NEW f \in Frame, NEW g, Calls(f, g)
  PROVE  g.node \notin Range(text.top)
<1>1. PICK m \in Node : m = f.node
  BY FrameFields, Zenon
<1>2. /\ text.attrs[m] \in Seq(Value) /\ text.children[m] \in Seq(Node)
      /\ Subtrees(text, m) \cap Range(text.top) = {}
  BY StaticFacts, TextFacts, Zenon
<1>3. /\ DOMAIN text.attrs[m] = 1..Len(text.attrs[m])
      /\ DOMAIN text.children[m] = 1..Len(text.children[m])
  BY <1>2
<1>4. g.node \in Subtrees(text, m)
  BY <1>1, <1>3, Zenon DEF Calls, Subtrees, Range
<1> QED
  BY <1>2, <1>4, Zenon

LEMMA TopIsFirst ==
  ASSUME Static, CallsSound, NEW i \in 1..Len(stack), stack[i].node \in Range(text.top)
  PROVE  i = 1
<1> SUFFICES ASSUME i # 1 PROVE FALSE
  OBVIOUS
<1>1. PICK j \in 1..(Len(stack) - 1) : j + 1 = i /\ j \in 1..Len(stack)
  <2>1. Len(stack) \in Nat
    BY StaticFacts, Zenon
  <2>2. i - 1 \in 1..(Len(stack) - 1) /\ (i - 1) + 1 = i /\ i - 1 \in 1..Len(stack)
    BY <2>1
  <2> QED
    BY <2>2, Zenon
<1>2. Calls(stack[j], stack[i])
  BY <1>1, Zenon DEF CallsSound
<1>3. stack[j] \in Frame
  BY <1>1, StaticFacts, ElementOfSeq, Zenon
<1> QED
  BY <1>2, <1>3, CalledIsWithin, Zenon

(* A step that leaves the pending trees.                                    *)
NoNewProgress == \A n \in Range(text.top) : InProgress(n)' => InProgress(n)
MadeFromProgress == \A n \in Range(text.top) : Made(n)' => Made(n) \/ InProgress(n)

LEMMA OnceIf ==
  ASSUME Once, Pending' = Pending, text' = text, NoNewProgress, MadeFromProgress, UnfinishedUnmade'
  PROVE  Once'
<1>1. PendingOnce'
  BY Zenon DEF Once, PendingOnce
<1>2. PendingOnly'
  <2> SUFFICES ASSUME NEW j \in 1..Len(Pending), NEW n \in Range(text.top), n = Pending[j].node
               PROVE  ~Made(n)' /\ ~InProgress(n)'
    BY Zenon DEF PendingOnly
  <2>1. ~Made(n) /\ ~InProgress(n)
    BY Zenon DEF Once, PendingOnly
  <2> QED
    BY <2>1, Zenon DEF NoNewProgress, MadeFromProgress
<1> QED
  BY <1>1, <1>2, Zenon DEF Once

(* The running activation goes on, as g.                                    *)
RunsOn(g) == g.at \in {"nested", "attrs"} => stack[top].at \in {"nested", "attrs"}
MadeHere == \A n : Made(n)' => \/ Made(n)
                               \/ n = stack[top].node /\ stack[top].at \in {"nested", "attrs"}
StillUnmade(g) == Unfinished(g) => /\ Unfinished(stack[top])
                                   /\ \A n : n = stack[top].node => (Made(n)' => Made(n))

LEMMA GoesOnOnce ==
  ASSUME Shape, Once, Pending' = Pending, text' = text, NEW g, GoesOn(g),
         RunsOn(g), MadeHere, StillUnmade(g)
  PROVE  Once'
<1>1. Static /\ CallsSound
  BY Zenon DEF Shape
<1>2. /\ top \in Nat \ {0} /\ top = Len(stack) /\ Len(stack') = top /\ stack'[top] = g
      /\ Others(top - 1) /\ g.node = stack[top].node
  BY Zenon DEF GoesOn, top, Moves
<1>3. PICK n \in Nat : /\ n = top - 1 /\ Others(n) /\ top \in 1..Len(stack)
                       /\ (\A i \in 1..top : i \in 1..n \/ i = top)
                       /\ (\A i \in 1..n : i \in 1..Len(stack))
                       /\ (n # 0 => top # 1)
  <2>1. \A m \in Nat \ {0} : /\ m - 1 \in Nat /\ m \in 1..m
                             /\ \A i \in 1..m : i \in 1..(m - 1) \/ i = m
                             /\ \A i \in 1..(m - 1) : i \in 1..m
                             /\ m - 1 # 0 => m # 1
    OBVIOUS
  <2> QED
    BY <1>2, <2>1, Zenon
<1>4. NoNewProgress
  <2> SUFFICES ASSUME NEW m, InProgress(m)' PROVE InProgress(m)
    BY Zenon DEF NoNewProgress
  <2>1. PICK i \in 1..top : stack'[i].node = m /\ stack'[i].at \in {"nested", "attrs"}
    BY <1>2, Zenon DEF InProgress
  <2>2. CASE i \in 1..n
    BY <1>3, <2>1, <2>2, Zenon DEF InProgress, Others
  <2>3. CASE i = top
    BY <1>2, <1>3, <2>1, <2>3, Zenon DEF InProgress, RunsOn
  <2> QED
    BY <1>3, <2>1, <2>2, <2>3, Zenon
<1>5. MadeFromProgress
  BY <1>2, <1>3, Zenon DEF MadeFromProgress, InProgress, MadeHere
<1>6. UnfinishedUnmade'
  <2> SUFFICES ASSUME NEW i \in 1..top, NEW f, f = stack'[i], NEW m \in Range(text.top), m = f.node,
                      Unfinished(f), Made(m)'
               PROVE  FALSE
    <3>1. \A f : Unfinished(f)' = Unfinished(f)
      BY Zenon DEF Unfinished
    <3> QED
      BY <1>2, <3>1, Zenon DEF UnfinishedUnmade, Unfinished
  <2>1. CASE i = top
    <3>1. f = g /\ m = stack[top].node
      BY <1>2, <2>1, Zenon
    <3>2. Unfinished(stack[top]) /\ Made(m)
      BY <3>1, Zenon DEF StillUnmade
    <3> QED
      BY <1>3, <3>1, <3>2, Zenon DEF Once, UnfinishedUnmade
  <2>2. CASE i \in 1..n
    <3>1. f = stack[i] /\ i \in 1..Len(stack)
      BY <1>3, <2>2, Zenon DEF Others
    <3>2. i = 1
      BY <1>1, <3>1, TopIsFirst, Zenon
    <3>3. top # 1
      <4>1. n # 0
        BY <2>2
      <4> QED
        BY <1>3, <4>1, Zenon
    <3>4. stack[top].node \notin Range(text.top)
      BY <1>1, <1>3, <3>3, TopIsFirst, Zenon
    <3>5. Made(m)
      BY <3>4, Zenon DEF MadeHere
    <3> QED
      BY <3>1, <3>5, Zenon DEF Once, UnfinishedUnmade
  <2> QED
    BY <1>3, <2>1, <2>2, Zenon
<1> QED
  BY <1>4, <1>5, <1>6, OnceIf, Zenon

LEMMA AttrsOnce ==
  ASSUME Shape, Shape', Once, Pending' = Pending, text' = text, NEW g, GoesOn(g), g.at = "attrs",
         Unfinished(stack[top]), stack[top].at \in {"nested", "attrs"},
         \A i \in 1..Len(dies') :
           i = g.created \/ (i \in 1..Len(dies) /\ dies'[i] = dies[i])
  PROVE  Once'
<1>1. Static /\ DOMAIN dies = 1..Len(dies) /\ DOMAIN dies' = 1..Len(dies')
  <2>1. Static /\ dies' \in Seq(Die)
    BY Zenon DEF Shape, Static
  <2> QED
    BY <2>1, DomainDies
<1>2. /\ top \in 1..Len(stack') /\ stack'[top] = g /\ g.node = stack[top].node /\ g \in Frame
      /\ top' = top
  BY GoesOnTop, Zenon DEF GoesOn, top
<1>3. dies'[g.created].node = g.node /\ Len(dies'[g.created].refs) = g.next - 1
  <2>1. FrameSound(stack[top])'
    BY <1>2, Zenon DEF Shape, FramesSound
  <2>2. FrameSound(g)'
    BY <1>2, <2>1, Zenon DEF FrameSound
  <2> QED
    BY <2>2, Zenon DEF FrameSound
<1>4. ASSUME NEW n, Made(n)', ~Made(n)
      PROVE  n = stack[top].node /\ Complete(g.created)'
  <2>1. PICK i \in 1..Len(dies') : dies'[i].node = n /\ Complete(i)'
    BY <1>1, <1>4, Zenon DEF Made
  <2>2. i = g.created
    <3> SUFFICES ASSUME i \in 1..Len(dies), dies'[i] = dies[i] PROVE FALSE
      BY Zenon
    <3>1. Complete(i)
      BY <2>1, Zenon DEF Complete
    <3> QED
      BY <1>1, <1>4, <2>1, <3>1, Zenon DEF Made
  <2> QED
    BY <1>2, <1>3, <2>1, <2>2, Zenon DEF Complete
<1>5. ASSUME Unfinished(g), Complete(g.created)'
      PROVE  FALSE
  <2>1. g.at # "nested"
    OBVIOUS
  <2>2. g.next <= Len(text.attrs[g.node]) /\ Len(text.attrs[g.node]) = g.next - 1
    BY <1>3, <1>5, <2>1, Zenon DEF Unfinished, Complete
  <2>3. g.next \in Nat \ {0}
    BY <1>2, FrameFields
  <2> QED
    BY <2>2, <2>3
<1>6. MadeHere /\ StillUnmade(g)
  BY <1>4, <1>5, Zenon DEF MadeHere, StillUnmade
<1>7. RunsOn(g)
  BY Zenon DEF RunsOn
<1> QED
  BY <1>6, <1>7, GoesOnOnce, Zenon

(* The DIEs are left.                                                       *)
LEMMA MadeSame ==
  ASSUME text' = text, dies' = dies
  PROVE  \A n : Made(n)' = Made(n)
BY Zenon DEF Made, Complete

LEMMA NotNestedOnce ==
  ASSUME Shape, Once, NotNested
  PROVE  Once'
<1>1. /\ stack # <<>> /\ frame.at = "nested" /\ text' = text /\ dies' = dies
      /\ Pending' = Pending
  BY DEF NotNested, Running, Pending
<1>2. PICK g : Next1(g)
  BY NotNestedDoes, Zenon DEF Shape
<1>3. GoesOn(g) /\ stack[top].at = "nested" /\ "nested" \in {"nested", "attrs"}
  BY <1>1, <1>2, RunningFacts DEF Next1
<1>4. RunsOn(g) /\ MadeHere /\ StillUnmade(g)
  BY <1>1, <1>3, MadeSame, Zenon DEF RunsOn, MadeHere, StillUnmade, Unfinished
<1> QED
  BY <1>1, <1>3, <1>4, GoesOnOnce, Zenon

LEMMA AllAttributesOnce ==
  ASSUME Shape, Once, AllAttributes
  PROVE  Once'
<1>1. /\ stack # <<>> /\ text' = text /\ dies' = dies /\ Pending' = Pending
  BY DEF AllAttributes, Running, Pending
<1>2. PICK g : Turns(g, "children")
  BY AllAttributesDoes, Zenon DEF Shape
<1>3. GoesOn(g) /\ g.at \notin {"nested", "attrs"} /\ g.at # "nested" /\ g.at # "attrs"
  BY <1>2 DEF Turns
<1>4. ~Unfinished(g)
  BY <1>3, Zenon DEF Unfinished
<1>5. RunsOn(g) /\ MadeHere /\ StillUnmade(g)
  <2>1. \A n : Made(n)' = Made(n)
    BY <1>1, MadeSame, Zenon
  <2>2. RunsOn(g) /\ StillUnmade(g)
    BY <1>3, <1>4, Zenon DEF RunsOn, StillUnmade
  <2> QED
    BY <2>1, <2>2, Zenon DEF MadeHere
<1> QED
  BY <1>1, <1>3, <1>5, GoesOnOnce, Zenon

LEMMA MakeNewOnce ==
  ASSUME Shape, Shape', Once, MakeNew
  PROVE  Once'
<1>1. /\ stack # <<>> /\ frame.at = "nested" /\ text' = text /\ Pending' = Pending
  BY DEF MakeNew, Running, Pending
<1>2. Static
  BY Zenon DEF Shape
<1>3. PICK g : Turns(g, "attrs") /\ g.created = Len(dies) + 1
  BY <1>2, MakeNewDoes, Zenon
<1>4. GoesOn(g) /\ g.at = "attrs" /\ stack[top].at = "nested" /\ "nested" \in {"nested", "attrs"}
  BY <1>1, <1>3, RunningFacts DEF Turns
<1>5. Unfinished(stack[top])
  BY <1>4, Zenon DEF Unfinished
<1>6. \A i \in 1..Len(dies') : i = g.created \/ (i \in 1..Len(dies) /\ dies'[i] = dies[i])
  <2>1. Len(dies) \in Nat
    BY <1>2, StaticFacts, Zenon
  <2>2. \A m \in Nat : \A i \in 1..(m + 1) : i \in 1..m \/ i = m + 1
    OBVIOUS
  <2> QED
    BY <1>2, <1>3, <2>1, <2>2, MakeNewDoes, Zenon
<1> QED
  BY <1>1, <1>4, <1>5, <1>6, AttrsOnce, Zenon

LEMMA SetAttributeOnce ==
  ASSUME Shape, Shape', Once, SetAttribute
  PROVE  Once'
<1>1. /\ stack # <<>> /\ frame.at = "attrs" /\ text' = text /\ Pending' = Pending
  BY DEF SetAttribute, Running, Pending
<1>2. Static
  BY Zenon DEF Shape
<1>3. PICK g : Next1(g)
  BY <1>2, SetAttributeDoes, Zenon
<1>4. PICK c \in 1..Len(dies), v \in Found : Sets(c, v)
  BY SetAttributeSets
<1>5. stack[top].at = "attrs" /\ stack[top].at \in {"nested", "attrs"}
  BY <1>1, RunningFacts
<1>6. GoesOn(g) /\ g.at = "attrs" /\ g.created = c
  BY <1>3, <1>4, <1>5, Zenon DEF Next1, Sets
<1>7. Unfinished(stack[top])
  BY <1>4, <1>5, Zenon DEF Unfinished, Sets
<1>8. \A i \in 1..Len(dies') : i = g.created \/ (i \in 1..Len(dies) /\ dies'[i] = dies[i])
  BY <1>4, <1>6, Zenon DEF Sets
<1> QED
  BY <1>1, <1>5, <1>6, <1>7, <1>8, AttrsOnce, Zenon

(* An activation is added for a tree that is not of the top.                *)
LEMMA StartsOnce ==
  ASSUME Shape, Shape', Once, Pending' = Pending, text' = text, dies' = dies,
         stack # <<>>, NEW p, NEW x, Starts(p, x)
  PROVE  Once'
<1>1. Static /\ Static' /\ CallsSound'
  BY Zenon DEF Shape
<1>2. /\ top \in Nat \ {0} /\ top = Len(stack) /\ Len(stack') = top + 1 /\ Others(top)
      /\ stack[top] \in Frame
  BY RunningFacts, Zenon DEF Starts
<1>3. /\ \A i \in 1..(top + 1) : i \in 1..top \/ i = top + 1
      /\ top \in 1..((top + 1) - 1) /\ top \in 1..top
  BY <1>2
<1>4. stack'[top + 1].node \notin Range(text.top)
  <2>1. Calls(stack'[top], stack'[top + 1])
    <3>1. \A i \in 1..(Len(stack') - 1) : Calls(stack[i], stack[i + 1])'
      BY <1>1, Zenon DEF CallsSound
    <3>2. \A i, f, g : i \in 1..(Len(stack') - 1) /\ f = stack'[i] /\ g = stack'[i + 1]
            => Calls(f, g)
      BY <3>1, Zenon DEF Calls
    <3> QED
      BY <1>2, <1>3, <3>2, Zenon
  <2>2. stack'[top] = stack[top]
    BY <1>3, <1>2, Zenon DEF Others
  <2> QED
    BY <1>1, <1>2, <2>1, <2>2, CalledIsWithin, Zenon
<1>5. NoNewProgress
  <2> SUFFICES ASSUME NEW m \in Range(text.top), InProgress(m)' PROVE InProgress(m)
    BY Zenon DEF NoNewProgress
  <2>1. PICK i \in 1..(top + 1) : stack'[i].node = m /\ stack'[i].at \in {"nested", "attrs"}
    BY <1>2, Zenon DEF InProgress
  <2>2. i \in 1..top
    BY <1>3, <1>4, <2>1, Zenon
  <2> QED
    BY <1>2, <2>1, <2>2, Zenon DEF InProgress, Others
<1>6. MadeFromProgress
  BY MadeSame, Zenon DEF MadeFromProgress
<1>7. UnfinishedUnmade'
  <2> SUFFICES ASSUME NEW i \in 1..(top + 1), NEW f, f = stack'[i], f.node \in Range(text.top),
                      Unfinished(f)
               PROVE  ~Made(f.node)
    <3>1. /\ \A h : Unfinished(h)' = Unfinished(h)
          /\ \A n : Made(n)' = Made(n)
      BY MadeSame, Zenon DEF Unfinished
    <3> QED
      BY <1>2, <3>1, Zenon DEF UnfinishedUnmade, Unfinished
  <2>1. i \in 1..top
    BY <1>3, <1>4, Zenon
  <2> QED
    BY <1>2, <2>1, Zenon DEF Others, Once, UnfinishedUnmade
<1> QED
  BY <1>5, <1>6, <1>7, OnceIf, Zenon

LEMMA CreateNestedOnce ==
  ASSUME Shape, Shape', Once, CreateNested
  PROVE  Once'
<1>1. text' = text /\ dies' = dies /\ Pending' = Pending /\ stack # <<>>
  BY DEF CreateNested, Running, Pending
<1>2. \E p, n : Starts(p, n)
  BY CreateNestedDoes, Zenon DEF Shape
<1> QED
  BY <1>1, <1>2, StartsOnce, Zenon

LEMMA CreateChildOnce ==
  ASSUME Shape, Shape', Once, CreateChild
  PROVE  Once'
<1>1. text' = text /\ dies' = dies /\ Pending' = Pending /\ stack # <<>> /\ frame.created # END
  BY DEF CreateChild, Running, Pending
<1>2. stack[top].created \in Nat
  <2>1. stack[top].created \in 1..Len(dies)
    BY <1>1, RunningFacts, Zenon DEF FrameSound, Found
  <2> QED
    BY <2>1
<1>3. \E p, n : Starts(p, n)
  BY <1>2, CreateChildDoes, Zenon DEF Shape
<1> QED
  BY <1>1, <1>3, StartsOnce, Zenon

LEMMA CreateNextOnce ==
  ASSUME Shape, Shape', Once, CreateNext
  PROVE  Once'
<1>1. text' = text /\ dies' = dies /\ stack = <<>>
  BY DEF CreateNext
<1>2. Static
  BY Zenon DEF Shape
<1>3. PICK e : /\ Starts(e.parent, e.node) /\ e = Pending[1] /\ top = 0
               /\ Len(Pending') = Len(Pending) - 1
               /\ \A j \in 1..Len(Pending') : Pending'[j] = Pending[j + 1]
               /\ todo # <<>>
  BY <1>2, CreateNextDoes, Zenon
<1>4. PICK l \in Nat \ {0} : l = Len(Pending)
  <2>1. todo \in Seq(Tree) /\ postpone \in Seq(Tree)
    BY <1>2, StaticFacts, Zenon
  <2>2. Len(todo \o postpone) \in Nat \ {0}
    BY <1>3, <2>1
  <2> QED
    BY <2>2, Zenon DEF Pending
<1>5. PICK f : /\ f = Activation(e.parent, e.node) /\ f.node = e.node
               /\ \A i \in 1..Len(stack') : stack'[i] = f
  <2>1. Activation(e.parent, e.node).node = e.node
    BY DEF Activation
  <2>2. stack'[1] = Activation(e.parent, e.node) /\ Len(stack') = 1
    BY <1>3 DEF Starts
  <2>3. \A i \in 1..1 : i = 1
    OBVIOUS
  <2> QED
    BY <2>1, <2>2, <2>3, Zenon
<1>6. \A j \in 1..Len(Pending') : /\ Pending'[j] = Pending[j + 1]
                                  /\ j + 1 \in 1..l /\ 1 \in 1..l /\ j + 1 # 1
  <2>1. \A j \in 1..(l - 1) : j + 1 \in 1..l /\ 1 \in 1..l /\ j + 1 # 1
    BY <1>4
  <2> QED
    BY <1>3, <1>4, <2>1, Zenon
<1>7. PendingOnce'
  <2> SUFFICES ASSUME NEW i \in 1..Len(Pending'), NEW j \in 1..Len(Pending'),
                      Pending'[i].node = Pending'[j].node, Pending'[i].node \in Range(text.top)
               PROVE  i = j
    BY <1>1, Zenon DEF PendingOnce
  <2>1. i + 1 = j + 1
    BY <1>4, <1>6, Zenon DEF Once, PendingOnce
  <2>2. i \in 1..(l - 1) /\ j \in 1..(l - 1)
    BY <1>3, <1>4, Zenon
  <2> QED
    BY <2>1, <2>2
<1>8. PendingOnly'
  <2> SUFFICES ASSUME NEW j \in 1..Len(Pending'), NEW n \in Range(text.top), n = Pending'[j].node
               PROVE  ~Made(n)' /\ ~InProgress(n)'
    BY <1>1, Zenon DEF PendingOnly
  <2>1. n = Pending[j + 1].node /\ j + 1 \in 1..Len(Pending)
    BY <1>4, <1>6, Zenon
  <2>2. ~Made(n)
    BY <2>1, Zenon DEF Once, PendingOnly
  <2>3. n # e.node
    BY <1>3, <1>4, <1>6, <2>1, Zenon DEF Once, PendingOnce
  <2> QED
    BY <1>1, <1>5, <2>2, <2>3, MadeSame, Zenon DEF InProgress
<1>9. UnfinishedUnmade'
  <2>1. e.node \in Range(text.top) => ~Made(e.node)
    <3>1. 1 \in 1..Len(Pending)
      BY <1>4
    <3> QED
      BY <1>3, <3>1, Zenon DEF Once, PendingOnly
  <2>2. \A n : Made(n)' = Made(n)
    BY <1>1, MadeSame, Zenon
  <2>3. ASSUME NEW i \in 1..Len(stack'), stack'[i].node \in Range(text.top)
        PROVE  ~Made(stack[i].node)'
    <3>1. PICK n : n = stack'[i].node /\ n = e.node
      BY <1>5, Zenon
    <3>2. ~Made(n)'
      BY <2>1, <2>2, <2>3, <3>1, Zenon
    <3> QED
      BY <3>1, <3>2, Zenon DEF Made
  <2> QED
    BY <1>1, <2>3, Zenon DEF UnfinishedUnmade
<1> QED
  BY <1>7, <1>8, <1>9, Zenon DEF Once

LEMMA PostponeOnce ==
  ASSUME Shape, Shape', Once, Postpone
  PROVE  Once'
<1>1. /\ stack # <<>> /\ frame.at = "attrs" /\ text' = text /\ dies' = dies
      /\ frame.next \in DOMAIN attrs
  BY DEF Postpone, Running
<1>2. Static /\ CallsSound
  BY Zenon DEF Shape
<1>3. PICK f \in Frame : /\ f = stack[top] /\ f.at = "attrs" /\ f.next \in Nat \ {0}
                         /\ attrs = text.attrs[f.node] /\ Len(attrs) \in Nat
                         /\ f.next \in 1..Len(attrs)
  BY <1>1, RunningFacts, Zenon
<1>4. PICK g : Turns(g, "children")
  BY <1>2, PostponeDoes, Zenon
<1>5. /\ top \in Nat \ {0} /\ top = Len(stack) /\ Len(stack') = top /\ stack'[top] = g
      /\ Others(top - 1) /\ g.at # "nested" /\ g.at # "attrs"
  <2>1. g.at # "nested" /\ g.at # "attrs"
    BY <1>4 DEF Turns
  <2> QED
    BY <1>4, <2>1, Zenon DEF Turns, GoesOn, top
<1>6. PICK n \in Nat : /\ n = top - 1 /\ Others(n) /\ top \in 1..Len(stack)
                       /\ (\A i \in 1..top : i \in 1..n \/ i = top)
                       /\ (\A i \in 1..n : i \in 1..Len(stack) /\ i # top)
  <2>1. \A m \in Nat \ {0} : /\ m - 1 \in Nat /\ m \in 1..m
                             /\ \A i \in 1..m : i \in 1..(m - 1) \/ i = m
                             /\ \A i \in 1..(m - 1) : i \in 1..m /\ i # m
    OBVIOUS
  <2>2. /\ top - 1 \in Nat /\ top \in 1..top
        /\ \A i \in 1..top : i \in 1..(top - 1) \/ i = top
        /\ \A i \in 1..(top - 1) : i \in 1..top /\ i # top
    BY <1>5, <2>1, Zenon
  <2> QED
    BY <1>5, <2>2, Zenon
<1>7. PICK x : x = f.node /\ InProgress(x) /\ (x \in Range(text.top) => ~Made(x))
  <2>1. f.at \in {"nested", "attrs"}
    BY <1>3
  <2>2. Unfinished(f)
    <3>1. f.next <= Len(attrs)
      BY <1>3
    <3> QED
      BY <1>3, <3>1, Zenon DEF Unfinished
  <2> QED
    BY <1>3, <1>5, <1>6, <2>1, <2>2, Zenon DEF InProgress, Once, UnfinishedUnmade
<1>8. PICK l \in Nat : /\ l = Len(Pending) /\ l + 1 = Len(Pending')
                       /\ \A j \in 1..(l + 1) : j \in 1..l \/ j = l + 1
                       /\ \A j \in 1..l : Pending'[j] = Pending[j]
                       /\ Pending'[l + 1].node = x
  <2>1. Entry(stack[top].parent, stack[top].node).node = x
    BY <1>3, <1>7 DEF Entry
  <2>2. \A m \in Nat : \A j \in 1..(m + 1) : j \in 1..m \/ j = m + 1
    OBVIOUS
  <2> QED
    BY <2>1, <2>2, PostponePends, Zenon
<1>9. \A m : Made(m)' = Made(m)
  BY <1>1, MadeSame, Zenon
<1>10. ASSUME NEW m, InProgress(m)'
       PROVE  InProgress(m) /\ (m \in Range(text.top) => m # x)
  <2>1. PICK i \in 1..top : stack'[i].node = m /\ stack'[i].at \in {"nested", "attrs"}
    BY <1>5, <1>10, Zenon DEF InProgress
  <2>2. i \in 1..n
    <3>1. i # top
      BY <1>5, <2>1
    <3> QED
      BY <1>6, <2>1, <3>1, Zenon
  <2>3. stack[i].node = m /\ stack[i].at \in {"nested", "attrs"} /\ i \in 1..Len(stack) /\ i # top
    BY <1>6, <2>1, <2>2, Zenon DEF Others
  <2> QED
    BY <1>2, <1>3, <1>6, <1>7, <2>3, TopIsFirst, Zenon DEF InProgress
<1>11. \A j \in 1..l : Pending[j].node \in Range(text.top) => Pending[j].node # x
  BY <1>7, <1>8, Zenon DEF Once, PendingOnly
<1>12. PendingOnce'
  <2> SUFFICES ASSUME NEW i \in 1..(l + 1), NEW j \in 1..(l + 1),
                      Pending'[i].node = Pending'[j].node, Pending'[i].node \in Range(text.top)
               PROVE  i = j
    BY <1>1, <1>8, Zenon DEF PendingOnce
  <2>1. CASE i \in 1..l /\ j \in 1..l
    BY <1>8, <2>1, Zenon DEF Once, PendingOnce
  <2>2. CASE i = l + 1 /\ j \in 1..l
    BY <1>8, <1>11, <2>2, Zenon
  <2>3. CASE i \in 1..l /\ j = l + 1
    BY <1>8, <1>11, <2>3, Zenon
  <2> QED
    BY <1>8, <2>1, <2>2, <2>3, Zenon
<1>13. PendingOnly'
  <2> SUFFICES ASSUME NEW j \in 1..(l + 1), NEW m \in Range(text.top), m = Pending'[j].node
               PROVE  ~Made(m) /\ ~InProgress(m)'
    BY <1>1, <1>8, <1>9, Zenon DEF PendingOnly
  <2>1. CASE j \in 1..l
    BY <1>8, <1>10, <2>1, Zenon DEF Once, PendingOnly
  <2>2. CASE j = l + 1
    BY <1>7, <1>8, <1>10, <2>2, Zenon
  <2> QED
    BY <1>8, <2>1, <2>2, Zenon
<1>14. UnfinishedUnmade'
  <2> SUFFICES ASSUME NEW i \in 1..top, NEW h, h = stack'[i], h.node \in Range(text.top),
                      Unfinished(h)
               PROVE  ~Made(h.node)
    <3>1. \A h : Unfinished(h)' = Unfinished(h)
      BY <1>1, Zenon DEF Unfinished
    <3>2. \A i \in 1..Len(stack') : ~Unfinished(stack'[i]) \/ stack'[i].node \notin Range(text.top)
                                    \/ ~Made(stack[i].node)'
      <4> SUFFICES ASSUME NEW i \in 1..Len(stack'), Unfinished(stack'[i]),
                          stack'[i].node \in Range(text.top)
                   PROVE  ~Made(stack[i].node)'
        BY Zenon
      <4>1. PICK m : m = stack'[i].node
        OBVIOUS
      <4>2. ~Made(m)'
        BY <1>5, <1>9, <4>1, Zenon
      <4> QED
        BY <4>1, <4>2, Zenon DEF Made
    <3>3. \A i : Unfinished(stack[i])' => Unfinished(stack'[i])
      BY <1>1, Zenon DEF Unfinished
    <3> QED
      BY <1>1, <3>2, <3>3, Zenon DEF UnfinishedUnmade
  <2>1. i \in 1..n
    <3>1. i # top
      BY <1>5, Zenon DEF Unfinished
    <3> QED
      BY <1>6, <3>1, Zenon
  <2> QED
    BY <1>6, <2>1, Zenon DEF Others, Once, UnfinishedUnmade
<1> QED
  BY <1>12, <1>13, <1>14, Zenon DEF Once

LEMMA ReturnOnce ==
  ASSUME Shape, Shape', Once, Return
  PROVE  Once'
<1>1. /\ stack # <<>> /\ text' = text /\ dies' = dies /\ Pending' = Pending
  BY DEF Return, Running, Pending
<1>2. Static /\ CallsSound
  BY Zenon DEF Shape
<1>3. /\ top \in Nat \ {0} /\ top = Len(stack)
      /\ Len(stack') = top - 1 /\ Others(top - 2) /\ (top > 1 => \E g : Returns(g))
  BY <1>1, <1>2, ReturnDoes, RunningFacts, Zenon
<1>4. ASSUME NEW i \in 1..Len(stack')
      PROVE  /\ i \in 1..Len(stack) /\ stack'[i].node = stack[i].node
             /\ stack'[i].at = stack[i].at
             /\ stack'[i] = stack[i] \/ stack[i].at # "attrs"
  <2>1. i \in 1..top /\ top > 1 /\ (i \in 1..(top - 2) \/ i = top - 1) /\ top - 1 \in 1..(top - 1)
    BY <1>3
  <2>2. CASE i \in 1..(top - 2)
    BY <1>3, <2>1, <2>2, Zenon DEF Others
  <2>3. CASE i = top - 1
    <3>1. PICK g : Returns(g)
      BY <1>3, <2>1
    <3>2. stack'[i].node = stack[i].node /\ stack'[i].at = stack[i].at
      BY <2>3, <3>1, Zenon DEF Returns, Moves
    <3>3. Calls(stack[i], stack[top])
      BY <1>1, <1>2, <2>1, <2>3, ReturnDoes, Zenon
    <3>4. stack[i].at = "nested" \/ stack[i].at = "children"
      BY <3>3, Zenon DEF Calls
    <3> QED
      BY <1>3, <2>1, <3>2, <3>4
  <2> QED
    BY <2>1, <2>2, <2>3
<1>5. NoNewProgress
  BY <1>4, Zenon DEF NoNewProgress, InProgress
<1>6. MadeFromProgress
  BY <1>1, MadeSame, Zenon DEF MadeFromProgress
<1>7. UnfinishedUnmade'
  <2> SUFFICES ASSUME NEW i \in 1..Len(stack'), stack'[i].node \in Range(text.top),
                      Unfinished(stack'[i])
               PROVE  ~Made(stack[i].node)'
    <3>1. \A j : Unfinished(stack[j])' => Unfinished(stack'[j])
      BY <1>1, Zenon DEF Unfinished
    <3> QED
      BY <1>1, <3>1, Zenon DEF UnfinishedUnmade
  <2>1. Unfinished(stack[i])
    <3>1. CASE stack'[i] = stack[i]
      BY <3>1, Zenon
    <3>2. CASE stack[i].at # "attrs"
      BY <1>4, <3>2, Zenon DEF Unfinished
    <3> QED
      BY <1>4, <3>1, <3>2, Zenon
  <2>2. PICK m : m = stack'[i].node
    OBVIOUS
  <2>3. ~Made(m)'
    BY <1>1, <1>4, <2>1, <2>2, MadeSame, Zenon DEF Once, UnfinishedUnmade
  <2> QED
    BY <2>2, <2>3, Zenon DEF Made
<1> QED
  BY <1>1, <1>5, <1>6, <1>7, OnceIf, Zenon

LEMMA ChooseParentOnce ==
  ASSUME Shape, Shape', ChooseParent
  PROVE  Once'
<1>1. /\ stack' = <<>> /\ postpone' = <<>> /\ text' = text /\ todo' \in Seq(Tree)
      /\ Len(todo') = Len(text.top)
      /\ \A j \in 1..Len(text.top) : todo'[j].node = text.top[j]
      /\ \/ dies' = <<>>
         \/ dies' = <<[node |-> NoNode, parent |-> 0, refs |-> <<>>]>>
  BY ChooseParentDoes, Zenon
<1>2. PICK t \in Seq(Node) : t = text.top /\ \A i, j \in 1..Len(t) : t[i] = t[j] => i = j
  <2>1. PICK t \in Seq(Node) : t = text.top
    BY StaticFacts, TextFacts, Zenon DEF Shape
  <2>2. IsInjective(t)
    BY <2>1, Zenon DEF Shape, Static, Text
  <2>3. DOMAIN t = 1..Len(t)
    OBVIOUS
  <2>4. \A i, j \in 1..Len(t) : t[i] = t[j] => i = j
    BY <2>2, <2>3, Zenon DEF IsInjective
  <2> QED
    BY <2>1, <2>4
<1>3. Pending' = todo'
  <2>1. PICK u \in Seq(Tree) : u = todo'
    BY <1>1
  <2>2. u \o <<>> = u
    OBVIOUS
  <2> QED
    BY <1>1, <2>1, <2>2, Zenon DEF Pending
<1>4. PendingOnce'
  <2> SUFFICES ASSUME NEW i \in 1..Len(todo'), NEW j \in 1..Len(todo'),
                      todo'[i].node = todo'[j].node
               PROVE  i = j
    BY <1>3, Zenon DEF PendingOnce
  <2>1. i \in 1..Len(t) /\ j \in 1..Len(t) /\ t[i] = t[j]
    BY <1>1, <1>2, Zenon
  <2> QED
    BY <1>2, <2>1, Zenon
<1>5. 1..Len(stack') = {}
  BY <1>1
<1>6. \A n \in Node : ~Made(n)'
  <2>1. \A i \in DOMAIN dies' : dies'[i].node = NoNode
    BY <1>1
  <2> QED
    BY <2>1, NoNodeAssumption, Zenon DEF Made
<1>7. PendingOnly'
  <2> SUFFICES ASSUME NEW j \in 1..Len(Pending'), NEW n, n = Pending'[j].node
               PROVE  ~Made(n)' /\ ~InProgress(n)'
    BY Zenon DEF PendingOnly
  <2>1. n \in Node
    <3>1. n = t[j] /\ j \in 1..Len(t)
      BY <1>1, <1>2, <1>3, Zenon
    <3> QED
      BY <3>1, ElementOfSeq, Zenon
  <2> QED
    BY <1>5, <1>6, <2>1, Zenon DEF InProgress
<1>8. UnfinishedUnmade'
  BY <1>5, Zenon DEF UnfinishedUnmade
<1> QED
  BY <1>4, <1>7, <1>8, Zenon DEF Once

LEMMA SameOnce ==
  ASSUME Once, text' = text, dies' = dies, stack' = stack, Pending' = Pending
  PROVE  Once'
<1>1. MadeFromProgress /\ NoNewProgress
  BY MadeSame, Zenon DEF MadeFromProgress, NoNewProgress, InProgress
<1>2. UnfinishedUnmade'
  BY Zenon DEF Once, UnfinishedUnmade, Unfinished, Made, Complete
<1> QED
  BY <1>1, <1>2, OnceIf, Zenon

LEMMA OnceStep ==
  ASSUME Shape, Shape', Once, [Next]_vars
  PROVE  Once'
<1>1. CASE ParentIsGone \/ ReferToEnd \/ ChildOfEnd
  <2>1. Undefined
    BY <1>1, Zenon DEF ParentIsGone, ReferToEnd, ChildOfEnd
  <2>2. text' = text /\ dies' = dies /\ stack' = stack /\ Pending' = Pending
    BY <2>1 DEF Undefined, Pending
  <2> QED
    BY <2>2, SameOnce, Zenon
<1>2. CASE UNCHANGED vars
  <2>1. text' = text /\ dies' = dies /\ stack' = stack /\ Pending' = Pending
    BY <1>2 DEF vars, Pending
  <2> QED
    BY <2>1, SameOnce, Zenon
<1>3. CASE Finish
  <2>1. text' = text /\ dies' = dies /\ stack' = stack /\ Pending' = Pending
    BY <1>3 DEF Finish, Pending
  <2> QED
    BY <2>1, SameOnce, Zenon
<1>4. CASE PostponedPass
  <2>1. text' = text /\ dies' = dies /\ stack' = stack
    BY <1>4 DEF PostponedPass
  <2>2. Pending' = Pending
    BY <1>4, PassPends DEF Shape
  <2> QED
    BY <2>1, <2>2, SameOnce, Zenon
<1> QED
  BY <1>1, <1>2, <1>3, <1>4, ChooseParentOnce, CreateNextOnce, CreateNestedOnce, NotNestedOnce,
     MakeNewOnce, SetAttributeOnce, PostponeOnce, AllAttributesOnce, CreateChildOnce, ReturnOnce,
     Zenon DEF Next

LEMMA OnceAtFirst ==
  ASSUME Init
  PROVE  Once
<1>1. 1..Len(stack) = {} /\ 1..Len(Pending) = {}
  BY DEF Init, Pending
<1> QED
  BY <1>1, Zenon DEF Once, PendingOnce, PendingOnly, UnfinishedUnmade
-----------------------------------------------------------------------------
(* The names of the top.  What a step does to the first activation.         *)
FirstMoves == stack' # <<>> => stack # <<>> /\ Moves(stack[1], stack'[1])
NestedStays == stack # <<>> /\ stack[1].at = "nested" => stack' # <<>> /\ stack'[1].at = "nested"

LEMMA GoesOnFirst ==
  ASSUME NEW g, GoesOn(g), stack \in Seq(Frame)
  PROVE  /\ stack # <<>> /\ stack' # <<>> /\ FirstMoves
         /\ stack'[1] = stack[1] \/ (top = 1 /\ stack'[1] = g)
<1>1. /\ top \in Nat \ {0} /\ top = Len(stack) /\ Len(stack') = top /\ stack'[top] = g
      /\ stack' \in Seq(Frame) /\ Others(top - 1) /\ Moves(stack[top], g)
  BY Zenon DEF GoesOn, top
<1>2. stack # <<>> /\ stack' # <<>>
  BY <1>1
<1>3. CASE top = 1
  BY <1>1, <1>2, <1>3, Zenon DEF FirstMoves
<1>4. CASE top # 1
  <2>1. 1 \in 1..(top - 1)
    BY <1>1, <1>4
  <2>2. stack'[1] = stack[1]
    BY <1>1, <2>1, Zenon DEF Others
  <2> QED
    BY <1>2, <2>2, Zenon DEF FirstMoves, Moves
<1> QED
  BY <1>3, <1>4

LEMMA StartsFirst ==
  ASSUME Static, stack # <<>>, NEW p, NEW n, Starts(p, n)
  PROVE  stack' # <<>> /\ FirstMoves /\ NestedStays
<1>1. top \in Nat \ {0} /\ Len(stack') = top + 1 /\ stack' \in Seq(Frame) /\ Others(top)
  BY Runs, Zenon DEF Starts
<1>2. 1 \in 1..top /\ stack' # <<>>
  BY <1>1
<1>3. stack'[1] = stack[1]
  BY <1>1, <1>2, Zenon DEF Others
<1> QED
  BY <1>2, <1>3, Zenon DEF FirstMoves, NestedStays, Moves

LEMMA ReturnFirst ==
  ASSUME Shape, Return
  PROVE  FirstMoves /\ NestedStays
<1>1. Static /\ CallsSound /\ stack # <<>> /\ frame.at = "children"
  BY Zenon DEF Shape, Return, Running
<1>2. /\ top \in Nat \ {0} /\ stack' \in Seq(Frame) /\ Len(stack') = top - 1
      /\ Others(top - 2) /\ (top > 1 => \E g : Returns(g)) /\ stack[top].at = "children"
  BY <1>1, ReturnDoes, RunningFacts, Zenon
<1>3. CASE top = 1
  <2>1. stack' = <<>> /\ stack[1].at # "nested"
    BY <1>2, <1>3
  <2> QED
    BY <2>1, Zenon DEF FirstMoves, NestedStays
<1>4. CASE top = 2
  <2>1. top - 1 = 1 /\ top > 1 /\ stack' # <<>>
    BY <1>2, <1>4
  <2>2. PICK g : Returns(g)
    BY <1>2, <2>1
  <2>3. /\ stack'[top - 1] = g /\ Moves(stack[top - 1], g) /\ g.at = stack[top - 1].at
    BY <2>2, Zenon DEF Returns
  <2> QED
    BY <1>1, <2>1, <2>3, Zenon DEF FirstMoves, NestedStays
<1>5. CASE top # 1 /\ top # 2
  <2>1. 1 \in 1..(top - 2) /\ stack' # <<>>
    BY <1>2, <1>5
  <2>2. stack'[1] = stack[1]
    BY <1>2, <2>1, Zenon DEF Others
  <2> QED
    BY <1>1, <2>1, <2>2, Zenon DEF FirstMoves, NestedStays, Moves
<1> QED
  BY <1>3, <1>4, <1>5

LEMMA FirstPassIf ==
  ASSUME FirstPass, UNCHANGED <<real_parent, todo, postponed_pass_n>>, FirstMoves
  PROVE  FirstPass'
<1>1. real_parent' = real_parent /\ todo' = todo /\ postponed_pass_n' = postponed_pass_n
  OBVIOUS
<1> QED
  BY <1>1, Zenon DEF FirstPass, FirstMoves, Moves

LEMMA NamedKept ==
  ASSUME Static, Grows, NEW n, Named(n)
  PROVE  Named(n)'
<1>1. PICK i \in 1..Len(dies) : dies[i].node = n /\ dies[i].parent = real_parent
  BY Zenon DEF Named
<1>2. i \in 1..Len(dies')
  BY FoundKept
<1> QED
  BY <1>1, <1>2, Zenon DEF Named, Grows

NamedIfLost == \/ NestedStays
               \/ \A n : n = stack[1].node => (postponed_pass_n = 0 => Named(n)')

LEMMA TopNamedIf ==
  ASSUME Static, TopNamed, Grows, status # "called", UNCHANGED <<todo, postponed_pass_n>>,
         FirstMoves, NamedIfLost
  PROVE  TopNamed'
<1>1. todo' = todo /\ postponed_pass_n' = postponed_pass_n /\ text' = text
  BY DEF Grows
<1>2. ASSUME NEW n \in Range(text.top)
      PROVE  Named(n)' \/ ToBeNamed(n)'
  <2>1. Named(n) \/ ToBeNamed(n)
    BY Zenon DEF TopNamed
  <2>2. CASE Named(n)
    BY <2>2, NamedKept, Zenon
  <2>3. CASE ToBeNamed(n)
    <3>1. postponed_pass_n = 0
      BY <2>3, Zenon DEF ToBeNamed
    <3>2. CASE \E j \in 1..Len(todo) : todo[j].node = n
      BY <1>1, <3>1, <3>2, Zenon DEF ToBeNamed
    <3>3. CASE stack # <<>> /\ stack[1].node = n /\ stack[1].at = "nested"
      <4>1. CASE NestedStays
        <5>1. stack' # <<>> /\ stack'[1].at = "nested" /\ stack'[1].node = n
          BY <3>3, <4>1, Zenon DEF NestedStays, FirstMoves, Moves
        <5> QED
          BY <1>1, <3>1, <5>1, Zenon DEF ToBeNamed
      <4>2. CASE ~NestedStays
        BY <3>1, <3>3, <4>2, Zenon DEF NamedIfLost
      <4> QED
        BY <4>1, <4>2
    <3> QED
      BY <2>3, <3>2, <3>3, Zenon DEF ToBeNamed
  <2> QED
    BY <2>1, <2>2, <2>3
<1> QED
  BY <1>1, <1>2, Zenon DEF TopNamed

LEMMA NotAtTopSame ==
  ASSUME text' = text
  PROVE  \A n : NotAtTop(n)' = NotAtTop(n)
BY Zenon DEF NotAtTop

LEMMA PostponedIf ==
  ASSUME PostponedNotAtTop, text' = text, UNCHANGED <<postpone, postponed_pass_n>>
  PROVE  PostponedNotAtTop'
<1>1. postpone' = postpone /\ postponed_pass_n' = postponed_pass_n
  OBVIOUS
<1> QED
  BY <1>1, NotAtTopSame, Zenon DEF PostponedNotAtTop, NotAtTop

LEMMA NamesIf ==
  ASSUME Static, NamesInv, Grows, status # "called",
         UNCHANGED <<todo, postpone, postponed_pass_n>>, FirstMoves, NamedIfLost
  PROVE  NamesInv'
<1>1. /\ FirstPass /\ TopNamed /\ PostponedNotAtTop
      /\ text' = text /\ UNCHANGED <<postpone, postponed_pass_n>>
      /\ UNCHANGED <<todo, postponed_pass_n>>
      /\ UNCHANGED <<real_parent, todo, postponed_pass_n>>
  BY DEF NamesInv, Grows
<1> QED
  BY <1>1, FirstPassIf, TopNamedIf, PostponedIf, Zenon DEF NamesInv

StaysNested(g) == stack[top].at = "nested" => g.at = "nested"

LEMMA GoesOnNames ==
  ASSUME Static, NamesInv, Grows, status # "called",
         UNCHANGED <<todo, postpone, postponed_pass_n>>, NEW g, GoesOn(g), StaysNested(g)
  PROVE  NamesInv'
<1>1. stack \in Seq(Frame)
  BY Zenon DEF Static
<1>2. /\ stack' # <<>> /\ FirstMoves
      /\ stack'[1] = stack[1] \/ (top = 1 /\ stack'[1] = g)
  BY <1>1, GoesOnFirst, Zenon
<1>3. NestedStays
  <2>1. CASE stack'[1] = stack[1]
    BY <1>2, <2>1, Zenon DEF NestedStays
  <2>2. CASE top = 1 /\ stack'[1] = g
    BY <1>2, <2>2, Zenon DEF NestedStays, StaysNested
  <2> QED
    BY <1>2, <2>1, <2>2, Zenon
<1> QED
  BY <1>2, <1>3, NamesIf, Zenon DEF NamedIfLost

LEMMA NotNestedNames ==
  ASSUME Shape, NamesInv, NotNested
  PROVE  NamesInv'
<1>1. /\ status # "called" /\ UNCHANGED <<todo, postpone, postponed_pass_n>>
      /\ UNCHANGED <<text, real_parent, dies>>
  BY DEF NotNested, Running
<1>2. Static
  BY Zenon DEF Shape
<1>3. PICK g : Next1(g)
  BY <1>2, NotNestedDoes, Zenon
<1>4. GoesOn(g) /\ StaysNested(g)
  BY <1>3, Zenon DEF Next1, StaysNested
<1> QED
  BY <1>1, <1>2, <1>4, SameGrows, GoesOnNames, Zenon

LEMMA SetAttributeNames ==
  ASSUME Shape, NamesInv, SetAttribute
  PROVE  NamesInv'
<1>1. status # "called" /\ UNCHANGED <<todo, postpone, postponed_pass_n>>
  BY DEF SetAttribute, Running
<1>2. Static /\ Grows
  BY SetAttributeShape, Zenon DEF Shape
<1>3. PICK g : Next1(g)
  BY <1>2, SetAttributeDoes, Zenon
<1>4. GoesOn(g) /\ StaysNested(g)
  BY <1>3, Zenon DEF Next1, StaysNested
<1> QED
  BY <1>1, <1>2, <1>4, GoesOnNames, Zenon

LEMMA AllAttributesNames ==
  ASSUME Shape, NamesInv, AllAttributes
  PROVE  NamesInv'
<1>1. /\ status # "called" /\ UNCHANGED <<todo, postpone, postponed_pass_n>>
      /\ UNCHANGED <<text, real_parent, dies>> /\ stack # <<>> /\ frame.at = "attrs"
  BY DEF AllAttributes, Running
<1>2. Static
  BY Zenon DEF Shape
<1>3. PICK g : Turns(g, "children")
  BY <1>2, AllAttributesDoes, Zenon
<1>4. stack[top].at # "nested"
  BY <1>1, RunningFacts
<1>5. GoesOn(g) /\ StaysNested(g)
  BY <1>3, <1>4, Zenon DEF Turns, StaysNested
<1> QED
  BY <1>1, <1>2, <1>5, SameGrows, GoesOnNames, Zenon

(* The DIE that is made has its name, and in the first pass its parent is   *)
(* the one above all.                                                       *)
LEMMA MakeNewNames ==
  ASSUME Shape, NamesInv, MakeNew
  PROVE  NamesInv'
<1>1. status # "called" /\ UNCHANGED <<todo, postpone, postponed_pass_n>>
  BY DEF MakeNew, Running
<1>2. Static /\ Grows
  BY MakeNewShape, Zenon DEF Shape
<1>3. PICK g : Turns(g, "attrs")
  BY <1>2, MakeNewDoes, Zenon
<1>4. GoesOn(g) /\ stack \in Seq(Frame) /\ Len(dies) \in Nat
  BY <1>2, <1>3, StaticFacts, Zenon DEF Turns
<1>5. /\ stack # <<>> /\ stack' # <<>> /\ FirstMoves
      /\ stack'[1] = stack[1] \/ (top = 1 /\ stack'[1] = g)
  BY <1>4, GoesOnFirst, Zenon
<1>6. CASE stack'[1] = stack[1]
  <2>1. NestedStays
    BY <1>5, <1>6, Zenon DEF NestedStays
  <2> QED
    BY <1>1, <1>2, <1>5, <2>1, NamesIf, Zenon DEF NamedIfLost
<1>7. CASE top = 1
  <2>1. \E i \in 1..Len(dies') : /\ dies'[i].node = stack[1].node
                                 /\ dies'[i].parent = stack[1].parent
    <3>1. PICK d : d = [node |-> stack[top].node, parent |-> stack[top].parent, refs |-> <<>>]
      OBVIOUS
    <3>2. d.node = stack[top].node /\ d.parent = stack[top].parent
      BY <3>1
    <3>3. /\ dies'[Len(dies) + 1] = d /\ Len(dies') = Len(dies) + 1
      BY <1>2, <3>1, MakeNewDoes, Zenon
    <3>4. PICK i \in 1..Len(dies') : i = Len(dies) + 1
      BY <1>4, <3>3
    <3> QED
      BY <1>7, <3>2, <3>3, <3>4, Zenon
  <2>2. postponed_pass_n = 0 => stack[1].parent = real_parent
    BY <1>5, Zenon DEF NamesInv, FirstPass
  <2>3. real_parent' = real_parent
    BY <1>2, Zenon DEF Grows
  <2>4. \A n : n = stack[1].node => (postponed_pass_n = 0 => Named(n)')
    BY <2>1, <2>2, <2>3, Zenon DEF Named
  <2> QED
    BY <1>1, <1>2, <1>5, <2>4, NamesIf, Zenon DEF NamedIfLost
<1> QED
  BY <1>5, <1>6, <1>7, Zenon

LEMMA CallNames ==
  ASSUME Shape, NamesInv, CreateNested \/ CreateChild \/ Return
  PROVE  NamesInv'
<1>1. /\ status # "called" /\ UNCHANGED <<todo, postpone, postponed_pass_n>>
      /\ UNCHANGED <<text, real_parent, dies>> /\ stack # <<>>
  BY DEF CreateNested, CreateChild, Return, Running
<1>2. Static /\ Grows
  BY <1>1, SameGrows, Zenon DEF Shape
<1>3. FirstMoves /\ NestedStays
  <2>1. CASE CreateNested
    BY <1>1, <1>2, <2>1, CreateNestedDoes, StartsFirst, Zenon
  <2>2. CASE CreateChild
    <3>1. frame.created # END
      BY <2>2 DEF CreateChild
    <3>2. stack[top].created \in 1..Len(dies)
      BY <1>1, <3>1, RunningFacts, Zenon DEF FrameSound, Found
    <3>3. stack[top].created \in Nat
      BY <3>2
    <3> QED
      BY <1>1, <1>2, <2>2, <3>3, CreateChildDoes, StartsFirst, Zenon
  <2>3. CASE Return
    BY <2>3, ReturnFirst, Zenon
  <2> QED
    BY <2>1, <2>2, <2>3, Zenon
<1> QED
  BY <1>1, <1>2, <1>3, NamesIf, Zenon DEF NamedIfLost

LEMMA SameNames ==
  ASSUME NamesInv, UNCHANGED <<text, real_parent, dies, stack, todo, postpone, postponed_pass_n>>,
         status' # "called" => status # "called"
  PROVE  NamesInv'
<1>1. /\ text' = text /\ real_parent' = real_parent /\ dies' = dies /\ stack' = stack
      /\ todo' = todo /\ postpone' = postpone /\ postponed_pass_n' = postponed_pass_n
  OBVIOUS
<1>2. FirstPass'
  BY <1>1, Zenon DEF NamesInv, FirstPass
<1>3. TopNamed'
  BY <1>1, Zenon DEF NamesInv, TopNamed, Named, ToBeNamed
<1>4. PostponedNotAtTop'
  BY <1>1, NotAtTopSame, Zenon DEF NamesInv, PostponedNotAtTop, NotAtTop
<1> QED
  BY <1>2, <1>3, <1>4, Zenon DEF NamesInv

(* What a later pass still does not find is no name of the top.             *)
LEMMA NotFoundNotAtTop ==
  ASSUME Shape, NamesInv, Postpone, postponed_pass_n > 0
  PROVE  NotAtTop(stack[top].node)
<1>1. /\ stack # <<>> /\ frame.at = "attrs" /\ status = "creating"
      /\ frame.next \in DOMAIN attrs /\ value.kind = "ident" /\ make_attribute_value = END
  BY Zenon DEF Postpone, Running
<1>2. Static /\ DiesSound /\ "ident" # "die"
  BY Zenon DEF Shape
<1>3. PICK f \in Frame : /\ f = stack[top] /\ f = frame /\ FrameSound(f) /\ f.at = "attrs"
                         /\ attrs = text.attrs[f.node] /\ f.parent \in Nat
  BY <1>1, RunningFacts, Zenon
<1>4. /\ f.created # END /\ f.created \in Found /\ dies[f.created].parent = f.parent
      /\ real_parent <= f.parent
  BY <1>3, Zenon DEF FrameSound
<1>5. PICK c \in 1..Len(dies) : c = f.created
  BY <1>4, Zenon DEF Found
<1>6. c \in 0..Len(dies) /\ real_parent <= c
  <2>1. dies[c].parent < c
    BY <1>2, Zenon DEF DiesSound, DieSound
  <2>2. f.parent < c /\ Len(dies) \in Nat /\ real_parent \in {0, 1}
    BY <1>2, <1>4, <1>5, <2>1, StaticFacts, Zenon
  <2> QED
    BY <1>3, <1>4, <2>2
<1>7. scoped_resolve(c, value.to) = END
  BY <1>1, <1>2, <1>3, <1>5, Zenon DEF make_attribute_value
<1>8. \A i \in Called(value.to) : dies[i].parent # real_parent
  BY <1>2, <1>6, <1>7, Resolves, Zenon
<1>9. DOMAIN dies = 1..Len(dies)
  BY <1>2, DomainDies, Zenon
<1>10. ASSUME NEW m \in Range(text.top)
       PROVE  text.name[m] # value.to
  <2>1. postponed_pass_n # 0 /\ status # "called"
    BY <1>1, <1>2, StaticFacts
  <2>2. PICK i \in 1..Len(dies) : dies[i].node = m /\ dies[i].parent = real_parent
    BY <2>1, Zenon DEF NamesInv, TopNamed, ToBeNamed, Named
  <2>3. m # NoNode
    <3>1. text.top \in Seq(Node)
      BY <1>2, TextFacts, StaticFacts, Zenon
    <3>2. PICK t \in Seq(Node) : t = text.top
      BY <3>1, Zenon
    <3>3. m \in Node
      BY <3>2, RangeEquality, SMT
    <3> QED
      BY <3>3, NoNodeAssumption, Zenon DEF NoNodeAssumption
  <2> QED
    BY <1>8, <1>9, <2>2, <2>3, Zenon DEF Called
<1>11. value \in Range(attrs)
  <2>1. value = attrs[frame.next]
    BY Zenon DEF value
  <2> QED
    BY <1>1, <2>1, Zenon DEF Range
<1>12. value \in Range(text.attrs[stack[top].node])
  BY <1>3, <1>11, Zenon
<1> QED
  BY <1>1, <1>10, <1>12, Zenon DEF NotAtTop

LEMMA PostponeNames ==
  ASSUME Shape, NamesInv, Postpone
  PROVE  NamesInv'
<1>1. /\ status # "called" /\ UNCHANGED <<todo, postponed_pass_n>>
      /\ UNCHANGED <<real_parent, todo, postponed_pass_n>>
      /\ UNCHANGED <<text, real_parent, dies>> /\ stack # <<>> /\ frame.at = "attrs"
      /\ text' = text /\ postponed_pass_n' = postponed_pass_n
  BY DEF Postpone, Running
<1>2. Static /\ Grows /\ stack \in Seq(Frame) /\ Len(postpone) \in Nat
  <2>1. Static
    BY Zenon DEF Shape
  <2>2. stack \in Seq(Frame) /\ postpone \in Seq(Tree)
    BY <2>1, Zenon DEF Static
  <2>3. Len(postpone) \in Nat
    BY <2>2
  <2> QED
    BY <1>1, <2>1, <2>2, <2>3, SameGrows, Zenon
<1>3. PICK g : Turns(g, "children")
  BY <1>2, PostponeDoes, Zenon
<1>4. stack[top].at = "attrs" /\ "attrs" # "nested"
  BY <1>1, RunningFacts
<1>5. FirstMoves /\ NestedStays
  <2>1. GoesOn(g)
    BY <1>3, Zenon DEF Turns
  <2>2. /\ stack' # <<>> /\ FirstMoves
        /\ stack'[1] = stack[1] \/ (top = 1 /\ stack'[1] = g)
    BY <1>2, <2>1, GoesOnFirst, Zenon
  <2> QED
    BY <1>4, <2>2, Zenon DEF NestedStays
<1>6. FirstPass' /\ TopNamed'
  BY <1>1, <1>2, <1>5, FirstPassIf, TopNamedIf, Zenon DEF NamesInv, NamedIfLost
<1>7. PostponedNotAtTop'
  <2>1. PICK e : e = Entry(stack[top].parent, stack[top].node)
    OBVIOUS
  <2>2. e.node = stack[top].node
    BY <2>1 DEF Entry
  <2>3. /\ Len(postpone') = Len(postpone) + 1 /\ postpone'[Len(postpone) + 1] = e
        /\ \A j \in 1..Len(postpone) : postpone'[j] = postpone[j]
    BY <2>1, PostponePends, Zenon
  <2>4. ASSUME postponed_pass_n > 0, NEW j \in 1..Len(postpone')
        PROVE  NotAtTop(postpone'[j].node)
    <3>1. j \in 1..Len(postpone) \/ j = Len(postpone) + 1
      BY <1>2, <2>3
    <3>2. CASE j = Len(postpone) + 1
      BY <2>2, <2>3, <2>4, <3>2, NotFoundNotAtTop, Zenon
    <3>3. CASE j \in 1..Len(postpone)
      BY <2>3, <2>4, <3>3, Zenon DEF NamesInv, PostponedNotAtTop
    <3> QED
      BY <3>1, <3>2, <3>3, Zenon
  <2> QED
    BY <1>1, <2>4, NotAtTopSame, Zenon DEF PostponedNotAtTop, NotAtTop
<1> QED
  BY <1>6, <1>7, Zenon DEF NamesInv

LEMMA CreateNextNames ==
  ASSUME Shape, NamesInv, CreateNext
  PROVE  NamesInv'
<1>1. /\ status # "called" /\ text' = text /\ dies' = dies /\ real_parent' = real_parent
      /\ postponed_pass_n' = postponed_pass_n /\ UNCHANGED <<postpone, postponed_pass_n>>
      /\ stack = <<>>
  BY DEF CreateNext
<1>2. Static
  BY Zenon DEF Shape
<1>3. PICK e : e = Head(todo)
  OBVIOUS
<1>4. /\ top = 0 /\ todo # <<>> /\ e \in Tree /\ Starts(e.parent, e.node)
      /\ e = todo[1] /\ Len(todo') = Len(todo) - 1 /\ todo' \in Seq(Tree)
      /\ \A j \in 1..Len(todo') : todo'[j] = todo[j + 1]
  BY <1>2, <1>3, CreateNextDoes, Zenon
<1>5. PICK g : /\ g.node = e.node /\ g.parent = e.parent /\ g.at = "nested"
               /\ stack'[1] = g
  <2>1. PICK g : g = Activation(e.parent, e.node)
    OBVIOUS
  <2>2. g.node = e.node /\ g.parent = e.parent /\ g.at = "nested"
    BY <2>1 DEF Activation
  <2>3. stack'[1] = g
    <3>1. top + 1 = 1
      BY <1>4
    <3>2. stack'[top + 1] = g
      BY <1>4, <2>1, Zenon DEF Starts
    <3> QED
      BY <3>1, <3>2, Zenon
  <2> QED
    BY <2>2, <2>3, Zenon
<1>6. stack' # <<>>
  <2>1. Len(stack') = 0 + 1
    BY <1>4, Zenon DEF Starts
  <2> QED
    BY <2>1
<1>7. /\ 1 \in 1..Len(todo) /\ \A j \in 1..Len(todo') : j + 1 \in 1..Len(todo)
      /\ \A j \in 1..Len(todo) : j = 1 \/ \E i \in 1..Len(todo') : i + 1 = j
  <2>1. todo \in Seq(Tree)
    BY <1>2, StaticFacts, Zenon
  <2>2. Len(todo) \in Nat /\ Len(todo) # 0
    BY <1>4, <2>1
  <2>3. 1 \in 1..Len(todo) /\ \A j \in 1..Len(todo') : j + 1 \in 1..Len(todo)
    BY <1>4, <2>2
  <2>4. ASSUME NEW j \in 1..Len(todo), j # 1
        PROVE  \E i \in 1..Len(todo') : i + 1 = j
    <3>1. j - 1 \in 1..Len(todo') /\ (j - 1) + 1 = j
      BY <1>4, <2>2, <2>4
    <3> QED
      BY <3>1, Zenon
  <2> QED
    BY <2>3, <2>4, Zenon
<1>8. FirstPass'
  <2>1. ASSUME postponed_pass_n = 0
        PROVE  /\ \A j \in 1..Len(todo') : todo'[j].parent = real_parent
               /\ stack'[1].parent = real_parent
    <3>1. \A j \in 1..Len(todo) : todo[j].parent = real_parent
      BY <2>1, Zenon DEF NamesInv, FirstPass
    <3> QED
      BY <1>4, <1>5, <1>7, <3>1, Zenon
  <2> QED
    BY <1>1, <2>1, Zenon DEF FirstPass
<1>9. TopNamed'
  <2>1. ASSUME NEW n \in Range(text.top)
        PROVE  Named(n)' \/ ToBeNamed(n)'
    <3>1. CASE Named(n)
      BY <1>1, <3>1, Zenon DEF Named
    <3>2. CASE ToBeNamed(n)
      <4>1. PICK j \in 1..Len(todo) : todo[j].node = n
        BY <1>1, <3>2, Zenon DEF ToBeNamed
      <4>2. CASE j = 1
        BY <1>1, <1>4, <1>5, <1>6, <3>2, <4>1, <4>2, Zenon DEF ToBeNamed
      <4>3. CASE j # 1
        <5>1. PICK i \in 1..Len(todo') : i + 1 = j
          BY <1>7, <4>3, Zenon
        <5>2. todo'[i].node = n
          BY <1>4, <4>1, <5>1, Zenon
        <5> QED
          BY <1>1, <3>2, <5>2, Zenon DEF ToBeNamed
      <4> QED
        BY <4>2, <4>3, Zenon
    <3>3. status # "called"
      BY <1>1
    <3> QED
      BY <3>1, <3>2, <3>3, Zenon DEF NamesInv, TopNamed
  <2> QED
    BY <1>1, <2>1, Zenon DEF TopNamed
<1>10. PostponedNotAtTop'
  BY <1>1, PostponedIf, Zenon DEF NamesInv
<1> QED
  BY <1>8, <1>9, <1>10, Zenon DEF NamesInv

LEMMA PostponedPassNames ==
  ASSUME Shape, NamesInv, PostponedPass
  PROVE  NamesInv'
<1>1. /\ status # "called" /\ text' = text /\ dies' = dies /\ real_parent' = real_parent
      /\ postponed_pass_n' = postponed_pass_n + 1 /\ stack = <<>> /\ todo = <<>>
      /\ postpone' = <<>>
  BY DEF PostponedPass, PassOver
<1>2. postponed_pass_n' # 0 /\ 1..Len(postpone') = {} /\ 1..Len(todo) = {}
  BY <1>1, StaticFacts DEF Shape
<1>3. FirstPass' /\ PostponedNotAtTop'
  BY <1>2, Zenon DEF FirstPass, PostponedNotAtTop
<1>4. TopNamed'
  BY <1>1, <1>2, Zenon DEF NamesInv, TopNamed, ToBeNamed, Named
<1> QED
  BY <1>3, <1>4, Zenon DEF NamesInv

LEMMA ChooseParentNames ==
  ASSUME Shape, ChooseParent
  PROVE  NamesInv'
<1>1. /\ stack' = <<>> /\ postponed_pass_n' = 0 /\ text' = text
      /\ Len(todo') = Len(text.top)
      /\ \A j \in 1..Len(text.top) : /\ todo'[j].parent = real_parent'
                                     /\ todo'[j].node = text.top[j]
  BY ChooseParentDoes, Zenon
<1>2. FirstPass' /\ PostponedNotAtTop'
  <2>1. ~(postponed_pass_n' > 0)
    BY <1>1
  <2> QED
    BY <1>1, <2>1, Zenon DEF FirstPass, PostponedNotAtTop
<1>3. ASSUME NEW n \in Range(text.top)
      PROVE  \E j \in 1..Len(text.top) : text.top[j] = n
  <2>1. PICK t \in Seq(Node) : t = text.top
    BY StaticFacts, TextFacts, Zenon DEF Shape
  <2>2. DOMAIN t = 1..Len(t)
    OBVIOUS
  <2> QED
    BY <1>3, <2>1, <2>2, Zenon DEF Range
<1>4. TopNamed'
  <2>1. ASSUME NEW n \in Range(text.top)
        PROVE  ToBeNamed(n)'
    <3>1. PICK j \in 1..Len(text.top) : text.top[j] = n
      BY <1>3, Zenon
    <3>2. j \in 1..Len(todo') /\ todo'[j].node = n
      BY <1>1, <3>1, Zenon
    <3> QED
      BY <1>1, <3>2, Zenon DEF ToBeNamed
  <2> QED
    BY <1>1, <2>1, Zenon DEF TopNamed
<1> QED
  BY <1>2, <1>4, Zenon DEF NamesInv

LEMMA NamesStep ==
  ASSUME Shape, NamesInv, [Next]_vars
  PROVE  NamesInv'
<1>1. CASE ParentIsGone \/ ReferToEnd \/ ChildOfEnd
  <2>1. Undefined /\ status = "creating"
    BY <1>1, Zenon DEF ParentIsGone, ReferToEnd, ChildOfEnd, Running
  <2>2. /\ UNCHANGED <<text, real_parent, dies, stack, todo, postpone, postponed_pass_n>>
        /\ status # "called"
    BY <2>1 DEF Undefined
  <2> QED
    BY <2>2, SameNames, Zenon
<1>2. CASE UNCHANGED vars
  <2>1. /\ UNCHANGED <<text, real_parent, dies, stack, todo, postpone, postponed_pass_n>>
        /\ status' = status
    BY <1>2 DEF vars
  <2> QED
    BY <2>1, SameNames, Zenon
<1>3. CASE Finish
  <2>1. /\ UNCHANGED <<text, real_parent, dies, stack, todo, postpone, postponed_pass_n,
                        old_size>>
        /\ status # "called"
    <3>1. "creating" # "called"
      OBVIOUS
    <3> QED
      BY <1>3, <3>1, Zenon DEF Finish, PassOver
  <2>2. UNCHANGED <<text, real_parent, dies, stack, todo, postpone, postponed_pass_n>>
    <3> HIDE <1>3
    <3> QED
      BY <2>1
  <2> QED
    BY <2>1, <2>2, SameNames, Zenon
<1> QED
  BY <1>1, <1>2, <1>3, NotNestedNames, AllAttributesNames, CallNames, CreateNextNames,
     MakeNewNames, SetAttributeNames, PostponeNames, PostponedPassNames, ChooseParentNames,
     Zenon DEF Next

LEMMA NamesAtFirst ==
  ASSUME Init
  PROVE  NamesInv
<1>1. /\ 1..Len(todo) = {} /\ 1..Len(postpone) = {} /\ stack = <<>>
      /\ status = "called"
  BY DEF Init
<1> QED
  BY <1>1, Zenon DEF NamesInv, FirstPass, TopNamed, PostponedNotAtTop
-----------------------------------------------------------------------------
(* What names nothing is never set.                                         *)
LEMMA SetIsCalled ==
  ASSUME Shape, SetAttribute
  PROVE  ~HopelessAt(stack[top].node, stack[top].next)
<1>1. stack # <<>> /\ Static
  BY Zenon DEF SetAttribute, Running, Shape
<1>2. value = text.attrs[stack[top].node][stack[top].next]
  BY <1>1, RunningFacts, Zenon DEF value
<1>3. SUFFICES ASSUME value.kind = "ident", \A m \in Node : text.name[m] # value.to
               PROVE  FALSE
  BY <1>2, Zenon DEF HopelessAt
<1>4. PICK i : i \in Called(value.to)
  BY <1>3, SetAttributeSets, Zenon
<1>5. PICK n : n = dies[i].node /\ n # NoNode /\ text.name[n] = value.to /\ i \in DOMAIN dies
  BY <1>4, Zenon DEF Called
<1>6. n \in Node \cup {NoNode}
  <2>1. PICK ds \in Seq(Die) : ds = dies
    BY <1>1, StaticFacts, Zenon
  <2>2. ds[i] \in Die
    BY <1>5, <2>1, ElementOfSeq
  <2>3. \A d \in Die : d.node \in Node \cup {NoNode}
    BY DEF Die
  <2> QED
    BY <1>5, <2>1, <2>2, <2>3, Zenon
<1> QED
  BY <1>3, <1>5, <1>6, Zenon

NeverSetIn(d) == d.node # NoNode =>
                   \A j \in 1..Len(text.attrs[d.node]) : HopelessAt(d.node, j) => Len(d.refs) < j

LEMMA NeverSetAll ==
  NeverSet <=> \A i \in 1..Len(dies) : NeverSetIn(dies[i])
BY Zenon DEF NeverSet, NeverSetIn

LEMMA NeverSetInSame ==
  ASSUME text' = text
  PROVE  /\ \A d : NeverSetIn(d)' <=> NeverSetIn(d)
         /\ (\A i \in 1..Len(dies') : \A d : d = dies'[i] => NeverSetIn(d)') => NeverSet'
BY Zenon DEF NeverSetIn, NeverSet, HopelessAt

LEMMA SetAttributeNeverSet ==
  ASSUME Shape, NeverSet, SetAttribute
  PROVE  NeverSet'
<1>1. text' = text /\ Static
  BY Zenon DEF SetAttribute, Shape
<1>2. PICK c \in 1..Len(dies), v \in Found : Sets(c, v)
  BY SetAttributeSets
<1>3. PICK old \in Die : old = dies[c] /\ Len(old.refs) \in Nat
  <2>1. PICK ds \in Seq(Die) : ds = dies
    BY <1>1, StaticFacts, Zenon
  <2>2. ds[c] \in Die
    BY <2>1, ElementOfSeq
  <2>3. \A d \in Die : Len(d.refs) \in Nat
    BY DEF Die
  <2> QED
    BY <2>1, <2>2, <2>3, Zenon
<1>4. PICK new : new = dies'[c]
  OBVIOUS
<1>5. PICK k \in Nat : k = Len(old.refs)
  BY <1>3
<1>6. v \in Int /\ old.refs \in Seq(Int)
  <2>1. \A n \in Nat : \A i \in 1..n : i \in Int
    OBVIOUS
  <2>2. Len(dies) \in Nat
    BY <1>1, StaticFacts, Zenon
  <2>3. END \in Int
    BY DEF END
  <2>4. v \in Int
    BY <2>1, <2>2, <2>3, Zenon DEF Found
  <2>5. \A d \in Die : d.refs \in Seq(Int)
    BY DEF Die
  <2> QED
    BY <2>4, <2>5, Zenon
<1>7. new.node = old.node /\ Len(new.refs) = k + 1
  <2>1. new.node = old.node /\ new.refs = Append(old.refs, v)
    BY <1>2, <1>3, <1>4, Zenon DEF Sets
  <2> QED
    BY <1>5, <1>6, <2>1
<1>8. /\ old.node = stack[top].node /\ k = stack[top].next - 1
      /\ stack[top].next \in Nat \ {0}
  <2>1. stack # <<>>
    BY Zenon DEF SetAttribute, Running
  <2> QED
    BY <1>2, <1>3, <1>5, <2>1, RunningFacts, Zenon DEF Sets
<1>9. NeverSetIn(new)
  <2> SUFFICES ASSUME new.node # NoNode, NEW j \in 1..Len(text.attrs[old.node]),
                      HopelessAt(old.node, j)
               PROVE  Len(new.refs) < j
    BY <1>7, Zenon DEF NeverSetIn
  <2>1. k < j
    BY <1>3, <1>5, <1>7, Zenon DEF NeverSet
  <2>2. j # stack[top].next
    BY <1>8, SetIsCalled, Zenon
  <2>3. stack[top].next = k + 1
    <3>1. \A x \in Nat \ {0} : k = x - 1 => x = k + 1
      OBVIOUS
    <3> QED
      BY <1>8, <3>1, Zenon
  <2>4. j # k + 1
    BY <2>2, <2>3, Zenon
  <2>5. k + 1 < j
    <3>1. \A x : \A i \in 1..Len(x) : k < i /\ i # k + 1 => k + 1 < i
      OBVIOUS
    <3> QED
      BY <2>1, <2>4, <3>1, Zenon
  <2> QED
    BY <1>7, <2>5, Zenon
<1>10. ASSUME NEW i \in 1..Len(dies'), NEW d, d = dies'[i]
       PROVE  NeverSetIn(d)
  <2>1. CASE i = c
    BY <1>4, <1>9, <1>10, <2>1, Zenon
  <2>2. CASE i # c
    <3>1. i \in 1..Len(dies) /\ d = dies[i]
      BY <1>2, <1>10, <2>2, Zenon DEF Sets
    <3> QED
      BY <3>1, NeverSetAll, Zenon
  <2> QED
    BY <2>1, <2>2, Zenon
<1> QED
  BY <1>1, <1>10, NeverSetInSame, Zenon

LEMMA MakeNewNeverSet ==
  ASSUME Shape, NeverSet, MakeNew
  PROVE  NeverSet'
<1>1. text' = text /\ Static
  BY Zenon DEF MakeNew, Shape
<1>2. PICK new : new = [node |-> stack[top].node, parent |-> stack[top].parent, refs |-> <<>>]
  OBVIOUS
<1>3. /\ Len(dies) \in Nat /\ Len(dies') = Len(dies) + 1
      /\ \A i \in 1..Len(dies) : dies'[i] = dies[i]
      /\ dies'[Len(dies) + 1] = new
  BY <1>1, <1>2, MakeNewDoes, StaticFacts, Zenon
<1>4. \A j \in Nat \ {0} : Len(new.refs) < j
  BY <1>2
<1>5. NeverSetIn(new)
  <2>1. \A x : \A j \in 1..Len(x) : j \in Nat \ {0}
    OBVIOUS
  <2> QED
    BY <1>4, <2>1, Zenon DEF NeverSetIn
<1>6. ASSUME NEW i \in 1..Len(dies'), NEW d, d = dies'[i]
      PROVE  NeverSetIn(d)
  <2>1. i \in 1..Len(dies) \/ i = Len(dies) + 1
    BY <1>3
  <2> QED
    BY <1>3, <1>5, <1>6, <2>1, NeverSetAll, Zenon
<1> QED
  BY <1>1, <1>6, NeverSetInSame, Zenon

LEMMA ChooseParentNeverSet ==
  ASSUME Shape, ChooseParent
  PROVE  NeverSet'
<1>1. \/ dies' = <<>>
      \/ dies' = <<[node |-> NoNode, parent |-> 0, refs |-> <<>>]>>
  BY ChooseParentDoes, Zenon
<1>2. \A i \in 1..Len(dies') : dies'[i].node = NoNode
  <2>1. CASE dies' = <<>>
    BY <2>1
  <2>2. CASE dies' = <<[node |-> NoNode, parent |-> 0, refs |-> <<>>]>>
    <3>1. PICK d : d = [node |-> NoNode, parent |-> 0, refs |-> <<>>]
      OBVIOUS
    <3>2. d.node = NoNode
      BY <3>1
    <3>3. dies' = <<d>>
      BY <2>2, <3>1, Zenon
    <3>4. \A i \in 1..Len(dies') : dies'[i] = d
      <4> HIDE <2>2, <3>1
      <4> QED
        BY <3>3
    <3> QED
      BY <3>2, <3>4, Zenon
  <2> QED
    BY <1>1, <2>1, <2>2, Zenon
<1> QED
  BY <1>2, Zenon DEF NeverSet

LEMMA NeverSetStep ==
  ASSUME Shape, NeverSet, [Next]_vars
  PROVE  NeverSet'
<1>1. CASE text' = text /\ dies' = dies
  BY <1>1, Zenon DEF NeverSet, HopelessAt
<1>2. \/ text' = text /\ dies' = dies
      \/ ChooseParent \/ MakeNew \/ SetAttribute
  <2>1. CASE CreateNext \/ CreateNested \/ NotNested \/ Postpone \/ AllAttributes
    BY <2>1 DEF CreateNext, CreateNested, NotNested, Postpone, AllAttributes
  <2>2. CASE CreateChild \/ Return \/ PostponedPass
    BY <2>2 DEF CreateChild, Return, PostponedPass
  <2>3. CASE ParentIsGone \/ ReferToEnd \/ ChildOfEnd
    <3>1. Undefined
      BY <2>3, Zenon DEF ParentIsGone, ReferToEnd, ChildOfEnd
    <3> QED
      BY <3>1 DEF Undefined
  <2>4. CASE Finish
    <3>1. UNCHANGED <<text, real_parent, dies, stack, todo, postpone, postponed_pass_n,
                      old_size>>
      BY <2>4, Zenon DEF Finish
    <3> HIDE <2>4
    <3> QED
      BY <3>1
  <2>5. CASE UNCHANGED vars
    BY <2>5 DEF vars
  <2> QED
    BY <2>1, <2>2, <2>3, <2>4, <2>5, Zenon DEF Next
<1> QED
  BY <1>1, <1>2, ChooseParentNeverSet, MakeNewNeverSet, SetAttributeNeverSet, Zenon

LEMMA NeverSetAtFirst ==
  ASSUME Init
  PROVE  NeverSet
<1>1. 1..Len(dies) = {}
  BY DEF Init
<1> QED
  BY <1>1, Zenon DEF NeverSet

(* A second postponed pass is for what names nothing.                       *)
LEMMA NotAtTopIsHopeless ==
  ASSUME Static, RefersToTop, NEW n \in Node, NotAtTop(n)
  PROVE  Hopeless(n)
<1>1. PICK v \in Range(text.attrs[n]) :
             v.kind = "ident" /\ \A m \in Range(text.top) : text.name[m] # v.to
  BY Zenon DEF NotAtTop
<1>2. \A m \in Node : text.name[m] # v.to
  BY <1>1, Zenon DEF RefersToTop
<1>3. PICK s \in Seq(Value) : s = text.attrs[n]
  <2>1. text.attrs \in [Node -> Seq(Value)]
    BY StaticFacts, TextFacts, Zenon
  <2> QED
    BY <2>1, Zenon
<1>4. PICK j \in DOMAIN s : s[j] = v
  BY <1>1, <1>3, Zenon DEF Range
<1>5. j \in 1..Len(s)
  <2>1. DOMAIN s = 1..Len(s)
    OBVIOUS
  <2> QED
    BY <1>4, <2>1, Zenon
<1> QED
  BY <1>1, <1>2, <1>3, <1>4, <1>5, Zenon DEF Hopeless, HopelessAt

LEMMA HopelessSame ==
  ASSUME text' = text
  PROVE  (RefersToTop' <=> RefersToTop) /\ \A n : Hopeless(n)' <=> Hopeless(n)
BY Zenon DEF RefersToTop, Hopeless, HopelessAt

LEMMA PostponedPassLater ==
  ASSUME Shape, NamesInv, PostponedPass
  PROVE  LaterPass'
<1>1. /\ text' = text /\ postpone # <<>> /\ postponed_pass_n' = postponed_pass_n + 1
  BY DEF PostponedPass
<1>2. Static /\ postpone \in Seq(Tree) /\ postponed_pass_n \in Nat
  BY StaticFacts, Zenon DEF Shape
<1>3. postponed_pass_n' > 1 => postponed_pass_n > 0
  BY <1>1, <1>2
<1>4. 1 \in 1..Len(postpone) /\ postpone[1].node \in Node
  <2>1. PICK p \in Seq(Tree) : p = postpone
    BY <1>2, Zenon
  <2>2. 1 \in 1..Len(p) /\ p[1] \in Tree
    BY <1>1, <2>1
  <2>3. \A e \in Tree : e.node \in Node
    BY DEF Tree
  <2> QED
    BY <2>1, <2>2, <2>3, Zenon
<1>5. PICK n \in Node : n = postpone[1].node
  BY <1>4, Zenon
<1>6. Awaited(n)'
  <2>1. Pending' = postpone
    BY <1>2, PassPends, Zenon
  <2> QED
    BY <1>4, <1>5, <2>1, Zenon DEF Awaited
<1>7. SUFFICES ASSUME RefersToTop, postponed_pass_n > 0 PROVE Hopeless(n)
  BY <1>1, <1>3, <1>6, HopelessSame, Zenon DEF LaterPass, Accounted
<1>8. NotAtTop(n)
  BY <1>4, <1>5, <1>7, Zenon DEF NamesInv, PostponedNotAtTop
<1> QED
  BY <1>2, <1>7, <1>8, NotAtTopIsHopeless, Zenon

LEMMA LaterPassStep ==
  ASSUME Shape, Shape', AllAccounted, NamesInv, LaterPass, [Next]_vars
  PROVE  LaterPass'
<1>1. CASE PostponedPass
  BY <1>1, PostponedPassLater, Zenon
<1>2. CASE ChooseParent
  <2>1. ~(postponed_pass_n' > 1)
    <3>1. postponed_pass_n' = 0
      BY <1>2, ChooseParentDoes, Zenon
    <3> QED
      BY <3>1
  <2> QED
    BY <2>1, Zenon DEF LaterPass
<1>3. CASE text' = text /\ postponed_pass_n' = postponed_pass_n /\ Keeps
  BY <1>3, HopelessSame, Zenon DEF LaterPass, Keeps
<1>4. \/ text' = text /\ postponed_pass_n' = postponed_pass_n
      \/ ChooseParent \/ PostponedPass
  <2>1. CASE CreateNext \/ CreateNested \/ NotNested \/ Postpone \/ AllAttributes
    BY <2>1 DEF CreateNext, CreateNested, NotNested, Postpone, AllAttributes
  <2>2. CASE CreateChild \/ Return \/ SetAttribute \/ MakeNew
    BY <2>2 DEF CreateChild, Return, SetAttribute, MakeNew
  <2>3. CASE ParentIsGone \/ ReferToEnd \/ ChildOfEnd
    <3>1. Undefined
      BY <2>3, Zenon DEF ParentIsGone, ReferToEnd, ChildOfEnd
    <3> QED
      BY <3>1 DEF Undefined
  <2>4. CASE Finish
    <3>1. UNCHANGED <<text, real_parent, dies, stack, todo, postpone, postponed_pass_n,
                      old_size>>
      BY <2>4, Zenon DEF Finish
    <3> HIDE <2>4
    <3> QED
      BY <3>1
  <2>5. CASE UNCHANGED vars
    BY <2>5 DEF vars
  <2> QED
    BY <2>1, <2>2, <2>3, <2>4, <2>5, Zenon DEF Next
<1> QED
  BY <1>1, <1>2, <1>3, <1>4, AllAccountedStep, Zenon

LEMMA LaterPassAtFirst ==
  ASSUME Init
  PROVE  LaterPass
<1>1. ~(postponed_pass_n > 1)
  BY DEF Init
<1> QED
  BY <1>1, Zenon DEF LaterPass
-----------------------------------------------------------------------------
(* The invariant holds of every state of a run.                             *)
THEOREM Invariance == Spec => []IInv
<1>1. Init => IInv
  BY ShapeAtFirst, AllAccountedAtFirst, OnceAtFirst, NamesAtFirst, NeverSetAtFirst,
     LaterPassAtFirst, Zenon DEF IInv
<1>2. IInv /\ [Next]_vars => IInv'
  <2> SUFFICES ASSUME IInv, [Next]_vars PROVE IInv'
    OBVIOUS
  <2>1. Shape /\ AllAccounted /\ Once /\ NamesInv /\ NeverSet /\ LaterPass
    BY Zenon DEF IInv
  <2>2. Shape'
    BY <2>1, ShapeKept, Zenon
  <2> QED
    BY <2>1, <2>2, AllAccountedStep, OnceStep, NamesStep, NeverSetStep, LaterPassStep,
       Zenon DEF IInv
<1> QED
  BY <1>1, <1>2, PTL DEF Spec

(* Type correctness, a part at a time.                                      *)
LEMMA InFound ==
  ASSUME Static, NEW s \in Seq(Int), Range(s) \subseteq Found
  PROVE  s \in Seq(Position \ {Given}) /\ s \in Seq(Position)
<1>1. PICK l \in Nat : l = Len(dies)
  BY StaticFacts, Zenon
<1>2. Found = Position \ {Given} /\ Found \subseteq Position
  BY <1>1 DEF Found, Position, END, Given
<1>3. s \in Seq(Found)
  <2>1. \A i \in 1..Len(s) : s[i] \in Found
    <3>1. DOMAIN s = 1..Len(s)
      OBVIOUS
    <3> QED
      BY <3>1, Zenon DEF Range
  <2> QED
    BY <2>1
<1>4. \A S, T : S \subseteq T => Seq(S) \subseteq Seq(T)
  OBVIOUS
<1> QED
  BY <1>2, <1>3, <1>4, Zenon

LEMMA DiesTyped ==
  ASSUME Static, DiesSound, NEW i \in DOMAIN dies
  PROVE  /\ dies[i].node \in Node \cup {NoNode}
         /\ dies[i].parent \in Given..(i - 1)
         /\ dies[i].refs \in Seq(Position \ {Given})
<1>1. PICK ds \in Seq(Die) : ds = dies
  BY StaticFacts, Zenon
<1>2. PICK j \in 1..Len(ds) : j = i
  BY <1>1
<1>3. PICK d \in Die : d = ds[j]
  BY ElementOfSeq
<1>4. d.node \in Node \cup {NoNode} /\ d.parent \in Nat /\ d.refs \in Seq(Int)
  BY DEF Die
<1>5. d.parent < j /\ Range(d.refs) \subseteq Found
  BY <1>1, <1>2, <1>3, Zenon DEF DiesSound, DieSound
<1>6. d.parent \in Given..(j - 1)
  <2>1. \A p \in Nat, k \in 1..Len(ds) : p < k => p \in 0..(k - 1)
    OBVIOUS
  <2> QED
    BY <1>4, <1>5, <2>1, Zenon DEF Given
<1>7. d.refs \in Seq(Position \ {Given})
  BY <1>4, <1>5, InFound, Zenon
<1> QED
  BY <1>1, <1>2, <1>3, <1>4, <1>6, <1>7, Zenon

LEMMA FramesTyped ==
  ASSUME Static, FramesSound, NEW f \in Range(stack)
  PROVE  /\ f.node \in Node /\ f.parent \in Position \ {END}
         /\ f.created \in Position \ {Given} /\ f.nested \in Seq(Position)
<1>1. PICK s \in Seq(Frame) : s = stack
  BY StaticFacts, Zenon
<1>2. PICK i \in 1..Len(s) : f = s[i] /\ s[i] \in Frame
  <2>1. DOMAIN s = 1..Len(s) /\ \A i \in 1..Len(s) : s[i] \in Frame
    OBVIOUS
  <2> QED
    BY <1>1, <2>1, Zenon DEF Range
<1>3. f.node \in Node /\ f.parent \in Nat /\ f.nested \in Seq(Int)
  BY <1>2, FrameFields, Zenon
<1>4. f.parent <= Len(dies) /\ f.created \in Found /\ Range(f.nested) \subseteq Found
  BY <1>1, <1>2, Zenon DEF FramesSound, FrameSound
<1>5. PICK l \in Nat : l = Len(dies)
  BY StaticFacts, Zenon
<1>6. \A p \in Nat : p <= l => p \in Position \ {END}
  BY <1>5 DEF Position, END, Given
<1>7. Found \subseteq Position \ {Given}
  BY <1>5 DEF Found, Position, END, Given
<1> QED
  BY <1>3, <1>4, <1>5, <1>6, <1>7, InFound, Zenon

LEMMA TreesTyped ==
  ASSUME Static, TreesSound, NEW e \in Range(todo) \cup Range(postpone)
  PROVE  e.node \in Node /\ e.parent \in Position
<1>1. PICK s \in Seq(Tree), t \in Seq(Tree) : s = todo /\ t = postpone
  BY StaticFacts, Zenon
<1>2. PICK p \in Seq(Tree) : /\ p = Pending /\ Len(p) = Len(s) + Len(t)
                             /\ \A j \in 1..Len(s) : p[j] = s[j]
                             /\ \A j \in 1..Len(t) : p[Len(s) + j] = t[j]
  <2>1. PICK p \in Seq(Tree) : p = s \o t
    <3>1. s \o t \in Seq(Tree)
      OBVIOUS
    <3> QED
      BY <3>1, Zenon
  <2>2. /\ Len(p) = Len(s) + Len(t)
        /\ \A j \in 1..Len(s) : p[j] = s[j]
        /\ \A j \in 1..Len(t) : p[Len(s) + j] = t[j]
    BY <2>1
  <2> QED
    BY <1>1, <2>1, <2>2, Zenon DEF Pending
<1>3. \E j \in 1..Len(p) : e = p[j]
  <2>1. DOMAIN s = 1..Len(s) /\ DOMAIN t = 1..Len(t)
    OBVIOUS
  <2>2. /\ \A j \in 1..Len(s) : j \in 1..Len(p)
        /\ \A j \in 1..Len(t) : Len(s) + j \in 1..Len(p)
    BY <1>2
  <2>3. (\E j \in 1..Len(s) : e = s[j]) \/ (\E j \in 1..Len(t) : e = t[j])
    BY <1>1, <2>1, Zenon DEF Range
  <2> QED
    BY <1>2, <2>2, <2>3, Zenon
<1>4. PICK j \in 1..Len(p) : e = p[j]
  BY <1>3
<1>5. e \in Tree
  BY <1>4, ElementOfSeq
<1>6. e.node \in Node /\ e.parent \in Nat
  BY <1>5 DEF Tree
<1>7. e.parent <= Len(dies)
  BY <1>2, <1>4, Zenon DEF TreesSound
<1>8. PICK l \in Nat : l = Len(dies)
  BY StaticFacts, Zenon
<1>9. \A n \in Nat : n <= l => n \in Position
  BY <1>8 DEF Position, Given
<1> QED
  BY <1>6, <1>7, <1>8, <1>9, Zenon

(* TypeOK: the positions that DIEs, activations and trees hold are those of *)
(* DIEs that are there; a DIE's parent is made before it.                   *)
THEOREM TypeCorrect == Spec => []TypeOK
<1>1. IInv => TypeOK
  <2> SUFFICES ASSUME IInv PROVE TypeOK
    OBVIOUS
  <2>1. Static /\ DiesSound /\ FramesSound /\ TreesSound
    BY Zenon DEF IInv, Shape
  <2>2. /\ Text(text) /\ real_parent \in {Given, 1}
        /\ status \in {"called", "creating", "done", "assertion failed", "undefined"}
    BY <2>1, Zenon DEF Static, Given
  <2> QED
    BY <2>1, <2>2, DiesTyped, FramesTyped, TreesTyped, Zenon DEF TypeOK
<1> QED
  BY <1>1, Invariance, PTL

(* NothingForgotten: between two trees each of the top is made, or comes    *)
(* exactly once more.                                                       *)
THEOREM NoneForgotten == Spec => []NothingForgotten
<1>1. IInv => NothingForgotten
  <2> SUFFICES ASSUME IInv, status = "creating", stack = <<>>, NEW i \in DOMAIN text.top
               PROVE  Cardinality({j \in DOMAIN Pending : Pending[j].node = text.top[i]})
                        = IF Made(text.top[i]) THEN 0 ELSE 1
    BY Zenon DEF NothingForgotten, Pending
  <2>1. Static /\ TopAccounted /\ PendingOnce /\ PendingOnly
    BY Zenon DEF IInv, Shape, AllAccounted, Once
  <2>2. PICK n \in Range(text.top) : n = text.top[i]
    BY Zenon DEF Range
  <2>3. Made(n) \/ Awaited(n)
    <3>1. 1..Len(stack) = {}
      OBVIOUS
    <3> QED
      BY <2>1, <3>1, Zenon DEF TopAccounted, Accounted, InProgress
  <2>4. DOMAIN Pending = 1..Len(Pending)
    <3>1. todo \in Seq(Tree) /\ postpone \in Seq(Tree)
      BY <2>1, StaticFacts, Zenon
    <3> QED
      BY <3>1 DEF Pending
  <2>5. PICK again : again = {j \in 1..Len(Pending) : Pending[j].node = n}
    OBVIOUS
  <2>6. CASE Made(n)
    <3>1. again = {}
      BY <2>1, <2>5, <2>6, Zenon DEF PendingOnly
    <3>2. Cardinality(again) = 0
      BY <3>1, FS_EmptySet, Zenon
    <3> QED
      BY <2>2, <2>4, <2>5, <2>6, <3>2, Zenon
  <2>7. CASE ~Made(n)
    <3>1. PICK j \in 1..Len(Pending) : Pending[j].node = n
      BY <2>3, <2>7, Zenon DEF Awaited
    <3>2. again = {j}
      BY <2>1, <2>5, <3>1, Zenon DEF PendingOnce
    <3>3. Cardinality(again) = 1
      BY <3>2, FS_Singleton, Zenon
    <3> QED
      BY <2>2, <2>4, <2>5, <2>7, <3>3, Zenon
  <2> QED
    BY <2>6, <2>7, Zenon
<1> QED
  BY <1>1, Invariance, PTL

(* When nothing is left to do, what is accounted for is made.               *)
LEMMA AccountedIsMade ==
  ASSUME Static, Ends, status = "done", NEW n, Accounted(n)
  PROVE  Made(n)
<1>1. stack = <<>> /\ todo = <<>> /\ postpone = <<>>
  BY Zenon DEF Ends
<1>2. 1..Len(stack) = {} /\ 1..Len(Pending) = {}
  BY <1>1 DEF Pending
<1> QED
  BY <1>2, Zenon DEF Accounted, Awaited, InProgress

LEMMA MadeIsClosed ==
  ASSUME Static, Ends, AllAccounted, status = "done", NEW m \in Node, Made(m)
  PROVE  \A n \in Subtrees(text, m) : Made(n)
<1>1. PICK i \in DOMAIN dies : dies[i].node = m /\ Complete(i)
  BY Zenon DEF Made
<1>2. i \in 1..Len(dies)
  BY DomainDies, Zenon
<1>3. m # NoNode
  BY NoNodeAssumption, Zenon DEF NoNodeAssumption
<1>4. 1..Len(stack) = {}
  <2>1. stack = <<>>
    BY Zenon DEF Ends
  <2> QED
    BY <2>1
<1>5. PICK c \in Seq(Node), a \in Seq(Value) : c = text.children[m] /\ a = text.attrs[m]
  <2>1. text.attrs \in [Node -> Seq(Value)] /\ text.children \in [Node -> Seq(Node)]
    BY StaticFacts, TextFacts, Zenon
  <2> QED
    BY <2>1, Zenon
<1>6. DOMAIN c = 1..Len(c) /\ DOMAIN a = 1..Len(a)
  OBVIOUS
<1>7. ASSUME NEW j \in DOMAIN c
      PROVE  Made(c[j])
  <2>1. Accounted(c[j])
    BY <1>1, <1>2, <1>4, <1>5, <1>6, Zenon DEF AllAccounted, ChildrenAccounted
  <2> QED
    BY <2>1, AccountedIsMade, Zenon
<1>8. ASSUME NEW v \in Range(a), v.kind = "die"
      PROVE  Made(v.to)
  <2>1. PICK j \in 1..Len(a) : a[j] = v
    BY <1>6, Zenon DEF Range
  <2>2. v.to \in InlinesOf(m)
    BY <1>5, <1>8, <2>1, Zenon DEF InlinesOf
  <2>3. Accounted(v.to)
    BY <1>1, <1>2, <1>3, <2>2, Zenon DEF AllAccounted, InlinesAccounted
  <2> QED
    BY <2>3, AccountedIsMade, Zenon
<1> QED
  BY <1>5, <1>7, <1>8, Zenon DEF Subtrees

LEMMA SubtreesAreNodes ==
  ASSUME Static, NEW m \in Node
  PROVE  Subtrees(text, m) \subseteq Node
<1>1. PICK c \in Seq(Node), a \in Seq(Value) : c = text.children[m] /\ a = text.attrs[m]
  <2>1. text.attrs \in [Node -> Seq(Value)] /\ text.children \in [Node -> Seq(Node)]
    BY StaticFacts, TextFacts, Zenon
  <2> QED
    BY <2>1, Zenon
<1>2. /\ \A j \in DOMAIN c : c[j] \in Node
      /\ \A j \in DOMAIN a : a[j] \in Value
  OBVIOUS
<1>3. \A v \in Value : v.kind = "die" => v.to \in Node
  BY DEF Value
<1>4. \A v \in Range(a) : v \in Value
  BY <1>2, Zenon DEF Range
<1> QED
  BY <1>1, <1>2, <1>3, <1>4, Zenon DEF Subtrees

(* DoneIsComplete: a call that ends has made every DIE of the text, those   *)
(* within others included.                                                  *)
THEOREM Completeness == Spec => []DoneIsComplete
<1>1. IInv => DoneIsComplete
  <2> SUFFICES ASSUME IInv, status = "done", NEW n \in Node, Written(n)
               PROVE  Made(n)
    BY Zenon DEF DoneIsComplete
  <2>1. Static /\ Ends /\ AllAccounted
    BY Zenon DEF IInv, Shape
  <2>2. PICK S \in SUBSET Node : S = {m \in Node : Made(m)}
    BY Zenon
  <2>3. \A m \in Range(text.top) : m \in Node
    <3>1. PICK t \in Seq(Node) : t = text.top
      BY <2>1, StaticFacts, TextFacts, Zenon
    <3>2. DOMAIN t = 1..Len(t) /\ \A i \in 1..Len(t) : t[i] \in Node
      OBVIOUS
    <3> QED
      BY <3>1, <3>2, Zenon DEF Range
  <2>4. Range(text.top) \subseteq S
    BY <2>1, <2>2, <2>3, AccountedIsMade, Zenon DEF AllAccounted, TopAccounted
  <2>5. ASSUME NEW m \in S
        PROVE  Subtrees(text, m) \subseteq S
    <3>1. m \in Node /\ \A x \in Subtrees(text, m) : Made(x)
      BY <2>1, <2>2, MadeIsClosed, Zenon
    <3>2. Subtrees(text, m) \subseteq Node
      BY <2>1, <3>1, SubtreesAreNodes, Zenon
    <3> QED
      BY <2>2, <3>1, <3>2, Zenon
  <2>6. n \in S
    BY <2>4, <2>5, Zenon DEF Written
  <2> QED
    BY <2>2, <2>6, Zenon
<1> QED
  BY <1>1, Invariance, PTL

(* GivesUpOnUnknownNames: each tree that is left when the assertion fails   *)
(* refers to a name that nothing at the top of the text has.                *)
THEOREM UnknownNames == Spec => []GivesUpOnUnknownNames
<1>0. \A s \in Seq(Tree) : DOMAIN s = 1..Len(s)
  OBVIOUS
<1>1. IInv => GivesUpOnUnknownNames
  <2> SUFFICES ASSUME IInv, status = "assertion failed", NEW e \in Range(postpone)
               PROVE  NotAtTop(e.node)
    BY Zenon DEF GivesUpOnUnknownNames, NotAtTop
  <2>1. postponed_pass_n > 0
    BY Zenon DEF IInv, Shape, Ends
  <2>2. PICK p \in Seq(Tree) : p = postpone
    BY StaticFacts, Zenon DEF IInv, Shape
  <2>3. DOMAIN p = 1..Len(p)
    BY <1>0, Zenon
  <2>4. PICK j \in 1..Len(postpone) : e = postpone[j]
    BY <2>2, <2>3, Zenon DEF Range
  <2> QED
    BY <2>1, <2>4, Zenon DEF IInv, NamesInv, PostponedNotAtTop
<1> QED
  BY <1>1, Invariance, PTL

(* OnePassResolves: where all that is referred to is at the top, a call     *)
(* that ends has not taken a second postponed pass.                         *)
THEOREM OnePass == Spec => []OnePassResolves
<1>1. IInv => OnePassResolves
  <2> SUFFICES ASSUME IInv, status = "done", RefersToTop
               PROVE  postponed_pass_n <= 1
    BY Zenon DEF OnePassResolves
  <2>1. Static /\ Ends /\ LaterPass /\ NeverSet
    BY Zenon DEF IInv, Shape
  <2>2. ~(postponed_pass_n > 1)
    <3> SUFFICES ASSUME postponed_pass_n > 1 PROVE FALSE
      BY Zenon
    <3>1. PICK n \in Node : Hopeless(n) /\ Accounted(n)
      BY <2>1, Zenon DEF LaterPass
    <3>2. Made(n)
      BY <2>1, <3>1, AccountedIsMade, Zenon
    <3>3. PICK i \in DOMAIN dies : dies[i].node = n /\ Complete(i)
      BY <3>2, Zenon DEF Made
    <3>4. i \in 1..Len(dies) /\ n # NoNode
      BY <2>1, DomainDies, NoNodeAssumption, Zenon DEF NoNodeAssumption
    <3>5. Len(dies[i].refs) = Len(text.attrs[n])
      BY <3>3, Zenon DEF Complete
    <3>6. PICK j \in 1..Len(text.attrs[n]) : HopelessAt(n, j)
      BY <3>1, Zenon DEF Hopeless
    <3>7. Len(dies[i].refs) < j
      BY <2>1, <3>3, <3>4, <3>6, Zenon DEF NeverSet
    <3>8. PICK l : l = Len(text.attrs[n])
      OBVIOUS
    <3>9. \A k \in 1..l : ~(l < k)
      <4>1. l \in Nat
        <5>1. text.attrs \in [Node -> Seq(Value)]
          BY <2>1, StaticFacts, TextFacts, Zenon
        <5>2. PICK s \in Seq(Value) : s = text.attrs[n]
          BY <5>1, Zenon
        <5>3. Len(s) \in Nat
          OBVIOUS
        <5> QED
          BY <3>8, <5>2, <5>3, Zenon
      <4> QED
        BY <4>1
    <3> QED
      BY <3>5, <3>6, <3>7, <3>8, <3>9, Zenon
  <2>3. postponed_pass_n \in Nat
    BY <2>1, StaticFacts, Zenon
  <2> QED
    BY <2>2, <2>3
<1> QED
  BY <1>1, Invariance, PTL
=============================================================================
