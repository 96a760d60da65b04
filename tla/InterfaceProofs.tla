--------------------------- MODULE InterfaceProofs ---------------------------
(***************************************************************************)
(* Proofs about gather_interface_dies, for every DIE tree and every type   *)
(* equality, and about the references in the text of what it gathers, for  *)
(* every DIE tree whose typedefs end and whose equal types are made of     *)
(* equal types.                                                            *)
(***************************************************************************)
EXTENDS InterfacePrinting, SequenceTheorems, TLAPS

(* An activation is the call that its caller's loop has come to, and starts *)
(* that loop at the first call.                                             *)
Called ==
  /\ \A i \in DOMAIN stack : stack[i].at = "entered" => stack[i].next = 1
  /\ \A i \in DOMAIN stack :
       i < Len(stack) =>
         LET e == root.edges[stack[i].t][stack[i].next]
         IN  stack[i + 1].t = e.to /\ stack[i + 1].reason = e.reason

(* A walk's root is gathered, unless its walk has only been entered.        *)
Roots_of(d) == ({root.get_type[u] : u \in {d} \cap root.pred \cap Variable} \ {Void})
                 \cup ({d} \cap root.pred \cap Type)
RootsCome ==
  \A j \in 1..i_d : \A t \in Roots_of(root.grandchildren[j]) :
    \/ Has(types, t)
    \/ stack # <<>> /\ stack[1].at = "entered" /\ stack[1].t = t /\ stack[1].reason = "root"

(* A closed set with the roots has what is gathered and what is being       *)
(* gathered.                                                                *)
NothingElse ==
  \A S \in SUBSET Type : HoldsItsParts(S) =>
    /\ types \subseteq S
    /\ \A i \in DOMAIN stack :
         stack[i].t # Void /\ stack[i].reason # "static member" => stack[i].t \in S

DoneIsOver == status = "done" => stack = <<>> /\ i_d = Len(root.grandchildren)

IInv == /\ TypeOK
        /\ Called
        /\ OneOfEachType
        /\ NoTypeWithinItself
        /\ Closing
        /\ RootsCome
        /\ NothingElse
        /\ DoneIsOver
-----------------------------------------------------------------------------
(* Sequences: what pop and replace at the top of a stack leave.             *)
LEMMA Lengths ==
  ASSUME NEW n \in Nat \ {0}
  PROVE  /\ n - 1 \in Int
         /\ (n - 1) - 1 + 1 = n - 1
         /\ (IF 1 <= n - 1 THEN (n - 1) - 1 + 1 ELSE 0) = n - 1
         /\ \A i \in 1..(n - 1) : 1 + i - 1 = i
OBVIOUS

LEMMA Places ==
  ASSUME NEW n \in Nat \ {0}, NEW i \in 1..(n - 1)
  PROVE  /\ i \in 1..n /\ i < n /\ i # n /\ i \in Nat
         /\ i \in 1..(n - 2) \/ (i = n - 1 /\ n > 1)
         /\ i < n - 1 => i # n - 1 /\ i + 1 \in 1..(n - 1)
         /\ i = n - 1 => i + 1 = n
OBVIOUS

LEMMA LastPlace ==
  ASSUME NEW n \in Nat \ {0}
  PROVE  /\ \A i \in 1..n : i \in 1..(n - 1) \/ i = n
         /\ \A i \in 1..n : i < n => i + 1 \in 1..n
OBVIOUS

LEMMA LongerStack ==
  ASSUME NEW n \in Nat \ {0}
  PROVE  /\ \A i \in 1..(n + 1) : i \in 1..n \/ i = n + 1
         /\ \A i \in 1..n : i < n + 1 /\ i \in 1..(n + 1) /\ (i < n \/ i = n)
         /\ \A i \in 1..n : i < n => i + 1 \in 1..n
         /\ ~(n + 1 < n + 1)
OBVIOUS

LEMMA FrontElements ==
  ASSUME NEW S, NEW s \in Seq(S), s # <<>>
  PROVE  /\ Len(s) \in Nat \ {0}
         /\ Front(s) \in Seq(S)
         /\ Len(Front(s)) = Len(s) - 1
         /\ \A i \in 1..(Len(s) - 1) : Front(s)[i] = s[i]
         /\ Last(s) = s[Len(s)] /\ Last(s) \in S
         /\ Front(s) = <<>> <=> Len(s) = 1
<1>1. Len(s) \in Nat \ {0} /\ \A i \in 1..Len(s) : s[i] \in S
  OBVIOUS
<1>2. /\ Front(s) \in Seq(S)
      /\ Len(Front(s)) = Len(s) - 1
      /\ \A i \in 1..(Len(s) - 1) : Front(s)[i] = s[i]
  <2>1. /\ 1 \in Int /\ Len(s) - 1 \in Int
        /\ \A i \in 1..(Len(s) - 1) : s[i] \in S
    BY <1>1, Lengths
  <2>2. /\ SubSeq(s, 1, Len(s) - 1) \in Seq(S)
        /\ Len(SubSeq(s, 1, Len(s) - 1)) = IF 1 <= Len(s) - 1 THEN (Len(s) - 1) - 1 + 1 ELSE 0
        /\ \A i \in 1..((Len(s) - 1) - 1 + 1) :
             SubSeq(s, 1, Len(s) - 1)[i] = s[1 + i - 1]
    BY <2>1, SubSeqProperties
  <2>3. /\ (Len(s) - 1) - 1 + 1 = Len(s) - 1
        /\ (IF 1 <= Len(s) - 1 THEN (Len(s) - 1) - 1 + 1 ELSE 0) = Len(s) - 1
        /\ \A i \in 1..(Len(s) - 1) : 1 + i - 1 = i
    BY <1>1, Lengths
  <2>4. \A i \in 1..(Len(s) - 1) : SubSeq(s, 1, Len(s) - 1)[i] = s[i]
    BY <2>2, <2>3
  <2> QED
    BY <2>2, <2>3, <2>4 DEF Front
<1>3. Last(s) = s[Len(s)] /\ Last(s) \in S
  BY <1>1 DEF Last
<1> QED
  BY <1>1, <1>2, <1>3

LEMMA TopReplaced ==
  ASSUME NEW S, NEW s \in Seq(S), s # <<>>, NEW x \in S
  PROVE  LET r == Front(s) \o <<x>>
         IN  /\ r \in Seq(S)
             /\ Len(r) = Len(s)
             /\ \A i \in 1..(Len(s) - 1) : r[i] = s[i]
             /\ r[Len(s)] = x
<1>1. /\ Len(s) \in Nat \ {0}
      /\ Front(s) \in Seq(S)
      /\ Len(Front(s)) = Len(s) - 1
      /\ \A i \in 1..(Len(s) - 1) : Front(s)[i] = s[i]
  BY FrontElements
<1>2. <<x>> \in Seq(S) /\ Len(<<x>>) = 1 /\ <<x>>[1] = x
  OBVIOUS
<1> QED
  BY <1>1, <1>2

LEMMA NextIsNat ==
  ASSUME NEW w \in Activation
  PROVE  w.next \in Nat
BY DEF Activation

LEMMA SetNext ==
  ASSUME NEW w \in Activation, NEW k \in Nat, NEW x, x = [w EXCEPT !.next = k]
  PROVE  /\ x \in Activation
         /\ x.t = w.t /\ x.at = w.at /\ x.reason = w.reason
         /\ x.currently_walking = w.currently_walking
         /\ x.next = k
BY DEF Activation

LEMMA StepActivation ==
  ASSUME NEW w \in Activation
  PROVE  LET x == [w EXCEPT !.next = @ + 1]
         IN  /\ x \in Activation
             /\ x.t = w.t /\ x.at = w.at /\ x.reason = w.reason
             /\ x.currently_walking = w.currently_walking
             /\ x.next = w.next + 1
<1>1. w.next + 1 \in Nat
  BY NextIsNat
<1> QED
  BY <1>1, SetNext, Zenon

(* A pop steps the caller's loop and leaves the activations below.          *)
LEMMA PopElements ==
  ASSUME TypeOK, stack # <<>>, Pop
  PROVE  /\ Len(stack) \in Nat \ {0}
         /\ stack' \in Seq(Activation)
         /\ Len(stack') = Len(stack) - 1
         /\ \A i \in 1..(Len(stack) - 1) :
              /\ stack'[i].t = stack[i].t
              /\ stack'[i].at = stack[i].at
              /\ stack'[i].reason = stack[i].reason
              /\ stack'[i].currently_walking = stack[i].currently_walking
              /\ stack'[i].next = IF i = Len(stack) - 1 THEN stack[i].next + 1
                                                        ELSE stack[i].next
<1> DEFINE n == Len(stack)
           callers == Front(stack)
<1>1. stack \in Seq(Activation)
  BY DEF TypeOK
<1>2. /\ n \in Nat \ {0}
      /\ callers \in Seq(Activation)
      /\ Len(callers) = n - 1
      /\ \A i \in 1..(n - 1) : callers[i] = stack[i]
      /\ callers = <<>> <=> n = 1
  BY <1>1, FrontElements
<1>3. CASE n = 1
  BY <1>2, <1>3 DEF Pop
<1>4. CASE n # 1
  <2>1. callers # <<>> /\ n > 1
    BY <1>2, <1>4
  <2>2. Last(callers) = callers[n - 1] /\ Last(callers) \in Activation
    BY <1>2, <2>1, FrontElements
  <2>3. Last(callers) = stack[n - 1]
    BY <1>2, <2>1, <2>2
  <2> DEFINE x == [Last(callers) EXCEPT !.next = @ + 1]
  <2>4. /\ x \in Activation
        /\ x.t = Last(callers).t /\ x.at = Last(callers).at
        /\ x.reason = Last(callers).reason
        /\ x.currently_walking = Last(callers).currently_walking
        /\ x.next = Last(callers).next + 1
    BY <2>2, StepActivation, Zenon
  <2>5. stack' = Front(callers) \o <<x>>
    BY <2>1 DEF Pop
  <2>9. x \in Activation
    BY <2>4
  <2> HIDE DEF x, callers
  <2>6. /\ Front(callers) \o <<x>> \in Seq(Activation)
        /\ Len(Front(callers) \o <<x>>) = Len(callers)
        /\ \A i \in 1..(Len(callers) - 1) : (Front(callers) \o <<x>>)[i] = callers[i]
        /\ (Front(callers) \o <<x>>)[Len(callers)] = x
    BY <1>2, <2>1, <2>9, TopReplaced
  <2>7. /\ stack' \in Seq(Activation)
        /\ Len(stack') = n - 1
        /\ \A i \in 1..((n - 1) - 1) : stack'[i] = callers[i]
        /\ stack'[n - 1] = x
    BY <1>2, <2>5, <2>6
  <2>8. ASSUME NEW i \in 1..(n - 1)
        PROVE  /\ stack'[i].t = stack[i].t
               /\ stack'[i].at = stack[i].at
               /\ stack'[i].reason = stack[i].reason
               /\ stack'[i].currently_walking = stack[i].currently_walking
               /\ stack'[i].next = IF i = n - 1 THEN stack[i].next + 1 ELSE stack[i].next
    <3>1. CASE i = n - 1
      BY <2>3, <2>4, <2>7, <3>1
    <3>2. CASE i # n - 1
      <4>1. i \in 1..((n - 1) - 1)
        BY <1>2, <3>2
      <4> QED
        BY <1>2, <2>7, <3>2, <4>1
    <3> QED
      BY <3>1, <3>2
  <2> QED
    BY <1>2, <2>7, <2>8
<1> QED
  BY <1>3, <1>4
-----------------------------------------------------------------------------
(* What the type invariant says of each activation, by its place.           *)
FrameOK(i) ==
  /\ stack[i].currently_walking \subseteq types
  /\ stack[i].at = "walking" =>
       stack[i].t \in types /\ stack[i].next \in 1..(Len(root.edges[stack[i].t]) + 1)
  /\ i < Len(stack) =>
       stack[i].at = "walking" /\ stack[i].next <= Len(root.edges[stack[i].t])
FramesOK == stack \in Seq(Activation) /\ \A i \in 1..Len(stack) : FrameOK(i)

LEMMA TypeOKByFrame ==
  TypeOK <=> /\ Root(root)
             /\ i_d \in 0..Len(root.grandchildren)
             /\ out \subseteq Die
             /\ types \subseteq Type
             /\ FramesOK
             /\ status \in {"gathering", "done"}
<1>1. stack \in Seq(Activation) => DOMAIN stack = 1..Len(stack)
  OBVIOUS
<1> QED
  BY <1>1 DEF TypeOK, FramesOK, FrameOK

LEMMA TypeOKByFrameNext ==
  TypeOK' <=> /\ Root(root')
              /\ i_d' \in 0..Len(root'.grandchildren)
              /\ out' \subseteq Die
              /\ types' \subseteq Type
              /\ FramesOK'
              /\ status' \in {"gathering", "done"}
<1>1. stack' \in Seq(Activation) => DOMAIN stack' = 1..Len(stack')
  OBVIOUS
<1> QED
  BY <1>1 DEF TypeOK, FramesOK, FrameOK, Root

(* The edges of a type, and the frame at the top.                           *)
LEMMA EdgeTypes ==
  ASSUME Root(root), NEW t \in Type
  PROVE  /\ root.edges[t] \in Seq(Edge)
         /\ Len(root.edges[t]) \in Nat
         /\ DOMAIN root.edges[t] = 1..Len(root.edges[t])
         /\ \A k \in 1..Len(root.edges[t]) : root.edges[t][k] \in Edge
<1>1. root.edges[t] \in Seq(Edge)
  BY DEF Root
<1> QED
  BY <1>1

LEMMA TopFrame ==
  ASSUME TypeOK, stack # <<>>
  PROVE  /\ Len(stack) \in Nat \ {0}
         /\ Len(stack) \in DOMAIN stack
         /\ DOMAIN stack = 1..Len(stack)
         /\ frame = stack[Len(stack)]
         /\ frame \in Activation
         /\ frame.currently_walking \subseteq types
         /\ frame.at = "walking" => frame.t \in types
<1>1. stack \in Seq(Activation)
  BY DEF TypeOK
<1>2. Len(stack) \in Nat \ {0} /\ frame = stack[Len(stack)] /\ frame \in Activation
  BY <1>1, FrontElements DEF frame
<1>3. DOMAIN stack = 1..Len(stack) /\ Len(stack) \in DOMAIN stack
  BY <1>1, <1>2
<1> QED
  BY <1>2, <1>3 DEF TypeOK
-----------------------------------------------------------------------------
LEMMA SameRoot ==
  ASSUME root' = root, NEW S
  PROVE  /\ HoldsItsParts(S)' <=> HoldsItsParts(S)
         /\ \A d : Roots_of(d)' = Roots_of(d)
         /\ \A t : Class(t)' = Class(t)
BY DEF HoldsItsParts, RootTypes, Selected, MadeOf, Roots_of, Class

(* A return to the caller, from a call whose type is taken care of.         *)
LoopOver == frame.at = "walking" => frame.next > Len(root.edges[frame.t])
Settled == frame.t # Void /\ frame.reason # "static member" => Has(types, frame.t)

LEMMA PopKeeps ==
  ASSUME IInv, stack # <<>>, Pop, UNCHANGED <<root, types>>, LoopOver, Settled
  PROVE  FramesOK' /\ Called' /\ OneOfEachType' /\ NoTypeWithinItself' /\ Closing' /\ NothingElse'
<1> DEFINE n == Len(stack)
<1>0. TypeOK /\ Called /\ OneOfEachType /\ NoTypeWithinItself /\ Closing
  BY DEF IInv
<1>1. /\ n \in Nat \ {0}
      /\ stack' \in Seq(Activation)
      /\ Len(stack') = n - 1
  BY <1>0, PopElements
<1>2. /\ DOMAIN stack = 1..n /\ DOMAIN stack' = 1..(n - 1)
      /\ stack \in Seq(Activation) /\ \A i \in 1..n : stack[i] \in Activation
      /\ frame = stack[n]
  <2>1. stack \in Seq(Activation) /\ frame = stack[n]
    BY <1>0, TopFrame DEF TypeOK
  <2> QED
    BY <1>1, <2>1
<1>3. \A i \in 1..(n - 1) :
        /\ i \in 1..n /\ i < n /\ i # n /\ i \in Nat
        /\ i \in 1..(n - 2) \/ (i = n - 1 /\ n > 1)
        /\ i < n - 1 => i # n - 1 /\ i + 1 \in 1..(n - 1)
        /\ i = n - 1 => i + 1 = n
  BY <1>1, Places
<1>4. \A i \in 1..(n - 1) :
        /\ stack'[i].t = stack[i].t
        /\ stack'[i].at = stack[i].at
        /\ stack'[i].reason = stack[i].reason
        /\ stack'[i].currently_walking = stack[i].currently_walking
  BY <1>0, PopElements
<1>5. \A i \in 1..(n - 1) :
        stack'[i].next = IF i = n - 1 THEN stack[i].next + 1 ELSE stack[i].next
  BY <1>0, PopElements
<1>6. \A i \in 1..(n - 1) :
        /\ stack[i].at = "walking" /\ stack[i].t \in types
        /\ stack[i].currently_walking \subseteq types
        /\ stack[i].next \in 1..Len(root.edges[stack[i].t])
        /\ stack[i].next \in Nat /\ Len(root.edges[stack[i].t]) \in Nat
  <2> TAKE i \in 1..(n - 1)
  <2>1. i \in DOMAIN stack /\ i < Len(stack)
    BY <1>2, <1>3
  <2>2. /\ stack[i].at = "walking" /\ stack[i].t \in types
        /\ stack[i].currently_walking \subseteq types
        /\ stack[i].next \in 1..(Len(root.edges[stack[i].t]) + 1)
        /\ stack[i].next <= Len(root.edges[stack[i].t])
    BY <1>0, <2>1 DEF TypeOK
  <2>3. Len(root.edges[stack[i].t]) \in Nat
    BY <1>0, <2>2, EdgeTypes DEF TypeOK
  <2> QED
    BY <2>2, <2>3
<1>7. FramesOK'
  <2>1. ASSUME NEW i \in 1..(n - 1) PROVE FrameOK(i)'
    <3>1. i < n - 1 => i # n - 1
      BY <1>3
    <3>2. /\ stack'[i].at = "walking" /\ stack'[i].t \in types
          /\ stack'[i].currently_walking \subseteq types
      BY <1>4, <1>6
    <3>3. /\ stack[i].next \in 1..Len(root.edges[stack[i].t])
          /\ Len(root.edges[stack[i].t]) \in Nat
          /\ stack'[i].next = IF i = n - 1 THEN stack[i].next + 1 ELSE stack[i].next
      BY <1>6, <1>5
    <3>4. /\ stack'[i].next \in 1..(Len(root.edges[stack[i].t]) + 1)
          /\ i < n - 1 => stack'[i].next <= Len(root.edges[stack[i].t])
      BY <3>1, <3>3
    <3>5. /\ stack'[i].next \in 1..(Len(root.edges[stack'[i].t]) + 1)
          /\ i < n - 1 => stack'[i].next <= Len(root.edges[stack'[i].t])
      BY <1>4, <3>4
    <3> QED
      BY <1>1, <3>2, <3>5 DEF FrameOK
  <2> QED
    BY <1>1, <2>1 DEF FramesOK
<1>8. Called'
  <2>1. \A i \in 1..(n - 1) : stack'[i].at # "entered"
    BY <1>4, <1>6
  <2>2. ASSUME NEW i \in 1..(n - 1), i < n - 1
        PROVE  LET e == root.edges[stack'[i].t][stack'[i].next]
               IN  stack'[i + 1].t = e.to /\ stack'[i + 1].reason = e.reason
    <3>1. i + 1 \in 1..(n - 1) /\ i # n - 1 /\ i \in DOMAIN stack /\ i < Len(stack)
      BY <1>2, <1>3, <2>2
    <3>2. LET e == root.edges[stack[i].t][stack[i].next]
          IN  stack[i + 1].t = e.to /\ stack[i + 1].reason = e.reason
      BY <1>0, <3>1 DEF Called
    <3> QED
      BY <1>4, <1>5, <3>1, <3>2
  <2> QED
    BY <1>1, <1>2, <2>1, <2>2 DEF Called
<1>9. OneOfEachType'
  BY <1>0 DEF OneOfEachType, Class
<1>10. NoTypeWithinItself'
  <2>1. ASSUME NEW i \in 1..(n - 1), NEW j \in 1..(n - 1), i # j,
               stack[i].at = "walking", stack[j].at = "walking"
        PROVE  Class(stack[i].t) # Class(stack[j].t)
    BY <1>0, <1>2, <1>3, <2>1 DEF NoTypeWithinItself
  <2>2. \A i \in 1..(n - 1) : Class(stack[i].t) = Class(stack[i].t)'
    BY <1>4 DEF Class
  <2> QED
    BY <1>2, <1>4, <2>1, <2>2 DEF NoTypeWithinItself
<1>11. ASSUME NEW t \in types, NEW k \in DOMAIN root.edges[t],
              Followed(root.edges[t][k]), \A s \in types : Class(s) # Class(root.edges[t][k].to)
       PROVE  \E j \in 1..(n - 1) :
                stack'[j].t = t /\ stack'[j].at = "walking" /\ stack'[j].next <= k
  <2>1. PICK j \in 1..n : stack[j].t = t /\ stack[j].at = "walking" /\ stack[j].next <= k
    BY <1>0, <1>2, <1>11 DEF Closing, Range, Has
  <2>2. t \in Type /\ DOMAIN root.edges[t] = 1..Len(root.edges[t]) /\ Len(root.edges[t]) \in Nat
    BY <1>0, EdgeTypes DEF TypeOK
  <2>3. k \in Nat /\ k <= Len(root.edges[t])
    BY <2>2
  <2>4. stack[j].next \in Nat
    BY <1>2 DEF Activation
  <2>5. j # n
    BY <1>2, <2>1, <2>2, <2>3, <2>4 DEF LoopOver
  <2>6. j \in 1..(n - 1)
    BY <1>1, <2>5
  <2>7. CASE j # n - 1
    BY <1>4, <1>5, <2>1, <2>6, <2>7
  <2>8. CASE j = n - 1 /\ stack[j].next # k
    <3>1. stack[j].next + 1 <= k
      BY <2>1, <2>3, <2>4, <2>8
    <3> QED
      BY <1>4, <1>5, <2>1, <2>6, <2>8, <3>1
  <2>9. CASE j = n - 1 /\ stack[j].next = k
    <3>1. j \in DOMAIN stack /\ j < Len(stack) /\ j + 1 = n
      BY <1>2, <1>3, <2>6, <2>9
    <3>2. frame.t = root.edges[t][k].to /\ frame.reason = root.edges[t][k].reason
      BY <1>0, <1>2, <2>1, <2>9, <3>1 DEF Called
    <3> QED
      BY <1>11, <3>2 DEF Followed, Settled, Has
  <2> QED
    BY <2>7, <2>8, <2>9
<1>12. Closing'
  <2>1. ASSUME NEW t \in types, NEW k \in DOMAIN root.edges[t], Followed(root.edges[t][k])
        PROVE  \/ Has(types, root.edges[t][k].to)
               \/ \E w \in Range(stack') : w.t = t /\ w.at = "walking" /\ w.next <= k
    BY <1>2, <1>11, <2>1 DEF Range, Has
  <2> QED
    BY <2>1 DEF Closing, Has, Class
<1>13. NothingElse'
  <2>1. ASSUME NEW S \in SUBSET Type, HoldsItsParts(S)', NEW i \in 1..(n - 1),
               stack[i].t # Void, stack[i].reason # "static member"
        PROVE  stack[i].t \in S
    <3>1. HoldsItsParts(S)
      BY <2>1, SameRoot
    <3> QED
      BY <1>2, <1>3, <2>1, <3>1 DEF IInv, NothingElse
  <2>2. ASSUME NEW S \in SUBSET Type, HoldsItsParts(S)'
        PROVE  types \subseteq S
    BY <2>2, SameRoot DEF IInv, NothingElse
  <2> QED
    BY <1>2, <1>4, <2>1, <2>2 DEF NothingElse
<1> QED
  BY <1>7, <1>8, <1>9, <1>10, <1>12, <1>13

LEMMA InitIInv == Init => IInv
<1> SUFFICES ASSUME Init PROVE IInv
  OBVIOUS
<1>1. Root(root)
  BY RootsAssumption DEF Init
<1>2. 0 \in 0..Len(root.grandchildren)
  BY <1>1 DEF Root
<1>3. stack = <<>> /\ DOMAIN stack = {} /\ stack \in Seq(Activation)
  BY DEF Init
<1>4. TypeOK
  BY <1>1, <1>2, <1>3 DEF Init, TypeOK
<1> QED
  BY <1>3, <1>4 DEF Init, IInv, Called, OneOfEachType, NoTypeWithinItself, Closing,
                    RootsCome, NothingElse, DoneIsOver

LEMMA EnteredIsTop ==
  ASSUME TypeOK, stack # <<>>, NEW i \in DOMAIN stack, stack[i].at = "entered"
  PROVE  i = Len(stack) /\ frame = stack[i]
<1>1. ~(i < Len(stack))
  BY DEF TypeOK
<1>2. /\ Len(stack) \in Nat \ {0} /\ DOMAIN stack = 1..Len(stack)
      /\ frame = stack[Len(stack)]
  BY TopFrame
<1>3. \A k \in 1..Len(stack) : k < Len(stack) \/ k = Len(stack)
  BY <1>2, LongerStack
<1> QED
  BY <1>1, <1>2, <1>3

LEMMA PopIInv ==
  ASSUME IInv, stack # <<>>, Pop, UNCHANGED <<root, i_d, out, types, status>>, LoopOver, Settled
  PROVE  IInv'
<1>1. FramesOK' /\ Called' /\ OneOfEachType' /\ NoTypeWithinItself' /\ Closing' /\ NothingElse'
  BY PopKeeps
<1>2. /\ Root(root)
      /\ i_d \in 0..Len(root.grandchildren)
      /\ out \subseteq Die
      /\ types \subseteq Type
      /\ status \in {"gathering", "done"}
  BY DEF IInv, TypeOK
<1>3. TypeOK'
  <2>1. Root(root')
    BY <1>2
  <2> QED
    BY <1>1, <1>2, <2>1, TypeOKByFrameNext
<1>4. RootsCome'
  <2>1. ASSUME NEW j \in 1..i_d, NEW t \in Roots_of(root.grandchildren[j])
        PROVE  \E s \in types : Class(s) = Class(t)
    <3>1. CASE \E s \in types : Class(s) = Class(t)
      BY <3>1
    <3>2. CASE stack[1].at = "entered" /\ stack[1].t = t /\ stack[1].reason = "root"
      <4>1. frame = stack[1]
        <5>1. 1 \in DOMAIN stack
          BY TopFrame DEF IInv
        <5> QED
          BY <3>2, <5>1, EnteredIsTop DEF IInv
      <4>2. t # Void
        BY DieAssumption DEF Roots_of
      <4> QED
        BY <3>2, <4>1, <4>2 DEF Settled, Has
    <3> QED
      BY <3>1, <3>2 DEF IInv, RootsCome, Has
  <2>2. \A d : Roots_of(d)' = Roots_of(d)
    BY SameRoot
  <2> QED
    BY <2>1, <2>2 DEF RootsCome, Has, Class
<1>5. DoneIsOver'
  BY DEF IInv, DoneIsOver
<1> QED
  BY <1>1, <1>3, <1>4, <1>5 DEF IInv

LEMMA GreyKeeps ==
  ASSUME IInv, Grey
  PROVE  IInv'
<1>1. stack # <<>> /\ Pop /\ UNCHANGED <<root, i_d, out, types, status>>
  BY DEF Grey
<1>2. frame.currently_walking \subseteq types
  BY <1>1, TopFrame DEF IInv
<1>3. \E s \in frame.currently_walking : Class(s) = Class(frame.t)
  BY DEF Grey, OnTheWay, Has
<1>4. Settled
  BY <1>2, <1>3 DEF Settled, Has
<1>5. LoopOver
  BY DEF LoopOver, Grey
<1> QED
  BY <1>1, <1>4, <1>5, PopIInv

LEMMA PreVisitStopsKeeps ==
  ASSUME IInv, PreVisitStops
  PROVE  IInv'
<1>1. stack # <<>> /\ Pop /\ UNCHANGED <<root, i_d, out, types, status>>
  BY DEF PreVisitStops
<1>2. Settled
  BY DEF Settled, PreVisitStops, pre_f
<1>3. LoopOver
  BY DEF LoopOver, PreVisitStops
<1> QED
  BY <1>1, <1>2, <1>3, PopIInv

LEMMA LeaveKeeps ==
  ASSUME IInv, Leave
  PROVE  IInv'
<1>1. stack # <<>> /\ Pop /\ UNCHANGED <<root, i_d, out, types, status>>
  BY DEF Leave
<1>2. frame.t \in types
  BY <1>1, TopFrame DEF IInv, Leave
<1>3. Settled
  BY <1>2 DEF Settled, Has
<1>4. LoopOver
  BY DEF LoopOver, Leave, edges
<1> QED
  BY <1>1, <1>3, <1>4, PopIInv

LEMMA NextGrandchildKeeps ==
  ASSUME IInv, NextGrandchild
  PROVE  IInv'
<1> DEFINE d == root.grandchildren[i_d + 1]
<1>1. /\ TypeOK /\ Closing /\ OneOfEachType
      /\ stack = <<>> /\ i_d < Len(root.grandchildren)
      /\ root' = root /\ types' = types /\ status' = status /\ i_d' = i_d + 1
  BY DEF IInv, NextGrandchild
<1>2. /\ Root(root) /\ Len(root.grandchildren) \in Nat
      /\ i_d \in 0..Len(root.grandchildren)
      /\ root.grandchildren \in Seq(Die)
      /\ root.get_type \in [Variable -> Type \cup {Void}]
  BY <1>1 DEF TypeOK, Root
<1>3. i_d' \in 0..Len(root.grandchildren) /\ i_d + 1 \in 1..Len(root.grandchildren)
  BY <1>1, <1>2
<1>4. d \in Die
  BY <1>2, <1>3
<1>5. stack' = <<>> \/ \E t \in Type \cup {Void} : stack' = <<Walk(t, "root", {})>>
  BY <1>2 DEF NextGrandchild
<1>6. out' \subseteq Die
  BY <1>1, <1>4 DEF NextGrandchild, TypeOK
<1>7. \A t \in Type \cup {Void} :
        LET w == Walk(t, "root", {})
        IN  w \in Activation /\ w.currently_walking = {} /\ w.at = "entered" /\ w.next = 1
  BY DEF Walk, Activation
<1>8. \/ stack' = <<>>
      \/ \E w \in Activation : /\ stack' = <<w>>
                               /\ w.currently_walking = {} /\ w.at = "entered" /\ w.next = 1
  BY <1>5, <1>7
<1>9. /\ stack' \in Seq(Activation)
      /\ DOMAIN stack' = 1..Len(stack')
      /\ Len(stack') \in {0, 1}
      /\ \A i \in 1..Len(stack') : /\ i = 1 /\ stack'[i].currently_walking = {}
                                   /\ stack'[i].at = "entered" /\ stack'[i].next = 1
  <2>1. CASE stack' = <<>>
    BY <2>1
  <2>2. ASSUME NEW w \in Activation, stack' = <<w>>,
               w.currently_walking = {}, w.at = "entered", w.next = 1
        PROVE  /\ stack' \in Seq(Activation)
               /\ DOMAIN stack' = 1..Len(stack')
               /\ Len(stack') = 1
               /\ \A i \in 1..1 : /\ i = 1 /\ stack'[i].currently_walking = {}
                                 /\ stack'[i].at = "entered" /\ stack'[i].next = 1
    <3>1. /\ stack' \in Seq(Activation) /\ Len(stack') = 1 /\ stack'[1] = w
          /\ DOMAIN stack' = 1..Len(stack')
      BY <2>2
    <3>2. \A i \in 1..1 : i = 1
      OBVIOUS
    <3> QED
      BY <2>2, <3>1, <3>2
  <2> QED
    BY <1>8, <2>1, <2>2
<1>10. TypeOK'
  <2>1. \A i \in 1..Len(stack') : ~(i < Len(stack'))
    BY <1>9
  <2>2. FramesOK'
    BY <1>9, <2>1 DEF FramesOK, FrameOK
  <2> QED
    BY <1>1, <1>2, <1>3, <1>6, <2>2, TypeOKByFrameNext DEF TypeOK
<1>11. Called'
  <2>1. \A i \in 1..Len(stack') : ~(i < Len(stack'))
    BY <1>9
  <2> QED
    BY <1>9, <2>1 DEF Called
<1>12. OneOfEachType'
  BY <1>1 DEF OneOfEachType, Class
<1>13. NoTypeWithinItself'
  BY <1>9 DEF NoTypeWithinItself
<1>14. Closing'
  <2>1. Range(stack) = {}
    BY <1>1 DEF Range
  <2> QED
    BY <1>1, <2>1 DEF Closing, Has, Class
<1>15. \/ stack' = <<>> /\ Roots_of(d) = {}
       \/ \E t \in Type \cup {Void} :
            /\ stack' = <<Walk(t, "root", {})>>
            /\ Roots_of(d) = {t} \ {Void}
  <2>1. CASE d \in root.pred \cap Variable
    BY <1>2, <2>1, DieAssumption DEF NextGrandchild, Roots_of
  <2>2. CASE d \in root.pred \cap Type
    BY <2>2, DieAssumption DEF NextGrandchild, Roots_of
  <2>3. CASE d \notin root.pred \cap Variable /\ d \notin root.pred \cap Type
    BY <2>3 DEF NextGrandchild, Roots_of
  <2> QED
    BY <2>1, <2>2, <2>3
<1> HIDE DEF d
<1>16. \A t \in Roots_of(d) : /\ stack' # <<>> /\ stack'[1].at = "entered"
                              /\ stack'[1].t = t /\ stack'[1].reason = "root"
  BY <1>15 DEF Walk
<1>17. RootsCome'
  <2>1. \A j \in 1..i_d : \A t \in Roots_of(root.grandchildren[j]) :
          \E s \in types : Class(s) = Class(t)
    BY <1>1 DEF IInv, RootsCome, Has
  <2>2. \A j \in 1..(i_d + 1) : j \in 1..i_d \/ root.grandchildren[j] = d
    BY <1>2 DEF d
  <2>3. \A x : Roots_of(x)' = Roots_of(x)
    BY <1>1, SameRoot
  <2> QED
    BY <1>1, <1>16, <2>1, <2>2, <2>3 DEF RootsCome, Has, Class
<1>18. NothingElse'
  <2>1. Roots_of(d) \subseteq RootTypes
    <3>1. d \in Range(root.grandchildren)
      BY <1>2, <1>3 DEF d, Range
    <3> QED
      BY <3>1 DEF Roots_of, RootTypes, Selected
  <2>2. ASSUME NEW S \in SUBSET Type, HoldsItsParts(S)',
               NEW i \in DOMAIN stack', stack'[i].t # Void
        PROVE  stack'[i].t \in S
    <3>1. RootTypes \subseteq S
      BY <1>1, <2>2, SameRoot DEF HoldsItsParts
    <3>2. i = 1
      BY <1>9
    <3>3. stack'[1].t \in Roots_of(d)
      <4>1. stack' # <<>>
        BY <1>9, <2>2
      <4>2. PICK t \in Type \cup {Void} : /\ stack' = <<Walk(t, "root", {})>>
                                         /\ Roots_of(d) = {t} \ {Void}
        BY <1>15, <4>1
      <4>3. stack'[1].t = t
        BY <4>2 DEF Walk
      <4> QED
        BY <2>2, <3>2, <4>2, <4>3
    <3> QED
      BY <2>1, <3>1, <3>2, <3>3
  <2>3. ASSUME NEW S \in SUBSET Type, HoldsItsParts(S)' PROVE types' \subseteq S
    BY <1>1, <2>3, SameRoot DEF IInv, NothingElse
  <2> QED
    BY <2>2, <2>3 DEF NothingElse
<1>19. DoneIsOver'
  BY DEF NextGrandchild, DoneIsOver
<1> QED
  BY <1>10, <1>11, <1>12, <1>13, <1>14, <1>17, <1>18, <1>19 DEF IInv

LEMMA FinishKeeps ==
  ASSUME IInv, Finish
  PROVE  IInv'
<1>1. /\ TypeOK /\ Called /\ OneOfEachType /\ NoTypeWithinItself /\ Closing
      /\ out' = out \cup types /\ status' = "done"
      /\ root' = root /\ i_d' = i_d /\ types' = types /\ stack' = stack
  BY DEF IInv, Finish
<1>5. /\ RootsCome /\ NothingElse
      /\ stack = <<>> /\ i_d = Len(root.grandchildren)
  BY DEF IInv, Finish
<1>2. TypeOK'
  <2>1. out' \subseteq Die
    BY <1>1, DieAssumption DEF TypeOK
  <2>2. /\ Root(root) /\ i_d \in 0..Len(root.grandchildren) /\ types \subseteq Type
        /\ FramesOK
    BY <1>1, TypeOKByFrame
  <2>3. FramesOK'
    BY <1>1, <2>2 DEF FramesOK, FrameOK
  <2> QED
    BY <1>1, <2>1, <2>2, <2>3, TypeOKByFrameNext
<1>3. Called' /\ OneOfEachType' /\ NoTypeWithinItself'
  BY <1>1 DEF Called, OneOfEachType, NoTypeWithinItself, Class
<1>4. Closing'
  BY <1>1 DEF Closing, Has, Class
<1>6. RootsCome'
  BY <1>1, <1>5 DEF RootsCome, Roots_of, Has, Class
<1>7. NothingElse'
  BY <1>1, <1>5, SameRoot DEF NothingElse
<1>8. DoneIsOver'
  BY <1>1, <1>5 DEF DoneIsOver
<1> QED
  BY <1>2, <1>3, <1>4, <1>6, <1>7, <1>8 DEF IInv

LEMMA PreVisitKeeps ==
  ASSUME IInv, PreVisit
  PROVE  IInv'
<1> DEFINE n == Len(stack)
           t == frame.t
<1>1. /\ TypeOK /\ Called /\ OneOfEachType /\ NoTypeWithinItself /\ Closing
      /\ stack # <<>> /\ frame.at = "entered" /\ t # Void
      /\ types' = types \cup {t}
      /\ root' = root /\ i_d' = i_d /\ out' = out /\ status' = status
  BY DEF IInv, PreVisit, pre_f
<1>2. \A s \in types : Class(s) # Class(t)
  BY DEF PreVisit, pre_f, Has
<1>3. /\ n \in Nat \ {0} /\ DOMAIN stack = 1..n /\ n \in DOMAIN stack
      /\ frame = stack[n] /\ frame \in Activation /\ frame.currently_walking \subseteq types
  BY <1>1, TopFrame
<1>4. t \in Type
  BY <1>1, <1>3 DEF Activation
<1>5. /\ Root(root) /\ types \subseteq Type /\ stack \in Seq(Activation)
      /\ \A i \in 1..n : FrameOK(i)
  BY <1>1, TypeOKByFrame DEF FramesOK
<1>6. frame.next = 1
  BY <1>1, <1>3 DEF Called
<1> DEFINE x == [frame EXCEPT !.at = "walking"]
<1>7. /\ x \in Activation /\ x.t = t /\ x.at = "walking" /\ x.next = 1
      /\ x.reason = frame.reason /\ x.currently_walking = frame.currently_walking
  BY <1>3, <1>6 DEF Activation
<1>8. stack' = Front(stack) \o <<x>>
  BY DEF PreVisit
<1>9. \A i \in 1..(n - 1) :
        /\ i \in 1..n /\ i < n /\ i # n /\ i \in Nat
        /\ i < n - 1 => i # n - 1 /\ i + 1 \in 1..(n - 1)
        /\ i = n - 1 => i + 1 = n
  BY <1>3, Places
<1> HIDE DEF x
<1>10. /\ stack' \in Seq(Activation) /\ Len(stack') = n /\ DOMAIN stack' = 1..n
       /\ \A i \in 1..(n - 1) : stack'[i] = stack[i]
       /\ stack'[n] = x
  <2>1. /\ stack' \in Seq(Activation) /\ Len(stack') = n
        /\ \A i \in 1..(n - 1) : stack'[i] = stack[i]
        /\ stack'[n] = x
    <3>1. stack # <<>> /\ stack \in Seq(Activation) /\ x \in Activation
      BY <1>1, <1>5, <1>7
    <3>2. /\ Front(stack) \o <<x>> \in Seq(Activation)
          /\ Len(Front(stack) \o <<x>>) = Len(stack)
          /\ \A i \in 1..(Len(stack) - 1) : (Front(stack) \o <<x>>)[i] = stack[i]
          /\ (Front(stack) \o <<x>>)[Len(stack)] = x
      BY <3>1, TopReplaced
    <3> QED
      BY <1>8, <3>2, Zenon
  <2> QED
    BY <2>1
<1>11. \A i \in 1..n : i \in 1..(n - 1) \/ i = n
  BY <1>3, LastPlace
<1>12. \A i \in 1..n : /\ stack'[i].t = stack[i].t
                       /\ stack'[i].reason = stack[i].reason
                       /\ stack'[i].next = stack[i].next
  BY <1>3, <1>6, <1>7, <1>10, <1>11
<1>13. \A i \in 1..(n - 1) : stack[i].at = "walking" /\ stack[i].t \in types
  BY <1>5, <1>9 DEF FrameOK
<1>14. TypeOK'
  <2>1. ASSUME NEW i \in 1..(n - 1) PROVE FrameOK(i)'
    <3>1. FrameOK(i) /\ i < n
      BY <1>5, <1>9
    <3> QED
      BY <1>1, <1>10, <3>1 DEF FrameOK
  <2>2. FrameOK(n)'
    <3>1. Len(root.edges[t]) \in Nat
      BY <1>4, <1>5, EdgeTypes
    <3>2. 1 \in 1..(Len(root.edges[t]) + 1) /\ ~(n < n)
      BY <1>3, <3>1
    <3> QED
      BY <1>1, <1>3, <1>7, <1>10, <3>2 DEF FrameOK
  <2>3. FramesOK'
    BY <1>10, <1>11, <2>1, <2>2 DEF FramesOK
  <2>4. /\ i_d \in 0..Len(root.grandchildren) /\ out \subseteq Die
        /\ status \in {"gathering", "done"}
    BY <1>1 DEF TypeOK
  <2> QED
    BY <1>1, <1>4, <1>5, <2>3, <2>4, TypeOKByFrameNext
<1>15. Called'
  <2>1. \A i \in 1..n : stack'[i].at = "walking"
    BY <1>7, <1>10, <1>11, <1>13
  <2>2. \A i \in 1..n : i < n => i + 1 \in 1..n
    BY <1>3
  <2> QED
    BY <1>1, <1>3, <1>10, <1>12, <2>1, <2>2 DEF Called
<1>16. OneOfEachType'
  BY <1>1, <1>2 DEF OneOfEachType, Class
<1>17. NoTypeWithinItself'
  <2>1. \A i \in 1..(n - 1) : Class(stack[i].t) # Class(stack[n].t)
    BY <1>2, <1>3, <1>13
  <2>2. ASSUME NEW i \in 1..n, NEW j \in 1..n, i # j
        PROVE  Class(stack[i].t) # Class(stack[j].t)
    <3>1. CASE i = n \/ j = n
      BY <1>11, <2>1, <2>2, <3>1
    <3>2. CASE i # n /\ j # n
      <4>1. i \in 1..(n - 1) /\ j \in 1..(n - 1)
        BY <1>11, <3>2
      <4> QED
        BY <1>1, <1>3, <1>13, <2>2, <4>1 DEF NoTypeWithinItself
    <3> QED
      BY <3>1, <3>2
  <2>3. \A i \in 1..n : Class(stack[i].t) = Class(stack[i].t)'
    BY <1>1, <1>12 DEF Class
  <2> QED
    BY <1>10, <2>2, <2>3 DEF NoTypeWithinItself
<1>18. ASSUME NEW u \in types', NEW k \in DOMAIN root.edges[u],
              Followed(root.edges[u][k])
       PROVE  \/ \E s \in types' : Class(s) = Class(root.edges[u][k].to)
              \/ \E j \in 1..n :
                   stack'[j].t = u /\ stack'[j].at = "walking" /\ stack'[j].next <= k
  <2>1. CASE u \in types
    <3>1. \/ \E s \in types : Class(s) = Class(root.edges[u][k].to)
          \/ \E j \in 1..n :
               stack[j].t = u /\ stack[j].at = "walking" /\ stack[j].next <= k
      BY <1>1, <1>3, <1>18, <2>1 DEF Closing, Range, Has
    <3>2. ASSUME NEW j \in 1..n, stack[j].at = "walking"
          PROVE  stack'[j].at = "walking"
      BY <1>7, <1>10, <1>11, <3>2
    <3> QED
      BY <1>1, <1>12, <3>1, <3>2
  <2>2. CASE u = t
    <3>1. 1 <= k
      <4>1. DOMAIN root.edges[u] = 1..Len(root.edges[u])
        BY <1>4, <1>5, <2>2, EdgeTypes
      <4> QED
        BY <4>1
    <3> QED
      BY <1>3, <1>7, <1>10, <2>2, <3>1
  <2> QED
    BY <1>1, <2>1, <2>2
<1>19. Closing'
  <2>1. ASSUME NEW u \in types', NEW k \in DOMAIN root.edges[u], Followed(root.edges[u][k])
        PROVE  \/ \E s \in types' : Class(s) = Class(root.edges[u][k].to)
               \/ \E w \in Range(stack') : w.t = u /\ w.at = "walking" /\ w.next <= k
    BY <1>10, <1>18, <2>1 DEF Range
  <2> QED
    BY <1>1, <2>1 DEF Closing, Has, Class
<1>20. RootsCome'
  <2>1. ASSUME NEW j \in 1..i_d, NEW r \in Roots_of(root.grandchildren[j])
        PROVE  \E s \in types' : Class(s) = Class(r)
    <3>1. CASE \E s \in types : Class(s) = Class(r)
      BY <1>1, <3>1
    <3>2. CASE stack[1].at = "entered" /\ stack[1].t = r
      <4>1. frame = stack[1]
        <5>1. 1 \in DOMAIN stack
          BY <1>3
        <5> QED
          BY <1>1, <3>2, <5>1, EnteredIsTop
      <4> QED
        BY <1>1, <3>2, <4>1
    <3> QED
      BY <3>1, <3>2 DEF IInv, RootsCome, Has
  <2>2. \A d : Roots_of(d)' = Roots_of(d)
    BY <1>1, SameRoot
  <2> QED
    BY <1>1, <2>1, <2>2 DEF RootsCome, Has, Class
<1>21. NothingElse'
  <2>1. ASSUME NEW S \in SUBSET Type, HoldsItsParts(S)'
        PROVE  /\ types \subseteq S
               /\ \A i \in 1..n : stack[i].t # Void /\ stack[i].reason # "static member"
                                  => stack[i].t \in S
    BY <1>1, <1>3, <2>1, SameRoot DEF IInv, NothingElse
  <2>2. stack[n].t # Void /\ stack[n].reason # "static member"
    BY <1>3 DEF PreVisit, pre_f
  <2> QED
    <3>1. ASSUME NEW S \in SUBSET Type, HoldsItsParts(S)', NEW i \in 1..n,
                 stack'[i].t # Void, stack'[i].reason # "static member"
          PROVE  stack'[i].t \in S
      BY <1>12, <2>1, <3>1
    <3>2. ASSUME NEW S \in SUBSET Type, HoldsItsParts(S)'
          PROVE  types' \subseteq S
      BY <1>1, <1>3, <2>1, <2>2, <3>2
    <3> QED
      BY <1>10, <3>1, <3>2 DEF NothingElse
<1>22. DoneIsOver'
  BY <1>1 DEF IInv, DoneIsOver
<1> QED
  BY <1>14, <1>15, <1>16, <1>17, <1>19, <1>20, <1>21, <1>22 DEF IInv

LEMMA RecurseKeeps ==
  ASSUME IInv, Recurse
  PROVE  IInv'
<1> DEFINE n == Len(stack)
           t == frame.t
           e == root.edges[t][frame.next]
           ncw == IF e.reason = "return" THEN {} ELSE frame.currently_walking \cup {t}
           w == Walk(e.to, e.reason, ncw)
<1>1. /\ TypeOK /\ Called /\ OneOfEachType /\ NoTypeWithinItself /\ Closing
      /\ stack # <<>> /\ frame.at = "walking" /\ frame.next <= Len(root.edges[t])
      /\ stack' = Append(stack, w)
      /\ root' = root /\ i_d' = i_d /\ out' = out /\ types' = types /\ status' = status
  BY DEF IInv, Recurse, edges
<1>2. /\ n \in Nat \ {0} /\ DOMAIN stack = 1..n /\ n \in DOMAIN stack
      /\ frame = stack[n] /\ frame \in Activation
      /\ frame.currently_walking \subseteq types /\ t \in types
  BY <1>1, TopFrame
<1>3. /\ Root(root) /\ types \subseteq Type /\ stack \in Seq(Activation)
      /\ \A i \in 1..n : FrameOK(i)
  BY <1>1, TypeOKByFrame DEF FramesOK
<1>4. e \in Edge /\ frame.next \in DOMAIN root.edges[t]
  <2>1. /\ \A k \in 1..Len(root.edges[t]) : root.edges[t][k] \in Edge
        /\ Len(root.edges[t]) \in Nat
    BY <1>2, <1>3, EdgeTypes
  <2>2. frame.next \in 1..(Len(root.edges[t]) + 1)
    BY <1>1, <1>2, <1>3 DEF FrameOK
  <2>3. frame.next \in 1..Len(root.edges[t])
    BY <1>1, <2>1, <2>2
  <2>4. DOMAIN root.edges[t] = 1..Len(root.edges[t])
    BY <1>2, <1>3, EdgeTypes
  <2> QED
    BY <2>1, <2>3, <2>4
<1>5. ncw \subseteq types
  BY <1>2
<1> HIDE DEF e, ncw
<1>6. /\ w \in Activation /\ w.at = "entered" /\ w.next = 1 /\ w.currently_walking = ncw
      /\ w.t = e.to /\ w.reason = e.reason
  BY <1>3, <1>4, <1>5 DEF Walk, Activation, Edge
<1> HIDE DEF w
<1>7. /\ stack' \in Seq(Activation) /\ Len(stack') = n + 1 /\ DOMAIN stack' = 1..(n + 1)
      /\ \A i \in 1..n : stack'[i] = stack[i]
      /\ stack'[n + 1] = w
  <2>1. /\ Append(stack, w) \in Seq(Activation) /\ Len(Append(stack, w)) = n + 1
        /\ \A i \in 1..n : Append(stack, w)[i] = stack[i]
        /\ Append(stack, w)[n + 1] = w
    BY <1>3, <1>6
  <2>2. DOMAIN Append(stack, w) = 1..(n + 1)
    BY <2>1
  <2> QED
    BY <1>1, <2>1, <2>2
<1>8. /\ \A i \in 1..(n + 1) : i \in 1..n \/ i = n + 1
      /\ \A i \in 1..n : i < n + 1 /\ i \in 1..(n + 1) /\ (i < n \/ i = n)
      /\ \A i \in 1..n : i < n => i + 1 \in 1..n
      /\ ~(n + 1 < n + 1)
  BY <1>2, LongerStack
<1>9. TypeOK'
  <2>1. ASSUME NEW i \in 1..n PROVE FrameOK(i)'
    <3>1. FrameOK(i) /\ (i < n \/ i = n)
      BY <1>3, <1>8
    <3>2. stack[i].at = "walking" /\ stack[i].next <= Len(root.edges[stack[i].t])
      BY <1>1, <1>2, <3>1 DEF FrameOK
    <3> QED
      BY <1>1, <1>7, <3>1, <3>2 DEF FrameOK
  <2>2. ASSUME NEW m, m = n + 1 PROVE FrameOK(m)'
    <3>1. stack'[m] = w /\ w.at = "entered" /\ w.currently_walking \subseteq types'
      BY <1>1, <1>5, <1>6, <1>7, <2>2
    <3>2. ~(m < Len(stack'))
      BY <1>7, <1>8, <2>2
    <3> QED
      BY <3>1, <3>2 DEF FrameOK
  <2>3. FramesOK'
    <3>1. ASSUME NEW i \in 1..(n + 1) PROVE FrameOK(i)'
      <4>1. CASE i \in 1..n
        BY <2>1, <4>1
      <4>2. CASE i = n + 1
        BY <2>2, <4>2
      <4> QED
        BY <1>8, <4>1, <4>2
    <3> QED
      BY <1>7, <3>1 DEF FramesOK
  <2>4. /\ i_d \in 0..Len(root.grandchildren) /\ out \subseteq Die
        /\ status \in {"gathering", "done"}
    BY <1>1 DEF TypeOK
  <2> QED
    BY <1>1, <1>3, <2>3, <2>4, TypeOKByFrameNext
<1>10. Called'
  <2>1. \A i \in 1..(n + 1) : stack'[i].at = "entered" => stack'[i].next = 1
    <3>1. \A i \in 1..n : stack'[i].at = "entered" => stack'[i].next = 1
      <4>1. \A i \in 1..n : stack[i].at = "entered" => stack[i].next = 1
        BY <1>1, <1>2 DEF Called
      <4> QED
        BY <1>7, <4>1
    <3>2. stack'[n + 1].next = 1
      BY <1>6, <1>7
    <3> QED
      BY <1>8, <3>1, <3>2
  <2>2. ASSUME NEW i \in 1..n
        PROVE  LET f == root.edges[stack'[i].t][stack'[i].next]
               IN  stack'[i + 1].t = f.to /\ stack'[i + 1].reason = f.reason
    <3>1. CASE i < n
      <4>1. i + 1 \in 1..n /\ i \in DOMAIN stack /\ i < Len(stack)
        BY <1>2, <1>8, <3>1
      <4> QED
        BY <1>1, <1>7, <4>1 DEF Called
    <3>2. CASE i = n
      BY <1>2, <1>6, <1>7, <3>2 DEF e
    <3> QED
      BY <1>8, <3>1, <3>2
  <2>3. \A i \in 1..(n + 1) : i < n + 1 => i \in 1..n
    BY <1>8
  <2> QED
    BY <1>1, <1>7, <2>1, <2>2, <2>3 DEF Called
<1>11. OneOfEachType'
  BY <1>1 DEF OneOfEachType, Class
<1>12. NoTypeWithinItself'
  <2>1. ASSUME NEW i \in 1..(n + 1), NEW j \in 1..(n + 1), i # j,
               stack'[i].at = "walking", stack'[j].at = "walking"
        PROVE  Class(stack'[i].t) # Class(stack'[j].t)
    <3>1. i \in 1..n /\ j \in 1..n
      BY <1>6, <1>7, <1>8, <2>1
    <3> QED
      BY <1>1, <1>2, <1>7, <2>1, <3>1 DEF NoTypeWithinItself
  <2> QED
    BY <1>1, <1>7, <2>1 DEF NoTypeWithinItself, Class
<1>13. Closing'
  <2>1. Range(stack) \subseteq Range(stack')
    BY <1>2, <1>7, <1>8 DEF Range
  <2>2. ASSUME NEW u \in types, NEW k \in DOMAIN root.edges[u], Followed(root.edges[u][k])
        PROVE  \/ \E s \in types : Class(s) = Class(root.edges[u][k].to)
               \/ \E f \in Range(stack') : f.t = u /\ f.at = "walking" /\ f.next <= k
    BY <1>1, <2>1, <2>2 DEF Closing, Has
  <2> QED
    BY <1>1, <2>2 DEF Closing, Has, Class
<1>14. RootsCome'
  <2>1. stack[1].at # "entered"
    <3>1. 1 \in DOMAIN stack
      BY <1>2
    <3>2. stack[1].at = "entered" => frame = stack[1]
      BY <1>1, <3>1, EnteredIsTop
    <3> QED
      BY <1>1, <3>2
  <2>2. \A j \in 1..i_d : \A r \in Roots_of(root.grandchildren[j]) :
          \E s \in types : Class(s) = Class(r)
    BY <2>1 DEF IInv, RootsCome, Has
  <2>3. \A d : Roots_of(d)' = Roots_of(d)
    BY <1>1, SameRoot
  <2> QED
    BY <1>1, <2>2, <2>3 DEF RootsCome, Has, Class
<1>15. NothingElse'
  <2>1. ASSUME NEW S \in SUBSET Type, HoldsItsParts(S)'
        PROVE  /\ HoldsItsParts(S) /\ types \subseteq S
               /\ \A i \in 1..n : stack[i].t # Void /\ stack[i].reason # "static member"
                                  => stack[i].t \in S
    BY <1>1, <1>2, <2>1, SameRoot DEF IInv, NothingElse
  <2>2. ASSUME NEW S \in SUBSET Type, HoldsItsParts(S)',
               e.to # Void, e.reason # "static member"
        PROVE  e.to \in S
    <3>1. t \in S /\ MadeOf(t) \subseteq S
      BY <1>2, <2>1, <2>2 DEF HoldsItsParts
    <3>2. e \in Range(root.edges[t])
      BY <1>4 DEF Range, e
    <3> QED
      BY <2>2, <3>1, <3>2 DEF MadeOf, Followed
  <2>3. ASSUME NEW S \in SUBSET Type, HoldsItsParts(S)', NEW i \in 1..(n + 1),
               stack'[i].t # Void, stack'[i].reason # "static member"
        PROVE  stack'[i].t \in S
    <3>1. CASE i \in 1..n
      BY <1>7, <2>1, <2>3, <3>1
    <3>2. CASE i = n + 1
      BY <1>6, <1>7, <2>2, <2>3, <3>2
    <3> QED
      BY <1>8, <3>1, <3>2
  <2> QED
    BY <1>1, <1>7, <2>1, <2>3 DEF NothingElse
<1>16. DoneIsOver'
  BY <1>1 DEF IInv, DoneIsOver
<1> QED
  BY <1>9, <1>10, <1>11, <1>12, <1>13, <1>14, <1>15, <1>16 DEF IInv

LEMMA StutterKeeps ==
  ASSUME IInv, UNCHANGED vars
  PROVE  IInv'
<1>1. /\ TypeOK /\ Called /\ OneOfEachType /\ NoTypeWithinItself /\ Closing
      /\ root' = root /\ i_d' = i_d /\ out' = out
      /\ types' = types /\ stack' = stack /\ status' = status
  BY DEF IInv, vars
<1>2. TypeOK'
  <2>1. FramesOK'
    BY <1>1, TypeOKByFrame DEF FramesOK, FrameOK
  <2> QED
    BY <1>1, <2>1, TypeOKByFrame, TypeOKByFrameNext
<1>3. Called' /\ OneOfEachType' /\ NoTypeWithinItself'
  BY <1>1 DEF Called, OneOfEachType, NoTypeWithinItself, Class
<1>4. Closing'
  BY <1>1 DEF Closing, Has, Class
<1>5. RootsCome'
  BY <1>1 DEF IInv, RootsCome, Roots_of, Has, Class
<1>6. NothingElse'
  BY <1>1, SameRoot DEF IInv, NothingElse
<1>7. DoneIsOver'
  BY <1>1 DEF IInv, DoneIsOver
<1> QED
  BY <1>2, <1>3, <1>4, <1>5, <1>6, <1>7 DEF IInv

LEMMA NextKeeps == IInv /\ [Next]_vars => IInv'
<1> SUFFICES ASSUME IInv, [Next]_vars PROVE IInv'
  OBVIOUS
<1>1. CASE NextGrandchild
  BY <1>1, NextGrandchildKeeps
<1>2. CASE Grey
  BY <1>2, GreyKeeps
<1>3. CASE PreVisitStops
  BY <1>3, PreVisitStopsKeeps
<1>4. CASE PreVisit
  BY <1>4, PreVisitKeeps
<1>5. CASE Recurse
  BY <1>5, RecurseKeeps
<1>6. CASE Leave
  BY <1>6, LeaveKeeps
<1>7. CASE Finish
  BY <1>7, FinishKeeps
<1>8. CASE UNCHANGED vars
  BY <1>8, StutterKeeps
<1> QED
  BY <1>1, <1>2, <1>3, <1>4, <1>5, <1>6, <1>7, <1>8 DEF Next
-----------------------------------------------------------------------------
LEMMA Invariance == Spec => []IInv
<1> QED
  BY InitIInv, NextKeeps, PTL DEF Spec

(* Whatever the tree, activations are legal, what is on the way to a type   *)
(* has been gathered, and every caller is at one of its calls.              *)
THEOREM TypeCorrect == Spec => []TypeOK
<1>1. IInv => TypeOK
  BY DEF IInv
<1> QED
  BY <1>1, Invariance, PTL

(* dedup_types_out never gets two types that are equal.                     *)
THEOREM DedupSetHasOneOfEach == Spec => []OneOfEachType
<1>1. IInv => OneOfEachType
  BY DEF IInv
<1> QED
  BY <1>1, Invariance, PTL

(* Losing the grey nodes at return types is harmless: no type is walked     *)
(* while it, or an equal one, is being walked already.                      *)
THEOREM NeverWithinItself == Spec => []NoTypeWithinItself
<1>1. IInv => NoTypeWithinItself
  BY DEF IInv
<1> QED
  BY <1>1, Invariance, PTL

(* What a gathered type is made of is gathered, or is still to be come to.  *)
THEOREM AlwaysClosing == Spec => []Closing
<1>1. IInv => Closing
  BY DEF IInv
<1> QED
  BY <1>1, Invariance, PTL

LEMMA AtTheEnd == IInv => GathersReachable
<1> SUFFICES ASSUME IInv, status = "done" PROVE GathersReachable
  BY DEF GathersReachable
<1>1. /\ stack = <<>> /\ i_d = Len(root.grandchildren) /\ Root(root)
      /\ RootsCome /\ Closing /\ NothingElse
  BY DEF IInv, DoneIsOver, TypeOK
<1>2. ASSUME NEW t \in RootTypes
      PROVE  Has(types, t)
  <2>1. root.grandchildren \in Seq(Die)
    BY <1>1 DEF Root
  <2>2. \A d \in Range(root.grandchildren) : \E j \in 1..i_d : root.grandchildren[j] = d
    BY <1>1, <2>1 DEF Range
  <2>3. \E d \in Range(root.grandchildren) : t \in Roots_of(d)
    BY DEF RootTypes, Selected, Roots_of
  <2> QED
    BY <1>1, <2>2, <2>3 DEF RootsCome
<1>3. ASSUME NEW t \in types, NEW u \in MadeOf(t)
      PROVE  Has(types, u)
  <2>1. PICK k \in DOMAIN root.edges[t] : /\ Followed(root.edges[t][k])
                                         /\ root.edges[t][k].to = u
    BY DEF MadeOf, Range
  <2>2. Range(stack) = {}
    BY <1>1 DEF Range
  <2> QED
    BY <1>1, <2>1, <2>2 DEF Closing
<1>4. \A S \in SUBSET Type : HoldsItsParts(S) => types \subseteq S
  BY <1>1 DEF NothingElse
<1> QED
  BY <1>2, <1>3, <1>4 DEF GathersReachable

(* When it returns, the interface has all the types its selected variables  *)
(* and types are made of, up to equality, and no others.                    *)
THEOREM GathersWhatIsReachable == Spec => []GathersReachable
<1> QED
  BY AtTheEnd, Invariance, PTL
------------------------------------------------------------------------------

(* What is printed has been selected or gathered, all that is gathered is   *)
(* printed, and the tree is the one the call was given.                     *)
Printed == /\ root \in Roots
           /\ out \subseteq Selected \cup types
           /\ status = "done" => types \subseteq out

LEMMA InitPrinted == Init => Printed
BY DEF Init, Printed

LEMMA NextPrinted == IInv /\ Printed /\ [Next]_vars => Printed'
<1> SUFFICES ASSUME IInv, Printed, [Next]_vars PROVE Printed'
  OBVIOUS
<1>1. CASE NextGrandchild
  <2>1. /\ root' = root /\ types' = types /\ status' = status
        /\ status = "gathering"
        /\ out' = IF root.grandchildren[i_d + 1] \in root.pred
                  THEN out \cup {root.grandchildren[i_d + 1]} ELSE out
    BY <1>1 DEF NextGrandchild
  <2>2. root.grandchildren[i_d + 1] \in Range(root.grandchildren)
    <3>1. root.grandchildren \in Seq(Die) /\ i_d \in 0..Len(root.grandchildren)
      BY DEF IInv, TypeOK, Root
    <3>2. i_d + 1 \in 1..Len(root.grandchildren)
      BY <1>1, <3>1 DEF NextGrandchild
    <3>3. i_d + 1 \in DOMAIN root.grandchildren
      BY <3>1, <3>2
    <3> QED
      BY <3>3 DEF Range
  <2>3. Selected' = Selected
    BY <2>1 DEF Selected
  <2> QED
    BY <2>1, <2>2, <2>3 DEF Printed, Selected
<1>2. CASE Finish
  BY <1>2 DEF Finish, Printed, Selected
<1>3. CASE Grey
  BY <1>3 DEF Grey, Printed, Selected
<1>4. CASE PreVisitStops
  BY <1>4 DEF PreVisitStops, Printed, Selected
<1>5. CASE PreVisit
  <2>1. /\ root' = root /\ out' = out /\ status' = status
        /\ types \subseteq types' /\ stack # <<>>
    BY <1>5 DEF PreVisit
  <2> QED
    BY <2>1 DEF Printed, Selected, IInv, DoneIsOver
<1>6. CASE Recurse
  BY <1>6 DEF Recurse, Printed, Selected
<1>7. CASE Leave
  BY <1>7 DEF Leave, Printed, Selected
<1>8. CASE UNCHANGED vars
  BY <1>8 DEF vars, Printed, Selected
<1> QED
  BY <1>1, <1>2, <1>3, <1>4, <1>5, <1>6, <1>7, <1>8 DEF Next
-----------------------------------------------------------------------------
(* Where typedefs lead.                                                     *)
LEMMA AliasFacts ==
  ASSUME root \in Roots
  PROVE  /\ Alias \subseteq Type
         /\ \A t \in Alias : /\ Len(root.edges[t]) = 1
                             /\ root.edges[t][1].reason = "type"
                             /\ Chain(t) \in Type \cup {Void}
         /\ \A S \in SUBSET Alias : S # {} => \E t \in S : Chain(t) \notin S
<1>1. /\ Alias \subseteq Type
      /\ \A t \in Alias : Len(root.edges[t]) = 1 /\ root.edges[t][1].reason = "type"
      /\ \A S \in SUBSET Alias : S # {} => \E t \in S : root.edges[t][1].to \notin S
  BY AliasAssumption
<1>2. ASSUME NEW t \in Alias PROVE root.edges[t][1].to \in Type \cup {Void}
  <2>1. Root(root) /\ t \in Type
    BY <1>1, RootsAssumption
  <2>2. 1 \in 1..Len(root.edges[t])
    BY <1>1
  <2>3. root.edges[t][1] \in Edge
    BY <2>1, <2>2, EdgeTypes
  <2> QED
    BY <2>3 DEF Edge
<1> QED
  BY <1>1, <1>2 DEF Chain

(* The concrete type is no alias, and is reached from any set of aliases    *)
(* that has the type and is left by no alias of it.                         *)
LEMMA ConcreteType ==
  ASSUME root \in Roots, NEW t \in Alias
  PROVE  /\ get_concrete_type(t) \in (Type \cup {Void}) \ Alias
         /\ \A S \in WaysFrom(t) : \E a \in S : Chain(a) = get_concrete_type(t)
<1> DEFINE L == {x \in Alias : \A S \in WaysFrom(t) : x \in S}
<1>1. t \in L
  BY DEF WaysFrom
<1>2. \A u \in L : Chain(u) \in Alias => Chain(u) \in L
  BY DEF WaysFrom
<1>3. PICK a \in L : Chain(a) \notin L
  BY <1>1, AliasFacts
<1>4. Chain(a) \in (Type \cup {Void}) \ Alias
  BY <1>2, <1>3, AliasFacts
<1>5. \E u \in (Type \cup {Void}) \ Alias : \A S \in WaysFrom(t) : \E b \in S : Chain(b) = u
  BY <1>3, <1>4
<1> QED
  BY <1>5, Zenon DEF get_concrete_type

(* A gathered type, or an equal of one, leads to gathered types only: the   *)
(* aliases that have an equal in the set are such a set, once the walk is   *)
(* over.                                                                    *)
EqualEdges(s, t) ==
  /\ Len(root.edges[s]) = Len(root.edges[t])
  /\ \A k \in 1..Len(root.edges[t]) :
       /\ root.edges[s][k].reason = root.edges[t][k].reason
       /\ root.edges[s][k].to = Void <=> root.edges[t][k].to = Void
       /\ root.edges[s][k].to # Void =>
            Class(root.edges[s][k].to) = Class(root.edges[t][k].to)

LEMMA EqualTypes ==
  ASSUME root \in Roots, NEW s \in Type, NEW t \in Type, Class(s) = Class(t)
  PROVE  EqualEdges(s, t)
BY AliasAssumption DEF Class, EqualEdges

LEMMA PartsOfGathered ==
  ASSUME root \in Roots, TypeOK, GathersReachable, status = "done",
         NEW t \in Type, Has(types, t),
         NEW k \in 1..Len(root.edges[t]), Followed(root.edges[t][k])
  PROVE  Has(types, root.edges[t][k].to)
<1>1. PICK s \in types : Class(s) = Class(t)
  BY DEF Has
<1>2. s \in Type
  BY <1>1 DEF TypeOK
<1>3. EqualEdges(s, t)
  BY <1>1, <1>2, EqualTypes
<1>4. /\ k \in DOMAIN root.edges[s]
      /\ Followed(root.edges[s][k])
      /\ Class(root.edges[s][k].to) = Class(root.edges[t][k].to)
  <2>1. DOMAIN root.edges[s] = 1..Len(root.edges[s])
    BY <1>2, EdgeTypes DEF TypeOK
  <2> QED
    BY <1>3, <2>1 DEF EqualEdges, Followed
<1>5. root.edges[s][k].to \in MadeOf(s)
  BY <1>4 DEF MadeOf, Range
<1>6. Has(types, root.edges[s][k].to)
  BY <1>1, <1>5 DEF GathersReachable
<1> QED
  BY <1>4, <1>6 DEF Has

LEMMA ConcreteGathered ==
  ASSUME root \in Roots, TypeOK, GathersReachable, status = "done",
         Void \notin Type, NEW t \in types
  PROVE  LET u == get_concrete_type(t)
         IN  u \in Type \cup {Void} /\ (u # Void => Has(types, u))
<1>0. t \in Type /\ Has(types, t)
  BY DEF TypeOK, Has
<1>1. CASE t \notin Alias
  BY <1>0, <1>1 DEF get_concrete_type
<1>2. CASE t \in Alias
  <2> DEFINE S == {a \in Alias : Has(types, a)}
  <2>1. ASSUME NEW a \in S, Chain(a) # Void
        PROVE  Has(types, Chain(a))
    <3>1. /\ a \in Type /\ Has(types, a)
          /\ Len(root.edges[a]) = 1 /\ root.edges[a][1].reason = "type"
      BY AliasFacts
    <3>2. 1 \in 1..Len(root.edges[a]) /\ Followed(root.edges[a][1])
      BY <2>1, <3>1 DEF Followed, Chain
    <3> QED
      BY <3>1, <3>2, PartsOfGathered DEF Chain
  <2>2. S \in WaysFrom(t)
    <3>1. \A a \in S : Chain(a) \in Alias => Chain(a) \in S
      BY <2>1, AliasFacts
    <3>2. t \in S /\ S \subseteq Alias
      BY <1>0, <1>2
    <3> QED
      BY <3>1, <3>2 DEF WaysFrom
  <2> HIDE DEF S
  <2>3. PICK a \in S : Chain(a) = get_concrete_type(t)
    BY <1>2, <2>2, ConcreteType
  <2>4. get_concrete_type(t) \in Type \cup {Void}
    BY <1>2, ConcreteType
  <2> QED
    BY <2>1, <2>3, <2>4
<1> QED
  BY <1>1, <1>2
-----------------------------------------------------------------------------
(* Looking a type up gives the member of the set, if there is one.          *)
LEMMA DedupMember ==
  ASSUME NEW t, t # Void, Has(types, t) \/ Has(types, Dedup(t))
  PROVE  Dedup(t) \in types
<1>1. Has(types, t)
  BY DEF Dedup
<1>2. Dedup(t) = CHOOSE s \in types : Class(s) = Class(t)
  BY <1>1 DEF Dedup
<1>3. \E s \in types : Class(s) = Class(t)
  BY <1>1 DEF Has
<1> QED
  BY <1>2, <1>3

LEMMA VoidIsNamedByNothing ==
  ASSUME root \in Roots
  PROVE  ~name_here(Void) /\ Void \notin Type /\ Dedup(Void) = Void
BY AliasAssumption, DieAssumption DEF name_here, Dedup

(* The reference to a type that has an equal in the set is to one of the    *)
(* set, by name or by offset.                                               *)
LEMMA ReferenceToGathered ==
  ASSUME root \in Roots, TypeOK, GathersReachable, status = "done",
         NEW t \in Type, Has(types, t)
  PROVE  Reference(t).to \in types
<1>1. Void \notin Type /\ ~name_here(Void) /\ Dedup(Void) = Void
  BY VoidIsNamedByNothing
<1>2. Dedup(t) \in types
  BY <1>1, DedupMember
<1>3. Concrete(t) = Void \/ Concrete(t) \in types
  <2> DEFINE u == get_concrete_type(Dedup(t))
  <2>1. u # Void => Has(types, u)
    BY <1>1, <1>2, ConcreteGathered
  <2>2. Concrete(t) = Dedup(u)
    BY DEF Concrete
  <2> HIDE DEF u
  <2>3. CASE u = Void
    BY <1>1, <2>2, <2>3
  <2>4. CASE u # Void
    BY <2>1, <2>2, <2>4, DedupMember
  <2> QED
    BY <2>3, <2>4
<1>4. CASE name_here(Concrete(t))
  <2>1. Reference(t).to = Concrete(t)
    BY <1>4 DEF Reference
  <2> QED
    BY <1>1, <1>3, <1>4, <2>1
<1>5. CASE ~name_here(Concrete(t)) /\ name_here(Dedup(t))
  <2>1. Reference(t).to = Dedup(t)
    BY <1>5 DEF Reference
  <2> QED
    BY <1>2, <2>1
<1>6. CASE ~name_here(Concrete(t)) /\ ~name_here(Dedup(t))
  <2>1. Reference(t).to = IF Concrete(t) = Void THEN Dedup(t) ELSE Concrete(t)
    BY <1>6 DEF Reference
  <2> QED
    BY <1>2, <1>3, <2>1
<1> QED
  BY <1>4, <1>5, <1>6

(* A reference by offset without a warning is to a gathered type.           *)
LEMMA OffsetGathered ==
  ASSUME root \in Roots, TypeOK, GathersReachable, status = "done",
         NEW t \in Type, Reference(t).by = "offset", ~Reference(t).warning
  PROVE  Reference(t).to \in types
<1>1. CASE Has(types, t)
  BY <1>1, ReferenceToGathered
<1>2. CASE ~Has(types, t)
  <2>1. Dedup(t) = t
    BY <1>2 DEF Dedup
  <2>2. ~name_here(Concrete(t)) /\ ~name_here(Dedup(t))
    BY DEF Reference
  <2>3. Reference(t) =
          [by |-> "offset", to |-> IF Concrete(t) = Void THEN Dedup(t) ELSE Concrete(t),
           warning |-> ~Has(types, Dedup(t))
                         /\ (Concrete(t) = Void \/ ~Has(types, Concrete(t)))]
    BY <2>2 DEF Reference
  <2> DEFINE unknown == ~Has(types, Dedup(t))
                          /\ (Concrete(t) = Void \/ ~Has(types, Concrete(t)))
             called == IF Concrete(t) = Void THEN Dedup(t) ELSE Concrete(t)
  <2>4. Reference(t) = [by |-> "offset", to |-> called, warning |-> unknown]
    BY <2>3
  <2> HIDE DEF unknown, called
  <2>5. Reference(t).warning = unknown /\ Reference(t).to = called
    BY <2>4
  <2>6. Concrete(t) # Void /\ Has(types, Concrete(t))
    BY <1>2, <2>1, <2>5, Zenon DEF unknown
  <2>7. Concrete(t) \in types
    <3> DEFINE u == get_concrete_type(Dedup(t))
    <3>1. Concrete(t) = Dedup(u)
      BY DEF Concrete
    <3> HIDE DEF u
    <3>2. u # Void
      BY <2>6, <3>1, VoidIsNamedByNothing
    <3> QED
      BY <2>6, <3>1, <3>2, DedupMember
  <2> QED
    BY <2>5, <2>6, <2>7 DEF called
<1> QED
  BY <1>1, <1>2

(* A variable refers to the type it has.                                    *)
LEMMA TypeOfVariable ==
  ASSUME NEW d \in Variable, NEW y \in TypesOf(d)
  PROVE  y.t = root.get_type[d]
<1> DEFINE own == [to |-> root.get_type[d], reason |-> "type"]
<1>0. d \notin Type
  BY DieAssumption
<1>1. TypesOf(d) = {[t |-> e.to, followed |-> Followed(e)] : e \in {own}}
  BY <1>0 DEF TypesOf
<1>2. PICK e \in {own} : y = [t |-> e.to, followed |-> Followed(e)]
  BY <1>1, Zenon
<1>3. y.t = e.to
  BY <1>2, Zenon
<1> QED
  BY <1>3

(* What a DIE of the output refers to on its own lines has been gathered.   *)
LEMMA OwnTypesGathered ==
  ASSUME root \in Roots, TypeOK, Printed, GathersReachable, status = "done",
         NEW d \in out, NEW y \in TypesOf(d), y.t # Void, y.followed
  PROVE  Has(types, y.t)
<1>1. Root(root) /\ Variable \cap Type = {}
  BY RootsAssumption, DieAssumption
<1>2. CASE d \in Variable
  <2>1. y.t = root.get_type[d]
    BY <1>2, TypeOfVariable
  <2>2. d \in Selected
    BY <1>1, <1>2 DEF Printed, TypeOK
  <2>3. y.t \in RootTypes
    BY <1>2, <2>1, <2>2 DEF RootTypes
  <2> QED
    BY <2>3 DEF GathersReachable
<1>3. CASE d \notin Variable /\ d \in Type \ root.implicit
  <2>1. PICK e \in Range(root.edges[d]) : y = [t |-> e.to, followed |-> Followed(e)]
    BY <1>3 DEF TypesOf
  <2>2. PICK k \in 1..Len(root.edges[d]) : e = root.edges[d][k]
    BY <1>1, <1>3, <2>1, EdgeTypes DEF Range
  <2>3. Followed(e) /\ y.t = e.to
    BY <2>1
  <2>4. Has(types, d)
    BY <1>3 DEF Printed, GathersReachable, RootTypes, Has
  <2> QED
    BY <1>3, <2>2, <2>3, <2>4, PartsOfGathered
<1>4. CASE d \notin Variable /\ d \notin Type \ root.implicit
  BY <1>4 DEF TypesOf
<1> QED
  BY <1>2, <1>3, <1>4

LEMMA TypesReferred ==
  ASSUME Root(root), NEW d, NEW y \in TypesOf(d), y.t # Void
  PROVE  y.t \in Type
<1>1. CASE d \in Variable
  BY <1>1, TypeOfVariable DEF Root
<1>2. CASE d \notin Variable /\ d \in Type \ root.implicit
  <2>1. PICK e \in Range(root.edges[d]) : y.t = e.to
    BY <1>2 DEF TypesOf
  <2>2. e \in Edge
    BY <1>2, <2>1, EdgeTypes DEF Range
  <2> QED
    BY <2>1, <2>2 DEF Edge
<1>3. CASE d \notin Variable /\ d \notin Type \ root.implicit
  BY <1>3 DEF TypesOf
<1> QED
  BY <1>1, <1>2, <1>3
-----------------------------------------------------------------------------
(* What a line says of a type: what comes after the colon, or an attribute. *)
LEMMA KindsOfReference ==
  ASSUME NEW t
  PROVE  Reference(t).by # "attribute"
<1>1. CASE name_here(Concrete(t))
  BY <1>1 DEF Reference
<1>2. CASE ~name_here(Concrete(t)) /\ name_here(Dedup(t))
  BY <1>2 DEF Reference
<1>3. CASE ~name_here(Concrete(t)) /\ ~name_here(Dedup(t))
  <2> DEFINE unknown == ~Has(types, Dedup(t))
                          /\ (Concrete(t) = Void \/ ~Has(types, Concrete(t)))
             called == IF Concrete(t) = Void THEN Dedup(t) ELSE Concrete(t)
  <2>1. Reference(t) = [by |-> "offset", to |-> called, warning |-> unknown]
    BY <1>3 DEF Reference
  <2> HIDE DEF unknown, called
  <2> QED
    BY <2>1
<1> QED
  BY <1>1, <1>2, <1>3

LEMMA LineSays ==
  ASSUME NEW c, NEW x \in LinesOf(c)
  PROVE  \/ \E y \in TypesOf(c) :
              /\ y.t # Void
              /\ x.die = c /\ x.followed = y.followed
              /\ x.ref = Reference(y.t) \/ x.ref = Verbatim(y.t)
         \/ x.followed = FALSE /\ \E u \in root.other_refs[c] : x.ref = Verbatim(u)
<1> DEFINE own == UNION {{[die |-> c, followed |-> y.followed, ref |-> ref] :
                            ref \in References(c, y.t)} :
                           y \in {z \in TypesOf(c) : z.t # Void}}
           others == {[die |-> c, followed |-> FALSE, ref |-> Verbatim(u)] :
                        u \in root.other_refs[c]}
<1>1. x \in own \/ x \in others
  BY DEF LinesOf
<1>2. CASE x \in own
  <2>1. PICK y \in TypesOf(c) :
          /\ y.t # Void
          /\ x \in {[die |-> c, followed |-> y.followed, ref |-> ref] :
                      ref \in References(c, y.t)}
    BY <1>2, Zenon
  <2>2. PICK ref \in References(c, y.t) : x = [die |-> c, followed |-> y.followed, ref |-> ref]
    BY <2>1, Zenon
  <2>3. x.die = c /\ x.followed = y.followed /\ x.ref = ref
    BY <2>2, Zenon
  <2>4. References(c, y.t) \subseteq {Reference(y.t), Verbatim(y.t)}
    BY DEF References
  <2> QED
    BY <2>1, <2>3, <2>4
<1>3. CASE x \in others
  <2>1. PICK u \in root.other_refs[c] : x = [die |-> c, followed |-> FALSE, ref |-> Verbatim(u)]
    BY <1>3, Zenon
  <2>2. x.followed = FALSE /\ x.ref = Verbatim(u)
    BY <2>1, Zenon
  <2> QED
    BY <2>2
<1> QED
  BY <1>1, <1>2, <1>3

(* What a gathered DIE is made of is in the text: what comes after a colon  *)
(* is a gathered type's, and of what an attribute refers to an equal is     *)
(* printed, however the types were looked up on the way.  An offset after a *)
(* colon is that of a DIE printed too, or there has been a warning.         *)
THEOREM TextIsClosed == Spec => []PrintedReferencesGathered
<1>1. IInv /\ Printed => PrintedReferencesGathered
  <2> SUFFICES ASSUME IInv, Printed, status = "done", NEW x \in print_dies
               PROVE  /\ x.ref.by = "offset" => x.ref.to \in out \/ x.ref.warning
                      /\ x.followed /\ x.die \in out =>
                           IF x.ref.by = "attribute" THEN Has(out \cap Type, x.ref.to)
                           ELSE x.ref.to \in out
    BY DEF PrintedReferencesGathered
  <2>1. /\ TypeOK /\ GathersReachable /\ root \in Roots
        /\ Root(root) /\ types \subseteq out /\ types \subseteq Type
    BY AtTheEnd DEF IInv, TypeOK, Printed
  <2>2. PICK d \in out : x \in print_type_die(d)
    BY DEF print_dies
  <2>3. PICK c \in PrintedWithin(d) : x \in LinesOf(c)
    BY <2>2, Zenon DEF print_type_die
  <2>4. CASE x.followed = FALSE /\ \E u \in root.other_refs[c] : x.ref = Verbatim(u)
    <3>1. x.ref.by = "attribute"
      BY <2>4 DEF Verbatim
    <3> QED
      BY <2>4, <3>1
  <2>5. ASSUME NEW y \in TypesOf(c),
               y.t # Void, x.die = c, x.followed = y.followed,
               x.ref = Reference(y.t) \/ x.ref = Verbatim(y.t)
        PROVE  /\ x.ref.by = "offset" => x.ref.to \in out \/ x.ref.warning
               /\ x.followed /\ x.die \in out =>
                    IF x.ref.by = "attribute" THEN Has(out \cap Type, x.ref.to)
                    ELSE x.ref.to \in out
    <3>1. y.t \in Type
      BY <2>1, <2>5, TypesReferred
    <3>2. x.followed /\ x.die \in out => Has(types, y.t)
      BY <2>1, <2>5, OwnTypesGathered
    <3>3. CASE x.ref = Verbatim(y.t)
      <4>1. x.ref.by = "attribute" /\ x.ref.to = y.t
        BY <3>3 DEF Verbatim
      <4> QED
        BY <2>1, <3>2, <4>1 DEF Has
    <3>4. CASE x.ref = Reference(y.t)
      <4>1. x.ref.by # "attribute"
        BY <3>4, KindsOfReference
      <4>2. ASSUME x.ref.by = "offset", ~x.ref.warning PROVE x.ref.to \in out
        BY <2>1, <3>1, <3>4, <4>2, OffsetGathered
      <4>3. ASSUME x.followed, x.die \in out PROVE x.ref.to \in out
        BY <2>1, <3>1, <3>2, <3>4, <4>3, ReferenceToGathered
      <4> QED
        BY <4>1, <4>2, <4>3
    <3> QED
      BY <2>5, <3>3, <3>4
  <2> QED
    BY <2>3, <2>4, <2>5, LineSays
<1>2. Spec => []Printed
  <2>1. IInv /\ Printed /\ [Next]_vars => Printed'
    BY NextPrinted
  <2> QED
    BY <2>1, InitPrinted, Invariance, PTL DEF Spec
<1> QED
  BY <1>1, <1>2, Invariance, PTL
==============================================================================
