---------------------- MODULE DependencyClosureProofs ----------------------
(***************************************************************************)
(* Proofs about transitively_close, for every set of DIEs, every type      *)
(* equality and every generator.                                           *)
(***************************************************************************)
EXTENDS DependencyClosure, TLAPS

(* Whatever was asked for and followed is on its way.                       *)
ReferencesExpanded ==
  \A p \in output_expanded : \A r \in Made(p) : \A t \in Follows(r) :
    KeyOf(t) \in Keys(output_expanded)

OutputExpanded ==
  \A el \in given_job.to_output \ to_add : KeyOf(el) \in Keys(output_expanded)

PhaseInvariant ==
  /\ phase = "adding" => m_output_fragments = {} /\ m_order_constraints = {}
  /\ phase # "adding" => to_add = {}
  /\ phase \in {"closed", "assertion failed"} => worklist = <<>>
  /\ phase = "closed" => Emissible

IInv == /\ TypeOK
        /\ WorklistExact
        /\ ConstraintsExact
        /\ ReferencesExpanded
        /\ OutputExpanded
        /\ PhaseInvariant
-----------------------------------------------------------------------------
(* Sequences: what a push and an erase at the front do to the elements.     *)
NoRepeats(s) == \A i, j \in DOMAIN s : s[i] = s[j] => i = j

LEMMA AppendElements ==
  ASSUME NEW S, NEW s \in Seq(S), NEW e
  PROVE  /\ Append(s, e) \in Seq(S \cup {e})
         /\ Range(Append(s, e)) = Range(s) \cup {e}
         /\ NoRepeats(s) /\ e \notin Range(s) => NoRepeats(Append(s, e))
         /\ Append(s, e) # <<>>
         /\ s # <<>> => Head(Append(s, e)) = Head(s)
<1>1. /\ Len(s) \in Nat /\ DOMAIN s = 1..Len(s)
      /\ Append(s, e) \in Seq(S \cup {e})
      /\ Len(Append(s, e)) = Len(s) + 1
      /\ DOMAIN Append(s, e) = 1..(Len(s) + 1)
      /\ \A i \in 1..Len(s) : Append(s, e)[i] = s[i]
      /\ Append(s, e)[Len(s) + 1] = e
  OBVIOUS
<1>2. \A i \in 1..(Len(s) + 1) : i \in 1..Len(s) \/ i = Len(s) + 1
  BY <1>1
<1>3. \A i \in 1..Len(s) : i \in 1..(Len(s) + 1)
  BY <1>1
<1>4. Len(s) + 1 \in 1..(Len(s) + 1)
  BY <1>1
<1>5. Range(Append(s, e)) = Range(s) \cup {e}
  BY <1>1, <1>2, <1>3, <1>4 DEF Range
<1>6. NoRepeats(s) /\ e \notin Range(s) => NoRepeats(Append(s, e))
  BY <1>1, <1>2 DEF Range, NoRepeats
<1>7. Append(s, e) # <<>> /\ (s # <<>> => Head(Append(s, e)) = Head(s))
  BY <1>1
<1> QED
  BY <1>1, <1>5, <1>6, <1>7

LEMMA TailElements ==
  ASSUME NEW S, NEW s \in Seq(S), s # <<>>, NoRepeats(s)
  PROVE  /\ Head(s) \in Range(s)
         /\ Tail(s) \in Seq(S)
         /\ Range(Tail(s)) = Range(s) \ {Head(s)}
         /\ NoRepeats(Tail(s))
<1>1. /\ Len(s) \in Nat \ {0} /\ DOMAIN s = 1..Len(s)
      /\ Head(s) = s[1]
      /\ Tail(s) \in Seq(S)
      /\ Len(Tail(s)) = Len(s) - 1
      /\ DOMAIN Tail(s) = 1..(Len(s) - 1)
      /\ \A i \in 1..(Len(s) - 1) : Tail(s)[i] = s[i + 1]
  OBVIOUS
<1>2. \A i \in 1..(Len(s) - 1) : i + 1 \in 1..Len(s) /\ i + 1 # 1
  BY <1>1
<1>3. \A i \in 1..Len(s) : i # 1 => i - 1 \in 1..(Len(s) - 1) /\ (i - 1) + 1 = i
  BY <1>1
<1>4. 1 \in 1..Len(s)
  BY <1>1
<1>5. Range(Tail(s)) \subseteq Range(s) \ {Head(s)}
  BY <1>1, <1>2, <1>4 DEF Range, NoRepeats
<1>6. Range(s) \ {Head(s)} \subseteq Range(Tail(s))
  <2> SUFFICES ASSUME NEW i \in 1..Len(s), s[i] # s[1] PROVE s[i] \in Range(Tail(s))
    BY <1>1 DEF Range
  <2>1. i - 1 \in 1..(Len(s) - 1) /\ (i - 1) + 1 = i
    BY <1>3
  <2>2. Tail(s)[i - 1] = s[i]
    BY <1>1, <2>1
  <2> QED
    BY <1>1, <2>1, <2>2 DEF Range
<1>7. NoRepeats(Tail(s))
  <2> SUFFICES ASSUME NEW i \in 1..(Len(s) - 1), NEW j \in 1..(Len(s) - 1),
                      s[i + 1] = s[j + 1]
               PROVE  i = j
    BY <1>1 DEF NoRepeats
  <2>1. i + 1 = j + 1
    BY <1>1, <1>2 DEF NoRepeats
  <2> QED
    BY <2>1
<1> QED
  BY <1>1, <1>4, <1>5, <1>6, <1>7 DEF Range

LEMMA DeclDefPairs ==
  /\ \A d \in Die : Decl(d) \in Pair /\ Def(d) \in Pair
  BY DEF Decl, Def, Pair, emit_kind

(* What a request depends on are pairs, and it follows no others.           *)
LEMMA DependsOnPairs ==
  ASSUME NEW r \in Request
  PROVE  DependsOn(r) \subseteq Pair /\ Follows(r) \subseteq DependsOn(r)
<1>1. r.die \in Die
  BY DEF Request
<1>2. r.die \in TypeDie => ConcreteType[r.die] \in Die
  BY DieAssumption
<1>3. DependsOn(r) \subseteq Pair
  BY <1>1, <1>2, DeclDefPairs DEF DependsOn, Request, ref_kind
<1>4. Follows(r) \subseteq DependsOn(r)
  BY DEF Follows, DependsOn, Indirect
<1> QED
  BY <1>3, <1>4

(* maybe_add_to_worklist: the key is expanded afterwards, and an element    *)
(* that comes anew waits on the worklist behind the others.                 *)
LEMMA AddToWorklist ==
  ASSUME TypeOK, WorklistExact, NEW el \in Pair, maybe_add_to_worklist(el),
         UNCHANGED m_output_fragments
  PROVE  /\ WorklistExact'
         /\ output_expanded \subseteq output_expanded'
         /\ output_expanded' \subseteq output_expanded \cup {el}
         /\ output_expanded' \subseteq Pair
         /\ worklist' \in Seq(output_expanded')
         /\ Keys(output_expanded) \cup {KeyOf(el)} \subseteq Keys(output_expanded')
         /\ worklist # <<>> => worklist' # <<>> /\ Head(worklist') = Head(worklist)
<1>1. CASE KeyOf(el) \in Keys(output_expanded)
  BY <1>1 DEF maybe_add_to_worklist, TypeOK, WorklistExact
<1>2. CASE KeyOf(el) \notin Keys(output_expanded)
  <2>1. /\ output_expanded' = output_expanded \cup {el}
        /\ worklist' = Append(worklist, el)
    BY <1>2 DEF maybe_add_to_worklist
  <2>2. el \notin output_expanded
    BY <1>2 DEF Keys
  <2>3. worklist \in Seq(output_expanded)
    BY DEF TypeOK
  <2>4. NoRepeats(worklist) /\ el \notin Range(worklist)
    BY <2>2 DEF WorklistExact, NoRepeats
  <2>5. /\ Range(worklist') = Range(worklist) \cup {el}
        /\ NoRepeats(worklist')
        /\ worklist' \in Seq(output_expanded')
        /\ worklist # <<>> => worklist' # <<>> /\ Head(worklist') = Head(worklist)
    BY <2>1, <2>3, <2>4, AppendElements
  <2>6. OnePerKey(output_expanded')
    BY <1>2, <2>1 DEF WorklistExact, OnePerKey, Keys
  <2>7. WorklistExact'
    BY <2>1, <2>2, <2>5, <2>6 DEF WorklistExact, NoRepeats
  <2>8. Keys(output_expanded') = Keys(output_expanded) \cup {KeyOf(el)}
    BY <2>1 DEF Keys
  <2> QED
    BY <2>1, <2>5, <2>7, <2>8 DEF TypeOK
<1> QED
  BY <1>1, <1>2
-----------------------------------------------------------------------------
(* The pair being generated is the front of the worklist.                   *)
LEMMA CurrentWaits ==
  ASSUME IInv, phase = "generating"
  PROVE  /\ worklist # <<>> /\ current = Head(worklist)
         /\ current \in Range(worklist)
         /\ current \in output_expanded
         /\ current \notin m_output_fragments
         /\ requests \in Seq(Request)
<1>1. worklist # <<>> /\ current = Head(worklist) /\ worklist \in Seq(output_expanded)
  BY DEF IInv, TypeOK
<1>2. current \in Range(worklist)
  BY <1>1, TailElements DEF IInv, WorklistExact, NoRepeats
<1>3. requests \in Seq(Request)
  BY DEF IInv, TypeOK, ClosureJob, requests
<1> QED
  BY <1>1, <1>2, <1>3 DEF IInv, WorklistExact

(* Only what is expanded has asked for anything.                            *)
LEMMA MadeByExpanded ==
  ASSUME IInv, NEW p, p \notin output_expanded
  PROVE  Made(p) = {}
<1>1. p \notin m_output_fragments
  BY DEF IInv, TypeOK
<1>2. phase \in {"generating", "aborted"} => current \in output_expanded
  <2> SUFFICES ASSUME phase \in {"generating", "aborted"}
               PROVE  current \in output_expanded
    OBVIOUS
  <2>1. worklist # <<>> /\ current = Head(worklist) /\ worklist \in Seq(output_expanded)
    BY DEF IInv, TypeOK
  <2> QED
    BY <2>1
<1> QED
  BY <1>1, <1>2 DEF Made

(* A request adds itself to what the current pair has asked for.            *)
LEMMA MadeGrows ==
  ASSUME IInv, phase = "generating", asked < Len(requests), asked' = asked + 1,
         Unchanged_maybe_get_name,
         phase' \in {"generating", "aborted"}
  PROVE  /\ UNCHANGED <<given_job, to_add, current_pair_transitively_closing_from,
                        current, m_output_fragments, requests>>
         /\ request \in Request
         /\ asked + 1 \in 0..Len(requests)
         /\ \A p : Made(p)' = IF p = current THEN Made(p) \cup {request} ELSE Made(p)
<1>1. UNCHANGED <<given_job, to_add, current_pair_transitively_closing_from,
                  current, m_output_fragments, requests>>
  BY DEF Unchanged_maybe_get_name, requests, current
<1>2. /\ request \in Request
      /\ asked \in Nat
      /\ Len(requests) \in Nat
      /\ asked + 1 \in 0..Len(requests)
  BY CurrentWaits DEF IInv, TypeOK, request
<1>3. current \notin m_output_fragments
  BY CurrentWaits
<1>4. {requests[i] : i \in 1..(asked + 1)} = {requests[i] : i \in 1..asked} \cup {request}
  <2>1. \A i \in 1..(asked + 1) : i \in 1..asked \/ i = asked + 1
    BY <1>2
  <2>2. \A i \in 1..asked : i \in 1..(asked + 1)
    BY <1>2
  <2>3. asked + 1 \in 1..(asked + 1)
    BY <1>2
  <2> QED
    BY <2>1, <2>2, <2>3 DEF request
<1>5. ASSUME NEW p, p = current PROVE Made(p) = {requests[i] : i \in 1..asked}
  BY <1>3, <1>5 DEF Made, requests
<1>6. ASSUME NEW p, p = current PROVE Made(p)' = {requests[i] : i \in 1..(asked + 1)}
  BY <1>1, <1>3, <1>6 DEF Made, requests
<1>7. ASSUME NEW p, p # current PROVE Made(p)' = Made(p)
  BY <1>1, <1>7 DEF Made
<1> QED
  BY <1>1, <1>2, <1>4, <1>5, <1>6, <1>7

(* One call of maybe_get_name, whatever its outcome: the constraints grow   *)
(* by the current pair's on what the request depends on, and the one pair   *)
(* it follows, if any, is offered to the worklist.                          *)
LEMMA RequestStep ==
  ASSUME IInv, phase = "generating", asked < Len(requests), asked' = asked + 1,
         Unchanged_maybe_get_name,
         phase' \in {"generating", "aborted"},
         m_order_constraints' =
           m_order_constraints \cup {<<current, t>> : t \in DependsOn(request)},
         \/ Follows(request) = {} /\ UNCHANGED <<output_expanded, worklist>>
         \/ \E el \in Pair : Follows(request) = {el} /\ maybe_add_to_worklist(el)
  PROVE  IInv'
<1>1. UNCHANGED <<given_job, to_add, current_pair_transitively_closing_from,
                  current, m_output_fragments, requests>>
  BY MadeGrows
<1>2. request \in Request /\ asked + 1 \in 0..Len(requests)
  BY MadeGrows
<1>3. /\ WorklistExact'
      /\ output_expanded \subseteq output_expanded'
      /\ output_expanded' \subseteq Pair
      /\ worklist' \in Seq(output_expanded')
      /\ Keys(output_expanded) \subseteq Keys(output_expanded')
      /\ \A el \in Follows(request) : KeyOf(el) \in Keys(output_expanded')
      /\ worklist' # <<>> /\ Head(worklist') = Head(worklist)
  <2>1. CASE Follows(request) = {} /\ UNCHANGED <<output_expanded, worklist>>
    BY <1>1, <2>1, CurrentWaits DEF IInv, TypeOK, WorklistExact
  <2>2. ASSUME NEW el \in Pair, Follows(request) = {el}, maybe_add_to_worklist(el)
        PROVE  <1>3!:
    BY <1>1, <2>2, AddToWorklist, CurrentWaits DEF IInv
  <2> QED
    BY <2>1, <2>2
<1>4. \A p : Made(p)' = IF p = current THEN Made(p) \cup {request} ELSE Made(p)
  BY MadeGrows
<1>5. ConstraintsExact'
  <2> DEFINE Exact == {c \in output_expanded' \X Pair :
                         \E r \in Made(c[1])' : c[2] \in DependsOn(r)}
  <2>1. ASSUME NEW c \in m_order_constraints' PROVE c \in Exact
    <3>1. CASE c \in m_order_constraints
      BY <3>1, <1>3, <1>4 DEF IInv, ConstraintsExact
    <3>2. ASSUME NEW t \in DependsOn(request), c = <<current, t>> PROVE c \in Exact
      <4>1. current \in output_expanded' /\ t \in Pair
        BY <1>2, <1>3, CurrentWaits, DependsOnPairs
      <4>2. c[1] = current /\ c[2] = t
        BY <3>2
      <4>3. request \in Made(c[1])'
        BY <1>4, <4>2
      <4> QED
        BY <3>2, <4>1, <4>2, <4>3
    <3> QED
      BY <3>1, <3>2, <2>1
  <2>2. ASSUME NEW c \in Exact PROVE c \in m_order_constraints'
    <3>1. PICK r \in Made(c[1])' : c[2] \in DependsOn(r)
      OBVIOUS
    <3>2. c = <<c[1], c[2]>> /\ c[2] \in Pair
      OBVIOUS
    <3>3. CASE r \in Made(c[1])
      <4>1. c[1] \in output_expanded
        BY <3>3, MadeByExpanded
      <4>2. c \in m_order_constraints
        BY <3>1, <3>2, <3>3, <4>1 DEF IInv, ConstraintsExact
      <4> QED
        BY <4>2
    <3>4. CASE c[1] = current /\ r = request
      BY <3>1, <3>2, <3>4
    <3> QED
      BY <3>1, <3>3, <3>4, <1>4
  <2> QED
    BY <2>1, <2>2 DEF ConstraintsExact
<1>6. ReferencesExpanded'
  <2> SUFFICES ASSUME NEW p \in output_expanded', NEW r \in Made(p)',
                      NEW t \in Follows(r)
               PROVE  KeyOf(t) \in Keys(output_expanded')
    BY DEF ReferencesExpanded
  <2>1. CASE r \in Made(p)
    BY <2>1, <1>3, MadeByExpanded DEF IInv, ReferencesExpanded
  <2>2. CASE r = request
    BY <2>2, <1>3
  <2> QED
    BY <1>4, <2>1, <2>2
<1>7. m_order_constraints' \subseteq output_expanded' \X Pair
  BY <1>5 DEF ConstraintsExact
<1>8. m_output_fragments' \subseteq output_expanded'
  BY <1>1, <1>3 DEF IInv, TypeOK
<1>9. TypeOK'
  BY <1>1, <1>2, <1>3, <1>7, <1>8, CurrentWaits DEF IInv, TypeOK, Ended, current
<1>10. OutputExpanded'
  BY <1>1, <1>3 DEF IInv, OutputExpanded
<1>11. PhaseInvariant'
  BY <1>1 DEF IInv, PhaseInvariant
<1> QED
  BY <1>3, <1>5, <1>6, <1>9, <1>10, <1>11 DEF IInv

(* The five outcomes of maybe_get_name are such calls.                      *)
LEMMA MaybeGetNameEffect ==
  ASSUME IInv,
         NameOnly \/ NameNormal \/ NameComplete \/ NameCompleteIndirect
           \/ NameCompleteOfNoType
  PROVE  /\ phase = "generating" /\ asked < Len(requests) /\ asked' = asked + 1
         /\ Unchanged_maybe_get_name
         /\ phase' \in {"generating", "aborted"}
         /\ m_order_constraints' =
              m_order_constraints \cup {<<current, t>> : t \in DependsOn(request)}
         /\ \/ Follows(request) = {} /\ UNCHANGED <<output_expanded, worklist>>
            \/ \E el \in Pair : Follows(request) = {el} /\ maybe_add_to_worklist(el)
<1> DEFINE d == request.die
           Booked == m_order_constraints' =
             m_order_constraints \cup {<<current, t>> : t \in DependsOn(request)}
<1>1. /\ phase = "generating" /\ asked < Len(requests) /\ asked' = asked + 1
      /\ phase' \in {"generating", "aborted"}
      /\ Unchanged_maybe_get_name
  BY DEF NameOnly, NameNormal, NameComplete, NameCompleteIndirect,
         NameCompleteOfNoType, Asks, Aborting, Unchanged_maybe_get_name
<1>2. request \in Request /\ d \in Die
  <2>1. requests \in Seq(Request) /\ asked \in Nat
    BY <1>1, CurrentWaits DEF IInv, TypeOK
  <2>2. request \in Request
    BY <1>1, <2>1 DEF request
  <2> QED
    BY <2>2 DEF Request
<1>3. CASE NameOnly \/ NameCompleteOfNoType
  <2>1. DependsOn(request) = {}
    BY <1>3 DEF NameOnly, NameCompleteOfNoType, Asks, DependsOn
  <2>2. Follows(request) = {}
    BY <2>1 DEF Follows
  <2>3. Booked /\ UNCHANGED <<output_expanded, worklist>>
    BY <1>3, <2>1 DEF NameOnly, NameCompleteOfNoType, Aborting
  <2> HIDE DEF d
  <2> QED
    BY <1>1, <2>2, <2>3
<1>4. CASE NameNormal
  <2>1. DependsOn(request) = {Decl(d)} /\ Follows(request) = {Decl(d)}
    BY <1>4 DEF NameNormal, Asks, DependsOn, Follows, Indirect
  <2>2. Booked /\ maybe_add_to_worklist(Decl(d)) /\ Decl(d) \in Pair
    BY <1>2, <1>4, <2>1, DeclDefPairs DEF NameNormal
  <2> HIDE DEF d
  <2> QED
    BY <1>1, <2>1, <2>2
<1>5. CASE NameComplete
  <2>1. DependsOn(request) = {Def(d)} /\ Follows(request) = {Def(d)}
    BY <1>5 DEF NameComplete, Asks, DependsOn, Follows, Indirect
  <2>2. Booked /\ maybe_add_to_worklist(Def(d)) /\ Def(d) \in Pair
    BY <1>2, <1>5, <2>1, DeclDefPairs DEF NameComplete
  <2> HIDE DEF d
  <2> QED
    BY <1>1, <2>1, <2>2
<1>6. CASE NameCompleteIndirect
  <2>1. /\ DependsOn(request) = {Decl(d), Def(ConcreteType[d])}
        /\ Follows(request) = {Decl(d)}
    BY <1>6 DEF NameCompleteIndirect, Asks, DependsOn, Follows, Indirect
  <2>2. Booked /\ maybe_add_to_worklist(Decl(d)) /\ Decl(d) \in Pair
    BY <1>2, <1>6, <2>1, DeclDefPairs DEF NameCompleteIndirect
  <2> HIDE DEF d
  <2> QED
    BY <1>1, <2>1, <2>2
<1> QED
  BY <1>3, <1>4, <1>5, <1>6

LEMMA MaybeGetNameStep ==
  ASSUME IInv,
         NameOnly \/ NameNormal \/ NameComplete \/ NameCompleteIndirect
           \/ NameCompleteOfNoType
  PROVE  IInv'
  BY MaybeGetNameEffect, RequestStep

(* The steps that end a fragment or the call ask for nothing.               *)
LEMMA EndFragmentStep == ASSUME IInv, EndFragment PROVE IInv'
<1>1. /\ UNCHANGED <<given_job, to_add, output_expanded, current, asked,
                     m_order_constraints, requests>>
      /\ phase = "generating" /\ phase' = "closing"
      /\ asked = Len(requests)
      /\ m_output_fragments' = m_output_fragments \cup {current}
      /\ worklist' = Tail(worklist)
  BY DEF EndFragment, current, requests
<1>2. /\ worklist # <<>> /\ current = Head(worklist)
      /\ current \in Range(worklist) /\ current \in output_expanded
      /\ current \notin m_output_fragments
  BY <1>1, CurrentWaits
<1>3. /\ Tail(worklist) \in Seq(output_expanded)
      /\ Range(Tail(worklist)) = Range(worklist) \ {Head(worklist)}
      /\ NoRepeats(Tail(worklist))
  BY <1>2, TailElements DEF IInv, TypeOK, WorklistExact, NoRepeats
<1>4. \A p : Made(p)' = Made(p)
  BY <1>1, <1>2 DEF Made, requests
<1>5. TypeOK'
  BY <1>1, <1>2, <1>3 DEF IInv, TypeOK
<1>6. WorklistExact'
  BY <1>1, <1>2, <1>3 DEF IInv, WorklistExact, NoRepeats
<1>7. ConstraintsExact' /\ ReferencesExpanded'
  BY <1>1, <1>4 DEF IInv, ConstraintsExact, ReferencesExpanded
<1>8. OutputExpanded' /\ PhaseInvariant'
  BY <1>1 DEF IInv, OutputExpanded, PhaseInvariant
<1> QED
  BY <1>5, <1>6, <1>7, <1>8 DEF IInv

LEMMA AddOutputStep == ASSUME IInv, NEW el \in to_add, AddOutput(el) PROVE IInv'
<1>1. /\ UNCHANGED <<given_job, current, asked, m_order_constraints,
                     m_output_fragments, phase, requests>>
      /\ phase = "adding"
      /\ to_add' = to_add \ {el}
      /\ maybe_add_to_worklist(el)
  BY DEF AddOutput, current, requests
<1>2. el \in Pair /\ to_add' \subseteq given_job.to_output
  BY <1>1 DEF IInv, TypeOK, ClosureJob
<1>3. /\ WorklistExact'
      /\ output_expanded \subseteq output_expanded'
      /\ output_expanded' \subseteq Pair
      /\ worklist' \in Seq(output_expanded')
      /\ Keys(output_expanded) \cup {KeyOf(el)} \subseteq Keys(output_expanded')
  BY <1>1, <1>2, AddToWorklist DEF IInv
<1>4. \A p : Made(p) = {} /\ Made(p)' = {}
  BY <1>1 DEF IInv, PhaseInvariant, Made
<1>5. TypeOK'
  BY <1>1, <1>2, <1>3 DEF IInv, TypeOK, PhaseInvariant, Ended
<1>6. ConstraintsExact' /\ ReferencesExpanded'
  BY <1>1, <1>4 DEF IInv, PhaseInvariant, ConstraintsExact, ReferencesExpanded
<1>7. OutputExpanded'
  BY <1>1, <1>3 DEF IInv, OutputExpanded
<1>8. PhaseInvariant'
  BY <1>1 DEF IInv, PhaseInvariant
<1> QED
  BY <1>3, <1>5, <1>6, <1>7, <1>8 DEF IInv

LEMMA BeginFragmentStep == ASSUME IInv, BeginFragment PROVE IInv'
<1>1. /\ UNCHANGED <<given_job, to_add, output_expanded, worklist,
                     m_order_constraints, m_output_fragments>>
      /\ phase \in {"adding", "closing"} /\ phase' = "generating"
      /\ worklist # <<>>
      /\ current' = Head(worklist) /\ asked' = 0
      /\ to_add = {}
  BY DEF BeginFragment, current, IInv, PhaseInvariant
<1>2. current' \in output_expanded
  BY <1>1 DEF IInv, TypeOK
<1>3. requests' \in Seq(Request)
  BY <1>1, <1>2 DEF IInv, TypeOK, ClosureJob, requests
<1>4. current' \notin m_output_fragments
  BY <1>1, TailElements DEF IInv, TypeOK, WorklistExact, NoRepeats
<1>5. \A p : Made(p)' = Made(p)
  <2>1. \A p : p \notin m_output_fragments => Made(p) = {}
    BY <1>1 DEF Made
  <2>2. \A p : p \notin m_output_fragments => Made(p)' = {}
    BY <1>1 DEF Made
  <2>3. \A p : p \in m_output_fragments => Made(p)' = Made(p)
    BY <1>1 DEF Made
  <2> QED
    BY <2>1, <2>2, <2>3
<1>6. TypeOK'
  BY <1>1, <1>2, <1>3 DEF IInv, TypeOK
<1>7. WorklistExact'
  BY <1>1 DEF IInv, WorklistExact
<1>8. ConstraintsExact' /\ ReferencesExpanded'
  BY <1>1, <1>5 DEF IInv, ConstraintsExact, ReferencesExpanded
<1>9. OutputExpanded' /\ PhaseInvariant'
  BY <1>1 DEF IInv, OutputExpanded, PhaseInvariant
<1> QED
  BY <1>6, <1>7, <1>8, <1>9 DEF IInv

(* Returning, aborting and stuttering leave all but the phase alone.        *)
LEMMA EndStep ==
  ASSUME IInv, Return \/ GeneratorAborts \/ UNCHANGED vars
  PROVE  IInv'
<1>1. /\ UNCHANGED <<given_job, to_add, output_expanded, worklist, current, asked,
                     m_order_constraints, m_output_fragments, requests>>
      /\ \A p : Made(p)' = Made(p)
  BY DEF Return, GeneratorAborts, Aborting, vars, current, requests, Made
<1>2. /\ ConstraintsExact' /\ ReferencesExpanded' /\ OutputExpanded' /\ WorklistExact'
      /\ Emissible' <=> Emissible
  BY <1>1 DEF IInv, ConstraintsExact, ReferencesExpanded, OutputExpanded,
     WorklistExact, Emissible
<1>3. TypeOK' /\ PhaseInvariant'
  BY <1>1, <1>2 DEF IInv, TypeOK, PhaseInvariant, Ended, Return, GeneratorAborts,
     Aborting, vars
<1> QED
  BY <1>2, <1>3 DEF IInv

LEMMA InitIInv == Init => IInv
<1> SUFFICES ASSUME Init PROVE IInv
  OBVIOUS
<1>1. ClosureJob(given_job)
  BY JobsAssumption DEF Init
<1>2. current \in Pair /\ requests \in Seq(Request)
  BY <1>1, DieAssumption, DeclDefPairs DEF Init, current, requests, ClosureJob
<1>3. TypeOK
  BY <1>1, <1>2 DEF Init, TypeOK
<1>4. WorklistExact
  BY DEF Init, WorklistExact, OnePerKey, Range
<1>5. ConstraintsExact /\ ReferencesExpanded /\ OutputExpanded /\ PhaseInvariant
  BY DEF Init, ConstraintsExact, ReferencesExpanded, OutputExpanded, PhaseInvariant
<1> QED
  BY <1>3, <1>4, <1>5 DEF IInv

LEMMA NextIInv == IInv /\ [Next]_vars => IInv'
  BY AddOutputStep, BeginFragmentStep, MaybeGetNameStep, EndFragmentStep, EndStep
     DEF Next
-----------------------------------------------------------------------------
(* The inductive invariant, from which the results below follow.            *)
THEOREM Invariance == Spec => []IInv
  BY InitIInv, NextIInv, PTL DEF Spec

(* The worklist, the pair worked on and the phase stay well formed.         *)
THEOREM TypeCorrect == Spec => []TypeOK
  BY Invariance, PTL DEF IInv

(* Each type class is expanded, waits and is generated once.                *)
THEOREM GeneratedOnce == Spec => []WorklistExact
  BY Invariance, PTL DEF IInv

(* Every constraint is booked on the pair whose generation asked for it.    *)
THEOREM BookedOnAsker == Spec => []ConstraintsExact
  BY Invariance, PTL DEF IInv

(* Only the definition behind an indirect type can be left out.             *)
THEOREM OpenThroughTypedefs == Spec => []OpenOnlyThroughTypedefs
<1>1. IInv => OpenOnlyThroughTypedefs
  <2> SUFFICES ASSUME IInv, NEW c \in m_order_constraints,
                      KeyOf(c[2]) \notin Keys(output_expanded)
               PROVE  \E r \in Made(c[1]) :
                        Indirect(r) /\ c[2] = Def(ConcreteType[r.die])
    BY DEF OpenOnlyThroughTypedefs
  <2>1. c[1] \in output_expanded
    BY DEF IInv, TypeOK
  <2>2. PICK r \in Made(c[1]) : c[2] \in DependsOn(r)
    BY DEF IInv, ConstraintsExact
  <2>3. c[2] \notin Follows(r)
    BY <2>1 DEF IInv, ReferencesExpanded
  <2>4. Indirect(r) /\ c[2] # Decl(r.die)
    BY <2>2, <2>3 DEF Follows
  <2>5. c[2] = Def(ConcreteType[r.die])
    BY <2>2, <2>4 DEF DependsOn, Indirect
  <2> QED
    BY <2>2, <2>4, <2>5
<1> QED
  BY <1>1, Invariance, PTL

(* What transitively_close leaves is what write_ordered_output assumes.     *)
THEOREM LegalForWriter == Spec => []ClosedForWriter
<1>1. IInv => ClosedForWriter
  <2> SUFFICES ASSUME IInv, phase = "closed" PROVE ClosedForWriter
    BY DEF ClosedForWriter
  <2>1. worklist = <<>> /\ to_add = {} /\ Emissible
    BY DEF IInv, PhaseInvariant
  <2>2. Range(worklist) = {}
    BY <2>1 DEF Range
  <2>3. m_output_fragments = output_expanded
    BY <2>2 DEF IInv, WorklistExact
  <2>4. Keys(given_job.to_output) \subseteq Keys(m_output_fragments)
    BY <2>1, <2>3 DEF IInv, OutputExpanded, Keys
  <2> QED
    BY <2>1, <2>3, <2>4
       DEF ClosedForWriter, IInv, TypeOK, WorklistExact, Emissible
<1> QED
  BY <1>1, Invariance, PTL
-----------------------------------------------------------------------------
(* The closure implements ReferenceClosure: the end of a fragment is a      *)
(* Generate, the return a Close,  and all other steps are stutters.         *)

(* Everything expanded was asked for, or is followed by a fragment, or by   *)
(* the one being generated, which does not expand itself.                   *)
Origin ==
  \A p \in output_expanded :
    \/ KeyOf(p) \in Keys(given_job.to_output)
    \/ \E c \in Followed : KeyOf(p) = KeyOf(c[2])
    \/ /\ phase \in {"generating", "aborted"}
       /\ p # current
       /\ \E r \in Made(current) : \E t \in Follows(r) : KeyOf(p) = KeyOf(t)

(* What finished fragments follow does not change.                          *)
LEMMA FollowedKept ==
  ASSUME IInv, UNCHANGED <<given_job, m_output_fragments>>
  PROVE  Followed' = Followed
<1>1. \A p \in m_output_fragments : Made(p)' = Made(p)
  BY DEF Made
<1> QED
  BY <1>1 DEF Followed

(* Ending a fragment adds what it follows, booked on its own key.           *)
LEMMA FollowedGrows ==
  ASSUME IInv, EndFragment
  PROVE  /\ Followed \subseteq Followed'
         /\ \A c \in Followed' \ Followed : c[1] = current
         /\ \A r \in Made(current) : \A t \in Follows(r) :
              \E c \in Followed' : c[2] = t
<1>1. /\ UNCHANGED <<given_job, current, asked, requests>>
      /\ phase = "generating" /\ asked = Len(requests)
      /\ m_output_fragments' = m_output_fragments \cup {current}
  BY DEF EndFragment, current, requests
<1>2. current \notin m_output_fragments /\ requests \in Seq(Request)
  BY <1>1, CurrentWaits
<1>3. \A p : Made(p)' = Made(p)
  BY <1>1, <1>2 DEF Made, requests
<1>4. Made(current) \subseteq Request
  <2>1. Made(current) = {requests[i] : i \in 1..asked}
    BY <1>1, <1>2 DEF Made, requests
  <2> QED
    BY <1>1, <1>2, <2>1
<1>5. \A r \in Made(current) : Follows(r) \subseteq Pair
  BY <1>4, DependsOnPairs
<1>6. Followed' = {c \in (m_output_fragments \cup {current}) \X Pair :
                     \E r \in Made(c[1]) : c[2] \in Follows(r)}
  BY <1>1, <1>3 DEF Followed
<1>7. ASSUME NEW r \in Made(current), NEW t \in Follows(r)
      PROVE  \E c \in Followed' : c[2] = t
  <2> DEFINE c == <<current, t>>
  <2>1. c \in (m_output_fragments \cup {current}) \X Pair /\ c[1] = current /\ c[2] = t
    BY <1>5
  <2>2. c \in Followed'
    BY <1>6, <2>1
  <2> QED
    BY <2>1, <2>2
<1>8. Followed \subseteq Followed'
  BY <1>6 DEF Followed
<1>9. \A c \in Followed' \ Followed : c[1] = current
  BY <1>6 DEF Followed
<1> QED
  BY <1>7, <1>8, <1>9

LEMMA InitOrigin == Init => Origin
  BY DEF Init, Origin

LEMMA NextOrigin == IInv /\ Origin /\ [Next]_vars => Origin'
<1> SUFFICES ASSUME IInv, Origin, [Next]_vars PROVE Origin'
  OBVIOUS
<1>1. ASSUME NEW el \in to_add, AddOutput(el) PROVE Origin'
  <2>1. /\ UNCHANGED <<given_job, m_output_fragments, phase>>
        /\ phase = "adding"
        /\ output_expanded' \subseteq output_expanded \cup {el}
    BY <1>1 DEF AddOutput, maybe_add_to_worklist
  <2>2. KeyOf(el) \in Keys(given_job.to_output)
    BY DEF IInv, TypeOK, Keys
  <2> QED
    BY <2>1, <2>2, FollowedKept DEF Origin
<1>2. CASE BeginFragment
  <2>1. /\ UNCHANGED <<given_job, output_expanded, m_output_fragments>>
        /\ phase \in {"adding", "closing"}
    BY <1>2 DEF BeginFragment
  <2> QED
    BY <2>1, FollowedKept DEF Origin
<1>3. CASE NameOnly \/ NameNormal \/ NameComplete \/ NameCompleteIndirect
             \/ NameCompleteOfNoType
  <2>1. /\ UNCHANGED <<given_job, current, m_output_fragments>>
        /\ phase = "generating" /\ phase' \in {"generating", "aborted"}
        /\ \A p : Made(p)' = IF p = current THEN Made(p) \cup {request} ELSE Made(p)
    BY <1>3, MaybeGetNameEffect, MadeGrows
  <2>2. \A p \in output_expanded' \ output_expanded : p \in Follows(request)
    BY <1>3, MaybeGetNameEffect DEF maybe_add_to_worklist
  <2>3. current \in output_expanded
    BY <2>1, CurrentWaits
  <2>4. \A r \in Made(current) \cup {request} : \A p : p = current' => r \in Made(p)'
    BY <2>1
  <2>5. \A r \in Made(current) \cup {request} : r \in Made(current)'
    BY <2>4
  <2>6. ASSUME NEW p \in output_expanded' PROVE Origin!(p)'
    <3>1. CASE p \in output_expanded
      BY <2>1, <2>5, <3>1, FollowedKept DEF Origin
    <3>2. CASE p \notin output_expanded
      <4>1. p # current /\ p \in Follows(request)
        BY <2>2, <2>3, <3>2
      <4> QED
        BY <2>1, <2>5, <4>1
    <3> QED
      BY <3>1, <3>2
  <2> QED
    BY <2>6 DEF Origin
<1>4. CASE EndFragment
  <2>1. /\ UNCHANGED <<given_job, output_expanded, current>>
        /\ phase = "generating"
    BY <1>4 DEF EndFragment, current
  <2> QED
    BY <1>4, <2>1, FollowedGrows DEF Origin
<1>5. CASE Return \/ GeneratorAborts \/ UNCHANGED vars
  <2>1. /\ UNCHANGED <<given_job, output_expanded, current, m_output_fragments>>
        /\ \A p : Made(p)' = Made(p)
        /\ phase \in {"generating", "aborted"} => phase' \in {"generating", "aborted"}
    BY <1>5 DEF Return, GeneratorAborts, Aborting, vars, current, Made, requests
  <2>2. Made(current)' = Made(current)
    BY <1>5 DEF Return, GeneratorAborts, Aborting, vars, current, Made, requests
  <2> QED
    BY <2>1, <2>2, FollowedKept DEF Origin
<1> QED
  BY <1>1, <1>2, <1>3, <1>4, <1>5 DEF Next

(* The abstract references are the keys of what fragments follow.           *)
Refs(F) == {<<KeyOf(c[1]), KeyOf(c[2])>> : c \in F}

LEMMA AbstractInit == Init => Abstract!Init
<1> SUFFICES ASSUME Init PROVE Abstract!Init
  OBVIOUS
<1>1. Keys(m_output_fragments) = {} /\ Followed = {}
  BY DEF Init, Keys, Followed
<1> QED
  BY <1>1 DEF Init, Abstract!Init, Result

LEMMA AbstractStep == IInv /\ IInv' /\ Origin /\ [Next]_vars => [Abstract!Next]_(Abstract!vars)
<1> SUFFICES ASSUME IInv, IInv', Origin, [Next]_vars
             PROVE  [Abstract!Next]_(Abstract!vars)
  OBVIOUS
<1> DEFINE roots == Keys(given_job.to_output)
           generated == Keys(m_output_fragments)
<1>1. ASSUME UNCHANGED <<given_job, m_output_fragments>>, Result' = Result
      PROVE  UNCHANGED Abstract!vars
  <2>1. Followed' = Followed
    BY <1>1, FollowedKept
  <2>2. roots' = roots /\ generated' = generated
    BY <1>1
  <2> QED
    BY <1>1, <2>1, <2>2 DEF Abstract!vars
<1>2. ASSUME NEW el \in to_add, AddOutput(el) PROVE UNCHANGED Abstract!vars
  BY <1>1, <1>2 DEF AddOutput, Result
<1>3. ASSUME BeginFragment PROVE UNCHANGED Abstract!vars
  BY <1>1, <1>3 DEF BeginFragment, Result
<1>4. ASSUME NameOnly \/ NameNormal \/ NameComplete \/ NameCompleteIndirect
               \/ NameCompleteOfNoType
      PROVE  UNCHANGED Abstract!vars
  <2>1. /\ UNCHANGED <<given_job, m_output_fragments>>
        /\ phase = "generating" /\ phase' \in {"generating", "aborted"}
    BY <1>4, MaybeGetNameEffect DEF Unchanged_maybe_get_name
  <2> QED
    BY <1>1, <2>1 DEF Result
<1>5. ASSUME GeneratorAborts \/ UNCHANGED vars PROVE UNCHANGED Abstract!vars
  <2>1. /\ UNCHANGED <<given_job, m_output_fragments>>
        /\ Result' = Result
    BY <1>5 DEF GeneratorAborts, Aborting, vars, Result
  <2> QED
    BY <1>1, <2>1
<1>6. CASE EndFragment
  <2> DEFINE n == KeyOf(current)
  <2>1. /\ UNCHANGED given_job
        /\ m_output_fragments' = m_output_fragments \cup {current}
        /\ phase = "generating" /\ phase' = "closing"
    BY <1>6 DEF EndFragment
  <2>2. current \in output_expanded /\ current \notin m_output_fragments
    BY <2>1, CurrentWaits
  <2>3. n \in Abstract!Wanted
    <3>1. n \in roots \/ \E c \in Followed : n = KeyOf(c[2])
      BY <2>1, <2>2 DEF Origin
    <3>2. \A c \in Followed : <<KeyOf(c[1]), KeyOf(c[2])>> \in Refs(Followed)
      BY DEF Refs
    <3>3. ASSUME NEW c \in Followed
          PROVE  KeyOf(c[2]) \in {e[2] : e \in Refs(Followed)}
      <4> DEFINE e == <<KeyOf(c[1]), KeyOf(c[2])>>
      <4>1. e \in Refs(Followed) /\ e[2] = KeyOf(c[2])
        BY <3>2
      <4> QED
        BY <4>1
    <3> QED
      BY <3>1, <3>3 DEF Abstract!Wanted, Refs
  <2>4. n \notin generated
    BY <2>2 DEF IInv, TypeOK, WorklistExact, OnePerKey, Keys
  <2>5. generated' = generated \cup {n} /\ roots' = roots
    BY <2>1 DEF Keys
  <2>6. Result = "open" /\ Result' = "open"
    BY <2>1 DEF Result
  <2>7. Refs(Followed) \subseteq Refs(Followed')
    BY <1>6, FollowedGrows DEF Refs
  <2>8. \A e \in Refs(Followed') \ Refs(Followed) : e[1] = n
    BY <1>6, FollowedGrows DEF Refs
  <2>9. Abstract!Generate(n)
    BY <2>5, <2>6, <2>7, <2>8 DEF Abstract!Generate, Refs
  <2> QED
    BY <2>3, <2>4, <2>9 DEF Abstract!Next
<1>7. CASE Return
  <2>1. /\ UNCHANGED <<given_job, m_output_fragments, worklist, to_add>>
        /\ phase' \in {"closed", "assertion failed"}
        /\ phase \in {"adding", "closing"}
        /\ worklist = <<>> /\ to_add = {}
    BY <1>7 DEF Return, IInv, PhaseInvariant
  <2>2. m_output_fragments = output_expanded
    <3>1. worklist = <<>>
      BY <2>1
    <3>2. Range(worklist) = {}
      BY <3>1 DEF Range
    <3> QED
      BY <3>2 DEF IInv, WorklistExact
  <2>3. roots \subseteq generated
    BY <2>1, <2>2 DEF IInv, OutputExpanded, Keys
  <2>4. \A c \in Followed : KeyOf(c[2]) \in generated
    BY <2>2 DEF Followed, IInv, ReferencesExpanded
  <2>5. Abstract!Wanted \subseteq generated
    BY <2>3, <2>4 DEF Abstract!Wanted
  <2>6. Followed' = Followed /\ roots' = roots /\ generated' = generated
    BY <2>1, FollowedKept
  <2>7. Result = "open" /\ Result' = "closed"
    BY <2>1 DEF Result
  <2>8. Abstract!Close
    BY <2>5, <2>6, <2>7 DEF Abstract!Close
  <2> QED
    BY <2>8 DEF Abstract!Next
<1> QED
  BY <1>2, <1>3, <1>4, <1>5, <1>6, <1>7 DEF Next

(* Only what is reachable from the pairs asked for is generated, and all of *)
(* it before the call returns.                                              *)
THEOREM ImplementsReferenceClosure == Spec => GeneratesReachable
<1>1. Spec => []Origin
  BY Invariance, InitOrigin, NextOrigin, PTL DEF Spec
<1> QED
  BY <1>1, Invariance, AbstractInit, AbstractStep, PTL
     DEF Spec, Abstract!Spec, GeneratesReachable
=============================================================================
