-------------------------- MODULE MCOrderedOutput --------------------------
(***************************************************************************)
(* Inputs of write_ordered_output for TLC.                                 *)
(*   s, s2  two DIEs of one complete struct type S: one key                *)
(*   x      an unequal, equally complete struct also named S               *)
(*   i      an incomplete type named S: no summary code                    *)
(*   v      a variable                                                     *)
(***************************************************************************)
EXTENDS OrderedOutput, TLC

CONSTANTS s, s2, x, i, v, S

MCDie == {s, s2, x, i, v}
MCTypeRank == s :> 1 @@ s2 :> 1 @@ x :> 2 @@ i :> 3 @@ v :> 4
MCTypeDie == {s, s2, x, i}
MCNameHere == [d \in MCDie |-> IF d = v THEN NoName ELSE S]
MCSummaryCode == [d \in MCDie |-> CASE d \in {s, s2} -> 1
                                    [] d = x         -> 2
                                    [] OTHER         -> NoCode]

(* Every digraph on three fragments, reached through either of the two DIEs *)
(* of S: cycles, self-loops and doubled constraints included.               *)
ThreeFragments == {Decl(s), Def(s), Decl(v)}
Graphs == {[fragments |-> ThreeFragments, constraints |-> C] :
             C \in SUBSET (ThreeFragments \X (ThreeFragments \cup {Decl(s2)}))}

(* Every choice of namesakes, with every constraint there may be between    *)
(* two of them.                                                             *)
Namesakes == {Decl(s), Def(s), Def(x), Decl(i), Def(i), Decl(v)}
NamesakeInputs ==
  {[fragments |-> F, constraints |-> C] :
     F \in SUBSET Namesakes,
     C \in {{}} \cup {{<<p, q>>} : p, q \in Namesakes}}
WellFormedNamesakes == {in \in NamesakeInputs : WriterInput(in)}
MCInputs == Graphs \cup WellFormedNamesakes
=============================================================================
