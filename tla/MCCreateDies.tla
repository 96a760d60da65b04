---------------------------- MODULE MCCreateDies ----------------------------
(***************************************************************************)
(* Texts for TLC: three DIEs a, b, c called x, y, z, each with any of the  *)
(* attribute lists below, so references go backwards, forwards, to one     *)
(* another, to themselves and to nothing (u).  Within the second there may *)
(* be a fourth DIE d, inline or as a child.                                *)
(***************************************************************************)
EXTENDS CreateDies, TLC

CONSTANTS a, b, c, d, x, y, z, u

Ident(n) == [kind |-> "ident", to |-> n]
Inline(n) == [kind |-> "die", to |-> n]

Lists == {<<>>, <<Ident(x)>>, <<Ident(y)>>, <<Ident(z)>>, <<Ident(u)>>,
          <<Ident(z), Ident(y)>>}
Some == {<<>>, <<Ident(z)>>, <<Ident(u)>>}
Names == a :> x @@ b :> y @@ c :> z @@ d :> NoName

ATree(la, lb, lc, ld, kids, units, under) ==
  [top |-> <<a, b, c>>, name |-> Names,
   attrs |-> a :> la @@ b :> lb @@ c :> lc @@ d :> ld,
   children |-> [n \in {a, b, c, d} |-> IF n = b THEN kids ELSE <<>>],
   compile_unit |-> units, under_cu |-> under]

Flat == {ATree(la, lb, lc, <<>>, <<>>, units, under) :
           la \in Lists, lb \in Lists, lc \in Lists,
           units \in {{}, {a}, {c}}, under \in BOOLEAN}
Nested == {ATree(la, <<Inline(d)>> \o lb, lc, ld, <<>>, {}, under) :
             la \in Some, lb \in Some, lc \in Lists, ld \in Some, under \in BOOLEAN}
Parents == {ATree(la, lb, lc, ld, <<d>>, {}, under) :
              la \in Some, lb \in Some, lc \in Lists, ld \in Some, under \in BOOLEAN}
MCTexts == Flat \cup Nested \cup Parents
=============================================================================
