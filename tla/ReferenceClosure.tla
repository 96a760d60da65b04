-------------------------- MODULE ReferenceClosure --------------------------
(***************************************************************************)
(* What transitively_close promises: starting from the keys asked for, it  *)
(* generates a fragment for each key a generated fragment refers to, for   *)
(* no other, for none twice, and finishes when no reference is left open.  *)
(***************************************************************************)
VARIABLES roots,      \* the keys asked for
          generated,  \* the keys with a fragment
          refs,       \* <<n, m>>: generating n asked for m
          result      \* "open" until no reference is, then "closed"

vars == <<roots, generated, refs, result>>

Init == /\ generated = {}
        /\ refs = {}
        /\ result = "open"

Wanted == roots \cup {e[2] : e \in refs}

(* What n refers to is found out by generating it.                         *)
Generate(n) == /\ result = "open"
               /\ generated' = generated \cup {n}
               /\ refs \subseteq refs'
               /\ \A e \in refs' \ refs : e[1] = n
               /\ UNCHANGED <<roots, result>>

Close == /\ result = "open"
         /\ Wanted \subseteq generated
         /\ result' = "closed"
         /\ UNCHANGED <<roots, generated, refs>>

Next == \/ \E n \in Wanted \ generated : Generate(n)
        \/ Close

Spec == Init /\ [][Next]_vars
=============================================================================
