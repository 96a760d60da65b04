------------------------ MODULE TopologicalEmission ------------------------
(***************************************************************************)
(* What write_ordered_output promises: it takes the fragments one at a     *)
(* time, each after everything it depends on, until none is left, and it   *)
(* gives up only when what is left really cannot be put in order.          *)
(***************************************************************************)
CONSTANT Node         \* what may be emitted

VARIABLES graph,      \* the [nodes, edges] it starts from
          done,       \* the nodes emitted so far
          result      \* "emitting", "complete" or "stuck"

vars == <<graph, done, result>>

Init == /\ graph \in [nodes : SUBSET Node, edges : SUBSET (Node \X Node)]
        /\ done = {}
        /\ result = "emitting"

Ready(n) == \A e \in graph.edges : e[1] = n => e[2] \in done

Emit(n) == /\ result = "emitting"
           /\ Ready(n)
           /\ done' = done \cup {n}
           /\ UNCHANGED <<graph, result>>

Complete == /\ result = "emitting"
            /\ done = graph.nodes
            /\ result' = "complete"
            /\ UNCHANGED <<graph, done>>

GiveUp == /\ result = "emitting"
          /\ done # graph.nodes
          /\ \A n \in graph.nodes \ done : ~Ready(n)
          /\ result' = "stuck"
          /\ UNCHANGED <<graph, done>>

Next == \/ \E n \in graph.nodes \ done : Emit(n)
        \/ Complete
        \/ GiveUp

Spec == Init /\ [][Next]_vars
=============================================================================
