------------------------ MODULE MCDependencyClosure ------------------------
(***************************************************************************)
(* Generators for transitively_close, for TLC.                             *)
(*   a, a2  two DIEs of one struct type: one key                           *)
(*   t      a typedef of it             w     a typedef of void            *)
(*   n      a struct without a name     v     a variable                   *)
(* Each of three pairs asks for any of the reference sequences below, so   *)
(* the jobs have chains, diamonds, cycles and self-references, through     *)
(* either DIE of the struct, and every way maybe_get_name has of ending.   *)
(***************************************************************************)
EXTENDS DependencyClosure, TLC

CONSTANTS a, a2, t, w, n, v, A, T, W, V

MCDie == {Void, a, a2, t, w, n, v}
MCTypeRank == Void :> 0 @@ a :> 1 @@ a2 :> 1 @@ t :> 2 @@ w :> 3 @@ n :> 4 @@ v :> 5
MCTypeDie == {a, a2, t, w, n}
MCConcreteType == a :> a @@ a2 :> a2 @@ t :> a @@ w :> Void @@ n :> n
MCCxxName == Void :> NoName @@ n :> NoName @@ a :> A @@ a2 :> A @@ t :> T @@ w :> W @@ v :> V

Normal(d) == [die |-> d, kind |-> "NORMAL"]
Complete(d) == [die |-> d, kind |-> "TYPE_MUST_BE_COMPLETE"]
Defining(d) == [die |-> d, kind |-> "DEFINING"]

Asking == {<<>>,
           <<Normal(n), Normal(t)>>,
           <<Normal(a2), Normal(a)>>,
           <<Defining(a), Normal(v)>>,
           <<Complete(a), Complete(a2)>>,
           <<Complete(t), Normal(t)>>,
           <<Complete(w)>>,
           <<Normal(a), Complete(v)>>}

Requests(dv, da, dt) ==
  [p \in Pair |-> CASE p = Decl(v)            -> dv
                    [] p \in {Def(a), Def(a2)} -> da
                    [] p = Decl(t)            -> dt
                    [] OTHER                  -> <<>>]

MCJobs ==
  {[to_output |-> out, requests |-> Requests(dv, da, dt), aborts |-> ab] :
     out \in {{}, {Decl(v)}, {Decl(t), Def(a2)}},
     dv \in Asking, da \in Asking, dt \in Asking,
     ab \in {{}, {Decl(t)}}}
=============================================================================
