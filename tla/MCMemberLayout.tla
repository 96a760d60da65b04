--------------------------- MODULE MCMemberLayout ---------------------------
(***************************************************************************)
(* Aggregates for TLC: structs of up to three members laid out naturally,  *)
(* and pairs of members with any offset for the second, gaps, overlaps and *)
(* offsets that wrap included, unions, unknown sizes and a location that   *)
(* is a list too.                                                          *)
(***************************************************************************)
EXTENDS MemberLayout

Types == {[size |-> 1, align |-> 1], [size |-> 3, align |-> 1],
          [size |-> 4, align |-> 4], [size |-> 8, align |-> 8],
          [size |-> 12, align |-> 4]}
At(t, offset) == [size |-> t.size, align |-> t.align, location |-> offset, single |-> TRUE]
Struct(ms) == [is_union |-> FALSE, members |-> ms]

NaturalStructs ==
  {Struct(LET o2 == RoundUp(t1.size, t2.align)
              o3 == RoundUp(o2 + t2.size, t3.align)
          IN  <<At(t1, 0), At(t2, o2), At(t3, o3)>>) :
     t1 \in Types, t2 \in Types, t3 \in Types}

Bytes(n) == [size |-> n, align |-> 1]
Placements ==
  {[is_union |-> u, members |-> <<[At(Bytes(n), o1) EXCEPT !.single = single],
                                  At(Bytes(2), o2)>>] :
     u \in BOOLEAN, single \in BOOLEAN, n \in {1, 5, 8, NoSize}, o1 \in {0, 7, 24, 40, 70, NoLocation},
     o2 \in {0, 1, 5, 8, 12, 24, 32, 33, 48, 60, 63, 64, 80, NoLocation}}
(* Those a compiler could have made, with packing or explicit alignment.    *)
AtZero == {Struct(<<At(Bytes(n), 0), At(Bytes(2), o)>>) : n \in {1, 5, 8}, o \in {8, 12, 16}}
MCAggregates == NaturalStructs \cup Placements
=============================================================================
