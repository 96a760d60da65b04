---------------------------- MODULE MemberLayout ----------------------------
(***************************************************************************)
(* The definition of an aggregate, as defn_of_die writes it: each member   *)
(* with an aligned(power) attribute, chosen so that a compiler places the  *)
(* member where DWARF says it is.  A step is a member, or one turn of the  *)
(* search for its power.                                                   *)
(*                                                                         *)
(* The search computes in `unsigned', of UnsignedWidth bits; DWARF's       *)
(* offsets are Dwarf_Unsigned, of DwarfWidth bits.  `placed' is what the   *)
(* compiler makes of the text so far.                                      *)
(***************************************************************************)
EXTENDS Integers, Sequences

CONSTANTS Aggregates,
          UnsignedWidth, DwarfWidth,
          MAXIMUM_SANE_OFFSET,
          NoSize,        \* of a type whose size cannot be calculated
          NoLocation     \* of a member without DW_AT_data_member_location

ASSUME WidthAssumption == /\ UnsignedWidth \in Nat \ {0}
                          /\ DwarfWidth \in Nat
                          /\ UnsignedWidth <= DwarfWidth

unsigned == 0..(2^UnsignedWidth - 1)
Dwarf_Unsigned == 0..(2^DwarfWidth - 1)
max_Dwarf_Unsigned == 2^DwarfWidth - 1

ASSUME NoneAssumption == NoSize \notin Dwarf_Unsigned /\ NoLocation \notin Dwarf_Unsigned

(* The alignments that C has are the powers the search comes to.            *)
Power == {2^i : i \in 0..(UnsignedWidth - 1)}
(* A location is a list; `single' if it has one entry, of more than one the *)
(* first is taken for where the member is, but no alignment is chosen.      *)
Member == [size : Dwarf_Unsigned \cup {NoSize}, align : Power,
           location : Dwarf_Unsigned \cup {NoLocation}, single : BOOLEAN]
Aggregate(a) == a.is_union \in BOOLEAN /\ a.members \in Seq(Member)

ASSUME AggregatesAssumption == \A a \in Aggregates : Aggregate(a)

VARIABLES aggregate,
          k,             \* how many members have been written
          at,
          power, test_offset,
          end,           \* where what is written so far ends, to the compiler
          placed         \* the offsets it gives to the members
vars == <<aggregate, k, at, power, test_offset, end, placed>>

Init == /\ aggregate \in Aggregates
        /\ k = 0
        /\ at = "between members"
        /\ power = 1
        /\ test_offset = 0
        /\ end = 0
        /\ placed = <<>>

RoundUp(n, m) == ((n + m - 1) \div m) * m
-----------------------------------------------------------------------------
p_d == aggregate.members[k + 1]
prev_member == aggregate.members[k]

(* Mutant: where the previous member starts.                                *)
cur_offset_start ==
  IF k = 0 THEN 0
  ELSE IF prev_member.location = NoLocation THEN max_Dwarf_Unsigned
  ELSE prev_member.location

(* Where the previous member ended in DWARF, or the largest number where    *)
(* that cannot be known.                                                    *)
cur_offset ==
  CASE k = 0 -> 0
    [] k > 0 /\ prev_member.location # NoLocation ->
         IF prev_member.size = NoSize THEN max_Dwarf_Unsigned
         ELSE (prev_member.location + prev_member.size) % 2^DwarfWidth
    [] k > 0 /\ prev_member.location = NoLocation ->
         IF aggregate.is_union THEN 0 ELSE max_Dwarf_Unsigned

target_offset == p_d.location

SizeOf(m) == IF m.size = NoSize THEN 0 ELSE m.size
(* The compiler's side: the member at the next multiple of its alignment,   *)
(* `padding' bytes after it.                                                *)
Write(alignment, padding) ==
  LET offset == IF aggregate.is_union THEN 0 ELSE RoundUp(end, alignment)
  IN  /\ placed' = Append(placed, offset)
      /\ end' = offset + SizeOf(p_d) + padding
      /\ k' = k + 1
      /\ at' = "between members"

Larger(m, n) == IF m > n THEN m ELSE n
Aligned == /\ p_d.location # NoLocation
           /\ p_d.single
           /\ target_offset > 0
           /\ cur_offset # max_Dwarf_Unsigned

(* Natural alignment, for a member at 0 or where nothing else is known.     *)
WriteUnaligned == /\ at = "between members"
                  /\ k < Len(aggregate.members)
                  /\ ~Aligned
                  /\ Write(p_d.align, 0)
                  /\ UNCHANGED <<aggregate, power, test_offset>>

(* Mutant: the first power tried is 2.                                      *)
BeginSearch_at_two == /\ at = "between members"
                      /\ k < Len(aggregate.members)
                      /\ Aligned
                      /\ power' = 2
                      /\ test_offset' = cur_offset % 2^UnsignedWidth
                      /\ at' = "searching"
                      /\ UNCHANGED <<aggregate, k, end, placed>>

BeginSearch == /\ at = "between members"
               /\ k < Len(aggregate.members)
               /\ Aligned
               /\ power' = 1
               /\ test_offset' = cur_offset % 2^UnsignedWidth
               /\ at' = "searching"
               /\ UNCHANGED <<aggregate, k, end, placed>>

next_multiple == IF test_offset % power = 0 THEN test_offset
                 ELSE (((test_offset \div power) + 1) * power) % 2^UnsignedWidth

(* Mutant: the power does not grow.                                         *)
TryPower_same ==
  /\ at = "searching"
  /\ power # 0
  /\ test_offset' = next_multiple
  /\ at' = IF next_multiple = target_offset THEN "found" ELSE "searching"
  /\ UNCHANGED <<aggregate, k, power, end, placed>>

(* One turn of the loop; power <<= 1 becomes 0 in the end.                  *)
TryPower ==
  /\ at = "searching"
  /\ power # 0
  /\ test_offset' = next_multiple
  /\ IF next_multiple = target_offset
     THEN at' = "found" /\ UNCHANGED power
     ELSE power' = (2 * power) % 2^UnsignedWidth /\ UNCHANGED at
  /\ UNCHANGED <<aggregate, k, end, placed>>

Failed == \/ at = "searching" /\ power = 0
          \/ at = "found" /\ test_offset < cur_offset

WriteAligned == /\ at = "found"
                /\ ~Failed
                /\ Write(Larger(p_d.align, power), 0)
                /\ UNCHANGED <<aggregate, power, test_offset>>

(* The semicolon, the padding, and only then the attribute, with power 1:   *)
(* the member itself is left to its natural alignment.                      *)
WriteWarning ==
  LET gap == (target_offset - cur_offset) % 2^DwarfWidth
  IN  /\ Failed
      /\ Write(p_d.align, IF gap < MAXIMUM_SANE_OFFSET THEN gap ELSE 0)
      /\ UNCHANGED <<aggregate, power, test_offset>>

Next == WriteUnaligned \/ BeginSearch \/ TryPower \/ WriteAligned \/ WriteWarning

Spec == Init /\ [][Next]_vars
(* One thread runs the call to its end: a step that is enabled is taken.    *)
FairSpec == Spec /\ WF_vars(Next)
-----------------------------------------------------------------------------
(* The search rounds up from where the smaller powers got, in arithmetic    *)
(* that wraps.  It still finds the least power of two whose next multiple   *)
(* from the current offset is the target.  It fails only if there is none,  *)
(* or the target is beyond `unsigned'.                                      *)
Reaches(p) == RoundUp(cur_offset, p) = target_offset
SearchExact ==
  /\ at = "found" /\ ~Failed =>
       Reaches(power) /\ \A p \in Power : p < power => ~Reaches(p)
  /\ Failed /\ target_offset \in unsigned => \A p \in Power : ~Reaches(p)

(* A struct that a compiler laid out by the alignment of its members' types *)
(* is laid out the same again from the text, as far as `unsigned' goes.     *)
Natural(a) ==
  /\ ~a.is_union
  /\ \A i \in DOMAIN a.members :
       LET m == a.members[i]
           after == IF i = 1 THEN 0 ELSE a.members[i - 1].location + a.members[i - 1].size
       IN  /\ m.location \in unsigned /\ m.size \in Dwarf_Unsigned
           /\ m.location = RoundUp(after, m.align)
LaidOutAgain ==
  Natural(aggregate) => \A i \in 1..k : placed[i] = aggregate.members[i].location

(* Every member is written: the search ends when power becomes 0.           *)
Terminates == <>(k = Len(aggregate.members))
-----------------------------------------------------------------------------
(* cxx_model.cpp:685 "we choose our alignment so as to ensure that the      *)
(* emitted field is located at the offset specified in DWARF".              *)
LocatedAsSpecified ==
  \A i \in 1..k : aggregate.members[i].location \in {placed[i], NoLocation}
=============================================================================
