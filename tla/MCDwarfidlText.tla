--------------------------- MODULE MCDwarfidlText ---------------------------
(***************************************************************************)
(* Values for TLC.  Names and strings are all those of up to three         *)
(* characters of eight, numbers are of five bits where an unsigned int has *)
(* three.  Literals are all those of up to three characters of seven, and  *)
(* operations are written with too few, enough and too many operands.      *)
(***************************************************************************)
EXTENDS DwarfidlText

MCOperator == {"addr", "and", "bregx", "drop"}
MCCount == [addr |-> 1, and |-> 0, bregx |-> 2, drop |-> 0]

MCChar == Letter \cup Digit \cup {"_", "\\", "\n", "\r", "\""}
MCKeyword == {<<"i", "f">>}
NameChars == {"i", "f", "1", "_", "\\", "\n", "\r", "\""}
Unsigned == 0..31
Signed == -16..15

Op(op, a, b) == [op |-> op, args |-> <<a, b>>]
Ops == {<<>>, <<Op("and", 0, 0)>>}
         \cup {<<Op("addr", a, b)>> : a \in {0, 7, 8, 31}, b \in {0, 9}}
         \cup {<<Op("bregx", a, b), Op("drop", 9, 0)>> : a \in {1, 7, 8}, b \in {0, 6, 31}}

MCValues ==
  {[form |-> "NAME", chars |-> s] : s \in UNION {[1..k -> NameChars] : k \in 1..3}}
    \cup {[form |-> f, chars |-> s] :
             f \in {"STRING", "OTHER"}, s \in UNION {[1..k -> NameChars] : k \in 0..2}}
    \cup {[form |-> "FLAG", flag |-> b] : b \in BOOLEAN}
    \cup {[form |-> f, n |-> k] : f \in {"UNSIGNED", "ADDR"}, k \in Unsigned}
    \cup {[form |-> "SIGNED", n |-> k] : k \in Signed}
    \cup {[form |-> "REF", abs |-> b, n |-> k] : b \in BOOLEAN, k \in Unsigned}
    \cup {[form |-> "LOCLIST", everywhere |-> b, ops |-> o] : b \in BOOLEAN, o \in Ops}

LiteralChars == {"\\", "x", "1", "a", "n", "z", "\""}
MCHandWritten ==
  {[token |-> "STRING_LIT", text |-> Quoted(s)] :
     s \in UNION {[1..k -> LiteralChars] : k \in 0..3}}
    \cup {[token |-> "OPCODE_LIST", ops |-> <<[op |-> o, args |-> a], [op |-> "drop", args |-> <<>>]>>] :
             o \in MCOperator, a \in {<<>>, <<3>>, <<12>>, <<7, 8>>}}
=============================================================================
