---------------------------- MODULE DwarfidlText ----------------------------
(***************************************************************************)
(* A DIE's name and the values of its attributes, printed as dwarfidl and  *)
(* read back, over and over: the escapes of dwarfprint.cpp, those undone   *)
(* by lang.cpp, and make_attribute_value of create.cpp.                    *)
(* Between the two is the generated lexer: a text here is one of its       *)
(* tokens.  Characters are strings of one character, "\v", "\b" and "\a"   *)
(* of C apart, for which TLA+ has no escape.                               *)
(***************************************************************************)
EXTENDS Integers, Sequences, SequencesExt

CONSTANTS Char, Letter,
          Keyword,           \* words of the lexer that name no identifier
          Operator,          \* what follows DW_OP_ in the names of opcodes
          op_operand_count,
          KeywordOperator,   \* the operators that are such words
          Garbage,           \* what uninitialised memory may hold
          UINT_MAX,          \* the greatest unsigned int
          Values,            \* of attributes and names, in a DWARF file
          HandWritten,       \* string literals, operations in a text by hand
          MaxRereads         \* bound on how often a value is read

Digit == {"0", "1", "2", "3", "4", "5", "6", "7", "8", "9"}
HexDigit == Digit \cup {"a", "b", "c", "d", "e", "f", "A", "B", "C", "D", "E", "F"}
Word == Letter \cup Digit \cup {"_"}
ASSUME CharAssumption == Word \cup {"\\", "\"", "\n", "n"} \subseteq Char
ASSUME LetterAssumption == Letter \cap (Digit \cup {"_", "\\", "\"", "\n"}) = {}
ASSUME KeywordAssumption == Keyword \subseteq Seq(Word)
ASSUME OperandsAssumption == /\ op_operand_count \in [Operator -> 0..2]
                             /\ "addr" \in Operator /\ op_operand_count["addr"] = 1
ASSUME NumbersAssumption == UINT_MAX \in Nat /\ Garbage \subseteq Int

(* What a DIE may have.  A DIE without a name has no text for it.           *)
Value ==
  [form : {"NAME"}, chars : Seq(Char) \ {<<>>}]
    \cup [form : {"STRING", "OTHER"}, chars : Seq(Char)]
    \cup [form : {"FLAG"}, flag : BOOLEAN]
    \cup [form : {"UNSIGNED", "SIGNED", "ADDR"}, n : Int]
    \cup [form : {"REF"}, abs : BOOLEAN, n : Int]
    \cup [form : {"LOCLIST"}, everywhere : BOOLEAN,
           ops : Seq([op : Operator, args : [1..2 -> Int]])]
ASSUME ValuesAssumption == Values \subseteq Value
(* By hand an operation may be given any number of operands up to two.      *)
OperandList == {args \in Seq(Int) : Len(args) <= 2}
ASSUME HandWrittenAssumption ==
  HandWritten \subseteq
    [token : {"STRING_LIT"}, text : Seq(Char)]
      \cup [token : {"OPCODE_LIST"}, ops : Seq([op : Operator, args : OperandList])]
-----------------------------------------------------------------------------
(* Escapes.  The `^' of boost's expressions also matches after these.       *)
LineSeparator == {"\n", "\r", "\f"}

(* Mutant: leading digits are left alone.                                   *)
escape_ident_words(content) ==
  FlattenSeq([i \in DOMAIN content |->
    IF content[i] \in Word THEN <<content[i]>>
    ELSE <<"\\", content[i]>>])

escape_ident(content) ==
  LET plain(i) == /\ content[i] \in Word
                  /\ content[i] \in Digit => i > 1 /\ content[i - 1] \notin LineSeparator
  IN  FlattenSeq([i \in DOMAIN content |->
        IF plain(i) THEN <<content[i]>> ELSE <<"\\", content[i]>>])

replace_all(content, c, by) ==
  FlattenSeq([i \in DOMAIN content |-> IF content[i] = c THEN by ELSE <<content[i]>>])

(* Mutant: quotes are escaped first.                                        *)
escape_string_lit_last(content) ==
  replace_all(replace_all(replace_all(content, "\"", <<"\\", "\"">>),
                          "\\", <<"\\", "\\">>),
              "\n", <<"\\", "n">>)

escape_string_lit(content) ==
  replace_all(replace_all(replace_all(content, "\\", <<"\\", "\\">>),
                          "\n", <<"\\", "n">>),
              "\"", <<"\\", "\"">>)

Quoted(chars) == <<"\"">> \o chars \o <<"\"">>

UnescapeIdentStep(m, c) ==
  IF m.state = "BEGIN" /\ c = "\\" THEN [m EXCEPT !.state = "ESCAPE"]
  ELSE [state |-> "BEGIN", o |-> Append(m.o, c)]
unescape_ident(ident) ==
  FoldLeft(UnescapeIdentStep, [state |-> "BEGIN", o |-> <<>>], ident).o

(* The escapes of one letter.                                               *)
Escapes == [n |-> "\n", t |-> "\t", v |-> "VT", b |-> "BS", r |-> "\r", f |-> "\f", a |-> "BEL"]
Same == {"\\", "?", "'", "\""}

(* The value of a numeric escape: `s >> std::oct >> char_val' reads the     *)
(* first of its digits as a character, or leaves char_val uninitialised.    *)
Indeterminate == "indeterminate"
char_val(digits) == IF digits = <<>> THEN Indeterminate ELSE digits[1]

(* One turn of the loop.  An illegal escape leaves the state as it is; the  *)
(* character that ends a numeric escape goes out whatever it is.            *)
UnescapeStep(m, c) ==
  LET to(state) == [m EXCEPT !.state = state]
      out(chars) == [state |-> "BEGIN", digits |-> <<>>, o |-> m.o \o chars]
      more == [m EXCEPT !.digits = Append(@, c)]
  IN  CASE m.state = "BEGIN" /\ c = "\\" -> to("ESCAPE")
        [] m.state = "BEGIN" /\ c = "\"" -> m
        [] m.state = "BEGIN" /\ c \notin {"\\", "\""} -> out(<<c>>)
        [] m.state = "ESCAPE" /\ c \in DOMAIN Escapes -> out(<<Escapes[c]>>)
        [] m.state = "ESCAPE" /\ c \in Same -> out(<<c>>)
        [] m.state = "ESCAPE" /\ c \in Digit -> [more EXCEPT !.state = "OCTAL"]
        [] m.state = "ESCAPE" /\ c = "x" -> to("HEX")
        [] m.state = "OCTAL" /\ c \in Digit -> more
        [] m.state = "HEX" /\ c \in HexDigit -> more
        [] m.state = "OCTAL" /\ c \notin Digit -> out(<<char_val(m.digits), c>>)
        [] m.state = "HEX" /\ c \notin HexDigit -> out(<<char_val(m.digits), c>>)
        [] OTHER -> m

(* The loop ends before the closing quote, and with it the literal: the     *)
(* test for an escape that ends there, `i + 1 == lit.end()', never holds.   *)
Unescaped(lit) ==
  FoldLeft(UnescapeStep, [state |-> "BEGIN", digits |-> <<>>, o |-> <<>>],
           SubSeq(lit, 2, Len(lit) - 1))
unescape_string_lit(lit) ==
  IF Len(lit) < 2 \/ Head(lit) # "\"" \/ Last(lit) # "\"" THEN lit ELSE Unescaped(lit).o
-----------------------------------------------------------------------------
(* Printing.                                                                *)
opcode_to_string(e) ==
  [op |-> e.op, args |-> SubSeq(e.args, 1, op_operand_count[e.op])]

print_name(chars) == [token |-> "IDENTS", text |-> escape_ident(chars)]
print_value(v) ==
  CASE v.form = "STRING" -> [token |-> "STRING_LIT", text |-> Quoted(escape_string_lit(v.chars))]
    [] v.form = "FLAG" -> [token |-> IF v.flag THEN "KEYWORD_TRUE" ELSE "KEYWORD_FALSE"]
    [] v.form \in {"UNSIGNED", "SIGNED"} -> [token |-> "INT", hex |-> FALSE, n |-> v.n]
    [] v.form = "ADDR" -> [token |-> "INT", hex |-> TRUE, n |-> v.n]
    [] v.form = "REF" -> [token |-> IF v.abs THEN "ABSOLUTE_OFFSET" ELSE "RELATIVE_OFFSET",
                          hex |-> TRUE, n |-> v.n]
    [] v.form = "LOCLIST" ->    \* or a dummy, for places that depend on the code address
         [token |-> "OPCODE_LIST",
          ops |-> IF v.everywhere THEN [i \in DOMAIN v.ops |-> opcode_to_string(v.ops[i])]
                  ELSE <<[op |-> "addr", args |-> <<0>>]>>]
    [] OTHER -> [token |-> "STRING_LIT", text |-> Quoted(v.chars)]
Printed(v) == IF v.form = "NAME" THEN print_name(v.chars) ELSE print_value(v)
-----------------------------------------------------------------------------
(* Reading.                                                                 *)
(* The lexer's IDENT: escaped characters, letters, or underscores that a    *)
(* letter or digit comes after; no word of the language.                    *)
identifier(t) ==
  /\ t.text \notin Keyword
  /\ \E i \in DOMAIN t.text :
       /\ \A j \in 1..(i - 1) : t.text[j] = "_"
       /\ \/ t.text[i] \in Letter
          \/ i = 1 /\ t.text[i] = "\\"
          \/ i > 1 /\ t.text[i] \in Digit
Parses(t) == /\ t.token = "IDENTS" => identifier(t)
             /\ t.token = "OPCODE_LIST" => \A i \in DOMAIN t.ops : t.ops[i].op \notin KeywordOperator

(* `is >> result' for an unsigned int: what is out of its range becomes its *)
(* maximum, and a minus sign negates the result in its width.               *)
unsigned_int(n) == IF n > UINT_MAX \/ -n > UINT_MAX THEN UINT_MAX
                   ELSE n % (UINT_MAX + 1)
(* Mutant: hexadecimals are read as decimals, up to their x.                *)
node_text_to_decimal(t) == IF t.hex THEN 0 ELSE unsigned_int(t.n)

node_text_to(t) == unsigned_int(t.n)

(* The operations that can come of an OPCODE: operands not given are not    *)
(* initialised.  Mutant: a lone operand is not read.                        *)
MadeOperations_late(op) ==
  {[op |-> op.op, args |-> [k \in 1..2 |-> IF Len(op.args) = 2 THEN unsigned_int(op.args[k])
                                           ELSE rest[k]]] : rest \in [1..2 -> Garbage]}

MadeOperations(op) ==
  {[op |-> op.op, args |-> [k \in 1..2 |-> IF k <= Len(op.args) THEN unsigned_int(op.args[k])
                                           ELSE rest[k]]] : rest \in [1..2 -> Garbage]}

(* Assertions: an absolute offset of 0, and any other kind of value.        *)
Aborts(t) == \/ t.token = "ABSOLUTE_OFFSET" /\ node_text_to(t) = 0
             \/ t.token = "RELATIVE_OFFSET"

(* The values that can be made of a text.  A string literal stays as it is. *)
make_attribute_value(t) ==
  CASE t.token = "IDENTS" -> {[form |-> "NAME", chars |-> unescape_ident(t.text)]}
    [] t.token = "INT" -> {[form |-> "UNSIGNED", n |-> node_text_to(t)]}
    [] t.token = "ABSOLUTE_OFFSET" -> {[form |-> "REF", abs |-> TRUE, n |-> node_text_to(t)]}
    [] t.token = "STRING_LIT" -> {[form |-> "STRING", chars |-> t.text]}
    [] t.token \in {"KEYWORD_TRUE", "KEYWORD_FALSE"} ->
         {[form |-> "FLAG", flag |-> t.token = "KEYWORD_TRUE"]}
    [] t.token = "OPCODE_LIST" ->
         {[form |-> "LOCLIST", everywhere |-> TRUE, ops |-> ops] :
            ops \in {f \in [DOMAIN t.ops -> UNION {MadeOperations(t.ops[i]) : i \in DOMAIN t.ops}] :
                       \A i \in DOMAIN t.ops : f[i] \in MadeOperations(t.ops[i])}}
-----------------------------------------------------------------------------
VARIABLES given,      \* a value or a literal, as it was first found
          value,
          text,
          rereads,    \* how often the value was read
          status
vars == <<given, value, text, rereads, status>>

None == [form |-> "NONE"]
Init == /\ rereads = 0
        /\ \/ /\ given \in Values
              /\ value = given
              /\ text = [token |-> "NONE"]
              /\ status = "printing"
           \/ /\ given \in HandWritten
              /\ value = None
              /\ text = given
              /\ status = "reading"

PrintAgain == /\ status = "printing"
              /\ rereads < MaxRereads
              /\ text' = Printed(value)
              /\ status' = "reading"
              /\ UNCHANGED <<given, value, rereads>>

Read == /\ status = "reading"
        /\ Parses(text)
        /\ ~Aborts(text)
        /\ value' \in make_attribute_value(text)
        /\ rereads' = rereads + 1
        /\ status' = "printing"
        /\ UNCHANGED <<given, text>>

Refuse == /\ status = "reading"
          /\ ~Parses(text)
          /\ status' = "syntax error"
          /\ UNCHANGED <<given, value, text, rereads>>

Abort == /\ status = "reading"
         /\ Parses(text)
         /\ Aborts(text)
         /\ status' = "aborted"
         /\ UNCHANGED <<given, value, text, rereads>>

Next == PrintAgain \/ Read \/ Refuse \/ Abort
Spec == Init /\ [][Next]_vars
-----------------------------------------------------------------------------
FromFile == "form" \in DOMAIN given     \* not from a text written by hand
(* Any name is read back as it was, character by character, however often.  *)
(* Only words of the language, and names that begin with an underscore,     *)
(* may not get past the lexer.                                              *)
NamesReadBack ==
  FromFile /\ given.form = "NAME" =>
    /\ value = given
    /\ status # "aborted"
    /\ status = "syntax error" => given.chars \in Keyword \/ Head(given.chars) = "_"

(* The library's decoder, given a literal the printer wrote, returns what   *)
(* was to be written.                                                       *)
LiteralsDecode ==
  FromFile /\ text.token = "STRING_LIT" /\ value.form = "STRING" /\ status = "reading"
    => unescape_string_lit(text.text) = value.chars

(* Reading narrows a value, and changes its kind, once.  From then on it is *)
(* printed and read without a change, strings and failures excepted.        *)
(* Operands that a text written by hand has left out are printed for what   *)
(* was in the memory, and may be narrowed by one reading more.              *)
Settled ==
  [][Read /\ rereads > (IF FromFile THEN 0 ELSE 1) /\ value.form # "STRING"
       => Printed(value') = text]_vars

(* Numbers, operands of opcodes included, that an unsigned int can hold are *)
(* those of the file, whatever form they had and whatever base they were    *)
(* printed in; all others become numbers it can hold.                       *)
Numbers(v) ==
  CASE v.form \in {"UNSIGNED", "SIGNED", "ADDR", "REF"} -> <<v.n>>
    [] v.form = "LOCLIST" -> FlattenSeq([i \in DOMAIN v.ops |-> opcode_to_string(v.ops[i]).args])
    [] OTHER -> <<>>
SmallNumbersSurvive ==
  FromFile /\ (given.form = "LOCLIST" => given.everywhere) =>
    \A i \in DOMAIN Numbers(given) :
      IF Numbers(given)[i] \in 0..UINT_MAX THEN Numbers(value)[i] = Numbers(given)[i]
      ELSE rereads > 0 => Numbers(value)[i] \in 0..UINT_MAX

(* "end-of-string also terminates oct/hex escape sequences": a literal that *)
(* ends in the digits of one decodes as if another character came after.    *)
EndOfStringTerminatesEscapes ==
  text.token = "STRING_LIT" /\ text.text = Quoted(SubSeq(text.text, 2, Len(text.text) - 1))
    /\ Unescaped(text.text).digits # <<>>
    => unescape_string_lit(Front(text.text) \o <<"z", "\"">>)
         = unescape_string_lit(text.text) \o <<"z">>
=============================================================================
