SPECIFICATION Spec
CONSTANTS
  Char <- MCChar
  Letter = {"i", "f", "o", "r", "x", "a", "n", "z"}
  Keyword <- MCKeyword
  Operator <- MCOperator
  op_operand_count <- MCCount
  KeywordOperator = {"and"}
  Garbage = {0, 25}
  UINT_MAX = 7
  Values <- MCValues
  HandWritten <- MCHandWritten
  MaxRereads = 3
INVARIANTS
  NamesReadBack
  LiteralsDecode
  SmallNumbersSurvive
PROPERTIES
  Settled
CHECK_DEADLOCK FALSE
