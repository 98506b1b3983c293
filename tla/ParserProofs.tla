---------------------------- MODULE ParserProofs ----------------------------
(***************************************************************************)
(* What the parser does on any text: the shape of its stack and the spans    *)
(* its functions hold, and with them how it ends and how often it reports a *)
(* token.                                                                   *)
(***************************************************************************)
EXTENDS Parser, FiniteSetTheorems, SequenceTheorems, WellFoundedInduction, TLAPS

Lookaheads == Terminals \cup {"None"}

-----------------------------------------------------------------------------
(* The rules, each with the functions of its group.                         *)

FileNames ==
  {"program", "file", "source_elements", "source_element"}

StatementNames ==
  {"statement", "block", "alternative"}

VariableNames ==
  {"statement_list", "variable_statement", "annotated"}

SingleNames ==
  {"single_expression", "assignment", "new_expression", "member_index"}

BinaryNames ==
  {"bitwise_or_expression", "bitwise_and_expression", "equality_expression",
   "relational_expression", "additive_expression", "multipicative_expression",
   "bitwise_or", "bitwise_and", "equality", "relational", "additive",
   "multipicative"}

UnaryNames ==
  {"operand", "postfix"}

CallNames ==
  {"arguments_expression", "argument_list", "arguments", "more_arguments",
   "member_dot_expression", "member_dot", "this"}

LiteralNames ==
  {"identifier_expression", "elements", "more_elements"}

TypeNames ==
  {"type_annotation", "dimensions", "annotations", "annotation_value",
   "formal_parameter_list", "parameters", "more_parameters"}

FunctionNames ==
  {"function_declaration", "exported"}

ClassNames ==
  {"class_declaration", "class_elements", "class_element", "member"}

LEMMA FileDomain == \A la : DOMAIN FileRules(la) = FileNames
BY DEF FileRules, FileNames

LEMMA StatementDomain == \A la : DOMAIN StatementRules(la) = StatementNames
BY DEF StatementRules, StatementNames

LEMMA VariableDomain == \A la : DOMAIN VariableRules(la) = VariableNames
BY DEF VariableRules, VariableNames

LEMMA SingleDomain == \A la : DOMAIN SingleRules(la) = SingleNames
BY DEF SingleRules, SingleNames

LEMMA BinaryDomain == \A la : DOMAIN BinaryRules(la) = BinaryNames
BY DEF BinaryRules, BinaryNames

LEMMA UnaryDomain == \A la : DOMAIN UnaryRules(la) = UnaryNames
BY DEF UnaryRules, UnaryNames

LEMMA CallDomain == \A la : DOMAIN CallRules(la) = CallNames
BY DEF CallRules, CallNames

LEMMA LiteralDomain == \A la : DOMAIN LiteralRules(la) = LiteralNames
BY DEF LiteralRules, LiteralNames

LEMMA TypeDomain == \A la : DOMAIN TypeRules(la) = TypeNames
BY DEF TypeRules, TypeNames

LEMMA FunctionDomain == \A la : DOMAIN FunctionRules(la) = FunctionNames
BY DEF FunctionRules, FunctionNames

LEMMA ClassDomain == \A la : DOMAIN ClassRules(la) = ClassNames
BY DEF ClassRules, ClassNames

LEMMA RuleNamesAre ==
  RuleNames =
    FileNames \cup StatementNames \cup VariableNames \cup SingleNames \cup BinaryNames
      \cup UnaryNames \cup CallNames \cup LiteralNames \cup TypeNames \cup FunctionNames
      \cup ClassNames
BY FileDomain, StatementDomain, VariableDomain, SingleDomain, BinaryDomain,
   UnaryDomain, CallDomain, LiteralDomain, TypeDomain, FunctionDomain, ClassDomain
 DEF RuleNames, Groups

LEMMA TableOf ==
  ASSUME NEW la \in Lookaheads, NEW group \in Groups(la), NEW r \in DOMAIN group
  PROVE  r \in RuleNames /\ Table[la][r] = group[r]
<1>1. CASE group = FileRules(la)
  <2>1. r \in FileNames
    BY <1>1, FileDomain
  <2>2. \A h \in Groups(la) : r \in DOMAIN h => h = group
    BY <1>1, <2>1, FileDomain, StatementDomain, VariableDomain, SingleDomain,
       BinaryDomain, UnaryDomain, CallDomain, LiteralDomain, TypeDomain,
       FunctionDomain, ClassDomain
     DEF Groups, FileNames, StatementNames, VariableNames, SingleNames, BinaryNames,
         UnaryNames, CallNames, LiteralNames, TypeNames, FunctionNames, ClassNames
  <2> QED
    BY <2>1, <2>2, RuleNamesAre, Zenon DEF Table, Lookaheads
<1>2. CASE group = StatementRules(la)
  <2>1. r \in StatementNames
    BY <1>2, StatementDomain
  <2>2. \A h \in Groups(la) : r \in DOMAIN h => h = group
    BY <1>2, <2>1, FileDomain, StatementDomain, VariableDomain, SingleDomain,
       BinaryDomain, UnaryDomain, CallDomain, LiteralDomain, TypeDomain,
       FunctionDomain, ClassDomain
     DEF Groups, FileNames, StatementNames, VariableNames, SingleNames, BinaryNames,
         UnaryNames, CallNames, LiteralNames, TypeNames, FunctionNames, ClassNames
  <2> QED
    BY <2>1, <2>2, RuleNamesAre, Zenon DEF Table, Lookaheads
<1>3. CASE group = VariableRules(la)
  <2>1. r \in VariableNames
    BY <1>3, VariableDomain
  <2>2. \A h \in Groups(la) : r \in DOMAIN h => h = group
    BY <1>3, <2>1, FileDomain, StatementDomain, VariableDomain, SingleDomain,
       BinaryDomain, UnaryDomain, CallDomain, LiteralDomain, TypeDomain,
       FunctionDomain, ClassDomain
     DEF Groups, FileNames, StatementNames, VariableNames, SingleNames, BinaryNames,
         UnaryNames, CallNames, LiteralNames, TypeNames, FunctionNames, ClassNames
  <2> QED
    BY <2>1, <2>2, RuleNamesAre, Zenon DEF Table, Lookaheads
<1>4. CASE group = SingleRules(la)
  <2>1. r \in SingleNames
    BY <1>4, SingleDomain
  <2>2. \A h \in Groups(la) : r \in DOMAIN h => h = group
    BY <1>4, <2>1, FileDomain, StatementDomain, VariableDomain, SingleDomain,
       BinaryDomain, UnaryDomain, CallDomain, LiteralDomain, TypeDomain,
       FunctionDomain, ClassDomain
     DEF Groups, FileNames, StatementNames, VariableNames, SingleNames, BinaryNames,
         UnaryNames, CallNames, LiteralNames, TypeNames, FunctionNames, ClassNames
  <2> QED
    BY <2>1, <2>2, RuleNamesAre, Zenon DEF Table, Lookaheads
<1>5. CASE group = BinaryRules(la)
  <2>1. r \in BinaryNames
    BY <1>5, BinaryDomain
  <2>2. \A h \in Groups(la) : r \in DOMAIN h => h = group
    BY <1>5, <2>1, FileDomain, StatementDomain, VariableDomain, SingleDomain,
       BinaryDomain, UnaryDomain, CallDomain, LiteralDomain, TypeDomain,
       FunctionDomain, ClassDomain
     DEF Groups, FileNames, StatementNames, VariableNames, SingleNames, BinaryNames,
         UnaryNames, CallNames, LiteralNames, TypeNames, FunctionNames, ClassNames
  <2> QED
    BY <2>1, <2>2, RuleNamesAre, Zenon DEF Table, Lookaheads
<1>6. CASE group = UnaryRules(la)
  <2>1. r \in UnaryNames
    BY <1>6, UnaryDomain
  <2>2. \A h \in Groups(la) : r \in DOMAIN h => h = group
    BY <1>6, <2>1, FileDomain, StatementDomain, VariableDomain, SingleDomain,
       BinaryDomain, UnaryDomain, CallDomain, LiteralDomain, TypeDomain,
       FunctionDomain, ClassDomain
     DEF Groups, FileNames, StatementNames, VariableNames, SingleNames, BinaryNames,
         UnaryNames, CallNames, LiteralNames, TypeNames, FunctionNames, ClassNames
  <2> QED
    BY <2>1, <2>2, RuleNamesAre, Zenon DEF Table, Lookaheads
<1>7. CASE group = CallRules(la)
  <2>1. r \in CallNames
    BY <1>7, CallDomain
  <2>2. \A h \in Groups(la) : r \in DOMAIN h => h = group
    BY <1>7, <2>1, FileDomain, StatementDomain, VariableDomain, SingleDomain,
       BinaryDomain, UnaryDomain, CallDomain, LiteralDomain, TypeDomain,
       FunctionDomain, ClassDomain
     DEF Groups, FileNames, StatementNames, VariableNames, SingleNames, BinaryNames,
         UnaryNames, CallNames, LiteralNames, TypeNames, FunctionNames, ClassNames
  <2> QED
    BY <2>1, <2>2, RuleNamesAre, Zenon DEF Table, Lookaheads
<1>8. CASE group = LiteralRules(la)
  <2>1. r \in LiteralNames
    BY <1>8, LiteralDomain
  <2>2. \A h \in Groups(la) : r \in DOMAIN h => h = group
    BY <1>8, <2>1, FileDomain, StatementDomain, VariableDomain, SingleDomain,
       BinaryDomain, UnaryDomain, CallDomain, LiteralDomain, TypeDomain,
       FunctionDomain, ClassDomain
     DEF Groups, FileNames, StatementNames, VariableNames, SingleNames, BinaryNames,
         UnaryNames, CallNames, LiteralNames, TypeNames, FunctionNames, ClassNames
  <2> QED
    BY <2>1, <2>2, RuleNamesAre, Zenon DEF Table, Lookaheads
<1>9. CASE group = TypeRules(la)
  <2>1. r \in TypeNames
    BY <1>9, TypeDomain
  <2>2. \A h \in Groups(la) : r \in DOMAIN h => h = group
    BY <1>9, <2>1, FileDomain, StatementDomain, VariableDomain, SingleDomain,
       BinaryDomain, UnaryDomain, CallDomain, LiteralDomain, TypeDomain,
       FunctionDomain, ClassDomain
     DEF Groups, FileNames, StatementNames, VariableNames, SingleNames, BinaryNames,
         UnaryNames, CallNames, LiteralNames, TypeNames, FunctionNames, ClassNames
  <2> QED
    BY <2>1, <2>2, RuleNamesAre, Zenon DEF Table, Lookaheads
<1>10. CASE group = FunctionRules(la)
  <2>1. r \in FunctionNames
    BY <1>10, FunctionDomain
  <2>2. \A h \in Groups(la) : r \in DOMAIN h => h = group
    BY <1>10, <2>1, FileDomain, StatementDomain, VariableDomain, SingleDomain,
       BinaryDomain, UnaryDomain, CallDomain, LiteralDomain, TypeDomain,
       FunctionDomain, ClassDomain
     DEF Groups, FileNames, StatementNames, VariableNames, SingleNames, BinaryNames,
         UnaryNames, CallNames, LiteralNames, TypeNames, FunctionNames, ClassNames
  <2> QED
    BY <2>1, <2>2, RuleNamesAre, Zenon DEF Table, Lookaheads
<1>11. CASE group = ClassRules(la)
  <2>1. r \in ClassNames
    BY <1>11, ClassDomain
  <2>2. \A h \in Groups(la) : r \in DOMAIN h => h = group
    BY <1>11, <2>1, FileDomain, StatementDomain, VariableDomain, SingleDomain,
       BinaryDomain, UnaryDomain, CallDomain, LiteralDomain, TypeDomain,
       FunctionDomain, ClassDomain
     DEF Groups, FileNames, StatementNames, VariableNames, SingleNames, BinaryNames,
         UnaryNames, CallNames, LiteralNames, TypeNames, FunctionNames, ClassNames
  <2> QED
    BY <2>1, <2>2, RuleNamesAre, Zenon DEF Table, Lookaheads
<1> QED
  BY <1>1, <1>2, <1>3, <1>4, <1>5, <1>6, <1>7, <1>8, <1>9, <1>10, <1>11 DEF Groups
-----------------------------------------------------------------------------
(* What the functions put on the stack.                                     *)

\* The items whose place on the stack matters below, and the others.
Special ==
  {"program", "file", "File", "Eof", "source_elements", "class_element", "todo",
   "unwrap", "exported", "statement_list"}
Plain == Items \ Special

LEMMA OperatorsAre ==
  BinaryOperators =
    {"Star", "Slash", "Plus", "Minus", "Greater", "GreaterEqual", "Less",
     "LessEqual", "EqualEqual", "BangEqual", "And", "Or"}
<1>1. DOMAIN OperatorsOf = 1 .. 6
  BY DEF OperatorsOf
<1>2. Range(OperatorsOf) =
        {OperatorsOf[1], OperatorsOf[2], OperatorsOf[3], OperatorsOf[4], OperatorsOf[5],
         OperatorsOf[6]}
  BY <1>1 DEF Range
<1> QED
  BY <1>2 DEF OperatorsOf, BinaryOperators

\* The tokens that are no operators of binary_expression!, but for + and -.
OtherTokens ==
  {"True", "False", "String", "Integer", "HexInteger", "Float", "Not", "Eof",
   "IntegerTooLarge", "Identifier", "This", "New", "Class", "Constructor",
   "Export", "Function", "At", "If", "Else", "While", "Return", "Let", "Const",
   "LeftBrace", "RightBrace", "LeftParen", "RightParen", "LeftBracket",
   "RightBracket", "Semi", "Comma", "Colon", "Dot", "Equal", "PlusPlus",
   "MinusMinus"}

LEMMA TerminalsAre == \A t : t \in Terminals <=> t \in OtherTokens \cup BinaryOperators
<1>1. \A t \in PrefixOperators : t = "Not" \/ t \in BinaryOperators
  BY OperatorsAre DEF PrefixOperators
<1>2. OtherTokens = Literals \cup {"Not"} \cup
        {"Eof", "IntegerTooLarge", "Identifier", "This", "New", "Class",
         "Constructor", "Export", "Function", "At", "If", "Else", "While",
         "Return", "Let", "Const", "LeftBrace", "RightBrace", "LeftParen",
         "RightParen", "LeftBracket", "RightBracket", "Semi", "Comma", "Colon",
         "Dot", "Equal", "PlusPlus", "MinusMinus"}
  BY DEF OtherTokens, Literals
<1>3. "Not" \in PrefixOperators
  BY DEF PrefixOperators
<1>4. Terminals = Literals \cup BinaryOperators \cup PrefixOperators \cup
        {"Eof", "IntegerTooLarge", "Identifier", "This", "New", "Class",
         "Constructor", "Export", "Function", "At", "If", "Else", "While",
         "Return", "Let", "Const", "LeftBrace", "RightBrace", "LeftParen",
         "RightParen", "LeftBracket", "RightBracket", "Semi", "Comma", "Colon",
         "Dot", "Equal", "PlusPlus", "MinusMinus"}
  BY Zenon DEF Terminals
<1> QED
  BY <1>1, <1>2, <1>3, <1>4

LEMMA PlainTokens == \A t \in Terminals \ {"Eof"} : t \in Plain
<1>1. \A t \in OtherTokens : t \in Special => t = "Eof"
  BY DEF OtherTokens, Special
<1>2. \A t \in BinaryOperators : t \notin Special
  BY OperatorsAre DEF Special
<1> QED
  BY <1>1, <1>2, TerminalsAre, Zenon DEF Plain, Items

LEMMA PlainNodes ==
  {"BinaryExpression", "NewExpression", "MemberIndexExpression", "UnaryExpression",
   "PostfixExpression", "ArgumentsExpression", "ArgumentsList",
   "MemberDotExpression", "ArrayLiteral", "Literal", "Element"}
    \subseteq Plain
BY DEF Plain, Items, Nodes, Special

LEMMA PlainRules ==
  {"source_element", "statement", "block", "alternative", "variable_statement",
   "annotated", "single_expression", "assignment", "new_expression",
   "member_index", "bitwise_or_expression", "bitwise_and_expression",
   "equality_expression", "relational_expression", "additive_expression",
   "multipicative_expression", "bitwise_or", "bitwise_and", "equality",
   "relational", "additive", "multipicative", "operand", "postfix",
   "arguments_expression", "argument_list", "arguments", "more_arguments",
   "member_dot_expression", "member_dot", "this", "identifier_expression",
   "elements", "more_elements", "type_annotation", "dimensions", "annotations",
   "annotation_value", "formal_parameter_list", "parameters", "more_parameters",
   "function_declaration", "class_declaration", "class_elements", "member"}
    \subseteq Plain
BY RuleNamesAre
 DEF Plain, Items, Special, FileNames, StatementNames, VariableNames, SingleNames,
     BinaryNames, UnaryNames, CallNames, LiteralNames, TypeNames, FunctionNames,
     ClassNames
\* The functions that put something special on the stack.
Framing ==
  {"program", "file", "source_elements", "block", "statement_list", "function_declaration",
   "class_elements", "class_element", "identifier_expression"}

LEMMA FilePlain ==
  ASSUME NEW la \in Lookaheads, NEW r \in FileNames \ Framing
  PROVE  FileRules(la)[r] \in Seq(Plain)
<1> USE PlainTokens, PlainNodes, PlainRules, TerminalsAre
<1>1. FileRules(la).source_element \in Seq(Plain)
  BY DEF FileRules, OtherTokens, Optional
<1> QED
  BY <1>1 DEF FileNames, Framing

LEMMA StatementPlain ==
  ASSUME NEW la \in Lookaheads, NEW r \in StatementNames \ Framing
  PROVE  StatementRules(la)[r] \in Seq(Plain)
<1> USE PlainTokens, PlainNodes, PlainRules, TerminalsAre
<1>1. StatementRules(la).statement \in Seq(Plain)
  BY DEF StatementRules, OtherTokens, Optional
<1>2. StatementRules(la).alternative \in Seq(Plain)
  BY DEF StatementRules, OtherTokens, Optional
<1> QED
  BY <1>1, <1>2 DEF StatementNames, Framing

LEMMA VariablePlain ==
  ASSUME NEW la \in Lookaheads, NEW r \in VariableNames \ Framing
  PROVE  VariableRules(la)[r] \in Seq(Plain)
<1> USE PlainTokens, PlainNodes, PlainRules, TerminalsAre
<1>1. VariableRules(la).variable_statement \in Seq(Plain)
  BY DEF VariableRules, OtherTokens, Optional
<1>2. VariableRules(la).annotated \in Seq(Plain)
  BY DEF VariableRules, OtherTokens, Optional
<1> QED
  BY <1>1, <1>2 DEF VariableNames, Framing

LEMMA SinglePlain ==
  ASSUME NEW la \in Lookaheads, NEW r \in SingleNames \ Framing
  PROVE  SingleRules(la)[r] \in Seq(Plain)
<1> USE PlainTokens, PlainNodes, PlainRules, TerminalsAre
<1>1. SingleRules(la).single_expression \in Seq(Plain)
  BY DEF SingleRules, OtherTokens, Optional
<1>2. SingleRules(la).assignment \in Seq(Plain)
  BY DEF SingleRules, OtherTokens, Optional
<1>3. SingleRules(la).new_expression \in Seq(Plain)
  BY DEF SingleRules, OtherTokens, Optional
<1>4. SingleRules(la).member_index \in Seq(Plain)
  BY DEF SingleRules, OtherTokens, Optional
<1> QED
  BY <1>1, <1>2, <1>3, <1>4 DEF SingleNames, Framing

LEMMA LoopPlain ==
  ASSUME NEW la \in Lookaheads, NEW n \in 1 .. 6
  PROVE  Loop(n, la) \in Seq(Plain)
<1>1. CASE \E m \in 1 .. n : la \in OperatorsOf[m]
  <2> DEFINE level == CHOOSE m \in 1 .. n : la \in OperatorsOf[m]
  <2>1. level \in 1 .. 6 /\ la \in OperatorsOf[level]
    BY <1>1
  <2>2. la \in Plain
    <3>1. la \in BinaryOperators
      <4>1. DOMAIN OperatorsOf = 1 .. 6
        BY DEF OperatorsOf
      <4> QED
        BY <2>1, <4>1, Zenon DEF BinaryOperators, Range
    <3> QED
      BY <3>1, TerminalsAre, PlainTokens, OperatorsAre
  <2>3. Tighter(level) \in Plain
    <3>1. \A m \in 1 .. 6 : Tighter(m) \in Plain
      BY PlainRules DEF Tighter
    <3> QED
      BY <2>1, <3>1, Zenon
  <2>4. Levels[n] \in Plain
    BY PlainRules DEF Levels
  <2> QED
    BY <1>1, <2>2, <2>3, <2>4, PlainNodes DEF Loop
<1>2. CASE ~ \E m \in 1 .. n : la \in OperatorsOf[m]
  BY <1>2 DEF Loop
<1> QED
  BY <1>1, <1>2

LEMMA BinaryPlain ==
  ASSUME NEW la \in Lookaheads, NEW r \in BinaryNames \ Framing
  PROVE  BinaryRules(la)[r] \in Seq(Plain)
<1> USE PlainTokens, PlainNodes, PlainRules, TerminalsAre, LoopPlain
<1>1. BinaryRules(la).bitwise_or_expression \in Seq(Plain)
  BY DEF BinaryRules, OtherTokens, Optional
<1>2. BinaryRules(la).bitwise_and_expression \in Seq(Plain)
  BY DEF BinaryRules, OtherTokens, Optional
<1>3. BinaryRules(la).equality_expression \in Seq(Plain)
  BY DEF BinaryRules, OtherTokens, Optional
<1>4. BinaryRules(la).relational_expression \in Seq(Plain)
  BY DEF BinaryRules, OtherTokens, Optional
<1>5. BinaryRules(la).additive_expression \in Seq(Plain)
  BY DEF BinaryRules, OtherTokens, Optional
<1>6. BinaryRules(la).multipicative_expression \in Seq(Plain)
  BY DEF BinaryRules, OtherTokens, Optional
<1>7. BinaryRules(la).bitwise_or \in Seq(Plain)
  BY DEF BinaryRules, OtherTokens, Optional
<1>8. BinaryRules(la).bitwise_and \in Seq(Plain)
  BY DEF BinaryRules, OtherTokens, Optional
<1>9. BinaryRules(la).equality \in Seq(Plain)
  BY DEF BinaryRules, OtherTokens, Optional
<1>10. BinaryRules(la).relational \in Seq(Plain)
  BY DEF BinaryRules, OtherTokens, Optional
<1>11. BinaryRules(la).additive \in Seq(Plain)
  BY DEF BinaryRules, OtherTokens, Optional
<1>12. BinaryRules(la).multipicative \in Seq(Plain)
  BY DEF BinaryRules, OtherTokens, Optional
<1> QED
  BY <1>1, <1>2, <1>3, <1>4, <1>5, <1>6, <1>7, <1>8, <1>9, <1>10, <1>11, <1>12
   DEF BinaryNames, Framing

LEMMA UnaryPlain ==
  ASSUME NEW la \in Lookaheads, NEW r \in UnaryNames \ Framing
  PROVE  UnaryRules(la)[r] \in Seq(Plain)
<1> USE PlainTokens, PlainNodes, PlainRules, TerminalsAre, OperatorsAre
<1>1. UnaryRules(la).operand \in Seq(Plain)
  BY DEF UnaryRules, OtherTokens, PrefixOperators
<1>2. UnaryRules(la).postfix \in Seq(Plain)
  BY DEF UnaryRules, OtherTokens, PrefixOperators
<1> QED
  BY <1>1, <1>2 DEF UnaryNames, Framing

LEMMA CallPlain ==
  ASSUME NEW la \in Lookaheads, NEW r \in CallNames \ Framing
  PROVE  CallRules(la)[r] \in Seq(Plain)
<1> USE PlainTokens, PlainNodes, PlainRules, TerminalsAre
<1>1. CallRules(la).arguments_expression \in Seq(Plain)
  BY DEF CallRules, OtherTokens, Optional
<1>2. CallRules(la).argument_list \in Seq(Plain)
  BY DEF CallRules, OtherTokens, Optional
<1>3. CallRules(la).arguments \in Seq(Plain)
  BY DEF CallRules, OtherTokens, Optional
<1>4. CallRules(la).more_arguments \in Seq(Plain)
  BY DEF CallRules, OtherTokens, Optional
<1>5. CallRules(la).member_dot_expression \in Seq(Plain)
  BY DEF CallRules, OtherTokens, Optional
<1>6. CallRules(la).member_dot \in Seq(Plain)
  BY DEF CallRules, OtherTokens, Optional
<1>7. CallRules(la).this \in Seq(Plain)
  BY DEF CallRules, OtherTokens, Optional
<1> QED
  BY <1>1, <1>2, <1>3, <1>4, <1>5, <1>6, <1>7 DEF CallNames, Framing

LEMMA LiteralPlain ==
  ASSUME NEW la \in Lookaheads, NEW r \in LiteralNames \ Framing
  PROVE  LiteralRules(la)[r] \in Seq(Plain)
<1> USE PlainTokens, PlainNodes, PlainRules, TerminalsAre
<1>1. LiteralRules(la).elements \in Seq(Plain)
  BY DEF LiteralRules, OtherTokens, Optional
<1>2. LiteralRules(la).more_elements \in Seq(Plain)
  BY DEF LiteralRules, OtherTokens, Optional
<1> QED
  BY <1>1, <1>2 DEF LiteralNames, Framing

LEMMA TypePlain ==
  ASSUME NEW la \in Lookaheads, NEW r \in TypeNames \ Framing
  PROVE  TypeRules(la)[r] \in Seq(Plain)
<1> USE PlainTokens, PlainNodes, PlainRules, TerminalsAre
<1>1. TypeRules(la).type_annotation \in Seq(Plain)
  BY DEF TypeRules, OtherTokens, Optional
<1>2. TypeRules(la).dimensions \in Seq(Plain)
  BY DEF TypeRules, OtherTokens, Optional
<1>3. TypeRules(la).annotations \in Seq(Plain)
  BY DEF TypeRules, OtherTokens, Optional
<1>4. TypeRules(la).annotation_value \in Seq(Plain)
  BY DEF TypeRules, OtherTokens, Optional
<1>5. TypeRules(la).formal_parameter_list \in Seq(Plain)
  BY DEF TypeRules, OtherTokens, Optional
<1>6. TypeRules(la).parameters \in Seq(Plain)
  BY DEF TypeRules, OtherTokens, Optional
<1>7. TypeRules(la).more_parameters \in Seq(Plain)
  BY DEF TypeRules, OtherTokens, Optional
<1> QED
  BY <1>1, <1>2, <1>3, <1>4, <1>5, <1>6, <1>7 DEF TypeNames, Framing

LEMMA FunctionPlain ==
  ASSUME NEW la \in Lookaheads, NEW r \in FunctionNames \ Framing
  PROVE  FunctionRules(la)[r] \in Seq(Plain)
<1> USE PlainTokens, PlainNodes, PlainRules, TerminalsAre
<1>1. FunctionRules(la).exported \in Seq(Plain)
  BY DEF FunctionRules, OtherTokens, Optional
<1> QED
  BY <1>1 DEF FunctionNames, Framing

LEMMA ClassPlain ==
  ASSUME NEW la \in Lookaheads, NEW r \in ClassNames \ Framing
  PROVE  ClassRules(la)[r] \in Seq(Plain)
<1> USE PlainTokens, PlainNodes, PlainRules, TerminalsAre
<1>1. ClassRules(la).class_declaration \in Seq(Plain)
  BY DEF ClassRules, OtherTokens, MemberStart
<1>2. ClassRules(la).member \in Seq(Plain)
  BY DEF ClassRules, OtherTokens, MemberStart
<1> QED
  BY <1>1, <1>2 DEF ClassNames, Framing

LEMMA PlainBody ==
  ASSUME NEW la \in Lookaheads, NEW r \in RuleNames \ Framing
  PROVE  Table[la][r] \in Seq(Plain)
<1>1. CASE r \in FileNames
  BY <1>1, FileDomain, FilePlain, TableOf DEF Groups
<1>2. CASE r \in StatementNames
  BY <1>2, StatementDomain, StatementPlain, TableOf DEF Groups
<1>3. CASE r \in VariableNames
  BY <1>3, VariableDomain, VariablePlain, TableOf DEF Groups
<1>4. CASE r \in SingleNames
  BY <1>4, SingleDomain, SinglePlain, TableOf DEF Groups
<1>5. CASE r \in BinaryNames
  BY <1>5, BinaryDomain, BinaryPlain, TableOf DEF Groups
<1>6. CASE r \in UnaryNames
  BY <1>6, UnaryDomain, UnaryPlain, TableOf DEF Groups
<1>7. CASE r \in CallNames
  BY <1>7, CallDomain, CallPlain, TableOf DEF Groups
<1>8. CASE r \in LiteralNames
  BY <1>8, LiteralDomain, LiteralPlain, TableOf DEF Groups
<1>9. CASE r \in TypeNames
  BY <1>9, TypeDomain, TypePlain, TableOf DEF Groups
<1>10. CASE r \in FunctionNames
  BY <1>10, FunctionDomain, FunctionPlain, TableOf DEF Groups
<1>11. CASE r \in ClassNames
  BY <1>11, ClassDomain, ClassPlain, TableOf DEF Groups
<1> QED
  BY <1>1, <1>2, <1>3, <1>4, <1>5, <1>6, <1>7, <1>8, <1>9, <1>10, <1>11, RuleNamesAre

LEMMA FramingBodies ==
  ASSUME NEW la \in Lookaheads
  PROVE  /\ Framing \subseteq RuleNames
         /\ Table[la]["program"] = IF la = "None" THEN <<>> ELSE <<"file", "program">>
         /\ Table[la]["file"] = <<"source_elements", "Eof", "File">>
         /\ Table[la]["source_elements"] =
              IF la = "None" THEN <<"unwrap">>
              ELSE IF la = "Eof" THEN <<>> ELSE <<"source_element", "source_elements">>
         /\ Table[la]["block"] = <<"LeftBrace", "statement_list", "RightBrace">>
         /\ Table[la]["statement_list"] =
              IF la \in {"None", "RightBrace"} THEN <<>> ELSE <<"statement", "statement_list">>
         /\ Table[la]["function_declaration"] =
              <<"annotations", "exported", "Function", "Identifier", "formal_parameter_list",
                "annotated", "block">>
         /\ Table[la]["class_elements"] =
              IF la = "RightBrace" THEN <<>> ELSE <<"class_element", "class_elements">>
<1>1. Framing \subseteq RuleNames
  BY RuleNamesAre
   DEF Framing, FileNames, StatementNames, VariableNames, FunctionNames, ClassNames,
       LiteralNames
<1>2. \A r \in FileNames : Table[la][r] = FileRules(la)[r]
  BY FileDomain, TableOf DEF Groups
<1>3. \A r \in StatementNames : Table[la][r] = StatementRules(la)[r]
  BY StatementDomain, TableOf DEF Groups
<1>4. \A r \in VariableNames : Table[la][r] = VariableRules(la)[r]
  BY VariableDomain, TableOf DEF Groups
<1>5. \A r \in FunctionNames : Table[la][r] = FunctionRules(la)[r]
  BY FunctionDomain, TableOf DEF Groups
<1>6. \A r \in ClassNames : Table[la][r] = ClassRules(la)[r]
  BY ClassDomain, TableOf DEF Groups
<1>7. \A r \in LiteralNames : Table[la][r] = LiteralRules(la)[r]
  BY LiteralDomain, TableOf DEF Groups
<1>8. Table[la]["program"] = FileRules(la).program
  BY <1>2 DEF FileNames
<1>9. Table[la]["file"] = FileRules(la).file
  BY <1>2 DEF FileNames
<1>10. Table[la]["source_elements"] = FileRules(la).source_elements
  BY <1>2 DEF FileNames
<1>11. Table[la]["block"] = StatementRules(la).block
  BY <1>3 DEF StatementNames
<1>12. Table[la]["statement_list"] = VariableRules(la).statement_list
  BY <1>4 DEF VariableNames
<1>13. Table[la]["function_declaration"] = FunctionRules(la).function_declaration
  BY <1>5 DEF FunctionNames
<1>14. Table[la]["class_elements"] = ClassRules(la).class_elements
  BY <1>6 DEF ClassNames
<1> QED
  BY <1>1, <1>8, <1>9, <1>10, <1>11, <1>12, <1>13, <1>14
   DEF FileRules, StatementRules, VariableRules, FunctionRules, ClassRules

LEMMA ClassElementBody ==
  ASSUME NEW la \in Lookaheads
  PROVE  \/ Table[la]["class_element"] \in Seq(Plain)
         \/ /\ Table[la]["class_element"] = <<"todo">>
            /\ la \notin {"Constructor", "Identifier", "At"}
<1>1. Table[la]["class_element"] = ClassRules(la).class_element
  BY ClassDomain, TableOf DEF Groups, ClassNames
<1>2. CASE la = "Constructor"
  BY <1>1, <1>2, PlainTokens, PlainRules, TerminalsAre
   DEF ClassRules, OtherTokens, MemberStart
<1>3. CASE la \in MemberStart
  <2>1. ClassRules(la).class_element = <<"annotations", "Identifier", "member">>
    BY <1>3 DEF ClassRules, MemberStart
  <2> QED
    BY <1>1, <2>1, PlainTokens, PlainRules, TerminalsAre DEF OtherTokens
<1>4. CASE la # "Constructor" /\ la \notin MemberStart
  <2>1. ClassRules(la).class_element = <<"todo">>
    BY <1>4 DEF ClassRules
  <2> QED
    BY <1>1, <1>4, <2>1 DEF MemberStart
<1> QED
  BY <1>2, <1>3, <1>4

LEMMA IdentifierBody ==
  ASSUME NEW la \in Lookaheads
  PROVE  \/ Table[la]["identifier_expression"] \in Seq(Plain)
         \/ /\ Table[la]["identifier_expression"] = <<"IntegerTooLarge", "unwrap">>
            /\ la = "IntegerTooLarge"
<1> DEFINE body == LiteralRules(la).identifier_expression
<1>1. Table[la]["identifier_expression"] = body
  BY LiteralDomain, TableOf DEF Groups, LiteralNames
<1>2. \/ body = <<"LeftBracket", "elements", "RightBracket", "ArrayLiteral">>
      \/ body = <<la>> /\ la \in Literals \cup {"Identifier"}
      \/ body = <<la, "unwrap">> /\ la = "IntegerTooLarge"
      \/ body = <<"Literal">>
  BY DEF LiteralRules
<1> HIDE DEF body
<1>3. \A t \in Literals \cup {"Identifier", "LeftBracket", "RightBracket"} : t \in Plain
  BY PlainTokens, TerminalsAre DEF OtherTokens, Literals
<1>4. "elements" \in Plain /\ "ArrayLiteral" \in Plain /\ "Literal" \in Plain
  BY PlainNodes, PlainRules
<1>5. CASE body = <<la>> /\ la \in Literals \cup {"Identifier"}
  BY <1>1, <1>3, <1>5
<1>6. CASE body = <<"LeftBracket", "elements", "RightBracket", "ArrayLiteral">>
  BY <1>1, <1>3, <1>4, <1>6
<1>7. CASE body = <<"Literal">>
  BY <1>1, <1>4, <1>7
<1>8. CASE body = <<la, "unwrap">> /\ la = "IntegerTooLarge"
  BY <1>1, <1>8
<1> QED
  BY <1>2, <1>5, <1>6, <1>7, <1>8, Zenon

-----------------------------------------------------------------------------
(* The shape of the stack.                                                  *)

\* What stands below everything a file is made of.
Outer == {"program", "file", "File", "Eof", "source_elements"}
Inside == Items \ Outer

\* What may follow an item, and how a function may begin.
Pair(x, y) ==
  /\ x = "statement_list" => y = "RightBrace"
  /\ x = "exported" => y = "Function"
  /\ y = "unwrap" => x = "IntegerTooLarge"
  /\ y \notin {"class_element", "todo"}
Linked(s) == \A k \in 1 .. Len(s) - 1 : Pair(s[k], s[k + 1])
Begins(x, la) ==
  /\ x = "class_element" => la # "RightBrace"
  /\ x = "todo" => la \notin {"Constructor", "Identifier", "At", "RightBrace"}
  /\ x # "unwrap"

LEMMA PlainIs ==
  /\ Plain \subseteq Inside
  /\ \A x, y \in Plain : Pair(x, y)
  /\ \A la : \A x \in Plain : Begins(x, la)
  /\ \A x \in Plain : x \notin {"exported", "statement_list", "unwrap"}
<1>1. Plain \subseteq Inside
  BY DEF Plain, Inside, Special, Outer
<1>2. \A x \in Plain : x \notin Special
  BY DEF Plain
<1> QED
  BY <1>1, <1>2 DEF Special, Pair, Begins

\* The functions other than those of a whole file.
LEMMA BodyIs ==
  ASSUME NEW la \in Lookaheads, NEW r \in RuleNames \ {"program", "file", "source_elements"},
         Begins(r, la)
  PROVE  /\ Table[la][r] \in Seq(Inside)
         /\ Linked(Table[la][r])
         /\ Table[la][r] # <<>> =>
              /\ Begins(Table[la][r][1], la)
              /\ LET last == Table[la][r][Len(Table[la][r])]
                 IN  last # "exported" /\ (last = "statement_list" => r = "statement_list")
<1> DEFINE body == Table[la][r]
<1>1. CASE body \in Seq(Plain)
  <2>1. body \in Seq(Inside)
    BY <1>1, PlainIs
  <2>2. \A k \in 1 .. Len(body) : body[k] \in Plain
    BY <1>1
  <2> HIDE DEF body
  <2>3. Linked(body)
    BY <1>1, <2>2, PlainIs DEF Linked
  <2>4. body # <<>> => body[1] \in Plain /\ body[Len(body)] \in Plain
    BY <1>1, <2>2
  <2> QED
    BY <2>1, <2>3, <2>4, PlainIs, Zenon DEF body
<1>2. CASE r \notin Framing
  BY <1>1, <1>2, PlainBody
<1>3. /\ {"LeftBrace", "RightBrace", "Function", "Identifier"} \subseteq Inside
      /\ {"statement", "annotations", "formal_parameter_list", "annotated", "block"}
            \subseteq Inside
      /\ {"statement_list", "exported", "class_elements", "class_element"} \subseteq Inside
      /\ {"todo", "unwrap", "IntegerTooLarge"} \subseteq Inside
  <2>1. {"LeftBrace", "RightBrace", "Function", "Identifier", "IntegerTooLarge"} \subseteq Inside
    BY PlainIs, PlainTokens, TerminalsAre DEF OtherTokens
  <2>2. {"statement", "annotations", "formal_parameter_list", "annotated", "block",
         "class_elements"} \subseteq Inside
    BY PlainIs, PlainRules
  <2>3. {"statement_list", "exported", "class_element"} \subseteq Inside
    BY RuleNamesAre DEF Inside, Outer, Items, VariableNames, FunctionNames, ClassNames
  <2>4. {"todo", "unwrap"} \subseteq Inside
    BY DEF Inside, Outer, Items
  <2> QED
    BY <2>1, <2>2, <2>3, <2>4
<1>4. CASE body = <<>>
  BY <1>4 DEF Linked
<1>5. CASE r = "block"
  <2>1. body = <<"LeftBrace", "statement_list", "RightBrace">>
    BY <1>5, FramingBodies
  <2> QED
    BY <1>3, <1>5, <2>1 DEF Linked, Pair, Begins
<1>6. CASE r = "statement_list"
  <2>1. CASE body = <<"statement", "statement_list">>
    BY <1>3, <1>6, <2>1 DEF Linked, Pair, Begins
  <2> QED
    BY <1>6, <1>4, <2>1, FramingBodies
<1>7. CASE r = "function_declaration"
  <2>1. body = <<"annotations", "exported", "Function", "Identifier", "formal_parameter_list",
                 "annotated", "block">>
    BY <1>7, FramingBodies
  <2> QED
    BY <1>3, <1>7, <2>1 DEF Linked, Pair, Begins
<1>8. CASE r = "class_elements"
  <2>1. CASE body = <<"class_element", "class_elements">> /\ la # "RightBrace"
    BY <1>3, <1>8, <2>1 DEF Linked, Pair, Begins
  <2> QED
    BY <1>8, <1>4, <2>1, FramingBodies
<1>9. CASE r = "class_element"
  <2>1. CASE body = <<"todo">> /\ la \notin {"Constructor", "Identifier", "At"}
    BY <1>3, <1>9, <2>1 DEF Linked, Pair, Begins
  <2> QED
    BY <1>1, <1>9, <2>1, ClassElementBody
<1>10. CASE r = "identifier_expression"
  <2>1. CASE body = <<"IntegerTooLarge", "unwrap">>
    BY <1>3, <1>10, <2>1 DEF Linked, Pair, Begins
  <2> QED
    BY <1>1, <1>10, <2>1, IdentifierBody
<1> QED
  BY <1>2, <1>5, <1>6, <1>7, <1>8, <1>9, <1>10 DEF Framing

\* A stack within a file: something, to be followed by the rest of the file, its
\* end, and the next file.
Framed(s) ==
  /\ Len(s) >= 4
  /\ s[Len(s) - 3] = "source_elements" /\ s[Len(s) - 2] = "Eof"
  /\ s[Len(s) - 1] = "File" /\ s[Len(s)] = "program"
  /\ \A k \in 1 .. Len(s) - 4 : s[k] \in Inside

Frame == <<"source_elements", "Eof", "File", "program">>

LEMMA TailIs ==
  ASSUME NEW s \in Seq(Items), s # <<>>
  PROVE  /\ Tail(s) \in Seq(Items) /\ Len(Tail(s)) = Len(s) - 1
         /\ \A k \in 1 .. Len(s) - 1 : Tail(s)[k] = s[k + 1]
         /\ Head(s) = s[1] /\ Len(s) \in Nat /\ Len(s) >= 1
OBVIOUS

LEMMA CalledIs ==
  ASSUME NEW b \in Seq(Items), NEW s \in Seq(Items), s # <<>>
  PROVE  /\ b \o Tail(s) \in Seq(Items) /\ Len(b \o Tail(s)) = Len(b) + Len(s) - 1
         /\ \A k \in 1 .. Len(b) : (b \o Tail(s))[k] = b[k]
         /\ \A k \in Len(b) + 1 .. Len(b) + Len(s) - 1 : (b \o Tail(s))[k] = s[k - Len(b) + 1]
<1>1. Tail(s) \in Seq(Items) /\ Len(Tail(s)) = Len(s) - 1
  BY TailIs
<1>2. ASSUME NEW k \in Len(b) + 1 .. Len(b) + Len(s) - 1
      PROVE  (b \o Tail(s))[k] = s[k - Len(b) + 1]
  <2>1. k - Len(b) \in 1 .. Len(s) - 1
    OBVIOUS
  <2>2. (b \o Tail(s))[k] = Tail(s)[k - Len(b)]
    BY <1>1
  <2> QED
    BY <2>1, <2>2, TailIs
<1> QED
  BY <1>1, <1>2

LEMMA FromIs ==
  ASSUME NEW s \in Seq(Items), NEW l \in 1 .. Len(s)
  PROVE  LET t == SubSeq(s, l, Len(s))
         IN  /\ t \in Seq(Items) /\ Len(t) = Len(s) - l + 1
             /\ \A k \in 1 .. Len(s) - l + 1 : t[k] = s[k + l - 1]
OBVIOUS

LEMMA JoinedIs ==
  ASSUME NEW u \in Seq(Items), NEW v \in Seq(Items), NEW t \in Seq(Items),
         Len(t) = Len(u) + Len(v),
         \A k \in 1 .. Len(u) : t[k] = u[k],
         \A k \in 1 .. Len(v) : t[Len(u) + k] = v[k]
  PROVE  u \o v = t
<1>1. u \o v \in Seq(Items) /\ Len(u \o v) = Len(t) /\ Len(u) \in Nat /\ Len(v) \in Nat
  OBVIOUS
<1>2. ASSUME NEW k \in 1 .. Len(u \o v)
      PROVE  (u \o v)[k] = t[k]
  <2>1. CASE k <= Len(u)
    BY <1>1, <2>1
  <2>2. CASE k > Len(u)
    <3>1. k - Len(u) \in 1 .. Len(v) /\ Len(u) + (k - Len(u)) = k
      BY <1>1, <2>2
    <3>2. (u \o v)[k] = v[k - Len(u)]
      BY <1>1, <2>2
    <3>3. t[Len(u) + (k - Len(u))] = v[k - Len(u)]
      BY <3>1
    <3> QED
      BY <3>1, <3>2, <3>3
  <2> QED
    BY <1>1, <2>1, <2>2
<1> QED
  BY <1>1, <1>2, SeqEqual

LEMMA FourIs ==
  ASSUME NEW a \in Items, NEW b \in Items, NEW c \in Items, NEW d \in Items
  PROVE  /\ <<a>> \o <<b, c, d>> = <<a, b, c, d>>
         /\ <<a, b, c>> \o <<d>> = <<a, b, c, d>>
<1> DEFINE t == <<a, b, c, d>>
           u == <<a>>
           v == <<b, c, d>>
           x == <<a, b, c>>
           y == <<d>>
<1>1. t \in Seq(Items) /\ Len(t) = 4 /\ t[1] = a /\ t[2] = b /\ t[3] = c /\ t[4] = d
  OBVIOUS
<1>2. /\ u \in Seq(Items) /\ Len(u) = 1 /\ u[1] = a
      /\ v \in Seq(Items) /\ Len(v) = 3 /\ v[1] = b /\ v[2] = c /\ v[3] = d
      /\ x \in Seq(Items) /\ Len(x) = 3 /\ x[1] = a /\ x[2] = b /\ x[3] = c
      /\ y \in Seq(Items) /\ Len(y) = 1 /\ y[1] = d
  OBVIOUS
<1> HIDE DEF t, u, v, x, y
<1>3. u \o v = t
  <2>1. \A k \in 1 .. Len(u) : t[k] = u[k]
    BY <1>1, <1>2
  <2>2. \A k \in 1 .. Len(v) : t[Len(u) + k] = v[k]
    <3>1. \A k \in 1 .. 3 : k = 1 \/ k = 2 \/ k = 3
      OBVIOUS
    <3>2. t[Len(u) + 1] = v[1] /\ t[Len(u) + 2] = v[2] /\ t[Len(u) + 3] = v[3]
      BY <1>1, <1>2
    <3> QED
      BY <1>1, <1>2, <3>1, <3>2
  <2>3. Len(t) = Len(u) + Len(v)
    BY <1>1, <1>2
  <2> QED
    BY <1>1, <1>2, <2>1, <2>2, <2>3, JoinedIs, Zenon
<1>4. x \o y = t
  <2>1. \A k \in 1 .. Len(x) : t[k] = x[k]
    BY <1>1, <1>2
  <2>2. \A k \in 1 .. Len(y) : t[Len(x) + k] = y[k]
    BY <1>1, <1>2
  <2>3. Len(t) = Len(x) + Len(y)
    BY <1>1, <1>2
  <2> QED
    BY <1>1, <1>2, <2>1, <2>2, <2>3, JoinedIs, Zenon
<1> QED
  BY <1>3, <1>4 DEF t, u, v, x, y
LEMMA LinkedTail ==
  ASSUME NEW s \in Seq(Items), s # <<>>, Linked(s)
  PROVE  Linked(Tail(s)) /\ (Len(s) > 1 => Pair(s[1], Tail(s)[1]))
<1>1. ASSUME NEW k \in 1 .. Len(Tail(s)) - 1
      PROVE  Pair(Tail(s)[k], Tail(s)[k + 1])
  <2>1. k + 1 \in 1 .. Len(s) - 1 /\ k \in 1 .. Len(s) - 1
    BY TailIs
  <2>2. Tail(s)[k] = s[k + 1] /\ Tail(s)[k + 1] = s[k + 1 + 1]
    BY <2>1, TailIs
  <2> QED
    BY <2>1, <2>2 DEF Linked
<1>2. Len(s) > 1 => Pair(s[1], Tail(s)[1])
  <2>1. ASSUME Len(s) > 1
        PROVE  Pair(s[1], Tail(s)[1])
    <3>1. Tail(s)[1] = s[1 + 1] /\ 1 \in 1 .. Len(s) - 1
      BY <2>1, TailIs
    <3> QED
      BY <3>1 DEF Linked
  <2> QED
    BY <2>1
<1> QED
  BY <1>1, <1>2 DEF Linked

LEMMA LinkedFrom ==
  ASSUME NEW s \in Seq(Items), Linked(s), NEW l \in 1 .. Len(s)
  PROVE  Linked(SubSeq(s, l, Len(s)))
<1> DEFINE t == SubSeq(s, l, Len(s))
<1>1. ASSUME NEW k \in 1 .. Len(t) - 1
      PROVE  Pair(t[k], t[k + 1])
  <2>1. k + l - 1 \in 1 .. Len(s) - 1 /\ k + 1 \in 1 .. Len(s) - l + 1
    BY FromIs
  <2>2. t[k] = s[k + l - 1] /\ t[k + 1] = s[k + l - 1 + 1]
    BY <2>1, FromIs
  <2> QED
    BY <2>1, <2>2 DEF Linked
<1> QED
  BY <1>1 DEF Linked

LEMMA LinkedCall ==
  ASSUME NEW b \in Seq(Items), NEW s \in Seq(Items), s # <<>>, Linked(b), Linked(s),
         b # <<>> /\ Len(s) > 1 => Pair(b[Len(b)], s[2])
  PROVE  Linked(b \o Tail(s))
<1> DEFINE t == b \o Tail(s)
<1>1. Len(b) \in Nat /\ Len(s) \in Nat /\ Len(s) >= 1 /\ Len(t) = Len(b) + Len(s) - 1
  BY CalledIs, TailIs
<1>2. ASSUME NEW k \in 1 .. Len(t) - 1
      PROVE  Pair(t[k], t[k + 1])
  <2>1. CASE k < Len(b)
    <3>1. t[k] = b[k] /\ t[k + 1] = b[k + 1] /\ k \in 1 .. Len(b) - 1
      BY <1>1, <2>1, CalledIs
    <3> QED
      BY <3>1 DEF Linked
  <2>2. CASE k = Len(b)
    <3>1. t[k] = b[k] /\ t[k + 1] = s[k + 1 - Len(b) + 1] /\ k + 1 - Len(b) + 1 = 2
      BY <1>1, <2>2, CalledIs
    <3>2. b # <<>> /\ Len(s) > 1
      BY <1>1, <2>2
    <3> QED
      BY <2>2, <3>1, <3>2
  <2>3. CASE k > Len(b)
    <3>1. /\ t[k] = s[k - Len(b) + 1] /\ t[k + 1] = s[k + 1 - Len(b) + 1]
          /\ k + 1 - Len(b) + 1 = k - Len(b) + 1 + 1 /\ k - Len(b) + 1 \in 1 .. Len(s) - 1
      BY <1>1, <2>3, CalledIs
    <3> QED
      BY <3>1 DEF Linked
  <2> QED
    BY <1>1, <2>1, <2>2, <2>3
<1> QED
  BY <1>2 DEF Linked

LEMMA FramedTail ==
  ASSUME NEW s \in Seq(Items), Framed(s), s[1] # "source_elements"
  PROVE  Framed(Tail(s)) /\ Len(s) > 4 /\ s[1] \in Inside
<1> DEFINE t == Tail(s)
<1>1. s # <<>> /\ Len(s) \in Nat /\ Len(s) >= 4
  BY DEF Framed
<1>2. Len(s) # 4
  BY <1>1 DEF Framed
<1>3. Len(s) > 4 /\ Len(t) = Len(s) - 1 /\ s[1] \in Inside
  BY <1>1, <1>2, TailIs DEF Framed
<1>4. ASSUME NEW k \in 1 .. Len(t)
      PROVE  t[k] = s[k + 1]
  BY <1>1, <1>3, TailIs
<1>5. /\ Len(t) - 3 \in 1 .. Len(t) /\ Len(t) - 3 + 1 = Len(s) - 3
      /\ Len(t) - 2 \in 1 .. Len(t) /\ Len(t) - 2 + 1 = Len(s) - 2
      /\ Len(t) - 1 \in 1 .. Len(t) /\ Len(t) - 1 + 1 = Len(s) - 1
      /\ Len(t) \in 1 .. Len(t) /\ Len(t) + 1 = Len(s)
  BY <1>1, <1>3
<1>6. \A k \in 1 .. Len(t) - 4 : t[k] \in Inside
  <2>1. \A k \in 1 .. Len(t) - 4 : k \in 1 .. Len(t) /\ k + 1 \in 1 .. Len(s) - 4
    BY <1>1, <1>3
  <2> QED
    BY <1>4, <2>1 DEF Framed
<1> HIDE DEF t
<1>7. /\ t[Len(t) - 3] = s[Len(s) - 3] /\ t[Len(t) - 2] = s[Len(s) - 2]
      /\ t[Len(t) - 1] = s[Len(s) - 1] /\ t[Len(t)] = s[Len(s)]
  BY <1>4, <1>5
<1>8. Framed(t)
  BY <1>1, <1>3, <1>6, <1>7 DEF Framed
<1> QED
  BY <1>3, <1>8 DEF t

LEMMA FramedTop ==
  ASSUME NEW s \in Seq(Items), Framed(s)
  PROVE  s # <<>> /\ s[1] \in Inside \cup {"source_elements"} /\ s[1] # "File"
<1>1. s # <<>> /\ s[1] \in Inside \cup {"source_elements"}
  BY FramedTail DEF Framed
<1> QED
  BY <1>1 DEF Inside, Outer

LEMMA FramedCall ==
  ASSUME NEW b \in Seq(Inside), NEW s \in Seq(Items), Framed(s), s[1] # "source_elements"
  PROVE  Framed(b \o Tail(s))
<1> DEFINE t == b \o Tail(s)
<1>1. s # <<>> /\ Len(s) \in Nat /\ Len(s) > 4 /\ b \in Seq(Items) /\ Len(b) \in Nat
  BY FramedTail DEF Framed, Inside
<1>2. Len(t) = Len(b) + Len(s) - 1
  BY <1>1, CalledIs
<1>3. ASSUME NEW k \in Len(b) + 1 .. Len(t)
      PROVE  t[k] = s[k - Len(b) + 1]
  BY <1>1, <1>2, CalledIs
<1>4. ASSUME NEW k \in 1 .. Len(b)
      PROVE  t[k] \in Inside
  BY <1>1, CalledIs
<1>5. /\ Len(t) - 3 \in Len(b) + 1 .. Len(t) /\ Len(t) - 3 - Len(b) + 1 = Len(s) - 3
      /\ Len(t) - 2 \in Len(b) + 1 .. Len(t) /\ Len(t) - 2 - Len(b) + 1 = Len(s) - 2
      /\ Len(t) - 1 \in Len(b) + 1 .. Len(t) /\ Len(t) - 1 - Len(b) + 1 = Len(s) - 1
      /\ Len(t) \in Len(b) + 1 .. Len(t) /\ Len(t) - Len(b) + 1 = Len(s)
  BY <1>1, <1>2
<1>6. ASSUME NEW k \in 1 .. Len(t) - 4
      PROVE  t[k] \in Inside
  <2>1. CASE k \in 1 .. Len(b)
    BY <1>4, <2>1
  <2>2. CASE k > Len(b)
    <3>1. k \in Len(b) + 1 .. Len(t) /\ k - Len(b) + 1 \in 1 .. Len(s) - 4
      BY <1>1, <1>2, <2>2
    <3> QED
      BY <1>3, <3>1 DEF Framed
  <2> QED
    BY <1>1, <2>1, <2>2
<1>7. Len(t) >= 4
  BY <1>1, <1>2
<1> HIDE DEF t
<1>8. /\ t[Len(t) - 3] = s[Len(s) - 3] /\ t[Len(t) - 2] = s[Len(s) - 2]
      /\ t[Len(t) - 1] = s[Len(s) - 1] /\ t[Len(t)] = s[Len(s)]
  BY <1>3, <1>5
<1>9. Framed(t)
  BY <1>6, <1>7, <1>8 DEF Framed
<1> QED
  BY <1>9 DEF t

LEMMA FramedFrom ==
  ASSUME NEW s \in Seq(Items), Framed(s), NEW l \in 1 .. Len(s) - 3
  PROVE  Framed(SubSeq(s, l, Len(s)))
<1> DEFINE t == SubSeq(s, l, Len(s))
<1>1. Len(s) \in Nat /\ Len(s) >= 4 /\ Len(t) = Len(s) - l + 1
  BY FromIs DEF Framed
<1>2. ASSUME NEW k \in 1 .. Len(t)
      PROVE  t[k] = s[k + l - 1]
  BY <1>1, FromIs
<1>3. /\ Len(t) - 3 \in 1 .. Len(t) /\ Len(t) - 3 + l - 1 = Len(s) - 3
      /\ Len(t) - 2 \in 1 .. Len(t) /\ Len(t) - 2 + l - 1 = Len(s) - 2
      /\ Len(t) - 1 \in 1 .. Len(t) /\ Len(t) - 1 + l - 1 = Len(s) - 1
      /\ Len(t) \in 1 .. Len(t) /\ Len(t) + l - 1 = Len(s)
  BY <1>1
<1>4. ASSUME NEW k \in 1 .. Len(t) - 4
      PROVE  t[k] \in Inside
  <2>1. k \in 1 .. Len(t) /\ k + l - 1 \in 1 .. Len(s) - 4
    BY <1>1
  <2> QED
    BY <1>2, <2>1 DEF Framed
<1>5. Len(t) >= 4
  BY <1>1
<1> HIDE DEF t
<1>6. /\ t[Len(t) - 3] = s[Len(s) - 3] /\ t[Len(t) - 2] = s[Len(s) - 2]
      /\ t[Len(t) - 1] = s[Len(s) - 1] /\ t[Len(t)] = s[Len(s)]
  BY <1>2, <1>3
<1>7. Framed(t)
  BY <1>4, <1>5, <1>6 DEF Framed
<1> QED
  BY <1>7 DEF t

LEMMA OuterItems == Outer \subseteq Items
<1>1. "Eof" \in Items
  BY TerminalsAre DEF Items, OtherTokens
<1>2. {"program", "file", "source_elements"} \subseteq Items
  BY RuleNamesAre DEF Items, FileNames
<1> QED
  BY <1>1, <1>2 DEF Outer, Items

LEMMA FrameIs ==
  ASSUME NEW s \in Seq(Items), Framed(s), s[1] = "source_elements"
  PROVE  s = Frame
<1>1. Len(s) \in Nat /\ Len(s) >= 4
  BY DEF Framed
<1>2. ASSUME Len(s) > 4 PROVE FALSE
  <2>1. 1 \in 1 .. Len(s) - 4
    BY <1>1, <1>2
  <2> QED
    BY <2>1 DEF Framed, Inside, Outer
<1>3. Len(s) = 4
  <2>1. \A n \in Nat : n >= 4 /\ ~ (n > 4) => n = 4
    OBVIOUS
  <2> QED
    BY <1>1, <1>2, <2>1, Zenon
<1>4. Len(s) - 3 = 1 /\ Len(s) - 2 = 2 /\ Len(s) - 1 = 3
  BY <1>3
<1>5. s[1] = "source_elements" /\ s[2] = "Eof" /\ s[3] = "File" /\ s[4] = "program"
  BY <1>3, <1>4 DEF Framed
<1>6. Frame \in Seq(Items) /\ Len(Frame) = 4
  BY OuterItems DEF Frame, Outer
<1>7. \A k \in 1 .. 4 : s[k] = Frame[k]
  BY <1>5 DEF Frame
<1> QED
  BY <1>3, <1>6, <1>7, SeqEqual

LEMMA FrameFramed ==
  /\ Frame \in Seq(Items) /\ Framed(Frame) /\ Linked(Frame)
  /\ LET t == <<"source_element", "source_elements">> \o Tail(Frame)
     IN  t \in Seq(Items) /\ Framed(t) /\ Linked(t) /\ t[1] = "source_element"
<1>1. Frame \in Seq(Items) /\ Len(Frame) = 4
  BY OuterItems DEF Frame, Outer
<1>2. Framed(Frame) /\ Linked(Frame)
  BY DEF Framed, Linked, Frame, Pair
<1>3. "source_element" \in Inside /\ Inside \subseteq Items
  BY PlainRules, PlainIs DEF Inside
<1> DEFINE b == <<"source_element", "source_elements">>
<1>4. b \in Seq(Items) /\ Len(b) = 2 /\ b[1] = "source_element" /\ b[2] = "source_elements"
  BY <1>3, OuterItems DEF Outer
<1> HIDE DEF b
<1> DEFINE t == b \o Tail(Frame)
<1>5. Frame # <<>>
  BY <1>1
<1>6. t \in Seq(Items) /\ Len(t) = 5 /\ t[1] = b[1] /\ t[2] = b[2]
  <2>1. 1 \in 1 .. Len(b) /\ 2 \in 1 .. Len(b) /\ Len(b) + Len(Frame) - 1 = 5
    BY <1>1, <1>4
  <2> QED
    BY <1>1, <1>4, <1>5, <2>1, CalledIs
<1>7. t[3] = Frame[2] /\ t[4] = Frame[3] /\ t[5] = Frame[4]
  <2>1. \A k \in Len(b) + 1 .. Len(b) + Len(Frame) - 1 : t[k] = Frame[k - Len(b) + 1]
    BY <1>1, <1>4, <1>5, CalledIs, Zenon
  <2>2. /\ 3 \in Len(b) + 1 .. Len(b) + Len(Frame) - 1 /\ 3 - Len(b) + 1 = 2
        /\ 4 \in Len(b) + 1 .. Len(b) + Len(Frame) - 1 /\ 4 - Len(b) + 1 = 3
        /\ 5 \in Len(b) + 1 .. Len(b) + Len(Frame) - 1 /\ 5 - Len(b) + 1 = 4
    BY <1>1, <1>4
  <2> HIDE DEF t
  <2> QED
    BY <2>1, <2>2
<1>8. t[3] = "Eof" /\ t[4] = "File" /\ t[5] = "program"
  BY <1>7 DEF Frame
<1> HIDE DEF t
<1>9. Framed(t)
  <2>1. /\ Len(t) >= 4 /\ Len(t) - 3 = 2 /\ Len(t) - 2 = 3 /\ Len(t) - 1 = 4
        /\ \A k \in 1 .. Len(t) - 4 : k = 1
    BY <1>6
  <2> QED
    BY <1>3, <1>4, <1>6, <1>8, <2>1 DEF Framed
<1>10. Linked(t)
  <2>1. \A k \in 1 .. Len(t) - 1 : k \in 1 .. 4
    BY <1>6
  <2> QED
    BY <1>4, <1>6, <1>8, <2>1 DEF Linked, Pair
<1> QED
  BY <1>1, <1>2, <1>4, <1>6, <1>9, <1>10, Zenon DEF b, t

-----------------------------------------------------------------------------
(* The invariants.                                                          *)

Lists == {"source_elements", "statement_list"}

\* The tokenizer's side: what was read, and where the parser is in it.
TextOK ==
  /\ dialect \in Dialects
  /\ text \in Seq(dialect.tokens \cup {"Eof"}) /\ text # <<>>
  /\ lookahead \in {text[Len(text)], "None"}
  /\ FilesRead <= dialect.files
  /\ lookahead = "None" => FilesRead = dialect.files
  /\ lookahead \notin {"Eof", "None"} => FilesRead < dialect.files
  /\ errors \in Seq(1 .. Len(text))
  /\ dropped \subseteq 1 .. Len(text)
  /\ lookahead # "None" => Len(text) \notin dropped
  /\ recovering \in BOOLEAN
  /\ dropped # {} \/ recovering => errors # <<>>

\* What an item at the top of the stack says of the lookahead la, and of the
\* token before it.
TopOK ==
  /\ stack[1] = "class_element" => lookahead # "RightBrace"
  /\ stack[1] = "todo" => lookahead \notin {"Constructor", "Identifier", "At", "RightBrace"}
  /\ stack[1] = "unwrap" /\ lookahead # "None" => text[Len(text) - 1] = "IntegerTooLarge"

\* Within a file: the end of the input is reached by dropping tokens only.
Within ==
  /\ Framed(stack) /\ TopOK
  /\ lookahead = "None" =>
       Len(text) \in dropped /\ stack[1] \in Lists \cup {"RightBrace"} /\ ~recovering
  /\ recovering => stack[1] \in Lists

\* Between the files.
Outside ==
  /\ ~recovering
  /\ \/ /\ stack = <<"unwrap", "Eof", "File", "program">>
        /\ lookahead = "None" /\ Len(text) \in dropped
     \/ stack = <<"Eof", "File", "program">> /\ lookahead = "Eof"
     \/ /\ stack \in {<<"File", "program">>, <<"program">>}
        /\ Len(text) \notin dropped
     \/ stack = <<"file", "program">> /\ lookahead # "None"
     \/ stack = <<>> /\ lookahead = "None" /\ Len(text) \notin dropped

StackOK == stack \in Seq(Items) /\ Linked(stack) /\ (Within \/ Outside)

\* Every end of a file that was read was dropped, or has its File node.
Passed == {i \in Eofs : i # Len(text) \/ lookahead = "None"}
Pending == IF stack # <<>> /\ stack[1] = "File" THEN 1 ELSE 0
CountOK == files \in Nat /\ files + Cardinality(dropped \cap Eofs) + Pending = Cardinality(Passed)

\* The lookahead la is going to be consumed, whatever stands below on the stack s.
Sure(s, la) ==
  s # <<>> /\
  \/ s[1] = la
  \/ la \in {"LeftBrace", "Semi", "Return", "Let", "Const"} /\
       s[1] \in {"source_elements", "source_element", "statement_list", "statement"}
  \/ s[1] = "block" /\ la = "LeftBrace"
  \/ s[1] = "variable_statement" /\ la \in {"Let", "Const"}
  \/ s[1] = "statement_list" /\ la = "RightBrace"
  \/ la \in {"Export", "Function"} /\
       \/ s[1] \in {"source_elements", "source_element", "function_declaration", "exported"}
       \/ s[1] = "annotations" /\ Len(s) > 1 /\ s[2] = "exported"

\* The lookahead la is going to be consumed, or to be no literal.
Starting(s, la) ==
  s # <<>> /\
  \/ s[1] \in {la, "Literal"}
  \/ s[1] \in {"source_elements", "source_element", "statement_list", "statement",
               "single_expression", "new_expression", "bitwise_or_expression", "operand",
               "arguments_expression", "member_dot_expression", "this",
               "identifier_expression"}
  \/ s[1] = "block" /\ la = "LeftBrace"
  \/ s[1] = "variable_statement" /\ la \in {"Let", "Const"}
  \/ s[1] = "class_declaration" /\ la = "Class"
  \/ s[1] = "function_declaration" /\ la \in {"Export", "Function", "At"}
  \/ s[1] = "annotations" /\ la \in {"Export", "Function", "At"} /\ Len(s) > 1 /\ s[2] = "exported"
  \/ s[1] = "exported" /\ la \in {"Export", "Function"}

Reported(i) == Cardinality({k \in DOMAIN errors : errors[k] = i})
BoundOK ==
  \A i \in 1 .. Len(text) :
    /\ Reported(i) <= 2
    /\ i = Len(text) /\ lookahead # "None" /\ Reported(i) > 0 =>
         \/ recovering
         \/ Sure(stack, lookahead)
         \/ Reported(i) = 1 /\ Starting(stack, lookahead)

IInv == TextOK /\ StackOK /\ CountOK /\ BoundOK

-----------------------------------------------------------------------------
(* The next token.                                                          *)

LEMMA DialectIs ==
  ASSUME TextOK
  PROVE  /\ dialect.files \in Nat /\ dialect.tokens \subseteq Terminals \ {"Eof"}
         /\ lookahead \in Lookaheads /\ "Eof" \in Terminals
         /\ Len(text) \in Nat /\ Len(text) > 0
<1>1. dialect.files \in Nat /\ dialect.tokens \subseteq Terminals \ {"Eof"}
  BY DialectAssumption DEF TextOK
<1>2. "Eof" \in Terminals
  BY TerminalsAre DEF OtherTokens
<1>3. Len(text) \in Nat /\ Len(text) > 0 /\ text[Len(text)] \in dialect.tokens \cup {"Eof"}
  BY DEF TextOK
<1> QED
  BY <1>1, <1>2, <1>3 DEF TextOK, Lookaheads

LEMMA NoneIs == "None" \notin Terminals /\ "None" \notin Items
<1>1. "None" \notin Terminals
  BY TerminalsAre, OperatorsAre DEF OtherTokens
<1>2. "None" \notin RuleNames
  BY RuleNamesAre
   DEF FileNames, StatementNames, VariableNames, SingleNames, BinaryNames, UnaryNames,
       CallNames, LiteralNames, TypeNames, FunctionNames, ClassNames
<1>3. "None" \notin DOMAIN Nodes
  BY DEF Nodes
<1> QED
  BY <1>1, <1>2, <1>3 DEF Items

LEMMA EofsFinite ==
  ASSUME TextOK
  PROVE  /\ Eofs \subseteq 1 .. Len(text) /\ IsFiniteSet(Eofs) /\ FilesRead \in Nat
         /\ IsFiniteSet(Passed) /\ Cardinality(Passed) \in Nat
         /\ IsFiniteSet(dropped \cap Eofs) /\ Cardinality(dropped \cap Eofs) \in Nat
<1>1. Eofs \subseteq 1 .. Len(text)
  BY DEF TextOK, Eofs
<1>2. IsFiniteSet(Eofs)
  <2>1. IsFiniteSet(1 .. Len(text))
    BY DialectIs, FS_Interval
  <2> QED
    BY <1>1, <2>1, FS_Subset
<1>3. Passed \subseteq Eofs /\ dropped \cap Eofs \subseteq Eofs
  BY DEF Passed
<1> QED
  BY <1>1, <1>2, <1>3, FS_Subset, FS_CardinalityType DEF FilesRead

\* The lookahead becomes a token of the text or, after the last file, none.
LEMMA NextTokenIs ==
  ASSUME TextOK, NextToken
  PROVE  \/ lookahead' = "None" /\ text' = text /\ FilesRead = dialect.files
         \/ /\ lookahead' \in dialect.tokens \cup {"Eof"} /\ lookahead' # "None"
            /\ text' = Append(text, lookahead')
            /\ FilesRead < dialect.files
<1>1. CASE FilesRead = dialect.files
  BY <1>1 DEF NextToken
<1>2. CASE FilesRead # dialect.files
  <2>1. lookahead' \in dialect.tokens \cup {"Eof"}
    BY <1>2 DEF NextToken
  <2>2. lookahead' # "None"
    BY <2>1, DialectIs, NoneIs
  <2>3. FilesRead < dialect.files
    <3>1. FilesRead \in Nat /\ dialect.files \in Nat /\ FilesRead <= dialect.files
      BY EofsFinite, DialectIs DEF TextOK
    <3> QED
      BY <1>2, <3>1
  <2> QED
    BY <2>1, <2>2, <2>3 DEF NextToken
<1> QED
  BY <1>1, <1>2

\* A token was read; the files that are passed are those read before.
LEMMA TokenRead ==
  ASSUME TextOK, NextToken, lookahead # "None", UNCHANGED dialect
  PROVE  /\ text' \in Seq(dialect'.tokens \cup {"Eof"}) /\ text' # <<>>
         /\ lookahead' \in {text'[Len(text')], "None"}
         /\ FilesRead' <= dialect'.files
         /\ lookahead' = "None" => FilesRead' = dialect'.files
         /\ lookahead' \notin {"Eof", "None"} => FilesRead' < dialect'.files
         /\ Len(text) <= Len(text') /\ Len(text') \in Nat
         /\ lookahead' = "None" => text' = text
         /\ lookahead' # "None" => Len(text') = Len(text) + 1 /\ text'[Len(text)] = text[Len(text)]
         /\ lookahead' = "None" => lookahead = "Eof"
         /\ Eofs' \cap (1 .. Len(text)) = Eofs /\ Passed' = Eofs
<1>1. CASE lookahead' = "None" /\ text' = text /\ FilesRead = dialect.files
  <2>1. Eofs' = Eofs /\ FilesRead' = FilesRead
    BY <1>1 DEF Eofs, FilesRead
  <2>2. lookahead = "Eof"
    <3>1. lookahead \notin {"Eof", "None"} => FilesRead < dialect.files
      BY DEF TextOK
    <3>2. FilesRead \in Nat /\ dialect.files \in Nat
      BY EofsFinite, DialectIs
    <3> QED
      BY <1>1, <3>1, <3>2
  <2>3. Passed' = Eofs
    BY <1>1, <2>1 DEF Passed
  <2>4. FilesRead \in Nat /\ dialect.files \in Nat /\ Eofs \subseteq 1 .. Len(text)
    BY EofsFinite, DialectIs
  <2>5. text' \in Seq(dialect'.tokens \cup {"Eof"}) /\ text' # <<>> /\ Len(text') = Len(text)
    BY <1>1 DEF TextOK
  <2> QED
    BY <1>1, <2>1, <2>2, <2>3, <2>4, <2>5, DialectIs
<1>2. CASE /\ lookahead' \in dialect.tokens \cup {"Eof"} /\ lookahead' # "None"
           /\ text' = Append(text, lookahead')
           /\ FilesRead < dialect.files
  <2>1. /\ text' \in Seq(dialect.tokens \cup {"Eof"}) /\ Len(text') = Len(text) + 1
        /\ text'[Len(text) + 1] = lookahead'
        /\ \A i \in 1 .. Len(text) : text'[i] = text[i]
    BY <1>2, DialectIs DEF TextOK
  <2>2. Eofs' = IF lookahead' = "Eof" THEN Eofs \cup {Len(text) + 1} ELSE Eofs
    <3>1. DOMAIN text = 1 .. Len(text) /\ DOMAIN text' = 1 .. Len(text) + 1
      BY <2>1 DEF TextOK
    <3> QED
      BY <2>1, <3>1, DialectIs DEF Eofs
  <2>3. /\ Eofs \subseteq 1 .. Len(text) /\ IsFiniteSet(Eofs) /\ FilesRead \in Nat
        /\ dialect.files \in Nat /\ Len(text) \in Nat /\ Len(text) > 0
    BY EofsFinite, DialectIs
  <2>4. FilesRead' = IF lookahead' = "Eof" THEN FilesRead + 1 ELSE FilesRead
    <3>1. Len(text) + 1 \notin Eofs
      BY <2>3
    <3> QED
      BY <2>2, <2>3, <3>1, FS_AddElement DEF FilesRead
  <2>5. Eofs' \cap (1 .. Len(text)) = Eofs
    <3>1. Len(text) + 1 \notin 1 .. Len(text)
      BY <2>3
    <3>2. CASE lookahead' = "Eof"
      BY <2>2, <2>3, <3>1, <3>2
    <3>3. CASE lookahead' # "Eof"
      BY <2>2, <2>3, <3>3
    <3> QED
      BY <3>2, <3>3
  <2>6. Passed' = Eofs
    BY <1>2, <2>1, <2>2, <2>3 DEF Passed
  <2>7. FilesRead' <= dialect.files /\ (lookahead' # "Eof" => FilesRead' < dialect.files)
    BY <1>2, <2>3, <2>4
  <2>8. text'[Len(text')] = lookahead' /\ text'[Len(text)] = text[Len(text)]
        /\ Len(text) <= Len(text') /\ Len(text') \in Nat /\ text' # <<>>
    BY <2>1, <2>3
  <2> QED
    BY <1>2, <2>1, <2>5, <2>6, <2>7, <2>8
<1> QED
  BY <1>1, <1>2, NextTokenIs

LEMMA PassedIs ==
  ASSUME TextOK, lookahead # "None"
  PROVE  /\ Cardinality(Eofs) = Cardinality(Passed) + (IF lookahead = "Eof" THEN 1 ELSE 0)
         /\ lookahead = "Eof" <=> Len(text) \in Eofs
<1>1. lookahead = "Eof" <=> Len(text) \in Eofs
  <2>1. lookahead = text[Len(text)] /\ Len(text) \in DOMAIN text
    BY DEF TextOK
  <2> QED
    BY <2>1 DEF Eofs
<1>2. CASE lookahead = "Eof"
  <2>1. Eofs = Passed \cup {Len(text)} /\ Len(text) \notin Passed
    BY <1>1, <1>2 DEF Passed
  <2> QED
    BY <1>1, <1>2, <2>1, EofsFinite, FS_AddElement
<1>3. CASE lookahead # "Eof"
  <2>1. Eofs = Passed
    BY <1>1, <1>3 DEF Passed
  <2> QED
    BY <1>1, <1>3, <2>1, EofsFinite
<1> QED
  BY <1>2, <1>3

-----------------------------------------------------------------------------
(* The steps on the stack.                                                  *)

LEMMA KindsAre ==
  /\ \A x \in DOMAIN Nodes \cup {"Element"} :
       x \in Plain /\ x \notin Terminals /\ x \notin Lists
  /\ "File" \notin Terminals
  /\ \A x \in {"unwrap", "todo", "Eof", "File", "RightBrace", "IntegerTooLarge"} :
       x \notin RuleNames
  /\ \A x \in Terminals \cup {"Literal"} : x \in Plain \cup {"Eof"} /\ x \notin Lists
<1>1. DOMAIN Nodes =
        {"BinaryExpression", "NewExpression", "MemberIndexExpression", "UnaryExpression",
         "PostfixExpression", "ArgumentsExpression", "ArgumentsList", "MemberDotExpression",
         "ArrayLiteral"}
  BY DEF Nodes
<1>2. \A x \in DOMAIN Nodes \cup {"Element", "File"} : x \notin Terminals
  BY <1>1, TerminalsAre, OperatorsAre DEF OtherTokens
<1>3. \A x \in DOMAIN Nodes \cup {"Element"} : x \in Plain
  BY <1>1, PlainNodes
<1>4. \A x \in Plain : x \notin Lists
  BY DEF Plain, Special, Lists
<1>5. \A x \in {"unwrap", "todo", "Eof", "File", "RightBrace", "IntegerTooLarge"} :
        x \notin RuleNames
  BY RuleNamesAre
   DEF FileNames, StatementNames, VariableNames, SingleNames, BinaryNames, UnaryNames,
       CallNames, LiteralNames, TypeNames, FunctionNames, ClassNames
<1>6. \A x \in Terminals \cup {"Literal"} : x \in Plain \cup {"Eof"}
  BY PlainTokens, PlainNodes
<1>7. "Eof" \notin Lists
  BY DEF Lists
<1> QED
  BY <1>2, <1>3, <1>4, <1>5, <1>6, <1>7

\* The stacks between the files.
LEMMA FramesAre ==
  /\ Tail(<<"program">>) = <<>> /\ Tail(<<"file", "program">>) = <<"program">>
  /\ Tail(Frame) = <<"Eof", "File", "program">>
  /\ Tail(<<"Eof", "File", "program">>) = <<"File", "program">>
  /\ Tail(<<"File", "program">>) = <<"program">>
  /\ <<"unwrap">> \o <<"Eof", "File", "program">> = <<"unwrap", "Eof", "File", "program">>
  /\ <<"source_elements", "Eof", "File">> \o <<"program">> = Frame
  /\ <<>> \o <<"Eof", "File", "program">> = <<"Eof", "File", "program">>
  /\ <<"file", "program">> \o <<>> = <<"file", "program">>
  /\ <<>> \o <<>> = <<>>
<1>1. Tail(<<"program">>) = <<>> /\ Tail(<<"file", "program">>) = <<"program">>
  OBVIOUS
<1>2. Tail(Frame) = <<"Eof", "File", "program">>
  BY DEF Frame
<1>3. /\ Tail(<<"Eof", "File", "program">>) = <<"File", "program">>
      /\ Tail(<<"File", "program">>) = <<"program">>
  OBVIOUS
<1>4. "unwrap" \in Items
  BY DEF Items
<1>5. "Eof" \in Items
  BY OuterItems DEF Outer
<1>6. "File" \in Items
  BY OuterItems DEF Outer
<1>7. "program" \in Items
  BY OuterItems DEF Outer
<1>8. "source_elements" \in Items
  BY OuterItems DEF Outer
<1>9. <<"unwrap">> \o <<"Eof", "File", "program">> = <<"unwrap", "Eof", "File", "program">>
  BY <1>4, <1>5, <1>6, <1>7, FourIs
<1>10. <<"source_elements", "Eof", "File">> \o <<"program">> = Frame
  BY <1>8, <1>5, <1>6, <1>7, FourIs DEF Frame
<1>11. <<>> \o <<"Eof", "File", "program">> = <<"Eof", "File", "program">>
  OBVIOUS
<1>12. <<"file", "program">> \o <<>> = <<"file", "program">>
  OBVIOUS
<1>13. <<>> \o <<>> = <<>>
  OBVIOUS
<1> QED
  BY <1>1, <1>2, <1>3, <1>9, <1>10, <1>11, <1>12, <1>13

\* What is on top of a stack within a file.
LEMMA TopIs ==
  ASSUME stack \in Seq(Items), Within, Linked(stack)
  PROVE  /\ stack # <<>> /\ Head(stack) = stack[1] /\ Len(stack) \in Nat /\ Len(stack) >= 4
         /\ stack[1] \in Inside \cup {"source_elements"}
         /\ Pair(stack[1], stack[2])
<1>1. stack # <<>> /\ Head(stack) = stack[1] /\ Len(stack) \in Nat /\ Len(stack) >= 4
  BY DEF Within, Framed
<1>2. stack[1] \in Inside \cup {"source_elements"}
  BY FramedTail DEF Within
<1>3. Pair(stack[1], stack[2])
  <2>1. 1 \in 1 .. Len(stack) - 1
    BY <1>1
  <2> QED
    BY <2>1 DEF Linked
<1> QED
  BY <1>1, <1>2, <1>3

\* An item within a file is done.
LEMMA Popped ==
  ASSUME stack \in Seq(Items), Within, Linked(stack), stack[1] # "source_elements",
         stack' = Tail(stack)
  PROVE  /\ stack' \in Seq(Items) /\ Framed(stack') /\ Linked(stack')
         /\ stack'[1] = stack[2] /\ Pair(stack[1], stack'[1])
<1>1. stack # <<>> /\ Len(stack) \in Nat /\ Len(stack) >= 4 /\ Pair(stack[1], stack[2])
  BY TopIs
<1>2. stack' \in Seq(Items) /\ stack'[1] = stack[1 + 1]
  <2>1. 1 \in 1 .. Len(stack) - 1
    BY <1>1
  <2> QED
    BY <1>1, <2>1, TailIs
<1>3. Framed(stack') /\ Linked(stack')
  BY <1>1, FramedTail, LinkedTail DEF Within
<1> QED
  BY <1>1, <1>2, <1>3

LEMMA CallStack ==
  ASSUME TextOK, StackOK, Call
  PROVE  StackOK' /\ (stack' = <<>> \/ stack'[1] # "File")
<1> DEFINE body == Table[lookahead][stack[1]]
<1>1. /\ stack # <<>> /\ Head(stack) = stack[1] /\ stack[1] \in RuleNames /\ ~recovering
      /\ stack' = body \o Tail(stack)
      /\ UNCHANGED <<text, lookahead, recovering, dropped>>
  BY DEF Call, Parsing, Doing, StackOK
<1>2. lookahead \in Lookaheads
  BY DialectIs
<1>3. ASSUME stack = <<"program">>, Len(text) \notin dropped
      PROVE  StackOK' /\ (stack' = <<>> \/ stack'[1] # "File")
  <2>1. body = IF lookahead = "None" THEN <<>> ELSE <<"file", "program">>
    BY <1>2, <1>3, FramingBodies
  <2>2. CASE lookahead = "None"
    <3>1. stack' = <<>>
      BY <1>1, <1>3, <2>1, <2>2, FramesAre, Zenon
    <3>2. <<>> \in Seq(Items) /\ Linked(<<>>)
      BY DEF Linked
    <3> QED
      BY <1>1, <1>3, <2>2, <3>1, <3>2, Zenon DEF StackOK, Outside
  <2>3. CASE lookahead # "None"
    <3>1. stack' = <<"file", "program">>
      BY <1>1, <1>3, <2>1, <2>3, FramesAre, Zenon
    <3>2. stack' \in Seq(Items)
      BY <3>1, OuterItems DEF Outer
    <3>3. Linked(stack')
      BY <3>1 DEF Linked, Pair
    <3>4. StackOK'
      BY <1>1, <2>3, <3>1, <3>2, <3>3, Zenon DEF StackOK, Outside
    <3> QED
      BY <3>1, <3>4
  <2> QED
    BY <2>2, <2>3
<1>4. ASSUME stack = <<"file", "program">>, lookahead # "None"
      PROVE  StackOK' /\ (stack' = <<>> \/ stack'[1] # "File")
  <2>1. body = <<"source_elements", "Eof", "File">>
    BY <1>2, <1>4, FramingBodies
  <2>2. stack' = Frame
    BY <1>1, <1>4, <2>1, FramesAre, Zenon
  <2>3. stack'[1] = "source_elements"
    BY <2>2 DEF Frame
  <2> QED
    BY <1>1, <1>4, <2>2, <2>3, FrameFramed DEF StackOK, Within, TopOK
<1>5. ASSUME Within, stack[1] = "source_elements"
      PROVE  StackOK' /\ (stack' = <<>> \/ stack'[1] # "File")
  <2>1. stack = Frame
    BY <1>5, FrameIs DEF StackOK, Within
  <2>2. body = IF lookahead = "None" THEN <<"unwrap">>
               ELSE IF lookahead = "Eof" THEN <<>> ELSE <<"source_element", "source_elements">>
    BY <1>2, <1>5, FramingBodies
  <2>3. CASE lookahead = "None"
    <3>1. stack' = <<"unwrap", "Eof", "File", "program">>
      BY <1>1, <2>1, <2>2, <2>3, FramesAre, Zenon
    <3>2. stack' \in Seq(Items)
      BY <3>1, OuterItems DEF Outer, Items
    <3>3. Linked(stack')
      BY <3>1 DEF Linked, Pair
    <3>4. StackOK'
      BY <1>1, <1>5, <2>3, <3>1, <3>2, <3>3 DEF StackOK, Outside, Within
    <3> QED
      BY <3>1, <3>4
  <2>4. CASE lookahead = "Eof"
    <3>1. stack' = <<"Eof", "File", "program">>
      <4>1. body = <<>>
        BY <2>2, <2>4
      <4> QED
        BY <1>1, <2>1, <4>1, FramesAre, Zenon
    <3>2. stack' \in Seq(Items)
      BY <3>1, OuterItems DEF Outer, Items
    <3>3. Linked(stack')
      BY <3>1 DEF Linked, Pair
    <3>4. StackOK'
      BY <1>1, <2>4, <3>1, <3>2, <3>3 DEF StackOK, Outside
    <3> QED
      BY <3>1, <3>4
  <2>5. CASE lookahead \notin {"Eof", "None"}
    <3>1. stack' = <<"source_element", "source_elements">> \o Tail(Frame)
      BY <1>1, <2>1, <2>2, <2>5
    <3>2. stack' \in Seq(Items) /\ Framed(stack') /\ Linked(stack') /\ stack'[1] = "source_element"
      BY <3>1, FrameFramed
    <3> QED
      BY <1>1, <2>5, <3>2 DEF StackOK, Within, TopOK
  <2> QED
    BY <2>3, <2>4, <2>5
<1>6. ASSUME Within, stack[1] # "source_elements"
      PROVE  StackOK' /\ (stack' = <<>> \/ stack'[1] # "File")
  <2> DEFINE r == stack[1]
  <2>1. /\ stack \in Seq(Items) /\ Linked(stack) /\ Framed(stack) /\ TopOK
        /\ Len(stack) \in Nat /\ Len(stack) >= 4 /\ Pair(r, stack[2])
    BY <1>6, TopIs DEF StackOK, Within
  <2>2. r \in RuleNames \ {"program", "file", "source_elements"}
    BY <1>1, <1>6, <2>1, FramedTail DEF Inside, Outer
  <2>3. Begins(r, lookahead)
    BY <2>1, <2>2, KindsAre DEF Begins, TopOK
  <2>4. /\ body \in Seq(Inside) /\ Linked(body)
        /\ body # <<>> =>
             /\ Begins(body[1], lookahead)
             /\ body[Len(body)] # "exported"
             /\ body[Len(body)] = "statement_list" => r = "statement_list"
    BY <1>2, <2>2, <2>3, BodyIs
  <2>5. body \in Seq(Items) /\ Len(body) \in Nat
    BY <2>4 DEF Inside
  <2>6. stack[2] \notin {"class_element", "todo", "unwrap"}
    BY <2>1, <2>2, KindsAre DEF Pair
  <2> HIDE DEF body
  <2>7. body # <<>> => Pair(body[Len(body)], stack[2])
    BY <2>1, <2>4, <2>6 DEF Pair
  <2>8. stack' \in Seq(Items) /\ Linked(stack') /\ Framed(stack')
    BY <1>1, <1>6, <2>1, <2>4, <2>5, <2>7, LinkedCall, FramedCall, CalledIs
  <2>9. stack'[1] = IF body = <<>> THEN stack[2] ELSE body[1]
    <3>1. CASE body = <<>>
      <4>1. Len(body) = 0 /\ 1 \in Len(body) + 1 .. Len(body) + Len(stack) - 1
            /\ 1 - Len(body) + 1 = 2
        BY <2>1, <3>1
      <4> QED
        BY <1>1, <2>1, <2>5, <3>1, <4>1, CalledIs
    <3>2. CASE body # <<>>
      <4>1. 1 \in 1 .. Len(body)
        BY <2>5, <3>2
      <4> QED
        BY <1>1, <2>1, <2>5, <3>2, <4>1, CalledIs
    <3> QED
      BY <3>1, <3>2
  <2>10. TopOK'
    <3>1. stack'[1] # "unwrap"
      BY <2>4, <2>6, <2>9 DEF Begins
    <3>2. /\ stack'[1] = "class_element" => lookahead # "RightBrace"
          /\ stack'[1] = "todo" =>
               lookahead \notin {"Constructor", "Identifier", "At", "RightBrace"}
      BY <2>4, <2>6, <2>9 DEF Begins
    <3> QED
      BY <1>1, <3>1, <3>2 DEF TopOK
  <2>11. ASSUME lookahead = "None"
         PROVE  Len(text) \in dropped /\ stack'[1] = "RightBrace"
    <3>1. r = "statement_list" /\ Len(text) \in dropped
      BY <1>1, <1>6, <2>2, <2>11, KindsAre DEF Within, Lists
    <3>2. body = <<>>
      BY <1>2, <2>11, <3>1, FramingBodies DEF body
    <3> QED
      BY <2>1, <2>9, <3>1, <3>2 DEF Pair
  <2>12. Within'
    BY <1>1, <2>8, <2>10, <2>11 DEF Within
  <2> QED
    BY <2>8, <2>12, FramedTop DEF StackOK
<1> QED
  <2>1. \/ Within
        \/ stack = <<"program">> /\ Len(text) \notin dropped
        \/ stack = <<"file", "program">> /\ lookahead # "None"
    <3>1. stack[1] \notin {"unwrap", "Eof", "File"} /\ stack # <<>>
      BY <1>1, KindsAre
    <3> QED
      BY <3>1 DEF StackOK, Outside
  <2> QED
    BY <1>3, <1>4, <1>5, <1>6, <2>1

LEMMA ConsumeStack ==
  ASSUME TextOK, StackOK, Consume
  PROVE  /\ StackOK' /\ lookahead # "None"
         /\ stack' # <<>> /\ stack[1] = lookahead
         /\ stack'[1] = "File" <=> lookahead = "Eof"
<1>1. /\ stack # <<>> /\ stack[1] = lookahead /\ ~recovering /\ recovering' = recovering
      /\ NextToken /\ stack' = Tail(stack) /\ UNCHANGED <<dialect, dropped>>
  BY DEF Consume, Parsing, Doing, StackOK
<1>2. stack \in Seq(Items) /\ Linked(stack) /\ lookahead \in Items
  BY <1>1 DEF StackOK
<1>3. lookahead # "None" /\ lookahead \in Terminals
  BY <1>2, NoneIs, DialectIs DEF Lookaheads
<1>4. lookahead \in Plain \cup {"Eof"} /\ lookahead \notin Lists
  BY <1>3, KindsAre
<1>5. /\ lookahead' = "None" => text' = text
      /\ lookahead' = "None" => lookahead = "Eof"
      /\ lookahead' # "None" => Len(text') = Len(text) + 1 /\ text'[Len(text)] = text[Len(text)]
      /\ text[Len(text)] = lookahead /\ Len(text) \in Nat
      /\ dropped \subseteq 1 .. Len(text) /\ Len(text) \notin dropped
  BY <1>1, <1>3, TokenRead, DialectIs DEF TextOK
<1>6. ASSUME Within
      PROVE  StackOK' /\ stack' # <<>> /\ (stack'[1] = "File" <=> lookahead = "Eof")
  <2>1. stack[1] # "source_elements" /\ stack[1] \in Inside
    BY <1>1, <1>2, <1>4, <1>6, TopIs DEF Lists
  <2>2. /\ stack' \in Seq(Items) /\ Framed(stack') /\ Linked(stack')
        /\ Pair(lookahead, stack'[1])
    BY <1>1, <1>2, <1>6, <2>1, Popped
  <2>3. lookahead' # "None"
    BY <1>1, <1>5, <2>1 DEF Inside, Outer
  <2>4. Len(text') - 1 = Len(text)
    BY <1>5, <2>3
  <2>5. stack'[1] = "unwrap" => text'[Len(text') - 1] = "IntegerTooLarge"
    BY <1>5, <2>2, <2>3, <2>4 DEF Pair
  <2>6. stack'[1] \notin {"class_element", "todo"}
    BY <2>2 DEF Pair
  <2>7. Within'
    BY <1>1, <2>2, <2>3, <2>5, <2>6 DEF Within, TopOK
  <2>8. lookahead # "Eof"
    BY <1>1, <2>1 DEF Inside, Outer
  <2> QED
    BY <2>2, <2>7, <2>8, FramedTop DEF StackOK
<1>7. ASSUME stack = <<"Eof", "File", "program">>
      PROVE  StackOK' /\ stack' # <<>> /\ (stack'[1] = "File" <=> lookahead = "Eof")
  <2>1. stack' = <<"File", "program">>
    BY <1>1, <1>7, FramesAre, Zenon
  <2>2. stack' \in Seq(Items) /\ Linked(stack')
    BY <2>1, OuterItems DEF Outer, Linked, Pair
  <2>3. Len(text') \notin dropped'
    BY <1>1, <1>5
  <2>4. StackOK'
    BY <1>1, <2>1, <2>2, <2>3 DEF StackOK, Outside
  <2>5. lookahead = "Eof" /\ stack' # <<>> /\ stack'[1] = "File"
    BY <1>1, <1>7, <2>1
  <2> QED
    BY <2>4, <2>5
<1>8. lookahead \notin {"unwrap", "File", "program", "file"}
  BY <1>4 DEF Plain, Special
<1> QED
  BY <1>1, <1>3, <1>6, <1>7, <1>8 DEF StackOK, Outside

\* A node is built, or an operand put aside.
LEMMA DoneStack ==
  ASSUME StackOK, stack # <<>>, ~recovering, stack[1] \in DOMAIN Nodes \cup {"Element"},
         stack' = Tail(stack), UNCHANGED <<text, lookahead, recovering, dropped>>
  PROVE  StackOK' /\ stack' # <<>> /\ stack'[1] # "File" /\ stack[1] # "File"
<1>1. stack \in Seq(Items) /\ Linked(stack)
  BY DEF StackOK
<1>2. stack[1] \in Plain /\ stack[1] \notin Terminals /\ stack[1] \notin Lists
  BY KindsAre
<1>3. Within
  BY <1>2 DEF StackOK, Outside, Plain, Special
<1>4. stack[1] \notin {"IntegerTooLarge", "RightBrace", "source_elements"}
  BY <1>2, TerminalsAre DEF OtherTokens, Lists
<1>5. /\ stack' \in Seq(Items) /\ Framed(stack') /\ Linked(stack')
      /\ Pair(stack[1], stack'[1])
  BY <1>1, <1>3, <1>4, Popped
<1>6. lookahead # "None"
  BY <1>2, <1>3, <1>4 DEF Within
<1>7. stack'[1] \notin {"unwrap", "class_element", "todo"}
  BY <1>4, <1>5 DEF Pair
<1>8. Within'
  BY <1>5, <1>6, <1>7 DEF Within, TopOK
<1> QED
  BY <1>1, <1>3, <1>5, <1>8, TopIs, FramedTop DEF StackOK, Within

LEMMA FileDoneStack ==
  ASSUME StackOK, FileDone
  PROVE  StackOK' /\ stack' = <<"program">> /\ stack # <<>> /\ stack[1] = "File"
<1>1. /\ stack # <<>> /\ stack[1] = "File" /\ stack' = Tail(stack) /\ ~recovering
      /\ UNCHANGED <<text, lookahead, recovering, dropped>>
  BY DEF FileDone, Parsing, Doing, StackOK
<1>2. ~Within
  BY <1>1, TopIs DEF StackOK, Inside, Outer
<1>3. stack = <<"File", "program">> /\ Len(text) \notin dropped
  BY <1>1, <1>2 DEF StackOK, Outside
<1>4. stack' = <<"program">>
  BY <1>1, <1>3, FramesAre, Zenon
<1>5. stack' \in Seq(Items) /\ Linked(stack')
  BY <1>4, OuterItems DEF Outer, Linked
<1> QED
  BY <1>1, <1>3, <1>4, <1>5 DEF StackOK, Outside

LEMMA LeastNatural ==
  ASSUME NEW S, S \subseteq Nat, S # {}
  PROVE  \E m \in S : \A k \in S : m <= k
<1> DEFINE Below == OpToRel(<, Nat)
<1>1. IsWellFoundedOn(Below, Nat)
  BY NatLessThanWellFounded
<1>2. PICK m \in S : \A k \in S : ~(<<k, m>> \in Below)
  BY <1>1, WFMin, Zenon
<1>3. \A k \in S : ~(k < m)
  BY <1>2 DEF OpToRel
<1>4. \A k \in S : m <= k
  BY <1>3
<1> QED
  BY <1>4

\* An error leaves the innermost list on top.
LEMMA MismatchStack ==
  ASSUME TextOK, StackOK, Mismatch
  PROVE  /\ StackOK' /\ stack' # <<>> /\ stack'[1] \in Lists
         /\ recovering' = (stack[1] # "Semi" /\ ~Recovered(lookahead, stack'[1]))
         /\ \E l \in 1 .. Len(stack) : /\ stack' = SubSeq(stack, l, Len(stack))
                                       /\ stack[l] \in Lists
<1> DEFINE S == {i \in DOMAIN stack : stack[i] \in {"source_elements", "statement_list"}}
           l == Min(S)
<1>1. /\ stack # <<>> /\ stack[1] \in Terminals \cup {"Literal"}
      /\ lookahead \notin {stack[1], "None"}
      /\ stack' = SubSeq(stack, l, Len(stack)) /\ UNCHANGED <<text, lookahead, dropped>>
      /\ recovering' = (stack[1] # "Semi" /\ ~Recovered(lookahead, stack[l]))
  BY DEF Mismatch, Parsing, Doing, StackOK
<1>2. stack \in Seq(Items) /\ Linked(stack)
  BY DEF StackOK
<1>3. Within
  <2>1. stack[1] \notin {"unwrap", "File", "program", "file"}
    BY <1>1, KindsAre DEF Plain, Special
  <2> QED
    BY <1>1, <2>1 DEF StackOK, Outside
<1>4. /\ Len(stack) \in Nat /\ Len(stack) >= 4 /\ Framed(stack)
      /\ Len(stack) - 3 \in S /\ S \subseteq Nat
  <2>1. Len(stack) \in Nat /\ Len(stack) >= 4 /\ Framed(stack)
    BY <1>2, <1>3, TopIs DEF Within
  <2>2. DOMAIN stack = 1 .. Len(stack)
    BY <1>2
  <2> QED
    BY <2>1, <2>2 DEF Framed
<1>5. l \in S /\ l <= Len(stack) - 3
  <2>1. \E m \in S : \A k \in S : m <= k
    BY <1>4, LeastNatural
  <2> HIDE DEF S
  <2>2. l \in S /\ \A k \in S : l <= k
    BY <2>1 DEF Min
  <2> QED
    BY <1>4, <2>2
<1>6. l \in 1 .. Len(stack) - 3 /\ l \in 1 .. Len(stack) /\ stack[l] \in Lists
  BY <1>2, <1>4, <1>5 DEF Lists
<1> HIDE DEF S, l
<1>7. stack' \in Seq(Items) /\ Framed(stack') /\ Linked(stack')
  BY <1>1, <1>2, <1>4, <1>6, FramedFrom, LinkedFrom, FromIs
<1>8. stack'[1] = stack[l] /\ stack' # <<>>
  <2>1. 1 \in 1 .. Len(stack) - l + 1 /\ 1 + l - 1 = l
    BY <1>4, <1>6
  <2>2. stack'[1] = stack[1 + l - 1]
    BY <1>1, <1>2, <1>6, <2>1, FromIs
  <2>3. stack' # <<>>
    BY <1>7 DEF Framed
  <2> QED
    BY <2>1, <2>2, <2>3
<1>9. Within'
  BY <1>1, <1>6, <1>7, <1>8 DEF Within, TopOK, Lists
<1>10. StackOK'
  BY <1>7, <1>9 DEF StackOK
<1> QED
  BY <1>1, <1>6, <1>8, <1>10

\* Dropping a token leaves the list on top.
LEMMA SkipStack ==
  ASSUME TextOK, StackOK, Skip
  PROVE  StackOK' /\ lookahead # "None"
<1>1. /\ recovering /\ stack' = stack /\ NextToken /\ UNCHANGED <<dialect, errors>>
      /\ dropped' = dropped \cup {Len(text)}
      /\ recovering' = ~Recovered(lookahead', Head(stack))
  BY DEF Skip, Doing
<1>2. Within /\ stack \in Seq(Items) /\ Linked(stack)
  BY <1>1 DEF StackOK, Outside
<1>3. lookahead # "None" /\ Framed(stack) /\ stack[1] \in Lists
  BY <1>1, <1>2 DEF Within
<1>4. lookahead' = "None" => text' = text
  BY <1>1, <1>3, TokenRead
<1>5. lookahead' = "None" => ~recovering'
  BY <1>1 DEF Recovered
<1>6. Within'
  BY <1>1, <1>3, <1>4, <1>5 DEF Within, TopOK, Lists
<1> QED
  BY <1>1, <1>2, <1>3, <1>6 DEF StackOK

-----------------------------------------------------------------------------
(* The steps on the text, and the counts of files.                          *)

\* The steps that read no token.
LEMMA TextKept ==
  ASSUME TextOK, UNCHANGED <<dialect, text, lookahead, errors, recovering, dropped>>
  PROVE  TextOK' /\ Eofs' = Eofs /\ Passed' = Passed
BY DEF TextOK, Eofs, FilesRead, Passed

LEMMA ErrorText ==
  ASSUME TextOK, UNCHANGED <<dialect, text, lookahead, dropped>>, lookahead # "None",
         errors' = Append(errors, Len(text)), recovering' \in BOOLEAN
  PROVE  TextOK' /\ Eofs' = Eofs /\ Passed' = Passed
<1>1. errors' \in Seq(1 .. Len(text)) /\ errors' # <<>>
  <2>1. Len(text) \in 1 .. Len(text)
    BY DialectIs
  <2> QED
    BY <2>1 DEF TextOK
<1>2. Eofs' = Eofs /\ Passed' = Passed
  BY DEF Eofs, Passed
<1> QED
  BY <1>1, <1>2 DEF TextOK, FilesRead

LEMMA ConsumeText ==
  ASSUME TextOK, NextToken, lookahead # "None", UNCHANGED <<dialect, errors, recovering, dropped>>
  PROVE  TextOK' /\ dropped' \cap Eofs' = dropped \cap Eofs
<1> USE TokenRead, DialectIs
<1>1. errors' \in Seq(1 .. Len(text'))
  BY DEF TextOK
<1>2. dropped' \subseteq 1 .. Len(text) /\ dropped' \subseteq 1 .. Len(text')
  BY DEF TextOK
<1>3. lookahead' # "None" => Len(text') \notin dropped'
  BY <1>2
<1>4. dropped' \cap Eofs' = dropped \cap Eofs
  BY <1>2
<1> QED
  BY <1>1, <1>2, <1>3, <1>4 DEF TextOK

LEMMA SkipText ==
  ASSUME TextOK, NextToken, lookahead # "None", UNCHANGED <<dialect, errors>>,
         recovering, recovering' \in BOOLEAN, dropped' = dropped \cup {Len(text)}
  PROVE  /\ TextOK'
         /\ dropped' \cap Eofs' =
              (dropped \cap Eofs) \cup (IF lookahead = "Eof" THEN {Len(text)} ELSE {})
<1>1. dropped' \subseteq 1 .. Len(text)
  <2>1. dropped \subseteq 1 .. Len(text)
    BY DEF TextOK
  <2>2. Len(text) \in 1 .. Len(text)
    BY DialectIs
  <2> QED
    BY <2>1, <2>2
<1> USE TokenRead, DialectIs
<1>2. errors' \in Seq(1 .. Len(text')) /\ errors' # <<>>
  BY DEF TextOK
<1>3. dropped' \subseteq 1 .. Len(text) /\ dropped' \subseteq 1 .. Len(text')
  BY <1>1
<1>4. lookahead' # "None" => Len(text') \notin dropped'
  BY <1>3
<1>5. \A i \in dropped' : i \in Eofs' <=> i \in Eofs
  BY <1>3
<1>6. lookahead = "Eof" <=> Len(text) \in Eofs
  BY PassedIs
<1>7. dropped' \cap Eofs' =
        (dropped \cap Eofs) \cup (IF lookahead = "Eof" THEN {Len(text)} ELSE {})
  <2>1. CASE lookahead = "Eof"
    BY <1>5, <1>6, <2>1
  <2>2. CASE lookahead # "Eof"
    BY <1>5, <1>6, <2>2
  <2> QED
    BY <2>1, <2>2
<1> QED
  BY <1>2, <1>3, <1>4, <1>7 DEF TextOK

-----------------------------------------------------------------------------
(* The counts of files.                                                     *)

LEMMA CallCount ==
  ASSUME TextOK, StackOK, CountOK, Call
  PROVE  CountOK'
<1>1. stack # <<>> /\ stack[1] # "File"
  BY KindsAre DEF Call, Parsing, Doing, StackOK
<1>2. UNCHANGED <<dialect, text, lookahead, errors, recovering, dropped, files>>
  BY DEF Call
<1>3. Pending = 0 /\ Pending' = 0
  BY <1>1, CallStack DEF Pending
<1>4. Eofs' = Eofs /\ Passed' = Passed
  BY <1>2, TextKept
<1> QED
  BY <1>2, <1>3, <1>4 DEF CountOK

LEMMA ConsumeCount ==
  ASSUME TextOK, StackOK, CountOK, Consume
  PROVE  CountOK'
<1>1. NextToken /\ UNCHANGED <<dialect, errors, recovering, dropped, files>> /\ stack # <<>>
  BY DEF Consume, Parsing
<1>2. lookahead # "None" /\ stack[1] = lookahead /\ stack' # <<>>
      /\ (stack'[1] = "File" <=> lookahead = "Eof")
  BY ConsumeStack
<1>3. Pending = 0
  <2>1. "File" \notin Lookaheads
    BY KindsAre DEF Lookaheads
  <2> QED
    BY <1>2, <2>1, DialectIs DEF Pending
<1>4. Pending' = IF lookahead = "Eof" THEN 1 ELSE 0
  BY <1>2 DEF Pending
<1>5. dropped' \cap Eofs' = dropped \cap Eofs
  BY <1>1, <1>2, ConsumeText
<1>6. Passed' = Eofs
  BY <1>1, <1>2, TokenRead
<1>7. Cardinality(Eofs) = Cardinality(Passed) + (IF lookahead = "Eof" THEN 1 ELSE 0)
  BY <1>2, PassedIs
<1>8. /\ files \in Nat /\ Cardinality(dropped \cap Eofs) \in Nat /\ Cardinality(Passed) \in Nat
      /\ files + Cardinality(dropped \cap Eofs) = Cardinality(Passed)
  BY <1>3, EofsFinite DEF CountOK
<1>9. files + Cardinality(dropped \cap Eofs) + Pending' = Cardinality(Eofs)
  BY <1>4, <1>7, <1>8
<1> QED
  BY <1>1, <1>5, <1>6, <1>8, <1>9 DEF CountOK

LEMMA DoneCount ==
  ASSUME TextOK, CountOK,
         stack # <<>>, stack[1] # "File", stack' # <<>>, stack'[1] # "File",
         UNCHANGED <<text, lookahead, dropped, files>>
  PROVE  CountOK'
<1>1. Pending = 0 /\ Pending' = 0
  BY DEF Pending
<1>2. Eofs' = Eofs /\ Passed' = Passed
  BY DEF Eofs, Passed
<1> QED
  BY <1>1, <1>2 DEF CountOK

LEMMA FileDoneCount ==
  ASSUME TextOK, StackOK, CountOK, FileDone
  PROVE  CountOK'
<1>1. UNCHANGED <<dialect, text, lookahead, errors, recovering, dropped>> /\ files' = files + 1
  BY DEF FileDone
<1>2. Pending = 1 /\ Pending' = 0
  <2>1. stack' # <<>> /\ stack'[1] # "File"
    BY FileDoneStack
  <2> QED
    BY <2>1, FileDoneStack DEF Pending
<1>3. Eofs' = Eofs /\ Passed' = Passed
  BY <1>1, TextKept
<1>4. files \in Nat /\ Cardinality(dropped \cap Eofs) \in Nat
      /\ files + Cardinality(dropped \cap Eofs) + 1 = Cardinality(Passed)
  BY <1>2, EofsFinite DEF CountOK
<1>5. files' \in Nat /\ files' + Cardinality(dropped \cap Eofs) + 0 = Cardinality(Passed)
  BY <1>1, <1>4
<1> QED
  BY <1>1, <1>2, <1>3, <1>5 DEF CountOK

LEMMA SkipCount ==
  ASSUME TextOK, StackOK, CountOK, Skip
  PROVE  CountOK'
<1>1. /\ recovering /\ NextToken /\ UNCHANGED <<dialect, stack, errors, files>>
      /\ dropped' = dropped \cup {Len(text)} /\ recovering' \in BOOLEAN
  BY DEF Skip
<1>2. lookahead # "None"
  BY SkipStack
<1>3. Pending' = Pending
  BY <1>1 DEF Pending
<1> DEFINE new == IF lookahead = "Eof" THEN {Len(text)} ELSE {}
<1>4. dropped' \cap Eofs' = (dropped \cap Eofs) \cup new
  BY <1>1, <1>2, SkipText
<1>5. Passed' = Eofs
  BY <1>1, <1>2, TokenRead
<1>6. Cardinality(Eofs) = Cardinality(Passed) + (IF lookahead = "Eof" THEN 1 ELSE 0)
  BY <1>2, PassedIs
<1>7. /\ IsFiniteSet(dropped \cap Eofs) /\ Cardinality(dropped \cap Eofs) \in Nat
      /\ Cardinality(Passed) \in Nat
  BY EofsFinite
<1>8. Cardinality(dropped' \cap Eofs') =
        Cardinality(dropped \cap Eofs) + (IF lookahead = "Eof" THEN 1 ELSE 0)
  <2>1. Len(text) \notin dropped \cap Eofs
    BY <1>2 DEF TextOK
  <2>2. CASE lookahead = "Eof"
    BY <1>4, <1>7, <2>1, <2>2, FS_AddElement
  <2>3. CASE lookahead # "Eof"
    <3>1. dropped' \cap Eofs' = dropped \cap Eofs
      BY <1>4, <2>3
    <3> QED
      BY <1>7, <2>3, <3>1
  <2> QED
    BY <2>2, <2>3
<1>9. /\ files \in Nat /\ Pending \in Nat
      /\ files + Cardinality(dropped \cap Eofs) + Pending = Cardinality(Passed)
  BY DEF CountOK, Pending
<1>10. files + Cardinality(dropped' \cap Eofs') + Pending = Cardinality(Eofs)
  BY <1>6, <1>7, <1>8, <1>9
<1> QED
  BY <1>1, <1>3, <1>5, <1>9, <1>10 DEF CountOK

-----------------------------------------------------------------------------
(* The errors at a token.                                                   *)

\* The function r begins with one of X.
Opens(r, la, X) == Table[la][r] # <<>> /\ Table[la][r][1] \in X

LEMMA StatementOpens ==
  ASSUME NEW la \in Lookaheads
  PROVE  /\ Opens("source_element", la,
                  IF la \in {"Function", "Export", "At"} THEN {"function_declaration"}
                  ELSE IF la = "Class" THEN {"class_declaration"} ELSE {"statement"})
         /\ Opens("statement", la,
                  IF la = "LeftBrace" THEN {"block"}
                  ELSE IF la \in {"Let", "Const"} THEN {"variable_statement"}
                  ELSE IF la \in {"Semi", "Return"} THEN {la} ELSE {la, "single_expression"})
         /\ la \in {"Let", "Const"} => Opens("variable_statement", la, {la})
         /\ Opens("class_declaration", la, {"Class"})
<1>1. Table[la]["source_element"] = FileRules(la).source_element
  BY FileDomain, TableOf DEF Groups, FileNames
<1>2. Table[la]["statement"] = StatementRules(la).statement
  BY StatementDomain, TableOf DEF Groups, StatementNames
<1>3. Table[la]["variable_statement"] = VariableRules(la).variable_statement
  BY VariableDomain, TableOf DEF Groups, VariableNames
<1>4. Table[la]["class_declaration"] = ClassRules(la).class_declaration
  BY ClassDomain, TableOf DEF Groups, ClassNames
<1>5. FileRules(la).source_element =
        IF la \in {"Function", "Export", "At"} THEN <<"function_declaration">>
        ELSE IF la = "Class" THEN <<"class_declaration">> ELSE <<"statement">>
  BY DEF FileRules
<1>6. LET body == StatementRules(la).statement
      IN  /\ body # <<>>
          /\ body[1] = IF la = "LeftBrace" THEN "block"
                       ELSE IF la \in {"Let", "Const"} THEN "variable_statement"
                       ELSE IF la \in {"Semi", "Return", "If", "While"} THEN la
                       ELSE "single_expression"
  BY DEF StatementRules
<1>7. LET body == VariableRules(la).variable_statement
      IN  body # <<>> /\ body[1] = IF la = "Const" THEN "Const" ELSE "Let"
  BY DEF VariableRules
<1>8. LET body == ClassRules(la).class_declaration
      IN  body # <<>> /\ body[1] = "Class"
  BY DEF ClassRules
<1> QED
  BY <1>1, <1>2, <1>3, <1>4, <1>5, <1>6, <1>7, <1>8 DEF Opens

LEMMA ExpressionOpens ==
  ASSUME NEW la \in Lookaheads
  PROVE  /\ Opens("single_expression", la, {"new_expression"})
         /\ Opens("new_expression", la, {la, "bitwise_or_expression"})
         /\ Opens("bitwise_or_expression", la, {"operand"})
         /\ Opens("operand", la, {la, "arguments_expression"})
         /\ Opens("arguments_expression", la, {"member_dot_expression"})
         /\ Opens("member_dot_expression", la, {"this"})
         /\ Opens("this", la, {la, "identifier_expression"})
         /\ Opens("identifier_expression", la, {la, "Literal"})
<1>1. \A r \in SingleNames : Table[la][r] = SingleRules(la)[r]
  BY SingleDomain, TableOf DEF Groups
<1>2. \A r \in BinaryNames : Table[la][r] = BinaryRules(la)[r]
  BY BinaryDomain, TableOf DEF Groups
<1>3. \A r \in UnaryNames : Table[la][r] = UnaryRules(la)[r]
  BY UnaryDomain, TableOf DEF Groups
<1>4. \A r \in CallNames : Table[la][r] = CallRules(la)[r]
  BY CallDomain, TableOf DEF Groups
<1>5. \A r \in LiteralNames : Table[la][r] = LiteralRules(la)[r]
  BY LiteralDomain, TableOf DEF Groups
<1>6. Opens("single_expression", la, {"new_expression"})
  BY <1>1 DEF SingleNames, SingleRules, Opens
<1>7. Opens("new_expression", la, {la, "bitwise_or_expression"})
  BY <1>1 DEF SingleNames, SingleRules, Opens
<1>8. Opens("bitwise_or_expression", la, {"operand"})
  <2>1. BinaryRules(la).bitwise_or_expression = <<"operand", "bitwise_or">>
    BY DEF BinaryRules
  <2>2. Table[la]["bitwise_or_expression"] = BinaryRules(la).bitwise_or_expression
    BY <1>2 DEF BinaryNames
  <2> QED
    BY <2>1, <2>2 DEF Opens
<1>9. Opens("operand", la, {la, "arguments_expression"})
  <2>1. \/ UnaryRules(la).operand = <<la, "arguments_expression", "UnaryExpression", "postfix">>
        \/ UnaryRules(la).operand = <<"arguments_expression", "postfix">>
    BY DEF UnaryRules
  <2> DEFINE body == UnaryRules(la).operand
  <2>2. Table[la]["operand"] = body
    BY <1>3 DEF UnaryNames
  <2> HIDE DEF body
  <2>3. body # <<>> /\ body[1] \in {la, "arguments_expression"}
    <3>1. CASE body = <<la, "arguments_expression", "UnaryExpression", "postfix">>
      BY <3>1
    <3>2. CASE body = <<"arguments_expression", "postfix">>
      BY <3>2
    <3> QED
      BY <2>1, <3>1, <3>2 DEF body
  <2> QED
    BY <2>2, <2>3, Zenon DEF Opens
<1>10. Opens("arguments_expression", la, {"member_dot_expression"})
  BY <1>4 DEF CallNames, CallRules, Opens
<1>11. Opens("member_dot_expression", la, {"this"})
  BY <1>4 DEF CallNames, CallRules, Opens
<1>12. Opens("this", la, {la, "identifier_expression"})
  BY <1>4 DEF CallNames, CallRules, Opens
<1>13. Opens("identifier_expression", la, {la, "Literal"})
  <2> DEFINE body == LiteralRules(la).identifier_expression
  <2>1. \/ body = <<"LeftBracket", "elements", "RightBracket", "ArrayLiteral">>
             /\ la = "LeftBracket"
        \/ body = <<la>>
        \/ body = <<la, "unwrap">>
        \/ body = <<"Literal">>
    BY DEF LiteralRules
  <2>2. Table[la]["identifier_expression"] = body
    BY <1>5 DEF LiteralNames
  <2> HIDE DEF body
  <2> QED
    BY <2>1, <2>2 DEF Opens
<1> QED
  BY <1>6, <1>7, <1>8, <1>9, <1>10, <1>11, <1>12, <1>13

LEMMA DeclarationOpens ==
  ASSUME NEW la \in Lookaheads
  PROVE  /\ Opens("block", la, {"LeftBrace"})
         /\ Table[la]["function_declaration"] # <<>>
         /\ Table[la]["function_declaration"][1] = "annotations"
         /\ Table[la]["function_declaration"][2] = "exported"
         /\ Len(Table[la]["function_declaration"]) > 1
         /\ la = "At" => Opens("annotations", la, {"At"})
         /\ la # "At" => Table[la]["annotations"] = <<>>
         /\ la = "Export" => Opens("exported", la, {"Export"})
         /\ la # "Export" => Table[la]["exported"] = <<>>
<1>1. Opens("block", la, {"LeftBrace"})
  BY FramingBodies DEF Opens
<1>2. Table[la]["function_declaration"] =
        <<"annotations", "exported", "Function", "Identifier", "formal_parameter_list",
          "annotated", "block">>
  BY FramingBodies
<1>3. Table[la]["annotations"] = TypeRules(la).annotations
  BY TypeDomain, TableOf DEF Groups, TypeNames
<1>4. Table[la]["exported"] = FunctionRules(la).exported
  BY FunctionDomain, TableOf DEF Groups, FunctionNames
<1>5. TypeRules(la).annotations =
        IF la = "At" THEN <<"At", "Identifier", "annotation_value", "annotations">> ELSE <<>>
  BY DEF TypeRules, Optional
<1>6. FunctionRules(la).exported = IF la = "Export" THEN <<"Export">> ELSE <<>>
  BY DEF FunctionRules, Optional
<1> QED
  BY <1>1, <1>2, <1>3, <1>4, <1>5, <1>6 DEF Opens

LEMMA RulesAreNot == \A r \in RuleNames : r \notin Terminals
<1>1. \A r \in FileNames : r \notin Terminals
  BY TerminalsAre, OperatorsAre DEF OtherTokens, FileNames
<1>2. \A r \in StatementNames : r \notin Terminals
  BY TerminalsAre, OperatorsAre DEF OtherTokens, StatementNames
<1>3. \A r \in VariableNames : r \notin Terminals
  BY TerminalsAre, OperatorsAre DEF OtherTokens, VariableNames
<1>4. \A r \in SingleNames : r \notin Terminals
  BY TerminalsAre, OperatorsAre DEF OtherTokens, SingleNames
<1>5. \A r \in BinaryNames : r \notin Terminals
  BY TerminalsAre, OperatorsAre DEF OtherTokens, BinaryNames
<1>6. \A r \in UnaryNames : r \notin Terminals
  BY TerminalsAre, OperatorsAre DEF OtherTokens, UnaryNames
<1>7. \A r \in CallNames : r \notin Terminals
  BY TerminalsAre, OperatorsAre DEF OtherTokens, CallNames
<1>8. \A r \in LiteralNames : r \notin Terminals
  BY TerminalsAre, OperatorsAre DEF OtherTokens, LiteralNames
<1>9. \A r \in TypeNames : r \notin Terminals
  BY TerminalsAre, OperatorsAre DEF OtherTokens, TypeNames
<1>10. \A r \in FunctionNames : r \notin Terminals
  BY TerminalsAre, OperatorsAre DEF OtherTokens, FunctionNames
<1>11. \A r \in ClassNames : r \notin Terminals
  BY TerminalsAre, OperatorsAre DEF OtherTokens, ClassNames
<1> QED
  BY <1>1, <1>2, <1>3, <1>4, <1>5, <1>6, <1>7, <1>8, <1>9, <1>10, <1>11,
     RuleNamesAre

\* A function that is called begins on top of what follows it.
LEMMA CallTop ==
  ASSUME stack \in Seq(Items), Within, Linked(stack), NEW body \in Seq(Items),
         stack' = body \o Tail(stack)
  PROVE  /\ stack' # <<>>
         /\ body = <<>> => stack'[1] = stack[2]
         /\ body # <<>> => stack'[1] = body[1]
         /\ Len(body) > 1 => Len(stack') > 1 /\ stack'[2] = body[2]
<1>1. stack # <<>> /\ Len(stack) \in Nat /\ Len(stack) >= 4 /\ Len(body) \in Nat
  BY TopIs
<1>2. Len(stack') = Len(body) + Len(stack) - 1 /\ stack' \in Seq(Items)
  BY <1>1, CalledIs
<1>3. stack' # <<>>
  BY <1>1, <1>2
<1>4. CASE body = <<>>
  <2>1. Len(body) = 0 /\ 1 \in Len(body) + 1 .. Len(body) + Len(stack) - 1
        /\ 1 - Len(body) + 1 = 2
    BY <1>1, <1>4
  <2>2. stack'[1] = stack[2]
    BY <1>1, <2>1, CalledIs
  <2> QED
    BY <1>3, <1>4, <2>1, <2>2
<1>5. CASE body # <<>>
  <2>1. 1 \in 1 .. Len(body) /\ (Len(body) > 1 => 2 \in 1 .. Len(body))
    BY <1>1, <1>5
  <2>2. stack'[1] = body[1] /\ (Len(body) > 1 => stack'[2] = body[2])
    BY <1>1, <2>1, CalledIs
  <2> QED
    BY <1>1, <1>2, <1>3, <1>5, <2>2
<1> QED
  BY <1>4, <1>5

LEMMA CallStarts ==
  ASSUME TextOK, StackOK, Call, lookahead # "None"
  PROVE  /\ Starting(stack, lookahead) => Starting(stack', lookahead)
         /\ Sure(stack, lookahead) => Sure(stack', lookahead)
<1> DEFINE r == stack[1]
           body == Table[lookahead][r]
<1>1. /\ stack # <<>> /\ r \in RuleNames /\ stack' = body \o Tail(stack)
      /\ UNCHANGED lookahead
  BY DEF Call, Parsing, Doing, StackOK
<1>2. lookahead \in Lookaheads /\ lookahead \in Terminals
  BY DialectIs DEF Lookaheads
<1>3. r # lookahead /\ r # "Literal"
  <2>1. "Literal" \notin RuleNames
    BY RuleNamesAre
     DEF FileNames, StatementNames, VariableNames, SingleNames, BinaryNames,
         UnaryNames, CallNames, LiteralNames, TypeNames, FunctionNames, ClassNames
  <2> QED
    BY <1>1, <1>2, <2>1, RulesAreNot
<1>4. CASE ~Within
  <2>1. r \in {"program", "file", "unwrap", "Eof", "File"}
    BY <1>1, <1>4 DEF StackOK, Outside
  <2>2. ~Starting(stack, lookahead) /\ ~Sure(stack, lookahead)
    BY <1>3, <2>1 DEF Starting, Sure
  <2> QED
    BY <2>2
<1>5. CASE Within
  <2>1. stack \in Seq(Items) /\ Linked(stack) /\ Pair(r, stack[2])
    BY <1>5, TopIs DEF StackOK
  <2>2. r = "source_elements" => stack = Frame
    BY <1>5, FrameIs DEF StackOK, Within
  <2>3. body \in Seq(Items)
    <3>1. CASE r = "source_elements"
      <4>1. body \in {<<>>, <<"source_element", "source_elements">>}
        BY <1>2, <3>1, FramingBodies, NoneIs
      <4>2. "source_element" \in Items /\ "source_elements" \in Items
        BY PlainRules, OuterItems DEF Plain, Outer
      <4>3. <<>> \in Seq(Items) /\ <<"source_element", "source_elements">> \in Seq(Items)
        BY <4>2
      <4> QED
        BY <4>1, <4>3, Zenon
    <3>2. CASE r # "source_elements"
      <4>1. r \in RuleNames \ {"program", "file", "source_elements"}
        BY <1>1, <1>5, <2>1, <3>2, FramedTail DEF Inside, Outer, Within
      <4>2. Begins(r, lookahead)
        BY <1>5, <4>1, KindsAre DEF Begins, Within, TopOK
      <4> QED
        BY <1>2, <4>1, <4>2, BodyIs DEF Inside
    <3> QED
      BY <3>1, <3>2
  <2> HIDE DEF body
  <2>4. /\ stack' # <<>>
        /\ body = <<>> => stack'[1] = stack[2]
        /\ body # <<>> => stack'[1] = body[1]
        /\ Len(body) > 1 => Len(stack') > 1 /\ stack'[2] = body[2]
    BY <1>1, <1>5, <2>1, <2>3, CallTop
  <2>5. \A X : Opens(r, lookahead, X) => stack'[1] \in X
    BY <2>4 DEF Opens, body
  <2>6. ASSUME r \in {"source_element", "statement", "variable_statement", "class_declaration",
                      "block"}
        PROVE  /\ Starting(stack, lookahead) => Starting(stack', lookahead)
               /\ Sure(stack, lookahead) => Sure(stack', lookahead)
    <3>1. CASE r = "source_element"
      <4>1. stack'[1] =
              IF lookahead \in {"Function", "Export", "At"} THEN "function_declaration"
              ELSE IF lookahead = "Class" THEN "class_declaration" ELSE "statement"
        BY <1>2, <2>5, <3>1, StatementOpens
      <4> QED
        BY <1>1, <1>3, <2>4, <3>1, <4>1 DEF Starting, Sure
    <3>2. CASE r = "statement"
      <4>1. stack'[1] \in
              IF lookahead = "LeftBrace" THEN {"block"}
              ELSE IF lookahead \in {"Let", "Const"} THEN {"variable_statement"}
              ELSE IF lookahead \in {"Semi", "Return"} THEN {lookahead}
              ELSE {lookahead, "single_expression"}
        BY <1>2, <2>5, <3>2, StatementOpens
      <4> QED
        BY <1>1, <1>3, <2>4, <3>2, <4>1 DEF Starting, Sure
    <3>3. CASE r = "variable_statement"
      <4>1. lookahead \in {"Let", "Const"} => stack'[1] = lookahead
        BY <1>2, <2>5, <3>3, StatementOpens
      <4> QED
        BY <1>1, <1>3, <2>4, <3>3, <4>1 DEF Starting, Sure
    <3>4. CASE r = "class_declaration"
      <4>1. stack'[1] = "Class"
        BY <1>2, <2>5, <3>4, StatementOpens
      <4> QED
        BY <1>1, <1>3, <2>4, <3>4, <4>1 DEF Starting, Sure
    <3>5. CASE r = "block"
      <4>1. stack'[1] = "LeftBrace"
        BY <1>2, <2>5, <3>5, DeclarationOpens
      <4> QED
        BY <1>1, <1>3, <2>4, <3>5, <4>1 DEF Starting, Sure
    <3> QED
      BY <2>6, <3>1, <3>2, <3>3, <3>4, <3>5
  <2>7. ASSUME r \in {"single_expression", "new_expression", "bitwise_or_expression", "operand",
                      "arguments_expression", "member_dot_expression", "this",
                      "identifier_expression"}
        PROVE  /\ Starting(stack, lookahead) => Starting(stack', lookahead)
               /\ Sure(stack, lookahead) => Sure(stack', lookahead)
    <3>1. stack'[1] \in
            {lookahead, "Literal", "new_expression", "bitwise_or_expression", "operand",
             "arguments_expression", "member_dot_expression", "this", "identifier_expression"}
      BY <1>2, <2>5, <2>7, ExpressionOpens
    <3>2. ~Sure(stack, lookahead)
      BY <1>3, <2>7 DEF Sure
    <3> QED
      BY <1>1, <2>4, <3>1, <3>2 DEF Starting
  <2>8. ASSUME r = "source_elements"
        PROVE  /\ Starting(stack, lookahead) => Starting(stack', lookahead)
               /\ Sure(stack, lookahead) => Sure(stack', lookahead)
    <3>1. body = IF lookahead = "Eof" THEN <<>> ELSE <<"source_element", "source_elements">>
      BY <1>2, <2>8, FramingBodies DEF body
    <3>2. stack[2] = "Eof"
      BY <2>2, <2>8 DEF Frame
    <3>3. stack'[1] = IF lookahead = "Eof" THEN "Eof" ELSE "source_element"
      BY <2>4, <3>1, <3>2
    <3> QED
      BY <1>1, <1>3, <2>4, <2>8, <3>3 DEF Starting, Sure
  <2>9. ASSUME r = "statement_list"
        PROVE  /\ Starting(stack, lookahead) => Starting(stack', lookahead)
               /\ Sure(stack, lookahead) => Sure(stack', lookahead)
    <3>1. body = IF lookahead = "RightBrace" THEN <<>> ELSE <<"statement", "statement_list">>
      BY <1>2, <2>9, FramingBodies DEF body
    <3>2. stack'[1] = IF lookahead = "RightBrace" THEN "RightBrace" ELSE "statement"
      BY <2>1, <2>4, <2>9, <3>1 DEF Pair
    <3> QED
      BY <1>1, <1>3, <2>4, <2>9, <3>2 DEF Starting, Sure
  <2>10. ASSUME r = "function_declaration"
         PROVE  /\ Starting(stack, lookahead) => Starting(stack', lookahead)
                /\ Sure(stack, lookahead) => Sure(stack', lookahead)
    <3>1. /\ stack'[1] = "annotations" /\ stack'[2] = "exported" /\ Len(stack') > 1
      BY <1>2, <2>4, <2>10, DeclarationOpens DEF body
    <3> QED
      BY <1>1, <1>3, <2>4, <2>10, <3>1 DEF Starting, Sure
  <2>11. ASSUME r = "annotations"
         PROVE  /\ Starting(stack, lookahead) => Starting(stack', lookahead)
                /\ Sure(stack, lookahead) => Sure(stack', lookahead)
    <3>1. stack'[1] = IF lookahead = "At" THEN "At" ELSE stack[2]
      BY <1>2, <2>4, <2>5, <2>11, DeclarationOpens DEF body
    <3> QED
      BY <1>1, <1>3, <2>4, <2>11, <3>1 DEF Starting, Sure
  <2>12. ASSUME r = "exported"
         PROVE  /\ Starting(stack, lookahead) => Starting(stack', lookahead)
                /\ Sure(stack, lookahead) => Sure(stack', lookahead)
    <3>1. stack'[1] = IF lookahead = "Export" THEN "Export" ELSE "Function"
      BY <1>2, <2>1, <2>4, <2>5, <2>12, DeclarationOpens DEF body, Pair
    <3> QED
      BY <1>1, <1>3, <2>4, <2>12, <3>1 DEF Starting, Sure
  <2> QED
    <3>1. Starting(stack, lookahead) \/ Sure(stack, lookahead) =>
            \/ r \in {"source_element", "statement", "variable_statement", "class_declaration",
                      "block"}
            \/ r \in {"single_expression", "new_expression", "bitwise_or_expression", "operand",
                      "arguments_expression", "member_dot_expression", "this",
                      "identifier_expression"}
            \/ r \in {"source_elements", "statement_list", "function_declaration",
                      "annotations", "exported"}
      BY <1>3 DEF Starting, Sure
    <3> QED
      BY <2>6, <2>7, <2>8, <2>9, <2>10, <2>11, <2>12, <3>1
<1> QED
  BY <1>4, <1>5

LEMMA ReportedIs ==
  ASSUME TextOK
  PROVE  /\ \A i : Reported(i) \in Nat
         /\ \A i : i \notin 1 .. Len(text) => Reported(i) = 0
<1>1. DOMAIN errors = 1 .. Len(errors) /\ Len(errors) \in Nat
  BY DEF TextOK
<1>2. ASSUME NEW i
      PROVE  Reported(i) \in Nat /\ (i \notin 1 .. Len(text) => Reported(i) = 0)
  <2> DEFINE S == {k \in DOMAIN errors : errors[k] = i}
  <2>1. IsFiniteSet(S)
    <3>1. IsFiniteSet(1 .. Len(errors))
      BY <1>1, FS_Interval
    <3>2. S \subseteq 1 .. Len(errors)
      BY <1>1
    <3> QED
      BY <3>1, <3>2, FS_Subset
  <2>2. i \notin 1 .. Len(text) => S = {}
    BY <1>1 DEF TextOK
  <2> QED
    BY <2>1, <2>2, FS_CardinalityType, FS_EmptySet DEF Reported
<1> QED
  BY <1>2

LEMMA ErrorCounted ==
  ASSUME TextOK, errors' = Append(errors, Len(text)), NEW i
  PROVE  Reported(i)' = Reported(i) + (IF i = Len(text) THEN 1 ELSE 0)
<1> DEFINE n == Len(errors)
           S == {k \in DOMAIN errors : errors[k] = i}
           T == {k \in DOMAIN errors' : errors'[k] = i}
<1>1. /\ n \in Nat /\ DOMAIN errors = 1 .. n /\ DOMAIN errors' = 1 .. n + 1
      /\ errors'[n + 1] = Len(text) /\ \A k \in 1 .. n : errors'[k] = errors[k]
  BY DEF TextOK
<1>2. IsFiniteSet(S) /\ n + 1 \notin S /\ Cardinality(S) \in Nat
  <2>1. IsFiniteSet(1 .. n) /\ S \subseteq 1 .. n
    BY <1>1, FS_Interval
  <2> QED
    BY <1>1, <2>1, FS_Subset, FS_CardinalityType
<1>3. CASE i = Len(text)
  <2>1. T = S \cup {n + 1}
    BY <1>1, <1>3
  <2> QED
    BY <1>2, <1>3, <2>1, FS_AddElement DEF Reported
<1>4. CASE i # Len(text)
  <2>1. T = S
    BY <1>1, <1>4
  <2>2. Reported(i)' = Cardinality(T) /\ Reported(i) = Cardinality(S)
    BY DEF Reported
  <2> HIDE DEF S, T
  <2> QED
    BY <1>2, <1>4, <2>1, <2>2
<1> QED
  BY <1>3, <1>4

\* The steps that neither read nor report anything.
LEMMA KeptBound ==
  ASSUME TextOK, BoundOK, ~recovering, UNCHANGED <<text, lookahead, errors>>,
         lookahead # "None" =>
           /\ Starting(stack, lookahead) => Starting(stack', lookahead)
           /\ Sure(stack, lookahead) => Sure(stack', lookahead)
  PROVE  BoundOK'
<1>1. \A i : Reported(i)' = Reported(i)
  BY DEF Reported
<1> QED
  BY <1>1 DEF BoundOK

LEMMA ReadBound ==
  ASSUME TextOK, BoundOK, NextToken, lookahead # "None", UNCHANGED <<dialect, errors>>
  PROVE  BoundOK'
<1>1. \A i : Reported(i)' = Reported(i)
  BY DEF Reported
<1>2. /\ Len(text) \in Nat /\ (lookahead' = "None" => text' = text)
      /\ lookahead' # "None" => Len(text') = Len(text) + 1
  BY TokenRead, DialectIs
<1>3. \A i : i \notin 1 .. Len(text) => Reported(i)' = 0
  BY <1>1, ReportedIs
<1>4. ASSUME NEW i \in 1 .. Len(text')
      PROVE  /\ Reported(i)' <= 2
             /\ i = Len(text') /\ lookahead' # "None" => Reported(i)' = 0
  <2>1. CASE i \in 1 .. Len(text)
    BY <1>1, <1>2, <2>1 DEF BoundOK
  <2>2. CASE i \notin 1 .. Len(text)
    BY <1>3, <2>2
  <2> QED
    BY <2>1, <2>2
<1> QED
  BY <1>4 DEF BoundOK

LEMMA NotStarting ==
  ASSUME TextOK, lookahead # "None", stack # <<>>,
         stack[1] \in DOMAIN Nodes \cup {"Element", "File"}
  PROVE  ~Starting(stack, lookahead) /\ ~Sure(stack, lookahead)
<1>1. stack[1] # lookahead
  BY KindsAre, DialectIs DEF Lookaheads
<1> QED
  BY <1>1 DEF Starting, Sure, Nodes

LEMMA MismatchBound ==
  ASSUME TextOK, StackOK, BoundOK, Mismatch
  PROVE  BoundOK'
<1>1. /\ stack # <<>> /\ ~recovering /\ stack[1] \in Terminals \cup {"Literal"}
      /\ lookahead \notin {stack[1], "None"}
      /\ errors' = Append(errors, Len(text)) /\ UNCHANGED <<text, lookahead>>
  BY DEF Mismatch, Parsing, Doing, StackOK
<1>2. /\ stack' # <<>> /\ stack'[1] \in Lists
      /\ recovering' = (stack[1] # "Semi" /\ ~Recovered(lookahead, stack'[1]))
  BY MismatchStack
<1>3. stack[1] \notin RuleNames \ {"Literal"}
  BY <1>1, RulesAreNot
<1>4. ~Sure(stack, lookahead) /\ (Starting(stack, lookahead) => stack[1] # "Semi")
  <2>1. {"source_elements", "source_element", "statement_list", "statement", "block",
         "single_expression", "new_expression", "bitwise_or_expression", "operand",
         "arguments_expression", "member_dot_expression", "this", "identifier_expression",
         "variable_statement", "class_declaration", "function_declaration", "annotations",
         "exported"} \subseteq RuleNames
    BY RuleNamesAre
     DEF FileNames, StatementNames, VariableNames, SingleNames, BinaryNames,
         UnaryNames, CallNames, LiteralNames, TypeNames, FunctionNames, ClassNames
  <2>2. Sure(stack, lookahead) => stack[1] = lookahead \/ stack[1] \in RuleNames \ {"Literal"}
    BY <2>1 DEF Sure
  <2>3. Starting(stack, lookahead) =>
          stack[1] \in {lookahead, "Literal"} \/ stack[1] \in RuleNames \ {"Literal"}
    BY <2>1 DEF Starting
  <2> QED
    BY <1>1, <1>3, <2>2, <2>3
<1>5. \A i : Reported(i)' = Reported(i) + (IF i = Len(text) THEN 1 ELSE 0)
  BY <1>1, ErrorCounted
<1>6. /\ Len(text) \in 1 .. Len(text) /\ \A i : Reported(i) \in Nat
  BY DialectIs, ReportedIs
<1>7. \/ Reported(Len(text)) = 0
      \/ Reported(Len(text)) = 1 /\ Starting(stack, lookahead)
  <2>1. Reported(Len(text)) \in Nat
    BY <1>6
  <2>2. Reported(Len(text)) > 0 => Reported(Len(text)) = 1 /\ Starting(stack, lookahead)
    BY <1>1, <1>4, <1>6 DEF BoundOK
  <2> QED
    BY <2>1, <2>2
<1>8. \/ recovering' \/ Sure(stack', lookahead)
      \/ Reported(Len(text)) = 0 /\ Starting(stack', lookahead)
  <2>1. CASE stack[1] = "Semi"
    BY <1>2, <1>4, <1>7, <2>1 DEF Lists, Starting
  <2>2. CASE stack[1] # "Semi"
    <3>1. recovering' \/ lookahead \in RecoverySet(stack'[1])
      BY <1>1, <1>2, <2>2 DEF Recovered
    <3>2. lookahead \in RecoverySet(stack'[1]) => Sure(stack', lookahead)
      BY <1>2 DEF RecoverySet, Sure, Lists
    <3> QED
      BY <3>1, <3>2
  <2> QED
    BY <2>1, <2>2
<1>9. ASSUME NEW i \in 1 .. Len(text)
      PROVE  /\ Reported(i)' <= 2
             /\ i = Len(text) =>
                  \/ recovering' \/ Sure(stack', lookahead)
                  \/ Reported(i)' = 1 /\ Starting(stack', lookahead)
  <2>1. Reported(i) <= 2
    BY DEF BoundOK
  <2>2. CASE i = Len(text)
    BY <1>5, <1>7, <1>8, <2>2
  <2>3. CASE i # Len(text)
    BY <1>5, <1>6, <2>1, <2>3
  <2> QED
    BY <2>2, <2>3
<1> QED
  BY <1>1, <1>9 DEF BoundOK
-----------------------------------------------------------------------------
(* The invariant.                                                           *)

LEMMA IInvInit == Init => IInv
<1> SUFFICES ASSUME Init
             PROVE  IInv
  OBVIOUS
<1>1. /\ dialect \in Dialects /\ lookahead \in dialect.tokens \cup {"Eof"} /\ text = <<lookahead>>
      /\ stack = <<"program">> /\ errors = <<>> /\ recovering = FALSE /\ dropped = {}
      /\ files = 0
  BY DEF Init
<1>2. /\ dialect.files \in Nat /\ dialect.files > 0 /\ dialect.tokens \subseteq Terminals \ {"Eof"}
      /\ lookahead # "None"
  BY <1>1, DialectAssumption, TerminalsAre, NoneIs
<1>3. /\ text \in Seq(dialect.tokens \cup {"Eof"}) /\ text # <<>> /\ Len(text) = 1
      /\ text[1] = lookahead /\ DOMAIN text = {1}
  BY <1>1
<1>4. FilesRead = IF lookahead = "Eof" THEN 1 ELSE 0
  <2>1. Eofs = IF lookahead = "Eof" THEN {1} ELSE {}
    BY <1>3 DEF Eofs
  <2> QED
    BY <2>1, FS_EmptySet, FS_Singleton DEF FilesRead
<1>5. TextOK
  <2>1. errors \in Seq(1 .. Len(text))
    BY <1>1
  <2>2. /\ FilesRead <= dialect.files
        /\ lookahead \notin {"Eof", "None"} => FilesRead < dialect.files
    BY <1>2, <1>4
  <2>3. dropped \subseteq 1 .. Len(text) /\ recovering \in BOOLEAN
    BY <1>1
  <2> QED
    BY <1>1, <1>2, <1>3, <2>1, <2>2, <2>3 DEF TextOK
<1>6. StackOK
  <2>1. stack \in Seq(Items) /\ Linked(stack)
    BY <1>1, OuterItems DEF Outer, Linked
  <2>2. Len(text) \notin dropped
    BY <1>1
  <2> QED
    BY <1>1, <2>1, <2>2 DEF StackOK, Outside
<1>7. CountOK
  <2>1. Passed = {} /\ dropped \cap Eofs = {} /\ Pending = 0
    BY <1>1, <1>2, <1>3 DEF Passed, Eofs, Pending
  <2> QED
    BY <1>1, <2>1, FS_EmptySet DEF CountOK
<1>8. BoundOK
  <2>1. \A i : Reported(i) = 0
    BY <1>1, FS_EmptySet DEF Reported
  <2> QED
    BY <2>1 DEF BoundOK
<1> QED
  BY <1>5, <1>6, <1>7, <1>8 DEF IInv

LEMMA IInvNext == IInv /\ [Next]_vars => IInv'
<1> SUFFICES ASSUME IInv, [Next]_vars
             PROVE  IInv'
  OBVIOUS
<1>1. TextOK /\ StackOK /\ CountOK /\ BoundOK
  BY DEF IInv
<1>2. CASE Call
  <2>1. ~recovering /\ UNCHANGED <<dialect, text, lookahead, errors, recovering, dropped, files>>
    BY <1>2 DEF Call, Parsing
  <2>2. TextOK'
    BY <1>1, <2>1, TextKept
  <2>3. BoundOK'
    BY <1>1, <1>2, <2>1, CallStarts, KeptBound
  <2> QED
    BY <1>1, <1>2, <2>2, <2>3, CallStack, CallCount DEF IInv
<1>3. CASE Consume
  <2>1. NextToken /\ UNCHANGED <<dialect, errors, recovering, dropped, files>>
    BY <1>3 DEF Consume
  <2>2. lookahead # "None" /\ StackOK'
    BY <1>1, <1>3, ConsumeStack
  <2>3. TextOK' /\ BoundOK'
    BY <1>1, <2>1, <2>2, ConsumeText, ReadBound
  <2> QED
    BY <1>1, <1>3, <2>2, <2>3, ConsumeCount DEF IInv
<1>4. CASE Build \/ PutAside
  <2>1. /\ ~recovering /\ stack # <<>> /\ stack[1] \in DOMAIN Nodes \cup {"Element"}
        /\ stack' = Tail(stack)
        /\ UNCHANGED <<dialect, text, lookahead, errors, recovering, dropped, files>>
    <3>1. stack # <<>> => Head(stack) = stack[1]
      BY <1>1 DEF StackOK
    <3>2. CASE Build
      BY <3>1, <3>2 DEF Build, Parsing, Doing
    <3>3. CASE PutAside
      BY <3>1, <3>3 DEF PutAside, Parsing, Doing
    <3> QED
      BY <1>4, <3>2, <3>3
  <2>2. StackOK' /\ stack' # <<>> /\ stack'[1] # "File" /\ stack[1] # "File"
    BY <1>1, <2>1, DoneStack
  <2>3. TextOK' /\ CountOK'
    BY <1>1, <2>1, <2>2, TextKept, DoneCount
  <2>4. BoundOK'
    BY <1>1, <2>1, NotStarting, KeptBound
  <2> QED
    BY <2>2, <2>3, <2>4 DEF IInv
<1>5. CASE FileDone
  <2>1. ~recovering /\ UNCHANGED <<dialect, text, lookahead, errors, recovering, dropped>>
    BY <1>5 DEF FileDone, Parsing
  <2>2. StackOK' /\ stack # <<>> /\ stack[1] = "File"
    BY <1>1, <1>5, FileDoneStack
  <2>3. TextOK' /\ CountOK'
    BY <1>1, <1>5, <2>1, TextKept, FileDoneCount
  <2>4. BoundOK'
    BY <1>1, <2>1, <2>2, NotStarting, KeptBound
  <2> QED
    BY <2>2, <2>3, <2>4 DEF IInv
<1>6. CASE Mismatch
  <2>1. /\ UNCHANGED <<dialect, text, lookahead, dropped, files>> /\ lookahead # "None"
        /\ errors' = Append(errors, Len(text)) /\ recovering' \in BOOLEAN /\ stack # <<>>
        /\ stack[1] \in Terminals \cup {"Literal"}
    BY <1>1, <1>6 DEF Mismatch, Parsing, Doing, StackOK
  <2>2. StackOK' /\ stack' # <<>> /\ stack'[1] \in Lists
    BY <1>1, <1>6, MismatchStack
  <2>3. TextOK'
    BY <1>1, <2>1, ErrorText
  <2>4. CountOK'
    <3>1. stack[1] # "File" /\ stack'[1] # "File"
      BY <2>1, <2>2, KindsAre DEF Lists
    <3> QED
      BY <1>1, <2>1, <2>2, <3>1, DoneCount
  <2> QED
    BY <1>1, <1>6, <2>2, <2>3, <2>4, MismatchBound DEF IInv
<1>7. CASE Skip
  <2>1. /\ recovering /\ recovering' \in BOOLEAN /\ NextToken /\ UNCHANGED <<dialect, errors>>
        /\ dropped' = dropped \cup {Len(text)}
    BY <1>7 DEF Skip
  <2>2. StackOK' /\ lookahead # "None"
    BY <1>1, <1>7, SkipStack
  <2>3. TextOK' /\ BoundOK'
    BY <1>1, <2>1, <2>2, SkipText, ReadBound
  <2> QED
    BY <1>1, <1>7, <2>2, <2>3, SkipCount DEF IInv
<1>8. CASE UNCHANGED vars
  <2>1. UNCHANGED <<dialect, text, lookahead, stack, errors, recovering, dropped, files>>
    BY <1>8 DEF vars
  <2>2. TextOK' /\ Eofs' = Eofs /\ Passed' = Passed
    BY <1>1, <2>1, TextKept
  <2>3. StackOK'
    BY <1>1, <2>1 DEF StackOK, Within, Outside, TopOK
  <2>4. CountOK'
    BY <1>1, <2>1, <2>2 DEF CountOK, Pending
  <2>5. BoundOK'
    BY <1>1, <2>1 DEF BoundOK, Reported
  <2> QED
    BY <2>2, <2>3, <2>4, <2>5 DEF IInv
<1> QED
  BY <1>2, <1>3, <1>4, <1>5, <1>6, <1>7, <1>8 DEF Next

\* Below every function that is being executed stands the rest of its file, its
\* Eof and its File node (lib.rs:136-162); the lookahead runs out within a file only
\* after a token was dropped (lib.rs:941-964); and after an error the parser is
\* recovering, sure to consume the lookahead, or has reported it once.
THEOREM ParserStack == Spec => []IInv
<1>1. Init => IInv
  BY IInvInit
<1>2. IInv /\ [Next]_vars => IInv'
  BY IInvNext
<1> QED
  BY <1>1, <1>2, PTL DEF Spec

-----------------------------------------------------------------------------
(* What follows from it.                                                    *)

LEMMA IInvEnds == IInv => EndsExplained
<1> SUFFICES ASSUME IInv
             PROVE  EndsExplained
  OBVIOUS
<1>1. TextOK /\ StackOK /\ CountOK
  BY DEF IInv
<1>2. /\ stack # <<>> => Head(stack) = stack[1]
      /\ Len(text) \notin dropped \/ errors # <<>>
  BY <1>1 DEF StackOK, TextOK
<1>3. stack = <<>> => ~Within
  BY <1>1, TopIs DEF StackOK
<1>4. ASSUME Done
      PROVE  /\ lookahead = "None" /\ Len(text) \notin dropped
             /\ files + Cardinality(dropped \cap Eofs) = dialect.files
  <2>1. stack = <<>>
    BY <1>4 DEF Done
  <2>2. lookahead = "None" /\ Len(text) \notin dropped
    BY <1>1, <1>3, <2>1 DEF StackOK, Outside
  <2>3. Passed = Eofs /\ Pending = 0
    BY <2>1, <2>2 DEF Passed, Pending
  <2>4. FilesRead = dialect.files
    BY <1>1, <2>2 DEF TextOK
  <2>5. files \in Nat /\ Cardinality(dropped \cap Eofs) \in Nat
        /\ files + Cardinality(dropped \cap Eofs) + 0 = Cardinality(Eofs)
    BY <1>1, <2>3, EofsFinite DEF CountOK
  <2> QED
    BY <2>2, <2>4, <2>5 DEF FilesRead
<1>5. ASSUME EndOfInput
      PROVE  Len(text) \in dropped
  <2>1. stack # <<>> /\ lookahead = "None" /\ stack[1] \in Terminals \cup {"unwrap"}
    BY <1>2, <1>5 DEF EndOfInput, Done, Doing
  <2>2. stack[1] \notin {"File", "program", "file"}
    BY <2>1, KindsAre DEF Plain, Special
  <2> QED
    BY <1>1, <2>1, <2>2 DEF StackOK, Within, Outside
<1>6. ASSUME Unimplemented
      PROVE  lookahead \notin {"Constructor", "Identifier", "At", "RightBrace"}
  <2>1. stack # <<>> /\ stack[1] = "todo"
    BY <1>2, <1>6 DEF Unimplemented, Done, Doing
  <2> QED
    BY <1>1, <2>1 DEF StackOK, Within, TopOK, Outside
<1>7. ASSUME NotANumber
      PROVE  text[Len(text) - 1] = "IntegerTooLarge"
  <2>1. stack # <<>> /\ stack[1] = "unwrap" /\ lookahead # "None"
    BY <1>2, <1>7 DEF NotANumber, Done, Doing
  <2> QED
    BY <1>1, <2>1 DEF StackOK, Within, TopOK, Outside
<1>8. Done => ~EndOfInput
  BY DEF Done, EndOfInput
<1> QED
  BY <1>2, <1>4, <1>5, <1>6, <1>7, <1>8 DEF EndsExplained

\* However parse() ends, the invariant above says why: every end of a file that
\* the recovery dropped is a File node that is missing; it panics for want of
\* input exactly when it dropped the last one, and otherwise only at a class
\* member it does not know and at an integer out of range (lib.rs:136-228, 930-964).
THEOREM ParserEndsExplained == Spec => []EndsExplained
<1>1. IInv => EndsExplained
  BY IInvEnds
<1> QED
  BY <1>1, ParserStack, PTL

\* handle_error_and_recover (lib.rs:941-964) never stops at a token at which the
\* list it returns to reports a third error.
THEOREM ParserErrorsBounded == Spec => []ErrorsBounded
<1>1. IInv => ErrorsBounded
  <2> SUFFICES ASSUME IInv
               PROVE  ErrorsBounded
    OBVIOUS
  <2>1. DOMAIN text = 1 .. Len(text)
    BY DEF IInv, TextOK
  <2> QED
    BY <2>1 DEF IInv, BoundOK, ErrorsBounded, Reported
<1> QED
  BY <1>1, ParserStack, PTL

-----------------------------------------------------------------------------
(* The spans an expression has at hand.                                     *)

Ground ==
  FileNames \cup StatementNames \cup VariableNames \cup TypeNames \cup FunctionNames
    \cup ClassNames

\* What goes on with the expression before it, what makes one, and what makes none.
After ==
  {"assignment", "member_index", "bitwise_or", "bitwise_and", "equality", "relational",
   "additive", "multipicative", "postfix", "argument_list", "member_dot"}
Makers ==
  {"single_expression", "new_expression", "bitwise_or_expression", "bitwise_and_expression",
   "equality_expression", "relational_expression", "additive_expression",
   "multipicative_expression", "operand", "arguments_expression", "member_dot_expression",
   "this", "identifier_expression"}
Neutral == {"arguments", "more_arguments", "elements", "more_elements"}

\* The spans an item takes up at least, and how many more it leaves at least.
Need(x) ==
  IF x \in DOMAIN Nodes THEN Nodes[x] ELSE IF x \in After \cup {"Element"} THEN 1 ELSE 0
Gain(x) ==
  IF x \in DOMAIN Nodes THEN 1 - Nodes[x]
  ELSE IF x = "Element" THEN -1
  ELSE IF x \in Terminals \cup Makers \cup {"Literal"} THEN 1 ELSE 0

\* The body of a rule r that is called with n spans at hand: g has the spans at
\* hand before each of its items.
Feeds(r, body, n, g) ==
  /\ g \in [1 .. Len(body) -> Nat]
  /\ body # <<>> => g[1] = n
  /\ \A k \in 1 .. Len(body) :
       Need(body[k]) <= g[k] /\ (body[k] \in Ground => g[k] = 0)
  /\ \A k \in 1 .. Len(body) - 1 : g[k + 1] <= g[k] + Gain(body[k])
  /\ n + Gain(r) <= IF body = <<>> THEN n ELSE g[Len(body)] + Gain(body[Len(body)])
Feeding(r, body) ==
  \A n \in Nat : Need(r) <= n /\ (r \in Ground => n = 0) => \E g : Feeds(r, body, n, g)

LEMMA NeedIs ==
  /\ \A x : Need(x) \in Nat /\ Gain(x) \in Int
  /\ \A t \in Terminals : Need(t) = 0 /\ Gain(t) = 1
  /\ \A x \in Makers \cup {"Literal"} : Need(x) = 0 /\ Gain(x) = 1
  /\ \A x \in After : Need(x) = 1 /\ Gain(x) = 0
  /\ \A x \in Neutral \cup {"unwrap"} : Need(x) = 0 /\ Gain(x) = 0
  /\ \A x \in DOMAIN Nodes : Need(x) = Nodes[x] /\ Gain(x) = 1 - Nodes[x]
  /\ Need("Element") = 1 /\ Gain("Element") = -1
<1>1. DOMAIN Nodes =
        {"BinaryExpression", "NewExpression", "MemberIndexExpression", "UnaryExpression",
         "PostfixExpression", "ArgumentsExpression", "ArgumentsList", "MemberDotExpression",
         "ArrayLiteral"}
  BY DEF Nodes
<1>2. \A x \in DOMAIN Nodes : Nodes[x] \in Nat
  BY DEF Nodes
<1>3. \A x : Need(x) \in Nat /\ Gain(x) \in Int
  BY <1>2 DEF Need, Gain
<1>4. After \cup Makers \cup Neutral \subseteq RuleNames
  BY RuleNamesAre
   DEF After, Makers, Neutral, SingleNames, BinaryNames, UnaryNames, CallNames,
       LiteralNames
<1>5. \A x \in After \cup Makers \cup Neutral : x \notin Terminals
  BY <1>4, RulesAreNot
<1>6. \A t \in Terminals : Need(t) = 0 /\ Gain(t) = 1
  <2>1. \A t \in Terminals : t \notin After /\ t \notin DOMAIN Nodes /\ t # "Element"
    BY <1>5, KindsAre
  <2> QED
    BY <2>1 DEF Need, Gain
<1>7. "unwrap" \notin Terminals /\ "Literal" \notin Terminals
  BY TerminalsAre, OperatorsAre DEF OtherTokens
<1>8. \A x \in Makers \cup {"Literal"} : Need(x) = 0 /\ Gain(x) = 1
  BY <1>1 DEF Need, Gain, Makers, After
<1>9. \A x \in After : Need(x) = 1 /\ Gain(x) = 0
  BY <1>1, <1>5 DEF Need, Gain, Makers, After
<1>10. \A x \in Neutral \cup {"unwrap"} : Need(x) = 0 /\ Gain(x) = 0
  BY <1>1, <1>5, <1>7 DEF Need, Gain, Makers, After, Neutral
<1>11. Need("Element") = 1 /\ Gain("Element") = -1
  BY <1>1 DEF Need, Gain
<1>12. \A x \in DOMAIN Nodes : Need(x) = Nodes[x] /\ Gain(x) = 1 - Nodes[x]
  BY DEF Need, Gain
<1> QED
  BY <1>3, <1>6, <1>8, <1>9, <1>10, <1>11, <1>12, Zenon

\* Bodies of no item, and of up to five: what each needs, the ones before it leave.
LEMMA FedNone ==
  ASSUME NEW r, Gain(r) <= 0
  PROVE  Feeding(r, <<>>)
<1> SUFFICES ASSUME NEW n \in Nat
             PROVE  \E g : Feeds(r, <<>>, n, g)
  BY DEF Feeding
<1> DEFINE g == [k \in 1 .. 0 |-> 0]
<1>1. Len(<<>>) = 0 /\ g \in [1 .. 0 -> Nat] /\ \A k \in 1 .. 0 : FALSE
  OBVIOUS
<1>2. n + Gain(r) <= n
  BY NeedIs
<1> HIDE DEF g
<1>3. Feeds(r, <<>>, n, g)
  BY <1>1, <1>2 DEF Feeds
<1> QED
  BY <1>3

LEMMA FedOne ==
  ASSUME NEW r, NEW a,
         {a} \cap Ground = {},
         Need(a) <= Need(r),
         Gain(r) <= Gain(a)
  PROVE  Feeding(r, <<a>>)
<1> SUFFICES ASSUME NEW n \in Nat, Need(r) <= n
             PROVE  \E g : Feeds(r, <<a>>, n, g)
  BY DEF Feeding
<1> DEFINE s == <<a>>
           g == <<n>>
<1>1. /\ Len(s) = 1 /\ s # <<>>
      /\ s[1] = a
      /\ g[1] = n
      /\ DOMAIN g = 1 .. 1 /\ g = [k \in 1 .. 1 |-> g[k]]
  OBVIOUS
<1>2. /\ Need(a) <= n
  BY NeedIs
<1>3. /\ n \in Nat
  BY <1>2, NeedIs
<1>4. n + Gain(r) <= n + Gain(a)
  BY NeedIs
<1>5. \A k \in 1 .. 1 : k = 1
  OBVIOUS
<1> HIDE DEF g, s
<1>6. g \in [1 .. 1 -> Nat]
  <2>1. \A k \in 1 .. 1 : g[k] \in Nat
    BY <1>1, <1>3, <1>5
  <2> QED
    BY <1>1, <2>1
<1>7. \A k \in 1 .. 1 : Need(s[k]) <= g[k] /\ s[k] \notin Ground
  BY <1>1, <1>2, <1>5
<1>8. \A k \in 1 .. 1 - 1 : g[k + 1] <= g[k] + Gain(s[k])
  OBVIOUS
<1>9. Feeds(r, s, n, g)
  BY <1>1, <1>4, <1>6, <1>7, <1>8 DEF Feeds
<1> QED
  BY <1>9 DEF s

LEMMA FedTwo ==
  ASSUME NEW r, NEW a, NEW b,
         {a, b} \cap Ground = {},
         Need(a) <= Need(r),
         Need(b) <= Need(r) + Gain(a),
         Gain(r) <= Gain(a) + Gain(b)
  PROVE  Feeding(r, <<a, b>>)
<1> SUFFICES ASSUME NEW n \in Nat, Need(r) <= n
             PROVE  \E g : Feeds(r, <<a, b>>, n, g)
  BY DEF Feeding
<1> DEFINE s == <<a, b>>
           g == <<n, n + Gain(a)>>
<1>1. /\ Len(s) = 2 /\ s # <<>>
      /\ s[1] = a /\ s[2] = b
      /\ g[1] = n
      /\ g[2] = n + Gain(a)
      /\ DOMAIN g = 1 .. 2 /\ g = [k \in 1 .. 2 |-> g[k]]
  OBVIOUS
<1>2. /\ Need(a) <= n
      /\ Need(b) <= n + Gain(a)
  BY NeedIs
<1>3. /\ n \in Nat
      /\ n + Gain(a) \in Nat
  BY <1>2, NeedIs
<1>4. n + Gain(r) <= n + Gain(a) + Gain(b)
  BY NeedIs
<1>5. \A k \in 1 .. 2 : k = 1 \/ k = 2
  OBVIOUS
<1> HIDE DEF g, s
<1>6. g \in [1 .. 2 -> Nat]
  <2>1. \A k \in 1 .. 2 : g[k] \in Nat
    BY <1>1, <1>3, <1>5
  <2> QED
    BY <1>1, <2>1
<1>7. \A k \in 1 .. 2 : Need(s[k]) <= g[k] /\ s[k] \notin Ground
  BY <1>1, <1>2, <1>5
<1>8. \A k \in 1 .. 2 - 1 : g[k + 1] <= g[k] + Gain(s[k])
  <2>1. \A k \in 1 .. 2 - 1 : k = 1
    OBVIOUS
  <2>2. /\ g[2] = g[1] + Gain(s[1])
    BY <1>1, Zenon
  <2>3. \A k \in 1 .. 2 : g[k] \in Nat
    BY <1>6
  <2> QED
    BY <2>1, <2>2, <2>3
<1>9. Feeds(r, s, n, g)
  BY <1>1, <1>4, <1>6, <1>7, <1>8 DEF Feeds
<1> QED
  BY <1>9 DEF s

LEMMA FedThree ==
  ASSUME NEW r, NEW a, NEW b, NEW c,
         {a, b, c} \cap Ground = {},
         Need(a) <= Need(r),
         Need(b) <= Need(r) + Gain(a),
         Need(c) <= Need(r) + Gain(a) + Gain(b),
         Gain(r) <= Gain(a) + Gain(b) + Gain(c)
  PROVE  Feeding(r, <<a, b, c>>)
<1> SUFFICES ASSUME NEW n \in Nat, Need(r) <= n
             PROVE  \E g : Feeds(r, <<a, b, c>>, n, g)
  BY DEF Feeding
<1> DEFINE s == <<a, b, c>>
           g == <<n, n + Gain(a), n + Gain(a) + Gain(b)>>
<1>1. /\ Len(s) = 3 /\ s # <<>>
      /\ s[1] = a /\ s[2] = b /\ s[3] = c
      /\ g[1] = n
      /\ g[2] = n + Gain(a)
      /\ g[3] = n + Gain(a) + Gain(b)
      /\ DOMAIN g = 1 .. 3 /\ g = [k \in 1 .. 3 |-> g[k]]
  OBVIOUS
<1>2. /\ Need(a) <= n
      /\ Need(b) <= n + Gain(a)
      /\ Need(c) <= n + Gain(a) + Gain(b)
  BY NeedIs
<1>3. /\ n \in Nat
      /\ n + Gain(a) \in Nat
      /\ n + Gain(a) + Gain(b) \in Nat
  BY <1>2, NeedIs
<1>4. n + Gain(r) <= n + Gain(a) + Gain(b) + Gain(c)
  BY NeedIs
<1>5. \A k \in 1 .. 3 : k = 1 \/ k = 2 \/ k = 3
  OBVIOUS
<1> HIDE DEF g, s
<1>6. g \in [1 .. 3 -> Nat]
  <2>1. \A k \in 1 .. 3 : g[k] \in Nat
    BY <1>1, <1>3, <1>5
  <2> QED
    BY <1>1, <2>1
<1>7. \A k \in 1 .. 3 : Need(s[k]) <= g[k] /\ s[k] \notin Ground
  BY <1>1, <1>2, <1>5
<1>8. \A k \in 1 .. 3 - 1 : g[k + 1] <= g[k] + Gain(s[k])
  <2>1. \A k \in 1 .. 3 - 1 : k = 1 \/ k = 2
    OBVIOUS
  <2>2. /\ g[2] = g[1] + Gain(s[1])
        /\ g[3] = g[2] + Gain(s[2])
    BY <1>1, Zenon
  <2>3. \A k \in 1 .. 3 : g[k] \in Nat
    BY <1>6
  <2> QED
    BY <2>1, <2>2, <2>3
<1>9. Feeds(r, s, n, g)
  BY <1>1, <1>4, <1>6, <1>7, <1>8 DEF Feeds
<1> QED
  BY <1>9 DEF s

LEMMA FedFour ==
  ASSUME NEW r, NEW a, NEW b, NEW c, NEW d,
         {a, b, c, d} \cap Ground = {},
         Need(a) <= Need(r),
         Need(b) <= Need(r) + Gain(a),
         Need(c) <= Need(r) + Gain(a) + Gain(b),
         Need(d) <= Need(r) + Gain(a) + Gain(b) + Gain(c),
         Gain(r) <= Gain(a) + Gain(b) + Gain(c) + Gain(d)
  PROVE  Feeding(r, <<a, b, c, d>>)
<1> SUFFICES ASSUME NEW n \in Nat, Need(r) <= n
             PROVE  \E g : Feeds(r, <<a, b, c, d>>, n, g)
  BY DEF Feeding
<1> DEFINE s == <<a, b, c, d>>
           g == <<n, n + Gain(a), n + Gain(a) + Gain(b), n + Gain(a) + Gain(b) + Gain(c)>>
<1>1. /\ Len(s) = 4 /\ s # <<>>
      /\ s[1] = a /\ s[2] = b /\ s[3] = c /\ s[4] = d
      /\ g[1] = n
      /\ g[2] = n + Gain(a)
      /\ g[3] = n + Gain(a) + Gain(b)
      /\ g[4] = n + Gain(a) + Gain(b) + Gain(c)
      /\ DOMAIN g = 1 .. 4 /\ g = [k \in 1 .. 4 |-> g[k]]
  OBVIOUS
<1>2. /\ Need(a) <= n
      /\ Need(b) <= n + Gain(a)
      /\ Need(c) <= n + Gain(a) + Gain(b)
      /\ Need(d) <= n + Gain(a) + Gain(b) + Gain(c)
  BY NeedIs
<1>3. /\ n \in Nat
      /\ n + Gain(a) \in Nat
      /\ n + Gain(a) + Gain(b) \in Nat
      /\ n + Gain(a) + Gain(b) + Gain(c) \in Nat
  BY <1>2, NeedIs
<1>4. n + Gain(r) <= n + Gain(a) + Gain(b) + Gain(c) + Gain(d)
  BY NeedIs
<1>5. \A k \in 1 .. 4 : k = 1 \/ k = 2 \/ k = 3 \/ k = 4
  OBVIOUS
<1> HIDE DEF g, s
<1>6. g \in [1 .. 4 -> Nat]
  <2>1. \A k \in 1 .. 4 : g[k] \in Nat
    BY <1>1, <1>3, <1>5
  <2> QED
    BY <1>1, <2>1
<1>7. \A k \in 1 .. 4 : Need(s[k]) <= g[k] /\ s[k] \notin Ground
  BY <1>1, <1>2, <1>5
<1>8. \A k \in 1 .. 4 - 1 : g[k + 1] <= g[k] + Gain(s[k])
  <2>1. \A k \in 1 .. 4 - 1 : k = 1 \/ k = 2 \/ k = 3
    OBVIOUS
  <2>2. /\ g[2] = g[1] + Gain(s[1])
        /\ g[3] = g[2] + Gain(s[2])
        /\ g[4] = g[3] + Gain(s[3])
    BY <1>1, Zenon
  <2>3. \A k \in 1 .. 4 : g[k] \in Nat
    BY <1>6
  <2> QED
    BY <2>1, <2>2, <2>3
<1>9. Feeds(r, s, n, g)
  BY <1>1, <1>4, <1>6, <1>7, <1>8 DEF Feeds
<1> QED
  BY <1>9 DEF s

LEMMA FedFive ==
  ASSUME NEW r, NEW a, NEW b, NEW c, NEW d, NEW e,
         {a, b, c, d, e} \cap Ground = {},
         Need(a) <= Need(r),
         Need(b) <= Need(r) + Gain(a),
         Need(c) <= Need(r) + Gain(a) + Gain(b),
         Need(d) <= Need(r) + Gain(a) + Gain(b) + Gain(c),
         Need(e) <= Need(r) + Gain(a) + Gain(b) + Gain(c) + Gain(d),
         Gain(r) <= Gain(a) + Gain(b) + Gain(c) + Gain(d) + Gain(e)
  PROVE  Feeding(r, <<a, b, c, d, e>>)
<1> SUFFICES ASSUME NEW n \in Nat, Need(r) <= n
             PROVE  \E g : Feeds(r, <<a, b, c, d, e>>, n, g)
  BY DEF Feeding
<1> DEFINE s == <<a, b, c, d, e>>
           g == <<n, n + Gain(a), n + Gain(a) + Gain(b), n + Gain(a) + Gain(b) + Gain(c),
                  n + Gain(a) + Gain(b) + Gain(c) + Gain(d)>>
<1>1. /\ Len(s) = 5 /\ s # <<>>
      /\ s[1] = a /\ s[2] = b /\ s[3] = c /\ s[4] = d /\ s[5] = e
      /\ g[1] = n
      /\ g[2] = n + Gain(a)
      /\ g[3] = n + Gain(a) + Gain(b)
      /\ g[4] = n + Gain(a) + Gain(b) + Gain(c)
      /\ g[5] = n + Gain(a) + Gain(b) + Gain(c) + Gain(d)
      /\ DOMAIN g = 1 .. 5 /\ g = [k \in 1 .. 5 |-> g[k]]
  OBVIOUS
<1>2. /\ Need(a) <= n
      /\ Need(b) <= n + Gain(a)
      /\ Need(c) <= n + Gain(a) + Gain(b)
      /\ Need(d) <= n + Gain(a) + Gain(b) + Gain(c)
      /\ Need(e) <= n + Gain(a) + Gain(b) + Gain(c) + Gain(d)
  BY NeedIs
<1>3. /\ n \in Nat
      /\ n + Gain(a) \in Nat
      /\ n + Gain(a) + Gain(b) \in Nat
      /\ n + Gain(a) + Gain(b) + Gain(c) \in Nat
      /\ n + Gain(a) + Gain(b) + Gain(c) + Gain(d) \in Nat
  BY <1>2, NeedIs
<1>4. n + Gain(r) <= n + Gain(a) + Gain(b) + Gain(c) + Gain(d) + Gain(e)
  BY NeedIs
<1>5. \A k \in 1 .. 5 : k = 1 \/ k = 2 \/ k = 3 \/ k = 4 \/ k = 5
  OBVIOUS
<1> HIDE DEF g, s
<1>6. g \in [1 .. 5 -> Nat]
  <2>1. \A k \in 1 .. 5 : g[k] \in Nat
    BY <1>1, <1>3, <1>5
  <2> QED
    BY <1>1, <2>1
<1>7. \A k \in 1 .. 5 : Need(s[k]) <= g[k] /\ s[k] \notin Ground
  BY <1>1, <1>2, <1>5
<1>8. \A k \in 1 .. 5 - 1 : g[k + 1] <= g[k] + Gain(s[k])
  <2>1. \A k \in 1 .. 5 - 1 : k = 1 \/ k = 2 \/ k = 3 \/ k = 4
    OBVIOUS
  <2>2. /\ g[2] = g[1] + Gain(s[1])
        /\ g[3] = g[2] + Gain(s[2])
        /\ g[4] = g[3] + Gain(s[3])
        /\ g[5] = g[4] + Gain(s[4])
    BY <1>1, Zenon
  <2>3. \A k \in 1 .. 5 : g[k] \in Nat
    BY <1>6
  <2> QED
    BY <2>1, <2>2, <2>3
<1>9. Feeds(r, s, n, g)
  BY <1>1, <1>4, <1>6, <1>7, <1>8 DEF Feeds
<1> QED
  BY <1>9 DEF s

LEMMA NotGround ==
  \A x \in Terminals \cup After \cup Makers \cup Neutral \cup DOMAIN Nodes
             \cup {"Literal", "Element", "unwrap"} :
    x \notin Ground
<1>1. Ground \subseteq RuleNames
  BY RuleNamesAre DEF Ground
<1>2. \A x \in Terminals \cup DOMAIN Nodes \cup {"Element", "Literal", "unwrap"} :
        x \notin RuleNames
  <2>1. DOMAIN Nodes =
          {"BinaryExpression", "NewExpression", "MemberIndexExpression", "UnaryExpression",
           "PostfixExpression", "ArgumentsExpression", "ArgumentsList", "MemberDotExpression",
           "ArrayLiteral"}
    BY DEF Nodes
  <2>2. \A x \in DOMAIN Nodes \cup {"Element", "Literal", "unwrap"} : x \notin RuleNames
    BY <2>1, RuleNamesAre DEF FileNames, StatementNames, VariableNames, SingleNames,
       BinaryNames, UnaryNames, CallNames, LiteralNames, TypeNames, FunctionNames, ClassNames
  <2> QED
    BY <2>2, RulesAreNot
<1>3. \A x \in After \cup Makers \cup Neutral : x \notin Ground
  BY DEF After, Makers, Neutral, Ground, FileNames, StatementNames, VariableNames,
     TypeNames, FunctionNames, ClassNames
<1> QED
  BY <1>1, <1>2, <1>3

Has(x, need, gain) == x \notin Ground /\ Need(x) = need /\ Gain(x) = gain

LEMMA HasIs ==
  /\ \A t \in Terminals : Has(t, 0, 1)
  /\ \A x \in Makers : Has(x, 0, 1)
  /\ \A x \in After : Has(x, 1, 0)
  /\ \A x \in Neutral : Has(x, 0, 0)
  /\ Has("Literal", 0, 1) /\ Has("unwrap", 0, 0) /\ Has("Element", 1, -1)
  /\ Has("BinaryExpression", 3, -2) /\ Has("MemberDotExpression", 3, -2)
  /\ Has("MemberIndexExpression", 4, -3)
  /\ \A x \in {"NewExpression", "UnaryExpression", "PostfixExpression", "ArgumentsExpression",
               "ArgumentsList", "ArrayLiteral"} : Has(x, 2, -1)
<1>1. \A x \in DOMAIN Nodes : Need(x) = Nodes[x] /\ Gain(x) = 1 - Nodes[x] /\ x \notin Ground
  BY NeedIs, NotGround
<1>2. /\ Has("BinaryExpression", 3, -2) /\ Has("MemberDotExpression", 3, -2)
      /\ Has("MemberIndexExpression", 4, -3)
  BY <1>1 DEF Nodes, Has
<1>3. \A x \in {"NewExpression", "UnaryExpression", "PostfixExpression", "ArgumentsExpression",
                "ArgumentsList", "ArrayLiteral"} : Has(x, 2, -1)
  BY <1>1 DEF Nodes, Has
<1> QED
  BY <1>2, <1>3, NeedIs, NotGround DEF Has

\* The functions of each group leave what Gain promises.
LEMMA SingleFeeds ==
  ASSUME NEW la \in Lookaheads, NEW r \in SingleNames
  PROVE  Feeding(r, SingleRules(la)[r])
<1>1. Feeding("single_expression", SingleRules(la).single_expression)
  <2> DEFINE body == SingleRules(la).single_expression
  <2>1. body = <<"new_expression", "assignment">>
    BY DEF SingleRules, Optional
  <2>2. Feeding("single_expression", <<"new_expression", "assignment">>)
    BY HasIs, TerminalsAre, FedTwo DEF Has, OtherTokens, Makers, After, Neutral
  <2> QED
    BY <2>1, <2>2, Zenon
<1>2. Feeding("assignment", SingleRules(la).assignment)
  <2> DEFINE body == SingleRules(la).assignment
  <2>1. \/ body = <<"Equal", "new_expression", "BinaryExpression", "assignment">>
        \/ body = <<>>
    BY DEF SingleRules, Optional
  <2>2. Feeding("assignment", <<"Equal", "new_expression", "BinaryExpression", "assignment">>)
    BY HasIs, TerminalsAre, FedFour DEF Has, OtherTokens, Makers, After, Neutral
  <2>3. Feeding("assignment", <<>>)
    BY HasIs, TerminalsAre, FedNone DEF Has, OtherTokens, Makers, After, Neutral
  <2> QED
    BY <2>1, <2>2, <2>3, Zenon
<1>3. Feeding("new_expression", SingleRules(la).new_expression)
  <2> DEFINE body == SingleRules(la).new_expression
  <2>1. \/ body = <<"New", "single_expression", "NewExpression">>
        \/ body = <<"bitwise_or_expression", "member_index">>
    BY DEF SingleRules, Optional
  <2>2. Feeding("new_expression", <<"New", "single_expression", "NewExpression">>)
    BY HasIs, TerminalsAre, FedThree DEF Has, OtherTokens, Makers, After, Neutral
  <2>3. Feeding("new_expression", <<"bitwise_or_expression", "member_index">>)
    BY HasIs, TerminalsAre, FedTwo DEF Has, OtherTokens, Makers, After, Neutral
  <2> QED
    BY <2>1, <2>2, <2>3, Zenon
<1>4. Feeding("member_index", SingleRules(la).member_index)
  <2> DEFINE body == SingleRules(la).member_index
  <2>1. \/ body = <<"LeftBracket", "bitwise_or_expression", "RightBracket",
                    "MemberIndexExpression">>
        \/ body = <<>>
    BY DEF SingleRules, Optional
  <2>2. Feeding("member_index",
                <<"LeftBracket", "bitwise_or_expression", "RightBracket", "MemberIndexExpression">>)
    BY HasIs, TerminalsAre, FedFour DEF Has, OtherTokens, Makers, After, Neutral
  <2>3. Feeding("member_index", <<>>)
    BY HasIs, TerminalsAre, FedNone DEF Has, OtherTokens, Makers, After, Neutral
  <2> QED
    BY <2>1, <2>2, <2>3, Zenon
<1> QED
  BY <1>1, <1>2, <1>3, <1>4 DEF SingleNames

LEMMA UnaryFeeds ==
  ASSUME NEW la \in Lookaheads, NEW r \in UnaryNames
  PROVE  Feeding(r, UnaryRules(la)[r])
<1>1. Feeding("operand", UnaryRules(la).operand)
  <2> DEFINE body == UnaryRules(la).operand
  <2>1. \/ body = <<la, "arguments_expression", "UnaryExpression", "postfix">> /\ la \in Terminals
        \/ body = <<"arguments_expression", "postfix">>
    BY NoneIs, TerminalsAre, OperatorsAre
     DEF UnaryRules, Optional, Lookaheads, OtherTokens, Literals, PrefixOperators
  <2>2. la \in Terminals =>
          Feeding("operand", <<la, "arguments_expression", "UnaryExpression", "postfix">>)
    BY HasIs, TerminalsAre, FedFour DEF Has, OtherTokens, Makers, After, Neutral
  <2>3. Feeding("operand", <<"arguments_expression", "postfix">>)
    BY HasIs, TerminalsAre, FedTwo DEF Has, OtherTokens, Makers, After, Neutral
  <2> QED
    BY <2>1, <2>2, <2>3, Zenon
<1>2. Feeding("postfix", UnaryRules(la).postfix)
  <2> DEFINE body == UnaryRules(la).postfix
  <2>1. \/ body = <<la, "PostfixExpression">> /\ la \in Terminals
        \/ body = <<>>
    BY NoneIs, TerminalsAre, OperatorsAre
     DEF UnaryRules, Optional, Lookaheads, OtherTokens, Literals, PrefixOperators
  <2>2. la \in Terminals => Feeding("postfix", <<la, "PostfixExpression">>)
    BY HasIs, TerminalsAre, FedTwo DEF Has, OtherTokens, Makers, After, Neutral
  <2>3. Feeding("postfix", <<>>)
    BY HasIs, TerminalsAre, FedNone DEF Has, OtherTokens, Makers, After, Neutral
  <2> QED
    BY <2>1, <2>2, <2>3, Zenon
<1> QED
  BY <1>1, <1>2 DEF UnaryNames

LEMMA CallFeeds ==
  ASSUME NEW la \in Lookaheads, NEW r \in CallNames
  PROVE  Feeding(r, CallRules(la)[r])
<1>1. Feeding("arguments_expression", CallRules(la).arguments_expression)
  <2> DEFINE body == CallRules(la).arguments_expression
  <2>1. body = <<"member_dot_expression", "argument_list">>
    BY DEF CallRules, Optional
  <2>2. Feeding("arguments_expression", <<"member_dot_expression", "argument_list">>)
    BY HasIs, TerminalsAre, FedTwo DEF Has, OtherTokens, Makers, After, Neutral
  <2> QED
    BY <2>1, <2>2, Zenon
<1>2. Feeding("argument_list", CallRules(la).argument_list)
  <2> DEFINE body == CallRules(la).argument_list
  <2>1. \/ body = <<"LeftParen", "arguments", "RightParen", "ArgumentsList", "ArgumentsExpression">>
        \/ body = <<>>
    BY DEF CallRules, Optional
  <2>2. Feeding("argument_list",
                <<"LeftParen", "arguments", "RightParen", "ArgumentsList", "ArgumentsExpression">>)
    BY HasIs, TerminalsAre, FedFive DEF Has, OtherTokens, Makers, After, Neutral
  <2>3. Feeding("argument_list", <<>>)
    BY HasIs, TerminalsAre, FedNone DEF Has, OtherTokens, Makers, After, Neutral
  <2> QED
    BY <2>1, <2>2, <2>3, Zenon
<1>3. Feeding("arguments", CallRules(la).arguments)
  <2> DEFINE body == CallRules(la).arguments
  <2>1. \/ body = <<>>
        \/ body = <<"single_expression", "Element", "more_arguments">>
    BY DEF CallRules, Optional
  <2>2. Feeding("arguments", <<>>)
    BY HasIs, TerminalsAre, FedNone DEF Has, OtherTokens, Makers, After, Neutral
  <2>3. Feeding("arguments", <<"single_expression", "Element", "more_arguments">>)
    BY HasIs, TerminalsAre, FedThree DEF Has, OtherTokens, Makers, After, Neutral
  <2> QED
    BY <2>1, <2>2, <2>3, Zenon
<1>4. Feeding("more_arguments", CallRules(la).more_arguments)
  <2> DEFINE body == CallRules(la).more_arguments
  <2>1. \/ body = <<"Comma", "Element", "arguments">>
        \/ body = <<>>
    BY DEF CallRules, Optional
  <2>2. Feeding("more_arguments", <<"Comma", "Element", "arguments">>)
    BY HasIs, TerminalsAre, FedThree DEF Has, OtherTokens, Makers, After, Neutral
  <2>3. Feeding("more_arguments", <<>>)
    BY HasIs, TerminalsAre, FedNone DEF Has, OtherTokens, Makers, After, Neutral
  <2> QED
    BY <2>1, <2>2, <2>3, Zenon
<1>5. Feeding("member_dot_expression", CallRules(la).member_dot_expression)
  <2> DEFINE body == CallRules(la).member_dot_expression
  <2>1. body = <<"this", "member_dot">>
    BY DEF CallRules, Optional
  <2>2. Feeding("member_dot_expression", <<"this", "member_dot">>)
    BY HasIs, TerminalsAre, FedTwo DEF Has, OtherTokens, Makers, After, Neutral
  <2> QED
    BY <2>1, <2>2, Zenon
<1>6. Feeding("member_dot", CallRules(la).member_dot)
  <2> DEFINE body == CallRules(la).member_dot
  <2>1. \/ body = <<"Dot", "identifier_expression", "MemberDotExpression">>
        \/ body = <<>>
    BY DEF CallRules, Optional
  <2>2. Feeding("member_dot", <<"Dot", "identifier_expression", "MemberDotExpression">>)
    BY HasIs, TerminalsAre, FedThree DEF Has, OtherTokens, Makers, After, Neutral
  <2>3. Feeding("member_dot", <<>>)
    BY HasIs, TerminalsAre, FedNone DEF Has, OtherTokens, Makers, After, Neutral
  <2> QED
    BY <2>1, <2>2, <2>3, Zenon
<1>7. Feeding("this", CallRules(la).this)
  <2> DEFINE body == CallRules(la).this
  <2>1. \/ body = <<"This">>
        \/ body = <<"identifier_expression">>
    BY DEF CallRules, Optional
  <2>2. Feeding("this", <<"This">>)
    BY HasIs, TerminalsAre, FedOne DEF Has, OtherTokens, Makers, After, Neutral
  <2>3. Feeding("this", <<"identifier_expression">>)
    BY HasIs, TerminalsAre, FedOne DEF Has, OtherTokens, Makers, After, Neutral
  <2> QED
    BY <2>1, <2>2, <2>3, Zenon
<1> QED
  BY <1>1, <1>2, <1>3, <1>4, <1>5, <1>6, <1>7 DEF CallNames

LEMMA LiteralFeeds ==
  ASSUME NEW la \in Lookaheads, NEW r \in LiteralNames
  PROVE  Feeding(r, LiteralRules(la)[r])
<1>1. Feeding("identifier_expression", LiteralRules(la).identifier_expression)
  <2> DEFINE body == LiteralRules(la).identifier_expression
  <2>1. \/ body = <<"LeftBracket", "elements", "RightBracket", "ArrayLiteral">>
        \/ body = <<la>> /\ la \in Terminals
        \/ body = <<la, "unwrap">> /\ la \in Terminals
        \/ body = <<"Literal">>
    BY NoneIs, TerminalsAre, OperatorsAre
     DEF LiteralRules, Optional, Lookaheads, OtherTokens, Literals, PrefixOperators
  <2>2. Feeding("identifier_expression",
                <<"LeftBracket", "elements", "RightBracket", "ArrayLiteral">>)
    BY HasIs, TerminalsAre, FedFour DEF Has, OtherTokens, Makers, After, Neutral
  <2>3. la \in Terminals => Feeding("identifier_expression", <<la>>)
    BY HasIs, TerminalsAre, FedOne DEF Has, OtherTokens, Makers, After, Neutral
  <2>4. la \in Terminals => Feeding("identifier_expression", <<la, "unwrap">>)
    BY HasIs, TerminalsAre, FedTwo DEF Has, OtherTokens, Makers, After, Neutral
  <2>5. Feeding("identifier_expression", <<"Literal">>)
    BY HasIs, TerminalsAre, FedOne DEF Has, OtherTokens, Makers, After, Neutral
  <2> QED
    BY <2>1, <2>2, <2>3, <2>4, <2>5, Zenon
<1>2. Feeding("elements", LiteralRules(la).elements)
  <2> DEFINE body == LiteralRules(la).elements
  <2>1. \/ body = <<>>
        \/ body = <<"single_expression", "Element", "more_elements">>
    BY DEF LiteralRules, Optional
  <2>2. Feeding("elements", <<>>)
    BY HasIs, TerminalsAre, FedNone DEF Has, OtherTokens, Makers, After, Neutral
  <2>3. Feeding("elements", <<"single_expression", "Element", "more_elements">>)
    BY HasIs, TerminalsAre, FedThree DEF Has, OtherTokens, Makers, After, Neutral
  <2> QED
    BY <2>1, <2>2, <2>3, Zenon
<1>3. Feeding("more_elements", LiteralRules(la).more_elements)
  <2> DEFINE body == LiteralRules(la).more_elements
  <2>1. \/ body = <<"Comma", "Element", "elements">>
        \/ body = <<>>
    BY DEF LiteralRules, Optional
  <2>2. Feeding("more_elements", <<"Comma", "Element", "elements">>)
    BY HasIs, TerminalsAre, FedThree DEF Has, OtherTokens, Makers, After, Neutral
  <2>3. Feeding("more_elements", <<>>)
    BY HasIs, TerminalsAre, FedNone DEF Has, OtherTokens, Makers, After, Neutral
  <2> QED
    BY <2>1, <2>2, <2>3, Zenon
<1> QED
  BY <1>1, <1>2, <1>3 DEF LiteralNames

LEMMA LoopFeeds ==
  ASSUME NEW la \in Lookaheads, NEW n \in 1 .. 6
  PROVE  Feeding(Levels[n], Loop(n, la))
<1>1. Has(Levels[n], 1, 0)
  <2>1. Levels[n] \in After
    BY DEF Levels, After
  <2> QED
    BY <2>1, HasIs
<1>2. CASE \E m \in 1 .. n : la \in OperatorsOf[m]
  <2> DEFINE level == CHOOSE m \in 1 .. n : la \in OperatorsOf[m]
  <2>1. level \in 1 .. 6 /\ la \in OperatorsOf[level]
    BY <1>2
  <2>2. Has(la, 0, 1)
    <3>1. DOMAIN OperatorsOf = 1 .. 6
      BY DEF OperatorsOf
    <3>2. la \in BinaryOperators
      BY <2>1, <3>1, Zenon DEF BinaryOperators, Range
    <3> QED
      BY <3>2, TerminalsAre, HasIs
  <2>3. Has(Tighter(level), 0, 1)
    <3>1. \A m \in 1 .. 6 : Tighter(m) \in Makers
      BY DEF Tighter, Makers
    <3> QED
      BY <2>1, <3>1, HasIs, Zenon
  <2>4. Loop(n, la) = <<la, Tighter(level), "BinaryExpression", Levels[n]>>
    BY <1>2 DEF Loop
  <2> HIDE DEF level
  <2>5. Feeding(Levels[n], <<la, Tighter(level), "BinaryExpression", Levels[n]>>)
    BY <1>1, <2>2, <2>3, HasIs, FedFour DEF Has
  <2> QED
    BY <2>4, <2>5, Zenon
<1>3. CASE ~ \E m \in 1 .. n : la \in OperatorsOf[m]
  <2>1. Loop(n, la) = <<>>
    BY <1>3 DEF Loop
  <2>2. Feeding(Levels[n], <<>>)
    BY <1>1, FedNone DEF Has
  <2> QED
    BY <2>1, <2>2, Zenon
<1> QED
  BY <1>2, <1>3

LEMMA BinaryFeeds ==
  ASSUME NEW la \in Lookaheads, NEW r \in BinaryNames
  PROVE  Feeding(r, BinaryRules(la)[r])
<1>1. Feeding("bitwise_or_expression", BinaryRules(la).bitwise_or_expression)
  <2>1. BinaryRules(la).bitwise_or_expression = <<"operand", "bitwise_or">>
    BY DEF BinaryRules
  <2>2. Feeding("bitwise_or_expression", <<"operand", "bitwise_or">>)
    BY HasIs, FedTwo DEF Has, Makers, After
  <2> QED
    BY <2>1, <2>2, Zenon
<1>2. Feeding("bitwise_and_expression", BinaryRules(la).bitwise_and_expression)
  <2>1. BinaryRules(la).bitwise_and_expression = <<"operand", "bitwise_and">>
    BY DEF BinaryRules
  <2>2. Feeding("bitwise_and_expression", <<"operand", "bitwise_and">>)
    BY HasIs, FedTwo DEF Has, Makers, After
  <2> QED
    BY <2>1, <2>2, Zenon
<1>3. Feeding("equality_expression", BinaryRules(la).equality_expression)
  <2>1. BinaryRules(la).equality_expression = <<"operand", "equality">>
    BY DEF BinaryRules
  <2>2. Feeding("equality_expression", <<"operand", "equality">>)
    BY HasIs, FedTwo DEF Has, Makers, After
  <2> QED
    BY <2>1, <2>2, Zenon
<1>4. Feeding("relational_expression", BinaryRules(la).relational_expression)
  <2>1. BinaryRules(la).relational_expression = <<"operand", "relational">>
    BY DEF BinaryRules
  <2>2. Feeding("relational_expression", <<"operand", "relational">>)
    BY HasIs, FedTwo DEF Has, Makers, After
  <2> QED
    BY <2>1, <2>2, Zenon
<1>5. Feeding("additive_expression", BinaryRules(la).additive_expression)
  <2>1. BinaryRules(la).additive_expression = <<"operand", "additive">>
    BY DEF BinaryRules
  <2>2. Feeding("additive_expression", <<"operand", "additive">>)
    BY HasIs, FedTwo DEF Has, Makers, After
  <2> QED
    BY <2>1, <2>2, Zenon
<1>6. Feeding("multipicative_expression", BinaryRules(la).multipicative_expression)
  <2>1. BinaryRules(la).multipicative_expression = <<"operand", "multipicative">>
    BY DEF BinaryRules
  <2>2. Feeding("multipicative_expression", <<"operand", "multipicative">>)
    BY HasIs, FedTwo DEF Has, Makers, After
  <2> QED
    BY <2>1, <2>2, Zenon
<1>7. Feeding("bitwise_or", BinaryRules(la).bitwise_or)
  <2>1. Levels[6] = "bitwise_or" /\ 6 \in 1 .. 6
    BY DEF Levels
  <2>2. BinaryRules(la).bitwise_or = Loop(6, la)
    BY DEF BinaryRules
  <2> QED
    BY <2>1, <2>2, LoopFeeds
<1>8. Feeding("bitwise_and", BinaryRules(la).bitwise_and)
  <2>1. Levels[5] = "bitwise_and" /\ 5 \in 1 .. 6
    BY DEF Levels
  <2>2. BinaryRules(la).bitwise_and = Loop(5, la)
    BY DEF BinaryRules
  <2> QED
    BY <2>1, <2>2, LoopFeeds
<1>9. Feeding("equality", BinaryRules(la).equality)
  <2>1. Levels[4] = "equality" /\ 4 \in 1 .. 6
    BY DEF Levels
  <2>2. BinaryRules(la).equality = Loop(4, la)
    BY DEF BinaryRules
  <2> QED
    BY <2>1, <2>2, LoopFeeds
<1>10. Feeding("relational", BinaryRules(la).relational)
  <2>1. Levels[3] = "relational" /\ 3 \in 1 .. 6
    BY DEF Levels
  <2>2. BinaryRules(la).relational = Loop(3, la)
    BY DEF BinaryRules
  <2> QED
    BY <2>1, <2>2, LoopFeeds
<1>11. Feeding("additive", BinaryRules(la).additive)
  <2>1. Levels[2] = "additive" /\ 2 \in 1 .. 6
    BY DEF Levels
  <2>2. BinaryRules(la).additive = Loop(2, la)
    BY DEF BinaryRules
  <2> QED
    BY <2>1, <2>2, LoopFeeds
<1>12. Feeding("multipicative", BinaryRules(la).multipicative)
  <2>1. Levels[1] = "multipicative" /\ 1 \in 1 .. 6
    BY DEF Levels
  <2>2. BinaryRules(la).multipicative = Loop(1, la)
    BY DEF BinaryRules
  <2> QED
    BY <2>1, <2>2, LoopFeeds
<1> QED
  BY <1>1, <1>2, <1>3, <1>4, <1>5, <1>6, <1>7, <1>8, <1>9, <1>10, <1>11, <1>12
   DEF BinaryNames

\* The items that take up no spans.
Easy == Items \ (DOMAIN Nodes \cup After \cup {"Element"})

LEMMA EasyIs ==
  /\ \A x \in Easy : Need(x) = 0 /\ Gain(x) >= 0
  /\ \A t \in Terminals : t \in Easy
  /\ {"todo", "File", "unwrap"} \subseteq Easy
  /\ {"file", "program", "source_elements", "source_element", "function_declaration",
      "class_declaration", "statement", "single_expression", "block", "alternative",
      "variable_statement", "annotated", "statement_list", "type_annotation", "dimensions",
      "annotations", "annotation_value", "formal_parameter_list", "parameters",
      "more_parameters", "exported", "class_elements", "class_element", "member"}
       \subseteq Easy
<1>1. \A x \in Easy : Need(x) = 0 /\ Gain(x) >= 0
  BY DEF Easy, Need, Gain
<1>2. \A t \in Terminals : t \in Easy
  BY KindsAre, HasIs DEF Easy, Items, Has
<1>3. DOMAIN Nodes =
        {"BinaryExpression", "NewExpression", "MemberIndexExpression", "UnaryExpression",
         "PostfixExpression", "ArgumentsExpression", "ArgumentsList", "MemberDotExpression",
         "ArrayLiteral"}
  BY DEF Nodes
<1>4. {"todo", "File", "unwrap"} \subseteq Easy
  BY <1>3 DEF Easy, Items, After
<1>5. \A x \in Ground \cup {"single_expression"} : x \in RuleNames
  BY RuleNamesAre DEF Ground, SingleNames
<1>6. \A x \in Ground \cup {"single_expression"} : x \in Easy
  <2>1. \A x \in Ground \cup {"single_expression"} :
          x \notin DOMAIN Nodes \cup After \cup {"Element"}
    BY NotGround, <1>3 DEF After
  <2> QED
    BY <1>5, <2>1 DEF Easy, Items
<1>7. {"file", "program", "source_elements", "source_element", "function_declaration",
       "class_declaration", "statement", "block", "alternative",
       "variable_statement", "annotated", "statement_list", "type_annotation", "dimensions",
       "annotations", "annotation_value", "formal_parameter_list", "parameters",
       "more_parameters", "exported", "class_elements", "class_element", "member"}
        \subseteq Ground
  BY DEF Ground, FileNames, StatementNames, VariableNames, TypeNames, FunctionNames,
     ClassNames
<1> QED
  BY <1>1, <1>2, <1>4, <1>6, <1>7

LEMMA FileEasy ==
  ASSUME NEW la \in Lookaheads, NEW r \in FileNames
  PROVE  FileRules(la)[r] \in Seq(Easy)
<1> USE EasyIs, TerminalsAre
<1>1. FileRules(la).program \in Seq(Easy)
  BY DEF FileRules, OtherTokens, Optional
<1>2. FileRules(la).file \in Seq(Easy)
  BY DEF FileRules, OtherTokens, Optional
<1>3. FileRules(la).source_elements \in Seq(Easy)
  <2>1. \/ FileRules(la).source_elements = <<"unwrap">>
        \/ FileRules(la).source_elements = <<>>
        \/ FileRules(la).source_elements = <<"source_element", "source_elements">>
    BY DEF FileRules
  <2>2. /\ <<"unwrap">> \in Seq(Easy)
        /\ <<>> \in Seq(Easy)
        /\ <<"source_element", "source_elements">> \in Seq(Easy)
    OBVIOUS
  <2> QED
    BY <2>1, <2>2, Zenon
<1>4. FileRules(la).source_element \in Seq(Easy)
  BY DEF FileRules, OtherTokens, Optional
<1> QED
  BY <1>1, <1>2, <1>3, <1>4 DEF FileNames

LEMMA StatementEasy ==
  ASSUME NEW la \in Lookaheads, NEW r \in StatementNames
  PROVE  StatementRules(la)[r] \in Seq(Easy)
<1> USE EasyIs, TerminalsAre
<1>1. StatementRules(la).statement \in Seq(Easy)
  BY DEF StatementRules, OtherTokens, Optional
<1>2. StatementRules(la).block \in Seq(Easy)
  BY DEF StatementRules, OtherTokens, Optional
<1>3. StatementRules(la).alternative \in Seq(Easy)
  BY DEF StatementRules, OtherTokens, Optional
<1> QED
  BY <1>1, <1>2, <1>3 DEF StatementNames

LEMMA VariableEasy ==
  ASSUME NEW la \in Lookaheads, NEW r \in VariableNames
  PROVE  VariableRules(la)[r] \in Seq(Easy)
<1> USE EasyIs, TerminalsAre
<1>1. VariableRules(la).statement_list \in Seq(Easy)
  BY DEF VariableRules, OtherTokens, Optional
<1>2. VariableRules(la).variable_statement \in Seq(Easy)
  BY DEF VariableRules, OtherTokens, Optional
<1>3. VariableRules(la).annotated \in Seq(Easy)
  BY DEF VariableRules, OtherTokens, Optional
<1> QED
  BY <1>1, <1>2, <1>3 DEF VariableNames

LEMMA TypeEasy ==
  ASSUME NEW la \in Lookaheads, NEW r \in TypeNames
  PROVE  TypeRules(la)[r] \in Seq(Easy)
<1> USE EasyIs, TerminalsAre
<1>1. TypeRules(la).type_annotation \in Seq(Easy)
  BY DEF TypeRules, OtherTokens, Optional
<1>2. TypeRules(la).dimensions \in Seq(Easy)
  BY DEF TypeRules, OtherTokens, Optional
<1>3. TypeRules(la).annotations \in Seq(Easy)
  BY DEF TypeRules, OtherTokens, Optional
<1>4. TypeRules(la).annotation_value \in Seq(Easy)
  BY DEF TypeRules, OtherTokens, Optional
<1>5. TypeRules(la).formal_parameter_list \in Seq(Easy)
  BY DEF TypeRules, OtherTokens, Optional
<1>6. TypeRules(la).parameters \in Seq(Easy)
  BY DEF TypeRules, OtherTokens, Optional
<1>7. TypeRules(la).more_parameters \in Seq(Easy)
  BY DEF TypeRules, OtherTokens, Optional
<1> QED
  BY <1>1, <1>2, <1>3, <1>4, <1>5, <1>6, <1>7 DEF TypeNames

LEMMA FunctionEasy ==
  ASSUME NEW la \in Lookaheads, NEW r \in FunctionNames
  PROVE  FunctionRules(la)[r] \in Seq(Easy)
<1> USE EasyIs, TerminalsAre
<1>1. FunctionRules(la).function_declaration \in Seq(Easy)
  BY DEF FunctionRules, OtherTokens, Optional
<1>2. FunctionRules(la).exported \in Seq(Easy)
  BY DEF FunctionRules, OtherTokens, Optional
<1> QED
  BY <1>1, <1>2 DEF FunctionNames

LEMMA ClassEasy ==
  ASSUME NEW la \in Lookaheads, NEW r \in ClassNames
  PROVE  ClassRules(la)[r] \in Seq(Easy)
<1> USE EasyIs, TerminalsAre
<1>1. ClassRules(la).class_declaration \in Seq(Easy)
  BY DEF ClassRules, OtherTokens, Optional
<1>2. ClassRules(la).class_elements \in Seq(Easy)
  BY DEF ClassRules, OtherTokens, Optional
<1>3. ClassRules(la).class_element \in Seq(Easy)
  <2>1. \/ ClassRules(la).class_element = <<"Constructor", "formal_parameter_list", "block">>
        \/ ClassRules(la).class_element = <<"annotations", "Identifier", "member">>
        \/ ClassRules(la).class_element = <<"todo">>
    BY DEF ClassRules
  <2>2. /\ <<"Constructor", "formal_parameter_list", "block">> \in Seq(Easy)
        /\ <<"annotations", "Identifier", "member">> \in Seq(Easy)
        /\ <<"todo">> \in Seq(Easy)
    BY DEF OtherTokens
  <2> QED
    BY <2>1, <2>2, Zenon
<1>4. ClassRules(la).member \in Seq(Easy)
  BY DEF ClassRules, OtherTokens, Optional
<1> QED
  BY <1>1, <1>2, <1>3, <1>4 DEF ClassNames

\* A statement or a declaration needs no span, and holds none when it calls another.
LEMMA GroundFeeds ==
  ASSUME NEW r \in Ground, NEW body \in Seq(Easy)
  PROVE  Feeding(r, body)
<1>1. Gain(r) = 0
  <2>1. r \in RuleNames
    BY RuleNamesAre DEF Ground
  <2>2. r \notin Terminals
    BY <2>1, RulesAreNot
  <2> QED
    BY <2>2, NotGround DEF Gain, Nodes
<1> SUFFICES \E g : Feeds(r, body, 0, g)
  BY DEF Feeding
<1> DEFINE g == [k \in 1 .. Len(body) |-> 0]
<1>2. g \in [1 .. Len(body) -> Nat] /\ \A k \in 1 .. Len(body) : g[k] = 0
  OBVIOUS
<1> HIDE DEF g
<1>3. \A k \in 1 .. Len(body) : Need(body[k]) = 0 /\ Gain(body[k]) >= 0 /\ Gain(body[k]) \in Int
  <2>1. \A k \in 1 .. Len(body) : body[k] \in Easy
    OBVIOUS
  <2>2. \A x \in Easy : Need(x) = 0 /\ Gain(x) >= 0 /\ Gain(x) \in Int
    BY EasyIs, NeedIs, Zenon
  <2> QED
    BY <2>1, <2>2, Zenon
<1>4. Len(body) \in Nat /\ (body # <<>> => 1 \in 1 .. Len(body) /\ Len(body) \in 1 .. Len(body))
  OBVIOUS
<1>5. \A k \in 1 .. Len(body) - 1 : k \in 1 .. Len(body) /\ k + 1 \in 1 .. Len(body)
  BY <1>4
<1>6. Feeds(r, body, 0, g)
  <2>1. body # <<>> => g[1] = 0
    BY <1>2, <1>4
  <2>2. \A k \in 1 .. Len(body) : Need(body[k]) <= g[k] /\ (body[k] \in Ground => g[k] = 0)
    BY <1>2, <1>3
  <2>3. \A k \in 1 .. Len(body) - 1 : g[k + 1] <= g[k] + Gain(body[k])
    BY <1>2, <1>3, <1>5
  <2>4. 0 + Gain(r) <= IF body = <<>> THEN 0 ELSE g[Len(body)] + Gain(body[Len(body)])
    BY <1>1, <1>2, <1>3, <1>4
  <2> QED
    BY <1>2, <2>1, <2>2, <2>3, <2>4 DEF Feeds
<1> QED
  BY <1>6

LEMMA GroundBody ==
  ASSUME NEW la \in Lookaheads, NEW r \in Ground
  PROVE  Table[la][r] \in Seq(Easy)
<1>1. r \in RuleNames
  BY RuleNamesAre DEF Ground
<1>2. CASE r \in FileNames
  BY <1>1, <1>2, FileDomain, FileEasy, TableOf DEF Groups
<1>3. CASE r \in StatementNames
  BY <1>1, <1>3, StatementDomain, StatementEasy, TableOf DEF Groups
<1>4. CASE r \in VariableNames
  BY <1>1, <1>4, VariableDomain, VariableEasy, TableOf DEF Groups
<1>5. CASE r \in TypeNames
  BY <1>1, <1>5, TypeDomain, TypeEasy, TableOf DEF Groups
<1>6. CASE r \in FunctionNames
  BY <1>1, <1>6, FunctionDomain, FunctionEasy, TableOf DEF Groups
<1>7. CASE r \in ClassNames
  BY <1>1, <1>7, ClassDomain, ClassEasy, TableOf DEF Groups
<1> QED
  BY <1>2, <1>3, <1>4, <1>5, <1>6, <1>7 DEF Ground

\* Whatever the lookahead, a function leaves at least what Gain says of it.
LEMMA BodyFeeds ==
  ASSUME NEW la \in Lookaheads, NEW r \in RuleNames
  PROVE  Feeding(r, Table[la][r])
<1>1. CASE r \in Ground
  BY <1>1, GroundBody, GroundFeeds
<1>2. CASE r \in SingleNames
  BY <1>2, SingleDomain, SingleFeeds, TableOf DEF Groups
<1>3. CASE r \in BinaryNames
  BY <1>3, BinaryDomain, BinaryFeeds, TableOf DEF Groups
<1>4. CASE r \in UnaryNames
  BY <1>4, UnaryDomain, UnaryFeeds, TableOf DEF Groups
<1>5. CASE r \in CallNames
  BY <1>5, CallDomain, CallFeeds, TableOf DEF Groups
<1>6. CASE r \in LiteralNames
  BY <1>6, LiteralDomain, LiteralFeeds, TableOf DEF Groups
<1> QED
  BY <1>1, <1>2, <1>3, <1>4, <1>5, <1>6, RuleNamesAre DEF Ground

LEMMA BodyItems ==
  ASSUME NEW la \in Lookaheads, NEW r \in RuleNames
  PROVE  Table[la][r] \in Seq(Items)
<1>1. CASE r \in Ground
  <2>1. Table[la][r] \in Seq(Easy)
    BY <1>1, GroundBody
  <2> QED
    BY <2>1 DEF Easy
<1>2. CASE r = "identifier_expression"
  <2>1. "IntegerTooLarge" \in Items /\ "unwrap" \in Items
    BY TerminalsAre DEF OtherTokens, Items
  <2>2. <<"IntegerTooLarge", "unwrap">> \in Seq(Items)
    BY <2>1
  <2>3. ASSUME Table[la]["identifier_expression"] \in Seq(Plain)
        PROVE  Table[la]["identifier_expression"] \in Seq(Items)
    BY <2>3 DEF Plain
  <2> QED
    BY <1>2, <2>2, <2>3, IdentifierBody, Zenon
<1>3. CASE r \notin Framing
  <2>1. Table[la][r] \in Seq(Plain)
    BY <1>3, PlainBody
  <2> QED
    BY <2>1 DEF Plain
<1>4. \A x \in Framing : x = "identifier_expression" \/ x \in Ground
  BY DEF Framing, Ground, FileNames, StatementNames, VariableNames, FunctionNames,
     ClassNames
<1> QED
  BY <1>1, <1>2, <1>3, <1>4

\* The stack s, with n spans at hand: h has those that may be taken before each
\* item.
FedBy(s, n, h) ==
  /\ h \in [1 .. Len(s) -> Nat]
  /\ s # <<>> => h[1] <= n
  /\ \A k \in 1 .. Len(s) : Need(s[k]) <= h[k] /\ (s[k] \in Ground => h[k] = 0)
  /\ \A k \in 1 .. Len(s) - 1 : h[k + 1] <= h[k] + Gain(s[k])
Fed(s, n) == \E h : FedBy(s, n, h)

\* An item that is done, an error, and a function that is called leave the rest of
\* the stack what it takes up.
LEMMA FedTail ==
  ASSUME NEW s \in Seq(Items), s # <<>>, NEW n \in Nat, Fed(s, n),
         NEW m \in Nat, n + Gain(s[1]) <= m
  PROVE  Fed(Tail(s), m)
<1> PICK h : FedBy(s, n, h)
  BY DEF Fed
<1> DEFINE t == Tail(s)
           e == [k \in 1 .. Len(t) |-> h[k + 1]]
<1>1. /\ Len(t) = Len(s) - 1 /\ Len(s) \in Nat /\ Len(s) >= 1
      /\ \A k \in 1 .. Len(t) : t[k] = s[k + 1]
  BY TailIs
<1>2. /\ h \in [1 .. Len(s) -> Nat] /\ h[1] <= n
      /\ \A k \in 1 .. Len(s) : Need(s[k]) <= h[k] /\ (s[k] \in Ground => h[k] = 0)
      /\ \A k \in 1 .. Len(s) - 1 : h[k + 1] <= h[k] + Gain(s[k])
  BY DEF FedBy
<1>3. \A k \in 1 .. Len(t) : k \in 1 .. Len(s) - 1 /\ k + 1 \in 1 .. Len(s)
  BY <1>1
<1>4. \A k \in 1 .. Len(t) : e[k] = h[k + 1] /\ e[k] \in Nat
  BY <1>2, <1>3
<1>5. e \in [1 .. Len(t) -> Nat]
  BY <1>4
<1>6. t # <<>> => 1 \in 1 .. Len(t)
  BY <1>1
<1> HIDE DEF t, e
<1>7. ASSUME t # <<>>
      PROVE  e[1] <= m
  <2>1. e[1] = h[2] /\ h[2] <= h[1] + Gain(s[1]) /\ h[1] \in Nat /\ h[2] \in Nat
    BY <1>1, <1>2, <1>3, <1>4, <1>6, <1>7
  <2> QED
    BY <1>2, <2>1, NeedIs
<1>8. \A k \in 1 .. Len(t) : Need(t[k]) <= e[k] /\ (t[k] \in Ground => e[k] = 0)
  BY <1>1, <1>2, <1>3, <1>4
<1>9. ASSUME NEW k \in 1 .. Len(t) - 1
      PROVE  e[k + 1] <= e[k] + Gain(t[k])
  <2>1. k \in 1 .. Len(t) /\ k + 1 \in 1 .. Len(t) /\ k + 1 \in 1 .. Len(s) - 1
    BY <1>1
  <2>2. h[(k + 1) + 1] <= h[k + 1] + Gain(s[k + 1])
    BY <1>2, <2>1
  <2> QED
    BY <1>1, <1>4, <2>1, <2>2
<1>10. FedBy(t, m, e)
  BY <1>5, <1>7, <1>8, <1>9 DEF FedBy
<1> QED
  BY <1>10 DEF Fed, t

LEMMA FedFrom ==
  ASSUME NEW s \in Seq(Items), NEW n \in Nat, Fed(s, n),
         NEW l \in 1 .. Len(s), s[l] \in Ground
  PROVE  Fed(SubSeq(s, l, Len(s)), n)
<1> PICK h : FedBy(s, n, h)
  BY DEF Fed
<1> DEFINE t == SubSeq(s, l, Len(s))
           e == [k \in 1 .. Len(t) |-> h[k + l - 1]]
<1>1. /\ Len(t) = Len(s) - l + 1 /\ Len(s) \in Nat /\ l >= 1 /\ l \in Nat
      /\ \A k \in 1 .. Len(t) : t[k] = s[k + l - 1]
  BY FromIs
<1>2. /\ h \in [1 .. Len(s) -> Nat]
      /\ \A k \in 1 .. Len(s) : Need(s[k]) <= h[k] /\ (s[k] \in Ground => h[k] = 0)
      /\ \A k \in 1 .. Len(s) - 1 : h[k + 1] <= h[k] + Gain(s[k])
  BY DEF FedBy
<1>3. \A k \in 1 .. Len(t) : k + l - 1 \in 1 .. Len(s)
  BY <1>1
<1>4. \A k \in 1 .. Len(t) : e[k] = h[k + l - 1] /\ e[k] \in Nat
  BY <1>2, <1>3
<1>5. e \in [1 .. Len(t) -> Nat]
  BY <1>4
<1>6. 1 \in 1 .. Len(t) /\ 1 + l - 1 = l
  BY <1>1
<1> HIDE DEF t, e
<1>7. e[1] <= n
  <2>1. e[1] = h[l] /\ h[l] = 0
    BY <1>2, <1>4, <1>6
  <2> QED
    BY <2>1
<1>8. \A k \in 1 .. Len(t) : Need(t[k]) <= e[k] /\ (t[k] \in Ground => e[k] = 0)
  BY <1>1, <1>2, <1>3, <1>4
<1>9. ASSUME NEW k \in 1 .. Len(t) - 1
      PROVE  e[k + 1] <= e[k] + Gain(t[k])
  <2>1. k \in 1 .. Len(t) /\ k + 1 \in 1 .. Len(t) /\ k + l - 1 \in 1 .. Len(s) - 1
    BY <1>1
  <2>2. h[(k + l - 1) + 1] <= h[k + l - 1] + Gain(s[k + l - 1])
    BY <1>2, <2>1
  <2>3. (k + l - 1) + 1 = (k + 1) + l - 1
    BY <1>1
  <2> QED
    BY <1>1, <1>4, <2>1, <2>2, <2>3
<1>10. FedBy(t, n, e)
  BY <1>5, <1>7, <1>8, <1>9 DEF FedBy
<1> QED
  BY <1>10 DEF Fed, t

LEMMA FedCall ==
  ASSUME NEW s \in Seq(Items), s # <<>>, NEW n \in Nat, Fed(s, n),
         NEW b \in Seq(Items), Feeding(s[1], b)
  PROVE  Fed(b \o Tail(s), n)
<1> PICK h : FedBy(s, n, h)
  BY DEF Fed
<1>1. /\ h \in [1 .. Len(s) -> Nat] /\ h[1] <= n
      /\ \A k \in 1 .. Len(s) : Need(s[k]) <= h[k] /\ (s[k] \in Ground => h[k] = 0)
      /\ \A k \in 1 .. Len(s) - 1 : h[k + 1] <= h[k] + Gain(s[k])
  BY DEF FedBy
<1>2. Len(s) \in Nat /\ Len(s) >= 1 /\ 1 \in 1 .. Len(s) /\ Len(b) \in Nat
  BY TailIs
<1>3. PICK g : Feeds(s[1], b, h[1], g)
  BY <1>1, <1>2 DEF Feeding
<1>4. /\ g \in [1 .. Len(b) -> Nat]
      /\ b # <<>> => g[1] = h[1]
      /\ \A k \in 1 .. Len(b) : Need(b[k]) <= g[k] /\ (b[k] \in Ground => g[k] = 0)
      /\ \A k \in 1 .. Len(b) - 1 : g[k + 1] <= g[k] + Gain(b[k])
      /\ h[1] + Gain(s[1]) <= IF b = <<>> THEN h[1] ELSE g[Len(b)] + Gain(b[Len(b)])
  BY <1>3 DEF Feeds
<1> DEFINE t == b \o Tail(s)
           e == [k \in 1 .. Len(t) |-> IF k <= Len(b) THEN g[k] ELSE h[k - Len(b) + 1]]
<1>5. /\ Len(t) = Len(b) + Len(s) - 1
      /\ \A k \in 1 .. Len(b) : t[k] = b[k]
      /\ \A k \in Len(b) + 1 .. Len(t) : t[k] = s[k - Len(b) + 1]
  BY CalledIs
<1>6. b = <<>> <=> Len(b) = 0
  OBVIOUS
<1>7. /\ \A k \in 1 .. Len(b) : k \in 1 .. Len(t) /\ e[k] = g[k] /\ e[k] \in Nat
      /\ \A k \in Len(b) + 1 .. Len(t) :
           /\ k \in 1 .. Len(t) /\ k - Len(b) + 1 \in 1 .. Len(s)
           /\ e[k] = h[k - Len(b) + 1] /\ e[k] \in Nat
  <2>1. \A k \in 1 .. Len(b) : k \in 1 .. Len(t) /\ k <= Len(b)
    BY <1>2, <1>5
  <2>2. \A k \in Len(b) + 1 .. Len(t) :
          k \in 1 .. Len(t) /\ k - Len(b) + 1 \in 1 .. Len(s) /\ ~(k <= Len(b))
    BY <1>2, <1>5
  <2>3. \A k \in 1 .. Len(b) : e[k] = g[k]
    BY <2>1
  <2>4. \A k \in Len(b) + 1 .. Len(t) : e[k] = h[k - Len(b) + 1]
    BY <2>2
  <2> HIDE DEF t, e
  <2> QED
    BY <1>1, <1>4, <2>1, <2>2, <2>3, <2>4
<1>8. \A k \in 1 .. Len(t) : k \in 1 .. Len(b) \/ k \in Len(b) + 1 .. Len(t)
  BY <1>2, <1>5
<1>9. e \in [1 .. Len(t) -> Nat]
  BY <1>7, <1>8
<1>10. t # <<>> => 1 \in 1 .. Len(t)
  BY <1>5
<1> HIDE DEF t, e
<1>11. \A k \in 1 .. Len(t) : Need(t[k]) <= e[k] /\ (t[k] \in Ground => e[k] = 0)
  <2>1. \A k \in 1 .. Len(b) : Need(t[k]) <= e[k] /\ (t[k] \in Ground => e[k] = 0)
    BY <1>4, <1>5, <1>7
  <2>2. \A k \in Len(b) + 1 .. Len(t) : Need(t[k]) <= e[k] /\ (t[k] \in Ground => e[k] = 0)
    BY <1>1, <1>5, <1>7
  <2> QED
    BY <1>8, <2>1, <2>2
\* After what is called, what stands below it finds at least what it did before.
<1>12. Len(t) >= Len(b) + 1 =>
         /\ e[Len(b) + 1] <= h[1] + Gain(s[1])
         /\ e[Len(b) + 1] = h[2]
  <2> HAVE Len(t) >= Len(b) + 1
  <2>1. Len(b) + 1 \in Len(b) + 1 .. Len(t) /\ (Len(b) + 1) - Len(b) + 1 = 2
        /\ 1 \in 1 .. Len(s) - 1
    BY <1>2, <1>5
  <2>2. e[Len(b) + 1] = h[2]
    BY <1>7, <2>1
  <2>3. h[1 + 1] <= h[1] + Gain(s[1])
    BY <1>1, <2>1
  <2> QED
    BY <2>2, <2>3
<1>13. ASSUME t # <<>>
       PROVE  e[1] <= n
  <2>1. CASE b = <<>>
    <3>1. Len(b) = 0 /\ Len(t) >= Len(b) + 1
      BY <1>2, <1>5, <1>6, <1>10, <1>13, <2>1
    <3>2. e[1] <= h[1] + Gain(s[1]) /\ h[1] + Gain(s[1]) <= h[1]
      BY <1>4, <1>12, <2>1, <3>1
    <3> QED
      BY <1>1, <1>2, <1>7, <1>9, <1>10, <1>13, <3>2, NeedIs
  <2>2. CASE b # <<>>
    <3>1. 1 \in 1 .. Len(b)
      BY <1>2, <1>6, <2>2
    <3> QED
      BY <1>1, <1>4, <1>7, <2>2, <3>1
  <2> QED
    BY <2>1, <2>2
<1>14. ASSUME NEW k \in 1 .. Len(t) - 1
       PROVE  e[k + 1] <= e[k] + Gain(t[k])
  <2>1. CASE k < Len(b)
    <3>1. k \in 1 .. Len(b) /\ k + 1 \in 1 .. Len(b) /\ k \in 1 .. Len(b) - 1
      BY <1>2, <2>1
    <3> QED
      BY <1>4, <1>5, <1>7, <3>1
  <2>2. CASE k = Len(b)
    <3>1. k \in 1 .. Len(b) /\ b # <<>> /\ Len(t) >= Len(b) + 1
      BY <1>2, <1>5, <1>6, <2>2
    <3>2. e[k + 1] <= h[1] + Gain(s[1])
      BY <1>12, <2>2, <3>1
    <3>3. h[1] + Gain(s[1]) <= g[k] + Gain(b[k])
      BY <1>4, <2>2, <3>1
    <3>4. e[k] = g[k] /\ t[k] = b[k]
      BY <1>5, <1>7, <3>1
    <3>5. h[1] \in Nat /\ g[k] \in Nat
      BY <1>1, <1>2, <1>4, <3>1
    <3>6. e[k + 1] \in Nat
      <4>1. k + 1 \in Len(b) + 1 .. Len(t)
        BY <1>2, <2>2, <3>1
      <4> QED
        BY <1>7, <4>1
    <3>7. Gain(s[1]) \in Int /\ Gain(b[k]) \in Int
      BY NeedIs, Zenon
    <3>8. e[k + 1] <= g[k] + Gain(b[k])
      BY <3>2, <3>3, <3>5, <3>6, <3>7
    <3> QED
      BY <3>4, <3>8
  <2>3. CASE k > Len(b)
    <3>0. Len(t) \in Nat /\ Len(b) \in Nat /\ k \in Nat /\ k + 1 <= Len(t)
      <4>1. Len(t) \in Nat
        BY <1>2, <1>5
      <4> QED
        BY <1>2, <4>1
    <3>1. k \in Len(b) + 1 .. Len(t) /\ k + 1 \in Len(b) + 1 .. Len(t)
      BY <1>2, <2>3, <3>0
    <3> DEFINE j == k - Len(b) + 1
    <3>2. j \in 1 .. Len(s) - 1 /\ (k + 1) - Len(b) + 1 = j + 1
      BY <1>2, <1>5, <2>3, <3>0
    <3>3. e[k] = h[j] /\ t[k] = s[j]
      BY <1>5, <1>7, <3>1
    <3>4. e[k + 1] = h[(k + 1) - Len(b) + 1]
      BY <1>7, <3>1
    <3> HIDE DEF j
    <3>5. h[j + 1] <= h[j] + Gain(s[j])
      BY <1>1, <3>2
    <3> QED
      BY <3>2, <3>3, <3>4, <3>5
  <2> QED
    BY <1>2, <2>1, <2>2, <2>3
<1>15. FedBy(t, n, e)
  BY <1>9, <1>11, <1>13, <1>14 DEF FedBy
<1> QED
  BY <1>15 DEF Fed, t

\* Every item on the stack finds at hand the spans that it takes up.
Spans == [tokens : Nat \X Nat, span : Nat \X Nat]
FedOK == operands \in Seq(Spans) /\ Fed(stack, Len(operands))

LEMMA FedInit == Init => FedOK
<1> SUFFICES ASSUME Init
             PROVE  FedOK
  OBVIOUS
<1>1. stack = <<"program">> /\ operands = <<>>
  BY DEF Init
<1> DEFINE h == [k \in 1 .. 1 |-> 0]
<1>2. Need("program") = 0
  <2>1. "program" \in Easy
    BY EasyIs
  <2> QED
    BY <2>1, EasyIs
<1>3. Len(<<"program">>) = 1 /\ h \in [1 .. 1 -> Nat] /\ h[1] = 0
  OBVIOUS
<1>4. \A k \in 1 .. 1 : k = 1
  OBVIOUS
<1>5. \A k \in 1 .. 1 - 1 : FALSE
  OBVIOUS
<1> HIDE DEF h
<1>6. \A k \in 1 .. 1 : Need(<<"program">>[k]) <= h[k] /\ h[k] = 0
  BY <1>2, <1>3, <1>4
<1>7. FedBy(<<"program">>, 0, h)
  BY <1>3, <1>5, <1>6 DEF FedBy
<1>8. Len(<<>>) = 0 /\ <<>> \in Seq(Spans)
  OBVIOUS
<1> QED
  BY <1>1, <1>7, <1>8, Zenon DEF FedOK, Fed

\* What an item at the top of the stack takes up is at hand.
LEMMA NeedMet ==
  ASSUME stack \in Seq(Items), stack # <<>>, FedOK
  PROVE  Need(stack[1]) <= Len(operands) /\ Len(operands) \in Nat
<1>1. PICK h : FedBy(stack, Len(operands), h)
  BY DEF FedOK, Fed
<1>2. 1 \in 1 .. Len(stack) /\ Len(operands) \in Nat
  BY TailIs DEF FedOK
<1>3. h[1] \in Nat /\ h[1] <= Len(operands) /\ Need(stack[1]) <= h[1]
  BY <1>1, <1>2 DEF FedBy
<1>4. Need(stack[1]) \in Nat
  BY NeedIs, Zenon
<1> QED
  BY <1>2, <1>3, <1>4

LEMMA CallFed ==
  ASSUME TextOK, StackOK, FedOK, Call
  PROVE  FedOK'
<1> DEFINE body == Table[lookahead][stack[1]]
<1>1. /\ stack \in Seq(Items) /\ stack # <<>> /\ stack[1] \in RuleNames
      /\ stack' = body \o Tail(stack) /\ operands' = operands
  BY DEF Call, Parsing, Doing, StackOK
<1>2. lookahead \in Lookaheads
  BY DialectIs
<1>3. body \in Seq(Items) /\ Feeding(stack[1], body)
  BY <1>1, <1>2, BodyItems, BodyFeeds
<1> HIDE DEF body
<1>4. Fed(body \o Tail(stack), Len(operands))
  BY <1>1, <1>3, NeedMet, FedCall DEF FedOK
<1> QED
  BY <1>1, <1>4 DEF FedOK

LEMMA ConsumeFed ==
  ASSUME TextOK, StackOK, FedOK, Consume
  PROVE  FedOK'
<1>1. /\ stack \in Seq(Items) /\ stack # <<>> /\ stack[1] = lookahead /\ stack' = Tail(stack)
      /\ operands' = Append(operands, [tokens |-> <<Len(text), Len(text)>>,
                                       span |-> <<Len(text), Len(text)>>])
  BY DEF Consume, Parsing, Doing, StackOK, Held
<1>2. Gain(stack[1]) = 1
  <2>1. stack[1] # "None"
    BY <1>1, TailIs, NoneIs
  <2>2. lookahead \in Terminals
    BY <1>1, <2>1, DialectIs DEF Lookaheads
  <2> QED
    BY <1>1, <2>2, NeedIs
<1>3. Len(text) \in Nat
  BY DialectIs
<1>4. operands \in Seq(Spans) /\ Len(operands) \in Nat
  BY DEF FedOK
<1>5. operands' \in Seq(Spans) /\ Len(operands') = Len(operands) + 1
  <2> DEFINE held == [tokens |-> <<Len(text), Len(text)>>, span |-> <<Len(text), Len(text)>>]
  <2>1. held \in Spans
    BY <1>3 DEF Spans
  <2> HIDE DEF held
  <2>2. operands' = Append(operands, held)
    BY <1>1 DEF held
  <2> QED
    BY <1>4, <2>1, <2>2
<1>6. Fed(Tail(stack), Len(operands) + 1)
  BY <1>1, <1>2, <1>4, FedTail DEF FedOK
<1> QED
  BY <1>1, <1>5, <1>6 DEF FedOK

LEMMA SliceIs ==
  ASSUME NEW S, NEW s \in Seq(S), NEW l \in 1 .. Len(s)
  PROVE  /\ SubSeq(s, l, Len(s)) \in Seq(S)
         /\ Len(SubSeq(s, l, Len(s))) = Len(s) - l + 1
OBVIOUS

LEMMA PrefixIs ==
  ASSUME NEW S, NEW s \in Seq(S), NEW m \in 0 .. Len(s)
  PROVE  SubSeq(s, 1, m) \in Seq(S) /\ Len(SubSeq(s, 1, m)) = m
OBVIOUS

LEMMA NodeSpanIs ==
  ASSUME NEW kind, NEW parts \in Seq(Spans), parts # <<>>
  PROVE  NodeSpan(kind, parts) \in Spans
<1> DEFINE first == parts[1]
           last == parts[Len(parts)]
<1>1. first \in Spans /\ last \in Spans
  OBVIOUS
<1>2. NodeSpan(kind, parts) =
        [tokens |-> <<first.tokens[1], last.tokens[2]>>,
         span |-> IF kind = "PostfixExpression" THEN <<last.span[1], first.span[2]>>
                  ELSE <<first.span[1], last.span[2]>>]
  BY DEF NodeSpan
<1> HIDE DEF first, last
<1>3. /\ first.tokens \in Nat \X Nat /\ first.span \in Nat \X Nat
      /\ last.tokens \in Nat \X Nat /\ last.span \in Nat \X Nat
  BY <1>1 DEF Spans
<1>4. <<first.tokens[1], last.tokens[2]>> \in Nat \X Nat
  BY <1>3
<1>5. <<last.span[1], first.span[2]>> \in Nat \X Nat
  BY <1>3
<1>6. <<first.span[1], last.span[2]>> \in Nat \X Nat
  BY <1>3
<1> QED
  BY <1>2, <1>4, <1>5, <1>6 DEF Spans

LEMMA BuildFed ==
  ASSUME StackOK, FedOK, Build
  PROVE  FedOK'
<1> DEFINE n == Nodes[Doing]
           rest == Len(operands) - n
           parts == SubSeq(operands, rest + 1, Len(operands))
           kept == SubSeq(operands, 1, rest)
           node == NodeSpan(Doing, parts)
<1>1. /\ stack \in Seq(Items) /\ stack # <<>> /\ Doing = stack[1] /\ Doing \in DOMAIN Nodes
      /\ stack' = Tail(stack)
  BY DEF Build, Parsing, Doing, StackOK
<1>2. operands' = kept \o <<node>>
  BY DEF Build
<1>3. n \in 2 .. 4
  <2>1. \A x \in DOMAIN Nodes : Nodes[x] \in 2 .. 4
    BY DEF Nodes
  <2> QED
    BY <1>1, <2>1
<1>4. Need(stack[1]) = n /\ Gain(stack[1]) = 1 - n
  BY <1>1, NeedIs
<1> HIDE DEF n
<1>5. n <= Len(operands) /\ Len(operands) \in Nat /\ operands \in Seq(Spans)
  BY <1>1, <1>4, NeedMet DEF FedOK
<1>6. rest \in 0 .. Len(operands) /\ rest + 1 \in 1 .. Len(operands)
  BY <1>3, <1>5
<1> HIDE DEF rest
<1>7. parts \in Seq(Spans) /\ parts # <<>>
  <2>1. parts \in Seq(Spans) /\ Len(parts) = Len(operands) - (rest + 1) + 1
    BY <1>5, <1>6, SliceIs
  <2> HIDE DEF parts
  <2>2. Len(parts) # 0
    BY <1>5, <1>6, <2>1
  <2> QED
    BY <2>1, <2>2
<1>8. kept \in Seq(Spans) /\ Len(kept) = rest
  BY <1>5, <1>6, PrefixIs
<1> HIDE DEF parts, kept
<1>9. node \in Spans
  BY <1>7, NodeSpanIs
<1> HIDE DEF node
<1>10. operands' \in Seq(Spans) /\ Len(operands') = rest + 1
  <2>1. <<node>> \in Seq(Spans) /\ Len(<<node>>) = 1
    BY <1>9
  <2> QED
    BY <1>2, <1>6, <1>8, <2>1
<1>11. Fed(Tail(stack), rest + 1)
  <2>1. rest + 1 \in Nat /\ Len(operands) + (1 - n) <= rest + 1
    BY <1>3, <1>5 DEF rest
  <2> QED
    BY <1>1, <1>4, <1>5, <2>1, FedTail DEF FedOK
<1> QED
  BY <1>1, <1>10, <1>11 DEF FedOK

LEMMA PutAsideFed ==
  ASSUME StackOK, FedOK, PutAside
  PROVE  FedOK'
<1>1. /\ stack \in Seq(Items) /\ stack # <<>> /\ stack[1] = "Element"
      /\ stack' = Tail(stack) /\ operands' = SubSeq(operands, 1, Len(operands) - 1)
  BY DEF PutAside, Parsing, Doing, StackOK, Front
<1>2. Len(operands) \in Nat /\ Len(operands) >= 1 /\ operands \in Seq(Spans)
  BY <1>1, NeedMet, NeedIs DEF FedOK
<1>3. operands' \in Seq(Spans) /\ Len(operands') = Len(operands) - 1
  <2>1. Len(operands) - 1 \in 0 .. Len(operands)
    BY <1>2
  <2> QED
    BY <1>1, <1>2, <2>1, PrefixIs
<1>4. Fed(Tail(stack), Len(operands) - 1)
  <2>1. Gain(stack[1]) = -1
    BY <1>1, NeedIs
  <2>2. Len(operands) - 1 \in Nat /\ Len(operands) + (-1) <= Len(operands) - 1
    BY <1>2
  <2> QED
    BY <1>1, <1>2, <2>1, <2>2, FedTail DEF FedOK
<1> QED
  BY <1>1, <1>3, <1>4 DEF FedOK

LEMMA FileDoneFed ==
  ASSUME StackOK, FedOK, FileDone
  PROVE  FedOK'
<1>1. /\ stack \in Seq(Items) /\ stack # <<>> /\ stack[1] = "File"
      /\ stack' = Tail(stack) /\ operands' = operands
  BY DEF FileDone, Parsing, Doing, StackOK
<1>2. Gain(stack[1]) = 0
  <2>1. "File" \notin Terminals
    BY KindsAre
  <2> QED
    BY <1>1, <2>1 DEF Gain, Makers, Nodes
<1>3. Len(operands) \in Nat /\ Len(operands) + 0 <= Len(operands)
  BY DEF FedOK
<1>4. Fed(Tail(stack), Len(operands))
  BY <1>1, <1>2, <1>3, FedTail DEF FedOK
<1> QED
  BY <1>1, <1>4 DEF FedOK

LEMMA MismatchFed ==
  ASSUME TextOK, StackOK, FedOK, Mismatch
  PROVE  FedOK'
<1>1. PICK l \in 1 .. Len(stack) : /\ stack' = SubSeq(stack, l, Len(stack))
                                   /\ stack[l] \in Lists
  BY MismatchStack
<1>2. stack[l] \in Ground
  BY <1>1 DEF Lists, Ground, FileNames, VariableNames
<1>3. stack \in Seq(Items) /\ operands' = operands /\ Len(operands) \in Nat
  BY DEF StackOK, Mismatch, FedOK
<1>4. Fed(stack', Len(operands))
  BY <1>1, <1>2, <1>3, FedFrom DEF FedOK
<1> QED
  BY <1>3, <1>4 DEF FedOK

LEMMA FedNext == IInv /\ FedOK /\ [Next]_vars => FedOK'
<1> SUFFICES ASSUME IInv, FedOK, [Next]_vars
             PROVE  FedOK'
  OBVIOUS
<1>1. TextOK /\ StackOK
  BY DEF IInv
<1>2. CASE Call
  BY <1>1, <1>2, CallFed
<1>3. CASE Consume
  BY <1>1, <1>3, ConsumeFed
<1>4. CASE Build
  BY <1>1, <1>4, BuildFed
<1>5. CASE PutAside
  BY <1>1, <1>5, PutAsideFed
<1>6. CASE FileDone
  BY <1>1, <1>6, FileDoneFed
<1>7. CASE Mismatch
  BY <1>1, <1>7, MismatchFed
<1>8. CASE Skip \/ UNCHANGED vars
  <2>1. stack' = stack /\ operands' = operands
    BY <1>8 DEF Skip, vars
  <2> QED
    BY <2>1 DEF FedOK
<1> QED
  BY <1>2, <1>3, <1>4, <1>5, <1>6, <1>7, <1>8 DEF Next

LEMMA IInvTyped == IInv /\ FedOK => TypeOK
<1> SUFFICES ASSUME IInv, FedOK
             PROVE  TypeOK
  OBVIOUS
<1>1. TextOK /\ StackOK
  BY DEF IInv
<1>2. /\ dialect \in Dialects /\ text \in Seq(dialect.tokens \cup {"Eof"}) /\ text # <<>>
      /\ lookahead \in {text[Len(text)], "None"}
      /\ errors \in Seq(1 .. Len(text)) /\ dropped \subseteq 1 .. Len(text)
      /\ stack \in Seq(Items)
  BY <1>1 DEF TextOK, StackOK
<1>3. Range(text) \subseteq dialect.tokens \cup {"Eof"}
  BY <1>2 DEF Range
<1>4. lookahead \in {Last(text), "None"}
  BY <1>2 DEF Last
<1>5. Range(stack) \subseteq Items
  BY <1>2 DEF Range
<1>6. ASSUME ~Done, Doing \in DOMAIN Nodes
      PROVE  Nodes[Doing] <= Len(operands)
  <2>1. stack # <<>> /\ Doing = stack[1]
    BY <1>2, <1>6 DEF Done, Doing
  <2>2. Need(Doing) = Nodes[Doing]
    BY <1>6 DEF Need
  <2> QED
    BY <1>2, <2>1, <2>2, NeedMet
<1>7. ASSUME recovering
      PROVE  lookahead # "None" /\ Doing \in {"source_elements", "statement_list"}
  <2>1. Within
    BY <1>1, <1>7 DEF StackOK, Outside
  <2> QED
    BY <1>1, <1>7, <2>1, TopIs DEF StackOK, Within, Doing, Lists
<1>8. DOMAIN text = 1 .. Len(text)
  BY <1>2
<1>9. dropped \subseteq DOMAIN text /\ Range(errors) \subseteq DOMAIN text
  BY <1>2, <1>8 DEF Range
<1> QED
  BY <1>2, <1>3, <1>4, <1>5, <1>6, <1>7, <1>9 DEF TypeOK

\* Whenever a function adds up the spans of an expression's parts, it holds one
\* for each of them: none of those it called returned without one, with any
\* lookahead, and none took one that belongs to a function further down
\* (lib.rs:439-830).
THEOREM ParserTyped == Spec => []TypeOK
<1>1. Init => FedOK
  BY FedInit
<1>2. IInv /\ FedOK /\ [Next]_vars => FedOK'
  BY FedNext
<1>3. IInv /\ FedOK => TypeOK
  BY IInvTyped
<1> QED
  BY <1>1, <1>2, <1>3, ParserStack, PTL DEF Spec
=============================================================================
