------------------------------ MODULE MCParser -------------------------------
(* Parser for TLC: every text of ten dialects, each with the tokens of a few *)
(* rules.  After a dialect's errors its file ends, so that what follows them   *)
(* is the recovery; Files is the one with more than a file and more errors.    *)
EXTENDS Parser

Dialect(ts, length, n, wrong) ==
  [tokens |-> ts, length |-> length, files |-> n, errors |-> wrong]

Operators ==
  Dialect({"Identifier", "Star", "Minus", "Less", "Equal", "Semi"}, 6, 1, 0)
OtherOperators ==
  Dialect({"Identifier", "Plus", "EqualEqual", "And", "Or", "New", "PlusPlus", "Semi"}, 5, 1, 0)
Calls ==
  Dialect({"Identifier", "This", "Dot", "LeftParen", "RightParen", "Comma", "Semi"}, 6, 1, 0)
Arrays ==
  Dialect({"Integer", "IntegerTooLarge", "LeftBracket", "RightBracket", "Comma", "Plus",
           "Equal", "Semi"}, 6, 1, 0)
Control ==
  Dialect({"Identifier", "If", "Else", "While", "LeftParen", "RightParen", "LeftBrace",
           "RightBrace", "Semi"}, 7, 1, 0)
Variables ==
  Dialect({"Identifier", "Let", "Return", "Colon", "LeftBracket", "RightBracket", "Equal",
           "Semi"}, 7, 1, 0)
Functions ==
  Dialect({"Identifier", "At", "Export", "Function", "LeftParen", "RightParen", "Colon",
           "Comma", "LeftBrace", "RightBrace"}, 9, 1, 0)
Methods ==
  Dialect({"Identifier", "Class", "Constructor", "LeftParen", "RightParen", "LeftBrace",
           "RightBrace"}, 10, 1, 0)
Fields ==
  Dialect({"Identifier", "Class", "At", "Colon", "LeftBrace", "RightBrace", "Semi"}, 8, 1, 0)
Files ==
  Dialect({"Identifier", "RightParen", "LeftBrace", "RightBrace", "Semi"}, 3, 2, 2)

Inputs ==
  {Operators, OtherOperators, Calls, Arrays, Control, Variables, Functions, Methods,
   Fields, Files}

-----------------------------------------------------------------------------
(* The comments of four rules, each with a dialect for it.                   *)

Ifs ==
  Dialect({"Identifier", "If", "LeftParen", "RightParen", "LeftBrace", "RightBrace", "Semi"},
          6, 1, 0)
Whiles ==
  Dialect({"Identifier", "While", "LeftParen", "RightParen", "LeftBrace", "RightBrace", "Semi"},
          6, 1, 0)
Classes ==
  Dialect({"Identifier", "Class", "Colon", "LeftBrace", "RightBrace", "Semi"}, 8, 1, 0)
Indices ==
  Dialect({"Identifier", "LeftBracket", "RightBracket", "Plus", "Semi"}, 7, 1, 0)
Commented == {Ifs, Whiles, Classes, Indices}
AsCommented ==
  [d \in Commented |->
     LanguageOf(d, {"IfStatement", "WhileStatement", "ClassField", "SingleExpression"})]

\* The parser recognizes the language that four comments give: the statement after
\* an if is a block (lib.rs:253); the body of a while is any statement (lib.rs:295);
\* a field ends with its type (class.rs:73); what is indexed is any expression,
\* and an index may be part of one (lib.rs:422).
CommentsFollowed == Recognizes(AsCommented[dialect])
=============================================================================
