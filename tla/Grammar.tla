------------------------------- MODULE Grammar -------------------------------
(***************************************************************************)
(* The language of the parser's rules (the comments above the functions of  *)
(* jswt-parser/src/lib.rs, function.rs and class.rs, corrected where the    *)
(* functions differ from them), as the set of its sentences up to a length: *)
(* what Parser.tla is checked against.  An expression is written flat, for  *)
(* the levels of precedence do not change which texts are expressions.      *)
(*                                                                         *)
(* Of four rules there are both versions, to show where they differ; the   *)
(* comment's is the one of a rule in the set commented:                     *)
(*   "IfStatement"       both bodies are blocks (lib.rs:253)                *)
(*   "WhileStatement"    the body is any statement (lib.rs:295)             *)
(*   "ClassField"        there is no semicolon (class.rs:73)                *)
(*   "SingleExpression"  an index may follow what it is an index into, like *)
(*                       arguments, and is any expression (lib.rs:422)      *)
(***************************************************************************)
EXTENDS Naturals, Sequences, FiniteSets, FiniteSetsExt

\* The sentences of a file without its Eof: over the tokens ts, no longer than n.
Sentences(ts, n, commented) ==
  LET Choice(rule, asCommented, asWritten) ==
        IF rule \in commented THEN asCommented ELSE asWritten
      One(S) == {<<t>> : t \in S \cap ts}
      Maybe(A) == A \cup {<<>>}
      \* Each b \in {B} below is B, as a value that is computed only once.
      A ** B == UNION {{p \o q : q \in {r \in b : Len(p) + Len(r) <= n}} :
                         p \in A, b \in {B}}
      Star(A) ==     \* any number of A, none of which is empty
        LET grow[k \in 0..n] == IF k = 0 THEN {<<>>} ELSE Maybe(A ** grow[k - 1])
        IN  grow[n]
      Plus(A) == A ** Star(A)
      List(A) == Maybe(A ** Star(One({"Comma"}) ** A))
      WithComma(A) == List(A) \cup ((List(A) \ {<<>>}) ** One({"Comma"}))
      Parens(A) == One({"LeftParen"}) ** A ** One({"RightParen"})
      Brackets(A) == One({"LeftBracket"}) ** A ** One({"RightBracket"})
      Braces(A) == One({"LeftBrace"}) ** A ** One({"RightBrace"})

      identifier == One({"Identifier"})
      operators == One({"Star", "Slash", "Plus", "Minus", "Greater", "GreaterEqual",
                        "Less", "LessEqual", "EqualEqual", "BangEqual", "And", "Or"})
      type == One({"Colon"}) ** identifier ** Star(Brackets({<<>>}))

      \* Expressions, given those that stand in parentheses and brackets, and the
      \* lists of them.
      Atoms(list) ==
        identifier
          \cup One({"True", "False", "String", "Integer", "HexInteger", "Float"})
          \cup Brackets(list)
      Members(atom) == Maybe((atom \cup One({"This"})) ** One({"Dot"})) ** atom
      Calls(member, list) == (member \cup One({"This"})) ** Maybe(Parens(list))
      Operands(called) == Maybe(One({"Plus", "Minus", "Not"})) ** called
                            ** Maybe(One({"PlusPlus", "MinusMinus"}))
      Calculations(operand) == operand ** Star(operators ** operand)
      Indexed(calculation) ==
        Star(One({"New"})) ** calculation ** Maybe(Brackets(calculation))
      Assignments(new) == new ** Star(One({"Equal"}) ** new)
      Elements(called, inner) ==
        Choice("SingleExpression", called ** Star(Brackets(inner)), called)
      Expressions(inner, list) ==
        Assignments(Indexed(Calculations(Operands(
          Elements(Calls(Members(Atoms(list)), list), inner)))))
      expressions[k \in 0..n] ==
        IF k = 0 THEN {}
        ELSE UNION {Expressions(e, WithComma(e)) : e \in {expressions[k - 1]}}

      Statements(expression, inner, block) ==
        block
          \cup Maybe(expression) ** One({"Semi"})
          \cup One({"Return"}) ** expression ** One({"Semi"})
          \cup One({"Let", "Const"}) ** identifier ** Maybe(type) ** One({"Equal"})
                 ** expression ** One({"Semi"})
          \cup One({"While"}) ** Parens(expression) ** Choice("WhileStatement", inner, block)
          \cup UNION {One({"If"}) ** Parens(expression) ** body ** Maybe(One({"Else"}) ** body) :
                        body \in {Choice("IfStatement", block, inner)}}
      StatementsOf(expression) ==
        LET statements[k \in 0..n] ==
              IF k = 0 THEN {}
              ELSE UNION {Statements(expression, s, Braces(Star(s))) :
                            s \in {statements[k - 1]}}
        IN  statements[n \div 2 + 1]

      Annotations(expression) == Star(One({"At"}) ** identifier ** Maybe(Parens(expression)))
      signature == Parens(List(identifier ** type))
      Functions(annotations, body) ==
        annotations ** Maybe(One({"Export"})) ** One({"Function"}) ** identifier
          ** signature ** Maybe(type) ** body
      ClassElements(annotations, body) ==
        (One({"Constructor"}) ** signature ** body)
          \cup (annotations ** identifier
                  ** ((type ** Choice("ClassField", {<<>>}, One({"Semi"})))
                        \cup (signature ** Maybe(type) ** body)))
      Classes(element) == One({"Class"}) ** identifier ** Braces(Star(element))
      SourceElements(statement, annotations, body) ==
        Star(statement \cup Functions(annotations, body)
               \cup Classes(ClassElements(annotations, body)))
  IN  UNION {UNION {SourceElements(s, Annotations(e), Braces(Star(s))) : s \in {StatementsOf(e)}} :
               e \in {expressions[n \div 2 + 1]}}
=============================================================================
