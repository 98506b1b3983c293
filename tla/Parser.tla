------------------------------- MODULE Parser --------------------------------
(***************************************************************************)
(* The predictive parser (jswt-parser/src/lib.rs, function.rs, class.rs):   *)
(* one token of lookahead, one function per rule.  The functions that are   *)
(* being executed are a stack of what they have still to do: terminals to   *)
(* consume, rules to call and nodes of the tree to build.                   *)
(*                                                                         *)
(* The tokens are named after TokenType, the rules after the functions.  A  *)
(* loop or an optional part of a function is a rule of its own.             *)
(* Token "IntegerTooLarge" is an integer whose digits do not parse.  Of the *)
(* tree the nodes of expressions are kept, with their spans.                *)
(***************************************************************************)
EXTENDS Grammar, SequencesExt

CONSTANT Dialects    \* bounds: the inputs, as the tokens they are made of, the
                     \* files, the length of each, and the errors after which
                     \* a file ends

Literals == {"True", "False", "String", "Integer", "HexInteger", "Float"}
Levels ==
  <<"multipicative", "additive", "relational", "equality", "bitwise_and", "bitwise_or">>
OperatorsOf ==
  <<{"Star", "Slash"}, {"Plus", "Minus"}, {"Greater", "GreaterEqual", "Less", "LessEqual"},
    {"EqualEqual", "BangEqual"}, {"And"}, {"Or"}>>
BinaryOperators == UNION Range(OperatorsOf)
\* Mutant of PrefixOperators: one of them forgotten.
PrefixOperatorsLess == {"Plus", "Not"}
PrefixOperators == {"Plus", "Minus", "Not"}
Terminals ==
  Literals \cup BinaryOperators \cup PrefixOperators \cup
  {"Eof", "IntegerTooLarge", "Identifier", "This", "New", "Class", "Constructor",
   "Export", "Function", "At", "If", "Else", "While", "Return", "Let", "Const",
   "LeftBrace", "RightBrace", "LeftParen", "RightParen", "LeftBracket",
   "RightBracket", "Semi", "Comma", "Colon", "Dot", "Equal", "PlusPlus",
   "MinusMinus"}

ASSUME DialectAssumption ==
  \A d \in Dialects : /\ d.tokens \subseteq Terminals \ {"Eof"}
                      /\ {d.files, d.length, d.errors} \subseteq Nat
                      /\ d.files > 0

VARIABLES dialect,    \* the input that is parsed
          text,       \* the tokens read so far, the lookahead included
          lookahead,  \* the last of them, or "None" after the last file
          stack,      \* what the functions being executed have still to do
          operands,   \* the spans they hold
          nodes,      \* the expressions built
          errors,     \* Parser.errors: where in the text they are
          recovering, \* handle_error_and_recover is dropping tokens
          dropped,    \* history: the tokens it dropped
          files       \* the number of File nodes

vars == <<dialect, text, lookahead, stack, operands, nodes, errors, recovering,
          dropped, files>>

-----------------------------------------------------------------------------
(* What a function does next, given the lookahead la.                       *)

Optional(t, la, body) == IF la = t THEN body ELSE <<>>

\* program, file, source_elements and source_element.  lookahead_span() after
\* the loop of source_elements unwraps the lookahead.
FileRules(la) == [
  program |-> IF la = "None" THEN <<>> ELSE <<"file", "program">>,
  file |-> <<"source_elements", "Eof", "File">>,
  source_elements |->
    CASE la = "None" -> <<"unwrap">>
      [] la = "Eof" -> <<>>
      [] OTHER -> <<"source_element", "source_elements">>,
  source_element |->
    CASE la \in {"Function", "Export", "At"} -> <<"function_declaration">>
      [] la = "Class" -> <<"class_declaration">>
      [] OTHER -> <<"statement">>]

StatementRules(la) == [
  statement |->
    CASE la = "LeftBrace" -> <<"block">>
      [] la = "Semi" -> <<"Semi">>
      [] la = "If" -> <<"If", "LeftParen", "single_expression", "RightParen",
                        "statement", "alternative">>
      [] la = "While" -> <<"While", "LeftParen", "single_expression", "RightParen", "block">>
      [] la = "Return" -> <<"Return", "single_expression", "Semi">>
      [] la \in {"Let", "Const"} -> <<"variable_statement">>
      [] OTHER -> <<"single_expression", "Semi">>,
  block |-> <<"LeftBrace", "statement_list", "RightBrace">>,
  alternative |-> Optional("Else", la, <<"Else", "statement">>)]

\* statement_list, and variable_statement with its modifier and target.
VariableRules(la) == [
  statement_list |->
    IF la \in {"None", "RightBrace"} THEN <<>> ELSE <<"statement", "statement_list">>,
  variable_statement |->
    <<IF la = "Const" THEN "Const" ELSE "Let", "Identifier", "annotated", "Equal",
      "single_expression", "Semi">>,
  annotated |-> Optional("Colon", la, <<"type_annotation">>)]

\* assignment_expression, new_expression and member_index_expression.
SingleRules(la) == [
  single_expression |-> <<"new_expression", "assignment">>,
  assignment |->
    Optional("Equal", la, <<"Equal", "new_expression", "BinaryExpression", "assignment">>),
  new_expression |->
    IF la = "New" THEN <<"New", "single_expression", "NewExpression">>
    ELSE <<"bitwise_or_expression", "member_index">>,
  member_index |->
    Optional("LeftBracket", la, <<"LeftBracket", "bitwise_or_expression", "RightBracket",
                                  "MemberIndexExpression">>)]

\* Mutant of Tighter: the right operand is parsed like a whole expression.
TighterNot(n) == "bitwise_or_expression"

\* What an operator of level n applies to on its right: what the function of the
\* level below parses.
Tighter(n) ==
  <<"operand", "multipicative_expression", "additive_expression", "relational_expression",
    "equality_expression", "bitwise_and_expression">>[n]

\* The loops of binary_expression! in the n tightest levels, after an operand.
Loop(n, la) ==
  LET level == CHOOSE m \in 1..n : la \in OperatorsOf[m]
  IN  IF \E m \in 1..n : la \in OperatorsOf[m]
      THEN <<la, Tighter(level), "BinaryExpression", Levels[n]>>
      ELSE <<>>

\* The six levels of binary_expression!: down to an operand, and the loops back up.
BinaryRules(la) == [
  bitwise_or_expression |-> <<"operand", "bitwise_or">>,
  bitwise_and_expression |-> <<"operand", "bitwise_and">>,
  equality_expression |-> <<"operand", "equality">>,
  relational_expression |-> <<"operand", "relational">>,
  additive_expression |-> <<"operand", "additive">>,
  multipicative_expression |-> <<"operand", "multipicative">>,
  bitwise_or |-> Loop(6, la),
  bitwise_and |-> Loop(5, la),
  equality |-> Loop(4, la),
  relational |-> Loop(3, la),
  additive |-> Loop(2, la),
  multipicative |-> Loop(1, la)]

\* postfix_unary_expression and prefix_unary_expression.
UnaryRules(la) == [
  operand |->
    IF la \in PrefixOperators
    THEN <<la, "arguments_expression", "UnaryExpression", "postfix">>
    ELSE <<"arguments_expression", "postfix">>,
  postfix |-> IF la \in {"PlusPlus", "MinusMinus"} THEN <<la, "PostfixExpression">>
              ELSE <<>>]

\* arguments_expression, argument_list, member_dot_expression and this.
CallRules(la) == [
  arguments_expression |-> <<"member_dot_expression", "argument_list">>,
  argument_list |->
    Optional("LeftParen", la, <<"LeftParen", "arguments", "RightParen", "ArgumentsList",
                                "ArgumentsExpression">>),
  arguments |->
    IF la = "RightParen" THEN <<>> ELSE <<"single_expression", "Element", "more_arguments">>,
  more_arguments |-> Optional("Comma", la, <<"Comma", "Element", "arguments">>),
  member_dot_expression |-> <<"this", "member_dot">>,
  member_dot |->
    Optional("Dot", la, <<"Dot", "identifier_expression", "MemberDotExpression">>),
  this |-> IF la = "This" THEN <<"This">> ELSE <<"identifier_expression">>]

\* identifier_expression, array_literal_expression and literal.  No token is
\* "Literal": what is not one of the alternatives is a NoViableAlternative.
LiteralRules(la) == [
  identifier_expression |->
    CASE la = "LeftBracket" ->
           <<"LeftBracket", "elements", "RightBracket", "ArrayLiteral">>
      [] la \in Literals \cup {"Identifier"} -> <<la>>
      [] la = "IntegerTooLarge" -> <<la, "unwrap">>
      [] OTHER -> <<"Literal">>,
  elements |->
    IF la = "RightBracket" THEN <<>> ELSE <<"single_expression", "Element", "more_elements">>,
  more_elements |-> Optional("Comma", la, <<"Comma", "Element", "elements">>)]

TypeRules(la) == [
  type_annotation |-> <<"Colon", "Identifier", "dimensions">>,
  dimensions |-> Optional("LeftBracket", la, <<"LeftBracket", "RightBracket", "dimensions">>),
  annotations |->
    Optional("At", la, <<"At", "Identifier", "annotation_value", "annotations">>),
  annotation_value |->
    Optional("LeftParen", la, <<"LeftParen", "single_expression", "RightParen">>),
  formal_parameter_list |-> <<"LeftParen", "parameters", "RightParen">>,
  parameters |->
    IF la = "RightParen" THEN <<>> ELSE <<"Identifier", "type_annotation", "more_parameters">>,
  more_parameters |->
    Optional("Comma", la, <<"Comma", "Identifier", "type_annotation", "more_parameters">>)]

FunctionRules(la) == [
  function_declaration |->
    <<"annotations", "exported", "Function", "Identifier", "formal_parameter_list",
      "annotated", "block">>,
  exported |-> Optional("Export", la, <<"Export">>)]

\* Mutant of MemberStart: a member with an annotation is not one.
MemberStartPlain == {"Identifier"}
MemberStart == {"Identifier", "At"}

ClassRules(la) == [
  class_declaration |-> <<"Class", "Identifier", "LeftBrace", "class_elements", "RightBrace">>,
  class_elements |->
    IF la = "RightBrace" THEN <<>> ELSE <<"class_element", "class_elements">>,
  class_element |->
    CASE la = "Constructor" -> <<"Constructor", "formal_parameter_list", "block">>
      [] la \in MemberStart -> <<"annotations", "Identifier", "member">>
      [] OTHER -> <<"todo">>,
  member |-> IF la = "LeftParen" THEN <<"formal_parameter_list", "annotated", "block">>
             ELSE <<"type_annotation", "Semi">>]

Groups(la) ==
  {FileRules(la), StatementRules(la), VariableRules(la), SingleRules(la),
   BinaryRules(la), UnaryRules(la), CallRules(la), LiteralRules(la), TypeRules(la),
   FunctionRules(la), ClassRules(la)}

Nodes == [BinaryExpression |-> 3, NewExpression |-> 2, MemberIndexExpression |-> 4,
          UnaryExpression |-> 2, PostfixExpression |-> 2, ArgumentsExpression |-> 2,
          ArgumentsList |-> 2, MemberDotExpression |-> 3, ArrayLiteral |-> 2]

RuleNames == UNION {DOMAIN group : group \in Groups("None")}

\* What each function does next with each lookahead.
Table == [la \in Terminals \cup {"None"} |->
            [rule \in RuleNames |->
               (CHOOSE group \in Groups(la) : rule \in DOMAIN group)[rule]]]

-----------------------------------------------------------------------------
(* The tokenizer's side: any text of the dialect.                          *)

Eofs == {i \in DOMAIN text : text[i] = "Eof"}
FilesRead == Cardinality(Eofs)
LengthOf(t) == Len(t) - Max({0} \cup {i \in DOMAIN t : t[i] = "Eof"})

\* next_token: the files end with an Eof each.
NextToken ==
  /\ lookahead' \in
       IF FilesRead = dialect.files THEN {"None"}
       ELSE {"Eof"} \cup (IF LengthOf(text) < dialect.length /\ Len(errors') <= dialect.errors
                         THEN dialect.tokens ELSE {})
  /\ text' = IF lookahead' = "None" THEN text ELSE Append(text, lookahead')

Init ==
  /\ dialect \in Dialects
  /\ lookahead \in dialect.tokens \cup {"Eof"}
  /\ text = <<lookahead>>
  /\ stack = <<"program">>
  /\ operands = <<>>
  /\ nodes = {}
  /\ errors = <<>>
  /\ recovering = FALSE
  /\ dropped = {}
  /\ files = 0

Parsing == stack # <<>> /\ ~recovering
Doing == Head(stack)

\* A function is called.
Call ==
  /\ Parsing /\ Doing \in RuleNames
  /\ stack' = Table[lookahead][Doing] \o Tail(stack)
  /\ UNCHANGED <<dialect, text, lookahead, operands, nodes, errors, recovering,
                 dropped, files>>

\* Mutant of Held: the span of a token is not kept.
HeldNot(spans, p) == spans

\* consume!, ident! and consume_unchecked! return the span of the token.
Held(spans, p) == Append(spans, [tokens |-> <<p, p>>, span |-> <<p, p>>])

Consume ==
  /\ Parsing /\ Doing = lookahead
  /\ errors' = errors
  /\ NextToken
  /\ stack' = Tail(stack)
  /\ operands' = Held(operands, Len(text))
  /\ UNCHANGED <<dialect, nodes, recovering, dropped, files>>

\* Mutant of NodeSpan: so does any other operator of one operand.
NodeSpanUnary(kind, parts) ==
  LET first == parts[1]
      last == parts[Len(parts)]
  IN  [tokens |-> <<first.tokens[1], last.tokens[2]>>,
       span |-> IF kind \in {"PostfixExpression", "UnaryExpression"}
                THEN <<last.span[1], first.span[2]>>
                ELSE <<first.span[1], last.span[2]>>]

\* The span of a node is the sum of the spans of its first and its last part;
\* an increment or a decrement adds them in the other order.
NodeSpan(kind, parts) ==
  LET first == parts[1]
      last == parts[Len(parts)]
  IN  [tokens |-> <<first.tokens[1], last.tokens[2]>>,
       span |-> IF kind = "PostfixExpression" THEN <<last.span[1], first.span[2]>>
                ELSE <<first.span[1], last.span[2]>>]

Build ==
  /\ Parsing /\ Doing \in DOMAIN Nodes
  /\ LET rest == Len(operands) - Nodes[Doing]
         parts == SubSeq(operands, rest + 1, Len(operands))
         node == NodeSpan(Doing, parts)
     IN  /\ operands' = SubSeq(operands, 1, rest) \o <<node>>
         /\ nodes' = nodes \cup {node @@ [kind |-> Doing, at |-> parts[2].tokens[1]]}
  /\ stack' = Tail(stack)
  /\ UNCHANGED <<dialect, text, lookahead, errors, recovering, dropped, files>>

\* The element of a list, or the comma after it, is put aside.
PutAside ==
  /\ Parsing /\ Doing = "Element"
  /\ operands' = Front(operands)
  /\ stack' = Tail(stack)
  /\ UNCHANGED <<dialect, text, lookahead, nodes, errors, recovering, dropped, files>>

FileDone ==
  /\ Parsing /\ Doing = "File"
  /\ files' = files + 1
  /\ stack' = Tail(stack)
  /\ UNCHANGED <<dialect, text, lookahead, operands, nodes, errors, recovering, dropped>>

\* Mutant of RecoverySet: a closing parenthesis ends the recovery as well.
RecoverySetParen(list) == {"LeftBrace", "RightParen", "Semi", "Return", "Let", "Const"}

RecoverySet(list) ==
  {"LeftBrace", "Semi", "Return", "Let", "Const"} \cup
  (IF list = "statement_list" THEN {"RightBrace"} ELSE {"Export", "Function"})

\* Mutant of Recovered: the end of the input does not end the loop.
RecoveredNever(la, list) == la \in RecoverySet(list)

Recovered(la, list) == la \in RecoverySet(list) \cup {"None"}

\* An error ends every function up to the innermost list, which recovers from
\* it; after a missing semicolon it just goes on.
Mismatch ==
  /\ Parsing /\ Doing \in Terminals \cup {"Literal"}
  /\ lookahead \notin {Doing, "None"}
  /\ errors' = Append(errors, Len(text))
  /\ LET list == Min({i \in DOMAIN stack : stack[i] \in {"source_elements", "statement_list"}})
     IN  /\ recovering' = (Doing # "Semi" /\ ~Recovered(lookahead, stack[list]))
         /\ stack' = SubSeq(stack, list, Len(stack))
  /\ UNCHANGED <<dialect, text, lookahead, operands, nodes, dropped, files>>

Skip ==
  /\ recovering
  /\ errors' = errors
  /\ NextToken
  /\ dropped' = dropped \cup {Len(text)}
  /\ recovering' = ~Recovered(lookahead', Doing)
  /\ UNCHANGED <<dialect, stack, operands, nodes, files>>

Next == Call \/ Consume \/ Build \/ PutAside \/ FileDone \/ Mismatch \/ Skip

Spec == Init /\ [][Next]_vars /\ WF_vars(Next)

\* The ways parse() ends: with a tree, or in a panic.
Done == stack = <<>>
EndOfInput == ~Done /\ lookahead = "None" /\ Doing \in Terminals \cup {"unwrap"}
Unimplemented == ~Done /\ Doing = "todo"
NotANumber == ~Done /\ Doing = "unwrap" /\ lookahead # "None"
-----------------------------------------------------------------------------
Items ==
  RuleNames \cup DOMAIN Nodes \cup Terminals
    \cup {"Literal", "Element", "File", "unwrap", "todo"}

\* Type invariant, with the spans an expression has at hand: one for each part
\* of the node that is built next.
TypeOK ==
  /\ dialect \in Dialects
  /\ Range(text) \subseteq dialect.tokens \cup {"Eof"}
  /\ lookahead \in {Last(text), "None"}
  /\ Range(stack) \subseteq Items
  /\ ~Done /\ Doing \in DOMAIN Nodes => Nodes[Doing] <= Len(operands)
  /\ recovering => lookahead # "None" /\ Doing \in {"source_elements", "statement_list"}
  /\ dropped \subseteq DOMAIN text /\ Range(errors) \subseteq DOMAIN text

FileTexts ==
  {SubSeq(text, p[1] + 1, p[2]) :
     p \in {q \in (Eofs \cup {0}) \X Eofs : q[1] < q[2] /\ Eofs \cap q[1]+1..q[2]-1 = {}}}
LanguageOf(d, commented) ==
  LET sentences == {s \o <<"Eof">> : s \in Sentences(d.tokens, d.length, commented)}
  IN  [sentences |-> sentences, beginnings |-> UNION {Prefixes(s) : s \in sentences}]
Language == [d \in Dialects |-> LanguageOf(d, {})]

\* What is accepted is in the language, and the first error is where no sentence of
\* it goes on.
Recognizes(language) ==
  /\ Done /\ errors = <<>> => FileTexts \subseteq language.sentences
  /\ errors # <<>> =>
       LET start == Max({0} \cup {e \in Eofs : e < errors[1]})
       IN  SubSeq(text, start + 1, errors[1]) \notin language.beginnings

\* The parser accepts nothing but the sentences of its grammar, and reports its
\* first error at the first token that no sentence goes on with: one token of
\* lookahead is enough for every choice it makes.
RecognizesLanguage == Recognizes(Language[dialect])

\* How tightly a token binds as an operator between two expressions: from 1, the
\* loosest, which is =, over [ and the levels to those of * and /.
Binding(t) ==
  CASE t = "Equal" -> 1
    [] t = "LeftBracket" -> 2
    [] OTHER -> 9 - (CHOOSE n \in DOMAIN Levels : t \in OperatorsOf[n])
OperandEnds ==
  Literals \cup {"Identifier", "This", "RightParen", "RightBracket", "PlusPlus", "MinusMinus"}

\* The token at j stands between two expressions, neither of them within the
\* parentheses, brackets or new that open after position i.
Depth(i, j) ==
  Cardinality({k \in i..j : text[k] \in {"LeftParen", "LeftBracket"}})
    - Cardinality({k \in i..j : text[k] \in {"RightParen", "RightBracket"}})
Exposed(i, j) ==
  /\ text[j] \in {"Equal", "LeftBracket"} \cup BinaryOperators
  /\ j > i /\ text[j - 1] \in OperandEnds
  /\ Depth(i, j - 1) = 0
  /\ \A k \in i..j : text[k] = "New" => Depth(i, k) > 0

\* The tree of an expression follows the levels the comment above
\* single_expression lists (lib.rs:419): within what an operator applies to, no
\* operator binds less tightly, and none to the right of it just as tightly.
PrecedenceRespected ==
  \A n \in nodes :
    n.kind \in {"BinaryExpression", "MemberIndexExpression"} =>
      \A j \in n.tokens[1]..n.tokens[2] :
        Exposed(n.tokens[1], j) =>
          /\ Binding(text[j]) >= Binding(text[n.at])
          /\ j > n.at => Binding(text[j]) > Binding(text[n.at])

\* However often the parser stumbles, it never reports more than two errors at
\* one token: a missing semicolon before it, and that nothing starts with it.
ErrorsBounded ==
  \A i \in DOMAIN text : Cardinality({k \in DOMAIN errors : errors[k] = i}) <= 2

\* Recovery drops the end of a file like any other token.  That merges the file
\* with the next one, and if it is the last one, and only then, the parser
\* panics for want of input instead of reporting its errors; it gives up on an
\* input for no other reason but a class member it does not know and an integer
\* out of range.
EndsExplained ==
  /\ Done => files + Cardinality(dropped \cap Eofs) = dialect.files
  /\ EndOfInput => errors # <<>>
  /\ (Done \/ EndOfInput) /\ lookahead = "None" => (EndOfInput <=> Len(text) \in dropped)
  /\ Unimplemented => lookahead \notin {"Constructor", "Identifier", "At", "RightBrace"}
  /\ NotANumber => text[Len(text) - 1] = "IntegerTooLarge"

\* Every input is parsed to its end, or makes the parser panic: no recovery
\* stops at a token that the list it returns to cannot get past.
Parsed == <>(Done \/ EndOfInput \/ Unimplemented \/ NotANumber)

\* The span of an expression begins at its first token and ends at its last (the sum
\* of spans "encompases both spans", span.rs:69), but for what begins or ends with
\* an operand of ++ or --: it begins at that operator, or ends before it, for x++
\* itself begins behind its end.
SpansExplained ==
  \A n \in nodes :
    LET postfix == {m \in nodes : /\ m.kind = "PostfixExpression"
                                  /\ m.tokens[1] >= n.tokens[1]
                                  /\ m.tokens[2] <= n.tokens[2]}
    IN  /\ n.span[1] = Max({n.tokens[1]}
                            \cup {m.tokens[2] : m \in {p \in postfix : p.tokens[1] = n.tokens[1]}})
        /\ n.span[2] = IF \E m \in postfix : m.tokens[2] = n.tokens[2]
                       THEN n.tokens[2] - 1 ELSE n.tokens[2]
=============================================================================
