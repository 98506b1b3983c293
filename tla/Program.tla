------------------------------- MODULE Program -------------------------------
(***************************************************************************)
(* Programs as the passes of the compiler see them (jswt-ast/src/lib.rs,    *)
(* statement.rs, expression.rs): a tree the visitors walk in the order of   *)
(* the text.  A program is written here as the sequence of its classes,     *)
(* their members, its functions and its statements, each with its depth:    *)
(* what follows a class, a function, a block or a branch at a greater depth *)
(* is its body.  A branch is an if or a while whose body is a block, or the  *)
(* block of an else, with Nothing for its condition.  An if or an else may   *)
(* have another statement for its body: no pass opens a scope of names for   *)
(* that, so it is written as the condition and the statement after it.       *)
(*                                                                         *)
(* An expression is a tree as well (expression.rs), of which only the kinds *)
(* some pass treats apart are told apart.                                   *)
(***************************************************************************)
EXTENDS Naturals, Sequences, FiniteSets, SequencesExt, FiniteSetsExt

CONSTANTS Names,       \* the identifiers a program may use
          Mentions(_), \* the identifiers a visitor meets in an expression
          News(_),     \* the classes after a new in it, "malformed" for what is no class
          Vocabulary,  \* bound: the declarations and statements it is made of
          Beginnings,  \* bound: how it begins, <<>> for every program
          MaxLength,   \* bound: how many of them it has
          MaxDepth     \* bound: how deep they nest

\* SingleExpression.  A sum stands for any expression that only computes, a
\* text for the literals and operators no instruction is generated for.
Expr(op, x, es) == [op |-> op, name |-> x, value |-> 0, args |-> es]
Id(x) == Expr("identifier", x, <<>>)
This == Expr("this", "none", <<>>)
Text == Expr("text", "none", <<>>)
Sum(es) == Expr("sum", "none", es)
Array(es) == Expr("array", "none", es)
Dot(e, f) == Expr("dot", "none", <<e, f>>)
Index(e, i) == Expr("index", "none", <<e, i>>)
Call(f, es) == Expr("call", "none", <<f>> \o es)
New(e) == Expr("new", "none", <<e>>)
Assignment(e, f) == Expr("assignment", "none", <<e, f>>)

Node(kind, x, ps, e) == [kind |-> kind, name |-> x, params |-> ps, expr |-> e]
Nothing == Sum(<<>>)
Function(f, ps) == Node("function", f, ps, Nothing)
Class(c) == Node("class", c, <<>>, Nothing)
Field(x) == Node("field", x, <<>>, Nothing)
Constructor(ps) == Node("constructor", "none", ps, Nothing)
Method(m, ps) == Node("method", m, ps, Nothing)
Block == Node("block", "none", <<>>, Nothing)
Variable(x, e) == Node("variable", x, <<>>, e)
Expression(e) == Node("expression", "none", <<>>, e)
Branch(e) == Node("branch", "none", <<>>, e)

Members == {"field", "constructor", "method"}
Functions == {"function", "constructor", "method"}
HasBody(s) == s.kind \in Functions \cup {"class", "block", "branch"}

At(depth, s) == [depth |-> depth, node |-> s]

\* What may follow the text p: a function or a class only as a source element,
\* a member of a class, and nothing else, in a class.
Continuations(p) ==
  LET deepest == IF p = <<>> THEN 1
                 ELSE Last(p).depth + (IF HasBody(Last(p).node) THEN 1 ELSE 0)
      InClass(d) == d > 1 /\ LET parent == Max({i \in DOMAIN p : p[i].depth = d - 1})
                             IN  p[parent].node.kind = "class"
      Fits(d, s) ==
        CASE s.kind \in {"function", "class"} -> d = 1
          [] s.kind \in Members -> InClass(d)
          [] OTHER -> ~InClass(d)
  IN  UNION {{At(d, s) : s \in {v \in Vocabulary : Fits(d, v)}} :
               d \in 1..Min({deepest, MaxDepth})}

\* A text, each line of which may follow those before it.
Tree(p) ==
  /\ p \in Seq([depth : 1..MaxDepth, node : Vocabulary])
  /\ \A i \in 1..Len(p) : p[i] \in Continuations(SubSeq(p, 1, i - 1))

\* Only functions and members have parameters, and an expression is in a
\* variable, a statement that is one, or the condition of a branch.
ASSUME ProgramAssumption ==
  /\ MaxLength \in Nat /\ MaxDepth \in Nat \ {0}
  /\ {"none", "this", "constructor", "malformed"} \cap Names = {}
  /\ \A s \in Vocabulary :
       /\ s = Node(s.kind, s.name, s.params, s.expr)
       /\ s.kind \in Members \cup Functions
                       \cup {"class", "variable", "expression", "block", "branch"}
       /\ s.name \in Names \cup {"none"}
       /\ s.kind \in {"function", "class", "variable", "field", "method"} => s.name \in Names
       /\ s.kind = "constructor" => s.name = "none"
       /\ s.params \in Seq(Names)
       /\ s.kind \notin Functions => s.params = <<>>
       /\ Mentions(s.expr) \subseteq Names
       /\ News(s.expr) \subseteq Names \cup {"malformed"}
       /\ s.kind \notin {"variable", "expression", "branch"} =>
            s.expr = Nothing /\ Mentions(s.expr) = {} /\ News(s.expr) = {}
  /\ \A p \in Beginnings : Tree(p) /\ Len(p) <= MaxLength

-----------------------------------------------------------------------------
(* The reference the passes are checked against: what the tree itself says. *)

\* The body of statement b contains statement i; the program is body 0.
Within(p, i, b) ==
  \/ b = 0
  \/ /\ b < i
     /\ HasBody(p[b].node)
     /\ \A j \in b+1..i : p[j].depth > p[b].depth

\* The declarations of a program: what is declared, by which statement, and in
\* which body.  The name of a function or a class belongs to the program, the
\* parameters to the body, a variable to the innermost body around it.
Innermost(p, i) ==
  Max({b \in 0..i-1 : Within(p, i, b)})
Declarations(p) ==
  LET declaration(x, i, k, b) == [name |-> x, at |-> i, index |-> k, body |-> b]
      names(i) ==
        LET s == p[i].node
        IN  {declaration(s.params[k], i, k, i) : k \in DOMAIN s.params}
              \cup (IF s.kind \in {"function", "class"}
                    THEN {declaration(s.name, i, 0, 0)} ELSE {})
              \cup (IF s.kind = "variable"
                    THEN {declaration(s.name, i, 0, Innermost(p, i))} ELSE {})
  IN  UNION {names(i) : i \in DOMAIN p}

\* d is in scope at statement i: what the program itself declares is in scope
\* everywhere, what a body declares from there to the end of the body.
InScope(p, d, i) == d.body = 0 \/ (d.at <= i /\ (d.body = i \/ Within(p, i, d.body)))

\* The function, constructor or method whose body contains statement i, and the
\* class, 0 if there is none.
FunctionOf(p, i) ==
  Max({0} \cup {f \in 1..i-1 : p[f].node.kind \in Functions /\ Within(p, i, f)})
ClassOf(p, i) ==
  Max({0} \cup {c \in 1..i-1 : p[c].node.kind = "class" /\ Within(p, i, c)})
=============================================================================
