----------------------------- MODULE MCSemantics -----------------------------
(* Semantics for TLC: every program of at most MaxLength declarations and     *)
(* statements over three identifiers, two of them interchangeable.            *)
EXTENDS Semantics, Expressions

CONSTANTS a, b, f

SomeNames == {a, b, f}
Interchangeable == Permutations({a, b})
Everything == {<<>>}
Words ==
  {Function(f, ps) : ps \in {<<a, a>>, <<b, b>>}}
    \cup {Function(a, <<b>>), Function(b, <<a>>)}
    \cup {Class(a), Class(b), Field(f), Method(f, <<>>)}
    \cup {Constructor(<<x>>) : x \in {a, b}}
    \cup {Variable(x, Nothing) : x \in {a, b}}
    \cup {Variable(a, Id(b)), Variable(b, Id(a))}
    \cup {Expression(e) : e \in {Id(a), Id(b), New(Text)}}
    \cup {Block, Branch(Nothing)}
=============================================================================
