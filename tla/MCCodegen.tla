------------------------------ MODULE MCCodegen ------------------------------
(* Codegen for TLC: every program of at most MaxLength functions and          *)
(* statements over three identifiers, with few expressions.                   *)
EXTENDS Translation

SomeNames == {"a", "b", "f"}
Everything == {<<>>}
Words ==
  {Function("f", <<>>), Function("f", <<"a">>), Function("a", <<"b">>)}
    \cup {Variable("a", Nothing), Variable("b", Nothing), Variable("b", Id("a"))}
    \cup {Expression(Id("b")), Expression(Assignment(Id("a"), Nothing)),
          Expression(Call(Id("f"), <<>>)), Expression(Assignment(Index(Id("a"), Nothing), Id("b")))}
    \cup {Block, Branch(Nothing)}
=============================================================================
