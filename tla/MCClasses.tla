------------------------------ MODULE MCClasses ------------------------------
(* Codegen for TLC, programs with classes: those that begin with one of Texts  *)
(* and go on with at most two declarations or statements.  The variable f is   *)
(* there because semantic analysis rejects this.f unless f is declared, which  *)
(* the first text shows.                                                      *)
EXTENDS Translation

LetF == At(1, Variable("f", Nothing))
ClassC == <<LetF, At(1, Class("C")), At(2, Field("f"))>>
Stored == At(3, Expression(Assignment(Dot(This, Id("f")), Id("x"))))
Texts ==
  {Tail(ClassC) \o <<At(2, Constructor(<<"x">>)), Stored, At(1, Function("main", <<>>))>>,
   ClassC \o <<At(2, Constructor(<<"x">>)), Stored>>,
   ClassC \o <<At(2, Constructor(<<>>)), At(1, Class("C"))>>,
   ClassC \o <<At(2, Method("f", <<"x">>)), At(1, Class("x"))>>,
   ClassC \o <<At(2, Field("x")), At(2, Method("f", <<>>))>>,
   <<LetF, At(1, Class("C")), At(2, Field("x")), At(2, Field("f")),
     At(2, Constructor(<<"x">>))>>,
   ClassC \o <<At(2, Constructor(<<>>)), At(1, Function("main", <<"x">>))>>,
   <<LetF, At(1, Class("C")), At(1, Class("x")), At(2, Method("f", <<>>)),
     At(1, Function("main", <<>>))>>}

SomeNames == {"C", "f", "x", "y", "main"}

ThisF == Dot(This, Id("f"))
Stated ==
  {ThisF, Assignment(ThisF, Id("x")), Assignment(ThisF, ThisF), Call(ThisF, <<Id("f")>>),
   Assignment(Dot(This, Text), Nothing), Call(Id("f"), <<>>), Id("C"), This, Text,
   Call(This, <<Id("y")>>), Assignment(This, Id("x")),
   Array(<<Id("y")>>), Index(ThisF, Id("x")), Assignment(Index(Id("f"), Nothing), Id("x")),
   New(Id("C")), New(Call(Id("C"), <<Id("x")>>)),
   New(Call(Id("C"), <<New(Call(Id("x"), <<>>))>>)),
   New(Call(Id("C"), <<Call(Id("y"), <<Id("y")>>)>>))}
Words ==
  {Class("C"), Class("x"), Field("f"), Field("x"), Method("f", <<"x">>), Method("f", <<>>),
   Constructor(<<"x">>), Constructor(<<>>), Function("main", <<"x">>), Function("main", <<>>),
   Variable("f", Nothing), Variable("x", New(Call(Id("C"), <<>>))), Block}
    \cup {Expression(e) : e \in Stated}
=============================================================================
