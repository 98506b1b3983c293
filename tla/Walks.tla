-------------------------------- MODULE Walks --------------------------------
(***************************************************************************)
(* What the passes after semantic analysis make of an expression, as walks  *)
(* of the tree: the constants of Lowering and Codegen.                      *)
(***************************************************************************)
EXTENDS Lowering, Expressions

RECURSIVE HasIn(_, _)
HasIn(e, op) == e.op = op \/ \E i \in DOMAIN e.args : HasIn(e.args[i], op)

-----------------------------------------------------------------------------
(* jswt-synthetic, and ClassBinding::field and method.                       *)

QualifiedName(c, m) == c \o "#" \o m

HasField(binding, x) == x \in Range(binding.fields)
HasMethod(binding, x) == x \in Range(binding.methods)

FieldAddress(binding, x) == Sum(<<Id("this"), Literal(Offset(binding, x))>>)

-----------------------------------------------------------------------------
(* Expressions.  A visitor rebuilds what it does not treat from its parts.   *)

OnThis(e) == e.op = "dot" /\ e.args[1].op = "this"
Member(e) == e.args[2]
IsName(e) == e.op = "identifier"
Arguments(e) == Tail(e.args)

\* HirClassLoweringContext, in the members of class c.  The value stored in a
\* field is taken as it is, and new is walked into like anything else.  An array
\* is a literal and copied with its elements.
RECURSIVE InClass(_, _, _)
InClass(e, c, binding) ==
  LET parts == [i \in DOMAIN e.args |-> InClass(e.args[i], c, binding)]
      x == Member(e.args[1]).name
  IN  CASE e.op = "assignment" /\ OnThis(e.args[1]) ->
             IF IsName(Member(e.args[1])) /\ HasField(binding, x)
               THEN FunctionCall("i32Store", <<FieldAddress(binding, x), e.args[2]>>)
               ELSE Panic
        [] e.op = "call" /\ OnThis(e.args[1]) ->
             IF IsName(Member(e.args[1])) /\ HasMethod(binding, x)
               THEN FunctionCall(Qualified(c, x), <<Id("this")>> \o Tail(parts))
               ELSE Panic
        [] OnThis(e) /\ IsName(Member(e)) ->
             IF HasField(binding, Member(e).name)
               THEN FunctionCall("i32Load", <<FieldAddress(binding, Member(e).name)>>)
               ELSE Panic
        [] e.op = "array" -> e
        [] OTHER -> [e EXCEPT !.args = parts]

\* HirNewLoweringContext, everywhere else.
RECURSIVE Outside(_, _)
Outside(e, classes) ==
  LET call == e.args[1]
      arguments == [i \in DOMAIN Arguments(call) |-> Outside(Arguments(call)[i], classes)]
  IN  CASE e.op = "array" -> e
        [] e.op = "new" ->
             IF IsCallOfName(call) /\ call.args[1].name \in classes
               THEN FunctionCall(Qualified(call.args[1].name, "constructor"), arguments)
               ELSE Panic
        [] OTHER -> [e EXCEPT !.args = [i \in DOMAIN @ |-> Outside(@[i], classes)]]

\* MirLoweringContext.
RECURSIVE Mir(_)
Mir(e) == IF e.op = "this" THEN Id("this")
          ELSE [e EXCEPT !.args = [i \in DOMAIN @ |-> Mir(@[i])]]

-----------------------------------------------------------------------------
(* The generator.                                                            *)

\* What there is an instruction for: an expression of anything else is todo!().
IsTarget(e) == IsName(e) \/ e.op = "index"    \* of an assignment
RECURSIVE GeneratesIn(_)
GeneratesIn(e) ==
  CASE e.op \in {"text", "dot", "new", "this"} -> FALSE
    [] e.op = "call" /\ ~IsName(e.args[1]) -> FALSE
    [] e.op = "assignment" /\ ~IsTarget(e.args[1]) -> FALSE
    [] OTHER -> \A i \in DOMAIN e.args : GeneratesIn(e.args[i])

\* The identifiers an expression gets or sets, and the functions it calls: an
\* element of an array is found, and stored to, by a call of arrayAt.
RECURSIVE AccessedIn(_)
AccessedIn(e) ==
  IF IsName(e) THEN {e.name}
  ELSE UNION {AccessedIn(e.args[i]) : i \in {j \in DOMAIN e.args : e.op = "call" => j > 1}}
RECURSIVE CalledIn(_)
CalledIn(e) ==
  (CASE e.op = "call" -> {e.args[1].name}
     [] e.op = "index" -> {"arrayAt"}
     [] OTHER -> {})
    \cup UNION {CalledIn(e.args[i]) : i \in DOMAIN e.args}
=============================================================================
