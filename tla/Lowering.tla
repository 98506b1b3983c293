------------------------------ MODULE Lowering ------------------------------
(***************************************************************************)
(* Lowering, between semantic analysis and code generation                  *)
(* (jswt-hir-lowering, jswt-mir-lowering, jswt-synthetic, on the walks of   *)
(* jswt-ast/src/transform.rs).  The first pass turns classes into           *)
(* functions, this.x into loads and stores and new into calls, with the     *)
(* bindings of the global pass; the second turns this into an identifier.   *)
(* Each is one step, as nothing else sees a half lowered tree.  Between the  *)
(* two the tree is printed for a debug file (jswt-ast-serializer).          *)
(*                                                                         *)
(* transform.rs also wraps top-level statements in blocks and flattens      *)
(* blocks into the list around them.  The generator opens no scope for a    *)
(* block, so that neither changes what it does, and both are left out.      *)
(*                                                                         *)
(* What the passes make of an expression is left to constants, which Walks  *)
(* gives their values: walks of the tree, and nothing here depends on them. *)
(***************************************************************************)
EXTENDS Semantics

CONSTANTS Qualified(_, _),  \* the function a member of a class becomes
          Has(_, _),        \* an expression has a part that is an op
          ClassLowered(_, _, _), \* HirClassLoweringContext: expression, class, its binding
          NewLowered(_, _), \* HirNewLoweringContext: expression, classes
          MirLowered(_)     \* MirLoweringContext

\* No identifier has the # that joins the two.
ASSUME QualifiedAssumption ==
  \A c, d \in Names : \A m, n \in Names \cup {"constructor"} :
    /\ Qualified(c, m) \notin Names
    /\ Qualified(c, m) = Qualified(d, n) => c = d /\ m = n

\* All that the bindings of a class can be.
NamesOf(kind) == {s.name : s \in {v \in Vocabulary : v.kind = kind}}
ClassBindings ==
  LET lists(S) == UNION {[1..n -> S] : n \in 0..MaxLength}
  IN  [fields : lists(NamesOf("field")), methods : lists(NamesOf("method"))]

VARIABLE source   \* the Ast that was analysed; program is the one lowered from it

\* What an expect or unwrap of the lowering turns the tree into.
Panic == Expr("panic", "none", <<>>)

\* An integer, the size of an object or the offset of a field.
Literal(n) == [Expr("literal", "none", <<>>) EXCEPT !.value = n]

FunctionCall(f, es) == Call(Id(f), es)
Size(binding) == 4 * Len(binding.fields)

\* Mutant of Offset: fields are counted from one.
OffsetFromOne(binding, x) == 4 * SelectInSeq(binding.fields, LAMBDA y : y = x)

Offset(binding, x) == 4 * (SelectInSeq(binding.fields, LAMBDA y : y = x) - 1)

-----------------------------------------------------------------------------
(* Declarations and statements.                                              *)

\* Mutant of MethodParams: the object is not passed.
MethodParamsPlain(ps) == ps

MethodParams(ps) == <<"this">> \o ps

\* Mutant of MethodName: the class is forgotten.
MethodNamePlain(c, m) == m

MethodName(c, m) == Qualified(c, m)

\* The lines line i of the tree becomes.
LoweredLines(i) ==
  LET line == program[i]
      s == line.node
      k == ClassOf(program, i)
      c == program[k].node.name
  IN  CASE s.kind \in {"class", "field"} -> <<>>
        [] s.kind = "constructor" ->
             <<At(1, Function(Qualified(c, "constructor"), s.params)),
               At(2, Variable("this", FunctionCall("malloc", <<Literal(Size(bindings[c]))>>)))>>
        [] s.kind = "method" -> <<At(1, Function(MethodName(c, s.name), MethodParams(s.params)))>>
        [] OTHER ->
             IF k # 0
               THEN <<At(line.depth - 1, [s EXCEPT !.expr = ClassLowered(@, c, bindings[c])])>>
               ELSE <<At(line.depth, [s EXCEPT !.expr = NewLowered(@, DOMAIN bindings)])>>

\* The object is returned where the body of its constructor ends, before line i.
Returned(i) ==
  IF \E k \in 1..i-1 : /\ program[k].node.kind = "constructor"
                       /\ Within(program, i - 1, k) \/ k = i - 1
                       /\ i > Len(program) \/ ~Within(program, i, k)
    THEN <<At(2, Expression(Id("this")))>> ELSE <<>>

SourceInit == source = <<>>

\* HirLoweringContext::lower.
HirLower ==
  /\ phase = "accepted"
  /\ LET lowered == FlattenSeq([i \in 1..Len(program) |-> Returned(i) \o LoweredLines(i)])
                      \o Returned(Len(program) + 1)
         panics == \E i \in DOMAIN lowered : Has(lowered[i].node.expr, "panic")
     IN  /\ program' = IF panics THEN program ELSE lowered
         /\ phase' = IF panics THEN "panicked" ELSE "hir"
  /\ source' = program
  /\ UNCHANGED <<next, open, scopes, table, bindings, errors>>

Printable(e) == ~Has(e, "array")

\* AstSerializer::serialze, which has a todo!() for arrays.
Serialize ==
  /\ phase = "hir"
  /\ phase' = IF \A i \in DOMAIN program : Printable(program[i].node.expr)
              THEN "printed" ELSE "panicked"
  /\ UNCHANGED <<source, program, next, open, scopes, table, bindings, errors>>

\* MirLoweringContext::lower.
MirLower ==
  /\ phase = "printed"
  /\ program' = [i \in DOMAIN program |-> [program[i] EXCEPT !.node.expr = MirLowered(@)]]
  /\ phase' = "lowered"
  /\ UNCHANGED <<source, next, open, scopes, table, bindings, errors>>

Lower == HirLower \/ Serialize \/ MirLower
=============================================================================
