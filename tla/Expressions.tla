----------------------------- MODULE Expressions -----------------------------
(***************************************************************************)
(* What the visitors of semantic analysis collect from an expression        *)
(* (jswt-ast/src/visit.rs): the Mentions and News of Program, as walks of   *)
(* the tree.                                                                *)
(***************************************************************************)
EXTENDS Program

\* The identifiers a visitor meets in an expression.  What is after new is not
\* walked: of it, only the class is looked at, if there is a call of a name.  Nor
\* are the elements of an array.
RECURSIVE MentionedIn(_)
MentionedIn(e) ==
  CASE e.op = "identifier" -> {e.name}
    [] e.op \in {"new", "array"} -> {}
    [] OTHER -> UNION {MentionedIn(e.args[i]) : i \in DOMAIN e.args}

IsCallOfName(e) == e.op = "call" /\ e.args[1].op = "identifier"

RECURSIVE NewsIn(_)
NewsIn(e) ==
  CASE e.op = "new" ->
         {IF IsCallOfName(e.args[1]) THEN e.args[1].args[1].name ELSE "malformed"}
    [] e.op = "array" -> {}
    [] OTHER -> UNION {NewsIn(e.args[i]) : i \in DOMAIN e.args}
=============================================================================
