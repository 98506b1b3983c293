----------------------------- MODULE Translation -----------------------------
(***************************************************************************)
(* What there is in the expressions of the source, and of the module made   *)
(* of it, that decides what becomes of them: constants of Codegen.          *)
(***************************************************************************)
EXTENDS Codegen, Walks

\* The expressions in e; x.y as the target of a call or an assignment is part of
\* that, when x is this.
RECURSIVE Parts(_)
Parts(e) ==
  {e} \cup UNION {Parts(e.args[i]) :
                   i \in {j \in DOMAIN e.args :
                          ~(j = 1 /\ e.op \in {"call", "assignment"} /\ OnThis(e.args[1]))}}
PartsOf(e, op) == {d \in Parts(e) : d.op = op}

\* The names in what is after new.
UnseenIn(e) ==
  {d.name : d \in {x \in UNION {Parts(c) : c \in PartsOf(e, "new")} : IsName(x)}}

NameOf(e) == IF IsName(e) THEN e.name ELSE "malformed"
CreatedIn(e) ==
  {IF IsCallOfName(d.args[1]) THEN d.args[1].args[1].name ELSE "malformed" : d \in PartsOf(e, "new")}
TargetsOnThis(e, op) ==
  {NameOf(Member(d.args[1])) : d \in {x \in PartsOf(e, op) : OnThis(x.args[1])}}
FieldsUsedIn(e) ==
  TargetsOnThis(e, "assignment")
    \cup {Member(d).name : d \in {x \in Parts(e) : OnThis(x) /\ IsName(Member(x))}}
MethodsUsedIn(e) == TargetsOnThis(e, "call")

\* Of what no pass translates: new in a class; x.y, unless x is this and in a class,
\* but not in what is assigned to a field; a call of anything but a name,
\* this or a member of this, an assignment to anything but those or an element of an
\* array; texts.
ForeignIn(expr, class) ==
  \E e \in Parts(expr) :
    \/ e.op = "text"
    \/ e.op = "new" /\ class
    \/ e.op = "dot" /\ ~(class /\ OnThis(e) /\ IsName(Member(e)))
    \/ /\ e.op \in {"call", "assignment"}
       /\ ~IsName(e.args[1]) /\ e.args[1].op # "this" /\ ~(class /\ OnThis(e.args[1]))
       /\ ~(e.op = "assignment" /\ e.args[1].op = "index")
    \/ /\ class /\ e.op = "assignment" /\ OnThis(e.args[1])
       /\ Has(e.args[2], "dot")

OffsetsIn(e) ==
  {d.args[2].args[2].value :
     d \in {x \in PartsOf(e, "call") : x.args[1].name \in {"i32Load", "i32Store"}}}
=============================================================================
