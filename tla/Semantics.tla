------------------------------ MODULE Semantics ------------------------------
(***************************************************************************)
(* The two passes of semantic analysis over a program: the global pass      *)
(* declares functions, classes and top-level variables, the local pass      *)
(* walks into bodies and resolves every identifier (jswt-semantics/src/globals and     *)
(* locals), both on the table of jswt-symbols/src/tables.rs, which keeps    *)
(* the scopes it has left.  compile_module (jswt-compiler/src/main.rs) runs *)
(* one after the other and stops after the first that has errors.           *)
(*                                                                         *)
(* A step visits one declaration or statement, or leaves a body.  The key   *)
(* of a scope, the span of its block, is here the index of the statement    *)
(* with the body; 0 is the global scope.  Parse errors are left out.        *)
(***************************************************************************)
EXTENDS Program

VARIABLES program,   \* the Ast
          phase,     \* where compile_module is
          next,      \* the statement to visit next
          open,      \* the bodies being walked (the visitor's own stack)
          scopes,    \* ScopedSymbolTable.scopes
          table,     \* ScopedSymbolTable.table: key -> names defined
          bindings,  \* BindingsTable: class -> its fields and methods, in order
          errors     \* the SemanticErrors of the pass

semVars == <<program, phase, next, open, scopes, table, bindings, errors>>

Visited == program[next].node
Visiting == next <= Len(program)

\* Walking depth first: into the next statement of the body that is walked, or
\* out of the body when it has no more.
AtBody == Visiting /\ program[next].depth = Len(open) + 1
AtEnd == open # <<>> /\ (Visiting => program[next].depth <= Len(open))

-----------------------------------------------------------------------------
(* ScopedSymbolTable: operations on a stack of keys and a table of scopes.   *)

\* HashMap::insert.
With(key, value, t) == [k \in DOMAIN t \cup {key} |-> IF k = key THEN value ELSE t[k]]

\* Mutant of Scoped: a scope that is entered again starts empty.
ScopedAnew(key, t) == With(key, {}, t)

\* push_scope keeps what an earlier visit of the same scope defined.
Scoped(key, t) == IF key \in DOMAIN t THEN t ELSE With(key, {}, t)
Defined(x, key, t) == [t EXCEPT ![key] = @ \cup {x}]

\* Mutant of Lookup: only the innermost scope is searched.
LookupTop(x, keys, t) == x \in t[Last(keys)]

\* lookup searches every scope on the stack, lookup_current the innermost.
Lookup(x, keys, t) == \E i \in DOMAIN keys : x \in t[keys[i]]
LookupCurrent(x, keys, t) == x \in t[Last(keys)]

ErrorAt(i, kind, x) == [kind |-> kind, at |-> i, name |-> x]
Error(kind, x) == ErrorAt(next, kind, x)

-----------------------------------------------------------------------------
SemInit ==
  /\ program \in Beginnings
  /\ phase = "parse"
  /\ next = 1
  /\ open = <<>>
  /\ scopes = <<>>
  /\ table = <<>>
  /\ bindings = <<>>
  /\ errors = {}

\* The parser adds a declaration or a statement to the tree.
Parse ==
  /\ phase = "parse"
  /\ Len(program) < MaxLength
  /\ \E s \in Continuations(program) : program' = Append(program, s)
  /\ UNCHANGED <<phase, next, open, scopes, table, bindings, errors>>

\* GlobalSemanticResolver::resolve starts with the program's own scope.
Parsed ==
  /\ phase = "parse"
  /\ phase' = "global"
  /\ scopes' = Append(scopes, 0)
  /\ table' = Scoped(0, table)
  /\ UNCHANGED <<program, next, open, bindings, errors>>

(* The global pass. *)

\* Mutant of AfterBody: the body is visited next.
AfterBodyInto == next + 1

\* The statement after the body of the function or class being visited.
AfterBody ==
  Min({j \in next+1..Len(program) : program[j].depth = 1} \cup {Len(program) + 1})

\* A name that the current scope has already is an error, and defined again.
Declare(kind, x) ==
  /\ errors' = IF LookupCurrent(x, scopes, table) THEN errors \cup {Error(kind, x)}
               ELSE errors
  /\ table' = Defined(x, Last(scopes), table)

\* The body of a function is not walked.
GlobalFunction ==
  /\ phase = "global" /\ Visiting
  /\ Visited.kind = "function"
  /\ Declare("FunctionAlreadyDefined", Visited.name)
  /\ next' = AfterBody
  /\ UNCHANGED <<program, phase, open, scopes, bindings>>

\* Mutant of Bind: what the class declared before stays.
BindFirst(c, binding) ==
  bindings' = IF c \in DOMAIN bindings THEN bindings ELSE With(c, binding, bindings)

\* BindingsTable::insert: the class declared last is the class of that name.
Bind(c, binding) == bindings' = With(c, binding, bindings)

\* Members of the same kind and name.
Alike(h, j) == /\ program[h].node.kind = program[j].node.kind
               /\ program[h].node.name = program[j].node.name

\* The names of the members of a kind from line i to line k, in their order.
MembersOf(kind, i, k) ==
  FlattenSeq([j \in 1..k |-> IF j > i /\ program[j].node.kind = kind
                             THEN <<program[j].node.name>> ELSE <<>>])

\* A class is visited whole, for its fields and methods; its name is taken
\* without asking whether something else has it.
GlobalClass ==
  /\ phase = "global" /\ Visiting
  /\ Visited.kind = "class"
  /\ LET c == Visited.name
         body == next+1..AfterBody-1
         namesOf(kind) == MembersOf(kind, next, AfterBody - 1)
         again(kind, error) ==
           {ErrorAt(i, error, program[i].node.name) :
              i \in {j \in body : /\ program[j].node.kind = kind
                                  /\ \E h \in body : h < j /\ Alike(h, j)}}
     IN  /\ Bind(c, [fields |-> namesOf("field"), methods |-> namesOf("method")])
         /\ table' = Defined(c, Last(scopes), table)
         /\ errors' = errors \cup again("field", "FieldAlreadyDefined")
                             \cup again("method", "MethodAlreadyDefined")
  /\ next' = AfterBody
  /\ UNCHANGED <<program, phase, open, scopes>>

\* Blocks and branches are walked, and open no scope: their variables are
\* declared here as well.
GlobalVariable ==
  /\ phase = "global" /\ Visiting
  /\ Visited.kind = "variable"
  /\ Declare("VariableAlreadyDefined", Visited.name)
  /\ next' = next + 1
  /\ UNCHANGED <<program, phase, open, scopes, bindings>>

GlobalOther ==
  /\ phase = "global" /\ Visiting
  /\ Visited.kind \notin {"function", "class", "variable"}
  /\ next' = next + 1
  /\ UNCHANGED <<program, phase, open, scopes, table, bindings, errors>>

GlobalDone ==
  /\ phase = "global" /\ ~Visiting
  /\ phase' = IF errors = {} THEN "local" ELSE "rejected"
  /\ next' = 1
  /\ UNCHANGED <<program, open, scopes, table, bindings, errors>>

(* The local pass. *)

\* NewExpressionLocalContext unwraps a new that is no call of a class by name.
Unwraps == "malformed" \in News(Visited.expr)

\* IdentifierExpressionLocalContext and NewExpressionLocalContext: identifiers no
\* scope on the stack has, and classes without a binding.
Unresolved(t) ==
  {Error("VariableNotDefined", x) :
     x \in {y \in Mentions(Visited.expr) : ~Lookup(y, scopes, t)}}
  \cup {Error("ClassNotDefined", c) : c \in News(Visited.expr) \ DOMAIN bindings}

\* Outside the global scope a variable is declared, and before its initializer
\* is visited.
LocalVariable ==
  /\ phase = "local" /\ AtBody
  /\ Visited.kind = "variable" /\ ~Unwraps
  /\ LET x == Visited.name
         isLocal == Len(scopes) > 1
         collides == isLocal /\ Lookup(x, scopes, table)
     IN  /\ table' = IF isLocal THEN Defined(x, Last(scopes), table) ELSE table
         /\ errors' = errors \cup Unresolved(table')
              \cup (IF collides THEN {Error("VariableAlreadyDefined", x)} ELSE {})
  /\ next' = next + 1
  /\ UNCHANGED <<program, phase, open, scopes, bindings>>

\* A field is passed by.
LocalExpression ==
  /\ phase = "local" /\ AtBody
  /\ Visited.kind \in {"expression", "field"} /\ ~Unwraps
  /\ errors' = errors \cup Unresolved(table)
  /\ next' = next + 1
  /\ UNCHANGED <<program, phase, open, scopes, table, bindings>>

LocalUnwrap ==
  /\ phase = "local" /\ AtBody
  /\ Unwraps
  /\ phase' = "panicked"
  /\ UNCHANGED <<program, next, open, scopes, table, bindings, errors>>

\* Declaring the first k parameters of body i in order, in the scope of the body
\* (on top of keys); those that are in scope already are reported.
WithParams(i, k, t) ==
  LET fresh == Scoped(i, t)
  IN  [fresh EXCEPT ![i] = @ \cup Range(SubSeq(program[i].node.params, 1, k))]
ParamsTaken(i, keys, t) ==
  LET ps == program[i].node.params
  IN  {ErrorAt(i, "VariableAlreadyDefined", ps[k]) :
         k \in {j \in DOMAIN ps : Lookup(ps[j], Append(keys, i), WithParams(i, j - 1, t))}}

\* FunctionsLocalContext pushes the scope of the body to declare the parameters
\* and pops it; the body, walked next, pushes the same key again.
LocalFunction ==
  /\ phase = "local" /\ AtBody
  /\ Visited.kind = "function"
  /\ errors' = errors \cup ParamsTaken(next, scopes, table)
  /\ table' = WithParams(next, Len(Visited.params), table)
  /\ scopes' = Append(scopes, next)
  /\ open' = Append(open, next)
  /\ next' = next + 1
  /\ UNCHANGED <<program, phase, bindings>>

\* ClassLocalContext pushes a scope for the class and in it, one after the other,
\* those of its constructors and methods, and pops them all; the walk into the
\* members that follows opens no scope for the class.
LocalClass ==
  /\ phase = "local" /\ AtBody
  /\ Visited.kind = "class"
  /\ LET inClass == Scoped(next, table)
         members == {m \in next+1..AfterBody-1 :
                       program[m].node.kind \in {"constructor", "method"}}
     IN  /\ errors' = errors \cup
              UNION {ParamsTaken(m, Append(scopes, next), inClass) : m \in members}
         /\ table' = [key \in members \cup DOMAIN inClass |->
                        IF key \in members THEN Range(program[key].node.params) ELSE inClass[key]]
  /\ open' = Append(open, next)
  /\ next' = next + 1
  /\ UNCHANGED <<program, phase, scopes, bindings>>

\* A block, or the body of a branch or a member.  The condition of a branch is
\* visited outside its body.
LocalBlock ==
  /\ phase = "local" /\ AtBody
  /\ Visited.kind \in {"block", "branch", "constructor", "method"} /\ ~Unwraps
  /\ errors' = errors \cup Unresolved(table)
  /\ scopes' = Append(scopes, next)
  /\ table' = Scoped(next, table)
  /\ open' = Append(open, next)
  /\ next' = next + 1
  /\ UNCHANGED <<program, phase, bindings>>

\* Mutant of PopScope: the scope stays on the stack.
PopScopeForgotten == scopes' = scopes

\* pop_scope keeps what the scope declares in the table.
PopScope == scopes' = Front(scopes)

LocalLeave ==
  /\ phase = "local" /\ AtEnd
  /\ IF program[Last(open)].node.kind = "class" THEN UNCHANGED scopes ELSE PopScope
  /\ open' = Front(open)
  /\ UNCHANGED <<program, phase, next, table, bindings, errors>>

LocalDone ==
  /\ phase = "local" /\ ~Visiting /\ ~AtEnd
  /\ phase' = IF errors = {} THEN "accepted" ELSE "rejected"
  /\ next' = 1
  /\ UNCHANGED <<program, open, scopes, table, bindings, errors>>

SemNext ==
  \/ Parse \/ Parsed
  \/ GlobalFunction \/ GlobalClass \/ GlobalVariable \/ GlobalOther \/ GlobalDone
  \/ LocalVariable \/ LocalExpression \/ LocalUnwrap
  \/ LocalFunction \/ LocalClass \/ LocalBlock
  \/ LocalLeave \/ LocalDone

SemSpec == SemInit /\ [][SemNext]_semVars /\ WF_semVars(SemNext)

-----------------------------------------------------------------------------
\* Type invariant, with the assertion both passes make of the scope stack
\* (locals/mod.rs:34 and 36, globals/mod.rs:39): a finished pass has left
\* exactly the global scope.
SemTypeOK ==
  /\ \A i \in DOMAIN program : /\ program[i].depth \in 1..MaxDepth
                               /\ program[i].node \in Vocabulary
  /\ phase \in {"parse", "global", "local", "accepted", "rejected", "panicked"}
  /\ next \in 1..Len(program) + 1
  /\ Range(open) \subseteq DOMAIN program
  /\ Range(scopes) \subseteq DOMAIN table
  /\ DOMAIN table \subseteq {0} \cup DOMAIN program
  /\ \A key \in DOMAIN table : table[key] \subseteq Names
  /\ DOMAIN bindings \subseteq Names
  /\ phase \in {"accepted", "rejected"} => scopes = <<0>>

Declared == Declarations(program)
InProgram(x, i) == \E d \in Declared : d.name = x /\ InScope(program, d, i)

\* A program that semantic analysis accepts mentions no identifier that is not
\* in scope there by the tree alone, and an identifier that is in scope is
\* never reported as undefined: the stack of scopes, entered twice for a
\* function or a member and revisited by key, finds what the text says.
IdentifiersResolved ==
  /\ phase = "accepted" =>
       \A i \in DOMAIN program :
         \A x \in Mentions(program[i].node.expr) : InProgram(x, i)
  /\ \A e \in errors : e.kind = "VariableNotDefined" => ~InProgram(e.name, e.at)

IsClass(d) == program[d.at].node.kind = "class"

\* In an accepted program no declaration shadows another that is in scope where
\* it stands, over both passes and all scopes: not in an enclosing body, not
\* among the parameters, not a function or global declared anywhere.  Only a
\* class may, and only what is declared before it beside it (globals/class.rs:46
\* does not ask).
NothingShadowed ==
  phase = "accepted" =>
    \A d, e \in Declared :
      d # e /\ d.name = e.name /\ InScope(program, d, e.at) =>
        d.body = 0 /\ e.body = 0 /\ (IF d.at < e.at THEN IsClass(e) ELSE IsClass(d))

\* The variables of blocks outside every function and class: the global pass
\* declares them in the program's scope (globals/variables.rs:22), the local pass
\* in the block's.
BlockVariables ==
  {d \in Declared : /\ program[d.at].node.kind = "variable"
                    /\ d.body # 0 /\ FunctionOf(program, d.at) = 0}

\* A variable or parameter is reported as defined already only if something else
\* of that name is in scope where it stands, or if it is in a block outside every
\* function or collides with one that is; and such a variable is always reported,
\* be it alone in the program.
CollisionsExplained ==
  /\ \A e \in errors : e.kind = "VariableAlreadyDefined" =>
       \E d \in Declared :
         /\ d.name = e.name /\ d.at = e.at
         /\ \/ d \in BlockVariables
            \/ \E f \in Declared \ {d} : /\ f.name = d.name
                                        /\ (InScope(program, f, d.at) \/ f \in BlockVariables)
  /\ phase = "accepted" => BlockVariables = {}

\* What the sample program of README.md:46 does: a member may use the fields of
\* its class, as this.x.
FieldsUsable ==
  LET accesses(e) == {e} \cup (IF e.op = "assignment" THEN {e.args[1]} ELSE {})
  IN  \A e \in errors :
        ~ /\ e.kind = "VariableNotDefined"
          /\ Dot(This, Id(e.name)) \in accesses(program[e.at].node.expr)
          /\ \E i \in DOMAIN program : /\ program[i].node = Field(e.name)
                                       /\ Within(program, i, ClassOf(program, e.at))
                                       /\ ClassOf(program, e.at) # 0
=============================================================================
