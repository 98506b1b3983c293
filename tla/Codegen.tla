------------------------------- MODULE Codegen -------------------------------
(***************************************************************************)
(* Code generation for the programs semantic analysis accepts               *)
(* (jswt-codegen/src/lib.rs and symbols.rs): the generator walks the tree   *)
(* once more, with a symbol table of its own, and turns identifiers into    *)
(* WebAssembly globals, parameters and locals.                              *)
(*                                                                         *)
(* The lowered tree has no classes left.  Annotated functions and the value *)
(* of expressions are left out.                                             *)
(***************************************************************************)
EXTENDS Lowering

CONSTANTS Generates(_), \* there are instructions for all of an expression
          Accessed(_),  \* the identifiers it gets or sets
          Called(_),    \* the functions it calls
          Offsets(_),   \* the offsets it loads from and stores to

          Unseen(_),    \* the names in an expression of the text that are after new
          Created(_),   \* what it makes objects of, as News, in what is after new too
          FieldsUsed(_),  \* the x of this.x in it, "malformed" where that is assigned
          MethodsUsed(_), \* to or, here, called and x is no name
          Foreign(_, _) \* a construct no pass translates is in it, in a class or not

\* What the runtime declares (runtime/malloc.jswt, memory.jswt).  No file of it
\* imports arrays.jswt, where arrayAt is.
Runtime == {"malloc", "i32Store", "i32Load"}

\* If there are instructions for what expression e is lowered to, they mention
\* names of e only, and this, and call the functions fs and arrayAt besides.
Faithful(e, lowered, fs) ==
  LET last == MirLowered(lowered)
  IN  Printable(lowered) /\ Generates(last) =>
        /\ Accessed(last) \subseteq Mentions(e) \cup Unseen(e) \cup {"this"}
        /\ Called(last) \subseteq Mentions(e) \cup Unseen(e) \cup fs \cup {"this", "arrayAt"}

\* A made up expression stays as it is.
Compiles(e) ==
  ~Has(e, "panic") /\ Printable(e) /\ MirLowered(e) = e /\ Generates(e) /\ Offsets(e) = {}

\* If the compiler gives up on what e is lowered to, e is why: bad, with an array, or
\* foreign.
Judged(e, lowered, bad, foreign) ==
  LET panics == Has(lowered, "panic")
  IN  IF panics THEN bad
      ELSE IF ~Printable(lowered) THEN Has(e, "array")
      ELSE IF ~Generates(MirLowered(lowered)) THEN foreign
      ELSE ~bad /\ ~Has(e, "array") /\ ~foreign

\* The passes make up calls of the runtime, of constructors and of methods.
ASSUME ExpressionsAssumption ==
  /\ Runtime \cap Names = {}
  /\ \A c \in Names : \A m \in Names \cup {"constructor"} :
       Qualified(c, m) \notin Runtime \cup {"this", "arrayAt"}
  /\ \A s \in Vocabulary :
       /\ \A cs \in SUBSET NamesOf("class") :
            Faithful(s.expr, NewLowered(s.expr, cs), {Qualified(c, "constructor") : c \in cs})
       /\ \A c \in NamesOf("class"), b \in ClassBindings :
            Faithful(s.expr, ClassLowered(s.expr, c, b),
                     Runtime \cup {Qualified(c, m) : m \in Range(b.methods)})
  /\ \A b \in ClassBindings :
       LET last == FunctionCall("malloc", <<Literal(Size(b))>>)
       IN  Accessed(last) = {} /\ Called(last) \subseteq Runtime /\ Compiles(last)
  /\ Accessed(Id("this")) \subseteq {"this"} /\ Called(Id("this")) = {} /\ Compiles(Id("this"))

\* The members of a class load and store at the offsets of its fields.  There is
\* nothing in Nothing.
ASSUME MembersAssumption ==
  /\ \A s \in Vocabulary :
       /\ \A cs \in SUBSET NamesOf("class") :
            Judged(s.expr, NewLowered(s.expr, cs),
                   ~(Created(s.expr) \subseteq cs), Foreign(s.expr, FALSE))
       /\ \A c \in NamesOf("class"), b \in ClassBindings :
            /\ Judged(s.expr, ClassLowered(s.expr, c, b),
                      ~(/\ FieldsUsed(s.expr) \subseteq Range(b.fields)
                        /\ MethodsUsed(s.expr) \subseteq Range(b.methods)),
                      Foreign(s.expr, TRUE))
            /\ Offsets(MirLowered(ClassLowered(s.expr, c, b)))
                 \subseteq {Offset(b, x) : x \in Range(b.fields)}
  /\ Compiles(Nothing) /\ Created(Nothing) = {} /\ ~Has(Nothing, "array")
  /\ FieldsUsed(Nothing) = {} /\ MethodsUsed(Nothing) = {}
  /\ ~Foreign(Nothing, TRUE) /\ ~Foreign(Nothing, FALSE)

VARIABLES output,   \* "none", "generating", "module", or how it panicked
          symbols,  \* WastSymbolTable: a stack of name -> kind of symbol
          pending,  \* the number of instruction scopes on the stack
          module,   \* names the module declares: function (0: none) -> names
          emitted   \* the identifiers in emitted code: function, kind, name

genVars == <<output, symbols, pending, module, emitted>>
vars == <<semVars, source, genVars>>

Empty == [x \in {} |-> "none"]
SymbolOf(x) ==      \* SimpleSymbolTable::lookup
  LET holding == {i \in DOMAIN symbols : x \in DOMAIN symbols[i]}
  IN  IF holding = {} THEN "none" ELSE symbols[Max(holding)][x]

\* Mutant of IsGlobal: any symbol of that name will do.
IsAnySymbol(x, stack) == \E i \in DOMAIN stack : x \in DOMAIN stack[i]

IsGlobal(x, stack) == x \in DOMAIN stack[1]      \* lookup_global
DefinedSymbol(x, kind) ==
  [symbols EXCEPT ![Len(symbols)] = With(x, kind, @)]

\* The instructions that get, set or call the identifiers of an expression.
References(e, stack) ==
  LET reference(x, kind) ==
        [at |-> next, in |-> FunctionOf(program, next), name |-> x, kind |-> kind]
  IN  {reference(x, IF IsGlobal(x, stack) THEN "Global" ELSE "Local") : x \in Accessed(e)}
        \cup {reference(x, "Call") : x \in Called(e)}

-----------------------------------------------------------------------------
Init ==
  /\ SemInit /\ SourceInit
  /\ output = "none"
  /\ symbols = <<>>
  /\ pending = 0
  /\ module = [f \in {0} |-> {}]
  /\ emitted = {}

Analyse == SemNext /\ UNCHANGED <<source, genVars>>
LowerTree == Lower /\ UNCHANGED genVars

GenerateModule ==
  /\ phase = "lowered" /\ output = "none"
  /\ output' = "generating"
  /\ symbols' = Append(symbols, Empty)
  /\ UNCHANGED <<semVars, source, pending, module, emitted>>

Generating == output = "generating"

\* Mutant of Walk: the body that is entered is not noted.
WalkFlat(body) ==
  /\ next' = next + 1
  /\ open' = open
  /\ UNCHANGED <<program, source, phase, scopes, table, bindings, errors>>

Walk(body) ==
  /\ next' = next + 1
  /\ open' = open \o body
  /\ UNCHANGED <<program, source, phase, scopes, table, bindings, errors>>

\* Mutant of Emit: code outside every scope is dropped.
EmitAnywhere(refs) == emitted' = emitted \cup refs /\ output' = output

\* push_instruction, which unwraps the innermost instruction scope.
Emit(refs) ==
  /\ emitted' = emitted \cup refs
  /\ output' = IF pending = 0 THEN "unwrapped" ELSE output

\* visit_assignable_element defines the target in the current scope before the
\* initializer is visited: a global at depth 1, else a local.  A name that is
\* found already is unreachable!().
GenVariable ==
  /\ Generating /\ AtBody
  /\ Visited.kind = "variable"
  /\ SymbolOf(Visited.name) = "none" /\ Generates(Visited.expr)
  /\ LET kind == IF Len(symbols) = 1 THEN "Global" ELSE "Local"
     IN  /\ symbols' = DefinedSymbol(Visited.name, kind)
         /\ emitted' = emitted \cup References(Visited.expr, symbols')
         /\ module' = IF kind = "Global" THEN [module EXCEPT ![0] = @ \cup {Visited.name}]
                      ELSE module
  /\ Walk(<<>>)
  /\ UNCHANGED <<output, pending>>

GenVariableTwice ==
  /\ Generating /\ AtBody
  /\ Visited.kind = "variable"
  /\ SymbolOf(Visited.name) # "none"
  /\ output' = "unreachable"
  /\ UNCHANGED <<semVars, source, symbols, pending, module, emitted>>

GenTodo ==
  /\ Generating /\ AtBody
  /\ ~Generates(Visited.expr)
  /\ Visited.kind = "variable" => SymbolOf(Visited.name) = "none"
  /\ output' = "todo"
  /\ UNCHANGED <<semVars, source, symbols, pending, module, emitted>>

GenExpression ==
  /\ Generating /\ AtBody
  /\ Visited.kind = "expression" /\ Generates(Visited.expr)
  /\ Emit(References(Visited.expr, symbols))
  /\ Walk(<<>>)
  /\ UNCHANGED <<symbols, pending, module>>

\* A function has a scope of its own, with its parameters, and a scope for the
\* instructions of its body.
GenFunction ==
  /\ Generating /\ AtBody
  /\ Visited.kind = "function"
  /\ symbols' = Append(symbols, [x \in Range(Visited.params) |-> "Param"])
  /\ pending' = pending + 1
  /\ Walk(<<next>>)
  /\ UNCHANGED <<output, module, emitted>>

\* A block opens no scope, of symbols or of instructions.
GenBlock ==
  /\ Generating /\ AtBody
  /\ Visited.kind = "block"
  /\ Walk(<<next>>)
  /\ UNCHANGED genVars

\* The body of a branch collects its instructions in a scope of its own.
GenBranch ==
  /\ Generating /\ AtBody
  /\ Visited.kind = "branch" /\ Generates(Visited.expr)
  /\ emitted' = emitted \cup References(Visited.expr, symbols)
  /\ pending' = pending + 1
  /\ Walk(<<next>>)
  /\ UNCHANGED <<output, symbols, module>>

\* Mutant of FunctionScopeLeft: the symbols of the function stay on the stack.
FunctionScopeKept == symbols' = symbols
FunctionScopeLeft == symbols' = Front(symbols)

\* Leaving a body: a function is complete with the locals of its scope; the
\* instruction of a branch goes to the scope around it.
GenLeave ==
  /\ Generating /\ AtEnd
  /\ LET kind == program[Last(open)].node.kind
     IN  /\ pending' = IF kind = "block" THEN pending ELSE pending - 1
         /\ IF kind = "function"
              THEN /\ module' = With(Last(open), DOMAIN Last(symbols), module)
                   /\ FunctionScopeLeft
              ELSE UNCHANGED <<symbols, module>>
         /\ output' = IF kind = "branch" /\ pending' = 0 THEN "unwrapped" ELSE output
  /\ open' = Front(open)
  /\ UNCHANGED <<program, source, phase, next, scopes, table, bindings, errors, emitted>>

GenDone ==
  /\ Generating /\ ~Visiting /\ ~AtEnd
  /\ output' = "module"
  /\ symbols' = Front(symbols)
  /\ UNCHANGED <<semVars, source, pending, module, emitted>>

Next ==
  \/ Analyse \/ LowerTree \/ GenerateModule
  \/ GenVariable \/ GenVariableTwice \/ GenTodo \/ GenExpression \/ GenFunction
  \/ GenBlock \/ GenBranch \/ GenLeave \/ GenDone

Spec == Init /\ [][Next]_vars /\ WF_vars(Next)

-----------------------------------------------------------------------------
\* Type invariant, with the assertion of visit_program (lib.rs:101): only the
\* global scope is left at the end, and no instruction scope.
TypeOK ==
  /\ phase \in {"hir", "printed", "lowered", "panicked"} \/ SemTypeOK
  /\ output \in {"none", "generating", "module", "unreachable", "unwrapped", "todo"}
  /\ \A i \in DOMAIN symbols : /\ DOMAIN symbols[i] \subseteq Names \cup {"this"}
                               /\ Range(symbols[i]) \subseteq {"Param", "Local", "Global"}
  /\ pending \in 0..Len(open)
  /\ DOMAIN module \subseteq {0} \cup DOMAIN program
  /\ output = "module" => pending = 0 /\ symbols = <<>>

-----------------------------------------------------------------------------
(* What the source itself says of the module that is made of it.             *)

\* A function, or a constructor or method, declares a name twice, in bodies apart
\* from each other.
DeclaredTwice ==
  LET function(b) == IF source[b].node.kind \in Functions THEN b ELSE FunctionOf(source, b)
  IN  \E d, e \in Declarations(source) :
        /\ d # e /\ d.name = e.name
        /\ d.body # 0 /\ e.body # 0
        /\ function(d.body) = function(e.body)

\* The generator meets a name that it has declared already, which it takes for
\* unreachable (jswt-codegen/src/lib.rs:425), in such a program only, and always in
\* such a program: semantic analysis lets no other two declarations through that a
\* symbol table without scopes for blocks confuses.
RedeclarationsExplained ==
  /\ output = "unreachable" => DeclaredTwice
  /\ output = "module" => ~DeclaredTwice

\* A statement outside every function that is neither a variable nor a block.
TopLevelCode ==
  \E i \in DOMAIN source :
    /\ FunctionOf(source, i) = 0
    /\ source[i].node.kind \in {"expression", "branch"}

\* push_instruction finds no scope of instructions to unwrap (lib.rs:76) in a program
\* with such a statement only, and always in one.
TopLevelExplained ==
  /\ output = "unwrapped" => TopLevelCode
  /\ output = "module" => ~TopLevelCode

\* The class a member, or a statement in one, is in.
ClassAt(i) == source[ClassOf(source, i)].node.name

\* No two functions of a module have the same name, unless a class has two
\* constructors, or is declared twice and has a member in both.
FunctionsUnique ==
  output = "module" =>
    ((\E f, g \in DOMAIN module \ {0} : f # g /\ program[f].node.name = program[g].node.name)
     <=> \E j, k \in DOMAIN source :
           /\ j # k /\ source[j].node.kind \in {"constructor", "method"}
           /\ source[k].node.kind = source[j].node.kind
           /\ source[k].node.name = source[j].node.name
           /\ ClassAt(k) = ClassAt(j))

\* The members of a class, by its name: those of the last class that has it.
ClassLines(c) == {k \in DOMAIN source : source[k].node.kind = "class" /\ source[k].node.name = c}
MembersIn(k, kind) ==
  {source[j].node.name : j \in {m \in DOMAIN source : /\ source[m].node.kind = kind
                                                     /\ Within(source, m, k)}}

\* In a module, what stands for nothing the module declares: functions and
\* classes mentioned as values, globals mentioned before their declaration, in a
\* function or in the value of another global, this outside classes; variables,
\* parameters, classes and this as what is called, constructors of classes that
\* have none, and arrayAt, which an element of an array needs, where the program
\* has no function of that name.
DeclaredBy(x, kinds) ==
  \E d \in Declarations(source) :
    d.name = x /\ source[d.at].node.kind \in kinds /\ d.index = 0
Variables(x) ==
  DeclaredBy(x, {"variable"}) \/ \E d \in Declarations(source) : d.name = x /\ d.index # 0
DanglingValue(r) ==
  \/ DeclaredBy(r.name, {"function"})
  \/ DeclaredBy(r.name, {"class"}) /\ ~Variables(r.name)
  \/ \E d \in Declarations(program) : d.name = r.name /\ d.body = 0 /\ r.at < d.at
  \/ r.name = "this" /\ (r.in = 0 \/ DeclaredBy(program[r.in].node.name, {"function"}))
DanglingCall(r) ==
  \/ Variables(r.name) \/ r.name = "this"
  \/ DeclaredBy(r.name, {"class"}) /\ ~DeclaredBy(r.name, {"function"})
  \/ \E k \in DOMAIN source :
       /\ source[k].node.kind = "class"
       /\ r.name = Qualified(source[k].node.name, "constructor")
       /\ \A j \in ClassLines(source[k].node.name) : MembersIn(j, "constructor") = {}
  \/ r.name = "arrayAt" /\ ~DeclaredBy("arrayAt", {"function"})

\* And what may: the arguments of new, which semantic analysis does not look at.
Unchecked(r) == \E i \in DOMAIN source : r.name \in Unseen(source[i].node.expr)

\* What the code of a module refers to and the module does not declare.  The value
\* of a global is in no function and has no locals.
Dangling ==
  {r \in emitted :
     CASE r.kind = "Call" ->
            r.name \notin Runtime \cup {program[f].node.name : f \in DOMAIN module \ {0}}
       [] r.kind = "Global" -> r.name \notin module[0]
       [] r.kind = "Local" -> r.in = 0 \/ r.name \notin module[r.in]}

\* An instruction of a finished module refers to a global, a local or a function it
\* does not declare (lib.rs:446, 453) wherever the text is one of those above, and
\* nowhere else but for what nobody looked at.
DanglingExplained ==
  LET explained == {r \in emitted : IF r.kind = "Call" THEN DanglingCall(r) ELSE DanglingValue(r)}
  IN  output = "module" =>
        /\ explained \subseteq Dangling
        /\ \A r \in Dangling \ explained : Unchecked(r)

\* A new of something that is no class, or in a class this.x for an x it has not.
BadMember ==
  \E i \in DOMAIN source :
    LET e == source[i].node.expr
        k == Max(ClassLines(ClassAt(i)))
    IN  IF ClassOf(source, i) = 0 THEN \E c \in Created(e) : ClassLines(c) = {}
        ELSE ~(/\ FieldsUsed(e) \subseteq MembersIn(k, "field")
               /\ MethodsUsed(e) \subseteq MembersIn(k, "method"))

\* A construct no pass translates.
Untranslated == \E i \in DOMAIN source : Foreign(source[i].node.expr, ClassOf(source, i) # 0)

\* An array, which the generator would translate.
HasArray == \E i \in DOMAIN source : Has(source[i].node.expr, "array")

\* The compiler gives up on the expressions of an accepted program for one of
\* these reasons only (the expects of jswt-hir-lowering/src/class.rs and new.rs,
\* the todo!() of the serializer and of the generator), and never makes a module of
\* a program with one of them.
PanicsExplained ==
  /\ phase = "panicked" /\ source # <<>> => BadMember \/ HasArray
  /\ output = "todo" => Untranslated
  /\ output = "module" => ~BadMember /\ ~HasArray /\ ~Untranslated

\* A member of a class loads and stores inside what the constructors of the class
\* allocate (jswt-symbols/src/bindings.rs:32), also when the class was declared
\* again with other fields.
ObjectsInBounds ==
  LET function(i) == program[FunctionOf(program, i)].node.name
      belongs(i, c) ==
        /\ FunctionOf(program, i) # 0
        /\ function(i) \in {Qualified(c, m) : m \in {"constructor"} \cup Range(bindings[c].methods)}
      sizes(c) ==
        {program[k].node.expr.args[2].value :
           k \in {i \in DOMAIN program : /\ FunctionOf(program, i) # 0
                                        /\ function(i) = Qualified(c, "constructor")
                                        /\ program[i].node.kind = "variable"
                                        /\ program[i].node.name = "this"}}
  IN  phase = "lowered" /\ output = "none" =>
        \A c \in DOMAIN bindings :
          \A i \in {j \in DOMAIN program : belongs(j, c)} :
            \A offset \in Offsets(program[i].node.expr), size \in sizes(c) : offset \in 0..size - 4

\* Every program is rejected, or compiled, or makes the compiler panic.
Compiled ==
  <>(phase \in {"rejected", "panicked"} \/ output \in {"module", "unreachable", "unwrapped", "todo"})
=============================================================================
