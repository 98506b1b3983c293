--------------------------- MODULE SemanticsProofs ---------------------------
(***************************************************************************)
(* Semantic analysis keeps the scopes that the text says: what the local    *)
(* pass finds on the stack is what is in scope.                             *)
(***************************************************************************)
EXTENDS ScopeProofs

-----------------------------------------------------------------------------
(* The invariant.                                                           *)

Typed ==
  /\ Tree(program)
  /\ phase \in {"parse", "global", "local", "accepted", "rejected", "panicked"}
  /\ next \in 1 .. Len(program) + 1
  /\ DOMAIN table \subseteq 0 .. Len(program)
  /\ \A key \in DOMAIN table : table[key] \subseteq Names
  /\ DOMAIN bindings \subseteq Names

Reported == \A e \in errors : Explained(program, e) /\ Undefined(program, e)

Parsing ==
  phase = "parse" =>
    next = 1 /\ open = <<>> /\ scopes = <<>> /\ errors = {} /\ DOMAIN table = {}

\* The global pass: the program's scope has the names of the global lines so far.
Declaring ==
  phase = "global" =>
    /\ open = <<>> /\ scopes = <<0>> /\ DOMAIN table = {0}
    /\ table[0] = Globals(program, next)
    /\ next <= Len(program) => Outside(program, next)
    /\ errors = {} => GlobalsApart(program, next)

\* The local pass: the stack is the program and the open bodies, and they have
\* what the text declares in them up to here.
Walking ==
  phase \in {"local", "panicked"} =>
    /\ Path(program, open, next)
    /\ Stack(program, open, scopes)
    /\ OpenFiled(program, open, table, next)
    /\ AheadFiled(program, open, table, next)

Clean ==
  phase = "local" =>
    /\ GlobalsApart(program, Len(program) + 1)
    /\ errors = {} => Sound(program, next, DOMAIN table)

Finished ==
  /\ phase \in {"accepted", "rejected"} => open = <<>> /\ scopes = <<0>> /\ 0 \in DOMAIN table
  /\ phase = "accepted" =>
       /\ errors = {} /\ GlobalsApart(program, Len(program) + 1)
       /\ Sound(program, Len(program) + 1, {})

SemInv == Typed /\ Reported /\ Parsing /\ Declaring /\ Walking /\ Clean /\ Finished

-----------------------------------------------------------------------------
(* The parser, and the global pass.                                         *)

LEMMA Unchanged == SemInv /\ UNCHANGED semVars => SemInv'
BY DEF SemInv, Typed, Reported, Parsing, Declaring, Walking, Clean, Finished, semVars

LEMMA InitKept == SemInit => SemInv
<1> SUFFICES ASSUME SemInit PROVE SemInv
  OBVIOUS
<1>1. Tree(program)
  BY ProgramAssumption DEF SemInit
<1>2. Len(program) \in Nat
  BY <1>1, TreeLines
<1>3. DOMAIN table = {} /\ DOMAIN bindings = {}
  BY DEF SemInit
<1>4. Typed
  BY <1>1, <1>2, <1>3 DEF SemInit, Typed
<1> QED
  BY <1>3, <1>4 DEF SemInit, SemInv, Reported, Parsing, Declaring, Walking, Clean, Finished

LEMMA ParseKeeps == SemInv /\ Parse => SemInv'
<1> SUFFICES ASSUME SemInv, Parse PROVE SemInv'
  OBVIOUS
<1>1. PICK s \in Continuations(program) : program' = Append(program, s)
  BY DEF Parse
<1>2. Tree(program)
  BY DEF SemInv, Typed
<1>3. Tree(program')
  BY <1>1, <1>2, TreeAppend
<1>4. Len(program') \in Nat
  BY <1>3, TreeLines
<1>5. phase' = "parse" /\ UNCHANGED <<next, open, scopes, table, bindings, errors>>
  BY DEF Parse
<1>6. next = 1 /\ open = <<>> /\ scopes = <<>> /\ errors = {} /\ DOMAIN table = {}
  BY DEF SemInv, Parsing, Parse
<1>7. Typed'
  BY <1>3, <1>4, <1>5, <1>6 DEF SemInv, Typed
<1> QED
  BY <1>5, <1>6, <1>7 DEF SemInv, Reported, Parsing, Declaring, Walking, Clean, Finished

LEMMA ParsedKeeps == SemInv /\ Parsed => SemInv'
<1> SUFFICES ASSUME SemInv, Parsed PROVE SemInv'
  OBVIOUS
<1>1. /\ phase' = "global" /\ UNCHANGED <<program, next, open, bindings, errors>>
      /\ scopes' = Append(scopes, 0) /\ table' = Scoped(0, table)
  BY DEF Parsed
<1>2. next = 1 /\ open = <<>> /\ scopes = <<>> /\ errors = {} /\ DOMAIN table = {}
  BY DEF SemInv, Parsing, Parsed
<1>3. Tree(program) /\ Len(program) \in Nat
  BY TreeLines DEF SemInv, Typed
<1>4. DOMAIN table' = {0}
  BY <1>1, <1>2, ScopedDomain
<1>5. table'[0] = {}
  BY <1>1, <1>2, ScopedIs
<1>6. Globals(program, 1) = {}
  BY <1>3 DEF Globals
<1>7. scopes' = <<0>>
  BY <1>1, <1>2
<1>8. Outside(program, 1) /\ GlobalsApart(program, 1)
  BY DEF Outside, GlobalsApart
<1>9. Typed'
  BY <1>1, <1>3, <1>4, <1>5 DEF SemInv, Typed
<1>10. Declaring'
  BY <1>1, <1>2, <1>4, <1>5, <1>6, <1>7, <1>8 DEF Declaring
<1> QED
  BY <1>1, <1>2, <1>9, <1>10 DEF SemInv, Reported, Parsing, Walking, Clean, Finished

\* What every step of the global pass starts from.
LEMMA GlobalFacts ==
  ASSUME SemInv, phase = "global", Visiting
  PROVE  /\ Tree(program) /\ Len(program) \in Nat /\ next \in 1 .. Len(program)
         /\ open = <<>> /\ scopes = <<0>> /\ Last(scopes) = 0
         /\ DOMAIN table = {0} /\ table[0] = Globals(program, next)
         /\ Outside(program, next)
         /\ errors = {} => GlobalsApart(program, next)
         /\ Kind(program, next) \in {"function", "class", "field", "constructor", "method",
                                     "variable", "expression", "block", "branch"}
<1>1. Tree(program) /\ Len(program) \in Nat /\ next \in 1 .. Len(program)
  BY TreeLines DEF SemInv, Typed, Visiting
<1>2. /\ open = <<>> /\ scopes = <<0>>
      /\ DOMAIN table = {0} /\ table[0] = Globals(program, next)
      /\ errors = {} => GlobalsApart(program, next)
  BY DEF SemInv, Declaring
<1>3. Outside(program, next)
  BY DEF SemInv, Declaring, Visiting
<1>4. Last(scopes) = 0
  BY <1>2 DEF Last
<1> QED
  BY <1>1, <1>2, <1>3, <1>4, KindsOfLines

\* What every step of the global pass has to keep.
LEMMA GlobalKept ==
  ASSUME SemInv, phase = "global", Visiting, phase' = "global",
         UNCHANGED <<program, open, scopes>>,
         next' \in 1 .. Len(program) + 1,
         DOMAIN table' = {0}, table'[0] = Globals(program, next'), table'[0] \subseteq Names,
         DOMAIN bindings' \subseteq Names,
         next' <= Len(program) => Outside(program, next'),
         errors' = {} => GlobalsApart(program, next'),
         \A e \in errors' : e \in errors \/ (Explained(program, e) /\ Undefined(program, e))
  PROVE  SemInv'
<1>1. Tree(program) /\ Len(program) \in Nat /\ open = <<>> /\ scopes = <<0>>
  BY GlobalFacts
<1>2. Typed'
  BY <1>1 DEF Typed
<1>3. Reported'
  BY DEF SemInv, Reported
<1>4. Declaring'
  BY <1>1 DEF Declaring
<1> QED
  BY <1>2, <1>3, <1>4 DEF SemInv, Parsing, Walking, Clean, Finished

\* A name that is declared in the program's scope.
LEMMA Declares ==
  ASSUME SemInv, phase = "global", Visiting, NEW x, x \in Names,
         table' = Defined(x, Last(scopes), table)
  PROVE  /\ DOMAIN table' = {0} /\ table'[0] = Globals(program, next) \cup {x}
         /\ table'[0] \subseteq Names
<1>1. Last(scopes) = 0 /\ DOMAIN table = {0} /\ table[0] = Globals(program, next)
  BY GlobalFacts
<1>2. DOMAIN table' = {0} /\ table'[0] = table[0] \cup {x}
  BY <1>1, DefinedIs
<1>3. table[0] \subseteq Names
  BY <1>1 DEF SemInv, Typed
<1> QED
  BY <1>1, <1>2, <1>3

LEMMA GlobalFunctionKeeps == SemInv /\ GlobalFunction => SemInv'
<1> SUFFICES ASSUME SemInv, GlobalFunction PROVE SemInv'
  OBVIOUS
<1> DEFINE x == NameAt(program, next)
           m == After(program, next)
<1>1. phase = "global" /\ Visiting /\ Kind(program, next) = "function"
  BY DEF GlobalFunction, Visited, Kind
<1>2. /\ Tree(program) /\ Len(program) \in Nat /\ next \in 1 .. Len(program)
      /\ table[0] = Globals(program, next) /\ Last(scopes) = 0
      /\ errors = {} => GlobalsApart(program, next)
  BY <1>1, GlobalFacts
<1>3. x \in Names
  BY <1>1, <1>2, KindsOfLines DEF NameAt
<1>4. /\ errors' = IF x \in table[0]
                   THEN errors \cup {ErrorAt(next, "FunctionAlreadyDefined", x)} ELSE errors
      /\ table' = Defined(x, Last(scopes), table)
  BY <1>2 DEF GlobalFunction, Declare, Visited, NameAt, LookupCurrent, Error
<1>5. next' = m /\ phase' = "global" /\ UNCHANGED <<program, open, scopes, bindings>>
  BY <1>1 DEF GlobalFunction, AfterBody, After, Depth
<1>6. m \in next + 1 .. Len(program) + 1 /\ (m <= Len(program) => Depth(program, m) = 1)
  BY <1>2, AfterFacts
<1>7. \A j \in next + 1 .. m - 1 : ~GlobalLine(program, j)
  BY <1>1, <1>2, Skipped
<1>8. GlobalLine(program, next)
  BY <1>1 DEF GlobalLine
<1>9. /\ Globals(program, m) = Globals(program, next) \cup {x}
      /\ GlobalsApart(program, next) /\ x \notin Globals(program, next) => GlobalsApart(program, m)
  BY <1>2, <1>6, <1>7, <1>8, GlobalsPast
<1>10. /\ DOMAIN table' = {0} /\ table'[0] = Globals(program, m) /\ table'[0] \subseteq Names
  BY <1>1, <1>3, <1>4, <1>9, Declares
<1>11. m <= Len(program) => Outside(program, m)
  BY <1>2, <1>6, OutsideAtTop
<1>12. errors' = {} => GlobalsApart(program, m)
  BY <1>2, <1>4, <1>9
<1>13. \A e \in errors' : e \in errors \/ (Explained(program, e) /\ Undefined(program, e))
  <2>1. \A e \in errors' : e \in errors \/ e = ErrorAt(next, "FunctionAlreadyDefined", x)
    BY <1>4
  <2>2. ErrorAt(next, "FunctionAlreadyDefined", x).kind = "FunctionAlreadyDefined"
    BY DEF ErrorAt
  <2> QED
    BY <2>1, <2>2 DEF Explained, Undefined
<1>14. DOMAIN bindings' \subseteq Names
  BY <1>5 DEF SemInv, Typed
<1>15. m \in 1 .. Len(program) + 1
  BY <1>2, <1>6
<1> HIDE DEF m, x
<1> QED
  BY <1>1, <1>5, <1>10, <1>11, <1>12, <1>13, <1>14, <1>15, GlobalKept

\* What the global pass binds a class to.
ClassBinding(i, k) == [fields |-> MembersOf("field", i, k), methods |-> MembersOf("method", i, k)]

LEMMA ClassBound ==
  ASSUME GlobalClass
  PROVE  bindings' = With(NameAt(program, next), ClassBinding(next, AfterBody - 1), bindings)
<1>1. bindings' = With(Visited.name, [fields |-> MembersOf("field", next, AfterBody - 1),
                                      methods |-> MembersOf("method", next, AfterBody - 1)], bindings)
  BY Zenon DEF GlobalClass, Bind
<1> QED
  BY <1>1, Zenon DEF ClassBinding, NameAt, Visited

LEMMA GlobalClassKeeps == SemInv /\ GlobalClass => SemInv'
<1> SUFFICES ASSUME SemInv, GlobalClass PROVE SemInv'
  OBVIOUS
<1> DEFINE x == NameAt(program, next)
           m == After(program, next)
<1>1. phase = "global" /\ Visiting /\ Kind(program, next) = "class"
  BY DEF GlobalClass, Visited, Kind
<1>2. /\ Tree(program) /\ Len(program) \in Nat /\ next \in 1 .. Len(program)
      /\ table[0] = Globals(program, next) /\ Last(scopes) = 0
      /\ errors = {} => GlobalsApart(program, next)
  BY <1>1, GlobalFacts
<1>3. x \in Names
  BY <1>1, <1>2, KindsOfLines DEF NameAt
<1>4. next' = m /\ phase' = "global" /\ UNCHANGED <<program, open, scopes>>
  BY <1>1 DEF GlobalClass, AfterBody, After, Depth
<1>5. table' = Defined(x, Last(scopes), table)
  BY DEF GlobalClass, Visited, NameAt
<1>6. \E binding : bindings' = With(x, binding, bindings)
  BY ClassBound, Zenon
<1>7. DOMAIN bindings' \subseteq Names
  <2>1. DOMAIN bindings \subseteq Names
    BY DEF SemInv, Typed
  <2> QED
    BY <1>3, <1>6, <2>1 DEF With
<1>8. \E Fs, Ms : /\ errors' = errors \cup Fs \cup Ms
                  /\ \A e \in Fs : \E i, y : e = ErrorAt(i, "FieldAlreadyDefined", y)
                  /\ \A e \in Ms : \E i, y : e = ErrorAt(i, "MethodAlreadyDefined", y)
  <2> DEFINE body == next + 1 .. AfterBody - 1
             again(kind, error) ==
               {ErrorAt(i, error, program[i].node.name) :
                  i \in {j \in body : /\ program[j].node.kind = kind
                                      /\ \E h \in body : h < j /\ Alike(h, j)}}
  <2>1. errors' = errors \cup again("field", "FieldAlreadyDefined")
                         \cup again("method", "MethodAlreadyDefined")
    BY DEF GlobalClass
  <2>2. /\ \A e \in again("field", "FieldAlreadyDefined") :
             \E i, y : e = ErrorAt(i, "FieldAlreadyDefined", y)
        /\ \A e \in again("method", "MethodAlreadyDefined") :
             \E i, y : e = ErrorAt(i, "MethodAlreadyDefined", y)
    OBVIOUS
  <2> HIDE DEF again
  <2> QED
    BY <2>1, <2>2
<1>9. m \in next + 1 .. Len(program) + 1 /\ (m <= Len(program) => Depth(program, m) = 1)
  BY <1>2, AfterFacts
<1>10. \A j \in next + 1 .. m - 1 : ~GlobalLine(program, j)
  BY <1>1, <1>2, Skipped
<1>11. GlobalLine(program, next)
  BY <1>1 DEF GlobalLine
<1>12. /\ Globals(program, m) = Globals(program, next) \cup {x}
       /\ GlobalsApart(program, next) => GlobalsApart(program, m)
  BY <1>1, <1>2, <1>9, <1>10, <1>11, GlobalsPast
<1>13. /\ DOMAIN table' = {0} /\ table'[0] = Globals(program, m) /\ table'[0] \subseteq Names
  BY <1>1, <1>3, <1>5, <1>12, Declares
<1>14. m <= Len(program) => Outside(program, m)
  BY <1>2, <1>9, OutsideAtTop
<1>15. errors' = {} => GlobalsApart(program, m)
  BY <1>2, <1>8, <1>12
<1>16. \A e \in errors' : e \in errors \/ (Explained(program, e) /\ Undefined(program, e))
  BY <1>8 DEF ErrorAt, Explained, Undefined
<1>17. m \in 1 .. Len(program) + 1
  BY <1>2, <1>9
<1> HIDE DEF m, x
<1> QED
  BY <1>1, <1>4, <1>7, <1>13, <1>14, <1>15, <1>16, <1>17, GlobalKept

LEMMA GlobalVariableKeeps == SemInv /\ GlobalVariable => SemInv'
<1> SUFFICES ASSUME SemInv, GlobalVariable PROVE SemInv'
  OBVIOUS
<1> DEFINE x == NameAt(program, next)
           m == next + 1
<1>1. phase = "global" /\ Visiting /\ Kind(program, next) = "variable"
  BY DEF GlobalVariable, Visited, Kind
<1>2. /\ Tree(program) /\ Len(program) \in Nat /\ next \in 1 .. Len(program)
      /\ table[0] = Globals(program, next) /\ Last(scopes) = 0
      /\ errors = {} => GlobalsApart(program, next)
      /\ Outside(program, next)
  BY <1>1, GlobalFacts
<1>3. x \in Names
  BY <1>1, <1>2, KindsOfLines DEF NameAt
<1>4. /\ errors' = IF x \in table[0]
                   THEN errors \cup {ErrorAt(next, "VariableAlreadyDefined", x)} ELSE errors
      /\ table' = Defined(x, Last(scopes), table)
  BY <1>2 DEF GlobalVariable, Declare, Visited, NameAt, LookupCurrent, Error
<1>5. next' = m /\ phase' = "global" /\ UNCHANGED <<program, open, scopes, bindings>>
  BY <1>1 DEF GlobalVariable
<1>6. m \in next + 1 .. Len(program) + 1 /\ m \in 1 .. Len(program) + 1
  BY <1>2
<1>7. \A j \in next + 1 .. m - 1 : ~GlobalLine(program, j)
  BY <1>2
<1>8. GlobalLine(program, next)
  BY <1>1, <1>2, OutsideIsGlobal
<1>9. /\ Globals(program, m) = Globals(program, next) \cup {x}
      /\ GlobalsApart(program, next) /\ x \notin Globals(program, next) => GlobalsApart(program, m)
  BY <1>2, <1>6, <1>7, <1>8, GlobalsPast
<1>10. /\ DOMAIN table' = {0} /\ table'[0] = Globals(program, m) /\ table'[0] \subseteq Names
  BY <1>1, <1>3, <1>4, <1>9, Declares
<1>11. m <= Len(program) => Outside(program, m)
  BY <1>1, <1>2, <1>6, OutsidePast
<1>12. errors' = {} => GlobalsApart(program, m)
  BY <1>2, <1>4, <1>9
<1>13. \A e \in errors' : e \in errors \/ (Explained(program, e) /\ Undefined(program, e))
  <2> DEFINE e0 == ErrorAt(next, "VariableAlreadyDefined", x)
  <2>1. \A e \in errors' : e \in errors \/ (e = e0 /\ x \in Globals(program, next))
    BY <1>2, <1>4
  <2>2. x \in Globals(program, next) => Explained(program, e0)
    BY <1>1, <1>2, <1>8, GlobalCollision
  <2>3. Undefined(program, e0)
    BY DEF ErrorAt, Undefined
  <2> HIDE DEF e0
  <2> QED
    BY <2>1, <2>2, <2>3
<1>14. DOMAIN bindings' \subseteq Names
  BY <1>5 DEF SemInv, Typed
<1> HIDE DEF m, x
<1> QED
  BY <1>1, <1>5, <1>6, <1>10, <1>11, <1>12, <1>13, <1>14, GlobalKept

LEMMA GlobalOtherKeeps == SemInv /\ GlobalOther => SemInv'
<1> SUFFICES ASSUME SemInv, GlobalOther PROVE SemInv'
  OBVIOUS
<1> DEFINE m == next + 1
<1>1. phase = "global" /\ Visiting /\ Kind(program, next) \notin {"function", "class", "variable"}
  BY DEF GlobalOther, Visited, Kind
<1>2. /\ Tree(program) /\ Len(program) \in Nat /\ next \in 1 .. Len(program)
      /\ DOMAIN table = {0} /\ table[0] = Globals(program, next)
      /\ errors = {} => GlobalsApart(program, next)
      /\ Outside(program, next)
  BY <1>1, GlobalFacts
<1>3. /\ next' = m /\ phase' = "global"
      /\ UNCHANGED <<program, open, scopes, table, bindings, errors>>
  BY <1>1 DEF GlobalOther
<1>4. m \in next + 1 .. Len(program) + 1 /\ m \in 1 .. Len(program) + 1
  BY <1>2
<1>5. \A j \in next + 1 .. m - 1 : ~GlobalLine(program, j)
  BY <1>2
<1>6. ~GlobalLine(program, next)
  BY <1>1 DEF GlobalLine
<1>7. /\ Globals(program, m) = Globals(program, next)
      /\ GlobalsApart(program, next) => GlobalsApart(program, m)
  BY <1>2, <1>4, <1>5, <1>6, GlobalsPast
<1>8. m <= Len(program) => Outside(program, m)
  BY <1>1, <1>2, <1>4, OutsidePast
<1>9. table[0] \subseteq Names /\ DOMAIN bindings \subseteq Names
  BY <1>2 DEF SemInv, Typed
<1> HIDE DEF m
<1> QED
  BY <1>1, <1>2, <1>3, <1>4, <1>7, <1>8, <1>9, GlobalKept

LEMMA GlobalDoneKeeps == SemInv /\ GlobalDone => SemInv'
<1> SUFFICES ASSUME SemInv, GlobalDone PROVE SemInv'
  OBVIOUS
<1>1. /\ phase = "global" /\ phase' = (IF errors = {} THEN "local" ELSE "rejected") /\ next' = 1
      /\ UNCHANGED <<program, open, scopes, table, bindings, errors>>
  BY DEF GlobalDone
<1>2. Tree(program) /\ Len(program) \in Nat /\ next = Len(program) + 1
  <2>1. Tree(program) /\ Len(program) \in Nat /\ next \in 1 .. Len(program) + 1
    BY TreeLines DEF SemInv, Typed
  <2> QED
    BY <2>1 DEF GlobalDone, Visiting
<1>3. /\ open = <<>> /\ scopes = <<0>> /\ DOMAIN table = {0}
      /\ table[0] = Globals(program, Len(program) + 1)
      /\ errors = {} => GlobalsApart(program, Len(program) + 1)
  BY <1>1, <1>2 DEF SemInv, Declaring
<1>4. Typed'
  BY <1>1, <1>2 DEF SemInv, Typed
<1>5. Path(program, <<>>, 1)
  BY DEF Path
<1>6. ~InClass(program, <<>>)
  BY DEF InClass
<1>7. Stack(program, <<>>, <<0>>)
  BY <1>2, <1>6 DEF Stack
<1>8. OpenFiled(program, <<>>, table, 1) /\ AheadFiled(program, <<>>, table, 1)
  BY <1>3, <1>6 DEF OpenFiled, AheadFiled
<1>9. Walking'
  BY <1>1, <1>3, <1>5, <1>7, <1>8 DEF Walking
<1>10. Sound(program, 1, {0})
  <2>1. \A d \in Declarations(program) : d.at \in 1 .. Len(program)
    BY <1>2, DeclarationFields
  <2>2. \A d \in Stray(program) : d \in Declarations(program)
    BY DEF Stray
  <2> QED
    BY <1>2, <2>1, <2>2 DEF Sound
<1>11. Clean'
  BY <1>1, <1>3, <1>10 DEF Clean
<1>12. Finished'
  BY <1>1, <1>3 DEF Finished
<1>13. Reported'
  BY <1>1 DEF SemInv, Reported
<1>14. Parsing' /\ Declaring'
  BY <1>1 DEF Parsing, Declaring
<1> QED
  BY <1>4, <1>9, <1>11, <1>12, <1>13, <1>14 DEF SemInv

-----------------------------------------------------------------------------
(* The local pass.                                                          *)

\* Where a statement is visited, the stack finds what is visible there.
LEMMA LocalFacts ==
  ASSUME SemInv, phase = "local"
  PROVE  /\ Tree(program) /\ Len(program) \in Nat /\ next \in 1 .. Len(program) + 1
         /\ Path(program, open, next) /\ Stack(program, open, scopes)
         /\ OpenFiled(program, open, table, next) /\ AheadFiled(program, open, table, next)
         /\ DOMAIN table \subseteq 0 .. Len(program)
         /\ \A key \in DOMAIN table : table[key] \subseteq Names
         /\ GlobalsApart(program, Len(program) + 1)
         /\ errors = {} => Sound(program, next, DOMAIN table)
         /\ Len(scopes) \in Nat /\ DOMAIN scopes = 1 .. Len(scopes) /\ scopes # <<>>
         /\ \A k \in 1 .. Len(scopes) : scopes[k] \in DOMAIN table
<1>1. /\ Tree(program) /\ Len(program) \in Nat /\ next \in 1 .. Len(program) + 1 /\ next \in Nat
      /\ DOMAIN table \subseteq 0 .. Len(program)
      /\ \A key \in DOMAIN table : table[key] \subseteq Names
  BY TreeLines DEF SemInv, Typed
<1>2. /\ Path(program, open, next) /\ Stack(program, open, scopes)
      /\ OpenFiled(program, open, table, next) /\ AheadFiled(program, open, table, next)
  BY DEF SemInv, Walking
<1>3. /\ GlobalsApart(program, Len(program) + 1)
      /\ errors = {} => Sound(program, next, DOMAIN table)
  BY DEF SemInv, Clean
<1>4. /\ Len(scopes) \in Nat /\ DOMAIN scopes = 1 .. Len(scopes) /\ scopes # <<>>
      /\ \A k \in 1 .. Len(scopes) :
           scopes[k] = 0 \/ \E m \in 1 .. Len(open) : scopes[k] = open[m] /\ Kind(program, open[m]) # "class"
  BY <1>1, <1>2, StackFacts
<1>5. \A k \in 1 .. Len(scopes) : scopes[k] \in DOMAIN table
  BY <1>2, <1>4 DEF OpenFiled
<1> QED
  BY <1>1, <1>2, <1>3, <1>4, <1>5

LEMMA BodyFacts ==
  ASSUME SemInv, phase = "local", AtBody
  PROVE  /\ next \in 1 .. Len(program) /\ Depth(program, next) = Len(open) + 1
         /\ Len(open) \in Nat /\ (open # <<>> => Len(open) >= 1)
         /\ \A x : Lookup(x, scopes, table) <=> Visible(program, x, next)
<1>1. next \in 1 .. Len(program) /\ Depth(program, next) = Len(open) + 1
  BY LocalFacts DEF AtBody, Visiting, Depth
<1>2. Len(open) \in Nat /\ (open # <<>> => Len(open) >= 1)
  BY LocalFacts, <1>1, PathFacts
<1>3. \A x : Lookup(x, scopes, table) <=> Visible(program, x, next)
  BY LocalFacts, <1>1, LookupMeans
<1> QED
  BY <1>1, <1>2, <1>3

\* What every step of the local pass has to keep.
LEMMA LocalKept ==
  ASSUME SemInv, phase = "local", phase' = "local",
         UNCHANGED <<program, bindings>>,
         next' \in 1 .. Len(program) + 1,
         Path(program, open', next'), Stack(program, open', scopes'),
         OpenFiled(program, open', table', next'), AheadFiled(program, open', table', next'),
         DOMAIN table' \subseteq 0 .. Len(program),
         \A key \in DOMAIN table' : table'[key] \subseteq Names,
         errors' = {} => Sound(program, next', DOMAIN table'),
         \A e \in errors' : e \in errors \/ (Explained(program, e) /\ Undefined(program, e))
  PROVE  SemInv'
<1>1. Tree(program) /\ GlobalsApart(program, Len(program) + 1)
  BY LocalFacts
<1>2. Typed'
  BY <1>1 DEF SemInv, Typed
<1>3. Reported'
  BY DEF SemInv, Reported
<1>4. Walking'
  BY DEF Walking
<1>5. Clean'
  BY <1>1 DEF Clean
<1> QED
  BY <1>2, <1>3, <1>4, <1>5 DEF SemInv, Parsing, Declaring, Finished

\* The errors of IdentifierExpressionLocalContext and NewExpressionLocalContext.
LEMMA UnresolvedAre ==
  ASSUME NEW t
  PROVE  /\ \A e \in Unresolved(t) :
              \/ \E x \in Mentions(program[next].node.expr) :
                   ~Lookup(x, scopes, t) /\ e = ErrorAt(next, "VariableNotDefined", x)
              \/ \E c : e = ErrorAt(next, "ClassNotDefined", c)
         /\ Unresolved(t) = {} => \A x \in Mentions(program[next].node.expr) : Lookup(x, scopes, t)
<1> DEFINE V == {Error("VariableNotDefined", x) :
                   x \in {y \in Mentions(Visited.expr) : ~Lookup(y, scopes, t)}}
           C == {Error("ClassNotDefined", c) : c \in News(Visited.expr) \ DOMAIN bindings}
<1>1. Unresolved(t) = V \cup C
  BY DEF Unresolved
<1>2. \A e \in V : \E x \in Mentions(program[next].node.expr) :
                     ~Lookup(x, scopes, t) /\ e = ErrorAt(next, "VariableNotDefined", x)
  BY DEF Error, Visited
<1>3. \A e \in C : \E c : e = ErrorAt(next, "ClassNotDefined", c)
  BY DEF Error
<1>4. ASSUME NEW x \in Mentions(program[next].node.expr), ~Lookup(x, scopes, t)
      PROVE  V # {}
  BY <1>4 DEF Visited
<1> HIDE DEF V, C
<1> QED
  BY <1>1, <1>2, <1>3, <1>4

\* A statement that declares nothing is resolved.
LEMMA Resolved ==
  ASSUME SemInv, phase = "local", AtBody, Kind(program, next) # "variable"
  PROVE  /\ \A e \in Unresolved(table) : Explained(program, e) /\ Undefined(program, e)
         /\ Unresolved(table) = {} =>
              \A x \in Mentions(program[next].node.expr) : Met(program, x, next)
<1>1. Tree(program) /\ next \in 1 .. Len(program)
  BY LocalFacts, BodyFacts
<1>2. \A x : Lookup(x, scopes, table) <=> Visible(program, x, next)
  BY BodyFacts
<1>3. ASSUME NEW x \in Mentions(program[next].node.expr), ~Lookup(x, scopes, table)
      PROVE  ~Known(program, x, next)
  BY <1>1, <1>2, <1>3, NotKnown
<1>4. ASSUME NEW x \in Mentions(program[next].node.expr), Lookup(x, scopes, table)
      PROVE  Met(program, x, next)
  BY <1>1, <1>2, <1>4, VisibleIsMet
<1>5. ASSUME NEW e \in Unresolved(table)
      PROVE  Explained(program, e) /\ Undefined(program, e)
  <2>1. \/ \E x \in Mentions(program[next].node.expr) :
             ~Lookup(x, scopes, table) /\ e = ErrorAt(next, "VariableNotDefined", x)
        \/ \E c : e = ErrorAt(next, "ClassNotDefined", c)
    BY UnresolvedAre
  <2> QED
    BY <1>3, <2>1 DEF ErrorAt, Explained, Undefined
<1> QED
  BY <1>4, <1>5, UnresolvedAre

\* Only classes, functions, members and variables declare anything.
LEMMA NoDeclaration ==
  ASSUME NEW p, Tree(p), NEW n \in 1 .. Len(p),
         Kind(p, n) \notin {"variable", "class"} \cup Functions
  PROVE  \A e \in Declarations(p) : e.at # n
BY DeclarationFields DEF IsParam, IsName, IsVariable, Functions

\* Past a statement of which nothing is declared.
LEMMA SoundPast ==
  ASSUME SemInv, phase = "local", AtBody, errors = {}, NEW es,
         \A x \in Mentions(program[next].node.expr) : Met(program, x, next),
         \A e \in Declarations(program) :
           e.body # 0 /\ (e.at = next \/ e.at \in es \ DOMAIN table) =>
             \A d \in Declarations(program) : ~Shadows(program, d, e),
         Kind(program, next) # "variable"
  PROVE  Sound(program, next + 1, es)
<1>1. /\ Tree(program) /\ next \in 1 .. Len(program)
      /\ Sound(program, next, DOMAIN table)
  BY LocalFacts, BodyFacts
<1>2. \A d \in Stray(program) : d.at # next
  BY DEF Stray
<1> QED
  BY <1>1, <1>2, SoundStep

\* The path through a class begins with it.
LEMMA InClassInto ==
  ASSUME NEW p, NEW o \in Seq(Nat), NEW n \in Nat
  PROVE  InClass(p, Append(o, n)) <=> IF o = <<>> THEN Kind(p, n) = "class" ELSE InClass(p, o)
<1>1. Append(o, n)[1] = IF o = <<>> THEN n ELSE o[1]
  OBVIOUS
<1>2. Append(o, n) # <<>>
  OBVIOUS
<1> QED
  BY <1>1, <1>2 DEF InClass

LEMMA LocalExpressionKeeps == SemInv /\ LocalExpression => SemInv'
<1> SUFFICES ASSUME SemInv, LocalExpression PROVE SemInv'
  OBVIOUS
<1>1. /\ phase = "local" /\ AtBody /\ Kind(program, next) \in {"expression", "field"}
      /\ phase' = "local" /\ errors' = errors \cup Unresolved(table) /\ next' = next + 1
      /\ UNCHANGED <<program, phase, open, scopes, table, bindings>>
  BY DEF LocalExpression, Visited, Kind
<1>2. /\ Tree(program) /\ Len(program) \in Nat /\ next \in 1 .. Len(program)
      /\ Depth(program, next) = Len(open) + 1
      /\ Len(open) \in Nat /\ (open # <<>> => Len(open) >= 1)
  BY <1>1, LocalFacts, BodyFacts
<1>3. Path(program, open, next + 1) /\ Stack(program, open, scopes)
  BY <1>1, <1>2, LocalFacts, PathPast
<1>4. OpenFiled(program, open, table, next + 1)
  BY <1>1, <1>2, LocalFacts, OpenPast
<1>5. AheadFiled(program, open, table, next + 1)
  <2>1. InClass(program, open) => Depth(program, next) > 1
    BY <1>2 DEF InClass
  <2> QED
    BY <1>1, <1>2, <2>1, LocalFacts, AheadPast
<1>6. \A e \in Unresolved(table) : Explained(program, e) /\ Undefined(program, e)
  BY <1>1, Resolved
<1>7. errors' = {} => Sound(program, next + 1, DOMAIN table)
  <2> SUFFICES ASSUME errors' = {} PROVE Sound(program, next + 1, DOMAIN table)
    OBVIOUS
  <2>1. errors = {} /\ Unresolved(table) = {}
    BY <1>1
  <2>2. \A x \in Mentions(program[next].node.expr) : Met(program, x, next)
    BY <1>1, <2>1, Resolved
  <2>3. \A e \in Declarations(program) : e.at # next
    BY <1>1, <1>2, NoDeclaration DEF Functions
  <2> QED
    BY <1>1, <2>1, <2>2, <2>3, SoundPast
<1>8. next + 1 \in 1 .. Len(program) + 1
  BY <1>2
<1>9. /\ DOMAIN table \subseteq 0 .. Len(program)
      /\ \A key \in DOMAIN table : table[key] \subseteq Names
  BY <1>1, LocalFacts
<1> QED
  BY <1>1, <1>3, <1>4, <1>5, <1>6, <1>7, <1>8, <1>9, LocalKept

LEMMA LocalUnwrapKeeps == SemInv /\ LocalUnwrap => SemInv'
<1> SUFFICES ASSUME SemInv, LocalUnwrap PROVE SemInv'
  OBVIOUS
<1>1. /\ phase = "local" /\ phase' = "panicked"
      /\ UNCHANGED <<program, next, open, scopes, table, bindings, errors>>
  BY DEF LocalUnwrap
<1>2. Typed' /\ Reported'
  BY <1>1 DEF SemInv, Typed, Reported
<1>3. Walking'
  BY <1>1 DEF SemInv, Walking
<1> QED
  BY <1>1, <1>2, <1>3 DEF SemInv, Parsing, Declaring, Clean, Finished

LEMMA LocalLeaveKeeps == SemInv /\ LocalLeave => SemInv'
<1> SUFFICES ASSUME SemInv, LocalLeave PROVE SemInv'
  OBVIOUS
<1>1. /\ phase = "local" /\ phase' = "local" /\ open # <<>> /\ open' = Front(open)
      /\ scopes' = (IF Kind(program, Last(open)) = "class" THEN scopes ELSE Front(scopes))
      /\ UNCHANGED <<program, phase, next, table, bindings, errors>>
  BY DEF LocalLeave, AtEnd, PopScope, Kind
<1>2. Last(open) = open[Len(open)]
  BY DEF Last
<1>3. /\ Tree(program) /\ Len(program) \in Nat /\ next \in 1 .. Len(program) + 1 /\ next \in Nat
      /\ Path(program, open, next) /\ Stack(program, open, scopes)
      /\ OpenFiled(program, open, table, next) /\ AheadFiled(program, open, table, next)
      /\ DOMAIN table \subseteq 0 .. Len(program)
      /\ \A key \in DOMAIN table : table[key] \subseteq Names
      /\ errors = {} => Sound(program, next, DOMAIN table)
  BY <1>1, LocalFacts
<1>4. Path(program, Front(open), next)
  BY <1>1, <1>3, PathOut
<1>5. Stack(program, Front(open), scopes')
  BY <1>1, <1>2, <1>3, StackOut
<1>6. OpenFiled(program, Front(open), table, next) /\ AheadFiled(program, Front(open), table, next)
  BY <1>1, <1>3, FiledOut
<1> QED
  BY <1>1, <1>3, <1>4, <1>5, <1>6, LocalKept

LEMMA LocalDoneKeeps == SemInv /\ LocalDone => SemInv'
<1> SUFFICES ASSUME SemInv, LocalDone PROVE SemInv'
  OBVIOUS
<1>1. /\ phase = "local" /\ phase' = (IF errors = {} THEN "accepted" ELSE "rejected")
      /\ next' = 1 /\ ~Visiting
      /\ UNCHANGED <<program, open, scopes, table, bindings, errors>>
  BY DEF LocalDone
<1>2. open = <<>>
  BY <1>1 DEF LocalDone, AtEnd
<1>3. /\ Tree(program) /\ Len(program) \in Nat /\ next \in 1 .. Len(program) + 1
      /\ Path(program, open, next) /\ Stack(program, open, scopes)
      /\ OpenFiled(program, open, table, next)
      /\ GlobalsApart(program, Len(program) + 1)
      /\ errors = {} => Sound(program, next, DOMAIN table)
  BY <1>1, LocalFacts
<1>4. next = Len(program) + 1
  BY <1>1, <1>3 DEF Visiting
<1>5. scopes = <<0>>
  <2>1. ~InClass(program, <<>>)
    BY DEF InClass
  <2>2. scopes \in Seq(0 .. Len(program)) /\ Len(scopes) = 1 /\ scopes[1] = 0
    BY <1>2, <1>3, <2>1 DEF Stack
  <2> QED
    BY <2>2
<1>6. 0 \in DOMAIN table
  BY <1>3 DEF OpenFiled
<1>7. errors = {} => Sound(program, Len(program) + 1, {})
  BY <1>3, <1>4 DEF Sound
<1>8. Typed'
  BY <1>1, <1>3 DEF SemInv, Typed
<1>9. Reported'
  BY <1>1 DEF SemInv, Reported
<1>10. Finished'
  BY <1>1, <1>2, <1>3, <1>5, <1>6, <1>7 DEF Finished
<1> QED
  BY <1>1, <1>8, <1>9, <1>10 DEF SemInv, Parsing, Declaring, Walking, Clean

\* Defining a name in the innermost scope makes the stack find it.
LEMMA LookupDefined ==
  ASSUME NEW keys \in Seq(Nat), keys # <<>>, NEW t,
         \A k \in 1 .. Len(keys) : keys[k] \in DOMAIN t, NEW x, NEW y
  PROVE  Lookup(y, keys, Defined(x, Last(keys), t)) <=> Lookup(y, keys, t) \/ y = x
<1> DEFINE last == Last(keys)
           u == Defined(x, last, t)
<1>1. /\ Len(keys) \in 1 .. Len(keys) /\ last = keys[Len(keys)] /\ last \in DOMAIN t
      /\ DOMAIN keys = 1 .. Len(keys)
  BY DEF Last
<1>2. /\ u[last] = t[last] \cup {x}
      /\ \A k \in DOMAIN t : k # last => u[k] = t[k]
  BY <1>1, DefinedIs
<1> HIDE DEF u, last
<1>3. ASSUME Lookup(y, keys, u)
      PROVE  Lookup(y, keys, t) \/ y = x
  BY <1>1, <1>2, <1>3 DEF Lookup
<1>4. ASSUME Lookup(y, keys, t)
      PROVE  Lookup(y, keys, u)
  BY <1>1, <1>2, <1>4 DEF Lookup
<1>5. ASSUME y = x
      PROVE  Lookup(y, keys, u)
  BY <1>1, <1>2, <1>5 DEF Lookup
<1> QED
  BY <1>3, <1>4, <1>5 DEF u, last

LEMMA LocalVariableKeeps == SemInv /\ LocalVariable => SemInv'
<1> SUFFICES ASSUME SemInv, LocalVariable PROVE SemInv'
  OBVIOUS
<1> DEFINE x == NameAt(program, next)
           isLocal == Len(scopes) > 1
           e0 == ErrorAt(next, "VariableAlreadyDefined", x)
<1>1. /\ phase = "local" /\ phase' = "local" /\ AtBody /\ Kind(program, next) = "variable"
      /\ next' = next + 1 /\ UNCHANGED <<program, phase, open, scopes, bindings>>
      /\ table' = IF isLocal THEN Defined(x, Last(scopes), table) ELSE table
      /\ errors' = errors \cup Unresolved(table')
                     \cup (IF isLocal /\ Lookup(x, scopes, table) THEN {e0} ELSE {})
  BY DEF LocalVariable, Visited, Kind, NameAt, Error
<1>2. /\ Tree(program) /\ Len(program) \in Nat /\ next \in 1 .. Len(program)
      /\ Depth(program, next) = Len(open) + 1
      /\ Len(open) \in Nat /\ (open # <<>> => Len(open) >= 1)
      /\ \A y : Lookup(y, scopes, table) <=> Visible(program, y, next)
  BY <1>1, LocalFacts, BodyFacts
<1>3. /\ Path(program, open, next) /\ Stack(program, open, scopes)
      /\ OpenFiled(program, open, table, next) /\ AheadFiled(program, open, table, next)
      /\ DOMAIN table \subseteq 0 .. Len(program)
      /\ \A key \in DOMAIN table : table[key] \subseteq Names
      /\ errors = {} => Sound(program, next, DOMAIN table)
      /\ \A k \in 1 .. Len(scopes) : scopes[k] \in DOMAIN table
      /\ Len(scopes) \in Nat /\ scopes # <<>>
  BY <1>1, LocalFacts
<1>4. x \in Names
  BY <1>1, <1>2, KindsOfLines DEF NameAt
<1>5. open # <<>> => Kind(program, open[Len(open)]) # "class"
  <2> SUFFICES ASSUME open # <<>> PROVE Kind(program, open[Len(open)]) # "class"
    OBVIOUS
  <2>1. Len(open) \in 1 .. Len(open)
    BY <1>2
  <2>2. Parent(program, open[Len(open)], next) /\ open[Len(open)] \in 1 .. next - 1
    BY <1>2, <1>3, <2>1, PathAround
  <2> QED
    BY <1>1, <1>2, <2>2, TreePlaced DEF Members
<1>6. /\ open = <<>> => Len(scopes) = 1
      /\ open # <<>> => Len(scopes) > 1 /\ scopes[Len(scopes)] = open[Len(open)]
  BY <1>2, <1>3, <1>5, StackFacts
<1>7. isLocal <=> open # <<>>
  <2>1. CASE open = <<>>
    <3>1. Len(scopes) = 1
      BY <1>6, <2>1
    <3> QED
      BY <2>1, <3>1
  <2>2. CASE open # <<>>
    BY <1>6, <2>2
  <2> QED
    BY <2>1, <2>2
<1>8. Last(scopes) = scopes[Len(scopes)]
  BY DEF Last
<1>9. Path(program, open, next + 1)
  BY <1>2, <1>3, PathPast
<1>10. /\ DOMAIN table' = DOMAIN table
       /\ \A key \in DOMAIN table : key # Last(scopes) => table'[key] = table[key]
       /\ \A key \in DOMAIN table' : table'[key] \subseteq Names
  <2>1. Last(scopes) \in DOMAIN table
    BY <1>3, <1>8
  <2>2. CASE isLocal
    <3>1. /\ DOMAIN table' = DOMAIN table /\ table'[Last(scopes)] = table[Last(scopes)] \cup {x}
          /\ \A key \in DOMAIN table : key # Last(scopes) => table'[key] = table[key]
      BY <1>1, <2>1, <2>2, DefinedIs
    <3> QED
      BY <1>3, <1>4, <2>1, <3>1
  <2>3. CASE ~isLocal
    BY <1>1, <1>3, <2>3
  <2> QED
    BY <2>2, <2>3
<1>11. OpenFiled(program, open, table', next + 1)
  <2>1. CASE open # <<>>
    <3>1. table' = Defined(x, open[Len(open)], table)
      BY <1>1, <1>6, <1>7, <1>8, <2>1
    <3> QED
      BY <1>1, <1>2, <1>3, <1>5, <2>1, <3>1, OpenDefined
  <2>2. CASE open = <<>>
    <3>1. table' = table
      BY <1>1, <1>7, <2>2
    <3> QED
      BY <1>2, <1>3, <2>2, <3>1, OpenPast
  <2> QED
    BY <2>1, <2>2
<1>12. AheadFiled(program, open, table', next + 1)
  <2>1. InClass(program, open) => Depth(program, next) > 1
    BY <1>2 DEF InClass
  <2>2. ASSUME NEW key \in DOMAIN table', key >= next + 1
        PROVE  key \in DOMAIN table /\ table'[key] = table[key]
    <3>1. key \in DOMAIN table
      BY <1>10
    <3>2. Last(scopes) < next
      <4>1. scopes[Len(scopes)] = 0 \/ scopes[Len(scopes)] = open[Len(open)]
        BY <1>3, <1>6 DEF Stack
      <4>2. open # <<>> => open[Len(open)] < next
        BY <1>2, <1>3 DEF Path
      <4>3. open = <<>> => scopes[Len(scopes)] = 0
        BY <1>3, <1>6 DEF Stack
      <4> QED
        BY <1>2, <1>6, <1>8, <4>2, <4>3
    <3>3. key # Last(scopes)
      BY <1>2, <1>3, <2>2, <3>1, <3>2
    <3> QED
      BY <1>10, <3>1, <3>3
  <2> QED
    BY <1>2, <1>3, <1>10, <2>1, <2>2, AheadPast
<1>13. \A y : Lookup(y, scopes, table') <=> Visible(program, y, next) \/ (isLocal /\ y = x)
  <2>1. CASE isLocal
    <3>1. scopes \in Seq(Nat)
      BY <1>2, <1>3 DEF Stack
    <3> QED
      BY <1>1, <1>2, <1>3, <2>1, <3>1, LookupDefined
  <2>2. CASE ~isLocal
    BY <1>1, <1>2, <2>2
  <2> QED
    BY <2>1, <2>2
<1>14. ASSUME NEW e \in Unresolved(table')
       PROVE  Explained(program, e) /\ Undefined(program, e)
  <2>1. \/ \E y \in Mentions(program[next].node.expr) :
             ~Lookup(y, scopes, table') /\ e = ErrorAt(next, "VariableNotDefined", y)
        \/ \E c : e = ErrorAt(next, "ClassNotDefined", c)
    BY UnresolvedAre
  <2>2. ASSUME NEW y \in Mentions(program[next].node.expr), ~Lookup(y, scopes, table')
        PROVE  ~Known(program, y, next)
    <3>1. ~Visible(program, y, next) /\ (isLocal => y # x)
      BY <1>13, <2>2
    <3>2. Depth(program, next) # 1 => y # x
      BY <1>2, <1>7, <3>1
    <3> QED
      BY <1>2, <3>1, <3>2, NotKnown
  <2> QED
    BY <2>1, <2>2 DEF ErrorAt, Explained, Undefined
<1>15. isLocal /\ Lookup(x, scopes, table) => Explained(program, e0) /\ Undefined(program, e0)
  <2> SUFFICES ASSUME isLocal, Lookup(x, scopes, table)
               PROVE  Explained(program, e0) /\ Undefined(program, e0)
    OBVIOUS
  <2>1. Depth(program, next) # 1 /\ Visible(program, x, next)
    BY <1>2, <1>7
  <2>2. Explained(program, e0)
    BY <1>1, <1>2, <2>1, LocalCollision
  <2>3. Undefined(program, e0)
    BY DEF ErrorAt, Undefined
  <2> QED
    BY <2>2, <2>3
<1>16. \A e \in errors' : e \in errors \/ (Explained(program, e) /\ Undefined(program, e))
  <2> HIDE DEF e0
  <2> QED
    BY <1>1, <1>14, <1>15
<1>17. errors' = {} => Sound(program, next + 1, DOMAIN table')
  <2> SUFFICES ASSUME errors' = {} PROVE Sound(program, next + 1, DOMAIN table')
    OBVIOUS
  <2>1. errors = {} /\ Unresolved(table') = {} /\ ~(isLocal /\ Lookup(x, scopes, table))
    BY <1>1
  <2>2. ASSUME NEW y \in Mentions(program[next].node.expr)
        PROVE  Met(program, y, next)
    <3>1. Lookup(y, scopes, table')
      BY <2>1, UnresolvedAre
    <3>2. Visible(program, y, next) \/ y = x
      BY <1>13, <3>1
    <3> QED
      BY <1>1, <1>2, <3>2, VisibleIsMet
  <2>3. ASSUME NEW e \in Declarations(program), e.at = next, e.body # 0
        PROVE  e \notin Stray(program) /\ \A d \in Declarations(program) : ~Shadows(program, d, e)
    <3>1. IsVariable(program, e)
      BY <1>1, <1>2, <2>3, DeclarationFields DEF IsParam, IsName, Functions
    <3>2. Depth(program, next) # 1
      BY <1>2, <2>3, <3>1, VariableBody
    <3>3. ~Visible(program, x, next)
      BY <1>2, <1>7, <2>1, <3>2
    <3> QED
      BY <1>1, <1>2, <2>3, <3>3, FreshVariable
  <2>4. \A d \in Stray(program) : d.at # next
    BY <2>3 DEF Stray
  <2>5. Sound(program, next, DOMAIN table)
    BY <1>3, <2>1
  <2> QED
    BY <1>2, <1>10, <2>2, <2>3, <2>4, <2>5, SoundStep
<1>18. next + 1 \in 1 .. Len(program) + 1 /\ DOMAIN table' \subseteq 0 .. Len(program)
  BY <1>2, <1>3, <1>10
<1> HIDE DEF x, isLocal, e0
<1> QED
  BY <1>1, <1>3, <1>9, <1>10, <1>11, <1>12, <1>16, <1>17, <1>18, LocalKept

LEMMA LocalBlockKeeps == SemInv /\ LocalBlock => SemInv'
<1> SUFFICES ASSUME SemInv, LocalBlock PROVE SemInv'
  OBVIOUS
<1>1. /\ phase = "local" /\ phase' = "local" /\ AtBody
      /\ Kind(program, next) \in {"block", "branch", "constructor", "method"}
      /\ errors' = errors \cup Unresolved(table)
      /\ scopes' = Append(scopes, next) /\ table' = Scoped(next, table)
      /\ open' = Append(open, next) /\ next' = next + 1
      /\ UNCHANGED <<program, phase, bindings>>
  BY DEF LocalBlock, Visited, Kind
<1>2. /\ Tree(program) /\ Len(program) \in Nat /\ next \in 1 .. Len(program)
      /\ Depth(program, next) = Len(open) + 1
      /\ Len(open) \in Nat /\ (open # <<>> => Len(open) >= 1)
  BY <1>1, LocalFacts, BodyFacts
<1>3. /\ Path(program, open, next) /\ Stack(program, open, scopes)
      /\ OpenFiled(program, open, table, next) /\ AheadFiled(program, open, table, next)
      /\ DOMAIN table \subseteq 0 .. Len(program)
      /\ \A key \in DOMAIN table : table[key] \subseteq Names
  BY <1>1, LocalFacts
<1>4. HasBody(program[next].node) /\ Kind(program, next) \notin {"class", "variable"}
  BY <1>1 DEF HasBody, Functions, Kind
<1>5. Path(program, open', next + 1)
  BY <1>1, <1>2, <1>3, <1>4, PathInto
<1>6. Stack(program, open', scopes')
  BY <1>1, <1>2, <1>3, <1>4, StackInto
\* Only a member was filed ahead of the walk.
<1>7. next \in DOMAIN table <=> HasScope(program, next)
  <2>1. ASSUME next \in DOMAIN table PROVE HasScope(program, next)
    BY <1>2, <1>3, <2>1 DEF AheadFiled
  <2>2. ASSUME HasScope(program, next) PROVE next \in DOMAIN table
    <3>1. Kind(program, next) \in Members
      BY <2>2 DEF HasScope, Members
    <3>2. Depth(program, next) > 1
      BY <1>2, <3>1, TreePlaced
    <3>3. Len(open) \in 1 .. Len(open)
      BY <1>2, <3>2
    <3>4. Parent(program, open[Len(open)], next) /\ open[Len(open)] \in 1 .. next - 1
      BY <1>2, <1>3, <3>3, PathAround
    <3>5. Kind(program, open[Len(open)]) = "class"
      BY <1>2, <3>1, <3>4, TreePlaced
    <3>6. InClass(program, open)
      BY <1>2, <1>3, <3>3, <3>5, ClassOutermost
    <3>7. \A h \in next .. next : Depth(program, h) > 1
      BY <1>2, <3>2
    <3>8. next \in next .. Len(program)
      BY <1>2
    <3> QED
      BY <1>3, <2>2, <3>6, <3>7, <3>8 DEF AheadFiled
  <2> QED
    BY <2>1, <2>2
<1>8. /\ next \in DOMAIN table' /\ DOMAIN table' = DOMAIN table \cup {next}
      /\ \A key \in DOMAIN table : table'[key] = table[key]
  <2>1. DOMAIN table' = DOMAIN table \cup {next}
    BY <1>1, ScopedDomain
  <2>2. \A key \in DOMAIN table : table'[key] = table[key]
    BY <1>1, ScopedIs
  <2> QED
    BY <2>1, <2>2
<1>9. table'[next] = Range(Params(program, next))
  <2>1. CASE next \in DOMAIN table
    BY <1>2, <1>3, <1>8, <2>1 DEF AheadFiled
  <2>2. CASE next \notin DOMAIN table
    <3>1. table'[next] = {}
      BY <1>1, <2>2, ScopedIs
    <3>2. Kind(program, next) \notin Functions
      BY <1>1, <1>7, <2>2 DEF HasScope, Functions
    <3>3. Params(program, next) = <<>>
      BY <1>2, <3>2, KindsOfLines DEF Params
    <3> QED
      BY <3>1, <3>3 DEF Range
  <2> QED
    BY <2>1, <2>2
<1>10. table'[next] \subseteq Names
  <2>1. Params(program, next) \in Seq(Names)
    BY <1>2, KindsOfLines DEF Params
  <2> QED
    BY <1>9, <2>1 DEF Range
<1>11. \A key \in DOMAIN table' : table'[key] \subseteq Names
  BY <1>3, <1>8, <1>10
<1>12. OpenFiled(program, open, table', next + 1)
  BY <1>2, <1>3, <1>4, <1>8, OpenPast
<1>13. OpenFiled(program, open', table', next + 1)
  BY <1>1, <1>2, <1>3, <1>8, <1>9, <1>12, OpenInto
<1>14. DOMAIN table' \subseteq 0 .. Len(program)
  BY <1>2, <1>3, <1>8
<1>15. AheadFiled(program, open', table', next + 1)
  <2>1. InClass(program, open) => Depth(program, next) > 1
    BY <1>2 DEF InClass
  <2>2. open \in Seq(Nat) /\ next \in Nat
    BY <1>2, <1>3 DEF Path
  <2>3. InClass(program, open') => InClass(program, open)
    BY <1>1, <1>4, <2>2, InClassInto DEF InClass
  <2>4. \A key \in DOMAIN table' : key >= next + 1 =>
          key \in DOMAIN table /\ table'[key] = table[key]
    BY <1>2, <1>8
  <2>5. DOMAIN table \subseteq DOMAIN table'
    BY <1>8
  <2> QED
    BY <1>2, <1>3, <1>14, <2>1, <2>3, <2>4, <2>5, AheadPast
<1>16. \A e \in Unresolved(table) : Explained(program, e) /\ Undefined(program, e)
  BY <1>1, <1>4, Resolved
<1>17. errors' = {} => Sound(program, next + 1, DOMAIN table')
  <2> SUFFICES ASSUME errors' = {} PROVE Sound(program, next + 1, DOMAIN table')
    OBVIOUS
  <2>1. errors = {} /\ Unresolved(table) = {}
    BY <1>1
  <2>2. \A x \in Mentions(program[next].node.expr) : Met(program, x, next)
    BY <1>1, <1>4, <2>1, Resolved
  \* The parameters of a member were declared with its class.
  <2>3. ASSUME NEW e \in Declarations(program), e.body # 0,
               e.at = next \/ e.at \in DOMAIN table' \ DOMAIN table
        PROVE  \A d \in Declarations(program) : ~Shadows(program, d, e)
    <3>1. e.at = next
      BY <1>8, <2>3
    <3>2. CASE HasScope(program, next)
      <4>1. Sound(program, next, DOMAIN table) /\ e.at \in DOMAIN table
        BY <1>1, <1>7, <2>1, <3>1, <3>2, LocalFacts
      <4> QED
        BY <2>3, <4>1 DEF Sound
    <3>3. CASE ~HasScope(program, next)
      <4>1. Kind(program, next) \notin {"variable", "class"} \cup Functions
        BY <1>1, <3>3 DEF HasScope, Functions
      <4> QED
        BY <1>2, <3>1, <4>1, NoDeclaration
    <3> QED
      BY <3>2, <3>3
  <2> QED
    BY <1>1, <1>4, <2>1, <2>2, <2>3, SoundPast
<1>18. next + 1 \in 1 .. Len(program) + 1
  BY <1>2
<1> QED
  BY <1>1, <1>5, <1>6, <1>11, <1>13, <1>14, <1>15, <1>16, <1>17, <1>18, LocalKept

LEMMA RangeOfParams ==
  ASSUME NEW p, Tree(p), NEW i \in 1 .. Len(p)
  PROVE  /\ Range(SubSeq(Params(p, i), 1, Len(Params(p, i)))) = Range(Params(p, i))
         /\ Range(Params(p, i)) \subseteq Names
<1> DEFINE ps == Params(p, i)
<1>1. ps \in Seq(Names)
  BY KindsOfLines DEF Params
<1> HIDE DEF ps
<1>2. Len(ps) \in Nat /\ DOMAIN ps = 1 .. Len(ps) /\ \A j \in 1 .. Len(ps) : ps[j] \in Names
  BY <1>1
<1>3. Range(ps) = {ps[j] : j \in 1 .. Len(ps)}
  BY <1>2 DEF Range
<1>4. Len(ps) + 1 \in 1 .. Len(ps) + 1 /\ (Len(ps) + 1) - 1 = Len(ps)
  BY <1>2
<1>5. Range(SubSeq(ps, 1, (Len(ps) + 1) - 1)) = {ps[j] : j \in 1 .. (Len(ps) + 1) - 1}
  BY <1>1, <1>4, FirstParams
<1>6. Range(SubSeq(ps, 1, Len(ps))) = Range(ps)
  BY <1>3, <1>4, <1>5
<1>7. Range(ps) \subseteq Names
  BY <1>2, <1>3
<1> QED
  BY <1>6, <1>7 DEF ps

\* The parameters of a body of which nothing is filed, when the stack finds only
\* what the program declares: what is reported of them, and what that says.
LEMMA ParamsReported ==
  ASSUME Tree(program), NEW i \in 1 .. Len(program), NEW t, i \notin DOMAIN t,
         NEW keys \in Seq(0 .. Len(program)), \A k \in DOMAIN keys : keys[k] \in DOMAIN t,
         GlobalsOnly(keys, t)
  PROVE  /\ \A e \in ParamsTaken(i, keys, t) : Explained(program, e) /\ Undefined(program, e)
         /\ /\ ParamsTaken(i, keys, t) = {}
            /\ \A b \in 1 .. i - 1 : Encloses(program, b, i) => Kind(program, b) = "class"
            => \A e \in Declarations(program) :
                 e.at = i /\ IsParam(program, e) =>
                   \A d \in Declarations(program) : ~Shadows(program, d, e)
<1> DEFINE taken == {j \in 1 .. Len(Params(program, i)) : ParamTaken(program, i, j)}
<1>1. ParamsTaken(i, keys, t) =
        {ErrorAt(i, "VariableAlreadyDefined", Params(program, i)[k]) : k \in taken}
  BY ParamsTakenAre
<1>2. ASSUME NEW e \in ParamsTaken(i, keys, t)
      PROVE  Explained(program, e) /\ Undefined(program, e)
  <2>1. PICK k \in taken : e = ErrorAt(i, "VariableAlreadyDefined", Params(program, i)[k])
    BY <1>1
  <2>2. Explained(program, e)
    BY <2>1, ParamCollision
  <2>3. Undefined(program, e)
    BY <2>1 DEF ErrorAt, Undefined
  <2> QED
    BY <2>2, <2>3
<1>3. ASSUME ParamsTaken(i, keys, t) = {},
             \A b \in 1 .. i - 1 : Encloses(program, b, i) => Kind(program, b) = "class",
             NEW e \in Declarations(program), e.at = i, IsParam(program, e)
      PROVE  \A d \in Declarations(program) : ~Shadows(program, d, e)
  <2>1. taken = {}
    BY <1>1, <1>3
  <2>2. \A k \in 1 .. Len(Params(program, e.at)) : ~ParamTaken(program, e.at, k)
    BY <1>3, <2>1
  <2>3. \A b \in 1 .. e.at - 1 : Encloses(program, b, e.at) => Kind(program, b) = "class"
    BY <1>3
  <2> QED
    BY <1>3, <2>2, <2>3, FreshParams
<1> QED
  BY <1>2, <1>3

\* Where a function or a class is visited the stack is the program's scope.
LEMMA TopFacts ==
  ASSUME SemInv, phase = "local", AtBody, Kind(program, next) \in {"function", "class"}
  PROVE  /\ open = <<>> /\ Depth(program, next) = 1 /\ Len(scopes) = 1 /\ scopes = <<0>>
         /\ 0 \in DOMAIN table /\ table[0] = Globals(program, Len(program) + 1)
         /\ \A i \in DOMAIN table : i < next
<1>1. /\ Tree(program) /\ Len(program) \in Nat /\ next \in 1 .. Len(program)
      /\ Depth(program, next) = Len(open) + 1 /\ Len(open) \in Nat
      /\ Path(program, open, next) /\ Stack(program, open, scopes)
      /\ OpenFiled(program, open, table, next) /\ AheadFiled(program, open, table, next)
      /\ DOMAIN table \subseteq 0 .. Len(program)
  BY LocalFacts, BodyFacts
<1>2. Depth(program, next) = 1
  BY <1>1, TreePlaced
<1>3. open = <<>>
  BY <1>1, <1>2 DEF Path
<1>4. Len(scopes) = 1
  BY <1>1, <1>3, StackFacts
<1>5. scopes = <<0>>
  <2>1. scopes \in Seq(0 .. Len(program)) /\ scopes[1] = 0
    BY <1>1 DEF Stack
  <2> QED
    BY <1>4, <2>1
<1>6. 0 \in DOMAIN table /\ table[0] = Globals(program, Len(program) + 1)
  BY <1>1 DEF OpenFiled
<1>7. ASSUME NEW i \in DOMAIN table PROVE i < next
  <2> SUFFICES ASSUME i >= next PROVE FALSE
    BY <1>1
  <2>1. next \in next .. i
    BY <1>1
  <2>2. Depth(program, next) > 1
    BY <1>1, <2>1 DEF AheadFiled
  <2> QED
    BY <1>2, <2>2
<1> QED
  BY <1>2, <1>3, <1>4, <1>5, <1>6, <1>7

LEMMA LocalFunctionKeeps == SemInv /\ LocalFunction => SemInv'
<1> SUFFICES ASSUME SemInv, LocalFunction PROVE SemInv'
  OBVIOUS
<1> DEFINE ps == Params(program, next)
<1>1. /\ phase = "local" /\ phase' = "local" /\ AtBody /\ Kind(program, next) = "function"
      /\ errors' = errors \cup ParamsTaken(next, scopes, table)
      /\ table' = WithParams(next, Len(ps), table)
      /\ scopes' = Append(scopes, next)
      /\ open' = Append(open, next) /\ next' = next + 1
      /\ UNCHANGED <<program, phase, bindings>>
  BY DEF LocalFunction, Visited, Kind, Params
<1>2. /\ Tree(program) /\ Len(program) \in Nat /\ next \in 1 .. Len(program)
      /\ Depth(program, next) = Len(open) + 1
      /\ Path(program, open, next) /\ Stack(program, open, scopes)
      /\ OpenFiled(program, open, table, next) /\ AheadFiled(program, open, table, next)
      /\ DOMAIN table \subseteq 0 .. Len(program)
      /\ \A key \in DOMAIN table : table[key] \subseteq Names
  BY <1>1, LocalFacts, BodyFacts
<1>3. /\ open = <<>> /\ Depth(program, next) = 1 /\ Len(scopes) = 1 /\ scopes = <<0>>
      /\ 0 \in DOMAIN table /\ table[0] = Globals(program, Len(program) + 1)
      /\ \A i \in DOMAIN table : i < next
  BY <1>1, TopFacts
<1>4. HasBody(program[next].node) /\ Kind(program, next) \notin {"class", "variable"}
  BY <1>1 DEF HasBody, Functions, Kind
<1>5. next \notin DOMAIN table
  BY <1>2, <1>3
<1>6. GlobalsOnly(scopes, table)
  BY <1>3 DEF GlobalsOnly, Lookup
<1>7. scopes \in Seq(0 .. Len(program)) /\ \A k \in DOMAIN scopes : scopes[k] \in DOMAIN table
  BY <1>2, <1>3
<1>8. Path(program, open', next + 1)
  BY <1>1, <1>2, <1>4, PathInto
<1>9. Stack(program, open', scopes')
  BY <1>1, <1>2, <1>4, StackInto
<1>10. DOMAIN table' = DOMAIN table \cup {next}
  BY <1>1, WithParamsDomain
<1>11. table'[next] = Range(SubSeq(ps, 1, Len(ps))) /\ \A key \in DOMAIN table : table'[key] = table[key]
  BY <1>1, <1>5, WithParamsIs
<1>12. table'[next] = Range(ps) /\ table'[next] \subseteq Names
  BY <1>2, <1>11, RangeOfParams
<1>13. \A key \in DOMAIN table' : table'[key] \subseteq Names
  BY <1>2, <1>10, <1>11, <1>12
<1>14. DOMAIN table' \subseteq 0 .. Len(program)
  BY <1>2, <1>10
<1>15. OpenFiled(program, open, table', next + 1)
  BY <1>2, <1>4, <1>10, <1>11, OpenPast
<1>16. OpenFiled(program, open', table', next + 1)
  BY <1>1, <1>2, <1>10, <1>12, <1>15, OpenInto
<1>17. AheadFiled(program, open', table', next + 1)
  <2>1. ~InClass(program, open)
    BY <1>3 DEF InClass
  <2>2. ~InClass(program, open')
    BY <1>1, <1>3 DEF InClass
  <2>3. \A key \in DOMAIN table' : key >= next + 1 =>
          key \in DOMAIN table /\ table'[key] = table[key]
    BY <1>2, <1>10, <1>11
  <2>4. DOMAIN table \subseteq DOMAIN table'
    BY <1>10
  <2> QED
    BY <1>2, <1>14, <2>1, <2>2, <2>3, <2>4, AheadPast
<1>18. \A b \in 1 .. next - 1 : ~Encloses(program, b, next)
  BY <1>2, <1>3, PathAround
<1>19. /\ \A e \in ParamsTaken(next, scopes, table) : Explained(program, e) /\ Undefined(program, e)
       /\ ParamsTaken(next, scopes, table) = {} =>
            \A e \in Declarations(program) :
              e.at = next /\ IsParam(program, e) =>
                \A d \in Declarations(program) : ~Shadows(program, d, e)
  BY <1>2, <1>5, <1>6, <1>7, <1>18, ParamsReported
<1>20. errors' = {} => Sound(program, next + 1, DOMAIN table')
  <2> SUFFICES ASSUME errors' = {} PROVE Sound(program, next + 1, DOMAIN table')
    OBVIOUS
  <2>1. errors = {} /\ ParamsTaken(next, scopes, table) = {}
    BY <1>1
  <2>2. Mentions(program[next].node.expr) = {}
    BY <1>1, <1>2, KindsOfLines
  <2>3. ASSUME NEW e \in Declarations(program), e.body # 0,
               e.at = next \/ e.at \in DOMAIN table' \ DOMAIN table
        PROVE  \A d \in Declarations(program) : ~Shadows(program, d, e)
    <3>1. e.at = next
      BY <1>10, <2>3
    <3>2. IsParam(program, e)
      BY <1>1, <1>2, <2>3, <3>1, DeclarationFields DEF IsVariable
    <3> QED
      BY <1>19, <2>1, <3>1, <3>2
  <2> QED
    BY <1>1, <1>4, <2>1, <2>2, <2>3, SoundPast
<1>21. next + 1 \in 1 .. Len(program) + 1
  BY <1>2
<1> HIDE DEF ps
<1> QED
  BY <1>1, <1>8, <1>9, <1>13, <1>14, <1>16, <1>17, <1>19, <1>20, <1>21, LocalKept

\* A member is in its class and in nothing else.
LEMMA ClassAroundMember ==
  ASSUME NEW p, Tree(p), NEW n \in 1 .. Len(p), Kind(p, n) \in Members,
         NEW b, Encloses(p, b, n)
  PROVE  Kind(p, b) = "class"
<1>1. Depth(p, n) > 1 /\ Depth(p, n) \in Nat
  BY TreePlaced, TreeLines
<1>2. PICK c \in 1 .. n - 1 : Parent(p, c, n)
  BY <1>1, ParentExists
<1>3. Kind(p, c) = "class" /\ c \in 1 .. Len(p)
  BY <1>2, TreePlaced, TreeLines
<1>4. Depth(p, c) = 1 /\ Depth(p, c) = Depth(p, n) - 1 /\ Encloses(p, c, n)
  BY <1>2, <1>3, TreePlaced DEF Parent
<1>5. Depth(p, b) < Depth(p, n) /\ b \in 1 .. Len(p)
  BY <1>4, Nested
<1>6. Depth(p, b) \in Nat /\ Depth(p, b) >= 1
  BY <1>5, TreeLines
<1>7. Depth(p, b) = Depth(p, c)
  BY <1>1, <1>4, <1>5, <1>6
<1> QED
  BY <1>3, <1>4, <1>7, Nested

LEMMA LocalClassKeeps == SemInv /\ LocalClass => SemInv'
<1> SUFFICES ASSUME SemInv, LocalClass PROVE SemInv'
  OBVIOUS
<1> DEFINE inClass == Scoped(next, table)
           keys == Append(scopes, next)
           members == {m \in next + 1 .. After(program, next) - 1 : HasScope(program, m)}
           taken == UNION {ParamsTaken(m, keys, inClass) : m \in members}
<1>1. /\ phase = "local" /\ phase' = "local" /\ AtBody /\ Kind(program, next) = "class"
      /\ errors' = errors \cup taken
      /\ table' = [key \in members \cup DOMAIN inClass |->
                     IF key \in members THEN Range(Params(program, key)) ELSE inClass[key]]
      /\ open' = Append(open, next) /\ next' = next + 1
      /\ UNCHANGED <<program, phase, scopes, bindings>>
  BY DEF LocalClass, Visited, Kind, Params, AfterBody, After, Depth, HasScope
<1>2. /\ Tree(program) /\ Len(program) \in Nat /\ next \in 1 .. Len(program)
      /\ Depth(program, next) = Len(open) + 1
      /\ Path(program, open, next) /\ Stack(program, open, scopes)
      /\ OpenFiled(program, open, table, next) /\ AheadFiled(program, open, table, next)
      /\ DOMAIN table \subseteq 0 .. Len(program)
      /\ \A key \in DOMAIN table : table[key] \subseteq Names
  BY <1>1, LocalFacts, BodyFacts
<1>3. /\ open = <<>> /\ Depth(program, next) = 1 /\ Len(scopes) = 1 /\ scopes = <<0>>
      /\ 0 \in DOMAIN table /\ table[0] = Globals(program, Len(program) + 1)
      /\ \A i \in DOMAIN table : i < next
  BY <1>1, TopFacts
<1>4. HasBody(program[next].node)
  BY <1>1 DEF HasBody, Kind
<1>5. next \notin DOMAIN table
  BY <1>2, <1>3
<1>6. DOMAIN inClass = DOMAIN table \cup {next}
  BY ScopedDomain
<1>7. inClass[next] = {} /\ \A key \in DOMAIN table : inClass[key] = table[key]
  BY <1>5, ScopedIs
<1>8. keys = <<0, next>>
  BY <1>3
<1>9. /\ members \subseteq 1 .. Len(program)
      /\ \A m \in members : m > next /\ Kind(program, m) \in Members \cap Functions
  BY <1>2, AfterFacts DEF HasScope, Members, Functions
<1> HIDE DEF inClass, keys, members, taken
<1>10. \A m \in members : m \notin DOMAIN inClass
  BY <1>2, <1>3, <1>6, <1>9
<1>11. GlobalsOnly(keys, inClass)
  <2>1. \A x : Lookup(x, keys, inClass) <=> x \in inClass[0] \/ x \in inClass[next]
    BY <1>8 DEF Lookup
  <2>2. inClass[0] = Globals(program, Len(program) + 1)
    BY <1>3, <1>7
  <2> QED
    BY <1>7, <2>1, <2>2 DEF GlobalsOnly
<1>12. keys \in Seq(0 .. Len(program)) /\ \A k \in DOMAIN keys : keys[k] \in DOMAIN inClass
  BY <1>2, <1>3, <1>6, <1>8
<1>13. Path(program, open', next + 1)
  BY <1>1, <1>2, <1>4, PathInto
<1>14. Stack(program, open', scopes)
  BY <1>1, <1>2, <1>3, StackIntoClass
<1>15. DOMAIN table' = members \cup DOMAIN table \cup {next}
  BY <1>1, <1>6
<1>16. \A m \in members : table'[m] = Range(Params(program, m))
  BY <1>1, <1>6
<1>17. \A key \in DOMAIN table : table'[key] = table[key]
  <2> SUFFICES ASSUME NEW key \in DOMAIN table PROVE table'[key] = table[key]
    OBVIOUS
  <2>1. key \in DOMAIN inClass /\ key \notin members
    BY <1>6, <1>10
  <2> QED
    BY <1>1, <1>7, <2>1
<1>18. table'[next] = {}
  <2>1. next \in DOMAIN inClass /\ next \notin members
    BY <1>6, <1>10
  <2> QED
    BY <1>1, <1>7, <2>1
<1>19. \A key \in DOMAIN table' : table'[key] \subseteq Names
  <2> SUFFICES ASSUME NEW key \in DOMAIN table' PROVE table'[key] \subseteq Names
    OBVIOUS
  <2>1. CASE key \in members
    BY <1>2, <1>9, <1>16, <2>1, RangeOfParams
  <2>2. CASE key \in DOMAIN table
    BY <1>2, <1>17, <2>2
  <2>3. CASE key = next
    BY <1>18, <2>3
  <2> QED
    BY <1>15, <2>1, <2>2, <2>3
<1>20. DOMAIN table' \subseteq 0 .. Len(program)
  <2>1. members \subseteq 0 .. Len(program)
    BY <1>2, <1>9
  <2>2. next \in 0 .. Len(program)
    BY <1>2
  <2> QED
    BY <1>2, <1>15, <2>1, <2>2
<1>21. OpenFiled(program, open, table', next + 1)
  BY <1>1, <1>2, <1>3, <1>15, <1>17, OpenPast
<1>22. OpenFiled(program, open', table', next + 1)
  BY <1>1, <1>2, <1>21, OpenInto
<1>23. AheadFiled(program, open', table', next + 1)
  <2>1. members = {m \in next + 1 .. After(program, next) - 1 : HasScope(program, m)}
    BY DEF members
  <2>2. AheadFiled(program, <<>>, table, next)
    BY <1>2, <1>3
  <2>3. AheadFiled(program, Append(<<>>, next), table', next + 1)
    BY <1>1, <1>2, <1>15, <1>16, <2>1, <2>2, AheadClass
  <2> QED
    BY <1>1, <1>3, <2>3
<1>24. ASSUME NEW m \in members
       PROVE  /\ \A e \in ParamsTaken(m, keys, inClass) : Explained(program, e) /\ Undefined(program, e)
              /\ ParamsTaken(m, keys, inClass) = {} =>
                   \A e \in Declarations(program) :
                     e.at = m /\ IsParam(program, e) =>
                       \A d \in Declarations(program) : ~Shadows(program, d, e)
  <2>1. m \in 1 .. Len(program) /\ Kind(program, m) \in Members /\ m \notin DOMAIN inClass
    BY <1>9, <1>10
  <2>2. \A b \in 1 .. m - 1 : Encloses(program, b, m) => Kind(program, b) = "class"
    BY <1>2, <2>1, ClassAroundMember
  <2> QED
    BY <1>2, <1>11, <1>12, <2>1, <2>2, ParamsReported
<1>25. \A e \in errors' : e \in errors \/ (Explained(program, e) /\ Undefined(program, e))
  BY <1>1, <1>24 DEF taken
<1>26. errors' = {} => Sound(program, next + 1, DOMAIN table')
  <2> SUFFICES ASSUME errors' = {} PROVE Sound(program, next + 1, DOMAIN table')
    OBVIOUS
  <2>1. errors = {} /\ \A m \in members : ParamsTaken(m, keys, inClass) = {}
    BY <1>1 DEF taken
  <2>2. Mentions(program[next].node.expr) = {}
    BY <1>1, <1>2, KindsOfLines
  <2>3. ASSUME NEW e \in Declarations(program), e.body # 0,
               e.at = next \/ e.at \in DOMAIN table' \ DOMAIN table
        PROVE  \A d \in Declarations(program) : ~Shadows(program, d, e)
    <3>1. e.at # next
      <4> SUFFICES ASSUME e.at = next PROVE FALSE
        OBVIOUS
      <4>1. ~IsParam(program, e) /\ ~IsVariable(program, e)
        BY <1>1 DEF IsParam, IsVariable, Functions
      <4> QED
        BY <1>2, <2>3, <4>1, DeclarationFields
    <3>2. e.at \in members
      BY <1>15, <2>3, <3>1
    <3>3. IsParam(program, e)
      <4>1. Kind(program, e.at) \in Members
        BY <1>9, <3>2
      <4> QED
        BY <1>2, <4>1, DeclarationFields DEF IsName, IsVariable, Members
    <3> QED
      BY <1>24, <2>1, <3>2, <3>3
  <2> QED
    BY <1>1, <2>1, <2>2, <2>3, SoundPast
<1>27. next + 1 \in 1 .. Len(program) + 1
  BY <1>2
<1> QED
  BY <1>1, <1>13, <1>14, <1>19, <1>20, <1>22, <1>23, <1>25, <1>26, <1>27, LocalKept

-----------------------------------------------------------------------------
(* The theorems.                                                            *)

\* What the scopes hold follows the text through both passes.
LEMMA SemInvKept == SemInv /\ [SemNext]_semVars => SemInv'
BY Unchanged, ParseKeeps, ParsedKeeps, GlobalFunctionKeeps, GlobalClassKeeps,
   GlobalVariableKeeps, GlobalOtherKeeps, GlobalDoneKeeps, LocalVariableKeeps,
   LocalExpressionKeeps, LocalUnwrapKeeps, LocalFunctionKeeps, LocalClassKeeps,
   LocalBlockKeeps, LocalLeaveKeeps, LocalDoneKeeps
   DEF SemNext

LEMMA SemInvHolds == SemSpec => []SemInv
BY InitKept, SemInvKept, PTL DEF SemSpec

LEMMA SemInvTypes == SemInv => SemTypeOK
<1> SUFFICES ASSUME SemInv PROVE SemTypeOK
  OBVIOUS
<1>1. Typed /\ Tree(program)
  BY DEF SemInv, Typed
<1>2. Len(program) \in Nat /\ DOMAIN program = 1 .. Len(program)
  BY <1>1, TreeLines
<1>3. \A i \in DOMAIN program : program[i].depth \in 1 .. MaxDepth /\ program[i].node \in Vocabulary
  BY <1>1, <1>2, TreeLines DEF Depth
<1>4. Range(open) \subseteq DOMAIN program
  <2>1. CASE phase \in {"parse", "global", "accepted", "rejected"}
    <3>1. open = <<>>
      BY <2>1 DEF SemInv, Parsing, Declaring, Finished
    <3> QED
      BY <3>1 DEF Range
  <2>2. CASE phase \in {"local", "panicked"}
    <3>1. open \in Seq(1 .. Len(program))
      BY <2>2 DEF SemInv, Walking, Path
    <3> QED
      BY <1>2, <3>1 DEF Range
  <2> QED
    BY <1>1, <2>1, <2>2 DEF Typed
<1>5. Range(scopes) \subseteq DOMAIN table
  <2>1. CASE phase = "parse"
    BY <2>1 DEF SemInv, Parsing, Range
  <2>2. CASE phase \in {"global", "accepted", "rejected"}
    <3>1. scopes = <<0>> /\ 0 \in DOMAIN table
      BY <2>2 DEF SemInv, Declaring, Finished
    <3> QED
      BY <3>1 DEF Range
  <2>3. CASE phase \in {"local", "panicked"}
    <3>1. /\ Path(program, open, next) /\ Stack(program, open, scopes)
          /\ OpenFiled(program, open, table, next)
      BY <2>3 DEF SemInv, Walking
    <3>2. next \in Nat
      BY <1>1, <1>2 DEF Typed
    <3>3. /\ Len(scopes) \in Nat /\ DOMAIN scopes = 1 .. Len(scopes)
          /\ \A k \in 1 .. Len(scopes) :
               scopes[k] = 0 \/ \E m \in 1 .. Len(open) :
                                  scopes[k] = open[m] /\ Kind(program, open[m]) # "class"
      BY <1>1, <3>1, <3>2, StackFacts
    <3>4. \A k \in 1 .. Len(scopes) : scopes[k] \in DOMAIN table
      BY <3>1, <3>3 DEF OpenFiled
    <3> QED
      BY <3>3, <3>4 DEF Range
  <2> QED
    BY <1>1, <2>1, <2>2, <2>3 DEF Typed
<1>6. phase \in {"accepted", "rejected"} => scopes = <<0>>
  BY DEF SemInv, Finished
<1>7. DOMAIN table \subseteq {0} \cup DOMAIN program
  BY <1>1, <1>2 DEF Typed
<1> QED
  BY <1>1, <1>2, <1>3, <1>4, <1>5, <1>6, <1>7 DEF SemTypeOK, Typed

LEMMA SemInvResolves == SemInv => IdentifiersResolved
<1> SUFFICES ASSUME SemInv PROVE IdentifiersResolved
  OBVIOUS
<1>1. Tree(program) /\ Len(program) \in Nat /\ DOMAIN program = 1 .. Len(program)
  BY TreeLines DEF SemInv, Typed
<1>2. \A x, i : InProgram(x, i) <=> Known(program, x, i)
  BY DEF InProgram, Known, Declared
<1>3. ASSUME phase = "accepted", NEW i \in DOMAIN program, NEW x \in Mentions(program[i].node.expr)
      PROVE  InProgram(x, i)
  <2>1. Sound(program, Len(program) + 1, {})
    BY <1>3 DEF SemInv, Finished
  <2>2. Met(program, x, i)
    BY <1>1, <1>3, <2>1 DEF Sound
  <2>3. \A d \in Stray(program) : FALSE
    <3>1. \A d \in Stray(program) : d.at >= Len(program) + 1 /\ d.at \in 1 .. Len(program)
      BY <1>1, <2>1, DeclarationFields DEF Sound, Stray
    <3> QED
      BY <1>1, <3>1
  <2> QED
    BY <1>2, <2>2, <2>3 DEF Met
<1>4. ASSUME NEW e \in errors, e.kind = "VariableNotDefined"
      PROVE  ~InProgram(e.name, e.at)
  BY <1>2, <1>4 DEF SemInv, Reported, Undefined
<1> QED
  BY <1>3, <1>4 DEF IdentifiersResolved

LEMMA SemInvShadows == SemInv => NothingShadowed
<1> SUFFICES ASSUME SemInv, phase = "accepted", NEW d \in Declared, NEW e \in Declared,
                    d # e, d.name = e.name, InScope(program, d, e.at)
             PROVE  /\ d.body = 0 /\ e.body = 0
                    /\ IF d.at < e.at THEN IsClass(e) ELSE IsClass(d)
  BY DEF NothingShadowed
<1>1. Tree(program) /\ Len(program) \in Nat
  BY TreeLines DEF SemInv, Typed
<1>2. d \in Declarations(program) /\ e \in Declarations(program)
  BY DEF Declared
<1>3. d.at \in 1 .. Len(program) /\ e.at \in 1 .. Len(program)
  BY <1>1, <1>2, DeclarationFields
<1>4. Sound(program, Len(program) + 1, {}) /\ GlobalsApart(program, Len(program) + 1)
  BY DEF SemInv, Finished
<1>5. \A f, g \in Declarations(program) : f.body # 0 /\ f.at \in 1 .. Len(program) => ~Shadows(program, g, f)
  BY <1>1, <1>4 DEF Sound
<1>6. e.body = 0
  BY <1>2, <1>3, <1>5 DEF Shadows
\* Were d in a body, then e would be in scope where it stands.
<1>7. d.body = 0
  <2>1. e.body = 0 => InScope(program, e, d.at)
    BY DEF InScope
  <2> QED
    BY <1>2, <1>3, <1>5, <1>6, <2>1 DEF Shadows
<1>8. /\ GlobalLine(program, d.at) /\ d.name = NameAt(program, d.at) /\ d.index = 0
      /\ GlobalLine(program, e.at) /\ e.name = NameAt(program, e.at) /\ e.index = 0
  BY <1>1, <1>2, <1>6, <1>7, GlobalDeclarations
<1>9. d.at # e.at
  BY <1>1, <1>2, <1>8, OneOfALine
<1>10. /\ d.at < e.at => Kind(program, e.at) = "class"
       /\ e.at < d.at => Kind(program, d.at) = "class"
  <2>1. d.at \in 1 .. (Len(program) + 1) - 1 /\ e.at \in 1 .. (Len(program) + 1) - 1
    BY <1>1, <1>3
  <2>2. NameAt(program, d.at) = NameAt(program, e.at)
    BY <1>8
  <2>3. ASSUME d.at < e.at PROVE Kind(program, e.at) = "class"
    BY <1>4, <1>8, <2>1, <2>2, <2>3 DEF GlobalsApart
  <2>4. ASSUME e.at < d.at PROVE Kind(program, d.at) = "class"
    BY <1>4, <1>8, <2>1, <2>2, <2>4 DEF GlobalsApart
  <2> QED
    BY <2>3, <2>4
<1> QED
  BY <1>1, <1>3, <1>6, <1>7, <1>9, <1>10 DEF IsClass, Kind

LEMMA SemInvExplains == SemInv => CollisionsExplained
<1> SUFFICES ASSUME SemInv PROVE CollisionsExplained
  OBVIOUS
<1>1. Tree(program) /\ Len(program) \in Nat
  BY TreeLines DEF SemInv, Typed
<1>2. BlockVariables = Stray(program)
  BY DEF BlockVariables, Stray, Declared, Kind
<1>3. ASSUME NEW e \in errors, e.kind = "VariableAlreadyDefined"
      PROVE  \E d \in Declared :
               /\ d.name = e.name /\ d.at = e.at
               /\ \/ d \in BlockVariables
                  \/ \E f \in Declared \ {d} :
                       /\ f.name = d.name
                       /\ (InScope(program, f, d.at) \/ f \in BlockVariables)
  <2>1. Explained(program, e)
    BY DEF SemInv, Reported
  <2> QED
    BY <1>2, <1>3, <2>1 DEF Explained, Declared
<1>4. ASSUME phase = "accepted" PROVE BlockVariables = {}
  <2>1. Sound(program, Len(program) + 1, {})
    BY <1>4 DEF SemInv, Finished
  <2>2. \A d \in Stray(program) : d.at >= Len(program) + 1 /\ d.at \in 1 .. Len(program)
    BY <1>1, <2>1, DeclarationFields DEF Sound, Stray
  <2> QED
    BY <1>1, <1>2, <2>2
<1> QED
  BY <1>3, <1>4 DEF CollisionsExplained

\* SemTypeOK holds of every program: a finished pass has left exactly the scope
\* it entered first (locals/mod.rs:34 and 36), however bodies nest.
THEOREM SemanticsTyped == SemSpec => []SemTypeOK
BY SemInvHolds, SemInvTypes, PTL

\* IdentifiersResolved holds of every program: what semantic analysis accepts
\* mentions only what is in scope, and what it reports as undefined is not.
THEOREM SemanticsResolves == SemSpec => []IdentifiersResolved
BY SemInvHolds, SemInvResolves, PTL

\* NothingShadowed holds of every program: in what semantic analysis accepts only
\* a class takes a name that is in scope.
THEOREM SemanticsShadows == SemSpec => []NothingShadowed
BY SemInvHolds, SemInvShadows, PTL

\* CollisionsExplained holds of every program: a collision that is reported is
\* one, or the variable of a block outside every function, which is never accepted.
THEOREM SemanticsExplains == SemSpec => []CollisionsExplained
BY SemInvHolds, SemInvExplains, PTL
=============================================================================
