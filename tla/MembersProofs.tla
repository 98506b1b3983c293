---------------------------- MODULE MembersProofs ----------------------------
(***************************************************************************)
(* What the compiler gives up on, and where the fields of an object are, for *)
(* every program: both come down to the bindings of a class, which hold the *)
(* members of its last declaration.                                         *)
(***************************************************************************)
EXTENDS CodegenProofs

-----------------------------------------------------------------------------
(* The members of a class.                                                  *)

\* What a class encloses is what is before the next line of its depth.
LEMMA EnclosedLines ==
  ASSUME NEW p, Tree(p), NEW k \in 1 .. Len(p), Kind(p, k) = "class", NEW j \in 1 .. Len(p)
  PROVE  Encloses(p, k, j) <=> j \in k + 1 .. After(p, k) - 1
<1>1. /\ Len(p) \in Nat /\ k \in Nat /\ k >= 1 /\ j \in Nat /\ Depth(p, k) = 1
      /\ After(p, k) \in k + 1 .. Len(p) + 1
      /\ After(p, k) <= Len(p) => Depth(p, After(p, k)) = 1
  BY TreeLines, TreePlaced, AfterFacts
<1>2. j \in k + 1 .. After(p, k) - 1 => Encloses(p, k, j)
  BY Skipped
<1>3. ASSUME Encloses(p, k, j), j >= After(p, k) PROVE FALSE
  <2>1. After(p, k) \in k + 1 .. j /\ After(p, k) <= Len(p)
    BY <1>1, <1>3
  <2>2. Depth(p, After(p, k)) > 1
    BY <1>1, <1>3, <2>1 DEF Encloses
  <2> QED
    BY <1>1, <2>1, <2>2
<1>4. Encloses(p, k, j) => j > k
  BY <1>1 DEF Encloses
<1> QED
  BY <1>1, <1>2, <1>3, <1>4

LEMMA MembersAre ==
  ASSUME Tree(source), NEW k \in 1 .. Len(source), Kind(source, k) = "class", NEW kind
  PROVE  MembersIn(k, kind) = ClassMembers(source, k, kind)
<1> DEFINE S == {j \in DOMAIN source : source[j].node.kind = kind /\ Within(source, j, k)}
           T == MemberLines(source, kind, k, After(source, k) - 1)
<1>1. DOMAIN source = 1 .. Len(source) /\ k \in Nat /\ k # 0
  BY TreeLines
<1>2. \A j \in 1 .. Len(source) : Within(source, j, k) <=> j \in k + 1 .. After(source, k) - 1
  BY <1>1, WithinMeans, EnclosedLines
<1>3. \A j \in k + 1 .. After(source, k) - 1 : j \in 1 .. Len(source)
  BY AfterFacts
<1>4. S = T
  BY <1>1, <1>2, <1>3 DEF MemberLines, Kind
<1>5. MembersIn(k, kind) = {source[j].node.name : j \in S}
  BY DEF MembersIn
<1>6. ClassMembers(source, k, kind) = {NameAt(source, j) : j \in T}
  BY DEF ClassMembers, MemberNames
<1> HIDE DEF S, T
<1> QED
  BY <1>4, <1>5, <1>6 DEF NameAt

\* The bindings know the classes of the text, and the members of the last of a name.
LEMMA BindingsMean ==
  ASSUME Tree(source), NEW B, AllBound(source, Len(source) + 1, B), NEW c
  PROVE  /\ c \in DOMAIN B <=> ClassLines(c) # {}
         /\ c \in DOMAIN B =>
              LET k == Max(ClassLines(c))
              IN  /\ c \in NamesOf("class") /\ B[c] \in ClassBindings
                  /\ Range(B[c].fields) = MembersIn(k, "field")
                  /\ Range(B[c].methods) = MembersIn(k, "method")
<1>1. DOMAIN source = 1 .. Len(source) /\ Len(source) \in Nat
  BY TreeLines
<1>2. \A k : k \in ClassLines(c) <=> k \in 1 .. Len(source) /\ Kind(source, k) = "class" /\ NameAt(source, k) = c
  BY <1>1 DEF ClassLines, Kind, NameAt
<1>3. ASSUME ClassLines(c) # {} PROVE c \in DOMAIN B
  <2>1. PICK k \in 1 .. Len(source) : Kind(source, k) = "class" /\ NameAt(source, k) = c
    BY <1>2, <1>3
  <2>2. k \in 1 .. (Len(source) + 1) - 1
    BY <1>1
  <2>3. c \in Classes(source, Len(source) + 1)
    BY <2>1, <2>2 DEF Classes
  <2> QED
    BY <2>3 DEF AllBound
<1>4. ASSUME c \in DOMAIN B
      PROVE  /\ ClassLines(c) # {}
             /\ c \in NamesOf("class") /\ B[c] \in ClassBindings
             /\ Range(B[c].fields) = MembersIn(Max(ClassLines(c)), "field")
             /\ Range(B[c].methods) = MembersIn(Max(ClassLines(c)), "method")
  <2>1. Bound(source, Len(source) + 1, c, B[c])
    BY <1>4 DEF AllBound
  <2>2. PICK k : /\ LastClass(source, Len(source) + 1, c, k)
                 /\ Range(B[c].fields) = ClassMembers(source, k, "field")
                 /\ Range(B[c].methods) = ClassMembers(source, k, "method")
    BY <2>1 DEF Bound
  <2>3. k \in ClassLines(c) /\ k \in 1 .. Len(source) /\ Kind(source, k) = "class"
    BY <1>1, <1>2, <2>2 DEF LastClass
  <2>4. \A j \in ClassLines(c) : j <= k
    <3> SUFFICES ASSUME NEW j \in ClassLines(c), ~ j <= k PROVE FALSE
      OBVIOUS
    <3>1. j \in k + 1 .. (Len(source) + 1) - 1
      BY <1>1, <1>2, <2>3
    <3> QED
      BY <1>2, <2>2, <3>1 DEF LastClass
  <2>5. Max(ClassLines(c)) = k
    <3>1. ClassLines(c) \subseteq Nat /\ ClassLines(c) # {} /\ k \in Nat
      BY <1>1, <1>2, <2>3
    <3>2. /\ Max(ClassLines(c)) \in ClassLines(c)
          /\ \A j \in ClassLines(c) : j <= Max(ClassLines(c))
      BY <2>4, <3>1, MaxFacts
    <3>3. k <= Max(ClassLines(c)) /\ Max(ClassLines(c)) <= k /\ Max(ClassLines(c)) \in Nat
      BY <2>3, <2>4, <3>1, <3>2
    <3> QED
      BY <3>1, <3>3
  <2>6. c \in NamesOf("class") /\ B[c] \in ClassBindings
    BY <2>1, BoundMeans, ClassNames DEF Bound
  <2>7. /\ MembersIn(k, "field") = ClassMembers(source, k, "field")
        /\ MembersIn(k, "method") = ClassMembers(source, k, "method")
    BY <2>3, MembersAre
  <2> QED
    BY <2>2, <2>3, <2>5, <2>6, <2>7
<1> QED
  BY <1>3, <1>4

-----------------------------------------------------------------------------
(* What becomes of a line, and why.                                         *)

\* What BadMember says of a line.
BadLine(i) ==
  LET e == source[i].node.expr
      k == Max(ClassLines(ClassAt(i)))
  IN  IF ClassOf(source, i) = 0 THEN \E c \in Created(e) : ClassLines(c) = {}
      ELSE ~(/\ FieldsUsed(e) \subseteq MembersIn(k, "field")
             /\ MethodsUsed(e) \subseteq MembersIn(k, "method"))
ForeignLine(i) == Foreign(source[i].node.expr, ClassOf(source, i) # 0)
ArrayLine(i) == Has(source[i].node.expr, "array")

\* The reasons for what becomes of the expression of line i.
Reasons(i, h) ==
  /\ Has(h, "panic") => BadLine(i)
  /\ ~Has(h, "panic") /\ ~Printable(h) => ArrayLine(i)
  /\ ~GivesUp(h) /\ ~Generates(MirLowered(h)) => ForeignLine(i)

LEMMA LineJudged ==
  ASSUME Tree(source), NEW B, AllBound(source, Len(source) + 1, B),
         NEW i \in 1 .. Len(source), NEW kind, NEW h, Hir(source, B, i, kind, h),
         Kind(source, i) \in Statements \cup {"function"}
  PROVE  /\ Reasons(i, h)
         /\ ~GivesUp(h) /\ Generates(MirLowered(h)) =>
              ~BadLine(i) /\ ~ArrayLine(i) /\ ~ForeignLine(i)
<1> DEFINE e == source[i].node.expr
           c == ClassName(source, i)
           foreign == ForeignLine(i)
<1>1. source[i].node \in Vocabulary
  BY TreeLines
<1>2. CASE ClassOf(source, i) = 0
  <2>1. h = NewLowered(e, DOMAIN B)
    BY <1>2 DEF Hir
  <2>2. DOMAIN B \in SUBSET NamesOf("class") /\ \A x : x \in DOMAIN B <=> ClassLines(x) # {}
    BY BindingsMean
  <2>3. Judged(e, h, ~(Created(e) \subseteq DOMAIN B), Foreign(e, FALSE))
    BY <1>1, <2>1, <2>2, MembersAssumption
  <2>4. BadLine(i) <=> ~(Created(e) \subseteq DOMAIN B)
    BY <1>2, <2>2 DEF BadLine
  <2>5. foreign <=> Foreign(e, FALSE)
    <3>1. (ClassOf(source, i) # 0) = FALSE
      BY <1>2
    <3> QED
      BY <3>1, Zenon DEF ForeignLine
  <2> HIDE DEF foreign
  <2> QED
    BY <2>3, <2>4, <2>5 DEF Judged, Reasons, GivesUp, ArrayLine, foreign
<1>3. CASE ClassOf(source, i) # 0
  <2> DEFINE b == B[c]
             k == Max(ClassLines(c))
  <2>1. h = ClassLowered(e, c, b)
    BY <1>3 DEF Hir
  <2>2. c \in DOMAIN B /\ c = ClassAt(i)
    BY <1>3, ClassBoundThere DEF ClassName, ClassAt, NameAt
  <2>3. /\ c \in NamesOf("class") /\ b \in ClassBindings
        /\ Range(b.fields) = MembersIn(k, "field")
        /\ Range(b.methods) = MembersIn(k, "method")
    BY <2>2, BindingsMean
  <2> HIDE DEF b
  <2>4. Judged(e, h, ~(/\ FieldsUsed(e) \subseteq Range(b.fields)
                       /\ MethodsUsed(e) \subseteq Range(b.methods)), Foreign(e, TRUE))
    BY <1>1, <2>1, <2>3, MembersAssumption
  <2>5. BadLine(i) <=> ~(/\ FieldsUsed(e) \subseteq Range(b.fields)
                         /\ MethodsUsed(e) \subseteq Range(b.methods))
    BY <1>3, <2>2, <2>3 DEF BadLine
  <2>6. foreign <=> Foreign(e, TRUE)
    <3>1. (ClassOf(source, i) # 0) = TRUE
      BY <1>3
    <3> QED
      BY <3>1, Zenon DEF ForeignLine
  <2> HIDE DEF foreign
  <2> QED
    BY <2>4, <2>5, <2>6 DEF Judged, Reasons, GivesUp, ArrayLine, foreign
<1> QED
  BY <1>2, <1>3

\* What the lowering makes up compiles.
LEMMA MadeUp ==
  ASSUME Tree(source), NEW B, AllBound(source, Len(source) + 1, B),
         NEW i \in 1 .. Len(source), NEW kind, NEW h, Hir(source, B, i, kind, h),
         \/ Kind(source, i) = "constructor" /\ kind \in {"function", "variable", "expression"}
         \/ Kind(source, i) = "method" /\ kind = "function"
  PROVE  Compiles(h)
<1>1. CASE kind = "function"
  BY <1>1, MembersAssumption DEF Hir
<1>2. CASE kind = "expression" /\ Kind(source, i) = "constructor"
  BY <1>2, ExpressionsAssumption DEF Hir
<1>3. CASE kind = "variable" /\ Kind(source, i) = "constructor"
  <2> DEFINE b == B[ClassName(source, i)]
  <2>1. h = FunctionCall("malloc", <<Literal(Size(b))>>)
    BY <1>3 DEF Hir
  <2>2. ClassOf(source, i) # 0
    BY <1>3, ClassOfMember DEF Members
  <2>3. b \in ClassBindings
    BY <2>2, ClassBoundThere DEF Bound
  <2> HIDE DEF b
  <2> QED
    BY <2>1, <2>3, ExpressionsAssumption
<1> QED
  BY <1>1, <1>2, <1>3

\* A line of a lowered program comes from a statement or a function, or is made up
\* for a member of a class.
LEMMA OriginKinds ==
  ASSUME Tree(source), NEW q, NEW o, NEW m, Traced(source, q, o, m, Len(source)),
         NEW k \in 1 .. Len(q)
  PROVE  /\ o[k] \in 1 .. Len(source)
         /\ \/ Kind(source, o[k]) \in Statements \cup {"function"}
            \/ /\ Kind(source, o[k]) = "constructor"
               /\ Kind(q, k) \in {"function", "variable", "expression"}
            \/ Kind(source, o[k]) = "method" /\ Kind(q, k) = "function"
<1>1. o[k] \in 1 .. Len(source)
  BY DEF Traced
<1>2. CASE k \in m
  <2>1. CASE Kind(source, o[k]) \in Functions
    <3>1. Kind(q, k) = "function"
      BY <1>2, <2>1, Origins
    <3> QED
      BY <1>1, <2>1, <3>1 DEF Functions
  <2>2. CASE Kind(source, o[k]) \notin Functions
    <3>1. Kind(q, k) # "function"
      BY <1>2, <2>2, Origins
    <3> QED
      BY <1>1, <1>2, <3>1, Origins
  <2> QED
    BY <2>1, <2>2
<1>3. CASE k \notin m
  <2>1. Synthetic(source, q, o, m, k)
    BY <1>3 DEF Traced
  <2> QED
    BY <1>1, <2>1 DEF Synthetic
<1> QED
  BY <1>2, <1>3

LEMMA LineReasons ==
  ASSUME Tree(source), NEW B, AllBound(source, Len(source) + 1, B),
         NEW q, NEW o, NEW m, Traced(source, q, o, m, Len(source)),
         NEW k \in 1 .. Len(q), NEW h, Hir(source, B, o[k], Kind(q, k), h)
  PROVE  o[k] \in 1 .. Len(source) /\ Reasons(o[k], h)
<1>1. /\ o[k] \in 1 .. Len(source)
      /\ \/ Kind(source, o[k]) \in Statements \cup {"function"}
         \/ /\ Kind(source, o[k]) = "constructor"
            /\ Kind(q, k) \in {"function", "variable", "expression"}
         \/ Kind(source, o[k]) = "method" /\ Kind(q, k) = "function"
  BY OriginKinds
<1>2. CASE Kind(source, o[k]) \in Statements \cup {"function"}
  BY <1>1, <1>2, LineJudged
<1>3. CASE Kind(source, o[k]) \notin Statements \cup {"function"}
  <2>1. Compiles(h)
    BY <1>1, <1>3, MadeUp
  <2> QED
    BY <1>1, <2>1 DEF Compiles, Reasons, GivesUp
<1> QED
  BY <1>2, <1>3

-----------------------------------------------------------------------------
(* What the compiler gives up on.                                            *)

Translates(k) ==
  Kind(program, k) \in {"variable", "expression", "branch"} => Generates(program[k].node.expr)

\* There are instructions for the lines before the next, and for all of a module.
GeneratesInv ==
  /\ output = "generating" => \A k \in 1 .. next - 1 : Translates(k)
  /\ output = "module" => \A k \in 1 .. Len(program) : Translates(k)
  /\ output = "todo" => \E k \in 1 .. Len(program) : ~Generates(program[k].node.expr)

\* The generator at a line.
LEMMA PastLine ==
  ASSUME CodegenInv, GeneratesInv, Generating, AtBody,
         next' = next + 1, program' = program, Translates(next),
         output' \in {"generating", "unwrapped"}
  PROVE  GeneratesInv'
<1>1. next \in Nat
  BY GenFacts
<1>2. \A k : k \in 1 .. (next + 1) - 1 => k \in 1 .. next - 1 \/ k = next
  BY <1>1
<1>3. \A k \in 1 .. (next + 1) - 1 : Translates(k)
  BY <1>2 DEF GeneratesInv, Generating
<1> QED
  BY <1>3 DEF GeneratesInv, Translates, Kind

LEMMA GeneratesKept == CodegenInv /\ GeneratesInv /\ [Next]_vars => GeneratesInv'
<1> SUFFICES ASSUME CodegenInv, GeneratesInv, [Next]_vars PROVE GeneratesInv'
  OBVIOUS
<1>1. CASE UNCHANGED vars
  BY <1>1 DEF vars, genVars, semVars, GeneratesInv, Translates, Kind
<1>2. CASE Analyse \/ LowerTree
  <2>1. phase # "lowered" /\ output' = output
    <3>1. Analyse => phase # "lowered" /\ output' = output
      BY AnalysisPhases DEF Analyse, genVars
    <3>2. LowerTree => phase # "lowered" /\ output' = output
      BY DEF LowerTree, Lower, HirLower, Serialize, MirLower, genVars
    <3> QED
      BY <1>2, <3>1, <3>2
  <2>2. output = "none"
    BY <2>1 DEF CodegenInv, Analysing, BeingLowered, BeingGenerated, Stopped, Fresh
  <2> QED
    BY <2>1, <2>2 DEF GeneratesInv
<1>3. CASE GenerateModule
  <2>1. output' = "generating" /\ next' = next /\ phase = "lowered" /\ output = "none"
    BY <1>3 DEF GenerateModule, semVars
  <2>2. next = 1
    BY <2>1 DEF CodegenInv, Analysing, BeingLowered, BeingGenerated, Stopped, SemInv, Typed
  <2>3. 1 .. 1 - 1 = {}
    OBVIOUS
  <2> QED
    BY <2>1, <2>2, <2>3 DEF GeneratesInv
<1>4. CASE GenVariable
  <2>1. /\ Generating /\ AtBody /\ Generates(Visited.expr) /\ next' = next + 1
        /\ program' = program /\ output' = output
    BY <1>4 DEF GenVariable, Walk
  <2> QED
    BY <2>1, PastLine DEF Visited, Translates, Generating
<1>5. CASE GenVariableTwice
  BY <1>5 DEF GenVariableTwice, GeneratesInv
<1>6. CASE GenTodo
  <2>1. /\ Generating /\ AtBody /\ ~Generates(Visited.expr) /\ output' = "todo"
        /\ program' = program
    BY <1>6 DEF GenTodo, semVars
  <2>2. next \in 1 .. Len(program)
    BY <2>1, AtBodyFacts
  <2> QED
    BY <2>1, <2>2 DEF GeneratesInv, Visited
<1>7. CASE GenExpression
  <2>1. /\ Generating /\ AtBody /\ Generates(Visited.expr) /\ next' = next + 1
        /\ program' = program /\ output' \in {output, "unwrapped"}
    BY <1>7 DEF GenExpression, Walk, Emit
  <2> QED
    BY <2>1, PastLine DEF Visited, Translates, Generating
<1>8. CASE GenFunction \/ GenBlock
  <2>1. /\ Generating /\ AtBody /\ Visited.kind \in {"function", "block"} /\ next' = next + 1
        /\ program' = program /\ output' = output
    BY <1>8 DEF GenFunction, GenBlock, Walk, genVars
  <2>2. Visited.kind = Kind(program, next)
    BY <2>1, AtBodyFacts
  <2> QED
    BY <2>1, <2>2, PastLine DEF Translates, Generating
<1>9. CASE GenBranch
  <2>1. /\ Generating /\ AtBody /\ Generates(Visited.expr) /\ next' = next + 1
        /\ program' = program /\ output' = output
    BY <1>9 DEF GenBranch, Walk
  <2> QED
    BY <2>1, PastLine DEF Visited, Translates, Generating
<1>10. CASE GenLeave
  <2>1. /\ Generating /\ next' = next /\ program' = program
        /\ output' \in {output, "unwrapped"}
    BY <1>10 DEF GenLeave
  <2> QED
    BY <2>1 DEF GeneratesInv, Generating, Translates, Kind
<1>11. CASE GenDone
  <2>1. /\ Generating /\ ~Visiting /\ program' = program /\ output' = "module"
    BY <1>11 DEF GenDone, semVars
  <2>2. /\ next \in 1 .. Len(program) + 1 /\ Len(program) \in Nat
    BY <2>1, GenFacts DEF BeingGenerated
  <2>3. \A k \in 1 .. Len(program) : k \in 1 .. next - 1
    BY <2>1, <2>2 DEF Visiting
  <2>4. \A k \in 1 .. Len(program) : Translates(k)
    BY <2>1, <2>3 DEF GeneratesInv, Generating
  <2> QED
    BY <2>1, <2>4 DEF GeneratesInv, Translates, Kind
<1> QED
  BY <1>1, <1>2, <1>3, <1>4, <1>5, <1>6, <1>7, <1>8, <1>9, <1>10, <1>11 DEF Next

LEMMA GeneratesHolds == Spec => [](CodegenInv /\ GeneratesInv)
<1>1. Init => GeneratesInv
  BY DEF Init, GeneratesInv
<1>2. (CodegenInv /\ GeneratesInv) /\ [Next]_vars => (CodegenInv /\ GeneratesInv)'
  BY CodegenKept, GeneratesKept
<1> QED
  BY <1>1, <1>2, CodegenInit, PTL DEF Spec

\* A line of the text with an expression is a line of the module.
LEMMA LineThere ==
  ASSUME Tree(source), NEW q, NEW o, NEW m, Traced(source, q, o, m, Len(source)),
         NEW i \in 1 .. Len(source), Kind(source, i) \in Statements
  PROVE  \E k \in 1 .. Len(q) : o[k] = i /\ Kind(q, k) = Kind(source, i)
<1>1. Kept(source, i) /\ Kind(source, i) \notin Functions
  BY DEF Kept, Statements, Functions
<1>2. PICK k \in m : o[k] = i
  BY <1>1 DEF Traced
<1>3. k \in 1 .. Len(q) /\ Image(source, q, o, m, k)
  BY DEF Traced
<1>4. Kind(q, k) = Kind(source, i)
  BY <1>1, <1>2, <1>3 DEF Image, StatementImage
<1> QED
  BY <1>2, <1>3, <1>4

LEMMA InvPanics == CodegenInv /\ GeneratesInv => PanicsExplained
<1> SUFFICES ASSUME CodegenInv, GeneratesInv PROVE PanicsExplained
  OBVIOUS
<1>0. /\ BadMember <=> \E i \in DOMAIN source : BadLine(i)
      /\ HasArray <=> \E i \in DOMAIN source : ArrayLine(i)
      /\ Untranslated <=> \E i \in DOMAIN source : ForeignLine(i)
  BY DEF BadMember, BadLine, HasArray, ArrayLine, Untranslated, ForeignLine
<1>1. ASSUME phase = "panicked", source # <<>> PROVE BadMember \/ HasArray
  <2>1. BeingLowered
    BY <1>1 DEF CodegenInv, Analysing, BeingGenerated, Stopped
  <2>2. Tree(source) /\ DOMAIN source = 1 .. Len(source)
    BY <2>1, TreeLines DEF BeingLowered, Accepted
  <2>3. PICK q : HirFrom(source, bindings, q) /\ \E k \in 1 .. Len(q) : GivesUp(q[k].node.expr)
    BY <1>1, <2>1 DEF BeingLowered
  <2>4. PICK o, m : Traced(source, q, o, m, Len(source)) /\ Worded(source, bindings, q, o, m)
    BY <2>3 DEF HirFrom
  <2>5. PICK k \in 1 .. Len(q) : GivesUp(q[k].node.expr)
    BY <2>3
  <2>6. AllBound(source, Len(source) + 1, bindings)
        /\ Hir(source, bindings, o[k], Kind(q, k), q[k].node.expr)
    BY <2>3, <2>4 DEF HirFrom, Worded
  <2>7. o[k] \in DOMAIN source /\ Reasons(o[k], q[k].node.expr)
    BY <2>2, <2>4, <2>6, LineReasons
  <2> QED
    BY <1>0, <2>5, <2>7 DEF Reasons, GivesUp
<1>2. ASSUME output \in {"todo", "module"}
      PROVE  /\ Tree(source) /\ DOMAIN source = 1 .. Len(source)
             /\ \E B, o, m : /\ AllBound(source, Len(source) + 1, B)
                             /\ Traced(source, program, o, m, Len(source))
                             /\ Translated(source, B, program, o, m)
  <2>1. Stopped
    BY <1>2 DEF CodegenInv, Analysing, BeingLowered, BeingGenerated, Fresh
  <2> QED
    BY <2>1, TreeLines DEF Stopped, Accepted, LoweredFrom, LoweredWith
<1>3. ASSUME output = "todo" PROVE Untranslated
  <2>1. PICK B, o, m : /\ AllBound(source, Len(source) + 1, B)
                       /\ Traced(source, program, o, m, Len(source))
                       /\ Translated(source, B, program, o, m)
    BY <1>2, <1>3
  <2>2. PICK k \in 1 .. Len(program) : ~Generates(program[k].node.expr)
    BY <1>3 DEF GeneratesInv
  <2>3. PICK h : /\ Hir(source, B, o[k], Kind(program, k), h) /\ ~GivesUp(h)
                 /\ program[k].node.expr = MirLowered(h)
    BY <2>1 DEF Translated, GivesUp
  <2>4. o[k] \in DOMAIN source /\ Reasons(o[k], h)
    BY <1>2, <1>3, <2>1, <2>3, LineReasons
  <2> QED
    BY <1>0, <2>2, <2>3, <2>4 DEF Reasons
<1>4. ASSUME output = "module" PROVE ~BadMember /\ ~HasArray /\ ~Untranslated
  <2>1. PICK B, o, m : /\ AllBound(source, Len(source) + 1, B)
                       /\ Traced(source, program, o, m, Len(source))
                       /\ Translated(source, B, program, o, m)
    BY <1>2, <1>4
  <2>2. ASSUME NEW i \in 1 .. Len(source)
        PROVE  ~BadLine(i) /\ ~ArrayLine(i) /\ ~ForeignLine(i)
    <3>1. CASE Kind(source, i) \in {"variable", "expression", "branch"}
      <4>1. PICK k \in 1 .. Len(program) : o[k] = i /\ Kind(program, k) = Kind(source, i)
        BY <1>2, <1>4, <2>1, <3>1, LineThere DEF Statements
      <4>2. PICK h : /\ Hir(source, B, o[k], Kind(program, k), h) /\ ~GivesUp(h)
                     /\ program[k].node.expr = MirLowered(h)
        BY <2>1 DEF Translated, GivesUp
      <4>3. Generates(MirLowered(h))
        BY <1>4, <3>1, <4>1, <4>2 DEF GeneratesInv, Translates
      <4>4. Kind(source, i) \in Statements \cup {"function"}
        BY <3>1 DEF Statements
      <4> QED
        BY <1>2, <1>4, <2>1, <4>1, <4>2, <4>3, <4>4, LineJudged
    <3>2. CASE Kind(source, i) \notin {"variable", "expression", "branch"}
      <4>1. source[i].node.expr = Nothing
        <5>1. source[i].node \in Vocabulary
          BY <1>2, <1>4, TreeLines
        <5> QED
          BY <3>2, <5>1, ProgramAssumption DEF Kind
      <4>2. ~ForeignLine(i)
        <5>1. CASE ClassOf(source, i) # 0
          <6>1. (ClassOf(source, i) # 0) = TRUE
            BY <5>1
          <6> QED
            BY <4>1, <6>1, MembersAssumption DEF ForeignLine
        <5>2. CASE ClassOf(source, i) = 0
          <6>1. (ClassOf(source, i) # 0) = FALSE
            BY <5>2
          <6> QED
            BY <4>1, <6>1, MembersAssumption DEF ForeignLine
        <5> QED
          BY <5>1, <5>2
      <4> QED
        BY <4>1, <4>2, MembersAssumption DEF BadLine, ArrayLine
    <3> QED
      BY <3>1, <3>2
  <2> QED
    BY <1>0, <1>2, <1>4, <2>2
<1> QED
  BY <1>1, <1>3, <1>4 DEF PanicsExplained

\* PanicsExplained holds of every program: the passes give up on its expressions
\* where it makes objects of what is no class, uses what a class has not, or has an
\* array, the generator where it has a construct no pass translates, and there is a
\* module of no such program.
THEOREM CodegenPanics == Spec => []PanicsExplained
BY GeneratesHolds, InvPanics, PTL

-----------------------------------------------------------------------------
(* Where the fields of an object are.                                        *)

LEMMA OffsetIs ==
  ASSUME NEW b \in ClassBindings, NEW x \in Range(b.fields)
  PROVE  Offset(b, x) \in 0 .. Size(b) - 4
<1> DEFINE fs == b.fields
           I == {i \in 1 .. Len(fs) : fs[i] = x}
<1>1. PICK n \in 0 .. MaxLength : fs \in [1 .. n -> NamesOf("field")]
  BY DEF ClassBindings
<1>2. n \in Nat /\ MaxLength \in Nat
  BY <1>1, ProgramAssumption
<1>3. fs \in Seq(NamesOf("field"))
  BY <1>1, <1>2
<1>4. Len(fs) \in Nat /\ DOMAIN fs = 1 .. Len(fs)
  BY <1>3, LenProperties
<1>5. x \in Range(fs)
  OBVIOUS
<1> HIDE DEF fs
<1>6. I # {} /\ I \subseteq Nat
  BY <1>4, <1>5 DEF Range
<1>7. Min(I) \in 1 .. Len(fs)
  BY <1>6, MinFacts
<1>8. Offset(b, x) = 4 * (Min(I) - 1)
  BY <1>6 DEF Offset, SelectInSeq, fs
<1>9. Size(b) = 4 * Len(fs)
  BY DEF Size, fs
<1> QED
  BY <1>4, <1>7, <1>8, <1>9

\* A function of the module whose name is that of a member of class c is one.
LEMMA MemberLine ==
  ASSUME Tree(source), NEW g \in 1 .. Len(source), Kind(source, g) \in Functions,
         NEW c \in Names, NEW y \in Names \cup {"constructor"},
         FunctionName(source, g) = Qualified(c, y)
  PROVE  Kind(source, g) \in {"constructor", "method"} /\ ClassName(source, g) = c
<1>1. Kind(source, g) = "function" => FunctionName(source, g) \in Names
  BY KindsOfLines DEF FunctionName, NameAt
<1>2. Kind(source, g) \in {"constructor", "method"}
  BY <1>1, QualifiedAssumption DEF Functions
<1> DEFINE x == IF Kind(source, g) = "constructor" THEN "constructor" ELSE NameAt(source, g)
<1>3. /\ FunctionName(source, g) = Qualified(ClassName(source, g), x)
      /\ ClassName(source, g) \in Names /\ x \in Names \cup {"constructor"}
  BY <1>2, MemberName
<1> HIDE DEF x
<1> QED
  BY <1>2, <1>3, QualifiedAssumption

\* A statement is in the class of the member around it.
LEMMA SameClass ==
  ASSUME Tree(source), NEW i \in 1 .. Len(source), NEW g, FunctionOf(source, i) = g, g # 0,
         Kind(source, g) \in {"constructor", "method"}
  PROVE  ClassOf(source, i) # 0 /\ ClassOf(source, i) = ClassOf(source, g)
<1> DEFINE k == ClassOf(source, g)
<1>1. g \in 1 .. i - 1 /\ g \in 1 .. Len(source) /\ Encloses(source, g, i) /\ i \in Nat
  BY FunctionOfIs, TreeLines
<1>2. k # 0
  BY <1>1, ClassOfMember DEF Members
<1>3. k \in 1 .. g - 1 /\ Kind(source, k) = "class" /\ Encloses(source, k, g)
  BY <1>1, <1>2, ClassOfIs
<1> HIDE DEF k
<1>4. Encloses(source, k, i) /\ k \in 1 .. i - 1
  BY <1>1, <1>3, EnclosesTransitive
<1>5. ClassOf(source, i) = k
  BY <1>3, <1>4, ClassOfIs
<1> QED
  BY <1>2, <1>5 DEF k

\* What the passes make of a line in a member of class c: it loads and stores inside
\* an object of c, and this, where it is declared, is such an object.
LEMMA LineInBounds ==
  ASSUME Tree(source), NEW B, AllBound(source, Len(source) + 1, B),
         Sequence(program), NEW o, NEW m, Traced(source, program, o, m, Len(source)),
         Translated(source, B, program, o, m),
         NEW i \in 1 .. Len(program), NEW f, FunctionOf(program, i) = f, f # 0,
         NEW c \in DOMAIN B, NEW y \in {"constructor"} \cup Range(B[c].methods),
         NameAt(program, f) = Qualified(c, y)
  PROVE  /\ \A offset \in Offsets(program[i].node.expr) : offset \in 0 .. Size(B[c]) - 4
         /\ Kind(program, i) = "variable" /\ NameAt(program, i) = "this" =>
              program[i].node.expr = FunctionCall("malloc", <<Literal(Size(B[c]))>>)
<1> DEFINE b == B[c]
           g == o[f]
           e == program[i].node.expr
<1>1. LoweredText(program)
  BY TracedText
<1>2. Owned(program, f, i) /\ f \in 1 .. Len(program) /\ Kind(program, f) = "function"
  BY <1>1, FunctionAround DEF Owned, LoweredText
<1>3. Kind(program, i) # "function" /\ Kind(program, i) \in Statements
  <2>1. i \in f + 1 .. i
    BY <1>2 DEF Owned
  <2>2. Depth(program, i) > 1
    BY <1>2, <2>1 DEF Owned
  <2>3. Depth(program, i) # 1
    BY <2>2
  <2> QED
    BY <1>1, <2>3 DEF LoweredText
<1>4. f \in m /\ g \in 1 .. Len(source) /\ Kind(source, g) \in Functions
      /\ FunctionName(source, g) = Qualified(c, y)
  BY <1>2, Origins DEF FunctionImage
<1>5. /\ b \in ClassBindings /\ c \in NamesOf("class") /\ c \in Names
      /\ y \in Names \cup {"constructor"}
  <2>1. /\ b \in ClassBindings /\ c \in NamesOf("class")
        /\ Range(b.methods) = MembersIn(Max(ClassLines(c)), "method")
        /\ HasClass(source, c) /\ \A x \in Range(b.methods) : MethodIn(source, c, x)
    BY BindingsMean, BoundMeans DEF AllBound
  <2>2. c \in Names
    BY <2>1, ClassNames
  <2>3. \A x \in Range(b.methods) : x \in Names
    BY <2>1, NamesOfMembers DEF MethodIn
  <2> QED
    BY <2>1, <2>2, <2>3
<1> HIDE DEF b, g
<1>6. Kind(source, g) \in {"constructor", "method"} /\ ClassName(source, g) = c
  BY <1>4, <1>5, MemberLine
<1>7. PICK h : /\ Hir(source, B, o[i], Kind(program, i), h) /\ ~Has(h, "panic") /\ Printable(h)
               /\ e = MirLowered(h)
  BY DEF Translated
<1>8. CASE i \in m
  <2>1. Kind(source, o[i]) \in Statements /\ o[i] \in 1 .. Len(source)
    BY <1>3, <1>8, Origins
  <2>2. FunctionOf(source, o[i]) = g
    BY <1>2, <1>3, <1>8, OwnerIs DEF g
  <2>3. g # 0
    BY <1>4, TreeLines
  <2>4. ClassOf(source, o[i]) # 0 /\ ClassName(source, o[i]) = c
    BY <1>6, <2>1, <2>2, <2>3, SameClass DEF ClassName
  <2>5. h = ClassLowered(source[o[i]].node.expr, c, b)
    BY <1>7, <2>1, <2>4 DEF Hir, b
  <2>6. source[o[i]].node \in Vocabulary
    BY <2>1, TreeLines
  <2>7. Offsets(e) \subseteq {Offset(b, x) : x \in Range(b.fields)}
    BY <1>5, <1>7, <2>5, <2>6, MembersAssumption
  <2>8. \A offset \in Offsets(e) : offset \in 0 .. Size(b) - 4
    BY <1>5, <2>7, OffsetIs
  <2>9. ~(Kind(program, i) = "variable" /\ NameAt(program, i) = "this")
    BY <1>8, VariablesAre
  <2> QED
    BY <2>8, <2>9 DEF b
<1>9. CASE i \notin m
  <2>1. Synthetic(source, program, o, m, i)
    BY <1>9 DEF Traced
  <2>2. PICK f2 \in m : o[f2] = o[i] /\ Owned(program, f2, i)
                        /\ Kind(program, i) \in {"variable", "expression"}
    BY <2>1 DEF Synthetic
  <2>3. f2 = f
    BY <1>1, <1>2, <2>2, OneOwner
  <2>4. o[i] = g /\ Kind(source, g) = "constructor"
    BY <2>1, <2>2, <2>3 DEF Synthetic, g
  <2>5. Compiles(h)
    BY <1>4, <1>7, <2>2, <2>4, MadeUp
  <2>6. e = h /\ Offsets(e) = {}
    BY <1>7, <2>5 DEF Compiles
  <2>7. Kind(program, i) = "variable" => h = FunctionCall("malloc", <<Literal(Size(b))>>)
    BY <1>6, <1>7, <2>4 DEF Hir, b
  <2> QED
    BY <2>6, <2>7 DEF b
<1> QED
  BY <1>8, <1>9

LEMMA InvInBounds == CodegenInv => ObjectsInBounds
<1> SUFFICES ASSUME CodegenInv, phase = "lowered", output = "none",
                    NEW c \in DOMAIN bindings,
                    NEW i \in DOMAIN program, FunctionOf(program, i) # 0,
                    NEW y \in {"constructor"} \cup Range(bindings[c].methods),
                    NameAt(program, FunctionOf(program, i)) = Qualified(c, y),
                    NEW offset \in Offsets(program[i].node.expr),
                    NEW k \in DOMAIN program, FunctionOf(program, k) # 0,
                    NameAt(program, FunctionOf(program, k)) = Qualified(c, "constructor"),
                    Kind(program, k) = "variable", NameAt(program, k) = "this"
             PROVE  offset \in 0 .. program[k].node.expr.args[2].value - 4
  BY DEF ObjectsInBounds, NameAt, Kind
<1>1. Tree(source) /\ LoweredWith(source, bindings, program)
  BY DEF CodegenInv, Analysing, BeingLowered, BeingGenerated, Stopped, SemInv, Typed, Accepted
<1>2. PICK o, m : /\ Traced(source, program, o, m, Len(source))
                  /\ Translated(source, bindings, program, o, m)
  BY <1>1 DEF LoweredWith
<1>3. Sequence(program) /\ AllBound(source, Len(source) + 1, bindings)
  BY <1>1 DEF LoweredWith
<1>4. DOMAIN program = 1 .. Len(program)
  BY <1>3, LenProperties DEF Sequence
<1>5. offset \in 0 .. Size(bindings[c]) - 4
  BY <1>1, <1>2, <1>3, <1>4, LineInBounds
<1>6. program[k].node.expr = FunctionCall("malloc", <<Literal(Size(bindings[c]))>>)
  BY <1>1, <1>2, <1>3, <1>4, LineInBounds
<1>7. program[k].node.expr.args[2].value = Size(bindings[c])
  BY <1>6 DEF FunctionCall, Call, Expr, Literal
<1> QED
  BY <1>5, <1>7

\* ObjectsInBounds holds of every program: a member of a class loads and stores at the
\* offsets of the fields in its binding, and a constructor of a class of that name
\* allocates the size of the same binding, whichever declaration each is from.
THEOREM CodegenInBounds == Spec => []ObjectsInBounds
BY CodegenHolds, InvInBounds, PTL
=============================================================================
