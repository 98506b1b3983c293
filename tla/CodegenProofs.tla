---------------------------- MODULE CodegenProofs ----------------------------
(***************************************************************************)
(* Code generation, for every program and whatever expressions become: what *)
(* the symbol table of the generator holds at each line of the lowered      *)
(* program, and what that says of the text it comes from.                   *)
(***************************************************************************)
EXTENDS Codegen, LoweringProofs, FiniteSetTheorems

-----------------------------------------------------------------------------
(* A lowered program and its text.                                          *)

\* What semantic analysis promises of a text it accepts.
Accepted(p) ==
  /\ Tree(p) /\ Stray(p) = {}
  /\ \A i \in 1 .. Len(p) : \A x \in Mentions(p[i].node.expr) : Known(p, x, i)
  /\ \A d, e \in Declarations(p) : Shadows(p, d, e) =>
       /\ d.body = 0 /\ e.body = 0
       /\ IF d.at < e.at THEN Kind(p, e.at) = "class" ELSE Kind(p, d.at) = "class"

\* The lines of a lowered program: functions at depth one, and statements.
LoweredText(q) ==
  /\ Len(q) \in Nat
  /\ \A k \in 1 .. Len(q) :
       /\ Depth(q, k) \in Nat /\ Depth(q, k) >= 1
       /\ Kind(q, k) \in Statements \cup {"function"}
       /\ Kind(q, k) = "function" =>
            Depth(q, k) = 1 /\ Range(Params(q, k)) \subseteq Names \cup {"this"}
       /\ Kind(q, k) = "variable" => NameAt(q, k) \in Names \cup {"this"}

LEMMA NamesOfMembers ==
  ASSUME NEW p, Tree(p), NEW i \in 1 .. Len(p)
  PROVE  /\ Kind(p, i) = "method" => NameAt(p, i) \in Names
         /\ Kind(p, i) = "constructor" => NameAt(p, i) = "none"
<1>1. p[i].node \in Vocabulary
  BY TreeLines
<1> QED
  BY <1>1, ProgramAssumption DEF Kind, NameAt

LEMMA ParamsOfFunction ==
  ASSUME NEW p, Tree(p), NEW i \in 1 .. Len(p)
  PROVE  /\ Range(FunctionParams(p, i)) \subseteq Names \cup {"this"}
         /\ Range(Params(p, i)) \subseteq Range(FunctionParams(p, i))
         /\ \A x \in Range(FunctionParams(p, i)) : x = "this" \/ x \in Range(Params(p, i))
         /\ Kind(p, i) # "method" => FunctionParams(p, i) = Params(p, i)
<1> DEFINE ps == Params(p, i)
<1>1. ps \in Seq(Names)
  BY KindsOfLines DEF Params
<1> HIDE DEF ps
<1>2. Len(ps) \in Nat /\ DOMAIN ps = 1 .. Len(ps) /\ \A j \in 1 .. Len(ps) : ps[j] \in Names
  BY <1>1
<1>3. Range(ps) \subseteq Names
  BY <1>2 DEF Range
<1>4. /\ Range(<<"this">> \o ps) \subseteq Range(ps) \cup {"this"}
      /\ Range(ps) \subseteq Range(<<"this">> \o ps)
  <2> DEFINE U == Names \cup {"this"}
             qs == <<"this">> \o ps
  <2>1. ps \in Seq(U) /\ <<"this">> \in Seq(U) /\ Len(<<"this">>) = 1 /\ <<"this">>[1] = "this"
    <3>1. ps \in Seq(U)
      BY <1>1, SequenceGrows
    <3> QED
      BY <3>1
  <2>2. /\ qs \in Seq(U) /\ Len(qs) = 1 + Len(ps)
        /\ \A j \in 1 .. 1 + Len(ps) : qs[j] = IF j <= 1 THEN <<"this">>[j] ELSE ps[j - 1]
    <3> HIDE DEF U
    <3> QED
      BY <2>1, ConcatProperties
  <2>3. DOMAIN qs = 1 .. 1 + Len(ps)
    BY <2>2, LenProperties
  <2> HIDE DEF qs
  <2>4. \A j \in 1 .. 1 + Len(ps) : qs[j] = "this" \/ (j - 1 \in 1 .. Len(ps) /\ qs[j] = ps[j - 1])
    BY <1>2, <2>1, <2>2
  <2>5. \A j \in 1 .. Len(ps) : j + 1 \in 1 .. 1 + Len(ps) /\ qs[j + 1] = ps[j]
    BY <1>2, <2>2
  <2>6. Range(qs) \subseteq Range(ps) \cup {"this"}
    BY <1>2, <2>3, <2>4 DEF Range
  <2>7. Range(ps) \subseteq Range(qs)
    BY <1>2, <2>3, <2>5 DEF Range
  <2> QED
    BY <2>6, <2>7 DEF qs
<1>5. CASE Kind(p, i) = "method"
  BY <1>3, <1>4, <1>5 DEF FunctionParams, ps
<1>6. CASE Kind(p, i) # "method"
  BY <1>3, <1>6 DEF FunctionParams, ps
<1> QED
  BY <1>5, <1>6

LEMMA Origins ==
  ASSUME NEW p, Tree(p), NEW q, NEW o, NEW m, Traced(p, q, o, m, Len(p))
  PROVE  /\ m \subseteq 1 .. Len(q)
         /\ \A k \in m : o[k] \in 1 .. Len(p)
         /\ \A k, l \in m : o[k] = o[l] => k = l
         /\ \A k \in 1 .. Len(q) : Kind(q, k) = "function" =>
              k \in m /\ Kind(p, o[k]) \in Functions /\ FunctionImage(p, q, o, k)
         /\ \A k \in m : Kind(q, k) # "function" =>
              Kind(p, o[k]) \in Statements /\ StatementImage(p, q, o, m, k)
         /\ \A k \in m : Kind(p, o[k]) \in Functions => Kind(q, k) = "function"
<1>1. m \subseteq 1 .. Len(q) /\ \A k \in m : o[k] \in 1 .. Len(p)
  BY DEF Traced
<1>2. ASSUME NEW k \in m, NEW l \in m, o[k] = o[l] PROVE k = l
  <2>1. k \in Nat /\ l \in Nat /\ o[k] \in Nat
    BY <1>1
  <2>2. ~ k < l /\ ~ l < k
    BY <2>1, <1>2 DEF Traced
  <2> QED
    BY <2>1, <2>2
<1>3. ASSUME NEW k \in m
      PROVE  /\ Kind(p, o[k]) \in Functions =>
                  Kind(q, k) = "function" /\ FunctionImage(p, q, o, k)
             /\ Kind(p, o[k]) \notin Functions =>
                  /\ Kind(p, o[k]) \in Statements /\ StatementImage(p, q, o, m, k)
                  /\ Kind(q, k) # "function"
  <2>1. Image(p, q, o, m, k) /\ o[k] \in 1 .. Len(p)
    BY <1>1 DEF Traced
  <2>2. CASE Kind(p, o[k]) \in Functions
    BY <2>1, <2>2 DEF Image, FunctionImage
  <2>3. CASE Kind(p, o[k]) \notin Functions
    <3>1. Kept(p, o[k]) /\ StatementImage(p, q, o, m, k)
      BY <2>1, <2>3 DEF Image
    <3>2. Kind(p, o[k]) \in Statements
      BY <2>1, <2>3, <3>1, KindsOfLines DEF Kept, Functions, Statements
    <3> QED
      BY <2>3, <3>1, <3>2 DEF StatementImage, Statements
  <2> QED
    BY <2>2, <2>3
<1>4. ASSUME NEW k \in 1 .. Len(q), k \notin m PROVE Kind(q, k) # "function"
  <2>1. Synthetic(p, q, o, m, k)
    BY <1>4 DEF Traced
  <2> QED
    BY <2>1 DEF Synthetic
<1> QED
  BY <1>1, <1>2, <1>3, <1>4

LEMMA TracedText ==
  ASSUME NEW p, Tree(p), NEW q, Sequence(q), NEW o, NEW m, Traced(p, q, o, m, Len(p))
  PROVE  LoweredText(q)
<1>1. Len(q) \in Nat
  BY LenProperties DEF Sequence
<1>2. ASSUME NEW k \in 1 .. Len(q)
      PROVE  /\ Depth(q, k) \in Nat /\ Depth(q, k) >= 1
             /\ Kind(q, k) \in Statements \cup {"function"}
             /\ Kind(q, k) = "function" =>
                  Depth(q, k) = 1 /\ Range(Params(q, k)) \subseteq Names \cup {"this"}
             /\ Kind(q, k) = "variable" => NameAt(q, k) \in Names \cup {"this"}
  <2>1. Depth(q, k) \in Nat
    BY DEF Traced, WellFormed, Depth
  <2>2. CASE Kind(q, k) = "function"
    <3>1. k \in m /\ FunctionImage(p, q, o, k) /\ o[k] \in 1 .. Len(p)
      BY <2>2, Origins
    <3> QED
      BY <2>2, <3>1, ParamsOfFunction DEF FunctionImage
  <2>3. CASE Kind(q, k) # "function" /\ k \in m
    <3>1. Kind(p, o[k]) \in Statements /\ StatementImage(p, q, o, m, k) /\ o[k] \in 1 .. Len(p)
      BY <2>3, Origins
    <3>2. Kind(p, o[k]) = "variable" => NameAt(p, o[k]) \in Names
      BY <3>1, KindsOfLines DEF NameAt
    <3> QED
      BY <2>1, <2>3, <3>1, <3>2 DEF StatementImage
  <2>4. CASE k \notin m
    <3>1. Synthetic(p, q, o, m, k)
      BY <2>4 DEF Traced
    <3> QED
      BY <2>1, <3>1 DEF Synthetic, Statements
  <2> QED
    BY <2>2, <2>3, <2>4
<1> QED
  BY <1>1, <1>2 DEF LoweredText

Unowned(q, k) == \A f \in 1 .. k - 1 : ~Owned(q, f, k)

LEMMA OneOwner ==
  ASSUME NEW q, LoweredText(q), NEW k \in 1 .. Len(q), NEW f, NEW g,
         Owned(q, f, k), Owned(q, g, k)
  PROVE  f = g
<1>1. /\ f \in 1 .. k - 1 /\ g \in 1 .. k - 1 /\ k \in Nat /\ Len(q) \in Nat
      /\ f \in 1 .. Len(q) /\ g \in 1 .. Len(q)
  BY DEF Owned, LoweredText
<1>2. Depth(q, f) = 1 /\ Depth(q, g) = 1
  BY <1>1 DEF Owned, LoweredText
<1>3. ~ f < g /\ ~ g < f
  <2>1. f < g => Depth(q, g) > 1
    BY <1>1 DEF Owned
  <2>2. g < f => Depth(q, f) > 1
    BY <1>1 DEF Owned
  <2> QED
    BY <2>1, <2>2, <1>2
<1> QED
  BY <1>1, <1>3

\* What comes from a statement in a function is owned by what the function becomes.
LEMMA OwnerThere ==
  ASSUME NEW p, Tree(p), NEW q, Sequence(q), NEW o, NEW m, Traced(p, q, o, m, Len(p)),
         NEW k \in m, Kind(q, k) # "function", FunctionOf(p, o[k]) # 0
  PROVE  \E f \in m : o[f] = FunctionOf(p, o[k]) /\ Owned(q, f, k)
<1>1. StatementImage(p, q, o, m, k)
  BY Origins
<1> QED
  BY <1>1 DEF StatementImage

\* The owner of a line is the function around the line it comes from.
LEMMA OwnerIs ==
  ASSUME NEW p, Tree(p), NEW q, Sequence(q), NEW o, NEW m, Traced(p, q, o, m, Len(p)),
         NEW k \in 1 .. Len(q), Kind(q, k) # "function"
  PROVE  /\ k \in m => \A f : Owned(q, f, k) => f \in m /\ o[f] = FunctionOf(p, o[k])
         /\ k \in m /\ FunctionOf(p, o[k]) # 0 =>
              \E f \in m : o[f] = FunctionOf(p, o[k]) /\ Owned(q, f, k)
         /\ k \in m /\ FunctionOf(p, o[k]) = 0 => Unowned(q, k)
         /\ Unowned(q, k) => k \in m /\ FunctionOf(p, o[k]) = 0
<1>1. LoweredText(q)
  BY TracedText
<1>2. ASSUME k \in m
      PROVE  /\ FunctionOf(p, o[k]) # 0 =>
                  \E f \in m : o[f] = FunctionOf(p, o[k]) /\ Owned(q, f, k)
             /\ FunctionOf(p, o[k]) = 0 => Unowned(q, k)
  BY <1>2, Origins DEF StatementImage, Unowned
<1>3. ASSUME k \in m, NEW f, Owned(q, f, k) PROVE f \in m /\ o[f] = FunctionOf(p, o[k])
  <2>1. FunctionOf(p, o[k]) # 0
    BY <1>2, <1>3 DEF Unowned, Owned
  <2>2. PICK g \in m : o[g] = FunctionOf(p, o[k]) /\ Owned(q, g, k)
    BY <1>2, <1>3, <2>1
  <2>3. g = f
    BY <1>1, <1>3, <2>2, OneOwner
  <2> QED
    BY <2>2, <2>3
<1>4. ASSUME Unowned(q, k) PROVE k \in m /\ FunctionOf(p, o[k]) = 0
  <2>1. ASSUME k \notin m PROVE FALSE
    <3>1. Synthetic(p, q, o, m, k)
      BY <2>1 DEF Traced
    <3>2. PICK f : Owned(q, f, k)
      BY <3>1 DEF Synthetic
    <3> QED
      BY <1>4, <3>2 DEF Unowned, Owned
  <2>2. k \in m
    BY <2>1
  <2>3. FunctionOf(p, o[k]) = 0
    <3> SUFFICES ASSUME FunctionOf(p, o[k]) # 0 PROVE FALSE
      OBVIOUS
    <3>1. PICK f \in m : Owned(q, f, k)
      BY <1>2, <2>2
    <3> QED
      BY <1>4, <3>1 DEF Unowned, Owned
  <2> QED
    BY <2>2, <2>3
<1> QED
  BY <1>2, <1>3, <1>4

\* A variable of a lowered program is one of the text, or the object that a
\* constructor allocates.
LEMMA VariablesAre ==
  ASSUME NEW p, Tree(p), NEW q, Sequence(q), NEW o, NEW m, Traced(p, q, o, m, Len(p)),
         NEW k \in 1 .. Len(q), Kind(q, k) = "variable"
  PROVE  /\ k \in m =>
              /\ o[k] \in 1 .. Len(p) /\ Kind(p, o[k]) = "variable"
              /\ NameAt(q, k) = NameAt(p, o[k])
              /\ NameAt(q, k) \in Names /\ NameAt(q, k) # "this"
         /\ k \notin m =>
              /\ NameAt(q, k) = "this"
              /\ k - 1 \in m /\ Owned(q, k - 1, k) /\ Kind(p, o[k - 1]) = "constructor"
<1>1. ASSUME k \in m
      PROVE  /\ o[k] \in 1 .. Len(p) /\ Kind(p, o[k]) = "variable"
             /\ NameAt(q, k) = NameAt(p, o[k])
             /\ NameAt(q, k) \in Names /\ NameAt(q, k) # "this"
  <2>1. /\ o[k] \in 1 .. Len(p) /\ Kind(p, o[k]) = "variable"
        /\ NameAt(q, k) = NameAt(p, o[k])
    BY <1>1, Origins DEF StatementImage
  <2>2. NameAt(p, o[k]) \in Names
    BY <2>1, KindsOfLines DEF NameAt
  <2> QED
    BY <2>1, <2>2, ProgramAssumption
<1>2. ASSUME k \notin m
      PROVE  /\ NameAt(q, k) = "this"
             /\ k - 1 \in m /\ Owned(q, k - 1, k) /\ Kind(p, o[k - 1]) = "constructor"
  <2>1. Synthetic(p, q, o, m, k)
    BY <1>2 DEF Traced
  <2> QED
    BY <2>1 DEF Synthetic
<1> QED
  BY <1>1, <1>2

\* The function around a line is the body it stands in, or is around that.
LEMMA Home ==
  ASSUME NEW p, Tree(p), NEW i \in 1 .. Len(p)
  PROVE  LET b == Innermost(p, i)
         IN  /\ b # 0 => /\ b \in 1 .. Len(p)
                         /\ FunctionOf(p, i) = IF Kind(p, b) \in Functions THEN b
                                               ELSE FunctionOf(p, b)
             /\ b = 0 => FunctionOf(p, i) = 0
<1> DEFINE b == Innermost(p, i)
           g == FunctionOf(p, i)
<1>1. Len(p) \in Nat /\ i \in Nat /\ Depth(p, i) \in Nat
  BY TreeLines
<1>2. g # 0 => g \in 1 .. i - 1 /\ Kind(p, g) \in Functions /\ Encloses(p, g, i)
  BY FunctionOfIs
<1>3. ASSUME b = 0 PROVE g = 0
  <2>1. Depth(p, i) = 1
    <3> SUFFICES ASSUME Depth(p, i) # 1 PROVE FALSE
      OBVIOUS
    <3>1. PICK c \in 1 .. i - 1 : Parent(p, c, i)
      BY ParentExists
    <3> QED
      BY <3>1, <1>1, <1>3, InnermostIs
  <2> SUFFICES ASSUME g # 0 PROVE FALSE
    OBVIOUS
  <2>2. g \in 1 .. Len(p) /\ Depth(p, g) < 1
    BY <1>2, <2>1, Nested
  <2> QED
    BY <2>2, TreeLines
<1>4. ASSUME b # 0
      PROVE  /\ b \in 1 .. Len(p)
             /\ g = IF Kind(p, b) \in Functions THEN b ELSE FunctionOf(p, b)
  <2>1. b \in 1 .. i - 1 /\ Parent(p, b, i)
    BY <1>4, InnermostIs
  <2> HIDE DEF b, g
  <2>2. b \in 1 .. Len(p) /\ Encloses(p, b, i) /\ Depth(p, b) = Depth(p, i) - 1
    BY <1>1, <2>1 DEF Parent
  <2>3. CASE Kind(p, b) \in Functions
    BY <2>1, <2>2, <2>3, FunctionOfIs DEF g
  <2>4. CASE Kind(p, b) \notin Functions
    <3> DEFINE h == FunctionOf(p, b)
    <3>1. ASSUME h # 0 PROVE g = h
      <4>1. h \in 1 .. b - 1 /\ Kind(p, h) \in Functions /\ Encloses(p, h, b)
        BY <2>2, <3>1, FunctionOfIs
      <4>2. Encloses(p, h, i)
        BY <4>1, <2>2, EnclosesTransitive
      <4>3. h \in 1 .. i - 1
        BY <4>1, <2>1
      <4> HIDE DEF h
      <4> QED
        BY <4>1, <4>2, <4>3, FunctionOfIs DEF g
    <3>2. ASSUME g # 0 PROVE g = h
      <4>1. g \in 1 .. i - 1 /\ Kind(p, g) \in Functions /\ Encloses(p, g, i) /\ g # b
        BY <1>2, <2>4, <3>2 DEF g
      <4>2. g \in 1 .. Len(p) /\ Depth(p, g) < Depth(p, i) /\ Depth(p, g) \in Nat
        BY <4>1, <1>1, Nested, TreeLines
      <4>3. Depth(p, g) # Depth(p, b)
        BY <4>1, <2>2, Nested
      <4>4. Depth(p, g) < Depth(p, b)
        BY <4>2, <4>3, <2>2, <1>1
      <4>5. g < b
        BY <4>1, <4>4, <2>2, Nested
      <4>6. Encloses(p, g, b)
        BY <4>1, <4>5, <2>2, Nested
      <4>7. g \in 1 .. b - 1
        BY <4>1, <4>5, <2>1
      <4> QED
        BY <4>1, <4>6, <4>7, <2>2, FunctionOfIs
    <3> QED
      BY <3>1, <3>2, <2>2, <2>4
  <2> QED
    BY <2>2, <2>3, <2>4
<1> QED
  BY <1>3, <1>4

\* What a text accepted is declared by anything but a class shadows nothing.
LEMMA NoShadow ==
  ASSUME NEW p, Accepted(p), NEW d \in Declarations(p), NEW e \in Declarations(p),
         Kind(p, d.at) # "class", Kind(p, e.at) # "class"
  PROVE  ~Shadows(p, d, e)
BY DEF Accepted

-----------------------------------------------------------------------------
(* The bodies the generator is in.                                          *)

InFunction(q, op) == op # <<>> /\ Kind(q, op[1]) = "function"

\* Those with a scope of instructions.
Counted(q, op) == {k \in 1 .. Len(op) : Kind(q, op[k]) # "block"}

LEMMA OpenFacts ==
  ASSUME NEW q, LoweredText(q), NEW op, NEW n \in Nat, Path(q, op, n)
  PROVE  /\ Len(op) \in Nat /\ DOMAIN op = 1 .. Len(op) /\ Len(q) \in Nat
         /\ op # <<>> => Len(op) >= 1
         /\ op = <<>> => Len(op) = 0
         /\ \A k \in 1 .. Len(op) :
              /\ op[k] \in 1 .. Len(q) /\ op[k] \in Nat /\ op[k] < n /\ Depth(q, op[k]) = k
              /\ Kind(q, op[k]) \in {"function", "block", "branch"}
              /\ Kind(q, op[k]) = "function" => k = 1
              /\ \A j \in op[k] + 1 .. n - 1 : Depth(q, j) > k
<1>1. op \in Seq(1 .. Len(q)) /\ Len(op) \in Nat /\ DOMAIN op = 1 .. Len(op) /\ Len(q) \in Nat
  BY LenProperties DEF Path, LoweredText
<1>2. op # <<>> => Len(op) >= 1
  BY <1>1, EmptySeq
<1>3. op = <<>> => Len(op) = 0
  OBVIOUS
<1>4. ASSUME NEW k \in 1 .. Len(op)
      PROVE  /\ op[k] \in 1 .. Len(q) /\ op[k] \in Nat /\ op[k] < n /\ Depth(q, op[k]) = k
             /\ Kind(q, op[k]) \in {"function", "block", "branch"}
             /\ Kind(q, op[k]) = "function" => k = 1
             /\ \A j \in op[k] + 1 .. n - 1 : Depth(q, j) > k
  <2>1. op[k] \in 1 .. Len(q) /\ op[k] \in Nat
    BY <1>1, ElementOfSeq
  <2>2. /\ op[k] < n /\ Depth(q, op[k]) = k /\ HasBody(q[op[k]].node)
        /\ \A j \in op[k] + 1 .. n - 1 : Depth(q, j) > k
    BY DEF Path
  <2>3. /\ Kind(q, op[k]) \in Statements \cup {"function"}
        /\ Kind(q, op[k]) = "function" => Depth(q, op[k]) = 1
    BY <2>1 DEF LoweredText
  <2>4. Kind(q, op[k]) \in {"function", "block", "branch"}
    BY <2>2, <2>3 DEF Statements, HasBody, Functions, Kind
  <2> QED
    BY <2>1, <2>2, <2>3, <2>4
<1> QED
  BY <1>1, <1>2, <1>3, <1>4

\* The bodies are in the order of the text.
LEMMA OpenOrdered ==
  ASSUME NEW q, LoweredText(q), NEW op, NEW n \in Nat, Path(q, op, n),
         NEW k \in 1 .. Len(op), NEW l \in 1 .. Len(op), k < l
  PROVE  op[k] < op[l]
<1>1. /\ Len(op) \in Nat /\ k \in Nat /\ l \in Nat
      /\ op[k] \in Nat /\ op[k] < n /\ Depth(q, op[k]) = k
      /\ op[l] \in Nat /\ op[l] < n /\ Depth(q, op[l]) = l
      /\ \A j \in op[l] + 1 .. n - 1 : Depth(q, j) > l
  BY OpenFacts
<1> QED
  BY <1>1

\* Nothing but the function around it owns the body the generator is in.
LEMMA OwnerOfBody ==
  ASSUME NEW q, LoweredText(q), NEW op, NEW n \in Nat, Path(q, op, n),
         NEW k \in 1 .. Len(op), NEW f, Owned(q, f, op[k])
  PROVE  k # 1 /\ 1 \in 1 .. Len(op) /\ f = op[1] /\ Kind(q, op[1]) = "function"
<1>1. /\ Len(op) \in Nat /\ op[k] \in 1 .. Len(q) /\ Len(q) \in Nat
      /\ op[k] < n /\ Depth(q, op[k]) = k
  BY OpenFacts
<1>2. /\ f \in 1 .. op[k] - 1 /\ Kind(q, f) = "function" /\ f \in 1 .. Len(q)
      /\ \A j \in f + 1 .. op[k] : Depth(q, j) > 1
  BY <1>1 DEF Owned
<1>3. Depth(q, f) = 1
  BY <1>2 DEF LoweredText
<1>4. k > 1 /\ 1 \in 1 .. Len(op)
  BY <1>1, <1>2
<1>5. op[1] < op[k] /\ op[1] \in Nat /\ Depth(q, op[1]) = 1
      /\ \A j \in op[1] + 1 .. n - 1 : Depth(q, j) > 1
  BY <1>4, OpenOrdered, OpenFacts
<1>6. f = op[1]
  BY <1>1, <1>2, <1>3, <1>5
<1> QED
  BY <1>2, <1>4, <1>6

\* What is visited next is in that function.
LEMMA OwnerNext ==
  ASSUME NEW q, LoweredText(q), NEW n \in 1 .. Len(q), NEW op, Path(q, op, n),
         Depth(q, n) = Len(op) + 1
  PROVE  /\ \A f : Owned(q, f, n) <=> InFunction(q, op) /\ f = op[1]
         /\ Unowned(q, n) <=> ~InFunction(q, op)
<1>1. Len(q) \in Nat /\ n \in Nat /\ Len(op) \in Nat /\ (op # <<>> <=> Len(op) >= 1)
  BY OpenFacts DEF LoweredText
<1>2. ASSUME Len(op) >= 1
      PROVE  /\ op[1] \in 1 .. Len(q) /\ op[1] < n /\ Depth(q, op[1]) = 1
             /\ \A j \in op[1] + 1 .. n - 1 : Depth(q, j) > 1
  BY <1>1, <1>2, OpenFacts
<1>3. ASSUME InFunction(q, op) PROVE Owned(q, op[1], n)
  <2>1. Len(op) >= 1
    BY <1>1, <1>3 DEF InFunction
  <2>2. op[1] \in 1 .. n - 1
    BY <1>1, <1>2, <2>1
  <2>3. \A j \in op[1] + 1 .. n : Depth(q, j) > 1
    BY <1>1, <1>2, <2>1, <2>2
  <2> QED
    BY <1>3, <2>2, <2>3 DEF Owned, InFunction
<1>4. ASSUME NEW f, Owned(q, f, n) PROVE InFunction(q, op) /\ f = op[1]
  <2>1. /\ f \in 1 .. n - 1 /\ Kind(q, f) = "function" /\ f \in 1 .. Len(q)
        /\ \A j \in f + 1 .. n : Depth(q, j) > 1
    BY <1>1, <1>4 DEF Owned
  <2>2. Depth(q, f) = 1
    BY <2>1 DEF LoweredText
  <2>3. Len(op) >= 1
    BY <1>1, <2>1
  <2>4. f = op[1]
    BY <1>1, <1>2, <2>1, <2>2, <2>3
  <2> QED
    BY <1>1, <2>1, <2>3, <2>4 DEF InFunction
<1>5. \A f : Owned(q, f, n) => f \in 1 .. n - 1
  BY DEF Owned
<1> QED
  BY <1>3, <1>4, <1>5 DEF Unowned

\* Past a line, into its body, and out of the innermost body.
LEMMA GenPast ==
  ASSUME NEW q, LoweredText(q), NEW n \in 1 .. Len(q), NEW op, Path(q, op, n),
         Depth(q, n) = Len(op) + 1
  PROVE  Path(q, op, n + 1)
<1>1. Len(q) \in Nat /\ n \in Nat /\ Len(op) \in Nat
  BY OpenFacts DEF LoweredText
<1>2. ASSUME NEW k \in 1 .. Len(op)
      PROVE  op[k] < n + 1 /\ \A j \in op[k] + 1 .. (n + 1) - 1 : Depth(q, j) > k
  <2>1. op[k] \in Nat /\ op[k] < n /\ \A j \in op[k] + 1 .. n - 1 : Depth(q, j) > k
    BY <1>1, OpenFacts
  <2>2. ASSUME NEW j \in op[k] + 1 .. (n + 1) - 1
        PROVE  Depth(q, j) > k
    <3>1. j = n \/ j \in op[k] + 1 .. n - 1
      BY <1>1, <2>1
    <3> QED
      BY <1>1, <2>1, <3>1
  <2> QED
    BY <1>1, <2>1, <2>2
<1> QED
  BY <1>2 DEF Path

LEMMA GenInto ==
  ASSUME NEW q, LoweredText(q), NEW n \in 1 .. Len(q), NEW op, Path(q, op, n),
         Depth(q, n) = Len(op) + 1, HasBody(q[n].node)
  PROVE  Path(q, Append(op, n), n + 1)
<1> DEFINE r == Append(op, n)
<1>1. Len(q) \in Nat /\ n \in Nat /\ Len(op) \in Nat /\ op \in Seq(1 .. Len(q))
  BY OpenFacts DEF LoweredText, Path
<1>2. /\ r \in Seq(1 .. Len(q)) /\ Len(r) = Len(op) + 1 /\ r[Len(op) + 1] = n
      /\ \A k \in 1 .. Len(op) : r[k] = op[k]
  BY <1>1, AppendProperties
<1>3. Path(q, op, n + 1)
  BY GenPast
<1> HIDE DEF r
<1>4. ASSUME NEW k \in 1 .. Len(r)
      PROVE  /\ r[k] < n + 1 /\ Depth(q, r[k]) = k /\ HasBody(q[r[k]].node)
             /\ \A j \in r[k] + 1 .. (n + 1) - 1 : Depth(q, j) > k
  <2>1. CASE k \in 1 .. Len(op)
    BY <1>2, <1>3, <2>1 DEF Path
  <2>2. CASE k = Len(op) + 1
    BY <1>1, <1>2, <2>2
  <2> QED
    BY <1>1, <1>2, <2>1, <2>2
<1> QED
  BY <1>2, <1>4 DEF Path, r

LEMMA GenOut ==
  ASSUME NEW q, LoweredText(q), NEW n \in Nat, NEW op, Path(q, op, n), op # <<>>
  PROVE  Path(q, Front(op), n)
<1>1. /\ Front(op) \in Seq(1 .. Len(q)) /\ Len(Front(op)) = Len(op) - 1
      /\ \A k \in 1 .. Len(op) - 1 : Front(op)[k] = op[k]
      /\ Len(op) \in Nat
  BY FrontIs DEF Path
<1>2. \A k \in 1 .. Len(Front(op)) : k \in 1 .. Len(op) /\ Front(op)[k] = op[k]
  BY <1>1
<1> QED
  BY <1>1, <1>2 DEF Path

LEMMA CountedFacts ==
  ASSUME NEW q, NEW op, Len(op) \in Nat
  PROVE  /\ Counted(q, op) \subseteq 1 .. Len(op) /\ IsFiniteSet(Counted(q, op))
         /\ Cardinality(Counted(q, op)) \in 0 .. Len(op)
         /\ Cardinality(Counted(q, op)) = 0 <=> Counted(q, op) = {}
<1>1. Counted(q, op) \in SUBSET (1 .. Len(op))
  BY DEF Counted
<1>2. IsFiniteSet(1 .. Len(op)) /\ Cardinality(1 .. Len(op)) = Len(op)
  <2>1. 1 \in Int /\ Len(op) \in Int /\ (1 > Len(op) <=> Len(op) = 0)
    OBVIOUS
  <2>2. /\ IsFiniteSet(1 .. Len(op))
        /\ Cardinality(1 .. Len(op)) = IF 1 > Len(op) THEN 0 ELSE Len(op) - 1 + 1
    BY <2>1, FS_Interval, Zenon
  <2> QED
    BY <2>1, <2>2
<1>3. IsFiniteSet(Counted(q, op)) /\ Cardinality(Counted(q, op)) <= Len(op)
  BY <1>1, <1>2, FS_Subset
<1> QED
  BY <1>1, <1>3, FS_CardinalityType, FS_EmptySet

LEMMA CountedInto ==
  ASSUME NEW q, NEW op, NEW X, op \in Seq(X), NEW n \in X
  PROVE  Cardinality(Counted(q, Append(op, n))) =
           Cardinality(Counted(q, op)) + (IF Kind(q, n) = "block" THEN 0 ELSE 1)
<1> DEFINE r == Append(op, n)
<1>1. /\ Len(op) \in Nat /\ Len(r) = Len(op) + 1 /\ r[Len(op) + 1] = n
      /\ \A k \in 1 .. Len(op) : r[k] = op[k]
  BY AppendProperties
<1> HIDE DEF r
<1>2. /\ IsFiniteSet(Counted(q, op)) /\ Len(op) + 1 \notin Counted(q, op)
      /\ Cardinality(Counted(q, op)) \in Nat
  BY <1>1, CountedFacts
<1>3. CASE Kind(q, n) = "block"
  <2>1. Counted(q, r) = Counted(q, op)
    BY <1>1, <1>3 DEF Counted
  <2> QED
    BY <1>2, <1>3, <2>1 DEF r
<1>4. CASE Kind(q, n) # "block"
  <2>1. Counted(q, r) = Counted(q, op) \cup {Len(op) + 1}
    BY <1>1, <1>4 DEF Counted
  <2>2. Cardinality(Counted(q, r)) = Cardinality(Counted(q, op)) + 1
    BY <1>2, <2>1, FS_AddElement
  <2> QED
    BY <1>4, <2>2 DEF r
<1> QED
  BY <1>3, <1>4

LEMMA CountedOut ==
  ASSUME NEW q, NEW op, NEW X, op \in Seq(X), op # <<>>
  PROVE  /\ Cardinality(Counted(q, Front(op))) =
              IF Kind(q, op[Len(op)]) = "block" THEN Cardinality(Counted(q, op))
              ELSE Cardinality(Counted(q, op)) - 1
         /\ Counted(q, Front(op)) = Counted(q, op) \ {Len(op)}
<1> DEFINE r == Front(op)
<1>1. /\ Len(op) \in Nat /\ Len(op) >= 1 /\ Len(r) = Len(op) - 1
      /\ \A k \in 1 .. Len(op) - 1 : r[k] = op[k]
  BY FrontIs
<1> HIDE DEF r
<1>2. IsFiniteSet(Counted(q, op)) /\ Cardinality(Counted(q, op)) \in Nat
  BY <1>1, CountedFacts
<1>3. Counted(q, r) = Counted(q, op) \ {Len(op)}
  BY <1>1 DEF Counted
<1>4. Len(op) \in Counted(q, op) <=> Kind(q, op[Len(op)]) # "block"
  BY <1>1 DEF Counted
<1>5. Cardinality(Counted(q, r)) = IF Len(op) \in Counted(q, op) THEN Cardinality(Counted(q, op)) - 1
                                   ELSE Cardinality(Counted(q, op))
  BY <1>2, <1>3, FS_RemoveElement
<1> QED
  BY <1>3, <1>4, <1>5 DEF r
-----------------------------------------------------------------------------
(* The symbols the generator has by line n.                                 *)

\* Variables outside every function, and what a function declares.
GlobalNames(q, n) ==
  {NameAt(q, k) : k \in {l \in 1 .. n - 1 : Kind(q, l) = "variable" /\ Unowned(q, l)}}
LocalNames(q, f, n) ==
  Range(Params(q, f))
    \cup {NameAt(q, k) : k \in {l \in 1 .. n - 1 : Kind(q, l) = "variable" /\ Owned(q, f, l)}}

Tables == UNION {[D -> {"Param", "Local", "Global"}] : D \in SUBSET (Names \cup {"this"})}

Filed(q, op, n, ss) ==
  /\ ss \in Seq(Tables)
  /\ DOMAIN ss[1] = GlobalNames(q, n)
  /\ InFunction(q, op) => Len(ss) = 2 /\ DOMAIN ss[2] = LocalNames(q, op[1], n)
  /\ ~InFunction(q, op) => Len(ss) = 1

LEMMA TableIs ==
  ASSUME NEW t
  PROVE  t \in Tables <=> /\ t \in [DOMAIN t -> {"Param", "Local", "Global"}]
                          /\ DOMAIN t \subseteq Names \cup {"this"}
BY DEF Tables

LEMMA TablesTyped ==
  ASSUME NEW ss \in Seq(Tables), NEW i \in DOMAIN ss
  PROVE  /\ DOMAIN ss[i] \subseteq Names \cup {"this"}
         /\ Range(ss[i]) \subseteq {"Param", "Local", "Global"}
<1>1. ss[i] \in Tables
  BY LenProperties, ElementOfSeq
<1> QED
  BY <1>1, TableIs DEF Range

LEMMA NamesPast ==
  ASSUME NEW q, NEW n \in Nat, n >= 1, Kind(q, n) # "variable"
  PROVE  /\ GlobalNames(q, n + 1) = GlobalNames(q, n)
         /\ \A f : LocalNames(q, f, n + 1) = LocalNames(q, f, n)
<1>1. \A l : l \in 1 .. (n + 1) - 1 /\ Kind(q, l) = "variable" <=> l \in 1 .. n - 1 /\ Kind(q, l) = "variable"
  OBVIOUS
<1> QED
  BY <1>1 DEF GlobalNames, LocalNames

LEMMA GlobalAdded ==
  ASSUME NEW q, NEW n \in Nat, n >= 1, Kind(q, n) = "variable", Unowned(q, n)
  PROVE  GlobalNames(q, n + 1) = GlobalNames(q, n) \cup {NameAt(q, n)}
<1>1. \A l : l \in 1 .. (n + 1) - 1 <=> l \in 1 .. n - 1 \/ l = n
  OBVIOUS
<1>2. {l \in 1 .. (n + 1) - 1 : Kind(q, l) = "variable" /\ Unowned(q, l)}
        = {l \in 1 .. n - 1 : Kind(q, l) = "variable" /\ Unowned(q, l)} \cup {n}
  BY <1>1
<1> QED
  BY <1>2 DEF GlobalNames

LEMMA LocalAdded ==
  ASSUME NEW q, NEW n \in Nat, n >= 1, Kind(q, n) = "variable", NEW f, Owned(q, f, n)
  PROVE  /\ LocalNames(q, f, n + 1) = LocalNames(q, f, n) \cup {NameAt(q, n)}
         /\ GlobalNames(q, n + 1) = GlobalNames(q, n)
<1>1. \A l : l \in 1 .. (n + 1) - 1 <=> l \in 1 .. n - 1 \/ l = n
  OBVIOUS
<1>2. {l \in 1 .. (n + 1) - 1 : Kind(q, l) = "variable" /\ Owned(q, f, l)}
        = {l \in 1 .. n - 1 : Kind(q, l) = "variable" /\ Owned(q, f, l)} \cup {n}
  BY <1>1
<1>3. ~Unowned(q, n)
  BY DEF Unowned, Owned
<1>4. {l \in 1 .. (n + 1) - 1 : Kind(q, l) = "variable" /\ Unowned(q, l)}
        = {l \in 1 .. n - 1 : Kind(q, l) = "variable" /\ Unowned(q, l)}
  BY <1>1, <1>3
<1> QED
  BY <1>2, <1>4 DEF GlobalNames, LocalNames

LEMMA LocalsAtFirst ==
  ASSUME NEW q, NEW n \in Nat
  PROVE  LocalNames(q, n, n + 1) = Range(Params(q, n))
<1>1. \A l \in 1 .. (n + 1) - 1 : ~Owned(q, n, l)
  BY DEF Owned
<1> QED
  BY <1>1 DEF LocalNames

\* A variable is filed where it is declared, after the others there.
LEMMA VariableFiled ==
  ASSUME NEW q, LoweredText(q), NEW n \in 1 .. Len(q), NEW op, Path(q, op, n),
         Depth(q, n) = Len(op) + 1, Kind(q, n) = "variable",
         NEW ss, Filed(q, op, n, ss), NEW kind \in {"Param", "Local", "Global"}
  PROVE  /\ Len(ss) \in 1 .. 2 /\ DOMAIN ss = 1 .. Len(ss)
         /\ Filed(q, op, n + 1, [ss EXCEPT ![Len(ss)] = With(NameAt(q, n), kind, @)])
<1> DEFINE x == NameAt(q, n)
           t == With(x, kind, ss[Len(ss)])
           s2 == [ss EXCEPT ![Len(ss)] = t]
<1>1. n \in Nat /\ n >= 1
  BY DEF LoweredText
<1>2. /\ ss \in Seq(Tables) /\ Len(ss) \in 1 .. 2 /\ DOMAIN ss = 1 .. Len(ss)
      /\ InFunction(q, op) => Len(ss) = 2
      /\ ~InFunction(q, op) => Len(ss) = 1
  <2>1. /\ ss \in Seq(Tables)
        /\ InFunction(q, op) => Len(ss) = 2
        /\ ~InFunction(q, op) => Len(ss) = 1
    BY DEF Filed
  <2> QED
    BY <2>1, LenProperties
<1>3. ss[Len(ss)] \in Tables
  BY <1>2, ElementOfSeq
<1>4. x \in Names \cup {"this"}
  BY DEF LoweredText
<1>5. t \in Tables /\ DOMAIN t = DOMAIN ss[Len(ss)] \cup {x}
  <2> HIDE DEF x
  <2>1. DOMAIN t = DOMAIN ss[Len(ss)] \cup {x}
    BY DEF With
  <2>2. t \in [DOMAIN t -> {"Param", "Local", "Global"}]
    BY <1>3, TableIs DEF With
  <2> HIDE DEF t
  <2> QED
    BY <1>3, <1>4, <2>1, <2>2, TableIs
<1> HIDE DEF t, x
<1>6. /\ s2 \in Seq(Tables) /\ Len(s2) = Len(ss)
      /\ \A i \in 1 .. Len(ss) : s2[i] = IF i = Len(ss) THEN t ELSE ss[i]
  BY <1>2, <1>5, ExceptSeq
<1> HIDE DEF s2
<1>7. ASSUME InFunction(q, op) PROVE Filed(q, op, n + 1, s2)
  <2>1. Owned(q, op[1], n)
    BY <1>7, OwnerNext
  <2>2. /\ LocalNames(q, op[1], n + 1) = LocalNames(q, op[1], n) \cup {x}
        /\ GlobalNames(q, n + 1) = GlobalNames(q, n)
    BY <1>1, <2>1, LocalAdded DEF x
  <2>3. Len(ss) = 2 /\ s2[1] = ss[1] /\ s2[2] = t
    BY <1>2, <1>6, <1>7
  <2> QED
    BY <1>5, <1>6, <1>7, <2>2, <2>3 DEF Filed
<1>8. ASSUME ~InFunction(q, op) PROVE Filed(q, op, n + 1, s2)
  <2>1. Unowned(q, n)
    BY <1>8, OwnerNext
  <2>2. GlobalNames(q, n + 1) = GlobalNames(q, n) \cup {x}
    BY <1>1, <2>1, GlobalAdded DEF x
  <2>3. Len(ss) = 1 /\ s2[1] = t
    BY <1>2, <1>6, <1>8
  <2> QED
    BY <1>5, <1>6, <1>8, <2>2, <2>3 DEF Filed
<1>9. Filed(q, op, n + 1, s2)
  BY <1>7, <1>8
<1> QED
  BY <1>2, <1>9 DEF s2, t, x

LEMMA LinePastFiled ==
  ASSUME NEW q, NEW n \in Nat, n >= 1, Kind(q, n) # "variable", NEW op, NEW ss, Filed(q, op, n, ss)
  PROVE  Filed(q, op, n + 1, ss)
BY NamesPast DEF Filed

LEMMA InFunctionInto ==
  ASSUME NEW q, LoweredText(q), NEW n \in 1 .. Len(q), NEW op, Path(q, op, n),
         Depth(q, n) = Len(op) + 1
  PROVE  /\ Append(op, n) # <<>>
         /\ op # <<>> => Append(op, n)[1] = op[1]
         /\ op = <<>> => Append(op, n)[1] = n
         /\ Kind(q, n) # "function" => (InFunction(q, Append(op, n)) <=> InFunction(q, op))
         /\ Kind(q, n) = "function" =>
              op = <<>> /\ InFunction(q, Append(op, n)) /\ ~InFunction(q, op)
<1> DEFINE r == Append(op, n)
<1>1. /\ op \in Seq(1 .. Len(q)) /\ Len(op) \in Nat
      /\ (op # <<>> => Len(op) >= 1) /\ (op = <<>> => Len(op) = 0)
  BY OpenFacts DEF Path, LoweredText
<1>2. /\ r \in Seq(1 .. Len(q)) /\ Len(r) = Len(op) + 1 /\ r[Len(op) + 1] = n
      /\ \A k \in 1 .. Len(op) : r[k] = op[k]
  BY <1>1, AppendProperties
<1> HIDE DEF r
<1>3. r # <<>>
  BY <1>1, <1>2
<1>4. /\ op # <<>> => r[1] = op[1]
      /\ op = <<>> => r[1] = n
  BY <1>1, <1>2
<1>5. Kind(q, n) = "function" => Depth(q, n) = 1
  BY DEF LoweredText
<1>6. Kind(q, n) = "function" => op = <<>>
  BY <1>1, <1>5
<1> QED
  BY <1>3, <1>4, <1>6 DEF InFunction, r

LEMMA FunctionFiled ==
  ASSUME NEW q, LoweredText(q), NEW n \in 1 .. Len(q), NEW op, Path(q, op, n),
         Depth(q, n) = Len(op) + 1, Kind(q, n) = "function",
         NEW ss, Filed(q, op, n, ss)
  PROVE  Filed(q, Append(op, n), n + 1, Append(ss, [x \in Range(Params(q, n)) |-> "Param"]))
<1> DEFINE r == Append(op, n)
           t == [x \in Range(Params(q, n)) |-> "Param"]
           s2 == Append(ss, t)
<1>1. n \in Nat /\ n >= 1
  BY DEF LoweredText
<1>2. op = <<>> /\ InFunction(q, r) /\ ~InFunction(q, op) /\ r[1] = n
  BY InFunctionInto
<1>3. t \in Tables /\ DOMAIN t = Range(Params(q, n))
  <2>1. Range(Params(q, n)) \subseteq Names \cup {"this"}
    BY DEF LoweredText
  <2>2. t \in [Range(Params(q, n)) -> {"Param", "Local", "Global"}]
    OBVIOUS
  <2> QED
    BY <2>1, <2>2, TableIs
<1> HIDE DEF t, r
<1>4. ss \in Seq(Tables) /\ Len(ss) = 1
  <2>1. ~InFunction(q, op)
    BY <1>2
  <2> QED
    BY <2>1 DEF Filed
<1>5. s2 \in Seq(Tables) /\ Len(s2) = 2 /\ s2[1] = ss[1] /\ s2[2] = t
  <2>1. /\ s2 \in Seq(Tables) /\ Len(s2) = Len(ss) + 1 /\ s2[Len(ss) + 1] = t
        /\ \A k \in 1 .. Len(ss) : s2[k] = ss[k]
    <3>1. t \in Tables /\ ss \in Seq(Tables)
      BY <1>3, <1>4
    <3> QED
      BY <3>1, AppendProperties
  <2> HIDE DEF s2
  <2> QED
    BY <1>4, <2>1
<1> HIDE DEF s2
<1>6. /\ GlobalNames(q, n + 1) = GlobalNames(q, n)
      /\ LocalNames(q, n, n + 1) = Range(Params(q, n))
  BY <1>1, NamesPast, LocalsAtFirst
<1>7. DOMAIN ss[1] = GlobalNames(q, n)
  BY DEF Filed
<1>8. Filed(q, r, n + 1, s2)
  BY <1>2, <1>3, <1>5, <1>6, <1>7 DEF Filed
<1> QED
  BY <1>8 DEF s2, t, r

LEMMA BodyFiled ==
  ASSUME NEW q, LoweredText(q), NEW n \in 1 .. Len(q), NEW op, Path(q, op, n),
         Depth(q, n) = Len(op) + 1, Kind(q, n) \notin {"function", "variable"},
         NEW ss, Filed(q, op, n, ss)
  PROVE  Filed(q, Append(op, n), n + 1, ss)
<1>1. n \in Nat /\ n >= 1
  BY DEF LoweredText
<1>2. /\ InFunction(q, Append(op, n)) <=> InFunction(q, op)
      /\ InFunction(q, op) => Append(op, n)[1] = op[1]
  BY InFunctionInto DEF InFunction
<1>3. Filed(q, op, n + 1, ss)
  BY <1>1, LinePastFiled
<1> QED
  BY <1>2, <1>3 DEF Filed

LEMMA InFunctionOut ==
  ASSUME NEW q, LoweredText(q), NEW n \in Nat, NEW op, Path(q, op, n), op # <<>>
  PROVE  /\ Kind(q, op[Len(op)]) = "function" =>
              Len(op) = 1 /\ Front(op) = <<>> /\ InFunction(q, op) /\ ~InFunction(q, Front(op))
         /\ Kind(q, op[Len(op)]) # "function" =>
              /\ InFunction(q, Front(op)) <=> InFunction(q, op)
              /\ InFunction(q, op) => Front(op)[1] = op[1]
<1>1. /\ Len(op) \in Nat /\ Len(op) >= 1 /\ Len(Front(op)) = Len(op) - 1
      /\ \A k \in 1 .. Len(op) - 1 : Front(op)[k] = op[k]
      /\ Len(op) = 1 => Front(op) = <<>>
  BY FrontIs DEF Path
<1>2. Kind(q, op[Len(op)]) = "function" => Len(op) = 1
  BY <1>1, OpenFacts
<1>3. ~InFunction(q, <<>>)
  BY DEF InFunction
<1>4. CASE Kind(q, op[Len(op)]) = "function"
  BY <1>1, <1>2, <1>3, <1>4 DEF InFunction
<1>5. CASE Kind(q, op[Len(op)]) # "function" /\ Len(op) = 1
  BY <1>1, <1>3, <1>5 DEF InFunction
<1>6. CASE Kind(q, op[Len(op)]) # "function" /\ Len(op) # 1
  <2>1. Front(op)[1] = op[1]
    BY <1>1, <1>6
  <2>2. Front(op) # <<>>
    <3> DEFINE r == Front(op)
    <3>1. Len(r) # 0
      BY <1>1, <1>6
    <3> HIDE DEF r
    <3>2. r # <<>>
      BY <3>1
    <3> QED
      BY <3>2 DEF r
  <2> QED
    BY <1>6, <2>1, <2>2 DEF InFunction
<1> QED
  BY <1>4, <1>5, <1>6

LEMMA FunctionLeft ==
  ASSUME NEW q, LoweredText(q), NEW n \in Nat, NEW op, Path(q, op, n), op # <<>>,
         Kind(q, op[Len(op)]) = "function", NEW ss, Filed(q, op, n, ss)
  PROVE  Filed(q, Front(op), n, Front(ss))
<1>1. InFunction(q, op) /\ ~InFunction(q, Front(op))
  BY InFunctionOut
<1>2. ss \in Seq(Tables) /\ Len(ss) = 2 /\ DOMAIN ss[1] = GlobalNames(q, n)
  BY <1>1 DEF Filed
<1>3. Front(ss) \in Seq(Tables) /\ Len(Front(ss)) = 1 /\ Front(ss)[1] = ss[1]
  <2>1. ss # <<>>
    BY <1>2
  <2>2. /\ Front(ss) \in Seq(Tables) /\ Len(Front(ss)) = Len(ss) - 1
        /\ \A k \in 1 .. Len(ss) - 1 : Front(ss)[k] = ss[k]
    BY <1>2, <2>1, FrontIs
  <2> QED
    BY <1>2, <2>2
<1> QED
  BY <1>1, <1>2, <1>3 DEF Filed

LEMMA BodyLeft ==
  ASSUME NEW q, LoweredText(q), NEW n \in Nat, NEW op, Path(q, op, n), op # <<>>,
         Kind(q, op[Len(op)]) # "function", NEW ss, Filed(q, op, n, ss)
  PROVE  Filed(q, Front(op), n, ss)
BY InFunctionOut DEF Filed

\* A name is found where it is declared.
LEMMA SymbolFound ==
  ASSUME symbols \in Seq(Tables), NEW x
  PROVE  SymbolOf(x) # "none" <=> \E i \in DOMAIN symbols : x \in DOMAIN symbols[i]
<1> DEFINE holding == {i \in DOMAIN symbols : x \in DOMAIN symbols[i]}
<1>1. SymbolOf(x) = IF holding = {} THEN "none" ELSE symbols[Max(holding)][x]
  BY DEF SymbolOf
<1>2. ASSUME holding # {} PROVE symbols[Max(holding)][x] # "none"
  <2>1. Len(symbols) \in Nat /\ DOMAIN symbols = 1 .. Len(symbols)
    BY LenProperties
  <2>2. holding \subseteq Nat /\ \A k \in holding : k <= Len(symbols)
    BY <2>1
  <2> HIDE DEF holding
  <2>3. Max(holding) \in holding
    BY <1>2, <2>1, <2>2, MaxFacts
  <2>4. Max(holding) \in 1 .. Len(symbols) /\ x \in DOMAIN symbols[Max(holding)]
    BY <2>1, <2>3 DEF holding
  <2>5. symbols[Max(holding)] \in Tables
    BY <2>4, ElementOfSeq
  <2>6. symbols[Max(holding)][x] \in {"Param", "Local", "Global"}
    BY <2>4, <2>5, TableIs
  <2> QED
    BY <2>6
<1> QED
  BY <1>1, <1>2
-----------------------------------------------------------------------------
(* What is declared, where there is code, and what is complete by line n.   *)

\* No function so far declares a name twice.
Apart(q, n) ==
  \A k \in 1 .. n - 1 : \A f : Kind(q, k) = "variable" /\ Owned(q, f, k) =>
    /\ NameAt(q, k) \notin Range(Params(q, f))
    /\ \A l \in 1 .. k - 1 : Kind(q, l) = "variable" /\ Owned(q, f, l) =>
         NameAt(q, l) # NameAt(q, k)

\* Code outside every function is in a branch that is still open.
Branched(q, op, n) ==
  \A k \in 1 .. n - 1 : Kind(q, k) \in {"expression", "branch"} /\ Unowned(q, k) =>
    \E l \in 1 .. Len(op) : Kind(q, op[l]) = "branch" /\ op[l] <= k

\* The functions that are complete.
Complete(q, op, n) ==
  {f \in 1 .. n - 1 : Kind(q, f) = "function" /\ ~\E k \in 1 .. Len(op) : op[k] = f}

LEMMA ApartPast ==
  ASSUME NEW q, NEW n \in Nat, n >= 1, Kind(q, n) # "variable", Apart(q, n)
  PROVE  Apart(q, n + 1)
<1>1. \A k \in 1 .. (n + 1) - 1 : k \in 1 .. n - 1 \/ k = n
  OBVIOUS
<1> QED
  BY <1>1 DEF Apart

LEMMA ApartVariable ==
  ASSUME NEW q, LoweredText(q), NEW n \in 1 .. Len(q), NEW op, Path(q, op, n),
         Depth(q, n) = Len(op) + 1, Apart(q, n),
         NEW ss, Filed(q, op, n, ss), \A i \in DOMAIN ss : NameAt(q, n) \notin DOMAIN ss[i]
  PROVE  Apart(q, n + 1)
<1>1. n \in Nat /\ \A k \in 1 .. (n + 1) - 1 : k \in 1 .. n - 1 \/ k = n
  BY DEF LoweredText
<1>2. ASSUME NEW f, Owned(q, f, n)
      PROVE  /\ NameAt(q, n) \notin Range(Params(q, f))
             /\ \A l \in 1 .. n - 1 : Kind(q, l) = "variable" /\ Owned(q, f, l) =>
                  NameAt(q, l) # NameAt(q, n)
  <2>1. InFunction(q, op) /\ f = op[1]
    BY <1>2, OwnerNext
  <2>2. Len(ss) = 2 /\ DOMAIN ss[2] = LocalNames(q, f, n) /\ ss \in Seq(Tables)
    BY <2>1 DEF Filed
  <2>3. 2 \in DOMAIN ss
    BY <2>2, LenProperties
  <2>4. NameAt(q, n) \notin LocalNames(q, f, n)
    BY <2>2, <2>3
  <2> QED
    BY <2>4 DEF LocalNames
<1> QED
  BY <1>1, <1>2 DEF Apart

LEMMA BranchedPast ==
  ASSUME NEW q, NEW n \in Nat, n >= 1, NEW op, Branched(q, op, n),
         Kind(q, n) \notin {"expression", "branch"}
  PROVE  Branched(q, op, n + 1)
<1>1. \A k \in 1 .. (n + 1) - 1 : k \in 1 .. n - 1 \/ k = n
  OBVIOUS
<1> QED
  BY <1>1 DEF Branched

\* Where there is a scope of instructions there is a function or a branch.
LEMMA BranchedExpression ==
  ASSUME NEW q, LoweredText(q), NEW n \in 1 .. Len(q), NEW op, Path(q, op, n),
         Depth(q, n) = Len(op) + 1, Branched(q, op, n), Counted(q, op) # {}
  PROVE  Branched(q, op, n + 1)
<1>1. n \in Nat /\ \A k \in 1 .. (n + 1) - 1 : k \in 1 .. n - 1 \/ k = n
  BY DEF LoweredText
<1>2. ASSUME Unowned(q, n)
      PROVE  \E l \in 1 .. Len(op) : Kind(q, op[l]) = "branch" /\ op[l] <= n
  <2>1. PICK l \in 1 .. Len(op) : Kind(q, op[l]) # "block"
    BY DEF Counted
  <2>2. /\ Kind(q, op[l]) \in {"function", "block", "branch"} /\ op[l] \in Nat /\ op[l] < n
        /\ Kind(q, op[l]) = "function" => l = 1
        /\ op # <<>>
    BY <1>1, <2>1, OpenFacts
  <2>3. Kind(q, op[l]) # "function"
    BY <1>2, <2>2, OwnerNext DEF InFunction
  <2>4. op[l] <= n
    BY <1>1, <2>2
  <2> QED
    BY <2>1, <2>2, <2>3, <2>4
<1> QED
  BY <1>1, <1>2 DEF Branched

LEMMA BranchedInto ==
  ASSUME NEW q, LoweredText(q), NEW n \in 1 .. Len(q), NEW op, Path(q, op, n),
         Depth(q, n) = Len(op) + 1, Kind(q, n) # "expression", Branched(q, op, n)
  PROVE  Branched(q, Append(op, n), n + 1)
<1> DEFINE r == Append(op, n)
<1>1. n \in Nat /\ \A k \in 1 .. (n + 1) - 1 : k \in 1 .. n - 1 \/ k = n
  BY DEF LoweredText
<1>2. /\ op \in Seq(1 .. Len(q)) /\ Len(op) \in Nat
  BY OpenFacts DEF Path
<1>3. /\ Len(r) = Len(op) + 1 /\ r[Len(op) + 1] = n
      /\ \A k \in 1 .. Len(op) : r[k] = op[k]
  BY <1>2, AppendProperties
<1> HIDE DEF r
<1>4. \A l \in 1 .. Len(op) : l \in 1 .. Len(r) /\ r[l] = op[l]
  BY <1>2, <1>3
<1>5. Len(op) + 1 \in 1 .. Len(r) /\ n <= n
  BY <1>1, <1>2, <1>3
<1>6. Branched(q, r, n + 1)
  BY <1>1, <1>3, <1>4, <1>5 DEF Branched
<1> QED
  BY <1>6 DEF r

LEMMA BranchedOut ==
  ASSUME NEW q, LoweredText(q), NEW n \in Nat, NEW op, Path(q, op, n), op # <<>>,
         n \in 1 .. Len(q) + 1, Branched(q, op, n),
         Kind(q, op[Len(op)]) = "branch" => Counted(q, Front(op)) # {}
  PROVE  Branched(q, Front(op), n)
<1> DEFINE r == Front(op)
           last == op[Len(op)]
<1>1. /\ Len(op) \in Nat /\ Len(op) >= 1 /\ Len(r) = Len(op) - 1
      /\ \A k \in 1 .. Len(op) - 1 : r[k] = op[k]
  BY FrontIs DEF Path
<1> HIDE DEF r
<1>2. ASSUME NEW k \in 1 .. n - 1, Kind(q, k) \in {"expression", "branch"}, Unowned(q, k)
      PROVE  \E l \in 1 .. Len(r) : Kind(q, r[l]) = "branch" /\ r[l] <= k
  <2>1. PICK l \in 1 .. Len(op) : Kind(q, op[l]) = "branch" /\ op[l] <= k
    BY <1>2 DEF Branched
  <2>2. CASE l # Len(op)
    <3>1. l \in 1 .. Len(r) /\ r[l] = op[l]
      BY <1>1, <2>2
    <3> QED
      BY <2>1, <3>1
  <2>3. CASE l = Len(op)
    <3>1. PICK c \in 1 .. Len(r) : Kind(q, r[c]) # "block"
      BY <2>1, <2>3 DEF Counted, r
    <3>2. c \in 1 .. Len(op) /\ c < l /\ r[c] = op[c]
      BY <1>1, <2>3
    <3>3. op[c] < op[l]
      BY <3>2, OpenOrdered
    <3>4. /\ Kind(q, op[c]) \in {"function", "block", "branch"} /\ op[c] \in 1 .. Len(q)
          /\ op[l] \in Nat /\ op[c] \in Nat
          /\ Kind(q, op[c]) = "function" => c = 1
          /\ \A j \in op[c] + 1 .. n - 1 : Depth(q, j) > c
      BY <3>2, OpenFacts
    <3>5. op[c] < k
      BY <2>1, <3>3, <3>4
    <3>6. Kind(q, op[c]) # "function"
      <4> SUFFICES ASSUME Kind(q, op[c]) = "function" PROVE FALSE
        OBVIOUS
      <4>1. op[c] \in 1 .. k - 1 /\ \A j \in op[c] + 1 .. k : Depth(q, j) > 1
        BY <3>4, <3>5
      <4>2. Owned(q, op[c], k)
        BY <4>1 DEF Owned
      <4> QED
        BY <1>2, <4>1, <4>2 DEF Unowned
    <3>7. Kind(q, r[c]) = "branch" /\ r[c] <= k
      BY <3>1, <3>2, <3>4, <3>5, <3>6
    <3> QED
      BY <3>7
  <2> QED
    BY <2>2, <2>3
<1>3. Branched(q, r, n)
  BY <1>2 DEF Branched
<1> QED
  BY <1>3 DEF r

LEMMA CompletePast ==
  ASSUME NEW q, NEW n \in Nat, n >= 1, NEW op, Kind(q, n) # "function"
  PROVE  Complete(q, op, n + 1) = Complete(q, op, n)
<1>1. \A f : f \in 1 .. (n + 1) - 1 /\ Kind(q, f) = "function" <=> f \in 1 .. n - 1 /\ Kind(q, f) = "function"
  OBVIOUS
<1> QED
  BY <1>1 DEF Complete

LEMMA CompleteInto ==
  ASSUME NEW q, NEW X, NEW op \in Seq(X), NEW n \in X, n \in Nat, n >= 1
  PROVE  Complete(q, Append(op, n), n + 1) = Complete(q, op, n)
<1> DEFINE r == Append(op, n)
<1>1. /\ Len(op) \in Nat /\ Len(r) = Len(op) + 1 /\ r[Len(op) + 1] = n
      /\ \A k \in 1 .. Len(op) : r[k] = op[k]
  BY AppendProperties
<1> HIDE DEF r
<1>2. \A f : (\E k \in 1 .. Len(r) : r[k] = f) <=> (\E k \in 1 .. Len(op) : op[k] = f) \/ f = n
  BY <1>1
<1>3. \A f : f \in 1 .. (n + 1) - 1 /\ f # n <=> f \in 1 .. n - 1
  OBVIOUS
<1>4. Complete(q, r, n + 1) = Complete(q, op, n)
  BY <1>2, <1>3 DEF Complete
<1> QED
  BY <1>4 DEF r

LEMMA CompleteOut ==
  ASSUME NEW q, LoweredText(q), NEW n \in Nat, NEW op, Path(q, op, n), op # <<>>
  PROVE  Complete(q, Front(op), n) =
           IF Kind(q, op[Len(op)]) = "function" THEN Complete(q, op, n) \cup {op[Len(op)]}
           ELSE Complete(q, op, n)
<1> DEFINE r == Front(op)
           last == op[Len(op)]
<1>1. /\ Len(op) \in Nat /\ Len(op) >= 1 /\ Len(r) = Len(op) - 1
      /\ \A k \in 1 .. Len(op) - 1 : r[k] = op[k]
  BY FrontIs DEF Path
<1> HIDE DEF r
<1>2. \A k \in 1 .. Len(op) : k \in 1 .. Len(r) \/ k = Len(op)
  BY <1>1
<1>3. \A f : (\E k \in 1 .. Len(op) : op[k] = f) <=> (\E k \in 1 .. Len(r) : r[k] = f) \/ f = last
  <2>1. Len(op) \in 1 .. Len(op) /\ \A k \in 1 .. Len(r) : k \in 1 .. Len(op) /\ r[k] = op[k]
    BY <1>1
  <2> QED
    BY <1>2, <2>1
<1>4. last \in 1 .. n - 1 /\ \A k \in 1 .. Len(r) : r[k] # last
  <2>1. Len(op) \in 1 .. Len(op)
    BY <1>1
  <2>2. last < n /\ last \in 1 .. Len(q) /\ Len(q) \in Nat
    BY <2>1, OpenFacts
  <2>3. ASSUME NEW k \in 1 .. Len(r) PROVE r[k] # last
    <3>1. k \in 1 .. Len(op) /\ k < Len(op) /\ r[k] = op[k]
      BY <1>1
    <3>2. op[k] < last /\ op[k] \in Nat
      BY <2>1, <3>1, OpenOrdered, OpenFacts
    <3> QED
      BY <2>2, <3>1, <3>2
  <2> QED
    BY <2>2, <2>3
<1> HIDE DEF last
<1>5. Complete(q, r, n) = IF Kind(q, last) = "function" THEN Complete(q, op, n) \cup {last}
                          ELSE Complete(q, op, n)
  BY <1>3, <1>4 DEF Complete
<1> QED
  BY <1>5 DEF r, last
-----------------------------------------------------------------------------
(* What the lowered program says of the text.                               *)

\* The function that body b is, or is in.
BodyFunction(p, b) == IF Kind(p, b) \in Functions THEN b ELSE FunctionOf(p, b)
Twice(p) ==
  \E d, e \in Declarations(p) :
    /\ d # e /\ d.name = e.name
    /\ d.body # 0 /\ e.body # 0
    /\ BodyFunction(p, d.body) = BodyFunction(p, e.body)
LoweredWith(p, B, q) ==
  /\ Sequence(q) /\ AllBound(p, Len(p) + 1, B)
  /\ \E o, m : Traced(p, q, o, m, Len(p)) /\ Translated(p, B, q, o, m)
LoweredFrom(p, q) == \E B : LoweredWith(p, B, q)

LEMMA VariableDeclared ==
  ASSUME NEW p, Tree(p), NEW i \in 1 .. Len(p), Kind(p, i) = "variable"
  PROVE  LET d == Declaration(NameAt(p, i), i, 0, Innermost(p, i))
         IN  /\ d \in Declarations(p) /\ d.name = NameAt(p, i) /\ d.at = i /\ d.index = 0
             /\ d.body = Innermost(p, i)
             /\ FunctionOf(p, i) # 0 => d.body # 0 /\ BodyFunction(p, d.body) = FunctionOf(p, i)
             /\ Stray(p) = {} /\ FunctionOf(p, i) = 0 => d.body = 0
<1> DEFINE d == Declaration(NameAt(p, i), i, 0, Innermost(p, i))
<1>1. d \in Declarations(p)
  BY DeclarationsMean
<1>2. d.name = NameAt(p, i) /\ d.at = i /\ d.index = 0 /\ d.body = Innermost(p, i)
  BY DEF Declaration
<1> HIDE DEF d
<1>3. FunctionOf(p, i) # 0 => d.body # 0 /\ BodyFunction(p, d.body) = FunctionOf(p, i)
  BY <1>2, Home DEF BodyFunction
<1>4. Stray(p) = {} /\ FunctionOf(p, i) = 0 => d.body = 0
  BY <1>1, <1>2 DEF Stray
<1> QED
  BY <1>1, <1>2, <1>3, <1>4 DEF d

\* No name is taken by a variable outside every function, in a text that is
\* accepted.
LEMMA GlobalFree ==
  ASSUME NEW p, Accepted(p), NEW q, Sequence(q), NEW o, NEW m, Traced(p, q, o, m, Len(p)),
         NEW n \in 1 .. Len(q), Kind(q, n) = "variable"
  PROVE  NameAt(q, n) \notin GlobalNames(q, n)
<1> DEFINE x == NameAt(q, n)
<1> SUFFICES ASSUME x \in GlobalNames(q, n) PROVE FALSE
  OBVIOUS
<1>1. Tree(p) /\ Stray(p) = {} /\ Len(q) \in Nat
  BY TracedText DEF Accepted, LoweredText
<1>2. PICK l \in 1 .. n - 1 : Kind(q, l) = "variable" /\ Unowned(q, l) /\ NameAt(q, l) = x
  BY DEF GlobalNames
<1>3. l \in 1 .. Len(q) /\ l # n
  BY <1>1, <1>2
<1>4. l \in m /\ FunctionOf(p, o[l]) = 0
  BY <1>1, <1>2, <1>3, OwnerIs
<1>5. o[l] \in 1 .. Len(p) /\ Kind(p, o[l]) = "variable" /\ NameAt(p, o[l]) = x /\ x # "this"
  BY <1>1, <1>2, <1>3, <1>4, VariablesAre
<1>6. n \in m
  BY <1>1, <1>5, VariablesAre
<1>7. o[n] \in 1 .. Len(p) /\ Kind(p, o[n]) = "variable" /\ NameAt(p, o[n]) = x
  BY <1>1, <1>6, VariablesAre
<1>8. o[l] # o[n]
  BY <1>1, <1>3, <1>4, <1>6, Origins
<1> HIDE DEF x
<1> DEFINE d == Declaration(NameAt(p, o[l]), o[l], 0, Innermost(p, o[l]))
           e == Declaration(NameAt(p, o[n]), o[n], 0, Innermost(p, o[n]))
<1>9. d \in Declarations(p) /\ d.name = x /\ d.at = o[l] /\ d.body = 0
  BY <1>1, <1>4, <1>5, VariableDeclared
<1>10. e \in Declarations(p) /\ e.name = x /\ e.at = o[n]
  BY <1>1, <1>7, VariableDeclared
<1> HIDE DEF d, e
<1>11. Shadows(p, d, e)
  BY <1>8, <1>9, <1>10 DEF Shadows, InScope
<1>12. Kind(p, d.at) # "class" /\ Kind(p, e.at) # "class"
  BY <1>5, <1>7, <1>9, <1>10
<1> QED
  BY <1>9, <1>10, <1>11, <1>12, NoShadow

\* A name that a function declares already, it declares twice in the text.
LEMMA LocalTwice ==
  ASSUME NEW p, Accepted(p), NEW q, Sequence(q), NEW o, NEW m, Traced(p, q, o, m, Len(p)),
         NEW n \in 1 .. Len(q), Kind(q, n) = "variable", NEW f, Owned(q, f, n),
         NameAt(q, n) \in LocalNames(q, f, n)
  PROVE  Twice(p)
<1> DEFINE x == NameAt(q, n)
           g == o[f]
<1>1. Tree(p) /\ Len(q) \in Nat /\ LoweredText(q) /\ f \in 1 .. n - 1 /\ f \in 1 .. Len(q)
      /\ Kind(q, f) = "function" /\ n \in Nat
  BY TracedText DEF Accepted, LoweredText, Owned
<1>2. /\ f \in m /\ g \in 1 .. Len(p) /\ Kind(p, g) \in Functions
      /\ Params(q, f) = FunctionParams(p, g)
  BY <1>1, Origins DEF FunctionImage
<1> HIDE DEF x, g
<1>3. n \in m
  <2> SUFFICES ASSUME n \notin m PROVE FALSE
    OBVIOUS
  <2>1. x = "this" /\ Owned(q, n - 1, n) /\ Kind(p, o[n - 1]) = "constructor"
    BY <1>1, VariablesAre DEF x
  <2>2. f = n - 1
    BY <1>1, <2>1, OneOwner
  <2>3. \A l \in 1 .. n - 1 : ~Owned(q, f, l)
    BY <1>1, <2>2 DEF Owned
  <2>4. x \in Range(Params(q, f))
    BY <2>3 DEF LocalNames, x
  <2>5. x \in Range(Params(p, g)) /\ Kind(p, g) = "constructor"
    BY <1>1, <1>2, <2>1, <2>2, <2>4, ParamsOfFunction DEF g
  <2>6. Params(p, g) \in Seq(Names)
    BY <1>1, <1>2, KindsOfLines DEF Params
  <2>7. x \in Names
    BY <2>5, <2>6 DEF Range
  <2> QED
    BY <2>1, <2>7, ProgramAssumption
<1>4. /\ o[n] \in 1 .. Len(p) /\ Kind(p, o[n]) = "variable" /\ NameAt(p, o[n]) = x
      /\ x # "this" /\ FunctionOf(p, o[n]) = g /\ g # 0
  <2>1. /\ o[n] \in 1 .. Len(p) /\ Kind(p, o[n]) = "variable" /\ NameAt(p, o[n]) = x /\ x # "this"
    BY <1>1, <1>3, VariablesAre DEF x
  <2>2. Kind(q, n) # "function"
    OBVIOUS
  <2>3. FunctionOf(p, o[n]) = g
    BY <1>1, <1>3, <2>2, OwnerIs DEF g
  <2> QED
    BY <1>2, <2>1, <2>3
<1> DEFINE e == Declaration(NameAt(p, o[n]), o[n], 0, Innermost(p, o[n]))
<1>5. /\ e \in Declarations(p) /\ e.name = x /\ e.at = o[n] /\ e.body # 0
      /\ BodyFunction(p, e.body) = g
  BY <1>1, <1>4, VariableDeclared
<1> HIDE DEF e
<1>6. CASE x \in Range(Params(q, f))
  <2>1. x \in Range(Params(p, g))
    BY <1>1, <1>2, <1>4, <1>6, ParamsOfFunction
  <2>2. Params(p, g) \in Seq(Names)
    BY <1>1, <1>2, KindsOfLines DEF Params
  <2>3. PICK k \in 1 .. Len(Params(p, g)) : Params(p, g)[k] = x
    BY <2>1, <2>2 DEF Range
  <2> DEFINE d == Declaration(Params(p, g)[k], g, k, g)
  <2>4. d \in Declarations(p)
    BY <1>1, <1>2, DeclarationsMean
  <2>5. d.name = x /\ d.at = g /\ d.body = g
    BY <2>3 DEF Declaration
  <2> HIDE DEF d
  <2>6. BodyFunction(p, d.body) = g
    BY <1>2, <2>5 DEF BodyFunction
  <2>7. d # e
    BY <1>2, <1>4, <1>5, <2>5 DEF Functions
  <2> QED
    BY <1>4, <1>5, <2>4, <2>5, <2>6, <2>7 DEF Twice
<1>7. CASE x \notin Range(Params(q, f))
  <2>1. PICK l \in 1 .. n - 1 : Kind(q, l) = "variable" /\ Owned(q, f, l) /\ NameAt(q, l) = x
    BY <1>7 DEF LocalNames, x
  <2>2. l \in 1 .. Len(q) /\ l # n
    BY <1>1
  <2>3. l \in m
    BY <1>1, <1>4, <2>1, <2>2, VariablesAre
  <2>4. o[l] \in 1 .. Len(p) /\ Kind(p, o[l]) = "variable" /\ NameAt(p, o[l]) = x
    BY <1>1, <2>1, <2>2, <2>3, VariablesAre
  <2>5. FunctionOf(p, o[l]) = g
    <3>1. Kind(q, l) # "function"
      BY <2>1
    <3> QED
      BY <1>1, <2>1, <2>2, <2>3, <3>1, OwnerIs DEF g
  <2>6. o[l] # o[n]
    BY <1>1, <1>3, <2>2, <2>3, Origins
  <2> DEFINE d == Declaration(NameAt(p, o[l]), o[l], 0, Innermost(p, o[l]))
  <2>7. /\ d \in Declarations(p) /\ d.name = x /\ d.at = o[l] /\ d.body # 0
        /\ BodyFunction(p, d.body) = g
    BY <1>1, <1>4, <2>4, <2>5, VariableDeclared
  <2> HIDE DEF d
  <2> QED
    BY <1>5, <2>6, <2>7 DEF Twice
<1> QED
  BY <1>6, <1>7

\* A name the generator meets again is declared twice in the text.
LEMMA MetAgain ==
  ASSUME NEW p, Accepted(p), NEW q, LoweredFrom(p, q),
         NEW n \in 1 .. Len(q), Kind(q, n) = "variable",
         NEW op, Path(q, op, n), Depth(q, n) = Len(op) + 1,
         NEW ss, Filed(q, op, n, ss), NEW i \in DOMAIN ss, NameAt(q, n) \in DOMAIN ss[i]
  PROVE  Twice(p)
<1>1. PICK o, m : Traced(p, q, o, m, Len(p))
  BY DEF LoweredFrom, LoweredWith
<1>2. Sequence(q) /\ Tree(p)
  BY DEF LoweredFrom, LoweredWith, Accepted
<1>3. LoweredText(q)
  BY <1>1, <1>2, TracedText
<1>4. NameAt(q, n) \notin DOMAIN ss[1]
  BY <1>1, <1>2, GlobalFree DEF Filed
<1>5. ss \in Seq(Tables) /\ DOMAIN ss = 1 .. Len(ss)
  BY LenProperties DEF Filed
<1>6. InFunction(q, op) /\ i = 2
  <2>1. i # 1
    BY <1>4
  <2>2. ~InFunction(q, op) => Len(ss) = 1
    BY DEF Filed
  <2>3. InFunction(q, op) => Len(ss) = 2
    BY DEF Filed
  <2> QED
    BY <1>5, <2>1, <2>2, <2>3
<1>7. NameAt(q, n) \in LocalNames(q, op[1], n) /\ Owned(q, op[1], n)
  BY <1>3, <1>6, OwnerNext DEF Filed
<1> QED
  BY <1>1, <1>2, <1>7, LocalTwice

LEMMA LineKept ==
  ASSUME NEW p, Tree(p), NEW q, NEW o, NEW m, Traced(p, q, o, m, Len(p)),
         NEW i \in 1 .. Len(p), Kind(p, i) \notin {"class", "field"}
  PROVE  /\ Kind(p, i) \in Functions =>
              \E k \in m : o[k] = i /\ Kind(q, k) = "function" /\ FunctionImage(p, q, o, k)
         /\ Kind(p, i) \notin Functions =>
              \E k \in m : o[k] = i /\ Kind(q, k) # "function" /\ StatementImage(p, q, o, m, k)
<1>1. PICK k \in m : o[k] = i
  BY DEF Traced, Kept
<1>2. m \subseteq 1 .. Len(q)
  BY Origins
<1>3. Kind(p, i) \in Functions => Kind(q, k) = "function"
  BY <1>1, Origins
<1>4. Kind(q, k) = "function" => Kind(p, i) \in Functions /\ FunctionImage(p, q, o, k)
  BY <1>1, <1>2, Origins
<1>5. Kind(q, k) # "function" => StatementImage(p, q, o, m, k)
  BY <1>1, Origins
<1> QED
  BY <1>1, <1>3, <1>4, <1>5

\* A variable in a function of the text is one in the function it becomes.
LEMMA VariableLowered ==
  ASSUME NEW p, Tree(p), NEW q, NEW o, NEW m, Traced(p, q, o, m, Len(p)),
         NEW i \in 1 .. Len(p), Kind(p, i) = "variable", FunctionOf(p, i) # 0
  PROVE  \E k, f \in m : /\ o[k] = i /\ Kind(q, k) = "variable" /\ NameAt(q, k) = NameAt(p, i)
                         /\ o[f] = FunctionOf(p, i) /\ Owned(q, f, k)
<1>1. PICK k \in m : o[k] = i /\ StatementImage(p, q, o, m, k)
  BY LineKept DEF Functions
<1> QED
  BY <1>1 DEF StatementImage

\* What a parameter or a variable of a function declares.
LEMMA DeclaredInFunction ==
  ASSUME NEW p, Tree(p), Stray(p) = {}, NEW d \in Declarations(p), d.body # 0
  PROVE  LET g == BodyFunction(p, d.body)
         IN  /\ d.at \in 1 .. Len(p) /\ Kind(p, d.at) # "class"
             /\ \/ /\ d.at = g /\ d.body = g /\ Kind(p, g) \in Functions
                   /\ d.name \in Range(Params(p, g))
                \/ /\ Kind(p, d.at) = "variable" /\ d.name = NameAt(p, d.at) /\ d.index = 0
                   /\ FunctionOf(p, d.at) = g /\ g # 0
<1>1. d.at \in 1 .. Len(p)
  BY DeclarationFields
<1>2. CASE IsParam(p, d)
  BY <1>1, <1>2, DeclarationFields DEF BodyFunction, Functions
<1>3. CASE IsVariable(p, d)
  <2>1. Kind(p, d.at) = "variable" /\ d.body = Innermost(p, d.at) /\ d.index = 0 /\ d.name = NameAt(p, d.at)
    BY <1>3, DeclarationFields DEF IsVariable
  <2>2. FunctionOf(p, d.at) = BodyFunction(p, d.body)
    BY <1>1, <2>1, Home DEF BodyFunction
  <2>3. FunctionOf(p, d.at) # 0
    BY <2>1 DEF Stray
  <2> QED
    BY <1>1, <2>1, <2>2, <2>3
<1> QED
  BY <1>2, <1>3, DeclarationFields

\* A program whose functions declare no name twice comes from such a text.
LEMMA ApartMeans ==
  ASSUME NEW p, Accepted(p), NEW q, LoweredFrom(p, q), Apart(q, Len(q) + 1)
  PROVE  ~Twice(p)
<1> SUFFICES ASSUME Twice(p) PROVE FALSE
  OBVIOUS
<1>1. PICK o, m : Traced(p, q, o, m, Len(p))
  BY DEF LoweredFrom, LoweredWith
<1>2. Tree(p) /\ Stray(p) = {} /\ LoweredText(q) /\ Len(q) \in Nat
  BY <1>1, TracedText DEF LoweredFrom, LoweredWith, Accepted, LoweredText
<1>3. PICK d, e \in Declarations(p) :
        /\ d # e /\ d.name = e.name
        /\ d.body # 0 /\ e.body # 0
        /\ BodyFunction(p, d.body) = BodyFunction(p, e.body)
  BY DEF Twice
<1> DEFINE g == BodyFunction(p, d.body)
           OfParam(c) == /\ c.at = g /\ c.body = g /\ Kind(p, g) \in Functions
                         /\ c.name \in Range(Params(p, g))
           OfVariable(c) == /\ Kind(p, c.at) = "variable" /\ c.name = NameAt(p, c.at)
                            /\ c.index = 0 /\ FunctionOf(p, c.at) = g /\ g # 0
<1>4. /\ d.at \in 1 .. Len(p) /\ e.at \in 1 .. Len(p)
      /\ Kind(p, d.at) # "class" /\ Kind(p, e.at) # "class"
      /\ OfParam(d) \/ OfVariable(d)
      /\ OfParam(e) \/ OfVariable(e)
  BY <1>2, <1>3, DeclaredInFunction
<1> HIDE DEF g
<1>5. ASSUME OfParam(d), OfParam(e) PROVE FALSE
  <2>1. g \in Nat
    BY <1>2, <1>4, <1>5, TreeLines
  <2>2. Shadows(p, d, e)
    BY <1>3, <1>5, <2>1 DEF Shadows, InScope
  <2> QED
    BY <1>3, <1>4, <2>2, NoShadow
<1>6. ASSUME NEW c \in Declarations(p), NEW v \in Declarations(p), c.name = v.name,
             c.at \in 1 .. Len(p), v.at \in 1 .. Len(p), OfParam(c), OfVariable(v)
      PROVE  FALSE
  <2>1. PICK k \in m, f \in m : /\ o[k] = v.at /\ Kind(q, k) = "variable"
                                /\ NameAt(q, k) = NameAt(p, v.at)
                                /\ o[f] = g /\ Owned(q, f, k)
    BY <1>1, <1>2, <1>6, VariableLowered
  <2>2. k \in 1 .. Len(q) /\ f \in 1 .. Len(q) /\ Kind(q, f) = "function"
    BY <1>1, <1>2, <2>1, Origins DEF Owned
  <2>3. Params(q, f) = FunctionParams(p, g)
    BY <1>1, <1>2, <2>1, <2>2, Origins DEF FunctionImage
  <2>4. NameAt(q, k) \in Range(Params(q, f))
    BY <1>2, <1>6, <2>1, <2>3, ParamsOfFunction
  <2>5. k \in 1 .. (Len(q) + 1) - 1
    BY <1>2, <2>2
  <2> QED
    BY <2>1, <2>4, <2>5 DEF Apart
<1>7. ASSUME OfVariable(d), OfVariable(e) PROVE FALSE
  <2>1. d.at # e.at
    BY <1>2, <1>3, <1>7, OneOfALine
  <2>2. PICK k \in m, f \in m : /\ o[k] = d.at /\ Kind(q, k) = "variable"
                                /\ NameAt(q, k) = NameAt(p, d.at)
                                /\ o[f] = g /\ Owned(q, f, k)
    BY <1>1, <1>2, <1>4, <1>7, VariableLowered
  <2>3. PICK l \in m, h \in m : /\ o[l] = e.at /\ Kind(q, l) = "variable"
                                /\ NameAt(q, l) = NameAt(p, e.at)
                                /\ o[h] = g /\ Owned(q, h, l)
    BY <1>1, <1>2, <1>4, <1>7, VariableLowered
  <2>4. f = h /\ k # l /\ k \in 1 .. Len(q) /\ l \in 1 .. Len(q)
    BY <1>1, <1>2, <2>1, <2>2, <2>3, Origins
  <2>5. NameAt(q, k) = NameAt(q, l)
    BY <1>3, <1>7, <2>2, <2>3
  <2>6. k \in 1 .. (Len(q) + 1) - 1 /\ l \in 1 .. (Len(q) + 1) - 1
    BY <1>2, <2>4
  <2>7. \/ l \in 1 .. k - 1
        \/ k \in 1 .. l - 1
    BY <1>2, <2>4
  <2>8. ~(l \in 1 .. k - 1)
    BY <2>2, <2>3, <2>4, <2>5, <2>6 DEF Apart
  <2>9. ~(k \in 1 .. l - 1)
    BY <2>2, <2>3, <2>4, <2>5, <2>6 DEF Apart
  <2> QED
    BY <2>7, <2>8, <2>9
<1> QED
  BY <1>3, <1>4, <1>5, <1>6, <1>7

\* Code outside every function comes from such code.
TopCode(p) ==
  \E i \in 1 .. Len(p) : FunctionOf(p, i) = 0 /\ Kind(p, i) \in {"expression", "branch"}

LEMMA CodeOutside ==
  ASSUME NEW p, Accepted(p), NEW q, LoweredFrom(p, q),
         NEW k \in 1 .. Len(q), Kind(q, k) \in {"expression", "branch"}, Unowned(q, k)
  PROVE  TopCode(p)
<1>1. PICK o, m : Traced(p, q, o, m, Len(p))
  BY DEF LoweredFrom, LoweredWith
<1>2. Tree(p) /\ Sequence(q)
  BY DEF LoweredFrom, LoweredWith, Accepted
<1>3. Kind(q, k) # "function"
  OBVIOUS
<1>4. k \in m /\ FunctionOf(p, o[k]) = 0
  BY <1>1, <1>2, <1>3, OwnerIs
<1>5. o[k] \in 1 .. Len(p) /\ Kind(p, o[k]) = Kind(q, k)
  BY <1>1, <1>2, <1>3, <1>4, Origins DEF StatementImage
<1> QED
  BY <1>4, <1>5 DEF TopCode

LEMMA NoCodeOutside ==
  ASSUME NEW p, Accepted(p), NEW q, LoweredFrom(p, q), Branched(q, <<>>, Len(q) + 1)
  PROVE  ~TopCode(p)
<1> SUFFICES ASSUME TopCode(p) PROVE FALSE
  OBVIOUS
<1>1. PICK o, m : Traced(p, q, o, m, Len(p))
  BY DEF LoweredFrom, LoweredWith
<1>2. Tree(p) /\ Sequence(q) /\ Len(q) \in Nat
  BY LenProperties DEF LoweredFrom, LoweredWith, Accepted, Sequence
<1>3. PICK i \in 1 .. Len(p) : FunctionOf(p, i) = 0 /\ Kind(p, i) \in {"expression", "branch"}
  BY DEF TopCode
<1>4. PICK k \in m : o[k] = i /\ StatementImage(p, q, o, m, k)
  BY <1>1, <1>2, <1>3, LineKept DEF Functions
<1>5. Kind(q, k) \in {"expression", "branch"} /\ Unowned(q, k) /\ k \in 1 .. Len(q)
  BY <1>1, <1>2, <1>3, <1>4, Origins DEF StatementImage, Unowned
<1>6. k \in 1 .. (Len(q) + 1) - 1 /\ Len(<<>>) = 0
  BY <1>2, <1>5
<1> QED
  BY <1>5, <1>6 DEF Branched

-----------------------------------------------------------------------------
(* The functions of the module.                                             *)

\* Two lines of the text that become functions of one name.
SameMember(p, j, k) ==
  /\ j # k /\ Kind(p, j) \in {"constructor", "method"}
  /\ Kind(p, k) = Kind(p, j) /\ NameAt(p, k) = NameAt(p, j)
  /\ ClassName(p, k) = ClassName(p, j)

LEMMA MemberName ==
  ASSUME NEW p, Tree(p), NEW i \in 1 .. Len(p), Kind(p, i) \in {"constructor", "method"}
  PROVE  LET x == IF Kind(p, i) = "constructor" THEN "constructor" ELSE NameAt(p, i)
         IN  /\ FunctionName(p, i) = Qualified(ClassName(p, i), x)
             /\ ClassName(p, i) \in Names /\ x \in Names \cup {"constructor"}
             /\ FunctionName(p, i) \notin Names
<1> DEFINE x == IF Kind(p, i) = "constructor" THEN "constructor" ELSE NameAt(p, i)
<1>1. FunctionName(p, i) = Qualified(ClassName(p, i), x)
  BY DEF FunctionName
<1>2. ClassName(p, i) \in Names
  BY ClassOfMember DEF Members
<1>3. x \in Names \cup {"constructor"}
  BY NamesOfMembers
<1> HIDE DEF x
<1>4. Qualified(ClassName(p, i), x) \notin Names
  BY <1>2, <1>3, QualifiedAssumption
<1> QED
  BY <1>1, <1>2, <1>3, <1>4 DEF x

LEMMA SameNames ==
  ASSUME NEW p, Accepted(p), NEW j \in 1 .. Len(p), NEW k \in 1 .. Len(p), j # k,
         Kind(p, j) \in Functions, Kind(p, k) \in Functions
  PROVE  FunctionName(p, j) = FunctionName(p, k) <=> SameMember(p, j, k)
<1>1. Tree(p)
  BY DEF Accepted
<1>2. ASSUME NEW i \in 1 .. Len(p), Kind(p, i) = "function"
      PROVE  FunctionName(p, i) = NameAt(p, i) /\ NameAt(p, i) \in Names
  BY <1>1, <1>2, KindsOfLines DEF FunctionName, NameAt
<1>3. ASSUME Kind(p, j) = "function", Kind(p, k) = "function",
             FunctionName(p, j) = FunctionName(p, k)
      PROVE  FALSE
  <2> DEFINE d == Declaration(NameAt(p, j), j, 0, 0)
             e == Declaration(NameAt(p, k), k, 0, 0)
  <2>1. d \in Declarations(p) /\ e \in Declarations(p)
    BY <1>1, <1>3, DeclarationsMean
  <2>2. d.at = j /\ e.at = k /\ d.body = 0 /\ d.name = NameAt(p, j) /\ e.name = NameAt(p, k)
    BY DEF Declaration
  <2> HIDE DEF d, e
  <2>3. Shadows(p, d, e)
    BY <1>2, <1>3, <2>2 DEF Shadows, InScope
  <2> QED
    BY <1>3, <2>1, <2>2, <2>3, NoShadow
<1>4. CASE Kind(p, j) = "function" \/ Kind(p, k) = "function"
  <2>1. FunctionName(p, j) # FunctionName(p, k)
    BY <1>1, <1>2, <1>3, <1>4, MemberName DEF Functions
  <2>2. ~SameMember(p, j, k)
    BY <1>4 DEF SameMember
  <2> QED
    BY <2>1, <2>2
<1>5. CASE Kind(p, j) # "function" /\ Kind(p, k) # "function"
  <2>1. Kind(p, j) \in {"constructor", "method"} /\ Kind(p, k) \in {"constructor", "method"}
    BY <1>5 DEF Functions
  <2> DEFINE xj == IF Kind(p, j) = "constructor" THEN "constructor" ELSE NameAt(p, j)
             xk == IF Kind(p, k) = "constructor" THEN "constructor" ELSE NameAt(p, k)
  <2>2. /\ FunctionName(p, j) = Qualified(ClassName(p, j), xj)
        /\ ClassName(p, j) \in Names /\ xj \in Names \cup {"constructor"}
        /\ FunctionName(p, k) = Qualified(ClassName(p, k), xk)
        /\ ClassName(p, k) \in Names /\ xk \in Names \cup {"constructor"}
    BY <1>1, <2>1, MemberName
  <2>3. FunctionName(p, j) = FunctionName(p, k) <=> ClassName(p, j) = ClassName(p, k) /\ xj = xk
    <3> HIDE DEF xj, xk
    <3> QED
      BY <2>2, QualifiedAssumption
  <2>4. xj = xk <=> Kind(p, k) = Kind(p, j) /\ NameAt(p, k) = NameAt(p, j)
    <3>1. /\ Kind(p, j) = "constructor" => NameAt(p, j) = "none"
          /\ Kind(p, j) = "method" => NameAt(p, j) \in Names
      BY <1>1, NamesOfMembers
    <3>2. /\ Kind(p, k) = "constructor" => NameAt(p, k) = "none"
          /\ Kind(p, k) = "method" => NameAt(p, k) \in Names
      BY <1>1, NamesOfMembers
    <3>3. "constructor" \notin Names
      BY ProgramAssumption
    <3>4. /\ Kind(p, j) = "constructor" => xj = "constructor" /\ NameAt(p, j) = "none"
          /\ Kind(p, k) = "constructor" => xk = "constructor" /\ NameAt(p, k) = "none"
      BY <3>1, <3>2
    <3>5. /\ Kind(p, j) = "method" => xj = NameAt(p, j) /\ xj # "constructor"
          /\ Kind(p, k) = "method" => xk = NameAt(p, k) /\ xk # "constructor"
      BY <3>1, <3>2, <3>3
    <3> HIDE DEF xj, xk
    <3> QED
      BY <2>1, <3>4, <3>5
  <2> QED
    BY <2>1, <2>3, <2>4 DEF SameMember
<1> QED
  BY <1>4, <1>5

\* Two functions of a lowered program have one name if and only if the text has
\* two such lines.
LEMMA NamesUnique ==
  ASSUME NEW p, Accepted(p), NEW q, LoweredFrom(p, q)
  PROVE  LET F == {f \in 1 .. Len(q) : Kind(q, f) = "function"}
         IN  (\E f, g \in F : f # g /\ NameAt(q, f) = NameAt(q, g))
               <=> \E j, k \in 1 .. Len(p) : SameMember(p, j, k)
<1> DEFINE F == {f \in 1 .. Len(q) : Kind(q, f) = "function"}
<1>1. PICK o, m : Traced(p, q, o, m, Len(p))
  BY DEF LoweredFrom, LoweredWith
<1>2. Tree(p)
  BY DEF Accepted
<1>3. ASSUME NEW f \in F
      PROVE  /\ f \in m /\ o[f] \in 1 .. Len(p) /\ Kind(p, o[f]) \in Functions
             /\ NameAt(q, f) = FunctionName(p, o[f])
  BY <1>1, <1>2, Origins DEF FunctionImage
<1>4. ASSUME NEW f \in F, NEW g \in F, f # g, NameAt(q, f) = NameAt(q, g)
      PROVE  \E j, k \in 1 .. Len(p) : SameMember(p, j, k)
  <2>1. o[f] # o[g]
    BY <1>1, <1>2, <1>3, <1>4, Origins
  <2>2. SameMember(p, o[f], o[g])
    BY <1>3, <1>4, <2>1, SameNames
  <2> QED
    BY <1>3, <2>2
<1>5. ASSUME NEW j \in 1 .. Len(p), NEW k \in 1 .. Len(p), SameMember(p, j, k)
      PROVE  \E f, g \in F : f # g /\ NameAt(q, f) = NameAt(q, g)
  <2>1. /\ Kind(p, j) \in Functions /\ Kind(p, k) \in Functions /\ j # k
        /\ Kind(p, j) \notin {"class", "field"} /\ Kind(p, k) \notin {"class", "field"}
    BY <1>5 DEF SameMember, Functions
  <2>2. FunctionName(p, j) = FunctionName(p, k)
    BY <1>5, <2>1, SameNames
  <2>3. PICK f \in m : o[f] = j /\ Kind(q, f) = "function" /\ FunctionImage(p, q, o, f)
    BY <1>1, <1>2, <2>1, LineKept
  <2>4. PICK g \in m : o[g] = k /\ Kind(q, g) = "function" /\ FunctionImage(p, q, o, g)
    BY <1>1, <1>2, <2>1, LineKept
  <2>5. f \in F /\ g \in F /\ f # g
    BY <1>1, <1>2, <2>1, <2>3, <2>4, Origins
  <2>6. NameAt(q, f) = NameAt(q, g)
    BY <2>2, <2>3, <2>4 DEF FunctionImage
  <2> QED
    BY <2>5, <2>6
<1> QED
  BY <1>4, <1>5
-----------------------------------------------------------------------------
(* The invariant.                                                           *)

Fresh == output = "none" /\ symbols = <<>> /\ pending = 0 /\ module = [f \in {0} |-> {}]

Analysing == SemInv /\ BindInv /\ source = <<>> /\ Fresh /\ (phase = "accepted" => next = 1)

\* What HirLower makes of a text.
HirFrom(p, B, q) ==
  /\ Sequence(q) /\ AllBound(p, Len(p) + 1, B)
  /\ \E o, m : Traced(p, q, o, m, Len(p)) /\ Worded(p, B, q, o, m)

GivesUp(h) == Has(h, "panic") \/ ~Printable(h)

BeingLowered ==
  /\ phase \in {"hir", "printed", "lowered", "panicked"}
  /\ Fresh /\ next = 1 /\ open = <<>>
  /\ Accepted(source)
  /\ phase \in {"hir", "printed"} =>
       /\ HirFrom(source, bindings, program)
       /\ \A k \in 1 .. Len(program) : ~Has(program[k].node.expr, "panic")
  /\ phase = "printed" => \A k \in 1 .. Len(program) : Printable(program[k].node.expr)
  /\ phase = "lowered" => LoweredWith(source, bindings, program)
  /\ phase = "panicked" =>
       \E q : HirFrom(source, bindings, q) /\ \E k \in 1 .. Len(q) : GivesUp(q[k].node.expr)

BeingGenerated ==
  /\ phase = "lowered" /\ output = "generating"
  /\ Accepted(source) /\ LoweredFrom(source, program)
  /\ next \in 1 .. Len(program) + 1 /\ Path(program, open, next)
  /\ Filed(program, open, next, symbols)
  /\ pending = Cardinality(Counted(program, open))
  /\ Apart(program, next) /\ Branched(program, open, next)
  /\ DOMAIN module = {0} \cup Complete(program, open, next)

Stopped ==
  /\ phase = "lowered" /\ output \in {"module", "unreachable", "unwrapped", "todo"}
  /\ Accepted(source) /\ LoweredFrom(source, program)
  /\ symbols \in Seq(Tables) /\ pending \in 0 .. Len(open)
  /\ DOMAIN module \subseteq {0} \cup 1 .. Len(program)
  /\ output = "unreachable" => Twice(source)
  /\ output = "unwrapped" => TopCode(source)
  /\ output = "module" =>
       /\ ~Twice(source) /\ ~TopCode(source)
       /\ pending = 0 /\ symbols = <<>>
       /\ DOMAIN module = {0} \cup {f \in 1 .. Len(program) : Kind(program, f) = "function"}

CodegenInv == Analysing \/ BeingLowered \/ BeingGenerated \/ Stopped

LEMMA CodegenInit == Init => CodegenInv
<1> SUFFICES ASSUME Init PROVE CodegenInv
  OBVIOUS
<1>1. SemInv /\ BindInv /\ phase = "parse"
  BY InitKept, BindInit DEF Init, SemInit
<1> QED
  BY <1>1 DEF Init, SourceInit, Fresh, CodegenInv, Analysing

LEMMA SameStage == CodegenInv /\ UNCHANGED vars => CodegenInv'
<1> SUFFICES ASSUME CodegenInv, UNCHANGED vars PROVE CodegenInv'
  OBVIOUS
<1>1. UNCHANGED semVars /\ UNCHANGED <<source, output, symbols, pending, module>>
  BY DEF vars, genVars
<1>2. UNCHANGED <<program, phase, next, open, bindings>>
  BY <1>1 DEF semVars
<1>3. Analysing => Analysing'
  BY <1>1, <1>2, Unchanged, BindKept DEF Analysing, Fresh
<1>4. BeingLowered => BeingLowered'
  BY <1>1, <1>2 DEF BeingLowered, Fresh
<1>5. BeingGenerated => BeingGenerated'
  BY <1>1, <1>2 DEF BeingGenerated
<1>6. Stopped => Stopped'
  BY <1>1, <1>2 DEF Stopped
<1> QED
  BY <1>3, <1>4, <1>5, <1>6 DEF CodegenInv

-----------------------------------------------------------------------------
(* Analysis and lowering.                                                   *)

LEMMA AnalysisPhases ==
  SemNext => /\ phase \in {"parse", "global", "local"}
             /\ phase' = "accepted" => next' = 1
<1>1. Parse \/ Parsed => phase = "parse" /\ phase' # "accepted"
  BY DEF Parse, Parsed
<1>2. GlobalFunction \/ GlobalClass \/ GlobalVariable \/ GlobalOther
        => phase = "global" /\ phase' = phase
  BY DEF GlobalFunction, GlobalClass, GlobalVariable, GlobalOther
<1>3. GlobalDone => phase = "global" /\ next' = 1
  BY DEF GlobalDone
<1>4. LocalVariable \/ LocalExpression => phase = "local" /\ phase' = phase
  BY DEF LocalVariable, LocalExpression
<1>5. LocalUnwrap => phase = "local" /\ phase' = "panicked"
  BY DEF LocalUnwrap
<1>6. LocalFunction \/ LocalClass \/ LocalBlock \/ LocalLeave => phase = "local" /\ phase' = phase
  BY DEF LocalFunction, LocalClass, LocalBlock, LocalLeave
<1>7. LocalDone => phase = "local" /\ next' = 1
  BY DEF LocalDone
<1> QED
  BY <1>1, <1>2, <1>3, <1>4, <1>5, <1>6, <1>7 DEF SemNext

LEMMA AnalyseKeeps == CodegenInv /\ Analyse => CodegenInv'
<1> SUFFICES ASSUME CodegenInv, Analyse PROVE CodegenInv'
  OBVIOUS
<1>1. SemNext /\ UNCHANGED <<source, output, symbols, pending, module>>
  BY DEF Analyse, genVars
<1>2. phase \in {"parse", "global", "local"} /\ (phase' = "accepted" => next' = 1)
  BY <1>1, AnalysisPhases
<1>3. Analysing
  BY <1>2 DEF CodegenInv, BeingLowered, BeingGenerated, Stopped
<1>4. SemInv' /\ BindInv'
  BY <1>1, <1>3, SemInvKept, BindKept DEF Analysing
<1> QED
  BY <1>1, <1>2, <1>3, <1>4 DEF CodegenInv, Analysing, Fresh

\* What semantic analysis accepts.
LEMMA AcceptedText == SemInv /\ phase = "accepted" => Accepted(program)
<1> SUFFICES ASSUME SemInv, phase = "accepted" PROVE Accepted(program)
  OBVIOUS
<1>1. Tree(program)
  BY DEF SemInv, Typed
<1>2. Stray(program) = {}
  <2>1. Stray(program) = BlockVariables
    BY DEF BlockVariables, Stray, Declared, Kind
  <2> QED
    BY <2>1, SemInvExplains DEF CollisionsExplained
<1>3. ASSUME NEW d \in Declarations(program), NEW e \in Declarations(program), Shadows(program, d, e)
      PROVE  /\ d.body = 0 /\ e.body = 0
             /\ IF d.at < e.at THEN Kind(program, e.at) = "class" ELSE Kind(program, d.at) = "class"
  BY <1>3, SemInvShadows DEF NothingShadowed, Shadows, Declared, IsClass, Kind
<1>4. ASSUME NEW i \in 1 .. Len(program), NEW x \in Mentions(program[i].node.expr)
      PROVE  Known(program, x, i)
  <2>1. i \in DOMAIN program
    BY <1>1, TreeLines
  <2>2. InProgram(x, i)
    BY <2>1, SemInvResolves DEF IdentifiersResolved
  <2> QED
    BY <2>2 DEF InProgram, Known, Declared
<1> QED
  BY <1>1, <1>2, <1>3, <1>4 DEF Accepted

LEMMA HirKeeps == CodegenInv /\ HirLower /\ UNCHANGED genVars => CodegenInv'
<1> SUFFICES ASSUME CodegenInv, HirLower, UNCHANGED genVars PROVE CodegenInv'
  OBVIOUS
<1> DEFINE q == HirLines
           panics == \E i \in DOMAIN q : Has(q[i].node.expr, "panic")
<1>1. /\ phase = "accepted" /\ source' = program /\ UNCHANGED <<next, open, bindings>>
      /\ program' = IF panics THEN program ELSE q
      /\ phase' = IF panics THEN "panicked" ELSE "hir"
  BY DEF HirLower, HirLines
<1>2. SemInv /\ BindInv /\ Fresh /\ next = 1
  BY <1>1 DEF CodegenInv, Analysing, BeingLowered, BeingGenerated, Stopped
<1>3. open = <<>>
  BY <1>1, <1>2 DEF SemInv, Finished
<1>4. Accepted(program)
  BY <1>1, <1>2, AcceptedText
<1>5. AllBound(program, Len(program) + 1, bindings)
  BY <1>1, <1>2 DEF BindInv
<1>6. HirFrom(program, bindings, q) /\ DOMAIN q = 1 .. Len(q)
  <2>1. Tree(program)
    BY <1>4 DEF Accepted
  <2> HIDE DEF q
  <2> QED
    BY <1>5, <2>1, HirTraced, LenProperties DEF HirFrom, Sequence, q
<1> HIDE DEF q
<1>7. CASE panics
  <2>1. \E k \in 1 .. Len(q) : GivesUp(q[k].node.expr)
    BY <1>6, <1>7 DEF GivesUp
  <2>2. HirFrom(source', bindings', q)
    BY <1>1, <1>6
  <2> QED
    BY <1>1, <1>2, <1>3, <1>4, <1>7, <2>1, <2>2 DEF CodegenInv, BeingLowered, Fresh, genVars
<1>8. CASE ~panics
  <2>1. \A k \in 1 .. Len(q) : ~Has(q[k].node.expr, "panic")
    BY <1>6, <1>8
  <2>2. HirFrom(source', bindings', program') /\ program' = q
    BY <1>1, <1>6, <1>8
  <2> QED
    BY <1>1, <1>2, <1>3, <1>4, <1>8, <2>1, <2>2 DEF CodegenInv, BeingLowered, Fresh, genVars
<1> QED
  BY <1>7, <1>8

LEMMA SerializeKeeps == CodegenInv /\ Serialize /\ UNCHANGED genVars => CodegenInv'
<1> SUFFICES ASSUME CodegenInv, Serialize, UNCHANGED genVars PROVE CodegenInv'
  OBVIOUS
<1> DEFINE prints == \A i \in DOMAIN program : Printable(program[i].node.expr)
<1>1. /\ phase = "hir" /\ UNCHANGED <<source, program, next, open, bindings>>
      /\ phase' = IF prints THEN "printed" ELSE "panicked"
  BY DEF Serialize
<1>2. BeingLowered
  BY <1>1 DEF CodegenInv, Analysing, SemInv, Typed, BeingGenerated, Stopped
<1>3. DOMAIN program = 1 .. Len(program) /\ HirFrom(source, bindings, program)
  BY <1>1, <1>2, LenProperties DEF BeingLowered, HirFrom, Sequence
<1>4. phase' = "printed" => \A k \in 1 .. Len(program) : Printable(program[k].node.expr)
  BY <1>1, <1>3
<1>5. phase' = "panicked" => \E k \in 1 .. Len(program) : GivesUp(program[k].node.expr)
  BY <1>1, <1>3 DEF GivesUp
<1>6. phase' \in {"printed", "panicked"}
  BY <1>1
<1> HIDE DEF prints
<1> QED
  BY <1>1, <1>2, <1>3, <1>4, <1>5, <1>6 DEF CodegenInv, BeingLowered, Fresh, genVars

LEMMA MirKeeps == CodegenInv /\ MirLower /\ UNCHANGED genVars => CodegenInv'
<1> SUFFICES ASSUME CodegenInv, MirLower, UNCHANGED genVars PROVE CodegenInv'
  OBVIOUS
<1>1. phase = "printed" /\ UNCHANGED <<source, next, open, bindings>> /\ phase' = "lowered"
  BY DEF MirLower
<1>2. BeingLowered
  BY <1>1 DEF CodegenInv, Analysing, SemInv, Typed, BeingGenerated, Stopped
<1>3. /\ HirFrom(source, bindings, program)
      /\ \A k \in 1 .. Len(program) :
           ~Has(program[k].node.expr, "panic") /\ Printable(program[k].node.expr)
  BY <1>1, <1>2 DEF BeingLowered
<1>4. PICK o, m : /\ Traced(source, program, o, m, Len(source))
                  /\ Worded(source, bindings, program, o, m)
  BY <1>3 DEF HirFrom
<1>5. Sequence(program') /\ Traced(source, program', o, m, Len(source))
  BY <1>3, <1>4, MirTraced DEF HirFrom
<1>6. Translated(source, bindings, program', o, m)
  BY <1>3, <1>4, MirTranslated DEF HirFrom
<1>7. LoweredWith(source, bindings, program')
  BY <1>3, <1>5, <1>6 DEF LoweredWith, HirFrom
<1> QED
  BY <1>1, <1>2, <1>7 DEF CodegenInv, BeingLowered, Fresh, genVars

LEMMA LowerKeeps == CodegenInv /\ LowerTree => CodegenInv'
BY HirKeeps, SerializeKeeps, MirKeeps DEF LowerTree, Lower

LEMMA TextFacts ==
  ASSUME NEW p, Accepted(p), NEW q, LoweredFrom(p, q)
  PROVE  LoweredText(q) /\ Len(q) \in Nat /\ DOMAIN q = 1 .. Len(q)
<1>1. LoweredText(q)
  BY TracedText DEF LoweredFrom, LoweredWith, Accepted
<1> QED
  BY <1>1, LenProperties DEF LoweredFrom, LoweredWith, Sequence

LEMMA GenerateKeeps == CodegenInv /\ GenerateModule => CodegenInv'
<1> SUFFICES ASSUME CodegenInv, GenerateModule PROVE CodegenInv'
  OBVIOUS
<1>1. /\ phase = "lowered" /\ output = "none" /\ output' = "generating"
      /\ symbols' = Append(symbols, Empty)
      /\ UNCHANGED <<semVars, source, pending, module>>
  BY DEF GenerateModule
<1>2. BeingLowered
  BY <1>1 DEF CodegenInv, Analysing, SemInv, Typed, BeingGenerated, Stopped
<1>3. UNCHANGED <<program, phase, next, open>>
  BY <1>1 DEF semVars
<1>4. /\ symbols = <<>> /\ pending = 0 /\ DOMAIN module = {0} /\ next = 1 /\ open = <<>>
      /\ Accepted(source) /\ LoweredFrom(source, program)
  BY <1>1, <1>2 DEF BeingLowered, Fresh, LoweredFrom
<1>5. LoweredText(program) /\ Len(program) \in Nat
  BY <1>4, TextFacts
<1>6. symbols' \in Seq(Tables) /\ Len(symbols') = 1 /\ symbols'[1] = Empty
  <2>1. DOMAIN Empty = {} /\ Empty \in Tables
    <3>1. DOMAIN Empty = {} /\ Empty \in [{} -> {"Param", "Local", "Global"}]
      BY DEF Empty
    <3> QED
      BY <3>1, TableIs
  <2>2. symbols' = <<Empty>>
    BY <1>1, <1>4
  <2> QED
    BY <2>1, <2>2
<1>7. Filed(program, <<>>, 1, symbols')
  <2>1. GlobalNames(program, 1) = {} /\ DOMAIN Empty = {}
    BY DEF GlobalNames, Empty
  <2>2. ~InFunction(program, <<>>)
    BY DEF InFunction
  <2> QED
    BY <1>6, <2>1, <2>2 DEF Filed
<1>8. /\ Path(program, <<>>, 1) /\ Apart(program, 1) /\ Branched(program, <<>>, 1)
      /\ Complete(program, <<>>, 1) = {}
  <2>1. 1 .. 1 - 1 = {} /\ Len(<<>>) = 0 /\ 1 .. 0 = {} /\ <<>> \in Seq(1 .. Len(program))
    OBVIOUS
  <2> QED
    BY <2>1 DEF Path, Apart, Branched, Complete
<1>9. Cardinality(Counted(program, <<>>)) = 0
  <2>1. Counted(program, <<>>) = {}
    BY DEF Counted
  <2> QED
    BY <2>1, FS_EmptySet
<1>10. BeingGenerated'
  BY <1>1, <1>3, <1>4, <1>5, <1>7, <1>8, <1>9 DEF BeingGenerated
<1> QED
  BY <1>10 DEF CodegenInv
-----------------------------------------------------------------------------
(* The steps of the generator.                                              *)

LEMMA GenFacts ==
  ASSUME CodegenInv, Generating
  PROVE  /\ BeingGenerated
         /\ LoweredText(program) /\ Len(program) \in Nat /\ next \in Nat /\ next >= 1
         /\ open \in Seq(1 .. Len(program)) /\ Len(open) \in Nat
         /\ symbols \in Seq(Tables)
         /\ pending \in 0 .. Len(open) /\ (pending = 0 <=> Counted(program, open) = {})
         /\ DOMAIN module \subseteq {0} \cup 1 .. Len(program)
<1>1. BeingGenerated
  BY DEF Generating, CodegenInv, Analysing, BeingLowered, Fresh, Stopped
<1>2. LoweredText(program) /\ Len(program) \in Nat
  BY <1>1, TextFacts DEF BeingGenerated
<1>3. next \in 1 .. Len(program) + 1
  BY <1>1 DEF BeingGenerated
<1>4. next \in Nat /\ next >= 1 /\ next - 1 <= Len(program)
  BY <1>2, <1>3
<1>5. open \in Seq(1 .. Len(program)) /\ Len(open) \in Nat
  BY <1>1, LenProperties DEF BeingGenerated, Path
<1>6. symbols \in Seq(Tables)
  BY <1>1 DEF BeingGenerated, Filed
<1>7. pending \in 0 .. Len(open) /\ (pending = 0 <=> Counted(program, open) = {})
  BY <1>1, <1>5, CountedFacts DEF BeingGenerated
<1>8. Complete(program, open, next) \subseteq 1 .. Len(program)
  BY <1>2, <1>4 DEF Complete
<1>9. DOMAIN module \subseteq {0} \cup 1 .. Len(program)
  BY <1>1, <1>8 DEF BeingGenerated
<1> QED
  BY <1>1, <1>2, <1>4, <1>5, <1>6, <1>7, <1>9

LEMMA AtBodyFacts ==
  ASSUME CodegenInv, Generating, AtBody
  PROVE  /\ next \in 1 .. Len(program) /\ Depth(program, next) = Len(open) + 1
         /\ Visited.kind = Kind(program, next) /\ Visited.name = NameAt(program, next)
         /\ Visited.params = Params(program, next)
<1>1. next \in Nat /\ next >= 1 /\ Len(program) \in Nat
  BY GenFacts
<1>2. next <= Len(program) /\ Depth(program, next) = Len(open) + 1
  BY DEF AtBody, Visiting, Depth
<1> QED
  BY <1>1, <1>2 DEF Visited, Kind, NameAt, Params

LEMMA WalkPast ==
  ASSUME CodegenInv, Generating, Walk(<<>>)
  PROVE  UNCHANGED <<program, source, phase, open>> /\ next' = next + 1
<1>1. Sequence(open)
  BY GenFacts DEF Sequence
<1> QED
  BY <1>1, NothingMore DEF Walk

LEMMA WalkInto ==
  ASSUME CodegenInv, Generating, AtBody, Walk(<<next>>)
  PROVE  /\ UNCHANGED <<program, source, phase>> /\ next' = next + 1
         /\ open' = Append(open, next)
<1>1. open \in Seq(1 .. Len(program)) /\ next \in 1 .. Len(program)
  BY GenFacts, AtBodyFacts
<1>2. Append(open, next) = open \o <<next>>
  BY <1>1, AppendIsConcat
<1> QED
  BY <1>2 DEF Walk

LEMMA GenVariableKeeps == CodegenInv /\ GenVariable => CodegenInv'
<1> SUFFICES ASSUME CodegenInv, GenVariable PROVE CodegenInv'
  OBVIOUS
<1> DEFINE n == next
           x == NameAt(program, next)
<1>1. /\ Generating /\ AtBody /\ Visited.kind = "variable" /\ Walk(<<>>)
      /\ SymbolOf(Visited.name) = "none" /\ UNCHANGED <<output, pending>>
  BY DEF GenVariable
<1>2. PICK kind \in {"Global", "Local"} :
        /\ symbols' = DefinedSymbol(Visited.name, kind)
        /\ module' = IF kind = "Global" THEN [module EXCEPT ![0] = @ \cup {Visited.name}]
                     ELSE module
  BY DEF GenVariable
<1>3. /\ BeingGenerated /\ LoweredText(program) /\ symbols \in Seq(Tables)
      /\ n \in 1 .. Len(program) /\ n \in Nat /\ n >= 1 /\ Len(program) \in Nat
      /\ Depth(program, n) = Len(open) + 1
      /\ Kind(program, n) = "variable" /\ Visited.name = x
  BY <1>1, GenFacts, AtBodyFacts
<1>4. UNCHANGED <<program, source, phase, open>> /\ next' = n + 1
  BY <1>1, WalkPast
<1>5. /\ Path(program, open, n) /\ Filed(program, open, n, symbols)
      /\ Apart(program, n) /\ Branched(program, open, n)
      /\ pending = Cardinality(Counted(program, open))
      /\ DOMAIN module = {0} \cup Complete(program, open, n)
      /\ Accepted(source) /\ LoweredFrom(source, program) /\ phase = "lowered"
      /\ output = "generating"
  BY <1>3 DEF BeingGenerated
<1> HIDE DEF n, x
<1>6. Path(program, open, n + 1)
  BY <1>3, <1>5, GenPast
<1>7. Filed(program, open, n + 1, symbols')
  <2>1. Filed(program, open, n + 1, [symbols EXCEPT ![Len(symbols)] = With(x, kind, @)])
    BY <1>3, <1>5, VariableFiled DEF x, n
  <2> QED
    BY <1>2, <1>3, <2>1 DEF DefinedSymbol
<1>8. Apart(program, n + 1)
  <2>1. \A i \in DOMAIN symbols : NameAt(program, n) \notin DOMAIN symbols[i]
    BY <1>1, <1>3, SymbolFound DEF x, n
  <2> QED
    BY <1>3, <1>5, <2>1, ApartVariable
<1>9. Branched(program, open, n + 1) /\ Complete(program, open, n + 1) = Complete(program, open, n)
  BY <1>3, <1>5, BranchedPast, CompletePast
<1>10. DOMAIN module' = {0} \cup Complete(program, open, n + 1)
  BY <1>2, <1>5, <1>9
<1>11. n + 1 \in 1 .. Len(program) + 1
  BY <1>3
<1>12. BeingGenerated'
  BY <1>1, <1>4, <1>5, <1>6, <1>7, <1>8, <1>9, <1>10, <1>11 DEF BeingGenerated
<1> QED
  BY <1>12 DEF CodegenInv

\* A step that stops where it is.
LEMMA StopsHere ==
  ASSUME CodegenInv, Generating,
         UNCHANGED <<semVars, source, symbols, pending, module>>,
         \/ output' = "todo"
         \/ output' = "unreachable" /\ Twice(source)
         \/ output' = "unwrapped" /\ TopCode(source)
  PROVE  CodegenInv'
<1>1. UNCHANGED <<program, phase, next, open>>
  BY DEF semVars
<1>2. /\ BeingGenerated /\ symbols \in Seq(Tables) /\ pending \in 0 .. Len(open)
      /\ DOMAIN module \subseteq {0} \cup 1 .. Len(program)
  BY GenFacts
<1>3. Stopped'
  BY <1>1, <1>2 DEF Stopped, BeingGenerated
<1> QED
  BY <1>3 DEF CodegenInv

LEMMA GenTwiceKeeps == CodegenInv /\ GenVariableTwice => CodegenInv'
<1> SUFFICES ASSUME CodegenInv, GenVariableTwice PROVE CodegenInv'
  OBVIOUS
<1>1. /\ Generating /\ AtBody /\ Visited.kind = "variable"
      /\ SymbolOf(Visited.name) # "none" /\ output' = "unreachable"
      /\ UNCHANGED <<semVars, source, symbols, pending, module>>
  BY DEF GenVariableTwice
<1>2. /\ BeingGenerated /\ symbols \in Seq(Tables)
      /\ next \in 1 .. Len(program) /\ Depth(program, next) = Len(open) + 1
      /\ Kind(program, next) = "variable" /\ Visited.name = NameAt(program, next)
  BY <1>1, GenFacts, AtBodyFacts
<1>3. PICK i \in DOMAIN symbols : NameAt(program, next) \in DOMAIN symbols[i]
  BY <1>1, <1>2, SymbolFound
<1>4. Twice(source)
  BY <1>2, <1>3, MetAgain DEF BeingGenerated
<1> QED
  BY <1>1, <1>4, StopsHere

LEMMA GenTodoKeeps == CodegenInv /\ GenTodo => CodegenInv'
BY StopsHere DEF GenTodo

LEMMA GenExpressionKeeps == CodegenInv /\ GenExpression => CodegenInv'
<1> SUFFICES ASSUME CodegenInv, GenExpression PROVE CodegenInv'
  OBVIOUS
<1> DEFINE n == next
<1>1. /\ Generating /\ AtBody /\ Visited.kind = "expression" /\ Walk(<<>>)
      /\ output' = IF pending = 0 THEN "unwrapped" ELSE output
      /\ UNCHANGED <<symbols, pending, module>>
  BY DEF GenExpression, Emit
<1>2. /\ BeingGenerated /\ LoweredText(program) /\ symbols \in Seq(Tables)
      /\ n \in 1 .. Len(program) /\ n \in Nat /\ n >= 1 /\ Len(program) \in Nat
      /\ Depth(program, n) = Len(open) + 1 /\ Kind(program, n) = "expression"
      /\ pending \in 0 .. Len(open) /\ (pending = 0 <=> Counted(program, open) = {})
      /\ DOMAIN module \subseteq {0} \cup 1 .. Len(program)
  BY <1>1, GenFacts, AtBodyFacts
<1>3. UNCHANGED <<program, source, phase, open>> /\ next' = n + 1
  BY <1>1, WalkPast
<1>4. /\ Path(program, open, n) /\ Filed(program, open, n, symbols)
      /\ Apart(program, n) /\ Branched(program, open, n)
      /\ pending = Cardinality(Counted(program, open))
      /\ DOMAIN module = {0} \cup Complete(program, open, n)
      /\ Accepted(source) /\ LoweredFrom(source, program) /\ phase = "lowered"
      /\ output = "generating"
  BY <1>2 DEF BeingGenerated
<1> HIDE DEF n

\* Outside every function and branch.
<1>5. CASE pending = 0
  <2>1. ~InFunction(program, open)
    <3> SUFFICES ASSUME InFunction(program, open) PROVE FALSE
      OBVIOUS
    <3>1. 1 \in 1 .. Len(open) /\ Kind(program, open[1]) # "block"
      BY <1>2, <1>4, OpenFacts DEF InFunction
    <3> QED
      BY <1>2, <1>5, <3>1 DEF Counted
  <2>2. Unowned(program, n)
    BY <1>2, <1>4, <2>1, OwnerNext
  <2>3. TopCode(source)
    BY <1>2, <1>4, <2>2, CodeOutside
  <2>4. Stopped'
    BY <1>1, <1>2, <1>3, <1>4, <1>5, <2>3 DEF Stopped
  <2> QED
    BY <2>4 DEF CodegenInv
<1>6. CASE pending # 0
  <2>1. /\ Path(program, open, n + 1) /\ Filed(program, open, n + 1, symbols)
        /\ Apart(program, n + 1)
    BY <1>2, <1>4, GenPast, LinePastFiled, ApartPast
  <2>2. Branched(program, open, n + 1)
    BY <1>2, <1>4, <1>6, BranchedExpression
  <2>3. Complete(program, open, n + 1) = Complete(program, open, n)
    BY <1>2, CompletePast
  <2>4. n + 1 \in 1 .. Len(program) + 1
    BY <1>2
  <2>5. BeingGenerated'
    BY <1>1, <1>3, <1>4, <1>6, <2>1, <2>2, <2>3, <2>4 DEF BeingGenerated
  <2> QED
    BY <2>5 DEF CodegenInv
<1> QED
  BY <1>5, <1>6

\* Into the body of the line that is visited.
LEMMA IntoBody ==
  ASSUME CodegenInv, Generating, AtBody, Walk(<<next>>),
         Kind(program, next) \in {"function", "block", "branch"},
         output' = output, module' = module,
         Filed(program, Append(open, next), next + 1, symbols'),
         pending' = pending + (IF Kind(program, next) = "block" THEN 0 ELSE 1)
  PROVE  CodegenInv'
<1> DEFINE n == next
           r == Append(open, next)
<1>1. /\ BeingGenerated /\ LoweredText(program) /\ Len(program) \in Nat
      /\ n \in 1 .. Len(program) /\ n \in Nat /\ n >= 1
      /\ Depth(program, n) = Len(open) + 1 /\ open \in Seq(1 .. Len(program))
  BY GenFacts, AtBodyFacts
<1>2. UNCHANGED <<program, source, phase>> /\ next' = n + 1 /\ open' = r
  BY WalkInto
<1>3. /\ Path(program, open, n)
      /\ Apart(program, n) /\ Branched(program, open, n)
      /\ pending = Cardinality(Counted(program, open))
      /\ DOMAIN module = {0} \cup Complete(program, open, n)
      /\ Accepted(source) /\ LoweredFrom(source, program) /\ phase = "lowered"
      /\ output = "generating"
  BY <1>1 DEF BeingGenerated
<1>4. Path(program, r, n + 1)
  <2>1. HasBody(program[n].node)
    BY DEF HasBody, Functions, Kind
  <2> QED
    BY <1>1, <1>3, <2>1, GenInto
<1>5. Apart(program, n + 1)
  BY <1>1, <1>3, ApartPast
<1>6. Branched(program, r, n + 1)
  <2>1. Kind(program, n) # "expression"
    OBVIOUS
  <2> QED
    BY <1>1, <1>3, <2>1, BranchedInto
<1>7. Complete(program, r, n + 1) = Complete(program, open, n)
  BY <1>1, CompleteInto
<1>8. pending' = Cardinality(Counted(program, r))
  <2>1. Cardinality(Counted(program, r))
          = Cardinality(Counted(program, open)) + (IF Kind(program, n) = "block" THEN 0 ELSE 1)
    BY <1>1, CountedInto
  <2> QED
    BY <1>3, <2>1
<1>9. Filed(program, r, n + 1, symbols')
  OBVIOUS
<1>10. n + 1 \in 1 .. Len(program) + 1
  BY <1>1
<1> HIDE DEF n, r
<1>11. BeingGenerated'
  BY <1>2, <1>3, <1>4, <1>5, <1>6, <1>7, <1>8, <1>9, <1>10 DEF BeingGenerated
<1> QED
  BY <1>11 DEF CodegenInv

LEMMA GenFunctionKeeps == CodegenInv /\ GenFunction => CodegenInv'
<1> SUFFICES ASSUME CodegenInv, GenFunction PROVE CodegenInv'
  OBVIOUS
<1>1. /\ Generating /\ AtBody /\ Visited.kind = "function" /\ Walk(<<next>>)
      /\ symbols' = Append(symbols, [x \in Range(Visited.params) |-> "Param"])
      /\ pending' = pending + 1 /\ UNCHANGED <<output, module>>
  BY DEF GenFunction
<1>2. /\ BeingGenerated /\ LoweredText(program)
      /\ next \in 1 .. Len(program) /\ Depth(program, next) = Len(open) + 1
      /\ Kind(program, next) = "function" /\ Visited.params = Params(program, next)
  BY <1>1, GenFacts, AtBodyFacts
<1>3. Filed(program, Append(open, next), next + 1, symbols')
  BY <1>1, <1>2, FunctionFiled DEF BeingGenerated
<1> QED
  BY <1>1, <1>2, <1>3, IntoBody

LEMMA GenBodyKeeps == CodegenInv /\ (GenBlock \/ GenBranch) => CodegenInv'
<1> SUFFICES ASSUME CodegenInv, GenBlock \/ GenBranch PROVE CodegenInv'
  OBVIOUS
<1>1. /\ Generating /\ AtBody /\ Visited.kind \in {"block", "branch"} /\ Walk(<<next>>)
      /\ UNCHANGED <<output, symbols, module>>
      /\ Visited.kind = "block" => pending' = pending
      /\ Visited.kind = "branch" => pending' = pending + 1
  BY DEF GenBlock, GenBranch, genVars
<1>2. /\ BeingGenerated /\ LoweredText(program)
      /\ next \in 1 .. Len(program) /\ Depth(program, next) = Len(open) + 1
      /\ Visited.kind = Kind(program, next) /\ Len(open) \in Nat /\ pending \in 0 .. Len(open)
  BY <1>1, GenFacts, AtBodyFacts
<1>3. Kind(program, next) \in {"block", "branch"}
  BY <1>1, <1>2
<1>4. Filed(program, Append(open, next), next + 1, symbols)
  BY <1>2, <1>3, BodyFiled DEF BeingGenerated
<1>5. pending' = pending + (IF Kind(program, next) = "block" THEN 0 ELSE 1)
  BY <1>1, <1>2, <1>3
<1> QED
  BY <1>1, <1>3, <1>4, <1>5, IntoBody

LEMMA GenLeaveKeeps == CodegenInv /\ GenLeave => CodegenInv'
<1> SUFFICES ASSUME CodegenInv, GenLeave PROVE CodegenInv'
  OBVIOUS
<1> DEFINE b == open[Len(open)]
           kind == Kind(program, b)
           n == next
           r == Front(open)
<1>1. /\ Generating /\ open # <<>> /\ Last(open) = b
      /\ program[Last(open)].node.kind = kind
  BY DEF GenLeave, AtEnd, Last, Kind
<1>2. /\ open' = r /\ UNCHANGED <<program, source, phase, next>>
      /\ pending' = IF kind = "block" THEN pending ELSE pending - 1
      /\ kind = "function" =>
           /\ module' = With(b, DOMAIN Last(symbols), module)
           /\ symbols' = Front(symbols)
      /\ kind # "function" => UNCHANGED <<symbols, module>>
      /\ output' = IF kind = "branch" /\ pending' = 0 THEN "unwrapped" ELSE output
  BY <1>1 DEF GenLeave, FunctionScopeLeft
<1>3. /\ BeingGenerated /\ LoweredText(program) /\ symbols \in Seq(Tables)
      /\ Len(program) \in Nat /\ n \in Nat /\ n >= 1
      /\ open \in Seq(1 .. Len(program)) /\ Len(open) \in Nat
      /\ pending \in 0 .. Len(open)
      /\ DOMAIN module \subseteq {0} \cup 1 .. Len(program)
  BY <1>1, GenFacts
<1>4. /\ n \in 1 .. Len(program) + 1
      /\ Path(program, open, n) /\ Filed(program, open, n, symbols)
      /\ Apart(program, n) /\ Branched(program, open, n)
      /\ pending = Cardinality(Counted(program, open))
      /\ DOMAIN module = {0} \cup Complete(program, open, n)
      /\ Accepted(source) /\ LoweredFrom(source, program) /\ phase = "lowered"
      /\ output = "generating"
  BY <1>3 DEF BeingGenerated
<1>5. /\ Len(open) >= 1 /\ Len(open) \in 1 .. Len(open) /\ b \in 1 .. Len(program)
      /\ kind \in {"function", "block", "branch"}
  BY <1>1, <1>3, <1>4, OpenFacts
<1>6. Path(program, r, n)
  BY <1>1, <1>3, <1>4, GenOut
<1>7. /\ pending' = Cardinality(Counted(program, r))
      /\ Counted(program, r) = Counted(program, open) \ {Len(open)}
  BY <1>1, <1>2, <1>3, <1>4, CountedOut
<1>8. /\ Len(r) \in Nat /\ pending' \in 0 .. Len(r)
      /\ pending' = 0 <=> Counted(program, r) = {}
  <2>1. Len(r) \in Nat
    BY <1>6, OpenFacts, <1>3
  <2> QED
    BY <1>7, <2>1, CountedFacts
<1>9. Filed(program, r, n, symbols')
  <2>1. CASE kind = "function"
    BY <1>1, <1>2, <1>3, <1>4, <2>1, FunctionLeft
  <2>2. CASE kind # "function"
    BY <1>1, <1>2, <1>3, <1>4, <2>2, BodyLeft
  <2> QED
    BY <2>1, <2>2
<1>10. DOMAIN module' = {0} \cup Complete(program, r, n)
  <2>1. Complete(program, r, n) = IF kind = "function" THEN Complete(program, open, n) \cup {b}
                                  ELSE Complete(program, open, n)
    BY <1>1, <1>3, <1>4, CompleteOut
  <2>2. kind = "function" => DOMAIN module' = DOMAIN module \cup {b}
    BY <1>2 DEF With
  <2> QED
    BY <1>2, <1>4, <2>1, <2>2
<1> HIDE DEF r, n, b, kind

\* The instruction of a branch outside every function and other branch.
<1>11. CASE kind = "branch" /\ pending' = 0
  <2>1. Unowned(program, b)
    <3> SUFFICES ASSUME NEW f, Owned(program, f, b) PROVE FALSE
      BY DEF Unowned
    <3>1. Len(open) # 1 /\ 1 \in 1 .. Len(open) /\ Kind(program, open[1]) = "function"
      BY <1>3, <1>4, <1>5, OwnerOfBody DEF b
    <3>2. 1 \in Counted(program, r)
      BY <1>7, <3>1 DEF Counted
    <3> QED
      BY <1>8, <1>11, <3>2
  <2>2. TopCode(source)
    BY <1>4, <1>5, <1>11, <2>1, CodeOutside DEF kind
  <2>3. /\ output' = "unwrapped" /\ symbols' = symbols /\ module' = module
    BY <1>2, <1>11
  <2>4. Stopped'
    BY <1>2, <1>3, <1>4, <1>8, <2>2, <2>3 DEF Stopped
  <2> QED
    BY <2>4 DEF CodegenInv
<1>12. CASE ~(kind = "branch" /\ pending' = 0)
  <2>1. Branched(program, r, n)
    BY <1>1, <1>3, <1>4, <1>8, <1>12, BranchedOut DEF r, kind, b
  <2>2. output' = "generating"
    BY <1>2, <1>4, <1>12
  <2>3. next' = n
    BY <1>2 DEF n
  <2>4. BeingGenerated'
    BY <1>2, <1>4, <1>6, <1>7, <1>9, <1>10, <2>1, <2>2, <2>3 DEF BeingGenerated
  <2> QED
    BY <2>4 DEF CodegenInv
<1> QED
  BY <1>11, <1>12

LEMMA GenDoneKeeps == CodegenInv /\ GenDone => CodegenInv'
<1> SUFFICES ASSUME CodegenInv, GenDone PROVE CodegenInv'
  OBVIOUS
<1>1. /\ Generating /\ ~Visiting /\ ~AtEnd /\ output' = "module" /\ symbols' = Front(symbols)
      /\ UNCHANGED <<semVars, source, pending, module>>
  BY DEF GenDone
<1>2. UNCHANGED <<program, phase, next, open>>
  BY <1>1 DEF semVars
<1>3. /\ BeingGenerated /\ LoweredText(program) /\ symbols \in Seq(Tables)
      /\ Len(program) \in Nat /\ next \in Nat /\ next \in 1 .. Len(program) + 1
  BY <1>1, GenFacts DEF BeingGenerated
<1>4. next = Len(program) + 1 /\ open = <<>>
  BY <1>1, <1>3 DEF Visiting, AtEnd
<1>5. /\ Filed(program, <<>>, next, symbols)
      /\ Apart(program, Len(program) + 1) /\ Branched(program, <<>>, Len(program) + 1)
      /\ pending = Cardinality(Counted(program, <<>>))
      /\ DOMAIN module = {0} \cup Complete(program, <<>>, Len(program) + 1)
      /\ Accepted(source) /\ LoweredFrom(source, program) /\ phase = "lowered"
  BY <1>3, <1>4 DEF BeingGenerated
<1>6. pending = 0
  <2>1. Counted(program, <<>>) = {}
    BY DEF Counted
  <2> QED
    BY <1>5, <2>1, FS_EmptySet
<1>7. symbols' = <<>>
  <2>1. ~InFunction(program, <<>>)
    BY DEF InFunction
  <2>2. Len(symbols) = 1
    BY <1>5, <2>1 DEF Filed
  <2>3. symbols # <<>>
    BY <2>2
  <2> QED
    BY <1>1, <1>3, <2>2, <2>3, FrontIs
<1>8. DOMAIN module = {0} \cup {f \in 1 .. Len(program) : Kind(program, f) = "function"}
  <2>1. \A f : f \in 1 .. (Len(program) + 1) - 1 <=> f \in 1 .. Len(program)
    BY <1>3
  <2>2. ~\E k \in 1 .. Len(<<>>) : TRUE
    OBVIOUS
  <2>3. Complete(program, <<>>, Len(program) + 1)
          = {f \in 1 .. Len(program) : Kind(program, f) = "function"}
    BY <2>1, <2>2 DEF Complete
  <2> QED
    BY <1>5, <2>3
<1>9. ~Twice(source) /\ ~TopCode(source)
  BY <1>5, ApartMeans, NoCodeOutside
<1>10. symbols' \in Seq(Tables) /\ 0 \in 0 .. Len(open')
  BY <1>2, <1>4, <1>7
<1>11. Stopped'
  BY <1>1, <1>2, <1>5, <1>6, <1>7, <1>8, <1>9, <1>10 DEF Stopped
<1> QED
  BY <1>11 DEF CodegenInv

LEMMA CodegenKept == CodegenInv /\ [Next]_vars => CodegenInv'
BY SameStage, AnalyseKeeps, LowerKeeps, GenerateKeeps, GenVariableKeeps, GenTwiceKeeps,
   GenTodoKeeps, GenExpressionKeeps, GenFunctionKeeps, GenBodyKeeps, GenLeaveKeeps,
   GenDoneKeeps
   DEF Next

LEMMA CodegenHolds == Spec => []CodegenInv
BY CodegenInit, CodegenKept, PTL DEF Spec
-----------------------------------------------------------------------------
(* What is emitted, and what the module declares.                           *)

\* The function around a line of a lowered program is the one that owns it.
LEMMA FunctionAround ==
  ASSUME NEW q, LoweredText(q), NEW k \in 1 .. Len(q)
  PROVE  /\ \A f : Owned(q, f, k) => FunctionOf(q, k) = f
         /\ Unowned(q, k) => FunctionOf(q, k) = 0
         /\ FunctionOf(q, k) # 0 => Owned(q, FunctionOf(q, k), k)
<1> DEFINE S == {f \in 1 .. k - 1 : q[f].node.kind \in Functions /\ Within(q, k, f)}
           T == {0} \cup S
<1>1. k \in Nat /\ Len(q) \in Nat /\ FunctionOf(q, k) = Max(T)
  BY DEF FunctionOf, LoweredText
<1>2. ASSUME NEW f \in 1 .. k - 1 PROVE f \in S <=> Owned(q, f, k)
  <2>1. f \in 1 .. Len(q) /\ f # 0 /\ f < k
    BY <1>1
  <2>2. Kind(q, f) \in Statements \cup {"function"} /\ (Kind(q, f) = "function" => Depth(q, f) = 1)
    BY <2>1 DEF LoweredText
  <2>3. q[f].node.kind \in Functions <=> Kind(q, f) = "function"
    BY <2>2 DEF Kind, Functions, Statements
  <2>4. ASSUME Kind(q, f) = "function"
        PROVE  Within(q, k, f) <=> \A j \in f + 1 .. k : Depth(q, j) > 1
    BY <2>1, <2>2, <2>4 DEF Within, HasBody, Functions, Kind, Depth
  <2> QED
    BY <2>3, <2>4 DEF Owned
<1>3. \A f : Owned(q, f, k) => f \in 1 .. k - 1
  BY DEF Owned
<1>4. T \subseteq Nat /\ T # {} /\ \A f \in T : f <= k
  BY <1>1
<1> HIDE DEF S
<1>5. Max(T) \in T /\ \A f \in T : f <= Max(T)
  BY <1>1, <1>4, MaxFacts
<1>6. S \subseteq 1 .. k - 1
  BY DEF S
<1>7. ASSUME NEW f, Owned(q, f, k) PROVE Max(T) = f
  <2>1. f \in S /\ f >= 1 /\ f \in Nat
    BY <1>1, <1>2, <1>3, <1>7
  <2>2. Max(T) # 0
    <3>1. f \in T /\ f <= Max(T) /\ Max(T) \in Nat
      BY <1>4, <1>5, <2>1
    <3> HIDE DEF T
    <3> QED
      BY <2>1, <3>1
  <2>3. Max(T) \in S /\ Max(T) \in 1 .. k - 1
    BY <1>5, <1>6, <2>2
  <2>4. Owned(q, Max(T), k)
    BY <1>2, <2>3
  <2> QED
    BY <1>7, <2>4, OneOwner
<1>8. Max(T) # 0 => Owned(q, Max(T), k)
  BY <1>2, <1>5, <1>6
<1>9. Unowned(q, k) => Max(T) = 0
  BY <1>3, <1>8 DEF Unowned
<1> QED
  BY <1>1, <1>7, <1>8, <1>9

\* Line k gets, sets or calls what r says.
EmittedAt(q, k, r) ==
  LET e == q[k].node.expr
  IN  /\ Kind(q, k) \in {"variable", "expression", "branch"} /\ Generates(e)
      /\ r.at = k /\ r.in = FunctionOf(q, k)
      /\ \/ r.kind = "Call" /\ r.name \in Called(e)
         \/ /\ r.kind = IF r.name \in GlobalNames(q, k + 1) THEN "Global" ELSE "Local"
            /\ r.name \in Accessed(e)

\* What is emitted comes from the lines before, and what the module declares is
\* what they do.
EmitInv ==
  /\ output = "none" => emitted = {}
  /\ output \in {"generating", "module"} =>
       /\ \A r \in emitted : \E k \in 1 .. next - 1 : EmittedAt(program, k, r)
       /\ module[0] = GlobalNames(program, next)
       /\ \A f \in DOMAIN module \ {0} : module[f] = LocalNames(program, f, next)
  /\ output = "module" => next = Len(program) + 1

LEMMA ReferencesFrom ==
  ASSUME NEW ss, DOMAIN ss[1] = GlobalNames(program, next + 1),
         Kind(program, next) \in {"variable", "expression", "branch"},
         Generates(program[next].node.expr),
         NEW r \in References(program[next].node.expr, ss)
  PROVE  EmittedAt(program, next, r)
<1> DEFINE e == program[next].node.expr
           refer(x, kind) ==
             [at |-> next, in |-> FunctionOf(program, next), name |-> x, kind |-> kind]
<1>1. \/ \E x \in Accessed(e) : r = refer(x, IF IsGlobal(x, ss) THEN "Global" ELSE "Local")
      \/ \E x \in Called(e) : r = refer(x, "Call")
  BY DEF References
<1>2. \A x : IsGlobal(x, ss) <=> x \in GlobalNames(program, next + 1)
  BY DEF IsGlobal
<1> QED
  BY <1>1, <1>2 DEF EmittedAt

\* A variable that a function does not own is none of its names.
LEMMA LocalsElsewhere ==
  ASSUME NEW q, NEW n \in Nat, n >= 1, NEW f, ~Owned(q, f, n)
  PROVE  LocalNames(q, f, n + 1) = LocalNames(q, f, n)
<1>1. \A l : l \in 1 .. (n + 1) - 1 <=> l \in 1 .. n - 1 \/ l = n
  OBVIOUS
<1>2. {l \in 1 .. (n + 1) - 1 : Kind(q, l) = "variable" /\ Owned(q, f, l)}
        = {l \in 1 .. n - 1 : Kind(q, l) = "variable" /\ Owned(q, f, l)}
  BY <1>1
<1> QED
  BY <1>2 DEF LocalNames

\* A complete function declares nothing more.
LEMMA CompleteNames ==
  ASSUME NEW q, LoweredText(q), NEW n \in 1 .. Len(q), NEW op, Path(q, op, n),
         Depth(q, n) = Len(op) + 1, NEW f \in Complete(q, op, n)
  PROVE  LocalNames(q, f, n + 1) = LocalNames(q, f, n)
<1>1. n \in Nat /\ n >= 1
  BY DEF LoweredText
<1>2. InFunction(q, op) => 1 \in 1 .. Len(op)
  BY <1>1, OpenFacts DEF InFunction
<1>3. ~Owned(q, f, n)
  BY <1>2, OwnerNext DEF Complete
<1> QED
  BY <1>1, <1>3, LocalsElsewhere

\* A step past or into a line.
LEMMA EmittedMore ==
  ASSUME EmitInv, CodegenInv, Generating, AtBody, program' = program, next' = next + 1,
         Kind(program, next) \in {"variable", "expression", "branch", "function", "block"},
         output' \in {"generating", "unwrapped"}, DOMAIN module' = DOMAIN module,
         \A f \in DOMAIN module \ {0} : module'[f] = module[f],
         module'[0] = GlobalNames(program, next + 1),
         \A r \in emitted' \ emitted : EmittedAt(program, next, r)
  PROVE  EmitInv'
<1> DEFINE n == next
<1>1. /\ BeingGenerated /\ LoweredText(program) /\ n \in 1 .. Len(program) /\ n \in Nat /\ n >= 1
      /\ Depth(program, n) = Len(open) + 1
  BY GenFacts, AtBodyFacts
<1>2. Path(program, open, n) /\ DOMAIN module = {0} \cup Complete(program, open, n)
  BY <1>1 DEF BeingGenerated
<1>3. /\ \A r \in emitted : \E k \in 1 .. n - 1 : EmittedAt(program, k, r)
      /\ \A f \in DOMAIN module \ {0} : module[f] = LocalNames(program, f, n)
  BY DEF EmitInv, Generating
<1> HIDE DEF n
<1>4. \A k : k \in 1 .. (n + 1) - 1 <=> k \in 1 .. n - 1 \/ k = n
  BY <1>1
<1>5. ASSUME NEW r \in emitted' PROVE \E k \in 1 .. (n + 1) - 1 : EmittedAt(program, k, r)
  BY <1>3, <1>4 DEF n
<1>6. ASSUME NEW f \in DOMAIN module' \ {0} PROVE module'[f] = LocalNames(program, f, n + 1)
  <2>1. f \in Complete(program, open, n) /\ module'[f] = LocalNames(program, f, n)
    BY <1>2, <1>3
  <2> QED
    BY <1>1, <1>2, <2>1, CompleteNames
<1>7. next' = n + 1 /\ module'[0] = GlobalNames(program, n + 1)
  BY DEF n
<1>8. output' # "none" /\ output' # "module"
  OBVIOUS
<1> QED
  BY <1>5, <1>6, <1>7, <1>8 DEF EmitInv

LEMMA EmitVariable == EmitInv /\ CodegenInv /\ CodegenInv' /\ GenVariable => EmitInv'
<1> SUFFICES ASSUME EmitInv, CodegenInv, CodegenInv', GenVariable PROVE EmitInv'
  OBVIOUS
<1> DEFINE n == next
           x == NameAt(program, n)
           e == program[n].node.expr
<1>1. /\ Generating /\ AtBody /\ Visited.kind = "variable" /\ Walk(<<>>)
      /\ Generates(Visited.expr) /\ UNCHANGED <<output, pending>>
      /\ emitted' = emitted \cup References(Visited.expr, symbols')
  BY DEF GenVariable
<1>2. module' = IF Len(symbols) = 1 THEN [module EXCEPT ![0] = @ \cup {Visited.name}] ELSE module
  BY DEF GenVariable
<1>3. /\ BeingGenerated /\ LoweredText(program)
      /\ n \in 1 .. Len(program) /\ n \in Nat /\ n >= 1
      /\ Depth(program, n) = Len(open) + 1
      /\ Kind(program, n) = "variable" /\ Visited.name = x /\ Visited.expr = e
  BY <1>1, GenFacts, AtBodyFacts DEF Visited
<1>4. UNCHANGED <<program, open>> /\ next' = n + 1 /\ output' = "generating"
  BY <1>1, WalkPast DEF Generating
<1>5. /\ Path(program, open, n) /\ Filed(program, open, n, symbols)
      /\ DOMAIN module = {0} \cup Complete(program, open, n)
  BY <1>3 DEF BeingGenerated
<1>6. DOMAIN symbols'[1] = GlobalNames(program, n + 1)
  <2>1. BeingGenerated'
    BY <1>4 DEF CodegenInv, Analysing, BeingLowered, Fresh, Stopped
  <2> QED
    BY <1>4, <2>1 DEF BeingGenerated, Filed
<1>7. module[0] = GlobalNames(program, n)
  BY <1>1 DEF EmitInv, Generating
<1>8. \A r \in emitted' \ emitted : EmittedAt(program, n, r)
  BY <1>1, <1>3, <1>6, ReferencesFrom
<1> HIDE DEF n, x, e
<1>9. /\ DOMAIN module' = DOMAIN module
      /\ \A f \in DOMAIN module \ {0} : module'[f] = module[f]
      /\ module'[0] = GlobalNames(program, n + 1)
  <2>1. CASE InFunction(program, open)
    <3>1. Owned(program, open[1], n) /\ Len(symbols) = 2
      BY <1>3, <1>5, <2>1, OwnerNext DEF Filed
    <3>2. GlobalNames(program, n + 1) = GlobalNames(program, n)
      BY <1>3, <3>1, LocalAdded
    <3> QED
      BY <1>2, <1>7, <3>1, <3>2
  <2>2. CASE ~InFunction(program, open)
    <3>1. Unowned(program, n) /\ Len(symbols) = 1
      BY <1>3, <1>5, <2>2, OwnerNext DEF Filed
    <3>2. GlobalNames(program, n + 1) = GlobalNames(program, n) \cup {x}
      BY <1>3, <3>1, GlobalAdded DEF x
    <3> QED
      BY <1>2, <1>3, <1>5, <1>7, <3>1, <3>2
  <2> QED
    BY <2>1, <2>2
<1> QED
  BY <1>1, <1>3, <1>4, <1>8, <1>9, EmittedMore DEF n

LEMMA EmitCode ==
  EmitInv /\ CodegenInv /\ (GenExpression \/ GenFunction \/ GenBlock \/ GenBranch) => EmitInv'
<1> SUFFICES ASSUME EmitInv, CodegenInv, GenExpression \/ GenFunction \/ GenBlock \/ GenBranch
             PROVE  EmitInv'
  OBVIOUS
<1>1. /\ Generating /\ AtBody /\ Visited.kind \in {"expression", "function", "block", "branch"}
      /\ Walk(<<>>) \/ Walk(<<next>>)
      /\ UNCHANGED module /\ output' \in {output, "unwrapped"}
      /\ \/ UNCHANGED emitted
         \/ /\ Visited.kind \in {"expression", "branch"} /\ Generates(Visited.expr)
            /\ emitted' = emitted \cup References(Visited.expr, symbols)
  BY DEF GenExpression, GenFunction, GenBlock, GenBranch, Emit, genVars
<1>2. /\ BeingGenerated /\ next \in Nat /\ next >= 1
      /\ Visited.kind = Kind(program, next) /\ Visited.expr = program[next].node.expr
  BY <1>1, GenFacts, AtBodyFacts DEF Visited
<1>3. program' = program /\ next' = next + 1
  BY <1>1 DEF Walk
<1>4. GlobalNames(program, next + 1) = GlobalNames(program, next)
  BY <1>1, <1>2, NamesPast
<1>5. DOMAIN symbols[1] = GlobalNames(program, next)
  BY <1>2 DEF BeingGenerated, Filed
<1>6. module[0] = GlobalNames(program, next)
  BY <1>1 DEF EmitInv, Generating
<1>7. \A r \in emitted' \ emitted : EmittedAt(program, next, r)
  BY <1>1, <1>2, <1>4, <1>5, ReferencesFrom
<1>8. output' \in {"generating", "unwrapped"}
  BY <1>1 DEF Generating
<1> QED
  BY <1>1, <1>2, <1>3, <1>4, <1>6, <1>7, <1>8, EmittedMore

LEMMA EmitLeave == EmitInv /\ CodegenInv /\ GenLeave => EmitInv'
<1> SUFFICES ASSUME EmitInv, CodegenInv, GenLeave PROVE EmitInv'
  OBVIOUS
<1> DEFINE b == open[Len(open)]
           kind == Kind(program, b)
<1>1. /\ Generating /\ open # <<>> /\ Last(open) = b
      /\ program[Last(open)].node.kind = kind
  BY DEF GenLeave, AtEnd, Last, Kind
<1>2. /\ UNCHANGED <<program, next, emitted>>
      /\ kind = "function" => module' = With(b, DOMAIN Last(symbols), module)
      /\ kind # "function" => UNCHANGED module
      /\ output' \in {output, "unwrapped"}
  BY <1>1 DEF GenLeave
<1>3. /\ BeingGenerated /\ LoweredText(program) /\ Len(program) \in Nat /\ next \in Nat
      /\ open \in Seq(1 .. Len(program)) /\ Len(open) \in Nat
  BY <1>1, GenFacts
<1>4. /\ Path(program, open, next) /\ Filed(program, open, next, symbols)
  BY <1>3 DEF BeingGenerated
<1>5. Len(open) >= 1 /\ Len(open) \in 1 .. Len(open) /\ b \in 1 .. Len(program)
  BY <1>1, <1>3, <1>4, OpenFacts
<1>6. /\ \A r \in emitted : \E k \in 1 .. next - 1 : EmittedAt(program, k, r)
      /\ module[0] = GlobalNames(program, next)
      /\ \A f \in DOMAIN module \ {0} : module[f] = LocalNames(program, f, next)
  BY <1>1 DEF EmitInv, Generating
<1>7. output' \in {"generating", "unwrapped"}
  BY <1>1, <1>2 DEF Generating
<1>8. kind = "function" => DOMAIN Last(symbols) = LocalNames(program, b, next)
  <2> SUFFICES ASSUME kind = "function" PROVE DOMAIN Last(symbols) = LocalNames(program, b, next)
    OBVIOUS
  <2>1. InFunction(program, open) /\ Len(open) = 1
    BY <1>1, <1>3, <1>4, InFunctionOut
  <2>2. Len(symbols) = 2 /\ DOMAIN symbols[2] = LocalNames(program, open[1], next)
    BY <1>4, <2>1 DEF Filed
  <2> QED
    BY <2>1, <2>2 DEF Last
<1> HIDE DEF b, kind
<1>9. /\ module'[0] = module[0]
      /\ \A f \in DOMAIN module' \ {0} : module'[f] = LocalNames(program, f, next)
  <2>1. CASE kind = "function"
    <3>1. 0 \in DOMAIN module
      BY <1>3 DEF BeingGenerated
    <3>2. b # 0
      BY <1>3, <1>5
    <3> QED
      BY <1>2, <1>6, <1>8, <2>1, <3>1, <3>2 DEF With
  <2>2. CASE kind # "function"
    BY <1>2, <1>6, <2>2
  <2> QED
    BY <2>1, <2>2
<1> QED
  BY <1>2, <1>6, <1>7, <1>9 DEF EmitInv

LEMMA EmitKept == EmitInv /\ CodegenInv /\ CodegenInv' /\ [Next]_vars => EmitInv'
<1> SUFFICES ASSUME EmitInv, CodegenInv, CodegenInv', [Next]_vars PROVE EmitInv'
  OBVIOUS
<1>1. CASE UNCHANGED vars
  BY <1>1 DEF EmitInv, vars, genVars, semVars
<1>2. CASE Analyse \/ LowerTree
  <2>1. UNCHANGED <<output, emitted>>
    BY <1>2 DEF Analyse, LowerTree, genVars
  <2>2. phase # "lowered"
    BY <1>2, AnalysisPhases DEF Analyse, LowerTree, Lower, HirLower, Serialize, MirLower
  <2>3. output = "none"
    BY <2>2 DEF CodegenInv, Analysing, BeingLowered, BeingGenerated, Stopped, Fresh
  <2> QED
    BY <2>1, <2>3 DEF EmitInv
<1>3. CASE GenerateModule
  <2>1. /\ phase = "lowered" /\ output = "none" /\ output' = "generating"
        /\ UNCHANGED <<semVars, module, emitted>>
    BY <1>3 DEF GenerateModule
  <2>2. BeingLowered
    BY <2>1 DEF CodegenInv, Analysing, SemInv, Typed, BeingGenerated, Stopped
  <2>3. next' = 1 /\ program' = program /\ module' = [f \in {0} |-> {}] /\ emitted' = {}
    BY <2>1, <2>2 DEF BeingLowered, Fresh, semVars, EmitInv
  <2>4. GlobalNames(program, 1) = {}
    BY DEF GlobalNames
  <2> QED
    BY <2>1, <2>3, <2>4 DEF EmitInv
<1>4. CASE GenVariable
  BY <1>4, EmitVariable
<1>5. CASE GenVariableTwice \/ GenTodo
  <2>1. output' \in {"unreachable", "todo"}
    BY <1>5 DEF GenVariableTwice, GenTodo
  <2> QED
    BY <2>1 DEF EmitInv
<1>6. CASE GenExpression \/ GenFunction \/ GenBlock \/ GenBranch
  BY <1>6, EmitCode
<1>7. CASE GenLeave
  BY <1>7, EmitLeave
<1>8. CASE GenDone
  <2>1. /\ Generating /\ ~Visiting /\ output' = "module"
        /\ UNCHANGED <<program, next, module, emitted>>
    BY <1>8 DEF GenDone, semVars
  <2>2. BeingGenerated /\ Len(program) \in Nat /\ next \in 1 .. Len(program) + 1
    BY <2>1, GenFacts DEF BeingGenerated
  <2>3. next = Len(program) + 1
    BY <2>1, <2>2 DEF Visiting
  <2> QED
    BY <2>1, <2>3 DEF EmitInv, Generating
<1> QED
  BY <1>1, <1>2, <1>3, <1>4, <1>5, <1>6, <1>7, <1>8 DEF Next

LEMMA EmitHolds == Spec => [](CodegenInv /\ EmitInv)
<1>1. Init => EmitInv
  BY DEF Init, EmitInv
<1>2. (CodegenInv /\ EmitInv) /\ [Next]_vars => (CodegenInv /\ EmitInv)'
  BY CodegenKept, EmitKept
<1> QED
  BY <1>1, <1>2, CodegenInit, PTL DEF Spec

-----------------------------------------------------------------------------
(* What the names of the module stand for in the text.                      *)

\* The program is lowered from the text, its lines from those o says.
LoweredBy(o, m) ==
  /\ Accepted(source) /\ Sequence(program)
  /\ Traced(source, program, o, m, Len(source))
  /\ \E B : AllBound(source, Len(source) + 1, B) /\ Translated(source, B, program, o, m)

LEMMA LoweredFacts ==
  ASSUME NEW o, NEW m, LoweredBy(o, m)
  PROVE  /\ Tree(source) /\ Stray(source) = {}
         /\ Len(source) \in Nat /\ DOMAIN source = 1 .. Len(source)
         /\ LoweredText(program) /\ Len(program) \in Nat /\ DOMAIN program = 1 .. Len(program)
         /\ m \subseteq 1 .. Len(program) /\ \A k \in m : o[k] \in 1 .. Len(source)
<1>1. Tree(source) /\ Stray(source) = {}
  BY DEF LoweredBy, Accepted
<1>2. Sequence(program) /\ Traced(source, program, o, m, Len(source))
  BY DEF LoweredBy
<1>3. LoweredText(program)
  BY <1>1, <1>2, TracedText
<1>4. Len(program) \in Nat /\ DOMAIN program = 1 .. Len(program)
  BY <1>2, LenProperties DEF Sequence
<1> QED
  BY <1>1, <1>2, <1>3, <1>4, TreeLines, Origins

AllGlobals == GlobalNames(program, Len(program) + 1)
AllLocals(f) == LocalNames(program, f, Len(program) + 1)

\* A variable of the program, and what is declared in a function.
GlobalIn(d) == d \in Declarations(source) /\ IsVariable(source, d) /\ d.body = 0
LocalIn(d) ==
  /\ d \in Declarations(source) /\ d.body # 0
  /\ IsParam(source, d) \/ IsVariable(source, d)

\* Neither is declared by a function or a class, and a variable of the program
\* has no other name in common.
LEMMA Apartness ==
  ASSUME NEW o, NEW m, LoweredBy(o, m), NEW d, NEW e \in Declarations(source), d # e,
         GlobalIn(d) \/ (d \in Declarations(source) /\ IsName(source, d) /\ Kind(source, d.at) = "function"),
         Kind(source, e.at) # "class"
  PROVE  d.name # e.name
<1>1. Tree(source) /\ Accepted(source)
  BY LoweredFacts DEF LoweredBy
<1>2. d \in Declarations(source) /\ d.body = 0 /\ Kind(source, d.at) # "class"
  BY <1>1, DeclarationFields DEF GlobalIn, IsVariable
<1> QED
  BY <1>1, <1>2, NoShadow DEF Shadows, InScope

LEMMA GlobalNameIs ==
  ASSUME NEW o, NEW m, LoweredBy(o, m), NEW x \in AllGlobals
  PROVE  x \in Names /\ x # "this" /\ \E d : GlobalIn(d) /\ d.name = x
<1>1. /\ Tree(source) /\ Stray(source) = {} /\ Len(program) \in Nat
      /\ Sequence(program) /\ Traced(source, program, o, m, Len(source))
  BY LoweredFacts DEF LoweredBy
<1>2. PICK l \in 1 .. (Len(program) + 1) - 1 :
        Kind(program, l) = "variable" /\ Unowned(program, l) /\ NameAt(program, l) = x
  BY DEF AllGlobals, GlobalNames
<1>3. l \in 1 .. Len(program) /\ Kind(program, l) # "function"
  BY <1>1, <1>2
<1>4. l \in m /\ FunctionOf(source, o[l]) = 0
  BY <1>1, <1>2, <1>3, OwnerIs
<1>5. /\ o[l] \in 1 .. Len(source) /\ Kind(source, o[l]) = "variable"
      /\ NameAt(source, o[l]) = x /\ x \in Names /\ x # "this"
  BY <1>1, <1>2, <1>3, <1>4, VariablesAre
<1> DEFINE d == Declaration(NameAt(source, o[l]), o[l], 0, Innermost(source, o[l]))
<1>6. /\ d \in Declarations(source) /\ d.name = x /\ d.body = 0 /\ IsVariable(source, d)
  <2>1. d \in Declarations(source) /\ d.name = x /\ d.body = 0 /\ d.at = o[l]
    BY <1>1, <1>4, <1>5, VariableDeclared
  <2> QED
    BY <1>5, <2>1 DEF IsVariable
<1> QED
  BY <1>5, <1>6 DEF GlobalIn

LEMMA LocalNameIs ==
  ASSUME NEW o, NEW m, LoweredBy(o, m),
         NEW f \in 1 .. Len(program), Kind(program, f) = "function", NEW x \in AllLocals(f)
  PROVE  \/ x = "this" /\ Kind(source, o[f]) \in {"constructor", "method"}
         \/ x \in Names /\ \E d : LocalIn(d) /\ d.name = x
<1> DEFINE g == o[f]
<1>1. /\ Tree(source) /\ Stray(source) = {} /\ Len(program) \in Nat /\ LoweredText(program)
      /\ Sequence(program) /\ Traced(source, program, o, m, Len(source))
  BY LoweredFacts DEF LoweredBy
<1>2. /\ f \in m /\ g \in 1 .. Len(source) /\ Kind(source, g) \in Functions
      /\ Params(program, f) = FunctionParams(source, g)
  BY <1>1, Origins DEF FunctionImage
<1> HIDE DEF g
<1>3. CASE x \in Range(Params(program, f))
  <2>1. x = "this" => Kind(source, g) = "method" \/ x \in Range(Params(source, g))
    BY <1>1, <1>2, <1>3, ParamsOfFunction
  <2>2. x # "this" => x \in Range(Params(source, g))
    BY <1>1, <1>2, <1>3, ParamsOfFunction
  <2>3. CASE x \notin Range(Params(source, g))
    BY <2>1, <2>2, <2>3 DEF g
  <2>4. CASE x \in Range(Params(source, g))
    <3>1. Params(source, g) \in Seq(Names)
      BY <1>1, <1>2, KindsOfLines DEF Params
    <3>2. PICK k \in 1 .. Len(Params(source, g)) : Params(source, g)[k] = x
      BY <2>4, <3>1 DEF Range
    <3>3. x \in Names
      BY <3>1, <3>2
    <3> DEFINE d == Declaration(Params(source, g)[k], g, k, g)
    <3>4. d \in Declarations(source)
      BY <1>1, <1>2, DeclarationsMean
    <3>5. d.name = x /\ d.at = g /\ d.body = g /\ g # 0
      BY <1>2, <3>2 DEF Declaration
    <3>6. IsParam(source, d)
      BY <1>2, <3>5 DEF IsParam
    <3> QED
      BY <3>3, <3>4, <3>5, <3>6 DEF LocalIn
  <2> QED
    BY <2>3, <2>4
<1>4. CASE x \notin Range(Params(program, f))
  <2>1. PICK l \in 1 .. (Len(program) + 1) - 1 :
          Kind(program, l) = "variable" /\ Owned(program, f, l) /\ NameAt(program, l) = x
    BY <1>4 DEF AllLocals, LocalNames
  <2>2. l \in 1 .. Len(program) /\ Kind(program, l) # "function"
    BY <1>1, <2>1
  <2>3. CASE l \notin m
    <3>1. x = "this" /\ Owned(program, l - 1, l) /\ Kind(source, o[l - 1]) = "constructor"
      BY <1>1, <2>1, <2>2, <2>3, VariablesAre
    <3>2. f = l - 1
      BY <1>1, <2>1, <2>2, <3>1, OneOwner
    <3> QED
      BY <3>1, <3>2
  <2>4. CASE l \in m
    <3>1. /\ o[l] \in 1 .. Len(source) /\ Kind(source, o[l]) = "variable"
          /\ NameAt(source, o[l]) = x /\ x \in Names
      BY <1>1, <2>1, <2>2, <2>4, VariablesAre
    <3>2. FunctionOf(source, o[l]) = g /\ g # 0
      BY <1>1, <1>2, <2>1, <2>2, <2>4, OwnerIs DEF g
    <3> DEFINE d == Declaration(NameAt(source, o[l]), o[l], 0, Innermost(source, o[l]))
    <3>3. d \in Declarations(source) /\ d.name = x /\ d.at = o[l] /\ d.body # 0
      BY <1>1, <3>1, <3>2, VariableDeclared
    <3>4. IsVariable(source, d)
      BY <3>1, <3>3 DEF IsVariable
    <3> QED
      BY <3>1, <3>3, <3>4 DEF LocalIn
  <2> QED
    BY <2>3, <2>4
<1> QED
  BY <1>3, <1>4

\* A variable of the program is a global of the module, declared outside every body.
LEMMA GlobalThere ==
  ASSUME NEW o, NEW m, LoweredBy(o, m), NEW d, GlobalIn(d)
  PROVE  \E l \in m : /\ o[l] = d.at /\ Kind(program, l) = "variable"
                      /\ NameAt(program, l) = d.name /\ Unowned(program, l)
                      /\ Depth(program, l) = 1
<1>1. /\ Tree(source) /\ Len(program) \in Nat
      /\ Sequence(program) /\ Traced(source, program, o, m, Len(source))
  BY LoweredFacts DEF LoweredBy
<1>2. /\ d \in Declarations(source) /\ IsVariable(source, d) /\ d.body = 0
      /\ d.at \in 1 .. Len(source) /\ d.name = NameAt(source, d.at)
      /\ Innermost(source, d.at) = 0 /\ Kind(source, d.at) = "variable"
  BY <1>1, DeclarationFields DEF GlobalIn, IsVariable
<1>3. FunctionOf(source, d.at) = 0 /\ Depth(source, d.at) = 1
  BY <1>1, <1>2, Home, VariableBody
<1>4. PICK l \in m : /\ o[l] = d.at /\ Kind(program, l) # "function"
                     /\ StatementImage(source, program, o, m, l)
  BY <1>1, <1>2, LineKept DEF Functions
<1>5. /\ Kind(program, l) = "variable" /\ NameAt(program, l) = d.name
      /\ Depth(program, l) = 1 /\ Unowned(program, l)
  BY <1>2, <1>3, <1>4 DEF StatementImage, Unowned
<1> QED
  BY <1>4, <1>5

\* What is in scope at a statement of a function is a name of what that becomes.
LEMMA LocalThere ==
  ASSUME NEW o, NEW m, LoweredBy(o, m), NEW k \in m, Kind(program, k) # "function",
         NEW d, LocalIn(d), InScope(source, d, o[k])
  PROVE  \E f : Owned(program, f, k) /\ d.name \in AllLocals(f)
<1> DEFINE i == o[k]
           b == d.body
           g == BodyFunction(source, b)
<1>1. /\ Tree(source) /\ Stray(source) = {} /\ Len(program) \in Nat /\ LoweredText(program)
      /\ Sequence(program) /\ Traced(source, program, o, m, Len(source))
      /\ k \in 1 .. Len(program) /\ i \in 1 .. Len(source) /\ m \subseteq 1 .. Len(program)
      /\ Len(source) \in Nat
  BY LoweredFacts DEF LoweredBy
<1>2. Kind(source, i) \in Statements
  BY <1>1, Origins
<1>3. /\ d \in Declarations(source) /\ b # 0
      /\ d.at <= i /\ (b = i \/ Within(source, i, b))
      /\ d.at \in 1 .. Len(source)
  BY <1>1, DeclarationFields DEF LocalIn, InScope
<1>4. \/ /\ d.at = g /\ b = g /\ Kind(source, g) \in Functions
         /\ d.name \in Range(Params(source, g))
      \/ /\ Kind(source, d.at) = "variable" /\ d.name = NameAt(source, d.at)
         /\ FunctionOf(source, d.at) = g /\ g # 0
  BY <1>1, <1>3, DeclaredInFunction
<1>5. b \in 1 .. Len(source)
  <2>1. CASE IsParam(source, d)
    BY <1>1, <1>3, <2>1, DeclarationFields
  <2>2. CASE IsVariable(source, d)
    BY <1>1, <1>3, <2>2, VariableBody
  <2> QED
    BY <2>1, <2>2 DEF LocalIn
<1>6. Encloses(source, b, i) /\ b \in 1 .. i - 1
  <2>1. b # i
    <3>1. CASE IsParam(source, d)
      <4>1. Kind(source, b) \in Functions
        BY <1>1, <1>3, <3>1, DeclarationFields
      <4> QED
        BY <4>1, <1>2 DEF Functions, Statements
    <3>2. CASE IsVariable(source, d)
      <4>1. b \in 1 .. d.at - 1
        BY <1>1, <1>3, <3>2, VariableBody
      <4> QED
        BY <4>1, <1>1, <1>3
    <3> QED
      BY <3>1, <3>2 DEF LocalIn
  <2>2. Within(source, i, b) /\ b \in Nat
    BY <1>3, <1>5, <2>1
  <2>3. Encloses(source, b, i)
    BY <1>1, <1>3, <2>2, WithinMeans
  <2> QED
    BY <2>3 DEF Encloses
<1> HIDE DEF i, b
<1>7. FunctionOf(source, i) = g /\ g # 0
  <2>1. CASE Kind(source, b) \in Functions
    <3>1. g = b
      BY <2>1 DEF BodyFunction
    <3> QED
      BY <1>1, <1>3, <1>6, <2>1, <3>1, FunctionOfIs
  <2>2. CASE Kind(source, b) \notin Functions
    <3>1. g = FunctionOf(source, b) /\ g # 0
      BY <1>4, <2>2 DEF BodyFunction
    <3> HIDE DEF g
    <3>2. g \in 1 .. b - 1 /\ Kind(source, g) \in Functions /\ Encloses(source, g, b)
      BY <1>1, <1>5, <3>1, FunctionOfIs
    <3>3. Encloses(source, g, i)
      BY <1>1, <1>6, <3>2, EnclosesTransitive
    <3>4. g \in 1 .. i - 1
      BY <3>3 DEF Encloses
    <3> QED
      BY <1>1, <3>1, <3>2, <3>3, <3>4, FunctionOfIs
  <2> QED
    BY <2>1, <2>2
<1> HIDE DEF g
<1>8. PICK f \in m : o[f] = g /\ Owned(program, f, k)
  <2>1. FunctionOf(source, o[k]) = g /\ g # 0
    BY <1>7 DEF i
  <2>2. /\ Tree(source) /\ Sequence(program) /\ Traced(source, program, o, m, Len(source))
        /\ FunctionOf(source, o[k]) # 0
    BY <1>1, <2>1
  <2>3. \E f \in m : o[f] = FunctionOf(source, o[k]) /\ Owned(program, f, k)
    BY <2>2, OwnerThere
  <2> QED
    BY <2>1, <2>3
<1>9. /\ f \in 1 .. Len(program) /\ Kind(program, f) = "function" /\ g \in 1 .. Len(source)
      /\ Params(program, f) = FunctionParams(source, g)
  BY <1>1, <1>8, Origins DEF Owned, FunctionImage
<1>10. CASE d.name \in Range(Params(source, g))
  <2>1. d.name \in Range(Params(program, f))
    BY <1>1, <1>9, <1>10, ParamsOfFunction
  <2> QED
    BY <1>8, <2>1 DEF AllLocals, LocalNames
<1>11. CASE /\ Kind(source, d.at) = "variable" /\ d.name = NameAt(source, d.at)
            /\ FunctionOf(source, d.at) = g /\ g # 0
  <2>1. PICK l \in m, h \in m : /\ o[l] = d.at /\ Kind(program, l) = "variable"
                                /\ NameAt(program, l) = NameAt(source, d.at)
                                /\ o[h] = g /\ Owned(program, h, l)
    <3>1. /\ Tree(source) /\ Traced(source, program, o, m, Len(source))
          /\ d.at \in 1 .. Len(source) /\ Kind(source, d.at) = "variable"
          /\ FunctionOf(source, d.at) # 0
      BY <1>1, <1>3, <1>11
    <3>2. PICK l \in m, h \in m : /\ o[l] = d.at /\ Kind(program, l) = "variable"
                                  /\ NameAt(program, l) = NameAt(source, d.at)
                                  /\ o[h] = FunctionOf(source, d.at) /\ Owned(program, h, l)
      BY <3>1, VariableLowered
    <3> QED
      BY <1>11, <3>2
  <2>2. h = f
    BY <1>1, <1>8, <2>1, Origins
  <2>3. l \in 1 .. (Len(program) + 1) - 1
    BY <1>1, <2>1
  <2>4. d.name \in AllLocals(f)
    BY <1>11, <2>1, <2>2, <2>3 DEF AllLocals, LocalNames
  <2> QED
    BY <1>8, <2>4
<1> QED
  BY <1>4, <1>10, <1>11

\* Functions, constructors and methods are functions of the module.
LEMMA FunctionThere ==
  ASSUME NEW o, NEW m, LoweredBy(o, m), NEW i \in 1 .. Len(source), Kind(source, i) \in Functions
  PROVE  \E f \in 1 .. Len(program) :
           Kind(program, f) = "function" /\ NameAt(program, f) = FunctionName(source, i)
<1>1. Tree(source) /\ m \subseteq 1 .. Len(program) /\ Traced(source, program, o, m, Len(source))
  BY LoweredFacts DEF LoweredBy
<1>2. PICK f \in m : o[f] = i /\ Kind(program, f) = "function" /\ FunctionImage(source, program, o, f)
  BY <1>1, LineKept DEF Functions
<1> QED
  BY <1>1, <1>2 DEF FunctionImage

\* And those that are there.
LEMMA FunctionFrom ==
  ASSUME NEW o, NEW m, LoweredBy(o, m),
         NEW f \in 1 .. Len(program), Kind(program, f) = "function"
  PROVE  /\ f \in m /\ o[f] \in 1 .. Len(source) /\ Kind(source, o[f]) \in Functions
         /\ NameAt(program, f) = FunctionName(source, o[f])
         /\ NameAt(program, f) \in Names =>
              /\ Kind(source, o[f]) = "function"
              /\ \E d \in Declarations(source) :
                   d.at = o[f] /\ d.name = NameAt(program, f) /\ IsName(source, d)
<1>1. Tree(source) /\ Traced(source, program, o, m, Len(source))
  BY LoweredFacts DEF LoweredBy
<1>2. /\ f \in m /\ o[f] \in 1 .. Len(source) /\ Kind(source, o[f]) \in Functions
      /\ NameAt(program, f) = FunctionName(source, o[f])
  BY <1>1, Origins DEF FunctionImage
<1>3. ASSUME NameAt(program, f) \in Names
      PROVE  /\ Kind(source, o[f]) = "function"
             /\ \E d \in Declarations(source) :
                  d.at = o[f] /\ d.name = NameAt(program, f) /\ IsName(source, d)
  <2>1. Kind(source, o[f]) = "function"
    BY <1>1, <1>2, <1>3, MemberName DEF Functions
  <2> DEFINE d == Declaration(NameAt(source, o[f]), o[f], 0, 0)
  <2>2. d \in Declarations(source)
    BY <1>1, <1>2, <2>1, DeclarationsMean
  <2>3. d.at = o[f] /\ d.name = NameAt(program, f)
    BY <1>2, <2>1 DEF Declaration, FunctionName
  <2> QED
    BY <2>1, <2>2, <2>3 DEF IsName
<1> QED
  BY <1>2, <1>3

\* Constructors and methods have this.
LEMMA ThisThere ==
  ASSUME NEW o, NEW m, LoweredBy(o, m),
         NEW f \in 1 .. Len(program), Kind(program, f) = "function",
         Kind(source, o[f]) \in {"constructor", "method"}
  PROVE  "this" \in AllLocals(f)
<1> PICK B : Translated(source, B, program, o, m)
  BY DEF LoweredBy
<1>1. /\ Tree(source) /\ Len(program) \in Nat /\ LoweredText(program)
      /\ Traced(source, program, o, m, Len(source))
  BY LoweredFacts DEF LoweredBy
<1>2. f \in m /\ o[f] \in 1 .. Len(source) /\ Params(program, f) = FunctionParams(source, o[f])
  BY <1>1, Origins DEF FunctionImage
<1>3. CASE Kind(source, o[f]) = "method"
  <2> DEFINE ps == Params(source, o[f])
  <2>1. Params(program, f) = <<"this">> \o ps
    BY <1>2, <1>3 DEF FunctionParams
  <2>2. ps \in Seq(Names)
    BY <1>1, <1>2, KindsOfLines DEF Params
  <2>3. ps \in Seq(Names \cup {"this"}) /\ <<"this">> \in Seq(Names \cup {"this"})
        /\ Len(<<"this">>) = 1 /\ <<"this">>[1] = "this"
    <3>1. ps \in Seq(Names \cup {"this"})
      BY <2>2, SequenceGrows
    <3> QED
      BY <3>1
  <2> DEFINE U == Names \cup {"this"}
  <2> HIDE DEF ps, U
  <2>4. /\ <<"this">> \o ps \in Seq(U) /\ Len(<<"this">> \o ps) = 1 + Len(ps) /\ Len(ps) \in Nat
        /\ (<<"this">> \o ps)[1] = "this"
    <3>1. /\ <<"this">> \o ps \in Seq(U) /\ Len(<<"this">> \o ps) = Len(<<"this">>) + Len(ps)
          /\ \A j \in 1 .. Len(<<"this">>) + Len(ps) :
               (<<"this">> \o ps)[j] = IF j <= Len(<<"this">>) THEN <<"this">>[j]
                                       ELSE ps[j - Len(<<"this">>)]
      BY <2>3, ConcatProperties DEF U
    <3>2. Len(ps) \in Nat
      BY <2>2, LenProperties
    <3> QED
      BY <2>3, <3>1, <3>2
  <2>5. 1 \in DOMAIN Params(program, f)
    BY <2>1, <2>4, LenProperties
  <2>6. "this" \in Range(Params(program, f))
    BY <2>1, <2>4, <2>5 DEF Range
  <2> QED
    BY <2>6 DEF AllLocals, LocalNames
<1>4. CASE Kind(source, o[f]) = "constructor"
  <2>1. /\ f + 1 \in 1 .. Len(program) /\ Depth(program, f + 1) = 2
        /\ Kind(program, f + 1) = "variable" /\ NameAt(program, f + 1) = "this"
    BY <1>1, <1>2, <1>4 DEF Translated, Allocates
  <2>2. f + 1 \in 1 .. (Len(program) + 1) - 1
    BY <1>1, <2>1
  <2>3. Owned(program, f, f + 1)
    <3>1. f \in 1 .. (f + 1) - 1 /\ \A j \in f + 1 .. f + 1 : j = f + 1
      BY <1>1
    <3>2. \A j \in f + 1 .. f + 1 : Depth(program, j) > 1
      BY <2>1, <3>1
    <3> QED
      BY <3>1, <3>2 DEF Owned
  <2> QED
    BY <2>1, <2>2, <2>3 DEF AllLocals, LocalNames
<1> QED
  BY <1>3, <1>4

-----------------------------------------------------------------------------
(* The names in what is emitted.                                            *)

\* Line k comes from a statement of the text that has this name in it.
Written(o, m, k, x) ==
  /\ k \in m /\ Kind(source, o[k]) \in Statements
  /\ x \in Mentions(source[o[k]].node.expr) \cup Unseen(source[o[k]].node.expr)

\* A constructor of a class of the text, or a method of a line of it.
MemberOf(x) ==
  \E c : /\ HasClass(source, c)
         /\ \/ x = Qualified(c, "constructor")
            \/ \E y : x = Qualified(c, y) /\ MethodIn(source, c, y)

LEMMA ClassNames ==
  ASSUME NEW p, Tree(p), NEW c, HasClass(p, c)
  PROVE  c \in NamesOf("class") /\ c \in Names
<1>1. PICK k \in 1 .. Len(p) : Kind(p, k) = "class" /\ NameAt(p, k) = c
  BY DEF HasClass
<1>2. p[k].node \in Vocabulary /\ p[k].node.kind = "class" /\ p[k].node.name = c
  BY <1>1, TreeLines DEF Kind, NameAt
<1> QED
  BY <1>2, ProgramAssumption DEF NamesOf

LEMMA EmittedNames ==
  ASSUME NEW o, NEW m, LoweredBy(o, m), NEW k \in 1 .. Len(program),
         Kind(program, k) \in {"variable", "expression", "branch"},
         Generates(program[k].node.expr)
  PROVE  /\ \A x \in Accessed(program[k].node.expr) : x = "this" \/ Written(o, m, k, x)
         /\ \A x \in Called(program[k].node.expr) :
              x \in Runtime \cup {"this", "arrayAt"} \/ Written(o, m, k, x) \/ MemberOf(x)
<1> DEFINE i == o[k]
           e == source[i].node.expr
<1>1. Tree(source) /\ Traced(source, program, o, m, Len(source)) /\ LoweredText(program)
  BY LoweredFacts DEF LoweredBy
<1>0. PICK B : AllBound(source, Len(source) + 1, B) /\ Translated(source, B, program, o, m)
  BY DEF LoweredBy
<1>2. PICK h : /\ Hir(source, B, i, Kind(program, k), h) /\ Printable(h)
               /\ program[k].node.expr = MirLowered(h)
  BY <1>0 DEF Translated
<1>3. CASE k \in m
  <2>1. i \in 1 .. Len(source) /\ Kind(source, i) \in Statements
    BY <1>1, <1>3, Origins
  <2>2. source[i].node \in Vocabulary
    BY <1>1, <2>1, TreeLines
  <2>3. \A x \in Mentions(e) \cup Unseen(e) : Written(o, m, k, x)
    BY <1>3, <2>1 DEF Written
  <2> DEFINE c == ClassName(source, i)
  <2> HIDE DEF i
  <2>4. CASE ClassOf(source, i) # 0
    <3> DEFINE b == B[c]
    <3>1. h = ClassLowered(e, c, b)
      BY <1>2, <2>1, <2>4 DEF Hir
    <3>6. Bound(source, Len(source) + 1, c, b)
      BY <1>0, <1>1, <2>1, <2>4, ClassBoundThere
    <3> HIDE DEF c, b
    <3>2. HasClass(source, c) /\ c \in NamesOf("class") /\ b \in ClassBindings
      BY <1>1, <3>6, BoundMeans, ClassNames DEF Bound
    <3>3. Faithful(e, h, Runtime \cup {Qualified(c, y) : y \in Range(b.methods)})
      BY <2>2, <3>1, <3>2, ExpressionsAssumption
    <3>4. /\ Accessed(MirLowered(h)) \subseteq Mentions(e) \cup Unseen(e) \cup {"this"}
          /\ Called(MirLowered(h)) \subseteq
               Mentions(e) \cup Unseen(e) \cup (Runtime \cup {Qualified(c, y) : y \in Range(b.methods)})
                 \cup {"this", "arrayAt"}
      BY <1>2, <3>3 DEF Faithful
    <3>5. \A y \in Range(b.methods) : MemberOf(Qualified(c, y))
      BY <1>1, <3>2, <3>6, BoundMeans DEF MemberOf
    <3> QED
      BY <1>2, <2>3, <3>4, <3>5
  <2>5. CASE ClassOf(source, i) = 0
    <3> DEFINE C == DOMAIN B
    <3>1. h = NewLowered(e, C)
      BY <1>2, <2>1, <2>5 DEF Hir
    <3>6. \A d \in C : HasClass(source, d)
      BY <1>0, <1>1, BoundMeans DEF AllBound
    <3> HIDE DEF C
    <3>2. C \in SUBSET NamesOf("class")
      BY <1>1, <3>6, ClassNames
    <3>3. Faithful(e, h, {Qualified(d, "constructor") : d \in C})
      BY <2>2, <3>1, <3>2, ExpressionsAssumption
    <3>4. /\ Accessed(MirLowered(h)) \subseteq Mentions(e) \cup Unseen(e) \cup {"this"}
          /\ Called(MirLowered(h)) \subseteq
               Mentions(e) \cup Unseen(e) \cup {Qualified(d, "constructor") : d \in C}
                 \cup {"this", "arrayAt"}
      BY <1>2, <3>3 DEF Faithful
    <3>5. \A d \in C : MemberOf(Qualified(d, "constructor"))
      BY <3>6 DEF MemberOf
    <3> QED
      BY <1>2, <2>3, <3>4, <3>5
  <2> QED
    BY <2>4, <2>5
<1>4. CASE k \notin m
  <2>1. Kind(source, i) = "constructor" /\ Kind(program, k) \in {"variable", "expression"}
    BY <1>1, <1>4 DEF Traced, Synthetic
  <2> HIDE DEF i
  <2>2. CASE Kind(program, k) = "variable"
    <3> DEFINE b == B[ClassName(source, o[k])]
    <3>1. h = FunctionCall("malloc", <<Literal(Size(b))>>)
      BY <1>2, <2>1, <2>2 DEF Hir, i
    <3>3. b \in ClassBindings
      <4>1. o[k] \in 1 .. Len(source) /\ Kind(source, o[k]) \in Members
        BY <1>1, <2>1 DEF Traced, Members, i
      <4>2. ClassOf(source, o[k]) # 0
        BY <1>1, <4>1, ClassOfMember
      <4> QED
        BY <1>0, <1>1, <4>1, <4>2, ClassBoundThere DEF Bound
    <3> HIDE DEF b
    <3>2. Accessed(MirLowered(h)) = {} /\ Called(MirLowered(h)) \subseteq Runtime
      BY <3>1, <3>3, ExpressionsAssumption DEF Compiles
    <3> QED
      BY <1>2, <3>2
  <2>3. CASE Kind(program, k) = "expression"
    <3>1. h = Id("this")
      BY <1>2, <2>1, <2>3 DEF Hir
    <3>2. Accessed(MirLowered(h)) \subseteq {"this"} /\ Called(MirLowered(h)) = {}
      BY <3>1, ExpressionsAssumption DEF Compiles
    <3> QED
      BY <1>2, <3>2
  <2> QED
    BY <2>1, <2>2, <2>3
<1> QED
  BY <1>3, <1>4

\* What the lowered program itself declares.
LEMMA ProgramDeclares ==
  ASSUME NEW q, LoweredText(q), DOMAIN q = 1 .. Len(q)
  PROVE  /\ \A d \in Declarations(q) : d.body = 0 =>
              /\ d.at \in 1 .. Len(q) /\ d.name = NameAt(q, d.at)
              /\ Kind(q, d.at) = "function" \/ (Kind(q, d.at) = "variable" /\ Unowned(q, d.at))
         /\ \A l \in 1 .. Len(q) : Kind(q, l) = "variable" /\ Depth(q, l) = 1 =>
              \E d \in Declarations(q) : d.name = NameAt(q, l) /\ d.at = l /\ d.body = 0
<1> DEFINE names(i) ==
             {Declaration(Params(q, i)[k], i, k, i) : k \in DOMAIN Params(q, i)}
               \cup (IF Kind(q, i) \in {"function", "class"}
                     THEN {Declaration(NameAt(q, i), i, 0, 0)} ELSE {})
               \cup (IF Kind(q, i) = "variable"
                     THEN {Declaration(NameAt(q, i), i, 0, Innermost(q, i))} ELSE {})
<1>1. Declarations(q) = UNION {names(i) : i \in 1 .. Len(q)}
  BY DEF Declarations, Declaration, Params, NameAt, Kind
<1>2. Len(q) \in Nat /\ \A i \in 1 .. Len(q) : Depth(q, i) \in Nat /\ Depth(q, i) >= 1
                                               /\ Kind(q, i) # "class"
  BY DEF LoweredText, Statements
<1>3. ASSUME NEW i \in 1 .. Len(q)
      PROVE  /\ Innermost(q, i) = 0 => Unowned(q, i)
             /\ Depth(q, i) = 1 => Innermost(q, i) = 0
  <2> DEFINE S == {b \in 0 .. i - 1 : Within(q, i, b)}
  <2>1. i \in Nat /\ i >= 1 /\ 0 \in S /\ S \subseteq Nat /\ S # {} /\ \A b \in S : b <= i
    <3>1. i \in Nat /\ i >= 1 /\ 0 \in 0 .. i - 1
      BY <1>2
    <3> QED
      BY <3>1 DEF Within
  <2>2. Innermost(q, i) = Max(S)
    BY DEF Innermost
  <2> HIDE DEF S
  <2>3. Max(S) \in S /\ \A b \in S : b <= Max(S)
    BY <2>1, MaxFacts
  <2>4. ASSUME NEW f \in 1 .. i - 1, Owned(q, f, i) PROVE f \in S
    <3>1. f \in 1 .. Len(q) /\ f \in 0 .. i - 1 /\ f < i
      BY <1>2
    <3>2. Kind(q, f) = "function" /\ Depth(q, f) = 1
      BY <2>4, <3>1 DEF Owned, LoweredText
    <3>3. Within(q, i, f)
      BY <2>4, <3>1, <3>2 DEF Owned, Within, HasBody, Functions, Kind, Depth
    <3> QED
      BY <3>1, <3>3 DEF S
  <2>5. ASSUME Depth(q, i) = 1, NEW b \in S PROVE b = 0
    <3>1. b \in 0 .. i - 1 /\ Within(q, i, b)
      BY DEF S
    <3>2. ASSUME b # 0 PROVE FALSE
      <4>1. b \in 1 .. Len(q) /\ i \in b + 1 .. i /\ Depth(q, b) \in Nat /\ Depth(q, b) >= 1
        BY <1>2, <2>1, <3>1, <3>2
      <4>2. Depth(q, i) > Depth(q, b)
        BY <3>1, <3>2, <4>1 DEF Within, Depth
      <4> QED
        BY <2>5, <4>1, <4>2
    <3> QED
      BY <3>2
  <2>6. Max(S) = 0 => Unowned(q, i)
    <3> SUFFICES ASSUME Max(S) = 0, NEW f \in 1 .. i - 1, Owned(q, f, i) PROVE FALSE
      BY DEF Unowned
    <3>1. f \in S /\ f >= 1 /\ f <= 0
      BY <2>1, <2>3, <2>4
    <3> QED
      BY <3>1, <2>1
  <2> QED
    BY <2>2, <2>3, <2>5, <2>6
<1>4. ASSUME NEW d \in Declarations(q), d.body = 0
      PROVE  /\ d.at \in 1 .. Len(q) /\ d.name = NameAt(q, d.at)
             /\ Kind(q, d.at) = "function" \/ (Kind(q, d.at) = "variable" /\ Unowned(q, d.at))
  <2>1. PICK i \in 1 .. Len(q) : d \in names(i)
    BY <1>1
  <2>2. i # 0
    BY <1>2
  <2>3. \A k : d # Declaration(Params(q, i)[k], i, k, i)
    BY <1>4, <2>2 DEF Declaration
  <2>4. CASE Kind(q, i) = "function" /\ d = Declaration(NameAt(q, i), i, 0, 0)
    BY <2>4 DEF Declaration
  <2>5. CASE Kind(q, i) = "variable" /\ d = Declaration(NameAt(q, i), i, 0, Innermost(q, i))
    <3>1. d.at = i /\ d.name = NameAt(q, i) /\ Innermost(q, i) = 0
      BY <1>4, <2>5 DEF Declaration
    <3> QED
      BY <1>3, <2>5, <3>1
  <2> QED
    BY <1>2, <2>1, <2>3, <2>4, <2>5
<1>5. ASSUME NEW l \in 1 .. Len(q), Kind(q, l) = "variable", Depth(q, l) = 1
      PROVE  \E d \in Declarations(q) : d.name = NameAt(q, l) /\ d.at = l /\ d.body = 0
  <2> DEFINE d == Declaration(NameAt(q, l), l, 0, Innermost(q, l))
  <2>1. d \in names(l)
    BY <1>5
  <2>2. d \in Declarations(q)
    BY <1>1, <2>1
  <2>3. d.name = NameAt(q, l) /\ d.at = l /\ d.body = 0
    BY <1>3, <1>5 DEF Declaration
  <2> QED
    BY <2>2, <2>3
<1> QED
  BY <1>4, <1>5

-----------------------------------------------------------------------------
(* What a finished module declares, and what its code refers to.            *)

\* The module that is made of the program.
ModuleOf(o, m) ==
  /\ LoweredBy(o, m)
  /\ DOMAIN module = {0} \cup {f \in 1 .. Len(program) : Kind(program, f) = "function"}
  /\ module[0] = AllGlobals
  /\ \A f \in DOMAIN module \ {0} : module[f] = AllLocals(f)

\* What a declaration of the text is, as the properties say it.
LEMMA DeclaredAs ==
  ASSUME Tree(source), NEW x
  PROVE  /\ \A kind \in {"function", "class"} :
              DeclaredBy(x, {kind}) <=>
                \E d \in Declarations(source) :
                  d.name = x /\ IsName(source, d) /\ Kind(source, d.at) = kind
         /\ Variables(x) <=> \E d \in Declarations(source) :
                               d.name = x /\ (IsVariable(source, d) \/ IsParam(source, d))
         /\ \A d \in Declarations(source) : d.name \in Names
<1>1. ASSUME NEW d \in Declarations(source)
      PROVE  /\ \A kind \in {"function", "class"} :
                  Kind(source, d.at) = kind /\ d.index = 0 <=>
                    IsName(source, d) /\ Kind(source, d.at) = kind
             /\ IsVariable(source, d) <=> Kind(source, d.at) = "variable" /\ d.index = 0
             /\ IsParam(source, d) <=> d.index # 0
             /\ d.name \in Names
  <2>1. d.at \in 1 .. Len(source)
    BY DeclarationFields
  <2>2. IsParam(source, d) => d.index # 0 /\ Kind(source, d.at) \in Functions /\ d.name \in Names
    <3> SUFFICES ASSUME IsParam(source, d)
                 PROVE  d.index # 0 /\ Kind(source, d.at) \in Functions /\ d.name \in Names
      OBVIOUS
    <3> DEFINE ps == Params(source, d.at)
    <3>1. /\ d.index \in 1 .. Len(ps) /\ d.name = ps[d.index]
          /\ Kind(source, d.at) \in Functions
      BY DeclarationFields
    <3>2. ps \in Seq(Names)
      BY <2>1, KindsOfLines DEF Params
    <3> HIDE DEF ps
    <3>3. Len(ps) \in Nat /\ \A j \in 1 .. Len(ps) : ps[j] \in Names /\ j # 0
      BY <3>2
    <3> QED
      BY <3>1, <3>3
  <2>3. IsName(source, d) =>
          /\ d.index = 0 /\ Kind(source, d.at) \in {"function", "class"} /\ d.name \in Names
    BY <2>1, DeclarationFields, KindsOfLines DEF IsName, NameAt
  <2>4. IsVariable(source, d) =>
          d.index = 0 /\ Kind(source, d.at) = "variable" /\ d.name \in Names
    BY <2>1, DeclarationFields, KindsOfLines DEF IsVariable, NameAt
  <2>5. IsParam(source, d) \/ IsName(source, d) \/ IsVariable(source, d)
    BY DeclarationFields
  <2> QED
    BY <2>2, <2>3, <2>4, <2>5
<1>2. ASSUME NEW kind \in {"function", "class"}
      PROVE  DeclaredBy(x, {kind}) <=>
               \E d \in Declarations(source) :
                 d.name = x /\ IsName(source, d) /\ Kind(source, d.at) = kind
  <2>1. DeclaredBy(x, {kind}) <=>
          \E d \in Declarations(source) : d.name = x /\ Kind(source, d.at) = kind /\ d.index = 0
    BY DEF DeclaredBy, Kind
  <2> QED
    BY <1>1, <2>1
<1>3. Variables(x) <=> \E d \in Declarations(source) :
                          d.name = x /\ (IsVariable(source, d) \/ IsParam(source, d))
  <2>1. DeclaredBy(x, {"variable"}) <=>
          \E d \in Declarations(source) :
            d.name = x /\ Kind(source, d.at) = "variable" /\ d.index = 0
    BY DEF DeclaredBy, Kind
  <2> QED
    BY <1>1, <2>1 DEF Variables
<1> QED
  BY <1>1, <1>2, <1>3

\* What mention of a name of the text means.
LEMMA MentionMeans ==
  ASSUME NEW o, NEW m, LoweredBy(o, m), NEW k \in m, Kind(program, k) # "function",
         NEW x \in Mentions(source[o[k]].node.expr)
  PROVE  \/ DeclaredBy(x, {"function"})
         \/ DeclaredBy(x, {"class"})
         \/ \E d : GlobalIn(d) /\ d.name = x
         \/ \E d : LocalIn(d) /\ d.name = x /\ InScope(source, d, o[k])
<1>1. Tree(source) /\ Accepted(source) /\ o[k] \in 1 .. Len(source)
  BY LoweredFacts DEF LoweredBy
<1>2. PICK d \in Declarations(source) : d.name = x /\ InScope(source, d, o[k])
  BY <1>1 DEF Accepted, Known
<1>3. IsParam(source, d) \/ IsName(source, d) \/ IsVariable(source, d)
  BY <1>1, DeclarationFields
<1>4. CASE IsName(source, d)
  BY <1>1, <1>2, <1>4, DeclaredAs DEF IsName
<1>5. CASE IsVariable(source, d)
  BY <1>2, <1>5 DEF GlobalIn, LocalIn
<1>6. CASE IsParam(source, d)
  <2>1. d.body # 0
    <3>1. d.body = d.at /\ d.at \in 1 .. Len(source)
      BY <1>1, <1>6, DeclarationFields
    <3> QED
      BY <3>1
  <2> QED
    BY <1>2, <1>6, <2>1 DEF LocalIn
<1> QED
  BY <1>3, <1>4, <1>5, <1>6

\* A class that is a variable as well is one of the program.
LEMMA ClassShadowed ==
  ASSUME NEW o, NEW m, LoweredBy(o, m), NEW x, DeclaredBy(x, {"class"}), Variables(x)
  PROVE  \E d : GlobalIn(d) /\ d.name = x
<1>1. Tree(source) /\ Accepted(source)
  BY LoweredFacts DEF LoweredBy
<1>2. PICK c \in Declarations(source) :
        c.name = x /\ IsName(source, c) /\ Kind(source, c.at) = "class"
  BY <1>1, DeclaredAs
<1>3. PICK d \in Declarations(source) :
        d.name = x /\ (IsVariable(source, d) \/ IsParam(source, d))
  BY <1>1, DeclaredAs
<1>4. Kind(source, d.at) # "class"
  BY <1>3 DEF IsVariable, IsParam, Functions
<1>5. Shadows(source, c, d)
  BY <1>1, <1>2, <1>3, <1>4, DeclarationFields DEF Shadows, InScope
<1>6. d.body = 0
  BY <1>1, <1>5 DEF Accepted
<1>7. ~IsParam(source, d)
  <2>1. d.at \in 1 .. Len(source) /\ (IsParam(source, d) => d.body = d.at)
    BY <1>1, DeclarationFields
  <2> QED
    BY <1>6, <2>1
<1> QED
  BY <1>3, <1>6, <1>7 DEF GlobalIn

\* What r loads or stores is declared.
ModuleHas(r) ==
  IF r.kind = "Global" THEN r.name \in module[0] ELSE r.in # 0 /\ r.name \in module[r.in]

\* What is loaded or stored and is not explained is there.
LEMMA ValueThere ==
  ASSUME NEW o, NEW m, ModuleOf(o, m), NEW k \in 1 .. Len(program), NEW r,
         EmittedAt(program, k, r), r.kind # "Call", ~DanglingValue(r), ~Unchecked(r)
  PROVE  ModuleHas(r)
<1> DEFINE x == r.name
           f == FunctionOf(program, k)
<1>1. /\ Tree(source) /\ LoweredBy(o, m) /\ LoweredText(program) /\ Len(program) \in Nat
      /\ DOMAIN source = 1 .. Len(source) /\ DOMAIN program = 1 .. Len(program) /\ k \in Nat
  BY LoweredFacts DEF ModuleOf
<1>2. /\ Kind(program, k) \in {"variable", "expression", "branch"}
      /\ Generates(program[k].node.expr) /\ r.in = f /\ r.at = k
      /\ r.kind = IF x \in GlobalNames(program, k + 1) THEN "Global" ELSE "Local"
      /\ x \in Accessed(program[k].node.expr)
  BY DEF EmittedAt
<1>3. /\ f # 0 => Owned(program, f, k)
      /\ \A g : Owned(program, g, k) => f = g
  BY <1>1, FunctionAround
<1>4. ASSUME f # 0
      PROVE  /\ f \in 1 .. Len(program) /\ Kind(program, f) = "function"
             /\ module[f] = AllLocals(f) /\ f < k
  <2>1. f \in 1 .. k - 1 /\ Kind(program, f) = "function"
    BY <1>3, <1>4 DEF Owned
  <2>2. f \in 1 .. Len(program) /\ f < k
    BY <1>1, <2>1
  <2> QED
    BY <1>4, <2>1, <2>2 DEF ModuleOf
<1> HIDE DEF f
<1>5. CASE r.kind = "Global"
  <2>1. GlobalNames(program, k + 1) \subseteq AllGlobals
    <3>1. \A l : l \in 1 .. (k + 1) - 1 => l \in 1 .. (Len(program) + 1) - 1
      BY <1>1
    <3> QED
      BY <3>1 DEF GlobalNames, AllGlobals
  <2> QED
    BY <1>2, <1>5, <2>1 DEF ModuleOf, ModuleHas
<1>6. CASE r.kind # "Global" /\ x = "this"
  <2>1. f # 0 /\ ~DeclaredBy(program[f].node.name, {"function"})
    BY <1>2, <1>6 DEF DanglingValue
  <2>2. /\ Kind(source, o[f]) \in Functions /\ o[f] \in 1 .. Len(source)
        /\ NameAt(program, f) = FunctionName(source, o[f])
    BY <1>1, <1>4, <2>1, FunctionFrom
  <2>3. Kind(source, o[f]) # "function"
    <3> SUFFICES ASSUME Kind(source, o[f]) = "function" PROVE FALSE
      OBVIOUS
    <3>1. NameAt(program, f) \in Names
      BY <1>1, <2>2, KindsOfLines DEF FunctionName, NameAt
    <3>2. \E d \in Declarations(source) :
            d.at = o[f] /\ d.name = NameAt(program, f) /\ IsName(source, d)
      BY <1>1, <1>4, <2>1, <3>1, FunctionFrom
    <3> QED
      BY <1>1, <2>1, <3>2, DeclaredAs DEF NameAt
  <2>4. "this" \in AllLocals(f)
    BY <1>1, <1>4, <2>1, <2>2, <2>3, ThisThere DEF Functions
  <2> QED
    BY <1>2, <1>4, <1>6, <2>1, <2>4 DEF ModuleHas
<1>7. CASE r.kind # "Global" /\ x # "this"
  <2>1. Written(o, m, k, x)
    BY <1>1, <1>2, <1>7, EmittedNames
  <2>2. k \in m /\ o[k] \in 1 .. Len(source) /\ x \in Mentions(source[o[k]].node.expr)
    BY <1>1, <2>1, LoweredFacts DEF Written, Unchecked
  <2>3. ~DeclaredBy(x, {"function"}) /\ (DeclaredBy(x, {"class"}) => Variables(x))
    BY DEF DanglingValue
  <2>4. CASE \E d : LocalIn(d) /\ d.name = x /\ InScope(source, d, o[k])
    <3>1. PICK g : Owned(program, g, k) /\ x \in AllLocals(g)
      BY <1>1, <1>2, <2>2, <2>4, LocalThere
    <3>2. g = f /\ f # 0
      <4>1. g \in 1 .. k - 1
        BY <3>1 DEF Owned
      <4> QED
        BY <1>3, <3>1, <4>1
    <3> QED
      BY <1>2, <1>4, <1>7, <3>1, <3>2 DEF ModuleHas
  <2>5. CASE \E d : GlobalIn(d) /\ d.name = x
    <3>1. PICK l \in m : /\ Kind(program, l) = "variable" /\ NameAt(program, l) = x
                         /\ Unowned(program, l) /\ Depth(program, l) = 1
      BY <1>1, <2>5, GlobalThere
    <3>2. l \in 1 .. Len(program) /\ l \in Nat /\ l \in 1 .. (Len(program) + 1) - 1
      BY <1>1, LoweredFacts
    <3>3. l > k
      <4>1. l \notin 1 .. (k + 1) - 1
        BY <1>2, <1>7, <3>1 DEF GlobalNames
      <4> QED
        BY <1>1, <3>2, <4>1
    <3>4. PICK d \in Declarations(program) : d.name = x /\ d.at = l /\ d.body = 0
      BY <1>1, <3>1, <3>2, ProgramDeclares
    <3>5. r.at < d.at
      BY <1>1, <1>2, <3>2, <3>3, <3>4
    <3> QED
      BY <3>4, <3>5 DEF DanglingValue
  <2> QED
    BY <1>1, <1>2, <2>2, <2>3, <2>4, <2>5, MentionMeans, ClassShadowed
<1> QED
  BY <1>5, <1>6, <1>7

\* A function and a variable or a parameter have no name in common.
LEMMA FunctionsAlone ==
  ASSUME NEW o, NEW m, LoweredBy(o, m), NEW x, DeclaredBy(x, {"function"})
  PROVE  ~Variables(x)
<1>1. Tree(source)
  BY LoweredFacts
<1>2. PICK e \in Declarations(source) :
        e.name = x /\ IsName(source, e) /\ Kind(source, e.at) = "function"
  BY <1>1, DeclaredAs
<1>3. ASSUME NEW d \in Declarations(source), d.name = x, IsVariable(source, d) \/ IsParam(source, d)
      PROVE  FALSE
  <2>1. d # e
    <3>1. IsParam(source, d) => d.body # 0
      <4>1. d.at \in 1 .. Len(source) /\ (IsParam(source, d) => d.body = d.at)
        BY <1>1, DeclarationFields
      <4> QED
        BY <4>1
    <3>2. e.body = 0
      BY <1>1, <1>2, DeclarationFields
    <3> QED
      BY <1>2, <1>3, <3>1, <3>2 DEF IsVariable
  <2>2. Kind(source, d.at) # "class"
    BY <1>3 DEF IsVariable, IsParam, Functions
  <2> QED
    BY <1>2, <1>3, <2>1, <2>2, Apartness
<1> QED
  BY <1>1, <1>3, DeclaredAs

\* A name of the text that a function of the module has is one of the text.
LEMMA NamedFunction ==
  ASSUME NEW o, NEW m, LoweredBy(o, m),
         NEW f \in 1 .. Len(program), Kind(program, f) = "function"
  PROVE  /\ NameAt(program, f) \in Names \cup {"arrayAt"} =>
              DeclaredBy(NameAt(program, f), {"function"})
         /\ NameAt(program, f) # "this"
<1>1. Tree(source)
  BY LoweredFacts
<1>2. ASSUME NameAt(program, f) \in Names PROVE DeclaredBy(NameAt(program, f), {"function"})
  <2>1. Kind(source, o[f]) = "function"
    BY <1>2, FunctionFrom
  <2>2. PICK d \in Declarations(source) :
          d.at = o[f] /\ d.name = NameAt(program, f) /\ IsName(source, d)
    BY <1>2, FunctionFrom
  <2> QED
    BY <1>1, <2>1, <2>2, DeclaredAs
<1>3. NameAt(program, f) # "this" /\ (NameAt(program, f) = "arrayAt" => "arrayAt" \in Names)
  <2>1. o[f] \in 1 .. Len(source) /\ NameAt(program, f) = FunctionName(source, o[f])
        /\ Kind(source, o[f]) \in Functions
    BY FunctionFrom
  <2>2. CASE Kind(source, o[f]) = "function"
    BY <1>1, <2>1, <2>2, KindsOfLines, ProgramAssumption DEF FunctionName, NameAt
  <2>3. CASE Kind(source, o[f]) # "function"
    <3>1. PICK c \in Names, y \in Names \cup {"constructor"} :
            FunctionName(source, o[f]) = Qualified(c, y)
      BY <1>1, <2>1, <2>3, MemberName DEF Functions
    <3> QED
      BY <2>1, <3>1, ExpressionsAssumption
  <2> QED
    BY <2>2, <2>3
<1> QED
  BY <1>2, <1>3

\* A global or a local of the module is a variable or a parameter of the text.
LEMMA DeclaredThere ==
  ASSUME NEW o, NEW m, LoweredBy(o, m), NEW x
  PROVE  /\ x \in AllGlobals => x # "this" /\ Variables(x)
         /\ \A f \in 1 .. Len(program) : Kind(program, f) = "function" /\ x \in AllLocals(f) =>
              \/ x = "this" /\ Kind(source, o[f]) \in {"constructor", "method"}
              \/ x # "this" /\ Variables(x) /\ x \notin AllGlobals
<1>1. Tree(source) /\ "this" \notin Names
  BY LoweredFacts, ProgramAssumption
<1>2. ASSUME x \in AllGlobals PROVE x # "this" /\ Variables(x)
  <2>1. PICK d : GlobalIn(d) /\ d.name = x
    BY <1>2, GlobalNameIs
  <2> QED
    BY <1>1, <1>2, <2>1, GlobalNameIs, DeclaredAs DEF GlobalIn
<1>3. ASSUME NEW f \in 1 .. Len(program), Kind(program, f) = "function", x \in AllLocals(f),
             ~(x = "this" /\ Kind(source, o[f]) \in {"constructor", "method"})
      PROVE  x # "this" /\ Variables(x) /\ x \notin AllGlobals
  <2>1. PICK d : LocalIn(d) /\ d.name = x
    BY <1>3, LocalNameIs
  <2>2. x \in Names
    BY <1>3, LocalNameIs
  <2>3. ASSUME NEW e, GlobalIn(e), e.name = x PROVE FALSE
    <3>1. d # e /\ Kind(source, d.at) # "class" /\ d \in Declarations(source)
      BY <2>1, <2>3 DEF LocalIn, GlobalIn, IsVariable, IsParam, Functions
    <3> QED
      BY <2>1, <2>3, <3>1, Apartness
  <2>4. x \notin AllGlobals
    BY <2>3, GlobalNameIs
  <2> QED
    BY <1>1, <2>1, <2>2, <2>4, DeclaredAs DEF LocalIn
<1> QED
  BY <1>2, <1>3

\* What is declared after a line is no global there.
LEMMA DeclaredLater ==
  ASSUME NEW o, NEW m, LoweredBy(o, m), NEW k \in 1 .. Len(program),
         NEW d \in Declarations(program), d.body = 0, k < d.at
  PROVE  /\ d.name \notin GlobalNames(program, k + 1)
         /\ d.name \in AllGlobals \/ ~Variables(d.name) \/ d.name \notin Names
         /\ d.name # "this"
<1> DEFINE l == d.at
<1>1. /\ LoweredText(program) /\ Len(program) \in Nat /\ DOMAIN program = 1 .. Len(program)
      /\ Tree(source) /\ Accepted(source) /\ k \in Nat /\ Sequence(program)
      /\ Traced(source, program, o, m, Len(source))
  BY LoweredFacts DEF LoweredBy
<1>2. /\ l \in 1 .. Len(program) /\ d.name = NameAt(program, l)
      /\ Kind(program, l) = "function" \/ (Kind(program, l) = "variable" /\ Unowned(program, l))
  BY <1>1, ProgramDeclares
<1>6. l > k
  BY <1>1, <1>2
<1> HIDE DEF l
<1>3. GlobalNames(program, k + 1) \subseteq AllGlobals
  <2>1. \A j : j \in 1 .. (k + 1) - 1 => j \in 1 .. (Len(program) + 1) - 1
    BY <1>1
  <2> QED
    BY <2>1 DEF GlobalNames, AllGlobals
<1>4. CASE Kind(program, l) = "function"
  <2>1. d.name # "this" /\ (d.name \in Names => DeclaredBy(d.name, {"function"}))
    BY <1>2, <1>4, NamedFunction
  <2>2. d.name \in Names => ~Variables(d.name)
    BY <2>1, FunctionsAlone
  <2>3. d.name \notin AllGlobals
    BY <2>2, DeclaredThere, GlobalNameIs
  <2> QED
    BY <1>3, <2>1, <2>2, <2>3
<1>5. CASE Kind(program, l) = "variable" /\ Unowned(program, l)
  <2>1. l \in 1 .. (Len(program) + 1) - 1
    BY <1>1, <1>2
  <2>2. d.name \in AllGlobals
    BY <1>2, <1>5, <2>1 DEF AllGlobals, GlobalNames
  <2>3. d.name # "this"
    BY <2>2, DeclaredThere
  <2>5. d.name \notin GlobalNames(program, l)
    BY <1>1, <1>2, <1>5, GlobalFree
  <2>6. GlobalNames(program, k + 1) \subseteq GlobalNames(program, l)
    <3>1. \A j : j \in 1 .. (k + 1) - 1 => j \in 1 .. l - 1
      BY <1>1, <1>2, <1>6
    <3> QED
      BY <3>1 DEF GlobalNames
  <2> QED
    BY <2>2, <2>3, <2>5, <2>6
<1> QED
  BY <1>2, <1>4, <1>5

\* What is explained is not there.
LEMMA ValueMissing ==
  ASSUME NEW o, NEW m, ModuleOf(o, m), NEW k \in 1 .. Len(program), NEW r,
         EmittedAt(program, k, r), r.kind # "Call", DanglingValue(r)
  PROVE  ~ModuleHas(r)
<1> SUFFICES ASSUME ModuleHas(r) PROVE FALSE
  OBVIOUS
<1> DEFINE x == r.name
           f == FunctionOf(program, k)
<1>1. /\ Tree(source) /\ LoweredBy(o, m) /\ LoweredText(program) /\ Len(program) \in Nat /\ k \in Nat
  BY LoweredFacts DEF ModuleOf
<1>2. /\ r.in = f /\ r.at = k
      /\ r.kind = IF x \in GlobalNames(program, k + 1) THEN "Global" ELSE "Local"
  BY DEF EmittedAt
<1>3. f # 0 => Owned(program, f, k)
  BY <1>1, FunctionAround
<1>4. f # 0 => /\ f \in 1 .. Len(program) /\ Kind(program, f) = "function"
               /\ module[f] = AllLocals(f)
  <2> SUFFICES ASSUME f # 0
               PROVE  /\ f \in 1 .. Len(program) /\ Kind(program, f) = "function"
                      /\ module[f] = AllLocals(f)
    OBVIOUS
  <2>1. f \in 1 .. k - 1 /\ Kind(program, f) = "function"
    BY <1>3 DEF Owned
  <2>2. f \in 1 .. Len(program)
    BY <1>1, <2>1
  <2> QED
    BY <2>1, <2>2 DEF ModuleOf
<1> HIDE DEF f
<1>5. /\ x \in GlobalNames(program, k + 1) => x \in AllGlobals
      /\ x \notin GlobalNames(program, k + 1) => f # 0 /\ x \in AllLocals(f)
  BY <1>2, <1>4 DEF ModuleOf, ModuleHas
<1>6. \/ x # "this" /\ Variables(x)
      \/ f # 0 /\ x = "this" /\ Kind(source, o[f]) \in {"constructor", "method"}
  BY <1>1, <1>4, <1>5, DeclaredThere
<1>7. CASE DeclaredBy(x, {"function"}) \/ (DeclaredBy(x, {"class"}) /\ ~Variables(x))
  <2>1. x \in Names
    BY <1>1, <1>7, DeclaredAs
  <2>2. Variables(x)
    BY <1>6, <2>1, ProgramAssumption
  <2> QED
    BY <1>1, <1>7, <2>2, FunctionsAlone
<1>8. CASE \E d \in Declarations(program) : d.name = x /\ d.body = 0 /\ r.at < d.at
  <2>1. PICK d \in Declarations(program) : d.name = x /\ d.body = 0 /\ k < d.at
    BY <1>2, <1>8
  <2>2. /\ x \notin GlobalNames(program, k + 1) /\ x # "this"
        /\ x \in AllGlobals \/ ~Variables(x) \/ x \notin Names
    BY <1>1, <2>1, DeclaredLater
  <2>3. f # 0 /\ x \in AllLocals(f)
    BY <1>5, <2>2
  <2>4. Variables(x) /\ x \notin AllGlobals
    BY <1>1, <1>4, <2>1, <2>2, <2>3, DeclaredThere
  <2>5. x \in Names
    BY <1>1, <2>4, DeclaredAs
  <2> QED
    BY <2>2, <2>4, <2>5
<1>9. CASE x = "this" /\ (r.in = 0 \/ DeclaredBy(program[r.in].node.name, {"function"}))
  <2>1. f # 0 /\ Kind(source, o[f]) \in {"constructor", "method"}
        /\ DeclaredBy(NameAt(program, f), {"function"})
    BY <1>2, <1>6, <1>9 DEF NameAt
  <2>2. NameAt(program, f) \in Names
    BY <1>1, <2>1, DeclaredAs
  <2>3. Kind(source, o[f]) = "function"
    BY <1>1, <1>4, <2>1, <2>2, FunctionFrom
  <2> QED
    BY <2>1, <2>3
<1> QED
  BY <1>7, <1>8, <1>9 DEF DanglingValue

FunctionNames == {program[f].node.name : f \in DOMAIN module \ {0}}

LEMMA FunctionNamesAre ==
  ASSUME NEW o, NEW m, ModuleOf(o, m)
  PROVE  /\ \A i \in 1 .. Len(source) :
              Kind(source, i) \in Functions => FunctionName(source, i) \in FunctionNames
         /\ \A x \in FunctionNames : \E f \in 1 .. Len(program) :
              Kind(program, f) = "function" /\ x = NameAt(program, f)
<1> DEFINE F == {f \in 1 .. Len(program) : Kind(program, f) = "function"}
<1>1. LoweredBy(o, m) /\ DOMAIN module = {0} \cup F
  BY DEF ModuleOf
<1>2. 0 \notin F
  <2>1. Len(program) \in Nat
    BY <1>1, LoweredFacts
  <2> QED
    BY <2>1
<1>3. FunctionNames = {NameAt(program, f) : f \in F}
  BY <1>1, <1>2 DEF FunctionNames, NameAt
<1> QED
  BY <1>1, <1>3, FunctionThere

\* A function of the text is one of the module.
LEMMA FunctionFound ==
  ASSUME NEW o, NEW m, ModuleOf(o, m), NEW x, DeclaredBy(x, {"function"})
  PROVE  x \in FunctionNames
<1>1. Tree(source)
  BY LoweredFacts DEF ModuleOf
<1>2. PICK d \in Declarations(source) :
        d.name = x /\ IsName(source, d) /\ Kind(source, d.at) = "function"
  BY <1>1, DeclaredAs
<1>3. d.at \in 1 .. Len(source) /\ x = NameAt(source, d.at)
  BY <1>1, <1>2, DeclarationFields
<1>4. FunctionName(source, d.at) = x
  BY <1>2, <1>3 DEF FunctionName
<1> QED
  BY <1>2, <1>3, <1>4, FunctionNamesAre DEF Functions

\* A class has constructors if and only if the module has one by its name.
LEMMA ConstructorFound ==
  ASSUME NEW o, NEW m, ModuleOf(o, m), NEW c \in Names
  PROVE  Qualified(c, "constructor") \in FunctionNames
           <=> \E j \in ClassLines(c) : MembersIn(j, "constructor") # {}
<1>1. /\ Tree(source) /\ LoweredBy(o, m) /\ DOMAIN source = 1 .. Len(source)
      /\ Len(source) \in Nat
  BY LoweredFacts DEF ModuleOf
<1>2. ASSUME NEW j \in ClassLines(c), MembersIn(j, "constructor") # {}
      PROVE  Qualified(c, "constructor") \in FunctionNames
  <2>1. j \in 1 .. Len(source) /\ Kind(source, j) = "class" /\ NameAt(source, j) = c
    BY <1>1 DEF ClassLines, Kind, NameAt
  <2>2. PICK i \in 1 .. Len(source) : Kind(source, i) = "constructor" /\ Within(source, i, j)
    BY <1>1, <1>2 DEF MembersIn, Kind
  <2>3. j \in Nat /\ j # 0
    BY <1>1, <2>1
  <2>4. Encloses(source, j, i)
    BY <1>1, <2>2, <2>3, WithinMeans
  <2>5. j \in 1 .. i - 1
    BY <2>4 DEF Encloses
  <2>6. ClassOf(source, i) = j
    BY <1>1, <2>1, <2>4, <2>5, ClassOfIs
  <2>7. FunctionName(source, i) = Qualified(c, "constructor")
    BY <2>1, <2>2, <2>6 DEF FunctionName, ClassName
  <2> QED
    BY <2>2, <2>7, FunctionNamesAre DEF Functions
<1>3. ASSUME Qualified(c, "constructor") \in FunctionNames
      PROVE  \E j \in ClassLines(c) : MembersIn(j, "constructor") # {}
  <2>1. PICK f \in 1 .. Len(program) :
          Kind(program, f) = "function" /\ Qualified(c, "constructor") = NameAt(program, f)
    BY <1>3, FunctionNamesAre
  <2> DEFINE i == o[f]
  <2>2. /\ i \in 1 .. Len(source) /\ Kind(source, i) \in Functions
        /\ FunctionName(source, i) = Qualified(c, "constructor")
    BY <1>1, <2>1, FunctionFrom
  <2> HIDE DEF i
  <2>3. Kind(source, i) # "function"
    <3>1. Kind(source, i) = "function" => FunctionName(source, i) \in Names
      BY <1>1, <2>2, KindsOfLines DEF FunctionName, NameAt
    <3> QED
      BY <2>2, <3>1, QualifiedAssumption
  <2>4. Kind(source, i) \in {"constructor", "method"}
    BY <2>2, <2>3 DEF Functions
  <2>5. Kind(source, i) = "constructor" /\ ClassName(source, i) = c
    <3> DEFINE y == IF Kind(source, i) = "constructor" THEN "constructor" ELSE NameAt(source, i)
    <3>1. /\ FunctionName(source, i) = Qualified(ClassName(source, i), y)
          /\ ClassName(source, i) \in Names /\ y \in Names \cup {"constructor"}
      BY <1>1, <2>2, <2>4, MemberName
    <3> HIDE DEF y
    <3>2. ClassName(source, i) = c /\ y = "constructor"
      BY <2>2, <3>1, QualifiedAssumption
    <3>3. Kind(source, i) # "method"
      <4>1. Kind(source, i) = "method" => NameAt(source, i) \in Names
        BY <1>1, <2>2, NamesOfMembers
      <4> QED
        BY <3>2, <4>1, ProgramAssumption DEF y
    <3> QED
      BY <2>4, <3>2, <3>3
  <2> DEFINE j == ClassOf(source, i)
  <2>6. j # 0 /\ j \in 1 .. Len(source)
    BY <1>1, <2>2, <2>5, ClassOfMember DEF Members
  <2>7. Kind(source, j) = "class" /\ Encloses(source, j, i)
    BY <1>1, <2>2, <2>6, ClassOfIs
  <2>8. j \in Nat /\ Within(source, i, j)
    BY <1>1, <2>2, <2>6, <2>7, WithinMeans
  <2>9. NameAt(source, j) = c
    BY <2>5 DEF ClassName
  <2> HIDE DEF j
  <2>10. j \in ClassLines(c)
    BY <1>1, <2>6, <2>7, <2>9 DEF ClassLines, Kind, NameAt
  <2>11. MembersIn(j, "constructor") # {}
    BY <1>1, <2>2, <2>5, <2>8 DEF MembersIn, Kind
  <2> QED
    BY <2>10, <2>11
<1> QED
  BY <1>2, <1>3

\* What is called and not explained is there.
LEMMA CallThere ==
  ASSUME NEW o, NEW m, ModuleOf(o, m), NEW k \in 1 .. Len(program), NEW r,
         EmittedAt(program, k, r), r.kind = "Call", ~DanglingCall(r), ~Unchecked(r)
  PROVE  r.name \in Runtime \cup FunctionNames
<1> DEFINE x == r.name
<1>1. Tree(source) /\ LoweredBy(o, m) /\ DOMAIN source = 1 .. Len(source)
  BY LoweredFacts DEF ModuleOf
<1>2. /\ Kind(program, k) \in {"variable", "expression", "branch"}
      /\ Generates(program[k].node.expr) /\ x \in Called(program[k].node.expr)
  BY DEF EmittedAt
<1>3. x \in Runtime \/ Written(o, m, k, x) \/ MemberOf(x) \/ DeclaredBy(x, {"function"})
  BY <1>1, <1>2, EmittedNames DEF DanglingCall
<1>4. CASE Written(o, m, k, x)
  <2>1. k \in m /\ o[k] \in 1 .. Len(source) /\ x \in Mentions(source[o[k]].node.expr)
    BY <1>1, <1>4, LoweredFacts DEF Written, Unchecked
  <2>2. ~Variables(x) /\ (DeclaredBy(x, {"class"}) => DeclaredBy(x, {"function"}))
    BY DEF DanglingCall
  <2>3. \A d : (GlobalIn(d) \/ LocalIn(d)) /\ d.name = x => Variables(x)
    BY <1>1, DeclaredAs DEF GlobalIn, LocalIn
  <2>4. DeclaredBy(x, {"function"})
    BY <1>1, <1>2, <2>1, <2>2, <2>3, MentionMeans
  <2> QED
    BY <2>4, FunctionFound
<1>5. CASE MemberOf(x)
  <2>1. PICK c : /\ HasClass(source, c)
                 /\ \/ x = Qualified(c, "constructor")
                    \/ \E y : x = Qualified(c, y) /\ MethodIn(source, c, y)
    BY <1>5 DEF MemberOf
  <2>2. CASE x = Qualified(c, "constructor")
    <3>1. PICK i \in 1 .. Len(source) : source[i].node.kind = "class" /\ source[i].node.name = c
      BY <2>1 DEF HasClass, Kind, NameAt
    <3>2. \E j \in ClassLines(c) : MembersIn(j, "constructor") # {}
      BY <1>1, <2>2, <3>1 DEF DanglingCall
    <3> QED
      BY <1>1, <2>1, <2>2, <3>2, ClassNames, ConstructorFound
  <2>3. CASE \E y : x = Qualified(c, y) /\ MethodIn(source, c, y)
    <3>1. PICK y : x = Qualified(c, y) /\ MethodIn(source, c, y)
      BY <2>3
    <3>2. PICK j \in 1 .. Len(source) :
            Kind(source, j) = "method" /\ NameAt(source, j) = y /\ ClassName(source, j) = c
      BY <3>1 DEF MethodIn
    <3>3. FunctionName(source, j) = x
      BY <3>1, <3>2 DEF FunctionName
    <3> QED
      BY <3>2, <3>3, FunctionNamesAre DEF Functions
  <2> QED
    BY <2>1, <2>2, <2>3
<1>6. CASE DeclaredBy(x, {"function"})
  BY <1>6, FunctionFound
<1> QED
  BY <1>3, <1>4, <1>5, <1>6

\* What is called and explained is not there.
LEMMA CallMissing ==
  ASSUME NEW o, NEW m, ModuleOf(o, m), NEW r, DanglingCall(r)
  PROVE  r.name \notin Runtime \cup FunctionNames
<1> DEFINE x == r.name
<1>1. Tree(source) /\ LoweredBy(o, m) /\ DOMAIN source = 1 .. Len(source)
  BY LoweredFacts DEF ModuleOf
<1>2. x \in FunctionNames /\ x \in Names \cup {"arrayAt"} => DeclaredBy(x, {"function"})
  BY <1>1, FunctionNamesAre, NamedFunction
<1>3. CASE Variables(x)
  <2>1. x \in Names
    BY <1>1, <1>3, DeclaredAs
  <2> QED
    BY <1>1, <1>2, <1>3, <2>1, FunctionsAlone, ExpressionsAssumption
<1>6. CASE x = "this"
  <2>1. x \notin FunctionNames
    BY <1>1, <1>6, FunctionNamesAre, NamedFunction
  <2> QED
    BY <1>6, <2>1 DEF Runtime
<1>4. CASE DeclaredBy(x, {"class"}) /\ ~DeclaredBy(x, {"function"})
  <2>1. x \in Names
    BY <1>1, <1>4, DeclaredAs
  <2> QED
    BY <1>2, <1>4, <2>1, ExpressionsAssumption
<1>5. CASE \E k \in DOMAIN source :
             /\ source[k].node.kind = "class"
             /\ x = Qualified(source[k].node.name, "constructor")
             /\ \A j \in ClassLines(source[k].node.name) : MembersIn(j, "constructor") = {}
  <2>1. PICK k \in DOMAIN source :
             /\ source[k].node.kind = "class"
             /\ x = Qualified(source[k].node.name, "constructor")
             /\ \A j \in ClassLines(source[k].node.name) : MembersIn(j, "constructor") = {}
    BY <1>5
  <2>2. source[k].node.name \in Names
    BY <1>1, <2>1, KindsOfLines DEF Kind
  <2>3. x \notin FunctionNames
    BY <2>1, <2>2, ConstructorFound
  <2>4. x \notin Runtime
    BY <2>1, <2>2, ExpressionsAssumption
  <2> QED
    BY <2>3, <2>4
<1>7. CASE x = "arrayAt" /\ ~DeclaredBy("arrayAt", {"function"})
  BY <1>2, <1>7 DEF Runtime
<1> QED
  BY <1>3, <1>4, <1>5, <1>6, <1>7 DEF DanglingCall

-----------------------------------------------------------------------------
(* What the invariant says of the runs' properties.                         *)

LEMMA InvTypes == CodegenInv => TypeOK
<1> SUFFICES ASSUME CodegenInv PROVE TypeOK
  OBVIOUS
<1>1. CASE Analysing
  <2>1. SemTypeOK
    BY <1>1, SemInvTypes DEF Analysing
  <2>2. Len(open) \in Nat
    <3>1. Typed
      BY <1>1 DEF Analysing, SemInv
    <3>2. CASE phase \in {"parse", "global", "accepted", "rejected"}
      BY <1>1, <3>2 DEF Analysing, SemInv, Parsing, Declaring, Finished
    <3>3. CASE phase \in {"local", "panicked"}
      <4>1. open \in Seq(1 .. Len(program))
        BY <1>1, <3>3 DEF Analysing, SemInv, Walking, Path
      <4> QED
        BY <4>1
    <3> QED
      BY <3>1, <3>2, <3>3 DEF Typed
  <2> QED
    BY <1>1, <2>1, <2>2 DEF Analysing, Fresh, TypeOK
<1>2. CASE BeingLowered
  <2>1. open = <<>> /\ Len(<<>>) = 0
    BY <1>2 DEF BeingLowered
  <2> QED
    BY <1>2, <2>1 DEF BeingLowered, Fresh, TypeOK
<1>3. CASE BeingGenerated
  <2>1. /\ Generating /\ symbols \in Seq(Tables) /\ pending \in 0 .. Len(open)
        /\ DOMAIN module \subseteq {0} \cup 1 .. Len(program)
    BY <1>3, GenFacts DEF BeingGenerated, Generating
  <2>2. DOMAIN program = 1 .. Len(program)
    BY <1>3, TextFacts DEF BeingGenerated
  <2> QED
    BY <1>3, <2>1, <2>2, TablesTyped DEF BeingGenerated, TypeOK
<1>4. CASE Stopped
  <2>1. DOMAIN program = 1 .. Len(program)
    BY <1>4, TextFacts DEF Stopped
  <2> QED
    BY <1>4, <2>1, TablesTyped DEF Stopped, TypeOK
<1> QED
  BY <1>1, <1>2, <1>3, <1>4 DEF CodegenInv

LEMMA StoppedThere ==
  CodegenInv /\ output \in {"module", "unreachable", "unwrapped"} => Stopped
BY DEF CodegenInv, Analysing, BeingLowered, BeingGenerated, Fresh

LEMMA InvRedeclared == CodegenInv => RedeclarationsExplained
<1>1. DeclaredTwice <=> Twice(source)
  BY DEF DeclaredTwice, Twice, BodyFunction, Kind
<1> QED
  BY <1>1, StoppedThere DEF Stopped, RedeclarationsExplained

LEMMA InvTopLevel == CodegenInv => TopLevelExplained
<1> SUFFICES ASSUME Stopped PROVE TopLevelExplained
  BY StoppedThere DEF TopLevelExplained
<1>1. DOMAIN source = 1 .. Len(source)
  BY TreeLines DEF Stopped, Accepted
<1>2. TopLevelCode <=> TopCode(source)
  BY <1>1 DEF TopLevelCode, TopCode, Kind
<1> QED
  BY <1>2 DEF Stopped, TopLevelExplained

LEMMA InvUnique == CodegenInv => FunctionsUnique
<1> SUFFICES ASSUME Stopped, output = "module" PROVE FunctionsUnique
  BY StoppedThere DEF FunctionsUnique
<1> DEFINE F == {f \in 1 .. Len(program) : Kind(program, f) = "function"}
<1>1. Accepted(source) /\ LoweredFrom(source, program) /\ DOMAIN module = {0} \cup F
  BY DEF Stopped
<1>2. DOMAIN module \ {0} = F
  BY <1>1
<1>3. DOMAIN source = 1 .. Len(source)
  BY <1>1, TreeLines DEF Accepted
<1>4. \A f : program[f].node.name = NameAt(program, f)
  BY DEF NameAt
<1>5. (\E f, g \in F : f # g /\ NameAt(program, f) = NameAt(program, g))
        <=> \E j, k \in 1 .. Len(source) : SameMember(source, j, k)
  BY <1>1, NamesUnique
<1>6. \A j, k : SameMember(source, j, k) <=>
                  /\ j # k /\ source[j].node.kind \in {"constructor", "method"}
                  /\ source[k].node.kind = source[j].node.kind
                  /\ source[k].node.name = source[j].node.name
                  /\ ClassAt(k) = ClassAt(j)
  BY DEF SameMember, Kind, NameAt, ClassName, ClassAt
<1> HIDE DEF F
<1> QED
  BY <1>2, <1>3, <1>4, <1>5, <1>6 DEF FunctionsUnique

LEMMA InvDangling == CodegenInv /\ EmitInv => DanglingExplained
<1> SUFFICES ASSUME CodegenInv, EmitInv, output = "module" PROVE DanglingExplained
  BY DEF DanglingExplained
<1>1. /\ Accepted(source) /\ LoweredFrom(source, program)
      /\ DOMAIN module = {0} \cup {f \in 1 .. Len(program) : Kind(program, f) = "function"}
  BY StoppedThere DEF Stopped
<1>2. PICK o, m :
        /\ Traced(source, program, o, m, Len(source))
        /\ \E B : AllBound(source, Len(source) + 1, B) /\ Translated(source, B, program, o, m)
  BY <1>1 DEF LoweredFrom, LoweredWith
<1>3. LoweredBy(o, m)
  BY <1>1, <1>2 DEF LoweredBy, LoweredFrom, LoweredWith
<1>4. /\ \A r \in emitted : \E k \in 1 .. next - 1 : EmittedAt(program, k, r)
      /\ next = Len(program) + 1 /\ ModuleOf(o, m)
  BY <1>1, <1>3 DEF EmitInv, ModuleOf, AllGlobals, AllLocals
<1>5. ASSUME NEW r \in emitted
      PROVE  \E k \in 1 .. Len(program) : EmittedAt(program, k, r)
  <2>1. PICK k \in 1 .. next - 1 : EmittedAt(program, k, r)
    BY <1>4
  <2>2. k \in 1 .. Len(program)
    <3>1. Len(program) \in Nat /\ next - 1 = Len(program)
      BY <1>3, <1>4, LoweredFacts
    <3> QED
      BY <3>1
  <2> QED
    BY <2>1, <2>2
<1>6. ASSUME NEW r \in emitted
      PROVE  r \in Dangling <=> IF r.kind = "Call" THEN r.name \notin Runtime \cup FunctionNames
                               ELSE ~ModuleHas(r)
  <2>1. r.kind \in {"Call", "Global", "Local"}
    BY <1>5 DEF EmittedAt
  <2> QED
    BY <2>1 DEF Dangling, FunctionNames, ModuleHas
<1> DEFINE explained == {r \in emitted : IF r.kind = "Call" THEN DanglingCall(r) ELSE DanglingValue(r)}
<1>7. ASSUME NEW r \in explained PROVE r \in Dangling
  <2>1. r \in emitted /\ IF r.kind = "Call" THEN DanglingCall(r) ELSE DanglingValue(r)
    OBVIOUS
  <2>2. PICK k \in 1 .. Len(program) : EmittedAt(program, k, r)
    BY <1>5, <2>1
  <2>3. CASE r.kind = "Call"
    BY <1>4, <1>6, <2>1, <2>3, CallMissing
  <2>4. CASE r.kind # "Call"
    BY <1>4, <1>6, <2>1, <2>2, <2>4, ValueMissing
  <2> QED
    BY <2>3, <2>4
<1>8. ASSUME NEW r \in Dangling \ explained PROVE Unchecked(r)
  <2> SUFFICES ASSUME ~Unchecked(r) PROVE FALSE
    OBVIOUS
  <2>1. r \in emitted /\ ~IF r.kind = "Call" THEN DanglingCall(r) ELSE DanglingValue(r)
    BY DEF Dangling
  <2>2. PICK k \in 1 .. Len(program) : EmittedAt(program, k, r)
    BY <1>5, <2>1
  <2>3. CASE r.kind = "Call"
    BY <1>4, <1>6, <2>1, <2>2, <2>3, CallThere
  <2>4. CASE r.kind # "Call"
    BY <1>4, <1>6, <2>1, <2>2, <2>4, ValueThere
  <2> QED
    BY <2>3, <2>4
<1> QED
  BY <1>7, <1>8 DEF DanglingExplained

\* TypeOK holds of every program and whatever expressions become: a finished module
\* has left every scope of symbols and of instructions (jswt-codegen/src/lib.rs:101).
THEOREM CodegenTyped == Spec => []TypeOK
BY CodegenHolds, InvTypes, PTL

\* RedeclarationsExplained holds of every program: the generator meets a name again
\* in a program that declares it twice in one function only, and in every such one.
THEOREM CodegenRedeclared == Spec => []RedeclarationsExplained
BY CodegenHolds, InvRedeclared, PTL

\* TopLevelExplained holds of every program: push_instruction finds no scope only
\* where there is code outside every function, and wherever there is such code.
THEOREM CodegenTopLevel == Spec => []TopLevelExplained
BY CodegenHolds, InvTopLevel, PTL

\* FunctionsUnique holds of every program: two functions of a module have one name
\* if and only if its text has two members of one kind, name and class.
THEOREM CodegenUnique == Spec => []FunctionsUnique
BY CodegenHolds, InvUnique, PTL

\* DanglingExplained holds of every program and whatever expressions become, as long
\* as the passes invent no names: what the code of a module gets, sets or calls is
\* declared in it, but for what the text explains and the arguments of new, and
\* none of what the text explains is.
THEOREM CodegenDangles == Spec => []DanglingExplained
BY EmitHolds, InvDangling, PTL
=============================================================================
