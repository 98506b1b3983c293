--------------------------- MODULE LoweringProofs ---------------------------
(***************************************************************************)
(* What the passes of Lowering keep of a text, whatever they make of its    *)
(* expressions: which line of the lowered program comes from which line of  *)
(* the text, and in which function it is.                                   *)
(***************************************************************************)
EXTENDS Lowering, SemanticsProofs

-----------------------------------------------------------------------------
(* Flattened sequences.                                                      *)

\* The function FlattenSeq is defined with, on the first n of the sequences.
IsFlattening(g, ss, n) ==
  g = [i \in 1 .. n |-> IF i = 1 THEN ss[i] ELSE g[i - 1] \o ss[i]]

LEMMA FlatteningExists ==
  ASSUME NEW ss, NEW n \in Nat
  PROVE  \E g : IsFlattening(g, ss, n)
<1> DEFINE Bad == {k \in Nat : ~\E g : IsFlattening(g, ss, k)}
<1>1. SUFFICES ASSUME Bad # {} PROVE FALSE
  OBVIOUS
<1>2. PICK k \in Bad : \A j \in Bad : k <= j
  BY <1>1, LeastNatural
<1>3. k # 0
  <2>1. IsFlattening([i \in 1 .. 0 |-> 0], ss, 0)
    BY DEF IsFlattening
  <2> QED
    BY <2>1, <1>2, Zenon
<1>4. k \in Nat /\ k - 1 \in Nat /\ k - 1 \notin Bad
  BY <1>2, <1>3
<1>5. PICK g : IsFlattening(g, ss, k - 1)
  BY <1>4
<1> DEFINE h == [i \in 1 .. k |-> IF i = 1 THEN ss[i] ELSE g[i - 1] \o ss[i]]
<1>6. \A i \in 1 .. k - 1 : h[i] = g[i]
  <2>1. \A i \in 1 .. k - 1 : g[i] = IF i = 1 THEN ss[i] ELSE g[i - 1] \o ss[i]
    BY <1>5, Zenon DEF IsFlattening
  <2>2. \A i \in 1 .. k - 1 : i \in 1 .. k
    BY <1>4
  <2> QED
    BY <2>1, <2>2, Zenon
<1>7. \A i \in 1 .. k : i # 1 => i - 1 \in 1 .. k - 1
  BY <1>4
<1>8. \A i \in 1 .. k : h[i] = IF i = 1 THEN ss[i] ELSE h[i - 1] \o ss[i]
  BY <1>6, <1>7
<1>9. IsFlattening(h, ss, k)
  BY <1>8 DEF IsFlattening
<1> QED
  BY <1>9, <1>2, Zenon

LEMMA FlattenIs ==
  ASSUME NEW ss, Len(ss) \in Nat, Len(ss) # 0
  PROVE  \E g : IsFlattening(g, ss, Len(ss)) /\ FlattenSeq(ss) = g[Len(ss)]
<1> DEFINE n == Len(ss)
           f == CHOOSE g : IsFlattening(g, ss, n)
<1>1. IsFlattening(f, ss, n)
  BY FlatteningExists, Zenon
<1>2. f = CHOOSE g : g = [i \in 1 .. n |-> IF i = 1 THEN ss[i] ELSE g[i - 1] \o ss[i]]
  BY DEF IsFlattening
<1>3. FlattenSeq(ss) = f[n]
  BY <1>2 DEF FlattenSeq
<1> QED
  BY <1>1, <1>3, Zenon

LEMMA SameInterval == \A a, b \in Nat : 1 .. a = 1 .. b => a = b
<1> SUFFICES ASSUME NEW a \in Nat, NEW b \in Nat, 1 .. a = 1 .. b PROVE ~ a < b /\ ~ b < a
  OBVIOUS
<1>1. b \in 1 .. b <=> b \in 1 .. a
  OBVIOUS
<1>2. a \in 1 .. a <=> a \in 1 .. b
  OBVIOUS
<1> QED
  BY <1>1, <1>2

-----------------------------------------------------------------------------
(* Functions and classes around a line of the text.                          *)

\* FunctionOf is the one function, constructor or method around the line.
LEMMA FunctionOfIs ==
  ASSUME NEW p, Tree(p), NEW i \in 1 .. Len(p)
  PROVE  /\ FunctionOf(p, i) # 0 =>
              /\ FunctionOf(p, i) \in 1 .. i - 1 /\ Kind(p, FunctionOf(p, i)) \in Functions
              /\ Encloses(p, FunctionOf(p, i), i)
         /\ \A g \in 1 .. i - 1 :
              Kind(p, g) \in Functions /\ Encloses(p, g, i) => FunctionOf(p, i) = g
<1> DEFINE S == {f \in 1 .. i - 1 : p[f].node.kind \in Functions /\ Within(p, i, f)}
           T == {0} \cup S
<1>1. i \in Nat /\ i >= 1 /\ Len(p) \in Nat
  BY TreeLines
<1>2. T \subseteq Nat /\ T # {} /\ \A k \in T : k <= i
  BY <1>1
<1>3. Max(T) \in T /\ \A k \in T : k <= Max(T)
  BY <1>1, <1>2, MaxFacts
<1>4. FunctionOf(p, i) = Max(T)
  BY DEF FunctionOf
<1>5. \A g \in 1 .. i - 1 : Within(p, i, g) <=> Encloses(p, g, i)
  BY WithinMeans
<1>6. ASSUME Max(T) # 0
      PROVE  /\ Max(T) \in 1 .. i - 1 /\ Kind(p, Max(T)) \in Functions
             /\ Encloses(p, Max(T), i)
  BY <1>3, <1>5, <1>6 DEF Kind
<1>7. ASSUME NEW g \in 1 .. i - 1, Kind(p, g) \in Functions, Encloses(p, g, i)
      PROVE  Max(T) = g
  <2> DEFINE f == Max(T)
  <2>1. g \in T
    BY <1>5, <1>7 DEF Kind
  <2>2. f \in T /\ g <= f /\ g >= 1 /\ f \in Nat
    BY <2>1, <1>2, <1>3
  <2>3. f \in 1 .. i - 1 /\ Kind(p, f) \in Functions /\ Encloses(p, f, i)
    BY <2>2, <1>6
  <2> HIDE DEF f, T
  <2>4. SUFFICES ASSUME g < f PROVE FALSE
    BY <2>2 DEF f
  <2>5. Encloses(p, g, f) /\ Depth(p, g) < Depth(p, f) /\ f \in 1 .. Len(p) /\ g \in 1 .. Len(p)
    BY <2>3, <2>4, <1>1, <1>7, Nested
  <2>6. Kind(p, f) \in Members
    <3>1. Kind(p, f) # "function"
      BY <2>5, TreePlaced, TreeLines
    <3> QED
      BY <3>1, <2>3 DEF Functions, Members
  <2>7. Kind(p, g) = "class"
    BY <2>5, <2>6, ClassAroundMember
  <2> QED
    BY <2>7, <1>7 DEF Functions
<1> HIDE DEF T
<1> QED
  BY <1>4, <1>6, <1>7

LEMMA ClassOfIs ==
  ASSUME NEW p, Tree(p), NEW i \in 1 .. Len(p)
  PROVE  /\ ClassOf(p, i) # 0 =>
              /\ ClassOf(p, i) \in 1 .. i - 1 /\ Kind(p, ClassOf(p, i)) = "class"
              /\ Encloses(p, ClassOf(p, i), i)
         /\ \A c \in 1 .. i - 1 :
              Kind(p, c) = "class" /\ Encloses(p, c, i) => ClassOf(p, i) = c
<1> DEFINE S == {c \in 1 .. i - 1 : p[c].node.kind = "class" /\ Within(p, i, c)}
           T == {0} \cup S
<1>1. i \in Nat /\ i >= 1 /\ Len(p) \in Nat
  BY TreeLines
<1>2. T \subseteq Nat /\ T # {} /\ \A k \in T : k <= i
  BY <1>1
<1>3. Max(T) \in T /\ \A k \in T : k <= Max(T)
  BY <1>1, <1>2, MaxFacts
<1>4. ClassOf(p, i) = Max(T)
  BY DEF ClassOf
<1>5. \A c \in 1 .. i - 1 : Within(p, i, c) <=> Encloses(p, c, i)
  BY WithinMeans
<1>6. ASSUME Max(T) # 0
      PROVE  /\ Max(T) \in 1 .. i - 1 /\ Kind(p, Max(T)) = "class"
             /\ Encloses(p, Max(T), i)
  BY <1>3, <1>5, <1>6 DEF Kind
<1>7. ASSUME NEW g \in 1 .. i - 1, Kind(p, g) = "class", Encloses(p, g, i)
      PROVE  Max(T) = g
  <2> DEFINE f == Max(T)
  <2>1. g \in T
    BY <1>5, <1>7 DEF Kind
  <2>2. f \in T /\ g <= f /\ g >= 1 /\ f \in Nat
    BY <2>1, <1>2, <1>3
  <2>3. f \in 1 .. i - 1 /\ Kind(p, f) = "class" /\ Encloses(p, f, i)
    BY <2>2, <1>6
  <2> HIDE DEF f, T
  <2>4. f \in 1 .. Len(p) /\ g \in 1 .. Len(p)
    BY <2>3, <1>1
  <2>5. Depth(p, g) = 1 /\ Depth(p, f) = 1
    BY <2>3, <2>4, <1>7, TreePlaced
  <2> QED
    BY <2>3, <2>5, <1>7, Nested DEF f
<1> HIDE DEF T
<1> QED
  BY <1>4, <1>6, <1>7

Statements == {"variable", "expression", "block", "branch"}

\* The depth a statement is lowered to.
LoweredDepth(p, i) == IF ClassOf(p, i) = 0 THEN Depth(p, i) ELSE Depth(p, i) - 1

\* Statements in a class are in a function, and lowering leaves what is in a
\* function below depth one.
LEMMA StatementPlaced ==
  ASSUME NEW p, Tree(p), NEW i \in 1 .. Len(p), Kind(p, i) \in Statements
  PROVE  /\ FunctionOf(p, i) = 0 => ClassOf(p, i) = 0 /\ LoweredDepth(p, i) = Depth(p, i)
         /\ FunctionOf(p, i) # 0 => LoweredDepth(p, i) > 1
         /\ LoweredDepth(p, i) \in Nat /\ LoweredDepth(p, i) >= 1
<1> DEFINE c == ClassOf(p, i)
           g == FunctionOf(p, i)
<1>1. Kind(p, i) \notin Members /\ Depth(p, i) \in Nat /\ Depth(p, i) >= 1 /\ Len(p) \in Nat
  BY TreeLines DEF Members, Statements
<1>2. ASSUME c # 0 PROVE g # 0
  <2>1. c \in 1 .. i - 1 /\ Kind(p, c) = "class" /\ Encloses(p, c, i)
    BY <1>2, ClassOfIs
  <2>2. PICK f \in 1 .. i - 1 : Encloses(p, f, i) /\ Kind(p, f) \in Functions
    BY <1>1, <2>1, InMember
  <2> QED
    BY <2>2, FunctionOfIs
<1>3. ASSUME g # 0 PROVE LoweredDepth(p, i) > 1
  <2>1. g \in 1 .. i - 1 /\ Kind(p, g) \in Functions /\ Encloses(p, g, i)
    BY <1>3, FunctionOfIs
  <2>2. g \in 1 .. Len(p) /\ Depth(p, g) < Depth(p, i) /\ Depth(p, g) \in Nat /\ Depth(p, g) >= 1
    <3>1. g \in 1 .. Len(p) /\ Depth(p, g) < Depth(p, i)
      BY <2>1, Nested
    <3> QED
      BY <3>1, TreeLines
  <2>3. CASE c = 0
    BY <2>2, <2>3, <1>1 DEF LoweredDepth
  <2>4. CASE c # 0
    <3>1. c \in 1 .. i - 1 /\ Kind(p, c) = "class" /\ Encloses(p, c, i)
      BY <2>4, ClassOfIs
    <3>2. c \in 1 .. Len(p) /\ Depth(p, c) = 1
      BY <3>1, <1>1, TreePlaced
    <3>3. Depth(p, g) # 1
      <4>1. SUFFICES ASSUME Depth(p, g) = 1 PROVE FALSE
        OBVIOUS
      <4>2. g = c
        BY <4>1, <3>1, <3>2, <2>1, Nested
      <4> QED
        BY <4>2, <2>1, <3>1 DEF Functions
    <3> QED
      BY <3>3, <2>2, <2>4, <1>1 DEF LoweredDepth
  <2> QED
    BY <2>3, <2>4
<1> QED
  BY <1>1, <1>2, <1>3 DEF LoweredDepth

-----------------------------------------------------------------------------
(* Where the lines of a lowered program come from.                           *)

\* Line k of lowered program q is in the body of function f.
Owned(q, f, k) ==
  /\ f \in 1 .. k - 1
  /\ Kind(q, f) = "function"
  /\ \A j \in f + 1 .. k : Depth(q, j) > 1

\* The function that line i of text p is lowered to.
ClassName(p, i) == NameAt(p, ClassOf(p, i))
FunctionName(p, i) ==
  CASE Kind(p, i) = "function" -> NameAt(p, i)
    [] Kind(p, i) = "constructor" -> Qualified(ClassName(p, i), "constructor")
    [] OTHER -> Qualified(ClassName(p, i), NameAt(p, i))
FunctionParams(p, i) ==
  IF Kind(p, i) = "method" THEN <<"this">> \o Params(p, i) ELSE Params(p, i)

\* Line k of q is what line o[k] of p is lowered to.
Kept(p, i) == Kind(p, i) \notin {"class", "field"}
FunctionImage(p, q, o, k) ==
  /\ Kind(q, k) = "function" /\ Depth(q, k) = 1
  /\ NameAt(q, k) = FunctionName(p, o[k])
  /\ Params(q, k) = FunctionParams(p, o[k])
StatementImage(p, q, o, m, k) ==
  /\ Kind(q, k) = Kind(p, o[k]) /\ NameAt(q, k) = NameAt(p, o[k])
  /\ Depth(q, k) >= 1
  /\ FunctionOf(p, o[k]) = 0 =>
       /\ Depth(q, k) = Depth(p, o[k])
       /\ \A f \in 1 .. k - 1 : ~Owned(q, f, k)
  /\ FunctionOf(p, o[k]) # 0 =>
       \E f \in m : o[f] = FunctionOf(p, o[k]) /\ Owned(q, f, k)
Image(p, q, o, m, k) ==
  /\ Kept(p, o[k])
  /\ IF Kind(p, o[k]) \in Functions THEN FunctionImage(p, q, o, k)
     ELSE StatementImage(p, q, o, m, k)

\* Line k of q was made up for constructor o[k].
Synthetic(p, q, o, m, k) ==
  /\ Kind(p, o[k]) = "constructor" /\ Depth(q, k) = 2
  /\ \E f \in m : /\ o[f] = o[k] /\ Owned(q, f, k)
                  /\ \/ Kind(q, k) = "expression"
                     \/ Kind(q, k) = "variable" /\ NameAt(q, k) = "this" /\ f = k - 1

WellFormed(l) ==
  /\ l = At(l.depth, Node(l.node.kind, l.node.name, l.node.params, l.node.expr))
  /\ l.depth \in Nat

\* q is what the first n lines of p are lowered to: line k of q comes from line
\* o[k] of p, and is its image if k is in m.
Traced(p, q, o, m, n) ==
  /\ o \in [1 .. Len(q) -> 1 .. n] /\ m \subseteq 1 .. Len(q)
  /\ \A k, l \in m : k < l => o[k] < o[l]
  /\ \A i \in 1 .. n : Kept(p, i) => \E k \in m : o[k] = i
  /\ \A k \in 1 .. Len(q) : WellFormed(q[k])
  /\ \A k \in m : Image(p, q, o, m, k)
  /\ \A k \in 1 .. Len(q) \ m : Synthetic(p, q, o, m, k)

\* The functions around what follows line n of p are open at the end of q.
Ongoing(p, q, o, m, n) ==
  \A g \in 1 .. n : Kind(p, g) \in Functions /\ (g = n \/ Encloses(p, g, n)) =>
    \E f \in m : o[f] = g /\ \A j \in f + 1 .. Len(q) : Depth(q, j) > 1

\* q2 is q with line s after it.
Longer(q, q2, s) ==
  /\ Len(q) \in Nat /\ Len(q2) = Len(q) + 1
  /\ \A k \in 1 .. Len(q) : q2[k] = q[k]
  /\ q2[Len(q) + 1] = s

LEMMA OwnedLonger ==
  ASSUME NEW q, NEW q2, NEW s, Longer(q, q2, s)
  PROVE  /\ \A k \in 1 .. Len(q) : \A f \in 1 .. k - 1 : Owned(q2, f, k) <=> Owned(q, f, k)
         /\ \A f \in 1 .. Len(q) :
              Owned(q2, f, Len(q) + 1) <=>
                /\ Kind(q, f) = "function" /\ s.depth > 1
                /\ \A j \in f + 1 .. Len(q) : Depth(q, j) > 1
<1>1. Len(q) \in Nat /\ q2[Len(q) + 1] = s /\ \A k \in 1 .. Len(q) : q2[k] = q[k]
  BY DEF Longer
<1>2. ASSUME NEW k \in 1 .. Len(q), NEW f \in 1 .. k - 1
      PROVE  Owned(q2, f, k) <=> Owned(q, f, k)
  <2>1. f \in 1 .. Len(q) /\ \A j \in f + 1 .. k : j \in 1 .. Len(q)
    BY <1>1
  <2>2. q2[f] = q[f] /\ \A j \in f + 1 .. k : q2[j] = q[j]
    BY <1>1, <2>1
  <2> QED
    BY <2>2 DEF Owned, Kind, Depth
<1>3. ASSUME NEW f \in 1 .. Len(q)
      PROVE  Owned(q2, f, Len(q) + 1) <=>
               /\ Kind(q, f) = "function" /\ s.depth > 1
               /\ \A j \in f + 1 .. Len(q) : Depth(q, j) > 1
  <2>1. f \in 1 .. (Len(q) + 1) - 1 /\ \A j \in f + 1 .. Len(q) : j \in 1 .. Len(q)
    BY <1>1
  <2>2. q2[f] = q[f] /\ \A j \in f + 1 .. Len(q) : q2[j] = q[j]
    BY <1>1, <2>1
  <2>3. \A j : j \in f + 1 .. Len(q) + 1 <=> j \in f + 1 .. Len(q) \/ j = Len(q) + 1
    BY <1>1
  <2> QED
    BY <1>1, <2>1, <2>2, <2>3 DEF Owned, Kind, Depth
<1> QED
  BY <1>2, <1>3

\* The lines of q are traced in q2 as they were.
LEMMA OldLines ==
  ASSUME NEW p, NEW q, NEW q2, NEW s, Longer(q, q2, s),
         NEW o, NEW m, NEW n \in Nat, Traced(p, q, o, m, n),
         NEW o2, \A k \in 1 .. Len(q) : o2[k] = o[k],
         NEW m2, m \subseteq m2
  PROVE  /\ \A k \in m : Image(p, q2, o2, m2, k)
         /\ \A k \in 1 .. Len(q) \ m : Synthetic(p, q2, o2, m2, k)
         /\ \A k \in 1 .. Len(q) : WellFormed(q2[k])
<1>1. /\ Len(q) \in Nat /\ \A k \in 1 .. Len(q) : q2[k] = q[k]
      /\ m \subseteq 1 .. Len(q)
  BY DEF Longer, Traced
<1>2. \A k \in 1 .. Len(q) : \A f \in 1 .. k - 1 : Owned(q2, f, k) <=> Owned(q, f, k)
  BY OwnedLonger
<1>3. ASSUME NEW k \in m
      PROVE  Image(p, q2, o2, m2, k)
  <2>1. Image(p, q, o, m, k) /\ k \in 1 .. Len(q) /\ q2[k] = q[k] /\ o2[k] = o[k]
    BY <1>1 DEF Traced
  <2>2. CASE Kind(p, o[k]) \in Functions
    BY <2>1, <2>2 DEF Image, FunctionImage, Kind, Depth, NameAt, Params
  <2>3. CASE Kind(p, o[k]) \notin Functions
    <3>1. StatementImage(p, q, o, m, k)
      BY <2>1, <2>3 DEF Image
    <3>2. ASSUME FunctionOf(p, o[k]) # 0
          PROVE  \E f \in m2 : o2[f] = FunctionOf(p, o[k]) /\ Owned(q2, f, k)
      <4>1. PICK f \in m : o[f] = FunctionOf(p, o[k]) /\ Owned(q, f, k)
        BY <3>1, <3>2 DEF StatementImage
      <4>2. f \in 1 .. k - 1 /\ f \in 1 .. Len(q) /\ f \in m2
        BY <4>1, <1>1 DEF Owned
      <4> QED
        BY <4>1, <4>2, <2>1, <1>2
    <3>3. FunctionOf(p, o[k]) = 0 => \A f \in 1 .. k - 1 : ~Owned(q2, f, k)
      BY <3>1, <2>1, <1>2 DEF StatementImage
    <3>4. StatementImage(p, q2, o2, m2, k)
      BY <3>1, <3>2, <3>3, <2>1 DEF StatementImage, Kind, Depth, NameAt
    <3> QED
      BY <3>4, <2>1, <2>3 DEF Image
  <2> QED
    BY <2>2, <2>3
<1>4. ASSUME NEW k \in 1 .. Len(q) \ m
      PROVE  Synthetic(p, q2, o2, m2, k)
  <2>1. Synthetic(p, q, o, m, k) /\ q2[k] = q[k] /\ o2[k] = o[k]
    BY <1>1 DEF Traced
  <2>2. PICK f \in m : /\ o[f] = o[k] /\ Owned(q, f, k)
                       /\ \/ Kind(q, k) = "expression"
                          \/ Kind(q, k) = "variable" /\ NameAt(q, k) = "this" /\ f = k - 1
    BY <2>1 DEF Synthetic
  <2>3. f \in 1 .. k - 1 /\ f \in 1 .. Len(q) /\ f \in m2
    BY <2>2, <1>1 DEF Owned
  <2>4. o2[f] = o2[k] /\ Owned(q2, f, k)
    BY <2>1, <2>2, <2>3, <1>2
  <2> QED
    BY <2>1, <2>2, <2>3, <2>4 DEF Synthetic, Kind, Depth, NameAt
<1>5. \A k \in 1 .. Len(q) : WellFormed(q2[k])
  BY <1>1 DEF Traced
<1> QED
  BY <1>3, <1>4, <1>5

\* One more line, from line i of p.
From(q, o, i) == [k \in 1 .. Len(q) + 1 |-> IF k <= Len(q) THEN o[k] ELSE i]

LEMMA FromIs ==
  ASSUME NEW q, Len(q) \in Nat, NEW o, NEW i
  PROVE  /\ \A k \in 1 .. Len(q) : From(q, o, i)[k] = o[k]
         /\ From(q, o, i)[Len(q) + 1] = i
         /\ DOMAIN From(q, o, i) = 1 .. Len(q) + 1
BY DEF From

LEMMA ImageAdded ==
  ASSUME NEW p, NEW q, NEW q2, NEW s, Longer(q, q2, s), WellFormed(s),
         NEW o, NEW m, NEW n \in Nat, Traced(p, q, o, m, n),
         Image(p, q2, From(q, o, n + 1), m \cup {Len(q) + 1}, Len(q) + 1)
  PROVE  Traced(p, q2, From(q, o, n + 1), m \cup {Len(q) + 1}, n + 1)
<1> DEFINE l == Len(q) + 1
           o2 == From(q, o, n + 1)
           m2 == m \cup {l}
<1>1. /\ Len(q) \in Nat /\ q2[l] = s /\ Len(q2) = l
      /\ m \subseteq 1 .. Len(q) /\ o \in [1 .. Len(q) -> 1 .. n]
  BY DEF Longer, Traced
<1>2. (\A k \in 1 .. Len(q) : o2[k] = o[k]) /\ o2[l] = n + 1 /\ DOMAIN o2 = 1 .. l
  BY <1>1, FromIs
<1>3. /\ \A k \in m : Image(p, q2, o2, m2, k)
      /\ \A k \in 1 .. Len(q) \ m : Synthetic(p, q2, o2, m2, k)
      /\ \A k \in 1 .. Len(q) : WellFormed(q2[k])
  <2>1. m \subseteq m2
    OBVIOUS
  <2> HIDE DEF o2, m2
  <2> QED
    BY <1>2, <2>1, OldLines
<1>4. o2 \in [1 .. Len(q2) -> 1 .. n + 1]
  BY <1>1 DEF From
<1> HIDE DEF o2
<1>5. \A k, h \in m2 : k < h => o2[k] < o2[h]
  <2> SUFFICES ASSUME NEW k \in m2, NEW h \in m2, k < h PROVE o2[k] < o2[h]
    OBVIOUS
  <2>1. k \in 1 .. Len(q) /\ k \in m
    BY <1>1
  <2>2. CASE h = l
    BY <2>1, <2>2, <1>1, <1>2
  <2>3. CASE h \in m
    BY <2>1, <2>3, <1>1, <1>2 DEF Traced
  <2> QED
    BY <2>2, <2>3
<1>6. ASSUME NEW i \in 1 .. n + 1, Kept(p, i)
      PROVE  \E k \in m2 : o2[k] = i
  <2>1. CASE i = n + 1
    BY <2>1, <1>2
  <2>2. CASE i # n + 1
    <3>1. i \in 1 .. n
      BY <2>2
    <3>2. PICK k \in m : o[k] = i
      BY <3>1, <1>6 DEF Traced
    <3> QED
      BY <3>2, <1>1, <1>2
  <2> QED
    BY <2>1, <2>2
<1>7. \A k \in 1 .. l : k = l \/ k \in 1 .. Len(q)
  BY <1>1
<1>8. \A k \in 1 .. Len(q2) : WellFormed(q2[k])
  BY <1>1, <1>3, <1>7
<1>9. \A k \in m2 : Image(p, q2, o2, m2, k)
  <2>1. Image(p, q2, o2, m2, l)
    BY DEF o2
  <2> QED
    BY <2>1, <1>3
<1>10. \A k \in 1 .. Len(q2) \ m2 : Synthetic(p, q2, o2, m2, k)
  BY <1>1, <1>3, <1>7
<1>11. m2 \subseteq 1 .. Len(q2)
  <2>1. l \in 1 .. Len(q2) /\ \A k \in 1 .. Len(q) : k \in 1 .. Len(q2)
    BY <1>1
  <2> QED
    BY <1>1, <2>1
<1>12. Traced(p, q2, o2, m2, n + 1)
  BY <1>4, <1>5, <1>6, <1>8, <1>9, <1>10, <1>11 DEF Traced
<1> QED
  BY <1>12 DEF o2

LEMMA SyntheticAdded ==
  ASSUME NEW p, NEW q, NEW q2, NEW s, Longer(q, q2, s), WellFormed(s),
         NEW o, NEW m, NEW n \in Nat, Traced(p, q, o, m, n), NEW i \in 1 .. n,
         Synthetic(p, q2, From(q, o, i), m, Len(q) + 1)
  PROVE  Traced(p, q2, From(q, o, i), m, n)
<1> DEFINE l == Len(q) + 1
           o2 == From(q, o, i)
<1>1. /\ Len(q) \in Nat /\ q2[l] = s /\ Len(q2) = l
      /\ m \subseteq 1 .. Len(q) /\ o \in [1 .. Len(q) -> 1 .. n]
  BY DEF Longer, Traced
<1>2. (\A k \in 1 .. Len(q) : o2[k] = o[k]) /\ o2[l] = i /\ DOMAIN o2 = 1 .. l
  BY <1>1, FromIs
<1>3. /\ \A k \in m : Image(p, q2, o2, m, k)
      /\ \A k \in 1 .. Len(q) \ m : Synthetic(p, q2, o2, m, k)
      /\ \A k \in 1 .. Len(q) : WellFormed(q2[k])
  <2> HIDE DEF o2
  <2> QED
    BY <1>2, OldLines
<1>4. o2 \in [1 .. Len(q2) -> 1 .. n]
  BY <1>1 DEF From
<1>5. Synthetic(p, q2, o2, m, l)
  OBVIOUS
<1> HIDE DEF o2
<1>6. \A k \in 1 .. l : k = l \/ k \in 1 .. Len(q)
  BY <1>1
<1>7. \A k, h \in m : k < h => o2[k] < o2[h]
  BY <1>1, <1>2 DEF Traced
<1>8. \A j \in 1 .. n : Kept(p, j) => \E k \in m : o2[k] = j
  BY <1>1, <1>2 DEF Traced
<1>9. \A k \in 1 .. Len(q2) \ m : Synthetic(p, q2, o2, m, k)
  BY <1>1, <1>3, <1>5, <1>6
<1>10. m \subseteq 1 .. Len(q2) /\ \A k \in 1 .. Len(q2) : WellFormed(q2[k])
  BY <1>1, <1>3, <1>6
<1>11. Traced(p, q2, o2, m, n)
  BY <1>3, <1>4, <1>7, <1>8, <1>9, <1>10 DEF Traced
<1> QED
  BY <1>11 DEF o2

\* A function that is open stays so until a line at depth one.
LEMMA StillOpen ==
  ASSUME NEW q, NEW q2, NEW s, Longer(q, q2, s), s.depth > 1,
         NEW f \in 1 .. Len(q), \A j \in f + 1 .. Len(q) : Depth(q, j) > 1
  PROVE  \A j \in f + 1 .. Len(q2) : Depth(q2, j) > 1
<1>1. /\ Len(q) \in Nat /\ Len(q2) = Len(q) + 1 /\ q2[Len(q) + 1] = s
      /\ \A k \in 1 .. Len(q) : q2[k] = q[k]
  BY DEF Longer
<1> TAKE j \in f + 1 .. Len(q2)
<1>2. CASE j = Len(q) + 1
  BY <1>1, <1>2 DEF Depth
<1>3. CASE j # Len(q) + 1
  BY <1>1, <1>3 DEF Depth
<1> QED
  BY <1>2, <1>3

LEMMA StillOngoing ==
  ASSUME NEW p, NEW q, NEW q2, NEW s, Longer(q, q2, s), s.depth > 1,
         NEW o, NEW m, m \subseteq 1 .. Len(q), NEW n \in Nat, Ongoing(p, q, o, m, n),
         NEW i
  PROVE  Ongoing(p, q2, From(q, o, i), m, n)
<1> DEFINE o2 == From(q, o, i)
<1> SUFFICES ASSUME NEW g \in 1 .. n, Kind(p, g) \in Functions, g = n \/ Encloses(p, g, n)
             PROVE  \E f \in m : o2[f] = g /\ \A j \in f + 1 .. Len(q2) : Depth(q2, j) > 1
  BY DEF Ongoing
<1>1. PICK f \in m : o[f] = g /\ \A j \in f + 1 .. Len(q) : Depth(q, j) > 1
  BY DEF Ongoing
<1>2. f \in 1 .. Len(q) /\ o2[f] = g
  BY <1>1, FromIs DEF Longer
<1>3. \A j \in f + 1 .. Len(q2) : Depth(q2, j) > 1
  BY <1>1, <1>2, StillOpen
<1> QED
  BY <1>1, <1>2, <1>3

LEMMA FunctionsApart ==
  ASSUME NEW p, Tree(p), NEW f \in 1 .. Len(p), Kind(p, f) \in Functions \cup {"class", "field"},
         NEW g, Encloses(p, g, f)
  PROVE  Kind(p, g) \notin Functions
<1>1. Depth(p, g) < Depth(p, f) /\ g \in 1 .. Len(p)
  BY Nested
<1>2. Depth(p, g) \in Nat /\ Depth(p, g) >= 1
  BY <1>1, TreeLines
<1>3. Kind(p, f) \in Members
  <2>1. Kind(p, f) \notin {"function", "class"}
    BY <1>1, <1>2, TreePlaced
  <2> QED
    BY <2>1 DEF Functions, Members
<1>4. Kind(p, g) = "class"
  BY <1>3, ClassAroundMember
<1> QED
  BY <1>4 DEF Functions

LEMMA FunctionAdded ==
  ASSUME NEW p, Tree(p), NEW n \in Nat, n + 1 \in 1 .. Len(p), Kind(p, n + 1) \in Functions,
         NEW q, NEW q2, NEW s, Longer(q, q2, s), WellFormed(s),
         s.depth = 1, s.node.kind = "function",
         s.node.name = FunctionName(p, n + 1), s.node.params = FunctionParams(p, n + 1),
         NEW o, NEW m, Traced(p, q, o, m, n)
  PROVE  LET o2 == From(q, o, n + 1)
             m2 == m \cup {Len(q) + 1}
         IN  Traced(p, q2, o2, m2, n + 1) /\ Ongoing(p, q2, o2, m2, n + 1)
<1> DEFINE l == Len(q) + 1
           o2 == From(q, o, n + 1)
           m2 == m \cup {l}
<1>1. Len(q) \in Nat /\ q2[l] = s /\ Len(q2) = l
  BY DEF Longer
<1>2. o2[l] = n + 1
  BY <1>1, FromIs
<1>3. Image(p, q2, o2, m2, l)
  <2>1. Kept(p, o2[l])
    BY <1>2 DEF Kept, Functions
  <2>2. FunctionImage(p, q2, o2, l)
    BY <1>1, <1>2 DEF FunctionImage, Kind, Depth, NameAt, Params
  <2> QED
    BY <2>1, <2>2, <1>2 DEF Image
<1>4. Traced(p, q2, o2, m2, n + 1)
  BY <1>3, ImageAdded
<1>5. Ongoing(p, q2, o2, m2, n + 1)
  <2> SUFFICES ASSUME NEW g \in 1 .. n + 1, Kind(p, g) \in Functions,
                      g = n + 1 \/ Encloses(p, g, n + 1)
               PROVE  \E f \in m2 : o2[f] = g /\ \A j \in f + 1 .. Len(q2) : Depth(q2, j) > 1
    BY DEF Ongoing
  <2>1. g = n + 1
    BY FunctionsApart
  <2>2. \A j \in l + 1 .. Len(q2) : Depth(q2, j) > 1
    BY <1>1
  <2>3. l \in m2
    OBVIOUS
  <2> QED
    BY <2>1, <2>2, <2>3, <1>2
<1> QED
  BY <1>4, <1>5

LEMMA ThisAdded ==
  ASSUME NEW p, Tree(p), NEW n \in 1 .. Len(p), Kind(p, n) = "constructor",
         NEW q, NEW q2, NEW s, Longer(q, q2, s), WellFormed(s),
         s.depth = 2, s.node.kind = "variable", s.node.name = "this",
         NEW o, NEW m, Traced(p, q, o, m, n), Ongoing(p, q, o, m, n),
         Len(q) \in m, o[Len(q)] = n
  PROVE  Traced(p, q2, From(q, o, n), m, n) /\ Ongoing(p, q2, From(q, o, n), m, n)
<1> DEFINE l == Len(q) + 1
           o2 == From(q, o, n)
<1>1. /\ Len(q) \in Nat /\ q2[l] = s /\ Len(q2) = l /\ Len(q) \in 1 .. Len(q)
      /\ m \subseteq 1 .. Len(q) /\ n \in Nat /\ n \in 1 .. n
      /\ \A k \in 1 .. Len(q) : q2[k] = q[k]
  BY TreeLines DEF Longer, Traced
<1>2. o2[l] = n /\ \A k \in 1 .. Len(q) : o2[k] = o[k]
  BY <1>1, FromIs
<1>3. Kind(q, Len(q)) = "function"
  <2>1. Image(p, q, o, m, Len(q))
    BY DEF Traced
  <2>2. Kind(p, o[Len(q)]) \in Functions
    BY DEF Functions
  <2> QED
    BY <2>1, <2>2 DEF Image, FunctionImage
<1>4. Owned(q2, Len(q), l)
  <2>1. \A j \in Len(q) + 1 .. Len(q) : Depth(q, j) > 1
    BY <1>1
  <2> QED
    BY <2>1, <1>1, <1>3, OwnedLonger
<1>5. Synthetic(p, q2, o2, m, l)
  <2>1. Depth(q2, l) = 2 /\ Kind(q2, l) = "variable" /\ NameAt(q2, l) = "this"
    BY <1>1 DEF Depth, Kind, NameAt
  <2>2. o2[Len(q)] = n /\ Len(q) = l - 1
    BY <1>1, <1>2
  <2> HIDE DEF l, o2
  <2> QED
    BY <2>1, <2>2, <1>2, <1>4 DEF Synthetic
<1>6. Traced(p, q2, o2, m, n)
  BY <1>1, <1>5, SyntheticAdded
<1>7. Ongoing(p, q2, o2, m, n)
  <2>1. n \in Nat /\ m \subseteq 1 .. Len(q) /\ s.depth > 1
    BY <1>1
  <2> QED
    BY <2>1, StillOngoing
<1> QED
  BY <1>6, <1>7

LEMMA ReturnAdded ==
  ASSUME NEW p, Tree(p), NEW n \in 1 .. Len(p),
         NEW g \in 1 .. n, Kind(p, g) = "constructor", g = n \/ Encloses(p, g, n),
         NEW q, NEW q2, NEW s, Longer(q, q2, s), WellFormed(s),
         s.depth = 2, s.node.kind = "expression",
         NEW o, NEW m, Traced(p, q, o, m, n), Ongoing(p, q, o, m, n)
  PROVE  Traced(p, q2, From(q, o, g), m, n) /\ Ongoing(p, q2, From(q, o, g), m, n)
<1> DEFINE l == Len(q) + 1
           o2 == From(q, o, g)
<1>1. /\ Len(q) \in Nat /\ q2[l] = s /\ Len(q2) = l
      /\ m \subseteq 1 .. Len(q) /\ n \in Nat
  BY TreeLines DEF Longer, Traced
<1>2. o2[l] = g /\ \A k \in 1 .. Len(q) : o2[k] = o[k]
  BY <1>1, FromIs
<1>3. Kind(p, g) \in Functions
  BY DEF Functions
<1>4. PICK f \in m : o[f] = g /\ \A j \in f + 1 .. Len(q) : Depth(q, j) > 1
  BY <1>3 DEF Ongoing
<1>5. Kind(q, f) = "function" /\ f \in 1 .. Len(q) /\ o2[f] = g
  <2>1. Image(p, q, o, m, f)
    BY DEF Traced
  <2> QED
    BY <2>1, <1>1, <1>2, <1>3, <1>4 DEF Image, FunctionImage
<1>6. Owned(q2, f, l)
  BY <1>4, <1>5, OwnedLonger
<1>7. Synthetic(p, q2, o2, m, l)
  <2>1. Depth(q2, l) = 2 /\ Kind(q2, l) = "expression"
    BY <1>1 DEF Depth, Kind
  <2> HIDE DEF l, o2
  <2> QED
    BY <2>1, <1>2, <1>5, <1>6 DEF Synthetic
<1>8. Traced(p, q2, o2, m, n)
  BY <1>1, <1>7, SyntheticAdded
<1>9. Ongoing(p, q2, o2, m, n)
  <2>1. n \in Nat /\ m \subseteq 1 .. Len(q) /\ s.depth > 1
    BY <1>1
  <2> QED
    BY <2>1, StillOngoing
<1> QED
  BY <1>8, <1>9

\* The function around a statement is open at the end of q, and none is when
\* there is none around it.
LEMMA NoneOpen ==
  ASSUME NEW p, Tree(p), NEW n \in Nat, n + 1 \in 1 .. Len(p), Kind(p, n + 1) \in Statements,
         FunctionOf(p, n + 1) = 0, Depth(p, n + 1) > 1,
         NEW q, NEW o, NEW m, Traced(p, q, o, m, n),
         NEW f \in 1 .. Len(q), Kind(q, f) = "function"
  PROVE  \E j \in f + 1 .. Len(q) : ~ Depth(q, j) > 1
<1> DEFINE i == n + 1
<1>1. Len(p) \in Nat /\ Depth(p, i) \in Nat /\ 1 \in 1 .. Depth(p, i) - 1
  BY TreeLines
<1>2. PICK b \in 1 .. i - 1 : Encloses(p, b, i) /\ Depth(p, b) = 1
  BY <1>1, Ancestor
<1>3. b \in 1 .. Len(p) /\ b \in 1 .. n /\ b < i
  BY <1>1, <1>2
<1>4. Kind(p, b) \notin Functions
  BY <1>2, FunctionOfIs, <1>1, <1>3
<1>5. Kind(p, b) # "class"
  <2>1. ClassOf(p, i) = 0
    BY StatementPlaced
  <2> QED
    BY <2>1, <1>2, <1>3, ClassOfIs
<1>6. Kind(p, b) # "field" /\ Kind(p, b) \in Statements
  <2>1. Depth(p, b) = 1
    BY <1>2
  <2>2. Kind(p, b) # "field"
    BY <2>1, <1>3, TreePlaced DEF Members
  <2> QED
    BY <2>2, <1>3, <1>4, <1>5, KindsOfLines DEF Functions, Statements
<1>7. FunctionOf(p, b) = 0
  <2> SUFFICES ASSUME FunctionOf(p, b) # 0 PROVE FALSE
    OBVIOUS
  <2> DEFINE g == FunctionOf(p, b)
  <2>1. Encloses(p, g, b)
    BY <1>3, FunctionOfIs
  <2>2. g \in 1 .. Len(p) /\ Depth(p, g) < Depth(p, b)
    BY <2>1, <1>3, Nested
  <2>3. Depth(p, g) >= 1 /\ Depth(p, g) \in Nat
    BY <2>2, TreeLines
  <2> QED
    BY <2>2, <2>3, <1>2
<1>8. PICK l \in m : o[l] = b
  BY <1>3, <1>4, <1>5, <1>6 DEF Traced, Kept
<1>9. Kind(q, l) # "function" /\ Depth(q, l) = 1 /\ l \in 1 .. Len(q)
  <2>1. Image(p, q, o, m, l) /\ l \in 1 .. Len(q)
    BY DEF Traced
  <2>2. StatementImage(p, q, o, m, l)
    BY <2>1, <1>4, <1>8 DEF Image
  <2> QED
    BY <2>1, <2>2, <1>2, <1>6, <1>7, <1>8 DEF StatementImage, Statements
<1>10. f \in m
  <2> SUFFICES ASSUME f \in 1 .. Len(q) \ m PROVE FALSE
    OBVIOUS
  <2>1. Synthetic(p, q, o, m, f)
    BY DEF Traced
  <2> QED
    BY <2>1 DEF Synthetic
<1>11. Kind(p, o[f]) \in Functions /\ o[f] \in 1 .. n
  <2>1. Image(p, q, o, m, f) /\ o[f] \in 1 .. n
    BY <1>10 DEF Traced
  <2>2. SUFFICES ASSUME Kind(p, o[f]) \notin Functions PROVE FALSE
    BY <2>1
  <2>3. Kind(q, f) = Kind(p, o[f])
    BY <2>1, <2>2 DEF Image, StatementImage
  <2> QED
    BY <2>2, <2>3 DEF Functions
<1>12. ~ l < f
  <2> SUFFICES ASSUME l < f PROVE FALSE
    OBVIOUS
  <2> DEFINE h == o[f]
  <2>1. b < h /\ h \in 1 .. n
    BY <1>8, <1>10, <1>11 DEF Traced
  <2> HIDE DEF h
  <2>2. Encloses(p, b, h)
    BY <2>1, <1>2, <1>3 DEF Encloses
  <2>3. h \in 1 .. Len(p)
    BY <2>1, <1>1
  <2>4. Depth(p, h) > 1
    BY <2>1, <2>2, <2>3, <1>2, Nested
  <2>5. Kind(p, h) \in Members
    <3>1. Kind(p, h) \in Functions
      BY <1>11 DEF h
    <3> QED
      BY <3>1, <2>3, <2>4, TreePlaced DEF Functions, Members
  <2> QED
    BY <2>2, <2>3, <2>5, <1>5, ClassAroundMember
<1>13. f # l /\ l \in Nat /\ f \in Nat
  BY <1>9
<1>14. l \in f + 1 .. Len(q)
  BY <1>9, <1>12, <1>13
<1> QED
  BY <1>9, <1>14

LEMMA StatementAdded ==
  ASSUME NEW p, Tree(p), NEW n \in Nat, n + 1 \in 1 .. Len(p), Kind(p, n + 1) \in Statements,
         NEW q, NEW q2, NEW s, Longer(q, q2, s), WellFormed(s),
         s.depth = LoweredDepth(p, n + 1),
         s.node.kind = Kind(p, n + 1), s.node.name = NameAt(p, n + 1),
         NEW o, NEW m, Traced(p, q, o, m, n), n # 0 => Ongoing(p, q, o, m, n)
  PROVE  LET o2 == From(q, o, n + 1)
             m2 == m \cup {Len(q) + 1}
         IN  Traced(p, q2, o2, m2, n + 1) /\ Ongoing(p, q2, o2, m2, n + 1)
<1> DEFINE l == Len(q) + 1
           i == n + 1
           o2 == From(q, o, i)
           m2 == m \cup {l}
<1>1. /\ Len(q) \in Nat /\ q2[l] = s /\ Len(q2) = l
      /\ m \subseteq 1 .. Len(q) /\ n \in Nat
      /\ Len(p) \in Nat /\ Depth(p, i) \in Nat /\ Depth(p, i) >= 1
  BY TreeLines DEF Longer, Traced
<1>2. o2[l] = i /\ \A k \in 1 .. Len(q) : o2[k] = o[k]
  BY <1>1, FromIs
<1>3. ASSUME NEW g \in 1 .. n, Kind(p, g) \in Functions, Encloses(p, g, i)
      PROVE  \E f \in m : o[f] = g /\ \A j \in f + 1 .. Len(q) : Depth(q, j) > 1
  <2>1. n # 0 /\ (g = n \/ Encloses(p, g, n))
    BY <1>3 DEF Encloses
  <2> QED
    BY <2>1, <1>3 DEF Ongoing
<1>4. /\ s.depth \in Nat /\ s.depth >= 1
      /\ FunctionOf(p, i) = 0 => s.depth = Depth(p, i)
      /\ FunctionOf(p, i) # 0 => s.depth > 1
  BY StatementPlaced
<1>5. ASSUME FunctionOf(p, i) # 0
      PROVE  \E f \in m : o2[f] = FunctionOf(p, i) /\ Owned(q2, f, l)
  <2> DEFINE g == FunctionOf(p, i)
  <2>1. g \in 1 .. n /\ Kind(p, g) \in Functions /\ Encloses(p, g, i)
    BY <1>5, FunctionOfIs
  <2>2. PICK f \in m : o[f] = g /\ \A j \in f + 1 .. Len(q) : Depth(q, j) > 1
    BY <2>1, <1>3
  <2>3. Image(p, q, o, m, f) /\ f \in 1 .. Len(q)
    BY <1>1 DEF Traced
  <2>4. Kind(q, f) = "function"
    BY <2>1, <2>2, <2>3 DEF Image, FunctionImage
  <2>5. Owned(q2, f, l)
    BY <2>2, <2>3, <2>4, <1>4, <1>5, OwnedLonger
  <2> QED
    BY <2>2, <2>3, <2>5, <1>2
<1>6. ASSUME FunctionOf(p, i) = 0, NEW f \in 1 .. l - 1
      PROVE  ~Owned(q2, f, l)
  <2> SUFFICES ASSUME Owned(q2, f, l) PROVE FALSE
    OBVIOUS
  <2>1. f \in 1 .. Len(q)
    BY <1>1
  <2>2. Kind(q, f) = "function" /\ s.depth > 1 /\ \A j \in f + 1 .. Len(q) : Depth(q, j) > 1
    BY <2>1, OwnedLonger
  <2> QED
    BY <2>1, <2>2, <1>4, <1>6, NoneOpen
<1>7. Image(p, q2, o2, m2, l)
  <2>1. Kind(p, i) \notin Functions \cup {"class", "field"}
    BY DEF Functions, Statements
  <2>2. Kind(q2, l) = Kind(p, i) /\ NameAt(q2, l) = NameAt(p, i) /\ Depth(q2, l) = s.depth
    BY <1>1 DEF Kind, NameAt, Depth
  <2> HIDE DEF l, o2, i
  <2>3. \A f \in m : f \in m2
    OBVIOUS
  <2> HIDE DEF m2
  <2>4. StatementImage(p, q2, o2, m2, l)
    BY <2>2, <2>3, <1>2, <1>4, <1>5, <1>6 DEF StatementImage
  <2> QED
    BY <2>1, <2>4, <1>2 DEF Image, Kept
<1>8. Traced(p, q2, o2, m2, i)
  BY <1>7, ImageAdded
<1>9. Ongoing(p, q2, o2, m2, i)
  <2> SUFFICES ASSUME NEW g \in 1 .. i, Kind(p, g) \in Functions, g = i \/ Encloses(p, g, i)
               PROVE  \E f \in m2 : o2[f] = g /\ \A j \in f + 1 .. Len(q2) : Depth(q2, j) > 1
    BY DEF Ongoing
  <2>1. g # i /\ g \in 1 .. n /\ Encloses(p, g, i)
    BY <1>1 DEF Functions, Statements
  <2>2. PICK f \in m : o[f] = g /\ \A j \in f + 1 .. Len(q) : Depth(q, j) > 1
    BY <2>1, <1>3
  <2>3. f \in 1 .. Len(q) /\ o2[f] = g
    BY <2>2, <1>1, <1>2
  <2>4. FunctionOf(p, i) # 0
    BY <2>1, FunctionOfIs
  <2>5. \A j \in f + 1 .. Len(q2) : Depth(q2, j) > 1
    BY <2>2, <2>3, <2>4, <1>4, StillOpen
  <2> QED
    BY <2>2, <2>3, <2>5
<1> QED
  BY <1>8, <1>9

LEMMA LineLeftOut ==
  ASSUME NEW p, Tree(p), NEW n \in Nat, n + 1 \in 1 .. Len(p), ~Kept(p, n + 1),
         NEW q, NEW o, NEW m, Traced(p, q, o, m, n)
  PROVE  Traced(p, q, o, m, n + 1) /\ Ongoing(p, q, o, m, n + 1)
<1>1. Traced(p, q, o, m, n + 1)
  <2>1. o \in [1 .. Len(q) -> 1 .. n + 1]
    BY DEF Traced
  <2>2. \A i \in 1 .. n + 1 : Kept(p, i) => i \in 1 .. n
    OBVIOUS
  <2> QED
    BY <2>1, <2>2 DEF Traced
<1>2. Ongoing(p, q, o, m, n + 1)
  <2>1. Kind(p, n + 1) \in {"class", "field"} /\ Kind(p, n + 1) \notin Functions
    BY DEF Kept, Functions
  <2> QED
    BY <2>1, FunctionsApart DEF Ongoing
<1> QED
  BY <1>1, <1>2

-----------------------------------------------------------------------------
(* Sequences that are concatenated.                                          *)

Sequence(q) == \E X : q \in Seq(X)

LEMMA SequenceGrows ==
  ASSUME NEW X, NEW Y, NEW q \in Seq(X)
  PROVE  q \in Seq(X \cup Y)
<1>1. /\ Len(q) \in Nat /\ q \in [1 .. Len(q) -> X]
      /\ \A i \in 1 .. Len(q) : q[i] \in X
  BY LenProperties
<1>2. q = [i \in 1 .. Len(q) |-> q[i]]
  BY <1>1
<1> DEFINE e(i) == q[i]
<1>3. \A i \in 1 .. Len(q) : e(i) \in X \cup Y
  BY <1>1
<1> HIDE DEF e
<1>4. [i \in 1 .. Len(q) |-> e(i)] \in Seq(X \cup Y)
  BY <1>1, <1>3, IsASeq
<1> QED
  BY <1>2, <1>4 DEF e

LEMMA OneMore ==
  ASSUME NEW q, Sequence(q), NEW a
  PROVE  Sequence(q \o <<a>>) /\ Longer(q, q \o <<a>>, a)
<1>1. PICK X : q \in Seq(X)
  BY DEF Sequence
<1> DEFINE Y == X \cup {a}
<1>2. q \in Seq(Y) /\ <<a>> \in Seq(Y) /\ Len(<<a>>) = 1 /\ <<a>>[1] = a
  <2>1. q \in Seq(Y)
    BY <1>1, SequenceGrows
  <2>2. a \in Y
    OBVIOUS
  <2> HIDE DEF Y
  <2> QED
    BY <2>1, <2>2
<1> HIDE DEF Y
<1>3. /\ q \o <<a>> \in Seq(Y) /\ Len(q \o <<a>>) = Len(q) + Len(<<a>>)
      /\ \A i \in 1 .. Len(q) + Len(<<a>>) :
           (q \o <<a>>)[i] = IF i <= Len(q) THEN q[i] ELSE <<a>>[i - Len(q)]
  BY <1>2, ConcatProperties
<1>4. Len(q) \in Nat
  BY <1>2, LenProperties
<1>5. (q \o <<a>>)[Len(q) + 1] = a
  <2>1. Len(q) + 1 \in 1 .. Len(q) + Len(<<a>>) /\ ~ Len(q) + 1 <= Len(q) /\ Len(q) + 1 - Len(q) = 1
    BY <1>2, <1>4
  <2> QED
    BY <2>1, <1>2, <1>3
<1>6. \A i \in 1 .. Len(q) : (q \o <<a>>)[i] = q[i]
  BY <1>2, <1>3, <1>4
<1>7. Len(q \o <<a>>) = Len(q) + 1
  BY <1>2, <1>3
<1> QED
  BY <1>3, <1>4, <1>5, <1>6, <1>7 DEF Longer, Sequence

LEMMA Concatenated ==
  ASSUME NEW q, Sequence(q), NEW r, Sequence(r), NEW t, Sequence(t)
  PROVE  (q \o r) \o t = q \o (r \o t)
<1>1. PICK X, Y, Z : q \in Seq(X) /\ r \in Seq(Y) /\ t \in Seq(Z)
  BY DEF Sequence
<1> DEFINE U == X \cup (Y \cup Z)
<1>2. q \in Seq(U)
  BY <1>1, SequenceGrows
<1>3. r \in Seq(U)
  <2>1. r \in Seq(Y \cup (X \cup Z)) /\ Y \cup (X \cup Z) = U
    BY <1>1, SequenceGrows
  <2> QED
    BY <2>1
<1>4. t \in Seq(U)
  <2>1. t \in Seq(Z \cup (X \cup Y)) /\ Z \cup (X \cup Y) = U
    BY <1>1, SequenceGrows
  <2> QED
    BY <2>1
<1> HIDE DEF U
<1>5. (q \o r) \o t = q \o (r \o t)
  BY <1>2, <1>3, <1>4, ConcatAssociative
<1> QED
  BY <1>5

LEMMA NothingMore ==
  ASSUME NEW q, Sequence(q)
  PROVE  q \o <<>> = q /\ <<>> \o q = q
<1>1. PICK X : q \in Seq(X)
  BY DEF Sequence
<1> QED
  BY <1>1, ConcatEmptySeq

LEMMA Singles == 
  \A a, b : /\ Sequence(<<>>) /\ Sequence(<<a>>) /\ Sequence(<<a, b>>)
            /\ <<a, b>> = <<a>> \o <<b>>
<1> TAKE a, b
<1>1. <<>> \in Seq({a, b}) /\ <<a>> \in Seq({a, b}) /\ <<b>> \in Seq({a, b}) /\ <<a, b>> \in Seq({a, b})
  OBVIOUS
<1>2. <<a, b>> = <<a>> \o <<b>>
  <2>1. /\ <<a>> \o <<b>> \in Seq({a, b}) /\ Len(<<a>> \o <<b>>) = 2
        /\ (<<a>> \o <<b>>)[1] = a /\ (<<a>> \o <<b>>)[2] = b
    BY <1>1, ConcatProperties
  <2>2. Len(<<a, b>>) = 2 /\ <<a, b>>[1] = a /\ <<a, b>>[2] = b
    OBVIOUS
  <2>3. \A i \in 1 .. 2 : <<a, b>>[i] = (<<a>> \o <<b>>)[i]
    BY <2>1, <2>2
  <2> QED
    BY <1>1, <2>1, <2>2, <2>3, SeqEqual
<1> QED
  BY <1>1, <1>2 DEF Sequence

(* Adding two lines is adding one after the other.                           *)
LEMMA AddedTwice ==
  ASSUME NEW q, Sequence(q), NEW a, NEW b
  PROVE  q \o <<a, b>> = (q \o <<a>>) \o <<b>>
<1>1. Sequence(<<a>>) /\ Sequence(<<b>>) /\ <<a, b>> = <<a>> \o <<b>>
  BY Singles
<1> DEFINE r == <<a>>
           t == <<b>>
<1>2. Sequence(r) /\ Sequence(t)
  BY <1>1
<1> HIDE DEF r, t
<1>3. (q \o r) \o t = q \o (r \o t)
  BY <1>2, Concatenated
<1> QED
  BY <1>1, <1>3 DEF r, t

-----------------------------------------------------------------------------
(* The bindings of classes.                                                  *)

\* The members MembersOf lists, and their names.
MemberLines(p, kind, i, k) == {j \in i + 1 .. k : Kind(p, j) = kind}
MemberNames(p, kind, i, k) == {NameAt(p, j) : j \in MemberLines(p, kind, i, k)}

Holds(s, x) == \E j \in 1 .. Len(s) : s[j] = x

LEMMA HoldsEither ==
  ASSUME NEW X, NEW s \in Seq(X), NEW t \in Seq(X), NEW x, Holds(s, x) \/ Holds(t, x)
  PROVE  Holds(s \o t, x)
<1>1. /\ Len(s \o t) = Len(s) + Len(t) /\ Len(s) \in Nat /\ Len(t) \in Nat
      /\ \A j \in 1 .. Len(s) + Len(t) :
           (s \o t)[j] = IF j <= Len(s) THEN s[j] ELSE t[j - Len(s)]
  BY ConcatProperties, LenProperties
<1>2. CASE Holds(s, x)
  <2>1. PICK j \in 1 .. Len(s) : s[j] = x
    BY <1>2 DEF Holds
  <2>2. j \in 1 .. Len(s) + Len(t) /\ j <= Len(s)
    BY <1>1
  <2> QED
    BY <1>1, <2>1, <2>2 DEF Holds
<1>3. CASE Holds(t, x)
  <2>1. PICK j \in 1 .. Len(t) : t[j] = x
    BY <1>3 DEF Holds
  <2>2. j + Len(s) \in 1 .. Len(s) + Len(t) /\ ~(j + Len(s) <= Len(s)) /\ (j + Len(s)) - Len(s) = j
    BY <1>1
  <2>3. (s \o t)[j + Len(s)] = x
    BY <1>1, <2>1, <2>2
  <2> QED
    BY <1>1, <2>2, <2>3 DEF Holds
<1> QED
  BY <1>2, <1>3

LEMMA MembersListed ==
  ASSUME NEW kind, NEW i \in Nat, NEW k \in Nat
  PROVE  LET X == MemberNames(program, kind, i, k)
         IN  /\ MembersOf(kind, i, k) \in Seq(X) /\ Len(MembersOf(kind, i, k)) <= k
             /\ Range(MembersOf(kind, i, k)) = X
<1> DEFINE X == MemberNames(program, kind, i, k)
           e(j) == IF j > i /\ program[j].node.kind = kind
                   THEN <<program[j].node.name>> ELSE <<>>
           ss == [j \in 1 .. k |-> e(j)]
           Listed(s, n) == \A j \in i + 1 .. n : Kind(program, j) = kind => Holds(s, NameAt(program, j))
<1>1. MembersOf(kind, i, k) = FlattenSeq(ss)
  BY DEF MembersOf
<1>2. \A j \in 1 .. k :
        /\ e(j) \in Seq(X) /\ Len(e(j)) \in 0 .. 1
        /\ j > i /\ Kind(program, j) = kind => Holds(e(j), NameAt(program, j))
  <2> TAKE j \in 1 .. k
  <2>1. CASE j > i /\ program[j].node.kind = kind
    <3>1. NameAt(program, j) \in X
      BY <2>1 DEF MemberNames, MemberLines, Kind
    <3>2. e(j) = <<NameAt(program, j)>>
      BY <2>1 DEF NameAt
    <3> DEFINE x == NameAt(program, j)
    <3> HIDE DEF X, e, x
    <3>3. <<x>> \in Seq(X) /\ Len(<<x>>) = 1 /\ <<x>>[1] = x /\ 1 \in 1 .. 1
      BY <3>1 DEF x
    <3>4. Holds(<<x>>, x)
      BY <3>3 DEF Holds
    <3> QED
      BY <3>2, <3>3, <3>4 DEF x
  <2>2. CASE ~(j > i /\ program[j].node.kind = kind)
    <3>1. e(j) = <<>>
      BY <2>2
    <3> HIDE DEF X, e
    <3> QED
      BY <2>2, <3>1 DEF Kind
  <2> QED
    BY <2>1, <2>2
<1> HIDE DEF e, X
<1>3. ss \in Seq(Seq(X)) /\ Len(ss) = k
  <2>1. ss \in Seq(Seq(X))
    BY <1>2, IsASeq
  <2>2. DOMAIN ss = 1 .. Len(ss) /\ Len(ss) \in Nat /\ DOMAIN ss = 1 .. k
    BY <2>1, LenProperties
  <2> HIDE DEF ss
  <2>3. Len(ss) = k
    BY <2>2, SameInterval, Zenon
  <2> QED
    BY <2>1, <2>3
<1> DEFINE r == MembersOf(kind, i, k)
<1>4. ASSUME k = 0 PROVE r \in Seq(X) /\ Len(r) <= k /\ Listed(r, k)
  <2>1. ss = <<>>
    <3> HIDE DEF ss
    <3> QED
      BY <1>3, <1>4, EmptySeq
  <2>2. FlattenSeq(ss) = <<>>
    BY <2>1, <1>3, <1>4 DEF FlattenSeq
  <2>3. <<>> \in Seq(X) /\ Len(<<>>) <= k /\ Listed(<<>>, k)
    BY <1>4
  <2> HIDE DEF ss, Listed
  <2> QED
    BY <2>2, <2>3, <1>1, Zenon
<1>5. ASSUME k # 0 PROVE r \in Seq(X) /\ Len(r) <= k /\ Listed(r, k)
  <2>1. PICK g : IsFlattening(g, ss, k) /\ FlattenSeq(ss) = g[k]
    <3> HIDE DEF ss
    <3> QED
      BY <1>3, <1>5, FlattenIs
  <2> DEFINE Good(n) == g[n] \in Seq(X) /\ Len(g[n]) <= n /\ Listed(g[n], n)
             Bad == {n \in 1 .. k : ~Good(n)}
  <2>2. \A n \in 1 .. k : g[n] = IF n = 1 THEN e(n) ELSE g[n - 1] \o e(n)
    <3>1. g = [n \in 1 .. k |-> IF n = 1 THEN ss[n] ELSE g[n - 1] \o ss[n]]
      BY <2>1 DEF IsFlattening
    <3>2. \A n \in 1 .. k : ss[n] = e(n)
      OBVIOUS
    <3> HIDE DEF ss
    <3>3. \A n \in 1 .. k : g[n] = IF n = 1 THEN ss[n] ELSE g[n - 1] \o ss[n]
      BY <3>1, Zenon
    <3> QED
      BY <3>2, <3>3, Zenon
  <2>3. Bad = {}
    <3>1. SUFFICES ASSUME Bad # {} PROVE FALSE
      OBVIOUS
    <3>2. PICK b \in Bad : \A n \in Bad : b <= n
      <4>1. Bad \subseteq Nat
        OBVIOUS
      <4> QED
        BY <3>1, <4>1, LeastNatural
    <3>3. CASE b = 1
      <4>1. g[b] = e(b) /\ b \in 1 .. k
        BY <3>3, <2>2
      <4> QED
        <5>1. e(b) \in Seq(X) /\ Len(e(b)) \in 0 .. 1
          BY <4>1, <1>2
        <5>2. g[b] \in Seq(X) /\ Len(g[b]) \in 0 .. 1
          BY <4>1, <5>1
        <5>3. Len(g[b]) <= b
          <6> DEFINE n == Len(g[b])
          <6>1. n \in 0 .. 1
            BY <5>2
          <6> HIDE DEF n
          <6>2. n <= 1
            BY <6>1
          <6> QED
            BY <3>3, <6>2 DEF n
        <5>4. \A j \in i + 1 .. b : j = b /\ j > i
          BY <3>3
        <5>5. Listed(g[b], b)
          BY <1>2, <4>1, <5>4
        <5> QED
          BY <3>2, <5>2, <5>3, <5>5
    <3>4. CASE b # 1
      <4>1. b \in 1 .. k /\ b - 1 \in 1 .. k /\ b - 1 \notin Bad
        BY <3>2, <3>4
      <4>2. g[b - 1] \in Seq(X) /\ Len(g[b - 1]) <= b - 1 /\ Listed(g[b - 1], b - 1)
        BY <4>1
      <4>3. e(b) \in Seq(X) /\ Len(e(b)) \in 0 .. 1 /\ g[b] = g[b - 1] \o e(b)
        BY <4>1, <1>2, <2>2, <3>4
      <4>4. g[b] \in Seq(X) /\ Len(g[b]) = Len(g[b - 1]) + Len(e(b)) /\ Len(g[b - 1]) \in Nat
        BY <4>2, <4>3, ConcatProperties, LenProperties
      <4>5. Len(g[b]) <= b
        <5>1. \A x, y \in Nat : x <= b - 1 /\ y \in 0 .. 1 => x + y <= b
          BY <4>1
        <5> QED
          BY <5>1, <4>2, <4>3, <4>4
      <4>7. Listed(g[b], b)
        <5> SUFFICES ASSUME NEW j \in i + 1 .. b, Kind(program, j) = kind
                     PROVE  Holds(g[b - 1] \o e(b), NameAt(program, j))
          BY <4>3
        <5>1. CASE j = b
          <6>1. j > i
            BY <4>1
          <6>2. Holds(e(b), NameAt(program, j))
            BY <1>2, <4>1, <5>1, <6>1
          <6> QED
            BY <4>2, <4>3, <6>2, HoldsEither
        <5>2. CASE j # b
          <6>1. j \in i + 1 .. b - 1
            BY <4>1, <5>2
          <6>2. Holds(g[b - 1], NameAt(program, j))
            BY <4>2, <6>1
          <6> QED
            BY <4>2, <4>3, <6>2, HoldsEither
        <5> QED
          BY <5>1, <5>2
      <4>6. Good(b)
        BY <4>4, <4>5, <4>7
      <4> QED
        BY <3>2, <4>6
    <3> QED
      BY <3>3, <3>4
  <2>4. k \in 1 .. k
    BY <1>5
  <2>5. Good(k)
    BY <2>3, <2>4
  <2> QED
    BY <1>1, <2>1, <2>5
<1> HIDE DEF r, Listed
<1>6. r \in Seq(X) /\ Len(r) <= k /\ Listed(r, k)
  BY <1>4, <1>5
<1>7. Range(r) \subseteq X
  BY <1>6, RangeOfSeq
<1>8. ASSUME NEW x \in X PROVE x \in Range(r)
  <2>1. PICK j \in i + 1 .. k : Kind(program, j) = kind /\ NameAt(program, j) = x
    BY DEF X, MemberNames, MemberLines
  <2>2. Holds(r, x)
    BY <1>6, <2>1 DEF Listed
  <2>3. DOMAIN r = 1 .. Len(r)
    BY <1>6, LenProperties
  <2> QED
    BY <2>2, <2>3 DEF Holds, Range
<1>9. Range(r) = X
  BY <1>7, <1>8
<1> QED
  BY <1>6, <1>9 DEF r, X

HasClass(p, c) == \E k \in 1 .. Len(p) : Kind(p, k) = "class" /\ NameAt(p, k) = c
MethodIn(p, c, x) ==
  \E j \in 1 .. Len(p) : Kind(p, j) = "method" /\ NameAt(p, j) = x /\ ClassName(p, j) = c

\* Of the classes before line n, the one at line k is the last that is named c.
LastClass(p, n, c, k) ==
  /\ k \in 1 .. n - 1 /\ Kind(p, k) = "class" /\ NameAt(p, k) = c
  /\ \A j \in k + 1 .. n - 1 : ~(Kind(p, j) = "class" /\ NameAt(p, j) = c)

\* The names of the members of the class at line k.
ClassMembers(p, k, kind) == MemberNames(p, kind, k, After(p, k) - 1)

\* Before line n, b holds the members of the last class that is named c.
Bound(p, n, c, b) ==
  /\ b \in ClassBindings
  /\ \E k : /\ LastClass(p, n, c, k)
            /\ Range(b.fields) = ClassMembers(p, k, "field")
            /\ Range(b.methods) = ClassMembers(p, k, "method")

LEMMA BoundMeans ==
  ASSUME NEW p, Tree(p), NEW c, NEW b, Bound(p, Len(p) + 1, c, b)
  PROVE  HasClass(p, c) /\ \A x \in Range(b.methods) : MethodIn(p, c, x)
<1>1. PICK k : /\ LastClass(p, Len(p) + 1, c, k)
               /\ Range(b.methods) = ClassMembers(p, k, "method")
  BY DEF Bound
<1>2. Len(p) \in Nat
  BY TreeLines
<1>3. k \in 1 .. Len(p) /\ Kind(p, k) = "class" /\ NameAt(p, k) = c
  BY <1>1, <1>2 DEF LastClass
<1>4. ASSUME NEW x \in Range(b.methods) PROVE MethodIn(p, c, x)
  <2>1. PICK j \in k + 1 .. After(p, k) - 1 : Kind(p, j) = "method" /\ NameAt(p, j) = x
    BY <1>1 DEF ClassMembers, MemberNames, MemberLines
  <2>2. j \in 1 .. Len(p) /\ Encloses(p, k, j)
    BY <1>3, <2>1, Skipped
  <2>3. ClassOf(p, j) = k
    BY <1>3, <2>2, ClassOfIs DEF Encloses
  <2> QED
    BY <1>3, <2>1, <2>2, <2>3 DEF MethodIn, ClassName
<1> QED
  BY <1>3, <1>4 DEF HasClass

LEMMA BoundPast ==
  ASSUME NEW p, NEW n \in Nat, NEW m \in Nat, n <= m, NEW c, NEW b, Bound(p, n, c, b),
         \A j \in n .. m - 1 : ~(Kind(p, j) = "class" /\ NameAt(p, j) = c)
  PROVE  Bound(p, m, c, b)
<1>1. PICK k : /\ LastClass(p, n, c, k)
               /\ Range(b.fields) = ClassMembers(p, k, "field")
               /\ Range(b.methods) = ClassMembers(p, k, "method")
  BY DEF Bound
<1>2. k \in 1 .. m - 1 /\ \A j \in k + 1 .. m - 1 : j \in k + 1 .. n - 1 \/ j \in n .. m - 1
  BY <1>1 DEF LastClass
<1>3. LastClass(p, m, c, k)
  BY <1>1, <1>2 DEF LastClass
<1> QED
  BY <1>1, <1>3 DEF Bound

LEMMA ListsAre ==
  ASSUME NEW X, NEW s \in Seq(X), Len(s) <= MaxLength
  PROVE  s \in UNION {[1 .. n -> X] : n \in 0 .. MaxLength}
<1>1. Len(s) \in 0 .. MaxLength /\ s \in [1 .. Len(s) -> X]
  BY LenProperties, ProgramAssumption
<1> QED
  BY <1>1

LEMMA ClassIsBound ==
  ASSUME SemInv, GlobalClass, Len(program) <= MaxLength
  PROVE  Bound(program, AfterBody, NameAt(program, next), ClassBinding(next, AfterBody - 1))
<1> DEFINE p == program
           c == NameAt(p, next)
           k == AfterBody - 1
           names(kind) == MembersOf(kind, next, k)
<1>1. phase = "global" /\ Visiting /\ Kind(p, next) = "class"
  BY DEF GlobalClass, Visited, Kind
<1>2. Tree(p) /\ Len(p) \in Nat /\ next \in 1 .. Len(p) /\ MaxLength \in Nat
  BY <1>1, GlobalFacts, ProgramAssumption
<1>3. AfterBody = After(p, next) /\ After(p, next) \in next + 1 .. Len(p) + 1
  BY <1>2, AfterFacts DEF AfterBody, After, Depth
<1>4. k \in Nat /\ k <= Len(p) /\ next \in Nat /\ k = After(p, next) - 1
  BY <1>2, <1>3
<1> HIDE DEF k
<1>5. ASSUME NEW kind, kind \in {"field", "method"}
      PROVE  names(kind) \in UNION {[1 .. n -> NamesOf(kind)] : n \in 0 .. MaxLength}
  <2>1. MemberNames(p, kind, next, k) \subseteq NamesOf(kind)
    <3>1. ASSUME NEW j \in MemberLines(p, kind, next, k) PROVE NameAt(p, j) \in NamesOf(kind)
      <4>1. j \in 1 .. Len(p) /\ Kind(p, j) = kind
        BY <1>2, <1>4 DEF MemberLines
      <4>2. p[j].node \in Vocabulary
        BY <4>1, <1>2, TreeLines
      <4> QED
        BY <4>1, <4>2 DEF NamesOf, NameAt, Kind
    <3> QED
      BY <3>1 DEF MemberNames
  <2>2. names(kind) \in Seq(MemberNames(p, kind, next, k)) /\ Len(names(kind)) <= k
    BY <1>4, MembersListed
  <2>3. names(kind) \in Seq(NamesOf(kind))
    <3>1. NamesOf(kind) = MemberNames(p, kind, next, k) \cup NamesOf(kind)
      BY <2>1
    <3> QED
      BY <2>2, <3>1, SequenceGrows
  <2>4. Len(names(kind)) <= MaxLength
    BY <2>2, <2>3, <1>2, <1>4, LenProperties
  <2> HIDE DEF names
  <2> QED
    BY <2>3, <2>4, ListsAre
<1>6. ASSUME NEW kind PROVE Range(names(kind)) = ClassMembers(p, next, kind)
  <2>1. Range(names(kind)) = MemberNames(p, kind, next, k)
    BY <1>4, MembersListed
  <2> HIDE DEF names
  <2> QED
    BY <2>1, <1>4 DEF ClassMembers
<1>7. ClassBinding(next, k) = [fields |-> names("field"), methods |-> names("method")]
  BY DEF ClassBinding
<1>8. ClassBinding(next, k) \in ClassBindings
  <2> HIDE DEF names
  <2> QED
    BY <1>5, <1>7 DEF ClassBindings
<1>9. LastClass(p, AfterBody, c, next)
  <2>1. next \in 1 .. After(p, next) - 1
    BY <1>2, <1>3
  <2>2. \A j \in next + 1 .. After(p, next) - 1 : Kind(p, j) # "class"
    BY <1>1, <1>2, Skipped DEF GlobalLine
  <2> QED
    BY <1>1, <1>3, <2>1, <2>2 DEF LastClass
<1> HIDE DEF names
<1> QED
  BY <1>6, <1>7, <1>8, <1>9 DEF Bound, k

\* The classes before line n of p.
Classes(p, n) == {NameAt(p, i) : i \in {j \in 1 .. n - 1 : Kind(p, j) = "class"}}

\* Every class before line n is in B, and nothing else, with the members of its last
\* declaration.
AllBound(p, n, B) ==
  /\ \A c \in DOMAIN B : Bound(p, n, c, B[c])
  /\ Classes(p, n) \subseteq DOMAIN B

\* So are the classes the global pass has visited.
BindInv ==
  /\ Len(program) <= MaxLength
  /\ phase = "parse" => DOMAIN bindings = {}
  /\ phase = "global" => AllBound(program, next, bindings)
  /\ phase \in {"local", "accepted"} => AllBound(program, Len(program) + 1, bindings)

LEMMA BindInit == SemInit => BindInv
<1> SUFFICES ASSUME SemInit PROVE BindInv
  OBVIOUS
<1>1. Len(program) <= MaxLength
  BY ProgramAssumption DEF SemInit
<1>2. phase = "parse" /\ DOMAIN bindings = {}
  BY DEF SemInit
<1> QED
  BY <1>1, <1>2 DEF BindInv

LEMMA ClassesPast ==
  ASSUME NEW p, Len(p) \in Nat, NEW n \in 1 .. Len(p), NEW m \in n + 1 .. Len(p) + 1,
         \A j \in n + 1 .. m - 1 : Kind(p, j) # "class"
  PROVE  Classes(p, m) = Classes(p, n) \cup (IF Kind(p, n) = "class" THEN {NameAt(p, n)} ELSE {})
<1>1. \A j : j \in 1 .. m - 1 <=> j \in 1 .. n - 1 \/ j = n \/ j \in n + 1 .. m - 1
  OBVIOUS
<1>2. {j \in 1 .. m - 1 : Kind(p, j) = "class"}
        = {j \in 1 .. n - 1 : Kind(p, j) = "class"} \cup (IF Kind(p, n) = "class" THEN {n} ELSE {})
  BY <1>1
<1> QED
  BY <1>2 DEF Classes

LEMMA BindKept == SemInv /\ BindInv /\ [SemNext]_semVars => BindInv'
<1> SUFFICES ASSUME SemInv, BindInv, [SemNext]_semVars PROVE BindInv'
  OBVIOUS
<1>1. Tree(program) /\ Len(program) \in Nat /\ next \in 1 .. Len(program) + 1
  BY TreeLines DEF SemInv, Typed
<1>2. ASSUME UNCHANGED <<program, bindings>>, phase' = phase, phase # "global" PROVE BindInv'
  BY <1>2 DEF BindInv
<1>3. ASSUME UNCHANGED <<program, bindings>>, phase = "local" PROVE BindInv' \/ phase' \in {"global", "parse"}
  BY <1>3 DEF BindInv
<1>4. CASE UNCHANGED semVars
  BY <1>4 DEF BindInv, semVars
<1>5. CASE Parse
  <2>1. PICK s : program' = Append(program, s)
    BY <1>5 DEF Parse
  <2>2. phase = "parse" /\ phase' = "parse" /\ bindings' = bindings /\ Len(program) < MaxLength
    BY <1>5 DEF Parse
  <2>3. program \in Seq([depth : 1 .. MaxDepth, node : Vocabulary])
    BY <1>1 DEF Tree
  <2>4. Len(program') = Len(program) + 1
    BY <2>1, <2>3
  <2>5. Len(program') <= MaxLength
    BY <2>2, <2>4, <1>1, ProgramAssumption
  <2> QED
    BY <2>2, <2>5 DEF BindInv
<1>6. CASE Parsed
  <2>1. phase = "parse" /\ phase' = "global" /\ UNCHANGED <<program, next, bindings>>
    BY <1>6 DEF Parsed
  <2>2. next = 1
    BY <2>1 DEF SemInv, Parsing
  <2>3. Classes(program, 1) = {}
    BY DEF Classes
  <2> QED
    BY <2>1, <2>2, <2>3 DEF BindInv, AllBound
<1>7. ASSUME phase = "global", phase' = "global", Visiting, UNCHANGED <<program, bindings>>,
             next' \in next + 1 .. Len(program) + 1,
             \A j \in next .. next' - 1 : Kind(program, j) # "class"
      PROVE  BindInv'
  <2>1. next \in 1 .. Len(program) /\ next \in next .. next' - 1
    <3>1. \A N, a, b \in Nat : a \in 1 .. N + 1 /\ a <= N /\ b \in a + 1 .. N + 1
            => a \in 1 .. N /\ a \in a .. b - 1
      OBVIOUS
    <3>2. next \in Nat /\ next' \in Nat /\ next <= Len(program)
      BY <1>1, <1>7 DEF Visiting
    <3> QED
      BY <1>1, <1>7, <3>1, <3>2
  <2>2. \A j \in next + 1 .. next' - 1 : j \in next .. next' - 1
    BY <2>1
  <2>3. Classes(program, next') = Classes(program, next)
    <3>1. \A j \in next + 1 .. next' - 1 : Kind(program, j) # "class"
      BY <1>7, <2>2
    <3>2. Classes(program, next') = Classes(program, next) \cup {}
      BY <1>1, <1>7, <2>1, <3>1, ClassesPast
    <3> QED
      BY <3>2
  <2>4. next \in Nat /\ next' \in Nat /\ next <= next'
    BY <1>7, <2>1
  <2>5. \A c \in DOMAIN bindings : Bound(program, next', c, bindings[c])
    BY <1>7, <2>4, BoundPast DEF BindInv, AllBound
  <2> QED
    BY <1>7, <2>3, <2>5 DEF BindInv, AllBound
<1>8. CASE GlobalFunction
  <2>1. /\ phase = "global" /\ phase' = phase /\ Visiting /\ Kind(program, next) = "function"
        /\ UNCHANGED <<program, bindings>> /\ next' = AfterBody
    BY <1>8 DEF GlobalFunction, Visited, Kind
  <2>2. AfterBody = After(program, next) /\ next \in 1 .. Len(program)
    BY <2>1, <1>1 DEF AfterBody, After, Depth, Visiting
  <2>3. After(program, next) \in next + 1 .. Len(program) + 1
    BY <1>1, <2>2, AfterFacts
  <2>4. \A j \in next + 1 .. After(program, next) - 1 : Kind(program, j) # "class"
    BY <1>1, <2>1, <2>2, Skipped DEF GlobalLine
  <2>5. \A j \in next .. After(program, next) - 1 : j = next \/ j \in next + 1 .. After(program, next) - 1
    BY <2>2, <2>3
  <2>6. \A j \in next .. next' - 1 : Kind(program, j) # "class"
    BY <2>1, <2>2, <2>4, <2>5
  <2> QED
    BY <1>7, <2>1, <2>2, <2>3, <2>6
<1>9. CASE GlobalClass
  <2> DEFINE c == NameAt(program, next)
             b == ClassBinding(next, AfterBody - 1)
  <2>1. /\ phase = "global" /\ phase' = phase /\ Visiting /\ Kind(program, next) = "class"
        /\ UNCHANGED program /\ next' = AfterBody
    BY <1>9 DEF GlobalClass, Visited, Kind
  <2>2. AfterBody = After(program, next) /\ next \in 1 .. Len(program)
    BY <2>1, <1>1 DEF AfterBody, After, Depth, Visiting
  <2>3. After(program, next) \in next + 1 .. Len(program) + 1
    BY <1>1, <2>2, AfterFacts
  <2>4. \A j \in next + 1 .. After(program, next) - 1 : Kind(program, j) # "class"
    BY <1>1, <2>1, <2>2, Skipped DEF GlobalLine
  <2>5. Classes(program, next') = Classes(program, next) \cup {c}
    BY <1>1, <2>1, <2>2, <2>3, <2>4, ClassesPast
  <2>6. Bound(program, next', c, b) /\ bindings' = With(c, b, bindings)
    BY <1>9, <2>1, ClassIsBound, ClassBound DEF BindInv
  <2>8. ASSUME NEW d \in DOMAIN bindings, d # c PROVE Bound(program, next', d, bindings[d])
    <3>1. next \in Nat /\ next' \in Nat /\ next <= next'
      BY <2>1, <2>2, <2>3
    <3>2. \A j \in next .. next' - 1 : j = next \/ j \in next + 1 .. next' - 1
      BY <2>1, <2>2, <2>3
    <3>3. \A j \in next .. next' - 1 : ~(Kind(program, j) = "class" /\ NameAt(program, j) = d)
      BY <2>1, <2>2, <2>4, <2>8, <3>2
    <3> QED
      BY <2>1, <3>1, <3>3, BoundPast DEF BindInv, AllBound
  <2> HIDE DEF b, c
  <2>7. DOMAIN bindings' = DOMAIN bindings \cup {c}
        /\ \A d \in DOMAIN bindings' : bindings'[d] = IF d = c THEN b ELSE bindings[d]
    BY <2>6 DEF With
  <2> QED
    BY <2>1, <2>5, <2>6, <2>7, <2>8 DEF BindInv, AllBound
<1>10. CASE GlobalVariable \/ GlobalOther
  <2>1. /\ phase = "global" /\ phase' = phase /\ Visiting /\ Kind(program, next) # "class"
        /\ UNCHANGED <<program, bindings>> /\ next' = next + 1
    BY <1>10 DEF GlobalVariable, GlobalOther, Visited, Kind
  <2>2. next' \in next + 1 .. Len(program) + 1 /\ \A j \in next .. next' - 1 : j = next
    BY <2>1, <1>1 DEF Visiting
  <2> QED
    BY <1>7, <2>1, <2>2
<1>11. CASE GlobalDone
  <2>1. /\ phase = "global" /\ phase' \in {"local", "rejected"} /\ ~Visiting
        /\ UNCHANGED <<program, bindings>>
    BY <1>11 DEF GlobalDone
  <2>2. next = Len(program) + 1
    BY <2>1, <1>1 DEF Visiting
  <2> QED
    BY <2>1, <2>2 DEF BindInv
<1>12. CASE \/ LocalVariable \/ LocalExpression \/ LocalUnwrap \/ LocalFunction \/ LocalClass
            \/ LocalBlock \/ LocalLeave \/ LocalDone
  <2>1. /\ phase = "local" /\ UNCHANGED <<program, bindings>>
        /\ phase' \in {"local", "panicked", "accepted", "rejected"}
    BY <1>12 DEF LocalVariable, LocalExpression, LocalUnwrap, LocalFunction, LocalClass,
                 LocalBlock, LocalLeave, LocalDone
  <2> QED
    BY <1>3, <2>1
<1> QED
  BY <1>4, <1>5, <1>6, <1>8, <1>9, <1>10, <1>11, <1>12 DEF SemNext

\* A member is in a class, which has a name.
LEMMA ClassOfMember ==
  ASSUME NEW p, Tree(p), NEW i \in 1 .. Len(p), Kind(p, i) \in Members
  PROVE  ClassOf(p, i) # 0 /\ ClassOf(p, i) \in 1 .. Len(p) /\ ClassName(p, i) \in Names
<1>1. Depth(p, i) # 1 /\ Len(p) \in Nat
  BY TreePlaced, TreeLines
<1>2. PICK c \in 1 .. i - 1 : Parent(p, c, i)
  BY <1>1, ParentExists
<1>3. Kind(p, c) = "class" /\ Encloses(p, c, i)
  BY <1>2, TreePlaced DEF Parent
<1>4. ClassOf(p, i) = c /\ c \in 1 .. Len(p) /\ c # 0
  BY <1>1, <1>3, ClassOfIs
<1> QED
  BY <1>3, <1>4, KindsOfLines DEF ClassName, NameAt

-----------------------------------------------------------------------------
(* HirLower.                                                                 *)

LEMMA ClassBoundThere ==
  ASSUME NEW p, Tree(p), NEW B, AllBound(p, Len(p) + 1, B), NEW i \in 1 .. Len(p), ClassOf(p, i) # 0
  PROVE  ClassName(p, i) \in DOMAIN B /\ Bound(p, Len(p) + 1, ClassName(p, i), B[ClassName(p, i)])
<1> DEFINE k == ClassOf(p, i)
<1>1. k \in 1 .. i - 1 /\ Kind(p, k) = "class" /\ Len(p) \in Nat
  BY ClassOfIs, TreeLines
<1>2. k \in 1 .. (Len(p) + 1) - 1
  BY <1>1
<1>3. NameAt(p, k) \in DOMAIN B
  BY <1>1, <1>2 DEF AllBound, Classes
<1> QED
  BY <1>3 DEF AllBound, ClassName

\* h is what becomes of the expression of a line of this kind that comes from line
\* i of p, if classes are bound as B says.
Hir(p, B, i, kind, h) ==
  LET c == ClassName(p, i)
      e == p[i].node.expr
  IN  /\ Kind(p, i) \in Statements \cup {"function"} =>
           h = IF ClassOf(p, i) # 0 THEN ClassLowered(e, c, B[c]) ELSE NewLowered(e, DOMAIN B)
      /\ Kind(p, i) \in {"constructor", "method"} /\ kind = "function" => h = Nothing
      /\ Kind(p, i) = "constructor" /\ kind = "variable" =>
           h = FunctionCall("malloc", <<Literal(Size(B[c]))>>)
      /\ Kind(p, i) = "constructor" /\ kind = "expression" => h = Id("this")

\* The object of the constructor at line f.
Allocates(q, f) ==
  /\ f + 1 \in 1 .. Len(q) /\ Depth(q, f + 1) = 2
  /\ Kind(q, f + 1) = "variable" /\ NameAt(q, f + 1) = "this"

\* What the expressions of q are, and that the constructors in S allocate.
Worded(p, B, q, o, S) ==
  /\ \A k \in 1 .. Len(q) : Hir(p, B, o[k], Kind(q, k), q[k].node.expr)
  /\ \A f \in S : Kind(p, o[f]) = "constructor" => Allocates(q, f)

LEMMA WordedLonger ==
  ASSUME NEW p, NEW B, NEW q, NEW q2, NEW s, Longer(q, q2, s),
         NEW o, NEW S, S \subseteq 1 .. Len(q), Worded(p, B, q, o, S),
         NEW i, Hir(p, B, i, s.node.kind, s.node.expr)
  PROVE  Worded(p, B, q2, From(q, o, i), S)
<1> DEFINE l == Len(q) + 1
           o2 == From(q, o, i)
<1>1. /\ Len(q) \in Nat /\ q2[l] = s /\ Len(q2) = l
      /\ \A k \in 1 .. Len(q) : q2[k] = q[k]
  BY DEF Longer
<1>2. (\A k \in 1 .. Len(q) : o2[k] = o[k]) /\ o2[l] = i
  BY <1>1, FromIs
<1>3. \A k \in 1 .. l : k = l \/ k \in 1 .. Len(q)
  BY <1>1
<1> HIDE DEF l, o2
<1>4. ASSUME NEW k \in 1 .. Len(q2)
      PROVE  Hir(p, B, o2[k], Kind(q2, k), q2[k].node.expr)
  <2>1. CASE k = l
    BY <1>1, <1>2, <2>1 DEF Kind
  <2>2. CASE k \in 1 .. Len(q)
    BY <1>1, <1>2, <2>2 DEF Worded, Kind
  <2> QED
    BY <1>1, <1>3, <2>1, <2>2
<1>5. ASSUME NEW f \in S, Kind(p, o2[f]) = "constructor" PROVE Allocates(q2, f)
  <2>1. Allocates(q, f)
    BY <1>2, <1>5 DEF Worded
  <2>2. q2[f + 1] = q[f + 1] /\ f + 1 \in 1 .. Len(q2)
    BY <1>1, <2>1 DEF Allocates, l
  <2> QED
    BY <2>1, <2>2 DEF Allocates, Kind, Depth, NameAt
<1>6. Worded(p, B, q2, o2, S)
  BY <1>4, <1>5 DEF Worded
<1> QED
  BY <1>6 DEF o2

\* The constructor at the end of q allocates.
LEMMA ObjectWorded ==
  ASSUME NEW p, NEW B, NEW q, NEW q2, NEW s, Longer(q, q2, s),
         s.depth = 2, s.node.kind = "variable", s.node.name = "this",
         NEW o, NEW S, S \subseteq 1 .. Len(q), Worded(p, B, q, o, S \ {Len(q)}),
         NEW i, Hir(p, B, i, s.node.kind, s.node.expr)
  PROVE  Worded(p, B, q2, From(q, o, i), S)
<1>1. Worded(p, B, q2, From(q, o, i), S \ {Len(q)})
  BY WordedLonger
<1>2. Allocates(q2, Len(q))
  <2>1. Len(q) \in Nat /\ Len(q2) = Len(q) + 1 /\ q2[Len(q) + 1] = s
    BY DEF Longer
  <2>2. Len(q) + 1 \in 1 .. Len(q2)
    BY <2>1
  <2> QED
    BY <2>1, <2>2 DEF Allocates, Kind, Depth, NameAt
<1> QED
  BY <1>1, <1>2 DEF Worded

Traceable(p, B, q, n) ==
  \E o, m : /\ Traced(p, q, o, m, n) /\ (n # 0 => Ongoing(p, q, o, m, n))
             /\ Worded(p, B, q, o, m)

\* A node of the text with another expression is the same otherwise.
WithExpr(s, e) == [s EXCEPT !.expr = e]

LEMMA NodeKept ==
  ASSUME Tree(program), NEW i \in 1 .. Len(program), NEW d \in Nat, NEW e
  PROVE  LET l == At(d, WithExpr(program[i].node, e))
         IN  /\ WellFormed(l) /\ l.depth = d
             /\ l.node.kind = Kind(program, i) /\ l.node.name = NameAt(program, i)
             /\ l.node.params = Params(program, i) /\ l.node.expr = e
<1> DEFINE s == program[i].node
           l == At(d, WithExpr(s, e))
<1>1. s \in Vocabulary
  BY TreeLines
<1>2. s = Node(s.kind, s.name, s.params, s.expr)
  BY <1>1, ProgramAssumption
<1>3. WithExpr(s, e) = Node(s.kind, s.name, s.params, e)
  BY <1>2 DEF Node, WithExpr
<1> QED
  BY <1>3 DEF WellFormed, At, Node, Kind, NameAt, Params

LEMMA FunctionLine ==
  \A x, ps : LET l == At(1, Function(x, ps))
             IN  /\ WellFormed(l) /\ l.depth = 1 /\ l.node.kind = "function"
                 /\ l.node.name = x /\ l.node.params = ps /\ l.node.expr = Nothing
BY DEF WellFormed, At, Function, Node

LEMMA MadeLines ==
  /\ \A x, e : LET l == At(2, Variable(x, e))
               IN  /\ WellFormed(l) /\ l.depth = 2 /\ l.node.kind = "variable"
                   /\ l.node.name = x /\ l.node.expr = e
  /\ \A e : LET l == At(2, Expression(e))
            IN  /\ WellFormed(l) /\ l.depth = 2 /\ l.node.kind = "expression"
                /\ l.node.expr = e
BY DEF WellFormed, At, Variable, Expression, Node

LEMMA LoweredLinesAre ==
  ASSUME NEW i
  PROVE  LET p == program
             c == ClassOf(p, i)
             function == At(1, Function(FunctionName(p, i), FunctionParams(p, i)))
             size == Literal(Size(bindings[ClassName(p, i)]))
             this == At(2, Variable("this", FunctionCall("malloc", <<size>>)))
             inClass == WithExpr(p[i].node, ClassLowered(p[i].node.expr, p[c].node.name, bindings[p[c].node.name]))
             outside == WithExpr(p[i].node, NewLowered(p[i].node.expr, DOMAIN bindings))
         IN  /\ Kind(p, i) \in {"class", "field"} => LoweredLines(i) = <<>>
             /\ Kind(p, i) = "constructor" => LoweredLines(i) = <<function, this>>
             /\ Kind(p, i) = "method" => LoweredLines(i) = <<function>>
             /\ Kind(p, i) \notin {"class", "field", "constructor", "method"} =>
                  LoweredLines(i) = IF c # 0 THEN <<At(Depth(p, i) - 1, inClass)>>
                                    ELSE <<At(Depth(p, i), outside)>>
<1> DEFINE p == program
           k == p[i].node.kind
           c == ClassOf(p, i)
           x == p[c].node.name
           made == <<At(1, Function(Qualified(x, "constructor"), p[i].node.params)),
                     At(2, Variable("this", FunctionCall("malloc", <<Literal(Size(bindings[x]))>>)))>>
           method == <<At(1, Function(MethodName(x, p[i].node.name), MethodParams(p[i].node.params)))>>
           within == <<At(p[i].depth - 1, [p[i].node EXCEPT !.expr = ClassLowered(@, x, bindings[x])])>>
           other == <<At(p[i].depth, [p[i].node EXCEPT !.expr = NewLowered(@, DOMAIN bindings)])>>
<1>1. LoweredLines(i) = CASE k \in {"class", "field"} -> <<>>
                          [] k = "constructor" -> made
                          [] k = "method" -> method
                          [] OTHER -> IF c # 0 THEN within ELSE other
  BY DEF LoweredLines
<1>2. Kind(p, i) = "constructor" =>
        made = <<At(1, Function(FunctionName(p, i), FunctionParams(p, i))),
                 At(2, Variable("this", FunctionCall("malloc", <<Literal(Size(bindings[ClassName(p, i)]))>>)))>>
  BY DEF FunctionName, FunctionParams, ClassName, Kind, NameAt, Params
<1>3. Kind(p, i) = "method" =>
        method = <<At(1, Function(FunctionName(p, i), FunctionParams(p, i)))>>
  BY DEF FunctionName, FunctionParams, ClassName, Kind, NameAt, Params, MethodName, MethodParams
<1>4. within = <<At(Depth(p, i) - 1, WithExpr(p[i].node, ClassLowered(p[i].node.expr, x, bindings[x])))>>
  BY DEF WithExpr, Depth
<1>5. other = <<At(Depth(p, i), WithExpr(p[i].node, NewLowered(p[i].node.expr, DOMAIN bindings)))>>
  BY DEF WithExpr, Depth
<1>6. k = Kind(p, i)
  BY DEF Kind
<1> HIDE DEF made, method, within, other, k
<1>7. k \in {"class", "field"} => LoweredLines(i) = <<>>
  BY <1>1
<1>8. k = "constructor" => LoweredLines(i) = made
  BY <1>1
<1>9. k = "method" => LoweredLines(i) = method
  BY <1>1
<1>10. k \notin {"class", "field", "constructor", "method"} =>
         LoweredLines(i) = IF c # 0 THEN within ELSE other
  BY <1>1
<1> QED
  BY <1>2, <1>3, <1>4, <1>5, <1>6, <1>7, <1>8, <1>9, <1>10

LEMMA FunctionTraced ==
  ASSUME NEW p, Tree(p), NEW B, NEW n \in Nat, n + 1 \in 1 .. Len(p), Kind(p, n + 1) \in Functions,
         NEW l, WellFormed(l), l.depth = 1, l.node.kind = "function",
         l.node.name = FunctionName(p, n + 1), l.node.params = FunctionParams(p, n + 1),
         Hir(p, B, n + 1, "function", l.node.expr),
         NEW q, Sequence(q), NEW o, NEW m, Traced(p, q, o, m, n), Worded(p, B, q, o, m)
  PROVE  LET q2 == q \o <<l>>
         IN  /\ Sequence(q2) /\ (Kind(p, n + 1) # "constructor" => Traceable(p, B, q2, n + 1))
             /\ \E o2, m2 : /\ Traced(p, q2, o2, m2, n + 1) /\ Ongoing(p, q2, o2, m2, n + 1)
                            /\ Len(q2) \in m2 /\ o2[Len(q2)] = n + 1
                            /\ Worded(p, B, q2, o2, m2 \ {Len(q2)})
<1> DEFINE q2 == q \o <<l>>
           o2 == From(q, o, n + 1)
           m2 == m \cup {Len(q) + 1}
<1>1. Longer(q, q2, l) /\ Sequence(q2)
  BY OneMore
<1> HIDE DEF q2
<1>2. Traced(p, q2, o2, m2, n + 1) /\ Ongoing(p, q2, o2, m2, n + 1)
  BY <1>1, FunctionAdded
<1>3. Len(q2) = Len(q) + 1 /\ o2[Len(q) + 1] = n + 1
  BY <1>1, FromIs DEF Longer
<1>4. Len(q2) \in m2 /\ o2[Len(q2)] = n + 1
  BY <1>3
<1>5. m \subseteq 1 .. Len(q) /\ Len(q) \in Nat
  BY <1>1 DEF Traced, Longer
<1>6. Worded(p, B, q2, o2, m)
  <2> QED
    BY <1>1, <1>5, WordedLonger
<1>7. m2 \ {Len(q2)} = m
  BY <1>3, <1>5
<1>8. Kind(p, n + 1) # "constructor" => Worded(p, B, q2, o2, m2)
  BY <1>3, <1>6 DEF Worded
<1> HIDE DEF o2, m2
<1> QED
  BY <1>1, <1>2, <1>4, <1>6, <1>7, <1>8 DEF Traceable, q2

\* One line of the text.
LEMMA LineTraced ==
  ASSUME Tree(program), NEW n \in Nat, n + 1 \in 1 .. Len(program),
         NEW q, Sequence(q), Traceable(program, bindings, q, n)
  PROVE  LET q2 == q \o LoweredLines(n + 1)
         IN  Sequence(q2) /\ Traceable(program, bindings, q2, n + 1)
<1> DEFINE i == n + 1
           p == program
           B == bindings
           k == Kind(p, i)
           c == ClassOf(p, i)
           q2 == q \o LoweredLines(i)
<1>1. PICK o, m : /\ Traced(p, q, o, m, n) /\ (n # 0 => Ongoing(p, q, o, m, n))
                  /\ Worded(p, B, q, o, m)
  BY DEF Traceable
<1>2. /\ n + 1 # 0
      /\ k \in {"function", "class", "field", "constructor", "method",
                "variable", "expression", "block", "branch"}
  BY KindsOfLines
<1>3. CASE ~Kept(p, i)
  <2>1. LoweredLines(i) = <<>>
    BY <1>3, LoweredLinesAre DEF Kept
  <2>2. q2 = q
    BY <2>1, NothingMore
  <2>3. Traced(p, q, o, m, i) /\ Ongoing(p, q, o, m, i)
    BY <1>1, <1>3, LineLeftOut
  <2>4. Traceable(p, B, q, i)
    BY <1>1, <2>3 DEF Traceable
  <2> QED
    BY <2>2, <2>4
<1>4. CASE k = "method"
  <2> DEFINE l == At(1, Function(FunctionName(p, i), FunctionParams(p, i)))
  <2>1. LoweredLines(i) = <<l>>
    BY <1>4, LoweredLinesAre
  <2>2. /\ WellFormed(l) /\ l.depth = 1 /\ l.node.kind = "function"
        /\ l.node.name = FunctionName(p, i) /\ l.node.params = FunctionParams(p, i)
        /\ l.node.expr = Nothing
    BY FunctionLine
  <2>3. k \in Functions
    BY <1>4 DEF Functions
  <2> HIDE DEF l
  <2>4. Hir(p, B, i, "function", l.node.expr)
    BY <1>4, <2>2 DEF Hir, Statements
  <2> QED
    BY <2>1, <2>2, <2>3, <2>4, <1>1, <1>4, FunctionTraced
<1>5. CASE k = "function"
  <2> DEFINE e == NewLowered(p[i].node.expr, DOMAIN B)
             l == At(1, WithExpr(p[i].node, e))
  <2>1. p[i].depth = 1 /\ c = 0
    <3>1. p[i].depth = 1
      BY <1>5, TreePlaced DEF Depth
    <3>2. ASSUME c # 0 PROVE FALSE
      <4>1. Encloses(p, c, i)
        BY <3>2, ClassOfIs
      <4>2. c \in 1 .. Len(p) /\ Depth(p, c) < Depth(p, i)
        BY <4>1, Nested
      <4>3. Depth(p, c) \in Nat /\ Depth(p, c) >= 1
        BY <4>2, TreeLines
      <4> QED
        BY <4>2, <4>3, <3>1 DEF Depth
    <3> QED
      BY <3>1, <3>2
  <2>2. LoweredLines(i) = <<l>>
    BY <1>5, <2>1, LoweredLinesAre DEF Depth
  <2>3. /\ WellFormed(l) /\ l.depth = 1 /\ l.node.kind = k
        /\ l.node.name = NameAt(p, i) /\ l.node.params = Params(p, i)
    <3>1. 1 \in Nat
      OBVIOUS
    <3> QED
      BY <3>1, NodeKept
  <2>6. l.node.expr = e
    <3>1. 1 \in Nat /\ Tree(program) /\ i \in 1 .. Len(program)
      OBVIOUS
    <3> HIDE DEF e, i
    <3> QED
      BY <3>1, NodeKept
  <2>4. /\ k \in Functions /\ l.node.kind = "function"
        /\ FunctionName(p, i) = NameAt(p, i) /\ FunctionParams(p, i) = Params(p, i)
    BY <1>5, <2>3 DEF Functions, FunctionName, FunctionParams
  <2> HIDE DEF l
  <2>5. Hir(p, B, i, "function", l.node.expr)
    <3>1. k \notin {"constructor", "method"}
      BY <1>5
    <3> QED
      BY <2>1, <2>6, <3>1 DEF Hir
  <2> HIDE DEF e
  <2>7. /\ l.node.name = FunctionName(p, i) /\ l.node.params = FunctionParams(p, i)
        /\ k # "constructor" /\ Kind(p, i) \in Functions
    BY <2>3, <2>4, <1>5
  <2> QED
    BY <2>2, <2>3, <2>4, <2>5, <2>7, <1>1, <1>5, FunctionTraced
<1>6. CASE k = "constructor"
  <2> DEFINE l == At(1, Function(FunctionName(p, i), FunctionParams(p, i)))
             size == Literal(Size(bindings[ClassName(p, i)]))
             h == At(2, Variable("this", FunctionCall("malloc", <<size>>)))
             q1 == q \o <<l>>
  <2>1. LoweredLines(i) = <<l, h>>
    BY <1>6, LoweredLinesAre
  <2>2. /\ WellFormed(l) /\ l.depth = 1 /\ l.node.kind = "function"
        /\ l.node.name = FunctionName(p, i) /\ l.node.params = FunctionParams(p, i)
        /\ l.node.expr = Nothing
    BY FunctionLine
  <2>3. /\ WellFormed(h) /\ h.depth = 2 /\ h.node.kind = "variable" /\ h.node.name = "this"
        /\ h.node.expr = FunctionCall("malloc", <<size>>)
    BY MadeLines
  <2>10. Hir(p, B, i, h.node.kind, h.node.expr)
    BY <1>6, <2>3 DEF Hir, Statements
  <2>4. k \in Functions
    BY <1>6 DEF Functions
  <2> HIDE DEF l, h
  <2>5. Sequence(q1) /\ \E o2, m2 : /\ Traced(p, q1, o2, m2, i) /\ Ongoing(p, q1, o2, m2, i)
                                    /\ Len(q1) \in m2 /\ o2[Len(q1)] = i
                                    /\ Worded(p, B, q1, o2, m2 \ {Len(q1)})
    <3>1. Hir(p, B, i, "function", l.node.expr)
      BY <1>6, <2>2 DEF Hir, Statements
    <3> QED
      BY <2>2, <2>4, <3>1, <1>1, FunctionTraced
  <2>6. q2 = q1 \o <<h>>
    <3>0. Sequence(q)
      BY <1>1
    <3>1. q \o <<l, h>> = (q \o <<l>>) \o <<h>>
      BY <3>0, AddedTwice
    <3> QED
      BY <2>1, <3>1, Zenon
  <2> HIDE DEF q1
  <2>7. PICK o2, m2 : /\ Traced(p, q1, o2, m2, i) /\ Ongoing(p, q1, o2, m2, i)
                      /\ Len(q1) \in m2 /\ o2[Len(q1)] = i
                      /\ Worded(p, B, q1, o2, m2 \ {Len(q1)})
    BY <2>5
  <2>8. Longer(q1, q2, h) /\ Sequence(q2)
    BY <2>5, <2>6, OneMore
  <2> HIDE DEF q2
  <2>9. Traced(p, q2, From(q1, o2, i), m2, i) /\ Ongoing(p, q2, From(q1, o2, i), m2, i)
    BY <2>3, <2>7, <2>8, <1>6, ThisAdded
  <2>11. Worded(p, B, q2, From(q1, o2, i), m2)
    <3>1. m2 \subseteq 1 .. Len(q1)
      BY <2>7 DEF Traced
    <3> QED
      BY <2>3, <2>7, <2>8, <2>10, <3>1, ObjectWorded
  <2> QED
    BY <2>8, <2>9, <2>11 DEF Traceable, q2
<1>7. CASE k \in Statements
  <2> DEFINE d == LoweredDepth(p, i)
             e == IF c # 0 THEN ClassLowered(p[i].node.expr, p[c].node.name, bindings[p[c].node.name])
                  ELSE NewLowered(p[i].node.expr, DOMAIN bindings)
             l == At(d, WithExpr(p[i].node, e))
  <2>1. LoweredLines(i) = <<l>>
    <3>1. k \notin {"class", "field", "constructor", "method"}
      BY <1>7 DEF Statements
    <3>2. CASE c = 0
      BY <3>1, <3>2, LoweredLinesAre DEF LoweredDepth
    <3>3. CASE c # 0
      BY <3>1, <3>3, LoweredLinesAre DEF LoweredDepth
    <3> QED
      BY <3>2, <3>3
  <2>2. d \in Nat
    BY <1>7, StatementPlaced
  <2>3. /\ WellFormed(l) /\ l.depth = d /\ l.node.kind = k /\ l.node.name = NameAt(p, i)
        /\ l.node.expr = e
    BY <2>2, NodeKept
  <2>6. Hir(p, B, i, k, e)
    <3>1. CASE c = 0
      <4>1. e = NewLowered(p[i].node.expr, DOMAIN bindings)
        BY <3>1
      <4> HIDE DEF e
      <4> QED
        BY <1>7, <3>1, <4>1 DEF Hir, Statements
    <3>2. CASE c # 0
      <4>1. e = ClassLowered(p[i].node.expr, ClassName(p, i), bindings[ClassName(p, i)])
        BY <3>2 DEF ClassName, NameAt
      <4> HIDE DEF e
      <4> QED
        BY <1>7, <3>2, <4>1 DEF Hir, Statements
    <3> QED
      BY <3>1, <3>2
  <2>4. Longer(q, q2, l) /\ Sequence(q2)
    BY <2>1, OneMore
  <2> HIDE DEF l, q2, d, e
  <2>5. LET o2 == From(q, o, i)
            m2 == m \cup {Len(q) + 1}
        IN  Traced(p, q2, o2, m2, i) /\ Ongoing(p, q2, o2, m2, i)
    BY <2>3, <2>4, <1>1, <1>7, StatementAdded DEF d
  <2>7. LET o2 == From(q, o, i)
            m2 == m \cup {Len(q) + 1}
        IN  Worded(p, B, q2, o2, m2)
    <3>1. Worded(p, B, q2, From(q, o, i), m)
      <4>1. m \subseteq 1 .. Len(q)
        BY <1>1 DEF Traced
      <4> QED
        BY <1>1, <2>3, <2>4, <2>6, <4>1, WordedLonger
    <3>2. From(q, o, i)[Len(q) + 1] = i
      BY <2>4, FromIs DEF Longer
    <3> QED
      BY <1>7, <3>1, <3>2 DEF Worded, Statements
  <2> QED
    BY <2>4, <2>5, <2>7 DEF Traceable, q2
<1> QED
  BY <1>2, <1>3, <1>4, <1>5, <1>6, <1>7 DEF Kept, Statements

LEMMA ReturnTraced ==
  ASSUME Tree(program), NEW n \in Nat, n <= Len(program),
         NEW q, Sequence(q), Traceable(program, bindings, q, n)
  PROVE  LET q2 == q \o Returned(n + 1)
         IN  Sequence(q2) /\ Sequence(Returned(n + 1)) /\ Traceable(program, bindings, q2, n)
<1> DEFINE i == n + 1
           p == program
           B == bindings
           l == At(2, Expression(Id("this")))
           Ends(k) == /\ p[k].node.kind = "constructor"
                      /\ Within(p, i - 1, k) \/ k = i - 1
                      /\ i > Len(p) \/ ~Within(p, i, k)
           q2 == q \o Returned(i)
<1>1. CASE ~\E k \in 1 .. i - 1 : Ends(k)
  <2>1. Returned(i) = <<>>
    BY <1>1 DEF Returned
  <2> QED
    BY <2>1, NothingMore, Singles
<1>2. CASE \E k \in 1 .. i - 1 : Ends(k)
  <2>1. PICK g \in 1 .. n : Ends(g)
    BY <1>2
  <2>2. n \in 1 .. Len(p) /\ n # 0
    BY TreeLines
  <2>3. Kind(p, g) = "constructor" /\ (g = n \/ Encloses(p, g, n))
    BY <2>1, <2>2, WithinMeans DEF Kind
  <2>4. PICK o, m : Traced(p, q, o, m, n) /\ Ongoing(p, q, o, m, n) /\ Worded(p, B, q, o, m)
    BY <2>2 DEF Traceable
  <2>5. Returned(i) = <<l>>
    BY <1>2 DEF Returned
  <2>6. Longer(q, q2, l) /\ Sequence(q2)
    BY <2>5, OneMore
  <2>7. WellFormed(l) /\ l.depth = 2 /\ l.node.kind = "expression" /\ l.node.expr = Id("this")
    BY MadeLines
  <2> HIDE DEF l, q2
  <2>8. Traced(p, q2, From(q, o, g), m, n) /\ Ongoing(p, q2, From(q, o, g), m, n)
    BY <2>2, <2>3, <2>4, <2>6, <2>7, ReturnAdded
  <2>9. Worded(p, B, q2, From(q, o, g), m)
    <3>1. m \subseteq 1 .. Len(q)
      BY <2>4 DEF Traced
    <3>2. Hir(p, B, g, l.node.kind, l.node.expr)
      BY <2>3, <2>7 DEF Hir, Statements
    <3> QED
      BY <2>4, <2>6, <3>1, <3>2, WordedLonger
  <2> QED
    BY <2>5, <2>6, <2>8, <2>9, Singles DEF Traceable, q2
<1> QED
  BY <1>1, <1>2

LEMMA NothingTraced == \A p, B : Sequence(<<>>) /\ Traceable(p, B, <<>>, 0)
<1> TAKE p, B
<1>1. Traced(p, <<>>, <<>>, {}, 0) /\ Worded(p, B, <<>>, <<>>, {})
  BY DEF Traced, Worded
<1> QED
  BY <1>1, Singles DEF Traceable

\* The first n lines of the text, flattened.
LEMMA LinesTraced ==
  ASSUME Tree(program), Len(program) # 0,
         NEW g, IsFlattening(g, [i \in 1 .. Len(program) |-> Returned(i) \o LoweredLines(i)], Len(program))
  PROVE  \A n \in 1 .. Len(program) : Sequence(g[n]) /\ Traceable(program, bindings, g[n], n)
<1> DEFINE N == Len(program)
           Good(n) == Sequence(g[n]) /\ Traceable(program, bindings, g[n], n)
           Bad == {n \in 1 .. N : ~Good(n)}
<1>1. N \in Nat
  BY TreeLines
<1>2. \A i \in 1 .. N : g[i] = IF i = 1 THEN Returned(i) \o LoweredLines(i)
                               ELSE g[i - 1] \o (Returned(i) \o LoweredLines(i))
  <2> DEFINE ss == [i \in 1 .. N |-> Returned(i) \o LoweredLines(i)]
  <2>1. \A i \in 1 .. N : ss[i] = Returned(i) \o LoweredLines(i)
    OBVIOUS
  <2>2. g = [i \in 1 .. N |-> IF i = 1 THEN ss[i] ELSE g[i - 1] \o ss[i]]
    BY DEF IsFlattening
  <2> HIDE DEF ss
  <2>3. \A i \in 1 .. N : g[i] = IF i = 1 THEN ss[i] ELSE g[i - 1] \o ss[i]
    BY <2>2, Zenon
  <2> QED
    BY <2>1, <2>3, Zenon
<1>3. SUFFICES ASSUME Bad # {} PROVE FALSE
  OBVIOUS
<1>4. PICK b \in Bad : \A n \in Bad : b <= n
  <2>1. Bad \subseteq Nat
    BY <1>1
  <2> QED
    BY <1>3, <2>1, LeastNatural
<1> DEFINE q == IF b = 1 THEN <<>> ELSE g[b - 1]
           n == b - 1
           r == Returned(b)
           t == LoweredLines(b)
<1>5. b \in 1 .. N /\ n \in Nat /\ n + 1 = b /\ n <= N /\ n + 1 \in 1 .. N
  BY <1>1, <1>4
<1>6. Sequence(q) /\ Traceable(program, bindings, q, n)
  <2>1. CASE b = 1
    BY <2>1, NothingTraced
  <2>2. CASE b # 1
    <3>1. n \in 1 .. N /\ n \notin Bad
      BY <2>2, <1>1, <1>4
    <3> QED
      BY <3>1, <2>2
  <2> QED
    BY <2>1, <2>2
<1> HIDE DEF q, n
<1>7. Sequence(q \o r) /\ Sequence(r) /\ Traceable(program, bindings, q \o r, n)
  BY <1>5, <1>6, ReturnTraced
<1>8. Sequence((q \o r) \o t) /\ Traceable(program, bindings, (q \o r) \o t, b)
  BY <1>5, <1>7, LineTraced
<1>9. Sequence(t)
  <2>1. t = <<>> \/ (\E x : t = <<x>>) \/ (\E x, y : t = <<x, y>>)
    <3>1. CASE Kind(program, b) \in {"class", "field"}
      BY <3>1, LoweredLinesAre
    <3>2. CASE Kind(program, b) = "constructor"
      BY <3>2, LoweredLinesAre
    <3>3. CASE Kind(program, b) = "method"
      BY <3>3, LoweredLinesAre
    <3>4. CASE Kind(program, b) \notin {"class", "field", "constructor", "method"}
      BY <3>4, LoweredLinesAre
    <3> QED
      BY <3>1, <3>2, <3>3, <3>4
  <2>2. Sequence(<<>>) /\ (\A x : Sequence(<<x>>)) /\ (\A x, y : Sequence(<<x, y>>))
    BY Singles
  <2> HIDE DEF t
  <2> QED
    BY <2>1, <2>2
<1>10. (q \o r) \o t = q \o (r \o t)
  <2> HIDE DEF r, t
  <2> QED
    BY <1>6, <1>7, <1>9, Concatenated
<1>11. g[b] = q \o (r \o t)
  <2>1. CASE b = 1
    <3>1. Sequence(r \o t) /\ q = <<>>
      BY <2>1, <1>6, <1>8, <1>10, NothingMore, <1>7 DEF q
    <3>2. <<>> \o (r \o t) = r \o t
      BY <3>1, NothingMore
    <3> QED
      BY <2>1, <3>1, <3>2, <1>2, <1>5
  <2>2. CASE b # 1
    BY <2>2, <1>2, <1>5 DEF q
  <2> QED
    BY <2>1, <2>2
<1>12. Good(b)
  BY <1>8, <1>10, <1>11
<1> QED
  BY <1>4, <1>12

\* Every line of what HirLower makes of a text has its origin there.
HirLines ==
  FlattenSeq([i \in 1 .. Len(program) |-> Returned(i) \o LoweredLines(i)])
    \o Returned(Len(program) + 1)

LEMMA HirTraced ==
  ASSUME Tree(program)
  PROVE  /\ Sequence(HirLines)
         /\ \E o, m : /\ Traced(program, HirLines, o, m, Len(program))
                      /\ Worded(program, bindings, HirLines, o, m)
<1> DEFINE N == Len(program)
           e(i) == Returned(i) \o LoweredLines(i)
           ss == [i \in 1 .. N |-> e(i)]
           q == FlattenSeq(ss)
<1>1. HirLines = q \o Returned(N + 1)
  BY DEF HirLines
<1>2. N \in Nat
  BY TreeLines
<1>3. ss \in Seq({e(i) : i \in 1 .. N})
  <2>1. \A i \in 1 .. N : e(i) \in {e(j) : j \in 1 .. N}
    OBVIOUS
  <2> HIDE DEF e
  <2> QED
    BY <1>2, <2>1, IsASeq
<1>4. Len(ss) = N
  <2>1. Len(ss) \in Nat /\ DOMAIN ss = 1 .. Len(ss) /\ DOMAIN ss = 1 .. N
    BY <1>3, LenProperties
  <2> HIDE DEF ss
  <2> QED
    BY <2>1, <1>2
<1>5. Sequence(q) /\ Traceable(program, bindings, q, N)
  <2>1. CASE N = 0
    <3>1. ss = <<>>
      <4> HIDE DEF ss, e
      <4> QED
        BY <1>3, <1>4, <2>1, EmptySeq
    <3>2. q = <<>>
      BY <3>1, <1>4, <2>1 DEF FlattenSeq
    <3> QED
      BY <2>1, <3>2, NothingTraced
  <2>2. CASE N # 0
    <3>1. PICK g : IsFlattening(g, ss, N) /\ q = g[N]
      <4> HIDE DEF ss
      <4> QED
        BY <1>2, <1>4, <2>2, FlattenIs
    <3>2. N \in 1 .. N
      BY <1>2, <2>2
    <3> QED
      BY <3>1, <3>2, <2>2, LinesTraced
  <2> QED
    BY <2>1, <2>2
<1> HIDE DEF q
<1>6. Sequence(HirLines) /\ Traceable(program, bindings, HirLines, N)
  BY <1>1, <1>2, <1>5, ReturnTraced
<1> QED
  BY <1>6 DEF Traceable

-----------------------------------------------------------------------------
(* MirLower.                                                                 *)

\* Only the expressions of a line may differ.
AlikeIn(q, q2) ==
  /\ Len(q2) = Len(q)
  /\ \A k \in 1 .. Len(q) :
       /\ WellFormed(q2[k]) /\ Kind(q2, k) = Kind(q, k) /\ Depth(q2, k) = Depth(q, k)
       /\ NameAt(q2, k) = NameAt(q, k) /\ Params(q2, k) = Params(q, k)

LEMMA TracedAlike ==
  ASSUME NEW p, NEW q, Len(q) \in Nat, NEW q2, AlikeIn(q, q2),
         NEW o, NEW m, NEW n, Traced(p, q, o, m, n)
  PROVE  Traced(p, q2, o, m, n)
<1>1. /\ m \subseteq 1 .. Len(q)
      /\ \A k \in 1 .. Len(q) : /\ Kind(q2, k) = Kind(q, k) /\ Depth(q2, k) = Depth(q, k)
                                /\ NameAt(q2, k) = NameAt(q, k) /\ Params(q2, k) = Params(q, k)
  BY DEF Traced, AlikeIn
<1>2. ASSUME NEW k \in 1 .. Len(q), NEW f
      PROVE  Owned(q2, f, k) <=> Owned(q, f, k)
  <2>1. f \in 1 .. k - 1 => f \in 1 .. Len(q) /\ \A j \in f + 1 .. k : j \in 1 .. Len(q)
    OBVIOUS
  <2> QED
    BY <1>1, <2>1 DEF Owned
<1>3. ASSUME NEW k \in m PROVE Image(p, q2, o, m, k)
  <2>1. Image(p, q, o, m, k) /\ k \in 1 .. Len(q)
    BY <1>1 DEF Traced
  <2>2. CASE Kind(p, o[k]) \in Functions
    BY <2>1, <2>2, <1>1 DEF Image, FunctionImage
  <2>3. CASE Kind(p, o[k]) \notin Functions
    <3>1. StatementImage(p, q, o, m, k)
      BY <2>1, <2>3 DEF Image
    <3>2. StatementImage(p, q2, o, m, k)
      BY <2>1, <3>1, <1>1, <1>2 DEF StatementImage
    <3> QED
      BY <2>1, <2>3, <3>2 DEF Image
  <2> QED
    BY <2>2, <2>3
<1>4. ASSUME NEW k \in 1 .. Len(q) \ m PROVE Synthetic(p, q2, o, m, k)
  <2>1. Synthetic(p, q, o, m, k)
    BY DEF Traced
  <2> QED
    BY <2>1, <1>1, <1>2 DEF Synthetic
<1> QED
  BY <1>3, <1>4 DEF Traced, AlikeIn

LEMMA MirTraced ==
  ASSUME Sequence(program), MirLower,
         NEW p, NEW o, NEW m, NEW n, Traced(p, program, o, m, n)
  PROVE  Sequence(program') /\ Traced(p, program', o, m, n)
<1> DEFINE q == program
           e(i) == [q[i] EXCEPT !.node.expr = MirLowered(@)]
<1>1. Len(q) \in Nat /\ DOMAIN q = 1 .. Len(q)
  BY LenProperties DEF Sequence
<1>2. program' = [i \in 1 .. Len(q) |-> e(i)]
  BY <1>1 DEF MirLower
<1>3. program' \in Seq({e(i) : i \in 1 .. Len(q)})
  <2>1. \A i \in 1 .. Len(q) : e(i) \in {e(j) : j \in 1 .. Len(q)}
    OBVIOUS
  <2> HIDE DEF e
  <2> QED
    BY <1>1, <1>2, <2>1, IsASeq
<1>4. Len(program') = Len(q)
  <2>1. Len(program') \in Nat /\ DOMAIN program' = 1 .. Len(program') /\ DOMAIN program' = 1 .. Len(q)
    BY <1>2, <1>3, LenProperties
  <2> QED
    BY <2>1, <1>1, SameInterval
<1>5. ASSUME NEW k \in 1 .. Len(q)
      PROVE  /\ WellFormed(program'[k])
             /\ program'[k].node.kind = q[k].node.kind /\ program'[k].depth = q[k].depth
             /\ program'[k].node.name = q[k].node.name
             /\ program'[k].node.params = q[k].node.params
  <2> DEFINE l == q[k]
  <2>1. program'[k] = e(k) /\ WellFormed(l)
    BY <1>2 DEF Traced
  <2> HIDE DEF l
  <2>2. l = At(l.depth, Node(l.node.kind, l.node.name, l.node.params, l.node.expr))
        /\ l.depth \in Nat
    BY <2>1 DEF WellFormed
  <2>3. [l EXCEPT !.node.expr = MirLowered(@)]
          = At(l.depth, Node(l.node.kind, l.node.name, l.node.params, MirLowered(l.node.expr)))
    BY <2>2 DEF At, Node
  <2>4. program'[k] = At(l.depth, Node(l.node.kind, l.node.name, l.node.params, MirLowered(l.node.expr)))
    BY <2>1, <2>3 DEF l
  <2> QED
    BY <2>2, <2>4 DEF WellFormed, At, Node, l
<1>6. AlikeIn(q, program')
  BY <1>4, <1>5 DEF AlikeIn, Kind, Depth, NameAt, Params
<1>7. Sequence(program')
  BY <1>3 DEF Sequence
<1> QED
  BY <1>1, <1>6, <1>7, TracedAlike

\* The expressions of a lowered program, and that its constructors allocate.
Translated(p, B, q, o, m) ==
  /\ \A k \in 1 .. Len(q) :
       \E h : /\ Hir(p, B, o[k], Kind(q, k), h) /\ ~Has(h, "panic") /\ Printable(h)
             /\ q[k].node.expr = MirLowered(h)
  /\ \A f \in m : Kind(p, o[f]) = "constructor" => Allocates(q, f)

LEMMA MirTranslated ==
  ASSUME Sequence(program), MirLower,
         \A k \in 1 .. Len(program) : ~Has(program[k].node.expr, "panic") /\ Printable(program[k].node.expr),
         NEW p, NEW B, NEW o, NEW m, NEW n, Traced(p, program, o, m, n), Worded(p, B, program, o, m)
  PROVE  Translated(p, B, program', o, m)
<1> DEFINE q == program
           r == program'
           e(i) == [q[i] EXCEPT !.node.expr = MirLowered(@)]
<1>1. Len(q) \in Nat /\ DOMAIN q = 1 .. Len(q)
  BY LenProperties DEF Sequence
<1>2. r = [i \in 1 .. Len(q) |-> e(i)]
  BY <1>1 DEF MirLower
<1>3. Sequence(r)
  BY MirTraced
<1>4. Len(r) = Len(q)
  <2>1. Len(r) \in Nat /\ DOMAIN r = 1 .. Len(r) /\ DOMAIN r = 1 .. Len(q)
    BY <1>2, <1>3, LenProperties DEF Sequence
  <2> QED
    BY <2>1, <1>1, SameInterval
<1>5. ASSUME NEW k \in 1 .. Len(q)
      PROVE  /\ r[k].node.kind = q[k].node.kind /\ r[k].depth = q[k].depth
             /\ r[k].node.name = q[k].node.name
             /\ r[k].node.expr = MirLowered(q[k].node.expr)
  <2> DEFINE l == q[k]
  <2>1. r[k] = e(k) /\ WellFormed(l)
    BY <1>2 DEF Traced
  <2> HIDE DEF l
  <2>2. l = At(l.depth, Node(l.node.kind, l.node.name, l.node.params, l.node.expr))
    BY <2>1 DEF WellFormed
  <2>3. [l EXCEPT !.node.expr = MirLowered(@)]
          = At(l.depth, Node(l.node.kind, l.node.name, l.node.params, MirLowered(l.node.expr)))
    BY <2>2 DEF At, Node
  <2>4. r[k] = At(l.depth, Node(l.node.kind, l.node.name, l.node.params, MirLowered(l.node.expr)))
    BY <2>1, <2>3 DEF l
  <2> HIDE DEF r
  <2> QED
    BY <2>4 DEF At, Node, l
<1> HIDE DEF r, e
<1>6. ASSUME NEW k \in 1 .. Len(r)
      PROVE  \E h : Hir(p, B, o[k], Kind(r, k), h) /\ ~Has(h, "panic") /\ Printable(h) /\ r[k].node.expr = MirLowered(h)
  BY <1>4, <1>5 DEF Worded, Kind
<1>7. ASSUME NEW f \in m, Kind(p, o[f]) = "constructor" PROVE Allocates(r, f)
  <2>1. Allocates(q, f)
    BY <1>7 DEF Worded
  <2> QED
    BY <1>4, <1>5, <2>1 DEF Allocates, Kind, Depth, NameAt
<1>8. Translated(p, B, r, o, m)
  BY <1>6, <1>7 DEF Translated
<1> QED
  BY <1>8 DEF r
=============================================================================
