----------------------------- MODULE ScopeProofs -----------------------------
(***************************************************************************)
(* What holds of every text of Program, the bodies it nests and what the    *)
(* tree says a declaration belongs to; then what the scopes of semantic     *)
(* analysis hold when they hold what the text declares, and what a name     *)
(* found or missed in them says of it.                                      *)
(***************************************************************************)
EXTENDS Semantics, SequenceTheorems, WellFoundedInduction, TLAPS

-----------------------------------------------------------------------------
(* Least and greatest elements.                                             *)

Less == OpToRel(<, Nat)

LEMMA LessMeans == \A x, y \in Nat : x < y => <<x, y>> \in Less
BY DEF Less, OpToRel

\* The natural numbers are well ordered, which stands for induction below.
LEMMA LeastNatural ==
  ASSUME NEW S, S \subseteq Nat, S # {}
  PROVE  \E m \in S : \A k \in S : m <= k
<1>1. IsWellFoundedOn(Less, Nat)
  BY NatLessThanWellFounded, Zenon DEF Less
<1>2. PICK m \in S : \A k \in S : ~(<<k, m>> \in Less)
  BY <1>1, WFMin, Zenon
<1>3. \A k \in S : ~(k < m)
  BY <1>2, LessMeans
<1>4. \A k \in S : m <= k
  BY <1>3
<1> QED
  BY <1>4

LEMMA GreatestNatural ==
  ASSUME NEW S, S \subseteq Nat, S # {}, NEW n \in Nat, \A k \in S : k <= n
  PROVE  \E m \in S : \A k \in S : k <= m
<1> DEFINE T == {n - k : k \in S}
<1>1. T \subseteq Nat /\ T # {}
  <2>1. \A k \in S : k \in Nat /\ k <= n /\ n - k \in Nat
    OBVIOUS
  <2>2. T \subseteq Nat
    BY <2>1
  <2>3. T # {}
    <3>1. PICK k \in S : TRUE
      OBVIOUS
    <3> QED
      BY <3>1
  <2> QED
    BY <2>2, <2>3
<1>2. PICK t \in T : \A u \in T : t <= u
  <2> HIDE DEF T
  <2> QED
    BY <1>1, LeastNatural
<1>3. PICK m \in S : t = n - m
  OBVIOUS
<1>4. ASSUME NEW k \in S
      PROVE  k <= m
  <2>1. n - m <= n - k
    BY <1>2, <1>3
  <2> QED
    BY <2>1
<1> QED
  BY <1>4

LEMMA MinFacts ==
  ASSUME NEW S, S \subseteq Nat, S # {}
  PROVE  Min(S) \in S /\ \A k \in S : Min(S) <= k
BY LeastNatural DEF Min

LEMMA MaxFacts ==
  ASSUME NEW S, S \subseteq Nat, S # {}, NEW n \in Nat, \A k \in S : k <= n
  PROVE  Max(S) \in S /\ \A k \in S : k <= Max(S)
<1>1. PICK m \in S : \A k \in S : k <= m
  BY GreatestNatural
<1>2. \E x \in S : \A y \in S : x >= y
  BY <1>1
<1>3. Max(S) \in S /\ \A y \in S : Max(S) >= y
  BY <1>2, Zenon DEF Max
<1> QED
  BY <1>3

\* The element of S that none exceeds is its greatest.
LEMMA MaxIs ==
  ASSUME NEW S, S \subseteq Nat, NEW m \in S, \A k \in S : k <= m
  PROVE  Max(S) = m
<1>1. S # {} /\ m \in Nat
  OBVIOUS
<1>2. Max(S) \in S /\ \A k \in S : k <= Max(S)
  BY <1>1, MaxFacts
<1>3. Max(S) \in Nat /\ Max(S) <= m /\ m <= Max(S)
  BY <1>2
<1> QED
  BY <1>1, <1>3

-----------------------------------------------------------------------------
(* Lines.                                                                   *)

Lines == [depth : 1..MaxDepth, node : Vocabulary]
Kind(p, i) == p[i].node.kind
Depth(p, i) == p[i].depth

\* Line i is in the body of line b.
Encloses(p, b, i) ==
  /\ b \in 1 .. i - 1
  /\ HasBody(p[b].node)
  /\ \A j \in b + 1 .. i : Depth(p, j) > Depth(p, b)

\* It is so, and in no body within that.
Parent(p, b, i) == Encloses(p, b, i) /\ Depth(p, b) = Depth(p, i) - 1

LEMMA TreeLines ==
  ASSUME NEW p, Tree(p)
  PROVE  /\ p \in Seq(Lines) /\ Len(p) \in Nat /\ DOMAIN p = 1 .. Len(p)
         /\ \A i \in 1 .. Len(p) : /\ Depth(p, i) \in Nat /\ Depth(p, i) >= 1
                                   /\ p[i].node \in Vocabulary
                                   /\ Depth(p, i) \in 1 .. MaxDepth
<1>1. p \in Seq(Lines)
  BY DEF Tree, Lines
<1>2. Len(p) \in Nat /\ DOMAIN p = 1 .. Len(p)
  BY <1>1, LenProperties
<1>3. \A i \in 1 .. Len(p) : p[i] \in Lines
  BY <1>1, <1>2, ElementOfSeq
<1> QED
  BY <1>1, <1>2, <1>3, ProgramAssumption DEF Lines, Depth

LEMMA KindsOfLines ==
  ASSUME NEW p, Tree(p), NEW i \in 1 .. Len(p)
  PROVE  /\ Kind(p, i) \in {"function", "class", "field", "constructor", "method",
                            "variable", "expression", "block", "branch"}
         /\ Kind(p, i) \in {"function", "class", "variable"} => p[i].node.name \in Names
         /\ p[i].node.params \in Seq(Names)
         /\ Kind(p, i) \notin Functions => p[i].node.params = <<>>
         /\ Kind(p, i) \notin {"variable", "expression", "branch"} =>
              Mentions(p[i].node.expr) = {} /\ News(p[i].node.expr) = {}
<1>1. p[i].node \in Vocabulary
  BY TreeLines
<1> QED
  BY <1>1, ProgramAssumption DEF Kind, Members, Functions

LEMMA PrefixFacts ==
  ASSUME NEW p \in Seq(Lines), NEW i \in 1 .. Len(p)
  PROVE  LET q == SubSeq(p, 1, i - 1)
         IN  /\ q \in Seq(Lines) /\ Len(q) = i - 1 /\ DOMAIN q = 1 .. i - 1
             /\ \A j \in 1 .. i - 1 : q[j] = p[j]
<1> DEFINE q == SubSeq(p, 1, i - 1)
<1>1. Len(p) \in Nat /\ i \in Nat /\ i >= 1 /\ i <= Len(p)
  BY LenProperties
<1>2. \A j \in 1 .. i - 1 : p[j] \in Lines
  BY <1>1, ElementOfSeq
<1>3. /\ q \in Seq(Lines)
      /\ Len(q) = IF 1 <= i - 1 THEN (i - 1) - 1 + 1 ELSE 0
      /\ \A j \in 1 .. (i - 1) - 1 + 1 : q[j] = p[1 + j - 1]
  BY <1>1, <1>2, SubSeqProperties
<1> HIDE DEF q
<1>4. Len(q) = i - 1
  <2>1. CASE i = 1
    BY <1>3, <2>1
  <2>2. CASE i > 1
    BY <1>1, <1>3, <2>2
  <2> QED
    BY <1>1, <2>1, <2>2
<1>5. ASSUME NEW j \in 1 .. i - 1
      PROVE  q[j] = p[j]
  <2>1. j \in 1 .. (i - 1) - 1 + 1 /\ 1 + j - 1 = j
    BY <1>1
  <2> QED
    BY <1>3, <2>1
<1>6. DOMAIN q = 1 .. i - 1
  BY <1>3, <1>4, LenProperties
<1> QED
  BY <1>3, <1>4, <1>5, <1>6 DEF q

-----------------------------------------------------------------------------
(* What may follow.                                                         *)

Deepest(p) ==
  IF p = <<>> THEN 1 ELSE Last(p).depth + (IF HasBody(Last(p).node) THEN 1 ELSE 0)
InAClass(p, d) == d > 1 /\ p[Max({i \in DOMAIN p : p[i].depth = d - 1})].node.kind = "class"

LEMMA ContinuationMeans ==
  ASSUME NEW p, Deepest(p) \in Nat, NEW s \in Continuations(p)
  PROVE  /\ s \in Lines /\ s.depth <= Deepest(p)
         /\ s.node.kind \in {"function", "class"} => s.depth = 1
         /\ s.node.kind \in Members => InAClass(p, s.depth)
         /\ s.node.kind \notin {"function", "class"} \cup Members => ~InAClass(p, s.depth)
<1> DEFINE Fits(d, v) ==
             CASE v.kind \in {"function", "class"} -> d = 1
               [] v.kind \in Members -> InAClass(p, d)
               [] OTHER -> ~InAClass(p, d)
<1>1. PICK d \in 1 .. Min({Deepest(p), MaxDepth}), v \in Vocabulary :
        Fits(d, v) /\ s = [depth |-> d, node |-> v]
  BY ZenonT(30) DEF Continuations, Deepest, InAClass, At
<1>2. Min({Deepest(p), MaxDepth}) \in Nat /\ Min({Deepest(p), MaxDepth}) <= Deepest(p)
      /\ Min({Deepest(p), MaxDepth}) <= MaxDepth
  <2> DEFINE S == {Deepest(p), MaxDepth}
  <2>1. S \subseteq Nat /\ S # {} /\ Deepest(p) \in S /\ MaxDepth \in S
    BY ProgramAssumption
  <2>2. Min(S) \in S /\ \A k \in S : Min(S) <= k
    <3> HIDE DEF S
    <3> QED
      BY <2>1, MinFacts
  <2> QED
    BY <2>1, <2>2
<1>3. s.depth = d /\ s.node = v /\ d <= Deepest(p) /\ d \in 1 .. MaxDepth
  BY <1>1, <1>2, ProgramAssumption
<1>4. /\ v.kind \in {"function", "class"} => d = 1
      /\ v.kind \in Members => InAClass(p, d)
      /\ v.kind \notin {"function", "class"} \cup Members => ~InAClass(p, d)
  <2>1. Members \cap {"function", "class"} = {}
    BY DEF Members
  <2> QED
    BY <1>1, <2>1
<1> QED
  BY <1>1, <1>3, <1>4 DEF Lines

-----------------------------------------------------------------------------
(* The bodies around a line.                                                *)

\* A line is at most one deeper than the line before it, and deeper only if
\* that has a body.
LEMMA TreeSteady ==
  ASSUME NEW p, Tree(p), NEW i \in 1 .. Len(p)
  PROVE  /\ i = 1 => Depth(p, i) = 1
         /\ i > 1 => Depth(p, i) <= Depth(p, i - 1) + (IF HasBody(p[i - 1].node) THEN 1 ELSE 0)
<1> DEFINE q == SubSeq(p, 1, i - 1)
<1>1. p \in Seq(Lines) /\ p[i] \in Continuations(q)
  BY TreeLines DEF Tree
<1>2. /\ q \in Seq(Lines) /\ Len(q) = i - 1 /\ DOMAIN q = 1 .. i - 1
      /\ \A j \in 1 .. i - 1 : q[j] = p[j]
  BY <1>1, PrefixFacts
<1>3. i \in Nat /\ i >= 1 /\ Len(p) \in Nat /\ i <= Len(p)
  BY TreeLines
<1> HIDE DEF q
<1>4. CASE i = 1
  <2>1. q = <<>>
    BY <1>2, <1>4, EmptySeq
  <2>2. Deepest(q) = 1
    BY <2>1 DEF Deepest
  <2>3. p[i] \in Lines /\ p[i].depth <= 1
    BY <1>1, <2>2, ContinuationMeans
  <2>4. p[i].depth \in Nat /\ p[i].depth >= 1
    BY TreeLines DEF Depth
  <2> QED
    BY <1>4, <2>3, <2>4 DEF Depth
<1>5. CASE i > 1
  <2>1. q # <<>> /\ Last(q) = p[i - 1]
    <3>1. i - 1 \in 1 .. i - 1 /\ Len(q) # 0
      BY <1>2, <1>3, <1>5
    <3>2. Last(q) = q[i - 1]
      BY <1>2 DEF Last
    <3>3. q # <<>>
      BY <3>1, <1>2, EmptySeq
    <3> QED
      BY <1>2, <3>1, <3>2, <3>3
  <2>2. Deepest(q) = Depth(p, i - 1) + (IF HasBody(p[i - 1].node) THEN 1 ELSE 0)
    BY <2>1 DEF Deepest, Depth
  <2>3. Depth(p, i - 1) \in Nat
    <3>1. i - 1 \in 1 .. Len(p)
      BY <1>3, <1>5
    <3> QED
      BY <3>1, TreeLines
  <2>4. Deepest(q) \in Nat
    BY <2>2, <2>3
  <2>5. p[i].depth <= Deepest(q)
    BY <1>1, <2>4, ContinuationMeans
  <2> QED
    BY <1>5, <2>2, <2>5 DEF Depth
<1> QED
  BY <1>3, <1>4, <1>5

\* A line is in a body of every smaller depth.
LEMMA Ancestor ==
  ASSUME NEW p, Tree(p), NEW i \in 1 .. Len(p), NEW k \in 1 .. Depth(p, i) - 1
  PROVE  \E b \in 1 .. i - 1 : Encloses(p, b, i) /\ Depth(p, b) = k
<1> DEFINE S == {j \in 1 .. i - 1 : Depth(p, j) <= k}
<1>1. /\ Len(p) \in Nat /\ i \in Nat /\ i <= Len(p) /\ i >= 1
      /\ \A j \in 1 .. Len(p) : Depth(p, j) \in Nat /\ Depth(p, j) >= 1
  BY TreeLines
<1>2. k \in Nat /\ k >= 1 /\ k < Depth(p, i)
  BY <1>1
<1>3. 1 \in 1 .. Len(p) /\ Depth(p, 1) = 1
  BY <1>1, TreeSteady
<1>4. i # 1
  BY <1>2, <1>3
<1>5. 1 \in S
  BY <1>1, <1>2, <1>3, <1>4
<1>6. PICK b \in S : \A j \in S : j <= b
  <2>1. S \subseteq Nat /\ S # {} /\ \A j \in S : j <= i
    BY <1>1, <1>5
  <2> HIDE DEF S
  <2> QED
    BY <1>1, <2>1, GreatestNatural
<1>7. b \in 1 .. i - 1 /\ Depth(p, b) <= k /\ b + 1 \in 1 .. Len(p) /\ b \in 1 .. Len(p)
  BY <1>1
<1>8. \A j \in b + 1 .. i : Depth(p, j) > k
  <2> SUFFICES ASSUME NEW j \in b + 1 .. i
               PROVE  Depth(p, j) > k
    OBVIOUS
  <2>1. CASE j = i
    BY <2>1, <1>2
  <2>2. CASE j # i
    <3>1. j \in 1 .. i - 1 /\ ~(j <= b) /\ Depth(p, j) \in Nat
      BY <1>1, <1>7, <2>2
    <3>2. ~(Depth(p, j) <= k)
      BY <1>6, <3>1
    <3> QED
      BY <1>2, <3>1, <3>2
  <2> QED
    BY <2>1, <2>2
<1>9. Depth(p, b + 1) > k /\ Depth(p, b) \in Nat /\ Depth(p, b + 1) \in Nat
  <2>1. b + 1 \in b + 1 .. i
    BY <1>1, <1>7
  <2> QED
    BY <1>1, <1>7, <1>8, <2>1
<1>10. Depth(p, b + 1) <= Depth(p, b) + (IF HasBody(p[b].node) THEN 1 ELSE 0)
  <2>1. b + 1 > 1 /\ (b + 1) - 1 = b
    BY <1>1, <1>7
  <2> QED
    BY <1>7, <2>1, TreeSteady
<1>11. HasBody(p[b].node)
  BY <1>2, <1>7, <1>9, <1>10
<1>12. Depth(p, b) = k
  BY <1>2, <1>7, <1>9, <1>10, <1>11
<1> QED
  BY <1>7, <1>8, <1>11, <1>12 DEF Encloses

\* Bodies nest: of two around a line, the one that begins first is around the
\* other, and has the smaller depth.
LEMMA Nested ==
  ASSUME NEW p, Tree(p), NEW i \in 1 .. Len(p), NEW b, NEW c,
         Encloses(p, b, i), Encloses(p, c, i)
  PROVE  /\ b < c => Encloses(p, b, c) /\ Depth(p, b) < Depth(p, c)
         /\ Depth(p, b) = Depth(p, c) => b = c
         /\ Depth(p, b) < Depth(p, c) => b < c
         /\ Depth(p, b) < Depth(p, i) /\ b \in 1 .. Len(p) /\ b < i
<1>1. /\ Len(p) \in Nat /\ i \in Nat /\ i <= Len(p)
      /\ \A j \in 1 .. Len(p) : Depth(p, j) \in Nat
  BY TreeLines
<1>2. b \in 1 .. i - 1 /\ c \in 1 .. i - 1 /\ b \in 1 .. Len(p) /\ c \in 1 .. Len(p)
  BY <1>1 DEF Encloses
<1>3. Depth(p, b) \in Nat /\ Depth(p, c) \in Nat /\ Depth(p, i) \in Nat
  BY <1>1, <1>2
<1>4. ASSUME b < c
      PROVE  Encloses(p, b, c) /\ Depth(p, b) < Depth(p, c)
  <2>1. \A j \in b + 1 .. c : j \in b + 1 .. i
    BY <1>1, <1>2
  <2>2. c \in b + 1 .. c /\ b \in 1 .. c - 1
    BY <1>1, <1>2, <1>4
  <2>3. \A j \in b + 1 .. c : Depth(p, j) > Depth(p, b)
    BY <2>1 DEF Encloses
  <2>4. Depth(p, c) > Depth(p, b)
    BY <2>2, <2>3
  <2> QED
    BY <1>3, <2>2, <2>3, <2>4 DEF Encloses
<1>5. ASSUME c < b
      PROVE  Depth(p, c) < Depth(p, b)
  <2>1. b \in c + 1 .. i
    BY <1>1, <1>2, <1>5
  <2>2. Depth(p, b) > Depth(p, c)
    BY <2>1 DEF Encloses
  <2> QED
    BY <1>3, <2>2
<1>6. Depth(p, b) < Depth(p, i)
  <2>1. i \in b + 1 .. i
    BY <1>1, <1>2
  <2>2. Depth(p, i) > Depth(p, b)
    BY <2>1 DEF Encloses
  <2> QED
    BY <1>3, <2>2
<1> QED
  BY <1>1, <1>2, <1>3, <1>4, <1>5, <1>6

LEMMA EnclosesTransitive ==
  ASSUME NEW p, Tree(p), NEW i \in 1 .. Len(p), NEW b, NEW c,
         Encloses(p, b, c), Encloses(p, c, i)
  PROVE  Encloses(p, b, i)
<1>1. Len(p) \in Nat /\ i \in Nat /\ i <= Len(p)
      /\ \A j \in 1 .. Len(p) : Depth(p, j) \in Nat
  BY TreeLines
<1>2. c \in 1 .. i - 1 /\ b \in 1 .. c - 1 /\ b \in 1 .. i - 1
  BY <1>1 DEF Encloses
<1>3. Depth(p, c) > Depth(p, b)
  <2>1. c \in b + 1 .. c
    BY <1>1, <1>2
  <2> QED
    BY <2>1 DEF Encloses
<1>4. ASSUME NEW j \in b + 1 .. i
      PROVE  Depth(p, j) > Depth(p, b)
  <2>1. CASE j <= c
    <3>1. j \in b + 1 .. c
      BY <1>1, <1>2, <2>1
    <3> QED
      BY <3>1 DEF Encloses
  <2>2. CASE j > c
    <3>1. j \in c + 1 .. i /\ j \in 1 .. Len(p) /\ b \in 1 .. Len(p) /\ c \in 1 .. Len(p)
      BY <1>1, <1>2, <2>2
    <3>2. Depth(p, j) > Depth(p, c)
      BY <3>1 DEF Encloses
    <3> QED
      BY <1>1, <1>3, <3>1, <3>2
  <2> QED
    BY <1>1, <1>2, <2>1, <2>2
<1> QED
  BY <1>2, <1>4 DEF Encloses

\* Functions and classes are in no body, the members of a class are directly in
\* it, and nothing else is.
LEMMA TreePlaced ==
  ASSUME NEW p, Tree(p), NEW i \in 1 .. Len(p)
  PROVE  /\ Kind(p, i) \in {"function", "class"} => Depth(p, i) = 1
         /\ Kind(p, i) \in Members => Depth(p, i) > 1
         /\ \A b \in 1 .. i - 1 : Parent(p, b, i) =>
              (Kind(p, i) \in Members <=> Kind(p, b) = "class")
<1> DEFINE q == SubSeq(p, 1, i - 1)
<1>1. p \in Seq(Lines) /\ p[i] \in Continuations(q)
  BY TreeLines DEF Tree
<1>2. /\ q \in Seq(Lines) /\ Len(q) = i - 1 /\ DOMAIN q = 1 .. i - 1
      /\ \A j \in 1 .. i - 1 : q[j] = p[j]
  BY <1>1, PrefixFacts
<1>3. /\ i \in Nat /\ i >= 1 /\ Len(p) \in Nat /\ i <= Len(p)
      /\ \A j \in 1 .. Len(p) : Depth(p, j) \in Nat /\ Depth(p, j) >= 1
  BY TreeLines
<1> HIDE DEF q
<1>4. Deepest(q) \in Nat
  <2>1. CASE q = <<>>
    BY <2>1 DEF Deepest
  <2>2. CASE q # <<>>
    <3>1. Len(q) # 0
      BY <2>2, <1>2, EmptySeq
    <3>2. i - 1 \in 1 .. i - 1 /\ i - 1 \in 1 .. Len(p)
      BY <3>1, <1>2, <1>3
    <3>3. Last(q) = p[i - 1]
      BY <1>2, <3>2 DEF Last
    <3>4. Last(q).depth \in Nat
      BY <1>3, <3>2, <3>3 DEF Depth
    <3> QED
      BY <2>2, <3>4 DEF Deepest
  <2> QED
    BY <2>1, <2>2
<1>5. /\ p[i].node.kind \in {"function", "class"} => p[i].depth = 1
      /\ p[i].node.kind \in Members => InAClass(q, p[i].depth)
      /\ p[i].node.kind \notin {"function", "class"} \cup Members => ~InAClass(q, p[i].depth)
  BY <1>1, <1>4, ContinuationMeans
<1>6. Kind(p, i) \in Members => Depth(p, i) > 1
  BY <1>5 DEF Kind, Depth, InAClass
<1>7. ASSUME NEW b \in 1 .. i - 1, Parent(p, b, i)
      PROVE  InAClass(q, p[i].depth) <=> Kind(p, b) = "class"
  <2> DEFINE S == {j \in DOMAIN q : q[j].depth = p[i].depth - 1}
  <2>1. Depth(p, b) = Depth(p, i) - 1 /\ b \in 1 .. Len(p)
    BY <1>3, <1>7 DEF Parent
  <2>2. S \subseteq Nat /\ b \in S
    BY <1>2, <2>1 DEF Depth
  <2>3. \A j \in S : j <= b
    <3> SUFFICES ASSUME NEW j \in S, j > b
                 PROVE  FALSE
      BY <1>2, <1>3
    <3>1. j \in b + 1 .. i /\ j \in 1 .. i - 1
      BY <1>2, <1>3
    <3>2. Depth(p, j) > Depth(p, b)
      BY <1>7, <3>1 DEF Parent, Encloses
    <3>3. Depth(p, j) = Depth(p, i) - 1
      BY <1>2, <3>1 DEF Depth
    <3>4. Depth(p, j) \in Nat /\ Depth(p, b) \in Nat
      BY <1>3, <2>1, <3>1
    <3> QED
      BY <2>1, <3>2, <3>3, <3>4
  <2>4. Max(S) = b
    <3> HIDE DEF S
    <3> QED
      BY <2>2, <2>3, MaxIs
  <2>5. p[i].depth > 1
    BY <1>3, <2>1 DEF Depth
  <2>6. InAClass(q, p[i].depth) <=> q[b].node.kind = "class"
    BY <2>4, <2>5 DEF InAClass
  <2> QED
    BY <1>2, <2>6 DEF Kind
<1>8. ASSUME NEW b \in 1 .. i - 1, Parent(p, b, i)
      PROVE  Kind(p, i) \in Members <=> Kind(p, b) = "class"
  <2>1. Depth(p, i) # 1
    <3>1. b \in 1 .. Len(p)
      BY <1>3
    <3>2. Depth(p, b) >= 1 /\ Depth(p, b) \in Nat /\ Depth(p, b) = Depth(p, i) - 1
      BY <1>3, <1>8, <3>1 DEF Parent
    <3> QED
      BY <1>3, <3>2
  <2>2. Kind(p, i) \notin {"function", "class"}
    BY <1>5, <2>1 DEF Kind, Depth
  <2> QED
    BY <1>5, <1>7, <1>8, <2>2 DEF Kind
<1> QED
  BY <1>5, <1>6, <1>8 DEF Kind, Depth

\* What the parser adds to a text makes a text.
LEMMA TreeAppend ==
  ASSUME NEW p, Tree(p), NEW s \in Continuations(p)
  PROVE  Tree(Append(p, s))
<1> DEFINE q == Append(p, s)
<1>1. p \in Seq(Lines) /\ Len(p) \in Nat /\ DOMAIN p = 1 .. Len(p)
  BY TreeLines
<1>2. Deepest(p) \in Nat
  <2>1. CASE p = <<>>
    BY <2>1 DEF Deepest
  <2>2. CASE p # <<>>
    <3>1. Len(p) \in 1 .. Len(p)
      BY <1>1, <2>2, EmptySeq
    <3>2. Last(p).depth \in Nat
      BY <3>1, TreeLines DEF Last, Depth
    <3> QED
      BY <2>2, <3>2 DEF Deepest
  <2> QED
    BY <2>1, <2>2
<1>3. s \in Lines
  BY <1>2, ContinuationMeans
<1>4. q \in Seq(Lines) /\ Len(q) = Len(p) + 1 /\ q[Len(p) + 1] = s
      /\ \A j \in 1 .. Len(p) : q[j] = p[j]
  BY <1>1, <1>3, AppendProperties
<1> HIDE DEF q
<1>5. ASSUME NEW i \in 1 .. Len(q)
      PROVE  SubSeq(q, 1, i - 1) = SubSeq(p, 1, i - 1)
  <2>1. i \in Nat /\ 1 <= i /\ i - 1 <= Len(p) /\ i <= Len(p) + 1
    BY <1>1, <1>4
  <2>2. \A j \in 1 .. (i - 1) - 1 + 1 : q[1 + j - 1] = p[1 + j - 1]
    <3> SUFFICES ASSUME NEW j \in 1 .. (i - 1) - 1 + 1
                 PROVE  q[1 + j - 1] = p[1 + j - 1]
      OBVIOUS
    <3>1. 1 + j - 1 \in 1 .. Len(p)
      BY <1>1, <2>1
    <3> QED
      BY <1>4, <3>1
  <2> QED
    BY <2>2
<1>6. SubSeq(p, 1, Len(p)) = p
  BY <1>1, SubSeqFull
<1>7. ASSUME NEW i \in 1 .. Len(q)
      PROVE  q[i] \in Continuations(SubSeq(q, 1, i - 1))
  <2>1. CASE i = Len(p) + 1
    <3>1. i - 1 = Len(p)
      BY <1>1, <2>1
    <3> QED
      BY <1>4, <1>5, <1>6, <2>1, <3>1
  <2>2. CASE i # Len(p) + 1
    <3>1. i \in 1 .. Len(p)
      BY <1>1, <1>4, <2>2
    <3> QED
      BY <1>4, <1>5, <3>1 DEF Tree
  <2> QED
    BY <2>1, <2>2
<1> QED
  BY <1>4, <1>7 DEF Tree, q, Lines

\* What is in a class and is no member of it is in a constructor or a method.
LEMMA InMember ==
  ASSUME NEW p, Tree(p), NEW i \in 1 .. Len(p), Kind(p, i) \notin Members,
         NEW c \in 1 .. i - 1, Encloses(p, c, i), Kind(p, c) = "class"
  PROVE  \E f \in 1 .. i - 1 : Encloses(p, f, i) /\ Kind(p, f) \in Functions
<1>1. /\ i \in Nat /\ i >= 1 /\ Len(p) \in Nat /\ i <= Len(p) /\ c \in 1 .. Len(p)
      /\ \A j \in 1 .. Len(p) : Depth(p, j) \in Nat /\ Depth(p, j) >= 1
  BY TreeLines
<1>2. Depth(p, c) = 1 /\ Depth(p, i) > 1
  <2>1. Depth(p, c) = 1
    BY <1>1, TreePlaced
  <2> QED
    BY <2>1, Nested
<1>3. Depth(p, i) # 2
  <2> SUFFICES ASSUME Depth(p, i) = 2
               PROVE  FALSE
    OBVIOUS
  <2>1. Parent(p, c, i)
    BY <1>2 DEF Parent
  <2> QED
    BY <2>1, TreePlaced
<1>4. 2 \in 1 .. Depth(p, i) - 1
  BY <1>1, <1>2, <1>3
<1>5. PICK f \in 1 .. i - 1 : Encloses(p, f, i) /\ Depth(p, f) = 2
  BY <1>4, Ancestor
<1>6. c < f /\ f \in 1 .. Len(p)
  BY <1>1, <1>2, <1>5, Nested
<1>7. Encloses(p, c, f)
  BY <1>5, <1>6, Nested
<1>8. Parent(p, c, f) /\ c \in 1 .. f - 1
  BY <1>2, <1>5, <1>7 DEF Parent, Encloses
<1>9. Kind(p, f) \in Members
  BY <1>6, <1>8, TreePlaced
<1>10. Kind(p, f) \in Functions
  <2>1. HasBody(p[f].node)
    BY <1>5 DEF Encloses
  <2> QED
    BY <1>9, <2>1 DEF HasBody, Kind, Members, Functions
<1> QED
  BY <1>5, <1>10

\* What is in a constructor or a method is in a class.
LEMMA InClassOfMember ==
  ASSUME NEW p, Tree(p), NEW i \in 1 .. Len(p),
         NEW f \in 1 .. i - 1, Encloses(p, f, i), Kind(p, f) \in Members
  PROVE  \E c \in 1 .. f - 1 : Parent(p, c, f) /\ Encloses(p, c, i) /\ Kind(p, c) = "class"
<1>1. /\ i \in Nat /\ i >= 1 /\ Len(p) \in Nat /\ i <= Len(p) /\ f \in 1 .. Len(p)
      /\ Depth(p, f) \in Nat
  BY TreeLines
<1>2. Depth(p, f) > 1
  BY <1>1, TreePlaced
<1>3. Depth(p, f) - 1 \in 1 .. Depth(p, f) - 1
  BY <1>1, <1>2
<1>4. PICK c \in 1 .. f - 1 : Encloses(p, c, f) /\ Depth(p, c) = Depth(p, f) - 1
  BY <1>1, <1>3, Ancestor
<1>5. Parent(p, c, f)
  BY <1>4 DEF Parent
<1>6. Kind(p, c) = "class"
  BY <1>1, <1>5, TreePlaced
<1>7. Encloses(p, c, i)
  BY <1>4, EnclosesTransitive
<1> QED
  BY <1>5, <1>6, <1>7

LEMMA WithinMeans ==
  ASSUME NEW p, Tree(p), NEW i \in 1 .. Len(p), NEW b \in Nat
  PROVE  Within(p, i, b) <=> b = 0 \/ Encloses(p, b, i)
<1>1. i \in Nat /\ i >= 1
  BY TreeLines
<1>2. b # 0 => (b < i <=> b \in 1 .. i - 1)
  BY <1>1
<1> QED
  BY <1>2 DEF Within, Encloses, Depth

\* Every line that is not in the program itself is directly in one body.
LEMMA ParentExists ==
  ASSUME NEW p, Tree(p), NEW i \in 1 .. Len(p), Depth(p, i) # 1
  PROVE  \E b \in 1 .. i - 1 : Parent(p, b, i)
<1>1. Depth(p, i) - 1 \in 1 .. Depth(p, i) - 1
  BY TreeLines
<1> QED
  BY <1>1, Ancestor DEF Parent

\* The innermost body is the one directly around a line, the program if there
\* is none.
LEMMA InnermostIs ==
  ASSUME NEW p, Tree(p), NEW i \in 1 .. Len(p)
  PROVE  /\ Depth(p, i) = 1 => Innermost(p, i) = 0
         /\ \A b \in 1 .. i - 1 : Parent(p, b, i) => Innermost(p, i) = b
         /\ Innermost(p, i) # 0 =>
              Innermost(p, i) \in 1 .. i - 1 /\ Parent(p, Innermost(p, i), i)
         /\ Innermost(p, i) \in Nat
<1> DEFINE S == {b \in 0 .. i - 1 : Within(p, i, b)}
<1>1. /\ i \in Nat /\ i >= 1 /\ Len(p) \in Nat /\ i <= Len(p)
      /\ \A j \in 1 .. Len(p) : Depth(p, j) \in Nat /\ Depth(p, j) >= 1
  BY TreeLines
<1>2. 0 \in S /\ S \subseteq Nat
  BY <1>1 DEF Within
<1>3. \A b \in S : b = 0 \/ (b \in 1 .. i - 1 /\ Encloses(p, b, i))
  BY <1>1, WithinMeans
<1>4. \A b \in 1 .. i - 1 : Encloses(p, b, i) => b \in S
  BY <1>1, WithinMeans
<1>5. Innermost(p, i) = Max(S)
  BY DEF Innermost
<1> HIDE DEF S
<1>6. ASSUME Depth(p, i) = 1
      PROVE  Innermost(p, i) = 0
  <2>1. \A b \in S : b = 0
    <3> SUFFICES ASSUME NEW b \in S, b # 0
                 PROVE  FALSE
      OBVIOUS
    <3>1. Encloses(p, b, i) /\ b \in 1 .. Len(p)
      BY <1>1, <1>3
    <3>2. Depth(p, b) < Depth(p, i)
      BY <3>1, Nested
    <3> QED
      BY <1>1, <1>6, <3>1, <3>2
  <2>2. \A b \in S : b <= 0
    BY <2>1
  <2>3. Max(S) = 0
    BY <1>2, <2>2, MaxIs
  <2> QED
    BY <1>5, <2>3
<1>7. ASSUME NEW b \in 1 .. i - 1, Parent(p, b, i)
      PROVE  Innermost(p, i) = b
  <2>1. b \in S /\ Encloses(p, b, i) /\ Depth(p, b) = Depth(p, i) - 1
    BY <1>4, <1>7 DEF Parent
  <2>2. ASSUME NEW c \in S, ~(c <= b)
        PROVE  FALSE
    <3>1. c \in 1 .. i - 1 /\ Encloses(p, c, i) /\ b < c
      BY <1>1, <1>3, <2>2
    <3>2. Depth(p, b) < Depth(p, c) /\ Depth(p, c) < Depth(p, i) /\ c \in 1 .. Len(p)
          /\ b \in 1 .. Len(p)
      BY <2>1, <3>1, Nested
    <3> QED
      BY <1>1, <2>1, <3>2
  <2>3. \A c \in S : c <= b
    BY <2>2
  <2>4. Max(S) = b
    BY <1>2, <2>1, <2>3, MaxIs
  <2> QED
    BY <1>5, <2>4
<1>8. Depth(p, i) # 1 => \E b \in 1 .. i - 1 : Parent(p, b, i)
  BY ParentExists
<1>9. ASSUME Innermost(p, i) # 0
      PROVE  Innermost(p, i) \in 1 .. i - 1 /\ Parent(p, Innermost(p, i), i)
  <2>1. PICK b \in 1 .. i - 1 : Parent(p, b, i)
    BY <1>6, <1>8, <1>9
  <2>2. Innermost(p, i) = b
    BY <1>7, <2>1
  <2> QED
    BY <2>1, <2>2
<1> QED
  BY <1>1, <1>6, <1>7, <1>9

LEMMA FunctionOfNone ==
  ASSUME NEW p, Tree(p), NEW i \in 1 .. Len(p)
  PROVE  FunctionOf(p, i) = 0
           <=> \A f \in 1 .. i - 1 : Kind(p, f) \in Functions => ~Encloses(p, f, i)
<1> DEFINE S == {0} \cup {f \in 1 .. i - 1 : p[f].node.kind \in Functions /\ Within(p, i, f)}
<1>1. i \in Nat /\ i >= 1
  BY TreeLines
<1>2. 0 \in S /\ S \subseteq Nat /\ \A b \in S : b <= i
  BY <1>1
<1>3. \A f \in 1 .. i - 1 : f \in S <=> Kind(p, f) \in Functions /\ Encloses(p, f, i)
  BY <1>1, WithinMeans DEF Kind
<1>4. \A f \in S : f # 0 => f \in 1 .. i - 1
  BY <1>1
<1>5. FunctionOf(p, i) = Max(S)
  BY DEF FunctionOf
<1> HIDE DEF S
<1>6. Max(S) \in S /\ \A k \in S : k <= Max(S)
  BY <1>1, <1>2, MaxFacts
<1>7. Max(S) = 0 => \A f \in 1 .. i - 1 : f \notin S
  BY <1>1, <1>6
<1> QED
  BY <1>3, <1>4, <1>5, <1>6, <1>7

-----------------------------------------------------------------------------
(* What a program declares.                                                 *)

Declaration(x, i, k, b) == [name |-> x, at |-> i, index |-> k, body |-> b]
Params(p, i) == p[i].node.params
NameAt(p, i) == p[i].node.name

IsParam(p, d) ==
  /\ Kind(p, d.at) \in Functions
  /\ \E k \in 1 .. Len(Params(p, d.at)) : d = Declaration(Params(p, d.at)[k], d.at, k, d.at)
IsName(p, d) ==
  /\ Kind(p, d.at) \in {"function", "class"}
  /\ d = Declaration(NameAt(p, d.at), d.at, 0, 0)
IsVariable(p, d) ==
  /\ Kind(p, d.at) = "variable"
  /\ d = Declaration(NameAt(p, d.at), d.at, 0, Innermost(p, d.at))

LEMMA DeclarationsMean ==
  ASSUME NEW p, Tree(p)
  PROVE  /\ \A d \in Declarations(p) :
              d.at \in 1 .. Len(p) /\ (IsParam(p, d) \/ IsName(p, d) \/ IsVariable(p, d))
         /\ \A i \in 1 .. Len(p) :
              /\ \A k \in 1 .. Len(Params(p, i)) :
                   Declaration(Params(p, i)[k], i, k, i) \in Declarations(p)
              /\ Kind(p, i) \in {"function", "class"} =>
                   Declaration(NameAt(p, i), i, 0, 0) \in Declarations(p)
              /\ Kind(p, i) = "variable" =>
                   Declaration(NameAt(p, i), i, 0, Innermost(p, i)) \in Declarations(p)
<1> DEFINE names(i) ==
             {Declaration(Params(p, i)[k], i, k, i) : k \in DOMAIN Params(p, i)}
               \cup (IF Kind(p, i) \in {"function", "class"}
                     THEN {Declaration(NameAt(p, i), i, 0, 0)} ELSE {})
               \cup (IF Kind(p, i) = "variable"
                     THEN {Declaration(NameAt(p, i), i, 0, Innermost(p, i))} ELSE {})
<1>1. Declarations(p) = UNION {names(i) : i \in DOMAIN p}
  BY DEF Declarations, Declaration, Params, NameAt, Kind
<1>2. DOMAIN p = 1 .. Len(p)
  BY TreeLines
<1>3. \A i \in 1 .. Len(p) : /\ DOMAIN Params(p, i) = 1 .. Len(Params(p, i))
                             /\ Kind(p, i) \notin Functions => Len(Params(p, i)) = 0
  BY KindsOfLines DEF Params
<1>4. ASSUME NEW d \in Declarations(p)
      PROVE  d.at \in 1 .. Len(p) /\ (IsParam(p, d) \/ IsName(p, d) \/ IsVariable(p, d))
  <2>1. PICK i \in 1 .. Len(p) : d \in names(i)
    BY <1>1, <1>2
  <2>2. CASE \E k \in DOMAIN Params(p, i) : d = Declaration(Params(p, i)[k], i, k, i)
    <3>1. PICK k \in 1 .. Len(Params(p, i)) : d = Declaration(Params(p, i)[k], i, k, i)
      BY <1>3, <2>2
    <3>2. d.at = i
      BY <3>1 DEF Declaration
    <3>3. Kind(p, i) \in Functions
      BY <1>3, <3>1
    <3> QED
      BY <3>1, <3>2, <3>3 DEF IsParam
  <2>3. CASE Kind(p, i) \in {"function", "class"} /\ d = Declaration(NameAt(p, i), i, 0, 0)
    <3>1. d.at = i
      BY <2>3 DEF Declaration
    <3> QED
      BY <2>3, <3>1 DEF IsName
  <2>4. CASE Kind(p, i) = "variable" /\ d = Declaration(NameAt(p, i), i, 0, Innermost(p, i))
    <3>1. d.at = i
      BY <2>4 DEF Declaration
    <3> QED
      BY <2>4, <3>1 DEF IsVariable
  <2> QED
    BY <2>1, <2>2, <2>3, <2>4
<1>5. ASSUME NEW i \in 1 .. Len(p)
      PROVE  /\ \A k \in 1 .. Len(Params(p, i)) :
                  Declaration(Params(p, i)[k], i, k, i) \in names(i)
             /\ Kind(p, i) \in {"function", "class"} =>
                  Declaration(NameAt(p, i), i, 0, 0) \in names(i)
             /\ Kind(p, i) = "variable" =>
                  Declaration(NameAt(p, i), i, 0, Innermost(p, i)) \in names(i)
  BY <1>3
<1>6. \A i \in 1 .. Len(p) : names(i) \subseteq Declarations(p)
  BY <1>1, <1>2
<1> QED
  BY <1>4, <1>5, <1>6

-----------------------------------------------------------------------------
(* What the scopes should hold.                                             *)

\* The lines whose name the global pass gives to the program: functions, classes
\* and the variables outside all of them.
GlobalLine(p, i) ==
  \/ Kind(p, i) \in {"function", "class"}
  \/ /\ Kind(p, i) = "variable"
     /\ \A f \in 1 .. i - 1 : Kind(p, f) \in Functions => ~Encloses(p, f, i)

\* What the global pass has declared before line n.
Globals(p, n) == {NameAt(p, i) : i \in {j \in 1 .. n - 1 : GlobalLine(p, j)}}

\* What body b has declared before line n.
Locals(p, b, n) ==
  Range(Params(p, b))
    \cup {NameAt(p, i) : i \in {j \in 1 .. n - 1 : Kind(p, j) = "variable" /\ Parent(p, b, j)}}

\* What the local pass finds at line n.
Visible(p, x, n) ==
  \/ x \in Globals(p, Len(p) + 1)
  \/ \E b \in 1 .. n - 1 : Encloses(p, b, n) /\ x \in Locals(p, b, n)

\* InProgram and BlockVariables of any text.
Known(p, x, i) == \E d \in Declarations(p) : d.name = x /\ InScope(p, d, i)
Stray(p) ==
  {d \in Declarations(p) : /\ Kind(p, d.at) = "variable"
                           /\ d.body # 0 /\ FunctionOf(p, d.at) = 0}

-----------------------------------------------------------------------------
(* Declarations and what is visible.                                        *)

\* What a declaration is, field by field.
LEMMA DeclarationFields ==
  ASSUME NEW p, Tree(p), NEW d \in Declarations(p)
  PROVE  /\ d.at \in 1 .. Len(p)
         /\ IsParam(p, d) =>
              /\ d.body = d.at /\ Kind(p, d.at) \in Functions
              /\ d.index \in 1 .. Len(Params(p, d.at)) /\ d.name = Params(p, d.at)[d.index]
              /\ d.name \in Range(Params(p, d.at))
              /\ d = Declaration(Params(p, d.at)[d.index], d.at, d.index, d.at)
         /\ IsName(p, d) => d.body = 0 /\ d.index = 0 /\ d.name = NameAt(p, d.at)
         /\ IsVariable(p, d) =>
              d.body = Innermost(p, d.at) /\ d.index = 0 /\ d.name = NameAt(p, d.at)
         /\ IsParam(p, d) \/ IsName(p, d) \/ IsVariable(p, d)
<1>1. d.at \in 1 .. Len(p) /\ (IsParam(p, d) \/ IsName(p, d) \/ IsVariable(p, d))
  BY DeclarationsMean
<1>2. DOMAIN Params(p, d.at) = 1 .. Len(Params(p, d.at))
  BY <1>1, KindsOfLines DEF Params
<1>3. ASSUME IsParam(p, d)
      PROVE  /\ d.body = d.at /\ Kind(p, d.at) \in Functions
             /\ d.index \in 1 .. Len(Params(p, d.at)) /\ d.name = Params(p, d.at)[d.index]
             /\ d.name \in Range(Params(p, d.at))
             /\ d = Declaration(Params(p, d.at)[d.index], d.at, d.index, d.at)
  <2>1. PICK k \in 1 .. Len(Params(p, d.at)) :
          d = Declaration(Params(p, d.at)[k], d.at, k, d.at)
    BY <1>3 DEF IsParam
  <2>2. d.index = k /\ d.name = Params(p, d.at)[k] /\ d.body = d.at
    BY <2>1 DEF Declaration
  <2>3. d.name \in Range(Params(p, d.at))
    BY <1>2, <2>2 DEF Range
  <2> QED
    BY <1>3, <2>1, <2>2, <2>3 DEF IsParam
<1>4. IsName(p, d) => d.body = 0 /\ d.index = 0 /\ d.name = NameAt(p, d.at)
  BY DEF IsName, Declaration
<1>5. IsVariable(p, d) =>
        d.body = Innermost(p, d.at) /\ d.index = 0 /\ d.name = NameAt(p, d.at)
  BY DEF IsVariable, Declaration
<1> QED
  BY <1>1, <1>3, <1>4, <1>5

\* Declarations of one line that are not parameters are one declaration.
LEMMA OneOfALine ==
  ASSUME NEW p, Tree(p), NEW d \in Declarations(p), NEW e \in Declarations(p),
         d.at = e.at, d.index = e.index
  PROVE  d = e
<1>1. \/ IsParam(p, d) \/ IsName(p, d) \/ IsVariable(p, d)
  BY DeclarationFields
<1>2. IsParam(p, d) => Kind(p, d.at) \in Functions /\ d.index \in 1 .. Len(Params(p, d.at))
  BY DeclarationFields
<1>3. IsParam(p, e) => Kind(p, e.at) \in Functions /\ e.index \in 1 .. Len(Params(p, e.at))
  BY DeclarationFields
<1>4. CASE IsParam(p, d)
  <2>1. d.index # 0
    BY <1>2, <1>4
  <2>2. IsParam(p, e)
    BY <2>1, DeclarationFields
  <2> QED
    BY <1>4, <2>2, DeclarationFields
<1>5. CASE ~IsParam(p, d)
  <2>1. d.index = 0
    BY <1>5, DeclarationFields
  <2>2. ~IsParam(p, e)
    BY <1>3, <2>1
  <2>3. IsName(p, e) \/ IsVariable(p, e)
    BY <2>2, DeclarationFields
  <2> QED
    BY <1>1, <1>5, <2>3 DEF IsName, IsVariable
<1> QED
  BY <1>4, <1>5

\* A variable is in a body at a smaller depth, and before it.
LEMMA VariableBody ==
  ASSUME NEW p, Tree(p), NEW d \in Declarations(p), IsVariable(p, d)
  PROVE  /\ d.body = 0 <=> Depth(p, d.at) = 1
         /\ d.body # 0 => d.body \in 1 .. d.at - 1 /\ Parent(p, d.body, d.at)
<1>1. d.at \in 1 .. Len(p) /\ d.body = Innermost(p, d.at)
  BY DeclarationFields
<1>2. ASSUME Depth(p, d.at) # 1
      PROVE  Innermost(p, d.at) # 0
  <2>1. PICK b \in 1 .. d.at - 1 : Parent(p, b, d.at)
    BY <1>1, <1>2, ParentExists
  <2>2. Innermost(p, d.at) = b
    BY <1>1, <2>1, InnermostIs
  <2> QED
    BY <2>2
<1> QED
  BY <1>1, <1>2, InnermostIs

\* What is in scope everywhere, or is a stray variable, the global pass declares.
LEMMA GlobalDeclarations ==
  ASSUME NEW p, Tree(p), NEW d \in Declarations(p), d.body = 0 \/ d \in Stray(p)
  PROVE  /\ d.at \in 1 .. Len(p) /\ GlobalLine(p, d.at) /\ d.name = NameAt(p, d.at)
         /\ d.index = 0 /\ d.name \in Globals(p, Len(p) + 1)
<1>1. d.at \in 1 .. Len(p) /\ Len(p) \in Nat
  BY DeclarationFields, TreeLines
<1>2. IsName(p, d) => GlobalLine(p, d.at)
  BY DEF IsName, GlobalLine
<1>3. ASSUME IsVariable(p, d)
      PROVE  GlobalLine(p, d.at)
  <2>1. \A f \in 1 .. d.at - 1 : Kind(p, f) \in Functions => ~Encloses(p, f, d.at)
    <3>1. CASE d.body = 0
      <4>1. Depth(p, d.at) = 1
        BY <1>3, <3>1, VariableBody
      <4> SUFFICES ASSUME NEW f \in 1 .. d.at - 1, Encloses(p, f, d.at)
                   PROVE  FALSE
        OBVIOUS
      <4>2. f \in 1 .. Len(p) /\ Depth(p, f) < Depth(p, d.at)
        BY <1>1, Nested
      <4>3. Depth(p, f) \in Nat /\ Depth(p, f) >= 1
        BY <4>2, TreeLines
      <4> QED
        BY <4>1, <4>2, <4>3
    <3>2. CASE d \in Stray(p)
      BY <1>1, <3>2, FunctionOfNone DEF Stray
    <3> QED
      BY <3>1, <3>2
  <2> QED
    BY <1>3, <2>1 DEF IsVariable, GlobalLine
<1>4. ~IsParam(p, d)
  <2> SUFFICES ASSUME IsParam(p, d)
               PROVE  FALSE
    OBVIOUS
  <2>1. d.body = d.at /\ Kind(p, d.at) \in Functions
    BY DeclarationFields
  <2>2. d.body # 0
    BY <1>1, <2>1
  <2>3. Kind(p, d.at) # "variable"
    BY <2>1 DEF Functions
  <2> QED
    BY <2>2, <2>3 DEF Stray
<1>5. GlobalLine(p, d.at) /\ d.name = NameAt(p, d.at) /\ d.index = 0
  BY <1>2, <1>3, <1>4, DeclarationFields
<1>6. d.at \in 1 .. (Len(p) + 1) - 1
  BY <1>1
<1> QED
  BY <1>1, <1>5, <1>6 DEF Globals

\* What line n sees, other than by declaring it, is declared.
LEMMA VisibleIsDeclared ==
  ASSUME NEW p, Tree(p), NEW n \in 1 .. Len(p), NEW x, Visible(p, x, n)
  PROVE  \E d \in Declarations(p) :
           /\ d.name = x
           /\ \/ d.body = 0
              \/ d \in Stray(p)
              \/ d.body # 0 /\ d.at < n /\ InScope(p, d, n)
<1>1. n \in Nat /\ n >= 1 /\ Len(p) \in Nat /\ n <= Len(p)
  BY TreeLines
<1>2. CASE x \in Globals(p, Len(p) + 1)
  <2>1. PICK i \in 1 .. Len(p) : GlobalLine(p, i) /\ x = NameAt(p, i)
    <3>1. PICK i \in 1 .. (Len(p) + 1) - 1 : GlobalLine(p, i) /\ x = NameAt(p, i)
      BY <1>2 DEF Globals
    <3>2. i \in 1 .. Len(p)
      BY <1>1
    <3> QED
      BY <3>1, <3>2
  <2>2. CASE Kind(p, i) \in {"function", "class"}
    <3>1. Declaration(NameAt(p, i), i, 0, 0) \in Declarations(p)
      BY <2>2, DeclarationsMean
    <3>2. Declaration(NameAt(p, i), i, 0, 0).name = x /\ Declaration(NameAt(p, i), i, 0, 0).body = 0
      BY <2>1 DEF Declaration
    <3> QED
      BY <3>1, <3>2
  <2>3. CASE Kind(p, i) = "variable"
    <3> DEFINE d == Declaration(NameAt(p, i), i, 0, Innermost(p, i))
    <3>1. d \in Declarations(p)
      BY <2>3, DeclarationsMean
    <3>2. d.name = x /\ d.at = i /\ d.body = Innermost(p, i)
      BY <2>1 DEF Declaration
    <3>3. FunctionOf(p, i) = 0
      BY <2>1, <2>3, FunctionOfNone DEF GlobalLine
    <3>4. d.body = 0 \/ d \in Stray(p)
      <4> HIDE DEF d
      <4> QED
        BY <2>3, <3>1, <3>2, <3>3 DEF Stray
    <3> QED
      BY <3>1, <3>2, <3>4
  <2> QED
    BY <2>1, <2>2, <2>3 DEF GlobalLine
<1>3. CASE \E b \in 1 .. n - 1 : Encloses(p, b, n) /\ x \in Locals(p, b, n)
  <2>1. PICK b \in 1 .. n - 1 : Encloses(p, b, n) /\ x \in Locals(p, b, n)
    BY <1>3
  <2>2. b \in 1 .. Len(p) /\ b # 0 /\ b < n /\ b \in Nat
    BY <1>1
  <2>3. Within(p, n, b)
    BY <2>1, <2>2, WithinMeans
  <2>4. CASE x \in Range(Params(p, b))
    <3>1. DOMAIN Params(p, b) = 1 .. Len(Params(p, b))
      BY <2>2, KindsOfLines DEF Params
    <3>2. PICK k \in 1 .. Len(Params(p, b)) : x = Params(p, b)[k]
      BY <2>4, <3>1 DEF Range
    <3> DEFINE d == Declaration(Params(p, b)[k], b, k, b)
    <3>3. d \in Declarations(p)
      BY <2>2, DeclarationsMean
    <3>4. d.name = x /\ d.at = b /\ d.body = b
      BY <3>2 DEF Declaration
    <3>5. InScope(p, d, n)
      <4> HIDE DEF d
      <4> QED
        BY <1>1, <2>2, <2>3, <3>4 DEF InScope
    <3> QED
      BY <2>2, <3>3, <3>4, <3>5
  <2>5. CASE x \notin Range(Params(p, b))
    <3>1. PICK i \in 1 .. n - 1 : Kind(p, i) = "variable" /\ Parent(p, b, i) /\ x = NameAt(p, i)
      BY <2>1, <2>5 DEF Locals
    <3>2. i \in 1 .. Len(p) /\ i < n
      BY <1>1
    <3> DEFINE d == Declaration(NameAt(p, i), i, 0, Innermost(p, i))
    <3>3. d \in Declarations(p)
      BY <3>1, <3>2, DeclarationsMean
    <3>4. Innermost(p, i) = b
      BY <3>1, <3>2, InnermostIs DEF Parent, Encloses
    <3>5. d.name = x /\ d.at = i /\ d.body = b
      BY <3>1, <3>4 DEF Declaration
    <3>6. InScope(p, d, n)
      <4> HIDE DEF d
      <4> QED
        BY <1>1, <2>2, <2>3, <3>2, <3>5 DEF InScope
    <3> QED
      BY <2>2, <3>2, <3>3, <3>5, <3>6
  <2> QED
    BY <2>4, <2>5
<1> QED
  BY <1>2, <1>3 DEF Visible

\* What is in scope at line n is visible there, or declared there.
LEMMA DeclaredIsVisible ==
  ASSUME NEW p, Tree(p), NEW n \in 1 .. Len(p), NEW d \in Declarations(p), InScope(p, d, n)
  PROVE  \/ Visible(p, d.name, n)
         \/ d.at = n /\ d.body # 0 /\ (IsParam(p, d) \/ IsVariable(p, d))
<1> SUFFICES ASSUME ~(d.at = n /\ d.body # 0 /\ (IsParam(p, d) \/ IsVariable(p, d)))
             PROVE  Visible(p, d.name, n)
  OBVIOUS
<1>1. n \in Nat /\ n >= 1 /\ Len(p) \in Nat /\ n <= Len(p) /\ d.at \in 1 .. Len(p)
  BY TreeLines, DeclarationFields
<1>2. CASE d.body = 0
  BY <1>2, GlobalDeclarations DEF Visible
<1>3. CASE d.body # 0
  <2>1. d.at < n /\ (IsParam(p, d) \/ IsVariable(p, d))
    BY <1>1, <1>3, DeclarationFields DEF InScope
  <2>2. d.body \in Nat /\ d.body < n
    <3>1. IsParam(p, d) => d.body = d.at
      BY DeclarationFields
    <3>2. IsVariable(p, d) => d.body \in 1 .. d.at - 1
      BY <1>3, VariableBody
    <3> QED
      BY <1>1, <2>1, <3>1, <3>2
  <2>3. d.body \in 1 .. n - 1 /\ d.body # n
    BY <1>1, <1>3, <2>2
  <2>4. Encloses(p, d.body, n)
    BY <1>3, <2>2, <2>3, WithinMeans DEF InScope
  <2>5. d.name \in Locals(p, d.body, n)
    <3>1. CASE IsParam(p, d)
      BY <3>1, DeclarationFields DEF Locals
    <3>2. CASE IsVariable(p, d)
      <4>1. Parent(p, d.body, d.at) /\ d.at \in 1 .. n - 1
        BY <1>1, <1>3, <2>1, <3>2, VariableBody
      <4>2. Kind(p, d.at) = "variable" /\ d.name = NameAt(p, d.at)
        BY <3>2, DeclarationFields DEF IsVariable
      <4> QED
        BY <4>1, <4>2 DEF Locals
    <3> QED
      BY <2>1, <3>1, <3>2
  <2> QED
    BY <2>3, <2>4, <2>5 DEF Visible
<1> QED
  BY <1>2, <1>3

-----------------------------------------------------------------------------
(* What the errors of the passes say, and what their absence says.          *)

\* The two claims of CollisionsExplained and IdentifiersResolved about an error.
Explained(p, e) ==
  e.kind = "VariableAlreadyDefined" =>
    \E d \in Declarations(p) :
      /\ d.name = e.name /\ d.at = e.at
      /\ \/ d \in Stray(p)
         \/ \E f \in Declarations(p) \ {d} :
              f.name = d.name /\ (InScope(p, f, d.at) \/ f \in Stray(p))
Undefined(p, e) == e.kind = "VariableNotDefined" => ~Known(p, e.name, e.at)

\* The name of a variable the global pass walks to is taken.
LEMMA GlobalCollision ==
  ASSUME NEW p, Tree(p), NEW n \in 1 .. Len(p), GlobalLine(p, n), Kind(p, n) = "variable",
         NameAt(p, n) \in Globals(p, n)
  PROVE  Explained(p, ErrorAt(n, "VariableAlreadyDefined", NameAt(p, n)))
<1> DEFINE d == Declaration(NameAt(p, n), n, 0, Innermost(p, n))
           e == ErrorAt(n, "VariableAlreadyDefined", NameAt(p, n))
<1>1. n \in Nat /\ n >= 1 /\ Len(p) \in Nat /\ n <= Len(p)
  BY TreeLines
<1>2. d \in Declarations(p) /\ d.name = NameAt(p, n) /\ d.at = n /\ d.body = Innermost(p, n)
  BY DeclarationsMean DEF Declaration
<1>3. e.at = n /\ e.name = NameAt(p, n)
  BY DEF ErrorAt
<1>4. PICK i \in 1 .. n - 1 : GlobalLine(p, i) /\ NameAt(p, n) = NameAt(p, i)
  BY DEF Globals
<1>5. i \in 1 .. Len(p) /\ i # n
  BY <1>1
<1>6. PICK f \in Declarations(p) : f.at = i /\ f.name = NameAt(p, i) /\ (f.body = 0 \/ f \in Stray(p))
  <2>1. CASE Kind(p, i) \in {"function", "class"}
    <3> DEFINE g == Declaration(NameAt(p, i), i, 0, 0)
    <3>1. g \in Declarations(p)
      BY <1>5, <2>1, DeclarationsMean
    <3>2. g.at = i /\ g.name = NameAt(p, i) /\ g.body = 0
      BY DEF Declaration
    <3> QED
      BY <3>1, <3>2
  <2>2. CASE Kind(p, i) = "variable"
    <3> DEFINE g == Declaration(NameAt(p, i), i, 0, Innermost(p, i))
    <3>1. g \in Declarations(p)
      BY <1>5, <2>2, DeclarationsMean
    <3>2. g.at = i /\ g.name = NameAt(p, i)
      BY DEF Declaration
    <3>3. FunctionOf(p, i) = 0
      BY <1>4, <1>5, <2>2, FunctionOfNone DEF GlobalLine
    <3>4. g.body = 0 \/ g \in Stray(p)
      <4> HIDE DEF g
      <4> QED
        BY <2>2, <3>1, <3>2, <3>3 DEF Stray
    <3> QED
      BY <3>1, <3>2, <3>4
  <2> QED
    BY <1>4, <2>1, <2>2 DEF GlobalLine
<1>7. f # d /\ f.name = d.name /\ (InScope(p, f, d.at) \/ f \in Stray(p))
  BY <1>2, <1>4, <1>5, <1>6 DEF InScope
<1> HIDE DEF d, e
<1> QED
  BY <1>2, <1>3, <1>6, <1>7 DEF Explained, e

\* The name of a variable in a body is visible already.
LEMMA LocalCollision ==
  ASSUME NEW p, Tree(p), NEW n \in 1 .. Len(p), Kind(p, n) = "variable", Depth(p, n) # 1,
         Visible(p, NameAt(p, n), n)
  PROVE  Explained(p, ErrorAt(n, "VariableAlreadyDefined", NameAt(p, n)))
<1> DEFINE d == Declaration(NameAt(p, n), n, 0, Innermost(p, n))
           e == ErrorAt(n, "VariableAlreadyDefined", NameAt(p, n))
<1>1. n \in Nat
  BY TreeLines
<1>2. d \in Declarations(p) /\ d.name = NameAt(p, n) /\ d.at = n /\ d.body = Innermost(p, n)
  BY DeclarationsMean DEF Declaration
<1>3. e.at = n /\ e.name = NameAt(p, n)
  BY DEF ErrorAt
<1>4. PICK f \in Declarations(p) :
        /\ f.name = NameAt(p, n)
        /\ \/ f.body = 0
           \/ f \in Stray(p)
           \/ f.body # 0 /\ f.at < n /\ InScope(p, f, n)
  BY VisibleIsDeclared
<1> HIDE DEF d, e
<1>5. d.body # 0
  <2>1. IsVariable(p, d)
    BY <1>2 DEF IsVariable, d
  <2> QED
    BY <1>2, <2>1, VariableBody
<1>6. f # d \/ d \in Stray(p)
  BY <1>1, <1>2, <1>4, <1>5
<1>7. f # d => f.name = d.name /\ (InScope(p, f, d.at) \/ f \in Stray(p))
  BY <1>2, <1>4 DEF InScope
<1> QED
  BY <1>2, <1>3, <1>4, <1>6, <1>7 DEF Explained, e

\* A parameter that is global already, or another before it in the same list.
ParamTaken(p, i, k) ==
  \/ Params(p, i)[k] \in Globals(p, Len(p) + 1)
  \/ \E j \in 1 .. k - 1 : Params(p, i)[j] = Params(p, i)[k]

LEMMA ParamCollision ==
  ASSUME NEW p, Tree(p), NEW i \in 1 .. Len(p), NEW k \in 1 .. Len(Params(p, i)),
         ParamTaken(p, i, k)
  PROVE  Explained(p, ErrorAt(i, "VariableAlreadyDefined", Params(p, i)[k]))
<1> DEFINE d == Declaration(Params(p, i)[k], i, k, i)
           e == ErrorAt(i, "VariableAlreadyDefined", Params(p, i)[k])
<1>1. i \in Nat /\ i >= 1 /\ Len(p) \in Nat /\ Len(Params(p, i)) \in Nat /\ k \in Nat /\ k >= 1
  BY TreeLines, KindsOfLines DEF Params
<1>2. /\ d \in Declarations(p) /\ d.name = Params(p, i)[k] /\ d.at = i /\ d.body = i
      /\ d.index = k
  BY DeclarationsMean DEF Declaration
<1>3. e.at = i /\ e.name = Params(p, i)[k]
  BY DEF ErrorAt
<1> HIDE DEF d, e
<1>4. \E f \in Declarations(p) : f # d /\ f.name = d.name /\ (InScope(p, f, d.at) \/ f \in Stray(p))
  <2>1. CASE Params(p, i)[k] \in Globals(p, Len(p) + 1)
    <3>1. Visible(p, Params(p, i)[k], i)
      BY <2>1 DEF Visible
    <3>2. PICK f \in Declarations(p) :
            /\ f.name = Params(p, i)[k]
            /\ \/ f.body = 0
               \/ f \in Stray(p)
               \/ f.body # 0 /\ f.at < i /\ InScope(p, f, i)
      BY <3>1, VisibleIsDeclared
    <3>3. f # d
      <4>1. f.body = 0 \/ f \in Stray(p) => f.index = 0
        BY GlobalDeclarations
      <4> QED
        BY <1>1, <1>2, <3>2, <4>1
    <3> QED
      BY <1>2, <3>2, <3>3 DEF InScope
  <2>2. CASE \E j \in 1 .. k - 1 : Params(p, i)[j] = Params(p, i)[k]
    <3>1. PICK j \in 1 .. k - 1 : Params(p, i)[j] = Params(p, i)[k]
      BY <2>2
    <3>2. j \in 1 .. Len(Params(p, i)) /\ j # k
      BY <1>1
    <3> DEFINE f == Declaration(Params(p, i)[j], i, j, i)
    <3>3. /\ f \in Declarations(p) /\ f.name = Params(p, i)[k] /\ f.at = i /\ f.body = i
          /\ f.index = j
      BY <3>1, <3>2, DeclarationsMean DEF Declaration
    <3> HIDE DEF f
    <3>4. InScope(p, f, i)
      BY <1>1, <3>3 DEF InScope
    <3> QED
      BY <1>2, <3>2, <3>3, <3>4
  <2> QED
    BY <2>1, <2>2 DEF ParamTaken
<1> QED
  BY <1>2, <1>3, <1>4 DEF Explained, e

\* An identifier that is not visible where it is mentioned is not in scope there,
\* but for the variable that is declared there.
LEMMA NotKnown ==
  ASSUME NEW p, Tree(p), NEW n \in 1 .. Len(p), NEW x \in Mentions(p[n].node.expr),
         ~Visible(p, x, n),
         Kind(p, n) = "variable" /\ Depth(p, n) # 1 => x # NameAt(p, n)
  PROVE  ~Known(p, x, n)
<1> SUFFICES ASSUME NEW d \in Declarations(p), d.name = x, InScope(p, d, n)
             PROVE  FALSE
  BY DEF Known
<1>1. d.at = n /\ d.body # 0 /\ (IsParam(p, d) \/ IsVariable(p, d))
  BY DeclaredIsVisible
<1>2. ~IsParam(p, d)
  <2> SUFFICES ASSUME IsParam(p, d)
               PROVE  FALSE
    OBVIOUS
  <2>1. Kind(p, n) \in Functions
    BY <1>1, DeclarationFields
  <2>2. Kind(p, n) \notin {"variable", "expression", "branch"}
    BY <2>1 DEF Functions
  <2>3. Mentions(p[n].node.expr) = {}
    BY <2>2, KindsOfLines
  <2> QED
    BY <2>3
<1>3. IsVariable(p, d)
  BY <1>1, <1>2
<1>4. Depth(p, n) # 1 /\ Kind(p, n) = "variable" /\ d.name = NameAt(p, n)
  BY <1>1, <1>3, VariableBody, DeclarationFields DEF IsVariable
<1> QED
  BY <1>4

\* An identifier at line i is in scope, or named like a stray variable.
Met(p, x, i) == Known(p, x, i) \/ \E d \in Stray(p) : d.name = x

LEMMA VisibleIsMet ==
  ASSUME NEW p, Tree(p), NEW n \in 1 .. Len(p), NEW x,
         Visible(p, x, n) \/ (Kind(p, n) = "variable" /\ x = NameAt(p, n))
  PROVE  Met(p, x, n)
<1>1. CASE Visible(p, x, n)
  BY <1>1, VisibleIsDeclared DEF Met, Known, InScope
<1>2. CASE Kind(p, n) = "variable" /\ x = NameAt(p, n)
  <2> DEFINE d == Declaration(NameAt(p, n), n, 0, Innermost(p, n))
  <2>1. /\ d \in Declarations(p) /\ d.name = x /\ d.at = n /\ d.body = Innermost(p, n)
    BY <1>2, DeclarationsMean DEF Declaration
  <2>2. Innermost(p, n) \in Nat
        /\ (Innermost(p, n) # 0 => Innermost(p, n) \in 1 .. n - 1 /\ Parent(p, Innermost(p, n), n))
    BY InnermostIs
  <2>3. Within(p, n, Innermost(p, n))
    BY <2>2, WithinMeans DEF Parent
  <2>4. n <= n
    BY TreeLines
  <2> HIDE DEF d
  <2> QED
    BY <2>1, <2>3, <2>4 DEF Met, Known, InScope
<1> QED
  BY <1>1, <1>2

Shadows(p, d, e) == d # e /\ d.name = e.name /\ InScope(p, d, e.at)

\* A variable in a body that was not visible before shadows nothing and is
\* outside no function.
LEMMA FreshVariable ==
  ASSUME NEW p, Tree(p), NEW e \in Declarations(p), Kind(p, e.at) = "variable",
         ~Visible(p, NameAt(p, e.at), e.at)
  PROVE  /\ e \notin Stray(p)
         /\ \A d \in Declarations(p) : ~Shadows(p, d, e)
<1>1. e.at \in 1 .. Len(p) /\ e.index = 0 /\ e.name = NameAt(p, e.at) /\ ~IsParam(p, e)
  <2>1. ~IsParam(p, e)
    <3>1. IsParam(p, e) => Kind(p, e.at) \in Functions
      BY DeclarationFields
    <3> QED
      BY <3>1 DEF Functions
  <2> QED
    BY <2>1, DeclarationFields
<1>2. e \notin Stray(p)
  BY <1>1, GlobalDeclarations DEF Visible
<1>3. ASSUME NEW d \in Declarations(p), Shadows(p, d, e)
      PROVE  FALSE
  <2>1. d.at = e.at /\ (IsParam(p, d) \/ IsVariable(p, d))
    BY <1>1, <1>3, DeclaredIsVisible DEF Shadows
  <2>2. ~IsParam(p, d)
    <3>1. IsParam(p, d) => Kind(p, d.at) \in Functions
      BY DeclarationFields
    <3> QED
      BY <2>1, <3>1 DEF Functions
  <2>3. d.index = e.index
    BY <1>1, <2>1, <2>2, DeclarationFields
  <2>4. d = e
    BY <2>1, <2>3, OneOfALine
  <2> QED
    BY <1>3, <2>4 DEF Shadows
<1> QED
  BY <1>2, <1>3

\* Nor do the parameters of a line that is in nothing but a class, when none of
\* them is taken.
LEMMA FreshParams ==
  ASSUME NEW p, Tree(p), NEW e \in Declarations(p), IsParam(p, e),
         \A k \in 1 .. Len(Params(p, e.at)) : ~ParamTaken(p, e.at, k),
         \A b \in 1 .. e.at - 1 : Encloses(p, b, e.at) => Kind(p, b) = "class"
  PROVE  \A d \in Declarations(p) : ~Shadows(p, d, e)
<1> DEFINE i == e.at
<1>1. /\ i \in 1 .. Len(p) /\ e.index \in 1 .. Len(Params(p, i)) /\ e.body = i
      /\ e.name = Params(p, i)[e.index]
  BY DeclarationFields
<1>2. i \in Nat /\ Len(p) \in Nat /\ Len(Params(p, i)) \in Nat
  BY <1>1, TreeLines, KindsOfLines DEF Params
<1>3. ASSUME NEW d \in Declarations(p), Shadows(p, d, e)
      PROVE  FALSE
  <2>1. d # e /\ d.name = e.name /\ InScope(p, d, i) /\ d.at \in 1 .. Len(p)
    BY <1>3, DeclarationFields DEF Shadows
  <2>2. d.body # 0
    BY <1>1, <2>1, GlobalDeclarations DEF ParamTaken
  <2>3. IsParam(p, d) \/ IsVariable(p, d)
    BY <2>2, DeclarationFields
  <2>4. d.at <= i /\ (d.body = i \/ Within(p, i, d.body))
    BY <2>1, <2>2 DEF InScope
  <2>5. CASE IsVariable(p, d)
    <3>1. d.body \in 1 .. d.at - 1 /\ Parent(p, d.body, d.at)
      BY <2>2, <2>5, VariableBody
    <3>2. d.body \in 1 .. i - 1 /\ d.body # i /\ d.body \in Nat
      BY <1>2, <2>1, <2>4, <3>1
    <3>3. Encloses(p, d.body, i)
      BY <1>1, <2>2, <2>4, <3>2, WithinMeans
    <3>4. Kind(p, d.body) = "class"
      BY <3>2, <3>3
    <3>5. Kind(p, d.at) \in Members
      BY <2>1, <3>1, <3>4, TreePlaced
    <3> QED
      BY <2>5, <3>5 DEF IsVariable, Members
  <2>6. CASE IsParam(p, d)
    <3>1. d.body = d.at /\ Kind(p, d.at) \in Functions
      BY <2>6, DeclarationFields
    <3>2. d.at = i
      <4> SUFFICES ASSUME d.at # i
                   PROVE  FALSE
        OBVIOUS
      <4>1. d.body \in 1 .. i - 1 /\ d.body \in Nat
        BY <1>2, <2>1, <2>4, <3>1
      <4>2. Encloses(p, d.body, i)
        BY <1>1, <2>2, <2>4, <3>1, <4>1, WithinMeans
      <4>3. Kind(p, d.body) = "class"
        BY <4>1, <4>2
      <4> QED
        BY <3>1, <4>3 DEF Functions
    <3>3. d.index # e.index
      BY <2>1, <3>2, OneOfALine
    <3>4. d.index \in 1 .. Len(Params(p, i)) /\ d.name = Params(p, i)[d.index]
      BY <2>6, <3>2, DeclarationFields
    <3>5. d.index \in 1 .. e.index - 1 \/ e.index \in 1 .. d.index - 1
      BY <1>1, <1>2, <3>3, <3>4
    <3>6. Params(p, i)[d.index] = Params(p, i)[e.index]
      BY <1>1, <2>1, <3>4
    <3> QED
      BY <1>1, <3>4, <3>5, <3>6 DEF ParamTaken
  <2> QED
    BY <2>3, <2>5, <2>6
<1> QED
  BY <1>3

\* No error before line n, in the lines up to it and the bodies ds: everything
\* mentioned is in scope, and nothing declared in a body shadows anything.
Sound(p, n, ds) ==
  /\ \A i \in 1 .. n - 1 : \A x \in Mentions(p[i].node.expr) : Met(p, x, i)
  /\ \A e \in Declarations(p) :
       e.body # 0 /\ (e.at < n \/ e.at \in ds) => \A d \in Declarations(p) : ~Shadows(p, d, e)
  /\ \A d \in Stray(p) : d.at >= n

LEMMA SoundStep ==
  ASSUME NEW p, Tree(p), NEW n \in 1 .. Len(p), NEW ds, NEW es, Sound(p, n, ds),
         \A x \in Mentions(p[n].node.expr) : Met(p, x, n),
         \A e \in Declarations(p) :
           e.body # 0 /\ (e.at = n \/ e.at \in es \ ds) =>
             \A d \in Declarations(p) : ~Shadows(p, d, e),
         \A d \in Stray(p) : d.at # n
  PROVE  Sound(p, n + 1, es)
<1>1. n \in Nat /\ Len(p) \in Nat
  BY TreeLines
<1>2. \A i \in 1 .. (n + 1) - 1 : i \in 1 .. n - 1 \/ i = n
  BY <1>1
<1>3. \A i \in 1 .. (n + 1) - 1 : \A x \in Mentions(p[i].node.expr) : Met(p, x, i)
  BY <1>2 DEF Sound
<1>4. ASSUME NEW e \in Declarations(p), e.body # 0, e.at < n + 1 \/ e.at \in es
      PROVE  \A d \in Declarations(p) : ~Shadows(p, d, e)
  <2>1. e.at \in Nat
    BY DeclarationFields
  <2>2. e.at < n + 1 => e.at < n \/ e.at = n
    BY <1>1, <2>1
  <2>3. (e.at < n \/ e.at \in ds) \/ (e.at = n \/ e.at \in es \ ds)
    BY <1>4, <2>2
  <2> QED
    BY <1>4, <2>3 DEF Sound
<1>5. ASSUME NEW d \in Stray(p)
      PROVE  d.at >= n + 1
  <2>1. d.at \in 1 .. Len(p)
    BY DeclarationFields DEF Stray
  <2>2. d.at >= n /\ d.at # n
    BY DEF Sound
  <2> QED
    BY <1>1, <2>1, <2>2
<1> QED
  BY <1>3, <1>4, <1>5 DEF Sound

-----------------------------------------------------------------------------
(* The path of open bodies, and the stack of scopes along it.               *)

LEMMA FrontIs ==
  ASSUME NEW S, NEW s \in Seq(S), s # <<>>
  PROVE  /\ Len(s) \in Nat /\ Len(s) >= 1
         /\ Front(s) \in Seq(S) /\ Len(Front(s)) = Len(s) - 1
         /\ \A k \in 1 .. Len(s) - 1 : Front(s)[k] = s[k]
         /\ Len(s) = 1 => Front(s) = <<>>
<1>1. Len(s) \in Nat /\ Len(s) # 0
  BY EmptySeq, LenProperties
<1>2. \A k \in 1 .. Len(s) - 1 : s[k] \in S
  BY <1>1, ElementOfSeq
<1>3. /\ Front(s) \in Seq(S)
      /\ Len(Front(s)) = IF 1 <= Len(s) - 1 THEN Len(s) - 1 - 1 + 1 ELSE 0
      /\ \A k \in 1 .. Len(s) - 1 - 1 + 1 : Front(s)[k] = s[1 + k - 1]
  BY <1>1, <1>2, SubSeqProperties DEF Front
<1>4. Len(Front(s)) = Len(s) - 1
  <2>1. \A m \in Nat : m # 0 => IF 1 <= m - 1 THEN m - 1 - 1 + 1 = m - 1 ELSE 0 = m - 1
    OBVIOUS
  <2>2. IF 1 <= Len(s) - 1 THEN Len(s) - 1 - 1 + 1 = Len(s) - 1 ELSE 0 = Len(s) - 1
    BY <1>1, <2>1
  <2>3. CASE 1 <= Len(s) - 1
    <3>1. Len(Front(s)) = Len(s) - 1 - 1 + 1
      BY <1>3, <2>3, Zenon
    <3> QED
      BY <2>2, <2>3, <3>1, Zenon
  <2>4. CASE ~(1 <= Len(s) - 1)
    <3>1. Len(Front(s)) = 0
      BY <1>3, <2>4, Zenon
    <3> QED
      BY <2>2, <2>4, <3>1, Zenon
  <2> QED
    BY <2>3, <2>4
<1>5. ASSUME NEW k \in 1 .. Len(s) - 1
      PROVE  Front(s)[k] = s[k]
  <2>1. k \in 1 .. Len(s) - 1 - 1 + 1 /\ 1 + k - 1 = k
    BY <1>1
  <2> QED
    BY <1>3, <2>1
<1>6. Len(s) = 1 => Front(s) = <<>>
  <2>1. Len(s) = 1 => Len(Front(s)) = 0
    BY <1>4
  <2> QED
    BY <1>3, <2>1, EmptySeq
<1> QED
  BY <1>1, <1>3, <1>4, <1>5, <1>6

\* o is the bodies around the lines from n on that are being walked, from the
\* outermost to the innermost.
Path(p, o, n) ==
  /\ o \in Seq(1 .. Len(p))
  /\ \A k \in 1 .. Len(o) :
       /\ o[k] < n /\ Depth(p, o[k]) = k /\ HasBody(p[o[k]].node)
       /\ \A j \in o[k] + 1 .. n - 1 : Depth(p, j) > k

LEMMA PathFacts ==
  ASSUME NEW p, Tree(p), NEW o, NEW n \in Nat, Path(p, o, n)
  PROVE  /\ Len(o) \in Nat /\ DOMAIN o = 1 .. Len(o) /\ Len(p) \in Nat
         /\ \A k \in 1 .. Len(o) : /\ o[k] \in 1 .. Len(p) /\ o[k] \in Nat /\ o[k] < n
                                   /\ Depth(p, o[k]) = k
         /\ o # <<>> => Len(o) >= 1
<1>1. o \in Seq(1 .. Len(p)) /\ Len(o) \in Nat /\ DOMAIN o = 1 .. Len(o) /\ Len(p) \in Nat
  BY LenProperties, TreeLines DEF Path
<1>2. \A k \in 1 .. Len(o) : o[k] \in 1 .. Len(p)
  BY <1>1, ElementOfSeq
<1>3. o # <<>> => Len(o) >= 1
  BY <1>1, EmptySeq
<1> QED
  BY <1>1, <1>2, <1>3 DEF Path

\* The line after the path is in its bodies and in no others.
LEMMA PathAround ==
  ASSUME NEW p, Tree(p), NEW n \in 1 .. Len(p), NEW o, Path(p, o, n), Depth(p, n) = Len(o) + 1
  PROVE  /\ \A k \in 1 .. Len(o) : Encloses(p, o[k], n) /\ o[k] \in 1 .. n - 1
         /\ \A b : Encloses(p, b, n) => Depth(p, b) \in 1 .. Len(o) /\ b = o[Depth(p, b)]
         /\ \A k \in 1 .. Len(o) : Parent(p, o[k], n) <=> k = Len(o)
<1>1. n \in Nat /\ n >= 1 /\ Len(p) \in Nat /\ n <= Len(p)
  BY TreeLines
<1>2. /\ Len(o) \in Nat
      /\ \A k \in 1 .. Len(o) : /\ o[k] \in 1 .. Len(p) /\ o[k] \in Nat /\ o[k] < n
                                /\ Depth(p, o[k]) = k
  BY <1>1, PathFacts
<1>3. ASSUME NEW k \in 1 .. Len(o)
      PROVE  Encloses(p, o[k], n) /\ o[k] \in 1 .. n - 1
  <2>1. o[k] \in 1 .. n - 1
    BY <1>1, <1>2
  <2>2. ASSUME NEW j \in o[k] + 1 .. n
        PROVE  Depth(p, j) > Depth(p, o[k])
    <3>1. CASE j = n
      BY <1>2, <3>1
    <3>2. CASE j # n
      <4>1. j \in o[k] + 1 .. n - 1
        BY <1>1, <1>2, <3>2
      <4> QED
        BY <1>2, <4>1 DEF Path
    <3> QED
      BY <3>1, <3>2
  <2> QED
    BY <2>1, <2>2 DEF Encloses, Path
<1>4. ASSUME NEW b, Encloses(p, b, n)
      PROVE  Depth(p, b) \in 1 .. Len(o) /\ b = o[Depth(p, b)]
  <2>1. b \in 1 .. Len(p) /\ Depth(p, b) < Depth(p, n)
    BY <1>4, Nested
  <2>2. Depth(p, b) \in Nat /\ Depth(p, b) >= 1
    BY <2>1, TreeLines
  <2>3. Depth(p, b) \in 1 .. Len(o)
    BY <1>2, <2>1, <2>2
  <2>4. Encloses(p, o[Depth(p, b)], n) /\ Depth(p, o[Depth(p, b)]) = Depth(p, b)
    BY <1>2, <1>3, <2>3
  <2> QED
    BY <1>4, <2>3, <2>4, Nested
<1>5. \A k \in 1 .. Len(o) : Parent(p, o[k], n) <=> k = Len(o)
  BY <1>2, <1>3 DEF Parent
<1> QED
  BY <1>3, <1>4, <1>5

\* Past a line, into its body, and out of the innermost body.
LEMMA PathPast ==
  ASSUME NEW p, Tree(p), NEW n \in 1 .. Len(p), NEW o, Path(p, o, n), Depth(p, n) = Len(o) + 1
  PROVE  Path(p, o, n + 1)
<1>1. n \in Nat /\ Len(o) \in Nat /\ \A k \in 1 .. Len(o) : o[k] \in Nat /\ o[k] < n
  BY TreeLines, PathFacts
<1>2. ASSUME NEW k \in 1 .. Len(o)
      PROVE  o[k] < n + 1 /\ \A j \in o[k] + 1 .. (n + 1) - 1 : Depth(p, j) > k
  <2>1. o[k] < n + 1
    BY <1>1
  <2>2. ASSUME NEW j \in o[k] + 1 .. (n + 1) - 1
        PROVE  Depth(p, j) > k
    <3>1. CASE j = n
      BY <1>1, <3>1
    <3>2. CASE j # n
      <4>1. j \in o[k] + 1 .. n - 1
        BY <1>1, <3>2
      <4> QED
        BY <4>1 DEF Path
    <3> QED
      BY <3>1, <3>2
  <2> QED
    BY <2>1, <2>2
<1> QED
  BY <1>2 DEF Path

LEMMA PathInto ==
  ASSUME NEW p, Tree(p), NEW n \in 1 .. Len(p), NEW o, Path(p, o, n), Depth(p, n) = Len(o) + 1,
         HasBody(p[n].node)
  PROVE  Path(p, Append(o, n), n + 1)
<1> DEFINE q == Append(o, n)
<1>1. n \in Nat /\ Len(o) \in Nat
  BY TreeLines, PathFacts
<1>2. Path(p, o, n + 1)
  BY PathPast
<1>3. q \in Seq(1 .. Len(p)) /\ Len(q) = Len(o) + 1 /\ q[Len(o) + 1] = n
      /\ \A k \in 1 .. Len(o) : q[k] = o[k]
  BY AppendProperties DEF Path
<1> HIDE DEF q
<1>4. ASSUME NEW k \in 1 .. Len(q)
      PROVE  /\ q[k] < n + 1 /\ Depth(p, q[k]) = k /\ HasBody(p[q[k]].node)
             /\ \A j \in q[k] + 1 .. (n + 1) - 1 : Depth(p, j) > k
  <2>1. CASE k = Len(o) + 1
    <3>1. n < n + 1 /\ \A j \in n + 1 .. (n + 1) - 1 : FALSE
      BY <1>1
    <3>2. q[k] = n
      BY <1>3, <2>1
    <3>3. Depth(p, q[k]) = k /\ HasBody(p[q[k]].node)
      BY <2>1, <3>2
    <3> QED
      BY <3>1, <3>2, <3>3
  <2>2. CASE k # Len(o) + 1
    <3>1. k \in 1 .. Len(o)
      BY <1>1, <1>3, <2>2
    <3>2. q[k] = o[k]
      BY <1>3, <3>1
    <3> QED
      BY <1>2, <3>1, <3>2 DEF Path
  <2> QED
    BY <2>1, <2>2
<1> QED
  BY <1>3, <1>4 DEF Path, q

LEMMA PathOut ==
  ASSUME NEW p, Tree(p), NEW n \in Nat, NEW o, Path(p, o, n), o # <<>>
  PROVE  Path(p, Front(o), n)
<1>1. /\ Len(o) \in Nat /\ Front(o) \in Seq(1 .. Len(p)) /\ Len(Front(o)) = Len(o) - 1
      /\ \A k \in 1 .. Len(o) - 1 : Front(o)[k] = o[k]
  BY FrontIs DEF Path
<1>2. \A k \in 1 .. Len(Front(o)) : k \in 1 .. Len(o) /\ Front(o)[k] = o[k]
  BY <1>1
<1> QED
  BY <1>1, <1>2 DEF Path

\* s is the program and the bodies of o that have a scope, all but a class.
InClass(p, o) == o # <<>> /\ Kind(p, o[1]) = "class"
Stack(p, o, s) ==
  /\ s \in Seq(0 .. Len(p))
  /\ Len(s) = Len(o) + (IF InClass(p, o) THEN 0 ELSE 1)
  /\ s[1] = 0
  /\ \A k \in 2 .. Len(s) : s[k] = o[IF InClass(p, o) THEN k ELSE k - 1]

\* Only the outermost body of a path is a class.
LEMMA ClassOutermost ==
  ASSUME NEW p, Tree(p), NEW o, NEW n \in Nat, Path(p, o, n),
         NEW k \in 1 .. Len(o), Kind(p, o[k]) = "class"
  PROVE  k = 1 /\ InClass(p, o)
<1>1. o[k] \in 1 .. Len(p) /\ Depth(p, o[k]) = k /\ Len(o) \in Nat
  BY PathFacts
<1>2. k = 1
  BY <1>1, TreePlaced
<1>3. o # <<>>
  <2>1. Len(o) # 0
    BY <1>1
  <2> QED
    BY <2>1
<1> QED
  BY <1>2, <1>3 DEF InClass

LEMMA StackFacts ==
  ASSUME NEW p, Tree(p), NEW o, NEW n \in Nat, Path(p, o, n), NEW s, Stack(p, o, s)
  PROVE  /\ Len(s) \in Nat /\ Len(s) >= 1 /\ DOMAIN s = 1 .. Len(s) /\ s # <<>> /\ s[1] = 0
         /\ \A k \in 1 .. Len(s) :
              s[k] = 0 \/ \E m \in 1 .. Len(o) : s[k] = o[m] /\ Kind(p, o[m]) # "class"
         /\ \A m \in 1 .. Len(o) : Kind(p, o[m]) # "class" => \E k \in 1 .. Len(s) : s[k] = o[m]
         /\ o = <<>> => Len(s) = 1
         /\ o # <<>> /\ Kind(p, o[Len(o)]) = "class" => Len(s) = 1 /\ Len(o) = 1
         /\ o # <<>> /\ Kind(p, o[Len(o)]) # "class" => Len(s) > 1 /\ s[Len(s)] = o[Len(o)]
<1>1. /\ Len(o) \in Nat /\ (o # <<>> => Len(o) >= 1)
      /\ \A k \in 1 .. Len(o) : Kind(p, o[k]) = "class" => k = 1 /\ InClass(p, o)
  BY PathFacts, ClassOutermost
<1>2. InClass(p, o) => o # <<>> /\ Kind(p, o[1]) = "class"
  BY DEF InClass
<1>3. Len(s) \in Nat /\ DOMAIN s = 1 .. Len(s)
  BY LenProperties DEF Stack
<1>4. Len(s) >= 1 /\ s # <<>>
  <2>1. Len(s) >= 1
    BY <1>1, <1>2 DEF Stack
  <2> QED
    BY <2>1
<1>5. ASSUME NEW k \in 1 .. Len(s)
      PROVE  s[k] = 0 \/ \E m \in 1 .. Len(o) : s[k] = o[m] /\ Kind(p, o[m]) # "class"
  <2>1. CASE k = 1
    BY <2>1 DEF Stack
  <2>2. CASE k # 1 /\ InClass(p, o)
    <3>1. k \in 1 .. Len(o) /\ k \in 2 .. Len(s)
      BY <1>1, <1>3, <2>2 DEF Stack
    <3>2. s[k] = o[k]
      BY <2>2, <3>1 DEF Stack
    <3> QED
      BY <1>1, <2>2, <3>1, <3>2
  <2>3. CASE k # 1 /\ ~InClass(p, o)
    <3>1. k - 1 \in 1 .. Len(o) /\ k \in 2 .. Len(s)
      BY <1>1, <1>3, <2>3 DEF Stack
    <3>2. s[k] = o[k - 1]
      BY <2>3, <3>1 DEF Stack
    <3> QED
      BY <1>1, <2>3, <3>1, <3>2
  <2> QED
    BY <2>1, <2>2, <2>3
<1>6. ASSUME NEW m \in 1 .. Len(o), Kind(p, o[m]) # "class"
      PROVE  \E k \in 1 .. Len(s) : s[k] = o[m]
  <2>1. CASE InClass(p, o)
    <3>1. m # 1
      BY <1>2, <1>6, <2>1
    <3>2. m \in 2 .. Len(s) /\ m \in 1 .. Len(s)
      BY <1>1, <2>1, <3>1 DEF Stack
    <3> QED
      BY <2>1, <3>2 DEF Stack
  <2>2. CASE ~InClass(p, o)
    <3>1. m + 1 \in 2 .. Len(s) /\ m + 1 \in 1 .. Len(s) /\ (m + 1) - 1 = m
      BY <1>1, <2>2 DEF Stack
    <3>2. s[m + 1] = o[(m + 1) - 1]
      BY <2>2, <3>1 DEF Stack
    <3> QED
      BY <3>1, <3>2
  <2> QED
    BY <2>1, <2>2
<1>7. o = <<>> => Len(s) = 1
  BY <1>2 DEF Stack
<1>8. ASSUME o # <<>>, Kind(p, o[Len(o)]) = "class"
      PROVE  Len(s) = 1 /\ Len(o) = 1
  <2>1. Len(o) \in 1 .. Len(o)
    BY <1>1, <1>8
  <2>2. Len(o) = 1 /\ InClass(p, o)
    BY <1>1, <1>8, <2>1
  <2> QED
    BY <2>2 DEF Stack
<1>9. ASSUME o # <<>>, Kind(p, o[Len(o)]) # "class"
      PROVE  Len(s) > 1 /\ s[Len(s)] = o[Len(o)]
  <2>1. CASE InClass(p, o)
    <3>1. Len(o) # 1 /\ Len(s) = Len(o)
      BY <1>2, <1>9, <2>1 DEF Stack
    <3>2. Len(s) > 1 /\ Len(s) \in 2 .. Len(s)
      BY <1>1, <1>9, <3>1
    <3>3. s[Len(s)] = o[Len(s)]
      BY <2>1, <3>2 DEF Stack
    <3> QED
      BY <3>1, <3>2, <3>3
  <2>2. CASE ~InClass(p, o)
    <3>1. Len(s) = Len(o) + 1
      BY <2>2 DEF Stack
    <3>2. Len(s) > 1 /\ Len(s) \in 2 .. Len(s) /\ Len(s) - 1 = Len(o)
      BY <1>1, <1>9, <3>1
    <3>3. s[Len(s)] = o[Len(s) - 1]
      BY <2>2, <3>2 DEF Stack
    <3> QED
      BY <3>2, <3>3
  <2> QED
    BY <2>1, <2>2
<1> QED
  BY <1>3, <1>4, <1>5, <1>6, <1>7, <1>8, <1>9 DEF Stack

\* The bodies and their scopes are entered and left together.
LEMMA StackInto ==
  ASSUME NEW p, Tree(p), NEW n \in 1 .. Len(p), NEW o, Path(p, o, n), NEW s, Stack(p, o, s),
         Kind(p, n) # "class"
  PROVE  Stack(p, Append(o, n), Append(s, n))
<1> DEFINE q == Append(o, n)
           r == Append(s, n)
<1>1. /\ Len(o) \in Nat /\ Len(s) \in Nat /\ Len(s) >= 1 /\ n \in Nat /\ Len(p) \in Nat
      /\ (o # <<>> => Len(o) >= 1)
  BY StackFacts, PathFacts, TreeLines
<1>2. /\ Len(q) = Len(o) + 1 /\ q[Len(o) + 1] = n /\ q # <<>>
      /\ \A k \in 1 .. Len(o) : q[k] = o[k]
  BY AppendProperties DEF Path
<1>3. /\ r \in Seq(0 .. Len(p)) /\ Len(r) = Len(s) + 1 /\ r[Len(s) + 1] = n
      /\ \A k \in 1 .. Len(s) : r[k] = s[k]
  <2>1. n \in 0 .. Len(p) /\ s \in Seq(0 .. Len(p))
    BY <1>1 DEF Stack
  <2> QED
    BY <2>1, AppendProperties
<1> HIDE DEF q, r
<1>4. InClass(p, q) <=> InClass(p, o)
  <2>1. CASE o = <<>>
    <3>1. q[1] = n
      BY <1>2, <2>1
    <3> QED
      BY <2>1, <3>1 DEF InClass
  <2>2. CASE o # <<>>
    <3>1. q[1] = o[1]
      BY <1>1, <1>2, <2>2
    <3> QED
      BY <1>2, <2>2, <3>1 DEF InClass
  <2> QED
    BY <2>1, <2>2
<1>5. Len(r) = Len(q) + (IF InClass(p, q) THEN 0 ELSE 1)
  BY <1>1, <1>2, <1>3, <1>4 DEF Stack
<1>6. r[1] = 0
  BY <1>1, <1>3 DEF Stack
<1>7. ASSUME NEW k \in 2 .. Len(r)
      PROVE  r[k] = q[IF InClass(p, q) THEN k ELSE k - 1]
  <2>1. CASE k = Len(s) + 1
    <3>1. (IF InClass(p, q) THEN k ELSE k - 1) = Len(o) + 1
      BY <1>1, <1>4, <2>1 DEF Stack
    <3> QED
      BY <1>2, <1>3, <2>1, <3>1
  <2>2. CASE k # Len(s) + 1
    <3>1. k \in 2 .. Len(s) /\ k \in 1 .. Len(s)
      BY <1>1, <1>3, <2>2
    <3>2. (IF InClass(p, o) THEN k ELSE k - 1) \in 1 .. Len(o)
      BY <1>1, <3>1 DEF Stack
    <3>3. r[k] = s[k] /\ s[k] = o[IF InClass(p, o) THEN k ELSE k - 1]
      BY <1>3, <3>1 DEF Stack
    <3> QED
      BY <1>2, <1>4, <3>2, <3>3
  <2> QED
    BY <2>1, <2>2
<1> QED
  BY <1>3, <1>5, <1>6, <1>7 DEF Stack, q, r

LEMMA StackIntoClass ==
  ASSUME NEW p, Tree(p), NEW n \in 1 .. Len(p), NEW s, Stack(p, <<>>, s), Kind(p, n) = "class"
  PROVE  Stack(p, Append(<<>>, n), s)
<1> DEFINE q == Append(<<>>, n)
<1>1. ~InClass(p, <<>>)
  BY DEF InClass
<1>2. Len(s) = 1
  BY <1>1 DEF Stack
<1>3. q = <<n>>
  OBVIOUS
<1>4. InClass(p, q) /\ Len(q) = 1
  BY <1>3 DEF InClass
<1> HIDE DEF q
<1> QED
  BY <1>2, <1>4 DEF Stack, q

LEMMA StackOut ==
  ASSUME NEW p, Tree(p), NEW n \in Nat, NEW o, Path(p, o, n), o # <<>>, NEW s, Stack(p, o, s)
  PROVE  Stack(p, Front(o), IF Kind(p, o[Len(o)]) = "class" THEN s ELSE Front(s))
<1>1. /\ Len(o) \in Nat /\ Len(o) >= 1 /\ Len(Front(o)) = Len(o) - 1
      /\ \A k \in 1 .. Len(o) - 1 : Front(o)[k] = o[k]
      /\ Len(o) = 1 => Front(o) = <<>>
  BY FrontIs DEF Path
<1>2. /\ Len(s) \in Nat /\ Len(s) >= 1 /\ Len(Front(s)) = Len(s) - 1
      /\ Front(s) \in Seq(0 .. Len(p))
      /\ \A k \in 1 .. Len(s) - 1 : Front(s)[k] = s[k]
  BY StackFacts, FrontIs DEF Stack
<1>3. CASE Kind(p, o[Len(o)]) = "class"
  <2>1. Len(s) = 1 /\ Len(o) = 1
    BY <1>3, StackFacts
  <2>2. Front(o) = <<>> /\ ~InClass(p, <<>>) /\ Len(<<>>) = 0
    BY <1>1, <2>1 DEF InClass
  <2>3. Stack(p, <<>>, s)
    <3>1. Len(s) = Len(<<>>) + 1 /\ \A k \in 2 .. Len(s) : FALSE
      BY <2>1, <2>2
    <3>2. s \in Seq(0 .. Len(p)) /\ s[1] = 0
      BY DEF Stack
    <3> QED
      BY <2>2, <3>1, <3>2 DEF Stack
  <2> QED
    BY <1>3, <2>2, <2>3
<1>4. CASE Kind(p, o[Len(o)]) # "class"
  <2>1. Len(s) > 1
    BY <1>4, StackFacts
  <2>2. InClass(p, Front(o)) <=> InClass(p, o)
    <3>1. CASE Len(o) = 1
      BY <1>1, <1>4, <3>1 DEF InClass
    <3>2. CASE Len(o) # 1
      <4>1. Front(o)[1] = o[1] /\ Len(Front(o)) # 0
        BY <1>1, <3>2
      <4>2. Front(o) # <<>>
        BY <4>1
      <4> QED
        BY <4>1, <4>2 DEF InClass
    <3> QED
      BY <3>1, <3>2
  <2>3. Len(Front(s)) = Len(Front(o)) + (IF InClass(p, Front(o)) THEN 0 ELSE 1)
    BY <1>1, <1>2, <2>2 DEF Stack
  <2>4. Front(s)[1] = 0
    BY <1>2, <2>1 DEF Stack
  <2>5. ASSUME NEW k \in 2 .. Len(Front(s))
        PROVE  Front(s)[k] = Front(o)[IF InClass(p, Front(o)) THEN k ELSE k - 1]
    <3>1. k \in 2 .. Len(s) /\ k \in 1 .. Len(s) - 1
      BY <1>2
    <3>2. (IF InClass(p, o) THEN k ELSE k - 1) \in 1 .. Len(o) - 1
      BY <1>1, <1>2, <3>1 DEF Stack
    <3>3. Front(s)[k] = s[k] /\ s[k] = o[IF InClass(p, o) THEN k ELSE k - 1]
      BY <1>2, <3>1 DEF Stack
    <3> QED
      BY <1>1, <2>2, <3>2, <3>3
  <2>6. Stack(p, Front(o), Front(s))
    BY <1>2, <2>3, <2>4, <2>5 DEF Stack
  <2> QED
    BY <1>4, <2>6
<1> QED
  BY <1>3, <1>4

-----------------------------------------------------------------------------
(* What is filed under the keys of the scopes.                              *)

LEMMA ScopedDomain == \A key, t : DOMAIN Scoped(key, t) = DOMAIN t \cup {key}
BY DEF Scoped, With

LEMMA ScopedIs ==
  \A key, t :
    /\ \A k \in DOMAIN t : Scoped(key, t)[k] = t[k]
    /\ key \notin DOMAIN t => Scoped(key, t)[key] = {}
<1> TAKE key, t
<1>1. \A k \in DOMAIN t : Scoped(key, t)[k] = t[k]
  BY DEF Scoped, With
<1>2. key \notin DOMAIN t => Scoped(key, t)[key] = {}
  BY DEF Scoped, With
<1> QED
  BY <1>1, <1>2

LEMMA DefinedIs ==
  ASSUME NEW x, NEW t, NEW key \in DOMAIN t
  PROVE  /\ DOMAIN Defined(x, key, t) = DOMAIN t
         /\ Defined(x, key, t)[key] = t[key] \cup {x}
         /\ \A k \in DOMAIN t : k # key => Defined(x, key, t)[k] = t[k]
BY DEF Defined

HasScope(p, i) == Kind(p, i) \in {"constructor", "method"}

\* The open bodies have what they declared before line n.
OpenFiled(p, o, t, n) ==
  /\ 0 \in DOMAIN t /\ t[0] = Globals(p, Len(p) + 1)
  /\ \A k \in 1 .. Len(o) :
       Kind(p, o[k]) # "class" => o[k] \in DOMAIN t /\ t[o[k]] = Locals(p, o[k], n)

\* Only members of the class that is open are filed ahead of the walk, with
\* their parameters, and all of them are.
AheadFiled(p, o, t, n) ==
  /\ \A i \in DOMAIN t : i >= n =>
       /\ i \in 1 .. Len(p) /\ HasScope(p, i) /\ t[i] = Range(Params(p, i))
       /\ \A h \in n .. i : Depth(p, h) > 1
  /\ InClass(p, o) =>
       \A m \in n .. Len(p) :
         HasScope(p, m) /\ (\A h \in n .. m : Depth(p, h) > 1) => m \in DOMAIN t

\* A class declares nothing in a scope of its own.
LEMMA LocalsOfClass ==
  ASSUME NEW p, Tree(p), NEW b \in 1 .. Len(p), Kind(p, b) = "class",
         NEW n \in 1 .. Len(p) + 1
  PROVE  Locals(p, b, n) = {}
<1>1. Params(p, b) = <<>>
  BY KindsOfLines DEF Params, Functions
<1>2. Range(Params(p, b)) = {}
  BY <1>1 DEF Range
<1>3. ASSUME NEW i \in 1 .. n - 1, Kind(p, i) = "variable", Parent(p, b, i)
      PROVE  FALSE
  <2>1. i \in 1 .. Len(p)
    BY TreeLines
  <2>2. Kind(p, i) \in Members
    BY <1>3, <2>1, TreePlaced DEF Parent, Encloses
  <2> QED
    BY <1>3, <2>2 DEF Members
<1> QED
  BY <1>2, <1>3 DEF Locals

LEMMA LocalsPast ==
  ASSUME NEW p, Tree(p), NEW n \in 1 .. Len(p), NEW b
  PROVE  Locals(p, b, n + 1) =
           IF Kind(p, n) = "variable" /\ Parent(p, b, n)
           THEN Locals(p, b, n) \cup {NameAt(p, n)} ELSE Locals(p, b, n)
<1>1. n \in Nat
  BY TreeLines
<1>2. \A j : j \in 1 .. (n + 1) - 1 <=> j \in 1 .. n - 1 \/ j = n
  BY <1>1
<1> QED
  BY <1>2, Zenon DEF Locals

LEMMA LocalsNew ==
  ASSUME NEW p, Tree(p), NEW n \in 1 .. Len(p)
  PROVE  Locals(p, n, n + 1) = Range(Params(p, n))
<1>1. \A j \in 1 .. (n + 1) - 1 : ~Parent(p, n, j)
  BY TreeLines DEF Parent, Encloses
<1> QED
  BY <1>1 DEF Locals

\* What the stack finds is what is visible.
LEMMA LookupMeans ==
  ASSUME NEW p, Tree(p), NEW n \in 1 .. Len(p), NEW o, Path(p, o, n), Depth(p, n) = Len(o) + 1,
         NEW s, Stack(p, o, s), NEW t, OpenFiled(p, o, t, n), NEW x
  PROVE  Lookup(x, s, t) <=> Visible(p, x, n)
<1>1. n \in Nat /\ Len(p) \in Nat
  BY TreeLines
<1>2. /\ DOMAIN s = 1 .. Len(s) /\ Len(s) \in Nat /\ Len(s) >= 1 /\ s[1] = 0
      /\ \A k \in 1 .. Len(s) :
           s[k] = 0 \/ \E m \in 1 .. Len(o) : s[k] = o[m] /\ Kind(p, o[m]) # "class"
      /\ \A m \in 1 .. Len(o) : Kind(p, o[m]) # "class" => \E k \in 1 .. Len(s) : s[k] = o[m]
  BY <1>1, StackFacts
<1>3. /\ \A k \in 1 .. Len(o) : Encloses(p, o[k], n) /\ o[k] \in 1 .. n - 1
      /\ \A b : Encloses(p, b, n) => Depth(p, b) \in 1 .. Len(o) /\ b = o[Depth(p, b)]
  BY PathAround
<1>4. ASSUME Lookup(x, s, t)
      PROVE  Visible(p, x, n)
  <2>1. PICK k \in 1 .. Len(s) : x \in t[s[k]]
    BY <1>2, <1>4 DEF Lookup
  <2>2. CASE s[k] = 0
    BY <2>1, <2>2 DEF OpenFiled, Visible
  <2>3. CASE s[k] # 0
    <3>1. PICK m \in 1 .. Len(o) : s[k] = o[m] /\ Kind(p, o[m]) # "class"
      BY <1>2, <2>3
    <3>2. x \in Locals(p, o[m], n)
      BY <2>1, <3>1 DEF OpenFiled
    <3> QED
      BY <1>3, <3>2 DEF Visible
  <2> QED
    BY <2>2, <2>3
<1>5. ASSUME Visible(p, x, n)
      PROVE  Lookup(x, s, t)
  <2>1. CASE x \in Globals(p, Len(p) + 1)
    <3>1. 1 \in DOMAIN s /\ x \in t[s[1]]
      BY <1>2, <2>1 DEF OpenFiled
    <3> QED
      BY <3>1 DEF Lookup
  <2>2. CASE \E b \in 1 .. n - 1 : Encloses(p, b, n) /\ x \in Locals(p, b, n)
    <3>1. PICK b \in 1 .. n - 1 : Encloses(p, b, n) /\ x \in Locals(p, b, n)
      BY <2>2
    <3>2. PICK m \in 1 .. Len(o) : b = o[m]
      BY <1>3, <3>1
    <3>3. Kind(p, b) # "class"
      <4>1. b \in 1 .. Len(p) /\ n \in 1 .. Len(p) + 1
        BY <1>1
      <4> QED
        BY <3>1, <4>1, LocalsOfClass
    <3>4. PICK k \in 1 .. Len(s) : s[k] = o[m]
      BY <1>2, <3>2, <3>3
    <3>5. x \in t[s[k]]
      BY <3>1, <3>2, <3>3, <3>4 DEF OpenFiled
    <3> QED
      BY <1>2, <3>5 DEF Lookup
  <2> QED
    BY <1>5, <2>1, <2>2 DEF Visible
<1> QED
  BY <1>4, <1>5

\* Past a line that changes no key ahead of it.
LEMMA AheadPast ==
  ASSUME NEW p, Tree(p), NEW n \in 1 .. Len(p), NEW o, NEW q, NEW t, NEW u,
         AheadFiled(p, o, t, n), InClass(p, o) => Depth(p, n) > 1,
         InClass(p, q) => InClass(p, o), DOMAIN t \subseteq DOMAIN u,
         \A i \in DOMAIN u : i >= n + 1 => i \in DOMAIN t /\ u[i] = t[i],
         DOMAIN u \subseteq 0 .. Len(p)
  PROVE  AheadFiled(p, q, u, n + 1)
<1>1. n \in Nat /\ Len(p) \in Nat
  BY TreeLines
<1>2. ASSUME NEW i \in DOMAIN u, i >= n + 1
      PROVE  /\ i \in 1 .. Len(p) /\ HasScope(p, i) /\ u[i] = Range(Params(p, i))
             /\ \A h \in n + 1 .. i : Depth(p, h) > 1
  <2>1. i \in DOMAIN t /\ u[i] = t[i] /\ i >= n /\ i \in Nat
    BY <1>1, <1>2
  <2>2. \A h \in n + 1 .. i : h \in n .. i
    BY <1>1, <2>1
  <2> QED
    BY <2>1, <2>2 DEF AheadFiled
<1>3. ASSUME InClass(p, q), NEW m \in n + 1 .. Len(p), HasScope(p, m),
             \A h \in n + 1 .. m : Depth(p, h) > 1
      PROVE  m \in DOMAIN u
  <2>1. Depth(p, n) > 1 /\ m \in n .. Len(p)
    BY <1>1, <1>3
  <2>2. \A h \in n .. m : h = n \/ h \in n + 1 .. m
    BY <1>1
  <2>3. \A h \in n .. m : Depth(p, h) > 1
    BY <1>3, <2>1, <2>2
  <2> QED
    BY <1>3, <2>1, <2>3 DEF AheadFiled
<1> QED
  BY <1>2, <1>3 DEF AheadFiled

LEMMA OpenPast ==
  ASSUME NEW p, Tree(p), NEW n \in 1 .. Len(p), NEW o, Path(p, o, n), NEW t, NEW u,
         OpenFiled(p, o, t, n), Kind(p, n) = "variable" => o = <<>>,
         \A i \in DOMAIN t : i < n => i \in DOMAIN u /\ u[i] = t[i]
  PROVE  OpenFiled(p, o, u, n + 1)
<1>1. n \in Nat /\ n >= 1 /\ Len(o) \in Nat /\ \A k \in 1 .. Len(o) : o[k] < n
  BY TreeLines, PathFacts
<1>2. 0 \in DOMAIN u /\ u[0] = Globals(p, Len(p) + 1)
  BY <1>1 DEF OpenFiled
<1>3. ASSUME NEW k \in 1 .. Len(o), Kind(p, o[k]) # "class"
      PROVE  o[k] \in DOMAIN u /\ u[o[k]] = Locals(p, o[k], n + 1)
  <2>1. o[k] \in DOMAIN u /\ u[o[k]] = Locals(p, o[k], n)
    BY <1>1, <1>3 DEF OpenFiled
  <2>2. Kind(p, n) # "variable"
    <3>1. o # <<>>
      BY <1>1
    <3> QED
      BY <3>1
  <2> QED
    BY <2>1, <2>2, LocalsPast
<1> QED
  BY <1>2, <1>3 DEF OpenFiled

LEMMA OpenDefined ==
  ASSUME NEW p, Tree(p), NEW n \in 1 .. Len(p), NEW o, Path(p, o, n), Depth(p, n) = Len(o) + 1,
         NEW t, OpenFiled(p, o, t, n), Kind(p, n) = "variable", o # <<>>,
         Kind(p, o[Len(o)]) # "class"
  PROVE  OpenFiled(p, o, Defined(NameAt(p, n), o[Len(o)], t), n + 1)
<1> DEFINE last == o[Len(o)]
           u == Defined(NameAt(p, n), last, t)
<1>1. /\ n \in Nat /\ n >= 1 /\ Len(o) \in Nat /\ Len(o) >= 1
      /\ \A k \in 1 .. Len(o) : o[k] \in 1 .. Len(p) /\ Depth(p, o[k]) = k
  BY TreeLines, PathFacts
<1>2. Len(o) \in 1 .. Len(o) /\ last \in DOMAIN t /\ last # 0
  BY <1>1 DEF OpenFiled
<1>3. /\ DOMAIN u = DOMAIN t /\ u[last] = t[last] \cup {NameAt(p, n)}
      /\ \A i \in DOMAIN t : i # last => u[i] = t[i]
  BY <1>2, DefinedIs
<1> HIDE DEF u
<1>4. 0 \in DOMAIN u /\ u[0] = Globals(p, Len(p) + 1)
  BY <1>2, <1>3 DEF OpenFiled
<1>5. ASSUME NEW k \in 1 .. Len(o), Kind(p, o[k]) # "class"
      PROVE  o[k] \in DOMAIN u /\ u[o[k]] = Locals(p, o[k], n + 1)
  <2>1. o[k] \in DOMAIN t /\ t[o[k]] = Locals(p, o[k], n)
    BY <1>5 DEF OpenFiled
  <2>2. Parent(p, o[k], n) <=> k = Len(o)
    BY PathAround
  <2>3. CASE k = Len(o)
    <3>1. Locals(p, last, n + 1) = Locals(p, last, n) \cup {NameAt(p, n)}
      BY <2>2, <2>3, LocalsPast
    <3> QED
      BY <1>3, <2>1, <2>3, <3>1
  <2>4. CASE k # Len(o)
    <3>1. Locals(p, o[k], n + 1) = Locals(p, o[k], n)
      BY <2>2, <2>4, LocalsPast
    <3>2. o[k] # last
      BY <1>1, <1>2, <2>4
    <3> QED
      BY <1>3, <2>1, <3>1, <3>2
  <2> QED
    BY <2>3, <2>4
<1> QED
  BY <1>4, <1>5 DEF OpenFiled, u

LEMMA OpenInto ==
  ASSUME NEW p, Tree(p), NEW n \in 1 .. Len(p), NEW o, Path(p, o, n), NEW u,
         OpenFiled(p, o, u, n + 1),
         Kind(p, n) # "class" => n \in DOMAIN u /\ u[n] = Range(Params(p, n))
  PROVE  OpenFiled(p, Append(o, n), u, n + 1)
<1> DEFINE q == Append(o, n)
<1>1. Len(o) \in Nat
  BY TreeLines, PathFacts
<1>2. /\ Len(q) = Len(o) + 1 /\ q[Len(o) + 1] = n
      /\ \A k \in 1 .. Len(o) : q[k] = o[k]
  BY AppendProperties DEF Path
<1> HIDE DEF q
<1>3. ASSUME NEW k \in 1 .. Len(q), Kind(p, q[k]) # "class"
      PROVE  q[k] \in DOMAIN u /\ u[q[k]] = Locals(p, q[k], n + 1)
  <2>1. CASE k = Len(o) + 1
    <3>1. q[k] = n
      BY <1>2, <2>1
    <3> QED
      BY <1>3, <3>1, LocalsNew
  <2>2. CASE k # Len(o) + 1
    <3>1. k \in 1 .. Len(o)
      BY <1>1, <1>2, <2>2
    <3> QED
      BY <1>2, <1>3, <3>1 DEF OpenFiled
  <2> QED
    BY <2>1, <2>2
<1> QED
  BY <1>3 DEF OpenFiled, q

LEMMA FiledOut ==
  ASSUME NEW p, Tree(p), NEW n \in Nat, NEW o, Path(p, o, n), o # <<>>, NEW t,
         OpenFiled(p, o, t, n), AheadFiled(p, o, t, n)
  PROVE  OpenFiled(p, Front(o), t, n) /\ AheadFiled(p, Front(o), t, n)
<1>1. /\ Len(o) \in Nat /\ Len(Front(o)) = Len(o) - 1
      /\ \A k \in 1 .. Len(o) - 1 : Front(o)[k] = o[k]
      /\ Len(o) = 1 => Front(o) = <<>>
      /\ Len(o) >= 1
  BY FrontIs DEF Path
<1>2. \A k \in 1 .. Len(Front(o)) : k \in 1 .. Len(o) /\ Front(o)[k] = o[k]
  BY <1>1
<1>3. OpenFiled(p, Front(o), t, n)
  BY <1>2 DEF OpenFiled
<1>4. ASSUME InClass(p, Front(o))
      PROVE  InClass(p, o)
  <2>1. Len(o) # 1
    BY <1>1, <1>4 DEF InClass
  <2>2. Front(o)[1] = o[1]
    BY <1>1, <2>1
  <2> QED
    BY <1>4, <2>2 DEF InClass
<1> QED
  BY <1>3, <1>4 DEF AheadFiled

-----------------------------------------------------------------------------
(* Functions and classes, visited whole.                                    *)

After(p, n) == Min({j \in n + 1 .. Len(p) : Depth(p, j) = 1} \cup {Len(p) + 1})

LEMMA AfterFacts ==
  ASSUME NEW p, Tree(p), NEW n \in 1 .. Len(p)
  PROVE  /\ After(p, n) \in n + 1 .. Len(p) + 1
         /\ \A j \in n + 1 .. After(p, n) - 1 : Depth(p, j) > 1 /\ j \in 1 .. Len(p)
         /\ After(p, n) <= Len(p) => Depth(p, After(p, n)) = 1
<1> DEFINE S == {j \in n + 1 .. Len(p) : Depth(p, j) = 1} \cup {Len(p) + 1}
<1>1. /\ n \in Nat /\ n >= 1 /\ Len(p) \in Nat /\ n <= Len(p)
      /\ \A j \in 1 .. Len(p) : Depth(p, j) \in Nat /\ Depth(p, j) >= 1
  BY TreeLines
<1>2. S \subseteq Nat /\ S # {}
  BY <1>1
<1>3. Min(S) \in S /\ \A k \in S : Min(S) <= k
  <2> HIDE DEF S
  <2> QED
    BY <1>2, MinFacts
<1>4. After(p, n) = Min(S)
  BY DEF After
<1>5. After(p, n) \in n + 1 .. Len(p) + 1
  BY <1>1, <1>3, <1>4
<1>6. ASSUME NEW j \in n + 1 .. After(p, n) - 1
      PROVE  Depth(p, j) > 1 /\ j \in 1 .. Len(p)
  <2>1. j \in n + 1 .. Len(p) /\ j \in 1 .. Len(p) /\ j < After(p, n)
    BY <1>1, <1>5
  <2>2. j \notin S
    BY <1>3, <1>4, <1>5, <2>1
  <2>3. Depth(p, j) # 1
    BY <2>1, <2>2
  <2> QED
    BY <1>1, <2>1, <2>3
<1>7. After(p, n) <= Len(p) => Depth(p, After(p, n)) = 1
  BY <1>1, <1>3, <1>4
<1> QED
  BY <1>5, <1>6, <1>7

\* What a function or a class contains is exactly what is skipped with it.
LEMMA Skipped ==
  ASSUME NEW p, Tree(p), NEW n \in 1 .. Len(p), Kind(p, n) \in {"function", "class"},
         NEW j \in n + 1 .. After(p, n) - 1
  PROVE  j \in 1 .. Len(p) /\ Encloses(p, n, j) /\ ~GlobalLine(p, j)
<1>1. /\ n \in Nat /\ n >= 1 /\ Len(p) \in Nat /\ After(p, n) \in Nat /\ j \in 1 .. Len(p)
      /\ Depth(p, n) = 1
  BY TreeLines, TreePlaced, AfterFacts
<1>2. HasBody(p[n].node)
  BY DEF HasBody, Kind, Functions
<1>3. \A h \in n + 1 .. j : h \in n + 1 .. After(p, n) - 1
  BY <1>1
<1>4. \A h \in n + 1 .. j : Depth(p, h) > 1
  BY <1>3, AfterFacts
<1>5. n \in 1 .. j - 1 /\ j \in n + 1 .. j
  BY <1>1
<1>6. Encloses(p, n, j)
  BY <1>1, <1>2, <1>4, <1>5 DEF Encloses
<1>7. Kind(p, j) \notin {"function", "class"}
  BY <1>1, <1>4, <1>5, TreePlaced
<1>8. ASSUME Kind(p, j) = "variable"
      PROVE  \E f \in 1 .. j - 1 : Kind(p, f) \in Functions /\ Encloses(p, f, j)
  <2>1. CASE Kind(p, n) = "function"
    BY <1>5, <1>6, <2>1 DEF Functions
  <2>2. CASE Kind(p, n) = "class"
    <3>1. Kind(p, j) \notin Members
      BY <1>8 DEF Members
    <3> QED
      BY <1>1, <1>5, <1>6, <2>2, <3>1, InMember
  <2> QED
    BY <2>1, <2>2
<1> QED
  BY <1>1, <1>6, <1>7, <1>8 DEF GlobalLine

\* A class is entered: its members are filed.
LEMMA AheadClass ==
  ASSUME NEW p, Tree(p), NEW n \in 1 .. Len(p), Kind(p, n) = "class",
         NEW t, AheadFiled(p, <<>>, t, n), DOMAIN t \subseteq 0 .. Len(p),
         NEW members, members = {m \in n + 1 .. After(p, n) - 1 : HasScope(p, m)},
         NEW u, DOMAIN u = members \cup DOMAIN t \cup {n},
         \A m \in members : u[m] = Range(Params(p, m))
  PROVE  AheadFiled(p, Append(<<>>, n), u, n + 1)
<1>1. /\ n \in Nat /\ Len(p) \in Nat /\ After(p, n) \in n + 1 .. Len(p) + 1 /\ After(p, n) \in Nat
      /\ Depth(p, n) = 1
  BY TreeLines, TreePlaced, AfterFacts
<1>2. ASSUME NEW i \in DOMAIN u, i >= n + 1
      PROVE  i \in members
  <2> SUFFICES ASSUME i \notin members
               PROVE  FALSE
    OBVIOUS
  <2>1. i \in DOMAIN t /\ i \in Nat
    BY <1>1, <1>2
  <2>2. i >= n /\ n \in n .. i
    BY <1>1, <1>2, <2>1
  <2>3. Depth(p, n) > 1
    BY <2>1, <2>2 DEF AheadFiled
  <2> QED
    BY <1>1, <2>3
<1>3. ASSUME NEW m \in members
      PROVE  /\ m \in 1 .. Len(p) /\ HasScope(p, m) /\ u[m] = Range(Params(p, m))
             /\ \A h \in n + 1 .. m : Depth(p, h) > 1
  <2>1. m \in n + 1 .. After(p, n) - 1 /\ HasScope(p, m)
    OBVIOUS
  <2>2. \A h \in n + 1 .. m : h \in n + 1 .. After(p, n) - 1
    BY <1>1, <2>1
  <2> QED
    BY <2>1, <2>2, AfterFacts
<1>4. ASSUME NEW m \in n + 1 .. Len(p), HasScope(p, m), \A h \in n + 1 .. m : Depth(p, h) > 1
      PROVE  m \in DOMAIN u
  <2>1. ~(After(p, n) <= m)
    <3> SUFFICES ASSUME After(p, n) <= m
                 PROVE  FALSE
      OBVIOUS
    <3>1. After(p, n) \in n + 1 .. m /\ After(p, n) <= Len(p)
      BY <1>1
    <3>2. Depth(p, After(p, n)) = 1 /\ Depth(p, After(p, n)) > 1
      BY <1>4, <3>1, AfterFacts
    <3> QED
      BY <3>2
  <2>2. m \in n + 1 .. After(p, n) - 1
    BY <1>1, <2>1
  <2> QED
    BY <1>4, <2>2
<1> QED
  BY <1>2, <1>3, <1>4 DEF AheadFiled

-----------------------------------------------------------------------------
(* The global pass.                                                         *)

\* Line n is in no function and in no class.
Outside(p, n) == \A b \in 1 .. n - 1 : Encloses(p, b, n) => Kind(p, b) \notin {"function", "class"}

\* Two lines before n that give the program the same name are a class and what
\* it takes the name of.
GlobalsApart(p, n) ==
  \A i, j \in 1 .. n - 1 :
    i < j /\ GlobalLine(p, i) /\ GlobalLine(p, j) /\ NameAt(p, i) = NameAt(p, j) =>
      Kind(p, j) = "class"

\* From line n to line m, when no line between them is global.
LEMMA GlobalsPast ==
  ASSUME NEW p, Tree(p), NEW n \in 1 .. Len(p), NEW m \in n + 1 .. Len(p) + 1,
         \A j \in n + 1 .. m - 1 : ~GlobalLine(p, j)
  PROVE  /\ GlobalLine(p, n) => Globals(p, m) = Globals(p, n) \cup {NameAt(p, n)}
         /\ ~GlobalLine(p, n) => Globals(p, m) = Globals(p, n)
         /\ /\ GlobalsApart(p, n)
            /\ GlobalLine(p, n) /\ NameAt(p, n) \in Globals(p, n) => Kind(p, n) = "class"
            => GlobalsApart(p, m)
<1>1. n \in Nat /\ n >= 1 /\ m \in Nat /\ m >= n + 1
  BY TreeLines
<1>2. \A j : j \in 1 .. m - 1 <=> j \in 1 .. n - 1 \/ j = n \/ j \in n + 1 .. m - 1
  BY <1>1
<1>3. \A j \in 1 .. m - 1 : GlobalLine(p, j) => j \in 1 .. n - 1 \/ j = n
  BY <1>2
<1>4. \A j \in 1 .. n - 1 : j \in 1 .. m - 1
  BY <1>2
<1>5. n \in 1 .. m - 1
  BY <1>2
<1>6. GlobalLine(p, n) => Globals(p, m) = Globals(p, n) \cup {NameAt(p, n)}
  BY <1>3, <1>4, <1>5 DEF Globals
<1>7. ~GlobalLine(p, n) => Globals(p, m) = Globals(p, n)
  BY <1>3, <1>4 DEF Globals
<1>8. ASSUME GlobalsApart(p, n),
             GlobalLine(p, n) /\ NameAt(p, n) \in Globals(p, n) => Kind(p, n) = "class",
             NEW i \in 1 .. m - 1, NEW j \in 1 .. m - 1,
             i < j, GlobalLine(p, i), GlobalLine(p, j), NameAt(p, i) = NameAt(p, j)
      PROVE  Kind(p, j) = "class"
  <2>1. i \in 1 .. n - 1
    <3>1. j \in 1 .. n - 1 \/ j = n
      BY <1>3, <1>8
    <3> QED
      BY <1>1, <1>8, <3>1
  <2>2. CASE j = n
    <3>1. NameAt(p, n) \in Globals(p, n)
      BY <1>8, <2>1, <2>2 DEF Globals
    <3> QED
      BY <1>8, <2>2, <3>1
  <2>3. CASE j # n
    <3>1. j \in 1 .. n - 1
      BY <1>3, <1>8, <2>3
    <3> QED
      BY <1>8, <2>1, <3>1 DEF GlobalsApart
  <2> QED
    BY <2>2, <2>3
<1>9. /\ GlobalsApart(p, n)
      /\ GlobalLine(p, n) /\ NameAt(p, n) \in Globals(p, n) => Kind(p, n) = "class"
      => GlobalsApart(p, m)
  <2> SUFFICES ASSUME GlobalsApart(p, n),
                      GlobalLine(p, n) /\ NameAt(p, n) \in Globals(p, n) => Kind(p, n) = "class"
               PROVE  GlobalsApart(p, m)
    OBVIOUS
  <2> QED
    BY <1>8 DEF GlobalsApart
<1> QED
  BY <1>6, <1>7, <1>9

LEMMA OutsideIsGlobal ==
  ASSUME NEW p, Tree(p), NEW n \in 1 .. Len(p), Outside(p, n), Kind(p, n) = "variable"
  PROVE  GlobalLine(p, n)
<1> SUFFICES ASSUME NEW f \in 1 .. n - 1, Kind(p, f) \in Functions, Encloses(p, f, n)
             PROVE  FALSE
  BY DEF GlobalLine
<1>1. Kind(p, f) # "function"
  BY DEF Outside
<1>2. Kind(p, f) \in Members
  BY <1>1 DEF Functions, Members
<1>3. PICK c \in 1 .. f - 1 : Encloses(p, c, n) /\ Kind(p, c) = "class"
  BY <1>2, InClassOfMember
<1>4. c \in 1 .. n - 1
  BY <1>3 DEF Encloses
<1> QED
  BY <1>3, <1>4 DEF Outside

LEMMA OutsidePast ==
  ASSUME NEW p, Tree(p), NEW n \in 1 .. Len(p), Outside(p, n), n + 1 \in 1 .. Len(p),
         Kind(p, n) \notin {"function", "class"}
  PROVE  Outside(p, n + 1)
<1> SUFFICES ASSUME NEW b \in 1 .. (n + 1) - 1, Encloses(p, b, n + 1)
             PROVE  Kind(p, b) \notin {"function", "class"}
  BY DEF Outside
<1>1. n \in Nat
  BY TreeLines
<1>2. CASE b = n
  BY <1>2
<1>3. CASE b # n
  <2>1. b \in 1 .. n - 1 /\ \A j \in b + 1 .. n : j \in b + 1 .. n + 1
    BY <1>1, <1>3
  <2>2. Encloses(p, b, n)
    BY <2>1 DEF Encloses
  <2> QED
    BY <2>1, <2>2 DEF Outside
<1> QED
  BY <1>2, <1>3

LEMMA OutsideAtTop ==
  ASSUME NEW p, Tree(p), NEW n \in 1 .. Len(p), Depth(p, n) = 1
  PROVE  Outside(p, n)
<1> SUFFICES ASSUME NEW b \in 1 .. n - 1, Encloses(p, b, n)
             PROVE  FALSE
  BY DEF Outside
<1>1. b \in 1 .. Len(p) /\ Depth(p, b) < Depth(p, n)
  BY Nested
<1> QED
  BY <1>1, TreeLines

-----------------------------------------------------------------------------
(* Parameters.                                                              *)

\* A body of which nothing is filed gets its first k parameters.
LEMMA WithParamsDomain ==
  \A i, k, t : DOMAIN WithParams(i, k, t) = DOMAIN t \cup {i}
<1> TAKE i, k, t
<1>1. DOMAIN WithParams(i, k, t) = DOMAIN Scoped(i, t)
  BY DEF WithParams
<1> QED
  BY <1>1, ScopedDomain

LEMMA WithParamsIs ==
  ASSUME NEW i, NEW k, NEW t, i \notin DOMAIN t
  PROVE  /\ WithParams(i, k, t)[i] = Range(SubSeq(Params(program, i), 1, k))
         /\ \A j \in DOMAIN t : WithParams(i, k, t)[j] = t[j]
<1> DEFINE fresh == Scoped(i, t)
           ps == Range(SubSeq(Params(program, i), 1, k))
<1>1. DOMAIN fresh = DOMAIN t \cup {i}
  BY ScopedDomain
<1>2. fresh[i] = {}
  BY ScopedIs
<1>3. \A j \in DOMAIN t : fresh[j] = t[j]
  BY ScopedIs
<1>4. WithParams(i, k, t) = [fresh EXCEPT ![i] = @ \cup ps]
  BY DEF WithParams, Params
<1> HIDE DEF fresh, ps
<1>5. WithParams(i, k, t)[i] = ps
  <2>1. {} \cup ps = ps
    OBVIOUS
  <2> QED
    BY <1>1, <1>2, <1>4, <2>1
<1>6. \A j \in DOMAIN t : WithParams(i, k, t)[j] = t[j]
  BY <1>1, <1>3, <1>4
<1> QED
  BY <1>5, <1>6 DEF ps

LEMMA FirstParams ==
  ASSUME NEW ps \in Seq(Names), NEW k \in 1 .. Len(ps) + 1
  PROVE  Range(SubSeq(ps, 1, k - 1)) = {ps[j] : j \in 1 .. k - 1}
<1>1. Len(ps) \in Nat /\ k \in Nat /\ k >= 1 /\ k - 1 <= Len(ps) /\ k - 1 \in Nat
  BY LenProperties
<1>2. \A j \in 1 .. k - 1 : ps[j] \in Names
  BY <1>1, ElementOfSeq
<1> DEFINE m == k - 1
           q == SubSeq(ps, 1, m)
<1>3. /\ q \in Seq(Names) /\ Len(q) = (IF 1 <= m THEN m - 1 + 1 ELSE 0)
      /\ \A j \in 1 .. m - 1 + 1 : q[j] = ps[1 + j - 1]
  BY <1>1, <1>2, SubSeqProperties
<1>4. Len(q) = m
  <2>1. m \in Nat
    BY <1>1
  <2> HIDE DEF q, m
  <2>2. CASE 1 <= m
    <3>1. Len(q) = m - 1 + 1
      BY <1>3, <2>2, Zenon
    <3> QED
      BY <2>1, <3>1
  <2>3. CASE ~(1 <= m)
    <3>1. Len(q) = 0
      BY <1>3, <2>3, Zenon
    <3> QED
      BY <2>1, <2>3, <3>1
  <2> QED
    BY <2>2, <2>3
<1>5. \A j \in 1 .. m : q[j] = ps[j]
  <2> SUFFICES ASSUME NEW j \in 1 .. m
               PROVE  q[j] = ps[j]
    OBVIOUS
  <2>1. j \in 1 .. m - 1 + 1 /\ 1 + j - 1 = j
    BY <1>1
  <2> QED
    BY <1>3, <2>1
<1>6. DOMAIN q = 1 .. m
  BY <1>3, <1>4, LenProperties
<1> QED
  BY <1>5, <1>6 DEF Range

\* The keys on the stack hold what the program declares and no more.
GlobalsOnly(keys, t) ==
  \A x : Lookup(x, keys, t) <=> x \in Globals(program, Len(program) + 1)

\* The parameters the local pass reports then.
LEMMA ParamsTakenAre ==
  ASSUME Tree(program), NEW i \in 1 .. Len(program), NEW t, i \notin DOMAIN t,
         NEW keys \in Seq(0 .. Len(program)), \A k \in DOMAIN keys : keys[k] \in DOMAIN t,
         GlobalsOnly(keys, t)
  PROVE  ParamsTaken(i, keys, t) =
           {ErrorAt(i, "VariableAlreadyDefined", Params(program, i)[k]) :
              k \in {j \in 1 .. Len(Params(program, i)) : ParamTaken(program, i, j)}}
<1> DEFINE ps == Params(program, i)
<1>1. /\ ps \in Seq(Names) /\ DOMAIN ps = 1 .. Len(ps) /\ Len(ps) \in Nat
      /\ i \in 0 .. Len(program)
  BY KindsOfLines, TreeLines DEF Params
<1>2. /\ Len(keys) \in Nat /\ DOMAIN keys = 1 .. Len(keys)
      /\ Len(Append(keys, i)) = Len(keys) + 1 /\ Append(keys, i)[Len(keys) + 1] = i
      /\ \A k \in 1 .. Len(keys) : Append(keys, i)[k] = keys[k]
      /\ DOMAIN Append(keys, i) = 1 .. Len(keys) + 1
  <2>1. Len(keys) \in Nat /\ DOMAIN keys = 1 .. Len(keys)
    BY LenProperties
  <2>2. /\ Append(keys, i) \in Seq(0 .. Len(program))
        /\ Len(Append(keys, i)) = Len(keys) + 1 /\ Append(keys, i)[Len(keys) + 1] = i
        /\ \A k \in 1 .. Len(keys) : Append(keys, i)[k] = keys[k]
    BY <1>1, AppendProperties
  <2>3. DOMAIN Append(keys, i) = 1 .. Len(keys) + 1
    BY <2>2, LenProperties
  <2> QED
    BY <2>1, <2>2, <2>3
<1>3. ASSUME NEW j \in 1 .. Len(ps)
      PROVE  Lookup(ps[j], Append(keys, i), WithParams(i, j - 1, t)) <=> ParamTaken(program, i, j)
  <2> DEFINE u == WithParams(i, j - 1, t)
             stack == Append(keys, i)
  <2>1. j \in 1 .. Len(ps) + 1
    BY <1>1
  <2>2. u[i] = {ps[h] : h \in 1 .. j - 1} /\ \A k \in DOMAIN t : u[k] = t[k]
    <3>1. u[i] = Range(SubSeq(ps, 1, j - 1))
      BY WithParamsIs
    <3>3. \A k \in DOMAIN t : u[k] = t[k]
      BY WithParamsIs
    <3>2. Range(SubSeq(ps, 1, j - 1)) = {ps[h] : h \in 1 .. j - 1}
      BY <1>1, <2>1, FirstParams
    <3> QED
      BY <3>1, <3>2, <3>3
  <2> HIDE DEF u, stack
  <2>3. /\ DOMAIN stack = 1 .. Len(keys) + 1 /\ stack[Len(keys) + 1] = i
        /\ \A k \in 1 .. Len(keys) : stack[k] = keys[k]
    BY <1>2 DEF stack
  <2>4. Lookup(ps[j], stack, u) <=> Lookup(ps[j], keys, t) \/ ps[j] \in u[i]
    <3>1. ASSUME NEW k \in DOMAIN stack, ps[j] \in u[stack[k]]
          PROVE  Lookup(ps[j], keys, t) \/ ps[j] \in u[i]
      <4>1. CASE k = Len(keys) + 1
        BY <2>3, <3>1, <4>1
      <4>2. CASE k # Len(keys) + 1
        <5>1. k \in 1 .. Len(keys)
          BY <1>2, <2>3, <4>2
        <5>2. stack[k] = keys[k] /\ u[keys[k]] = t[keys[k]] /\ k \in DOMAIN keys
          BY <1>2, <2>2, <2>3, <5>1
        <5> QED
          BY <3>1, <5>2 DEF Lookup
      <4> QED
        BY <4>1, <4>2
    <3>2. ASSUME Lookup(ps[j], keys, t)
          PROVE  Lookup(ps[j], stack, u)
      <4>1. PICK k \in 1 .. Len(keys) : ps[j] \in t[keys[k]]
        BY <1>2, <3>2 DEF Lookup
      <4>2. k \in DOMAIN keys /\ k \in 1 .. Len(keys) + 1
        BY <1>2
      <4>3. stack[k] = keys[k] /\ u[keys[k]] = t[keys[k]]
        BY <2>2, <2>3, <4>2
      <4> QED
        BY <2>3, <4>1, <4>2, <4>3 DEF Lookup
    <3>3. ASSUME ps[j] \in u[i]
          PROVE  Lookup(ps[j], stack, u)
      <4>1. Len(keys) + 1 \in DOMAIN stack
        BY <1>2, <2>3
      <4> QED
        BY <2>3, <3>3, <4>1 DEF Lookup
    <3> QED
      BY <3>1, <3>2, <3>3 DEF Lookup
  <2>5. ps[j] \in u[i] <=> \E h \in 1 .. j - 1 : ps[h] = ps[j]
    BY <2>2
  <2> QED
    BY <2>4, <2>5 DEF ParamTaken, u, stack, GlobalsOnly
<1>4. ParamsTaken(i, keys, t) =
        {ErrorAt(i, "VariableAlreadyDefined", ps[k]) :
           k \in {j \in DOMAIN ps : Lookup(ps[j], Append(keys, i), WithParams(i, j - 1, t))}}
  BY DEF ParamsTaken, Params
<1> HIDE DEF ps
<1>5. {j \in DOMAIN ps : Lookup(ps[j], Append(keys, i), WithParams(i, j - 1, t))}
        = {j \in 1 .. Len(ps) : ParamTaken(program, i, j)}
  BY <1>1, <1>3
<1> QED
  BY <1>4, <1>5 DEF ps
=============================================================================
