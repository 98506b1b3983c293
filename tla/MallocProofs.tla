---------------------------- MODULE MallocProofs ----------------------------
(***************************************************************************)
(* The block list of malloc stays intact, and malloc implements Heap, for  *)
(* every page size, every number of pages below the address space and      *)
(* every set of requests allowed by SafeUse.                               *)
(***************************************************************************)
EXTENDS SafeMalloc, TLAPS

Inv == TypeOK /\ HeapOK

-----------------------------------------------------------------------------
(* Arithmetic that does not wrap.                                          *)

LEMMA PlusIsSum ==
  ASSUME NEW a \in Nat, NEW b \in Nat, a + b < WordSpace
  PROVE  Plus(a, b) = a + b
BY PageAssumption DEF Plus

LEMMA MinusIsDifference ==
  ASSUME NEW a \in Nat, NEW b \in Nat, b <= a, a < WordSpace
  PROVE  Minus(a, b) = a - b
BY PageAssumption DEF Minus

\* A request the client may make is rounded up to at least two words.
LEMMA NeedBounds ==
  ASSUME request \in Requests
  PROVE  need \in 2 .. WordSpace - 1 /\ request <= 4 * need
<1>1. request \in Nat /\ request >= 5 /\ (request + 3) \div 4 < WordSpace
  BY PageAssumption, SafeAssumption DEF SafeUse
<1>2. /\ (request + 3) \div 4 \in Nat /\ (request + 3) \div 4 >= 2
      /\ request <= 4 * ((request + 3) \div 4)
  BY <1>1
<1>3. ((request + 3) \div 4) % WordSpace = (request + 3) \div 4
  BY <1>1, <1>2, PageAssumption
<1> QED BY <1>1, <1>2, <1>3, PageAssumption DEF need, Align4

\* The pages malloc asks for hold the request, a header and a footer.
LEMMA PagesAreEnough ==
  ASSUME NEW n \in Nat, NEW k, k = PagesFor(n), k > 0, n < WordSpace
  PROVE  k \in Nat /\ n + 2 <= k * PageWords
<1> DEFINE d == PageWords - 2
           x == Plus(n, PageWords - 3)
<1>1. d \in Nat /\ d > 1
  BY PageAssumption
<1>2. x \in Nat
  BY PageAssumption DEF Plus
<1>3. k = x \div d
  BY DEF PagesFor
<1>4. k \in Nat /\ x = k * d + (x % d) /\ x % d \in Nat /\ x % d < d
  <2> HIDE DEF d, x
  <2> QED BY <1>1, <1>2, <1>3
<1>5. CASE n + (PageWords - 3) < WordSpace
  <2>1. x = n + (PageWords - 3)
    BY <1>5, PlusIsSum, PageAssumption
  <2>2. k * d >= n
    BY <2>1, <1>4, PageAssumption
  <2>3. k * PageWords = k * d + k * 2
    BY <1>4, PageAssumption
  <2> QED BY <2>2, <2>3, <1>4, <1>1
<1>6. CASE n + (PageWords - 3) >= WordSpace
  <2>1. x = n + (PageWords - 3) - WordSpace
    <3>1. (n + (PageWords - 3) - WordSpace) \in 0 .. WordSpace - 1
      BY <1>6, PageAssumption, SafeAssumption DEF SafeUse
    <3>2. (n + (PageWords - 3)) % WordSpace = n + (PageWords - 3) - WordSpace
      BY <3>1, <1>6, PageAssumption
    <3> QED BY <3>2 DEF Plus
  <2>2. x < d
    BY <2>1, PageAssumption
  <2>3. k * d < d
    BY <2>2, <1>4, <1>1
  <2> QED BY <2>3, <1>4, <1>1
<1> QED BY <1>5, <1>6, PageAssumption

-----------------------------------------------------------------------------
(* The block list.                                                         *)

HeapList == Tiled /\ Footed /\ Lent

\* Addresses of headers and footers do not wrap.
LEMMA BlockBounds ==
  ASSUME Inv, isInit, NEW h \in Blocks
  PROVE  /\ h \in Nat /\ h \in 0 .. memory - 1
         /\ mem[h] \in Word /\ mem[h].size \in Nat
         /\ h + mem[h].size + 2 <= maxAddr
         /\ maxAddr < WordSpace
         /\ Plus(h, Plus(mem[h].size, 1)) = EndOf(h) - 1
         /\ NextHdr(h, mem[h].size) = EndOf(h)
         /\ Plus(h, 1) = h + 1
<1>1. h \in 0 .. maxAddr - 1 /\ EndOf(h) \in Blocks \cup {maxAddr} /\ maxAddr = memory
  BY DEF Inv, HeapOK, Tiled
<1>2. memory \in Nat /\ memory < WordSpace
  BY PageAssumption, SafeAssumption DEF Inv, TypeOK, SafeUse
<1>3. mem[h] \in Word /\ mem[h].size \in Nat
  <2>1. mem[h] \in Word
    BY <1>1, <1>2 DEF Inv, TypeOK
  <2> QED BY <2>1, PageAssumption DEF Word
<1>4. EndOf(h) <= maxAddr
  <2>1. \A g \in Blocks : g \in 0 .. maxAddr - 1
    BY DEF Inv, HeapOK, Tiled
  <2>2. maxAddr \in Nat
    BY <1>1, <1>2
  <2>3. CASE EndOf(h) \in Blocks
    BY <2>1, <2>2, <2>3
  <2> QED BY <1>1, <2>2, <2>3
<1>5. h + mem[h].size + 2 <= maxAddr
  BY <1>4 DEF EndOf
<1>6. Plus(mem[h].size, 1) = mem[h].size + 1 /\ Plus(mem[h].size, 2) = mem[h].size + 2
  BY <1>1, <1>2, <1>3, <1>5, PlusIsSum, PageAssumption
<1>7. Plus(h, Plus(mem[h].size, 1)) = h + (mem[h].size + 1)
  BY <1>1, <1>2, <1>3, <1>5, <1>6, PlusIsSum, PageAssumption
<1>8. Plus(h, Plus(mem[h].size, 2)) = h + (mem[h].size + 2)
  BY <1>1, <1>2, <1>3, <1>5, <1>6, PlusIsSum, PageAssumption
<1>9. Plus(h, 1) = h + 1
  BY <1>1, <1>2, <1>3, <1>5, PlusIsSum, PageAssumption
<1> QED BY <1>1, <1>2, <1>3, <1>5, <1>7, <1>8, <1>9 DEF EndOf, NextHdr

\* The free block, if there is one, is the last.
LEMMA FreeIsLast ==
  ASSUME Inv, isInit, LastFree
  PROVE  /\ FreeHdr \in Blocks /\ FreeHdr \in Nat
         /\ mem[FreeHdr] = mem[maxAddr - 1] /\ mem[FreeHdr].free
         /\ EndOf(FreeHdr) = maxAddr
         /\ FreeHdr \notin LiveHdrs
<1>1. FreeHdr \in Blocks
  BY DEF Blocks
<1>2. mem[FreeHdr] = mem[maxAddr - 1]
  BY DEF Inv, HeapOK, Footed
<1>3. FreeHdr \in Nat
  BY <1>1, BlockBounds
<1>4. mem[FreeHdr].size \in Nat /\ maxAddr \in Nat
  BY <1>1, BlockBounds, PageAssumption DEF Inv, TypeOK
<1>5. EndOf(FreeHdr) = maxAddr
  <2>1. FreeHdr = maxAddr - 2 - mem[FreeHdr].size
    BY <1>2 DEF FreeHdr
  <2> QED BY <2>1, <1>3, <1>4 DEF EndOf
<1>6. mem[FreeHdr].free
  BY <1>2 DEF LastFree
<1>7. FreeHdr \notin LiveHdrs
  BY <1>6 DEF LiveHdrs, Inv, HeapOK, Lent
<1> QED BY <1>1, <1>2, <1>3, <1>5, <1>6, <1>7

\* Whatever free block find stops at is that block.
LEMMA FoundIsLast ==
  ASSUME Inv, Looking, HdrFree(mem, pointer)
  PROVE  isInit /\ LastFree /\ pointer = FreeHdr
<1>1. isInit /\ pointer \in Blocks
  BY PageAssumption DEF Inv, HeapOK, Searching, Looking, TypeOK
<1>2. pointer \notin LiveHdrs
  BY DEF LiveHdrs, Inv, HeapOK, Lent, HdrFree, Looking, Searching
<1> QED BY <1>1, <1>2 DEF Blocks

-----------------------------------------------------------------------------
(* Every action preserves the invariant.                                   *)

\* The words clients own keep their contents.
Kept == \A b \in live : \A a \in b.ptr .. b.ptr + b.len - 1 : mem'[a] = mem[a]

\* The block list is a function of three variables.
LEMMA ListUnchanged ==
  ASSUME UNCHANGED <<mem, maxAddr, live>>
  PROVE  /\ Blocks' = Blocks /\ LastFree' = LastFree /\ FreeHdr' = FreeHdr
         /\ Tiled' = Tiled /\ Footed' = Footed /\ Lent' = Lent
BY DEF Tiled, Footed, Lent, Blocks, LiveHdrs, LastFree, FreeHdr, EndOf

LEMMA InitInv == Init => Inv
<1> SUFFICES ASSUME Init PROVE Inv
  OBVIOUS
<1>1. TypeOK
  <2>1. Zero \in Word
    BY PageAssumption DEF Zero, Tag, Word
  <2>2. PageWords <= MaxPages * PageWords
    BY PageAssumption
  <2>3. mem \in [0 .. memory - 1 -> Word]
    BY <2>1 DEF Init
  <2>4. memory \in PageWords .. MaxPages * PageWords /\ maxAddr \in 0 .. memory
    BY <2>2, PageAssumption DEF Init
  <2>5. live \in SUBSET [ptr : 0 .. WordSpace - 1, len : 0 .. WordSpace - 1]
    BY DEF Init
  <2>6. pointer \in 0 .. WordSpace - 1
    <3>1. WordSpace >= PageWords
      BY <2>2, PageAssumption
    <3> QED BY <3>1, PageAssumption DEF Init
  <2> QED BY <2>3, <2>4, <2>5, <2>6 DEF Init, TypeOK
<1>2. HeapOK
  BY DEF Init, HeapOK, Searching
<1> QED BY <1>1, <1>2 DEF Inv

LEMMA AdvanceInv == Inv /\ Advance => Inv'
<1> SUFFICES ASSUME Inv, Advance PROVE Inv'
  OBVIOUS
<1> USE DEF Advance, heapVars
<1>1. isInit /\ pointer \in Blocks
  BY PageAssumption DEF Inv, HeapOK, Searching, Looking, TypeOK
<1>2. pointer' = EndOf(pointer)
  BY <1>1, BlockBounds DEF HdrSize
<1>3. pointer' \in Blocks \cup {maxAddr} /\ pointer' \in 0 .. WordSpace - 1
  <2>1. EndOf(pointer) \in Nat /\ EndOf(pointer) < WordSpace
    BY <1>1, BlockBounds, PageAssumption DEF EndOf, Inv, TypeOK
  <2>2. EndOf(pointer) \in Blocks \cup {maxAddr}
    BY <1>1 DEF Inv, HeapOK, Tiled
  <2> QED BY <1>2, <2>1, <2>2, PageAssumption
<1>4. TypeOK'
  BY <1>3 DEF Inv, TypeOK, Looking
<1>5. retry => pointer' # maxAddr
  <2> SUFFICES ASSUME retry, EndOf(pointer) = maxAddr PROVE FALSE
    BY <1>2
  <2>1. LastFree /\ need <= mem[FreeHdr].size
    BY DEF Inv, HeapOK, Searching, Looking
  <2>2. FreeHdr # pointer
    BY <2>1, <1>1, FreeIsLast DEF Fits, HdrFree, HdrSize
  <2>3. FreeHdr \in Nat /\ pointer \in Nat /\ maxAddr \in Nat
        /\ FreeHdr < maxAddr /\ pointer < maxAddr
    BY <1>1, <2>1, FreeIsLast, BlockBounds DEF Inv, TypeOK, Looking, HeapOK
  <2>4. FreeHdr \in Blocks /\ EndOf(FreeHdr) = maxAddr
    BY <1>1, <2>1, FreeIsLast
  <2>5. \A g, h \in Blocks : g < h => EndOf(g) <= h
    BY <1>1 DEF Inv, HeapOK, Tiled
  <2> QED BY <1>1, <2>2, <2>3, <2>4, <2>5
<1>6. Searching'
  <2>1. request' \in Requests /\ need' = need /\ isInit'
    BY <1>1 DEF Inv, HeapOK, Searching, Looking, need
  <2>2. retry => LastFree' /\ need' <= mem'[FreeHdr'].size
    BY <2>1, ListUnchanged DEF Inv, HeapOK, Searching, Looking
  <2> QED BY <1>3, <1>5, <2>1, <2>2, ListUnchanged DEF Searching, Looking
<1>7. HeapOK'
  BY <1>6, ListUnchanged DEF Inv, HeapOK
<1> QED BY <1>4, <1>7 DEF Inv

LEMMA ExhaustedInv == Inv /\ Exhausted => Inv'
<1> SUFFICES ASSUME Inv, Exhausted PROVE Inv'
  OBVIOUS
<1> USE DEF Exhausted, heapVars
<1>1. TypeOK'
  BY DEF Inv, TypeOK
<1>2. Searching'
  BY DEF Inv, HeapOK, Searching
<1> QED BY <1>1, <1>2, ListUnchanged DEF Inv, HeapOK

LEMMA TrapInv == Inv /\ Trap => Inv'
<1> SUFFICES ASSUME Inv, Trap PROVE Inv'
  OBVIOUS
<1> USE DEF Trap
<1>1. TypeOK'
  BY DEF Inv, TypeOK
<1>2. Searching'
  BY DEF Inv, HeapOK, Searching
<1> QED BY <1>1, <1>2, ListUnchanged DEF Inv, HeapOK

\* The second find of a call does not fail: malloc never returns 0.
LEMMA ReturnNullImpossible == Inv => ~ReturnNull
<1> SUFFICES ASSUME Inv, ReturnNull PROVE FALSE
  OBVIOUS
<1>1. isInit /\ pointer \in Blocks
  BY DEF Inv, HeapOK, Searching, ReturnNull
<1>2. pointer < maxAddr
  BY <1>1 DEF Inv, HeapOK, Tiled, TypeOK
<1> QED BY <1>2 DEF ReturnNull

LEMMA MemoryBounds ==
  ASSUME Inv
  PROVE  /\ maxAddr \in Nat /\ memory \in Nat /\ maxAddr = memory
         /\ maxAddr > 3 /\ maxAddr < WordSpace /\ WordSpace \in Nat
         /\ Minus(maxAddr, 1) = maxAddr - 1 /\ Minus(maxAddr, 2) = maxAddr - 2
<1>1. /\ maxAddr \in Nat /\ memory \in Nat /\ maxAddr = memory
      /\ maxAddr > 3 /\ maxAddr < WordSpace /\ WordSpace \in Nat
  BY PageAssumption, SafeAssumption DEF Inv, TypeOK, HeapOK, SafeUse
<1> QED BY <1>1, MinusIsDifference

LEMMA MallocInv ==
  ASSUME NEW n \in Requests
  PROVE  Inv /\ Malloc(n) => Inv'
<1> SUFFICES ASSUME Inv, Malloc(n) PROVE Inv'
  OBVIOUS
<1> USE DEF Malloc
<1>1. mem' \in [0 .. memory' - 1 -> Word]
  <2>1. CASE isInit
    BY <2>1 DEF Inv, TypeOK
  <2>2. CASE ~isInit
    <3>1. Tag(Minus(maxAddr, 2), TRUE) \in Word
      BY MemoryBounds DEF Tag, Word
    <3> QED BY <2>2, <3>1 DEF Inv, TypeOK, InitHeap
  <2> QED BY <2>1, <2>2
<1>2. TypeOK'
  <2>1. pointer' \in 0 .. WordSpace - 1
    BY MemoryBounds
  <2> QED BY <1>1, <2>1 DEF Inv, TypeOK
<1>3. Tiled' /\ Footed' /\ Lent'
  <2>1. CASE isInit
    BY <2>1, ListUnchanged DEF Inv, HeapOK
  <2>2. CASE ~isInit
    <3>1. /\ maxAddr' = maxAddr /\ live' = {}
          /\ mem'[0] = Tag(maxAddr - 2, TRUE)
          /\ mem'[maxAddr - 1] = Tag(maxAddr - 2, TRUE)
      <4>1. 0 \in DOMAIN mem /\ maxAddr - 1 \in DOMAIN mem /\ maxAddr - 1 # 0
        BY MemoryBounds DEF Inv, TypeOK
      <4>2. mem' = [mem EXCEPT ![0] = Tag(maxAddr - 2, TRUE),
                               ![maxAddr - 1] = Tag(maxAddr - 2, TRUE)]
        BY <2>2, MemoryBounds DEF InitHeap
      <4> QED BY <2>2, <4>1, <4>2 DEF Inv, HeapOK
    <3>2. LastFree' /\ FreeHdr' = 0 /\ LiveHdrs' = {}
      BY <3>1, MemoryBounds DEF LastFree, FreeHdr, LiveHdrs, Tag
    <3>3. Blocks' = {0}
      BY <3>2 DEF Blocks
    <3>4. EndOf(0)' = maxAddr
      BY <3>1, MemoryBounds DEF EndOf, Tag
    <3>5. Tiled'
      BY <3>1, <3>3, <3>4, MemoryBounds DEF Tiled
    <3>6. Footed'
      BY <3>1, <3>2, <3>3, <3>4, MemoryBounds DEF Footed
    <3>7. Lent'
      BY <3>1 DEF Lent
    <3> QED BY <3>5, <3>6, <3>7
  <2> QED BY <2>1, <2>2
<1>4. Searching'
  BY <1>3 DEF Searching, Tiled
<1>5. HeapOK'
  BY <1>3, <1>4 DEF HeapOK, Inv
<1> QED BY <1>2, <1>5 DEF Inv

\* What is known where find stops.
LEMMA Found ==
  ASSUME Inv, Looking, Fits
  PROVE  /\ isInit /\ LastFree /\ pointer = FreeHdr /\ pointer \in Blocks
         /\ pointer \in Nat /\ pointer \notin LiveHdrs
         /\ mem[pointer] = mem[maxAddr - 1] /\ mem[pointer].free
         /\ mem[pointer].size \in Nat /\ EndOf(pointer) = maxAddr
         /\ pointer + mem[pointer].size + 2 = maxAddr
         /\ need \in Nat /\ need >= 2 /\ need < WordSpace /\ need <= mem[pointer].size
<1>1. isInit /\ LastFree /\ pointer = FreeHdr
  BY FoundIsLast DEF Fits
<1>2. request \in Requests
  BY DEF Looking, Inv, HeapOK, Searching
<1>3. need \in 2 .. WordSpace - 1
  BY <1>2, NeedBounds
<1>4. need <= mem[pointer].size
  BY DEF Fits, HdrSize
<1>5. mem[pointer].size \in Nat /\ pointer \in Nat
  BY <1>1, FreeIsLast, BlockBounds
<1>6. EndOf(pointer) = maxAddr
  BY <1>1, FreeIsLast
<1>7. pointer + mem[pointer].size + 2 = maxAddr
  BY <1>6 DEF EndOf
<1> QED BY <1>1, <1>3, <1>4, <1>5, <1>6, <1>7, FreeIsLast, MemoryBounds

\* Nothing but the last footer separates the free block from maxAddr: every
\* other block ends before it begins.
LEMMA OthersEndBefore ==
  ASSUME Inv, isInit, LastFree, NEW h \in LiveHdrs
  PROVE  h < FreeHdr /\ EndOf(h) <= FreeHdr /\ h \in Nat /\ EndOf(h) \in Nat
         /\ EndOf(h) >= 2 /\ EndOf(h) - 1 > h
<1>1. h \in Blocks /\ h \in Nat /\ FreeHdr \in Blocks /\ FreeHdr \in Nat /\ h # FreeHdr
      /\ maxAddr \in Nat /\ mem[h].size \in Nat
  BY FreeIsLast, BlockBounds, MemoryBounds DEF Blocks
<1>2. EndOf(h) \in Nat /\ h < EndOf(h) /\ EndOf(h) - 1 > h /\ EndOf(h) >= 2
  BY <1>1 DEF EndOf
<1>3. EndOf(h) <= maxAddr
  BY <1>1, BlockBounds DEF EndOf
<1>4. \A f, g \in Blocks : f < g => EndOf(f) <= g
  BY DEF Inv, HeapOK, Tiled
<1>5. ~(FreeHdr < h)
  <2> SUFFICES ASSUME FreeHdr < h PROVE FALSE
    OBVIOUS
  <2>1. maxAddr <= h
    BY <1>1, <1>4, FreeIsLast
  <2> QED BY <2>1, <1>1, <1>2, <1>3
<1> QED BY <1>1, <1>2, <1>4, <1>5

\* The block list after a split of the free block at p.
LEMMA SplitList ==
  ASSUME Inv, isInit, LastFree, UNCHANGED maxAddr,
         NEW p \in Nat, p = FreeHdr, NEW q \in Nat, p < q - 1, q < maxAddr - 1,
         NEW n \in Nat, q = p + n + 2, NEW rest \in Nat, q + rest + 2 = maxAddr,
         mem'[p] = Tag(n, FALSE), mem'[q - 1] = Tag(n, FALSE),
         mem'[q] = Tag(rest, TRUE), mem'[maxAddr - 1] = Tag(rest, TRUE),
         \A a \in 0 .. p - 1 : mem'[a] = mem[a],
         live' = live \cup {[ptr |-> p + 1, len |-> n]}
  PROVE  Tiled' /\ Footed' /\ Lent'
<1> maxAddr \in Nat
  BY MemoryBounds
<1>1. LiveHdrs' = LiveHdrs \cup {p}
  <2> DEFINE new == [ptr |-> p + 1, len |-> n]
  <2>1. new.ptr - 1 = p
    OBVIOUS
  <2>2. live' = live \cup {new}
    OBVIOUS
  <2> HIDE DEF new
  <2>3. {b.ptr - 1 : b \in live \cup {new}} = {b.ptr - 1 : b \in live} \cup {new.ptr - 1}
    OBVIOUS
  <2> QED BY <2>1, <2>2, <2>3 DEF LiveHdrs
<1>2. LastFree' /\ FreeHdr' = q
  <2>1. mem'[maxAddr - 1].free = TRUE /\ mem'[maxAddr - 1].size = rest
    BY DEF Tag
  <2>2. maxAddr - 2 - rest = q
    OBVIOUS
  <2> QED BY <2>1, <2>2 DEF LastFree, FreeHdr
<1>3. Blocks' = LiveHdrs \cup {p, q} /\ Blocks = LiveHdrs \cup {p}
  BY <1>1, <1>2 DEF Blocks
<1>4. EndOf(p)' = q /\ EndOf(q)' = maxAddr
  <2>1. mem'[p].size = n /\ mem'[q].size = rest
    BY DEF Tag
  <2> QED BY <2>1 DEF EndOf
<1>5. \A h \in LiveHdrs : /\ h \in Nat /\ h < p /\ EndOf(h) <= p /\ EndOf(h) \in Nat
                          /\ EndOf(h) - 1 > h /\ EndOf(h)' = EndOf(h)
                          /\ mem'[h] = mem[h] /\ mem'[EndOf(h) - 1] = mem[EndOf(h) - 1]
  <2> SUFFICES ASSUME NEW h \in LiveHdrs
               PROVE  /\ h \in Nat /\ h < p /\ EndOf(h) <= p /\ EndOf(h) \in Nat
                      /\ EndOf(h) - 1 > h /\ EndOf(h)' = EndOf(h)
                      /\ mem'[h] = mem[h] /\ mem'[EndOf(h) - 1] = mem[EndOf(h) - 1]
    OBVIOUS
  <2>1. /\ h \in Nat /\ h < p /\ EndOf(h) <= p /\ EndOf(h) \in Nat
        /\ EndOf(h) - 1 > h
    BY OthersEndBefore
  <2>2. mem'[h] = mem[h] /\ mem'[EndOf(h) - 1] = mem[EndOf(h) - 1]
    BY <2>1
  <2> QED BY <2>1, <2>2 DEF EndOf
<1>6. Tiled'
  <2>1. 0 \in Blocks'
    BY <1>3 DEF Inv, HeapOK, Tiled
  <2>2. \A h \in Blocks' : h \in 0 .. maxAddr - 1
    BY <1>3, <1>5
  <2>3. \A h \in LiveHdrs : EndOf(h) \in Blocks'
    <3>1. \A h \in LiveHdrs : EndOf(h) \in Blocks \cup {maxAddr}
      BY <1>3 DEF Inv, HeapOK, Tiled
    <3>2. \A h \in LiveHdrs : EndOf(h) # maxAddr
      BY <1>5
    <3> QED BY <3>1, <3>2, <1>3
  <2>4. \A h \in Blocks' : EndOf(h)' \in Blocks' \cup {maxAddr}
    <3> SUFFICES ASSUME NEW h \in LiveHdrs \cup {p, q} PROVE EndOf(h)' \in Blocks' \cup {maxAddr}
      BY <1>3
    <3>1. CASE h \in LiveHdrs
      BY <3>1, <2>3, <1>5
    <3>2. CASE h = p
      BY <3>2, <1>4, <1>3
    <3>3. CASE h = q
      BY <3>3, <1>4
    <3> QED BY <3>1, <3>2, <3>3
  <2>5. \A g, h \in Blocks' : g < h => EndOf(g)' <= h
    <3> SUFFICES ASSUME NEW g \in LiveHdrs \cup {p, q}, NEW h \in LiveHdrs \cup {p, q}, g < h
                 PROVE  EndOf(g)' <= h
      BY <1>3
    <3>1. CASE g \in LiveHdrs /\ h \in LiveHdrs
      BY <3>1, <1>3, <1>5 DEF Inv, HeapOK, Tiled
    <3>2. CASE g \in LiveHdrs /\ h \in {p, q}
      BY <3>2, <1>5
    <3>3. CASE g = p /\ h = q
      <4>1. EndOf(g)' = EndOf(p)'
        BY <3>3 DEF EndOf
      <4> QED BY <4>1, <3>3, <1>4
    <3> QED BY <3>1, <3>2, <3>3, <1>5
  <2> QED BY <2>1, <2>2, <2>4, <2>5 DEF Tiled
<1>7. Footed'
  <2>1. \A h \in LiveHdrs : mem[EndOf(h) - 1] = mem[h]
    BY <1>3 DEF Inv, HeapOK, Footed
  <2>2. \A h \in LiveHdrs : (mem[EndOf(h) - 1] = mem[h])'
    <3> SUFFICES ASSUME NEW h \in LiveHdrs PROVE mem'[EndOf(h)' - 1] = mem'[h]
      OBVIOUS
    <3>1. EndOf(h)' = EndOf(h) /\ mem'[h] = mem[h] /\ mem'[EndOf(h) - 1] = mem[EndOf(h) - 1]
      BY <1>5
    <3> QED BY <3>1, <2>1
  <2>3. mem'[EndOf(p)' - 1] = mem'[p] /\ mem'[EndOf(q)' - 1] = mem'[q]
    BY <1>4
  <2>4. \A h \in Blocks' : (mem[EndOf(h) - 1] = mem[h])'
    <3> SUFFICES ASSUME NEW h \in LiveHdrs \cup {p, q} PROVE (mem[EndOf(h) - 1] = mem[h])'
      BY <1>3
    <3>1. CASE h \in LiveHdrs
      BY <3>1, <2>2
    <3>2. CASE h = p
      BY <3>2, <2>3 DEF EndOf
    <3>3. CASE h = q
      BY <3>3, <2>3 DEF EndOf
    <3> QED BY <3>1, <3>2, <3>3
  <2> QED BY <2>4, <1>2 DEF Footed
<1>8. Lent'
  <2>1. \A b \in live : b.ptr - 1 \in LiveHdrs /\ b.ptr \in Nat
    BY DEF LiveHdrs, Inv, TypeOK
  <2>2. \A b \in live : b.ptr >= 1 /\ ~mem'[b.ptr - 1].free /\ b.len <= mem'[b.ptr - 1].size
    BY <2>1, <1>5 DEF Inv, HeapOK, Lent
  <2>3. (p + 1) - 1 = p /\ p + 1 >= 1 /\ mem'[p].free = FALSE /\ mem'[p].size = n
    BY DEF Tag
  <2>4. \A b \in live' : b.ptr >= 1 /\ ~mem'[b.ptr - 1].free /\ b.len <= mem'[b.ptr - 1].size
    <3> SUFFICES ASSUME NEW b \in live' PROVE b.ptr >= 1 /\ ~mem'[b.ptr - 1].free /\ b.len <= mem'[b.ptr - 1].size
      OBVIOUS
    <3>1. CASE b \in live
      BY <3>1, <2>2
    <3>2. CASE b = [ptr |-> p + 1, len |-> n]
      <4>1. b.ptr - 1 = p /\ b.len = n /\ b.ptr = p + 1
        BY <3>2
      <4>2. mem'[b.ptr - 1].free = FALSE /\ mem'[b.ptr - 1].size = n
        BY <4>1, <2>3
      <4> QED BY <4>1, <4>2
    <3> QED BY <3>1, <3>2
  <2>5. \A b \in live : b.ptr # p + 1
    BY <2>1, <1>5
  <2>6. \A b, c \in live' : b.ptr = c.ptr => b = c
    BY <2>5 DEF Inv, HeapOK, Lent
  <2> QED BY <2>4, <2>6 DEF Lent
<1> QED BY <1>6, <1>7, <1>8

\* A word a client owns is no header and no footer.
LEMMA PayloadApart ==
  ASSUME Inv, isInit, NEW b \in live, NEW a \in b.ptr .. b.ptr + b.len - 1
  PROVE  /\ a \in 0 .. maxAddr - 2
         /\ \A h \in Blocks : a # h /\ a # EndOf(h) - 1
<1> DEFINE g == b.ptr - 1
<1>1. g \in Blocks /\ g \in Nat /\ mem[g].size \in Nat /\ b.ptr \in Nat /\ b.len \in Nat
  <2>1. g \in Blocks
    BY DEF Blocks, LiveHdrs
  <2>2. b.ptr \in Nat /\ b.len \in Nat
    BY DEF Inv, TypeOK
  <2> HIDE DEF g
  <2> QED BY <2>1, <2>2, BlockBounds
<1>2. b.len <= mem[g].size /\ b.ptr >= 1
  BY DEF Inv, HeapOK, Lent
<1>3. a \in Nat /\ g < a /\ a < EndOf(g) - 1 /\ EndOf(g) \in Nat
  BY <1>1, <1>2 DEF EndOf
<1>4. EndOf(g) <= maxAddr /\ maxAddr \in Nat
  BY <1>1, BlockBounds, MemoryBounds DEF EndOf
<1>5. ASSUME NEW h \in Blocks PROVE a # h /\ a # EndOf(h) - 1
  <2> HIDE DEF g
  <2>1. h \in Nat /\ mem[h].size \in Nat
    BY BlockBounds
  <2>2. h < EndOf(h) - 1 /\ EndOf(h) \in Nat
    BY <2>1 DEF EndOf
  <2>3. (h < g => EndOf(h) <= g) /\ (g < h => EndOf(g) <= h)
    BY <1>1 DEF Inv, HeapOK, Tiled
  <2> QED BY <1>1, <1>3, <2>1, <2>2, <2>3
<1> QED BY <1>3, <1>4, <1>5

\* All of them lie in front of the free block.
LEMMA PayloadBelowFree ==
  ASSUME Inv, isInit, LastFree, NEW b \in live, NEW a \in b.ptr .. b.ptr + b.len - 1
  PROVE  a \in 0 .. FreeHdr - 1
<1> DEFINE g == b.ptr - 1
<1>1. g \in LiveHdrs
  BY DEF LiveHdrs
<1>2. b.ptr \in Nat /\ b.len \in Nat
  BY DEF Inv, TypeOK
<1>3. b.len <= mem[g].size /\ b.ptr >= 1
  BY DEF Inv, HeapOK, Lent
<1>4. EndOf(g) <= FreeHdr /\ EndOf(g) \in Nat /\ FreeHdr \in Nat /\ mem[g].size \in Nat
  <2> HIDE DEF g
  <2> QED BY <1>1, OthersEndBefore, FreeIsLast, BlockBounds DEF Blocks
<1>5. EndOf(g) = b.ptr + mem[g].size + 1
  BY <1>2, <1>3, <1>4 DEF EndOf
<1> HIDE DEF g
<1> QED BY <1>2, <1>3, <1>4, <1>5

LEMMA SplitInv == Inv /\ Split => Inv' /\ (Trap \/ Kept)
<1> SUFFICES ASSUME Inv, Split PROVE Inv' /\ (Trap \/ Kept)
  OBVIOUS
<1> DEFINE s == mem[pointer].size
           p == pointer
           q == p + need + 2
           rest == s - need - 2
<1>1. Looking /\ Fits /\ Splits(s)
  BY DEF Split, HdrSize
<1>2. CASE ~InBounds(mem, SplitCells(p, s, need))
  <2>1. Trap
    BY <1>2 DEF Split, HdrSize
  <2> QED BY <2>1, TrapInv
<1>3. CASE InBounds(mem, SplitCells(p, s, need))
  <2>1. /\ mem' = SplitBlock(mem, p, s, need)
        /\ pc' = "idle"
        /\ live' = live \cup {[ptr |-> Plus(p, 1), len |-> need]}
        /\ UNCHANGED <<memory, maxAddr, isInit, request, pointer, retry>>
    BY <1>3 DEF Split, HdrSize, Return
  <2>2. /\ isInit /\ LastFree /\ p = FreeHdr /\ p \in Blocks /\ p \in Nat /\ p \notin LiveHdrs
        /\ mem[p] = mem[maxAddr - 1] /\ mem[p].free /\ s \in Nat
        /\ p + s + 2 = maxAddr /\ need \in Nat /\ need >= 2 /\ need <= s
    BY <1>1, Found
  <2>3. maxAddr \in Nat /\ maxAddr = memory /\ maxAddr < WordSpace /\ WordSpace \in Nat
    BY MemoryBounds
  <2>4. need + 2 < s
    <3>1. Minus(s, 2) = s - 2
      BY <2>2, <2>3, MinusIsDifference
    <3> QED BY <1>1, <2>2, <3>1 DEF Splits
  <2>5. /\ Plus(p, Plus(need, 1)) = q - 1 /\ Plus(p, Plus(need, 2)) = q
        /\ Plus(p, Plus(s, 1)) = maxAddr - 1 /\ Plus(p, 1) = p + 1
        /\ Minus(s, Plus(need, 2)) = rest
    <3>1. Plus(need, 1) = need + 1 /\ Plus(need, 2) = need + 2 /\ Plus(s, 1) = s + 1
      BY <2>2, <2>3, <2>4, PlusIsSum
    <3>2. Plus(p, need + 1) = p + (need + 1) /\ Plus(p, need + 2) = p + (need + 2)
          /\ Plus(p, s + 1) = p + (s + 1) /\ Plus(p, 1) = p + 1
      BY <2>2, <2>3, <2>4, PlusIsSum
    <3>3. Minus(s, need + 2) = s - (need + 2)
      BY <2>2, <2>3, <2>4, MinusIsDifference
    <3> QED BY <3>1, <3>2, <3>3, <2>2, <2>3
  <2>6. p < q - 1 /\ q < maxAddr - 1 /\ q \in Nat /\ rest \in Nat /\ q + rest + 2 = maxAddr
    BY <2>2, <2>3, <2>4
  <2>7. mem' = [mem EXCEPT ![p] = Tag(need, FALSE), ![q - 1] = Tag(need, FALSE),
                           ![q] = Tag(rest, TRUE), ![maxAddr - 1] = HdrSetSize(@, rest)]
    BY <2>1, <2>5 DEF SplitBlock
  <2>8. mem \in [0 .. maxAddr - 1 -> Word] /\ mem[maxAddr - 1] \in Word
    BY <2>3, <2>2 DEF Inv, TypeOK
  <2>9. /\ mem' \in [0 .. maxAddr - 1 -> Word]
        /\ mem'[p] = Tag(need, FALSE) /\ mem'[q - 1] = Tag(need, FALSE)
        /\ mem'[q] = Tag(rest, TRUE) /\ mem'[maxAddr - 1] = Tag(rest, TRUE)
        /\ \A a \in 0 .. maxAddr - 1 : a \notin {p, q - 1, q, maxAddr - 1} => mem'[a] = mem[a]
    <3> DEFINE top == maxAddr - 1
               D == 0 .. top
               r == q - 1
    <3>1. /\ mem \in [D -> Word] /\ p \in D /\ r \in D /\ q \in D /\ top \in D
          /\ p # r /\ p # q /\ p # top /\ r # q /\ r # top /\ q # top
      BY <2>2, <2>3, <2>6, <2>8
    <3>2. Tag(need, FALSE) \in Word /\ Tag(rest, TRUE) \in Word
      BY <2>2, <2>3, <2>6 DEF Tag, Word
    <3>3. HdrSetSize(mem[top], rest) = Tag(rest, TRUE)
      <4>1. mem[top].free = TRUE
        BY <2>2, <2>8 DEF Word
      <4> QED BY <4>1 DEF HdrSetSize
    <3>4. mem' = [mem EXCEPT ![p] = Tag(need, FALSE), ![r] = Tag(need, FALSE),
                             ![q] = Tag(rest, TRUE), ![top] = HdrSetSize(@, rest)]
      BY <2>7
    <3> HIDE DEF p, q, rest, s, top, D, r
    <3>5. mem' = [mem EXCEPT ![p] = Tag(need, FALSE), ![r] = Tag(need, FALSE),
                             ![q] = Tag(rest, TRUE), ![top] = HdrSetSize(mem[top], rest)]
      BY <3>1, <3>4
    <3>6. mem' = [mem EXCEPT ![p] = Tag(need, FALSE), ![r] = Tag(need, FALSE),
                             ![q] = Tag(rest, TRUE), ![top] = Tag(rest, TRUE)]
      BY <3>3, <3>5
    <3>7. /\ DOMAIN mem' = D
          /\ mem'[p] = Tag(need, FALSE) /\ mem'[r] = Tag(need, FALSE)
          /\ mem'[q] = Tag(rest, TRUE) /\ mem'[top] = Tag(rest, TRUE)
          /\ \A a \in D : a \notin {p, r, q, top} => mem'[a] = mem[a]
      BY <3>1, <3>6
    <3>8. mem' \in [D -> Word]
      <4>1. \A a \in D : mem'[a] \in Word
        BY <3>1, <3>2, <3>7
      <4> QED BY <4>1, <3>6, <3>7
    <3> QED BY <3>7, <3>8 DEF top, D, r
  <2>10. Tiled' /\ Footed' /\ Lent'
    <3> HIDE DEF p, rest, s
    <3>1. \A a \in 0 .. p - 1 : mem'[a] = mem[a]
      BY <2>9, <2>2, <2>3, <2>6
    <3>2. live' = live \cup {[ptr |-> p + 1, len |-> need]}
      BY <2>1, <2>5
    <3>3. q = p + need + 2
      OBVIOUS
    <3> HIDE DEF q
    <3> QED BY <3>1, <3>2, <3>3, <2>1, <2>2, <2>6, <2>9, SplitList
  <2>11. Kept
    <3> HIDE DEF p, rest, s
    <3>1. \A a \in 0 .. p - 1 : mem'[a] = mem[a]
      BY <2>9, <2>2, <2>3, <2>6
    <3> QED BY <3>1, <2>2, PayloadBelowFree DEF Kept
  <2>12. TypeOK'
    <3>1. [ptr |-> Plus(p, 1), len |-> need] \in [ptr : 0 .. WordSpace - 1, len : 0 .. WordSpace - 1]
      BY <2>2, <2>3, <2>5, <2>6
    <3> QED BY <3>1, <2>1, <2>3, <2>9 DEF Inv, TypeOK
  <2> QED BY <2>1, <2>3, <2>2, <2>10, <2>11, <2>12 DEF Inv, HeapOK, Searching
<1> QED BY <1>2, <1>3

LEMMA TakeInv == Inv /\ Take => Inv' /\ (Trap \/ Kept)
<1> SUFFICES ASSUME Inv, Take PROVE Inv' /\ (Trap \/ Kept)
  OBVIOUS
<1> DEFINE p == pointer
           s == mem[p].size
           top == maxAddr - 1
           D == 0 .. top
<1>1. Looking /\ Fits
  BY DEF Take
<1>2. CASE ~InBounds(mem, {Plus(p, Plus(s, 1))})
  <2>1. Trap
    BY <1>2 DEF Take, HdrSize
  <2> QED BY <2>1, TrapInv
<1>3. CASE InBounds(mem, {Plus(p, Plus(s, 1))})
  <2>1. /\ mem' = TakeBlock(mem, p, s)
        /\ pc' = "idle"
        /\ live' = live \cup {[ptr |-> Plus(p, 1), len |-> need]}
        /\ UNCHANGED <<memory, maxAddr, isInit, request, pointer, retry>>
    BY <1>3 DEF Take, HdrSize, Return
  <2>2. /\ isInit /\ LastFree /\ p = FreeHdr /\ p \in Blocks /\ p \in Nat /\ p \notin LiveHdrs
        /\ mem[p] = mem[maxAddr - 1] /\ s \in Nat /\ EndOf(p) = maxAddr
        /\ p + s + 2 = maxAddr /\ need \in Nat /\ need <= s
    BY <1>1, Found
  <2>3. maxAddr \in Nat /\ maxAddr = memory /\ maxAddr < WordSpace /\ WordSpace \in Nat
    BY MemoryBounds
  <2>4. Plus(p, Plus(s, 1)) = top /\ Plus(p, 1) = p + 1
    <3>1. Plus(p, Plus(s, 1)) = EndOf(p) - 1 /\ Plus(p, 1) = p + 1
      BY <2>2, BlockBounds
    <3> QED BY <3>1, <2>2
  <2>5. mem' = [mem EXCEPT ![p] = HdrSetFree(@, FALSE), ![top] = HdrSetFree(@, FALSE)]
    BY <2>1, <2>4 DEF TakeBlock
  <2>6. /\ mem' \in [D -> Word] /\ mem'[p] = Tag(s, FALSE) /\ mem'[top] = Tag(s, FALSE)
        /\ \A a \in D : a \notin {p, top} => mem'[a] = mem[a]
    <3>1. mem \in [D -> Word] /\ p \in D /\ top \in D /\ p # top /\ mem[top] \in Word
          /\ mem[top].size = s
      BY <2>2, <2>3 DEF Inv, TypeOK
    <3>2. HdrSetFree(mem[top], FALSE) = Tag(s, FALSE) /\ Tag(s, FALSE) \in Word
      BY <3>1 DEF Tag, Word, HdrSetFree
    <3>3. mem[p] = mem[top]
      BY <2>2
    <3> HIDE DEF p, s, top, D
    <3>4. mem' = [mem EXCEPT ![p] = HdrSetFree(mem[p], FALSE),
                             ![top] = HdrSetFree(mem[top], FALSE)]
      BY <2>5, <3>1
    <3>5. mem' = [mem EXCEPT ![p] = Tag(s, FALSE), ![top] = Tag(s, FALSE)]
      BY <3>2, <3>3, <3>4
    <3> QED BY <3>1, <3>2, <3>5
  <2>7. LiveHdrs' = LiveHdrs \cup {p}
    <3> DEFINE new == [ptr |-> p + 1, len |-> need]
    <3>1. new.ptr - 1 = p /\ live' = live \cup {new}
      BY <2>1, <2>2, <2>4
    <3> HIDE DEF new
    <3>2. {b.ptr - 1 : b \in live \cup {new}} = {b.ptr - 1 : b \in live} \cup {new.ptr - 1}
      OBVIOUS
    <3> QED BY <3>1, <3>2 DEF LiveHdrs
  <2>8. ~LastFree'
    <3>1. mem'[top].free = FALSE
      BY <2>6 DEF Tag
    <3> QED BY <3>1, <2>1 DEF LastFree
  <2>9. Blocks' = Blocks /\ Blocks = LiveHdrs \cup {p}
    BY <2>2, <2>7, <2>8 DEF Blocks
  <2>10. \A h \in LiveHdrs : /\ h \in Nat /\ h < p /\ EndOf(h) <= p /\ EndOf(h) \in Nat
                             /\ EndOf(h) - 1 > h
    BY <2>2, OthersEndBefore
  <2>11. \A h \in LiveHdrs : mem'[h] = mem[h] /\ mem'[EndOf(h) - 1] = mem[EndOf(h) - 1]
    BY <2>2, <2>3, <2>6, <2>10
  <2>12. \A h \in Blocks : EndOf(h)' = EndOf(h) /\ mem'[EndOf(h) - 1] = mem'[h]
    <3> SUFFICES ASSUME NEW h \in Blocks PROVE EndOf(h)' = EndOf(h) /\ mem'[EndOf(h) - 1] = mem'[h]
      OBVIOUS
    <3>1. CASE h \in LiveHdrs
      BY <3>1, <2>2, <2>11 DEF EndOf, Inv, HeapOK, Footed
    <3>2. CASE h = p
      <4>1. mem'[h].size = mem[h].size
        BY <3>2, <2>6 DEF Tag
      <4>2. mem'[EndOf(h) - 1] = mem'[h]
        BY <3>2, <2>2, <2>6
      <4> QED BY <4>1, <4>2 DEF EndOf
    <3> QED BY <3>1, <3>2, <2>9
  <2>13. Tiled'
    BY <2>1, <2>2, <2>9, <2>12 DEF Tiled, Inv, HeapOK
  <2>14. Footed'
    BY <2>8, <2>9, <2>12 DEF Footed
  <2>15. Lent'
    <3>1. \A b \in live : b.ptr - 1 \in LiveHdrs /\ b.ptr \in Nat
      BY DEF LiveHdrs, Inv, TypeOK
    <3>2. \A b \in live : b.ptr >= 1 /\ ~mem'[b.ptr - 1].free /\ b.len <= mem'[b.ptr - 1].size
      BY <2>2, <2>11, <3>1 DEF Inv, HeapOK, Lent
    <3>3. (p + 1) - 1 = p /\ p + 1 >= 1 /\ mem'[p].free = FALSE /\ mem'[p].size = s
      BY <2>2, <2>6 DEF Tag
    <3>4. live' = live \cup {[ptr |-> p + 1, len |-> need]}
      BY <2>1, <2>4
    <3>5. \A b \in live' : b.ptr >= 1 /\ ~mem'[b.ptr - 1].free /\ b.len <= mem'[b.ptr - 1].size
      <4> SUFFICES ASSUME NEW b \in live' PROVE b.ptr >= 1 /\ ~mem'[b.ptr - 1].free /\ b.len <= mem'[b.ptr - 1].size
        OBVIOUS
      <4>1. CASE b \in live
        BY <4>1, <3>2
      <4>2. CASE b = [ptr |-> p + 1, len |-> need]
        <5>1. b.ptr - 1 = p /\ b.len = need /\ b.ptr = p + 1
          BY <4>2, <3>3
        <5>2. mem'[b.ptr - 1].free = FALSE /\ mem'[b.ptr - 1].size = s
          BY <5>1, <3>3
        <5> QED BY <5>1, <5>2, <2>2
      <4> QED BY <4>1, <4>2, <3>4
    <3>6. \A b \in live : b.ptr # p + 1
      BY <3>1, <2>2
    <3>7. \A b, c \in live' : b.ptr = c.ptr => b = c
      BY <3>4, <3>6, <2>2 DEF Inv, HeapOK, Lent
    <3> QED BY <3>5, <3>7 DEF Lent
  <2>16. Kept
    <3>1. \A a \in 0 .. p - 1 : mem'[a] = mem[a]
      BY <2>2, <2>3, <2>6
    <3> QED BY <3>1, <2>2, PayloadBelowFree DEF Kept
  <2>17. TypeOK'
    <3>1. [ptr |-> Plus(p, 1), len |-> need] \in [ptr : 0 .. WordSpace - 1, len : 0 .. WordSpace - 1]
      BY <2>2, <2>3, <2>4
    <3> QED BY <3>1, <2>1, <2>3, <2>6 DEF Inv, TypeOK
  <2> QED BY <2>1, <2>2, <2>3, <2>13, <2>14, <2>15, <2>16, <2>17 DEF Inv, HeapOK, Searching
<1> QED BY <1>2, <1>3

LEMMA ClientStoreInv == Inv /\ ClientStore => Inv'
<1> SUFFICES ASSUME Inv, ClientStore PROVE Inv'
  OBVIOUS
<1>1. PICK b \in live : \E a \in b.ptr .. b.ptr + b.len - 1, w \in ClientWords :
        a \in DOMAIN mem /\ mem' = [mem EXCEPT ![a] = w]
  BY DEF ClientStore
<1>2. PICK a \in b.ptr .. b.ptr + b.len - 1, w \in ClientWords :
        a \in DOMAIN mem /\ mem' = [mem EXCEPT ![a] = w]
  BY <1>1
<1>3. UNCHANGED <<memory, maxAddr, isInit, pc, request, pointer, retry, live>> /\ pc = "idle"
  BY DEF ClientStore
<1>4. isInit
  BY DEF Inv, HeapOK
<1>5. a \in 0 .. maxAddr - 2 /\ \A h \in Blocks : a # h /\ a # EndOf(h) - 1
  BY <1>4, PayloadApart
<1>6. \A x \in DOMAIN mem : x # a => mem'[x] = mem[x]
  BY <1>2
<1>7. w \in Word
  BY ClientAssumption
<1>8. TypeOK'
  BY <1>2, <1>3, <1>7 DEF Inv, TypeOK
<1>9. \A h \in Blocks : mem'[h] = mem[h] /\ mem'[EndOf(h) - 1] = mem[EndOf(h) - 1]
                         /\ EndOf(h)' = EndOf(h)
  <2> SUFFICES ASSUME NEW h \in Blocks
               PROVE  mem'[h] = mem[h] /\ mem'[EndOf(h) - 1] = mem[EndOf(h) - 1]
                      /\ EndOf(h)' = EndOf(h)
    OBVIOUS
  <2>1. h \in Nat /\ mem[h].size \in Nat /\ h + mem[h].size + 2 <= maxAddr
        /\ maxAddr = memory /\ maxAddr \in Nat
    BY <1>4, BlockBounds, MemoryBounds
  <2>2. h \in DOMAIN mem /\ EndOf(h) - 1 \in DOMAIN mem
    <3>1. DOMAIN mem = 0 .. maxAddr - 1
      BY <2>1 DEF Inv, TypeOK
    <3> QED BY <2>1, <3>1 DEF EndOf
  <2>3. mem'[h] = mem[h] /\ mem'[EndOf(h) - 1] = mem[EndOf(h) - 1]
    BY <1>5, <1>6, <2>2
  <2> QED BY <2>3 DEF EndOf
<1>10. mem'[maxAddr - 1] = mem[maxAddr - 1]
  <2>1. maxAddr - 1 \in DOMAIN mem /\ maxAddr - 1 # a
    BY <1>5, MemoryBounds DEF Inv, TypeOK
  <2> QED BY <2>1, <1>6
<1>11. Blocks' = Blocks /\ LastFree' = LastFree /\ FreeHdr' = FreeHdr
  BY <1>3, <1>10 DEF Blocks, LastFree, FreeHdr, LiveHdrs
<1>12. Tiled'
  BY <1>3, <1>4, <1>9, <1>11 DEF Inv, HeapOK, Tiled
<1>13. Footed'
  <2>1. LastFree => FreeHdr \in Blocks
    BY DEF Blocks
  <2>2. \A h \in Blocks' : mem'[EndOf(h)' - 1] = mem'[h]
    BY <1>4, <1>9, <1>11 DEF Inv, HeapOK, Footed
  <2>3. LastFree' => mem'[FreeHdr'] = mem'[maxAddr' - 1]
    BY <2>1, <1>3, <1>4, <1>9, <1>10, <1>11 DEF Inv, HeapOK, Footed
  <2> QED BY <2>2, <2>3 DEF Footed
<1>14. Lent'
  <2>1. \A c \in live : c.ptr - 1 \in Blocks
    BY DEF Blocks, LiveHdrs
  <2> QED BY <2>1, <1>3, <1>4, <1>9 DEF Inv, HeapOK, Lent
<1> QED BY <1>3, <1>4, <1>8, <1>12, <1>13, <1>14 DEF Inv, HeapOK, Searching

\* The block list after extend: the blocks that were handed out, which all
\* end at or before f, and one free block from f to the new maxAddr.
LEMMA ExtendedList ==
  ASSUME Inv, isInit, live' = live,
         NEW f \in Nat, NEW sz \in Nat, maxAddr' = f + sz + 2,
         \A h \in LiveHdrs : /\ h \in Nat /\ h < f /\ EndOf(h) <= f /\ EndOf(h) \in Nat
                             /\ EndOf(h) - 1 > h /\ EndOf(h) \in LiveHdrs \cup {f},
         0 \in LiveHdrs \cup {f},
         mem'[f] = Tag(sz, TRUE), mem'[maxAddr' - 1] = Tag(sz, TRUE),
         \A a \in 0 .. f - 1 : mem'[a] = mem[a]
  PROVE  Tiled' /\ Footed' /\ Lent' /\ LastFree' /\ FreeHdr' = f /\ Blocks' = LiveHdrs \cup {f}
<1>1. LiveHdrs' = LiveHdrs
  BY DEF LiveHdrs
<1>2. LastFree' /\ FreeHdr' = f
  <2>1. mem'[maxAddr' - 1].free = TRUE /\ mem'[maxAddr' - 1].size = sz
    BY DEF Tag
  <2>2. maxAddr' - 2 - sz = f
    OBVIOUS
  <2> QED BY <2>1, <2>2 DEF LastFree, FreeHdr
<1>3. Blocks' = LiveHdrs \cup {f}
  BY <1>1, <1>2 DEF Blocks
<1>4. EndOf(f)' = maxAddr'
  <2>1. mem'[f].size = sz
    BY DEF Tag
  <2> QED BY <2>1 DEF EndOf
<1>5. \A h \in LiveHdrs : /\ EndOf(h)' = EndOf(h) /\ mem'[h] = mem[h]
                          /\ mem'[EndOf(h) - 1] = mem[EndOf(h) - 1]
  <2> SUFFICES ASSUME NEW h \in LiveHdrs
               PROVE  /\ EndOf(h)' = EndOf(h) /\ mem'[h] = mem[h]
                      /\ mem'[EndOf(h) - 1] = mem[EndOf(h) - 1]
    OBVIOUS
  <2>1. mem'[h] = mem[h] /\ mem'[EndOf(h) - 1] = mem[EndOf(h) - 1]
    OBVIOUS
  <2> QED BY <2>1 DEF EndOf
<1>6. Tiled'
  <2>1. \A h \in Blocks' : h \in 0 .. maxAddr' - 1
    BY <1>3
  <2>2. \A h \in Blocks' : EndOf(h)' \in Blocks' \cup {maxAddr'}
    <3> SUFFICES ASSUME NEW h \in LiveHdrs \cup {f} PROVE EndOf(h)' \in Blocks' \cup {maxAddr'}
      BY <1>3
    <3>1. CASE h \in LiveHdrs
      BY <3>1, <1>3, <1>5
    <3>2. CASE h = f
      BY <3>2, <1>4
    <3> QED BY <3>1, <3>2
  <2>3. \A g, h \in Blocks' : g < h => EndOf(g)' <= h
    <3> SUFFICES ASSUME NEW g \in LiveHdrs \cup {f}, NEW h \in LiveHdrs \cup {f}, g < h
                 PROVE  EndOf(g)' <= h
      BY <1>3
    <3>1. CASE g \in LiveHdrs /\ h \in LiveHdrs
      <4>1. g \in Blocks /\ h \in Blocks
        BY <3>1 DEF Blocks
      <4>2. EndOf(g) <= h
        BY <4>1 DEF Inv, HeapOK, Tiled
      <4> QED BY <3>1, <4>2, <1>5
    <3>2. CASE g \in LiveHdrs /\ h = f
      BY <3>2, <1>5
    <3> QED BY <3>1, <3>2
  <2> QED BY <2>1, <2>2, <2>3, <1>3 DEF Tiled
<1>7. Footed'
  <2>1. \A h \in Blocks' : (mem[EndOf(h) - 1] = mem[h])'
    <3> SUFFICES ASSUME NEW h \in LiveHdrs \cup {f} PROVE mem'[EndOf(h)' - 1] = mem'[h]
      BY <1>3
    <3>1. CASE h \in LiveHdrs
      <4>1. mem[EndOf(h) - 1] = mem[h]
        BY <3>1 DEF Blocks, Inv, HeapOK, Footed
      <4> QED BY <3>1, <4>1, <1>5
    <3>2. CASE h = f
      BY <3>2, <1>4
    <3> QED BY <3>1, <3>2
  <2> QED BY <2>1, <1>2 DEF Footed
<1>8. Lent'
  <2>1. \A b \in live : b.ptr - 1 \in LiveHdrs
    BY DEF LiveHdrs
  <2> QED BY <2>1, <1>5 DEF Inv, HeapOK, Lent
<1> QED BY <1>2, <1>3, <1>6, <1>7, <1>8

LEMMA ExtendInv == Inv /\ Extend => Inv' /\ (Trap \/ Kept)
<1> SUFFICES ASSUME Inv, Extend PROVE Inv' /\ (Trap \/ Kept)
  OBVIOUS
<1> DEFINE n == (PagesFor(need) * PageWords) % WordSpace
<1>1. PICK pages \in {0, PagesFor(need)} :
        LET words == memory + pages * PageWords
            m == Grown(mem, words)
        IN  /\ words <= MaxPages * PageWords
            /\ IF InBounds(m, ExtendCells(m, n))
               THEN /\ mem' = Coalesce(NewBlock(m, n), n)
                    /\ memory' = words
                    /\ maxAddr' = Plus(maxAddr, n)
                    /\ pointer' = 0
                    /\ retry' = TRUE
                    /\ pc' = "find"
                    /\ UNCHANGED <<isInit, request, live>>
               ELSE Trap
  BY Zenon DEF Extend
<1> DEFINE words == memory + pages * PageWords
           m == Grown(mem, words)
<1>2. CASE ~InBounds(m, ExtendCells(m, n))
  BY <1>1, <1>2, TrapInv
<1>3. CASE InBounds(m, ExtendCells(m, n))
  <2>1. /\ words <= MaxPages * PageWords
        /\ mem' = Coalesce(NewBlock(m, n), n)
        /\ memory' = words
        /\ maxAddr' = Plus(maxAddr, n)
        /\ pointer' = 0 /\ retry' = TRUE /\ pc' = "find"
        /\ UNCHANGED <<isInit, request, live>>
    BY <1>1, <1>3
  <2>2. isInit /\ request \in Requests /\ pc = "extend"
    BY DEF Extend, Inv, HeapOK, Searching
  <2>3. need \in Nat /\ need >= 2 /\ need < WordSpace
    BY <2>2, NeedBounds, PageAssumption
  <2>4. /\ maxAddr \in Nat /\ maxAddr = memory /\ maxAddr > 3 /\ maxAddr < WordSpace
        /\ WordSpace \in Nat /\ MaxPages * PageWords < WordSpace /\ PageWords \in Nat
        /\ MaxPages * PageWords \in Nat /\ Minus(maxAddr, 1) = maxAddr - 1
    BY MemoryBounds, PageAssumption, SafeAssumption DEF SafeUse
  <2>5. maxAddr \in DOMAIN m
    BY <1>3 DEF InBounds, ExtendCells
  <2>6. DOMAIN m = 0 .. words - 1
    BY DEF Grown
  <2>7. pages = PagesFor(need) /\ pages > 0
    <3>1. CASE pages = 0
      BY <3>1, <2>4, <2>5, <2>6
    <3>2. PagesFor(need) \in Int
      BY <2>3, PageAssumption DEF PagesFor, Plus
    <3>3. CASE PagesFor(need) < 0
      <4>1. PagesFor(need) >= 0
        BY <2>3, PageAssumption DEF PagesFor, Plus
      <4> QED BY <4>1, <3>2, <3>3
    <3> QED BY <3>1, <3>2, <3>3
  <2>8. pages \in Nat /\ need + 2 <= pages * PageWords
    BY <2>3, <2>7, PagesAreEnough
  <2>9. pages * PageWords \in Nat
    BY <2>8, <2>4
  <2>10. n = pages * PageWords
    <3>1. pages * PageWords < WordSpace
      BY <2>1, <2>4, <2>9
    <3> QED BY <3>1, <2>4, <2>7, <2>9
  <2> HIDE DEF n
  <2>11. n \in Nat /\ n >= need + 2 /\ words = maxAddr + n /\ words < WordSpace
    BY <2>1, <2>4, <2>8, <2>9, <2>10
  <2>12. /\ Plus(maxAddr, n) = words /\ Minus(n, 2) = n - 2
         /\ Minus(Plus(maxAddr, n), 1) = words - 1
    <3> HIDE DEF words
    <3>1. Plus(maxAddr, n) = words
      BY <2>4, <2>11, PlusIsSum
    <3>2. Minus(n, 2) = n - 2 /\ Minus(words, 1) = words - 1
      BY <2>3, <2>4, <2>11, MinusIsDifference
    <3> QED BY <3>1, <3>2
  <2> HIDE DEF words
  <2> DEFINE D == 0 .. words - 1
             foot == words - 1
             m1 == NewBlock(m, n)
  <2>13. m \in [D -> Word] /\ \A a \in 0 .. maxAddr - 1 : m[a] = mem[a]
    <3>1. Zero \in Word
      BY <2>4 DEF Zero, Tag, Word
    <3>2. mem \in [0 .. maxAddr - 1 -> Word]
      BY <2>4 DEF Inv, TypeOK
    <3> QED BY <3>1, <3>2, <2>4, <2>11 DEF Grown
  <2>14. Tag(n - 2, TRUE) \in Word
    BY <2>3, <2>4, <2>11 DEF Tag, Word
  <2>15. maxAddr \in D /\ foot \in D /\ maxAddr # foot
    BY <2>3, <2>4, <2>11
  <2>16. m1 = [m EXCEPT ![maxAddr] = Tag(n - 2, TRUE), ![foot] = Tag(n - 2, TRUE)]
    BY <2>12 DEF NewBlock
  <2>17. /\ m1 \in [D -> Word] /\ m1[maxAddr] = Tag(n - 2, TRUE) /\ m1[foot] = Tag(n - 2, TRUE)
         /\ \A a \in 0 .. maxAddr - 1 : m1[a] = mem[a]
    <3>1. \A a \in 0 .. maxAddr - 1 : a \in D /\ a # maxAddr /\ a # foot
      BY <2>3, <2>4, <2>11
    <3> HIDE DEF m, m1, D, foot
    <3> QED BY <2>13, <2>14, <2>15, <2>16, <3>1
  <2>18. mem' = Coalesce(m1, n)
    BY <2>1
  <2> HIDE DEF m, m1
  <2>19. m1[maxAddr - 1] = mem[maxAddr - 1] /\ mem[maxAddr - 1] \in Word
    BY <2>4, <2>17 DEF Inv, TypeOK
  <2>20. \A h \in LiveHdrs : /\ h \in Nat /\ h < maxAddr /\ EndOf(h) <= maxAddr
                             /\ EndOf(h) \in Nat /\ EndOf(h) - 1 > h
                             /\ EndOf(h) \in Blocks \cup {maxAddr}
    <3> SUFFICES ASSUME NEW h \in LiveHdrs
                 PROVE  /\ h \in Nat /\ h < maxAddr /\ EndOf(h) <= maxAddr
                        /\ EndOf(h) \in Nat /\ EndOf(h) - 1 > h
                        /\ EndOf(h) \in Blocks \cup {maxAddr}
      OBVIOUS
    <3>1. h \in Blocks
      BY DEF Blocks
    <3>2. h \in Nat /\ mem[h].size \in Nat /\ h + mem[h].size + 2 <= maxAddr
      BY <2>2, <3>1, BlockBounds
    <3>3. EndOf(h) \in Blocks \cup {maxAddr}
      BY <2>2, <3>1 DEF Inv, HeapOK, Tiled
    <3> QED BY <3>2, <3>3, <2>4 DEF EndOf
  <2>21. /\ mem' \in [D -> Word]
         /\ Tiled' /\ Footed' /\ Lent' /\ LastFree' /\ need <= mem'[FreeHdr'].size
         /\ Kept
    <3>1. CASE LastFree
      <4> DEFINE f == FreeHdr
                 sz == mem[maxAddr - 1].size + n
      <4>1. f \in Nat /\ f \in Blocks /\ mem[maxAddr - 1].size \in Nat
            /\ f = maxAddr - 2 - mem[maxAddr - 1].size /\ f < maxAddr - 1
            /\ mem[f] = mem[maxAddr - 1]
        <5>1. f \in Nat /\ f \in Blocks /\ mem[f] = mem[maxAddr - 1]
          BY <2>2, <3>1, FreeIsLast
        <5>2. mem[maxAddr - 1].size \in Nat
          BY <2>19, PageAssumption DEF Word
        <5> QED BY <5>1, <5>2, <2>4 DEF FreeHdr
      <4>2. sz \in Nat /\ f + sz + 2 = words /\ sz < WordSpace /\ need <= sz
        BY <4>1, <2>3, <2>4, <2>11
      <4>3. Plus(mem[maxAddr - 1].size, n) = sz
        BY <4>1, <4>2, <2>11, <2>4, PlusIsSum
      <4>4. PrevHdr(m1) = f
        <5>1. Plus(mem[maxAddr - 1].size, 1) = mem[maxAddr - 1].size + 1
          BY <4>1, <2>4, PlusIsSum
        <5>2. Minus(maxAddr - 1, mem[maxAddr - 1].size + 1) = f
          <6> DEFINE x == mem[maxAddr - 1].size + 1
                     y == maxAddr - 1
          <6>1. x \in Nat /\ y \in Nat /\ x <= y /\ y < WordSpace /\ y - x = f
            BY <4>1, <2>4
          <6> HIDE DEF x, y, f
          <6>2. Minus(y, x) = y - x
            BY <6>1, MinusIsDifference
          <6> QED BY <6>1, <6>2 DEF x, y
        <5> QED BY <5>1, <5>2, <2>4, <2>19 DEF PrevHdr, HdrSize
      <4>5. mem' = [m1 EXCEPT ![f] = HdrSetSize(@, sz), ![foot] = HdrSetSize(@, sz)]
        <5>1. HdrFree(m1, maxAddr - 1)
          BY <2>19, <3>1 DEF HdrFree, LastFree
        <5> HIDE DEF f, sz
        <5> QED BY <5>1, <4>3, <4>4, <2>4, <2>12, <2>18, <2>19 DEF Coalesce, HdrSize
      <4>6. f \in D /\ f # foot /\ m1[f] = mem[f]
        <5>1. f \in 0 .. maxAddr - 1 /\ f \in D /\ f # foot
          <6> HIDE DEF f
          <6> QED BY <4>1, <2>4, <2>11
        <5> HIDE DEF f
        <5> QED BY <5>1, <2>17
      <4>7. HdrSetSize(m1[f], sz) = Tag(sz, TRUE) /\ HdrSetSize(m1[foot], sz) = Tag(sz, TRUE)
        <5>1. m1[f].free = TRUE
          BY <4>1, <4>6, <3>1, <2>19 DEF LastFree, Word
        <5>2. m1[foot].free = TRUE
          BY <2>17 DEF Tag
        <5> QED BY <5>1, <5>2 DEF HdrSetSize
      <4>8. Tag(sz, TRUE) \in Word
        BY <4>2, <2>4 DEF Tag, Word
      <4>9. /\ mem' \in [D -> Word] /\ mem'[f] = Tag(sz, TRUE) /\ mem'[foot] = Tag(sz, TRUE)
            /\ \A a \in 0 .. f - 1 : mem'[a] = mem[a]
        <5>1. \A a \in 0 .. f - 1 : a \in D /\ a # f /\ a # foot /\ m1[a] = mem[a]
          BY <4>1, <2>4, <2>11, <2>17
        <5> HIDE DEF f, sz, D, foot
        <5>2. mem' = [m1 EXCEPT ![f] = Tag(sz, TRUE), ![foot] = Tag(sz, TRUE)]
          BY <4>5, <4>6, <4>7, <2>15, <2>17
        <5> QED BY <5>1, <5>2, <4>6, <4>8, <2>15, <2>17
      <4>15. Kept
        BY <4>9, <2>2, <3>1, PayloadBelowFree DEF Kept
      <4>10. \A h \in LiveHdrs : /\ h \in Nat /\ h < f /\ EndOf(h) <= f /\ EndOf(h) \in Nat
                                 /\ EndOf(h) - 1 > h /\ EndOf(h) \in LiveHdrs \cup {f}
        <5> SUFFICES ASSUME NEW h \in LiveHdrs
                     PROVE  /\ h \in Nat /\ h < f /\ EndOf(h) <= f /\ EndOf(h) \in Nat
                            /\ EndOf(h) - 1 > h /\ EndOf(h) \in LiveHdrs \cup {f}
          OBVIOUS
        <5>1. /\ h \in Nat /\ h < f /\ EndOf(h) <= f /\ EndOf(h) \in Nat /\ EndOf(h) - 1 > h
          BY <2>2, <3>1, OthersEndBefore
        <5>2. EndOf(h) \in Blocks \cup {maxAddr} /\ EndOf(h) # maxAddr
          BY <5>1, <4>1, <2>4, <2>20
        <5> QED BY <5>1, <5>2, <3>1 DEF Blocks
      <4>11. 0 \in LiveHdrs \cup {f}
        BY <2>2, <3>1 DEF Inv, HeapOK, Tiled, Blocks
      <4>12. maxAddr' = f + sz + 2 /\ foot = maxAddr' - 1
        BY <2>1, <2>12, <4>2
      <4> HIDE DEF f, sz
      <4>13. Tiled' /\ Footed' /\ Lent' /\ LastFree' /\ FreeHdr' = f
        BY <2>1, <2>2, <4>1, <4>2, <4>9, <4>10, <4>11, <4>12, ExtendedList
      <4>14. mem'[FreeHdr'].size = sz
        BY <4>9, <4>13 DEF Tag
      <4> QED BY <4>2, <4>9, <4>13, <4>14, <4>15
    <3>2. CASE ~LastFree
      <4>1. mem' = m1
        <5>1. ~HdrFree(m1, maxAddr - 1)
          BY <2>19, <3>2 DEF HdrFree, LastFree
        <5> QED BY <5>1, <2>4, <2>18 DEF Coalesce
      <4>2. Blocks = LiveHdrs
        BY <3>2 DEF Blocks
      <4>3. 0 \in LiveHdrs \cup {maxAddr}
        BY <4>2, <2>2 DEF Inv, HeapOK, Tiled
      <4>4. maxAddr' = maxAddr + (n - 2) + 2 /\ foot = maxAddr' - 1 /\ n - 2 \in Nat /\ need <= n - 2
        BY <2>1, <2>3, <2>4, <2>11, <2>12
      <4>5. Tiled' /\ Footed' /\ Lent' /\ LastFree' /\ FreeHdr' = maxAddr
        <5> DEFINE sz == n - 2
        <5>1. sz \in Nat /\ maxAddr' = maxAddr + sz + 2
          BY <4>4
        <5>2. mem'[maxAddr] = Tag(sz, TRUE) /\ mem'[maxAddr' - 1] = Tag(sz, TRUE)
          BY <2>17, <4>1, <4>4
        <5>3. \A a \in 0 .. maxAddr - 1 : mem'[a] = mem[a]
          BY <2>17, <4>1
        <5> HIDE DEF sz
        <5> QED BY <2>1, <2>2, <2>4, <2>20, <4>2, <4>3, <5>1, <5>2, <5>3, ExtendedList
      <4>6. mem'[FreeHdr'].size = n - 2
        BY <2>17, <4>1, <4>5 DEF Tag
      <4>7. Kept
        <5>1. \A b \in live : \A a \in b.ptr .. b.ptr + b.len - 1 : a \in 0 .. maxAddr - 1
          BY <2>2, <2>4, PayloadApart
        <5> QED BY <5>1, <2>17, <4>1 DEF Kept
      <4> QED BY <2>17, <4>1, <4>4, <4>5, <4>6, <4>7
    <3> QED BY <3>1, <3>2
  <2>22. TypeOK'
    BY <2>1, <2>4, <2>11, <2>12, <2>21 DEF Inv, TypeOK
  <2>23. Searching'
    <3>1. 0 \in Blocks' /\ 0 # maxAddr'
      BY <2>21, <2>1, <2>4, <2>11, <2>12 DEF Tiled
    <3>2. need' = need
      BY <2>1 DEF need
    <3> QED BY <3>1, <3>2, <2>1, <2>2, <2>21 DEF Searching
  <2> QED BY <2>1, <2>2, <2>12, <2>21, <2>22, <2>23 DEF Inv, HeapOK
<1> QED BY <1>2, <1>3

LEMMA InvHolds == Spec => []Inv
<1>1. Inv /\ [Next]_vars => Inv'
  <2> SUFFICES ASSUME Inv, [Next]_vars PROVE Inv'
    OBVIOUS
  <2>1. CASE Advance
    BY <2>1, AdvanceInv
  <2>2. CASE Split
    BY <2>2, SplitInv
  <2>3. CASE Take
    BY <2>3, TakeInv
  <2>4. CASE Exhausted
    BY <2>4, ExhaustedInv
  <2>5. CASE ReturnNull
    BY <2>5, ReturnNullImpossible
  <2>6. CASE Extend
    BY <2>6, ExtendInv
  <2>7. CASE ClientStore
    BY <2>7, ClientStoreInv
  <2>8. CASE \E n \in Requests : Malloc(n)
    BY <2>8, MallocInv
  <2>9. CASE UNCHANGED vars
    <3>1. TypeOK'
      BY <2>9 DEF vars, Inv, TypeOK
    <3>2. Searching' /\ HeapOK'
      BY <2>9, ListUnchanged DEF vars, Inv, HeapOK, Searching, need
    <3> QED BY <3>1, <3>2 DEF Inv
  <2> QED BY <2>1, <2>2, <2>3, <2>4, <2>5, <2>6, <2>7, <2>8, <2>9 DEF Next, Step
<1> QED BY InitInv, <1>1, PTL DEF Spec

\* Every variable keeps its type, and maxAddr stays within the memory: no
\* address malloc computes for the end of its heap is out of bounds.
THEOREM TypeCorrect == Spec => []TypeOK
<1>1. Inv => TypeOK
  BY DEF Inv
<1> QED BY <1>1, InvHolds, PTL

\* The block list is intact in every reachable state, whatever the clients
\* ask for and store: no sequence of calls, splits, coalescing extensions and
\* client stores breaks the list find walks (runtime/malloc.jswt:47-99).
THEOREM BlockListIntact == Spec => []HeapOK
<1>1. Inv => HeapOK
  BY DEF Inv
<1> QED BY <1>1, InvHolds, PTL

-----------------------------------------------------------------------------
(* The refinement of Heap.                                                 *)

\* Every word a client owns exists, and lies below maxAddr.
LEMMA PayloadExists ==
  Inv => payload \subseteq DOMAIN mem /\ payload \cap DOMAIN mem = payload
<1> SUFFICES ASSUME Inv PROVE payload \subseteq DOMAIN mem /\ payload \cap DOMAIN mem = payload
  OBVIOUS
<1>1. ASSUME NEW b \in live, NEW a \in b.ptr .. b.ptr + b.len - 1 PROVE a \in DOMAIN mem
  <2>1. isInit
    BY DEF Inv, HeapOK
  <2>2. a \in 0 .. maxAddr - 2
    BY <2>1, PayloadApart
  <2> QED BY <2>2, MemoryBounds DEF Inv, TypeOK
<1> QED BY <1>1 DEF payload

LEMMA PayloadExistsNext ==
  Inv' => (payload \subseteq DOMAIN mem /\ payload \cap DOMAIN mem = payload)'
BY PayloadExists, PTL

\* A step that hands out nothing and keeps the payloads leaves the abstract
\* contents alone.
LEMMA ContentsKept ==
  ASSUME Inv, Inv', Kept, live' = live
  PROVE  contents' = contents
<1>1. payload' = payload
  BY DEF payload
<1>2. payload \subseteq DOMAIN mem /\ payload \subseteq DOMAIN mem'
  BY <1>1, PayloadExists, PayloadExistsNext
<1>3. \A a \in payload : mem'[a] = mem[a]
  BY DEF payload, Kept
<1> QED BY <1>1, <1>2, <1>3 DEF contents

\* Returning from find is an allocation.
LEMMA ReturnIsAlloc ==
  ASSUME Inv, Inv', Looking, Fits, Kept, Return(Plus(pointer, 1))
  PROVE  H!Alloc
<1> DEFINE p == pointer + 1
           new == [ptr |-> p, len |-> need]
<1>1. /\ isInit /\ LastFree /\ pointer = FreeHdr /\ pointer \in Nat
      /\ mem[pointer].size \in Nat /\ pointer + mem[pointer].size + 2 = maxAddr
      /\ need \in Nat /\ need <= mem[pointer].size
      /\ pointer \in Blocks
  BY Found
<1>2. Plus(pointer, 1) = p
  BY <1>1, BlockBounds
<1>3. /\ pc = "find" /\ pc' = "idle" /\ live' = live \cup {new}
      /\ request' = request
  BY <1>2 DEF Return, Looking
<1>4. request <= 4 * need
  BY <1>3, NeedBounds DEF Inv, HeapOK, Searching
<1>5. /\ p \in 1 .. MaxPages * PageWords /\ need \in 0 .. MaxPages * PageWords
      /\ p + need <= MaxPages * PageWords
  <2>1. maxAddr \in Nat /\ maxAddr <= MaxPages * PageWords /\ MaxPages * PageWords \in Nat
    BY MemoryBounds, PageAssumption DEF Inv, TypeOK
  <2> QED BY <2>1, <1>1
<1>6. \A b \in live : \A a \in b.ptr .. b.ptr + b.len - 1 : a \in 0 .. pointer - 1
  BY <1>1, PayloadBelowFree
<1>7. \A b \in live : /\ b.ptr # p
                      /\ (b.ptr .. b.ptr + b.len - 1) \cap (p .. p + need - 1) = {}
  <2> SUFFICES ASSUME NEW b \in live
               PROVE  /\ b.ptr # p
                      /\ (b.ptr .. b.ptr + b.len - 1) \cap (p .. p + need - 1) = {}
    OBVIOUS
  <2>1. b.ptr - 1 # pointer /\ b.ptr \in Nat
    BY Found DEF LiveHdrs, Inv, TypeOK
  <2>2. \A a \in p .. p + need - 1 : a \notin 0 .. pointer - 1
    BY <1>1
  <2> QED BY <2>1, <2>2, <1>1, <1>6
<1>8. payload' = DOMAIN contents'
  <2>1. payload' \cap DOMAIN mem' = payload'
    BY PayloadExistsNext
  <2> QED BY <2>1 DEF contents
<1>9. \A a \in payload : contents'[a] = contents[a]
  <2>1. payload \subseteq payload'
    BY <1>3 DEF payload
  <2>2. \A a \in payload : mem'[a] = mem[a]
    BY DEF payload, Kept
  <2>3. payload \cap DOMAIN mem = payload /\ payload' \cap DOMAIN mem' = payload'
    BY PayloadExists, PayloadExistsNext
  <2> QED BY <2>1, <2>2, <2>3 DEF contents
<1> HIDE DEF p
<1>10. \E ptr \in 1 .. MaxPages * PageWords, len \in 0 .. MaxPages * PageWords :
         LET b1 == [ptr |-> ptr, len |-> len] IN
         /\ request <= 4 * len
         /\ ptr + len <= MaxPages * PageWords
         /\ \A b \in live : b.ptr # ptr /\ H!Cells(b) \cap H!Cells(b1) = {}
         /\ live' = live \cup {b1}
  <2>1. H!Cells(new) = p .. p + need - 1
    BY DEF H!Cells
  <2>2. \A b \in live : b.ptr # p /\ H!Cells(b) \cap H!Cells(new) = {}
    BY <2>1, <1>7 DEF H!Cells
  <2> QED BY <2>2, <1>3, <1>4, <1>5
<1>11. H!Owned(live) = payload /\ H!Owned(live') = payload'
  BY DEF H!Owned, H!Cells, payload
<1>12. (pc \in {"find", "extend"}) /\ ~(pc' \in {"find", "extend"})
       /\ (pc' # "trapped") = (pc # "trapped")
  BY <1>3
<1> QED BY <1>3, <1>8, <1>9, <1>10, <1>11, <1>12 DEF H!Alloc

LEMMA InitRefines == Init => H!HInit
<1> SUFFICES ASSUME Init PROVE H!HInit
  OBVIOUS
<1>1. payload = {} /\ H!Owned({}) = {}
  BY DEF Init, payload, H!Owned
<1>2. contents = [a \in H!Owned({}) |-> 0]
  BY <1>1 DEF contents
<1> QED BY <1>2 DEF Init, H!HInit

\* A trap, wherever it happens, is the abstract Stop.
LEMMA TrapIsStop == Trap /\ pc \in {"find", "extend"} => H!Stop
BY DEF Trap, H!Stop, contents, payload

LEMMA MallocIsCall ==
  ASSUME NEW n \in Requests, Inv, Inv', Malloc(n)
  PROVE  H!Call
<1>1. Kept
  <2>1. CASE isInit
    BY <2>1 DEF Malloc, Kept
  <2>2. CASE ~isInit
    BY <2>2 DEF Inv, HeapOK, Kept
  <2> QED BY <2>1, <2>2
<1>2. contents' = contents
  BY <1>1, ContentsKept DEF Malloc
<1> QED BY <1>2, PageAssumption DEF Malloc, H!Call

LEMMA StoreIsStore ==
  ASSUME Inv, Inv', ClientStore
  PROVE  H!Store
<1>1. PICK b \in live : \E a \in b.ptr .. b.ptr + b.len - 1, w \in ClientWords :
        a \in DOMAIN mem /\ mem' = [mem EXCEPT ![a] = w]
  BY DEF ClientStore
<1>2. PICK a \in b.ptr .. b.ptr + b.len - 1, w \in ClientWords :
        a \in DOMAIN mem /\ mem' = [mem EXCEPT ![a] = w]
  BY <1>1
<1>3. a \in payload /\ w \in Word
  BY ClientAssumption DEF payload
<1>4. payload' = payload /\ DOMAIN mem' = DOMAIN mem
  BY <1>2 DEF ClientStore, payload
<1>5. contents' = [contents EXCEPT ![a] = w]
  <2>1. \A x \in DOMAIN mem : mem'[x] = IF x = a THEN w ELSE mem[x]
    BY <1>2
  <2> QED BY <1>3, <1>4, <2>1 DEF contents
<1>6. payload = H!Owned(live)
  BY DEF H!Owned, H!Cells, payload
<1> QED BY <1>3, <1>5, <1>6 DEF ClientStore, H!Store

\* malloc implements Heap: every block it returns is fresh, large enough and
\* inside the memory, and none of its steps changes a word a client owns
\* (runtime/malloc.jswt:101-115).
THEOREM MallocImplementsHeap == Spec => HeapSpec
<1> USE DEF H!HNext, H!hvars
<1>1. Inv /\ Inv' /\ [Next]_vars => [H!HNext]_(H!hvars)
  <2> SUFFICES ASSUME Inv, Inv', [Next]_vars PROVE [H!HNext]_(H!hvars)
    OBVIOUS
  <2>1. CASE Advance
    BY <2>1 DEF Advance, heapVars, contents, payload
  <2>2. CASE Split
    <3>1. CASE Trap
      BY <2>2, <3>1, TrapIsStop DEF Split, Looking
    <3>2. CASE ~Trap
      <4>1. Looking /\ Fits /\ Return(Plus(pointer, 1))
        BY <2>2, <3>2 DEF Split
      <4> QED BY <2>2, <3>2, <4>1, SplitInv, ReturnIsAlloc
    <3> QED BY <3>1, <3>2
  <2>3. CASE Take
    <3>1. CASE Trap
      BY <2>3, <3>1, TrapIsStop DEF Take, Looking
    <3>2. CASE ~Trap
      <4>1. Looking /\ Fits /\ Return(Plus(pointer, 1))
        BY <2>3, <3>2 DEF Take
      <4> QED BY <2>3, <3>2, <4>1, TakeInv, ReturnIsAlloc
    <3> QED BY <3>1, <3>2
  <2>4. CASE Exhausted
    BY <2>4 DEF Exhausted, heapVars, contents, payload
  <2>5. CASE ReturnNull
    BY <2>5, ReturnNullImpossible
  <2>6. CASE Extend
    <3>1. CASE Trap
      BY <2>6, <3>1, TrapIsStop DEF Extend
    <3>2. CASE ~Trap
      <4>1. pc = "extend" /\ pc' = "find" /\ UNCHANGED <<request, live>>
        BY <2>6, <3>2 DEF Extend
      <4>2. contents' = contents
        BY <2>6, <3>2, <4>1, ExtendInv, ContentsKept
      <4> QED BY <4>1, <4>2
    <3> QED BY <3>1, <3>2
  <2>7. CASE ClientStore
    BY <2>7, StoreIsStore
  <2>8. CASE \E n \in Requests : Malloc(n)
    BY <2>8, MallocIsCall
  <2>9. CASE UNCHANGED vars
    BY <2>9 DEF vars, contents, payload
  <2> QED BY <2>1, <2>2, <2>3, <2>4, <2>5, <2>6, <2>7, <2>8, <2>9 DEF Next, Step
<1> QED BY InitRefines, InvHolds, <1>1, PTL DEF Spec, HeapSpec, H!HSpec

=============================================================================
