------------------------------- MODULE Malloc -------------------------------
(***************************************************************************)
(* The allocator every program compiled by jswt is linked with              *)
(* (runtime/malloc.jswt): one list of blocks laid out back to back from     *)
(* address 0 to maxAddr, each with its size and a free bit both in front    *)
(* of the payload (header) and behind it (footer). malloc walks the list    *)
(* from address 0, takes or splits the first free block that is large       *)
(* enough, and grows the memory when there is none.                         *)
(*                                                                         *)
(* One action is one iteration of find's loop, one extend, or one call.     *)
(* Addresses and sizes are counted in 4-byte words (4 and 8 in the source   *)
(* are 1 and 2 here, 65536 is PageWords); everything the source computes    *)
(* with them is a multiple of 4, so nothing is lost. Arithmetic wraps at    *)
(* WordSpace, the number of words of a 32-bit address space.                *)
(***************************************************************************)
EXTENDS Integers

CONSTANTS PageWords,    \* words in a page of linear memory (16384)
          WordSpace,    \* words in the address space (2^30)
          MaxPages,     \* pages the host grants at most
          Requests,     \* the sizes, in bytes, the client asks for
          ClientWords   \* what the client stores into its payloads

ASSUME PageAssumption ==
  /\ PageWords \in Nat /\ PageWords > 3
  /\ MaxPages \in Nat /\ MaxPages >= 1
  /\ WordSpace \in Nat /\ MaxPages * PageWords <= WordSpace
  /\ Requests \subseteq Nat

\* A word of memory as hdrGetSize and hdrGetFree decode it.
Word == [size : 0 .. WordSpace - 1, free : BOOLEAN]
Tag(n, isFree) == [size |-> n, free |-> isFree]
Zero == Tag(0, FALSE)

ASSUME ClientAssumption == ClientWords \subseteq Word

VARIABLES mem,       \* the linear memory: address -> word
          memory,    \* its size (memory.size)
          maxAddr,   \* global: end of the block list
          isInit,    \* global: init() has run
          pc,        \* where the thread is: idle, find, extend, trapped
          request,   \* malloc's parameter size, in bytes
          pointer,   \* find's cursor, the address of a header
          retry,     \* is this the second find of the call?
          live       \* history: what malloc has returned, with the length
                     \* the client may use

vars == <<mem, memory, maxAddr, isInit, pc, request, pointer, retry, live>>
heapVars == <<mem, memory, maxAddr, isInit, live>>

Plus(a, b) == (a + b) % WordSpace
Minus(a, b) == (a - b) % WordSpace

\* align4: bytes rounded up to words, with the 32-bit wrap of value + 3.
Align4(n) == ((n + 3) \div 4) % WordSpace

need == Align4(request)

-----------------------------------------------------------------------------
(* Reading and writing headers and footers.                                *)

HdrSize(m, p) == m[p].size
HdrFree(m, p) == m[p].free
HdrSetSize(w, n) == Tag(n, w.free)
HdrSetFree(w, isFree) == Tag(w.size, isFree)

InBounds(m, cells) == cells \subseteq DOMAIN m

\* init(): one free block that spans the first page.
InitHeap(m) == [m EXCEPT ![0] = Tag(Minus(maxAddr, 2), TRUE),
                         ![Minus(maxAddr, 1)] = Tag(Minus(maxAddr, 2), TRUE)]

\* The four words find writes when it splits the block at p.
SplitCells(p, size, n) ==
  {p, Plus(p, Plus(n, 1)), Plus(p, Plus(n, 2)), Plus(p, Plus(size, 1))}

\* Mutant of SplitBlock: the header and footer of the allocated part are not
\* taken off the size of the rest.
SplitBlockNoOverhead(m, p, size, n) ==
  [m EXCEPT ![p] = Tag(n, FALSE),
            ![Plus(p, Plus(n, 1))] = Tag(n, FALSE),
            ![Plus(p, Plus(n, 2))] = Tag(Minus(size, n), TRUE),
            ![Plus(p, Plus(size, 1))] = HdrSetSize(@, Minus(size, n))]

\* The words of the header and the footer of the allocated part, then those
\* of the rest; only the size of the last footer is written.
SplitBlock(m, p, size, n) ==
  LET rest == Minus(size, Plus(n, 2)) IN
  [m EXCEPT ![p] = Tag(n, FALSE),
            ![Plus(p, Plus(n, 1))] = Tag(n, FALSE),
            ![Plus(p, Plus(n, 2))] = Tag(rest, TRUE),
            ![Plus(p, Plus(size, 1))] = HdrSetSize(@, rest)]

\* Mutant of TakeBlock: the header stays free.
TakeBlockHdrForgotten(m, p, size) ==
  [m EXCEPT ![Plus(p, Plus(size, 1))] = HdrSetFree(@, FALSE)]

TakeBlock(m, p, size) ==
  [m EXCEPT ![p] = HdrSetFree(@, FALSE),
            ![Plus(p, Plus(size, 1))] = HdrSetFree(@, FALSE)]

\* Mutant of NextHdr: the cursor is not moved on.
NextHdrStuck(p, size) == p

NextHdr(p, size) == Plus(p, Plus(size, 2))

\* divUnsigned(aligned_size + 65527, 65528)
PagesFor(n) == Plus(n, PageWords - 3) \div (PageWords - 2)

Grown(m, words) ==
  [a \in 0 .. words - 1 |-> IF a \in DOMAIN m THEN m[a] ELSE Zero]

\* extend's own block: header at the old maxAddr, footer before the new one.
NewBlock(m, n) ==
  LET footer == Minus(Plus(maxAddr, n), 1)
  IN  [m EXCEPT ![maxAddr] = Tag(Minus(n, 2), TRUE),
                ![footer] = Tag(Minus(n, 2), TRUE)]

\* The header of the block whose footer ends at the old maxAddr.
PrevHdr(m) ==
  LET prevFooter == Minus(maxAddr, 1)
  IN  Minus(prevFooter, Plus(HdrSize(m, prevFooter), 1))

\* If the block before is free the two become one.
Coalesce(m, n) ==
  LET prevFooter == Minus(maxAddr, 1)
      footer == Minus(Plus(maxAddr, n), 1)
      size == Plus(HdrSize(m, prevFooter), n)
  IN  IF HdrFree(m, prevFooter)
      THEN [m EXCEPT ![PrevHdr(m)] = HdrSetSize(@, size),
                      ![footer] = HdrSetSize(@, size)]
      ELSE m

\* The words extend touches, in a memory m that has been grown already.
ExtendCells(m, n) ==
  LET prevFooter == Minus(maxAddr, 1) IN
  {maxAddr, Minus(Plus(maxAddr, n), 1), prevFooter}
    \cup (IF prevFooter \in DOMAIN m /\ HdrFree(m, prevFooter)
          THEN {PrevHdr(m)} ELSE {})

-----------------------------------------------------------------------------
Init ==
  /\ mem = [a \in 0 .. PageWords - 1 |-> Zero]
  /\ memory = PageWords
  /\ maxAddr = PageWords
  /\ isInit = FALSE
  /\ pc = "idle"
  /\ request = 0
  /\ pointer = 0
  /\ retry = FALSE
  /\ live = {}

\* malloc(size) up to the first call of find.
Malloc(n) ==
  /\ pc = "idle"
  /\ request' = n
  /\ mem' = IF isInit THEN mem ELSE InitHeap(mem)
  /\ isInit' = TRUE
  /\ pc' = "find"
  /\ pointer' = 0
  /\ retry' = FALSE
  /\ UNCHANGED <<memory, maxAddr, live>>

\* find and then malloc return payload p (0: no block).
Return(p) ==
  /\ pc' = "idle"
  /\ live' = live \cup {[ptr |-> p, len |-> need]}
  /\ UNCHANGED <<memory, maxAddr, isInit, request, pointer, retry>>

\* A load or store outside the memory stops the instance for good.
Trap ==
  /\ pc' = "trapped"
  /\ UNCHANGED <<mem, memory, maxAddr, isInit, request, pointer, retry, live>>

Looking == pc = "find" /\ pointer < maxAddr
Fits == HdrFree(mem, pointer) /\ need <= HdrSize(mem, pointer)
Splits(size) == need < Minus(size, 2)

Advance ==
  /\ Looking /\ ~Fits
  /\ pointer' = NextHdr(pointer, HdrSize(mem, pointer))
  /\ UNCHANGED <<heapVars, pc, request, retry>>

Split ==
  LET size == HdrSize(mem, pointer) IN
  /\ Looking /\ Fits /\ Splits(size)
  /\ IF InBounds(mem, SplitCells(pointer, size, need))
     THEN /\ mem' = SplitBlock(mem, pointer, size, need)
          /\ Return(Plus(pointer, 1))
     ELSE Trap

Take ==
  LET size == HdrSize(mem, pointer) IN
  /\ Looking /\ Fits /\ ~Splits(size)
  /\ IF InBounds(mem, {Plus(pointer, Plus(size, 1))})
     THEN /\ mem' = TakeBlock(mem, pointer, size)
          /\ Return(Plus(pointer, 1))
     ELSE Trap

\* find returned 0 for the first time: malloc goes on to extend the heap.
Exhausted ==
  /\ pc = "find" /\ ~(pointer < maxAddr) /\ ~retry
  /\ pc' = "extend"
  /\ UNCHANGED <<heapVars, request, pointer, retry>>

\* find returned 0 again: so does malloc.
ReturnNull ==
  /\ pc = "find" /\ ~(pointer < maxAddr) /\ retry
  /\ Return(0)
  /\ UNCHANGED mem

\* The host grants the pages or refuses them; grow() drops the answer.
Extend ==
  LET n == (PagesFor(need) * PageWords) % WordSpace IN
  /\ pc = "extend"
  /\ \E pages \in {0, PagesFor(need)} :
       LET words == memory + pages * PageWords
           m == Grown(mem, words)
       IN  /\ words <= MaxPages * PageWords
           /\ IF InBounds(m, ExtendCells(m, n))
              THEN /\ mem' = Coalesce(NewBlock(m, n), n)
                   /\ memory' = words
                   /\ maxAddr' = Plus(maxAddr, n)
                   /\ pointer' = 0
                   /\ retry' = TRUE
                   /\ pc' = "find"
                   /\ UNCHANGED <<isInit, request, live>>
              ELSE Trap

\* The client stores into a word of a block it was given.
ClientStore ==
  /\ pc = "idle"
  /\ \E b \in live : \E a \in b.ptr .. b.ptr + b.len - 1, w \in ClientWords :
       /\ a \in DOMAIN mem
       /\ mem' = [mem EXCEPT ![a] = w]
  /\ UNCHANGED <<memory, maxAddr, isInit, pc, request, pointer, retry, live>>

Step == Advance \/ Split \/ Take \/ Exhausted \/ ReturnNull \/ Extend

Next == Step \/ ClientStore \/ \E n \in Requests : Malloc(n)

Spec == Init /\ [][Next]_vars /\ WF_vars(Step)

-----------------------------------------------------------------------------
(* Properties.                                                             *)

\* The use of the allocator under which it is correct: no request is smaller
\* than two words (find splits off rests of one word, and computes size - 8
\* for them), none is rounded up past the address space, and the host stops
\* short of 4 GiB (maxAddr would wrap to 0 there).
SafeUse ==
  /\ MaxPages * PageWords < WordSpace
  /\ \A n \in Requests : n >= 5 /\ (n + 3) \div 4 < WordSpace

\* Every variable has its type, and maxAddr never runs past the memory.
TypeOK ==
  /\ memory \in PageWords .. MaxPages * PageWords
  /\ mem \in [0 .. memory - 1 -> Word]
  /\ maxAddr \in 0 .. memory
  /\ isInit \in BOOLEAN
  /\ pc \in {"idle", "find", "extend", "trapped"}
  /\ request \in Requests \cup {0}
  /\ pointer \in 0 .. WordSpace - 1
  /\ retry \in BOOLEAN
  /\ live \in SUBSET [ptr : 0 .. WordSpace - 1, len : 0 .. WordSpace - 1]

\* The end of the block whose header is at h: the next header, or maxAddr.
EndOf(h) == h + mem[h].size + 2

\* Only the last block can be free, since nothing is ever given back; its
\* footer is the word below maxAddr, which leads back to its header.
LastFree == mem[maxAddr - 1].free
FreeHdr == maxAddr - 2 - mem[maxAddr - 1].size
LiveHdrs == {b.ptr - 1 : b \in live}
Blocks == LiveHdrs \cup (IF LastFree THEN {FreeHdr} ELSE {})

\* The blocks tile the heap: they start at 0, each ends where another starts
\* or at maxAddr, and they do not overlap.
Tiled ==
  /\ 0 \in Blocks
  /\ \A h \in Blocks : h \in 0 .. maxAddr - 1 /\ EndOf(h) \in Blocks \cup {maxAddr}
  /\ \A g, h \in Blocks : g < h => EndOf(g) <= h

\* Header and footer of a block agree, the last footer with the header it
\* leads to.
Footed ==
  /\ \A h \in Blocks : mem[EndOf(h) - 1] = mem[h]
  /\ LastFree => mem[FreeHdr] = mem[maxAddr - 1]

\* A block that was handed out is not free, has the promised length, and was
\* handed out once.
Lent ==
  /\ \A b \in live : b.ptr >= 1 /\ ~mem[b.ptr - 1].free /\ b.len <= mem[b.ptr - 1].size
  /\ \A b, c \in live : b.ptr = c.ptr => b = c

\* The cursor of find is at a header or at the end, and the second find of a
\* call cannot miss: the last block is free and large enough.
Searching ==
  /\ pc \in {"find", "extend"} => isInit
  /\ pc = "find" => pointer \in Blocks \cup {maxAddr}
  /\ pc = "find" /\ retry => pointer # maxAddr /\ LastFree /\ need <= mem[FreeHdr].size
  /\ pc = "find" \/ pc = "extend" => request \in Requests

\* The state of the heap every call of malloc relies on: the block list that
\* find walks is intact, in whatever order clients call and store.
HeapOK ==
  /\ maxAddr = memory
  /\ isInit => Tiled /\ Footed /\ Lent
  /\ ~isInit => live = {}
  /\ Searching

\* The words the clients own, and what is in them.
payload == UNION {b.ptr .. b.ptr + b.len - 1 : b \in live}
contents == [a \in payload \cap DOMAIN mem |-> mem[a]]

\* The heap seen by its clients.
H == INSTANCE Heap WITH
       Limit <- MaxPages * PageWords,
       Value <- Word,
       data <- contents,
       pending <- pc \in {"find", "extend"},
       up <- pc # "trapped"

\* malloc implements Heap: it hands out fresh blocks that are large enough,
\* and no step of find or extend writes into a word a client owns.
HeapSpec == H!HSpec

\* A block is split only if it has room for the allocation, its footer and
\* the header of the rest ("Block is free but large enough to split",
\* runtime/malloc.jswt:59; otherwise it is "not large enough to be split into
\* two blocks", line 84).
SplitFits == [][Split => need + 2 <= HdrSize(mem, pointer)]_vars

\* Every call of malloc comes to an end: find's loop leaves the block list,
\* and malloc does not search a third time.
CallEnds == pc \in {"find", "extend"} ~> pc \in {"idle", "trapped"}

\* The memory is all the address space, so that extend has wrapped maxAddr to 0
\* (runtime/malloc.jswt:34).
Full == memory = WordSpace


\* Every call that begins before the memory is full comes to an end, the one that
\* fills it included: its second find has no list to search and leaves the loop
\* of find (line 49) at once. Of later calls this is not so once the client
\* stores through the null pointer: the header at 0 may then lead to itself.
FillingCallEnds == pc \in {"find", "extend"} /\ ~Full ~> pc \in {"idle", "trapped"}
=============================================================================
