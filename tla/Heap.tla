-------------------------------- MODULE Heap --------------------------------
(***************************************************************************)
(* What a program compiled by jswt may rely on when it calls malloc: a     *)
(* call ends with a block of at least the requested size that is nobody     *)
(* else's, or the program is stopped; and the words a client owns change   *)
(* only when the client stores into them.                                  *)
(*                                                                         *)
(* Addresses and lengths are counted in 4-byte words, the granularity of   *)
(* runtime/malloc.jswt; requests are counted in bytes.                     *)
(***************************************************************************)
EXTENDS Naturals

CONSTANTS Limit,   \* number of words the linear memory can ever have
          Value    \* the contents a word can have

VARIABLES live,      \* the blocks handed out: records [ptr, len]
          data,      \* contents of the words owned by the client
          request,   \* the number of bytes asked for by the latest call
          pending,   \* is that call still running?
          up         \* FALSE once the instance has trapped

hvars == <<live, data, request, pending, up>>

Cells(b) == b.ptr .. b.ptr + b.len - 1
Owned(bs) == UNION {Cells(b) : b \in bs}

HInit ==
  /\ live = {}
  /\ data = [a \in Owned({}) |-> 0]
  /\ request = 0
  /\ pending = FALSE
  /\ up = TRUE

Call ==
  /\ up /\ ~pending
  /\ request' \in Nat
  /\ pending' = TRUE
  /\ UNCHANGED <<live, data, up>>

\* Address 0 is the null pointer and the words in [1, Limit) can be lent.
\* Nothing that was owned before changes its contents.
Alloc ==
  /\ pending
  /\ \E ptr \in 1 .. Limit, len \in 0 .. Limit :
       LET new == [ptr |-> ptr, len |-> len] IN
       /\ request <= 4 * len
       /\ ptr + len <= Limit
       /\ \A b \in live : b.ptr # ptr /\ Cells(b) \cap Cells(new) = {}
       /\ live' = live \cup {new}
  /\ DOMAIN data' = Owned(live')
  /\ \A a \in Owned(live) : data'[a] = data[a]
  /\ pending' = FALSE
  /\ UNCHANGED <<request, up>>

Store ==
  /\ up /\ ~pending
  /\ \E a \in Owned(live), v \in Value : data' = [data EXCEPT ![a] = v]
  /\ UNCHANGED <<live, request, pending, up>>

Stop ==
  /\ pending
  /\ pending' = FALSE
  /\ up' = FALSE
  /\ UNCHANGED <<live, data, request>>

HNext == Call \/ Alloc \/ Store \/ Stop

HSpec == HInit /\ [][HNext]_hvars
=============================================================================
