---------------------------- MODULE MCSafeMalloc ----------------------------
(* A small instance of SafeMalloc for TLC.                                 *)
EXTENDS SafeMalloc

\* What a client that means to be mistaken for a header would store.
FakeHeader == {Tag(1, TRUE)}

\* Requests of at least two words: the smallest, one that leaves a rest of
\* one word, one of more than a page.
LargeRequests == {8, 9, 16}
=============================================================================
