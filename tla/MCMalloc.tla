------------------------------ MODULE MCMalloc ------------------------------
(* Small instances of Malloc for TLC whose clients are not restricted.     *)
EXTENDS Malloc

\* Requests of at least two words: the smallest, one that leaves a rest of
\* one word, one of more than a page.
LargeRequests == {8, 9, 25}

\* What a client stores: read as a header at 0 it leads around the address space
\* and back to 0.
AroundHeader == {Tag(WordSpace - 2, FALSE)}

\* An object with one field and an object with two (Class#constructor asks
\* for 4 bytes per field).
SmallObjects == {4, 8}
=============================================================================
