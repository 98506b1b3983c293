---------------------------- MODULE MCSourceQueue ----------------------------
(* A small instance of SourceQueue for TLC: the user's file, the runtime and *)
(* a library, each with every text of at most two imports and tokens, and    *)
(* some with characters no rule matches or an import of no file.             *)
EXTENDS SourceQueue

CONSTANTS input, rt, lib

AllFiles == {input, rt, lib}
ShortTexts ==
  SeqOf(AllFiles \cup {"token"}, 2)
    \cup {<<"bad">>, <<"bad", "token">>, <<"wide">>, <<"missing">>}
=============================================================================
