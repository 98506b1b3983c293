----------------------------- MODULE SourceQueue -----------------------------
(***************************************************************************)
(* How the compiler gets at its input: main enqueues the user's file and    *)
(* the runtime, and the tokenizer turns the queued files into one stream of *)
(* tokens, enqueueing the files they import as it meets the import          *)
(* directives (jswt-tokenizer/src/lib.rs, jswt-common/src/fs.rs and         *)
(* compile_module in jswt-compiler/src/main.rs).                            *)
(*                                                                         *)
(* A file's text is a sequence of items: an import directive (the imported  *)
(* file), an import of a path that names no file, a token, a character no   *)
(* rule matches, or such a character that takes more than one byte. White   *)
(* space and comments are left out.                                         *)
(* One action is one item: next_token's recursion is a step of its own.     *)
(***************************************************************************)
EXTENDS Integers, Sequences, FiniteSets, SequencesExt

CONSTANTS Files,      \* the canonical paths of the files that exist
          Input,      \* the user's file
          Runtime,    \* the runtime's entry file, rt.jswt
          Texts       \* the texts a file may have

ASSUME FileAssumption ==
  /\ {Input, Runtime} \subseteq Files
  /\ {"token", "bad", "wide", "missing"} \cap Files = {}
  /\ Texts \subseteq Seq(Files \cup {"token", "bad", "wide", "missing"})

VARIABLES text,      \* the files on disk: file -> text
          sources,   \* Tokenizer.sources, the current source last
          cache,     \* keys of FILE_CACHE: the files that have been read
          prefix,    \* Tokenizer.module_prefix (and sources_root with it)
          phase,     \* where compile_module is
          roots,     \* history: the files main itself enqueued
          tokens,    \* the stream handed to the parser so far
          errors     \* Tokenizer.errors

vars == <<text, sources, cache, prefix, phase, roots, tokens, errors>>

Current == Last(sources)

\* Mutant of AtEnd: the last item of a text is lost.
AtEndEarly == Current.cursor + 1 >= Len(text[Current.file])

AtEnd == Current.cursor >= Len(text[Current.file])
Item == text[Current.file][Current.cursor + 1]

\* A source that has just been enqueued; its module is named once and for all
\* after the root and the prefix the tokenizer has at that moment.
Source(f, p) == [file |-> f, module |-> p, cursor |-> 0]

\* Mutant of Enqueued: a new source becomes the current one.
EnqueuedOnTop(queue, seen, f, p) ==
  IF f \in seen THEN queue ELSE queue \o <<Source(f, p)>>

\* enqueue_source_file: a file that has been read already is not read again;
\* sources.insert(0, _) puts it behind everything that waits.
Enqueued(queue, seen, f, p) ==
  IF f \in seen THEN queue ELSE <<Source(f, p)>> \o queue

\* Mutant of Advanced: one item too far.
AdvancedTwice(queue) == [queue EXCEPT ![Len(queue)].cursor = @ + 2]

\* advance_cursor of the current source, which may be followed by an enqueue.
Advanced(queue) == [queue EXCEPT ![Len(queue)].cursor = @ + 1]

\* Mutant of Read: a file is cached when it has been read to its end.
ReadAtEnd == cache' = IF AtEnd THEN cache \cup {Current.file} ELSE cache

\* Looking for more content reads the file, which caches it.
Read == cache' = cache \cup {Current.file}

Token(kind) == [file |-> Current.file, module |-> Current.module,
                offset |-> Current.cursor, kind |-> kind]

-----------------------------------------------------------------------------
Init ==
  /\ text \in [Files -> Texts]
  /\ sources = <<>>
  /\ cache = {}
  /\ prefix = "default"
  /\ phase = "input"
  /\ roots = {}
  /\ tokens = <<>>
  /\ errors = {}

EnqueueInput ==
  /\ phase = "input"
  /\ prefix' = "module"
  /\ sources' = Enqueued(sources, cache, Input, "module")
  /\ roots' = {Input}
  /\ phase' = "runtime"
  /\ UNCHANGED <<text, cache, tokens, errors>>

EnqueueRuntime ==
  /\ phase = "runtime"
  /\ prefix' = "runtime"
  /\ sources' = Enqueued(sources, cache, Runtime, "runtime")
  /\ roots' = roots \cup {Runtime}
  /\ phase' = "tokens"
  /\ UNCHANGED <<text, cache, tokens, errors>>

\* --no-std
SkipRuntime ==
  /\ phase = "runtime"
  /\ phase' = "tokens"
  /\ UNCHANGED <<text, sources, cache, prefix, roots, tokens, errors>>

Tokenizing == phase = "tokens" /\ sources # <<>>

\* Mutant of EndOfSource: the exhausted source stays.
EndOfSourceKept ==
  /\ Tokenizing /\ AtEnd
  /\ Read
  /\ UNCHANGED <<text, sources, prefix, phase, roots, tokens, errors>>

EndOfSource ==
  /\ Tokenizing /\ AtEnd
  /\ Read
  /\ tokens' = Append(tokens, Token("eof"))
  /\ sources' = Front(sources)
  /\ UNCHANGED <<text, prefix, phase, roots, errors>>

ImportDirective ==
  /\ Tokenizing /\ ~AtEnd /\ Item \in Files
  /\ Read
  /\ sources' = Enqueued(Advanced(sources), cache', Item, prefix)
  /\ UNCHANGED <<text, prefix, phase, roots, tokens, errors>>

\* canonicalize fails for a path that names no file, and its unwrap panics: the
\* message and the exit behind it are never reached.
MissingImport ==
  /\ Tokenizing /\ ~AtEnd /\ Item = "missing"
  /\ Read
  /\ phase' = "no_file"
  /\ UNCHANGED <<text, sources, prefix, roots, tokens, errors>>

Rule ==
  /\ Tokenizing /\ ~AtEnd /\ Item = "token"
  /\ Read
  /\ tokens' = Append(tokens, Token("token"))
  /\ sources' = Advanced(sources)
  /\ UNCHANGED <<text, prefix, phase, roots, errors>>

\* The offending character is noted down and dropped.
Unrecognized ==
  /\ Tokenizing /\ ~AtEnd /\ Item = "bad"
  /\ Read
  /\ errors' = errors \cup {Token("bad")}
  /\ sources' = Advanced(sources)
  /\ UNCHANGED <<text, prefix, phase, roots, tokens>>

\* rest[0..1] is not a character boundary: the slice panics.
UnrecognizedWide ==
  /\ Tokenizing /\ ~AtEnd /\ Item = "wide"
  /\ Read
  /\ phase' = "panicked"
  /\ UNCHANGED <<text, sources, prefix, roots, tokens, errors>>

NoMoreSources ==
  /\ phase = "tokens" /\ sources = <<>>
  /\ phase' = "done"
  /\ UNCHANGED <<text, sources, cache, prefix, roots, tokens, errors>>

Next ==
  \/ EnqueueInput \/ EnqueueRuntime \/ SkipRuntime
  \/ EndOfSource \/ ImportDirective \/ MissingImport \/ Rule
  \/ Unrecognized \/ UnrecognizedWide \/ NoMoreSources

Spec == Init /\ [][Next]_vars /\ WF_vars(Next)

-----------------------------------------------------------------------------
(* Properties.                                                             *)

ToSource == [file : Files, module : {"module", "runtime", "default"}, cursor : Nat]

\* Every variable has its type; no source is read past its end.
TypeOK ==
  /\ text \in [Files -> Texts]
  /\ sources \in Seq(ToSource)
  /\ \A i \in DOMAIN sources : sources[i].cursor <= Len(text[sources[i].file])
  /\ cache \subseteq Files /\ roots \subseteq {Input, Runtime}
  /\ prefix \in {"default", "module", "runtime"}
  /\ phase \in {"input", "runtime", "tokens", "done", "panicked", "no_file"}
  /\ \A i \in DOMAIN tokens : tokens[i].kind \in {"token", "eof"}
  /\ \A e \in errors : e.kind = "bad"

ImportsOf(f) == {text[f][i] : i \in DOMAIN text[f]} \cap Files

\* The files that can be reached from a set of files by imports: those in every
\* set that contains it and what its members import.
Closed(S) == \A f \in S : ImportsOf(f) \subseteq S
Reach(fs) ==
  {f \in Files : \A S \in SUBSET Files : fs \subseteq S /\ Closed(S) => f \in S}

\* When the tokenizer is done it has seen every file that can be reached from
\* the files main enqueued, however they import one another, and no other,
\* and of each of them every token and every error.
AllTokenized ==
  phase = "done" =>
    /\ cache = Reach(roots)
    /\ \A f \in cache : \A i \in DOMAIN text[f] :
         /\ text[f][i] = "token" =>
              \E k \in DOMAIN tokens : tokens[k].file = f /\ tokens[k].offset = i - 1
         /\ text[f][i] = "bad" =>
              \E e \in errors : e.file = f /\ e.offset = i - 1

\* Files do not interleave: what follows a token that is not an Eof is a later
\* token of the same file, and what follows an Eof is the start of a file.
\* (The parser builds one File per stretch that ends with an Eof.)
FilesContiguous ==
  \A k \in 1 .. Len(tokens) - 1 :
    LET a == tokens[k]
        b == tokens[k + 1]
        FirstOf(f, i) == \A j \in 1 .. i : text[f][j] # "token"
    IN  IF a.kind = "eof"
        THEN FirstOf(b.file, b.offset)
        ELSE a.file = b.file /\ a.module = b.module /\ a.offset < b.offset

\* The user's file is named as a module of its own, be it imported by others and
\* met again, and everything else after the last root and prefix the driver sets
\* (main.rs:184-185), be it imported by the user's file alone: every import is met
\* after the driver has replaced them, and no import of the user's file before
\* that file has been read.
ModulesExplained ==
  \A k \in DOMAIN tokens :
    /\ tokens[k].file # Input => tokens[k].module = prefix
    /\ tokens[k].file = Input /\ Input # Runtime => tokens[k].module = "module"

\* Files that import one another do not keep the tokenizer busy forever.
Terminates == <>(phase \in {"done", "panicked", "no_file"})

\* "Sources at the top of the source stack will be resolved first [...] errors
\* related to redefinitions and shadowing should point to user defined
\* sources" (jswt-compiler/src/main.rs:180-183): the definitions of the
\* runtime come before those of the user's file.
RuntimeFirst ==
  \A k \in DOMAIN tokens :
    tokens[k].file = Input /\ Runtime \in roots =>
      \E j \in 1 .. k : tokens[j].file = Runtime /\ tokens[j].kind = "eof"

\* "We want to report the error after the fact so note it down for now"
\* (jswt-tokenizer/src/lib.rs:245): a character no rule matches is reported.
NoPanic == phase # "panicked"
=============================================================================
