-------------------------- MODULE SourceQueueProofs --------------------------
(***************************************************************************)
(* For any files, texts and imports, the tokenizer keeps its types, delivers *)
(* files one after the other, names their modules as ModulesExplained says,  *)
(* and in the end has seen every file that can be reached.                  *)
(***************************************************************************)
EXTENDS SourceQueue, SequenceTheorems, TLAPS

ToToken == [file : Files, module : {"module", "runtime", "default"}, offset : Nat,
            kind : {"token", "eof"}]

\* Nothing of file f before its item i is a token.
NoTokenBefore(f, i) == \A j \in 1 .. i : text[f][j] # "token"

\* The last token ended its file, or there is none yet.
BetweenFiles == tokens = <<>> \/ tokens[Len(tokens)].kind = "eof"

\* Only the current source has been begun.
Waiting == \A i \in 1 .. Len(sources) - 1 : sources[i].cursor = 0

\* What main has enqueued before the parser asks for a token.
Beginning ==
  /\ phase \in {"input", "runtime"} => tokens = <<>> /\ cache = {}
  /\ phase = "input" => sources = <<>>
  /\ phase = "runtime" => prefix = "module" /\ sources = <<Source(Input, "module")>>

\* The current source goes on where the stream of tokens stands.
Resumed ==
  sources # <<>> =>
    IF BetweenFiles THEN NoTokenBefore(Current.file, Current.cursor)
    ELSE LET last == tokens[Len(tokens)]
         IN  /\ last.file = Current.file /\ last.module = Current.module
             /\ last.offset < Current.cursor

NamedAs(f, m) ==
  /\ f # Input => m = prefix
  /\ f = Input /\ Input # Runtime => m = "module"

\* Sources are named as ModulesExplained says of tokens; the user's file comes
\* first, so that it is in the cache when imports are met.
Named ==
  /\ \A i \in DOMAIN sources : NamedAs(sources[i].file, sources[i].module)
  /\ phase = "tokens" /\ sources # <<>> => Input \in cache \/ Current.file = Input

Inv ==
  /\ TypeOK
  /\ tokens \in Seq(ToToken)
  /\ Waiting
  /\ Beginning
  /\ Resumed
  /\ FilesContiguous
  /\ Named
  /\ ModulesExplained

-----------------------------------------------------------------------------
(* Sequences.                                                              *)

LEMMA OneOrMore ==
  \A n \in Nat : n >= 1 => n = 1 \/ n >= 2
OBVIOUS

LEMMA LastOrBefore ==
  \A n \in Nat : \A i \in 1 .. n : i = n \/ i \in 1 .. n - 1
OBVIOUS

LEMMA LastFacts ==
  ASSUME NEW S, NEW s \in Seq(S), s # <<>>
  PROVE  /\ Len(s) \in Nat /\ Len(s) >= 1
         /\ Last(s) = s[Len(s)] /\ Last(s) \in S
<1>1. Len(s) \in Nat \ {0}
  BY EmptySeq
<1>2. s[Len(s)] \in S
  BY <1>1, ElementOfSeq
<1> QED
  BY <1>1, <1>2 DEF Last

LEMMA FrontFacts ==
  ASSUME NEW S, NEW s \in Seq(S), s # <<>>
  PROVE  /\ Front(s) \in Seq(S)
         /\ Len(Front(s)) = Len(s) - 1
         /\ \A i \in 1 .. Len(s) - 1 : Front(s)[i] = s[i]
<1>1. Len(s) \in Nat /\ Len(s) >= 1
  BY LastFacts
<1>2. \A i \in 1 .. Len(s) - 1 : s[i] \in S
  BY <1>1, ElementOfSeq
<1>3. Front(s) = SubSeq(s, 1, Len(s) - 1)
  BY DEF Front
<1>4. /\ SubSeq(s, 1, Len(s) - 1) \in Seq(S)
      /\ Len(SubSeq(s, 1, Len(s) - 1)) = IF 1 <= Len(s) - 1 THEN Len(s) - 1 - 1 + 1 ELSE 0
      /\ \A i \in 1 .. Len(s) - 1 - 1 + 1 : SubSeq(s, 1, Len(s) - 1)[i] = s[1 + i - 1]
  BY <1>1, <1>2, SubSeqProperties
<1>5. Len(Front(s)) = Len(s) - 1
  <2>0. Len(s) = 1 \/ Len(s) >= 2
    BY <1>1, OneOrMore
  <2>1. CASE Len(s) = 1
    BY <1>3, <1>4, <2>1
  <2>2. CASE Len(s) >= 2
    <3>1. 1 <= Len(s) - 1 /\ Len(s) - 1 - 1 + 1 = Len(s) - 1
      BY <1>1, <2>2
    <3> QED
      BY <1>3, <1>4, <3>1, Zenon
  <2> QED
    BY <2>0, <2>1, <2>2
<1>6. ASSUME NEW i \in 1 .. Len(s) - 1
      PROVE  Front(s)[i] = s[i]
  <2>1. i \in 1 .. Len(s) - 1 - 1 + 1 /\ 1 + i - 1 = i
    BY <1>1
  <2> QED
    BY <1>3, <1>4, <2>1
<1> QED
  BY <1>3, <1>4, <1>5, <1>6

LEMMA PrependFacts ==
  ASSUME NEW S, NEW s \in Seq(S), NEW e \in S
  PROVE  /\ <<e>> \o s \in Seq(S)
         /\ Len(<<e>> \o s) = Len(s) + 1
         /\ (<<e>> \o s)[1] = e
         /\ \A i \in 2 .. Len(s) + 1 : (<<e>> \o s)[i] = s[i - 1]
<1>1. <<e>> \in Seq(S) /\ Len(<<e>>) = 1 /\ <<e>>[1] = e
  OBVIOUS
<1>2. Len(s) \in Nat
  OBVIOUS
<1>3. /\ <<e>> \o s \in Seq(S)
      /\ Len(<<e>> \o s) = 1 + Len(s)
      /\ \A i \in 1 .. 1 + Len(s) :
           (<<e>> \o s)[i] = IF i <= 1 THEN <<e>>[i] ELSE s[i - 1]
  BY <1>1, ConcatProperties
<1> QED
  BY <1>1, <1>2, <1>3

LEMMA AppendFacts ==
  ASSUME NEW S, NEW s \in Seq(S), NEW e \in S
  PROVE  /\ Append(s, e) \in Seq(S)
         /\ DOMAIN Append(s, e) = 1 .. Len(s) + 1
         /\ Len(Append(s, e)) = Len(s) + 1
         /\ \A i \in 1 .. Len(s) : Append(s, e)[i] = s[i]
         /\ Append(s, e)[Len(s) + 1] = e
BY AppendProperties, LenProperties

-----------------------------------------------------------------------------
(* The queue of sources.                                                   *)

Modules == {"module", "runtime", "default"}

LEMMA CurrentFacts ==
  ASSUME TypeOK, sources # <<>>
  PROVE  /\ Len(sources) \in Nat /\ Len(sources) >= 1
         /\ DOMAIN sources = 1 .. Len(sources)
         /\ Current = sources[Len(sources)]
         /\ Current \in ToSource
         /\ Len(text[Current.file]) \in Nat
         /\ Current.cursor <= Len(text[Current.file])
<1>1. sources \in Seq(ToSource)
  BY DEF TypeOK
<1>2. /\ Len(sources) \in Nat /\ Len(sources) >= 1
      /\ Current = sources[Len(sources)] /\ Current \in ToSource
  BY <1>1, LastFacts DEF Current
<1>3. DOMAIN sources = 1 .. Len(sources)
  BY <1>1, LenProperties
<1>4. Current.cursor <= Len(text[Current.file])
  BY <1>2, <1>3 DEF TypeOK
<1>5. text[Current.file] \in Seq(Files \cup {"token", "bad", "wide", "missing"})
  BY <1>2, FileAssumption DEF TypeOK, ToSource
<1> QED
  BY <1>2, <1>3, <1>4, <1>5, LenProperties

LEMMA AdvancedFacts ==
  ASSUME TypeOK, sources # <<>>
  PROVE  /\ Advanced(sources) \in Seq(ToSource)
         /\ Len(Advanced(sources)) = Len(sources)
         /\ \A i \in 1 .. Len(sources) - 1 : Advanced(sources)[i] = sources[i]
         /\ Advanced(sources)[Len(sources)].file = Current.file
         /\ Advanced(sources)[Len(sources)].module = Current.module
         /\ Advanced(sources)[Len(sources)].cursor = Current.cursor + 1
<1> DEFINE moved == [Current EXCEPT !.cursor = @ + 1]
<1>1. /\ moved \in ToSource /\ moved.file = Current.file
      /\ moved.module = Current.module /\ moved.cursor = Current.cursor + 1
  BY CurrentFacts DEF ToSource
<1>2. Advanced(sources) = [sources EXCEPT ![Len(sources)] = moved]
  BY CurrentFacts DEF Advanced
<1>3. sources \in Seq(ToSource) /\ Len(sources) \in 1 .. Len(sources)
  BY CurrentFacts DEF TypeOK
<1> HIDE DEF moved
<1>4. /\ Advanced(sources) \in Seq(ToSource)
      /\ Len(Advanced(sources)) = Len(sources)
      /\ \A j \in 1 .. Len(sources) :
           Advanced(sources)[j] = IF j = Len(sources) THEN moved ELSE sources[j]
  BY <1>1, <1>2, <1>3, ExceptSeq
<1> QED
  BY <1>1, <1>3, <1>4, CurrentFacts

LEMMA EnqueuedFacts ==
  ASSUME NEW queue \in Seq(ToSource), NEW seen, NEW f \in Files, NEW p \in Modules,
         f \notin seen
  PROVE  /\ Enqueued(queue, seen, f, p) \in Seq(ToSource)
         /\ Len(Enqueued(queue, seen, f, p)) = Len(queue) + 1
         /\ Enqueued(queue, seen, f, p)[1] = Source(f, p)
         /\ \A i \in 2 .. Len(queue) + 1 : Enqueued(queue, seen, f, p)[i] = queue[i - 1]
<1>1. Source(f, p) \in ToSource
  BY DEF Source, ToSource, Modules
<1>2. Enqueued(queue, seen, f, p) = <<Source(f, p)>> \o queue
  BY DEF Enqueued
<1> QED
  BY <1>1, <1>2, PrependFacts

LEMMA TokenFacts ==
  ASSUME TypeOK, sources # <<>>, NEW k \in {"token", "eof"}
  PROVE  /\ Token(k) \in ToToken
         /\ Token(k).file = Current.file /\ Token(k).module = Current.module
         /\ Token(k).offset = Current.cursor /\ Token(k).kind = k
BY CurrentFacts DEF Token, ToToken, ToSource

-----------------------------------------------------------------------------
(* Types.                                                                  *)

\* A queue of sources, each of them read no further than its end.
Queue(q) ==
  /\ q \in Seq(ToSource)
  /\ \A i \in 1 .. Len(q) : q[i].cursor <= Len(text[q[i].file])

LEMMA QueueOfSources ==
  ASSUME TypeOK
  PROVE  Queue(sources) /\ DOMAIN sources = 1 .. Len(sources)
BY LenProperties DEF TypeOK, Queue

LEMMA AdvancedQueue ==
  ASSUME TypeOK, sources # <<>>, ~AtEnd
  PROVE  Queue(Advanced(sources))
<1>1. Current.cursor + 1 <= Len(text[Current.file])
  BY CurrentFacts DEF AtEnd, ToSource
<1>2. ASSUME NEW i \in 1 .. Len(sources)
      PROVE  Advanced(sources)[i].cursor <= Len(text[Advanced(sources)[i].file])
  <2>1. CASE i = Len(sources)
    BY <1>1, <2>1, AdvancedFacts
  <2>2. CASE i \in 1 .. Len(sources) - 1
    BY <2>2, AdvancedFacts, QueueOfSources DEF Queue
  <2> QED
    BY <2>1, <2>2, CurrentFacts, LastOrBefore
<1> QED
  BY <1>2, AdvancedFacts DEF Queue

LEMMA EnqueuedQueue ==
  ASSUME TypeOK, NEW q, Queue(q), NEW seen, NEW f \in Files, NEW p \in Modules
  PROVE  Queue(Enqueued(q, seen, f, p))
<1> DEFINE r == Enqueued(q, seen, f, p)
<1>1. CASE f \in seen
  BY <1>1 DEF Enqueued
<1>2. CASE f \notin seen
  <2>1. q \in Seq(ToSource) /\ Len(q) \in Nat
    BY LenProperties DEF Queue
  <2>2. /\ r \in Seq(ToSource) /\ Len(r) = Len(q) + 1 /\ r[1] = Source(f, p)
        /\ \A i \in 2 .. Len(q) + 1 : r[i] = q[i - 1]
    BY <1>2, <2>1, EnqueuedFacts
  <2> HIDE DEF r
  <2>3. 0 <= Len(text[f])
    <3>1. text[f] \in Seq(Files \cup {"token", "bad", "wide", "missing"})
      BY FileAssumption DEF TypeOK
    <3> QED
      BY <3>1, LenProperties
  <2>4. ASSUME NEW i \in 1 .. Len(r)
        PROVE  r[i].cursor <= Len(text[r[i].file])
    <3>1. CASE i = 1
      BY <2>2, <2>3, <3>1 DEF Source
    <3>2. CASE i \in 2 .. Len(q) + 1
      <4>1. i - 1 \in 1 .. Len(q) /\ r[i] = q[i - 1]
        BY <2>1, <2>2, <3>2
      <4> QED
        BY <4>1 DEF Queue
    <3> QED
      BY <2>1, <2>2, <3>1, <3>2
  <2> QED
    BY <2>2, <2>4 DEF Queue, r
<1> QED
  BY <1>1, <1>2

LEMMA FrontQueue ==
  ASSUME TypeOK, sources # <<>>
  PROVE  Queue(Front(sources))
<1>1. sources \in Seq(ToSource) /\ Queue(sources) /\ Len(sources) \in Nat
  BY QueueOfSources, CurrentFacts DEF TypeOK
<1>2. ASSUME NEW i \in 1 .. Len(sources) - 1
      PROVE  Front(sources)[i].cursor <= Len(text[Front(sources)[i].file])
  <2>1. Front(sources)[i] = sources[i] /\ i \in 1 .. Len(sources)
    BY <1>1, FrontFacts
  <2> QED
    BY <1>1, <2>1 DEF Queue
<1> QED
  BY <1>1, <1>2, FrontFacts DEF Queue

LEMMA QueueTypes ==
  ASSUME Queue(sources'), text' = text
  PROVE  /\ sources' \in Seq(ToSource)
         /\ \A i \in DOMAIN sources' : sources'[i].cursor <= Len(text'[sources'[i].file])
BY LenProperties DEF Queue

LEMMA AppendedTypes ==
  ASSUME TypeOK, tokens \in Seq(ToToken), NEW t \in ToToken, tokens' = Append(tokens, t)
  PROVE  /\ tokens' \in Seq(ToToken)
         /\ \A i \in DOMAIN tokens' : tokens'[i].kind \in {"token", "eof"}
<1>1. tokens' \in Seq(ToToken)
  BY AppendFacts
<1>2. DOMAIN tokens' = 1 .. Len(tokens')
  BY <1>1, LenProperties
<1>3. \A i \in DOMAIN tokens' : tokens'[i] \in ToToken
  BY <1>1, <1>2, ElementOfSeq
<1> QED
  BY <1>1, <1>3 DEF ToToken

LEMMA TypesKept ==
  ASSUME TypeOK, tokens \in Seq(ToToken), [Next]_vars
  PROVE  TypeOK' /\ tokens' \in Seq(ToToken)
<1>1. prefix \in Modules /\ Queue(sources)
  BY QueueOfSources DEF TypeOK, Modules
<1>2. {Input, Runtime} \subseteq Files /\ {"module", "runtime"} \subseteq Modules
  BY FileAssumption DEF Modules
<1>3. CASE EnqueueInput
  <2>1. Queue(sources')
    BY <1>1, <1>2, <1>3, EnqueuedQueue DEF EnqueueInput
  <2> QED
    BY <1>3, <2>1, QueueTypes DEF EnqueueInput, TypeOK
<1>4. CASE EnqueueRuntime
  <2>1. Queue(sources')
    BY <1>1, <1>2, <1>4, EnqueuedQueue DEF EnqueueRuntime
  <2> QED
    BY <1>4, <2>1, QueueTypes DEF EnqueueRuntime, TypeOK
<1>5. CASE SkipRuntime
  BY <1>5 DEF SkipRuntime, TypeOK
<1>6. ASSUME Tokenizing
      PROVE  /\ sources # <<>> /\ Current.file \in Files
             /\ \A k \in {"token", "eof"} : Token(k) \in ToToken
  BY <1>6, CurrentFacts, TokenFacts DEF Tokenizing, ToSource
<1>7. CASE EndOfSource
  <2>1. Queue(sources')
    BY <1>6, <1>7, FrontQueue DEF EndOfSource
  <2>2. Token("eof") \in ToToken /\ Current.file \in Files
    BY <1>6, <1>7 DEF EndOfSource
  <2> QED
    BY <1>7, <2>1, <2>2, QueueTypes, AppendedTypes DEF EndOfSource, TypeOK, Read
<1>8. CASE ImportDirective
  <2>1. Queue(sources')
    BY <1>1, <1>6, <1>8, AdvancedQueue, EnqueuedQueue DEF ImportDirective
  <2>2. Current.file \in Files
    BY <1>6, <1>8 DEF ImportDirective
  <2> QED
    BY <1>8, <2>1, <2>2, QueueTypes DEF ImportDirective, TypeOK, Read
<1>9. CASE Rule
  <2>1. Queue(sources')
    BY <1>6, <1>9, AdvancedQueue DEF Rule
  <2>2. Token("token") \in ToToken /\ Current.file \in Files
    BY <1>6, <1>9 DEF Rule
  <2> QED
    BY <1>9, <2>1, <2>2, QueueTypes, AppendedTypes DEF Rule, TypeOK, Read
<1>10. CASE Unrecognized
  <2>1. Queue(sources')
    BY <1>6, <1>10, AdvancedQueue DEF Unrecognized
  <2>2. Token("bad").kind = "bad" /\ Current.file \in Files
    BY <1>6, <1>10 DEF Unrecognized, Token
  <2> QED
    BY <1>10, <2>1, <2>2, QueueTypes DEF Unrecognized, TypeOK, Read
<1>11. CASE MissingImport \/ UnrecognizedWide
  <2>1. Current.file \in Files
    BY <1>6, <1>11 DEF MissingImport, UnrecognizedWide
  <2> QED
    BY <1>11, <2>1 DEF MissingImport, UnrecognizedWide, TypeOK, Read
<1>12. CASE NoMoreSources
  BY <1>12 DEF NoMoreSources, TypeOK
<1>13. CASE UNCHANGED vars
  BY <1>13 DEF vars, TypeOK
<1> QED
  BY <1>3, <1>4, <1>5, <1>7, <1>8, <1>9, <1>10, <1>11, <1>12, <1>13 DEF Next

-----------------------------------------------------------------------------
(* The order of the files.                                                 *)

\* b may follow a in the stream.
Follows(a, b) ==
  IF a.kind = "eof" THEN NoTokenBefore(b.file, b.offset)
  ELSE a.file = b.file /\ a.module = b.module /\ a.offset < b.offset

LEMMA ContiguousMeans ==
  FilesContiguous <=> \A k \in 1 .. Len(tokens) - 1 : Follows(tokens[k], tokens[k + 1])
BY DEF FilesContiguous, Follows, NoTokenBefore

LEMMA ContiguousMeansNext ==
  ASSUME text' = text
  PROVE  FilesContiguous' <=>
           \A k \in 1 .. Len(tokens') - 1 : Follows(tokens'[k], tokens'[k + 1])
BY DEF FilesContiguous, Follows, NoTokenBefore

\* Whatever the current source delivers goes on where the stream stands.
LEMMA DeliveredContiguous ==
  ASSUME TypeOK, tokens \in Seq(ToToken), Resumed, FilesContiguous, sources # <<>>,
         NEW kind \in {"token", "eof"}, tokens' = Append(tokens, Token(kind)), text' = text
  PROVE  FilesContiguous'
<1> DEFINE n == Len(tokens)
           t == Token(kind)
<1>1. /\ t \in ToToken /\ t.file = Current.file /\ t.module = Current.module
      /\ t.offset = Current.cursor
  BY TokenFacts
<1>2. n \in Nat
  BY LenProperties
<1> HIDE DEF t
<1>3. /\ Len(tokens') = n + 1 /\ tokens'[n + 1] = t
      /\ \A i \in 1 .. n : tokens'[i] = tokens[i]
  BY <1>1, AppendFacts DEF t
<1> HIDE DEF n
<1>4. ASSUME NEW k \in 1 .. n
      PROVE  Follows(tokens'[k], tokens'[k + 1])
  <2>1. CASE k = n
    <3>1. tokens'[k] = tokens[n] /\ tokens'[k + 1] = t
      BY <1>3, <2>1
    <3>2. tokens # <<>>
      BY <1>2, EmptySeq DEF n
    <3>3. Follows(tokens[n], t)
      BY <1>1, <3>2 DEF Resumed, BetweenFiles, Follows, n
    <3> QED
      BY <3>1, <3>3
  <2>2. CASE k \in 1 .. n - 1
    <3>1. k + 1 \in 1 .. n
      BY <1>2, <2>2
    <3>2. tokens'[k] = tokens[k] /\ tokens'[k + 1] = tokens[k + 1]
      BY <1>3, <3>1
    <3> QED
      BY <2>2, <3>2, ContiguousMeans DEF n
  <2> QED
    BY <1>2, <2>1, <2>2, LastOrBefore
<1>5. Len(tokens') - 1 = n
  BY <1>2, <1>3
<1> QED
  BY <1>4, <1>5, ContiguousMeansNext

\* While it is not at its end, the current source stays the last one, be a file
\* enqueued behind it or not, and only its cursor moves.
LEMMA StillCurrent ==
  ASSUME TypeOK, sources # <<>>, Waiting,
         \/ sources' = Advanced(sources)
         \/ \E f \in Files : sources' = Enqueued(Advanced(sources), cache', f, prefix)
  PROVE  /\ sources' # <<>> /\ Waiting'
         /\ Current'.file = Current.file /\ Current'.module = Current.module
         /\ Current'.cursor = Current.cursor + 1
<1> DEFINE q == Advanced(sources)
           n == Len(sources)
<1>1. n \in Nat /\ n >= 1 /\ Len(q) = n /\ q \in Seq(ToSource)
  BY CurrentFacts, AdvancedFacts
<1>2. \A i \in 1 .. n - 1 : q[i].cursor = 0
  BY AdvancedFacts DEF Waiting
<1>3. /\ q[n].file = Current.file /\ q[n].module = Current.module
      /\ q[n].cursor = Current.cursor + 1
  BY AdvancedFacts
<1> HIDE DEF q, n
<1>4. CASE sources' = q
  <2>1. sources' # <<>> /\ Len(sources') = n
    BY <1>1, <1>4, EmptySeq
  <2>2. Current' = q[n]
    BY <1>1, <1>4 DEF Current, Last
  <2> QED
    BY <1>2, <1>3, <1>4, <2>1, <2>2 DEF Waiting
<1>5. ASSUME NEW f \in Files, f \notin cache', sources' = Enqueued(q, cache', f, prefix)
      PROVE  /\ sources' # <<>> /\ Waiting' /\ Current' = q[n]
  <2>1. prefix \in Modules
    BY DEF TypeOK, Modules
  <2>2. /\ sources' \in Seq(ToSource) /\ Len(sources') = n + 1
        /\ sources'[1] = Source(f, prefix)
        /\ \A i \in 2 .. n + 1 : sources'[i] = q[i - 1]
    <3> DEFINE r == Enqueued(q, cache', f, prefix)
    <3>1. q \in Seq(ToSource) /\ f \notin cache'
      BY <1>1, <1>5
    <3>2. /\ r \in Seq(ToSource) /\ Len(r) = Len(q) + 1
          /\ r[1] = Source(f, prefix)
          /\ \A i \in 2 .. Len(q) + 1 : r[i] = q[i - 1]
      BY <2>1, <3>1, EnqueuedFacts
    <3> HIDE DEF r
    <3>3. sources' = r
      BY <1>5 DEF r
    <3> QED
      BY <1>1, <3>2, <3>3
  <2>3. sources'[n + 1] = q[n]
    <3>1. n + 1 \in 2 .. n + 1 /\ (n + 1) - 1 = n
      BY <1>1
    <3> QED
      BY <2>2, <3>1
  <2>4. Current' = q[n]
    BY <2>2, <2>3 DEF Current, Last
  <2>5. ASSUME NEW i \in 1 .. n
        PROVE  sources'[i].cursor = 0
    <3>1. CASE i = 1
      BY <2>2, <3>1 DEF Source
    <3>2. CASE i \in 2 .. n
      <4>1. i \in 2 .. n + 1 /\ i - 1 \in 1 .. n - 1
        BY <1>1, <3>2
      <4> QED
        BY <1>2, <2>2, <4>1
    <3> QED
      BY <1>1, <3>1, <3>2
  <2>6. Len(sources') - 1 = n
    BY <1>1, <2>2
  <2>7. Waiting'
    BY <2>5, <2>6 DEF Waiting
  <2>8. sources' # <<>>
    BY <1>1, <2>2, EmptySeq
  <2> QED
    BY <2>4, <2>7, <2>8
<1>6. CASE \E f \in Files : sources' = Enqueued(q, cache', f, prefix)
  <2>1. PICK f \in Files : sources' = Enqueued(q, cache', f, prefix)
    BY <1>6
  <2>2. CASE f \in cache'
    BY <1>4, <2>1, <2>2 DEF Enqueued
  <2>3. CASE f \notin cache'
    BY <1>3, <1>5, <2>1, <2>3
  <2> QED
    BY <2>2, <2>3
<1> QED
  BY <1>4, <1>6 DEF q

\* An item that is passed by, without a token.
LEMMA PassedResumed ==
  ASSUME TypeOK, tokens \in Seq(ToToken), Waiting, Resumed,
         Tokenizing, ~AtEnd, Item # "token",
         text' = text, tokens' = tokens,
         \/ sources' = Advanced(sources)
         \/ \E f \in Files : sources' = Enqueued(Advanced(sources), cache', f, prefix)
  PROVE  Waiting' /\ Resumed'
<1>1. sources # <<>>
  BY DEF Tokenizing
<1>2. /\ sources' # <<>> /\ Waiting'
      /\ Current'.file = Current.file /\ Current'.module = Current.module
      /\ Current'.cursor = Current.cursor + 1
  BY <1>1, StillCurrent
<1>3. Current.cursor \in Nat
  BY <1>1, CurrentFacts DEF ToSource
<1>4. CASE BetweenFiles
  <2>1. NoTokenBefore(Current.file, Current.cursor)
    BY <1>1, <1>4 DEF Resumed
  <2>2. text[Current.file][Current.cursor + 1] # "token"
    BY DEF Item
  <2>3. \A j \in 1 .. Current.cursor + 1 : text[Current.file][j] # "token"
    BY <1>3, <2>1, <2>2 DEF NoTokenBefore
  <2>4. NoTokenBefore(Current.file, Current.cursor)'
    BY <1>2, <2>3 DEF NoTokenBefore
  <2>5. BetweenFiles'
    BY <1>4 DEF BetweenFiles
  <2> QED
    BY <1>2, <2>4, <2>5 DEF Resumed
<1>5. CASE ~BetweenFiles
  <2> DEFINE last == tokens[Len(tokens)]
  <2>1. ~BetweenFiles'
    BY <1>5 DEF BetweenFiles
  <2>2. last.file = Current.file /\ last.module = Current.module
    BY <1>1, <1>5 DEF Resumed
  <2>3. last.offset < Current.cursor + 1
    <3>1. last.offset < Current.cursor
      BY <1>1, <1>5 DEF Resumed
    <3>2. last \in ToToken
      BY <1>5, LastFacts DEF BetweenFiles, Last
    <3> QED
      BY <1>3, <3>1, <3>2 DEF ToToken
  <2> QED
    BY <1>2, <2>1, <2>2, <2>3 DEF Resumed
<1> QED
  BY <1>2, <1>4, <1>5

LEMMA FilesKept ==
  ASSUME Inv, [Next]_vars
  PROVE  Waiting' /\ Resumed' /\ FilesContiguous'
<1> USE DEF Inv
<1>1. CASE EnqueueInput \/ EnqueueRuntime
  <2>1. tokens = <<>> /\ tokens' = <<>> /\ text' = text
    BY <1>1 DEF Beginning, EnqueueInput, EnqueueRuntime
  <2>2. FilesContiguous'
    BY <2>1 DEF FilesContiguous
  <2>3. BetweenFiles'
    BY <2>1 DEF BetweenFiles
  <2>4. \A i \in 1 .. Len(sources') : sources'[i].cursor = 0
    <3>1. CASE EnqueueInput
      <4>1. sources = <<>>
        BY <3>1 DEF EnqueueInput, Beginning
      <4>2. sources' = <<>> \/ sources' = <<Source(Input, "module")>>
        BY <3>1, <4>1 DEF EnqueueInput, Enqueued
      <4> QED
        BY <4>2 DEF Source
    <3>2. CASE EnqueueRuntime
      <4>1. sources = <<Source(Input, "module")>>
        BY <3>2 DEF EnqueueRuntime, Beginning
      <4>2. CASE Runtime \in cache
        <5>1. sources' = sources
          BY <3>2, <4>2 DEF EnqueueRuntime, Enqueued
        <5> QED
          BY <4>1, <5>1 DEF Source
      <4>3. CASE Runtime \notin cache
        <5>1. /\ sources' = Enqueued(sources, cache, Runtime, "runtime")
              /\ sources \in Seq(ToSource) /\ Len(sources) = 1
              /\ Runtime \in Files /\ "runtime" \in Modules
          BY <3>2, <4>1, FileAssumption DEF EnqueueRuntime, TypeOK, Modules
        <5>2. /\ Len(sources') = Len(sources) + 1 /\ sources'[1] = Source(Runtime, "runtime")
              /\ \A i \in 2 .. Len(sources) + 1 : sources'[i] = sources[i - 1]
          BY <4>3, <5>1, EnqueuedFacts
        <5>3. Len(sources') = 2 /\ sources'[2] = Source(Input, "module")
          BY <4>1, <5>1, <5>2
        <5>4. sources'[1].cursor = 0 /\ sources'[2].cursor = 0
          BY <5>2, <5>3 DEF Source
        <5>5. \A i \in 1 .. Len(sources') : i = 1 \/ i = 2
          BY <5>3
        <5> QED
          BY <5>4, <5>5
      <4> QED
        BY <4>2, <4>3
    <3> QED
      BY <1>1, <3>1, <3>2
  <2>5. sources' \in Seq(ToSource)
    BY TypesKept DEF TypeOK
  <2>6. Waiting'
    BY <2>4, <2>5, LenProperties DEF Waiting
  <2>7. sources' # <<>> => Current'.cursor = 0
    <3>1. sources' # <<>> => Len(sources') \in 1 .. Len(sources')
      BY <2>5, LastFacts
    <3> QED
      BY <2>4, <3>1 DEF Current, Last
  <2>8. Resumed'
    BY <2>3, <2>7 DEF Resumed, NoTokenBefore
  <2> QED
    BY <2>2, <2>6, <2>8
<1>2. CASE SkipRuntime \/ MissingImport \/ UnrecognizedWide \/ NoMoreSources \/ UNCHANGED vars
  <2>1. UNCHANGED <<text, sources, tokens>>
    BY <1>2 DEF SkipRuntime, MissingImport, UnrecognizedWide, NoMoreSources, vars
  <2> QED
    BY <2>1 DEF Waiting, Resumed, FilesContiguous, BetweenFiles, NoTokenBefore, Current
<1>3. CASE EndOfSource
  <2>1. /\ sources # <<>> /\ sources' = Front(sources) /\ text' = text
        /\ tokens' = Append(tokens, Token("eof"))
    BY <1>3 DEF EndOfSource, Tokenizing
  <2>2. FilesContiguous'
    BY <2>1, DeliveredContiguous
  <2>3. BetweenFiles'
    <3>1. Token("eof") \in ToToken /\ Token("eof").kind = "eof"
      BY <2>1, TokenFacts
    <3>2. tokens'[Len(tokens) + 1] = Token("eof") /\ Len(tokens') = Len(tokens) + 1
      BY <2>1, <3>1, AppendFacts
    <3> QED
      BY <3>1, <3>2 DEF BetweenFiles
  <2>4. /\ Len(sources') = Len(sources) - 1 /\ sources' \in Seq(ToSource)
        /\ \A i \in 1 .. Len(sources) - 1 : sources'[i] = sources[i]
    BY <2>1, FrontFacts DEF TypeOK
  <2>5. \A i \in 1 .. Len(sources') : sources'[i].cursor = 0
    BY <2>4 DEF Waiting
  <2>6. Waiting'
    BY <2>4, <2>5, LenProperties DEF Waiting
  <2>7. sources' # <<>> => Current'.cursor = 0
    <3>1. sources' # <<>> => Len(sources') \in 1 .. Len(sources')
      BY <2>4, LastFacts
    <3> QED
      BY <2>5, <3>1 DEF Current, Last
  <2>8. Resumed'
    BY <2>3, <2>7 DEF Resumed, NoTokenBefore
  <2> QED
    BY <2>2, <2>6, <2>8
<1>4. CASE ImportDirective
  <2>1. /\ Tokenizing /\ ~AtEnd /\ Item \in Files /\ text' = text /\ tokens' = tokens
        /\ sources' = Enqueued(Advanced(sources), cache', Item, prefix)
    BY <1>4 DEF ImportDirective
  <2>2. Item # "token"
    BY <2>1, FileAssumption
  <2>3. Waiting' /\ Resumed'
    BY <2>1, <2>2, PassedResumed
  <2> QED
    BY <2>1, <2>3 DEF FilesContiguous
<1>5. CASE Rule
  <2>1. /\ sources # <<>> /\ sources' = Advanced(sources) /\ text' = text
        /\ tokens' = Append(tokens, Token("token"))
    BY <1>5 DEF Rule, Tokenizing
  <2>2. FilesContiguous'
    BY <2>1, DeliveredContiguous
  <2>3. /\ Waiting'
        /\ Current'.file = Current.file /\ Current'.module = Current.module
        /\ Current'.cursor = Current.cursor + 1
    BY <2>1, StillCurrent
  <2> DEFINE t == Token("token")
  <2>4. /\ t \in ToToken /\ t.file = Current.file /\ t.module = Current.module
        /\ t.offset = Current.cursor /\ t.kind = "token"
    BY <2>1, TokenFacts
  <2> HIDE DEF t
  <2>5. tokens'[Len(tokens')] = t /\ tokens' # <<>>
    <3>1. tokens' = Append(tokens, t)
      BY <2>1 DEF t
    <3> QED
      BY <2>4, <3>1, AppendFacts, AppendProperties
  <2>6. ~BetweenFiles'
    BY <2>4, <2>5 DEF BetweenFiles
  <2>7. Current.cursor < Current.cursor + 1
    BY <2>1, CurrentFacts DEF ToSource
  <2>8. Resumed'
    BY <2>3, <2>4, <2>5, <2>6, <2>7 DEF Resumed
  <2> QED
    BY <2>2, <2>3, <2>8
<1>6. CASE Unrecognized
  <2>1. /\ Tokenizing /\ ~AtEnd /\ Item # "token" /\ text' = text /\ tokens' = tokens
        /\ sources' = Advanced(sources)
    BY <1>6 DEF Unrecognized
  <2>2. Waiting' /\ Resumed'
    BY <2>1, PassedResumed
  <2> QED
    BY <2>1, <2>2 DEF FilesContiguous
<1> QED
  BY <1>1, <1>2, <1>3, <1>4, <1>5, <1>6 DEF Next

-----------------------------------------------------------------------------
(* The names of modules.                                                   *)

\* What a source in the queue is named after, and that names last.
Titled(q) == \A i \in 1 .. Len(q) : NamedAs(q[i].file, q[i].module)

LEMMA NamedMeans ==
  ASSUME TypeOK
  PROVE  Named <=> /\ Titled(sources)
                   /\ phase = "tokens" /\ sources # <<>> => Input \in cache \/ Current.file = Input
BY QueueOfSources DEF Named, Titled

LEMMA NamedMeansNext ==
  ASSUME TypeOK', prefix' = prefix, Titled(sources'),
         phase' = "tokens" /\ sources' # <<>> => Input \in cache' \/ Current'.file = Input
  PROVE  Named'
BY LenProperties DEF TypeOK, Named, Titled, NamedAs

LEMMA AdvancedTitled ==
  ASSUME TypeOK, sources # <<>>, Titled(sources)
  PROVE  Titled(Advanced(sources))
<1>1. Len(sources) \in Nat /\ Len(sources) >= 1
  BY CurrentFacts
<1>2. ASSUME NEW i \in 1 .. Len(sources)
      PROVE  /\ Advanced(sources)[i].file = sources[i].file
             /\ Advanced(sources)[i].module = sources[i].module
  <2>1. CASE i = Len(sources)
    BY <2>1, AdvancedFacts, CurrentFacts
  <2>2. CASE i \in 1 .. Len(sources) - 1
    BY <2>2, AdvancedFacts
  <2> QED
    BY <1>1, <2>1, <2>2, LastOrBefore
<1>3. Len(Advanced(sources)) = Len(sources)
  BY AdvancedFacts
<1> QED
  BY <1>2, <1>3 DEF Titled

LEMMA EnqueuedTitled ==
  ASSUME NEW q \in Seq(ToSource), Titled(q), NEW seen, NEW f \in Files, NEW p \in Modules,
         f \notin seen => NamedAs(f, p)
  PROVE  Titled(Enqueued(q, seen, f, p))
<1> DEFINE r == Enqueued(q, seen, f, p)
<1>1. CASE f \in seen
  BY <1>1 DEF Enqueued
<1>2. CASE f \notin seen
  <2>1. Len(q) \in Nat
    BY LenProperties
  <2>2. /\ Len(r) = Len(q) + 1 /\ r[1] = Source(f, p)
        /\ \A i \in 2 .. Len(q) + 1 : r[i] = q[i - 1]
    BY <1>2, EnqueuedFacts
  <2> HIDE DEF r
  <2>3. ASSUME NEW i \in 1 .. Len(r)
        PROVE  NamedAs(r[i].file, r[i].module)
    <3>1. CASE i = 1
      BY <1>2, <2>2, <3>1 DEF Source
    <3>2. CASE i \in 2 .. Len(q) + 1
      <4>1. i - 1 \in 1 .. Len(q) /\ r[i] = q[i - 1]
        BY <2>1, <2>2, <3>2
      <4> QED
        BY <4>1 DEF Titled
    <3> QED
      BY <2>1, <2>2, <3>1, <3>2
  <2> QED
    BY <2>3 DEF Titled, r
<1> QED
  BY <1>1, <1>2

LEMMA ModulesMeansNext ==
  ASSUME prefix' = prefix,
         \A k \in DOMAIN tokens' : NamedAs(tokens'[k].file, tokens'[k].module)
  PROVE  ModulesExplained'
BY DEF ModulesExplained, NamedAs

LEMMA DeliveredNamed ==
  ASSUME TypeOK, tokens \in Seq(ToToken), ModulesExplained, Named, sources # <<>>,
         NEW kind \in {"token", "eof"}, tokens' = Append(tokens, Token(kind)),
         prefix' = prefix
  PROVE  ModulesExplained'
<1> DEFINE n == Len(tokens)
           t == Token(kind)
<1>1. t \in ToToken /\ t.file = Current.file /\ t.module = Current.module /\ n \in Nat
  BY TokenFacts, LenProperties
<1>2. NamedAs(t.file, t.module)
  BY <1>1, CurrentFacts DEF Named
<1> HIDE DEF t
<1>3. /\ DOMAIN tokens' = 1 .. n + 1 /\ tokens'[n + 1] = t
      /\ \A i \in 1 .. n : tokens'[i] = tokens[i]
  BY <1>1, AppendFacts DEF t
<1>4. \A i \in 1 .. n : NamedAs(tokens[i].file, tokens[i].module)
  BY LenProperties DEF ModulesExplained, NamedAs
<1> HIDE DEF n
<1>5. ASSUME NEW k \in 1 .. n + 1
      PROVE  NamedAs(tokens'[k].file, tokens'[k].module)
  <2>1. k = n + 1 \/ k \in 1 .. n
    BY <1>1
  <2> QED
    BY <1>2, <1>3, <1>4, <2>1
<1> QED
  BY <1>3, <1>5, ModulesMeansNext

LEMMA NamesKept ==
  ASSUME Inv, [Next]_vars
  PROVE  Beginning' /\ Named' /\ ModulesExplained'
<1> USE DEF Inv
<1>1. TypeOK'
  BY TypesKept
<1>2. Titled(sources)
  BY NamedMeans
<1>3. CASE EnqueueInput
  <2>1. sources = <<>> /\ tokens = <<>> /\ cache = {}
    BY <1>3 DEF EnqueueInput, Beginning
  <2>2. sources' = <<Source(Input, "module")>>
    BY <1>3, <2>1 DEF EnqueueInput, Enqueued
  <2>3. Beginning'
    BY <1>3, <2>1, <2>2 DEF EnqueueInput, Beginning
  <2>4. Named'
    BY <1>3, <2>2 DEF EnqueueInput, Named, NamedAs, Source
  <2>5. ModulesExplained'
    BY <1>3, <2>1 DEF EnqueueInput, ModulesExplained
  <2> QED
    BY <2>3, <2>4, <2>5
<1>4. CASE EnqueueRuntime
  <2>1. tokens' = <<>> /\ phase' = "tokens" /\ prefix' = "runtime"
    BY <1>4 DEF EnqueueRuntime, Beginning
  <2>2. /\ Runtime \notin cache
        /\ sources' = Enqueued(sources, cache, Runtime, "runtime")
    BY <1>4 DEF EnqueueRuntime, Beginning
  <2>3. /\ sources \in Seq(ToSource) /\ Len(sources) = 1 /\ sources[1] = Source(Input, "module")
        /\ Runtime \in Files /\ "runtime" \in Modules
    <3>1. sources = <<Source(Input, "module")>>
      BY <1>4 DEF EnqueueRuntime, Beginning
    <3> QED
      BY <3>1, FileAssumption DEF TypeOK, Modules
  <2>4. /\ Len(sources') = Len(sources) + 1 /\ sources'[1] = Source(Runtime, "runtime")
        /\ \A i \in 2 .. Len(sources) + 1 : sources'[i] = sources[i - 1]
    BY <2>2, <2>3, EnqueuedFacts
  <2>5. Len(sources') = 2 /\ sources'[2] = Source(Input, "module")
    BY <2>3, <2>4
  <2>6. \A i \in DOMAIN sources' : i = 1 \/ i = 2
    BY <1>1, <2>5, LenProperties DEF TypeOK
  <2>7. (\A i \in DOMAIN sources : NamedAs(sources[i].file, sources[i].module))'
    BY <2>1, <2>4, <2>5, <2>6 DEF NamedAs, Source
  <2>8. Current'.file = Input
    BY <2>5 DEF Current, Last, Source
  <2>9. Named'
    BY <2>7, <2>8 DEF Named
  <2> QED
    BY <2>1, <2>9 DEF Beginning, ModulesExplained
<1>5. CASE SkipRuntime
  <2>1. sources = <<Source(Input, "module")>> /\ tokens = <<>>
    BY <1>5 DEF SkipRuntime, Beginning
  <2>2. Current'.file = Input
    BY <1>5, <2>1 DEF SkipRuntime, Current, Last, Source
  <2>3. Named'
    BY <1>1, <1>2, <1>5, <2>2, NamedMeansNext DEF SkipRuntime
  <2> QED
    BY <1>5, <2>1, <2>3 DEF SkipRuntime, Beginning, ModulesExplained
<1>6. ASSUME Tokenizing
      PROVE  /\ sources # <<>> /\ phase = "tokens" /\ prefix \in Modules
             /\ Input \in cache \cup {Current.file}
  BY <1>6, NamedMeans DEF Tokenizing, TypeOK, Modules
<1>7. CASE EndOfSource
  <2>1. /\ sources # <<>> /\ sources' = Front(sources) /\ prefix' = prefix /\ phase' = phase
        /\ phase = "tokens" /\ Input \in cache' /\ tokens' = Append(tokens, Token("eof"))
    BY <1>6, <1>7 DEF EndOfSource, Read
  <2>2. /\ Len(sources') = Len(sources) - 1
        /\ \A i \in 1 .. Len(sources) - 1 : sources'[i] = sources[i]
    BY <2>1, FrontFacts DEF TypeOK
  <2>3. Len(sources) \in Nat
    BY <2>1, CurrentFacts
  <2>4. Titled(sources')
    BY <1>2, <2>2, <2>3 DEF Titled
  <2> QED
    BY <1>1, <2>1, <2>4, NamedMeansNext, DeliveredNamed DEF Beginning
<1>8. CASE ImportDirective
  <2>1. /\ sources # <<>> /\ prefix' = prefix /\ phase' = phase /\ phase = "tokens"
        /\ Input \in cache' /\ tokens' = tokens /\ prefix \in Modules /\ Item \in Files
        /\ sources' = Enqueued(Advanced(sources), cache', Item, prefix)
    BY <1>6, <1>8 DEF ImportDirective, Read
  <2>2. Item \notin cache' => NamedAs(Item, prefix)
    BY <2>1 DEF NamedAs
  <2>3. Titled(Advanced(sources)) /\ Advanced(sources) \in Seq(ToSource)
    BY <1>2, <2>1, AdvancedTitled, AdvancedFacts
  <2>4. Titled(sources')
    BY <2>1, <2>2, <2>3, EnqueuedTitled
  <2> QED
    BY <1>1, <2>1, <2>4, NamedMeansNext DEF Beginning, ModulesExplained
<1>9. CASE Rule
  <2>1. /\ sources # <<>> /\ sources' = Advanced(sources) /\ prefix' = prefix /\ phase' = phase
        /\ phase = "tokens" /\ Input \in cache' /\ tokens' = Append(tokens, Token("token"))
    BY <1>6, <1>9 DEF Rule, Read
  <2> QED
    BY <1>1, <1>2, <2>1, AdvancedTitled, NamedMeansNext, DeliveredNamed DEF Beginning
<1>10. CASE Unrecognized
  <2>1. /\ sources # <<>> /\ sources' = Advanced(sources) /\ prefix' = prefix /\ phase' = phase
        /\ phase = "tokens" /\ Input \in cache' /\ tokens' = tokens
    BY <1>6, <1>10 DEF Unrecognized, Read
  <2> QED
    BY <1>1, <1>2, <2>1, AdvancedTitled, NamedMeansNext DEF Beginning, ModulesExplained
<1>11. CASE MissingImport \/ UnrecognizedWide \/ NoMoreSources
  <2>1. /\ UNCHANGED <<sources, prefix, tokens>> /\ phase' \in {"panicked", "no_file", "done"}
    BY <1>11 DEF MissingImport, UnrecognizedWide, NoMoreSources
  <2> QED
    BY <1>1, <1>2, <2>1, NamedMeansNext DEF Beginning, ModulesExplained
<1>12. CASE UNCHANGED vars
  BY <1>12 DEF vars, Beginning, Named, NamedAs, ModulesExplained, Current
<1> QED
  BY <1>3, <1>4, <1>5, <1>7, <1>8, <1>9, <1>10, <1>11, <1>12 DEF Next

-----------------------------------------------------------------------------
(* The theorems.                                                           *)

LEMMA InvHolds == Spec => []Inv
<1>1. Init => Inv
  <2>1. ASSUME Init
        PROVE  TypeOK
    BY <2>1, EmptySeq, FileAssumption DEF Init, TypeOK
  <2> QED
    BY <2>1, EmptySeq
       DEF Init, Inv, Waiting, Beginning, Resumed, FilesContiguous, Named, ModulesExplained
<1>2. Inv /\ [Next]_vars => Inv'
  BY TypesKept, FilesKept, NamesKept DEF Inv
<1> QED
  BY <1>1, <1>2, PTL DEF Spec

\* Every variable of the tokenizer keeps its type, and no source is read past its
\* end (Source::content_from_cursor, jswt-tokenizer/src/source.rs:30, would panic).
THEOREM TypeCorrect == Spec => []TypeOK
<1>1. Inv => TypeOK
  BY DEF Inv
<1> QED
  BY <1>1, InvHolds, PTL

\* The tokens of a file are delivered one after the other, and those of no other
\* file between them, whatever is enqueued while it is read: insertion at the
\* bottom of the queue (jswt-tokenizer/src/lib.rs:313) disturbs nothing.
THEOREM FilesStayWhole == Spec => []FilesContiguous
<1>1. Inv => FilesContiguous
  BY DEF Inv
<1> QED
  BY <1>1, InvHolds, PTL

\* A module is named after the last root and prefix main sets, but for the user's
\* file, which is read, and so cached, before any import is met.
THEOREM ModulesNamed == Spec => []ModulesExplained
<1>1. Inv => ModulesExplained
  BY DEF Inv
<1> QED
  BY <1>1, InvHolds, PTL

-----------------------------------------------------------------------------
(***************************************************************************)
(* For any files, texts and imports, the tokenizer sees all that can be     *)
(* reached from the files main enqueues, and nothing else: AllTokenized.    *)
(***************************************************************************)

FilesIn(q) == {q[i].file : i \in 1 .. Len(q)}

\* The files that have been read or are going to be.
Known == cache \cup FilesIn(sources)

\* Item i of file f has been dealt with.
Dealt(f, i) ==
  /\ text[f][i] \in Files => text[f][i] \in Known
  /\ text[f][i] = "token" =>
       \E k \in DOMAIN tokens : tokens[k].file = f /\ tokens[k].offset = i - 1
  /\ text[f][i] = "bad" => \E e \in errors : e.file = f /\ e.offset = i - 1

\* So have the first n items of it.
Seen(f, n) == \A i \in DOMAIN text[f] : i <= n => Dealt(f, i)
Whole(f) == \A i \in DOMAIN text[f] : Dealt(f, i)

\* A file that has been read is seen whole, unless it is the current one, which
\* is seen as far as its cursor.
Progress ==
  /\ \A f \in cache : Whole(f) \/ (sources # <<>> /\ Current.file = f)
  /\ sources # <<>> => Seen(Current.file, Current.cursor)

\* What is known lies between the roots and all that can be reached from them.
Between ==
  /\ roots \subseteq Known
  /\ \A S \in SUBSET Files : roots \subseteq S /\ Closed(S) => Known \subseteq S

Ended == phase = "done" => sources = <<>>

Coverage == Progress /\ Between /\ Ended

-----------------------------------------------------------------------------
(* The files in the queue.                                                  *)

LEMMA KnownFiles ==
  ASSUME TypeOK
  PROVE  /\ Known \subseteq Files
         /\ sources # <<>> => Current.file \in Known /\ Current.file \in Files
<1>1. \A i \in 1 .. Len(sources) : sources[i] \in ToSource
  BY QueueOfSources, ElementOfSeq DEF TypeOK
<1>2. FilesIn(sources) \subseteq Files
  BY <1>1 DEF FilesIn, ToSource
<1>3. sources # <<>> => Current.file \in FilesIn(sources)
  BY CurrentFacts DEF FilesIn
<1> QED
  BY <1>2, <1>3 DEF Known, TypeOK

LEMMA AdvancedFiles ==
  ASSUME TypeOK, sources # <<>>
  PROVE  FilesIn(Advanced(sources)) = FilesIn(sources)
<1>1. Len(sources) \in Nat /\ Len(sources) >= 1 /\ Current = sources[Len(sources)]
  BY CurrentFacts
<1>2. \A i \in 1 .. Len(sources) : Advanced(sources)[i].file = sources[i].file
  BY <1>1, AdvancedFacts, LastOrBefore
<1> QED
  BY <1>2, AdvancedFacts DEF FilesIn

LEMMA EnqueuedFiles ==
  ASSUME NEW q \in Seq(ToSource), NEW seen, NEW f \in Files, NEW p \in Modules
  PROVE  FilesIn(Enqueued(q, seen, f, p)) \cup seen = FilesIn(q) \cup seen \cup {f}
<1>1. CASE f \in seen
  BY <1>1 DEF Enqueued
<1>2. CASE f \notin seen
  <2> DEFINE r == Enqueued(q, seen, f, p)
  <2>1. /\ Len(q) \in Nat /\ Len(r) = Len(q) + 1 /\ r[1] = Source(f, p)
        /\ \A i \in 2 .. Len(q) + 1 : r[i] = q[i - 1]
    BY <1>2, EnqueuedFacts, LenProperties
  <2> HIDE DEF r
  <2>2. r[1].file = f /\ 1 \in 1 .. Len(r)
    BY <2>1 DEF Source
  <2>3. \A i \in 1 .. Len(r) : i = 1 \/ \E j \in 1 .. Len(q) : r[i] = q[j]
    <3>1. \A i \in 1 .. Len(r) : i = 1 \/ (i - 1 \in 1 .. Len(q) /\ r[i] = q[i - 1])
      BY <2>1
    <3> QED
      BY <3>1
  <2>4. \A i \in 1 .. Len(q) : \E j \in 1 .. Len(r) : r[j] = q[i]
    <3>1. \A i \in 1 .. Len(q) : i + 1 \in 1 .. Len(r) /\ r[i + 1] = q[i]
      BY <2>1
    <3> QED
      BY <3>1
  <2>5. FilesIn(r) \subseteq FilesIn(q) \cup {f}
    BY <2>2, <2>3 DEF FilesIn
  <2>6. FilesIn(q) \subseteq FilesIn(r)
    <3>1. ASSUME NEW i \in 1 .. Len(q)
          PROVE  q[i].file \in FilesIn(r)
      <4>1. PICK j \in 1 .. Len(r) : r[j] = q[i]
        BY <2>4
      <4> QED
        BY <4>1 DEF FilesIn
    <3> QED
      BY <3>1 DEF FilesIn
  <2>7. f \in FilesIn(r)
    BY <2>2 DEF FilesIn
  <2> QED
    BY <2>5, <2>6, <2>7 DEF r
<1> QED
  BY <1>1, <1>2

LEMMA FrontFiles ==
  ASSUME TypeOK, sources # <<>>
  PROVE  FilesIn(sources) = FilesIn(Front(sources)) \cup {Current.file}
<1>1. /\ Len(sources) \in Nat /\ Len(sources) >= 1 /\ Current = sources[Len(sources)]
      /\ Len(Front(sources)) = Len(sources) - 1
      /\ \A i \in 1 .. Len(sources) - 1 : Front(sources)[i] = sources[i]
  BY CurrentFacts, FrontFacts DEF TypeOK
<1> QED
  BY <1>1, LastOrBefore DEF FilesIn

\* An item of the current source that is an import can be reached with its file.
LEMMA ItemImported ==
  ASSUME TypeOK, sources # <<>>, ~AtEnd, Item \in Files
  PROVE  Item \in ImportsOf(Current.file)
<1>1. /\ text[Current.file] \in Seq(Files \cup {"token", "bad", "wide", "missing"})
      /\ Current.cursor \in Nat
  BY CurrentFacts, FileAssumption DEF TypeOK, ToSource
<1>2. Current.cursor + 1 \in DOMAIN text[Current.file]
  BY <1>1, CurrentFacts, LenProperties DEF AtEnd
<1> QED
  BY <1>2 DEF Item, ImportsOf

-----------------------------------------------------------------------------
(* One step.                                                                *)

\* The queue and the stream only grow with respect to what is known of them.
Grows ==
  /\ text' = text
  /\ Known \subseteq Known'
  /\ errors \subseteq errors'
  /\ \A k \in DOMAIN tokens : k \in DOMAIN tokens' /\ tokens'[k] = tokens[k]

LEMMA DealtStays ==
  ASSUME Grows, NEW f, NEW i, Dealt(f, i)
  PROVE  Dealt(f, i)'
BY DEF Grows, Dealt

LEMMA WholeStays ==
  ASSUME Grows
  PROVE  /\ \A f : Whole(f) => Whole(f)'
         /\ \A f, n : Seen(f, n) => Seen(f, n)'
BY DealtStays DEF Grows, Whole, Seen

LEMMA TokensGrow ==
  ASSUME tokens \in Seq(ToToken), NEW t \in ToToken, tokens' = Append(tokens, t)
  PROVE  /\ \A k \in DOMAIN tokens : k \in DOMAIN tokens' /\ tokens'[k] = tokens[k]
         /\ \E k \in DOMAIN tokens' : tokens'[k] = t
<1>1. DOMAIN tokens = 1 .. Len(tokens) /\ Len(tokens) \in Nat
  BY LenProperties
<1> QED
  BY <1>1, AppendFacts

\* One item of the current source, that at its cursor c, is passed and dealt with.
LEMMA PassedProgress ==
  ASSUME Inv, Progress, Grows, Tokenizing, Read,
         \/ sources' = Advanced(sources)
         \/ \E g \in Files : sources' = Enqueued(Advanced(sources), cache', g, prefix),
         NEW f, f = Current.file, NEW c, c = Current.cursor, Dealt(f, c + 1)'
  PROVE  Progress'
<1>1. TypeOK /\ Waiting /\ sources # <<>> /\ c \in Nat
  BY CurrentFacts DEF Inv, Tokenizing, ToSource
<1>2. sources' # <<>> /\ Current'.file = f /\ Current'.cursor = c + 1
  BY <1>1, StillCurrent
<1>3. Seen(f, c)'
  BY <1>1, WholeStays DEF Progress
<1>4. f \in Files /\ DOMAIN text'[f] \subseteq Nat
  <2>1. f \in Files /\ text[f] \in Seq(Files \cup {"token", "bad", "wide", "missing"}) /\ text' = text
    BY <1>1, KnownFiles, FileAssumption DEF TypeOK, Grows
  <2> QED
    BY <2>1, LenProperties
<1>5. Seen(f, c + 1)'
  <2>1. \A i \in DOMAIN text'[f] : i <= c + 1 => i <= c \/ i = c + 1
    BY <1>1, <1>4
  <2> QED
    BY <1>3, <2>1 DEF Seen
<1>6. \A g \in cache' : Whole(g)' \/ f = g
  BY <1>1, WholeStays DEF Progress, Read
<1> QED
  BY <1>2, <1>5, <1>6 DEF Progress

LEMMA PassedCoverage ==
  ASSUME Inv, [Next]_vars, Coverage
  PROVE  Coverage'
<1>1. TypeOK /\ TypeOK' /\ tokens \in Seq(ToToken) /\ Waiting /\ Beginning
  BY TypesKept DEF Inv
<1> USE DEF Coverage
<1>2. CASE EnqueueInput
  <2>1. /\ sources = <<>> /\ cache = {} /\ cache' = {} /\ text' = text /\ phase' = "runtime"
        /\ roots' = {Input} /\ sources' = <<Source(Input, "module")>>
    BY <1>1, <1>2 DEF EnqueueInput, Beginning, Enqueued
  <2>2. Known' = {Input} /\ Current'.cursor = 0 /\ Current'.file = Input
    BY <2>1 DEF Known, FilesIn, Source, Current, Last
  <2>3. Seen(Input, 0)'
    <3>1. text'[Input] \in Seq(Files \cup {"token", "bad", "wide", "missing"})
      BY <1>1, FileAssumption DEF TypeOK
    <3>2. \A i \in DOMAIN text'[Input] : ~(i <= 0)
      BY <3>1, LenProperties
    <3> QED
      BY <3>2 DEF Seen
  <2>4. Progress'
    BY <2>1, <2>2, <2>3 DEF Progress
  <2> QED
    BY <2>1, <2>2, <2>4 DEF Between, Ended
<1>3. CASE EnqueueRuntime
  <2>1. /\ sources = <<Source(Input, "module")>> /\ cache = {} /\ cache' = {}
        /\ text' = text /\ phase' = "tokens" /\ roots' = roots \cup {Runtime}
        /\ sources' = <<Source(Runtime, "runtime")>> \o sources
    BY <1>1, <1>3 DEF EnqueueRuntime, Beginning, Enqueued
  <2>2. /\ Len(sources') = 2 /\ sources'[1] = Source(Runtime, "runtime")
        /\ sources'[2] = Source(Input, "module")
    <3>1. /\ sources \in Seq(ToSource) /\ Len(sources) = 1 /\ sources[1] = Source(Input, "module")
          /\ Source(Runtime, "runtime") \in ToSource
      BY <1>1, <2>1, FileAssumption DEF TypeOK, Source, ToSource
    <3> QED
      BY <2>1, <3>1, PrependFacts
  <2>3. /\ Known = {Input} /\ Known' = {Input, Runtime}
        /\ Current'.cursor = 0 /\ Current'.file = Input
    <3>1. \A i : i \in 1 .. 2 <=> i = 1 \/ i = 2
      OBVIOUS
    <3> QED
      BY <2>1, <2>2, <3>1 DEF Known, FilesIn, Source, Current, Last
  <2>4. Seen(Input, 0)'
    <3>1. text'[Input] \in Seq(Files \cup {"token", "bad", "wide", "missing"})
      BY <1>1, FileAssumption DEF TypeOK
    <3>2. \A i \in DOMAIN text'[Input] : ~(i <= 0)
      BY <3>1, LenProperties
    <3> QED
      BY <3>2 DEF Seen
  <2>5. Progress'
    BY <2>1, <2>3, <2>4 DEF Progress
  <2>6. Between'
    BY <2>1, <2>3 DEF Between, Closed, ImportsOf
  <2> QED
    BY <2>1, <2>5, <2>6 DEF Ended
<1>4. CASE SkipRuntime
  <2>1. UNCHANGED <<text, sources, cache, roots, tokens, errors>> /\ phase' = "tokens"
    BY <1>4 DEF SkipRuntime
  <2> QED
    BY <2>1
       DEF Progress, Between, Ended, Known, Whole, Seen, Dealt, Current, Closed, ImportsOf
<1>5. ASSUME Tokenizing
      PROVE  /\ sources # <<>> /\ phase = "tokens"
             /\ Current.file \in Known /\ Current.file \in Files
  BY <1>1, <1>5, KnownFiles DEF Tokenizing
<1> DEFINE f == Current.file
           c == Current.cursor
<1>6. CASE EndOfSource
  <2>1. /\ sources # <<>> /\ sources' = Front(sources) /\ cache' = cache \cup {f}
        /\ tokens' = Append(tokens, Token("eof")) /\ Token("eof") \in ToToken
        /\ UNCHANGED <<text, roots, errors>> /\ phase' = "tokens"
    BY <1>1, <1>5, <1>6, TokenFacts DEF EndOfSource, Read
  <2>2. Known' = Known
    BY <1>1, <2>1, FrontFiles DEF Known
  <2>3. Grows
    BY <1>1, <2>1, <2>2, TokensGrow DEF Grows
  <2>4. PICK g : g = f
    OBVIOUS
  <2>5. Whole(g)'
    <3>1. Seen(g, Current.cursor)
      BY <2>1, <2>4 DEF Progress
    <3>2. /\ DOMAIN text[g] = 1 .. Len(text[g]) /\ Current.cursor >= Len(text[g])
          /\ Len(text[g]) \in Nat /\ Current.cursor \in Nat
      <4>1. text[g] \in Seq(Files \cup {"token", "bad", "wide", "missing"})
        BY <1>1, <1>5, <1>6, <2>4, FileAssumption DEF TypeOK, EndOfSource
      <4> QED
        BY <1>1, <1>6, <2>1, <2>4, <4>1, CurrentFacts, LenProperties
           DEF EndOfSource, AtEnd, ToSource
    <3>3. Whole(g)
      BY <3>1, <3>2 DEF Seen, Whole
    <3> QED
      BY <2>3, <3>3, WholeStays
  <2>6. \A h \in cache' : Whole(h)'
    BY <2>1, <2>3, <2>4, <2>5, WholeStays DEF Progress
  <2>7. sources' # <<>> => Current'.cursor = 0
    <3>1. /\ Len(sources') = Len(sources) - 1 /\ sources' \in Seq(ToSource)
          /\ \A i \in 1 .. Len(sources) - 1 : sources'[i] = sources[i]
      BY <1>1, <2>1, FrontFacts DEF TypeOK
    <3>2. sources' # <<>> => Len(sources') \in 1 .. Len(sources) - 1
      BY <3>1, LastFacts
    <3> QED
      BY <1>1, <3>1, <3>2 DEF Waiting, Current, Last
  <2>8. sources' # <<>> => Seen(Current.file, Current.cursor)'
    <3> SUFFICES ASSUME sources' # <<>>
                 PROVE  Seen(Current.file, Current.cursor)'
      OBVIOUS
    <3>1. Current'.file \in Files
      <4>1. sources' \in Seq(ToSource)
        BY <1>1 DEF TypeOK
      <4>2. Current' \in ToSource
        BY <4>1, LastFacts DEF Current
      <4> QED
        BY <4>2 DEF ToSource
    <3>2. text'[Current'.file] \in Seq(Files \cup {"token", "bad", "wide", "missing"})
      BY <1>1, <3>1, FileAssumption DEF TypeOK
    <3>3. \A i \in DOMAIN text'[Current'.file] : ~(i <= 0)
      BY <3>2, LenProperties
    <3> QED
      BY <2>7, <3>3 DEF Seen
  <2>9. Progress'
    BY <2>6, <2>8 DEF Progress
  <2>10. Between'
    BY <2>1, <2>2 DEF Between, Closed, ImportsOf
  <2> QED
    BY <2>1, <2>9, <2>10 DEF Ended
<1>7. CASE ImportDirective
  <2>1. /\ Tokenizing /\ Read /\ Item \in Files /\ ~AtEnd
        /\ sources' = Enqueued(Advanced(sources), cache', Item, prefix)
        /\ UNCHANGED <<text, phase, roots, tokens, errors>>
    BY <1>7 DEF ImportDirective
  <2>2. Known' = Known \cup {Item}
    <3>1. Advanced(sources) \in Seq(ToSource) /\ prefix \in Modules
      BY <1>1, <1>5, <2>1, AdvancedFacts DEF TypeOK, Modules
    <3>2. FilesIn(sources') \cup cache' = FilesIn(sources) \cup cache' \cup {Item}
      BY <1>1, <1>5, <2>1, <3>1, EnqueuedFiles, AdvancedFiles
    <3> QED
      BY <1>5, <2>1, <3>2 DEF Known, Read
  <2>3. Grows
    BY <2>1, <2>2 DEF Grows
  <2>4. Item = text[f][c + 1] /\ Item \notin {"token", "bad"}
    BY <2>1, FileAssumption DEF Item
  <2>5. PICK g, d : g = f /\ d = c
    OBVIOUS
  <2>6. Dealt(g, d + 1)'
    BY <2>1, <2>2, <2>4, <2>5 DEF Dealt
  <2>7. Progress'
    BY <2>1, <2>3, <2>5, <2>6, PassedProgress
  <2>8. Item \in ImportsOf(f) /\ f \in Known
    BY <1>1, <1>5, <2>1, ItemImported
  <2>9. Between'
    BY <2>1, <2>2, <2>8 DEF Between, Closed, ImportsOf
  <2> QED
    BY <1>5, <2>1, <2>7, <2>9 DEF Ended
<1>8. CASE Rule \/ Unrecognized
  <2>1. /\ Tokenizing /\ Read /\ ~AtEnd /\ sources' = Advanced(sources)
        /\ UNCHANGED <<text, phase, roots>>
    BY <1>8 DEF Rule, Unrecognized
  <2>2. Known' = Known
    BY <1>1, <1>5, <2>1, AdvancedFiles DEF Known, Read
  <2>3. PICK g, d : g = f /\ d = c
    OBVIOUS
  <2>4. d \in Nat
    BY <1>1, <1>5, <2>1, <2>3, CurrentFacts DEF ToSource
  <2>5. Grows /\ Dealt(g, d + 1)'
    <3>1. CASE Rule
      <4>1. /\ Token("token") \in ToToken /\ Token("token").file = f
            /\ Token("token").offset = c /\ Item = "token"
            /\ tokens' = Append(tokens, Token("token")) /\ errors' = errors
        BY <1>1, <1>5, <3>1, TokenFacts DEF Rule
      <4>2. Grows
        BY <1>1, <2>1, <2>2, <4>1, TokensGrow DEF Grows
      <4>3. \E k \in DOMAIN tokens' : tokens'[k].file = g /\ tokens'[k].offset = (d + 1) - 1
        BY <1>1, <2>3, <2>4, <4>1, TokensGrow
      <4>4. text'[g][d + 1] = "token" /\ text'[g][d + 1] # "bad" /\ text'[g][d + 1] \notin Files
        BY <2>1, <2>3, <4>1, FileAssumption DEF Item
      <4>5. Dealt(g, d + 1)'
        BY <4>3, <4>4, Zenon DEF Dealt
      <4> QED
        BY <4>2, <4>5
    <3>2. CASE Unrecognized
      <4>1. /\ tokens' = tokens /\ errors' = errors \cup {Token("bad")} /\ Item = "bad"
            /\ Token("bad").file = f /\ Token("bad").offset = c
        BY <3>2 DEF Unrecognized, Token
      <4>2. Grows
        BY <2>1, <2>2, <4>1 DEF Grows
      <4>3. \E e \in errors' : e.file = g /\ e.offset = (d + 1) - 1
        BY <2>3, <2>4, <4>1
      <4>4. text'[g][d + 1] = "bad" /\ text'[g][d + 1] # "token" /\ text'[g][d + 1] \notin Files
        BY <2>1, <2>3, <4>1, FileAssumption DEF Item
      <4>5. Dealt(g, d + 1)'
        BY <4>3, <4>4, Zenon DEF Dealt
      <4> QED
        BY <4>2, <4>5
    <3> QED
      BY <1>8, <3>1, <3>2
  <2>6. Progress'
    BY <2>1, <2>3, <2>5, PassedProgress
  <2>7. Between'
    BY <2>1, <2>2 DEF Between, Closed, ImportsOf
  <2> QED
    BY <1>5, <2>1, <2>6, <2>7 DEF Ended
<1>9. CASE MissingImport \/ UnrecognizedWide
  <2>1. /\ Tokenizing /\ Read /\ phase' \in {"panicked", "no_file"}
        /\ UNCHANGED <<text, sources, roots, tokens, errors>>
    BY <1>9 DEF MissingImport, UnrecognizedWide
  <2>2. Known' = Known
    BY <1>5, <2>1 DEF Known, Read
  <2>3. Grows
    BY <2>1, <2>2 DEF Grows
  <2>4. Progress'
    BY <1>5, <2>1, <2>3, WholeStays DEF Progress, Read, Current
  <2> QED
    BY <2>1, <2>2, <2>4 DEF Between, Ended, Closed, ImportsOf
<1>10. CASE NoMoreSources
  <2>1. UNCHANGED <<text, sources, cache, roots, tokens, errors>> /\ sources = <<>>
    BY <1>10 DEF NoMoreSources
  <2> QED
    BY <2>1
       DEF Progress, Between, Ended, Known, Whole, Seen, Dealt, Current, Closed, ImportsOf
<1>11. CASE UNCHANGED vars
  BY <1>11
     DEF vars, Progress, Between, Ended, Known, Whole, Seen, Dealt, Current, Closed, ImportsOf
<1> QED
  BY <1>2, <1>3, <1>4, <1>6, <1>7, <1>8, <1>9, <1>10, <1>11 DEF Next

LEMMA CoverageMeans ==
  ASSUME TypeOK, Coverage
  PROVE  AllTokenized
<1> SUFFICES ASSUME phase = "done"
             PROVE  cache = Reach(roots) /\ \A f \in cache : Whole(f)
  BY DEF AllTokenized, Whole, Dealt
<1>1. sources = <<>>
  BY DEF Coverage, Ended
<1>2. FilesIn(sources) = {}
  BY <1>1 DEF FilesIn
<1>3. Known = cache /\ cache \subseteq Files
  BY <1>2 DEF Known, TypeOK
<1>4. \A f \in cache : Whole(f)
  BY <1>1 DEF Coverage, Progress
<1>5. Closed(cache)
  BY <1>3, <1>4 DEF Closed, ImportsOf, Whole, Dealt
<1>6. Reach(roots) \subseteq cache
  BY <1>3, <1>5 DEF Reach, Coverage, Between
<1>7. cache \subseteq Reach(roots)
  BY <1>3 DEF Reach, Coverage, Between
<1> QED
  BY <1>4, <1>6, <1>7

-----------------------------------------------------------------------------
\* When the parser has had the last token, every file that imports lead to from
\* the user's file and the runtime has been read, and no other, and none of their
\* tokens and errors is missing, although a file may be imported again while it is
\* in the queue or by itself (the test of FILE_CACHE before the insertion,
\* jswt-tokenizer/src/lib.rs:277 and 302).
THEOREM EverythingTokenized == Spec => []AllTokenized
<1>1. Init => Coverage
  BY DEF Init, Coverage, Progress, Between, Ended, Known, FilesIn
<1>2. Inv /\ [Next]_vars /\ Coverage => Coverage'
  BY PassedCoverage
<1>3. Inv /\ Coverage => AllTokenized
  BY CoverageMeans DEF Inv
<1> QED
  BY <1>1, <1>2, <1>3, InvHolds, PTL DEF Spec
=============================================================================
