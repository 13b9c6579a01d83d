---------------------------- MODULE SpokenAnswer ----------------------------
(***************************************************************************)
(* An answer is spoken while the model still writes it: the tokens are cut *)
(* into clauses, and each clause is sent to the voice at once.  The first  *)
(* clause is to cut off what the voice is still saying, the others are to  *)
(* be appended.                                                            *)
(*                                                                         *)
(* A text is a sequence of characters: "w" (of a word), "_" (a space), "." *)
(* (the end of a sentence), "q" (a closing quote), "," (a soft break).     *)
(***************************************************************************)
EXTENDS Integers, Sequences, FiniteSets, SequencesExt

CONSTANTS
  Deltas,            \* what the model may send at a time
  MaxLength,         \* the longest answer
  MIN_FIRST_CHARS, MIN_CHARS, MAX_CHARS

VARIABLES
  text,              \* what the model has written
  buf,               \* the chunker's buffer
  chunks,            \* the clauses it has cut
  calls,             \* the calls that were made: [clause, append, heard]
  voice,             \* what the voice has to say
  pc

vars == <<text, buf, chunks, calls, voice, pc>>

Spaces(s) == {i \in DOMAIN s : s[i] = "_"}

\* str.strip, str.lstrip.
LStrip(s) ==
  LET keep == DOMAIN s \ Spaces(s)
  IN IF keep = {} THEN <<>> ELSE SubSeq(s, CHOOSE i \in keep : \A j \in keep : i <= j, Len(s))
Strip(s) == Reverse(LStrip(Reverse(LStrip(s))))

Least(S) == CHOOSE x \in S : \A y \in S : x <= y
Greatest(S) == CHOOSE x \in S : \A y \in S : x >= y

\* _SENTENCE_END: the next character has arrived, and is a space or a quote.
SentenceEnds(b) == {i \in DOMAIN b : b[i] = "." /\ i < Len(b) /\ b[i + 1] \in {"_", "q"}}

\* _SOFT_BREAK.
SoftBreaks(b) == {i \in DOMAIN b : b[i] = "," /\ i < Len(b) /\ b[i + 1] = "_"}

\* _find_cut: how many characters to cut, or 0.
FindCut(b, emitted) ==
  LET floor == IF emitted = 0 THEN MIN_FIRST_CHARS ELSE MIN_CHARS
      ends == {i \in SentenceEnds(b) : i >= floor}
      soft == {i \in SoftBreaks(b) : i >= floor}
      gaps == {i \in Spaces(b) : i <= MAX_CHARS}
  IN IF ends # {} THEN Least(ends)
     ELSE IF emitted = 0 /\ soft # {} THEN Least(soft)
     ELSE IF Len(b) >= MAX_CHARS /\ gaps # {} /\ Greatest(gaps) - 1 > floor THEN Greatest(gaps) - 1
     ELSE 0

\* SentenceChunker.push: the clauses that became speakable, and what is left.
RECURSIVE Push(_, _, _)
Push(b, emitted, out) ==
  LET cut == FindCut(b, emitted)
      chunk == Strip(SubSeq(b, 1, cut))
  IN IF cut = 0 THEN [buf |-> b, out |-> out]
     ELSE IF chunk = <<>> THEN Push(LStrip(SubSeq(b, cut + 1, Len(b))), emitted, out)
     ELSE Push(LStrip(SubSeq(b, cut + 1, Len(b))), emitted + 1, Append(out, chunk))

Init ==
  /\ text = <<>> /\ buf = <<>> /\ chunks = <<>> /\ calls = <<>>
  /\ voice = <<0>>                    \* 0: what an earlier answer left
  /\ pc = "stream"

\* The index that is handed to the sink: the counter of the chunker, which has
\* counted all the clauses of the push.
Index(k, n, emitted) == emitted + n - 1

\* _speak_sink.speak: append unless the index is 0.  A call that fails is logged
\* and forgotten (_emit_chunk).
Heard(said, c) == IF ~c.heard THEN said ELSE IF c.append THEN Append(said, c.clause) ELSE <<c.clause>>

Speak(out, heard) ==
  LET made == [k \in DOMAIN out |-> [clause |-> Len(chunks) + k, append |-> Index(k, Len(out), Len(chunks)) > 0, heard |-> heard[k]]]
  IN /\ chunks' = chunks \o out /\ calls' = calls \o made
     /\ voice' = FoldLeft(Heard, voice, made)

\* One delta of the stream (summarize_for_speech).
Delta(d, heard) ==
  LET p == Push(buf \o d, Len(chunks), <<>>)
  IN /\ pc = "stream" /\ Len(text) + Len(d) <= MaxLength /\ DOMAIN heard = DOMAIN p.out
     /\ text' = text \o d /\ buf' = p.buf /\ Speak(p.out, heard) /\ UNCHANGED pc

\* flush.
Tail1(b) == Strip(b)

\* The end of the stream: the tail is spoken.
Flush(heard) ==
  LET tail == Tail1(buf)
      out == IF tail = <<>> THEN <<>> ELSE <<tail>>
  IN /\ pc = "stream" /\ text # <<>> /\ pc' = "done" /\ buf' = <<>> /\ DOMAIN heard = DOMAIN out
     /\ Speak(out, heard) /\ UNCHANGED text

Hearings == UNION {[1 .. n -> BOOLEAN] : n \in 0 .. 3}

Next == \E heard \in Hearings : Flush(heard) \/ \E d \in Deltas : Delta(d, heard)

Spec == Init /\ [][Next]_vars

(***************************************************************************)
(* Properties.                                                             *)
(***************************************************************************)
TypeOK ==
  /\ pc \in {"stream", "done"} /\ Len(text) <= MaxLength /\ Len(calls) = Len(chunks)
  /\ \A i \in DOMAIN chunks : chunks[i] # <<>> /\ Strip(chunks[i]) = chunks[i]

Solid(s) == SelectSeq(s, LAMBDA c : c # "_")

\* However the stream is cut into deltas, no character of the answer is lost,
\* repeated or moved (SentenceChunker).
NothingLost == Solid(FlattenSeq(chunks) \o buf) = Solid(text)

\* The words, as they would be read from a text.
Words(s) ==
  LET starts == {i \in DOMAIN s : s[i] # "_" /\ (i = 1 \/ s[i - 1] = "_")}
      word(i) == SubSeq(s, i, Greatest({j \in i .. Len(s) : \A k \in i .. j : s[k] # "_"}))
  IN [k \in 1 .. Cardinality(starts) |-> word(CHOOSE i \in starts : Cardinality({j \in starts : j <= i}) = k)]

Joined == FlattenSeq([i \in DOMAIN chunks |-> <<"_">> \o chunks[i]])

\* No word is split between two clauses, unless a quote follows the end of a
\* sentence (_find_cut).
WordsWhole ==
  pc = "done" /\ (\A i \in DOMAIN text : text[i] = "q" => i > 1 /\ text[i - 1] # ".") => Words(Joined) = Words(text)

\* The voice says the clauses of the answer in their order and none twice, and
\* only the clause that comes first may cut off what it is saying.
VoiceInOrder ==
  /\ \A i, j \in DOMAIN voice : i < j => voice[i] < voice[j]
  /\ \A i \in DOMAIN calls : calls[i].clause > 1 => calls[i].append

\* "No word is ever lost, duplicated, or reordered."
NoWordLost == pc = "done" => Words(Joined) = Words(text)

\* "The first clause is sent with append: false so a new answer cuts off a stale one."
FirstCutsOff == \A i \in DOMAIN calls : calls[i].clause = 1 => ~calls[i].append

----------------------------------------------------------------------------
(***************************************************************************)
(* One string property of a JSON document is shown while the model still   *)
(* writes the document: the parser takes one character after another and   *)
(* publishes the characters of that property's value as they are decoded.  *)
(*                                                                         *)
(* The characters are those of JSON, letters, "h" for the escape of a high *)
(* surrogate and "l" for that of a low one (a pair decodes to "P").        *)
(***************************************************************************)

CONSTANTS
  Documents,         \* pairs of a document and the value of its property, or No
  Field,             \* the name of the property, as a sequence of characters
  MaxCut             \* after how many characters a document may break off

VARIABLES doc, at, depth, phase, role, key, selected, escape, high, done, out

json_vars == <<doc, at, depth, phase, role, key, selected, escape, high, done, out>>

No == <<"-">>

JsonInit ==
  /\ doc \in Documents /\ at = 1 /\ depth = 0 /\ phase = "start" /\ role = "none" /\ key = <<>>
  /\ selected = FALSE /\ escape = FALSE /\ high = FALSE /\ done = FALSE /\ out = <<>>

Char == doc.chars[at]

\* A character of the string that is read: to the key, or to the viewer.
Give(c) ==
  /\ key' = IF role = "key" THEN Append(key, c) ELSE key
  /\ out' = IF role = "selected" THEN Append(out, c) ELSE out

\* _decoded: surrogates come in pairs, and nothing is given out between them.
Decoded(c) ==
  IF high THEN /\ done' = (c # "l") /\ high' = (c # "l")
               /\ IF c = "l" THEN Give("P") ELSE UNCHANGED <<key, out>>
  ELSE IF c = "h" THEN high' = TRUE /\ UNCHANGED <<key, out, done>>
  ELSE IF c = "l" THEN done' = TRUE /\ UNCHANGED <<key, out, high>>
  ELSE Give(c) /\ UNCHANGED <<done, high>>

\* _string_char, with _ESCAPES; "h" and "l" stand for whole \u escapes.
StringChar(c) ==
  IF escape THEN
    /\ UNCHANGED <<depth, phase, role, selected>>
    /\ IF c \in {"\"", "\\", "n", "h", "l"} THEN escape' = FALSE /\ Decoded(IF c = "n" THEN "N" ELSE c)
       ELSE done' = TRUE /\ UNCHANGED <<key, escape, high, out>>
  ELSE IF c = "\\" THEN /\ escape' = TRUE /\ UNCHANGED <<depth, phase, role, key, selected, high, done, out>>
  ELSE IF c = "\"" THEN
    /\ done' = (high \/ role = "selected") /\ role' = "none"
    /\ IF role = "key" /\ ~high THEN selected' = (key = Field) /\ phase' = "colon" ELSE UNCHANGED <<selected, phase>>
    /\ UNCHANGED <<depth, key, escape, high, out>>
  ELSE Decoded(c) /\ UNCHANGED <<depth, phase, role, selected, escape>>

\* _skip_char: values of other properties.
SkipChar(c) ==
  /\ role' = (IF c = "\"" THEN "other" ELSE role)
  /\ depth' = (IF c \in {"{", "["} THEN depth + 1 ELSE IF c \in {"}", "]"} THEN depth - 1 ELSE depth)
  /\ done' = (c \in {"}", "]"} /\ depth = 1) /\ phase' = (IF c = "," /\ depth = 1 THEN "key" ELSE "skip")
  /\ UNCHANGED <<key, selected, escape, high, out>>

Stop == done' = TRUE /\ UNCHANGED <<depth, phase, role, key, selected, escape, high, out>>

\* The root property: a key, a colon, a value.
Start(c) ==
  IF c # "{" THEN Stop
  ELSE depth' = 1 /\ phase' = "key" /\ UNCHANGED <<role, key, selected, escape, high, done, out>>
Key(c) ==
  IF c # "\"" THEN Stop
  ELSE key' = <<>> /\ role' = "key" /\ UNCHANGED <<depth, phase, selected, escape, high, done, out>>
Colon(c) ==
  IF c # ":" THEN Stop ELSE phase' = "value" /\ UNCHANGED <<depth, role, key, selected, escape, high, done, out>>
Value(c) ==
  IF ~selected THEN SkipChar(c)
  ELSE IF c = "\"" THEN role' = "selected" /\ phase' = "skip" /\ UNCHANGED <<depth, key, selected, escape, high, done, out>>
  ELSE done' = TRUE /\ phase' = "skip" /\ UNCHANGED <<depth, role, key, selected, escape, high, out>>

\* StringFieldParser.push, one character.
PushChar ==
  /\ at <= Len(doc.chars) /\ at <= MaxCut /\ ~done /\ at' = at + 1 /\ UNCHANGED doc
  /\ IF role # "none" THEN StringChar(Char)
     ELSE IF Char = "_" THEN UNCHANGED <<depth, phase, role, key, selected, escape, high, done, out>>
     ELSE CASE phase = "start" -> Start(Char)
            [] depth = 1 /\ phase = "key" -> Key(Char)
            [] depth = 1 /\ phase = "colon" -> Colon(Char)
            [] depth = 1 /\ phase = "value" -> Value(Char)
            [] OTHER -> SkipChar(Char)

JsonNext == PushChar

JsonSpec == JsonInit /\ [][JsonNext]_json_vars

JsonTypeOK ==
  /\ at \in 1 .. Len(doc.chars) + 1 /\ depth \in 0 .. Len(doc.chars)
  /\ phase \in {"start", "key", "colon", "value", "skip"} /\ role \in {"none", "key", "selected", "other"}

\* Whatever the document holds, and wherever it breaks off, the viewer sees a
\* beginning of the value of the root property and nothing else, and all of it
\* once reading stops (StringFieldParser).
OnlyTheField ==
  /\ out # <<>> => doc.value # No /\ IsPrefix(out, doc.value)
  /\ done \/ at > Len(doc.chars) => out = (IF doc.value = No THEN <<>> ELSE doc.value)
=============================================================================
