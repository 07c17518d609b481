------------------------------ MODULE FileTexts ------------------------------
(***************************************************************************)
(* The algorithms of the tools on texts, each against a definition that    *)
(* does not say how: the replacement of file_edit (tools/edit.js), the     *)
(* search for the JSON object in an LLM's answer (extractJSON of           *)
(* code_task.js), and the pages that file_read, grep and file_glob cut.    *)
(*                                                                         *)
(* A text is a sequence of characters.  A behaviour is one call: its       *)
(* arguments in Init, its result in one step.                              *)
(***************************************************************************)
EXTENDS Integers, Sequences, FiniteSets, SequencesExt

CONSTANTS
  Chars,
  Texts, Olds, News,            \* what edit is called with
  Objects,                      \* JSON objects
  OtherValues,                  \* JSON's arrays, strings, numbers and words
  Befores, Afters,              \* the prose around an object
  MaxItems,                     \* bound: lines of a file, results of a search
  MaxResults,                   \* MAX_RESULTS of grep and glob
  DefaultLimit                  \* limit of file_read when it has none

ASSUME TextsAssumption ==
  Texts \cup Olds \cup News \cup Befores \cup Afters \subseteq Seq(Chars)
ASSUME PagesAssumption ==
  MaxItems \in Nat /\ MaxResults \in Nat /\ DefaultLimit \in Nat \ {0}

----------------------------------------------------------------------------
(* What JSON.parse takes for an object has at least this of JSON's grammar: *)
(* its braces outside strings balance at its last character and not before, *)
(* where a string is between two quotes that no backslash escapes, and      *)
(* backslashes are in strings only.                                         *)

\* An odd number of backslashes is before the i-th character.
Escaped(o, i) ==
  \E k \in 1 .. i - 1 :
    /\ (i - k) % 2 = 1 /\ \A j \in k .. i - 1 : o[j] = "backslash"
    /\ k = 1 \/ o[k - 1] # "backslash"

\* After the i-th character, a string has begun and not ended.
InString(o, i) ==
  Cardinality({j \in 1 .. i : o[j] = "quote" /\ ~Escaped(o, j)}) % 2 = 1

Depth(o, i) ==
  LET Outside(brace) == {j \in 1 .. i : o[j] = brace /\ ~InString(o, j)}
  IN Cardinality(Outside("{")) - Cardinality(Outside("}"))

IsObject(o) ==
  /\ Len(o) > 0 /\ o[1] = "{"
  /\ \A i \in DOMAIN o : /\ Depth(o, i) = 0 <=> i = Len(o)
                         /\ o[i] = "backslash" => InString(o, i)

ASSUME ObjectsAssumption ==
  /\ Objects \subseteq Seq(Chars) /\ \A o \in Objects : IsObject(o)
  /\ OtherValues \subseteq Seq(Chars)
  /\ \A v \in OtherValues : v # <<>> /\ v[1] # "{"

----------------------------------------------------------------------------

VARIABLES
  in,        \* the call: its tool and arguments
  out        \* its result, None before

textVars == <<in, out>>
None == [done |-> FALSE]

----------------------------------------------------------------------------
(* String.prototype                                                        *)

\* indexOf: 0 stands for -1.
Occurs(t, s, i) == i + Len(s) - 1 <= Len(t) /\ SubSeq(t, i, i + Len(s) - 1) = s
IndexOf(t, s, from) == SelectInSubSeq([i \in 1 .. Len(t) |-> Occurs(t, s, i)],
                                      from, Len(t), LAMBDA b : b)
From(t, i) == SubSeq(t, i, Len(t))

Refused == [ok |-> FALSE]

----------------------------------------------------------------------------
(* edit.js                                                                 *)

normalizeQuotes(t) == [i \in DOMAIN t |-> IF t[i] = "curly" THEN "quote" ELSE t[i]]

countOccurrences(t, s) ==
  LET count[pos \in 1 .. Len(t) + 1] ==
        LET i == IndexOf(t, s, pos) IN
        IF i = 0 THEN 0 ELSE 1 + count[i + Len(s)]
  IN count[1]

\* The loop over the text and its normalized form: matches are looked for in
\* one, what is between them is taken from the other.
ReplaceAlong(text, norm, old, new) ==
  LET rest[pos \in 1 .. Len(text) + 1] ==
        LET i == IndexOf(norm, old, pos) IN
        IF i = 0 THEN From(text, pos)
        ELSE SubSeq(text, pos, i - 1) \o new \o rest[i + Len(old)]
  IN rest[1]

ReplaceFirst(text, norm, old, new) ==
  LET i == IndexOf(norm, old, 1) IN
  SubSeq(text, 1, i - 1) \o new \o From(text, i + Len(old))

\* Mutant: what is between the matches is taken from the normalized text.
runEditNormalizing(c) ==
  LET exact == countOccurrences(c.text, c.old)
      norm == IF exact > 0 THEN c.text ELSE normalizeQuotes(c.text)
      old == IF exact > 0 THEN c.old ELSE normalizeQuotes(c.old)
      count == countOccurrences(norm, old) IN
  IF c.old = c.new \/ count = 0 \/ (count > 1 /\ ~c.all) THEN Refused
  ELSE [ok |-> TRUE, made |-> count,
        text |-> IF c.all THEN ReplaceAlong(norm, norm, old, c.new)
                          ELSE ReplaceFirst(norm, norm, old, c.new)]

\* run, up to the write: quotes are normalized when there is no exact match.
runEdit(c) ==
  LET exact == countOccurrences(c.text, c.old)
      norm == IF exact > 0 THEN c.text ELSE normalizeQuotes(c.text)
      old == IF exact > 0 THEN c.old ELSE normalizeQuotes(c.old)
      count == countOccurrences(norm, old) IN
  IF c.old = c.new \/ count = 0 \/ (count > 1 /\ ~c.all) THEN Refused
  ELSE [ok |-> TRUE, made |-> count,
        text |-> IF c.all THEN ReplaceAlong(c.text, norm, old, c.new)
                          ELSE ReplaceFirst(c.text, norm, old, c.new)]

----------------------------------------------------------------------------
(* extractJSON of code_task.js                                             *)

\* JSON.parse takes any JSON value, not only objects.
Parses(t) == t \in Objects \cup OtherValues

\* What is between the first two fences, if there are two.
Fenced(t) ==
  LET i == IndexOf(t, <<"fence">>, 1)
      j == IF i = 0 THEN 0 ELSE IndexOf(t, <<"fence">>, i + 1) IN
  IF j = 0 THEN <<>> ELSE SubSeq(t, i + 1, j - 1)

Turn(ch) == CASE ch = "{" -> 1 [] ch = "}" -> -1 [] OTHER -> 0

ScanStart == [depth |-> 0, inString |-> FALSE, escaped |-> FALSE, end |-> 0]

Nest(s, ch, i) ==
  [s EXCEPT !.depth = @ + Turn(ch), !.end = IF s.depth + Turn(ch) = 0 THEN i ELSE 0]

\* Mutant: a backslash means nothing.
ScanCharUnescaped(s, ch, i) ==
  IF s.end # 0 THEN s
  ELSE IF ch = "quote" THEN [s EXCEPT !.inString = ~@]
  ELSE IF s.inString THEN s
  ELSE Nest(s, ch, i)

\* The body of the loop, which ends where the depth is 0 again.
ScanChar(s, ch, i) ==
  IF s.end # 0 THEN s
  ELSE IF s.escaped THEN [s EXCEPT !.escaped = FALSE]
  ELSE IF ch = "backslash" /\ s.inString THEN [s EXCEPT !.escaped = TRUE]
  ELSE IF ch = "quote" THEN [s EXCEPT !.inString = ~@]
  ELSE IF s.inString THEN s
  ELSE Nest(s, ch, i)

\* From the first brace to the one that closes it.
Scan(t) ==
  LET start == IndexOf(t, <<"{">>, 1)
      tail == From(t, start)
      scan[i \in 0 .. Len(tail)] ==
        IF i = 0 THEN ScanStart ELSE ScanChar(scan[i - 1], tail[i], i)
      end == scan[Len(tail)].end IN
  IF start = 0 \/ end = 0 THEN <<>> ELSE SubSeq(tail, 1, end)

\* The value is the whole answer, in its first fence, or in its prose.
extractJSON(t) ==
  IF Parses(t) THEN [ok |-> TRUE, value |-> t]
  ELSE IF Parses(Fenced(t)) THEN [ok |-> TRUE, value |-> Fenced(t)]
  ELSE IF Parses(Scan(t)) THEN [ok |-> TRUE, value |-> Scan(t)]
  ELSE Refused

----------------------------------------------------------------------------
(* Pages: the items of a text or of a search stand for their places in it. *)

Items(n) == [i \in 1 .. n |-> i]
Slice(items, first, count) ==
  SubSeq(items, first + 1, IF first + count < Len(items) THEN first + count ELSE Len(items))

\* Mutant: truncated compares with the 1-based offset.
runReadOffByOne(n, offset, limit) ==
  LET start == (IF offset = 0 THEN 1 ELSE offset) - 1
      most == IF limit = 0 THEN DefaultLimit ELSE limit IN
  [items |-> Slice(Items(n), start, most), truncated |-> n > start + 1 + most]

\* run of read.js; 0 is no offset, or no limit.
runRead(n, offset, limit) ==
  LET start == (IF offset = 0 THEN 1 ELSE offset) - 1
      most == IF limit = 0 THEN DefaultLimit ELSE limit IN
  [items |-> Slice(Items(n), start, most), truncated |-> n > start + most]

apply_pagination(items, offset, head_limit) ==
  LET rest == IF offset > 0 THEN From(items, offset + 1) ELSE items IN
  IF head_limit > 0 THEN Slice(rest, 0, head_limit) ELSE rest

\* run of grep.js, in each of its modes, on the lines grep printed.
runGrep(n, offset, head_limit) ==
  [items |-> apply_pagination(Slice(Items(n), 0, MaxResults), offset, head_limit),
   truncated |-> n > MaxResults]

----------------------------------------------------------------------------

TextCalls ==
  [tool : {"edit"}, text : Texts, old : Olds, new : News, all : BOOLEAN]
  \cup [tool : {"json"}, before : Befores, fenced : BOOLEAN, object : Objects,
        after : Afters]
  \cup [tool : {"read", "grep"}, n : 0 .. MaxItems, offset : 0 .. MaxItems + 1,
        limit : 0 .. MaxItems]

TextsInit == in \in TextCalls /\ out = None

\* countOccurrences does not come back from an empty old_string: such a call
\* ends only where it is refused before, as the same as new_string.
Edits ==
  /\ in.tool = "edit" /\ (in.old # <<>> \/ in.new = <<>>)
  /\ out' = runEdit(in)

Said(c) ==
  LET fence == IF c.fenced THEN <<"fence">> ELSE <<>> IN
  c.before \o fence \o c.object \o fence \o c.after
Extracts == in.tool = "json" /\ out' = extractJSON(Said(in))

Reads == in.tool = "read" /\ out' = runRead(in.n, in.offset, in.limit)
Greps == in.tool = "grep" /\ out' = runGrep(in.n, in.offset, in.limit)

TextsNext == out = None /\ (Edits \/ Extracts \/ Reads \/ Greps) /\ UNCHANGED in

TextsSpec == TextsInit /\ [][TextsNext]_textVars

----------------------------------------------------------------------------
(* Properties.                                                             *)

Called(tool) == in.tool = tool /\ out # None

Alike(a, b) == a = b \/ {a, b} = {"quote", "curly"}

\* Where old_string is: to the letter, or else but for the kind of quotes.
Starts == 1 .. Len(in.text) + 1 - Len(in.old)
Exact == {i \in Starts : \A k \in DOMAIN in.old : in.text[i + k - 1] = in.old[k]}
Loose == {i \in Starts : \A k \in DOMAIN in.old : Alike(in.text[i + k - 1], in.old[k])}
Places == IF Exact # {} THEN Exact ELSE Loose

Overlapping(i, j) == i < j + Len(in.old) /\ j < i + Len(in.old)

\* The places that are replaced: none overlaps another, and each that is left
\* out overlaps one further left.
Replaced ==
  CHOOSE R \in SUBSET Places :
    /\ \A i, j \in R : Overlapping(i, j) => i = j
    /\ \A i \in Places \ R : \E j \in R : j < i /\ Overlapping(i, j)

Rewritten ==
  FlattenSeq([i \in DOMAIN in.text |->
    IF i \in Replaced THEN in.new
    ELSE IF \E j \in Replaced : j < i /\ i < j + Len(in.old) THEN <<>>
    ELSE <<in.text[i]>>])

\* What file_edit writes has old_string replaced where it is, and nothing else:
\* what is around it stays to the letter, also when it was found by normalizing
\* quotes.  It refuses when old_string is nowhere or, without replace_all, in
\* several places that do not overlap; and it edits when there is one place, or
\* replace_all.
\* (Of an old_string that overlaps itself in its only places nothing is said:
\* "requires old_string to be unique" would have it refused, and the code
\* replaces the leftmost.)
EditIsExact ==
  Called("edit") =>
    LET n == Cardinality(Replaced) IN
    /\ out # Refused => out = [ok |-> TRUE, made |-> n, text |-> Rewritten]
    /\ in.old = in.new \/ Places = {} \/ (n > 1 /\ ~in.all) => out = Refused
    /\ in.old # in.new /\ Places # {} /\ (in.all \/ Cardinality(Places) = 1)
         => out # Refused

\* The prose around the object has no brace before it and no fence of its own;
\* when the object is not in a fence, no fence is in one of its strings; and the
\* answer as a whole is not an array with the object, or a string.
Unambiguous ==
  /\ ToSet(in.before) \cap {"{", "fence"} = {}
  /\ in.fenced \/ "fence" \notin ToSet(in.object \o in.after)
  /\ Said(in) \notin OtherValues

\* The tool call of an LLM's answer is found, to the last brace, whatever its
\* strings hold -- braces, escapes, when it is in a fence also fences -- and
\* whatever prose follows.
ObjectIsFound ==
  Called("json") /\ Unambiguous => out = [ok |-> TRUE, value |-> in.object]

\* What who reads on behind a page gets, from an offset: behind a truncated page
\* of file_read, and until a search has an empty page.
ReadOn(n, limit) ==
  LET step == IF limit = 0 THEN DefaultLimit ELSE limit
      pages[o \in Nat] ==
        LET p == runRead(n, o, limit) IN
        p.items \o (IF p.truncated THEN pages[(IF o = 0 THEN 1 ELSE o) + step] ELSE <<>>)
  IN pages
SearchOn(n, limit) ==
  LET pages[o \in Nat] ==
        LET p == runGrep(n, o, limit) IN
        IF p.items = <<>> THEN <<>> ELSE p.items \o pages[o + limit]
  IN pages

\* Who reads on behind a truncated page of file_read, from its end, gets every
\* line from the first one on, none twice, and is told when there are no more.
\* The pages of a search cover the results up to the cap, and truncated says
\* whether there are others -- on every page, also the last.
PagesCover ==
  /\ Called("read") =>
       ReadOn(in.n, in.limit)[in.offset]
         = From(Items(in.n), IF in.offset = 0 THEN 1 ELSE in.offset)
  /\ Called("grep") /\ in.limit > 0 =>
       LET seen == Slice(Items(in.n), 0, MaxResults) IN
       /\ SearchOn(in.n, in.limit)[in.offset] = From(seen, in.offset + 1)
       /\ out.truncated = (seen # Items(in.n))
=============================================================================
