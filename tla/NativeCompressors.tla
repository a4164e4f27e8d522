------------------------- MODULE NativeCompressors --------------------------
(***************************************************************************)
(* The compressors that internal/compress itself brings: repeated lines and *)
(* paragraphs are folded, JSON is minified, the context of a diff is        *)
(* dropped.  Texts are sequences of lines as in LiveZone.  Wording is left  *)
(* out of the lines that stand for what was omitted; their counts are kept. *)
(***************************************************************************)
EXTENDS LiveZone, FiniteSets

\* The lines that stand for what was left out, one for each number.
CONSTANTS
    Repeated,   \* Repeated[n]: "[repeated n identical ... omitted]"
    Omitted     \* Omitted[n]: "[n diff context lines omitted]"

ASSUME MarkersAssumption ==
    /\ Len(Repeated) \in Nat /\ DOMAIN Repeated = 1 .. Len(Repeated)
    /\ \A m, n \in DOMAIN Repeated : Repeated[m] = Repeated[n] => m = n
    /\ \A n \in DOMAIN Repeated : Repeated[n] \notin Line

-----------------------------------------------------------------------------
(* collapseAdjacent.                                                         *)

\* How many items from i on have the key of item i; items with an empty key stand
\* alone.
Run(keys, empty, i) ==
    Max({n \in 1 .. Len(keys) - i + 1 :
            n = 1 \/ (keys[i] # empty /\ \A j \in i .. i + n - 1 : keys[j] = keys[i])})

\* Item i is the first of its run.
Begins(keys, empty, i) == i = 1 \/ keys[i] = empty \/ keys[i] # keys[i - 1]

\* Mutant: the first of a run is counted among the omitted.
CollapseCountsAll(items, keys, empty, marker) ==
    LET announced(repeats) == IF repeats > 1 THEN <<marker[repeats]>> ELSE <<>>
    IN FlattenSeq([i \in DOMAIN items |->
                    IF Begins(keys, empty, i)
                    THEN <<items[i]>> \o announced(Run(keys, empty, i))
                    ELSE <<>>])

\* The first of a run is kept as it is, the others are counted.
CollapseAdjacent(items, keys, empty, marker) ==
    LET announced(repeats) == IF repeats > 1 THEN <<marker[repeats - 1]>> ELSE <<>>
    IN FlattenSeq([i \in DOMAIN items |->
                    IF Begins(keys, empty, i)
                    THEN <<items[i]>> \o announced(Run(keys, empty, i))
                    ELSE <<>>])

Trimmed(lines) == [i \in DOMAIN lines |-> TrimSpace(lines[i])]

CompressRepeatedLines(text) == CollapseAdjacent(text, Trimmed(text), "", Repeated)

\* strings.Split at "\n\n": an empty line ends the paragraph it stands in, unless it
\* begins it or the text ends there.  What is left of a longer gap begins the next one.
NextLine(paragraphs, line) ==
    LET last == Last(paragraphs)
    IN IF Len(last) > 1 /\ Last(last) = ""
       THEN Append(Append(Front(paragraphs), Front(last)), <<line>>)
       ELSE Append(Front(paragraphs), Append(last, line))

Paragraphs(text) ==
    LET upto[n \in 1 .. Len(text)] ==
            IF n = 1 THEN <<<<text[1]>>>> ELSE NextLine(upto[n - 1], text[n])
    IN upto[Len(text)]

JoinParagraphs(paragraphs) ==
    FlattenSeq([i \in DOMAIN paragraphs |->
                    IF i = 1 THEN paragraphs[i] ELSE <<"">> \o paragraphs[i]])

\* strings.Fields: white space does not count.
Fields(paragraph) == Only(Trimmed(paragraph), (Line \cup ToSet(Repeated)) \ {""})

CompressRepeatedParagraphs(text) ==
    LET paragraphs == Paragraphs(text)
    IN JoinParagraphs(CollapseAdjacent(paragraphs,
                                       [i \in DOMAIN paragraphs |-> Fields(paragraphs[i])], <<>>,
                                       [n \in DOMAIN Repeated |-> <<Repeated[n]>>]))

\* collapseBlankRuns: of adjacent blank lines the first is kept.
CollapseBlankRuns(lines) ==
    LET keeps(i) == i = 1 \/ ~Blank(lines[i]) \/ ~Blank(lines[i - 1])
    IN FlattenSeq([i \in DOMAIN lines |-> IF keeps(i) THEN <<lines[i]>> ELSE <<>>])

CompressCode(text) ==
    CollapseBlankRuns(CollapseAdjacent(text, Trimmed(text), "", Repeated))

-----------------------------------------------------------------------------
(* compressDiff and compactJSON.                                             *)

\* Mutant: removed lines are taken for context.
KeepDiffLineAdded(line) == line \in {"diff --git", "@@", "+new"}

KeepDiffLine(line) == line \in {"diff --git", "@@", "+new", "-old"}

\* flushOmitted: a single line goes without a word.
FlushOmitted(acc) ==
    [out |-> IF acc.omitted > 1 THEN Append(acc.out, Omitted[acc.omitted]) ELSE acc.out,
     omitted |-> 0]

\* Blank lines are dropped and not counted.
DiffLine(acc, line) ==
    IF KeepDiffLine(line) THEN [FlushOmitted(acc) EXCEPT !.out = Append(@, line)]
    ELSE IF Blank(line) THEN acc
    ELSE [acc EXCEPT !.omitted = @ + 1]

CompressDiff(text) ==
    LET acc[n \in 0 .. Len(text)] ==
            IF n = 0 THEN [out |-> <<>>, omitted |-> 0] ELSE DiffLine(acc[n - 1], text[n])
    IN FlushOmitted(acc[Len(text)]).out

\* A text classified as JSON is valid, so json.Compact succeeds.
CompactJSON(text) == <<"compact json">>

NativeCompress(block) ==
    CASE block.contentType = "log"  -> CompressRepeatedLines(block.text)
      [] block.contentType = "text" -> CompressRepeatedParagraphs(block.text)
      [] block.contentType = "json" -> CompactJSON(block.text)
      [] block.contentType = "diff" -> CompressDiff(block.text)
      [] block.contentType = "code" -> CompressCode(block.text)

-----------------------------------------------------------------------------
(* What the omissions stand for, by definitions of their own.                *)

\* A reader puts back n copies of the item before a "repeated n".
PutBack(items, marker) ==
    LET isMarker(item) == \E n \in DOMAIN marker : marker[n] = item
        count(item) == CHOOSE n \in DOMAIN marker : marker[n] = item
    IN FlattenSeq([i \in DOMAIN items |->
                    IF isMarker(items[i]) THEN [k \in 1 .. count(items[i]) |-> items[i - 1]]
                    ELSE <<items[i]>>])

\* A diff is its file headers, hunk headers and changed lines, and behind each of them
\* (0: before the first) some lines of context.
Signals == {"diff --git", "@@", "+new", "-old"}

ContextBehind(text, q) ==
    Cardinality({i \in DOMAIN text :
                    /\ text[i] \notin Signals /\ ~Blank(text[i])
                    /\ Cardinality({j \in 1 .. i : text[j] \in Signals}) = q})
=============================================================================
