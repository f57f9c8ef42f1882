---------------------------- MODULE TextDocument ----------------------------
(***************************************************************************)
(* A text document of the server under the client's incremental edits      *)
(* (TextDocument.cpp).                                                     *)
(*                                                                         *)
(* The client counts characters in UTF-16 code units and sends an edit as  *)
(* a range of lines and characters; the server keeps UTF-8 and the byte    *)
(* offsets of the lines, which it repairs after an edit instead of         *)
(* computing them again.  A text is a sequence of characters, each with    *)
(* its length in bytes and in code units.                                  *)
(***************************************************************************)
EXTENDS Naturals, Sequences, SequencesExt

CONSTANTS
    Char,       \* the characters of a text
    Bytes,      \* Bytes[c]: the length of c in UTF-8
    Units,      \* Units[c]: the length of c in UTF-16
    CR, LF,     \* the two characters that end a line, alone or together
    Insertion,  \* the texts the client may type or paste
    MaxLength   \* bound: the length of the document

ASSUME TextAssumption ==
    /\ {CR, LF} \subseteq Char
    /\ CR # LF
    /\ Bytes \in [Char -> 1..4]
    /\ Units \in [Char -> 1..2]
    /\ Insertion \subseteq Seq(Char)
    /\ MaxLength \in Nat

VARIABLES
    text,       \* the document as the client has it
    content,    \* _content
    offsets     \* _lineOffsets, or Unknown

vars == <<text, content, offsets>>

Unknown == <<>>

-----------------------------------------------------------------------------
(* Lengths                                                                 *)

Total(length, s) ==
    LET sum[k \in 0..Len(s)] == IF k = 0 THEN 0 ELSE sum[k - 1] + length[s[k]]
    IN sum[Len(s)]

ByteLength(s) == Total(Bytes, s)

\* lspLength, for the UTF-16 encoding of positions.
LspLength(s) == Total(Units, s)

\* content.substr(0, offset), and the rest.
Before(s, offset) == SubSeq(s, 1, Max({k \in 0..Len(s) : ByteLength(SubSeq(s, 1, k)) <= offset}))

After(s, offset) == SubSeq(s, Len(Before(s, offset)) + 1, Len(s))

\* CR LF is one line end.
EndsLine(s, k) == s[k] = LF \/ (s[k] = CR /\ ~(k < Len(s) /\ s[k + 1] = LF))

\* The offset just behind each line end of s.
LineEnds(s) == {ByteLength(SubSeq(s, 1, k)) : k \in {j \in 1..Len(s) : EndsLine(s, j)}}

\* computeLineOffsets
ComputeLineOffsets(s, isAtLineStart, textOffset) ==
    LET found[k \in 0..Len(s)] ==
            IF k = 0 THEN IF isAtLineStart THEN <<textOffset>> ELSE <<>>
            ELSE IF EndsLine(s, k) THEN Append(found[k - 1], textOffset + ByteLength(SubSeq(s, 1, k)))
            ELSE found[k - 1]
    IN found[Len(s)]

\* getLineOffsets
LineOffsets == IF offsets = Unknown THEN ComputeLineOffsets(content, TRUE, 0) ELSE offsets

-----------------------------------------------------------------------------
(* Positions: a line and a character, both counted from 0                  *)

Position(line, character) == [line |-> line, character |-> character]

\* Mutant: a character is taken to be a byte.
MeasureBytes(line, units) == IF units <= ByteLength(line) THEN units ELSE ByteLength(line)

\* measureUnits: the bytes of the shortest part of the line that has so many code
\* units, or of the whole line.
MeasureUnits(line, units) ==
    LET enough == {k \in 0..Len(line) : LspLength(SubSeq(line, 1, k)) >= units}
    IN ByteLength(SubSeq(line, 1, IF enough = {} THEN Len(line) ELSE Min(enough)))

\* The text between two offsets.
Part(s, first, next) == After(Before(s, next), first)

\* convertPosition: the line and the byte in it, as the type checker counts.  Behind
\* the last line it is the end of the text.
ConvertPosition(s, lineOffsets, position) ==
    LET lines == Len(lineOffsets)
        next == IF position.line + 1 < lines THEN lineOffsets[position.line + 2] ELSE ByteLength(s)
    IN IF position.line >= lines
       THEN [line |-> lines - 1, column |-> ByteLength(s) - lineOffsets[lines]]
       ELSE [line |-> position.line,
             column |-> MeasureUnits(Part(s, lineOffsets[position.line + 1], next),
                                     position.character)]

\* convertPosition of a place of the type checker's.
PositionOf(s, lineOffsets, place) ==
    LET first == lineOffsets[place.line + 1]
    IN Position(place.line, LspLength(Part(s, first, first + place.column)))

\* offsetAt
OffsetAt(s, lineOffsets, position) ==
    LET place == ConvertPosition(s, lineOffsets, position)
    IN lineOffsets[place.line + 1] + place.column

\* positionAt.  The binary search finds the last line that does not start behind
\* the offset.
PositionAt(s, lineOffsets, offset) ==
    LET line == Max({i \in 1..Len(lineOffsets) : lineOffsets[i] <= offset})
    IN Position(line - 1, LspLength(Part(s, lineOffsets[line], offset)))

\* getText of a range.
GetText(s, lineOffsets, range) ==
    Part(s, OffsetAt(s, lineOffsets, range.start), OffsetAt(s, lineOffsets, range.end))

\* Whether p comes after q; getWellformedRange swaps such a start and end.
IsBehind(p, q) == p.line > q.line \/ (p.line = q.line /\ p.character > q.character)

-----------------------------------------------------------------------------
(* update                                                                  *)

\* Mutant: the shift starts at the last line the text added.
ShiftFromAdded(startLine, added) == startLine + 1 + added

\* The first entry, counted from 1, that moves with the change in length.
ShiftFrom(startLine, added) == startLine + 2 + added

\* The entries once the lines of the range were replaced by those of the text.
Spliced(old, startLine, endLine, added) ==
    IF endLine - startLine = Len(added)
    THEN [i \in DOMAIN old |->
             IF i \in startLine + 2 .. startLine + 1 + Len(added) THEN added[i - startLine - 1]
             ELSE old[i]]
    ELSE SubSeq(old, 1, startLine + 1) \o added \o SubSeq(old, endLine + 2, Len(old))

\* The offsets after an edit that put "inserted" between startOffset and endOffset.
UpdatedOffsets(old, range, startOffset, endOffset, inserted) ==
    LET added == ComputeLineOffsets(inserted, FALSE, startOffset)
        spliced == Spliced(old, range.start.line, range.end.line, added)
        from == ShiftFrom(range.start.line, Len(added))
    IN [i \in DOMAIN spliced |->
           IF i >= from THEN (spliced[i] + ByteLength(inserted)) - (endOffset - startOffset)
           ELSE spliced[i]]

\* One change with a range.
UpdateRange(range, inserted) ==
    LET wellformed == IF IsBehind(range.start, range.end)
                      THEN [start |-> range.end, end |-> range.start] ELSE range
        startOffset == OffsetAt(content, LineOffsets, wellformed.start)
        endOffset == OffsetAt(content, LineOffsets, wellformed.end)
    IN /\ content' = Before(content, startOffset) \o inserted \o After(content, endOffset)
       /\ offsets' = UpdatedOffsets(LineOffsets, wellformed, startOffset, endOffset, inserted)

\* One change without a range.
ReplaceAllText(all) == content' = all /\ offsets' = Unknown

-----------------------------------------------------------------------------
(* The client                                                              *)

\* Where the client sees the place after the first k characters.
ClientPosition(s, k) ==
    LET ends == {e \in LineEnds(s) : e <= ByteLength(SubSeq(s, 1, k))}
        first == IF ends = {} THEN 0 ELSE Max(ends)
    IN Position(Cardinality(ends), LspLength(After(SubSeq(s, 1, k), first)))

\* No position is between the CR and the LF of one line end.
Between(s, k) == k \in 1..Len(s) - 1 /\ s[k] = CR /\ s[k + 1] = LF

Places == {k \in 0..Len(text) : ~Between(text, k)}

\* A CR and an LF that meet make one line end.
MakeLineEnd(left, right) ==
    /\ left # <<>> /\ Last(left) = CR
    /\ right # <<>> /\ Head(right) = LF

\* Editors keep line ends whole: an edit does not make one out of a CR and an LF
\* that did not come together.
JoinsLineEnd(left, middle, right) ==
    MakeLineEnd(left, middle \o right) \/ MakeLineEnd(left \o middle, right)

Edited(from, to, inserted) == SubSeq(text, 1, from) \o inserted \o SubSeq(text, to + 1, Len(text))

-----------------------------------------------------------------------------
Init ==
    /\ text = <<>>
    /\ content = <<>>
    /\ offsets = Unknown

\* didChange with a range.  Its ends may come in either order.
Edit(from, to, inserted) ==
    /\ Len(Edited(from, to, inserted)) <= MaxLength
    /\ ~JoinsLineEnd(SubSeq(text, 1, from), inserted, SubSeq(text, to + 1, Len(text)))
    /\ text' = Edited(from, to, inserted)
    /\ \E range \in {[start |-> ClientPosition(text, from), end |-> ClientPosition(text, to)],
                     [start |-> ClientPosition(text, to), end |-> ClientPosition(text, from)]} :
           UpdateRange(range, inserted)

\* didChange with the whole text.
Replace(all) ==
    /\ text' = all
    /\ ReplaceAllText(all)

Next ==
    \/ \E from, to \in Places, inserted \in Insertion :
           from <= to /\ Edit(from, to, inserted)
    \/ \E all \in Insertion : Replace(all)

Spec == Init /\ [][Next]_vars

-----------------------------------------------------------------------------
(* Properties                                                              *)

\* The server's text is the client's, after any sequence of edits.
ContentIsClients == content = text

OffsetsAreCurrent == LineOffsets = ComputeLineOffsets(content, TRUE, 0)

PositionsAgree ==
    \A k \in Places :
        LET here == ClientPosition(text, k)
            offset == ByteLength(SubSeq(text, 1, k))
        IN /\ OffsetAt(content, LineOffsets, here) = offset
           /\ PositionAt(content, LineOffsets, offset) = here
           /\ PositionOf(content, LineOffsets, ConvertPosition(content, LineOffsets, here)) = here
           /\ \A i \in Places :
                  LET range == [start |-> ClientPosition(text, i), end |-> here]
                  IN i <= k => GetText(content, LineOffsets, range) = SubSeq(text, i + 1, k)

\* The repaired line offsets are those that computeLineOffsets gives, and a position
\* the client can name denotes the place the client means, and is given back for that
\* place, also by way of the type checker's lines and columns; between two of them is
\* the text the client has there.
PositionsAreCurrent == OffsetsAreCurrent /\ PositionsAgree
=============================================================================
