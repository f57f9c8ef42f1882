--------------------------- MODULE SourceMapping ---------------------------
(***************************************************************************)
(* The text that the plugins make of a source file, and the mapping of     *)
(* positions between the two (Plugin/SourceMapping.cpp,                    *)
(* Plugin/PluginTextDocument.cpp).                                         *)
(*                                                                         *)
(* Every plugin gets the original source and returns edits to it; the      *)
(* edits of all plugins are sorted, refused if they overlap, and applied.  *)
(* A text is a sequence of bytes.  A place is a number of bytes from the   *)
(* start of a text, a position its line and column counted from 0.         *)
(***************************************************************************)
EXTENDS Integers, Sequences, SequencesExt

CONSTANTS
    Byte,        \* the bytes of a text
    LF,          \* the one that ends a line
    Sources,     \* the source files
    NewText,     \* what an edit can put in place of its range
    MaxEdits     \* bound: the edits that all plugins return

ASSUME MappingAssumption ==
    /\ LF \in Byte
    /\ Sources \subseteq Seq(Byte)
    /\ NewText \subseteq Seq(Byte)
    /\ MaxEdits \in Nat

VARIABLES
    source,       \* the original text
    edits,        \* the edits that the plugins returned, in their order
    transformed,  \* the transformed text
    applied       \* the edits of the mapping, sorted

vars == <<source, edits, transformed, applied>>

Position(line, column) == [line |-> line, column |-> column]

\* The position behind one more byte.
Advance(position, byte) ==
    IF byte = LF THEN Position(position.line + 1, 0)
    ELSE Position(position.line, position.column + 1)

\* The position of place k in text s.
PositionOf(s, k) ==
    LET position[i \in 0..Len(s)] ==
            IF i = 0 THEN Position(0, 0) ELSE Advance(position[i - 1], s[i])
    IN position[k]

\* p comes before q.
Precedes(p, q) == p.line < q.line \/ (p.line = q.line /\ p.column < q.column)

-----------------------------------------------------------------------------
(* fromEdits                                                               *)

\* std::sort by the start of the range leaves the order of edits with the same
\* start open.
SortedOrders(returned) ==
    {s \in {[i \in DOMAIN returned |-> returned[p[i]]] :
               p \in {q \in [DOMAIN returned -> DOMAIN returned] : IsInjective(q)}} :
        \A i \in 1..Len(s) - 1 : ~Precedes(s[i + 1].range.begin, s[i].range.begin)}

\* Mutant: edits that only share their first position are let through.
OverlapInside(sorted) ==
    \E i \in 2..Len(sorted) :
        /\ Precedes(sorted[i].range.begin, sorted[i - 1].range.end)
        /\ sorted[i].range.begin # sorted[i - 1].range.begin

Overlap(sorted) ==
    \E i \in 2..Len(sorted) : Precedes(sorted[i].range.begin, sorted[i - 1].range.end)

\* positionToOffset
OffsetOf(s, position) == CHOOSE k \in 0..Len(s) : PositionOf(s, k) = position

\* calculateTextSize
TextSize(s) == PositionOf(s, Len(s))

\* The deltas that fromEdits and the two mappings carry from edit to edit: how far
\* the lines have moved and, as long as the edits stay on one line of the text they
\* are counted in, how far its columns have.
NoDelta == [lines |-> 0, columns |-> 0, line |-> -1]

\* A position behind the edits of the deltas and before the next one.
Moved(delta, position) ==
    Position(position.line + delta.lines,
             position.column + IF position.line = delta.line THEN delta.columns ELSE 0)

\* Mutant: the columns of an earlier line count on the next one.
AddedColumnsOfEarlierLine(delta, old, new) ==
    LET sameLine == old.begin.line = old.end.line /\ new.begin.line = new.end.line
        columns == (new.end.column - new.begin.column) - (old.end.column - old.begin.column)
    IN [lines |-> delta.lines + (new.end.line - new.begin.line) - (old.end.line - old.begin.line),
        columns |-> IF ~sameLine THEN 0 ELSE delta.columns + columns,
        line |-> IF ~sameLine THEN -1 ELSE old.begin.line]

\* The deltas once the range "old" became the range "new".
Added(delta, old, new) ==
    LET sameLine == old.begin.line = old.end.line /\ new.begin.line = new.end.line
        columns == (new.end.column - new.begin.column) - (old.end.column - old.begin.column)
    IN [lines |-> delta.lines + (new.end.line - new.begin.line) - (old.end.line - old.begin.line),
        columns |-> IF ~sameLine THEN 0
                    ELSE IF old.begin.line = delta.line THEN delta.columns + columns ELSE columns,
        line |-> IF ~sameLine THEN -1 ELSE old.begin.line]

\* The range of the new text of an edit.
TransformedStart(delta, begin) == Moved(delta, begin)

TransformedRange(delta, edit) ==
    LET begin == TransformedStart(delta, edit.range.begin)
        size == TextSize(edit.newText)
    IN [begin |-> begin,
        end |-> IF size.line = 0 THEN Position(begin.line, begin.column + size.column)
                ELSE Position(begin.line + size.line, size.column)]

\* The single pass over the source: the deltas behind each edit, and the text up to
\* its end.
FromEdits(s, sorted) ==
    LET start(i) == OffsetOf(s, sorted[i].range.begin)
        last(i) == IF i = 0 THEN 0 ELSE OffsetOf(s, sorted[i].range.end)
        delta[i \in 0..Len(sorted)] ==
            IF i = 0 THEN NoDelta
            ELSE Added(delta[i - 1], sorted[i].range, TransformedRange(delta[i - 1], sorted[i]))
        out[i \in 0..Len(sorted)] ==
            IF i = 0 THEN <<>>
            ELSE (out[i - 1] \o SubSeq(s, last(i - 1) + 1, start(i))) \o sorted[i].newText
    IN [text |-> out[Len(sorted)] \o SubSeq(s, last(Len(sorted)) + 1, Len(s)),
        applied |-> [i \in 1..Len(sorted) |->
                        [original |-> sorted[i].range,
                         newText |-> sorted[i].newText,
                         transformed |-> TransformedRange(delta[i - 1], sorted[i])]]]

-----------------------------------------------------------------------------
(* originalToTransformed and transformedToOriginal.  They are one function *)
(* that takes a position in the texts' "from" ranges to the "to" ranges.   *)

\* Mutant: the place behind the last byte of a range counts as inside.
InsideOrBehind(range, position) ==
    ~Precedes(position, range.begin) /\ ~Precedes(range.end, position)

\* insideEdit, for a position that is not before the range.
Inside(range, position) ==
    ~Precedes(position, range.begin) /\ Precedes(position, range.end)

\* Whether the loop returns at this range.
Decides(range, position) == Precedes(position, range.begin) \/ Inside(range, position)

\* The edits up to the one that decides are behind the position.
MapPosition(from, to, position) ==
    LET delta[i \in 0..Len(applied)] ==
            IF i = 0 THEN NoDelta
            ELSE Added(delta[i - 1], applied[i][from], applied[i][to])
        deciding == {i \in 1..Len(applied) : Decides(applied[i][from], position)}
        first == Min(deciding)
    IN IF deciding = {} THEN Moved(delta[Len(applied)], position)
       ELSE IF Precedes(position, applied[first][from].begin) THEN Moved(delta[first - 1], position)
       ELSE applied[first][to].begin

OriginalToTransformed(position) == MapPosition("original", "transformed", position)

TransformedToOriginal(position) == MapPosition("transformed", "original", position)

-----------------------------------------------------------------------------
Init ==
    /\ source \in Sources
    /\ edits = <<>>
    /\ transformed = source
    /\ applied = <<>>

\* The edits a plugin may return for the source.
Edit ==
    {[range |-> [begin |-> PositionOf(source, b), end |-> PositionOf(source, e)], newText |-> new] :
        b \in 0..Len(source), e \in 0..Len(source), new \in NewText}

\* PluginManager::transform with one more edit, and what getTextDocument makes of
\* the edits: overlapping ones leave the source as it is.
Return(edit) ==
    /\ Len(edits) < MaxEdits
    /\ ~Precedes(edit.range.end, edit.range.begin)
    /\ edits' = Append(edits, edit)
    /\ \E sorted \in SortedOrders(edits') :
           IF Overlap(sorted)
           THEN transformed' = source /\ applied' = <<>>
           ELSE LET result == FromEdits(source, sorted)
                IN transformed' = result.text /\ applied' = result.applied
    /\ UNCHANGED source

Next == \E edit \in Edit : Return(edit)

Spec == Init /\ [][Next]_vars

-----------------------------------------------------------------------------
(* Properties                                                              *)

\* The places an edit replaces, and where it ends.
First(range) == OffsetOf(source, range.begin)

Behind(range) == OffsetOf(source, range.end)

\* The places whose byte no edit replaces.
Untouched ==
    {k \in 0..Len(source) :
        \A i \in DOMAIN applied :
            k < First(applied[i].original) \/ k >= Behind(applied[i].original)}

\* Where place k of the source is in the transformed text: by the lengths of the
\* texts before it, with no regard to lines.
Image(k) ==
    LET replaced(range) == Behind(range) - First(range)
        moved[i \in 0..Len(applied)] ==
            IF i = 0 THEN k
            ELSE IF Behind(applied[i].original) <= k
            THEN moved[i - 1] + (Len(applied[i].newText) - replaced(applied[i].original))
            ELSE moved[i - 1]
    IN moved[Len(applied)]

\* Whether the mappings know the column of a position: they drop the columns behind an
\* edit that replaces or inserts a line end, on the line where it ends.
\* (SourceMapping.cpp:157, :240, :326)
Tracked(position) ==
    ~\E i \in DOMAIN applied :
        LET edit == applied[i]
        IN /\ edit.original.end.line = position.line
           /\ ~Precedes(position, edit.original.end)
           /\ \E side \in {"original", "transformed"} : edit[side].begin.line # edit[side].end.line

TrackedPlaces == {k \in Untouched : Tracked(PositionOf(source, k))}

TrackedEdits == {i \in DOMAIN applied : Tracked(applied[i].original.begin)}

\* The transformed text keeps every byte that no edit replaces, at its place.
UntouchedBytesStay ==
    applied # <<>> =>
        \A k \in Untouched \ {Len(source)} :
            /\ Image(k) \in 0..Len(transformed) - 1
            /\ transformed[Image(k) + 1] = source[k + 1]

\* A position of the original text that no edit replaces maps to the same byte in the
\* transformed text, and one that is replaced to the start of its replacement.
\* (PluginTextDocument.hpp:11)
OriginalMapsForth ==
    applied # <<>> =>
        /\ \A k \in TrackedPlaces :
               OriginalToTransformed(PositionOf(source, k)) = PositionOf(transformed, Image(k))
        /\ \A i \in TrackedEdits :
               \A k \in First(applied[i].original)..Behind(applied[i].original) - 1 :
                   OriginalToTransformed(PositionOf(source, k)) = applied[i].transformed.begin

\* A diagnostic the type checker reports on untouched text is shown on that text, and
\* one on text that a plugin made up at the start of what it replaced.
\* (Plugin/README.md:136)
TransformedMapsBack ==
    applied # <<>> =>
        /\ \A k \in TrackedPlaces :
               TransformedToOriginal(PositionOf(transformed, Image(k))) = PositionOf(source, k)
        /\ \A i \in TrackedEdits, k \in 0..Len(transformed) :
               Inside(applied[i].transformed, PositionOf(transformed, k))
               => TransformedToOriginal(PositionOf(transformed, k)) = applied[i].original.begin
=============================================================================
