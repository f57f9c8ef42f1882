--------------------------- MODULE MCTextDocument ---------------------------
(***************************************************************************)
(* A character of one byte, one outside the basic plane (four bytes, two   *)
(* code units), and the three kinds of line end.                           *)
(***************************************************************************)
EXTENDS TextDocument

MCBytes == [c \in Char |-> IF c = "astral" THEN 4 ELSE 1]

MCUnits == [c \in Char |-> IF c = "astral" THEN 2 ELSE 1]

MCInsertion ==
    {<<>>, <<"a">>, <<"astral">>, <<"LF">>, <<"CR">>, <<"CR", "LF">>,
     <<"a", "CR", "LF", "a">>}
=============================================================================
