-------------------------- MODULE MCSourceMapping --------------------------
(***************************************************************************)
(* Every source of a few bytes on one or two lines, and edits that delete, *)
(* insert and replace.                                                     *)
(***************************************************************************)
EXTENDS SourceMapping

CONSTANT MaxSource    \* bound: the length of the source

MCSources ==
    {s \in BoundedSeq({"x", LF}, MaxSource) : Cardinality({i \in DOMAIN s : s[i] = LF}) <= 1}

MCNewText == {<<>>, <<"y">>, <<"y", "y">>, <<"y", "LF">>}
=============================================================================
