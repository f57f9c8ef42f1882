--------------------------- MODULE MCImportEdits ----------------------------
(* A workspace w with a library beside it, one directory with an init file *)
(* and two modules of one name.                                            *)
EXTENDS ImportEdits

MCFiles == {[path |-> <<"w", "x">>, ext |-> "luau"], [path |-> <<"w", "a", "init">>, ext |-> "luau"],
            [path |-> <<"w", "a", "x">>, ext |-> "lua"], [path |-> <<"w", "a", "y">>, ext |-> "luau"],
            [path |-> <<"lib", "l">>, ext |-> "luau"]}
MCHomes == {f \in MCFiles : f.path \in {<<"w", "a", "init">>, <<"w", "a", "y">>}}
MCIgnored == {}
MCRoot == <<"w">>
MCConfigDirs == {<<"w">>, <<"w", "a">>}

To(steps) == [lead |-> ".", steps |-> steps]
Through(steps) == [lead |-> "@", steps |-> steps]
Plain == [ok |-> TRUE, aliases |-> [lib |-> To(<<"..", "lib">>)]]
Chained == [ok |-> TRUE, aliases |-> [lib |-> Through(<<"base">>), base |-> To(<<"/", "w">>)]]
Broken == [ok |-> FALSE, aliases |-> [base |-> Through(<<"base">>)]]

Nothing == [dir \in {<<"w">>, <<"w", "a">>} |-> [kind \in {"luau", "luaurc", "robloxrc"} |-> NoFile]]
MCDisks == {[Nothing EXCEPT ![<<"w">>]["robloxrc"] = Plain, ![<<"w">>]["luau"] = Broken, ![<<"w", "a">>]["luaurc"] = Chained]}
MCContents == {Chained, Broken}

Code(kind, name, uses, len) == [Blank EXCEPT !.kind = kind, !.name = name, !.uses = uses, !.len = len]
Use(name) == Code("code", "", name, 1)
Service(name) == Code("service", name, "", 1)
Req(name, lead, steps, uses) == [Code("require", name, uses, 1) EXCEPT !.lead = lead, !.steps = steps]
Rest == Code("tail", "", "", 1)

MCServices == {"RS", "SS"}
MCInstances == {[name |-> "x", path |-> <<"RS", "x">>], [name |-> "l", path |-> <<"RS", "l">>], [name |-> "y", path |-> <<"SS", "y">>]}
MCHomePath == <<"SS", "a">>

MCDocuments == {<<Use("x"), Use("l")>>,
                <<Service("SS"), Req("l", "@", <<"lib", "l">>, ""), Use("x")>>}
MCBlocks == {<<Code("hot", "", "", 1)>>, <<Service("RS")>>, <<Req("a", ".", <<"..", "a">>, "")>>,
             <<[Req("x", ".", <<".", "x">>, "") EXCEPT !.len = 2], Rest>>,
             <<Code("dead", "", "", 4), Code("function", "f", "", 2), Rest, Rest>>,
             <<Code("function", "f", "", 3), Req("x", "", <<"RS", "x">>, "RS"), Rest>>}

MCOrder == <<"..", ".", "RS", "SS", "Parent", "a", "base", "f", "init", "l", "lib", "script", "self", "w", "x", "y", "_">>
MCSizeOf == [n \in Range(MCOrder) |-> IF n \in {"lib", "base"} THEN 3 ELSE 1]
MCSilenced == [n \in Range(MCOrder) |-> "_"]
=============================================================================
