--------------------------- MODULE MCInstanceTypes ---------------------------
(***************************************************************************)
(* Small projects: a plain name and one container on each side; the module *)
(* that is checked stands right below the root.                            *)
(***************************************************************************)
EXTENDS InstanceTypes

MCServer == {<<"ServerStorage">>}

MCClient == {<<"StarterGui">>}

MCName == {<<"A">>, <<"A", 1>>} \cup MCServer \cup MCClient

MCOpened == {<<<<"game">>, <<"A">>>>}

MCCopies == [class \in {<<"PlayerGui">>} |-> <<<<"StarterGui">>>>]

MCPlayerPaths ==
    [path \in {<<<<"game">>, <<"Players">>, <<"LocalPlayer">>, <<"PlayerGui">>>>} |->
        <<<<"game">>, <<"StarterGui">>>>]
=============================================================================
