---------------------------- MODULE MCExtension -----------------------------
\* Two versions of a project with two scripts of one name, exported with a gap
\* in their suffixes, a third script and a folder.  In the second version the
\* scripts change places and one of them changes its class.
EXTENDS Extension

Node(name, class) == [name |-> name, class |-> class]
File(base, suffix) == [base |-> base, suffix |-> suffix]

MCTree == << << Node("a", "Folder"), Node("a", "ModuleScript"), Node("b", "Script"), Node("a", "Script") >>,
             << Node("b", "LocalScript"), Node("a", "ModuleScript"), Node("b", "Script") >> >>
MCLua == << {File("a", -1), File("a", 6), File("b", -1)} >>

=============================================================================
