-------------------------- MODULE MCLanguageClient --------------------------
\* Two settings: the defaults with a downloaded library, and a user who replaces
\* the built-in definitions by a local file and overrides a flag.
EXTENDS LanguageClient

Remote(name) == [external |-> TRUE, name |-> name]
Local(name) == [external |-> FALSE, name |-> name]
NoFlags == [f \in {} |-> ""]

MCSettings ==
    {[user |-> [p \in {"lib"} |-> Remote("lib")],
      builtin |-> [p \in {"overdare"} |-> Local("globalTypes")],
      disk |-> {"globalTypes"}, sync |-> FALSE, upstream |-> NoFlags,
      newSolver |-> TRUE, override |-> NoFlags],
     [user |-> [p \in {"overdare"} |-> Local("mine")],
      builtin |-> [p \in {"overdare"} |-> Local("globalTypes")],
      disk |-> {"mine", "globalTypes"}, sync |-> TRUE,
      upstream |-> [f \in {"LuauSolverV2"} |-> "false"],
      newSolver |-> TRUE, override |-> [f \in {"LuauSolverV2"} |-> "false"]]}

=============================================================================
