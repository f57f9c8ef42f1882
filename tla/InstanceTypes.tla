---------------------------- MODULE InstanceTypes ----------------------------
(***************************************************************************)
(* The types of the instances in the sourcemap and the modules checked     *)
(* with them (platform/overdare/OverdareSourcemap.cpp), with the old type  *)
(* solver, which has one set of global types for diagnostics and another   *)
(* for autocomplete.                                                       *)
(*                                                                         *)
(* The type of an instance is its node.  Each new sourcemap frees the      *)
(* types of the last one, and with them whatever still refers to them.     *)
(***************************************************************************)
EXTENDS Sourcemap

CONSTANTS
    Opened,    \* the names of the modules that are edited and checked
    Copies,    \* the containers whose children a declared class gets as well
    MaxTyped   \* bound: the nodes of the trees with which modules are checked

Classes == {<<class>> : class \in Class \cup RootClass}

\* mapContext has the paths of the containers that the types are copied for.  Neither
\* those nor the services have the class of something else.
ASSUME InstanceAssumption ==
    /\ MaxTyped \in Nat
    /\ \A path \in DOMAIN PlayerPaths :
           Last(path) \in DOMAIN Copies /\ PlayerPaths[path] = <<<<"game">>>> \o Copies[Last(path)]
    /\ \A class \in DOMAIN Copies : Copies[class] \in Seq(Name)
    /\ DOMAIN Copies \cap (ServerContainer \cup ClientContainer \cup Classes) = {}
    /\ (ServerContainer \cup ClientContainer) \cap ({<<"Game">>} \cup Classes) = {}

VARIABLES
    strict,      \* diagnostics.strictDatamodelTypes
    expressive,  \* what prepareModuleScope captured of it; empty before there is one
    props,       \* props[mode][class]: what was added to the declared classes
    modules      \* modules[name][mode]: the last check of a module

typeVars == <<strict, expressive, props, modules>>

Mode == {"check", "autocomplete"}

\* In the place of a node: a type that is gone.
Freed == MaxNodes + 1

\* The class of a node; the containers are services, each the only one of its class.
ClassName(t, n) ==
    IF t[n].name \in ServerContainer \cup ClientContainer THEN t[n].name
    ELSE <<t[n].className>>

Declared == ServerContainer \cup ClientContainer \cup DOMAIN Copies \cup Classes

-----------------------------------------------------------------------------
(* What the declared classes get                                           *)

\* The properties for the children of the nodes; of children with one name the last
\* gives it its type.
ChildTypes(t, nodes) ==
    LET children == UNION {Children(t, n) : n \in nodes}
    IN [name \in {t[c].name : c \in children} |-> Max({c \in children : t[c].name = name})]

\* The child of that name of the child of that name..., of the root.
NodeAt(t, names) == WalkPath(t, Root, names)

\* handleSourcemapUpdate: a class is declared for the DataModel, for its children of
\* that class, one after the other, or for a container of the player's.
DeclaredFor(t, class) ==
    IF class \in DOMAIN Copies THEN {NodeAt(t, Copies[class])} \ {NoNode}
    ELSE {n \in {Root} \cup Children(t, Root) : ClassName(t, n) = class}

\* addChildrenToCTV
AddChildren(children, added) ==
    [name \in DOMAIN children \cup DOMAIN added |->
        IF name \in DOMAIN children THEN children[name] ELSE added[name]]

AddTypes(t, added) ==
    IF t = <<>> \/ t[Root].className # "DataModel" THEN added
    ELSE [class \in Declared |->
             AddChildren(ChildTypes(t, DeclaredFor(t, class)), added[class])]

\* Mutant: the second set of global types keeps what was added to it.
ClearCheckedTypes(mode, added) ==
    IF mode = "check" THEN [class \in Declared |-> Empty]
    ELSE [class \in Declared |-> [name \in DOMAIN added[class] |-> Freed]]

\* clearSourcemapGeneratedTypes
ClearGeneratedTypes(mode, added) == [class \in Declared |-> Empty]

-----------------------------------------------------------------------------
(* The modules                                                             *)

\* "script" has the type of one node, or else none or any.
Unchecked == [script |-> {}, holds |-> "nothing", dirty |-> TRUE, invalid |-> FALSE]

\* Mutant: a module is only marked dirty.
MarkedDirty(m) == [m EXCEPT !.dirty = TRUE]

\* clearSourcemapTypes, of one module.
Marked(m) == [m EXCEPT !.dirty = TRUE, !.invalid = TRUE]

\* instanceTypes.clear(): what a type graph holds of it is gone.
AfterFree(m) ==
    IF m.holds = "nothing" THEN m
    ELSE [m EXCEPT !.holds = "freed", !.script = {Freed : n \in @}]

\* updateSourcemapTypes, after the tree was replaced.
UpdateSourcemapTypes ==
    /\ modules' = [name \in DOMAIN modules |->
                      [mode \in Mode |-> AfterFree(Marked(modules[name][mode]))]]
    /\ props' = [mode \in Mode |-> AddTypes(tree', ClearGeneratedTypes(mode, props[mode]))]
    /\ expressive' = IF tree' = <<>> THEN expressive ELSE {strict'}

\* prepareModuleScope: the type of "script" in the module of that name.
ScriptType(name, mode) ==
    {virtualPaths[n] : n \in {m \in {name} \cap DOMAIN virtualPaths :
                                  mode = "autocomplete" \/ TRUE \in expressive}}

-----------------------------------------------------------------------------
(* Actions                                                                 *)

InitTypes ==
    /\ Init
    /\ strict \in BOOLEAN
    /\ expressive = {}
    /\ props = [mode \in Mode |-> [class \in Declared |-> Empty]]
    /\ modules = Empty

\* updateSourceMap: a new sourcemap, or one that cannot be parsed.
UpdateSourceMap ==
    /\ Next
    /\ Len(tree') <= MaxTyped \/ modules = Empty
    /\ UNCHANGED strict
    /\ UpdateSourcemapTypes

\* setupWithConfiguration reads the sourcemap again.
ChangeStrict ==
    /\ Len(file) \in 2..MaxTyped
    /\ Load(file)
    /\ strict' = ~strict
    /\ UpdateSourcemapTypes
    /\ UNCHANGED file

\* checkStrict with a module that is dirty or not yet checked.
CheckModule(name, mode) ==
    LET before == IF name \in DOMAIN modules THEN modules[name]
                  ELSE [m \in Mode |-> Unchecked]
    IN /\ name \in DOMAIN virtualPaths
       /\ IsScript(tree, virtualPaths[name])
       /\ Len(tree) <= MaxTyped
       /\ before[mode].dirty
       /\ LET after == [before EXCEPT ![mode] =
                            [script |-> ScriptType(name, mode), holds |-> "live",
                             dirty |-> FALSE, invalid |-> FALSE]]
          IN modules' = [other \in {name} \cup DOMAIN modules |->
                            IF other = name THEN after ELSE modules[other]]
       /\ UNCHANGED <<vars, strict, expressive, props>>

\* markDirty
EditModule(name) ==
    /\ name \in DOMAIN modules
    /\ modules' = [modules EXCEPT ![name] = [mode \in Mode |-> [@[mode] EXCEPT !.dirty = TRUE]]]
    /\ UNCHANGED <<vars, strict, expressive, props>>

NextTypes ==
    \/ UpdateSourceMap
    \/ ChangeStrict
    \/ \E name \in Opened, mode \in Mode : CheckModule(name, mode)
    \/ \E name \in Opened : EditModule(name)

TypesSpec == InitTypes /\ [][NextTypes]_<<vars, typeVars>>

-----------------------------------------------------------------------------
(* Properties                                                              *)

\* No type graph that holds types of an earlier sourcemap, whose memory is gone, is
\* read: neither that of a module that counts as checked, nor the one that fragment
\* autocomplete reads of a module that is dirty and whose dependencies are valid; and
\* in the others "script" is the module's own node.
\* (OverdareSourcemap.cpp:384-388, Completion.cpp:738)
FreedTypesAreUnread ==
    \A name \in DOMAIN modules, mode \in Mode :
        LET m == modules[name][mode]
        IN ~(m.dirty /\ m.invalid) =>
               /\ m.holds # "freed"
               /\ m.script \subseteq {Lookup(virtualPaths, name)}

\* Nothing leads to what the last sourcemap left behind: no map to a node of an earlier
\* tree (rebuildPathMaps), and no type graph that is read to its types.
NothingFreedIsRead == MapsAreCurrent /\ FreedTypesAreUnread

\* The property of a class that an expression of the type of n finds.
TypedChild(mode, n, name) ==
    LET class == ClassName(tree, n)
    IN IF name \in DOMAIN ChildTypes(tree, {n}) THEN ChildTypes(tree, {n})[name]
       ELSE Lookup(props[mode][class], name)

\* The type of script.Name is that of the child that require(script.Name) reads; the
\* children of a service are found through its declared class as well, and those of
\* a container of the player's through its copy, where a require finds them too.  The
\* tree has no siblings of one name, and below the DataModel nothing but services, as
\* the code assumes.
TypesAgree ==
    (/\ \A n \in Nodes(tree) : Unshadowed(n)
     /\ \A s, n \in Nodes(tree) \ {Root} :
            tree[s].parent = Root /\ s # n => ClassName(tree, s) # ClassName(tree, n))
    => \A mode \in Mode, name \in Name :
          /\ \A n \in Nodes(tree) : TypedChild(mode, n, name) = FindChild(tree, n, name)
          /\ \A n \in Nodes(tree) :
                 tree[Root].className = "DataModel" /\ (n = Root \/ tree[n].parent = Root)
                 => Lookup(props[mode][ClassName(tree, n)], name) = FindChild(tree, n, name)
          /\ \A class \in DOMAIN Copies :
                 LET n == IF tree = <<>> \/ tree[Root].className # "DataModel" THEN NoNode
                          ELSE NodeAt(tree, Copies[class])
                     child == IF n = NoNode THEN NoNode ELSE FindChild(tree, n, name)
                 IN /\ Lookup(props[mode][class], name) = child
                    /\ \A path \in {p \in DOMAIN PlayerPaths : Last(p) = class} :
                           Lookup(virtualPaths, ResolveChild(path, name, FALSE)) = child

\* Whether an instance is looked up by a path, in the tree, as a type or within the
\* quotes of a require, the same one is found (resolveModule, findChild,
\* getSourcemapType, SourceNodeRequireNode), as long as a number does not make one name
\* of two.
LookupsAgree ==
    NumbersAreFree => ChildrenAgree /\ SuggestionsAgree /\ AncestorsAgree /\ TypesAgree
=============================================================================
