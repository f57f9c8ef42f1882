----------------------------- MODULE Sourcemap -----------------------------
(***************************************************************************)
(* The instance tree of the sourcemap, the names the type checker knows    *)
(* its modules by, and the paths of require calls                          *)
(* (platform/overdare/OverdareSourcemap.cpp, OverdareSourceNode.cpp,       *)
(* OverdareFileResolver.cpp, Utils.cpp).                                   *)
(*                                                                         *)
(* The tree is walked by its nodes in one part of the code and by strings  *)
(* such as "game/A/B" in the other; the two have to agree.  A tree is the  *)
(* sequence of its nodes in preorder, each with the place of its parent.   *)
(* A name is a tuple, so that <<"A", 1>> stands for "A_1" and is also what *)
(* the second child named <<"A">> is called.                               *)
(***************************************************************************)
EXTENDS Naturals, SequencesExt

CONSTANTS
    Name,             \* the names of instances
    Class,            \* their classes
    RootClass,        \* the classes of the root
    ServerContainer,  \* the names whose children run on the server
    ClientContainer,  \* the names whose children run on the client
    PlayerPaths,      \* the paths of a player's containers, each with what they are copied from
    MaxNodes          \* bound: the nodes of a tree

ScriptClass == {"ModuleScript", "Script", "LocalScript"}

Folder == "Folder"

Up == <<"..">>

\* Names are tuples, and none is what stands for the parent in a path.
ASSUME SourcemapAssumption ==
    /\ \A name \in Name :
           /\ Len(name) \in Nat /\ name = [i \in 1..Len(name) |-> name[i]]
           /\ name # Up
    /\ Class \subseteq ScriptClass \cup {Folder}
    /\ RootClass \subseteq {"DataModel", Folder}
    /\ ServerContainer \cap ClientContainer = {}
    /\ MaxNodes \in Nat

VARIABLES
    file,          \* the tree in the sourcemap file
    tree,          \* the tree below rootSourceNode, empty when that is null
    virtualPath,   \* virtualPath[n], of each node of the tree
    context,       \* scriptContext
    virtualPaths,  \* virtualPathsToSourceNodes
    realPaths      \* realPathsToSourceNodes

vars == <<file, tree, virtualPath, context, virtualPaths, realPaths>>

Empty == [x \in {} |-> 0]

\* No node, and the file of a node that is no script.  Every script has a file of
\* its own, named by a number.
NoNode == 0

NoFile == 0

-----------------------------------------------------------------------------
(* Nodes                                                                   *)

Root == 1

Nodes(t) == DOMAIN t

IsScript(t, n) == t[n].className \in ScriptClass

\* The ancestors of each node, without the node itself.
Ancestors(t) ==
    LET above[n \in Nodes(t)] ==
            IF n = Root THEN {} ELSE {t[n].parent} \cup above[t[n].parent]
    IN above

Children(t, n) == {c \in Nodes(t) \ {Root} : t[c].parent = n}

\* findChild: the first child of the name.
FindChild(t, n, name) ==
    LET named == {c \in Children(t, n) : t[c].name = name}
    IN IF named = {} THEN NoNode ELSE Min(named)

\* findDescendant goes level by level, each of them in preorder.
FindDescendant(t, n, name) ==
    LET named == {d \in Nodes(t) : n \in Ancestors(t)[d] /\ t[d].name = name}
        depth(d) == Cardinality(Ancestors(t)[d])
        highest == {d \in named : \A other \in named : depth(d) <= depth(other)}
    IN IF named = {} THEN NoNode ELSE Min(highest)

\* findAncestor: the closest ancestor of the name.
FindAncestor(t, n, name) ==
    LET named == {a \in Ancestors(t)[n] : t[a].name = name}
    IN IF named = {} THEN NoNode ELSE Max(named)

-----------------------------------------------------------------------------
(* writePathsToMap                                                         *)

\* Mutant: same-named siblings are not told apart.
PlainSegment(t, n) == t[n].name

\* The last part of a virtual path: a child with elder siblings of its name has
\* their number behind it.
Segment(t, n) ==
    LET elder == {c \in Children(t, t[n].parent) : c < n /\ t[c].name = t[n].name}
    IN IF elder = {} THEN t[n].name ELSE Append(t[n].name, Cardinality(elder))

RootPath(t) == IF t[Root].className = "DataModel" THEN <<"game">> ELSE <<"ProjectRoot">>

VirtualPathOf(t) ==
    LET path[n \in Nodes(t)] ==
            IF n = Root THEN <<RootPath(t)>> ELSE Append(path[t[n].parent], Segment(t, n))
    IN path

\* childNameContext
NameContext(name, above) ==
    CASE name \in ServerContainer -> "Server"
      [] name \in ClientContainer -> "Client"
      [] OTHER -> above

\* The context of the closest container, the node itself included.
ContainerContext(t) ==
    LET below[n \in Nodes(t)] ==
            NameContext(t[n].name, IF n = Root THEN "Shared" ELSE below[t[n].parent])
    IN below

ContextOf(t) ==
    [n \in Nodes(t) |->
        CASE t[n].className = "Script" -> "Server"
          [] t[n].className = "LocalScript" -> "Client"
          [] OTHER -> IF n = Root THEN "Shared" ELSE ContainerContext(t)[t[n].parent]]

\* A map from what the nodes have to the nodes; the last one written stays.
LastNode(keys) == [k \in Range(keys) |-> Max({n \in DOMAIN keys : keys[n] = k})]

Files(t) == [n \in {m \in Nodes(t) : t[m].file # NoFile} |-> t[n].file]

-----------------------------------------------------------------------------
(* Loading the sourcemap                                                   *)

Init ==
    /\ file \in {<<[parent |-> NoNode, name |-> <<"Game">>, className |-> class,
                    file |-> NoFile]>> : class \in RootClass}
    /\ tree = <<>>
    /\ virtualPath = Empty
    /\ context = Empty
    /\ virtualPaths = Empty
    /\ realPaths = Empty

\* updateSourceNodeMap with a sourcemap that can be parsed.
Load(t) ==
    /\ tree' = t
    /\ virtualPath' = VirtualPathOf(t)
    /\ context' = ContextOf(t)
    /\ virtualPaths' = LastNode(virtualPath')
    /\ realPaths' = LastNode(Files(t))

\* updateSourceNodeMap with one that cannot: rootSourceNode stays null.
Clear ==
    /\ tree' = <<>>
    /\ virtualPath' = Empty
    /\ context' = Empty
    /\ virtualPaths' = Empty
    /\ realPaths' = Empty

\* In preorder a node can only be added below the last one or its ancestors.  The
\* containers are services and no scripts.
AddInstance(parent, name, class) ==
    /\ Len(file) < MaxNodes
    /\ parent \in {Len(file)} \cup Ancestors(file)[Len(file)]
    /\ name \in ServerContainer \cup ClientContainer => class = Folder
    /\ file' = Append(file, [parent |-> parent, name |-> name, className |-> class,
                             file |-> IF class = Folder THEN NoFile ELSE Len(file) + 1])
    /\ Load(file')

RemoveInstance ==
    /\ Len(file) > 1
    /\ file' = SubSeq(file, 1, Len(file) - 1)
    /\ Load(file')

\* The file is read while it is being written.
ReadMalformed ==
    /\ Clear
    /\ UNCHANGED file

Next ==
    \/ \E parent \in Nodes(file), name \in Name, class \in Class :
           AddInstance(parent, name, class)
    \/ RemoveInstance
    \/ ReadMalformed

Spec == Init /\ [][Next]_vars

-----------------------------------------------------------------------------
(* Looking modules up                                                      *)

Lookup(map, key) == IF key \in DOMAIN map THEN map[key] ELSE NoNode

Unresolved == <<>>

\* resolveToRealPath
ResolveToRealPath(path) ==
    LET n == Lookup(virtualPaths, path) IN IF n = NoNode THEN NoFile ELSE tree[n].file

\* resolveToVirtualPath
ResolveToVirtualPath(f) ==
    LET n == Lookup(realPaths, f) IN IF n = NoNode THEN <<>> ELSE virtualPath[n]

\* getParentPath.  The parent of "game" is the empty path, which has none.
ParentPath(path) == SubSeq(path, 1, Len(path) - 1)

\* getAncestorPath: up to the last occurrence of the name in the parent's path; the root
\* of a project that is no DataModel is found by its own name.
AncestorPath(path, name) ==
    LET parent == ParentPath(path)
        places == {i \in DOMAIN parent : parent[i] = name}
    IN IF places # {} THEN SubSeq(parent, 1, Max(places))
       ELSE IF /\ tree # <<>> /\ tree[Root].name = name
               /\ parent # <<>> => Head(parent) # <<"game">>
            THEN <<<<"ProjectRoot">>>>
       ELSE Unresolved

\* mapContext
MapContext(path) == IF path \in DOMAIN PlayerPaths THEN PlayerPaths[path] ELSE path

\* resolveModule, of script.Name, script["Name"], script:WaitForChild("Name") and
\* script:FindFirstChild("Name", recursive).
ResolveChild(path, name, recursive) ==
    IF recursive THEN Unresolved ELSE Append(MapContext(path), name)

\* MagicChildLookup: the type of the same expression.
MagicChildLookup(n, name, recursive) ==
    IF recursive THEN FindDescendant(tree, n, name) ELSE FindChild(tree, n, name)

\* MagicFindFirstAncestor: the type of script:FindFirstAncestor("Name").
MagicFindFirstAncestor(n, name) == FindAncestor(tree, n, name)

-----------------------------------------------------------------------------
(* Requires by string.  A path has an anchor and steps, each of them a     *)
(* name or "..".                                                           *)

Style == {"Auto", "AlwaysRelative", "AlwaysAbsolute"}

\* One step of a path from "base"; there is nothing above the empty path.
Walk(base, step) ==
    IF base.lost THEN base
    ELSE IF step = Up THEN [path |-> ParentPath(base.path), lost |-> base.path = <<>>]
    ELSE [path |-> Append(base.path, step), lost |-> FALSE]

\* resolveStringRequire, from a module of the sourcemap and with no aliases in its
\* .luaurc.
ResolveStringRequire(from, require) ==
    IF require.anchor = "@self" THEN from \o require.steps
    ELSE IF require.anchor = "@game"
         THEN IF tree = <<>> THEN Unresolved ELSE virtualPath[Root] \o require.steps
    ELSE LET base[i \in 0..Len(require.steps)] ==
                 IF i = 0 THEN [path |-> ParentPath(from), lost |-> FALSE]
                 ELSE Walk(base[i - 1], require.steps[i])
             end == base[Len(require.steps)]
         IN IF end.lost THEN Unresolved ELSE end.path

NoRequire == [anchor |-> "none", steps |-> <<>>]

\* isScriptContextCompatible
Compatible(one, other) == "Shared" \in {one, other} \/ one = other

\* computeAbsolute
Absolute(target) ==
    LET path == virtualPath[target]
    IN [anchor |-> "@game",
        steps |-> IF Head(path) = <<"game">> /\ Len(path) > 1 THEN Tail(path) ELSE path]

\* The names of the nodes below "top" on the way down to n, n included.
NamesDown(top, n) ==
    LET names[m \in Nodes(tree)] ==
            IF m <= top THEN <<>> ELSE Append(names[tree[m].parent], tree[m].name)
    IN names[n]

\* Mutant: the hops are counted from the requiring script and not its parent.
HopsUpFromScript(top, n) == Cardinality({m \in {n} \cup Ancestors(tree)[n] : m > top})

HopsUp(top, n) == Cardinality({m \in Ancestors(tree)[n] : m > top})

\* getServiceNode
Service(n) == IF n = Root THEN Root ELSE Min(({n} \cup Ancestors(tree)[n]) \ {Root})

\* getAutoImportsModuleVisitor: the modules an import is looked for among, from one of
\* the sourcemap.
Visited(from) ==
    IF tree = <<>> \/ from \notin DOMAIN virtualPaths THEN {} ELSE Range(virtualPaths)

\* computeSourcemapRequirePath: what an auto-import of "target" writes.
RequirePath(from, target, style) ==
    LET common == ({target} \cup Ancestors(tree)[target]) \cap Ancestors(tree)[from]
        top == Max(common)
        relative == [anchor |-> "relative",
                     steps |-> [i \in 1..HopsUp(top, from) |-> Up] \o NamesDown(top, target)]
    IN IF ~IsScript(tree, target) \/ ~Compatible(context[from], context[target]) THEN NoRequire
       ELSE IF style = "AlwaysAbsolute" THEN Absolute(target)
       ELSE IF from \in Ancestors(tree)[target]
            THEN [anchor |-> "@self", steps |-> NamesDown(from, target)]
       ELSE IF common # {} /\ (style = "AlwaysRelative" \/ Service(from) = Service(target))
            THEN relative
       ELSE Absolute(target)

-----------------------------------------------------------------------------
(* Completion within the quotes of a require (SourceNodeRequireNode).      *)

\* walkPath
WalkPath(t, top, steps) ==
    LET at[i \in 0..Len(steps)] ==
            IF i = 0 THEN top
            ELSE IF at[i - 1] = NoNode THEN NoNode
            ELSE IF steps[i] = Up THEN t[at[i - 1]].parent
            ELSE FindChild(t, at[i - 1], steps[i])
    IN at[Len(steps)]

\* resolvePathToNode, with no user aliases; no file of an instance is an init file.
ResolvePathToNode(from, require) ==
    IF require.anchor = "@game" THEN WalkPath(tree, Root, require.steps)
    ELSE IF from = Root THEN NoNode
    ELSE WalkPath(tree, tree[from].parent, require.steps)

\* getChildren
Suggested(from, require) ==
    LET n == ResolvePathToNode(from, require)
    IN IF n = NoNode THEN {}
       ELSE {c \in Children(tree, n) : IsScript(tree, c) \/ Children(tree, c) # {}}

-----------------------------------------------------------------------------
(* Properties                                                              *)

\* No map leads to a node of an earlier tree, whose memory is gone, and none misses a
\* node of this one.  (CHANGELOG.md:228)
MapsAreCurrent ==
    /\ Range(virtualPaths) \subseteq Nodes(tree)
    /\ Range(realPaths) \subseteq Nodes(tree)
    /\ \A n \in Nodes(tree) :
           /\ virtualPath[n] \in DOMAIN virtualPaths
           /\ tree[n].file # NoFile => tree[n].file \in DOMAIN realPaths

\* No instance has for its own name one that a sibling gets with its number, as the
\* third of A, A and A_1 has.
NumbersAreFree ==
    \A m, n \in Nodes(tree) \ {Root} :
        tree[m].parent = tree[n].parent /\ Segment(tree, m) # tree[m].name
        => Segment(tree, m) # tree[n].name

\* Every file in the sourcemap has a module name of its own, which leads back to it,
\* as long as a number does not make one name of two.  (OverdareSourcemap.cpp:494-500)
FilesHaveNames ==
    NumbersAreFree =>
        \A f \in DOMAIN realPaths : ResolveToRealPath(ResolveToVirtualPath(f)) = f

Scripts == {n \in Nodes(tree) : IsScript(tree, n)}

\* No elder sibling of n, or of a node above it, has the same name.
Unshadowed(n) ==
    \A m \in {n} \cup Ancestors(tree)[n] : m # Root => Segment(tree, m) = tree[m].name

\* An auto-import is looked for among all modules, and the path that it writes leads to
\* the module, with each style and wherever the two scripts are; unless siblings share
\* a name, or the root is no DataModel and the path starts there.
ImportsResolve ==
    \A from \in Scripts : \A target \in Scripts \ {from} :
        Unshadowed(target) =>
            /\ target \in Visited(virtualPath[from])
            /\ \A style \in Style :
                LET require == RequirePath(from, target, style)
                IN /\ require # NoRequire
                   /\ require.anchor = "@game" => tree[Root].className = "DataModel"
                   => Lookup(virtualPaths, ResolveStringRequire(virtualPath[from], require))
                          = target

\* A script on the client is not offered a module that only the server has, nor the
\* other way round: where a script runs is decided by its class, and else by the
\* closest container above it.  (CHANGELOG.md:268)
ImportsRespectBoundary ==
    LET containers(n) ==
            {a \in Ancestors(tree)[n] : tree[a].name \in ServerContainer \cup ClientContainer}
        onServer(n) ==
            \/ tree[n].className = "Script"
            \/ /\ tree[n].className # "LocalScript"
               /\ containers(n) # {} /\ tree[Max(containers(n))].name \in ServerContainer
        onClient(n) ==
            \/ tree[n].className = "LocalScript"
            \/ /\ tree[n].className # "Script"
               /\ containers(n) # {} /\ tree[Max(containers(n))].name \in ClientContainer
    IN \A from, target \in Scripts :
           (onServer(from) /\ onClient(target)) \/ (onClient(from) /\ onServer(target))
           => \A style \in Style : RequirePath(from, target, style) = NoRequire

\* An auto-import is offered for what may be imported, and then it leads there.
ImportsAreUsable == (NumbersAreFree => ImportsResolve) /\ ImportsRespectBoundary

\* require(script.Name) reads the module whose type script.Name has: the lookup by
\* string and the one in the tree find the same child, unless the instance stands
\* where a player's containers will be, or the name is one that a child got with its
\* number.
ChildrenAgree ==
    \A n \in Nodes(tree), name \in Name, recursive \in BOOLEAN :
        LET path == ResolveChild(virtualPath[n], name, recursive)
        IN /\ path # Unresolved /\ virtualPath[n] \notin DOMAIN PlayerPaths
           /\ \A c \in Children(tree, n) : Segment(tree, c) = name => tree[c].name = name
           => Lookup(virtualPaths, path) = MagicChildLookup(n, name, recursive)

\* What is suggested behind the path typed so far is what the require leads to when it
\* is accepted, unless an elder sibling of its name hides it.
SuggestionsAgree ==
    \A from \in Scripts, anchor \in {"relative", "@game"} :
        \A steps \in {<<>>, <<Up>>, <<Up, Up>>} :
            \A c \in Suggested(from, [anchor |-> anchor, steps |-> steps]) :
                LET accepted == [anchor |-> anchor, steps |-> Append(steps, tree[c].name)]
                IN Unshadowed(c) /\ (anchor = "@game" => steps = <<>>)
                   => Lookup(virtualPaths, ResolveStringRequire(virtualPath[from], accepted)) = c

\* So do the two lookups of script:FindFirstAncestor("Name"), the root by its name
\* included; but a DataModel is called "game" in paths, whatever its name.
AncestorsAgree ==
    \A n \in Nodes(tree) \ {Root} :
        \A name \in (Name \cup {tree[Root].name}) \ {RootPath(tree)} :
            /\ tree[Root].className = "DataModel" => name # tree[Root].name
            /\ \A a \in Ancestors(tree)[n] : Unshadowed(a)
            => Lookup(virtualPaths, AncestorPath(virtualPath[n], name))
                   = MagicFindFirstAncestor(n, name)
=============================================================================
