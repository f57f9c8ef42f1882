------------------------------ MODULE Requires ------------------------------
(* Configurations and string requires where no sourcemap names the modules *)
(* (LSPPlatform, WorkspaceFileResolver): .config.luau, .luaurc and         *)
(* .robloxrc with their cache, aliases and chains of aliases, what a       *)
(* require resolves to, the path an auto-import writes, the paths that     *)
(* completion offers inside the quotes, and the first indexing.            *)
(*                                                                         *)
(* A path is the sequence of its names below the root of the file system;  *)
(* a module is a path and its extension.  The argument of a require is its *)
(* lead, "@" or ".", and the steps behind it: "@lib/x" is lead "@" with    *)
(* the steps lib and x, "./x" is lead "." with the steps "." and x.        *)
(* Aliases are in lower case.                                              *)
EXTENDS Naturals, SequencesExt

CONSTANTS
    Files,        \* the modules on disk
    Homes,        \* those that may be the document at hand
    Root,         \* the workspace folder
    ConfigDirs,   \* the directories that may have configuration files
    FirstDisks,   \* the configuration files there may be at first
    Contents,     \* what is written to them later
    Ignored,      \* modules that globs keep from auto-imports
    Styles,       \* completion.imports.requireStyle
    Semantics,    \* require.useOriginalRequireByStringSemantics
    SizeOf,       \* the length of a name
    MaxFiles,     \* index.maxFiles
    MaxChanges    \* bound on the changes to configuration files

Kinds == {"luau", "luaurc", "robloxrc"}
NoFile == [ok |-> TRUE, aliases |-> << >>]
NoConfig == << >>

Name == DOMAIN SizeOf
Step == Name \union {"/", "@", ".", ".."}
Argument == [lead : {"@", "."}, steps : Seq(Step)]

\* What a configuration file may hold.
IsWritten(file) ==
    /\ file.ok \in BOOLEAN
    /\ file.aliases = [a \in DOMAIN file.aliases |-> file.aliases[a]]
    /\ DOMAIN file.aliases \subseteq Name /\ IsFiniteSet(DOMAIN file.aliases)
    /\ \A a \in DOMAIN file.aliases : file.aliases[a] \in Argument /\ file.aliases[a].steps # << >>

\* No file or directory has a name that a path reads as a step, nor one that begins
\* with "@".
ASSUME PathAssumption ==
    /\ \A name \in {"/", "@", ".", ".."}, f \in Files : \A k \in DOMAIN f.path : f.path[k] # name
    /\ \A f \in Files : f.path \in Seq(Name) /\ f.path # << >> /\ f.ext \in {"luau", "lua"}
                        /\ f = [path |-> f.path, ext |-> f.ext]
    /\ Homes \subseteq Files
    /\ Root \in Seq(Name) /\ ConfigDirs \subseteq Seq(Name)

ASSUME ConfigAssumption ==
    /\ \A file \in Contents : IsWritten(file)
    /\ \A d \in FirstDisks : /\ DOMAIN d = ConfigDirs
                             /\ \A dir \in ConfigDirs : /\ DOMAIN d[dir] = Kinds
                                                        /\ \A kind \in Kinds : IsWritten(d[dir][kind])

VARIABLES
    disk,       \* the configuration files, by directory and kind
    unseen,     \* changed files the server was not yet told of
    changes,    \* how many there were
    cache,      \* configCache: the aliases in force in a directory
    shown,      \* the files that show an error
    indexed,    \* whether indexFiles has run
    known,      \* the modules the frontend has a source node of
    home,       \* the document at hand
    style, original

configVars == <<disk, unseen, changes, cache, shown>>
requireVars == <<configVars, indexed, known, home, style, original>>

-----------------------------------------------------------------------------
(* Paths (Uri).                                                            *)

IsInit(path) == path # << >> /\ Last(path) = "init"

Dirs == {<< >>} \union UNION {Prefixes(Front(f.path)) : f \in Files}

\* The parent of the root is the root.
Walk(path, step) == IF step = ".." THEN Front(path)
                    ELSE IF step \in {".", "/"} THEN path ELSE Append(path, step)

\* Steps that begin with "/" are absolute.
ResolvePath(base, steps) ==
    LET path[n \in 0..Len(steps)] ==
            IF n = 0 THEN IF steps # << >> /\ Head(steps) = "/" THEN << >> ELSE base
            ELSE Walk(path[n - 1], steps[n])
    IN  path[Len(steps)]

\* A target is a directory or a file, whose extension tells its last name
\* from a directory's.
Target(m) == IF IsInit(m.path) THEN [path |-> Front(m.path), isDir |-> TRUE]
             ELSE [path |-> m.path, isDir |-> FALSE]

DirsOf(target) == Prefixes(IF target.isDir THEN target.path ELSE Front(target.path))

LexicallyRelative(target, base) ==
    LET common == CHOOSE p \in DirsOf(target) \intersect Prefixes(base) :
                      \A q \in DirsOf(target) \intersect Prefixes(base) : Len(q) <= Len(p)
        up == [k \in 1..(Len(base) - Len(common)) |-> ".."]
        down == SubSeq(target.path, Len(common) + 1, Len(target.path))
    IN  IF up \o down = << >> THEN <<".">> ELSE up \o down

-----------------------------------------------------------------------------
(* Configurations.                                                         *)

\* parseConfig: what was parsed before an error counts.
Parse(dir, file, config) ==
    [a \in DOMAIN file.aliases \union DOMAIN config |->
        IF a \in DOMAIN file.aliases THEN [at |-> dir, value |-> file.aliases[a]] ELSE config[a]]

\* The files of a directory, .config.luau first.
Own(dir, config) ==
    LET luau == Parse(dir, disk[dir]["luau"], config)
    IN  IF disk[dir]["luaurc"] # NoFile THEN Parse(dir, disk[dir]["luaurc"], luau)
        ELSE Parse(dir, disk[dir]["robloxrc"], luau)

\* From the root down, what the directories add to each other's aliases.
ReadConfigRec(dir, cached) ==
    LET config[n \in 0..Len(dir)] ==
            LET at == SubSeq(dir, 1, n)
                inherited == IF n = 0 THEN NoConfig ELSE config[n - 1]
            IN  IF at \in DOMAIN cached THEN cached[at]
                ELSE IF at \in ConfigDirs THEN Own(at, inherited) ELSE inherited
    IN  config[Len(dir)]

\* An error of .config.luau is shown at .luaurc, which clears it when it is
\* read without one.
ShownOf(dir, before) ==
    LET files == disk[dir]
        showing(kind, ok, S) == IF ok THEN S \ {<<dir, kind>>} ELSE S \union {<<dir, kind>>}
        first == IF files["luau"] = NoFile THEN before ELSE showing("luaurc", files["luau"].ok, before)
    IN  IF files["luaurc"] # NoFile THEN showing("luaurc", files["luaurc"].ok, first)
        ELSE IF files["robloxrc"] # NoFile THEN showing("robloxrc", files["robloxrc"].ok, first)
        ELSE first

\* What readConfigRec leaves behind: a directory and those above it that were
\* not in the cache c.
Cached(dir, c) ==
    [d \in Prefixes(dir) \union DOMAIN c |-> IF d \in DOMAIN c THEN c[d] ELSE ReadConfigRec(d, c)]

Shown(dir, c, before) == FoldSet(LAMBDA d, S : ShownOf(d, S), before, (Prefixes(dir) \intersect ConfigDirs) \ DOMAIN c)

ReadsConfig(dir, c) == cache' = Cached(dir, c) /\ shown' = Shown(dir, c, shown)

\* getConfig looks above the directory of an init file.
ConfigDir(m) == IF IsInit(m.path) /\ Len(m.path) > 1 THEN Front(Front(m.path)) ELSE Front(m.path)

Config(m) == ReadConfigRec(ConfigDir(m), cache)

-----------------------------------------------------------------------------
(* Aliases and requires.                                                   *)

Relative(steps) == [lead |-> ".", steps |-> steps]
Aliased(steps) == [lead |-> "@", steps |-> steps]

\* The path of an argument as if there were no aliases: the one that it begins with is
\* taken for a directory of that name.
Literally(arg) == IF arg.lead = "@" THEN <<"@">> \o Tail(arg.steps) ELSE arg.steps

ResolveAliasLocation(info) == ResolvePath(info.at, Literally(info.value))

\* Where an alias leads, if it leads anywhere: through the aliases that its value
\* begins with, each at most once.
AliasedPlaces(alias, config, from) ==
    LET isChain(a) == a \in DOMAIN config /\ config[a].value.lead = "@"
        ends(a) == IF a \in DOMAIN config THEN {ResolveAliasLocation(config[a])}
                   ELSE {from : b \in {a} \intersect {"self"}}
        follow[visited \in SUBSET DOMAIN config] ==
            [a \in DOMAIN config |->
                LET next == Head(config[a].value.steps)
                    places == IF isChain(next) THEN follow[visited \union {a}][next] ELSE ends(next)
                IN  IF a \in visited THEN {}
                    ELSE {ResolvePath(p, Tail(config[a].value.steps)) : p \in places}]
    IN  IF isChain(alias) THEN follow[{}][alias] ELSE ends(alias)

\* resolveAliasWithCycleCheck: the path, if there is one.
ResolveAlias(arg, config, from) ==
    IF arg.lead # "@" THEN {}
    ELSE {ResolvePath(p, Tail(arg.steps)) : p \in AliasedPlaces(Head(arg.steps), config, from)}

\* resolveStringRequire: a file that need not exist.
ResolveStringRequire(from, arg, config) ==
    LET dir == Front(from.path)
        base == IF IsInit(from.path) /\ ~original THEN Front(dir) ELSE dir
        aliased == ResolveAlias(arg, config, dir)
        path == IF aliased = {} THEN ResolvePath(base, Literally(arg)) ELSE CHOOSE p \in aliased : TRUE
        file == IF path \in Dirs THEN Append(path, "init") ELSE path
    IN  [path |-> file, ext |-> IF [path |-> file, ext |-> "luau"] \in Files THEN "luau" ELSE "lua"]

\* computeBestAliasedPath: the shortest text; which of two equally short ones
\* depends on the order of the alias map.
BestAliasedPaths(target, config) ==
    LET above == {a \in DOMAIN config : ResolveAliasLocation(config[a]) \in DirsOf(target)}
        rest(a) == SubSeq(target.path, Len(ResolveAliasLocation(config[a])) + 1, Len(target.path))
        size(a) == FoldLeft(LAMBDA n, name : n + 1 + SizeOf[name], SizeOf[a], rest(a))
    IN  {Aliased(<<a>> \o rest(a)) : a \in {b \in above : \A c \in above : size(b) <= size(c)}}

\* Mutant: a path out of the directory of an init file keeps the step the
\* resolver has taken already.
RelativePathKeepingStep(from, steps) ==
    LET leaves == Len(steps) > 1 /\ Head(steps) = ".."
    IN  IF leaves THEN Relative(steps)
        ELSE IF IsInit(from.path) THEN Aliased(<<"self">> \o steps) ELSE Relative(<<".">> \o steps)

\* The end of computeRequirePath.
RelativePath(from, steps) ==
    LET leaves(s) == Len(s) > 1 /\ Head(s) = ".."
        dotted(s) == IF leaves(s) THEN Relative(s) ELSE Relative(<<".">> \o s)
    IN  IF ~IsInit(from.path) THEN dotted(steps)
        ELSE IF leaves(steps) THEN dotted(Tail(steps)) ELSE Aliased(<<"self">> \o steps)

\* computeRequirePath.  preferRelative compares the paths as texts; names
\* that begin with other names are not told apart.
RequirePaths(from, m, config) ==
    LET target == Target(m)
        aliased == BestAliasedPaths(target, config)
        near == \/ target.isDir /\ target.path \in Prefixes(from.path)
                \/ target.path # << >> /\ Front(target.path) = Front(from.path)
    IN  IF aliased # {} /\ (style = "alwaysAbsolute" \/ (style = "auto" /\ ~near)) THEN aliased
        ELSE {RelativePath(from, LexicallyRelative(target, Front(from.path)))}

-----------------------------------------------------------------------------
(* Completion within the quotes (FileRequireNode).                         *)

\* Mutant: a path in an init file starts in the file's own directory.
ResolvePathInDir(from, arg, config) ==
    LET dir == Front(from.path)
        aliased == ResolveAlias(arg, config, dir)
    IN  IF aliased # {} \/ arg.lead = "@" THEN aliased ELSE {ResolvePath(dir, arg.steps)}

ResolvePathToNode(from, arg, config) ==
    LET dir == Front(from.path)
        aliased == ResolveAlias(arg, config, dir)
    IN  IF aliased # {} \/ arg.lead = "@" THEN aliased
        ELSE {ResolvePath(IF IsInit(from.path) THEN Front(dir) ELSE dir, arg.steps)}

Children(path) ==
    {m \in Files \ Ignored : path = Front(m.path) /\ ~IsInit(m.path)}
    \union {[path |-> d, ext |-> ""] : d \in {e \in Dirs \ {<< >>} : path = Front(e)}}

AvailableAliases(from, config) == DOMAIN config \union {a \in {"self"} : IsInit(from.path)}

\* What is offered behind an argument typed so far: the new argument and the
\* file or directory meant.
Offers(from, arg, config) ==
    UNION {{[arg |-> [arg EXCEPT !.steps = Append(@, Last(m.path))], meant |-> m] : m \in Children(path)} :
           path \in ResolvePathToNode(from, arg, config)}

-----------------------------------------------------------------------------
(* Actions.                                                                *)

InitRequires ==
    /\ disk \in FirstDisks
    /\ unseen = {} /\ changes = 0
    /\ cache = NoConfig /\ shown = {}
    /\ home \in Homes /\ style \in Styles /\ original \in Semantics
    /\ indexed = FALSE /\ known = {home}

\* The user writes or deletes a configuration file.
ChangeConfig ==
    \E dir \in ConfigDirs, kind \in Kinds, file \in Contents \union {NoFile} :
        /\ changes < MaxChanges
        /\ file # disk[dir][kind]
        /\ disk' = [disk EXCEPT ![dir][kind] = file]
        /\ unseen' = unseen \union {<<dir, kind>>}
        /\ changes' = changes + 1
        /\ UNCHANGED <<cache, shown, indexed, known, home, style, original>>

\* Mutant: .config.luau is not among the names that clear the cache.
IsOldConfig(change) == change[2] \in {"luaurc", "robloxrc"}

IsConfig(change) == change[2] \in Kinds

\* onDidChangeWatchedFiles: the documents whose diagnostics are recomputed
\* read their configuration again, unless they are clean.
ConfigChanged(clean) ==
    \E change \in unseen :
        /\ unseen' = unseen \ {change}
        /\ LET cleared == IF IsConfig(change) THEN NoConfig ELSE cache
           IN  \/ ~clean /\ ReadsConfig(ConfigDir(home), cleared)
               \/ cache' = cleared /\ UNCHANGED shown
        /\ UNCHANGED <<disk, changes, indexed, known, home, style, original>>

\* indexFiles: the folder and the aliases out of it, as many files as the
\* limit allows.
IndexFiles ==
    /\ ~indexed /\ indexed' = TRUE
    /\ ReadsConfig(Root, cache)
    /\ LET config == ReadConfigRec(Root, cache)
           located == {ResolveAliasLocation(config[a]) : a \in DOMAIN config}
           roots == {Root} \union {p \in located \intersect Dirs : Root \notin Prefixes(p)}
           named == {m \in Files : m.path \in {p \in located \ Dirs : Root \notin Prefixes(p)}}
           found == {m \in Files : Prefixes(Front(m.path)) \intersect roots # {}}
       IN  \E some \in (IF Cardinality(named \union found) <= MaxFiles THEN {named \union found}
                        ELSE {S \in SUBSET (named \union found) : named \subseteq S /\ Cardinality(S) = MaxFiles}) :
               known' = known \union some
    /\ UNCHANGED <<disk, unseen, changes, home, style, original>>

-----------------------------------------------------------------------------
(* Properties.                                                             *)

\* A module without a file or a directory whose name hides it.
Alone(m) ==
    /\ \A f \in Files \ {m} : f.path # m.path
    /\ m.path \notin Dirs

\* Once the server has seen every change, what its cache holds is what the
\* configuration files say (readConfigRec, clearConfigCache and the names
\* onDidChangeWatchedFiles looks for).
ConfigIsCurrent == unseen = {} => \A dir \in DOMAIN cache : cache[dir] = ReadConfigRec(dir, NoConfig)

\* The path an auto-import writes (computeRequirePath) resolves to the module
\* it was written for (resolveStringRequire), whatever the aliases, the style
\* and the init files on either end; an alias named self takes the built-in
\* one's place, the original semantics are not the importer's, and one alias
\* that leaves the directory of another is not known for what it is.
ImportsResolve ==
    LET config == Config(home)
    IN  /\ ~original /\ "self" \notin DOMAIN config
        /\ \A a \in DOMAIN config : config[a].value.lead = "@" => ".." \notin Range(Tail(config[a].value.steps))
        =>  \A m \in {f \in Files \ {home} : Alone(f)} : \A arg \in RequirePaths(home, m, config) :
                ResolveStringRequire(home, arg, config) = m

\* What completion offers within the quotes of a require is what the require
\* will lead to, through aliases, chains of them and init files
\* (FileRequireNode against resolveStringRequire).
OffersResolve ==
    LET config == Config(home)
        typed == {Relative(<<".">>), Relative(<<".", "..">>), Relative(<<"..">>)}
                 \union {Aliased(<<a>>) : a \in AvailableAliases(home, config)}
    IN  ~original => \A arg \in typed : \A offer \in Offers(home, arg, config) :
            offer.meant.ext # "" /\ Alone(offer.meant) => ResolveStringRequire(home, offer.arg, config) = offer.meant

\* Both ways of writing a path, and the way to resolve it, agree.
PathsResolve == ImportsResolve /\ OffersResolve
=============================================================================
