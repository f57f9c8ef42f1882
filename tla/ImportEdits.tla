----------------------------- MODULE ImportEdits -----------------------------
(* The edits of the imports at the head of a document (AutoImports,        *)
(* InstanceRequireAutoImporter, CodeAction, OverdareCodeAction): import a  *)
(* module or a service where it is used, add all missing ones, sort        *)
(* requires, sort services and remove unused code.  Each is a list of      *)
(* edits computed from one version of the document, which the client       *)
(* applies together.                                                       *)
(*                                                                         *)
(* A line holds at most one statement, which binds and uses at most one    *)
(* name and spans len lines.  Its further lines are tails, but for the     *)
(* body of a function or of unreachable code, which has lines of its own.  *)
(* An instance require has lead "" and the names of its path, and uses the *)
(* service that begins it; its modules are those of a sourcemap, the ones  *)
(* of string requires are files (Requires).                                *)
EXTENDS Requires

CONSTANTS
    FirstDocuments,  \* the documents that are opened
    Blocks,          \* the lines a user may write
    Services,        \* the services of the definitions file
    Instances,       \* the modules of the sourcemap: [name, path]
    HomePath,        \* the path of the document at hand among them
    Platforms,       \* "standard", "overdare"
    StringRequires,  \* completion.imports.stringRequires.enabled
    Separated,       \* completion.imports.separateGroupsWithLine
    Order,           \* the names in the order of their text
    Silenced,        \* a name with an underscore in front of it
    MaxLines,        \* bound on the length of the document
    MaxEdits         \* bound on the edits of files, configurations included

\* What stands in no list of bindings has no name.
IsLine(line) ==
    /\ {"kind", "name", "uses", "len"} \subseteq DOMAIN line
    /\ line.len \in Nat \ {0}
    /\ line.kind \in {"tail", "dead"} => line.name = ""
    /\ line.kind = "tail" => line.len = 1

IsText(text) == text \in Seq(Range(text)) /\ \A k \in DOMAIN text : IsLine(text[k])

ASSUME EditAssumption ==
    /\ \A text \in FirstDocuments \union Blocks : IsText(text)
    /\ Order \in Seq(Range(Order))

VARIABLES
    doc,       \* the lines
    clean,     \* checked since the last edit
    edits,     \* how many there were
    platform, strings, separated

docVars == <<doc, clean, edits, platform, strings, separated>>
vars == <<requireVars, docVars>>

-----------------------------------------------------------------------------
(* Documents and edits.  Lines count from 0.                               *)

Lines == 0..(Len(doc) - 1)
Line(i) == doc[i + 1]
End(i) == i + Line(i).len - 1
IsBlock(i) == Line(i).kind \in {"function", "dead"}
Blank == [kind |-> "blank", name |-> "", uses |-> "", lead |-> "", steps |-> << >>, len |-> 1]

Insert(i, text) == [from |-> i, to |-> i, text |-> text]
Delete(i, j) == [from |-> i, to |-> j, text |-> << >>]
Replace(i, line) == [from |-> i, to |-> i + 1, text |-> <<line>>]

\* What a client makes of a list of edits; statements around them grow and
\* shrink.
Apply(list) ==
    LET text(i) == FlattenSeq([k \in DOMAIN list |-> IF list[k].from = i THEN list[k].text ELSE << >>])
        deleted(i) == \E k \in DOMAIN list : list[k].from <= i /\ i < list[k].to
        new(i) == (IF deleted(i) THEN 1 ELSE 0)..Len(text(i))
        size(i) == 1 + Cardinality(UNION {{j} \X new(j) : j \in (i + 1)..End(i)})
        kept(i) == IF i \notin Lines \/ deleted(i) THEN << >>
                   ELSE <<[Line(i) EXCEPT !.len = IF IsBlock(i) THEN size(i) ELSE @]>>
    IN  FlattenSeq([k \in 1..(Len(doc) + 1) |-> text(k - 1) \o kept(k - 1)])

Disjoint(list) ==
    \A k, l \in DOMAIN list :
        LET a == list[k]
            b == list[l]
        IN  k # l => IF a.from = a.to THEN ~(b.from < a.from /\ a.from < b.to)
                     ELSE b.from = b.to \/ a.to <= b.from \/ b.to <= a.from

\* The order of texts; all that Order does not have come first.
Ranks == [name \in Range(Order) |-> CHOOSE k \in DOMAIN Order : Order[k] = name]
Rank(name) == IF name \in DOMAIN Ranks THEN Ranks[name] ELSE 0
BeforeSteps(a, b) ==
    LET n == Len(LongestCommonPrefix({a, b}))
    IN  IF n = Len(a) \/ n = Len(b) THEN Len(a) < Len(b) ELSE Rank(a[n + 1]) < Rank(b[n + 1])

\* The members of S, each behind those that are before it.
Ranked(S, before) ==
    [k \in 1..Cardinality(S) |-> CHOOSE i \in S : Cardinality({j \in S : <<j, i>> \in before}) = k - 1]

InOrder(S) == Ranked(S, {p \in S \X S : p[1] < p[2]})

\* Lines of one name stay in their order.
ByName(S) ==
    LET rank(i) == Rank(Line(i).name)
    IN  Ranked(S, {p \in S \X S : rank(p[1]) < rank(p[2]) \/ (rank(p[1]) = rank(p[2]) /\ p[1] < p[2])})

-----------------------------------------------------------------------------
(* What the checker says of a document.                                    *)

Around(j) == {i \in Lines : IsBlock(i) /\ i < j /\ j <= End(i)}

\* The binding a use refers to: the last one above it in a block around it.
Binders(j) == {i \in Lines : Line(i).name = Line(j).uses /\ i < j /\ Around(i) \subseteq Around(j)}

\* UnknownSymbol
UnknownNames == {Line(j).uses : j \in {i \in Lines : Line(i).uses # "" /\ Binders(i) = {}}}

\* LocalUnused, FunctionUnused and ImportUnused; UnreachableCode.
Unused == {i \in Lines : /\ Line(i).name \notin {""} \union Range(Silenced)
                         /\ ~\E j \in Lines : Binders(j) # {} /\ Max(Binders(j)) = i}
Unreachable == {i \in Lines : Line(i).kind = "dead"}

\* Every statement is whole, every tail belongs to one, and a statement that
\* begins within another ends before it.
Parses ==
    LET rest(i) == IF IsBlock(i) THEN {End(i)} ELSE (i + 1)..End(i)
    IN  /\ {j \in Lines : Line(j).kind = "tail"} = UNION {rest(i) : i \in Lines}
        /\ \A i, j \in Lines : i < j /\ j <= End(i) /\ Line(j).kind # "tail" => End(j) < End(i)

-----------------------------------------------------------------------------
(* FindImportsVisitor and OverdareFindImportsVisitor.                      *)

RequireLines == {i \in Lines : Line(i).kind = "require"}
ServiceLines == {i \in Lines : Line(i).kind = "service"}

\* The first of the statements of each name.
FirstOfName(S) == {i \in S : ~\E j \in S : j < i /\ Line(j).name = Line(i).name}

\* Requires with a line between them are in different groups.
Groups ==
    LET starts == {i \in RequireLines : ~\E j \in RequireLines : j < i /\ i - End(j) <= 1}
        group(s) == {i \in RequireLines : s <= i /\ ~\E t \in starts : s < t /\ t <= i}
        order == InOrder(starts)
    IN  [k \in DOMAIN order |-> ByName(FirstOfName(group(order[k])))]

ServiceLineMap == ByName(FirstOfName(ServiceLines))
Defined(service) == \E i \in ServiceLines : Line(i).name = service
ContainsRequire(name) == \E i \in RequireLines : Line(i).name = name

HotCommentsLineNumber == Max({0} \union {i + 1 : i \in {j \in Lines : Line(j).kind = "hot"}})

FindBestLineForService(service) ==
    LET first == Max({HotCommentsLineNumber} \union (IF ServiceLines = {} THEN {} ELSE {Min(ServiceLines)}))
        below(n, i) == IF Rank(Line(i).name) < Rank(service) /\ End(i) >= n THEN End(i) + 1 ELSE n
        best[k \in 0..Len(ServiceLineMap)] == IF k = 0 THEN first ELSE below(best[k - 1], ServiceLineMap[k])
    IN  best[Len(ServiceLineMap)]

\* getMinimumRequireLine; only the OVERDARE platform's visitor finds services.
LinesBehindServices(overdare) == {End(i) + 1 : i \in {j \in ServiceLines : overdare}}

ComputeMinimumLine(overdare) ==
    Max({HotCommentsLineNumber} \union LinesBehindServices(overdare)
        \union {i \in RequireLines : \A j \in RequireLines : i <= j})

ShouldPrependNewline(n, overdare) ==
    LinesBehindServices(overdare) # {} /\ n = Max(LinesBehindServices(overdare))

\* The texts of two arguments begin with the same character.
ShareStart(a, b) == a.lead = b.lead /\ (a.lead = "" => Head(a.steps) = Head(b.steps))

\* The best length so far is not kept: any common start counts.
ComputeBestLine(arg, minimum) ==
    LET better(n, i) == IF Line(i).lead = "@" /\ arg.lead # "@" THEN End(i) + 1
                        ELSE IF ShareStart(Line(i), arg) /\ BeforeSteps(Line(i).steps, arg.steps) /\ End(i) >= n
                             THEN End(i) + 1 ELSE n
        requires == FlattenSeq(Groups)
        best[k \in 0..Len(requires)] == IF k = 0 THEN minimum ELSE better(best[k - 1], requires[k])
    IN  best[Len(requires)]

-----------------------------------------------------------------------------
(* New imports: what each binds and the edits that bind it.                *)

RequireEdit(name, arg, uses, overdare) ==
    LET n == ComputeBestLine(arg, ComputeMinimumLine(overdare))
        line == [Blank EXCEPT !.kind = "require", !.name = name, !.lead = arg.lead, !.steps = arg.steps, !.uses = uses]
    IN  Insert(n, IF separated /\ ShouldPrependNewline(n, overdare) THEN <<Blank, line>> ELSE <<line>>)

\* The line behind a service, before a require: always, if the require is
\* only now to come.
ServiceEdit(service, withRequire) ==
    LET n == FindBestLineForService(service)
        append == IF RequireLines = {} THEN withRequire ELSE n = Min(RequireLines)
        line == [Blank EXCEPT !.kind = "service", !.name = service]
    IN  Insert(n, IF separated /\ append THEN <<line, Blank>> ELSE <<line>>)

\* computeAllStringRequires; of equally short aliases any is taken.
RequireName(m) == IF IsInit(m.path) THEN Last(Front(m.path)) ELSE Last(m.path)
StringImports(names, overdare) ==
    LET wanted == {m \in known \ (Ignored \union {home}) : RequireName(m) \in names /\ ~ContainsRequire(RequireName(m))}
    IN  UNION {{[name |-> RequireName(m), meant |-> m, service |-> "",
                 edits |-> <<RequireEdit(RequireName(m), arg, "", overdare)>>] :
                arg \in RequirePaths(home, m, Config(home))} : m \in wanted}

\* computeAllInstanceRequires: relative to the script, or from a service.
InstanceImports(names) ==
    LET near(p) == p \in Prefixes(HomePath) \/ HomePath \in Prefixes(p) \/ Front(p) = Front(HomePath)
        relative(p) == style = "alwaysRelative" \/ (style = "auto" /\ near(p))
        up(p) == LexicallyRelative([path |-> p, isDir |-> TRUE], HomePath)
        arg(p) == [lead |-> "", steps |-> IF relative(p)
                       THEN <<"script">> \o [k \in DOMAIN up(p) |-> IF up(p)[k] = ".." THEN "Parent" ELSE up(p)[k]]
                       ELSE p]
        uses(p) == IF relative(p) THEN "" ELSE Head(p)
        service(p) == IF Defined(uses(p)) THEN "" ELSE uses(p)
        first(p) == IF service(p) = "" THEN << >> ELSE <<ServiceEdit(service(p), TRUE)>>
    IN  {[name |-> m.name, meant |-> m, service |-> service(m.path),
          edits |-> Append(first(m.path), RequireEdit(m.name, arg(m.path), uses(m.path), TRUE))] :
         m \in {i \in Instances : i.name \in names /\ i.path # HomePath /\ ~ContainsRequire(i.name)}}

\* The code actions look for string requires with the visitor that knows no
\* services; completion takes the platform's.
Overdare == platform = "overdare"
Imports(names, overdare) ==
    IF Overdare /\ ~strings THEN InstanceImports(names) ELSE StringImports(names, overdare)

ServiceImports(names) ==
    {[name |-> s, meant |-> s, service |-> s, edits |-> <<ServiceEdit(s, FALSE)>>] :
        s \in {t \in Services \intersect names : Overdare /\ ~Defined(t)}}

\* By line, then by text, where an empty line comes first.
EditBefore(a, b) ==
    LET isBlank(e) == Head(e.text) = Blank
        name(e) == e.text[CHOOSE k \in DOMAIN e.text : e.text[k] # Blank].name
    IN  \/ a.from < b.from
        \/ a.from = b.from /\ isBlank(a) /\ ~isBlank(b)
        \/ a.from = b.from /\ isBlank(a) = isBlank(b) /\ Rank(name(a)) < Rank(name(b))

SortEdits(list) ==
    LET before(k, l) == EditBefore(list[k], list[l]) \/ (~EditBefore(list[l], list[k]) /\ k < l)
        order == Ranked(DOMAIN list, {p \in (DOMAIN list) \X (DOMAIN list) : before(p[1], p[2])})
    IN  [k \in DOMAIN list |-> list[order[k]]]

\* Mutant: a service is added for each import that needs it.
ServicesOfEach(services, imports) ==
    SetToSeq({i.edits[1] : i \in services})
    \o FlattenSeq([k \in DOMAIN imports |-> IF imports[k].service = "" THEN << >> ELSE <<imports[k].edits[1]>>])

\* addedServices: each service once.
ServicesOf(services, imports) ==
    LET needed == {i \in Range(imports) : i.service # "" /\ \A s \in services : s.name # i.service}
    IN  SetToSeq({i.edits[1] : i \in services \union needed})

\* computeAddAllMissingImportsEdits: of several modules of one name it takes
\* the one it comes upon first.
AddAllMissingImports ==
    LET all == Imports(UnknownNames, FALSE)
        names == {i.name : i \in all}
        onePerName == {one \in [names -> all] : \A name \in names : one[name].name = name}
        services(S) == ServicesOf(ServiceImports(UnknownNames), SetToSeq(S))
    IN  {SortEdits(services(Range(one))) \o SortEdits(SetToSeq({Last(one[name].edits) : name \in names})) : one \in onePerName}

-----------------------------------------------------------------------------
(* Sorting and removing.                                                   *)

InPlace(list) == \A k \in 1..(Len(list) - 1) : list[k] < list[k + 1]

\* Mutant: the lines to delete end where they begin.
SortKeepingLines(list) ==
    IF InPlace(list) THEN << >>
    ELSE [k \in DOMAIN list |-> Delete(list[k], list[k])]
         \o [k \in DOMAIN list |-> Insert(Min(Range(list)), SubSeq(doc, list[k] + 1, End(list[k]) + 1))]

\* Each statement loses its first line, and all are written again, in the
\* order of their names, where the first one was.
Sort(list) ==
    IF InPlace(list) THEN << >>
    ELSE [k \in DOMAIN list |-> Delete(list[k], list[k] + 1)]
         \o [k \in DOMAIN list |-> Insert(Min(Range(list)), SubSeq(doc, list[k] + 1, End(list[k]) + 1))]

OrganiseRequires == FlattenSeq([k \in DOMAIN Groups |-> Sort(Groups[k])])
OrganiseServices == Sort(ServiceLineMap)

\* Mutant: of a statement that is removed the further lines stay.
FirstLine(i) == Delete(i, i + 1)

Statement(i) == Delete(i, End(i) + 1)

\* Mutant: statements within deleted lines are deleted again.
RemovableAnyway(i, deletedLines) == TRUE

Removable(i, deletedLines) == i \notin deletedLines

RemoveUnusedCode ==
    LET order == InOrder(Unused \union Unreachable)
        remove(r, i) == IF ~Removable(i, r.deletedLines) THEN r
                        ELSE [edits |-> Append(r.edits, Statement(i)),
                              deletedLines |-> r.deletedLines \union (i..End(i))]
        removed[k \in 0..Len(order)] == IF k = 0 THEN [edits |-> << >>, deletedLines |-> {}]
                                         ELSE remove(removed[k - 1], order[k])
    IN  removed[Len(order)].edits

SourceActions ==
    {OrganiseRequires, RemoveUnusedCode}
    \union {OrganiseServices : p \in {platform} \intersect {"overdare"}}
    \union (IF UnknownNames = {} THEN {} ELSE AddAllMissingImports)

\* The fixes of one warning or one unknown name.
WarningFixes ==
    {<<Statement(i)>> : i \in Unused \union Unreachable}
    \union {<<Replace(i, [Line(i) EXCEPT !.name = Silenced[@]])>> : i \in Unused}

UnknownSymbolFixes == UNION {{i.edits : i \in ServiceImports({n}) \union Imports({n}, FALSE)} : n \in UnknownNames}

\* What completion offers for a name that is being written.
Completions(name) == {i.edits : i \in ServiceImports({name}) \union Imports({name}, Overdare)}

-----------------------------------------------------------------------------
(* Actions.                                                                *)

Edited(new) ==
    /\ indexed /\ edits + changes < MaxEdits /\ edits' = edits + 1
    /\ Len(new) <= MaxLines /\ new # doc /\ doc' = new
    /\ clean' = FALSE
    /\ UNCHANGED <<requireVars, platform, strings, separated>>

\* Lines written between two statements outside functions.
Type ==
    \E i \in 0..Len(doc), block \in Blocks :
        /\ i \in Lines => Line(i).kind \notin {"tail", "hot"} /\ Around(i) = {}
        /\ block[1].kind = "hot" => i = 0
        /\ Edited(Apply(<<Insert(i, block)>>))

CheckDocument ==
    /\ ~clean /\ clean' = TRUE
    /\ ReadsConfig(ConfigDir(home), cache)
    /\ LET required == {i \in RequireLines : Line(i).lead # ""}
       IN  known' = known \union (Files \intersect {ResolveStringRequire(home, Line(i), Config(home)) : i \in required})
    /\ UNCHANGED <<disk, unseen, changes, indexed, home, style, original, doc, edits, platform, strings, separated>>

\* codeAction: the document was checked, and its edits are applied together.
CodeAction ==
    /\ clean /\ Parses
    /\ \E list \in SourceActions \union WarningFixes \union UnknownSymbolFixes : Edited(Apply(list))

\* An import that was offered while its name was written.
AcceptImport ==
    /\ clean /\ Parses
    /\ \E list \in UNION {Completions(name) : name \in UnknownNames} : Edited(Apply(list))

Configure ==
    /\ ChangeConfig \/ ConfigChanged(clean) \/ IndexFiles
    /\ edits + changes' <= MaxEdits
    /\ UNCHANGED docVars

Init ==
    /\ InitRequires
    /\ doc \in FirstDocuments /\ clean = FALSE /\ edits = 0
    /\ platform \in Platforms /\ strings \in StringRequires /\ separated \in Separated
    /\ platform = "standard" => strings

Next == Type \/ CheckDocument \/ CodeAction \/ AcceptImport \/ Configure

Spec == Init /\ [][Next]_vars

-----------------------------------------------------------------------------
(* Properties.                                                             *)

Offered == SourceActions \union UnknownSymbolFixes \union UNION {Completions(name) : name \in UnknownNames}

\* The edits of one code action or completion never overlap, so a client can
\* apply them together: statements within functions, and functions within
\* unreachable code, are removed once ("Remove all unused code"), and imports
\* are inserted between the statements a sort moves.
EditsAreDisjoint == Parses => \A list \in Offered : Disjoint(list)

OnOneLine(S) == \A i \in S : Line(i).len = 1
Count(line, text) == Cardinality({k \in DOMAIN text : text[k] = line})

Others(text, kind) == SelectSeq(text, LAMBDA line : line.kind # kind)
Keeps(kind) == /\ Others(doc', kind) = Others(doc, kind)
               /\ \A k \in DOMAIN doc : Count(doc[k], doc') = Count(doc[k], doc)
Sorts(list, S) == doc' # doc /\ Parses /\ OnOneLine(S) /\ list # << >> /\ doc' = Apply(list)

\* Sorting statements that take a line each loses none, adds none, leaves the
\* others in their order, and is done after one time
\* (computeOrganiseRequiresEdit, computeOrganiseServicesEdit).
SortingKeepsStatements ==
    [][/\ Sorts(OrganiseRequires, RequireLines) => Keeps("require") /\ OrganiseRequires' = << >>
       /\ Sorts(OrganiseServices, ServiceLines) => Keeps("service") /\ OrganiseServices' = << >>]_doc

\* Imports, each on a line, stand above everything else.
ImportsOnTop ==
    LET imports == {i \in Lines : Line(i).kind \in {"hot", "blank", "service", "require"}}
    IN  OnOneLine(imports) /\ \A i \in imports, j \in Lines \ imports : i < j

\* What "Add all missing requires" adds, unless a name is both a service's
\* and a module's, or an aliased require is above the services
\* (computeBestLineForRequire would put requires behind it).
Missing == ServiceImports(UnknownNames) \union Imports(UnknownNames, FALSE)
AddsMissing ==
    /\ doc' # doc /\ Parses /\ ImportsOnTop
    /\ \A i \in ServiceLines, j \in RequireLines : Line(j).lead = "@" => i < j
    /\ {i.name : i \in ServiceImports(UnknownNames)} \intersect {i.name : i \in Imports(UnknownNames, FALSE)} = {}
    /\ \E list \in AddAllMissingImports : doc' = Apply(list)
NewNames == UNION {{i.name, i.service} : i \in Missing} \ {""}
Bound(name, text) == {k \in DOMAIN text : text[k].name = name}

\* "Add all missing requires" binds each unknown name that a service or a
\* module has, and each service a new require needs, once and above its use,
\* and leaves the imports on top: the places of all of them are computed
\* before any of them is there.
MissingImportsAreBound ==
    [][AddsMissing => /\ UnknownNames' \subseteq UnknownNames \ NewNames
                      /\ \A name \in NewNames : Cardinality(Bound(name, doc')) = 1
                      /\ ImportsOnTop']_doc

\* What "Remove all unused code" leaves still parses, and uses nothing that
\* was bound before and is bound no longer.
RemovalKeepsTheRest ==
    [][(doc' # doc /\ Parses /\ doc' = Apply(RemoveUnusedCode))
       => (Parses' /\ UnknownNames' \subseteq UnknownNames)]_doc
=============================================================================
