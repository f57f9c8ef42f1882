----------------------------- MODULE Extension ------------------------------
(***************************************************************************)
(* The generation of the sourcemap composed with its second reader, the    *)
(* Explorer decorations (editors/code/src/scriptTypeDecorations.ts): every *)
(* write of sourcemap.json is a file event, an event starts a refresh that *)
(* reads the file back, and the refreshed files are drawn again.           *)
(***************************************************************************)
EXTENDS OvdrjmWatcher

VARIABLES
    events,       \* file events of sourcemap.json on their way to the provider
    refreshes,    \* calls of refresh in flight: what each has read
    bySourcemap,  \* className of every file the provider knows
    shown,        \* className the Explorer draws at a file
    overlapped    \* history: a refresh was in flight when the next event came

decorationVars == <<events, refreshes, bySourcemap, shown, overlapped>>
vars == <<watcherVars, decorationVars>>

Unread == << >>
NoClasses == << >>

-----------------------------------------------------------------------------
\* flatten: a later node of the tree overwrites an earlier one.
Flatten(nodes) ==
    LET owners(f) == {k \in DOMAIN nodes : f \in nodes[k].filePaths}
        last(f) == CHOOSE k \in owners(f) : \A j \in owners(f) : j <= k
    IN  [f \in UNION {nodes[k].filePaths : k \in DOMAIN nodes} |-> nodes[last(f)].className]

\* Mutant: only the files of the new sourcemap are announced.
AffectedByNew(old, new) == DOMAIN new

\* The files a refresh announces: those of the previous map and of the new one.
Affected(old, new) == DOMAIN old \union DOMAIN new

\* provideFileDecoration for the announced files; a file without a class
\* loses its decoration, the others stay as they are drawn.
Redraw(drawn, files, classes) ==
    [f \in (DOMAIN drawn \ files) \union (files \intersect DOMAIN classes) |->
        IF f \in files THEN classes[f] ELSE drawn[f]]

\* Mutant: the new classes are added to the old ones.
SetClassesMerging(classes) ==
    LET merged == [f \in DOMAIN bySourcemap \union DOMAIN classes |->
                      IF f \in DOMAIN classes THEN classes[f] ELSE bySourcemap[f]]
    IN  /\ bySourcemap' = merged
        /\ shown' = Redraw(shown, DOMAIN merged, merged)

\* refresh and clear, once the new map is known.
SetClasses(classes) ==
    /\ bySourcemap' = classes
    /\ shown' = Redraw(shown, Affected(bySourcemap, classes), classes)

\* watchFolder: create and change events refresh, a delete event clears.
ReceiveEvent ==
    /\ events # << >>
    /\ events' = Tail(events)
    /\ overlapped' = (overlapped \/ refreshes # << >>)
    /\ \/ /\ Head(events) = "changed"
          /\ refreshes' = Append(refreshes, [done |-> FALSE, classes |-> NoClasses])
          /\ UNCHANGED <<bySourcemap, shown>>
       \/ /\ Head(events) = "deleted"
          /\ SetClasses(NoClasses)
          /\ UNCHANGED refreshes
    /\ UNCHANGED watcherVars

\* The read of refresh: a missing file or one in the middle of a write
\* ("writing") gives an empty map.
RefreshReads(i) ==
    /\ ~refreshes[i].done
    /\ \E classes \in {Flatten(sourcemap.nodes)}
                      \union {NoClasses : s \in {t \in Starts : gen[t].pc = "writing"}} :
          refreshes' = [refreshes EXCEPT ![i] = [done |-> TRUE, classes |-> classes]]
    /\ UNCHANGED <<watcherVars, events, bySourcemap, shown, overlapped>>

\* The rest of refresh; answers may come in any order.
RefreshLands(i) ==
    /\ refreshes[i].done
    /\ SetClasses(refreshes[i].classes)
    /\ refreshes' = SubSeq(refreshes, 1, i - 1) \o SubSeq(refreshes, i + 1, Len(refreshes))
    /\ UNCHANGED <<watcherVars, events, overlapped>>

\* The user deletes sourcemap.json (counted with the faults).
DeleteSourcemap ==
    /\ sourcemap.version # 0
    /\ faults < MaxFaults
    /\ faults' = faults + 1
    /\ sourcemap' = NoSourcemap
    /\ events' = Append(events, "deleted")
    /\ UNCHANGED <<studio, enabled, started, gen, registered, converted,
                   refreshes, bySourcemap, shown, overlapped>>

Decorations ==
    \/ ReceiveEvent
    \/ \E i \in DOMAIN refreshes : RefreshReads(i) \/ RefreshLands(i)
    \/ DeleteSourcemap

\* A write of sourcemap.json, failed or not, is an event of the file watcher.
Generate ==
    /\ WatcherNext
    /\ events' = IF \E s \in Starts : WriteAnswers(s) \/ WriteFails(s) THEN Append(events, "changed") ELSE events
    /\ UNCHANGED <<refreshes, bySourcemap, shown, overlapped>>

Init ==
    /\ WatcherInit
    /\ events = << >>
    /\ refreshes = << >>
    /\ bySourcemap = NoClasses
    /\ shown = NoClasses
    /\ overlapped = FALSE

Next == Generate \/ Decorations

Fairness ==
    /\ \A s \in Starts : WF_vars(Generate /\ (WatcherStep(s) \/ ProjectFound(s) \/ ProjectNotFound(s)))
    /\ WF_vars(ReceiveEvent \/ \E i \in DOMAIN refreshes : RefreshReads(i) \/ RefreshLands(i))

Spec == Init /\ [][Next]_vars /\ Fairness

-----------------------------------------------------------------------------
(* Properties.                                                             *)

\* What the Explorer draws is what the provider would answer for every file,
\* also for files that left the sourcemap: each change of the map announces
\* every file whose answer it may have changed.
DrawnIsProvided == shown = bySourcemap

\* The decorations follow the sourcemap: what is drawn is what is provided, and
\* when the last event has been handled and no two refreshes overlapped, the
\* classes are those of the sourcemap on disk; a read that fell into a write
\* is repaired by the event of that write.
DecorationsFollow ==
    /\ DrawnIsProvided
    /\ (/\ events = << >> /\ refreshes = << >> /\ ~overlapped
        /\ \A s \in Starts : gen[s].pc # "writing")
       => bySourcemap = Flatten(sourcemap.nodes)

=============================================================================
