---------------------------- MODULE ContextStore ----------------------------
(***************************************************************************)
(* The store of one project in the Viewer daemon: ContextMapStore          *)
(* (viewer/runtime/context-store.mjs) with its ContentIndex                *)
(* (content-index.mjs), reading files (context-source.mjs) that change     *)
(* meanwhile.  Refreshes run at once and in any order: those a page asks   *)
(* for, those of the debounce and poll timers, and the node details.  A    *)
(* job's step is what JavaScript runs between two waits for the file       *)
(* system; that a file is read and that it is acted upon are two steps.    *)
(* Of the eight content files there is the one of the node that matters.   *)
(***************************************************************************)
EXTENDS Integers, FiniteSets

\* What a Map can be: a layout, text in neither, or nothing one may read.
MapKinds == {"v2", "v3", "garbage", "absent", "outside", "large"}

CONSTANTS
  Jobs,        \* refreshes and details that may run at once
  Kinds,       \* what the Map may become; nothing turns a Map back into v2
  None,        \* null
  Empty,       \* the version of a ContentIndex that was never filled
  MaxChanges,  \* bound: changes of the project
  MaxFaults    \* bound: watchers that fail

Revisions == 0..MaxChanges
Maps      == [kind : MapKinds, rev : Revisions]
Contents  == [map : Maps, body : Revisions]

ASSUME StoreAssumption ==
  /\ IsFiniteSet(Jobs) /\ Kinds \subseteq MapKinds \ {"v2"}
  /\ None # Empty /\ None \notin Maps \cup {"bind", "refresh", "detail"}
  /\ MaxChanges \in Nat /\ MaxFaults \in Nat

VARIABLES
  disk,      \* the project: kind and revision of the Map, revision of the bodies
  phase,     \* of the store: binding, bound or closed
  state,     \* what the store publishes
  job,       \* the progress of each job
  contentIndex,  \* the version the content index holds, or None without an index
  watcher, contentWatcher, timer, pollTimer,
  noticed,   \* a watcher has seen changes it has not yet reported
  changes, faults

storeVars == <<state, contentIndex>>
watchVars == <<watcher, contentWatcher, timer, pollTimer, noticed>>
vars == <<disk, phase, storeVars, job, watchVars, changes, faults>>

States == [status : {"missing", "refreshing", "synced", "invalid", "access_denied", "too_large"},
           map : Maps \cup {None}, content : Contents \cup {None, Empty}]

\* map: the Map a refresh has read; seen and body: what the index has read.
JobStates == [pc : {"idle", "reading", "read", "index", "indexing", "indexed"},
              why : {"bind", "refresh", "detail", None}, asked : Contents \cup {None},
              map : Maps \cup {None}, seen : Maps \cup {None}, body : Revisions,
              current : BOOLEAN]

Idle == [pc |-> "idle", why |-> None, asked |-> None, map |-> None, seen |-> None, body |-> 0,
         current |-> FALSE]

TypeOK ==
  /\ disk \in Contents /\ phase \in {"binding", "bound", "closed"}
  /\ state \in States
  /\ state.map # None /\ state.map.kind = "v3" => state.content # None
  /\ contentIndex \in Contents \cup {None, Empty}
  /\ job \in [Jobs -> JobStates]
  /\ watcher \in BOOLEAN /\ contentWatcher \in BOOLEAN /\ timer \in BOOLEAN
  /\ pollTimer \in BOOLEAN /\ noticed \in BOOLEAN
  /\ changes \in 0..MaxChanges /\ faults \in 0..MaxFaults

\* Version and tree are one: map.  The layout is its kind.
emptyState == [status |-> "missing", map |-> None, content |-> None]

\* bind has resolved the project and starts the first refresh.
Init ==
  /\ disk \in {d \in Contents : d.map.kind \in {"v2", "v3"} /\ d.map.rev = 0 /\ d.body = 0}
  /\ phase = "binding" /\ contentIndex = None
  /\ state = emptyState
  /\ job = [j \in Jobs |-> IF j = CHOOSE b \in Jobs : TRUE
                          THEN [Idle EXCEPT !.pc = "reading", !.why = "bind"] ELSE Idle]
  /\ watcher = FALSE /\ contentWatcher = FALSE /\ timer = FALSE /\ pollTimer = FALSE
  /\ noticed = FALSE /\ changes = 0 /\ faults = 0

-----------------------------------------------------------------------------
(* The project and its watchers.                                           *)

\* Saves, edits and failures of the file system, one file at a time.
ChangeMap(kind) ==
  /\ changes < MaxChanges
  /\ changes' = changes + 1
  /\ disk' = [disk EXCEPT !.map = [kind |-> kind, rev |-> changes + 1]]
  /\ noticed' = (noticed \/ watcher)
  /\ UNCHANGED <<phase, storeVars, job, watcher, contentWatcher, timer, pollTimer, faults>>

ChangeBody ==
  /\ changes < MaxChanges
  /\ changes' = changes + 1
  /\ disk' = [disk EXCEPT !.body = changes + 1]
  /\ noticed' = (noticed \/ contentWatcher)
  /\ UNCHANGED <<phase, storeVars, job, watcher, contentWatcher, timer, pollTimer, faults>>

\* scheduleRefresh: the debounce timer starts again.
ScheduleRefresh ==
  /\ noticed /\ noticed' = FALSE
  /\ timer' = TRUE
  /\ state' = [state EXCEPT !.status = "refreshing"]
  /\ UNCHANGED <<disk, phase, contentIndex, job, watcher, contentWatcher, pollTimer, changes,
                 faults>>

\* The watcher reports an error: both watchers go, and polling starts.
WatcherError ==
  /\ watcher /\ faults < MaxFaults
  /\ faults' = faults + 1
  /\ watcher' = FALSE /\ contentWatcher' = FALSE /\ noticed' = FALSE /\ pollTimer' = TRUE
  /\ UNCHANGED <<disk, phase, storeVars, job, timer, changes>>

ContentWatcherError ==
  /\ contentWatcher /\ faults < MaxFaults
  /\ faults' = faults + 1
  /\ contentWatcher' = FALSE
  /\ UNCHANGED <<disk, phase, storeVars, job, watcher, timer, pollTimer, noticed, changes>>

\* Mutant of EnsureContentWatcher: it does not look at the watcher.
EnsureContentWatcherAlways(watching) ==
  contentWatcher' = TRUE /\ UNCHANGED faults

\* A v2 project need not have a content directory, and to watch one may fail: it
\* is tried again by the next refresh.
EnsureContentWatcher(watching) ==
  \/ contentWatcher' = (contentWatcher \/ watching) /\ UNCHANGED faults
  \/ watching /\ disk.map.kind = "v2" /\ UNCHANGED <<contentWatcher, faults>>
  \/ watching /\ ~contentWatcher /\ UNCHANGED contentWatcher
     /\ faults < MaxFaults /\ faults' = faults + 1

-----------------------------------------------------------------------------
(* refresh, once for every job that is not a detail.                       *)

\* refreshContentIndex: the current index, or a new one.
Indexing(j, map) ==
  /\ contentIndex' = IF contentIndex = None THEN Empty ELSE contentIndex
  /\ job' = [job EXCEPT ![j] = [@ EXCEPT !.pc = "index", !.map = map, !.current = TRUE]]
  /\ UNCHANGED <<disk, phase, state, watchVars, changes, faults>>

\* contentIndex = null: jobs at work on the index go on with it for nothing.
Forgotten == [k \in Jobs |-> [job[k] EXCEPT !.current = FALSE]]

\* How a refresh ends, by what asked for it: bind goes on to watch, or else to
\* poll; a page gets the state as its answer.
Finish(j, v3) ==
  /\ job' = [IF contentIndex' = None THEN Forgotten ELSE job EXCEPT ![j] = Idle]
  /\ IF job[j].why = "bind"
     THEN /\ phase' = "bound"
          /\ \/ watcher' = TRUE /\ EnsureContentWatcher(TRUE) /\ UNCHANGED pollTimer
             \/ faults < MaxFaults /\ faults' = faults + 1
                /\ pollTimer' = TRUE /\ UNCHANGED <<watcher, contentWatcher>>
     ELSE /\ IF v3 THEN EnsureContentWatcher(watcher) ELSE UNCHANGED <<contentWatcher, faults>>
          /\ UNCHANGED <<phase, watcher, pollTimer>>
  /\ UNCHANGED <<disk, timer, noticed, changes>>

\* Success, with the Map of the job; None: the one that is shown stays.
Publish(j, content, v3) ==
  /\ state' = [status |-> "synced", map |-> IF job[j].map = None THEN state.map ELSE job[j].map,
               content |-> content]
  /\ Finish(j, v3)

\* The catch: the status changes, the tree stays.
Refuse(j, status) ==
  /\ state' = [state EXCEPT !.status = status]
  /\ Finish(j, FALSE)

Begin(j) ==
  /\ phase = "bound" /\ job[j] = Idle
  /\ job' = [job EXCEPT ![j] = [Idle EXCEPT !.pc = "reading", !.why = "refresh"]]

\* A page polls, or asks again when it becomes visible.
Page(j) ==
  /\ Begin(j)
  /\ UNCHANGED <<disk, phase, storeVars, watchVars, changes, faults>>

Debounced(j) ==
  /\ timer /\ timer' = FALSE
  /\ Begin(j)
  /\ UNCHANGED <<disk, phase, storeVars, watcher, contentWatcher, pollTimer, noticed, changes,
                 faults>>

Interval(j) ==
  /\ pollTimer /\ Begin(j)
  /\ UNCHANGED <<disk, phase, storeVars, watchVars, changes, faults>>

\* readSource: the bytes of the Map at this moment.
Read(j) ==
  /\ job[j].pc = "reading"
  /\ job' = [job EXCEPT ![j] = [@ EXCEPT !.pc = "read", !.map = disk.map]]
  /\ UNCHANGED <<disk, phase, storeVars, watchVars, changes, faults>>

\* Mutant of ReadV3: an unchanged Map ends the refresh, in v3 as well.
ReadV3Shortcut(j) ==
  /\ job[j].pc = "read" /\ job[j].map.kind = "v3"
  /\ IF state.map = job[j].map
     THEN UNCHANGED contentIndex /\ Publish(j, state.content, TRUE)
     ELSE Indexing(j, job[j].map)

\* The same version and a tree: only the content index is refreshed.
ReadV3(j) ==
  /\ job[j].pc = "read" /\ job[j].map.kind = "v3"
  /\ Indexing(j, IF state.map = job[j].map THEN None ELSE job[j].map)

\* close has set source to null: no index can be made.
ReadV3Closed(j) ==
  /\ job[j].pc = "read" /\ job[j].map.kind = "v3" /\ phase = "closed"
  /\ UNCHANGED contentIndex /\ Refuse(j, "access_denied")

\* A Map without the v3 marker drops the index, unless it is the one shown.
ReadV2(j) ==
  /\ job[j].pc = "read" /\ job[j].map.kind = "v2"
  /\ contentIndex' = (IF state.map = job[j].map THEN contentIndex ELSE None)
  /\ Publish(j, None, FALSE)

\* The code readContainedFile or a parser fails with.
CodeOf(map) ==
  CASE map.kind = "absent"  -> "MISSING"
    [] map.kind = "outside" -> "ACCESS_DENIED"
    [] map.kind = "large"   -> "TOO_LARGE"
    [] OTHER                -> "INVALID"

StatusOf(code) ==
  CASE code = "MISSING" -> "missing" [] code = "ACCESS_DENIED" -> "access_denied"
    [] code = "TOO_LARGE" -> "too_large" [] OTHER -> "invalid"

\* Garbage has no marker: the index goes before the parser fails.
ReadBad(j) ==
  /\ job[j].pc = "read" /\ job[j].map.kind \notin {"v2", "v3"}
  /\ contentIndex' = IF job[j].map.kind = "garbage" THEN None ELSE contentIndex
  /\ Refuse(j, StatusOf(CodeOf(job[j].map)))

-----------------------------------------------------------------------------
(* The content index, for refreshes and details.                           *)

\* nodeDetail; without an index the answer is to migrate, at once.
Detail(j) ==
  /\ phase = "bound" /\ job[j] = Idle /\ contentIndex # None
  /\ job' = [job EXCEPT ![j] = [Idle EXCEPT !.pc = "index", !.why = "detail", !.asked = disk,
                                !.current = TRUE]]
  /\ UNCHANGED <<disk, phase, storeVars, watchVars, changes, faults>>

\* ContentIndex.refresh reads the Map first, and then the bodies.
IndexMap(j) ==
  /\ job[j].pc = "index"
  /\ job' = [job EXCEPT ![j] = [@ EXCEPT !.pc = "indexing", !.seen = disk.map]]
  /\ UNCHANGED <<disk, phase, storeVars, watchVars, changes, faults>>

IndexBody(j) ==
  /\ job[j].pc = "indexing"
  /\ job' = [job EXCEPT ![j] = [@ EXCEPT !.pc = "indexed", !.body = disk.body]]
  /\ UNCHANGED <<disk, phase, storeVars, watchVars, changes, faults>>

\* What it has read, however the project and the index have changed since.
Indexed(j) == [map |-> job[j].seen, body |-> job[j].body]

\* Mutant of Filled: an index that was filled meanwhile is left as it is.
FilledOnce(j) == IF job[j].current /\ contentIndex = Empty THEN Indexed(j) ELSE contentIndex

\* It ends: the last to end has its way, also with older files than those the
\* index holds by then.
Filled(j) == IF job[j].current THEN Indexed(j) ELSE contentIndex

\* The page gets what its index then holds: between the last line of the
\* refresh and the lookup nothing else is run, since the files of another
\* refresh arrive in callbacks of their own.  An index the store has dropped is
\* filled for the details that hold it only.
Answer(j) == IF job[j].current THEN Filled(j) ELSE Indexed(j)

IndexDetail(j) ==
  /\ job[j].pc = "indexed" /\ job[j].why = "detail"
  /\ contentIndex' = Filled(j)
  /\ job' = [job EXCEPT ![j] = Idle]
  /\ UNCHANGED <<disk, phase, state, watchVars, changes, faults>>

\* The store's index may be another one by now, not filled yet, or gone.
IndexRefresh(j) ==
  /\ job[j].pc = "indexed" /\ job[j].why # "detail"
  /\ contentIndex' = Filled(j)
  /\ IF contentIndex' = None THEN Refuse(j, "access_denied") ELSE Publish(j, contentIndex', TRUE)

-----------------------------------------------------------------------------
(* Binding that fails, and close.                                          *)

\* The project cannot be resolved: nothing is watched and nothing polled.
BindDenied(j) ==
  /\ job[j].why = "bind" /\ job[j].pc = "reading" /\ faults < MaxFaults
  /\ faults' = faults + 1 /\ phase' = "bound"
  /\ state' = [state EXCEPT !.status = "access_denied"]
  /\ job' = [job EXCEPT ![j] = Idle]
  /\ UNCHANGED <<disk, contentIndex, watchVars, changes>>

\* The last session of the project goes; refreshes in flight go on.
Close ==
  /\ phase = "bound" /\ phase' = "closed"
  /\ watcher' = FALSE /\ contentWatcher' = FALSE /\ timer' = FALSE /\ pollTimer' = FALSE
  /\ noticed' = FALSE /\ contentIndex' = None /\ job' = Forgotten
  /\ UNCHANGED <<disk, state, changes, faults>>

Step(j) ==
  \/ Read(j) \/ ReadV3(j) \/ ReadV3Closed(j) \/ ReadV2(j) \/ ReadBad(j)
  \/ IndexMap(j) \/ IndexBody(j) \/ IndexDetail(j) \/ IndexRefresh(j)

Next ==
  \/ \E kind \in Kinds : ChangeMap(kind)
  \/ ChangeBody \/ ScheduleRefresh \/ WatcherError \/ ContentWatcherError \/ Close
  \/ \E j \in Jobs :
       Step(j) \/ Page(j) \/ Debounced(j) \/ Interval(j) \/ Detail(j) \/ BindDenied(j)

Spec == Init /\ [][Next]_vars

\* Every read of a file ends, well or badly, and so every job comes to its end:
\* this is WF_vars(Step(j)) said in a form that is cheaper to check.  A page that
\* is open polls for ever (its interval never fails, and a job is always free
\* for it: Jobs is a bound).
FairSpec ==
  /\ Spec
  /\ \A j \in Jobs : []<>(job[j] = Idle)
  /\ SF_vars(\E j \in Jobs : Page(j)) /\ WF_vars(ScheduleRefresh)

-----------------------------------------------------------------------------
(* Properties.                                                             *)

\* A refresh that was in flight when the store was closed, or when its watcher
\* failed, opens no watcher that nobody will ever close: a content watcher
\* belongs to a watcher, and a closed store has neither, nor a timer.
NothingLeftOpen ==
  /\ TypeOK
  /\ contentWatcher => watcher
  /\ phase = "closed" => ~watcher /\ ~timer /\ ~pollTimer

\* A node detail is at least as new as the project was when it was asked for, in
\* its Map and in its body, whatever older refresh of the same index has read
\* its files before and ends in between, and also if the index was dropped.
DetailIsFresh ==
  [][\A j \in Jobs :
       job[j].why = "detail" /\ job'[j] = Idle
         => /\ Answer(j).map.rev >= job[j].asked.map.rev
            /\ Answer(j).body >= job[j].asked.body]_vars

\* What the store publishes when the project has come to rest.
Reflects ==
  /\ state.status = IF disk.map.kind \in {"v2", "v3"} THEN "synced" ELSE StatusOf(CodeOf(disk.map))
  /\ disk.map.kind \in {"v2", "v3"} => state.map = disk.map
  /\ disk.map.kind = "v3" => state.content = disk

\* However refreshes overtook each other, and whatever they left in the state,
\* a page that polls ends up with the project as it is, bodies included.
Settles == <>[](phase = "bound" => Reflects)
=============================================================================
