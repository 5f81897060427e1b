# Handoff Protocol: TLA+ models, checks and proofs

Handoff Protocol keeps a project's working context in `.handoff/`: a directory
of nodes (`context-map.md`), their bodies (`content/*.md`), `context.json`, and
generated views. `/handoff save` infers new content, reconciles it with what the
user has edited, and installs the files; `/handoff view` starts a local daemon
that serves them to a web page. This project models the parts of that code in
which the order of events matters, checks them with TLC and proves the most
important results with TLAPS.

Paths below are relative to the repository. `PROJECT.json` maps every
definition to the lines it translates, and lists the runs, the hazards, the
findings and the theorems.

## 1. The system

| Component | Source | State | Operations | Hard because of |
|---|---|---|---|---|
| Atomic multi-file writer | `scripts/views.mjs` | files, `.save-tmp` and `.save-rollback` siblings, two lists in memory | `writeFilesAtomically` | failure of any call, a kill between two renames |
| v3 migration | `scripts/migrate-v3.mjs` | the same with `.migration-*` siblings, a backup | `detectLayout`, plan, `applyV3Migration` | the same; leftovers change the detected layout |
| Save | `scripts/node/save.mjs`, `scripts/save.ts` | none of its own | detect, migrate, load, reconcile, install, snapshot | a later run starts from what a failed one left |
| Canonical v3 state | `scripts/handoff-state.mjs` | nodes with IDs, bodies, counters | load, recover counters, reconcile, infer | IDs and ownership over long sequences of edits and saves |
| Context Map formats | `scripts/context-map.mjs`, `viewer/runtime/context-map-parser.mjs` | none | parse, render, fingerprint | five ways to derive one hierarchy, round trips |
| Legacy migration | `scripts/migrate.mjs`, `scripts/migrate-v3.mjs` | a backup | `planMigration`, `planV2ToV3Migration` | which of five sources wins, what is lost |
| Snapshots | `scripts/snapshots.mjs` | `history/snapshots/*.json` | `writeV3Snapshot` with retention | clock going back, kills |
| Diff, compiler, load | `scripts/context-diff.mjs`, `context-compiler.mjs`, `node/load.mjs` | none | pure functions of snapshots and maps | matching of nodes, budgets |
| Storage | `scripts/node/save.mjs`, `scripts/save.ts` and the load twins | the config's mode, the submodule's checkout, branch, remote and pointer | init, update, commit and push | git calls that fail, two runtimes, detached HEADs |
| Obsidian adapter | `scripts/adapters/obsidian.mjs` | a symlink, a record in the user's config, an index note | link, unlink, status | three writes that are not atomic, two projects at once |
| View command | `scripts/node/view.mjs` | none of its own | find, replace or start a daemon, ask for a session | many callers at once |
| State file and startup lock | `viewer/runtime/daemon-state.mjs` | `daemon.json`, `daemon.lock/` | publish, read, remove; acquire, read, recover, release | races between processes, kills, ages |
| Daemon process | `viewer/runtime/daemon-main.mjs` | timers, signal handlers | start, idle check, close | closing while others connect |
| HTTP server and sessions | `viewer/runtime/daemon-server.mjs`, `session-manager.mjs` | sessions, stores and their reference counts, a queue of creations | create, touch, prune, evict, close | callbacks interleaving at every await |
| Context store, content index | `viewer/runtime/context-store.mjs`, `content-index.mjs` | last snapshot, watchers, timers | bind, refresh, schedule, poll, close | refreshes overlap; reads mix two saves |
| Web page: transport | `viewer/web/transports.mjs`, `app.mjs` | snapshot, generation, detail cache | poll, apply, expire, dispose | answers out of order |
| Web page: tree | `viewer/web/app.mjs`, `model.mjs` | folds, search, selection, focus | fold, search, select, move, apply a snapshot | the tree changes under all of them |
| The rest | installers, evaluation, `config.mjs`, `source-comments.mjs`, bundles | none | text processing | nothing a model checker adds to |

How they interact: a save calls layout detection, one migration, the canonical
state and the writer one after the other; the only link between two saves is the
directory. Callers of `view` and daemons share nothing but the runtime directory
and HTTP. Inside a daemon the server calls the session manager, which owns one
store per project; stores read the files that saves replace. The page polls the
server.

What makes each component correct:

- writer: a set of files is replaced as a whole or left alone, and no original is lost;
- save: whatever a failed or killed save leaves, the next one neither loses user text nor fails for ever;
- state: an ID names one node for ever, user text survives every save, agent text follows inference, what a save writes loads again;
- startup: one daemon at a time starts, an old version is gone first, nobody takes a lock or a record that is not his, every caller and every unused daemon ends;
- sessions: stores are open exactly while used, capacity is kept by evicting the oldest, a URL that was returned works, a closed daemon holds nothing;
- store and page: what is shown is never older than what was shown, and it catches up in the end;
- tree: the focus is on an item that is visible, and a snapshot takes nothing from the user;
- storage: what was reported saved is somewhere, and a git call that fails harms nothing else;
- adapter: link and unlink are complete when they end well, and touch nobody else's files;
- snapshots and diff: the right state is compared, and what the report says leads from it to the files;
- load: what matters least is left out first;
- migration: no text of an older version is lost.

## 2. The modules

| Module | Models | Checked by |
|---|---|---|
| `AtomicFileSet` | what the writer promises (abstract) | refined by `AtomicWrite` |
| `AtomicWrite` | `writeFilesAtomically`, await by await | `MCAtomicWrite` |
| `AtomicWriteProofs` | theorems about it | TLAPS |
| `SaveFlow` | save and migration on one directory; two instances of `AtomicWrite` | `MCSaveFlow` |
| `HandoffState` | edits and saves of the canonical state | `MCHandoffState` |
| `SaveProofs` | theorems about it, and about `SaveFlow` over two instances of `AtomicWriteProofs` | TLAPS |
| `DaemonLifecycle` | callers, daemons, state file and startup lock | `MCDaemonLifecycle` |
| `CommandProofs` | theorems about it and about `Storage` | TLAPS |
| `ViewServer` | the sessions of one daemon, its requests, idle timer and shutdown | `MCViewServer` |
| `ViewerProofs` | theorems about it and about `TreeView` | TLAPS |
| `ContextStore` | the store of one project with its content index, watchers and timers | `MCContextStore` |
| `ContextStoreProofs` | theorems about it | TLAPS |
| `Page` | the requests, answers and details of one page | `MCPage` |
| `PageProofs` | theorems about it | TLAPS |
| `TreeView` | the navigation tree of the page | `MCTreeView` |
| `Storage` | init, save and load over a directory or a git submodule, in both runtimes | `MCStorage` |
| `ObsidianAdapter` | link and unlink, at each read and write | `MCObsidianAdapter` |
| `ObsidianAdapterProofs` | theorems about it | TLAPS |
| `ContextMap` | the lines of a Map, its nodes, and their hierarchy in five ways | through `ContextHistory` |
| `ContextDiff` | the matching and the report of a diff | through `ContextHistory` |
| `ContextCompiler` | the selection of a load | through `ContextHistory` |
| `LegacyMigration` | the plans of both migrations | through `ContextHistory` |
| `ContextHistory` | edits, saves and snapshots over time; composes the four above | `MCContextHistory` |
| `HistoryProofs` | theorems about it, `ContextMap`, `ContextDiff` and `LegacyMigration` | TLAPS |

A module of proofs may EXTEND two specifications. `Storage`, `TreeView` and
`HandoffState` are the second ones: the names that every specification has carry a
prefix there (`StorageSpec`, `TreeSpec`, `StateSpec`), and so do those of
`ContextHistory`.

### AtomicWrite and AtomicFileSet

A version number stands for the bytes of a file; an incomplete file is torn.
`final`, `temp` and `rollback` are what the disk holds under the three names.
`pc` is the loop the code is in, `k` the file it is at, `temps` and `moved` the
two lists in memory. Each await is an action with a failing twin; `Crash` stops
the process anywhere. A kill is the death of the process, not of the machine:
the code never calls fsync, and the order in which a disk persists renames is
outside the model. A failing write may leave nothing or a torn file. Renames are
atomic. `AtomicFileSet` is the promise: begin, then commit all, or abort, or (only
for a call that is cut short or whose undo failed) leave each path old, new or
empty. `AllOrNothing` is that specification under a refinement mapping.

### SaveFlow

Four paths stand for the directory: the Map, the files under `content/` and
`views/`, `context.json`, and the config that only a migration writes. `Layout`
and `MigrationNeeded` are the detection code, with its consequence that any entry
under `content/`, also a leftover, means v3. `phase` is where a save stands;
`Mg` and `Sv` are the writers of the migration and of the save. `kept` records
which versions carry the user's text: it is what `TextSurvives` and `ContentSurvives` are about.
A call that fails is counted by its class (`faults`: a write or verification, a
rename, a step of an undo, the cleanup); with `killed` this is the history that
the properties about failures that are merely reported refer to (`Undisturbed`).
The plan of the migration is its result only (`LegacyMigration` has the plan); `init`,
and the commit and push of a submodule, are `Storage`'s.

### HandoffState

A node is its ID, section, label class and owner; a body its ID, file and owner.
Labels that normalise to the same text are one. `Save` is `loadHandoffState`,
`recoverIdCounters`, `reconcileV3State` and the rendering up to the next load, as a
relation: where the code depends on document order (which of two equal labels is
confirmed, which new label gets the lower number), any choice is allowed, so what
holds here holds for every order. The user edits between saves: relabels, moves,
deletes with or without the body, adds drafts, edits bodies, damages `context.json`.
`risks` remembers which of the edits that lose information have happened; the
properties say under which of them they hold. Section classes stand for the eight
sections by how inference treats them (one value, a list, never). No caller in the
repository passes explicit user intent, so it is not modelled.

### DaemonLifecycle

Callers and daemons are processes over a shared directory. A step is one system
call or HTTP exchange: `mkdir` and the marker are two steps, so are `lstat` and
`readdir`, `rm` and `rmdir`. The record in the state file is the daemon it names;
its lock is a directory and the owners whose markers are in it. Time appears only
as the age of 30 seconds, at which `Age` makes everything in the lock old. Unless
`Slow` is true, `Age` waits while a living process is between taking and releasing
the lock: startups take less than 30 seconds. Timeouts of callers may strike at
any moment. A caller can be killed, a daemon too; signals close a daemon. A request can
fail, or take too long, although the daemon serves: a shutdown or a creation then
fails, with or without effect, and a health check takes the daemon for dead
(`HealthCheck`; `doubted` remembers of which one this was said).
`everOld` remembers that some lock has been old: the exclusion the lock gives is
claimed only until then.

### ViewServer

JavaScript runs to the next await, so an action is what happens between two waits
for the outside: a request body, the path of a project, the first refresh of its
store, the end of the listener. `queue` is `createTail`, `sessions` and `older` the
sessions and their order by last access, `projectStores` and `refCount` the entries,
`open` the stores that hold watchers. `BeginClose` takes the snapshot of creations
that `close` waits for.

### ContextStore

A step is what runs between two waits for the file system. A job is a refresh or
a node detail in flight; that it has read the Map and that it acts on what it
read are two steps. The index reads the Map again and then the bodies, in two more
steps, and publishes what it has read in a third: of two refreshes the one with the
older files may publish last. Publishing and the lookup of a detail are one step, since
nothing else runs between them. A refresh that finds the Map unchanged keeps the tree
that the store has by the time it ends. A project is a kind and a revision of its Map and a revision of its bodies, changed
one at a time, as a save does. Watchers fail, and a store is closed, at any
moment. `Jobs` bounds how many requests overlap.

### Page and TreeView

`Page` is the order of requests and answers: the first one, the one poll that is
shared by whoever asks, the details. A request carries whether the counter it was
sent under is still the latest, instead of the counter. `TreeView` is what app.mjs
and model.mjs do to folds, search, selection, focus and display mode for each
event of the user and each snapshot. They meet in the snapshot that `Page` applies
and `TreeView` receives. Layout, drawing and the rendering of bodies are left out.

### Storage

Both runtimes run the same commands with different checks of git's results, so
most actions have one disjunct for each. git is external: an update checks out the
revision the parent records, on a detached HEAD unless it is there already; a
commit moves the branch if one is checked out; a push needs the remote to be an
ancestor. `strayed`, `detached` and `taken` are history: an update has left a
revision that no other one contains, a commit was made on a detached HEAD, the
user's staged work in the parent was committed.

### ObsidianAdapter

A command is its reads and writes of the link, the index note and the config, one
step each; a write that is killed leaves less (`torn`), two commands at once are
`crowded`. What the user does by hand in the Vault is one action.

### ContextHistory and the algorithms it composes

A directory over time: edits of the Map and the bodies, saves (which migrate an
older layout first), snapshots with retention, kills before and during the
snapshot, and a clock that is set back. An edit changes a label, a box, an indent, a
priority or a body, removes, adds or swaps items, or changes the lines of sections the
protocol does not know (`extras`); `marks` says what the agent's nodes said when they
were rendered, and so who owns a node. A snapshot (`SnapshotV3`) holds all of what
`buildV3Snapshot` does: also the order, the origin and the unknown sections, which the
diff does not compare. The four algorithm modules are operators on
the lines and nodes of a Map; `ContextHistory` gives them the inputs that occur.
`Unanimous`, `ReplaysV2`, `ReplaysV3`, `FitsV2` and `FitsV3` state what each result
must satisfy without repeating how it is computed: all hierarchies are one; the
report, replayed on the old state, gives the new one, and where it says nothing the two
are the same but for what no report tells (`Overlooked`); what is left out does not fit
or matters less than what is kept. Texts are values with a set of words and a price
in tokens. A migration is about nodes: the nodes it makes count as the user's (in the code
those of a v2 Map keep the agent's mark), a Map with nothing but unknown sections counts
as one that says nothing, and `MigrationKeeps` does not speak of such sections.

## 3. What the runs show

`CHECK_DEADLOCK FALSE` is set where the system may stop (all callers ended, all
versions or numbers of the bound used). Bounds are chosen so that every action,
every failure of it and every pair of racing steps occurs; each property has a
mutant of the code (in the same module as the definition it changes) that the run
refutes. One invariant of each state machine includes its `TypeOK`, but for
`AtomicWrite`, whose `TypeOK` is a theorem.

| Run | Instance | Shows |
|---|---|---|
| `atomic_write` | 3 files (first, middle, last of the loop), 2 calls after each mix of old and new files, every call failing, kill anywhere | the writer implements `AtomicFileSet` (all or nothing) and never loses an original |
| `save_flow` | four kinds of directory, any 2 failures or kills, versions up to 6 (three or four saves), fair | text is lost only when a save takes the directory for a new one, and never by failures that are reported; the config is upgraded last, whatever fails; a v3 directory loads after every save; saving again ends well |
| `state` | 2 labels, a section of each kind, 2 edits of any kind, 2 numbers per section | loads unless a node moved, follows inference and is stable under it, keeps user text and bodies, IDs are not reused |
| `daemon` | 2 callers replacing an old daemon, one kill at a step that matters for the lock, or one call or request that fails or is late, fair | one daemon starts at a time while no lock is old, and holds the lock until it is published; the old version is gone first, unless a health check of it failed; every caller ends, and every unused daemon |
| `view_server` | 4 creations, 2 projects, capacity 2, 1 failure, shutdown at any time, fair | stores follow their sessions, answers hold, the least recently used session is evicted, a shutdown ends |
| `context_store` | 2 jobs at once, 2 changes of Map or bodies, 1 failing watcher, close at any time, fair | nothing is left open, neither the Map nor the body of a detail is older than its request, a page that polls ends up with the project as it is |
| `page` | 2 nodes, one of which a revision drops, 1 change, 1 failure, hidden, shown, expired or left at any time, fair | late answers change nothing, the page never goes back, it catches up |
| `tree_view` | a tree of four, its next revision, no tree at all; 2 bindings, 3 queries | focus and matches are visible, details belong to the tree, snapshots keep what the user has folded and the last valid tree |
| `storage` | both runtimes, a new project and a clone, 4 commits, a collaborator, 2 failures or kills | a saved note is in the tree or in a revision that is named, but for the two known exceptions; reports of pushes are true unless a commit has failed; the Deno runtime leaves the parent and the mode alone |
| `obsidian` | 3 commands of 2 projects of one name over 2 Vaults, 1 kill or failure, 1 action by hand | a command that ends well is complete, established links stay, nobody else's files are touched |
| `history` | a v3 handoff under two edits, one with drafts, one with an agent's node, priorities and an unknown section that change, one whose saves are killed, two v2 ones, 576 older directories with every mix of sources; 9 requests to load | one hierarchy, the right baseline, reports that replay but for what none tells, cuts in the right order, migrations that keep every text |
| `save_flow_loss` | (violation) a v3 directory, one kill | see below |

Three files suffice for the writer because each loop treats a file alone, so the
cases are before, at and after the current one. Two calls suffice because leftovers
of a call matter to the next. Two callers suffice for the lock because its hazards
are between a holder and one that acts on what it read earlier; the old daemon is
the third party, and a caller that comes when it is gone finds no record, as in a
first start. Capacity 2 with four creations on two projects lets two sessions share
a store while a third forces eviction. Two edits between saves, with seven kinds of
edit, cover every pair (a move and then a deletion, a deletion with its body and
then lost counters). Three saves are a failing one, one that meets what it left, and
one that shows whether the state has recovered. Two refreshes are what it takes for
one to end between the read and the use of another. Four commits are one that is
saved, one that is pulled, one on a detached HEAD and one more. A Map with three
levels, one repeated label and two edits has every case of the hierarchy and the
matching: a skipped level, a sibling of an ancestor, two pairs for one text.

Liveness is stated under weak fairness of the processes' own steps only: a running
process goes on, an answer or a timeout comes, and an unused session reaches its
deadline. In `context_store` an open page polls again and again, which needs strong
fairness because the other job may take the place: a page's interval never stops
(`transports.mjs`). That the steps of a job are weakly fair is written there as
`[]<>(job[j] = Idle)`, which says the same, since a job at work can always take its next
step, and is cheaper to check. Nobody is obliged to be killed, to fail, to edit or to send a
request.

### Finding

`save_flow_loss`: after a kill between the two renames of `context-map.md` the next
save takes the project for a new one and overwrites the bodies, which the comment
at `node/save.mjs:434` excludes (quoted in `PROJECT.json`).

### Other divergences

Met while modelling, visible in the models, and without a run of their own. The
properties leave these cases out by name.

Saves and state:

- a failed write under `content/` leaves a temp that makes the next save skip the
  migration (`migrate-v3.mjs:95`, `:450`), against `docs/migrations/v2-to-v3.md:115`;
- a node of the agent that is moved with its body and then dropped by inference
  leaves a state no save loads (`handoff-state.mjs:628`, `:308`);
- a content file that is missing is reported with the advice to save, and save
  fails the same way (`handoff-state.mjs:267`); hence `RerunSucceeds` excludes kills;
- a section the protocol does not know is dropped by the next save: `reconcileV3State`
  begins with an empty Map and never copies it (`handoff-state.mjs:453`), against
  `context-map.mjs:27`: "Unknown sections are preserved verbatim ("extras") after the
  known ones so reconciliation never silently discards user content"; the migrations
  carry it over (`migrate-v3.mjs:166`), and the save they are part of drops it;
- items typed without an ID never get one, though the code calls that pending
  (`handoff-state.mjs:160`); every load drops them, core ones included
  (`context-compiler.mjs:333`, `:447`), and a diff shows all of them as one entry;
- when the counters are lost and a node was deleted with its body, its ID may be
  given again, since snapshots are not searched (`risks` in `IdsNeverReused`).

Migration and load:

- a legacy handoff without a version in `context.json` or the config is never
  migrated, though load shows it and says that a save will (`node/load.mjs:341`);
- a Map beside a `context.json` that has texts but no version: load shows them, the
  migration drops them (the backup has them);
- the completed items of `HANDOFF.md` end up in metadata only;
- compiled bodies of a v3 load are not printed, only the labels; a v3 load falls
  back to `views/HANDOFF.md`, which the docs say is never a source;
- ties in the order of cuts go by the section's name, a comment says by document
  order (`context-compiler.mjs:414`).

Snapshots and diff:

- after the clock is set back the wrong snapshot is compared, each save adds a
  duplicate, and the newest state is pruned first (`snapshots.mjs:240`);
- after a torn snapshot the next save of the same state records it again, and a
  default diff then reports no change;
- a change of the order, of who wrote a node, of the unknown sections, or of one of
  several drafts, alone, gives a new digest and a new snapshot, and an empty diff
  (`snapshots.mjs:187-218` against `context-diff.mjs:436-472`); a v2 diff tells neither
  the order of siblings nor who wrote a node, and its paths take a text that holds
  ` > ` for two (`context-diff.mjs:85`); a node deleted from the Map
  whose body remains is reported with its label edited to nothing; a v2 diff can
  report a move for texts that repeat under different parents, against
  `context-diff.mjs:29-35`.

Storage:

- every save and load checks out the revision the parent's index records: a pushed
  save whose pointer is not committed there is undone in the tree by the next
  command, though `node/save.mjs:586` calls the commit optional;
- in both runtimes a commit that fails is reported as nothing to commit, and the save
  then says that the context has been saved and pushed (`save.ts:255-258` and `936-941`,
  `node/save.mjs:145-148` and `583-587`);
- in the Node runtime a successful push is reported as failed (git writes to
  stderr only);
- in the Node runtime a failed update in a clone is ignored, and the commit takes
  the user's staged work in the parent (`ParentUntouched` is about Deno only); a
  failed `submodule add` leaves a config that says submodule;
- an init in a clone without a checkout writes files that make every later update
  fail; a killed init leaves a Map without content files.

Obsidian adapter: a link made by hand is adopted, and unlink removes it; an alias is
remembered only in a project with a config; a torn config reads as an empty one;
overlapping commands lose each other's entries (`crowded`).

Viewer:

- one health check that fails, or takes more than 2 seconds, makes a caller remove the
  record of a daemon that serves and start a second one beside it
  (`view.mjs:212-215`, `daemon-state.mjs:299-313`); while a caller waits for the exit of
  an old daemon it counts as that exit (`view.mjs:202-208`);
- the record is not read again under the lock, so two daemons may run
  (`node/view.mjs:157`); a recoverer may take a new unmarked lock for the old one,
  so two may start (`daemon-state.mjs:214`); a lock is stale by its age alone
  (`view.mjs:177`); the loser of a recovery reports `VIEW_STATE_UNSAFE` in a safe
  directory (`view.mjs:179`);
- a closing daemon removes whatever record is there, also its successor's
  (`daemon-main.mjs:65`), and a caller removes a record other than the one it
  checked (`view.mjs:213`);
- a creation that arrives while `close` waits for another one outlives the daemon's
  sessions, with an open store (`daemon-server.mjs:291`);
- a refresh that read older bodies may publish last, and the index holds those until
  the next one (`content-index.mjs:53-123`); one that found its Map unchanged may answer
  with an older Map that another has published meanwhile (`context-store.mjs:184-192`);
- a detail may be refused with MIGRATION_REQUIRED or access denied after the Map
  was garbage for a moment (`context-store.mjs:216`);
- a body is cached under the page's version, so that A, B, A may show the body of B
  for A; a detail that failed is not asked for again under the same key;
- a page whose poll says invalid with a new revision keeps the old tree when the
  Map is repaired at that revision; the first synced snapshot resets the folds;
- items indented under a heading without a parent at the margin are missing from
  the viewer's tree (`context-map-parser.mjs:165`), and the diff makes the second
  one a child of the first.

## 4. What is proved

The proofs hold for every value of the constants that satisfies the named
assumptions: `WriteAssumption`, `SaveAssumption`, `StateAssumption`,
`DaemonAssumption`, `ServerAssumption`, `StoreAssumption`, `PageAssumption`,
`ObsidianAssumption` and `StorageAssumption` say what the constants are (the number of
requests of a daemon is finite, the numbers that bound things are numbers).
`TreeAssumption` says that the nodes of a snapshot come in the order of the document,
parents first; `HistoryAssumption` that more than one snapshot is retained and that a
directory starts with at most one of an older layout; `StartAssumption` that what a
directory starts with is made of sequences, `OrderAssumption` that the sections are a
list of different keys, and `SourceAssumption` what the parsers give: a line is a heading
or an item, an item has an ID only in a v3 Map, a goal and a status are one text
(`node/load.mjs:90`, `migrate.mjs:163`), and `context.json` and `HANDOFF.md` have texts of the
sections they are consulted for. `NoneAssumption` says that
the absence of an answer is not an answer, and `KillAssumption` that only a process
that has started and not ended is killed. Bounds on failures, changes and calls are
constants as well, so each result holds for any number of them. The runs and the
proofs use the same definitions; each inductive invariant was model-checked before it was proved.

**Atomic writer** (`AtomicWriteProofs`), for any number of files and calls:
`OriginalsKept`, `FailureRestores`, `CommitIsComplete`, `NeverTorn`, that a path
holds old bytes, new bytes or nothing, and that `AtomicWrite` implements
`AtomicFileSet`. None of these is inductive: whether an undo restores the set
depends on what the parked siblings hold in the middle of the swap. `IInv` adds
`Stages`, where each file stands in each loop (`Untouched`, `Swapping`, `Undoing`): the
files before `k` are parked and replaced, those after it untouched with complete new
bytes, and a parked sibling holds exactly what the path held before the call. The
refinement is proved step by step: a rename past the last file is the commit,
everything before it a stutter. `StagesStep` is stated over any larger set of paths,
and `Effect`, `Quiet` and `Ends` say what a step can do to the disk, so that a module
with several writers on one directory can use them.

**Save flow** (`SaveProofs`), for any number of saves, failures and kills, the two
writers being instances of the lemmas above:

- `TextIsKept`: the user's text is on the disk or in the backup, unless a save found no
  Map and took the directory for a new one; and failures that are reported never make
  a save do so;
- `ConfigIsLast`: once the config says 3.0.0, nothing of the older layout is left under its name;
- `StaysLoadable`: a v3 directory loads after every save, as long as no save is killed and no step of an undo fails.

A call that is over says nothing about the next one, which starts from whatever is
there; that is what `IInv` is about. `TextKept` says what holds the text of a v3
directory between calls: the file, or the sibling where the writer of the save parked
it. `Untroubled` follows the first save of an older layout to the backup.
`ConfigIsLast` is the deep one, since a directory whose migration failed may be
saved, saved as new, killed, and migrated again: `Settled` says that a migration that
is still to come finds either that no save has written anything, or that no save has
parked anything old; and that an entry under `content/` that makes the next save skip
the migration stays there for ever (`BodyThere`, `BodyStays`). The proof showed that
the property needs no exception for an undo that fails, which it had before.

**Canonical state** (`SaveProofs`), for any labels, sections and edits:

- `TypeCorrect`;
- `LoadsUnlessMoved`: as long as no node has been moved between sections, every reachable state loads;
- `NeverReused`: no ID names a second node, unless `context.json` was lost and a node was deleted together with its body;
- `UserNodesStay`: a save neither changes nor drops a node of the user;
- `BodiesStay`: a save neither loses a body nor takes one from the user;
- `InferenceIsFollowed`: after a save a section says what was inferred, and the agent's nodes nothing else and nothing twice;
- `AgentTextStays`: the same inference again changes nothing, and what is still inferred keeps its ID.

That an ID is new is decided by a counter, so `StateInv` ties the counters and the
bodies to the IDs ever given: `Counted` (the stored counter bounds them, unless it
was lost) or `Bodied` (every ID ever given still has a body, unless one was
deleted) lets recovery find the highest number. `Home` (IDs and files agree) is
what moving breaks, and the reason why `LoadsUnlessMoved` has its condition (the
divergences in section 3 say what happens without it). `SaveFacts` states once what a save
computes; the other lemmas use only that. `FixedPoint` is what a save leaves until the
next edit, and why a second one has nothing to do: the section says what was inferred,
nothing of the agent's is beside a user's status, each inferred node has its body, and
the counters bound the numbers in use (`Rested`); and an agent's node has an ID
(`Drafts`). `OneCandidate` then leaves the second save no choice.

**Daemon and lock** (`CommandProofs`), for any number of callers and kills:

- `LockExcludesAlways`: while no lock has been old, one caller at a time starts a daemon and holds the lock until it is published;
- `OldGoneFirstAlways`: nobody takes the lock or starts a daemon while one of another
  version still serves, unless a health check of that one has failed or timed out before.

`LockInv` says who holds the lock (`Holds`: from `mkdir` until the marker is gone, which
is longer than the code calls it held), that there is one such process and its
directory is there, and that nobody recovers. `OldInv` says that while the old daemon
serves and no check has taken it for dead, its record is published and every caller is on
the way that stops it.

**Sessions** (`ViewerProofs`), for any number of requests and projects and any
capacity: `StoresAreKept`, `AnswersAreKept`, `CapacityHolds` (there are never more sessions
than there is room for), and `OldestIsEvicted`. `Stores` says that a reference count is
the number of sessions with that store, and that a project's entry is the store of
its sessions; that several sessions are removed at once is why it is stated over the set
that stays. `Turns` says that the queue holds the creations in progress and only its
head binds: no other one can take the place made for it. `Resting` says that a daemon
goes by itself only when nothing is left, `Ordered` that last use is a strict order; that
an oldest session exists is proved by well-founded induction on finite sets.

**Store** (`ContextStoreProofs`), for any number of jobs, changes and failures:
`LeavesNothingOpen`, that a store that is closed, or has lost its watcher, is left
with nothing open by the refreshes that are in flight. `IInv` adds that a watcher
that has seen something is there (`Armed`: otherwise a late report would start the
timer of a closed store), that only one job binds and only until the store is bound
(`BindFirst`: the watcher it starts is not one of a closed store), and that a job has
what its next step uses (`Prepared`). `DetailsAreFresh`: the Map and the
body a detail is taken from are at least as new as they were when it was asked for. Each
is read later than that (`Timely`, for the Map from its read on, for the body from the
next), and the detail is looked up in what its own refresh has just published, whatever
older files another one publishes before or after.

**Page** (`PageProofs`), for any tree per revision and any number of changes and
failures: `LateAnswersAreDropped` and `NeverGoesBack`. That an answer is not older than
what is shown is not visible in the page. `InOrder` relates what is shown, what is on
its way and what the server has; `OneOfUse` says that only one of the two requests in
flight may still be applied; `BodiesInOrder` and `DrawerCurrent` do the same for the
details: a body asked for under one snapshot is not shown under another.

**Adapter** (`ObsidianAdapterProofs`), for any number of projects, Vaults, commands,
kills and actions by hand: `LinksStay`, `OthersAreLeft` and `CommandsAreWhole`. `RemoveSafe` is
what protects the others: a link that has been verified stays until it is removed,
since no other command can replace it. `Alone` says that a command during which
nobody else was active is alone, and `Progress` what it has read and written so far,
which is then what is there. `Remembered` adds to each established link that no
running command is about to touch it.

**Storage** (`CommandProofs`), for either runtime, a new project or a clone, any number
of commits, failures and kills: `SavedSurvivesHolds` (saved notes leave the working tree
only through an update that checks out another revision, and are then in a revision
that a branch or the parent names, unless a save has committed on a detached HEAD) and
`FailuresAreContainedHolds` (a save that reports a push has pushed, and one that reports
that it could not has committed, unless it said before that nothing changed, as both
runtimes do of a commit that failed; the Deno runtime leaves the user's staged work alone
and the mode as it was). `StInv` says where the checkout stands
(`Checkouts`), that a commit has the notes of its ancestors and the working tree those of
HEAD (`Histories`), that the branches have every note that was committed (`Branches`),
what must hold while a command is on its way to a report (`Reports`), and at which step
the Deno runtime can stand in which mode (`DenoModes`).

**Tree of the page** (`ViewerProofs`), for any trees in document order, searches and
snapshots: `InUseIsVisibleAlways`, `DetailsBelongAlways` and `SnapshotsKeepViewAlways`.
That an item is visible is about all items above it, so the proof needs that they are
finitely many and come earlier (`AboveIs`, `AboveEarlier`), by well-founded induction over
the place of an item.

**Snapshots and diff** (`HistoryProofs`):

- `BaselineIsPreviousAlways`, for any edits and saves, any retention of two or more, and
  saves killed before, while or after their snapshot is written: a diff compares with
  the state saved last or, if the files still say that, with the one before it;
- `V2ReportReplays`: the report of a v2 diff leads from the one state to the other, for
  any two Maps with their unknown sections: each text is in each section as often as the
  report says, and an empty report means the same texts on the same paths with the same
  boxes;
- `V3ReportReplays`: for any two v3 states, the report of a diff turns the IDs of the one
  into those of the other, and section, parent, label, summary, body, task state and
  priority of every row that is alone with its ID; an empty report means that the states
  are the same, but for the order, the origins, the unknown sections, and rows that share
  an ID (the drafts, which have none);
- `DiffReplaysAlways`: whatever snapshot there is, the report made of it and the files
  leads from the one to the other in this sense, whatever was edited, saved or migrated.

A snapshot's place in the order of file names is the number of those before it
(`OrderIs`), which makes the newest one the last (`LastInOrder`) and keeps it and the one
before it from being pruned (`NewestAreKept`); here two must be retained. `HistoryInv`
says that the clock is ahead of the snapshots (`InTime`), that the newest readable one is
of the state recorded last (`LastIsNewest`) and, unless one was torn, that the next is of
the one before (`PreviousIsKept`). The report of a v2 diff rests on each pass pairing
one-to-one (`FirstFreeIs`: the nth of a kind goes with the nth) what the other has left
(`TwoPasses`), so that every node is removed or added, edited, moved or neither, and
only one of these (`ReportIs`); the texts are then counted part by part. In v3 the diff
looks at one row for each ID (`ByIdIs`), which is the row where there is one only
(`SingleIs`); what the entries of a class make of its value is what the later row has
(`AfterIs`, `RowsAreTold`), and no entry means the same value. The last theorem adds that what is compared is made of sequences of nodes (`Comparable`): a Map
whatever its lines, a snapshot whatever its nodes, and what a migration plans from
whatever the older sources say.

**Map and migration** (`HistoryProofs`), for any Maps and older sources to start from and
any edits and saves:

- `SaveKeepsTheMap`: what a save renders reads as the nodes it was rendered from, so a
  Map that was saved is not changed by the next save;
- `OneHierarchyAlways`: in a section that begins at the margin and has one heading, all
  who read a Map give a node the same parent, and the viewer shows the node;
- `MigrationKeepsAllHolds`: a migration keeps the nodes of the Map as they are and in
  their places, every text of the sources it merges, every text a load has shown (or
  lists it below the conflicts), and gives every node an ID of its own and a body.

The invariant is `Wellformed`: the lines of the Map are headings and items, the items
of an older layout have no ID, and the sources have texts of the sections they are
consulted for. Two facts carry the rest: `IsDoc`, about lines, and `IsMap`, about nodes:
they come section by section, none more than one level below the one before it.
`MapNodesIsMap` says that the nodes of any lines are a Map (the levels that are open
grow by one at a time), `RoundTrip` that a Map is rendered to lines that read as this
Map, `PlanIsMap` and `ConvertIsMap` that both migrations make a Map of a Map. That no
text is lost follows part by part: what a section has is followed by what is new in it
(`Extends`), and a source whose text is not in its section is a candidate that lost
(`SingletonIsKept`).

That there is one hierarchy follows from what a parent is in such a section (`Above`):
the last node one level up, with no node in between that is as high. `NearestIs` and
`StackIs` say that the compiler and the snapshots find it, `FlatKeeps` that the diff's
own depths are those of the Map. The viewer reads lines: those of the section are one
after the other (`SectionIsRun`), at each it has the levels that parsing has
(`AgreeAlways`), and its stack holds the last line of every level that is open
(`StackHas`, `RunIsShown`). The two conditions are needed: a section whose first item is
indented, or that has two headings, is read differently by some of them.

Model-checked only:

- liveness (`RerunSucceeds`, `CallersFinish`, `DaemonsStop`, `ShutdownEnds`, `Settles`,
  `CatchesUp`), which the prover does not reach;
- `CutsAreLastResort`, which is about what folds over a Map compute.

## 5. Not modelled

Text: the wording and layout of what is rendered and printed, parsing of single
lines, redaction, localisation, HTML. The settings of `config.mjs` and the comment
scanner, which are looked up and run once, without shared state. What a save infers
from git, TODO comments and package files: `HandoffState` takes any outcome.
`applyMigration`, `reconcileContextMap` and `writeSnapshot`, which no command calls
any more. Reading and writing of the runtime directory's permissions.
Authentication and routing of the server. Power loss. Two saves of one project at
once: nothing in the code promises anything about them. Evaluation scripts,
installers and bundles. The components listed as `not_modelled` in `PROJECT.json`
each say why.

## 6. What could follow

1. Theorems about the cuts of a load: what the folds over a Map leave out.
2. `Page` over `ContextStore`, in place of the server that answers from any state.
3. Redaction: a label that `filterSensitive` changes after its fingerprint was
   rendered (`node/save.mjs:551`).
4. Two saves at once, as a search for what would have to be promised.
