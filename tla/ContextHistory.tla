--------------------------- MODULE ContextHistory ---------------------------
(***************************************************************************)
(* A handoff over time, as the commands that read it see it: users edit    *)
(* context-map.md and the bodies, `/handoff save` migrates an older layout,*)
(* renders the Map anew and records a snapshot of what it saved            *)
(* (scripts/snapshots.mjs), `/handoff diff` compares a snapshot with the   *)
(* files (ContextDiff) and `/handoff load` selects from them               *)
(* (ContextCompiler).  The snapshot is best effort: the save is over when  *)
(* its files are in place, and may be killed before or while the snapshot  *)
(* is written.  What a save infers is HandoffState's subject, how its      *)
(* files reach the disk SaveFlow's; here it infers nothing and is whole.   *)
(***************************************************************************)
EXTENDS ContextDiff, ContextCompiler, LegacyMigration

CONSTANTS
  Starts,     \* the directories to start from: see HistoryInit
  Options,    \* what `/handoff load` is called with
  Labels,     \* what an edit can write
  Bodies,     \* what it can put into a body
  Extras,     \* the lines it can add to unknown sections
  Widths,     \* the indentations it uses
  Retention   \* SNAPSHOT_RETENTION

\* SNAPSHOT_RETENTION is 20; of an older version there is one snapshot at most.
ASSUME HistoryAssumption ==
  /\ Retention \in Nat \ {0, 1}
  /\ \A start \in Starts : \A s, t \in start.snapshots : s = t
  /\ \A opt \in Options : opt.effort \in Efforts

\* A Map, the nodes of one and the texts of a source are sequences, and there are
\* finitely many bodies.
ASSUME StartAssumption ==
  \A start \in Starts :
    /\ start.doc \in Seq(Range(start.doc))
    /\ IsFiniteSet(DOMAIN start.content)
    /\ start.extras \in Seq(Range(start.extras))
    /\ \A s \in start.snapshots :
         s.nodes \in Seq(Range(s.nodes)) /\ s.extras \in Seq(Range(s.extras))
    /\ \A section \in Range(SectionOrder) : \A name \in Range(SourcesOf(section)) :
         LET texts == TextsOf(start.files, name, section) IN texts \in Seq(Range(texts))

\* A line is a heading or an item; an item has an ID only in a v3 Map.
IsItem(line) ==
  line = Item(line.indent, line.id, line.label, line.checked, line.high) /\ line.indent \in Nat
IsLine(line) == (\E s \in Range(SectionOrder) \cup {None} : line = Heading(s)) \/ IsItem(line)

\* A goal and a status are one text; context.json and HANDOFF.md have texts only
\* of the sections they are consulted for.
ASSUME SourceAssumption ==
  /\ Widths \subseteq Nat /\ "questions" \in Range(SectionOrder)
  /\ \A start \in Starts :
       /\ \A line \in Range(start.doc) :
            /\ IsLine(line)
            /\ start.layout # "v3" => IsHeading(line) \/ line.id = None
       /\ \A s \in Range(SectionOrder) : \A name \in {"json", "handoff"} :
            /\ name \notin Range(SourcesOf(s)) => TextsOf(start.files, name, s) = <<>>
            /\ s \in Singletons => Len(TextsOf(start.files, name, s)) <= 1

VARIABLES
  layout,     \* "legacy", "v2" or "v3" (layoutOfDir)
  doc,        \* the lines of context-map.md, none if there is no file
  marks,      \* the marks of the agent's nodes in it, by ID: what they said
  extras,     \* the lines of its unknown sections; doc has their headings only
  content,    \* the entries of content/*.md by ID
  files,      \* the sources of an older version
  snapshots,  \* history/snapshots: when, in which layout ("torn": none), what
  clock,      \* the clock of the machine
  pending,    \* <<what>> a save has yet to record
  recorded,   \* history: the states recorded, each one different from the last
  trouble,    \* history: what has happened to snapshots: "torn", "setBack"
  edits       \* what the user is still going to do: how often, and what

historyVars ==
  <<layout, doc, marks, extras, content, files, snapshots, clock, pending, recorded, trouble, edits>>

NoFiles == [json |-> None, handoff |-> None, tasksMd |-> None, decisionsMd |-> None,
            version |-> None, config |-> None, generated |-> FALSE]

HistoryInit ==
  /\ \E start \in Starts :
       /\ layout = start.layout /\ doc = start.doc /\ content = start.content
       /\ marks = start.marks /\ extras = start.extras
       /\ files = start.files /\ edits = start.edits
       /\ snapshots = {[at |-> 0, layout |-> "v2", state |-> s] : s \in start.snapshots}
  /\ clock = 0
  /\ pending = <<>> /\ recorded = <<>>
  /\ trouble = {}

Nodes   == MapNodes(doc)
Current == SnapshotV3(Nodes, content, marks, extras)

-----------------------------------------------------------------------------
(* Users.                                                                  *)

Edit(kind) ==
  /\ edits.left > 0 /\ kind \in edits.kinds
  /\ edits' = [edits EXCEPT !.left = @ - 1]
  /\ UNCHANGED <<layout, marks, files, snapshots, clock, pending, recorded, trouble>>

Items == {k \in DOMAIN doc : ~IsHeading(doc[k])}

EditItem ==
  /\ UNCHANGED <<content, extras>>
  /\ \E k \in Items :
       \/ Edit("label") /\ \E l \in Labels : doc' = [doc EXCEPT ![k].label = l]
       \/ Edit("check") /\ doc' = [doc EXCEPT ![k].checked = ~@]
       \/ Edit("indent") /\ \E w \in Widths : doc' = [doc EXCEPT ![k].indent = w]
       \/ Edit("remove") /\ doc' = RemoveAt(doc, k)
       \/ /\ Edit("swap") /\ k + 1 \in Items
          /\ doc' = [doc EXCEPT ![k] = doc[k + 1], ![k + 1] = doc[k]]
       \/ /\ Edit("priority") /\ Read(doc)[k].section \in {"tasks", "risks"}
          /\ doc' = [doc EXCEPT ![k].high = ~@]

\* An item that is typed has no ID, and no save gives it one.
AddItem ==
  /\ Edit("add")
  /\ \E k \in DOMAIN doc : \E l \in Labels : \E w \in Widths :
       doc' = InsertAt(doc, k + 1, Item(w, None, l, FALSE, FALSE))
  /\ UNCHANGED <<content, extras>>

\* The entry is the user's from then on.
EditBody ==
  /\ Edit("body")
  /\ \E id \in DOMAIN content : \E b \in Bodies \ {content[id].body} :
       content' = [content EXCEPT ![id] = [@ EXCEPT !.body = b, !.origin = "user"]]
  /\ UNCHANGED <<doc, extras>>

EditExtra ==
  /\ Edit("extra")
  /\ \/ \E e \in Extras : extras' = Append(extras, e)
     \/ extras # <<>> /\ extras' = Tail(extras)
  /\ UNCHANGED <<doc, content>>

\* The clock is set back (by three of the two units a snapshot takes).
SetBack ==
  /\ "setBack" \notin trouble /\ clock > 0 /\ "clock" \in edits.kinds
  /\ clock' = clock - 3
  /\ trouble' = trouble \cup {"setBack"}
  /\ UNCHANGED <<layout, doc, marks, extras, content, files, snapshots, pending, recorded, edits>>

-----------------------------------------------------------------------------
(* `/handoff save`.                                                        *)

\* The user's nodes are rendered without a mark.  reconcileV3State makes a new
\* Map of the known sections: the unknown ones are gone.
SaveAs(nodes, bodies) ==
  /\ doc' = Render(nodes) /\ content' = bodies
  /\ marks' = Restrict(marks, {n.id : n \in {m \in Range(nodes) : Origin(m, marks) = "agent"}})
  /\ extras' = <<>>
  /\ layout' = "v3"
  /\ pending' = <<SnapshotV3(nodes, bodies, marks, <<>>)>>
  /\ UNCHANGED <<snapshots, clock, recorded, trouble, edits>>

\* A migration takes the sources away.  Its nodes are the user's (in the code
\* those of a v2 Map that has the agent's mark on them keep it).
MigrateAs(nodes) ==
  SaveAs(nodes, ConvertContent(nodes)) /\ files' = NoFiles

\* A handoff that needs no migration and has no content files is started anew.
Save ==
  /\ pending = <<>>
  /\ \/ layout = "v3" /\ SaveAs(Nodes, content) /\ UNCHANGED files
     \/ layout # "v3" /\ Needed(files, Nodes) /\ MigrateAs(Convert(Migrated(files, Nodes)))
     \/ layout # "v3" /\ ~Needed(files, Nodes) /\ SaveAs(<<>>, <<>>) /\ UNCHANGED files

InOrder(S) ==
  [k \in 1..Cardinality(S) |-> CHOOSE s \in S : Cardinality({t \in S : t.at < s.at}) = k - 1]

\* Mutant of Unchanged: any snapshot of the state will do, not the newest.
UnchangedAny(state) == \E s \in snapshots : s.layout = "v3" /\ s.state = state

\* The newest snapshot is of this state; one that cannot be read is not.
Unchanged(state) ==
  snapshots # {} /\ LET newest == Last(InOrder(snapshots))
                    IN  newest.layout = "v3" /\ newest.state = state

\* writeV3Snapshot: the oldest files go, unless the save is killed first.
Record ==
  /\ pending # <<>>
  /\ LET state == pending[1]
         new   == [at |-> clock + 2, layout |-> "v3", state |-> state]
         order == InOrder(snapshots \cup {new})
         stale == {order[k] : k \in 1..Len(order) - Retention}
     IN  /\ IF Unchanged(state) THEN UNCHANGED <<snapshots, clock>>
            ELSE /\ clock' = clock + 2
                 /\ \/ snapshots' = (snapshots \cup {new}) \ stale
                    \/ "kill" \in edits.kinds /\ snapshots' = snapshots \cup {new}
         /\ recorded' = IF recorded # <<>> /\ Last(recorded) = state
                          THEN recorded ELSE Append(recorded, state)
  /\ pending' = <<>>
  /\ UNCHANGED <<layout, doc, marks, extras, content, files, trouble, edits>>

\* The save is killed, or the disk full, before the snapshot is written or
\* while it is.
SkipRecord ==
  /\ pending # <<>> /\ "kill" \in edits.kinds
  /\ pending' = <<>>
  /\ UNCHANGED <<layout, doc, marks, extras, content, files, snapshots, clock, recorded, trouble,
                 edits>>

TearRecord ==
  /\ pending # <<>> /\ "kill" \in edits.kinds /\ "torn" \notin trouble
  /\ ~Unchanged(pending[1])
  /\ clock' = clock + 2
  /\ snapshots' = snapshots \cup {[at |-> clock + 2, layout |-> "torn", state |-> <<>>]}
  /\ trouble' = trouble \cup {"torn"}
  /\ pending' = <<>>
  /\ UNCHANGED <<layout, doc, marks, extras, content, files, recorded, edits>>

HistoryNext ==
  \/ EditItem \/ AddItem \/ EditBody \/ EditExtra \/ SetBack
  \/ Save \/ Record \/ SkipRecord \/ TearRecord

HistorySpec == HistoryInit /\ [][HistoryNext]_historyVars

-----------------------------------------------------------------------------
(* `/handoff load` (scripts/load.ts, scripts/node/load.mjs), whole: what    *)
(* it shows of each section.  A readable v3 state is the only source; an   *)
(* older Map is completed by context.json where it is empty; without a     *)
(* usable Map, context.json is shown if it has a list of tasks, and else   *)
(* HANDOFF.md.                                                             *)

Says(section) == {n.label : n \in Range(InSection(Nodes, section))}

\* mergeContextMapWithJson.
Merged(section) ==
  IF Says(section) # {} THEN Says(section) ELSE Range(TextsOf(files, "json", section))

Shown(section) ==
  IF layout = "v3" THEN Says(section)
  ELSE IF Usable(Nodes) THEN Merged(section)
  ELSE IF Has(files, "json") /\ "tasks" \in DOMAIN files.json
    THEN Range(TextsOf(files, "json", section))
  ELSE Range(TextsOf(files, "handoff", section))

-----------------------------------------------------------------------------
(* `/handoff diff` without --from (runV3Diff).                             *)

Readable == {s \in snapshots : s.layout = "v3"}

\* The state the files are compared with; None is a failure.
Baseline ==
  LET order == InOrder(Readable)
      same  == order # <<>> /\ Last(order).state = Current
      pick  == Len(order) - (IF same THEN 1 ELSE 0)
  IN  IF pick < 1 THEN None ELSE order[pick].state

\* Where all readers agree on the Map, and a save does not change it.
OneHierarchy ==
  Nodes # <<>> =>
    /\ Unanimous(doc)
    /\ MapNodes(Render(Nodes)) = Nodes

\* A diff compares with the state saved last or, if nothing has changed since,
\* with the different state saved before it: also after A, B, A, after a save
\* that was killed at its snapshot and with the oldest snapshots pruned.  A
\* snapshot torn since may repeat the last state, and a clock that was set
\* back puts them out of order.
BaselineIsPrevious ==
  layout = "v3" /\ pending = <<>> /\ "setBack" \notin trouble =>
    LET n == Len(recorded)
    IN  /\ n > 0 /\ recorded[n] # Current => Baseline = recorded[n]
        /\ n > 0 /\ recorded[n] = Current /\ trouble = {} =>
             Baseline = IF n = 1 THEN None ELSE recorded[n - 1]
        /\ n = 0 => Baseline = None

\* Whatever snapshot the files are compared with, the report leads from the
\* one to the other: row by row, but for drafts, several of which are one row to
\* the diff.  A snapshot also holds what no report tells (Overlooked): a save
\* records a change of that alone, and a diff of it is empty.
DiffReplays ==
  \A s \in snapshots :
    /\ layout = "v3" /\ s \in Readable =>
         ReplaysV3(s.state, Current, DiffV3States(s.state, Current))
    /\ layout = "v2" /\ s.layout = "v2" =>
         ReplaysV2(DiffStates(s.state, [nodes |-> Nodes, extras |-> extras]))

\* Whatever a load asks for, the budget is met by leaving out what matters
\* least, and not at the cost of core nodes or of the hierarchy.
CutsAreLastResort ==
  \A opt \in Options :
    /\ layout = "v3" => FitsV3(Nodes, content, opt, CompileV3(Nodes, content, opt))
    /\ layout = "v2" /\ Usable(Nodes) => FitsV2(Nodes, opt, CompileV2(Nodes, opt))

\* A migration keeps what the user wrote into the Map as it is, in its place,
\* every text of the older sources and every text a load has shown, if only as
\* a superseded value below the conflicts; and every node has an ID of its own
\* and its text as a body.
MigrationKeeps ==
  layout # "v3" /\ layout' = "v3" /\ Needed(files, Nodes) =>
    LET new == MapNodes(doc')
        merged == Chained(files, Nodes) /\ IsMigrationNeeded(files, Nodes)
        own(s) == [k \in DOMAIN InSection(new, s) |-> [InSection(new, s)[k] EXCEPT !.id = None]]
    IN  /\ \A s \in Range(SectionOrder) :
             /\ IsPrefix(InSection(Nodes, s), own(s))
             /\ merged => \A t \in Said(files, s) : Kept(new, s, t)
             /\ merged \/ ~Chained(files, Nodes) => \A t \in Shown(s) : Kept(new, s, t)
        /\ Cardinality({n.id : n \in Range(new)}) = Len(new)
        /\ \A n \in Range(new) : n.id \in DOMAIN content' /\ content'[n.id].summary = n.label

\* So does every step.
MigrationKeepsAll == [][MigrationKeeps]_historyVars
=============================================================================
