-------------------------- MODULE LegacyMigration --------------------------
(***************************************************************************)
(* How the files of an older version become the nodes of a v3 handoff:     *)
(* planMigration (scripts/migrate.mjs) merges the sources of a 1.x handoff *)
(* into a v2 Map, planV2ToV3Migration (scripts/migrate-v3.mjs) decides     *)
(* which of the two starts, and gives every node an ID and a body.  A      *)
(* source is the sequence of texts it has for each section; texts that     *)
(* normalise alike are one, and whether a task is done is left out.  How   *)
(* the plan reaches the disk is SaveFlow's and AtomicWrite's subject.      *)
(***************************************************************************)
EXTENDS ContextMap

CONSTANTS
  ConflictLabel,  \* the node above the superseded values
  Protocol        \* the major version of a Map that says none

ASSUME ConflictAssumption == ConflictLabel # None /\ Protocol \in Nat

\* The sources, by precedence, that have each section.
Singletons == {"goals", "status"}
SourcesOf(section) ==
  CASE section \in Singletons   -> <<"json", "handoff">>
    [] section = "tasks"        -> <<"json", "tasksMd", "handoff">>
    [] section = "decisions"    -> <<"json", "decisionsMd">>
    [] section = "risks"        -> <<"json", "handoff">>
    [] section = "notes"        -> <<"json">>
    [] OTHER                    -> <<>>

\* files.json and the other sources are None if missing or not parseable;
\* files.version is the one of context.json, files.config that of the config.
Has(files, name) == files[name] # None
TextsOf(files, name, section) ==
  IF Has(files, name) /\ section \in DOMAIN files[name] THEN files[name][section] ELSE <<>>

\* The nodes of a Map, without their lines; a file that is missing has no lines,
\* and what follows takes the nodes for the Map.
MapNodes(doc) ==
  LET nodes == Parse(doc)
  IN  [i \in DOMAIN nodes |-> [nodes[i] EXCEPT !.at = 0]]
\* One that has unknown sections only, which the code takes for usable, is left
\* out.
Usable(nodes) == nodes # <<>>

NewNode(section, depth, label) ==
  [section |-> section, depth |-> depth, id |-> None, label |-> label,
   checked |-> FALSE, high |-> FALSE, at |-> 0]

-----------------------------------------------------------------------------
(* planMigration: the v2 Map of a 1.x handoff.                             *)

\* The version a handoff says it has; None if nothing says one.
Marker(files, nodes) ==
  IF Has(files, "json") /\ files.version # None THEN files.version
  ELSE IF files.config # None THEN files.config
  ELSE IF Usable(nodes) THEN Protocol ELSE None

\* isMigrationNeeded: files without any version are not migrated.
IsMigrationNeeded(files, nodes) ==
  /\ Marker(files, nodes) # None
  /\ ~(Usable(nodes) /\ Marker(files, nodes) >= 2)

\* The sources that say anything of a section.
Speaking(files, field) ==
  LET names == SourcesOf(field)
  IN  Picked(names, {k \in DOMAIN names : TextsOf(files, names[k], field) # <<>>})

\* Mutant of Candidates: HANDOFF.md is consulted only without a context.json.
CandidatesFirst(files, field) ==
  LET names == Speaking(files, field)
      all == [k \in DOMAIN names |-> <<names[k], Head(TextsOf(files, names[k], field))>>]
  IN  SubSeq(all, 1, IF all = <<>> THEN 0 ELSE 1)

\* The value of a singleton in each source that has one, with the source.
Candidates(files, field) ==
  LET names == Speaking(files, field)
  IN  [k \in DOMAIN names |-> <<names[k], Head(TextsOf(files, names[k], field))>>]

\* resolveSingleton: the Map's nodes, or else the first candidate.
Winner(files, nodes, field) ==
  LET own == InSection(nodes, field)
      legacy == Candidates(files, field)
  IN  IF own # <<>> THEN own
      ELSE IF legacy # <<>> THEN <<NewNode(field, 0, legacy[1][2])>> ELSE <<>>

\* collectConflicts: the candidates that say something else.
Conflicts(files, nodes, field) ==
  LET all  == Candidates(files, field)
      kept == Winner(files, nodes, field)
      lost == Picked(all, {k \in DOMAIN all : all[k][2] # kept[1].label})
  IN  [k \in DOMAIN lost |-> NewNode("questions", 1, <<field, lost[k][2], lost[k][1]>>)]

\* mergeNodes: the Map's nodes as they are, then every new text, once.
MergeNodes(files, nodes, section) ==
  LET own   == InSection(nodes, section)
      names == SourcesOf(section)
      texts == FlattenSeq([k \in DOMAIN names |-> TextsOf(files, names[k], section)])
      seen(k) == {n.label : n \in Range(own)} \cup {texts[j] : j \in 1..k - 1}
      new   == Picked(texts, {k \in DOMAIN texts : texts[k] \notin seen(k)})
  IN  own \o [k \in DOMAIN new |-> NewNode(section, 0, new[k])]

\* Below a node that says what they are.
Listed(conflicts) ==
  IF conflicts = <<>> THEN <<>> ELSE <<NewNode("questions", 0, ConflictLabel)>> \o conflicts

PlanMigration(files, nodes) ==
  LET section(s) ==
        IF s \in Singletons THEN Winner(files, nodes, s)
        ELSE IF s = "questions"
          THEN InSection(nodes, s)
               \o Listed(Conflicts(files, nodes, "goals") \o Conflicts(files, nodes, "status"))
        ELSE MergeNodes(files, nodes, s)
  IN  FlattenSeq([k \in DOMAIN SectionOrder |-> section(SectionOrder[k])])

-----------------------------------------------------------------------------
(* planV2ToV3Migration: the v3 state.                                      *)

\* hasLegacySemantics: a context.json with semantic fields, or Markdown that
\* no save has generated.
HasLegacySemantics(files) ==
  \/ Has(files, "json") /\ DOMAIN files.json # {}
  \/ ~files.generated /\ \E n \in {"handoff", "tasksMd", "decisionsMd"} : Has(files, n)

Chained(files, nodes) == ~(Usable(nodes) /\ ~HasLegacySemantics(files))

\* Whether a save migrates, and from which nodes.  (A context.json that says
\* it is v3, without the content files, is SaveFlow's subject.)
Needed(files, nodes) ==
  Chained(files, nodes) => IsMigrationNeeded(files, nodes) \/ Usable(nodes)
Migrated(files, nodes) ==
  IF Chained(files, nodes) /\ IsMigrationNeeded(files, nodes)
    THEN PlanMigration(files, nodes) ELSE nodes

\* convertV2MapToV3State: IDs in the order of each section, the text as body.
Convert(nodes) ==
  LET number(i) == Cardinality(Before(nodes, i)) + 1
  IN  [i \in DOMAIN nodes |-> [nodes[i] EXCEPT !.id = <<nodes[i].section, number(i)>>]]
ConvertContent(v3) ==
  [id \in {n.id : n \in Range(v3)} |->
     [summary |-> (CHOOSE n \in Range(v3) : n.id = id).label, body |-> None, origin |-> "user"]]

-----------------------------------------------------------------------------

\* What the sources of a migration say of a section.
Said(files, section) ==
  UNION {Range(TextsOf(files, n, section)) : n \in Range(SourcesOf(section))}

\* The text is in its section, or is a superseded value below the conflicts.
Kept(nodes, section, text) ==
  \E n \in Range(nodes) :
    \/ n.section = section /\ n.label = text
    \/ section \in Singletons /\ n.section = "questions" /\ n.depth = 1
       /\ \E source \in Range(SourcesOf(section)) : n.label = <<section, text, source>>
=============================================================================
