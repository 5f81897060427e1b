---------------------------- MODULE ContextDiff ----------------------------
(***************************************************************************)
(* What `/handoff diff` compares and reports (scripts/context-diff.mjs).   *)
(* A v2 Map has no IDs: its nodes are matched by what they say, and by     *)
(* their place if they say something new.  The nodes of a v3 handoff are   *)
(* matched by ID.  Both compare the snapshot of an earlier save, as        *)
(* buildSnapshot and buildV3Snapshot normalise it, with the files as they  *)
(* are; the command writes nothing.  A state has the nodes of the Map and  *)
(* the lines of its unknown sections (extras), each <<heading, text>>.     *)
(***************************************************************************)
EXTENDS ContextMap, Functions

CONSTANT Pieces   \* what " > " cuts each text into

-----------------------------------------------------------------------------
(* v2: diffStates.                                                         *)

\* flattenState: a node with its path, the texts from the margin down to it, of
\* which one that holds a " > " looks like two; the state of its box is kept for
\* tasks only.  The lines of unknown sections follow, each a node at the margin.
FlatNodes(nodes) ==
  LET flat == Flat(nodes)
      path[i \in 1..Len(nodes)] ==
        LET up == NearestParent(flat, i)
        IN  (IF up = 0 THEN <<>> ELSE path[up]) \o Pieces[nodes[i].label]
  IN  [i \in DOMAIN nodes |->
         [section |-> nodes[i].section, text |-> nodes[i].label,
          depth |-> flat[i].depth, path |-> path[i],
          checked |-> nodes[i].section = "tasks" /\ nodes[i].checked]]

FlatExtras(lines) ==
  [k \in DOMAIN lines |->
     [section |-> lines[k][1], text |-> lines[k][2],
      depth |-> 0, path |-> Pieces[lines[k][2]], checked |-> FALSE]]

Flatten(state) == FlatNodes(state.nodes) \o FlatExtras(state.extras)

\* Pairs of a node of B and the first one of A that is like it and not yet
\* taken: the nth of a kind goes with the nth of that kind.  The functions of
\* and as give the kinds.
Nth(kind, pool, i) == Cardinality({k \in pool : k < i /\ kind[k] = kind[i]})
FirstFree(of, B, as, A) ==
  {p \in B \X A : of[p[1]] = as[p[2]] /\ Nth(of, B, p[1]) = Nth(as, A, p[2])}

Left(pool, pairs, side) == pool \ {p[side] : p \in pairs}

ByText(nodes)  == [i \in DOMAIN nodes |-> nodes[i].text]
ByHome(nodes)  == [i \in DOMAIN nodes |-> <<nodes[i].section, nodes[i].text>>]
ByLevel(nodes) == [i \in DOMAIN nodes |-> <<nodes[i].section, nodes[i].depth>>]

\* Mutant of ExactPairs: what the first pass has matched stays in the pool.
ExactPairsTwice(before, after) ==
  LET B == DOMAIN before
      A == DOMAIN after
  IN  FirstFree(ByHome(before), B, ByHome(after), A)
      \cup FirstFree(ByText(before), B, ByText(after), A)

\* matchByText, in the same section first.
ExactPairs(before, after) ==
  LET B == DOMAIN before
      A == DOMAIN after
      home == FirstFree(ByHome(before), B, ByHome(after), A)
  IN  home \cup FirstFree(ByText(before), Left(B, home, 1), ByText(after), Left(A, home, 2))

\* The report, by the indices of the nodes it is about.
Report(before, after, exact) ==
  LET B      == Left(DOMAIN before, exact, 1)
      A      == Left(DOMAIN after, exact, 2)
      edited == FirstFree(ByLevel(before), B, ByLevel(after), A)
      place(n) == <<n.section, n.path>>
  IN  [before  |-> before, after |-> after,
       added   |-> Left(A, edited, 2),
       removed |-> Left(B, edited, 1),
       edited  |-> edited,
       moved   |-> {p \in exact : place(before[p[1]]) # place(after[p[2]])},
       taskStateChanged |->
         {p \in exact \cup edited :
            /\ before[p[1]].section = "tasks" /\ after[p[2]].section = "tasks"
            /\ before[p[1]].checked # after[p[2]].checked}]

ReportV2(before, after) == Report(before, after, ExactPairs(before, after))
DiffStates(before, after) == ReportV2(Flatten(before), Flatten(after))

DiffKeys == {"added", "removed", "edited", "moved", "taskStateChanged"}

\* The texts of a section, and what the report makes of them.
Texts(nodes, I, s, t) == Cardinality({i \in I : nodes[i].section = s /\ nodes[i].text = t})
Replayed(d, s, t) ==
  LET ends(pairs, side, nodes) ==
        Cardinality({p \in pairs : nodes[p[side]].section = s /\ nodes[p[side]].text = t})
  IN  Texts(d.before, DOMAIN d.before, s, t)
      - Texts(d.before, d.removed, s, t) - ends(d.edited, 1, d.before) - ends(d.moved, 1, d.before)
      + Texts(d.after, d.added, s, t) + ends(d.edited, 2, d.after) + ends(d.moved, 2, d.after)

\* A report is a way from the one state to the other: no text is counted twice,
\* and none is left out; an empty one means the same texts in the same places,
\* with the same boxes.  (Which of two siblings comes first, and who wrote a
\* node, no v2 report tells.)
ReplaysV2(d) ==
  /\ \A i \in DOMAIN d.after :
       Replayed(d, d.after[i].section, d.after[i].text)
         = Texts(d.after, DOMAIN d.after, d.after[i].section, d.after[i].text)
  /\ \A i \in DOMAIN d.before :
       Replayed(d, d.before[i].section, d.before[i].text)
         = Texts(d.after, DOMAIN d.after, d.before[i].section, d.before[i].text)
  /\ (\A k \in DiffKeys : d[k] = {}) =>
       {<<n.section, n.path, n.checked>> : n \in Range(d.before)}
         = {<<n.section, n.path, n.checked>> : n \in Range(d.after)}

-----------------------------------------------------------------------------
(* v3: buildV3Snapshot, diffV3States.                                      *)

\* An agent's node stays the agent's as long as it says what its mark says.
Origin(n, marks) ==
  IF n.id \in DOMAIN marks /\ marks[n.id] = <<n.label, n.section = "tasks" /\ n.checked>>
    THEN "agent" ELSE "user"

\* content[id] is the entry of a body file, which the ID names.  A draft has no
\* ID, no mark and no body.  An entry without a node is a row that says nothing;
\* the code puts it after its section's nodes, which makes no difference.
SnapshotV3(nodes, content, marks, extras) ==
  LET idOf(i)   == IF i = 0 THEN None ELSE nodes[i].id
      has(n)    == n.id \in DOMAIN content
      orphans   == SetToSeq(DOMAIN content \ {n.id : n \in Range(nodes)})
      row(n, parent, order, origin) ==
        [id |-> n.id, section |-> n.section, parent |-> parent, order |-> order,
         label |-> n.label, origin |-> origin,
         summary |-> IF has(n) THEN content[n.id].summary ELSE None,
         body |-> IF has(n) THEN content[n.id].body ELSE None,
         taskState |-> IF n.section = "tasks" /\ n.label # None THEN n.checked ELSE None,
         high |-> n.high]
      orphan(id) == [id |-> id, section |-> id[1], label |-> None, checked |-> FALSE, high |-> FALSE]
      own == [i \in DOMAIN nodes |->
                row(nodes[i], idOf(StackParent(nodes, i)), Cardinality(Before(nodes, i)),
                    Origin(nodes[i], marks))]
      loose == [k \in DOMAIN orphans |->
                  row(orphan(orphans[k]), None, -1, content[orphans[k]].origin)]
  IN  [nodes |-> own \o loose, extras |-> extras]

\* new Map(nodes.map((n) => [n.id, n])): the drafts are one entry.
ById(rows) ==
  LET at(id) == Max({i \in DOMAIN rows : rows[i].id = id})
  IN  [id \in {n.id : n \in Range(rows)} |-> rows[at(id)]]

Place(n) == <<n.section, n.parent>>
IsDone(n) == n.taskState = TRUE

\* The report; of a task it tells whether it was and is done, and no state is
\* told as not done.
DiffV3States(earlier, later) ==
  LET before == ById(earlier.nodes)
      after  == ById(later.nodes)
      both   == DOMAIN before \cap DOMAIN after
      told(Of(_), As(_)) ==
        {[id |-> id, before |-> As(before[id]), after |-> As(after[id])] :
           id \in {x \in both : Of(before[x]) # Of(after[x])}}
      differ(Of(_)) == told(Of, Of)
      says(n) == [id |-> n.id, section |-> n.section, label |-> n.label]
  IN  [added   |-> {says(after[id]) : id \in DOMAIN after \ DOMAIN before},
       deleted |-> {says(before[id]) : id \in DOMAIN before \ DOMAIN after},
       moved             |-> differ(Place),
       labelEdited       |-> differ(LAMBDA n : n.label),
       summaryEdited     |-> differ(LAMBDA n : n.summary),
       bodyEdited        |-> differ(LAMBDA n : n.body),
       taskStateChanged  |-> told(LAMBDA n : n.taskState, IsDone),
       attributesChanged |-> differ(LAMBDA n : n.high)]

V3DiffClasses == {"added", "deleted", "moved", "labelEdited", "summaryEdited", "bodyEdited",
                  "taskStateChanged", "attributesChanged"}

Rows(state) == Range(state.nodes)
IdsIn(rows) == {n.id : n \in rows}

\* One row has the ID at most: drafts share theirs, which is none.
Single(state, id) ==
  \A i, j \in DOMAIN state.nodes : state.nodes[i].id = id /\ state.nodes[j].id = id => i = j

\* What a report says nothing about: the order of the nodes, who wrote them, the
\* unknown sections, and all drafts but the last.
Overlooked(earlier, later) ==
  \/ earlier.extras # later.extras
  \/ \E n \in Rows(earlier) \cup Rows(later) : ~(Single(earlier, n.id) /\ Single(later, n.id))
  \/ \E m \in Rows(earlier), n \in Rows(later) :
       m.id = n.id /\ <<m.order, m.origin>> # <<n.order, n.origin>>

\* What the entries of a report make of a value.
After(entries, id, value) ==
  IF \E e \in entries : e.id = id THEN (CHOOSE e \in entries : e.id = id).after ELSE value

\* The report d leads from the one state to the other: with its rows deleted
\* and added there are those of the later state, and what it tells of a row
\* turns the values of the earlier state into those of the later.  An empty one
\* means the same state, but for what no report tells.
ReplaysV3(earlier, later, d) ==
  /\ IdsIn(Rows(later)) = (IdsIn(Rows(earlier)) \ IdsIn(d.deleted)) \cup IdsIn(d.added)
  /\ \A n \in Rows(later) : \A e \in d.added :
       n.id = e.id /\ Single(later, n.id) => n.section = e.section /\ n.label = e.label
  /\ \A m \in Rows(earlier), n \in Rows(later) :
       m.id = n.id /\ Single(earlier, m.id) /\ Single(later, m.id) =>
         /\ After(d.moved, m.id, <<m.section, m.parent>>) = <<n.section, n.parent>>
         /\ After(d.labelEdited, m.id, m.label) = n.label
         /\ After(d.summaryEdited, m.id, m.summary) = n.summary
         /\ After(d.bodyEdited, m.id, m.body) = n.body
         /\ After(d.taskStateChanged, m.id, m.taskState = TRUE) = (n.taskState = TRUE)
         /\ After(d.attributesChanged, m.id, m.high) = n.high
  /\ (\A k \in V3DiffClasses : d[k] = {}) /\ ~Overlooked(earlier, later) =>
       Rows(earlier) = Rows(later) /\ earlier.extras = later.extras
=============================================================================
