----------------------------- MODULE ContextMap -----------------------------
(***************************************************************************)
(* How context-map.md becomes a hierarchy.  The file is parsed by          *)
(* parseContextMap and parseContextMapV3 (scripts/context-map.mjs) and, in *)
(* the viewer, by parseRenderTree (viewer/runtime/context-map-parser.mjs); *)
(* and the parent of a node is found in four more places, each in its own  *)
(* way.  A file is the sequence of its lines: headings, whose section is   *)
(* None if it is not one of the protocol's, and list items.  Everything    *)
(* else, what follows the footer, and the decorations of an item (owner,   *)
(* priority) are left out; a tab counts as its four columns.               *)
(***************************************************************************)
EXTENDS Integers, Sequences, SequencesExt, FiniteSetsExt

CONSTANTS
  SectionOrder,   \* the keys of the sections, in their order
  None

ASSUME OrderAssumption ==
  /\ SectionOrder \in Seq(Range(SectionOrder)) /\ IsInjective(SectionOrder)
  /\ None \notin Range(SectionOrder)

\* A node of section s says label; an item that has no ID yet has None.
Item(indent, id, label, checked, high) ==
  [indent |-> indent, id |-> id, label |-> label, checked |-> checked, high |-> high]
Heading(s) == [heading |-> s]
IsHeading(line) == "heading" \in DOMAIN line

NodeOf(line, s, depth, at) ==
  [section |-> s, depth |-> depth, id |-> line.id, label |-> line.label,
   checked |-> line.checked, high |-> line.high, at |-> at]

\* The elements of s at the indices I, in their order.
Picked(s, I) ==
  [k \in 1..Cardinality(I) |-> s[CHOOSE i \in I : Cardinality({j \in I : j < i}) = k - 1]]

InSection(nodes, section) == Picked(nodes, {i \in DOMAIN nodes : nodes[i].section = section})

\* The levels of indentation that are open, the margin first, at an item of
\* this width: deeper ones close, and a wider one opens.
Open(levels, width) ==
  LET kept == Picked(levels, {k \in DOMAIN levels : levels[k] <= width})
  IN  IF Last(kept) < width THEN Append(kept, width) ELSE kept

-----------------------------------------------------------------------------
(* parseContextMap, parseContextMapV3.                                     *)

\* What is known after a line: its section and the levels that are open.
ParseLine(acc, line) ==
  IF IsHeading(line)
    THEN [section |-> line.heading, levels |-> IF line.heading = None THEN acc.levels ELSE <<0>>]
  ELSE IF acc.section = None THEN acc
  ELSE [acc EXCEPT !.levels = Open(@, line.indent)]

\* The same before every line, and after the last.
Read(doc) ==
  LET read[i \in 0..Len(doc)] ==
        IF i = 0 THEN <<[section |-> None, levels |-> <<0>>]>>
        ELSE LET known == read[i - 1] IN Append(known, ParseLine(known[i], doc[i]))
  IN  read[Len(doc)]

\* The nodes, section by section.  A file without a known section has none (in
\* the code it is null, and treated as one that says nothing).
Parse(doc) ==
  LET read  == Read(doc)
      items == {i \in DOMAIN doc : ~IsHeading(doc[i])}
      node  == [i \in items |-> NodeOf(doc[i], read[i].section, Len(read[i + 1].levels) - 1, i)]
  IN  FlattenSeq([k \in DOMAIN SectionOrder |->
                    Picked(node, {i \in items : read[i].section = SectionOrder[k]})])

\* renderContextMapV3: every section, two columns for each level.
Render(nodes) ==
  LET of(s) == InSection(nodes, s)
      lines(s) == [k \in DOMAIN of(s) |->
                     Item(2 * of(s)[k].depth, of(s)[k].id, of(s)[k].label, of(s)[k].checked, of(s)[k].high)]
  IN  FlattenSeq([k \in DOMAIN SectionOrder |->
                    <<Heading(SectionOrder[k])>> \o lines(SectionOrder[k])])

-----------------------------------------------------------------------------
(* The parent of node i: an index, or 0 for the section.                   *)

Before(nodes, i) == {j \in 1..i - 1 : nodes[j].section = nodes[i].section}

\* ancestorIndexes (scripts/context-compiler.mjs): every node above that is
\* less deep than all that follow it.
Ancestors(nodes, i) ==
  {j \in Before(nodes, i) : \A k \in j + 1..i : nodes[j].depth < nodes[k].depth}
NearestParent(nodes, i) == Max({0} \cup Ancestors(nodes, i))

\* Mutant of StackParent: the stack is read one entry too far, where the last
\* node of the same level is.
StackParentSibling(nodes, i) ==
  Max({0} \cup {j \in Before(nodes, i) :
                  /\ nodes[i].depth > 0 /\ nodes[j].depth = nodes[i].depth
                  /\ \A k \in j + 1..i - 1 : nodes[k].depth >= nodes[j].depth})

\* buildV3Snapshot (scripts/snapshots.mjs) and parseV3RenderTree keep a
\* stack: the last node one level up, unless its level was closed since.
StackParent(nodes, i) ==
  Max({0} \cup {j \in Before(nodes, i) :
                  /\ nodes[j].depth = nodes[i].depth - 1
                  /\ \A k \in j + 1..i - 1 : nodes[k].depth >= nodes[j].depth})

\* flattenState (scripts/context-diff.mjs): a node is at most one level below
\* the node before it, so the first of a section is at the margin.
Flat(nodes) ==
  LET depth[i \in 1..Len(nodes)] ==
        IF Before(nodes, i) = {} THEN 0
        ELSE IF nodes[i].depth <= depth[i - 1] + 1 THEN nodes[i].depth ELSE depth[i - 1] + 1
  IN  [i \in DOMAIN nodes |-> [nodes[i] EXCEPT !.depth = depth[i]]]

\* parseRenderTree: its own levels and a stack of lines, emptied by every
\* heading; an item whose parent is not on the stack is not shown.
ViewerLine(acc, line) ==
  IF IsHeading(line)
    THEN [acc EXCEPT !.at = @ + 1, !.section = line.heading, !.levels = <<0>>, !.stack = <<>>]
  ELSE IF acc.section = None THEN [acc EXCEPT !.at = @ + 1]
  ELSE LET levels == Open(acc.levels, line.indent)
           depth  == Len(levels) - 1
           above  == SubSeq(acc.stack, 1, IF depth < Len(acc.stack) THEN depth ELSE Len(acc.stack))
       IN  [acc EXCEPT !.at = @ + 1, !.levels = levels,
                       !.stack = IF Len(above) < depth THEN above ELSE Append(above, acc.at),
                       !.parents = IF Len(above) < depth THEN @
                                   ELSE @ \cup {<<acc.at, IF depth = 0 THEN 0 ELSE Last(above)>>}]

\* Pairs of a line that is shown and the line of its parent, or 0.
ViewerTree(doc) ==
  LET start == [at |-> 1, section |-> None, levels |-> <<0>>, stack |-> <<>>, parents |-> {}]
      shown[i \in 0..Len(doc)] == IF i = 0 THEN start ELSE ViewerLine(shown[i - 1], doc[i])
  IN  shown[Len(doc)].parents

-----------------------------------------------------------------------------

\* The sections whose first item is at the margin, and that have one heading.
Regular(doc, nodes, s) ==
  LET first == {i \in DOMAIN nodes : nodes[i].section = s /\ Before(nodes, i) = {}}
  IN  /\ \A i \in first : nodes[i].depth = 0
      /\ Cardinality({k \in DOMAIN doc : IsHeading(doc[k]) /\ doc[k].heading = s}) <= 1

(* The hierarchy of a Map is one, whoever reads it: the compiler, the      *)
(* snapshots, the diff and the viewer, each with code of its own, give a   *)
(* node the same parent, and the viewer shows every node.                  *)
UnanimousOn(doc, nodes) ==
  LET flat  == Flat(nodes)
      tree  == ViewerTree(doc)
      line(i) == IF i = 0 THEN 0 ELSE nodes[i].at
  IN  \A i \in DOMAIN nodes : Regular(doc, nodes, nodes[i].section) =>
        /\ StackParent(nodes, i) = NearestParent(nodes, i)
        /\ NearestParent(flat, i) = NearestParent(nodes, i)
        /\ <<nodes[i].at, line(NearestParent(nodes, i))>> \in tree
Unanimous(doc) == UnanimousOn(doc, Parse(doc))
=============================================================================
