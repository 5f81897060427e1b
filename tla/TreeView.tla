------------------------------ MODULE TreeView ------------------------------
(***************************************************************************)
(* The navigation tree of the viewer page: what is folded, selected,       *)
(* searched and focused (viewer/web/app.mjs, with the state transitions of *)
(* viewer/web/model.mjs), while snapshots of changing trees arrive and the *)
(* page is bound to another project.  A tree is the sequence of its nodes  *)
(* in document order and the parent of each but the root; the text of a    *)
(* node is the set of its words.  Geometry is left out.                    *)
(*                                                                         *)
(* What every module has carries the name of this one here, so that its    *)
(* theorems can stand beside those of the server (ViewerProofs).           *)
(***************************************************************************)
EXTENDS Integers, Sequences, SequencesExt, FiniteSets

CONSTANTS
  Trees,      \* records [order, parent], all with the same root
  Bindings,   \* projects the page may be bound to
  Words,      \* Words[n]: the words in the label of node n
  Long,       \* nodes whose label is cut
  Queries,    \* sets of words a user searches for
  None

Nodes == UNION {Range(t.order) : t \in Trees}
Root(t) == t.order[1]
Parented(t) == DOMAIN t.parent

\* Where a node stands in document order.
Place(t, n) == CHOOSE k \in 1..Len(t.order) : t.order[k] = n

\* A tree is nested objects: no node is there twice, and a parent comes before
\* its children.
ASSUME TreeAssumption ==
  /\ \A t \in Trees :
       /\ t.order \in Seq(Range(t.order)) /\ t.order # <<>>
       /\ \A j, k \in 1..Len(t.order) : t.order[j] = t.order[k] => j = k
       /\ Parented(t) = Range(t.order) \ {Root(t)}
       /\ \A n \in Parented(t) :
            t.parent[n] \in Range(t.order) /\ Place(t, t.parent[n]) < Place(t, n)
  /\ {} \in Queries /\ None \notin Nodes

VARIABLES
  snapshot,   \* the last snapshot, or None
  binding, tree, folded, query, overviewPending, displayMode, selected, detailOpen,
  treeFocus,  \* treeFocusId: the item that the keyboard is at
  mapFocus,   \* pendingMapFocusNodeId
  terminal    \* history: the session has expired

view == <<binding, tree, folded, query, overviewPending, displayMode, selected, detailOpen>>
treeVars == <<snapshot, view, treeFocus, mapFocus, terminal>>

Snapshots ==
  [binding : Bindings, tree : Trees \cup {None}, status : {"synced", "invalid"}]

TreeTypeOK ==
  /\ snapshot \in Snapshots \cup {None}
  /\ binding \in Bindings \cup {None} /\ tree \in Trees \cup {None}
  /\ folded \subseteq Nodes /\ query \in Queries
  /\ overviewPending \in BOOLEAN /\ displayMode \in {"tree", "map", "split"}
  /\ selected \in Nodes \cup {None} /\ detailOpen \in BOOLEAN
  /\ treeFocus \in Nodes \cup {None} /\ mapFocus \in Nodes \cup {None}
  /\ terminal \in BOOLEAN

TreeInit ==
  /\ snapshot = None
  /\ binding = None /\ tree = None /\ folded = {} /\ query = {}
  /\ overviewPending = TRUE /\ displayMode = "split"
  /\ selected = None /\ detailOpen = FALSE
  /\ treeFocus = None /\ mapFocus = None /\ terminal = FALSE

-----------------------------------------------------------------------------
(* Trees (model.mjs).                                                      *)

\* indexTree: the ancestors of a node, from the root to its parent.
Above ==
  [t \in Trees |->
     LET above[m \in Range(t.order)] ==
           IF m = Root(t) THEN {} ELSE {t.parent[m]} \cup above[t.parent[m]]
     IN  above]
Ancestors(t, n) == Above[t][n]

Children(t, n) == {m \in Parented(t) : t.parent[m] = n}

\* matchSearch: every word is somewhere on the path from the root.
MatchTable ==
  [t \in Trees |-> [wanted \in Queries |->
     {n \in Range(t.order) :
        /\ wanted # {}
        /\ wanted \subseteq UNION {Words[m] : m \in Ancestors(t, n) \cup {n}}}]]
Matches(t, wanted) == MatchTable[t][wanted]

\* The nodes that a search opens: the ancestors of its matches.
Opened ==
  [t \in Trees |-> [wanted \in Queries |->
     UNION {Ancestors(t, m) : m \in Matches(t, wanted)}]]

\* buildVisibleTree: what is under a folded node is hidden, unless a search
\* opens it.
Hidden(t, closed, wanted) ==
  LET shut == closed \ Opened[t][wanted]
  IN  {n \in Range(t.order) : Ancestors(t, n) \cap shut # {}}

Shown == Range(tree.order) \ Hidden(tree, folded, query)

InitialOverviewFolds(t) == {n \in Children(t, Root(t)) : Children(t, n) # {}}

-----------------------------------------------------------------------------
(* Rendering moves the focus of the tree (renderNavigationTree).           *)

\* Mutant of Refocus: it is enough that the tree has the node.
RefocusKnown(focus) ==
  treeFocus' = IF tree' = None \/ focus \in Range(tree'.order) THEN focus
               ELSE IF selected' \in Shown' THEN selected' ELSE Root(tree')

Refocus(focus) ==
  treeFocus' = IF tree' = None \/ focus \in Shown' THEN focus
               ELSE IF selected' \in Shown' THEN selected' ELSE Root(tree')

\* renderMap centers the node that is waiting for it, once it is on the map.
Recenter(focus) ==
  mapFocus' = IF tree' # None /\ displayMode' # "tree" /\ focus \in Shown'
                THEN None ELSE focus

RenderAllViews(focus, center) == Refocus(focus) /\ Recenter(center)

-----------------------------------------------------------------------------
(* Snapshots (applySnapshot, transitionSnapshotViewState).                 *)

SameRevision(next) ==
  /\ snapshot # None
  /\ snapshot.binding = next.binding /\ snapshot.tree = next.tree
  /\ tree # None \/ snapshot.status = next.status

\* Mutant of Reselect: the selection outlives its node.
ReselectAlways(next, was, open) == selected' = was /\ detailOpen' = open

\* reconcileSelectedNode.
Reselect(next, was, open) ==
  /\ selected' = IF was \in Range(next.order) THEN was ELSE None
  /\ detailOpen' = (open /\ selected' # None)

\* Mutant of Transition: every synced snapshot starts with the overview.
TransitionOverview(next, was) ==
  IF next.tree = None
    THEN /\ tree' = was.tree /\ folded' = was.folded
         /\ overviewPending' = was.pending
         /\ selected' = was.selected /\ detailOpen' = was.open
  ELSE IF next.status = "synced"
    THEN /\ tree' = next.tree /\ folded' = InitialOverviewFolds(next.tree)
         /\ overviewPending' = FALSE
         /\ Reselect(next.tree, was.selected, was.open)
  ELSE IF was.tree # None
    THEN /\ tree' = was.tree /\ folded' = was.folded
         /\ overviewPending' = was.pending
         /\ selected' = was.selected /\ detailOpen' = was.open
  ELSE /\ tree' = next.tree /\ folded' = was.folded \cap Range(next.tree.order)
       /\ overviewPending' = was.pending
       /\ Reselect(next.tree, was.selected, was.open)

\* The first synced tree shows the overview; a tree that is not synced
\* replaces none; any other keeps folds and selection as far as it has them.
Transition(next, was) ==
  IF next.tree = None \/ (next.status # "synced" /\ was.tree # None)
    THEN /\ tree' = was.tree /\ folded' = was.folded
         /\ overviewPending' = was.pending
         /\ selected' = was.selected /\ detailOpen' = was.open
  ELSE /\ tree' = next.tree
       /\ LET overview == was.pending /\ next.status = "synced"
          IN  /\ folded' = IF overview THEN InitialOverviewFolds(next.tree)
                           ELSE was.folded \cap Range(next.tree.order)
              /\ overviewPending' = (was.pending /\ ~overview)
       /\ Reselect(next.tree, was.selected, was.open)

Blank == [tree |-> None, folded |-> {}, pending |-> TRUE, selected |-> None, open |-> FALSE]
Current == [tree |-> tree, folded |-> folded, pending |-> overviewPending,
            selected |-> selected, open |-> detailOpen]

ApplySame(next) ==
  /\ ~terminal /\ SameRevision(next)
  /\ snapshot' = next
  /\ UNCHANGED <<view, treeFocus, mapFocus, terminal>>

ApplyNew(next) ==
  /\ ~terminal /\ ~SameRevision(next)
  /\ snapshot' = next
  /\ binding' = next.binding
  /\ LET rebound == binding # None /\ binding # next.binding
     IN  /\ Transition(next, IF rebound THEN Blank ELSE Current)
         /\ query' = IF rebound THEN {} ELSE query
         /\ displayMode' = IF rebound THEN "split" ELSE displayMode
         /\ LET reset == binding # next.binding \/ selected \notin {None, selected'}
            IN  RenderAllViews(IF binding # next.binding THEN None ELSE treeFocus,
                               IF reset THEN None ELSE mapFocus)
  /\ UNCHANGED terminal

\* showTerminalEmptyState.
Expire ==
  /\ ~terminal /\ terminal' = TRUE
  /\ tree' = None /\ selected' = None /\ detailOpen' = FALSE
  /\ treeFocus' = None /\ mapFocus' = None
  /\ UNCHANGED <<snapshot, binding, folded, query, overviewPending, displayMode>>

-----------------------------------------------------------------------------
(* The user (app.mjs).                                                     *)

Live == tree # None /\ ~terminal

\* toggleFold from the map, where the focus of the tree stays.
ToggleFold(n) ==
  /\ Live /\ displayMode # "tree" /\ n \in Shown /\ Children(tree, n) # {}
  /\ folded' = IF n \in folded THEN folded \ {n} ELSE folded \cup {n}
  /\ UNCHANGED <<snapshot, binding, tree, query, overviewPending, displayMode,
                 selected, detailOpen, terminal>>
  /\ RenderAllViews(treeFocus, mapFocus)

\* The disclosure button of the tree, or ArrowRight on a folded item and
\* ArrowLeft on an open one.
Disclose(n) ==
  /\ Live /\ n \in Shown /\ Children(tree, n) # {}
  /\ folded' = IF n \in folded THEN folded \ {n} ELSE folded \cup {n}
  /\ UNCHANGED <<snapshot, binding, tree, query, overviewPending, displayMode,
                 selected, detailOpen, terminal>>
  /\ treeFocus' = n /\ Recenter(mapFocus)

\* moveTreeFocus: ArrowDown and ArrowUp, to the next visible item.
Arrow(by) ==
  /\ Live
  /\ LET apart(n) == by * (Place(tree, n) - Place(tree, treeFocus))
         beyond == {n \in Shown : apart(n) > 0}
     IN  \E n \in beyond : (\A m \in beyond : apart(n) <= apart(m)) /\ treeFocus' = n
  /\ UNCHANGED <<snapshot, view, mapFocus, terminal>>

\* ArrowLeft on an item that cannot be folded: to the parent.
ToParent ==
  /\ Live /\ treeFocus # Root(tree)
  /\ Children(tree, treeFocus) = {} \/ treeFocus \in folded
  /\ treeFocus' = tree.parent[treeFocus]
  /\ UNCHANGED <<snapshot, view, mapFocus, terminal>>

\* selectNode, from the tree or from the map.
SelectNode(n, source) ==
  /\ Live /\ n \in Shown
  /\ source = "map" => displayMode # "tree"
  /\ selected' = n
  /\ folded' = folded \ Ancestors(tree, n)
  /\ detailOpen' = (source = "map" \/ n \in Long)
  /\ UNCHANGED <<snapshot, binding, tree, query, overviewPending, displayMode, terminal>>
  /\ RenderAllViews(IF source = "tree" THEN n ELSE treeFocus, n)

CloseDetails ==
  /\ Live /\ detailOpen /\ detailOpen' = FALSE
  /\ UNCHANGED <<snapshot, binding, tree, folded, query, overviewPending,
                 displayMode, selected, treeFocus, mapFocus, terminal>>

\* The search field; the first match is centered.
Search(wanted) ==
  /\ Live /\ query' = wanted
  /\ UNCHANGED <<snapshot, binding, tree, folded, overviewPending, displayMode,
                 selected, detailOpen, terminal>>
  /\ LET hits == Matches(tree, wanted)
     IN  \/ hits = {} /\ RenderAllViews(treeFocus, None)
         \/ \E n \in hits : /\ \A m \in hits : Place(tree, n) <= Place(tree, m)
                            /\ RenderAllViews(treeFocus, n)

ExpandAll ==
  /\ Live /\ folded' = {}
  /\ UNCHANGED <<snapshot, binding, tree, query, overviewPending, displayMode,
                 selected, detailOpen, terminal>>
  /\ RenderAllViews(treeFocus, mapFocus)

CollapseAll ==
  /\ Live /\ folded' = Children(tree, Root(tree))
  /\ UNCHANGED <<snapshot, binding, tree, query, overviewPending, displayMode,
                 selected, detailOpen, terminal>>
  /\ RenderAllViews(treeFocus, mapFocus)

SetDisplayMode(mode) ==
  /\ Live /\ displayMode' = mode
  /\ UNCHANGED <<snapshot, binding, tree, folded, query, overviewPending, selected,
                 detailOpen, terminal>>
  /\ RenderAllViews(treeFocus, mapFocus)

User ==
  \/ \E n \in Nodes : ToggleFold(n) \/ Disclose(n) \/ \E s \in {"tree", "map"} : SelectNode(n, s)
  \/ \E by \in {-1, 1} : Arrow(by)
  \/ ToParent \/ CloseDetails \/ ExpandAll \/ CollapseAll
  \/ \E wanted \in Queries : Search(wanted)
  \/ \E mode \in {"tree", "map", "split"} : SetDisplayMode(mode)

TreeNext ==
  (\E next \in Snapshots : ApplySame(next) \/ ApplyNew(next)) \/ Expire \/ User

TreeSpec == TreeInit /\ [][TreeNext]_treeVars

-----------------------------------------------------------------------------

(* The tree can always be entered with the keyboard: exactly one visible   *)
(* item has the focus, whatever was folded, searched or replaced, and it   *)
(* is the item that a search or an opened detail leaves visible.           *)
FocusVisible == Live => treeFocus \in Shown

(* A search shows every match, however deep under folded nodes it is.      *)
MatchesVisible == Live => Matches(tree, query) \subseteq Shown

(* The two together: what the user works with is on the screen.            *)
InUseIsVisible == TreeTypeOK /\ FocusVisible /\ MatchesVisible

(* Details are never open on a node that the shown tree does not have, nor *)
(* on one of the project the page was bound to before.                     *)
DetailsBelong ==
  /\ selected # None => tree # None /\ selected \in Range(tree.order)
  /\ detailOpen => selected # None

(* Once the overview has been shown, only the user folds and unfolds:      *)
(* snapshots of the same project leave every node that stays as it was.    *)
FoldsAreUsers ==
  [][snapshot' # snapshot /\ binding' = binding /\ ~overviewPending /\ tree # None =>
       tree' # None /\
         \A n \in Range(tree.order) \cap Range(tree'.order) :
           n \in folded <=> n \in folded']_treeVars

(* "The last valid map remains visible": a snapshot that has no valid Map  *)
(* takes none away, and replaces none by an older one.                     *)
LastValidStays ==
  [][snapshot' # snapshot /\ binding' = binding /\ tree # None =>
       tree' # None /\ (snapshot'.status # "synced" => tree' = tree)]_treeVars

(* The two together: a snapshot never spoils the view of its project.      *)
SnapshotsKeepView == FoldsAreUsers /\ LastValidStays
=============================================================================
