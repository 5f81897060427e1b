--------------------------- MODULE HandoffState ---------------------------
(***************************************************************************)
(* The canonical state of a v3 handoff (scripts/handoff-state.mjs): a      *)
(* directory of nodes with stable IDs (context-map.md) and their bodies    *)
(* (content/*.md), edited by the user between saves and reconciled with    *)
(* fresh inference by every save.  One Save is loadHandoffState,           *)
(* reconcileV3State and the rendering that the next load parses again;     *)
(* how the files reach the disk is SaveFlow's subject.                     *)
(*                                                                         *)
(* Labels are classes of equal normalised text, so two labels that differ  *)
(* only in case or punctuation are one.  Document order within a section,  *)
(* task state, priority, severity, depth and the sections a save does not  *)
(* know (and drops) are left out: no property is about them.  A body is    *)
(* its ID, its file and its owner.  The names every specification has      *)
(* carry a prefix: SaveProofs has this one beside SaveFlow.                *)
(***************************************************************************)
EXTENDS Integers, FiniteSetsExt

CONSTANTS
  Labels,     \* what a node can say
  Singleton,  \* sections with one inferred value (Current Status)
  Listed,     \* sections with an inferred list (Tasks, Knowledge and Notes)
  Uninferred, \* sections no save infers (Current Goal, Decisions, ...)
  Edits,      \* what users do between saves
  MaxId,      \* bound: the highest number of an ID (a save that needs more waits)
  MaxEdits    \* bound: how many edits are made

Sections == Singleton \cup Listed \cup Uninferred
EditKinds ==
  {"label", "move", "deleteNode", "deleteBoth", "draft", "body", "damage"}
Risky == {"move", "deleteBoth", "damage"}   \* edits on which a promise depends

ASSUME StateAssumption ==
  /\ Singleton \cap Listed = {} /\ Singleton \cap Uninferred = {}
  /\ Listed \cap Uninferred = {}
  /\ "none" \notin Sections
  /\ Edits \subseteq EditKinds
  /\ IsFiniteSet(Labels) /\ MaxId \in Nat \ {0} /\ MaxEdits \in Nat

Ids   == [sec : Sections, n : 1..MaxId]
NoId  == [sec |-> "none", n |-> 0]       \* a draft that has no ID yet
Owner == {"agent", "user"}
Node  == [id : Ids \cup {NoId}, sec : Sections, label : Labels, origin : Owner]
Entry == [id : Ids, file : Sections, origin : Owner]
Zero  == [s \in Sections |-> 0]           \* what a lost context.json counts as

VARIABLES
  map,       \* the nodes of context-map.md
  bodies,    \* the entries of content/*.md
  counters,  \* idCounters of context.json
  last,      \* the inference of the save just made, {} after an edit
  used,      \* history: the IDs allocated so far
  risks,     \* history: the edits of Risky made so far
  edits

stateVars == <<map, bodies, counters, last, used, risks, edits>>

IdsOf(nodes) == {n.id : n \in nodes} \ {NoId}
BodyIds == {b.id : b \in bodies}

\* What buildInferredV3Sections gives a save: one status, any list.
Inference ==
  {inf \in [Singleton \cup Listed -> SUBSET Labels] :
     \A s \in Singleton : \E l \in Labels : inf[s] = {l}}

StateTypeOK ==
  /\ map \subseteq Node
  /\ bodies \subseteq Entry
  /\ counters \in [Sections -> 0..MaxId]
  /\ last \subseteq Inference
  /\ used \subseteq Ids /\ risks \subseteq Risky
  /\ edits \in 0..MaxEdits

\* A new directory, or one whose migration numbered an agent's decision.
StateInit ==
  /\ \E start \in SUBSET {[sec |-> s, n |-> 1] : s \in Uninferred} : \E l \in Labels :
       /\ map = {[id |-> i, sec |-> i.sec, label |-> l, origin |-> "agent"] : i \in start}
       /\ bodies = {[id |-> i, file |-> i.sec, origin |-> "agent"] : i \in start}
       /\ counters = [s \in Sections |-> IF [sec |-> s, n |-> 1] \in start THEN 1 ELSE 0]
       /\ used = start
  /\ last = {}
  /\ risks = {}
  /\ edits = 0

-----------------------------------------------------------------------------
(* Loading (loadHandoffState).                                             *)

\* No ID_DUPLICATE, no CONTENT_DUPLICATE, no CONTENT_MISPLACED.  An orphan is
\* accepted in the file its prefix names, and nowhere else.
Loadable ==
  /\ \A m, n \in map : m.id = n.id /\ m.id # NoId => m = n
  /\ \A a, b \in bodies : a.id = b.id => a = b
  /\ \A b \in bodies :
       /\ \A n \in map : n.id = b.id => n.sec = b.file
       /\ b.id \notin IdsOf(map) => b.id.sec = b.file

\* Mutant of NumbersSeen: orphan bodies are overlooked.
NumbersOnMap(s) == {counters[s]} \cup {i.n : i \in {j \in IdsOf(map) : j.sec = s}}

\* recoverIdCounters: the stored counter, raised to the numbers in use.
NumbersSeen(s) ==
  {counters[s]} \cup {i.n : i \in {j \in IdsOf(map) \cup BodyIds : j.sec = s}}

Recovered == [s \in Sections |-> Max(NumbersSeen(s))]

-----------------------------------------------------------------------------
(* Reconciliation (reconcileV3State).                                      *)

In(s, owner) == {n \in map : n.sec = s /\ n.origin = owner}
LabelsOf(nodes) == {n.label : n \in nodes}

\* A user-owned status suppresses inference, and the agent's nodes with it.
Suppressed(s) == s \in Singleton /\ In(s, "user") # {}

\* The section follows inference; an empty inference changes nothing.
Follows(s, inf) == s \in Singleton \cup Listed /\ ~Suppressed(s) /\ inf[s] # {}

\* The inferred labels that no user node has.
Wanted(inf) ==
  {w \in [sec : {s \in Sections : Follows(s, inf)}, label : Labels] :
     w.label \in inf[w.sec] \ LabelsOf(In(w.sec, "user"))}

\* Mutant of Candidates: only a status is ever updated in place.
CandidatesStatusOnly(w) ==
  IF w.sec \in Singleton THEN In(w.sec, "agent") ELSE {}

\* The agent nodes a label may stand for: those that say it, else (for a
\* status) the one that is updated in place and keeps its ID.
Candidates(w) ==
  LET agents == In(w.sec, "agent")
      same == {n \in agents : n.label = w.label}
  IN  IF same = {} /\ w.sec \in Singleton THEN agents ELSE same

\* Mutant of Untouched: inference replaces what the user wrote as well.
UntouchedElsewhere(inf) == {n \in map : ~Follows(n.sec, inf)}

\* Mutant of Untouched: the agent's earlier nodes are never dropped.
UntouchedAll(inf) == map

\* The nodes a save leaves as they are.
Untouched(inf) ==
  {n \in map : n.origin = "user" \/ (~Follows(n.sec, inf) /\ ~Suppressed(n.sec))}

Confirmed(pick, old) == {[pick[w] EXCEPT !.label = w.label] : w \in old}

\* Mutant of Numbered: a section without a prefix is not refused.
NumberedNoPrefix(num, added) ==
  {[id |-> [sec |-> "none", n |-> num[w]], sec |-> w.sec,
    label |-> w.label, origin |-> "agent"] : w \in added}

Numbered(num, added) ==
  {[id |-> [sec |-> w.sec, n |-> num[w]], sec |-> w.sec,
    label |-> w.label, origin |-> "agent"] : w \in added}

\* The counters once every new label has a number.
Advance(base, added) ==
  [s \in Sections |-> base[s] + Cardinality({w.label : w \in {v \in added : v.sec = s}})]

\* Mutant of IsNext: numbering starts at the counter, not after it.
IsNextOffByOne(num, added, base) ==
  /\ \A v, w \in added : v.sec = w.sec /\ num[v] = num[w] => v = w
  /\ \A w \in added : num[w] \in base[w.sec]..Advance(base, added)[w.sec]

\* Fresh labels take the next numbers of their section, in any order.
IsNext(num, added, base) ==
  /\ \A v, w \in added : v.sec = w.sec /\ num[v] = num[w] => v = w
  /\ \A w \in added : num[w] \in (base[w.sec] + 1)..Advance(base, added)[w.sec]

HasUserBody(i) == \E b \in bodies : b.id = i /\ b.origin = "user"

\* Mutant of Placed: orphans are cleaned up.
PlacedNoOrphans(nodes, updated) ==
  {[id |-> n.id, file |-> n.sec, origin |-> IF HasUserBody(n.id) THEN "user" ELSE "agent"] :
     n \in {m \in nodes : m.id # NoId /\ (m \in updated \/ m.id \in BodyIds)}}

\* Entries follow their node into its section; the user's are kept as they
\* are; an orphan stays in its file.
Placed(nodes, updated) ==
  {[id |-> n.id, file |-> n.sec, origin |-> IF HasUserBody(n.id) THEN "user" ELSE "agent"] :
     n \in {m \in nodes : m.id # NoId /\ (m \in updated \/ m.id \in BodyIds)}}
  \cup {b \in bodies : b.id \notin IdsOf(nodes)}

\* Which agent node a label confirms, and which number a new one gets, depends
\* on the order of the document; any choice is allowed.
Save(inf) ==
  LET base  == Recovered
      old   == {w \in Wanted(inf) : Candidates(w) # {}}
      added == Wanted(inf) \ old
  IN  /\ Loadable
      /\ counters' = Advance(base, added)
      /\ counters' \in [Sections -> 0..MaxId]
      /\ \E pick \in [old -> UNION {Candidates(w) : w \in old}],
            num \in [added -> 1..MaxId] :
           /\ \A w \in old : pick[w] \in Candidates(w)
           /\ IsNext(num, added, base)
           /\ LET updated == Confirmed(pick, old) \cup Numbered(num, added)
                  after == Untouched(inf) \cup updated
              IN  /\ map' = after
                  /\ bodies' = Placed(after, updated)
                  /\ used' = used \cup IdsOf(after)
      /\ last' = {inf}
      /\ UNCHANGED <<risks, edits>>

\* A save of a state that does not load throws and changes nothing.
SaveRefused == ~Loadable /\ UNCHANGED stateVars

-----------------------------------------------------------------------------
(* What users do between saves: the edits the layout invites.              *)

Edit(what) ==
  /\ what \in Edits
  /\ edits < MaxEdits
  /\ edits' = edits + 1
  /\ risks' = risks \cup ({what} \cap Risky)
  /\ last' = {}
  /\ UNCHANGED used

\* New text makes the stored fingerprint stale: the node is the user's.
EditLabel ==
  /\ Edit("label")
  /\ \E n \in map : \E l \in Labels \ {n.label} :
       map' = (map \ {n}) \cup {[n EXCEPT !.label = l, !.origin = "user"]}
  /\ UNCHANGED <<bodies, counters>>

\* A node and its body go to another section; its text and owner stay.
MoveNode ==
  /\ Edit("move")
  /\ \E n \in {m \in map : m.id \in BodyIds} : \E s \in Sections \ {n.sec} :
       /\ map' = (map \ {n}) \cup {[n EXCEPT !.sec = s]}
       /\ bodies' = {[b EXCEPT !.file = IF b.id = n.id THEN s ELSE @] : b \in bodies}
  /\ UNCHANGED counters

DeleteNode ==
  /\ Edit("deleteNode")
  /\ \E n \in map : map' = map \ {n}
  /\ UNCHANGED <<bodies, counters>>

DeleteNodeAndBody ==
  /\ Edit("deleteBoth")
  /\ \E n \in map :
       /\ map' = map \ {n}
       /\ bodies' = {b \in bodies : b.id # n.id}
  /\ UNCHANGED counters

AddDraft ==
  /\ Edit("draft")
  /\ \E s \in Sections, l \in Labels :
       map' = map \cup {[id |-> NoId, sec |-> s, label |-> l, origin |-> "user"]}
  /\ UNCHANGED <<bodies, counters>>

\* New text makes the body's fingerprint stale: the entry is the user's.
EditBody ==
  /\ Edit("body")
  /\ \E b \in bodies : bodies' = (bodies \ {b}) \cup {[b EXCEPT !.origin = "user"]}
  /\ UNCHANGED <<map, counters>>

\* context.json is lost: a merge conflict, a cut-off write, a deletion.
Damage ==
  /\ Edit("damage")
  /\ counters' = Zero
  /\ UNCHANGED <<map, bodies>>

UserStep ==
  \/ EditLabel \/ MoveNode \/ DeleteNode \/ DeleteNodeAndBody
  \/ AddDraft \/ EditBody \/ Damage

StateNext == UserStep \/ SaveRefused \/ \E inf \in Inference : Save(inf)

StateSpec == StateInit /\ [][StateNext]_stateVars

-----------------------------------------------------------------------------
(* Properties.                                                             *)

\* As long as no node has moved to another section, a save never leaves, and
\* no edit to a directory it wrote makes, a state the next load refuses
\* (handoff-state.mjs:280-317).
AlwaysLoadable == "move" \notin risks => Loadable

\* No ID ever names a second node: not when nodes are deleted with their
\* bodies, and not when the stored counters are lost (recoverIdCounters).  Only
\* both together are too much, since then nothing recalls the ID.
IdsNeverReused ==
  [][{"deleteBoth", "damage"} \subseteq risks
       \/ (IdsOf(map') \ IdsOf(map)) \cap used = {}]_stateVars

Saved == last' # {}

\* No save changes, moves or drops a node the user wrote, numbered or not.
UserNodesKept == [][Saved => {n \in map : n.origin = "user"} \subseteq map']_stateVars

\* No save loses a body, not even an orphan, and none makes a user's body the
\* agent's again.
BodiesKept ==
  [][Saved => \A b \in bodies : \E c \in bodies' :
                c.id = b.id /\ (b.origin = "user" => c.origin = "user")]_stateVars

\* What inference still says keeps the ID it has: a label that was on the
\* agent's nodes of a section is on one of the same IDs afterwards, unless the
\* user took the label over.
LabelsKeepIds ==
  [][Saved => \A inf \in last', n \in map :
       /\ n.origin = "agent"
       /\ n.sec \in Singleton \cup Listed
       /\ n.label \in inf[n.sec] \ LabelsOf(In(n.sec, "user"))
       /\ ~Suppressed(n.sec)
       => \E m \in map' : /\ m.sec = n.sec /\ m.label = n.label
                          /\ m.id \in {x.id : x \in In(n.sec, "agent")}]_stateVars

\* Saving the same inference twice changes nothing the second time.
Idempotent ==
  [][last # {} /\ last' = last => UNCHANGED <<map, bodies, counters>>]_stateVars

\* Agent text is stable: under repeated inference, and in the IDs it has.
AgentTextStable == Idempotent /\ LabelsKeepIds

\* After a save, a section that follows inference says each inferred label,
\* and the agent's nodes of it say nothing else and nothing twice.
SectionsFollowInference ==
  \A inf \in last, s \in Singleton \cup Listed :
    Follows(s, inf) =>
      /\ inf[s] \subseteq LabelsOf({n \in map : n.sec = s})
      /\ LabelsOf(In(s, "agent")) = inf[s] \ LabelsOf(In(s, "user"))
      /\ \A m, n \in In(s, "agent") : m.label = n.label => m = n
=============================================================================
