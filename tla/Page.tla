-------------------------------- MODULE Page --------------------------------
(***************************************************************************)
(* One Viewer page: its lifecycle and transport (viewer/web/transports.mjs)*)
(* and what app.mjs and model.mjs make of the answers: the tree shown, the *)
(* selection and the details.  The server answers from what its store      *)
(* publishes: a revision of the Map with its tree, a version of the        *)
(* content, and a status; a failing status comes with the last revision.   *)
(*                                                                         *)
(* generation and detailRequestSeq are counters that are only compared for *)
(* equality with the one a request was sent under: a request carries       *)
(* whether it is still the latest.  Layout is v3.                          *)
(***************************************************************************)
EXTENDS Integers

CONSTANTS
  Nodes,       \* nodes with a body
  TreeOf,      \* the nodes of each revision of the Map
  None,
  MaxChanges,  \* bound: changes of what the server answers
  MaxFaults    \* bound: requests that fail, and Maps that break

Revisions == 0..MaxChanges

ASSUME PageAssumption ==
  /\ MaxChanges \in Nat /\ MaxFaults \in Nat /\ TreeOf \in [Revisions -> SUBSET Nodes]
  /\ None \notin Nodes \cup Revisions

VARIABLES
  server,            \* what the store publishes, and whether the session is gone
  disposed, expired, hidden, polling,
  first, again,      \* the request of start, and refreshInFlight
  snapshot, status,  \* the last snapshot applied; the status line
  shown,             \* the revision of the tree in view
  selected, detailOpen, detailRenderedKey,
  detail,            \* the detail request that is not stale
  detailCache, body, \* bodies by content version and node; the body in the drawer
  changes, faults

lifeVars   == <<disposed, expired, hidden, polling, first, again>>
viewVars   == <<snapshot, status, shown, selected, detailOpen>>
detailVars == <<detailRenderedKey, detail, detailCache, body>>
envVars    == <<server, changes, faults>>
vars == <<lifeVars, viewVars, detailVars, envVars>>

Statuses  == {"synced", "invalid"}
Snapshots == [what : {"snapshot"}, status : Statuses, rev : Revisions, content : Revisions]
Failures  == [what : {"expired", "failed"}]
Keys      == [content : Revisions, node : Nodes]
Quiet     == [pc |-> "none", live |-> FALSE, answer |-> None]

ASSUME NoneAssumption == None \notin Snapshots \cup Failures \cup Keys

TypeOK ==
  /\ server \in [status : Statuses, rev : Revisions, content : Revisions, gone : BOOLEAN]
  /\ \A r \in {first, again} : /\ r.pc \in {"none", "sent", "answered"} /\ r.live \in BOOLEAN
                               /\ r.answer \in Snapshots \cup Failures \cup {None}
  /\ disposed \in BOOLEAN /\ expired \in BOOLEAN /\ hidden \in BOOLEAN /\ polling \in BOOLEAN
  /\ snapshot \in Snapshots \cup {None} /\ shown \in Revisions \cup {None}
  /\ status \in Statuses \cup {"none", "refreshing", "expired"}
  /\ shown # None => snapshot # None
  /\ selected # None => shown # None /\ selected \in TreeOf[shown]
  /\ detailOpen \in BOOLEAN /\ (detailOpen => selected # None)
  /\ detailRenderedKey \in Keys \cup {None}
  /\ detailCache \in [Keys -> Revisions \cup {None}]
  /\ body \in [what : {"none", "loading", "error"}] \cup [what : {"body"}, node : Nodes, content : Revisions]
  /\ changes \in 0..MaxChanges /\ faults \in 0..MaxFaults

\* The script ends with lifecycle.start(), also in a page that is hidden.
Init ==
  /\ server = [status |-> "synced", rev |-> 0, content |-> 0, gone |-> FALSE]
  /\ disposed = FALSE /\ expired = FALSE /\ hidden \in BOOLEAN /\ polling = FALSE
  /\ first = [pc |-> "sent", live |-> TRUE, answer |-> None] /\ again = Quiet
  /\ snapshot = None /\ status = "none" /\ shown = None
  /\ selected = None /\ detailOpen = FALSE /\ detailRenderedKey = None
  /\ detail = Quiet /\ detailCache = [k \in Keys |-> None] /\ body = [what |-> "none"]
  /\ changes = 0 /\ faults = 0

-----------------------------------------------------------------------------
(* The server.                                                             *)

Published(rev, st) ==
  /\ changes < MaxChanges /\ changes' = changes + 1
  /\ server' = [server EXCEPT !.rev = rev, !.content = @ + 1, !.status = st]
  /\ UNCHANGED <<lifeVars, viewVars, detailVars, faults>>

Failing(st) ==
  /\ server' = [server EXCEPT !.status = st]
  /\ UNCHANGED <<lifeVars, viewVars, detailVars, changes>>

\* The content version covers the Map as well.
MapChanges  == Published(server.rev + 1, "synced")
BodyChanges == server.status = "synced" /\ Published(server.rev, "synced")
MapBreaks   == server.status = "synced" /\ faults < MaxFaults /\ faults' = faults + 1 /\ Failing("invalid")
MapRepaired == server.status = "invalid" /\ UNCHANGED faults /\ Failing("synced")

SessionGone ==
  /\ ~server.gone /\ server' = [server EXCEPT !.gone = TRUE]
  /\ UNCHANGED <<lifeVars, viewVars, detailVars, changes, faults>>

\* An answer is one of this moment; it reaches the page later.
Reply == IF server.gone THEN [what |-> "expired"]
         ELSE [what |-> "snapshot", status |-> server.status, rev |-> server.rev,
               content |-> server.content]

Replies(request, reply, failure) ==
  /\ request.pc = "sent"
  /\ \/ request' = [request EXCEPT !.pc = "answered", !.answer = reply] /\ UNCHANGED faults
     \/ faults < MaxFaults /\ faults' = faults + 1
        /\ request' = [request EXCEPT !.pc = "answered", !.answer = failure]

ReplyFirst ==
  /\ Replies(first, Reply, [what |-> "failed"])
  /\ UNCHANGED <<disposed, expired, hidden, polling, again, viewVars, detailVars, server, changes>>

ReplyAgain ==
  /\ Replies(again, Reply, [what |-> "failed"])
  /\ UNCHANGED <<disposed, expired, hidden, polling, first, viewVars, detailVars, server, changes>>

\* The body of a node, under the content version of the answer.
ReplyDetail ==
  /\ Replies(detail, IF server.gone \/ detail.key.node \notin TreeOf[server.rev] THEN None
                     ELSE server.content, None)
  /\ UNCHANGED <<lifeVars, viewVars, detailRenderedKey, detailCache, body, server, changes>>

-----------------------------------------------------------------------------
(* The view.                                                               *)

Closed == /\ detailRenderedKey' = None /\ body' = [what |-> "none"]
          /\ UNCHANGED <<detail, detailCache>>

\* loadAndRenderDetail: a new request makes the one in flight stale.
Load(key) ==
  /\ detailRenderedKey' = key
  /\ IF detailCache[key] # None
     THEN detail' = Quiet /\ body' = [what |-> "body", node |-> key.node, content |-> detailCache[key]]
     ELSE /\ detail' = [pc |-> "sent", live |-> TRUE, answer |-> None, key |-> key]
          /\ body' = [what |-> "loading"]
  /\ UNCHANGED detailCache

\* renderDetails, for the new values of the view.
RenderDetails ==
  LET key == [content |-> snapshot'.content, node |-> selected']
  IN  IF ~detailOpen' THEN Closed
      ELSE IF key = detailRenderedKey THEN UNCHANGED detailVars ELSE Load(key)

\* snapshotRevisionIsUnchanged; the binding of a page never changes.
SameRevision(s) ==
  /\ snapshot # None /\ snapshot.rev = s.rev /\ snapshot.content = s.content
  /\ shown # None \/ snapshot.status = s.status

\* reconcileSelectedNode: the selection stays as long as its node does.
Reconciled(rev) ==
  IF selected \in TreeOf[rev] THEN UNCHANGED <<selected, detailOpen>>
  ELSE selected' = None /\ detailOpen' = FALSE

\* transitionSnapshotViewState: while there is a tree, only a synced snapshot
\* brings another.  (The store has a tree once it has published one.)
Transition(s) ==
  IF s.status # "synced" /\ shown # None THEN UNCHANGED <<shown, selected, detailOpen>>
  ELSE shown' = s.rev /\ Reconciled(s.rev)

applySnapshot(s) ==
  /\ snapshot' = s /\ status' = s.status
  /\ IF SameRevision(s) THEN UNCHANGED <<shown, selected, detailOpen, detailVars>>
     ELSE Transition(s) /\ RenderDetails

Select(n) ==
  /\ ~disposed /\ shown # None /\ n \in TreeOf[shown]
  /\ selected' = n
  /\ detailOpen' \in BOOLEAN
  /\ UNCHANGED <<lifeVars, snapshot, status, shown, envVars>>
  /\ RenderDetails

CloseDetails ==
  /\ ~disposed /\ detailOpen
  /\ detailOpen' = FALSE
  /\ UNCHANGED <<lifeVars, snapshot, status, shown, selected, envVars>>
  /\ Closed

\* Mutant of Wanted: an answer is used whatever is selected by now.
WantedAlways == TRUE

\* The answer of the latest request, while its node is selected.
Wanted == selected = detail.key.node

DeliverDetail ==
  /\ detail.pc = "answered" /\ detail' = Quiet
  /\ IF ~Wanted THEN UNCHANGED <<detailCache, body>>
     ELSE IF detail.answer = None THEN body' = [what |-> "error"] /\ UNCHANGED detailCache
     ELSE /\ detailCache' = [detailCache EXCEPT ![detail.key] = detail.answer]
          /\ body' = [what |-> "body", node |-> detail.key.node, content |-> detail.answer]
  /\ UNCHANGED <<lifeVars, viewVars, detailRenderedKey, envVars>>

-----------------------------------------------------------------------------
(* The lifecycle: createPageLifecycle.                                     *)

\* The session is gone for good: the tree goes, and nothing is asked again.
Terminal ==
  /\ expired' = TRUE /\ polling' = FALSE
  /\ shown' = None /\ selected' = None /\ detailOpen' = FALSE /\ status' = "expired"
  /\ Closed
  /\ UNCHANGED snapshot

\* handleError, when it is no expiry.
Fallback ==
  /\ status' = IF snapshot = None THEN "invalid" ELSE snapshot.status
  /\ UNCHANGED <<expired, snapshot, shown, selected, detailOpen, detailVars>>

\* What the answer of a request that is still the latest does.
Handle(answer) ==
  CASE answer.what = "expired" -> Terminal
    [] answer.what = "failed"  -> Fallback
    [] OTHER                   -> applySnapshot(answer) /\ UNCHANGED expired

\* Mutant of Active: the generation is not compared.
ActiveAlways(request) == ~disposed /\ ~expired

Active(request) == ~disposed /\ ~expired /\ request.live

DeliverFirst ==
  /\ first.pc = "answered" /\ first' = Quiet
  /\ IF Active(first)
     THEN /\ Handle(first.answer)
          /\ first.answer.what # "expired" => polling' = (polling \/ ~hidden)
     ELSE UNCHANGED <<expired, polling, viewVars, detailVars>>
  /\ UNCHANGED <<disposed, hidden, again, envVars>>

DeliverAgain ==
  /\ again.pc = "answered" /\ again' = Quiet
  /\ IF Active(again)
     THEN Handle(again.answer) /\ (again.answer.what # "expired" => UNCHANGED polling)
     ELSE UNCHANGED <<expired, polling, viewVars, detailVars>>
  /\ UNCHANGED <<disposed, hidden, first, envVars>>

\* refreshSnapshot in a page that is visible: a refresh in flight is shared.
RefreshSnapshot ==
  IF again.pc # "none" THEN UNCHANGED <<first, again, status>>
  ELSE /\ first' = [first EXCEPT !.live = FALSE]
       /\ again' = [pc |-> "sent", live |-> TRUE, answer |-> None]
       /\ status' = "refreshing"

Poll ==
  /\ polling /\ again.pc = "none"
  /\ RefreshSnapshot
  /\ UNCHANGED <<disposed, expired, hidden, polling, snapshot, shown, selected, detailOpen,
                 detailVars, envVars>>

Hide ==
  /\ ~hidden /\ ~disposed /\ hidden' = TRUE /\ polling' = FALSE
  /\ UNCHANGED <<disposed, expired, first, again, viewVars, detailVars, envVars>>

\* Mutant of Show: the timer of start is enough.
ShowWithoutPolling ==
  /\ hidden /\ ~disposed /\ hidden' = FALSE
  /\ IF expired THEN UNCHANGED <<first, again, status>> ELSE RefreshSnapshot
  /\ UNCHANGED <<disposed, expired, polling, snapshot, shown, selected, detailOpen, detailVars,
                 envVars>>

Show ==
  /\ hidden /\ ~disposed /\ hidden' = FALSE
  /\ IF expired THEN UNCHANGED <<first, again, status, polling>>
     ELSE RefreshSnapshot /\ polling' = TRUE
  /\ UNCHANGED <<disposed, expired, snapshot, shown, selected, detailOpen, detailVars, envVars>>

\* pagehide.  No answer is of use any more.
Dispose ==
  /\ ~disposed /\ disposed' = TRUE /\ polling' = FALSE
  /\ first' = Quiet /\ again' = Quiet
  /\ UNCHANGED <<expired, hidden, viewVars, detailVars, envVars>>

Answers  == ReplyFirst \/ ReplyAgain \/ ReplyDetail
Delivers == DeliverFirst \/ DeliverAgain \/ DeliverDetail

Next ==
  \/ MapChanges \/ BodyChanges \/ MapBreaks \/ MapRepaired \/ SessionGone
  \/ Answers \/ Delivers \/ Poll \/ Hide \/ Show \/ Dispose
  \/ CloseDetails \/ \E n \in Nodes : Select(n)

Spec == Init /\ [][Next]_vars

\* Every fetch is answered or fails, and the interval of a page keeps running.
FairSpec ==
  /\ Spec /\ WF_vars(ReplyFirst) /\ WF_vars(ReplyAgain)
  /\ WF_vars(DeliverFirst) /\ WF_vars(DeliverAgain) /\ WF_vars(Poll)

-----------------------------------------------------------------------------
(* Properties.                                                             *)

\* Whatever order the answers of start and of the polls come in, the page never
\* goes back to an older state of the project than one it has applied.
NeverBack == [][snapshot # None => snapshot'.content >= snapshot.content]_vars

\* The drawer shows the body of the selected node, never one asked for before,
\* and never an older one than the snapshot it is shown with.
BodyBelongs ==
  detailOpen /\ body.what = "body" =>
    /\ body.node = selected /\ body.content >= snapshot.content

\* When the session has expired, no answer brings the tree, a body or the
\* polling back; and a page with nothing in flight is not left refreshing.
TerminalStays ==
  /\ expired => shown = None /\ body.what = "none" /\ status = "expired" /\ ~polling
  /\ status = "refreshing" => disposed \/ again.pc # "none"

\* The two together: an answer that comes late changes nothing.
LateAnswersDropped == TypeOK /\ BodyBelongs /\ TerminalStays

\* A page that is visible ends up with what the server publishes, or knows that
\* its session is gone, although start may be overtaken before it polls.
CatchesUp ==
  <>[](~disposed /\ ~hidden /\ ~expired => ~server.gone /\ snapshot = Reply)
=============================================================================
