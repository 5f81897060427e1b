----------------------------- MODULE PageProofs -----------------------------
(***************************************************************************)
(* Proofs about Page, for any tree of nodes per revision and any number of *)
(* changes and faults.                                                     *)
(***************************************************************************)
EXTENDS Page, TLAPS

\* What a request in flight looks like.
Requests ==
  [pc : {"none", "sent", "answered"}, live : BOOLEAN, answer : Snapshots \cup Failures \cup {None}]

DetailsSent ==
  [pc : {"sent", "answered"}, live : {TRUE}, answer : Revisions \cup {None}, key : Keys]

DetailRequests == {Quiet} \cup DetailsSent

Bodies == [what : {"none", "loading", "error"}] \cup [what : {"body"}, node : Nodes, content : Revisions]

RequestsTyped ==
  /\ first \in Requests /\ again \in Requests /\ detail \in DetailRequests
  /\ first.pc = "answered" => first.answer # None
  /\ again.pc = "answered" => again.answer # None

\* The content version counts the changes.
Counted == server.rev <= changes /\ server.content <= changes

\* One request of the lifecycle is of use: that of start until the first
\* refresh, which nothing precedes, and then the refresh in flight.
OneOfUse ==
  /\ first.live => snapshot = None /\ again.pc = "none"
  /\ again.pc # "none" => again.live

\* What has been answered is between what the page has and what the server has.
Answered(request) == request.pc = "answered" /\ request.answer.what = "snapshot"

InOrder ==
  /\ snapshot # None => snapshot.content <= server.content
  /\ Answered(first) => first.answer.content <= server.content
  /\ Answered(again) =>
       /\ again.answer.content <= server.content
       /\ snapshot # None => snapshot.content <= again.answer.content

\* A body is not older than the snapshot it was asked for under.
BodiesInOrder ==
  /\ detail.pc # "none" => detail.key.content <= server.content
  /\ detail.pc = "answered" /\ detail.answer # None => detail.answer >= detail.key.content
  /\ \A k \in Keys : detailCache[k] # None => detailCache[k] >= k.content

\* An open drawer stands for the selected node under the present snapshot, and
\* so does the request that will fill it; a closed one stands for nothing.
DrawerCurrent ==
  /\ ~detailOpen => detailRenderedKey = None
  /\ detailOpen =>
       /\ detailRenderedKey = [content |-> snapshot.content, node |-> selected]
       /\ detail.pc # "none" => detail.key = detailRenderedKey

IInv ==
  /\ LateAnswersDropped /\ RequestsTyped /\ Counted /\ OneOfUse
  /\ InOrder /\ BodiesInOrder /\ DrawerCurrent

-----------------------------------------------------------------------------
(* The drawer.                                                             *)

\* What IInv says of the details.
DetailInv ==
  /\ detailRenderedKey \in Keys \cup {None} /\ detailCache \in [Keys -> Revisions \cup {None}]
  /\ detail \in DetailRequests /\ body \in Bodies
  /\ BodyBelongs /\ BodiesInOrder /\ DrawerCurrent

\* renderDetails keeps it, whatever has been applied or selected.
LEMMA RenderInv ==
  ASSUME IInv, RenderDetails, UNCHANGED server,
         snapshot' \in Snapshots, snapshot'.content <= server.content,
         detailOpen' \in BOOLEAN, detailOpen' => selected' \in Nodes
  PROVE  DetailInv' /\ (~detailOpen' => body'.what = "none")
<1> USE PageAssumption, NoneAssumption DEF Revisions, Keys
<1> DEFINE key == [content |-> snapshot'.content, node |-> selected']
<1>1. /\ DetailInv
      /\ server.content \in Revisions /\ snapshot'.content \in Revisions
  BY DEF IInv, LateAnswersDropped, TypeOK, RequestsTyped, DetailInv, Bodies, Snapshots
<1>2. CASE ~detailOpen'
  <2>1. Closed
    BY <1>2 DEF RenderDetails
  <2>. QED
    BY <1>1, <1>2, <2>1 DEF Closed, DetailInv, BodyBelongs, BodiesInOrder, DrawerCurrent, Bodies
<1>3. CASE detailOpen' /\ key = detailRenderedKey
  <2>1. UNCHANGED detailVars
    BY <1>3 DEF RenderDetails
  <2>2. key # None /\ key.node = selected' /\ key.content = snapshot'.content
    BY <1>1, <1>3
  <2>3. detailOpen
    BY <1>1, <1>3, <2>2 DEF DetailInv, DrawerCurrent
  <2>4. snapshot.content = snapshot'.content /\ selected = selected'
    BY <1>1, <1>3, <2>3 DEF DetailInv, DrawerCurrent
  <2>. QED
    BY <1>1, <1>3, <2>1, <2>3, <2>4
    DEF detailVars, DetailInv, BodyBelongs, BodiesInOrder, DrawerCurrent
<1>4. CASE detailOpen' /\ key # detailRenderedKey
  <2>1. Load(key)
    BY <1>4 DEF RenderDetails
  <2>2. key \in Keys /\ key.node = selected' /\ key.content = snapshot'.content
    BY <1>1, <1>4
  <2> HIDE DEF key
  <2>3. CASE detailCache[key] # None
    <3>1. detailCache[key] \in Revisions /\ detailCache[key] >= key.content
      BY <1>1, <2>2, <2>3 DEF DetailInv, BodiesInOrder
    <3>2. /\ detail' = Quiet /\ UNCHANGED detailCache /\ detailRenderedKey' = key
          /\ body' = [what |-> "body", node |-> key.node, content |-> detailCache[key]]
      BY <2>1, <2>3 DEF Load
    <3>3. body' \in Bodies /\ body'.node = selected' /\ body'.content >= snapshot'.content
      BY <1>4, <2>2, <3>1, <3>2 DEF Bodies
    <3>4. detail'.pc = "none"
      BY <3>2 DEF Quiet
    <3>5. DrawerCurrent'
      BY <1>4, <2>2, <3>2, <3>4 DEF DrawerCurrent, key
    <3>. QED
      BY <1>1, <1>4, <2>2, <3>2, <3>3, <3>4, <3>5
      DEF DetailInv, BodyBelongs, BodiesInOrder, DetailRequests
  <2>4. CASE detailCache[key] = None
    <3>1. /\ detail' = [pc |-> "sent", live |-> TRUE, answer |-> None, key |-> key]
          /\ body' = [what |-> "loading"] /\ UNCHANGED detailCache /\ detailRenderedKey' = key
      BY <2>1, <2>4 DEF Load
    <3>2. detail' \in DetailRequests /\ detail'.pc = "sent" /\ detail'.key = key
      BY <2>2, <3>1 DEF DetailRequests, DetailsSent
    <3>3. DrawerCurrent'
      BY <1>4, <2>2, <3>1, <3>2 DEF DrawerCurrent, key
    <3>. QED
      BY <1>1, <1>4, <2>2, <3>1, <3>2, <3>3 DEF DetailInv, BodyBelongs, BodiesInOrder, Bodies
  <2>. QED
    BY <2>3, <2>4
<1>. QED
  BY <1>2, <1>3, <1>4

-----------------------------------------------------------------------------
(* The server and what is in flight.                                       *)

LEMMA DetailShape == \A d \in DetailRequests : d.pc # "none" => d \in DetailsSent
  BY DEF DetailRequests, Quiet

LEMMA InitInv == Init => IInv
<1> SUFFICES ASSUME Init PROVE IInv
  OBVIOUS
<1> USE PageAssumption, NoneAssumption DEF Init, Revisions
<1>1. first \in Requests /\ again \in Requests /\ detail \in DetailRequests
  BY DEF Requests, DetailRequests, Quiet
<1>2. TypeOK
  <2>1. 0 \in Revisions /\ 0 \in 0..MaxFaults
    OBVIOUS
  <2>2. /\ server \in [status : Statuses, rev : Revisions, content : Revisions, gone : BOOLEAN]
        /\ detailCache \in [Keys -> Revisions \cup {None}]
        /\ body \in Bodies
    BY <2>1 DEF Statuses, Bodies
  <2>3. \A r \in {first, again} : /\ r.pc \in {"none", "sent", "answered"} /\ r.live \in BOOLEAN
                                  /\ r.answer \in Snapshots \cup Failures \cup {None}
    BY <1>1 DEF Requests
  <2>. QED
    BY <2>1, <2>2, <2>3 DEF TypeOK, Bodies
<1>. QED
  BY <1>1, <1>2 DEF IInv, LateAnswersDropped, BodyBelongs, TerminalStays, RequestsTyped, Counted,
     OneOfUse, Answered, InOrder, BodiesInOrder, DrawerCurrent, Quiet

Servers == [status : Statuses, rev : Revisions, content : Revisions, gone : BOOLEAN]

LEMMA PublishedTyped ==
  \A s \in Servers : \A rev, content \in Revisions : \A st \in Statuses :
    LET t == [s EXCEPT !.rev = rev, !.content = content, !.status = st]
    IN  t \in Servers /\ t.rev = rev /\ t.content = content
  BY DEF Servers

LEMMA FailingTyped ==
  \A s \in Servers : \A st \in Statuses :
    LET t == [s EXCEPT !.status = st]
    IN  t \in Servers /\ t.rev = s.rev /\ t.content = s.content
  BY DEF Servers

LEMMA GoneTyped ==
  \A s \in Servers :
    LET t == [s EXCEPT !.gone = TRUE]
    IN  t \in Servers /\ t.rev = s.rev /\ t.content = s.content
  BY DEF Servers

LEMMA RequestShapes ==
  /\ Quiet \in Requests /\ [pc |-> "sent", live |-> TRUE, answer |-> None] \in Requests
  /\ \A r \in Requests :
       LET t == [r EXCEPT !.live = FALSE]
       IN  t \in Requests /\ t.pc = r.pc /\ t.answer = r.answer /\ t.live = FALSE
  BY DEF Requests, Quiet

\* What the server publishes, and when it forgets the session.
LEMMA ServerInv ==
  ASSUME IInv, MapChanges \/ BodyChanges \/ MapBreaks \/ MapRepaired \/ SessionGone
  PROVE  IInv'
<1> USE PageAssumption DEF IInv, LateAnswersDropped, TypeOK, Revisions, Statuses
<1>1. /\ UNCHANGED <<lifeVars, viewVars, detailVars>>
      /\ server' \in [status : Statuses, rev : Revisions, content : Revisions, gone : BOOLEAN]
      /\ changes' \in 0..MaxChanges /\ faults' \in 0..MaxFaults
      /\ Counted' /\ server'.content >= server.content
  <2> USE DEF Counted
  <2>1. CASE MapChanges \/ BodyChanges
    <3>1. PICK rev \in {server.rev, server.rev + 1} :
            server' = [server EXCEPT !.rev = rev, !.content = @ + 1, !.status = "synced"]
      BY <2>1 DEF MapChanges, BodyChanges, Published
    <3>2. rev \in Revisions /\ server.content + 1 \in Revisions /\ changes' = changes + 1
          /\ rev <= changes + 1
      BY <2>1 DEF MapChanges, BodyChanges, Published
    <3>3. server' \in Servers /\ server'.rev = rev /\ server'.content = server.content + 1
      BY <3>1, <3>2, PublishedTyped DEF Servers
    <3>. QED
      BY <2>1, <3>2, <3>3 DEF MapChanges, BodyChanges, Published, Servers
  <2>2. CASE MapBreaks \/ MapRepaired
    <3>1. PICK st \in Statuses : Failing(st)
      BY <2>2 DEF MapBreaks, MapRepaired
    <3>2. server' \in Servers /\ server'.rev = server.rev /\ server'.content = server.content
      BY <3>1, FailingTyped DEF Failing, Servers
    <3>. QED
      BY <2>2, <3>1, <3>2 DEF MapBreaks, MapRepaired, Failing, Servers
  <2>3. CASE SessionGone
    BY <2>3, GoneTyped DEF SessionGone, Servers
  <2>. QED
    BY <2>1, <2>2, <2>3
<1>2. TypeOK' /\ BodyBelongs' /\ TerminalStays' /\ RequestsTyped' /\ OneOfUse'
  BY <1>1 DEF lifeVars, viewVars, detailVars, BodyBelongs, TerminalStays, RequestsTyped, OneOfUse
<1>3. BodiesInOrder' /\ DrawerCurrent'
  <2>1. detail.pc # "none" => detail.key.content \in Revisions
    BY DetailShape DEF RequestsTyped, DetailsSent, Keys
  <2>2. UNCHANGED <<detail, detailCache, detailOpen, detailRenderedKey, snapshot, selected>>
    BY <1>1 DEF viewVars, detailVars
  <2>. QED
    BY <1>1, <2>1, <2>2 DEF BodiesInOrder, DrawerCurrent
<1>4. InOrder'
  BY <1>1 DEF lifeVars, viewVars, detailVars, InOrder, Answered, RequestsTyped, Requests,
     Snapshots, Failures
<1>. QED
  BY <1>1, <1>2, <1>3, <1>4

\* The answer to a request of the lifecycle.
LEMMA ReplyTyped ==
  ASSUME IInv
  PROVE  /\ Reply \in Snapshots \cup Failures /\ [what |-> "failed"] \in Failures
         /\ Reply.what = "snapshot" => Reply.content = server.content
  BY DEF IInv, LateAnswersDropped, TypeOK, Reply, Snapshots, Failures

LEMMA RepliesInv ==
  ASSUME IInv, ReplyFirst \/ ReplyAgain \/ ReplyDetail
  PROVE  IInv'
<1> USE PageAssumption, NoneAssumption DEF IInv, LateAnswersDropped
<1>1. CASE ReplyFirst
  <2>1. /\ UNCHANGED <<disposed, expired, hidden, polling, again, viewVars, detailVars, server,
                       changes>>
        /\ faults' \in 0..MaxFaults
    BY <1>1 DEF ReplyFirst, Replies, TypeOK
  <2>2. PICK a \in {Reply, [what |-> "failed"]} :
          first' = [first EXCEPT !.pc = "answered", !.answer = a]
    BY <1>1 DEF ReplyFirst, Replies
  <2>3. /\ first' \in Requests /\ first'.pc = "answered" /\ first'.live = first.live
        /\ first'.answer = a /\ a # None
        /\ a.what = "snapshot" => a.content = server.content
    BY <2>2, ReplyTyped DEF RequestsTyped, Requests, Failures
  <2>. QED
    BY <2>1, <2>3
    DEF TypeOK, BodyBelongs, TerminalStays, RequestsTyped, Counted, OneOfUse, Answered, InOrder,
        BodiesInOrder, DrawerCurrent, viewVars, detailVars, Requests, Revisions
<1>2. CASE ReplyAgain
  <2>1. /\ UNCHANGED <<disposed, expired, hidden, polling, first, viewVars, detailVars, server,
                       changes>>
        /\ faults' \in 0..MaxFaults /\ again.pc = "sent"
    BY <1>2 DEF ReplyAgain, Replies, TypeOK
  <2>2. PICK a \in {Reply, [what |-> "failed"]} :
          again' = [again EXCEPT !.pc = "answered", !.answer = a]
    BY <1>2 DEF ReplyAgain, Replies
  <2>3. /\ again' \in Requests /\ again'.pc = "answered" /\ again'.live = again.live
        /\ again'.answer = a /\ a # None
        /\ a.what = "snapshot" => a.content = server.content
    BY <2>2, ReplyTyped DEF RequestsTyped, Requests, Failures
  <2>. QED
    BY <2>1, <2>3
    DEF TypeOK, BodyBelongs, TerminalStays, RequestsTyped, Counted, OneOfUse, Answered, InOrder,
        BodiesInOrder, DrawerCurrent, viewVars, detailVars, Requests, Revisions
<1>3. CASE ReplyDetail
  <2>1. /\ UNCHANGED <<lifeVars, viewVars, detailRenderedKey, detailCache, body, server, changes>>
        /\ faults' \in 0..MaxFaults /\ detail.pc = "sent"
    BY <1>3 DEF ReplyDetail, Replies, TypeOK
  <2>2. PICK a \in {None, server.content} :
          detail' = [detail EXCEPT !.pc = "answered", !.answer = a]
    BY <1>3 DEF ReplyDetail, Replies
  <2>3. server.content \in Revisions
    BY DEF TypeOK
  <2>4. /\ detail' \in DetailRequests /\ detail'.pc = "answered" /\ detail'.answer = a
        /\ detail'.key = detail.key
    <3>1. detail \in DetailsSent
      BY <2>1, DetailShape DEF RequestsTyped
    <3>. QED
      BY <2>2, <2>3, <3>1 DEF DetailRequests, DetailsSent
  <2>. QED
    BY <2>1, <2>4
    DEF TypeOK, BodyBelongs, TerminalStays, RequestsTyped, Counted, OneOfUse, Answered, InOrder,
        BodiesInOrder, DrawerCurrent, lifeVars, viewVars
<1>. QED
  BY <1>1, <1>2, <1>3

-----------------------------------------------------------------------------
(* The view.                                                               *)

\* What IInv says of the view itself.
ViewTyped ==
  /\ snapshot \in Snapshots \cup {None} /\ shown \in Revisions \cup {None}
  /\ status \in Statuses \cup {"none", "refreshing", "expired"}
  /\ shown # None => snapshot # None
  /\ selected # None => shown # None /\ selected \in TreeOf[shown]
  /\ detailOpen \in BOOLEAN /\ (detailOpen => selected # None)

\* A snapshot that is neither older than the one the page has nor newer than
\* what the server has.
LEMMA ApplyInv ==
  ASSUME IInv, NEW s \in Snapshots, applySnapshot(s), UNCHANGED server,
         s.content <= server.content, ~expired
  PROVE  /\ ViewTyped' /\ DetailInv' /\ snapshot' = s /\ status' \in Statuses
<1> USE PageAssumption, NoneAssumption
<1>1. snapshot' = s /\ s # None /\ status' \in Statuses /\ s.rev \in Revisions
  BY DEF applySnapshot, Snapshots
<1>2. ViewTyped /\ DetailInv
  BY DEF IInv, LateAnswersDropped, TypeOK, RequestsTyped, ViewTyped, DetailInv, Bodies
<1>3. CASE SameRevision(s)
  <2>1. UNCHANGED <<shown, selected, detailOpen, detailVars>> /\ s.content = snapshot.content
    BY <1>3 DEF applySnapshot, SameRevision
  <2>2. ViewTyped'
    BY <1>1, <1>2, <2>1 DEF ViewTyped
  <2>. QED
    BY <1>1, <1>2, <2>1, <2>2
    DEF DetailInv, detailVars, BodyBelongs, BodiesInOrder, DrawerCurrent
<1>4. CASE ~SameRevision(s)
  <2>1. Transition(s) /\ RenderDetails
    BY <1>4 DEF applySnapshot
  <2>2. ViewTyped'
    BY <1>1, <1>2, <2>1 DEF ViewTyped, Transition, Reconciled
  <2>3. detailOpen' => selected' \in Nodes
    BY <2>2 DEF ViewTyped, PageAssumption
  <2>. QED
    BY <1>1, <2>1, <2>2, <2>3, RenderInv DEF ViewTyped
<1>. QED
  BY <1>3, <1>4

\* What the user does.
LEMMA UserInv ==
  ASSUME IInv, CloseDetails \/ \E n \in Nodes : Select(n)
  PROVE  IInv'
<1> USE PageAssumption, NoneAssumption
<1>1. ViewTyped /\ DetailInv
  BY DEF IInv, LateAnswersDropped, TypeOK, RequestsTyped, ViewTyped, DetailInv, Bodies
<1>2. /\ UNCHANGED <<lifeVars, snapshot, status, shown, envVars>> /\ ~disposed
      /\ shown # None
  BY DEF CloseDetails, Select, IInv, LateAnswersDropped, TypeOK
<1>3. ViewTyped' /\ DetailInv'
  <2>1. CASE CloseDetails
    BY <1>1, <2>1 DEF CloseDetails, Closed, ViewTyped, DetailInv, BodyBelongs, BodiesInOrder,
       DrawerCurrent, Bodies, envVars
  <2>2. ASSUME NEW n \in Nodes, Select(n) PROVE ViewTyped' /\ DetailInv'
    <3>1. ViewTyped' /\ RenderDetails /\ selected' = n /\ UNCHANGED <<server, snapshot>>
      BY <1>1, <2>2 DEF Select, ViewTyped, envVars
    <3>2. snapshot \in Snapshots /\ snapshot.content <= server.content
      BY <1>1, <1>2 DEF ViewTyped, IInv, InOrder
    <3>. QED
      BY <3>1, <3>2, RenderInv DEF ViewTyped
  <2>. QED
    BY <2>1, <2>2
<1>4. ~expired
  BY <1>2 DEF IInv, LateAnswersDropped, TerminalStays
<1>5. LateAnswersDropped'
  BY <1>2, <1>3, <1>4
  DEF IInv, LateAnswersDropped, TypeOK, TerminalStays, ViewTyped, DetailInv, Bodies, lifeVars,
      envVars
<1>. QED
  BY <1>2, <1>3, <1>5
  DEF IInv, RequestsTyped, Counted, OneOfUse, Answered, InOrder, DetailInv, lifeVars, envVars

\* The body arrives.
LEMMA DeliverDetailInv ==
  ASSUME IInv, DeliverDetail
  PROVE  IInv'
<1> USE PageAssumption, NoneAssumption
<1>1. /\ UNCHANGED <<lifeVars, viewVars, detailRenderedKey, envVars>>
      /\ detail' = Quiet /\ detail'.pc = "none"
  BY DEF DeliverDetail, Quiet
<1>2. DetailInv /\ detail \in DetailsSent /\ detail.pc = "answered"
  BY DetailShape
  DEF DeliverDetail, IInv, LateAnswersDropped, TypeOK, RequestsTyped, DetailInv, Bodies
<1>3. DetailInv' /\ (selected = None => body' = body)
  <2>1. CASE ~Wanted
    BY <1>1, <1>2, <2>1
    DEF DeliverDetail, DetailInv, DetailRequests, BodyBelongs, BodiesInOrder, DrawerCurrent, viewVars
  <2>2. CASE Wanted
    <3>1. /\ detail.key \in Keys /\ selected = detail.key.node /\ selected \in Nodes
          /\ selected # None /\ detail.answer \in Revisions \cup {None}
      BY <1>2, <2>2 DEF Wanted, DetailsSent, Keys
    <3>2. CASE detail.answer = None
      <4>1. body' = [what |-> "error"] /\ UNCHANGED detailCache
        BY <2>2, <3>2 DEF DeliverDetail
      <4>2. body' \in Bodies /\ body'.what # "body"
        BY <4>1 DEF Bodies
      <4>. QED
        BY <1>1, <1>2, <3>1, <4>1, <4>2
        DEF DetailInv, DetailRequests, BodyBelongs, BodiesInOrder, DrawerCurrent, viewVars
    <3>3. CASE detail.answer # None
      <4>1. /\ detailCache' = [detailCache EXCEPT ![detail.key] = detail.answer]
            /\ body' = [what |-> "body", node |-> detail.key.node, content |-> detail.answer]
        BY <2>2, <3>3 DEF DeliverDetail
      <4>2. detail.answer >= detail.key.content /\ detail.answer \in Revisions
        BY <1>2, <3>1, <3>3 DEF DetailInv, BodiesInOrder
      <4>3. body' \in Bodies /\ body'.node = selected /\ body'.content = detail.answer
        BY <3>1, <4>1, <4>2 DEF Bodies
      <4>4. detailCache' \in [Keys -> Revisions \cup {None}] /\ BodiesInOrder'
        BY <1>1, <1>2, <3>1, <4>1, <4>2 DEF DetailInv, BodiesInOrder
      <4>5. detailOpen => detail.key = [content |-> snapshot.content, node |-> selected]
        BY <1>2 DEF DetailInv, DrawerCurrent
      <4>6. BodyBelongs'
        BY <1>1, <4>2, <4>3, <4>5 DEF BodyBelongs, viewVars
      <4>. QED
        BY <1>1, <1>2, <3>1, <4>3, <4>4, <4>6 DEF DetailInv, DetailRequests, DrawerCurrent, viewVars
    <3>. QED
      BY <3>2, <3>3
  <2>. QED
    BY <2>1, <2>2
<1>4. LateAnswersDropped'
  BY <1>1, <1>3
  DEF IInv, LateAnswersDropped, TypeOK, TerminalStays, DetailInv, Bodies, lifeVars, viewVars,
      envVars
<1>. QED
  BY <1>1, <1>3, <1>4
  DEF IInv, RequestsTyped, Counted, OneOfUse, Answered, InOrder, DetailInv, lifeVars, viewVars,
      envVars

-----------------------------------------------------------------------------
(* The lifecycle.                                                          *)

\* What the answer of the latest request does to the view.
LEMMA HandleInv ==
  ASSUME IInv, NEW answer \in Snapshots \cup Failures, Handle(answer), UNCHANGED server, ~expired,
         answer.what # "expired" => polling' \in BOOLEAN,
         answer.what = "snapshot" => /\ answer.content <= server.content
                                     /\ snapshot # None => snapshot.content <= answer.content
  PROVE  /\ ViewTyped' /\ DetailInv' /\ expired' \in BOOLEAN /\ polling' \in BOOLEAN
         /\ status' # "refreshing"
         /\ expired' => shown' = None /\ body'.what = "none" /\ status' = "expired" /\ ~polling'
         /\ snapshot' \in Snapshots => snapshot'.content <= server.content
         /\ snapshot # None => snapshot' \in Snapshots /\ snapshot'.content >= snapshot.content
         /\ snapshot' # snapshot => answer.what = "snapshot" /\ snapshot' = answer
<1> USE PageAssumption, NoneAssumption
<1>1. ViewTyped /\ DetailInv /\ expired \in BOOLEAN /\ polling \in BOOLEAN
  BY DEF IInv, LateAnswersDropped, TypeOK, RequestsTyped, ViewTyped, DetailInv, Bodies
<1>2. snapshot # None => /\ snapshot.content \in Revisions
                         /\ snapshot.content <= server.content
  BY <1>1 DEF ViewTyped, Snapshots, IInv, InOrder
<1>6. snapshot # None => snapshot \in Snapshots /\ snapshot.content \in Int
  BY <1>1, <1>2 DEF ViewTyped, Revisions
<1>3. CASE answer.what = "expired"
  <2>1. Terminal
    BY <1>3 DEF Handle
  <2>2. ViewTyped' /\ body'.what = "none" /\ snapshot' = snapshot
    BY <1>1, <2>1 DEF Terminal, Closed, ViewTyped
  <2>3. DetailInv'
    BY <1>1, <2>1
    DEF Terminal, Closed, DetailInv, BodyBelongs, BodiesInOrder, DrawerCurrent, Bodies
  <2>4. /\ expired' = TRUE /\ polling' = FALSE /\ shown' = None /\ status' = "expired"
    BY <2>1 DEF Terminal
  <2>5. expired' \in BOOLEAN /\ polling' \in BOOLEAN /\ ~polling'
    BY <2>4, Zenon
  <2>6. snapshot # None => snapshot' \in Snapshots /\ snapshot'.content >= snapshot.content
    BY <1>6, <2>2
  <2>7. snapshot' \in Snapshots => snapshot'.content <= server.content
    BY <1>2, <2>2
  <2>. QED
    BY <2>2, <2>3, <2>4, <2>5, <2>6, <2>7
<1>4. CASE answer.what = "failed"
  <2>1. Fallback
    BY <1>4 DEF Handle
  <2>2. status' \in Statuses /\ UNCHANGED <<expired, snapshot, shown, selected, detailOpen, detailVars>>
    BY <1>1, <2>1 DEF Fallback, ViewTyped, Snapshots, Statuses
  <2>3. ViewTyped'
    BY <1>1, <2>2 DEF ViewTyped
  <2>4. DetailInv'
    BY <1>1, <2>2 DEF DetailInv, detailVars, BodyBelongs, BodiesInOrder, DrawerCurrent
  <2>5. status' # "refreshing" /\ expired' = expired /\ snapshot' = snapshot
    BY <2>2 DEF Statuses
  <2>6. polling' \in BOOLEAN
    BY <1>4
  <2>. QED
    BY <1>1, <1>2, <1>4, <1>6, <2>2, <2>3, <2>4, <2>5, <2>6
<1>5. CASE answer.what \notin {"expired", "failed"}
  <2>1. answer \in Snapshots /\ answer.what = "snapshot" /\ answer.content \in Revisions
    BY <1>5 DEF Failures, Snapshots
  <2>2. applySnapshot(answer) /\ UNCHANGED expired
    BY <1>5, Zenon DEF Handle
  <2>3. ViewTyped' /\ DetailInv' /\ snapshot' = answer /\ status' \in Statuses
    BY <2>1, <2>2, ApplyInv
  <2>. QED
    BY <1>1, <1>2, <2>1, <2>2, <2>3 DEF Statuses
<1>. QED
  BY <1>3, <1>4, <1>5

\* What a delivery leaves, once its request is out of the way.
LEMMA DeliveredInv ==
  ASSUME IInv, UNCHANGED <<disposed, hidden, envVars>>,
         \/ first' = Quiet /\ again' = again /\ again.pc = "none"
         \/ again' = Quiet /\ first' = first /\ ~first.live,
         ViewTyped', DetailInv', expired' \in BOOLEAN, polling' \in BOOLEAN,
         status' # "refreshing",
         expired' => shown' = None /\ body'.what = "none" /\ status' = "expired" /\ ~polling',
         snapshot' \in Snapshots => snapshot'.content <= server.content
  PROVE  IInv'
<1> USE PageAssumption, NoneAssumption
<1>1. first' \in Requests /\ again' \in Requests
  BY RequestShapes DEF IInv, RequestsTyped
<1>2. TypeOK'
  <2>1. \A r \in {first', again'} : /\ r.pc \in {"none", "sent", "answered"} /\ r.live \in BOOLEAN
                                    /\ r.answer \in Snapshots \cup Failures \cup {None}
    BY <1>1 DEF Requests
  <2>. QED
    BY <2>1 DEF IInv, LateAnswersDropped, TypeOK, ViewTyped, DetailInv, Bodies, envVars
<1>3. LateAnswersDropped'
  BY <1>2 DEF LateAnswersDropped, TerminalStays, DetailInv
<1>4. RequestsTyped' /\ OneOfUse'
  BY <1>1 DEF IInv, RequestsTyped, OneOfUse, DetailInv, Quiet
<1>5. InOrder'
  BY DEF IInv, InOrder, Answered, Quiet, ViewTyped, envVars
<1>. QED
  BY <1>3, <1>4, <1>5 DEF IInv, Counted, DetailInv, envVars

\* The same when the answer is dropped: nothing but the request changes.
LEMMA DroppedInv ==
  ASSUME IInv, UNCHANGED <<disposed, hidden, envVars, expired, polling, viewVars, detailVars>>,
         \/ first' = Quiet /\ again' = again
         \/ again' = Quiet /\ first' = first /\ (disposed \/ expired)
  PROVE  IInv'
<1> USE PageAssumption, NoneAssumption
<1>1. first' \in Requests /\ again' \in Requests
  BY RequestShapes DEF IInv, RequestsTyped
<1>2. TypeOK'
  <2>1. \A r \in {first', again'} : /\ r.pc \in {"none", "sent", "answered"} /\ r.live \in BOOLEAN
                                    /\ r.answer \in Snapshots \cup Failures \cup {None}
    BY <1>1 DEF Requests
  <2>. QED
    BY <2>1 DEF IInv, LateAnswersDropped, TypeOK, viewVars, detailVars, envVars
<1>3. LateAnswersDropped'
  BY <1>2
  DEF IInv, LateAnswersDropped, TerminalStays, BodyBelongs, viewVars, detailVars, envVars
<1>4. RequestsTyped' /\ OneOfUse'
  BY <1>1 DEF IInv, RequestsTyped, OneOfUse, Quiet, viewVars, detailVars
<1>5. InOrder'
  BY DEF IInv, InOrder, Answered, Quiet, viewVars, envVars
<1>. QED
  BY <1>3, <1>4, <1>5
  DEF IInv, Counted, BodiesInOrder, DrawerCurrent, viewVars, detailVars, envVars

LEMMA DeliverInv ==
  ASSUME IInv, DeliverFirst \/ DeliverAgain
  PROVE  /\ IInv'
         /\ snapshot # None => snapshot' \in Snapshots /\ snapshot'.content >= snapshot.content
<1> USE PageAssumption, NoneAssumption
<1>1. snapshot # None => snapshot \in Snapshots /\ snapshot.content \in Int
  BY DEF IInv, LateAnswersDropped, TypeOK, Snapshots, Revisions
<1>2. CASE DeliverFirst
  <2>1. /\ first' = Quiet /\ again' = again /\ UNCHANGED <<disposed, hidden, envVars>>
        /\ first.answer \in Snapshots \cup Failures /\ first.pc = "answered"
    BY <1>2 DEF DeliverFirst, IInv, RequestsTyped, Requests
  <2>2. CASE Active(first)
    <3>1. /\ Handle(first.answer) /\ ~expired
          /\ first.answer.what # "expired" => polling' = (polling \/ ~hidden)
      BY <1>2, <2>2, Zenon DEF DeliverFirst, Active
    <3>2. snapshot = None /\ again.pc = "none"
      BY <2>2 DEF Active, IInv, OneOfUse
    <3>3. first.answer.what = "snapshot" => first.answer.content <= server.content
      BY <2>1 DEF IInv, InOrder, Answered
    <3>4. first.answer.what # "expired" => polling' \in BOOLEAN
      BY <3>1, Zenon
    <3>. QED
      BY <2>1, <3>1, <3>2, <3>3, <3>4, HandleInv, DeliveredInv DEF envVars
  <2>3. CASE ~Active(first)
    <3>1. UNCHANGED <<expired, polling, viewVars, detailVars>>
      BY <1>2, <2>3, Zenon DEF DeliverFirst
    <3>. QED
      BY <1>1, <2>1, <3>1, DroppedInv DEF viewVars
  <2>. QED
    BY <2>2, <2>3
<1>3. CASE DeliverAgain
  <2>1. /\ again' = Quiet /\ first' = first /\ UNCHANGED <<disposed, hidden, envVars>>
        /\ again.answer \in Snapshots \cup Failures /\ again.pc = "answered"
        /\ again.live /\ ~first.live
    BY <1>3 DEF DeliverAgain, IInv, RequestsTyped, Requests, OneOfUse
  <2>2. CASE Active(again)
    <3>1. /\ Handle(again.answer) /\ ~expired
          /\ again.answer.what # "expired" => UNCHANGED polling
      BY <1>3, <2>2, Zenon DEF DeliverAgain, Active
    <3>2. again.answer.what = "snapshot" =>
            /\ again.answer.content <= server.content
            /\ snapshot # None => snapshot.content <= again.answer.content
      BY <2>1 DEF IInv, InOrder, Answered
    <3>3. again.answer.what # "expired" => polling' \in BOOLEAN
      BY <3>1 DEF IInv, LateAnswersDropped, TypeOK
    <3>. QED
      BY <2>1, <3>1, <3>2, <3>3, HandleInv, DeliveredInv DEF envVars
  <2>3. CASE ~Active(again)
    <3>1. UNCHANGED <<expired, polling, viewVars, detailVars>>
      BY <1>3, <2>3, Zenon DEF DeliverAgain
    <3>2. disposed \/ expired
      BY <2>1, <2>3 DEF Active
    <3>. QED
      BY <1>1, <2>1, <3>1, <3>2, DroppedInv DEF viewVars
  <2>. QED
    BY <2>2, <2>3
<1>. QED
  BY <1>2, <1>3

\* What the page does by itself, or with its tab.
LEMMA PageInv ==
  ASSUME IInv, Poll \/ Hide \/ Show \/ Dispose
  PROVE  IInv'
<1> USE PageAssumption, NoneAssumption
<1> DEFINE asked == [pc |-> "sent", live |-> TRUE, answer |-> None]
<1>1. /\ UNCHANGED <<expired, snapshot, shown, selected, detailOpen, detailVars, envVars>>
      /\ disposed' \in BOOLEAN /\ hidden' \in BOOLEAN /\ polling' \in BOOLEAN
      /\ disposed => disposed'
      /\ expired => ~polling'
  BY DEF Poll, Hide, Show, Dispose, viewVars, IInv, LateAnswersDropped, TypeOK, TerminalStays
<1>2. \/ UNCHANGED <<first, again, status>>
      \/ ~expired /\ first' = [first EXCEPT !.live = FALSE] /\ again' = asked /\ status' = "refreshing"
      \/ disposed' /\ first' = Quiet /\ again' = Quiet /\ UNCHANGED status
  BY DEF Poll, Hide, Show, Dispose, RefreshSnapshot, viewVars, IInv, LateAnswersDropped,
     TerminalStays
<1>3. first' \in Requests /\ again' \in Requests
  BY <1>2, RequestShapes DEF IInv, RequestsTyped
<1>4. TypeOK'
  <2>1. \A r \in {first', again'} : /\ r.pc \in {"none", "sent", "answered"} /\ r.live \in BOOLEAN
                                    /\ r.answer \in Snapshots \cup Failures \cup {None}
    BY <1>3 DEF Requests
  <2>. QED
    BY <1>1, <1>2, <2>1 DEF IInv, LateAnswersDropped, TypeOK, detailVars, envVars
<1>5. BodyBelongs' /\ TerminalStays'
  BY <1>1, <1>2
  DEF IInv, LateAnswersDropped, BodyBelongs, TerminalStays, detailVars, Quiet
<1>6. first'.pc = "answered" => first'.answer = first.answer /\ first.pc = "answered"
  BY <1>2 DEF IInv, RequestsTyped, Requests, Quiet
<1>7. again'.pc = "answered" => again' = again
  BY <1>2 DEF Quiet
<1>8. RequestsTyped' /\ OneOfUse'
  <2>1. first'.live => UNCHANGED <<first, again>>
    BY <1>2 DEF IInv, RequestsTyped, Requests, Quiet
  <2>2. again'.pc # "none" => again'.live
    BY <1>2 DEF IInv, OneOfUse, Quiet
  <2>. QED
    BY <1>1, <1>3, <1>6, <1>7, <2>1, <2>2 DEF IInv, RequestsTyped, OneOfUse, detailVars
<1>9. InOrder'
  BY <1>1, <1>6, <1>7 DEF IInv, InOrder, Answered, envVars
<1>. QED
  BY <1>1, <1>4, <1>5, <1>8, <1>9
  DEF IInv, LateAnswersDropped, Counted, BodiesInOrder, DrawerCurrent, detailVars, envVars

-----------------------------------------------------------------------------

\* Only a delivery changes the snapshot.
LEMMA NextInv == 
  IInv /\ [Next]_vars =>
    IInv' /\ (snapshot # None => snapshot'.content >= snapshot.content)
<1> SUFFICES ASSUME IInv, [Next]_vars
             PROVE  IInv' /\ (snapshot # None => snapshot'.content >= snapshot.content)
  OBVIOUS
<1>1. snapshot # None => snapshot.content >= snapshot.content
  BY PageAssumption DEF IInv, LateAnswersDropped, TypeOK, Snapshots, Revisions
<1>2. CASE MapChanges \/ BodyChanges \/ MapBreaks \/ MapRepaired \/ SessionGone
  BY <1>1, <1>2, ServerInv DEF MapChanges, BodyChanges, MapBreaks, MapRepaired, SessionGone,
     Published, Failing, viewVars
<1>3. CASE ReplyFirst \/ ReplyAgain \/ ReplyDetail
  BY <1>1, <1>3, RepliesInv DEF ReplyFirst, ReplyAgain, ReplyDetail, viewVars
<1>4. CASE DeliverFirst \/ DeliverAgain
  BY <1>4, DeliverInv
<1>5. CASE DeliverDetail
  BY <1>1, <1>5, DeliverDetailInv DEF DeliverDetail, viewVars
<1>6. CASE Poll \/ Hide \/ Show \/ Dispose
  BY <1>1, <1>6, PageInv DEF Poll, Hide, Show, Dispose, viewVars
<1>7. CASE CloseDetails \/ \E n \in Nodes : Select(n)
  BY <1>1, <1>7, UserInv DEF CloseDetails, Select
<1>8. CASE UNCHANGED vars
  <2>1. IInv'
    BY <1>8 DEF vars, lifeVars, viewVars, detailVars, envVars, IInv, LateAnswersDropped, TypeOK,
       BodyBelongs, TerminalStays, RequestsTyped, Counted, OneOfUse, Answered, InOrder,
       BodiesInOrder, DrawerCurrent
  <2>. QED
    BY <1>1, <1>8, <2>1 DEF vars, viewVars
<1>. QED
  BY <1>2, <1>3, <1>4, <1>5, <1>6, <1>7, <1>8 DEF Next, Answers, Delivers

LEMMA Invariance == Spec => []IInv
<1>1. IInv /\ [Next]_vars => IInv'
  BY NextInv
<1>. QED
  BY InitInv, <1>1, PTL DEF Spec

\* In whatever order answers arrive, a late one changes nothing: the drawer has
\* the body of the selected node under the snapshot shown, an expired page stays
\* so, and none is left refreshing (lifecycle of transports.mjs, detail requests
\* of app.mjs).
THEOREM LateAnswersAreDropped == Spec => []LateAnswersDropped
<1>1. IInv => LateAnswersDropped
  BY DEF IInv
<1>. QED
  BY <1>1, Invariance, PTL

\* No page applies a snapshot older than the one it has (transports.mjs, the
\* generation of a request).
THEOREM NeverGoesBack == Spec => NeverBack
<1>1. IInv /\ [Next]_vars => [snapshot # None => snapshot'.content >= snapshot.content]_vars
  BY NextInv
<1>. QED
  BY <1>1, Invariance, PTL DEF Spec, NeverBack
=============================================================================
