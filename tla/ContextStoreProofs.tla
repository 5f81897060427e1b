------------------------ MODULE ContextStoreProofs ------------------------
(***************************************************************************)
(* Proofs about ContextStore, for any number of jobs, changes and faults.  *)
(***************************************************************************)
EXTENDS ContextStore, TLAPS

\* What a job needs for its next step, it has.
Prepared ==
  \A j \in Jobs : /\ job[j].pc = "read" => job[j].map # None
                  /\ job[j].pc \in {"indexing", "indexed"} => job[j].seen # None

\* One job binds, and only until the store is bound.
BindFirst ==
  \A j \in Jobs :
    job[j].why = "bind" => phase = "binding" /\ j = CHOOSE b \in Jobs : TRUE

\* A watcher that has seen something is there.
Armed == noticed => watcher

IInv == NothingLeftOpen /\ Prepared /\ BindFirst /\ Armed

-----------------------------------------------------------------------------

LEMMA IdleTyped == Idle \in JobStates
<1>1. 0 \in Revisions
  BY StoreAssumption DEF Revisions
<1>. QED
  BY <1>1 DEF JobStates, Idle

\* Nothing is open at first.
LEMMA StoreInit == Init => IInv
<1> SUFFICES ASSUME Init PROVE IInv
  OBVIOUS
<1> USE StoreAssumption
<1>1. TypeOK
  <2>1. disk \in Contents /\ 0 \in 0..MaxChanges /\ 0 \in 0..MaxFaults
    BY DEF Init
  <2>2. state \in States /\ state.map = None
    BY DEF Init, emptyState, States
  <2>3. Idle \in JobStates /\ [Idle EXCEPT !.pc = "reading", !.why = "bind"] \in JobStates
    BY IdleTyped DEF Idle, JobStates
  <2>4. job \in [Jobs -> JobStates]
    BY <2>3 DEF Init
  <2>. QED
    BY <2>1, <2>2, <2>4 DEF Init, TypeOK
<1>2. Prepared /\ BindFirst
  BY DEF Init, Prepared, BindFirst, Idle
<1>. QED
  BY <1>1, <1>2 DEF Init, IInv, NothingLeftOpen, Armed

\* What a change of the project, a watcher or a timer does to it.
LEMMA OutsideInv ==
  ASSUME IInv,
         \/ \E kind \in Kinds : ChangeMap(kind)
         \/ ChangeBody \/ ScheduleRefresh \/ WatcherError \/ ContentWatcherError
  PROVE  IInv'
<1> USE StoreAssumption DEF States, JobStates, IInv, NothingLeftOpen, Prepared, BindFirst, Armed
<1>1. CASE \E kind \in Kinds : ChangeMap(kind)
  BY <1>1, SMT DEF ChangeMap, TypeOK, Maps, Contents, Revisions, MapKinds, storeVars
<1>2. CASE ChangeBody
  BY <1>2, SMT DEF ChangeBody, TypeOK, Maps, Contents, Revisions, storeVars
<1>3. CASE ScheduleRefresh
  <2>1. UNCHANGED <<job, phase>>
    BY <1>3 DEF ScheduleRefresh
  <2>2. state' \in States /\ state'.map = state.map /\ state'.content = state.content
    BY <1>3 DEF ScheduleRefresh, TypeOK
  <2>. QED
    BY <1>3, <2>1, <2>2 DEF ScheduleRefresh, TypeOK, storeVars
<1>4. CASE WatcherError
  <2>1. UNCHANGED <<job, phase, storeVars>> /\ faults' \in 0..MaxFaults
    BY <1>4, SMT DEF WatcherError, TypeOK
  <2>. QED
    BY <1>4, <2>1 DEF WatcherError, TypeOK, storeVars
<1>5. CASE ContentWatcherError
  <2>1. UNCHANGED <<job, phase, storeVars>> /\ faults' \in 0..MaxFaults
    BY <1>5, SMT DEF ContentWatcherError, TypeOK
  <2>. QED
    BY <1>5, <2>1 DEF ContentWatcherError, TypeOK, storeVars
<1>. QED
  BY <1>1, <1>2, <1>3, <1>4, <1>5

\* A job that takes a step is still one, and keeps what the step does not set.
LEMMA ReadTyped ==
  \A s \in JobStates : \A m \in Maps :
    LET t == [s EXCEPT !.pc = "read", !.map = m]
    IN  t \in JobStates /\ t.pc = "read" /\ t.map = m /\ t.why = s.why /\ t.seen = s.seen
  BY DEF JobStates

LEMMA IndexTyped ==
  \A s \in JobStates : \A m \in Maps \cup {None} :
    LET t == [s EXCEPT !.pc = "index", !.map = m, !.current = TRUE]
    IN  t \in JobStates /\ t.pc = "index" /\ t.why = s.why
  BY DEF JobStates

LEMMA SeenTyped ==
  \A s \in JobStates : \A m \in Maps :
    LET t == [s EXCEPT !.pc = "indexing", !.seen = m]
    IN  t \in JobStates /\ t.pc = "indexing" /\ t.seen = m /\ t.why = s.why /\ t.map = s.map
  BY DEF JobStates

LEMMA BodyTyped ==
  \A s \in JobStates : \A b \in Revisions :
    LET t == [s EXCEPT !.pc = "indexed", !.body = b]
    IN  /\ t \in JobStates /\ t.pc = "indexed" /\ t.body = b
        /\ t.why = s.why /\ t.map = s.map /\ t.seen = s.seen /\ t.asked = s.asked
  BY DEF JobStates

LEMMA ForgottenTyped ==
  \A s \in JobStates :
    LET t == [s EXCEPT !.current = FALSE]
    IN  t \in JobStates /\ t.pc = s.pc /\ t.why = s.why /\ t.map = s.map /\ t.seen = s.seen
  BY DEF JobStates

\* A content watcher is opened beside a watcher only.
LEMMA EnsureTyped ==
  ASSUME TypeOK, contentWatcher => watcher, NEW watching \in BOOLEAN,
         EnsureContentWatcher(watching)
  PROVE  /\ contentWatcher' \in BOOLEAN /\ faults' \in 0..MaxFaults
         /\ contentWatcher' => contentWatcher \/ watching
<1>1. contentWatcher' \in BOOLEAN /\ (contentWatcher' => contentWatcher \/ watching)
  BY DEF EnsureContentWatcher, TypeOK
<1>2. CASE UNCHANGED faults
  BY <1>1, <1>2 DEF TypeOK
<1>3. CASE faults < MaxFaults /\ faults' = faults + 1
  <2>1. faults' \in 0..MaxFaults
    BY <1>3, StoreAssumption, SMT DEF TypeOK
  <2>. QED
    BY <1>1, <2>1
<1>. QED
  BY <1>1, <1>2, <1>3 DEF EnsureContentWatcher

\* How every refresh ends: it leaves its job idle and opens what bind opens, or
\* a content watcher beside a watcher.
LEMMA FinishInv ==
  ASSUME IInv, NEW j \in Jobs, NEW v3 \in BOOLEAN, Finish(j, v3),
         contentIndex' \in Contents \cup {None, Empty},
         state' \in States,
         state'.map # None /\ state'.map.kind = "v3" => state'.content # None
  PROVE  IInv'
<1> USE DEF IInv, NothingLeftOpen, Armed
<1> DEFINE J == IF contentIndex' = None THEN Forgotten ELSE job
<1>1. J \in [Jobs -> JobStates]
  BY ForgottenTyped DEF TypeOK, Forgotten
<1>2. job' = [J EXCEPT ![j] = Idle]
  BY DEF Finish
<1>3. job' \in [Jobs -> JobStates]
  BY <1>1, <1>2, IdleTyped
<1>4. \A k \in Jobs : /\ J[k].pc = job[k].pc /\ J[k].why = job[k].why
                      /\ J[k].map = job[k].map /\ J[k].seen = job[k].seen
  BY DEF TypeOK, Forgotten, JobStates
<1>5. job'[j] = Idle /\ \A k \in Jobs \ {j} : job'[k] = J[k]
  BY <1>1, <1>2
<1> HIDE DEF J
<1>6. Prepared'
  BY <1>4, <1>5 DEF Prepared, Idle
<1>7. CASE job[j].why = "bind"
  <2>1. phase' = "bound"
    BY <1>7 DEF Finish
  <2>2. \A k \in Jobs : job'[k].why # "bind"
    <3>1. Idle.why # "bind"
      BY StoreAssumption DEF Idle
    <3>2. \A k \in Jobs \ {j} : job[k].why # "bind"
      BY <1>7 DEF BindFirst
    <3>. QED
      BY <1>4, <1>5, <3>1, <3>2
  <2>3. /\ watcher' \in BOOLEAN /\ contentWatcher' \in BOOLEAN /\ pollTimer' \in BOOLEAN
        /\ faults' \in 0..MaxFaults /\ (contentWatcher' => watcher')
    <3>1. CASE watcher' = TRUE /\ EnsureContentWatcher(TRUE) /\ UNCHANGED pollTimer
      BY <3>1, EnsureTyped DEF TypeOK
    <3>2. CASE /\ faults < MaxFaults /\ faults' = faults + 1
               /\ pollTimer' = TRUE /\ UNCHANGED <<watcher, contentWatcher>>
      <4>1. faults' \in 0..MaxFaults
        BY <3>2, StoreAssumption, SMT DEF TypeOK
      <4>. QED
        BY <3>2, <4>1 DEF TypeOK
    <3>. QED
      BY <1>7, <3>1, <3>2 DEF Finish
  <2>. QED
    BY <1>3, <1>6, <2>1, <2>2, <2>3 DEF Finish, TypeOK, BindFirst
<1>8. CASE job[j].why # "bind"
  <2>1. phase' = phase /\ watcher' = watcher /\ pollTimer' = pollTimer
    BY <1>8 DEF Finish
  <2>2. /\ contentWatcher' \in BOOLEAN /\ faults' \in 0..MaxFaults
        /\ (contentWatcher' => watcher)
    <3>1. CASE EnsureContentWatcher(watcher)
      BY <3>1, EnsureTyped DEF TypeOK
    <3>2. CASE UNCHANGED <<contentWatcher, faults>>
      BY <3>2 DEF TypeOK
    <3>. QED
      BY <1>8, <3>1, <3>2 DEF Finish
  <2>3. BindFirst'
    BY <1>4, <1>5, <2>1, StoreAssumption DEF BindFirst, Idle
  <2>. QED
    BY <1>3, <1>6, <2>1, <2>2, <2>3 DEF Finish, TypeOK
<1>. QED
  BY <1>7, <1>8

\* Every step of a refresh or a detail.
LEMMA StepInv ==
  ASSUME IInv, NEW j \in Jobs, Step(j)
  PROVE  IInv'
<1> USE DEF IInv, NothingLeftOpen, Armed
<1> DEFINE m == job[j].map
<1>0. /\ job \in [Jobs -> JobStates] /\ m \in Maps \cup {None}
      /\ job[j].seen \in Maps \cup {None} /\ state \in States /\ disk.map \in Maps
      /\ disk.body \in Revisions /\ job[j] \in JobStates
  BY DEF TypeOK, JobStates, Contents
<1>1. CASE Read(j)
  <2>1. /\ job' \in [Jobs -> JobStates]
        /\ \A k \in Jobs : job'[k].why = job[k].why /\ job'[k].seen = job[k].seen
        /\ \A k \in Jobs \ {j} : job'[k] = job[k]
        /\ job'[j].pc = "read" /\ job'[j].map = disk.map
    <3> DEFINE s == [job[j] EXCEPT !.pc = "read", !.map = disk.map]
    <3>1. job' = [job EXCEPT ![j] = s]
      BY <1>1 DEF Read
    <3>2. s \in JobStates /\ s.why = job[j].why /\ s.seen = job[j].seen /\ s.pc = "read" /\ s.map = disk.map
      BY <1>0, ReadTyped, Zenon
    <3>. HIDE DEF s
    <3>. QED
      BY <1>0, <3>1, <3>2
  <2>2. Prepared' /\ BindFirst'
    BY <1>0, <1>1, <2>1, StoreAssumption DEF Read, Prepared, BindFirst
  <2>. QED
    BY <1>1, <2>1, <2>2 DEF Read, TypeOK, storeVars, watchVars
<1>2. ASSUME NEW map \in Maps \cup {None}, Indexing(j, map), job[j].pc = "read"
      PROVE  IInv'
  <2>1. /\ job' \in [Jobs -> JobStates]
        /\ \A k \in Jobs : job'[k].why = job[k].why
        /\ \A k \in Jobs \ {j} : job'[k] = job[k]
        /\ job'[j].pc = "index"
    <3> DEFINE s == [job[j] EXCEPT !.pc = "index", !.map = map, !.current = TRUE]
    <3>1. job' = [job EXCEPT ![j] = s]
      BY <1>2 DEF Indexing
    <3>2. s \in JobStates /\ s.why = job[j].why /\ s.pc = "index"
      BY <1>0, <1>2, IndexTyped, Zenon
    <3>. HIDE DEF s
    <3>. QED
      BY <1>0, <3>1, <3>2
  <2>2. Prepared' /\ BindFirst'
    BY <1>2, <2>1 DEF Indexing, Prepared, BindFirst
  <2>3. contentIndex' \in Contents \cup {None, Empty}
    BY <1>2 DEF Indexing, TypeOK
  <2>. QED
    BY <1>2, <2>1, <2>2, <2>3 DEF Indexing, TypeOK, watchVars
<1>3. CASE ReadV3(j)
  BY <1>0, <1>2, <1>3 DEF ReadV3
<1>4. ASSUME NEW status \in {"missing", "invalid", "access_denied", "too_large"},
             Refuse(j, status), contentIndex' \in Contents \cup {None, Empty}
      PROVE  IInv'
  <2>1. state' \in States /\ state'.map = state.map /\ state'.content = state.content
    BY <1>0, <1>4 DEF Refuse, States
  <2>. QED
    BY <1>4, <2>1, FinishInv DEF Refuse, TypeOK
<1>5. CASE ReadV3Closed(j)
  BY <1>4, <1>5 DEF ReadV3Closed, TypeOK
<1>6. CASE ReadV2(j)
  <2>1. contentIndex' \in Contents \cup {None, Empty} /\ m # None /\ m.kind = "v2"
    BY <1>6 DEF ReadV2, TypeOK, Prepared
  <2>2. state' = [status |-> "synced", map |-> m, content |-> None] /\ Finish(j, FALSE)
    BY <1>6, <2>1 DEF ReadV2, Publish
  <2>3. state' \in States
    BY <1>0, <2>2 DEF States
  <2>. QED
    BY <2>1, <2>2, <2>3, FinishInv
<1>7. CASE ReadBad(j)
  <2>1. contentIndex' \in Contents \cup {None, Empty}
    BY <1>7 DEF ReadBad, TypeOK
  <2>2. StatusOf(CodeOf(m)) \in {"missing", "invalid", "access_denied", "too_large"}
    BY DEF StatusOf, CodeOf
  <2>. QED
    BY <1>4, <1>7, <2>1, <2>2 DEF ReadBad
<1>8. CASE IndexMap(j)
  <2>1. /\ job' \in [Jobs -> JobStates]
        /\ \A k \in Jobs : job'[k].why = job[k].why /\ job'[k].map = job[k].map
        /\ \A k \in Jobs \ {j} : job'[k] = job[k]
        /\ job'[j].pc = "indexing" /\ job'[j].seen = disk.map
    <3> DEFINE s == [job[j] EXCEPT !.pc = "indexing", !.seen = disk.map]
    <3>1. job' = [job EXCEPT ![j] = s]
      BY <1>8 DEF IndexMap
    <3>2. s \in JobStates /\ s.why = job[j].why /\ s.map = job[j].map /\ s.pc = "indexing" /\ s.seen = disk.map
      BY <1>0, SeenTyped, Zenon
    <3>. HIDE DEF s
    <3>. QED
      BY <1>0, <3>1, <3>2
  <2>2. Prepared' /\ BindFirst'
    BY <1>0, <1>8, <2>1, StoreAssumption DEF IndexMap, Prepared, BindFirst
  <2>. QED
    BY <1>8, <2>1, <2>2 DEF IndexMap, TypeOK, storeVars, watchVars
<1>12. CASE IndexBody(j)
  <2>1. /\ job' \in [Jobs -> JobStates]
        /\ \A k \in Jobs : /\ job'[k].why = job[k].why /\ job'[k].map = job[k].map
                          /\ job'[k].seen = job[k].seen
        /\ \A k \in Jobs \ {j} : job'[k] = job[k]
        /\ job'[j].pc = "indexed"
    <3> DEFINE s == [job[j] EXCEPT !.pc = "indexed", !.body = disk.body]
    <3>1. job' = [job EXCEPT ![j] = s]
      BY <1>12 DEF IndexBody
    <3>2. /\ s \in JobStates /\ s.why = job[j].why /\ s.map = job[j].map
          /\ s.seen = job[j].seen /\ s.pc = "indexed"
      BY <1>0, BodyTyped, Zenon
    <3>. HIDE DEF s
    <3>. QED
      BY <1>0, <3>1, <3>2
  <2>2. Prepared' /\ BindFirst'
    BY <1>12, <2>1 DEF IndexBody, Prepared, BindFirst
  <2>. QED
    BY <1>12, <2>1, <2>2 DEF IndexBody, TypeOK, storeVars, watchVars
<1>9. job[j].pc = "indexed" => Filled(j) \in Contents \cup {None, Empty}
  <2>1. job[j].pc = "indexed" => Indexed(j) \in Contents
    BY <1>0 DEF Indexed, Prepared, Contents, JobStates
  <2>. QED
    BY <2>1 DEF Filled, TypeOK
<1>10. CASE IndexDetail(j)
  <2>1. /\ job' \in [Jobs -> JobStates] /\ job'[j] = Idle
        /\ \A k \in Jobs \ {j} : job'[k] = job[k]
    BY <1>0, <1>10, IdleTyped DEF IndexDetail
  <2>2. Prepared' /\ BindFirst'
    BY <1>10, <2>1, StoreAssumption DEF IndexDetail, Prepared, BindFirst, Idle
  <2>. QED
    BY <1>9, <1>10, <2>1, <2>2 DEF IndexDetail, TypeOK, watchVars
<1>11. CASE IndexRefresh(j)
  <2>1. contentIndex' \in Contents \cup {None, Empty}
    BY <1>9, <1>11 DEF IndexRefresh
  <2>2. CASE contentIndex' = None
    BY <1>4, <1>11, <2>1, <2>2 DEF IndexRefresh
  <2>3. CASE contentIndex' # None
    <3>1. /\ state' = [status |-> "synced", map |-> IF m = None THEN state.map ELSE m,
                       content |-> contentIndex']
          /\ Finish(j, TRUE)
      BY <1>11, <2>3 DEF IndexRefresh, Publish
    <3>2. state' \in States /\ state'.content # None
      BY <1>0, <2>1, <2>3, <3>1 DEF States
    <3>. QED
      BY <2>1, <3>1, <3>2, FinishInv
  <2>. QED
    BY <2>2, <2>3
<1>. QED
  BY <1>1, <1>3, <1>5, <1>6, <1>7, <1>8, <1>10, <1>11, <1>12 DEF Step

\* Everything that starts a job, ends one early or closes the store.
LEMMA BeginInv ==
  ASSUME IInv, NEW j \in Jobs,
         Page(j) \/ Debounced(j) \/ Interval(j) \/ Detail(j) \/ BindDenied(j)
  PROVE  IInv'
<1> USE DEF IInv, NothingLeftOpen, Armed
<1>0. job \in [Jobs -> JobStates]
  BY DEF TypeOK
<1>1. ASSUME Begin(j), UNCHANGED phase PROVE job' \in [Jobs -> JobStates] /\ Prepared' /\ BindFirst'
  <2>1. [Idle EXCEPT !.pc = "reading", !.why = "refresh"] \in JobStates
    BY IdleTyped DEF Idle, JobStates
  <2>2. /\ job' \in [Jobs -> JobStates] /\ \A k \in Jobs \ {j} : job'[k] = job[k]
        /\ job'[j].pc = "reading" /\ job'[j].why = "refresh"
    BY <1>0, <1>1, <2>1 DEF Begin, Idle
  <2>. QED
    BY <1>1, <2>2 DEF Prepared, BindFirst
<1>2. CASE Page(j)
  BY <1>1, <1>2 DEF Page, TypeOK, storeVars, watchVars
<1>3. CASE Debounced(j)
  BY <1>1, <1>3 DEF Debounced, Begin, TypeOK, storeVars
<1>4. CASE Interval(j)
  BY <1>1, <1>4 DEF Interval, TypeOK, storeVars, watchVars
<1>5. CASE Detail(j)
  <2>1. [Idle EXCEPT !.pc = "index", !.why = "detail", !.asked = disk, !.current = TRUE] \in JobStates
    BY IdleTyped DEF Idle, JobStates, TypeOK
  <2>2. /\ job' \in [Jobs -> JobStates] /\ \A k \in Jobs \ {j} : job'[k] = job[k]
        /\ job'[j].pc = "index" /\ job'[j].why = "detail"
    BY <1>0, <1>5, <2>1 DEF Detail, Idle
  <2>3. Prepared' /\ BindFirst'
    BY <1>5, <2>2 DEF Detail, Prepared, BindFirst
  <2>. QED
    BY <1>5, <2>2, <2>3 DEF Detail, TypeOK, storeVars, watchVars
<1>6. CASE BindDenied(j)
  <2>1. /\ job' \in [Jobs -> JobStates] /\ \A k \in Jobs \ {j} : job'[k] = job[k]
        /\ job'[j] = Idle
    BY <1>0, <1>6, IdleTyped DEF BindDenied
  <2>2. Prepared' /\ BindFirst'
    BY <1>6, <2>1, StoreAssumption DEF BindDenied, Prepared, BindFirst, Idle
  <2>3. /\ state' \in States /\ state'.map = state.map /\ state'.content = state.content
    BY <1>6 DEF BindDenied, TypeOK, States
  <2>4. faults' \in 0..MaxFaults
    BY <1>6, StoreAssumption, SMT DEF BindDenied, TypeOK
  <2>. QED
    BY <1>6, <2>1, <2>2, <2>3, <2>4 DEF BindDenied, TypeOK, watchVars
<1>. QED
  BY <1>2, <1>3, <1>4, <1>5, <1>6

LEMMA CloseInv == IInv /\ Close => IInv'
<1> SUFFICES ASSUME IInv, Close PROVE IInv'
  OBVIOUS
<1>1. /\ Forgotten \in [Jobs -> JobStates]
      /\ \A k \in Jobs : /\ Forgotten[k].pc = job[k].pc /\ Forgotten[k].why = job[k].why
                         /\ Forgotten[k].map = job[k].map /\ Forgotten[k].seen = job[k].seen
  <2>1. job \in [Jobs -> JobStates]
    BY DEF IInv, NothingLeftOpen, TypeOK
  <2>2. ASSUME NEW k \in Jobs
        PROVE  /\ Forgotten[k] = [job[k] EXCEPT !.current = FALSE] /\ Forgotten[k] \in JobStates
               /\ Forgotten[k].pc = job[k].pc /\ Forgotten[k].why = job[k].why
               /\ Forgotten[k].map = job[k].map /\ Forgotten[k].seen = job[k].seen
    BY <2>1, ForgottenTyped, Zenon DEF Forgotten
  <2>. QED
    BY <2>2 DEF Forgotten
<1>2. Prepared' /\ BindFirst'
  BY <1>1 DEF Close, IInv, Prepared, BindFirst
<1>. QED
  BY <1>1, <1>2 DEF Close, IInv, NothingLeftOpen, TypeOK, Armed

LEMMA StoreNext == IInv /\ [Next]_vars => IInv'
<1> SUFFICES ASSUME IInv, [Next]_vars PROVE IInv'
  OBVIOUS
<1>1. CASE UNCHANGED vars
  BY <1>1 DEF vars, storeVars, watchVars, IInv, NothingLeftOpen, TypeOK, Prepared, BindFirst, Armed
<1>2. CASE Next
  BY <1>2, OutsideInv, StepInv, BeginInv, CloseInv DEF Next
<1>. QED
  BY <1>1, <1>2

\* IInv holds in every reachable state.
THEOREM StoreInvariant == Spec => []IInv
  BY StoreInit, StoreNext, PTL DEF Spec

\* A refresh that was in flight when the store was closed, or when its watcher
\* failed (context-store.mjs:135), opens no watcher that nobody will ever close.
THEOREM LeavesNothingOpen == Spec => []NothingLeftOpen
  BY StoreInvariant, PTL DEF IInv

-----------------------------------------------------------------------------
(* How new a detail is.                                                    *)

\* A detail reads only after it was asked for, and the project gets no older.
Timely ==
  /\ disk.map.rev <= changes /\ disk.body <= changes
  /\ \A j \in Jobs :
       job[j].why = "detail" =>
         /\ job[j].pc \in {"index", "indexing", "indexed"} /\ job[j].asked \in Contents
         /\ job[j].asked.map.rev <= disk.map.rev /\ job[j].asked.body <= disk.body
         /\ job[j].pc \in {"indexing", "indexed"} => job[j].asked.map.rev <= job[j].seen.rev
         /\ job[j].pc = "indexed" => job[j].asked.body <= job[j].body

LEMMA TimelyInit == Init => Timely
<1> SUFFICES ASSUME Init PROVE Timely
  OBVIOUS
<1>1. disk.map.rev = 0 /\ disk.body = 0 /\ changes = 0
  BY DEF Init
<1>2. \A j \in Jobs : job[j].why # "detail"
  BY StoreAssumption DEF Init, Idle
<1>. QED
  BY <1>1, <1>2 DEF Timely

\* The numbers of a typed state.
LEMMA Numbers ==
  ASSUME TypeOK
  PROVE  /\ disk.map.rev \in Nat /\ disk.body \in Nat /\ changes \in Nat
         /\ disk.map \in Maps /\ job \in [Jobs -> JobStates]
         /\ \A j \in Jobs : /\ job[j] \in JobStates
                            /\ job[j].asked \in Contents \cup {None}
                            /\ job[j].seen \in Maps \cup {None} /\ job[j].body \in Nat
  BY StoreAssumption DEF TypeOK, Contents, Maps, Revisions, JobStates

\* Details that are kept as they are stay as new as they were.
LEMMA TimelyKept ==
  ASSUME Timely, UNCHANGED <<disk, changes>>,
         \A k \in Jobs : \/ job'[k].why # "detail"
                         \/ /\ job'[k].why = job[k].why /\ job'[k].pc = job[k].pc
                            /\ job'[k].asked = job[k].asked /\ job'[k].seen = job[k].seen
                            /\ job'[k].body = job[k].body
  PROVE  Timely'
  BY DEF Timely

\* What forgets the index forgets nothing else of a job.
LEMMA ForgottenKeeps ==
  ASSUME TypeOK
  PROVE  /\ Forgotten \in [Jobs -> JobStates]
         /\ \A k \in Jobs : /\ Forgotten[k].why = job[k].why /\ Forgotten[k].pc = job[k].pc
                            /\ Forgotten[k].asked = job[k].asked
                            /\ Forgotten[k].seen = job[k].seen
                            /\ Forgotten[k].body = job[k].body
<1>1. \A s \in JobStates : LET t == [s EXCEPT !.current = FALSE]
                           IN  t \in JobStates /\ t.pc = s.pc /\ t.why = s.why
                                 /\ t.asked = s.asked /\ t.seen = s.seen /\ t.body = s.body
  BY DEF JobStates
<1>2. ASSUME NEW k \in Jobs
      PROVE  /\ Forgotten[k] = [job[k] EXCEPT !.current = FALSE] /\ Forgotten[k] \in JobStates
             /\ Forgotten[k].why = job[k].why /\ Forgotten[k].pc = job[k].pc
             /\ Forgotten[k].asked = job[k].asked /\ Forgotten[k].seen = job[k].seen
             /\ Forgotten[k].body = job[k].body
  <2>1. job[k] \in JobStates
    BY Numbers
  <2>. QED
    BY <1>1, <2>1, Zenon DEF Forgotten
<1>. QED
  BY <1>2 DEF Forgotten

\* The end of a refresh ends no detail.
LEMMA FinishKeeps ==
  ASSUME TypeOK, NEW j \in Jobs, NEW v3, Finish(j, v3)
  PROVE  /\ job'[j] = Idle /\ UNCHANGED <<disk, changes>>
         /\ \A k \in Jobs \ {j} : /\ job'[k].why = job[k].why /\ job'[k].pc = job[k].pc
                                  /\ job'[k].asked = job[k].asked /\ job'[k].seen = job[k].seen
                                  /\ job'[k].body = job[k].body
<1> DEFINE J == IF contentIndex' = None THEN Forgotten ELSE job
<1>1. /\ J \in [Jobs -> JobStates]
      /\ \A k \in Jobs : /\ J[k].why = job[k].why /\ J[k].pc = job[k].pc
                         /\ J[k].asked = job[k].asked /\ J[k].seen = job[k].seen
                         /\ J[k].body = job[k].body
  BY ForgottenKeeps, Numbers
<1>2. job' = [J EXCEPT ![j] = Idle] /\ UNCHANGED <<disk, changes>>
  BY DEF Finish
<1> HIDE DEF J
<1>. QED
  BY <1>1, <1>2

\* The steps of a detail, and which of the refresh's steps a detail never takes.
LEMMA TimelyStep ==
  ASSUME IInv, Timely, NEW j \in Jobs, Step(j)
  PROVE  Timely'
<1>0. TypeOK /\ Idle.why # "detail"
  BY StoreAssumption DEF IInv, NothingLeftOpen, Idle
<1>1. CASE Read(j)
  <2>1. job[j].why # "detail"
    BY <1>1 DEF Read, Timely
  <2>2. /\ job'[j].why = job[j].why /\ \A k \in Jobs \ {j} : job'[k] = job[k]
        /\ UNCHANGED <<disk, changes>>
    BY <1>0, <1>1, Numbers DEF Read, JobStates
  <2>. QED
    BY <2>1, <2>2, TimelyKept
<1>2. ASSUME NEW map, Indexing(j, map), job[j].pc = "read" PROVE Timely'
  <2>1. job[j].why # "detail"
    BY <1>2 DEF Timely
  <2>2. /\ job'[j].why = job[j].why /\ \A k \in Jobs \ {j} : job'[k] = job[k]
        /\ UNCHANGED <<disk, changes>>
    BY <1>0, <1>2, Numbers DEF Indexing, JobStates
  <2>. QED
    BY <2>1, <2>2, TimelyKept
<1>3. ASSUME NEW v3, Finish(j, v3) PROVE Timely'
  BY <1>0, <1>3, FinishKeeps, TimelyKept
<1>4. CASE ReadV3(j)
  BY <1>2, <1>4 DEF ReadV3
<1>5. CASE ReadV3Closed(j) \/ ReadV2(j) \/ ReadBad(j)
  BY <1>3, <1>5 DEF ReadV3Closed, ReadV2, ReadBad, Publish, Refuse
<1>6. CASE IndexMap(j)
  <2>1. /\ job'[j].why = job[j].why /\ job'[j].asked = job[j].asked /\ job'[j].seen = disk.map
        /\ job'[j].pc = "indexing" /\ \A k \in Jobs \ {j} : job'[k] = job[k]
        /\ UNCHANGED <<disk, changes>>
    BY <1>0, <1>6, Numbers DEF IndexMap, JobStates
  <2>. QED
    BY <2>1 DEF Timely
<1>9. CASE IndexBody(j)
  <2>1. /\ job'[j].why = job[j].why /\ job'[j].asked = job[j].asked
        /\ job'[j].seen = job[j].seen /\ job'[j].body = disk.body
        /\ job'[j].pc = "indexed" /\ \A k \in Jobs \ {j} : job'[k] = job[k]
        /\ UNCHANGED <<disk, changes>>
    BY <1>0, <1>9, Numbers DEF IndexBody, JobStates
  <2>2. job[j].pc = "indexing"
    BY <1>9 DEF IndexBody
  <2>. QED
    BY <2>1, <2>2 DEF Timely
<1>7. CASE IndexDetail(j)
  <2>1. job'[j] = Idle /\ \A k \in Jobs \ {j} : job'[k] = job[k]
    BY <1>0, <1>7, Numbers DEF IndexDetail
  <2>. QED
    BY <1>0, <1>7, <2>1, TimelyKept DEF IndexDetail
<1>8. CASE IndexRefresh(j)
  BY <1>3, <1>8 DEF IndexRefresh, Publish, Refuse
<1>. QED
  BY <1>1, <1>4, <1>5, <1>6, <1>7, <1>8, <1>9 DEF Step

\* A detail is asked of the project as it is; a change only makes it newer.
LEMMA TimelyOther ==
  ASSUME IInv, Timely,
         \/ \E kind \in Kinds : ChangeMap(kind)
         \/ ChangeBody \/ ScheduleRefresh \/ WatcherError \/ ContentWatcherError \/ Close
         \/ \E j \in Jobs : Page(j) \/ Debounced(j) \/ Interval(j) \/ Detail(j) \/ BindDenied(j)
  PROVE  Timely'
<1>0. TypeOK /\ Idle.why # "detail"
  BY StoreAssumption DEF IInv, NothingLeftOpen, Idle
<1>1. ASSUME UNCHANGED job, changes' = changes + 1,
             disk'.map.rev \in {disk.map.rev, changes + 1}, disk'.body \in {disk.body, changes + 1}
      PROVE  Timely'
  <2>1. /\ disk.map.rev <= disk'.map.rev /\ disk'.map.rev <= changes' /\ disk'.map.rev \in Nat
        /\ disk.body <= disk'.body /\ disk'.body <= changes' /\ disk'.body \in Nat
    BY <1>0, <1>1, Numbers DEF Timely
  <2>2. ASSUME NEW j \in Jobs, job[j].why = "detail"
        PROVE  job[j].asked.map.rev <= disk'.map.rev /\ job[j].asked.body <= disk'.body
    <3>1. /\ job[j].asked.map.rev \in Nat /\ job[j].asked.body \in Nat
          /\ job[j].asked.map.rev <= disk.map.rev /\ job[j].asked.body <= disk.body
      BY <1>0, <2>2, Numbers DEF Timely, Contents, Maps, Revisions
    <3>. QED
      BY <1>0, <2>1, <3>1, Numbers
  <2>. QED
    BY <1>1, <2>1, <2>2 DEF Timely
<1>2. CASE \E kind \in Kinds : ChangeMap(kind)
  BY <1>0, <1>1, <1>2 DEF ChangeMap, TypeOK, Contents, Maps
<1>3. CASE ChangeBody
  BY <1>0, <1>1, <1>3 DEF ChangeBody, TypeOK, Contents
<1>4. CASE ScheduleRefresh \/ WatcherError \/ ContentWatcherError
  BY <1>4, TimelyKept DEF ScheduleRefresh, WatcherError, ContentWatcherError
<1>5. CASE Close
  BY <1>0, <1>5, ForgottenKeeps, TimelyKept DEF Close
<1>6. ASSUME NEW j \in Jobs, Page(j) \/ Debounced(j) \/ Interval(j) PROVE Timely'
  <2>1. job' = [job EXCEPT ![j] = [Idle EXCEPT !.pc = "reading", !.why = "refresh"]]
          /\ UNCHANGED <<disk, changes>>
    BY <1>6 DEF Page, Debounced, Interval, Begin
  <2>2. job'[j].why = "refresh" /\ \A k \in Jobs \ {j} : job'[k] = job[k]
    BY <1>0, <2>1, Numbers DEF Idle
  <2>. QED
    BY <2>1, <2>2, TimelyKept
<1>7. ASSUME NEW j \in Jobs, Detail(j) PROVE Timely'
  <2>1. /\ job'[j].why = "detail" /\ job'[j].asked = disk /\ job'[j].pc = "index"
        /\ \A k \in Jobs \ {j} : job'[k] = job[k]
        /\ UNCHANGED <<disk, changes>>
    BY <1>0, <1>7, Numbers DEF Detail, Idle
  <2>2. disk \in Contents
    BY <1>0 DEF TypeOK
  <2>. QED
    BY <1>0, <2>1, <2>2, Numbers DEF Timely
<1>8. ASSUME NEW j \in Jobs, BindDenied(j) PROVE Timely'
  <2>1. job'[j] = Idle /\ \A k \in Jobs \ {j} : job'[k] = job[k]
    BY <1>0, <1>8, Numbers DEF BindDenied
  <2>. QED
    BY <1>0, <1>8, <2>1, TimelyKept DEF BindDenied
<1>. QED
  BY <1>2, <1>3, <1>4, <1>5, <1>6, <1>7, <1>8

LEMMA TimelyNext == IInv /\ Timely /\ [Next]_vars => Timely'
<1> SUFFICES ASSUME IInv, Timely, [Next]_vars PROVE Timely'
  OBVIOUS
<1>1. CASE UNCHANGED vars
  BY <1>1 DEF vars, Timely
<1>2. CASE Next
  BY <1>2, TimelyStep, TimelyOther DEF Next
<1>. QED
  BY <1>1, <1>2

\* A node detail (context-store.mjs:258, content-index.mjs:49) is at least as new
\* as the project was when it was asked for, in its Map and in its body, whichever
\* refreshes of the same index have read their files before and end in between.
THEOREM DetailsAreFresh == Spec => DetailIsFresh
<1>1. IInv /\ Timely /\ [Next]_vars =>
        [\A j \in Jobs :
           job[j].why = "detail" /\ job'[j] = Idle
             => /\ Answer(j).map.rev >= job[j].asked.map.rev
                /\ Answer(j).body >= job[j].asked.body]_vars
  <2> SUFFICES ASSUME IInv, Timely, Next, NEW j \in Jobs,
                      job[j].why = "detail", job'[j] = Idle
               PROVE  /\ Answer(j).map.rev >= job[j].asked.map.rev
                      /\ Answer(j).body >= job[j].asked.body
    OBVIOUS
  <2>0. TypeOK /\ Idle.why # "detail" /\ Idle.why # "bind" /\ Idle.pc = "idle"
    BY StoreAssumption DEF IInv, NothingLeftOpen, Idle
  <2>1. job'[j].why # job[j].why
    BY <2>0
  <2>2. IndexDetail(j)
    <3>1. ASSUME NEW k \in Jobs, Step(k) PROVE k = j
      <4> SUFFICES ASSUME k # j PROVE job'[j].why = job[j].why
        BY <2>1
      <4>1. ASSUME NEW v3, Finish(k, v3) PROVE job'[j].why = job[j].why
        BY <2>0, <4>1, FinishKeeps
      <4>2. CASE Read(k) \/ IndexMap(k) \/ IndexBody(k) \/ IndexDetail(k)
        BY <2>0, <4>2, Numbers DEF Read, IndexMap, IndexBody, IndexDetail
      <4>3. CASE ReadV3(k)
        BY <2>0, <4>3, Numbers DEF ReadV3, Indexing
      <4>4. CASE ReadV3Closed(k) \/ ReadV2(k) \/ ReadBad(k) \/ IndexRefresh(k)
        BY <4>1, <4>4 DEF ReadV3Closed, ReadV2, ReadBad, IndexRefresh, Publish, Refuse
      <4>. QED
        BY <3>1, <4>2, <4>3, <4>4 DEF Step
    <3>2. Step(j) => IndexDetail(j)
      <4>1. job[j].pc \in {"index", "indexing", "indexed"}
        BY DEF Timely
      <4>2. ~IndexMap(j) /\ ~IndexBody(j)
        BY <2>0, Numbers DEF IndexMap, IndexBody, JobStates
      <4>. QED
        BY <4>1, <4>2 DEF Step, Read, ReadV3, ReadV3Closed, ReadV2, ReadBad, IndexRefresh
    <3>3. ASSUME NEW k \in Jobs, Page(k) \/ Debounced(k) \/ Interval(k) \/ Detail(k) \/ BindDenied(k)
          PROVE  FALSE
      <4>1. job[j] # Idle /\ job[j].why # "bind"
        BY <2>0
      <4>2. k # j
        BY <3>3, <4>1 DEF Page, Debounced, Interval, Detail, BindDenied, Begin
      <4>3. job'[j] = job[j]
        BY <2>0, <3>3, <4>2, Numbers DEF Page, Debounced, Interval, Detail, BindDenied, Begin
      <4>. QED
        BY <2>1, <4>3
    <3>4. CASE Close
      BY <2>0, <2>1, <3>4, ForgottenKeeps DEF Close
    <3>5. CASE \/ \E kind \in Kinds : ChangeMap(kind)
               \/ ChangeBody \/ ScheduleRefresh \/ WatcherError \/ ContentWatcherError
      BY <2>1, <3>5 DEF ChangeMap, ChangeBody, ScheduleRefresh, WatcherError, ContentWatcherError
    <3>. QED
      BY <3>1, <3>2, <3>3, <3>4, <3>5 DEF Next
  <2>3. /\ Answer(j) = [map |-> job[j].seen, body |-> job[j].body]
        /\ job[j].pc = "indexed"
    BY <2>2 DEF IndexDetail, Answer, Filled, Indexed
  <2>4. /\ job[j].asked \in Contents /\ job[j].asked.map.rev <= job[j].seen.rev
        /\ job[j].asked.body <= job[j].body
    BY <2>3 DEF Timely
  <2>5. job[j].seen \in Maps
    BY <2>0, <2>3, Numbers DEF IInv, Prepared
  <2>6. /\ job[j].asked.map.rev \in Nat /\ job[j].asked.body \in Nat
        /\ job[j].seen.rev \in Nat /\ job[j].body \in Nat
    BY <2>0, <2>4, <2>5, Numbers DEF Contents, Maps, Revisions
  <2>. QED
    BY <2>3, <2>4, <2>6
<1>2. Spec => [](IInv /\ Timely)
  BY StoreInit, StoreNext, TimelyInit, TimelyNext, PTL DEF Spec
<1>. QED
  BY <1>1, <1>2, PTL DEF Spec, DetailIsFresh
=============================================================================
