----------------------------- MODULE ViewServer -----------------------------
(***************************************************************************)
(* The sessions of one Viewer daemon: SessionManager                       *)
(* (viewer/runtime/session-manager.mjs) and the requests, the idle timer   *)
(* and the shutdown that reach it (daemon-server.mjs, daemon-main.mjs).    *)
(* JavaScript runs to the next await: a step is what happens between two   *)
(* waits for the outside, which are the body of a request, the project's   *)
(* path, the first reading of its store, and the end of the listener.      *)
(*                                                                         *)
(* A session is named after the request that created it, and so is a store *)
(* (ContextMapStore).  Of the times of last access the order is kept; no   *)
(* two accesses fall in the same millisecond.                              *)
(***************************************************************************)
EXTENDS Integers, Sequences, SequencesExt, FiniteSets

CONSTANTS
  Requests,     \* requests for a session; the sessions; the stores
  Projects,     \* canonical workspace roots
  ProjectOf,    \* the workspace a request asks for
  NoStore,      \* no entry in projectStores
  MaxSessions,  \* capacity (MAX_SESSIONS)
  MaxFaults     \* bound: paths and stores that fail

ASSUME ServerAssumption ==
  /\ IsFiniteSet(Requests) /\ ProjectOf \in [Requests -> Projects] /\ NoStore \notin Requests
  /\ MaxSessions \in Nat \ {0} /\ MaxFaults \in Nat

VARIABLES
  request,    \* the state of each request
  queue,      \* creations in order (createTail); pendingCreations is its length
  sessions,
  older,      \* pairs of sessions: the first was last used before the second
  overdue,    \* those past their idle deadline
  storeOf,    \* the store of each session
  projectStores, refCount,
  open,       \* stores that are open: bound or being bound
  lifecycle,  \* of the server
  awaited,    \* the creations close waits for
  gone,       \* why a session was removed
  shutdown,   \* somebody asked the daemon to shut down
  failed,     \* requests whose own path or store failed
  faults

sessionVars == <<sessions, older, overdue, storeOf, projectStores, refCount, open, gone>>
closeVars   == <<lifecycle, awaited, shutdown>>
faultVars   == <<failed, faults>>
vars == <<request, queue, sessionVars, closeVars, faultVars>>

creating == ToSet(queue)

TypeOK ==
  /\ request \in [Requests -> {"none", "body", "queued", "binding", "answered", "refused", "lost"}]
  /\ queue \in Seq(Requests) /\ IsInjective(queue)
  /\ sessions \subseteq Requests /\ older \subseteq sessions \X sessions
  /\ overdue \subseteq sessions
  /\ storeOf \in [Requests -> Requests \cup {NoStore}]
  /\ projectStores \in [Projects -> Requests \cup {NoStore}]
  /\ refCount \in [Requests -> 0..Cardinality(Requests)] /\ open \subseteq Requests
  /\ gone \in [Requests -> {"no", "expired", "evicted", "closed"}]
  /\ lifecycle \in {"running", "settling", "stopping", "closed"}
  /\ awaited \subseteq Requests /\ shutdown \in BOOLEAN
  /\ failed \subseteq Requests /\ faults \in 0..MaxFaults

Init ==
  /\ request = [r \in Requests |-> "none"] /\ queue = <<>>
  /\ sessions = {} /\ older = {} /\ overdue = {}
  /\ storeOf = [r \in Requests |-> NoStore]
  /\ projectStores = [p \in Projects |-> NoStore]
  /\ refCount = [r \in Requests |-> 0] /\ open = {}
  /\ gone = [r \in Requests |-> "no"]
  /\ lifecycle = "running" /\ awaited = {} /\ shutdown = FALSE
  /\ failed = {} /\ faults = 0

-----------------------------------------------------------------------------
(* Removing sessions.                                                      *)

Users(store, S) == {s \in S : storeOf[s] = store}

CountAfter(S) == [t \in Requests |-> refCount[t] - Cardinality(Users(t, S))]

\* A store nobody uses is closed and forgotten.
Unused(S) == {t \in open : Users(t, S) # {} /\ CountAfter(S)[t] <= 0}

StoresAfter(S) ==
  [p \in Projects |-> IF projectStores[p] \in Unused(S) THEN NoStore ELSE projectStores[p]]

\* The order of last use among the sessions that stay, and after s is used.
Among(S) == older \cap (S \X S)
Using(s, S) == Among(S \ {s}) \cup ((S \ {s}) \X {s})

\* Mutant of Evicted: the sort is the wrong way round.
EvictedNewest(S) ==
  {s \in sessions \ S : /\ Cardinality(sessions \ S) >= MaxSessions
                        /\ \A t \in sessions \ (S \cup {s}) : <<t, s>> \in older}

\* evictForCapacity, once the sessions S are pruned.
Evicted(S) ==
  {s \in sessions \ S : /\ Cardinality(sessions \ S) >= MaxSessions
                        /\ \A t \in sessions \ (S \cup {s}) : <<s, t>> \in older}

Reason(expired, evicted) ==
  [r \in Requests |-> IF r \in expired THEN "expired" ELSE IF r \in evicted THEN "evicted"
                      ELSE gone[r]]

\* remove, for each session of S.
RemoveAll(S) ==
  /\ sessions' = sessions \ S /\ overdue' = overdue \ S
  /\ refCount' = CountAfter(S) /\ projectStores' = StoresAfter(S) /\ open' = open \ Unused(S)

-----------------------------------------------------------------------------
(* create and createSession, and the request that calls them.              *)

\* The turn in which the last awaited creation ends also ends the listener.
Listening == lifecycle = "running" \/ (lifecycle = "settling" /\ awaited \cap creating # {})

Receive(r) ==
  /\ Listening /\ request[r] = "none"
  /\ request' = [request EXCEPT ![r] = "body"]
  /\ UNCHANGED <<queue, sessionVars, closeVars, faultVars>>

\* The body is read and the creation queued, whatever the lifecycle.
ReadBody(r) ==
  /\ Listening /\ request[r] = "body"
  /\ request' = [request EXCEPT ![r] = "queued"]
  /\ queue' = Append(queue, r)
  /\ UNCHANGED <<sessionVars, closeVars, faultVars>>

\* Mutant of Leave: a creation that fails keeps its place.
LeaveIfAnswered(r, answer) ==
  /\ queue' = IF answer = "refused" THEN queue ELSE Tail(queue)
  /\ request' = [request EXCEPT ![r] = IF Listening THEN answer ELSE "lost"]

\* A creation ends; the answer needs the listener.
Leave(r, answer) ==
  /\ queue' = Tail(queue)
  /\ request' = [request EXCEPT ![r] = IF Listening THEN answer ELSE "lost"]

\* Mutant of Found: the entry is looked up before pruning and eviction.
FoundEarly(r, S) == projectStores[ProjectOf[r]]

\* The store the session will have, when S is removed first.
Found(r, S) == StoresAfter(S)[ProjectOf[r]]

\* The path is resolved: prune, evict, and look for the project's store.
Admit(r) ==
  LET evicted == Evicted(overdue)
      S       == overdue \cup evicted
      store   == Found(r, S)
  IN  /\ queue # <<>> /\ r = Head(queue) /\ request[r] = "queued"
      /\ gone' = Reason(overdue, evicted)
      /\ overdue' = {}
      /\ projectStores' = StoresAfter(S)
      /\ IF store = NoStore
         THEN /\ sessions' = sessions \ S /\ older' = Among(sessions \ S)
              /\ refCount' = CountAfter(S)
              /\ open' = (open \ Unused(S)) \cup {r}
              /\ request' = [request EXCEPT ![r] = "binding"]
              /\ UNCHANGED <<queue, storeOf>>
         ELSE /\ sessions' = (sessions \ S) \cup {r} /\ older' = Using(r, sessions \ S)
              /\ refCount' = [CountAfter(S) EXCEPT ![store] = @ + 1]
              /\ open' = open \ Unused(S)
              /\ storeOf' = [storeOf EXCEPT ![r] = store]
              /\ Leave(r, "answered")
      /\ UNCHANGED <<closeVars, faultVars>>

\* Not an accessible directory.
ResolveFails(r) ==
  /\ faults < MaxFaults
  /\ queue # <<>> /\ r = Head(queue) /\ request[r] = "queued"
  /\ Leave(r, "refused")
  /\ failed' = failed \cup {r} /\ faults' = faults + 1
  /\ UNCHANGED <<sessionVars, closeVars>>

Bind(r) ==
  /\ request[r] = "binding"
  /\ projectStores' = [projectStores EXCEPT ![ProjectOf[r]] = r]
  /\ refCount' = [refCount EXCEPT ![r] = 1]
  /\ storeOf' = [storeOf EXCEPT ![r] = r]
  /\ sessions' = sessions \cup {r} /\ older' = Using(r, sessions)
  /\ Leave(r, "answered")
  /\ UNCHANGED <<overdue, open, gone, closeVars, faultVars>>

BindFails(r) ==
  /\ faults < MaxFaults /\ request[r] = "binding"
  /\ open' = open \ {r}
  /\ Leave(r, "refused")
  /\ failed' = failed \cup {r} /\ faults' = faults + 1
  /\ UNCHANGED <<sessions, older, overdue, storeOf, projectStores, refCount, gone, closeVars>>

-----------------------------------------------------------------------------
(* Viewer requests, deadlines and the idle timer.                          *)

\* touch: overdue sessions go first, the touched one included.
Touch(s) ==
  /\ Listening /\ s \in sessions
  /\ LET alive == sessions \ overdue
     IN  older' = IF s \in alive THEN Using(s, alive) ELSE Among(alive)
  /\ RemoveAll(overdue) /\ gone' = Reason(overdue, {})
  /\ UNCHANGED <<request, queue, storeOf, closeVars, faultVars>>

\* The idle deadline of a session passes.
Deadline(s) ==
  /\ s \in sessions \ overdue
  /\ overdue' = overdue \cup {s}
  /\ UNCHANGED <<request, queue, sessions, older, storeOf, projectStores, refCount, open, gone,
                 closeVars, faultVars>>

\* close of the server: it waits for the creations of this moment; without
\* any, the listener and its connections end in the same turn.
BeginClose ==
  /\ awaited' = creating
  /\ lifecycle' = IF creating = {} THEN "stopping" ELSE "settling"

\* Mutant of HasActivity: creations in progress do not count.
HasSessions(S) == S # {}

HasActivity(S) == S # {} \/ queue # <<>>

\* The idle timer prunes, and closes a daemon without activity.
IdleCheck ==
  /\ lifecycle = "running"
  /\ RemoveAll(overdue) /\ older' = Among(sessions \ overdue)
  /\ gone' = Reason(overdue, {})
  /\ IF HasActivity(sessions \ overdue) THEN UNCHANGED <<lifecycle, awaited>> ELSE BeginClose
  /\ UNCHANGED <<request, queue, storeOf, shutdown, faultVars>>

\* A signal, or POST /control/shutdown.
Shutdown ==
  /\ lifecycle = "running"
  /\ BeginClose /\ shutdown' = TRUE
  /\ UNCHANGED <<request, queue, sessionVars, faultVars>>

\* Requests whose body is not read yet are cut off.
StopServer ==
  /\ lifecycle = "settling" /\ awaited \cap creating = {}
  /\ lifecycle' = "stopping"
  /\ UNCHANGED <<request, queue, sessionVars, awaited, shutdown, faultVars>>

CloseSessions ==
  /\ lifecycle = "stopping"
  /\ lifecycle' = "closed"
  /\ RemoveAll(sessions) /\ older' = {}
  /\ gone' = [r \in Requests |-> IF r \in sessions THEN "closed" ELSE gone[r]]
  /\ request' = [r \in Requests |-> IF request[r] = "body" THEN "lost" ELSE request[r]]
  /\ UNCHANGED <<queue, storeOf, awaited, shutdown, faultVars>>

Create(r) == Admit(r) \/ ResolveFails(r) \/ Bind(r) \/ BindFails(r)

Next ==
  \/ \E r \in Requests : Receive(r) \/ ReadBody(r) \/ Create(r) \/ Touch(r) \/ Deadline(r)
  \/ IdleCheck \/ Shutdown \/ StopServer \/ CloseSessions

Spec == Init /\ [][Next]_vars

\* Paths and stores answer, and the listener ends.
FairSpec ==
  /\ Spec
  /\ \A r \in Requests : WF_vars(Create(r))
  /\ WF_vars(StopServer) /\ WF_vars(CloseSessions)

-----------------------------------------------------------------------------
(* Properties.                                                             *)

\* The store of a live session is open and is the one its project maps to:
\* no session is left with a store that another one's removal closed.
SessionStoresOpen ==
  \A s \in sessions : storeOf[s] \in open /\ projectStores[ProjectOf[s]] = storeOf[s]

\* An open store is being bound or has as many sessions as it counts: stores
\* and their watchers go with their last session (design, lines 340-341).
OpenStoresUsed ==
  \A t \in open :
    request[t] # "binding" => refCount[t] = Cardinality(Users(t, sessions)) /\ refCount[t] > 0

\* The two together: no store is closed too early or left open.
StoresFollowSessions == TypeOK /\ SessionStoresOpen /\ OpenStoresUsed

\* Only the least recently used session is evicted.
EvictsOldest ==
  [][\A s, t \in sessions :
       <<s, t>> \in older /\ gone'[t] = "evicted" => s \in overdue]_vars

\* A creation is refused only for a failure of its own: one that failed
\* before it does not poison the queue (session-manager.mjs, line 53).
FailuresAreOwn == \A r \in Requests : request[r] = "refused" => r \in failed

\* A URL that was returned stays reachable (daemon-main.test.mjs, line 191):
\* until it expires, is evicted, or the daemon is told to shut down.
AnsweredStay ==
  \A r \in Requests :
    request[r] = "answered" /\ ~shutdown => r \in sessions \/ gone[r] \in {"expired", "evicted"}

\* The two together: what a creation is answered depends on nobody else.
AnswersHold == FailuresAreOwn /\ AnsweredStay

\* A shutdown that waits for creations ends, whichever of them fail (close,
\* daemon-server.mjs, lines 291-305).
ShutdownEnds == lifecycle = "settling" ~> lifecycle = "closed"
=============================================================================
