-------------------------- MODULE DaemonLifecycle --------------------------
(***************************************************************************)
(* How the callers of `handoff view` (scripts/node/view.mjs) find, start   *)
(* and replace the Viewer daemon (viewer/runtime/daemon-main.mjs) through  *)
(* a state file and a startup lock in a shared directory                   *)
(* (viewer/runtime/daemon-state.mjs).  Every caller and every daemon is a  *)
(* process; a step is one system call or one HTTP exchange.                *)
(*                                                                         *)
(* A record in the state file is the daemon it names.  The lock is a       *)
(* directory holding one marker file per owner.  A caller spawns at most   *)
(* one daemon, so the daemon is named after the caller.  Time is the age   *)
(* of the lock: at least 30 seconds or not.  A marker has the age of the   *)
(* time written in it, the directory that of its last change.              *)
(***************************************************************************)
EXTENDS Integers, FiniteSets

CONSTANTS
  Callers,    \* runs of `handoff view`
  Prior,      \* the daemon of an earlier run
  NoDaemon,   \* no record
  Starts,     \* what became of Prior: "none", "dead", "current", "old"
  Leftovers,  \* what became of its lock: "none", "owned", "empty"
  Slow,       \* a startup may take longer than the 30 seconds of a lock
  KillPoints, \* where a caller or a daemon may be killed
  MaxTroubles \* bound: processes killed, and system calls and requests that fail

Daemons == Callers \cup {Prior}

ASSUME DaemonAssumption ==
  /\ Prior \notin Callers /\ NoDaemon \notin Daemons
  /\ Slow \in BOOLEAN /\ MaxTroubles \in Nat

VARIABLES
  stateFile,  \* the daemon the published record names, or NoDaemon
  lockDir,    \* the lock directory exists
  markers,    \* the owners whose marker is in it
  oldDir,     \* the directory is old enough to be taken for stale
  oldMarkers, \* the markers that are
  pc, seen, attempt,  \* a caller: where it is, the record it read, its turn
  sawOld, lockSeen,   \* whether it found the directory old, and the marker
                      \* it found in it ("empty": none)
  dpc, session,                 \* a daemon: where it is, whether it has sessions
  priorOld,   \* Prior has another version
  everOld,    \* history: some lock has been old
  doubted,    \* history: the daemons taken for dead while they served
  troubles    \* processes killed and calls failed so far

sightVars  == <<sawOld, lockSeen>>
callerVars == <<pc, seen, attempt, sightVars>>
daemonVars == <<dpc, session>>
lockVars   == <<lockDir, markers, oldDir, oldMarkers>>
pastVars   == <<priorOld, everOld, doubted>>
envVars    == <<pastVars, troubles>>
vars == <<stateFile, lockVars, callerVars, daemonVars, envVars>>

Ended == {"done", "failed", "unsafe", "killed"}
CallerPC ==
  {"read", "health", "shutdown", "await", "remove", "lock", "mark", "cleanup", "spawn",
   "giveup", "giveupDir", "peek", "lstat", "markers", "recover", "recoverDir", "poll",
   "session"} \cup Ended
DaemonPC ==
  {"off", "starting", "listening", "published", "unlock", "running", "closing",
   "stopped", "unpublished", "unlockLast", "dead"}

\* Only what runs is killed.
ASSUME KillAssumption ==
  KillPoints \subseteq (CallerPC \ Ended) \cup (DaemonPC \ {"off", "dead"})

TypeOK ==
  /\ stateFile \in Daemons \cup {NoDaemon}
  /\ lockDir \in BOOLEAN /\ markers \subseteq Daemons
  /\ oldDir \in BOOLEAN /\ oldMarkers \subseteq markers
  /\ markers # {} \/ oldDir => lockDir
  /\ pc \in [Callers -> CallerPC] /\ seen \in [Callers -> Daemons \cup {NoDaemon}]
  /\ sawOld \in [Callers -> BOOLEAN] /\ lockSeen \in [Callers -> Daemons \cup {"empty"}]
  /\ attempt \in [Callers -> 1..2]
  /\ dpc \in [Daemons -> DaemonPC] /\ session \in [Daemons -> BOOLEAN]
  /\ priorOld \in BOOLEAN /\ everOld \in BOOLEAN /\ doubted \subseteq Daemons
  /\ troubles \in 0..MaxTroubles

Init ==
  /\ \E start \in Starts :
       /\ stateFile = IF start = "none" THEN NoDaemon ELSE Prior
       /\ dpc = [d \in Daemons |-> IF d \in Callers THEN "off"
                                   ELSE IF start \in {"current", "old"} THEN "running"
                                   ELSE "dead"]
       /\ priorOld = (start = "old")
  /\ \E left \in Leftovers :
       /\ lockDir = (left # "none") /\ oldDir = lockDir /\ everOld = lockDir
       /\ markers = IF left = "owned" THEN {Prior} ELSE {}
  /\ oldMarkers = markers
  /\ pc = [c \in Callers |-> "read"] /\ seen = [c \in Callers |-> NoDaemon]
  /\ sawOld = [c \in Callers |-> FALSE] /\ lockSeen = [c \in Callers |-> "empty"]
  /\ attempt = [c \in Callers |-> 1]
  /\ session = [d \in Daemons |-> FALSE]
  /\ doubted = {} /\ troubles = 0

\* What a step that only moves a caller, or a daemon, leaves alone.
pcFrame  == <<stateFile, lockVars, seen, attempt, sightVars, daemonVars, envVars>>
dpcFrame == <<stateFile, lockVars, callerVars, session, envVars>>
\* What a step leaves alone that moves a caller by a health check.
checkFrame == <<stateFile, lockVars, seen, attempt, sightVars, daemonVars, priorOld, everOld>>

\* The listener is there until it stops, closing or not.
Serving(d) ==
  d \in Daemons /\ dpc[d] \in {"listening", "published", "unlock", "running", "closing"}

\* healthCheck: only a daemon that serves is healthy, and it too is not when it
\* takes more than 2 seconds to answer or the request fails.
HealthCheck(d, healthy) ==
  \/ healthy = Serving(d) /\ UNCHANGED <<troubles, doubted>>
  \/ /\ ~healthy /\ Serving(d) /\ troubles < MaxTroubles
     /\ troubles' = troubles + 1 /\ doubted' = doubted \cup {d}

Current(d) == d # Prior \/ ~priorOld

Go(c, from, to) == pc[c] = from /\ pc' = [pc EXCEPT ![c] = to]
DaemonGo(d, from, to) == dpc[d] = from /\ dpc' = [dpc EXCEPT ![d] = to]

-----------------------------------------------------------------------------
(* ensureDaemon: use the published daemon, replace it, or start one.       *)

\* readState
ReadState(c) ==
  /\ seen' = [seen EXCEPT ![c] = stateFile]
  /\ Go(c, "read", IF stateFile = NoDaemon THEN "lock" ELSE "health")
  /\ UNCHANGED <<stateFile, lockVars, sightVars, attempt, daemonVars, envVars>>

\* A healthy daemon of this version is used, one of another is asked to stop,
\* and a record without a healthy daemon is stale.
CheckHealth(c) ==
  /\ \E healthy \in BOOLEAN :
       /\ HealthCheck(seen[c], healthy)
       /\ Go(c, "health", IF ~healthy THEN "remove"
                          ELSE IF Current(seen[c]) THEN "session" ELSE "shutdown")
  /\ UNCHANGED checkFrame

\* requestShutdown: the daemon answers and closes.
Closed(d) == [dpc EXCEPT ![d] = IF @ = "running" THEN "closing" ELSE @]

RequestShutdown(c) ==
  /\ Go(c, "shutdown", IF Serving(seen[c]) THEN "await" ELSE "failed")
  /\ dpc' = Closed(seen[c])
  /\ UNCHANGED <<stateFile, lockVars, seen, attempt, sightVars, session, envVars>>

\* The request fails before or after it has reached the daemon.
ShutdownLost(c) ==
  /\ Serving(seen[c]) /\ troubles < MaxTroubles
  /\ Go(c, "shutdown", "failed")
  /\ dpc' \in {dpc, Closed(seen[c])}
  /\ troubles' = troubles + 1
  /\ UNCHANGED <<stateFile, lockVars, seen, attempt, sightVars, session, pastVars>>

\* Mutant of AwaitExit: the old daemon is not waited for.
AwaitNothing(c) ==
  /\ Go(c, "await", "remove")
  /\ UNCHANGED pcFrame

\* A failed check or the 5 second deadline ends the wait for its exit, and one
\* more check decides.
AwaitExit(c) ==
  /\ \E healthy \in BOOLEAN :
       /\ HealthCheck(seen[c], healthy)
       /\ Go(c, "await", IF healthy THEN "failed" ELSE "remove")
  /\ UNCHANGED checkFrame

\* removeState removes whatever record is there, and the one that was read is
\* not looked at again.
RemoveState(c) ==
  /\ Go(c, "remove", "lock")
  /\ stateFile' = NoDaemon /\ seen' = [seen EXCEPT ![c] = NoDaemon]
  /\ UNCHANGED <<lockVars, attempt, sightVars, daemonVars, envVars>>

-----------------------------------------------------------------------------
(* startDaemonCoordinated: the winner of the lock starts a daemon.         *)

\* Mutant of MakeLock: a directory that is there already is no error.
MakeLockAnyway(c) ==
  /\ Go(c, "lock", "mark")
  /\ lockDir' = TRUE
  /\ UNCHANGED <<stateFile, markers, oldDir, oldMarkers, seen, attempt, sightVars, daemonVars,
                 envVars>>

\* acquireStartupLock, first half: mkdir.
MakeLock(c) ==
  /\ Go(c, "lock", IF lockDir THEN "peek" ELSE "mark")
  /\ lockDir' = TRUE
  /\ UNCHANGED <<stateFile, markers, oldDir, oldMarkers, seen, attempt, sightVars, daemonVars,
                 envVars>>

\* Second half: the marker.  It needs a directory, whoever made it.
WriteMarker(c) ==
  /\ lockDir
  /\ Go(c, "mark", "spawn")
  /\ markers' = markers \cup {c}
  /\ oldDir' = FALSE
  /\ UNCHANGED <<stateFile, lockDir, oldMarkers, seen, attempt, sightVars, daemonVars,
                 envVars>>

MarkerFails(c) ==
  /\ ~lockDir \/ troubles < MaxTroubles
  /\ Go(c, "mark", "cleanup")
  /\ troubles' = IF lockDir THEN troubles + 1 ELSE troubles
  /\ UNCHANGED <<stateFile, lockVars, seen, attempt, sightVars, daemonVars, pastVars>>

\* rm -rf of the lock directory, then the error.
CleanUp(c) ==
  /\ Go(c, "cleanup", "failed")
  /\ lockDir' = FALSE /\ markers' = {} /\ oldDir' = FALSE /\ oldMarkers' = {}
  /\ UNCHANGED <<stateFile, seen, attempt, sightVars, daemonVars, envVars>>

\* The daemon gets the lock's owner and releases it.
Spawn(c) ==
  /\ Go(c, "spawn", "poll")
  /\ dpc' = [dpc EXCEPT ![c] = "starting"]
  /\ UNCHANGED <<stateFile, lockVars, seen, attempt, sightVars, session, envVars>>

SpawnFails(c) ==
  /\ troubles < MaxTroubles
  /\ Go(c, "spawn", "giveup")
  /\ troubles' = troubles + 1
  /\ UNCHANGED <<stateFile, lockVars, seen, attempt, sightVars, daemonVars, pastVars>>

\* The published daemon is tried once more before the lock is looked at, unless
\* it is of another version.
Peek(c) ==
  /\ \/ /\ Current(stateFile)
        /\ \E healthy \in BOOLEAN :
             /\ HealthCheck(stateFile, healthy)
             /\ IF healthy THEN Go(c, "peek", "session") /\ seen' = [seen EXCEPT ![c] = stateFile]
                ELSE Go(c, "peek", "lstat") /\ UNCHANGED seen
     \/ ~Current(stateFile) /\ Go(c, "peek", "lstat") /\ UNCHANGED <<seen, troubles, doubted>>
  /\ UNCHANGED <<stateFile, lockVars, sightVars, attempt, daemonVars, priorOld, everOld>>

\* readLock: lstat, then the directory's entries.
StatLock(c) ==
  /\ Go(c, "lstat", IF lockDir THEN "markers" ELSE "poll")
  /\ sawOld' = [sawOld EXCEPT ![c] = oldDir]
  /\ UNCHANGED <<stateFile, lockVars, seen, attempt, lockSeen, daemonVars, envVars>>

\* The directory is gone by now, and readdir throws.
LockVanished(c) ==
  /\ ~lockDir
  /\ Go(c, "markers", "failed")
  /\ UNCHANGED pcFrame

\* The age is that of the one marker, and without one that of the directory as
\* it was at lstat.  A young lock is waited for, an old one recovered.  Two
\* markers have no owner, and no recovery (VIEW_STATE_UNSAFE).
ReadMarkers(c) ==
  /\ lockDir
  /\ \/ \E o \in markers :
          /\ markers = {o}
          /\ Go(c, "markers", IF o \in oldMarkers THEN "recover" ELSE "poll")
          /\ lockSeen' = [lockSeen EXCEPT ![c] = o]
     \/ /\ Cardinality(markers) # 1
        /\ Go(c, "markers", IF ~sawOld[c] THEN "poll"
                            ELSE IF markers = {} THEN "recover" ELSE "unsafe")
        /\ lockSeen' = [lockSeen EXCEPT ![c] = "empty"]
  /\ UNCHANGED <<stateFile, lockVars, seen, attempt, sawOld, daemonVars, envVars>>

\* releaseStartupLock: only the named marker goes, and then the directory if
\* nothing else is in it.
DropMarker(o) ==
  /\ markers' = markers \ {o} /\ oldMarkers' = oldMarkers \ {o}
  /\ oldDir' = FALSE
  /\ UNCHANGED lockDir

DropDir ==
  /\ lockDir' = (lockDir /\ markers # {})
  /\ oldDir' = (oldDir /\ lockDir')
  /\ UNCHANGED <<markers, oldMarkers>>

\* The caller that removes the lock tries again, once; who comes second to it
\* fails (VIEW_STATE_UNSAFE).
Recovered(c) == IF attempt[c] = 1 THEN "lock" ELSE "failed"

RecoverMarker(c) ==
  /\ lockSeen[c] # "empty"
  /\ Go(c, "recover", IF lockSeen[c] \in markers THEN "recoverDir" ELSE "unsafe")
  /\ IF lockSeen[c] \in markers THEN DropMarker(lockSeen[c]) ELSE UNCHANGED lockVars
  /\ UNCHANGED <<stateFile, seen, attempt, sightVars, daemonVars, envVars>>

RecoverDir(c) ==
  LET gone == lockDir /\ markers = {}
  IN  /\ \/ Go(c, "recoverDir", IF gone THEN Recovered(c) ELSE "unsafe")
         \/ lockSeen[c] = "empty" /\ Go(c, "recover", IF gone THEN Recovered(c) ELSE "unsafe")
      /\ DropDir
      /\ attempt' = [attempt EXCEPT ![c] = 2]
      /\ UNCHANGED <<stateFile, seen, sightVars, daemonVars, envVars>>

\* A caller that could not spawn releases its lock.
GiveUp(c) ==
  /\ Go(c, "giveup", IF c \in markers THEN "giveupDir" ELSE "failed")
  /\ IF c \in markers THEN DropMarker(c) ELSE UNCHANGED lockVars
  /\ UNCHANGED <<stateFile, seen, attempt, sightVars, daemonVars, envVars>>

GiveUpDir(c) ==
  /\ Go(c, "giveupDir", "failed")
  /\ DropDir
  /\ UNCHANGED <<stateFile, seen, attempt, sightVars, daemonVars, envVars>>

\* pollForHealthyState, up to 10 seconds; a check that fails is repeated.
Poll(c) ==
  /\ Serving(stateFile) /\ Current(stateFile)
  /\ Go(c, "poll", "session")
  /\ seen' = [seen EXCEPT ![c] = stateFile]
  /\ UNCHANGED <<stateFile, lockVars, sightVars, attempt, daemonVars, envVars>>

\* Mutant of PollTimesOut: the deadline counts only for a record that is there.
PollTimesOutSeen(c) ==
  /\ stateFile # NoDaemon
  /\ Go(c, "poll", "failed")
  /\ UNCHANGED pcFrame

PollTimesOut(c) ==
  /\ Go(c, "poll", "failed")
  /\ UNCHANGED pcFrame

\* createViewerSession: a daemon that closes meanwhile may lose the session.
WithSession(c) ==
  [d \in Daemons |-> session[d] \/ (d = seen[c] /\ Serving(d) /\ dpc[d] # "closing")]

CreateSession(c) ==
  /\ \/ Go(c, "session", "done") /\ Serving(seen[c])
     \/ Go(c, "session", "failed") /\ (~Serving(seen[c]) \/ dpc[seen[c]] = "closing")
  /\ session' = WithSession(c)
  /\ UNCHANGED <<stateFile, lockVars, seen, attempt, sightVars, dpc, envVars>>

\* The request fails before or after the daemon has made the session.
SessionLost(c) ==
  /\ Serving(seen[c]) /\ troubles < MaxTroubles
  /\ Go(c, "session", "failed")
  /\ session' \in {session, WithSession(c)}
  /\ troubles' = troubles + 1
  /\ UNCHANGED <<stateFile, lockVars, seen, attempt, sightVars, dpc, pastVars>>

CallerStep(c) ==
  \/ ReadState(c) \/ CheckHealth(c) \/ RequestShutdown(c) \/ ShutdownLost(c) \/ AwaitExit(c)
  \/ RemoveState(c)
  \/ MakeLock(c) \/ WriteMarker(c) \/ MarkerFails(c) \/ CleanUp(c) \/ Spawn(c) \/ SpawnFails(c)
  \/ Peek(c) \/ StatLock(c) \/ LockVanished(c) \/ ReadMarkers(c)
  \/ RecoverMarker(c) \/ RecoverDir(c) \/ GiveUp(c) \/ GiveUpDir(c)
  \/ Poll(c) \/ PollTimesOut(c) \/ CreateSession(c) \/ SessionLost(c)

-----------------------------------------------------------------------------
(* startDaemon and close (daemon-main.mjs).                                *)

Listen(d) ==
  /\ DaemonGo(d, "starting", "listening")
  /\ UNCHANGED dpcFrame

\* writeState: a temporary file and one rename.
Publish(d) ==
  /\ DaemonGo(d, "listening", "published")
  /\ stateFile' = d
  /\ UNCHANGED <<lockVars, callerVars, session, envVars>>

PublishFails(d) ==
  /\ troubles < MaxTroubles
  /\ DaemonGo(d, "listening", "closing")
  /\ troubles' = troubles + 1
  /\ UNCHANGED <<stateFile, lockVars, callerVars, session, pastVars>>

\* releaseStartupLock, once when it is published and again when it closes.
ReleaseMarker(d) ==
  /\ \/ DaemonGo(d, "published", IF d \in markers THEN "unlock" ELSE "running")
     \/ DaemonGo(d, "unpublished", IF d \in markers THEN "unlockLast" ELSE "dead")
  /\ IF d \in markers THEN DropMarker(d) ELSE UNCHANGED lockVars
  /\ UNCHANGED <<stateFile, callerVars, session, envVars>>

ReleaseDir(d) ==
  /\ DaemonGo(d, "unlock", "running") \/ DaemonGo(d, "unlockLast", "dead")
  /\ DropDir
  /\ UNCHANGED <<stateFile, callerVars, session, envVars>>

\* A session reaches its idle deadline.
Expire(d) ==
  /\ dpc[d] = "running" /\ session[d]
  /\ session' = [session EXCEPT ![d] = FALSE]
  /\ UNCHANGED <<stateFile, lockVars, callerVars, dpc, envVars>>

\* Mutant of IdleClose: the timer does not close the daemon of a session that
\* expired by itself.
IdleCloseUnused(d) ==
  /\ ~session[d] /\ \A c \in Callers : pc[c] = "done" => seen[c] # d
  /\ DaemonGo(d, "running", "closing")
  /\ UNCHANGED dpcFrame

\* The timer finds no session.
IdleClose(d) ==
  /\ ~session[d]
  /\ DaemonGo(d, "running", "closing")
  /\ UNCHANGED dpcFrame

StopServer(d) ==
  /\ DaemonGo(d, "closing", "stopped")
  /\ session' = [session EXCEPT ![d] = FALSE]
  /\ UNCHANGED <<stateFile, lockVars, callerVars, envVars>>

\* removeState, whatever record is there by now.
Unpublish(d) ==
  /\ DaemonGo(d, "stopped", "unpublished")
  /\ stateFile' = NoDaemon
  /\ UNCHANGED <<lockVars, callerVars, session, envVars>>

DaemonStep(d) ==
  \/ Listen(d) \/ Publish(d) \/ PublishFails(d) \/ ReleaseMarker(d) \/ ReleaseDir(d)
  \/ IdleClose(d) \/ StopServer(d) \/ Unpublish(d)

-----------------------------------------------------------------------------
(* The environment.                                                        *)

KillCaller(c) ==
  /\ troubles < MaxTroubles /\ pc[c] \in KillPoints
  /\ pc' = [pc EXCEPT ![c] = "killed"] /\ troubles' = troubles + 1
  /\ UNCHANGED <<stateFile, lockVars, seen, attempt, sightVars, daemonVars, pastVars>>

\* Also a listener that cannot start: the process ends with its lock held.
KillDaemon(d) ==
  /\ troubles < MaxTroubles /\ dpc[d] \in KillPoints
  /\ dpc' = [dpc EXCEPT ![d] = "dead"] /\ troubles' = troubles + 1
  /\ session' = [session EXCEPT ![d] = FALSE]
  /\ UNCHANGED <<stateFile, lockVars, callerVars, pastVars>>

\* SIGINT or SIGTERM: the daemon closes with the sessions it has.
Signal(d) ==
  /\ troubles < MaxTroubles
  /\ DaemonGo(d, "running", "closing") /\ troubles' = troubles + 1
  /\ UNCHANGED <<stateFile, lockVars, callerVars, session, pastVars>>

\* A process is between taking the lock and releasing it, or removing it.
AtLock(d) ==
  \/ d \in Callers /\ pc[d] \in {"mark", "cleanup", "spawn", "giveup", "giveupDir", "recoverDir"}
  \/ dpc[d] \in {"starting", "listening", "published", "unlock", "unlockLast"}
  \/ d \in markers /\ dpc[d] \notin {"off", "dead"}

\* 30 seconds pass: unless startups may be slow, only for an abandoned lock.
Age ==
  /\ lockDir /\ (Slow \/ \A d \in Daemons : ~AtLock(d))
  /\ oldDir' = TRUE /\ oldMarkers' = markers /\ everOld' = TRUE
  /\ UNCHANGED <<stateFile, lockDir, markers, callerVars, daemonVars, priorOld, doubted,
                 troubles>>

Next ==
  \/ \E c \in Callers : CallerStep(c) \/ KillCaller(c)
  \/ \E d \in Daemons : DaemonStep(d) \/ Expire(d) \/ KillDaemon(d) \/ Signal(d)
  \/ Age

Spec == Init /\ [][Next]_vars

\* Processes run, a deadline passes, and an unused session expires.  Nobody
\* has to be killed, and no lock has to get old.
FairSpec ==
  /\ Spec
  /\ \A c \in Callers : WF_vars(CallerStep(c))
  /\ \A d \in Daemons : WF_vars(DaemonStep(d) \/ Expire(d))

-----------------------------------------------------------------------------
(* Properties.                                                             *)

Starting(d) == dpc[d] \in {"starting", "listening", "published"}

\* Only one concurrent caller starts a daemon at a time (design, line 313).
OneStarter == \A c, d \in Callers : Starting(c) /\ Starting(d) => c = d

\* It does as long as no lock was ever old enough to be recovered, whatever
\* fails or is killed; and the daemon a caller started holds the lock until it
\* has published itself, so that nobody takes the lock of a starting process
\* (design, lines 243-244).
LockExcludes ==
  TypeOK /\ (~everOld => OneStarter /\ \A c \in Callers : Starting(c) => c \in markers)

\* While a daemon of another version serves, none of this one is started
\* (view.mjs, the wait of lines 201-208).  The exception is a daemon that was
\* taken for dead because one request to it failed or took too long: its record
\* is removed, and another daemon started beside it (lines 212-215).
OldGoneFirst ==
  priorOld /\ Serving(Prior) /\ Prior \notin doubted =>
    \A c \in Callers : dpc[c] = "off" /\ pc[c] \notin {"mark", "spawn", "poll"}

\* Every caller comes to an end.
CallersFinish == \A c \in Callers : <>(pc[c] \in Ended)

\* No daemon stays once its sessions are gone ("not a permanent service").
DaemonsStop == \A d \in Daemons : Serving(d) ~> dpc[d] = "dead"
=============================================================================
