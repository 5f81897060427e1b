--------------------------- MODULE CommandProofs ---------------------------
(***************************************************************************)
(* Proofs about the commands: view, which shares one daemon between its    *)
(* callers (DaemonLifecycle), and init, save and load, which share one     *)
(* .handoff directory or submodule (Storage).                              *)
(*                                                                         *)
(* Of the view command: for any number of callers, whatever an earlier     *)
(* daemon has left behind, wherever processes are killed, and also where a *)
(* startup may outlast the 30 seconds of a lock.  Of the others: for any   *)
(* number of commits, notes, failing git calls and kills.  What a save has *)
(* reported can only be traced by where it is committed: Branches says     *)
(* that as long as nobody has committed on a detached HEAD, each note that *)
(* any commit has is on the local branch or on the remote one, and         *)
(* Histories, why a push or another commit does not change that.           *)
(***************************************************************************)
EXTENDS DaemonLifecycle, Storage, TLAPS

\* A caller that has not come to its spawn has no daemon; the daemon of an
\* earlier run is not started again.
BeforeSpawn ==
  {"read", "health", "shutdown", "await", "remove", "lock", "mark", "cleanup", "spawn",
   "giveup", "giveupDir", "peek", "lstat", "markers", "recover", "recoverDir"}

SpawnedOnce ==
  /\ \A c \in Callers : pc[c] \in BeforeSpawn => dpc[c] = "off"
  /\ dpc[Prior] \notin {"off", "starting", "listening"}

\* A process has taken the lock, or is still giving it back.
Holds(d) ==
  \/ d \in Callers /\ pc[d] \in {"mark", "cleanup", "spawn", "giveup", "giveupDir"}
  \/ dpc[d] \in {"starting", "listening", "published", "unlock", "unlockLast"}
  \/ d \in markers

\* A caller or its daemon is where its marker must be in the directory.
Marked(c) == pc[c] \in {"spawn", "giveup"} \/ Starting(c)

\* While no lock has been old: nobody recovers, the holder is one process and
\* has the directory, and its marker is there while it needs it.
Young ==
  /\ ~oldDir /\ oldMarkers = {}
  /\ \A c \in Callers : ~sawOld[c] /\ pc[c] \notin {"recover", "recoverDir"}

Exclusive ==
  /\ \A c, d \in Daemons : Holds(c) /\ Holds(d) => c = d
  /\ \A d \in Daemons : Holds(d) => lockDir
  /\ \A c \in Callers : Marked(c) => c \in markers

LockInv == ~everOld => Young /\ Exclusive

\* While the old daemon serves and nobody took it for dead, its record is there, and every caller is on the
\* way that stops it.
OldServes == priorOld /\ Serving(Prior) /\ Prior \notin doubted

OldInv ==
  OldServes =>
    /\ stateFile = Prior
    /\ \A c \in Callers :
         /\ dpc[c] = "off"
         /\ pc[c] \in {"read", "health", "shutdown", "await", "failed", "killed"}
         /\ pc[c] \in {"health", "shutdown", "await"} => seen[c] = Prior

IInv == TypeOK /\ SpawnedOnce /\ LockInv /\ OldInv

-----------------------------------------------------------------------------
(* Types.                                                                  *)

LEMMA InitTyped == Init => TypeOK
<1> SUFFICES ASSUME Init PROVE TypeOK
  OBVIOUS
<1>1. stateFile \in Daemons \cup {NoDaemon} /\ dpc \in [Daemons -> DaemonPC]
  BY DEF Init, Daemons, DaemonPC
<1>2. priorOld \in BOOLEAN
  BY Zenon DEF Init
<1>3. lockDir \in BOOLEAN /\ oldDir \in BOOLEAN /\ everOld \in BOOLEAN
  BY Zenon DEF Init
<1>4. markers \subseteq Daemons /\ (markers # {} \/ oldDir => lockDir) /\ oldMarkers = markers
  BY DEF Init, Daemons
<1>5. troubles \in 0..MaxTroubles /\ doubted \subseteq Daemons
  BY DaemonAssumption DEF Init
<1>. QED
  BY <1>1, <1>2, <1>3, <1>4, <1>5 DEF Init, TypeOK, CallerPC

\* The steps of the callers, one by one.
LEMMA CallerTyped ==
  ASSUME TypeOK, NEW c \in Callers, CallerStep(c)
  PROVE  TypeOK'
<1> USE DaemonAssumption DEF TypeOK, Daemons, CallerPC, Ended, DaemonPC, Go,
        pcFrame, checkFrame, lockVars, callerVars, sightVars, daemonVars, pastVars, envVars
<1>1. CASE ReadState(c)
  BY <1>1 DEF ReadState
<1>2. CASE CheckHealth(c)
  BY <1>2 DEF CheckHealth, HealthCheck, Serving
<1>3. CASE RequestShutdown(c) \/ ShutdownLost(c)
  BY <1>3 DEF RequestShutdown, ShutdownLost, Closed
<1>4. CASE AwaitExit(c)
  BY <1>4 DEF AwaitExit, HealthCheck, Serving
<1>5. CASE RemoveState(c)
  BY <1>5 DEF RemoveState
<1>6. CASE MakeLock(c)
  BY <1>6 DEF MakeLock
<1>7. CASE WriteMarker(c)
  BY <1>7 DEF WriteMarker
<1>8. CASE MarkerFails(c)
  BY <1>8 DEF MarkerFails
<1>9. CASE CleanUp(c)
  BY <1>9 DEF CleanUp
<1>10. CASE Spawn(c)
  BY <1>10 DEF Spawn
<1>11. CASE SpawnFails(c)
  BY <1>11 DEF SpawnFails
<1>12. CASE Peek(c)
  BY <1>12 DEF Peek, HealthCheck, Serving
<1>13. CASE StatLock(c)
  BY <1>13 DEF StatLock
<1>14. CASE LockVanished(c)
  BY <1>14 DEF LockVanished
<1>15. CASE ReadMarkers(c)
  BY <1>15 DEF ReadMarkers
<1>16. CASE RecoverMarker(c)
  BY <1>16 DEF RecoverMarker, DropMarker
<1>17. CASE RecoverDir(c)
  BY <1>17 DEF RecoverDir, Recovered, DropDir
<1>18. CASE GiveUp(c)
  BY <1>18 DEF GiveUp, DropMarker
<1>19. CASE GiveUpDir(c)
  BY <1>19 DEF GiveUpDir, DropDir
<1>20. CASE Poll(c)
  BY <1>20 DEF Poll
<1>21. CASE PollTimesOut(c)
  BY <1>21 DEF PollTimesOut
<1>22. CASE CreateSession(c) \/ SessionLost(c)
  <2>1. WithSession(c) \in [Daemons -> BOOLEAN]
    BY DEF WithSession
  <2>2. session' \in [Daemons -> BOOLEAN] /\ troubles' \in 0..MaxTroubles
    BY <1>22, <2>1 DEF CreateSession, SessionLost
  <2>3. pc' \in [Callers -> CallerPC]
    BY <1>22 DEF CreateSession, SessionLost
  <2>. QED
    BY <1>22, <2>2, <2>3 DEF CreateSession, SessionLost
<1>. QED
  BY <1>1, <1>2, <1>3, <1>4, <1>5, <1>6, <1>7, <1>8, <1>9, <1>10, <1>11, <1>12, <1>13, <1>14,
     <1>15, <1>16, <1>17, <1>18, <1>19, <1>20, <1>21, <1>22, Zenon DEF CallerStep

\* The steps of the daemons, and what is done to them.
LEMMA DaemonTyped ==
  ASSUME TypeOK, NEW d \in Daemons, DaemonStep(d) \/ Expire(d) \/ KillDaemon(d) \/ Signal(d)
  PROVE  TypeOK'
<1> USE DaemonAssumption DEF TypeOK, Daemons, DaemonPC, DaemonGo,
        dpcFrame, lockVars, callerVars, sightVars, daemonVars, pastVars, envVars
<1>1. CASE Listen(d) \/ IdleClose(d)
  BY <1>1 DEF Listen, IdleClose
<1>2. CASE Publish(d) \/ Unpublish(d)
  BY <1>2 DEF Publish, Unpublish
<1>3. CASE PublishFails(d)
  BY <1>3 DEF PublishFails
<1>4. CASE ReleaseMarker(d)
  <2>1. /\ lockDir' = lockDir /\ oldDir' \in BOOLEAN
        /\ markers' \subseteq markers /\ oldMarkers' \subseteq markers'
        /\ oldDir' => lockDir'
    BY <1>4 DEF ReleaseMarker, DropMarker
  <2>2. dpc' \in [Daemons -> DaemonPC]
    BY <1>4 DEF ReleaseMarker
  <2>3. /\ UNCHANGED <<stateFile, pc, seen, sawOld, lockSeen, attempt, session>>
        /\ UNCHANGED <<priorOld, everOld, doubted, troubles>>
    BY <1>4 DEF ReleaseMarker
  <2>. QED
    BY <2>1, <2>2, <2>3
<1>5. CASE ReleaseDir(d)
  <2>1. /\ lockDir' \in BOOLEAN /\ oldDir' \in BOOLEAN
        /\ markers' # {} \/ oldDir' => lockDir'
        /\ markers' = markers /\ oldMarkers' = oldMarkers
    BY <1>5 DEF ReleaseDir, DropDir
  <2>2. dpc' \in [Daemons -> DaemonPC]
    BY <1>5 DEF ReleaseDir
  <2>3. /\ UNCHANGED <<stateFile, pc, seen, sawOld, lockSeen, attempt, session>>
        /\ UNCHANGED <<priorOld, everOld, doubted, troubles>>
    BY <1>5 DEF ReleaseDir
  <2>. QED
    BY <2>1, <2>2, <2>3
<1>6. CASE StopServer(d)
  BY <1>6 DEF StopServer
<1>7. CASE Expire(d)
  BY <1>7 DEF Expire
<1>8. CASE KillDaemon(d)
  BY <1>8 DEF KillDaemon
<1>9. CASE Signal(d)
  BY <1>9 DEF Signal
<1>. QED
  BY <1>1, <1>2, <1>3, <1>4, <1>5, <1>6, <1>7, <1>8, <1>9 DEF DaemonStep

LEMMA NextTyped == TypeOK /\ [Next]_vars => TypeOK'
<1> SUFFICES ASSUME TypeOK, [Next]_vars PROVE TypeOK'
  OBVIOUS
<1>1. ASSUME NEW c \in Callers, KillCaller(c) PROVE TypeOK'
  BY <1>1, DaemonAssumption DEF KillCaller, TypeOK, Daemons, CallerPC, Ended, lockVars, sightVars,
     daemonVars, pastVars
<1>2. CASE Age
  BY <1>2 DEF Age, TypeOK, callerVars, sightVars, daemonVars
<1>3. CASE UNCHANGED vars
  BY <1>3 DEF TypeOK, vars, lockVars, callerVars, sightVars, daemonVars, pastVars, envVars
<1>. QED
  BY <1>1, <1>2, <1>3, CallerTyped, DaemonTyped DEF Next

-----------------------------------------------------------------------------
(* A daemon per caller.                                                    *)

LEMMA SpawnedStep == TypeOK /\ SpawnedOnce /\ [Next]_vars => SpawnedOnce'
<1> SUFFICES ASSUME TypeOK, SpawnedOnce, [Next]_vars PROVE SpawnedOnce'
  OBVIOUS
<1> USE DaemonAssumption DEF SpawnedOnce, BeforeSpawn, TypeOK, Daemons
<1>1. ASSUME NEW c \in Callers, CallerStep(c) PROVE SpawnedOnce'
  <2> USE DEF Go, pcFrame, checkFrame, daemonVars
  <2>1. CASE RequestShutdown(c) \/ ShutdownLost(c)
    BY <2>1 DEF RequestShutdown, ShutdownLost, Closed, Serving
  <2>2. CASE Spawn(c)
    BY <2>2 DEF Spawn
  <2>3. CASE RecoverDir(c)
    BY <2>3 DEF RecoverDir, Recovered
  <2>4. CASE ReadState(c) \/ CheckHealth(c) \/ AwaitExit(c) \/ RemoveState(c)
    BY <2>4 DEF ReadState, CheckHealth, AwaitExit, RemoveState
  <2>5. CASE MakeLock(c) \/ WriteMarker(c) \/ MarkerFails(c) \/ CleanUp(c) \/ SpawnFails(c)
    BY <2>5 DEF MakeLock, WriteMarker, MarkerFails, CleanUp, SpawnFails
  <2>6. CASE Peek(c) \/ StatLock(c) \/ LockVanished(c) \/ ReadMarkers(c) \/ RecoverMarker(c)
    BY <2>6 DEF Peek, StatLock, LockVanished, ReadMarkers, RecoverMarker
  <2>7. CASE \/ GiveUp(c) \/ GiveUpDir(c) \/ Poll(c) \/ PollTimesOut(c)
             \/ CreateSession(c) \/ SessionLost(c)
    BY <2>7 DEF GiveUp, GiveUpDir, Poll, PollTimesOut, CreateSession, SessionLost
  <2>. QED
    BY <1>1, <2>1, <2>2, <2>3, <2>4, <2>5, <2>6, <2>7, Zenon DEF CallerStep
<1>2. ASSUME NEW d \in Daemons, DaemonStep(d) \/ Expire(d) \/ KillDaemon(d) \/ Signal(d)
      PROVE  SpawnedOnce'
  <2> USE DEF DaemonGo, dpcFrame, callerVars
  <2>1. CASE Listen(d) \/ Publish(d) \/ PublishFails(d) \/ IdleClose(d) \/ StopServer(d) \/ Unpublish(d)
    BY <2>1 DEF Listen, Publish, PublishFails, IdleClose, StopServer, Unpublish
  <2>2. CASE ReleaseMarker(d) \/ ReleaseDir(d)
    BY <2>2 DEF ReleaseMarker, ReleaseDir
  <2>3. CASE Expire(d) \/ KillDaemon(d) \/ Signal(d)
    BY <2>3, KillAssumption DEF Expire, KillDaemon, Signal, CallerPC, DaemonPC, Ended
  <2>. QED
    BY <1>2, <2>1, <2>2, <2>3, Zenon DEF DaemonStep
<1>3. ASSUME NEW c \in Callers, KillCaller(c) PROVE SpawnedOnce'
  BY <1>3 DEF KillCaller, daemonVars
<1>4. CASE Age \/ UNCHANGED vars
  BY <1>4 DEF Age, vars, callerVars, daemonVars
<1>. QED
  BY <1>1, <1>2, <1>3, <1>4, Zenon DEF Next

-----------------------------------------------------------------------------
(* The old daemon.                                                         *)

LEMMA OldStep == TypeOK /\ SpawnedOnce /\ OldInv /\ [Next]_vars => OldInv'
<1> SUFFICES ASSUME TypeOK, SpawnedOnce, OldInv, [Next]_vars, OldServes' PROVE OldInv'
  BY DEF OldInv
<1> USE DaemonAssumption DEF TypeOK, SpawnedOnce, BeforeSpawn, OldInv, OldServes, Serving, Daemons
<1>1. ASSUME NEW c \in Callers, CallerStep(c) PROVE OldInv'
  <2> USE DEF Go, pcFrame, checkFrame, daemonVars, pastVars, envVars
  <2>1. CASE ReadState(c)
    BY <2>1 DEF ReadState
  <2>2. CASE CheckHealth(c)
    BY <2>2 DEF CheckHealth, HealthCheck, Current
  <2>3. CASE RequestShutdown(c) \/ ShutdownLost(c)
    <3>1. UNCHANGED <<stateFile, seen, priorOld, doubted>> /\ pc[c] = "shutdown"
      BY <2>3 DEF RequestShutdown, ShutdownLost
    <3>2. pc' = [pc EXCEPT ![c] = "failed"] \/ pc' = [pc EXCEPT ![c] = "await"]
      BY <2>3 DEF RequestShutdown, ShutdownLost
    <3>3. dpc' = dpc \/ dpc' = [dpc EXCEPT ![seen[c]] = IF @ = "running" THEN "closing" ELSE @]
      BY <2>3 DEF RequestShutdown, ShutdownLost, Closed
    <3>4. OldServes
      BY <3>1, <3>3
    <3>. QED
      BY <3>1, <3>2, <3>3, <3>4
  <2>4. CASE AwaitExit(c)
    BY <2>4 DEF AwaitExit, HealthCheck
  <2>5. CASE RemoveState(c) \/ MakeLock(c) \/ WriteMarker(c) \/ MarkerFails(c) \/ CleanUp(c)
    BY <2>5 DEF RemoveState, MakeLock, WriteMarker, MarkerFails, CleanUp
  <2>6. CASE Spawn(c) \/ SpawnFails(c)
    BY <2>6 DEF Spawn, SpawnFails
  <2>7. CASE Peek(c) \/ StatLock(c) \/ LockVanished(c) \/ ReadMarkers(c) \/ RecoverMarker(c)
    BY <2>7 DEF Peek, HealthCheck, StatLock, LockVanished, ReadMarkers, RecoverMarker
  <2>8. CASE RecoverDir(c) \/ GiveUp(c) \/ GiveUpDir(c)
    BY <2>8 DEF RecoverDir, GiveUp, GiveUpDir
  <2>9. CASE Poll(c) \/ PollTimesOut(c) \/ CreateSession(c) \/ SessionLost(c)
    BY <2>9 DEF Poll, PollTimesOut, CreateSession, SessionLost
  <2>. QED
    BY <1>1, <2>1, <2>2, <2>3, <2>4, <2>5, <2>6, <2>7, <2>8, <2>9, Zenon DEF CallerStep
<1>2. ASSUME NEW d \in Daemons, DaemonStep(d) \/ Expire(d) \/ KillDaemon(d) \/ Signal(d)
      PROVE  OldInv'
  <2> USE DEF DaemonGo, dpcFrame, callerVars, pastVars, envVars
  <2>1. UNCHANGED <<pc, seen, priorOld, doubted>> /\ \A e \in Daemons \ {d} : dpc'[e] = dpc[e]
    BY <1>2 DEF DaemonStep, Expire, KillDaemon, Signal, Listen, Publish, PublishFails,
       ReleaseMarker, ReleaseDir, IdleClose, StopServer, Unpublish
  <2>2. dpc[d] # "off"
    BY <1>2, KillAssumption DEF DaemonStep, Expire, KillDaemon, Signal, Listen, Publish, PublishFails,
       ReleaseMarker, ReleaseDir, IdleClose, StopServer, Unpublish, CallerPC, DaemonPC, Ended
  <2>3. CASE d \in Callers
    BY <2>1, <2>2, <2>3
  <2>4. CASE d = Prior
    <3>1. OldServes /\ stateFile' = stateFile
      BY <1>2, <2>1, <2>4 DEF DaemonStep, Expire, KillDaemon, Signal, Listen, Publish,
         PublishFails, ReleaseMarker, ReleaseDir, IdleClose, StopServer, Unpublish
    <3>. QED
      BY <2>1, <2>4, <3>1
  <2>. QED
    BY <2>3, <2>4
<1>3. ASSUME NEW c \in Callers, KillCaller(c) PROVE OldInv'
  BY <1>3 DEF KillCaller, daemonVars, pastVars
<1>4. CASE Age \/ UNCHANGED vars
  BY <1>4 DEF Age, vars, callerVars, daemonVars, pastVars, envVars
<1>. QED
  BY <1>1, <1>2, <1>3, <1>4, Zenon DEF Next

\* Only a record with a daemon of another version is found at first.
LEMMA InitInv == Init => SpawnedOnce /\ LockInv /\ OldInv
<1> SUFFICES ASSUME Init PROVE SpawnedOnce /\ LockInv /\ OldInv
  OBVIOUS
<1> USE DaemonAssumption DEF Init, Daemons
<1>1. SpawnedOnce
  BY DEF SpawnedOnce, BeforeSpawn
<1>2. OldInv
  BY DEF OldInv, OldServes, Serving
<1>3. ASSUME ~everOld PROVE Young /\ Exclusive
  <2>1. ~oldDir /\ markers = {} /\ oldMarkers = {}
    <3>1. PICK left \in Leftovers : /\ lockDir = (left # "none") /\ oldDir = lockDir
                                    /\ everOld = lockDir
                                    /\ markers = IF left = "owned" THEN {Prior} ELSE {}
      BY Zenon
    <3>2. ~oldDir /\ left = "none"
      BY <1>3, <3>1, Zenon
    <3>. QED
      BY <3>1, <3>2
  <2>2. \A d \in Daemons : ~Holds(d)
    BY <2>1 DEF Holds
  <2>3. \A c \in Callers : ~Marked(c)
    BY DEF Marked, Starting
  <2>. QED
    BY <2>1, <2>2, <2>3 DEF Young, Exclusive
<1>. QED
  BY <1>1, <1>2, <1>3 DEF LockInv

-----------------------------------------------------------------------------
(* The lock.                                                               *)

\* What the steps of a caller do while no lock has been old.
LEMMA CallerLock ==
  ASSUME TypeOK, SpawnedOnce, Young, Exclusive, NEW c \in Callers, CallerStep(c)
  PROVE  Young' /\ Exclusive'
<1> USE DaemonAssumption DEF TypeOK, SpawnedOnce, BeforeSpawn, Young, Exclusive, Holds, Marked,
        Starting, Daemons, Go, pcFrame, checkFrame, lockVars, sightVars, daemonVars
<1>1. CASE ReadState(c) \/ CheckHealth(c)
  BY <1>1 DEF ReadState, CheckHealth
<1>2. CASE RequestShutdown(c) \/ ShutdownLost(c)
  BY <1>2 DEF RequestShutdown, ShutdownLost, Closed, Serving
<1>3. CASE AwaitExit(c) \/ RemoveState(c)
  BY <1>3 DEF AwaitExit, RemoveState
<1>4. CASE MakeLock(c)
  BY <1>4 DEF MakeLock
<1>5. CASE WriteMarker(c)
  BY <1>5 DEF WriteMarker
<1>6. CASE MarkerFails(c)
  BY <1>6 DEF MarkerFails
<1>7. CASE CleanUp(c)
  BY <1>7 DEF CleanUp
<1>8. CASE Spawn(c) \/ SpawnFails(c)
  BY <1>8 DEF Spawn, SpawnFails
<1>9. CASE Peek(c) \/ StatLock(c)
  BY <1>9 DEF Peek, StatLock
<1>10. CASE LockVanished(c) \/ ReadMarkers(c)
  BY <1>10 DEF LockVanished, ReadMarkers
<1>11. CASE RecoverMarker(c) \/ RecoverDir(c)
  BY <1>11 DEF RecoverMarker, RecoverDir
<1>12. CASE GiveUp(c)
  BY <1>12 DEF GiveUp, DropMarker
<1>13. CASE GiveUpDir(c)
  BY <1>13 DEF GiveUpDir, DropDir
<1>14. CASE Poll(c) \/ PollTimesOut(c) \/ CreateSession(c) \/ SessionLost(c)
  BY <1>14 DEF Poll, PollTimesOut, CreateSession, SessionLost
<1>. QED
  BY <1>1, <1>2, <1>3, <1>4, <1>5, <1>6, <1>7, <1>8, <1>9, <1>10, <1>11, <1>12, <1>13, <1>14,
     Zenon DEF CallerStep

\* The same for the steps of a daemon.
LEMMA DaemonLock ==
  ASSUME TypeOK, SpawnedOnce, Young, Exclusive, NEW d \in Daemons,
         DaemonStep(d) \/ Expire(d) \/ KillDaemon(d) \/ Signal(d)
  PROVE  Young' /\ Exclusive'
<1> USE DaemonAssumption DEF TypeOK, SpawnedOnce, BeforeSpawn, Young, Exclusive, Holds, Marked,
        Starting, Daemons, DaemonGo, dpcFrame, lockVars, callerVars, sightVars
<1>1. CASE Listen(d) \/ Publish(d) \/ PublishFails(d)
  BY <1>1 DEF Listen, Publish, PublishFails
<1>2. CASE IdleClose(d) \/ StopServer(d) \/ Unpublish(d)
  BY <1>2 DEF IdleClose, StopServer, Unpublish
<1>3. CASE ReleaseMarker(d)
  BY <1>3 DEF ReleaseMarker, DropMarker
<1>4. CASE ReleaseDir(d)
  BY <1>4 DEF ReleaseDir, DropDir
<1>5. CASE Expire(d) \/ KillDaemon(d) \/ Signal(d)
  BY <1>5 DEF Expire, KillDaemon, Signal
<1>. QED
  BY <1>1, <1>2, <1>3, <1>4, <1>5, Zenon DEF DaemonStep

LEMMA LockStep == TypeOK /\ SpawnedOnce /\ LockInv /\ [Next]_vars => LockInv'
<1> SUFFICES ASSUME TypeOK, SpawnedOnce, LockInv, [Next]_vars, ~everOld' PROVE Young' /\ Exclusive'
  BY DEF LockInv
<1>1. everOld' = everOld
  <2>1. ASSUME NEW c \in Callers, CallerStep(c) \/ KillCaller(c) PROVE everOld' = everOld
    BY <2>1 DEF CallerStep, KillCaller, ReadState, CheckHealth, RequestShutdown, ShutdownLost,
       AwaitExit, RemoveState, MakeLock, WriteMarker, MarkerFails, CleanUp, Spawn, SpawnFails, Peek, StatLock,
       LockVanished, ReadMarkers, RecoverMarker, RecoverDir, GiveUp, GiveUpDir, Poll, PollTimesOut,
       CreateSession, SessionLost, pcFrame, checkFrame, pastVars, envVars
  <2>2. ASSUME NEW d \in Daemons, DaemonStep(d) \/ Expire(d) \/ KillDaemon(d) \/ Signal(d)
        PROVE  everOld' = everOld
    BY <2>2 DEF DaemonStep, Expire, KillDaemon, Signal, Listen, Publish, PublishFails,
       ReleaseMarker, ReleaseDir, IdleClose, StopServer, Unpublish, dpcFrame, pastVars, envVars
  <2>. QED
    BY <2>1, <2>2 DEF Next, Age, vars, pastVars, envVars
<1>2. Young /\ Exclusive
  BY <1>1 DEF LockInv
<1>3. ASSUME NEW c \in Callers, KillCaller(c) PROVE Young' /\ Exclusive'
  BY <1>2, <1>3 DEF KillCaller, TypeOK, Young, Exclusive, Holds, Marked, Starting, lockVars,
     sightVars, daemonVars
<1>4. CASE UNCHANGED vars
  BY <1>2, <1>4 DEF vars, Young, Exclusive, Holds, Marked, Starting, lockVars, callerVars,
     sightVars, daemonVars
<1>. QED
  BY <1>2, <1>3, <1>4, CallerLock, DaemonLock DEF Next, Age

-----------------------------------------------------------------------------

LEMMA Invariance == Spec => []IInv
<1>1. Init => IInv
  BY InitTyped, InitInv DEF IInv
<1>2. IInv /\ [Next]_vars => IInv'
  BY NextTyped, SpawnedStep, LockStep, OldStep DEF IInv
<1>. QED
  BY <1>1, <1>2, PTL DEF Spec

\* One caller at a time starts a daemon, and holds the lock until it has been
\* published, as long as no lock was ever old (view.mjs, startDaemonCoordinated;
\* daemon-state.mjs, acquireStartupLock and releaseStartupLock).
THEOREM LockExcludesAlways == Spec => []LockExcludes
<1>1. IInv => LockExcludes
  BY DEF IInv, LockInv, Exclusive, Holds, Marked, Starting, OneStarter, LockExcludes, Daemons
<1>. QED
  BY <1>1, Invariance, PTL

\* No caller takes the lock or starts a daemon while one of another version
\* still serves, unless a request to it has failed or taken too long, so that it
\* was taken for dead (view.mjs, ensureDaemon).
THEOREM OldGoneFirstAlways == Spec => []OldGoneFirst
<1>1. IInv => OldGoneFirst
  BY DEF IInv, OldInv, OldServes, OldGoneFirst
<1>. QED
  BY <1>1, Invariance, PTL

-----------------------------------------------------------------------------
(* init, save and load: the invariant.                                     *)

\* Where the checkout stands: who has a HEAD has a local branch, and who has
\* registered the submodule has a revision of it.
Checkouts ==
  /\ StorageTypeOK
  /\ remote # 0 /\ (registered => recorded # 0)
  /\ place = "checkout" <=> head # 0
  /\ head # 0 <=> branch # 0
  /\ head # 0 => registered
  /\ attached => head = branch /\ head # 0

\* A commit has at least the notes of its ancestors, the working tree at least
\* those of HEAD.
Histories ==
  /\ \A r \in 1..Len(commits) :
       /\ r \in commits[r].past /\ commits[r].past \subseteq 1..Len(commits)
       /\ \A a \in commits[r].past : commits[a].text \subseteq commits[r].text
  /\ head # 0 => commits[head].text \subseteq text

\* The notes of the local branch and of the remote one.
Named == UNION {commits[r].text : r \in {branch, remote} \ {0}}

\* As long as nobody has committed without a branch, a branch has every note
\* that was ever committed.
Branches ==
  detached \/ /\ \A r \in 1..Len(commits) : commits[r].text \subseteq Named
              /\ saved \subseteq text \cup Named

\* What the last command has said, and what is committed while it is true.
Reports ==
  /\ phase \in {"ready", "commit", "push"} => said = "nothing"
  /\ phase = "layout" => said = "initialized"
  /\ place = "checkout" /\ (phase = "push" \/ said \in {"pushed", "not pushed"}) =>
       saved \subseteq commits[head].text \/ strayed
  /\ place = "checkout" /\ said = "pushed" => head \in commits[remote].past

\* The Deno runtime commits in a checkout only.
DenoModes ==
  /\ phase = "commit" => config = "submodule"
  /\ runtime = "deno" /\ config = "submodule" /\ phase \in {"ready", "commit"} =>
       place = "checkout"
  /\ runtime = "deno" => ~taken
  /\ start = "new" /\ registered => place = "checkout"
  /\ runtime = "deno" /\ start = "new" /\ config = "submodule" => registered

StInv ==
  Checkouts /\ Histories /\ Branches /\ SavedStays /\ Reports /\ DenoModes

-----------------------------------------------------------------------------
(* Types.                                                                  *)

CommitRecords == [text : SUBSET Notes, past : SUBSET Revs, full : BOOLEAN]

\* What the types say of revisions.
LEMMA RevisionTypes ==
  ASSUME Checkouts
  PROVE  /\ commits \in Seq(CommitRecords) /\ Len(commits) \in Nat /\ 1 \in 1..Len(commits)
         /\ \A r \in 1..Len(commits) : commits[r] \in CommitRecords
         /\ head \in 0..Len(commits) /\ branch \in 0..Len(commits)
         /\ remote \in 1..Len(commits) /\ recorded \in 0..Len(commits)
         /\ registered => recorded \in 1..Len(commits)
         /\ place = "checkout" => head \in 1..Len(commits) /\ branch \in 1..Len(commits)
<1>1. commits \in Seq(CommitRecords) /\ Len(commits) \in 1..MaxCommits
  BY DEF Checkouts, StorageTypeOK, CommitRecords
<1>2. /\ head \in 0..Len(commits) /\ branch \in 0..Len(commits)
      /\ remote \in 0..Len(commits) /\ recorded \in 0..Len(commits)
  BY DEF Checkouts, StorageTypeOK
<1>3. Len(commits) \in Nat /\ 1 \in 1..Len(commits)
  BY <1>1
<1>4. \A r \in 1..Len(commits) : commits[r] \in CommitRecords
  BY <1>1
<1> QED BY <1>1, <1>2, <1>3, <1>4 DEF Checkouts

\* The invariant holds at first.
LEMMA StInit == ASSUME StorageInit PROVE StInv
<1> DEFINE first == [text |-> {}, past |-> {1}, full |-> start = "clone"]
<1>1. commits = <<first>> /\ Len(commits) = 1 /\ commits[1] = first /\ first \in CommitRecords
  <2>1. commits = <<first>>
    BY DEF StorageInit
  <2>2. (start = "clone") \in BOOLEAN
    OBVIOUS
  <2>3. {1} \in SUBSET Revs /\ {} \in SUBSET Notes
    BY StorageAssumption DEF Revs, StorageAssumption
  <2>4. first \in CommitRecords
    BY <2>2, <2>3 DEF CommitRecords
  <2> QED BY <2>1, <2>4
<1>2. commits[1].text = {} /\ commits[1].past = {1}
  BY <1>1
<1> HIDE DEF first
<1>3. commits \in Seq(CommitRecords)
  BY <1>1
<1>4. /\ runtime \in Runtimes /\ start \in Projects
      /\ config \in {"none", "direct", "submodule"}
      /\ place = "absent" /\ files = "none" /\ text = {}
      /\ head = 0 /\ attached = FALSE /\ branch = 0 /\ remote = 1
      /\ recorded \in {0, 1} /\ staged = FALSE /\ phase = "idle" /\ said = "nothing"
      /\ saved = {} /\ strayed = FALSE /\ detached = FALSE /\ taken = FALSE /\ faults = 0
  BY DEF StorageInit
<1>5. /\ registered \in BOOLEAN
      /\ start = "new" => ~registered /\ config = "none"
      /\ registered => recorded = 1
  BY DEF StorageInit
<1>6. Len(commits) \in 1..MaxCommits /\ faults \in 0..MaxFaults
  BY <1>1, <1>4, StorageAssumption DEF StorageAssumption
<1>7. StorageTypeOK
  <2>1. /\ head \in 0..Len(commits) /\ branch \in 0..Len(commits)
        /\ remote \in 0..Len(commits) /\ recorded \in 0..Len(commits)
    BY <1>1, <1>4
  <2> QED BY <1>3, <1>4, <1>5, <1>6, <2>1 DEF StorageTypeOK, CommitRecords
<1>8. Checkouts
  BY <1>4, <1>5, <1>7 DEF Checkouts
<1>9. Histories
  BY <1>1, <1>2, <1>4 DEF Histories
<1>10. Branches
  BY <1>1, <1>2, <1>4 DEF Branches
<1> QED BY <1>4, <1>5, <1>8, <1>9, <1>10
        DEF StInv, SavedStays, SavedIsShown, Reports, DenoModes

\* What an update or a clone checks out is a revision, and with no HEAD there
\* is nothing in the directory that could be carried over.
CheckoutMoves(r, b) ==
  /\ r \in 1..Len(commits) /\ b \in BOOLEAN
  /\ head # r /\ (head = 0 => place = "absent")
  /\ Checkout(r, b)

\* What a working update leaves: HEAD where it was, or the recorded revision.
LEMMA UpdateMoves ==
  ASSUME Checkouts, registered, UpdateWorks
  PROVE  (NoCheckout /\ place = "checkout") \/ CheckoutMoves(recorded, FALSE)
<1>1. recorded \in 1..Len(commits)
  BY RevisionTypes
<1>2. CASE place = "checkout" /\ head = recorded
  BY <1>2 DEF UpdateWorks
<1>3. CASE ~(place = "checkout" /\ head = recorded)
  <2>1. Checkout(recorded, FALSE) /\ place \in {"absent", "checkout"}
    BY <1>3 DEF UpdateWorks
  <2>2. head # recorded /\ (head = 0 => place = "absent")
    BY <1>1, <1>3, <2>1 DEF Checkouts
  <2> QED BY <1>1, <2>1, <2>2 DEF CheckoutMoves
<1> QED BY <1>2, <1>3

\* A submodule is added where nothing was, and HEAD is the remote branch.
LEMMA AddMoves ==
  ASSUME Checkouts, AddWorks
  PROVE  head = 0 /\ CheckoutMoves(remote, TRUE)
<1>1. remote \in 1..Len(commits) /\ place = "absent" /\ head = 0
  BY RevisionTypes DEF Checkouts, StorageTypeOK, AddWorks
<1>2. Checkout(remote, TRUE)
  BY DEF AddWorks
<1>3. TRUE \in BOOLEAN /\ head # remote
  BY <1>1
<1> QED BY <1>1, <1>2, <1>3, Zenon DEF CheckoutMoves

\* Typing a checkout.
LEMMA CheckoutTyped ==
  ASSUME Checkouts, NEW r, NEW b, CheckoutMoves(r, b)
  PROVE  /\ place' = "checkout" /\ head' = r /\ attached' = b
         /\ commits' = commits /\ remote' = remote
         /\ text' \subseteq Notes /\ files' \in {"none", "map", "all"}
         /\ branch' \in 1..Len(commits) /\ branch' = (IF head = 0 THEN remote ELSE branch)
         /\ attached' \in BOOLEAN /\ strayed' \in BOOLEAN
<1> USE DEF CheckoutMoves
<1>1. /\ place' = "checkout" /\ head' = r /\ attached' = b
      /\ commits' = commits /\ remote' = remote
  BY DEF Checkout
<1>2. \A q \in 1..Len(commits) : commits[q].text \subseteq Notes
  BY RevisionTypes DEF CommitRecords
<1>3. text' \subseteq Notes
  BY <1>2 DEF Checkout, Unsaved, Checkouts, StorageTypeOK
<1>4. files' \in {"none", "map", "all"}
  BY DEF Checkout, Checkouts, StorageTypeOK
<1>5. branch' \in 1..Len(commits) /\ branch' = (IF head = 0 THEN remote ELSE branch)
  BY RevisionTypes DEF Checkout, Checkouts
<1>6. attached' \in BOOLEAN /\ strayed' \in BOOLEAN
  BY DEF Checkout
<1> QED BY <1>1, <1>3, <1>4, <1>5, <1>6

-----------------------------------------------------------------------------
(* What a step does to the handoff repository and to the working tree.     *)

\* Nothing to the repository; a directory may be made, notes be written, and
\* what is in the working tree be reported saved.
Stays ==
  /\ UNCHANGED <<commits, head, attached, branch, remote, strayed, detached>>
  /\ place' = place \/ (place = "absent" /\ place' = "plain")
  /\ files' \in {"none", "map", "all"}
  /\ text \subseteq text' /\ text' \subseteq Notes
  /\ place' = "absent" => files' = files /\ text' = text
  /\ saved' = saved \/ saved' = saved \cup text
  /\ registered' = registered /\ (recorded' = recorded \/ (recorded' = head /\ head # 0))

\* A revision is checked out.
Moves ==
  /\ \/ head = 0 /\ CheckoutMoves(remote, TRUE) /\ registered' = TRUE /\ recorded' = remote
     \/ CheckoutMoves(recorded, FALSE) /\ registered /\ UNCHANGED <<registered, recorded>>
  /\ saved' = saved /\ detached' = detached

\* A save commits.
Commits ==
  /\ phase = "commit" /\ place = "checkout" /\ Len(commits) < MaxCommits
  /\ commits' = Append(commits, [text |-> text, full |-> TRUE,
                    past |-> commits[head].past \cup {Len(commits) + 1}])
  /\ head' = Len(commits) + 1
  /\ branch' = IF attached THEN Len(commits) + 1 ELSE branch
  /\ detached' = (detached \/ ~attached)
  /\ UNCHANGED <<place, files, text, attached, remote, strayed, saved, registered, recorded>>

\* A push arrives.
Pushes ==
  /\ phase = "push" /\ place = "checkout" /\ attached
  /\ remote \in commits[head].past /\ remote' = head
  /\ UNCHANGED <<place, files, text, commits, head, attached, branch, strayed, detached,
                 saved, registered, recorded>>

\* A collaborator commits, pushes and records.
Pulls ==
  /\ registered /\ Len(commits) < MaxCommits
  /\ commits' = Append(commits, [text |-> commits[remote].text, full |-> TRUE,
                    past |-> commits[remote].past \cup {Len(commits) + 1}])
  /\ remote' = Len(commits) + 1 /\ recorded' = Len(commits) + 1
  /\ UNCHANGED <<place, files, text, head, attached, branch, strayed, detached, saved,
                 registered>>

\* Before a save and in a load: the update of a submodule, or mkdir.
LEMMA EnsureMoves ==
  ASSUME Checkouts, NEW p \in {"ready", "idle"}, phase = "idle", Ensure(p)
  PROVE  /\ \/ NoCheckout
            \/ /\ config = "direct" /\ place = "absent" /\ place' = "plain"
               /\ UNCHANGED <<git, text, files, strayed>>
            \/ registered /\ CheckoutMoves(recorded, FALSE)
         /\ \/ /\ phase' = p /\ said' = "nothing"
               /\ runtime = "deno" /\ config = "submodule" => place' = "checkout"
            \/ phase' = phase /\ said' = "failed"
         /\ faults' \in 0..MaxFaults
<1>1. faults \in 0..MaxFaults
  BY DEF Checkouts, StorageTypeOK
<1>2. CASE config = "direct"
  BY <1>1, <1>2 DEF Ensure, NoCheckout
<1>3. CASE config # "direct"
  <2>1. CASE NoCheckout /\ said' = "failed" /\ UNCHANGED <<phase, faults>>
    BY <1>1, <2>1
  <2>2. CASE registered /\ UpdateWorks /\ phase' = p /\ said' = "nothing"
    <3>1. faults' = faults
      BY <2>2 DEF UpdateWorks
    <3>2. \/ NoCheckout /\ place = "checkout"
          \/ CheckoutMoves(recorded, FALSE)
      BY <2>2, UpdateMoves
    <3>3. place' = "checkout"
      BY <3>2 DEF NoCheckout, CheckoutMoves, Checkout
    <3> QED BY <1>1, <2>2, <3>1, <3>2, <3>3
  <2>3. CASE /\ registered /\ UpdateFails
             /\ IF runtime = "node" THEN phase' = p /\ said' = "nothing"
                                    ELSE said' = "failed" /\ UNCHANGED phase
    <3>1. NoCheckout /\ faults' \in 0..MaxFaults
      BY <1>1, <2>3, StorageAssumption DEF UpdateFails, Fault, StorageAssumption
    <3> QED BY <2>3, <3>1
  <2> QED BY <1>3, <2>1, <2>2, <2>3 DEF Ensure
<1> QED BY <1>2, <1>3

\* initSubmodule, and what initStorage makes of it.
LEMMA InitSubmoduleMoves ==
  ASSUME Checkouts, InitSubmodule
  PROVE  /\ \/ NoCheckout /\ UNCHANGED <<registered, recorded>>
            \/ /\ ~registered /\ registered' = TRUE /\ recorded' = remote
               /\ head = 0 /\ CheckoutMoves(remote, TRUE)
         /\ \/ config' = "submodule" /\ said' = "initialized" /\ phase' \in {"idle", "layout"}
               /\ (registered' \/ runtime = "node")
            \/ said' = "failed" /\ UNCHANGED <<config, phase>>
         /\ faults' \in 0..MaxFaults
<1>1. faults \in 0..MaxFaults
  BY DEF Checkouts, StorageTypeOK
<1>2. \/ config' = "submodule" /\ said' = "initialized" /\ phase' \in {"idle", "layout"}
         /\ (registered' \/ runtime = "node")
      \/ said' = "failed" /\ UNCHANGED <<config, phase>>
  BY DEF InitSubmodule, Layout
<1>3. CASE registered /\ NoCheckout /\ UNCHANGED <<registered, recorded, faults>>
  BY <1>1, <1>2, <1>3
<1>4. CASE ~registered /\ AddWorks
  <2>1. registered' = TRUE /\ recorded' = remote /\ faults' = faults
    BY <1>4 DEF AddWorks
  <2>2. head = 0 /\ CheckoutMoves(remote, TRUE)
    BY <1>4, AddMoves
  <2> QED BY <1>1, <1>2, <1>4, <2>1, <2>2
<1>5. CASE ~registered /\ AddFails
  BY <1>1, <1>2, <1>5, StorageAssumption DEF AddFails, Fault, StorageAssumption
<1> QED BY <1>3, <1>4, <1>5 DEF InitSubmodule

\* What an update or an init may do.
LEMMA MovesOrStays ==
  ASSUME Checkouts, UNCHANGED <<saved, detached, registered, recorded>>,
         \/ NoCheckout
         \/ /\ place = "absent" /\ place' = "plain"
            /\ UNCHANGED <<git, text, files, strayed>>
  PROVE  Stays
<1>1. text \subseteq Notes /\ files \in {"none", "map", "all"}
  BY DEF Checkouts, StorageTypeOK
<1>2. UNCHANGED <<commits, head, attached, branch, remote, strayed, detached, text, files, saved,
                registered, recorded>>
  BY DEF NoCheckout, git
<1>3. place' = place \/ (place = "absent" /\ place' = "plain")
  BY DEF NoCheckout
<1> QED BY <1>1, <1>2, <1>3 DEF Stays

\* Every step is one of these.
LEMMA Kinds ==
  ASSUME Checkouts, [StorageNext]_storageVars
  PROVE  Stays \/ Moves \/ Commits \/ Pushes \/ Pulls
<1> USE DEF git, history
<1>0. /\ text \subseteq Notes /\ files \in {"none", "map", "all"}
      /\ place = "checkout" => head # 0
      /\ place = "absent" => files = "none"
  BY DEF Checkouts, StorageTypeOK
<1>1. ASSUME InitDirect PROVE Stays
  BY <1>0, <1>1 DEF InitDirect, Stays
<1>2. ASSUME InitSubmodule PROVE Stays \/ Moves
  <2>1. UNCHANGED <<saved, detached>>
    BY <1>2 DEF InitSubmodule
  <2> QED BY <1>2, <2>1, InitSubmoduleMoves, MovesOrStays DEF Moves
<1>3. ASSUME WriteLayout PROVE Stays
  BY <1>0, <1>3 DEF WriteLayout, Stays
<1>4. ASSUME StartSave \/ Load PROVE Stays \/ Moves
  <2>1. /\ UNCHANGED <<saved, detached, registered, recorded>> /\ phase = "idle"
        /\ Ensure("ready") \/ Ensure("idle")
    BY <1>4 DEF StartSave, Load
  <2>2. PICK p \in {"ready", "idle"} : Ensure(p)
    BY <2>1
  <2>3. \/ NoCheckout
        \/ /\ place = "absent" /\ place' = "plain"
           /\ UNCHANGED <<git, text, files, strayed>>
        \/ registered /\ CheckoutMoves(recorded, FALSE)
    BY <2>1, <2>2, EnsureMoves
  <2> QED BY <2>1, <2>3, MovesOrStays DEF Moves
<1>5. ASSUME InstallRefused \/ CommitFails \/ PushFails \/ Kill PROVE Stays
  BY <1>0, <1>5 DEF InstallRefused, CommitFails, PushFails, Kill, Stays
<1>6. ASSUME Install PROVE Stays
  BY <1>0, <1>6 DEF Install, Stays
<1>7. ASSUME Commit PROVE Commits \/ Stays
  BY <1>0, <1>7 DEF Commit, Commits, Stays
<1>8. ASSUME Push PROVE Pushes \/ Stays
  BY <1>0, <1>8 DEF Push, Pushes, Stays
<1>9. ASSUME NEW n \in Notes, Edit(n) PROVE Stays
  BY <1>0, <1>9 DEF Edit, Stays
<1>10. ASSUME Record \/ Stage PROVE Stays
  BY <1>0, <1>10 DEF Record, Stage, Stays
<1>11. ASSUME Pull PROVE Pulls
  BY <1>11 DEF Pull, Pulls
<1>12. ASSUME UNCHANGED storageVars PROVE Stays
  BY <1>0, <1>12 DEF storageVars, Stays
<1> QED
  BY <1>1, <1>2, <1>3, <1>4, <1>5, <1>6, <1>7, <1>8, <1>9, <1>10, <1>11, <1>12
  DEF StorageNext, User

\* The types of what git does not touch.
LEMMA ControlTyped ==
  ASSUME Checkouts, [StorageNext]_storageVars
  PROVE  /\ runtime' \in Runtimes /\ start' \in Projects
         /\ config' \in {"none", "direct", "submodule"} /\ staged' \in BOOLEAN
         /\ phase' \in {"idle", "layout", "ready", "commit", "push"}
         /\ said' \in {"nothing", "initialized", "failed", "saved", "pushed",
                      "not pushed", "unchanged, pushed"}
         /\ taken' \in BOOLEAN /\ faults' \in 0..MaxFaults
<1> DEFINE T == /\ runtime \in Runtimes /\ start \in Projects
                /\ config \in {"none", "direct", "submodule"} /\ staged \in BOOLEAN
                /\ phase \in {"idle", "layout", "ready", "commit", "push"}
                /\ said \in {"nothing", "initialized", "failed", "saved", "pushed",
                             "not pushed", "unchanged, pushed"}
                /\ taken \in BOOLEAN /\ faults \in 0..MaxFaults
<1>0. T
  BY DEF Checkouts, StorageTypeOK
<1> SUFFICES T'
  OBVIOUS
<1> USE DEF history
<1>1. ASSUME InitDirect PROVE T'
  BY <1>0, <1>1 DEF InitDirect, Layout
<1>2. ASSUME InitSubmodule PROVE T'
  <2>1. UNCHANGED <<runtime, start, staged, taken>>
    BY <1>2 DEF InitSubmodule
  <2> QED BY <1>0, <1>2, <2>1, InitSubmoduleMoves
<1>3. ASSUME WriteLayout PROVE T'
  BY <1>0, <1>3 DEF WriteLayout
<1>4. ASSUME StartSave \/ Load PROVE T'
  <2>1. UNCHANGED <<runtime, start, config, staged, taken>> /\ phase = "idle"
    BY <1>4 DEF StartSave, Load
  <2>2. PICK p \in {"ready", "idle"} : Ensure(p)
    BY <1>4 DEF StartSave, Load
  <2> QED BY <1>0, <2>1, <2>2, EnsureMoves
<1>5. ASSUME InstallRefused \/ CommitFails \/ PushFails \/ Kill PROVE T'
  <2>1. faults' = faults \/ Fault
    BY <1>5 DEF InstallRefused, CommitFails, PushFails, Kill
  <2>2. faults' \in 0..MaxFaults
    <3>1. faults \in 0..MaxFaults /\ MaxFaults \in Nat
      BY <1>0, StorageAssumption DEF StorageAssumption
    <3> QED BY <2>1, <3>1 DEF Fault
  <2> QED BY <1>0, <1>5, <2>2 DEF InstallRefused, CommitFails, PushFails, Kill
<1>6. ASSUME Install PROVE T'
  BY <1>0, <1>6 DEF Install
<1>7. ASSUME Commit PROVE T'
  BY <1>0, <1>7 DEF Commit
<1>8. ASSUME Push PROVE T'
  BY <1>0, <1>8 DEF Push
<1>9. ASSUME NEW n \in Notes, Edit(n) PROVE T'
  BY <1>0, <1>9 DEF Edit
<1>10. ASSUME Record \/ Stage \/ Pull PROVE T'
  BY <1>0, <1>10 DEF Record, Stage, Pull
<1>11. ASSUME UNCHANGED storageVars PROVE T'
  BY <1>0, <1>11 DEF storageVars
<1> QED
  BY <1>1, <1>2, <1>3, <1>4, <1>5, <1>6, <1>7, <1>8, <1>9, <1>10, <1>11
  DEF StorageNext, User

\* Typing one more commit.
LEMMA AppendTyped ==
  ASSUME Checkouts, Len(commits) < MaxCommits,
         NEW r \in 1..Len(commits), NEW t \in SUBSET Notes,
         commits' = Append(commits, [text |-> t, full |-> TRUE,
                      past |-> commits[r].past \cup {Len(commits) + 1}])
  PROVE  /\ commits' \in Seq(CommitRecords) /\ Len(commits') = Len(commits) + 1
         /\ Len(commits') \in 1..MaxCommits
         /\ \A q \in 1..Len(commits) : commits'[q] = commits[q]
         /\ commits'[Len(commits) + 1].text = t
         /\ commits'[Len(commits) + 1].past = commits[r].past \cup {Len(commits) + 1}
<1> DEFINE new == [text |-> t, full |-> TRUE, past |-> commits[r].past \cup {Len(commits) + 1}]
<1>1. commits \in Seq(CommitRecords) /\ Len(commits) \in Nat /\ commits[r] \in CommitRecords
  BY RevisionTypes
<1>2. Len(commits) + 1 \in Revs
  BY <1>1, StorageAssumption DEF Revs, StorageAssumption
<1>3. new \in CommitRecords
  BY <1>1, <1>2 DEF CommitRecords
<1>4. new.text = t /\ new.past = commits[r].past \cup {Len(commits) + 1}
  OBVIOUS
<1> HIDE DEF new
<1>5. commits' = Append(commits, new)
  BY DEF new
<1>6. Len(commits) + 1 \in 1..MaxCommits
  BY <1>1, StorageAssumption DEF StorageAssumption
<1> QED BY <1>1, <1>3, <1>4, <1>5, <1>6

\* The checkout has a HEAD and a branch, whatever the step.
LEMMA CheckoutsHold ==
  ASSUME Checkouts, Histories, [StorageNext]_storageVars
  PROVE  Checkouts'
<1>0. /\ commits \in Seq(CommitRecords) /\ Len(commits) \in 1..MaxCommits /\ Len(commits) \in Nat
      /\ head \in 0..Len(commits) /\ branch \in 0..Len(commits)
      /\ remote \in 1..Len(commits) /\ recorded \in 0..Len(commits)
      /\ attached \in BOOLEAN /\ registered \in BOOLEAN
      /\ strayed \in BOOLEAN /\ detached \in BOOLEAN
      /\ text \subseteq Notes /\ saved \subseteq Notes
      /\ files \in {"none", "map", "all"} /\ place \in {"absent", "plain", "checkout"}
      /\ place = "absent" => files = "none" /\ text = {} /\ head = 0
  BY RevisionTypes DEF Checkouts, StorageTypeOK
<1>1. SUFFICES
        /\ commits' \in Seq(CommitRecords) /\ Len(commits') \in 1..MaxCommits
        /\ head' \in 0..Len(commits') /\ branch' \in 0..Len(commits')
        /\ remote' \in 0..Len(commits') /\ remote' # 0 /\ recorded' \in 0..Len(commits')
        /\ attached' \in BOOLEAN /\ registered' \in BOOLEAN
        /\ strayed' \in BOOLEAN /\ detached' \in BOOLEAN
        /\ text' \subseteq Notes /\ saved' \subseteq Notes
        /\ files' \in {"none", "map", "all"} /\ place' \in {"absent", "plain", "checkout"}
        /\ place' = "absent" => files' = "none" /\ text' = {} /\ head' = 0
        /\ registered' => recorded' # 0
        /\ place' = "checkout" <=> head' # 0
        /\ head' # 0 <=> branch' # 0
        /\ head' # 0 => registered'
        /\ attached' => head' = branch' /\ head' # 0
  <2>1. StorageTypeOK'
    BY <1>1, ControlTyped, Zenon DEF StorageTypeOK, CommitRecords
  <2> QED BY <1>1, <2>1, Zenon DEF Checkouts
<1>2. CASE Stays
  BY <1>0, <1>2 DEF Stays, Checkouts
<1>3. CASE Moves
  <2>1. PICK r \in 1..Len(commits), b \in BOOLEAN : CheckoutMoves(r, b)
    BY <1>3, Zenon DEF Moves, CheckoutMoves
  <2>2. /\ place' = "checkout" /\ head' = r /\ commits' = commits /\ remote' = remote
        /\ text' \subseteq Notes /\ files' \in {"none", "map", "all"}
        /\ branch' \in 1..Len(commits) /\ branch' = (IF head = 0 THEN remote ELSE branch)
        /\ attached' \in BOOLEAN /\ strayed' \in BOOLEAN
    BY <2>1, CheckoutTyped
  <2>3. saved' = saved /\ detached' \in BOOLEAN
    BY <1>0, <1>3 DEF Moves
  <2>4. /\ registered' \in BOOLEAN /\ registered' /\ recorded' \in 1..Len(commits)
        /\ attached' => head = 0 /\ r = remote
    <3>1. CASE head = 0 /\ CheckoutMoves(remote, TRUE) /\ registered' = TRUE /\ recorded' = remote
      <4>1. head' = remote
        BY <3>1 DEF CheckoutMoves, Checkout
      <4> QED BY <1>0, <2>2, <3>1, <4>1
    <3>2. CASE CheckoutMoves(recorded, FALSE) /\ registered /\ UNCHANGED <<registered, recorded>>
      <4>1. ~attached'
        BY <3>2 DEF CheckoutMoves, Checkout
      <4>2. recorded \in 1..Len(commits)
        BY <3>2 DEF CheckoutMoves
      <4> QED BY <1>0, <3>2, <4>1, <4>2
    <3> QED BY <1>3, <3>1, <3>2 DEF Moves
  <2> QED BY <1>0, <2>2, <2>3, <2>4
<1>4. CASE Commits
  <2>1. head \in 1..Len(commits)
    BY <1>4, RevisionTypes DEF Commits
  <2>2. commits' \in Seq(CommitRecords) /\ Len(commits') \in 1..MaxCommits /\ Len(commits') = Len(commits) + 1
    BY <1>0, <1>4, <2>1, AppendTyped DEF Commits
  <2> QED BY <1>0, <1>4, <2>1, <2>2 DEF Commits, Checkouts
<1>5. CASE Pushes
  BY <1>0, <1>5, RevisionTypes DEF Pushes, Checkouts
<1>6. CASE Pulls
  <2>1. commits[remote].text \subseteq Notes
    BY RevisionTypes DEF CommitRecords
  <2>2. commits' \in Seq(CommitRecords) /\ Len(commits') \in 1..MaxCommits /\ Len(commits') = Len(commits) + 1
    BY <1>0, <1>6, <2>1, AppendTyped DEF Pulls
  <2> QED BY <1>0, <1>6, <2>1, <2>2 DEF Pulls, Checkouts
<1> QED BY <1>2, <1>3, <1>4, <1>5, <1>6, Kinds

-----------------------------------------------------------------------------
(* Histories and branches.                                                 *)

\* More commits, another HEAD: texts still grow along a history.
LEMMA HistoriesHold ==
  ASSUME Checkouts, Histories, [StorageNext]_storageVars
  PROVE  Histories'
<1> USE RevisionTypes
<1>1. CASE Stays
  <2>1. commits' = commits /\ head' = head /\ text \subseteq text'
    BY <1>1 DEF Stays
  <2> QED BY <2>1 DEF Histories
<1>2. CASE Moves
  <2>1. PICK r \in 1..Len(commits), b \in BOOLEAN : CheckoutMoves(r, b)
    BY <1>2, Zenon DEF Moves, CheckoutMoves
  <2>2. commits' = commits /\ head' = r /\ commits[r].text \subseteq text'
    BY <2>1 DEF CheckoutMoves, Checkout
  <2> QED BY <2>2 DEF Histories
<1>3. CASE Commits \/ Pulls
  <2>1. PICK r \in 1..Len(commits), t \in SUBSET Notes :
          /\ Len(commits) < MaxCommits /\ commits[r].text \subseteq t
          /\ commits' = Append(commits, [text |-> t, full |-> TRUE,
                            past |-> commits[r].past \cup {Len(commits) + 1}])
          /\ \/ head' = head
             \/ head' = Len(commits) + 1 /\ t = text
          /\ text' = text
    <3>1. CASE Commits
      <4>1. head \in 1..Len(commits) /\ text \in SUBSET Notes /\ commits[head].text \subseteq text
        BY <3>1 DEF Commits, Histories, Checkouts, StorageTypeOK
      <4> QED BY <3>1, <4>1 DEF Commits
    <3>2. CASE Pulls
      <4>1. commits[remote].text \in SUBSET Notes
        BY DEF CommitRecords
      <4> QED BY <3>2, <4>1 DEF Pulls
    <3> QED BY <1>3, <3>1, <3>2
  <2> DEFINE n == Len(commits) + 1
  <2>2. /\ Len(commits') = n
        /\ \A q \in 1..Len(commits) : commits'[q] = commits[q]
        /\ commits'[n].text = t /\ commits'[n].past = commits[r].past \cup {n}
    BY <2>1, AppendTyped
  <2>3. \A q \in 1..Len(commits') : q = n \/ q \in 1..Len(commits)
    BY <2>2
  <2>4. n \in 1..Len(commits') /\ n \notin 1..Len(commits) /\ 1..Len(commits) \subseteq 1..Len(commits')
    BY <2>2
  <2>5. ASSUME NEW q \in 1..Len(commits)
        PROVE  /\ q \in commits'[q].past /\ commits'[q].past \subseteq 1..Len(commits')
               /\ \A a \in commits'[q].past : commits'[a].text \subseteq commits'[q].text
    BY <2>2, <2>4 DEF Histories
  <2>6. /\ n \in commits'[n].past /\ commits'[n].past \subseteq 1..Len(commits')
        /\ \A a \in commits'[n].past : commits'[a].text \subseteq commits'[n].text
    <3>1. commits[r].past \subseteq 1..Len(commits)
          /\ \A a \in commits[r].past : commits[a].text \subseteq commits[r].text
      BY DEF Histories
    <3> QED BY <2>1, <2>2, <2>4, <3>1
  <2>7. head' # 0 => commits'[head'].text \subseteq text'
    BY <2>1, <2>2 DEF Histories
  <2> HIDE DEF n
  <2> QED BY <2>3, <2>5, <2>6, <2>7 DEF Histories
<1>4. CASE Pushes
  BY <1>4 DEF Pushes, Histories
<1> QED BY <1>1, <1>2, <1>3, <1>4, Kinds

\* The notes that a branch has.
LEMMA NamedBy ==
  ASSUME Checkouts
  PROVE  /\ commits[remote].text \subseteq Named
         /\ branch # 0 => commits[branch].text \subseteq Named
         /\ \A note : note \in Named =>
              note \in commits[remote].text \/ (branch # 0 /\ note \in commits[branch].text)
BY DEF Named, Checkouts

\* A note that leaves the tree in a checkout is on a branch; a push, or one
\* more commit on a branch, leaves nothing of it behind.
LEMMA BranchesHold ==
  ASSUME Checkouts, Checkouts', Histories, Branches, [StorageNext]_storageVars
  PROVE  Branches'
<1> USE RevisionTypes
<1> SUFFICES ASSUME ~detached'
             PROVE  /\ \A r \in 1..Len(commits') : commits'[r].text \subseteq Named'
                    /\ saved' \subseteq text' \cup Named'
  BY DEF Branches
<1>0. detached \in BOOLEAN /\ attached \in BOOLEAN
  BY DEF Checkouts, StorageTypeOK
<1>1. CASE Stays
  <2>1. /\ UNCHANGED <<commits, branch, remote, detached>>
        /\ text \subseteq text' /\ saved' \subseteq saved \cup text
    BY <1>1 DEF Stays
  <2>2. Named' = Named
    BY <2>1 DEF Named
  <2> QED BY <2>1, <2>2 DEF Branches
<1>2. CASE Moves
  <2>1. PICK r \in 1..Len(commits), b \in BOOLEAN : CheckoutMoves(r, b)
    BY <1>2, Zenon DEF Moves, CheckoutMoves
  <2>2. /\ commits' = commits /\ remote' = remote
        /\ branch' = IF head = 0 THEN remote ELSE branch
        /\ saved' = saved /\ detached' = detached
    BY <1>2, <2>1 DEF Moves, CheckoutMoves, Checkout
  <2>3. Named' = Named
    <3>1. CASE head = 0
      BY <2>2, <3>1 DEF Named, Checkouts
    <3>2. CASE head # 0
      BY <2>2, <3>2 DEF Named
    <3> QED BY <3>1, <3>2
  <2>4. text \subseteq text' \cup Named
    <3>1. CASE head = 0
      BY <2>1, <3>1 DEF CheckoutMoves, Checkouts, StorageTypeOK
    <3>2. CASE head # 0
      <4>1. text \ commits[head].text \subseteq text'
        BY <2>1, <3>2 DEF CheckoutMoves, Checkout, Unsaved
      <4>2. commits[head].text \subseteq Named
        BY <2>2, <3>2 DEF Branches
      <4> QED BY <4>1, <4>2
    <3> QED BY <3>1, <3>2
  <2> QED BY <2>2, <2>3, <2>4 DEF Branches
<1>3. CASE Commits
  <2>1. ~detached /\ attached
    BY <1>0, <1>3 DEF Commits
  <2> DEFINE n == Len(commits) + 1
  <2>2. /\ head \in 1..Len(commits) /\ head = branch /\ branch' = n /\ remote' = remote
        /\ text' = text /\ saved' = saved
    BY <1>3, <2>1 DEF Commits, Checkouts
  <2>3. /\ Len(commits') = n
        /\ \A q \in 1..Len(commits) : commits'[q] = commits[q]
        /\ commits'[n].text = text
    <3>1. text \in SUBSET Notes
      BY DEF Checkouts, StorageTypeOK
    <3> QED BY <1>3, <2>2, <3>1, AppendTyped DEF Commits
  <2>4. commits'[n].text \subseteq Named' /\ commits'[remote].text \subseteq Named'
    BY <2>2, <2>3 DEF Named
  <2>5. commits[branch].text \subseteq text
    BY <2>2 DEF Histories
  <2>6. Named \subseteq Named'
    BY <2>2, <2>3, <2>4, <2>5, NamedBy
  <2>7. \A q \in 1..Len(commits') : q = n \/ q \in 1..Len(commits)
    BY <2>3
  <2> HIDE DEF n
  <2> QED BY <2>1, <2>2, <2>3, <2>4, <2>6, <2>7 DEF Branches
<1>4. CASE Pushes
  <2>1. /\ UNCHANGED <<commits, branch, text, saved, detached>> /\ remote' = head
        /\ head = branch /\ head \in 1..Len(commits) /\ remote \in commits[head].past
    BY <1>4 DEF Pushes, Checkouts
  <2>2. commits[remote].text \subseteq commits[head].text
    BY <2>1 DEF Histories
  <2>3. commits[head].text \subseteq Named'
    BY <2>1 DEF Named
  <2>4. Named \subseteq Named'
    BY <2>1, <2>2, <2>3, NamedBy
  <2> QED BY <2>1, <2>4 DEF Branches
<1>5. CASE Pulls
  <2> DEFINE n == Len(commits) + 1
  <2>1. remote' = n /\ UNCHANGED <<branch, text, saved, detached>>
    BY <1>5 DEF Pulls
  <2>2. /\ Len(commits') = n
        /\ \A q \in 1..Len(commits) : commits'[q] = commits[q]
        /\ commits'[n].text = commits[remote].text
    <3>1. commits[remote].text \in SUBSET Notes
      BY DEF CommitRecords
    <3> QED BY <1>5, <3>1, AppendTyped DEF Pulls
  <2>3. commits'[n].text \subseteq Named' /\ (branch # 0 => commits'[branch].text \subseteq Named')
    BY <2>1, <2>2 DEF Named
  <2>4. Named \subseteq Named'
    BY <2>1, <2>2, <2>3, NamedBy
  <2>5. \A q \in 1..Len(commits') : q = n \/ q \in 1..Len(commits)
    BY <2>2
  <2> HIDE DEF n
  <2> QED BY <2>1, <2>2, <2>3, <2>4, <2>5, NamedBy DEF Branches
<1> QED BY <1>1, <1>2, <1>3, <1>4, <1>5, Kinds

\* Saved notes leave the working tree by another checkout only.
LEMMA SavedStaysHolds ==
  ASSUME Checkouts, SavedStays, [StorageNext]_storageVars
  PROVE  SavedStays'
<1> USE DEF SavedStays, SavedIsShown
<1>1. CASE Stays
  BY <1>1 DEF Stays
<1>2. CASE Moves
  <2>1. PICK r \in 1..Len(commits), b \in BOOLEAN : CheckoutMoves(r, b)
    BY <1>2, RevisionTypes, Zenon DEF Moves, CheckoutMoves
  <2>2. saved' = saved
    BY <1>2 DEF Moves
  <2>3. CASE head = 0
    <3>1. text = {}
      BY <2>1, <2>3 DEF CheckoutMoves, Checkouts, StorageTypeOK
    <3>2. strayed' = (strayed \/ head \notin {0, r})
      BY <2>1 DEF CheckoutMoves, Checkout
    <3> QED BY <2>2, <3>1, <3>2
  <2>4. CASE head # 0
    <3>1. strayed'
      BY <2>1, <2>4 DEF CheckoutMoves, Checkout
    <3> QED BY <3>1
  <2> QED BY <2>3, <2>4
<1>3. CASE Commits \/ Pushes \/ Pulls
  BY <1>3 DEF Commits, Pushes, Pulls
<1> QED BY <1>1, <1>2, <1>3, Kinds

-----------------------------------------------------------------------------
(* What the commands say, and where the Deno runtime commits.              *)

\* A report is true when it is made, and no later step but a command takes away
\* what it says.
LEMMA ReportsHold ==
  ASSUME Checkouts, Checkouts', Histories, Histories', SavedStays,
         Reports, [StorageNext]_storageVars
  PROVE  Reports'
<1> USE DEF git, history
<1>1. ASSUME InitDirect PROVE Reports'
  BY <1>1 DEF InitDirect, Layout, Reports
<1>2. ASSUME InitSubmodule PROVE Reports'
  <2>1. said' \in {"initialized", "failed"} /\ (phase' = phase \/ said' = "initialized")
        /\ phase = "idle" /\ phase' \in {"idle", "layout"}
    BY <1>2, InitSubmoduleMoves DEF InitSubmodule
  <2>2. phase' = "layout" => said' = "initialized"
    BY <2>1
  <2> QED BY <2>1, <2>2 DEF Reports
<1>3. ASSUME WriteLayout PROVE Reports'
  BY <1>3 DEF WriteLayout, Reports
<1>4. ASSUME StartSave \/ Load PROVE Reports'
  <2>1. PICK p \in {"ready", "idle"} : Ensure(p) /\ phase = "idle"
    BY <1>4 DEF StartSave, Load
  <2>2. said' = "nothing" \/ (said' = "failed" /\ phase' = phase)
    BY <2>1, EnsureMoves
  <2>3. phase' \in {"ready", "idle"} /\ (phase' = "ready" => said' = "nothing")
    BY <2>1, EnsureMoves
  <2> QED BY <2>2, <2>3 DEF Reports
<1>5. ASSUME InstallRefused \/ CommitFails \/ Kill PROVE Reports'
  BY <1>5 DEF InstallRefused, CommitFails, Kill, Reports
<1>6. ASSUME Install PROVE Reports'
  BY <1>6 DEF Install, Reports
<1>7. ASSUME Commit PROVE Reports'
  <2>1. phase' = "push" /\ said' = "nothing" /\ place' = place /\ strayed' = strayed
        /\ saved' = saved /\ text' = text
    BY <1>7 DEF Commit, Reports
  <2>2. CASE place = "checkout"
    <3>1. commits'[head'].text = text
      <4>1. head \in 1..Len(commits) /\ text \in SUBSET Notes
        BY <2>2, RevisionTypes DEF Checkouts, StorageTypeOK
      <4> QED BY <1>7, <2>2, <4>1, AppendTyped DEF Commit
    <3> QED BY <2>1, <3>1 DEF Reports, SavedStays, SavedIsShown
  <2>3. CASE place # "checkout"
    BY <2>1, <2>3 DEF Reports
  <2> QED BY <2>2, <2>3
<1>8. ASSUME Push \/ PushFails PROVE Reports'
  <2>1. /\ phase' = "idle" /\ said' \in {"pushed", "not pushed"} /\ phase = "push"
        /\ UNCHANGED <<place, commits, head, saved, strayed>>
    BY <1>8 DEF Push, PushFails
  <2>2. place = "checkout" /\ said' = "pushed" => remote' = head
    BY <1>8 DEF Push, PushFails
  <2>3. place = "checkout" => head \in 1..Len(commits)
    BY RevisionTypes
  <2>4. place = "checkout" => head \in commits[head].past
    BY <2>3 DEF Histories
  <2> QED BY <2>1, <2>2, <2>4 DEF Reports
<1>9. ASSUME NEW n \in Notes, Edit(n) PROVE Reports'
  BY <1>9 DEF Edit, Reports
<1>10. ASSUME Record \/ Stage PROVE Reports'
  BY <1>10 DEF Record, Stage, Reports
<1>11. ASSUME Pull PROVE Reports'
  <2>1. /\ UNCHANGED <<phase, said, place, head, saved, strayed>> /\ phase = "idle"
        /\ remote' = Len(commits) + 1
    BY <1>11 DEF Pull
  <2>2. commits[remote].text \in SUBSET Notes
    BY RevisionTypes DEF CommitRecords
  <2>3. /\ \A q \in 1..Len(commits) : commits'[q] = commits[q]
        /\ commits'[remote'].past = commits[remote].past \cup {Len(commits) + 1}
    BY <1>11, <2>1, <2>2, RevisionTypes, AppendTyped DEF Pull
  <2>4. place = "checkout" => commits'[head] = commits[head]
    BY <2>3, RevisionTypes
  <2> QED BY <2>1, <2>3, <2>4 DEF Reports
<1>12. ASSUME UNCHANGED storageVars PROVE Reports'
  BY <1>12 DEF storageVars, Reports
<1> QED
  BY <1>1, <1>2, <1>3, <1>4, <1>5, <1>6, <1>7, <1>8, <1>9, <1>10, <1>11, <1>12
  DEF StorageNext, User

\* The Deno runtime stops when its update or its add fails.
LEMMA DenoModesHold ==
  ASSUME Checkouts, DenoModes, [StorageNext]_storageVars
  PROVE  DenoModes'
<1> USE DEF git, history
<1>0. place' = "checkout" \/ place # "checkout"
  <2>1. CASE Stays \/ Commits \/ Pushes \/ Pulls
    BY <2>1 DEF Stays, Commits, Pushes, Pulls
  <2>2. CASE Moves
    BY <2>2 DEF Moves, CheckoutMoves, Checkout
  <2> QED BY <2>1, <2>2, Kinds
<1>1. ASSUME InitDirect PROVE DenoModes'
  BY <1>0, <1>1 DEF InitDirect, Layout, DenoModes
<1>2. ASSUME InitSubmodule PROVE DenoModes'
  <2>1. UNCHANGED <<runtime, start, taken>> /\ phase = "idle" /\ phase' \in {"idle", "layout"}
    BY <1>2, InitSubmoduleMoves DEF InitSubmodule
  <2>2. \/ config' = "submodule" /\ (registered' \/ runtime = "node")
        \/ config' = config
    BY <1>2, InitSubmoduleMoves
  <2>3. \/ registered' = registered
        \/ registered' = TRUE /\ place' = "checkout"
    BY <1>2, InitSubmoduleMoves DEF CheckoutMoves, Checkout
  <2>4. runtime' = "deno" /\ start' = "new" /\ config' = "submodule" => registered'
    BY <2>1, <2>2, <2>3 DEF DenoModes
  <2>5. start' = "new" /\ registered' => place' = "checkout"
    BY <1>0, <2>1, <2>3 DEF DenoModes
  <2> QED BY <2>1, <2>4, <2>5 DEF DenoModes
<1>3. ASSUME WriteLayout PROVE DenoModes'
  BY <1>0, <1>3 DEF WriteLayout, DenoModes
<1>4. ASSUME StartSave \/ Load PROVE DenoModes'
  <2>1. UNCHANGED <<runtime, start, config, registered, taken>>
    BY <1>4 DEF StartSave, Load
  <2>2. PICK p \in {"ready", "idle"} : Ensure(p) /\ phase = "idle"
    BY <1>4 DEF StartSave, Load
  <2>3. /\ phase' \in {"ready", "idle"}
        /\ phase' = "ready" /\ runtime = "deno" /\ config = "submodule" => place' = "checkout"
    BY <2>2, EnsureMoves
  <2> QED BY <1>0, <2>1, <2>3 DEF DenoModes
<1>5. ASSUME InstallRefused \/ CommitFails \/ PushFails \/ Kill PROVE DenoModes'
  <2>1. UNCHANGED <<runtime, start, config, registered, place, taken>> /\ phase' = "idle"
    BY <1>5 DEF InstallRefused, CommitFails, PushFails, Kill
  <2> QED BY <2>1 DEF DenoModes
<1>6. ASSUME Install PROVE DenoModes'
  BY <1>0, <1>6 DEF Install, DenoModes
<1>7. ASSUME Commit PROVE DenoModes'
  BY <1>7 DEF Commit, DenoModes
<1>8. ASSUME Push PROVE DenoModes'
  BY <1>8 DEF Push, DenoModes
<1>9. ASSUME NEW n \in Notes, Edit(n) PROVE DenoModes'
  BY <1>9 DEF Edit, DenoModes
<1>10. ASSUME Record \/ Stage \/ Pull PROVE DenoModes'
  BY <1>10 DEF Record, Stage, Pull, DenoModes
<1>11. ASSUME UNCHANGED storageVars PROVE DenoModes'
  BY <1>11 DEF storageVars, DenoModes
<1> QED
  BY <1>1, <1>2, <1>3, <1>4, <1>5, <1>6, <1>7, <1>8, <1>9, <1>10, <1>11
  DEF StorageNext, User

-----------------------------------------------------------------------------
(* The properties.                                                         *)

\* What the invariant says is what the runs check.
LEMMA StInvSafe == ASSUME StInv PROVE SavedSurvives /\ FailuresAreContained
<1> USE DEF StInv
<1>1. SavedIsNamed
  <2>1. Named \subseteq UNION {commits[r].text : r \in {branch, remote, recorded} \ {0}}
    BY DEF Named
  <2> QED BY <2>1, Zenon DEF Branches, SavedIsNamed
<1>2. SavedSurvives
  BY <1>1 DEF SavedSurvives, Checkouts
<1>3. ReportIsTrue
  BY DEF ReportIsTrue, Reports
<1>4. ParentUntouched /\ ConfigIsTruthful
  BY DEF ParentUntouched, ConfigIsTruthful, DenoModes
<1> QED BY <1>2, <1>3, <1>4 DEF FailuresAreContained

LEMMA StInvHolds == StorageSpec => []StInv
<1>1. StorageInit => StInv
  BY StInit
<1>2. StInv /\ [StorageNext]_storageVars => StInv'
  <2> SUFFICES ASSUME StInv, [StorageNext]_storageVars PROVE StInv'
    OBVIOUS
  <2> USE DEF StInv
  <2>1. Checkouts' /\ Histories'
    BY CheckoutsHold, HistoriesHold
  <2>2. Branches' /\ SavedStays'
    BY <2>1, BranchesHold, SavedStaysHolds
  <2>3. Reports' /\ DenoModes'
    BY <2>1, ReportsHold, DenoModesHold
  <2> QED BY <2>1, <2>2, <2>3
<1> QED BY <1>1, <1>2, PTL DEF StorageSpec

\* What a save has reported stays in the working tree until an update checks out
\* another revision, and on a branch or in the recorded revision until a save
\* commits on a detached HEAD (save.mjs, ensureSubmoduleReady; save.ts,
\* commitAndPushSubmodule).
THEOREM SavedSurvivesHolds == StorageSpec => []SavedSurvives
<1>1. StInv => SavedSurvives
  BY StInvSafe
<1> QED BY <1>1, StInvHolds, PTL

\* A save that says pushed, and not also that nothing has changed, has reached
\* the remote; the Deno runtime never commits the user's staged work in the
\* parent, nor leaves submodule mode without a
\* checkout behind an init that fails (save.ts, initStorage and
\* commitAndPushSubmodule; save.mjs, save).
THEOREM FailuresAreContainedHolds == StorageSpec => []FailuresAreContained
<1>1. StInv => FailuresAreContained
  BY StInvSafe
<1> QED BY <1>1, StInvHolds, PTL
=============================================================================
