---------------------------- MODULE AtomicWrite ----------------------------
(***************************************************************************)
(* writeFilesAtomically (scripts/views.mjs): the writer every save         *)
(* installs its files with.  A file k of the set has three paths:          *)
(*                                                                         *)
(*   final[k]      the file itself                                         *)
(*   temp[k]       its temporary sibling        (suffix .save-tmp)         *)
(*   rollback[k]   where its original is parked (suffix .save-rollback)    *)
(*                                                                         *)
(* Every await of the source is a step of its own, each of them may fail,  *)
(* and the process may be killed between any two of them.  Bytes are       *)
(* abstracted to the number of the call that produced them.  The same      *)
(* protocol, with other suffixes, is used by applyV3Migration              *)
(* (scripts/migrate-v3.mjs) and applyMigration (scripts/migrate.mjs).      *)
(***************************************************************************)
EXTENDS Integers

CONSTANTS
  N,        \* how many files one call writes
  MaxGen    \* bound: how many calls are made

ASSUME WriteAssumption == N \in Nat \ {0} /\ MaxGen \in Nat \ {0}

NoFile == 0             \* nothing is stored under this path
Torn   == -1            \* a file some of whose bytes are missing
Files  == 1..N
Bytes  == {NoFile, Torn} \cup 1..MaxGen

VARIABLES
  final, temp, rollback,
  gen,      \* the number of the current (or last) call
  before,   \* what final held when the call began
  pc,       \* where the call stands
  k,        \* the file the current loop has reached
  temps,    \* the files pushed on the source's temps list
  moved,    \* the replaced entries whose rollbackPath is set
  damaged   \* one of the steps that undo the call has failed

disk == <<final, temp, rollback>>
vars == <<final, temp, rollback, gen, before, pc, k, temps, moved, damaged>>

Busy == {"write", "verify", "swap", "install", "undo", "restore", "untemp"}
Rest == {"done", "failed", "crashed"}

TypeOK ==
  /\ final    \in [Files -> Bytes]
  /\ temp     \in [Files -> Bytes]
  /\ rollback \in [Files -> Bytes]
  /\ before   \in [Files -> Bytes]
  /\ gen \in 1..MaxGen
  /\ pc \in Busy \cup {"cleanup"} \cup Rest
  /\ k \in Files
  /\ temps \subseteq Files
  /\ moved \subseteq Files
  /\ damaged \in BOOLEAN

\* Some files exist from earlier saves, others are yet to be created.
Init ==
  /\ final \in [Files -> {NoFile, 1}]
  /\ temp = [f \in Files |-> NoFile]
  /\ rollback = [f \in Files |-> NoFile]
  /\ before = final
  /\ gen = 1
  /\ pc = "done"
  /\ k = 1
  /\ temps = {}
  /\ moved = {}
  /\ damaged = FALSE

\* The next call, in the same process or after a restart.
Begin ==
  /\ pc \in Rest
  /\ gen < MaxGen
  /\ gen' = gen + 1
  /\ before' = final
  /\ pc' = "write"
  /\ k' = 1
  /\ temps' = {}
  /\ moved' = {}
  /\ damaged' = FALSE
  /\ UNCHANGED disk

\* Go on with file k + 1 of this loop, or with the next loop after file N.
Advance(loop, nextLoop) ==
  IF k < N THEN k' = k + 1 /\ pc' = loop
           ELSE k' = 1     /\ pc' = nextLoop

\* The catch block: the entries pushed on `replaced` so far, the files
\* 1..last, are undone from the last to the first; then come the temps.
Throw(last) ==
  IF last > 0 THEN k' = last /\ pc' = "undo"
              ELSE k' = 1    /\ pc' = "untemp"

\* writeFile succeeds.
WriteTemp ==
  /\ pc = "write"
  /\ temp' = [temp EXCEPT ![k] = gen]
  /\ temps' = temps \cup {k}
  /\ Advance("write", "verify")
  /\ UNCHANGED <<final, rollback, gen, before, moved, damaged>>

\* writeFile reports success although some of the bytes are missing.
ShortWrite ==
  /\ pc = "write"
  /\ temp' = [temp EXCEPT ![k] = Torn]
  /\ temps' = temps \cup {k}
  /\ Advance("write", "verify")
  /\ UNCHANGED <<final, rollback, gen, before, moved, damaged>>

\* mkdir or writeFile throws: what writeFile had created stays behind, and
\* the file is not on the temps list.
WriteTempFails ==
  /\ pc = "write"
  /\ \E b \in {temp[k], Torn} : temp' = [temp EXCEPT ![k] = b]
  /\ Throw(0)
  /\ UNCHANGED <<final, rollback, gen, before, temps, moved, damaged>>

VerifyTemp ==
  /\ pc = "verify"
  /\ temp[k] = gen
  /\ Advance("verify", "swap")
  /\ UNCHANGED <<final, temp, rollback, gen, before, temps, moved, damaged>>

\* readFile throws, or the bytes differ from the ones written.
VerifyTempFails ==
  /\ pc = "verify"
  /\ Throw(0)
  /\ UNCHANGED <<final, temp, rollback, gen, before, temps, moved, damaged>>

VerifyTempDiffers == temp[k] # gen /\ VerifyTempFails

\* Mutant of ParkOriginal: the original is removed instead of parked.
ParkOriginalRemoves ==
  /\ pc = "swap"
  /\ final' = [final EXCEPT ![k] = NoFile]
  /\ moved' = IF final[k] = NoFile THEN moved ELSE moved \cup {k}
  /\ pc' = "install"
  /\ UNCHANGED <<temp, rollback, gen, before, k, temps, damaged>>

\* rename(final, rollback) if the file exists; either way it is pushed on
\* `replaced`.
ParkOriginal ==
  /\ pc = "swap"
  /\ IF final[k] = NoFile
       THEN UNCHANGED <<final, rollback, moved>>
       ELSE /\ rollback' = [rollback EXCEPT ![k] = final[k]]
            /\ final' = [final EXCEPT ![k] = NoFile]
            /\ moved' = moved \cup {k}
  /\ pc' = "install"
  /\ UNCHANGED <<temp, gen, before, k, temps, damaged>>

ParkOriginalFails ==
  /\ pc = "swap"
  /\ final[k] # NoFile
  /\ Throw(k - 1)
  /\ UNCHANGED <<final, temp, rollback, gen, before, temps, moved, damaged>>

\* rename(temp, final).  The last one is the commit point.
InstallTemp ==
  /\ pc = "install"
  /\ final' = [final EXCEPT ![k] = temp[k]]
  /\ temp' = [temp EXCEPT ![k] = NoFile]
  /\ Advance("swap", "cleanup")
  /\ UNCHANGED <<rollback, gen, before, temps, moved, damaged>>

\* Mutant of InstallTempFails: the entry is pushed after the second rename.
InstallTempFailsUnlisted ==
  /\ pc = "install"
  /\ Throw(k - 1)
  /\ UNCHANGED <<final, temp, rollback, gen, before, temps, moved, damaged>>

InstallTempFails ==
  /\ pc = "install"
  /\ Throw(k)
  /\ UNCHANGED <<final, temp, rollback, gen, before, temps, moved, damaged>>

\* Mutant of UndoneEntry: the first entry is left out.
UndoneEntrySkipsFirst ==
  IF k > 2 THEN k' = k - 1 /\ pc' = "undo"
           ELSE k' = 1     /\ pc' = "untemp"

\* The catch block's loop goes on with the entry before k.
UndoneEntry ==
  IF k > 1 THEN k' = k - 1 /\ pc' = "undo"
           ELSE k' = 1     /\ pc' = "untemp"

\* remove(final) if the file exists.
RemoveInstalled ==
  /\ pc = "undo"
  /\ final' = [final EXCEPT ![k] = NoFile]
  /\ IF k \in moved THEN pc' = "restore" /\ k' = k ELSE UndoneEntry
  /\ UNCHANGED <<temp, rollback, gen, before, temps, moved, damaged>>

\* rename(rollback, final).
RestoreOriginal ==
  /\ pc = "restore"
  /\ final' = [final EXCEPT ![k] = rollback[k]]
  /\ rollback' = [rollback EXCEPT ![k] = NoFile]
  /\ UndoneEntry
  /\ UNCHANGED <<temp, gen, before, temps, moved, damaged>>

\* remove or rename throws while undoing: the entry is given up.
UndoFails ==
  /\ \/ pc = "undo" /\ final[k] # NoFile
     \/ pc = "restore"
  /\ damaged' = TRUE
  /\ UndoneEntry
  /\ UNCHANGED <<final, temp, rollback, gen, before, temps, moved>>

\* Mutant of RemoveTemp: the temps of a failed call are left behind.
RemoveTempForgets ==
  /\ pc = "untemp"
  /\ Advance("untemp", "failed")
  /\ UNCHANGED <<final, temp, rollback, gen, before, temps, moved, damaged>>

\* remove(temp) for every file on the temps list.
RemoveTemp ==
  /\ pc = "untemp"
  /\ temp' = IF k \in temps THEN [temp EXCEPT ![k] = NoFile] ELSE temp
  /\ Advance("untemp", "failed")
  /\ UNCHANGED <<final, rollback, gen, before, temps, moved, damaged>>

\* The error is ignored.
RemoveTempFails ==
  /\ pc = "untemp"
  /\ k \in temps
  /\ UNCHANGED temp
  /\ Advance("untemp", "failed")
  /\ UNCHANGED <<final, rollback, gen, before, temps, moved, damaged>>

\* remove(rollback) for every parked original.
DropRollback ==
  /\ pc = "cleanup"
  /\ rollback' = IF k \in moved THEN [rollback EXCEPT ![k] = NoFile] ELSE rollback
  /\ Advance("cleanup", "done")
  /\ UNCHANGED <<final, temp, gen, before, temps, moved, damaged>>

\* The error is ignored.
DropRollbackFails ==
  /\ pc = "cleanup"
  /\ k \in moved
  /\ UNCHANGED rollback
  /\ Advance("cleanup", "done")
  /\ UNCHANGED <<final, temp, gen, before, temps, moved, damaged>>

\* The process is killed.  A write under way may leave part of its bytes; once
\* every rename is done the set is installed whatever happens.
Crash ==
  /\ pc \in Busy \cup {"cleanup"}
  /\ IF pc = "write"
       THEN \E b \in {temp[k], Torn} : temp' = [temp EXCEPT ![k] = b]
       ELSE UNCHANGED temp
  /\ pc' = IF pc = "cleanup" THEN "done" ELSE "crashed"
  /\ UNCHANGED <<final, rollback, gen, before, k, temps, moved, damaged>>

\* What the writer does when no call of the file system fails, and each kind
\* of failure it meets.
Progress ==
  \/ WriteTemp \/ VerifyTemp \/ VerifyTempDiffers \/ ParkOriginal \/ InstallTemp
  \/ RemoveInstalled \/ RestoreOriginal \/ RemoveTemp \/ DropRollback

WriteFault   == WriteTempFails \/ ShortWrite \/ VerifyTempFails
RenameFault  == ParkOriginalFails \/ InstallTempFails
CleanupFault == RemoveTempFails \/ DropRollbackFails

Work == Progress \/ WriteFault \/ RenameFault \/ UndoFails \/ CleanupFault

Next == Begin \/ Work \/ Crash

Spec == Init /\ [][Next]_vars

-----------------------------------------------------------------------------

(* Until the last rename is done the original of every file is still on    *)
(* the disk, under its own name or its rollback sibling: a kill, or a      *)
(* failure while undoing, never destroys what the files held.              *)
OriginalsKept ==
  pc \in Busy \cup {"failed", "crashed"} =>
    \A f \in Files : before[f] # NoFile => before[f] \in {final[f], rollback[f]}

(* An error that reaches the caller means no file has changed, unless a    *)
(* step of the undo failed too: "a failure before every rename completes   *)
(* restores originals byte-for-byte" (views.mjs).                          *)
FailureRestores ==
  pc = "failed" /\ ~damaged => final = before

(* Once the call has passed its last rename every file holds the new       *)
(* bytes, whether the cleanup succeeds, fails or is cut short.             *)
CommitIsComplete ==
  pc \in {"cleanup", "done"} /\ gen > 1 => \A f \in Files : final[f] = gen

(* No path of the set ever shows incomplete bytes, not even after a short  *)
(* write the file system did not report or a kill in the middle of one.    *)
NeverTorn ==
  \A f \in Files : final[f] # Torn

(* The writer implements the all-or-nothing promise.  During a call a      *)
(* reader is promised the state the call started from; the last rename is  *)
(* the commit point.                                                       *)
Promise ==
  INSTANCE AtomicFileSet WITH
    visible <- IF pc \in Busy THEN before ELSE final,
    version <- gen,
    status  <- CASE pc \in Busy -> "busy"
                 [] pc \in {"cleanup", "done"} -> "ok"
                 [] pc = "failed" -> IF damaged THEN "broken" ELSE "error"
                 [] OTHER -> "broken"

AllOrNothing == Promise!AbsSpec
=============================================================================
