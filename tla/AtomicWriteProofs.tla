------------------------- MODULE AtomicWriteProofs -------------------------
(***************************************************************************)
(* Proofs about AtomicWrite, for every number of files and calls.          *)
(*                                                                         *)
(* The properties of AtomicWrite are not inductive: that an original is    *)
(* parked, for instance, is only kept by the install loop because the      *)
(* files it has passed are installed and the ones it has not reached are   *)
(* untouched.  IInv says where each file stands in each loop.              *)
(***************************************************************************)
EXTENDS AtomicWrite, TLAPS

\* The types, when the functions are about a larger set S of paths: SaveFlow
\* has two writers on one directory, one of which leaves a file alone.
TypedOver(S) ==
  /\ final \in [S -> Bytes] /\ temp \in [S -> Bytes]
  /\ rollback \in [S -> Bytes] /\ before \in [S -> Bytes]
  /\ gen \in 1..MaxGen /\ pc \in Busy \cup {"cleanup"} \cup Rest
  /\ k \in Files /\ temps \subseteq Files /\ moved \subseteq Files
  /\ damaged \in BOOLEAN

\* rollbackPath is set for f exactly if f existed, and holds what f held.
Parked(f) ==
  /\ f \in moved <=> before[f] # NoFile
  /\ f \in moved => rollback[f] = before[f]

\* The call has not touched f yet, and its new bytes are ready.
Ready(f) == final[f] = before[f] /\ f \notin moved /\ temp[f] = gen

Untouched ==
  pc \in {"write", "verify"} =>
    /\ \A f \in Files : final[f] = before[f]
    /\ moved = {} /\ ~damaged
    /\ pc = "verify" => \A f \in Files : f < k => temp[f] = gen

Swapping ==
  pc \in {"swap", "install"} =>
    /\ ~damaged
    /\ \A f \in Files : f < k => final[f] = gen /\ Parked(f)
    /\ \A f \in Files : f > k => Ready(f)
    /\ pc = "swap" => Ready(k)
    /\ pc = "install" => final[k] = NoFile /\ Parked(k) /\ temp[k] = gen

Undoing ==
  /\ pc \in {"undo", "restore"} =>
       /\ \A f \in Files : f <= k => Parked(f) /\ final[f] \in {gen, NoFile}
       /\ ~damaged => \A f \in Files : f > k => final[f] = before[f]
  /\ pc = "restore" => final[k] = NoFile /\ k \in moved
  /\ pc \in {"untemp", "failed"} /\ ~damaged => \A f \in Files : final[f] = before[f]

\* What is dropped at the end was parked by this call.
Dropping == pc = "cleanup" => \A f \in moved : before[f] # NoFile

\* The last file of the set is new only once the call is committed.
LastIsCommit ==
  pc \in Busy \cup {"failed", "crashed"} => final[N] \in {before[N], NoFile}

\* Every path shows its old bytes, the new ones, or nothing.
OldNewOrNone ==
  \A f \in Files : final[f] \in {before[f], gen, NoFile} /\ before[f] # Torn

\* Where the files stand in each loop of a call.
Stages ==
  /\ Untouched /\ Swapping /\ Undoing /\ Dropping /\ LastIsCommit /\ OldNewOrNone
  /\ OriginalsKept /\ CommitIsComplete

IInv == TypeOK /\ Stages

-----------------------------------------------------------------------------

(* The first file and the first call exist.                                *)
LEMMA One == 1 \in Files /\ 1 \in 1..MaxGen
BY WriteAssumption DEF Files

LEMMA TypeInit == Init => TypeOK
<1> SUFFICES ASSUME Init PROVE TypeOK
  OBVIOUS
<1>1. final \in [Files -> Bytes]
  BY One DEF Init, Bytes
<1>2. temp \in [Files -> Bytes] /\ rollback \in [Files -> Bytes]
  BY DEF Init, Bytes
<1>3. QED
  BY <1>1, <1>2, One DEF Init, TypeOK, Rest

(* Every step keeps the types.                                             *)
LEMMA TypedStep ==
  ASSUME NEW S, Files \subseteq S, TypedOver(S), [Next]_vars
  PROVE  TypedOver(S)'
<1> USE WriteAssumption DEF TypedOver, Files, Bytes, NoFile, Torn, Busy, Rest,
         Advance, Throw, UndoneEntry, disk
<1>1. CASE Begin
  <2>1. gen' \in 1..MaxGen BY <1>1 DEF Begin
  <2>2. k' \in Files BY <1>1, One DEF Begin
  <2>3. QED BY <1>1, <2>1, <2>2 DEF Begin
<1>2. CASE WriteTemp BY <1>2 DEF WriteTemp
<1>3. CASE WriteTempFails BY <1>3 DEF WriteTempFails
<1>4. CASE VerifyTemp BY <1>4 DEF VerifyTemp
<1>5. CASE VerifyTempFails BY <1>5 DEF VerifyTempFails
<1>6. CASE ParkOriginal BY <1>6 DEF ParkOriginal
<1>7. CASE ParkOriginalFails BY <1>7 DEF ParkOriginalFails
<1>8. CASE InstallTemp BY <1>8 DEF InstallTemp
<1>9. CASE InstallTempFails BY <1>9 DEF InstallTempFails
<1>10. CASE RemoveInstalled BY <1>10 DEF RemoveInstalled
<1>11. CASE RestoreOriginal BY <1>11 DEF RestoreOriginal
<1>12. CASE UndoFails BY <1>12 DEF UndoFails
<1>13. CASE RemoveTemp BY <1>13 DEF RemoveTemp
<1>14. CASE DropRollback BY <1>14 DEF DropRollback
<1>15. CASE Crash BY <1>15 DEF Crash
<1>16. CASE UNCHANGED vars BY <1>16 DEF vars
<1>17. CASE ShortWrite BY <1>17 DEF ShortWrite
<1>18. CASE RemoveTempFails BY <1>18 DEF RemoveTempFails
<1>19. CASE DropRollbackFails BY <1>19 DEF DropRollbackFails
<1>20. QED
  BY <1>1, <1>2, <1>3, <1>4, <1>5, <1>6, <1>7, <1>8, <1>9, <1>10, <1>11, <1>12,
     <1>13, <1>14, <1>15, <1>16, <1>17, <1>18, <1>19
  DEF Next, Work, Progress, VerifyTempDiffers, WriteFault, RenameFault, CleanupFault

LEMMA TypeStep == TypeOK /\ [Next]_vars => TypeOK'
BY TypedStep DEF TypeOK, TypedOver

(* The types are respected in every behaviour.                             *)
THEOREM TypeCorrect == Spec => []TypeOK
<1>1. Init => TypeOK BY TypeInit
<1>2. TypeOK /\ [Next]_vars => TypeOK' BY TypeStep
<1>3. QED BY <1>1, <1>2, PTL DEF Spec

-----------------------------------------------------------------------------

LEMMA InvInit == Init => IInv
<1> SUFFICES ASSUME Init PROVE IInv
  OBVIOUS
<1>1. TypeOK BY TypeInit
<1>2. QED
  BY <1>1 DEF Init, IInv, Stages, Untouched, Swapping, Undoing, Dropping, LastIsCommit, OldNewOrNone,
     OriginalsKept, CommitIsComplete, Busy, Torn, NoFile

(* A call begins with every file where it belongs.                         *)
LEMMA StagesBegin ==
  ASSUME NEW S, Files \subseteq S, TypedOver(S), Begin, \A f \in Files : final[f] # Torn
  PROVE  Stages'
BY WriteAssumption
DEF Begin, TypedOver, Stages, Untouched, Swapping, Undoing, Dropping, LastIsCommit, OldNewOrNone, OriginalsKept,
    CommitIsComplete, Files, NoFile, Torn, Busy, Rest, disk

(* Every step keeps each file where it belongs in the loop.                *)
LEMMA StagesStep ==
  ASSUME NEW S, Files \subseteq S, TypedOver(S), Stages, [Next]_vars
  PROVE  Stages'
<1>0. TypedOver(S)' BY TypedStep
<1> USE <1>0, WriteAssumption
    DEF Stages, Untouched, Swapping, Undoing, Dropping, LastIsCommit, OldNewOrNone, OriginalsKept,
        CommitIsComplete, Parked, Ready, Files, NoFile, Torn,
        Busy, Rest, Advance, Throw, UndoneEntry, disk
<1>1. CASE Begin BY <1>1 DEF Begin, TypedOver
<1>2. CASE WriteTemp BY <1>2 DEF WriteTemp, TypedOver
<1>3. CASE WriteTempFails BY <1>3 DEF WriteTempFails, TypedOver
<1>4. CASE VerifyTemp BY <1>4 DEF VerifyTemp, TypedOver
<1>5. CASE VerifyTempFails BY <1>5 DEF VerifyTempFails, TypedOver
<1>6. CASE ParkOriginal BY <1>6 DEF ParkOriginal, TypedOver
<1>7. CASE ParkOriginalFails BY <1>7 DEF ParkOriginalFails, TypedOver
<1>8. CASE InstallTemp BY <1>8 DEF InstallTemp, TypedOver
<1>9. CASE InstallTempFails BY <1>9 DEF InstallTempFails, TypedOver
<1>10. CASE RemoveInstalled BY <1>10 DEF RemoveInstalled, TypedOver
<1>11. CASE RestoreOriginal BY <1>11 DEF RestoreOriginal, TypedOver
<1>12. CASE UndoFails BY <1>12 DEF UndoFails, TypedOver
<1>13. CASE RemoveTemp BY <1>13 DEF RemoveTemp, TypedOver
<1>14. CASE DropRollback BY <1>14 DEF DropRollback, TypedOver
<1>15. CASE Crash BY <1>15 DEF Crash, TypedOver
<1>16. CASE UNCHANGED vars BY <1>16 DEF vars, TypedOver
<1>17. CASE ShortWrite BY <1>17 DEF ShortWrite, TypedOver
<1>18. CASE RemoveTempFails BY <1>18 DEF RemoveTempFails, TypedOver
<1>19. CASE DropRollbackFails BY <1>19 DEF DropRollbackFails, TypedOver
<1>20. QED
  BY <1>1, <1>2, <1>3, <1>4, <1>5, <1>6, <1>7, <1>8, <1>9, <1>10, <1>11, <1>12,
     <1>13, <1>14, <1>15, <1>16, <1>17, <1>18, <1>19
  DEF Next, Work, Progress, VerifyTempDiffers, WriteFault, RenameFault, CleanupFault

(* Every step keeps the inductive invariant.                               *)
LEMMA InvStep == IInv /\ [Next]_vars => IInv'
<1> SUFFICES ASSUME IInv, [Next]_vars PROVE IInv'
  OBVIOUS
<1>1. TypedOver(Files) /\ Stages BY DEF IInv, TypeOK, TypedOver
<1>2. QED BY <1>1, TypeStep, StagesStep DEF IInv

-----------------------------------------------------------------------------
(* What a step of a call does to the disk, for the modules that compose    *)
(* writers.                                                                *)

\* The parked original of f is left alone, or it is the one f had.
Moves(f) ==
  \/ /\ final'[f] \in {final[f], NoFile, gen}
     /\ rollback'[f] = rollback[f] /\ (f \in moved' <=> f \in moved)
  \/ /\ before[f] # NoFile
     /\ final'[f] \in {final[f], NoFile, before[f]} /\ rollback'[f] \in {NoFile, before[f]}

(* A step moves originals and new files only, and only those of the set.   *)
LEMMA Effect ==
  ASSUME NEW S, Files \subseteq S, TypedOver(S), Stages, Work \/ Crash
  PROVE  /\ gen' = gen /\ before' = before
         /\ \A f \in S \ Files : final'[f] = final[f]
         /\ \A f \in Files : Moves(f)
<1> USE WriteAssumption
    DEF TypedOver, Stages, Swapping, Undoing, Dropping, Moves, Parked, Ready, Files
<1>1. CASE WriteTemp BY <1>1 DEF WriteTemp
<1>2. CASE WriteTempFails BY <1>2 DEF WriteTempFails
<1>3. CASE VerifyTemp BY <1>3 DEF VerifyTemp
<1>4. CASE VerifyTempFails BY <1>4 DEF VerifyTempFails
<1>5. CASE ParkOriginal BY <1>5 DEF ParkOriginal
<1>6. CASE ParkOriginalFails BY <1>6 DEF ParkOriginalFails
<1>7. CASE InstallTemp BY <1>7 DEF InstallTemp
<1>8. CASE InstallTempFails BY <1>8 DEF InstallTempFails
<1>9. CASE RemoveInstalled BY <1>9 DEF RemoveInstalled
<1>10. CASE RestoreOriginal BY <1>10 DEF RestoreOriginal
<1>11. CASE UndoFails BY <1>11 DEF UndoFails
<1>12. CASE RemoveTemp BY <1>12 DEF RemoveTemp
<1>13. CASE DropRollback BY <1>13 DEF DropRollback
<1>14. CASE Crash BY <1>14 DEF Crash
<1>15. CASE ShortWrite BY <1>15 DEF ShortWrite
<1>16. CASE RemoveTempFails BY <1>16 DEF RemoveTempFails
<1>17. CASE DropRollbackFails BY <1>17 DEF DropRollbackFails
<1>18. QED
  BY <1>1, <1>2, <1>3, <1>4, <1>5, <1>6, <1>7, <1>8, <1>9, <1>10, <1>11, <1>12,
     <1>13, <1>14, <1>15, <1>16, <1>17
  DEF Work, Progress, VerifyTempDiffers, WriteFault, RenameFault, CleanupFault

(* Before the first rename, and once everything is undone, a step touches  *)
(* no more than temps.                                                     *)
LEMMA Quiet ==
  ASSUME pc \in {"write", "verify", "untemp"}, Work \/ Crash
  PROVE  /\ final' = final /\ rollback' = rollback
         /\ pc' \in {"write", "verify", "untemp", "failed", "crashed"}
              \/ (pc = "verify" /\ pc' = "swap")
BY DEF Work, Progress, WriteFault, RenameFault, CleanupFault, Crash, WriteTemp,
   WriteTempFails, ShortWrite, VerifyTemp, VerifyTempDiffers, VerifyTempFails,
   ParkOriginal, ParkOriginalFails, InstallTemp, InstallTempFails, RemoveInstalled,
   RestoreOriginal, UndoFails, RemoveTemp, RemoveTempFails, DropRollback,
   DropRollbackFails, Advance, Throw, Busy

(* A call ends by itself or is killed.                                     *)
LEMMA Ends ==
  /\ Work => pc' # "crashed"
  /\ Crash => pc' \in {"crashed", "done"}
  /\ pc = "cleanup" /\ (Work \/ Crash) => pc' \in {"cleanup", "done"}
BY DEF Work, Progress, WriteFault, RenameFault, CleanupFault, Crash, WriteTemp,
   WriteTempFails, ShortWrite, VerifyTemp, VerifyTempDiffers, VerifyTempFails,
   ParkOriginal, ParkOriginalFails, InstallTemp, InstallTempFails, RemoveInstalled,
   RestoreOriginal, UndoFails, RemoveTemp, RemoveTempFails, DropRollback,
   DropRollbackFails, Advance, Throw, UndoneEntry

(* Only a failing step of an undo damages the set.                         *)
LEMMA Undamaged ==
  Progress \/ WriteFault \/ RenameFault \/ CleanupFault \/ Crash => damaged' = damaged
BY DEF Progress, WriteFault, RenameFault, CleanupFault, Crash, WriteTemp,
   WriteTempFails, ShortWrite, VerifyTemp, VerifyTempDiffers, VerifyTempFails,
   ParkOriginal, ParkOriginalFails, InstallTemp, InstallTempFails, RemoveInstalled,
   RestoreOriginal, RemoveTemp, RemoveTempFails, DropRollback, DropRollbackFails

-----------------------------------------------------------------------------

THEOREM Invariant == Spec => []IInv
<1>1. Init => IInv BY InvInit
<1>2. IInv /\ [Next]_vars => IInv' BY InvStep
<1>3. QED BY <1>1, <1>2, PTL DEF Spec

(* Nothing a file held is ever lost before the new set is complete.        *)
THEOREM KeepsOriginals == Spec => []OriginalsKept
<1>1. IInv => OriginalsKept BY DEF IInv, Stages
<1>2. QED BY <1>1, Invariant, PTL

(* An error the caller sees means an unchanged set, unless the undo itself *)
(* met a failure.                                                          *)
THEOREM RestoresOnFailure == Spec => []FailureRestores
<1>1. IInv => FailureRestores
  BY DEF IInv, Stages, Undoing, TypeOK, FailureRestores
<1>2. QED BY <1>1, Invariant, PTL

(* Past the commit point the whole set is new.                             *)
THEOREM CommitsWhole == Spec => []CommitIsComplete
<1>1. IInv => CommitIsComplete BY DEF IInv, Stages
<1>2. QED BY <1>1, Invariant, PTL

(* Incomplete bytes never appear under a final name.                       *)
THEOREM NeverShowsTorn == Spec => []NeverTorn
<1>1. IInv => NeverTorn
  <2> SUFFICES ASSUME IInv, NEW f \in Files PROVE final[f] # Torn
    BY DEF NeverTorn
  <2>1. gen # Torn /\ NoFile # Torn BY DEF IInv, TypeOK, Torn, NoFile
  <2>2. QED BY <2>1 DEF IInv, Stages, OldNewOrNone
<1>2. QED BY <1>1, Invariant, PTL

-----------------------------------------------------------------------------
(* The writer implements AtomicFileSet.  A step of the call maps to a      *)
(* stutter unless it starts, commits, aborts or breaks it.                 *)

LEMMA RefineInit == Init => Promise!AbsInit
BY DEF Init, Promise!AbsInit, Files, Promise!Files, NoFile, Promise!NoFile, Busy

LEMMA RefineStep == IInv /\ IInv' /\ [Next]_vars => [Promise!AbsNext]_(Promise!absVars)
<1> SUFFICES ASSUME IInv, IInv', [Next]_vars
             PROVE  Promise!AbsNext \/ UNCHANGED Promise!absVars
  OBVIOUS
<1> USE DEF Busy, Advance, Throw, UndoneEntry, Promise!absVars, disk, Rest
<1>1. CASE Begin
  BY <1>1 DEF Begin, IInv, TypeOK, Promise!AbsNext, Promise!AbsBegin
<1>2. CASE WriteTemp BY <1>2 DEF WriteTemp
<1>3. CASE WriteTempFails BY <1>3 DEF WriteTempFails
<1>4. CASE VerifyTemp BY <1>4 DEF VerifyTemp
<1>5. CASE VerifyTempFails BY <1>5 DEF VerifyTempFails
<1>6. CASE ParkOriginal BY <1>6 DEF ParkOriginal
<1>7. CASE ParkOriginalFails BY <1>7 DEF ParkOriginalFails
<1>8. CASE InstallTemp
  <2>1. CASE k < N BY <1>8, <2>1 DEF InstallTemp
  <2>2. CASE ~(k < N)
    <3>1. pc' = "cleanup" /\ gen' = gen BY <1>8, <2>2 DEF InstallTemp
    <3>2. final' = [f \in Files |-> gen]
      <4>1. k = N BY <2>2, WriteAssumption DEF IInv, TypeOK, Files
      <4>2. \A f \in Files : f # k => f < k BY <4>1, WriteAssumption DEF Files
      <4>3. \A f \in Files : f # k => final[f] = gen
        BY <1>8, <4>2 DEF InstallTemp, IInv, Stages, Swapping
      <4>4. temp[k] = gen BY <1>8 DEF InstallTemp, IInv, Stages, Swapping
      <4>5. QED BY <1>8, <4>3, <4>4 DEF InstallTemp, IInv, TypeOK
    <3>3. QED
      BY <1>8, <3>1, <3>2
      DEF InstallTemp, Promise!AbsNext, Promise!AbsCommit, Files, Promise!Files
  <2>3. QED BY <2>1, <2>2
<1>9. CASE InstallTempFails BY <1>9 DEF InstallTempFails
<1>10. CASE RemoveInstalled BY <1>10 DEF RemoveInstalled
<1>11. CASE RestoreOriginal BY <1>11 DEF RestoreOriginal
<1>12. CASE UndoFails BY <1>12 DEF UndoFails
<1>13. CASE RemoveTemp \/ RemoveTempFails
  <2>1. CASE k < N BY <1>13, <2>1 DEF RemoveTemp, RemoveTempFails
  <2>2. CASE ~(k < N) /\ ~damaged
    <3>1. final = before
      BY <1>13, <2>2 DEF RemoveTemp, RemoveTempFails, IInv, Stages, Undoing, TypeOK
    <3>2. QED
      BY <1>13, <2>2, <3>1
      DEF RemoveTemp, RemoveTempFails, Promise!AbsNext, Promise!AbsAbort
  <2>3. CASE ~(k < N) /\ damaged
    <3>1. pc = "untemp" /\ pc' = "failed" /\ final' = final /\ gen' = gen
      BY <1>13, <2>3 DEF RemoveTemp, RemoveTempFails
    <3>2. final' \in [Files -> Int]
      BY <1>13 DEF IInv, TypeOK, Bytes, NoFile, Torn
    <3>3. \A f \in Files : final'[f] \in {before[f], gen, NoFile}
      BY <3>1 DEF IInv, Stages, OldNewOrNone
    <3>4. damaged' BY <1>13, <2>3 DEF RemoveTemp, RemoveTempFails
    <3>5. QED
      BY <3>1, <3>2, <3>3, <3>4, <2>3
      DEF Promise!AbsNext, Promise!AbsBreak, Files, Promise!Files,
          NoFile, Promise!NoFile
  <2>4. QED BY <2>1, <2>2, <2>3
<1>14. CASE DropRollback BY <1>14 DEF DropRollback
<1>15. CASE Crash
  <2>1. CASE pc = "cleanup" BY <1>15, <2>1 DEF Crash
  <2>2. CASE pc # "cleanup"
    <3>1. pc \in Busy /\ pc' = "crashed" /\ final' = final /\ gen' = gen
      BY <1>15, <2>2 DEF Crash
    <3>2. final' \in [Files -> Int]
      BY DEF IInv, TypeOK, Bytes, NoFile, Torn
    <3>3. \A f \in Files : final'[f] \in {before[f], gen, NoFile}
      BY <3>1 DEF IInv, Stages, OldNewOrNone
    <3>4. QED
      BY <3>1, <3>2, <3>3
      DEF Promise!AbsNext, Promise!AbsBreak, Files, Promise!Files,
          NoFile, Promise!NoFile
  <2>3. QED BY <2>1, <2>2
<1>16. CASE UNCHANGED vars BY <1>16 DEF vars
<1>17. CASE ShortWrite BY <1>17 DEF ShortWrite
<1>18. CASE DropRollbackFails BY <1>18 DEF DropRollbackFails
<1>19. QED
  BY <1>1, <1>2, <1>3, <1>4, <1>5, <1>6, <1>7, <1>8, <1>9, <1>10, <1>11, <1>12,
     <1>13, <1>14, <1>15, <1>16, <1>17, <1>18
  DEF Next, Work, Progress, VerifyTempDiffers, WriteFault, RenameFault, CleanupFault

(* All or nothing: the detailed writer implements the abstract promise.    *)
THEOREM Implements == Spec => AllOrNothing
<1>1. Init => Promise!AbsInit BY RefineInit
<1>2. IInv /\ IInv' /\ [Next]_vars => [Promise!AbsNext]_(Promise!absVars)
  BY RefineStep
<1>3. QED
  BY <1>1, <1>2, Invariant, PTL DEF Spec, AllOrNothing, Promise!AbsSpec
=============================================================================
