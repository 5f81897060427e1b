---------------------------- MODULE SaveProofs ----------------------------
(***************************************************************************)
(* Proofs about what a save does: how its files reach the disk (SaveFlow), *)
(* for any number of saves, failures and kills, and the state it makes of  *)
(* what it finds (HandoffState), for all sections, labels and edits.       *)
(*                                                                         *)
(* While a writer is in the middle of a call, AtomicWriteProofs says where *)
(* each file of the call stands (Stages): the two instances of its lemmas, *)
(* for the four files of the migration and the three of the save, are what *)
(* the proofs about SaveFlow are built from.  What is added is what the    *)
(* calls have to do with each other: where the next save starts from, and  *)
(* what of the older layout and of the user's text can still be where.     *)
(*                                                                         *)
(* That an ID of HandoffState is new is decided by a counter, so StateInv  *)
(* ties the counter and the bodies to the IDs ever given: the counter      *)
(* bounds them as long as it is never lost, and every ID keeps a body as   *)
(* long as none is deleted.  Either is enough for recovery to find the     *)
(* highest number.                                                         *)
(***************************************************************************)
EXTENDS SaveFlow, HandoffState, FiniteSetTheorems, WellFoundedInduction, TLAPS

MgP == INSTANCE AtomicWriteProofs WITH N <- 4, temp <- mgTemp, rollback <- mgRollback
SvP == INSTANCE AtomicWriteProofs WITH N <- 3, temp <- svTemp, rollback <- svRollback

Active == Mg!Busy \cup {"cleanup"}

\* While a phase runs, its writer is in the middle of a call.
Writers ==
  /\ phase \in {"idle", "load"} => pc \in Mg!Rest
  /\ phase = "migrate" => MgP!Stages /\ pc \in Active /\ gen > 1
  /\ phase = "install" => /\ SvP!TypedOver(Paths) /\ SvP!Stages
                          /\ pc \in Active /\ gen > 1

\* What a call begins with is whole.
Whole == \A f \in Paths : final[f] # Mg!Torn

\* As long as no save has taken a v3 directory for a new one.
TextKept ==
  kind = "v3" /\ ~fresh =>
    /\ phase # "migrate"
    /\ \A f \in {Map, Body} :
         /\ phase \in {"idle", "load"} =>
              \/ final[f] \in kept[f]
              \/ final[f] = NoFile /\ svRollback[f] \in kept[f]
         /\ phase = "install" => before[f] \in kept[f] /\ gen \in kept[f]

\* As long as failures of a v3 directory are reported and can be undone.
Steady ==
  kind = "v3" /\ Undisturbed =>
    /\ ~fresh /\ ~damaged
    /\ \A f \in {Map, Body} :
         /\ phase \in {"idle", "load"} => final[f] # NoFile
         /\ phase = "install" => before[f] # NoFile

Older == kind \in {"v2", "legacy"}

\* Until an older layout is backed up it is as it was.
Unmigrated ==
  Older /\ ~fresh /\ ~backup =>
    /\ phase # "install"
    /\ phase = "migrate" => pc \in {"write", "verify", "untemp"}
    /\ \A f \in Paths : final[f] = IF f \in InitialFiles[kind] THEN 1 ELSE NoFile

\* The first save of an older layout gets to the backup if nothing fails.
Untroubled ==
  Older /\ ~killed /\ faults \subseteq {"rename"} /\ ~backup =>
    /\ ~fresh
    /\ \/ /\ phase = "idle"
          /\ \A d \in {mgTemp, mgRollback, svTemp, svRollback} : d[Body] = NoFile
       \/ /\ phase = "migrate" /\ pc \in {"write", "verify"}
          /\ \A f \in Paths : f < k \/ pc = "verify" => mgTemp[f] = gen

\* Nothing of the older layout is under its name, or where a save restores from.
NoneOld == \A f \in {Map, Json} : final[f] # 1 /\ svRollback[f] # 1
OldGone == NoneOld /\ \A f \in {Map, Json} : before[f] # 1

\* No save has come as far as writing.
SvUntouched == \A f \in Paths : svTemp[f] = NoFile /\ svRollback[f] = NoFile

\* Something under content/ tells the next save that there is nothing to migrate.
BodyThere == \E d \in {final, mgTemp, mgRollback, svRollback} : d[Body] # NoFile

\* However the save ends.
BodyStays ==
  \/ mgTemp[Body] # NoFile \/ mgRollback[Body] # NoFile \/ before[Body] # NoFile
  \/ svRollback[Body] # NoFile /\ Body \notin moved

\* An upgraded config has nothing old beside it, and a migration that is still
\* to come meets no originals that a save has parked.
Settled ==
  Older =>
    /\ final[Config] > 1 => NoneOld
    /\ phase = "idle" => BodyThere \/ SvUntouched \/ NoneOld
    /\ phase = "load" => \/ BodyThere \/ NoneOld
                         \/ SvUntouched /\ final[Map] # NoFile /\ final[Body] = NoFile
    /\ phase = "install" => /\ OldGone \/ BodyStays
                            /\ final[Config] > 1 => OldGone
    /\ phase = "migrate" =>
         IF pc = "cleanup" THEN NoneOld
         ELSE /\ SvUntouched \/ OldGone
              /\ before[Config] > 1 => OldGone

IInv ==
  /\ TypeOK /\ Writers /\ Whole
  /\ TextKept /\ Steady /\ Unmigrated /\ Untroubled /\ Settled

-----------------------------------------------------------------------------
(* The two writers.                                                        *)

LEMMA WriterAssumptions == MgP!WriteAssumption /\ SvP!WriteAssumption
BY SaveAssumption DEF MgP!WriteAssumption, SvP!WriteAssumption

LEMMA FilesAre ==
  /\ Map = 1 /\ Body = 2 /\ Json = 3 /\ Config = 4 /\ NoFile = 0
  /\ MgP!Files = Paths /\ SvP!Files = 1..3 /\ 1..3 \subseteq Paths
  /\ Map \in Paths /\ Body \in Paths /\ Json \in Paths /\ Config \in Paths
  /\ Map \in 1..3 /\ Body \in 1..3 /\ Json \in 1..3 /\ Config \in Paths \ 1..3
BY DEF Map, Body, Json, Config, Position, NoFile, Mg!NoFile, MgP!Files, SvP!Files, Paths

(* The writer of the migration is the one that AtomicWriteProofs is about.  *)
LEMMA MgSame ==
  /\ Mg!Begin => MgP!Begin
  /\ Mg!Work => MgP!Work
  /\ Mg!Crash => MgP!Crash
  /\ Mg!Progress \/ Mg!WriteFault \/ Mg!RenameFault \/ Mg!CleanupFault
       => MgP!Progress \/ MgP!WriteFault \/ MgP!RenameFault \/ MgP!CleanupFault
BY DEF
     Mg!Work, Mg!Progress, Mg!WriteFault, Mg!RenameFault, Mg!CleanupFault, Mg!Crash,
     Mg!WriteTemp, Mg!WriteTempFails, Mg!ShortWrite, Mg!VerifyTemp, Mg!VerifyTempDiffers,
     Mg!VerifyTempFails, Mg!ParkOriginal, Mg!ParkOriginalFails, Mg!InstallTemp,
     Mg!InstallTempFails, Mg!RemoveInstalled, Mg!RestoreOriginal, Mg!UndoFails,
     Mg!RemoveTemp, Mg!RemoveTempFails, Mg!DropRollback, Mg!DropRollbackFails, Mg!Advance,
     Mg!Throw, Mg!UndoneEntry, Mg!Begin, Mg!NoFile, Mg!Torn, Mg!Busy, Mg!Rest, Mg!disk,
     MgP!Work, MgP!Progress, MgP!WriteFault, MgP!RenameFault, MgP!CleanupFault, MgP!Crash,
     MgP!WriteTemp, MgP!WriteTempFails, MgP!ShortWrite, MgP!VerifyTemp,
     MgP!VerifyTempDiffers, MgP!VerifyTempFails, MgP!ParkOriginal, MgP!ParkOriginalFails,
     MgP!InstallTemp, MgP!InstallTempFails, MgP!RemoveInstalled, MgP!RestoreOriginal,
     MgP!UndoFails, MgP!RemoveTemp, MgP!RemoveTempFails, MgP!DropRollback,
     MgP!DropRollbackFails, MgP!Advance, MgP!Throw, MgP!UndoneEntry, MgP!Begin, MgP!NoFile,
     MgP!Torn, MgP!Busy, MgP!Rest, MgP!disk

(* So is the writer of the save.                                            *)
LEMMA SvSame ==
  /\ Sv!Begin => SvP!Begin
  /\ Sv!Work => SvP!Work
  /\ Sv!Crash => SvP!Crash
  /\ Sv!Progress \/ Sv!WriteFault \/ Sv!RenameFault \/ Sv!CleanupFault
       => SvP!Progress \/ SvP!WriteFault \/ SvP!RenameFault \/ SvP!CleanupFault
BY DEF
     Sv!Work, Sv!Progress, Sv!WriteFault, Sv!RenameFault, Sv!CleanupFault, Sv!Crash,
     Sv!WriteTemp, Sv!WriteTempFails, Sv!ShortWrite, Sv!VerifyTemp, Sv!VerifyTempDiffers,
     Sv!VerifyTempFails, Sv!ParkOriginal, Sv!ParkOriginalFails, Sv!InstallTemp,
     Sv!InstallTempFails, Sv!RemoveInstalled, Sv!RestoreOriginal, Sv!UndoFails,
     Sv!RemoveTemp, Sv!RemoveTempFails, Sv!DropRollback, Sv!DropRollbackFails, Sv!Advance,
     Sv!Throw, Sv!UndoneEntry, Sv!Begin, Sv!NoFile, Sv!Torn, Sv!Busy, Sv!Rest, Sv!disk,
     SvP!Work, SvP!Progress, SvP!WriteFault, SvP!RenameFault, SvP!CleanupFault, SvP!Crash,
     SvP!WriteTemp, SvP!WriteTempFails, SvP!ShortWrite, SvP!VerifyTemp,
     SvP!VerifyTempDiffers, SvP!VerifyTempFails, SvP!ParkOriginal, SvP!ParkOriginalFails,
     SvP!InstallTemp, SvP!InstallTempFails, SvP!RemoveInstalled, SvP!RestoreOriginal,
     SvP!UndoFails, SvP!RemoveTemp, SvP!RemoveTempFails, SvP!DropRollback,
     SvP!DropRollbackFails, SvP!Advance, SvP!Throw, SvP!UndoneEntry, SvP!Begin, SvP!NoFile,
     SvP!Torn, SvP!Busy, SvP!Rest, SvP!disk

(* The types of the whole are those of its writers.                        *)
LEMMA TypedParts ==
  /\ Mg!TypeOK <=> MgP!TypedOver(Paths)
  /\ Mg!TypeOK' <=> MgP!TypedOver(Paths)'
  /\ SvP!TypedOver(Paths)' /\ mgTemp' \in [Paths -> Mg!Bytes]
       /\ mgRollback' \in [Paths -> Mg!Bytes] =>
         /\ Mg!TypeOK'
         /\ svTemp' \in [Paths -> Mg!Bytes] /\ svRollback' \in [Paths -> Mg!Bytes]
BY FilesAre
DEF Mg!TypeOK, Mg!Files, Mg!Bytes, Mg!Busy, Mg!Rest, Mg!NoFile, Mg!Torn, Paths,
    MgP!TypedOver, MgP!Bytes, MgP!Busy, MgP!Rest, MgP!NoFile, MgP!Torn,
    SvP!TypedOver, SvP!Bytes, SvP!Busy, SvP!Rest, SvP!NoFile, SvP!Torn

(* A step of the migration.                                                *)
LEMMA MgStep ==
  ASSUME TypeOK, MgP!Stages, Mg!Work \/ Mg!Crash
  PROVE  /\ MgP!TypedOver(Paths)' /\ MgP!Stages'
         /\ gen' = gen /\ before' = before /\ \A f \in Paths : MgP!Moves(f)
         /\ Mg!Work => pc' \in Active \cup {"done", "failed"}
         /\ Mg!Crash => pc' \in {"crashed", "done"}
<1>1. MgP!TypedOver(Paths)
  BY TypedParts DEF TypeOK
<1>2. MgP!Work \/ MgP!Crash
  BY MgSame
<1>3. [MgP!Next]_(MgP!vars)
  BY <1>2 DEF MgP!Next
<1>4. MgP!TypedOver(Paths)' /\ MgP!Stages'
  BY <1>1, <1>3, WriterAssumptions, FilesAre, MgP!TypedStep, MgP!StagesStep
<1>5. gen' = gen /\ before' = before /\ \A f \in Paths : MgP!Moves(f)
  BY <1>1, <1>2, WriterAssumptions, FilesAre, MgP!Effect
<1>6. Mg!Work => pc' \in Active \cup {"done", "failed"}
  BY <1>4, WriterAssumptions, MgSame, MgP!Ends DEF MgP!TypedOver, MgP!Busy, MgP!Rest, Active, Mg!Busy
<1>7. Mg!Crash => pc' \in {"crashed", "done"}
  BY WriterAssumptions, MgSame, MgP!Ends
<1>. QED
  BY <1>4, <1>5, <1>6, <1>7

(* A step of the save.                                                     *)
LEMMA SvStep ==
  ASSUME SvP!TypedOver(Paths), SvP!Stages, Sv!Work \/ Sv!Crash
  PROVE  /\ SvP!TypedOver(Paths)' /\ SvP!Stages'
         /\ gen' = gen /\ before' = before /\ \A f \in 1..3 : SvP!Moves(f)
         /\ final'[Config] = final[Config]
         /\ Sv!Work => pc' \in Active \cup {"done", "failed"}
         /\ Sv!Crash => pc' \in {"crashed", "done"}
<1>2. SvP!Work \/ SvP!Crash
  BY SvSame
<1>3. [SvP!Next]_(SvP!vars)
  BY <1>2 DEF SvP!Next
<1>4. SvP!TypedOver(Paths)' /\ SvP!Stages'
  BY <1>3, WriterAssumptions, FilesAre, SvP!TypedStep, SvP!StagesStep
<1>5. /\ gen' = gen /\ before' = before /\ \A f \in 1..3 : SvP!Moves(f)
      /\ final'[Config] = final[Config]
  BY <1>2, WriterAssumptions, FilesAre, SvP!Effect
<1>6. Sv!Work => pc' \in Active \cup {"done", "failed"}
  BY <1>4, WriterAssumptions, SvSame, SvP!Ends DEF SvP!TypedOver, SvP!Busy, SvP!Rest, Active, Mg!Busy
<1>7. Sv!Crash => pc' \in {"crashed", "done"}
  BY WriterAssumptions, SvSame, SvP!Ends
<1>. QED
  BY <1>4, <1>5, <1>6, <1>7

(* A migration begins.                                                     *)
LEMMA MgBegin ==
  ASSUME TypeOK, Whole, Mg!Begin
  PROVE  /\ MgP!TypedOver(Paths)' /\ MgP!Stages' /\ pc' = "write" /\ k' = 1
         /\ gen' = gen + 1 /\ gen' > 1 /\ before' = final /\ ~damaged'
         /\ UNCHANGED <<final, mgDisk>>
<1>1. MgP!TypedOver(Paths)
  BY TypedParts DEF TypeOK
<1>2. MgP!Begin
  BY MgSame
<1>3. [MgP!Next]_(MgP!vars)
  BY <1>2 DEF MgP!Next
<1>4. \A f \in MgP!Files : final[f] # MgP!Torn
  BY FilesAre DEF Whole, Mg!Torn, MgP!Torn
<1>5. MgP!TypedOver(Paths)' /\ MgP!Stages'
  BY <1>1, <1>2, <1>3, <1>4, WriterAssumptions, FilesAre, MgP!TypedStep, MgP!StagesBegin
<1>6. gen' > 1
  BY SaveAssumption DEF TypeOK, Mg!TypeOK, Mg!Begin
<1>. QED
  BY <1>5, <1>6 DEF Mg!Begin, Mg!disk, mgDisk

(* A save begins to write.                                                 *)
LEMMA SvBegin ==
  ASSUME TypeOK, Whole, Sv!Begin
  PROVE  /\ SvP!TypedOver(Paths)' /\ SvP!Stages' /\ pc' = "write" /\ moved' = {}
         /\ gen' = gen + 1 /\ gen' > 1 /\ before' = final /\ ~damaged'
         /\ UNCHANGED <<final, svDisk>>
<1>1. SvP!Begin
  BY SvSame
<1>2. SvP!TypedOver(Paths)'
  <2>1. SvP!Bytes = Mg!Bytes /\ Mg!Files = Paths
    BY DEF SvP!Bytes, Mg!Bytes, SvP!NoFile, Mg!NoFile, SvP!Torn, Mg!Torn, Mg!Files, Paths
  <2>2. /\ final' \in [Paths -> SvP!Bytes] /\ before' \in [Paths -> SvP!Bytes]
        /\ svTemp' \in [Paths -> SvP!Bytes] /\ svRollback' \in [Paths -> SvP!Bytes]
    BY <1>1, <2>1 DEF TypeOK, Mg!TypeOK, SvP!Begin, SvP!disk
  <2>3. gen' \in 1..MaxGen
    BY <1>1, SaveAssumption DEF TypeOK, Mg!TypeOK, SvP!Begin
  <2>. QED
    BY <1>1, <2>2, <2>3, FilesAre DEF SvP!Begin, SvP!TypedOver, SvP!Busy
<1>3. SvP!Stages'
  BY <1>1, <1>2, FilesAre
  DEF SvP!Begin, Whole, SvP!Stages, SvP!Untouched, SvP!Swapping, SvP!Undoing, SvP!Dropping,
      SvP!LastIsCommit, SvP!OldNewOrNone, SvP!OriginalsKept, SvP!CommitIsComplete, SvP!Busy,
      SvP!Torn, Mg!Torn, SvP!NoFile, SvP!Rest, SvP!disk, Paths
<1>6. gen' > 1
  BY SaveAssumption DEF TypeOK, Mg!TypeOK, Sv!Begin
<1>. QED
  BY <1>2, <1>3, <1>6 DEF Sv!Begin, Sv!disk, svDisk

(* History only grows.                                                     *)
LEMMA UndisturbedBefore ==
  ASSUME kind' = kind, killed' = killed, faults \subseteq faults', Undisturbed'
  PROVE  Undisturbed
BY DEF Undisturbed

-----------------------------------------------------------------------------

LEMMA InitInv == Init => IInv
<1> SUFFICES ASSUME Init PROVE IInv
  OBVIOUS
<1> USE SaveAssumption, FilesAre
<1>1. final \in [Paths -> {0, 1}] /\ 1 \in 1..MaxGen
  BY DEF Init
<1>2. TypeOK
  <2>1. Mg!Files = Paths /\ 0 \in Mg!Bytes /\ 1 \in Mg!Bytes
    BY <1>1 DEF Mg!Files, Mg!Bytes, Mg!NoFile, Paths
  <2>2. final \in [Paths -> Mg!Bytes]
    BY <1>1, <2>1
  <2>3. Mg!TypeOK
    BY <1>1, <2>1, <2>2 DEF Init, Mg!TypeOK, Mg!Rest, Paths
  <2>4. kept \in [{Map, Body} -> SUBSET (1..MaxGen)]
    BY <1>1 DEF Init
  <2>5. svTemp \in [Paths -> Mg!Bytes] /\ svRollback \in [Paths -> Mg!Bytes]
    BY <2>1 DEF Init
  <2>6. /\ phase \in {"idle"} /\ outcome \in {"none"} /\ kind \in Kinds
        /\ backup \in BOOLEAN /\ fresh \in BOOLEAN
    BY DEF Init
  <2>7. troubles \in 0..MaxTroubles
    BY DEF Init
  <2>8. faults \subseteq Faults /\ killed \in BOOLEAN
    BY Zenon DEF Init
  <2>. QED
    BY <2>3, <2>4, <2>5, <2>6, <2>7, <2>8 DEF TypeOK
<1>3. Writers /\ Whole
  BY <1>1 DEF Init, Writers, Whole, Mg!Rest, Mg!Torn
<1>4. TextKept /\ Steady
  BY DEF Init, TextKept, Steady, InitialFiles
<1>5. Unmigrated /\ Untroubled
  BY DEF Init, Unmigrated, Untroubled, Older
<1>6. Settled
  BY DEF Init, Settled, SvUntouched, Older, InitialFiles
<1>. QED
  BY <1>2, <1>3, <1>4, <1>5, <1>6 DEF IInv

(* What a step of the migration, or its death, leaves of the older layout.  *)
LEMMA MgLeaves ==
  ASSUME IInv, phase = "migrate", Mg!Work \/ Mg!Crash,
         UNCHANGED <<svDisk, kind, kept, fresh>>,
         backup' = (backup \/ (pc = "verify" /\ pc' = "swap")),
         IF pc' \in Active THEN phase' = "migrate"
         ELSE phase' = "idle" \/ (phase' = "load" /\ pc' = "done")
  PROVE  /\ Mg!TypeOK' /\ Writers' /\ Whole'
         /\ TextKept' /\ Unmigrated' /\ Settled'
<1> USE FilesAre
<1>1. /\ MgP!TypedOver(Paths)' /\ MgP!Stages'
      /\ gen' = gen /\ before' = before /\ \A f \in Paths : MgP!Moves(f)
      /\ pc' \in Active \cup {"done", "failed", "crashed"}
  BY MgStep DEF IInv, Writers
<1>2. /\ UNCHANGED <<svTemp, svRollback, kind, kept, fresh>>
      /\ gen > 1 /\ pc \in Active
  BY DEF svDisk, IInv, Writers
<1>3. Mg!TypeOK'
  BY <1>1, TypedParts
<1>4. Writers'
  BY <1>1, <1>2 DEF Writers, Mg!Rest, Active, Mg!Busy
<1>5. Whole'
  BY <1>1 DEF Whole, MgP!Stages, MgP!OldNewOrNone, MgP!NoFile, MgP!Torn, Mg!Torn,
     MgP!TypedOver
<1>6. TextKept'
  BY <1>2 DEF IInv, TextKept
<1>7. Unmigrated'
  <2>h. ~backup' => ~backup /\ ~(pc = "verify" /\ pc' = "swap")
    BY Zenon
  <2> SUFFICES ASSUME Older, ~fresh, ~backup'
               PROVE  /\ phase' # "install"
                      /\ phase' = "migrate" => pc' \in {"write", "verify", "untemp"}
                      /\ final' = final
    BY <1>2, <2>h DEF IInv, Unmigrated, Older
  <2>1. pc \in {"write", "verify", "untemp"}
    BY <2>h DEF IInv, Unmigrated
  <2>. QED
    BY <1>1, <1>2, <2>h, <2>1, WriterAssumptions, MgSame, MgP!Quiet DEF Active, Mg!Busy
<1>8. Settled'
  <2> SUFFICES ASSUME Older PROVE Settled'
    BY <1>2 DEF Settled, Older
  <2>1. CASE pc' \in {"cleanup", "done"}
    <3>1. \A f \in Paths : final'[f] = gen
      BY <1>1, <1>2, <2>1 DEF MgP!Stages, MgP!CommitIsComplete
    <3>2. \A f \in {Map, Json} : svRollback[f] # 1
      BY <1>2, <2>1 DEF IInv, Settled, SvUntouched, OldGone, NoneOld
    <3>3. NoneOld'
      BY <1>2, <3>1, <3>2 DEF NoneOld
    <3>4. BodyThere'
      BY <1>2, <3>1 DEF BodyThere
    <3>. QED
      BY <1>2, <2>1, <3>3, <3>4 DEF Settled, Active, Mg!Busy
  <2>2. CASE pc' \notin {"cleanup", "done"}
    <3>1. pc' \in MgP!Busy \cup {"failed", "crashed"}
      BY <1>1, <2>2 DEF Active, Mg!Busy, MgP!Busy
    <3>2. pc # "cleanup"
      BY <2>2, WriterAssumptions, MgSame, MgP!Ends
    <3>3. SvUntouched \/ OldGone
      BY <1>2, <2>2, <3>2 DEF IInv, Settled
    <3>4. SvUntouched => SvUntouched'
      BY <1>2 DEF SvUntouched
    <3>5. OldGone => OldGone'
      BY <1>1, <1>2 DEF OldGone, NoneOld, MgP!Moves, MgP!NoFile
    <3>6. before'[Config] > 1 => OldGone'
      BY <1>1, <1>2, <3>2, <3>5 DEF IInv, Settled
    <3>7. final'[Config] \in {before'[Config], NoFile}
      BY <1>1, <3>1 DEF MgP!Stages, MgP!LastIsCommit, MgP!NoFile
    <3>8. final'[Config] > 1 => NoneOld'
      BY <3>6, <3>7 DEF OldGone
    <3>. QED
      BY <1>2, <2>2, <3>1, <3>3, <3>4, <3>5, <3>6, <3>8 DEF Settled, OldGone
  <2>. QED
    BY <2>1, <2>2
<1>. QED
  BY <1>3, <1>4, <1>5, <1>6, <1>7, <1>8

LEMMA MigrateStep == IInv /\ Migrate => IInv'
<1> SUFFICES ASSUME IInv, Migrate PROVE IInv'
  OBVIOUS
<1> USE FilesAre
<1>1. /\ Mg!Work /\ phase = "migrate" /\ UNCHANGED <<svDisk, kind, kept, fresh>>
      /\ backup' = (backup \/ (pc = "verify" /\ pc' = "swap"))
  BY DEF Migrate, MgFault, Mg!Work
<1>2. gen' = gen /\ pc' \in Active \cup {"done", "failed"}
  BY <1>1, MgStep DEF IInv, Writers
<1>3. /\ pc' = "done" => phase' = "load"
      /\ pc' = "failed" => phase' = "idle"
      /\ pc' \in Active => phase' = "migrate"
  BY <1>2 DEF Migrate, Active, Mg!Busy
<1>4. Mg!TypeOK' /\ Writers' /\ Whole' /\ TextKept' /\ Unmigrated' /\ Settled'
  BY <1>1, <1>2, <1>3, MgLeaves DEF Active, Mg!Busy
<1>5. killed' = killed /\ faults \subseteq faults' /\ faults' \subseteq Faults
      /\ troubles' \in 0..MaxTroubles
  BY SaveAssumption DEF Migrate, Trouble, history, IInv, TypeOK
<1>6. TypeOK'
  <2>1. outcome' \in {"none", "ok", "missing", "error", "killed"}
    BY DEF IInv, TypeOK, Migrate
  <2>. QED
    BY <1>1, <1>2, <1>3, <1>4, <1>5, <2>1 DEF IInv, TypeOK, svDisk
<1>7. Steady'
  BY <1>1, <1>5, UndisturbedBefore DEF IInv, TextKept, Steady
<1>8. Untroubled'
  <2> SUFFICES ASSUME Older, ~killed, faults' \subseteq {"rename"}, ~backup'
               PROVE  /\ ~fresh
                      /\ phase' = "migrate" /\ pc' \in {"write", "verify"}
                      /\ \A f \in Paths : f < k' \/ pc' = "verify" => mgTemp'[f] = gen
    BY <1>1, <1>2, <1>3, <1>5 DEF Untroubled, Older
  <2>1. /\ ~fresh /\ pc \in {"write", "verify"}
        /\ \A f \in Paths : f < k \/ pc = "verify" => mgTemp[f] = gen
    BY <1>1, <1>5 DEF IInv, Untroubled
  <2>2. Mg!Progress \/ Mg!RenameFault
    BY DEF Migrate, Trouble, MgFault
  <2>3. k \in 1..4 /\ mgTemp \in [Paths -> Mg!Bytes]
    BY DEF IInv, TypeOK, Mg!TypeOK, Mg!Files, Paths
  <2>4. Mg!WriteTemp \/ Mg!VerifyTemp
    BY <2>1, <2>2, <2>3
    DEF Mg!Progress, Mg!RenameFault, Mg!VerifyTempDiffers, Mg!VerifyTempFails, Mg!ParkOriginal, Mg!InstallTemp,
        Mg!RemoveInstalled, Mg!RestoreOriginal, Mg!RemoveTemp, Mg!DropRollback,
        Mg!ParkOriginalFails, Mg!InstallTempFails, Paths
  <2>5. CASE Mg!WriteTemp
    BY <1>2, <1>3, <2>1, <2>3, <2>5
    DEF Mg!WriteTemp, Mg!Advance, Paths, Active, Mg!Busy
  <2>6. CASE Mg!VerifyTemp
    BY <1>1, <1>2, <1>3, <2>1, <2>3, <2>6
    DEF Mg!VerifyTemp, Mg!Advance, Paths, Active, Mg!Busy
  <2>. QED
    BY <2>4, <2>5, <2>6
<1>. QED
  BY <1>4, <1>6, <1>7, <1>8 DEF IInv

(* A save is started; an older layout is migrated first.                   *)
LEMMA StartStep == IInv /\ StartSave => IInv'
<1> SUFFICES ASSUME IInv, StartSave PROVE IInv'
  OBVIOUS
<1> USE FilesAre
<1>1. UNCHANGED <<final, kind, backup, fresh, faults, killed, troubles>> /\ phase = "idle"
      /\ UNCHANGED <<mgTemp, mgRollback, svTemp, svRollback>>
  BY DEF StartSave, history, mgDisk, svDisk, Mg!Begin, Mg!disk
<1>2. TypeOK'
  <2>1. CASE Mg!Begin /\ kept' = [f \in {Map, Body} |-> kept[f] \cup {gen'}]
    <3>1. MgP!TypedOver(Paths)'
      BY <2>1, MgBegin DEF IInv
    <3>2. kept' \in [{Map, Body} -> SUBSET (1..MaxGen)]
      BY <2>1, <3>1 DEF IInv, TypeOK, MgP!TypedOver
    <3>. QED
      BY <1>1, <3>1, <3>2, TypedParts DEF IInv, TypeOK, StartSave
  <2>2. CASE UNCHANGED <<writer, kept>>
    BY <1>1, <2>2 DEF IInv, TypeOK, Mg!TypeOK, writer, StartSave
  <2>. QED
    BY <2>1, <2>2 DEF StartSave
<1>3. Whole'
  BY <1>1 DEF IInv, Whole
<1>4. CASE MigrationNeeded
  <2>1. Mg!Begin /\ phase' = "migrate"
    BY <1>4 DEF StartSave
  <2>2. /\ MgP!Stages' /\ pc' = "write" /\ k' = 1 /\ gen' = gen + 1 /\ gen' > 1
        /\ before' = final
    BY <2>1, MgBegin DEF IInv
  <2>3. \A d \in {final, mgTemp, mgRollback, svTemp, svRollback} : d[Body] = NoFile
    BY <1>4 DEF MigrationNeeded, Layout
  <2>4. Writers'
    BY <2>1, <2>2 DEF Writers, Active, Mg!Busy
  <2>5. kind = "v3" => fresh
    <3> SUFFICES ASSUME kind = "v3", ~fresh PROVE FALSE
      OBVIOUS
    <3>1. NoFile \notin kept[Body]
      BY DEF IInv, TypeOK
    <3>. QED
      BY <1>1, <2>3, <3>1 DEF IInv, TextKept
  <2>6. TextKept' /\ Steady'
    BY <1>1, <2>5, UndisturbedBefore DEF IInv, TextKept, Steady
  <2>7. Unmigrated'
    BY <1>1, <2>1, <2>2 DEF IInv, Unmigrated, Older
  <2>8. Untroubled'
    BY <1>1, <2>1, <2>2 DEF IInv, Untroubled, Older, Paths
  <2>9. Settled'
    BY <1>1, <2>1, <2>2, <2>3
    DEF IInv, Settled, Older, BodyThere, SvUntouched, NoneOld, OldGone
  <2>. QED
    BY <1>2, <1>3, <2>4, <2>6, <2>7, <2>8, <2>9 DEF IInv
<1>5. CASE ~MigrationNeeded
  <2>1. phase' = "load" /\ UNCHANGED <<before, pc, moved, damaged, gen, k, kept>>
    BY <1>5 DEF StartSave, writer
  <2>2. Writers'
    BY <1>1, <2>1 DEF IInv, Writers
  <2>3. TextKept' /\ Steady'
    BY <1>1, <2>1, UndisturbedBefore DEF IInv, TextKept, Steady
  <2>4. Unmigrated'
    BY <1>1, <2>1 DEF IInv, Unmigrated, Older
  <2>5. Untroubled'
    <3> SUFFICES ASSUME Older, ~killed, faults \subseteq {"rename"}, ~backup PROVE FALSE
      BY <1>1 DEF Untroubled, Older
    <3>1. ~fresh /\ \A d \in {mgTemp, mgRollback, svTemp, svRollback} : d[Body] = NoFile
      BY <1>1 DEF IInv, Untroubled
    <3>2. \A f \in Paths : final[f] = IF f \in InitialFiles[kind] THEN 1 ELSE NoFile
      BY <3>1 DEF IInv, Unmigrated
    <3>3. final[Body] = NoFile /\ final[Json] = 1
      BY <3>2 DEF Older, InitialFiles
    <3>4. kind = "v2" => final[Map] # NoFile
      BY <3>2 DEF InitialFiles
    <3>. QED
      BY <1>5, <3>1, <3>3, <3>4 DEF MigrationNeeded, Layout, IsV3, Older
  <2>6. Settled'
    <3> SUFFICES ASSUME Older, ~BodyThere, ~NoneOld
                 PROVE  SvUntouched /\ final[Map] # NoFile /\ final[Body] = NoFile
      BY <1>1, <2>1 DEF IInv, Settled, Older, BodyThere, NoneOld, SvUntouched
    <3>1. SvUntouched
      BY <1>1 DEF IInv, Settled
    <3>2. \A d \in {final, mgTemp, mgRollback, svTemp, svRollback} : d[Body] = NoFile
      BY <3>1 DEF SvUntouched, BodyThere
    <3>3. Layout # "v3"
      BY <3>2 DEF Layout
    <3>4. final[Map] # NoFile
      BY <1>5, <3>1, <3>3 DEF MigrationNeeded, Layout, IsV3, Older, SvUntouched, NoneOld
    <3>. QED
      BY <3>1, <3>2, <3>4
  <2>. QED
    BY <1>2, <1>3, <2>2, <2>3, <2>4, <2>5, <2>6 DEF IInv
<1>. QED
  BY <1>4, <1>5

(* What all steps that begin to write have in common.                      *)
LEMMA LoadTyped ==
  ASSUME IInv, Sv!Begin, UNCHANGED <<mgDisk, kind, backup, outcome, history>>,
         kept' \in [{Map, Body} -> SUBSET (1..MaxGen)], fresh' \in BOOLEAN,
         phase' = "install"
  PROVE  TypeOK' /\ Writers' /\ Whole'
<1>1. /\ SvP!TypedOver(Paths)' /\ SvP!Stages' /\ pc' = "write" /\ gen' > 1
      /\ final' = final
  BY SvBegin DEF IInv
<1>2. TypeOK'
  BY <1>1, TypedParts, FilesAre DEF IInv, TypeOK, Mg!TypeOK, Mg!Files, Paths, mgDisk, history
<1>3. Writers'
  BY <1>1 DEF Writers, Active, Mg!Busy
<1>4. Whole'
  BY <1>1 DEF IInv, Whole
<1>. QED
  BY <1>2, <1>3, <1>4

(* No Map is found: the directory is taken for a new one.                  *)
LEMMA LoadFreshStep == IInv /\ LoadFresh => IInv'
<1> SUFFICES ASSUME IInv, LoadFresh PROVE IInv'
  OBVIOUS
<1> USE FilesAre
<1>1. /\ phase = "load" /\ phase' = "install" /\ final[Map] = NoFile
      /\ fresh' = (fresh \/ kind # "empty") /\ Sv!Begin
      /\ UNCHANGED <<mgTemp, mgRollback, kind, kept, backup, faults, killed, troubles>>
  BY DEF LoadFresh, mgDisk, history
<1>2. /\ before' = final /\ final' = final /\ svRollback' = svRollback /\ moved' = {}
      /\ svTemp' = svTemp /\ pc' = "write"
  BY <1>1, SvBegin DEF IInv, svDisk
<1>3. TypeOK' /\ Writers' /\ Whole'
  BY LoadTyped DEF IInv, TypeOK, LoadFresh
<1>4. TextKept' /\ Unmigrated'
  BY <1>1 DEF TextKept, Unmigrated, Older
<1>5. Steady'
  BY <1>1, UndisturbedBefore DEF IInv, Steady
<1>6. Untroubled'
  BY <1>1 DEF IInv, Untroubled, Older
<1>7. Settled'
  BY <1>1, <1>2 DEF IInv, Settled, Older, BodyThere, BodyStays, NoneOld, OldGone
<1>. QED
  BY <1>3, <1>4, <1>5, <1>6, <1>7 DEF IInv

(* The state is loaded: what the user wrote is carried over.               *)
LEMMA LoadExistingStep == IInv /\ LoadExisting => IInv'
<1> SUFFICES ASSUME IInv, LoadExisting PROVE IInv'
  OBVIOUS
<1> USE FilesAre
<1>1. /\ phase = "load" /\ phase' = "install" /\ Sv!Begin
      /\ final[Map] # NoFile /\ final[Body] # NoFile
      /\ kept' = [f \in {Map, Body} |->
                    IF final[f] \in kept[f] THEN kept[f] \cup {gen'} ELSE kept[f]]
      /\ UNCHANGED <<mgTemp, mgRollback, kind, fresh, backup, faults, killed, troubles>>
  BY DEF LoadExisting, mgDisk, history
<1>2. /\ before' = final /\ final' = final /\ svRollback' = svRollback /\ moved' = {}
      /\ svTemp' = svTemp /\ pc' = "write" /\ gen' \in 1..MaxGen /\ ~damaged'
  BY <1>1, SvBegin DEF IInv, svDisk, SvP!TypedOver
<1>3. TypeOK' /\ Writers' /\ Whole'
  <2>1. kept' \in [{Map, Body} -> SUBSET (1..MaxGen)]
    BY <1>1, <1>2 DEF IInv, TypeOK
  <2>. QED
    BY <2>1, LoadTyped DEF IInv, TypeOK, LoadExisting
<1>4. TextKept'
  BY <1>1, <1>2 DEF IInv, TextKept
<1>5. Steady'
  BY <1>1, <1>2, UndisturbedBefore DEF IInv, Steady
<1>6. Unmigrated'
  BY <1>1 DEF IInv, Unmigrated, Older, InitialFiles
<1>7. Untroubled'
  BY <1>1 DEF IInv, Untroubled, Older
<1>8. Settled'
  BY <1>1, <1>2 DEF IInv, Settled, Older, BodyStays, NoneOld, OldGone
<1>. QED
  BY <1>3, <1>4, <1>5, <1>6, <1>7, <1>8 DEF IInv

(* A Map without its content files ends the save.                          *)
LEMMA LoadMissingStep == IInv /\ LoadMissingContent => IInv'
<1> SUFFICES ASSUME IInv, LoadMissingContent PROVE IInv'
  OBVIOUS
<1> USE FilesAre
<1>1. /\ phase = "load" /\ phase' = "idle" /\ outcome' = "missing"
      /\ UNCHANGED <<final, mgTemp, mgRollback, svTemp, svRollback>>
      /\ UNCHANGED <<gen, before, pc, k, temps, moved, damaged>>
      /\ UNCHANGED <<kind, kept, backup, fresh, faults, killed, troubles>>
  BY DEF LoadMissingContent, mgDisk, svDisk, writer, ghosts, history
<1>2. TypeOK'
  BY <1>1 DEF IInv, TypeOK, Mg!TypeOK
<1>3. Writers' /\ Whole'
  BY <1>1 DEF IInv, Writers, Whole
<1>4. TextKept' /\ Steady'
  BY <1>1, UndisturbedBefore DEF IInv, TextKept, Steady
<1>5. Unmigrated' /\ Untroubled'
  BY <1>1 DEF IInv, Unmigrated, Untroubled, Older
<1>6. Settled'
  BY <1>1 DEF IInv, Settled, Older, BodyThere, SvUntouched, NoneOld
<1>. QED
  BY <1>2, <1>3, <1>4, <1>5, <1>6 DEF IInv

(* What a step of the save, or its death, leaves of the text of a v3       *)
(* directory and of the older layout.                                      *)
LEMMA SvLeaves ==
  ASSUME IInv, phase = "install", Sv!Work \/ Sv!Crash,
         UNCHANGED <<mgDisk, ghosts>>,
         phase' = IF pc' \in Active THEN "install" ELSE "idle"
  PROVE  /\ Mg!TypeOK' /\ Writers' /\ Whole'
         /\ svTemp' \in [Paths -> Mg!Bytes] /\ svRollback' \in [Paths -> Mg!Bytes]
         /\ TextKept' /\ Unmigrated' /\ Settled'
<1> USE FilesAre
<1>1. /\ SvP!TypedOver(Paths)' /\ SvP!Stages'
      /\ gen' = gen /\ before' = before /\ \A f \in 1..3 : SvP!Moves(f)
      /\ final'[Config] = final[Config]
      /\ pc' \in Active \cup {"done", "failed", "crashed"}
  BY SvStep DEF IInv, Writers
<1>2. /\ UNCHANGED <<mgTemp, mgRollback, kind, kept, backup, fresh>>
      /\ gen > 1 /\ gen # NoFile
  BY DEF mgDisk, ghosts, IInv, Writers
<1>3. /\ Mg!TypeOK'
      /\ svTemp' \in [Paths -> Mg!Bytes] /\ svRollback' \in [Paths -> Mg!Bytes]
  BY <1>1, <1>2, TypedParts DEF IInv, TypeOK, Mg!TypeOK, Mg!Files, Paths
<1>4. Writers'
  BY <1>1, <1>2 DEF Writers, Mg!Rest, Active, Mg!Busy
<1>5. Whole'
  <2>1. \A f \in 1..3 : final'[f] # Mg!Torn
    BY <1>1 DEF SvP!Stages, SvP!OldNewOrNone, SvP!NoFile, SvP!Torn, Mg!Torn, SvP!TypedOver
  <2>2. \A f \in Paths : f \in 1..3 \/ f = Config
    BY DEF Paths
  <2>. QED
    BY <1>1, <2>1, <2>2 DEF IInv, Whole
\* The call is over: what it began with or what it wrote is there.
<1>6. ASSUME phase' = "idle", NEW f \in 1..3, before[f] # NoFile
      PROVE  \/ final'[f] \in {before[f], gen}
             \/ final'[f] = NoFile /\ svRollback'[f] = before[f]
  <2>1. CASE pc' = "done"
    BY <1>1, <1>2, <2>1 DEF SvP!Stages, SvP!CommitIsComplete
  <2>2. CASE pc' \in {"failed", "crashed"}
    BY <1>1, <1>6, <2>2
    DEF SvP!Stages, SvP!OriginalsKept, SvP!OldNewOrNone, SvP!NoFile
  <2>. QED
    BY <1>1, <1>6, <2>1, <2>2
<1>7. TextKept'
  <2> SUFFICES ASSUME kind = "v3", ~fresh, NEW f \in {Map, Body}
               PROVE  /\ phase' = "idle" => \/ final'[f] \in kept[f]
                                            \/ final'[f] = NoFile /\ svRollback'[f] \in kept[f]
                      /\ before[f] \in kept[f] /\ gen \in kept[f]
    BY <1>1, <1>2 DEF TextKept
  <2>1. before[f] \in kept[f] /\ gen \in kept[f]
    BY DEF IInv, TextKept
  <2>2. before[f] # NoFile
    BY <2>1 DEF IInv, TypeOK
  <2>. QED
    BY <1>6, <2>1, <2>2
<1>8. Unmigrated'
  BY <1>2 DEF IInv, Unmigrated, Older
<1>9. Settled'
  <2> SUFFICES ASSUME Older PROVE Settled'
    BY <1>2 DEF Settled, Older
  <2>1. OldGone => OldGone'
    BY <1>1, <1>2 DEF OldGone, NoneOld, SvP!Moves, SvP!NoFile
  <2>2. BodyStays => BodyStays'
    BY <1>1, <1>2 DEF BodyStays, SvP!Moves, SvP!NoFile
  <2>3. phase' = "idle" /\ BodyStays' => BodyThere'
    BY <1>1, <1>2, <1>6 DEF BodyStays, BodyThere
  <2>4. OldGone' => NoneOld'
    BY DEF OldGone
  <2>. QED
    BY <1>1, <2>1, <2>2, <2>3, <2>4 DEF IInv, Settled
<1>. QED
  BY <1>3, <1>4, <1>5, <1>7, <1>8, <1>9

LEMMA InstallStep == IInv /\ Install => IInv'
<1> SUFFICES ASSUME IInv, Install PROVE IInv'
  OBVIOUS
<1> USE FilesAre
<1>1. Sv!Work /\ phase = "install" /\ UNCHANGED <<mgDisk, ghosts>>
  BY DEF Install, SvFault, Sv!Work
<1>2. /\ SvP!Stages' /\ gen' = gen /\ before' = before
      /\ pc' \in Active \cup {"done", "failed"}
  BY <1>1, SvStep DEF IInv, Writers
<1>3. phase' = IF pc' \in Active THEN "install" ELSE "idle"
  BY <1>2 DEF Install, Active, Mg!Busy
<1>4. /\ Mg!TypeOK' /\ Writers' /\ Whole'
      /\ svTemp' \in [Paths -> Mg!Bytes] /\ svRollback' \in [Paths -> Mg!Bytes]
      /\ TextKept' /\ Unmigrated' /\ Settled'
  BY <1>1, <1>3, SvLeaves
<1>5. killed' = killed /\ faults \subseteq faults' /\ faults' \subseteq Faults
      /\ troubles' \in 0..MaxTroubles
  BY SaveAssumption DEF Install, Trouble, history, IInv, TypeOK
<1>6. TypeOK'
  <2>1. outcome' \in {"none", "ok", "missing", "error", "killed"}
    BY DEF IInv, TypeOK, Install
  <2>. QED
    BY <1>1, <1>3, <1>4, <1>5, <2>1 DEF IInv, TypeOK, ghosts
<1>7. Steady'
  <2> SUFFICES ASSUME kind = "v3", Undisturbed'
               PROVE  /\ ~fresh /\ ~damaged'
                      /\ \A f \in {Map, Body} : /\ phase' = "idle" => final'[f] # NoFile
                                               /\ before[f] # NoFile
    BY <1>1, <1>2, <1>3 DEF Steady, ghosts
  <2>1. Undisturbed
    BY <1>1, <1>5, UndisturbedBefore DEF ghosts
  <2>2. /\ ~fresh /\ ~damaged /\ \A f \in {Map, Body} : before[f] # NoFile
    BY <1>1, <2>1 DEF IInv, Steady
  <2>3. "undo" \notin faults'
    BY DEF Undisturbed
  <2>4. Sv!Progress \/ Sv!WriteFault \/ Sv!RenameFault \/ Sv!CleanupFault
    BY <2>3 DEF Install, SvFault, Trouble
  <2>5. ~damaged'
    BY <2>2, <2>4, WriterAssumptions, SvSame, SvP!Undamaged
  <2>6. ASSUME phase' = "idle", NEW f \in {Map, Body} PROVE final'[f] # NoFile
    <3>1. CASE pc' = "done"
      BY <1>1, <1>2, <3>1 DEF IInv, Writers, SvP!Stages, SvP!CommitIsComplete
    <3>2. CASE pc' = "failed"
      BY <1>2, <2>2, <2>5, <3>2 DEF SvP!Stages, SvP!Undoing
    <3>. QED
      BY <1>2, <1>3, <2>6, <3>1, <3>2
  <2>. QED
    BY <2>2, <2>5, <2>6
<1>8. Untroubled'
  BY <1>1, <1>5 DEF IInv, Untroubled, Older, ghosts
<1>. QED
  BY <1>4, <1>6, <1>7, <1>8 DEF IInv

(* The process is killed, wherever it is.                                  *)
LEMMA KillStep == IInv /\ Kill => IInv'
<1> SUFFICES ASSUME IInv, Kill PROVE IInv'
  OBVIOUS
<1> USE FilesAre
<1>1. /\ phase' = "idle" /\ outcome' = "killed" /\ UNCHANGED ghosts
      /\ troubles' \in 0..MaxTroubles /\ UNCHANGED <<kind, kept, backup, fresh>>
  BY SaveAssumption DEF Kill, Trouble, ghosts, IInv, TypeOK
<1>k. killed' = TRUE /\ faults' = faults
  BY Zenon DEF Kill, Trouble
<1>2. Steady' /\ Untroubled'
  BY <1>k DEF Steady, Untroubled, Undisturbed
<1>3. ASSUME Mg!TypeOK', svTemp' \in [Paths -> Mg!Bytes], svRollback' \in [Paths -> Mg!Bytes]
      PROVE  TypeOK'
  BY <1>1, <1>k, <1>3 DEF IInv, TypeOK
<1>4. CASE phase = "install"
  <2>1. Sv!Crash /\ UNCHANGED mgDisk
    BY <1>4 DEF Kill
  <2>2. pc' \in {"crashed", "done"}
    BY <1>4, <2>1, SvStep DEF IInv, Writers
  <2>3. pc' \notin Active
    BY <2>2 DEF Active, Mg!Busy
  <2>. QED
    BY <1>1, <1>2, <1>3, <1>4, <2>1, <2>3, SvLeaves DEF IInv, Kill
<1>5. CASE phase = "load"
  <2>1. UNCHANGED <<final, mgTemp, mgRollback, svTemp, svRollback>>
        /\ UNCHANGED <<gen, before, pc, k, temps, moved, damaged>>
    BY <1>5 DEF Kill, mgDisk, svDisk, writer
  <2>2. TypeOK'
    BY <1>3, <2>1 DEF IInv, TypeOK, Mg!TypeOK
  <2>3. Writers' /\ Whole' /\ TextKept'
    BY <1>1, <1>5, <2>1 DEF IInv, Writers, Whole, TextKept
  <2>4. Unmigrated'
    BY <1>1, <2>1 DEF IInv, Unmigrated, Older
  <2>5. Settled'
    BY <1>1, <1>5, <2>1 DEF IInv, Settled, Older, BodyThere, SvUntouched, NoneOld
  <2>. QED
    BY <1>2, <2>2, <2>3, <2>4, <2>5 DEF IInv
<1>6. CASE phase = "migrate"
  <2>1. Mg!Crash /\ UNCHANGED svDisk
    BY <1>6 DEF Kill
  <2>2. pc' \in {"crashed", "done"}
    BY <1>6, <2>1, MgStep DEF IInv, Writers
  <2>3. pc' \notin Active /\ pc' # "swap"
    BY <2>2 DEF Active, Mg!Busy
  <2>4. backup' = (backup \/ (pc = "verify" /\ pc' = "swap"))
    BY <1>1, <2>3 DEF IInv, TypeOK
  <2>5. Mg!TypeOK' /\ Writers' /\ Whole' /\ TextKept' /\ Unmigrated' /\ Settled'
    BY <1>1, <1>6, <2>1, <2>3, <2>4, MgLeaves
  <2>. QED
    BY <1>2, <1>3, <2>1, <2>5 DEF IInv, TypeOK, svDisk
<1>. QED
  BY <1>4, <1>5, <1>6 DEF Kill

(* Every step keeps the inductive invariant.                               *)
LEMMA NextInv == IInv /\ [Next]_vars => IInv'
<1> SUFFICES ASSUME IInv, [Next]_vars PROVE IInv'
  OBVIOUS
<1>1. CASE UNCHANGED vars
  <2>1. /\ UNCHANGED <<final, mgTemp, mgRollback, svTemp, svRollback>>
        /\ UNCHANGED <<gen, before, pc, k, temps, moved, damaged>>
        /\ UNCHANGED <<kind, kept, backup, fresh, phase, outcome>>
        /\ UNCHANGED <<faults, killed, troubles>>
    BY <1>1 DEF vars, mgDisk, svDisk, writer, ghosts, history
  <2>2. TypeOK' /\ Whole'
    BY <2>1 DEF IInv, TypeOK, Mg!TypeOK, Whole
  <2>3. Writers'
    <3>1. MgP!Stages => MgP!Stages'
      BY <2>1 DEF MgP!Stages, MgP!Untouched, MgP!Swapping, MgP!Undoing, MgP!Dropping,
         MgP!LastIsCommit, MgP!OldNewOrNone, MgP!OriginalsKept, MgP!CommitIsComplete,
         MgP!Parked, MgP!Ready
    <3>2. SvP!TypedOver(Paths) /\ SvP!Stages => SvP!TypedOver(Paths)' /\ SvP!Stages'
      BY <2>1 DEF SvP!TypedOver, SvP!Stages, SvP!Untouched, SvP!Swapping, SvP!Undoing,
         SvP!Dropping, SvP!LastIsCommit, SvP!OldNewOrNone, SvP!OriginalsKept,
         SvP!CommitIsComplete, SvP!Parked, SvP!Ready
    <3>. QED
      BY <2>1, <3>1, <3>2 DEF IInv, Writers
  <2>4. TextKept' /\ Steady'
    BY <2>1, UndisturbedBefore DEF IInv, TextKept, Steady
  <2>5. Unmigrated' /\ Untroubled'
    BY <2>1 DEF IInv, Unmigrated, Untroubled, Older
  <2>6. Settled'
    BY <2>1 DEF IInv, Settled, Older, BodyThere, BodyStays, SvUntouched, NoneOld, OldGone
  <2>. QED
    BY <2>2, <2>3, <2>4, <2>5, <2>6 DEF IInv
<1>. QED
  BY <1>1, StartStep, MigrateStep, LoadFreshStep, LoadMissingStep, LoadExistingStep,
     InstallStep, KillStep DEF Next

LEMMA Invariance == Spec => []IInv
<1>1. IInv /\ [Next]_vars => IInv'
  BY NextInv
<1>. QED
  BY InitInv, <1>1, PTL DEF Spec

-----------------------------------------------------------------------------

(* What the user has written is on the disk, or in the backup of the       *)
(* migration, unless a save has taken the directory for a new one; saves   *)
(* that fail and are reported never lose it (save.mjs, loadExistingState). *)
THEOREM TextIsKept == Spec => []TextSurvives
<1>1. ASSUME IInv PROVE TextSurvives
  <2> USE FilesAre
  <2>1. TypeOK
    BY <1>1 DEF IInv
  <2>2. LostOnlyByFreshStart
    <3> SUFFICES ASSUME ~fresh, kind # "empty", ~backup, NEW f \in {Map, Body}
                 PROVE  \/ OnDisk(Source(f), 1)
                        \/ \E version \in kept[f] : OnDisk(f, version)
      BY DEF LostOnlyByFreshStart, ContentSurvives
    <3>1. CASE kind = "v3"
      <4>1. /\ phase # "migrate"
            /\ phase \in {"idle", "load"} =>
                 final[f] \in kept[f] \/ (final[f] = NoFile /\ svRollback[f] \in kept[f])
            /\ phase = "install" => before[f] \in kept[f] /\ gen \in kept[f]
        BY <1>1, <3>1 DEF IInv, TextKept
      <4>2. CASE phase = "install"
        <5>1. before[f] \in kept[f] /\ gen \in kept[f] /\ before[f] # NoFile
          BY <2>1, <4>1, <4>2 DEF TypeOK
        <5>2. \/ final[f] \in {before[f], gen} \/ svRollback[f] = before[f]
          <6>1. SvP!Stages /\ pc \in Active /\ gen > 1 /\ f \in 1..3
            BY <1>1, <4>2 DEF IInv, Writers
          <6>2. CASE pc = "cleanup"
            BY <6>1, <6>2 DEF SvP!Stages, SvP!CommitIsComplete
          <6>3. CASE pc \in Mg!Busy
            BY <5>1, <6>1, <6>3
            DEF SvP!Stages, SvP!OriginalsKept, SvP!Busy, Mg!Busy, SvP!NoFile
          <6>. QED
            BY <6>1, <6>2, <6>3 DEF Active
        <5>. QED
          BY <5>1, <5>2 DEF OnDisk
      <4>. QED
        BY <2>1, <4>1, <4>2 DEF TypeOK, OnDisk
    <3>2. CASE kind \in {"v2", "legacy"}
      BY <1>1, <3>2 DEF IInv, Unmigrated, Older, InitialFiles, Source, OnDisk
    <3>. QED
      BY <2>1, <3>1, <3>2, SaveAssumption DEF TypeOK
  <2>3. FailuresLoseNothing
    <3> SUFFICES ASSUME Undisturbed, kind # "empty", ~backup PROVE ~fresh
      BY <2>2 DEF FailuresLoseNothing, LostOnlyByFreshStart, ContentSurvives
    <3>1. kind \in {"v2", "legacy", "v3"}
      BY <2>1, SaveAssumption DEF TypeOK
    <3>. QED
      BY <1>1, <3>1 DEF IInv, Steady, Untroubled, Older, Undisturbed
  <2>. QED
    BY <2>1, <2>2, <2>3 DEF TextSurvives
<1>. QED
  BY <1>1, Invariance, PTL

(* Once the config says 3.0.0 nothing of the older layout is left under    *)
(* its name, whatever fails or dies and however often (migrate-v3.mjs:     *)
(* the config is renamed last).                                            *)
THEOREM ConfigIsLast == Spec => []ConfigUpgradesLast
<1>1. IInv => ConfigUpgradesLast
  BY DEF IInv, Settled, Older, NoneOld, ConfigUpgradesLast
<1>. QED
  BY <1>1, Invariance, PTL

(* A v3 directory loads after every save, as long as failures are reported *)
(* and undone (views.mjs, writeFilesAtomically).                           *)
THEOREM StaysLoadable == Spec => []LoadableAfterSave
<1>1. IInv => LoadableAfterSave
  BY FilesAre DEF IInv, Steady, LoadableAfterSave
<1>. QED
  BY <1>1, Invariance, PTL

-----------------------------------------------------------------------------
(* HandoffState.                                                           *)

\* An ID names one node and one body.
Unique ==
  /\ \A m, n \in map : m.id = n.id /\ m.id # NoId => m = n
  /\ \A a, b \in bodies : a.id = b.id => a = b

\* Nothing has an ID that was not given to it.
Known == IdsOf(map) \subseteq used /\ BodyIds \subseteq used

\* The stored counters bound every ID ever given.
Counted == "damage" \notin risks => \A i \in used : i.n <= counters[i.sec]

\* Every ID ever given has a body.
Bodied == "deleteBoth" \notin risks => used \subseteq BodyIds

\* Nodes and bodies are where their ID says.
Home ==
  "move" \notin risks =>
    /\ \A n \in map : n.id # NoId => n.sec = n.id.sec
    /\ \A b \in bodies : b.file = b.id.sec

StateInv == StateTypeOK /\ Unique /\ Known /\ Counted /\ Bodied /\ Home

\* A node without an ID is a draft, and drafts are the user's.
Drafts == \A n \in map : n.origin = "agent" => n.id # NoId

\* What a save has left, until the next edit: nothing of the agent's beside a
\* user's status, a body for each node that was inferred, and counters that
\* bound every number in use.
Rested ==
  \A inf \in last :
    /\ \A s \in Sections : Suppressed(s) => In(s, "agent") = {}
    /\ \A n \in map : n.origin = "agent" /\ Follows(n.sec, inf) => n.id \in BodyIds
    /\ \A i \in IdsOf(map) \cup BodyIds : i.n <= counters[i.sec]

\* With it, inference that has not changed finds nothing to do.
FixedPoint == Drafts /\ Rested /\ SectionsFollowInference

-----------------------------------------------------------------------------

(* What a save computes, in the terms the proofs use.                      *)
Facts(inf, old, added, base, pick, num) ==
  /\ old \cup added = Wanted(inf) /\ old \cap added = {}
  /\ \A w \in old : pick[w] \in Candidates(w)
  /\ \A w \in added : Candidates(w) = {}
  /\ \A w \in old \cup added : /\ w \in [sec : Sections, label : Labels]
                               /\ Follows(w.sec, inf)
                               /\ w.label \in inf[w.sec]
  /\ \A w \in old : /\ pick[w] \in In(w.sec, "agent")
                    /\ w.sec \notin Singleton => pick[w].label = w.label
  /\ \A w \in added : /\ num[w] \in 1..MaxId
                      /\ base[w.sec] < num[w] /\ num[w] <= counters'[w.sec]
  /\ \A v, w \in added : v.sec = w.sec /\ num[v] = num[w] => v = w
  /\ \A s \in Sections : /\ base[s] \in Nat
                         /\ counters[s] <= base[s] /\ base[s] <= counters'[s]
  /\ \A i \in IdsOf(map) \cup BodyIds : i.n <= base[i.sec]
  /\ counters' \in [Sections -> 0..MaxId]
  /\ map' = Untouched(inf) \cup Confirmed(pick, old) \cup Numbered(num, added)
  /\ bodies' = Placed(map', Confirmed(pick, old) \cup Numbered(num, added))
  /\ used' = used \cup IdsOf(map')
  /\ last' = {inf} /\ risks' = risks /\ edits' = edits

(* The labels a save numbers are counted by a natural number.              *)
LEMMA AdvanceGrows ==
  ASSUME NEW base, NEW added, NEW s \in Sections,
         \A w \in added : w.label \in Labels
  PROVE  \E d \in Nat : Advance(base, added)[s] = base[s] + d
<1> DEFINE L == {w.label : w \in {v \in added : v.sec = s}}
<1>1. L \in SUBSET Labels
  OBVIOUS
<1>2. IsFiniteSet(L)
  BY <1>1, FS_Subset, StateAssumption
<1>3. Cardinality(L) \in Nat
  BY <1>2, FS_CardinalityType
<1>4. Advance(base, added)[s] = base[s] + Cardinality(L)
  BY DEF Advance
<1> QED BY <1>3, <1>4

(* A set of naturals with a bound has a maximum, and Max names it.         *)
LEMMA MaxOfBounded ==
  ASSUME NEW b \in Nat, NEW S \in SUBSET (0..b), S # {}
  PROVE  Max(S) \in S /\ \A n \in S : n <= Max(S)
<1> DEFINE T == {b - n : n \in S}
           R == {r \in Nat \X Nat : r[1] < r[2]}
<1>1. IsWellFoundedOn(R, Nat)
  BY NatLessThanWellFounded DEF OpToRel
<1>2. T \subseteq Nat /\ T # {}
  <2>1. \A n \in S : b - n \in Nat
    OBVIOUS
  <2> QED BY <2>1
<1>3. PICK x \in T : \A y \in T : <<y, x>> \notin R
  <2> HIDE DEF T, R
  <2> QED BY <1>1, <1>2, WFMin
<1>4. PICK m \in S : x = b - m
  OBVIOUS
<1>5. ASSUME NEW n \in S PROVE n <= m
  <2>1. b - n \in T /\ b - n \in Nat /\ x \in Nat
    BY <1>2
  <2>2. ~(b - n < x)
    BY <1>3, <2>1
  <2> QED BY <1>4, <2>2
<1>6. m \in S /\ \A n \in S : m >= n
  BY <1>5
<1>7. Max(S) \in S /\ \A n \in S : Max(S) >= n
  BY <1>6 DEF Max
<1> QED BY <1>7

(* recoverIdCounters answers the highest number of each section.           *)
LEMMA RecoveredHighest ==
  ASSUME StateTypeOK
  PROVE  \A s \in Sections : /\ Recovered[s] \in NumbersSeen(s)
                             /\ \A m \in NumbersSeen(s) : m <= Recovered[s]
<1> TAKE s \in Sections
<1>1. NumbersSeen(s) \in SUBSET (0..MaxId)
  BY StateAssumption DEF StateTypeOK, NumbersSeen, IdsOf, BodyIds, Node, Entry, Ids
<1>2. NumbersSeen(s) # {}
  BY DEF NumbersSeen
<1>3. Recovered[s] = Max(NumbersSeen(s))
  BY DEF Recovered
<1> QED BY <1>1, <1>2, <1>3, MaxOfBounded, StateAssumption

(* Every save of a typed state has the facts above.                        *)
LEMMA SaveFacts ==
  ASSUME StateTypeOK, NEW inf \in Inference, Save(inf)
  PROVE  \E old, added, base, pick, num : Facts(inf, old, added, base, pick, num)
<1> DEFINE old == {w \in Wanted(inf) : Candidates(w) # {}}
           added == Wanted(inf) \ old
           base == Recovered
<1>1. /\ counters' = Advance(base, added)
      /\ counters' \in [Sections -> 0..MaxId]
      /\ \E pick \in [old -> UNION {Candidates(w) : w \in old}], num \in [added -> 1..MaxId] :
           /\ \A w \in old : pick[w] \in Candidates(w)
           /\ IsNext(num, added, base)
           /\ LET updated == Confirmed(pick, old) \cup Numbered(num, added)
                  after == Untouched(inf) \cup updated
              IN  /\ map' = after
                  /\ bodies' = Placed(after, updated)
                  /\ used' = used \cup IdsOf(after)
  BY DEF Save
<1>2. PICK pick \in [old -> UNION {Candidates(w) : w \in old}], num \in [added -> 1..MaxId] :
        /\ \A w \in old : pick[w] \in Candidates(w)
        /\ IsNext(num, added, base)
        /\ map' = Untouched(inf) \cup (Confirmed(pick, old) \cup Numbered(num, added))
        /\ bodies' = Placed(map', Confirmed(pick, old) \cup Numbered(num, added))
        /\ used' = used \cup IdsOf(map')
  BY <1>1
<1>13. \A s \in Sections : base[s] \in NumbersSeen(s) /\ \A m \in NumbersSeen(s) : m <= base[s]
  BY RecoveredHighest
<1> HIDE DEF base
<1>3. \A w \in old \cup added : /\ w \in [sec : Sections, label : Labels]
                                /\ Follows(w.sec, inf)
                                /\ w.label \in inf[w.sec]
  BY DEF Wanted
<1>4. \A w \in old : /\ pick[w] \in In(w.sec, "agent")
                     /\ w.sec \notin Singleton => pick[w].label = w.label
  BY <1>2, <1>3 DEF Candidates
<1>5. \A s \in Sections : NumbersSeen(s) \subseteq Nat
  BY StateAssumption DEF StateTypeOK, NumbersSeen, IdsOf, BodyIds, Node, Entry, Ids
<1>6. \A s \in Sections : base[s] \in Nat /\ counters[s] <= base[s]
  BY <1>5, <1>13 DEF NumbersSeen
<1>7. \A i \in IdsOf(map) \cup BodyIds : i.n <= base[i.sec]
  <2> TAKE i \in IdsOf(map) \cup BodyIds
  <2>1. i \in Ids
    BY DEF StateTypeOK, IdsOf, BodyIds, Node, Entry
  <2>2. i.n \in NumbersSeen(i.sec) /\ i.sec \in Sections
    BY <2>1 DEF NumbersSeen, Ids
  <2> QED BY <1>13, <2>2
<1>8. \A s \in Sections : base[s] <= counters'[s]
  <2> HIDE DEF old, added
  <2> TAKE s \in Sections
  <2>1. \A w \in added : w.label \in Labels
    BY <1>3
  <2>2. \E d \in Nat : Advance(base, added)[s] = base[s] + d
    BY <2>1, AdvanceGrows
  <2> QED BY <1>1, <1>6, <2>2
<1>9. \A w \in added : /\ num[w] \in 1..MaxId
                       /\ base[w.sec] < num[w] /\ num[w] <= counters'[w.sec]
  <2> TAKE w \in added
  <2>1. num[w] \in 1..MaxId /\ w.sec \in Sections
    BY <1>2, <1>3
  <2>2. num[w] \in (base[w.sec] + 1)..counters'[w.sec]
    BY <1>1, <1>2 DEF IsNext
  <2> QED BY <1>1, <1>6, <2>1, <2>2, StateAssumption
<1>10. \A v, w \in added : v.sec = w.sec /\ num[v] = num[w] => v = w
  BY <1>2 DEF IsNext
<1>11. last' = {inf} /\ risks' = risks /\ edits' = edits
  BY DEF Save
<1>14. /\ old \cup added = Wanted(inf) /\ old \cap added = {}
       /\ \A w \in added : Candidates(w) = {}
  OBVIOUS
<1>12. Facts(inf, old, added, base, pick, num)
  BY <1>14, <1>1, <1>2, <1>3, <1>4, <1>6, <1>7, <1>8, <1>9, <1>10, <1>11 DEF Facts
<1> QED BY <1>12

(* A node of the new Map is an old one, an old one with the label that     *)
(* inference gives it, or a new one with a number above all others.        *)
LEMMA MapAfterSave ==
  ASSUME StateTypeOK, NEW inf, NEW old, NEW added, NEW base, NEW pick, NEW num,
         Facts(inf, old, added, base, pick, num), NEW n \in map'
  PROVE  \/ n \in Untouched(inf)
         \/ \E w \in old : /\ n = [pick[w] EXCEPT !.label = w.label]
                           /\ n.id = pick[w].id /\ n.sec = w.sec /\ n.label = w.label
                           /\ n.origin = "agent" /\ n \in Node
         \/ \E w \in added : /\ n = [id |-> [sec |-> w.sec, n |-> num[w]], sec |-> w.sec,
                                     label |-> w.label, origin |-> "agent"]
                             /\ n.id \in Ids /\ n \in Node
<1>1. CASE n \in Untouched(inf)
  BY <1>1
<1>2. CASE n \in Confirmed(pick, old)
  <2>1. PICK w \in old : n = [pick[w] EXCEPT !.label = w.label]
    BY <1>2 DEF Confirmed
  <2>2. /\ pick[w] \in Node /\ pick[w].sec = w.sec /\ pick[w].origin = "agent"
        /\ w.label \in Labels
    BY DEF Facts, In, StateTypeOK
  <2>3. n \in Node /\ n.id = pick[w].id /\ n.sec = w.sec /\ n.label = w.label
          /\ n.origin = "agent"
    BY <2>1, <2>2 DEF Node
  <2> QED BY <2>1, <2>3
<1>3. CASE n \in Numbered(num, added)
  <2>1. PICK w \in added :
          n = [id |-> [sec |-> w.sec, n |-> num[w]], sec |-> w.sec,
               label |-> w.label, origin |-> "agent"]
    BY <1>3 DEF Numbered
  <2>2. w.sec \in Sections /\ w.label \in Labels /\ num[w] \in 1..MaxId
    BY DEF Facts
  <2>3. n.id \in Ids /\ n \in Node
    BY <2>1, <2>2 DEF Ids, Node, Owner
  <2> QED BY <2>1, <2>3
<1> QED BY <1>1, <1>2, <1>3 DEF Facts

(* The bodies after a save: one in its node's section, or an orphan.       *)
LEMMA BodiesAfterSave ==
  ASSUME NEW inf, NEW old, NEW added, NEW base, NEW pick, NEW num,
         Facts(inf, old, added, base, pick, num)
  PROVE  /\ \A b \in bodies' :
              \/ \E n \in map' : /\ n.id # NoId
                                 /\ b = [id |-> n.id, file |-> n.sec,
                                         origin |-> IF HasUserBody(n.id) THEN "user" ELSE "agent"]
              \/ b \in bodies /\ b.id \notin IdsOf(map')
         /\ BodyIds \subseteq BodyIds'
         /\ \A n \in Confirmed(pick, old) \cup Numbered(num, added) :
              n.id # NoId => n.id \in BodyIds'
<1> DEFINE updated == Confirmed(pick, old) \cup Numbered(num, added)
           OwnBody(n) == [id |-> n.id, file |-> n.sec,
                       origin |-> IF HasUserBody(n.id) THEN "user" ELSE "agent"]
           With == {m \in map' : m.id # NoId /\ (m \in updated \/ m.id \in BodyIds)}
<1>1. bodies' = {OwnBody(n) : n \in With} \cup {b \in bodies : b.id \notin IdsOf(map')}
  BY DEF Facts, Placed
<1>2. \A n \in With : n.id \in BodyIds'
  <2> TAKE n \in With
  <2>1. OwnBody(n) \in bodies' /\ OwnBody(n).id = n.id
    BY <1>1
  <2> QED BY <2>1 DEF BodyIds
<1>3. \A b \in bodies' : \/ \E n \in map' : n.id # NoId /\ b = OwnBody(n)
                         \/ b \in bodies /\ b.id \notin IdsOf(map')
  BY <1>1
<1>4. BodyIds \subseteq BodyIds'
  <2> SUFFICES ASSUME NEW b \in bodies PROVE b.id \in BodyIds'
    BY DEF BodyIds
  <2>1. CASE b.id \in IdsOf(map')
    <3>1. PICK n \in map' : n.id = b.id /\ n.id # NoId
      BY <2>1 DEF IdsOf
    <3>2. n \in With
      BY <3>1 DEF BodyIds
    <3> QED BY <1>2, <3>1, <3>2
  <2>2. CASE b.id \notin IdsOf(map')
    BY <1>1, <2>2 DEF BodyIds
  <2> QED BY <2>1, <2>2
<1>5. \A n \in updated : n.id # NoId => n.id \in BodyIds'
  <2>1. updated \subseteq map'
    BY DEF Facts
  <2> QED BY <1>2, <2>1
<1> QED BY <1>3, <1>4, <1>5

-----------------------------------------------------------------------------

LEMMA TypeInit == StateInit => StateTypeOK
<1> SUFFICES ASSUME StateInit PROVE StateTypeOK
  OBVIOUS
<1>1. PICK start \in SUBSET {[sec |-> s, n |-> 1] : s \in Uninferred} : \E l \in Labels :
        /\ map = {[id |-> i, sec |-> i.sec, label |-> l, origin |-> "agent"] : i \in start}
        /\ bodies = {[id |-> i, file |-> i.sec, origin |-> "agent"] : i \in start}
        /\ counters = [s \in Sections |-> IF [sec |-> s, n |-> 1] \in start THEN 1 ELSE 0]
        /\ used = start
  BY DEF StateInit
<1>2. \A i \in start : i \in Ids /\ i.sec \in Sections
  BY StateAssumption DEF Ids, Sections
<1>3. map \subseteq Node /\ bodies \subseteq Entry
  BY <1>1, <1>2 DEF Node, Entry, Owner
<1>4. counters \in [Sections -> 0..MaxId]
  BY <1>1, StateAssumption
<1>5. used \subseteq Ids
  BY <1>1, <1>2
<1>6. /\ last \subseteq Inference /\ risks \subseteq Risky
      /\ edits \in 0..MaxEdits
  <2>1. last = {} /\ risks = {} /\ edits = 0
    BY DEF StateInit
  <2>2. 0 \in 0..MaxEdits
    BY StateAssumption
  <2> QED BY <2>1, <2>2
<1> QED BY <1>3, <1>4, <1>5, <1>6 DEF StateTypeOK

LEMMA StateInitInv == StateInit => StateInv
<1> SUFFICES ASSUME StateInit PROVE StateInv
  OBVIOUS
<1>1. PICK start \in SUBSET {[sec |-> s, n |-> 1] : s \in Uninferred}, l \in Labels :
        /\ map = {[id |-> i, sec |-> i.sec, label |-> l, origin |-> "agent"] : i \in start}
        /\ bodies = {[id |-> i, file |-> i.sec, origin |-> "agent"] : i \in start}
        /\ counters = [s \in Sections |-> IF [sec |-> s, n |-> 1] \in start THEN 1 ELSE 0]
        /\ used = start
  BY DEF StateInit
<1>2. StateTypeOK
  BY TypeInit
<1> DEFINE N(i) == [id |-> i, sec |-> i.sec, label |-> l, origin |-> "agent"]
           B(i) == [id |-> i, file |-> i.sec, origin |-> "agent"]
<1>8. \A i : N(i).id = i /\ N(i).sec = i.sec /\ B(i).id = i /\ B(i).file = i.sec
  OBVIOUS
<1>9. map = {N(i) : i \in start} /\ bodies = {B(i) : i \in start}
  BY <1>1
<1> HIDE DEF N, B
<1>3. /\ \A n \in map : n.id \in start /\ n.sec = n.id.sec /\ n = N(n.id)
      /\ \A b \in bodies : b.id \in start /\ b.file = b.id.sec /\ b = B(b.id)
      /\ \A i \in start : \E b \in bodies : b.id = i
  BY <1>8, <1>9
<1>5. Unique
  BY <1>3 DEF Unique
<1>6. Known /\ Bodied
  BY <1>1, <1>3 DEF Known, Bodied, IdsOf, BodyIds
<1>7. Home
  BY <1>3 DEF Home
<1>4. Counted
  <2>1. \A i \in start : i.n = 1 /\ i.sec \in Sections /\ i = [sec |-> i.sec, n |-> 1]
    BY DEF Sections
  <2> QED BY <1>1, <2>1 DEF Counted
<1> QED BY <1>2, <1>4, <1>5, <1>6, <1>7 DEF StateInv

(* What a save writes is well-typed.                                       *)
LEMMA SaveTyped ==
  ASSUME StateInv, NEW inf \in Inference, NEW old, NEW added, NEW base, NEW pick, NEW num,
         Facts(inf, old, added, base, pick, num)
  PROVE  StateTypeOK'
<1>1. map' \subseteq Node
  BY MapAfterSave DEF StateInv, StateTypeOK, Untouched
<1>2. bodies' \subseteq Entry
  <2> SUFFICES ASSUME NEW b \in bodies' PROVE b \in Entry
    OBVIOUS
  <2>1. CASE \E n \in map' : /\ n.id # NoId
                             /\ b = [id |-> n.id, file |-> n.sec,
                                     origin |-> IF HasUserBody(n.id) THEN "user" ELSE "agent"]
    BY <1>1, <2>1 DEF Entry, Node, Owner
  <2>2. CASE b \in bodies
    BY <2>2 DEF StateInv, StateTypeOK
  <2> QED BY <2>1, <2>2, BodiesAfterSave
<1>3. used' \subseteq Ids
  BY <1>1 DEF IdsOf, Node, Facts, StateInv, StateTypeOK
<1> QED BY <1>1, <1>2, <1>3 DEF Facts, StateInv, StateTypeOK

(* A save gives no ID twice: confirmed nodes keep theirs, and new ones lie *)
(* above the counter.                                                      *)
LEMMA SaveUnique ==
  ASSUME StateInv, NEW inf \in Inference, NEW old, NEW added, NEW base, NEW pick, NEW num,
         Facts(inf, old, added, base, pick, num)
  PROVE  Unique'
<1> DEFINE Old(n)   == \E w \in old : /\ n = [pick[w] EXCEPT !.label = w.label]
                                      /\ n.id = pick[w].id
           Fresh(n) == \E w \in added :
                         n = [id |-> [sec |-> w.sec, n |-> num[w]], sec |-> w.sec,
                              label |-> w.label, origin |-> "agent"]
<1>1. \A n \in map' : n \in Untouched(inf) \/ Old(n) \/ Fresh(n)
  BY MapAfterSave DEF StateInv
<1>2. \A n \in map' : (n \in Untouched(inf) \/ Old(n)) /\ n.id # NoId => n.id \in IdsOf(map)
  BY DEF Untouched, IdsOf, Facts, In
<1>3. \A n \in map' : Fresh(n) => n.id \notin IdsOf(map)
  <2> SUFFICES ASSUME NEW w \in added, [sec |-> w.sec, n |-> num[w]] \in IdsOf(map)
               PROVE FALSE
    OBVIOUS
  <2>1. num[w] <= base[w.sec]
    BY DEF Facts
  <2>2. base[w.sec] < num[w] /\ base[w.sec] \in Nat /\ num[w] \in Nat
    BY StateAssumption DEF Facts
  <2> QED BY <2>1, <2>2
<1>4. \A v, w \in old : pick[v].id = pick[w].id /\ pick[v].id # NoId
                          => v = w
  <2> SUFFICES ASSUME NEW v \in old, NEW w \in old,
                      pick[v].id = pick[w].id, pick[v].id # NoId
               PROVE  v = w
    OBVIOUS
  <2>1. pick[v] = pick[w] /\ v.sec = w.sec
    BY DEF StateInv, Unique, Facts, In
  <2>2. v.label = w.label
    <3>1. CASE v.sec \in Singleton
      BY <2>1, <3>1 DEF Facts, Inference
    <3>2. CASE v.sec \notin Singleton
      BY <2>1, <3>2 DEF Facts
    <3> QED BY <3>1, <3>2
  <2> QED BY <2>1, <2>2 DEF Facts
<1>5. \A n \in Untouched(inf), w \in old : n.id = pick[w].id /\ n.id # NoId => FALSE
  <2> SUFFICES ASSUME NEW n \in Untouched(inf), NEW w \in old,
                      n.id = pick[w].id, n.id # NoId
               PROVE FALSE
    OBVIOUS
  <2>1. n = pick[w]
    BY DEF StateInv, Unique, Untouched, Facts, In
  <2> QED BY <2>1 DEF Untouched, Facts, In
<1>6. \A m, n \in map' : m.id = n.id /\ m.id # NoId => m = n
  <2> SUFFICES ASSUME NEW m \in map', NEW n \in map', m.id = n.id, m.id # NoId
               PROVE m = n
    OBVIOUS
  <2>1. CASE Fresh(m) /\ Fresh(n)
    <3>1. PICK v \in added : m = [id |-> [sec |-> v.sec, n |-> num[v]], sec |-> v.sec,
                                  label |-> v.label, origin |-> "agent"]
      BY <2>1
    <3>2. PICK w \in added : n = [id |-> [sec |-> w.sec, n |-> num[w]], sec |-> w.sec,
                                  label |-> w.label, origin |-> "agent"]
      BY <2>1
    <3>3. v.sec = w.sec /\ num[v] = num[w]
      BY <3>1, <3>2
    <3> QED BY <3>1, <3>2, <3>3 DEF Facts
  <2>2. CASE Old(m) /\ Old(n)
    BY <1>4, <2>2
  <2>3. CASE m \in Untouched(inf) /\ n \in Untouched(inf)
    BY <2>3 DEF Untouched, StateInv, Unique
  <2>4. CASE Fresh(m) /\ ~Fresh(n)
    BY <1>1, <1>2, <1>3, <2>4
  <2>5. CASE Fresh(n) /\ ~Fresh(m)
    BY <1>1, <1>2, <1>3, <2>5
  <2>6. CASE m \in Untouched(inf) /\ Old(n)
    BY <1>5, <2>6
  <2>7. CASE n \in Untouched(inf) /\ Old(m)
    BY <1>5, <2>7
  <2> QED BY <1>1, <2>1, <2>2, <2>3, <2>4, <2>5, <2>6, <2>7
<1>7. \A a, b \in bodies' : a.id = b.id => a = b
  <2> SUFFICES ASSUME NEW a \in bodies', NEW b \in bodies', a.id = b.id PROVE a = b
    OBVIOUS
  <2> DEFINE OwnBody(n) == [id |-> n.id, file |-> n.sec,
                         origin |-> IF HasUserBody(n.id) THEN "user" ELSE "agent"]
  <2>1. \/ \E n \in map' : n.id # NoId /\ a = OwnBody(n)
        \/ a \in bodies /\ a.id \notin IdsOf(map')
    BY BodiesAfterSave
  <2>2. \/ \E n \in map' : n.id # NoId /\ b = OwnBody(n)
        \/ b \in bodies /\ b.id \notin IdsOf(map')
    BY BodiesAfterSave
  <2>3. \A n \in map' : n.id # NoId => OwnBody(n).id \in IdsOf(map')
    BY DEF IdsOf
  <2>4. \A m, n \in map' : m.id = n.id /\ m.id # NoId => OwnBody(m) = OwnBody(n)
    BY <1>6
  <2>5. \A n : OwnBody(n).id = n.id
    OBVIOUS
  <2> QED BY <2>1, <2>2, <2>3, <2>4, <2>5 DEF StateInv, Unique
<1> QED BY <1>6, <1>7 DEF Unique

(* The history and the counters keep up with what a save numbers.          *)
LEMMA SaveCounts ==
  ASSUME StateInv, NEW inf \in Inference, NEW old, NEW added, NEW base, NEW pick, NEW num,
         Facts(inf, old, added, base, pick, num)
  PROVE  Known' /\ Counted' /\ Bodied' /\ (IdsOf(map') \ IdsOf(map) \subseteq
            {[sec |-> w.sec, n |-> num[w]] : w \in added})
<1>1. \A n \in map' : n.id \notin IdsOf(map) /\ n.id # NoId =>
        n \in Numbered(num, added)
        /\ n.id \in {[sec |-> w.sec, n |-> num[w]] : w \in added}
  <2> SUFFICES ASSUME NEW n \in map', n.id \notin IdsOf(map), n.id # NoId
               PROVE  /\ n \in Numbered(num, added)
                      /\ n.id \in {[sec |-> w.sec, n |-> num[w]] : w \in added}
    OBVIOUS
  <2>1. n \notin Untouched(inf)
    BY DEF Untouched, IdsOf
  <2>2. \A w \in old : n.id # pick[w].id
    BY DEF Facts, In, IdsOf
  <2>3. PICK w \in added : n = [id |-> [sec |-> w.sec, n |-> num[w]], sec |-> w.sec,
                               label |-> w.label, origin |-> "agent"]
    BY <2>1, <2>2, MapAfterSave DEF StateInv
  <2> QED BY <2>3 DEF Numbered
<1>2. IdsOf(map') \ IdsOf(map) \subseteq {[sec |-> w.sec, n |-> num[w]] : w \in added}
  BY <1>1 DEF IdsOf
<1>3. IdsOf(map') \ IdsOf(map) \subseteq BodyIds'
  BY <1>1, BodiesAfterSave DEF IdsOf
<1>4. BodyIds' \subseteq IdsOf(map') \cup BodyIds
  BY BodiesAfterSave DEF BodyIds, IdsOf
<1>5. Known'
  BY <1>4 DEF Known, Facts, StateInv
<1>6. Bodied'
  <2>1. used' \subseteq used \cup (IdsOf(map') \ IdsOf(map))
    BY DEF Facts, StateInv, Known
  <2>2. risks' = risks
    BY DEF Facts
  <2> QED BY <1>3, <2>1, <2>2, BodiesAfterSave DEF StateInv, Bodied
<1>7. Counted'
  <2> SUFFICES ASSUME "damage" \notin risks, NEW i \in used' PROVE i.n <= counters'[i.sec]
    BY DEF Facts, Counted
  <2>1. CASE i \in used
    <3>1. i.sec \in Sections /\ i.n \in Nat
      BY <2>1 DEF StateInv, StateTypeOK, Ids
    <3>2. /\ counters[i.sec] \in Nat /\ counters'[i.sec] \in Nat
          /\ counters[i.sec] <= counters'[i.sec]
      <4>1. /\ base[i.sec] \in Nat /\ counters[i.sec] <= base[i.sec]
            /\ base[i.sec] <= counters'[i.sec] /\ counters' \in [Sections -> 0..MaxId]
        BY <3>1 DEF Facts
      <4>2. counters \in [Sections -> 0..MaxId]
        BY DEF StateInv, StateTypeOK
      <4> QED BY <3>1, <4>1, <4>2, StateAssumption
    <3> QED BY <2>1, <3>1, <3>2 DEF StateInv, Counted
  <2>2. CASE i \in IdsOf(map') \ IdsOf(map)
    <3>1. PICK w \in added : i = [sec |-> w.sec, n |-> num[w]]
      BY <1>2, <2>2
    <3>2. num[w] <= counters'[w.sec]
      BY DEF Facts
    <3> QED BY <3>1, <3>2
  <2>3. used' = used \cup IdsOf(map') /\ IdsOf(map) \subseteq used
    BY DEF Facts, StateInv, Known
  <2> QED BY <2>1, <2>2, <2>3
<1> QED BY <1>2, <1>5, <1>6, <1>7

(* Without moves, a save leaves everything where its ID says.              *)
LEMMA SaveHome ==
  ASSUME StateInv, NEW inf \in Inference, NEW old, NEW added, NEW base, NEW pick, NEW num,
         Facts(inf, old, added, base, pick, num)
  PROVE  Home'
<1> SUFFICES ASSUME "move" \notin risks
             PROVE  /\ \A n \in map' : n.id # NoId => n.sec = n.id.sec
                    /\ \A b \in bodies' : b.file = b.id.sec
  BY DEF Facts, Home
<1>1. ASSUME NEW n \in map', n.id # NoId PROVE n.sec = n.id.sec
  <2>1. CASE n \in Untouched(inf)
    BY <1>1, <2>1 DEF Untouched, StateInv, Home
  <2>2. CASE \E w \in old : n.id = pick[w].id /\ n.sec = w.sec
    BY <1>1, <2>2 DEF Facts, In, StateInv, Home
  <2>3. CASE \E w \in added : n = [id |-> [sec |-> w.sec, n |-> num[w]], sec |-> w.sec,
                                   label |-> w.label, origin |-> "agent"]
    BY <2>3
  <2> QED BY <2>1, <2>2, <2>3, MapAfterSave DEF StateInv
<1>2. \A b \in bodies' : b.file = b.id.sec
  <2> SUFFICES ASSUME NEW b \in bodies' PROVE b.file = b.id.sec
    OBVIOUS
  <2>1. CASE \E n \in map' : /\ n.id # NoId
                             /\ b = [id |-> n.id, file |-> n.sec,
                                     origin |-> IF HasUserBody(n.id) THEN "user" ELSE "agent"]
    BY <1>1, <2>1
  <2>2. CASE b \in bodies
    BY <2>2 DEF StateInv, Home
  <2> QED BY <2>1, <2>2, BodiesAfterSave
<1> QED BY <1>1, <1>2

LEMMA SaveInv == ASSUME StateInv, NEW inf \in Inference, Save(inf) PROVE StateInv'
<1>1. PICK old, added, base, pick, num : Facts(inf, old, added, base, pick, num)
  BY SaveFacts DEF StateInv
<1>2. StateTypeOK'
  BY <1>1, SaveTyped
<1>3. Unique'
  BY <1>1, SaveUnique
<1>4. Known' /\ Counted' /\ Bodied'
  BY <1>1, SaveCounts
<1>5. Home'
  BY <1>1, SaveHome
<1> QED BY <1>2, <1>3, <1>4, <1>5 DEF StateInv

-----------------------------------------------------------------------------

(* No edit makes an ID: each one only keeps, changes or drops what is there.*)
LEMMA EditLabelInv == StateInv /\ EditLabel => StateInv'
<1> SUFFICES ASSUME StateInv, EditLabel PROVE StateInv'
  OBVIOUS
<1>1. PICK n \in map : \E l \in Labels \ {n.label} :
        map' = (map \ {n}) \cup {[n EXCEPT !.label = l, !.origin = "user"]}
  BY DEF EditLabel
<1>2. PICK l \in Labels :
        map' = (map \ {n}) \cup {[n EXCEPT !.label = l, !.origin = "user"]}
  BY <1>1
<1> DEFINE e == [n EXCEPT !.label = l, !.origin = "user"]
<1>3. e \in Node /\ e.id = n.id /\ e.sec = n.sec
  BY DEF StateInv, StateTypeOK, Node, Owner
<1>4. map' = (map \ {n}) \cup {e}
  BY <1>2
<1> HIDE DEF e
<1>5. /\ bodies' = bodies /\ counters' = counters /\ used' = used /\ risks \subseteq risks' /\ risks' \subseteq Risky
      /\ last' = {} /\ edits' \in 0..MaxEdits /\ IdsOf(map') = IdsOf(map)
  BY <1>3, <1>4, StateAssumption DEF EditLabel, Edit, Risky, StateInv, StateTypeOK, IdsOf
<1>6. StateTypeOK'
  BY <1>3, <1>4, <1>5 DEF StateInv, StateTypeOK
<1>7. Unique'
  BY <1>3, <1>4, <1>5 DEF StateInv, Unique
<1>8. Known' /\ Counted' /\ Bodied'
  BY <1>5 DEF StateInv, Known, Counted, Bodied, BodyIds
<1>9. Home'
  BY <1>3, <1>4, <1>5 DEF StateInv, Home
<1> QED BY <1>6, <1>7, <1>8, <1>9 DEF StateInv

LEMMA MoveNodeInv == StateInv /\ MoveNode => StateInv'
<1> SUFFICES ASSUME StateInv, MoveNode PROVE StateInv'
  OBVIOUS
<1>1. PICK n \in {m \in map : m.id \in BodyIds} : \E s \in Sections \ {n.sec} :
        /\ map' = (map \ {n}) \cup {[n EXCEPT !.sec = s]}
        /\ bodies' = {[b EXCEPT !.file = IF b.id = n.id THEN s ELSE @] : b \in bodies}
  BY DEF MoveNode
<1>2. PICK s \in Sections :
        /\ map' = (map \ {n}) \cup {[n EXCEPT !.sec = s]}
        /\ bodies' = {[b EXCEPT !.file = IF b.id = n.id THEN s ELSE @] : b \in bodies}
  BY <1>1
<1> DEFINE e == [n EXCEPT !.sec = s]
           At(b) == [b EXCEPT !.file = IF b.id = n.id THEN s ELSE @]
<1>3. e \in Node /\ e.id = n.id
  BY DEF StateInv, StateTypeOK, Node
<1>4. \A b \in bodies : At(b) \in Entry /\ At(b).id = b.id
  BY DEF StateInv, StateTypeOK, Entry
<1>5. map' = (map \ {n}) \cup {e} /\ bodies' = {At(b) : b \in bodies}
  BY <1>2
<1>6. n.id \in Ids
  BY DEF BodyIds, StateInv, StateTypeOK, Entry
<1> HIDE DEF e, At
<1>7. /\ counters' = counters /\ used' = used /\ last' = {}
      /\ edits' \in 0..MaxEdits /\ "move" \in risks' /\ risks \subseteq risks'
      /\ risks' \subseteq Risky
  BY StateAssumption DEF MoveNode, Edit, Risky, StateInv, StateTypeOK
<1>8. IdsOf(map') = IdsOf(map) /\ BodyIds' = BodyIds
  BY <1>3, <1>4, <1>5 DEF IdsOf, BodyIds
<1>9. StateTypeOK'
  BY <1>2, <1>3, <1>4, <1>5, <1>6, <1>7 DEF StateInv, StateTypeOK
<1>10. Unique'
  BY <1>3, <1>4, <1>5 DEF StateInv, Unique
<1>11. Known' /\ Counted' /\ Bodied'
  BY <1>7, <1>8 DEF StateInv, Known, Counted, Bodied
<1>12. Home'
  BY <1>7 DEF Home
<1> QED BY <1>9, <1>10, <1>11, <1>12 DEF StateInv

LEMMA DeleteInv == StateInv /\ (DeleteNode \/ DeleteNodeAndBody) => StateInv'
<1> SUFFICES ASSUME StateInv, DeleteNode \/ DeleteNodeAndBody PROVE StateInv'
  OBVIOUS
<1>6. /\ map' \subseteq map /\ bodies' \subseteq bodies
      /\ counters' = counters /\ used' = used /\ last' = {}
      /\ edits' = edits + 1 /\ edits < MaxEdits
      /\ "deleteBoth" \notin risks' => bodies' = bodies
      /\ risks' = risks \/ risks' = risks \cup {"deleteBoth"}
  <2>1. CASE DeleteNode
    BY <2>1 DEF DeleteNode, Edit, Risky
  <2>2. CASE DeleteNodeAndBody
    BY <2>2 DEF DeleteNodeAndBody, Edit, Risky
  <2> QED BY <2>1, <2>2
<1>7. edits' \in 0..MaxEdits
  BY <1>6, StateAssumption DEF StateInv, StateTypeOK
<1>8. risks \subseteq risks' /\ risks' \subseteq Risky
  BY <1>6 DEF Risky, StateInv, StateTypeOK
<1>1. /\ map' \subseteq map /\ bodies' \subseteq bodies
      /\ counters' = counters /\ used' = used /\ last' = {}
      /\ "deleteBoth" \notin risks' => bodies' = bodies
      /\ risks \subseteq risks'
  BY <1>6, <1>8
<1>2. StateTypeOK'
  BY <1>1, <1>7, <1>8 DEF StateInv, StateTypeOK
<1>3. Unique'
  BY <1>1 DEF StateInv, Unique
<1>4. Known' /\ Counted' /\ Bodied'
  BY <1>1 DEF StateInv, Known, Counted, Bodied, IdsOf, BodyIds
<1>5. Home'
  BY <1>1 DEF StateInv, Home
<1> QED BY <1>2, <1>3, <1>4, <1>5 DEF StateInv

LEMMA AddDraftInv == StateInv /\ AddDraft => StateInv'
<1> SUFFICES ASSUME StateInv, AddDraft PROVE StateInv'
  OBVIOUS
<1>1. PICK s \in Sections, l \in Labels :
        map' = map \cup {[id |-> NoId, sec |-> s, label |-> l, origin |-> "user"]}
  BY DEF AddDraft
<1>2. /\ bodies' = bodies /\ counters' = counters /\ used' = used /\ risks \subseteq risks' /\ risks' \subseteq Risky
      /\ last' = {} /\ edits' \in 0..MaxEdits
  BY StateAssumption DEF AddDraft, Edit, Risky, StateInv, StateTypeOK
<1>3. IdsOf(map') = IdsOf(map)
  BY <1>1 DEF IdsOf
<1>4. StateTypeOK'
  BY <1>1, <1>2 DEF StateInv, StateTypeOK, Node, Owner
<1>5. Unique'
  BY <1>1, <1>2 DEF StateInv, Unique
<1>6. Known' /\ Counted' /\ Bodied'
  BY <1>2, <1>3 DEF StateInv, Known, Counted, Bodied, BodyIds
<1>7. Home'
  BY <1>1, <1>2 DEF StateInv, Home
<1> QED BY <1>4, <1>5, <1>6, <1>7 DEF StateInv

LEMMA EditBodyInv == StateInv /\ EditBody => StateInv'
<1> SUFFICES ASSUME StateInv, EditBody PROVE StateInv'
  OBVIOUS
<1>1. PICK b \in bodies : bodies' = (bodies \ {b}) \cup {[b EXCEPT !.origin = "user"]}
  BY DEF EditBody
<1> DEFINE e == [b EXCEPT !.origin = "user"]
<1>2. e \in Entry /\ e.id = b.id /\ e.file = b.file
  BY DEF StateInv, StateTypeOK, Entry, Owner
<1>3. bodies' = (bodies \ {b}) \cup {e}
  BY <1>1
<1> HIDE DEF e
<1>4. /\ map' = map /\ counters' = counters /\ used' = used /\ risks \subseteq risks' /\ risks' \subseteq Risky
      /\ last' = {} /\ edits' \in 0..MaxEdits /\ BodyIds' = BodyIds
  BY <1>2, <1>3, StateAssumption DEF EditBody, Edit, Risky, StateInv, StateTypeOK, BodyIds
<1>5. StateTypeOK'
  BY <1>2, <1>3, <1>4 DEF StateInv, StateTypeOK
<1>6. Unique'
  BY <1>2, <1>3, <1>4 DEF StateInv, Unique
<1>7. Known' /\ Counted' /\ Bodied'
  BY <1>4 DEF StateInv, Known, Counted, Bodied, IdsOf
<1>8. Home'
  BY <1>2, <1>3, <1>4 DEF StateInv, Home
<1> QED BY <1>5, <1>6, <1>7, <1>8 DEF StateInv

LEMMA DamageInv == StateInv /\ Damage => StateInv'
<1> SUFFICES ASSUME StateInv, Damage PROVE StateInv'
  OBVIOUS
<1>4. /\ map' = map /\ bodies' = bodies /\ used' = used /\ risks \subseteq risks' /\ risks' \subseteq Risky
      /\ last' = {} /\ edits' = edits + 1 /\ edits < MaxEdits
      /\ "damage" \notin risks' => counters' = counters
      /\ counters' = counters \/ counters' = Zero
  BY DEF Damage, Edit, Risky, StateInv, StateTypeOK
<1>5. Zero \in [Sections -> 0..MaxId]
  BY StateAssumption DEF Zero
<1>1. /\ map' = map /\ bodies' = bodies /\ used' = used /\ risks \subseteq risks' /\ risks' \subseteq Risky
      /\ last' = {} /\ edits' \in 0..MaxEdits
      /\ counters' \in [Sections -> 0..MaxId]
      /\ "damage" \notin risks' => counters' = counters
  BY <1>4, <1>5, StateAssumption DEF StateInv, StateTypeOK
<1>2. StateTypeOK'
  BY <1>1 DEF StateInv, StateTypeOK
<1>3. Unique' /\ Known' /\ Counted' /\ Bodied' /\ Home'
  BY <1>1 DEF StateInv, Unique, Known, Counted, Bodied, Home, IdsOf, BodyIds
<1> QED BY <1>2, <1>3 DEF StateInv

LEMMA StateNextInv == StateInv /\ [StateNext]_stateVars => StateInv'
<1> SUFFICES ASSUME StateInv, [StateNext]_stateVars PROVE StateInv'
  OBVIOUS
<1>1. CASE UserStep
  BY <1>1, EditLabelInv, MoveNodeInv, DeleteInv, AddDraftInv, EditBodyInv, DamageInv
     DEF UserStep
<1>2. CASE \E inf \in Inference : Save(inf)
  BY <1>2, SaveInv
<1>3. CASE UNCHANGED stateVars
  BY <1>3 DEF stateVars, StateInv, StateTypeOK, Unique, Known, Counted, Bodied, Home, IdsOf, BodyIds
<1>4. CASE SaveRefused
  BY <1>3, <1>4 DEF SaveRefused
<1> QED BY <1>1, <1>2, <1>3, <1>4 DEF StateNext

-----------------------------------------------------------------------------

(* Every reachable state has StateInv.                                     *)
THEOREM Invariant == StateSpec => []StateInv
<1>1. StateInit => StateInv
  BY StateInitInv
<1>2. StateInv /\ [StateNext]_stateVars => StateInv'
  BY StateNextInv
<1> QED BY <1>1, <1>2, PTL DEF StateSpec

(* The canonical state is well-typed: every node has an ID of the grammar  *)
(* or none, every body is in a section's file, and no counter leaves its   *)
(* range (loadHandoffState's ID_INVALID never arises from saves).          *)
THEOREM TypeCorrect == StateSpec => []StateTypeOK
<1>1. StateInv => StateTypeOK
  BY DEF StateInv
<1> QED BY <1>1, Invariant, PTL

(* As long as no node has moved to another section, whatever users edit,   *)
(* delete or lose, the state a save reads loads.                           *)
THEOREM LoadsUnlessMoved == StateSpec => []AlwaysLoadable
<1>1. StateInv => AlwaysLoadable
  <2> SUFFICES ASSUME StateInv, "move" \notin risks, NEW b \in bodies
               PROVE  /\ \A n \in map : n.id = b.id => n.sec = b.file
                      /\ b.id \notin IdsOf(map) => b.id.sec = b.file
    BY DEF StateInv, Unique, AlwaysLoadable, Loadable
  <2>1. b.id # NoId
    BY StateAssumption DEF StateInv, StateTypeOK, Entry, Ids, NoId
  <2> QED BY <2>1 DEF StateInv, Home
<1> QED BY <1>1, Invariant, PTL

(* An edit makes no ID.                                                    *)
LEMMA EditKeepsIds ==
  ASSUME StateTypeOK, UserStep
  PROVE  \A n \in map' : n.id = NoId \/ \E m \in map : n.id = m.id
<1>1. \A n \in map : n \in Node
  BY DEF StateTypeOK
<1>2. CASE EditLabel
  <2>1. PICK n \in map : \E l \in Labels \ {n.label} :
          map' = (map \ {n}) \cup {[n EXCEPT !.label = l, !.origin = "user"]}
    BY <1>2 DEF EditLabel
  <2>2. \A l : [n EXCEPT !.label = l, !.origin = "user"].id = n.id
    BY <1>1 DEF Node
  <2> QED BY <2>1, <2>2
<1>3. CASE MoveNode
  <2>1. PICK n \in map : \E s \in Sections : map' = (map \ {n}) \cup {[n EXCEPT !.sec = s]}
    BY <1>3 DEF MoveNode
  <2>2. \A s : [n EXCEPT !.sec = s].id = n.id
    BY <1>1 DEF Node
  <2> QED BY <2>1, <2>2
<1>4. CASE AddDraft
  BY <1>4 DEF AddDraft
<1>5. CASE DeleteNode \/ DeleteNodeAndBody \/ EditBody \/ Damage
  BY <1>5 DEF DeleteNode, DeleteNodeAndBody, EditBody, Damage
<1> QED BY <1>2, <1>3, <1>4, <1>5 DEF UserStep

(* IDs are never reused as long as the stored counters survive or no node  *)
(* is deleted together with its body (recoverIdCounters, allocateNodeId).  *)
THEOREM NeverReused == StateSpec => IdsNeverReused
<1>1. StateInv /\ [StateNext]_stateVars =>
        [{"deleteBoth", "damage"} \subseteq risks
           \/ (IdsOf(map') \ IdsOf(map)) \cap used = {}]_stateVars
  <2> SUFFICES ASSUME StateInv, StateNext, ~({"deleteBoth", "damage"} \subseteq risks)
               PROVE  (IdsOf(map') \ IdsOf(map)) \cap used = {}
    BY DEF stateVars
  <2>1. CASE UserStep
    <3>1. \A n \in map' : n.id = NoId \/ \E m \in map : n.id = m.id
      BY <2>1, EditKeepsIds DEF StateInv
    <3> QED BY <3>1 DEF IdsOf
  <2>2. ASSUME NEW inf \in Inference, Save(inf)
        PROVE  (IdsOf(map') \ IdsOf(map)) \cap used = {}
    <3>1. PICK old, added, base, pick, num : Facts(inf, old, added, base, pick, num)
      BY <2>2, SaveFacts DEF StateInv
    <3>2. SUFFICES ASSUME NEW w \in added, [sec |-> w.sec, n |-> num[w]] \in used PROVE FALSE
      BY <3>1, SaveCounts
    <3>3. base[w.sec] \in Nat /\ base[w.sec] < num[w] /\ num[w] \in Nat /\ w.sec \in Sections
      BY <3>1, StateAssumption DEF Facts
    <3>4. CASE "damage" \notin risks
      <4>1. num[w] <= counters[w.sec] /\ counters[w.sec] <= base[w.sec]
              /\ counters[w.sec] \in Nat
        BY <3>1, <3>2, <3>3, <3>4, StateAssumption DEF Facts, StateInv, Counted, StateTypeOK
      <4> QED BY <3>3, <4>1
    <3>5. CASE "deleteBoth" \notin risks
      <4>1. num[w] <= base[w.sec]
        BY <3>1, <3>2, <3>5 DEF Facts, StateInv, Bodied
      <4> QED BY <3>3, <4>1
    <3> QED BY <3>4, <3>5
  <2>3. CASE SaveRefused
    BY <2>3 DEF SaveRefused, stateVars, IdsOf
  <2> QED BY <2>1, <2>2, <2>3 DEF StateNext
<1> QED BY <1>1, Invariant, PTL DEF StateSpec, IdsNeverReused

(* No save loses a user's node, whatever inference says.                   *)
THEOREM UserNodesStay == StateSpec => UserNodesKept
<1>1. StateInv /\ [StateNext]_stateVars => [Saved => {n \in map : n.origin = "user"} \subseteq map']_stateVars
  <2> SUFFICES ASSUME StateInv, StateNext, Saved, stateVars' # stateVars
               PROVE  {n \in map : n.origin = "user"} \subseteq map'
    OBVIOUS
  <2>1. CASE UserStep
    BY <2>1 DEF UserStep, EditLabel, MoveNode, DeleteNode, DeleteNodeAndBody, AddDraft,
       EditBody, Damage, Edit, Saved
  <2>2. ASSUME NEW inf \in Inference, Save(inf)
        PROVE  {n \in map : n.origin = "user"} \subseteq map'
    <3>1. PICK old, added, base, pick, num : Facts(inf, old, added, base, pick, num)
      BY <2>2, SaveFacts DEF StateInv
    <3> QED BY <3>1 DEF Facts, Untouched
  <2> QED BY <2>1, <2>2 DEF StateNext, SaveRefused
<1> QED BY <1>1, Invariant, PTL DEF StateSpec, UserNodesKept

(* No save loses a body, or takes one from the user.                       *)
THEOREM BodiesStay == StateSpec => BodiesKept
<1> DEFINE Kept == \A b \in bodies : \E c \in bodies' :
                     c.id = b.id /\ (b.origin = "user" => c.origin = "user")
<1>1. StateInv /\ [StateNext]_stateVars => [Saved => Kept]_stateVars
  <2> SUFFICES ASSUME StateInv, StateNext, Saved, stateVars' # stateVars PROVE Kept
    OBVIOUS
  <2>1. CASE UserStep
    BY <2>1 DEF UserStep, EditLabel, MoveNode, DeleteNode, DeleteNodeAndBody, AddDraft,
       EditBody, Damage, Edit, Saved
  <2>2. ASSUME NEW inf \in Inference, Save(inf) PROVE Kept
    <3>1. PICK old, added, base, pick, num : Facts(inf, old, added, base, pick, num)
      BY <2>2, SaveFacts DEF StateInv
    <3> SUFFICES ASSUME NEW b \in bodies
                 PROVE  \E c \in bodies' :
                          c.id = b.id /\ (b.origin = "user" => c.origin = "user")
      OBVIOUS
    <3>2. PICK c \in bodies' : c.id = b.id
      BY <3>1, BodiesAfterSave DEF BodyIds
    <3>3. b.origin = "user" => HasUserBody(b.id)
      BY DEF HasUserBody
    <3>4. \/ c.origin = (IF HasUserBody(c.id) THEN "user" ELSE "agent")
          \/ c \in bodies
      BY <3>1, BodiesAfterSave
    <3> QED BY <3>2, <3>3, <3>4 DEF StateInv, Unique
  <2> QED BY <2>1, <2>2 DEF StateNext, SaveRefused
<1> QED BY <1>1, Invariant, PTL DEF StateSpec, BodiesKept

-----------------------------------------------------------------------------
(* Repeated inference.                                                     *)

(* A save turns each wanted label into one node of the agent's, with a     *)
(* body, and changes no other node.                                        *)
LEMMA WhatIsInferred ==
  ASSUME StateInv, Drafts, NEW inf \in Inference, NEW old, NEW added, NEW base, NEW pick, NEW num,
         Facts(inf, old, added, base, pick, num)
  PROVE  \E result :
           /\ map' = Untouched(inf) \cup {result[w] : w \in Wanted(inf)}
           /\ \A w \in Wanted(inf) :
                /\ result[w].sec = w.sec /\ result[w].label = w.label
                /\ result[w].origin = "agent" /\ result[w].id # NoId
                /\ result[w].id \in BodyIds'
<1> DEFINE Kept(w) == [pick[w] EXCEPT !.label = w.label]
           Made(w) == [id |-> [sec |-> w.sec, n |-> num[w]], sec |-> w.sec,
                       label |-> w.label, origin |-> "agent"]
           result == [w \in Wanted(inf) |-> IF w \in old THEN Kept(w) ELSE Made(w)]
<1>1. /\ old \cup added = Wanted(inf) /\ old \cap added = {}
      /\ map' = Untouched(inf) \cup Confirmed(pick, old) \cup Numbered(num, added)
      /\ \A w \in old : pick[w] \in In(w.sec, "agent")
      /\ \A w \in Wanted(inf) : w \in [sec : Sections, label : Labels]
  BY DEF Facts
<1>2. \A w \in old : /\ result[w] = Kept(w) /\ Kept(w).sec = w.sec /\ Kept(w).label = w.label
                     /\ Kept(w).origin = "agent" /\ Kept(w).id # NoId
  <2> SUFFICES ASSUME NEW w \in old
               PROVE  /\ Kept(w).sec = w.sec /\ Kept(w).label = w.label
                      /\ Kept(w).origin = "agent" /\ Kept(w).id # NoId
    BY <1>1
  <2>1. pick[w] \in Node /\ pick[w].sec = w.sec /\ pick[w].origin = "agent" /\ pick[w].id # NoId
    BY <1>1 DEF In, StateInv, StateTypeOK, Drafts
  <2> QED BY <2>1 DEF Node
<1>3. \A w \in added : /\ result[w] = Made(w) /\ Made(w).sec = w.sec /\ Made(w).label = w.label
                       /\ Made(w).origin = "agent" /\ Made(w).id # NoId
  BY <1>1, StateAssumption DEF NoId
<1>4. Confirmed(pick, old) = {Kept(w) : w \in old} /\ Numbered(num, added) = {Made(w) : w \in added}
  BY DEF Confirmed, Numbered
<1>5. {result[w] : w \in Wanted(inf)} = Confirmed(pick, old) \cup Numbered(num, added)
  <2> HIDE DEF result, Kept, Made
  <2> QED BY <1>1, <1>2, <1>3, <1>4
<1>6. \A w \in Wanted(inf) : result[w].id \in BodyIds'
  <2> HIDE DEF result, Kept, Made
  <2>1. \A n \in Confirmed(pick, old) \cup Numbered(num, added) : n.id # NoId => n.id \in BodyIds'
    BY BodiesAfterSave
  <2>2. \A w \in Wanted(inf) : /\ result[w] \in Confirmed(pick, old) \cup Numbered(num, added)
                               /\ result[w].id # NoId
    BY <1>1, <1>2, <1>3, <1>5
  <2> QED BY <2>1, <2>2
<1>7. \A w \in Wanted(inf) : /\ result[w].sec = w.sec /\ result[w].label = w.label
                             /\ result[w].origin = "agent" /\ result[w].id # NoId
  <2> HIDE DEF result, Kept, Made
  <2> QED BY <1>1, <1>2, <1>3
<1>8. map' = Untouched(inf) \cup {result[w] : w \in Wanted(inf)}
  <2> HIDE DEF result, Kept, Made
  <2> QED BY <1>1, <1>5
<1> QED BY <1>6, <1>7, <1>8

(* Every number in use is bounded by the counters that a save stores.      *)
LEMMA SaveBounds ==
  ASSUME StateInv, NEW inf \in Inference, NEW old, NEW added, NEW base, NEW pick, NEW num,
         Facts(inf, old, added, base, pick, num)
  PROVE  \A i \in IdsOf(map') \cup BodyIds' : i.n <= counters'[i.sec]
<1> SUFFICES ASSUME NEW i \in IdsOf(map') \cup BodyIds' PROVE i.n <= counters'[i.sec]
  OBVIOUS
<1>1. BodyIds' \subseteq IdsOf(map') \cup BodyIds
  BY BodiesAfterSave DEF BodyIds, IdsOf
<1>2. CASE i \in IdsOf(map) \cup BodyIds
  <2>1. i.sec \in Sections /\ i.n \in Nat
    BY <1>2 DEF StateInv, StateTypeOK, Known, Ids
  <2>2. /\ i.n <= base[i.sec] /\ base[i.sec] \in Nat /\ base[i.sec] <= counters'[i.sec]
        /\ counters' \in [Sections -> 0..MaxId]
    BY <1>2, <2>1 DEF Facts
  <2> QED BY <2>1, <2>2, StateAssumption
<1>3. CASE i \in IdsOf(map') \ IdsOf(map)
  <2>1. PICK w \in added : i = [sec |-> w.sec, n |-> num[w]]
    BY <1>3, SaveCounts
  <2> QED BY <2>1 DEF Facts
<1> QED BY <1>1, <1>2, <1>3

(* Whose nodes there are decides what a section follows: that is not the   *)
(* save's doing.                                                           *)
LEMMA SaveFixed ==
  ASSUME StateInv, Drafts, NEW inf \in Inference, Save(inf)
  PROVE  FixedPoint'
<1>1. PICK old, added, base, pick, num : Facts(inf, old, added, base, pick, num)
  BY SaveFacts DEF StateInv
<1>2. PICK result :
        /\ map' = Untouched(inf) \cup {result[w] : w \in Wanted(inf)}
        /\ \A w \in Wanted(inf) :
             /\ result[w].sec = w.sec /\ result[w].label = w.label
             /\ result[w].origin = "agent" /\ result[w].id # NoId
             /\ result[w].id \in BodyIds'
  BY <1>1, WhatIsInferred
<1>3. last' = {inf}
  BY <1>1 DEF Facts
<1>4. \A s \in Sections : In(s, "user")' = In(s, "user")
  BY <1>2 DEF In, Untouched
<1>5. \A s \in Sections : /\ Suppressed(s)' <=> Suppressed(s)
                          /\ Follows(s, inf)' <=> Follows(s, inf)
  BY <1>4 DEF Suppressed, Follows
<1>6. \A n \in map' : n.origin = "agent" =>
        \/ n \in map /\ ~Follows(n.sec, inf) /\ ~Suppressed(n.sec)
        \/ \E w \in Wanted(inf) : n = result[w]
  BY <1>2 DEF Untouched
<1>7. \A w \in Wanted(inf) : /\ w \in [sec : Sections, label : Labels] /\ Follows(w.sec, inf)
                             /\ w.label \in inf[w.sec] \ LabelsOf(In(w.sec, "user"))
  BY DEF Wanted
<1>8. \A n \in map' : n.sec \in Sections
  BY <1>1, SaveTyped DEF StateTypeOK, Node
<1>9. Drafts'
  BY <1>2, <1>6 DEF Drafts
<1>10. Rested'
  <2>1. ASSUME NEW s \in Sections, Suppressed(s)' PROVE In(s, "agent")' = {}
    <3> SUFFICES ASSUME NEW n \in map', n.sec = s, n.origin = "agent" PROVE FALSE
      BY DEF In
    <3>1. PICK w \in Wanted(inf) : n = result[w]
      BY <1>5, <1>6, <2>1
    <3>2. w.sec = s
      BY <1>2, <3>1
    <3>3. Follows(s, inf)
      BY <1>7, <3>2
    <3> QED BY <1>5, <2>1, <3>3 DEF Follows
  <2>2. ASSUME NEW n \in map', n.origin = "agent", Follows(n.sec, inf)' PROVE n.id \in BodyIds'
    BY <1>2, <1>5, <1>6, <1>8, <2>2
  <2>3. \A i \in IdsOf(map') \cup BodyIds' : i.n <= counters'[i.sec]
    BY <1>1, SaveBounds
  <2>4. IdsOf(map)' = IdsOf(map')
    BY DEF IdsOf
  <2> QED BY <1>3, <2>1, <2>2, <2>3, <2>4 DEF Rested
<1>11. SectionsFollowInference'
  <2> SUFFICES ASSUME NEW s \in Singleton \cup Listed, Follows(s, inf)
               PROVE  /\ inf[s] \subseteq LabelsOf({n \in map' : n.sec = s})
                      /\ LabelsOf(In(s, "agent")') = inf[s] \ LabelsOf(In(s, "user"))
                      /\ \A m, n \in In(s, "agent")' : m.label = n.label => m = n
    <3>1. ASSUME NEW s \in Singleton \cup Listed
          PROVE  /\ Follows(s, inf)' <=> Follows(s, inf)
                 /\ LabelsOf(In(s, "user"))' = LabelsOf(In(s, "user"))
                 /\ LabelsOf(In(s, "agent"))' = LabelsOf(In(s, "agent")')
                 /\ LabelsOf({n \in map : n.sec = s})' = LabelsOf({n \in map' : n.sec = s})
      BY <1>4, <1>5, <3>1 DEF LabelsOf, Sections
    <3> HIDE DEF Follows, LabelsOf, In
    <3> QED BY <1>3, <3>1 DEF SectionsFollowInference
  <2>1. s \in Sections /\ inf[s] \subseteq Labels
    BY DEF Sections, Inference
  <2>2. \A m \in In(s, "agent")' : \E w \in Wanted(inf) : m = result[w] /\ w.sec = s
    BY <1>2, <1>6 DEF In
  <2>3. \A l \in inf[s] \ LabelsOf(In(s, "user")) :
          \E w \in Wanted(inf) : w.sec = s /\ w.label = l
    <3> SUFFICES ASSUME NEW l \in inf[s] \ LabelsOf(In(s, "user"))
                 PROVE  [sec |-> s, label |-> l] \in Wanted(inf)
      OBVIOUS
    <3> QED BY <2>1 DEF Wanted
  <2>4. \A w \in Wanted(inf) : w.sec = s => result[w] \in In(s, "agent")'
    BY <1>2 DEF In
  <2>5. LabelsOf(In(s, "agent")') = inf[s] \ LabelsOf(In(s, "user"))
    BY <1>2, <1>7, <2>2, <2>3, <2>4 DEF LabelsOf
  <2>6. inf[s] \subseteq LabelsOf({n \in map' : n.sec = s})
    <3>1. In(s, "user") \subseteq {n \in map' : n.sec = s} /\ In(s, "agent")' \subseteq {n \in map' : n.sec = s}
      BY <1>2 DEF In, Untouched
    <3> QED BY <2>5, <3>1 DEF LabelsOf
  <2>7. ASSUME NEW m \in In(s, "agent")', NEW n \in In(s, "agent")', m.label = n.label PROVE m = n
    <3>1. PICK v \in Wanted(inf) : m = result[v] /\ v.sec = s
      BY <2>2
    <3>2. PICK w \in Wanted(inf) : n = result[w] /\ w.sec = s
      BY <2>2
    <3>3. v = w
      BY <1>2, <1>7, <2>7, <3>1, <3>2
    <3> QED BY <3>1, <3>2, <3>3
  <2> QED BY <2>5, <2>6, <2>7
<1> QED BY <1>9, <1>10, <1>11 DEF FixedPoint

(* Drafts are the user's after every edit, too.                            *)
LEMMA EditDrafts == StateInv /\ Drafts /\ UserStep => Drafts'
<1> SUFFICES ASSUME StateInv, Drafts, UserStep PROVE Drafts'
  OBVIOUS
<1>1. \A n \in map : n \in Node
  BY DEF StateInv, StateTypeOK
<1>2. CASE EditLabel
  <2>1. PICK n \in map : \E l \in Labels \ {n.label} :
          map' = (map \ {n}) \cup {[n EXCEPT !.label = l, !.origin = "user"]}
    BY <1>2 DEF EditLabel
  <2>2. \A l : [n EXCEPT !.label = l, !.origin = "user"].origin = "user"
    BY <1>1 DEF Node
  <2> QED BY <2>1, <2>2 DEF Drafts
<1>3. CASE MoveNode
  <2>1. PICK n \in map : \E s \in Sections : map' = (map \ {n}) \cup {[n EXCEPT !.sec = s]}
    BY <1>3 DEF MoveNode
  <2>2. \A s : /\ [n EXCEPT !.sec = s].origin = n.origin
               /\ [n EXCEPT !.sec = s].id = n.id
    BY <1>1 DEF Node
  <2> QED BY <2>1, <2>2 DEF Drafts
<1>4. CASE AddDraft
  BY <1>4 DEF AddDraft, Drafts
<1>5. CASE DeleteNode \/ DeleteNodeAndBody \/ EditBody \/ Damage
  BY <1>5 DEF DeleteNode, DeleteNodeAndBody, EditBody, Damage, Drafts
<1> QED BY <1>2, <1>3, <1>4, <1>5 DEF UserStep

LEMMA FixedInit == StateInit => FixedPoint
<1> SUFFICES ASSUME StateInit PROVE FixedPoint
  OBVIOUS
<1>1. last = {}
  BY DEF StateInit
<1>2. Drafts
  <2>1. PICK start \in SUBSET {[sec |-> s, n |-> 1] : s \in Uninferred}, l \in Labels :
          map = {[id |-> i, sec |-> i.sec, label |-> l, origin |-> "agent"] : i \in start}
    BY DEF StateInit
  <2>2. \A n \in map : n.id \in start
    BY <2>1
  <2>3. NoId \notin start
    BY DEF NoId
  <2> QED BY <2>2, <2>3 DEF Drafts
<1> QED BY <1>1, <1>2 DEF FixedPoint, Rested, SectionsFollowInference

LEMMA FixedNext == StateInv /\ FixedPoint /\ [StateNext]_stateVars => FixedPoint'
<1> SUFFICES ASSUME StateInv, FixedPoint, [StateNext]_stateVars PROVE FixedPoint'
  OBVIOUS
<1>1. CASE UserStep
  <2>1. last' = {}
    BY <1>1 DEF UserStep, EditLabel, MoveNode, DeleteNode, DeleteNodeAndBody, AddDraft,
       EditBody, Damage, Edit
  <2>2. Drafts'
    BY <1>1, EditDrafts DEF FixedPoint
  <2> QED BY <2>1, <2>2 DEF FixedPoint, Rested, SectionsFollowInference
<1>2. CASE \E inf \in Inference : Save(inf)
  BY <1>2, SaveFixed DEF FixedPoint
<1>3. CASE UNCHANGED stateVars
  <2>1. map' = map /\ bodies' = bodies /\ counters' = counters /\ last' = last
    BY <1>3 DEF stateVars
  <2>2. \A s : /\ In(s, "agent")' = In(s, "agent") /\ In(s, "user")' = In(s, "user")
               /\ Suppressed(s)' = Suppressed(s)
    BY <2>1 DEF In, Suppressed
  <2>3. \A s, inf : Follows(s, inf)' = Follows(s, inf)
    BY <2>2 DEF Follows
  <2>4. IdsOf(map)' = IdsOf(map) /\ BodyIds' = BodyIds
    BY <2>1 DEF IdsOf, BodyIds
  <2>5. Drafts'
    BY <2>1 DEF FixedPoint, Drafts
  <2>6. Rested'
    BY <2>1, <2>2, <2>3, <2>4, Zenon DEF FixedPoint, Rested
  <2>7. SectionsFollowInference'
    <3>1. \A s : /\ LabelsOf(In(s, "agent"))' = LabelsOf(In(s, "agent"))
                 /\ LabelsOf(In(s, "user"))' = LabelsOf(In(s, "user"))
                 /\ LabelsOf({n \in map : n.sec = s})' = LabelsOf({n \in map : n.sec = s})
      BY <2>1, <2>2 DEF LabelsOf
    <3>2. ASSUME NEW inf \in last, NEW s \in Singleton \cup Listed, Follows(s, inf)
          PROVE  /\ inf[s] \subseteq LabelsOf({n \in map : n.sec = s})'
                 /\ LabelsOf(In(s, "agent"))' = inf[s] \ LabelsOf(In(s, "user"))'
                 /\ \A m, n \in In(s, "agent")' : m.label = n.label => m = n
      <4>1. /\ inf[s] \subseteq LabelsOf({n \in map : n.sec = s})
            /\ LabelsOf(In(s, "agent")) = inf[s] \ LabelsOf(In(s, "user"))
            /\ \A m, n \in In(s, "agent") : m.label = n.label => m = n
        BY <3>2, Zenon DEF FixedPoint, SectionsFollowInference
      <4>2. In(s, "agent")' = In(s, "agent")
        BY <2>2
      <4>3. /\ inf[s] \subseteq LabelsOf({n \in map : n.sec = s})'
            /\ LabelsOf(In(s, "agent"))' = inf[s] \ LabelsOf(In(s, "user"))'
        BY ONLY <3>1, <4>1
      <4>4. \A m, n \in In(s, "agent")' : m.label = n.label => m = n
        BY ONLY <4>1, <4>2
      <4> QED BY <4>3, <4>4
    <3> QED BY <2>1, <2>3, <3>2, Zenon DEF SectionsFollowInference
  <2> QED BY <2>5, <2>6, <2>7 DEF FixedPoint
<1>4. CASE SaveRefused
  BY <1>3, <1>4 DEF SaveRefused
<1> QED BY <1>1, <1>2, <1>3, <1>4 DEF StateNext

THEOREM FixedInvariant == StateSpec => [](StateInv /\ FixedPoint)
<1>1. StateInit => StateInv /\ FixedPoint
  BY StateInitInv, FixedInit
<1>2. (StateInv /\ FixedPoint) /\ [StateNext]_stateVars => (StateInv /\ FixedPoint)'
  BY StateNextInv, FixedNext
<1> QED BY <1>1, <1>2, PTL DEF StateSpec

(* After a save, a section that follows inference says each inferred label *)
(* and, in the agent's name, nothing else and nothing twice                *)
(* (reconcileV3State).                                                     *)
THEOREM InferenceIsFollowed == StateSpec => []SectionsFollowInference
  BY FixedInvariant, PTL DEF FixedPoint

(* In a fixed point, each wanted label stands for the one node that says   *)
(* it, and each node of the agent's that inference may replace is wanted.  *)
LEMMA OneCandidate ==
  ASSUME StateInv, FixedPoint, NEW inf \in Inference, last = {inf}
  PROVE  /\ \A w \in Wanted(inf) :
              \E n \in In(w.sec, "agent") : n.label = w.label /\ Candidates(w) = {n}
         /\ \A n \in map : n.origin = "agent" /\ Follows(n.sec, inf) =>
              \E w \in Wanted(inf) : w.label = n.label /\ Candidates(w) = {n}
<1>1. \A s \in Singleton \cup Listed : Follows(s, inf) =>
        /\ LabelsOf(In(s, "agent")) = inf[s] \ LabelsOf(In(s, "user"))
        /\ \A m, n \in In(s, "agent") : m.label = n.label => m = n
  BY DEF FixedPoint, SectionsFollowInference
<1>2. ASSUME NEW w \in Wanted(inf), NEW n \in In(w.sec, "agent"), n.label = w.label
      PROVE  Candidates(w) = {n}
  <2>1. w.sec \in Singleton \cup Listed /\ Follows(w.sec, inf)
    BY DEF Wanted, Follows
  <2>2. {m \in In(w.sec, "agent") : m.label = w.label} = {n}
    BY <1>1, <1>2, <2>1
  <2> QED BY <2>2 DEF Candidates
<1>3. ASSUME NEW w \in Wanted(inf) PROVE \E n \in In(w.sec, "agent") : n.label = w.label
  <2>1. /\ w.sec \in Singleton \cup Listed /\ Follows(w.sec, inf)
        /\ w.label \in inf[w.sec] \ LabelsOf(In(w.sec, "user"))
    BY DEF Wanted, Follows
  <2> QED BY <1>1, <2>1 DEF LabelsOf
<1>4. ASSUME NEW n \in map, n.origin = "agent", Follows(n.sec, inf)
      PROVE  \E w \in Wanted(inf) : w.label = n.label /\ n \in In(w.sec, "agent")
  <2> DEFINE w == [sec |-> n.sec, label |-> n.label]
  <2>1. n \in Node /\ n \in In(n.sec, "agent") /\ n.sec \in Singleton \cup Listed
    BY <1>4 DEF StateInv, StateTypeOK, In, Follows
  <2>2. n.label \in inf[n.sec] \ LabelsOf(In(n.sec, "user"))
    BY <1>1, <1>4, <2>1 DEF LabelsOf
  <2>3. w \in Wanted(inf)
    BY <1>4, <2>1, <2>2 DEF Wanted, Node
  <2> QED BY <2>1, <2>3
<1> QED BY <1>2, <1>3, <1>4

(* The second of two saves of one inference.                               *)
LEMMA SaveAgain ==
  ASSUME StateInv, FixedPoint, NEW inf \in Inference, last = {inf}, Save(inf)
  PROVE  UNCHANGED <<map, bodies, counters>>
<1>1. PICK old, added, base, pick, num : Facts(inf, old, added, base, pick, num)
  BY SaveFacts DEF StateInv
<1>2. added = {} /\ old = Wanted(inf)
  <2>1. /\ old \cup added = Wanted(inf) /\ \A w \in added : Candidates(w) = {}
    BY <1>1 DEF Facts
  <2>2. \A w \in Wanted(inf) : Candidates(w) # {}
    BY OneCandidate
  <2> QED BY <2>1, <2>2
<1>3. \A w \in old, n \in map : w.label = n.label /\ Candidates(w) = {n} =>
        [pick[w] EXCEPT !.label = w.label] = n
  <2> SUFFICES ASSUME NEW w \in old, NEW n \in map, w.label = n.label, Candidates(w) = {n}
               PROVE  [pick[w] EXCEPT !.label = w.label] = n
    OBVIOUS
  <2>1. pick[w] = n /\ n \in Node
    BY <1>1 DEF Facts, StateInv, StateTypeOK
  <2> QED BY <2>1 DEF Node
<1> DEFINE Wished == {n \in map : n.origin = "agent" /\ Follows(n.sec, inf)}
<1>4. Confirmed(pick, old) = Wished /\ Numbered(num, added) = {}
  <2>1. \A w \in old : [pick[w] EXCEPT !.label = w.label] \in Wished
    <3> SUFFICES ASSUME NEW w \in old PROVE [pick[w] EXCEPT !.label = w.label] \in Wished
      OBVIOUS
    <3>1. PICK n \in In(w.sec, "agent") : n.label = w.label /\ Candidates(w) = {n}
      BY <1>2, OneCandidate
    <3>2. n \in map /\ n.origin = "agent" /\ n.sec = w.sec /\ Follows(w.sec, inf)
      BY <1>2 DEF In, Wanted
    <3>3. [pick[w] EXCEPT !.label = w.label] = n
      BY <1>3, <3>1, <3>2
    <3> QED BY <3>2, <3>3
  <2>2. \A n \in Wished : \E w \in old : n = [pick[w] EXCEPT !.label = w.label]
    BY <1>2, <1>3, OneCandidate
  <2>3. Confirmed(pick, old) \subseteq Wished
    BY <2>1 DEF Confirmed
  <2>4. Wished \subseteq Confirmed(pick, old)
    BY <2>2 DEF Confirmed
  <2> QED BY <1>2, <2>3, <2>4 DEF Numbered
<1>5. map' = map
  <2>1. map' = Untouched(inf) \cup Wished
    BY <1>1, <1>4 DEF Facts
  <2>2. \A n \in map : n.origin # "user" => n.origin = "agent" /\ n.sec \in Sections
    BY DEF StateInv, StateTypeOK, Node, Owner
  <2>3. \A n \in map : n.origin = "agent" => ~Suppressed(n.sec)
    BY <2>2 DEF FixedPoint, Rested, In, StateInv, StateTypeOK, Node
  <2> QED BY <2>1, <2>2, <2>3 DEF Untouched
<1>6. counters' = counters
  <2>1. counters' = Advance(Recovered, {})
    <3>1. \A w \in Wanted(inf) : Candidates(w) # {}
      BY OneCandidate
    <3>2. Wanted(inf) \ {w \in Wanted(inf) : Candidates(w) # {}} = {}
      BY <3>1
    <3> QED BY <3>2 DEF Save
  <2>2. Advance(Recovered, {}) = [s \in Sections |-> Recovered[s] + 0]
    <3>1. \A s : {w.label : w \in {v \in {} : v.sec = s}} = {}
      OBVIOUS
    <3>2. Cardinality({}) = 0
      BY FS_EmptySet
    <3> QED BY <3>1, <3>2 DEF Advance
  <2>3. ASSUME NEW s \in Sections PROVE Recovered[s] + 0 = counters[s]
    <3>1. counters[s] \in Nat /\ counters[s] \in NumbersSeen(s)
      BY StateAssumption DEF StateInv, StateTypeOK, NumbersSeen
    <3>2. \A i \in IdsOf(map) \cup BodyIds : i.n <= counters[i.sec] /\ i.n \in Nat
      BY DEF FixedPoint, Rested, StateInv, Known, StateTypeOK, Ids
    <3>3. \A m \in NumbersSeen(s) : m <= counters[s] /\ m \in Nat
      BY <3>1, <3>2 DEF NumbersSeen
    <3>4. Recovered[s] \in NumbersSeen(s) /\ counters[s] <= Recovered[s]
      BY <3>1, RecoveredHighest DEF StateInv
    <3> QED BY <3>1, <3>3, <3>4
  <2>4. counters = [s \in Sections |-> counters[s]]
    BY DEF StateInv, StateTypeOK
  <2> QED BY <2>1, <2>2, <2>3, <2>4
<1>7. bodies' = bodies
  <2> DEFINE OwnBody(n) == [id |-> n.id, file |-> n.sec,
                         origin |-> IF HasUserBody(n.id) THEN "user" ELSE "agent"]
             With == {m \in map : m.id # NoId /\ (m \in Wished \/ m.id \in BodyIds)}
  <2>1. bodies' = {OwnBody(n) : n \in With} \cup {b \in bodies : b.id \notin IdsOf(map)}
    BY <1>1, <1>4, <1>5 DEF Facts, Placed
  <2>2. \A n \in With : n.id \in BodyIds
    BY DEF FixedPoint, Rested
  <2>3. ASSUME NEW n \in With, NEW b \in bodies, n.id = b.id PROVE OwnBody(n) = b
    <3>1. b.file = n.sec /\ b \in Entry
      BY <2>3 DEF Save, Loadable, StateInv, StateTypeOK
    <3>2. HasUserBody(b.id) <=> b.origin = "user"
      BY DEF HasUserBody, StateInv, Unique
    <3>3. b.origin = IF HasUserBody(n.id) THEN "user" ELSE "agent"
      BY <2>3, <3>1, <3>2 DEF Entry, Owner
    <3>4. b = [id |-> b.id, file |-> b.file, origin |-> b.origin]
      BY <3>1 DEF Entry
    <3> QED BY <2>3, <3>1, <3>3, <3>4
  <2>4. \A b \in bodies : b.id \in IdsOf(map) => \E n \in With : n.id = b.id
    BY DEF IdsOf, BodyIds
  <2>5. \A n \in With : \E b \in bodies : n.id = b.id
    BY <2>2 DEF BodyIds
  <2> HIDE DEF OwnBody, With
  <2> QED BY <2>1, <2>3, <2>4, <2>5
<1> QED BY <1>5, <1>6, <1>7

(* Saving the same inference twice changes nothing the second time.        *)
THEOREM SavesAreIdempotent == StateSpec => Idempotent
<1>1. StateInv /\ FixedPoint /\ [StateNext]_stateVars =>
        [last # {} /\ last' = last => UNCHANGED <<map, bodies, counters>>]_stateVars
  <2> SUFFICES ASSUME StateInv, FixedPoint, StateNext, last # {}, last' = last
               PROVE  UNCHANGED <<map, bodies, counters>>
    OBVIOUS
  <2>1. CASE UserStep
    BY <2>1 DEF UserStep, EditLabel, MoveNode, DeleteNode, DeleteNodeAndBody, AddDraft,
       EditBody, Damage, Edit
  <2>2. ASSUME NEW inf \in Inference, Save(inf) PROVE UNCHANGED <<map, bodies, counters>>
    BY <2>2, SaveAgain DEF Save
  <2>3. CASE SaveRefused
    BY <2>3 DEF SaveRefused, stateVars
  <2> QED BY <2>1, <2>2, <2>3 DEF StateNext
<1> QED BY <1>1, FixedInvariant, PTL DEF StateSpec, Idempotent

(* What inference still says keeps the ID it has.                          *)
THEOREM LabelsStay == StateSpec => LabelsKeepIds
<1> DEFINE Stays == \A inf \in last', n \in map :
             /\ n.origin = "agent"
             /\ n.sec \in Singleton \cup Listed
             /\ n.label \in inf[n.sec] \ LabelsOf(In(n.sec, "user"))
             /\ ~Suppressed(n.sec)
             => \E m \in map' : /\ m.sec = n.sec /\ m.label = n.label
                                /\ m.id \in {x.id : x \in In(n.sec, "agent")}
<1>1. StateInv /\ [StateNext]_stateVars => [Saved => Stays]_stateVars
  <2> SUFFICES ASSUME StateInv, StateNext, Saved, stateVars' # stateVars PROVE Stays
    OBVIOUS
  <2>1. CASE UserStep
    BY <2>1 DEF UserStep, EditLabel, MoveNode, DeleteNode, DeleteNodeAndBody, AddDraft,
       EditBody, Damage, Edit, Saved
  <2>2. ASSUME NEW inf \in Inference, Save(inf) PROVE Stays
    <3>1. PICK old, added, base, pick, num : Facts(inf, old, added, base, pick, num)
      BY <2>2, SaveFacts DEF StateInv
    <3>2. last' = {inf}
      BY <3>1 DEF Facts
    <3> SUFFICES ASSUME NEW n \in map, n.origin = "agent", n.sec \in Singleton \cup Listed,
                        n.label \in inf[n.sec] \ LabelsOf(In(n.sec, "user")),
                        ~Suppressed(n.sec)
                 PROVE  \E m \in map' : /\ m.sec = n.sec /\ m.label = n.label
                                        /\ m.id \in {x.id : x \in In(n.sec, "agent")}
      BY <3>2
    <3> DEFINE w == [sec |-> n.sec, label |-> n.label]
    <3>3. n \in In(n.sec, "agent") /\ n \in Node
      BY DEF In, StateInv, StateTypeOK
    <3>4. w \in Wanted(inf)
      BY <3>3 DEF Wanted, Follows, Node
    <3>5. Candidates(w) # {} /\ \A c \in Candidates(w) : c \in In(n.sec, "agent")
      BY <3>3 DEF Candidates
    <3>6. w \in old /\ pick[w] \in In(n.sec, "agent")
      BY <3>1, <3>4, <3>5 DEF Facts
    <3> DEFINE m == [pick[w] EXCEPT !.label = w.label]
    <3>7. pick[w] \in Node /\ pick[w].sec = n.sec
      BY <3>6 DEF In, StateInv, StateTypeOK
    <3>8. m.sec = n.sec /\ m.label = n.label /\ m.id = pick[w].id
      BY <3>7 DEF Node
    <3>9. m \in map'
      BY <3>1, <3>6 DEF Facts, Confirmed
    <3> HIDE DEF m, w
    <3> QED BY <3>6, <3>8, <3>9
  <2> QED BY <2>1, <2>2 DEF StateNext, SaveRefused
<1> QED BY <1>1, Invariant, PTL DEF StateSpec, LabelsKeepIds

(* The agent's text is stable, and so are its IDs (findMatchingNode).      *)
THEOREM AgentTextStays == StateSpec => AgentTextStable
  BY SavesAreIdempotent, LabelsStay DEF AgentTextStable
=============================================================================
