----------------------------- MODULE SaveFlow ------------------------------
(***************************************************************************)
(* /handoff save from end to end (scripts/node/save.mjs and its Deno twin  *)
(* scripts/save.ts): detect the layout of .handoff/, migrate an older one, *)
(* load the canonical state, reconcile, install the new files.  Composes   *)
(* two instances of AtomicWrite on the same files: applyV3Migration writes *)
(* through .migration-tmp and .migration-rollback, writeFilesAtomically    *)
(* through .save-tmp and .save-rollback.  Saves are repeated, calls of the *)
(* file system fail, and the process may be killed at any await.           *)
(*                                                                         *)
(* A version number stands for the bytes of a file: version 1 is what the  *)
(* user started with, later ones are written by saves.  Four paths stand   *)
(* for the directory: the Context Map, the files of content/ and views/    *)
(* (one for all), context.json, and .handoff.config.json, which only the   *)
(* migration writes.  A legacy 1.x handoff is taken to be its context.json;*)
(* its root Markdown files, which no save overwrites, are left out.        *)
(***************************************************************************)
EXTENDS Integers, FiniteSets

CONSTANTS
  Kinds,      \* what a user may start with
  MaxGen,     \* bound: versions written (a migrating save writes two)
  Faults,     \* which calls of the file system may fail
  Kills,      \* whether the process may be killed
  MaxTroubles \* bound: calls that fail, and kills

ASSUME SaveAssumption ==
  /\ Kinds \subseteq {"empty", "legacy", "v2", "v3"}
  /\ MaxGen \in Nat \ {0}
  /\ Faults \subseteq {"write", "rename", "undo", "cleanup"}
  /\ Kills \in BOOLEAN /\ MaxTroubles \in Nat

\* Mutant of Position: the config is renamed first.
PositionConfigFirst == [config |-> 1, map |-> 2, body |-> 3, json |-> 4]

\* The order in which files are written and renamed.
Position == [map |-> 1, body |-> 2, json |-> 3, config |-> 4]

Map    == Position.map       \* context-map.md
Body   == Position.body      \* content/*.md and views/HANDOFF.md
Json   == Position.json      \* context.json
Config == Position.config    \* .handoff.config.json
Paths  == 1..4

VARIABLES
  final,                  \* the files themselves
  mgTemp, mgRollback,     \* siblings of the migration
  svTemp, svRollback,     \* siblings of the save
  gen, before, pc, k, temps, moved, damaged,   \* the writer, see AtomicWrite
  kind,       \* what the user started with
  phase,      \* where the save stands
  outcome,    \* how the last save ended
  kept,       \* kept[f]: the versions of f that carry the user's text
  backup,     \* the originals are under history/migrations/
  fresh,      \* a save has taken the user's directory for a new one
  faults,     \* history: what kinds of calls have failed
  killed,     \* history: a save has been killed
  troubles

writer == <<gen, before, pc, k, temps, moved, damaged>>
mgDisk == <<mgTemp, mgRollback>>
svDisk == <<svTemp, svRollback>>
ghosts == <<kind, kept, backup, fresh>>
history == <<faults, killed, troubles>>
vars == <<final, mgDisk, svDisk, writer, ghosts, phase, outcome, history>>

Mg == INSTANCE AtomicWrite WITH N <- 4, temp <- mgTemp, rollback <- mgRollback
Sv == INSTANCE AtomicWrite WITH N <- 3, temp <- svTemp, rollback <- svRollback

NoFile == Mg!NoFile

TypeOK ==
  /\ Mg!TypeOK
  /\ svTemp \in [Paths -> Mg!Bytes] /\ svRollback \in [Paths -> Mg!Bytes]
  /\ kind \in Kinds
  /\ phase \in {"idle", "migrate", "load", "install"}
  /\ outcome \in {"none", "ok", "missing", "error", "killed"}
  /\ kept \in [{Map, Body} -> SUBSET (1..MaxGen)]
  /\ backup \in BOOLEAN /\ fresh \in BOOLEAN
  /\ faults \subseteq Faults /\ killed \in BOOLEAN /\ troubles \in 0..MaxTroubles

InitialFiles ==
  [empty |-> {Config}, legacy |-> {Json, Config},
   v2 |-> {Map, Json, Config}, v3 |-> Paths]

Init ==
  /\ kind \in Kinds
  /\ final = [f \in Paths |-> IF f \in InitialFiles[kind] THEN 1 ELSE NoFile]
  /\ mgTemp = [f \in Paths |-> NoFile] /\ mgRollback = [f \in Paths |-> NoFile]
  /\ svTemp = [f \in Paths |-> NoFile] /\ svRollback = [f \in Paths |-> NoFile]
  /\ gen = 1 /\ before = final /\ pc = "done" /\ k = 1
  /\ temps = {} /\ moved = {} /\ damaged = FALSE
  /\ phase = "idle" /\ outcome = "none"
  /\ kept = [f \in {Map, Body} |-> IF kind = "v3" THEN {1} ELSE {}]
  /\ backup = FALSE /\ fresh = FALSE
  /\ faults = {} /\ killed = FALSE /\ troubles = 0

-----------------------------------------------------------------------------
(* Layout detection (layoutOfDir, detectLayout).                           *)

IsV3(version) == version > 1 \/ (version = 1 /\ kind = "v3")

\* Any entry under content/ or views/ makes the directory v3, siblings and
\* torn files included.  Siblings of the Map are not looked at.
Layout ==
  CASE \E d \in {final, mgTemp, mgRollback, svTemp, svRollback} :
         d[Body] # NoFile           -> "v3"
    [] OTHER -> IF final[Map] # NoFile THEN "v2"
                ELSE IF final[Json] # NoFile THEN "legacy" ELSE "empty"

\* migrateToV3 and planV2ToV3Migration: there is something to migrate, and
\* context.json does not say the handoff is v3 already.
MigrationNeeded ==
  /\ Layout \in {"v2", "legacy"}
  /\ ~(final[Json] # NoFile /\ IsV3(final[Json]))

-----------------------------------------------------------------------------
(* One save.                                                               *)

\* Two versions must be left for a save to start.
StartSave ==
  /\ phase = "idle"
  /\ gen + 2 <= MaxGen
  /\ outcome' = "none"
  /\ IF MigrationNeeded
       THEN /\ phase' = "migrate"
            /\ Mg!Begin
            /\ kept' = [f \in {Map, Body} |-> kept[f] \cup {gen'}]
            /\ UNCHANGED svDisk
       ELSE /\ phase' = "load"
            /\ UNCHANGED <<final, mgDisk, svDisk, writer, kept>>
  /\ UNCHANGED <<kind, backup, fresh, history>>

Trouble(kills, failed) ==
  /\ troubles < MaxTroubles
  /\ troubles' = troubles + 1
  /\ killed' = (killed \/ kills)
  /\ faults' = faults \cup failed

MgFault(fault) ==
  \/ fault = "write" /\ Mg!WriteFault
  \/ fault = "rename" /\ Mg!RenameFault
  \/ fault = "undo" /\ Mg!UndoFails
  \/ fault = "cleanup" /\ Mg!CleanupFault

SvFault(fault) ==
  \/ fault = "write" /\ Sv!WriteFault
  \/ fault = "rename" /\ Sv!RenameFault
  \/ fault = "undo" /\ Sv!UndoFails
  \/ fault = "cleanup" /\ Sv!CleanupFault

\* applyV3Migration.  The originals are backed up once every temp is verified.
Migrate ==
  /\ phase = "migrate"
  /\ \/ Mg!Progress /\ UNCHANGED history
     \/ \E fault \in Faults : MgFault(fault) /\ Trouble(FALSE, {fault})
  /\ backup' = (backup \/ (pc = "verify" /\ pc' = "swap"))
  /\ phase' = CASE pc' = "done" -> "load" [] pc' = "failed" -> "idle"
                [] OTHER -> "migrate"
  /\ outcome' = IF pc' = "failed" THEN "error" ELSE outcome
  /\ UNCHANGED <<svDisk, kind, kept, fresh>>

\* loadExistingState: no Map means a new directory, whose state is built from
\* inference alone.
LoadFresh ==
  /\ phase = "load"
  /\ final[Map] = NoFile
  /\ phase' = "install"
  /\ fresh' = (fresh \/ kind # "empty")
  /\ Sv!Begin
  /\ UNCHANGED <<mgDisk, kind, kept, backup, outcome, history>>

\* loadHandoffState throws: a Map without its content files.
LoadMissingContent ==
  /\ phase = "load"
  /\ final[Map] # NoFile /\ final[Body] = NoFile
  /\ phase' = "idle" /\ outcome' = "missing"
  /\ UNCHANGED <<final, mgDisk, svDisk, writer, ghosts, history>>

\* Mutant of LoadExisting: bodies are rebuilt from the Map.
LoadMapOnly ==
  /\ phase = "load"
  /\ final[Map] # NoFile
  /\ phase' = "install"
  /\ Sv!Begin
  /\ kept' = [kept EXCEPT ![Map] = IF final[Map] \in @ THEN @ \cup {gen'} ELSE @]
  /\ UNCHANGED <<mgDisk, kind, backup, fresh, outcome, history>>

\* loadHandoffState and reconcileV3State: what the user wrote is carried over.
LoadExisting ==
  /\ phase = "load"
  /\ final[Map] # NoFile /\ final[Body] # NoFile
  /\ phase' = "install"
  /\ Sv!Begin
  /\ kept' = [f \in {Map, Body} |->
               IF final[f] \in kept[f] THEN kept[f] \cup {gen'} ELSE kept[f]]
  /\ UNCHANGED <<mgDisk, kind, backup, fresh, outcome, history>>

\* writeFilesAtomically.
Install ==
  /\ phase = "install"
  /\ \/ Sv!Progress /\ UNCHANGED history
     \/ \E fault \in Faults : SvFault(fault) /\ Trouble(FALSE, {fault})
  /\ phase' = IF pc' \in {"done", "failed"} THEN "idle" ELSE "install"
  /\ outcome' = CASE pc' = "done" -> "ok" [] pc' = "failed" -> "error"
                  [] OTHER -> outcome
  /\ UNCHANGED <<mgDisk, ghosts>>

Kill ==
  /\ Kills /\ Trouble(TRUE, {})
  /\ \/ phase = "migrate" /\ Mg!Crash /\ UNCHANGED svDisk
     \/ phase = "install" /\ Sv!Crash /\ UNCHANGED mgDisk
     \/ phase = "load" /\ UNCHANGED <<final, mgDisk, svDisk, writer>>
  /\ phase' = "idle" /\ outcome' = "killed"
  /\ UNCHANGED ghosts

Next ==
  StartSave \/ Migrate \/ LoadFresh \/ LoadMissingContent \/ LoadExisting
    \/ Install \/ Kill

Spec == Init /\ [][Next]_vars

\* A running save goes on, and the user runs save again.
FairSpec ==
  Spec /\ WF_vars(StartSave \/ Migrate \/ LoadFresh \/ LoadMissingContent
                    \/ LoadExisting \/ Install)

-----------------------------------------------------------------------------

\* The file that holds the user's text for f at the start.
Source(f) ==
  CASE kind = "v2" -> Map [] kind = "legacy" -> Json [] OTHER -> f

OnDisk(f, version) ==
  version \in {final[f], mgTemp[f], mgRollback[f], svTemp[f], svRollback[f]}

(* No save was killed, and what failed was a rename; or, in a directory    *)
(* that needs no migration, anything but a step of an undo.                *)
Undisturbed ==
  /\ ~killed
  /\ faults \subseteq {"rename"} \/ (kind \in {"empty", "v3"} /\ "undo" \notin faults)

(* What the user has written is never gone from the disk: "a present-but-  *)
(* invalid state aborts the save rather than destroying user content"      *)
(* (save.mjs, loadExistingState).  Each part of it is in some file or      *)
(* sibling, or in the backup of the migration.                             *)
ContentSurvives ==
  kind # "empty" =>
    \A f \in {Map, Body} :
      \/ backup
      \/ OnDisk(Source(f), 1)
      \/ \E version \in kept[f] : OnDisk(f, version)

(* The text can only be lost through a save that found no Map and took the *)
(* directory for a new one; no kill or failure loses it by itself, nor     *)
(* does any save that still finds the Map.                                 *)
LostOnlyByFreshStart == fresh \/ ContentSurvives

(* Saves that fail and are reported lose no text, however often they fail. *)
FailuresLoseNothing == Undisturbed => ContentSurvives

(* The two together: how text can be lost at all.                          *)
TextSurvives == TypeOK /\ LostOnlyByFreshStart /\ FailuresLoseNothing

(* "The config version upgrade renames last": once the config says 3.0.0,  *)
(* no file of the older layout is left under its name, at any instant and  *)
(* after any kill or failure, that of a step of the undo included.         *)
ConfigUpgradesLast ==
  kind \in {"v2", "legacy"} /\ final[Config] > 1 => final[Map] # 1 /\ final[Json] # 1

(* A save of a v3 directory that reports an error leaves a directory the   *)
(* next save can load, and a reported success leaves a complete one.       *)
LoadableAfterSave ==
  phase = "idle" /\ kind = "v3" /\ Undisturbed => final[Map] # NoFile /\ final[Body] # NoFile

(* Running save again in the end brings every kind of directory to an      *)
(* installed v3 state, however it failed before.                           *)
RerunSucceeds ==
  <>(~Undisturbed \/ (outcome = "ok" /\ \A f \in {Map, Body, Json} : IsV3(final[f])))
=============================================================================
