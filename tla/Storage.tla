------------------------------ MODULE Storage -------------------------------
(***************************************************************************)
(* Where .handoff/ lives: the init, save and load commands of the Node and *)
(* of the Deno runtime (scripts/node/save.mjs, scripts/save.ts and the two *)
(* load twins) over a directory of the project or a git submodule of it.   *)
(* git is external and modelled by what it does to the checkout, to the    *)
(* local branch, to the remote and to the revision that the index of the   *)
(* parent repository records; the remote may be out of reach at any call.  *)
(*                                                                         *)
(* The text of the handoff is the set of the notes it holds.  How a save   *)
(* reconciles and installs it is the business of HandoffState and SaveFlow:*)
(* here a save keeps what it finds.  A commit has the text it records and  *)
(* the set of its ancestors, itself included.                              *)
(*                                                                         *)
(* What every module has carries the name of this one here, so that its    *)
(* theorems can stand beside those of another command (CommandProofs).     *)
(***************************************************************************)
EXTENDS Integers, FiniteSets, Sequences

CONSTANTS
  Runtimes,   \* of the twins, those that are used
  Projects,     \* "new": a project without handoff; "clone": one of a parent
              \* repository that has the submodule already
  Notes,      \* what users and agents write
  MaxCommits, \* bound: commits in the handoff repository
  MaxFaults   \* bound: git calls that fail for no reason of the model, kills

ASSUME StorageAssumption ==
  /\ Runtimes \subseteq {"node", "deno"}
  /\ Projects \subseteq {"new", "clone"}
  /\ MaxCommits \in Nat \ {0} /\ MaxFaults \in Nat

VARIABLES
  runtime, start,
  config,     \* .handoff.config.json: the storage mode, or none
  registered, \* .gitmodules names .handoff
  place,      \* .handoff is absent or empty, a plain directory, a checkout
  files,      \* of the v3 layout in it: none, the Map only, all
  text,       \* the notes in it
  commits,    \* the handoff repository, wherever its commits are
  head, attached, branch,   \* the checkout: HEAD, on a branch?, the branch
  remote,     \* the branch at the remote
  recorded,   \* the submodule's revision in the index of the parent
  staged,     \* the user has staged work of his own in the parent
  phase,      \* where the running command stands
  said,       \* what the last command reported; "unchanged, pushed" is two messages
  saved,      \* history: notes that a save has reported saved
  strayed,    \* history: an update left a commit the parent did not record
  detached,   \* history: a save committed without a branch
  taken,      \* history: a save committed the user's staged work
  faults

git == <<commits, head, attached, branch, remote>>
history == <<saved, strayed, detached, taken>>
storageVars == <<runtime, start, config, registered, place, files, text, git, recorded,
                 staged, phase, said, history, faults>>

Revs == 0..MaxCommits          \* 0: no revision

StorageTypeOK ==
  /\ runtime \in Runtimes /\ start \in Projects
  /\ config \in {"none", "direct", "submodule"}
  /\ registered \in BOOLEAN
  /\ place \in {"absent", "plain", "checkout"}
  /\ files \in {"none", "map", "all"}
  /\ text \subseteq Notes
  /\ commits \in Seq([text : SUBSET Notes, past : SUBSET Revs, full : BOOLEAN])
  /\ Len(commits) \in 1..MaxCommits
  /\ head \in 0..Len(commits) /\ branch \in 0..Len(commits)
  /\ remote \in 0..Len(commits) /\ recorded \in 0..Len(commits)
  /\ registered \in BOOLEAN /\ attached \in BOOLEAN /\ staged \in BOOLEAN
  /\ phase \in {"idle", "layout", "ready", "commit", "push"}
  /\ said \in {"nothing", "initialized", "failed", "saved", "pushed",
               "not pushed", "unchanged, pushed"}
  /\ saved \subseteq Notes
  /\ strayed \in BOOLEAN /\ detached \in BOOLEAN /\ taken \in BOOLEAN
  /\ faults \in 0..MaxFaults
  /\ place = "absent" => files = "none" /\ text = {} /\ head = 0

StorageInit ==
  /\ runtime \in Runtimes /\ start \in Projects
  /\ config = IF start = "new" THEN "none" ELSE "submodule"
  /\ registered = (start = "clone")
  /\ place = "absent" /\ files = "none" /\ text = {}
  /\ commits = <<[text |-> {}, past |-> {1}, full |-> start = "clone"]>>
  /\ head = 0 /\ attached = FALSE /\ branch = 0 /\ remote = 1
  /\ recorded = IF start = "clone" THEN 1 ELSE 0
  /\ staged = FALSE
  /\ phase = "idle" /\ said = "nothing"
  /\ saved = {} /\ strayed = FALSE /\ detached = FALSE /\ taken = FALSE
  /\ faults = 0

-----------------------------------------------------------------------------
(* git.                                                                    *)

Fault == faults < MaxFaults /\ faults' = faults + 1

\* What no commit has: edits, and the files of an init.
Unsaved == IF head = 0 THEN {} ELSE text \ commits[head].text
Untracked == head # 0 /\ ~commits[head].full /\ files # "none"

\* A checkout of revision r carries that over.
Checkout(r, branched) ==
  /\ place' = "checkout"
  /\ head' = r /\ attached' = branched
  /\ branch' = IF head = 0 THEN remote ELSE branch
  /\ text' = commits[r].text \cup Unsaved
  /\ files' = CASE commits[r].full -> "all" [] Untracked -> files [] OTHER -> "none"
  /\ strayed' = (strayed \/ head \notin {0, r})
  /\ UNCHANGED <<commits, remote>>

NoCheckout == UNCHANGED <<place, git, text, files, strayed>>

\* git submodule update --init --recursive .handoff, when it succeeds: it
\* checks the recorded revision out, without a branch, unless HEAD is there.
UpdateWorks ==
  /\ \/ place = "absent" /\ recorded \in commits[remote].past
     \/ place = "checkout" /\ ~(Untracked /\ commits[recorded].full)
  /\ IF place = "checkout" /\ head = recorded
       THEN NoCheckout
       ELSE Checkout(recorded, FALSE)
  /\ UNCHANGED faults

\* It fails on a directory that is not a checkout, on a revision nobody has
\* pushed, on edits in the way, and without the remote.
UpdateFails ==
  /\ \/ place = "plain" /\ UNCHANGED faults
     \/ place = "absent" /\ recorded \notin commits[remote].past /\ UNCHANGED faults
     \/ /\ place = "checkout" /\ head # recorded
        /\ Unsaved # {} \/ Untracked
        /\ UNCHANGED faults
     \/ place = "absent" /\ Fault
  /\ NoCheckout

-----------------------------------------------------------------------------
(* The init command (initStorage).                                         *)

\* writeInitialV3Layout: the files are written one after the other, the Map
\* first, unless there is a Map.
Layout ==
  IF files' = "none" THEN phase' = "layout" ELSE phase' = "idle"

InitDirect ==
  /\ phase = "idle"
  /\ place' = IF place = "absent" THEN "plain" ELSE place
  /\ config' = "direct" /\ said' = "initialized"
  /\ UNCHANGED <<files, text, git, strayed, registered, recorded, faults>>
  /\ Layout
  /\ UNCHANGED <<runtime, start, staged, saved, detached, taken>>

\* initSubmodule: git submodule add clones the remote and stages both the
\* registration and the revision.
AddWorks ==
  /\ place = "absent"
  /\ Checkout(remote, TRUE)
  /\ registered' = TRUE /\ recorded' = remote
  /\ UNCHANGED faults

AddFails ==
  /\ \/ place # "absent" /\ UNCHANGED faults
     \/ place = "absent" /\ Fault
  /\ NoCheckout
  /\ UNCHANGED <<registered, recorded>>

\* The Deno runtime looks at the exit code.  The Node one compares what its
\* runCommand returns, which is "" after a failure as after a success.
InitSubmodule ==
  /\ phase = "idle"
  /\ \/ registered /\ NoCheckout /\ UNCHANGED <<registered, recorded, faults>>
     \/ ~registered /\ (AddWorks \/ AddFails)
  /\ IF registered' \/ runtime = "node"
       THEN config' = "submodule" /\ said' = "initialized" /\ Layout
       ELSE said' = "failed" /\ UNCHANGED <<config, phase>>
  /\ UNCHANGED <<runtime, start, staged, saved, detached, taken>>

\* In a checkout the new files are not committed yet.
WriteLayout ==
  /\ phase = "layout"
  /\ IF files = "none"
       THEN files' = "map" /\ UNCHANGED phase
       ELSE files' = "all" /\ phase' = "idle"
  /\ place' = IF place = "absent" THEN "plain" ELSE place
  /\ UNCHANGED <<runtime, start, config, registered, text, git, recorded,
                 staged, said, history, faults>>

-----------------------------------------------------------------------------
(* The save command, and the load command, which only updates.             *)

\* ensureSubmoduleReady, or mkdir in direct mode.  The Node runtime does not
\* look at how the update ends.
Ensure(proceed) ==
  \/ /\ config = "direct"
     /\ place' = IF place = "absent" /\ proceed = "ready" THEN "plain" ELSE place
     /\ phase' = proceed /\ said' = "nothing"
     /\ UNCHANGED <<git, text, files, strayed, faults>>
  \/ /\ config = "submodule" /\ ~registered
     /\ said' = "failed"
     /\ NoCheckout /\ UNCHANGED <<phase, faults>>
  \/ /\ config = "submodule" /\ registered
     /\ UpdateWorks
     /\ phase' = proceed /\ said' = "nothing"
  \/ /\ config = "submodule" /\ registered
     /\ UpdateFails
     /\ IF runtime = "node" THEN phase' = proceed /\ said' = "nothing"
                            ELSE said' = "failed" /\ UNCHANGED phase

\* One commit must be left for a save to start.
StartSave ==
  /\ phase = "idle"
  /\ config = "submodule" => Len(commits) < MaxCommits
  /\ Ensure("ready")
  /\ UNCHANGED <<runtime, start, config, registered, recorded, staged, saved,
                 detached, taken>>

Load ==
  /\ phase = "idle"
  /\ Ensure("idle")
  /\ UNCHANGED <<runtime, start, config, registered, recorded, staged, saved,
                 detached, taken>>

\* loadHandoffState throws on a Map without its content files.
InstallRefused ==
  /\ phase = "ready" /\ files = "map"
  /\ phase' = "idle" /\ said' = "failed"
  /\ UNCHANGED <<runtime, start, config, registered, place, files, text, git,
                 recorded, staged, history, faults>>

\* Mutant of Install: what is there is not loaded.
InstallFresh ==
  /\ phase = "ready" /\ files # "map"
  /\ files' = "all"
  /\ place' = IF place = "absent" THEN "plain" ELSE place
  /\ text' = {} /\ saved' = saved \cup text
  /\ IF config = "submodule" THEN phase' = "commit" /\ UNCHANGED said
                             ELSE phase' = "idle" /\ said' = "saved"
  /\ UNCHANGED <<runtime, start, config, registered, git, recorded, staged,
                 strayed, detached, taken, faults>>

\* loadExistingState, reconcileV3State, writeFilesAtomically.
Install ==
  /\ phase = "ready" /\ files # "map"
  /\ files' = "all"
  /\ place' = IF place = "absent" THEN "plain" ELSE place
  /\ saved' = saved \cup text
  /\ IF config = "submodule" THEN phase' = "commit" /\ UNCHANGED said
                             ELSE phase' = "idle" /\ said' = "saved"
  /\ UNCHANGED <<runtime, start, config, registered, text, git, recorded,
                 staged, strayed, detached, taken, faults>>

\* commitAndPushSubmodule, the commit.  In a directory that is no checkout,
\* git works on the parent: the files cannot be added, and the user's staged
\* work is what gets committed.
Commit ==
  /\ phase = "commit"
  /\ \/ /\ place = "checkout" /\ Len(commits) < MaxCommits
        /\ LET new == Len(commits) + 1
           IN  /\ commits' = Append(commits, [text |-> text, full |-> TRUE,
                                              past |-> commits[head].past \cup {new}])
               /\ head' = new
               /\ branch' = IF attached THEN new ELSE branch
               /\ detached' = (detached \/ ~attached)
        /\ UNCHANGED <<staged, taken>>
     \/ /\ place = "plain" /\ staged
        /\ staged' = FALSE /\ taken' = TRUE
        /\ UNCHANGED <<commits, head, branch, detached>>
  /\ phase' = "push"
  /\ UNCHANGED <<runtime, start, config, registered, place, files, text, attached,
                 remote, recorded, said, saved, strayed, faults>>

\* A commit that fails is taken for one with nothing to commit.  The save says
\* so, and then, as after every commit it takes for good, that it has saved and
\* pushed; in both runtimes.
CommitFails ==
  /\ phase = "commit"
  /\ \/ place = "plain" /\ ~staged /\ UNCHANGED faults
     \/ place = "checkout" /\ Fault
  /\ phase' = "idle" /\ said' = "unchanged, pushed"
  /\ UNCHANGED <<runtime, start, config, registered, place, files, text, git,
                 recorded, staged, history>>

\* git push writes to stderr only: the Node runtime takes the empty output
\* for a failure.  The parent may well have a remote, too.
Push ==
  /\ phase = "push"
  /\ \/ /\ place = "checkout" /\ attached
        /\ remote \in commits[head].past
        /\ remote' = head
     \/ place = "plain" /\ UNCHANGED remote
  /\ phase' = "idle"
  /\ said' = IF runtime = "node" THEN "not pushed" ELSE "pushed"
  /\ UNCHANGED <<runtime, start, config, registered, place, files, text, commits,
                 head, attached, branch, recorded, staged, history, faults>>

\* Mutant of PushFails: the exit code is not looked at.
PushFailsBlind ==
  /\ phase = "push"
  /\ \/ place = "checkout" /\ (~attached \/ remote \notin commits[head].past)
        /\ UNCHANGED faults
     \/ Fault
  /\ phase' = "idle" /\ said' = "pushed"
  /\ UNCHANGED <<runtime, start, config, registered, place, files, text, git,
                 recorded, staged, history>>

PushFails ==
  /\ phase = "push"
  /\ \/ place = "checkout" /\ (~attached \/ remote \notin commits[head].past)
        /\ UNCHANGED faults
     \/ Fault
  /\ phase' = "idle" /\ said' = "not pushed"
  /\ UNCHANGED <<runtime, start, config, registered, place, files, text, git,
                 recorded, staged, history>>

\* The process dies while it writes the initial layout.
Kill ==
  /\ phase = "layout" /\ Fault
  /\ phase' = "idle" /\ said' = "failed"
  /\ UNCHANGED <<runtime, start, config, registered, place, files, text, git,
                 recorded, staged, history>>

-----------------------------------------------------------------------------
(* The user and the others.                                                *)

Edit(n) ==
  /\ phase = "idle" /\ files = "all" /\ n \notin text
  /\ text' = text \cup {n}
  /\ UNCHANGED <<runtime, start, config, registered, place, files, git, recorded,
                 staged, phase, said, history, faults>>

\* "Commit it in the parent repository only if you want collaborators to use
\* this exact handoff revision."
Record ==
  /\ phase = "idle" /\ place = "checkout" /\ recorded # head
  /\ recorded' = head
  /\ UNCHANGED <<runtime, start, config, registered, place, files, text, git,
                 staged, phase, said, history, faults>>

\* A collaborator saves, pushes, and records the revision in the parent,
\* which the user pulls.
Pull ==
  /\ phase = "idle" /\ registered /\ Len(commits) < MaxCommits
  /\ LET new == Len(commits) + 1
     IN  /\ commits' = Append(commits, [text |-> commits[remote].text, full |-> TRUE,
                                        past |-> commits[remote].past \cup {new}])
         /\ remote' = new /\ recorded' = new
  /\ UNCHANGED <<runtime, start, config, registered, place, files, text, head,
                 attached, branch, staged, phase, said, history, faults>>

Stage ==
  /\ phase = "idle" /\ ~staged
  /\ staged' = TRUE
  /\ UNCHANGED <<runtime, start, config, registered, place, files, text, git,
                 recorded, phase, said, history, faults>>

User == (\E n \in Notes : Edit(n)) \/ Record \/ Pull \/ Stage

StorageNext ==
  InitDirect \/ InitSubmodule \/ WriteLayout \/ StartSave \/ Load \/ InstallRefused
    \/ Install \/ Commit \/ CommitFails \/ Push \/ PushFails \/ Kill \/ User

StorageSpec == StorageInit /\ [][StorageNext]_storageVars

-----------------------------------------------------------------------------

(* What a save has reported saved, the next load shows: the pointer of the *)
(* parent need be committed "only if you want collaborators to use this    *)
(* exact handoff revision" (save.mjs:586).                                 *)
SavedIsShown == saved \subseteq text

(* Saved notes leave the working tree only through an update that checks   *)
(* out another revision than the one they were saved on: no init, no save  *)
(* of either runtime, no failed git call and no kill loses them.           *)
SavedStays == strayed \/ SavedIsShown

(* However commands, edits, failures, pulls and reverted checkouts follow  *)
(* each other, a saved note is in the working tree or in a revision that   *)
(* some branch or the parent still names, unless a save has committed on a *)
(* detached HEAD (the reflog is all that keeps those).                     *)
SavedIsNamed ==
  \/ detached
  \/ saved \subseteq text \cup UNION {commits[r].text : r \in {branch, remote, recorded} \ {0}}

(* The two together: where a saved note is.                                *)
SavedSurvives == StorageTypeOK /\ SavedStays /\ SavedIsNamed

(* In a checkout, "the context has been saved and pushed" means that the   *)
(* remote has it, and a save that could not push has its notes committed   *)
(* locally, as the warning says.  The exception is a save that has said    *)
(* before that the context is unchanged: its commit may have failed, and   *)
(* then neither message is true, in either runtime (save.ts:255 and 936,   *)
(* save.mjs:145 and 583).                                                  *)
ReportIsTrue ==
  place = "checkout" /\ said \in {"pushed", "not pushed"} =>
    /\ saved \subseteq commits[head].text \/ strayed
    /\ said = "pushed" => head \in commits[remote].past

(* The save commits and pushes the handoff repository, never the user's    *)
(* staged work in the parent: true of the Deno runtime only, because it    *)
(* stops when the update fails.                                            *)
ParentUntouched == runtime = "deno" => ~taken

(* An init of the Deno runtime that fails on the way, at whatever call,    *)
(* leaves the storage mode as it was, so that saves that worked still do:  *)
(* a project it has put in submodule mode has its checkout.                *)
ConfigIsTruthful ==
  runtime = "deno" /\ start = "new" /\ config = "submodule" =>
    registered /\ place = "checkout"

(* The three together, what a git call that fails cannot do: make a report *)
(* of a push false, unless the call is the commit, which either runtime    *)
(* hides; and, in the Deno runtime, reach the user's work in the parent or *)
(* leave a mode without its checkout.  The Node runtime does both.         *)
FailuresAreContained == ReportIsTrue /\ ParentUntouched /\ ConfigIsTruthful
=============================================================================
