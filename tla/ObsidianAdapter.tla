-------------------------- MODULE ObsidianAdapter ---------------------------
(***************************************************************************)
(* The Obsidian adapter (scripts/adapters/obsidian.mjs with its callers    *)
(* scripts/node/adapter.mjs and scripts/adapter.ts): link puts a symbolic  *)
(* link to a project's .handoff/ into a Vault, lists it in the Vault's     *)
(* index note, and records its provenance in the user-level config, which  *)
(* unlink asks for before it removes the link.  One command at a time runs *)
(* in each project, commands of different projects share the Vaults and    *)
(* the config, and a command may be killed at any step.  Every shared file *)
(* is read, changed and written back; a write that is killed leaves less.  *)
(* Paths and aliases are taken to be valid, Vaults to exist.               *)
(***************************************************************************)
EXTENDS Integers, FiniteSets

CONSTANTS
  Projects, Vaults, Aliases,
  None, Data,      \* at a link path: nothing; a directory, file or foreign link
  BaseName,        \* the directory name of each project
  Configured,      \* projects with a .handoff.config.json
  MaxCommands, MaxHands, MaxTroubles   \* bounds

ASSUME ObsidianAssumption ==
  /\ BaseName \in [Projects -> Aliases] /\ Configured \subseteq Projects
  /\ None \notin Projects \cup Vaults \cup Aliases /\ Data \notin Projects \cup {None}
  /\ MaxCommands \in Nat /\ MaxHands \in Nat /\ MaxTroubles \in Nat

Paths == Vaults \X Aliases       \* <Vault>/Projects/<alias>

VARIABLES
  link,       \* what is at each path; a project stands for a link to it
  index,      \* the aliases in the managed block of each Vault's note
  config,     \* the user-level config: the Vault, and the record of each path
  remembered, \* projectAlias in the config of each project
  pc, action, path, held,   \* the command of each project, and what it has read
  mixed,      \* someone else has acted while this command ran
  owed,       \* history: links established by link and not undone since
  crowded,    \* history: commands of two projects have overlapped
  torn,       \* history: a write was killed
  commands, hands, troubles

disk == <<link, index, config, remembered>>
history == <<mixed, owed, crowded, torn>>
counters == <<commands, hands, troubles>>
vars == <<disk, pc, action, path, held, history, counters>>

EmptyConfig == [vault |-> None, links |-> [at \in Paths |-> None]]
Configs == [vault : Vaults \cup {None}, links : [Paths -> Projects \cup {None}]]

LinkSteps == {"inspect", "make", "readIndex", "writeIndex", "readVault",
              "writeVault", "readRecord", "writeRecord", "project"}
UnlinkSteps == {"inspect", "remove", "readIndex", "writeIndex", "readRecord",
                "writeRecord"}

TypeOK ==
  /\ link \in [Paths -> Projects \cup {None, Data}]
  /\ index \in [Vaults -> SUBSET Aliases]
  /\ config \in Configs
  /\ remembered \in [Projects -> Aliases \cup {None}]
  /\ \A p \in Projects :
       /\ action[p] \in {"link", "unlink"} /\ path[p] \in Paths \cup {None}
       /\ pc[p] \in {"idle"} \cup IF action[p] = "link" THEN LinkSteps ELSE UnlinkSteps
       /\ pc[p] = "writeIndex" => held[p] \subseteq Aliases
       /\ pc[p] \in {"writeVault", "writeRecord"} => held[p] \in Configs
  /\ mixed \in [Projects -> BOOLEAN] /\ owed \subseteq Paths \X Projects
  /\ crowded \in BOOLEAN /\ torn \in BOOLEAN
  /\ commands \in 0..MaxCommands /\ hands \in 0..MaxHands /\ troubles \in 0..MaxTroubles

Init ==
  /\ link = [at \in Paths |-> None] /\ index = [v \in Vaults |-> {}]
  /\ config = EmptyConfig /\ remembered = [p \in Projects |-> None]
  /\ pc = [p \in Projects |-> "idle"] /\ action = [p \in Projects |-> "link"]
  /\ path = [p \in Projects |-> None]
  /\ held = [p \in Projects |-> {}]
  /\ mixed = [p \in Projects |-> FALSE] /\ owed = {}
  /\ crowded = FALSE /\ torn = FALSE
  /\ commands = 0 /\ hands = 0 /\ troubles = 0

Active(p) == pc[p] # "idle"
Others(p) == {q \in Projects \ {p} : Active(q)}

Step(p, from, to) == pc[p] = from /\ pc' = [pc EXCEPT ![p] = to]

\* The step changes nothing but where the command stands and what it holds.
Keep == UNCHANGED <<disk, action, path, history, counters>>
Same == UNCHANGED <<action, path, history, counters>>
Drop(p) == held' = [held EXCEPT ![p] = {}]

-----------------------------------------------------------------------------
(* How a command starts (main).                                            *)

\* resolveAlias: the flag, the project's config, the name of its directory.
Resolve(p, flag) ==
  IF flag # None THEN flag
  ELSE IF remembered[p] # None THEN remembered[p] ELSE BaseName[p]

Start(p, what, at, proof) ==
  /\ pc[p] = "idle" /\ commands < MaxCommands
  /\ commands' = commands + 1
  /\ pc' = [pc EXCEPT ![p] = "inspect"]
  /\ action' = [action EXCEPT ![p] = what]
  /\ path' = [path EXCEPT ![p] = at]
  /\ held' = [held EXCEPT ![p] = proof]
  /\ mixed' = [q \in Projects |-> IF q = p THEN Others(p) # {}
                                  ELSE mixed[q] \/ q \in Others(p)]
  /\ crowded' = (crowded \/ Others(p) # {})
  /\ UNCHANGED <<disk, torn, hands, troubles>>

StartLink(p) ==
  \E v \in Vaults, flag \in Aliases \cup {None} :
    /\ Start(p, "link", <<v, Resolve(p, flag)>>, {})
    /\ UNCHANGED owed

\* unlink finds the Vault in the user-level config: the one of the last link
\* command of any project.  It reads the record before it looks at the link.
StartUnlink(p) ==
  /\ config.vault # None
  /\ \E flag \in Aliases \cup {None} :
       LET at == <<config.vault, Resolve(p, flag)>>
       IN  Start(p, "unlink", at, config.links[at]) /\ owed' = owed \ {<<at, p>>}

-----------------------------------------------------------------------------
(* obsidianLink.                                                           *)

\* Nothing is there.
InspectFree(p) ==
  /\ Step(p, "inspect", "make")
  /\ action[p] = "link" /\ link[path[p]] = None
  /\ Keep /\ Drop(p)

\* The link is there ("already-linked"), whoever has made it.
InspectLinked(p) ==
  /\ Step(p, "inspect", "readIndex")
  /\ action[p] = "link" /\ link[path[p]] = p
  /\ Keep /\ Drop(p)

\* Collisions and foreign links are refused, by both commands.
InspectRefused(p) ==
  /\ Step(p, "inspect", "idle")
  /\ link[path[p]] \notin {None, p}
  /\ Keep /\ Drop(p)

\* symlink fails if something has come in between.
Make(p) ==
  /\ Step(p, "make", "readIndex")
  /\ link[path[p]] = None
  /\ link' = [link EXCEPT ![path[p]] = p]
  /\ UNCHANGED <<index, config, remembered>> /\ Same /\ UNCHANGED held

Trouble == troubles < MaxTroubles /\ troubles' = troubles + 1

MakeFails(p) ==
  /\ Step(p, "make", "idle")
  /\ \/ link[path[p]] # None /\ UNCHANGED troubles
     \/ Trouble
  /\ UNCHANGED <<disk, action, path, held, history, commands, hands>>

-----------------------------------------------------------------------------
(* obsidianUnlink.                                                         *)

\* Mutant of Verified: any link is removed.
AnyLink(p, at) == link[at] \notin {None, Data}

\* The link leads to this project, and the record says that the adapter has
\* made it.
Verified(p, at) == link[at] = p /\ held[p] = p

InspectUnlink(p) ==
  /\ Step(p, "inspect", "remove")
  /\ action[p] = "unlink" /\ Verified(p, path[p])
  /\ Keep /\ Drop(p)

\* Without a record the link is refused.
InspectUnverified(p) ==
  /\ Step(p, "inspect", "idle")
  /\ action[p] = "unlink" /\ link[path[p]] = p /\ ~Verified(p, path[p])
  /\ Keep /\ Drop(p)

\* Mutant of InspectGone: no link, nothing to do.
InspectGoneDone(p) ==
  /\ Step(p, "inspect", "readRecord")
  /\ action[p] = "unlink" /\ link[path[p]] = None
  /\ Keep /\ Drop(p)

\* "not-linked": the index is cleaned all the same.
InspectGone(p) ==
  /\ Step(p, "inspect", "readIndex")
  /\ action[p] = "unlink" /\ link[path[p]] = None
  /\ Keep /\ Drop(p)

Remove(p) ==
  /\ Step(p, "remove", "readIndex")
  /\ link' = [link EXCEPT ![path[p]] = None]
  /\ UNCHANGED <<index, config, remembered>> /\ Same /\ UNCHANGED held

-----------------------------------------------------------------------------
(* The shared files.                                                       *)

\* updateVaultIndex.
ReadIndex(p) ==
  /\ Step(p, "readIndex", "writeIndex")
  /\ held' = [held EXCEPT ![p] =
       IF action[p] = "link" THEN index[path[p][1]] \cup {path[p][2]}
                             ELSE index[path[p][1]] \ {path[p][2]}]
  /\ Keep

WriteIndex(p) ==
  /\ Step(p, "writeIndex", IF action[p] = "link" THEN "readVault" ELSE "readRecord")
  /\ index' = [index EXCEPT ![path[p][1]] = held[p]]
  /\ UNCHANGED <<link, config, remembered>> /\ Same /\ Drop(p)

\* recordVaultPath, then recordProvenance; clearProvenance for unlink.
ReadConfig(p) ==
  /\ \/ Step(p, "readVault", "writeVault")
        /\ held' = [held EXCEPT ![p] = [config EXCEPT !.vault = path[p][1]]]
     \/ Step(p, "readRecord", "writeRecord")
        /\ held' = [held EXCEPT ![p] =
             [config EXCEPT !.links[path[p]] = IF action[p] = "link" THEN p ELSE None]]
  /\ Keep

\* Mutant of WriteConfig: the records of other links are dropped.
WriteConfigAlone(p) ==
  /\ \/ Step(p, "writeVault", "readRecord")
     \/ Step(p, "writeRecord", IF action[p] = "link" THEN "project" ELSE "idle")
  /\ config' = [held[p] EXCEPT !.links = [at \in Paths |->
                 IF at = path[p] THEN held[p].links[at] ELSE None]]
  /\ UNCHANGED <<link, index, remembered>> /\ Same /\ Drop(p)

\* writeUserConfig.
WriteConfig(p) ==
  /\ \/ Step(p, "writeVault", "readRecord")
     \/ Step(p, "writeRecord", IF action[p] = "link" THEN "project" ELSE "idle")
  /\ config' = held[p]
  /\ UNCHANGED <<link, index, remembered>> /\ Same /\ Drop(p)

\* recordProjectAdapter, which ends the link command.
Project(p) ==
  /\ Step(p, "project", "idle")
  /\ remembered' = IF p \in Configured
                     THEN [remembered EXCEPT ![p] = path[p][2]] ELSE remembered
  /\ owed' = IF link[path[p]] = p THEN owed \cup {<<path[p], p>>} ELSE owed
  /\ UNCHANGED <<link, index, config, action, path, held, mixed, crowded, torn, counters>>

\* A file that is being written when the command is killed is cut short: a
\* config that does not parse reads as {}, a note has lost its block.
Kill(p) ==
  /\ Active(p) /\ Trouble
  /\ pc' = [pc EXCEPT ![p] = "idle"]
  /\ \/ UNCHANGED <<disk, torn>>
     \/ /\ pc[p] = "writeIndex"
        /\ index' = [index EXCEPT ![path[p][1]] = {}]
        /\ torn' = TRUE
        /\ UNCHANGED <<link, config, remembered>>
     \/ /\ pc[p] \in {"writeVault", "writeRecord"}
        /\ config' = EmptyConfig
        /\ torn' = TRUE
        /\ UNCHANGED <<link, index, remembered>>
  /\ Drop(p)
  /\ UNCHANGED <<action, path, mixed, owed, crowded, commands, hands>>

\* The user works in the Vault, though not at a path that a command has just
\* verified and is about to remove.
Hand(at) ==
  /\ hands < MaxHands /\ hands' = hands + 1
  /\ \A p \in Projects : pc[p] = "remove" => path[p] # at
  /\ IF link[at] = None
       THEN \E what \in Projects \cup {Data} : link' = [link EXCEPT ![at] = what]
       ELSE link' = [link EXCEPT ![at] = None]
  /\ owed' = {x \in owed : x[1] # at}
  /\ mixed' = [p \in Projects |-> mixed[p] \/ Active(p)]
  /\ UNCHANGED <<index, config, remembered, pc, action, path, held, crowded, torn,
                 commands, troubles>>

Command(p) ==
  \/ InspectFree(p) \/ InspectLinked(p) \/ InspectRefused(p) \/ Make(p) \/ MakeFails(p)
  \/ InspectUnlink(p) \/ InspectUnverified(p) \/ InspectGone(p) \/ Remove(p)
  \/ ReadIndex(p) \/ WriteIndex(p) \/ ReadConfig(p) \/ WriteConfig(p) \/ Project(p)

Next ==
  \/ \E p \in Projects : StartLink(p) \/ StartUnlink(p) \/ Command(p) \/ Kill(p)
  \/ \E at \in Paths : Hand(at)

Spec == Init /\ [][Next]_vars

-----------------------------------------------------------------------------

(* Whatever was killed or done by hand before, a link command that ends    *)
(* well and alone leaves the four places in agreement: link, index, record *)
(* and Vault; so that status and unlink find it.  Running link again       *)
(* repairs what a killed one left half done ("already-linked").            *)
LinkCompletes ==
  [][\A p \in Projects :
       action[p] = "link" /\ pc[p] = "project" /\ pc'[p] = "idle" /\ ~mixed[p]
         /\ troubles' = troubles
       => LET at == path[p]
          IN  /\ link[at] = p /\ at[2] \in index[at[1]]
              /\ config.links[at] = p /\ config.vault = at[1]
              /\ p \in Configured => Resolve(p, None)' = at[2]]_vars

(* An unlink that ends well and alone leaves none of link, index entry and *)
(* record, also after one that was killed halfway.                         *)
UnlinkCompletes ==
  [][\A p \in Projects :
       action[p] = "unlink" /\ pc[p] = "writeRecord" /\ pc'[p] = "idle" /\ ~mixed[p]
         /\ troubles' = troubles
       => LET at == path[p]
          IN  link'[at] = None /\ at[2] \notin index'[at[1]] /\ config'.links[at] = None]_vars

(* The two together: a command that ends well has done the whole of it.    *)
CommandsComplete == LinkCompletes /\ UnlinkCompletes

(* Commands in other projects, other Vaults and under other aliases leave  *)
(* an established link as it is, with its entry and its record, unless two *)
(* commands overlap (each writes back the whole file it has read) or a     *)
(* write is cut short.                                                     *)
LinksRemembered ==
  TypeOK /\ (crowded \/ torn \/
    \A x \in owed : LET at == x[1] IN
      link[at] = x[2] /\ at[2] \in index[at[1]] /\ config.links[at] = x[2])

(* "Unlink removes only the adapter-created link - it cannot delete user   *)
(* data": no interleaving of commands removes or replaces what is no link, *)
(* or what leads to another project than the command's own.                *)
OthersStay ==
  [][hands' = hands =>
       \A at \in Paths :
         link[at] # None /\ link'[at] # link[at] =>
           /\ link[at] # Data
           /\ pc[link[at]] = "remove" /\ path[link[at]] = at]_vars
=============================================================================
