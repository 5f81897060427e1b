----------------------- MODULE ObsidianAdapterProofs ------------------------
(***************************************************************************)
(* Proofs about ObsidianAdapter, for any number of projects, Vaults,       *)
(* aliases, commands, hands and troubles.                                  *)
(***************************************************************************)
EXTENDS ObsidianAdapter, TLAPS

Steps == {"idle"} \cup LinkSteps \cup UnlinkSteps

\* A command has its path, and its step is one of its action.
Shape ==
  /\ pc \in [Projects -> Steps]
  /\ action \in [Projects -> {"link", "unlink"}]
  /\ path \in [Projects -> Paths \cup {None}]
  /\ held = [p \in Projects |-> held[p]]
  /\ \A p \in Projects : Active(p) => path[p] \in Paths

\* A link that has been verified stays until it is removed.
RemoveSafe == \A p \in Projects : pc[p] = "remove" => link[path[p]] = p

\* No other command has been active while this one ran.
Undisturbed(p) == Active(p) /\ (~crowded \/ ~mixed[p])

Alone == \A p, q \in Projects : Undisturbed(p) /\ Active(q) => q = p

\* Then what it has read is what is there, and what it has written is there.
HoldsIndex(p) ==
  pc[p] = "writeIndex" =>
    held[p] = IF action[p] = "link" THEN index[path[p][1]] \cup {path[p][2]}
                                    ELSE index[path[p][1]] \ {path[p][2]}

HoldsConfig(p) ==
  /\ pc[p] = "writeVault" => /\ held[p].vault = path[p][1]
                             /\ held[p].links = config.links
  /\ pc[p] = "writeRecord" =>
       /\ held[p].vault = config.vault
       /\ \A at \in Paths : held[p].links[at] = IF at # path[p] THEN config.links[at]
                                                ELSE IF action[p] = "link" THEN p ELSE None

Linking(p, steps) == action[p] = "link" /\ pc[p] \in steps
Unlinking(p, steps) == action[p] = "unlink" /\ pc[p] \in steps

HasWritten(p) ==
  /\ Linking(p, {"readVault", "writeVault", "readRecord", "writeRecord", "project"})
       => path[p][2] \in index[path[p][1]]
  /\ Unlinking(p, {"readRecord", "writeRecord"}) => path[p][2] \notin index[path[p][1]]
  /\ Linking(p, {"readRecord", "writeRecord", "project"}) => config.vault = path[p][1]
  /\ Linking(p, {"project"}) => config.links[path[p]] = p

Progress ==
  \A p \in Projects : Undisturbed(p) => HoldsIndex(p) /\ HoldsConfig(p) /\ HasWritten(p)

\* Where nobody has used his hands either, the link is as the command left it.
Settled(p) == pc[p] \notin {"idle", "inspect", "make", "remove"}

LinkLeft ==
  \A p \in Projects :
    Active(p) /\ ~mixed[p] /\ Settled(p) =>
      link[path[p]] = IF action[p] = "link" THEN p ELSE None

\* What is owed stands in no command's way.
Standing(x) ==
  LET at == x[1]
  IN  link[at] = x[2] /\ at[2] \in index[at[1]] /\ config.links[at] = x[2]

Spared(x, p) ==
  /\ action[p] = "link" /\ pc[p] \notin {"idle", "inspect"} => (x[1] = path[p] => x[2] = p)
  /\ action[p] = "unlink" /\ pc[p] = "inspect" => x # <<path[p], p>>
  /\ action[p] = "unlink" /\ pc[p] \notin {"idle", "inspect"} => x[1] # path[p]

Remembered ==
  ~crowded /\ ~torn =>
    \A x \in owed : Standing(x) /\ \A p \in Projects : Spared(x, p)

IInv == TypeOK /\ Shape /\ RemoveSafe /\ Alone /\ Progress /\ LinkLeft /\ Remembered

-----------------------------------------------------------------------------
(* Types.                                                                  *)

LEMMA PathParts ==
  /\ \A x \in Paths : x[1] \in Vaults /\ x[2] \in Aliases
  /\ \A x, y \in Paths : x[1] = y[1] /\ x[2] = y[2] => x = y
  BY DEF Paths

\* A config with its Vault or a record changed is a config.
LEMMA ConfigTyped ==
  /\ EmptyConfig \in Configs
  /\ \A c \in Configs : \A v \in Vaults :
       LET d == [c EXCEPT !.vault = v]
       IN  d \in Configs /\ d.vault = v /\ d.links = c.links
  /\ \A c \in Configs : \A x \in Paths : \A to \in Projects \cup {None} :
       LET d == [c EXCEPT !.links[x] = to]
       IN  /\ d \in Configs /\ d.vault = c.vault
           /\ \A y \in Paths : d.links[y] = IF y # x THEN c.links[y] ELSE to
  BY DEF EmptyConfig, Configs

LEMMA InitInv == Init => IInv
<1> SUFFICES ASSUME Init PROVE IInv
  OBVIOUS
<1> USE ObsidianAssumption DEF Init
<1>1. \A p \in Projects : /\ pc[p] = "idle" /\ action[p] = "link" /\ path[p] = None /\ held[p] = {}
                         /\ mixed[p] = FALSE
  OBVIOUS
<1>2. Shape
  BY <1>1 DEF Shape, Steps, Active
<1>3. /\ link \in [Paths -> Projects \cup {None, Data}] /\ index \in [Vaults -> SUBSET Aliases]
      /\ remembered \in [Projects -> Aliases \cup {None}] /\ mixed \in [Projects -> BOOLEAN]
  OBVIOUS
<1>4. config \in Configs /\ owed \subseteq Paths \X Projects
  BY ConfigTyped
<1>5. 0 \in 0..MaxCommands /\ 0 \in 0..MaxHands /\ 0 \in 0..MaxTroubles
  OBVIOUS
<1>6. TypeOK
  BY <1>1, <1>3, <1>4, <1>5 DEF TypeOK
<1>. QED
  BY <1>1, <1>2, <1>6
  DEF IInv, RemoveSafe, Undisturbed, Alone, Active, Progress, LinkLeft, Remembered

\* What TypeOK says of a command.
CommandOK(p) ==
  /\ action[p] \in {"link", "unlink"} /\ path[p] \in Paths \cup {None}
  /\ pc[p] \in {"idle"} \cup IF action[p] = "link" THEN LinkSteps ELSE UnlinkSteps
  /\ pc[p] = "writeIndex" => held[p] \subseteq Aliases
  /\ pc[p] \in {"writeVault", "writeRecord"} => held[p] \in Configs

\* A step of a command leaves it a command.
LEMMA MoveTyped ==
  ASSUME TypeOK, Shape, NEW p \in Projects, path[p] \in Paths, UNCHANGED <<action, path>>,
         NEW to \in {"idle"} \cup IF action[p] = "link" THEN LinkSteps ELSE UnlinkSteps,
         pc' = [pc EXCEPT ![p] = to], NEW h, held' = [held EXCEPT ![p] = h],
         to = "writeIndex" => h \subseteq Aliases,
         to \in {"writeVault", "writeRecord"} => h \in Configs
  PROVE  Shape' /\ \A q \in Projects : CommandOK(q)'
<1>1. Shape'
  BY DEF Shape, Active, Steps, TypeOK
<1>2. \A q \in Projects : CommandOK(q)
  BY DEF TypeOK, CommandOK
<1>3. pc'[p] = to /\ held'[p] = h
  BY DEF Shape
<1>4. \A q \in Projects \ {p} : pc'[q] = pc[q] /\ held'[q] = held[q]
  BY DEF Shape
<1>5. CommandOK(p)'
  BY <1>2, <1>3 DEF CommandOK
<1>. QED
  BY <1>1, <1>2, <1>4, <1>5 DEF CommandOK

\* What else TypeOK speaks of.
RestTyped ==
  /\ link \in [Paths -> Projects \cup {None, Data}] /\ index \in [Vaults -> SUBSET Aliases]
  /\ config \in Configs /\ remembered \in [Projects -> Aliases \cup {None}]
  /\ mixed \in [Projects -> BOOLEAN] /\ owed \subseteq Paths \X Projects
  /\ crowded \in BOOLEAN /\ torn \in BOOLEAN
  /\ commands \in 0..MaxCommands /\ hands \in 0..MaxHands /\ troubles \in 0..MaxTroubles

LEMMA TypeParts ==
  /\ TypeOK <=> RestTyped /\ \A p \in Projects : CommandOK(p)
  /\ TypeOK' <=> RestTyped' /\ \A p \in Projects : CommandOK(p)'
  BY DEF TypeOK, RestTyped, CommandOK

LEMMA CommandTyped ==
  ASSUME TypeOK, Shape, NEW p \in Projects, Command(p)
  PROVE  TypeOK' /\ Shape'
<1> USE ObsidianAssumption DEF Step, Same, disk, history, counters, Drop, Keep
<1>0. /\ path[p] \in Paths /\ path[p][1] \in Vaults /\ path[p][2] \in Aliases
      /\ RestTyped /\ CommandOK(p) /\ UNCHANGED <<action, path>>
      /\ held = [held EXCEPT ![p] = held[p]]
  <2>1. /\ UNCHANGED <<action, path>> /\ Active(p)
    BY DEF Command, InspectFree, InspectLinked, InspectRefused, Make, MakeFails,
       InspectUnlink, InspectUnverified, InspectGone, Remove, ReadIndex, WriteIndex, ReadConfig,
       WriteConfig, Project, Active
  <2>. QED
    BY <2>1, PathParts, TypeParts DEF Shape
<1> USE DEF LinkSteps, UnlinkSteps
<1>1. CASE InspectFree(p) \/ InspectLinked(p) \/ InspectRefused(p)
  <2>1. RestTyped'
    BY <1>0, <1>1 DEF InspectFree, InspectLinked, InspectRefused, RestTyped
  <2>. QED
    BY <1>0, <1>1, <2>1, MoveTyped, TypeParts DEF InspectFree, InspectLinked, InspectRefused
<1>2. CASE Make(p) \/ MakeFails(p)
  <2>1. RestTyped'
    BY <1>0, <1>2 DEF Make, MakeFails, Trouble, RestTyped
  <2>. QED
    BY <1>0, <1>2, <2>1, MoveTyped, TypeParts DEF Make, MakeFails, CommandOK
<1>3. CASE InspectUnlink(p) \/ InspectUnverified(p) \/ InspectGone(p)
  <2>1. RestTyped'
    BY <1>0, <1>3 DEF InspectUnlink, InspectUnverified, InspectGone, RestTyped
  <2>. QED
    BY <1>0, <1>3, <2>1, MoveTyped, TypeParts DEF InspectUnlink, InspectUnverified, InspectGone
<1>4. CASE Remove(p)
  <2>1. RestTyped'
    BY <1>0, <1>4 DEF Remove, RestTyped
  <2>2. held' = [held EXCEPT ![p] = held[p]] /\ pc' = [pc EXCEPT ![p] = "readIndex"]
    BY <1>0, <1>4 DEF Remove
  <2>3. "readIndex" \in {"idle"} \cup IF action[p] = "link" THEN LinkSteps ELSE UnlinkSteps
    OBVIOUS
  <2>4. Shape' /\ \A q \in Projects : CommandOK(q)'
    BY ONLY <1>0, <2>2, <2>3, MoveTyped, TypeOK, Shape, p \in Projects
  <2>. QED
    BY <2>1, <2>4, TypeParts
<1>5. CASE ReadIndex(p)
  <2>1. RestTyped'
    BY <1>0, <1>5 DEF ReadIndex, RestTyped
  <2>2. PICK h \in SUBSET Aliases : held' = [held EXCEPT ![p] = h]
    BY <1>0, <1>5 DEF ReadIndex, RestTyped
  <2>3. pc' = [pc EXCEPT ![p] = "writeIndex"]
    BY <1>5 DEF ReadIndex
  <2>. QED
    BY <1>0, <2>1, <2>2, <2>3, MoveTyped, TypeParts
<1>6. CASE WriteIndex(p)
  <2>1. held[p] \in SUBSET Aliases
    BY <1>0, <1>6 DEF WriteIndex, CommandOK
  <2>2. RestTyped'
    BY <1>0, <1>6, <2>1 DEF WriteIndex, RestTyped
  <2>3. PICK to \in {"readVault", "readRecord"} :
          /\ pc' = [pc EXCEPT ![p] = to] /\ held' = [held EXCEPT ![p] = {}]
          /\ to = "readVault" => action[p] = "link"
    BY <1>6 DEF WriteIndex
  <2>. QED
    BY <1>0, <2>2, <2>3, MoveTyped, TypeParts
<1>7. CASE ReadConfig(p)
  <2>1. RestTyped'
    BY <1>0, <1>7 DEF ReadConfig, RestTyped
  <2>2. PICK h \in Configs, to \in {"writeVault", "writeRecord"} :
          /\ held' = [held EXCEPT ![p] = h] /\ pc' = [pc EXCEPT ![p] = to]
          /\ to = "writeVault" => pc[p] = "readVault"
    BY <1>0, <1>7, ConfigTyped DEF ReadConfig, RestTyped
  <2>. QED
    BY <1>0, <1>7, <2>1, <2>2, MoveTyped, TypeParts DEF CommandOK
<1>8. CASE WriteConfig(p)
  <2>1. RestTyped' 
    BY <1>0, <1>8 DEF WriteConfig, RestTyped, CommandOK
  <2>2. PICK to \in {"idle", "readRecord", "project"} :
          pc' = [pc EXCEPT ![p] = to] /\ (to = "project" => action[p] = "link")
    BY <1>8 DEF WriteConfig
  <2>3. held' = [held EXCEPT ![p] = {}]
    BY <1>8 DEF WriteConfig
  <2>. QED
    BY <1>0, <2>1, <2>2, <2>3, MoveTyped, TypeParts
<1>9. CASE Project(p)
  <2>1. RestTyped'
    BY <1>0, <1>9 DEF Project, RestTyped
  <2>2. held' = [held EXCEPT ![p] = held[p]] /\ pc' = [pc EXCEPT ![p] = "idle"]
    BY <1>0, <1>9 DEF Project
  <2>0. "idle" \in {"idle"} \cup IF action[p] = "link" THEN LinkSteps ELSE UnlinkSteps
    OBVIOUS
  <2>3. Shape' /\ \A q \in Projects : CommandOK(q)'
    BY ONLY <1>0, <2>0, <2>2, MoveTyped, TypeOK, Shape, p \in Projects
  <2>. QED
    BY <2>1, <2>3, TypeParts
<1>. QED
  BY <1>1, <1>2, <1>3, <1>4, <1>5, <1>6, <1>7, <1>8, <1>9, Zenon DEF Command

\* The same of how a command starts, of a command that is killed, and of the user.
LEMMA StartTyped ==
  ASSUME TypeOK, Shape, NEW p \in Projects, NEW what \in {"link", "unlink"}, NEW at \in Paths,
         NEW proof, Start(p, what, at, proof), owed' \subseteq owed
  PROVE  TypeOK' /\ Shape'
<1> USE ObsidianAssumption DEF Start, disk
<1>1. \A q \in Projects : Others(q) = {} \/ Others(q) # {}
  OBVIOUS
<1>2. mixed' \in [Projects -> BOOLEAN] /\ crowded' \in BOOLEAN
  BY DEF TypeOK
<1>3. RestTyped'
  BY <1>2, TypeParts DEF RestTyped
<1>4. Shape'
  BY DEF Shape, Active, Steps, LinkSteps, UnlinkSteps
<1>5. \A q \in Projects : CommandOK(q)'
  <2>1. /\ pc'[p] = "inspect" /\ action'[p] = what /\ path'[p] = at
    BY DEF Shape
  <2>2. CommandOK(p)'
    BY <2>1 DEF CommandOK, LinkSteps, UnlinkSteps
  <2>3. \A q \in Projects \ {p} : /\ pc'[q] = pc[q] /\ action'[q] = action[q]
                                  /\ path'[q] = path[q] /\ held'[q] = held[q]
    BY DEF Shape
  <2>. QED
    BY <2>2, <2>3, TypeParts DEF CommandOK
<1>. QED
  BY <1>3, <1>4, <1>5, TypeParts

LEMMA NextTyped ==
  ASSUME TypeOK, Shape, [Next]_vars
  PROVE  TypeOK' /\ Shape'
<1> USE ObsidianAssumption DEF disk, history, counters
<1>1. ASSUME NEW p \in Projects, StartLink(p) PROVE TypeOK' /\ Shape'
  <2>1. PICK v \in Vaults, flag \in Aliases \cup {None} :
          Start(p, "link", <<v, Resolve(p, flag)>>, {}) /\ UNCHANGED owed
    BY <1>1 DEF StartLink
  <2>2. Resolve(p, flag) \in Aliases
    BY DEF Resolve, TypeOK
  <2>3. <<v, Resolve(p, flag)>> \in Paths
    BY <2>2 DEF Paths
  <2>. QED
    BY <2>1, <2>3, StartTyped
<1>2. ASSUME NEW p \in Projects, StartUnlink(p) PROVE TypeOK' /\ Shape'
  <2>1. PICK at, proof : Start(p, "unlink", at, proof) /\ owed' \subseteq owed
                         /\ config.vault # None
                         /\ \E flag \in Aliases \cup {None} : at = <<config.vault, Resolve(p, flag)>>
    BY <1>2 DEF StartUnlink
  <2>2. at \in Paths
    BY <2>1 DEF Resolve, TypeOK, Paths, Configs
  <2>. QED
    BY <2>1, <2>2, StartTyped
<1>3. ASSUME NEW p \in Projects, Kill(p) PROVE TypeOK' /\ Shape'
  <2>1. path[p] \in Paths /\ path[p][1] \in Vaults
    BY <1>3, PathParts DEF Kill, Shape
  <2>2. RestTyped'
    <3>1. RestTyped /\ EmptyConfig \in Configs
      BY TypeParts, ConfigTyped
    <3>2. /\ UNCHANGED <<link, remembered, mixed, owed, crowded, commands, hands>>
          /\ troubles' \in 0..MaxTroubles
      BY <1>3, <3>1 DEF Kill, Trouble, RestTyped
    <3>3. /\ index' \in [Vaults -> SUBSET Aliases] /\ config' \in {config, EmptyConfig}
          /\ torn' \in BOOLEAN
      BY <1>3, <2>1, <3>1 DEF Kill, RestTyped
    <3>. QED
      BY <3>1, <3>2, <3>3 DEF RestTyped
  <2>. QED
    BY <1>3, <2>1, <2>2, MoveTyped, TypeParts DEF Kill, Drop
<1>4. ASSUME NEW at \in Paths, Hand(at) PROVE TypeOK' /\ Shape'
  <2>1. RestTyped'
    <3>1. RestTyped
      BY TypeParts
    <3>2. mixed' \in [Projects -> BOOLEAN] /\ owed' \subseteq owed /\ hands' \in 0..MaxHands
      BY <1>4, <3>1 DEF Hand, RestTyped, Active
    <3>3. link' \in [Paths -> Projects \cup {None, Data}]
      BY <1>4, <3>1 DEF Hand, RestTyped
    <3>4. UNCHANGED <<index, config, remembered, crowded, torn, commands, troubles>>
      BY <1>4 DEF Hand
    <3>. QED
      BY <3>1, <3>2, <3>3, <3>4 DEF RestTyped
  <2>2. UNCHANGED <<pc, action, path, held>>
    BY <1>4 DEF Hand
  <2>. QED
    BY <2>1, <2>2, TypeParts DEF Shape, Active, CommandOK
<1>5. CASE UNCHANGED vars
  BY <1>5 DEF vars, TypeOK, Shape, Active
<1>. QED
  BY <1>1, <1>2, <1>3, <1>4, <1>5, CommandTyped DEF Next

-----------------------------------------------------------------------------
(* Who else is active.                                                     *)

\* A step of a command is one of an active project, and leaves the others.
LEMMA CommandFrame ==
  ASSUME TypeOK, Shape, NEW p \in Projects, Command(p)
  PROVE  /\ Active(p) /\ UNCHANGED <<action, path, mixed, crowded, torn, hands>>
         /\ \A q \in Projects \ {p} : pc'[q] = pc[q] /\ held'[q] = held[q]
  BY DEF Command, InspectFree, InspectLinked, InspectRefused, Make, MakeFails, InspectUnlink,
     InspectUnverified, InspectGone, Remove, ReadIndex, WriteIndex, ReadConfig, WriteConfig,
     Project, Step, Same, Keep, Drop, history, counters, Active, Shape

\* Where a command starts, nobody else is undisturbed.
LEMMA StartFrame ==
  ASSUME TypeOK, Shape, Alone, NEW p \in Projects, NEW what, NEW at, NEW proof,
         Start(p, what, at, proof)
  PROVE  /\ UNCHANGED <<disk, torn, hands>> /\ ~Active(p)
         /\ pc'[p] = "inspect" /\ action'[p] = what /\ path'[p] = at /\ held'[p] = proof
         /\ \A q \in Projects \ {p} : /\ pc'[q] = pc[q] /\ action'[q] = action[q]
                                      /\ path'[q] = path[q] /\ held'[q] = held[q]
         /\ \A q \in Projects \ {p} : Active(q) => crowded' /\ mixed'[q] /\ mixed'[p]
         /\ \A q \in Projects : mixed[q] /\ q # p => mixed'[q]
         /\ crowded => crowded'
<1>1. \A q \in Projects \ {p} : Active(q) => q \in Others(p)
  BY DEF Others
<1>. QED
  BY <1>1 DEF Start, Shape, Active

LEMMA AloneStep ==
  ASSUME TypeOK, Shape, Alone, Next
  PROVE  Alone'
<1>1. ASSUME NEW p \in Projects, Command(p) PROVE Alone'
  <2>1. \A q \in Projects : Active(q)' => Active(q)
    BY <1>1, CommandFrame DEF Active
  <2>. QED
    BY <1>1, <2>1, CommandFrame DEF Alone, Undisturbed
<1>2. ASSUME NEW p \in Projects, StartLink(p) \/ StartUnlink(p) PROVE Alone'
  <2>1. PICK what, at, proof : Start(p, what, at, proof)
    BY <1>2 DEF StartLink, StartUnlink
  <2>. QED
    BY <2>1, StartFrame DEF Alone, Undisturbed, Active
<1>3. ASSUME NEW p \in Projects, Kill(p) PROVE Alone'
  BY <1>3 DEF Kill, Alone, Undisturbed, Active, Shape
<1>4. ASSUME NEW at \in Paths, Hand(at) PROVE Alone'
  BY <1>4 DEF Hand, Alone, Undisturbed, Active, TypeOK
<1>. QED
  BY <1>1, <1>2, <1>3, <1>4 DEF Next

-----------------------------------------------------------------------------
(* The links.                                                              *)

\* Only three steps touch a link.
LEMMA CommandLink ==
  ASSUME TypeOK, Shape, NEW p \in Projects, Command(p)
  PROVE  \/ UNCHANGED link
         \/ Make(p) /\ link[path[p]] = None /\ link' = [link EXCEPT ![path[p]] = p]
         \/ Remove(p) /\ pc[p] = "remove" /\ link' = [link EXCEPT ![path[p]] = None]
  BY DEF Command, InspectFree, InspectLinked, InspectRefused, Make, MakeFails, InspectUnlink,
     InspectUnverified, InspectGone, Remove, ReadIndex, WriteIndex, ReadConfig, WriteConfig,
     Project, Step, Same, Keep, disk

LEMMA RemoveStep ==
  ASSUME TypeOK, Shape, Alone, RemoveSafe, Next
  PROVE  RemoveSafe'
<1> USE ObsidianAssumption
<1>1. ASSUME NEW p \in Projects, Command(p) PROVE RemoveSafe'
  <2>1. pc'[p] = "remove" => link[path[p]] = p /\ UNCHANGED link
    BY <1>1 DEF Command, InspectFree, InspectLinked, InspectRefused, Make, MakeFails, InspectUnlink,
       InspectUnverified, InspectGone, Remove, ReadIndex, WriteIndex, ReadConfig, WriteConfig,
       Project, Step, Same, Keep, disk, Shape, Verified
  <2>2. path[p] \in Paths
    BY <1>1, CommandFrame DEF Shape
  <2>3. \A q \in Projects : pc[q] = "remove" => path[q] \in Paths
    BY DEF Shape, Active
  <2>. QED
    BY <1>1, <2>1, <2>2, <2>3, CommandFrame, CommandLink DEF RemoveSafe, TypeOK
<1>2. ASSUME NEW p \in Projects, StartLink(p) \/ StartUnlink(p) PROVE RemoveSafe'
  <2>1. PICK what, at, proof : Start(p, what, at, proof)
    BY <1>2 DEF StartLink, StartUnlink
  <2>. QED
    BY <2>1, StartFrame DEF RemoveSafe, disk
<1>3. ASSUME NEW p \in Projects, Kill(p) PROVE RemoveSafe'
  BY <1>3 DEF Kill, RemoveSafe, Shape, disk
<1>4. ASSUME NEW at \in Paths, Hand(at) PROVE RemoveSafe'
  <2>1. \A q \in Projects : pc[q] = "remove" => path[q] # at /\ path[q] \in Paths
    BY <1>4 DEF Hand, Shape, Active
  <2>2. \A y \in Paths : y # at => link'[y] = link[y]
    BY <1>4 DEF Hand, TypeOK
  <2>3. UNCHANGED <<pc, path>>
    BY <1>4 DEF Hand
  <2>. QED
    BY <2>1, <2>2, <2>3 DEF RemoveSafe
<1>. QED
  BY <1>1, <1>2, <1>3, <1>4 DEF Next

LEMMA LinkLeftStep ==
  ASSUME TypeOK, Shape, Alone, LinkLeft, Next
  PROVE  LinkLeft'
<1> USE ObsidianAssumption
<1>1. ASSUME NEW p \in Projects, Command(p) PROVE LinkLeft'
  <2> SUFFICES ASSUME NEW q \in Projects, Active(q)', ~mixed'[q], Settled(q)'
               PROVE  link'[path'[q]] = IF action'[q] = "link" THEN q ELSE None
    BY DEF LinkLeft
  <2>1. q = p /\ UNCHANGED <<action, path, mixed>> /\ path[p] \in Paths
    BY <1>1, CommandFrame DEF Alone, Undisturbed, Active, Shape
  <2>2. CASE InspectFree(p) \/ InspectRefused(p) \/ MakeFails(p) \/ InspectUnlink(p)
             \/ InspectUnverified(p) \/ Project(p)
    BY <2>1, <2>2 DEF InspectFree, InspectRefused, MakeFails, InspectUnlink, InspectUnverified,
       Project, Step, Settled, Active, Shape
  <2>3. CASE InspectLinked(p) \/ InspectGone(p)
    BY <2>1, <2>3 DEF InspectLinked, InspectGone, Keep, disk
  <2>4. CASE Make(p) \/ Remove(p)
    <3>1. /\ Make(p) => pc[p] = "make" /\ link' = [link EXCEPT ![path[p]] = p]
          /\ Remove(p) => pc[p] = "remove" /\ link' = [link EXCEPT ![path[p]] = None]
      BY DEF Make, Remove, Step
    <3>2. pc[p] = "make" => action[p] = "link"
      BY TypeParts DEF CommandOK, UnlinkSteps
    <3>3. pc[p] = "remove" => action[p] = "unlink"
      BY TypeParts DEF CommandOK, LinkSteps
    <3>. QED
      BY <2>1, <2>4, <3>1, <3>2, <3>3 DEF TypeOK
  <2>5. CASE ReadIndex(p) \/ WriteIndex(p) \/ ReadConfig(p) \/ WriteConfig(p)
    <3>1. Active(p) /\ Settled(p) /\ UNCHANGED link
      BY <2>5 DEF ReadIndex, WriteIndex, ReadConfig, WriteConfig, Step, Keep, disk, Active, Settled
    <3>. QED
      BY <2>1, <3>1 DEF LinkLeft
  <2>. QED
    BY <1>1, <2>2, <2>3, <2>4, <2>5, Zenon DEF Command
<1>2. ASSUME NEW p \in Projects, StartLink(p) \/ StartUnlink(p) PROVE LinkLeft'
  <2>1. PICK what, at, proof : Start(p, what, at, proof)
    BY <1>2 DEF StartLink, StartUnlink
  <2>. QED
    BY <2>1, StartFrame DEF LinkLeft, disk, Active, Settled
<1>3. ASSUME NEW p \in Projects, Kill(p) PROVE LinkLeft'
  BY <1>3 DEF Kill, LinkLeft, Shape, disk, Active, Settled
<1>4. ASSUME NEW at \in Paths, Hand(at) PROVE LinkLeft'
  BY <1>4 DEF Hand, LinkLeft, TypeOK, Active
<1>. QED
  BY <1>1, <1>2, <1>3, <1>4 DEF Next

-----------------------------------------------------------------------------
(* What a command alone has read and written.                              *)

LEMMA ProgressStep ==
  ASSUME TypeOK, Shape, Alone, Progress, Next
  PROVE  Progress'
<1> USE ObsidianAssumption
<1> DEFINE Good(q) == HoldsIndex(q) /\ HoldsConfig(q) /\ HasWritten(q)
<1>1. ASSUME NEW p \in Projects, Command(p) PROVE Progress'
  <2> SUFFICES ASSUME NEW q \in Projects, Undisturbed(q)' PROVE Good(q)'
    BY DEF Progress
  <2>1. /\ q = p /\ UNCHANGED <<action, path>> /\ path[p] \in Paths /\ Good(p)
        /\ RestTyped /\ CommandOK(p)
    BY <1>1, CommandFrame, TypeParts DEF Alone, Undisturbed, Active, Shape, Progress
  <2>2. path[p][1] \in Vaults /\ path[p][2] \in Aliases
    BY <2>1, PathParts
  <2> USE DEF Step
  <2>3. CASE InspectFree(p) \/ InspectRefused(p) \/ InspectLinked(p) \/ MakeFails(p)
             \/ InspectUnlink(p) \/ InspectUnverified(p) \/ InspectGone(p) \/ Make(p) \/ Remove(p)
             \/ Project(p)
    <3>1. pc'[p] \in {"idle", "make", "remove", "readIndex"}
      BY <2>3 DEF InspectFree, InspectRefused, InspectLinked, MakeFails, InspectUnlink,
         InspectUnverified, InspectGone, Make, Remove, Project, Shape
    <3>. QED
      BY <2>1, <3>1 DEF HoldsIndex, HoldsConfig, HasWritten, Linking, Unlinking
  <2>4. CASE ReadIndex(p)
    <3>1. pc'[p] = "writeIndex" /\ UNCHANGED index
      BY <2>4 DEF ReadIndex, Shape, Keep, disk
    <3>2. held'[p] = IF action[p] = "link" THEN index[path[p][1]] \cup {path[p][2]}
                                           ELSE index[path[p][1]] \ {path[p][2]}
      BY <2>4 DEF ReadIndex, Shape
    <3>. QED
      BY <2>1, <3>1, <3>2 DEF HoldsIndex, HoldsConfig, HasWritten, Linking, Unlinking
  <2>5. CASE WriteIndex(p)
    <3>1. pc'[p] = IF action[p] = "link" THEN "readVault" ELSE "readRecord"
      BY <2>5 DEF WriteIndex, Shape
    <3>2. index'[path[p][1]] = held[p] /\ pc[p] = "writeIndex"
      BY <2>1, <2>2, <2>5 DEF WriteIndex, RestTyped
    <3>3. IF action[p] = "link" THEN path[p][2] \in index'[path[p][1]]
                                ELSE path[p][2] \notin index'[path[p][1]]
      BY <2>1, <3>2 DEF HoldsIndex
    <3>. QED
      BY <2>1, <3>1, <3>3 DEF HoldsIndex, HoldsConfig, HasWritten, Linking, Unlinking
  <2>6. CASE ReadConfig(p)
    <3>0. UNCHANGED <<index, config>> /\ config \in Configs
      BY <2>1, <2>6 DEF ReadConfig, Keep, disk, RestTyped
    <3>1. CASE pc[p] = "readVault"
      <4>1. pc'[p] = "writeVault" /\ held'[p] = [config EXCEPT !.vault = path[p][1]]
        BY <2>6, <3>1 DEF ReadConfig, Shape
      <4>2. held'[p].vault = path[p][1] /\ held'[p].links = config.links
        BY <2>2, <3>0, <4>1, ConfigTyped
      <4>. QED
        BY <2>1, <3>0, <3>1, <4>1, <4>2 DEF HoldsIndex, HoldsConfig, HasWritten, Linking, Unlinking
    <3>2. CASE pc[p] = "readRecord"
      <4> DEFINE to == IF action[p] = "link" THEN p ELSE None
      <4>1. pc'[p] = "writeRecord" /\ held'[p] = [config EXCEPT !.links[path[p]] = to]
        BY <2>6, <3>2 DEF ReadConfig, Shape
      <4>2. /\ held'[p].vault = config.vault
            /\ \A at \in Paths : held'[p].links[at] = IF at # path[p] THEN config.links[at] ELSE to
        BY <2>1, <3>0, <4>1, ConfigTyped
      <4>. QED
        BY <2>1, <3>0, <3>2, <4>1, <4>2 DEF HoldsIndex, HoldsConfig, HasWritten, Linking, Unlinking
    <3>. QED
      BY <2>6, <3>1, <3>2 DEF ReadConfig
  <2>7. CASE WriteConfig(p)
    <3>0. UNCHANGED index /\ config' = held[p]
      BY <2>7 DEF WriteConfig
    <3>1. CASE pc[p] = "writeVault"
      <4>1. pc'[p] = "readRecord" /\ action[p] = "link"
        BY <2>1, <2>7, <3>1 DEF WriteConfig, Shape, CommandOK, UnlinkSteps
      <4>. QED
        BY <2>1, <3>0, <3>1, <4>1 DEF HoldsIndex, HoldsConfig, HasWritten, Linking, Unlinking
    <3>2. CASE pc[p] = "writeRecord"
      <4>1. pc'[p] = IF action[p] = "link" THEN "project" ELSE "idle"
        BY <2>7, <3>2 DEF WriteConfig, Shape
      <4>. QED
        BY <2>1, <3>0, <3>2, <4>1 DEF HoldsIndex, HoldsConfig, HasWritten, Linking, Unlinking
    <3>. QED
      BY <2>7, <3>1, <3>2 DEF WriteConfig
  <2>. QED
    BY <1>1, <2>3, <2>4, <2>5, <2>6, <2>7, Zenon DEF Command
<1>2. ASSUME NEW p \in Projects, StartLink(p) \/ StartUnlink(p) PROVE Progress'
  <2>1. PICK what, at, proof : Start(p, what, at, proof)
    BY <1>2 DEF StartLink, StartUnlink
  <2>2. \A q \in Projects : Undisturbed(q)' => pc'[q] = "inspect"
    BY <2>1, StartFrame DEF Undisturbed, Active
  <2>. QED
    BY <2>2 DEF Progress, HoldsIndex, HoldsConfig, HasWritten, Linking, Unlinking
<1>3. ASSUME NEW p \in Projects, Kill(p) PROVE Progress'
  <2>1. \A q \in Projects : ~Undisturbed(q)'
    BY <1>3 DEF Kill, Alone, Undisturbed, Active, Shape
  <2>. QED
    BY <2>1 DEF Progress
<1>4. ASSUME NEW at \in Paths, Hand(at) PROVE Progress'
  <2>1. UNCHANGED <<index, config, pc, action, path, held, crowded>>
    BY <1>4 DEF Hand
  <2>2. \A q \in Projects : Undisturbed(q)' => Undisturbed(q)
    <3>1. ASSUME NEW q \in Projects, Active(q) PROVE mixed'[q]
      BY <1>4, <3>1, Zenon DEF Hand
    <3>. QED
      BY <2>1, <3>1 DEF Undisturbed, Active
  <2> SUFFICES ASSUME NEW q \in Projects, Undisturbed(q)' PROVE Good(q)'
    BY DEF Progress
  <2>3. Good(q)
    BY <2>2 DEF Progress
  <2>. QED
    BY <2>1, <2>3, Zenon DEF HoldsIndex, HoldsConfig, HasWritten, Linking, Unlinking
<1>. QED
  BY <1>1, <1>2, <1>3, <1>4 DEF Next

-----------------------------------------------------------------------------
(* What link has established.                                              *)

\* Without an overlap a command that acts is alone.
LEMMA OnlyOne ==
  ASSUME Alone, ~crowded, NEW p \in Projects, Active(p)
  PROVE  Undisturbed(p) /\ \A q \in Projects \ {p} : pc[q] = "idle"
  BY DEF Alone, Undisturbed, Active

\* Nothing is in the way of a project that does nothing.
LEMMA IdleSpares ==
  /\ \A x : \A p \in Projects : pc[p] = "idle" => Spared(x, p)
  /\ \A x : \A p \in Projects : (pc[p] = "idle")' => Spared(x, p)'
  BY DEF Spared

LEMMA RememberedCommand ==
  ASSUME IInv, NEW p \in Projects, Command(p)
  PROVE  Remembered'
<1> SUFFICES ASSUME ~crowded', ~torn', NEW x \in owed'
             PROVE  Standing(x)' /\ \A q \in Projects : Spared(x, q)'
  BY DEF Remembered
<1> USE ObsidianAssumption DEF IInv
<1>1. /\ Active(p) /\ UNCHANGED <<action, path>> /\ ~crowded /\ ~torn
      /\ \A q \in Projects \ {p} : pc'[q] = pc[q]
  BY CommandFrame
<1>2. Undisturbed(p) /\ \A q \in Projects \ {p} : pc'[q] = "idle"
  BY <1>1, OnlyOne
<1>3. /\ path[p] \in Paths /\ path[p][1] \in Vaults /\ path[p][2] \in Aliases
      /\ RestTyped /\ CommandOK(p) /\ HoldsIndex(p) /\ HoldsConfig(p) /\ HasWritten(p)
      /\ p # None
  BY <1>1, <1>2, PathParts, TypeParts DEF Shape, Progress
<1>4. x \in Paths \X Projects
  BY CommandTyped DEF TypeOK
<1>5. x[1] \in Paths /\ x[1][1] \in Vaults /\ x[1][2] \in Aliases /\ x[2] \in Projects
      /\ x = <<x[1], x[2]>>
  BY <1>4, PathParts
<1>6. x \in owed => Standing(x) /\ Spared(x, p)
  BY <1>1 DEF Remembered
<1>7. SUFFICES Standing(x)' /\ Spared(x, p)'
  BY <1>2, IdleSpares
<1> USE DEF Step
<1>a. CASE InspectFree(p) \/ InspectLinked(p)
  <2>1. UNCHANGED <<disk, owed>> /\ action[p] = "link" /\ link[path[p]] \in {None, p}
    BY <1>a DEF InspectFree, InspectLinked, Keep, history
  <2>. QED
    BY <1>1, <1>5, <1>6, <2>1 DEF Standing, Spared, disk
<1>b. CASE InspectRefused(p) \/ InspectUnverified(p) \/ MakeFails(p)
  <2>1. UNCHANGED <<disk, owed>> /\ pc'[p] = "idle"
    BY <1>b DEF InspectRefused, InspectUnverified, MakeFails, Keep, history, Shape
  <2>. QED
    BY <1>1, <1>5, <1>6, <2>1, IdleSpares DEF Standing, disk
<1>c. CASE InspectUnlink(p) \/ InspectGone(p)
  <2>1. UNCHANGED <<disk, owed>> /\ action[p] = "unlink" /\ pc[p] = "inspect"
        /\ link[path[p]] \in {None, p}
    BY <1>c DEF InspectUnlink, InspectGone, Keep, history, Verified
  <2>. QED
    BY <1>1, <1>5, <1>6, <2>1 DEF Standing, Spared, disk
<1>d. CASE Make(p)
  <2>1. /\ UNCHANGED <<index, config, owed>> /\ link' = [link EXCEPT ![path[p]] = p]
        /\ link[path[p]] = None /\ action[p] = "link" /\ pc[p] = "make"
    BY <1>3, <1>d DEF Make, Same, history, CommandOK, UnlinkSteps
  <2>2. x[1] # path[p]
    BY <1>5, <1>6, <2>1 DEF Standing
  <2>. QED
    BY <1>1, <1>3, <1>5, <1>6, <2>1, <2>2 DEF Standing, Spared, RestTyped
<1>e. CASE Remove(p)
  <2>1. /\ UNCHANGED <<index, config, owed>> /\ link' = [link EXCEPT ![path[p]] = None]
        /\ action[p] = "unlink" /\ pc[p] = "remove"
    BY <1>3, <1>e DEF Remove, Same, history, CommandOK, LinkSteps
  <2>2. x[1] # path[p]
    BY <1>5, <1>6, <2>1 DEF Spared
  <2>. QED
    BY <1>1, <1>3, <1>5, <1>6, <2>1, <2>2 DEF Standing, Spared, RestTyped
<1>f. CASE ReadIndex(p) \/ ReadConfig(p)
  <2>1. UNCHANGED <<disk, owed>> /\ pc[p] \notin {"idle", "inspect"}
    BY <1>f DEF ReadIndex, ReadConfig, Keep, history
  <2>. QED
    BY <1>1, <1>5, <1>6, <2>1 DEF Standing, Spared, disk
<1>g. CASE WriteIndex(p)
  <2>1. /\ UNCHANGED <<link, config, owed>> /\ index' = [index EXCEPT ![path[p][1]] = held[p]]
        /\ pc[p] = "writeIndex"
    BY <1>g DEF WriteIndex, Same, history
  <2>2. Standing(x) /\ Spared(x, p)
    BY <1>6, <2>1
  <2>3. Spared(x, p)'
    BY <1>1, <2>1, <2>2 DEF Spared
  <2>4. x[1][2] \in index'[x[1][1]]
    <3>1. CASE x[1][1] # path[p][1]
      BY <1>3, <1>5, <2>1, <2>2, <3>1 DEF Standing, RestTyped
    <3>2. CASE x[1][1] = path[p][1]
      <4>1. index'[x[1][1]] = held[p] /\ x[1][2] \in index[path[p][1]]
        BY <1>3, <2>1, <2>2, <3>2 DEF RestTyped, Standing
      <4>2. action[p] = "unlink" => x[1][2] # path[p][2]
        BY <1>3, <1>5, <2>1, <2>2, <3>2, PathParts DEF Spared
      <4>. QED
        BY <1>3, <2>1, <4>1, <4>2 DEF HoldsIndex, CommandOK
    <3>. QED
      BY <3>1, <3>2
  <2>. QED
    BY <2>1, <2>2, <2>3, <2>4 DEF Standing
<1>h. CASE WriteConfig(p)
  <2>1. UNCHANGED <<link, index, owed>> /\ config' = held[p] /\ pc[p] \in {"writeVault", "writeRecord"}
    BY <1>h DEF WriteConfig, Same, history
  <2>2. Standing(x) /\ Spared(x, p)
    BY <1>6, <2>1
  <2>3. Spared(x, p)'
    BY <1>1, <2>1, <2>2 DEF Spared
  <2>4. held[p].links[x[1]] = x[2]
    BY <1>3, <1>5, <2>1, <2>2 DEF HoldsConfig, Standing, Spared, CommandOK
  <2>. QED
    BY <2>1, <2>2, <2>3, <2>4 DEF Standing
<1>i. CASE Project(p)
  <2>1. /\ UNCHANGED <<link, index, config>> /\ pc'[p] = "idle" /\ pc[p] = "project"
        /\ owed' = IF link[path[p]] = p THEN owed \cup {<<path[p], p>>} ELSE owed
    BY <1>i DEF Project, Shape
  <2>2. Standing(x)
    <3>1. CASE x \in owed
      BY <1>6, <3>1
    <3>2. CASE x \notin owed
      <4>1. x[1] = path[p] /\ x[2] = p /\ link[path[p]] = p
        BY <2>1, <3>2
      <4>2. action[p] = "link"
        BY <1>3, <2>1 DEF CommandOK, UnlinkSteps
      <4>. QED
        BY <1>3, <2>1, <4>1, <4>2 DEF HasWritten, Linking, Standing
    <3>. QED
      BY <3>1, <3>2
  <2>. QED
    BY <2>1, <2>2, IdleSpares DEF Standing
<1>. QED
  BY <1>a, <1>b, <1>c, <1>d, <1>e, <1>f, <1>g, <1>h, <1>i, Zenon DEF Command

LEMMA RememberedStep ==
  ASSUME IInv, Next
  PROVE  Remembered'
<1> USE ObsidianAssumption DEF IInv
<1>1. ASSUME NEW p \in Projects, NEW what \in {"link", "unlink"}, NEW at, NEW proof,
             Start(p, what, at, proof), owed' \subseteq owed,
             what = "unlink" => owed' \subseteq owed \ {<<at, p>>}
      PROVE Remembered'
  <2> SUFFICES ASSUME ~crowded', ~torn', NEW x \in owed'
               PROVE  Standing(x)' /\ \A q \in Projects : Spared(x, q)'
    BY DEF Remembered
  <2>1. /\ UNCHANGED <<disk, torn>> /\ ~crowded /\ pc'[p] = "inspect" /\ action'[p] = what
        /\ path'[p] = at /\ \A q \in Projects \ {p} : pc'[q] = "idle"
    BY <1>1, StartFrame DEF Active
  <2>2. Standing(x)
    BY <1>1, <2>1 DEF Remembered
  <2>3. Spared(x, p)'
    BY <1>1, <2>1 DEF Spared
  <2>. QED
    BY <2>1, <2>2, <2>3, IdleSpares DEF Standing, disk
<1>2. ASSUME NEW p \in Projects, StartLink(p) \/ StartUnlink(p) PROVE Remembered'
  BY <1>1, <1>2 DEF StartLink, StartUnlink
<1>3. ASSUME NEW p \in Projects, Kill(p) PROVE Remembered'
  <2> SUFFICES ASSUME ~crowded', ~torn', NEW x \in owed'
               PROVE  Standing(x)' /\ \A q \in Projects : Spared(x, q)'
    BY DEF Remembered
  <2>1. /\ UNCHANGED <<disk, owed, crowded, torn, action, path>> /\ pc'[p] = "idle"
        /\ \A q \in Projects \ {p} : pc'[q] = pc[q]
    BY <1>3 DEF Kill, Shape
  <2>2. Standing(x) /\ \A q \in Projects : Spared(x, q)
    BY <2>1 DEF Remembered
  <2>3. \A q \in Projects \ {p} : Spared(x, q)'
    BY <2>1, <2>2 DEF Spared
  <2>. QED
    BY <2>1, <2>2, <2>3, IdleSpares DEF Standing, disk
<1>4. ASSUME NEW at \in Paths, Hand(at) PROVE Remembered'
  <2> SUFFICES ASSUME ~crowded', ~torn', NEW x \in owed'
               PROVE  Standing(x)' /\ \A q \in Projects : Spared(x, q)'
    BY DEF Remembered
  <2>1. UNCHANGED <<index, config, crowded, torn, pc, action, path>> /\ x \in owed /\ x[1] # at
    BY <1>4 DEF Hand
  <2>2. Standing(x) /\ \A q \in Projects : Spared(x, q)
    BY <2>1 DEF Remembered
  <2>3. link'[x[1]] = link[x[1]]
    BY <1>4, <2>1 DEF Hand, TypeOK
  <2>. QED
    BY <2>1, <2>2, <2>3 DEF Standing, Spared
<1>. QED
  BY <1>2, <1>3, <1>4, RememberedCommand DEF Next

-----------------------------------------------------------------------------

LEMMA Invariance == Spec => []IInv
<1>1. IInv /\ [Next]_vars => IInv'
  <2> SUFFICES ASSUME IInv, [Next]_vars PROVE IInv'
    OBVIOUS
  <2>1. CASE Next
    BY <2>1, NextTyped, RemoveStep, AloneStep, ProgressStep, LinkLeftStep, RememberedStep DEF IInv
  <2>2. CASE UNCHANGED vars
    <3>1. UNCHANGED <<link, index, config, remembered, pc, action, path, held, mixed, owed,
                      crowded, torn, commands, hands, troubles>>
      BY <2>2 DEF vars, disk, history, counters
    <3>2. TypeOK' /\ Shape'
      BY NextTyped DEF IInv
    <3>3. RemoveSafe' /\ Alone' /\ LinkLeft'
      BY <3>1 DEF IInv, RemoveSafe, Alone, Undisturbed, Active, LinkLeft, Settled
    <3>4. Progress'
      <4>1. \A p \in Projects : (Undisturbed(p)' => Undisturbed(p)) /\ HasWritten(p)' = HasWritten(p)
        BY <3>1 DEF Undisturbed, Active, HasWritten, Linking, Unlinking
      <4>2. \A p \in Projects : (HoldsIndex(p) => HoldsIndex(p)') /\ (HoldsConfig(p) => HoldsConfig(p)')
        BY <3>1 DEF HoldsIndex, HoldsConfig
      <4>. QED
        BY <4>1, <4>2 DEF IInv, Progress
    <3>5. Remembered'
      <4>1. \A x : (Standing(x) => Standing(x)') /\ \A p \in Projects : Spared(x, p) => Spared(x, p)'
        BY <3>1 DEF Standing, Spared
      <4>. QED
        BY <3>1, <4>1 DEF IInv, Remembered
    <3>. QED
      BY <3>2, <3>3, <3>4, <3>5 DEF IInv
  <2>. QED
    BY <2>1, <2>2
<1>. QED
  BY InitInv, <1>1, PTL DEF Spec

(* A link that a command has established and nobody has undone keeps its   *)
(* index entry and its record, through any commands of any projects that   *)
(* do not overlap.                                                         *)
THEOREM LinksStay == Spec => []LinksRemembered
<1>1. IInv => LinksRemembered
  BY DEF IInv, LinksRemembered, Remembered, Standing
<1>. QED
  BY Invariance, <1>1, PTL

(* However many commands overlap, no data and no link of another project   *)
(* is removed or replaced: symlink does not replace anything, and what a   *)
(* command removes still is the link that it has verified.                 *)
THEOREM OthersAreLeft == Spec => OthersStay
<1>1. ASSUME IInv, [Next]_vars, hands' = hands, NEW at \in Paths,
             link[at] # None, link'[at] # link[at]
      PROVE  link[at] # Data /\ pc[link[at]] = "remove" /\ path[link[at]] = at
  <2> USE ObsidianAssumption, <1>1 DEF IInv
  <2>1. PICK p \in Projects : Command(p)
    <3>1. ASSUME NEW p \in Projects, StartLink(p) \/ StartUnlink(p) \/ Kill(p) PROVE FALSE
      BY <3>1 DEF StartLink, StartUnlink, Start, Kill, disk
    <3>2. ASSUME NEW y \in Paths, Hand(y) PROVE FALSE
      BY <3>2 DEF Hand, TypeOK
    <3>. QED
      BY <3>1, <3>2 DEF Next, vars, disk
  <2>2. path[p] \in Paths
    BY <2>1, CommandFrame DEF Shape
  <2>3. /\ pc[p] = "remove" /\ at = path[p]
    BY <2>1, <2>2, CommandLink DEF TypeOK
  <2>. QED
    BY <2>3 DEF RemoveSafe
<1>2. IInv /\ [Next]_vars =>
        [hands' = hands =>
           \A at \in Paths :
             link[at] # None /\ link'[at] # link[at] =>
               /\ link[at] # Data
               /\ pc[link[at]] = "remove" /\ path[link[at]] = at]_vars
  BY <1>1
<1>. QED
  BY Invariance, <1>2, PTL DEF Spec, OthersStay

(* A link or unlink that ends well, and during which nobody else acted,    *)
(* has left the four places in agreement, whatever was killed before it.   *)
THEOREM CommandsAreWhole == Spec => CommandsComplete
<1>1. ASSUME IInv, [Next]_vars, NEW p \in Projects, Active(p), pc'[p] = "idle", ~mixed[p],
             troubles' = troubles
      PROVE  /\ Command(p) /\ Undisturbed(p) /\ path[p] \in Paths /\ UNCHANGED <<action, path>>
             /\ HoldsConfig(p) /\ HasWritten(p)
             /\ Settled(p) => link[path[p]] = IF action[p] = "link" THEN p ELSE None
  <2> USE ObsidianAssumption, <1>1 DEF IInv
  <2>1. ASSUME NEW q \in Projects, StartLink(q) \/ StartUnlink(q) PROVE FALSE
    <3>1. PICK what, at, proof : Start(q, what, at, proof)
      BY <2>1 DEF StartLink, StartUnlink
    <3>. QED
      BY <3>1, StartFrame DEF Active
  <2>2. ASSUME NEW q \in Projects, Kill(q) PROVE FALSE
    BY <2>2 DEF Kill, Trouble, TypeOK
  <2>3. ASSUME NEW y \in Paths, Hand(y) PROVE FALSE
    BY <2>3 DEF Hand, Active
  <2>4. PICK q \in Projects : Command(q)
    BY <2>1, <2>2, <2>3 DEF Next, vars, Active
  <2>5. q = p
    BY <2>4, CommandFrame DEF Active
  <2>6. Undisturbed(p)
    BY DEF Undisturbed
  <2>. QED
    BY <2>4, <2>5, <2>6, CommandFrame DEF Shape, Progress, LinkLeft
<1>2. ASSUME IInv, [Next]_vars, NEW p \in Projects, action[p] = "link", pc[p] = "project",
             pc'[p] = "idle", ~mixed[p], troubles' = troubles
      PROVE  LET at == path[p]
             IN  /\ link[at] = p /\ at[2] \in index[at[1]]
                 /\ config.links[at] = p /\ config.vault = at[1]
                 /\ p \in Configured => Resolve(p, None)' = at[2]
  <2>1. /\ Command(p) /\ path[p] \in Paths /\ HasWritten(p) /\ link[path[p]] = p
        /\ path[p][2] \in Aliases
    BY <1>1, <1>2, PathParts DEF Active, Settled
  <2>2. Project(p)
    BY <1>2, <2>1 DEF Command, InspectFree, InspectLinked, InspectRefused, Make, MakeFails,
       InspectUnlink, InspectUnverified, InspectGone, Remove, ReadIndex, WriteIndex, ReadConfig,
       WriteConfig, Step
  <2>3. p \in Configured => remembered'[p] = path[p][2]
    BY <1>2, <2>2 DEF Project, IInv, TypeOK
  <2>4. p \in Configured => Resolve(p, None)' = path[p][2]
    BY <2>1, <2>3, ObsidianAssumption DEF Resolve
  <2>. QED
    BY <1>2, <2>1, <2>4 DEF HasWritten, Linking
<1>3. ASSUME IInv, [Next]_vars, NEW p \in Projects, action[p] = "unlink", pc[p] = "writeRecord",
             pc'[p] = "idle", ~mixed[p], troubles' = troubles
      PROVE  LET at == path[p]
             IN  link'[at] = None /\ at[2] \notin index'[at[1]] /\ config'.links[at] = None
  <2>1. /\ Command(p) /\ path[p] \in Paths /\ HasWritten(p) /\ HoldsConfig(p)
        /\ link[path[p]] = None
    BY <1>1, <1>3 DEF Active, Settled
  <2>2. WriteConfig(p)
    BY <1>3, <2>1 DEF Command, InspectFree, InspectLinked, InspectRefused, Make, MakeFails,
       InspectUnlink, InspectUnverified, InspectGone, Remove, ReadIndex, WriteIndex, ReadConfig,
       Project, Step
  <2>3. config' = held[p] /\ UNCHANGED <<link, index>>
    BY <2>2 DEF WriteConfig
  <2>. QED
    BY <1>3, <2>1, <2>3 DEF HasWritten, HoldsConfig, Unlinking
<1>4. IInv /\ [Next]_vars =>
        [\A p \in Projects :
           action[p] = "link" /\ pc[p] = "project" /\ pc'[p] = "idle" /\ ~mixed[p]
             /\ troubles' = troubles
           => LET at == path[p]
              IN  /\ link[at] = p /\ at[2] \in index[at[1]]
                  /\ config.links[at] = p /\ config.vault = at[1]
                  /\ p \in Configured => Resolve(p, None)' = at[2]]_vars
  BY <1>2
<1>5. IInv /\ [Next]_vars =>
        [\A p \in Projects :
           action[p] = "unlink" /\ pc[p] = "writeRecord" /\ pc'[p] = "idle" /\ ~mixed[p]
             /\ troubles' = troubles
           => LET at == path[p]
              IN  link'[at] = None /\ at[2] \notin index'[at[1]] /\ config'.links[at] = None]_vars
  BY <1>3
<1>. QED
  BY Invariance, <1>4, <1>5, PTL DEF Spec, CommandsComplete, LinkCompletes, UnlinkCompletes
=============================================================================
