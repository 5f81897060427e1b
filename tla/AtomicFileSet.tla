--------------------------- MODULE AtomicFileSet ---------------------------
(***************************************************************************)
(* What a caller of the multi-file writer is promised: a set of files is   *)
(* either replaced as a whole or left as it was.  The only exception is a  *)
(* call that is cut short: the process dies before the last rename, or one *)
(* of the steps that put an original back fails in its turn.  Even then    *)
(* every path holds its former bytes, its new bytes, or nothing.           *)
(*                                                                         *)
(* This is the abstract specification of writeFilesAtomically              *)
(* (scripts/views.mjs); AtomicWrite implements it.                         *)
(***************************************************************************)
EXTENDS Integers

CONSTANTS
  N,        \* how many files one call writes
  MaxGen    \* bound: how many calls are made

NoFile == 0             \* nothing is stored under this path
Files  == 1..N

VARIABLES
  visible,  \* visible[f]: the call that produced the bytes a reader finds at f
  version,  \* the number of the current (or last) call
  status    \* how the current call stands, or how the last one ended

absVars == <<visible, version, status>>

AbsInit ==
  /\ visible \in [Files -> {NoFile, 1}]
  /\ version = 1
  /\ status = "ok"

\* A new call starts; nothing a reader can see changes.
AbsBegin ==
  /\ status # "busy"
  /\ version < MaxGen
  /\ version' = version + 1
  /\ status' = "busy"
  /\ UNCHANGED visible

\* Every file is replaced, at once.
AbsCommit ==
  /\ status = "busy"
  /\ status' = "ok"
  /\ visible' = [f \in Files |-> version]
  /\ UNCHANGED version

\* The call reports an error and no file has changed.
AbsAbort ==
  /\ status = "busy"
  /\ status' = "error"
  /\ UNCHANGED <<visible, version>>

\* The call is cut short: each path is left old, new or empty.
AbsBreak ==
  /\ status = "busy"
  /\ status' = "broken"
  /\ visible' \in [Files -> Int]
  /\ \A f \in Files : visible'[f] \in {visible[f], version, NoFile}
  /\ UNCHANGED version

AbsNext == AbsBegin \/ AbsCommit \/ AbsAbort \/ AbsBreak

AbsSpec == AbsInit /\ [][AbsNext]_absVars
=============================================================================
