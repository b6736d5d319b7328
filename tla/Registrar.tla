------------------------------ MODULE Registrar ------------------------------
(***************************************************************************)
(* What the prospector asks of the registrar: where to go on with a file.  *)
(* A file is told from another by its identity (inode and device), which   *)
(* stays with it when it is renamed.  Registrar.State maps a path to the   *)
(* identity and the offset recorded for it.  Registrar.Run and the writing *)
(* of the registry file are not part of the source.                        *)
(***************************************************************************)
EXTENDS Naturals

CONSTANTS Paths,    \* the file names a glob may match, sorted by Glob
          Ids,      \* the identities of files
          NoFile,   \* there is no file at a path
          MaxSize   \* bound: the lines a file has

ASSUME RegistrarAssumption ==
  /\ Paths \subseteq Nat \ {0}
  /\ NoFile \notin Ids
  /\ MaxSize \in Nat

NoPath == 0     \* the path ""

FileState == [id : Ids, offset : 0 .. MaxSize]
NoState   == [id |-> NoFile, offset |-> 0]
Registry  == [Paths -> FileState \cup {NoState}]

\* GetFileState: is there a state for the path?
IsFound(State, path) == State[path] # NoState

\* fetchState goes on with a file when its path has a state and the path still
\* leads to the file that was just examined; the identity in the state is not
\* looked at.
Resumes(State, path, id, idNow) == IsFound(State, path) /\ idNow = id

\* Fault: the file at the path need not be the one that was examined.
ResumesUnchecked(State, path, id, idNow) == IsFound(State, path)

\* getPreviousFile finds a state recorded under another path.
HasOldName(State, path, id) ==
  \E other \in Paths \ {path} : IsFound(State, other) /\ State[other].id = id
=============================================================================
