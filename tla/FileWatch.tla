------------------------------ MODULE FileWatch ------------------------------
(***************************************************************************)
(* What a prospector promises about each path it watches.  As long as the  *)
(* same file is at the path, one harvester at a time follows it: the next  *)
(* one begins after that one has stopped, at the position where it has     *)
(* stopped, and the path is not forgotten before.  Prospector is shown to  *)
(* implement this specification.                                           *)
(***************************************************************************)
EXTENDS Naturals

CONSTANTS Paths, Ids, NoFile, MaxPosition

VARIABLE watch   \* of each path: its file, whether it is followed, and the position

Phases    == {"unfollowed", "reading", "stopped"}
Positions == 0 .. MaxPosition
Unwatched == [id |-> NoFile, phase |-> "unfollowed", position |-> 0]

WInit == watch = [p \in Paths |-> Unwatched]

Becomes(p, id, phase, position) ==
  watch' = [watch EXCEPT ![p] = [id |-> id, phase |-> phase, position |-> position]]

\* A file is found and followed from somewhere, skipped up to somewhere, or left alone.
Find(p) ==
  /\ watch[p].id = NoFile
  /\ \E id \in Ids, phase \in Phases, n \in Positions : Becomes(p, id, phase, n)

\* The harvester moves on, never back.
Advance(p) ==
  /\ watch[p].phase = "reading"
  /\ \E n \in watch[p].position .. MaxPosition : Becomes(p, watch[p].id, "reading", n)

Stop(p) ==
  /\ watch[p].phase = "reading"
  /\ Becomes(p, watch[p].id, "stopped", watch[p].position)

Resume(p) ==
  /\ watch[p].phase = "stopped"
  /\ Becomes(p, watch[p].id, "reading", watch[p].position)

\* Another file is at the path; whoever follows the old one is not heard of again.
Replace(p) ==
  /\ watch[p].id # NoFile
  /\ \E id \in Ids \ {watch[p].id} : Becomes(p, id, "unfollowed", 0)

\* The files of these paths have disappeared.
Forget(gone) ==
  /\ \A p \in gone : watch[p].phase = "stopped"
  /\ watch' = [p \in Paths |-> IF p \in gone THEN Unwatched ELSE watch[p]]

WNext ==
  \/ \E p \in Paths : Find(p) \/ Advance(p) \/ Stop(p) \/ Resume(p) \/ Replace(p)
  \/ \E gone \in SUBSET Paths : Forget(gone)

WSafeSpec == WInit /\ [][WNext]_watch
=============================================================================
