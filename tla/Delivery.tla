------------------------------- MODULE Delivery -------------------------------
(***************************************************************************)
(* What filebeat promises of the lines of a file across restarts.  The     *)
(* position recorded for a file, from which the next start goes on, never  *)
(* moves back, and passes a line only when the line has been delivered or  *)
(* was given up for one of two reasons: the output refused it, or the file *)
(* is tailed and a start found nothing recorded for it.  A crash is no     *)
(* step of this specification: it changes nothing of what is written,      *)
(* delivered, given up or recorded.                                        *)
(*                                                                         *)
(* With an output that refuses nothing and without tailed files this is    *)
(* delivery at least once.                                                 *)
(***************************************************************************)
EXTENDS Naturals

CONSTANTS Sources,       \* the files
          Tailed,        \* the files of which only what is new is wanted
          MaxLines,      \* bound: lines a file has
          OutputMayFail  \* may the output refuse a line?

VARIABLES written,   \* the number of lines in each file
          delivered, \* the lines the output accepted, as pairs of file and number
          givenUp,   \* the lines given up, as triples of file, number and reason
          recorded   \* the position recorded for each file

dvars == <<written, delivered, givenUp, recorded>>

DInit ==
  /\ written = [s \in Sources |-> 0]
  /\ delivered = {}
  /\ givenUp = {}
  /\ recorded = [s \in Sources |-> 0]

Write == \E s \in Sources :
  /\ written[s] < MaxLines
  /\ written' = [written EXCEPT ![s] = @ + 1]
  /\ UNCHANGED <<delivered, givenUp, recorded>>

\* Some lines of the files reach the output, for the first time or again.
Deliver ==
  /\ delivered \subseteq delivered'
  /\ \A l \in delivered' \ delivered : l[2] < written[l[1]]
  /\ UNCHANGED <<written, givenUp, recorded>>

\* The output refuses some lines of the files.
Refuse ==
  /\ OutputMayFail
  /\ givenUp \subseteq givenUp'
  /\ \A l \in givenUp' \ givenUp : l[2] < written[l[1]] /\ l[3] = "refused"
  /\ UNCHANGED <<written, delivered, recorded>>

\* Some lines of a tailed file of which nothing is recorded are passed over.
Skip == \E s \in Tailed :
  /\ recorded[s] = 0
  /\ givenUp \subseteq givenUp'
  /\ \A l \in givenUp' \ givenUp :
       l[1] = s /\ l[2] < written[s] /\ l[3] = "skipped"
  /\ UNCHANGED <<written, delivered, recorded>>

Settled(s, n) == \/ <<s, n>> \in delivered
                 \/ \E why \in {"refused", "skipped"} : <<s, n, why>> \in givenUp

Record ==
  /\ recorded' \in [Sources -> 0 .. MaxLines]
  /\ \A s \in Sources :
       /\ recorded'[s] >= recorded[s]
       /\ \A n \in 0 .. recorded'[s] - 1 : Settled(s, n)
  /\ UNCHANGED <<written, delivered, givenUp>>

DNext == Write \/ Deliver \/ Refuse \/ Skip \/ Record

DSafeSpec == DInit /\ [][DNext]_dvars
=============================================================================
