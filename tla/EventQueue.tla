----------------------------- MODULE EventQueue -----------------------------
(***************************************************************************)
(* What filebeat promises about the events its harvesters hand over: they  *)
(* are acknowledged to the registrar in the order in which the pipeline    *)
(* accepted them, none is lost, none is duplicated, and at most Capacity   *)
(* of them are accepted and not yet acknowledged.  EventPipeline is shown  *)
(* to implement this specification.                                        *)
(***************************************************************************)
EXTENDS Naturals, Sequences

CONSTANTS Event,     \* the events a harvester can send
          Capacity   \* the most events that are accepted and unacknowledged

VARIABLES accepted,  \* every event accepted so far, in order
          delivered  \* every event acknowledged so far, in order

qvars == <<accepted, delivered>>

QInit == accepted = <<>> /\ delivered = <<>>

Accept == \E e \in Event :
  /\ Len(accepted) - Len(delivered) < Capacity
  /\ accepted' = Append(accepted, e)
  /\ UNCHANGED delivered

\* A whole batch, the next ones in order, is acknowledged at once.
Deliver == \E n \in Len(delivered) + 1 .. Len(accepted) :
  /\ delivered' = SubSeq(accepted, 1, n)
  /\ UNCHANGED accepted

QNext == Accept \/ Deliver

QSafeSpec == QInit /\ [][QNext]_qvars

QSpec == QSafeSpec /\ WF_qvars(Deliver)
=============================================================================
