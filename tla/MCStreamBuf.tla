----------------------------- MODULE MCStreamBuf -----------------------------
(* Small instances of StreamBufCalls for TLC. *)
EXTENDS StreamBufCalls
=============================================================================
