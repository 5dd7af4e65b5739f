--------------------------- MODULE MCStatusFanout ---------------------------
(* Two sessions, a channel of two changes, one on the wire, an app that    *)
(* reconnects.                                                             *)
EXTENDS StatusFanout
=============================================================================
