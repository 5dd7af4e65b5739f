------------------------------ MODULE MCTerminal ------------------------------
(* Buffers of two units each way and messages that can fill one.          *)
EXTENDS Terminal
=============================================================================
