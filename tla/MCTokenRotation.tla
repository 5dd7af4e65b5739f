-------------------------- MODULE MCTokenRotation --------------------------
(* Two clients that rotate among four tokens, one after the other or at    *)
(* the same time.                                                          *)
EXTENDS TokenRotation, TLC

CONSTANTS t0, t1, t2, t3

MCTokens == {t0, t1, t2, t3}
=============================================================================
