---------------------------- MODULE MCClientConn ----------------------------
(* One session that clients create, alone or in a project, the tmux        *)
(* sessions that either of the two would have, and a tmux session that     *)
(* somebody gave the bare name of the project.                             *)
EXTENDS ClientConn

CONSTANTS s, p, cxs, cxp

MCLogical == [n \in {cxs, cxp, p} |-> IF n = cxs THEN s ELSE p]
=============================================================================
