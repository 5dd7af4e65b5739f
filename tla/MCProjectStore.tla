--------------------------- MODULE MCProjectStore ---------------------------
(* Two syncs and two removers of one project.                              *)
EXTENDS ProjectStore
=============================================================================
