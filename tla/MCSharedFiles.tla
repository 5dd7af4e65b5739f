---------------------------- MODULE MCSharedFiles ----------------------------
(* Three uploads of one name, of every size around the cap, one download   *)
(* and one delete.                                                         *)
EXTENDS SharedFiles, TLC

CONSTANTS u1, u2, u3

MCUploads == {u1, u2, u3}

(* The uploads differ only in what they write.                             *)
AnyUpload == Permutations(MCUploads)
=============================================================================
