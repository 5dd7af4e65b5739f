-------------------------- MODULE MCChatPermission --------------------------
(* Two chats from different addresses, with two prompts each, compete for  *)
(* one run_code slot. A POST handler is free again after each answer, so   *)
(* one of them answers a prompt any number of times, early and late.       *)
EXTENDS ChatPermission

CONSTANTS c1, c2, ip1, ip2

MCOwner == [c \in Chats |-> IF c = c1 THEN ip1 ELSE ip2]
=============================================================================
