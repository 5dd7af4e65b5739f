---------------------------- MODULE MCPushTokens ----------------------------
(* One device more than the list holds, two sessions, and as many pushes   *)
(* under way as there are places and one more.                             *)
EXTENDS PushTokens
=============================================================================
