------------------------------ MODULE ToolGate ------------------------------
(***************************************************************************)
(* What the chat proxy and its permission broker promise about unsafe      *)
(* tools (requestInlinePermission in src/internal/relay/chat_proxy.go,     *)
(* permission.go), whatever channels, locks, timers and slots they use.    *)
(*                                                                         *)
(* A prompt is made once. While it is open its owner may allow it, and it  *)
(* takes one verdict, a yes only from the owner. When it closes, a yes may *)
(* become a licence, which is good for one use.                            *)
(***************************************************************************)
CONSTANT Prompts    \* names of prompts

VARIABLES
    made,           \* prompts that were made
    open,           \* those that still wait
    allowed,        \* those the owner's address said yes to
    granted,        \* those whose verdict is yes
    refused,        \* those whose verdict is no
    licensed,       \* closed with a yes, the tool has still to run
    used            \* prompts whose tool has run

gate == <<made, open, allowed, granted, refused, licensed, used>>

-----------------------------------------------------------------------------
Init ==
    /\ made = {} /\ open = {} /\ allowed = {}
    /\ granted = {} /\ refused = {} /\ licensed = {} /\ used = {}

Ask(i) ==
    /\ i \notin made
    /\ made' = made \cup {i} /\ open' = open \cup {i}
    /\ UNCHANGED <<allowed, granted, refused, licensed, used>>

Allow(i) ==
    /\ i \in open
    /\ allowed' = allowed \cup {i}
    /\ UNCHANGED <<made, open, granted, refused, licensed, used>>

(* The first answer to arrive is the verdict.                              *)
Answer(i) ==
    /\ i \in open \ (granted \cup refused)
    /\ \/ i \in allowed /\ granted' = granted \cup {i} /\ UNCHANGED refused
       \/ refused' = refused \cup {i} /\ UNCHANGED granted
    /\ UNCHANGED <<made, open, allowed, licensed, used>>

(* A prompt closes, in time or not. A yes may come too late to be heard.   *)
Settle(i) ==
    /\ i \in open
    /\ open' = open \ {i}
    /\ \/ UNCHANGED <<licensed, used>>
       \/ i \in granted /\ licensed' = licensed \cup {i} /\ UNCHANGED used
       \/ i \in granted \ used /\ used' = used \cup {i} /\ UNCHANGED licensed
    /\ UNCHANGED <<made, allowed, granted, refused>>

(* A tool that had to wait for its turn.                                   *)
Use(i) ==
    /\ i \in licensed \ used
    /\ licensed' = licensed \ {i} /\ used' = used \cup {i}
    /\ UNCHANGED <<made, open, allowed, granted, refused>>

Next == \E i \in Prompts : Ask(i) \/ Allow(i) \/ Answer(i) \/ Settle(i) \/ Use(i)

Spec == Init /\ [][Next]_gate

-----------------------------------------------------------------------------
(* A tool that has run, or is about to, was allowed by the owner before    *)
(* anybody refused it, on a prompt that is closed; and none runs twice on  *)
(* one prompt.                                                             *)
Promised ==
    /\ used \cup licensed \subseteq granted /\ granted \subseteq allowed
    /\ granted \cap refused = {} /\ used \cap licensed = {}
    /\ open \cap (used \cup licensed) = {}
    /\ open \cup allowed \cup refused \subseteq made
=============================================================================
