------------------------------ MODULE Registry ------------------------------
(***************************************************************************)
(* The session registry of the hub (src/internal/relay/hub.go,             *)
(* session.go): what was created through the relay, beside the tmux        *)
(* sessions that really exist, and the merge of the two that clients are   *)
(* shown. The registry is in memory only, tmux outlives the relay, and     *)
(* nothing but the names ties a record to its tmux session.                *)
(*                                                                         *)
(* This module holds the state and what changes it under Hub.mu;           *)
(* ClientConn drives it, one step at a time, from a connection.            *)
(***************************************************************************)
CONSTANTS
    Created,     \* names clients give to sessions
    Projects,    \* directories below ~/projects a session can work in
    Tmux,        \* names of tmux sessions
    Logical,     \* per tmux name: the name without a leading "cx-"
    NoProject    \* a working directory outside ~/projects

ASSUME RegistryAssumption ==
    /\ DOMAIN Logical = Tmux
    /\ NoProject \notin Created \cup Projects \cup Tmux

VARIABLES
    sessions,    \* Hub.sessions: at most one record per name
    tmux         \* the tmux sessions that exist

registry == <<sessions, tmux>>

-----------------------------------------------------------------------------
Record == [name : Created, project : Projects \cup {NoProject}]

Exists(s)  == \E rec \in sessions : rec.name = s

(* mergeDiscovered drops a tmux session that a record stands for: by its   *)
(* name, or by the project whose container it is. Mutant: by name only.    *)
NamedBy(relay, n)     == \E rec \in relay : rec.name \in {n, Logical[n]}
Represented(relay, n) == \E rec \in relay : {rec.name, rec.project} \cap {n, Logical[n]} # {}

MergeDiscovered(relay, discovered) ==
    [relay |-> relay, system |-> {n \in discovered : ~ Represented(relay, n)}]

RegistryInit == sessions = {} /\ tmux \in SUBSET Tmux

(* CreateSession keeps a session that exists, with the project it has.     *)
(* Mutant: it is replaced only when the project differs, and kept beside.  *)
CreateBeside(s, p) == sessions' = sessions \cup {[name |-> s, project |-> p]}
CreateSession(s, p) ==
    sessions' = IF Exists(s) THEN sessions ELSE sessions \cup {[name |-> s, project |-> p]}

DeleteSession(s) == sessions' = {rec \in sessions : rec.name # s}

(* A tmux session is started (by the terminal server or by hand) or ends.  *)
TmuxChanges == \E n \in Tmux : tmux' = IF n \in tmux THEN tmux \ {n} ELSE tmux \cup {n}

RegistryOK ==
    /\ sessions \subseteq Record
    /\ \A r1, r2 \in sessions : r1.name = r2.name => r1 = r2
    /\ tmux \subseteq Tmux
=============================================================================
