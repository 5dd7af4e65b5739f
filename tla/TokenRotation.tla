--------------------------- MODULE TokenRotation ---------------------------
(***************************************************************************)
(* rotate_token (src/internal/relay/client.go): rewriteEnvFile replaces    *)
(* the token in /etc/continuum/env, then Authenticator.UpdateToken makes   *)
(* it the one in memory. No lock spans the two, nor the read, the write of *)
(* env.tmp and the rename, so the handlers of two clients interleave, and  *)
(* the relay can die between any two steps and restart from the file.      *)
(*                                                                         *)
(* Files are modelled by inodes: os.WriteFile opens and truncates whatever *)
(* file the name env.tmp has at that moment and then writes to it, even if *)
(* another handler has renamed it meanwhile.                               *)
(***************************************************************************)
EXTENDS Naturals, FiniteSets

CONSTANTS
    Clients,     \* WebSocket handlers that may rotate the token
    Tokens,      \* tokens
    First,       \* the token the relay is deployed with
    Inodes,      \* enough for env, env.tmp and every open file
    None         \* no token, no file

ASSUME RotationAssumption ==
    /\ First \in Tokens /\ None \notin Tokens /\ None \notin Inodes
    /\ IsFiniteSet(Clients) /\ IsFiniteSet(Inodes)
    /\ Cardinality(Inodes) >= Cardinality(Clients) + 2

VARIABLES
    up,        \* the relay runs
    memory,    \* Authenticator.token
    env,       \* the inode named /etc/continuum/env
    tmp,       \* the inode named /etc/continuum/env.tmp, or None
    file,      \* per inode: its CONTINUUM_TOKEN line and whether the other lines are there
    rot,       \* per client: the step of its rotation, what it read, its open file
    held,      \* observation: tokens an owner can try: acknowledged last, or sent and not answered
    overlap    \* observation: rotations have overlapped "never", lately ("now"), or only
               \* before one that was alone from its start to its end ("once")

vars == <<up, memory, env, tmp, file, rot, held, overlap>>

-----------------------------------------------------------------------------
Content == [token : Tokens \cup {None}, others : BOOLEAN]
Empty   == [token |-> None, others |-> FALSE]
Rest    == [pc |-> "idle", token |-> None, others |-> FALSE, fd |-> None, alone |-> FALSE]

InUse   == {env, tmp} \cup {rot[c].fd : c \in Clients}
Fresh   == CHOOSE i \in Inodes : i \notin InUse

At(c, pc) == up /\ rot[c].pc = pc

Init ==
    /\ up = TRUE /\ memory = First
    /\ env = CHOOSE i \in Inodes : TRUE
    /\ tmp = None
    /\ file = [i \in Inodes |-> IF i = env THEN [token |-> First, others |-> TRUE] ELSE Empty]
    /\ rot = [c \in Clients |-> Rest]
    /\ held = {First} /\ overlap = "never"

(* A well-formed rotate_token arrives, on a connection that was opened     *)
(* with the token in force, and os.ReadFile returns the file; the new line *)
(* replaces the old one or is added when there is none.                    *)
Read(c, t) ==
    /\ At(c, "idle")
    /\ memory \in held
    /\ t \notin held
    /\ LET alone == \A d \in Clients : rot[d].pc = "idle" IN
           /\ rot' = [d \in Clients |->
                  IF d = c THEN [pc |-> "open", token |-> t, others |-> file[env].others,
                                 fd |-> None, alone |-> alone]
                  ELSE [rot[d] EXCEPT !.alone = FALSE]]
           /\ overlap' = IF alone THEN overlap ELSE "now"
    /\ held' = held \cup {t}
    /\ UNCHANGED <<up, memory, env, tmp, file>>

(* Mutant of Open: the file itself is rewritten.                           *)
OpenInPlace(c) ==
    /\ At(c, "open")
    /\ file' = [file EXCEPT ![env] = Empty]
    /\ rot' = [rot EXCEPT ![c].pc = "write", ![c].fd = env]
    /\ UNCHANGED <<up, memory, env, tmp, held, overlap>>

(* os.WriteFile opens env.tmp with O_CREATE and O_TRUNC.                   *)
Open(c) ==
    /\ At(c, "open")
    /\ LET i == IF tmp = None THEN Fresh ELSE tmp IN
           /\ tmp' = i
           /\ file' = [file EXCEPT ![i] = Empty]
           /\ rot' = [rot EXCEPT ![c].pc = "write", ![c].fd = i]
    /\ UNCHANGED <<up, memory, env, held, overlap>>

Write(c) ==
    /\ At(c, "write")
    /\ file' = [file EXCEPT ![rot[c].fd] = [token |-> rot[c].token, others |-> rot[c].others]]
    /\ rot' = [rot EXCEPT ![c].pc = "rename", ![c].fd = None]
    /\ UNCHANGED <<up, memory, env, tmp, held, overlap>>

(* Mutant of Rename: its error is ignored.                                 *)
RenameUnchecked(c) ==
    /\ At(c, "rename")
    /\ tmp # None
    /\ \/ env' = tmp /\ tmp' = None
       \/ UNCHANGED <<env, tmp>>
    /\ rot' = [rot EXCEPT ![c].pc = "update"]
    /\ UNCHANGED <<up, memory, file, held, overlap>>

(* os.Rename puts whatever env.tmp names in place of the file.             *)
Rename(c) ==
    /\ At(c, "rename")
    /\ tmp # None
    /\ env' = tmp /\ tmp' = None
    /\ rot' = [rot EXCEPT ![c].pc = "update"]
    /\ UNCHANGED <<up, memory, file, held, overlap>>

(* Mutant of Fail: an error is reported after the rename too.              *)
FailLate(c) ==
    /\ up /\ ~ At(c, "idle")
    /\ rot' = [rot EXCEPT ![c] = Rest]
    /\ held' = held \ {rot[c].token}
    /\ UNCHANGED <<up, memory, env, tmp, file, overlap>>

(* Opening, writing or renaming fails (the name is gone when another       *)
(* handler renamed it first): rotate_failed, the old token stays.          *)
Fail(c) ==
    /\ At(c, "open") \/ At(c, "write") \/ At(c, "rename")
    /\ rot' = [rot EXCEPT ![c] = Rest]
    /\ held' = held \ {rot[c].token}
    /\ UNCHANGED <<up, memory, env, tmp, file, overlap>>

(* UpdateToken and the token_rotated answer: the owner drops the old one.  *)
Update(c) ==
    /\ At(c, "update")
    /\ memory' = rot[c].token
    /\ held' = {rot[c].token} \cup {rot[d].token : d \in {x \in Clients \ {c} : rot[x].pc # "idle"}}
    /\ overlap' = IF rot[c].alone /\ overlap = "now" THEN "once" ELSE overlap
    /\ rot' = [rot EXCEPT ![c] = Rest]
    /\ UNCHANGED <<up, env, tmp, file>>

(* The relay dies; the tokens of unanswered rotations stay in their        *)
(* owners' hands.                                                          *)
Crash ==
    /\ up
    /\ up' = FALSE
    /\ rot' = [c \in Clients |-> Rest]
    /\ UNCHANGED <<memory, env, tmp, file, held, overlap>>

(* main reads CONTINUUM_TOKEN, which systemd loads from the env file, and  *)
(* exits when it is missing.                                               *)
Boot ==
    /\ ~ up
    /\ file[env].token # None
    /\ up' = TRUE
    /\ memory' = file[env].token
    /\ UNCHANGED <<env, tmp, file, rot, held, overlap>>

Rotate(c) == \/ \E t \in Tokens : Read(c, t)
             \/ Open(c) \/ Write(c) \/ Rename(c) \/ Fail(c) \/ Update(c)

Next == \/ \E c \in Clients : Rotate(c)
        \/ Crash \/ Boot

Spec == Init /\ [][Next]_vars

-----------------------------------------------------------------------------
(* Every variable keeps its type.                                          *)
TypeOK ==
    /\ up \in BOOLEAN /\ memory \in Tokens
    /\ env \in Inodes /\ tmp \in Inodes \cup {None}
    /\ file \in [Inodes -> Content]
    /\ rot \in [Clients -> [pc : {"idle", "open", "write", "rename", "update"},
                            token : Tokens \cup {None}, others : BOOLEAN,
                            fd : Inodes \cup {None}, alone : BOOLEAN]]
    /\ held \subseteq Tokens /\ overlap \in {"never", "now", "once"}

(* rewriteEnvFile "atomically updates CONTINUUM_TOKEN in                   *)
(* /etc/continuum/env, preserving all other lines": whoever opens the file *)
(* finds a token and the other settings in it. Only two rotations at once  *)
(* can damage it, when one renames what the other has just truncated; the  *)
(* next one brings back the token, the other settings may be gone.         *)
EnvFileWhole ==
    /\ overlap # "now" => file[env].token # None
    /\ overlap = "never" => file[env].others

(* The relay always accepts, now and after a restart at any point, a token *)
(* its owner knows: the last one acknowledged, or one that was sent and    *)
(* not answered (crash between rename and UpdateToken, lost answer). Only  *)
(* rotations at once can break this: one renames the file of the other,    *)
(* whose own rename then fails, and after a restart the relay wants the    *)
(* token that was reported as refused.                                     *)
OwnerHoldsAccepted ==
    overlap # "now" => /\ up => memory \in held
                       /\ file[env].token \in held

(* When no rotation is under way, a restart does not change the token in   *)
(* force.                                                                  *)
NoRotation == \A c \in Clients : rot[c].pc = "idle"
RestartKeepsToken == (up /\ NoRotation /\ overlap # "now") => file[env].token = memory
=============================================================================
