------------------------ MODULE TokenRotationProofs ------------------------
(***************************************************************************)
(* Theorems about TokenRotation for any number of clients and tokens.      *)
(***************************************************************************)
EXTENDS TokenRotation, FiniteSetTheorems, TLAPS

Rotation == [pc : {"idle", "open", "write", "rename", "update"}, token : Tokens \cup {None},
             others : BOOLEAN, fd : Inodes \cup {None}, alone : BOOLEAN]

Idle(c) == rot[c].pc = "idle"

(* A rotation counts as alone only while nobody else rotates; unless       *)
(* rotations have overlapped, each one is alone. Nobody rotates while the  *)
(* relay is down, and env.tmp is not the file itself.                      *)
AloneInv ==
    /\ \A c \in Clients : rot[c].alone => \A d \in Clients \ {c} : Idle(d)
    /\ overlap # "now" => \A c \in Clients : Idle(c) \/ rot[c].alone
    /\ ~ up => \A c \in Clients : Idle(c)
    /\ \A c \in Clients : Idle(c) \/ rot[c].token \in Tokens
    /\ tmp # env

(* What a rotation that is alone knows of the files at each of its steps.  *)
Knows(c) ==
    /\ Idle(c) \/ rot[c].token \in held
    /\ rot[c].pc = "write" => tmp # None /\ rot[c].fd = tmp
    /\ rot[c].pc = "rename" =>
           tmp # None /\ file[tmp] = [token |-> rot[c].token, others |-> rot[c].others]
    /\ rot[c].pc = "update" => file[env] = [token |-> rot[c].token, others |-> rot[c].others]
    /\ overlap = "never" => Idle(c) \/ rot[c].others
    /\ overlap # "now" /\ rot[c].pc \in {"open", "write", "rename"} => rot[c].token # memory
StepInv == \A c \in Clients : rot[c].alone => Knows(c)

(* The file, the memory and the owner agree, but for a rotation that has   *)
(* renamed and not updated.                                                *)
AgreeInv ==
    /\ overlap # "now" =>
           /\ file[env].token \in held
           /\ up => memory \in held
           /\ up /\ (\A c \in Clients : rot[c].pc # "update") => file[env].token = memory
    /\ overlap = "never" => file[env].others

IInv == TypeOK /\ AloneInv /\ StepInv /\ AgreeInv

-----------------------------------------------------------------------------
(* When env.tmp has no name, some inode is not in use.                     *)
LEMMA FreshInode ==
    ASSUME IInv, tmp = None
    PROVE  Fresh \in Inodes /\ Fresh \notin InUse
<1>1. /\ IsFiniteSet(Clients) /\ IsFiniteSet(Inodes) /\ None \notin Inodes
      /\ Cardinality(Clients) \in Nat /\ Cardinality(Inodes) \in Nat
      /\ Cardinality(Inodes) >= Cardinality(Clients) + 2
    BY RotationAssumption, FS_CardinalityType
<1>2. SUFFICES ASSUME \A i \in Inodes : i \in InUse PROVE FALSE
    BY DEF Fresh
<1> DEFINE I == Inodes \ {env}
           user == [i \in I |-> CHOOSE c \in Clients : rot[c].fd = i]
<1>3. \A i \in I : user[i] \in Clients /\ rot[user[i]].fd = i
    BY <1>1, <1>2 DEF InUse
<1>4. user \in [I -> Clients]
    BY <1>3
<1>5. IsFiniteSet(I) /\ Cardinality(Clients) < Cardinality(I)
    <2>1. IsFiniteSet(I) /\ Cardinality(I) = IF env \in Inodes THEN Cardinality(Inodes) - 1
                                            ELSE Cardinality(Inodes)
        BY <1>1, FS_RemoveElement
    <2>2. QED
        BY <1>1, <2>1
<1> HIDE DEF user, I
<1>6. IsFiniteSet(Clients)
    BY RotationAssumption
<1>7. \E i, j \in I : i # j /\ user[i] = user[j]
    BY <1>4, <1>5, <1>6, FS_PigeonHole, Zenon
<1>8. QED
    BY <1>3, <1>7

LEMMA InitIInv == Init => IInv
<1>1. SUFFICES ASSUME Init PROVE IInv
    OBVIOUS
<1>2. Inodes # {}
    <2>1. Cardinality(Clients) \in Nat /\ Cardinality(Inodes) >= Cardinality(Clients) + 2
        BY RotationAssumption, FS_CardinalityType
    <2>2. Cardinality({}) = 0
        BY FS_EmptySet
    <2>3. QED
        BY <2>1, <2>2
<1>3. env \in Inodes
    BY <1>1, <1>2 DEF Init
<1>4. TypeOK
    BY <1>1, <1>3, RotationAssumption DEF Init, TypeOK, Content, Empty, Rest
<1>5. AloneInv /\ StepInv /\ AgreeInv
    BY <1>1, <1>3, RotationAssumption DEF Init, AloneInv, StepInv, AgreeInv, Idle, Rest
<1>6. QED
    BY <1>4, <1>5 DEF IInv

-----------------------------------------------------------------------------
LEMMA ReadStep ==
    ASSUME NEW c \in Clients, NEW t \in Tokens, IInv, Read(c, t)
    PROVE  IInv'
<1>1. /\ up /\ memory \in held /\ t \notin held /\ Idle(c) /\ held' = held \cup {t}
      /\ UNCHANGED <<up, memory, env, tmp, file>>
    BY DEF Read, At, Idle
<1>2. PICK alone \in BOOLEAN :
          /\ alone = \A d \in Clients : Idle(d)
          /\ rot' = [d \in Clients |->
                 IF d = c THEN [pc |-> "open", token |-> t, others |-> file[env].others,
                                fd |-> None, alone |-> alone]
                 ELSE [rot[d] EXCEPT !.alone = FALSE]]
          /\ overlap' = IF alone THEN overlap ELSE "now"
    BY DEF Read, Idle
<1>3. /\ rot'[c] = [pc |-> "open", token |-> t, others |-> file[env].others,
                    fd |-> None, alone |-> alone]
      /\ \A d \in Clients \ {c} : rot'[d] = [rot[d] EXCEPT !.alone = FALSE]
    BY <1>2
<1>4. file[env] \in Content /\ file[env].others \in BOOLEAN
    BY DEF IInv, TypeOK, Content
<1>5. /\ rot'[c] \in Rotation
      /\ \A d \in Clients \ {c} : /\ rot'[d] \in Rotation /\ ~ rot'[d].alone
                                  /\ rot'[d].pc = rot[d].pc /\ rot'[d].token = rot[d].token
    <2>1. rot'[c] \in Rotation
        BY <1>3, <1>4 DEF Rotation
    <2>2. ASSUME NEW d \in Clients \ {c}
          PROVE  /\ rot'[d] \in Rotation /\ ~ rot'[d].alone
                 /\ rot'[d].pc = rot[d].pc /\ rot'[d].token = rot[d].token
        <3>1. rot[d] \in Rotation
            BY DEF IInv, TypeOK, Rotation
        <3>2. rot'[d] = [rot[d] EXCEPT !.alone = FALSE]
            BY <1>3
        <3>3. QED
            BY <3>1, <3>2 DEF Rotation
    <2>3. QED
        BY <2>1, <2>2
<1>6. TypeOK'
    <2>1. rot' \in [Clients -> Rotation]
        BY <1>2, <1>5
    <2>2. QED
        BY <1>1, <1>2, <2>1 DEF IInv, TypeOK, Rotation
<1>7. AloneInv'
    BY <1>1, <1>2, <1>3, <1>5 DEF IInv, AloneInv, Idle
<1>8. StepInv'
    BY <1>1, <1>2, <1>3, <1>5 DEF IInv, StepInv, AgreeInv, Knows, Idle
<1>9. AgreeInv'
    <2>1. ASSUME overlap' # "now" PROVE \A d \in Clients : rot[d].pc # "update"
        BY <1>2, <2>1 DEF Idle
    <2>2. QED
        BY <1>1, <1>2, <2>1 DEF IInv, AgreeInv
<1>10. QED
    BY <1>6, <1>7, <1>8, <1>9 DEF IInv

(* A handler that moves on in its rotation and keeps the rest of it.       *)
LEMMA Moves ==
    ASSUME NEW c \in Clients, NEW pc \in {"open", "write", "rename", "update"},
           NEW fd \in Inodes \cup {None}, IInv, ~ Idle(c),
           rot' = [rot EXCEPT ![c].pc = pc, ![c].fd = fd],
           up' = up, env' # tmp', overlap' = overlap
    PROVE  /\ rot' \in [Clients -> Rotation]
           /\ rot'[c].pc = pc /\ rot'[c].fd = fd /\ rot'[c].token = rot[c].token
           /\ rot'[c].others = rot[c].others /\ rot'[c].alone = rot[c].alone
           /\ \A d \in Clients \ {c} : rot'[d] = rot[d]
           /\ AloneInv'
<1>1. rot \in [Clients -> Rotation] /\ rot[c] \in Rotation
    BY DEF IInv, TypeOK, Rotation
<1>2. rot'[c] = [rot[c] EXCEPT !.pc = pc, !.fd = fd] /\ rot' = [rot EXCEPT ![c] = rot'[c]]
    BY <1>1
<1>3. /\ rot'[c].pc = pc /\ rot'[c].fd = fd /\ rot'[c].token = rot[c].token
      /\ rot'[c].others = rot[c].others /\ rot'[c].alone = rot[c].alone
      /\ rot'[c] \in Rotation
    BY <1>1, <1>2 DEF Rotation
<1>4. rot' \in [Clients -> Rotation] /\ \A d \in Clients \ {c} : rot'[d] = rot[d]
    BY <1>1, <1>2, <1>3
<1>5. AloneInv'
    BY <1>3, <1>4 DEF IInv, AloneInv, Idle
<1>6. QED
    BY <1>3, <1>4, <1>5

(* While c rotates, any rotation that is alone is c's.                     *)
LEMMA OnlyOneAlone ==
    ASSUME NEW c \in Clients, IInv, ~ Idle(c)
    PROVE  /\ \A d \in Clients \ {c} : ~ rot[d].alone
           /\ overlap # "now" => rot[c].alone /\ \A d \in Clients \ {c} : Idle(d)
BY DEF IInv, AloneInv

LEMMA OpenStep ==
    ASSUME NEW c \in Clients, IInv, Open(c)
    PROVE  IInv'
<1> DEFINE i == IF tmp = None THEN Fresh ELSE tmp
<1>1. /\ up /\ rot[c].pc = "open" /\ ~ Idle(c) /\ tmp' = i
      /\ file' = [file EXCEPT ![i] = Empty]
      /\ rot' = [rot EXCEPT ![c].pc = "write", ![c].fd = i]
      /\ UNCHANGED <<up, memory, env, held, overlap>>
    BY DEF Open, At, Idle
<1>2. i \in Inodes /\ i # env /\ i # None
    BY FreshInode, RotationAssumption DEF IInv, TypeOK, AloneInv, InUse
<1> HIDE DEF i
<1>3. /\ rot' \in [Clients -> Rotation]
      /\ rot'[c].pc = "write" /\ rot'[c].fd = i /\ rot'[c].token = rot[c].token
      /\ rot'[c].others = rot[c].others /\ rot'[c].alone = rot[c].alone
      /\ \A d \in Clients \ {c} : rot'[d] = rot[d]
      /\ AloneInv'
    BY <1>1, <1>2, Moves
<1>4. TypeOK'
    <2>1. Empty \in Content
        BY DEF Empty, Content
    <2>2. QED
        BY <1>1, <1>2, <1>3, <2>1 DEF IInv, TypeOK, Rotation
<1>5. file'[env] = file[env]
    BY <1>1, <1>2 DEF IInv, TypeOK
<1>6. StepInv'
    <2>1. \A d \in Clients \ {c} : ~ rot'[d].alone
        BY <1>1, <1>3, OnlyOneAlone
    <2>2. ASSUME rot'[c].alone PROVE Knows(c)'
        <3>1. Knows(c)
            BY <1>3, <2>2 DEF IInv, StepInv
        <3>2. QED
            BY <1>1, <1>2, <1>3, <3>1 DEF Knows, Idle
    <2>3. QED
        BY <2>1, <2>2 DEF StepInv
<1>7. AgreeInv'
    BY <1>1, <1>3, <1>5 DEF IInv, AgreeInv
<1>8. QED
    BY <1>3, <1>4, <1>6, <1>7 DEF IInv

LEMMA WriteStep ==
    ASSUME NEW c \in Clients, IInv, Write(c)
    PROVE  IInv'
<1> DEFINE new == [token |-> rot[c].token, others |-> rot[c].others]
<1>1. /\ up /\ rot[c].pc = "write" /\ ~ Idle(c)
      /\ file' = [file EXCEPT ![rot[c].fd] = new]
      /\ rot' = [rot EXCEPT ![c].pc = "rename", ![c].fd = None]
      /\ UNCHANGED <<up, memory, env, tmp, held, overlap>>
    BY DEF Write, At, Idle
<1>2. new \in Content
    BY DEF IInv, TypeOK, Content
<1>3. /\ rot' \in [Clients -> Rotation]
      /\ rot'[c].pc = "rename" /\ rot'[c].token = rot[c].token
      /\ rot'[c].others = rot[c].others /\ rot'[c].alone = rot[c].alone
      /\ \A d \in Clients \ {c} : rot'[d] = rot[d]
      /\ AloneInv'
    BY <1>1, Moves DEF IInv, AloneInv
<1>4. TypeOK'
    BY <1>1, <1>2, <1>3 DEF IInv, TypeOK, Rotation
<1>5. rot[c].alone => /\ tmp # None /\ tmp \in Inodes /\ tmp # env
                      /\ file'[tmp] = new /\ file'[env] = file[env]
    BY <1>1 DEF IInv, TypeOK, StepInv, Knows, AloneInv
<1>6. StepInv'
    BY <1>1, <1>3, <1>5, OnlyOneAlone DEF IInv, StepInv, Knows, Idle
<1>7. AgreeInv'
    BY <1>1, <1>3, <1>5, OnlyOneAlone DEF IInv, AgreeInv
<1>8. QED
    BY <1>3, <1>4, <1>6, <1>7 DEF IInv

LEMMA RenameStep ==
    ASSUME NEW c \in Clients, IInv, Rename(c)
    PROVE  IInv'
<1>1. /\ up /\ rot[c].pc = "rename" /\ ~ Idle(c) /\ tmp # None /\ env' = tmp /\ tmp' = None
      /\ rot' = [rot EXCEPT ![c].pc = "update"]
      /\ UNCHANGED <<up, memory, file, held, overlap>>
    BY DEF Rename, At, Idle
<1>2. env' \in Inodes /\ env' # tmp'
    BY <1>1 DEF IInv, TypeOK
<1>3. rot[c].fd \in Inodes \cup {None} /\ rot' = [rot EXCEPT ![c].pc = "update", ![c].fd = rot[c].fd]
    BY <1>1 DEF IInv, TypeOK
<1>4. /\ rot' \in [Clients -> Rotation]
      /\ rot'[c].pc = "update" /\ rot'[c].token = rot[c].token
      /\ rot'[c].others = rot[c].others /\ rot'[c].alone = rot[c].alone
      /\ \A d \in Clients \ {c} : rot'[d] = rot[d]
      /\ AloneInv'
    BY <1>1, <1>2, <1>3, Moves
<1>5. TypeOK'
    BY <1>1, <1>2, <1>4 DEF IInv, TypeOK, Rotation
<1>6. rot[c].alone => file'[env'] = [token |-> rot[c].token, others |-> rot[c].others]
    BY <1>1 DEF IInv, StepInv, Knows
<1>7. StepInv'
    BY <1>1, <1>4, <1>6, OnlyOneAlone DEF IInv, StepInv, Knows, Idle
<1>8. AgreeInv'
    BY <1>1, <1>4, <1>6, OnlyOneAlone DEF IInv, StepInv, Knows, AgreeInv
<1>9. QED
    BY <1>4, <1>5, <1>7, <1>8 DEF IInv

(* A rotation is over, in one way or the other.                            *)
LEMMA Rests ==
    ASSUME NEW c \in Clients, IInv, rot' = [rot EXCEPT ![c] = Rest]
    PROVE  /\ rot' \in [Clients -> Rotation] /\ rot'[c] = Rest
           /\ Idle(c)' /\ ~ rot'[c].alone
           /\ \A d \in Clients \ {c} : rot'[d] = rot[d]
<1>1. rot \in [Clients -> Rotation] /\ Rest \in Rotation
    BY DEF IInv, TypeOK, Rotation, Rest
<1>2. QED
    BY <1>1 DEF Idle, Rest

LEMMA FailStep ==
    ASSUME NEW c \in Clients, IInv, Fail(c)
    PROVE  IInv'
<1>1. /\ up /\ rot[c].pc \in {"open", "write", "rename"} /\ ~ Idle(c)
      /\ rot' = [rot EXCEPT ![c] = Rest] /\ held' = held \ {rot[c].token}
      /\ UNCHANGED <<up, memory, env, tmp, file, overlap>>
    BY DEF Fail, At, Idle
<1>2. /\ rot' \in [Clients -> Rotation] /\ Idle(c)' /\ ~ rot'[c].alone
      /\ \A d \in Clients \ {c} : rot'[d] = rot[d]
    BY <1>1, Rests
<1>3. TypeOK'
    BY <1>1, <1>2 DEF IInv, TypeOK, Rotation
<1>4. AloneInv'
    BY <1>1, <1>2 DEF IInv, AloneInv, Idle
<1>5. StepInv'
    BY <1>1, <1>2, OnlyOneAlone DEF StepInv
<1>6. AgreeInv'
    <2>1. ASSUME overlap # "now"
          PROVE  memory # rot[c].token /\ file[env].token = memory
        <3>1. Knows(c) /\ \A d \in Clients \ {c} : Idle(d)
            BY <1>1, <2>1, OnlyOneAlone DEF IInv, StepInv
        <3>2. QED
            BY <1>1, <2>1, <3>1 DEF IInv, AgreeInv, Knows, Idle
    <2>2. QED
        BY <1>1, <2>1 DEF IInv, AgreeInv
<1>7. QED
    BY <1>3, <1>4, <1>5, <1>6 DEF IInv

LEMMA UpdateStep ==
    ASSUME NEW c \in Clients, IInv, Update(c)
    PROVE  IInv'
<1>1. /\ up /\ rot[c].pc = "update" /\ ~ Idle(c) /\ memory' = rot[c].token
      /\ held' = {rot[c].token} \cup {rot[d].token : d \in {x \in Clients \ {c} : ~ Idle(x)}}
      /\ overlap' = IF rot[c].alone /\ overlap = "now" THEN "once" ELSE overlap
      /\ rot' = [rot EXCEPT ![c] = Rest]
      /\ UNCHANGED <<up, env, tmp, file>>
    BY DEF Update, At, Idle
<1>2. /\ rot' \in [Clients -> Rotation] /\ Idle(c)' /\ ~ rot'[c].alone
      /\ \A d \in Clients \ {c} : rot'[d] = rot[d]
    BY <1>1, Rests
<1>3. \A d \in Clients : Idle(d) \/ rot[d].token \in Tokens
    BY DEF IInv, AloneInv
<1>4. TypeOK'
    BY <1>1, <1>2, <1>3 DEF IInv, TypeOK, Rotation
<1>5. overlap' # "now" => rot[c].alone /\ \A d \in Clients \ {c} : Idle(d)
    BY <1>1, OnlyOneAlone DEF IInv, AloneInv
<1>6. AloneInv'
    BY <1>1, <1>2, <1>5 DEF IInv, AloneInv, Idle
<1>7. StepInv'
    BY <1>1, <1>2, OnlyOneAlone DEF StepInv
<1>8. AgreeInv'
    <2>1. ASSUME overlap' # "now"
          PROVE  file[env] = [token |-> rot[c].token, others |-> rot[c].others]
        BY <1>1, <1>5, <2>1 DEF IInv, StepInv, Knows
    <2>2. overlap' = "never" => overlap = "never"
        BY <1>1
    <2>3. QED
        BY <1>1, <2>1, <2>2 DEF IInv, AgreeInv
<1>9. QED
    BY <1>4, <1>6, <1>7, <1>8 DEF IInv

LEMMA CrashStep ==
    ASSUME IInv, Crash
    PROVE  IInv'
<1>1. /\ ~ up' /\ rot' = [c \in Clients |-> Rest]
      /\ UNCHANGED <<memory, env, tmp, file, held, overlap>>
    BY DEF Crash
<1>2. Rest \in Rotation /\ Rest.pc = "idle" /\ ~ Rest.alone
    BY DEF Rest, Rotation
<1>3. \A c \in Clients : rot'[c] = Rest
    BY <1>1
<1>4. TypeOK'
    BY <1>1, <1>2 DEF IInv, TypeOK, Rotation, Crash
<1>5. AloneInv' /\ StepInv'
    BY <1>1, <1>2, <1>3 DEF IInv, AloneInv, StepInv, Idle
<1>6. AgreeInv'
    BY <1>1 DEF IInv, AgreeInv
<1>7. QED
    BY <1>4, <1>5, <1>6 DEF IInv

LEMMA BootStep ==
    ASSUME IInv, Boot
    PROVE  IInv'
<1>1. /\ ~ up /\ up' = TRUE /\ memory' = file[env].token /\ file[env].token # None
      /\ UNCHANGED <<env, tmp, file, rot, held, overlap>>
    BY DEF Boot
<1>2. \A c \in Clients : Idle(c) /\ Idle(c)'
    BY <1>1 DEF IInv, AloneInv, Idle
<1>3. TypeOK'
    BY <1>1 DEF IInv, TypeOK, Content
<1>4. AloneInv'
    BY <1>1, <1>2 DEF IInv, AloneInv
<1>5. StepInv'
    BY <1>1, <1>2 DEF IInv, StepInv, Knows, Idle
<1>6. AgreeInv'
    BY <1>1 DEF IInv, AgreeInv
<1>7. QED
    BY <1>3, <1>4, <1>5, <1>6 DEF IInv

-----------------------------------------------------------------------------
LEMMA NextIInv == IInv /\ [Next]_vars => IInv'
<1>1. SUFFICES ASSUME IInv, [Next]_vars PROVE IInv'
    OBVIOUS
<1>2. ASSUME NEW c \in Clients, Rotate(c) PROVE IInv'
    BY <1>1, <1>2, ReadStep, OpenStep, WriteStep, RenameStep, FailStep, UpdateStep, Zenon DEF Rotate
<1>3. CASE UNCHANGED vars
    BY <1>1, <1>3 DEF vars, IInv, TypeOK, AloneInv, StepInv, Knows, AgreeInv, Idle
<1>4. QED
    BY <1>1, <1>2, <1>3, CrashStep, BootStep, Zenon DEF Next

LEMMA AlwaysIInv == Spec => []IInv
<1>1. QED
    BY InitIInv, NextIInv, PTL DEF Spec

(* Every variable of the rotation keeps its type.                          *)
THEOREM RotationTypes == Spec => []TypeOK
<1>1. IInv => TypeOK
    BY DEF IInv
<1>2. QED
    BY <1>1, AlwaysIInv, PTL

(* As long as rotations do not overlap, the env file holds a token and the *)
(* other settings, whichever step fails or is the last before a crash.     *)
THEOREM FileStaysWhole == Spec => []EnvFileWhole
<1>1. IInv => EnvFileWhole
    BY RotationAssumption DEF IInv, TypeOK, AgreeInv, EnvFileWhole
<1>2. QED
    BY <1>1, AlwaysIInv, PTL

(* As long as rotations do not overlap, the owner knows the token that is  *)
(* in force and the one that will be after a restart.                      *)
THEOREM OwnerNotLockedOut == Spec => []OwnerHoldsAccepted
<1>1. IInv => OwnerHoldsAccepted
    BY DEF IInv, AgreeInv, OwnerHoldsAccepted
<1>2. QED
    BY <1>1, AlwaysIInv, PTL

(* As long as rotations do not overlap, a restart between them changes     *)
(* nothing.                                                                *)
THEOREM RestartIsSilent == Spec => []RestartKeepsToken
<1>1. IInv => RestartKeepsToken
    BY DEF IInv, AgreeInv, NoRotation, RestartKeepsToken
<1>2. QED
    BY <1>1, AlwaysIInv, PTL
=============================================================================
