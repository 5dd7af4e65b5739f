------------------------- MODULE ProjectStoreProofs -------------------------
(***************************************************************************)
(* Theorems about ProjectStore for any number of syncs and clients that    *)
(* remove the project.                                                     *)
(***************************************************************************)
EXTENDS ProjectStore, TLAPS

(* A token in .git/config has a sync that will take it out, or one that    *)
(* failed.                                                                 *)
TokenInv ==
    origin = "token" =>
        blamed \/ \E s \in Syncs : sync[s] \in {"cloning", "cleanup", "pull", "strip"}

(* A sync that clones, or whose clone failed, has no finished clone, and   *)
(* began before the directory that is there now was made.                  *)
CloneInv ==
    \A s \in Syncs :
        /\ sync[s] = "clone" => dir = "absent" \/ cloner # s
        /\ sync[s] \in {"cloning", "cleanup"} /\ dir = "repo" => cloner # s
        /\ sync[s] \in {"clone", "cloning", "cleanup"} /\ dir # "absent" => s \in before

(* A check that has looked for a kind of work knows of it, or of other     *)
(* work, or cannot speak for it; one that has ended can speak for none     *)
(* that is there.                                                          *)
Checked(rm) ==
    /\ rm.pc # "idle" => "hidden" \in rm.unseen
    /\ rm.pc \in {"stash", "refs"} /\ "tree" \in work => rm.dirty \/ "tree" \in rm.unseen
    /\ rm.pc = "refs" /\ "stash" \in work => rm.dirty \/ "stash" \in rm.unseen
    /\ rm.pc = "delete" => work \subseteq rm.unseen

RemovalInv == \A r \in Removers : Checked(removal[r])

IInv == TypeOK /\ TokenInv /\ CloneInv /\ RemovalInv

-----------------------------------------------------------------------------
LEMMA InitIInv == Init => IInv
<1>1. SUFFICES ASSUME Init PROVE IInv
    OBVIOUS
<1>2. TypeOK
    BY <1>1 DEF Init, TypeOK, NoRemoval
<1>3. TokenInv /\ CloneInv /\ RemovalInv
    BY <1>1 DEF Init, TokenInv, CloneInv, RemovalInv, Checked, NoRemoval
<1>4. QED
    BY <1>2, <1>3 DEF IInv

(* The tree after os.RemoveAll, whole or failed: types, and no work in     *)
(* what is not a finished clone.                                           *)
TreeTypes ==
    /\ dir \in {"absent", "partial", "repo"} /\ cloner \in Syncs \cup {NoSync}
    /\ origin \in {"none", "clean", "token"} /\ work \subseteq Kinds /\ before \subseteq Syncs
    /\ work # {} => dir = "repo"

LEMMA DeletedFacts ==
    ASSUME IInv, Deleted \/ NotDeleted
    PROVE  /\ TreeTypes' /\ work' \subseteq work
           /\ origin' = "token" => origin = "token"
           /\ dir' # "absent" => dir # "absent" /\ cloner' = cloner /\ before' = before
           /\ dir' = "repo" => dir = "repo"
BY DEF IInv, TypeOK, TreeTypes, Deleted, NotDeleted, tree

(* Less work never harms a check.                                          *)
LEMMA LessWork ==
    ASSUME RemovalInv, removal' = removal, work' \subseteq work
    PROVE  RemovalInv'
<1>1. SUFFICES ASSUME NEW r \in Removers PROVE Checked(removal[r])'
    BY DEF RemovalInv
<1>2. Checked(removal[r])
    BY DEF RemovalInv
<1>3. QED
    BY <1>2 DEF Checked

LEMMA SyncKeeps ==
    ASSUME NEW s \in Syncs, IInv, Sync(s)
    PROVE  IInv'
<1> USE DEF IInv, Goto, tree
<1>1. CASE SyncStart(s)
    <2>1. TypeOK' /\ TokenInv' /\ RemovalInv'
        BY <1>1 DEF SyncStart, TypeOK, TokenInv, RemovalInv, Checked
    <2>2. CloneInv'
        BY <1>1 DEF SyncStart, TypeOK, CloneInv
    <2>3. QED
        BY <2>1, <2>2
<1>2. CASE CloneBegins(s)
    <2>1. TypeOK' /\ RemovalInv'
        BY <1>2 DEF CloneBegins, TypeOK, RemovalInv, Checked
    <2>2. TokenInv' /\ CloneInv'
        BY <1>2 DEF CloneBegins, TypeOK, TokenInv, CloneInv
    <2>3. QED
        BY <2>1, <2>2
<1>3. CASE CloneEnds(s)
    <2>1. TypeOK' /\ RemovalInv'
        BY <1>3 DEF CloneEnds, TypeOK, RemovalInv, Checked
    <2>2. TokenInv' /\ CloneInv'
        BY <1>3 DEF CloneEnds, TypeOK, TokenInv, CloneInv
    <2>3. QED
        BY <2>1, <2>2
<1>4. CASE CloneFails(s)
    <2>1. TypeOK' /\ RemovalInv'
        BY <1>4 DEF CloneFails, TypeOK, RemovalInv, Checked
    <2>2. TokenInv' /\ CloneInv'
        BY <1>4 DEF CloneFails, TypeOK, TokenInv, CloneInv
    <2>3. QED
        BY <2>1, <2>2
<1>5. CASE Cleanup(s)
    <2>1. /\ Deleted \/ NotDeleted
          /\ sync' = [sync EXCEPT ![s] = "idle"] /\ removal' = removal
          /\ (blamed' = blamed /\ Deleted) \/ blamed' = TRUE
        BY <1>5 DEF Cleanup
    <2>2. /\ TreeTypes' /\ work' \subseteq work
          /\ dir' # "absent" => dir # "absent" /\ cloner' = cloner /\ before' = before
          /\ dir' = "repo" => dir = "repo"
        BY <2>1, DeletedFacts
    <2>3. TypeOK'
        BY <2>1, <2>2 DEF TypeOK, TreeTypes
    <2>4. TokenInv'
        BY <2>1 DEF TokenInv, Deleted
    <2>5. CloneInv'
        BY <2>1, <2>2 DEF CloneInv, TypeOK
    <2>6. RemovalInv'
        BY <2>1, <2>2, LessWork
    <2>7. QED
        BY <2>3, <2>4, <2>5, <2>6
<1>6. CASE SetUrl(s)
    <2>1. TypeOK' /\ CloneInv' /\ RemovalInv'
        BY <1>6 DEF SetUrl, TypeOK, CloneInv, RemovalInv, Checked
    <2>2. TokenInv'
        BY <1>6 DEF SetUrl, TypeOK, TokenInv
    <2>3. QED
        BY <2>1, <2>2
<1>7. CASE Pull(s)
    <2>1. TypeOK' /\ CloneInv' /\ RemovalInv'
        BY <1>7 DEF Pull, TypeOK, CloneInv, RemovalInv, Checked
    <2>2. TokenInv'
        BY <1>7 DEF Pull, TypeOK, TokenInv
    <2>3. QED
        BY <2>1, <2>2
<1>8. CASE Strip(s)
    <2>1. TypeOK' /\ CloneInv' /\ RemovalInv'
        BY <1>8 DEF Strip, TypeOK, CloneInv, RemovalInv, Checked
    <2>2. TokenInv'
        BY <1>8 DEF Strip, TypeOK, TokenInv
    <2>3. QED
        BY <2>1, <2>2
<1>9. QED
    BY <1>1, <1>2, <1>3, <1>4, <1>5, <1>6, <1>7, <1>8 DEF Sync

LEMMA RemoverKeeps ==
    ASSUME NEW r \in Removers, IInv, Remove(r)
    PROVE  IInv'
<1>1. SUFFICES ASSUME NEW pc \in {"idle", "status", "stash", "refs", "delete"},
                      NEW dirty \in BOOLEAN, NEW unseen \in SUBSET Kinds,
                      Becomes(r, pc, dirty, unseen),
                      Checked([pc |-> pc, dirty |-> dirty, unseen |-> unseen])
               PROVE  IInv'
    <2>1. /\ removal[r].pc \in {"idle", "status", "stash", "refs", "delete"}
          /\ removal[r].dirty \in BOOLEAN /\ removal[r].unseen \in SUBSET Kinds
          /\ Checked(removal[r]) /\ work \subseteq Kinds /\ (dir # "repo" => work = {})
        BY DEF IInv, TypeOK, RemovalInv
    <2>2. Kinds \in SUBSET Kinds /\ {"hidden"} \in SUBSET Kinds /\ "stash" \in Kinds
        BY DEF Kinds
    <2>3. CASE RemoveStart(r)
        <3>1. CASE Becomes(r, "delete", FALSE, Kinds)
            BY <1>1, <2>1, <2>2, <3>1 DEF Checked, Kinds
        <3>2. CASE Becomes(r, "status", FALSE, {"hidden"})
            BY <1>1, <2>2, <3>2 DEF Checked
        <3>3. QED
            BY <2>3, <3>1, <3>2 DEF RemoveStart
    <2>4. CASE CheckTree(r)
        <3>1. PICK found \in Counts("tree") : Becomes(r, "stash", found, removal[r].unseen)
            BY <2>4 DEF CheckTree
        <3>2. found \in BOOLEAN /\ ("tree" \in work => found)
            BY <2>1 DEF Counts
        <3>3. "hidden" \in removal[r].unseen
            BY <2>1, <2>4 DEF CheckTree, At, Checked
        <3>4. Checked([pc |-> "stash", dirty |-> found, unseen |-> removal[r].unseen])
            BY <3>2, <3>3 DEF Checked
        <3>5. QED
            BY <1>1, <2>1, <3>1, <3>2, <3>4
    <2>5. CASE CheckStash(r)
        <3>1. /\ "hidden" \in removal[r].unseen
              /\ "tree" \in work => removal[r].dirty \/ "tree" \in removal[r].unseen
            BY <2>1, <2>5 DEF CheckStash, At, Checked
        <3>2. ASSUME NEW found \in Counts("stash"),
                     Becomes(r, "refs", removal[r].dirty \/ found, removal[r].unseen)
              PROVE  IInv'
            <4>1. found \in BOOLEAN /\ ("stash" \in work => found)
                BY <2>1 DEF Counts
            <4>2. (removal[r].dirty \/ found) \in BOOLEAN
                BY <2>1, <4>1
            <4>3. Checked([pc |-> "refs", dirty |-> removal[r].dirty \/ found, unseen |-> removal[r].unseen])
                BY <3>1, <4>1 DEF Checked
            <4>4. QED
                BY <1>1, <2>1, <3>2, <4>2, <4>3
        <3>3. CASE Becomes(r, "refs", removal[r].dirty, removal[r].unseen \cup {"stash"})
            <4>1. Checked([pc |-> "refs", dirty |-> removal[r].dirty,
                           unseen |-> removal[r].unseen \cup {"stash"}])
                BY <3>1 DEF Checked
            <4>2. removal[r].unseen \cup {"stash"} \in SUBSET Kinds
                BY <2>1, <2>2
            <4>3. QED
                BY <1>1, <2>1, <3>3, <4>1, <4>2
        <3>4. QED
            BY <2>5, <3>2, <3>3 DEF CheckStash
    <2>6. CASE CheckRefs(r)
        <3>1. PICK found \in Counts("branch") :
                  IF removal[r].dirty \/ found THEN Becomes(r, "idle", FALSE, {})
                  ELSE Becomes(r, "delete", FALSE, removal[r].unseen)
            BY <2>6 DEF CheckRefs
        <3>2. CASE Becomes(r, "idle", FALSE, {})
            <4>1. Checked([pc |-> "idle", dirty |-> FALSE, unseen |-> {}])
                BY DEF Checked
            <4>2. {} \in SUBSET Kinds
                OBVIOUS
            <4>3. QED
                BY <1>1, <3>2, <4>1, <4>2
        <3>3. CASE ~ removal[r].dirty /\ ~ found /\ Becomes(r, "delete", FALSE, removal[r].unseen)
            <4>1. "branch" \notin work
                BY <2>1, <3>3 DEF Counts
            <4>2. /\ "hidden" \in removal[r].unseen
                  /\ "tree" \in work => "tree" \in removal[r].unseen
                  /\ "stash" \in work => "stash" \in removal[r].unseen
                BY <2>1, <2>6, <3>3 DEF CheckRefs, At, Checked
            <4>3. Checked([pc |-> "delete", dirty |-> FALSE, unseen |-> removal[r].unseen])
                BY <2>1, <4>1, <4>2 DEF Checked, Kinds
            <4>4. QED
                BY <1>1, <2>1, <3>3, <4>3
        <3>4. QED
            BY <3>1, <3>2, <3>3
    <2>7. CASE CheckFails(r)
        <3>1. Checked([pc |-> "delete", dirty |-> FALSE, unseen |-> Kinds])
            BY <2>1 DEF Checked, Kinds
        <3>2. QED
            BY <1>1, <2>2, <2>7, <3>1 DEF CheckFails
    <2>8. CASE RemoveAll(r)
        <3>1. /\ Deleted \/ NotDeleted
              /\ removal' = [removal EXCEPT ![r] = NoRemoval] /\ UNCHANGED <<sync, blamed>>
            BY <2>8 DEF RemoveAll
        <3>2. /\ TreeTypes' /\ work' \subseteq work
              /\ origin' = "token" => origin = "token"
              /\ dir' # "absent" => dir # "absent" /\ cloner' = cloner /\ before' = before
              /\ dir' = "repo" => dir = "repo"
            BY <3>1, DeletedFacts
        <3>3. TypeOK'
            BY <3>1, <3>2 DEF IInv, TypeOK, TreeTypes, NoRemoval
        <3>4. TokenInv' /\ CloneInv'
            BY <3>1, <3>2 DEF IInv, TokenInv, CloneInv
        <3>5. ASSUME NEW q \in Removers PROVE Checked(removal[q])'
            <4>1. Checked(removal[q])
                BY DEF IInv, RemovalInv
            <4>2. removal'[q] = removal[q] \/ removal'[q] = NoRemoval
                BY <3>1 DEF IInv, TypeOK
            <4>3. QED
                BY <3>2, <4>1, <4>2 DEF Checked, NoRemoval
        <3>6. QED
            BY <3>3, <3>4, <3>5 DEF IInv, RemovalInv
    <2>9. QED
        BY <2>3, <2>4, <2>5, <2>6, <2>7, <2>8 DEF Remove
<1> DEFINE now == [pc |-> pc, dirty |-> dirty, unseen |-> unseen]
<1>2. /\ removal' = [removal EXCEPT ![r] = now] /\ UNCHANGED <<tree, sync, blamed>>
      /\ now \in [pc : {"idle", "status", "stash", "refs", "delete"}, dirty : BOOLEAN, unseen : SUBSET Kinds]
    BY <1>1 DEF Becomes
<1>3. Checked(now)
    BY <1>1
<1> HIDE DEF now
<1>4. TypeOK' /\ TokenInv' /\ CloneInv'
    BY <1>2 DEF IInv, TypeOK, TokenInv, CloneInv, tree
<1>5. ASSUME NEW q \in Removers PROVE Checked(removal[q])'
    <2>1. Checked(removal[q]) /\ work' = work
        BY <1>2 DEF IInv, RemovalInv, tree
    <2>2. removal'[q] = removal[q] \/ removal'[q] = now
        BY <1>2 DEF IInv, TypeOK
    <2>3. QED
        BY <1>3, <2>1, <2>2 DEF Checked
<1>6. QED
    BY <1>4, <1>5 DEF IInv, RemovalInv

LEMMA EditKeeps ==
    ASSUME NEW k \in Kinds, IInv, Edit(k)
    PROVE  IInv'
<1>1. /\ dir = "repo" /\ work' = work \cup {k} /\ work \subseteq Kinds
      /\ UNCHANGED <<dir, cloner, origin, sync, blamed, before>>
      /\ \A r \in Removers :
             removal'[r] = IF Looked(r, k) THEN [removal[r] EXCEPT !.unseen = @ \cup {k}] ELSE removal[r]
    BY DEF Edit, IInv, TypeOK
<1>2. TypeOK'
    BY <1>1 DEF Edit, IInv, TypeOK
<1>3. TokenInv' /\ CloneInv'
    BY <1>1 DEF IInv, TokenInv, CloneInv
<1>4. ASSUME NEW r \in Removers PROVE Checked(removal[r])'
    <2>1. /\ Checked(removal[r])
          /\ removal[r] \in [pc : {"idle", "status", "stash", "refs", "delete"},
                             dirty : BOOLEAN, unseen : SUBSET Kinds]
        BY DEF IInv, RemovalInv, TypeOK
    <2>2. CASE Looked(r, k)
        <3>1. /\ removal'[r].pc = removal[r].pc /\ removal'[r].dirty = removal[r].dirty
              /\ removal'[r].unseen = removal[r].unseen \cup {k}
            BY <1>1, <2>1, <2>2
        <3>2. QED
            BY <1>1, <2>1, <3>1 DEF Checked
    <2>3. CASE ~ Looked(r, k)
        <3>1. removal'[r] = removal[r]
            BY <1>1, <2>3
        <3>2. QED
            BY <1>1, <2>1, <2>3, <3>1 DEF Checked, Looked, Kinds
    <2>4. QED
        BY <2>2, <2>3
<1>5. QED
    BY <1>2, <1>3, <1>4 DEF IInv, RemovalInv

LEMMA NextIInv == IInv /\ [Next]_vars => IInv'
<1>1. SUFFICES ASSUME IInv, [Next]_vars PROVE IInv'
    OBVIOUS
<1>2. ASSUME NEW k \in Kinds, Save(k) PROVE IInv'
    <2>1. TypeOK' /\ TokenInv' /\ CloneInv'
        BY <1>1, <1>2 DEF Save, IInv, TypeOK, TokenInv, CloneInv
    <2>2. RemovalInv'
        BY <1>1, <1>2, LessWork DEF Save, IInv
    <2>3. QED
        BY <2>1, <2>2 DEF IInv
<1>3. CASE Restart
    <2>1. TypeOK'
        BY <1>1, <1>3 DEF Restart, IInv, TypeOK, NoRemoval, tree
    <2>2. TokenInv' /\ CloneInv' /\ RemovalInv'
        BY <1>1, <1>3 DEF Restart, IInv, TypeOK, TokenInv, CloneInv, RemovalInv, Checked, NoRemoval, tree
    <2>3. QED
        BY <2>1, <2>2 DEF IInv
<1>4. CASE UNCHANGED vars
    <2>1. TypeOK' /\ TokenInv' /\ CloneInv'
        BY <1>1, <1>4 DEF vars, IInv, TypeOK, TokenInv, CloneInv
    <2>2. RemovalInv'
        BY <1>1, <1>4, LessWork DEF vars, IInv
    <2>3. QED
        BY <2>1, <2>2 DEF IInv
<1>5. QED
    BY <1>1, <1>2, <1>3, <1>4, SyncKeeps, RemoverKeeps, EditKeeps DEF Next

LEMMA AlwaysIInv == Spec => []IInv
<1>1. QED
    BY InitIInv, NextIInv, PTL DEF Spec

-----------------------------------------------------------------------------
(* Every variable of the clone and its users keeps its type, and unsaved   *)
(* work is in a finished clone only.                                       *)
THEOREM StoreTypes == Spec => []TypeOK
<1>1. IInv => TypeOK
    BY DEF IInv
<1>2. QED
    BY <1>1, AlwaysIInv, PTL

(* A token that stays in .git/config is the trace of a sync that failed or *)
(* was killed.                                                             *)
THEOREM TokenTaken == Spec => []TokenOnlyAfterFailure
<1>1. IInv => TokenOnlyAfterFailure
    BY DEF IInv, TypeOK, TokenInv, TokenOnlyAfterFailure, Quiet
<1>2. QED
    BY <1>1, AlwaysIInv, PTL

(* The clean-up of a failed clone takes a finished one only if another     *)
(* sync made it while this one was under way (SyncProject).                *)
THEOREM CleanupSparesOwn == Spec => CleanupIsPartial
<1>1. IInv => [\A s \in Syncs : (Cleanup(s) /\ dir = "repo") => Raced(s)]_vars
    BY DEF IInv, CloneInv, Cleanup, Raced
<1>2. QED
    BY <1>1, AlwaysIInv, PTL DEF Spec, CleanupIsPartial

(* Only removals and clean-ups delete a finished clone.                    *)
LEMMA Deletes ==
    ASSUME Next, dir = "repo", dir' # "repo"
    PROVE  (\E r \in Removers : RemoveAll(r)) \/ (\E s \in Syncs : Cleanup(s))
<1>1. ASSUME NEW s \in Syncs, Sync(s) PROVE Cleanup(s)
    BY <1>1 DEF Sync, SyncStart, CloneBegins, CloneEnds, CloneFails, SetUrl, Pull, Strip, tree
<1>2. ASSUME NEW r \in Removers, Remove(r) PROVE RemoveAll(r)
    BY <1>2 DEF Remove, RemoveStart, CheckTree, CheckStash, CheckRefs, CheckFails, Becomes, tree
<1>3. ~ Restart /\ \A k \in Kinds : ~ Edit(k) /\ ~ Save(k)
    BY DEF Restart, Edit, Save, tree
<1>4. QED
    BY <1>1, <1>2, <1>3 DEF Next

(* Unsaved work in a finished clone is lost only to a removal whose check  *)
(* could not speak for that kind of work, in the sense of CheckStash,      *)
(* CheckFails, Looked and Kinds, or in a race of two syncs.                *)
THEOREM NoWorkLostUnasked == Spec => WorkLostKnowingly
<1>1. IInv /\ [Next]_vars
          => [dir = "repo" /\ dir' # "repo" =>
                 \/ \E r \in Removers : RemoveAll(r) /\ work \subseteq removal[r].unseen
                 \/ \E s \in Syncs : Cleanup(s) /\ Raced(s)]_vars
    <2>1. SUFFICES ASSUME IInv, Next, dir = "repo", dir' # "repo"
                   PROVE  \/ \E r \in Removers : RemoveAll(r) /\ work \subseteq removal[r].unseen
                          \/ \E s \in Syncs : Cleanup(s) /\ Raced(s)
        BY DEF vars
    <2>2. ASSUME NEW r \in Removers, RemoveAll(r) PROVE work \subseteq removal[r].unseen
        BY <2>1, <2>2 DEF IInv, RemovalInv, Checked, RemoveAll, At
    <2>3. ASSUME NEW s \in Syncs, Cleanup(s) PROVE Raced(s)
        BY <2>1, <2>3 DEF IInv, CloneInv, Cleanup, Raced
    <2>4. QED
        BY <2>1, <2>2, <2>3, Deletes
<1>2. QED
    BY <1>1, AlwaysIInv, PTL DEF Spec, WorkLostKnowingly
=============================================================================
