---------------------------- MODULE ProjectStore ----------------------------
(***************************************************************************)
(* One project clone under ~/projects (src/internal/projects/manager.go,   *)
(* status.go): SyncProject runs in a goroutine of its own per sync_project *)
(* message, RemoveProject in the read loop of each client, and people and  *)
(* agents work in the clone through the terminal. No lock relates them:    *)
(* each git command and each file operation is a step, and the relay, with *)
(* the git commands it runs, can be killed between any two.                *)
(***************************************************************************)
EXTENDS Naturals

CONSTANTS
    Syncs,      \* SyncProject calls that can be under way at once
    Removers,   \* clients that may remove the project
    NoSync      \* nobody

ASSUME StoreAssumption == NoSync \notin Syncs

VARIABLES
    dir,        \* ~/projects/<name>: "absent", "partial" (a clone not finished) or "repo"
    cloner,     \* the sync whose git clone made the directory
    origin,     \* the remote URL in .git/config: "none", "clean" or "token"
    work,       \* the kinds of unsaved work in it
    sync,       \* per sync: the step it is at
    removal,    \* per remover: its step, whether its check has counted work yet, and
                \* the kinds of work the check cannot speak for
    blamed,     \* observation: a sync failed or was killed since the URL was last clean
    before      \* observation: the syncs that began before the directory was made

vars == <<dir, cloner, origin, work, sync, removal, blamed, before>>
tree == <<dir, cloner, origin, work, before>>

(* In the working tree, in stashes, on a branch without upstream or ahead  *)
(* of it; and what no command of the check shows: commits of a detached    *)
(* HEAD, or of a branch whose upstream is gone.                            *)
Kinds == {"tree", "stash", "branch", "hidden"}

-----------------------------------------------------------------------------
NoRemoval == [pc |-> "idle", dirty |-> FALSE, unseen |-> {}]

Goto(s, pc) == sync' = [sync EXCEPT ![s] = pc]

(* os.RemoveAll: the clone, its config and the work in it.                 *)
Deleted == dir' = "absent" /\ cloner' = NoSync /\ origin' = "none" /\ work' = {} /\ before' = {}

(* It fails, before it has deleted anything or half way.                   *)
NotDeleted ==
    \/ UNCHANGED tree
    \/ /\ dir # "absent" /\ dir' = "partial" /\ origin' \in {origin, "none"} /\ work' = {}
       /\ UNCHANGED <<cloner, before>>

Init ==
    /\ dir = "absent" /\ cloner = NoSync /\ origin = "none" /\ work = {}
    /\ sync = [s \in Syncs |-> "idle"]
    /\ removal = [r \in Removers |-> NoRemoval]
    /\ blamed = FALSE /\ before = {}

(* The os.Stat that chooses between a clone and a pull.                    *)
SyncStart(s) ==
    /\ sync[s] = "idle"
    /\ Goto(s, IF dir = "absent" THEN "clone" ELSE "seturl")
    /\ before' = before \ {s}
    /\ UNCHANGED <<dir, cloner, origin, work, removal, blamed>>

(* git clone makes the directory and its config; it refuses one that is    *)
(* there by now.                                                           *)
CloneBegins(s) ==
    /\ sync[s] = "clone" /\ dir = "absent"
    /\ dir' = "partial" /\ cloner' = s /\ origin' = "token"
    /\ before' = {q \in Syncs : sync[q] # "idle"}
    /\ Goto(s, "cloning")
    /\ UNCHANGED <<work, removal, blamed>>

(* Mutant of CloneEnds: a fresh clone is taken to be done.                 *)
CloneEndsThere(s) ==
    /\ sync[s] = "cloning" /\ dir = "partial" /\ cloner = s
    /\ dir' = "repo"
    /\ Goto(s, "idle")
    /\ UNCHANGED <<cloner, origin, work, removal, blamed, before>>

CloneEnds(s) ==
    /\ sync[s] = "cloning" /\ dir = "partial" /\ cloner = s
    /\ dir' = "repo"
    /\ Goto(s, "strip")
    /\ UNCHANGED <<cloner, origin, work, removal, blamed, before>>

(* It is refused, the network or GitHub fails, 120 s are over, or somebody *)
(* took the directory away.                                                *)
CloneFails(s) ==
    /\ sync[s] \in {"clone", "cloning"}
    /\ Goto(s, "cleanup")
    /\ UNCHANGED <<tree, removal, blamed>>

(* os.RemoveAll(dest), whatever is there; its error is dropped.            *)
Cleanup(s) ==
    /\ sync[s] = "cleanup"
    /\ \/ Deleted /\ UNCHANGED blamed
       \/ NotDeleted /\ blamed' = TRUE
    /\ Goto(s, "idle")
    /\ UNCHANGED removal

SetUrl(s) ==
    /\ sync[s] = "seturl"
    /\ \/ origin # "none" /\ origin' = "token" /\ Goto(s, "pull")
       \/ UNCHANGED origin /\ Goto(s, "idle")
    /\ UNCHANGED <<dir, cloner, work, removal, blamed, before>>

(* Mutant of Pull: a failing pull cleans up as a failing clone does.       *)
PullOrCleanup(s) ==
    /\ sync[s] = "pull"
    /\ \/ dir = "repo" /\ Goto(s, "strip") /\ UNCHANGED blamed
       \/ Goto(s, "cleanup") /\ blamed' = TRUE
    /\ UNCHANGED <<tree, removal>>

(* git pull --ff-only; a failure returns before the URL is reset.          *)
Pull(s) ==
    /\ sync[s] = "pull"
    /\ \/ dir = "repo" /\ Goto(s, "strip") /\ UNCHANGED blamed
       \/ Goto(s, "idle") /\ blamed' = TRUE
    /\ UNCHANGED <<tree, removal>>

(* The URL without the token; the error of this command is dropped.        *)
Strip(s) ==
    /\ sync[s] = "strip"
    /\ \/ origin # "none" /\ origin' = "clean" /\ blamed' = FALSE
       \/ UNCHANGED origin /\ blamed' = TRUE
    /\ Goto(s, "idle")
    /\ UNCHANGED <<dir, cloner, work, removal, before>>

-----------------------------------------------------------------------------
(* RemoveProject. With force it deletes at once; without, it looks for     *)
(* work by three git commands, unless there is no .git: that is refused.   *)
At(r, pc) == removal[r].pc = pc
Becomes(r, pc, dirty, unseen) ==
    /\ removal' = [removal EXCEPT ![r] = [pc |-> pc, dirty |-> dirty, unseen |-> unseen]]
    /\ UNCHANGED <<tree, sync, blamed>>

RemoveStart(r) ==
    /\ At(r, "idle")
    /\ \/ Becomes(r, "delete", FALSE, Kinds)
       \/ dir # "absent" /\ Becomes(r, "status", FALSE, {"hidden"})

(* What a command counts: of a half-made clone, anything.                  *)
Counts(k) == IF dir = "repo" THEN {k \in work} ELSE BOOLEAN

(* git status --porcelain.                                                 *)
CheckTree(r) ==
    /\ At(r, "status") /\ dir # "absent"
    /\ \E found \in Counts("tree") : Becomes(r, "stash", found, removal[r].unseen)

(* git stash list, whose error is dropped: no stashes.                     *)
CheckStash(r) ==
    /\ At(r, "stash")
    /\ \/ \E found \in Counts("stash") :
              dir # "absent" /\ Becomes(r, "refs", removal[r].dirty \/ found, removal[r].unseen)
       \/ Becomes(r, "refs", removal[r].dirty, removal[r].unseen \cup {"stash"})

(* Mutant of CheckRefs: a branch that was never pushed is not ahead.       *)
CheckRefsAhead(r) ==
    /\ At(r, "refs") /\ dir # "absent"
    /\ \E found \in Counts("branch") \cup {FALSE} :
           IF removal[r].dirty \/ found THEN Becomes(r, "idle", FALSE, {})
           ELSE Becomes(r, "delete", FALSE, removal[r].unseen)

(* git for-each-ref. "Not clean" refuses the removal.                      *)
CheckRefs(r) ==
    /\ At(r, "refs") /\ dir # "absent"
    /\ \E found \in Counts("branch") :
           IF removal[r].dirty \/ found THEN Becomes(r, "idle", FALSE, {})
           ELSE Becomes(r, "delete", FALSE, removal[r].unseen)

(* Status or for-each-ref fails, or the 15 s of the check are over: an     *)
(* error, which does not stop the removal, whatever was counted before.    *)
CheckFails(r) ==
    /\ At(r, "status") \/ At(r, "refs")
    /\ Becomes(r, "delete", FALSE, Kinds)

RemoveAll(r) ==
    /\ At(r, "delete")
    /\ Deleted \/ NotDeleted
    /\ removal' = [removal EXCEPT ![r] = NoRemoval]
    /\ UNCHANGED <<sync, blamed>>

Remove(r) ==
    \/ RemoveStart(r) \/ CheckTree(r) \/ CheckStash(r) \/ CheckRefs(r) \/ CheckFails(r)
    \/ RemoveAll(r)

-----------------------------------------------------------------------------
(* Sessions in the clone: work of a kind begins, after the command of a    *)
(* check that would have shown it or before, or it is committed, pushed,   *)
(* dropped. Moved, as by a stash, it is both.                              *)
Looked(r, k) ==
    \/ k = "tree"   /\ removal[r].pc \in {"stash", "refs", "delete"}
    \/ k = "stash"  /\ removal[r].pc \in {"refs", "delete"}
    \/ k = "branch" /\ removal[r].pc = "delete"

Edit(k) ==
    /\ dir = "repo" /\ k \notin work
    /\ work' = work \cup {k}
    /\ removal' = [r \in Removers |->
           IF Looked(r, k) THEN [removal[r] EXCEPT !.unseen = @ \cup {k}] ELSE removal[r]]
    /\ UNCHANGED <<dir, cloner, origin, sync, blamed, before>>

Save(k) ==
    /\ k \in work
    /\ work' = work \ {k}
    /\ UNCHANGED <<dir, cloner, origin, sync, removal, blamed, before>>

(* The relay is killed and restarted, and the git commands die with it.    *)
Restart ==
    /\ sync' = [s \in Syncs |-> "idle"]
    /\ removal' = [r \in Removers |-> NoRemoval]
    /\ blamed' = (blamed \/ \E s \in Syncs : sync[s] # "idle")
    /\ UNCHANGED tree

Sync(s) ==
    \/ SyncStart(s) \/ CloneBegins(s) \/ CloneEnds(s) \/ CloneFails(s) \/ Cleanup(s)
    \/ SetUrl(s) \/ Pull(s) \/ Strip(s)

Next ==
    \/ \E s \in Syncs : Sync(s)
    \/ \E r \in Removers : Remove(r)
    \/ \E k \in Kinds : Edit(k) \/ Save(k)
    \/ Restart

Spec == Init /\ [][Next]_vars

-----------------------------------------------------------------------------
(* Every variable keeps its type.                                          *)
TypeOK ==
    /\ dir \in {"absent", "partial", "repo"} /\ cloner \in Syncs \cup {NoSync}
    /\ origin \in {"none", "clean", "token"} /\ work \subseteq Kinds
    /\ blamed \in BOOLEAN /\ before \subseteq Syncs
    /\ sync \in [Syncs -> {"idle", "clone", "cloning", "cleanup", "seturl", "pull", "strip"}]
    /\ removal \in [Removers -> [pc : {"idle", "status", "stash", "refs", "delete"},
                                 dirty : BOOLEAN, unseen : SUBSET Kinds]]
    /\ work # {} => dir = "repo"

(* The removal after a failed clone, "clean up partial clone", takes       *)
(* whatever is there by then. If that is a finished clone, another sync    *)
(* made it after this one had found no directory: the race of two syncs,   *)
(* and never the sync's own clone nor one that was there before it.        *)
Raced(s) == cloner # s /\ s \in before
CleanupIsPartial == [][\A s \in Syncs : (Cleanup(s) /\ dir = "repo") => Raced(s)]_vars

(* When no sync is under way, the token is in .git/config only if a sync   *)
(* failed or was killed after it put it there.                             *)
Quiet == \A s \in Syncs : sync[s] = "idle"
TokenOnlyAfterFailure == (Quiet /\ origin = "token") => blamed

(* Whoever deletes it, unsaved work is lost only with a clone that two     *)
(* syncs raced for, or to a removal whose check could not speak for it:    *)
(* forced, without answer, stashes it failed to list, what its commands do *)
(* not show, or what began after the command that would have shown it.     *)
WorkLostKnowingly ==
    [][dir = "repo" /\ dir' # "repo" =>
          \/ \E r \in Removers : RemoveAll(r) /\ work \subseteq removal[r].unseen
          \/ \E s \in Syncs : Cleanup(s) /\ Raced(s)]_vars
=============================================================================
