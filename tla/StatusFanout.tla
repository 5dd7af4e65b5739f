---------------------------- MODULE StatusFanout ----------------------------
(***************************************************************************)
(* Session status from tmux to the clients: Hub.RunDetector polls tmux and *)
(* feeds detector.Tracker (src/internal/detector/detector.go), PublishStatus *)
(* offers each change to the channel of every connected client, and a      *)
(* goroutine per client (src/internal/relay/client.go) writes its channel  *)
(* to the WebSocket. A full channel loses the change, and so does an app   *)
(* that is not connected: nothing tells it the present states when it is   *)
(* again. tmux can fail to answer; clients come and go between any two     *)
(* steps.                                                                  *)
(***************************************************************************)
EXTENDS Naturals, Sequences, SequencesExt, FiniteSets

CONSTANTS
    Names,      \* tmux session names
    Clients,    \* apps, each on one connection at a time
    Buffer,     \* capacity of a client's channel (16)
    Wire        \* changes written to a connection that the app has not got yet

ASSUME FanoutAssumption == Buffer \in Nat \ {0} /\ Wire \in Nat \ {0}

VARIABLES
    tmux,       \* per name: no session, or what its last activity makes of it now
    seen,       \* Tracker.seen, the state of each session in the last snapshot
    todo,       \* changes of this poll that are not published yet
    clients,    \* Hub.clients: the connections that are registered
    channel,    \* per app: the changes on their way to it, oldest first
    written,    \* per app: how many of them have left the buffered channel
    shown,      \* per app: the state it shows per session, once it was told one
    lost        \* observation: the sessions whose last change did not reach the app

vars == <<tmux, seen, todo, clients, channel, written, shown, lost>>

-----------------------------------------------------------------------------
States    == {"working", "idle"}
Seen      == States \cup {"none"}
Unknown   == [n \in Names |-> "none"]

Init ==
    /\ tmux = Unknown /\ seen = Unknown /\ todo = {}
    /\ clients = {} /\ channel = [c \in Clients |-> <<>>]
    /\ written = [c \in Clients |-> 0]
    /\ shown = [c \in Clients |-> Unknown]
    /\ lost = [c \in Clients |-> {}]

(* A session appears, is used, falls silent for idleAfter, ends.           *)
Tmux(n) ==
    /\ \E s \in Seen \ {tmux[n]} : tmux' = [tmux EXCEPT ![n] = s]
    /\ UNCHANGED <<seen, todo, clients, channel, written, shown, lost>>

(* Tracker.Update: the changes it returns for a snapshot, those of new     *)
(* sessions too. Mutant: only those of sessions it knew.                   *)
KnownChanges(snapshot) ==
    {<<n, snapshot[n]>> : n \in {m \in Names :
        seen[m] # "none" /\ snapshot[m] \notin {"none", seen[m]}}}
Changes(snapshot) ==
    {<<n, snapshot[n]>> : n \in {m \in Names : snapshot[m] \notin {"none", seen[m]}}}

(* A tick of RunDetector. A tmux that fails or takes more than 3 s gives   *)
(* an empty snapshot; sessions that are not in it are forgotten.           *)
Poll ==
    /\ todo = {}
    /\ \E snapshot \in {tmux, Unknown} :
          /\ todo' = Changes(snapshot)
          /\ seen' = snapshot
    /\ UNCHANGED <<tmux, clients, channel, written, shown, lost>>

(* The send that does not block finds room in the buffered channel.        *)
Room(c) == Len(channel[c]) < Buffer + written[c]

(* Mutant of PublishStatus: the send waits for room in every channel.      *)
PublishBlocking(change) ==
    /\ \A c \in clients : Room(c)
    /\ todo' = todo \ {change}
    /\ channel' = [c \in Clients |->
           IF c \in clients THEN Append(channel[c], change) ELSE channel[c]]
    /\ UNCHANGED <<tmux, seen, clients, written, shown, lost>>

(* PublishStatus, for the changes in any order: the tracker ranges over a  *)
(* map. The apps that are not connected get nothing.                       *)
PublishStatus(change) ==
    /\ todo' = todo \ {change}
    /\ channel' = [c \in Clients |->
           IF c \in clients /\ Room(c) THEN Append(channel[c], change) ELSE channel[c]]
    /\ lost' = [c \in Clients |->
           IF c \in clients /\ Room(c) THEN lost[c] \ {change[1]}
           ELSE lost[c] \cup {change[1]}]
    /\ UNCHANGED <<tmux, seen, clients, written, shown>>

RegisterClient(c) ==
    /\ c \notin clients
    /\ clients' = clients \cup {c}
    /\ UNCHANGED <<tmux, seen, todo, channel, written, shown, lost>>

(* The connection ends, for whatever reason, with what was on its way; the *)
(* app goes on showing what it showed.                                     *)
UnregisterClient(c) ==
    /\ c \in clients
    /\ clients' = clients \ {c}
    /\ channel' = [channel EXCEPT ![c] = <<>>]
    /\ written' = [written EXCEPT ![c] = 0]
    /\ lost' = [lost EXCEPT ![c] = @ \cup {channel[c][i][1] : i \in DOMAIN channel[c]}]
    /\ UNCHANGED <<tmux, seen, todo, shown>>

(* The writer goroutine of HandleClient takes a change out of the channel  *)
(* and writes it to the connection, which takes it while it has room.      *)
Write(c) ==
    /\ c \in clients /\ written[c] < Wire /\ written[c] < Len(channel[c])
    /\ written' = [written EXCEPT ![c] = @ + 1]
    /\ UNCHANGED <<tmux, seen, todo, clients, channel, shown, lost>>

(* The app gets what was written to it.                                    *)
Arrives(c) ==
    /\ c \in clients /\ written[c] > 0
    /\ LET change == Head(channel[c]) IN
           shown' = [shown EXCEPT ![c][change[1]] = change[2]]
    /\ channel' = [channel EXCEPT ![c] = Tail(@)]
    /\ written' = [written EXCEPT ![c] = @ - 1]
    /\ UNCHANGED <<tmux, seen, todo, clients, lost>>

Next ==
    \/ \E n \in Names : Tmux(n)
    \/ Poll
    \/ \E change \in todo : PublishStatus(change)
    \/ \E c \in Clients : \/ RegisterClient(c) \/ UnregisterClient(c)
                          \/ Write(c) \/ Arrives(c)

Spec == Init /\ [][Next]_vars

(* The ticker and the scheduler go on; nothing makes a client read.        *)
FairSpec ==
    /\ Spec
    /\ WF_vars(Poll)
    /\ \A change \in Names \X States : WF_vars(change \in todo /\ PublishStatus(change))

-----------------------------------------------------------------------------
(* Every variable keeps its type, and a channel its capacity.              *)
TypeOK ==
    /\ tmux \in [Names -> Seen] /\ seen \in [Names -> Seen]
    /\ todo \subseteq Names \X States
    /\ clients \subseteq Clients
    /\ channel \in [Clients -> BoundedSeq(Names \X States, Buffer + Wire)]
    /\ written \in [Clients -> 0 .. Wire]
    /\ \A c \in Clients : Len(channel[c]) \in written[c] .. Buffer + written[c]
    /\ shown \in [Clients -> [Names -> Seen]]
    /\ lost \in [Clients -> SUBSET Names]

(* What an app shows of a session, when nothing is on its way to it, is    *)
(* what the tracker last saw, unless that session's last change did not    *)
(* reach it: it met a full channel, came while the app was not connected,  *)
(* or was on its way when the connection ended. No order of polls, failed  *)
(* polls, lost changes, ended and recreated sessions and reconnects leaves *)
(* an older state on screen otherwise, and the next change repairs one     *)
(* that did not arrive. The relay itself repairs none: RegisterClient      *)
(* sends no states.                                                        *)
ShownIsSeen ==
    \A c \in Clients, n \in Names :
        (todo = {} /\ channel[c] = <<>> /\ n \notin lost[c]) =>
            shown[c][n] = "none" \/ seen[n] \in {"none", shown[c][n]}

(* A client that does not read holds nobody up: each change is published,  *)
(* whatever the channels hold.                                             *)
ChangesPublished == \A change \in Names \X States : change \in todo ~> change \notin todo
=============================================================================
