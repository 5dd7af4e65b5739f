----------------------------- MODULE ClientConn -----------------------------
(***************************************************************************)
(* One WebSocket connection to the relay (handleWebSocket in               *)
(* src/internal/relay/server.go, HandleClient in client.go): the read loop *)
(* that answers requests, the status writer and the heartbeat, which share *)
(* a context and the connection, over the registry that other clients and  *)
(* tmux change at any time. The client may sleep (an app in the background *)
(* whose kernel still acknowledges), be out of reach, come back, or close; *)
(* the relay may be restarted.                                             *)
(*                                                                         *)
(* The clock is left out: a heartbeat may start at any time. Its ping has  *)
(* no timeout, unlike the one of the terminal server.                      *)
(***************************************************************************)
EXTENDS Registry, Naturals

CONSTANTS
    SockCap,     \* frames between conn.Write and the app, in both kernels' buffers
    Buffer       \* capacity of statusCh (16)

ASSUME ConnAssumption == SockCap \in Nat \ {0} /\ Buffer \in Nat \ {0}

VARIABLES
    peer,        \* the client: "live", "asleep", "away" (out of reach) or "closed"
    sock,        \* frames on their way to the app
    unacked,     \* the client, out of reach, has not acknowledged all the relay sent
    keepAlive,   \* the listener's TCP probes an idle client: net.Listen, not the netstack
    cancelled,   \* the context of the connection
    main,        \* the handler: "read", "refuse" (a message over the limit), "snapshot",
                 \* "discover", "reply", "done"
    writer,      \* the status writer: "wait", "send", "done"
    ping,        \* the heartbeat: "rest", "send", "asked", "answered", "done"
    queue,       \* changes in statusCh
    registered,  \* statusCh is in Hub.clients
    request,     \* what the reply under way answers
    snap,        \* the relay records of the listing
    found,       \* what discoverTmuxSessions returned for it
    elsewhere    \* observation: sessions others created or deleted since the request

tcp     == <<sock, unacked, keepAlive>>
conn    == <<peer, tcp, cancelled, writer, ping, queue, registered>>
listing == <<request, snap, found, elsewhere>>
vars    == <<conn, main, listing, registry>>

-----------------------------------------------------------------------------
NoRequest == [type |-> "none", name |-> NoProject]
Requests  == {NoRequest, [type |-> "list", name |-> NoProject], [type |-> "other", name |-> NoProject]}
                 \cup [type : {"create", "delete"}, name : Created]
Quiet     == request' = NoRequest /\ snap' = {} /\ found' = {} /\ elsewhere' = {}

Broken    == peer = "closed" \/ cancelled \/ main = "refuse"
Room      == sock < SockCap
Sends     == Room /\ sock' = sock + 1 /\ unacked' = (unacked \/ peer = "away") /\ UNCHANGED keepAlive
Closes    == peer' = "closed" /\ sock' = 0 /\ unacked' = FALSE /\ UNCHANGED keepAlive
Reply     == MergeDiscovered(snap, found)
Released  == main = "done" /\ writer = "done" /\ ping = "done" /\ ~ registered

Init ==
    /\ RegistryInit
    /\ peer = "closed" /\ sock = 0 /\ unacked = FALSE /\ keepAlive \in BOOLEAN /\ cancelled = TRUE
    /\ main = "done" /\ writer = "done" /\ ping = "done"
    /\ queue = 0 /\ registered = FALSE
    /\ request = NoRequest /\ snap = {} /\ found = {} /\ elsewhere = {}

(* handleWebSocket has checked the token; HandleClient registers a channel *)
(* and starts its goroutines.                                              *)
Connect ==
    /\ Released /\ peer = "closed"
    /\ peer' = "live" /\ sock' = 0 /\ unacked' = FALSE /\ cancelled' = FALSE
    /\ main' = "read" /\ writer' = "wait" /\ ping' = "rest"
    /\ queue' = 0 /\ registered' = TRUE
    /\ UNCHANGED <<keepAlive, listing, registry>>

-----------------------------------------------------------------------------
(* The read loop. A request that needs no answer or is not understood      *)
(* changes nothing here and leaves the loop where it is.                   *)
Asks(type, s, next) ==
    /\ main = "read" /\ peer = "live" /\ ~ cancelled
    /\ request' = [type |-> type, name |-> s]
    /\ main' = next
    /\ UNCHANGED <<conn, snap, found, elsewhere>>

AskList   == Asks("list", NoProject, "snapshot") /\ UNCHANGED registry
AskCreate == \E s \in Created, p \in Projects \cup {NoProject} :
                 Asks("create", s, "snapshot") /\ CreateSession(s, p) /\ UNCHANGED tmux
AskDelete == \E s \in Created :
                 Asks("delete", s, "snapshot") /\ DeleteSession(s) /\ UNCHANGED tmux
(* An error, or one of the requests the other modules are about.           *)
AskOther  == Asks("other", NoProject, "reply") /\ UNCHANGED registry

(* A message over SetReadLimit: conn.Read closes the connection.           *)
TooLong ==
    /\ main = "read" /\ peer = "live" /\ ~ cancelled
    /\ main' = "refuse"
    /\ UNCHANGED <<conn, listing, registry>>

(* Mutant of Snapshot: the listing is one kept from before the request.    *)
SnapshotKept ==
    /\ main = "snapshot"
    /\ snap' \in {sessions, {}}
    /\ main' = "discover"
    /\ UNCHANGED <<conn, request, found, elsewhere, registry>>

(* ListSessions copies the records under the lock and lets go of it.       *)
Snapshot ==
    /\ main = "snapshot"
    /\ snap' = sessions
    /\ main' = "discover"
    /\ UNCHANGED <<conn, request, found, elsewhere, registry>>

(* tmux answers, or fails or hangs for 3 s and counts as having nothing.   *)
Discover ==
    /\ main = "discover"
    /\ found' \in {tmux, {}}
    /\ main' = "reply"
    /\ UNCHANGED <<conn, request, snap, elsewhere, registry>>

(* conn.Write waits for room; its error is dropped, since the next Read    *)
(* reports it.                                                             *)
ReplyWritten ==
    /\ main = "reply"
    /\ \/ Broken /\ UNCHANGED tcp
       \/ ~ Broken /\ Sends
    /\ main' = "read"
    /\ Quiet
    /\ UNCHANGED <<peer, cancelled, writer, ping, queue, registered, registry>>

(* conn.Read fails, over the limit as well; the deferred calls unregister  *)
(* the channel and cancel, and handleWebSocket closes the connection.      *)
Leave ==
    /\ main \in {"read", "refuse"} /\ Broken
    /\ main' = "done" /\ cancelled' = TRUE /\ Closes /\ registered' = FALSE
    /\ UNCHANGED <<writer, ping, queue, listing, registry>>

-----------------------------------------------------------------------------
(* PublishStatus offers a change; a full channel loses it.                 *)
Publish ==
    /\ registered /\ queue < Buffer
    /\ queue' = queue + 1
    /\ UNCHANGED <<peer, tcp, cancelled, writer, ping, registered, main, listing, registry>>

WriterTakes ==
    /\ writer = "wait" /\ queue > 0
    /\ writer' = "send" /\ queue' = queue - 1
    /\ UNCHANGED <<peer, tcp, cancelled, ping, registered, main, listing, registry>>

WriterSends ==
    /\ writer = "send" /\ ~ Broken /\ Sends
    /\ writer' = "wait"
    /\ UNCHANGED <<peer, cancelled, ping, queue, registered, main, listing, registry>>

(* Mutant of WriterEnds: a loop over the channel, which nobody closes, in   *)
(* place of the select.                                                    *)
WriterRanges ==
    /\ writer = "send" /\ Broken
    /\ writer' = "done" /\ cancelled' = TRUE
    /\ UNCHANGED <<peer, tcp, ping, queue, registered, main, listing, registry>>

WriterEnds ==
    /\ \/ writer = "send" /\ Broken
       \/ writer = "wait" /\ cancelled
    /\ writer' = "done" /\ cancelled' = TRUE
    /\ UNCHANGED <<peer, tcp, ping, queue, registered, main, listing, registry>>

-----------------------------------------------------------------------------
(* The ticker fires and conn.Ping writes its frame.                        *)
Ping ==
    /\ \/ ping = "rest" /\ ~ cancelled /\ ping' = "send" /\ UNCHANGED tcp
       \/ ping = "send" /\ ~ Broken /\ ping' = "asked" /\ Sends
    /\ UNCHANGED <<peer, cancelled, writer, queue, registered, main, listing, registry>>

(* The app has read everything up to the ping and answers.                 *)
Pong ==
    /\ ping = "asked" /\ peer = "live" /\ sock = 0
    /\ ping' = "answered"
    /\ UNCHANGED <<peer, tcp, cancelled, writer, queue, registered, main, listing, registry>>

(* The library handles a pong inside conn.Read.                            *)
PongRead ==
    /\ ping = "answered" /\ main = "read" /\ ~ Broken
    /\ ping' = "rest"
    /\ UNCHANGED <<peer, tcp, cancelled, writer, queue, registered, main, listing, registry>>

(* Mutant of PingEnds: the ping of the terminal server, with a timeout.    *)
PingTimesOut ==
    /\ \/ ping # "done" /\ cancelled
       \/ ping \in {"send", "asked"}
    /\ ping' = "done" /\ cancelled' = TRUE
    /\ UNCHANGED <<peer, tcp, writer, queue, registered, main, listing, registry>>

(* The context or the connection ends, or the frame finds no room for the  *)
(* time the library gives it. The wait for a pong has no other end.        *)
PingEnds ==
    /\ \/ ping # "done" /\ cancelled
       \/ ping \in {"send", "asked", "answered"} /\ (peer = "closed" \/ main = "refuse")
       \/ ping = "send" /\ ~ Room
    /\ ping' = "done" /\ cancelled' = TRUE
    /\ UNCHANGED <<peer, tcp, writer, queue, registered, main, listing, registry>>

-----------------------------------------------------------------------------
(* The client's side: it falls asleep, goes out of reach, comes back,      *)
(* closes. Its app reads when it is awake, its kernel acknowledges while   *)
(* it is in reach, as far as it has room.                                  *)
PeerMoves ==
    /\ peer # "closed"
    /\ \/ Closes
       \/ /\ peer' \in {"live", "asleep", "away"} \ {peer}
          /\ unacked' \in IF peer' = "away" THEN {sock = SockCap, sock > 0} ELSE {FALSE}
          /\ UNCHANGED <<sock, keepAlive>>
    /\ UNCHANGED <<cancelled, writer, ping, queue, registered, main, listing, registry>>

PeerReads ==
    /\ peer = "live" /\ sock > 0
    /\ sock' = sock - 1
    /\ UNCHANGED <<peer, unacked, keepAlive, cancelled, writer, ping, queue, registered, main, listing, registry>>

(* TCP gives a peer up that is out of reach by what it has sent and sends  *)
(* again, or by the keep-alive of Go's own listener; the listener of the   *)
(* netstack (main.go, on macOS) has none.                                  *)
GiveUp ==
    /\ peer = "away" /\ (unacked \/ keepAlive)
    /\ Closes
    /\ UNCHANGED <<cancelled, writer, ping, queue, registered, main, listing, registry>>

(* Other connections create and delete sessions.                           *)
Elsewhere ==
    /\ \E s \in Created :
           /\ \/ \E p \in Projects \cup {NoProject} : CreateSession(s, p)
              \/ DeleteSession(s)
           /\ elsewhere' = IF main \in {"snapshot", "discover", "reply"} /\ request.type # "other"
                           THEN elsewhere \cup {s} ELSE elsewhere
    /\ sessions' # sessions
    /\ UNCHANGED <<conn, main, request, snap, found, tmux>>

TmuxMoves ==
    /\ TmuxChanges
    /\ UNCHANGED <<conn, main, listing, sessions>>

(* The relay restarts: registry and connection are gone, tmux is not.      *)
Restart ==
    /\ sessions' = {}
    /\ Closes /\ cancelled' = TRUE
    /\ main' = "done" /\ writer' = "done" /\ ping' = "done"
    /\ queue' = 0 /\ registered' = FALSE
    /\ Quiet
    /\ UNCHANGED tmux

Handler == AskList \/ AskCreate \/ AskDelete \/ AskOther \/ TooLong
               \/ Snapshot \/ Discover \/ ReplyWritten \/ Leave
Writer    == WriterTakes \/ WriterSends \/ WriterEnds
Heartbeat == Ping \/ PongRead \/ PingEnds

Next ==
    \/ Connect \/ Handler \/ Writer \/ Heartbeat
    \/ Publish \/ Pong \/ PeerMoves \/ PeerReads \/ GiveUp
    \/ Elsewhere \/ TmuxMoves \/ Restart

Spec == Init /\ [][Next]_vars

(* Goroutines that can go on do, the ticker fires, and TCP gives up in the *)
(* end. Nothing is assumed of the client, nor of the ping once it waits    *)
(* for its pong.                                                           *)
FairSpec ==
    /\ Spec
    /\ WF_vars(Snapshot \/ Discover \/ ReplyWritten \/ Leave)
    /\ WF_vars(WriterSends \/ WriterEnds)
    /\ WF_vars(Heartbeat)
    /\ WF_vars(GiveUp)

-----------------------------------------------------------------------------
(* Every variable keeps its type, and each session has one record.         *)
TypeOK ==
    /\ RegistryOK
    /\ peer \in {"live", "asleep", "away", "closed"}
    /\ sock \in 0 .. SockCap /\ queue \in 0 .. Buffer
    /\ unacked \in BOOLEAN /\ keepAlive \in BOOLEAN
    /\ cancelled \in BOOLEAN /\ registered \in BOOLEAN
    /\ main \in {"read", "refuse", "snapshot", "discover", "reply", "done"}
    /\ writer \in {"wait", "send", "done"}
    /\ ping \in {"rest", "send", "asked", "answered", "done"}
    /\ request \in Requests /\ snap \subseteq Record
    /\ found \subseteq Tmux /\ elsewhere \subseteq Created

Listed == main = "reply" /\ request.type # "other"

(* The reply to a create contains the session and the reply to a delete    *)
(* does not, although the lock is released between the two: only what      *)
(* other clients did to that session since can make it differ.             *)
ReadYourWrites ==
    (Listed /\ request.name \notin elsewhere) =>
        /\ request.type = "create" => \E rec \in Reply.relay : rec.name = request.name
        /\ request.type = "delete" => \A rec \in Reply.relay : rec.name # request.name

(* The listing joins records and tmux sessions of different moments. A     *)
(* tmux session is shown as foreign only if no session stands for it, and  *)
(* left out only for one that does, then and now; others' changes since    *)
(* the request excepted. It is shown by a name that tmux knows, also one   *)
(* that a restart of the relay has orphaned.                               *)
Settled(s) == s \notin elsewhere
StandsFor(rec, n) == \E x \in {rec.name, rec.project} : n = x \/ Logical[n] = x
OneEntryEach ==
    Listed => \A n \in found :
        IF n \in Reply.system
        THEN \A rec \in sessions : StandsFor(rec, n) => ~ Settled(rec.name)
        ELSE \E rec \in Reply.relay :
                 StandsFor(rec, n) /\ (rec \in sessions \/ ~ Settled(rec.name))

(* A connection is cut only for a cause: its peer closed it or was given   *)
(* up, did not read until there was no room left, or sent a message over   *)
(* the read limit, or the relay restarted. An app that sleeps and comes    *)
(* back finds it as it was.                                                *)
CutForCause ==
    [][(cancelled' /\ ~ cancelled) =>
           peer = "closed" \/ sock = SockCap \/ main = "refuse" \/ Restart]_vars

(* All that was sent is acknowledged, the last ping among it, and no       *)
(* keep-alive asks again.                                                  *)
Unnoticed == peer = "away" /\ ~ keepAlive /\ ~ unacked /\ ping = "asked"

(* Of a client that closed, or stays out of reach, nothing is left:        *)
(* handler, both goroutines and the registration end, whichever of them    *)
(* was waiting for what. Held for ever is only one that got lost, on the   *)
(* netstack, between a ping and its pong. (For a client that sleeps the    *)
(* ping would have to tell, and has no timeout.)                           *)
GoneReleased ==
    peer \in {"away", "closed"} ~> Released \/ peer \in {"live", "asleep"} \/ []Unnoticed
=============================================================================
