-------------------------- MODULE ConnectionProofs --------------------------
(***************************************************************************)
(* Theorems about ClientConn, the WebSocket of the relay over the session  *)
(* registry, for every set of names and every size of socket and channel.  *)
(***************************************************************************)
EXTENDS ClientConn, TLAPS

(* Nothing of an earlier request is left when none is under way.           *)
NothingAsked == main \in {"read", "refuse", "done"} => request = NoRequest /\ snap = {} /\ found = {} /\ elsewhere = {}

(* Only requests that end in a listing go through its steps.               *)
ListingAsked == main \in {"snapshot", "discover"} => request.type # "other"

(* What the request wrote is still in `relay`, if nobody else touched the  *)
(* session: in the registry until it is copied, from then on in the copy.  *)
Written(relay) ==
    request.name \notin elsewhere =>
        /\ request.type = "create" => \E rec \in relay : rec.name = request.name
        /\ request.type = "delete" => \A rec \in relay : rec.name # request.name

Copied == main \in {"discover", "reply"} /\ request.type # "other"

WriteSeen == (main = "snapshot" => Written(sessions)) /\ (Copied => Written(snap))

(* Copy and registry differ in sessions that others touched meanwhile.     *)
CopyCurrent ==
    Copied => \A rec \in Record : rec.name \notin elsewhere => (rec \in snap <=> rec \in sessions)

IInv == TypeOK /\ NothingAsked /\ ListingAsked /\ WriteSeen /\ CopyCurrent

LEMMA InitIInv == Init => IInv
<1> SUFFICES ASSUME Init PROVE IInv
    OBVIOUS
<1>1. 0 \in 0 .. SockCap /\ 0 \in 0 .. Buffer
    BY ConnAssumption
<1>2. TypeOK
    BY <1>1 DEF Init, RegistryInit, TypeOK, RegistryOK, Requests
<1>3. QED
    BY <1>2 DEF Init, NoRequest, IInv, NothingAsked, ListingAsked, WriteSeen, CopyCurrent, Copied

-----------------------------------------------------------------------------
(* The registry: what creating and deleting does to its records.           *)
LEMMA CreateFacts ==
    ASSUME RegistryOK, NEW s \in Created, NEW p \in Projects \cup {NoProject},
           CreateSession(s, p), tmux' \subseteq Tmux
    PROVE  /\ RegistryOK'
           /\ \E rec \in sessions' : rec.name = s
           /\ \A rec \in Record : rec.name # s => (rec \in sessions' <=> rec \in sessions)
<1> DEFINE new == [name |-> s, project |-> p]
<1>1. new \in Record /\ new.name = s
    BY DEF Record
<1> HIDE DEF new
<1>2. CASE Exists(s)
    BY <1>2 DEF Exists, CreateSession, RegistryOK
<1>3. CASE ~ Exists(s)
    <2>1. sessions' = sessions \cup {new}
        BY <1>3 DEF CreateSession, new
    <2>2. \A rec \in sessions : rec.name # s
        BY <1>3 DEF Exists
    <2>3. QED
        BY <1>1, <2>1, <2>2 DEF RegistryOK
<1>4. QED
    BY <1>2, <1>3

LEMMA DeleteFacts ==
    ASSUME RegistryOK, NEW s \in Created, DeleteSession(s), tmux' \subseteq Tmux
    PROVE  /\ RegistryOK'
           /\ \A rec \in sessions' : rec.name # s
           /\ \A rec \in Record : rec.name # s => (rec \in sessions' <=> rec \in sessions)
BY DEF RegistryOK, DeleteSession

LEMMA TmuxFacts == RegistryOK /\ TmuxChanges => tmux' \subseteq Tmux
<1> SUFFICES ASSUME RegistryOK, TmuxChanges PROVE tmux' \subseteq Tmux
    OBVIOUS
<1>1. PICK n \in Tmux : tmux' = IF n \in tmux THEN tmux \ {n} ELSE tmux \cup {n}
    BY DEF TmuxChanges
<1>2. QED
    BY <1>1 DEF RegistryOK

LEMMA RequestTypes ==
    /\ NoRequest \in Requests /\ NoRequest.type = "none"
    /\ [type |-> "list", name |-> NoProject] \in Requests
    /\ [type |-> "other", name |-> NoProject] \in Requests
    /\ \A s \in Created, t \in {"create", "delete"} : [type |-> t, name |-> s] \in Requests
BY DEF Requests, NoRequest

-----------------------------------------------------------------------------
(* Steps of the connection alone keep what is known of the listing.        *)
ConnTypes ==
    /\ peer \in {"live", "asleep", "away", "closed"}
    /\ sock \in 0 .. SockCap /\ queue \in 0 .. Buffer
    /\ unacked \in BOOLEAN /\ keepAlive \in BOOLEAN
    /\ cancelled \in BOOLEAN /\ registered \in BOOLEAN
    /\ writer \in {"wait", "send", "done"}
    /\ ping \in {"rest", "send", "asked", "answered", "done"}

ListingTypes == request \in Requests /\ snap \subseteq Record /\ found \subseteq Tmux /\ elsewhere \subseteq Created

LEMMA TypeParts ==
    TypeOK <=> /\ RegistryOK /\ ConnTypes /\ ListingTypes
               /\ main \in {"read", "refuse", "snapshot", "discover", "reply", "done"}
BY DEF TypeOK, ConnTypes, ListingTypes

LEMMA ListingKeeps == IInv /\ ConnTypes' /\ UNCHANGED <<main, listing, registry>> => IInv'
<1> SUFFICES ASSUME IInv, ConnTypes', UNCHANGED <<main, listing, registry>> PROVE IInv'
    OBVIOUS
<1>1. /\ main' = main /\ request' = request /\ snap' = snap /\ found' = found
      /\ elsewhere' = elsewhere /\ sessions' = sessions /\ tmux' = tmux
    BY DEF listing, registry
<1>2. TypeOK'
    BY <1>1 DEF IInv, TypeOK, RegistryOK, ConnTypes
<1>3. QED
    BY <1>1, <1>2 DEF IInv, NothingAsked, ListingAsked, WriteSeen, Written, CopyCurrent, Copied

(* Steps of the handler and of others keep what is known of the rest.      *)
LEMMA ConnKeeps == ConnTypes /\ UNCHANGED conn => ConnTypes'
BY DEF ConnTypes, conn, tcp

LEMMA ConnectIInv == IInv /\ Connect => IInv'
<1> SUFFICES ASSUME IInv, Connect PROVE IInv'
    OBVIOUS
<1>1. /\ main = "done" /\ main' = "read" /\ request' = request /\ snap' = snap /\ found' = found
      /\ elsewhere' = elsewhere /\ sessions' = sessions /\ tmux' = tmux
    BY DEF Connect, Released, listing, registry
<1>2. 0 \in 0 .. SockCap /\ 0 \in 0 .. Buffer
    BY ConnAssumption
<1>3. TypeOK'
    BY <1>1, <1>2 DEF Connect, IInv, TypeOK, RegistryOK
<1>4. QED
    BY <1>1, <1>3 DEF IInv, NothingAsked, ListingAsked, WriteSeen, CopyCurrent, Copied

(* The steps of status writer, heartbeat, hub and client.                  *)
ConnStep == \/ Writer \/ Heartbeat \/ Publish \/ Pong \/ PeerMoves \/ PeerReads \/ GiveUp

LEMMA ConnStepIInv == IInv /\ ConnStep => IInv'
<1> SUFFICES ASSUME IInv, ConnStep PROVE IInv'
    OBVIOUS
<1>1. ConnTypes /\ SockCap \in Nat /\ Buffer \in Nat /\ 0 \in 0 .. SockCap
    BY ConnAssumption DEF IInv, TypeOK, ConnTypes
<1>2. UNCHANGED <<main, listing, registry>>
    BY DEF ConnStep, Writer, WriterTakes, WriterSends, WriterEnds, Heartbeat, Ping, PongRead, PingEnds,
           Publish, Pong, PeerMoves, PeerReads, GiveUp
<1>3. CASE Writer
    <2>1. WriterTakes => ConnTypes'
        BY <1>1 DEF ConnTypes, WriterTakes, tcp
    <2>2. WriterSends => ConnTypes'
        BY <1>1 DEF ConnTypes, WriterSends, Sends, Room
    <2>3. WriterEnds => ConnTypes'
        BY <1>1 DEF ConnTypes, WriterEnds, tcp
    <2>4. QED
        BY <1>2, <1>3, <2>1, <2>2, <2>3, ListingKeeps DEF Writer
<1>4. CASE Heartbeat
    <2>1. Ping => ConnTypes'
        <3>1. CASE UNCHANGED tcp
            BY <1>1, <3>1 DEF ConnTypes, Ping, tcp, Sends
        <3>2. CASE Sends
            <4>1. sock' \in 0 .. SockCap /\ unacked' \in BOOLEAN /\ keepAlive' = keepAlive
                BY <1>1, <3>2 DEF ConnTypes, Sends, Room
            <4>2. QED
                BY <1>1, <4>1 DEF ConnTypes, Ping
        <3>3. QED
            BY <3>1, <3>2 DEF Ping
    <2>2. PongRead \/ PingEnds => ConnTypes'
        BY <1>1 DEF ConnTypes, PongRead, PingEnds, tcp
    <2>3. QED
        BY <1>2, <1>4, <2>1, <2>2, ListingKeeps DEF Heartbeat
<1>5. CASE Publish \/ Pong
    BY <1>1, <1>2, <1>5, ListingKeeps DEF ConnTypes, Publish, Pong, tcp
<1>6. CASE PeerMoves \/ PeerReads \/ GiveUp
    <2>1. PeerMoves => ConnTypes'
        <3>1. PeerMoves => /\ unacked' \in BOOLEAN /\ keepAlive' = keepAlive
                           /\ sock' = 0 \/ sock' = sock
                           /\ peer' \in {"live", "asleep", "away", "closed"}
            <4>1. ASSUME PeerMoves PROVE unacked' \in {FALSE, sock = SockCap, sock > 0}
                BY <4>1 DEF PeerMoves, Closes
            <4>2. (sock = SockCap) \in BOOLEAN /\ (sock > 0) \in BOOLEAN
                OBVIOUS
            <4>3. PeerMoves => unacked' \in BOOLEAN
                BY <4>1, <4>2, Zenon
            <4>4. QED
                BY <4>3 DEF PeerMoves, Closes
        <3>2. QED
            BY <1>1, <3>1 DEF ConnTypes, PeerMoves
    <2>2. PeerReads \/ GiveUp => ConnTypes'
        <3>1. PeerReads => ConnTypes'
            BY <1>1 DEF ConnTypes, PeerReads
        <3>2. GiveUp => ConnTypes'
            BY <1>1 DEF ConnTypes, GiveUp, Closes
        <3>3. QED
            BY <3>1, <3>2
    <2>3. QED
        BY <1>2, <1>6, <2>1, <2>2, ListingKeeps
<1>7. QED
    BY <1>3, <1>4, <1>5, <1>6 DEF ConnStep

-----------------------------------------------------------------------------
(* The steps of a request, one lemma each.                                 *)
LEMMA AskListIInv == IInv /\ (AskList \/ AskOther) => IInv'
<1> SUFFICES ASSUME IInv, AskList \/ AskOther PROVE IInv'
    OBVIOUS
<1>1. /\ main = "read" /\ UNCHANGED conn /\ UNCHANGED <<snap, found, elsewhere, sessions, tmux>>
      /\ \/ main' = "snapshot" /\ request' = [type |-> "list", name |-> NoProject]
         \/ main' = "reply" /\ request' = [type |-> "other", name |-> NoProject]
    BY DEF AskList, AskOther, Asks, registry
<1>2. ConnTypes'
    BY <1>1, ConnKeeps, TypeParts DEF IInv
<1>3. ListingTypes' /\ RegistryOK'
    BY <1>1, RequestTypes, TypeParts DEF IInv, ListingTypes, RegistryOK
<1>4. TypeOK'
    BY <1>1, <1>2, <1>3 DEF TypeOK, ConnTypes, ListingTypes
<1>5. QED
    BY <1>1, <1>4 DEF IInv, NothingAsked, ListingAsked, WriteSeen, Written, CopyCurrent, Copied

LEMMA AskWriteIInv == IInv /\ (AskCreate \/ AskDelete) => IInv'
<1> SUFFICES ASSUME IInv, AskCreate \/ AskDelete PROVE IInv'
    OBVIOUS
<1>1. \E s \in Created :
          \/ /\ Asks("create", s, "snapshot") /\ tmux' = tmux
             /\ \E p \in Projects \cup {NoProject} : CreateSession(s, p)
          \/ Asks("delete", s, "snapshot") /\ DeleteSession(s) /\ tmux' = tmux
    <2>1. CASE AskCreate
        BY <2>1, Zenon DEF AskCreate
    <2>2. CASE AskDelete
        BY <2>2, Zenon DEF AskDelete
    <2>3. QED
        BY <2>1, <2>2
<1>2. PICK s \in Created :
          \/ /\ Asks("create", s, "snapshot") /\ tmux' = tmux
             /\ \E p \in Projects \cup {NoProject} : CreateSession(s, p)
          \/ Asks("delete", s, "snapshot") /\ DeleteSession(s) /\ tmux' = tmux
    BY <1>1, Zenon
<1>3. /\ main = "read" /\ main' = "snapshot" /\ UNCHANGED conn /\ UNCHANGED <<snap, found, elsewhere>>
      /\ request' \in Requests /\ tmux' \subseteq Tmux /\ RegistryOK
    BY <1>2, RequestTypes DEF Asks, IInv, TypeOK, RegistryOK
<1>4. ConnTypes'
    BY <1>3, ConnKeeps, TypeParts DEF IInv
<1>5. /\ RegistryOK' /\ request'.type # "other" /\ request'.name = s
      /\ request'.type = "create" => \E rec \in sessions' : rec.name = s
      /\ request'.type = "delete" => \A rec \in sessions' : rec.name # s
    BY <1>2, <1>3, CreateFacts, DeleteFacts DEF Asks
<1>6. TypeOK'
    BY <1>3, <1>4, <1>5 DEF IInv, TypeOK, ConnTypes
<1>7. QED
    BY <1>3, <1>5, <1>6 DEF IInv, NothingAsked, ListingAsked, WriteSeen, Written, CopyCurrent, Copied

LEMMA TooLongIInv == IInv /\ TooLong => IInv'
<1> SUFFICES ASSUME IInv, TooLong PROVE IInv'
    OBVIOUS
<1>1. /\ main = "read" /\ main' = "refuse"
      /\ UNCHANGED conn /\ UNCHANGED <<request, snap, found, elsewhere, sessions, tmux>>
    BY DEF TooLong, listing, registry
<1>2. ConnTypes'
    BY <1>1, ConnKeeps, TypeParts DEF IInv
<1>3. TypeOK'
    BY <1>1, <1>2 DEF IInv, TypeOK, RegistryOK, ConnTypes
<1>4. QED
    BY <1>1, <1>3 DEF IInv, NothingAsked, ListingAsked, WriteSeen, CopyCurrent, Copied

LEMMA SnapshotIInv == IInv /\ Snapshot => IInv'
<1> SUFFICES ASSUME IInv, Snapshot PROVE IInv'
    OBVIOUS
<1>1. /\ main = "snapshot" /\ main' = "discover" /\ snap' = sessions
      /\ UNCHANGED conn /\ UNCHANGED <<request, found, elsewhere, sessions, tmux>>
    BY DEF Snapshot, registry
<1>2. ConnTypes'
    BY <1>1, ConnKeeps, TypeParts DEF IInv
<1>3. TypeOK'
    BY <1>1, <1>2 DEF IInv, TypeOK, RegistryOK, ConnTypes
<1>4. QED
    BY <1>1, <1>3 DEF IInv, NothingAsked, ListingAsked, WriteSeen, Written, CopyCurrent, Copied

LEMMA DiscoverIInv == IInv /\ Discover => IInv'
<1> SUFFICES ASSUME IInv, Discover PROVE IInv'
    OBVIOUS
<1>1. /\ main = "discover" /\ main' = "reply" /\ found' \in {tmux, {}}
      /\ UNCHANGED conn /\ UNCHANGED <<request, snap, elsewhere, sessions, tmux>>
    BY DEF Discover, registry
<1>2. ConnTypes'
    BY <1>1, ConnKeeps, TypeParts DEF IInv
<1>3. TypeOK'
    BY <1>1, <1>2 DEF IInv, TypeOK, RegistryOK, ConnTypes
<1>4. QED
    BY <1>1, <1>3 DEF IInv, NothingAsked, ListingAsked, WriteSeen, Written, CopyCurrent, Copied

LEMMA ReplyWrittenIInv == IInv /\ ReplyWritten => IInv'
<1> SUFFICES ASSUME IInv, ReplyWritten PROVE IInv'
    OBVIOUS
<1>1. /\ main' = "read" /\ request' = NoRequest /\ snap' = {} /\ found' = {} /\ elsewhere' = {}
      /\ UNCHANGED <<peer, cancelled, writer, ping, queue, registered, sessions, tmux>>
      /\ sock' = sock \/ (sock < SockCap /\ sock' = sock + 1)
      /\ unacked' = unacked \/ unacked' = (unacked \/ peer = "away")
      /\ keepAlive' = keepAlive
    BY DEF ReplyWritten, Quiet, Sends, Room, registry, tcp
<1>2. sock' \in 0 .. SockCap /\ unacked' \in BOOLEAN
    <2>1. sock' \in 0 .. SockCap
        BY <1>1, ConnAssumption DEF IInv, TypeOK
    <2>2. unacked' \in BOOLEAN
        BY <1>1 DEF IInv, TypeOK
    <2>3. QED
        BY <2>1, <2>2
<1>3. TypeOK'
    BY <1>1, <1>2, RequestTypes DEF IInv, TypeOK, RegistryOK
<1>4. QED
    BY <1>1, <1>3 DEF IInv, NothingAsked, ListingAsked, WriteSeen, CopyCurrent, Copied

LEMMA LeaveIInv == IInv /\ Leave => IInv'
<1> SUFFICES ASSUME IInv, Leave PROVE IInv'
    OBVIOUS
<1>1. /\ main \in {"read", "refuse"} /\ main' = "done" /\ cancelled' = TRUE /\ registered' = FALSE
      /\ peer' = "closed" /\ sock' = 0 /\ unacked' = FALSE /\ keepAlive' = keepAlive
      /\ UNCHANGED <<writer, ping, queue, request, snap, found, elsewhere, sessions, tmux>>
    BY DEF Leave, Closes, listing, registry
<1>2. 0 \in 0 .. SockCap
    BY ConnAssumption
<1>3. TypeOK'
    BY <1>1, <1>2 DEF IInv, TypeOK, RegistryOK
<1>4. QED
    BY <1>1, <1>3 DEF IInv, NothingAsked, ListingAsked, WriteSeen, CopyCurrent, Copied

-----------------------------------------------------------------------------
(* What others do to the registry is what `elsewhere` has seen.            *)
LEMMA ElsewhereIInv == IInv /\ Elsewhere => IInv'
<1> SUFFICES ASSUME IInv, Elsewhere PROVE IInv'
    OBVIOUS
<1>1. PICK s \in Created :
          /\ \/ \E p \in Projects \cup {NoProject} : CreateSession(s, p)
             \/ DeleteSession(s)
          /\ elsewhere' = IF main \in {"snapshot", "discover", "reply"} /\ request.type # "other"
                          THEN elsewhere \cup {s} ELSE elsewhere
    BY DEF Elsewhere
<1>2. UNCHANGED conn /\ UNCHANGED <<main, request, snap, found, tmux>>
    BY DEF Elsewhere
<1>3. RegistryOK /\ tmux' \subseteq Tmux
    BY <1>2 DEF IInv, TypeOK, RegistryOK
<1>4. /\ RegistryOK'
      /\ \A rec \in Record : rec.name # s => (rec \in sessions' <=> rec \in sessions)
    BY <1>1, <1>3, CreateFacts, DeleteFacts
<1>5. ConnTypes'
    BY <1>2, ConnKeeps, TypeParts DEF IInv
<1>6. TypeOK'
    BY <1>1, <1>2, <1>4, <1>5 DEF IInv, TypeOK, ConnTypes
<1>7. CASE main \in {"read", "refuse", "done"} \/ request.type = "other"
    BY <1>1, <1>2, <1>6, <1>7 DEF IInv, NothingAsked, ListingAsked, WriteSeen, CopyCurrent, Copied
<1>8. CASE main \in {"snapshot", "discover", "reply"} /\ request.type # "other"
    <2>1. elsewhere' = elsewhere \cup {s}
        BY <1>1, <1>8
    <2>2. \A rec \in Record : rec.name \notin elsewhere' =>
              rec.name \notin elsewhere /\ (rec \in sessions' <=> rec \in sessions)
        BY <1>4, <2>1
    <2>3. NothingAsked' /\ ListingAsked'
        BY <1>2, <1>8 DEF NothingAsked, ListingAsked
    <2>4. CopyCurrent'
        BY <1>2, <2>2 DEF IInv, CopyCurrent, Copied
    <2>5. (main = "snapshot" => Written(sessions))'
        <3>1. sessions \subseteq Record /\ sessions' \subseteq Record
            BY <1>3, <1>4 DEF RegistryOK
        <3>2. QED
            BY <1>2, <2>1, <2>2, <3>1 DEF IInv, WriteSeen, Written
    <2>6. (Copied => Written(snap))'
        BY <1>2, <2>1 DEF IInv, WriteSeen, Written, Copied
    <2>7. QED
        BY <1>6, <2>3, <2>4, <2>5, <2>6 DEF IInv, WriteSeen
<1>9. QED
    BY <1>7, <1>8 DEF IInv, TypeOK

LEMMA TmuxMovesIInv == IInv /\ TmuxMoves => IInv'
<1> SUFFICES ASSUME IInv, TmuxMoves PROVE IInv'
    OBVIOUS
<1>1. UNCHANGED conn /\ UNCHANGED <<main, request, snap, found, elsewhere, sessions>>
    BY DEF TmuxMoves, listing
<1>2. tmux' \subseteq Tmux
    BY TmuxFacts DEF IInv, TypeOK, TmuxMoves
<1>3. ConnTypes'
    BY <1>1, ConnKeeps, TypeParts DEF IInv
<1>4. TypeOK'
    BY <1>1, <1>2, <1>3 DEF IInv, TypeOK, RegistryOK, ConnTypes
<1>5. QED
    BY <1>1, <1>4 DEF IInv, NothingAsked, ListingAsked, WriteSeen, Written, CopyCurrent, Copied

LEMMA RestartIInv == IInv /\ Restart => IInv'
<1> SUFFICES ASSUME IInv, Restart PROVE IInv'
    OBVIOUS
<1>1. 0 \in 0 .. SockCap /\ 0 \in 0 .. Buffer
    BY ConnAssumption
<1>2. TypeOK'
    BY <1>1, RequestTypes DEF Restart, Closes, Quiet, IInv, TypeOK, RegistryOK
<1>3. QED
    BY <1>2 DEF Restart, Quiet, IInv, NothingAsked, ListingAsked, WriteSeen, CopyCurrent, Copied

LEMMA NextIInv == IInv /\ [Next]_vars => IInv'
<1>1. IInv /\ UNCHANGED vars => IInv'
    BY DEF vars, conn, tcp, listing, registry, IInv, TypeOK, RegistryOK, NothingAsked, ListingAsked, WriteSeen,
           Written, CopyCurrent, Copied
<1>2. QED
    BY <1>1, ConnectIInv, ConnStepIInv, AskListIInv, AskWriteIInv, TooLongIInv, SnapshotIInv, DiscoverIInv,
       ReplyWrittenIInv, LeaveIInv, ElsewhereIInv, TmuxMovesIInv, RestartIInv
       DEF Next, Handler, ConnStep

LEMMA AlwaysIInv == Spec => []IInv
BY InitIInv, NextIInv, PTL DEF Spec

-----------------------------------------------------------------------------
(* Socket and channel keep their capacity, each session its one record,    *)
(* whatever clients, tmux and the relay's restarts do (HandleClient).      *)
THEOREM ConnectionTypes == Spec => []TypeOK
<1>1. IInv => TypeOK
    BY DEF IInv
<1>2. QED
    BY <1>1, AlwaysIInv, PTL

(* A client reads its own writes in the listing that answers them, unless  *)
(* somebody else touched the session since (HandleClient, ListSessions).   *)
THEOREM OwnWriteListed == Spec => []ReadYourWrites
<1>1. IInv => ReadYourWrites
    BY DEF IInv, WriteSeen, Written, Copied, ReadYourWrites, Listed, Reply, MergeDiscovered
<1>2. QED
    BY <1>1, AlwaysIInv, PTL

(* A listing of two moments shows each tmux session once, as foreign or    *)
(* through the session that stands for it (mergeDiscovered).               *)
THEOREM TmuxListedOnce == Spec => []OneEntryEach
<1>1. IInv => OneEntryEach
    <2> SUFFICES ASSUME IInv, Listed, NEW n \in found
                 PROVE  IF n \in Reply.system
                        THEN \A rec \in sessions : StandsFor(rec, n) => ~ Settled(rec.name)
                        ELSE \E rec \in Reply.relay :
                                 StandsFor(rec, n) /\ (rec \in sessions \/ ~ Settled(rec.name))
        BY DEF OneEntryEach
    <2>1. /\ sessions \subseteq Record /\ snap \subseteq Record
          /\ \A rec \in Record : rec.name \notin elsewhere => (rec \in snap <=> rec \in sessions)
        BY DEF IInv, TypeOK, RegistryOK, CopyCurrent, Copied, Listed
    <2>2. Reply.relay = snap /\ (n \in Reply.system <=> ~ Represented(snap, n))
        BY DEF Reply, MergeDiscovered
    <2>3. Represented(snap, n) <=> \E rec \in snap : StandsFor(rec, n)
        BY DEF Represented, StandsFor
    <2>4. QED
        BY <2>1, <2>2, <2>3 DEF Settled
<1>2. QED
    BY <1>1, AlwaysIInv, PTL

(* No step of handler, writer or heartbeat cancels a connection that has   *)
(* room and whose client has neither closed it nor been given up nor sent  *)
(* a message over the limit (the three callers of cancel in HandleClient). *)
THEOREM ConnectionCutForCause == Spec => CutForCause
<1>1. IInv /\ [Next]_vars
          => [(cancelled' /\ ~ cancelled) =>
                  peer = "closed" \/ sock = SockCap \/ main = "refuse" \/ Restart]_vars
    <2> SUFFICES ASSUME IInv, Next, cancelled', ~ cancelled
                 PROVE  peer = "closed" \/ sock = SockCap \/ main = "refuse" \/ Restart
        BY DEF vars
    <2>1. CASE Leave \/ WriterEnds
        BY <2>1 DEF Leave, WriterEnds, Broken
    <2>2. CASE PingEnds
        <3>1. sock \in 0 .. SockCap /\ SockCap \in Nat
            BY ConnAssumption DEF IInv, TypeOK
        <3>2. QED
            BY <2>2, <3>1 DEF PingEnds, Room
    <2>3. CASE Restart
        BY <2>3
    <2>4. ~ (Leave \/ WriterEnds \/ PingEnds \/ Restart) => cancelled' = cancelled \/ ~ cancelled'
        BY DEF Next, Connect, Handler, AskList, AskCreate, AskDelete, AskOther, Asks, TooLong, Snapshot,
               Discover, ReplyWritten, Writer, WriterTakes, WriterSends, Heartbeat, Ping, PongRead, Publish, Pong,
               PeerMoves, PeerReads, GiveUp, Elsewhere, TmuxMoves, conn
    <2>5. QED
        BY <2>1, <2>2, <2>3, <2>4
<1>2. QED
    BY <1>1, AlwaysIInv, PTL DEF Spec, CutForCause
=============================================================================
