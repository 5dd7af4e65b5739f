---------------------------- MODULE PeerManager ----------------------------
(***************************************************************************)
(* peers.Manager (src/internal/peers/peers.go) over its two copies of the  *)
(* truth: wg0.conf on disk and the running WireGuard device (wg.Server).   *)
(* Manager.mu serialises List, Add and Remove, so one operation `op` is in *)
(* progress at a time, but the relay can die between any two of its steps  *)
(* and each call to the device or the file system can fail.                *)
(*                                                                         *)
(* `status` and `ghosts` are observations (what callers were told); no     *)
(* guard of an implementation step reads them, except that a new key pair  *)
(* is one that was never used.                                             *)
(***************************************************************************)
EXTENDS Naturals, Sequences, SequencesExt, FiniteSets

CONSTANTS
    Keys,        \* public keys that Add may generate or the deployment wrote
    Initial,     \* the keys already in wg0.conf when the relay is installed
    Callers,     \* API clients that list peers and remove one by its index
    MaxPeers,    \* maxPeers (10)
    LastOctet,   \* last host octet nextAvailableOctet scans (254)
    NoKey        \* a PublicKey line that is missing or cut short

(* The scan of nextAvailableOctet covers 2..LastOctet; the 253 octets of   *)
(* the code outnumber its 10 peers, so the fallback is never taken.        *)
ASSUME PeerAssumption ==
    /\ MaxPeers \in Nat \ {0}
    /\ LastOctet \in Nat
    /\ MaxPeers < LastOctet
    /\ NoKey \notin Keys
    /\ Initial \in [1 .. Len(Initial) -> Keys] /\ Len(Initial) \in Nat
    /\ Len(Initial) < LastOctet
    /\ \A i, j \in 1 .. Len(Initial) : Initial[i] = Initial[j] => i = j

VARIABLES
    relay,       \* "up", "down" (not running) or "failed" (exited at boot)
    device,      \* TRUE iff Manager.device is not nil
    conf,        \* the [Peer] blocks of wg0.conf, as wg.ParseString reads them
    live,        \* the device: key |-> the routes (allowed IPs) it owns
    op,          \* the operation that holds Manager.mu
    view,        \* per caller: keys of its last List, and whether one was removed since
    status,      \* per key: what its owner was told
    ghosts       \* keys left on the device by a failed rollback

vars == <<relay, device, conf, live, op, view, status, ghosts>>

-----------------------------------------------------------------------------
(* A block is "host" when its AllowedIPs line is whole. A cut one is read  *)
(* as no address, as one that does not parse, or, cut inside "/32", as the *)
(* network "/3".                                                           *)
Octets  == 2 .. LastOctet
Network == 0
Routes  == Octets \cup {Network}
Cidrs   == {"host", "none", "bad", "wide"}
Entry   == [key : Keys \cup {NoKey}, oct : Octets, cidr : Cidrs]

Whole(k, o) == [key |-> k, oct |-> o, cidr |-> "host"]

Statuses == {"unused", "pending", "failed", "acked", "revoked", "denied"}
Steps    == {"idle", "live", "append", "rollback", "payload", "revoke", "rewrite"}
Idle     == [pc |-> "idle", key |-> NoKey, oct |-> 2, idx |-> 1]

KeysOf(s) == {s[i].key : i \in DOMAIN s} \ {NoKey}

(* What ParseCIDR makes of a block: the address nextAvailableOctet counts  *)
(* and the route the device installs for it.                               *)
Counted(e) == e.cidr \in {"host", "wide"}
RouteOf(e) == IF e.cidr = "wide" THEN Network ELSE e.oct

UsedOctets(s)  == {s[i].oct : i \in {j \in DOMAIN s : Counted(s[j])}}
FreeOctets(s)  == Octets \ UsedOctets(s)
(* Mutants of NextOctet: the octet by the number of peers, and the one     *)
(* after the highest.                                                      *)
OctetByCount(s)      == Len(s) + 2
OctetAfterHighest(s) == IF UsedOctets(s) = {} THEN 2 ELSE Max(UsedOctets(s)) + 1

NextOctet(s)   == IF FreeOctets(s) = {} THEN LastOctet
                  ELSE Min(FreeOctets(s))

(* buildUAPIConfig and IpcSet refuse a key or an address cut short.        *)
Usable(e)   == e.key # NoKey /\ e.cidr # "bad"
Bootable(s) == \A i \in DOMAIN s : Usable(s[i])

(* IpcSet in file order: a route belongs to the last block that names it.  *)
OwnsAtBoot(s, i, r) ==
    /\ Counted(s[i]) /\ RouteOf(s[i]) = r
    /\ \A j \in DOMAIN s : (j > i /\ Counted(s[j])) => RouteOf(s[j]) # r
Loaded(s) ==
    [k \in KeysOf(s) |->
        {r \in Routes : \E i \in DOMAIN s : s[i].key = k /\ OwnsAtBoot(s, i, r)}]

(* wg.Server.AddPeer takes the route away from any other peer.             *)
WithPeer(d, k, r) ==
    [x \in DOMAIN d \cup {k} |->
        IF x = k THEN (IF k \in DOMAIN d THEN d[k] ELSE {}) \cup {r} ELSE d[x] \ {r}]
WithoutPeer(d, k) == [x \in DOMAIN d \ {k} |-> d[x]]

(* The contents wg0.conf can be left with when the single WriteString of   *)
(* appendPeer is cut: nothing, a header or part of a key, no address, part *)
(* of an address, "/3", or all but the last newline.                       *)
CutBlocks(k, o) ==
    {[key |-> NoKey, oct |-> o, cidr |-> "none"]}
        \cup {[key |-> k, oct |-> o, cidr |-> c] : c \in Cidrs}
CutAppends(s, k, o) == {s} \cup {Append(s, e) : e \in CutBlocks(k, o)}

-----------------------------------------------------------------------------
NoPeers == [k \in {} |-> {}]

Init ==
    /\ relay = "down" /\ device = FALSE
    /\ conf = [i \in 1 .. Len(Initial) |-> Whole(Initial[i], i + 1)]
    /\ live = NoPeers
    /\ op = Idle
    /\ view = [c \in Callers |-> [keys |-> <<>>, current |-> FALSE]]
    /\ status = [k \in Keys |->
           IF \E i \in 1 .. Len(Initial) : Initial[i] = k THEN "acked" ELSE "unused"]
    /\ ghosts = {}

(* main: wg.New and Start from the parsed file; a usable file brings the   *)
(* device up with every peer in it.                                        *)
Boot ==
    /\ relay # "up"
    /\ Bootable(conf)
    /\ relay' = "up" /\ device' = TRUE
    /\ live' = Loaded(conf)
    /\ ghosts' = {}
    /\ UNCHANGED <<conf, op, view, status>>

(* Start reports an error and main exits.                                  *)
BootFails ==
    /\ relay # "up"
    /\ ~ Bootable(conf)
    /\ relay' = "failed"
    /\ UNCHANGED <<device, conf, live, op, view, status, ghosts>>

(* The file cannot be read: the tunnel is skipped, the manager gets no     *)
(* device.                                                                 *)
BootWithoutTunnel ==
    /\ relay # "up"
    /\ relay' = "up" /\ device' = FALSE
    /\ live' = NoPeers
    /\ ghosts' = {}
    /\ UNCHANGED <<conf, op, view, status>>

(* The process ends, whatever the operation was doing; inside appendPeer   *)
(* the block may be partly written. The device dies with the process.      *)
Crash ==
    /\ relay = "up"
    /\ relay' = "down" /\ device' = FALSE
    /\ live' = NoPeers
    /\ op' = Idle
    /\ \/ conf' = conf
       \/ op.pc = "append" /\ conf' \in CutAppends(conf, op.key, op.oct)
    /\ status' = [k \in Keys |-> IF status[k] = "pending" THEN "failed" ELSE status[k]]
    /\ ghosts' = {}
    /\ UNCHANGED view

-----------------------------------------------------------------------------
List(c) ==
    /\ relay = "up" /\ op.pc = "idle"
    /\ view' = [view EXCEPT ![c] =
           [keys |-> [i \in DOMAIN conf |-> conf[i].key], current |-> TRUE]]
    /\ UNCHANGED <<relay, device, conf, live, op, status, ghosts>>

(* Mutant of AddStart: an off-by-one in the limit.                         *)
AddStartOneTooMany(k) ==
    /\ relay = "up" /\ op.pc = "idle"
    /\ Len(conf) <= MaxPeers
    /\ status[k] = "unused"
    /\ op' = [pc |-> "live", key |-> k, oct |-> NextOctet(conf), idx |-> 1]
    /\ status' = [status EXCEPT ![k] = "pending"]
    /\ UNCHANGED <<relay, device, conf, live, view, ghosts>>

(* Add up to generateKeyPair: limit, address, key.                         *)
AddStart(k) ==
    /\ relay = "up" /\ op.pc = "idle"
    /\ Len(conf) < MaxPeers
    /\ status[k] = "unused"
    /\ op' = [pc |-> "live", key |-> k, oct |-> NextOctet(conf), idx |-> 1]
    /\ status' = [status EXCEPT ![k] = "pending"]
    /\ UNCHANGED <<relay, device, conf, live, view, ghosts>>

(* device.AddPeer, when there is a device; on an error Add returns it.     *)
AddLive ==
    /\ relay = "up" /\ op.pc = "live"
    /\ \/ /\ live' = IF device THEN WithPeer(live, op.key, op.oct) ELSE live
          /\ op' = [op EXCEPT !.pc = "append"]
          /\ UNCHANGED status
       \/ /\ device
          /\ op' = Idle
          /\ status' = [status EXCEPT ![op.key] = "failed"]
          /\ UNCHANGED live
    /\ UNCHANGED <<relay, device, conf, view, ghosts>>

(* Mutant of AddAppend: the new block goes before the others.              *)
AddInsertFirst ==
    /\ relay = "up" /\ op.pc = "append"
    /\ conf' = <<Whole(op.key, op.oct)>> \o conf
    /\ op' = [op EXCEPT !.pc = "payload"]
    /\ UNCHANGED <<relay, device, live, view, status, ghosts>>

AddAppend ==
    /\ relay = "up" /\ op.pc = "append"
    /\ conf' = Append(conf, Whole(op.key, op.oct))
    /\ op' = [op EXCEPT !.pc = "payload"]
    /\ UNCHANGED <<relay, device, live, view, status, ghosts>>

(* Mutant of AddAppendFails: no rollback of the live peer.                 *)
AddAppendFailsOnly ==
    /\ relay = "up" /\ op.pc = "append"
    /\ conf' \in CutAppends(conf, op.key, op.oct)
    /\ op' = Idle /\ status' = [status EXCEPT ![op.key] = "failed"]
    /\ UNCHANGED <<relay, device, live, view, ghosts>>

(* appendPeer fails: a full disk cuts the write, an open error writes none *)
AddAppendFails ==
    /\ relay = "up" /\ op.pc = "append"
    /\ conf' \in CutAppends(conf, op.key, op.oct)
    /\ \/ device /\ op' = [op EXCEPT !.pc = "rollback"] /\ UNCHANGED status
       \/ ~ device /\ op' = Idle /\ status' = [status EXCEPT ![op.key] = "failed"]
    /\ UNCHANGED <<relay, device, live, view, ghosts>>

(* device.RemovePeer after a failed append; its own failure is only logged *)
AddRollback ==
    /\ relay = "up" /\ op.pc = "rollback"
    /\ \/ live' = WithoutPeer(live, op.key) /\ UNCHANGED ghosts
       \/ UNCHANGED live /\ ghosts' = ghosts \cup {op.key}
    /\ op' = Idle
    /\ status' = [status EXCEPT ![op.key] = "failed"]
    /\ UNCHANGED <<relay, device, conf, view>>

(* serverPublicKey and the QR payload; an error leaves the peer enrolled.  *)
AddPayload ==
    /\ relay = "up" /\ op.pc = "payload"
    /\ op' = Idle
    /\ \E answer \in {"acked", "failed"} : status' = [status EXCEPT ![op.key] = answer]
    /\ UNCHANGED <<relay, device, conf, live, view, ghosts>>

(* Remove up to the range check, for an index caller c saw in its list.    *)
RemoveStart(c, i) ==
    /\ relay = "up" /\ op.pc = "idle"
    /\ i \in DOMAIN view[c].keys /\ i \in DOMAIN conf
    /\ op' = [pc |-> "revoke", key |-> conf[i].key, oct |-> conf[i].oct, idx |-> i]
    /\ UNCHANGED <<relay, device, conf, live, view, status, ghosts>>

(* Mutant of RemoveRevoke: a failure of the device is only logged.         *)
RemoveRevokeAnyway ==
    /\ relay = "up" /\ op.pc = "revoke"
    /\ live' \in {live, WithoutPeer(live, op.key)}
    /\ op' = [op EXCEPT !.pc = "rewrite"]
    /\ status' = [k \in Keys |-> IF k = op.key THEN "revoked" ELSE status[k]]
    /\ UNCHANGED <<relay, device, conf, view, ghosts>>

(* device.RemovePeer succeeds, or there is no device.                      *)
RemoveRevoke ==
    /\ relay = "up" /\ op.pc = "revoke"
    /\ device => op.key # NoKey
    /\ live' = IF device THEN WithoutPeer(live, op.key) ELSE live
    /\ op' = [op EXCEPT !.pc = "rewrite"]
    /\ status' = [k \in Keys |-> IF k = op.key THEN "revoked" ELSE status[k]]
    /\ UNCHANGED <<relay, device, conf, view, ghosts>>

(* device.RemovePeer fails: Remove returns before it touches the file.     *)
RemoveRevokeFails ==
    /\ relay = "up" /\ op.pc = "revoke"
    /\ device
    /\ op' = Idle
    /\ UNCHANGED <<relay, device, conf, live, view, status, ghosts>>

(* Mutant of RemoveRewrite: the block after the one at the index goes.     *)
RemoveRewriteNext ==
    /\ relay = "up" /\ op.pc = "rewrite"
    /\ conf' = RemoveAt(conf, op.idx + 1)
    /\ view' = [c \in Callers |-> [view[c] EXCEPT !.current = FALSE]]
    /\ op' = Idle
    /\ status' = [k \in Keys |-> IF k = op.key THEN "denied" ELSE status[k]]
    /\ UNCHANGED <<relay, device, live, ghosts>>

(* rewriteWithout renames the new file over the old one.                   *)
RemoveRewrite ==
    /\ relay = "up" /\ op.pc = "rewrite"
    /\ conf' = RemoveAt(conf, op.idx)
    /\ view' = [c \in Callers |-> [view[c] EXCEPT !.current = FALSE]]
    /\ op' = Idle
    /\ status' = [k \in Keys |-> IF k = op.key THEN "denied" ELSE status[k]]
    /\ UNCHANGED <<relay, device, live, ghosts>>

(* The temp file cannot be written or renamed: revoked live, still on disk *)
RemoveRewriteFails ==
    /\ relay = "up" /\ op.pc = "rewrite"
    /\ op' = Idle
    /\ UNCHANGED <<relay, device, conf, live, view, status, ghosts>>

Next ==
    \/ Boot \/ BootFails \/ BootWithoutTunnel \/ Crash
    \/ \E c \in Callers : List(c)
    \/ \E k \in Keys : AddStart(k)
    \/ AddLive \/ AddAppend \/ AddAppendFails \/ AddRollback \/ AddPayload
    \/ \E c \in Callers : \E i \in 1 .. Len(conf) : RemoveStart(c, i)
    \/ RemoveRevoke \/ RemoveRevokeFails \/ RemoveRewrite \/ RemoveRewriteFails

Spec == Init /\ [][Next]_vars

-----------------------------------------------------------------------------
ViewType == [keys : Seq(Keys \cup {NoKey}), current : BOOLEAN]

OpType   == [pc : Steps, key : Keys \cup {NoKey}, oct : Octets, idx : Nat \ {0}]

(* Every variable keeps its type.                                          *)
TypeOK ==
    /\ relay \in {"up", "down", "failed"} /\ device \in BOOLEAN
    /\ conf \in Seq(Entry)
    /\ DOMAIN live \subseteq Keys
    /\ \A k \in DOMAIN live : live[k] \subseteq Routes
    /\ op \in OpType
    /\ view \in [Callers -> ViewType]
    /\ status \in [Keys -> Statuses]
    /\ ghosts \subseteq Keys

(* No two blocks of wg0.conf name the same key, and no two give out the    *)
(* same address, however adds, cut writes, removes and restarts interleave *)
(* (nextAvailableOctet over a file with holes and damaged blocks).         *)
DistinctPeers ==
    \A i, j \in DOMAIN conf : i # j =>
        /\ conf[i].key = conf[j].key => conf[i].key = NoKey
        /\ (Counted(conf[i]) /\ Counted(conf[j])) => conf[i].oct # conf[j].oct

(* The file never holds more peers than maxPeers or the deployment wrote.  *)
PeerBound == Len(conf) <= MaxPeers \/ Len(conf) <= Len(Initial)

(* A peer whose enrolment was acknowledged and never revoked is in the     *)
(* file, and whenever the tunnel is up it is served with its address and   *)
(* nothing else: no other operation, failure, ghost peer, crash or restart *)
(* takes its entry or its address away.                                    *)
Served(k) ==
    \E i \in DOMAIN conf :
        /\ conf[i].key = k /\ conf[i].cidr = "host"
        /\ (relay = "up" /\ device) => k \in DOMAIN live /\ live[k] = {conf[i].oct}
AckedPeerServed == \A k \in Keys : status[k] = "acked" => Served(k)

(* Once Remove has reported success the key is on neither side again: not  *)
(* after a restart, and not by a later operation ("the actual access cut", *)
(* and "so the peer doesn't reappear on restart").                         *)
RevokedStaysOut ==
    \A k \in Keys : status[k] = "denied" => k \notin KeysOf(conf) /\ k \notin DOMAIN live

(* Access the persisted file does not reflect belongs to the Add that is   *)
(* under way or to a rollback the device refused, and the next restart     *)
(* ends it.                                                                *)
LiveWithinConf ==
    \A k \in DOMAIN live :
        \/ k \in KeysOf(conf)
        \/ k \in ghosts
        \/ op.key = k /\ op.pc \in {"append", "rollback"}

(* Remove names its peer by position. As long as no peer was removed since *)
(* the caller's List, the peer cut off is the one listed at that position, *)
(* even if peers were added or a write was cut in between.                 *)
RemoveHitsListed ==
    [][\A c \in Callers, i \in DOMAIN conf :
          (RemoveStart(c, i) /\ view[c].current) => op'.key = view[c].keys[i]]_vars

(* The file and the device together keep the promise of PeerLedger: every  *)
(* step of Add, Remove, a start or a crash is one of its steps or none.    *)
Ledger == INSTANCE PeerLedger WITH
    open <- device, book <- KeysOf(conf), served <- DOMAIN live,
    acked <- {k \in Keys : status[k] = "acked"},
    struck <- {k \in Keys : status[k] = "denied"}

KeepsLedger == Ledger!Spec

-----------------------------------------------------------------------------
(* What the holder of the mutex may rely on between its steps; with the    *)
(* properties above it makes them inductive.                               *)
OpInv ==
    /\ relay # "up" => op.pc = "idle"
    /\ ~ device => DOMAIN live = {}
    /\ \A k \in Keys : status[k] = "unused" => k \notin KeysOf(conf) /\ k \notin DOMAIN live
    /\ op.pc \in {"live", "append", "rollback", "payload"} =>
           op.key \in Keys /\ status[op.key] = "pending"
    /\ op.pc \in {"live", "append"} =>
           op.key \notin KeysOf(conf) /\ op.oct \in FreeOctets(conf)
    /\ op.pc = "live" => op.key \notin DOMAIN live
    /\ (op.pc = "append" /\ device) => op.key \in DOMAIN live /\ live[op.key] = {op.oct}
    /\ op.pc = "payload" => Served(op.key)
    /\ op.pc \in {"revoke", "rewrite"} =>
           op.idx \in DOMAIN conf /\ conf[op.idx].key = op.key
    /\ op.pc = "rewrite" =>
           op.key \notin DOMAIN live /\ (op.key \in Keys => status[op.key] = "revoked")
    /\ \A k \in Keys : status[k] = "pending" =>
           op.key = k /\ op.pc \in {"live", "append", "rollback", "payload"}

IInv == TypeOK /\ DistinctPeers /\ RevokedStaysOut /\ AckedPeerServed /\ OpInv
=============================================================================
