------------------------- MODULE PeerManagerProofs -------------------------
(***************************************************************************)
(* Theorems about PeerManager for every set of keys and callers, every     *)
(* deployed file and every maxPeers below the number of host octets.       *)
(***************************************************************************)
EXTENDS PeerManager, SequenceTheorems, FiniteSetTheorems, WellFoundedInduction, TLAPS

(* An octet is free whenever fewer peers than octets are in the file.      *)
LEMMA FreeOctetExists ==
    ASSUME NEW s \in Seq(Entry), Len(s) < LastOctet - 1
    PROVE  FreeOctets(s) # {}
<1>1. SUFFICES ASSUME FreeOctets(s) = {} PROVE FALSE
    OBVIOUS
<1>2. /\ LastOctet \in Nat /\ Len(s) \in Nat /\ DOMAIN s = 1 .. Len(s)
      /\ LastOctet \in Int /\ Len(s) \in Int /\ 1 \in Int /\ 2 \in Int
    BY PeerAssumption, LenProperties
<1> DEFINE f == [o \in Octets |-> CHOOSE i \in 1 .. Len(s) : s[i].oct = o]
<1>3. \A o \in Octets : f[o] \in 1 .. Len(s) /\ s[f[o]].oct = o
    BY <1>1, <1>2 DEF FreeOctets, UsedOctets
<1>4. IsFiniteSet(Octets) /\ Cardinality(Octets) = IF 2 > LastOctet THEN 0 ELSE LastOctet - 2 + 1
    BY <1>2, FS_Interval, Zenon DEF Octets
<1>5. IsFiniteSet(1 .. Len(s)) /\ Cardinality(1 .. Len(s)) = IF 1 > Len(s) THEN 0 ELSE Len(s) - 1 + 1
    BY <1>2, FS_Interval, Zenon
<1>6. Cardinality(1 .. Len(s)) < Cardinality(Octets)
    BY <1>2, <1>4, <1>5
<1>7. f \in [Octets -> 1 .. Len(s)]
    BY <1>3
<1> HIDE DEF f
<1>8. \E o, p \in Octets : o # p /\ f[o] = f[p]
    BY Zenon, <1>4, <1>5, <1>6, <1>7, FS_PigeonHole
<1>9. QED
    BY <1>3, <1>8

(* The scan of nextAvailableOctet stops at a free octet.                   *)
LEMMA NextOctetFree ==
    ASSUME NEW s \in Seq(Entry), Len(s) < LastOctet - 1
    PROVE  NextOctet(s) \in FreeOctets(s)
<1>1. FreeOctets(s) # {} /\ FreeOctets(s) \subseteq Nat
    BY FreeOctetExists DEF FreeOctets, Octets
<1>2. PICK o \in FreeOctets(s) : \A p \in FreeOctets(s) : ~ (<<p, o>> \in OpToRel(<, Nat))
    BY <1>1, WFMin, NatLessThanWellFounded
<1>3. \A p \in FreeOctets(s) : ~ (p < o)
    BY <1>1, <1>2, Zenon DEF OpToRel
<1>4. \A p \in FreeOctets(s) : o <= p
    BY <1>1, <1>3
<1>5. QED
    BY <1>1, <1>4 DEF NextOctet, Min

-----------------------------------------------------------------------------
(* What appending a block does to the file's entries.                      *)
LEMMA AppendEntries ==
    ASSUME NEW s \in Seq(Entry), NEW e \in Entry
    PROVE  /\ Append(s, e) \in Seq(Entry)
           /\ DOMAIN s = 1 .. Len(s) /\ Len(s) \in Nat
           /\ DOMAIN Append(s, e) = 1 .. Len(s) + 1
           /\ \A j \in DOMAIN s : Append(s, e)[j] = s[j]
           /\ Append(s, e)[Len(s) + 1] = e
OBVIOUS

(* What taking block i out does to them.                                   *)
LEMMA RemoveAtEntries ==
    ASSUME NEW s \in Seq(Entry), NEW i \in DOMAIN s
    PROVE  /\ RemoveAt(s, i) \in Seq(Entry)
           /\ DOMAIN s = 1 .. Len(s) /\ Len(s) \in Nat
           /\ DOMAIN RemoveAt(s, i) = 1 .. Len(s) - 1
           /\ Len(RemoveAt(s, i)) = Len(s) - 1
           /\ \A j \in 1 .. Len(s) - 1 : RemoveAt(s, i)[j] = s[IF j < i THEN j ELSE j + 1]
<1>1. /\ DOMAIN s = 1 .. Len(s) /\ Len(s) \in Nat
      /\ i \in 1 .. Len(s)
      /\ \A j \in 1 .. Len(s) : s[j] \in Entry
    OBVIOUS
<1> DEFINE a == SubSeq(s, 1, i - 1)
           b == SubSeq(s, i + 1, Len(s))
<1>2. /\ a \in Seq(Entry) /\ Len(a) = i - 1
      /\ \A j \in 1 .. i - 1 : a[j] = s[j]
    BY <1>1, SubSeqProperties
<1>3. /\ b \in Seq(Entry) /\ Len(b) = Len(s) - i
      /\ \A j \in 1 .. Len(s) - i : b[j] = s[i + j]
    BY <1>1, SubSeqProperties
<1> HIDE DEF a, b
<1>4. /\ a \o b \in Seq(Entry) /\ Len(a \o b) = Len(s) - 1
      /\ \A j \in 1 .. Len(s) - 1 :
            (a \o b)[j] = IF j <= i - 1 THEN a[j] ELSE b[j - (i - 1)]
    <2>1. /\ a \o b \in Seq(Entry) /\ Len(a \o b) = Len(a) + Len(b)
          /\ \A j \in 1 .. Len(a) + Len(b) :
                (a \o b)[j] = IF j <= Len(a) THEN a[j] ELSE b[j - Len(a)]
        BY <1>2, <1>3, ConcatProperties, Zenon
    <2>2. Len(a) + Len(b) = Len(s) - 1
        BY <1>1, <1>2, <1>3
    <2>3. QED
        BY <1>2, <2>1, <2>2, Zenon
<1>5. RemoveAt(s, i) = a \o b
    BY DEF RemoveAt, a, b
<1>6. ASSUME NEW j \in 1 .. Len(s) - 1
      PROVE  (a \o b)[j] = s[IF j < i THEN j ELSE j + 1]
    <2>1. CASE j < i
        BY <1>1, <1>2, <1>4, <2>1
    <2>2. CASE ~ (j < i)
        <3>1. j - (i - 1) \in 1 .. Len(s) - i /\ i + (j - (i - 1)) = j + 1
            BY <1>1, <2>2
        <3>2. QED
            BY <1>1, <1>3, <1>4, <2>2, <3>1
    <2>3. QED
        BY <2>1, <2>2
<1>7. DOMAIN (a \o b) = 1 .. Len(s) - 1
    BY <1>4, LenProperties
<1>8. QED
    BY <1>1, <1>4, <1>5, <1>6, <1>7

(* A new key with a free address keeps the blocks distinct; so does a      *)
(* block whose key was cut off.                                            *)
LEMMA AppendKeepsDistinct ==
    ASSUME TypeOK, DistinctPeers, NEW e \in Entry,
           e.key \notin KeysOf(conf), e.oct \in FreeOctets(conf),
           conf' = Append(conf, e)
    PROVE  DistinctPeers' /\ KeysOf(conf') = KeysOf(conf) \cup ({e.key} \ {NoKey})
<1>1. conf \in Seq(Entry)
    BY DEF TypeOK
<1>2. \A j \in DOMAIN conf : conf[j].key = e.key => e.key = NoKey
    BY DEF KeysOf
<1>3. \A j \in DOMAIN conf : Counted(conf[j]) => conf[j].oct # e.oct
    BY DEF FreeOctets, UsedOctets
<1>4. DistinctPeers'
    BY <1>1, <1>2, <1>3, AppendEntries DEF DistinctPeers
<1>5. KeysOf(conf') = KeysOf(conf) \cup ({e.key} \ {NoKey})
    BY <1>1, AppendEntries DEF KeysOf
<1>6. QED
    BY <1>4, <1>5

LEMMA RemoveKeepsDistinct ==
    ASSUME TypeOK, DistinctPeers, NEW i \in DOMAIN conf, conf' = RemoveAt(conf, i)
    PROVE  /\ DistinctPeers'
           /\ conf' \in Seq(Entry)
           /\ KeysOf(conf') = KeysOf(conf) \ {conf[i].key}
           /\ \A j \in DOMAIN conf : j # i => \E m \in DOMAIN conf' : conf'[m] = conf[j]
<1>1. conf \in Seq(Entry)
    BY DEF TypeOK
<1>2. /\ conf' \in Seq(Entry)
      /\ DOMAIN conf = 1 .. Len(conf) /\ Len(conf) \in Nat
      /\ DOMAIN conf' = 1 .. Len(conf) - 1
      /\ \A j \in 1 .. Len(conf) - 1 : conf'[j] = conf[IF j < i THEN j ELSE j + 1]
    BY <1>1, RemoveAtEntries
<1>3. ASSUME NEW j \in DOMAIN conf, j # i
      PROVE  \E m \in DOMAIN conf' : conf'[m] = conf[j]
    <2>1. CASE j < i
        BY <1>2, <2>1
    <2>2. CASE j > i
        <3>1. j - 1 \in DOMAIN conf' /\ ~ (j - 1 < i) /\ (j - 1) + 1 = j
            BY <1>2, <2>2
        <3>2. QED
            BY <1>2, <3>1
    <2>3. QED
        BY <1>2, <1>3, <2>1, <2>2
<1>4. ASSUME NEW m \in DOMAIN conf'
      PROVE  \E j \in DOMAIN conf : /\ j # i /\ conf'[m] = conf[j]
                                    /\ j = IF m < i THEN m ELSE m + 1
    BY <1>2
<1>5. DistinctPeers'
    <2>1. SUFFICES ASSUME NEW m \in DOMAIN conf', NEW n \in DOMAIN conf', m # n
                   PROVE  /\ conf'[m].key = conf'[n].key => conf'[m].key = NoKey
                          /\ (Counted(conf'[m]) /\ Counted(conf'[n]))
                                 => conf'[m].oct # conf'[n].oct
        BY DEF DistinctPeers, Counted
    <2>2. PICK j \in DOMAIN conf : conf'[m] = conf[j] /\ j = IF m < i THEN m ELSE m + 1
        BY <1>4
    <2>3. PICK l \in DOMAIN conf : conf'[n] = conf[l] /\ l = IF n < i THEN n ELSE n + 1
        BY <1>4
    <2>4. j # l
        BY <1>2, <2>1, <2>2, <2>3
    <2>5. QED
        BY <2>2, <2>3, <2>4 DEF DistinctPeers
<1>6. KeysOf(conf') = KeysOf(conf) \ {conf[i].key}
    <2>1. \A m \in DOMAIN conf' : conf'[m].key \in KeysOf(conf) \ {conf[i].key} \/ conf'[m].key = NoKey
        BY <1>4 DEF DistinctPeers, KeysOf
    <2>2. \A j \in DOMAIN conf : conf[j].key # conf[i].key => \E m \in DOMAIN conf' : conf'[m] = conf[j]
        BY <1>3
    <2>3. QED
        BY <2>1, <2>2 DEF KeysOf
<1>7. QED
    BY <1>2, <1>3, <1>5, <1>6

-----------------------------------------------------------------------------
LEMMA IdleType == Idle \in OpType
BY PeerAssumption DEF Idle, OpType, Steps, Octets

LEMMA EntryTypes ==
    ASSUME NEW s \in Seq(Entry)
    PROVE  /\ \A i \in DOMAIN s : s[i].key \in Keys \cup {NoKey} /\ s[i].oct \in Octets
           /\ KeysOf(s) \subseteq Keys
<1>1. \A i \in DOMAIN s : s[i] \in Entry
    OBVIOUS
<1>2. \A i \in DOMAIN s : s[i].key \in Keys \cup {NoKey} /\ s[i].oct \in Octets
    BY <1>1 DEF Entry
<1>3. QED
    BY <1>2 DEF KeysOf

LEMMA InitIInv == Init => IInv
<1> SUFFICES ASSUME Init PROVE IInv
    OBVIOUS
<1> USE PeerAssumption
<1>1. /\ conf \in Seq(Entry) /\ DOMAIN conf = 1 .. Len(Initial)
      /\ \A i \in DOMAIN conf : conf[i] = Whole(Initial[i], i + 1) /\ Initial[i] \in Keys
    <2>1. \A i \in 1 .. Len(Initial) : Whole(Initial[i], i + 1) \in Entry
        BY DEF Whole, Entry, Cidrs, Octets
    <2>2. conf \in [1 .. Len(Initial) -> Entry]
        BY <2>1 DEF Init
    <2>3. conf \in Seq(Entry)
        <3> HIDE DEF Init
        <3>1. Len(Initial) \in Nat
            OBVIOUS
        <3>2. QED
            BY <2>2, <3>1, SeqDef
    <2>4. DOMAIN conf = 1 .. Len(Initial) /\ \A i \in DOMAIN conf : conf[i] = Whole(Initial[i], i + 1)
        BY DEF Init
    <2>5. QED
        BY <2>3, <2>4
<1>2. TypeOK
    <2>1. Idle \in OpType
        BY IdleType
    <2>2. view \in [Callers -> ViewType]
        BY DEF Init, ViewType
    <2>3. status \in [Keys -> Statuses]
        BY DEF Init, Statuses
    <2>4. QED
        BY <1>1, <2>1, <2>2, <2>3 DEF Init, TypeOK, NoPeers
<1>3. DistinctPeers
    BY <1>1 DEF DistinctPeers, Whole
<1>4. RevokedStaysOut
    BY DEF Init, RevokedStaysOut
<1>5. AckedPeerServed
    BY <1>1 DEF Init, AckedPeerServed, Served, Whole
<1>6. OpInv
    BY <1>1 DEF Init, OpInv, Idle, KeysOf, Whole, NoPeers
<1>7. QED
    BY <1>2, <1>3, <1>4, <1>5, <1>6 DEF IInv

(* A boot loads every address of a file whose blocks are distinct to its   *)
(* own key, whatever networks cut blocks name.                             *)
LEMMA LoadedServes ==
    ASSUME TypeOK, DistinctPeers, NEW i \in DOMAIN conf, NEW k \in Keys,
           conf[i].key = k, conf[i].cidr = "host"
    PROVE  k \in DOMAIN Loaded(conf) /\ Loaded(conf)[k] = {conf[i].oct}
<1> USE PeerAssumption
<1>1. /\ conf[i].key = k /\ conf[i].cidr = "host" /\ conf[i].oct \in Octets
      /\ \A j \in DOMAIN conf : conf[j] \in Entry
    <2>2. \A j \in DOMAIN conf : conf[j] \in Entry
        BY DEF TypeOK
    <2>3. conf[i].oct \in Octets
        BY <2>2 DEF Entry
    <2>4. QED
        BY <2>2, <2>3
<1>2. k # NoKey /\ k \in KeysOf(conf)
    BY <1>1 DEF KeysOf
<1>3. \A j \in DOMAIN conf : conf[j].key = k => j = i
    BY <1>1, <1>2 DEF DistinctPeers
<1>4. Counted(conf[i]) /\ RouteOf(conf[i]) = conf[i].oct
    BY <1>1 DEF Counted, RouteOf
<1>5. ASSUME NEW j \in DOMAIN conf, j # i, Counted(conf[j])
      PROVE  RouteOf(conf[j]) # conf[i].oct
    BY <1>1, <1>4, <1>5 DEF DistinctPeers, RouteOf, Octets, Network
<1>6. conf[i].oct \in Routes /\ DOMAIN conf \subseteq Nat
    BY <1>1 DEF Routes, TypeOK
<1>7. OwnsAtBoot(conf, i, conf[i].oct)
    BY <1>4, <1>5, <1>6 DEF OwnsAtBoot
<1>8. \A r \in Routes : OwnsAtBoot(conf, i, r) => r = conf[i].oct
    BY <1>4 DEF OwnsAtBoot
<1>9. Loaded(conf)[k] = {r \in Routes : \E j \in DOMAIN conf : conf[j].key = k /\ OwnsAtBoot(conf, j, r)}
    BY <1>2 DEF Loaded
<1>10. QED
    BY <1>1, <1>2, <1>3, <1>6, <1>7, <1>8, <1>9 DEF Loaded

(* Blocks a cut append can leave are well typed and no more distinct keys  *)
(* or addresses than the whole block.                                      *)
LEMMA CutTypes ==
    ASSUME NEW k \in Keys, NEW o \in Octets, NEW e \in CutBlocks(k, o)
    PROVE  e \in Entry /\ e.oct = o /\ (e.key = k \/ e.key = NoKey)
BY DEF CutBlocks, Entry, Cidrs

-----------------------------------------------------------------------------
LEMMA BootIInv == IInv /\ Boot => IInv'
<1> SUFFICES ASSUME IInv, Boot PROVE IInv'
    OBVIOUS
<1>0. TypeOK /\ DistinctPeers /\ RevokedStaysOut /\ AckedPeerServed /\ OpInv
    BY DEF IInv
<1>1. TypeOK'
    <2>1. DOMAIN Loaded(conf) \subseteq Keys
        BY <1>0, EntryTypes DEF Loaded, TypeOK
    <2>2. \A k \in DOMAIN Loaded(conf) : Loaded(conf)[k] \subseteq Routes
        BY DEF Loaded
    <2>3. QED
        BY <1>0, <2>1, <2>2 DEF Boot, TypeOK
<1>2. DistinctPeers'
    BY <1>0 DEF Boot, DistinctPeers, Counted
<1>3. DOMAIN live' = KeysOf(conf)
    BY DEF Boot, Loaded
<1>4. RevokedStaysOut'
    BY <1>0, <1>3 DEF Boot, RevokedStaysOut, KeysOf
<1>5. AckedPeerServed'
    <2> SUFFICES ASSUME NEW k \in Keys, status[k] = "acked" PROVE Served(k)'
        BY DEF Boot, AckedPeerServed
    <2>1. PICK i \in DOMAIN conf : conf[i].key = k /\ conf[i].cidr = "host"
        BY <1>0 DEF AckedPeerServed, Served
    <2>2. k \in DOMAIN Loaded(conf) /\ Loaded(conf)[k] = {conf[i].oct}
        BY <1>0, <2>1, LoadedServes
    <2>3. QED
        BY <2>1, <2>2 DEF Boot, Served
<1>6. OpInv'
    BY <1>0, <1>3 DEF Boot, OpInv, KeysOf
<1>7. QED
    BY <1>1, <1>2, <1>4, <1>5, <1>6 DEF IInv

LEMMA CrashTypes == TypeOK /\ Crash => status' \in [Keys -> Statuses] /\ op' \in OpType
BY IdleType DEF TypeOK, Crash, Statuses

LEMMA CrashIInv == IInv /\ Crash => IInv'
<1> SUFFICES ASSUME IInv, Crash PROVE IInv'
    OBVIOUS
<1> USE PeerAssumption
<1>0. TypeOK /\ DistinctPeers /\ RevokedStaysOut /\ AckedPeerServed /\ OpInv
    BY DEF IInv
<1>1. CASE conf' = conf
    <2>1. TypeOK'
        BY <1>0, <1>1, CrashTypes DEF Crash, TypeOK, NoPeers
    <2>2. DistinctPeers'
        BY <1>0, <1>1 DEF DistinctPeers, Counted
    <2>3. RevokedStaysOut'
        BY <1>0, <1>1 DEF Crash, RevokedStaysOut, KeysOf, NoPeers, TypeOK
    <2>4. AckedPeerServed'
        BY <1>0, <1>1 DEF Crash, AckedPeerServed, Served, TypeOK
    <2>5. OpInv'
        BY <1>0, <1>1 DEF Crash, OpInv, KeysOf, NoPeers, Idle, TypeOK
    <2>6. QED
        BY <2>1, <2>2, <2>3, <2>4, <2>5 DEF IInv
<1>2. CASE op.pc = "append" /\ conf' # conf
    <2>1. /\ op.key \in Keys /\ op.oct \in Octets /\ op.key # NoKey
          /\ status[op.key] = "pending"
          /\ op.key \notin KeysOf(conf) /\ op.oct \in FreeOctets(conf)
        BY <1>0, <1>2 DEF OpInv, TypeOK, OpType
    <2>2. PICK e \in CutBlocks(op.key, op.oct) : conf' = Append(conf, e)
        BY <1>2 DEF Crash, CutAppends
    <2>3. e \in Entry /\ e.oct = op.oct /\ (e.key = op.key \/ e.key = NoKey)
        BY <2>1, <2>2, CutTypes
    <2>4. DistinctPeers' /\ KeysOf(conf') = KeysOf(conf) \cup ({e.key} \ {NoKey})
        BY <1>0, <2>1, <2>2, <2>3, AppendKeepsDistinct DEF KeysOf
    <2>5. /\ conf' \in Seq(Entry)
          /\ \A j \in DOMAIN conf : j \in DOMAIN conf' /\ conf'[j] = conf[j]
        BY <1>0, <2>2, <2>3, AppendEntries DEF TypeOK
    <2>6. TypeOK'
        BY <1>0, <2>5, CrashTypes DEF Crash, TypeOK, NoPeers
    <2>7. RevokedStaysOut'
        BY <1>0, <2>1, <2>3, <2>4 DEF Crash, RevokedStaysOut, NoPeers, TypeOK
    <2>8. AckedPeerServed'
        BY <1>0, <2>5 DEF Crash, AckedPeerServed, Served, TypeOK
    <2>9. OpInv'
        BY <1>0, <2>1, <2>3, <2>4 DEF Crash, OpInv, NoPeers, Idle, TypeOK
    <2>10. QED
        BY <2>4, <2>6, <2>7, <2>8, <2>9 DEF IInv
<1>3. QED
    BY <1>1, <1>2 DEF Crash

LEMMA BootFailsIInv == IInv /\ BootFails => IInv'
<1> SUFFICES ASSUME IInv, BootFails PROVE IInv'
    OBVIOUS
<1> USE PeerAssumption
<1>0. TypeOK /\ DistinctPeers /\ RevokedStaysOut /\ AckedPeerServed /\ OpInv
    BY DEF IInv
<1>1. TypeOK'
    BY <1>0 DEF BootFails, TypeOK
<1>2. DistinctPeers'
    BY <1>0 DEF BootFails, DistinctPeers, Counted
<1>3. RevokedStaysOut'
    BY <1>0 DEF BootFails, RevokedStaysOut, KeysOf
<1>4. AckedPeerServed'
    BY <1>0 DEF BootFails, AckedPeerServed, Served
<1>5. OpInv'
    BY <1>0 DEF BootFails, OpInv, KeysOf, Served
<1>6. QED
    BY <1>1, <1>2, <1>3, <1>4, <1>5 DEF IInv

LEMMA BootWithoutTunnelIInv == IInv /\ BootWithoutTunnel => IInv'
<1> SUFFICES ASSUME IInv, BootWithoutTunnel PROVE IInv'
    OBVIOUS
<1> USE PeerAssumption
<1>0. TypeOK /\ DistinctPeers /\ RevokedStaysOut /\ AckedPeerServed /\ OpInv
    BY DEF IInv
<1>1. TypeOK'
    BY <1>0 DEF BootWithoutTunnel, TypeOK, NoPeers
<1>2. DistinctPeers'
    BY <1>0 DEF BootWithoutTunnel, DistinctPeers, Counted
<1>3. RevokedStaysOut'
    BY <1>0 DEF BootWithoutTunnel, RevokedStaysOut, KeysOf, NoPeers
<1>4. AckedPeerServed'
    BY <1>0 DEF BootWithoutTunnel, AckedPeerServed, Served, NoPeers
<1>5. OpInv'
    BY <1>0 DEF BootWithoutTunnel, OpInv, KeysOf, Served, NoPeers
<1>6. QED
    BY <1>1, <1>2, <1>3, <1>4, <1>5 DEF IInv

LEMMA RemoveRewriteFailsIInv == IInv /\ RemoveRewriteFails => IInv'
<1> SUFFICES ASSUME IInv, RemoveRewriteFails PROVE IInv'
    OBVIOUS
<1> USE PeerAssumption
<1>0. TypeOK /\ DistinctPeers /\ RevokedStaysOut /\ AckedPeerServed /\ OpInv
    BY DEF IInv
<1>1. TypeOK'
    BY <1>0, IdleType DEF RemoveRewriteFails, TypeOK
<1>2. DistinctPeers'
    BY <1>0 DEF RemoveRewriteFails, DistinctPeers, Counted
<1>3. RevokedStaysOut'
    BY <1>0 DEF RemoveRewriteFails, RevokedStaysOut, KeysOf
<1>4. AckedPeerServed'
    BY <1>0 DEF RemoveRewriteFails, AckedPeerServed, Served
<1>5. OpInv'
    BY <1>0 DEF RemoveRewriteFails, OpInv, KeysOf, Served, Idle
<1>6. QED
    BY <1>1, <1>2, <1>3, <1>4, <1>5 DEF IInv

LEMMA RemoveRevokeFailsIInv == IInv /\ RemoveRevokeFails => IInv'
<1> SUFFICES ASSUME IInv, RemoveRevokeFails PROVE IInv'
    OBVIOUS
<1> USE PeerAssumption
<1>0. TypeOK /\ DistinctPeers /\ RevokedStaysOut /\ AckedPeerServed /\ OpInv
    BY DEF IInv
<1>1. TypeOK'
    BY <1>0, IdleType DEF RemoveRevokeFails, TypeOK
<1>2. DistinctPeers'
    BY <1>0 DEF RemoveRevokeFails, DistinctPeers, Counted
<1>3. RevokedStaysOut'
    BY <1>0 DEF RemoveRevokeFails, RevokedStaysOut, KeysOf
<1>4. AckedPeerServed'
    BY <1>0 DEF RemoveRevokeFails, AckedPeerServed, Served
<1>5. OpInv'
    BY <1>0 DEF RemoveRevokeFails, OpInv, KeysOf, Served, Idle
<1>6. QED
    BY <1>1, <1>2, <1>3, <1>4, <1>5 DEF IInv

-----------------------------------------------------------------------------

LEMMA AddStartIInv == ASSUME NEW k \in Keys PROVE IInv /\ AddStart(k) => IInv'
<1> SUFFICES ASSUME IInv, AddStart(k) PROVE IInv'
    OBVIOUS
<1> USE PeerAssumption
<1>0. TypeOK /\ DistinctPeers /\ RevokedStaysOut /\ AckedPeerServed /\ OpInv
    BY DEF IInv
<1>1. NextOctet(conf) \in FreeOctets(conf)
    <2>1. conf \in Seq(Entry) /\ Len(conf) \in Nat /\ Len(conf) < LastOctet - 1
        BY <1>0 DEF TypeOK, AddStart
    <2>2. QED
        BY <2>1, NextOctetFree
<1>2. /\ op' = [pc |-> "live", key |-> k, oct |-> NextOctet(conf), idx |-> 1]
      /\ op'.pc = "live" /\ op'.key = k /\ op'.oct \in FreeOctets(conf)
      /\ status' = [status EXCEPT ![k] = "pending"] /\ status[k] = "unused"
      /\ relay = "up" /\ op.pc = "idle"
      /\ UNCHANGED <<relay, device, conf, live, view, ghosts>>
    BY <1>1 DEF AddStart
<1>3. TypeOK'
    <2>1. op' \in OpType
        BY <1>1, <1>2 DEF OpType, Steps, FreeOctets
    <2>2. status' \in [Keys -> Statuses]
        BY <1>0, <1>2 DEF TypeOK, Statuses
    <2>3. QED
        BY <1>0, <1>2, <2>1, <2>2 DEF TypeOK
<1>4. DistinctPeers'
    BY <1>0, <1>2 DEF DistinctPeers, Counted
<1>5. RevokedStaysOut'
    BY <1>0, <1>2 DEF RevokedStaysOut, KeysOf, TypeOK
<1>6. AckedPeerServed'
    BY <1>0, <1>2 DEF AckedPeerServed, Served, TypeOK
<1>7. OpInv'
    BY <1>0, <1>2 DEF OpInv, KeysOf, FreeOctets, UsedOctets, Counted, TypeOK
<1>8. QED
    BY <1>3, <1>4, <1>5, <1>6, <1>7 DEF IInv

LEMMA RemoveStartIInv ==
    ASSUME NEW c \in Callers, NEW i \in 1 .. Len(conf)
    PROVE  IInv /\ RemoveStart(c, i) => IInv'
<1> SUFFICES ASSUME IInv, RemoveStart(c, i) PROVE IInv'
    OBVIOUS
<1>0. TypeOK /\ DistinctPeers /\ RevokedStaysOut /\ AckedPeerServed /\ OpInv
    BY DEF IInv
<1>1. TypeOK'
    <2>1. op' \in OpType
        BY <1>0, EntryTypes DEF RemoveStart, TypeOK, OpType, Steps
    <2>2. QED
        BY <1>0, <2>1 DEF RemoveStart, TypeOK
<1>2. DistinctPeers'
    BY <1>0 DEF RemoveStart, DistinctPeers, Counted
<1>3. RevokedStaysOut'
    BY <1>0 DEF RemoveStart, RevokedStaysOut, KeysOf
<1>4. AckedPeerServed'
    BY <1>0 DEF RemoveStart, AckedPeerServed, Served
<1>5. OpInv'
    BY <1>0 DEF RemoveStart, OpInv, KeysOf
<1>6. QED
    BY <1>1, <1>2, <1>3, <1>4, <1>5 DEF IInv

LEMMA ListIInv == ASSUME NEW c \in Callers PROVE IInv /\ List(c) => IInv'
<1> SUFFICES ASSUME IInv, List(c) PROVE IInv'
    OBVIOUS
<1>0. TypeOK /\ DistinctPeers /\ RevokedStaysOut /\ AckedPeerServed /\ OpInv
    BY DEF IInv
<1>1. TypeOK'
    <2>1. [i \in DOMAIN conf |-> conf[i].key] \in Seq(Keys \cup {NoKey})
        <3>1. conf \in Seq(Entry) /\ Len(conf) \in Nat /\ DOMAIN conf = 1 .. Len(conf)
            BY <1>0, LenProperties DEF TypeOK
        <3>2. [i \in DOMAIN conf |-> conf[i].key] \in [1 .. Len(conf) -> Keys \cup {NoKey}]
            BY <3>1, EntryTypes
        <3>3. QED
            BY <3>1, <3>2, SeqDef
    <2>2. [keys |-> [i \in DOMAIN conf |-> conf[i].key], current |-> TRUE] \in ViewType
        BY <2>1 DEF ViewType
    <2>3. view' \in [Callers -> ViewType]
        BY <1>0, <2>2 DEF List, TypeOK
    <2>4. QED
        BY <1>0, <2>3 DEF List, TypeOK
<1>2. DistinctPeers'
    BY <1>0 DEF List, DistinctPeers, Counted
<1>3. RevokedStaysOut'
    BY <1>0 DEF List, RevokedStaysOut, KeysOf
<1>4. AckedPeerServed'
    BY <1>0 DEF List, AckedPeerServed, Served
<1>5. OpInv'
    BY <1>0 DEF List, OpInv, KeysOf, FreeOctets, UsedOctets, Served, Counted
<1>6. QED
    BY <1>1, <1>2, <1>3, <1>4, <1>5 DEF IInv

(* The device keeps every other peer's routes when a new key takes an      *)
(* octet that is free in the file.                                         *)
LEMMA WithPeerTypes ==
    ASSUME TypeOK, NEW k \in Keys, NEW o \in Octets
    PROVE  /\ DOMAIN WithPeer(live, k, o) = DOMAIN live \cup {k}
           /\ \A x \in DOMAIN WithPeer(live, k, o) : WithPeer(live, k, o)[x] \subseteq Routes
           /\ k \notin DOMAIN live => WithPeer(live, k, o)[k] = {o}
           /\ \A x \in DOMAIN live : (x # k /\ o \notin live[x]) => WithPeer(live, k, o)[x] = live[x]
<1>1. DOMAIN live \subseteq Keys /\ \A x \in DOMAIN live : live[x] \subseteq Routes
    BY DEF TypeOK
<1>2. o \in Routes
    BY DEF Routes
<1>3. QED
    BY <1>1, <1>2 DEF WithPeer

LEMMA AddLiveIInv == IInv /\ AddLive => IInv'
<1> SUFFICES ASSUME IInv, AddLive PROVE IInv'
    OBVIOUS
<1> USE PeerAssumption
<1>0. TypeOK /\ DistinctPeers /\ RevokedStaysOut /\ AckedPeerServed /\ OpInv
    BY DEF IInv
<1>a. /\ op.pc = "live" /\ relay = "up"
      /\ op.key \in Keys /\ op.oct \in Octets /\ status[op.key] = "pending"
      /\ op.key \notin KeysOf(conf) /\ op.oct \in FreeOctets(conf)
      /\ op.key \notin DOMAIN live
    BY <1>0 DEF AddLive, OpInv, TypeOK, OpType
<1>b. CASE /\ live' = IF device THEN WithPeer(live, op.key, op.oct) ELSE live
           /\ op' = [op EXCEPT !.pc = "append"]
           /\ UNCHANGED status
    <2>0. /\ UNCHANGED <<relay, device, conf, view, status, ghosts>>
          /\ op'.pc = "append" /\ op'.key = op.key /\ op'.oct = op.oct
        BY <1>0, <1>b DEF AddLive, TypeOK, OpType
    <2>w. device => /\ DOMAIN live' = DOMAIN live \cup {op.key}
                    /\ \A x \in DOMAIN live' : live'[x] \subseteq Routes
                    /\ live'[op.key] = {op.oct}
                    /\ \A x \in DOMAIN live : (x # op.key /\ op.oct \notin live[x]) => live'[x] = live[x]
        <3> SUFFICES ASSUME device PROVE
                    /\ DOMAIN live' = DOMAIN live \cup {op.key}
                    /\ \A x \in DOMAIN live' : live'[x] \subseteq Routes
                    /\ live'[op.key] = {op.oct}
                    /\ \A x \in DOMAIN live : (x # op.key /\ op.oct \notin live[x]) => live'[x] = live[x]
            OBVIOUS
        <3>1. live' = WithPeer(live, op.key, op.oct)
            BY <1>b
        <3>2. /\ DOMAIN WithPeer(live, op.key, op.oct) = DOMAIN live \cup {op.key}
              /\ \A x \in DOMAIN WithPeer(live, op.key, op.oct) :
                    WithPeer(live, op.key, op.oct)[x] \subseteq Routes
              /\ WithPeer(live, op.key, op.oct)[op.key] = {op.oct}
              /\ \A x \in DOMAIN live : (x # op.key /\ op.oct \notin live[x]) =>
                    WithPeer(live, op.key, op.oct)[x] = live[x]
            BY <1>0, <1>a, WithPeerTypes
        <3>3. QED
            BY <3>1, <3>2
    <2>x. ~ device => live' = live
        BY <1>b
    <2>1. TypeOK'
        <3>1. op' \in OpType
            BY <1>0, <1>b DEF TypeOK, OpType, Steps
        <3>2. DOMAIN live' \subseteq Keys /\ \A x \in DOMAIN live' : live'[x] \subseteq Routes
            BY <1>0, <1>a, <2>w, <2>x DEF TypeOK
        <3>3. QED
            BY <1>0, <2>0, <3>1, <3>2 DEF TypeOK
    <2>2. DistinctPeers'
        BY <1>0, <2>0 DEF DistinctPeers, Counted
    <2>3. DOMAIN live' \subseteq DOMAIN live \cup {op.key}
        BY <2>w, <2>x
    <2>4. RevokedStaysOut'
        BY <1>0, <1>a, <2>0, <2>3 DEF RevokedStaysOut, KeysOf
    <2>5. AckedPeerServed'
        <3> SUFFICES ASSUME NEW k \in Keys, status[k] = "acked" PROVE Served(k)'
            BY <2>0 DEF AckedPeerServed
        <3>1. PICK i \in DOMAIN conf :
                  /\ conf[i].key = k /\ conf[i].cidr = "host"
                  /\ device => k \in DOMAIN live /\ live[k] = {conf[i].oct}
            BY <1>0, <1>a DEF AckedPeerServed, Served
        <3>2. op.oct # conf[i].oct /\ k # op.key
            BY <1>a, <3>1 DEF FreeOctets, UsedOctets, Counted
        <3>3. device => k \in DOMAIN live' /\ live'[k] = {conf[i].oct}
            BY <2>w, <3>1, <3>2
        <3>4. QED
            BY <2>0, <3>1, <3>3 DEF Served
    <2>6. OpInv'
        <3>1. device => op.key \in DOMAIN live' /\ live'[op.key] = {op.oct}
            BY <2>w
        <3>2. \A k \in Keys : status[k] = "unused" => k \notin KeysOf(conf) /\ k \notin DOMAIN live'
            BY <1>0, <1>a, <2>3 DEF OpInv
        <3>3. QED
            BY <1>0, <1>a, <2>0, <2>x, <3>1, <3>2
               DEF OpInv, KeysOf, FreeOctets, UsedOctets, Counted
    <2>7. QED
        BY <2>1, <2>2, <2>4, <2>5, <2>6 DEF IInv
<1>c. CASE /\ op' = Idle
           /\ status' = [status EXCEPT ![op.key] = "failed"]
           /\ UNCHANGED live
    <2>0. UNCHANGED <<relay, device, conf, live, view, ghosts>> /\ op'.pc = "idle"
        BY <1>c DEF AddLive, Idle
    <2>1. TypeOK'
        BY <1>0, <1>a, <1>c, <2>0, IdleType DEF TypeOK, Statuses
    <2>2. DistinctPeers'
        BY <1>0, <2>0 DEF DistinctPeers, Counted
    <2>3. RevokedStaysOut'
        BY <1>0, <1>a, <1>c, <2>0 DEF RevokedStaysOut, KeysOf, TypeOK
    <2>4. AckedPeerServed'
        BY <1>0, <1>a, <1>c, <2>0 DEF AckedPeerServed, Served, TypeOK
    <2>5. OpInv'
        BY <1>0, <1>a, <1>c, <2>0 DEF OpInv, KeysOf, TypeOK
    <2>6. QED
        BY <2>1, <2>2, <2>3, <2>4, <2>5 DEF IInv
<1>d. QED
    BY <1>b, <1>c DEF AddLive

LEMMA AddAppendIInv == IInv /\ AddAppend => IInv'
<1> SUFFICES ASSUME IInv, AddAppend PROVE IInv'
    OBVIOUS
<1> USE PeerAssumption
<1>0. TypeOK /\ DistinctPeers /\ RevokedStaysOut /\ AckedPeerServed /\ OpInv
    BY DEF IInv
<1> DEFINE e == Whole(op.key, op.oct)
<1>a. /\ op.pc = "append" /\ relay = "up"
      /\ op.key \in Keys /\ op.oct \in Octets /\ status[op.key] = "pending"
      /\ op.key \notin KeysOf(conf) /\ op.oct \in FreeOctets(conf)
      /\ device => op.key \in DOMAIN live /\ live[op.key] = {op.oct}
      /\ e \in Entry /\ e.key = op.key /\ e.oct = op.oct /\ e.cidr = "host"
    BY <1>0 DEF AddAppend, OpInv, TypeOK, OpType, Whole, Entry, Cidrs
<1>b. /\ conf' = Append(conf, e)
      /\ UNCHANGED <<relay, device, live, view, status, ghosts>>
      /\ op' \in OpType /\ op'.pc = "payload" /\ op'.key = op.key
    BY <1>0 DEF AddAppend, TypeOK, OpType, Steps
<1> HIDE DEF e
<1>c. /\ conf' \in Seq(Entry)
      /\ \A j \in DOMAIN conf : j \in DOMAIN conf' /\ conf'[j] = conf[j]
      /\ Len(conf) + 1 \in DOMAIN conf' /\ conf'[Len(conf) + 1] = e
    BY <1>0, <1>a, <1>b, AppendEntries DEF TypeOK
<1>d. DistinctPeers' /\ KeysOf(conf') = KeysOf(conf) \cup {op.key}
    BY <1>0, <1>a, <1>b, AppendKeepsDistinct
<1>1. TypeOK'
    BY <1>0, <1>b, <1>c DEF TypeOK
<1>2. RevokedStaysOut'
    BY <1>0, <1>a, <1>b, <1>d DEF RevokedStaysOut
<1>3. \A k \in Keys : Served(k) => Served(k)'
    BY <1>b, <1>c DEF Served
<1>4. AckedPeerServed'
    BY <1>0, <1>b, <1>3 DEF AckedPeerServed
<1>5. Served(op.key)'
    BY <1>a, <1>b, <1>c DEF Served
<1>6. OpInv'
    <2>1. op'.pc = "payload" => (Served(op.key))'
        <3>1. op'.key = op.key
            BY <1>b
        <3>2. QED
            BY <1>5, <3>1 DEF Served
    <2>2. QED
        BY <1>0, <1>a, <1>b, <1>d, <2>1 DEF OpInv
<1>7. QED
    BY <1>1, <1>2, <1>4, <1>6, <1>d DEF IInv

LEMMA AddAppendFailsIInv == IInv /\ AddAppendFails => IInv'
<1> SUFFICES ASSUME IInv, AddAppendFails PROVE IInv'
    OBVIOUS
<1> USE PeerAssumption
<1>0. TypeOK /\ DistinctPeers /\ RevokedStaysOut /\ AckedPeerServed /\ OpInv
    BY DEF IInv
<1>a. /\ op.pc = "append" /\ relay = "up"
      /\ op.key \in Keys /\ op.oct \in Octets /\ status[op.key] = "pending"
      /\ op.key # NoKey
      /\ op.key \notin KeysOf(conf) /\ op.oct \in FreeOctets(conf)
    BY <1>0 DEF AddAppendFails, OpInv, TypeOK, OpType
<1>b. /\ conf' \in Seq(Entry) /\ DistinctPeers'
      /\ KeysOf(conf') \subseteq KeysOf(conf) \cup {op.key}
      /\ \A j \in DOMAIN conf : j \in DOMAIN conf' /\ conf'[j] = conf[j]
    <2>1. CASE conf' = conf
        BY <1>0, <2>1 DEF TypeOK, DistinctPeers, Counted
    <2>2. CASE conf' # conf
        <3>1. PICK e \in CutBlocks(op.key, op.oct) : conf' = Append(conf, e)
            BY <2>2 DEF AddAppendFails, CutAppends
        <3>2. e \in Entry /\ e.oct = op.oct /\ (e.key = op.key \/ e.key = NoKey)
            BY <1>a, <3>1, CutTypes
        <3>3. DistinctPeers' /\ KeysOf(conf') = KeysOf(conf) \cup ({e.key} \ {NoKey})
            BY <1>0, <1>a, <3>1, <3>2, AppendKeepsDistinct DEF KeysOf
        <3>4. QED
            BY <1>0, <3>1, <3>2, <3>3, AppendEntries DEF TypeOK
    <2>3. QED
        BY <2>1, <2>2
<1>c. /\ UNCHANGED <<relay, device, live, view, ghosts>>
      /\ \/ op' = [op EXCEPT !.pc = "rollback"] /\ UNCHANGED status
         \/ op' = Idle /\ status' = [status EXCEPT ![op.key] = "failed"]
    BY DEF AddAppendFails
<1>d. /\ status' \in [Keys -> Statuses]
      /\ \A k \in Keys : k # op.key => status'[k] = status[k]
      /\ status'[op.key] \in {"pending", "failed"}
    BY <1>0, <1>a, <1>c DEF TypeOK, Statuses
<1>e. /\ op' \in OpType
      /\ \/ op'.pc = "rollback" /\ op'.key = op.key /\ status'[op.key] = "pending"
         \/ op'.pc = "idle" /\ status'[op.key] = "failed"
    BY <1>0, <1>a, <1>c, IdleType DEF TypeOK, OpType, Steps, Idle
<1>1. TypeOK'
    BY <1>0, <1>b, <1>c, <1>d, <1>e DEF TypeOK
<1>2. RevokedStaysOut'
    BY <1>0, <1>b, <1>c, <1>d DEF RevokedStaysOut
<1>3. \A k \in Keys : Served(k) => Served(k)'
    BY <1>b, <1>c DEF Served
<1>4. AckedPeerServed'
    BY <1>0, <1>a, <1>d, <1>3 DEF AckedPeerServed
<1>5. OpInv'
    BY <1>0, <1>a, <1>b, <1>c, <1>d, <1>e DEF OpInv
<1>6. QED
    BY <1>1, <1>2, <1>4, <1>5, <1>b DEF IInv

LEMMA AddRollbackIInv == IInv /\ AddRollback => IInv'
<1> SUFFICES ASSUME IInv, AddRollback PROVE IInv'
    OBVIOUS
<1> USE PeerAssumption
<1>0. TypeOK /\ DistinctPeers /\ RevokedStaysOut /\ AckedPeerServed /\ OpInv
    BY DEF IInv
<1>a. /\ op.pc = "rollback" /\ relay = "up"
      /\ op.key \in Keys /\ status[op.key] = "pending"
      /\ status' = [status EXCEPT ![op.key] = "failed"]
      /\ op' = Idle /\ op'.pc = "idle"
      /\ UNCHANGED <<relay, device, conf, view>>
    BY <1>0 DEF AddRollback, OpInv, Idle
<1>b. /\ DOMAIN live' \subseteq DOMAIN live
      /\ \A k \in DOMAIN live : k # op.key => k \in DOMAIN live' /\ live'[k] = live[k]
      /\ \A k \in DOMAIN live' : live'[k] = live[k]
      /\ ghosts' \subseteq ghosts \cup {op.key}
    BY DEF AddRollback, WithoutPeer
<1>1. TypeOK'
    BY <1>0, <1>a, <1>b, IdleType DEF TypeOK, Statuses
<1>2. DistinctPeers'
    BY <1>0, <1>a DEF DistinctPeers, Counted
<1>3. RevokedStaysOut'
    BY <1>0, <1>a, <1>b DEF RevokedStaysOut, KeysOf, TypeOK
<1>4. AckedPeerServed'
    BY <1>0, <1>a, <1>b DEF AckedPeerServed, Served, TypeOK
<1>5. OpInv'
    <2>1. ~ device' => DOMAIN live' = {}
        BY <1>0, <1>a, <1>b DEF OpInv
    <2>2. \A k \in Keys : status'[k] = "unused" => status[k] = "unused"
        BY <1>0, <1>a, <1>b DEF TypeOK
    <2>3. \A k \in Keys : status'[k] = "unused" => k \notin KeysOf(conf') /\ k \notin DOMAIN live'
        BY <1>0, <1>a, <1>b, <2>2 DEF OpInv, KeysOf
    <2>4. \A k \in Keys : status'[k] # "pending"
        BY <1>0, <1>a, <1>b DEF OpInv, TypeOK
    <2>5. QED
        BY <1>0, <1>a, <1>b, <2>1, <2>3, <2>4 DEF OpInv, KeysOf, TypeOK
<1>6. QED
    BY <1>1, <1>2, <1>3, <1>4, <1>5 DEF IInv

LEMMA AddPayloadIInv == IInv /\ AddPayload => IInv'
<1> SUFFICES ASSUME IInv, AddPayload PROVE IInv'
    OBVIOUS
<1> USE PeerAssumption
<1>0. TypeOK /\ DistinctPeers /\ RevokedStaysOut /\ AckedPeerServed /\ OpInv
    BY DEF IInv
<1>a. PICK answer \in {"acked", "failed"} :
          /\ op.pc = "payload" /\ relay = "up"
          /\ op.key \in Keys /\ Served(op.key) /\ status[op.key] = "pending"
          /\ status' = [status EXCEPT ![op.key] = answer]
          /\ op' = Idle /\ op'.pc = "idle"
          /\ UNCHANGED <<relay, device, conf, live, view, ghosts>>
    BY <1>0 DEF AddPayload, OpInv, Idle
<1>1. TypeOK'
    BY <1>0, <1>a, IdleType DEF TypeOK, Statuses
<1>2. DistinctPeers'
    BY <1>0, <1>a DEF DistinctPeers, Counted
<1>3. RevokedStaysOut'
    BY <1>0, <1>a DEF RevokedStaysOut, KeysOf, TypeOK
<1>4. AckedPeerServed'
    BY <1>0, <1>a DEF AckedPeerServed, Served, TypeOK
<1>5. OpInv'
    BY <1>0, <1>a DEF OpInv, KeysOf, TypeOK
<1>6. QED
    BY <1>1, <1>2, <1>3, <1>4, <1>5 DEF IInv

LEMMA RemoveRevokeIInv == IInv /\ RemoveRevoke => IInv'
<1> SUFFICES ASSUME IInv, RemoveRevoke PROVE IInv'
    OBVIOUS
<1> USE PeerAssumption
<1>0. TypeOK /\ DistinctPeers /\ RevokedStaysOut /\ AckedPeerServed /\ OpInv
    BY DEF IInv
<1>a. /\ op.pc = "revoke" /\ relay = "up" /\ op'.pc = "rewrite"
      /\ op'.key = op.key /\ op'.idx = op.idx /\ op' \in OpType
      /\ op.idx \in DOMAIN conf /\ conf[op.idx].key = op.key
      /\ UNCHANGED <<relay, device, conf, view, ghosts>>
    BY <1>0 DEF RemoveRevoke, OpInv, TypeOK, OpType, Steps
<1>b. /\ status' \in [Keys -> Statuses]
      /\ \A k \in Keys : status'[k] = IF k = op.key THEN "revoked" ELSE status[k]
    BY <1>0 DEF RemoveRevoke, TypeOK, Statuses
<1>c. /\ DOMAIN live' \subseteq DOMAIN live
      /\ \A k \in DOMAIN live : k # op.key => k \in DOMAIN live' /\ live'[k] = live[k]
      /\ \A k \in DOMAIN live' : live'[k] = live[k]
      /\ device => op.key \notin DOMAIN live'
    BY DEF RemoveRevoke, WithoutPeer
<1>1. TypeOK'
    BY <1>0, <1>a, <1>b, <1>c DEF TypeOK
<1>2. DistinctPeers'
    BY <1>0, <1>a DEF DistinctPeers, Counted
<1>3. RevokedStaysOut'
    BY <1>0, <1>a, <1>b, <1>c DEF RevokedStaysOut, KeysOf
<1>4. AckedPeerServed'
    BY <1>0, <1>a, <1>b, <1>c DEF AckedPeerServed, Served
<1>5. OpInv'
    <2>1. ~ device' => DOMAIN live' = {}
        BY <1>0, <1>a, <1>b, <1>c DEF OpInv
    <2>2. \A k \in Keys : status'[k] = "unused" => status[k] = "unused"
        BY <1>0, <1>a, <1>b, <1>c DEF TypeOK
    <2>3. \A k \in Keys : status'[k] = "unused" => k \notin KeysOf(conf') /\ k \notin DOMAIN live'
        BY <1>0, <1>a, <1>b, <1>c, <2>2 DEF OpInv, KeysOf
    <2>4. \A k \in Keys : status'[k] # "pending"
        BY <1>0, <1>a, <1>b, <1>c DEF OpInv, TypeOK
    <2>5. QED
        BY <1>0, <1>a, <1>b, <1>c, <2>1, <2>3, <2>4 DEF OpInv, KeysOf
<1>6. QED
    BY <1>1, <1>2, <1>3, <1>4, <1>5 DEF IInv

LEMMA RemoveRewriteIInv == IInv /\ RemoveRewrite => IInv'
<1> SUFFICES ASSUME IInv, RemoveRewrite PROVE IInv'
    OBVIOUS
<1> USE PeerAssumption
<1>0. TypeOK /\ DistinctPeers /\ RevokedStaysOut /\ AckedPeerServed /\ OpInv
    BY DEF IInv
<1>a. /\ op.pc = "rewrite" /\ relay = "up" /\ op' = Idle /\ op'.pc = "idle"
      /\ op.idx \in DOMAIN conf /\ conf[op.idx].key = op.key
      /\ op.key \notin DOMAIN live /\ (op.key \in Keys => status[op.key] = "revoked")
      /\ conf' = RemoveAt(conf, op.idx)
      /\ UNCHANGED <<relay, device, live, ghosts>>
    BY <1>0 DEF RemoveRewrite, OpInv, Idle
<1>b. /\ DistinctPeers' /\ conf' \in Seq(Entry)
      /\ KeysOf(conf') = KeysOf(conf) \ {op.key}
      /\ \A j \in DOMAIN conf : j # op.idx => \E m \in DOMAIN conf' : conf'[m] = conf[j]
    BY <1>0, <1>a, RemoveKeepsDistinct
<1>c. /\ status' \in [Keys -> Statuses]
      /\ \A k \in Keys : status'[k] = IF k = op.key THEN "denied" ELSE status[k]
    BY <1>0 DEF RemoveRewrite, TypeOK, Statuses
<1>1. TypeOK'
    <2>1. view' \in [Callers -> ViewType]
        <3>1. ASSUME NEW c \in Callers PROVE [view[c] EXCEPT !.current = FALSE] \in ViewType
            <4>1. view[c] \in ViewType
                BY <1>0 DEF TypeOK
            <4>2. QED
                BY <4>1 DEF ViewType
        <3>2. QED
            BY <3>1 DEF RemoveRewrite
    <2>2. QED
        BY <1>0, <1>a, <1>b, <1>c, <2>1, IdleType DEF TypeOK
<1>3. RevokedStaysOut'
    BY <1>0, <1>a, <1>b, <1>c DEF RevokedStaysOut
<1>4. AckedPeerServed'
    <2> SUFFICES ASSUME NEW k \in Keys, k # op.key, status[k] = "acked" PROVE Served(k)'
        BY <1>c DEF AckedPeerServed
    <2>1. PICK j \in DOMAIN conf :
              /\ conf[j].key = k /\ conf[j].cidr = "host"
              /\ device => k \in DOMAIN live /\ live[k] = {conf[j].oct}
        BY <1>0, <1>a DEF AckedPeerServed, Served
    <2>2. PICK m \in DOMAIN conf' : conf'[m] = conf[j]
        BY <1>a, <1>b, <2>1
    <2>3. QED
        BY <1>a, <2>1, <2>2 DEF Served
<1>5. OpInv'
    BY <1>0, <1>a, <1>b, <1>c DEF OpInv
<1>6. QED
    BY <1>1, <1>3, <1>4, <1>5, <1>b DEF IInv

-----------------------------------------------------------------------------
LEMMA NextIInv == IInv /\ [Next]_vars => IInv'
<1> SUFFICES ASSUME IInv, [Next]_vars PROVE IInv'
    OBVIOUS
<1>1. CASE UNCHANGED vars
    BY <1>1 DEF vars, IInv, TypeOK, DistinctPeers, Counted, RevokedStaysOut, KeysOf,
                AckedPeerServed, Served, OpInv, FreeOctets, UsedOctets
<1>2. CASE \E c \in Callers : List(c)
    BY <1>2, ListIInv
<1>3. CASE \E k \in Keys : AddStart(k)
    BY <1>3, AddStartIInv
<1>4. CASE \E c \in Callers : \E i \in 1 .. Len(conf) : RemoveStart(c, i)
    BY <1>4, RemoveStartIInv
<1>5. QED
    BY <1>1, <1>2, <1>3, <1>4, BootIInv, BootFailsIInv, BootWithoutTunnelIInv, CrashIInv,
       AddLiveIInv, AddAppendIInv, AddAppendFailsIInv, AddRollbackIInv, AddPayloadIInv,
       RemoveRevokeIInv, RemoveRevokeFailsIInv, RemoveRewriteIInv, RemoveRewriteFailsIInv
    DEF Next

LEMMA AlwaysIInv == Spec => []IInv
BY InitIInv, NextIInv, PTL DEF Spec

(* Every variable keeps its type.                                          *)
THEOREM TypeCorrect == Spec => []TypeOK
<1>1. IInv => TypeOK
    BY DEF IInv
<1>2. QED
    BY <1>1, AlwaysIInv, PTL

(* No key and no address is ever given to two peers, whatever is cut,      *)
(* removed or restarted in between (nextAvailableOctet, appendPeer,        *)
(* rewriteWithout), for any maxPeers below the number of host octets.      *)
THEOREM NoSharedPeer == Spec => []DistinctPeers
<1>1. IInv => DistinctPeers
    BY DEF IInv
<1>2. QED
    BY <1>1, AlwaysIInv, PTL

(* A peer Remove reported gone never regains access (Manager.Remove).      *)
THEOREM RevocationIsFinal == Spec => []RevokedStaysOut
<1>1. IInv => RevokedStaysOut
    BY DEF IInv
<1>2. QED
    BY <1>1, AlwaysIInv, PTL

(* An acknowledged peer is never lost from the file, and is served with    *)
(* its own address whenever the tunnel is up (Manager.Add, wg.New/Start).  *)
THEOREM EnrolmentIsDurable == Spec => []AckedPeerServed
<1>1. IInv => AckedPeerServed
    BY DEF IInv
<1>2. QED
    BY <1>1, AlwaysIInv, PTL

-----------------------------------------------------------------------------
(* What a step does to the blocks of the file: nothing, one more at the    *)
(* end while an Add is at its append, or one less by a rewrite.            *)
LEMMA ConfSteps ==
    ASSUME IInv, [Next]_vars
    PROVE  \/ conf' = conf
           \/ /\ op.pc = "append"
              /\ op'.pc \in {"payload", "rollback", "idle"}
              /\ UNCHANGED view
              /\ \E e \in Entry : conf' = Append(conf, e)
           \/ op.pc = "rewrite" /\ RemoveRewrite
<1>0. TypeOK /\ OpInv
    BY DEF IInv
<1>1. ASSUME op.pc = "append"
      PROVE  op.key \in Keys /\ op.oct \in Octets
    BY <1>0, <1>1 DEF OpInv, TypeOK, OpType
<1>2. ASSUME op.pc = "append", conf' \in CutAppends(conf, op.key, op.oct), conf' # conf
      PROVE  \E e \in Entry : conf' = Append(conf, e)
    BY <1>1, <1>2, CutTypes DEF CutAppends
<1>3. CASE Crash
    BY <1>2, <1>3 DEF Crash, Idle
<1>4. CASE AddAppend
    <2>1. Whole(op.key, op.oct) \in Entry
        BY <1>1, <1>4 DEF AddAppend, Whole, Entry, Cidrs
    <2>2. op'.pc = "payload"
        BY <1>0, <1>4 DEF AddAppend, TypeOK, OpType
    <2>3. QED
        BY <1>4, <2>1, <2>2 DEF AddAppend
<1>5. CASE AddAppendFails
    <2>1. op'.pc \in {"rollback", "idle"}
        BY <1>0, <1>5 DEF AddAppendFails, TypeOK, OpType, Idle
    <2>2. QED
        BY <1>2, <1>5, <2>1 DEF AddAppendFails
<1>6. CASE RemoveRewrite
    BY <1>6 DEF RemoveRewrite
<1>7. CASE UNCHANGED vars
    BY <1>7 DEF vars
<1>8. QED
    BY <1>3, <1>4, <1>5, <1>6, <1>7
    DEF Next, Boot, BootFails, BootWithoutTunnel, List, AddStart, AddLive, AddRollback,
        AddPayload, RemoveStart, RemoveRevoke, RemoveRevokeFails, RemoveRewriteFails

(* The Add that passed the limit still finds room at its append.           *)
BoundInv == PeerBound /\ (op.pc \in {"live", "append"} => Len(conf) < MaxPeers)

LEMMA RoomKept ==
    ASSUME IInv, BoundInv, [Next]_vars
    PROVE  op'.pc \in {"live", "append"} => Len(conf) < MaxPeers
<1>0. TypeOK
    BY DEF IInv
<1>1. CASE \E k \in Keys : AddStart(k)
    BY <1>1 DEF AddStart
<1>2. CASE AddLive
    BY <1>2 DEF AddLive, BoundInv
<1>3. CASE UNCHANGED op
    BY <1>3 DEF BoundInv
<1>4. CASE op'.pc \notin {"live", "append"}
    BY <1>4
<1>5. CASE AddAppend \/ AddAppendFails \/ RemoveRevoke
    BY <1>0, <1>5 DEF AddAppend, AddAppendFails, RemoveRevoke, TypeOK, OpType, Idle
<1>6. QED
    BY <1>1, <1>2, <1>3, <1>4, <1>5
    DEF Next, vars, Boot, BootFails, BootWithoutTunnel, Crash, List, AddRollback, AddPayload,
        RemoveStart, RemoveRevokeFails, RemoveRewrite, RemoveRewriteFails, Idle

LEMMA NextBound == IInv /\ BoundInv /\ [Next]_vars => BoundInv'
<1> SUFFICES ASSUME IInv, BoundInv, [Next]_vars PROVE BoundInv'
    OBVIOUS
<1> USE PeerAssumption
<1>0. TypeOK /\ OpInv /\ conf \in Seq(Entry) /\ Len(conf) \in Nat
    BY DEF IInv, TypeOK
<1>1. op'.pc \in {"live", "append"} => Len(conf) < MaxPeers
    BY RoomKept
<1>2. CASE conf' = conf
    BY <1>1, <1>2 DEF BoundInv, PeerBound
<1>3. CASE /\ op.pc = "append"
           /\ op'.pc \in {"payload", "rollback", "idle"}
           /\ \E e \in Entry : conf' = Append(conf, e)
    <2>1. Len(conf') = Len(conf) + 1
        BY <1>0, <1>3
    <2>2. Len(conf) < MaxPeers
        BY <1>3 DEF BoundInv
    <2>3. QED
        BY <1>0, <1>3, <2>1, <2>2 DEF BoundInv, PeerBound
<1>4. CASE op.pc = "rewrite" /\ RemoveRewrite
    <2>1. op.idx \in DOMAIN conf /\ conf' = RemoveAt(conf, op.idx) /\ op'.pc = "idle"
        BY <1>0, <1>4 DEF OpInv, RemoveRewrite, Idle
    <2>2. Len(conf') = Len(conf) - 1
        BY <1>0, <2>1, RemoveAtEntries
    <2>3. QED
        BY <1>0, <2>1, <2>2 DEF BoundInv, PeerBound
<1>5. QED
    BY <1>2, <1>3, <1>4, ConfSteps

(* wg0.conf never grows past maxPeers, not by a cut write, a failed Add or *)
(* a crash either (Manager.Add, appendPeer).                               *)
THEOREM FileIsBounded == Spec => []PeerBound
<1>1. Init => BoundInv
    BY PeerAssumption DEF Init, BoundInv, PeerBound, Idle
<1>2. BoundInv => PeerBound
    BY DEF BoundInv
<1>3. QED
    BY <1>1, <1>2, NextBound, AlwaysIInv, PTL DEF Spec


-----------------------------------------------------------------------------
LEMMA NextLiveWithinConf == IInv /\ LiveWithinConf /\ [Next]_vars => LiveWithinConf'
<1> SUFFICES ASSUME IInv, LiveWithinConf, [Next]_vars PROVE LiveWithinConf'
    OBVIOUS
<1>0. TypeOK /\ DistinctPeers /\ OpInv /\ DOMAIN live \subseteq Keys /\ conf \in Seq(Entry)
    BY DEF IInv, TypeOK
<1>a. NoKey \notin Keys
    BY PeerAssumption
<1>1. CASE Boot
    BY <1>1 DEF Boot, Loaded, LiveWithinConf, KeysOf
<1>2. CASE BootWithoutTunnel \/ Crash
    BY <1>2 DEF BootWithoutTunnel, Crash, NoPeers, LiveWithinConf
<1>3. CASE BootFails \/ (\E c \in Callers : List(c)) \/ (\E k \in Keys : AddStart(k))
           \/ (\E c \in Callers : \E i \in 1 .. Len(conf) : RemoveStart(c, i))
    <2>1. /\ UNCHANGED <<conf, live, ghosts>>
          /\ op.pc \notin {"append", "rollback"} \/ op' = op
        BY <1>3 DEF BootFails, List, AddStart, RemoveStart
    <2>2. QED
        BY <2>1 DEF LiveWithinConf, KeysOf
<1>4. CASE AddLive
    <2>1. /\ op.pc = "live" /\ UNCHANGED <<conf, ghosts>>
          /\ \/ live' = live
             \/ live' = WithPeer(live, op.key, op.oct)
                /\ op' = [op EXCEPT !.pc = "append"]
        BY <1>4 DEF AddLive
    <2>2. DOMAIN WithPeer(live, op.key, op.oct) = DOMAIN live \cup {op.key}
        BY DEF WithPeer
    <2>3. CASE live' = live
        BY <2>1, <2>3 DEF LiveWithinConf, KeysOf
    <2>4. CASE live' = WithPeer(live, op.key, op.oct) /\ op' = [op EXCEPT !.pc = "append"]
        <3>1. op'.pc = "append" /\ op'.key = op.key
            BY <1>0, <2>4 DEF TypeOK, OpType
        <3>2. QED
            BY <2>1, <2>2, <2>4, <3>1 DEF LiveWithinConf, KeysOf
    <2>5. QED
        BY <2>1, <2>3, <2>4
<1>5. CASE AddAppend
    <2>1. op.key \in Keys /\ Whole(op.key, op.oct) \in Entry
        BY <1>0, <1>5 DEF AddAppend, OpInv, TypeOK, OpType, Whole, Entry, Cidrs
    <2>2. KeysOf(conf') = KeysOf(conf) \cup {op.key}
        <3>1. Whole(op.key, op.oct).key = op.key /\ op.key # NoKey
            BY <1>a, <2>1 DEF Whole
        <3>2. op.key \notin KeysOf(conf) /\ op.oct \in FreeOctets(conf)
            BY <1>0, <1>5 DEF AddAppend, OpInv
        <3>3. conf' = Append(conf, Whole(op.key, op.oct))
            BY <1>5 DEF AddAppend
        <3>4. Whole(op.key, op.oct).oct = op.oct
            BY DEF Whole
        <3>5. QED
            BY <1>0, <2>1, <3>1, <3>2, <3>3, <3>4, AppendKeepsDistinct
    <2>3. QED
        BY <1>5, <2>2 DEF AddAppend, LiveWithinConf
<1>6. CASE AddAppendFails
    <2>1. KeysOf(conf) \subseteq KeysOf(conf')
        <3>1. op.key \in Keys /\ op.oct \in Octets
            BY <1>0, <1>6 DEF AddAppendFails, OpInv, TypeOK, OpType
        <3>2. CASE conf' = conf
            BY <3>2
        <3>3. CASE \E e \in Entry : conf' = Append(conf, e)
            BY <1>0, <3>3, AppendEntries DEF KeysOf
        <3>4. QED
            BY <1>6, <3>1, <3>2, <3>3, CutTypes DEF AddAppendFails, CutAppends
    <2>2. CASE device
        <3>1. op'.pc = "rollback" /\ op'.key = op.key /\ UNCHANGED <<live, ghosts>>
            BY <1>0, <1>6, <2>2 DEF AddAppendFails, TypeOK, OpType
        <3>2. QED
            BY <2>1, <3>1 DEF LiveWithinConf
    <2>3. CASE ~ device
        BY <1>0, <1>6, <2>3 DEF AddAppendFails, OpInv, LiveWithinConf
    <2>4. QED
        BY <2>2, <2>3
<1>7. CASE AddRollback
    <2>1. \/ DOMAIN live' = DOMAIN live \ {op.key} /\ ghosts' = ghosts
          \/ live' = live /\ ghosts' = ghosts \cup {op.key}
        BY <1>7 DEF AddRollback, WithoutPeer
    <2>2. conf' = conf
        BY <1>7 DEF AddRollback
    <2>3. QED
        BY <2>1, <2>2 DEF LiveWithinConf, KeysOf
<1>8. CASE AddPayload \/ RemoveRevoke \/ RemoveRevokeFails \/ RemoveRewriteFails
    <2>1. /\ DOMAIN live' \subseteq DOMAIN live /\ UNCHANGED <<conf, ghosts>>
          /\ op.pc \notin {"append", "rollback"}
        BY <1>8 DEF AddPayload, RemoveRevoke, RemoveRevokeFails, RemoveRewriteFails, WithoutPeer
    <2>2. QED
        BY <2>1 DEF LiveWithinConf, KeysOf
<1>9. CASE RemoveRewrite
    <2>1. /\ op.idx \in DOMAIN conf /\ conf[op.idx].key = op.key /\ op.key \notin DOMAIN live
          /\ op.pc = "rewrite" /\ conf' = RemoveAt(conf, op.idx) /\ UNCHANGED <<live, ghosts>>
        BY <1>0, <1>9 DEF RemoveRewrite, OpInv
    <2>2. KeysOf(conf') = KeysOf(conf) \ {op.key}
        BY <1>0, <2>1, RemoveKeepsDistinct
    <2>3. QED
        BY <2>1, <2>2 DEF LiveWithinConf
<1>10. CASE UNCHANGED vars
    BY <1>10 DEF vars, LiveWithinConf, KeysOf
<1>11. QED
    BY <1>1, <1>2, <1>3, <1>4, <1>5, <1>6, <1>7, <1>8, <1>9, <1>10 DEF Next

(* Nobody has access that the file does not show, save the Add under way   *)
(* and a peer whose rollback the device refused (Manager.Add's rollback,   *)
(* Manager.Remove's order: device first, file second).                     *)
THEOREM AccessIsRecorded == Spec => []LiveWithinConf
<1>1. Init => LiveWithinConf
    BY DEF Init, NoPeers, LiveWithinConf
<1>2. QED
    BY <1>1, NextLiveWithinConf, AlwaysIInv, PTL DEF Spec

-----------------------------------------------------------------------------
(* A list that is still current agrees with the file at every index.       *)
ViewInv ==
    \A c \in Callers : view[c].current =>
        \A i \in DOMAIN view[c].keys : i \in DOMAIN conf /\ conf[i].key = view[c].keys[i]

LEMMA NextViewInv == IInv /\ ViewInv /\ [Next]_vars => ViewInv'
<1> SUFFICES ASSUME IInv, ViewInv, [Next]_vars PROVE ViewInv'
    OBVIOUS
<1>0. TypeOK /\ conf \in Seq(Entry) /\ view \in [Callers -> ViewType]
    BY DEF IInv, TypeOK
<1>1. CASE \E c \in Callers : List(c)
    <2>1. PICK c \in Callers : List(c)
        BY <1>1
    <2>2. conf' = conf
        BY <2>1 DEF List
    <2>3. view'[c].keys = [i \in DOMAIN conf |-> conf[i].key]
        BY <1>0, <2>1 DEF List
    <2>4. \A d \in Callers : d # c => view'[d] = view[d]
        BY <1>0, <2>1 DEF List
    <2>5. QED
        BY <2>2, <2>3, <2>4 DEF ViewInv
<1>2. CASE RemoveRewrite
    <2>1. \A c \in Callers : ~ view'[c].current
        BY <1>0, <1>2 DEF RemoveRewrite, ViewType
    <2>2. QED
        BY <2>1 DEF ViewInv
<1>3. CASE UNCHANGED view /\ conf' = conf
    BY <1>3 DEF ViewInv
<1>4. CASE UNCHANGED view /\ \E e \in Entry : conf' = Append(conf, e)
    BY <1>0, <1>4, AppendEntries DEF ViewInv
<1>5. ~ RemoveRewrite /\ ~ (\E c \in Callers : List(c)) => UNCHANGED view
    BY DEF Next, vars, Boot, BootFails, BootWithoutTunnel, Crash, AddStart, AddLive, AddAppend,
           AddAppendFails, AddRollback, AddPayload, RemoveStart, RemoveRevoke,
           RemoveRevokeFails, RemoveRewriteFails
<1>6. QED
    BY <1>1, <1>2, <1>3, <1>4, <1>5, ConfSteps

(* A removal by index cuts off the peer that was listed there, as long as  *)
(* no peer was removed since (the index of Manager.Remove).                *)
THEOREM RemovalIsAimed == Spec => RemoveHitsListed
<1>1. Init => ViewInv
    BY DEF Init, ViewInv
<1>2. ViewInv /\ [Next]_vars
          => [\A c \in Callers, i \in DOMAIN conf :
                 (RemoveStart(c, i) /\ view[c].current) => op'.key = view[c].keys[i]]_vars
    BY DEF ViewInv, RemoveStart
<1>3. QED
    BY <1>1, <1>2, NextViewInv, AlwaysIInv, PTL DEF Spec, RemoveHitsListed

-----------------------------------------------------------------------------
(***************************************************************************)
(* PeerManager implements PeerLedger: its steps, seen through the mapping  *)
(* of the INSTANCE Ledger, are steps of the ledger or change nothing of it.*)
(***************************************************************************)
(* What the ledger sees of `status`.                                       *)
Acked  == {k \in Keys : status[k] = "acked"}
Denied == {k \in Keys : status[k] = "denied"}

LEMMA LedgerInit == Init => Ledger!Init
<1> SUFFICES ASSUME Init PROVE Ledger!Init
    OBVIOUS
<1>1. DOMAIN conf = 1 .. Len(Initial) /\ \A i \in DOMAIN conf : conf[i].key = Initial[i]
    BY PeerAssumption DEF Init, Whole
<1>2. \A i \in 1 .. Len(Initial) : Initial[i] \in Keys /\ Initial[i] # NoKey
    BY PeerAssumption
<1>3. KeysOf(conf) = {Initial[i] : i \in 1 .. Len(Initial)}
    BY <1>1, <1>2 DEF KeysOf
<1>4. KeysOf(conf) \subseteq Keys
    BY <1>2, <1>3
<1>5. Acked = KeysOf(conf) /\ Denied = {}
    <2>1. \A k \in Keys : status[k] = "acked" <=> k \in KeysOf(conf)
        BY <1>3 DEF Init
    <2>2. \A k \in Keys : status[k] # "denied"
        BY DEF Init
    <2>3. QED
        BY <1>4, <2>1, <2>2 DEF Acked, Denied
<1>6. device = FALSE /\ DOMAIN live = {}
    BY DEF Init, NoPeers
<1>7. QED
    BY <1>4, <1>5, <1>6 DEF Ledger!Init, Acked, Denied

(* Main never runs a tunnel in a process that has ended.                   *)
NoTunnelDown == relay # "up" => ~ device

LEMMA NextNoTunnelDown == NoTunnelDown /\ [Next]_vars => NoTunnelDown'
BY DEF NoTunnelDown, Next, vars, Boot, BootFails, BootWithoutTunnel, Crash, List, AddStart,
       AddLive, AddAppend, AddAppendFails, AddRollback, AddPayload, RemoveStart, RemoveRevoke,
       RemoveRevokeFails, RemoveRewrite, RemoveRewriteFails

-----------------------------------------------------------------------------
(* Steps that only change what the ledger does not see.                    *)
Unseen == UNCHANGED <<device, KeysOf(conf), DOMAIN live, Acked, Denied>>

LEMMA UnseenStep == Unseen => UNCHANGED Ledger!ledger
BY DEF Unseen, Acked, Denied, Ledger!ledger

(* What an Add under way is known by: it is neither acknowledged, nor      *)
(* revoked before.                                                         *)
LEMMA AddKey ==
    ASSUME IInv, op.pc \in {"live", "append", "rollback", "payload"}
    PROVE  /\ op.key \in Keys /\ op.key # NoKey /\ op.oct \in Octets
           /\ status \in [Keys -> Statuses] /\ status[op.key] = "pending"
           /\ op.key \notin Acked /\ op.key \notin Denied
BY PeerAssumption DEF IInv, OpInv, TypeOK, OpType, Acked, Denied

LEMMA BootStep == IInv /\ NoTunnelDown /\ Boot => Ledger!Start
<1> SUFFICES ASSUME IInv, NoTunnelDown, Boot PROVE Ledger!Start
    OBVIOUS
<1>1. DOMAIN live' = KeysOf(conf) /\ ~ device /\ device' = TRUE
    BY DEF Boot, Loaded, NoTunnelDown
<1>2. UNCHANGED <<conf, status>>
    BY DEF Boot
<1>3. QED
    BY <1>1, <1>2 DEF Ledger!Start, KeysOf

LEMMA BootWithoutTunnelStep == IInv /\ NoTunnelDown /\ BootWithoutTunnel => Unseen
<1> SUFFICES ASSUME IInv, NoTunnelDown, BootWithoutTunnel PROVE Unseen
    OBVIOUS
<1>1. ~ device /\ DOMAIN live = {}
    BY DEF IInv, OpInv, NoTunnelDown, BootWithoutTunnel
<1>2. device \in BOOLEAN
    BY DEF IInv, TypeOK
<1>3. DOMAIN live' = {} /\ device' = FALSE /\ UNCHANGED <<conf, status>>
    BY DEF BootWithoutTunnel, NoPeers
<1>4. QED
    BY <1>1, <1>2, <1>3 DEF Unseen, KeysOf, Acked, Denied

(* A crash may leave the block of the Add under way.                       *)
LEMMA CrashStep == IInv /\ Crash => Ledger!Stop
<1> SUFFICES ASSUME IInv, Crash PROVE Ledger!Stop
    OBVIOUS
<1>0. TypeOK /\ conf \in Seq(Entry)
    BY DEF IInv, TypeOK
<1>1. Acked' = Acked /\ Denied' = Denied
    <2>1. \A k \in Keys : status'[k] = IF status[k] = "pending" THEN "failed" ELSE status[k]
        BY DEF Crash
    <2>2. QED
        BY <2>1 DEF Acked, Denied
<1>2. \E K \in SUBSET (Keys \ Denied) :
          (\A j, k \in K : j = k) /\ KeysOf(conf)' = KeysOf(conf) \cup K
    <2>1. CASE conf' = conf
        <3>1. KeysOf(conf)' = KeysOf(conf) \cup {}
            BY <2>1 DEF KeysOf
        <3>2. QED
            BY <3>1
    <2>2. CASE op.pc = "append" /\ conf' # conf
        <3>1. /\ op.key \in Keys /\ op.key # NoKey /\ op.oct \in Octets /\ op.key \notin Denied
              /\ op.key \notin KeysOf(conf) /\ op.oct \in FreeOctets(conf)
            BY <2>2, AddKey DEF IInv, OpInv
        <3>2. PICK e \in CutBlocks(op.key, op.oct) : conf' = Append(conf, e)
            BY <2>2 DEF Crash, CutAppends
        <3>3. e \in Entry /\ e.oct = op.oct /\ (e.key = op.key \/ e.key = NoKey)
            BY <3>1, <3>2, CutTypes
        <3>4. e.key \notin KeysOf(conf) /\ e.oct \in FreeOctets(conf)
            BY <3>1, <3>3 DEF KeysOf
        <3>5. KeysOf(conf') = KeysOf(conf) \cup ({e.key} \ {NoKey})
            BY <1>0, <3>2, <3>3, <3>4, AppendKeepsDistinct DEF IInv
        <3>6. {e.key} \ {NoKey} \in SUBSET (Keys \ Denied)
            BY <3>1, <3>3
        <3>7. QED
            BY <3>5, <3>6
    <2>3. QED
        BY <2>1, <2>2 DEF Crash
<1>3. device' = FALSE /\ DOMAIN live' = {}
    BY DEF Crash, NoPeers
<1>4. QED
    BY <1>1, <1>2, <1>3 DEF Ledger!Stop, Acked, Denied

-----------------------------------------------------------------------------
LEMMA AddStartStep ==
    ASSUME IInv, NEW k \in Keys, AddStart(k)
    PROVE  Unseen
<1>1. status \in [Keys -> Statuses] /\ status[k] = "unused"
    BY DEF IInv, TypeOK, AddStart
<1>2. status' = [status EXCEPT ![k] = "pending"] /\ UNCHANGED <<device, conf, live>>
    BY DEF AddStart
<1>3. Acked' = Acked /\ Denied' = Denied
    BY <1>1, <1>2 DEF Acked, Denied
<1>4. QED
    BY <1>2, <1>3 DEF Unseen, KeysOf

LEMMA AddLiveStep == IInv /\ AddLive => (\E k \in Keys : Ledger!Admit(k)) \/ Unseen
<1> SUFFICES ASSUME IInv, AddLive PROVE (\E k \in Keys : Ledger!Admit(k)) \/ Unseen
    OBVIOUS
<1>0. /\ op.key \in Keys /\ status \in [Keys -> Statuses] /\ status[op.key] = "pending"
      /\ op.key \notin Denied
    BY AddKey DEF AddLive
<1>1. op.key \notin KeysOf(conf) /\ op.key \notin DOMAIN live
    BY DEF IInv, OpInv, AddLive
<1>2. UNCHANGED <<device, conf>>
    BY DEF AddLive
<1>3. CASE UNCHANGED status /\ device /\ live' = WithPeer(live, op.key, op.oct)
    <2>1. DOMAIN live' = DOMAIN live \cup {op.key}
        BY <1>3 DEF WithPeer
    <2>2. \E k \in Keys : Ledger!Admit(k)
        BY <1>0, <1>1, <1>2, <1>3, <2>1 DEF Ledger!Admit, KeysOf, Denied
    <2>3. QED
        BY <2>2
<1>4. CASE UNCHANGED <<status, live>>
    BY <1>2, <1>4 DEF Unseen, KeysOf, Acked, Denied
<1>5. CASE status' = [status EXCEPT ![op.key] = "failed"] /\ UNCHANGED live
    <2>1. Acked' = Acked /\ Denied' = Denied
        BY <1>0, <1>5 DEF Acked, Denied
    <2>2. QED
        BY <1>2, <1>5, <2>1 DEF Unseen, KeysOf
<1>6. QED
    BY <1>3, <1>4, <1>5 DEF AddLive

(* A whole block, or one whose key is whole, is a record.                  *)
LEMMA RecordStep ==
    ASSUME IInv, op.pc = "append", UNCHANGED <<device, live, Acked, Denied>>,
           NEW e \in Entry, conf' = Append(conf, e),
           e.oct = op.oct, e.key = op.key \/ e.key = NoKey
    PROVE  (\E k \in Keys : Ledger!Record(k)) \/ Unseen
<1>0. /\ op.key \in Keys /\ op.key # NoKey /\ op.key \notin Denied /\ TypeOK /\ DistinctPeers
      /\ op.key \notin KeysOf(conf) /\ op.oct \in FreeOctets(conf)
      /\ device => op.key \in DOMAIN live
    BY AddKey DEF IInv, OpInv
<1>1. e.key \notin KeysOf(conf) /\ e.oct \in FreeOctets(conf)
    BY <1>0 DEF KeysOf
<1>2. KeysOf(conf') = KeysOf(conf) \cup ({e.key} \ {NoKey})
    BY <1>0, <1>1, AppendKeepsDistinct
<1>3. CASE e.key = op.key
    <2>1. KeysOf(conf)' = KeysOf(conf) \cup {op.key}
        BY <1>0, <1>2, <1>3
    <2>2. \E k \in Keys : Ledger!Record(k)
        BY <1>0, <2>1 DEF Ledger!Record, Acked, Denied
    <2>3. QED
        BY <2>2
<1>4. CASE e.key = NoKey
    <2>1. KeysOf(conf)' = KeysOf(conf)
        BY <1>2, <1>4
    <2>2. QED
        BY <2>1 DEF Unseen
<1>5. QED
    BY <1>3, <1>4

LEMMA AddAppendStep == IInv /\ AddAppend => (\E k \in Keys : Ledger!Record(k)) \/ Unseen
<1> SUFFICES ASSUME IInv, AddAppend PROVE (\E k \in Keys : Ledger!Record(k)) \/ Unseen
    OBVIOUS
<1> DEFINE e == Whole(op.key, op.oct)
<1>1. op.pc = "append" /\ op.key \in Keys /\ op.oct \in Octets
    BY AddKey DEF AddAppend
<1>2. e \in Entry /\ e.key = op.key /\ e.oct = op.oct
    BY <1>1 DEF Whole, Entry, Cidrs
<1>3. conf' = Append(conf, e) /\ UNCHANGED <<device, live, Acked, Denied>>
    BY DEF AddAppend, Acked, Denied
<1> HIDE DEF e
<1>4. QED
    BY <1>1, <1>2, <1>3, RecordStep

LEMMA AddAppendFailsStep == IInv /\ AddAppendFails => (\E k \in Keys : Ledger!Record(k)) \/ Unseen
<1> SUFFICES ASSUME IInv, AddAppendFails PROVE (\E k \in Keys : Ledger!Record(k)) \/ Unseen
    OBVIOUS
<1>1. /\ op.pc = "append" /\ op.key \in Keys /\ op.oct \in Octets
      /\ status \in [Keys -> Statuses] /\ status[op.key] = "pending"
    BY AddKey DEF AddAppendFails
<1>2. UNCHANGED <<device, live, Acked, Denied>>
    <2>1. UNCHANGED status \/ status' = [status EXCEPT ![op.key] = "failed"]
        BY DEF AddAppendFails
    <2>2. QED
        BY <1>1, <2>1 DEF AddAppendFails, Acked, Denied
<1>3. CASE conf' = conf
    BY <1>2, <1>3 DEF Unseen, KeysOf
<1>4. CASE conf' # conf
    <2>1. PICK e \in CutBlocks(op.key, op.oct) : conf' = Append(conf, e)
        BY <1>4 DEF AddAppendFails, CutAppends
    <2>2. e \in Entry /\ e.oct = op.oct /\ (e.key = op.key \/ e.key = NoKey)
        BY <1>1, <2>1, CutTypes
    <2>3. QED
        BY <1>1, <1>2, <2>1, <2>2, RecordStep
<1>5. QED
    BY <1>3, <1>4

LEMMA AddRollbackStep == IInv /\ AddRollback => (\E k \in Keys : Ledger!Cut(k)) \/ Unseen
<1> SUFFICES ASSUME IInv, AddRollback PROVE (\E k \in Keys : Ledger!Cut(k)) \/ Unseen
    OBVIOUS
<1>0. /\ op.key \in Keys /\ op.key \notin Acked
      /\ status \in [Keys -> Statuses] /\ status[op.key] = "pending"
    BY AddKey DEF AddRollback
<1>1. /\ UNCHANGED <<device, conf>>
      /\ status' = [status EXCEPT ![op.key] = "failed"]
    BY DEF AddRollback
<1>2. Acked' = Acked /\ Denied' = Denied
    BY <1>0, <1>1 DEF Acked, Denied
<1>3. CASE live' = live
    BY <1>1, <1>2, <1>3 DEF Unseen, KeysOf
<1>4. CASE live' = WithoutPeer(live, op.key)
    <2>1. DOMAIN live' = DOMAIN live \ {op.key}
        BY <1>4 DEF WithoutPeer
    <2>2. Acked' = Acked \ {op.key}
        BY <1>0, <1>2
    <2>3. \E k \in Keys : Ledger!Cut(k)
        BY <1>0, <1>1, <1>2, <2>1, <2>2 DEF Ledger!Cut, KeysOf, Acked, Denied
    <2>4. QED
        BY <2>3
<1>5. QED
    BY <1>3, <1>4 DEF AddRollback

LEMMA AddPayloadStep == IInv /\ AddPayload => (\E k \in Keys : Ledger!Confirm(k)) \/ Unseen
<1> SUFFICES ASSUME IInv, AddPayload PROVE (\E k \in Keys : Ledger!Confirm(k)) \/ Unseen
    OBVIOUS
<1>0. /\ op.key \in Keys /\ op.key # NoKey /\ op.key \notin Acked
      /\ status \in [Keys -> Statuses] /\ status[op.key] = "pending"
    BY AddKey DEF AddPayload
<1>1. Served(op.key) /\ relay = "up"
    BY DEF IInv, OpInv, AddPayload
<1>2. op.key \in KeysOf(conf) /\ (device => op.key \in DOMAIN live)
    BY <1>0, <1>1 DEF Served, KeysOf
<1>3. UNCHANGED <<device, conf, live>>
    BY DEF AddPayload
<1>4. CASE status' = [status EXCEPT ![op.key] = "acked"]
    <2>1. Acked' = Acked \cup {op.key} /\ Denied' = Denied
        BY <1>0, <1>4 DEF Acked, Denied
    <2>2. \E k \in Keys : Ledger!Confirm(k)
        BY <1>2, <1>3, <2>1 DEF Ledger!Confirm, KeysOf, Acked, Denied
    <2>3. QED
        BY <2>2
<1>5. CASE status' = [status EXCEPT ![op.key] = "failed"]
    <2>1. Acked' = Acked /\ Denied' = Denied
        BY <1>0, <1>5 DEF Acked, Denied
    <2>2. QED
        BY <1>3, <2>1 DEF Unseen, KeysOf
<1>6. QED
    BY <1>4, <1>5 DEF AddPayload

-----------------------------------------------------------------------------
LEMMA RemoveRevokeStep ==
    IInv /\ RemoveRevoke => (\E k \in Keys : Ledger!Cut(k)) \/ Unseen
<1> SUFFICES ASSUME IInv, RemoveRevoke
             PROVE  (\E k \in Keys : Ledger!Cut(k)) \/ Unseen
    OBVIOUS
<1>0. /\ op.key \in Keys \cup {NoKey}
      /\ op.idx \in DOMAIN conf /\ conf[op.idx].key = op.key
      /\ ~ device => DOMAIN live = {}
      /\ RevokedStaysOut
    BY DEF IInv, TypeOK, OpType, OpInv, RemoveRevoke
<1>1. /\ \A k \in Keys : status'[k] = IF k = op.key THEN "revoked" ELSE status[k]
      /\ UNCHANGED <<device, conf>>
      /\ device => op.key # NoKey
      /\ live' = IF device THEN WithoutPeer(live, op.key) ELSE live
    BY DEF RemoveRevoke
<1>2. CASE op.key \in Keys
    <2>1. op.key \in KeysOf(conf)
        BY <1>0, <1>2, PeerAssumption DEF KeysOf
    <2>2. op.key \notin Denied
        BY <1>0, <1>2, <2>1 DEF RevokedStaysOut, Denied
    <2>3. Acked' = Acked \ {op.key} /\ Denied' = Denied
        BY <1>1, <2>2 DEF Acked, Denied
    <2>4. DOMAIN live' = DOMAIN live \ {op.key}
        BY <1>0, <1>1 DEF WithoutPeer
    <2>5. \E k \in Keys : Ledger!Cut(k)
        BY <1>1, <1>2, <2>3, <2>4 DEF Ledger!Cut, KeysOf, Acked, Denied
    <2>6. QED
        BY <1>2, <2>5
<1>3. CASE op.key = NoKey
    <2>1. UNCHANGED <<device, conf, live, Acked, Denied>>
        BY <1>1, <1>3, PeerAssumption DEF Acked, Denied
    <2>2. QED
        BY <2>1 DEF Unseen, KeysOf
<1>4. QED
    BY <1>0, <1>2, <1>3

LEMMA RemoveRewriteStep ==
    IInv /\ RemoveRewrite => (\E k \in Keys : Ledger!Strike(k)) \/ Unseen
<1> SUFFICES ASSUME IInv, RemoveRewrite
             PROVE  (\E k \in Keys : Ledger!Strike(k)) \/ Unseen
    OBVIOUS
<1>0. /\ op.key \in Keys \cup {NoKey} /\ TypeOK /\ DistinctPeers
      /\ op.idx \in DOMAIN conf /\ conf[op.idx].key = op.key
      /\ op.key \notin DOMAIN live /\ (op.key \in Keys => status[op.key] = "revoked")
    BY DEF IInv, TypeOK, OpType, OpInv, RemoveRewrite
<1>1. /\ \A k \in Keys : status'[k] = IF k = op.key THEN "denied" ELSE status[k]
      /\ UNCHANGED <<device, live>>
      /\ conf' = RemoveAt(conf, op.idx)
    BY DEF RemoveRewrite
<1>2. KeysOf(conf)' = KeysOf(conf) \ {op.key}
    BY <1>0, <1>1, RemoveKeepsDistinct
<1>3. CASE op.key \in Keys
    <2>1. op.key \in KeysOf(conf) /\ op.key \notin Acked
        BY <1>0, <1>3, PeerAssumption DEF KeysOf, Acked
    <2>2. Acked' = Acked /\ Denied' = Denied \cup {op.key}
        BY <1>0, <1>1, <1>3 DEF Acked, Denied
    <2>3. \E k \in Keys : Ledger!Strike(k)
        BY <1>0, <1>1, <1>2, <2>1, <2>2 DEF Ledger!Strike, Acked, Denied
    <2>4. QED
        BY <1>3, <2>3
<1>4. CASE op.key = NoKey
    <2>1. KeysOf(conf)' = KeysOf(conf)
        BY <1>2, <1>4 DEF KeysOf
    <2>2. Acked' = Acked /\ Denied' = Denied
        BY <1>1, <1>4, PeerAssumption DEF Acked, Denied
    <2>3. QED
        BY <1>1, <2>1, <2>2 DEF Unseen
<1>5. QED
    BY <1>0, <1>3, <1>4

LEMMA OtherStep ==
    ASSUME \/ UNCHANGED vars \/ BootFails \/ RemoveRevokeFails \/ RemoveRewriteFails
           \/ \E c \in Callers : List(c)
           \/ \E c \in Callers : \E i \in 1 .. Len(conf) : RemoveStart(c, i)
    PROVE  Unseen
BY DEF vars, BootFails, RemoveRevokeFails, RemoveRewriteFails, List, RemoveStart,
       Unseen, KeysOf, Acked, Denied

-----------------------------------------------------------------------------
LEMMA LedgerNext == IInv /\ NoTunnelDown /\ [Next]_vars => [Ledger!Next]_(Ledger!ledger)
<1> SUFFICES ASSUME IInv, NoTunnelDown, [Next]_vars
             PROVE  Ledger!Next \/ Unseen
    BY UnseenStep
<1>1. CASE AddLive \/ AddAppend \/ AddAppendFails \/ AddRollback \/ AddPayload
    BY <1>1, AddLiveStep, AddAppendStep, AddAppendFailsStep, AddRollbackStep, AddPayloadStep
    DEF Ledger!Next
<1>2. CASE RemoveRevoke \/ RemoveRewrite
    BY <1>2, RemoveRevokeStep, RemoveRewriteStep DEF Ledger!Next
<1>3. CASE Boot \/ Crash
    BY <1>3, BootStep, CrashStep DEF Ledger!Next
<1>4. CASE BootWithoutTunnel
    BY <1>4, BootWithoutTunnelStep
<1>5. CASE \E k \in Keys : AddStart(k)
    BY <1>5, AddStartStep
<1>6. QED
    BY <1>1, <1>2, <1>3, <1>4, <1>5, OtherStep DEF Next

(* wg0.conf and the device, with every failing call, crash and restart,    *)
(* implement the ledger: access comes before the record and ends before    *)
(* it, a start serves exactly the file, and who was struck out stays out   *)
(* (peers.Manager over wg.Server).                                         *)
THEOREM ManagerKeepsLedger == Spec => KeepsLedger
<1>1. Init => NoTunnelDown
    BY DEF Init, NoTunnelDown
<1>2. QED
    BY <1>1, LedgerInit, NextNoTunnelDown, AlwaysIInv, LedgerNext, PTL
    DEF Spec, KeepsLedger, Ledger!Spec

-----------------------------------------------------------------------------
(* Whatever keeps the ledger keeps its promise: nobody is recorded or      *)
(* confirmed who was struck out, and nobody confirmed loses access.        *)
LEMMA LedgerStep == Ledger!Kept /\ [Ledger!Next]_(Ledger!ledger) => Ledger!Kept'
<1> DEFINE open   == device
           book   == KeysOf(conf)
           served == DOMAIN live
           acked  == {k \in Keys : status[k] = "acked"}
           struck == {k \in Keys : status[k] = "denied"}
<1>1. SUFFICES ASSUME Ledger!Kept, [Ledger!Next]_(Ledger!ledger) PROVE Ledger!Kept'
    OBVIOUS
<1>2. /\ book \subseteq Keys /\ acked \subseteq book
      /\ open => acked \subseteq served
      /\ struck \cap (book \cup served) = {}
    BY <1>1 DEF Ledger!Kept
<1> DEFINE Good == /\ book' \subseteq Keys /\ acked' \subseteq book'
                   /\ open' => acked' \subseteq served'
                   /\ struck' \cap (book' \cup served') = {}
<1>3. SUFFICES Good
    BY DEF Ledger!Kept
<1>4. ASSUME NEW k \in Keys, Ledger!Admit(k) PROVE Good
    <2>1. /\ open /\ k \notin struck /\ served' = served \cup {k}
          /\ open' = open /\ book' = book /\ acked' = acked /\ struck' = struck
        BY <1>4 DEF Ledger!Admit
    <2> HIDE DEF open, book, served, acked, struck
    <2>2. QED
        BY <1>2, <2>1
<1>5. ASSUME NEW k \in Keys, Ledger!Record(k) PROVE Good
    <2>1. /\ k \notin struck /\ book' = book \cup {k}
          /\ open' = open /\ served' = served /\ acked' = acked /\ struck' = struck
        BY <1>5 DEF Ledger!Record
    <2> HIDE DEF open, book, served, acked, struck
    <2>2. QED
        BY <1>2, <2>1
<1>6. ASSUME NEW k \in Keys, Ledger!Confirm(k) PROVE Good
    <2>1. /\ k \in book /\ (open => k \in served) /\ acked' = acked \cup {k}
          /\ open' = open /\ book' = book /\ served' = served /\ struck' = struck
        BY <1>6 DEF Ledger!Confirm
    <2> HIDE DEF open, book, served, acked, struck
    <2>2. QED
        BY <1>2, <2>1
<1>7. ASSUME NEW k \in Keys, Ledger!Cut(k) PROVE Good
    <2>1. /\ served' = served \ {k} /\ acked' = acked \ {k}
          /\ open' = open /\ book' = book /\ struck' = struck
        BY <1>7 DEF Ledger!Cut
    <2> HIDE DEF open, book, served, acked, struck
    <2>2. QED
        BY <1>2, <2>1
<1>8. ASSUME NEW k \in Keys, Ledger!Strike(k) PROVE Good
    <2>1. /\ k \notin served /\ k \notin acked /\ book' = book \ {k} /\ struck' = struck \cup {k}
          /\ open' = open /\ served' = served /\ acked' = acked
        BY <1>8 DEF Ledger!Strike
    <2> HIDE DEF open, book, served, acked, struck
    <2>2. QED
        BY <1>2, <2>1
<1>9. CASE Ledger!Stop
    <2>1. /\ ~ open' /\ served' = {} /\ acked' = acked /\ struck' = struck
          /\ \E K \in SUBSET (Keys \ struck) : book' = book \cup K
        BY <1>9 DEF Ledger!Stop
    <2> HIDE DEF open, book, served, acked, struck
    <2>2. QED
        BY <1>2, <2>1
<1>10. CASE Ledger!Start
    <2>1. served' = book /\ book' = book /\ acked' = acked /\ struck' = struck
        BY <1>10 DEF Ledger!Start
    <2> HIDE DEF open, book, served, acked, struck
    <2>2. QED
        BY <1>2, <2>1
<1>11. CASE UNCHANGED Ledger!ledger
    <2>1. /\ open' = open /\ book' = book /\ served' = served
          /\ acked' = acked /\ struck' = struck
        BY <1>11 DEF Ledger!ledger
    <2> HIDE DEF open, book, served, acked, struck
    <2>2. QED
        BY <1>2, <2>1
<1>12. QED
    BY <1>1, <1>4, <1>5, <1>6, <1>7, <1>8, <1>9, <1>10, <1>11 DEF Ledger!Next

(* What the ledger promises is therefore true of file and device: a        *)
(* confirmed peer is on record and, while the tunnel runs, has access; a   *)
(* removed one has neither (Manager.Add, Manager.Remove).                  *)
THEOREM ManagerKeepsPromise == Spec => []Ledger!Kept
<1>1. Ledger!Init => Ledger!Kept
    BY DEF Ledger!Init, Ledger!Kept
<1>2. Ledger!Spec => []Ledger!Kept
    BY <1>1, LedgerStep, PTL DEF Ledger!Spec
<1>3. QED
    BY <1>2, ManagerKeepsLedger, PTL DEF KeepsLedger
=============================================================================
