------------------------------ MODULE HubProofs ------------------------------
(***************************************************************************)
(* Theorems about relay.Hub: StatusFanout, for any number of sessions and  *)
(* connections and any capacity of their channels; and, below, PushTokens, *)
(* for any tokens, any length of the device list and any number of pushes. *)
(***************************************************************************)
EXTENDS StatusFanout, PushTokens, SequenceTheorems, WellFoundedInduction, TLAPS

(* The changes that are still to be published are those of the last        *)
(* snapshot, and nothing is on its way to an app that is not connected.    *)
TodoInv  == \A change \in todo : seen[change[1]] = change[2]
FreshInv == \A c \in Clients \ clients : channel[c] = <<>> /\ written[c] = 0

(* What an app will show of n when all that is on its way has arrived: the *)
(* last change of n in it, or else what it shows now.                      *)
Mentions(c, n) == {i \in 1 .. Len(channel[c]) : channel[c][i][1] = n}
Agrees(c, n) ==
    /\ \A i \in Mentions(c, n) :
          (\A j \in Mentions(c, n) : j <= i) => seen[n] \in {"none", channel[c][i][2]}
    /\ Mentions(c, n) = {} => shown[c][n] = "none" \/ seen[n] \in {"none", shown[c][n]}

Pending(n) == \E change \in todo : change[1] = n
ShownInv ==
    \A c \in Clients, n \in Names : n \in lost[c] \/ Pending(n) \/ Agrees(c, n)

IInv == TypeOK /\ TodoInv /\ FreshInv /\ ShownInv

-----------------------------------------------------------------------------
Change == Names \X States

(* A bounded sequence is a sequence within the bound.                      *)
LEMMA Bounded ==
    ASSUME NEW S, NEW n \in Nat, NEW s
    PROVE  s \in BoundedSeq(S, n) <=> s \in Seq(S) /\ Len(s) <= n
<1>1. ASSUME s \in BoundedSeq(S, n) PROVE s \in Seq(S) /\ Len(s) <= n
    <2>1. PICK m \in 0 .. n : s \in [1 .. m -> S]
        BY <1>1 DEF BoundedSeq, SeqOf
    <2>2. QED
        BY <2>1
<1>2. ASSUME s \in Seq(S), Len(s) <= n PROVE s \in BoundedSeq(S, n)
    <2>1. Len(s) \in 0 .. n /\ s \in [1 .. Len(s) -> S]
        BY <1>2
    <2>2. QED
        BY <2>1 DEF BoundedSeq, SeqOf
<1>3. QED
    BY <1>1, <1>2

(* A channel is a sequence of changes, no longer than its capacity and     *)
(* those that have left it.                                                *)
LEMMA Channels ==
    ASSUME TypeOK, NEW c \in Clients
    PROVE  /\ channel[c] \in Seq(Change) /\ Len(channel[c]) \in Nat
           /\ written[c] \in Nat /\ written[c] <= Wire
           /\ written[c] <= Len(channel[c]) /\ Len(channel[c]) <= Buffer + written[c]
<1>1. channel[c] \in BoundedSeq(Change, Buffer + Wire) /\ Buffer + Wire \in Nat
    <2>1. channel \in [Clients -> BoundedSeq(Change, Buffer + Wire)]
        BY Zenon DEF TypeOK, Change
    <2>2. QED
        BY <2>1, FanoutAssumption
<1>2. channel[c] \in Seq(Change) /\ Len(channel[c]) \in Nat
    BY <1>1, Bounded
<1>3. written[c] \in 0 .. Wire /\ Len(channel[c]) \in written[c] .. Buffer + written[c]
    BY DEF TypeOK
<1>4. QED
    BY <1>2, <1>3, FanoutAssumption

(* The converse, for a step that changes them.                             *)
LEMMA ChannelsTyped ==
    ASSUME DOMAIN channel' = Clients, DOMAIN written' = Clients,
           channel' = [c \in Clients |-> channel'[c]],
           written' = [c \in Clients |-> written'[c]],
           \A c \in Clients :
               /\ channel'[c] \in Seq(Change) /\ written'[c] \in 0 .. Wire
               /\ Len(channel'[c]) \in written'[c] .. Buffer + written'[c]
    PROVE  /\ channel' \in [Clients -> BoundedSeq(Names \X States, Buffer + Wire)]
           /\ written' \in [Clients -> 0 .. Wire]
           /\ \A c \in Clients : Len(channel'[c]) \in written'[c] .. Buffer + written'[c]
<1>1. ASSUME NEW c \in Clients
      PROVE  channel'[c] \in BoundedSeq(Change, Buffer + Wire)
    <2>1. /\ channel'[c] \in Seq(Change) /\ Len(channel'[c]) <= Buffer + Wire
          /\ Buffer + Wire \in Nat
        BY FanoutAssumption
    <2>2. QED
        BY <2>1, Bounded
<1>2. QED
    BY <1>1 DEF Change

LEMMA InitIInv == Init => IInv
<1>1. SUFFICES ASSUME Init PROVE IInv
    OBVIOUS
<1>2. /\ <<>> \in BoundedSeq(Change, Buffer + Wire)
      /\ 0 \in 0 .. Wire /\ Len(<<>>) \in 0 .. Buffer + 0
    <2>1. /\ <<>> \in Seq(Change) /\ Len(<<>>) <= Buffer + Wire /\ Buffer + Wire \in Nat
          /\ 0 \in 0 .. Wire /\ Len(<<>>) \in 0 .. Buffer + 0
        BY FanoutAssumption
    <2>2. QED
        BY <2>1, Bounded
<1>3. TypeOK
    BY <1>1, <1>2 DEF Init, TypeOK, Unknown, Seen, States, Change
<1>4. ShownInv
    BY <1>1 DEF Init, ShownInv, Agrees, Mentions, Unknown
<1>5. QED
    BY <1>1, <1>3, <1>4 DEF Init, IInv, TodoInv, FreshInv

(* Agreement is about the channel, the screen and the tracker only.        *)
LEMMA AgreesKept ==
    ASSUME NEW c, NEW n, Agrees(c, n), channel'[c] = channel[c], shown'[c] = shown[c],
           seen'[n] \in {"none", seen[n]}
    PROVE  Agrees(c, n)'
BY DEF Agrees, Mentions

LEMMA TmuxStep ==
    ASSUME NEW n \in Names, IInv, Tmux(n)
    PROVE  IInv'
<1>1. TypeOK'
    BY DEF IInv, TypeOK, Tmux, Seen, States
<1>2. TodoInv' /\ FreshInv' /\ ShownInv'
    BY DEF IInv, TodoInv, FreshInv, ShownInv, Tmux, Agrees, Mentions, Pending
<1>3. QED
    BY <1>1, <1>2 DEF IInv

(* A session whose state changed is pending; the others keep theirs or are *)
(* forgotten.                                                              *)
LEMMA PollStep ==
    ASSUME IInv, Poll
    PROVE  IInv'
<1>1. PICK snapshot \in {tmux, Unknown} : todo' = Changes(snapshot) /\ seen' = snapshot
    BY DEF Poll
<1>2. /\ snapshot \in [Names -> Seen]
      /\ todo = {} /\ UNCHANGED <<tmux, clients, channel, written, shown, lost>>
    BY DEF Poll, IInv, TypeOK, Unknown, Seen
<1>3. todo' \subseteq Change /\ \A change \in todo' : snapshot[change[1]] = change[2]
    BY <1>1, <1>2 DEF Changes, Change, Seen
<1>4. \A n \in Names : Pending(n)' \/ seen'[n] \in {"none", seen[n]}
    <2>1. SUFFICES ASSUME NEW n \in Names, snapshot[n] \notin {"none", seen[n]} PROVE Pending(n)'
        BY <1>1
    <2>2. <<n, snapshot[n]>> \in Changes(snapshot)
        BY <2>1 DEF Changes
    <2>3. QED
        BY <1>1, <2>2 DEF Pending
<1>5. TypeOK'
    BY <1>1, <1>2, <1>3 DEF IInv, TypeOK, Change
<1>6. TodoInv' /\ FreshInv'
    BY <1>1, <1>2, <1>3 DEF IInv, TodoInv, FreshInv
<1>7. ShownInv'
    <2>1. ASSUME NEW c \in Clients, NEW n \in Names, n \notin lost[c], ~ Pending(n)'
          PROVE  Agrees(c, n)'
        <3>1. ~ Pending(n)
            BY <1>2 DEF Pending
        <3>2. Agrees(c, n)
            BY <2>1, <3>1 DEF IInv, ShownInv
        <3>3. QED
            BY <1>2, <1>4, <2>1, <3>2, AgreesKept
    <2>2. QED
        BY <1>2, <2>1 DEF ShownInv
<1>8. QED
    BY <1>5, <1>6, <1>7 DEF IInv

(* A published change is the last one of its session in each channel that  *)
(* took it, and lost to the others.                                        *)
LEMMA PublishStep ==
    ASSUME NEW change \in todo, IInv, PublishStatus(change)
    PROVE  IInv'
<1> DEFINE n == change[1]
<1>1. change \in Change /\ n \in Names /\ change[2] \in States /\ seen[n] = change[2]
    BY DEF IInv, TypeOK, TodoInv, Change
<1>2. /\ todo' = todo \ {change} /\ UNCHANGED <<tmux, seen, clients, written, shown>>
      /\ channel' = [c \in Clients |->
             IF c \in clients /\ Room(c) THEN Append(channel[c], change) ELSE channel[c]]
      /\ lost' = [c \in Clients |->
             IF c \in clients /\ Room(c) THEN lost[c] \ {n} ELSE lost[c] \cup {n}]
    BY DEF PublishStatus
<1>3. ASSUME NEW c \in Clients
      PROVE  /\ channel'[c] \in Seq(Change) /\ written'[c] \in 0 .. Wire
             /\ Len(channel'[c]) \in written'[c] .. Buffer + written'[c]
    <2>1. /\ channel[c] \in Seq(Change) /\ Len(channel[c]) \in Nat
          /\ written[c] \in Nat /\ written[c] <= Wire
          /\ written[c] <= Len(channel[c]) /\ Len(channel[c]) <= Buffer + written[c]
          /\ Buffer \in Nat /\ Wire \in Nat
        BY Channels, FanoutAssumption DEF IInv
    <2>2. written'[c] = written[c] /\ written[c] \in 0 .. Wire
        BY <1>2, <2>1
    <2>3. CASE channel'[c] = channel[c]
        BY <2>1, <2>2, <2>3
    <2>4. CASE channel'[c] = Append(channel[c], change) /\ Len(channel[c]) < Buffer + written[c]
        BY <1>1, <2>1, <2>2, <2>4
    <2>5. QED
        BY <1>2, <2>3, <2>4 DEF Room
<1>4. TypeOK'
    <2>1. written' = [c \in Clients |-> written'[c]]
        BY <1>2 DEF IInv, TypeOK
    <2>2. /\ channel' \in [Clients -> BoundedSeq(Names \X States, Buffer + Wire)]
          /\ written' \in [Clients -> 0 .. Wire]
          /\ \A c \in Clients : Len(channel'[c]) \in written'[c] .. Buffer + written'[c]
        BY <1>2, <1>3, <2>1, ChannelsTyped
    <2>3. QED
        BY <1>1, <1>2, <2>2 DEF IInv, TypeOK
<1>5. TodoInv'
    BY <1>2 DEF IInv, TodoInv
<1>6. FreshInv'
    BY <1>2 DEF IInv, TypeOK, FreshInv
<1>7. ShownInv'
    <2>1. SUFFICES ASSUME NEW c \in Clients, NEW m \in Names, m \notin lost'[c], ~ Pending(m)'
                   PROVE  Agrees(c, m)'
        BY DEF ShownInv
    <2>2. channel[c] \in Seq(Change) /\ Len(channel[c]) \in Nat
        BY Channels DEF IInv
    <2>3. CASE m = n
        <3>1. channel'[c] = Append(channel[c], change)
            BY <1>2, <2>1, <2>3
        <3>2. Len(channel'[c]) = Len(channel[c]) + 1 /\ channel'[c][Len(channel[c]) + 1] = change
            BY <1>1, <2>2, <3>1
        <3>3. Len(channel[c]) + 1 \in Mentions(c, m)'
            BY <2>2, <2>3, <3>2 DEF Mentions
        <3>4. \A i \in Mentions(c, m)' : Len(channel[c]) + 1 <= i => i = Len(channel[c]) + 1
            BY <2>2, <3>2 DEF Mentions
        <3>5. seen'[m] = channel'[c][Len(channel[c]) + 1][2]
            BY <1>1, <1>2, <2>3, <3>2
        <3>6. QED
            BY <3>3, <3>4, <3>5 DEF Agrees
    <2>4. CASE m # n
        <3>1. m \notin lost[c] /\ ~ Pending(m)
            BY <1>2, <2>1, <2>4 DEF Pending
        <3>2. Agrees(c, m)
            BY <3>1 DEF IInv, ShownInv
        <3>3. Mentions(c, m)' = Mentions(c, m) /\ \A i \in Mentions(c, m) : channel'[c][i] = channel[c][i]
            <4>1. CASE channel'[c] = channel[c]
                BY <4>1 DEF Mentions
            <4>2. CASE channel'[c] = Append(channel[c], change)
                BY <1>1, <2>2, <2>4, <4>2 DEF Mentions
            <4>3. QED
                BY <1>2, <4>1, <4>2
        <3>4. QED
            BY <1>2, <3>2, <3>3 DEF Agrees
    <2>5. QED
        BY <2>3, <2>4
<1>8. QED
    BY <1>4, <1>5, <1>6, <1>7 DEF IInv

LEMMA RegisterStep ==
    ASSUME NEW c \in Clients, IInv, RegisterClient(c)
    PROVE  IInv'
<1>1. TypeOK' /\ TodoInv' /\ FreshInv'
    BY DEF IInv, TypeOK, TodoInv, FreshInv, RegisterClient
<1>2. ShownInv'
    BY DEF IInv, ShownInv, Pending, Agrees, Mentions, RegisterClient
<1>3. QED
    BY <1>1, <1>2 DEF IInv

(* What was on its way to the app is lost.                                 *)
LEMMA UnregisterStep ==
    ASSUME NEW c \in Clients, IInv, UnregisterClient(c)
    PROVE  IInv'
<1>1. /\ clients' = clients \ {c} /\ UNCHANGED <<tmux, seen, todo, shown>>
      /\ channel' = [channel EXCEPT ![c] = <<>>]
      /\ written' = [written EXCEPT ![c] = 0]
      /\ lost' = [lost EXCEPT ![c] = @ \cup {channel[c][i][1] : i \in DOMAIN channel[c]}]
    BY DEF UnregisterClient
<1>2. /\ channel'[c] = <<>> /\ written'[c] = 0
      /\ \A d \in Clients \ {c} : channel'[d] = channel[d] /\ written'[d] = written[d]
                                /\ lost'[d] = lost[d]
      /\ lost'[c] = lost[c] \cup {channel[c][i][1] : i \in DOMAIN channel[c]}
    BY <1>1 DEF IInv, TypeOK
<1>3. TypeOK'
    <2>1. ASSUME NEW d \in Clients
          PROVE  /\ channel'[d] \in Seq(Change) /\ written'[d] \in 0 .. Wire
                 /\ Len(channel'[d]) \in written'[d] .. Buffer + written'[d]
        <3>1. CASE d = c
            <4>1. /\ <<>> \in Seq(Change) /\ 0 \in 0 .. Wire
                  /\ Len(<<>>) \in 0 .. Buffer + 0
                BY FanoutAssumption
            <4>2. QED
                BY <1>2, <3>1, <4>1
        <3>2. CASE d # c
            BY <1>2, <3>2, Channels, FanoutAssumption DEF IInv
        <3>3. QED
            BY <3>1, <3>2
    <2>2. /\ channel' = [d \in Clients |-> channel'[d]]
          /\ written' = [d \in Clients |-> written'[d]]
        BY <1>1 DEF IInv, TypeOK
    <2>3. /\ channel' \in [Clients -> BoundedSeq(Names \X States, Buffer + Wire)]
          /\ written' \in [Clients -> 0 .. Wire]
          /\ \A d \in Clients : Len(channel'[d]) \in written'[d] .. Buffer + written'[d]
        BY <2>1, <2>2, ChannelsTyped
    <2>4. lost' \in [Clients -> SUBSET Names]
        <3>1. \A i \in DOMAIN channel[c] : channel[c][i][1] \in Names
            BY Channels DEF IInv, Change
        <3>2. lost'[c] \subseteq Names
            BY <1>2, <3>1 DEF IInv, TypeOK
        <3>3. QED
            BY <1>1, <1>2, <3>2 DEF IInv, TypeOK
    <2>5. QED
        BY <1>1, <2>3, <2>4 DEF IInv, TypeOK
<1>4. TodoInv' /\ FreshInv'
    BY <1>1, <1>2 DEF IInv, TypeOK, TodoInv, FreshInv
<1>5. ShownInv'
    <2>1. ASSUME NEW d \in Clients, NEW n \in Names, n \notin lost'[d], ~ Pending(n)'
          PROVE  Agrees(d, n)'
        <3>1. n \notin lost[d] /\ ~ Pending(n)
            BY <1>1, <1>2, <2>1 DEF Pending
        <3>2. Agrees(d, n)
            BY <3>1 DEF IInv, ShownInv
        <3>3. CASE d # c
            BY <1>1, <1>2, <3>2, <3>3, AgreesKept
        <3>4. CASE d = c
            <4>1. Mentions(c, n) = {}
                <5>1. DOMAIN channel[c] = 1 .. Len(channel[c])
                    BY Channels DEF IInv
                <5>2. QED
                    BY <1>2, <2>1, <3>4, <5>1 DEF Mentions
            <4>2. Mentions(c, n)' = {}
                BY <1>2 DEF Mentions
            <4>3. QED
                BY <1>1, <3>2, <3>4, <4>1, <4>2 DEF Agrees
        <3>5. QED
            BY <3>3, <3>4
    <2>2. QED
        BY <2>1 DEF ShownInv
<1>6. QED
    BY <1>3, <1>4, <1>5 DEF IInv

LEMMA WriteStep ==
    ASSUME NEW c \in Clients, IInv, Write(c)
    PROVE  IInv'
<1>1. /\ written' = [written EXCEPT ![c] = @ + 1]
      /\ c \in clients /\ written[c] < Wire /\ written[c] < Len(channel[c])
      /\ UNCHANGED <<tmux, seen, todo, clients, channel, shown, lost>>
    BY DEF Write
<1>2. TypeOK'
    <2>1. ASSUME NEW d \in Clients
          PROVE  /\ written'[d] \in 0 .. Wire
                 /\ Len(channel[d]) \in written'[d] .. Buffer + written'[d]
        <3>1. /\ Len(channel[d]) \in Nat /\ written[d] \in Nat /\ written[d] <= Wire
              /\ written[d] <= Len(channel[d]) /\ Len(channel[d]) <= Buffer + written[d]
              /\ Buffer \in Nat /\ Wire \in Nat
            BY Channels, FanoutAssumption DEF IInv
        <3>2. written'[d] = IF d = c THEN written[c] + 1 ELSE written[d]
            BY <1>1 DEF IInv, TypeOK
        <3>3. QED
            BY <1>1, <3>1, <3>2
    <2>2. written' \in [Clients -> 0 .. Wire]
        BY <1>1, <2>1 DEF IInv, TypeOK
    <2>3. QED
        BY <1>1, <2>1, <2>2 DEF IInv, TypeOK
<1>3. TodoInv' /\ FreshInv'
    BY <1>1 DEF IInv, TypeOK, TodoInv, FreshInv
<1>4. ShownInv'
    BY <1>1 DEF IInv, ShownInv, Pending, Agrees, Mentions
<1>5. QED
    BY <1>2, <1>3, <1>4 DEF IInv

(* The oldest change goes from the way to the screen.                      *)
LEMMA ArrivesStep ==
    ASSUME NEW c \in Clients, IInv, Arrives(c)
    PROVE  IInv'
<1> DEFINE q == channel[c]
           n == Head(q)[1]
<1>1. /\ q \in Seq(Change) /\ Len(q) \in Nat /\ q # <<>>
      /\ written[c] \in Nat /\ written[c] > 0 /\ written[c] <= Wire
      /\ written[c] <= Len(q) /\ Len(q) <= Buffer + written[c]
      /\ Buffer \in Nat /\ Wire \in Nat
    BY Channels, FanoutAssumption DEF IInv, Arrives
<1>2. /\ Head(q) = q[1] /\ Head(q) \in Change /\ n \in Names /\ q[1][2] \in Seen
      /\ Tail(q) \in Seq(Change) /\ Len(Tail(q)) = Len(q) - 1 /\ Len(q) >= 1
      /\ \A i \in 1 .. Len(Tail(q)) : Tail(q)[i] = q[i + 1]
    BY <1>1 DEF Change, Seen
<1>3. /\ shown' = [shown EXCEPT ![c][n] = q[1][2]]
      /\ channel' = [channel EXCEPT ![c] = Tail(q)]
      /\ written' = [written EXCEPT ![c] = @ - 1]
      /\ UNCHANGED <<tmux, seen, todo, clients, lost>> /\ c \in clients
    BY <1>2 DEF Arrives
<1>4. TypeOK'
    <2>1. ASSUME NEW d \in Clients
          PROVE  /\ channel'[d] \in Seq(Change) /\ written'[d] \in 0 .. Wire
                 /\ Len(channel'[d]) \in written'[d] .. Buffer + written'[d]
        <3>1. CASE d = c
            <4>1. channel'[c] = Tail(q) /\ written'[c] = written[c] - 1
                BY <1>3 DEF IInv, TypeOK
            <4>2. QED
                BY <1>1, <1>2, <3>1, <4>1
        <3>2. CASE d # c
            <4>1. channel'[d] = channel[d] /\ written'[d] = written[d]
                BY <1>3, <3>2 DEF IInv, TypeOK
            <4>2. QED
                BY <4>1, Channels, FanoutAssumption DEF IInv
        <3>3. QED
            BY <3>1, <3>2
    <2>2. /\ channel' = [d \in Clients |-> channel'[d]]
          /\ written' = [d \in Clients |-> written'[d]]
        BY <1>3 DEF IInv, TypeOK
    <2>3. /\ channel' \in [Clients -> BoundedSeq(Names \X States, Buffer + Wire)]
          /\ written' \in [Clients -> 0 .. Wire]
          /\ \A d \in Clients : Len(channel'[d]) \in written'[d] .. Buffer + written'[d]
        BY <2>1, <2>2, ChannelsTyped
    <2>4. shown' \in [Clients -> [Names -> Seen]]
        BY <1>2, <1>3 DEF IInv, TypeOK
    <2>5. QED
        BY <1>3, <2>3, <2>4 DEF IInv, TypeOK
<1>5. TodoInv' /\ FreshInv'
    BY <1>3 DEF IInv, TypeOK, TodoInv, FreshInv
<1>6. channel'[c] = Tail(q) /\ shown'[c] = [shown[c] EXCEPT ![n] = q[1][2]] /\ shown[c] \in [Names -> Seen]
    BY <1>3 DEF IInv, TypeOK
<1>7. ASSUME NEW m \in Names, Agrees(c, m) PROVE Agrees(c, m)'
    <2>1. \A i \in 1 .. Len(q) - 1 : i \in Mentions(c, m)' <=> i + 1 \in Mentions(c, m)
        BY <1>1, <1>2, <1>6 DEF Mentions
    <2>2. Mentions(c, m)' \subseteq 1 .. Len(q) - 1 /\ Mentions(c, m) \subseteq 1 .. Len(q)
        BY <1>1, <1>2, <1>6 DEF Mentions
    <2>3. ASSUME NEW i \in Mentions(c, m)', \A j \in Mentions(c, m)' : j <= i
          PROVE  seen'[m] \in {"none", channel'[c][i][2]}
        <3>1. i + 1 \in Mentions(c, m) /\ channel'[c][i] = channel[c][i + 1] /\ i \in Nat /\ i >= 1
            BY <1>1, <1>2, <1>6, <2>1, <2>2
        <3>2. ASSUME NEW j \in Mentions(c, m) PROVE j <= i + 1
            <4>1. j \in Nat /\ j >= 1 /\ j <= Len(q)
                BY <1>1, <2>2
            <4>2. CASE j = 1
                BY <3>1, <4>2
            <4>3. CASE j > 1
                <5>1. j - 1 \in 1 .. Len(q) - 1 /\ (j - 1) + 1 = j
                    BY <1>1, <4>1, <4>3
                <5>2. j - 1 \in Mentions(c, m)'
                    BY <2>1, <3>2, <5>1
                <5>3. QED
                    BY <2>3, <3>1, <4>1, <5>2
            <4>4. QED
                BY <4>1, <4>2, <4>3
        <3>3. QED
            BY <1>3, <1>7, <3>1, <3>2 DEF Agrees
    <2>4. ASSUME Mentions(c, m)' = {}
          PROVE  shown'[c][m] = "none" \/ seen'[m] \in {"none", shown'[c][m]}
        <3>1. \A j \in Mentions(c, m) : j = 1
            <4>1. SUFFICES ASSUME NEW j \in Mentions(c, m), j # 1 PROVE FALSE
                OBVIOUS
            <4>2. j - 1 \in 1 .. Len(q) - 1 /\ (j - 1) + 1 = j
                BY <1>1, <2>2, <4>1
            <4>3. QED
                BY <2>1, <2>4, <4>1, <4>2
        <3>2. CASE m = n
            <4>1. 1 \in Mentions(c, m)
                BY <1>1, <1>2, <3>2 DEF Mentions
            <4>2. seen[m] \in {"none", q[1][2]}
                BY <1>7, <3>1, <4>1 DEF Agrees
            <4>3. shown'[c][m] = q[1][2]
                BY <1>6, <3>2
            <4>4. QED
                BY <1>3, <4>2, <4>3
        <3>3. CASE m # n
            <4>1. Mentions(c, m) = {}
                BY <1>2, <3>1, <3>3 DEF Mentions
            <4>2. shown'[c][m] = shown[c][m]
                BY <1>6, <3>3
            <4>3. QED
                BY <1>3, <1>7, <4>1, <4>2 DEF Agrees
        <3>4. QED
            BY <3>2, <3>3
    <2>5. QED
        BY <2>3, <2>4 DEF Agrees
<1>8. ShownInv'
    <2>1. ASSUME NEW d \in Clients, NEW m \in Names, m \notin lost[d], ~ Pending(m)
          PROVE  Agrees(d, m)'
        <3>1. Agrees(d, m)
            BY <2>1 DEF IInv, ShownInv
        <3>2. CASE d = c
            BY <1>7, <3>1, <3>2
        <3>3. CASE d # c
            <4>1. channel'[d] = channel[d] /\ shown'[d] = shown[d]
                BY <1>3, <3>3 DEF IInv, TypeOK
            <4>2. QED
                BY <1>3, <3>1, <4>1, AgreesKept
        <3>4. QED
            BY <3>2, <3>3
    <2>2. QED
        BY <1>3, <2>1 DEF ShownInv, Pending
<1>9. QED
    BY <1>4, <1>5, <1>8 DEF IInv

-----------------------------------------------------------------------------
LEMMA NextIInv == IInv /\ [Next]_vars => IInv'
<1>1. SUFFICES ASSUME IInv, [Next]_vars PROVE IInv'
    OBVIOUS
<1>2. CASE UNCHANGED vars
    <2> USE <1>1, <1>2 DEF vars, IInv
    <2>1. TypeOK' /\ TodoInv' /\ FreshInv'
        BY DEF TypeOK, TodoInv, FreshInv
    <2>2. ShownInv'
        BY DEF ShownInv, Agrees, Mentions, Pending
    <2>3. QED
        BY <2>1, <2>2
<1>3. QED
    BY <1>1, <1>2, TmuxStep, PollStep, PublishStep, RegisterStep, UnregisterStep, WriteStep,
       ArrivesStep, Zenon
       DEF Next

LEMMA AlwaysIInv == Spec => []IInv
<1>1. QED
    BY InitIInv, NextIInv, PTL DEF Spec

(* Every variable of the fan-out keeps its type, and a channel its         *)
(* capacity (the select with a default in PublishStatus).                  *)
THEOREM FanoutTypes == Spec => []TypeOK
<1>1. IInv => TypeOK
    BY DEF IInv
<1>2. QED
    BY <1>1, AlwaysIInv, PTL

(* When nothing is on its way to it, an app shows no state of a session    *)
(* but the tracker's, unless that session's last change did not reach it   *)
(* (PublishStatus, UnregisterClient), on this connection or an earlier one.*)
THEOREM ScreenIsCurrent == Spec => []ShownIsSeen
<1>1. ASSUME IInv PROVE ShownIsSeen
    <2>1. SUFFICES ASSUME NEW c \in Clients, NEW n \in Names,
                          todo = {}, channel[c] = <<>>, n \notin lost[c]
                   PROVE  shown[c][n] = "none" \/ seen[n] \in {"none", shown[c][n]}
        BY DEF ShownIsSeen
    <2>2. Agrees(c, n) /\ Mentions(c, n) = {}
        BY <1>1, <2>1 DEF IInv, ShownInv, Pending, Mentions
    <2>3. QED
        BY <2>2 DEF Agrees
<1>2. QED
    BY <1>1, AlwaysIInv, PTL

-----------------------------------------------------------------------------
(***************************************************************************)
(* PushTokens.                                                             *)
(***************************************************************************)
(* The first place of a value in a sequence is one of its places.          *)
LEMMA FirstPlace ==
    ASSUME NEW S, NEW s \in Seq(S), NEW e, Contains(s, e)
    PROVE  \E i \in 1 .. Len(s) : s[i] = e /\ RemoveFirst(s, e) = RemoveAt(s, i)
<1> DEFINE I == {i \in 1 .. Len(s) : s[i] = e}
<1>1. I # {} /\ I \subseteq Nat
    BY DEF Contains
<1>2. PICK i \in I : \A j \in I : ~ (<<j, i>> \in OpToRel(<, Nat))
    BY <1>1, WFMin, NatLessThanWellFounded
<1>3. \A j \in I : ~ (j < i)
    BY <1>1, <1>2, Zenon DEF OpToRel
<1>4. \A j \in I : i <= j
    BY <1>1, <1>3
<1>5. Min(I) \in I
    BY <1>1, <1>4 DEF Min
<1>6. RemoveFirst(s, e) = RemoveAt(s, Min(I))
    BY <1>1 DEF RemoveFirst, SelectInSeq, Contains
<1>7. QED
    BY <1>5, <1>6

(* What taking one place out of a sequence leaves.                         *)
LEMMA RemoveAtLeaves ==
    ASSUME NEW S, NEW s \in Seq(S), NEW i \in 1 .. Len(s)
    PROVE  /\ RemoveAt(s, i) \in Seq(S)
           /\ Len(RemoveAt(s, i)) = Len(s) - 1
           /\ \A j \in 1 .. Len(s) - 1 : RemoveAt(s, i)[j] = s[IF j < i THEN j ELSE j + 1]
<1>1. Len(s) \in Nat /\ \A j \in 1 .. Len(s) : s[j] \in S
    OBVIOUS
<1> DEFINE a == SubSeq(s, 1, i - 1)
           b == SubSeq(s, i + 1, Len(s))
<1>2. a \in Seq(S) /\ Len(a) = i - 1 /\ \A j \in 1 .. i - 1 : a[j] = s[j]
    BY <1>1, SubSeqProperties
<1>3. b \in Seq(S) /\ Len(b) = Len(s) - i /\ \A j \in 1 .. Len(s) - i : b[j] = s[i + j]
    BY <1>1, SubSeqProperties
<1> HIDE DEF a, b
<1>4. /\ a \o b \in Seq(S) /\ Len(a \o b) = Len(s) - 1
      /\ \A j \in 1 .. Len(s) - 1 : (a \o b)[j] = IF j <= i - 1 THEN a[j] ELSE b[j - (i - 1)]
    <2>1. /\ a \o b \in Seq(S) /\ Len(a \o b) = Len(a) + Len(b)
          /\ \A j \in 1 .. Len(a) + Len(b) :
                (a \o b)[j] = IF j <= Len(a) THEN a[j] ELSE b[j - Len(a)]
        BY <1>2, <1>3, ConcatProperties, Zenon
    <2>2. Len(a) + Len(b) = Len(s) - 1
        BY <1>1, <1>2, <1>3
    <2>3. QED
        BY <1>2, <2>1, <2>2, Zenon
<1>5. ASSUME NEW j \in 1 .. Len(s) - 1
      PROVE  (a \o b)[j] = s[IF j < i THEN j ELSE j + 1]
    <2>1. CASE j < i
        BY <1>1, <1>2, <1>4, <2>1
    <2>2. CASE ~ (j < i)
        <3>1. j - (i - 1) \in 1 .. Len(s) - i /\ i + (j - (i - 1)) = j + 1
            BY <1>1, <2>2
        <3>2. b[j - (i - 1)] = s[j + 1]
            BY <1>3, <3>1
        <3>3. (a \o b)[j] = b[j - (i - 1)]
            BY <1>1, <1>4, <2>2
        <3>4. QED
            BY <2>2, <3>2, <3>3
    <2>3. QED
        BY <2>1, <2>2
<1>6. RemoveAt(s, i) = a \o b
    BY DEF RemoveAt, a, b
<1>7. QED
    BY <1>4, <1>5, <1>6

(* A list without repetition loses one token to RemoveFirst and no other.  *)
NoRepeat(s) == \A i, j \in 1 .. Len(s) : s[i] = s[j] => i = j

LEMMA RemoveFirstSpares ==
    ASSUME NEW S, NEW s \in Seq(S), NEW e, NoRepeat(s)
    PROVE  /\ RemoveFirst(s, e) \in Seq(S) /\ Len(RemoveFirst(s, e)) <= Len(s)
           /\ NoRepeat(RemoveFirst(s, e))
           /\ \A i \in 1 .. Len(s) : s[i] # e => Contains(RemoveFirst(s, e), s[i])
<1>1. CASE ~ Contains(s, e)
    <2>1. RemoveFirst(s, e) = s
        BY <1>1 DEF RemoveFirst, Contains
    <2>2. QED
        BY <2>1 DEF Contains
<1>2. CASE Contains(s, e)
    <2>1. PICK i \in 1 .. Len(s) : s[i] = e /\ RemoveFirst(s, e) = RemoveAt(s, i)
        BY <1>2, FirstPlace
    <2> DEFINE r == RemoveFirst(s, e)
    <2>2. /\ r \in Seq(S) /\ Len(r) = Len(s) - 1 /\ Len(s) \in Nat
          /\ \A j \in 1 .. Len(s) - 1 : r[j] = s[IF j < i THEN j ELSE j + 1]
        BY <2>1, RemoveAtLeaves
    <2> HIDE DEF r
    <2>3. NoRepeat(r)
        <3> SUFFICES ASSUME NEW j \in 1 .. Len(s) - 1, NEW k \in 1 .. Len(s) - 1, r[j] = r[k]
                     PROVE  j = k
            BY <2>2 DEF NoRepeat
        <3>1. s[IF j < i THEN j ELSE j + 1] = s[IF k < i THEN k ELSE k + 1]
            BY <2>2
        <3>2. (IF j < i THEN j ELSE j + 1) = (IF k < i THEN k ELSE k + 1)
            BY <2>2, <3>1 DEF NoRepeat
        <3>3. QED
            BY <2>2, <3>2
    <2>4. ASSUME NEW j \in 1 .. Len(s), s[j] # e PROVE Contains(r, s[j])
        <3>1. CASE j < i
            <4>1. j \in 1 .. Len(r) /\ r[j] = s[j]
                BY <2>2, <3>1
            <4>2. QED
                BY <4>1 DEF Contains
        <3>2. CASE j > i
            <4>1. j - 1 \in 1 .. Len(r) /\ ~ (j - 1 < i) /\ (j - 1) + 1 = j
                BY <2>2, <3>2
            <4>2. r[j - 1] = s[j]
                BY <2>2, <4>1
            <4>3. QED
                BY <4>1, <4>2 DEF Contains
        <3>3. QED
            BY <2>1, <2>4, <3>1, <3>2
    <2>5. Len(r) <= Len(s)
        BY <2>2
    <2>6. QED
        BY <2>2, <2>3, <2>4, <2>5 DEF r
<1>3. QED
    BY <1>1, <1>2

Alerts  == [token : Devices, place : 1 .. MaxDevices]
Updates == Sessions \X Activities

PushIInv ==
    /\ devices \in Seq(Devices) /\ Len(devices) <= MaxDevices /\ NoRepeat(devices)
    /\ activity \in [Sessions -> Activities \cup {NoToken}]
    /\ alerts \in Seq(Alerts) /\ updates \in Seq(Updates)
    /\ dead \subseteq Devices \cup Activities

LEMMA PushTyped == ASSUME PushIInv PROVE PushTypeOK
<1>1. devices \in BoundedSeq(Devices, MaxDevices)
    BY Bounded, PushAssumption DEF PushIInv
<1>2. IsInjective(devices)
    BY DEF PushIInv, NoRepeat, IsInjective
<1>3. \A i \in DOMAIN alerts : alerts[i].token \in Devices /\ alerts[i].place \in 1 .. MaxDevices
    <2>1. \A i \in DOMAIN alerts : alerts[i] \in Alerts
        BY DEF PushIInv
    <2>2. QED
        BY <2>1 DEF Alerts
<1>4. \A i \in DOMAIN updates : updates[i] \in Sessions \X Activities
    BY DEF PushIInv, Updates
<1>5. QED
    BY <1>1, <1>2, <1>3, <1>4 DEF PushIInv, PushTypeOK

LEMMA PushInitIInv == ASSUME PushInit PROVE PushIInv
BY PushAssumption DEF PushInit, PushIInv, NoRepeat

-----------------------------------------------------------------------------
(* The list after a registration: the new token, and the others but for    *)
(* the oldest of a full one.                                               *)
LEMMA RegisterDeviceList ==
    ASSUME PushIInv, NEW t \in Devices, RegisterDevice(t)
    PROVE  /\ devices' \in Seq(Devices) /\ Len(devices') <= MaxDevices /\ NoRepeat(devices')
           /\ \A i \in 1 .. Len(devices) :
                 Contains(devices', devices[i]) \/ (i = 1 /\ Len(devices) = MaxDevices)
<1>0. /\ devices \in Seq(Devices) /\ Len(devices) \in Nat /\ Len(devices) <= MaxDevices
      /\ NoRepeat(devices) /\ MaxDevices \in Nat \ {0}
    BY PushAssumption DEF PushIInv
<1>1. CASE Contains(devices, t)
    <2>1. devices' = devices
        BY <1>1 DEF RegisterDevice
    <2>2. QED
        BY <1>0, <2>1 DEF Contains
<1>2. CASE ~ Contains(devices, t) /\ Len(devices) < MaxDevices
    <2>1. devices' = Append(devices, t)
        BY <1>0, <1>2 DEF RegisterDevice
    <2>2. /\ devices' \in Seq(Devices) /\ Len(devices') = Len(devices) + 1
          /\ devices'[Len(devices) + 1] = t /\ \A i \in 1 .. Len(devices) : devices'[i] = devices[i]
        BY <1>0, <2>1
    <2>3. \A i \in 1 .. Len(devices) : devices[i] # t
        BY <1>2 DEF Contains
    <2>4. NoRepeat(devices')
        BY <1>0, <2>2, <2>3 DEF NoRepeat
    <2>5. \A i \in 1 .. Len(devices) : i \in 1 .. Len(devices') /\ devices'[i] = devices[i]
        BY <1>0, <2>2
    <2>6. QED
        BY <1>0, <1>2, <2>2, <2>4, <2>5 DEF Contains
<1>3. CASE ~ Contains(devices, t) /\ Len(devices) = MaxDevices
    <2> DEFINE n == Len(devices)
    <2>1. devices' = Append(Tail(devices), t)
        BY <1>0, <1>3 DEF RegisterDevice
    <2>2. /\ Tail(devices) \in Seq(Devices) /\ Len(Tail(devices)) = n - 1
          /\ \A i \in 1 .. n - 1 : Tail(devices)[i] = devices[i + 1]
        BY <1>0, <1>3
    <2>3. /\ devices' \in Seq(Devices) /\ Len(devices') = n /\ devices'[n] = t
          /\ \A i \in 1 .. n - 1 : devices'[i] = devices[i + 1]
        BY <1>0, <1>3, <2>1, <2>2
    <2>4. \A i \in 1 .. n : devices[i] # t
        BY <1>3 DEF Contains
    <2>5. NoRepeat(devices')
        <3> SUFFICES ASSUME NEW i \in 1 .. n, NEW j \in 1 .. n, devices'[i] = devices'[j] PROVE i = j
            BY <2>3 DEF NoRepeat
        <3>1. CASE i = n \/ j = n
            BY <1>0, <2>3, <2>4, <3>1
        <3>2. CASE i # n /\ j # n
            <4>1. i \in 1 .. n - 1 /\ j \in 1 .. n - 1 /\ devices[i + 1] = devices[j + 1]
                BY <1>0, <2>3, <3>2
            <4>2. QED
                BY <1>0, <4>1 DEF NoRepeat
        <3>3. QED
            BY <3>1, <3>2
    <2>6. ASSUME NEW i \in 1 .. n, i # 1 PROVE Contains(devices', devices[i])
        <3>1. i - 1 \in 1 .. n - 1 /\ i - 1 \in 1 .. n /\ (i - 1) + 1 = i
            BY <1>0, <2>6
        <3>2. devices'[i - 1] = devices[i]
            BY <2>3, <3>1
        <3>3. QED
            BY <2>3, <3>1, <3>2 DEF Contains
    <2>7. QED
        BY <1>0, <1>3, <2>3, <2>5, <2>6
<1>4. QED
    BY <1>0, <1>1, <1>2, <1>3

(* The list after an answer: only a dead token is missing.                 *)
LEMMA AlertAnsweredList ==
    ASSUME PushIInv, NEW k \in DOMAIN alerts, AlertAnswered(k)
    PROVE  /\ devices' \in Seq(Devices) /\ Len(devices') <= MaxDevices /\ NoRepeat(devices')
           /\ \A i \in 1 .. Len(devices) : devices[i] \in dead \/ Contains(devices', devices[i])
<1>0. devices \in Seq(Devices) /\ Len(devices) <= MaxDevices /\ NoRepeat(devices)
    BY DEF PushIInv
<1>1. PICK r \in SendResults(alerts[k].token) :
          devices' = IF r = "invalid" THEN WithoutToken(devices, alerts[k]) ELSE devices
    BY DEF AlertAnswered
<1>2. CASE r = "invalid"
    <2>1. alerts[k].token \in dead
        BY <1>1, <1>2 DEF SendResults
    <2>2. devices' = RemoveFirst(devices, alerts[k].token)
        BY <1>1, <1>2 DEF WithoutToken
    <2>3. /\ devices' \in Seq(Devices) /\ Len(devices') <= Len(devices) /\ NoRepeat(devices')
          /\ \A i \in 1 .. Len(devices) :
                devices[i] # alerts[k].token => Contains(devices', devices[i])
        BY <1>0, <2>2, RemoveFirstSpares
    <2>4. Len(devices') <= MaxDevices
        BY <1>0, <2>3, PushAssumption
    <2>5. QED
        BY <2>1, <2>3, <2>4
<1>3. CASE r # "invalid"
    BY <1>0, <1>1, <1>3 DEF Contains
<1>4. QED
    BY <1>2, <1>3

-----------------------------------------------------------------------------
(* The steps, one each.                                                    *)
LEMMA RegisterIInv ==
    ASSUME PushIInv,
           \/ \E t \in Devices : RegisterDevice(t)
           \/ \E n \in Sessions, t \in Activities \cup {NoToken} : RegisterActivity(n, t)
    PROVE  PushIInv'
<1>1. ASSUME NEW t \in Devices, RegisterDevice(t) PROVE PushIInv'
    <2>1. UNCHANGED <<activity, alerts, updates, dead>>
        BY <1>1 DEF RegisterDevice
    <2>2. QED
        BY <1>1, <2>1, RegisterDeviceList DEF PushIInv
<1>2. ASSUME NEW n \in Sessions, NEW t \in Activities \cup {NoToken}, RegisterActivity(n, t)
      PROVE  PushIInv'
    BY <1>2 DEF RegisterActivity, PushIInv, NoRepeat
<1>3. QED
    BY <1>1, <1>2

LEMMA SendIInv ==
    ASSUME PushIInv,
           SendAlert \/ \E n \in Sessions : PushLiveActivity(n)
    PROVE  PushIInv'
<1>1. CASE SendAlert
    <2> DEFINE new == [i \in DOMAIN devices |-> [token |-> devices[i], place |-> i]]
    <2>1. /\ DOMAIN devices = 1 .. Len(devices) /\ Len(devices) \in Nat /\ Len(devices) <= MaxDevices
          /\ MaxDevices \in Nat /\ \A i \in 1 .. Len(devices) : devices[i] \in Devices
        BY PushAssumption DEF PushIInv
    <2>2. \A i \in 1 .. Len(devices) : i \in 1 .. MaxDevices
        BY <2>1
    <2>3. \A i \in 1 .. Len(devices) : [token |-> devices[i], place |-> i] \in Alerts
        BY <2>1, <2>2 DEF Alerts
    <2>4. new \in Seq(Alerts)
        BY <2>1, <2>3
    <2>5. /\ alerts' = alerts \o new /\ UNCHANGED <<devices, activity, updates, dead>>
        BY <1>1 DEF SendAlert
    <2> HIDE DEF new
    <2>6. alerts' \in Seq(Alerts)
        BY <2>4, <2>5, ConcatProperties DEF PushIInv
    <2>7. QED
        BY <2>5, <2>6 DEF PushIInv, NoRepeat
<1>2. ASSUME NEW n \in Sessions, PushLiveActivity(n) PROVE PushIInv'
    <2>1. /\ updates' = Append(updates, <<n, activity[n]>>) /\ activity[n] # NoToken
          /\ UNCHANGED <<devices, activity, alerts, dead>>
        BY <1>2 DEF PushLiveActivity
    <2>2. <<n, activity[n]>> \in Updates
        BY <2>1 DEF PushIInv, Updates
    <2>3. updates' \in Seq(Updates)
        BY <2>1, <2>2 DEF PushIInv
    <2>4. QED
        BY <2>1, <2>3 DEF PushIInv, NoRepeat
<1>3. QED
    BY <1>1, <1>2

LEMMA AnswerIInv ==
    ASSUME PushIInv,
           \/ \E k \in DOMAIN alerts : AlertAnswered(k)
           \/ \E k \in DOMAIN updates : UpdateAnswered(k)
    PROVE  PushIInv'
<1>1. ASSUME NEW k \in DOMAIN alerts, AlertAnswered(k) PROVE PushIInv'
    <2>1. alerts' = RemoveAt(alerts, k) /\ UNCHANGED <<activity, updates, dead>>
        BY <1>1 DEF AlertAnswered
    <2>2. alerts \in Seq(Alerts) /\ k \in 1 .. Len(alerts)
        BY DEF PushIInv
    <2>3. alerts' \in Seq(Alerts)
        BY <2>1, <2>2, RemoveAtLeaves
    <2>4. QED
        BY <1>1, <2>1, <2>3, AlertAnsweredList DEF PushIInv
<1>2. ASSUME NEW k \in DOMAIN updates, UpdateAnswered(k) PROVE PushIInv'
    <2>1. /\ updates' = RemoveAt(updates, k) /\ UNCHANGED <<devices, alerts, dead>>
          /\ \/ activity' = [activity EXCEPT ![updates[k][1]] = NoToken]
             \/ activity' = activity
        BY <1>2 DEF UpdateAnswered
    <2>2. updates \in Seq(Updates) /\ k \in 1 .. Len(updates)
        BY DEF PushIInv
    <2>3. updates' \in Seq(Updates)
        BY <2>1, <2>2, RemoveAtLeaves
    <2>4. activity' \in [Sessions -> Activities \cup {NoToken}]
        BY <2>1 DEF PushIInv
    <2>5. QED
        BY <2>1, <2>3, <2>4 DEF PushIInv, NoRepeat
<1>3. QED
    BY <1>1, <1>2

LEMMA PushNextIInv ==
    ASSUME PushIInv, [PushNext]_pushVars
    PROVE  PushIInv'
<1>1. ASSUME NEW t \in Devices \cup Activities, Dies(t) PROVE PushIInv'
    BY <1>1 DEF Dies, PushIInv, NoRepeat
<1>2. CASE UNCHANGED pushVars
    BY <1>2 DEF pushVars, PushIInv, NoRepeat
<1>3. QED
    BY <1>1, <1>2, RegisterIInv, SendIInv, AnswerIInv DEF PushNext

LEMMA PushAlwaysIInv == PushSpec => []PushIInv
<1>1. PushInit => PushIInv
    BY PushInitIInv
<1>2. PushIInv /\ [PushNext]_pushVars => PushIInv'
    BY PushNextIInv
<1>3. QED
    BY <1>1, <1>2, PTL DEF PushSpec

-----------------------------------------------------------------------------
(* The list of devices holds no token twice and at most maxDeviceTokens,   *)
(* whatever registrations and late answers do to it (RegisterDevice and    *)
(* the goroutines of sendAlert).                                           *)
THEOREM PushTypes == PushSpec => []PushTypeOK
<1>1. PushIInv => PushTypeOK
    BY PushTyped
<1>2. QED
    BY <1>1, PushAlwaysIInv, PTL

(* A valid device token leaves the list only as the oldest of a full one   *)
(* (RegisterDevice), never on an answer of APNs (sendAlert).               *)
THEOREM ValidDeviceStays == PushSpec => ValidDeviceKept
<1>1. ASSUME PushIInv, [PushNext]_pushVars, NEW i \in DOMAIN devices
      PROVE  \/ devices[i] \in dead
             \/ Contains(devices', devices[i])
             \/ i = 1 /\ Len(devices) = MaxDevices
    <2>0. DOMAIN devices = 1 .. Len(devices)
        BY <1>1 DEF PushIInv
    <2>1. CASE devices' = devices
        BY <2>0, <2>1 DEF Contains
    <2>2. CASE \E t \in Devices : RegisterDevice(t)
        BY <1>1, <2>0, <2>2, RegisterDeviceList
    <2>3. CASE \E k \in DOMAIN alerts : AlertAnswered(k)
        BY <1>1, <2>0, <2>3, AlertAnsweredList
    <2>4. QED
        BY <1>1, <2>1, <2>2, <2>3
           DEF PushNext, pushVars, RegisterActivity, SendAlert, PushLiveActivity,
               UpdateAnswered, Dies
<1>2. PushIInv /\ [PushNext]_pushVars
          => [\A i \in DOMAIN devices :
                 \/ devices[i] \in dead
                 \/ Contains(devices', devices[i])
                 \/ i = 1 /\ Len(devices) = MaxDevices]_pushVars
    BY <1>1
<1>3. QED
    BY <1>2, PushAlwaysIInv, PTL DEF PushSpec, ValidDeviceKept

(* A session loses a valid Live Activity token unasked only to a push of   *)
(* its own: to the refusal of an older token or to an error whose text     *)
(* looks like one (pushLiveActivity).                                      *)
THEOREM ActivityLostToOwnPush == PushSpec => LostToOwnPush
<1>1. ASSUME PushIInv, PushNext, NEW n \in Sessions, LostUnasked(n)
      PROVE  \E k \in DOMAIN updates :
                 updates[k][1] = n /\ updates[k][2] \in Holds410 \cup (dead \ {activity[n]})
    <2>1. activity[n] \notin dead \cup {NoToken} /\ activity'[n] = NoToken /\ ~ RegisterActivity(n, NoToken)
        BY <1>1 DEF LostUnasked
    <2>2. activity' # activity
        BY <2>1
    <2>3. ASSUME NEW m \in Sessions, NEW t \in Activities \cup {NoToken}, RegisterActivity(m, t)
          PROVE  FALSE
        <3>1. activity' = [activity EXCEPT ![m] = t] /\ UNCHANGED <<devices, alerts, updates, dead>>
            BY <2>3 DEF RegisterActivity
        <3>2. m = n /\ t = NoToken
            BY <1>1, <2>1, <3>1 DEF PushIInv
        <3>3. QED
            BY <2>1, <2>3, <3>2
    <2>4. ASSUME NEW k \in DOMAIN updates, UpdateAnswered(k)
          PROVE  updates[k][1] = n /\ updates[k][2] \in Holds410 \cup (dead \ {activity[n]})
        <3>1. PICK r \in LiveActivityResults(updates[k][2]) :
                  activity' = IF r = "410" THEN [activity EXCEPT ![updates[k][1]] = NoToken] ELSE activity
            BY <2>4 DEF UpdateAnswered
        <3>2. r = "410" /\ activity' = [activity EXCEPT ![updates[k][1]] = NoToken]
            BY <2>2, <3>1
        <3>3. updates[k][2] \in dead \cup Holds410
            BY <3>2 DEF LiveActivityResults
        <3>4. updates[k][1] = n
            BY <1>1, <2>1, <3>2 DEF PushIInv
        <3>5. QED
            BY <2>1, <3>3, <3>4
    <2>5. QED
        BY <1>1, <2>2, <2>3, <2>4
           DEF PushNext, RegisterDevice, SendAlert, PushLiveActivity, AlertAnswered,
               Dies
<1>2. PushIInv /\ [PushNext]_pushVars
          => [\A n \in Sessions : LostUnasked(n) =>
                 \E i \in DOMAIN updates :
                     updates[i][1] = n /\ updates[i][2] \in Holds410 \cup (dead \ {activity[n]})]_pushVars
    BY <1>1
<1>3. QED
    BY <1>2, PushAlwaysIInv, PTL DEF PushSpec, LostToOwnPush, LostUnasked
=============================================================================
