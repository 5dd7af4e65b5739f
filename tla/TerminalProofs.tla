--------------------------- MODULE TerminalProofs ---------------------------
(***************************************************************************)
(* Theorems about what a terminal connection meets: Authenticator, whose   *)
(* failure log it shares with the relay's API, for any number of addresses *)
(* and tokens, any limit and any window; and, below, Terminal, the         *)
(* connection it is once accepted, for every size of the PTY's buffers and *)
(* of a message. The two have no variable in common.                       *)
(***************************************************************************)
EXTENDS Authenticator, Terminal, FiniteSetTheorems, TLAPS

(* What the log still shows of the window is exactly the wrong tokens that *)
(* were compared in it, counted by the clock alone: nothing is pruned too  *)
(* early or recorded twice.                                                *)
LogIsMisses == \A ip \in IPs : misses[ip] = Recent(failures[ip])

AuthIInv == AuthTypeOK /\ LogIsMisses

-----------------------------------------------------------------------------
(* What a log is, and how often it can count.                              *)
LEMMA LogFacts ==
    ASSUME NEW log
    PROVE  log \in Logs <=> /\ DOMAIN log \subseteq Attempts
                            /\ log \in [DOMAIN log -> Ages]
BY DEF Logs

LEMMA Counted ==
    ASSUME NEW S, S \subseteq Attempts
    PROVE  /\ IsFiniteSet(S) /\ Cardinality(S) \in Nat
           /\ Cardinality(S) <= MaxFailures + 1
<1>1. IsFiniteSet(Attempts) /\ Cardinality(Attempts) = MaxFailures + 1
    BY AuthAssumption, FS_Interval DEF Attempts
<1>2. QED
    BY <1>1, FS_Subset, FS_CardinalityType

(* Pruning keeps a log a log, no longer than it was, and is done once.     *)
LEMMA RecentFacts ==
    ASSUME NEW log \in Logs
    PROVE  /\ Recent(log) \in Logs /\ DOMAIN Recent(log) \subseteq DOMAIN log
           /\ \A n \in DOMAIN Recent(log) : Recent(log)[n] = log[n] /\ log[n] < Window
           /\ Count(Recent(log)) <= Count(log)
           /\ Recent(Recent(log)) = Recent(log)
<1> DEFINE S == {n \in DOMAIN log : log[n] < Window}
<1>1. DOMAIN log \subseteq Attempts /\ log \in [DOMAIN log -> Ages]
    BY LogFacts
<1>2. Recent(log) = [n \in S |-> log[n]]
    BY DEF Recent, Restrict
<1>3. Recent(log) \in Logs
    BY <1>1, <1>2, LogFacts
<1>4. Cardinality(S) <= Cardinality(DOMAIN log)
    BY <1>1, Counted, FS_Subset
<1>5. Recent(Recent(log)) = Recent(log)
    <2>1. {n \in DOMAIN Recent(log) : Recent(log)[n] < Window} = S
        BY <1>2
    <2>2. Recent(Recent(log)) = [n \in S |-> Recent(log)[n]]
        BY <2>1 DEF Recent, Restrict
    <2>3. QED
        BY <1>2, <2>2
<1>6. QED
    BY <1>2, <1>3, <1>4, <1>5 DEF Count

(* A log that is not full has a number for one more attempt.               *)
LEMMA WithFacts ==
    ASSUME NEW log \in Logs, Count(log) < MaxFailures
    PROVE  LET n == Unused(log) IN
           /\ n \in Attempts \ DOMAIN log
           /\ With(log, n) \in Logs
           /\ Count(With(log, n)) <= MaxFailures
           /\ (\A m \in DOMAIN log : log[m] < Window) => Recent(With(log, n)) = With(log, n)
<1> DEFINE n == Unused(log)
           w == With(log, n)
<1>1. DOMAIN log \subseteq Attempts /\ log \in [DOMAIN log -> Ages]
    BY LogFacts
<1>2. IsFiniteSet(DOMAIN log) /\ Cardinality(DOMAIN log) \in Nat
    BY <1>1, Counted
<1>3. \E m \in Attempts : m \notin DOMAIN log
    <2>1. Cardinality(Attempts) = MaxFailures + 1
        BY AuthAssumption, FS_Interval DEF Attempts
    <2>2. Attempts # DOMAIN log
        BY <1>2, <2>1, AuthAssumption DEF Count
    <2>3. QED
        BY <1>1, <2>2
<1>4. n \in Attempts /\ n \notin DOMAIN log
    BY <1>3 DEF Unused
<1> HIDE DEF n
<1>5. w = [m \in DOMAIN log \cup {n} |-> IF m = n THEN 0 ELSE log[m]]
    BY DEF With
<1>6. w \in Logs
    <2>1. DOMAIN w \subseteq Attempts
        BY <1>1, <1>4, <1>5
    <2>2. \A m \in DOMAIN w : w[m] \in Ages
        BY <1>1, <1>5, AuthAssumption DEF Ages
    <2>3. QED
        BY <1>5, <2>1, <2>2, LogFacts
<1>7. Count(w) <= MaxFailures
    <2>1. Cardinality(DOMAIN log \cup {n}) = Cardinality(DOMAIN log) + 1
        BY <1>2, <1>4, FS_AddElement
    <2>2. QED
        BY <1>2, <1>5, <2>1, AuthAssumption DEF Count
<1>8. ASSUME \A m \in DOMAIN log : log[m] < Window PROVE Recent(w) = w
    <2>1. \A m \in DOMAIN w : w[m] < Window
        BY <1>5, <1>8, AuthAssumption
    <2>2. {m \in DOMAIN w : w[m] < Window} = DOMAIN w
        BY <2>1
    <2>3. Recent(w) = [m \in DOMAIN w |-> w[m]]
        BY <2>2 DEF Recent, Restrict
    <2>4. QED
        BY <1>5, <2>3
<1>9. QED
    BY <1>4, <1>6, <1>7, <1>8 DEF n

(* As time passes, what leaves the window leaves it in both.               *)
LEMMA AgedFacts ==
    ASSUME NEW log \in Logs
    PROVE  /\ Aged(log) \in Logs /\ Count(Aged(log)) = Count(log)
           /\ Later(Recent(log)) = Recent(Aged(log))
<1> DEFINE S == {n \in DOMAIN log : log[n] < Window}
           R == {n \in DOMAIN Aged(log) : Aged(log)[n] < Window}
<1>1. DOMAIN log \subseteq Attempts /\ log \in [DOMAIN log -> Ages]
    BY LogFacts
<1>2. /\ DOMAIN Aged(log) = DOMAIN log
      /\ Aged(log) = [n \in DOMAIN log |-> Aged(log)[n]]
      /\ \A n \in DOMAIN log : /\ Aged(log)[n] \in Ages
                               /\ log[n] < Window => Aged(log)[n] = log[n] + 1
                               /\ ~ (log[n] < Window) => Aged(log)[n] = Window
    BY <1>1, AuthAssumption DEF Aged, Ages
<1>3. Recent(log) = [n \in S |-> log[n]]
    BY DEF Recent, Restrict
<1>4. {k \in DOMAIN Recent(log) : Recent(log)[k] + 1 < Window} = R
    BY <1>1, <1>2, <1>3, AuthAssumption DEF Ages
<1>5. R \subseteq S
    BY <1>1, <1>2, AuthAssumption DEF Ages
<1>6. \A n \in R : Recent(log)[n] + 1 = Aged(log)[n]
    BY <1>2, <1>3, <1>5
<1>7. Later(Recent(log)) = Recent(Aged(log))
    <2>1. Later(Recent(log)) = [n \in R |-> Recent(log)[n] + 1]
        BY <1>4 DEF Later
    <2>2. Recent(Aged(log)) = [n \in R |-> Aged(log)[n]]
        BY DEF Recent, Restrict
    <2>3. QED
        BY <1>6, <2>1, <2>2
<1>8. Aged(log) \in Logs
    BY <1>1, <1>2, LogFacts
<1>9. QED
    BY <1>2, <1>7, <1>8 DEF Count

LEMMA EmptyFacts == NoLog \in Logs /\ Count(NoLog) = 0 /\ Recent(NoLog) = NoLog
<1>1. NoLog \in Logs
    BY LogFacts DEF NoLog
<1>2. Count(NoLog) = 0
    BY FS_EmptySet DEF Count, NoLog
<1>3. {n \in DOMAIN NoLog : NoLog[n] < Window} = {}
    BY DEF NoLog
<1>4. QED
    BY <1>1, <1>2, <1>3 DEF Recent, Restrict, NoLog

-----------------------------------------------------------------------------
LEMMA AuthInitIInv == AuthInit => AuthIInv
BY EmptyFacts, AuthAssumption DEF AuthInit, AuthIInv, AuthTypeOK, LogIsMisses

(* One call of validate changes one log.                                   *)
LEMMA ValidateIInv ==
    ASSUME NEW ip \in IPs, NEW provided \in Tokens \cup {Missing}, AuthIInv, Validate(ip, provided)
    PROVE  AuthIInv'
<1> DEFINE log == failures[ip]
<1>1. log \in Logs /\ misses[ip] \in Logs /\ misses[ip] = Recent(log) /\ Count(log) <= MaxFailures
    BY DEF AuthIInv, AuthTypeOK, LogIsMisses
<1>2. SUFFICES ASSUME NEW f \in Logs, NEW g \in Logs, Count(f) <= MaxFailures, g = Recent(f),
                      failures' = [failures EXCEPT ![ip] = f],
                      misses' = [misses EXCEPT ![ip] = g], token' = token
               PROVE  AuthIInv'
    <2>1. CASE Refused(ip)
        <3>1. /\ failures' = [failures EXCEPT ![ip] = Recent(log)]
              /\ misses' = [misses EXCEPT ![ip] = misses[ip]] /\ token' = token
            BY <2>1 DEF Refused, AuthIInv, AuthTypeOK
        <3>2. /\ Recent(log) \in Logs /\ Recent(Recent(log)) = Recent(log)
              /\ Count(Recent(log)) <= Count(log)
            BY <1>1, RecentFacts
        <3>3. Count(Recent(log)) <= MaxFailures
            <4>1. Count(Recent(log)) \in Nat /\ Count(log) \in Nat
                BY <1>1, <3>2, LogFacts, Counted DEF Count
            <4>2. QED
                BY <1>1, <3>2, <4>1, AuthAssumption
        <3>4. QED
            BY <1>1, <1>2, <3>1, <3>2, <3>3
    <2>2. CASE WrongToken(ip, provided)
        <3> DEFINE r == Recent(log)
                   w == With(r, Unused(r))
        <3>1. /\ failures' = [failures EXCEPT ![ip] = w]
              /\ misses' = [misses EXCEPT ![ip] = With(misses[ip], Unused(misses[ip]))]
              /\ token' = token /\ ~ Locked(ip)
            BY <2>2 DEF WrongToken
        <3>2. r \in Logs /\ \A n \in DOMAIN r : r[n] < Window
            BY <1>1, RecentFacts
        <3>3. Count(r) \in Nat
            BY <3>2, LogFacts, Counted DEF Count
        <3>4. Count(r) < MaxFailures
            BY <3>1, <3>3, AuthAssumption DEF Locked
        <3>5. w \in Logs /\ Count(w) <= MaxFailures /\ Recent(w) = w
            BY <3>2, <3>4, WithFacts
        <3>6. misses' = [misses EXCEPT ![ip] = w]
            BY <1>1, <3>1
        <3> HIDE DEF w
        <3>7. QED
            BY <1>2, <3>1, <3>5, <3>6
    <2>3. CASE Accepted(ip, provided)
        <3>1. /\ failures' = [failures EXCEPT ![ip] = NoLog]
              /\ misses' = [misses EXCEPT ![ip] = NoLog] /\ token' = token
            BY <2>3 DEF Accepted
        <3>2. Count(NoLog) <= MaxFailures
            BY EmptyFacts, AuthAssumption
        <3>3. QED
            BY <1>2, <3>1, <3>2, EmptyFacts
    <2>4. QED
        BY <2>1, <2>2, <2>3 DEF Validate
<1>3. AuthTypeOK'
    BY <1>2 DEF AuthIInv, AuthTypeOK
<1>4. LogIsMisses'
    BY <1>2 DEF AuthIInv, AuthTypeOK, LogIsMisses
<1>5. QED
    BY <1>3, <1>4 DEF AuthIInv

LEMMA TickIInv ==
    ASSUME AuthIInv, Tick
    PROVE  AuthIInv'
<1>1. \A ip \in IPs : /\ failures'[ip] = Aged(failures[ip])
                      /\ misses'[ip] = Later(misses[ip])
    BY DEF Tick
<1>2. \A ip \in IPs : /\ failures'[ip] \in Logs /\ misses'[ip] \in Logs
                      /\ Count(failures'[ip]) <= MaxFailures
                      /\ misses'[ip] = Recent(failures'[ip])
    <2>1. SUFFICES ASSUME NEW ip \in IPs
                   PROVE  /\ Aged(failures[ip]) \in Logs /\ Later(misses[ip]) \in Logs
                          /\ Count(Aged(failures[ip])) <= MaxFailures
                          /\ Later(misses[ip]) = Recent(Aged(failures[ip]))
        BY <1>1
    <2>2. /\ failures[ip] \in Logs /\ misses[ip] = Recent(failures[ip])
          /\ Count(failures[ip]) <= MaxFailures
        BY DEF AuthIInv, AuthTypeOK, LogIsMisses
    <2>3. QED
        BY <2>2, AgedFacts, RecentFacts
<1>3. AuthTypeOK'
    BY <1>2 DEF AuthIInv, AuthTypeOK, Tick
<1>4. LogIsMisses'
    BY <1>2 DEF LogIsMisses
<1>5. QED
    BY <1>3, <1>4 DEF AuthIInv

LEMMA AuthNextIInv == AuthIInv /\ [AuthNext]_authVars => AuthIInv'
<1>1. SUFFICES ASSUME AuthIInv, [AuthNext]_authVars PROVE AuthIInv'
    OBVIOUS
<1>2. ASSUME NEW t \in Tokens, UpdateToken(t) PROVE AuthIInv'
    BY <1>1, <1>2 DEF UpdateToken, AuthIInv, AuthTypeOK, LogIsMisses
<1>3. CASE UNCHANGED authVars
    BY <1>1, <1>3 DEF authVars, AuthIInv, AuthTypeOK, LogIsMisses
<1>4. QED
    BY <1>1, <1>2, <1>3, ValidateIInv, TickIInv DEF AuthNext

LEMMA AuthAlwaysIInv == AuthSpec => []AuthIInv
BY AuthInitIInv, AuthNextIInv, PTL DEF AuthSpec

-----------------------------------------------------------------------------
(* Every variable keeps its type, and no address logs more than            *)
(* MaxFailures attempts (isLocked prunes, recordFailure appends).          *)
THEOREM LogIsBounded == AuthSpec => []AuthTypeOK
<1>1. AuthIInv => AuthTypeOK
    BY DEF AuthIInv
<1>2. QED
    BY <1>1, AuthAlwaysIInv, PTL

(* In any window without a success, an address has at most MaxFailures     *)
(* wrong tokens compared (validate), by a count that does not read the     *)
(* log: however it is pruned, and whatever is rotated in between.          *)
THEOREM GuessesBounded == AuthSpec => []BruteForceBound
<1>1. ASSUME AuthIInv, NEW ip \in IPs PROVE Count(misses[ip]) <= MaxFailures
    <2>1. /\ failures[ip] \in Logs /\ misses[ip] = Recent(failures[ip])
          /\ Count(failures[ip]) <= MaxFailures
        BY <1>1 DEF AuthIInv, AuthTypeOK, LogIsMisses
    <2>2. /\ Count(Recent(failures[ip])) <= Count(failures[ip])
          /\ Recent(failures[ip]) \in Logs
        BY <2>1, RecentFacts
    <2>3. Count(Recent(failures[ip])) \in Nat /\ Count(failures[ip]) \in Nat
        BY <2>1, <2>2, LogFacts, Counted DEF Count
    <2>4. QED
        BY <2>1, <2>2, <2>3, AuthAssumption
<1>2. AuthIInv => BruteForceBound
    BY <1>1 DEF BruteForceBound
<1>3. QED
    BY <1>2, AuthAlwaysIInv, PTL

-----------------------------------------------------------------------------
(***************************************************************************)
(* Terminal                                                                *)
(***************************************************************************)
(* Before the program is started there is no PTY, and the master is closed *)
(* only by a handler that has cancelled the context.                       *)
TermIInv ==
    /\ TypeOK
    /\ main = "start" => pty = "none"
    /\ pty = "closed" => cancelled

LEMMA TermInitIInv == ASSUME Init PROVE TermIInv
<1>1. 0 \in 0 .. InCap /\ 0 \in 0 .. OutCap /\ 0 \in 0 .. MaxMessage
    BY TerminalAssumption
<1>2. ~ (0 > 0) /\ rest = 0 /\ main = "start" /\ pty = "none"
    BY DEF Init
<1>3. (main = "write" <=> rest > 0) /\ ((pty = "closed") = (main \in {"wait", "done"} /\ pty # "none"))
    BY <1>2
<1>4. TypeOK
    BY <1>1, <1>3 DEF Init, TypeOK
<1>5. QED
    BY <1>2, <1>4 DEF TermIInv

LEMMA TermHandlerIInv ==
    ASSUME TermIInv,
           \/ Start \/ StartFails \/ (\E n \in 0 .. MaxMessage + 1 : Receive(n))
           \/ WriteUnit \/ Leave \/ Waited
    PROVE  TermIInv'
<1>1. CASE Start \/ StartFails
    BY <1>1 DEF TermIInv, TypeOK, Start, StartFails, program, buffers
<1>2. CASE \E n \in 0 .. MaxMessage + 1 : Receive(n)
    BY <1>2, TerminalAssumption DEF TermIInv, TypeOK, Receive, program, buffers
<1>3. CASE WriteUnit
    BY <1>3, TerminalAssumption DEF TermIInv, TypeOK, WriteUnit, program
<1>4. CASE Leave \/ Waited
    BY <1>4 DEF TermIInv, TypeOK, Leave, Broken, Waited, program, buffers
<1>5. QED
    BY <1>1, <1>2, <1>3, <1>4

LEMMA TermOutputIInv ==
    ASSUME TermIInv,
           OutRead \/ OutEnd \/ OutSend \/ OutSendFails
    PROVE  TermIInv'
<1>1. CASE OutRead
    BY <1>1, TerminalAssumption DEF TermIInv, TypeOK, OutRead, handler, program
<1>2. CASE OutEnd \/ OutSend \/ OutSendFails
    BY <1>2 DEF TermIInv, TypeOK, OutEnd, OutSend, OutSendFails, handler,
                program, buffers
<1>3. QED
    BY <1>1, <1>2

LEMMA TermHeartbeatIInv ==
    ASSUME TermIInv, Ping \/ Pong \/ PingTimeout \/ PingEnds
    PROVE  TermIInv'
BY DEF TermIInv, TypeOK, Ping, Pong, PingTimeout, PingEnds, handler,
       program, buffers

LEMMA TermOutsideIInv ==
    ASSUME TermIInv,
           \/ ProgRead \/ ProgWrite \/ ProgEnds \/ JobsStart \/ JobsEnd
           \/ Suspend \/ Resume \/ Close
    PROVE  TermIInv'
<1>1. CASE ProgRead
    BY <1>1, TerminalAssumption DEF TermIInv, TypeOK, ProgRead, handler, program
<1>2. CASE ProgWrite
    BY <1>2, TerminalAssumption DEF TermIInv, TypeOK, ProgWrite, handler, program
<1>3. CASE ProgEnds
    <2>1. inq' \in 0 .. InCap
        BY <1>3, TerminalAssumption DEF TermIInv, TypeOK, ProgEnds
    <2>2. QED
        BY <1>3, <2>1 DEF TermIInv, TypeOK, ProgEnds, handler
<1>4. CASE JobsStart \/ JobsEnd
    <2>1. inq' \in 0 .. InCap
        BY <1>4, TerminalAssumption DEF TermIInv, TypeOK, JobsStart, JobsEnd, buffers
    <2>2. jobs' \in BOOLEAN
        BY <1>4 DEF JobsStart, JobsEnd
    <2>3. QED
        BY <1>4, <2>1, <2>2 DEF TermIInv, TypeOK, JobsStart, JobsEnd, handler, buffers
<1>5. CASE Suspend \/ Resume \/ Close
    BY <1>5 DEF TermIInv, TypeOK, Suspend, Resume, Close, handler,
                program, buffers
<1>6. QED
    BY <1>1, <1>2, <1>3, <1>4, <1>5

LEMMA TermNextIInv ==
    ASSUME TermIInv, [Next]_vars
    PROVE  TermIInv'
<1>1. CASE UNCHANGED vars
    BY <1>1 DEF vars, TermIInv, TypeOK
<1>2. QED
    BY <1>1, TermHandlerIInv, TermOutputIInv, TermHeartbeatIInv, TermOutsideIInv DEF Next

LEMMA TermAlwaysIInv == Spec => []TermIInv
<1>1. Init => TermIInv
    BY TermInitIInv
<1>2. TermIInv /\ [Next]_vars => TermIInv'
    BY TermNextIInv
<1>3. QED
    BY <1>1, <1>2, PTL DEF Spec

(* The buffers keep their size, and a handler that has left the read loop  *)
(* has cancelled the context and closed the master (handleConn).            *)
THEOREM TerminalTypes == Spec => []TypeOK
<1>1. TermIInv => TypeOK
    BY DEF TermIInv
<1>2. QED
    BY <1>1, TermAlwaysIInv, PTL

(* What each of the calls of cancel finds, one for each goroutine and one  *)
(* in the handler.                                                         *)
LEMMA TermCancels ==
    ASSUME TermIInv, Next, cancelled', ~ cancelled
    PROVE  peer # "live" \/ (HungUp /\ out # "send") \/ WriteBlocked \/ main = "refuse"
<1>1. CASE Leave \/ OutSendFails \/ PingTimeout
    BY <1>1 DEF Leave, Broken, OutSendFails, PingTimeout, Deaf
<1>2. CASE OutEnd
    BY <1>2 DEF TermIInv, OutEnd
<1>3. ~ (Leave \/ OutSendFails \/ PingTimeout \/ OutEnd) => cancelled' = cancelled
    BY DEF Next, Start, StartFails, Receive, WriteUnit, Waited, OutRead,
           OutSend, Ping, Pong, PingEnds, ProgRead, ProgWrite, ProgEnds,
           JobsStart, JobsEnd, Suspend, Resume, Close
<1>4. QED
    BY <1>1, <1>2, <1>3

(* A live client's terminal is cut only after the last output of a line    *)
(* nobody holds any more, while ptmx.Write keeps the read loop from the    *)
(* pong, or after a message of its own over the read limit.                *)
THEOREM TerminalCutForCause == Spec => CutForCause
<1>1. TermIInv /\ [Next]_vars
          => [cancelled' /\ ~ cancelled =>
                 \/ peer # "live"
                 \/ HungUp /\ out # "send"
                 \/ WriteBlocked
                 \/ main = "refuse"]_vars
    BY TermCancels
<1>2. QED
    BY <1>1, TermAlwaysIInv, PTL DEF Spec, CutForCause

(* The circular wait of read loop, program and output has no way out but   *)
(* that nobody holds the terminal any more: no timeout, no close of the    *)
(* client, no cancel reaches ptmx.Write (an exception in                   *)
(* DeadPeerReleased).                                                      *)
THEOREM CircularWaitLasts ==
    Spec => [][CircularWait => CircularWait' \/ ~ Held']_vars
<1>1. [Next]_vars
          => [CircularWait => CircularWait' \/ ~ Held']_vars
    <2> SUFFICES ASSUME Next, CircularWait PROVE CircularWait' \/ ~ Held'
        BY DEF vars
    <2> USE TerminalAssumption DEF CircularWait, WriteBlocked, Held
    <2>1. CASE \/ Start \/ StartFails \/ (\E n \in 0 .. MaxMessage + 1 : Receive(n))
               \/ WriteUnit \/ Leave \/ Waited
        BY <2>1 DEF Start, StartFails, Receive, WriteUnit, Leave, Broken, Waited
    <2>2. CASE OutRead \/ OutEnd \/ OutSend \/ OutSendFails
        BY <2>2 DEF OutRead, OutEnd, OutSend, OutSendFails
    <2>3. CASE Ping \/ Pong \/ PingTimeout \/ PingEnds
        BY <2>3 DEF Ping, Pong, PingTimeout, PingEnds, handler, program,
                    buffers
    <2>4. CASE ProgRead \/ ProgWrite \/ ProgEnds \/ JobsStart \/ JobsEnd
        <3>1. ~ (OutCap < OutCap)
            OBVIOUS
        <3>2. ~ ProgRead
            BY <3>1 DEF ProgRead
        <3>3. ~ ProgWrite
            BY <3>1 DEF ProgWrite
        <3>4. CASE ProgEnds
            BY <3>4 DEF ProgEnds, handler
        <3>5. CASE JobsStart \/ JobsEnd
            BY <3>5 DEF JobsStart, JobsEnd, handler, buffers
        <3>6. QED
            BY <2>4, <3>2, <3>3, <3>4, <3>5
    <2>5. CASE Suspend \/ Resume \/ Close
        BY <2>5 DEF Suspend, Resume, Close, handler, program, buffers
    <2>6. QED
        BY <2>1, <2>2, <2>3, <2>4, <2>5 DEF Next
<1>2. QED
    BY <1>1, PTL DEF Spec
=============================================================================
