------------------------------ MODULE Terminal ------------------------------
(***************************************************************************)
(* One terminal connection (src/internal/terminal/server.go): a PTY with a *)
(* program on its other side, and three goroutines that share a context:   *)
(* the read loop (WebSocket to PTY), the output goroutine (PTY to          *)
(* WebSocket) and the heartbeat. The PTY buffers a bounded amount each     *)
(* way. The client may fall silent (an app suspended in the background)    *)
(* and come back, or close.                                                *)
(*                                                                         *)
(* Data are counted, not looked at: a unit is what fills one place of a    *)
(* buffer. The clock is left out: a heartbeat may start at any time, and   *)
(* its 10 s pass only while nothing can read the pong.                     *)
(***************************************************************************)
EXTENDS Naturals

CONSTANTS
    InCap,       \* units of input the PTY holds for the program
    OutCap,      \* units of output it holds for the relay
    MaxMessage   \* most units of a message conn.Read takes (SetReadLimit, 1 MB)

ASSUME TerminalAssumption ==
    InCap \in Nat \ {0} /\ OutCap \in Nat \ {0} /\ MaxMessage \in Nat \ {0}

VARIABLES
    peer,        \* the client: "live", "silent" or "closed"
    cancelled,   \* the context of the connection
    main,        \* the handler: "start", "read", "write", "refuse" (conn.Read has met a
                 \* message over the limit), "wait" for the program, "done"
    rest,        \* units of the message it still has to write
    out,         \* the output goroutine: "none", "read", "send", "done"
    ping,        \* the heartbeat: "none", "rest", "pong" (waits for one), "done"
    pty,         \* the master side: "none", "open", "closed"
    prog,        \* the started program: "none", "runs", "ended"
    jobs,        \* jobs it left in the background hold the terminal, too
    answers,     \* it reads on only when there is room for its answer, as a shell that echoes
    inq, outq    \* units in the PTY, each way

vars == <<peer, cancelled, main, rest, out, ping, pty, prog, jobs, answers, inq, outq>>
handler == <<main, rest>>
program == <<prog, jobs, answers>>
buffers == <<inq, outq>>

(* The slave side of the PTY is open.                                      *)
Held == prog = "runs" \/ jobs

-----------------------------------------------------------------------------
(* ServeHTTP has checked the credentials and accepted the WebSocket.       *)
Init ==
    /\ peer = "live" /\ cancelled = FALSE
    /\ main = "start" /\ rest = 0 /\ out = "none" /\ ping = "none"
    /\ pty = "none" /\ prog = "none" /\ jobs = FALSE /\ answers \in BOOLEAN
    /\ inq = 0 /\ outq = 0

(* The program is started on a new PTY and the goroutines with it.         *)
Start ==
    /\ main = "start"
    /\ main' = "read" /\ out' = "read" /\ ping' = "rest"
    /\ pty' = "open" /\ prog' = "runs"
    /\ UNCHANGED <<peer, cancelled, rest, jobs, answers, buffers>>

(* pty.StartWithSize fails: no goroutine, no PTY, "pty failed".            *)
StartFails ==
    /\ main = "start"
    /\ main' = "done"
    /\ UNCHANGED <<peer, cancelled, rest, out, ping, pty, program, buffers>>

-----------------------------------------------------------------------------
(* The read loop. A message of n units is input; n = 0 is a resize, an     *)
(* empty message or one of an unknown kind. Over the limit, conn.Read      *)
(* fails and the connection takes nothing more.                            *)
Receive(n) ==
    /\ main = "read" /\ ~ cancelled /\ peer # "closed"
    /\ rest' = IF n > MaxMessage THEN 0 ELSE n
    /\ main' = IF n > MaxMessage THEN "refuse" ELSE IF n = 0 THEN "read" ELSE "write"
    /\ UNCHANGED <<peer, cancelled, out, ping, pty, program, buffers>>

(* ptmx.Write, unit by unit, waits for room and for nothing else. When     *)
(* nobody holds the terminal it fails, which is ignored.                   *)
WriteUnit ==
    /\ main = "write"
    /\ \/ /\ ~ Held
          /\ rest' = 0 /\ main' = "read" /\ UNCHANGED inq
       \/ /\ Held /\ inq < InCap
          /\ inq' = inq + 1 /\ rest' = rest - 1
          /\ main' = IF rest = 1 THEN "read" ELSE "write"
    /\ UNCHANGED <<peer, cancelled, out, ping, pty, program, outq>>

(* conn.Read fails: closed, cancelled or over the limit.                   *)
Broken == \/ main = "read" /\ (cancelled \/ peer = "closed")
          \/ main = "refuse"

(* Mutant of Leave: the handler returns without its deferred cancel.       *)
LeaveOnly ==
    /\ Broken
    /\ main' = "wait" /\ pty' = "closed"
    /\ UNCHANGED <<peer, cancelled, rest, out, ping, program, buffers>>

(* The deferred calls cancel the context, close the master and wait for    *)
(* the program, whichever error it was.                                    *)
Leave ==
    /\ Broken
    /\ main' = "wait" /\ cancelled' = TRUE /\ pty' = "closed"
    /\ UNCHANGED <<peer, rest, out, ping, program, buffers>>

(* cmd.Wait, which waits for the program alone, then CloseNow.             *)
Waited ==
    /\ main = "wait" /\ prog = "ended"
    /\ main' = "done"
    /\ UNCHANGED <<peer, cancelled, rest, out, ping, pty, program, buffers>>

-----------------------------------------------------------------------------
(* The output goroutine.                                                   *)
OutRead ==
    /\ out = "read" /\ pty = "open" /\ outq > 0
    /\ outq' = outq - 1 /\ out' = "send"
    /\ UNCHANGED <<peer, cancelled, handler, ping, pty, program, inq>>

(* Nobody holds the terminal and its last output has been read.            *)
HungUp == prog = "ended" /\ ~ jobs /\ outq = 0

(* Mutant of OutEnd: only the goroutine ends.                              *)
OutEndOnly ==
    /\ out = "read" /\ (pty = "closed" \/ HungUp)
    /\ out' = "done"
    /\ UNCHANGED <<peer, cancelled, handler, ping, pty, program, buffers>>

(* Mutant of OutEnd: the end of the program is noticed before its output.  *)
OutEndEarly ==
    /\ out = "read" /\ (pty = "closed" \/ prog = "ended")
    /\ out' = "done" /\ cancelled' = TRUE
    /\ UNCHANGED <<peer, handler, ping, pty, program, buffers>>

(* ptmx.Read fails: the master is closed, or the last descriptor of the    *)
(* slave is. The deferred cancel follows.                                  *)
OutEnd ==
    /\ out = "read" /\ (pty = "closed" \/ HungUp)
    /\ out' = "done" /\ cancelled' = TRUE
    /\ UNCHANGED <<peer, handler, ping, pty, program, buffers>>

(* conn.Write succeeds, for a silent or closed peer as long as the kernel  *)
(* takes the data.                                                         *)
OutSend ==
    /\ out = "send" /\ ~ cancelled
    /\ out' = "read"
    /\ UNCHANGED <<peer, cancelled, handler, ping, pty, program, buffers>>

OutSendFails ==
    /\ out = "send" /\ (cancelled \/ peer = "closed" \/ main = "refuse")
    /\ out' = "done" /\ cancelled' = TRUE
    /\ UNCHANGED <<peer, handler, ping, pty, program, buffers>>

-----------------------------------------------------------------------------
(* The heartbeat. Only the read loop, inside conn.Read, sees the pong.     *)
WriteBlocked == main = "write" /\ Held /\ inq = InCap
Deaf         == WriteBlocked \/ main = "refuse"

Ping ==
    /\ ping = "rest" /\ ~ cancelled
    /\ ping' = "pong"
    /\ UNCHANGED <<peer, cancelled, handler, out, pty, program, buffers>>

Pong ==
    /\ ping = "pong" /\ peer = "live" /\ main = "read"
    /\ ping' = "rest"
    /\ UNCHANGED <<peer, cancelled, handler, out, pty, program, buffers>>

(* Mutant of PingTimeout: the heartbeat stops and nothing else.            *)
PingTimeoutOnly ==
    /\ ping = "pong" /\ (peer # "live" \/ Deaf)
    /\ ping' = "done"
    /\ UNCHANGED <<peer, cancelled, handler, out, pty, program, buffers>>

(* No pong for 10 s, or the ping cannot be written.                        *)
PingTimeout ==
    /\ ping = "pong" /\ (peer # "live" \/ Deaf)
    /\ ping' = "done" /\ cancelled' = TRUE
    /\ UNCHANGED <<peer, handler, out, pty, program, buffers>>

(* The context ends the select, or the ping under way.                     *)
PingEnds ==
    /\ ping \in {"rest", "pong"} /\ cancelled
    /\ ping' = "done"
    /\ UNCHANGED <<peer, cancelled, handler, out, pty, program, buffers>>

-----------------------------------------------------------------------------
(* The program, its jobs and the terminal line. A program may stop reading *)
(* for as long as it likes: a build, a sleep, a pager that is stopped.     *)
ProgRead ==
    /\ Held /\ inq > 0 /\ (answers => outq < OutCap)
    /\ inq' = inq - 1
    /\ outq' = IF answers THEN outq + 1 ELSE outq
    /\ UNCHANGED <<peer, cancelled, handler, out, ping, pty, program>>

ProgWrite ==
    /\ Held /\ outq < OutCap
    /\ outq' = outq + 1
    /\ UNCHANGED <<peer, cancelled, handler, out, ping, pty, program, inq>>

(* What nobody can read any more is discarded.                             *)
ProgEnds ==
    /\ prog = "runs"
    /\ prog' = "ended" /\ inq' = IF jobs THEN inq ELSE 0
    /\ UNCHANGED <<peer, cancelled, handler, out, ping, pty, jobs, answers, outq>>

JobsStart ==
    /\ prog = "runs" /\ jobs' = TRUE
    /\ UNCHANGED <<peer, cancelled, handler, out, ping, pty, prog, answers, buffers>>

JobsEnd ==
    /\ jobs
    /\ jobs' = FALSE /\ inq' = IF prog = "runs" THEN inq ELSE 0
    /\ UNCHANGED <<peer, cancelled, handler, out, ping, pty, prog, answers, outq>>

(* A closed master hangs the line up: SIGHUP, on which a shell ends and    *)
(* tmux detaches.                                                          *)
HangUp == pty = "closed" /\ ProgEnds

(* The client.                                                             *)
Suspend == peer = "live" /\ peer' = "silent" /\ UNCHANGED <<cancelled, handler, out, ping, pty, program, buffers>>
Resume  == peer = "silent" /\ peer' = "live" /\ UNCHANGED <<cancelled, handler, out, ping, pty, program, buffers>>
Close   == peer # "closed" /\ peer' = "closed" /\ UNCHANGED <<cancelled, handler, out, ping, pty, program, buffers>>

-----------------------------------------------------------------------------
Handler   == Start \/ StartFails \/ WriteUnit \/ Leave \/ Waited
Output    == OutRead \/ OutEnd \/ OutSendFails
LiveSend  == peer = "live" /\ OutSend
Heartbeat == Ping \/ Pong \/ PingTimeout \/ PingEnds

Next ==
    \/ Start \/ StartFails
    \/ \E n \in 0 .. MaxMessage + 1 : Receive(n)
    \/ WriteUnit \/ Leave \/ Waited
    \/ OutRead \/ OutEnd \/ OutSend \/ OutSendFails
    \/ Ping \/ Pong \/ PingTimeout \/ PingEnds
    \/ ProgRead \/ ProgWrite \/ ProgEnds \/ JobsStart \/ JobsEnd
    \/ Suspend \/ Resume \/ Close

(* Each goroutine is scheduled when it can go on; the program ends when    *)
(* the line hangs up, and is not asked to read or to write before.         *)
(* Nothing is assumed of the client. The kernel need not take data for a   *)
(* silent one; for one that is live again and again, TCP sends it in the   *)
(* end.                                                                    *)
Fairness == /\ WF_vars(Handler) /\ WF_vars(Output) /\ WF_vars(Heartbeat)
            /\ SF_vars(LiveSend)
            /\ WF_vars(HangUp)

Spec == Init /\ [][Next]_vars /\ Fairness

-----------------------------------------------------------------------------
(* Every variable keeps its type; a handler that has left the read loop    *)
(* has cancelled the context and closed the master.                        *)
TypeOK ==
    /\ peer \in {"live", "silent", "closed"} /\ cancelled \in BOOLEAN
    /\ main \in {"start", "read", "write", "refuse", "wait", "done"} /\ rest \in 0 .. MaxMessage
    /\ main = "write" <=> rest > 0
    /\ out \in {"none", "read", "send", "done"} /\ ping \in {"none", "rest", "pong", "done"}
    /\ pty \in {"none", "open", "closed"} /\ prog \in {"none", "runs", "ended"}
    /\ jobs \in BOOLEAN /\ answers \in BOOLEAN /\ inq \in 0 .. InCap /\ outq \in 0 .. OutCap
    /\ main = "wait" => cancelled
    /\ (pty = "closed") = (main \in {"wait", "done"} /\ pty # "none")

(* A connection is cut while its client is live only because nobody holds  *)
(* the terminal and its output has been sent, because the read loop was    *)
(* stuck in ptmx.Write and could not see the pong, or because the client   *)
(* sent a message over the read limit: a large paste ends the connection.  *)
CutForCause ==
    [][cancelled' /\ ~ cancelled =>
          \/ peer # "live"
          \/ HungUp /\ out # "send"
          \/ WriteBlocked
          \/ main = "refuse"]_vars

Released == main = "done" /\ out \in {"none", "done"} /\ ping \in {"none", "done"}

(* The read loop waits for the program to take input, the program for the  *)
(* relay to take output, and the output goroutine has ended.               *)
CircularWait == answers /\ WriteBlocked /\ outq = OutCap /\ out = "done"

(* The heartbeat "surfaces half-open sockets": when the client is gone or  *)
(* stays silent, the goroutines end and the PTY is closed, unless nothing  *)
(* ever reads what fills the terminal: ptmx.Write is the one wait without  *)
(* a way out, and a cancelled context does not reach it.                   *)
DeadPeerReleased == peer # "live" ~> (peer = "live" \/ Released \/ []WriteBlocked)

(* When the program has ended and no job of it holds the terminal, the     *)
(* connection ends, whatever the client does.                              *)
ProgramEndCloses == (prog = "ended" /\ ~ jobs) ~> Released
=============================================================================
