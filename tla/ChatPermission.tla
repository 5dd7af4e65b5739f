--------------------------- MODULE ChatPermission ---------------------------
(***************************************************************************)
(* The tool-calling loop of handleChatProxy and requestInlinePermission    *)
(* (src/internal/relay/chat_proxy.go), the PermissionBroker it prompts     *)
(* through (permission.go) and the run_code semaphore (tools/run_code.go). *)
(* Each chat request runs in its own goroutine; so does each POST          *)
(* /api/permission, whose Respond looks the prompt up under the lock and   *)
(* sends to its channel after releasing it.                                *)
(***************************************************************************)
EXTENDS Naturals, Sequences, SequencesExt, FiniteSets

CONSTANTS
    Chats,       \* chat requests
    IPs,         \* client addresses
    Owner,       \* the address each chat request came from
    Posts,       \* concurrent POST /api/permission handlers
    Tools,       \* tool names the model asks for: safe, run_code and other unsafe ones
    SafeTools,   \* tools.SafeTools
    RunCode,     \* the unsafe tools that take the semaphore
    MaxRounds,   \* maxRounds (10)
    MaxCalls,    \* tool calls of one model answer (a bound of the model)
    Slots        \* maxConcurrentRunCode (4)

ASSUME ChatAssumption ==
    /\ Owner \in [Chats -> IPs]
    /\ SafeTools \subseteq Tools /\ RunCode \subseteq Tools \ SafeTools
    /\ MaxRounds \in Nat \ {0} /\ MaxCalls \in Nat \ {0} /\ Slots \in Nat \ {0}

VARIABLES
    chat,      \* per chat: where its handler is, round, remaining calls, prompt number, answer
    pending,   \* PermissionBroker.pending: ids of registered prompts
    channel,   \* per id: the one-slot channel, <<>> or <<answer>>
    post,      \* per POST handler: the prompt it looked up and its answer
    slots,     \* chats that hold a run_code slot
    piped,     \* slots whose output pipe a process left behind by the tool still holds
    ran,       \* observation: prompts whose tool has been executed
    consent,   \* observation: prompts their owner's address answered "allow" to
    first      \* observation: per id, the first answer that reached its channel

vars == <<chat, pending, channel, post, slots, piped, ran, consent, first>>
observed == <<ran, consent, first>>

-----------------------------------------------------------------------------
(* randomPermID: a prompt is named by its chat and its number there.       *)
LastPrompt == MaxRounds * MaxCalls
Ids   == Chats \X (1 .. LastPrompt)
Id(c) == <<c, chat[c].prompt>>

At(c, pc)  == chat[c].pc = pc
Goto(c, pc) == chat' = [chat EXCEPT ![c].pc = pc]
NextCall(c) == chat' = [chat EXCEPT ![c].pc = "calls", ![c].calls = Tail(@)]
Tool(c)    == Head(chat[c].calls)

Init ==
    /\ chat = [c \in Chats |->
           [pc |-> "backend", round |-> 0, calls |-> <<>>, prompt |-> 0, answer |-> FALSE]]
    /\ pending = {}
    /\ channel = [i \in Ids |-> <<>>]
    /\ post = [p \in Posts |-> [id |-> <<>>, allow |-> FALSE]]
    /\ slots = {} /\ piped = {}
    /\ ran = {} /\ consent = {} /\ first = [i \in Ids |-> <<>>]

(* A round: the backend answers with tool calls or without, or fails, as   *)
(* it does when the client has left or the three minutes are over.         *)
Backend(c) ==
    /\ At(c, "backend")
    /\ \/ \E calls \in BoundedSeq(Tools, MaxCalls) \ {<<>>} :
             chat' = [chat EXCEPT ![c].pc = "calls", ![c].calls = calls]
       \/ Goto(c, "final")
       \/ Goto(c, "done")
    /\ UNCHANGED <<pending, channel, post, slots, piped, observed>>

(* The calls of the round are used up.                                     *)
NextRound(c) ==
    /\ At(c, "calls") /\ chat[c].calls = <<>>
    /\ \/ /\ chat[c].round + 1 < MaxRounds
          /\ chat' = [chat EXCEPT ![c].pc = "backend", ![c].round = @ + 1]
       \/ /\ chat[c].round + 1 = MaxRounds
          /\ chat' = [chat EXCEPT ![c].pc = "final", ![c].round = @ + 1]
    /\ UNCHANGED <<pending, channel, post, slots, piped, observed>>

(* tools.Execute.                                                          *)
SafeCall(c) ==
    /\ At(c, "calls") /\ chat[c].calls # <<>> /\ Tool(c) \in SafeTools
    /\ NextCall(c)
    /\ UNCHANGED <<pending, channel, post, slots, piped, observed>>

(* RegisterPending, the prompt on the stream, the push and a fresh timer.  *)
Prompt(c) ==
    /\ At(c, "calls") /\ chat[c].calls # <<>> /\ Tool(c) \notin SafeTools
    /\ chat' = [chat EXCEPT ![c].pc = "prompt", ![c].prompt = @ + 1]
    /\ pending' = pending \cup {<<c, chat[c].prompt + 1>>}
    /\ UNCHANGED <<channel, post, slots, piped, observed>>

(* Mutant of Decide: without an answer, that of the call before counts.    *)
DecideStale(c) ==
    /\ At(c, "prompt")
    /\ \/ /\ channel[Id(c)] # <<>>
          /\ chat' = [chat EXCEPT ![c].pc = "remove", ![c].answer = Head(channel[Id(c)])]
          /\ channel' = [channel EXCEPT ![Id(c)] = <<>>]
       \/ Goto(c, "remove") /\ UNCHANGED channel
    /\ UNCHANGED <<pending, post, slots, piped, observed>>

(* The select takes any case that is ready: the answer, or a no when the   *)
(* 60 s timer has fired or the context is done, each of which can be so at *)
(* any moment, also when an answer waits.                                  *)
Decide(c) ==
    /\ At(c, "prompt")
    /\ \/ /\ channel[Id(c)] # <<>>
          /\ chat' = [chat EXCEPT ![c].pc = "remove", ![c].answer = Head(channel[Id(c)])]
          /\ channel' = [channel EXCEPT ![Id(c)] = <<>>]
       \/ /\ chat' = [chat EXCEPT ![c].pc = "remove", ![c].answer = FALSE]
          /\ UNCHANGED channel
    /\ UNCHANGED <<pending, post, slots, piped, observed>>

(* Back in the loop: a denied call is answered with an error, an allowed   *)
(* one goes to tools.ExecuteUnsafe, which runs nothing if its arguments    *)
(* are bad.                                                                *)
Obey(c) ==
    \/ NextCall(c) /\ UNCHANGED ran
    \/ chat[c].answer /\ Tool(c) \notin RunCode /\ NextCall(c) /\ ran' = ran \cup {Id(c)}
    \/ chat[c].answer /\ Tool(c) \in RunCode /\ Goto(c, "queued") /\ UNCHANGED ran

(* Mutant of RemovePending: the prompt stays registered.                   *)
KeepPending(c) ==
    /\ At(c, "remove")
    /\ Obey(c)
    /\ UNCHANGED <<pending, channel, post, slots, piped, consent, first>>

(* The deferred RemovePending; the channel goes with its last reader.      *)
RemovePending(c) ==
    /\ At(c, "remove")
    /\ pending' = pending \ {Id(c)}
    /\ channel' = [channel EXCEPT ![Id(c)] = <<>>]
    /\ Obey(c)
    /\ UNCHANGED <<post, slots, piped, consent, first>>

(* runCodeSem <- struct{}{}: no context ends this wait.                    *)
Acquire(c) ==
    /\ At(c, "queued") /\ Cardinality(slots) < Slots
    /\ slots' = slots \cup {c}
    /\ Goto(c, "running")
    /\ ran' = ran \cup {Id(c)}
    /\ UNCHANGED <<pending, channel, post, piped, consent, first>>

(* The interpreter ends, or is killed after 30 s; the processes it started *)
(* are not, and one of them may have its standard output.                  *)
Exit(c) ==
    /\ At(c, "running")
    /\ Goto(c, "waiting")
    /\ \/ UNCHANGED piped
       \/ piped' = piped \cup {c}
    /\ UNCHANGED <<pending, channel, post, slots, observed>>

(* Such a process ends or closes it.                                       *)
Close(c) ==
    /\ c \in piped
    /\ piped' = piped \ {c}
    /\ UNCHANGED <<chat, pending, channel, post, slots, observed>>

(* Mutant of Finish: the slot is not given back.                           *)
FinishHolding(c) ==
    /\ At(c, "waiting") /\ c \notin piped
    /\ NextCall(c)
    /\ UNCHANGED <<pending, channel, post, slots, piped, observed>>

(* cmd.Run returns once the output has been read to its end.               *)
Finish(c) ==
    /\ At(c, "waiting") /\ c \notin piped
    /\ slots' = slots \ {c}
    /\ NextCall(c)
    /\ UNCHANGED <<pending, channel, post, piped, observed>>

(* The streamed last answer ends, or its request fails.                    *)
Final(c) ==
    /\ At(c, "final")
    /\ Goto(c, "done")
    /\ UNCHANGED <<pending, channel, post, slots, piped, observed>>

-----------------------------------------------------------------------------
(* The two checks of Respond, and a mutant without the second.             *)
AnyoneMayAnswer(i, ip) == i \in pending
MayAnswer(i, ip)       == i \in pending /\ Owner[i[1]] = ip

(* Respond up to the unlock, for a request that passes both checks; any    *)
(* other one is refused and changes nothing.                               *)
Lookup(p, i, ip, allow) ==
    /\ post[p].id = <<>>
    /\ MayAnswer(i, ip)
    /\ post' = [post EXCEPT ![p] = [id |-> i, allow |-> allow]]
    /\ consent' = IF allow /\ ip = Owner[i[1]] THEN consent \cup {i} ELSE consent
    /\ UNCHANGED <<chat, pending, channel, slots, piped, ran, first>>

(* The non-blocking send to a channel of one slot, and a mutant: the last  *)
(* answer wins.                                                            *)
Replaced(ch, allow)  == <<allow>>
Delivered(ch, allow) == IF ch = <<>> THEN <<allow>> ELSE ch

(* The send; nobody reads a channel whose prompt has been removed.         *)
Send(p) ==
    /\ post[p].id # <<>>
    /\ LET i == post[p].id IN
           \/ /\ i \in pending
              /\ channel' = [channel EXCEPT ![i] = Delivered(@, post[p].allow)]
              /\ first' = IF first[i] = <<>>
                          THEN [first EXCEPT ![i] = <<post[p].allow>>] ELSE first
           \/ i \notin pending /\ UNCHANGED <<channel, first>>
    /\ post' = [post EXCEPT ![p] = [id |-> <<>>, allow |-> FALSE]]
    /\ UNCHANGED <<chat, pending, slots, piped, ran, consent>>

-----------------------------------------------------------------------------
Handler(c) ==
    \/ Backend(c) \/ NextRound(c) \/ SafeCall(c) \/ Prompt(c)
    \/ Decide(c) \/ RemovePending(c) \/ Acquire(c) \/ Exit(c) \/ Finish(c) \/ Final(c)

Next ==
    \/ \E c \in Chats : Handler(c) \/ Close(c)
    \/ \E p \in Posts, i \in Ids, ip \in IPs, allow \in BOOLEAN : Lookup(p, i, ip, allow)
    \/ \E p \in Posts : Send(p)

Spec == Init /\ [][Next]_vars

(* Goroutines run; a call to the backend is bounded by the context, the    *)
(* prompt by its timer, the interpreter by its 30 s and writes to a client *)
(* by the server's WriteTimeout. Nothing is assumed of the people who      *)
(* answer, nor of the processes that the tools leave behind.               *)
FairSpec == Spec /\ \A c \in Chats : WF_vars(Handler(c))

(* The same for tools whose processes let go of their output in the end.   *)
TidySpec == FairSpec /\ \A c \in Chats : WF_vars(Close(c))

-----------------------------------------------------------------------------
Steps == {"backend", "calls", "prompt", "remove", "queued", "running",
          "waiting", "final", "done"}

(* Every variable keeps its type.                                          *)
TypeOK ==
    /\ chat \in [Chats -> [pc : Steps, round : 0 .. MaxRounds, calls : BoundedSeq(Tools, MaxCalls),
                          prompt : 0 .. LastPrompt, answer : BOOLEAN]]
    /\ pending \subseteq Ids /\ slots \subseteq Chats /\ piped \subseteq slots
    /\ channel \in [Ids -> {<<>>, <<TRUE>>, <<FALSE>>}]
    /\ first \in [Ids -> {<<>>, <<TRUE>>, <<FALSE>>}]
    /\ post \in [Posts -> [id : Ids \cup {<<>>}, allow : BOOLEAN]]
    /\ ran \subseteq Ids /\ consent \subseteq Ids

(* An unsafe tool runs only on a prompt that the originating client's own  *)
(* address allowed: no other client, no answer meant for another prompt,   *)
(* no timeout lets it run.                                                 *)
OnlyOwnerApproves == ran \subseteq consent

(* The first answer to reach a prompt decides it: a tool denied first does *)
(* not run on an "allow" that raced it or was sent twice.                  *)
FirstAnswerDecides == \A i \in ran : first[i] = <<TRUE>>

(* The broker holds exactly the prompts whose chat still waits on them,    *)
(* however the others ended: none is left behind to be answered later.     *)
PromptsCleaned == pending = {Id(c) : c \in {x \in Chats : At(x, "prompt") \/ At(x, "remove")}}

(* Every chat request ends, answered or not, although no context ends its  *)
(* wait for a slot: prompts time out and slots come free, as long as no    *)
(* process that a tool left behind holds on to its output for ever.        *)
EveryChatEnds == \A c \in Chats : <>At(c, "done")

(* "executeRunCode runs python3 or bash code with a 30s timeout": no tool  *)
(* call keeps its slot for ever.                                           *)
RunCodeTimesOut == \A c \in Chats : c \in slots ~> c \notin slots

-----------------------------------------------------------------------------
(* What the gate sees: the numbers given to prompts, the broker's map, the *)
(* answers that reached a channel, the calls that wait for a slot.         *)
Gate == INSTANCE ToolGate WITH
    Prompts  <- Ids,
    made     <- {i \in Ids : i[2] <= chat[i[1]].prompt},
    open     <- pending,
    allowed  <- consent,
    granted  <- {i \in Ids : first[i] = <<TRUE>>},
    refused  <- {i \in Ids : first[i] = <<FALSE>>},
    licensed <- {Id(c) : c \in {x \in Chats : At(x, "queued")}},
    used     <- ran

(* The tool loop, the broker with its unlocked send, and the semaphore     *)
(* implement the gate: a yes is one owner's, to one prompt, for one run.   *)
KeepsGate == Gate!Spec
=============================================================================
