------------------------ MODULE ChatPermissionProofs ------------------------
(***************************************************************************)
(* Theorems about ChatPermission for any number of chats, addresses, POST  *)
(* handlers, tools, rounds, calls and slots: which tools may run, which    *)
(* answer decides, and which prompts the broker holds.                     *)
(***************************************************************************)
EXTENDS ChatPermission, SequenceTheorems, TLAPS

(* A chat is inside a tool call: the head of `calls` is being worked on    *)
(* and, for these steps, already has its prompt.                           *)
Prompted(c) == chat[c].pc \in {"prompt", "remove", "queued", "running", "waiting"}

(* The prompts that r rounds can make.                                     *)
Made(r) == r * MaxCalls

(* The calls of every round still fit into the numbers of the prompts.     *)
CallsLeft(c) == IF Prompted(c) THEN Len(chat[c].calls) - 1 ELSE Len(chat[c].calls)
Counted(c) ==
    /\ At(c, "backend") => /\ chat[c].round < MaxRounds
                           /\ chat[c].prompt <= Made(chat[c].round)
    /\ At(c, "calls") \/ Prompted(c) =>
           /\ chat[c].round < MaxRounds
           /\ chat[c].prompt + CallsLeft(c) <= Made(chat[c].round) + MaxCalls
    /\ Prompted(c) => chat[c].calls # <<>> /\ chat[c].prompt > 0
CountInv == \A c \in Chats : Counted(c)

(* Who holds a slot.                                                       *)
SlotInv == slots = {c \in Chats : At(c, "running") \/ At(c, "waiting")}

(* What the broker, the answers under way and the chats know of a prompt:  *)
(* a prompt that was not made yet has no trace; the channel that a chat    *)
(* still reads holds the first answer; a yes that got anywhere came from   *)
(* the owner.                                                              *)
Untouched == \A i \in Ids : i[2] > chat[i[1]].prompt => channel[i] = <<>> /\ first[i] = <<>>
PostInv ==
    \A p \in Posts : post[p].id # <<>> =>
        /\ post[p].id[2] <= chat[post[p].id[1]].prompt
        /\ post[p].allow => post[p].id \in consent
FirstInv ==
    /\ \A c \in Chats : At(c, "prompt") => channel[Id(c)] = first[Id(c)]
    /\ \A i \in Ids : first[i] = <<TRUE>> => i \in consent
Obeyed ==
    \A c \in Chats :
        (At(c, "remove") /\ chat[c].answer) \/ At(c, "queued") => first[Id(c)] = <<TRUE>>

IInv == /\ TypeOK /\ CountInv /\ SlotInv
        /\ PromptsCleaned /\ Untouched /\ PostInv /\ FirstInv /\ Obeyed /\ FirstAnswerDecides

-----------------------------------------------------------------------------
Chat == [pc : Steps, round : 0 .. MaxRounds, calls : BoundedSeq(Tools, MaxCalls),
         prompt : 0 .. LastPrompt, answer : BOOLEAN]

(* A bounded sequence is a sequence within the bound.                      *)
LEMMA Bounded ==
    ASSUME NEW S, NEW n \in Nat, NEW s
    PROVE  s \in BoundedSeq(S, n) <=> s \in Seq(S) /\ Len(s) <= n
<1>1. ASSUME s \in BoundedSeq(S, n) PROVE s \in Seq(S) /\ Len(s) <= n
    <2>1. PICK m \in 0 .. n : s \in [1 .. m -> S]
        BY <1>1 DEF BoundedSeq, SeqOf
    <2>2. QED
        BY <2>1
<1>2. ASSUME s \in Seq(S), Len(s) <= n PROVE s \in BoundedSeq(S, n)
    <2>1. Len(s) \in 0 .. n /\ s \in [1 .. Len(s) -> S]
        BY <1>2
    <2>2. QED
        BY <2>1 DEF BoundedSeq, SeqOf
<1>3. QED
    BY <1>1, <1>2

(* What the calls of a chat are, and what is left of them after the first. *)
LEMMA Calls ==
    ASSUME NEW s \in BoundedSeq(Tools, MaxCalls)
    PROVE  /\ s \in Seq(Tools) /\ Len(s) \in Nat /\ Len(s) <= MaxCalls
           /\ s = <<>> <=> Len(s) = 0
           /\ s # <<>> => /\ Tail(s) \in BoundedSeq(Tools, MaxCalls)
                          /\ Len(Tail(s)) = Len(s) - 1
<1>1. MaxCalls \in Nat
    BY ChatAssumption
<1>2. s \in Seq(Tools) /\ Len(s) \in Nat /\ Len(s) <= MaxCalls /\ (s = <<>> <=> Len(s) = 0)
    BY <1>1, Bounded
<1>3. ASSUME s # <<>> PROVE Tail(s) \in Seq(Tools) /\ Len(Tail(s)) = Len(s) - 1
    BY <1>2, <1>3
<1>4. ASSUME s # <<>> PROVE Tail(s) \in BoundedSeq(Tools, MaxCalls)
    <2>1. Len(Tail(s)) <= MaxCalls
        BY <1>1, <1>2, <1>3, <1>4
    <2>2. QED
        BY <1>1, <1>3, <1>4, <2>1, Bounded
<1>5. QED
    BY <1>2, <1>3, <1>4, Zenon

(* The products that number the prompts.                                   *)
LEMMA Products ==
    ASSUME NEW r \in 0 .. MaxRounds, r < MaxRounds
    PROVE  /\ Made(r) \in Nat /\ LastPrompt \in Nat
           /\ Made(r + 1) = Made(r) + MaxCalls
           /\ Made(r) + MaxCalls <= LastPrompt
<1>1. MaxRounds \in Nat /\ MaxCalls \in Nat /\ r \in Nat
    BY ChatAssumption
<1>2. PICK d \in Nat : MaxRounds = r + 1 + d
    <2>1. MaxRounds - (r + 1) \in Nat /\ MaxRounds = r + 1 + (MaxRounds - (r + 1))
        BY <1>1
    <2>2. QED
        BY <2>1
<1>3. r * MaxCalls \in Nat /\ d * MaxCalls \in Nat
    BY <1>1, <1>2
<1>4. MaxRounds * MaxCalls = r * MaxCalls + MaxCalls + d * MaxCalls
    BY <1>1, <1>2
<1>5. (r + 1) * MaxCalls = r * MaxCalls + MaxCalls
    BY <1>1
<1>6. QED
    BY <1>1, <1>3, <1>4, <1>5 DEF Made, LastPrompt

(* A chat that moves without touching the broker, and is not at a prompt.  *)
LEMMA OtherStep ==
    ASSUME NEW c \in Chats, IInv, TypeOK',
           chat' = [chat EXCEPT ![c] = chat'[c]], chat'[c].prompt = chat[c].prompt,
           chat[c].pc \notin {"prompt", "remove"},
           chat'[c].pc \notin {"prompt", "remove", "queued"},
           UNCHANGED <<pending, channel, post, consent, first>>
    PROVE  PromptsCleaned' /\ Untouched' /\ PostInv' /\ FirstInv' /\ Obeyed'
<1> USE DEF IInv, TypeOK
<1>1. \A d \in Chats : /\ chat'[d].prompt = chat[d].prompt /\ Id(d)' = Id(d)
                       /\ d # c => chat'[d] = chat[d]
    BY DEF Id
<1>2. PromptsCleaned'
    <2>1. \A d \in Chats : (At(d, "prompt") \/ At(d, "remove"))' <=> At(d, "prompt") \/ At(d, "remove")
        BY <1>1 DEF At
    <2>2. {Id(d) : d \in {x \in Chats : At(x, "prompt") \/ At(x, "remove")}}'
              = {Id(d) : d \in {x \in Chats : At(x, "prompt") \/ At(x, "remove")}}
        BY <1>1, <2>1
    <2>3. QED
        BY <2>2 DEF PromptsCleaned
<1>3. Untouched'
    BY <1>1 DEF Untouched, Ids
<1>4. PostInv'
    BY <1>1 DEF PostInv, Ids
<1>5. FirstInv'
    BY <1>1 DEF FirstInv, At
<1>6. Obeyed'
    BY <1>1 DEF Obeyed, At
<1>7. QED
    BY <1>2, <1>3, <1>4, <1>5, <1>6

(* What every step of a chat's handler does to the other chats.            *)
LEMMA OneChat ==
    ASSUME NEW c \in Chats, IInv, chat' = [chat EXCEPT ![c] = chat'[c]], chat'[c] \in Chat
    PROVE  /\ chat' \in [Chats -> Chat]
           /\ \A d \in Chats \ {c} : chat'[d] = chat[d]
           /\ Counted(c)' => CountInv'
<1>1. chat' \in [Chats -> Chat] /\ \A d \in Chats \ {c} : chat'[d] = chat[d]
    BY DEF IInv, TypeOK, Chat
<1>2. \A d \in Chats \ {c} : Counted(d) => Counted(d)'
    BY <1>1 DEF Counted, At, Prompted, CallsLeft
<1>3. QED
    BY <1>1, <1>2 DEF IInv, CountInv

(* The steps of a chat that keep the broker, the answers and the tools out. *)
LEMMA BackendStep ==
    ASSUME NEW c \in Chats, IInv, Backend(c)
    PROVE  IInv'
<1>1. /\ chat \in [Chats -> Chat] /\ chat[c] \in Chat /\ chat[c].pc = "backend"
      /\ chat[c].round < MaxRounds
    BY DEF IInv, TypeOK, Chat, Backend, At, CountInv, Counted
<1>2. /\ chat' = [chat EXCEPT ![c] = chat'[c]] /\ chat'[c] \in Chat
      /\ chat'[c].prompt = chat[c].prompt /\ chat'[c].round = chat[c].round
      /\ chat'[c].pc \in {"final", "calls", "done"}
    <2>1. CASE Goto(c, "final") \/ Goto(c, "done")
        BY <1>1, <2>1 DEF Chat, Steps, Goto
    <2>2. ASSUME NEW calls \in BoundedSeq(Tools, MaxCalls),
                 chat' = [chat EXCEPT ![c].pc = "calls", ![c].calls = calls]
          PROVE  <1>2
        <3>1. chat'[c] = [chat[c] EXCEPT !.pc = "calls", !.calls = calls]
            BY <1>1, <2>2
        <3>2. chat' = [chat EXCEPT ![c] = chat'[c]]
            BY <1>1, <2>2
        <3>3. QED
            BY <1>1, <3>1, <3>2 DEF Chat, Steps
    <2>3. QED
        BY <2>1, <2>2 DEF Backend
<1>3. TypeOK'
    BY <1>2, OneChat DEF IInv, TypeOK, Chat, Backend, observed
<1>4. CountInv'
    <2>1. Len(chat'[c].calls) \in Nat /\ Len(chat'[c].calls) <= MaxCalls
        BY <1>2, Calls DEF Chat
    <2>2. MaxCalls \in Nat /\ MaxRounds \in Nat /\ Made(chat[c].round) \in Nat
        BY <1>1, ChatAssumption, Products DEF Chat
    <2>3. chat[c].prompt \in Nat /\ chat[c].prompt <= Made(chat[c].round)
        BY <1>1, <2>2 DEF IInv, CountInv, Counted, At, Chat
    <2>4. Counted(c)'
        BY <1>1, <1>2, <2>1, <2>2, <2>3 DEF Counted, At, Prompted, CallsLeft
    <2>5. QED
        BY <1>2, <2>4, OneChat
<1>5. SlotInv'
    BY <1>1, <1>2, OneChat DEF IInv, SlotInv, At, Backend
<1>6. QED
    BY <1>1, <1>2, <1>3, <1>4, <1>5, OtherStep DEF IInv, FirstAnswerDecides, Backend, observed

LEMMA NextRoundStep ==
    ASSUME NEW c \in Chats, IInv, NextRound(c)
    PROVE  IInv'
<1>1. /\ chat \in [Chats -> Chat] /\ chat[c] \in Chat /\ chat[c].pc = "calls"
      /\ chat[c].round < MaxRounds /\ chat[c].calls = <<>>
    BY DEF IInv, TypeOK, Chat, NextRound, At, CountInv, Counted
<1>2. MaxCalls \in Nat /\ MaxRounds \in Nat /\ chat[c].round \in Nat /\ chat[c].prompt \in Nat
    BY <1>1, ChatAssumption, Products DEF Chat
<1>3. /\ chat' = [chat EXCEPT ![c] = chat'[c]] /\ chat'[c] \in Chat
      /\ chat'[c].prompt = chat[c].prompt /\ chat'[c].round = chat[c].round + 1
      /\ chat'[c].pc = "backend" => chat[c].round + 1 < MaxRounds
      /\ chat'[c].pc \in {"final", "backend"}
    <2>1. CASE /\ chat[c].round + 1 < MaxRounds
               /\ chat' = [chat EXCEPT ![c].pc = "backend", ![c].round = @ + 1]
        <3>1. chat'[c] = [chat[c] EXCEPT !.pc = "backend", !.round = @ + 1]
            BY <1>1, <2>1
        <3>2. chat' = [chat EXCEPT ![c] = chat'[c]]
            BY <1>1, <2>1
        <3>3. QED
            BY <1>1, <1>2, <2>1, <3>1, <3>2 DEF Chat, Steps
    <2>2. CASE /\ chat[c].round + 1 = MaxRounds
               /\ chat' = [chat EXCEPT ![c].pc = "final", ![c].round = @ + 1]
        <3>1. chat'[c] = [chat[c] EXCEPT !.pc = "final", !.round = @ + 1]
            BY <1>1, <2>2
        <3>2. chat' = [chat EXCEPT ![c] = chat'[c]]
            BY <1>1, <2>2
        <3>3. QED
            BY <1>1, <1>2, <2>2, <3>1, <3>2 DEF Chat, Steps
    <2>3. QED
        BY <2>1, <2>2 DEF NextRound
<1>4. TypeOK'
    BY <1>3, OneChat DEF IInv, TypeOK, Chat, NextRound, observed
<1>5. CountInv'
    <2>1. chat[c].prompt <= Made(chat[c].round + 1)
        <3>1. Len(chat[c].calls) = 0
            BY <1>1
        <3>2. chat[c].prompt + Len(chat[c].calls) <= Made(chat[c].round) + MaxCalls
            BY <1>1 DEF IInv, CountInv, Counted, At, Prompted, CallsLeft
        <3>3. QED
            BY <1>1, <1>2, <3>1, <3>2, Products DEF Chat
    <2>2. Counted(c)'
        BY <1>3, <2>1 DEF Counted, At, Prompted, CallsLeft
    <2>3. QED
        BY <1>3, <2>2, OneChat
<1>6. SlotInv'
    BY <1>1, <1>3, OneChat DEF IInv, SlotInv, At, NextRound
<1>7. QED
    BY <1>1, <1>3, <1>4, <1>5, <1>6, OtherStep DEF IInv, FirstAnswerDecides, NextRound, observed

(* A chat moves on to its next call, or on within a call.                  *)
LEMMA NextCallMoves ==
    ASSUME NEW c \in Chats, IInv, NextCall(c), chat[c].calls # <<>>, At(c, "calls") \/ Prompted(c)
    PROVE  /\ chat' = [chat EXCEPT ![c] = chat'[c]] /\ chat'[c] \in Chat
           /\ chat'[c].pc = "calls" /\ chat'[c].prompt = chat[c].prompt
           /\ CountInv'
<1>1. /\ chat \in [Chats -> Chat] /\ chat[c] \in Chat /\ chat[c].round < MaxRounds
      /\ chat[c].prompt + CallsLeft(c) <= Made(chat[c].round) + MaxCalls
    BY DEF IInv, TypeOK, Chat, CountInv, Counted
<1>2. /\ MaxCalls \in Nat /\ Made(chat[c].round) \in Nat /\ chat[c].prompt \in Nat
      /\ Len(chat[c].calls) \in Nat /\ Len(Tail(chat[c].calls)) = Len(chat[c].calls) - 1
      /\ Tail(chat[c].calls) \in BoundedSeq(Tools, MaxCalls)
    BY <1>1, ChatAssumption, Products, Calls DEF Chat
<1>3. /\ chat' = [chat EXCEPT ![c] = chat'[c]]
      /\ chat'[c] = [chat[c] EXCEPT !.pc = "calls", !.calls = Tail(chat[c].calls)]
    BY <1>1 DEF NextCall
<1>4. chat'[c] \in Chat /\ chat'[c].pc = "calls" /\ chat'[c].prompt = chat[c].prompt
      /\ chat'[c].round = chat[c].round /\ chat'[c].calls = Tail(chat[c].calls)
    BY <1>1, <1>2, <1>3 DEF Chat, Steps
<1>5. Counted(c)'
    BY <1>1, <1>2, <1>4 DEF Counted, At, Prompted, CallsLeft
<1>6. QED
    BY <1>3, <1>4, <1>5, OneChat

LEMMA GotoMoves ==
    ASSUME NEW c \in Chats, IInv, NEW pc \in Steps \ {"backend", "calls"}, Goto(c, pc),
           Prompted(c) \/ pc \in {"final", "done"}
    PROVE  /\ chat' = [chat EXCEPT ![c] = chat'[c]] /\ chat'[c] \in Chat
           /\ chat'[c].pc = pc /\ chat'[c].prompt = chat[c].prompt
           /\ chat'[c].answer = chat[c].answer
           /\ CountInv'
<1>1. chat \in [Chats -> Chat] /\ chat[c] \in Chat
    BY DEF IInv, TypeOK, Chat
<1>2. chat' = [chat EXCEPT ![c] = chat'[c]] /\ chat'[c] = [chat[c] EXCEPT !.pc = pc]
    BY <1>1 DEF Goto
<1>3. chat'[c] \in Chat /\ chat'[c].pc = pc /\ chat'[c].prompt = chat[c].prompt
      /\ chat'[c].round = chat[c].round /\ chat'[c].calls = chat[c].calls
      /\ chat'[c].answer = chat[c].answer
    BY <1>1, <1>2 DEF Chat
<1>4. Counted(c)'
    BY <1>3 DEF IInv, CountInv, Counted, At, Prompted, CallsLeft, Steps
<1>5. QED
    BY <1>2, <1>3, <1>4, OneChat

LEMMA SafeCallStep ==
    ASSUME NEW c \in Chats, IInv, SafeCall(c)
    PROVE  IInv'
<1>1. chat[c].pc = "calls" /\ NextCall(c) /\ chat[c].calls # <<>>
    BY DEF SafeCall, At
<1>2. /\ chat' = [chat EXCEPT ![c] = chat'[c]] /\ chat'[c] \in Chat
      /\ chat'[c].pc = "calls" /\ chat'[c].prompt = chat[c].prompt /\ CountInv'
    BY <1>1, NextCallMoves DEF At
<1>3. TypeOK'
    BY <1>2, OneChat DEF IInv, TypeOK, Chat, SafeCall, observed
<1>4. SlotInv'
    BY <1>1, <1>2, OneChat DEF IInv, SlotInv, At, SafeCall
<1>5. QED
    BY <1>1, <1>2, <1>3, <1>4, OtherStep DEF IInv, FirstAnswerDecides, SafeCall, observed

LEMMA FinalStep ==
    ASSUME NEW c \in Chats, IInv, Final(c)
    PROVE  IInv'
<1>1. chat[c].pc = "final" /\ Goto(c, "done")
    BY DEF Final, At
<1>2. /\ chat' = [chat EXCEPT ![c] = chat'[c]] /\ chat'[c] \in Chat
      /\ chat'[c].pc = "done" /\ chat'[c].prompt = chat[c].prompt /\ CountInv'
    BY <1>1, GotoMoves DEF Steps
<1>3. TypeOK'
    BY <1>2, OneChat DEF IInv, TypeOK, Chat, Final, observed
<1>4. SlotInv'
    BY <1>1, <1>2, OneChat DEF IInv, SlotInv, At, Final
<1>5. QED
    BY <1>1, <1>2, <1>3, <1>4, OtherStep DEF IInv, FirstAnswerDecides, Final, observed

(* A tool that starts is one whose prompt was answered yes.                *)
LEMMA AcquireStep ==
    ASSUME NEW c \in Chats, IInv, Acquire(c)
    PROVE  IInv'
<1>1. chat[c].pc = "queued" /\ Goto(c, "running") /\ Prompted(c) /\ first[Id(c)] = <<TRUE>>
    BY DEF Acquire, At, Prompted, IInv, Obeyed
<1>2. /\ chat' = [chat EXCEPT ![c] = chat'[c]] /\ chat'[c] \in Chat
      /\ chat'[c].pc = "running" /\ chat'[c].prompt = chat[c].prompt /\ CountInv'
    BY <1>1, GotoMoves DEF Steps
<1>3. Id(c) \in Ids
    BY <1>1 DEF IInv, TypeOK, CountInv, Counted, Id, Ids
<1>4. TypeOK'
    BY <1>2, <1>3, OneChat DEF IInv, TypeOK, Chat, Acquire
<1>5. SlotInv'
    BY <1>1, <1>2, OneChat DEF IInv, SlotInv, At, Acquire
<1>6. FirstAnswerDecides'
    BY <1>1 DEF IInv, FirstAnswerDecides, Acquire
<1>7. QED
    BY <1>1, <1>2, <1>4, <1>5, <1>6, OtherStep DEF IInv, Acquire

LEMMA ExitStep ==
    ASSUME NEW c \in Chats, IInv, Exit(c)
    PROVE  IInv'
<1>1. chat[c].pc = "running" /\ Goto(c, "waiting") /\ Prompted(c) /\ c \in slots
    BY DEF Exit, At, Prompted, IInv, SlotInv
<1>2. /\ chat' = [chat EXCEPT ![c] = chat'[c]] /\ chat'[c] \in Chat
      /\ chat'[c].pc = "waiting" /\ chat'[c].prompt = chat[c].prompt /\ CountInv'
    BY <1>1, GotoMoves DEF Steps
<1>3. TypeOK'
    BY <1>1, <1>2, OneChat DEF IInv, TypeOK, Chat, Exit, observed
<1>4. SlotInv'
    BY <1>1, <1>2, OneChat DEF IInv, SlotInv, At, Exit
<1>5. QED
    BY <1>1, <1>2, <1>3, <1>4, OtherStep DEF IInv, FirstAnswerDecides, Exit, observed

LEMMA FinishStep ==
    ASSUME NEW c \in Chats, IInv, Finish(c)
    PROVE  IInv'
<1>1. /\ chat[c].pc = "waiting" /\ NextCall(c) /\ Prompted(c) /\ chat[c].calls # <<>>
      /\ c \notin piped
    BY DEF Finish, At, Prompted, IInv, CountInv, Counted
<1>2. /\ chat' = [chat EXCEPT ![c] = chat'[c]] /\ chat'[c] \in Chat
      /\ chat'[c].pc = "calls" /\ chat'[c].prompt = chat[c].prompt /\ CountInv'
    BY <1>1, NextCallMoves
<1>3. TypeOK'
    BY <1>1, <1>2, OneChat DEF IInv, TypeOK, Chat, Finish, observed
<1>4. SlotInv'
    BY <1>1, <1>2, OneChat DEF IInv, SlotInv, At, Finish
<1>5. QED
    BY <1>1, <1>2, <1>3, <1>4, OtherStep DEF IInv, FirstAnswerDecides, Finish, observed

LEMMA CloseStep ==
    ASSUME NEW c \in Chats, IInv, Close(c)
    PROVE  IInv'
<1> USE DEF Close, observed
<1>1. TypeOK' /\ CountInv' /\ SlotInv'
    BY DEF IInv, TypeOK, Ids, CountInv, Counted, At, Prompted, CallsLeft, SlotInv
<1>2. PromptsCleaned' /\ Untouched' /\ PostInv' /\ FirstInv' /\ Obeyed' /\ FirstAnswerDecides'
    BY DEF IInv, PromptsCleaned, Untouched, PostInv, FirstInv, Obeyed, FirstAnswerDecides, At, Id
<1>3. QED
    BY <1>1, <1>2 DEF IInv

-----------------------------------------------------------------------------
(* A new prompt: its name is one that nobody has used.                     *)
LEMMA PromptStep ==
    ASSUME NEW c \in Chats, IInv, Prompt(c)
    PROVE  IInv'
<1>1. /\ chat \in [Chats -> Chat] /\ chat[c] \in Chat /\ chat[c].pc = "calls"
      /\ chat[c].calls # <<>> /\ chat[c].round < MaxRounds
      /\ chat[c].prompt + Len(chat[c].calls) <= Made(chat[c].round) + MaxCalls
    BY DEF IInv, TypeOK, Chat, CountInv, Counted, Prompt, At, Prompted, CallsLeft
<1>2. /\ MaxCalls \in Nat /\ Made(chat[c].round) \in Nat /\ chat[c].prompt \in Nat
      /\ Len(chat[c].calls) \in Nat /\ Len(chat[c].calls) > 0 /\ LastPrompt \in Nat
      /\ Made(chat[c].round) + MaxCalls <= LastPrompt
    BY <1>1, ChatAssumption, Products, Calls DEF Chat
<1>3. /\ chat' = [chat EXCEPT ![c] = chat'[c]]
      /\ chat'[c] = [chat[c] EXCEPT !.pc = "prompt", !.prompt = @ + 1]
    BY <1>1 DEF Prompt
<1>4. /\ chat'[c] \in Chat /\ chat'[c].pc = "prompt" /\ chat'[c].prompt = chat[c].prompt + 1
      /\ chat'[c].round = chat[c].round /\ chat'[c].calls = chat[c].calls
    <2>1. chat[c].prompt + 1 \in 0 .. LastPrompt
        BY <1>1, <1>2
    <2>2. QED
        BY <1>1, <1>3, <2>1 DEF Chat, Steps
<1>5. /\ chat' \in [Chats -> Chat] /\ \A d \in Chats \ {c} : chat'[d] = chat[d]
      /\ \A d \in Chats \ {c} : Id(d)' = Id(d)
    BY <1>3, <1>4, OneChat DEF Id
<1>6. Id(c)' \in Ids /\ Id(c)' = <<c, chat[c].prompt + 1>>
    BY <1>2, <1>4 DEF Id, Ids, Chat
<1>7. TypeOK'
    BY <1>5, <1>6 DEF IInv, TypeOK, Chat, Prompt, observed
<1>8. CountInv'
    <2>1. Counted(c)'
        BY <1>1, <1>2, <1>4 DEF Counted, At, Prompted, CallsLeft
    <2>2. QED
        BY <1>3, <1>4, <2>1, OneChat
<1>9. SlotInv'
    BY <1>1, <1>4, <1>5 DEF IInv, SlotInv, At, Prompt
<1>10. PromptsCleaned'
    <2>1. {x \in Chats : At(x, "prompt") \/ At(x, "remove")}'
              = {x \in Chats : At(x, "prompt") \/ At(x, "remove")} \cup {c}
        BY <1>1, <1>4, <1>5 DEF At
    <2>2. pending' = pending \cup {Id(c)'} /\ c \notin {x \in Chats : At(x, "prompt") \/ At(x, "remove")}
        BY <1>1, <1>6 DEF Prompt, At
    <2>3. QED
        BY <1>5, <2>1, <2>2 DEF IInv, PromptsCleaned
<1>11. \A i \in Ids : i[1] \in Chats /\ i[2] \in Nat
    BY <1>2 DEF Ids
<1>12. \A d \in Chats : chat[d].prompt \in Nat /\ chat[d].prompt <= chat'[d].prompt
    <2>1. \A d \in Chats : chat[d].prompt \in Nat
        BY <1>1, <1>2 DEF Chat
    <2>2. \A d \in Chats \ {c} : chat'[d].prompt = chat[d].prompt
        BY <1>5
    <2>3. QED
        BY <1>2, <1>4, <2>1, <2>2
<1>13. Untouched'
    BY <1>5, <1>11, <1>12 DEF IInv, Untouched, Prompt, observed, Chat
<1>14. PostInv'
    BY <1>5, <1>11, <1>12 DEF IInv, TypeOK, PostInv, Prompt, observed, Chat
<1>15. FirstInv'
    <2>1. channel[Id(c)'] = <<>> /\ first[Id(c)'] = <<>>
        BY <1>2, <1>6 DEF IInv, Untouched
    <2>2. ASSUME NEW d \in Chats, At(d, "prompt")' PROVE (channel[Id(d)] = first[Id(d)])'
        <3>1. CASE d = c
            BY <2>1, <3>1 DEF Prompt, observed
        <3>2. CASE d # c
            <4>1. At(d, "prompt") /\ Id(d)' = Id(d)
                BY <1>5, <2>2, <3>2 DEF At
            <4>2. QED
                BY <4>1 DEF IInv, FirstInv, Prompt, observed
        <3>3. QED
            BY <3>1, <3>2
    <2>3. QED
        BY <2>2 DEF IInv, FirstInv, Prompt, observed
<1>16. Obeyed' /\ FirstAnswerDecides'
    <2>1. ~ (At(c, "remove") \/ At(c, "queued"))'
        BY <1>4 DEF At
    <2>2. ASSUME NEW d \in Chats, ((At(d, "remove") /\ chat[d].answer) \/ At(d, "queued"))'
          PROVE  (first[Id(d)] = <<TRUE>>)'
        <3>1. chat'[d] = chat[d] /\ Id(d)' = Id(d)
            BY <1>5, <2>1, <2>2
        <3>2. QED
            BY <2>2, <3>1 DEF IInv, Obeyed, At, Prompt, observed
    <2>3. QED
        BY <2>2 DEF IInv, Obeyed, FirstAnswerDecides, Prompt, observed
<1>17. QED
    BY <1>7, <1>8, <1>9, <1>10, <1>13, <1>14, <1>15, <1>16 DEF IInv

(* Names of different chats' prompts differ.                               *)
LEMMA DifferentIds ==
    ASSUME NEW c, NEW d, c # d
    PROVE  Id(c) # Id(d)
BY DEF Id

(* The select: what the chat takes for an answer is the first one sent.    *)
LEMMA DecideStep ==
    ASSUME NEW c \in Chats, IInv, Decide(c)
    PROVE  IInv'
<1>1. chat \in [Chats -> Chat] /\ chat[c] \in Chat /\ chat[c].pc = "prompt" /\ Id(c) \in Ids
    BY DEF IInv, TypeOK, Chat, Decide, At, CountInv, Counted, Prompted, Id, Ids
<1>2. /\ chat' = [chat EXCEPT ![c] = chat'[c]] /\ chat'[c] \in Chat
      /\ chat'[c].pc = "remove" /\ chat'[c].prompt = chat[c].prompt
      /\ chat'[c].round = chat[c].round /\ chat'[c].calls = chat[c].calls
      /\ chat'[c].answer => first[Id(c)] = <<TRUE>>
      /\ channel' = channel \/ channel' = [channel EXCEPT ![Id(c)] = <<>>]
    <2>1. ASSUME NEW a \in BOOLEAN, chat' = [chat EXCEPT ![c].pc = "remove", ![c].answer = a]
          PROVE  /\ chat' = [chat EXCEPT ![c] = chat'[c]] /\ chat'[c] \in Chat
                 /\ chat'[c].pc = "remove" /\ chat'[c].prompt = chat[c].prompt
                 /\ chat'[c].round = chat[c].round /\ chat'[c].calls = chat[c].calls
                 /\ chat'[c].answer = a
        <3>1. chat'[c] = [chat[c] EXCEPT !.pc = "remove", !.answer = a]
            BY <1>1, <2>1
        <3>2. chat' = [chat EXCEPT ![c] = chat'[c]]
            BY <1>1, <2>1
        <3>3. QED
            BY <1>1, <3>1, <3>2 DEF Chat, Steps
    <2>2. CASE /\ channel[Id(c)] # <<>>
               /\ chat' = [chat EXCEPT ![c].pc = "remove", ![c].answer = Head(channel[Id(c)])]
               /\ channel' = [channel EXCEPT ![Id(c)] = <<>>]
        <3>1. channel[Id(c)] = first[Id(c)]
            BY <1>1 DEF IInv, FirstInv, At
        <3>2. channel[Id(c)] = <<TRUE>> \/ channel[Id(c)] = <<FALSE>>
            BY <1>1, <2>2 DEF IInv, TypeOK
        <3>3. CASE channel[Id(c)] = <<TRUE>>
            <4>1. chat' = [chat EXCEPT ![c].pc = "remove", ![c].answer = TRUE]
                BY <2>2, <3>3
            <4>2. QED
                BY <2>1, <2>2, <3>1, <3>3, <4>1
        <3>4. CASE channel[Id(c)] = <<FALSE>>
            <4>1. chat' = [chat EXCEPT ![c].pc = "remove", ![c].answer = FALSE]
                BY <2>2, <3>4
            <4>2. QED
                BY <2>1, <2>2, <4>1
        <3>5. QED
            BY <3>2, <3>3, <3>4
    <2>3. CASE /\ chat' = [chat EXCEPT ![c].pc = "remove", ![c].answer = FALSE]
               /\ UNCHANGED channel
        BY <2>1, <2>3
    <2>4. QED
        BY <2>2, <2>3 DEF Decide
<1>3. /\ chat' \in [Chats -> Chat] /\ \A d \in Chats \ {c} : chat'[d] = chat[d]
      /\ \A d \in Chats : Id(d)' = Id(d) /\ chat'[d].prompt = chat[d].prompt
    BY <1>2, OneChat DEF Id
<1>4. TypeOK'
    BY <1>1, <1>2, <1>3 DEF IInv, TypeOK, Chat, Decide, observed
<1>5. CountInv'
    <2>1. Counted(c)'
        BY <1>1, <1>2 DEF IInv, CountInv, Counted, At, Prompted, CallsLeft
    <2>2. QED
        BY <1>2, <2>1, OneChat
<1>6. SlotInv'
    BY <1>1, <1>2, <1>3 DEF IInv, SlotInv, At, Decide
<1>7. PromptsCleaned'
    <2>1. {x \in Chats : At(x, "prompt") \/ At(x, "remove")}'
              = {x \in Chats : At(x, "prompt") \/ At(x, "remove")}
        BY <1>1, <1>2, <1>3 DEF At
    <2>2. QED
        BY <1>3, <2>1 DEF IInv, PromptsCleaned, Decide
<1>8. Untouched'
    BY <1>1, <1>2, <1>3 DEF IInv, TypeOK, Untouched, Decide, observed, Ids
<1>9. PostInv'
    BY <1>3 DEF IInv, TypeOK, PostInv, Decide, observed, Ids
<1>10. FirstInv'
    <2>1. ASSUME NEW d \in Chats, At(d, "prompt")' PROVE (channel[Id(d)] = first[Id(d)])'
        <3>1. d # c
            BY <1>2, <2>1 DEF At
        <3>2. At(d, "prompt") /\ Id(d)' = Id(d) /\ Id(d) # Id(c)
            BY <1>3, <2>1, <3>1, DifferentIds DEF At
        <3>3. Id(d) \in Ids
            BY <3>2 DEF IInv, TypeOK, CountInv, Counted, At, Prompted, Id, Ids
        <3>4. channel'[Id(d)] = channel[Id(d)]
            BY <1>2, <3>2, <3>3 DEF IInv, TypeOK
        <3>5. QED
            BY <3>2, <3>4 DEF IInv, FirstInv, Decide, observed
    <2>2. QED
        BY <2>1 DEF IInv, FirstInv, Decide, observed
<1>11. Obeyed'
    <2>1. ASSUME NEW d \in Chats, ((At(d, "remove") /\ chat[d].answer) \/ At(d, "queued"))'
          PROVE  (first[Id(d)] = <<TRUE>>)'
        <3>1. CASE d = c
            BY <1>2, <1>3, <2>1, <3>1 DEF At, Decide, observed
        <3>2. CASE d # c
            BY <1>3, <2>1, <3>2 DEF IInv, Obeyed, At, Decide, observed
        <3>3. QED
            BY <3>1, <3>2
    <2>2. QED
        BY <2>1 DEF Obeyed
<1>12. QED
    BY <1>4, <1>5, <1>6, <1>7, <1>8, <1>9, <1>10, <1>11
       DEF IInv, FirstAnswerDecides, Decide, observed

(* The chat takes its prompt back and obeys what it took for the answer.   *)
LEMMA RemovePendingStep ==
    ASSUME NEW c \in Chats, IInv, RemovePending(c)
    PROVE  IInv'
<1>1. /\ chat \in [Chats -> Chat] /\ chat[c].pc = "remove" /\ Prompted(c)
      /\ chat[c].calls # <<>> /\ Id(c) \in Ids
    BY DEF IInv, TypeOK, Chat, RemovePending, At, CountInv, Counted, Prompted, Id, Ids
<1>2. /\ chat' = [chat EXCEPT ![c] = chat'[c]] /\ chat'[c] \in Chat
      /\ chat'[c].prompt = chat[c].prompt /\ CountInv'
      /\ chat'[c].pc = "calls" \/ (chat'[c].pc = "queued" /\ chat[c].answer)
      /\ ran' = ran \/ (ran' = ran \cup {Id(c)} /\ chat[c].answer)
    <2>1. CASE NextCall(c)
        BY <1>1, <2>1, NextCallMoves DEF RemovePending, Obey
    <2>2. CASE Goto(c, "queued") /\ chat[c].answer
        BY <1>1, <2>2, GotoMoves DEF RemovePending, Obey, Steps
    <2>3. QED
        BY <2>1, <2>2 DEF RemovePending, Obey
<1>3. /\ chat' \in [Chats -> Chat] /\ \A d \in Chats \ {c} : chat'[d] = chat[d]
      /\ \A d \in Chats : Id(d)' = Id(d) /\ chat'[d].prompt = chat[d].prompt
    BY <1>2, OneChat DEF Id
<1>4. chat[c].answer => first[Id(c)] = <<TRUE>>
    BY <1>1 DEF IInv, Obeyed, At
<1>5. TypeOK'
    BY <1>1, <1>2, <1>3 DEF IInv, TypeOK, Chat, RemovePending
<1>6. SlotInv'
    BY <1>1, <1>2, <1>3 DEF IInv, SlotInv, At, RemovePending
<1>7. PromptsCleaned'
    <2> DEFINE Waiting == {x \in Chats : At(x, "prompt") \/ At(x, "remove")}
    <2>1. Waiting' = Waiting \ {c} /\ c \in Waiting
        BY <1>1, <1>2, <1>3 DEF At
    <2>2. pending = {Id(d) : d \in Waiting} /\ pending' = pending \ {Id(c)}
        BY DEF IInv, PromptsCleaned, RemovePending
    <2>3. \A d \in Waiting \ {c} : Id(d) # Id(c) /\ Id(d)' = Id(d)
        BY <1>3, DifferentIds
    <2>4. pending' = {Id(d)' : d \in Waiting'}
        BY <2>1, <2>2, <2>3
    <2>5. QED
        BY <2>4 DEF PromptsCleaned
<1>8. Untouched'
    BY <1>1, <1>3 DEF IInv, TypeOK, Untouched, RemovePending, Ids
<1>9. PostInv'
    BY <1>3 DEF IInv, TypeOK, PostInv, RemovePending, Ids
<1>10. FirstInv'
    <2>1. ASSUME NEW d \in Chats, At(d, "prompt")' PROVE (channel[Id(d)] = first[Id(d)])'
        <3>1. d # c
            BY <1>2, <2>1 DEF At
        <3>2. At(d, "prompt") /\ Id(d)' = Id(d) /\ Id(d) # Id(c)
            BY <1>3, <2>1, <3>1, DifferentIds DEF At
        <3>3. Id(d) \in Ids
            BY <3>2 DEF IInv, TypeOK, CountInv, Counted, At, Prompted, Id, Ids
        <3>4. channel'[Id(d)] = channel[Id(d)]
            BY <3>2, <3>3 DEF IInv, TypeOK, RemovePending
        <3>5. QED
            BY <3>2, <3>4 DEF IInv, FirstInv, RemovePending
    <2>2. QED
        BY <2>1 DEF IInv, FirstInv, RemovePending
<1>11. Obeyed'
    <2>1. ASSUME NEW d \in Chats, ((At(d, "remove") /\ chat[d].answer) \/ At(d, "queued"))'
          PROVE  (first[Id(d)] = <<TRUE>>)'
        <3>1. CASE d = c
            BY <1>2, <1>3, <1>4, <2>1, <3>1 DEF At, RemovePending
        <3>2. CASE d # c
            BY <1>3, <2>1, <3>2 DEF IInv, Obeyed, At, RemovePending
        <3>3. QED
            BY <3>1, <3>2
    <2>2. QED
        BY <2>1 DEF Obeyed
<1>12. FirstAnswerDecides'
    BY <1>2, <1>4 DEF IInv, FirstAnswerDecides, RemovePending
<1>13. QED
    BY <1>2, <1>5, <1>6, <1>7, <1>8, <1>9, <1>10, <1>11, <1>12 DEF IInv

-----------------------------------------------------------------------------
(* An answer is let through: it is the owner's, and to a prompt that is    *)
(* registered.                                                             *)
LEMMA LookupStep ==
    ASSUME NEW p \in Posts, NEW i \in Ids, NEW ip \in IPs, NEW allow \in BOOLEAN,
           IInv, Lookup(p, i, ip, allow)
    PROVE  IInv'
<1>1. PICK c \in Chats : i = Id(c)
    BY DEF IInv, PromptsCleaned, Lookup, MayAnswer
<1>2. i[1] = c /\ i[2] = chat[c].prompt /\ i # <<>>
    BY <1>1 DEF Id
<1>3. /\ consent \subseteq consent' /\ consent' \subseteq Ids
      /\ allow => i \in consent'
    BY DEF Lookup, MayAnswer, IInv, TypeOK
<1>4. post' \in [Posts -> [id : Ids \cup {<<>>}, allow : BOOLEAN]]
    BY DEF Lookup, IInv, TypeOK
<1>5. TypeOK'
    BY <1>3, <1>4 DEF IInv, TypeOK, Lookup, Ids
<1>6. CountInv' /\ SlotInv' /\ PromptsCleaned' /\ Untouched' /\ Obeyed' /\ FirstAnswerDecides'
    BY DEF IInv, Lookup, CountInv, Counted, At, Prompted, CallsLeft, SlotInv, PromptsCleaned,
           Untouched, Obeyed, FirstAnswerDecides, Id
<1>7. PostInv'
    <2>1. \A q \in Posts \ {p} : post'[q] = post[q]
        BY DEF Lookup, IInv, TypeOK
    <2>2. post'[p].id = i /\ post'[p].allow = allow
        BY DEF Lookup, IInv, TypeOK
    <2>3. chat[c].prompt <= chat[c].prompt
        BY Products, ChatAssumption DEF IInv, TypeOK
    <2>4. QED
        BY <1>2, <1>3, <2>1, <2>2, <2>3 DEF IInv, PostInv, Lookup
<1>8. FirstInv'
    BY <1>3 DEF IInv, FirstInv, Lookup, At, Id
<1>9. QED
    BY <1>5, <1>6, <1>7, <1>8 DEF IInv

(* An answer reaches the channel, if somebody still reads it.              *)
LEMMA SendStep ==
    ASSUME NEW p \in Posts, IInv, Send(p)
    PROVE  IInv'
<1> DEFINE i == post[p].id
<1>1. i \in Ids /\ i # <<>> /\ post[p].allow \in BOOLEAN /\ (post[p].allow => i \in consent)
    BY DEF Send, IInv, TypeOK, PostInv
<1>2. i[2] <= chat[i[1]].prompt
    BY DEF Send, IInv, PostInv
<1>3. /\ channel' = channel \/ channel' = [channel EXCEPT ![i] = Delivered(@, post[p].allow)]
      /\ first' = IF first[i] = <<>> /\ i \in pending
                  THEN [first EXCEPT ![i] = <<post[p].allow>>] ELSE first
      /\ i \in pending => channel' = [channel EXCEPT ![i] = Delivered(@, post[p].allow)]
    BY DEF Send
<1>4. \A j \in Ids : j # i => channel'[j] = channel[j] /\ first'[j] = first[j]
    BY <1>1, <1>3 DEF IInv, TypeOK
<1>5. \A j \in Ids : first[j] = <<TRUE>> => first'[j] = <<TRUE>>
    <2>1. <<TRUE>> # <<>>
        OBVIOUS
    <2>2. QED
        BY <1>1, <1>3, <1>4, <2>1 DEF IInv, TypeOK
<1>6. post' = [post EXCEPT ![p] = [id |-> <<>>, allow |-> FALSE]]
    BY DEF Send
<1>7. TypeOK'
    <2>1. channel[i] \in {<<>>, <<TRUE>>, <<FALSE>>}
        BY <1>1 DEF IInv, TypeOK
    <2>2. Delivered(channel[i], post[p].allow) \in {<<>>, <<TRUE>>, <<FALSE>>}
        BY <1>1, <2>1 DEF Delivered
    <2>3. channel' \in [Ids -> {<<>>, <<TRUE>>, <<FALSE>>}]
        BY <1>1, <1>3, <2>2 DEF IInv, TypeOK
    <2>4. <<post[p].allow>> \in {<<>>, <<TRUE>>, <<FALSE>>}
        BY <1>1
    <2>5. first' \in [Ids -> {<<>>, <<TRUE>>, <<FALSE>>}]
        BY <1>1, <1>3, <2>4 DEF IInv, TypeOK
    <2>6. post' \in [Posts -> [id : Ids \cup {<<>>}, allow : BOOLEAN]]
        BY <1>6 DEF IInv, TypeOK
    <2>7. QED
        BY <2>3, <2>5, <2>6 DEF IInv, TypeOK, Send
<1>8. CountInv' /\ SlotInv' /\ PromptsCleaned'
    BY DEF IInv, Send, CountInv, Counted, At, Prompted, CallsLeft, SlotInv, PromptsCleaned, Id
<1>9. Untouched'
    <2>1. SUFFICES ASSUME NEW j \in Ids, j[2] > chat[j[1]].prompt
                   PROVE  channel'[j] = <<>> /\ first'[j] = <<>>
        BY DEF Untouched, Send
    <2>2. j # i
        BY <1>1, <1>2, <2>1, ChatAssumption, Products DEF IInv, TypeOK, Ids
    <2>3. QED
        BY <1>4, <2>1, <2>2 DEF IInv, Untouched
<1>10. PostInv'
    <2>1. \A q \in Posts \ {p} : post'[q] = post[q]
        BY <1>6 DEF IInv, TypeOK
    <2>2. post'[p].id = <<>>
        BY <1>6 DEF IInv, TypeOK
    <2>3. QED
        BY <2>1, <2>2 DEF IInv, PostInv, Send
<1>11. FirstInv'
    <2>1. ASSUME NEW c \in Chats, At(c, "prompt") PROVE channel'[Id(c)] = first'[Id(c)]
        <3>1. Id(c) \in Ids /\ Id(c) \in pending /\ channel[Id(c)] = first[Id(c)]
            BY <2>1 DEF IInv, TypeOK, CountInv, Counted, At, Prompted, PromptsCleaned, FirstInv, Id, Ids
        <3>2. CASE Id(c) # i
            BY <1>4, <3>1, <3>2
        <3>3. CASE Id(c) = i
            <4>1. channel'[i] = Delivered(channel[i], post[p].allow)
                BY <1>1, <1>3, <3>1, <3>3 DEF IInv, TypeOK
            <4>2. first'[i] = IF first[i] = <<>> THEN <<post[p].allow>> ELSE first[i]
                BY <1>1, <1>3, <3>1, <3>3 DEF IInv, TypeOK
            <4>3. QED
                BY <3>1, <3>3, <4>1, <4>2 DEF Delivered
        <3>4. QED
            BY <3>2, <3>3
    <2>2. ASSUME NEW j \in Ids, first'[j] = <<TRUE>> PROVE j \in consent
        <3>1. CASE first[j] = <<TRUE>>
            BY <3>1 DEF IInv, FirstInv
        <3>2. CASE first[j] # <<TRUE>>
            <4>1. j = i /\ first[i] = <<>> /\ first'[i] = <<post[p].allow>>
                BY <1>1, <1>3, <1>4, <2>2, <3>2 DEF IInv, TypeOK
            <4>2. <<post[p].allow>> = <<TRUE>>
                BY <2>2, <4>1
            <4>3. post[p].allow = TRUE
                BY <4>2
            <4>4. QED
                BY <1>1, <4>1, <4>3
        <3>3. QED
            BY <3>1, <3>2
    <2>3. QED
        BY <2>1, <2>2 DEF FirstInv, Send, At, Id
<1>12. Obeyed'
    <2>1. ASSUME NEW c \in Chats, (At(c, "remove") /\ chat[c].answer) \/ At(c, "queued")
          PROVE  first'[Id(c)] = <<TRUE>>
        <3>1. first[Id(c)] = <<TRUE>>
            BY <2>1 DEF IInv, Obeyed
        <3>2. Prompted(c)
            BY <2>1 DEF At, Prompted
        <3>3. Id(c) \in Ids
            BY <3>2 DEF IInv, TypeOK, CountInv, Counted, Id, Ids
        <3>4. QED
            BY <1>5, <3>1, <3>3
    <2>2. QED
        BY <2>1 DEF Obeyed, Send, At, Id
<1>13. FirstAnswerDecides'
    <2>1. ASSUME NEW j \in ran PROVE first'[j] = <<TRUE>>
        <3>1. j \in Ids /\ first[j] = <<TRUE>>
            BY DEF IInv, TypeOK, FirstAnswerDecides
        <3>2. QED
            BY <1>5, <3>1
    <2>2. QED
        BY <2>1 DEF FirstAnswerDecides, Send
<1>14. QED
    BY <1>7, <1>8, <1>9, <1>10, <1>11, <1>12, <1>13 DEF IInv

-----------------------------------------------------------------------------
LEMMA InitIInv == Init => IInv
<1>1. SUFFICES ASSUME Init PROVE IInv
    OBVIOUS
<1>2. MaxRounds \in Nat \ {0} /\ MaxCalls \in Nat \ {0} /\ LastPrompt \in Nat /\ Made(0) = 0
    BY ChatAssumption, Products DEF Made
<1>3. <<>> \in BoundedSeq(Tools, MaxCalls)
    <2>1. <<>> \in Seq(Tools) /\ Len(<<>>) <= MaxCalls
        BY <1>2
    <2>2. QED
        BY <1>2, <2>1, Bounded
<1>4. TypeOK
    <2>1. [pc |-> "backend", round |-> 0, calls |-> <<>>, prompt |-> 0, answer |-> FALSE] \in Chat
        BY <1>2, <1>3 DEF Chat, Steps
    <2>2. chat \in [Chats -> Chat]
        BY <1>1, <2>1 DEF Init
    <2>3. QED
        BY <1>1, <2>2 DEF Init, TypeOK, Chat
<1>5. CountInv /\ SlotInv
    BY <1>1, <1>2 DEF Init, CountInv, Counted, At, Prompted, SlotInv
<1>6. PromptsCleaned
    BY <1>1 DEF Init, PromptsCleaned, At
<1>7. Untouched /\ PostInv /\ FirstInv /\ Obeyed /\ FirstAnswerDecides
    BY <1>1 DEF Init, Untouched, PostInv, FirstInv, Obeyed, FirstAnswerDecides, At
<1>8. QED
    BY <1>4, <1>5, <1>6, <1>7 DEF IInv

LEMMA NextIInv == IInv /\ [Next]_vars => IInv'
<1>1. SUFFICES ASSUME IInv, [Next]_vars PROVE IInv'
    OBVIOUS
<1>2. ASSUME NEW c \in Chats, Handler(c) PROVE IInv'
    BY <1>1, <1>2, BackendStep, NextRoundStep, SafeCallStep, PromptStep, DecideStep,
       RemovePendingStep, AcquireStep, ExitStep, FinishStep, FinalStep, Zenon DEF Handler
<1>3. ASSUME NEW c \in Chats, Close(c) PROVE IInv'
    BY <1>1, <1>3, CloseStep
<1>4. ASSUME NEW p \in Posts, NEW i \in Ids, NEW ip \in IPs, NEW allow \in BOOLEAN,
             Lookup(p, i, ip, allow)
      PROVE  IInv'
    BY <1>1, <1>4, LookupStep
<1>5. ASSUME NEW p \in Posts, Send(p) PROVE IInv'
    BY <1>1, <1>5, SendStep
<1>6. CASE UNCHANGED vars
    <2> USE <1>1, <1>6 DEF vars, IInv
    <2>1. TypeOK' /\ CountInv' /\ SlotInv'
        BY DEF TypeOK, Ids, CountInv, Counted, At, Prompted, CallsLeft, SlotInv
    <2>2. PromptsCleaned' /\ Untouched' /\ PostInv' /\ FirstInv' /\ Obeyed' /\ FirstAnswerDecides'
        BY DEF PromptsCleaned, Untouched, PostInv, FirstInv, Obeyed, FirstAnswerDecides, At, Id
    <2>3. QED
        BY <2>1, <2>2
<1>7. QED
    BY <1>1, <1>2, <1>3, <1>4, <1>5, <1>6, Zenon DEF Next

LEMMA AlwaysIInv == Spec => []IInv
<1>1. QED
    BY InitIInv, NextIInv, PTL DEF Spec

(* Every variable of the tool loop, the broker and the semaphore keeps its *)
(* type: no chat runs out of prompt numbers, no channel holds more than    *)
(* one answer.                                                             *)
THEOREM ChatTypes == Spec => []TypeOK
<1>1. IInv => TypeOK
    BY DEF IInv
<1>2. QED
    BY <1>1, AlwaysIInv, PTL

(* A prompt whose tool ran was first answered yes.                         *)
THEOREM FirstAnswer == Spec => []FirstAnswerDecides
<1>1. IInv => FirstAnswerDecides
    BY DEF IInv
<1>2. QED
    BY <1>1, AlwaysIInv, PTL

(* No unsafe tool runs on a prompt that its owner's address did not allow. *)
THEOREM OwnerDecides == Spec => []OnlyOwnerApproves
<1>1. IInv => OnlyOwnerApproves
    BY DEF IInv, TypeOK, FirstAnswerDecides, FirstInv, OnlyOwnerApproves
<1>2. QED
    BY <1>1, AlwaysIInv, PTL

(* The broker holds exactly the prompts that a chat still waits on.        *)
THEOREM NoPromptLeft == Spec => []PromptsCleaned
<1>1. IInv => PromptsCleaned
    BY DEF IInv
<1>2. QED
    BY <1>1, AlwaysIInv, PTL
-----------------------------------------------------------------------------
(***************************************************************************)
(* ChatPermission implements ToolGate: its steps, seen through the mapping *)
(* of the INSTANCE Gate, are steps of the gate or change nothing of it.    *)
(***************************************************************************)
(* What the gate sees of the prompts' numbers, the answers and the queue.  *)
Asked    == {i \in Ids : i[2] <= chat[i[1]].prompt}
Granted  == {i \in Ids : first[i] = <<TRUE>>}
Refused  == {i \in Ids : first[i] = <<FALSE>>}
Licensed == {Id(c) : c \in {x \in Chats : At(x, "queued")}}

(* A prompt under way has not run its tool: its number is new, and nothing *)
(* runs before the prompt is closed and the slot is there.                 *)
Undone(c) == chat[c].pc \in {"prompt", "remove", "queued"}
NotRunYet == \A c \in Chats : Undone(c) => Id(c) \notin ran

(* The chat moves, and the others do not.                                  *)
Alone(c) == \A d \in Chats \ {c} : chat'[d] = chat[d]

LEMMA NotRunYetKept ==
    ASSUME NEW c \in Chats, NotRunYet, Alone(c), ran' \subseteq ran \cup {Id(c)},
           Undone(c)' => Id(c)' \notin ran'
    PROVE  NotRunYet'
<1>1. ASSUME NEW d \in Chats \ {c}, Undone(d)' PROVE Id(d)' \notin ran'
    <2>1. Undone(d) /\ Id(d)' = Id(d) /\ Id(d) # Id(c)
        BY <1>1, DifferentIds DEF Undone, Alone, Id
    <2>2. QED
        BY <2>1 DEF NotRunYet
<1>2. QED
    BY <1>1 DEF NotRunYet

(* The steps that the gate does not see: the chat stays at its prompt's    *)
(* number and neither joins nor leaves the queue.                          *)
Aside(c) == Backend(c) \/ NextRound(c) \/ SafeCall(c) \/ Decide(c)
                \/ Exit(c) \/ Finish(c) \/ Final(c)

LEMMA AsideMoves ==
    ASSUME NEW c \in Chats, IInv, Aside(c)
    PROVE  /\ chat'[c].prompt = chat[c].prompt /\ Alone(c)
           /\ chat[c].pc # "queued" /\ chat'[c].pc # "queued"
           /\ Undone(c)' => Undone(c)
           /\ UNCHANGED <<pending, ran, consent, first>>
<1>1. chat \in [Chats -> Chat] /\ chat[c] \in Chat
    BY DEF IInv, TypeOK, Chat
<1>2. UNCHANGED <<pending, ran, consent, first>>
    BY DEF Aside, Backend, NextRound, SafeCall, Decide, Exit, Finish, Final, observed
<1>3. CASE Backend(c)
    BY <1>1, <1>2, <1>3 DEF Backend, Chat, At, Goto, Alone, Undone
<1>4. CASE NextRound(c)
    BY <1>1, <1>2, <1>4 DEF NextRound, Chat, At, Alone, Undone
<1>5. CASE SafeCall(c)
    BY <1>1, <1>2, <1>5 DEF SafeCall, Chat, At, NextCall, Alone, Undone
<1>6. CASE Decide(c)
    BY <1>1, <1>2, <1>6 DEF Decide, Chat, At, Alone, Undone
<1>7. CASE Exit(c)
    BY <1>1, <1>2, <1>7 DEF Exit, Chat, At, Goto, Alone, Undone
<1>8. CASE Finish(c)
    BY <1>1, <1>2, <1>8 DEF Finish, Chat, At, NextCall, Alone, Undone
<1>9. CASE Final(c)
    BY <1>1, <1>2, <1>9 DEF Final, Chat, At, Goto, Alone, Undone
<1>10. QED
    BY <1>3, <1>4, <1>5, <1>6, <1>7, <1>8, <1>9 DEF Aside

(* What the other steps of a chat do to it.                                *)
LEMMA PromptMoves ==
    ASSUME NEW c \in Chats, IInv, Prompt(c)
    PROVE  /\ Alone(c) /\ chat[c].prompt \in Nat /\ chat'[c].prompt = chat[c].prompt + 1
           /\ chat[c].pc = "calls" /\ chat'[c].pc = "prompt"
           /\ Id(c)' = <<c, chat[c].prompt + 1>> /\ Id(c)' \in Ids
           /\ first[Id(c)'] = <<>> /\ Id(c)' \notin ran
<1>1. chat \in [Chats -> Chat] /\ chat[c] \in Chat /\ LastPrompt \in Nat
    BY Products, ChatAssumption DEF IInv, TypeOK, Chat
<1>2. chat'[c] = [chat[c] EXCEPT !.pc = "prompt", !.prompt = @ + 1] /\ Alone(c)
    BY <1>1 DEF Prompt, Alone
<1>3. /\ chat[c].prompt \in Nat /\ chat'[c].prompt = chat[c].prompt + 1
      /\ chat[c].pc = "calls" /\ chat'[c].pc = "prompt"
    BY <1>1, <1>2 DEF Chat, Prompt, At
<1>4. Id(c)' \in Ids /\ Id(c)' = <<c, chat[c].prompt + 1>>
    <2>1. pending' \subseteq Ids /\ <<c, chat[c].prompt + 1>> \in pending'
        BY PromptStep DEF IInv, TypeOK, Prompt, Ids
    <2>2. QED
        BY <1>3, <2>1 DEF Id, Ids
<1>5. first[Id(c)'] = <<>>
    BY <1>3, <1>4 DEF IInv, Untouched
<1>6. Id(c)' \notin ran
    <2>1. <<TRUE>> # <<>>
        OBVIOUS
    <2>2. QED
        BY <1>5, <2>1 DEF IInv, FirstAnswerDecides
<1>7. QED
    BY <1>2, <1>3, <1>4, <1>5, <1>6

LEMMA RemoveMoves ==
    ASSUME NEW c \in Chats, IInv, RemovePending(c)
    PROVE  /\ Alone(c) /\ chat'[c].prompt = chat[c].prompt /\ Id(c)' = Id(c)
           /\ chat[c].pc = "remove" /\ Id(c) \in Ids /\ Id(c) \in pending
           /\ pending' = pending \ {Id(c)}
           /\ \/ chat'[c].pc = "calls" /\ ran' = ran
              \/ chat'[c].pc = "calls" /\ ran' = ran \cup {Id(c)} /\ first[Id(c)] = <<TRUE>>
              \/ chat'[c].pc = "queued" /\ ran' = ran /\ first[Id(c)] = <<TRUE>>
<1>1. /\ chat \in [Chats -> Chat] /\ chat[c] \in Chat /\ chat[c].pc = "remove"
      /\ Id(c) \in pending /\ pending \subseteq Ids /\ pending' = pending \ {Id(c)}
      /\ chat[c].answer => first[Id(c)] = <<TRUE>>
    BY DEF IInv, TypeOK, Chat, RemovePending, At, PromptsCleaned, Obeyed
<1>2. CASE NextCall(c) /\ UNCHANGED ran
    BY <1>1, <1>2 DEF NextCall, Chat, Alone, Id
<1>3. CASE chat[c].answer /\ NextCall(c) /\ ran' = ran \cup {Id(c)}
    BY <1>1, <1>3 DEF NextCall, Chat, Alone, Id
<1>4. CASE chat[c].answer /\ Goto(c, "queued") /\ UNCHANGED ran
    BY <1>1, <1>4 DEF Goto, Chat, Alone, Id
<1>5. QED
    BY <1>2, <1>3, <1>4 DEF RemovePending, Obey

LEMMA AcquireMoves ==
    ASSUME NEW c \in Chats, IInv, Acquire(c)
    PROVE  /\ Alone(c) /\ chat'[c].prompt = chat[c].prompt /\ Id(c)' = Id(c)
           /\ chat[c].pc = "queued" /\ chat'[c].pc = "running" /\ Id(c) \in Ids
           /\ ran' = ran \cup {Id(c)}
<1>1. chat \in [Chats -> Chat] /\ chat[c] \in Chat /\ chat[c].pc = "queued"
    BY DEF IInv, TypeOK, Chat, Acquire, At
<1>2. Id(c) \in Ids
    BY <1>1 DEF IInv, TypeOK, CountInv, Counted, At, Prompted, Id, Ids
<1>3. QED
    BY <1>1, <1>2 DEF Acquire, Goto, Chat, Alone, Id

LEMMA NextNotRunYet == IInv /\ NotRunYet /\ [Next]_vars => NotRunYet'
<1> SUFFICES ASSUME IInv, NotRunYet, [Next]_vars PROVE NotRunYet'
    OBVIOUS
<1>1. ASSUME NEW c \in Chats, Aside(c) PROVE NotRunYet'
    <2>1. Undone(c)' => Id(c)' \notin ran'
        BY <1>1, AsideMoves DEF NotRunYet, Id
    <2>2. QED
        BY <1>1, <2>1, AsideMoves, NotRunYetKept
<1>2. ASSUME NEW c \in Chats, Prompt(c) PROVE NotRunYet'
    <2>1. ran' = ran
        BY <1>2 DEF Prompt, observed
    <2>2. QED
        BY <1>2, <2>1, PromptMoves, NotRunYetKept
<1>3. ASSUME NEW c \in Chats, RemovePending(c) PROVE NotRunYet'
    <2>1. Undone(c) /\ (Undone(c)' => ran' = ran)
        BY <1>3, RemoveMoves DEF Undone
    <2>2. QED
        BY <1>3, <2>1, RemoveMoves, NotRunYetKept DEF NotRunYet
<1>4. ASSUME NEW c \in Chats, Acquire(c) PROVE NotRunYet'
    <2>1. ~ Undone(c)'
        BY <1>4, AcquireMoves DEF Undone
    <2>2. QED
        BY <1>4, <2>1, AcquireMoves, NotRunYetKept
<1>5. CASE UNCHANGED <<chat, ran>>
    BY <1>5 DEF NotRunYet, Undone, Id
<1>6. ASSUME NEW c \in Chats, Close(c) PROVE NotRunYet'
    BY <1>5, <1>6 DEF Close, observed
<1>7. ASSUME NEW p \in Posts, Send(p) PROVE NotRunYet'
    BY <1>5, <1>7 DEF Send
<1>8. ASSUME NEW p \in Posts, NEW i \in Ids, NEW ip \in IPs, NEW allow \in BOOLEAN,
             Lookup(p, i, ip, allow)
      PROVE  NotRunYet'
    BY <1>5, <1>8 DEF Lookup
<1>9. CASE UNCHANGED vars
    BY <1>5, <1>9 DEF vars
<1>10. QED
    BY <1>1, <1>2, <1>3, <1>4, <1>6, <1>7, <1>8, <1>9 DEF Next, Handler, Aside

-----------------------------------------------------------------------------
(* Steps that change nothing of what the gate sees.                        *)
Unmoved == UNCHANGED <<Asked, pending, consent, Granted, Refused, Licensed, ran>>

LEMMA UnmovedStep == Unmoved => UNCHANGED Gate!gate
BY DEF Unmoved, Asked, Granted, Refused, Licensed, Gate!gate

LEMMA GateInit == Init => Gate!Init
<1> SUFFICES ASSUME Init PROVE Gate!Init
    OBVIOUS
<1>1. Asked = {}
    <2>1. \A i \in Ids : i[1] \in Chats /\ i[2] \in Nat /\ i[2] >= 1
        BY ChatAssumption, Products DEF Ids
    <2>2. QED
        BY <2>1 DEF Init, Asked
<1>2. Granted = {} /\ Refused = {} /\ Licensed = {}
    <2>1. <<TRUE>> # <<>> /\ <<FALSE>> # <<>>
        OBVIOUS
    <2>2. QED
        BY <2>1 DEF Init, Granted, Refused, Licensed, At
<1>3. QED
    BY <1>1, <1>2 DEF Init, Gate!Init, Asked, Granted, Refused, Licensed

(* The queue and the numbers, of one chat's move.                          *)
LEMMA QueueOf ==
    ASSUME NEW c \in Chats, IInv, Alone(c), chat'[c].prompt = chat[c].prompt
    PROVE  /\ Asked' = Asked
           /\ chat[c].pc # "queued" /\ chat'[c].pc # "queued" => Licensed' = Licensed
           /\ chat[c].pc # "queued" /\ chat'[c].pc = "queued"
                  => Licensed' = Licensed \cup {Id(c)}
           /\ chat[c].pc = "queued" /\ chat'[c].pc # "queued"
                  => Licensed' = Licensed \ {Id(c)} /\ Id(c) \in Licensed
<1>1. \A d \in Chats : Id(d)' = Id(d) /\ chat'[d].prompt = chat[d].prompt
    BY DEF Alone, Id
<1>2. \A d \in Chats \ {c} : At(d, "queued")' <=> At(d, "queued")
    BY DEF Alone, At
<1>3. Asked' = Asked
    BY <1>1 DEF Asked, Ids
<1> DEFINE Queue == {x \in Chats : At(x, "queued")}
<1>4. Licensed = {Id(d) : d \in Queue} /\ Licensed' = {Id(d) : d \in Queue'}
    BY <1>1 DEF Licensed
<1>5. CASE chat[c].pc # "queued" /\ chat'[c].pc # "queued"
    <2>1. Queue' = Queue
        BY <1>2, <1>5 DEF At
    <2>2. QED
        BY <1>3, <1>4, <1>5, <2>1
<1>6. CASE chat[c].pc # "queued" /\ chat'[c].pc = "queued"
    <2>1. Queue' = Queue \cup {c}
        BY <1>2, <1>6 DEF At
    <2>2. QED
        BY <1>3, <1>4, <1>6, <2>1
<1>7. CASE chat[c].pc = "queued" /\ chat'[c].pc # "queued"
    <2>1. Queue' = Queue \ {c} /\ c \in Queue
        BY <1>2, <1>7 DEF At
    <2>2. \A d \in Queue \ {c} : Id(d) # Id(c)
        BY DifferentIds
    <2>3. QED
        BY <1>3, <1>4, <1>7, <2>1, <2>2
<1>8. CASE chat[c].pc = "queued" /\ chat'[c].pc = "queued"
    BY <1>3, <1>8
<1>9. QED
    BY <1>5, <1>6, <1>7, <1>8

LEMMA AsideGate ==
    ASSUME NEW c \in Chats, IInv, Aside(c)
    PROVE  Unmoved
BY AsideMoves, QueueOf DEF Unmoved, Granted, Refused

(* A new prompt is a new name at the gate.                                 *)
LEMMA PromptGate ==
    ASSUME NEW c \in Chats, IInv, Prompt(c)
    PROVE  \E i \in Ids : Gate!Ask(i)
<1>0. PICK i \in Ids : i = <<c, chat[c].prompt + 1>>
    BY PromptMoves
<1>1. /\ Alone(c) /\ chat[c].prompt \in Nat /\ chat'[c].prompt = chat[c].prompt + 1
      /\ chat[c].pc = "calls" /\ chat'[c].pc = "prompt"
    BY PromptMoves
<1>2. i \notin Asked /\ Asked' = Asked \cup {i}
    <2>1. \A j \in Ids : /\ j[1] \in Chats /\ j[2] \in Nat /\ j = <<j[1], j[2]>>
        BY ChatAssumption, Products DEF Ids
    <2>2. i[1] = c /\ i[2] = chat[c].prompt + 1
        BY <1>0
    <2>3. i \notin Asked
        BY <1>1, <2>2 DEF Asked
    <2>4. ASSUME NEW j \in Ids PROVE j \in Asked' <=> j \in Asked \/ j = i
        <3>1. CASE j[1] = c
            BY <1>1, <2>1, <2>2, <3>1 DEF Asked
        <3>2. CASE j[1] # c
            <4>1. chat'[j[1]] = chat[j[1]] /\ j # i
                BY <1>1, <2>1, <2>2, <3>2 DEF Alone
            <4>2. QED
                BY <4>1 DEF Asked
        <3>3. QED
            BY <3>1, <3>2
    <2>5. QED
        BY <1>1, <2>3, <2>4 DEF Asked
<1>3. Licensed' = Licensed
    <2> DEFINE Queue == {x \in Chats : At(x, "queued")}
    <2>1. Queue' = Queue /\ \A d \in Queue : Id(d)' = Id(d)
        BY <1>1 DEF Alone, At, Id
    <2>2. QED
        BY <2>1 DEF Licensed
<1>4. /\ pending' = pending \cup {i} /\ UNCHANGED <<consent, ran>>
      /\ Granted' = Granted /\ Refused' = Refused
    BY <1>0 DEF Prompt, observed, Granted, Refused
<1>5. Gate!Ask(i)
    BY <1>2, <1>3, <1>4 DEF Gate!Ask, Asked, Licensed, Granted, Refused
<1>6. QED
    BY <1>5

(* The prompt closes, with a use, a licence or nothing.                    *)
LEMMA RemoveGate ==
    ASSUME NEW c \in Chats, IInv, NotRunYet, RemovePending(c)
    PROVE  \E i \in Ids : Gate!Settle(i)
<1>1. /\ Alone(c) /\ chat'[c].prompt = chat[c].prompt
      /\ chat[c].pc = "remove" /\ Id(c) \in Ids /\ Id(c) \in pending
      /\ pending' = pending \ {Id(c)}
    BY RemoveMoves
<1>2. Id(c) \notin ran
    BY <1>1 DEF NotRunYet, Undone
<1>3. /\ Asked' = Asked /\ UNCHANGED consent
      /\ Granted' = Granted /\ Refused' = Refused
    BY <1>1, QueueOf DEF RemovePending, Granted, Refused
<1>4. \/ Licensed' = Licensed /\ ran' = ran
      \/ Licensed' = Licensed /\ ran' = ran \cup {Id(c)} /\ Id(c) \in Granted
      \/ Licensed' = Licensed \cup {Id(c)} /\ ran' = ran /\ Id(c) \in Granted
    BY <1>1, RemoveMoves, QueueOf DEF Granted
<1>5. Gate!Settle(Id(c))
    BY <1>1, <1>2, <1>3, <1>4 DEF Gate!Settle, Asked, Licensed, Granted, Refused
<1>6. QED
    BY <1>1, <1>5

(* A slot comes free: the licence is used.                                 *)
LEMMA AcquireGate ==
    ASSUME NEW c \in Chats, IInv, NotRunYet, Acquire(c)
    PROVE  \E i \in Ids : Gate!Use(i)
<1>1. /\ Alone(c) /\ chat'[c].prompt = chat[c].prompt
      /\ chat[c].pc = "queued" /\ chat'[c].pc = "running" /\ Id(c) \in Ids
      /\ ran' = ran \cup {Id(c)}
    BY AcquireMoves
<1>2. Id(c) \notin ran
    BY <1>1 DEF NotRunYet, Undone
<1>3. Asked' = Asked /\ Licensed' = Licensed \ {Id(c)} /\ Id(c) \in Licensed
    BY <1>1, QueueOf
<1>4. Granted' = Granted /\ Refused' = Refused /\ UNCHANGED <<pending, consent>>
    BY DEF Acquire, Granted, Refused
<1>5. Gate!Use(Id(c))
    BY <1>1, <1>2, <1>3, <1>4 DEF Gate!Use, Asked, Licensed, Granted, Refused
<1>6. QED
    BY <1>1, <1>5

(* The owner's yes is let through; a no leaves no trace.                   *)
LEMMA LookupGate ==
    ASSUME NEW p \in Posts, NEW i \in Ids, NEW ip \in IPs, NEW allow \in BOOLEAN,
           IInv, Lookup(p, i, ip, allow)
    PROVE  Gate!Allow(i) \/ Unmoved
<1>1. i \in pending /\ (consent' = consent \cup {i} \/ consent' = consent)
    BY DEF Lookup, MayAnswer
<1>2. /\ Asked' = Asked /\ Licensed' = Licensed /\ Granted' = Granted /\ Refused' = Refused
      /\ UNCHANGED <<pending, ran>>
    BY DEF Lookup, Asked, Licensed, Granted, Refused, Id, At
<1>3. CASE consent' = consent
    BY <1>2, <1>3 DEF Unmoved
<1>4. CASE consent' = consent \cup {i}
    BY <1>1, <1>2, <1>4 DEF Gate!Allow, Asked, Licensed, Granted, Refused
<1>5. QED
    BY <1>1, <1>3, <1>4

(* The first answer to arrive is the verdict, the others change nothing.   *)
LEMMA SendGate ==
    ASSUME NEW p \in Posts, IInv, Send(p)
    PROVE  (\E i \in Ids : Gate!Answer(i)) \/ Unmoved
<1>0. PICK i \in Ids : i = post[p].id
    BY DEF Send, IInv, TypeOK
<1>1. post[p].allow \in BOOLEAN /\ (post[p].allow => i \in consent)
    BY <1>0 DEF Send, IInv, TypeOK, PostInv
<1>2. /\ first \in [Ids -> {<<>>, <<TRUE>>, <<FALSE>>}]
      /\ first' = IF first[i] = <<>> /\ i \in pending
                  THEN [first EXCEPT ![i] = <<post[p].allow>>] ELSE first
    BY <1>0 DEF Send, IInv, TypeOK
<1>3. Asked' = Asked /\ Licensed' = Licensed /\ UNCHANGED <<pending, ran, consent>>
    BY DEF Send, Asked, Licensed, Id, At
<1>4. CASE first[i] = <<>> /\ i \in pending
    <2>1. first'[i] = <<post[p].allow>> /\ \A j \in Ids : j # i => first'[j] = first[j]
        BY <1>1, <1>2, <1>4
    <2>2. <<TRUE>> # <<>> /\ <<FALSE>> # <<>> /\ <<TRUE>> # <<FALSE>>
        OBVIOUS
    <2>3. i \notin Granted /\ i \notin Refused
        BY <1>4, <2>2 DEF Granted, Refused
    <2>4. CASE post[p].allow = TRUE
        <3>1. first'[i] = <<TRUE>> /\ i \in consent
            BY <1>1, <2>1, <2>4
        <3>2. Granted' = Granted \cup {i} /\ Refused' = Refused
            BY <1>1, <2>1, <2>2, <2>3, <3>1 DEF Granted, Refused
        <3>3. Gate!Answer(i)
            BY <1>3, <1>4, <2>3, <3>1, <3>2 DEF Gate!Answer, Asked, Licensed, Granted, Refused
        <3>4. QED
            BY <3>3
    <2>5. CASE post[p].allow = FALSE
        <3>1. first'[i] = <<FALSE>>
            BY <2>1, <2>5
        <3>2. Refused' = Refused \cup {i} /\ Granted' = Granted
            BY <1>1, <2>1, <2>2, <2>3, <3>1 DEF Granted, Refused
        <3>3. Gate!Answer(i)
            BY <1>3, <1>4, <2>3, <3>2 DEF Gate!Answer, Asked, Licensed, Granted, Refused
        <3>4. QED
            BY <3>3
    <2>6. QED
        BY <1>1, <2>4, <2>5, Zenon
<1>5. CASE ~ (first[i] = <<>> /\ i \in pending)
    <2>1. first' = first
        BY <1>2, <1>5
    <2>2. QED
        BY <1>3, <2>1 DEF Unmoved, Granted, Refused
<1>6. QED
    BY <1>4, <1>5

-----------------------------------------------------------------------------
LEMMA GateNext == IInv /\ NotRunYet /\ [Next]_vars => [Gate!Next]_(Gate!gate)
<1> SUFFICES ASSUME IInv, NotRunYet, [Next]_vars PROVE Gate!Next \/ Unmoved
    BY UnmovedStep
<1>1. ASSUME NEW c \in Chats, Aside(c) PROVE Unmoved
    BY <1>1, AsideGate
<1>2. ASSUME NEW c \in Chats, Prompt(c) PROVE Gate!Next
    BY <1>2, PromptGate DEF Gate!Next
<1>3. ASSUME NEW c \in Chats, RemovePending(c) PROVE Gate!Next
    BY <1>3, RemoveGate DEF Gate!Next
<1>4. ASSUME NEW c \in Chats, Acquire(c) PROVE Gate!Next
    BY <1>4, AcquireGate DEF Gate!Next
<1>5. ASSUME NEW c \in Chats, Close(c) PROVE Unmoved
    BY <1>5 DEF Close, observed, Unmoved, Asked, Licensed, Granted, Refused, Id, At
<1>6. ASSUME NEW p \in Posts, NEW i \in Ids, NEW ip \in IPs, NEW allow \in BOOLEAN,
             Lookup(p, i, ip, allow)
      PROVE  Gate!Next \/ Unmoved
    BY <1>6, LookupGate DEF Gate!Next
<1>7. ASSUME NEW p \in Posts, Send(p) PROVE Gate!Next \/ Unmoved
    BY <1>7, SendGate DEF Gate!Next
<1>8. CASE UNCHANGED vars
    BY <1>8 DEF vars, Unmoved, Asked, Licensed, Granted, Refused, Id, At
<1>9. QED
    BY <1>1, <1>2, <1>3, <1>4, <1>5, <1>6, <1>7, <1>8 DEF Next, Handler, Aside

(* The tool loop, the broker and the semaphore implement the gate: each    *)
(* prompt is made once, takes one verdict, a yes only from its owner, and  *)
(* lets its tool run once, after it was closed (requestInlinePermission,   *)
(* PermissionBroker.Respond, executeRunCode).                              *)
THEOREM LoopKeepsGate == Spec => KeepsGate
<1>1. Init => NotRunYet
    BY DEF Init, NotRunYet
<1>2. QED
    BY <1>1, GateInit, NextNotRunYet, AlwaysIInv, GateNext, PTL
    DEF Spec, KeepsGate, Gate!Spec

(* Whatever keeps the gate keeps its promise.                              *)
LEMMA GateStep == Gate!Promised /\ [Gate!Next]_(Gate!gate) => Gate!Promised'
<1> DEFINE made     == {i \in Ids : i[2] <= chat[i[1]].prompt}
           open     == pending
           allowed  == consent
           granted  == {i \in Ids : first[i] = <<TRUE>>}
           refused  == {i \in Ids : first[i] = <<FALSE>>}
           licensed == {Id(c) : c \in {x \in Chats : At(x, "queued")}}
           used     == ran
<1>1. SUFFICES ASSUME Gate!Promised, [Gate!Next]_(Gate!gate) PROVE Gate!Promised'
    OBVIOUS
<1>2. /\ used \cup licensed \subseteq granted /\ granted \subseteq allowed
      /\ granted \cap refused = {} /\ used \cap licensed = {}
      /\ open \cap (used \cup licensed) = {}
      /\ open \cup allowed \cup refused \subseteq made
    BY <1>1 DEF Gate!Promised
<1> DEFINE Good == /\ used' \cup licensed' \subseteq granted' /\ granted' \subseteq allowed'
                   /\ granted' \cap refused' = {} /\ used' \cap licensed' = {}
                   /\ open' \cap (used' \cup licensed') = {}
                   /\ open' \cup allowed' \cup refused' \subseteq made'
<1>3. SUFFICES Good
    BY DEF Gate!Promised
<1>4. ASSUME NEW i \in Ids, Gate!Ask(i) PROVE Good
    <2>1. /\ i \notin made /\ made' = made \cup {i} /\ open' = open \cup {i}
          /\ allowed' = allowed /\ granted' = granted /\ refused' = refused
          /\ licensed' = licensed /\ used' = used
        BY <1>4 DEF Gate!Ask
    <2> HIDE DEF made, open, allowed, granted, refused, licensed, used
    <2>2. QED
        BY <1>2, <2>1
<1>5. ASSUME NEW i \in Ids, Gate!Allow(i) PROVE Good
    <2>1. /\ i \in open /\ allowed' = allowed \cup {i}
          /\ made' = made /\ open' = open /\ granted' = granted /\ refused' = refused
          /\ licensed' = licensed /\ used' = used
        BY <1>5 DEF Gate!Allow
    <2> HIDE DEF made, open, allowed, granted, refused, licensed, used
    <2>2. QED
        BY <1>2, <2>1
<1>6. ASSUME NEW i \in Ids, Gate!Answer(i) PROVE Good
    <2>1. /\ i \in open /\ i \notin granted /\ i \notin refused
          /\ \/ i \in allowed /\ granted' = granted \cup {i} /\ refused' = refused
             \/ refused' = refused \cup {i} /\ granted' = granted
          /\ made' = made /\ open' = open /\ allowed' = allowed
          /\ licensed' = licensed /\ used' = used
        BY <1>6 DEF Gate!Answer
    <2> HIDE DEF made, open, allowed, granted, refused, licensed, used
    <2>2. QED
        BY <1>2, <2>1
<1>7. ASSUME NEW i \in Ids, Gate!Settle(i) PROVE Good
    <2>1. /\ i \in open /\ open' = open \ {i}
          /\ \/ licensed' = licensed /\ used' = used
             \/ i \in granted /\ licensed' = licensed \cup {i} /\ used' = used
             \/ i \in granted /\ i \notin used /\ used' = used \cup {i} /\ licensed' = licensed
          /\ made' = made /\ allowed' = allowed /\ granted' = granted /\ refused' = refused
        BY <1>7 DEF Gate!Settle
    <2> HIDE DEF made, open, allowed, granted, refused, licensed, used
    <2>2. QED
        BY <1>2, <2>1
<1>8. ASSUME NEW i \in Ids, Gate!Use(i) PROVE Good
    <2>1. /\ i \in licensed /\ i \notin used
          /\ licensed' = licensed \ {i} /\ used' = used \cup {i}
          /\ made' = made /\ open' = open /\ allowed' = allowed
          /\ granted' = granted /\ refused' = refused
        BY <1>8 DEF Gate!Use
    <2> HIDE DEF made, open, allowed, granted, refused, licensed, used
    <2>2. QED
        BY <1>2, <2>1
<1>9. CASE UNCHANGED Gate!gate
    <2>1. /\ made' = made /\ open' = open /\ allowed' = allowed
          /\ granted' = granted /\ refused' = refused
          /\ licensed' = licensed /\ used' = used
        BY <1>9 DEF Gate!gate
    <2> HIDE DEF made, open, allowed, granted, refused, licensed, used
    <2>2. QED
        BY <1>2, <2>1
<1>10. QED
    BY <1>1, <1>4, <1>5, <1>6, <1>7, <1>8, <1>9 DEF Gate!Next

(* An unsafe tool that has run, or is queued to, was allowed by its owner  *)
(* before anybody refused it, on a prompt that is no longer open, and has  *)
(* run at most once on it (handleChatProxy).                               *)
THEOREM LoopKeepsPromise == Spec => []Gate!Promised
<1>1. Gate!Init => Gate!Promised
    BY DEF Gate!Init, Gate!Promised
<1>2. Gate!Spec => []Gate!Promised
    BY <1>1, GateStep, PTL DEF Gate!Spec
<1>3. QED
    BY <1>2, LoopKeepsGate, PTL DEF KeepsGate
=============================================================================
