# continuum-relay: TLA+ models, checks and proofs

continuum-relay is the server side of a mobile terminal app: a Go program that runs on
a small host, brings up a WireGuard tunnel, and serves its clients through it: a WebSocket
relay for sessions and their status, PTY terminals over a second WebSocket server, a chat proxy
whose language model may call tools, git projects, file sharing, push notifications.
This directory models the parts whose correctness depends on the order of events, checks the
models with TLC and proves theorems about all of them with TLAPS. `PROJECT.json`
maps each definition to the lines it models.

## 1. The system

| Component | Code | State | Operations | Talks to |
|---|---|---|---|---|
| Peer manager | `internal/peers/peers.go` | a mutex, the auth token read at boot; its data is `wg0.conf` and the device | `List`, `Add`, `Remove` | the WireGuard server, the file, the HTTP server |
| WireGuard server and config | `internal/wg` | the running device: peers and their routes | `New`/`Start`, `AddPeer`, `RemovePeer`, parsing | main, the peer manager |
| Authenticator | `internal/auth/auth.go` | the token, a failure log per address | `ValidateRequest`, `ValidateBasic`, `UpdateToken` | every endpoint of relay and terminal |
| Token rotation | `internal/relay/client.go` | `/etc/continuum/env`, `env.tmp` | `rotate_token` | the authenticator, boot |
| Permission broker | `internal/relay/permission.go` | the map of pending prompts, a channel each | `RegisterPending`, `RemovePending`, `Respond` | chat proxy, `POST /api/permission` |
| Chat proxy | `internal/relay/chat_proxy.go` | per request: round, tool calls, prompt | the tool loop, `requestInlinePermission` | the broker, the tools, the Ollama backend, the hub |
| Tools | `internal/tools` | the `run_code` semaphore | `Execute`, `ExecuteUnsafe` | chat proxy |
| Project store | `internal/projects` | the clones under `~/projects` | `SyncProject`, `RemoveProject`, status, listing | `client.go`, git, the users' sessions |
| Hub: push tokens | `internal/relay/hub.go` | device tokens, Live Activity tokens | `RegisterDevice`, `RegisterActivity`, `NotifyPermission`, `pushLiveActivity` | APNs client, chat proxy, detector |
| Hub: status fan-out, detector | `hub.go`, `internal/detector` | last snapshot, channels of the clients | `RunDetector`, `Tracker.Update`, `PublishStatus`, `RegisterClient` | tmux, `client.go` |
| Hub: session registry | `hub.go`, `session.go` | the sessions created through the relay | create, delete, list, merge with tmux | tmux, `client.go` |
| Client connection | `client.go` | one WebSocket: writer and heartbeat goroutines | read loop, status writer, ping | the hub, projects, rotation |
| Relay HTTP server | `server.go` | none | routing, `/api/permission`, `/api/peers` | all of the above |
| Terminal server | `internal/terminal/server.go` | PTY connections | attach, read, write, resize, heartbeat | the authenticator, tmux |
| Shared files | `internal/files` | the upload directory | upload, list, download, delete | `server.go` |
| APNs client | `internal/apns` | the cached JWT | `Send`, `SendLiveActivity` | the hub |
| Web proxy, system info, logging | `internal/webproxy`, `sysinfo`, `logging` | none that changes | | |
| Command line and boot | `main.go` | | boot; CLI commands are HTTP clients | |
| Deployment | `deploy.sh`, `install.sh`, `cloud-init.yaml` | | write the first `wg0.conf` and env file | |

### What is hard, and what makes each part correct

* **Two copies of the truth.** A peer is in `wg0.conf` and on the device. `Add` updates the device
  first and then appends to the file, `Remove` revokes live and then rewrites the file. Each step can
  fail, and the process can die between any two or inside the append. *Correct* means: no two
  peers share a key or an address, an acknowledged peer keeps its access until it is removed, and a removed
  one never gets it back, whatever the restarts.
* **Checks made under a lock, used after it.** `Respond` looks a prompt up, unlocks, then sends.
  *Correct* means: a tool runs only if the address that asked for it allowed that very prompt, and
  the first answer counts. The answer, the 60 s timer and the end of the request race in one select.
* **Waiting with no way out.** `run_code` has four slots and no context on the wait for one.
  *Correct* means: every chat ends.
* **Files shared by handlers without a lock.** Rotations share `env.tmp`; syncs, removals and
  sessions share a clone. *Correct* means: the env file is always whole, the owner always holds a
  token the relay accepts, a clean-up spares what the same sync has finished, and where the code does lose work or damage a file, it takes
  a race or a failure that can be named.
* **Files written in place.** Uploads, downloads and deletes of one name meet without a lock: an upload truncates and
  writes the file in place, and one that fails removes the name. *Correct* means: a file that nobody works on is one whole upload (a clean-up that
  itself fails excepted), a download that nobody disturbed delivers one, also when it is resumed, and a clean-up spares older work.
* **A listing of two moments.** The registry is copied under its lock, then tmux is asked, for up to three seconds, then the two are merged.
  *Correct* means: a client reads its own writes, and each tmux session is shown once.
* **Late answers.** A push runs in a goroutine without a lock, and its answer takes a token out of a
  table that has changed meanwhile. *Correct* means: only the refused token goes.
* **Goroutines that wait for each other.** A terminal connection has three, one context, and a PTY that buffers a little each
  way; a relay connection has three and a socket that fills. *Correct* means: it is cut only for a reason, its last output is sent, and, but for waits that can be
  named, nothing of it stays when the client is gone.
* **Slow consumers.** A channel of 16 per client, filled without blocking. *Correct* means: no client holds up
  the detector, and an app shows an old state only of a session whose last change did not reach it. Changes are lost to a full channel, at the end of a connection and
  while an app is not connected, and the code sends an app that connects no states: each of these stays until the session changes again.
* **Time.** The lockout window prunes its log only on use. *Correct* means: at most five comparisons
  per window and address, and a lockout that ends.

The hazards, each at its line with the properties that cover it, are listed in `PROJECT.json`.

## 2. The modules

Each module has its state as VARIABLES, one action per step that other actors can interleave with, and its properties
at the end; `MC*.tla` and `*.cfg` are the instances. Operators introduced by "Mutant of X" are plausible
slips in the code; no specification uses them, they show that the properties can fail.
Variables called observations record what callers were told; no guard of the program reads them.

**PeerManager** models `peers.Manager` over `wg0.conf` (`conf`, the blocks as the parser reads
them) and the device (`live`, key to routes). `Manager.mu` serialises operations, so the one in progress
is the record `op`; `AddStart`, `AddLive`, `AddAppend`/`AddAppendFails`, `AddRollback`, `AddPayload` are the steps of
`Add`, `RemoveStart`, `RemoveRevoke`, `RemoveRewrite` and their failures those of `Remove`. `Crash` is possible
between any two steps; inside the append it leaves a block that is cut anywhere, which the parser reads as a
block without key, without address, with an address that does not parse, or with a `/3`. `Boot` brings the device up
from what is left (a route belongs to the last block that names it), or fails, or runs without a tunnel when the file cannot be read.
Not modelled: names, the payload's text, the `[Interface]` section, TUN and netstack set-up.

**PeerLedger** is what the peer manager promises, without the file's blocks, the device's routes and the steps of an operation: who is on record (`book`), who has access
(`served`), who was told so (`acked`), who was removed (`struck`), and whether the tunnel runs (`open`). `PeerManager` implements it under the mapping
at its end (`KeepsLedger`): the book is the keys that the parser finds in the file, access is a key on the device. `Admit` before `Record` and `Cut` before `Strike`
is the order the code keeps between device and file.

**Authenticator** models `validate`: one step per call, since each holds the mutex throughout. A time in the log is
kept as its age, up to the window, and the attempts are numbered, since the log only is counted and filtered; pruning is part of the call, as in `isLocked`.
The observation `misses` counts the wrong tokens that were compared, numbered and aged on its own: it never reads the log, so a log that forgets an attempt too early shows.

**TokenRotation** models `rewriteEnvFile`, for any number of clients that rotate at once, with inodes, because `os.WriteFile` truncates and writes the file
that `env.tmp` names *when it opens it*, even if another handler renames it meanwhile. `Read`, `Open`, `Write`,
`Rename`, `Update` are the steps of a handler, `Fail` its error returns, `Crash` and `Boot` the life of the relay. The observation `overlap`
says whether two rotations are, or once were, under way at once: the properties hold without overlap and name what the next lone rotation repairs.

**ChatPermission** models the tool loop, the broker and the semaphore together. A chat request is a goroutine with a program counter; a POST handler
is another, split where `Respond` unlocks. The timer and the context are not variables: each can fire at any
moment, so the select's "no" is always possible. `Exit`, `Close` and `Finish` separate the end of the interpreter from the
end of `cmd.Run`, which waits for whoever still has the output pipe.

**ToolGate** is what the proxy and the broker promise about unsafe tools, without channels, locks, timers, rounds or slots: a prompt is made once (`Ask`), takes one verdict
while it is open, a yes only if its owner allowed it (`Allow`, `Answer`), and is closed (`Settle`) with nothing, with the tool's one run, or with a licence for it (`Use`). `ChatPermission`
implements it under the mapping at its end (`KeepsGate`): a prompt is open while the broker has it, its verdict is the first answer that reached its channel, a licence is a call that waits
for a slot. A yes that arrives when the select has already taken the timer is granted and never used.

**ProjectStore** models one clone directory and the git commands of `SyncProject` one by one for any number of syncs at once (`cloner` is whose clone is there, `before` who
began before it was). `RemoveProject` checks by three commands (`CheckTree`, `CheckStash`, `CheckRefs`), each a step of its own, then deletes. `CheckFails` is an error of the first or the
last, which lets the removal go on; an error of `git stash list` counts as no stashes. `unseen` collects the kinds of work that the check cannot speak for: what it failed to list, what came
after the command that would have shown it, and `"hidden"`, the commits of a detached HEAD or of a branch whose upstream is gone, which no command shows. `os.RemoveAll` may fail at once or half way. Sessions start and save
work of each kind, and restarts kill the commands.

**PushTokens** models the two token tables and the goroutines that push (`alerts`, `updates`), whose answers arrive in any
order. A token may die at APNs at any time. `SendResults` and `LiveActivityResults` are what the APNs client can return. The hub looks for
"410" in the text of a Live Activity error, so `Holds410` is the set of tokens for which a transport error can look like a refusal.

**Terminal** models one connection: the handler from `Start` (the PTY and its program) through the read loop (`Receive`, `WriteUnit`)
to its deferred calls (`Leave`, `Waited`), the output goroutine (`Out*`), the heartbeat (`Ping*`, `Pong`) and the context they share (`cancelled`). A message over `SetReadLimit` makes
`conn.Read` fail (`"refuse"`), which ends the connection as any other error does.
The program, its background jobs (`jobs`), the terminal line and the client are external. `ptmx.Read` fails when nobody holds the slave side any more, which is after the program *and* its jobs
have ended (`HungUp`); `cmd.Wait` waits for the program alone. A program may stop reading its input for ever. Closing the master is taken to end a `Read` of it and to hang the program up, as the
code's comment says (`server.go:261`). `answers` chooses, once, between a program that blocks on its output before it reads on (a shell that echoes) and one that does not
(tmux).

**StatusFanout** models the poll, the tracker, the publication of each change, the bounded channels, their writers, and apps
that come and go. A change leaves the channel (`Write`) before it is on the screen (`Arrives`), and a connection that ends takes along what is between. What an app shows outlives its connection:
the relay tells it nothing when it connects again.

**SharedFiles** models one file name with inodes: a file is called after the upload that created it, a chunk after the upload that wrote it, so a
mixture is visible. `Open`, `Copy`, `CopyEnds`/`CopyFails`, `RemoveName` or `RemoveFails` (whose error the code drops) are the steps of `HandleUpload`; a download opens the file once, announces its size
and sends it chunk by chunk; one that broke off may ask for the rest by a Range request (`Resume`), which is served from the file that has the name by then; a delete finds the name and then removes it, or fails to.
A file without a name lives until the last handler closes it. The name is all that requests
share, and different names do not interact, which is why one suffices.

**Registry** holds `Hub.sessions`, the tmux sessions and the merge of the two. **ClientConn** drives it from one connection of `HandleClient`: the read loop with its
requests (`Ask*`), the listing in the two steps that the lock leaves (`Snapshot`, `Discover`, then `ReplyWritten`), the status writer, the heartbeat, their
context and the deferred end (`Leave`). `Elsewhere`, `TmuxMoves` and `Restart` are the other clients, tmux and the relay's restarts. Writer and reply share the
socket (`sock`, the frames in the buffers, at most `SockCap`). The client is live, asleep (reachable, its kernel acknowledges, its app reads nothing), away or closed. `unacked` says that TCP
has something to send again to a client that is away, `keepAlive` whether the listener sets TCP keep-alive: `ListenAndServe` does (`server.go:109`), the netstack listener of macOS mode (`main.go:238`,
served at `server.go:102`) does not. A message over the read limit ends the connection (`TooLong`).

The modules named `*Proofs` hold the theorems of section 4. Two of them are about two components that have no variable in common: `HubProofs` extends `StatusFanout` and
`PushTokens`, `TerminalProofs` extends `Authenticator` and `Terminal`. That is why `PushTokens` and `Authenticator` prefix the names every module has (`PushInit`, `AuthSpec`, ...).

How they meet: `TokenRotation.Update` is the caller of `Authenticator.UpdateToken`; `ChatPermission.Prompt` causes `PushTokens.SendAlert`; `StatusFanout.PublishStatus` causes
`PushTokens.PushLiveActivity`. In each case the callee's model allows the call at any moment, so what it shows holds under any caller.

## 3. What TLC checks

Passing runs:

| Run | Instance and bounds | Shows |
|---|---|---|
| `peers` | 1 deployed peer, 3 keys to enrol, limit 3, octets 2..4, 1 caller; about 1.1 million states | `DistinctPeers`, `PeerBound`, `AckedPeerServed`, `RevokedStaysOut`, `LiveWithinConf`, `RemoveHitsListed` |
| `auth` | 2 addresses, 2 tokens, 3 attempts, window of 3 ticks | `BruteForceBound`, `LockoutExpires` |
| `rotation` | 2 clients, 4 tokens, 4 inodes; about 1.7 million states | `EnvFileWhole`, `OwnerHoldsAccepted`, `RestartKeepsToken` |
| `chat` | 2 chats of 2 rounds, 1 call each, 1 slot, 1 POST handler; about 1 million states | `OnlyOwnerApproves`, `FirstAnswerDecides`, `PromptsCleaned`, `EveryChatEnds` |
| `projects` | 2 syncs, 2 removers, 4 kinds of work; about 2.0 million states | `TokenOnlyAfterFailure`, `CleanupIsPartial`, `WorkLostKnowingly` |
| `push` | 3 devices for 2 places, 2 sessions, 2 activity tokens, 3 pushes under way, 1 token that can look like a 410 | `ValidDeviceKept`, `LostToOwnPush` |
| `terminal` | buffers of 2 units, messages of up to 2 and one over the limit, both kinds of program, background jobs; about 8,000 states | `CutForCause`, `DeadPeerReleased`, `ProgramEndCloses` |
| `status` | 2 sessions, 1 app that reconnects, channel of 2, 1 change on the wire; about 680,000 states | `ShownIsSeen`, `ChangesPublished` |
| `files` | 3 uploads (interchangeable), 1 download that can be resumed, 1 delete, a cap of 2 chunks; about 2.7 million states | `QuietMeansWhole`, `SoleDownloadIsWhole`, `RemovalHitsOwn` |
| `conn` | 1 session name, 1 project, 3 tmux names (both containers and one bare name), 2 places in the socket, 1 in the channel, with and without keep-alive; about 1.3 million states | `ReadYourWrites`, `OneEntryEach`, `CutForCause`, `GoneReleased` |

`peers` also checks `KeepsLedger`, that `PeerManager` implements `PeerLedger`, and `chat` checks `KeepsGate`, that `ChatPermission` implements `ToolGate`. Each run also checks the
module's `TypeOK` (`AuthTypeOK`, `PushTypeOK`), except `rotation`, `chat`, `projects` and `status`, where it is proved. Why these bounds are enough for the interesting cases:

* `peers`: the limit is reached, a removed peer's address is given out again, a cut block sits before, between and after whole
  ones, and the address range is exactly one larger than the limit, the tightest that the assumption allows. The proofs
  cover every other size.
* `auth`: a log can hold attempts of every age, and a window can slide over two generations of attempts.
* `rotation`: the file, `env.tmp` and a file open in each of two handlers; every token but one may be spent on failed rotations.
* `chat`: a late answer to the first prompt meets the second of the same chat and of the other one. One POST handler is enough for any number of answers, since it is free again after each:
  what matters is the order in which answers reach a channel. The slot is contended. The ten rounds of the code repeat these two.
* `projects`: a removal or a second sync can hit every step of a sync, a removal every step of another, and work of each kind can begin or be saved between any two commands of a check.
* `push`: a full list, a list that changed under two answers, a token replaced under an answer.
* `terminal`: both buffers fill, a message is cut by a full one, a job outlives its program, and every goroutine is at every one of its steps when another one ends.
* `status`: a channel that fills within one poll, and a connection that ends with changes in the channel, on the wire or neither.
* `files`: a third upload begins between the steps of two others; a chunk past the cap, at it and below it; a download that starts before, in and after each of them, and is resumed from the same file or another. The proofs cover every other size.
* `conn`: two places in the socket let it be empty, in part acknowledged and full, one in the channel lets it be full; each way in which a record can stand for a tmux session, and a
  tmux session for no record, occurs with one name of each kind.

Runs that refute a claim about the code (each is a finding in `PROJECT.json`):

| Run | Property | What happens |
|---|---|---|
| `chat_timeout` | `RunCodeTimesOut` | a process left behind with the output open keeps `cmd.Run`, the chat and the slot past the 30 s |
| `push_stale` | `DropsTheStale` | a transport error whose text holds "410" (the URL in it ends in the token), or the 410 of the token it replaced, deletes a valid token |

More disagreements were met while modelling; the models contain them and the properties are stated so as to name them.

* Two rotations at once share `env.tmp`, although `client.go:237` says the rewrite "atomically updates" the token: one renames what the other has just truncated, and the
  file has no token or lost its other settings. Or one renames the other's file, whose own rename then fails and is reported as refused, yet its token is the
  one on disk: after a restart the owner is locked out. `EnvFileWhole` and `OwnerHoldsAccepted` except rotations that overlap and say what the next one repairs.
* The removal after a failed clone, "clean up partial clone" (`manager.go:67`), takes whatever is there, also the clone that another sync has finished. `CleanupIsPartial` says that
  this takes two syncs that both found no directory, and that it is never the sync's own.
* `manager.go:161` says an unforced removal "refuses to delete a clone with un-saved work (uncommitted/untracked/stashed changes or unpushed commits)". It goes ahead when `git status`
  or `git for-each-ref` fails, even after work was counted; it takes a failed `git stash list` (`status.go:78`) for no stashes; and the commits of a detached HEAD, and those
  of a branch whose upstream is gone, are in none of its counts. `WorkLostKnowingly` names each of these (`unseen`), and says that, the race of two syncs above aside, work is lost in no other way.
* A failed upload removes the name, also when it names the file of an earlier upload, which it has truncated, or of another under way. `RemovalHitsOwn` bounds whose it can be. The removal can fail, and
  its error is dropped (`files.go:194`, `files.go:199`): the rest of the upload then keeps the name, although the request was answered by an error. `QuietMeansWhole` names these files (`torn`).
* `files.go:110` says that Range requests let large files "resume and seek". A resumption is served from the file that has the name by then; if an upload has replaced it, a client that sends no `If-Range`
  puts two files together. `SoleDownloadIsWhole` names the case (`mixed`).
* The relay's ping has no timeout (`client.go:77`), although `terminal/server.go:272` says that the terminal's heartbeat, which has one, "Mirrors the relay subsystem". A client that sleeps,
  its TCP still answering, is held until it reads or closes. One that gets out of reach after it has acknowledged the ping, and before it answers it, leaves TCP nothing to send again: where the
  listener sets no keep-alive, it is held for ever. `GoneReleased` leaves the first out and names the second (`Unnoticed`).
* `terminal/server.go:271` says the heartbeat surfaces half-open sockets "within ~30s", without which a dead one is held "indefinitely". It still is while the read loop waits in `ptmx.Write` for
  room in the terminal: no timeout, close or cancel reaches that wait. Any program that stops reading its input brings it about (a build, a stopped pager), or a program that waits for its own output to be read after the output
  goroutine has ended (`CircularWait`). `DeadPeerReleased` excepts a terminal that stays full; without that TLC refutes it, for example when a client closes in the middle of a paste.
* The connection of a shell that has ended stays open while a job it left in the background holds the terminal (`server.go:301`); `ProgramEndCloses` is about the end of both.
* A message over 1 MB, such as a large paste, does not get an error but ends the connection, on both servers (`SetReadLimit`); both `CutForCause` name it.
* The relay sends no states to an app that connects (`hub.go:61`), and drops changes for one that is slow or away: what such an app shows can be old until the session changes. `ShownIsSeen` names these (`lost`).
* A foreign tmux session with the bare name of a record or a project is hidden, although `hub.go:204` says every tmux session is surfaced; `StandsFor` in `OneEntryEach` names the case.

* `README.md:221` of the repository says the peers command rewrites `wg0.conf` atomically, but an add appends in place (the cut blocks of
`PeerManager`).
* `permission.go:54` says `Respond`'s result tells whether the answer was accepted, but it is true for an
answer that is dropped.
* `Manager.authToken` (`peers.go:193`) is set once at boot, so after `rotate_token` the "Continuum QR payload" of a new peer (`main.go:434`) holds a
token that the relay refuses until it is restarted.

`CHECK_DEADLOCK FALSE` is set for `peers` (keys are used up), for `chat` and `chat_timeout` (chats end), for `terminal` (a connection ends), for `files` (each upload
happens once) and for `rotation`, where the relay cannot boot once overlapping rotations have damaged the file.

### Fairness

* `Authenticator`: `WF(Tick)`. The clock goes on. Nothing is assumed of callers: an address may try for ever.
* `ChatPermission`: `FairSpec` has `WF(Handler(c))` for each chat. The goroutine is scheduled, the backend call ends with the context (3 minutes), the prompt with
  its timer (60 s), the interpreter with its own (30 s) and a write to a client that does not read with the server's `WriteTimeout`. Chats have a bounded number of rounds, so weak fairness of
  the wait for a slot is enough. `TidySpec`, used for `EveryChatEnds`, also assumes that a process which a tool left behind lets go
  of its output in the end. The code does not guarantee that, and `chat_timeout`, which does not assume it, shows what follows.
* `Terminal`: weak fairness of each of the three goroutines, and of the program's end when the line hangs up; `SF(LiveSend)`, because TCP
  retransmits to a client that is reachable again and again. Nothing is assumed of the client, nor that a program reads its input, writes or ends by itself, nor that a job ends.
* `StatusFanout`: `WF(Poll)`, the ticker, and `WF` of the publication of each pending change, one loop iteration of the detector's goroutine. No
  fairness of `Write` or `Arrives`: a client need not read.
* `ClientConn`: weak fairness of the handler's steps after a request was read, of the writer once it has something to send or the context has ended, and of the heartbeat, whose ticker fires.
  `WF(GiveUp)`: TCP gives a client that is away up, if something it was sent is not acknowledged (the retransmission limit) or the listener sets keep-alive; otherwise it never does.
  Nothing is assumed of a client, nor that a pong comes; the library gives the write of a control frame a bounded time.

## 4. What is proved

Each theorem holds for every value of the constants. The only assumptions are the named `ASSUME`s of the modules, which TLC evaluates in the runs: more octets than
peers (`PeerAssumption`), two more inodes than clients (`RotationAssumption`), positive bounds, and names for "none" that are not values. Every inductive
invariant was checked by TLC on the instance of the run before it was proved.

| Module | Theorems | Inductive invariant, besides the types |
|---|---|---|
| `PeerManagerProofs` | `TypeCorrect` (`TypeOK`), `NoSharedPeer` (`DistinctPeers`), `RevocationIsFinal` (`RevokedStaysOut`), `EnrolmentIsDurable` (`AckedPeerServed`), `FileIsBounded` (`PeerBound`), `AccessIsRecorded` (`LiveWithinConf`), `RemovalIsAimed` (`RemoveHitsListed`) | `OpInv`: what the holder of the mutex may rely on between its steps |
| | `ManagerKeepsLedger` (`KeepsLedger`), `ManagerKeepsPromise`: hence what the ledger implies (`Kept`) holds of file and device | the same, and that there is no tunnel while the relay is down; `Kept` |
| `TerminalProofs` | `LogIsBounded` (`AuthTypeOK`), `GuessesBounded` (`BruteForceBound`), of `Authenticator` | what the log shows of the window is exactly the wrong tokens compared in it, although the two are numbered, aged and emptied apart |
| | `TerminalTypes` (`TypeOK`), `TerminalCutForCause` (`CutForCause`), `CircularWaitLasts`, of `Terminal` | no PTY before the start; a closed master means a cancelled context |
| `ChatPermissionProofs` | `ChatTypes`, `FirstAnswer` (`FirstAnswerDecides`), `OwnerDecides` (`OnlyOwnerApproves`), `NoPromptLeft` (`PromptsCleaned`) | the count of prompts against rounds and calls; a waiting chat's channel holds the first answer; a yes that got anywhere is the owner's |
| | `LoopKeepsGate` (`KeepsGate`), `LoopKeepsPromise`: hence what the gate implies (`Promised`) holds of the loop | the same, and that a prompt under way has not run its tool (`NotRunYet`); `Promised` |
| `ProjectStoreProofs` | `StoreTypes`, `TokenTaken` (`TokenOnlyAfterFailure`), `CleanupSparesOwn` (`CleanupIsPartial`), `NoWorkLostUnasked` (`WorkLostKnowingly`) | a token in `.git/config` has a sync that will take it out, or one that failed; a sync that clones has no finished clone, and began before any that another one finishes; per command of a check that is done, work of its kind is in `unseen` or not there, or was counted |
| `TokenRotationProofs` | `RotationTypes`, `FileStaysWhole` (`EnvFileWhole`), `OwnerNotLockedOut` (`OwnerHoldsAccepted`), `RestartIsSilent` (`RestartKeepsToken`) | who is alone, what a rotation that is alone knows of the files at each step, and how file, memory and owner agree between rotations |
| `HubProofs` | `FanoutTypes`, `ScreenIsCurrent` (`ShownIsSeen`) | the last change of a session in a connection's channel, or else what it shows, agrees with the tracker, unless that change is still to be published or did not reach the app, also across connections |
| | `PushTypes` (`PushTypeOK`), `ValidDeviceStays` (`ValidDeviceKept`), `ActivityLostToOwnPush` (`LostToOwnPush`), of `PushTokens` | the devices are a list without repetition, within its limit; the pushes under way hold tokens of their kind |
| `SharedFilesProofs` | `FilesBounded` (`TypeOK`), `NoRestIsServed` (`QuietMeansWhole`), `DownloadIsWhole` (`SoleDownloadIsWhole`), `RemovalSparesOlder` (`RemovalHitsOwn`) | a file that is not torn has at most one writer, which has written all of it; what an undisturbed download has received, in however many responses, is the beginning of a whole upload; uploads under way have met |
| `ConnectionProofs` | `ConnectionTypes` (`TypeOK`), `OwnWriteListed` (`ReadYourWrites`), `TmuxListedOnce` (`OneEntryEach`), `ConnectionCutForCause` (`CutForCause`) | what the handler knows of its request at each step; its write is in the copy and in the registry, the copy and the registry differ only in what was touched elsewhere |

Why the properties need strengthening, and how the arguments go:

* **Peers.** The properties alone are not inductive: the key and address chosen by `AddStart` must still be free when they are
  appended, the device must have the new peer's route and nobody else's, the block at `op.idx` must still be the one whose key was
  revoked. `FreeOctetExists` shows by the pigeonhole principle on a function from octets to blocks that fewer blocks than octets leave an octet free;
  `NextOctetFree` that the scan returns a free one. `AppendEntries`, `AppendKeepsDistinct`, `RemoveKeepsDistinct` and
  `CutTypes` say what appending, cutting and removing a block does to keys, addresses and entries. Then there is one lemma per action.
  `Boot` needs `DistinctPeers`: without it the last block to name a route would take it from an acknowledged peer. `ConfSteps` says how the file can change in one
  step, from which the bound and the aim of removals follow.
* **Refinement.** One lemma per action shows that it maps to a step of the ledger or to a stutter; several steps of `PeerManager` are one of the ledger (the live half of
  a removal is `Cut`, the rewrite `Strike`), and a crash inside the append may or may not have recorded the peer. The promise is proved of the abstract module's steps alone.
* **Refinement of the gate.** The steps that only the select, the rounds and the slots are made of leave the gate alone (`AsideGate`). `PromptGate` needs that a prompt's name is new,
  `SendGate` that an answer under way is allowed, `RemoveGate` that the answer which the chat took is the first one (`Obeyed`) and that its tool has not run, so that no tool runs twice on
  a prompt; the last is an invariant of its own. Here too `Promised` follows from the gate's steps alone.
* **Authenticator.** Pruning is idempotent and commutes with the passing of time (`RecentFacts`, `AgedFacts`), so it does not matter when a log is pruned; a log that is not full
  has a number for one more attempt (`WithFacts`), and since both logs then hold the same, the observation has one for the same attempt.
* **Chat.** The numbers of prompts are bounded by rounds times calls, which needs the calls that are left in the current round. A prompt that has not been made has no trace
  in a channel or in an answer under way, which is why a late answer cannot reach the next prompt.
* **Rotation.** `FreshInode` is the pigeonhole argument that a handler which creates `env.tmp` finds an inode nobody uses. `Knows(c)` is only claimed of a rotation that
  is alone, so a step of an overlapping one has nothing to preserve but `overlap` itself.
* **Status.** A poll adds a change to `todo` exactly when the tracker's state moves, a publication appends it or records the loss, and an arrival moves the head of what is on its way to the
  screen; each keeps the statement about the *last* mention of a session there. The end of a connection turns all that is under way into losses, so what the app shows of the other sessions still agrees.
* **Pushes.** `sendAlert` takes out the first place of the list that holds the refused token. `FirstPlace` gives that place as a minimum, `RemoveAtLeaves` what is left without it, and since
  the list repeats nothing, no other token goes (`RemoveFirstSpares`).
* **Connections and terminals.** `ReadYourWrites` is about a reply that merges a copy taken before with tmux sessions found after. Between the two, others change the registry, not the copy, and are recorded in
  `elsewhere`: the invariant follows the client's write through request, copy and reply. `CutForCause` is an action property: each step that cancels is shown to have its cause.
  `CircularWaitLasts` shows that a terminal that stays full, the exception in `DeadPeerReleased`, is no accident of fairness: from that state only the end of all who hold the terminal leads out.
* **Files.** `Open` makes its upload the only writer or tears the file; `PutFacts` says what a write at an offset does to the chunks; `ClosedKeeps` that closing a file changes nothing
  anybody can see; `WriterKeeps`, `ReadKeeps`, `MetKeeps`, `FreshKeeps` what all the steps that write nothing keep, so each action only proves what is its own. `GivenKeeps` is what a first request and a
  resumption have in common: what the client has, it has from the file that is about to be read, or the download counts as mixed.
* **Projects.** A removal is followed through its commands: after each, work of its kind was counted or is recorded as unseen, whatever `Edit` and `Save` do meanwhile (`EditKeeps`), so a removal that gets to delete has counted
  nothing and all that is there is unseen. `Deletes` shows that only a removal and a clean-up take a finished clone away.

Only model-checked: all liveness (`LockoutExpires`, `EveryChatEnds`, `ChangesPublished`, `GoneReleased`, `DeadPeerReleased`, `ProgramEndCloses`), which is out of the prover's reach under
fairness, and the two refuted claims. Every safety property of the passing runs, invariant, action property or refinement, is a theorem.

## 5. What is not modelled

* The web proxy, a stateless reverse proxy; system info and logging, which keep no state that changes; the CLI commands, which are HTTP clients of the relay; the
  deployment scripts, which run once and write the models' initial states.
* The APNs client's cached JWT. A late 403 may clear a newer one that is valid, which costs one more signature: the next push builds another, and no push depends on which.
* The sweep of the authenticator's map, because there is none: an address that failed and never returns keeps its entry. The peers of the tunnel bound their number.
* Inside the modelled parts: names and payload of a peer, TUN and netstack set-up, the text and streaming of chats, what each tool does, types and times of a session record,
  the listing of files and projects, which keeps nothing. Formats, wording, logging and the text of messages are left out everywhere.

## 6. What could follow

A composition of `TokenRotation` with `Authenticator` and enrolment, in which a QR payload with a dead token is an event; several sessions and projects in one `ClientConn`, at the price of a far larger
instance; abstract specifications of the shared files (a register that a failed write may erase) and of the fan-out (a view that lags), with proofs that they are implemented.
