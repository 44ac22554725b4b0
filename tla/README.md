# SlotSync in TLA+

SlotSync keeps GameCube memory cards in step between consoles, emulators and a
self-hosted server. The server stores every version of a card; a console pushes
the card it played on, naming the version it derived it from, and is refused when
somebody else has pushed since. This directory holds the TLA+ models of that
machinery, the configurations that check them with TLC, and theorems about them
checked by TLAPS.

Paths below are relative to the repository: `server/…` is `src/server/src/slotsync/…`,
`core/…` is `src/wii/core/…`, `launcher/…` is `src/wii/source/…`, `kernel/…` is
`src/nintendont/kernel/…`, `dolphin/…` is `src/dolphin/src/slotsync_dolphin/…`.

Contents: [the system](#1-the-system) · [modules](#2-the-modules-and-the-code) ·
[runs](#3-the-runs) · [proofs](#4-the-proofs) · [findings](#5-findings) ·
[not modelled](#6-what-is-not-modelled) · [plan](#7-plan)

## 1. The system

| Component | State it keeps | Operations | Talks to |
|---|---|---|---|
| Card store (`server/store.py`, `db.py`, `blobs.py`) | SQLite tables `cards`, `versions`, `devices`; one file per digest | `push`, `rollback`, reads | called in threads by the API and the listener |
| HTTP API (`server/api.py`, `app.py`) | throttle of failed logins | push, rollback, format, reads | store; Dolphin client, web UI |
| UDP listener (`server/udp.py`) | `staging` buffers, `settled` verdicts, nonce cache, rate limiter | PUSH_BEGIN / DELTA / CHUNK / END, PULL_REQ, HEAD, HELLO, HEARTBEAT, sweep | consoles by datagrams, store through threads |
| Client core (`core/client.c`) | nonce counter, last error, last head, last digest | `ss_push_delta`, `ss_pull`, `ss_head`, `ss_hello` | listener; called by launcher and kernel |
| Fingerprints (`core/fingerprint.c`) | per-chunk hashes of the card last agreed with the server | update, changed chunks | launcher and kernel |
| Launcher (`launcher/main.c`, `wii_saves.c`, `wii_fingerprint.c`) | per card: `.raw`, `.tmp`, `.bak`, a line of `state.txt`, a record of `fingerprints.bin` | merge of what the kernel left, push, conflict prompt, copy aside, pull, boot | client core; kernel through files |
| Kernel worker (`kernel/SlotSync.c`, `SlotSyncLogic.c`) | per slot: dirty flag, parent version, backoff, fingerprint table | push while a game runs, record lineage | client core; the game through shared memory |
| Kernel network (`kernel/SlotSyncNet.c`) | handles of IOS, one socket, the backoff | bring up, open, send, receive, close | IOS; kernel worker |
| Dolphin client (`dolphin/*`) | raw card file, remembered version and digest | pull, push, play, watch | HTTP API; Dolphin through the file |
| Codec (`server/protocol.py`, `core/protocol.c`) | none | pack, sign, unpack, gap bitmaps | both ends of UDP |
| Card parser (`server/memcard.py`, `core/memcard.c`) | none | directory, block chains, checksums, blank card | store, API |

A card moves like this. The launcher pulls the newest version before a game and
writes it where Nintendont finds it. While the game runs, Nintendont's kernel
notices writes to the card and its worker pushes what changed, under a transfer id
of the console's choosing: PUSH_BEGIN opens a staging buffer (seeded from the
parent version for a delta), PUSH_DELTA declares what will be sent, PUSH_CHUNKs
fill it, PUSH_END asks for the verdict. The listener checks the digest and calls
`Store.push`, which applies three rules: same bytes as the head — nothing to do;
parent is not the head — conflict; otherwise — a new version. Dolphin and the web
UI reach the same store over HTTP.

### What is hard, and what must hold

* **Store.** Threads of two transports race for one head; writes fail; the process
  dies between the blob and the row; one endpoint runs the store on the event loop.
  A history must be one append-only readable chain, a retry must cost nothing, an
  answer must stay true, and everybody must get one.
* **Listener.** Datagrams are lost, repeated and reordered; two handlers await
  threads while others run; sweeps and restarts drop what a handler goes by. Only a
  whole image that a console meant may be committed, over the parent it named.
* **Client.** Nothing in a reply says which request it answers. What a call returns
  must be true, a call must return, and losses within its rounds must cost nothing.
* **Pull.** A version may land between two chunks of a pull: the image given to the
  caller must be one version's, whole.
* **Kernel worker.** The game writes while the worker copies and pushes. A save must
  not be forgotten, a torn copy must be pushed again, lineage must stay right.
* **Kernel network.** The interface comes and goes, IOS has few sockets to give, and every
  push opens a new one; debounce and backoff go by a timer that wraps every 38 minutes. No
  socket may be lost, and a card that is due may not be passed over.
* **Launcher.** A card lives in up to three files, four more speak of it, and two programs write
  them; power may go between any two writes, and a write may fail. No save may be overwritten
  unless the server or a backup has it, a version may be named as parent only if the card
  descends from it, and a fingerprint table may be used only for the image it was made of.
* **Dolphin.** The emulator keeps the card in memory and rewrites the file at any time; two
  processes each believe in their own copy of the sidecar; an answer's digest may be that of a
  later version. Play may not be overwritten, and what is pushed must descend from its parent.

PROJECT.json lists each hazard at its line, with the property that covers it.

## 2. The modules and the code

```
CardCalls ── CardHistory (abstract)            PushListener ── PushTransfer
     └────── CardStore ──(implements)──┘             │  ^          │
                 │                                   │  └(implements)
         CardStoreProofs                  PushListenerProofs ── PushTransferProofs

     CardPull ── CardPullProofs

     KernelSync ── KernelSyncProofs        LauncherSync ── LauncherSyncProofs

     KernelNet ── KernelNetProofs          DolphinSync ── DolphinSyncProofs
```

**CardCalls** — the calls of the store and the answers. An image stands for its
bytes and for its SHA-256, which is taken to be injective.

**CardHistory** — what the store promises: per card a sequence of images that only
grows, every call decided at one instant by the rules at the head of `store.py`.

**CardStore** — `store.py` over `db.py` and `blobs.py`, with the endpoints of
`api.py` around it. `versions` and `head` are the SQLite tables, `blobs` the files,
`lock` the write lock that BEGIN IMMEDIATE takes; each serving thread has `pc`,
`call`, the head it read (`base`), its `answer` and the digest in its JSON `body`.

| Action | Code |
|---|---|
| `Accept` | a request reaches its handler; the event loop must be free |
| `TouchDevice` | `Store.touch_device`, only the wait for the lock is kept |
| `Validate` | size cap and parser, before the transaction |
| `CheckAbsent` | `format_card_endpoint`'s look at the head, outside any transaction |
| `BeginImmediate`, `LockTimeout` | `db.writing`, `db.connect` (30 s) |
| `DecidePush`, `DecideRollback` | the rules, in their order |
| `WriteTemp`, `ReplaceBlob` | `BlobStore.put`: temporary file, then rename |
| `CommitVersion` | `_insert_version` and COMMIT, one step: nobody sees it before |
| `Rollback` | any exception inside the transaction |
| `Respond` | the head read once more for the response body; when that read raises, the caller gets a 500 that names no version |
| `Leave` | back on the event loop |
| `Crash` | the process dies; database and blob files stay |

**PushListener** — the push half of `udp.py`. `staging` and `settled` are the dicts
of those names, `task` the handlers that wait for a thread, `history` the versions of
one card, `reply` what the last step sent. A handler is one step up to its first
`await`: a delta `OnPushBegin` goes on in `ResumeBegin`, a complete `OnPushEnd` in
`StorePush` (the thread) and `ResumeEnd`. `StoreFails` is an exception in the thread,
`SweepStaging` and `SweepSettled` the periodic sweep, `Restart` the process,
`CommitElsewhere` another transport, `Drop` a datagram that does not authenticate or
repeats a nonce. The network and the consoles are an environment that delivers any
datagram of any attempt at any time, in any order and number. Calls of the store are
atomic here; `StoreImplementsHistory` (section 4) is what justifies that. Time is
abstracted: a sweep may fire at any moment, which covers every timeout.

**PushTransfer** — one console running `ss_push_delta` and `push_once` of
`core/client.c` on top of PushListener, with a bag of datagrams each way. `pc` is
what the console waits for; `Start` is the call (as `ss_push_slot` of the kernel makes
it: a fresh socket on the same port), `Hear` one reply read (`HearBegin`,
`HearDeclare`, `HearVerdict`), `Timeout` one `timeout_ms` of silence, `Finish` the
return of `push_once` with the fallback of `ss_push_delta`. `Deliver` and
`ThreadDone` run the listener; `LoseRequest`, `LoseReply`, `Throttle`,
`ServerTrouble` and `OtherCommits` are what may go wrong. Every datagram carries a
fresh nonce, so each is delivered once; copies made by the network are covered by
PushListener's environment. `mishaps` counts what has gone wrong by its kind, so that
a property can say what a push has to survive. It is a history variable: its only
guard bounds late timeouts and server troubles. So is `since`, the newest version when
the call began.

**CardPull** — a console running `ss_head` or `ss_pull` of `core/client.c` against
`_on_pull_req` of `udp.py`, while others push. `known` and `got` are what `ss_pull`
has learnt of the card and received of it (`version`, `total`; `out` and `bitmap`),
`asked` is the request bitmap, `rounds`, `stalled` and `previous` the counters of the
give-up rules; `history` and the two bags are the server and the network.

| Action | Code |
|---|---|
| `Call` | entry of `ss_head` or `ss_pull`, first request sent; the socket is not drained |
| `Hear` | one reply read: `HearHead`, or `HearBurst` with the end of the round when the window is full |
| `Timeout` | `timeout_ms` of silence: the end of a round, or `control_exchange` asks again |
| `EndRound` | budget, completion, stall rule, next window, next request; part of the two above |
| `Deliver` | `_on_pull_req`: the ACK and the wanted chunks, or NACK 0x01 |
| `Commit` | another console, Dolphin or the web UI adds a version |
| `Throttle`, `LoseRequest`, `LoseReply` | the rate limiter; the network |

The handler waits for a thread that reads the blob and sleeps between bursts, but it
looks the version up before, and a version's blob never changes; what it sends is
therefore fixed when it starts, and its delays are those of the network. `mishaps` is
a history variable here too: besides losses it counts timeouts that fire while
something is still on its way, and calls made while something of an earlier call is.

**KernelSync** — one card slot of Nintendont's kernel (`kernel/SlotSync.c`), with three
actors: the game, which writes the card in RAM; the main thread, which saves it, notifies
and writes `runtime.txt`; and the worker, which reads the same RAM block by block without a
lock. `dirty`, `halted`, `lineage`, `parent`, `pushedAny`, `fpValid` are the fields of
`ss_slot`, `table` its fingerprints; `at`, `marked`, `delta` and the rest of `push` are locals
of the worker and the server's buffer.

| Action | Code |
|---|---|
| `GameWrite` | the game writes a block (`GCNCard_Write`; external) |
| `CardSaved` | `SlotSync_NotifyCardSaved`, at the end of `GCNCard_Save` |
| `Poll` | `SlotSync_Poll`, from the main loop |
| `TakeHandoff` | part of the two above and of `FinishShutdown`: the flag goes down and `ss_write_handoff` opens the file, or fails to |
| `WriteHandoff`, `CloseHandoff` | `ss_write_handoff` after the file is opened, whose writes may fail unseen, then `ss_write_fp_handoff` and the return |
| `Shutdown`, `FinishShutdown` | `SlotSync_Shutdown` before and after its bounded wait for the worker |
| `SwitchOff` | the power goes, at any moment |
| `Connect`, `EndWorker` | the loop of `SlotSyncWorker` |
| `EstablishLineage` | `ss_establish_lineage` |
| `StartPush`, `ScanBlock`, `EndScan` | `ss_push_slot` up to the new connection, with `ss_fp_scan` and `ss_fp_worthwhile` |
| `HashBlock`, `OpenTransfer`, `SendBlock`, `Decide`, `Receive` | `ss_push_delta`: the digest, PUSH_BEGIN, the chunks, PUSH_END and the store's rules, the answer |
| `Fail`, `AskHead` | an attempt that ends without an answer, and the question for the head after STAGING_EXPIRED |
| `Settle`, `Owe` | a confirmed push: the version first, the handoff flag last |
| `OtherCommits` | another console, Dolphin, or a rollback |

A push is one attempt of PushTransfer whose answer is true or lost; findings 3 and 4 are
therefore not repeated here, except that a lost answer leads to `AskHead`. Debounce and
cooldown may elapse at any moment, which covers every setting of the timers. Opening
`runtime.txt` empties it and is a step apart from writing it. The worker is taken to have
started before the first save. `ours` (the versions the card in RAM descends from), `past` (the
images it has been), `guessed` (finding 6) and `missed` (the SD card failed the last handoff,
finding 14) are history variables; `past` also counts the game's writes.

**KernelNet** — the rest of the worker: what `ss_connect` and `kernel/SlotSyncNet.c` do to get
a socket, and when `SlotSyncWorker` and `ssl_should_push` find a card due. Time is explicit
here, in ticks that pass only while the worker waits (`left`), and `timer` is `HW_TIMER` modulo
its period. `fds` is what IOS has open, `sock` what the client holds; `dirty`, `dirtyAt`,
`pushedAt`, `halted`, `lineage` are the fields of the slots; `quietFor` and `idleFor` are a
clock on the wall that never wraps, kept to compare the timer with. `noting` is the slot whose
save the main thread is between the two stores of.

| Action | Code |
|---|---|
| `TakeHandles`, `GetHostId`, `NwcStartup`, `PollHostId` | `ssnet_bring_up`, called by `SlotSync_Init` and by `ss_connect` |
| `Open`, `Hello`, `HelloExpires` | `ssnet_open` and `ss_hello` in `ss_connect`, with `ssnet_close` when it fails and the backoff of the caller |
| `Start`, `Top`, `Scan`, `NextSlot` | the loops of `SlotSyncWorker`, `ssl_should_push`, the start of `ss_push_slot` |
| `EstablishLineage`, `Push` | their outcomes for the connection and for the slot's times; what they do to the card is KernelSync's |
| `NotifyCardSaved`, `NoteTime` | the main thread in `SlotSync_NotifyCardSaved`: `dirty` is stored, then `dirty_at`, with the worker free to run in between |
| `Shutdown`, `Gone` | the main thread at the end |
| `NetworkChanges`, `Tick` | the interface and the server; time |

A receive that finds nothing may be over before its time: `ssnet_recv` counts a whole step for
every poll that returns at once, so `HelloExpires` needs no tick.

**LauncherSync** — one card on one SD card over any number of launcher runs and game sessions:
`main.c`, `wii_saves.c` and `wii_fingerprint.c`, with the kernel between the runs. An image is
the set of saves in it, which is what the properties compare. `history` is the server, as in
CardHistory; `card`, `temp`, `bak` are the three `.raw` files, `state` and `runtime` the card's
line in `state.txt` and its version in `runtime.txt`, `store` and `runtimeFp` its records in
`fingerprints.bin` and `runtime-fp.bin`; `entry`, `image`, `serverVersion`, `unknown`, `outcome`
are what `sync_all` and `sync_one` hold; `ram`, `parent`, `lineage`, `dirty`, `halted`, `owed`,
`pushed` the kernel's slot, and `handing` is how far its main thread has come with the handoff.
`asked`, `ramOnly`, `cuts` and `failures` are history variables.
Each operation on these eight files that leaves them different is a step — emptying a file and
filling it are two — with two exceptions: the card as `GCNCard_Save` writes it (`SaveCard`), and
what is written under a temporary name before the name is the card's or the store's. `Cut` may
fall between any two steps, and each step that the code lets fail may fail.

| Action | Code |
|---|---|
| `Launch` | the start of `sync_all`: HELLO, `wii_state_load`; or no answer, and Nintendont boots |
| `MergeRuntime` | `wii_state_merge_runtime`, which removes the file it has read |
| `EmptyState`, `WriteState` | `wii_state_save`: the file is truncated in place, then written; `main.c` looks at neither result |
| `MergeTables`, `RemoveStore`, `RenameStore`, `RemoveRuntimeFp` | `wii_fp_merge_runtime`, `wii_fp_store_put` |
| `AskHead` | `sync_one`: the scan, the game id, the read, `ss_head` |
| `Push` | `ss_push_delta` and the store's rules; `save_fingerprints` follows |
| `Keep`, `ExitAtPrompt`, `OpenBackup`, `WriteBackup` | the conflict prompt, `wii_saves_backup` |
| `Pull` | `ss_pull`, when the server is ahead |
| `WriteTemp`, `RemoveCard`, `RenameCard` | `wii_saves_write` |
| `Finish` | the hand-over to Nintendont with `SlotSync_Init`, or HOME |
| `Play`, `SaveCard` | the game (external), `GCNCard_Save` and `SlotSync_NotifyCardSaved` |
| `KernelPush`, `Leave` | `ss_push_slot` with `ss_establish_lineage`; the end of the session |
| `OpenHandoff`, `WriteVersion` | `ss_write_handoff`: the flag is down, the file is emptied, the version is written, and either may fail unseen |
| `OpenTable`, `WriteTable` | `ss_write_fp_handoff`, the same for the table, if it is valid then |
| `Cut`, `OtherCommits` | the power or the reset button; another device, or a rollback |

A transfer is an attempt of PushTransfer or CardPull whose answer is true or lost, and the kernel
is KernelSync without torn reads and guesses (findings 3 to 7 are not repeated).

**DolphinSync** — `sync.py`, `cards.py` and `client.py` of the PC client for one card, with
Dolphin. A content is a number, `cards` tells from which contents it descends. `file` and
`sidecar` are on disk; `running`, `memory` and `unsaved` are Dolphin; each of the two processes
(the watcher, and a command) has the `state` it read when it started, its `pc`, the `head` it was
told of and the `image` it holds.

| Action | Code |
|---|---|
| `StartCommand`, `Kill` | the `pull`, `push`, `launch`, `play` commands and the GUI's buttons; a process that dies at any point; the watcher comes back |
| `WatchOnce`, `PullIdleCards` | `watch_once`, `pull_idle_cards` |
| `Detail`, `Guard`, `Digest`, `Compare` | `pull`: the head, and the three reads of the file that decide whether it refuses, has the card already, or fetches |
| `Fetch`, `Write`, `RememberPulled` | `latest.raw`, `CardDirectory.write`, `remember` |
| `RememberAnother` | `remember` for another card: the whole sidecar is written from memory, this card's entry included |
| `ReadCard`, `Post`, `Answer` | `push`: the read, `Store.push`, the answer and `remember` |
| `Popen`, `Point`, `DolphinReturns` | `launch`, `play` |
| `OpenDolphin`, `Save`, `Flush`, `CloseDolphin` | the emulator (external) |
| `OtherCommits` | another device, or a rollback |

`Load` is how a process takes up the sidecar when it starts: as it is, or as an empty one when it
cannot be read. `raced` is a history variable: a pull has met an open Dolphin, or a second process
was at work on the card.

What is left out everywhere: timestamps, notes, sizes, logging, and the bytes of a
chunk (a content is a model value, and its offset follows from its index). Signing
and authentication appear only as datagrams that are dropped.

The MC modules give the constants: `MCCardStore`, `MCPushListener`, `MCPushTransfer`,
`MCCardPull`, `MCKernelSync`, `MCKernelNet`, `MCLauncherSync`, `MCDolphinSync`.

## 3. The runs

| Run | Configuration | Shows |
|---|---|---|
| `cardstore` | two threads, one card, three images of which one is refused, versions up to 2, claims 0..2 | the store's invariants, that history is append-only, that every call returns, that CardStore implements CardHistory |
| `listener` | six attempts under two transfer ids, two suspended handlers, chunks of three contents, cap of one buffer, cards up to two chunks, one chunk per PUSH_DELTA | counters, buffers, verdicts, commits and replies are right whatever the network does |
| `transfer` | a first push of two chunks and a delta over version 1, two rounds, one late timeout or server trouble, any losses | results are true, losses are recovered, calls return, the transfer is a behaviour of PushListener |
| `transfer_stale_ack` | the same | **violation**: SS_OK for a push that was not committed (finding 3) |
| `pull` | a card with no version or one, versions of three chunks that differ everywhere and one too large, two calls, two rounds, one late timeout, leftover or throttled datagram, any losses | heads and pulls are atomic reads, losses are recovered, calls return |
| `kernel` | a card of three blocks, a server that has seen it or not, two blocks written by the game, one failure, three versions before others stop | no save is swallowed, none is written over unseen, the handoff stays owed unless the SD card refuses it, every save arrives |
| `kernel_guess` | one console, a server that has not seen the card, two writes, two failures | **violation**: an earlier push is taken for this one and a save is never pushed (finding 6) |
| `launcher` | one card, three saves, six versions of which others make two, one power cut and one failure anywhere | no save is overwritten without a copy, nothing is committed over saves it lacks, deltas are against their parent, a console that is alone meets no conflict, a run that ends well agrees with the server |
| `launcher_regress` | the same | **violation**: after a reset an older card is committed on top of a save (finding 8) |
| `net` | one slot, a timer of four ticks, two faults of the network or IOS | no socket leaks, no due card is passed over, none is taken up early but one whose save is just being noted, the client connects again |
| `dolphin` | three contents, three versions, two commands or restarts, one lost answer | nothing is overwritten unseen, no play on disk is lost to a pull |
| `dolphin_overwrites` | the same | **violation**: a pull under an open Dolphin leads to an overwritten version (finding 9) |

Seven more configurations show findings and are run by hand:

| Command | Shows |
|---|---|
| `tlc -config ListenerRedecided.cfg MCPushListener` | a transfer can be decided twice (finding 1) |
| `tlc -config ListenerStagingCap.cfg MCPushListener` | the cap can be exceeded (finding 2) |
| `tlc -config TransferLostReceipt.cfg MCPushTransfer` | a committed push reported as expired (finding 4) |
| `tlc -config PullMixed.cfg MCCardPull` | an image put together from two versions (finding 5) |
| `tlc -config KernelTorn.cfg MCKernelSync` | an image the card never was is committed (finding 7) |
| `tlc -config KernelHandoff.cfg MCKernelSync` | a handoff that the SD card refused is not made up for (finding 14) |
| `tlc -config KernelDebounce.cfg MCKernelNet` | a card is taken up with no quiet time (finding 15) |

Every property of a passing run has a mutant: an operator beside the action it
changes (marked *Mutant* in the modules), with which the property fails.

### Bounds, and why they are enough

* `MaxVersion` bounds *when calls start*, not what running calls may do. Two versions
  are needed for a conflict between pushes on a non-empty card and for a rollback to
  something other than the head; `Claims` reaches one past the head.
* Two threads: the lock admits one at a time, so a third only repeats the second.
* `MCPushListener`: two keys, since the cap is the only thing transfers share; two
  tasks, since one handler suspended while another runs is where the listener's awaits
  bite; two attempts under one key with different images, sizes and delta flags, so
  that restarts mix; an image the parser refuses, one past the cap, an empty one.
  `TaskSymmetry` is sound: tasks are compared for equality only, and the run checks
  invariants. `WindowSize` is 1 (8192 in the code) so that one delta needs two
  PUSH_DELTAs that can be lost or overtake each other separately.
* `MCPushTransfer`: `MaxRounds` 2 (8 in the code) is enough to ask again after a loss
  and to give up; `MaxPushes` 1 makes one call per behaviour; `MaxMishaps` 1 allows one
  late timeout or one server trouble. Losses and overtakings are not limited, only
  their counters saturate at `MaxRounds`. Other consoles may commit the very image
  that is pushed, or other bytes under a delta. Section 4 proves the invariants for any
  number of rounds, pushes and mishaps.
* `MCCardPull`: a window of two chunks (32 in the code) and cards of three, so that a pull
  takes several windows and its later requests differ from the first; `Span` 2 (8192) so
  that a gap can lie past what one bitmap expresses; `MaxRounds` 2; `MaxCalls` 2, so that
  the second call can find what the first left behind; a second version that may land at
  any moment. One card: `game_id` is not looked at by the client, so a second card could
  only add leftovers, which are excluded by name in the properties.
* `MCKernelSync`: three blocks, the smallest card on which one changed block is worth a
  delta and one can be torn behind and ahead of the hash; two writes, so that a second save can
  land in the push of the first; `MaxVersion` 3, so that somebody can roll back to a version
  the console knows; one failure, so that one push is made again. More writes and failures only
  lengthen behaviours for the three safety properties that section 4 proves without bounds; for
  liveness a second failure repeats the first. One slot: slots share the worker's time and the
  log, nothing that the properties read.
* `MCLauncherSync`: three saves make two sessions and another device differ, or one session
  pushed in two parts; two versions of others allow a commit and then a rollback to what the
  console knows; one cut and one failure fall at every step, also both in one behaviour. About
  3.1 million states. Section 4 proves all six properties without bounds.
* `MCKernelNet`: one slot, because the slots share only `at`, the socket and `code`, and the
  properties speak of one at a time; a period of 4 with `Quiet` 1 and `Cooldown` 2 makes every
  threshold fall before, on and after the wrap; one or two rounds, tries and ticks of each wait,
  since they only count down; two faults, so that one can fall into the recovery from the other.
* `MCDolphinSync`: three contents and three versions, so that somebody pushes over a push of
  this PC and somebody rolls back; two commands or kills, besides the watcher that always runs.
  The run's `VIEW` leaves out the locals of a process that is at a place where it will not read
  them before it has set them again (`head`, `image`, `command`, and `state` of an ended command):
  states that differ in nothing else have the same steps and satisfy the same properties.
  Section 4 proves both properties without bounds.
* `CHECK_DEADLOCK FALSE` in the transfer and pull runs: after `MaxPushes` or `MaxCalls`
  calls the console stops; in the kernel and net runs it is switched off; in the dolphin runs
  the watcher has nothing left to do when the bounds are used up. In the store, listener and
  launcher runs deadlock is checked.

### Fairness

* `CardStore!FairSpec`: weak fairness of each thread's own steps (the operating system
  schedules it; a wait for the lock ends with the lock or with SQLite's timeout).
  Strong fairness of `Leave`, which needs the event loop: the loop runs ready callbacks
  in FIFO order, so a finished call is not passed over for ever although API pushes keep
  taking the loop. Failures and crashes have no fairness.
* `TransferSpec`: weak fairness of `Listen` (the console's thread runs: it reads what
  has come or times out) and of `Serve` (what has been sent is delivered or lost, and
  the server's threads end). Nothing promises that any datagram arrives.
* `CardPull!Spec`: the same, weak fairness of `Listen` and of `Serve`.
* `KernelSync!Spec`: weak fairness of `CardSaved` (the main loop saves a card that was
  written), of `WriteHandoff \/ CloseHandoff` (the main thread goes on with what it began) and
  of `Worker` (a thread of the kernel; none of its waits is for ever). That a push gets through
  is not assumed but bounded: the network fails at most `MaxFailures` times.
* `KernelNet!Spec`: weak fairness of `Worker` (a thread of the kernel), of `Tick` (time passes),
  of `NoteTime` (the main thread, which has raised the flag, goes on to the next line) and of
  `Gone` (its wait for the worker ends). The network promises nothing; `Reconnects` says
  what follows if it settles.
* `LauncherSync` and `DolphinSync` state no fairness: nothing obliges anybody to start the
  launcher or a command, and their properties are about safety.

### The properties

| Property | Why it is not obvious |
|---|---|
| `FastForwardOnly`, `RetriesAreFree` | the parser and the format check run outside the transaction; two threads may hold the same stale head |
| `EveryVersionReadable` | a crash may fall between temporary file, rename and COMMIT |
| `AnswersHold` | an answer is heard after others have committed; the digest in an HTTP body is read later than the version |
| `AppendOnly` | a rollback copies an old version and must not move the head |
| `EveryCallReturns` | `push_card` blocks the loop on which the holder of the write lock will have to answer |
| `CountersAgree` | a declaration and its chunk come in either order, more than once |
| `OpenOrDecided` | a transfer restarted after a verdict must not be answered with it |
| `BufferIsSeedPlusReceived`, `CommittedAsMeant` | buffers are replaced while a seed is being read or a push decided; chunks of earlier attempts arrive late |
| `RepliesHold` | a verdict is remembered, replayed, swept; a gap list is drawn up from chunks and declarations that come in any order and more than once, and must agree with the counters that decide the transfer |
| `ResultHolds` | replies of another request lie in the socket, verdicts of an earlier push are remembered; a delta falls back twice |
| `LossIsRecovered` | gap lists come in several datagrams; a lost one must not end the push. In a pull, rounds that achieve nothing are told from rounds |
| `PushReturns`, `CallReturns` | nothing is ever promised to arrive |
| `ReadsOneVersion` | a version may land between any two requests, and the first request names none |
| `SavesArePushed` | the card changes under the scan, the hash and the transfer; the flag goes down before the first of them and a save may raise it in between |
| `OverwritesNothing` | the parent moves with pushes that are confirmed, lost or guessed, while others push and roll back |
| `HandoffIsOwed` | the worker moves the version on while the main thread is between opening, reading and closing the file, each of which may fail; nothing but such a failure may lose a handoff |
| `EverySaveArrives` | a push may be torn, fail at any step, or fall back from delta to whole; each must lead to another |
| `NoSocketLeaks` | every way in which a connection fails, during a push or not, must close what it opened and nothing else |
| `ScansInTime` | the timer wraps between a save, a push and the scan; a time of zero means "never"; the flag is up before the time is noted, so it says which scans may be early: those in between |
| `Reconnects` | a push closes the socket of the loop; bring-up, open and HELLO each fail on their own, into two callers |
| `KeepsSaves` | an interrupted replacement leaves any of three files; the prompt may answer anything |
| `CommitsDescend` | the parent passes through `state.txt`, the kernel, `runtime.txt` and the merge, each of which may be lost, and a lost answer leaves it behind |
| `DeltaIsAgainstParent` | versions and tables are merged separately, by files that are removed at different times |
| `NoConflictAlone` | the kernel's own pushes reach the launcher only through the handoff |
| `SyncedIsAgreed` | the head moves between the question, the push and the pull |
| `NothingOverwritten` | two copies of one sidecar, a digest that belongs to a later version, a process killed between file and sidecar |

## 4. The proofs

| Module | Theorems |
|---|---|
| `CardStoreProofs` | `Invariance` (IInv), `TypeCorrect`, `HistoryIsOneChain`, `VersionsStayReadable`, `RetriesMakeNoVersion`, `AnswersStayTrue`, `HistoryIsAppendOnly`, `StoreImplementsHistory` |
| `PushListenerProofs` | `ListenerInvariance` (IInv), `ListenerTypes`, `CountersNeverDrift`, `NoVerdictOnOpenTransfer`, `BuffersAreClean`, `NothingElseIsCommitted`, `RepliesAreTrue` |
| `PushTransferProofs` | `TransferActsAsListener`, `TransfersAreSafe`, `TransferTypes`, `ReturnsAreTrue`, `PushSurvivesFewMishaps` |
| `CardPullProofs` | `PullInvariance` (IInv), `PullIsAtomic`, `PullTypes`, `PullSurvivesLosses` |
| `KernelSyncProofs` | `KernelInvariance` (IInv), `KernelTypes`, `NoSaveIsSwallowed`, `HandoffReachesTheFile`, `KernelOverwritesNothing` |
| `KernelNetProofs` | `NetInvariance` (IInv), `NetTypes`, `NoSocketIsLost`, `DebounceHolds` |
| `LauncherSyncProofs` | `LauncherInvariance` (IInv), `LauncherTypeInvariance`, `CardIsKept`, `CommitsDescendFrom`, `DeltasNameTheirParent`, `AloneMeetsNoConflict`, `RunsEndAgreed` |
| `DolphinSyncProofs` | `DolphinInvariance` (IInv), `DolphinTypes`, `PlayIsNotLost` |

They hold for every number of threads, cards, images, consoles, chunks, slots and rounds, for
every period and threshold of the timer, and with the bounds (`MaxVersion`, `MaxPushes`,
`MaxCalls`, `MaxMishaps`, `MaxWrites`, `MaxSaves`, `MaxOthers`, `MaxCuts`, `MaxFailures`,
`MaxFaults`, `MaxCards`, `MaxRuns`) left open. The assumptions are those stated beside the
constants: `CallsAssumption`, `StoreAssumption`, `ListenerAssumption`, `TransferAssumption`,
`PullAssumption`, `KernelAssumption`, `NetAssumption`, `LauncherAssumption`,
`DolphinAssumption`. Four have content: attempts under one transfer key name one parent, which
holds because the key contains parent + 1; "other", which stands for the source of a commit made
elsewhere, is not a transfer key; a pull asks for no more chunks at a time than a request's bitmap
holds (`client.c:601-604`); and debounce and cooldown are shorter than a turn of the timer, which
holds because `ssl_clamp_ms` keeps them below 600 s.

* **Store.** `IInv` adds to the safety properties: the threads inside a transaction are
  exactly the holder of the lock (`LockHeld`), what a handler established on its way
  (`CallFits`), what it read under the lock still holds when it writes
  (`DecisionStands`), no blob is ever partial (`BlobsWhole`), and unanswered calls have
  no answer (`AnswerWhenDone`). `DecisionStands` is the heart: without it
  `CommitVersion` could be taken on a stale head. The refinement maps the rows of a card
  to a sequence and a thread inside or before its transaction to "asked"; a step maps to
  the decision of CardHistory when the transaction ends, and to a stutter otherwise.
* **Listener.** `IInv` adds that remembered verdicts (`SettledHold`) and what suspended
  handlers go by (`TasksHold`) stay true while others commit, and that a buffer names the
  parent its key stands for (`ParentKnown`). The argument rests on one fact: the history
  only grows, so whatever is true of a version stays true. That a list of gaps names as many
  chunks as the transfer waits for (`RepliesHold`) follows from the counters: they have never
  drifted, and the list is drawn up and sent without an await in between.
* **Transfer.** A console sends only datagrams that fit one of its attempts (`Sound`); then
  every step of it is a step of PushListener or leaves the listener alone, and all that is
  proved of the listener holds of every transfer.

  `ResultHolds` speaks of what is heard, so its invariant ranges over both bags. `Truthful`:
  always, an answer is one that its kind of request can get (`AnswersFit`); and while no timeout
  has fired early, the call is `Calm` and the last result is as it should be (`Rested`). Calm
  means that there is one exchange at a time (`OneExchange`: a control message, or a handler at
  work on it, or its answer), that it belongs to the save and to the step the console is in
  (`OfTheSave`, `InStep`), that every verdict which may still be heard is true (`VerdictsTrue`),
  that no old verdict is left once the transfer is open (`VerdictForgotten`), and that a commit of
  the call is being told of (`CommitIsTold`). An early timeout puts two exchanges under way; finding
  3 is what happens then. Histories only grow and `since` is where the call began, so a verdict
  that was true of a moment during the call stays so.

  `LossIsRecovered` is carried by `Recovers`, an invariant of calls that have met few mishaps. It
  says, for each step the console can be in (`Beginning`, `Declaring`, `Sending`, `Resting`), what
  the server's buffer holds and what may be on its way. The counting is `Progress`: every emission
  after the first has been paid for by a mishap; when something has been lost since the last one
  (not `Intact`), that is a mishap more; and when a chunk the server lacks is neither asked for nor
  named in a gap list still to be heard (not `Covered`), another. So the rounds do not run out
  before the mishaps do. The one overtaking that is allowed must be the only mishap: after a mishap
  a chunk may be sent once more than needed, and if the next PUSH_END overtakes it, it arrives
  behind the verdict and is answered STAGING_EXPIRED, which the client may hear first (finding 4).
  As long as there was no mishap the server gets every chunk once (`InRound`).
* **Pull.** `ReadsOneVersion` is the abstract specification of a pull, an atomic read, stated
  as an invariant. Behind it: while no timeout has fired early and the call began with an empty
  network, either the card is unknown and there is one request, or the replies to one, in the
  network (`OneAtATime`), or all that is under way speaks of the version that is known
  (`TrueReply`, `InFlight`), and what has been received is that version's (`KnownHolds`). The
  first reply heard turns the first case into the second; without `OneAtATime` it could not, and
  finding 5 is what happens then. Histories only grow, so a version landing meanwhile disturbs
  none of it.

  `PullTypes` rests on the arithmetic of the windows: one that follows lies within the card and
  within what a bitmap can say, which needs `PullWindow <= Span`. `PullSurvivesLosses` counts like
  the transfer: `LossInv` says that rounds already over have met no more losses than `Credit` (one
  less than the losses, unless the round that runs is still `Intact`); that all rounds but so many
  have each brought a whole window (`Reached`), so the budget of rounds suffices; and that a round
  which brought nothing was one of those with a loss, so the stall rule does not end the call.
* **Kernel.** `SavesArePushed` speaks of the moment when nothing is to be done; `IInv` carries
  it through a push. `ReadHolds`: as long as nothing is owed (the game has written nothing that
  is not saved, and no save has raised the flag) every block hashed so far is the card's, since
  whatever the game writes behind the hash makes something owed. `AnswerHolds`: a version that
  an answer names holds what was hashed. Together they give the property when the push settles;
  a push that fails or is torn raises the flag again. `PushedHolds` and `LineageIsOurs` say the
  same of the handoff and of the parent. `HandoffIsOwed` needs that `missed` goes up at every way
  out of the handoff that leaves the file behind, and down only with a version written. Torn pushes and finding 7 need no exception: whatever
  was committed, a save is still owed.

* **Launcher.** `KeepsSaves` and `CommitsDescend` are about single steps; `IInv` says what the
  steps go by. `HandInv` ties the launcher's buffer and the temporary file to the card and to
  the version they came from. `KeepInv` says that a digest on record is that of a version, so
  that a card found unchanged is one the server has, and that a card about to be replaced is one
  or was copied aside. `ParentInv` is the heart: wherever a version is written down that may
  later be named as a parent — `entry`, `state`, `runtime`, the kernel's `parent` — the card
  that will be pushed over it has that version's saves, except those in `ramOnly`, *if that
  version is still the head*. Somebody else's commit makes the condition false, and such a push
  is refused; so lost answers, stale files and reverted merges need no case of their own.
  `TableInv` says that a table on record is of the image of the version it names. The handoff
  of the running kernel takes several steps (`handing`), and pushes fall between them, so the
  table may be of a later version than `runtime.txt` names; it is written with the version it is
  of, and only while the kernel holds it for valid, which a push that fails or conflicts ends.

  `NoConflictAlone` and `SyncedIsAgreed` rest on invariants of their own, on top of `IInv`.
  `AloneInv`: as long as nobody else has committed and nothing has failed, the head is what the
  kernel or the launcher goes by, or it waits in `runtime.txt` to be merged; so every push names
  it. `CoverInv` and `AgreedInv`: when the digest on record is the card's and the version on
  record is the head, the card has nothing that the head lacks; with `ParentInv`, which says the
  converse, the two are the same when a run ends.
* **Dolphin.** What the server has only grows, so what is on record stays so (`RecordInv`) and what
  a process was told stays true of the version it was told of (`InHand`), raced or not. Without a
  race one process at most is at work (`Alone`), and `ParentInv` says that the card on disk
  descends from whatever version any copy of the sidecar names, *if that is still the head*, and
  the card in Dolphin from the one on disk. `HandInv` carries this from the read of the card to the
  push, and from the pulled image to the file and the sidecar. A process killed between the two
  leaves a sidecar older than the file, for which the condition is weaker and not stronger; and an
  answer with a later version's digest changes no version, by which alone parents are named. An
  old copy of the sidecar, written back with the entry of another card, is one more such copy.
* **Kernel network.** `IInv` states what each label of the worker implies for the socket, and
  relates the two clocks (`ClockInv`): until a whole turn has gone by, the time noted of a save
  or a push is what the timer was that many ticks ago. A note that is ahead of the timer is then
  one that was taken before the wrap.

Every invariant, action property and refinement of a passing run is thus proved. Model-checked
only: liveness (`EveryCallReturns`, `PushReturns`, `CallReturns`, `EverySaveArrives`,
`Reconnects`), which needs fairness and ENABLED, out of the prover's reach.

Three statements turned out to be wrong, or weaker than meant, when they were proved.
`LossIsRecovered` of the transfer allowed two overtakings, or a loss and an overtaking, which the
client does not survive when it has three rounds or more; the run has two, where the case does not
arise. `ResultHolds` looked at all of the history for a commit of the save, and was false of a
second push of the same save; it now looks at what came after `since`, and asks that the version
returned was the newest at some moment of the call. The types of CardPull left out the last round
of a call that gives up because its rounds are spent.

## 5. Findings

1. A transfer can be decided twice: a second PUSH_END that arrives while the first waits
   for its thread runs `store.push` again (`udp.py:618`; PROTOCOL.md:142 says it is decided
   once). `ListenerRedecided.cfg`.
2. The staging cap is checked before an `await` and filled after it (`udp.py:420`;
   PROTOCOL.md:290). `ListenerStagingCap.cfg`.
3. The late ACK of a repeated PUSH_BEGIN is taken for the ACK of PUSH_END: the push returns
   SS_OK with the transfer id for a version, and nothing was committed (`client.c:406`). Run
   `transfer_stale_ack`.
4. A client that asks again after a lost verdict sends its chunks first; the first of them is
   answered NACK 0x0b, which the client takes for the verdict, so the replay of the remembered
   verdict is not heard (`client.c:383`; PROTOCOL.md:140, `SlotSync.c:706`).
   `TransferLostReceipt.cfg`.
5. An image assembled from two versions: until something is heard each request of `ss_pull`
   names the head, and chunks of any version are taken. When the reply to the first request
   comes late and a push lands before the second is answered, the chunks of both are returned
   with SS_OK under the version heard first (`client.c:689`; the comments at `client.c:685` and
   `:768`). `PullMixed.cfg`.
6. After STAGING_EXPIRED the kernel takes a head at parent + 1 of the card's size for its own
   push (`SlotSync.c:723`). The comment above it worries about "a house with two consoles"; with
   one, an earlier push of its own whose answer was lost is enough: the later save is recorded as
   pushed and stays on the console until the game saves again. Run `kernel_guess`.
7. `SlotSync.h:48-50` says a save landing mid-push tears the image and the server refuses it. A
   delta whose hash was itself torn is not refused: the server takes the unsent block from the
   parent, assembles exactly what was hashed (`client.c:319`), and commits an image that the card
   never was. The next push replaces it (`SavesArePushed`). `KernelTorn.cfg`.
8. `SlotSync.c:752-754` says of a reset that the launcher is told 409, "a refusal, not a loss".
   The handoff is also written while the game runs, as soon as a push has moved the card on, and
   what was pushed is the card in RAM. When the console is reset before that card is on the SD
   card, the launcher adopts the version and commits the older card on top of it. The save stays
   in the history. Run `launcher_regress`; `CommitsDescend` shows that saves which a reset kept
   off the SD card are the only ones written over.
9. `dolphin/README.md:97` says of the watcher "It never overwrites". A pull does not look for
   Dolphin when it replaces the card (`sync.py:145`); an open Dolphin writes its own back, and
   the push names the version just pulled. Run `dolphin_overwrites`; `NothingOverwritten` shows
   that nothing else does it, short of two processes at work on one card.
10. When HELLO fails the launcher boots Nintendont with `runtime.txt` unmerged (`main.c:574`),
    the kernel takes its parent from `state.txt` alone, and its next push conflicts with its own
    version; `wii_saves.h:75-78` says what the merge is for. `NoConflictAlone` without
    `failures = 0` shows it.
11. `main.c:604-605` says the tables are merged so that the first push is a delta. The merge moves
    the version and keeps the digest (`wii_saves.c:286`), and `wii_fp_usable` asks for both, so a
    table that was handed over is never used in the run that merged it.
12. `ssnet_bring_up` opens its handle of `/dev/net/ip/top` once (`SlotSyncNet.c:276`). When that is
    refused the worker never connects in that session, though `SlotSync.c:1092-1094` says that
    nothing is lost by giving up early. `Reconnects` without `dataFd = "open"` shows it.
13. `last_error_code` outlives the exchange that set it: in `ss_establish_lineage`
    (`SlotSync.c:913`) a head request that times out after one for another card was answered
    UNKNOWN_CARD makes the second card one the server has never seen; `:920` says "try again
    next time round". With two slots, `EstablishLineage` of KernelNet takes that step.
14. `handoffPending` goes down before `ss_write_handoff` is called, which returns without a word
    when `f_open` fails (`SlotSync.c:552`) and does not look at `f_write` and `f_close`. The
    version reached is then not handed over until another push succeeds; `:1143` says of the
    handoff "that one matters". `KernelHandoff.cfg`; `HandoffIsOwed` shows that nothing else
    loses it.
15. `SlotSync_NotifyCardSaved` raises `dirty` and then notes the time (`SlotSync.c:1164-1165`), on
    another thread than the worker's. A scan in between measures the quiet time from the save
    before this one and takes the card up at once; `SlotSyncLogic.c:324` says "Wait for the card
    to go quiet". `KernelDebounce.cfg`; `ScansInTime` shows that no other scan is early.

## 6. What is not modelled

* Power loss of the server. `Crash` is the death of the process: what SQLite committed is there
  afterwards. With `synchronous=NORMAL` a power cut may undo it; that needs a model of the page
  cache. On the console `Cut` loses nothing that a completed file operation wrote: FAT's own
  caches are not modelled either.
* The `devices` table, notes, sizes and timestamps; no rule of the store reads them.
* Authentication, signing, the nonce cache's and the rate limiter's own bookkeeping: to the
  listener they are dropped datagrams.
* The codec's windows of gap bitmaps, and the card parser (`server/memcard.py`,
  `core/memcard.c`): pure functions of their input. The store's models take the set of images the
  parser accepts as a constant.
* Several cards in one launcher run. They share the socket, which is never drained
  (`main.c:438`), and the last NACK; the second is kept (`unknown` may hold from the start), the
  first is not.
* Parsing of configuration and state files. A `state.txt` of more than 2047 bytes, of which
  the kernel reads only the beginning, is one of the cases left out.
* Dolphin.ini and where Dolphin looks for its card, GCI folders, `--force` of `play` and `use`,
  and a second Dolphin on the same card.
* How a file is written. A completed write is one step, as are `GCNCard_Save` of the kernel and
  Dolphin's flush, which `sync.py:266-267` says comes in pieces; a push of a card read in the
  middle of one, and the watcher's wait for the file to settle, are left out. A write that fails
  leaves nothing behind it, and never half of what was to be written: a line of `runtime.txt` cut
  off inside its number, which would be read as a smaller version, is left out, and so is a scan
  of the worker that makes the table anew while the main thread copies it to `runtime-fp.bin`.
* The launcher's identification of a card by the name of its file. A stem of six characters
  names the game even when the card is empty (`wii_saves.c:57-61`); the model follows the names
  of four that Nintendont plays on, where an empty card names none.
* Console set-up, the loader, rendering, the read-only endpoints, scripts, packaging.

## 7. Plan

1. `CardHistory`, `CardStore`, `PushListener`, `PushTransfer` and their proofs — done.
2. `CardPull` and its proofs — done.
3. `KernelSync` and its proofs; `KernelNet`, with the arithmetic of the timer — done.
4. `LauncherSync` and its proofs — done for one card.
5. `DolphinSync` and its proofs — done.
6. Algorithms as operators against reference definitions: gap bitmaps and their windows, the rate
   limiter and nonce cache at their limits, the block chain walk and the choice of the directory
   copy.
7. Proofs: the types and counters of `CardPull`, that losses are recovered, the client's results
   — done.
8. Two cards in one launcher run, with the socket they share.
