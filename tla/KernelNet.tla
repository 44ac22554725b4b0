------------------------------ MODULE KernelNet ------------------------------
(***************************************************************************)
(* The runtime client's connection and its clock: SlotSyncNet.c, and the   *)
(* worker of SlotSync.c around it.                                         *)
(*                                                                         *)
(* The main thread brings the interface up before the game boots; the      *)
(* worker then connects, backs off, walks over the card slots every poll,  *)
(* and connects again for every push. The interface may go, the server be  *)
(* silent, IOS refuse a socket, an answer be lost, the timer wrap.         *)
(*                                                                         *)
(* Time passes in ticks, and only while the worker waits: its code takes   *)
(* none. What a push does to the card is KernelSync's matter.              *)
(***************************************************************************)
EXTENDS Naturals, FiniteSets

CONSTANTS
    NSlots,        \* SS_SLOTS
    Period,        \* the values of the hardware timer
    Quiet,         \* quiet_ms
    Cooldown,      \* cooldown_ms
    NwcTries,      \* attempts at NWC_STARTUP
    InitBudget,    \* SS_INIT_NET_BUDGET_MS
    NetTimeout,    \* net_timeout_ms
    Rounds,        \* rounds
    Timeout,       \* timeout_ms
    FirstBackoff,  \* 2000 ms
    LastBackoff,   \* 60000 ms
    PushTime,      \* bound: ticks that a push may take
    ShutdownWait,  \* 3000 ms
    MaxFaults      \* bound: failures of the network and of IOS

\* ssl_clamp_ms keeps the settings below 600 s, and the timer wraps after 2261 s.
ASSUME NetAssumption ==
    /\ NSlots \in Nat \ {0}
    /\ Period \in Nat /\ Quiet \in 0..(Period - 1) /\ Cooldown \in 0..(Period - 1)
    /\ {NwcTries, InitBudget, NetTimeout, Rounds, Timeout, FirstBackoff, LastBackoff}
         \subseteq Nat \ {0}
    /\ FirstBackoff <= LastBackoff
    /\ {PushTime, ShutdownWait, MaxFaults} \subseteq Nat

Slots == 0..(NSlots - 1)

VARIABLES
    \* the network
    up,            \* the interface has an address
    answers,       \* the server answers
    sockFd,        \* SOCKInit has a handle
    fds,           \* the sockets that IOS has open
    faults,        \* failures so far
    seen,          \* the cards that the server has
    \* SlotSyncNet.c
    dataFd,        \* our own handle of /dev/net/ip/top
    sock,          \* net.sock
    \* the worker
    pc,
    left,          \* ticks of the wait it is in
    why,           \* who called ss_connect or ssnet_bring_up
    tries,         \* attempts or rounds that the present step has left
    backoff,       \* backoff_ms
    at,            \* the slot it is at
    netConnected,
    code,          \* client.last_error_code
    \* the slots
    dirty, halted, lineage,
    dirtyAt, pushedAt,
    \* the main thread
    main,
    mleft,         \* ticks of the wait that it is in
    workerStop,
    noting,        \* the slot whose save is being noted, if there is one
    \* time
    timer,         \* HW_TIMER
    quietFor,      \* ticks since the last save, up to Long
    idleFor        \* ticks since the last push, up to Long

network == <<up, answers, faults>>
ios == <<sockFd, fds, dataFd, sock>>
connect == <<why, tries, backoff, netConnected, code>>
cards == <<dirty, halted, lineage, dirtyAt, pushedAt, seen>>
game == <<main, mleft, workerStop, noting>>
time == <<timer, quietFor, idleFor>>
vars == <<network, ios, pc, left, at, connect, cards, game, time>>

Closed == 0

\* More than any threshold, as UINT_MAX is.
Long == Period

Init ==
    /\ up \in BOOLEAN /\ answers \in BOOLEAN /\ sockFd \in BOOLEAN
    /\ fds = {} /\ sock = Closed /\ dataFd = "unopened"
    /\ faults = 0
    /\ pc = "bring up" /\ why = "init" /\ tries = 0 /\ left = 0
    /\ backoff = FirstBackoff
    /\ at = 0
    /\ netConnected = FALSE
    /\ code = "none"
    /\ dirty = [s \in Slots |-> FALSE]
    /\ halted = [s \in Slots |-> FALSE]
    /\ lineage \in [Slots -> BOOLEAN]
    /\ seen \in [Slots -> BOOLEAN] /\ \A s \in Slots : lineage[s] => seen[s]
    /\ dirtyAt = [s \in Slots |-> 0]
    /\ pushedAt = [s \in Slots |-> 0]
    /\ main = "init" /\ mleft = 0
    /\ workerStop = FALSE
    /\ noting = {}
    /\ timer \in 0..(Period - 1)
    /\ quietFor = [s \in Slots |-> Long]
    /\ idleFor = [s \in Slots |-> Long]

----------------------------------------------------------------------------
(* The network, and the failures it has left.                              *)

Reachable == up /\ answers

Fault == faults < MaxFaults /\ faults' = faults + 1

NetworkChanges ==
    /\ \/ ~ up /\ up' = TRUE /\ UNCHANGED <<answers, faults>>
       \/ up /\ up' = FALSE /\ Fault /\ UNCHANGED answers
       \/ ~ answers /\ answers' = TRUE /\ UNCHANGED <<up, faults>>
       \/ answers /\ answers' = FALSE /\ Fault /\ UNCHANGED up
    /\ UNCHANGED <<ios, pc, left, at, connect, cards, game, time>>

\* The far end does not answer, or the answer is lost, or it comes too late: a poll that
\* returns at once counts its whole step, so a wait may be over before its time.
Silence == \/ ~ Reachable /\ UNCHANGED network
           \/ Reachable /\ Fault /\ UNCHANGED <<up, answers>>

----------------------------------------------------------------------------
(* ssnet_bring_up, called by SlotSync_Init and by ss_connect.              *)

\* Before the worker is created, its steps are those of SlotSync_Init on the main thread.
At(label) == pc = label /\ main # "off"

Ready(label) == At(label) /\ left = 0

WorkerGoesTo(next, wait) == pc' = next /\ left' = wait

\* The call of ssnet_bring_up in SlotSync_Init has returned, and the worker is created.
StartWorker == WorkerGoesTo("start", 0) /\ main' = "game" /\ UNCHANGED <<mleft, workerStop, noting>>

\* Mutants: the worker gives up when it cannot connect; the wait doubles for ever.
ConnectOnce ==
    /\ why = "loop" /\ WorkerGoesTo("ended", 0)
    /\ UNCHANGED <<dirty, pushedAt, idleFor, backoff>>

ConnectEverLater ==
    /\ why = "loop" /\ WorkerGoesTo("top", backoff) /\ backoff' = 2 * backoff
    /\ UNCHANGED <<dirty, pushedAt, idleFor>>

\* ss_connect returns -1 to SlotSyncWorker, or to ss_push_slot.
ConnectFailed ==
    \/ /\ why = "loop"
       /\ WorkerGoesTo("top", backoff)
       /\ backoff' = IF backoff < LastBackoff THEN 2 * backoff ELSE backoff
       /\ UNCHANGED <<dirty, pushedAt, idleFor>>
    \/ /\ why = "push"
       /\ dirty' = [dirty EXCEPT ![at] = TRUE]
       /\ pushedAt' = [pushedAt EXCEPT ![at] = timer]
       /\ idleFor' = [idleFor EXCEPT ![at] = 0]
       /\ WorkerGoesTo("next", 0)
       /\ UNCHANGED backoff

NotUp == \/ /\ why = "init" /\ StartWorker
            /\ UNCHANGED <<dirty, pushedAt, idleFor, backoff>>
         \/ ConnectFailed /\ UNCHANGED game

IsUp == \/ why = "init" /\ StartWorker
        \/ why # "init" /\ WorkerGoesTo("open", 0) /\ UNCHANGED game

\* The handles are taken once; our own of ip/top may be refused.
TakeHandles ==
    /\ Ready("bring up")
    /\ \/ /\ dataFd = "unopened" /\ ~ sockFd
          /\ NotUp
          /\ UNCHANGED <<network, dataFd>>
       \/ /\ dataFd = "unopened" /\ sockFd
          /\ \/ dataFd' = "open" /\ UNCHANGED network
             \/ dataFd' = "refused" /\ Fault /\ UNCHANGED <<up, answers>>
          /\ WorkerGoesTo("host id", 0)
          /\ UNCHANGED <<game, dirty, pushedAt, idleFor, backoff>>
       \/ /\ dataFd # "unopened"
          /\ WorkerGoesTo("host id", 0)
          /\ UNCHANGED <<network, dataFd, game, dirty, pushedAt, idleFor, backoff>>
    /\ UNCHANGED <<sockFd, fds, sock, at, why, tries, netConnected, code, halted, lineage,
                   dirtyAt, seen, timer, quietFor>>

GetHostId ==
    /\ Ready("host id")
    /\ \/ up /\ IsUp /\ UNCHANGED tries
       \/ ~ up /\ WorkerGoesTo("nwc", 0) /\ tries' = NwcTries /\ UNCHANGED game
    /\ UNCHANGED <<network, ios, at, why, backoff, netConnected, code, cards, time>>

\* NWC_STARTUP answers -29 while it is busy. Then the stack is started.
NwcStartup ==
    /\ Ready("nwc")
    /\ \/ tries > 0 /\ tries' = tries - 1 /\ WorkerGoesTo("nwc", 1)
       \/ /\ tries' = IF why = "init" THEN InitBudget ELSE NetTimeout
          /\ WorkerGoesTo("poll host id", 0)
    /\ UNCHANGED <<network, ios, at, why, backoff, netConnected, code, cards, game, time>>

PollHostId ==
    /\ Ready("poll host id")
    /\ \/ /\ tries > 0 /\ up
          /\ IsUp
          /\ UNCHANGED <<tries, dirty, pushedAt, idleFor, backoff>>
       \/ /\ tries > 0 /\ ~ up
          /\ tries' = tries - 1
          /\ WorkerGoesTo("poll host id", 1)
          /\ UNCHANGED <<game, dirty, pushedAt, idleFor, backoff>>
       \/ /\ tries = 0
          /\ NotUp
          /\ UNCHANGED tries
    /\ UNCHANGED <<network, ios, at, why, netConnected, code, halted, lineage, dirtyAt, seen,
                   timer, quietFor>>

----------------------------------------------------------------------------
(* ss_connect: the socket and the HELLO.                                   *)

\* Those of the HELLO are clamped to four rounds.
HelloRounds == IF Rounds > 4 THEN 4 ELSE Rounds

FreeFd == CHOOSE fd \in 1..(Cardinality(fds) + 1) : fd \notin fds

\* The binds and the fcntl may fail; nothing depends on them.
OpenSocket == sock' = FreeFd /\ fds' = fds \cup {FreeFd}

CloseSocket == sock' = Closed /\ fds' = fds \ {sock}

Open ==
    /\ Ready("open")
    /\ \/ /\ dataFd = "open"
          /\ OpenSocket
          /\ code' = "none"
          /\ tries' = HelloRounds
          /\ WorkerGoesTo("hello", Timeout)
          /\ UNCHANGED <<network, dirty, pushedAt, idleFor, backoff>>
       \/ /\ IF dataFd = "open" THEN Fault /\ UNCHANGED <<up, answers>> ELSE UNCHANGED network
          /\ sock' = Closed
          /\ ConnectFailed
          /\ UNCHANGED <<fds, tries, code>>
    /\ UNCHANGED <<sockFd, dataFd, at, why, netConnected, halted, lineage, dirtyAt, seen, game,
                   timer, quietFor>>

Hello ==
    /\ At("hello")
    /\ Reachable
    /\ netConnected' = TRUE
    /\ \/ /\ why = "loop"
          /\ backoff' = FirstBackoff
          /\ at' = 0
          /\ WorkerGoesTo("scan", 0)
       \/ /\ why = "push"
          /\ WorkerGoesTo("push", PushTime)
          /\ UNCHANGED <<backoff, at>>
    /\ UNCHANGED <<network, ios, why, tries, code, cards, game, time>>

\* Mutant: a failed HELLO leaves its socket open.
HelloFailedOpen == ConnectFailed /\ UNCHANGED <<sock, fds>>

HelloFailed == CloseSocket /\ ConnectFailed

\* A round has brought nothing. After the last one the socket is closed.
HelloExpires ==
    /\ At("hello")
    /\ Silence
    /\ tries' = tries - 1
    /\ \/ /\ tries > 1
          /\ WorkerGoesTo("hello", Timeout)
          /\ UNCHANGED <<sock, fds, dirty, pushedAt, idleFor, backoff>>
       \/ tries = 1 /\ HelloFailed
    /\ UNCHANGED <<sockFd, dataFd, at, why, netConnected, code, halted, lineage, dirtyAt, seen,
                   game, timer, quietFor>>

----------------------------------------------------------------------------
(* SlotSyncWorker.                                                         *)

workerRunning == pc \notin {"ended", "start"} /\ main \notin {"init", "off"}

Start ==
    /\ At("start")
    /\ WorkerGoesTo("top", 0)
    /\ UNCHANGED <<network, ios, at, connect, cards, game, time>>

\* The head of the loop. Once told to stop, the worker closes its socket and ends.
Top ==
    /\ Ready("top")
    /\ \/ /\ workerStop
          /\ IF netConnected THEN CloseSocket ELSE UNCHANGED <<sock, fds>>
          /\ netConnected' = FALSE
          /\ WorkerGoesTo("ended", 0)
          /\ UNCHANGED <<at, why>>
       \/ /\ ~ workerStop /\ ~ netConnected
          /\ why' = "loop"
          /\ WorkerGoesTo("bring up", 0)
          /\ UNCHANGED <<sock, fds, netConnected, at>>
       \/ /\ ~ workerStop /\ netConnected
          /\ at' = 0
          /\ WorkerGoesTo("scan", 0)
          /\ UNCHANGED <<sock, fds, netConnected, why>>
    /\ UNCHANGED <<network, sockFd, dataFd, tries, backoff, code, cards, game, time>>

\* Mutant: a timer that has wrapped reads as just now.
TimerDiffZero(t) == IF timer >= t THEN timer - t ELSE 0

TimerDiffTicks(t) == IF timer >= t THEN timer - t ELSE Long

\* A time of zero stands for never.
ShouldPush(s) ==
    /\ dirty[s] /\ ~ halted[s]
    /\ TimerDiffTicks(dirtyAt[s]) >= Quiet
    /\ pushedAt[s] # 0 => TimerDiffTicks(pushedAt[s]) >= Cooldown

\* A push starts on a socket of its own.
BeginPush ==
    /\ dirty' = [dirty EXCEPT ![at] = FALSE]
    /\ CloseSocket
    /\ netConnected' = FALSE
    /\ why' = "push"
    /\ WorkerGoesTo("bring up", 0)

Scan ==
    /\ At("scan")
    /\ \/ /\ workerStop \/ at = NSlots
          /\ WorkerGoesTo("top", 1)
          /\ UNCHANGED <<at, dirty, sock, fds, netConnected, why>>
       \/ /\ ~ workerStop /\ at < NSlots /\ ~ ShouldPush(at)
          /\ at' = at + 1
          /\ UNCHANGED <<pc, left, dirty, sock, fds, netConnected, why>>
       \/ /\ ~ workerStop /\ at < NSlots /\ ShouldPush(at)
          /\ \/ lineage[at] /\ BeginPush
             \/ ~ lineage[at] /\ WorkerGoesTo("lineage", Timeout)
                /\ UNCHANGED <<dirty, sock, fds, netConnected, why>>
          /\ UNCHANGED at
    /\ UNCHANGED <<network, sockFd, dataFd, tries, backoff, code, halted, lineage, dirtyAt,
                   pushedAt, seen, game, time>>

\* ss_head, and what ss_establish_lineage makes of it. A closed socket fails at once, and an
\* exchange that fails leaves the error code of an earlier one.
EstablishLineage ==
    /\ At("lineage")
    /\ \/ /\ sock # Closed /\ Reachable /\ seen[at]
          /\ halted' = [halted EXCEPT ![at] = TRUE]
          /\ WorkerGoesTo("next", 0)
          /\ UNCHANGED <<network, dirty, sock, fds, netConnected, why, lineage, code>>
       \/ /\ \/ sock # Closed /\ Reachable /\ ~ seen[at] /\ code' = "unknown card"
                /\ UNCHANGED network
             \/ (sock # Closed => Silence) /\ (sock = Closed => UNCHANGED network)
                /\ code = "unknown card" /\ UNCHANGED code
          /\ lineage' = [lineage EXCEPT ![at] = TRUE]
          /\ BeginPush
          /\ UNCHANGED halted
       \/ /\ (sock # Closed => Silence) /\ (sock = Closed => UNCHANGED network)
          /\ code # "unknown card"
          /\ WorkerGoesTo("next", 0)
          /\ UNCHANGED <<dirty, sock, fds, netConnected, why, lineage, code, halted>>
    /\ UNCHANGED <<sockFd, dataFd, at, tries, backoff, dirtyAt, pushedAt, seen, game, time>>

\* The end of ss_push_slot: it landed, it met a conflict, or it failed.
Push ==
    /\ At("push")
    /\ \/ /\ Reachable
          /\ seen' = [seen EXCEPT ![at] = TRUE]
          /\ UNCHANGED <<dirty, halted>>
       \/ /\ Reachable /\ seen[at]
          /\ halted' = [halted EXCEPT ![at] = TRUE]
          /\ UNCHANGED <<dirty, seen>>
       \/ /\ dirty' = [dirty EXCEPT ![at] = TRUE]
          /\ UNCHANGED <<halted, seen>>
    /\ IF halted'[at] THEN UNCHANGED <<pushedAt, idleFor>>
       ELSE /\ pushedAt' = [pushedAt EXCEPT ![at] = timer]
            /\ idleFor' = [idleFor EXCEPT ![at] = 0]
    /\ WorkerGoesTo("next", 0)
    /\ UNCHANGED <<network, ios, at, connect, lineage, dirtyAt, game, timer, quietFor>>

NextSlot ==
    /\ At("next")
    /\ at' = at + 1
    /\ WorkerGoesTo("scan", 0)
    /\ UNCHANGED <<network, ios, connect, cards, game, time>>

Worker ==
    \/ TakeHandles \/ GetHostId \/ NwcStartup \/ PollHostId
    \/ Open \/ Hello \/ HelloExpires
    \/ Start \/ Top \/ Scan \/ EstablishLineage \/ Push \/ NextSlot

----------------------------------------------------------------------------
(* The main thread.                                                        *)

\* SlotSync_NotifyCardSaved: the flag goes up first.
NotifyCardSaved(s) ==
    /\ main = "game"
    /\ workerRunning
    /\ noting = {}
    /\ noting' = {s}
    /\ dirty' = [dirty EXCEPT ![s] = TRUE]
    /\ quietFor' = [quietFor EXCEPT ![s] = 0]
    /\ UNCHANGED <<network, ios, pc, left, at, connect, halted, lineage, dirtyAt, pushedAt, seen,
                   main, mleft, workerStop, timer, idleFor>>

\* Then the time is noted; the worker may have looked at the slot in between.
NoteTime(s) ==
    /\ s \in noting
    /\ noting' = noting \ {s}
    /\ dirtyAt' = [dirtyAt EXCEPT ![s] = timer]
    /\ quietFor' = [quietFor EXCEPT ![s] = 0]
    /\ UNCHANGED <<network, ios, pc, left, at, connect, dirty, halted, lineage, pushedAt, seen,
                   main, mleft, workerStop, timer, idleFor>>

Shutdown ==
    /\ main = "game"
    /\ noting = {}
    /\ \/ ~ workerRunning /\ main' = "off" /\ UNCHANGED <<workerStop, mleft>>
       \/ workerRunning /\ main' = "exit" /\ workerStop' = TRUE /\ mleft' = ShutdownWait
    /\ UNCHANGED <<noting, network, ios, pc, left, at, connect, cards, time>>

\* The wait for the worker is over, one way or the other.
Gone ==
    /\ main = "exit"
    /\ ~ workerRunning \/ mleft = 0
    /\ main' = "off"
    /\ UNCHANGED <<mleft, workerStop, noting, network, ios, pc, left, at, connect, cards, time>>

----------------------------------------------------------------------------
(* Time.                                                                   *)

Waiting == left > 0 \/ pc = "ended"

Later(age) == IF age < Long THEN age + 1 ELSE age

Tick ==
    /\ Waiting
    /\ main \in {"init", "game"} \/ (main = "exit" /\ mleft > 0)
    /\ timer' = IF timer + 1 = Period THEN 0 ELSE timer + 1
    /\ left' = IF left > 0 THEN left - 1 ELSE left
    /\ mleft' = IF mleft > 0 THEN mleft - 1 ELSE mleft
    /\ quietFor' = [s \in Slots |-> Later(quietFor[s])]
    /\ idleFor' = [s \in Slots |-> Later(idleFor[s])]
    /\ UNCHANGED <<network, ios, pc, at, connect, cards, main, workerStop, noting>>

Next ==
    \/ Worker
    \/ \E s \in Slots : NotifyCardSaved(s) \/ NoteTime(s)
    \/ Shutdown \/ Gone
    \/ NetworkChanges
    \/ Tick

\* The threads run, and time passes.
Fairness ==
    /\ WF_vars(Worker) /\ WF_vars(Tick) /\ WF_vars(Gone)
    /\ WF_vars(\E s \in Slots : NoteTime(s))

Spec == Init /\ [][Next]_vars /\ Fairness

----------------------------------------------------------------------------
(* Properties.                                                             *)

NetworkTypes ==
    /\ up \in BOOLEAN /\ answers \in BOOLEAN /\ sockFd \in BOOLEAN
    /\ faults \in 0..MaxFaults
    /\ fds \subseteq Nat \ {Closed} /\ IsFiniteSet(fds)
    /\ dataFd \in {"unopened", "open", "refused"}
    /\ sock \in Nat

WorkerTypes ==
    /\ pc \in {"bring up", "host id", "nwc", "poll host id", "open", "hello", "start", "top",
               "scan", "lineage", "push", "next", "ended"}
    /\ left \in Nat
    /\ why \in {"init", "loop", "push"}
    /\ tries \in Nat
    /\ backoff \in 1..(2 * LastBackoff)
    /\ at \in 0..NSlots
    /\ code \in {"none", "unknown card"}
    /\ netConnected \in BOOLEAN
    /\ workerStop \in BOOLEAN
    /\ main \in {"init", "game", "exit", "off"}
    /\ mleft \in 0..ShutdownWait
    /\ noting \subseteq Slots

CardTypes ==
    /\ dirty \in [Slots -> BOOLEAN] /\ halted \in [Slots -> BOOLEAN]
    /\ lineage \in [Slots -> BOOLEAN] /\ seen \in [Slots -> BOOLEAN]

TimeTypes ==
    /\ dirtyAt \in [Slots -> 0..(Period - 1)] /\ pushedAt \in [Slots -> 0..(Period - 1)]
    /\ timer \in 0..(Period - 1)
    /\ quietFor \in [Slots -> 0..Long] /\ idleFor \in [Slots -> 0..Long]

TypeOK == NetworkTypes /\ WorkerTypes /\ CardTypes /\ TimeTypes

\* However a connection fails, IOS has no socket open that the client does not hold: the
\* one in `net`, which is there whenever the client takes itself for connected, and none
\* once the worker has ended. IOS has few to give.
NoSocketLeaks ==
    /\ fds = IF sock = Closed THEN {} ELSE {sock}
    /\ netConnected => sock # Closed
    /\ pc = "ended" => fds = {}

\* By the clock on the wall, not by the timer.
Due(s) == dirty[s] /\ ~ halted[s] /\ quietFor[s] >= Quiet /\ idleFor[s] >= Cooldown

\* The timer has been zero since the last save, or since the last push.
QuietOrWrapped(s) == quietFor[s] >= Quiet \/ quietFor[s] >= timer

CoolOrWrapped(s) == idleFor[s] >= Cooldown \/ idleFor[s] >= timer

\* A whole turn of the timer has gone by: the difference starts again.
Forgotten(s) == quietFor[s] = Long \/ (pushedAt[s] # 0 /\ idleFor[s] = Long)

\* Wherever the timer wraps, the worker does not pass over a card that has been quiet for long
\* enough, short of a whole turn of the timer; and it takes one up early only if the timer has
\* been zero since. The time of a save that is being noted is still that of the save before:
\* then the worker may take the card up with no quiet time, though never within the cooldown.
ScansInTime == [][
    \A s \in Slots : pc = "scan" /\ at = s =>
        /\ at' = s + 1 => ~ Due(s) \/ Forgotten(s) \/ s \in noting
        /\ pc' \in {"bring up", "lineage"} =>
              /\ dirty[s] /\ ~ halted[s]
              /\ QuietOrWrapped(s) \/ s \in noting
              /\ CoolOrWrapped(s)
    ]_vars

\* If IOS gave us our handle and from some time on the interface is up and the server
\* answers, then the client is connected time and again until it is told to stop.
Reconnects ==
    <>[](Reachable /\ dataFd = "open") => []<>(netConnected \/ workerStop \/ main = "off")

----------------------------------------------------------------------------
(* What the comments say and the code does not keep.                       *)

\* SlotSyncLogic.c: "Wait for the card to go quiet." No card is taken up before its quiet
\* time is over, unless the timer has been zero since.
QuietFirst == [][
    \A s \in Slots : pc = "scan" /\ at = s /\ pc' \in {"bring up", "lineage"}
        => QuietOrWrapped(s)
    ]_vars
=============================================================================
