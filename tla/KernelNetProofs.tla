--------------------------- MODULE KernelNetProofs ---------------------------
(***************************************************************************)
(* Proofs about KernelNet: no socket is left open, and the debounce keeps  *)
(* its promise across every wrap of the timer, for any number of slots and *)
(* any settings below the timer's period, however often the network fails. *)
(***************************************************************************)
EXTENDS KernelNet, TLAPS, FiniteSetTheorems

----------------------------------------------------------------------------
(* The inductive invariant.                                                *)

Connecting == {"bring up", "host id", "nwc", "poll host id", "open", "hello"}

\* IOS has the socket open that the client holds, and that is between the HELLO and the end of
\* the connection.
SocketInv ==
    /\ fds = IF sock = Closed THEN {} ELSE {sock}
    /\ sock # Closed <=> netConnected \/ pc = "hello"
    /\ pc \in Connecting \cup {"start", "ended"} => ~ netConnected

\* Wherever the worker has a slot in hand, it is one.
PlaceInv ==
    /\ pc \in {"lineage", "push", "next"} => at < NSlots
    /\ pc \in Connecting /\ why = "push" => at < NSlots

\* The timer's value `ago` ticks ago.
Then(ago) == IF ago <= timer THEN timer - ago ELSE timer + Period - ago

\* Up to a whole turn of the timer, a time that was noted is the one it stands for; while a
\* save is being noted, its time is not.
ClockInv ==
    \A s \in Slots :
        /\ s \notin noting /\ quietFor[s] < Long => dirtyAt[s] = Then(quietFor[s])
        /\ idleFor[s] < Long => pushedAt[s] = Then(idleFor[s])

IInv == TypeOK /\ SocketInv /\ PlaceInv /\ ClockInv

----------------------------------------------------------------------------
(* What the steps are made of.                                             *)

\* The constants are numbers.
LEMMA Numbers ==
    /\ NSlots \in Nat \ {0} /\ Period \in Nat \ {0}
    /\ Quiet \in 0..(Period - 1) /\ Cooldown \in 0..(Period - 1)
    /\ InitBudget \in Nat /\ NetTimeout \in Nat /\ NwcTries \in Nat
    /\ Rounds \in Nat \ {0} /\ Timeout \in Nat
    /\ FirstBackoff \in Nat \ {0} /\ LastBackoff \in Nat \ {0} /\ FirstBackoff <= LastBackoff
    /\ PushTime \in Nat /\ ShutdownWait \in Nat /\ MaxFaults \in Nat
<1>1. \A n \in {NwcTries, InitBudget, NetTimeout, Rounds, Timeout, FirstBackoff, LastBackoff} :
         n \in Nat \ {0}
  BY NetAssumption
<1>2. \A n \in {PushTime, ShutdownWait, MaxFaults} : n \in Nat
  BY NetAssumption
<1>3. Period \in Nat \ {0}
  BY NetAssumption
<1> QED
  BY <1>1, <1>2, <1>3, NetAssumption

\* A failure is counted within its bound.
LEMMA FaultTypes ==
    ASSUME faults \in 0..MaxFaults, Fault
    PROVE  faults' \in 0..MaxFaults
BY Numbers DEF Fault

\* A silence, likewise.
LEMMA SilenceTypes ==
    ASSUME faults \in 0..MaxFaults, Silence
    PROVE  faults' \in 0..MaxFaults /\ up' = up /\ answers' = answers
BY FaultTypes DEF Silence, network

\* The first socket is the first descriptor.
LEMMA FirstFd ==
    ASSUME fds = {}
    PROVE  FreeFd = 1
<1>1. Cardinality(fds) = 0
  BY FS_EmptySet
<1>2. 1..(Cardinality(fds) + 1) = {1}
  BY <1>1
<1> QED
  BY <1>2 DEF FreeFd

\* One socket is a finite set.
LEMMA FiniteFds ==
    /\ IsFiniteSet({})
    /\ \A fd : IsFiniteSet({fd})
BY FS_EmptySet, FS_Singleton

\* Where the worker is after ss_connect has failed.
LEMMA ConnectFailedWorker ==
    ASSUME WorkerTypes, ConnectFailed
    PROVE  /\ backoff' \in 1..(2 * LastBackoff)
           /\ pc' \in {"top", "next"} /\ left' \in Nat
           /\ pc' = "next" => why = "push"
<1>1. backoff \in 1..(2 * LastBackoff) /\ LastBackoff \in Nat \ {0}
  BY Numbers DEF WorkerTypes
<1>2. backoff' \in 1..(2 * LastBackoff)
  BY <1>1 DEF ConnectFailed, WorkerGoesTo
<1>3. left' \in Nat
  BY <1>1 DEF ConnectFailed, WorkerGoesTo
<1> QED
  BY <1>2, <1>3 DEF ConnectFailed, WorkerGoesTo

\* And the slots.
LEMMA ConnectFailedCards ==
    ASSUME CardTypes, ConnectFailed, UNCHANGED <<halted, lineage, seen>>
    PROVE  CardTypes'
BY DEF ConnectFailed, CardTypes

\* And the times.
LEMMA ConnectFailedTimes ==
    ASSUME TimeTypes, ConnectFailed, UNCHANGED <<timer, quietFor, dirtyAt>>
    PROVE  TimeTypes'
<1>1. 0 \in 0..Long
  BY Numbers DEF Long
<1> QED
  BY <1>1 DEF ConnectFailed, TimeTypes

\* A time noted now was noted no ticks ago.
LEMMA ConnectFailedClock ==
    ASSUME TimeTypes, ClockInv, ConnectFailed, UNCHANGED <<timer, quietFor, dirtyAt, noting>>
    PROVE  ClockInv'
<1>1. timer \in Nat /\ timer - 0 = timer /\ 0 <= timer
  BY Numbers DEF TimeTypes
<1>2. CASE UNCHANGED <<pushedAt, idleFor>>
  BY <1>2 DEF ClockInv, Then
<1>3. CASE /\ pushedAt' = [pushedAt EXCEPT ![at] = timer]
           /\ idleFor' = [idleFor EXCEPT ![at] = 0]
  BY <1>1, <1>3 DEF TimeTypes, ClockInv, Then
<1> QED
  BY <1>2, <1>3 DEF ConnectFailed

\* Nothing that a time depends on has moved.
LEMMA SameClock ==
    ASSUME ClockInv, UNCHANGED <<timer, quietFor, idleFor, dirtyAt, pushedAt, noting>>
    PROVE  ClockInv'
BY DEF ClockInv, Then

\* Nor has a time.
LEMMA SameTimes ==
    ASSUME TimeTypes, UNCHANGED <<timer, quietFor, idleFor, dirtyAt, pushedAt>>
    PROVE  TimeTypes'
BY DEF TimeTypes

\* The socket is closed, and the client knows it.
LEMMA SocketCloses ==
    ASSUME SocketInv, CloseSocket, ~ netConnected', pc' # "hello"
    PROVE  SocketInv'
BY DEF SocketInv, CloseSocket

\* And has none open.
LEMMA CloseTypes ==
    ASSUME SocketInv, CloseSocket
    PROVE  sock' \in Nat /\ fds' \subseteq Nat \ {Closed} /\ IsFiniteSet(fds')
<1>1. fds' = {} /\ sock' = Closed
  BY DEF SocketInv, CloseSocket
<1> QED
  BY <1>1, FS_EmptySet DEF Closed

\* The socket stays as it is, away from the HELLO.
LEMMA SocketStays ==
    ASSUME SocketInv, UNCHANGED <<sock, fds, netConnected>>, pc # "hello", pc' # "hello",
           pc' \in Connecting \cup {"start", "ended"} => ~ netConnected
    PROVE  SocketInv'
BY DEF SocketInv

----------------------------------------------------------------------------
(* The steps.                                                              *)

\* The invariant is kept when the handles are taken.
LEMMA TakeHandlesKept ==
    ASSUME IInv, TakeHandles
    PROVE  IInv'
<1> USE DEF IInv, TypeOK
<1>1. NetworkTypes'
  BY FaultTypes DEF TakeHandles, Ready, At, NotUp, StartWorker, WorkerGoesTo, network,
       NetworkTypes
<1>2. WorkerTypes'
  BY Numbers, ConnectFailedWorker DEF TakeHandles, Ready, At, NotUp, StartWorker,
       WorkerGoesTo, game, WorkerTypes
<1>3. CardTypes'
  BY ConnectFailedCards DEF TakeHandles, Ready, At, NotUp, StartWorker, WorkerGoesTo,
       CardTypes
<1>4. TimeTypes'
  BY ConnectFailedTimes, SameTimes DEF TakeHandles, Ready, At, NotUp, StartWorker,
       WorkerGoesTo
<1>5. SocketInv'
  BY SocketStays, ConnectFailedWorker DEF TakeHandles, Ready, At, NotUp, StartWorker,
       WorkerGoesTo, SocketInv, Connecting
<1>6. PlaceInv'
  BY ConnectFailedWorker DEF TakeHandles, Ready, At, NotUp, StartWorker, WorkerGoesTo,
       PlaceInv, Connecting
<1>7. ClockInv'
  BY ConnectFailedClock, SameClock DEF TakeHandles, Ready, At, NotUp, StartWorker,
       WorkerGoesTo, game
<1> QED
  BY <1>1, <1>2, <1>3, <1>4, <1>5, <1>6, <1>7

\* The invariant is kept when the address is asked for.
LEMMA GetHostIdKept ==
    ASSUME IInv, GetHostId
    PROVE  IInv'
<1> USE DEF IInv, TypeOK
<1>1. NetworkTypes'
  BY DEF GetHostId, Ready, At, IsUp, StartWorker, WorkerGoesTo, network, ios, NetworkTypes
<1>2. WorkerTypes'
  BY Numbers DEF GetHostId, Ready, At, IsUp, StartWorker, WorkerGoesTo, game, WorkerTypes
<1>3. CardTypes'
  BY DEF GetHostId, Ready, At, IsUp, StartWorker, WorkerGoesTo, cards, CardTypes
<1>4. TimeTypes'
  BY SameTimes DEF GetHostId, Ready, At, IsUp, StartWorker, WorkerGoesTo, cards, time
<1>5. SocketInv'
  BY SocketStays DEF GetHostId, Ready, At, IsUp, StartWorker, WorkerGoesTo, ios, SocketInv,
       Connecting
<1>6. PlaceInv'
  BY DEF GetHostId, Ready, At, IsUp, StartWorker, WorkerGoesTo, PlaceInv, Connecting
<1>7. ClockInv'
  BY SameClock DEF GetHostId, Ready, At, IsUp, StartWorker, WorkerGoesTo, cards, time, game
<1> QED
  BY <1>1, <1>2, <1>3, <1>4, <1>5, <1>6, <1>7

\* The invariant is kept when the stack is started.
LEMMA NwcStartupKept ==
    ASSUME IInv, NwcStartup
    PROVE  IInv'
<1> USE DEF IInv, TypeOK
<1>1. NetworkTypes'
  BY DEF NwcStartup, Ready, At, WorkerGoesTo, network, ios, NetworkTypes
<1>2. WorkerTypes'
  <2>1. tries \in Nat
    BY DEF WorkerTypes
  <2>2. /\ left' \in {0, 1}
        /\ tries' \in {InitBudget, NetTimeout} \/ (tries > 0 /\ tries' = tries - 1)
    BY DEF NwcStartup, WorkerGoesTo
  <2>3. left' \in Nat /\ tries' \in Nat
    BY <2>1, <2>2, Numbers
  <2> QED
    BY <2>3 DEF NwcStartup, Ready, At, WorkerGoesTo, connect, game, WorkerTypes
<1>3. CardTypes'
  BY DEF NwcStartup, Ready, At, WorkerGoesTo, cards, CardTypes
<1>4. TimeTypes'
  BY SameTimes DEF NwcStartup, Ready, At, WorkerGoesTo, cards, time
<1>5. SocketInv'
  BY SocketStays DEF NwcStartup, Ready, At, WorkerGoesTo, ios, SocketInv, Connecting
<1>6. PlaceInv'
  BY DEF NwcStartup, Ready, At, WorkerGoesTo, PlaceInv, Connecting
<1>7. ClockInv'
  BY SameClock DEF NwcStartup, Ready, At, WorkerGoesTo, cards, time, game
<1> QED
  BY <1>1, <1>2, <1>3, <1>4, <1>5, <1>6, <1>7

\* The invariant is kept when the address is waited for.
LEMMA PollHostIdKept ==
    ASSUME IInv, PollHostId
    PROVE  IInv'
<1> USE DEF IInv, TypeOK
<1>1. NetworkTypes'
  BY DEF PollHostId, Ready, At, IsUp, NotUp, StartWorker, WorkerGoesTo, network, ios,
       NetworkTypes
<1>2. WorkerTypes'
  <2>1. tries \in Nat
    BY DEF WorkerTypes
  <2>2. /\ left' \in {0, 1} \/ ConnectFailed
        /\ tries' = tries \/ (tries > 0 /\ tries' = tries - 1)
    BY DEF PollHostId, IsUp, NotUp, StartWorker, WorkerGoesTo
  <2>3. left' \in Nat /\ tries' \in Nat
    BY <2>1, <2>2, ConnectFailedWorker
  <2> QED
    BY <2>3, ConnectFailedWorker DEF PollHostId, Ready, At, IsUp, NotUp, StartWorker,
       WorkerGoesTo, connect, game, WorkerTypes
<1>3. CardTypes'
  BY ConnectFailedCards DEF PollHostId, Ready, At, IsUp, NotUp, StartWorker, WorkerGoesTo,
       CardTypes
<1>4. TimeTypes'
  BY ConnectFailedTimes, SameTimes DEF PollHostId, Ready, At, IsUp, NotUp, StartWorker,
       WorkerGoesTo
<1>5. SocketInv'
  BY SocketStays, ConnectFailedWorker DEF PollHostId, Ready, At, IsUp, NotUp, StartWorker,
       WorkerGoesTo, ios, SocketInv, Connecting
<1>6. PlaceInv'
  BY ConnectFailedWorker DEF PollHostId, Ready, At, IsUp, NotUp, StartWorker, WorkerGoesTo,
       PlaceInv, Connecting
<1>7. ClockInv'
  BY ConnectFailedClock, SameClock DEF PollHostId, Ready, At, IsUp, NotUp, StartWorker,
       WorkerGoesTo, game
<1> QED
  BY <1>1, <1>2, <1>3, <1>4, <1>5, <1>6, <1>7

\* The invariant is kept when the socket is opened, or not.
LEMMA OpenKept ==
    ASSUME IInv, Open
    PROVE  IInv'
<1> USE DEF IInv, TypeOK
<1>1. NetworkTypes'
  BY FirstFd, FiniteFds, FaultTypes DEF Open, Ready, At, WorkerGoesTo, OpenSocket, network,
       NetworkTypes, SocketInv, Connecting, Closed
<1>2. WorkerTypes'
  <2>1. tries \in Nat
    BY DEF WorkerTypes
  <2>2. tries' \in Nat /\ left' \in Nat
    BY <2>1, Numbers, ConnectFailedWorker DEF Open, Ready, At, WorkerGoesTo, HelloRounds
  <2> QED
    BY <2>2, ConnectFailedWorker DEF Open, Ready, At, WorkerGoesTo, connect, game, WorkerTypes
<1>3. CardTypes'
  BY ConnectFailedCards DEF Open, Ready, At, WorkerGoesTo, CardTypes
<1>4. TimeTypes'
  BY ConnectFailedTimes, SameTimes DEF Open, Ready, At, WorkerGoesTo
<1>5. SocketInv'
  <2>1. fds = {} /\ ~ netConnected /\ sock = Closed
    BY DEF Open, Ready, At, SocketInv, Connecting
  <2>2. CASE sock' = Closed /\ ConnectFailed /\ fds' = fds
    BY <2>1, <2>2, ConnectFailedWorker DEF Open, SocketInv, Connecting
  <2>3. CASE OpenSocket /\ pc' = "hello"
    <3>1. sock' = 1 /\ fds' = {1}
      BY <2>1, <2>3, FirstFd DEF OpenSocket
    <3> QED
      BY <2>1, <2>3, <3>1 DEF Open, SocketInv, Closed
  <2> QED
    BY <2>2, <2>3 DEF Open, WorkerGoesTo
<1>6. PlaceInv'
  BY ConnectFailedWorker DEF Open, Ready, At, WorkerGoesTo, PlaceInv, Connecting
<1>7. ClockInv'
  BY ConnectFailedClock, SameClock DEF Open, Ready, At, WorkerGoesTo, game
<1> QED
  BY <1>1, <1>2, <1>3, <1>4, <1>5, <1>6, <1>7

\* The invariant is kept when the HELLO is answered.
LEMMA HelloKept ==
    ASSUME IInv, Hello
    PROVE  IInv'
<1> USE DEF IInv, TypeOK
<1>1. NetworkTypes'
  BY DEF Hello, At, WorkerGoesTo, network, ios, NetworkTypes
<1>2. WorkerTypes'
  <2>1. at \in 0..NSlots /\ backoff \in 1..(2 * LastBackoff)
    BY DEF WorkerTypes
  <2>2. backoff' \in 1..(2 * LastBackoff) /\ left' \in Nat /\ at' \in 0..NSlots
    BY <2>1, Numbers DEF Hello, At, WorkerGoesTo
  <2> QED
    BY <2>2 DEF Hello, At, WorkerGoesTo, connect, game, WorkerTypes
<1>3. CardTypes'
  BY DEF Hello, At, WorkerGoesTo, cards, CardTypes
<1>4. TimeTypes'
  BY SameTimes DEF Hello, At, WorkerGoesTo, cards, time
<1>5. SocketInv'
  BY DEF Hello, At, WorkerGoesTo, ios, SocketInv, Connecting
<1>6. PlaceInv'
  BY DEF Hello, At, WorkerGoesTo, PlaceInv, Connecting
<1>7. ClockInv'
  BY SameClock DEF Hello, At, WorkerGoesTo, cards, time, game
<1> QED
  BY <1>1, <1>2, <1>3, <1>4, <1>5, <1>6, <1>7

\* The invariant is kept when a round of the HELLO brings nothing.
LEMMA HelloExpiresKept ==
    ASSUME IInv, HelloExpires
    PROVE  IInv'
<1> USE DEF IInv, TypeOK
<1>1. NetworkTypes'
  BY CloseTypes, SilenceTypes DEF HelloExpires, HelloFailed, At, WorkerGoesTo, NetworkTypes
<1>2. WorkerTypes'
  <2>1. tries \in Nat
    BY DEF WorkerTypes
  <2>2. tries' \in Nat /\ left' \in Nat
    BY <2>1, Numbers, ConnectFailedWorker DEF HelloExpires, HelloFailed, At, WorkerGoesTo
  <2> QED
    BY <2>2, ConnectFailedWorker DEF HelloExpires, HelloFailed, At, WorkerGoesTo, connect,
       game, WorkerTypes
<1>3. CardTypes'
  BY ConnectFailedCards DEF HelloExpires, HelloFailed, At, WorkerGoesTo, CardTypes
<1>4. TimeTypes'
  BY ConnectFailedTimes, SameTimes DEF HelloExpires, HelloFailed, At, WorkerGoesTo
<1>5. SocketInv'
  BY SocketCloses, ConnectFailedWorker DEF HelloExpires, HelloFailed, At, WorkerGoesTo,
       SocketInv, Connecting
<1>6. PlaceInv'
  BY ConnectFailedWorker DEF HelloExpires, HelloFailed, At, WorkerGoesTo, PlaceInv, Connecting
<1>7. ClockInv'
  BY ConnectFailedClock, SameClock DEF HelloExpires, HelloFailed, At, WorkerGoesTo, game
<1> QED
  BY <1>1, <1>2, <1>3, <1>4, <1>5, <1>6, <1>7

\* The invariant is kept when the worker starts.
LEMMA StartKept ==
    ASSUME IInv, Start
    PROVE  IInv'
<1> USE DEF IInv, TypeOK
<1>1. NetworkTypes'
  BY DEF Start, At, WorkerGoesTo, network, ios, NetworkTypes
<1>2. WorkerTypes'
  BY DEF Start, At, WorkerGoesTo, connect, game, WorkerTypes
<1>3. CardTypes'
  BY DEF Start, At, WorkerGoesTo, cards, CardTypes
<1>4. TimeTypes'
  BY SameTimes DEF Start, At, WorkerGoesTo, cards, time
<1>5. SocketInv'
  BY SocketStays DEF Start, At, WorkerGoesTo, ios, connect, SocketInv, Connecting
<1>6. PlaceInv'
  BY DEF Start, At, WorkerGoesTo, connect, PlaceInv, Connecting
<1>7. ClockInv'
  BY SameClock DEF Start, At, WorkerGoesTo, cards, time, game
<1> QED
  BY <1>1, <1>2, <1>3, <1>4, <1>5, <1>6, <1>7

\* The invariant is kept when the worker connects, scans or ends.
LEMMA TopKept ==
    ASSUME IInv, Top
    PROVE  IInv'
<1> USE DEF IInv, TypeOK
<1>1. NetworkTypes'
  BY CloseTypes DEF Top, Ready, At, WorkerGoesTo, network, NetworkTypes
<1>2. WorkerTypes'
  <2>1. at \in 0..NSlots
    BY DEF WorkerTypes
  <2>2. left' = 0 /\ at' \in {0, at}
    BY DEF Top, WorkerGoesTo
  <2>3. left' \in Nat /\ at' \in 0..NSlots
    BY <2>1, <2>2, Numbers
  <2> QED
    BY <2>3 DEF Top, Ready, At, WorkerGoesTo, connect, game, WorkerTypes
<1>3. CardTypes'
  BY DEF Top, Ready, At, WorkerGoesTo, cards, CardTypes
<1>4. TimeTypes'
  BY SameTimes DEF Top, Ready, At, WorkerGoesTo, cards, time
<1>5. SocketInv'
  BY SocketCloses, SocketStays DEF Top, Ready, At, WorkerGoesTo, SocketInv, Connecting
<1>6. PlaceInv'
  BY DEF Top, Ready, At, WorkerGoesTo, PlaceInv, Connecting
<1>7. ClockInv'
  BY SameClock DEF Top, Ready, At, WorkerGoesTo, cards, time, game
<1> QED
  BY <1>1, <1>2, <1>3, <1>4, <1>5, <1>6, <1>7

\* The invariant is kept when a slot is looked at.
LEMMA ScanKept ==
    ASSUME IInv, Scan
    PROVE  IInv'
<1> USE DEF IInv, TypeOK
<1>1. NetworkTypes'
  BY CloseTypes DEF Scan, BeginPush, At, WorkerGoesTo, network, NetworkTypes
<1>2. WorkerTypes'
  <2>1. at \in 0..NSlots /\ left \in Nat
    BY DEF WorkerTypes
  <2>2. left' \in {0, 1, Timeout, left}
    BY DEF Scan, BeginPush, WorkerGoesTo
  <2>3. at' = at \/ (at < NSlots /\ at' = at + 1)
    BY DEF Scan
  <2>4. left' \in Nat /\ at' \in 0..NSlots
    BY <2>1, <2>2, <2>3, Numbers
  <2> QED
    BY <2>4 DEF Scan, BeginPush, At, WorkerGoesTo, connect, game, WorkerTypes
<1>3. CardTypes'
  BY DEF Scan, BeginPush, At, WorkerGoesTo, CardTypes
<1>4. TimeTypes'
  BY SameTimes DEF Scan, BeginPush, At, WorkerGoesTo, time
<1>5. SocketInv'
  BY SocketCloses, SocketStays DEF Scan, BeginPush, At, WorkerGoesTo, SocketInv, Connecting
<1>6. PlaceInv'
  BY Numbers DEF Scan, BeginPush, At, WorkerGoesTo, PlaceInv, Connecting, WorkerTypes
<1>7. ClockInv'
  BY SameClock DEF Scan, BeginPush, At, WorkerGoesTo, time, game
<1> QED
  BY <1>1, <1>2, <1>3, <1>4, <1>5, <1>6, <1>7

\* The invariant is kept when a lineage is settled, or not.
LEMMA EstablishLineageKept ==
    ASSUME IInv, EstablishLineage
    PROVE  IInv'
<1> USE DEF IInv, TypeOK
<1>1. NetworkTypes'
  BY CloseTypes, SilenceTypes DEF EstablishLineage, BeginPush, At, WorkerGoesTo, network,
       NetworkTypes
<1>2. WorkerTypes'
  <2>1. left' = 0
    BY DEF EstablishLineage, BeginPush, WorkerGoesTo
  <2>2. left' \in Nat
    BY <2>1
  <2> QED
    BY <2>2 DEF EstablishLineage, BeginPush, At, WorkerGoesTo, connect, game, WorkerTypes
<1>3. CardTypes'
  BY DEF EstablishLineage, BeginPush, At, WorkerGoesTo, CardTypes
<1>4. TimeTypes'
  BY SameTimes DEF EstablishLineage, BeginPush, At, WorkerGoesTo, time
<1>5. SocketInv'
  BY SocketCloses, SocketStays DEF EstablishLineage, BeginPush, At, WorkerGoesTo, SocketInv,
       Connecting
<1>6. PlaceInv'
  BY DEF EstablishLineage, BeginPush, At, WorkerGoesTo, PlaceInv, Connecting
<1>7. ClockInv'
  BY SameClock DEF EstablishLineage, BeginPush, At, WorkerGoesTo, time, game
<1> QED
  BY <1>1, <1>2, <1>3, <1>4, <1>5, <1>6, <1>7

\* The invariant is kept when a push returns.
LEMMA PushKept ==
    ASSUME IInv, Push
    PROVE  IInv'
<1> USE DEF IInv, TypeOK
<1>1. NetworkTypes'
  BY DEF Push, At, WorkerGoesTo, network, ios, NetworkTypes
<1>2. WorkerTypes'
  BY DEF Push, At, WorkerGoesTo, connect, game, WorkerTypes
<1>3. CardTypes'
  BY DEF Push, At, WorkerGoesTo, CardTypes
<1>4. TimeTypes'
  <2>1. 0 \in 0..Long
    BY Numbers DEF Long
  <2> QED
    BY <2>1 DEF Push, time, TimeTypes
<1>5. SocketInv'
  BY SocketStays DEF Push, At, WorkerGoesTo, ios, connect, SocketInv, Connecting
<1>6. PlaceInv'
  BY DEF Push, At, WorkerGoesTo, connect, PlaceInv, Connecting
<1>7. ClockInv'
  <2>1. timer \in Nat /\ timer - 0 = timer /\ 0 <= timer
    BY Numbers DEF TimeTypes
  <2>2. CASE UNCHANGED <<pushedAt, idleFor>>
    BY <2>2, SameClock DEF Push, game
  <2>3. CASE /\ pushedAt' = [pushedAt EXCEPT ![at] = timer]
             /\ idleFor' = [idleFor EXCEPT ![at] = 0]
    BY <2>1, <2>3 DEF Push, TimeTypes, ClockInv, Then, game
  <2> QED
    BY <2>2, <2>3 DEF Push
<1> QED
  BY <1>1, <1>2, <1>3, <1>4, <1>5, <1>6, <1>7

\* The invariant is kept when the next slot is up.
LEMMA NextSlotKept ==
    ASSUME IInv, NextSlot
    PROVE  IInv'
<1> USE DEF IInv, TypeOK
<1>1. NetworkTypes'
  BY DEF NextSlot, At, WorkerGoesTo, network, ios, NetworkTypes
<1>2. WorkerTypes'
  <2>1. at \in 0..NSlots
    BY DEF WorkerTypes
  <2>2. at' \in 0..NSlots /\ left' \in Nat
    BY <2>1, Numbers DEF NextSlot, At, WorkerGoesTo, PlaceInv
  <2> QED
    BY <2>2 DEF NextSlot, At, WorkerGoesTo, connect, game, WorkerTypes
<1>3. CardTypes'
  BY DEF NextSlot, At, WorkerGoesTo, cards, CardTypes
<1>4. TimeTypes'
  BY SameTimes DEF NextSlot, At, WorkerGoesTo, cards, time
<1>5. SocketInv'
  BY SocketStays DEF NextSlot, At, WorkerGoesTo, ios, connect, SocketInv, Connecting
<1>6. PlaceInv'
  BY DEF NextSlot, At, WorkerGoesTo, connect, PlaceInv, Connecting
<1>7. ClockInv'
  BY SameClock DEF NextSlot, At, WorkerGoesTo, cards, time, game
<1> QED
  BY <1>1, <1>2, <1>3, <1>4, <1>5, <1>6, <1>7

\* The invariant is kept when a card is saved.
LEMMA NotifyCardSavedKept ==
    ASSUME IInv, NEW card \in Slots, NotifyCardSaved(card)
    PROVE  IInv'
<1> USE DEF IInv, TypeOK
<1>1. NetworkTypes'
  BY DEF NotifyCardSaved, network, ios, NetworkTypes
<1>2. WorkerTypes'
  BY DEF NotifyCardSaved, connect, WorkerTypes
<1>3. CardTypes'
  BY DEF NotifyCardSaved, CardTypes
<1>4. TimeTypes'
  <2>1. 0 \in 0..Long
    BY Numbers DEF Long
  <2> QED
    BY <2>1 DEF NotifyCardSaved, TimeTypes
<1>5. SocketInv'
  BY DEF NotifyCardSaved, ios, connect, SocketInv
<1>6. PlaceInv'
  BY DEF NotifyCardSaved, connect, PlaceInv
<1>7. ClockInv'
  BY DEF NotifyCardSaved, TimeTypes, ClockInv, Then
<1> QED
  BY <1>1, <1>2, <1>3, <1>4, <1>5, <1>6, <1>7

\* The invariant is kept when the time of a save is noted.
LEMMA NoteTimeKept ==
    ASSUME IInv, NEW card \in Slots, NoteTime(card)
    PROVE  IInv'
<1> USE DEF IInv, TypeOK
<1>1. NetworkTypes'
  BY DEF NoteTime, network, ios, NetworkTypes
<1>2. WorkerTypes'
  BY DEF NoteTime, connect, WorkerTypes
<1>3. CardTypes'
  BY DEF NoteTime, CardTypes
<1>4. TimeTypes'
  <2>1. 0 \in 0..Long
    BY Numbers DEF Long
  <2> QED
    BY <2>1 DEF NoteTime, TimeTypes
<1>5. SocketInv'
  BY DEF NoteTime, ios, connect, SocketInv
<1>6. PlaceInv'
  BY DEF NoteTime, connect, PlaceInv
<1>7. ClockInv'
  <2>1. timer \in Nat /\ timer - 0 = timer /\ 0 <= timer
    BY Numbers DEF TimeTypes
  <2> QED
    BY <2>1 DEF NoteTime, TimeTypes, ClockInv, Then
<1> QED
  BY <1>1, <1>2, <1>3, <1>4, <1>5, <1>6, <1>7

\* The invariant is kept when the game is left.
LEMMA ShutdownKept ==
    ASSUME IInv, Shutdown
    PROVE  IInv'
<1> USE DEF IInv, TypeOK
<1>1. NetworkTypes'
  BY DEF Shutdown, network, ios, NetworkTypes
<1>2. WorkerTypes'
  <2>1. mleft \in 0..ShutdownWait
    BY DEF WorkerTypes
  <2>2. mleft' \in 0..ShutdownWait
    BY <2>1, Numbers DEF Shutdown
  <2> QED
    BY <2>2 DEF Shutdown, connect, game, WorkerTypes
<1>3. CardTypes'
  BY DEF Shutdown, cards, CardTypes
<1>4. TimeTypes'
  BY SameTimes DEF Shutdown, cards, time
<1>5. SocketInv'
  BY DEF Shutdown, ios, connect, SocketInv
<1>6. PlaceInv'
  BY DEF Shutdown, connect, PlaceInv
<1>7. ClockInv'
  BY SameClock DEF Shutdown, cards, time, game
<1> QED
  BY <1>1, <1>2, <1>3, <1>4, <1>5, <1>6, <1>7

\* The invariant is kept when the wait for the worker is over.
LEMMA GoneKept ==
    ASSUME IInv, Gone
    PROVE  IInv'
<1> USE DEF IInv, TypeOK
<1>1. NetworkTypes'
  BY DEF Gone, network, ios, NetworkTypes
<1>2. WorkerTypes'
  BY DEF Gone, connect, WorkerTypes
<1>3. CardTypes'
  BY DEF Gone, cards, CardTypes
<1>4. TimeTypes'
  BY SameTimes DEF Gone, cards, time
<1>5. SocketInv'
  BY DEF Gone, ios, connect, SocketInv
<1>6. PlaceInv'
  BY DEF Gone, connect, PlaceInv
<1>7. ClockInv'
  BY SameClock DEF Gone, cards, time, game
<1> QED
  BY <1>1, <1>2, <1>3, <1>4, <1>5, <1>6, <1>7

\* The invariant is kept when the network changes.
LEMMA NetworkChangesKept ==
    ASSUME IInv, NetworkChanges
    PROVE  IInv'
<1> USE DEF IInv, TypeOK
<1>1. NetworkTypes'
  BY FaultTypes DEF NetworkChanges, ios, NetworkTypes
<1>2. WorkerTypes'
  BY DEF NetworkChanges, connect, game, WorkerTypes
<1>3. CardTypes'
  BY DEF NetworkChanges, cards, CardTypes
<1>4. TimeTypes'
  BY SameTimes DEF NetworkChanges, cards, time
<1>5. SocketInv'
  BY DEF NetworkChanges, ios, connect, SocketInv
<1>6. PlaceInv'
  BY DEF NetworkChanges, connect, PlaceInv
<1>7. ClockInv'
  BY SameClock DEF NetworkChanges, cards, time, game
<1> QED
  BY <1>1, <1>2, <1>3, <1>4, <1>5, <1>6, <1>7

\* The invariant is kept when time passes.
LEMMA TickKept ==
    ASSUME IInv, Tick
    PROVE  IInv'
<1> USE DEF IInv, TypeOK
<1>1. NetworkTypes'
  BY DEF Tick, network, ios, NetworkTypes
<1>2. WorkerTypes'
  <2>1. mleft \in 0..ShutdownWait /\ left \in Nat
    BY DEF WorkerTypes
  <2>2. mleft' \in 0..ShutdownWait /\ left' \in Nat
    BY <2>1, Numbers DEF Tick
  <2> QED
    BY <2>2 DEF Tick, connect, game, WorkerTypes
<1>3. CardTypes'
  BY DEF Tick, cards, CardTypes
<1>4. TimeTypes'
  <2>1. timer' \in 0..(Period - 1)
    BY Numbers DEF Tick, TimeTypes
  <2>2. \A age \in 0..Long : Later(age) \in 0..Long
    BY Numbers DEF Later, Long
  <2> QED
    BY <2>1, <2>2 DEF Tick, cards, TimeTypes
<1>5. SocketInv'
  BY DEF Tick, ios, connect, SocketInv
<1>6. PlaceInv'
  BY DEF Tick, connect, PlaceInv
<1>7. ClockInv'
  <2> SUFFICES ASSUME NEW s \in Slots
               PROVE  /\ s \notin noting' /\ quietFor[s]' < Long => dirtyAt[s]' = Then(quietFor[s])'
                      /\ idleFor[s]' < Long => pushedAt[s]' = Then(idleFor[s])'
    BY DEF ClockInv
  <2>1. \A age \in 0..Long :
          Later(age) < Long => age < Long /\ Later(age) = age + 1
    BY Numbers DEF Later, Long
  <2>2. \A age \in 0..(Period - 1) : age + 1 < Period =>
    Then(age) = IF age + 1 <= timer' THEN timer' - (age + 1) ELSE timer' + Period - (age + 1)
    BY Numbers DEF Then, Tick, TimeTypes
  <2>3. quietFor[s] \in 0..Long /\ quietFor'[s] = Later(quietFor[s])
    BY DEF Tick, TimeTypes
  <2>4. idleFor[s] \in 0..Long /\ idleFor'[s] = Later(idleFor[s])
    BY DEF Tick, TimeTypes
  <2>5. s \notin noting' /\ quietFor'[s] < Long => dirtyAt'[s] = Then(quietFor[s])'
    <3>1. noting' = noting
      BY DEF Tick
    <3> QED
      BY Numbers, <2>1, <2>2, <2>3, <3>1 DEF Tick, cards, ClockInv, Then, Long
  <2>6. idleFor'[s] < Long => pushedAt'[s] = Then(idleFor[s])'
    BY Numbers, <2>1, <2>2, <2>4 DEF Tick, cards, ClockInv, Then, Long
  <2> QED
    BY <2>5, <2>6
<1> QED
  BY <1>1, <1>2, <1>3, <1>4, <1>5, <1>6, <1>7

----------------------------------------------------------------------------
(* The theorems.                                                           *)

\* It holds at first.
LEMMA InitHolds == Init => IInv
<1> SUFFICES ASSUME Init PROVE IInv
  OBVIOUS
<1>1. NetworkTypes
  <2>1. 0 \in 0..MaxFaults /\ Closed \in Nat
    BY Numbers DEF Closed
  <2> QED
    BY <2>1, FiniteFds DEF Init, NetworkTypes
<1>2. 0 \in 0..NSlots /\ FirstBackoff \in 1..(2 * LastBackoff) /\ 0 \in 0..ShutdownWait
  BY Numbers
<1>3. WorkerTypes
  BY <1>2 DEF Init, WorkerTypes
<1>4. CardTypes
  BY DEF Init, CardTypes
<1>5. 0 \in 0..(Period - 1) /\ Long \in 0..Long
  BY Numbers DEF Long
<1>6. TimeTypes
  BY <1>5 DEF Init, TimeTypes
<1>7. SocketInv
  BY DEF Init, SocketInv
<1>8. PlaceInv
  BY DEF Init, PlaceInv
<1>9. ClockInv
  <2>1. \A s \in Slots : quietFor[s] = Long /\ idleFor[s] = Long
    BY DEF Init
  <2>2. ~ Long < Long
    BY Numbers DEF Long
  <2> QED
    BY <2>1, <2>2 DEF ClockInv
<1> QED
  BY <1>1, <1>3, <1>4, <1>6, <1>7, <1>8, <1>9 DEF IInv, TypeOK

\* Every step keeps it.
LEMMA StepKeeps == IInv /\ [Next]_vars => IInv'
<1> SUFFICES ASSUME IInv, [Next]_vars PROVE IInv'
  OBVIOUS
<1>1. CASE Worker
  BY <1>1, TakeHandlesKept, GetHostIdKept, NwcStartupKept, PollHostIdKept, OpenKept, HelloKept,
     HelloExpiresKept, StartKept, TopKept, ScanKept, EstablishLineageKept, PushKept,
     NextSlotKept DEF Worker
<1>2. CASE \E s \in Slots : NotifyCardSaved(s) \/ NoteTime(s)
  BY <1>2, NotifyCardSavedKept, NoteTimeKept
<1>3. CASE Shutdown \/ Gone \/ NetworkChanges \/ Tick
  BY <1>3, ShutdownKept, GoneKept, NetworkChangesKept, TickKept
<1>4. CASE UNCHANGED vars
  <2> USE <1>4 DEF vars, IInv, TypeOK
  <2>1. NetworkTypes'
    BY DEF network, ios, NetworkTypes
  <2>2. WorkerTypes'
    BY DEF connect, game, WorkerTypes
  <2>3. CardTypes'
    BY DEF cards, CardTypes
  <2>4. TimeTypes' /\ ClockInv'
    BY SameTimes, SameClock DEF cards, time, game
  <2>5. SocketInv' /\ PlaceInv'
    BY DEF ios, connect, SocketInv, PlaceInv
  <2> QED
    BY <2>1, <2>2, <2>3, <2>4, <2>5
<1> QED
  BY <1>1, <1>2, <1>3, <1>4 DEF Next

\* What the client takes itself for, and the times that it noted, are so in every reachable state.
THEOREM NetInvariance == Spec => []IInv
BY InitHolds, StepKeeps, PTL DEF Spec

\* Every variable keeps its type; the wait between two attempts stays bounded.
THEOREM NetTypes == Spec => []TypeOK
<1>1. IInv => TypeOK
  BY DEF IInv
<1> QED
  BY <1>1, NetInvariance, PTL

\* IOS has no socket open that the client does not hold, however a connection fails.
THEOREM NoSocketIsLost == Spec => []NoSocketLeaks
<1>1. IInv => NoSocketLeaks
  <2> SUFFICES ASSUME IInv PROVE NoSocketLeaks
    OBVIOUS
  <2>1. fds = IF sock = Closed THEN {} ELSE {sock}
    BY DEF IInv, SocketInv
  <2>2. netConnected => sock # Closed
    BY DEF IInv, SocketInv
  <2>3. pc = "ended" => sock = Closed
    BY DEF IInv, SocketInv
  <2> QED
    BY <2>1, <2>2, <2>3 DEF NoSocketLeaks
<1> QED
  BY <1>1, NetInvariance, PTL

\* What the timer tells of a time that was noted `ago` ticks ago: no less while it is short of
\* a whole turn, and the same unless the timer has been zero since.
LEMMA TimerTells ==
    ASSUME TimeTypes, NEW ago \in 0..(Period - 1)
    PROVE  /\ TimerDiffTicks(Then(ago)) \in Nat
           /\ TimerDiffTicks(Then(ago)) >= ago
           /\ ago < timer => TimerDiffTicks(Then(ago)) = ago
BY Numbers DEF TimeTypes, TimerDiffTicks, Then, Long

\* A slot that is due is pushed.
LEMMA DueIsPushed ==
    ASSUME IInv, NEW s \in Slots, Due(s), ~ Forgotten(s), s \notin noting
    PROVE  ShouldPush(s)
<1>1. quietFor[s] \in 0..Long /\ idleFor[s] \in 0..Long
  BY DEF IInv, TypeOK, TimeTypes
<1>2. quietFor[s] \in 0..(Period - 1) /\ dirtyAt[s] = Then(quietFor[s])
  BY <1>1, Numbers DEF IInv, ClockInv, Forgotten, Long
<1>3. TimerDiffTicks(dirtyAt[s]) >= Quiet
  BY <1>2, TimerTells, Numbers DEF IInv, TypeOK, Due
<1>4. ASSUME pushedAt[s] # 0
      PROVE  TimerDiffTicks(pushedAt[s]) >= Cooldown
  <2>1. idleFor[s] \in 0..(Period - 1) /\ pushedAt[s] = Then(idleFor[s])
    BY <1>1, <1>4, Numbers DEF IInv, ClockInv, Forgotten, Long
  <2> QED
    BY <2>1, TimerTells, Numbers DEF IInv, TypeOK, Due
<1> QED
  BY <1>3, <1>4 DEF ShouldPush, Due

\* A slot that is pushed is due, or the timer has been zero since, or its save is being noted.
LEMMA PushedIsExcused ==
    ASSUME IInv, NEW s \in Slots, ShouldPush(s)
    PROVE  /\ dirty[s] /\ ~ halted[s]
           /\ QuietOrWrapped(s) \/ s \in noting
           /\ CoolOrWrapped(s)
<1>1. quietFor[s] \in 0..Long /\ idleFor[s] \in 0..Long /\ timer \in 0..(Period - 1)
  BY DEF IInv, TypeOK, TimeTypes
<1>2. ASSUME quietFor[s] < Quiet, quietFor[s] < timer, s \notin noting
      PROVE  FALSE
  <2>1. quietFor[s] \in 0..(Period - 1) /\ dirtyAt[s] = Then(quietFor[s])
    BY <1>1, <1>2, Numbers DEF IInv, ClockInv, Long
  <2>2. TimerDiffTicks(dirtyAt[s]) = quietFor[s]
    BY <1>2, <2>1, TimerTells DEF IInv, TypeOK
  <2> QED
    BY <1>1, <1>2, <2>2, Numbers DEF ShouldPush
<1>3. ASSUME idleFor[s] < Cooldown, idleFor[s] < timer
      PROVE  FALSE
  <2>1. idleFor[s] \in 0..(Period - 1) /\ pushedAt[s] = Then(idleFor[s])
    BY <1>1, <1>3, Numbers DEF IInv, ClockInv, Long
  <2>2. TimerDiffTicks(pushedAt[s]) = idleFor[s]
    BY <1>3, <2>1, TimerTells DEF IInv, TypeOK
  <2>3. pushedAt[s] # 0
    BY <1>1, <1>3, <2>1 DEF Then
  <2> QED
    BY <1>1, <1>3, <2>2, <2>3, Numbers DEF ShouldPush
<1> QED
  BY <1>1, <1>2, <1>3, Numbers DEF ShouldPush, QuietOrWrapped, CoolOrWrapped, Long

\* The only step that leaves a slot behind, or takes it up, is Scan.
LEMMA ScanDecides ==
    ASSUME IInv, [Next]_vars, pc = "scan", NEW s \in Slots, at = s
    PROVE  /\ at' = s + 1 => ~ ShouldPush(s)
           /\ pc' \in {"bring up", "lineage"} => ShouldPush(s)
<1>1. at' = at => at' # s + 1
  BY DEF Slots
<1>2. CASE Scan
  <2>1. \/ at' = at /\ pc' = "top"
        \/ ~ ShouldPush(at) /\ pc' = pc
        \/ ShouldPush(at) /\ at' = at
    BY <1>2 DEF Scan, WorkerGoesTo
  <2> QED
    BY <1>1, <2>1 DEF Slots
<1>3. CASE UNCHANGED <<pc, at>>
  BY <1>1, <1>3 DEF Slots
<1>4. Worker => Scan
  BY DEF Worker, TakeHandles, GetHostId, NwcStartup, PollHostId, Open, Hello, HelloExpires, Start,
     Top, EstablishLineage, Push, NextSlot, Ready, At
<1>5. ~ Worker => UNCHANGED <<pc, at>>
  BY DEF Next, NotifyCardSaved, NoteTime, Shutdown, Gone, NetworkChanges, Tick, vars
<1> QED
  BY <1>2, <1>3, <1>4, <1>5

\* Wherever the timer wraps, the worker passes over no slot that is due and takes none up early,
\* but for one whose save is just being noted.
THEOREM DebounceHolds == Spec => ScansInTime
<1>1. IInv /\ [Next]_vars =>
        [\A s \in Slots : pc = "scan" /\ at = s =>
            /\ at' = s + 1 => ~ Due(s) \/ Forgotten(s) \/ s \in noting
            /\ pc' \in {"bring up", "lineage"} =>
                  /\ dirty[s] /\ ~ halted[s]
                  /\ QuietOrWrapped(s) \/ s \in noting
                  /\ CoolOrWrapped(s)]_vars
  BY ScanDecides, DueIsPushed, PushedIsExcused
<1> QED
  BY <1>1, NetInvariance, PTL DEF Spec, ScansInTime

==============================================================================
