---------------------------- MODULE PushListener ----------------------------
(***************************************************************************)
(* The push half of the UDP listener (udp.py): the staging buffers, the    *)
(* remembered verdicts and the handlers of PUSH_BEGIN, PUSH_DELTA,         *)
(* PUSH_CHUNK and PUSH_END.                                                *)
(*                                                                         *)
(* Every handler runs on the event loop and is one step up to its first    *)
(* await. A delta PUSH_BEGIN waits for a thread that reads the parent, and *)
(* a complete PUSH_END for a thread that runs store.push; the loop handles *)
(* other datagrams meanwhile, and the handler goes on in a step of its own.*)
(*                                                                         *)
(* The network and the consoles are an environment that may deliver any    *)
(* datagram of any attempt, in any order and any number of times: that     *)
(* covers loss, delay, reordering, the retransmissions of client.c, and    *)
(* datagrams dropped by the rate limiter or the nonce cache. The store is  *)
(* the history of one card; each call on it takes effect at one instant,   *)
(* as CardStore is shown to (StoreImplementsHistory).                      *)
(***************************************************************************)
EXTENDS Integers, Sequences, FiniteSets, Functions

CONSTANTS
    Keys,         \* transfers: (device_id, game_id, slot, transfer id)
    Contents,     \* what a chunk can hold
    Zero,         \* the content of a chunk of a fresh bytearray
    ValidImages,  \* the images the memory card parser accepts
    Attempts,     \* the pushes consoles try; a transfer id may be tried twice
    OtherImages,  \* what the web UI, the API and other consoles commit
    Tasks,        \* bound: handlers that can be suspended at once
    MaxStaging,   \* config.max_staging
    MaxChunks,    \* config.max_card_bytes, in chunks
    WindowSize,   \* chunks named by one PUSH_DELTA datagram
    MaxVersion    \* bound: nobody else commits on top of this many versions

\* Card images within the size cap, as sequences of chunks.
Images == UNION {[1..n -> Contents] : n \in 1..MaxChunks}

\* One push a console tries: the whole image, or the `dirty` chunks of it over
\* the version `parent`.
Attempt == [key : Keys, parent : Nat, delta : BOOLEAN, image : Seq(Contents), dirty : SUBSET Nat]

\* The consoles use parent + 1 as the transfer id, the part of the key that rides
\* in card_version (main.c, SlotSync.c): attempts under one key name one parent.
TransferId(a) == a.parent + 1

ASSUME ListenerAssumption ==
    /\ Zero \in Contents
    /\ IsFiniteSet(Keys)
    /\ "other" \notin Keys
    /\ ValidImages \subseteq Images
    /\ OtherImages \subseteq ValidImages
    /\ Attempts \subseteq Attempt
    /\ \A a \in Attempts : a.dirty \subseteq DOMAIN a.image
    /\ \A a, b \in Attempts : a.key = b.key => a.parent = b.parent
    /\ MaxStaging \in Nat /\ MaxChunks \in Nat /\ MaxVersion \in Nat
    /\ WindowSize \in Nat \ {0}

VARIABLES
    staging,  \* the dict of that name: open transfers and their buffers
    settled,  \* the dict of that name: verdicts of finished transfers
    task,     \* the handlers waiting for a thread
    history,  \* the versions of the card, the first one first
    reply     \* what the last step sent back

vars == <<staging, settled, task, history, reply>>

\* A version: its image, and the transfer it was committed for, or "other".
Version(image, source) == [image |-> image, source |-> source]

Idle == [at |-> "idle"]

Silence == [code |-> "none"]

\* What is sent in answer to a datagram of attempt a, of type `kind`. `version` is
\* the field card_version, `gaps` the bitmap of a MISSING_CHUNKS.
Say(kind, a, code, version, gaps) ==
    reply' = [kind |-> kind, to |-> a, code |-> code, version |-> version, gaps |-> gaps]

\* reply_to echoes card_version, which is the transfer id, unless told otherwise.
Echo(kind, a, code) == Say(kind, a, code, TransferId(a), {})

Without(f, k) == Restrict(f, DOMAIN f \ {k})

With(f, k, value) == [x \in DOMAIN f \cup {k} |-> IF x = k THEN value ELSE f[x]]

Init ==
    /\ staging = <<>>
    /\ settled = <<>>
    /\ task = [t \in Tasks |-> Idle]
    /\ history = <<>>
    /\ reply = Silence

----------------------------------------------------------------------------
(* PUSH_BEGIN                                                              *)

\* Mutant: a repeated PUSH_BEGIN keeps the bytes of the attempt before.
ResumeOld(a, seed) ==
    /\ settled' = Without(settled, a.key)
    /\ staging' = With(staging, a.key,
           [parent |-> a.parent, delta |-> a.delta,
            data |-> IF a.key \in DOMAIN staging /\ Len(staging[a.key].data) = Len(seed)
                     THEN staging[a.key].data ELSE seed,
            received |-> {}, declared |-> {}, count |-> 0, outstanding |-> 0])
    /\ Echo("begin", a, "ack")

\* Mutant: a repeated PUSH_BEGIN leaves the verdict of the attempt before.
KeepVerdict(a, seed) ==
    /\ staging' = With(staging, a.key,
           [parent |-> a.parent, delta |-> a.delta, data |-> seed,
            received |-> {}, declared |-> {}, count |-> 0, outstanding |-> 0])
    /\ Echo("begin", a, "ack")
    /\ UNCHANGED settled

\* The transfer starts, or starts over: a new buffer, and a verdict given to an
\* attempt before this one is forgotten.
Open(a, seed) ==
    /\ settled' = Without(settled, a.key)
    /\ staging' = With(staging, a.key,
           [parent |-> a.parent, delta |-> a.delta, data |-> seed,
            received |-> {}, declared |-> {}, count |-> 0, outstanding |-> 0])
    /\ Echo("begin", a, "ack")

RefuseBegin(a, code) ==
    /\ Echo("begin", a, code)
    /\ UNCHANGED <<staging, settled, task>>

CapReached(a) == a.key \notin DOMAIN staging /\ Cardinality(DOMAIN staging) >= MaxStaging

OnPushBegin(t, a) ==
    /\ \/ /\ Len(a.image) > MaxChunks
          /\ RefuseBegin(a, "too_large")
       \/ /\ Len(a.image) = 0
          /\ RefuseBegin(a, "malformed")
       \/ /\ Len(a.image) \in 1..MaxChunks
          /\ CapReached(a)
          /\ RefuseBegin(a, "rate_limited")
       \/ /\ Len(a.image) \in 1..MaxChunks
          /\ ~ CapReached(a)
          /\ ~ a.delta
          /\ Open(a, [i \in DOMAIN a.image |-> Zero])
          /\ UNCHANGED task
       \/ /\ Len(a.image) \in 1..MaxChunks    \* no such version to seed from
          /\ ~ CapReached(a)
          /\ a.delta
          /\ a.parent \notin DOMAIN history
          /\ RefuseBegin(a, "delta_unavailable")
       \/ /\ Len(a.image) \in 1..MaxChunks    \* a thread reads the parent
          /\ ~ CapReached(a)
          /\ a.delta
          /\ a.parent \in DOMAIN history
          /\ task[t] = Idle
          /\ task' = [task EXCEPT ![t] = [at |-> "seed", attempt |-> a]]
          /\ reply' = Silence
          /\ UNCHANGED <<staging, settled>>
    /\ UNCHANGED history

\* The parent has been read: it seeds the buffer, unless the card has changed
\* size since or its blob could not be read.
ResumeBegin(t) ==
    LET a == task[t].attempt IN
    /\ task[t].at = "seed"
    /\ task' = [task EXCEPT ![t] = Idle]
    /\ \/ /\ Len(history[a.parent].image) = Len(a.image)
          /\ Open(a, history[a.parent].image)
       \/ /\ Echo("begin", a, "delta_unavailable")
          /\ UNCHANGED <<staging, settled>>
    /\ UNCHANGED history

----------------------------------------------------------------------------
(* PUSH_DELTA and PUSH_CHUNK                                               *)

\* The chunks one datagram declares: those of a's dirty chunks that share a
\* window with i.
Window(a, i) == {j \in a.dirty : (j - 1) \div WindowSize = (i - 1) \div WindowSize}

\* Mutant: every chunk named is counted as outstanding, received or not.
DeclareAll(b, named) ==
    [b EXCEPT !.declared = @ \cup named,
              !.outstanding = @ + Cardinality(named \ b.declared)]

\* Staging.declare, for a set of chunks: what is new and not here yet is owed.
Declare(b, named) ==
    [b EXCEPT !.declared = @ \cup named,
              !.outstanding = @ + Cardinality(named \ (b.declared \cup b.received))]

\* Chunks past the end are refused, after those before them have been declared.
OnPushDelta(a, i) ==
    /\ \/ /\ a.key \notin DOMAIN staging
          /\ Echo("delta", a, "staging_expired")
          /\ UNCHANGED staging
       \/ /\ a.key \in DOMAIN staging
          /\ ~ staging[a.key].delta
          /\ Echo("delta", a, "malformed")
          /\ UNCHANGED staging
       \/ /\ a.key \in DOMAIN staging
          /\ staging[a.key].delta
          /\ staging' = [staging EXCEPT ![a.key] = Declare(@, Window(a, i) \cap DOMAIN @.data)]
          /\ Echo("delta", a, IF Window(a, i) \subseteq DOMAIN staging[a.key].data
                              THEN "ack" ELSE "malformed")
    /\ UNCHANGED <<settled, task, history>>

\* Mutant: a chunk of a delta settles a debt whether or not it was declared.
StoreUndeclared(b, i, content) ==
    LET new == IF i \in b.received THEN 0 ELSE 1 IN
    [b EXCEPT !.data[i] = content,
              !.received = @ \cup {i},
              !.count = @ + new,
              !.outstanding = IF b.delta THEN @ - new ELSE @]

\* Staging.store_chunk, for a chunk inside the transfer.
StoreChunk(b, i, content) ==
    LET new == IF i \in b.received THEN 0 ELSE 1 IN
    [b EXCEPT !.data[i] = content,
              !.received = @ \cup {i},
              !.count = @ + new,
              !.outstanding = IF b.delta /\ i \in b.declared THEN @ - new ELSE @]

OnPushChunk(a, i) ==
    /\ \/ /\ a.key \notin DOMAIN staging
          /\ Echo("chunk", a, "staging_expired")
          /\ UNCHANGED staging
       \/ /\ a.key \in DOMAIN staging
          /\ i \notin DOMAIN staging[a.key].data
          /\ Echo("chunk", a, "malformed")
          /\ UNCHANGED staging
       \/ /\ a.key \in DOMAIN staging
          /\ i \in DOMAIN staging[a.key].data
          /\ staging' = [staging EXCEPT ![a.key] = StoreChunk(@, i, a.image[i])]
          /\ reply' = Silence
    /\ UNCHANGED <<settled, task, history>>

----------------------------------------------------------------------------
(* PUSH_END                                                                *)

\* Staging.complete, from the counters, and Staging.missing, from the bitmaps.
Complete(b) == IF b.delta THEN b.outstanding = 0 ELSE b.count >= Len(b.data)

\* Mutant: what has arrived is asked for again.
MissingAgain(b) == IF b.delta THEN b.declared ELSE DOMAIN b.data

Missing(b) == (IF b.delta THEN b.declared ELSE DOMAIN b.data) \ b.received

\* Mutant: a delta is trusted, only a whole card is hashed.
TrustDelta(b, a) == b.delta \/ b.data = a.image

\* PUSH_END carries the digest of the whole image the console holds.
DigestMatches(b, a) == b.data = a.image

\* _settle: the buffer goes, the verdict stays, the reply is sent.
Settle(a, code, version) ==
    /\ staging' = Without(staging, a.key)
    /\ settled' = With(settled, a.key, [code |-> code, version |-> version])
    /\ Say("end", a, code, version, {})

OnPushEnd(t, a) ==
    /\ \/ /\ a.key \notin DOMAIN staging
          /\ a.key \in DOMAIN settled
          /\ Say("end", a, settled[a.key].code, settled[a.key].version, {})
          /\ UNCHANGED <<staging, settled, task>>
       \/ /\ a.key \notin DOMAIN staging
          /\ a.key \notin DOMAIN settled
          /\ Echo("end", a, "staging_expired")
          /\ UNCHANGED <<staging, settled, task>>
       \/ /\ a.key \in DOMAIN staging
          /\ ~ Complete(staging[a.key])
          /\ Say("end", a, "missing", TransferId(a), Missing(staging[a.key]))
          /\ UNCHANGED <<staging, settled, task>>
       \/ /\ a.key \in DOMAIN staging
          /\ Complete(staging[a.key])
          /\ ~ DigestMatches(staging[a.key], a)
          /\ Settle(a, "checksum", 0)
          /\ UNCHANGED task
       \/ /\ a.key \in DOMAIN staging    \* a thread runs store.push
          /\ Complete(staging[a.key])
          /\ DigestMatches(staging[a.key], a)
          /\ task[t] = Idle
          /\ task' = [task EXCEPT ![t] =
                         [at |-> "push", attempt |-> a, image |-> staging[a.key].data,
                          parent |-> staging[a.key].parent]]
          /\ reply' = Silence
          /\ UNCHANGED <<staging, settled>>
    /\ UNCHANGED history

HeadIs(image) == history # <<>> /\ history[Len(history)].image = image

Answer(t, code, version) ==
    task' = [task EXCEPT ![t] = [at |-> "settle", attempt |-> task[t].attempt,
                                 code |-> code, version |-> version]]

\* store.push as CardHistory has it, at the instant its transaction ends.
StorePush(t) ==
    LET image == task[t].image
        parent == task[t].parent
        head == Len(history) IN
    /\ task[t].at = "push"
    /\ \/ /\ image \notin ValidImages
          /\ Answer(t, "failed_validation", 0)
          /\ UNCHANGED history
       \/ /\ image \in ValidImages
          /\ HeadIs(image)
          /\ Answer(t, "ack", head)
          /\ UNCHANGED history
       \/ /\ image \in ValidImages
          /\ ~ HeadIs(image)
          /\ parent # head
          /\ Answer(t, "conflict", head)
          /\ UNCHANGED history
       \/ /\ image \in ValidImages
          /\ ~ HeadIs(image)
          /\ parent = head
          /\ Answer(t, "ack", head + 1)
          /\ history' = Append(history, Version(image, task[t].attempt.key))
    /\ reply' = Silence
    /\ UNCHANGED <<staging, settled>>

\* The database was locked or the disk full: the exception is logged by
\* _dispatch, and the buffer stays for the console's next PUSH_END.
StoreFails(t) ==
    /\ task[t].at = "push"
    /\ task' = [task EXCEPT ![t] = Idle]
    /\ reply' = Silence
    /\ UNCHANGED <<staging, settled, history>>

\* Back on the loop with the verdict, whatever has happened to the transfer.
ResumeEnd(t) ==
    /\ task[t].at = "settle"
    /\ Settle(task[t].attempt, task[t].code, task[t].version)
    /\ task' = [task EXCEPT ![t] = Idle]
    /\ UNCHANGED history

----------------------------------------------------------------------------
(* Everything else that happens to the listener.                           *)

\* `sweep`: no chunk for staging_ttl seconds, or a verdict of that age.
SweepStaging(k) ==
    /\ k \in DOMAIN staging
    /\ staging' = Without(staging, k)
    /\ reply' = Silence
    /\ UNCHANGED <<settled, task, history>>

SweepSettled(k) ==
    /\ k \in DOMAIN settled
    /\ settled' = Without(settled, k)
    /\ reply' = Silence
    /\ UNCHANGED <<staging, task, history>>

\* A version committed by anyone who is not one of these transfers.
CommitElsewhere(image) ==
    /\ Len(history) < MaxVersion
    /\ ~ HeadIs(image)
    /\ history' = Append(history, Version(image, "other"))
    /\ reply' = Silence
    /\ UNCHANGED <<staging, settled, task>>

\* The server process dies and is started again. A thread that was running
\* store.push has committed before, or never will.
Restart ==
    /\ staging' = <<>>
    /\ settled' = <<>>
    /\ task' = [t \in Tasks |-> Idle]
    /\ reply' = Silence
    /\ UNCHANGED history

\* A datagram that does not authenticate, or whose nonce has been seen, is dropped.
Drop ==
    /\ reply' = Silence
    /\ UNCHANGED <<staging, settled, task, history>>

\* Some datagram of attempt a arrives.
Receive(a) ==
    \/ \E t \in Tasks : OnPushBegin(t, a) \/ OnPushEnd(t, a)
    \/ \E i \in a.dirty : OnPushDelta(a, i)
    \/ \E i \in DOMAIN a.image : OnPushChunk(a, i)

Next ==
    \/ \E a \in Attempts : Receive(a)
    \/ \E t \in Tasks : ResumeBegin(t) \/ StorePush(t) \/ StoreFails(t) \/ ResumeEnd(t)
    \/ \E k \in Keys : SweepStaging(k) \/ SweepSettled(k)
    \/ \E i \in OtherImages : CommitElsewhere(i)
    \/ Drop
    \/ Restart

Spec == Init /\ [][Next]_vars

----------------------------------------------------------------------------
(* What must hold.                                                         *)

Buffer == [parent : Nat, delta : BOOLEAN, data : Images, received : SUBSET Nat,
           declared : SUBSET Nat, count : Nat, outstanding : Nat]

Codes == {"ack", "too_large", "malformed", "rate_limited", "delta_unavailable",
          "staging_expired", "missing", "checksum", "failed_validation", "conflict"}

Verdict == [code : {"ack", "checksum", "failed_validation", "conflict"}, version : Nat]

Task ==
    {Idle}
      \cup [at : {"seed"}, attempt : Attempts]
      \cup [at : {"push"}, attempt : Attempts, image : Images, parent : Nat]
      \cup [at : {"settle"}, attempt : Attempts,
            code : {"ack", "failed_validation", "conflict"}, version : Nat]

\* Every variable has its type; a version is an image the parser accepted.
TypeOK ==
    /\ DOMAIN staging \subseteq Keys
    /\ \A k \in DOMAIN staging : staging[k] \in Buffer
    /\ DOMAIN settled \subseteq Keys
    /\ \A k \in DOMAIN settled : settled[k] \in Verdict
    /\ task \in [Tasks -> Task]
    /\ history \in Seq([image : ValidImages, source : Keys \cup {"other"}])
    /\ reply \in {Silence} \cup [kind : {"begin", "delta", "chunk", "end"}, to : Attempts,
                                code : Codes, version : Nat, gaps : SUBSET Nat]

\* The counters a transfer is judged complete by agree with its bitmaps, in
\* whatever order declarations and chunks arrive and however often.
CountersAgree ==
    \A k \in DOMAIN staging :
        LET b == staging[k] IN
        /\ b.received \cup b.declared \subseteq DOMAIN b.data
        /\ b.count = Cardinality(b.received)
        /\ b.outstanding = IF b.delta THEN Cardinality(b.declared \ b.received) ELSE 0

\* A transfer is open or decided, never both: a restarted one cannot be answered
\* with the verdict that the attempt before it left behind.
OpenOrDecided == DOMAIN staging \cap DOMAIN settled = {}

\* A buffer holds the chunks received since its PUSH_BEGIN over the bytes of the
\* parent version, for a delta, or over zeros: nothing of an earlier attempt.
BufferIsSeedPlusReceived ==
    \A k \in DOMAIN staging :
        LET b == staging[k] IN
        /\ b.delta => b.parent \in DOMAIN history
                      /\ DOMAIN history[b.parent].image = DOMAIN b.data
        /\ \A i \in DOMAIN b.data \ b.received :
              b.data[i] = IF b.delta THEN history[b.parent].image[i] ELSE Zero

\* A version committed for a transfer is the whole image some console meant to
\* push under that id, and follows the version that console derived it from:
\* never an assembly of two attempts or a delta over the wrong bytes.
CommittedAsMeant ==
    \A v \in DOMAIN history : history[v].source # "other" =>
        \E a \in Attempts : /\ a.key = history[v].source
                            /\ a.image = history[v].image
                            /\ a.parent = v - 1

\* The gaps are chunks the buffer b still waits for, and all of them.
GapsOwed(b, gaps) ==
    /\ gaps # {}
    /\ gaps \subseteq DOMAIN b.data \ b.received
    /\ b.delta => gaps \subseteq b.declared
    /\ Cardinality(gaps) = IF b.delta THEN b.outstanding ELSE Len(b.data) - b.count

\* The ACK of a PUSH_END names a version that holds an image pushed under that
\* transfer id. A conflict names a version that exists, or 0 for a card that had
\* none, and is not the parent. A list of gaps names chunks that have not been
\* received, for a delta only declared ones, and names as many as the counters
\* wait for: once the gaps are filled the transfer is complete, and not before.
RepliesHold ==
    reply # Silence =>
        LET key == reply.to.key IN
        /\ reply.kind = "end" /\ reply.code = "ack" =>
              /\ reply.version \in DOMAIN history
              /\ \E a \in Attempts : a.key = key /\ a.image = history[reply.version].image
        /\ reply.code = "conflict" =>
              /\ reply.version = 0 \/ reply.version \in DOMAIN history
              /\ reply.version # reply.to.parent
        /\ reply.code = "missing" =>
              /\ key \in DOMAIN staging
              /\ GapsOwed(staging[key], reply.gaps)

----------------------------------------------------------------------------
(* The inductive invariant behind them.                                    *)

\* What is remembered or about to be remembered for a transfer holds.
VerdictHolds(versions, key, code, version) ==
    /\ code = "ack" =>
          /\ version \in DOMAIN versions
          /\ \E a \in Attempts : a.key = key /\ a.image = versions[version].image
    /\ code = "conflict" =>
          /\ version \in 0..Len(versions)
          /\ \A a \in Attempts : a.key = key => a.parent # version

SettledHold == \A k \in DOMAIN settled : VerdictHolds(history, k, settled[k].code, settled[k].version)

\* What a suspended handler goes by still holds when its thread has finished.
TasksHold ==
    \A t \in Tasks :
        /\ task[t].at = "seed" => /\ task[t].attempt.delta
                                  /\ task[t].attempt.parent \in DOMAIN history
        /\ task[t].at = "push" => /\ task[t].image = task[t].attempt.image
                                  /\ task[t].parent = task[t].attempt.parent
        /\ task[t].at = "settle" =>
              VerdictHolds(history, task[t].attempt.key, task[t].code, task[t].version)

\* A buffer names the parent that the attempts under its key name.
ParentKnown ==
    \A k \in DOMAIN staging : \A a \in Attempts : a.key = k => staging[k].parent = a.parent

IInv ==
    /\ TypeOK
    /\ CountersAgree
    /\ OpenOrDecided
    /\ BufferIsSeedPlusReceived
    /\ CommittedAsMeant
    /\ RepliesHold
    /\ SettledHold
    /\ TasksHold
    /\ ParentKnown

----------------------------------------------------------------------------
(* What the documents say and the code does not keep.                      *)

\* PROTOCOL.md: "A transfer is decided once; asking twice does not re-decide it."
\* A verdict that is remembered may be forgotten, never replaced by another.
DecidedOnce ==
    [][\A k \in DOMAIN settled \cap DOMAIN settled' : settled'[k] = settled[k]]_vars

\* PROTOCOL.md, "Caps": at most SLOTSYNC_MAX_STAGING pushes in flight.
StagingCapped == Cardinality(DOMAIN staging) <= MaxStaging
=============================================================================
