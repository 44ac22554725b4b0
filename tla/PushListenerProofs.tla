------------------------- MODULE PushListenerProofs -------------------------
(***************************************************************************)
(* Proofs about PushListener, for every set of consoles and attempts,      *)
(* every number of handlers in flight and every order of datagrams.        *)
(***************************************************************************)
EXTENDS PushListener, FiniteSetTheorems, SequenceTheorems, TLAPS

\* What a version holds stays, and versions are only added.
Grows == /\ Len(history') >= Len(history)
         /\ \A v \in DOMAIN history : v \in DOMAIN history' /\ history'[v] = history[v]

\* The parts of the invariant that are about the staging buffers.
Buffers == CountersAgree /\ BufferIsSeedPlusReceived /\ ParentKnown

StagingTypes == /\ DOMAIN staging \subseteq Keys
                /\ \A k \in DOMAIN staging : staging[k] \in Buffer

SettledTypes == /\ DOMAIN settled \subseteq Keys
                /\ \A k \in DOMAIN settled : settled[k] \in Verdict

TaskTypes == task \in [Tasks -> Task]

HistoryTypes == history \in Seq([image : ValidImages, source : Keys \cup {"other"}])

ReplyTypes == reply \in {Silence} \cup [kind : {"begin", "delta", "chunk", "end"}, to : Attempts,
                                        code : Codes, version : Nat, gaps : SUBSET Nat]

----------------------------------------------------------------------------
(* Dictionaries, images, histories.                                        *)

\* Popping a key leaves the others.
LEMMA WithoutKey ==
    ASSUME NEW f, NEW k
    PROVE  /\ DOMAIN Without(f, k) = DOMAIN f \ {k}
           /\ \A x \in DOMAIN f \ {k} : Without(f, k)[x] = f[x]
BY DEF Without, Restrict

\* Setting a key leaves the others.
LEMMA WithKey ==
    ASSUME NEW f, NEW k, NEW v
    PROVE  /\ DOMAIN With(f, k, v) = DOMAIN f \cup {k}
           /\ With(f, k, v)[k] = v
           /\ \A x \in DOMAIN f \ {k} : With(f, k, v)[x] = f[x]
BY DEF With

\* What the fields of an attempt are.
LEMMA AttemptTypes ==
    ASSUME NEW a \in Attempts
    PROVE  /\ a.key \in Keys
           /\ a.parent \in Nat
           /\ a.delta \in BOOLEAN
           /\ a.image \in Seq(Contents)
           /\ a.dirty \subseteq DOMAIN a.image
           /\ \A b \in Attempts : b.key = a.key => b.parent = a.parent
BY ListenerAssumption DEF Attempt

\* A sequence of chunks within the size cap is an image.
LEMMA SmallImage ==
    ASSUME NEW s \in Seq(Contents), Len(s) \in 1..MaxChunks
    PROVE  s \in Images
<1>1. s \in [1..Len(s) -> Contents]
  OBVIOUS
<1> QED
  BY <1>1 DEF Images

\* An image has its chunks at 1 up to its length, which the cap bounds.
LEMMA ImageShape ==
    ASSUME NEW s \in Images
    PROVE  /\ s \in Seq(Contents)
           /\ DOMAIN s = 1..Len(s)
           /\ Len(s) \in 1..MaxChunks
           /\ Len(s) \in Nat
           /\ IsFiniteSet(DOMAIN s)
           /\ Cardinality(DOMAIN s) = Len(s)
<1> PICK n \in 1..MaxChunks : s \in [1..n -> Contents]
  BY DEF Images
<1>1. n \in Nat
  BY ListenerAssumption
<1>2. s \in Seq(Contents) /\ Len(s) = n /\ DOMAIN s = 1..n
  BY <1>1
<1>3. IsFiniteSet(1..n) /\ Cardinality(1..n) = n
  BY <1>1, FS_Interval
<1> QED
  BY <1>1, <1>2, <1>3

\* A step that leaves the history alone, or appends to it, makes it grow.
LEMMA UnchangedGrows ==
    ASSUME HistoryTypes, UNCHANGED history
    PROVE  Grows
BY DEF Grows, HistoryTypes

\* An append adds one version at the end and touches no other.
LEMMA AppendGrows ==
    ASSUME HistoryTypes, NEW image \in ValidImages, NEW source \in Keys \cup {"other"},
           history' = Append(history, Version(image, source))
    PROVE  /\ Grows
           /\ HistoryTypes'
           /\ Len(history') = Len(history) + 1
           /\ DOMAIN history' = DOMAIN history \cup {Len(history) + 1}
           /\ history'[Len(history) + 1] = Version(image, source)
<1>1. Version(image, source) \in [image : ValidImages, source : Keys \cup {"other"}]
  BY DEF Version
<1> QED
  BY <1>1, AppendProperties DEF HistoryTypes, Grows

\* A version holds a valid image.
LEMMA VersionTypes ==
    ASSUME HistoryTypes, NEW v \in DOMAIN history
    PROVE  history[v].image \in ValidImages /\ history[v].source \in Keys \cup {"other"}
<1>1. history[v] \in [image : ValidImages, source : Keys \cup {"other"}]
  <2>1. v \in 1..Len(history)
    BY DEF HistoryTypes
  <2> QED
    BY <2>1, ElementOfSeq DEF HistoryTypes
<1> QED
  BY <1>1

\* A verdict that holds goes on holding.
LEMMA VerdictLasts ==
    ASSUME HistoryTypes, Grows, NEW k, NEW c, NEW v, VerdictHolds(history, k, c, v)
    PROVE  VerdictHolds(history', k, c, v)
<1>1. Len(history) \in Nat /\ Len(history') \in Nat /\ Len(history) <= Len(history')
  BY DEF HistoryTypes, Grows
<1>2. c = "ack" => (v \in DOMAIN history' /\ history'[v] = history[v])
  BY DEF VerdictHolds, Grows
<1> QED
  BY <1>1, <1>2 DEF VerdictHolds

----------------------------------------------------------------------------
(* What a step leaves alone.                                               *)

\* Verdicts that are not touched hold on.
LEMMA SettledKept ==
    ASSUME SettledHold, HistoryTypes, Grows, UNCHANGED settled
    PROVE  SettledHold'
BY VerdictLasts DEF SettledHold

\* Forgetting a verdict keeps the others.
LEMMA SettledForgotten ==
    ASSUME SettledHold, SettledTypes, HistoryTypes, Grows, NEW k, settled' = Without(settled, k)
    PROVE  SettledHold' /\ SettledTypes'
<1>1. /\ DOMAIN settled' = DOMAIN settled \ {k}
      /\ \A x \in DOMAIN settled' : settled'[x] = settled[x]
  BY WithoutKey
<1>2. SettledTypes'
  BY <1>1 DEF SettledTypes
<1>3. SettledHold'
  BY <1>1, VerdictLasts DEF SettledHold
<1> QED
  BY <1>2, <1>3

\* Remembering a verdict that holds.
LEMMA SettledRemembered ==
    ASSUME SettledHold, SettledTypes, HistoryTypes, Grows,
           NEW k \in Keys, NEW c, NEW v, [code |-> c, version |-> v] \in Verdict,
           settled' = With(settled, k, [code |-> c, version |-> v]),
           VerdictHolds(history', k, c, v)
    PROVE  SettledHold' /\ SettledTypes'
<1>1. /\ DOMAIN settled' = DOMAIN settled \cup {k}
      /\ settled'[k] = [code |-> c, version |-> v]
      /\ \A x \in DOMAIN settled \ {k} : settled'[x] = settled[x]
  BY DEF With
<1>2. SettledTypes'
  BY <1>1 DEF SettledTypes
<1>3. SettledHold'
  BY <1>1, VerdictLasts DEF SettledHold
<1> QED
  BY <1>2, <1>3

\* A handler that goes on waiting keeps what it goes by.
LEMMA TaskLasts ==
    ASSUME TasksHold, HistoryTypes, Grows, NEW t \in Tasks, task'[t] = task[t]
    PROVE  /\ task'[t].at = "seed" => /\ task'[t].attempt.delta
                                      /\ task'[t].attempt.parent \in DOMAIN history'
           /\ task'[t].at = "push" => /\ task'[t].image = task'[t].attempt.image
                                      /\ task'[t].parent = task'[t].attempt.parent
           /\ task'[t].at = "settle" =>
                 VerdictHolds(history', task'[t].attempt.key, task'[t].code, task'[t].version)
<1>1. task[t].at = "settle" =>
        VerdictHolds(history', task[t].attempt.key, task[t].code, task[t].version)
  BY VerdictLasts DEF TasksHold
<1>2. DOMAIN history \subseteq DOMAIN history'
  BY DEF Grows
<1> QED
  BY <1>1, <1>2 DEF TasksHold

\* No handler moves, or one is done.
LEMMA TasksKept ==
    ASSUME TasksHold, TaskTypes, HistoryTypes, Grows,
           \/ UNCHANGED task
           \/ \E t \in Tasks : task' = [task EXCEPT ![t] = Idle]
    PROVE  TasksHold' /\ TaskTypes'
<1>1. TaskTypes'
  BY DEF TaskTypes, Task
<1>2. ASSUME NEW q \in Tasks, task'[q] # task[q]
      PROVE  task'[q] = Idle
  BY <1>2 DEF TaskTypes
<1> QED
  BY <1>1, <1>2, TaskLasts DEF TasksHold, Idle

\* A handler is suspended, or its thread answers it, by what holds then.
LEMMA TaskSet ==
    ASSUME TasksHold, TaskTypes, HistoryTypes, Grows, NEW t \in Tasks, NEW x \in Task,
           task' = [task EXCEPT ![t] = x],
           x.at = "seed" => x.attempt.delta /\ x.attempt.parent \in DOMAIN history',
           x.at = "push" => x.image = x.attempt.image /\ x.parent = x.attempt.parent,
           x.at = "settle" => VerdictHolds(history', x.attempt.key, x.code, x.version)
    PROVE  TasksHold' /\ TaskTypes'
<1>1. TaskTypes' /\ task'[t] = x /\ \A q \in Tasks \ {t} : task'[q] = task[q]
  BY DEF TaskTypes
<1> QED
  BY <1>1, TaskLasts DEF TasksHold

\* Buffers nobody touches keep their counters, their seed and their parent.
LEMMA BuffersKept ==
    ASSUME Buffers, HistoryTypes, StagingTypes, Grows, NEW k,
           \/ UNCHANGED staging
           \/ staging' = Without(staging, k)
    PROVE  Buffers' /\ StagingTypes'
<1>1. /\ DOMAIN staging' \subseteq DOMAIN staging
      /\ \A x \in DOMAIN staging' : staging'[x] = staging[x]
  BY DEF Without, Restrict
<1>2. StagingTypes'
  BY <1>1 DEF StagingTypes
<1>3. CountersAgree'
  BY <1>1 DEF Buffers, CountersAgree
<1>4. BufferIsSeedPlusReceived'
  BY <1>1 DEF Buffers, BufferIsSeedPlusReceived, Grows
<1>5. ParentKnown'
  BY <1>1 DEF Buffers, ParentKnown
<1> QED
  BY <1>2, <1>3, <1>4, <1>5 DEF Buffers

\* A buffer with one more chunk, or with more chunks declared, or a new one: the
\* invariant for it alone is enough.
LEMMA BufferSet ==
    ASSUME Buffers, HistoryTypes, StagingTypes, Grows, NEW k \in Keys, NEW b \in Buffer,
           DOMAIN staging' = DOMAIN staging \cup {k},
           staging'[k] = b,
           \A x \in DOMAIN staging \ {k} : staging'[x] = staging[x],
           b.received \cup b.declared \subseteq DOMAIN b.data,
           b.count = Cardinality(b.received),
           b.outstanding = IF b.delta THEN Cardinality(b.declared \ b.received) ELSE 0,
           b.delta => /\ b.parent \in DOMAIN history'
                      /\ DOMAIN history'[b.parent].image = DOMAIN b.data,
           \A i \in DOMAIN b.data \ b.received :
              b.data[i] = IF b.delta THEN history'[b.parent].image[i] ELSE Zero,
           \A a \in Attempts : a.key = k => b.parent = a.parent
    PROVE  Buffers' /\ StagingTypes'
<1>2. StagingTypes'
  BY DEF StagingTypes
<1>3. CountersAgree'
  BY DEF Buffers, CountersAgree
<1>4. BufferIsSeedPlusReceived'
  <2> SUFFICES ASSUME NEW x \in DOMAIN staging'
               PROVE  LET c == staging'[x] IN
                      /\ c.delta => c.parent \in DOMAIN history'
                                    /\ DOMAIN history'[c.parent].image = DOMAIN c.data
                      /\ \A i \in DOMAIN c.data \ c.received :
                            c.data[i] = IF c.delta THEN history'[c.parent].image[i] ELSE Zero
    BY DEF BufferIsSeedPlusReceived
  <2>1. CASE x = k
    BY <2>1
  <2>2. CASE x # k
    BY <2>2 DEF Buffers, BufferIsSeedPlusReceived, Grows
  <2> QED
    BY <2>1, <2>2
<1>5. ParentKnown'
  BY DEF Buffers, ParentKnown
<1> QED
  BY <1>2, <1>3, <1>4, <1>5 DEF Buffers

\* An image seen as the bytes of a buffer.
LEMMA NewBuffer ==
    ASSUME NEW a \in Attempts, NEW seed \in Images
    PROVE  [parent |-> a.parent, delta |-> a.delta, data |-> seed, received |-> {},
            declared |-> {}, count |-> 0, outstanding |-> 0] \in Buffer
BY AttemptTypes DEF Buffer

\* A transfer that starts, or starts over, has a sound buffer and no verdict.
LEMMA OpenKeeps ==
    ASSUME Buffers, SettledHold, OpenOrDecided, HistoryTypes, StagingTypes, SettledTypes,
           UNCHANGED history, NEW a \in Attempts, NEW seed \in Images, Open(a, seed),
           a.delta => a.parent \in DOMAIN history /\ seed = history[a.parent].image,
           ~ a.delta => \A i \in DOMAIN seed : seed[i] = Zero
    PROVE  /\ Buffers' /\ StagingTypes' /\ SettledHold' /\ SettledTypes' /\ OpenOrDecided'
           /\ ReplyTypes' /\ RepliesHold'
<1> DEFINE b == [parent |-> a.parent, delta |-> a.delta, data |-> seed, received |-> {},
                 declared |-> {}, count |-> 0, outstanding |-> 0]
<1>1. Grows
  BY UnchangedGrows
<1>2. /\ DOMAIN staging' = DOMAIN staging \cup {a.key}
      /\ staging'[a.key] = b
      /\ \A x \in DOMAIN staging \ {a.key} : staging'[x] = staging[x]
  BY DEF Open, With
<1>3. b \in Buffer
  BY NewBuffer
<1>4. Cardinality({}) = 0
  BY FS_EmptySet
<1>5. /\ b.received \cup b.declared \subseteq DOMAIN b.data
      /\ b.count = Cardinality(b.received)
      /\ b.outstanding = IF b.delta THEN Cardinality(b.declared \ b.received) ELSE 0
  <2>1. b.declared \ b.received = {}
    OBVIOUS
  <2> QED
    BY <1>4, <2>1
<1>6. /\ b.delta => /\ b.parent \in DOMAIN history'
                    /\ DOMAIN history'[b.parent].image = DOMAIN b.data
      /\ \A i \in DOMAIN b.data \ b.received :
            b.data[i] = IF b.delta THEN history'[b.parent].image[i] ELSE Zero
  BY AttemptTypes
<1>7. a.key \in Keys /\ \A c \in Attempts : c.key = a.key => b.parent = c.parent
  BY AttemptTypes
<1>8. Buffers' /\ StagingTypes'
  <2> HIDE DEF b
  <2> QED
    BY <1>1, <1>2, <1>3, <1>5, <1>6, <1>7, BufferSet
<1>9. SettledHold' /\ SettledTypes'
  BY <1>1, SettledForgotten DEF Open
<1>10. OpenOrDecided'
  <2>1. DOMAIN settled' = DOMAIN settled \ {a.key}
    BY WithoutKey DEF Open
  <2> QED
    BY <1>2, <2>1 DEF OpenOrDecided
<1>11. ReplyTypes' /\ RepliesHold'
  BY AttemptTypes DEF Open, Echo, Say, ReplyTypes, RepliesHold, Codes, TransferId, Silence
<1> QED
  BY <1>8, <1>9, <1>10, <1>11

----------------------------------------------------------------------------
(* Counting chunks.                                                        *)

\* The bitmaps of a buffer are finite.
LEMMA BitmapsFinite ==
    ASSUME NEW b \in Buffer, b.received \cup b.declared \subseteq DOMAIN b.data
    PROVE  /\ IsFiniteSet(b.received)
           /\ IsFiniteSet(b.declared)
           /\ IsFiniteSet(b.declared \ b.received)
<1>1. IsFiniteSet(DOMAIN b.data)
  BY ImageShape DEF Buffer
<1> QED
  BY <1>1, FS_Subset

\* Declaring chunks adds to what is owed those that are new and not here yet.
LEMMA DeclareCounts ==
    ASSUME NEW b \in Buffer, NEW named \in SUBSET DOMAIN b.data,
           b.received \cup b.declared \subseteq DOMAIN b.data, b.delta,
           b.outstanding = Cardinality(b.declared \ b.received)
    PROVE  LET n == Declare(b, named) IN
           /\ n \in Buffer
           /\ n.outstanding = Cardinality(n.declared \ n.received)
           /\ n.declared = b.declared \cup named
           /\ n.data = b.data /\ n.received = b.received /\ n.count = b.count
           /\ n.parent = b.parent /\ n.delta = b.delta
<1> DEFINE owed == b.declared \ b.received
           more == named \ (b.declared \cup b.received)
           n == Declare(b, named)
<1>1. IsFiniteSet(owed) /\ IsFiniteSet(more)
  <2>1. IsFiniteSet(DOMAIN b.data)
    BY ImageShape DEF Buffer
  <2> QED
    BY <2>1, FS_Subset
<1>2. Cardinality(owed \cup more) = Cardinality(owed) + Cardinality(more)
  <2>1. owed \cap more = {}
    OBVIOUS
  <2>2. Cardinality(owed \cap more) = 0
    BY <2>1, FS_EmptySet
  <2>3. Cardinality(owed \cup more) = Cardinality(owed) + Cardinality(more) - Cardinality(owed \cap more)
    BY <1>1, FS_Union
  <2>4. Cardinality(owed) \in Nat /\ Cardinality(more) \in Nat
    BY <1>1, FS_CardinalityType
  <2> QED
    BY <2>2, <2>3, <2>4
<1>3. Cardinality(owed) \in Nat /\ Cardinality(more) \in Nat
  BY <1>1, FS_CardinalityType
<1>4. /\ n.declared = b.declared \cup named
      /\ n.outstanding = b.outstanding + Cardinality(more)
      /\ n.data = b.data /\ n.received = b.received /\ n.count = b.count
      /\ n.parent = b.parent /\ n.delta = b.delta
  BY DEF Declare, Buffer
<1>5. n.declared \ n.received = owed \cup more
  BY <1>4
<1>6. DOMAIN b.data \subseteq Nat
  BY ImageShape DEF Buffer
<1>7. n \in Buffer
  <2> PICK m \in Nat : m = Cardinality(more)
    BY <1>3
  <2>1. n = [b EXCEPT !.declared = b.declared \cup named, !.outstanding = b.outstanding + m]
    BY DEF Declare, Buffer
  <2>2. b.declared \cup named \in SUBSET Nat /\ b.outstanding + m \in Nat
    BY <1>6 DEF Buffer
  <2> QED
    BY <2>1, <2>2 DEF Buffer
<1> QED
  BY <1>2, <1>4, <1>5, <1>7

\* A chunk counts once, and settles a debt when it had been declared.
LEMMA StoreCounts ==
    ASSUME NEW b \in Buffer, NEW i \in DOMAIN b.data, NEW content \in Contents,
           b.received \cup b.declared \subseteq DOMAIN b.data,
           b.count = Cardinality(b.received),
           b.outstanding = IF b.delta THEN Cardinality(b.declared \ b.received) ELSE 0
    PROVE  LET n == StoreChunk(b, i, content) IN
           /\ n \in Buffer
           /\ n.count = Cardinality(n.received)
           /\ n.outstanding = IF n.delta THEN Cardinality(n.declared \ n.received) ELSE 0
           /\ n.declared = b.declared /\ n.received = b.received \cup {i}
           /\ n.data = [b.data EXCEPT ![i] = content]
           /\ n.parent = b.parent /\ n.delta = b.delta
<1> DEFINE new == IF i \in b.received THEN 0 ELSE 1
           n == StoreChunk(b, i, content)
<1>1. /\ IsFiniteSet(b.received) /\ IsFiniteSet(b.declared \ b.received)
      /\ Cardinality(b.received) \in Nat /\ Cardinality(b.declared \ b.received) \in Nat
  BY BitmapsFinite, FS_CardinalityType
<1>2. /\ n.declared = b.declared /\ n.received = b.received \cup {i}
      /\ n.data = [b.data EXCEPT ![i] = content]
      /\ n.count = b.count + new
      /\ n.outstanding = IF b.delta /\ i \in b.declared THEN b.outstanding - new ELSE b.outstanding
      /\ n.parent = b.parent /\ n.delta = b.delta
  BY DEF StoreChunk, Buffer
<1> HIDE DEF n
<1>3. n.count = Cardinality(n.received)
  <2>1. CASE i \in b.received
    <3>1. n.received = b.received
      BY <1>2, <2>1
    <3>2. n.count = b.count + 0
      BY <1>2, <2>1
    <3> QED
      BY <1>1, <3>1, <3>2
  <2>2. CASE i \notin b.received
    <3>1. Cardinality(b.received \cup {i}) = Cardinality(b.received) + 1
      BY <1>1, <2>2, FS_AddElement
    <3> QED
      BY <1>2, <2>2, <3>1
  <2> QED
    BY <2>1, <2>2
<1>4. n.outstanding = IF n.delta THEN Cardinality(n.declared \ n.received) ELSE 0
  <2>1. CASE b.delta /\ i \in b.declared /\ i \notin b.received
    <3>1. n.declared \ n.received = (b.declared \ b.received) \ {i}
      BY <1>2
    <3>2. i \in b.declared \ b.received
      BY <2>1
    <3>3. Cardinality((b.declared \ b.received) \ {i}) = Cardinality(b.declared \ b.received) - 1
      BY <1>1, <3>2, FS_RemoveElement
    <3>4. n.outstanding = b.outstanding - 1
      BY <1>2, <2>1
    <3> QED
      BY <1>2, <2>1, <3>1, <3>3, <3>4
  <2>2. CASE ~ (b.delta /\ i \in b.declared /\ i \notin b.received)
    <3>1. b.delta => n.declared \ n.received = b.declared \ b.received
      BY <1>2, <2>2
    <3>2. b.outstanding \in Nat
      BY DEF Buffer
    <3>3. n.outstanding = b.outstanding
      BY <1>2, <2>2, <3>2
    <3> QED
      BY <1>2, <3>1, <3>3
  <2> QED
    BY <2>1, <2>2
<1>5. n \in Buffer
  <2>1. [b.data EXCEPT ![i] = content] \in Images
    <3> PICK m \in 1..MaxChunks : b.data \in [1..m -> Contents]
      BY DEF Images, Buffer
    <3> QED
      BY DEF Images
  <2>2. i \in Nat
    BY ImageShape DEF Buffer
  <2>3. n.count \in Nat /\ n.outstanding \in Nat
    <3>1. IsFiniteSet(n.received) /\ IsFiniteSet(n.declared \ n.received)
      BY <1>1, <1>2, FS_AddElement, FS_Subset, BitmapsFinite
    <3> QED
      BY <1>3, <1>4, <3>1, FS_CardinalityType
  <2>4. n = [b EXCEPT !.data = n.data, !.received = n.received, !.count = n.count,
                      !.outstanding = n.outstanding]
    BY DEF n, StoreChunk, Buffer
  <2> QED
    BY <1>2, <2>1, <2>2, <2>3, <2>4 DEF Buffer
<1> QED
  BY <1>2, <1>3, <1>4, <1>5 DEF n

\* A transfer that is not complete owes chunks, as many as its counters say, and
\* those that are missing are the ones it owes.
LEMMA IncompleteOwes ==
    ASSUME NEW b \in Buffer, ~ Complete(b),
           b.received \cup b.declared \subseteq DOMAIN b.data,
           b.count = Cardinality(b.received),
           b.outstanding = IF b.delta THEN Cardinality(b.declared \ b.received) ELSE 0
    PROVE  GapsOwed(b, Missing(b))
<1>1. CASE b.delta
  <2>1. Cardinality(b.declared \ b.received) # 0
    BY <1>1 DEF Complete
  <2>2. Missing(b) = b.declared \ b.received
    BY <1>1 DEF Missing
  <2>3. Missing(b) # {}
    BY <2>1, <2>2, FS_EmptySet
  <2> QED
    BY <1>1, <2>2, <2>3 DEF GapsOwed
<1>2. CASE ~ b.delta
  <2>1. /\ Cardinality(DOMAIN b.data) = Len(b.data) /\ Len(b.data) \in Nat
        /\ IsFiniteSet(DOMAIN b.data)
    BY ImageShape DEF Buffer
  <2>2. b.received # DOMAIN b.data
    BY <1>2, <2>1 DEF Complete
  <2>3. Missing(b) = DOMAIN b.data \ b.received
    BY <1>2 DEF Missing
  <2>4. DOMAIN b.data \cap b.received = b.received
    OBVIOUS
  <2>5. Cardinality(DOMAIN b.data \ b.received)
          = Cardinality(DOMAIN b.data) - Cardinality(DOMAIN b.data \cap b.received)
    BY <2>1, FS_Difference
  <2>6. Cardinality(Missing(b)) = Len(b.data) - b.count
    BY <2>1, <2>3, <2>4, <2>5
  <2> QED
    BY <1>2, <2>2, <2>3, <2>6 DEF GapsOwed
<1> QED
  BY <1>1, <1>2

----------------------------------------------------------------------------
(* Replies.                                                                *)

\* A step that sends nothing, or echoes a code that promises nothing.
LEMMA EchoHolds ==
    ASSUME NEW a \in Attempts, NEW kind \in {"begin", "delta", "chunk", "end"},
           NEW code \in Codes \ {"conflict", "missing"}, kind # "end" \/ code # "ack",
           \/ Echo(kind, a, code)
           \/ reply' = Silence
    PROVE  ReplyTypes' /\ RepliesHold'
<1>1. TransferId(a) \in Nat
  BY AttemptTypes DEF TransferId
<1> QED
  BY <1>1 DEF Echo, Say, ReplyTypes, RepliesHold, Silence

\* A step that sends nothing.
LEMMA SilenceHolds ==
    ASSUME reply' = Silence
    PROVE  ReplyTypes' /\ RepliesHold'
BY DEF ReplyTypes, RepliesHold

\* The invariant, taken apart along the variables.
Parts == /\ StagingTypes /\ SettledTypes /\ TaskTypes /\ HistoryTypes /\ ReplyTypes
         /\ Buffers /\ SettledHold /\ TasksHold
         /\ OpenOrDecided /\ CommittedAsMeant /\ RepliesHold

\* The parts make up the invariant, before and after a step.
LEMMA PartsMakeInv == (IInv <=> Parts) /\ (IInv' <=> Parts')
BY DEF IInv, Parts, TypeOK, StagingTypes, SettledTypes, TaskTypes, HistoryTypes, ReplyTypes, Buffers

\* No version is added: what was committed is still as meant.
LEMMA HistoryKept ==
    ASSUME Parts, UNCHANGED history
    PROVE  Grows /\ HistoryTypes' /\ CommittedAsMeant'
BY UnchangedGrows DEF Parts, HistoryTypes, CommittedAsMeant

\* No transfer is opened, decided or dropped.
LEMMA OpenOrDecidedKept ==
    ASSUME OpenOrDecided, UNCHANGED settled, DOMAIN staging' \subseteq DOMAIN staging
    PROVE  OpenOrDecided'
BY DEF OpenOrDecided

\* The buffers, the verdicts and the handlers stay as they are.
LEMMA AllKept ==
    ASSUME Parts, Grows, UNCHANGED <<staging, settled>>
    PROVE  /\ Buffers' /\ StagingTypes' /\ SettledHold' /\ SettledTypes' /\ OpenOrDecided'
           /\ (UNCHANGED task => TasksHold' /\ TaskTypes')
<1>1. Buffers' /\ StagingTypes'
  BY BuffersKept DEF Parts
<1>2. SettledHold' /\ SettledTypes'
  BY SettledKept DEF Parts, SettledTypes
<1>3. OpenOrDecided'
  BY DEF Parts, OpenOrDecided
<1>4. UNCHANGED task => TasksHold' /\ TaskTypes'
  BY TasksKept DEF Parts
<1> QED
  BY <1>1, <1>2, <1>3, <1>4

----------------------------------------------------------------------------
(* One lemma per action.                                                   *)

\* Nothing is open, decided or committed at the start.
LEMMA InitInv == Init => Parts
<1> SUFFICES ASSUME Init PROVE Parts
  OBVIOUS
<1> USE DEF Init
<1>1. StagingTypes /\ SettledTypes /\ TaskTypes /\ HistoryTypes /\ ReplyTypes
  BY DEF StagingTypes, SettledTypes, TaskTypes, Task, HistoryTypes, ReplyTypes
<1>2. Buffers
  BY DEF Buffers, CountersAgree, BufferIsSeedPlusReceived, ParentKnown
<1>3. SettledHold /\ TasksHold /\ OpenOrDecided /\ CommittedAsMeant /\ RepliesHold
  BY DEF SettledHold, TasksHold, Idle, OpenOrDecided, CommittedAsMeant, RepliesHold
<1> QED
  BY <1>1, <1>2, <1>3 DEF Parts

\* PUSH_BEGIN: refused, opened over zeros, or suspended until the parent is read.
LEMMA OnPushBeginInv ==
    ASSUME Parts, NEW t \in Tasks, NEW a \in Attempts, OnPushBegin(t, a)
    PROVE  Parts'
<1>1. UNCHANGED history /\ Grows /\ HistoryTypes' /\ CommittedAsMeant'
  BY HistoryKept DEF OnPushBegin
<1>2. ASSUME NEW code \in {"too_large", "malformed", "rate_limited", "delta_unavailable"},
             RefuseBegin(a, code)
      PROVE  Parts'
  <2>1. ReplyTypes' /\ RepliesHold'
    BY <1>2, EchoHolds DEF RefuseBegin, Codes
  <2> QED
    BY <1>1, <1>2, <2>1, AllKept DEF RefuseBegin, Parts
<1>3. ASSUME Len(a.image) \in 1..MaxChunks, ~ a.delta, UNCHANGED task,
             Open(a, [i \in DOMAIN a.image |-> Zero])
      PROVE  Parts'
  <2> DEFINE seed == [i \in DOMAIN a.image |-> Zero]
  <2>1. seed \in Images
    <3>1. DOMAIN a.image = 1..Len(a.image)
      BY AttemptTypes
    <3> QED
      BY <1>3, <3>1, ListenerAssumption DEF Images
  <2>2. \A i \in DOMAIN seed : seed[i] = Zero
    OBVIOUS
  <2>3. TasksHold' /\ TaskTypes'
    BY <1>1, <1>3, TasksKept DEF Parts
  <2> HIDE DEF seed
  <2>4. Open(a, seed)
    BY <1>3 DEF seed
  <2> QED
    BY <1>1, <1>3, <2>1, <2>2, <2>3, <2>4, OpenKeeps DEF Parts
<1>4. ASSUME a.delta, a.parent \in DOMAIN history, reply' = Silence,
             task' = [task EXCEPT ![t] = [at |-> "seed", attempt |-> a]],
             UNCHANGED <<staging, settled>>
      PROVE  Parts'
  <2>1. [at |-> "seed", attempt |-> a] \in Task
    BY DEF Task
  <2>2. TasksHold' /\ TaskTypes'
    BY <1>1, <1>4, <2>1, TaskSet DEF Parts, Grows
  <2> QED
    BY <1>1, <1>4, <2>2, SilenceHolds, AllKept DEF Parts
<1> QED
  BY <1>2, <1>3, <1>4 DEF OnPushBegin

\* The handler of PUSH_BEGIN goes on: opened over the parent, or refused.
LEMMA ResumeBeginInv ==
    ASSUME Parts, NEW t \in Tasks, ResumeBegin(t)
    PROVE  Parts'
<1> DEFINE a == task[t].attempt
<1>1. UNCHANGED history /\ Grows /\ HistoryTypes' /\ CommittedAsMeant'
  BY HistoryKept DEF ResumeBegin
<1>2. TasksHold' /\ TaskTypes'
  BY <1>1, TasksKept DEF ResumeBegin, Parts
<1>3. a \in Attempts /\ a.delta /\ a.parent \in DOMAIN history
  BY DEF Parts, TaskTypes, Task, Idle, TasksHold, ResumeBegin
<1>4. history[a.parent].image \in Images
  <2>1. \A v \in DOMAIN history : history[v].image \in ValidImages
    BY VersionTypes DEF Parts
  <2> QED
    BY <1>3, <2>1, ListenerAssumption
<1>5. CASE Open(a, history[a.parent].image)
  BY <1>1, <1>2, <1>3, <1>4, <1>5, OpenKeeps DEF Parts
<1>6. CASE Echo("begin", a, "delta_unavailable") /\ UNCHANGED <<staging, settled>>
  <2>1. ReplyTypes' /\ RepliesHold'
    BY <1>3, <1>6, EchoHolds DEF Codes
  <2> QED
    BY <1>1, <1>2, <1>6, <2>1, AllKept DEF Parts
<1> QED
  BY <1>5, <1>6 DEF ResumeBegin

\* PUSH_DELTA: refused, or some of the chunks it names are declared.
LEMMA OnPushDeltaInv ==
    ASSUME Parts, NEW a \in Attempts, NEW i \in a.dirty, OnPushDelta(a, i)
    PROVE  Parts'
<1>1. UNCHANGED history /\ Grows /\ HistoryTypes' /\ CommittedAsMeant'
  BY HistoryKept DEF OnPushDelta
<1>2. SettledHold' /\ SettledTypes' /\ TasksHold' /\ TaskTypes'
  BY <1>1, SettledKept, TasksKept DEF OnPushDelta, Parts, SettledTypes
<1>3. ReplyTypes' /\ RepliesHold'
  <2>1. \E code \in {"staging_expired", "malformed", "ack"} : Echo("delta", a, code)
    BY DEF OnPushDelta
  <2> QED
    BY <2>1, EchoHolds DEF Codes
<1>4. CASE UNCHANGED staging
  BY <1>1, <1>2, <1>3, <1>4, BuffersKept, OpenOrDecidedKept DEF Parts, OnPushDelta
<1>5. ASSUME a.key \in DOMAIN staging, staging[a.key].delta,
             staging' = [staging EXCEPT ![a.key] = Declare(@, Window(a, i) \cap DOMAIN @.data)]
      PROVE  Parts'
  <2> DEFINE b == staging[a.key]
             named == Window(a, i) \cap DOMAIN b.data
             n == Declare(b, named)
  <2>1. b \in Buffer /\ a.key \in Keys
    BY <1>5 DEF Parts, StagingTypes
  <2>2. /\ b.received \cup b.declared \subseteq DOMAIN b.data
        /\ b.count = Cardinality(b.received)
        /\ b.outstanding = Cardinality(b.declared \ b.received)
    BY <1>5 DEF Parts, Buffers, CountersAgree
  <2>3. /\ b.parent \in DOMAIN history /\ DOMAIN history[b.parent].image = DOMAIN b.data
        /\ \A j \in DOMAIN b.data \ b.received : b.data[j] = history[b.parent].image[j]
        /\ \A c \in Attempts : c.key = a.key => b.parent = c.parent
    BY <1>5 DEF Parts, Buffers, BufferIsSeedPlusReceived, ParentKnown
  <2>4. /\ DOMAIN staging' = DOMAIN staging \cup {a.key}
        /\ staging'[a.key] = n
        /\ \A x \in DOMAIN staging \ {a.key} : staging'[x] = staging[x]
    BY <1>5
  <2>5. /\ n \in Buffer
        /\ n.outstanding = Cardinality(n.declared \ n.received)
        /\ n.declared = b.declared \cup named
        /\ n.data = b.data /\ n.received = b.received /\ n.count = b.count
        /\ n.parent = b.parent /\ n.delta = b.delta
    <3>1. named \in SUBSET DOMAIN b.data
      OBVIOUS
    <3> HIDE DEF named, b
    <3>2. b.delta
      BY <1>5 DEF b
    <3> QED
      BY <2>1, <2>2, <3>1, <3>2, DeclareCounts
  <2>6. Buffers' /\ StagingTypes'
    <3>1. b.delta
      BY <1>5
    <3>2. named \subseteq DOMAIN b.data
      OBVIOUS
    <3>3. Buffers /\ HistoryTypes /\ StagingTypes
      BY DEF Parts
    <3> HIDE DEF n, named, b
    <3>4. n.received \cup n.declared \subseteq DOMAIN n.data
      BY <2>2, <2>5, <3>2
    <3>5. n.delta /\ n.parent \in DOMAIN history'
          /\ DOMAIN history'[n.parent].image = DOMAIN n.data
      BY <1>1, <2>3, <2>5, <3>1
    <3>6. \A j \in DOMAIN n.data \ n.received :
             n.data[j] = IF n.delta THEN history'[n.parent].image[j] ELSE Zero
      BY <1>1, <2>3, <2>5, <3>1
    <3>7. n.count = Cardinality(n.received) /\ \A c \in Attempts : c.key = a.key => n.parent = c.parent
      BY <2>2, <2>3, <2>5
    <3> QED
      BY <1>1, <2>1, <2>4, <2>5, <3>3, <3>4, <3>5, <3>6, <3>7, BufferSet
  <2>7. OpenOrDecided'
    BY <1>5, <2>4, OpenOrDecidedKept DEF Parts, OnPushDelta
  <2> QED
    BY <1>1, <1>2, <1>3, <2>6, <2>7 DEF Parts
<1> QED
  BY <1>4, <1>5 DEF OnPushDelta

\* PUSH_CHUNK: refused, or stored.
LEMMA OnPushChunkInv ==
    ASSUME Parts, NEW a \in Attempts, NEW i \in DOMAIN a.image, OnPushChunk(a, i)
    PROVE  Parts'
<1>1. UNCHANGED history /\ Grows /\ HistoryTypes' /\ CommittedAsMeant'
  BY HistoryKept DEF OnPushChunk
<1>2. SettledHold' /\ SettledTypes' /\ TasksHold' /\ TaskTypes'
  BY <1>1, SettledKept, TasksKept DEF OnPushChunk, Parts, SettledTypes
<1>3. ReplyTypes' /\ RepliesHold'
  <2>1. \/ \E code \in {"staging_expired", "malformed"} : Echo("chunk", a, code)
        \/ reply' = Silence
    BY DEF OnPushChunk
  <2> QED
    BY <2>1, EchoHolds, SilenceHolds DEF Codes
<1>4. CASE UNCHANGED staging
  BY <1>1, <1>2, <1>3, <1>4, BuffersKept, OpenOrDecidedKept DEF Parts, OnPushChunk
<1>5. ASSUME a.key \in DOMAIN staging, i \in DOMAIN staging[a.key].data,
             staging' = [staging EXCEPT ![a.key] = StoreChunk(@, i, a.image[i])]
      PROVE  Parts'
  <2> DEFINE b == staging[a.key]
             n == StoreChunk(b, i, a.image[i])
  <2>1. b \in Buffer /\ a.key \in Keys
    BY <1>5 DEF Parts, StagingTypes
  <2>2. /\ b.received \cup b.declared \subseteq DOMAIN b.data
        /\ b.count = Cardinality(b.received)
        /\ b.outstanding = IF b.delta THEN Cardinality(b.declared \ b.received) ELSE 0
    BY <1>5 DEF Parts, Buffers, CountersAgree
  <2>3. /\ b.delta => b.parent \in DOMAIN history
                      /\ DOMAIN history[b.parent].image = DOMAIN b.data
        /\ \A j \in DOMAIN b.data \ b.received :
              b.data[j] = IF b.delta THEN history[b.parent].image[j] ELSE Zero
        /\ \A c \in Attempts : c.key = a.key => b.parent = c.parent
    BY <1>5 DEF Parts, Buffers, BufferIsSeedPlusReceived, ParentKnown
  <2>4. /\ DOMAIN staging' = DOMAIN staging \cup {a.key}
        /\ staging'[a.key] = n
        /\ \A x \in DOMAIN staging \ {a.key} : staging'[x] = staging[x]
    BY <1>5
  <2>5. a.image[i] \in Contents
    BY AttemptTypes
  <2>6. /\ n \in Buffer
        /\ n.count = Cardinality(n.received)
        /\ n.outstanding = IF n.delta THEN Cardinality(n.declared \ n.received) ELSE 0
        /\ n.declared = b.declared /\ n.received = b.received \cup {i}
        /\ n.data = [b.data EXCEPT ![i] = a.image[i]]
        /\ n.parent = b.parent /\ n.delta = b.delta
    <3>1. i \in DOMAIN b.data
      BY <1>5
    <3> HIDE DEF b
    <3> QED
      BY <2>1, <2>2, <2>5, <3>1, StoreCounts
  <2>7. Buffers' /\ StagingTypes'
    <3>1. i \in DOMAIN b.data /\ Buffers /\ HistoryTypes /\ StagingTypes
      BY <1>5 DEF Parts
    <3> HIDE DEF n, b
    <3>2. DOMAIN n.data = DOMAIN b.data
      BY <2>6
    <3>3. n.received \cup n.declared \subseteq DOMAIN n.data
      BY <2>2, <2>6, <3>1, <3>2
    <3>4. \A j \in DOMAIN n.data \ n.received :
             n.data[j] = IF n.delta THEN history'[n.parent].image[j] ELSE Zero
      BY <1>1, <2>3, <2>6, <3>2
    <3>5. n.delta => n.parent \in DOMAIN history'
                     /\ DOMAIN history'[n.parent].image = DOMAIN n.data
      BY <1>1, <2>3, <2>6, <3>2
    <3>6. \A c \in Attempts : c.key = a.key => n.parent = c.parent
      BY <2>3, <2>6
    <3>7. /\ n \in Buffer
          /\ n.count = Cardinality(n.received)
          /\ n.outstanding = IF n.delta THEN Cardinality(n.declared \ n.received) ELSE 0
      BY <2>6
    <3>8. a.key \in Keys /\ Grows
      BY <1>1, <2>1
    <3> QED
      BY <2>4, <3>1, <3>3, <3>4, <3>5, <3>6, <3>7, <3>8, BufferSet
  <2>8. OpenOrDecided'
    BY <1>5, <2>4, OpenOrDecidedKept DEF Parts, OnPushChunk
  <2> QED
    BY <1>1, <1>2, <1>3, <2>7, <2>8 DEF Parts
<1> QED
  BY <1>4, <1>5 DEF OnPushChunk

\* A verdict that holds is remembered and sent, and the buffer goes.
LEMMA SettleKeeps ==
    ASSUME Parts, UNCHANGED history, NEW a \in Attempts, NEW v \in Nat,
           NEW code \in {"ack", "checksum", "failed_validation", "conflict"},
           Settle(a, code, v), VerdictHolds(history, a.key, code, v)
    PROVE  /\ Buffers' /\ StagingTypes' /\ SettledHold' /\ SettledTypes' /\ OpenOrDecided'
           /\ ReplyTypes' /\ RepliesHold'
<1>1. Grows /\ HistoryTypes'
  BY HistoryKept
<1>2. a.key \in Keys
  BY AttemptTypes
<1>3. Buffers' /\ StagingTypes'
  BY <1>1, BuffersKept DEF Settle, Parts
<1>4. SettledHold' /\ SettledTypes'
  <2>1. [code |-> code, version |-> v] \in Verdict
    BY DEF Verdict
  <2>2. VerdictHolds(history', a.key, code, v)
    OBVIOUS
  <2> QED
    BY <1>1, <1>2, <2>1, <2>2, SettledRemembered DEF Settle, Parts
<1>5. OpenOrDecided'
  <2>1. DOMAIN staging' = DOMAIN staging \ {a.key}
    BY DEF Settle, Without, Restrict
  <2>2. DOMAIN settled' = DOMAIN settled \cup {a.key}
    BY DEF Settle, With
  <2> QED
    BY <2>1, <2>2 DEF Parts, OpenOrDecided
<1>6. ReplyTypes' /\ RepliesHold'
  BY DEF Settle, Say, ReplyTypes, RepliesHold, Codes, Silence, VerdictHolds
<1> QED
  BY <1>3, <1>4, <1>5, <1>6

\* PUSH_END: replayed, refused, answered with the gaps, settled as poisoned, or
\* suspended until store.push has decided.
LEMMA OnPushEndInv ==
    ASSUME Parts, NEW t \in Tasks, NEW a \in Attempts, OnPushEnd(t, a)
    PROVE  Parts'
<1>1. UNCHANGED history /\ Grows /\ HistoryTypes' /\ CommittedAsMeant'
  BY HistoryKept DEF OnPushEnd
<1>2. a.key \in Keys /\ TransferId(a) \in Nat
  BY AttemptTypes DEF TransferId
<1>3. ASSUME UNCHANGED <<staging, settled, task>>, ReplyTypes', RepliesHold'
      PROVE  Parts'
  BY <1>1, <1>3, AllKept DEF Parts
<1>4. ASSUME a.key \in DOMAIN settled, UNCHANGED <<staging, settled, task>>,
             Say("end", a, settled[a.key].code, settled[a.key].version, {})
      PROVE  Parts'
  <2>1. settled[a.key] \in Verdict /\ VerdictHolds(history', a.key, settled[a.key].code, settled[a.key].version)
    BY <1>1, <1>4 DEF Parts, SettledTypes, SettledHold
  <2>2. PICK c, v : c = settled[a.key].code /\ v = settled[a.key].version
    OBVIOUS
  <2>3. c \in {"ack", "checksum", "failed_validation", "conflict"} /\ v \in Nat
    BY <2>1, <2>2 DEF Verdict
  <2>4. reply' = [kind |-> "end", to |-> a, code |-> c, version |-> v, gaps |-> {}]
    BY <1>4, <2>2 DEF Say
  <2>5. VerdictHolds(history', a.key, c, v)
    BY <2>1, <2>2
  <2>6. ReplyTypes'
    BY <2>3, <2>4 DEF ReplyTypes, Codes
  <2>7. RepliesHold'
    BY <2>3, <2>4, <2>5 DEF RepliesHold, VerdictHolds
  <2> QED
    BY <1>3, <1>4, <2>6, <2>7
<1>5. ASSUME Echo("end", a, "staging_expired"), UNCHANGED <<staging, settled, task>>
      PROVE  Parts'
  <2>1. ReplyTypes' /\ RepliesHold'
    BY <1>5, EchoHolds DEF Codes
  <2> QED
    BY <1>3, <1>5, <2>1
<1>6. ASSUME a.key \in DOMAIN staging, ~ Complete(staging[a.key]),
             UNCHANGED <<staging, settled, task>>,
             Say("end", a, "missing", TransferId(a), Missing(staging[a.key]))
      PROVE  Parts'
  <2> DEFINE b == staging[a.key]
  <2>1. /\ b \in Buffer
        /\ b.received \cup b.declared \subseteq DOMAIN b.data
        /\ b.count = Cardinality(b.received)
        /\ b.outstanding = IF b.delta THEN Cardinality(b.declared \ b.received) ELSE 0
        /\ ~ Complete(b)
    BY <1>6 DEF Parts, StagingTypes, Buffers, CountersAgree
  <2>2. GapsOwed(b, Missing(b)) /\ Missing(b) \subseteq Nat
    <3> HIDE DEF b
    <3>1. GapsOwed(b, Missing(b))
      BY <2>1, IncompleteOwes
    <3>2. DOMAIN b.data = 1..Len(b.data)
      BY <2>1, ImageShape DEF Buffer
    <3> QED
      BY <3>1, <3>2 DEF GapsOwed
  <2>3. reply' = [kind |-> "end", to |-> a, code |-> "missing", version |-> TransferId(a),
                  gaps |-> Missing(b)]
    BY <1>6 DEF Say
  <2>4. staging'[a.key] = b /\ a.key \in DOMAIN staging'
    BY <1>6
  <2>5. ReplyTypes'
    BY <1>2, <2>2, <2>3 DEF ReplyTypes, Codes
  <2>6. RepliesHold'
    BY <2>2, <2>3, <2>4 DEF RepliesHold
  <2> QED
    BY <1>3, <1>6, <2>5, <2>6
<1>7. ASSUME Settle(a, "checksum", 0), UNCHANGED task
      PROVE  Parts'
  <2>1. VerdictHolds(history, a.key, "checksum", 0)
    BY DEF VerdictHolds
  <2>2. TasksHold' /\ TaskTypes'
    BY <1>1, <1>7, TasksKept DEF Parts
  <2> QED
    BY <1>1, <1>7, <2>1, <2>2, SettleKeeps DEF Parts
<1>8. ASSUME a.key \in DOMAIN staging, DigestMatches(staging[a.key], a),
             task' = [task EXCEPT ![t] =
                         [at |-> "push", attempt |-> a, image |-> staging[a.key].data,
                          parent |-> staging[a.key].parent]],
             reply' = Silence, UNCHANGED <<staging, settled>>
      PROVE  Parts'
  <2> DEFINE x == [at |-> "push", attempt |-> a, image |-> staging[a.key].data,
                   parent |-> staging[a.key].parent]
  <2>1. staging[a.key] \in Buffer /\ staging[a.key].parent = a.parent
    BY <1>8 DEF Parts, StagingTypes, Buffers, ParentKnown
  <2>2. x \in Task
    BY <2>1 DEF Task, Buffer
  <2>3. x.at = "push" /\ x.image = x.attempt.image /\ x.parent = x.attempt.parent
    BY <1>8, <2>1 DEF DigestMatches
  <2>4. TasksHold' /\ TaskTypes'
    <3> HIDE DEF x
    <3>1. task' = [task EXCEPT ![t] = x]
      BY <1>8 DEF x
    <3> QED
      BY <1>1, <2>2, <2>3, <3>1, TaskSet DEF Parts
  <2> QED
    BY <1>1, <1>8, <2>4, SilenceHolds, AllKept DEF Parts
<1> QED
  BY <1>4, <1>5, <1>6, <1>7, <1>8 DEF OnPushEnd

\* store.push decides: the verdict holds from then on, and what it commits is the
\* image and follows the parent that the console named.
LEMMA StorePushInv ==
    ASSUME Parts, NEW t \in Tasks, StorePush(t)
    PROVE  Parts'
<1> DEFINE a == task[t].attempt
           image == task[t].image
           parent == task[t].parent
           head == Len(history)
<1>1. a \in Attempts /\ a.key \in Keys /\ image = a.image /\ parent = a.parent /\ parent \in Nat
  <2>1. task[t].at = "push" /\ task[t] \in Task
    BY DEF StorePush, Parts, TaskTypes
  <2>2. a \in Attempts /\ image = a.image /\ parent = a.parent
    BY <2>1 DEF Parts, TasksHold, Task, Idle
  <2> QED
    BY <2>2, AttemptTypes
<1>2. head \in Nat /\ DOMAIN history = 1..head
  BY DEF Parts, HistoryTypes
<1>3. reply' = Silence /\ UNCHANGED <<staging, settled>>
  BY DEF StorePush
<1>4. ASSUME NEW code \in {"ack", "failed_validation", "conflict"}, NEW v \in Nat,
             Answer(t, code, v), VerdictHolds(history', a.key, code, v), Grows,
             HistoryTypes', CommittedAsMeant'
      PROVE  Parts'
  <2> DEFINE x == [at |-> "settle", attempt |-> a, code |-> code, version |-> v]
  <2>1. x \in Task /\ x.at = "settle"
    BY <1>1 DEF Task
  <2>2. VerdictHolds(history', x.attempt.key, x.code, x.version)
    BY <1>4
  <2>3. task' = [task EXCEPT ![t] = x]
    BY <1>4 DEF Answer
  <2>4. TasksHold' /\ TaskTypes'
    <3> HIDE DEF x
    <3> QED
      BY <1>4, <2>1, <2>2, <2>3, TaskSet DEF Parts
  <2> QED
    BY <1>3, <1>4, <2>4, SilenceHolds, AllKept DEF Parts
<1>5. CASE Answer(t, "failed_validation", 0) /\ UNCHANGED history
  <2>1. VerdictHolds(history', a.key, "failed_validation", 0)
    BY DEF VerdictHolds
  <2> QED
    BY <1>4, <1>5, <2>1, HistoryKept
<1>6. CASE HeadIs(image) /\ Answer(t, "ack", head) /\ UNCHANGED history
  <2>1. head \in DOMAIN history /\ history[head].image = a.image
    BY <1>1, <1>2, <1>6 DEF HeadIs, Parts, HistoryTypes
  <2>2. VerdictHolds(history', a.key, "ack", head)
    BY <1>1, <1>6, <2>1 DEF VerdictHolds
  <2> QED
    BY <1>2, <1>4, <1>6, <2>2, HistoryKept
<1>7. CASE parent # head /\ Answer(t, "conflict", head) /\ UNCHANGED history
  <2>1. \A b \in Attempts : b.key = a.key => b.parent = parent
    BY <1>1, AttemptTypes
  <2>2. VerdictHolds(history', a.key, "conflict", head)
    BY <1>2, <1>7, <2>1 DEF VerdictHolds
  <2> QED
    BY <1>2, <1>4, <1>7, <2>2, HistoryKept
<1>8. CASE /\ image \in ValidImages /\ parent = head
           /\ Answer(t, "ack", head + 1)
           /\ history' = Append(history, Version(image, a.key))
  <2>1. /\ Grows /\ HistoryTypes'
        /\ DOMAIN history' = DOMAIN history \cup {head + 1}
        /\ history'[head + 1] = Version(image, a.key)
    BY <1>1, <1>8, AppendGrows DEF Parts
  <2>2. VerdictHolds(history', a.key, "ack", head + 1)
    BY <1>1, <2>1 DEF VerdictHolds, Version
  <2>3. CommittedAsMeant'
    <3>1. \A v \in DOMAIN history : history'[v] = history[v]
      BY <2>1 DEF Grows
    <3>2. \E b \in Attempts : /\ b.key = history'[head + 1].source
                              /\ b.image = history'[head + 1].image
                              /\ b.parent = head + 1 - 1
      <4>1. a.parent = head + 1 - 1
        BY <1>1, <1>2, <1>8
      <4>2. a.key = history'[head + 1].source /\ a.image = history'[head + 1].image
        BY <1>1, <2>1 DEF Version
      <4> QED
        BY <1>1, <4>1, <4>2
    <3> QED
      BY <2>1, <3>1, <3>2 DEF Parts, CommittedAsMeant
  <2> QED
    BY <1>2, <1>4, <1>8, <2>1, <2>2, <2>3
<1> QED
  BY <1>5, <1>6, <1>7, <1>8 DEF StorePush

\* store.push raised: the handler ends and says nothing.
LEMMA StoreFailsInv ==
    ASSUME Parts, NEW t \in Tasks, StoreFails(t)
    PROVE  Parts'
<1>1. UNCHANGED <<history, staging, settled>> /\ reply' = Silence
  BY DEF StoreFails
<1>2. Grows /\ HistoryTypes' /\ CommittedAsMeant'
  BY <1>1, HistoryKept
<1>3. TasksHold' /\ TaskTypes'
  BY <1>2, TasksKept DEF StoreFails, Parts
<1> QED
  BY <1>1, <1>2, <1>3, SilenceHolds, AllKept DEF Parts

\* The verdict a handler comes back with still holds, so it can be remembered.
LEMMA ResumeEndInv ==
    ASSUME Parts, NEW t \in Tasks, ResumeEnd(t)
    PROVE  Parts'
<1>1. UNCHANGED history /\ Grows /\ HistoryTypes' /\ CommittedAsMeant'
  BY HistoryKept DEF ResumeEnd
<1>2. TasksHold' /\ TaskTypes'
  BY <1>1, TasksKept DEF ResumeEnd, Parts
<1>3. task[t].at = "settle" /\ task[t] \in Task
  BY DEF ResumeEnd, Parts, TaskTypes
<1>4. /\ task[t].attempt \in Attempts /\ task[t].version \in Nat
      /\ task[t].code \in {"ack", "failed_validation", "conflict"}
      /\ VerdictHolds(history, task[t].attempt.key, task[t].code, task[t].version)
  BY <1>3 DEF Task, Idle, Parts, TasksHold
<1> QED
  BY <1>1, <1>2, <1>4, SettleKeeps DEF ResumeEnd, Parts

\* A buffer or a verdict expires.
LEMMA SweepInv ==
    ASSUME Parts, NEW k \in Keys, SweepStaging(k) \/ SweepSettled(k)
    PROVE  Parts'
<1>1. UNCHANGED <<history, task>> /\ reply' = Silence
  BY DEF SweepStaging, SweepSettled
<1>2. Grows /\ HistoryTypes' /\ CommittedAsMeant'
  BY <1>1, HistoryKept
<1>3. TasksHold' /\ TaskTypes'
  BY <1>1, <1>2, TasksKept DEF Parts
<1>4. Buffers' /\ StagingTypes'
  BY <1>2, BuffersKept DEF SweepStaging, SweepSettled, Parts
<1>5. SettledHold' /\ SettledTypes'
  <2>1. CASE SweepStaging(k)
    BY <1>2, <2>1, SettledKept DEF SweepStaging, Parts, SettledTypes
  <2>2. CASE SweepSettled(k)
    BY <1>2, <2>2, SettledForgotten DEF SweepSettled, Parts
  <2> QED
    BY <2>1, <2>2
<1>6. OpenOrDecided'
  BY DEF SweepStaging, SweepSettled, Without, Restrict, Parts, OpenOrDecided
<1> QED
  BY <1>1, <1>2, <1>3, <1>4, <1>5, <1>6, SilenceHolds DEF Parts

\* Somebody else commits a version.
LEMMA CommitElsewhereInv ==
    ASSUME Parts, NEW image \in OtherImages, CommitElsewhere(image)
    PROVE  Parts'
<1>1. UNCHANGED <<staging, settled, task>> /\ reply' = Silence
  BY DEF CommitElsewhere
<1>2. /\ Grows /\ HistoryTypes'
      /\ DOMAIN history' = DOMAIN history \cup {Len(history) + 1}
      /\ history'[Len(history) + 1] = Version(image, "other")
  BY ListenerAssumption, AppendGrows DEF CommitElsewhere, Parts
<1>3. CommittedAsMeant'
  <2>1. \A v \in DOMAIN history : history'[v] = history[v]
    BY <1>2 DEF Grows
  <2>2. history'[Len(history) + 1].source = "other"
    BY <1>2 DEF Version
  <2> QED
    BY <1>2, <2>1, <2>2 DEF Parts, CommittedAsMeant
<1> QED
  BY <1>1, <1>2, <1>3, SilenceHolds, AllKept DEF Parts

\* A datagram is dropped.
LEMMA DropInv ==
    ASSUME Parts, Drop
    PROVE  Parts'
<1>1. Grows /\ HistoryTypes' /\ CommittedAsMeant'
  BY HistoryKept DEF Drop
<1> QED
  BY <1>1, SilenceHolds, AllKept DEF Drop, Parts

\* The process dies and is started again on the same history.
LEMMA RestartInv ==
    ASSUME Parts, Restart
    PROVE  Parts'
<1>1. Grows /\ HistoryTypes' /\ CommittedAsMeant'
  BY HistoryKept DEF Restart
<1>2. DOMAIN staging' = {} /\ DOMAIN settled' = {}
  BY DEF Restart
<1>3. StagingTypes' /\ SettledTypes' /\ Buffers' /\ SettledHold' /\ OpenOrDecided'
  BY <1>2 DEF StagingTypes, SettledTypes, Buffers, CountersAgree, BufferIsSeedPlusReceived,
     ParentKnown, SettledHold, OpenOrDecided
<1>4. TasksHold' /\ TaskTypes'
  BY DEF Restart, TasksHold, TaskTypes, Task, Idle
<1> QED
  BY <1>1, <1>3, <1>4, SilenceHolds DEF Restart, Parts

\* Every step keeps the inductive invariant.
LEMMA NextInv == IInv /\ [Next]_vars => IInv'
<1> SUFFICES ASSUME Parts, [Next]_vars PROVE Parts'
  BY PartsMakeInv
<1>1. CASE UNCHANGED vars
  <2>1. UNCHANGED <<staging, settled, task, history, reply>>
    BY <1>1 DEF vars
  <2>2. Grows /\ HistoryTypes' /\ CommittedAsMeant'
    BY <2>1, HistoryKept
  <2>3. ReplyTypes' /\ RepliesHold'
    BY <2>1 DEF Parts, ReplyTypes, RepliesHold
  <2> QED
    BY <2>1, <2>2, <2>3, AllKept DEF Parts
<1>2. ASSUME NEW a \in Attempts, Receive(a)
      PROVE  Parts'
  BY <1>2, OnPushBeginInv, OnPushEndInv, OnPushDeltaInv, OnPushChunkInv DEF Receive
<1>3. ASSUME NEW t \in Tasks, ResumeBegin(t) \/ StorePush(t) \/ StoreFails(t) \/ ResumeEnd(t)
      PROVE  Parts'
  BY <1>3, ResumeBeginInv, StorePushInv, StoreFailsInv, ResumeEndInv
<1> QED
  BY <1>1, <1>2, <1>3, SweepInv, CommitElsewhereInv, DropInv, RestartInv DEF Next

----------------------------------------------------------------------------
(* The theorems.                                                           *)

\* The inductive invariant holds in every reachable state.
THEOREM ListenerInvariance == Spec => []IInv
<1>1. Init => IInv
  BY InitInv, PartsMakeInv
<1> QED
  BY <1>1, NextInv, PTL DEF Spec

\* Every variable keeps its type, whatever arrives.
THEOREM ListenerTypes == Spec => []TypeOK
BY ListenerInvariance, PTL DEF IInv

\* However declarations and chunks are lost, repeated and reordered, the counters
\* a transfer is judged complete by agree with its bitmaps.
THEOREM CountersNeverDrift == Spec => []CountersAgree
BY ListenerInvariance, PTL DEF IInv

\* No transfer is open and decided at once.
THEOREM NoVerdictOnOpenTransfer == Spec => []OpenOrDecided
BY ListenerInvariance, PTL DEF IInv

\* A buffer holds nothing of an attempt before its PUSH_BEGIN, even when the seed
\* was read by a thread while the loop served others.
THEOREM BuffersAreClean == Spec => []BufferIsSeedPlusReceived
BY ListenerInvariance, PTL DEF IInv

\* What is committed is an image some console meant, on the parent it meant.
THEOREM NothingElseIsCommitted == Spec => []CommittedAsMeant
BY ListenerInvariance, PTL DEF IInv

\* Acknowledgements, conflicts and gap lists say what is the case.
THEOREM RepliesAreTrue == Spec => []RepliesHold
BY ListenerInvariance, PTL DEF IInv
=============================================================================
