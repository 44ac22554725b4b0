----------------------------- MODULE CardStore -----------------------------
(***************************************************************************)
(* The versioned card store: store.py over the SQLite index of db.py and   *)
(* the content-addressed files of blobs.py, as the HTTP endpoints of       *)
(* api.py and the UDP listener call it.                                    *)
(*                                                                         *)
(* Several threads serve calls at once. Each opens its own connection and  *)
(* runs a BEGIN IMMEDIATE transaction; what it writes is visible to the    *)
(* others only at COMMIT, so the INSERT, the update of `cards.head` and    *)
(* the COMMIT are one step here. A blob is written to a temporary file     *)
(* and renamed, which are two. The server process may die between any two  *)
(* steps: the database and the blob files stay, everything else is lost.   *)
(***************************************************************************)
EXTENDS CardCalls, FiniteSets

CONSTANTS
    Callers,     \* the threads that serve calls
    NoOne,       \* not a caller: the write lock is free
    MaxVersion   \* bound: no call starts on a card that has this many versions

ASSUME StoreAssumption ==
    /\ NoOne \notin Callers
    /\ MaxVersion \in Nat

VARIABLES
    versions,  \* the table of that name: per card, version |-> [sha, parent]
    head,      \* the table `cards`: per card its head, 0 when it has no row
    blobs,     \* what is at the name of each digest: "absent", "partial", "whole"
    lock,      \* the caller holding SQLite's write lock, or NoOne
    pc,        \* where each caller is
    call,      \* the call it is serving
    base,      \* the head version it read inside its transaction
    answer,    \* the PushResult or exception it got
    body       \* the sha256 the JSON body pairs with that version, None when there is none

disk == <<versions, head, blobs>>
vars == <<versions, head, blobs, lock, pc, call, base, answer, body>>

\* The steps taken with the write lock held.
InTransaction == {"decide", "write", "replace", "commit"}

Steps == InTransaction \cup {"idle", "touch", "validate", "check", "begin", "respond", "done"}

Card(p) == call[p].card

\* The image a call is about to commit: its own, or the rollback target's.
NewImage(p) ==
    IF call[p].op = "rollback" THEN versions[Card(p)][call[p].target].sha
    ELSE call[p].image

\* Store._head: the sha256 of the head version, None when there is no card.
HeadSha(c) == IF head[c] = 0 THEN None ELSE versions[c][head[c]].sha

\* The INSERT of one row: the version is the primary key, so it is a new one.
WithRow(rows, v, row) ==
    [w \in DOMAIN rows \cup {v} |-> IF w \in DOMAIN rows THEN rows[w] ELSE row]

\* push_card is `async def` and calls the store on the event loop, so while one
\* is being served the loop dispatches nothing: neither HTTP nor a datagram.
LoopHeldAtMostBy(allowed) ==
    \A q \in Callers \ allowed :
        ~ (pc[q] # "idle" /\ call[q].op = "push" /\ call[q].via = "api")

LoopFree == LoopHeldAtMostBy({})

Init ==
    /\ versions = [c \in Cards |-> <<>>]
    /\ head = [c \in Cards |-> 0]
    /\ blobs = [i \in Images |-> "absent"]
    /\ lock = NoOne
    /\ pc = [p \in Callers |-> "idle"]
    /\ call = [p \in Callers |-> NoCall]
    /\ base = [p \in Callers |-> 0]
    /\ answer = [p \in Callers |-> NoAnswer]
    /\ body = [p \in Callers |-> None]

----------------------------------------------------------------------------
(* Reaching the store.                                                     *)

\* Where each handler starts. With ?device= an API push records the device first.
Start(r) ==
    CASE r.op = "push" /\ r.via = "api" -> {"touch", "validate"}
      [] r.op = "push" /\ r.via = "udp" -> {"validate"}
      [] r.op = "format" -> {"check"}
      [] r.op = "rollback" -> {"begin"}

Accept(p, r) ==
    /\ pc[p] = "idle"
    /\ LoopFree
    /\ head[r.card] < MaxVersion
    /\ \E s \in Start(r) : pc' = [pc EXCEPT ![p] = s]
    /\ call' = [call EXCEPT ![p] = r]
    /\ UNCHANGED <<disk, lock, base, answer, body>>

\* The call gets its answer from the store. The HTTP handlers then read the head
\* once more for the response body, unless the answer is an exception.
Return(p, a) ==
    /\ pc' = [pc EXCEPT ![p] =
                IF call[p].via # "udp" /\ a.outcome \in {"created", "unchanged"}
                THEN "respond" ELSE "done"]
    /\ answer' = [answer EXCEPT ![p] = a]

Goto(p, s) ==
    /\ pc' = [pc EXCEPT ![p] = s]
    /\ UNCHANGED answer

\* touch_device is a transaction of its own on a table no other call reads: what
\* it costs this call is the wait for the write lock.
TouchDevice(p) ==
    /\ pc[p] = "touch"
    /\ lock = NoOne
    /\ Goto(p, "validate")
    /\ UNCHANGED <<disk, lock, call, base, body>>

\* Mutant: whatever arrives is stored.
ValidateNothing(p) ==
    /\ pc[p] = "validate"
    /\ Goto(p, "begin")
    /\ UNCHANGED <<disk, lock, call, base, body>>

\* The size cap and the parser, before any transaction.
Validate(p) ==
    /\ pc[p] = "validate"
    /\ \/ /\ call[p].image \in ValidImages
          /\ Goto(p, "begin")
       \/ /\ call[p].image \notin ValidImages
          /\ Return(p, Answer("invalid", 0))
    /\ UNCHANGED <<disk, lock, call, base, body>>

\* The format endpoint looks for an existing card outside any transaction.
CheckAbsent(p) ==
    /\ pc[p] = "check"
    /\ \/ /\ head[Card(p)] = 0
          /\ Goto(p, "validate")
       \/ /\ head[Card(p)] # 0
          /\ Return(p, Answer("conflict", head[Card(p)]))
    /\ UNCHANGED <<disk, lock, call, base, body>>

----------------------------------------------------------------------------
(* The transaction.                                                        *)

BeginImmediate(p) ==
    /\ pc[p] = "begin"
    /\ lock = NoOne
    /\ lock' = p
    /\ Goto(p, "decide")
    /\ UNCHANGED <<disk, call, base, body>>

\* Thirty seconds behind another writer, and SQLite says "database is locked".
LockTimeout(p) ==
    /\ pc[p] \in {"touch", "begin"}
    /\ lock # NoOne
    /\ Return(p, Answer("error", 0))
    /\ UNCHANGED <<disk, lock, call, base, body>>

\* Leave the transaction with nothing written.
EndWith(p, a) ==
    /\ Return(p, a)
    /\ lock' = NoOne
    /\ UNCHANGED <<disk, call, base, body>>

\* Remember the head that was read and go on to the next step.
Proceed(p, s) ==
    /\ Goto(p, s)
    /\ base' = [base EXCEPT ![p] = head[Card(p)]]
    /\ UNCHANGED <<disk, lock, call, body>>

\* Mutant: last write wins, the parent is not compared with the head.
LastWriteWins(p) ==
    LET h == head[Card(p)] IN
    /\ pc[p] = "decide"
    /\ call[p].op \in {"push", "format"}
    /\ \/ HeadSha(Card(p)) = call[p].image /\ EndWith(p, Answer("unchanged", h))
       \/ HeadSha(Card(p)) # call[p].image /\ Proceed(p, "write")

\* Mutant: the new version is numbered from the parent the caller names.
TrustParent(p) ==
    LET h == head[Card(p)] IN
    /\ pc[p] = "decide"
    /\ call[p].op \in {"push", "format"}
    /\ \/ HeadSha(Card(p)) = call[p].image /\ EndWith(p, Answer("unchanged", h))
       \/ /\ HeadSha(Card(p)) # call[p].image
          /\ call[p].parent >= h
          /\ Goto(p, "write")
          /\ base' = [base EXCEPT ![p] = call[p].parent]
          /\ UNCHANGED <<disk, lock, call, body>>

\* Mutant: rule 1 is missing, every push that names the head makes a version.
NeverUnchanged(p) ==
    LET h == head[Card(p)] IN
    /\ pc[p] = "decide"
    /\ call[p].op \in {"push", "format"}
    /\ \/ call[p].parent # h /\ EndWith(p, Answer("conflict", h))
       \/ call[p].parent = h /\ Proceed(p, "write")

\* Store.push, the three rules in their order.
DecidePush(p) ==
    LET h == head[Card(p)] IN
    /\ pc[p] = "decide"
    /\ call[p].op \in {"push", "format"}
    /\ \/ /\ HeadSha(Card(p)) = call[p].image
          /\ EndWith(p, Answer("unchanged", h))
       \/ /\ HeadSha(Card(p)) # call[p].image
          /\ call[p].parent # h
          /\ EndWith(p, Answer("conflict", h))
       \/ /\ HeadSha(Card(p)) # call[p].image
          /\ call[p].parent = h
          /\ Proceed(p, "write")

\* Mutant: a rollback points the head at the old version instead of copying it.
RewindHead(p) ==
    /\ pc[p] = "decide"
    /\ call[p].op = "rollback"
    /\ call[p].target \in DOMAIN versions[Card(p)]
    /\ head' = [head EXCEPT ![Card(p)] = call[p].target]
    /\ lock' = NoOne
    /\ Return(p, Answer("created", call[p].target))
    /\ UNCHANGED <<versions, blobs, call, base, body>>

\* Store.rollback: the target must exist, and nothing is written to the blobs.
DecideRollback(p) ==
    LET h == head[Card(p)]
        found == call[p].target \in DOMAIN versions[Card(p)] IN
    /\ pc[p] = "decide"
    /\ call[p].op = "rollback"
    /\ \/ /\ ~ found
          /\ EndWith(p, Answer("notfound", 0))
       \/ /\ found
          /\ HeadSha(Card(p)) = NewImage(p)
          /\ EndWith(p, Answer("unchanged", h))
       \/ /\ found
          /\ HeadSha(Card(p)) # NewImage(p)
          /\ Proceed(p, "commit")

\* Mutant: the blob is written in place, under its final name.
WriteInPlace(p) ==
    /\ pc[p] = "write"
    /\ \/ /\ blobs[NewImage(p)] = "absent"
          /\ blobs' = [blobs EXCEPT ![NewImage(p)] = "partial"]
          /\ Goto(p, "replace")
       \/ /\ blobs[NewImage(p)] # "absent"
          /\ Goto(p, "commit")
          /\ UNCHANGED blobs
    /\ UNCHANGED <<versions, head, lock, call, base, body>>

\* BlobStore.put: nothing to do when a file has that name already; otherwise the
\* bytes go to a temporary file, which nobody ever reads.
WriteTemp(p) ==
    /\ pc[p] = "write"
    /\ Goto(p, IF blobs[NewImage(p)] = "absent" THEN "replace" ELSE "commit")
    /\ UNCHANGED <<disk, lock, call, base, body>>

\* os.replace gives the finished file its name.
ReplaceBlob(p) ==
    /\ pc[p] = "replace"
    /\ blobs' = [blobs EXCEPT ![NewImage(p)] = "whole"]
    /\ Goto(p, "commit")
    /\ UNCHANGED <<versions, head, lock, call, base, body>>

\* _insert_version and COMMIT.
CommitVersion(p) ==
    LET c == Card(p)
        v == base[p] + 1 IN
    /\ pc[p] = "commit"
    /\ v \notin DOMAIN versions[c]    \* the primary key of the table
    /\ versions' = [versions EXCEPT ![c] = WithRow(@, v, [sha |-> NewImage(p), parent |-> base[p]])]
    /\ head' = [head EXCEPT ![c] = v]
    /\ lock' = NoOne
    /\ Return(p, Answer("created", v))
    /\ UNCHANGED <<blobs, call, base, body>>

\* Mutant: an error raised after the COMMIT is reported as if nothing was written.
ErrorAfterCommit(p) ==
    /\ pc[p] = "commit"
    /\ versions' = [versions EXCEPT ![Card(p)] =
                       WithRow(@, base[p] + 1, [sha |-> NewImage(p), parent |-> base[p]])]
    /\ head' = [head EXCEPT ![Card(p)] = base[p] + 1]
    /\ lock' = NoOne
    /\ Return(p, Answer("error", 0))
    /\ UNCHANGED <<blobs, call, base, body>>

\* A full disk, a failed rename, a failed COMMIT: any exception rolls back.
Rollback(p) ==
    /\ pc[p] \in InTransaction
    /\ EndWith(p, Answer("error", 0))

----------------------------------------------------------------------------
(* Leaving the store.                                                      *)

\* The JSON body takes the version from the result and the sha256 from the head as it
\* is now, read on another connection. When that read fails the answer is a plain 500,
\* which names no version, although one may have been committed.
Respond(p) ==
    /\ pc[p] = "respond"
    /\ body' = [body EXCEPT ![p] = HeadSha(Card(p))] \/ UNCHANGED body
    /\ Goto(p, "done")
    /\ UNCHANGED <<disk, lock, call, base>>

\* Mutant: the handler waits for the loop that it is itself blocking.
LeaveThroughLoop(p) ==
    /\ pc[p] = "done"
    /\ LoopFree
    /\ pc' = [pc EXCEPT ![p] = "idle"]
    /\ call' = [call EXCEPT ![p] = NoCall]
    /\ base' = [base EXCEPT ![p] = 0]
    /\ answer' = [answer EXCEPT ![p] = NoAnswer]
    /\ body' = [body EXCEPT ![p] = None]
    /\ UNCHANGED <<disk, lock>>

\* Back on the event loop, where the reply is sent: the loop must not be held by
\* another caller's API push.
Leave(p) ==
    /\ pc[p] = "done"
    /\ LoopHeldAtMostBy({p})
    /\ pc' = [pc EXCEPT ![p] = "idle"]
    /\ call' = [call EXCEPT ![p] = NoCall]
    /\ base' = [base EXCEPT ![p] = 0]
    /\ answer' = [answer EXCEPT ![p] = NoAnswer]
    /\ body' = [body EXCEPT ![p] = None]
    /\ UNCHANGED <<disk, lock>>

\* The process dies and is restarted on the same volume.
Crash ==
    /\ lock' = NoOne
    /\ pc' = [p \in Callers |-> "idle"]
    /\ call' = [p \in Callers |-> NoCall]
    /\ base' = [p \in Callers |-> 0]
    /\ answer' = [p \in Callers |-> NoAnswer]
    /\ body' = [p \in Callers |-> None]
    /\ UNCHANGED disk

----------------------------------------------------------------------------

\* Everything a thread does once it serves a call, failures apart.
Serve(p) ==
    \/ TouchDevice(p)
    \/ Validate(p)
    \/ CheckAbsent(p)
    \/ BeginImmediate(p)
    \/ LockTimeout(p)
    \/ DecidePush(p)
    \/ DecideRollback(p)
    \/ WriteTemp(p)
    \/ ReplaceBlob(p)
    \/ CommitVersion(p)
    \/ Respond(p)
    \/ Leave(p)

Next ==
    \/ \E p \in Callers :
          \/ \E r \in Calls : Accept(p, r)
          \/ Serve(p)
          \/ Rollback(p)
    \/ Crash

Spec == Init /\ [][Next]_vars

\* A thread that serves a call keeps running: the operating system schedules it,
\* and a wait for the write lock ends with the lock or with SQLite's timeout. The
\* event loop runs what is ready in order, so no finished call is passed over for
\* ever by API pushes that keep taking the loop.
FairSpec == Spec /\ \A p \in Callers : WF_vars(Serve(p)) /\ SF_vars(Leave(p))

----------------------------------------------------------------------------
(* What must hold.                                                         *)

Row == [sha : ValidImages, parent : Nat]

\* Every variable has its type; a stored version is an image the parser took.
TypeOK ==
    /\ DOMAIN versions = Cards
    /\ \A c \in Cards : /\ DOMAIN versions[c] \subseteq Nat
                        /\ \A v \in DOMAIN versions[c] : versions[c][v] \in Row
    /\ head \in [Cards -> Nat]
    /\ blobs \in [Images -> {"absent", "partial", "whole"}]
    /\ lock \in Callers \cup {NoOne}
    /\ pc \in [Callers -> Steps]
    /\ call \in [Callers -> Calls \cup {NoCall}]
    /\ base \in [Callers -> Nat]
    /\ answer \in [Callers -> Answers]
    /\ body \in [Callers -> Images \cup {None}]

\* The history of a card has no gap, no fork and no second tip: its versions are
\* 1 up to the head and each was derived from the one before it, whichever
\* threads pushed, rolled back or formatted at the same time.
FastForwardOnly ==
    \A c \in Cards :
        /\ DOMAIN versions[c] = 1..head[c]
        /\ \A v \in 1..head[c] : versions[c][v].parent = v - 1

\* Every version ever listed can still be downloaded: its blob is at its name and
\* whole, also after a crash between the blob's write, its rename and the COMMIT.
EveryVersionReadable ==
    \A c \in Cards : \A v \in DOMAIN versions[c] : blobs[versions[c][v].sha] = "whole"

\* Rule 1 of store.py, "retries cost nothing": no version repeats the image of the
\* version it follows, even when one image is pushed by two threads at once.
RetriesAreFree ==
    \A c \in Cards : \A v \in 2..head[c] : versions[c][v].sha # versions[c][v - 1].sha

Answered(p) == pc[p] \in {"respond", "done"}

AnswerHolds(p) ==
    LET r == call[p]
        v == answer[p].version
        rows == versions[r.card] IN
    /\ answer[p].outcome \in {"created", "unchanged"} =>
          /\ v \in DOMAIN rows
          /\ r.op = "rollback" => /\ r.target \in DOMAIN rows
                                 /\ rows[v].sha = rows[r.target].sha
          /\ r.op # "rollback" => rows[v].sha = r.image
    /\ answer[p].outcome = "created" /\ r.op # "rollback" => rows[v].parent = r.parent
    /\ answer[p].outcome = "conflict" => v \in 0..head[r.card] /\ r.parent # v
    /\ body[p] # None => \E w \in v..head[r.card] : rows[w].sha = body[p]

\* What a caller is told stays true however long it takes to hear it. A push told
\* "created v" finds its own image at v, on top of exactly the parent it named; a
\* rollback finds its target's image there; a push told "unchanged v" finds its own
\* image at v; a push told "conflict v" did not derive from v, and v exists. The
\* digest in an HTTP body is that of v or of a version committed after it.
AnswersHold == \A p \in Callers : Answered(p) => AnswerHolds(p)

----------------------------------------------------------------------------
(* The inductive invariant behind the safety properties.                   *)

\* The callers inside a transaction are exactly the one that holds the lock.
LockHeld == \A p \in Callers : pc[p] \in InTransaction <=> lock = p

\* What the handlers have established by the time they reach a step.
CallFits ==
    \A p \in Callers :
        /\ pc[p] # "idle" => call[p] \in Calls
        /\ pc[p] \in {"touch", "validate", "check", "write", "replace"} =>
               call[p].op \in {"push", "format"}
        /\ pc[p] = "check" => call[p].op = "format"
        /\ pc[p] \in InTransaction \cup {"begin"} =>
               call[p].op = "rollback" \/ call[p].image \in ValidImages

\* A name in the blob directory never stands for half a file.
BlobsWhole == \A i \in Images : blobs[i] # "partial"

\* What the caller read under the lock still holds when it writes.
DecisionStands ==
    \A p \in Callers : pc[p] \in {"write", "replace", "commit"} =>
        /\ base[p] = head[Card(p)]
        /\ HeadSha(Card(p)) # NewImage(p)
        /\ call[p].op = "rollback" => call[p].target \in DOMAIN versions[Card(p)]
        /\ call[p].op # "rollback" => call[p].parent = base[p]
        /\ pc[p] = "commit" => blobs[NewImage(p)] = "whole"

\* A call nobody has answered yet has no answer and no body.
AnswerWhenDone ==
    \A p \in Callers :
        /\ ~ Answered(p) => answer[p] = NoAnswer
        /\ pc[p] # "done" => body[p] = None
        /\ pc[p] = "respond" \/ body[p] # None => answer[p].outcome \in {"created", "unchanged"}

IInv ==
    /\ TypeOK
    /\ LockHeld
    /\ CallFits
    /\ BlobsWhole
    /\ DecisionStands
    /\ AnswerWhenDone
    /\ FastForwardOnly
    /\ EveryVersionReadable
    /\ RetriesAreFree
    /\ AnswersHold

----------------------------------------------------------------------------
(* Action and liveness properties.                                         *)

\* History is append-only (the docstring of Store.rollback): no step, a crash
\* included, changes a version, removes one or moves a head back.
AppendOnly ==
    [][\A c \in Cards :
          /\ head'[c] >= head[c]
          /\ \A v \in DOMAIN versions[c] :
                v \in DOMAIN versions'[c] /\ versions'[c][v] = versions[c][v]]_vars

\* No call waits for ever, on the write lock, on the event loop or on another
\* call: each one is answered and its thread is free again.
EveryCallReturns == \A p \in Callers : pc[p] # "idle" ~> pc[p] = "idle"

----------------------------------------------------------------------------
(* The store implements the abstract history: the rows of a card read as a *)
(* sequence, and a call counts as answered once its transaction has ended. *)

HistoryOf(c) == [v \in 1..head[c] |-> versions[c][v].sha]

PhaseOf(p) ==
    IF pc[p] = "idle" THEN "idle"
    ELSE IF Answered(p) THEN "answered" ELSE "asked"

History == INSTANCE CardHistory
    WITH history <- [c \in Cards |-> HistoryOf(c)],
         phase <- [p \in Callers |-> PhaseOf(p)]

\* Every behaviour of the store, crashes and concurrent callers included, is one
\* in which each call is decided at one instant by the rules of CardHistory.
ImplementsHistory == History!Spec
=============================================================================
