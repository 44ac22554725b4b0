---------------------------- MODULE PushTransfer ----------------------------
(***************************************************************************)
(* One console pushing its saves to the listener: ss_push_delta and        *)
(* push_once of client.c, the datagrams in flight both ways, and           *)
(* PushListener at the other end.                                          *)
(*                                                                         *)
(* A datagram may be lost or overtaken by another. What goes wrong during  *)
(* a behaviour is counted by its kind, so that the properties can say      *)
(* which mishaps a push has to survive.                                    *)
(*                                                                         *)
(* Every datagram the client emits carries a fresh nonce, so each copy is  *)
(* taken by the server once: the network is a bag, and delivery removes a  *)
(* copy. Every push opens a fresh socket, as SlotSync.c does, bound to the *)
(* same port: what lies in the old one is gone, what is still on its way   *)
(* reaches the new one.                                                    *)
(***************************************************************************)
EXTENDS PushListener, Bags

CONSTANTS
    Saves,      \* what ss_push_delta is called with
    MaxRounds,  \* max_rounds of ss_client
    MaxPushes,  \* bound: calls of ss_push_delta
    MaxMishaps  \* bound: late timeouts and troubles of the server

\* The same push without the delta flag: every chunk is sent.
Whole(a) == [a EXCEPT !.delta = FALSE]

ASSUME TransferAssumption ==
    /\ Saves \subseteq Attempts
    /\ \A a \in Saves : Whole(a) \in Attempts
    /\ {MaxPushes, MaxMishaps} \subseteq Nat
    /\ MaxRounds \in Nat \ {0}

VARIABLES
    requests,  \* datagrams on their way to the server
    replies,   \* datagrams on their way to the console's socket
    pc,        \* what the console waits for
    save,      \* what it is pushing
    delta,     \* push_once: whether this transfer is a delta
    again,     \* ss_push_delta: whether this is its second push_once
    tries,     \* emissions of one control message, or rounds of chunks
    want,      \* chunks still to be declared, or to be sent in this round
    result,    \* what the last call returned, and the version it reported
    since,     \* the version of the card when the call was made
    pushes,    \* calls so far
    mishaps    \* per kind, how often it has happened, up to MaxRounds

\* A datagram lost; a PUSH_END that overtakes others; the reply to one lost, which
\* is the receipt of the push; a timeout, or the next push, while something is still
\* on its way; a transfer the server forgets, fails to commit or refuses.
Kinds == {"lost", "overtaken", "receipt", "late", "server"}

console == <<pc, save, delta, again, tries, want, result, since, pushes>>
tvars == <<vars, requests, replies, console, mishaps>>

\* The attempt that the datagrams of the running push_once belong to.
Current == IF delta THEN save ELSE Whole(save)

Chunks == DOMAIN save.image

\* The chunks push_once is responsible for.
Owed == IF delta THEN save.dirty ELSE Chunks

\* Mutant: chunks are numbered from nought where the card counts from one.
OffByOne(kind, i) == [kind |-> kind, of |-> Current, chunk |-> IF kind = "chunk" THEN i - 1 ELSE i]

Datagram(kind, i) == [kind |-> kind, of |-> Current, chunk |-> i]

NoResult == [code |-> "none", version |-> 0]

TInit ==
    /\ Init
    /\ requests = EmptyBag
    /\ replies = EmptyBag
    /\ pc = "idle"
    /\ save \in Saves
    /\ delta = FALSE
    /\ again = FALSE
    /\ tries = 0
    /\ want = {}
    /\ result = NoResult
    /\ since = 0
    /\ pushes = 0
    /\ mishaps = [k \in Kinds |-> 0]

Mishap(kind) ==
    /\ kind \in {"late", "server"} => mishaps["late"] + mishaps["server"] < MaxMishaps
    /\ mishaps' = [mishaps EXCEPT ![kind] = IF @ < MaxRounds THEN @ + 1 ELSE @]

----------------------------------------------------------------------------
(* The console: push_once. Its steps leave the listener as it is (Drop).   *)

Emit(datagrams) == requests' = requests (+) SetToBag(datagrams)

\* control_exchange: emit one control message for the n-th time.
Ask(step, d, n) ==
    /\ pc' = step
    /\ tries' = n
    /\ Emit({d})

\* PUSH_BEGIN, as a delta or not.
Begin(a, asDelta, second) ==
    /\ save' = a
    /\ delta' = asDelta
    /\ again' = second
    /\ want' = {}
    /\ Ask("begin", [kind |-> "begin", of |-> IF asDelta THEN a ELSE Whole(a), chunk |-> 0], 1)

\* One round: the wanted chunks, then PUSH_END with the digest.
SendRound(chunks, n) ==
    /\ pc' = "end"
    /\ tries' = n
    /\ want' = chunks
    /\ Emit({Datagram("chunk", i) : i \in chunks} \cup {Datagram("end", 0)})

\* declare_delta: the next window that has anything to declare, or the first round.
DeclareOrSend(undeclared) ==
    \/ /\ undeclared # {}
       /\ want' = undeclared
       /\ \E i \in undeclared :
             /\ \A j \in undeclared : i <= j
             /\ Ask("declare", Datagram("delta", i), 1)
    \/ /\ undeclared = {}
       /\ SendRound(Owed, 1)

\* Whether the server has yet to answer something the console has sent.
Underway == requests # EmptyBag \/ \E t \in Tasks : task[t] # Idle

Busy == Underway \/ replies # EmptyBag

\* Mutant: a delta that fails its digest is handed back to the caller.
GiveBack(code, version) ==
    /\ result' = [code |-> code, version |-> version]
    /\ pc' = "idle"
    /\ UNCHANGED <<requests, save, delta, again, tries, want>>

\* push_once is over, and the call returns. ss_push_delta starts it once more, whole,
\* when a delta was asked for and its digest failed.
Finish(code, version) ==
    \/ /\ code = "checksum" /\ save.delta /\ ~ again
       /\ Begin(save, FALSE, TRUE)
       /\ UNCHANGED result
    \/ /\ ~ (code = "checksum" /\ save.delta /\ ~ again)
       /\ result' = [code |-> code, version |-> version]
       /\ pc' = "idle"
       /\ UNCHANGED <<requests, save, delta, again, tries, want>>

\* ss_push_delta is called, on a fresh socket.
Start(a) ==
    /\ pc = "idle"
    /\ pushes < MaxPushes
    /\ pushes' = pushes + 1
    /\ Begin(a, a.delta, FALSE)
    /\ result' = NoResult
    /\ since' = Len(history)
    /\ \/ ~ Underway /\ replies' = EmptyBag /\ UNCHANGED mishaps
       \/ Busy /\ Mishap("late") /\ UNCHANGED replies
    /\ Drop

\* What the client reads off a reply: its type and code, card_version and the gap
\* bitmap. Nothing in it tells which request it answers, so nobody looks.
HearBegin(r) ==
    /\ pc = "begin"
    /\ \/ /\ r.code = "ack"
          /\ DeclareOrSend(IF delta THEN save.dirty ELSE {})
          /\ UNCHANGED <<save, delta, again, result>>
       \/ /\ r.code = "delta_unavailable"
          /\ delta
          /\ Begin(save, FALSE, again)
          /\ UNCHANGED result
       \/ /\ r.code # "ack"
          /\ ~ (r.code = "delta_unavailable" /\ delta)
          /\ Finish(r.code, r.version)

HearDeclare(r) ==
    /\ pc = "declare"
    /\ \/ /\ r.code = "ack"
          /\ \E i \in want :
                /\ \A j \in want : i <= j
                /\ DeclareOrSend(want \ Window(save, i))
          /\ UNCHANGED <<save, delta, again, result>>
       \/ /\ r.code # "ack"
          /\ Finish(r.code, r.version)

\* Mutant: the version reported is the transfer id, not the one in the ACK.
EchoId(r) ==
    /\ pc \in {"end", "gaps"}
    /\ \/ /\ r.code = "missing"
          /\ pc' = "gaps"
          /\ want' = (r.gaps \cap Chunks) \cup (IF pc = "gaps" THEN want ELSE {})
          /\ UNCHANGED <<requests, save, delta, again, tries, result>>
       \/ /\ r.code # "missing"
          /\ Finish(r.code, IF r.code = "ack" THEN TransferId(save) ELSE r.version)

\* The reply to PUSH_END, and those read after a first list of gaps.
HearVerdict(r) ==
    /\ pc \in {"end", "gaps"}
    /\ \/ /\ r.code = "missing"
          /\ pc' = "gaps"
          /\ want' = (r.gaps \cap Chunks) \cup (IF pc = "gaps" THEN want ELSE {})
          /\ UNCHANGED <<requests, save, delta, again, tries, result>>
       \/ /\ r.code # "missing"
          /\ Finish(r.code, r.version)

Hear(r) ==
    /\ BagIn(r, replies)
    /\ replies' = replies (-) SetToBag({r})
    /\ HearBegin(r) \/ HearDeclare(r) \/ HearVerdict(r)
    /\ Drop
    /\ UNCHANGED <<since, pushes, mishaps>>

\* Mutant: one emission too many.
AskOnceTooOften ==
    /\ pc = "begin"
    /\ \/ tries <= MaxRounds /\ Ask("begin", Datagram("begin", 0), tries + 1)
                             /\ UNCHANGED <<save, delta, again, want, result>>
       \/ tries > MaxRounds /\ Finish("gave_up", 0)

\* Mutant: rounds are not counted, only emissions of control messages are.
RetryForever ==
    \/ /\ pc \in {"begin", "declare"}
       /\ Finish("gave_up", 0)
    \/ /\ pc \in {"end", "gaps"}
       /\ SendRound(want, tries)
       /\ UNCHANGED <<save, delta, again, result>>

\* Nothing heard for timeout_ms: once more, as often as max_rounds allows. While
\* gaps are gathered the silence means that there are no more of them.
AskAgain ==
    \/ /\ pc = "begin"
       /\ tries < MaxRounds
       /\ Ask("begin", Datagram("begin", 0), tries + 1)
       /\ UNCHANGED <<save, delta, again, want, result>>
    \/ /\ pc = "declare"
       /\ tries < MaxRounds
       /\ \E i \in want :
             /\ \A j \in want : i <= j
             /\ Ask("declare", Datagram("delta", i), tries + 1)
       /\ UNCHANGED <<save, delta, again, want, result>>
    \/ /\ pc \in {"end", "gaps"}
       /\ tries < MaxRounds
       /\ SendRound(want, tries + 1)
       /\ UNCHANGED <<save, delta, again, result>>
    \/ /\ pc # "idle"
       /\ tries = MaxRounds
       /\ Finish("gave_up", 0)

Timeout ==
    /\ AskAgain
    /\ \/ ~ Busy /\ UNCHANGED mishaps
       \/ Busy /\ Mishap("late")    \* it fires too early
    /\ Drop
    /\ UNCHANGED <<replies, since, pushes>>

----------------------------------------------------------------------------
(* The network and the server.                                             *)

\* The bitmap of a long list of gaps goes in several datagrams, one per window.
Outgoing(r) ==
    IF r = Silence THEN {}
    ELSE IF r.code # "missing" THEN {[to |-> r.kind, code |-> r.code, version |-> r.version, gaps |-> {}]}
    ELSE {[to |-> r.kind, code |-> r.code, version |-> r.version,
           gaps |-> {j \in r.gaps : (j - 1) \div WindowSize = (i - 1) \div WindowSize}] : i \in r.gaps}

\* After a step of the listener: what it sent back is on its way. `to` is the kind
\* of request answered, which is not on the wire.
Respond == replies' = replies (+) SetToBag(Outgoing(reply'))

Deliver(d) ==
    /\ BagIn(d, requests)
    /\ requests' = requests (-) SetToBag({d})
    /\ \/ d.kind = "begin" /\ \E t \in Tasks : OnPushBegin(t, d.of)
       \/ d.kind = "delta" /\ OnPushDelta(d.of, d.chunk)
       \/ d.kind = "chunk" /\ OnPushChunk(d.of, d.chunk)
       \/ d.kind = "end" /\ \E t \in Tasks : OnPushEnd(t, d.of)
    /\ Respond
    /\ IF d.kind = "end" /\ requests # SetToBag({d}) THEN Mishap("overtaken") ELSE UNCHANGED mishaps
    /\ UNCHANGED console

ThreadDone(t) ==
    /\ ResumeBegin(t) \/ StorePush(t) \/ ResumeEnd(t)
    /\ Respond
    /\ UNCHANGED <<requests, console, mishaps>>

LoseRequest(d) ==
    /\ BagIn(d, requests)
    /\ requests' = requests (-) SetToBag({d})
    /\ Mishap("lost")
    /\ Drop
    /\ UNCHANGED <<replies, console>>

\* The reply to PUSH_END is the receipt of the push.
LoseReply(r) ==
    /\ BagIn(r, replies)
    /\ replies' = replies (-) SetToBag({r})
    /\ Mishap(IF r.to = "end" /\ r.code # "missing" THEN "receipt" ELSE "lost")
    /\ Drop
    /\ UNCHANGED <<requests, console>>

\* The rate limiter drops a datagram and says so.
Throttle(d) ==
    /\ BagIn(d, requests)
    /\ requests' = requests (-) SetToBag({d})
    /\ replies' = replies (+) SetToBag({[to |-> d.kind, code |-> "rate_limited", version |-> 0, gaps |-> {}]})
    /\ Mishap("server")
    /\ Drop
    /\ UNCHANGED console

\* The server forgets a transfer, fails to commit or is restarted.
ServerTrouble ==
    /\ \/ \E k \in Keys : SweepStaging(k) \/ SweepSettled(k)
       \/ \E t \in Tasks : StoreFails(t)
       \/ Restart
    /\ Mishap("server")
    /\ Respond
    /\ UNCHANGED <<requests, console>>

OtherCommits(i) ==
    /\ CommitElsewhere(i)
    /\ UNCHANGED <<requests, replies, console, mishaps>>

Listen == Timeout \/ \E r \in BagToSet(replies) : Hear(r)

Serve ==
    \/ \E d \in BagToSet(requests) : Deliver(d)
    \/ \E t \in Tasks : ThreadDone(t)

TNext ==
    \/ \E a \in Saves : Start(a)
    \/ Listen
    \/ Serve
    \/ \E d \in BagToSet(requests) : LoseRequest(d) \/ Throttle(d)
    \/ \E r \in BagToSet(replies) : LoseReply(r)
    \/ ServerTrouble
    \/ \E i \in OtherImages : OtherCommits(i)

\* The console's thread keeps running, and what is sent is delivered or lost: the
\* event loop handles what has arrived and its threads end.
TransferSpec == TInit /\ [][TNext]_tvars /\ WF_tvars(Listen) /\ WF_tvars(Serve)

----------------------------------------------------------------------------
(* What must hold.                                                         *)

Datagrams == [kind : {"begin", "delta", "chunk", "end"}, of : Attempts, chunk : Nat]

Replies == [to : {"begin", "delta", "chunk", "end"}, code : Codes, version : Nat, gaps : SUBSET Nat]

\* Every variable of the console and of the network has its type; a chunk asked
\* for is one of the card being pushed.
TransferTypeOK ==
    /\ IsABag(requests) /\ BagToSet(requests) \subseteq Datagrams
    /\ IsABag(replies) /\ BagToSet(replies) \subseteq Replies
    /\ pc \in {"idle", "begin", "declare", "end", "gaps"}
    /\ save \in Saves
    /\ {delta, again} \subseteq BOOLEAN
    /\ tries \in 0..MaxRounds
    /\ want \subseteq Chunks
    /\ result \in [code : Codes \cup {"none", "gave_up"}, version : Nat]
    /\ since \in 0..Len(history)
    /\ pushes \in 0..MaxPushes
    /\ mishaps \in [Kinds -> 0..MaxRounds]

Returned == pc = "idle" /\ pushes > 0

\* The saved image was committed for this save after version v.
CommittedAfter(v) ==
    \E w \in DOMAIN history : w > v /\ history[w].source = save.key /\ history[w].image = save.image

\* What ss_push_delta returns is true of a moment during the call, whatever was lost,
\* as long as no timeout fires early. SS_OK names a version that was the newest and
\* holds the saved image, on which the next push and the fingerprint table will
\* build. A conflict names one that was the newest and that the save does not descend
\* from, and unless a receipt was lost or the server got in trouble the call has not
\* committed the save.
ResultHolds ==
    Returned /\ mishaps["late"] = 0 =>
        /\ result.code = "ack" =>
              /\ result.version \in DOMAIN history /\ result.version >= since
              /\ history[result.version].image = save.image
        /\ result.code = "conflict" =>
              /\ result.version \in since..Len(history) \ {save.parent}
              /\ mishaps["receipt"] = 0 /\ mishaps["server"] = 0 => ~ CommittedAfter(since)

\* Fewer datagrams have been lost than a push has rounds, or one PUSH_END has
\* overtaken chunks, and nothing else has gone wrong.
FewMishaps ==
    /\ \A k \in Kinds \ {"lost", "overtaken"} : mishaps[k] = 0
    /\ mishaps["lost"] + mishaps["overtaken"] < MaxRounds
    /\ mishaps["overtaken"] = 0 \/ mishaps["lost"] + mishaps["overtaken"] = 1

\* A push survives few mishaps: a card that the server takes at all ends with a verdict
\* on the saved image, through the fallbacks from a delta that the server cannot seed
\* or assembles into something else. A loss and an overtaking, or two overtakings,
\* already are too many: a chunk sent once more than needed may arrive after the
\* verdict, and the client takes the answer to it for the answer to its PUSH_END.
LossIsRecovered ==
    Returned /\ FewMishaps /\ Len(save.image) \in 1..MaxChunks /\ MaxStaging > 0 =>
        result.code \in {"ack", "conflict", "failed_validation"}

\* No push waits for ever, however many datagrams are lost: the caller is a thread
\* of a game that is running.
PushReturns == pc # "idle" ~> pc = "idle"

\* A console and a network are no more than PushListener's environment allows: its
\* invariants hold of every transfer.
ActsAsListener == Spec

----------------------------------------------------------------------------
(* What the documents say and the code does not keep.                      *)

\* SlotSync.c, of a push that ends with NACK 0x0b although it was committed: a
\* server that replays its reply makes this impossible.
ExpiredMeansUncommitted == Returned /\ result.code = "staging_expired" => ~ CommittedAfter(since)

\* PROTOCOL.md: the version the server assigns comes back in the ACK of PUSH_END.
\* What a push that returns SS_OK reports is such a version.
OkMeansCommitted ==
    Returned /\ result.code = "ack" =>
        /\ result.version \in DOMAIN history
        /\ history[result.version].image = save.image
=============================================================================
