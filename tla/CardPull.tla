------------------------------ MODULE CardPull ------------------------------
(***************************************************************************)
(* A console that asks for the head of a card, or pulls the whole card:    *)
(* ss_head and ss_pull of client.c, PULL_REQ and its burst of replies in   *)
(* both directions, and _on_pull_req of udp.py, while others push.         *)
(*                                                                         *)
(* The launcher keeps one socket for all its cards, so what an earlier     *)
(* call left in the network is read by the next one. The network is a bag: *)
(* it loses and reorders. A handler of the server looks up the version,    *)
(* waits for a thread that reads the blob, then sends at a pace; a blob    *)
(* never changes, so nothing it sends depends on how long that takes, and  *)
(* the whole handler is one step whose replies may be late.                *)
(***************************************************************************)
EXTENDS Integers, Sequences, FiniteSets, Functions, Bags

CONSTANTS
    Games,         \* the cards on the server and on the console
    Images,        \* whole card images, as sequences of chunks
    Stored,        \* the histories the server may have to begin with
    OutCap,        \* out_cap of ss_pull, in chunks
    PullWindow,    \* pull_window of ss_client
    Span,          \* chunks that one request bitmap can express
    MaxRounds,     \* max_rounds of ss_client
    MaxVersion,    \* bound: nobody commits on top of this many versions
    MaxCalls,      \* bound: calls of ss_head and ss_pull
    MaxMishaps     \* bound: late timeouts, leftovers and throttled datagrams

ASSUME PullAssumption ==
    /\ \A i \in Images : i \in Seq(Range(i)) /\ i # <<>>
    /\ Stored \subseteq [Games -> Seq(Images)]
    /\ {OutCap, MaxVersion, MaxCalls, MaxMishaps} \subseteq Nat
    /\ {PullWindow, Span, MaxRounds} \subseteq Nat \ {0}
    /\ PullWindow <= Span

VARIABLES
    history,   \* per card, its versions, the first one first
    requests,  \* PULL_REQs on their way to the server
    replies,   \* datagrams on their way to the console, or in its socket
    pc,        \* "idle", or what is running: "head", "pull"
    game,      \* the card it is for
    known,     \* version and size of the card, once a reply has told
    got,       \* the chunks received: `out`, with `bitmap` as its domain
    asked,     \* the chunks of the last request
    previous,  \* previous_missing
    rounds,    \* of this pull; while the head is asked for, emissions
    stalled,   \* rounds in a row that achieved nothing
    result,    \* what the last call returned
    since,     \* the version of the card when the call was made
    calls,     \* calls so far
    mishaps    \* per kind, how often it has happened, up to MaxRounds

\* A datagram lost; a timeout while something is still on its way; a call made while
\* something from an earlier one is; a datagram refused by the rate limiter.
Kinds == {"lost", "late", "leftover", "throttled"}

call == <<pc, game, known, got, asked, previous, rounds, stalled, result, since, calls>>
vars == <<history, requests, replies, call, mishaps>>

Unknown == [version |-> 0, size |-> 0]

NoResult == [of |-> "none", code |-> "none", version |-> 0, image |-> <<>>]

\* The first number of missing chunks that is compared with the one before.
Many == MaxRounds + OutCap + 1

Init ==
    /\ history \in Stored
    /\ requests = EmptyBag
    /\ replies = EmptyBag
    /\ pc = "idle"
    /\ game \in Games
    /\ known = Unknown
    /\ got = <<>>
    /\ asked = {}
    /\ previous = Many
    /\ rounds = 0
    /\ stalled = 0
    /\ result = NoResult
    /\ since = 0
    /\ calls = 0
    /\ mishaps = [k \in Kinds |-> 0]

Mishap(kind) ==
    /\ kind # "lost" => mishaps["late"] + mishaps["leftover"] + mishaps["throttled"] < MaxMishaps
    /\ mishaps' = [mishaps EXCEPT ![kind] = IF @ < MaxRounds THEN @ + 1 ELSE @]

Busy == requests # EmptyBag \/ replies # EmptyBag

----------------------------------------------------------------------------
(* The console.                                                            *)

\* PULL_REQ: version 0 means the head, and an empty bitmap asks for no chunk.
Ask(g, version, chunks) ==
    requests' = requests (+) SetToBag({[game |-> g, version |-> version, wanted |-> chunks]})

Return(code, version, image) ==
    /\ pc' = "idle"
    /\ result' = [of |-> pc, code |-> code, version |-> version, image |-> image]

Call(what, g) ==
    /\ pc = "idle"
    /\ calls < MaxCalls
    /\ calls' = calls + 1
    /\ pc' = what
    /\ game' = g
    /\ known' = Unknown
    /\ got' = <<>>
    /\ asked' = IF what = "pull" THEN 1..PullWindow ELSE {}
    /\ previous' = Many
    /\ rounds' = IF what = "pull" THEN 0 ELSE 1
    /\ stalled' = 0
    /\ since' = Len(history[g])
    /\ Ask(g, 0, asked')
    /\ \/ ~ Busy /\ UNCHANGED mishaps
       \/ Busy /\ Mishap("leftover")
    /\ UNCHANGED <<history, replies, result>>

\* Four passes over the card, and the allowance for rounds that achieve nothing.
Budget(size) == (size \div PullWindow + 1) * 4 + MaxRounds

\* Mutant: the bitmap is taken for as long as it needs to be.
AnySpan(missing) == {i \in missing : Cardinality({j \in missing : j < i}) < PullWindow}

\* The first missing chunks, as many as a window holds and a bitmap can express.
NextWindow(missing) ==
    {i \in missing : /\ Cardinality({j \in missing : j < i}) < PullWindow
                     /\ \A j \in missing : i - j < Span}

\* Mutant: rounds are counted, not rounds that achieve nothing.
AlwaysStalled(k, missing) == stalled + 1

\* Mutant: a server that is silent from the start is asked for ever.
NeverStalled(k, missing) ==
    IF k = Unknown \/ Cardinality(missing) < previous THEN 0 ELSE stalled + 1

\* The rounds in a row that achieved nothing, this one included.
Stalled(k, missing) ==
    IF k # Unknown /\ Cardinality(missing) < previous THEN 0 ELSE stalled + 1

\* Mutant: every request asks for the head.
HeadAgain(k) == 0

\* The version a request names: the head (0) until the card is known, and the card's
\* own from then on, so that a push landing mid-pull does not switch cards.
Named(k) == k.version

\* A round is over, with k known of the card and `chunks` received.
EndRound(k, chunks) ==
    LET missing == (1..k.size) \ DOMAIN chunks
        spent == k # Unknown /\ rounds + 1 > Budget(k.size) IN
    /\ rounds' = IF k # Unknown THEN rounds + 1 ELSE rounds
    /\ \/ /\ spent
          /\ Return("gave_up", 0, <<>>)
          /\ UNCHANGED <<requests, asked, previous, stalled>>
       \/ /\ ~ spent /\ k # Unknown /\ missing = {}
          /\ Return("ok", k.version, chunks)
          /\ UNCHANGED <<requests, asked, previous, stalled>>
       \/ /\ ~ spent /\ (k = Unknown \/ missing # {})
          /\ Stalled(k, missing) >= MaxRounds
          /\ Return("gave_up", 0, <<>>)
          /\ UNCHANGED <<requests, asked, previous, stalled>>
       \/ /\ ~ spent /\ (k = Unknown \/ missing # {})
          /\ Stalled(k, missing) < MaxRounds
          /\ stalled' = Stalled(k, missing)
          /\ previous' = IF k = Unknown THEN previous ELSE Cardinality(missing)
          /\ asked' = IF k = Unknown THEN asked ELSE NextWindow(missing)
          /\ Ask(game, Named(k), asked')
          /\ UNCHANGED <<pc, result>>

\* One reply to ss_head, or so it believes.
HearHead(r) ==
    /\ pc = "head"
    /\ \/ r.type = "ack" /\ Return("ok", r.version, <<>>)
       \/ r.type = "chunk" /\ Return("protocol", 0, <<>>)
       \/ r.type \notin {"ack", "chunk"} /\ Return(r.type, 0, <<>>)
    /\ UNCHANGED <<requests, known, got, asked, previous, rounds, stalled>>

\* The first ACK or chunk tells which version this pull gets, and its size.
Learnt(r) == IF known = Unknown THEN [version |-> r.version, size |-> r.size] ELSE known

\* A chunk is taken unless it lies past the end of the card or is there already. Its
\* version, and the card it belongs to, are not looked at.
Received(r) ==
    IF r.type = "chunk" /\ r.chunk <= Learnt(r).size /\ r.chunk \notin DOMAIN got
    THEN [i \in DOMAIN got \cup {r.chunk} |-> IF i = r.chunk THEN r.content ELSE got[i]]
    ELSE got

\* One datagram of a burst. With the last chunk of its window the round is over.
HearBurst(r) ==
    /\ pc = "pull"
    /\ \/ /\ r.type \notin {"ack", "chunk"}
          /\ Return(r.type, 0, <<>>)
          /\ UNCHANGED <<requests, known, got, asked, previous, rounds, stalled>>
       \/ /\ r.type \in {"ack", "chunk"}
          /\ Learnt(r).size > OutCap
          /\ Return("too_big", 0, <<>>)
          /\ UNCHANGED <<requests, known, got, asked, previous, rounds, stalled>>
       \/ /\ r.type \in {"ack", "chunk"}
          /\ Learnt(r).size <= OutCap
          /\ known' = Learnt(r)
          /\ got' = Received(r)
          /\ IF asked \cap 1..Learnt(r).size \subseteq DOMAIN Received(r)
             THEN EndRound(Learnt(r), Received(r))
             ELSE UNCHANGED <<requests, pc, asked, previous, rounds, stalled, result>>

Hear(r) ==
    /\ BagIn(r, replies)
    /\ replies' = replies (-) SetToBag({r})
    /\ HearHead(r) \/ HearBurst(r)
    /\ UNCHANGED <<history, game, since, calls, mishaps>>

\* Nothing heard for timeout_ms.
Timeout ==
    /\ \/ /\ pc = "pull"
          /\ EndRound(known, got)
          /\ UNCHANGED <<known, got>>
       \/ /\ pc = "head" /\ rounds < MaxRounds
          /\ rounds' = rounds + 1
          /\ Ask(game, 0, {})
          /\ UNCHANGED <<pc, known, got, asked, previous, stalled, result>>
       \/ /\ pc = "head" /\ rounds = MaxRounds
          /\ Return("gave_up", 0, <<>>)
          /\ UNCHANGED <<requests, known, got, asked, previous, rounds, stalled>>
    /\ \/ ~ Busy /\ UNCHANGED mishaps
       \/ Busy /\ Mishap("late")    \* it fires too early
    /\ UNCHANGED <<history, replies, game, since, calls>>

----------------------------------------------------------------------------
(* The server and the network.                                             *)

Reply(type, d, version, size, i, content) ==
    [type |-> type, game |-> d.game, version |-> version, size |-> size, chunk |-> i,
     content |-> content]

Refusal(d, why) == Reply(why, d, 0, 0, 0, 0)

\* The version asked for, the head if none is named.
Selected(d) == IF d.version = 0 THEN Len(history[d.game]) ELSE d.version

\* The ACK, and the wanted chunks that exist.
Burst(d) ==
    LET v == Selected(d)
        image == history[d.game][v]
        size == Len(image) IN
    {Reply("ack", d, v, size, 0, 0)}
      \cup {Reply("chunk", d, v, size, i, image[i]) : i \in d.wanted \cap 1..size}

\* _on_pull_req.
OnPullReq(d) ==
    IF Selected(d) \in DOMAIN history[d.game] THEN Burst(d) ELSE {Refusal(d, "unknown_card")}

Taken(d) ==
    /\ BagIn(d, requests)
    /\ requests' = requests (-) SetToBag({d})

Deliver(d) ==
    /\ Taken(d)
    /\ replies' = replies (+) SetToBag(OnPullReq(d))
    /\ UNCHANGED <<history, call, mishaps>>

\* The rate limiter drops a datagram and says so.
Throttle(d) ==
    /\ Taken(d)
    /\ replies' = replies (+) SetToBag({Refusal(d, "rate_limited")})
    /\ Mishap("throttled")
    /\ UNCHANGED <<history, call>>

LoseRequest(d) ==
    /\ Taken(d)
    /\ Mishap("lost")
    /\ UNCHANGED <<history, replies, call>>

LoseReply(r) ==
    /\ BagIn(r, replies)
    /\ replies' = replies (-) SetToBag({r})
    /\ Mishap("lost")
    /\ UNCHANGED <<history, requests, call>>

\* Somebody pushes, over either transport, or rolls back.
Commit(g, i) ==
    /\ Len(history[g]) < MaxVersion
    /\ history' = [history EXCEPT ![g] = Append(@, i)]
    /\ UNCHANGED <<requests, replies, call, mishaps>>

Listen == Timeout \/ \E r \in BagToSet(replies) : Hear(r)

Serve == \E d \in BagToSet(requests) : Deliver(d)

Next ==
    \/ \E what \in {"head", "pull"}, g \in Games : Call(what, g)
    \/ Listen
    \/ Serve
    \/ \E d \in BagToSet(requests) : LoseRequest(d) \/ Throttle(d)
    \/ \E r \in BagToSet(replies) : LoseReply(r)
    \/ \E g \in Games, i \in Images : Commit(g, i)

\* The console's thread keeps running, and what is sent is delivered or lost.
Spec == Init /\ [][Next]_vars /\ WF_vars(Listen) /\ WF_vars(Serve)

----------------------------------------------------------------------------
(* What must hold.                                                         *)

Contents == UNION {Range(i) : i \in Images}

Types == {"ack", "chunk", "unknown_card", "rate_limited"}

Request == [game : Games, version : Nat, wanted : SUBSET (1..OutCap + PullWindow)]

\* Every variable has its type: what is received fits the buffer, what is asked for fits
\* the window and one bitmap, and a call whose rounds are over budget has returned.
TypeOK ==
    /\ history \in [Games -> Seq(Images)]
    /\ IsABag(requests) /\ BagToSet(requests) \subseteq Request
    /\ IsABag(replies) /\ \A r \in BagToSet(replies) : r.type \in Types /\ r.game \in Games
    /\ pc \in {"idle", "head", "pull"}
    /\ game \in Games
    /\ known \in [version : Nat, size : 0..OutCap]
    /\ DOMAIN got \subseteq 1..known.size
    /\ Cardinality(asked) <= PullWindow
    /\ \A i, j \in asked : i - j < Span
    /\ previous \in 1..Many
    /\ rounds \in 0..Budget(known.size) + 1
    /\ pc # "idle" => rounds <= Budget(known.size)
    /\ stalled \in 0..MaxRounds - 1
    /\ result.version \in Nat
    /\ since \in 0..Len(history[game])
    /\ calls \in 0..MaxCalls
    /\ mishaps \in [Kinds -> 0..MaxRounds]

Returned == pc = "idle" /\ calls > 0

\* Nothing has been read that answers another request.
InStep == mishaps["late"] = 0 /\ mishaps["leftover"] = 0

\* A head or a pull is an atomic read, whatever is lost and whatever others push
\* meanwhile, as long as no timeout fires early: it tells a version that was the head
\* at some moment of the call, and the image pulled is that version's, every chunk of
\* it. A card is unknown only if nobody had pushed it when the call was made.
ReadsOneVersion ==
    Returned /\ InStep =>
        /\ result.code = "ok" => /\ result.version \in since..Len(history[game])
                                 /\ result.version \in DOMAIN history[game]
        /\ result.code = "ok" /\ result.of = "pull" => result.image = history[game][result.version]
        /\ result.code = "unknown_card" => since = 0

\* A call survives fewer losses than it has rounds, however many windows the card has.
LossIsRecovered ==
    /\ Returned /\ InStep
    /\ mishaps["throttled"] = 0
    /\ mishaps["lost"] < MaxRounds
    => result.code \in {"ok", "unknown_card", "too_big"}

\* No call waits for ever, however many datagrams are lost.
CallReturns == pc # "idle" ~> pc = "idle"

----------------------------------------------------------------------------
(* The inductive invariant behind ReadsOneVersion.                         *)

\* What the argument needs of the types.
Typed ==
    /\ history \in [Games -> Seq(Images)]
    /\ pc \in {"idle", "head", "pull"}
    /\ game \in Games
    /\ since \in 0..Len(history[game])
    /\ mishaps \in [Kinds -> Nat]
    /\ got = [i \in DOMAIN got |-> got[i]]

Waiting == InStep /\ pc # "idle"

\* What is known and what is received are those of one version.
KnownHolds ==
    Waiting =>
        /\ pc = "head" => known = Unknown
        /\ known = Unknown => got = <<>>
        /\ known # Unknown =>
              /\ known.version \in DOMAIN history[game]
              /\ known.version >= since
              /\ known.size = Len(history[game][known.version])
              /\ DOMAIN got \subseteq 1..known.size
              /\ \A i \in DOMAIN got : got[i] = history[game][known.version][i]

\* A reply tells the truth about the version it names, and about no other than the one
\* that is being pulled.
TrueReply(r) ==
    /\ r.type \in Types
    /\ r.type \in {"ack", "chunk"} =>
          /\ r.version \in DOMAIN history[game]
          /\ r.version >= since
          /\ r.size = Len(history[game][r.version])
          /\ known # Unknown => r.version = known.version
    /\ r.type = "chunk" => r.chunk \in 1..r.size /\ r.content = history[game][r.version][r.chunk]
    /\ r.type = "unknown_card" => since = 0

\* While the card is unknown there is one request, or the replies to one.
OneAtATime ==
    \/ requests = EmptyBag /\ \A r, q \in DOMAIN replies : r.version = q.version
    \/ replies = EmptyBag /\ \E d \in DOMAIN requests : requests = SetToBag({d})

InFlight ==
    Waiting =>
        /\ \A d \in DOMAIN requests : d.game = game /\ d.version = known.version
        /\ \A r \in DOMAIN replies : TrueReply(r)
        /\ known = Unknown => OneAtATime

IInv == Typed /\ KnownHolds /\ InFlight /\ ReadsOneVersion

----------------------------------------------------------------------------
(* What a comment says and the code does not keep.                         *)

\* client.c: "a push landing mid-pull cannot switch us to a different card", and a chunk
\* that lands is "both genuine and correctly placed". What a pull returns is a version.
PulledIsAVersion ==
    Returned /\ result.of = "pull" /\ result.code = "ok" =>
        \E g \in Games : result.image \in Range(history[g])
=============================================================================
