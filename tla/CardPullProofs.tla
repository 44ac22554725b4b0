--------------------------- MODULE CardPullProofs ---------------------------
(***************************************************************************)
(* Proofs about CardPull: a head or a pull is an atomic read, for every    *)
(* set of cards and histories, every window, number of rounds and calls.   *)
(***************************************************************************)
EXTENDS CardPull, FiniteSetTheorems, SequenceTheorems, WellFoundedInduction, TLAPS

----------------------------------------------------------------------------
(* A network is a bag of datagrams; mostly its members matter, and not how many copies of each. *)

\* Sending adds the datagrams sent and no other.
LEMMA MembersAdded ==
    ASSUME NEW A, NEW B
    PROVE  DOMAIN (A (+) B) = DOMAIN A \cup DOMAIN B
BY DEF (+)

\* Taking copies away adds no member.
LEMMA MembersTaken ==
    ASSUME NEW A, NEW B
    PROVE  DOMAIN (A (-) B) \subseteq DOMAIN A
BY DEF (-)

\* A set read as a bag has its members.
LEMMA MembersOfSet ==
    ASSUME NEW S
    PROVE  DOMAIN SetToBag(S) = S
BY DEF SetToBag

\* Nothing is in an empty network.
LEMMA NothingInEmpty == DOMAIN EmptyBag = {}
BY MembersOfSet DEF EmptyBag

\* What is sent into an empty network is all there is in it.
LEMMA FirstSent ==
    ASSUME NEW S
    PROVE  EmptyBag (+) SetToBag(S) = SetToBag(S)
<1>1. DOMAIN EmptyBag = {} /\ DOMAIN SetToBag(S) = S
  BY MembersOfSet, NothingInEmpty
<1>2. EmptyBag (+) SetToBag(S) = [e \in S |-> 0 + 1]
  BY <1>1 DEF (+), SetToBag
<1> QED
  BY <1>2 DEF SetToBag

\* The only datagram there is, once taken, leaves an empty network.
LEMMA LastTaken ==
    ASSUME NEW d
    PROVE  SetToBag({d}) (-) SetToBag({d}) = EmptyBag
<1> DEFINE B == SetToBag({d})
<1>1. DOMAIN B = {d} /\ B[d] = 1
  BY MembersOfSet DEF SetToBag
<1>2. DOMAIN (B (-) B) = {}
  BY <1>1 DEF (-)
<1>3. B (-) B = [e \in {} |-> 1]
  BY <1>2 DEF (-)
<1> QED
  BY <1>3 DEF EmptyBag, SetToBag

\* Sending, taking and a set that is sent keep a network a bag.
LEMMA AddedIsABag ==
    ASSUME NEW A, NEW B, IsABag(A), IsABag(B)
    PROVE  IsABag(A (+) B)
<1>1. \A e \in DOMAIN A \cup DOMAIN B :
         (IF e \in DOMAIN A THEN A[e] ELSE 0) + (IF e \in DOMAIN B THEN B[e] ELSE 0)
           \in {n \in Nat : n > 0}
  BY DEF IsABag
<1> QED
  BY <1>1 DEF (+), IsABag

\* See AddedIsABag.
LEMMA TakenIsABag ==
    ASSUME NEW A, NEW B, IsABag(A), IsABag(B)
    PROVE  IsABag(A (-) B)
<1> DEFINE C == [e \in DOMAIN A |-> IF e \in DOMAIN B THEN A[e] - B[e] ELSE A[e]]
           D == {d \in DOMAIN C : C[d] > 0}
<1>1. \A e \in D : C[e] \in {n \in Nat : n > 0}
  BY DEF IsABag
<1>2. A (-) B = [e \in D |-> C[e]]
  BY DEF (-)
<1> HIDE DEF C, D
<1> QED
  BY <1>1, <1>2 DEF IsABag

\* See AddedIsABag.
LEMMA SetIsABag ==
    ASSUME NEW S
    PROVE  IsABag(SetToBag(S)) /\ IsABag(EmptyBag)
BY DEF SetToBag, EmptyBag, IsABag

----------------------------------------------------------------------------
(* Windows.                                                                *)

\* A set of chunk numbers has a first one.
LEMMA FirstOf ==
    ASSUME NEW S \in SUBSET Nat, S # {}
    PROVE  \E i \in S : \A j \in S : i <= j
<1>1. PICK i \in S : \A j \in S : ~ (<<j, i>> \in OpToRel(<, Nat))
  BY NatLessThanWellFounded, WFMin, IsWellFoundedOnSubset
<1>2. \A j \in S : ~ (j < i)
  BY <1>1 DEF OpToRel
<1>3. \A j \in S : j \in Nat
  OBVIOUS
<1> QED
  BY <1>2, <1>3

\* What is left to ask for of a card that fits is a number from 1 to the room there is.
LEMMA SomeMissing ==
    ASSUME NEW n \in Nat, NEW missing \in SUBSET (1..n)
    PROVE  /\ IsFiniteSet(missing)
           /\ Cardinality(missing) \in 0..n
           /\ missing # {} => Cardinality(missing) \in 1..n
<1>1. IsFiniteSet(1..n) /\ Cardinality(1..n) = n
  BY FS_Interval
<1>2. IsFiniteSet(missing) /\ Cardinality(missing) <= n
  BY <1>1, FS_Subset
<1>3. Cardinality(missing) \in Nat
  BY <1>2, FS_CardinalityType
<1>4. missing # {} => Cardinality(missing) # 0
  BY <1>2, FS_EmptySet
<1> QED
  BY <1>2, <1>3, <1>4

\* The next window holds missing chunks, some if there are any, as many as it has room
\* for at most, and no two that are too far apart for one bitmap.
LEMMA NextWindowFits ==
    ASSUME NEW n \in Nat, NEW missing \in SUBSET (1..n)
    PROVE  /\ NextWindow(missing) \subseteq missing
           /\ missing # {} => NextWindow(missing) # {}
           /\ Cardinality(NextWindow(missing)) <= PullWindow
           /\ \A i, j \in NextWindow(missing) : i - j < Span
<1> DEFINE W == NextWindow(missing)
           Before(i) == {j \in missing : j < i}
           rank == [i \in W |-> Cardinality(Before(i))]
<1>0. PullWindow \in Nat \ {0} /\ Span \in Nat \ {0} /\ \A j \in missing : j \in Nat
  BY PullAssumption
<1>1. W \subseteq missing /\ \A i, j \in W : i - j < Span
  BY DEF NextWindow
<1>2. \A i \in W : IsFiniteSet(Before(i)) /\ Cardinality(Before(i)) \in Nat
  <2> SUFFICES ASSUME NEW i \in W PROVE IsFiniteSet(Before(i)) /\ Cardinality(Before(i)) \in Nat
    OBVIOUS
  <2>1. Before(i) \in SUBSET (1..n)
    BY <1>1
  <2> QED
    BY <2>1, SomeMissing
<1>3. rank \in [W -> 0..PullWindow - 1]
  <2>1. \A i \in W : Cardinality(Before(i)) < PullWindow
    BY DEF NextWindow
  <2> QED
    BY <1>0, <1>2, <2>1
<1>4. ASSUME NEW i \in W, NEW j \in W, i < j PROVE rank[i] # rank[j]
  <2>0. i \in missing /\ j \in missing /\ i \in Nat /\ j \in Nat
    BY <1>0, <1>1
  <2>1. /\ \A l \in missing : l < i => l < j
        /\ i < j /\ ~ (i < i)
    BY <1>0, <1>4, <2>0
  <2>a. Before(i) \in SUBSET Before(j) /\ i \in Before(j) /\ i \notin Before(i)
    BY <2>0, <2>1
  <2>2. Cardinality(Before(i)) # Cardinality(Before(j))
    BY <1>2, <2>a, FS_Subset
  <2> QED
    BY <2>2
<1>5. rank \in Injection(W, 0..PullWindow - 1)
  <2>0. \A i \in W : i \in Nat
    BY <1>0, <1>1
  <2>1. \A i, j \in W : i < j \/ j < i \/ i = j
    BY <2>0
  <2>2. \A i, j \in W : rank[i] = rank[j] => i = j
    BY <1>4, <2>1
  <2> QED
    BY <1>3, <2>2 DEF Injection, IsInjective
<1>6. Cardinality(W) <= PullWindow
  <2>1. IsFiniteSet(0..PullWindow - 1) /\ Cardinality(0..PullWindow - 1) = PullWindow
    BY <1>0, FS_Interval
  <2> QED
    BY <1>5, <2>1, FS_Injection
<1>7. ASSUME missing # {} PROVE W # {}
  <2>1. PICK m \in missing : \A j \in missing : m <= j
    BY <1>7, FirstOf
  <2>a. \A j \in missing : ~ (j < m)
    BY <1>0, <2>1
  <2>2. Before(m) = {}
    BY <2>a
  <2>3. Cardinality(Before(m)) = 0
    BY <2>2, FS_EmptySet
  <2>4. \A j \in missing : m - j < Span
    BY <1>0, <2>1
  <2>5. m \in W
    BY <1>0, <2>3, <2>4 DEF NextWindow
  <2> QED
    BY <2>5
<1> QED
  BY <1>1, <1>6, <1>7

\* It reaches as far as a window does past the chunks that are there up to some point.
LEMMA NextWindowReaches ==
    ASSUME NEW n \in Nat, NEW missing \in SUBSET (1..n), NEW m \in Int,
           \A i \in missing : i > m,
           NEW i \in missing, i <= m + PullWindow
    PROVE  i \in NextWindow(missing)
<1> DEFINE Before == {j \in missing : j < i}
<1>0. PullWindow \in Nat \ {0} /\ Span \in Nat \ {0} /\ PullWindow <= Span
  BY PullAssumption
<1>a. \A j \in missing : j \in Int
  OBVIOUS
<1>1. \A j \in missing : i - j < Span
  BY <1>0
<1>2. Before \in SUBSET (m + 1..i - 1)
  <2>1. \A j \in missing : j < i => j \in m + 1..i - 1
    BY <1>a
  <2> QED
    BY <2>1
<1>3. IsFiniteSet(m + 1..i - 1) /\ Cardinality(m + 1..i - 1) <= PullWindow - 1
  <2>1. i > m /\ i \in Int /\ m + 1 \in Int /\ i - 1 \in Int
    BY <1>a
  <2>2. /\ IsFiniteSet(m + 1..i - 1)
        /\ Cardinality(m + 1..i - 1) = IF m + 1 > i - 1 THEN 0 ELSE (i - 1) - (m + 1) + 1
    BY <2>1, FS_Interval
  <2> QED
    BY <1>0, <2>1, <2>2
<1>4. Cardinality(Before) < PullWindow
  <2>1. IsFiniteSet(Before) /\ Cardinality(Before) <= Cardinality(m + 1..i - 1)
    BY <1>2, <1>3, FS_Subset
  <2>2. Cardinality(Before) \in Nat /\ Cardinality(m + 1..i - 1) \in Nat
    BY <1>3, <2>1, FS_CardinalityType
  <2> QED
    BY <1>0, <1>3, <2>1, <2>2
<1> QED
  BY <1>1, <1>4 DEF NextWindow

----------------------------------------------------------------------------
(* Types.                                                                  *)

\* A reply that tells of a version tells a number, a size and a chunk.
Told(r) ==
    /\ r.type \in {"ack", "chunk"} => r.version \in Nat /\ r.size \in Nat
    /\ r.type = "chunk" => r.chunk \in Nat \ {0}

\* What is sent and not yet read.
RequestTypes == IsABag(requests) /\ DOMAIN requests \subseteq Request

\* See RequestTypes.
ReplyTypes ==
    /\ IsABag(replies)
    /\ \A r \in DOMAIN replies : r.type \in Types /\ r.game \in Games /\ Told(r)

\* The variables of the console, but for what it compares with the histories.
CallTypes ==
    /\ pc \in {"idle", "head", "pull"}
    /\ game \in Games
    /\ known \in [version : Nat, size : 0..OutCap]
    /\ DOMAIN got \subseteq 1..known.size
    /\ Cardinality(asked) <= PullWindow
    /\ asked \subseteq 1..OutCap + PullWindow
    /\ \A i, j \in asked : i - j < Span
    /\ previous \in 1..Many
    /\ rounds \in 0..Budget(known.size) + 1
    /\ pc # "idle" => rounds <= Budget(known.size)
    /\ pc = "pull" /\ known = Unknown => rounds = 0
    /\ pc = "head" => known = Unknown /\ rounds \in 1..MaxRounds /\ asked = {}
    /\ stalled \in 0..MaxRounds - 1
    /\ result.version \in Nat
    /\ calls \in 0..MaxCalls

HistoryTypes == history \in [Games -> Seq(Images)] /\ since \in 0..Len(history[game])

\* TypeOK, with what the types of the next state rest on.
AllTypes ==
    /\ HistoryTypes
    /\ RequestTypes
    /\ ReplyTypes
    /\ CallTypes
    /\ mishaps \in [Kinds -> 0..MaxRounds]

\* The numbers that bound a call.
LEMMA BoundTypes ==
    /\ {OutCap, MaxVersion, MaxCalls, MaxMishaps} \subseteq Nat
    /\ {PullWindow, Span, MaxRounds} \subseteq Nat \ {0}
    /\ Many \in Nat \ {0} /\ Many > OutCap
    /\ \A n \in 0..OutCap : Budget(n) \in Nat /\ Budget(n) >= MaxRounds + 4
<1>1. /\ {OutCap, MaxVersion, MaxCalls, MaxMishaps} \subseteq Nat
      /\ {PullWindow, Span, MaxRounds} \subseteq Nat \ {0}
  BY PullAssumption
<1>2. Many \in Nat \ {0} /\ Many > OutCap
  BY <1>1 DEF Many
<1>3. \A n \in 0..OutCap : n \div PullWindow \in Nat
  BY <1>1
<1>4. \A n \in 0..OutCap : Budget(n) \in Nat /\ Budget(n) >= MaxRounds + 4
  BY <1>1, <1>3 DEF Budget
<1> QED
  BY <1>1, <1>2, <1>4

\* What has gone wrong is counted up to MaxRounds.
LEMMA MishapTypes ==
    ASSUME mishaps \in [Kinds -> 0..MaxRounds], NEW kind \in Kinds, Mishap(kind)
    PROVE  mishaps' \in [Kinds -> 0..MaxRounds]
<1>1. mishaps' = [mishaps EXCEPT ![kind] = IF @ < MaxRounds THEN @ + 1 ELSE @]
  BY DEF Mishap
<1>2. (IF mishaps[kind] < MaxRounds THEN mishaps[kind] + 1 ELSE mishaps[kind]) \in 0..MaxRounds
  BY BoundTypes
<1> QED
  BY <1>1, <1>2

\* Asking keeps the network of requests typed.
LEMMA AskTypes ==
    ASSUME RequestTypes, NEW g \in Games, NEW v \in Nat,
           NEW chunks \in SUBSET (1..OutCap + PullWindow), Ask(g, v, chunks)
    PROVE  RequestTypes'
<1> DEFINE d == [game |-> g, version |-> v, wanted |-> chunks]
<1>1. d \in Request
  BY DEF Request
<1>2. DOMAIN requests' = DOMAIN requests \cup {d}
  BY MembersAdded, MembersOfSet DEF Ask
<1>3. IsABag(requests')
  BY AddedIsABag, SetIsABag DEF Ask, RequestTypes
<1> QED
  BY <1>1, <1>2, <1>3 DEF RequestTypes

\* Taking a request, or a reply, keeps the rest typed.
LEMMA TakenTypes ==
    ASSUME NEW d
    PROVE  /\ RequestTypes /\ requests' = requests (-) SetToBag({d}) => RequestTypes'
           /\ ReplyTypes /\ replies' = replies (-) SetToBag({d}) => ReplyTypes'
<1>1. ASSUME RequestTypes, requests' = requests (-) SetToBag({d}) PROVE RequestTypes'
  BY <1>1, TakenIsABag, SetIsABag, MembersTaken DEF RequestTypes
<1>2. ASSUME ReplyTypes, replies' = replies (-) SetToBag({d}) PROVE ReplyTypes'
  <2>1. IsABag(replies') /\ DOMAIN replies' \subseteq DOMAIN replies
    BY <1>2, TakenIsABag, SetIsABag, MembersTaken DEF ReplyTypes
  <2> QED
    BY <1>2, <2>1 DEF ReplyTypes, Told
<1> QED
  BY <1>1, <1>2

\* Answering keeps the replies typed, if the answers are.
LEMMA AnswerTypes ==
    ASSUME ReplyTypes, NEW S, replies' = replies (+) SetToBag(S),
           \A r \in S : r.type \in Types /\ r.game \in Games /\ Told(r)
    PROVE  ReplyTypes'
<1>1. IsABag(replies') /\ DOMAIN replies' = DOMAIN replies \cup S
  BY AddedIsABag, SetIsABag, MembersAdded, MembersOfSet DEF ReplyTypes
<1> QED
  BY <1>1 DEF ReplyTypes, Told

\* A call that returns what is typed stays typed.
LEMMA ReturnTypes ==
    ASSUME CallTypes, NEW code, NEW v \in Nat, NEW image, Return(code, v, image),
           UNCHANGED <<game, known, got, asked, previous, rounds, stalled, calls>>
    PROVE  CallTypes'
<1>1. pc' = "idle" /\ result'.version = v
  BY DEF Return
<1> QED
  BY <1>1 DEF CallTypes

\* The end of a round keeps to the window, to the bitmap and to the budget.
LEMMA EndRoundTypes ==
    ASSUME CallTypes, RequestTypes, pc = "pull",
           NEW k \in [version : Nat, size : 0..OutCap], NEW chunks,
           DOMAIN chunks \subseteq 1..k.size, k = known \/ known = Unknown,
           EndRound(k, chunks), known' = k, got' = chunks, UNCHANGED <<game, calls>>
    PROVE  CallTypes' /\ RequestTypes'
<1> DEFINE missing == (1..k.size) \ DOMAIN chunks
<1>1. k.size \in 0..OutCap /\ k.size \in Nat /\ k.version \in Nat
  OBVIOUS
<1>2. Budget(k.size) \in Nat /\ Budget(k.size) >= MaxRounds + 4 /\ MaxRounds \in Nat \ {0}
  BY <1>1, BoundTypes
<1>3. rounds \in Nat /\ rounds <= Budget(k.size)
  <2>1. rounds \in Int /\ rounds >= 0 /\ rounds <= Budget(known.size)
    BY DEF CallTypes
  <2>2. known = Unknown => rounds = 0
    BY DEF CallTypes
  <2> QED
    BY <1>2, <2>1, <2>2
<1>4. /\ rounds' = IF k # Unknown THEN rounds + 1 ELSE rounds
      /\ rounds' \in 0..Budget(k.size) + 1
      /\ ~ (k # Unknown /\ rounds + 1 > Budget(k.size)) => rounds' <= Budget(k.size)
      /\ k = Unknown => rounds' = 0
  <2>1. rounds' = IF k # Unknown THEN rounds + 1 ELSE rounds
    BY DEF EndRound
  <2>2. k = Unknown => rounds = 0
    BY DEF CallTypes
  <2> QED
    BY <1>2, <1>3, <2>1, <2>2
<1>5. CASE /\ UNCHANGED <<requests, asked, previous, stalled>>
           /\ \/ Return("gave_up", 0, <<>>)
              \/ Return("ok", k.version, chunks)
  <2>1. pc' = "idle" /\ result'.version \in Nat
    BY <1>1, <1>5 DEF Return
  <2>2. RequestTypes'
    BY <1>5 DEF RequestTypes
  <2> QED
    BY <1>4, <1>5, <2>1, <2>2 DEF CallTypes
<1>6. CASE /\ ~ (k # Unknown /\ rounds + 1 > Budget(k.size))
           /\ k = Unknown \/ missing # {}
           /\ Stalled(k, missing) < MaxRounds
           /\ stalled' = Stalled(k, missing)
           /\ previous' = IF k = Unknown THEN previous ELSE Cardinality(missing)
           /\ asked' = IF k = Unknown THEN asked ELSE NextWindow(missing)
           /\ Ask(game, Named(k), asked')
           /\ UNCHANGED <<pc, result>>
  <2>1. /\ NextWindow(missing) \subseteq missing
        /\ Cardinality(NextWindow(missing)) <= PullWindow
        /\ \A i, j \in NextWindow(missing) : i - j < Span
    <3>1. missing \in SUBSET (1..k.size)
      OBVIOUS
    <3> HIDE DEF missing
    <3> QED
      BY <1>1, <3>1, NextWindowFits
  <2>2. k # Unknown => Cardinality(missing) \in 1..k.size
    BY <1>1, <1>6, SomeMissing
  <2>3. missing \subseteq 1..OutCap + PullWindow
    BY <1>1, BoundTypes
  <2>4. /\ asked' \subseteq 1..OutCap + PullWindow
        /\ Cardinality(asked') <= PullWindow
        /\ \A i, j \in asked' : i - j < Span
    BY <1>6, <2>1, <2>3 DEF CallTypes
  <2>5. previous' \in 1..Many
    BY <1>1, <1>6, <2>2, BoundTypes DEF CallTypes
  <2>6. stalled' \in 0..MaxRounds - 1
    <3>1. stalled \in Nat /\ stalled' < MaxRounds /\ stalled' \in {0, stalled + 1}
      BY <1>6 DEF Stalled, CallTypes
    <3> QED
      BY <1>2, <3>1
  <2>7. RequestTypes'
    BY <1>1, <1>6, <2>4, AskTypes DEF Named, CallTypes
  <2>8. rounds' <= Budget(k.size)
    BY <1>4, <1>6
  <2> QED
    BY <1>4, <1>6, <2>4, <2>5, <2>6, <2>7, <2>8 DEF CallTypes
<1> QED
  BY <1>5, <1>6 DEF EndRound

\* At the start.
LEMMA InitTypes == Init => AllTypes
<1> SUFFICES ASSUME Init PROVE AllTypes
  OBVIOUS
<1>1. HistoryTypes
  <2>1. history \in [Games -> Seq(Images)]
    BY PullAssumption DEF Init
  <2>2. Len(history[game]) \in Nat
    BY <2>1 DEF Init
  <2> QED
    BY <2>1, <2>2 DEF Init, HistoryTypes
<1>2. RequestTypes /\ ReplyTypes
  BY SetIsABag, NothingInEmpty DEF Init, RequestTypes, ReplyTypes
<1>3. known.size = 0 /\ known \in [version : Nat, size : 0..OutCap] /\ DOMAIN got = {}
  BY BoundTypes DEF Init, Unknown
<1>4. CallTypes
  <2>1. Cardinality(asked) = 0
    BY FS_EmptySet DEF Init
  <2>2. Budget(known.size) \in Nat
    BY <1>3, BoundTypes
  <2>3. Many \in Nat \ {0} /\ MaxRounds \in Nat \ {0} /\ PullWindow \in Nat /\ MaxCalls \in Nat
    BY BoundTypes
  <2>4. result.version \in Nat
    BY DEF Init, NoResult
  <2> QED
    BY <1>3, <2>1, <2>2, <2>3, <2>4 DEF Init, CallTypes
<1>5. mishaps \in [Kinds -> 0..MaxRounds]
  BY BoundTypes DEF Init
<1> QED
  BY <1>1, <1>2, <1>4, <1>5 DEF AllTypes

\* A call asks for the first window, which one bitmap can express.
LEMMA CallKeepsTypes ==
    ASSUME AllTypes, NEW what \in {"head", "pull"}, NEW g \in Games, Call(what, g)
    PROVE  AllTypes'
<1>0. /\ {PullWindow, Span, MaxRounds} \subseteq Nat \ {0} /\ PullWindow <= Span
      /\ OutCap \in Nat /\ MaxCalls \in Nat /\ Many \in Nat \ {0}
  BY BoundTypes, PullAssumption
<1>1. HistoryTypes'
  <2>1. Len(history[g]) \in Nat
    BY DEF AllTypes, HistoryTypes
  <2> QED
    BY <2>1 DEF Call, AllTypes, HistoryTypes
<1>2. /\ asked' \subseteq 1..OutCap + PullWindow
      /\ Cardinality(asked') <= PullWindow
      /\ \A i, j \in asked' : i - j < Span
  <2>1. CASE what = "pull"
    <3>1. asked' = 1..PullWindow
      BY <2>1 DEF Call
    <3>2. Cardinality(1..PullWindow) = PullWindow
      BY <1>0, FS_Interval
    <3> QED
      BY <1>0, <3>1, <3>2
  <2>2. CASE what = "head"
    <3>1. asked' = {}
      BY <2>2 DEF Call
    <3> QED
      BY <1>0, <3>1, FS_EmptySet
  <2> QED
    BY <2>1, <2>2
<1>3. RequestTypes'
  BY <1>2, AskTypes DEF Call, AllTypes
<1>4. CallTypes'
  <2>1. known' = Unknown /\ known'.size = 0 /\ known' \in [version : Nat, size : 0..OutCap]
    BY <1>0 DEF Call, Unknown
  <2>2. Budget(0) \in Nat /\ Budget(0) >= MaxRounds + 4
    BY <1>0, BoundTypes
  <2>3. calls' \in 0..MaxCalls
    BY <1>0 DEF Call, AllTypes, CallTypes
  <2>4. /\ what = "head" => rounds' = 1 /\ asked' = {}
        /\ what = "pull" => rounds' = 0
        /\ pc' = what /\ game' = g /\ got' = <<>> /\ previous' = Many /\ stalled' = 0
        /\ result'.version \in Nat
    BY DEF Call, AllTypes, CallTypes
  <2>5. rounds' \in 0..Budget(known'.size) + 1 /\ rounds' <= Budget(known'.size)
    BY <1>0, <2>1, <2>2, <2>4
  <2> QED
    BY <1>0, <1>2, <2>1, <2>3, <2>4, <2>5 DEF CallTypes
<1>5. mishaps' \in [Kinds -> 0..MaxRounds]
  BY MishapTypes DEF Call, AllTypes, Kinds
<1>6. ReplyTypes'
  BY DEF Call, AllTypes, ReplyTypes, Told
<1> QED
  BY <1>1, <1>3, <1>4, <1>5, <1>6 DEF AllTypes

\* What is heard is what has been told, and it fits.
LEMMA HearKeepsTypes ==
    ASSUME AllTypes, NEW r, Hear(r)
    PROVE  AllTypes'
<1>0. r \in DOMAIN replies /\ UNCHANGED <<history, game, since, calls, mishaps>>
  BY DEF Hear, BagIn, BagToSet
<1>1. r.type \in Types /\ Told(r)
  BY <1>0 DEF AllTypes, ReplyTypes
<1>2. HistoryTypes' /\ mishaps' \in [Kinds -> 0..MaxRounds]
  BY <1>0 DEF AllTypes, HistoryTypes
<1>3. ReplyTypes'
  BY TakenTypes DEF AllTypes, Hear
<1>4. CASE /\ UNCHANGED <<requests, known, got, asked, previous, rounds, stalled>>
           /\ \/ r.type = "ack" /\ Return("ok", r.version, <<>>)
              \/ \E code : Return(code, 0, <<>>)
  <2>1. CallTypes'
    BY <1>0, <1>1, <1>4, ReturnTypes DEF AllTypes, Told
  <2>2. RequestTypes'
    BY <1>4 DEF AllTypes, RequestTypes
  <2> QED
    BY <1>2, <1>3, <2>1, <2>2 DEF AllTypes
<1>5. CASE /\ pc = "pull"
           /\ r.type \in {"ack", "chunk"}
           /\ Learnt(r).size <= OutCap
           /\ known' = Learnt(r)
           /\ got' = Received(r)
           /\ IF asked \cap 1..Learnt(r).size \subseteq DOMAIN Received(r)
              THEN EndRound(Learnt(r), Received(r))
              ELSE UNCHANGED <<requests, pc, asked, previous, rounds, stalled, result>>
  <2>1. Learnt(r) \in [version : Nat, size : 0..OutCap] /\ (Learnt(r) = known \/ known = Unknown)
    BY <1>1, <1>5 DEF Learnt, Told, AllTypes, CallTypes
  <2>2. DOMAIN got \subseteq 1..Learnt(r).size
    BY <2>1 DEF AllTypes, CallTypes, Unknown
  <2>3. DOMAIN Received(r) \subseteq 1..Learnt(r).size
    <3>1. CASE r.type = "chunk" /\ r.chunk <= Learnt(r).size /\ r.chunk \notin DOMAIN got
      <4>1. DOMAIN Received(r) = DOMAIN got \cup {r.chunk}
        BY <3>1 DEF Received
      <4>2. r.chunk \in 1..Learnt(r).size
        BY <1>1, <2>1, <3>1 DEF Told
      <4> QED
        BY <2>2, <4>1, <4>2
    <3>2. CASE Received(r) = got
      BY <2>2, <3>2
    <3> QED
      BY <3>1, <3>2 DEF Received
  <2>4. CASE EndRound(Learnt(r), Received(r))
    <3>1. CallTypes' /\ RequestTypes'
      BY <1>0, <1>5, <2>1, <2>3, <2>4, EndRoundTypes DEF AllTypes
    <3> QED
      BY <1>2, <1>3, <3>1 DEF AllTypes
  <2>5. CASE UNCHANGED <<requests, pc, asked, previous, rounds, stalled, result>>
    <3>1. /\ rounds \in Nat /\ rounds <= Budget(Learnt(r).size) /\ Budget(Learnt(r).size) \in Nat
          /\ Learnt(r) = Unknown => rounds = 0
      <4>1. Budget(Learnt(r).size) \in Nat /\ Budget(known.size) \in Nat
        BY <2>1, BoundTypes DEF AllTypes, CallTypes
      <4>2. /\ rounds \in Nat /\ rounds <= Budget(known.size)
            /\ known = Unknown => rounds = 0
        BY <1>5, <4>1 DEF AllTypes, CallTypes
      <4> QED
        BY <2>1, <4>1, <4>2
    <3>2. CallTypes'
      BY <1>0, <1>5, <2>1, <2>3, <2>5, <3>1 DEF AllTypes, CallTypes
    <3>3. RequestTypes'
      BY <2>5 DEF AllTypes, RequestTypes
    <3> QED
      BY <1>2, <1>3, <3>2, <3>3 DEF AllTypes
  <2> QED
    BY <1>5, <2>4, <2>5
<1> QED
  BY <1>4, <1>5 DEF Hear, HearHead, HearBurst

\* A timeout ends a round, or asks for the head as often as it may.
LEMMA TimeoutKeepsTypes ==
    ASSUME AllTypes, Timeout
    PROVE  AllTypes'
<1>1. HistoryTypes' /\ ReplyTypes' /\ mishaps' \in [Kinds -> 0..MaxRounds]
  <2>1. mishaps' \in [Kinds -> 0..MaxRounds]
    BY MishapTypes DEF Timeout, AllTypes, Kinds
  <2> QED
    BY <2>1 DEF Timeout, AllTypes, HistoryTypes, ReplyTypes, Told
<1>2. CallTypes' /\ RequestTypes'
  <2>1. CASE pc = "pull" /\ EndRound(known, got) /\ UNCHANGED <<known, got>>
    BY <2>1, EndRoundTypes DEF Timeout, AllTypes, CallTypes
  <2>2. CASE /\ pc = "head" /\ rounds < MaxRounds
             /\ rounds' = rounds + 1
             /\ Ask(game, 0, {})
             /\ UNCHANGED <<pc, known, got, asked, previous, stalled, result>>
    <3>1. RequestTypes'
      BY <2>2, AskTypes DEF AllTypes, CallTypes
    <3>2. known = Unknown /\ known.size = 0 /\ rounds \in 1..MaxRounds
      BY <2>2 DEF AllTypes, CallTypes, Unknown
    <3>3. Budget(0) \in Nat /\ Budget(0) >= MaxRounds + 4 /\ MaxRounds \in Nat
      BY BoundTypes
    <3>4. /\ rounds' \in 1..MaxRounds /\ rounds' \in 0..Budget(known.size) + 1
          /\ rounds' <= Budget(known.size)
      BY <2>2, <3>2, <3>3
    <3> QED
      BY <2>2, <3>1, <3>2, <3>4 DEF AllTypes, CallTypes, Timeout
  <2>3. CASE /\ Return("gave_up", 0, <<>>)
             /\ UNCHANGED <<requests, known, got, asked, previous, rounds, stalled>>
    BY <2>3, ReturnTypes DEF AllTypes, RequestTypes, Timeout
  <2> QED
    BY <2>1, <2>2, <2>3 DEF Timeout
<1> QED
  BY <1>1, <1>2 DEF AllTypes

\* A request leaves the network: answered, refused or lost.
LEMMA ServeKeepsTypes ==
    ASSUME AllTypes, NEW d, Deliver(d) \/ Throttle(d) \/ LoseRequest(d)
    PROVE  AllTypes'
<1>1. d \in DOMAIN requests /\ d \in Request /\ UNCHANGED <<history, call>>
  BY DEF Deliver, Throttle, LoseRequest, Taken, BagIn, BagToSet, AllTypes, RequestTypes
<1>2. RequestTypes'
  BY TakenTypes DEF Deliver, Throttle, LoseRequest, Taken, AllTypes
<1>3. mishaps' \in [Kinds -> 0..MaxRounds]
  BY MishapTypes DEF Deliver, Throttle, LoseRequest, AllTypes, Kinds
<1>4. CallTypes' /\ HistoryTypes'
  BY <1>1 DEF AllTypes, CallTypes, HistoryTypes, call
<1>5. ReplyTypes'
  <2>1. CASE Deliver(d)
    <3>1. ASSUME NEW r \in OnPullReq(d) PROVE r.type \in Types /\ r.game \in Games /\ Told(r)
      <4>1. CASE Selected(d) \in DOMAIN history[d.game] /\ r \in Burst(d)
        <5> DEFINE v == Selected(d)
        <5>1. history[d.game] \in Seq(Images) /\ d.game \in Games
          BY <1>1 DEF AllTypes, HistoryTypes, Request
        <5>2. v \in Nat /\ history[d.game][v] \in Images
          BY <4>1, <5>1
        <5>3. Len(history[d.game][v]) \in Nat
          BY <5>2, PullAssumption
        <5> HIDE DEF v
        <5>4. CASE r = Reply("ack", d, v, Len(history[d.game][v]), 0, 0)
          BY <5>1, <5>2, <5>3, <5>4 DEF Reply, Types, Told
        <5>5. ASSUME NEW i \in d.wanted \cap 1..Len(history[d.game][v]),
                     r = Reply("chunk", d, v, Len(history[d.game][v]), i, history[d.game][v][i])
              PROVE  r.type \in Types /\ r.game \in Games /\ Told(r)
          BY <5>1, <5>2, <5>3, <5>5 DEF Reply, Types, Told
        <5> QED
          BY <4>1, <5>4, <5>5 DEF Burst, v
      <4>2. CASE r = Refusal(d, "unknown_card")
        BY <1>1, <4>2 DEF Refusal, Reply, Types, Told, Request
      <4> QED
        BY <3>1, <4>1, <4>2 DEF OnPullReq
    <3> QED
      BY <2>1, <3>1, AnswerTypes DEF Deliver, AllTypes
  <2>2. CASE Throttle(d)
    <3> DEFINE r == Refusal(d, "rate_limited")
    <3>1. r.type \in Types /\ r.game \in Games /\ Told(r)
      BY <1>1 DEF Refusal, Reply, Types, Told, Request
    <3>2. \A q \in {r} : q.type \in Types /\ q.game \in Games /\ Told(q)
      BY <3>1
    <3>3. replies' = replies (+) SetToBag({r})
      BY <2>2 DEF Throttle
    <3> QED
      BY <3>2, <3>3, AnswerTypes DEF AllTypes
  <2>3. CASE LoseRequest(d)
    BY <2>3 DEF LoseRequest, AllTypes, ReplyTypes, Told
  <2> QED
    BY <2>1, <2>2, <2>3
<1> QED
  BY <1>2, <1>3, <1>4, <1>5 DEF AllTypes

\* A reply lost.
LEMMA LoseReplyKeepsTypes ==
    ASSUME AllTypes, NEW r, LoseReply(r)
    PROVE  AllTypes'
<1>1. ReplyTypes'
  BY TakenTypes DEF LoseReply, AllTypes
<1>2. mishaps' \in [Kinds -> 0..MaxRounds]
  BY MishapTypes DEF LoseReply, AllTypes, Kinds
<1> QED
  BY <1>1, <1>2 DEF LoseReply, AllTypes, CallTypes, HistoryTypes, RequestTypes, call

\* A version committed makes a history longer.
LEMMA CommitKeepsTypes ==
    ASSUME AllTypes, NEW g \in Games, NEW i \in Images, Commit(g, i)
    PROVE  AllTypes'
<1>1. /\ UNCHANGED <<requests, replies, call, mishaps>>
      /\ history \in [Games -> Seq(Images)] /\ game \in Games
      /\ history' = [history EXCEPT ![g] = Append(@, i)]
  BY DEF Commit, AllTypes, HistoryTypes, CallTypes
<1>2. history' \in [Games -> Seq(Images)]
  BY <1>1
<1>3. Len(history[game]) \in Nat /\ Len(history'[game]) \in Nat /\ Len(history'[game]) >= Len(history[game])
  <2>1. history'[game] \in {history[game], Append(history[game], i)} /\ history[game] \in Seq(Images)
    BY <1>1
  <2> QED
    BY <2>1
<1>4. HistoryTypes'
  BY <1>1, <1>2, <1>3 DEF AllTypes, HistoryTypes, call
<1> QED
  BY <1>1, <1>4 DEF AllTypes, CallTypes, RequestTypes, ReplyTypes, Told, call

\* Every step keeps the types.
LEMMA NextKeepsTypes == AllTypes /\ [Next]_vars => AllTypes'
<1> SUFFICES ASSUME AllTypes, [Next]_vars PROVE AllTypes'
  OBVIOUS
<1>1. ASSUME NEW what \in {"head", "pull"}, NEW g \in Games, Call(what, g) PROVE AllTypes'
  BY <1>1, CallKeepsTypes
<1>2. CASE Timeout
  BY <1>2, TimeoutKeepsTypes
<1>3. ASSUME NEW r, Hear(r) \/ LoseReply(r) PROVE AllTypes'
  BY <1>3, HearKeepsTypes, LoseReplyKeepsTypes
<1>4. ASSUME NEW d, Deliver(d) \/ Throttle(d) \/ LoseRequest(d) PROVE AllTypes'
  BY <1>4, ServeKeepsTypes
<1>5. ASSUME NEW g \in Games, NEW i \in Images, Commit(g, i) PROVE AllTypes'
  BY <1>5, CommitKeepsTypes
<1>6. CASE UNCHANGED vars
  BY <1>6 DEF vars, AllTypes, CallTypes, HistoryTypes, RequestTypes, ReplyTypes, Told, call
<1> QED
  BY <1>1, <1>2, <1>3, <1>4, <1>5, <1>6 DEF Next, Listen, Serve

\* What ss_pull receives fits the caller's buffer, what it asks for fits its window and
\* one request bitmap, and no round begins past the budget of client.c.
THEOREM PullTypes == Spec => []TypeOK
<1>1. AllTypes => TypeOK
  BY DEF AllTypes, HistoryTypes, RequestTypes, ReplyTypes, CallTypes, TypeOK, BagToSet
<1>2. Spec => []AllTypes
  BY InitTypes, NextKeepsTypes, PTL DEF Spec
<1> QED
  BY <1>1, <1>2, PTL

----------------------------------------------------------------------------
(* The inductive invariant.                                                *)

\* What the console knows of the card, and has received of it, is one version's.
OneVersion(k, chunks) ==
    /\ chunks = [i \in DOMAIN chunks |-> chunks[i]]
    /\ k = Unknown => chunks = <<>>
    /\ k # Unknown =>
          /\ k.version \in DOMAIN history[game]
          /\ k.version >= since
          /\ k.size = Len(history[game][k.version])
          /\ DOMAIN chunks \subseteq 1..k.size
          /\ \A i \in DOMAIN chunks : chunks[i] = history[game][k.version][i]

----------------------------------------------------------------------------
(* Histories and mishaps.                                                  *)

\* A version is a sequence of chunks, at least one.
LEMMA VersionTypes ==
    ASSUME Typed, NEW g \in Games, NEW v \in DOMAIN history[g]
    PROVE  /\ history[g] \in Seq(Images)
           /\ v \in Nat \ {0} /\ v <= Len(history[g])
           /\ history[g][v] = [i \in 1..Len(history[g][v]) |-> history[g][v][i]]
           /\ Len(history[g][v]) \in Nat \ {0}
<1>1. history[g] \in Seq(Images)
  BY DEF Typed
<1>2. v \in Nat \ {0} /\ v <= Len(history[g]) /\ history[g][v] \in Images
  BY <1>1
<1>3. /\ history[g][v] \in Seq(Range(history[g][v]))
      /\ history[g][v] # <<>>
  BY <1>2, PullAssumption
<1> QED
  BY <1>1, <1>2, <1>3

\* What has gone wrong stays counted.
LEMMA MishapsGrow ==
    ASSUME Typed, NEW kind \in Kinds, Mishap(kind)
    PROVE  /\ mishaps' \in [Kinds -> Nat]
           /\ InStep' => InStep
           /\ kind \in {"late", "leftover"} => ~ InStep'
<1>1. /\ MaxRounds \in Nat \ {0}
      /\ mishaps \in [Kinds -> Nat]
      /\ {"late", "leftover"} \subseteq Kinds
  BY PullAssumption DEF Typed, Kinds
<1>2. mishaps' = [mishaps EXCEPT ![kind] = IF @ < MaxRounds THEN @ + 1 ELSE @]
  BY DEF Mishap
<1>3. mishaps' \in [Kinds -> Nat]
  BY <1>1, <1>2
<1>4. \A k \in Kinds : mishaps'[k] >= mishaps[k] /\ mishaps'[kind] > 0
  BY <1>1, <1>2
<1> QED
  BY <1>1, <1>3, <1>4 DEF InStep

\* A bag with one datagram holds no other.
LEMMA TakenIsTheOne ==
    ASSUME NEW d, Taken(d), \E e \in DOMAIN requests : requests = SetToBag({e})
    PROVE  requests' = EmptyBag
<1>1. PICK e \in DOMAIN requests : requests = SetToBag({e})
  OBVIOUS
<1>2. d = e
  BY <1>1, MembersOfSet DEF Taken, BagIn, BagToSet
<1> QED
  BY <1>1, <1>2, LastTaken DEF Taken

----------------------------------------------------------------------------
(* The end of a round.                                                     *)

\* A call that returns something else than a card it was given returns no lie.
LEMMA NothingReturned ==
    ASSUME NEW code \in {"gave_up", "too_big", "protocol", "rate_limited"},
           Return(code, 0, <<>>)
    PROVE  KnownHolds' /\ InFlight' /\ ReadsOneVersion'
BY DEF Return, KnownHolds, InFlight, ReadsOneVersion, Waiting

\* When a round ends with one version's chunks in hand and nothing on its way that
\* speaks of another, the card returned is that version, and so are the chunks that
\* are asked for next.
LEMMA EndRoundHolds ==
    ASSUME Typed, InStep, pc = "pull", NEW k, NEW chunks, EndRound(k, chunks),
           UNCHANGED <<history, game, since, mishaps>>,
           known' = k, got' = chunks, OneVersion(k, chunks),
           \A d \in DOMAIN requests : d.game = game /\ d.version = k.version,
           \A r \in DOMAIN replies' : TrueReply(r)',
           k = Unknown => requests = EmptyBag /\ replies' = EmptyBag
    PROVE  /\ KnownHolds' /\ InFlight' /\ ReadsOneVersion'
           /\ pc' \in {"idle", "pull"}
<1> DEFINE missing == (1..k.size) \ DOMAIN chunks
<1>1. CASE Return("gave_up", 0, <<>>)
  BY <1>1, NothingReturned DEF Return
<1>2. CASE k # Unknown /\ missing = {} /\ Return("ok", k.version, chunks)
  <2>1. k.version \in since..Len(history[game]) /\ k.version \in DOMAIN history[game]
    BY <1>2, VersionTypes DEF OneVersion, Typed
  <2>2. chunks = history[game][k.version]
    <3>1. DOMAIN chunks = 1..Len(history[game][k.version])
      BY <1>2 DEF OneVersion
    <3>2. history[game][k.version]
            = [i \in 1..Len(history[game][k.version]) |-> history[game][k.version][i]]
      BY <2>1, VersionTypes DEF Typed
    <3>3. chunks = [i \in DOMAIN chunks |-> chunks[i]]
      BY DEF OneVersion
    <3> QED
      BY <1>2, <3>1, <3>2, <3>3 DEF OneVersion
  <2>3. ReadsOneVersion'
    BY <1>2, <2>1, <2>2 DEF Return, ReadsOneVersion
  <2> QED
    BY <1>2, <2>3 DEF Return, KnownHolds, InFlight, Waiting
<1>3. CASE Ask(game, Named(k), asked') /\ UNCHANGED <<pc, result>>
  <2> DEFINE d == [game |-> game, version |-> k.version, wanted |-> asked']
  <2>1. DOMAIN requests' = DOMAIN requests \cup {d}
    BY <1>3, MembersAdded, MembersOfSet DEF Ask, Named
  <2>2. k = Unknown => requests' = SetToBag({d}) /\ d \in DOMAIN requests'
    BY <1>3, <2>1, FirstSent DEF Ask, Named
  <2>3. k = Unknown => OneAtATime'
    BY <2>2 DEF OneAtATime
  <2>4. InFlight'
    BY <2>1, <2>3 DEF InFlight
  <2>5. KnownHolds'
    BY <1>3 DEF KnownHolds, OneVersion
  <2> QED
    BY <1>3, <2>4, <2>5 DEF ReadsOneVersion, Returned
<1> QED
  BY <1>1, <1>2, <1>3 DEF EndRound

----------------------------------------------------------------------------
(* The console's steps.                                                    *)

\* At the start nothing is under way.
LEMMA InitHolds == Init => IInv
<1> SUFFICES ASSUME Init PROVE IInv
  OBVIOUS
<1>1. Typed
  <2>1. history \in [Games -> Seq(Images)]
    BY PullAssumption DEF Init
  <2>2. Len(history[game]) \in Nat
    BY <2>1 DEF Init
  <2>3. got = [i \in DOMAIN got |-> got[i]]
    BY DEF Init
  <2> QED
    BY <2>1, <2>2, <2>3 DEF Init, Typed
<1>2. ~ Waiting /\ ~ Returned
  BY DEF Init, Waiting, Returned
<1> QED
  BY <1>1, <1>2 DEF IInv, KnownHolds, InFlight, ReadsOneVersion

\* A call starts with one request and, unless that is counted, an empty network.
LEMMA CallHolds ==
    ASSUME IInv, NEW what \in {"head", "pull"}, NEW g \in Games, Call(what, g)
    PROVE  IInv'
<1> DEFINE d == [game |-> g, version |-> 0, wanted |-> asked']
<1>1. Typed'
  <2>1. mishaps' \in [Kinds -> Nat]
    BY MishapsGrow DEF Call, IInv, Typed, Kinds
  <2>2. Len(history[g]) \in Nat
    BY DEF IInv, Typed
  <2>3. got' = [i \in DOMAIN got' |-> got'[i]]
    BY DEF Call
  <2> QED
    BY <2>1, <2>2, <2>3 DEF Call, IInv, Typed
<1>2. ReadsOneVersion'
  BY DEF Call, ReadsOneVersion, Returned
<1>3. CASE ~ Busy /\ UNCHANGED mishaps
  <2>1. requests = EmptyBag /\ replies' = EmptyBag
    BY <1>3 DEF Busy, Call
  <2>2. requests' = SetToBag({d}) /\ DOMAIN requests' = {d} /\ DOMAIN replies' = {}
    BY <2>1, FirstSent, MembersOfSet, NothingInEmpty DEF Call, Ask
  <2>3. OneAtATime'
    <3>1. replies' = EmptyBag /\ \E e \in DOMAIN requests' : requests' = SetToBag({e})
      BY <2>1, <2>2
    <3> QED
      BY <3>1 DEF OneAtATime
  <2>4. \A e \in DOMAIN requests' : e.game = game' /\ e.version = known'.version
    BY <2>2 DEF Call, Unknown
  <2> QED
    BY <1>1, <1>2, <2>2, <2>3, <2>4 DEF IInv, KnownHolds, InFlight, Call
<1>4. CASE Mishap("leftover")
  <2>1. ~ InStep'
    BY <1>4, MishapsGrow DEF IInv, Kinds
  <2> QED
    BY <1>1, <1>2, <2>1 DEF IInv, KnownHolds, InFlight, Waiting
<1> QED
  BY <1>3, <1>4 DEF Call

\* The parts of a reply that answers the call that is running.
LEMMA HeardIsTrue ==
    ASSUME IInv, Waiting, NEW r, BagIn(r, replies)
    PROVE  TrueReply(r)
BY DEF IInv, InFlight, BagIn, BagToSet

\* What is typed does not depend on what is heard.
LEMMA StaysTyped ==
    ASSUME IInv, UNCHANGED <<history, game, since>>, mishaps' \in [Kinds -> Nat],
           pc' \in {"idle", "head", "pull"}, got' = [i \in DOMAIN got' |-> got'[i]]
    PROVE  Typed'
BY DEF IInv, Typed

\* What ss_head hears is a version, or ends the call without one.
LEMMA HearHeadHolds ==
    ASSUME IInv, NEW r, Hear(r), HearHead(r)
    PROVE  IInv'
<1>1. Typed'
  <2>1. got' = [i \in DOMAIN got' |-> got'[i]]
    BY DEF IInv, Typed, HearHead
  <2>2. mishaps' \in [Kinds -> Nat] /\ pc' \in {"idle", "head", "pull"}
    BY DEF IInv, Typed, Hear, HearHead, Return
  <2> QED
    BY <2>1, <2>2, StaysTyped DEF Hear
<1>2. ~ Waiting'
  BY DEF HearHead, Return, Waiting
<1>3. ASSUME InStep' PROVE ReadsOneVersion'
  <2>1. Waiting /\ TrueReply(r)
    BY <1>3, HeardIsTrue DEF Hear, HearHead, Waiting, InStep
  <2>2. CASE r.type = "ack" /\ Return("ok", r.version, <<>>)
    <3>1. r.version \in since..Len(history[game]) /\ r.version \in DOMAIN history[game]
      BY <2>1, <2>2, VersionTypes DEF TrueReply, IInv, Typed
    <3> QED
      BY <2>2, <3>1 DEF Return, ReadsOneVersion, Hear, HearHead
  <2>3. CASE r.type = "chunk" /\ Return("protocol", 0, <<>>)
    BY <2>3, NothingReturned
  <2>4. CASE r.type \notin {"ack", "chunk"} /\ Return(r.type, 0, <<>>)
    <3>1. r.type # "ok"
      BY <2>1 DEF TrueReply, Types
    <3> QED
      BY <2>1, <2>4, <3>1 DEF Return, ReadsOneVersion, TrueReply, Hear
  <2> QED
    BY <2>2, <2>3, <2>4 DEF HearHead
<1> QED
  BY <1>1, <1>2, <1>3 DEF IInv, KnownHolds, InFlight, ReadsOneVersion

\* One datagram of a burst heard: what is known and received stays one version's.
LEMMA LearntHolds ==
    ASSUME IInv, Waiting, pc = "pull", NEW r, BagIn(r, replies), r.type \in {"ack", "chunk"}
    PROVE  /\ Learnt(r) # Unknown
           /\ OneVersion(Learnt(r), Received(r))
           /\ known # Unknown => Learnt(r) = known
           /\ Learnt(r).version = r.version
<1>1. TrueReply(r)
  BY HeardIsTrue
<1>2. r.version \in DOMAIN history[game] /\ r.version # 0 /\ r.version \in Nat
  BY <1>1, VersionTypes DEF TrueReply, IInv, Typed
<1>3. Learnt(r) # Unknown
  BY <1>2 DEF Learnt, Unknown
<1>4. /\ Learnt(r).version = r.version
      /\ Learnt(r).size = Len(history[game][r.version])
      /\ known # Unknown => Learnt(r) = known
  BY <1>1 DEF Learnt, TrueReply, IInv, KnownHolds
<1>5. OneVersion(known, got)
  BY DEF OneVersion, IInv, KnownHolds, Typed
<1>6. Received(r) = [i \in DOMAIN Received(r) |-> Received(r)[i]]
  BY <1>5 DEF Received, OneVersion
<1>7. /\ DOMAIN got \subseteq 1..Learnt(r).size
      /\ \A i \in DOMAIN got : got[i] = history[game][r.version][i]
  BY <1>4, <1>5 DEF OneVersion
<1>8. /\ DOMAIN Received(r) \subseteq 1..Learnt(r).size
      /\ \A i \in DOMAIN Received(r) : Received(r)[i] = history[game][r.version][i]
  <2>1. CASE r.type = "chunk" /\ r.chunk <= Learnt(r).size /\ r.chunk \notin DOMAIN got
    <3>1. /\ DOMAIN Received(r) = DOMAIN got \cup {r.chunk}
          /\ \A i \in DOMAIN Received(r) :
                Received(r)[i] = IF i = r.chunk THEN r.content ELSE got[i]
      BY <2>1 DEF Received
    <3>2. r.chunk \in 1..Learnt(r).size /\ r.content = history[game][r.version][r.chunk]
      BY <1>1, <1>4, <2>1 DEF TrueReply
    <3> QED
      BY <1>7, <3>1, <3>2
  <2>2. CASE Received(r) = got
    BY <1>7, <2>2
  <2> QED
    BY <2>1, <2>2 DEF Received
<1> QED
  BY <1>1, <1>2, <1>3, <1>4, <1>6, <1>8 DEF OneVersion, TrueReply

\* What is left in the network after it speaks of the same version.
LEMMA RestIsTrue ==
    ASSUME IInv, Waiting, pc = "pull", NEW r, Hear(r), r.type \in {"ack", "chunk"},
           known' = Learnt(r)
    PROVE  /\ \A q \in DOMAIN replies' : TrueReply(q)'
           /\ \A d \in DOMAIN requests : d.game = game /\ d.version = known'.version
<1>1. BagIn(r, replies) /\ r \in DOMAIN replies /\ UNCHANGED <<history, game, since>>
  BY DEF Hear, BagIn, BagToSet
<1>2. /\ known' # Unknown
      /\ known # Unknown => known' = known
      /\ known'.version = r.version
  BY <1>1, LearntHolds
<1>3. DOMAIN replies' \subseteq DOMAIN replies
  BY MembersTaken DEF Hear
<1>4. known = Unknown => requests = EmptyBag /\ \A q \in DOMAIN replies : q.version = r.version
  <2>1. known = Unknown => replies # EmptyBag /\ OneAtATime
    BY <1>1, NothingInEmpty DEF IInv, InFlight
  <2> QED
    BY <1>1, <2>1 DEF OneAtATime
<1>5. ASSUME NEW q \in DOMAIN replies' PROVE TrueReply(q)'
  <2>1. TrueReply(q)
    BY <1>3, <1>5 DEF IInv, InFlight
  <2>2. q.type \in {"ack", "chunk"} => q.version = known'.version
    BY <1>2, <1>3, <1>4, <1>5, <2>1 DEF TrueReply
  <2> QED
    BY <1>1, <2>1, <2>2 DEF TrueReply
<1>6. \A d \in DOMAIN requests : d.game = game /\ d.version = known'.version
  BY <1>2, <1>4, NothingInEmpty DEF IInv, InFlight
<1> QED
  BY <1>5, <1>6

\* What ss_pull hears keeps to one version, too.
LEMMA HearBurstHolds ==
    ASSUME IInv, NEW r, Hear(r), HearBurst(r)
    PROVE  IInv'
<1>1. UNCHANGED <<history, game, since, calls, mishaps>> /\ BagIn(r, replies) /\ pc = "pull"
  BY DEF Hear, HearBurst
<1>2. CASE /\ \/ r.type \notin {"ack", "chunk"} /\ Return(r.type, 0, <<>>)
              \/ Return("too_big", 0, <<>>)
           /\ UNCHANGED got
  <2>0. pc' = "idle" /\ UNCHANGED got
    BY <1>2 DEF Return
  <2>1. Typed'
    BY <1>1, <2>0, StaysTyped DEF IInv, Typed
  <2>2. ~ Waiting'
    BY <2>0 DEF Waiting
  <2>3. ASSUME InStep', r.type \notin {"ack", "chunk"}, Return(r.type, 0, <<>>)
        PROVE  ReadsOneVersion'
    <3>1. Waiting
      BY <1>1, <2>3 DEF Waiting, InStep
    <3>2. TrueReply(r) /\ r.type # "ok"
      BY <1>1, <3>1, HeardIsTrue DEF TrueReply, Types
    <3> QED
      BY <1>1, <2>3, <3>2 DEF Return, ReadsOneVersion, TrueReply
  <2>4. ASSUME Return("too_big", 0, <<>>) PROVE ReadsOneVersion'
    BY <2>4, NothingReturned
  <2> QED
    BY <1>2, <2>1, <2>2, <2>3, <2>4 DEF IInv, KnownHolds, InFlight, ReadsOneVersion
<1>3. CASE /\ r.type \in {"ack", "chunk"}
           /\ known' = Learnt(r)
           /\ got' = Received(r)
           /\ \/ EndRound(Learnt(r), Received(r))
              \/ UNCHANGED <<requests, pc, result>>
  <2>1. CASE ~ InStep
    <3>1. ~ InStep' /\ pc' \in {"idle", "pull"}
      BY <1>1, <1>3, <2>1 DEF InStep, EndRound, Return
    <3>2. got' = [i \in DOMAIN got' |-> got'[i]]
      BY <1>3 DEF Received, IInv, Typed
    <3>3. Typed'
      BY <1>1, <3>1, <3>2, StaysTyped DEF IInv, Typed
    <3> QED
      BY <3>1, <3>3 DEF IInv, KnownHolds, InFlight, ReadsOneVersion, Waiting
  <2>2. CASE InStep
    <3>1. Waiting
      BY <1>1, <2>2 DEF Waiting
    <3>2. OneVersion(known', got') /\ known' # Unknown
      BY <1>1, <1>3, <3>1, LearntHolds
    <3>3. /\ \A q \in DOMAIN replies' : TrueReply(q)'
          /\ \A d \in DOMAIN requests : d.game = game /\ d.version = known'.version
      BY <1>1, <1>3, <3>1, RestIsTrue
    <3>4. CASE EndRound(Learnt(r), Received(r))
      <4>1. KnownHolds' /\ InFlight' /\ ReadsOneVersion' /\ pc' \in {"idle", "pull"}
        BY <1>1, <1>3, <2>2, <3>2, <3>3, <3>4, EndRoundHolds DEF IInv
      <4>2. Typed'
        BY <1>1, <3>2, <4>1, StaysTyped DEF OneVersion, IInv, Typed
      <4> QED
        BY <4>1, <4>2 DEF IInv
    <3>5. CASE UNCHANGED <<requests, pc, result>>
      <4>1. Typed'
        BY <1>1, <3>2, <3>5, StaysTyped DEF OneVersion, IInv, Typed
      <4>2. KnownHolds'
        BY <1>1, <3>2, <3>5 DEF OneVersion, KnownHolds
      <4>3. InFlight'
        BY <1>1, <3>2, <3>3, <3>5 DEF InFlight
      <4>4. ReadsOneVersion'
        BY <1>1, <3>5 DEF ReadsOneVersion, Returned
      <4> QED
        BY <4>1, <4>2, <4>3, <4>4 DEF IInv
    <3> QED
      BY <1>3, <3>4, <3>5
  <2> QED
    BY <2>1, <2>2
<1> QED
  BY <1>2, <1>3 DEF HearBurst

\* A timeout with nothing on its way asks again, for the same version, or gives up.
LEMMA TimeoutHolds ==
    ASSUME IInv, Timeout
    PROVE  IInv'
<1>1. UNCHANGED <<history, game, since, replies>>
  BY DEF Timeout
<1>2. mishaps' \in [Kinds -> Nat] /\ (InStep' => InStep)
  BY MishapsGrow DEF Timeout, IInv, Typed, Kinds, InStep
<1>3. Typed'
  <2>1. pc' \in {"idle", "head", "pull"} /\ UNCHANGED got
    BY DEF Timeout, EndRound, Return
  <2> QED
    BY <1>1, <1>2, <2>1, StaysTyped DEF IInv, Typed
<1>4. CASE Busy /\ Mishap("late")
  <2>1. ~ InStep'
    BY <1>4, MishapsGrow DEF IInv, Kinds
  <2> QED
    BY <1>3, <2>1 DEF IInv, KnownHolds, InFlight, ReadsOneVersion, Waiting
<1>5. CASE ~ Busy /\ UNCHANGED mishaps
  <2>1. requests = EmptyBag /\ replies = EmptyBag /\ replies' = EmptyBag
    BY <1>1, <1>5 DEF Busy
  <2>2. ~ InStep => ~ InStep'
    BY <1>5 DEF InStep
  <2>3. CASE pc = "pull" /\ EndRound(known, got) /\ UNCHANGED <<known, got>> /\ InStep
    <3>1. OneVersion(known, got)
      BY <2>3 DEF IInv, Typed, KnownHolds, Waiting, OneVersion
    <3>2. DOMAIN requests = {} /\ DOMAIN replies' = {}
      BY <2>1, NothingInEmpty
    <3>3. KnownHolds' /\ InFlight' /\ ReadsOneVersion'
      BY <1>1, <1>5, <2>1, <2>3, <3>1, <3>2, EndRoundHolds DEF IInv
    <3> QED
      BY <1>3, <3>3 DEF IInv
  <2>4. CASE /\ pc = "head" /\ Ask(game, 0, {}) /\ InStep
             /\ UNCHANGED <<pc, known, got, asked, previous, stalled, result>>
    <3> DEFINE d == [game |-> game, version |-> 0, wanted |-> {}]
    <3>1. requests' = SetToBag({d}) /\ DOMAIN requests' = {d} /\ DOMAIN replies' = {}
      BY <2>1, <2>4, FirstSent, MembersOfSet, NothingInEmpty DEF Ask
    <3>2. known = Unknown /\ known.version = 0
      BY <2>4 DEF IInv, KnownHolds, Waiting, Unknown
    <3>3. OneAtATime'
      <4>1. replies' = EmptyBag /\ \E e \in DOMAIN requests' : requests' = SetToBag({e})
        BY <2>1, <3>1
      <4> QED
        BY <4>1 DEF OneAtATime
    <3>4. InFlight'
      BY <1>1, <2>4, <3>1, <3>2, <3>3 DEF InFlight
    <3>5. KnownHolds'
      BY <1>1, <2>4, <3>2 DEF KnownHolds, IInv, Waiting
    <3>6. ReadsOneVersion'
      BY <2>4 DEF ReadsOneVersion, Returned
    <3> QED
      BY <1>3, <3>4, <3>5, <3>6 DEF IInv
  <2>5. CASE Return("gave_up", 0, <<>>)
    BY <1>3, <2>5, NothingReturned DEF IInv
  <2>6. CASE ~ InStep
    BY <1>3, <2>2, <2>6 DEF IInv, KnownHolds, InFlight, ReadsOneVersion, Waiting
  <2> QED
    BY <2>3, <2>4, <2>5, <2>6 DEF Timeout
<1> QED
  BY <1>4, <1>5 DEF Timeout

----------------------------------------------------------------------------
(* The server's and the network's steps.                                   *)

\* A step that leaves the call and the histories alone keeps everything but InFlight.
LEMMA CallStays ==
    ASSUME IInv, UNCHANGED <<history, call>>, mishaps' \in [Kinds -> Nat], InStep' => InStep,
           Waiting' => InFlight'
    PROVE  IInv'
<1>1. Typed'
  BY DEF IInv, Typed, call
<1>2. KnownHolds'
  BY DEF IInv, KnownHolds, Waiting, call
<1>3. ReadsOneVersion'
  BY DEF IInv, ReadsOneVersion, Returned, call
<1>4. InFlight'
  BY DEF InFlight
<1> QED
  BY <1>1, <1>2, <1>3, <1>4 DEF IInv

\* What the handler answers to a request of this call is true, and of one version.
LEMMA AnswersAreTrue ==
    ASSUME IInv, Waiting, NEW d \in DOMAIN requests
    PROVE  /\ \A r \in OnPullReq(d) : TrueReply(r)
           /\ \A r, q \in OnPullReq(d) : r.version = q.version
<1>1. d.game = game /\ d.version = known.version
  BY DEF IInv, InFlight
<1>2. history[game] \in Seq(Images) /\ Len(history[game]) \in Nat /\ since \in 0..Len(history[game])
  BY DEF IInv, Typed
<1>3. CASE Selected(d) \in DOMAIN history[d.game]
  <2> DEFINE v == Selected(d)
  <2>1. v \in DOMAIN history[game] /\ v \in Nat \ {0}
    BY <1>1, <1>3, VersionTypes DEF IInv, Typed
  <2>2. Len(history[game][v]) \in Nat
    BY <2>1, VersionTypes DEF IInv, Typed
  <2>3. v >= since /\ (known # Unknown => v = known.version)
    <3>1. CASE known = Unknown
      BY <1>1, <1>2, <3>1 DEF Selected, Unknown
    <3>2. CASE known # Unknown
      <4>1. known.version \in DOMAIN history[game] /\ known.version >= since
        BY <3>2 DEF IInv, KnownHolds
      <4>2. known.version # 0
        BY <4>1, VersionTypes DEF IInv, Typed
      <4> QED
        BY <1>1, <4>1, <4>2 DEF Selected
    <3> QED
      BY <3>1, <3>2
  <2>4. OnPullReq(d) = Burst(d)
    BY <1>3 DEF OnPullReq
  <2>5. ASSUME NEW r \in Burst(d) PROVE TrueReply(r) /\ r.version = v
    <3>1. CASE r = Reply("ack", d, v, Len(history[game][v]), 0, 0)
      BY <2>1, <2>3, <3>1 DEF Reply, TrueReply, Types
    <3>2. ASSUME NEW i \in d.wanted \cap 1..Len(history[game][v]),
                 r = Reply("chunk", d, v, Len(history[game][v]), i, history[game][v][i])
          PROVE  TrueReply(r) /\ r.version = v
      BY <2>1, <2>3, <3>2 DEF Reply, TrueReply, Types
    <3> QED
      BY <1>1, <2>5, <3>1, <3>2 DEF Burst
  <2> QED
    BY <2>4, <2>5
<1>4. CASE Selected(d) \notin DOMAIN history[d.game]
  <2>1. OnPullReq(d) = {Refusal(d, "unknown_card")}
    BY <1>4 DEF OnPullReq
  <2>2. since = 0
    <3>1. known = Unknown
      <4>1. known # Unknown => Selected(d) = known.version \/ Selected(d) = Len(history[game])
        BY <1>1 DEF Selected
      <4>2. known # Unknown => known.version \in DOMAIN history[game] /\ known.version # 0
        BY VersionTypes DEF IInv, KnownHolds, Typed
      <4> QED
        BY <1>1, <1>4, <4>2 DEF Selected
    <3>2. Selected(d) = Len(history[game])
      BY <1>1, <3>1 DEF Selected, Unknown
    <3>3. Len(history[game]) = 0
      BY <1>1, <1>2, <1>4, <3>2
    <3> QED
      BY <1>2, <3>3
  <2>3. TrueReply(Refusal(d, "unknown_card"))
    BY <2>2 DEF Refusal, Reply, TrueReply, Types
  <2> QED
    BY <2>1, <2>3
<1> QED
  BY <1>3, <1>4

\* A request answered.
LEMMA DeliverHolds ==
    ASSUME IInv, NEW d, Deliver(d)
    PROVE  IInv'
<1>1. /\ UNCHANGED <<history, call, mishaps>> /\ Taken(d) /\ d \in DOMAIN requests
      /\ DOMAIN requests' \subseteq DOMAIN requests
      /\ replies' = replies (+) SetToBag(OnPullReq(d))
      /\ DOMAIN replies' = DOMAIN replies \cup OnPullReq(d)
  BY MembersAdded, MembersTaken, MembersOfSet DEF Deliver, Taken, BagIn, BagToSet
<1>2. ASSUME Waiting PROVE InFlight'
  <2>1. \A r \in DOMAIN replies' : TrueReply(r)
    BY <1>1, <1>2, AnswersAreTrue DEF IInv, InFlight
  <2>2. \A r \in DOMAIN replies' : TrueReply(r)'
    BY <1>1, <2>1 DEF TrueReply, call
  <2>3. ASSUME known = Unknown PROVE OneAtATime'
    <3>1. replies = EmptyBag /\ \E e \in DOMAIN requests : requests = SetToBag({e})
      BY <1>1, <1>2, <2>3, NothingInEmpty DEF IInv, InFlight, OneAtATime
    <3>2. requests' = EmptyBag
      BY <1>1, <3>1, TakenIsTheOne
    <3>3. DOMAIN replies' = OnPullReq(d)
      BY <1>1, <3>1, NothingInEmpty
    <3> QED
      BY <1>2, <1>1, <3>2, <3>3, AnswersAreTrue DEF OneAtATime
  <2> QED
    BY <1>1, <1>2, <2>2, <2>3 DEF InFlight, IInv, call
<1>3. Waiting' => Waiting
  BY <1>1 DEF Waiting, InStep, call
<1> QED
  BY <1>1, <1>2, <1>3, CallStays DEF IInv, Typed, InStep

\* A request refused by the rate limiter.
LEMMA ThrottleHolds ==
    ASSUME IInv, NEW d, Throttle(d)
    PROVE  IInv'
<1> DEFINE refusal == Refusal(d, "rate_limited")
<1>1. /\ UNCHANGED <<history, call>> /\ Taken(d) /\ d \in DOMAIN requests
      /\ DOMAIN requests' \subseteq DOMAIN requests
      /\ DOMAIN replies' = DOMAIN replies \cup {refusal}
  BY MembersAdded, MembersTaken, MembersOfSet DEF Throttle, Taken, BagIn, BagToSet
<1>2. mishaps' \in [Kinds -> Nat] /\ (InStep' => InStep)
  BY MishapsGrow DEF Throttle, IInv, Kinds
<1>3. ASSUME Waiting PROVE InFlight'
  <2>1. TrueReply(refusal)
    BY DEF Refusal, Reply, TrueReply, Types
  <2>2. \A r \in DOMAIN replies' : TrueReply(r)
    BY <1>1, <1>3, <2>1 DEF IInv, InFlight
  <2>3. \A r \in DOMAIN replies' : TrueReply(r)'
    BY <1>1, <2>2 DEF TrueReply, call
  <2>4. ASSUME known = Unknown PROVE OneAtATime'
    <3>1. replies = EmptyBag /\ \E e \in DOMAIN requests : requests = SetToBag({e})
      BY <1>1, <1>3, <2>4, NothingInEmpty DEF IInv, InFlight, OneAtATime
    <3>2. requests' = EmptyBag
      BY <1>1, <3>1, TakenIsTheOne
    <3>3. DOMAIN replies' = {refusal}
      BY <1>1, <3>1, NothingInEmpty
    <3> QED
      BY <3>2, <3>3 DEF OneAtATime
  <2> QED
    BY <1>1, <1>3, <2>3, <2>4 DEF InFlight, IInv, call
<1>4. Waiting' => Waiting
  BY <1>1, <1>2 DEF Waiting, call
<1> QED
  BY <1>1, <1>2, <1>3, <1>4, CallStays

\* A request lost.
LEMMA LoseRequestHolds ==
    ASSUME IInv, NEW d, LoseRequest(d)
    PROVE  IInv'
<1>1. /\ UNCHANGED <<history, replies, call>> /\ Taken(d) /\ d \in DOMAIN requests
      /\ DOMAIN requests' \subseteq DOMAIN requests
  BY MembersTaken DEF LoseRequest, Taken, BagIn, BagToSet
<1>2. mishaps' \in [Kinds -> Nat] /\ (InStep' => InStep)
  BY MishapsGrow DEF LoseRequest, IInv, Kinds
<1>3. ASSUME Waiting PROVE InFlight'
  <2>1. \A r \in DOMAIN replies' : TrueReply(r)'
    BY <1>1, <1>3 DEF TrueReply, call, IInv, InFlight
  <2>2. ASSUME known = Unknown PROVE OneAtATime'
    <3>1. replies = EmptyBag /\ \E e \in DOMAIN requests : requests = SetToBag({e})
      BY <1>1, <1>3, <2>2, NothingInEmpty DEF IInv, InFlight, OneAtATime
    <3>2. requests' = EmptyBag
      BY <1>1, <3>1, TakenIsTheOne
    <3> QED
      BY <1>1, <3>1, <3>2, NothingInEmpty DEF OneAtATime
  <2> QED
    BY <1>1, <1>3, <2>1, <2>2 DEF InFlight, IInv, call
<1>4. Waiting' => Waiting
  BY <1>1, <1>2 DEF Waiting, call
<1> QED
  BY <1>1, <1>2, <1>3, <1>4, CallStays

\* A reply lost.
LEMMA LoseReplyHolds ==
    ASSUME IInv, NEW r, LoseReply(r)
    PROVE  IInv'
<1>1. /\ UNCHANGED <<history, requests, call>> /\ r \in DOMAIN replies
      /\ DOMAIN replies' \subseteq DOMAIN replies
  BY MembersTaken DEF LoseReply, BagIn, BagToSet
<1>2. mishaps' \in [Kinds -> Nat] /\ (InStep' => InStep)
  BY MishapsGrow DEF LoseReply, IInv, Kinds
<1>3. ASSUME Waiting PROVE InFlight'
  <2>1. \A q \in DOMAIN replies' : TrueReply(q)'
    BY <1>1, <1>3 DEF TrueReply, call, IInv, InFlight
  <2>2. ASSUME known = Unknown PROVE OneAtATime'
    <3>1. requests = EmptyBag /\ \A p, q \in DOMAIN replies : p.version = q.version
      BY <1>1, <1>3, <2>2, NothingInEmpty DEF IInv, InFlight, OneAtATime
    <3> QED
      BY <1>1, <3>1 DEF OneAtATime
  <2> QED
    BY <1>1, <1>3, <2>1, <2>2 DEF InFlight, IInv, call
<1>4. Waiting' => Waiting
  BY <1>1, <1>2 DEF Waiting, call
<1> QED
  BY <1>1, <1>2, <1>3, <1>4, CallStays

\* A version committed by somebody else leaves all earlier ones as they were.
LEMMA CommitHolds ==
    ASSUME IInv, NEW g \in Games, NEW i \in Images, Commit(g, i)
    PROVE  IInv'
<1>1. /\ UNCHANGED <<requests, replies, call, mishaps>>
      /\ history \in [Games -> Seq(Images)] /\ game \in Games
      /\ history' = [history EXCEPT ![g] = Append(@, i)]
  BY DEF Commit, IInv, Typed
<1>2. history' \in [Games -> Seq(Images)]
  BY <1>1
<1>3. /\ Len(history[game]) \in Nat /\ Len(history'[game]) >= Len(history[game])
      /\ Len(history'[game]) \in Nat
      /\ \A v \in DOMAIN history[game] :
            v \in DOMAIN history'[game] /\ history'[game][v] = history[game][v]
  <2>1. CASE game = g
    <3>1. history'[game] = Append(history[game], i) /\ history[game] \in Seq(Images)
      BY <1>1, <2>1
    <3> QED
      BY <3>1
  <2>2. CASE game # g
    BY <1>1, <2>2
  <2> QED
    BY <2>1, <2>2
<1>4. Typed'
  BY <1>1, <1>2, <1>3 DEF Typed, IInv, call
<1>5. KnownHolds'
  <2> SUFFICES ASSUME Waiting' PROVE KnownHolds'
    BY DEF KnownHolds
  <2>1. Waiting
    BY <1>1 DEF Waiting, InStep, call
  <2>2. known # Unknown =>
           /\ known.version \in DOMAIN history[game]
           /\ history'[game][known.version] = history[game][known.version]
           /\ known.version \in DOMAIN history'[game]
    BY <1>3, <2>1 DEF KnownHolds, IInv
  <2> QED
    BY <1>1, <2>1, <2>2 DEF KnownHolds, IInv, call
<1>6. InFlight'
  <2> SUFFICES ASSUME Waiting' PROVE InFlight'
    BY DEF InFlight
  <2>1. Waiting
    BY <1>1 DEF Waiting, InStep, call
  <2>2. ASSUME NEW r \in DOMAIN replies PROVE TrueReply(r)'
    <3>1. TrueReply(r)
      BY <2>1 DEF IInv, InFlight
    <3> QED
      BY <1>1, <1>3, <3>1 DEF TrueReply, call
  <2>3. OneAtATime => OneAtATime'
    BY <1>1 DEF OneAtATime
  <2> QED
    BY <1>1, <2>1, <2>2, <2>3 DEF InFlight, IInv, call
<1>7. ReadsOneVersion'
  <2> SUFFICES ASSUME Returned', InStep' PROVE ReadsOneVersion'
    BY DEF ReadsOneVersion
  <2>1. Returned /\ InStep /\ ReadsOneVersion /\ UNCHANGED <<game, since, result>>
    BY <1>1 DEF Returned, InStep, call, IInv
  <2>2. result.code = "ok" =>
           /\ result.version \in since..Len(history[game])
           /\ result.version \in DOMAIN history[game]
    BY <2>1 DEF ReadsOneVersion
  <2>3. since \in Int
    BY DEF IInv, Typed
  <2> QED
    BY <1>3, <2>1, <2>2, <2>3 DEF ReadsOneVersion
<1> QED
  BY <1>4, <1>5, <1>6, <1>7 DEF IInv

----------------------------------------------------------------------------
(* The theorems.                                                           *)

\* Every step keeps the invariant.
LEMMA NextHolds == IInv /\ [Next]_vars => IInv'
<1> SUFFICES ASSUME IInv, [Next]_vars PROVE IInv'
  OBVIOUS
<1>1. ASSUME NEW what \in {"head", "pull"}, NEW g \in Games, Call(what, g) PROVE IInv'
  BY <1>1, CallHolds
<1>2. CASE Timeout
  BY <1>2, TimeoutHolds
<1>3. ASSUME NEW r \in BagToSet(replies), Hear(r) PROVE IInv'
  BY <1>3, HearHeadHolds, HearBurstHolds DEF Hear
<1>4. ASSUME NEW d \in BagToSet(requests), Deliver(d) PROVE IInv'
  BY <1>4, DeliverHolds
<1>5. ASSUME NEW d \in BagToSet(requests), LoseRequest(d) \/ Throttle(d) PROVE IInv'
  BY <1>5, LoseRequestHolds, ThrottleHolds
<1>6. ASSUME NEW r \in BagToSet(replies), LoseReply(r) PROVE IInv'
  BY <1>6, LoseReplyHolds
<1>7. ASSUME NEW g \in Games, NEW i \in Images, Commit(g, i) PROVE IInv'
  BY <1>7, CommitHolds
<1>8. CASE UNCHANGED vars
  <2>1. UNCHANGED <<history, requests, replies, call, mishaps>>
    BY <1>8 DEF vars
  <2>2. Waiting' => Waiting
    BY <2>1 DEF Waiting, InStep, call
  <2>3. InFlight'
    BY <2>1, <2>2 DEF IInv, InFlight, TrueReply, OneAtATime, call
  <2> QED
    BY <2>1, <2>3, CallStays DEF IInv, Typed, InStep
<1> QED
  BY <1>1, <1>2, <1>3, <1>4, <1>5, <1>6, <1>7, <1>8 DEF Next, Listen, Serve

\* In every reachable state what a call knows, has received and may still hear is of one
\* version, unless a timeout fired early or a call began with datagrams of another about.
THEOREM PullInvariance == Spec => []IInv
BY InitHolds, NextHolds, PTL DEF Spec

\* A head or a pull is an atomic read, whatever is lost or reordered and whatever others
\* push meanwhile: ss_head and ss_pull against _on_pull_req.
THEOREM PullIsAtomic == Spec => []ReadsOneVersion
<1>1. IInv => ReadsOneVersion
  BY DEF IInv
<1> QED
  BY <1>1, PullInvariance, PTL

----------------------------------------------------------------------------
(* How many losses a call survives.                                        *)

\* A call that nothing has disturbed but losses, and fewer of those than it has rounds.
Trying == Waiting /\ mishaps["throttled"] = 0 /\ mishaps["lost"] < MaxRounds

Coming(i) == \E q \in DOMAIN replies : q.type = "chunk" /\ q.chunk = i

\* Whether the round that is running can still achieve all it was begun for: the request
\* is on its way, or a refusal is, or every chunk it asked for and the card has.
Intact ==
    \/ \E d \in DOMAIN requests : d.wanted = asked
    \/ \E r \in DOMAIN replies : r.type = "unknown_card"
    \/ \E r \in DOMAIN replies :
          /\ r.type \in {"ack", "chunk"}
          /\ \A i \in asked \cap 1..r.size : i \in DOMAIN got \/ Coming(i)

\* The losses that rounds already over may have met: a round that is not intact has met
\* one itself, and a round that met none achieves what it was begun for.
Credit == IF Intact THEN mishaps["lost"] ELSE mishaps["lost"] - 1

\* All chunks in n windows from the first one on are among these.
Reached(size, n, chunks) == \A i \in 1..size : i <= PullWindow * n => i \in chunks

\* Asked for or not received.
Open(size, chunks, wanted) == {i \in 1..size : i \in wanted \/ i \notin chunks}

\* A pull that knows its card: something asked for has yet to come; the rounds begun, but
\* for as many as there were losses, have each brought a window; and `previous` is no
\* less than what was open when the round began.
Progress(size, chunks, wanted, before, n, credit) ==
    /\ Cardinality(Open(size, chunks, wanted)) <= before
    /\ Reached(size, n - credit, chunks)
    /\ Reached(size, n - credit + 1, chunks \cup wanted)

\* Something asked for has yet to come.
StillOpen(size, chunks, wanted) == ~ (wanted \cap 1..size \subseteq chunks)

PullProgress ==
    /\ stalled <= Credit
    /\ known = Unknown => asked = 1..PullWindow /\ previous > OutCap /\ rounds = 0
    /\ known # Unknown =>
          /\ StillOpen(known.size, DOMAIN got, asked)
          /\ Progress(known.size, DOMAIN got, asked, previous, rounds, Credit)

HeadProgress ==
    /\ rounds - 1 <= Credit
    /\ \A d \in DOMAIN requests : d.wanted = {}
    /\ \A r \in DOMAIN replies : r.type # "chunk"

\* The inductive invariant behind LossIsRecovered, next to IInv and AllTypes.
LossInv ==
    /\ LossIsRecovered
    /\ Trying =>
          /\ \A r \in DOMAIN replies : r.type # "rate_limited"
          /\ pc = "pull" => PullProgress
          /\ pc = "head" => HeadProgress

\* Fewer windows are reached when more are.
LEMMA ReachedBefore ==
    ASSUME NEW size \in Nat, NEW n \in Int, NEW m \in Int, n <= m,
           NEW S, NEW T, S \subseteq T, Reached(size, m, S)
    PROVE  Reached(size, n, T)
<1>1. PullWindow \in Nat
  BY BoundTypes
<1>2. PullWindow * n <= PullWindow * m
  BY <1>1
<1>3. PullWindow * n \in Int /\ PullWindow * m \in Int
  BY <1>1
<1> QED
  BY <1>2, <1>3 DEF Reached

\* One window more is one window's chunks more.
LEMMA WindowMore ==
    ASSUME NEW n \in Int
    PROVE  /\ PullWindow * n \in Int
           /\ PullWindow * (n + 1) = PullWindow * n + PullWindow
<1>1. PullWindow \in Nat
  BY BoundTypes
<1> QED
  BY <1>1

\* A pull that has something to ask for, and fewer losses than it has rounds, is within
\* its budget.
LEMMA NotSpent ==
    ASSUME NEW size \in 0..OutCap, NEW n \in Nat, NEW c \in Int, c < MaxRounds,
           NEW S, Reached(size, n - c, S), NEW i \in 1..size, i \notin S
    PROVE  n + 1 <= Budget(size)
<1> DEFINE q == size \div PullWindow
<1>1. PullWindow \in Nat \ {0} /\ MaxRounds \in Nat /\ size \in Nat /\ q \in Nat
  BY BoundTypes
<1>2. size < PullWindow * (q + 1)
  BY <1>1
<1>3. PullWindow * (n - c) < size
  <2>1. PullWindow * (n - c) \in Int
    BY <1>1
  <2> QED
    BY <1>1, <2>1 DEF Reached
<1>4. n - c < q + 1
  <2> SUFFICES ASSUME n - c >= q + 1 PROVE FALSE
    BY <1>1
  <2>1. PullWindow * (n - c) >= PullWindow * (q + 1)
    BY <1>1
  <2>2. PullWindow * (n - c) \in Int /\ PullWindow * (q + 1) \in Int
    BY <1>1
  <2> QED
    BY <1>1, <1>2, <1>3, <2>1, <2>2
<1>5. Budget(size) = (q + 1) * 4 + MaxRounds
  BY DEF Budget
<1> HIDE DEF q
<1> QED
  BY <1>1, <1>4, <1>5

\* Progress is made by receiving, and with more credit.
LEMMA ProgressGrows ==
    ASSUME NEW size \in Nat, NEW S, NEW T, S \subseteq T, NEW wanted, NEW before \in Int,
           NEW n \in Int, NEW c \in Int, NEW e \in Int, c <= e,
           Progress(size, S, wanted, before, n, c)
    PROVE  Progress(size, T, wanted, before, n, e)
<1>1. Reached(size, n - e, T) /\ Reached(size, n - e + 1, T \cup wanted)
  BY ReachedBefore DEF Progress
<1>2. Cardinality(Open(size, T, wanted)) <= before
  <2>1. Open(size, S, wanted) \in SUBSET (1..size) /\ Open(size, T, wanted) \in SUBSET Open(size, S, wanted)
    BY DEF Open
  <2>2. IsFiniteSet(Open(size, S, wanted)) /\ Cardinality(Open(size, S, wanted)) \in Nat
    BY <2>1, SomeMissing
  <2>3. /\ Cardinality(Open(size, T, wanted)) <= Cardinality(Open(size, S, wanted))
        /\ Cardinality(Open(size, T, wanted)) \in Nat
    BY <2>1, <2>2, FS_Subset, FS_CardinalityType
  <2>4. Cardinality(Open(size, S, wanted)) <= before
    BY DEF Progress
  <2> QED
    BY <2>2, <2>3, <2>4
<1> QED
  BY <1>1, <1>2 DEF Progress

\* The first request is progress whatever card it finds.
LEMMA FirstProgress ==
    ASSUME NEW size \in 1..OutCap, NEW before \in Int, before > OutCap, NEW c \in Nat
    PROVE  /\ StillOpen(size, {}, 1..PullWindow)
           /\ Progress(size, {}, 1..PullWindow, before, 0, c)
<1>1. PullWindow \in Nat \ {0} /\ OutCap \in Nat /\ size \in Nat
  BY BoundTypes
<1>2. StillOpen(size, {}, 1..PullWindow)
  <2>1. 1 \in 1..PullWindow \cap 1..size
    BY <1>1
  <2> QED
    BY <2>1 DEF StillOpen
<1>3. Cardinality(Open(size, {}, 1..PullWindow)) <= before
  <2>1. Open(size, {}, 1..PullWindow) \in SUBSET (1..size)
    BY DEF Open
  <2> QED
    BY <1>1, <2>1, SomeMissing
<1>4. PullWindow * (0 - c) <= 0 /\ PullWindow * (0 - c) \in Int
  BY <1>1
<1>5. PullWindow * (0 - c + 1) <= PullWindow /\ PullWindow * (0 - c + 1) \in Int
  BY <1>1, <1>4, WindowMore
<1>6. Reached(size, 0 - c, {}) /\ Reached(size, 0 - c + 1, {} \cup 1..PullWindow)
  BY <1>1, <1>4, <1>5 DEF Reached
<1> QED
  BY <1>2, <1>3, <1>6 DEF Progress

\* The next window, asked for.
LEMMA NextProgress ==
    ASSUME NEW size \in Nat, NEW S, NEW missing, missing = (1..size) \ S, missing # {},
           NEW m \in Int, NEW c \in Int, Reached(size, m - c, S)
    PROVE  /\ StillOpen(size, S, NextWindow(missing))
           /\ Progress(size, S, NextWindow(missing), Cardinality(missing), m, c)
<1> DEFINE W == NextWindow(missing)
           n == m - c
<1>0. n \in Int /\ Reached(size, n, S)
  OBVIOUS
<1> HIDE DEF n
<1>1. missing \in SUBSET (1..size)
  OBVIOUS
<1>2. W \subseteq missing /\ W # {}
  BY <1>1, NextWindowFits
<1>3. StillOpen(size, S, W)
  BY <1>1, <1>2 DEF StillOpen
<1>4. Open(size, S, W) = missing
  BY <1>2 DEF Open
<1>5. Cardinality(Open(size, S, W)) <= Cardinality(missing)
  <2>1. Cardinality(missing) \in Nat
    BY <1>1, SomeMissing
  <2> QED
    BY <1>4, <2>1
<1>6. Reached(size, n + 1, S \cup W)
  <2> SUFFICES ASSUME NEW i \in 1..size, i <= PullWindow * (n + 1), i \notin S
               PROVE  i \in W
    BY DEF Reached
  <2>1. PullWindow * n \in Int /\ PullWindow * (n + 1) = PullWindow * n + PullWindow
    BY <1>0, WindowMore
  <2>2. \A j \in missing : j > PullWindow * n
    BY <1>0, <2>1 DEF Reached
  <2>3. i \in missing
    OBVIOUS
  <2> HIDE DEF W
  <2> QED
    BY <1>1, <2>1, <2>2, <2>3, NextWindowReaches DEF W
<1> QED
  BY <1>3, <1>5, <1>0, <1>6 DEF Progress, n

\* What a request that is on its way makes of the credit.
LEMMA CreditTypes ==
    ASSUME AllTypes
    PROVE  /\ mishaps["lost"] \in Nat /\ Credit \in Int
           /\ Credit <= mishaps["lost"] /\ Credit >= mishaps["lost"] - 1
<1>1. mishaps["lost"] \in Nat
  BY BoundTypes DEF AllTypes, Kinds
<1> QED
  BY <1>1 DEF Credit

\* The same of the next state.
LEMMA CreditTypesNext ==
    ASSUME AllTypes'
    PROVE  /\ mishaps'["lost"] \in Nat /\ Credit' \in Int
           /\ Credit' <= mishaps'["lost"] /\ Credit' >= mishaps'["lost"] - 1
<1>1. mishaps'["lost"] \in Nat
  BY BoundTypes DEF AllTypes, Kinds
<1> QED
  BY <1>1 DEF Credit

\* A request just sent makes the round intact.
LEMMA AskedIsIntact ==
    ASSUME AllTypes', NEW g, NEW v, Ask(g, v, asked')
    PROVE  Credit' = mishaps'["lost"]
<1> DEFINE d == [game |-> g, version |-> v, wanted |-> asked']
<1>1. DOMAIN requests' = DOMAIN requests \cup {d}
  BY MembersAdded, MembersOfSet DEF Ask
<1>2. d.wanted = asked'
  OBVIOUS
<1> HIDE DEF d
<1>3. \E e \in DOMAIN requests' : e.wanted = asked'
  BY <1>1, <1>2
<1>4. Intact'
  BY <1>3 DEF Intact
<1> QED
  BY <1>4 DEF Credit

----------------------------------------------------------------------------
(* The console's steps.                                                    *)

\* A round ends with another request, or with the card.
LEMMA EndRoundProgress ==
    ASSUME AllTypes, AllTypes', pc = "pull", NEW k, NEW chunks, EndRound(k, chunks),
           known' = k, got' = chunks, UNCHANGED mishaps, Trying,
           \A r \in DOMAIN replies' : r.type # "rate_limited",
           k = Unknown => /\ stalled + 1 <= mishaps["lost"]
                          /\ asked = 1..PullWindow /\ previous > OutCap /\ rounds = 0,
           k # Unknown => /\ Reached(k.size, (rounds + 1) - mishaps["lost"], DOMAIN chunks)
                          /\ rounds + 1 <= Budget(k.size)
                          /\ \/ Cardinality((1..k.size) \ DOMAIN chunks) < previous
                             \/ stalled + 1 <= mishaps["lost"]
    PROVE  LossInv'
<1> DEFINE missing == (1..k.size) \ DOMAIN chunks
           lost == mishaps["lost"]
<1>1. /\ k \in [version : Nat, size : 0..OutCap] /\ k.size \in Nat
      /\ lost \in Nat /\ lost < MaxRounds /\ MaxRounds \in Nat /\ rounds \in Nat /\ stalled \in Nat
      /\ Budget(k.size) \in Nat
  <2>1. k \in [version : Nat, size : 0..OutCap] /\ k.size \in Nat
    BY DEF AllTypes, CallTypes
  <2>2. Budget(k.size) \in Nat /\ MaxRounds \in Nat
    BY <2>1, BoundTypes
  <2>3. rounds \in Nat /\ stalled \in Nat
    BY DEF AllTypes, CallTypes
  <2> QED
    BY <2>1, <2>2, <2>3, CreditTypes DEF Trying
<1>2. ~ (k # Unknown /\ rounds + 1 > Budget(k.size))
  BY <1>1
<1>3. /\ Stalled(k, missing) <= lost
      /\ Stalled(k, missing) < MaxRounds /\ ~ (Stalled(k, missing) >= MaxRounds)
  <2>1. Stalled(k, missing) \in {0, stalled + 1} /\ Stalled(k, missing) <= lost
    BY <1>1 DEF Stalled
  <2> QED
    BY <1>1, <2>1
<1>4. CASE k # Unknown /\ Return("ok", k.version, chunks)
  <2>1. pc' = "idle" /\ result'.code = "ok"
    BY <1>4 DEF Return
  <2> QED
    BY <2>1 DEF LossInv, LossIsRecovered, Trying, Waiting
<1>5. CASE /\ k = Unknown \/ missing # {}
           /\ stalled' = Stalled(k, missing)
           /\ previous' = IF k = Unknown THEN previous ELSE Cardinality(missing)
           /\ asked' = IF k = Unknown THEN asked ELSE NextWindow(missing)
           /\ Ask(game, Named(k), asked')
           /\ UNCHANGED <<pc, result>>
  <2>1. Credit' = lost
    BY <1>5, AskedIsIntact
  <2>2. stalled' <= Credit'
    BY <1>3, <1>5, <2>1
  <2>3. rounds' = IF k # Unknown THEN rounds + 1 ELSE rounds
    BY DEF EndRound
  <2>4. k # Unknown =>
           /\ StillOpen(k.size, DOMAIN chunks, asked')
           /\ Progress(k.size, DOMAIN chunks, asked', previous', rounds', Credit')
    <3> SUFFICES ASSUME k # Unknown
                 PROVE  /\ StillOpen(k.size, DOMAIN chunks, asked')
                        /\ Progress(k.size, DOMAIN chunks, asked', previous', rounds', Credit')
      OBVIOUS
    <3>1. /\ missing # {} /\ asked' = NextWindow(missing) /\ previous' = Cardinality(missing)
          /\ rounds' = rounds + 1
      BY <1>5, <2>3
    <3>2. /\ Reached(k.size, (rounds + 1) - lost, DOMAIN chunks)
          /\ rounds + 1 \in Int /\ lost \in Int
      BY <1>1
    <3> DEFINE m == rounds + 1
    <3> HIDE DEF lost, missing
    <3>3. m \in Int /\ lost \in Int /\ Reached(k.size, m - lost, DOMAIN chunks)
      BY <3>2
    <3> HIDE DEF m
    <3>4. missing = (1..k.size) \ DOMAIN chunks
      BY DEF missing
    <3>5. /\ StillOpen(k.size, DOMAIN chunks, NextWindow(missing))
          /\ Progress(k.size, DOMAIN chunks, NextWindow(missing), Cardinality(missing), m, lost)
      BY <1>1, <3>1, <3>3, <3>4, NextProgress
    <3> QED
      BY <2>1, <3>1, <3>5 DEF m
  <2>5. PullProgress'
    BY <1>5, <2>2, <2>3, <2>4 DEF PullProgress
  <2>6. pc' = "pull"
    BY <1>5
  <2> QED
    BY <2>5, <2>6 DEF LossInv, LossIsRecovered, Returned
<1> QED
  BY <1>2, <1>3, <1>4, <1>5 DEF EndRound

\* At the start nothing has been lost, and nothing is awaited.
LEMMA InitLoss == Init => LossInv
BY DEF Init, LossInv, LossIsRecovered, Returned, Trying, Waiting

\* A call begins intact.
LEMMA CallProgress ==
    ASSUME IInv, AllTypes, AllTypes', NEW what \in {"head", "pull"}, NEW g \in Games,
           Call(what, g)
    PROVE  LossInv'
<1>1. pc' = what /\ ~ Returned'
  BY DEF Call, Returned
<1>2. CASE Busy /\ Mishap("leftover")
  <2>1. ~ InStep'
    BY <1>2, MishapsGrow DEF IInv, Kinds
  <2> QED
    BY <1>1, <2>1 DEF LossInv, LossIsRecovered, Trying, Waiting
<1>3. CASE ~ Busy
  <2>1. DOMAIN replies' = {} /\ DOMAIN requests = {}
    BY <1>3, NothingInEmpty DEF Busy, Call
  <2>2. Credit' = mishaps'["lost"] /\ mishaps'["lost"] \in Nat
    BY AskedIsIntact, CreditTypesNext DEF Call
  <2>3. ASSUME what = "pull" PROVE PullProgress'
    <3>1. /\ stalled' = 0 /\ known' = Unknown /\ asked' = 1..PullWindow
          /\ previous' = Many /\ rounds' = 0
      BY <2>3 DEF Call
    <3> QED
      BY <2>2, <3>1, BoundTypes DEF PullProgress
  <2>4. ASSUME what = "head" PROVE HeadProgress'
    <3>1. rounds' = 1 /\ asked' = {}
      BY <2>4 DEF Call
    <3> DEFINE d == [game |-> g, version |-> 0, wanted |-> asked']
    <3>2. DOMAIN requests' = DOMAIN requests \cup {d}
      <4>1. requests' = requests (+) SetToBag({d})
        BY DEF Call, Ask
      <4> QED
        BY <4>1, MembersAdded, MembersOfSet
    <3> QED
      BY <2>1, <2>2, <3>1, <3>2 DEF HeadProgress
  <2> QED
    BY <1>1, <2>1, <2>3, <2>4 DEF LossInv, LossIsRecovered
<1> QED
  BY <1>2, <1>3 DEF Call

\* What ss_head hears ends it well.
LEMMA HearHeadProgress ==
    ASSUME IInv, LossInv, NEW r, Hear(r), HearHead(r)
    PROVE  LossInv'
<1>1. pc = "head" /\ pc' = "idle" /\ r \in DOMAIN replies /\ UNCHANGED mishaps
  BY DEF HearHead, Hear, Return, BagIn, BagToSet
<1>2. ASSUME Trying PROVE result'.code \in {"ok", "unknown_card"}
  <2>1. r.type \in Types
    BY <1>1, <1>2 DEF Trying, IInv, InFlight, TrueReply
  <2>2. r.type # "rate_limited" /\ r.type # "chunk"
    BY <1>1, <1>2 DEF LossInv, HeadProgress
  <2> QED
    BY <2>1, <2>2 DEF HearHead, Return, Types
<1> QED
  BY <1>1, <1>2 DEF LossInv, LossIsRecovered, Trying, Waiting, InStep

\* Whatever the first reply tells of the card, a pull that asked for its first window is
\* making progress.
LEMMA LearntProgress ==
    ASSUME IInv, AllTypes, LossInv, Trying, pc = "pull", NEW r, BagIn(r, replies),
           r.type \in {"ack", "chunk"}, Learnt(r).size <= OutCap
    PROVE  /\ Learnt(r).size \in 1..OutCap
           /\ StillOpen(Learnt(r).size, DOMAIN got, asked)
           /\ Progress(Learnt(r).size, DOMAIN got, asked, previous, rounds, Credit)
<1>1. PullProgress /\ Waiting
  BY DEF LossInv, Trying
<1>2. OneVersion(Learnt(r), Received(r)) /\ Learnt(r) # Unknown /\ (known # Unknown => Learnt(r) = known)
  BY <1>1, LearntHolds
<1>3. Learnt(r).size \in 1..OutCap
  <2>1. Learnt(r).size \in Nat \ {0}
    BY <1>2, VersionTypes DEF OneVersion, IInv, Typed
  <2>2. OutCap \in Nat
    BY BoundTypes
  <2> QED
    BY <2>1, <2>2
<1>4. CASE known # Unknown
  BY <1>1, <1>2, <1>3, <1>4 DEF PullProgress
<1>5. CASE known = Unknown
  <2>1. DOMAIN got = {}
    BY <1>1, <1>5 DEF IInv, KnownHolds
  <2>2. asked = 1..PullWindow /\ previous > OutCap /\ rounds = 0 /\ stalled <= Credit
    BY <1>1, <1>5 DEF PullProgress
  <2>3. previous \in Int /\ Credit \in Nat
    <3>1. stalled \in Nat /\ previous \in Int
      BY DEF AllTypes, CallTypes
    <3> QED
      BY <2>2, <3>1, CreditTypes
  <2> QED
    BY <1>3, <2>1, <2>2, <2>3, FirstProgress
<1> QED
  BY <1>4, <1>5

\* Reading a reply, while there is more to come, takes nothing from the round.
LEMMA HeardIsIntact ==
    ASSUME IInv, AllTypes, Waiting, pc = "pull", NEW r, Hear(r), r.type \in {"ack", "chunk"},
           known' = Learnt(r), got' = Received(r), UNCHANGED <<requests, asked>>,
           StillOpen(Learnt(r).size, DOMAIN Received(r), asked), Intact
    PROVE  Intact'
<1> DEFINE size == Learnt(r).size
<1>1. /\ BagIn(r, replies) /\ r \in DOMAIN replies
      /\ replies' = replies (-) SetToBag({r})
      /\ UNCHANGED <<history, game, since>>
  BY DEF Hear, BagIn, BagToSet
<1>2. /\ Learnt(r) # Unknown
      /\ OneVersion(Learnt(r), Received(r))
      /\ Learnt(r).version = r.version
      /\ known # Unknown => Learnt(r) = known
  BY <1>1, LearntHolds
<1>3. \A q \in DOMAIN replies' : TrueReply(q)'
  BY RestIsTrue
<1>4. \A q \in DOMAIN replies' : q.type \in {"ack", "chunk"} => q.size = size
  BY <1>1, <1>2, <1>3 DEF TrueReply, OneVersion
<1>5. DOMAIN replies \subseteq DOMAIN replies' \cup {r}
  <2>1. DOMAIN SetToBag({r}) = {r}
    BY MembersOfSet
  <2> SUFFICES ASSUME NEW q \in DOMAIN replies, q # r PROVE q \in DOMAIN replies'
    OBVIOUS
  <2>2. replies[q] > 0
    BY DEF AllTypes, ReplyTypes, IsABag
  <2> QED
    BY <1>1, <2>1, <2>2 DEF (-)
<1>6. TrueReply(r) /\ DOMAIN got \subseteq DOMAIN Received(r)
  BY <1>1, HeardIsTrue DEF Received
<1>7. CASE \E d \in DOMAIN requests : d.wanted = asked
  BY <1>7 DEF Intact
<1>8. CASE \E q \in DOMAIN replies : q.type = "unknown_card"
  BY <1>5, <1>8 DEF Intact
<1>9. ASSUME NEW p \in DOMAIN replies, p.type \in {"ack", "chunk"},
             \A i \in asked \cap 1..p.size : i \in DOMAIN got \/ Coming(i)
      PROVE  Intact'
  <2>1. p.size = size
    <3>1. TrueReply(p)
      BY <1>1, <1>9 DEF IInv, InFlight
    <3>2. p.version = r.version
      BY <1>1, <1>2, <1>9, <3>1, NothingInEmpty DEF IInv, InFlight, TrueReply, OneAtATime
    <3> QED
      BY <1>2, <1>9, <3>1, <3>2 DEF TrueReply, OneVersion
  <2>2. ASSUME NEW i \in asked \cap 1..size PROVE i \in DOMAIN Received(r) \/ Coming(i)'
    <3>1. CASE i \in DOMAIN got
      BY <1>6, <3>1
    <3>2. ASSUME NEW q \in DOMAIN replies, q.type = "chunk", q.chunk = i, i \notin DOMAIN got
          PROVE  i \in DOMAIN Received(r) \/ Coming(i)'
      <4>1. CASE q = r
        BY <2>2, <3>2, <4>1 DEF Received
      <4>2. CASE q # r
        BY <1>5, <3>2, <4>2 DEF Coming
      <4> QED
        BY <4>1, <4>2
    <3> QED
      BY <1>9, <2>1, <2>2, <3>1, <3>2 DEF Coming
  <2>3. PICK i \in asked \cap 1..size : i \notin DOMAIN Received(r)
    BY DEF StillOpen
  <2>4. PICK q \in DOMAIN replies' : q.type = "chunk" /\ q.chunk = i
    BY <2>2, <2>3 DEF Coming
  <2>5. q.size = size
    BY <1>4, <2>4
  <2>6. \A j \in asked' \cap 1..q.size : j \in DOMAIN got' \/ Coming(j)'
    BY <2>2, <2>5
  <2> QED
    BY <2>4, <2>6 DEF Intact
<1> QED
  BY <1>7, <1>8, <1>9 DEF Intact

\* What ss_pull hears ends it well, or brings it on.
LEMMA HearBurstProgress ==
    ASSUME IInv, AllTypes, AllTypes', LossInv, NEW r, Hear(r), HearBurst(r)
    PROVE  LossInv'
<1> DEFINE k == Learnt(r)
           chunks == Received(r)
<1>1. /\ UNCHANGED <<history, game, since, calls, mishaps>> /\ BagIn(r, replies)
      /\ r \in DOMAIN replies /\ pc = "pull"
      /\ DOMAIN replies' \subseteq DOMAIN replies
  BY MembersTaken DEF Hear, HearBurst, BagIn, BagToSet
<1>2. CASE r.type \notin {"ack", "chunk"} /\ Return(r.type, 0, <<>>)
  <2>1. pc' = "idle" /\ result'.code = r.type
    BY <1>2 DEF Return
  <2>2. ASSUME Trying PROVE r.type = "unknown_card"
    <3>1. r.type \in Types
      BY <1>1, <2>2 DEF Trying, IInv, InFlight, TrueReply
    <3>2. r.type # "rate_limited"
      BY <1>1, <2>2 DEF LossInv
    <3> QED
      BY <1>2, <3>1, <3>2 DEF Types
  <2> QED
    BY <1>1, <2>1, <2>2 DEF LossInv, LossIsRecovered, Trying, Waiting, InStep
<1>3. CASE Return("too_big", 0, <<>>)
  BY <1>3 DEF Return, LossInv, LossIsRecovered, Trying, Waiting
<1>4. CASE /\ r.type \in {"ack", "chunk"}
           /\ k.size <= OutCap
           /\ known' = k
           /\ got' = chunks
           /\ IF asked \cap 1..k.size \subseteq DOMAIN chunks
              THEN EndRound(k, chunks)
              ELSE UNCHANGED <<requests, pc, asked, previous, rounds, stalled, result>>
  <2>1. CASE ~ Trying
    <3>1. ~ Trying'
      BY <1>1, <2>1 DEF Trying, Waiting, InStep
    <3>2. ~ (InStep /\ mishaps["throttled"] = 0 /\ mishaps["lost"] < MaxRounds)
      BY <1>1, <2>1 DEF Trying, Waiting
    <3> QED
      BY <1>1, <3>1, <3>2 DEF LossInv, LossIsRecovered, InStep
  <2>2. CASE Trying
    <3>1. /\ k.size \in 1..OutCap
          /\ StillOpen(k.size, DOMAIN got, asked)
          /\ Progress(k.size, DOMAIN got, asked, previous, rounds, Credit)
      BY <1>1, <1>4, <2>2, LearntProgress
    <3>2. /\ \A q \in DOMAIN replies' : q.type # "rate_limited"
          /\ PullProgress /\ Waiting /\ k # Unknown
      BY <1>1, <1>4, <2>2, LearntHolds DEF LossInv, Trying
    <3>3. /\ k.size \in Nat /\ rounds \in Nat /\ stalled \in Nat /\ previous \in Int
          /\ mishaps["lost"] \in Nat /\ mishaps["lost"] < MaxRounds /\ MaxRounds \in Nat
          /\ Credit \in Int /\ Credit <= mishaps["lost"]
      <4>1. k.size \in Nat /\ MaxRounds \in Nat
        BY <3>1, BoundTypes
      <4>2. rounds \in Nat /\ stalled \in Nat /\ previous \in Int
        BY DEF AllTypes, CallTypes
      <4> QED
        BY <2>2, <4>1, <4>2, CreditTypes DEF Trying
    <3>4. DOMAIN got \subseteq DOMAIN chunks
      BY DEF Received
    <3> HIDE DEF k, chunks
    <3>5. CASE EndRound(k, chunks) /\ asked \cap 1..k.size \subseteq DOMAIN chunks
      <4> DEFINE missing == (1..k.size) \ DOMAIN chunks
                 open == Open(k.size, DOMAIN got, asked)
      <4>1. PICK i \in asked \cap 1..k.size : i \notin DOMAIN got
        BY <3>1 DEF StillOpen
      <4>2. Cardinality(missing) < previous
        <5>1. missing \in SUBSET open /\ i \in open /\ i \notin missing /\ open \in SUBSET (1..k.size)
          BY <3>4, <3>5, <4>1 DEF Open
        <5>2. IsFiniteSet(open) /\ Cardinality(open) \in Nat
          BY <3>3, <5>1, SomeMissing
        <5>3. /\ Cardinality(missing) <= Cardinality(open)
              /\ Cardinality(missing) # Cardinality(open)
              /\ Cardinality(missing) \in Nat
          BY <5>1, <5>2, FS_Subset, FS_CardinalityType
        <5>4. Cardinality(open) <= previous
          BY <3>1 DEF Progress
        <5> QED
          BY <3>3, <5>2, <5>3, <5>4
      <4>3. Reached(k.size, (rounds + 1) - mishaps["lost"], DOMAIN chunks)
        <5>1. Reached(k.size, rounds - Credit + 1, DOMAIN got \cup asked)
          BY <3>1 DEF Progress
        <5>2. Reached(k.size, rounds - Credit + 1, DOMAIN chunks)
          BY <3>4, <3>5, <5>1 DEF Reached
        <5>3. /\ rounds - Credit + 1 \in Int /\ (rounds + 1) - mishaps["lost"] \in Int
              /\ (rounds + 1) - mishaps["lost"] <= rounds - Credit + 1
          BY <3>3
        <5> QED
          BY <3>3, <5>2, <5>3, ReachedBefore
      <4>4. rounds + 1 <= Budget(k.size)
        <5>1. Reached(k.size, rounds - Credit, DOMAIN got) /\ k.size \in 0..OutCap /\ Credit < MaxRounds
          BY <3>1, <3>3 DEF Progress
        <5> QED
          BY <3>3, <4>1, <5>1, NotSpent
      <4> HIDE DEF missing
      <4> QED
        BY <1>1, <1>4, <2>2, <3>2, <3>5, <4>2, <4>3, <4>4, EndRoundProgress DEF missing
    <3>6. CASE /\ UNCHANGED <<requests, pc, asked, previous, rounds, stalled, result>>
               /\ ~ (asked \cap 1..k.size \subseteq DOMAIN chunks)
      <4>1. StillOpen(k.size, DOMAIN chunks, asked)
        BY <3>6 DEF StillOpen
      <4>2. Credit' >= Credit /\ Credit' \in Int
        <5>1. Intact => Intact'
          BY <1>1, <1>4, <3>2, <3>6, <4>1, HeardIsIntact DEF k, chunks
        <5> QED
          BY <1>1, <3>3, <5>1 DEF Credit
      <4>3. Progress(k.size, DOMAIN chunks, asked, previous, rounds, Credit')
        BY <3>1, <3>3, <3>4, <4>2, ProgressGrows
      <4>4. stalled <= Credit'
        BY <3>2, <3>3, <4>2 DEF PullProgress
      <4>5. PullProgress'
        BY <1>4, <3>2, <3>6, <4>1, <4>3, <4>4 DEF PullProgress
      <4> QED
        BY <1>1, <3>2, <3>6, <4>5 DEF LossInv, LossIsRecovered, Returned
    <3> QED
      BY <1>4, <3>5, <3>6
  <2> QED
    BY <2>1, <2>2
<1> QED
  BY <1>2, <1>3, <1>4 DEF HearBurst

\* A timeout with nothing on its way means that something was lost.
LEMMA TimeoutProgress ==
    ASSUME IInv, AllTypes, AllTypes', LossInv, Timeout
    PROVE  LossInv'
<1>1. UNCHANGED <<history, replies, game, since, calls>> /\ pc # "idle"
  BY DEF Timeout
<1>2. CASE Busy /\ Mishap("late")
  <2>1. ~ InStep'
    BY <1>2, MishapsGrow DEF IInv, Kinds
  <2> QED
    BY <2>1 DEF LossInv, LossIsRecovered, Trying, Waiting
<1>3. CASE ~ Busy /\ UNCHANGED mishaps
  <2>1. CASE ~ Trying
    <3>1. ~ Trying'
      BY <1>1, <1>3, <2>1 DEF Trying, Waiting, InStep
    <3>2. ~ (InStep /\ mishaps["throttled"] = 0 /\ mishaps["lost"] < MaxRounds)
      BY <1>1, <2>1 DEF Trying, Waiting
    <3> QED
      BY <1>3, <3>1, <3>2 DEF LossInv, LossIsRecovered, InStep
  <2>2. CASE Trying
    <3>1. DOMAIN requests = {} /\ DOMAIN replies = {} /\ DOMAIN replies' = {}
      BY <1>1, <1>3, NothingInEmpty DEF Busy
    <3>2. Credit = mishaps["lost"] - 1
      BY <3>1 DEF Credit, Intact
    <3>3. /\ mishaps["lost"] \in Nat /\ mishaps["lost"] < MaxRounds /\ MaxRounds \in Nat
          /\ rounds \in Nat /\ stalled \in Nat
      <4>1. rounds \in Nat /\ stalled \in Nat
        BY BoundTypes DEF AllTypes, CallTypes
      <4> QED
        BY <2>2, <4>1, CreditTypes, BoundTypes DEF Trying
    <3>4. CASE pc = "pull" /\ EndRound(known, got) /\ UNCHANGED <<known, got>>
      <4>1. PullProgress
        BY <2>2, <3>4 DEF LossInv
      <4>2. stalled + 1 <= mishaps["lost"]
        BY <3>2, <3>3, <4>1 DEF PullProgress
      <4>3. ASSUME known # Unknown
            PROVE  /\ Reached(known.size, (rounds + 1) - mishaps["lost"], DOMAIN got)
                   /\ rounds + 1 <= Budget(known.size)
        <5>1. /\ Reached(known.size, rounds - Credit, DOMAIN got)
              /\ StillOpen(known.size, DOMAIN got, asked)
          BY <4>1, <4>3 DEF PullProgress, Progress
        <5>2. rounds - Credit = (rounds + 1) - mishaps["lost"]
          BY <3>2, <3>3
        <5>3. PICK i \in 1..known.size : i \notin DOMAIN got
          BY <5>1 DEF StillOpen
        <5>4. known.size \in 0..OutCap /\ Credit \in Int /\ Credit < MaxRounds
          BY <3>2, <3>3 DEF AllTypes, CallTypes
        <5>5. rounds + 1 <= Budget(known.size)
          BY <3>3, <5>1, <5>3, <5>4, NotSpent
        <5> QED
          BY <5>1, <5>2, <5>5
      <4>4. known = Unknown => asked = 1..PullWindow /\ previous > OutCap /\ rounds = 0
        BY <4>1 DEF PullProgress
      <4> QED
        BY <1>3, <2>2, <3>1, <3>4, <4>2, <4>3, <4>4, EndRoundProgress
    <3>5. CASE pc = "head"
      <4>1. HeadProgress /\ asked = {}
        BY <2>2, <3>5 DEF LossInv, AllTypes, CallTypes
      <4>2. rounds <= mishaps["lost"] /\ rounds # MaxRounds
        BY <3>2, <3>3, <4>1 DEF HeadProgress
      <4>3. /\ rounds' = rounds + 1 /\ Ask(game, 0, {})
            /\ UNCHANGED <<pc, known, got, asked, previous, stalled, result>>
        BY <3>5, <4>2 DEF Timeout
      <4>4. Credit' = mishaps["lost"]
        BY <1>3, <4>1, <4>3, AskedIsIntact
      <4> DEFINE d == [game |-> game, version |-> 0, wanted |-> {}]
      <4>5. DOMAIN requests' = {d}
        <5>1. requests' = requests (+) SetToBag({d})
          BY <4>3 DEF Ask
        <5> HIDE DEF d
        <5>2. DOMAIN requests' = DOMAIN requests \cup {d}
          BY <5>1, MembersAdded, MembersOfSet
        <5> QED
          BY <3>1, <5>2
      <4>6. HeadProgress'
        <5>1. rounds' - 1 <= Credit'
          BY <3>3, <4>2, <4>3, <4>4
        <5> QED
          BY <3>1, <4>5, <5>1 DEF HeadProgress
      <4> QED
        BY <3>1, <3>5, <4>3, <4>6 DEF LossInv, LossIsRecovered, Returned
    <3> QED
      BY <3>4, <3>5 DEF Timeout
  <2> QED
    BY <2>1, <2>2
<1> QED
  BY <1>2, <1>3 DEF Timeout

----------------------------------------------------------------------------
(* The server's and the network's steps.                                   *)

\* A step that leaves the call alone keeps what has been achieved, if the losses count
\* for what they cost and no reply comes that should not.
LEMMA StaysAchieved ==
    ASSUME AllTypes, AllTypes', LossInv, UNCHANGED call,
           InStep' /\ mishaps'["throttled"] = 0 /\ mishaps'["lost"] < MaxRounds
              => InStep /\ mishaps["throttled"] = 0 /\ mishaps["lost"] < MaxRounds,
           Trying /\ Trying' =>
              /\ Credit' >= Credit
              /\ DOMAIN requests' \subseteq DOMAIN requests
              /\ \A r \in DOMAIN replies' : r.type # "rate_limited"
              /\ pc = "head" => \A r \in DOMAIN replies' : r.type # "chunk"
    PROVE  LossInv'
<1>1. LossIsRecovered'
  BY DEF LossInv, LossIsRecovered, Returned, call
<1>2. ASSUME Trying'
      PROVE  /\ \A r \in DOMAIN replies' : r.type # "rate_limited"
             /\ pc' = "pull" => PullProgress'
             /\ pc' = "head" => HeadProgress'
  <2>1. Trying
    BY <1>2 DEF Trying, Waiting, call
  <2>2. /\ Credit' >= Credit /\ Credit' \in Int /\ Credit \in Int
        /\ stalled \in Nat /\ rounds \in Nat /\ previous \in Int
        /\ known.size \in Nat
    <3>1. stalled \in Nat /\ rounds \in Nat /\ previous \in Int /\ known.size \in Nat
      BY BoundTypes DEF AllTypes, CallTypes
    <3> QED
      BY <1>2, <2>1, <3>1, CreditTypes, CreditTypesNext
  <2>3. ASSUME pc = "pull" PROVE PullProgress'
    <3>1. PullProgress
      BY <2>1, <2>3 DEF LossInv
    <3>2. stalled <= Credit'
      BY <2>2, <3>1 DEF PullProgress
    <3>3. known # Unknown => Progress(known.size, DOMAIN got, asked, previous, rounds, Credit')
      BY <2>2, <3>1, ProgressGrows DEF PullProgress
    <3> QED
      BY <3>1, <3>2, <3>3 DEF PullProgress, call
  <2>4. ASSUME pc = "head" PROVE HeadProgress'
    <3>1. HeadProgress
      BY <2>1, <2>4 DEF LossInv
    <3>2. rounds - 1 <= Credit'
      BY <2>2, <3>1 DEF HeadProgress
    <3> QED
      BY <1>2, <2>1, <2>4, <3>1, <3>2 DEF HeadProgress, call
  <2> QED
    BY <1>2, <2>1, <2>3, <2>4 DEF call
<1> QED
  BY <1>1, <1>2 DEF LossInv

\* An answer carries all that was asked for.
LEMMA DeliverProgress ==
    ASSUME AllTypes, AllTypes', LossInv, NEW d, Deliver(d)
    PROVE  LossInv'
<1>1. /\ UNCHANGED <<history, call, mishaps>> /\ d \in DOMAIN requests
      /\ DOMAIN requests' \subseteq DOMAIN requests
      /\ requests' = requests (-) SetToBag({d})
      /\ DOMAIN replies' = DOMAIN replies \cup OnPullReq(d)
  BY MembersAdded, MembersTaken, MembersOfSet DEF Deliver, Taken, BagIn, BagToSet
<1>2. \A r \in OnPullReq(d) : /\ r.type \in {"ack", "chunk", "unknown_card"}
                              /\ d.wanted = {} => r.type # "chunk"
  BY DEF OnPullReq, Burst, Refusal, Reply
<1>3. \A e \in DOMAIN requests : e = d \/ e \in DOMAIN requests'
  <2> SUFFICES ASSUME NEW e \in DOMAIN requests, e # d PROVE e \in DOMAIN requests'
    OBVIOUS
  <2>1. DOMAIN SetToBag({d}) = {d}
    BY MembersOfSet
  <2>2. requests[e] > 0
    BY DEF AllTypes, RequestTypes, IsABag
  <2> QED
    BY <1>1, <2>1, <2>2 DEF (-)
<1>4. ASSUME Intact PROVE Intact'
  <2>1. asked' = asked /\ got' = got
    BY <1>1 DEF call
  <2>2. CASE d.wanted = asked
    <3>1. CASE OnPullReq(d) = {Refusal(d, "unknown_card")}
      <4>1. Refusal(d, "unknown_card") \in DOMAIN replies' /\ Refusal(d, "unknown_card").type = "unknown_card"
        BY <1>1, <3>1 DEF Refusal, Reply
      <4> QED
        BY <4>1 DEF Intact
    <3>2. CASE OnPullReq(d) = Burst(d)
      <4> DEFINE v == Selected(d)
                 image == history[d.game][v]
                 ack == Reply("ack", d, v, Len(image), 0, 0)
                 chunk(i) == Reply("chunk", d, v, Len(image), i, image[i])
      <4>1. ack \in DOMAIN replies' /\ \A i \in d.wanted \cap 1..Len(image) : chunk(i) \in DOMAIN replies'
        BY <1>1, <3>2 DEF Burst
      <4>2. /\ ack.type = "ack" /\ ack.size = Len(image)
            /\ \A i \in d.wanted \cap 1..Len(image) : chunk(i).type = "chunk" /\ chunk(i).chunk = i
        BY DEF Reply
      <4> HIDE DEF ack, chunk, image
      <4>3. \A i \in asked \cap 1..ack.size : Coming(i)'
        BY <2>2, <4>1, <4>2 DEF Coming
      <4> QED
        BY <2>1, <4>1, <4>2, <4>3 DEF Intact
    <3> QED
      BY <3>1, <3>2 DEF OnPullReq
  <2>3. CASE \E e \in DOMAIN requests : e # d /\ e.wanted = asked
    BY <1>3, <2>1, <2>3 DEF Intact
  <2>4. CASE \E r \in DOMAIN replies : r.type = "unknown_card"
    BY <1>1, <2>4 DEF Intact
  <2>5. ASSUME NEW r \in DOMAIN replies, r.type \in {"ack", "chunk"},
               \A i \in asked \cap 1..r.size : i \in DOMAIN got \/ Coming(i)
        PROVE  Intact'
    <3>1. \A i : Coming(i) => Coming(i)'
      BY <1>1 DEF Coming
    <3>2. \A i \in asked' \cap 1..r.size : i \in DOMAIN got' \/ Coming(i)'
      BY <2>1, <2>5, <3>1
    <3> QED
      BY <1>1, <2>5, <3>2 DEF Intact
  <2> QED
    BY <1>4, <2>2, <2>3, <2>4, <2>5 DEF Intact
<1>5. Credit' >= Credit
  <2>1. mishaps["lost"] \in Nat
    BY CreditTypes
  <2> QED
    BY <1>1, <1>4, <2>1 DEF Credit
<1>6. ASSUME Trying
      PROVE  /\ \A r \in DOMAIN replies' : r.type # "rate_limited"
             /\ pc = "head" => \A r \in DOMAIN replies' : r.type # "chunk"
  <2>1. /\ \A r \in DOMAIN replies : r.type # "rate_limited"
        /\ pc = "head" => d.wanted = {} /\ \A r \in DOMAIN replies : r.type # "chunk"
    BY <1>1, <1>6 DEF LossInv, HeadProgress
  <2> QED
    BY <1>1, <1>2, <2>1
<1> QED
  BY <1>1, <1>5, <1>6, StaysAchieved DEF InStep

\* A loss costs as much as it counts.
LEMMA LossCounts ==
    ASSUME AllTypes, AllTypes', Mishap("lost")
    PROVE  /\ InStep' => InStep
           /\ mishaps'["throttled"] = mishaps["throttled"]
           /\ mishaps'["lost"] < MaxRounds => mishaps["lost"] < MaxRounds /\ Credit' >= Credit
<1>1. /\ mishaps' = [mishaps EXCEPT !["lost"] = IF @ < MaxRounds THEN @ + 1 ELSE @]
      /\ DOMAIN mishaps = Kinds /\ {"lost", "late", "leftover", "throttled"} = Kinds
  BY DEF Mishap, AllTypes, Kinds
<1>2. /\ \A m \in {"late", "leftover", "throttled"} : mishaps'[m] = mishaps[m]
      /\ mishaps'["lost"] = IF mishaps["lost"] < MaxRounds THEN mishaps["lost"] + 1 ELSE mishaps["lost"]
  BY <1>1
<1>3. mishaps["lost"] \in Nat /\ MaxRounds \in Nat
  BY CreditTypes, BoundTypes
<1>4. mishaps'["lost"] < MaxRounds => mishaps["lost"] < MaxRounds /\ mishaps'["lost"] = mishaps["lost"] + 1
  BY <1>2, <1>3
<1>5. mishaps'["lost"] < MaxRounds => Credit' >= Credit
  BY <1>3, <1>4, CreditTypes, CreditTypesNext
<1> QED
  BY <1>2, <1>4, <1>5 DEF InStep

\* A datagram lost, in either direction.
LEMMA LoseProgress ==
    ASSUME AllTypes, AllTypes', LossInv, NEW d, LoseRequest(d) \/ LoseReply(d)
    PROVE  LossInv'
<1>1. /\ UNCHANGED call /\ Mishap("lost")
      /\ DOMAIN requests' \subseteq DOMAIN requests
      /\ DOMAIN replies' \subseteq DOMAIN replies
  BY MembersTaken DEF LoseRequest, LoseReply, Taken
<1>2. /\ InStep' => InStep
      /\ mishaps'["throttled"] = mishaps["throttled"]
      /\ mishaps'["lost"] < MaxRounds => mishaps["lost"] < MaxRounds /\ Credit' >= Credit
  BY <1>1, LossCounts
<1>3. Trying => /\ \A r \in DOMAIN replies' : r.type # "rate_limited"
                /\ pc = "head" => \A r \in DOMAIN replies' : r.type # "chunk"
  BY <1>1 DEF LossInv, HeadProgress
<1> QED
  BY <1>1, <1>2, <1>3, StaysAchieved DEF Trying, Waiting

\* A refusal by the rate limiter is counted as such.
LEMMA ThrottleProgress ==
    ASSUME AllTypes, LossInv, NEW d, Throttle(d)
    PROVE  LossInv'
<1>1. mishaps'["throttled"] # 0
  <2>1. /\ mishaps' = [mishaps EXCEPT !["throttled"] = IF @ < MaxRounds THEN @ + 1 ELSE @]
        /\ mishaps \in [Kinds -> 0..MaxRounds] /\ "throttled" \in Kinds
        /\ MaxRounds \in Nat \ {0}
    BY BoundTypes DEF Throttle, Mishap, AllTypes, Kinds
  <2>2. mishaps["throttled"] \in 0..MaxRounds
    BY <2>1
  <2> QED
    BY <2>1, <2>2
<1> QED
  BY <1>1 DEF LossInv, LossIsRecovered, Trying

\* What others push is no concern of the network's.
LEMMA CommitProgress ==
    ASSUME AllTypes, AllTypes', LossInv, UNCHANGED <<requests, replies, call, mishaps>>
    PROVE  LossInv'
<1>1. Credit' = Credit /\ Credit \in Int
  <2>1. Intact' = Intact
    BY DEF Intact, Coming, call
  <2> QED
    BY <2>1, CreditTypes DEF Credit
<1>2. Credit' >= Credit
  BY <1>1
<1>3. Trying => /\ \A r \in DOMAIN replies' : r.type # "rate_limited"
                /\ pc = "head" => \A r \in DOMAIN replies' : r.type # "chunk"
  BY DEF LossInv, HeadProgress
<1> QED
  BY <1>2, <1>3, StaysAchieved DEF InStep

\* Every step keeps the invariant.
LEMMA NextProgressHolds == IInv /\ AllTypes /\ AllTypes' /\ LossInv /\ [Next]_vars => LossInv'
<1> SUFFICES ASSUME IInv, AllTypes, AllTypes', LossInv, [Next]_vars PROVE LossInv'
  OBVIOUS
<1>1. ASSUME NEW what \in {"head", "pull"}, NEW g \in Games, Call(what, g) PROVE LossInv'
  BY <1>1, CallProgress
<1>2. CASE Timeout
  BY <1>2, TimeoutProgress
<1>3. ASSUME NEW r \in BagToSet(replies), Hear(r) PROVE LossInv'
  BY <1>3, HearHeadProgress, HearBurstProgress DEF Hear
<1>4. ASSUME NEW d \in BagToSet(requests), Deliver(d) PROVE LossInv'
  BY <1>4, DeliverProgress
<1>5. ASSUME NEW d, LoseRequest(d) \/ LoseReply(d) PROVE LossInv'
  BY <1>5, LoseProgress
<1>6. ASSUME NEW d, Throttle(d) PROVE LossInv'
  BY <1>6, ThrottleProgress
<1>7. ASSUME NEW g \in Games, NEW i \in Images, Commit(g, i) PROVE LossInv'
  BY <1>7, CommitProgress DEF Commit
<1>8. CASE UNCHANGED vars
  BY <1>8, CommitProgress DEF vars
<1> QED
  BY <1>1, <1>2, <1>3, <1>4, <1>5, <1>6, <1>7, <1>8 DEF Next, Listen, Serve

\* A head or a pull survives fewer losses than it has rounds, however large the card is
\* and however many windows it takes: with nothing else gone wrong it ends with the card,
\* or with a reason that no retry could mend.
THEOREM PullSurvivesLosses == Spec => []LossIsRecovered
<1>1. Spec => []AllTypes
  BY InitTypes, NextKeepsTypes, PTL DEF Spec
<1>2. LossInv => LossIsRecovered
  BY DEF LossInv
<1>3. IInv /\ AllTypes /\ AllTypes' /\ LossInv /\ [Next]_vars => LossInv'
  BY NextProgressHolds
<1> QED
  BY <1>1, <1>2, <1>3, InitLoss, PullInvariance, PTL DEF Spec
=============================================================================
