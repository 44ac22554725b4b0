------------------------- MODULE PushTransferProofs -------------------------
(***************************************************************************)
(* Proofs about PushTransfer: a console and a network are no more than the *)
(* environment that PushListener assumes, so what is proved of the         *)
(* listener holds of every transfer; what a call returns was true while it *)
(* was made; and a call that meets few mishaps returns a verdict.          *)
(***************************************************************************)
EXTENDS PushTransfer, PushListenerProofs

----------------------------------------------------------------------------
(* A network is a bag of datagrams; mostly its members matter, and not how many copies of each. *)

\* Sending adds the datagrams sent and no other.
LEMMA MembersAdded ==
    ASSUME NEW A, NEW B
    PROVE  DOMAIN (A (+) B) = DOMAIN A \cup DOMAIN B
BY DEF (+)

\* Taking copies away adds no member.
LEMMA MembersTaken ==
    ASSUME NEW A, NEW B
    PROVE  DOMAIN (A (-) B) \subseteq DOMAIN A
BY DEF (-)

\* A set read as a bag has its members.
LEMMA MembersOfSet ==
    ASSUME NEW S
    PROVE  DOMAIN SetToBag(S) = S
BY DEF SetToBag

----------------------------------------------------------------------------
(* What the console sends.                                                 *)

\* The datagram is one of a push somebody tries, and names a chunk of it.
Fits(d) ==
    /\ d.of \in Attempts
    /\ d.kind = "chunk" => d.chunk \in DOMAIN d.of.image
    /\ d.kind = "delta" => d.chunk \in d.of.dirty

\* What is on its way to the server fits, and so will what the console sends next.
Sound ==
    /\ save \in Saves
    /\ want \subseteq Chunks
    /\ pc = "declare" => want \subseteq save.dirty
    /\ \A d \in DOMAIN requests : Fits(d)

\* The parts of a push that is tried.
LEMMA SaveTypes ==
    ASSUME NEW a \in Saves
    PROVE  /\ a \in Attempts
           /\ Whole(a) \in Attempts
           /\ Whole(a).image = a.image
           /\ Whole(a).dirty = a.dirty
           /\ a.dirty \subseteq DOMAIN a.image
<1>1. a \in Attempts /\ Whole(a) \in Attempts
  BY TransferAssumption
<1>2. a \in Attempt
  BY <1>1, ListenerAssumption
<1>3. Whole(a).image = a.image /\ Whole(a).dirty = a.dirty
  BY <1>2 DEF Whole, Attempt
<1> QED
  BY <1>1, <1>3, ListenerAssumption

\* The running push_once pushes the image and the chunks of its save.
LEMMA CurrentTypes ==
    ASSUME save \in Saves
    PROVE  Current \in Attempts /\ Current.image = save.image /\ Current.dirty = save.dirty
BY SaveTypes DEF Current

\* Adding datagrams that fit.
LEMMA EmitFits ==
    ASSUME NEW datagrams, Emit(datagrams),
           \A d \in datagrams : Fits(d), \A d \in DOMAIN requests : Fits(d)
    PROVE  \A d \in DOMAIN requests' : Fits(d)
<1>1. DOMAIN requests' = DOMAIN requests \cup DOMAIN SetToBag(datagrams)
  BY MembersAdded DEF Emit
<1>2. DOMAIN SetToBag(datagrams) = datagrams
  BY MembersOfSet
<1> QED
  BY <1>1, <1>2

\* Taking a datagram off the network.
LEMMA TakenFits ==
    ASSUME NEW d, requests' = requests (-) SetToBag({d}), \A e \in DOMAIN requests : Fits(e)
    PROVE  \A e \in DOMAIN requests' : Fits(e)
BY MembersTaken

\* A PUSH_BEGIN fits.
LEMMA BeginSound ==
    ASSUME Sound, NEW a \in Saves, NEW asDelta, NEW second, Begin(a, asDelta, second)
    PROVE  Sound'
<1> DEFINE d == [kind |-> "begin", of |-> IF asDelta THEN a ELSE Whole(a), chunk |-> 0]
<1>1. Fits(d)
  BY SaveTypes DEF Fits
<1>2. \A e \in DOMAIN requests' : Fits(e)
  BY <1>1, EmitFits DEF Begin, Ask, Sound
<1> QED
  BY <1>2 DEF Begin, Ask, Sound, Chunks

\* A round sends chunks of the card.
LEMMA RoundSound ==
    ASSUME Sound, UNCHANGED save, NEW chunks \in SUBSET Chunks, NEW n, SendRound(chunks, n)
    PROVE  Sound'
<1>1. \A d \in {Datagram("chunk", i) : i \in chunks} \cup {Datagram("end", 0)} : Fits(d)
  BY CurrentTypes DEF Sound, Datagram, Fits, Chunks
<1>2. \A d \in DOMAIN requests' : Fits(d)
  BY <1>1, EmitFits DEF SendRound, Sound
<1> QED
  BY <1>2 DEF SendRound, Sound, Chunks

\* A control message of the running push_once fits.
LEMMA AskSound ==
    ASSUME Sound, UNCHANGED save, NEW step, NEW kind \in {"begin", "delta"}, NEW i, NEW n,
           kind = "delta" => i \in save.dirty,
           Ask(step, Datagram(kind, i), n)
    PROVE  \A d \in DOMAIN requests' : Fits(d)
<1>1. Fits(Datagram(kind, i))
  BY CurrentTypes DEF Sound, Datagram, Fits
<1> QED
  BY <1>1, EmitFits DEF Ask, Sound

\* The next window is declared, or the first round is sent.
LEMMA DeclareSound ==
    ASSUME Sound, UNCHANGED save, NEW undeclared \in SUBSET save.dirty, DeclareOrSend(undeclared)
    PROVE  Sound'
<1>1. CASE undeclared = {}
  <2>1. Owed \in SUBSET Chunks
    BY SaveTypes DEF Owed, Chunks, Sound
  <2> QED
    BY <1>1, <2>1, RoundSound DEF DeclareOrSend
<1>2. CASE undeclared # {}
  <2>1. PICK i \in undeclared : Ask("declare", Datagram("delta", i), 1)
    BY <1>2 DEF DeclareOrSend
  <2>2. \A d \in DOMAIN requests' : Fits(d)
    BY <2>1, AskSound
  <2>3. want' = undeclared /\ undeclared \subseteq Chunks
    BY <1>2, SaveTypes DEF DeclareOrSend, Chunks, Sound
  <2> QED
    BY <2>2, <2>3 DEF Sound, Chunks
<1> QED
  BY <1>1, <1>2

\* The call returns, or starts over with the whole card.
LEMMA FinishSound ==
    ASSUME Sound, NEW code, NEW version, Finish(code, version)
    PROVE  Sound'
<1>1. CASE Begin(save, FALSE, TRUE)
  BY <1>1, BeginSound DEF Sound
<1>2. CASE pc' = "idle" /\ UNCHANGED <<requests, save, want>>
  BY <1>2 DEF Sound, Chunks
<1> QED
  BY <1>1, <1>2 DEF Finish

\* Whatever reply the console hears, it goes on soundly.
LEMMA HearSound ==
    ASSUME Sound, NEW r, HearBegin(r) \/ HearDeclare(r) \/ HearVerdict(r)
    PROVE  Sound'
<1>1. CASE HearBegin(r)
  <2>1. CASE UNCHANGED save /\ DeclareOrSend(IF delta THEN save.dirty ELSE {})
    BY <2>1, DeclareSound
  <2>2. CASE Begin(save, FALSE, again)
    BY <2>2, BeginSound DEF Sound
  <2>3. CASE Finish(r.code, r.version)
    BY <2>3, FinishSound
  <2> QED
    BY <1>1, <2>1, <2>2, <2>3 DEF HearBegin
<1>2. CASE HearDeclare(r)
  <2>1. CASE r.code = "ack"
    <3>1. PICK i \in want : DeclareOrSend(want \ Window(save, i))
      BY <1>2, <2>1 DEF HearDeclare
    <3>2. UNCHANGED save /\ want \ Window(save, i) \in SUBSET save.dirty
      BY <1>2, <2>1 DEF HearDeclare, Sound
    <3> QED
      BY <3>1, <3>2, DeclareSound
  <2>2. CASE Finish(r.code, r.version)
    BY <2>2, FinishSound
  <2> QED
    BY <1>2, <2>1, <2>2 DEF HearDeclare
<1>3. CASE HearVerdict(r)
  <2>1. CASE r.code = "missing"
    <3>1. want' \subseteq Chunks /\ pc' = "gaps" /\ UNCHANGED <<requests, save>>
      BY <1>3, <2>1 DEF HearVerdict, Sound
    <3> QED
      BY <3>1 DEF Sound, Chunks
  <2>2. CASE Finish(r.code, r.version)
    BY <2>2, FinishSound
  <2> QED
    BY <1>3, <2>1, <2>2 DEF HearVerdict
<1> QED
  BY <1>1, <1>2, <1>3

\* What is sent again was sound to send.
LEMMA AskAgainSound ==
    ASSUME Sound, AskAgain
    PROVE  Sound'
<1>1. CASE Ask("begin", Datagram("begin", 0), tries + 1) /\ UNCHANGED <<save, want>>
  <2>1. \A d \in DOMAIN requests' : Fits(d)
    BY <1>1, AskSound
  <2> QED
    BY <1>1, <2>1 DEF Sound, Chunks, Ask
<1>2. ASSUME NEW i \in want, pc = "declare",
             Ask("declare", Datagram("delta", i), tries + 1), UNCHANGED <<save, want>>
      PROVE  Sound'
  <2>1. \A d \in DOMAIN requests' : Fits(d)
    BY <1>2, AskSound DEF Sound
  <2> QED
    BY <1>2, <2>1 DEF Sound, Chunks
<1>3. CASE SendRound(want, tries + 1) /\ UNCHANGED save
  BY <1>3, RoundSound DEF Sound
<1>4. CASE Finish("gave_up", 0)
  BY <1>4, FinishSound
<1> QED
  BY <1>1, <1>2, <1>3, <1>4 DEF AskAgain

----------------------------------------------------------------------------
(* Every step of a transfer is a step of the listener, or none.            *)

\* Every step of a transfer keeps what is sent sound.
LEMMA SoundInv == Sound /\ [TNext]_tvars => Sound'
<1> SUFFICES ASSUME Sound, [TNext]_tvars PROVE Sound'
  OBVIOUS
<1>1. CASE UNCHANGED <<pc, save, want, requests>>
  BY <1>1 DEF Sound, Chunks
<1>2. ASSUME NEW a \in Saves, Start(a) PROVE Sound'
  BY <1>2, BeginSound DEF Start
<1>3. CASE Timeout
  BY <1>3, AskAgainSound DEF Timeout
<1>4. ASSUME NEW r \in BagToSet(replies), Hear(r) PROVE Sound'
  BY <1>4, HearSound DEF Hear
<1>5. ASSUME NEW d, Deliver(d) \/ LoseRequest(d) \/ Throttle(d) PROVE Sound'
  <2>1. \A e \in DOMAIN requests' : Fits(e)
    BY <1>5, TakenFits DEF Deliver, LoseRequest, Throttle, Sound
  <2> QED
    BY <1>5, <2>1 DEF Deliver, LoseRequest, Throttle, console, Sound, Chunks
<1>6. CASE \/ \E t \in Tasks : ThreadDone(t)
           \/ \E r \in BagToSet(replies) : LoseReply(r)
           \/ ServerTrouble
           \/ \E i \in OtherImages : OtherCommits(i)
  <2>1. UNCHANGED <<requests, console>>
    BY <1>6 DEF ThreadDone, LoseReply, ServerTrouble, OtherCommits
  <2> QED
    BY <1>1, <2>1 DEF console
<1>7. CASE UNCHANGED tvars
  BY <1>1, <1>7 DEF tvars, console
<1> QED
  BY <1>2, <1>3, <1>4, <1>5, <1>6, <1>7 DEF TNext, Listen, Serve

\* A datagram that fits is one the listener's environment may deliver.
LEMMA DeliverIsReceive ==
    ASSUME Sound, NEW d, Deliver(d)
    PROVE  Next
<1>1. Fits(d)
  BY DEF Deliver, BagIn, BagToSet, Sound
<1>2. Receive(d.of)
  BY <1>1 DEF Deliver, Receive, Fits
<1> QED
  BY <1>1, <1>2 DEF Next, Fits

\* Every step of a transfer is a step of the listener or leaves it alone.
LEMMA StepIsListenerStep == Sound /\ [TNext]_tvars => [Next]_vars
<1> SUFFICES ASSUME Sound, [TNext]_tvars PROVE [Next]_vars
  OBVIOUS
<1>1. CASE Drop
  BY <1>1 DEF Next
<1>2. ASSUME NEW d, Deliver(d) PROVE Next
  BY <1>2, DeliverIsReceive
<1>3. ASSUME NEW t \in Tasks, ThreadDone(t) PROVE Next
  BY <1>3 DEF ThreadDone, Next
<1>4. CASE ServerTrouble
  BY <1>4 DEF ServerTrouble, Next
<1>5. ASSUME NEW i \in OtherImages, OtherCommits(i) PROVE Next
  BY <1>5 DEF OtherCommits, Next
<1>6. CASE UNCHANGED tvars
  BY <1>6 DEF tvars
<1> QED
  BY <1>1, <1>2, <1>3, <1>4, <1>5, <1>6
  DEF TNext, Listen, Serve, Start, Timeout, Hear, LoseRequest, LoseReply, Throttle

\* At the start nothing has been sent.
LEMMA SoundAtFirst == TInit => Init /\ Sound
BY MembersOfSet DEF TInit, Sound, EmptyBag

\* Console, network and listener together behave as the listener does in the
\* environment PushListener assumes, whatever saves are pushed, however many rounds
\* a push has and whatever goes wrong: ActsAsListener, for every value of the
\* constants.
THEOREM TransferActsAsListener == TransferSpec => ActsAsListener
BY SoundAtFirst, SoundInv, StepIsListenerStep, PTL DEF TransferSpec, ActsAsListener, Spec

\* What is committed in the name of a push is the whole image the console meant to
\* push, over the version it named, and buffers, counters and replies keep their
\* invariants in every transfer.
THEOREM TransfersAreSafe == TransferSpec => []IInv
BY TransferActsAsListener, ListenerInvariance, PTL DEF ActsAsListener
----------------------------------------------------------------------------
(* Types.                                                                  *)

\* A bag stays one when something is added or taken.
LEMMA AddedIsABag ==
    ASSUME NEW A, NEW B, IsABag(A), IsABag(B)
    PROVE  IsABag(A (+) B)
<1>1. \A e \in DOMAIN A \cup DOMAIN B :
         (IF e \in DOMAIN A THEN A[e] ELSE 0) + (IF e \in DOMAIN B THEN B[e] ELSE 0)
           \in {n \in Nat : n > 0}
  BY DEF IsABag
<1> QED
  BY <1>1 DEF (+), IsABag

\* See AddedIsABag.
LEMMA TakenIsABag ==
    ASSUME NEW A, NEW B, IsABag(A), IsABag(B)
    PROVE  IsABag(A (-) B)
<1> DEFINE C == [e \in DOMAIN A |-> IF e \in DOMAIN B THEN A[e] - B[e] ELSE A[e]]
           D == {d \in DOMAIN C : C[d] > 0}
<1>1. \A e \in D : C[e] \in {n \in Nat : n > 0}
  BY DEF IsABag
<1>2. A (-) B = [e \in D |-> C[e]]
  BY DEF (-)
<1> HIDE DEF C, D
<1> QED
  BY <1>1, <1>2 DEF IsABag

\* See AddedIsABag.
LEMMA SetIsABag ==
    ASSUME NEW S
    PROVE  IsABag(SetToBag(S)) /\ IsABag(EmptyBag)
BY DEF SetToBag, EmptyBag, IsABag

\* The datagrams on their way, of the console.
RequestTypes == IsABag(requests) /\ DOMAIN requests \subseteq Datagrams

\* The datagrams on their way, of the server.
AnswerTypes == IsABag(replies) /\ DOMAIN replies \subseteq Replies

\* The variables of the console that are not about its save.
ConsoleTypes ==
    /\ pc \in {"idle", "begin", "declare", "end", "gaps"}
    /\ {delta, again} \subseteq BOOLEAN
    /\ tries \in 0..MaxRounds
    /\ result \in [code : Codes \cup {"none", "gave_up"}, version : Nat]

\* Everything the invariant of types says that Sound does not say.
LEMMA TypesInParts ==
    /\ TransferTypeOK <=> /\ RequestTypes /\ AnswerTypes /\ ConsoleTypes
                          /\ save \in Saves /\ want \subseteq Chunks
                          /\ since \in 0..Len(history) /\ pushes \in 0..MaxPushes
                          /\ mishaps \in [Kinds -> 0..MaxRounds]
    /\ TransferTypeOK' <=> /\ RequestTypes' /\ AnswerTypes' /\ ConsoleTypes'
                           /\ save' \in Saves /\ want' \subseteq Chunks'
                           /\ since' \in 0..Len(history') /\ pushes' \in 0..MaxPushes
                           /\ mishaps' \in [Kinds -> 0..MaxRounds]
BY DEF TransferTypeOK, RequestTypes, AnswerTypes, ConsoleTypes, BagToSet

\* The chunks of a save are numbered from one.
LEMMA ChunkNumbers ==
    ASSUME NEW a \in Saves
    PROVE  /\ DOMAIN a.image \subseteq Nat \ {0}
           /\ a.dirty \subseteq Nat \ {0}
           /\ a.key \in Keys /\ a.parent \in Nat /\ a.delta \in BOOLEAN
           /\ a.image \in Seq(Contents)
<1>1. a \in Attempts
  BY SaveTypes
<1>2. /\ a.image \in Seq(Contents) /\ a.dirty \subseteq DOMAIN a.image
      /\ a.key \in Keys /\ a.parent \in Nat /\ a.delta \in BOOLEAN
  BY <1>1, AttemptTypes
<1> QED
  BY <1>2

\* What is emitted is typed.
LEMMA EmitTypes ==
    ASSUME RequestTypes, NEW S \in SUBSET Datagrams, Emit(S)
    PROVE  RequestTypes' /\ DOMAIN requests' = DOMAIN requests \cup S
<1>1. IsABag(requests') /\ DOMAIN requests' = DOMAIN requests \cup S
  BY AddedIsABag, SetIsABag, MembersAdded, MembersOfSet DEF Emit, RequestTypes
<1> QED
  BY <1>1 DEF RequestTypes

\* What is left when a datagram is taken is typed.
LEMMA TakenTypes ==
    ASSUME NEW d
    PROVE  /\ RequestTypes /\ requests' = requests (-) SetToBag({d})
                => RequestTypes' /\ DOMAIN requests' \subseteq DOMAIN requests
           /\ AnswerTypes /\ replies' = replies (-) SetToBag({d})
                => AnswerTypes' /\ DOMAIN replies' \subseteq DOMAIN replies
<1>1. ASSUME RequestTypes, requests' = requests (-) SetToBag({d})
      PROVE  RequestTypes' /\ DOMAIN requests' \subseteq DOMAIN requests
  BY <1>1, TakenIsABag, SetIsABag, MembersTaken DEF RequestTypes
<1>2. ASSUME AnswerTypes, replies' = replies (-) SetToBag({d})
      PROVE  AnswerTypes' /\ DOMAIN replies' \subseteq DOMAIN replies
  BY <1>2, TakenIsABag, SetIsABag, MembersTaken DEF AnswerTypes
<1> QED
  BY <1>1, <1>2

\* What is answered is typed.
LEMMA AnsweredTypes ==
    ASSUME AnswerTypes, NEW S \in SUBSET Replies, replies' = replies (+) SetToBag(S)
    PROVE  AnswerTypes' /\ DOMAIN replies' = DOMAIN replies \cup S
<1>1. IsABag(replies') /\ DOMAIN replies' = DOMAIN replies \cup S
  BY AddedIsABag, SetIsABag, MembersAdded, MembersOfSet DEF AnswerTypes
<1> QED
  BY <1>1 DEF AnswerTypes

\* What the listener sends back is typed on the wire.
LEMMA OutgoingTypes ==
    ASSUME TypeOK'
    PROVE  Outgoing(reply') \in SUBSET Replies
<1>1. CASE reply' = Silence
  BY <1>1 DEF Outgoing
<1>2. CASE reply' # Silence
  <2>1. reply' \in [kind : {"begin", "delta", "chunk", "end"}, to : Attempts,
                    code : Codes, version : Nat, gaps : SUBSET Nat]
    BY <1>2 DEF TypeOK
  <2> QED
    BY <1>2, <2>1 DEF Outgoing, Replies
<1> QED
  BY <1>1, <1>2

\* A datagram of the running push_once is typed.
LEMMA DatagramTypes ==
    ASSUME save \in Saves, NEW i \in Nat
    PROVE  \A kind \in {"begin", "delta", "chunk", "end"} : Datagram(kind, i) \in Datagrams
<1>1. Current \in Attempts
  BY CurrentTypes
<1> QED
  BY <1>1 DEF Datagram, Datagrams

\* A transfer that begins is typed.
LEMMA BeginTypes ==
    ASSUME RequestTypes, ConsoleTypes, NEW a \in Saves, NEW asDelta \in BOOLEAN,
           NEW second \in BOOLEAN, Begin(a, asDelta, second),
           result' \in [code : Codes \cup {"none", "gave_up"}, version : Nat]
    PROVE  RequestTypes' /\ ConsoleTypes'
<1> DEFINE d == [kind |-> "begin", of |-> IF asDelta THEN a ELSE Whole(a), chunk |-> 0]
<1>1. {d} \in SUBSET Datagrams
  BY SaveTypes DEF Datagrams
<1>2. Emit({d}) /\ pc' = "begin" /\ tries' = 1 /\ delta' = asDelta /\ again' = second
  BY DEF Begin, Ask
<1> HIDE DEF d
<1>3. RequestTypes'
  BY <1>1, <1>2, EmitTypes
<1>4. 1 \in 0..MaxRounds
  BY TransferAssumption
<1> QED
  BY <1>2, <1>3, <1>4 DEF ConsoleTypes

\* A control message emitted for the n-th time is typed.
LEMMA AskTypes ==
    ASSUME RequestTypes, ConsoleTypes, NEW step \in {"begin", "declare"}, NEW d \in Datagrams,
           NEW n \in 0..MaxRounds, Ask(step, d, n), UNCHANGED <<delta, again, result>>
    PROVE  RequestTypes' /\ ConsoleTypes'
<1>1. RequestTypes'
  BY EmitTypes DEF Ask
<1> QED
  BY <1>1 DEF Ask, ConsoleTypes

\* A round is typed.
LEMMA RoundTypes ==
    ASSUME RequestTypes, ConsoleTypes, save \in Saves, NEW chunks \in SUBSET Chunks,
           NEW n \in 0..MaxRounds, SendRound(chunks, n), UNCHANGED <<delta, again, result>>
    PROVE  RequestTypes' /\ ConsoleTypes'
<1> DEFINE S == {Datagram("chunk", i) : i \in chunks} \cup {Datagram("end", 0)}
<1>1. S \in SUBSET Datagrams
  BY DatagramTypes, ChunkNumbers DEF Chunks
<1>2. Emit(S) /\ pc' = "end" /\ tries' = n
  BY DEF SendRound
<1> HIDE DEF S
<1>3. RequestTypes'
  BY <1>1, <1>2, EmitTypes
<1> QED
  BY <1>2, <1>3 DEF ConsoleTypes

\* The next window, or the first round, is typed.
LEMMA DeclareTypes ==
    ASSUME RequestTypes, ConsoleTypes, save \in Saves, NEW undeclared \in SUBSET save.dirty,
           DeclareOrSend(undeclared), UNCHANGED <<delta, again, result>>
    PROVE  RequestTypes' /\ ConsoleTypes'
<1>1. 1 \in 0..MaxRounds
  BY TransferAssumption
<1>2. CASE undeclared = {}
  <2>1. Owed \in SUBSET Chunks
    BY SaveTypes DEF Owed, Chunks
  <2> QED
    BY <1>1, <1>2, <2>1, RoundTypes DEF DeclareOrSend
<1>3. CASE undeclared # {}
  <2>1. PICK i \in undeclared : Ask("declare", Datagram("delta", i), 1)
    BY <1>3 DEF DeclareOrSend
  <2>2. Datagram("delta", i) \in Datagrams
    BY DatagramTypes, ChunkNumbers
  <2> QED
    BY <1>1, <2>1, <2>2, AskTypes
<1> QED
  BY <1>2, <1>3

\* The end of push_once is typed.
LEMMA FinishTypes ==
    ASSUME RequestTypes, ConsoleTypes, save \in Saves, NEW code \in Codes \cup {"gave_up"},
           NEW version \in Nat, Finish(code, version)
    PROVE  RequestTypes' /\ ConsoleTypes'
<1>1. CASE Begin(save, FALSE, TRUE) /\ UNCHANGED result
  <2>1. result' \in [code : Codes \cup {"none", "gave_up"}, version : Nat]
    BY <1>1 DEF ConsoleTypes
  <2> QED
    BY <1>1, <2>1, BeginTypes
<1>2. CASE /\ result' = [code |-> code, version |-> version] /\ pc' = "idle"
           /\ UNCHANGED <<requests, save, delta, again, tries, want>>
  BY <1>2 DEF RequestTypes, ConsoleTypes
<1> QED
  BY <1>1, <1>2 DEF Finish

\* What the console makes of a reply is typed.
LEMMA HearTypes ==
    ASSUME RequestTypes, ConsoleTypes, Sound, NEW r \in Replies,
           HearBegin(r) \/ HearDeclare(r) \/ HearVerdict(r)
    PROVE  RequestTypes' /\ ConsoleTypes'
<1> USE DEF Sound
<1>1. r.code \in Codes \cup {"gave_up"} /\ r.version \in Nat
  BY DEF Replies
<1>2. CASE HearBegin(r)
  <2>1. CASE /\ UNCHANGED <<save, delta, again, result>>
             /\ DeclareOrSend(IF delta THEN save.dirty ELSE {})
    <3>1. (IF delta THEN save.dirty ELSE {}) \in SUBSET save.dirty
      OBVIOUS
    <3> QED
      BY <2>1, <3>1, DeclareTypes
  <2>2. CASE Begin(save, FALSE, again) /\ UNCHANGED result
    <3>1. again \in BOOLEAN /\ result' \in [code : Codes \cup {"none", "gave_up"}, version : Nat]
      BY <2>2 DEF ConsoleTypes
    <3> QED
      BY <2>2, <3>1, BeginTypes
  <2>3. CASE Finish(r.code, r.version)
    BY <1>1, <2>3, FinishTypes
  <2> QED
    BY <1>2, <2>1, <2>2, <2>3 DEF HearBegin
<1>3. CASE HearDeclare(r)
  <2>1. CASE r.code = "ack"
    <3>1. PICK i \in want : DeclareOrSend(want \ Window(save, i))
      BY <1>3, <2>1 DEF HearDeclare
    <3>2. want \ Window(save, i) \in SUBSET save.dirty /\ UNCHANGED <<save, delta, again, result>>
      BY <1>3, <2>1 DEF HearDeclare
    <3> QED
      BY <3>1, <3>2, DeclareTypes
  <2>2. CASE Finish(r.code, r.version)
    BY <1>1, <2>2, FinishTypes
  <2> QED
    BY <1>3, <2>1, <2>2 DEF HearDeclare
<1>4. CASE HearVerdict(r)
  <2>1. CASE /\ pc' = "gaps" /\ UNCHANGED <<requests, save, delta, again, tries, result>>
    BY <2>1 DEF RequestTypes, ConsoleTypes
  <2>2. CASE Finish(r.code, r.version)
    BY <1>1, <2>2, FinishTypes
  <2> QED
    BY <1>4, <2>1, <2>2 DEF HearVerdict
<1> QED
  BY <1>2, <1>3, <1>4

\* What the console repeats is typed; it does not repeat itself too often.
LEMMA AskAgainTypes ==
    ASSUME RequestTypes, ConsoleTypes, Sound, AskAgain
    PROVE  RequestTypes' /\ ConsoleTypes'
<1> USE DEF Sound
<1>1. tries \in Nat /\ (tries < MaxRounds => tries + 1 \in 0..MaxRounds)
  BY TransferAssumption DEF ConsoleTypes
<1>2. CASE /\ pc = "begin" /\ tries < MaxRounds
           /\ Ask("begin", Datagram("begin", 0), tries + 1)
           /\ UNCHANGED <<save, delta, again, want, result>>
  <2>1. Datagram("begin", 0) \in Datagrams
    BY DatagramTypes
  <2> QED
    BY <1>1, <1>2, <2>1, AskTypes
<1>3. ASSUME NEW i \in want, tries < MaxRounds, Ask("declare", Datagram("delta", i), tries + 1),
             UNCHANGED <<save, delta, again, want, result>>
      PROVE  RequestTypes' /\ ConsoleTypes'
  <2>1. Datagram("delta", i) \in Datagrams
    BY DatagramTypes, ChunkNumbers DEF Chunks
  <2> QED
    BY <1>1, <1>3, <2>1, AskTypes
<1>4. CASE /\ tries < MaxRounds /\ SendRound(want, tries + 1)
           /\ UNCHANGED <<save, delta, again, result>>
  BY <1>1, <1>4, RoundTypes
<1>5. CASE Finish("gave_up", 0)
  BY <1>5, FinishTypes
<1> QED
  BY <1>2, <1>3, <1>4, <1>5 DEF AskAgain

\* Mishaps are counted within bounds, and never forgotten.
LEMMA MishapTypes ==
    ASSUME mishaps \in [Kinds -> 0..MaxRounds], NEW kind \in Kinds, Mishap(kind)
    PROVE  /\ mishaps' \in [Kinds -> 0..MaxRounds]
           /\ mishaps'[kind] > 0
           /\ \A k \in Kinds : mishaps'[k] >= mishaps[k]
           /\ \A k \in Kinds \ {kind} : mishaps'[k] = mishaps[k]
           /\ mishaps[kind] < MaxRounds => mishaps'[kind] = mishaps[kind] + 1
<1>1. MaxRounds \in Nat \ {0}
  BY TransferAssumption
<1>2. mishaps' = [mishaps EXCEPT ![kind] = IF @ < MaxRounds THEN @ + 1 ELSE @]
  BY DEF Mishap
<1> QED
  BY <1>1, <1>2

\* Versions are only added.
LEMMA HistoryGrows ==
    ASSUME IInv, [Next]_vars
    PROVE  Grows
<1>1. HistoryTypes /\ TaskTypes
  BY PartsMakeInv DEF Parts
<1>2. CASE UNCHANGED history
  BY <1>1, <1>2, UnchangedGrows
<1>3. ASSUME NEW t \in Tasks, StorePush(t)
      PROVE  Grows
  <2>1. CASE /\ task[t].image \in ValidImages
             /\ history' = Append(history, Version(task[t].image, task[t].attempt.key))
    <3>1. task[t].attempt \in Attempts
      BY <1>1, <1>3 DEF TaskTypes, Task, Idle, StorePush
    <3>2. task[t].attempt.key \in Keys
      BY <3>1, AttemptTypes
    <3> QED
      BY <1>1, <2>1, <3>2, AppendGrows
  <2> QED
    BY <1>2, <1>3, <2>1 DEF StorePush
<1>4. ASSUME NEW i \in OtherImages, CommitElsewhere(i)
      PROVE  Grows
  BY <1>1, <1>4, ListenerAssumption, AppendGrows DEF CommitElsewhere
<1>5. ASSUME NEW a \in Attempts, Receive(a)
      PROVE  UNCHANGED history
  BY <1>5 DEF Receive, OnPushBegin, OnPushEnd, OnPushDelta, OnPushChunk
<1> QED
  BY <1>2, <1>3, <1>4, <1>5
  DEF Next, vars, ResumeBegin, StoreFails, ResumeEnd, SweepStaging, SweepSettled, Drop, Restart

\* Every step keeps the types.
LEMMA TypesStep ==
    ASSUME IInv, IInv', Sound, Sound', TransferTypeOK, [TNext]_tvars
    PROVE  TransferTypeOK'
<1>1. /\ RequestTypes /\ AnswerTypes /\ ConsoleTypes
      /\ since \in 0..Len(history) /\ pushes \in 0..MaxPushes
      /\ mishaps \in [Kinds -> 0..MaxRounds]
  BY TypesInParts
<1>2. TypeOK' /\ HistoryTypes /\ HistoryTypes' /\ Grows
  BY StepIsListenerStep, HistoryGrows, PartsMakeInv DEF IInv, Parts
<1>3. Len(history) \in Nat /\ Len(history') \in Nat /\ Len(history') >= Len(history)
  BY <1>2 DEF HistoryTypes, Grows
<1>4. Kinds = {"lost", "overtaken", "receipt", "late", "server"}
  BY DEF Kinds
<1> SUFFICES /\ RequestTypes' /\ AnswerTypes' /\ ConsoleTypes'
             /\ since' \in 0..Len(history') /\ pushes' \in 0..MaxPushes
             /\ mishaps' \in [Kinds -> 0..MaxRounds]
  BY TypesInParts DEF Sound
<1>5. UNCHANGED since => since' \in 0..Len(history')
  BY <1>1, <1>3
<1>6. UNCHANGED console => ConsoleTypes' /\ UNCHANGED <<since, pushes>>
  BY <1>1 DEF console, ConsoleTypes
<1>7. UNCHANGED requests => RequestTypes'
  BY <1>1 DEF RequestTypes
<1>8. UNCHANGED replies => AnswerTypes'
  BY <1>1 DEF AnswerTypes
<1>9. Respond => AnswerTypes'
  BY <1>1, <1>2, OutgoingTypes, AnsweredTypes DEF Respond
<1>10. CASE UNCHANGED tvars
  BY <1>1, <1>5, <1>6, <1>7, <1>8, <1>10 DEF tvars
<1>11. ASSUME NEW a \in Saves, Start(a)
       PROVE  /\ RequestTypes' /\ AnswerTypes' /\ ConsoleTypes'
              /\ since' \in 0..Len(history') /\ pushes' \in 0..MaxPushes
              /\ mishaps' \in [Kinds -> 0..MaxRounds]
  <2>1. a.delta \in BOOLEAN
    BY ChunkNumbers
  <2>2. result' \in [code : Codes \cup {"none", "gave_up"}, version : Nat]
    BY <1>11 DEF Start, NoResult
  <2>3. RequestTypes' /\ ConsoleTypes'
    BY <1>1, <1>11, <2>1, <2>2, BeginTypes DEF Start
  <2>4. since' \in 0..Len(history') /\ pushes' \in 0..MaxPushes
    BY <1>1, <1>3, <1>11, TransferAssumption DEF Start, Drop
  <2>5. AnswerTypes'
    BY <1>1, <1>8, <1>11, SetIsABag, MembersOfSet DEF Start, AnswerTypes, EmptyBag
  <2>6. mishaps' \in [Kinds -> 0..MaxRounds]
    BY <1>1, <1>4, <1>11, MishapTypes DEF Start
  <2> QED
    BY <2>3, <2>4, <2>5, <2>6
<1>12. CASE Timeout
  <2>1. RequestTypes' /\ ConsoleTypes'
    BY <1>1, <1>12, AskAgainTypes DEF Timeout
  <2>2. UNCHANGED <<replies, since, pushes>>
    BY <1>12 DEF Timeout
  <2>3. mishaps' \in [Kinds -> 0..MaxRounds]
    BY <1>1, <1>4, <1>12, MishapTypes DEF Timeout
  <2> QED
    BY <1>1, <1>5, <1>8, <2>1, <2>2, <2>3
<1>13. ASSUME NEW r \in BagToSet(replies), Hear(r)
       PROVE  /\ RequestTypes' /\ AnswerTypes' /\ ConsoleTypes'
              /\ since' \in 0..Len(history') /\ pushes' \in 0..MaxPushes
              /\ mishaps' \in [Kinds -> 0..MaxRounds]
  <2>1. r \in Replies
    BY <1>1 DEF AnswerTypes, BagToSet
  <2>2. RequestTypes' /\ ConsoleTypes'
    BY <1>1, <1>13, <2>1, HearTypes DEF Hear
  <2>3. AnswerTypes' /\ UNCHANGED <<since, pushes, mishaps>>
    BY <1>1, <1>13, TakenTypes DEF Hear
  <2> QED
    BY <1>1, <1>5, <2>2, <2>3
<1>14. ASSUME NEW d \in BagToSet(requests), Deliver(d)
       PROVE  /\ RequestTypes' /\ AnswerTypes' /\ ConsoleTypes'
              /\ since' \in 0..Len(history') /\ pushes' \in 0..MaxPushes
              /\ mishaps' \in [Kinds -> 0..MaxRounds]
  <2>1. RequestTypes' /\ AnswerTypes' /\ UNCHANGED console
    BY <1>1, <1>9, <1>14, TakenTypes DEF Deliver
  <2>2. mishaps' \in [Kinds -> 0..MaxRounds]
    BY <1>1, <1>4, <1>14, MishapTypes DEF Deliver
  <2> QED
    BY <1>1, <1>5, <1>6, <2>1, <2>2
<1>15. ASSUME NEW d \in BagToSet(requests), LoseRequest(d) \/ Throttle(d)
       PROVE  /\ RequestTypes' /\ AnswerTypes' /\ ConsoleTypes'
              /\ since' \in 0..Len(history') /\ pushes' \in 0..MaxPushes
              /\ mishaps' \in [Kinds -> 0..MaxRounds]
  <2>1. RequestTypes' /\ UNCHANGED console
    BY <1>1, <1>15, TakenTypes DEF LoseRequest, Throttle
  <2>2. mishaps' \in [Kinds -> 0..MaxRounds]
    BY <1>1, <1>4, <1>15, MishapTypes DEF LoseRequest, Throttle
  <2>3. AnswerTypes'
    <3>1. CASE LoseRequest(d)
      BY <1>8, <3>1 DEF LoseRequest
    <3>2. CASE Throttle(d)
      <4> DEFINE S == {[to |-> d.kind, code |-> "rate_limited", version |-> 0, gaps |-> {}]}
      <4>1. d \in Datagrams
        BY <1>1 DEF RequestTypes, BagToSet
      <4>2. S \in SUBSET Replies
        BY <4>1 DEF Datagrams, Replies, Codes
      <4>3. replies' = replies (+) SetToBag(S)
        BY <3>2 DEF Throttle
      <4> HIDE DEF S
      <4> QED
        BY <1>1, <4>2, <4>3, AnsweredTypes
    <3> QED
      BY <1>15, <3>1, <3>2
  <2> QED
    BY <1>1, <1>5, <1>6, <2>1, <2>2, <2>3
<1>16. ASSUME NEW r \in BagToSet(replies), LoseReply(r)
       PROVE  /\ RequestTypes' /\ AnswerTypes' /\ ConsoleTypes'
              /\ since' \in 0..Len(history') /\ pushes' \in 0..MaxPushes
              /\ mishaps' \in [Kinds -> 0..MaxRounds]
  <2>1. AnswerTypes' /\ UNCHANGED <<requests, console>>
    BY <1>1, <1>16, TakenTypes DEF LoseReply
  <2>2. mishaps' \in [Kinds -> 0..MaxRounds]
    BY <1>1, <1>4, <1>16, MishapTypes DEF LoseReply
  <2> QED
    BY <1>1, <1>5, <1>6, <1>7, <2>1, <2>2
<1>17. CASE (\E t \in Tasks : ThreadDone(t)) \/ ServerTrouble
  <2>1. AnswerTypes' /\ UNCHANGED <<requests, console>>
    BY <1>9, <1>17 DEF ThreadDone, ServerTrouble
  <2>2. mishaps' \in [Kinds -> 0..MaxRounds]
    BY <1>1, <1>4, <1>17, MishapTypes DEF ThreadDone, ServerTrouble
  <2> QED
    BY <1>1, <1>5, <1>6, <1>7, <2>1, <2>2
<1>18. CASE \E i \in OtherImages : OtherCommits(i)
  BY <1>1, <1>5, <1>6, <1>7, <1>8, <1>18 DEF OtherCommits
<1> QED
  BY <1>10, <1>11, <1>12, <1>13, <1>14, <1>15, <1>16, <1>17, <1>18 DEF TNext, Listen, Serve

\* At the start every variable has its type.
LEMMA TypesAtFirst ==
    ASSUME TInit
    PROVE  TransferTypeOK
<1>1. Sound
  BY SoundAtFirst
<1>2. RequestTypes /\ AnswerTypes
  BY SetIsABag, MembersOfSet DEF TInit, RequestTypes, AnswerTypes, EmptyBag
<1>3. ConsoleTypes /\ pushes \in 0..MaxPushes /\ mishaps \in [Kinds -> 0..MaxRounds]
  <2>1. /\ 0 \in 0..MaxRounds /\ 0 \in 0..MaxPushes
        /\ NoResult \in [code : Codes \cup {"none", "gave_up"}, version : Nat]
    BY TransferAssumption DEF NoResult
  <2>2. tries = 0 /\ pushes = 0 /\ result = NoResult /\ mishaps = [k \in Kinds |-> 0]
    BY DEF TInit
  <2>3. pc = "idle" /\ {delta, again} \subseteq BOOLEAN
    BY DEF TInit
  <2> QED
    BY <2>1, <2>2, <2>3 DEF ConsoleTypes
<1>4. since \in 0..Len(history)
  BY DEF TInit, Init
<1> QED
  BY <1>1, <1>2, <1>3, <1>4, TypesInParts DEF Sound

\* Every variable of the console and of the network keeps its type, whatever is lost,
\* overtaken or refused: no control message and no round is sent more often than
\* max_rounds allows, and only chunks of the card are asked for.
THEOREM TransferTypes == TransferSpec => []TransferTypeOK
<1>1. TInit => Init /\ Sound /\ TransferTypeOK
  BY SoundAtFirst, TypesAtFirst
<1>2. TransferTypeOK /\ IInv /\ IInv' /\ Sound /\ Sound' /\ [TNext]_tvars => TransferTypeOK'
  BY TypesStep
<1> QED
  BY <1>1, <1>2, SoundInv, TransfersAreSafe, PTL DEF TransferSpec
----------------------------------------------------------------------------
(* What a call relies on while no timeout fires early.                     *)

\* The codes with which each kind of request can be answered.
AnswersTo == [begin |-> {"ack", "too_large", "malformed", "rate_limited", "delta_unavailable"},
              delta |-> {"ack", "malformed", "staging_expired", "rate_limited"},
              chunk |-> {"malformed", "staging_expired", "rate_limited"},
              end |-> {"ack", "checksum", "failed_validation", "conflict", "missing",
                       "staging_expired", "rate_limited"}]

AnswersFit == \A r \in DOMAIN replies : r.code \in AnswersTo[r.to]

\* What is on its way to the server other than chunks, and the answers to that.
ControlRequests == {d \in DOMAIN requests : d.kind # "chunk"}
ControlReplies == {r \in DOMAIN replies : r.to # "chunk"}

\* The handlers that wait for a thread.
Working == {t \in Tasks : task[t] # Idle}

\* The kind of request whose answer the console waits for at a step.
Expected(step) == IF step = "begin" THEN "begin" ELSE IF step = "declare" THEN "delta" ELSE "end"

\* Everything on its way belongs to the save.
OfTheSave ==
    /\ \A d \in DOMAIN requests : d.of \in {save, Whole(save)}
    /\ \A t \in Working : task[t].attempt \in {save, Whole(save)}

\* While the call runs, everything but chunks belongs to the request awaited.
InStep ==
    /\ \A d \in ControlRequests : d.kind = Expected(pc)
    /\ \A t \in Working : Expected(pc) = IF task[t].at = "seed" THEN "begin" ELSE "end"
    /\ \A r \in ControlReplies : r.to = Expected(pc)

\* One control exchange at a time: a datagram on its way to the server, or a handler
\* at work on it, or one answer on its way back, or lists of gaps.
OneExchange ==
    /\ \A d \in ControlRequests :
          requests[d] = 1 /\ ControlRequests = {d} /\ Working = {} /\ ControlReplies = {}
    /\ \A t \in Working : Working = {t} /\ ControlReplies = {}
    /\ \A r \in ControlReplies : r.code # "missing" => replies[r] = 1 /\ ControlReplies = {r}

\* Once the transfer is open the verdict on an earlier attempt is gone.
VerdictForgotten ==
    \/ pc = "declare"
    \/ pc = "begin" /\ \E r \in ControlReplies : r.code = "ack"
    => save.key \notin DOMAIN settled

\* A verdict on push a, called for when version `from` was the newest: it names one that was
\* the newest since. An acknowledged one holds the image, a conflicting one is not the
\* parent.
TrueOf(versions, from, a, code, version) ==
    /\ code = "ack" =>
          version \in DOMAIN versions /\ version >= from /\ versions[version].image = a.image
    /\ code = "conflict" => version \in from..Len(versions) \ {a.parent}

\* Every verdict that the console may still be told is true.
VerdictsTrue ==
    /\ \A t \in Working :
          task[t].at = "settle" => TrueOf(history, since, save, task[t].code, task[t].version)
    /\ \A r \in ControlReplies : r.to = "end" => TrueOf(history, since, save, r.code, r.version)
    /\ pc \in {"end", "gaps"} /\ save.key \in DOMAIN settled
          => TrueOf(history, since, save, settled[save.key].code, settled[save.key].version)

\* The call has committed the save.
CallCommitted == CommittedAfter(since)

\* The console is being told that the save is committed.
BeingTold == \/ \E t \in Working : task[t].at = "settle" /\ task[t].code = "ack"
             \/ \E r \in ControlReplies : r.to = "end" /\ r.code = "ack"

\* What the call has committed the console is being told.
CommitIsTold ==
    mishaps["receipt"] = 0 /\ mishaps["server"] = 0 /\ CallCommitted => BeingTold

Calm == pc # "idle" =>
    OfTheSave /\ InStep /\ OneExchange /\ VerdictForgotten /\ VerdictsTrue /\ CommitIsTold

\* The verdict that the call returned is true, and after a conflict nothing of the call
\* is left that could commit.
Rested == pc = "idle" =>
    /\ TrueOf(history, since, save, result.code, result.version)
    /\ result.code = "conflict" =>
          /\ ControlRequests = {} /\ Working = {}
          /\ mishaps["receipt"] = 0 /\ mishaps["server"] = 0 => ~ CallCommitted

\* What the steps go by.
StepContext ==
    /\ IInv /\ IInv' /\ TransferTypeOK /\ TransferTypeOK' /\ Sound /\ AnswersFit
    /\ mishaps'["late"] = 0

\* What the steps of a call go by.
CallContext == StepContext /\ pc # "idle" /\ Calm

\* The halves of a save are the same push in all but the delta flag.
LEMMA HalfTypes ==
    ASSUME NEW s \in Saves, NEW a \in {s, Whole(s)}
    PROVE  /\ a \in Attempts
           /\ a.key = s.key /\ a.parent = s.parent /\ a.image = s.image /\ a.dirty = s.dirty
<1>1. a \in Attempts /\ s \in Attempt
  BY SaveTypes, ListenerAssumption
<1> QED
  BY <1>1 DEF Whole, Attempt

\* What a listener's step has answered fits the request.
LEMMA ReplyFits ==
    ASSUME TypeOK, Next
    PROVE  reply' = Silence \/ reply'.code \in AnswersTo[reply'.kind]
<1> USE DEF AnswersTo, Echo, Say, Silence
<1>1. ASSUME NEW t \in Tasks, NEW a \in Attempts, OnPushBegin(t, a)
      PROVE  reply' = Silence \/ reply'.code \in AnswersTo[reply'.kind]
  BY <1>1 DEF OnPushBegin, RefuseBegin, Open
<1>2. ASSUME NEW t \in Tasks, NEW a \in Attempts, OnPushEnd(t, a)
      PROVE  reply' = Silence \/ reply'.code \in AnswersTo[reply'.kind]
  <2>1. CASE a.key \in DOMAIN settled /\ Say("end", a, settled[a.key].code, settled[a.key].version, {})
    <3>1. settled[a.key].code \in {"ack", "checksum", "failed_validation", "conflict"}
      BY <2>1 DEF TypeOK, Verdict
    <3> QED
      BY <2>1, <3>1
  <2> QED
    BY <1>2, <2>1 DEF OnPushEnd, Settle
<1>3. ASSUME NEW a \in Attempts, NEW i, OnPushDelta(a, i) \/ OnPushChunk(a, i)
      PROVE  reply' = Silence \/ reply'.code \in AnswersTo[reply'.kind]
  BY <1>3 DEF OnPushDelta, OnPushChunk
<1>4. ASSUME NEW t \in Tasks, ResumeBegin(t)
      PROVE  reply' = Silence \/ reply'.code \in AnswersTo[reply'.kind]
  BY <1>4 DEF ResumeBegin, Open
<1>5. ASSUME NEW t \in Tasks, ResumeEnd(t)
      PROVE  reply' = Silence \/ reply'.code \in AnswersTo[reply'.kind]
  <2>1. task[t].code \in {"ack", "failed_validation", "conflict"}
    BY <1>5 DEF ResumeEnd, TypeOK, Task, Idle
  <2> QED
    BY <1>5, <2>1 DEF ResumeEnd, Settle
<1>6. ASSUME NEW t \in Tasks, StorePush(t) \/ StoreFails(t)
      PROVE  reply' = Silence
  BY <1>6 DEF StorePush, StoreFails
<1>7. CASE \/ \E k \in Keys : SweepStaging(k) \/ SweepSettled(k)
           \/ \E i \in OtherImages : CommitElsewhere(i)
           \/ Drop \/ Restart
  BY <1>7 DEF SweepStaging, SweepSettled, CommitElsewhere, Drop, Restart
<1>8. ASSUME NEW a \in Attempts, Receive(a)
      PROVE  reply' = Silence \/ reply'.code \in AnswersTo[reply'.kind]
  BY <1>1, <1>2, <1>3, <1>8 DEF Receive
<1> HIDE DEF AnswersTo, Echo, Say, Silence
<1> QED
  BY <1>4, <1>5, <1>6, <1>7, <1>8 DEF Next

\* So does what goes over the wire.
LEMMA OutgoingFits ==
    ASSUME reply' = Silence \/ reply'.code \in AnswersTo[reply'.kind],
           NEW r \in Outgoing(reply')
    PROVE  /\ reply' # Silence
           /\ r.to = reply'.kind /\ r.code = reply'.code /\ r.version = reply'.version
           /\ r.code \in AnswersTo[r.to]
<1>1. reply' # Silence
  BY DEF Outgoing
<1>2. r.to = reply'.kind /\ r.code = reply'.code /\ r.version = reply'.version
  BY <1>1 DEF Outgoing
<1> QED
  BY <1>1, <1>2

\* Answers fit what they answer.
LEMMA AnswersFitStep ==
    ASSUME IInv, Sound, TransferTypeOK, AnswersFit, [TNext]_tvars
    PROVE  AnswersFit'
<1>0. AnswerTypes /\ RequestTypes
  BY TypesInParts
<1>1. CASE \E S : replies' = replies (-) S
  BY <1>1, MembersTaken DEF AnswersFit
<1>2. CASE UNCHANGED replies
  BY <1>2 DEF AnswersFit
<1>3. CASE replies' = EmptyBag
  BY <1>3, MembersOfSet DEF AnswersFit, EmptyBag
<1>4. ASSUME Next, Respond PROVE AnswersFit'
  <2>1. \A r \in Outgoing(reply') : r.code \in AnswersTo[r.to]
    BY <1>4, ReplyFits, OutgoingFits DEF IInv
  <2>2. DOMAIN replies' = DOMAIN replies \cup Outgoing(reply')
    BY <1>4, MembersAdded, MembersOfSet DEF Respond
  <2> QED
    BY <2>1, <2>2 DEF AnswersFit
<1>5. ASSUME NEW d \in BagToSet(requests), Throttle(d) PROVE AnswersFit'
  <2> DEFINE r == [to |-> d.kind, code |-> "rate_limited", version |-> 0, gaps |-> {}]
  <2>1. d.kind \in {"begin", "delta", "chunk", "end"}
    BY <1>0 DEF RequestTypes, Datagrams, BagToSet
  <2>2. r.code \in AnswersTo[r.to]
    BY <2>1 DEF AnswersTo
  <2>3. replies' = replies (+) SetToBag({r})
    BY <1>5 DEF Throttle
  <2> HIDE DEF r
  <2>4. DOMAIN replies' = DOMAIN replies \cup {r}
    BY <2>3, MembersAdded, MembersOfSet
  <2> QED
    BY <2>2, <2>4 DEF AnswersFit
<1>6. ASSUME NEW d, Deliver(d) PROVE Next /\ Respond
  BY <1>6, DeliverIsReceive DEF Deliver
<1>7. ASSUME NEW t \in Tasks, ThreadDone(t) PROVE Next /\ Respond
  BY <1>7 DEF ThreadDone, Next
<1>8. ASSUME ServerTrouble PROVE Next /\ Respond
  BY <1>8 DEF ServerTrouble, Next
<1>9. CASE \/ \E a \in Saves : Start(a)
           \/ Timeout
           \/ \E r \in BagToSet(replies) : Hear(r) \/ LoseReply(r)
           \/ \E d \in BagToSet(requests) : LoseRequest(d)
           \/ \E i \in OtherImages : OtherCommits(i)
           \/ UNCHANGED tvars
  BY <1>1, <1>2, <1>3, <1>9
  DEF Start, Timeout, Hear, LoseReply, LoseRequest, OtherCommits, tvars
<1> QED
  BY <1>4, <1>5, <1>6, <1>7, <1>8, <1>9 DEF TNext, Listen, Serve

----------------------------------------------------------------------------
(* Copies on the network.                                                  *)

\* Taking one copy of d leaves the others as they are.
LEMMA TakenCopies ==
    ASSUME NEW B, IsABag(B), NEW d \in DOMAIN B, NEW C, C = B (-) SetToBag({d})
    PROVE  /\ DOMAIN C \subseteq DOMAIN B
           /\ \A e \in DOMAIN B \ {d} : e \in DOMAIN C /\ C[e] = B[e]
           /\ B[d] = 1 => d \notin DOMAIN C
<1> DEFINE D == SetToBag({d})
<1>1. DOMAIN D = {d} /\ D[d] = 1
  BY DEF SetToBag
<1>2. \A e \in DOMAIN B : B[e] \in Nat /\ B[e] > 0
  BY DEF IsABag
<1> HIDE DEF D
<1>3. DOMAIN C = {e \in DOMAIN B : (IF e \in DOMAIN D THEN B[e] - D[e] ELSE B[e]) > 0}
  BY DEF (-), D
<1>4. \A e \in DOMAIN C : C[e] = IF e \in DOMAIN D THEN B[e] - D[e] ELSE B[e]
  BY DEF (-), D
<1>5. \A e \in DOMAIN B \ {d} : e \in DOMAIN C /\ C[e] = B[e]
  BY <1>1, <1>2, <1>3, <1>4
<1>6. B[d] = 1 => d \notin DOMAIN C
  BY <1>1, <1>3
<1> QED
  BY <1>3, <1>5, <1>6

\* Adding one copy of each member of S leaves the others as they are.
LEMMA AddedCopies ==
    ASSUME NEW B, IsABag(B), NEW S, NEW e
    PROVE  /\ e \in DOMAIN B /\ e \notin S => (B (+) SetToBag(S))[e] = B[e]
           /\ e \in S /\ e \notin DOMAIN B => (B (+) SetToBag(S))[e] = 1
<1> DEFINE D == SetToBag(S)
           C == B (+) D
<1>1. DOMAIN D = S /\ \A f \in S : D[f] = 1
  BY DEF SetToBag
<1>2. \A f \in DOMAIN B : B[f] \in Nat /\ B[f] > 0
  BY DEF IsABag
<1> HIDE DEF D
<1>3. DOMAIN C = DOMAIN B \cup DOMAIN D
  BY DEF (+), D
<1>4. \A f \in DOMAIN C : C[f] = (IF f \in DOMAIN B THEN B[f] ELSE 0)
                                  + (IF f \in DOMAIN D THEN D[f] ELSE 0)
  BY DEF (+), D
<1> HIDE DEF C
<1>5. /\ e \in DOMAIN B /\ e \notin S => C[e] = B[e]
      /\ e \in S /\ e \notin DOMAIN B => C[e] = 1
  BY <1>1, <1>2, <1>3, <1>4
<1> QED
  BY <1>5 DEF C, D

\* Adding nothing.
LEMMA AddedNothing ==
    ASSUME NEW B, IsABag(B)
    PROVE  B (+) SetToBag({}) = B
<1> DEFINE C == B (+) SetToBag({})
<1>1. DOMAIN C = DOMAIN B /\ \A e \in DOMAIN B : C[e] = B[e]
  BY AddedCopies, MembersAdded, MembersOfSet
<1>2. C = [e \in DOMAIN C |-> C[e]] /\ B = [e \in DOMAIN B |-> B[e]]
  BY DEF (+), IsABag
<1> QED
  BY <1>1, <1>2

\* The console's datagram is taken: what it means for the control messages.
LEMMA RequestTaken ==
    ASSUME RequestTypes, NEW d \in DOMAIN requests, requests' = requests (-) SetToBag({d})
    PROVE  /\ DOMAIN requests' \subseteq DOMAIN requests
           /\ ControlRequests' \subseteq ControlRequests
           /\ \A e \in DOMAIN requests \ {d} : e \in DOMAIN requests' /\ requests'[e] = requests[e]
           /\ d.kind = "chunk" => ControlRequests' = ControlRequests
           /\ requests[d] = 1 => d \notin DOMAIN requests' /\ ControlRequests' = ControlRequests \ {d}
<1>1. /\ DOMAIN requests' \subseteq DOMAIN requests
      /\ \A e \in DOMAIN requests \ {d} : e \in DOMAIN requests' /\ requests'[e] = requests[e]
      /\ requests[d] = 1 => d \notin DOMAIN requests'
  BY TakenCopies DEF RequestTypes
<1> QED
  BY <1>1 DEF ControlRequests

\* The server's datagram is taken: what it means for the answers to control messages.
LEMMA ReplyTaken ==
    ASSUME AnswerTypes, NEW r \in DOMAIN replies, replies' = replies (-) SetToBag({r})
    PROVE  /\ DOMAIN replies' \subseteq DOMAIN replies
           /\ ControlReplies' \subseteq ControlReplies
           /\ \A q \in DOMAIN replies \ {r} : q \in DOMAIN replies' /\ replies'[q] = replies[q]
           /\ r.to = "chunk" => ControlReplies' = ControlReplies
           /\ replies[r] = 1 => r \notin DOMAIN replies' /\ ControlReplies' = ControlReplies \ {r}
<1>1. /\ DOMAIN replies' \subseteq DOMAIN replies
      /\ \A q \in DOMAIN replies \ {r} : q \in DOMAIN replies' /\ replies'[q] = replies[q]
      /\ replies[r] = 1 => r \notin DOMAIN replies'
  BY TakenCopies DEF AnswerTypes
<1> QED
  BY <1>1 DEF ControlReplies

\* The server answers.
LEMMA ReplyAdded ==
    ASSUME AnswerTypes, NEW S, replies' = replies (+) SetToBag(S)
    PROVE  /\ DOMAIN replies' = DOMAIN replies \cup S
           /\ ControlReplies' = ControlReplies \cup {r \in S : r.to # "chunk"}
           /\ \A r \in DOMAIN replies \ S : replies'[r] = replies[r]
           /\ \A r \in S \ DOMAIN replies : replies'[r] = 1
<1>1. DOMAIN replies' = DOMAIN replies \cup S
  BY MembersAdded, MembersOfSet
<1>2. \A r \in DOMAIN replies \ S : replies'[r] = replies[r]
  BY AddedCopies DEF AnswerTypes
<1>3. \A r \in S \ DOMAIN replies : replies'[r] = 1
  BY AddedCopies DEF AnswerTypes
<1> QED
  BY <1>1, <1>2, <1>3 DEF ControlReplies

\* A step of the listener that answers nothing sends nothing.
LEMMA SilentRespond ==
    ASSUME AnswerTypes, Respond, reply' = Silence
    PROVE  UNCHANGED replies
<1>1. Outgoing(reply') = {}
  BY DEF Outgoing
<1> QED
  BY <1>1, AddedNothing DEF Respond, AnswerTypes
----------------------------------------------------------------------------
(* How the steps of a call leave it calm.                                  *)

\* A true verdict stays true while versions are only added.
LEMMA TrueLasts ==
    ASSUME IInv, IInv', Grows, NEW from, NEW a, NEW code, NEW version,
           TrueOf(history, from, a, code, version)
    PROVE  TrueOf(history', from, a, code, version)
<1>1. Len(history) \in Nat /\ Len(history') \in Nat
  BY PartsMakeInv DEF Parts, HistoryTypes
<1> QED
  BY <1>1 DEF TrueOf, Grows

\* What the invariants say of the variables, under names of its own.
LEMMA ContextTypes ==
    ASSUME StepContext
    PROVE  /\ IInv /\ IInv' /\ Sound /\ AnswersFit
           /\ RequestTypes /\ AnswerTypes /\ ConsoleTypes /\ save \in Saves
           /\ RequestTypes' /\ AnswerTypes' /\ ConsoleTypes' /\ save' \in Saves
           /\ HistoryTypes /\ HistoryTypes' /\ TaskTypes /\ TaskTypes'
           /\ since \in Nat /\ since <= Len(history)
           /\ Len(history) \in Nat /\ DOMAIN history = 1..Len(history)
           /\ mishaps \in [Kinds -> 0..MaxRounds]
<1>1. IInv /\ IInv' /\ Sound /\ AnswersFit /\ TransferTypeOK /\ TransferTypeOK'
  BY DEF StepContext
<1>2. HistoryTypes /\ HistoryTypes' /\ TaskTypes /\ TaskTypes'
  BY <1>1, PartsMakeInv DEF Parts
<1>3. Len(history) \in Nat /\ DOMAIN history = 1..Len(history)
  BY <1>2 DEF HistoryTypes
<1>4. /\ RequestTypes /\ AnswerTypes /\ ConsoleTypes /\ save \in Saves /\ since \in 0..Len(history)
      /\ RequestTypes' /\ AnswerTypes' /\ ConsoleTypes' /\ save' \in Saves
      /\ mishaps \in [Kinds -> 0..MaxRounds]
  BY <1>1, TypesInParts
<1>5. since \in Nat /\ since <= Len(history)
  BY <1>3, <1>4
<1> QED
  BY <1>1, <1>2, <1>3, <1>4, <1>5

\* What is calm about a call.
LEMMA CallFacts ==
    ASSUME CallContext
    PROVE  /\ StepContext /\ IInv /\ IInv' /\ AnswerTypes /\ RequestTypes
           /\ OfTheSave /\ InStep /\ OneExchange /\ VerdictForgotten /\ VerdictsTrue /\ CommitIsTold
<1>1. StepContext
  BY DEF CallContext
<1> QED
  BY <1>1, ContextTypes DEF CallContext, Calm

\* Steps that lose or forget things, and steps of others.
LEMMA CalmKept ==
    ASSUME CallContext, Grows,
           UNCHANGED <<save, since>>,
           pc' = pc \/ (pc \in {"end", "gaps"} /\ pc' = "gaps"),
           DOMAIN requests' \subseteq DOMAIN requests,
           \A d \in ControlRequests' : requests'[d] = requests[d],
           \A t \in Working' : t \in Working /\ task'[t] = task[t],
           \A r \in ControlReplies' :
              r \in ControlReplies /\ (r.code # "missing" => replies'[r] = replies[r]),
           \A k \in DOMAIN settled' : k \in DOMAIN settled /\ settled'[k] = settled[k],
           CallCommitted' => CallCommitted,
           mishaps'["receipt"] = 0 /\ mishaps'["server"] = 0 =>
               /\ mishaps["receipt"] = 0 /\ mishaps["server"] = 0
               /\ BeingTold => BeingTold'
    PROVE  Calm'
<1>1. /\ IInv /\ IInv' /\ OfTheSave /\ InStep /\ OneExchange /\ VerdictForgotten
      /\ VerdictsTrue /\ CommitIsTold
  BY CallFacts
<1>2. ControlRequests' \subseteq ControlRequests
  BY DEF ControlRequests
<1>3. Expected(pc') = Expected(pc)
  BY DEF Expected
<1>4. OfTheSave'
  BY <1>1 DEF OfTheSave
<1>5. InStep'
  BY <1>1, <1>2, <1>3 DEF InStep
<1>6. OneExchange'
  <2>1. ASSUME NEW d \in ControlRequests'
        PROVE  requests'[d] = 1 /\ ControlRequests' = {d} /\ Working' = {} /\ ControlReplies' = {}
    BY <1>1, <1>2, <2>1 DEF OneExchange
  <2>2. ASSUME NEW t \in Working'
        PROVE  Working' = {t} /\ ControlReplies' = {}
    BY <1>1, <2>2 DEF OneExchange
  <2>3. ASSUME NEW r \in ControlReplies', r.code # "missing"
        PROVE  replies'[r] = 1 /\ ControlReplies' = {r}
    BY <1>1, <2>3 DEF OneExchange
  <2> QED
    BY <2>1, <2>2, <2>3 DEF OneExchange
<1>7. VerdictForgotten'
  BY <1>1 DEF VerdictForgotten
<1>8. VerdictsTrue'
  <2>1. \A code, version : TrueOf(history, since, save, code, version)
                             => TrueOf(history', since', save', code, version)
    BY <1>1, TrueLasts
  <2>2. \A t \in Working' : task'[t].at = "settle" =>
            TrueOf(history', since', save', task'[t].code, task'[t].version)
    BY <1>1, <2>1 DEF VerdictsTrue
  <2>3. \A r \in ControlReplies' : r.to = "end"
            => TrueOf(history', since', save', r.code, r.version)
    BY <1>1, <2>1 DEF VerdictsTrue
  <2>4. pc' \in {"end", "gaps"} /\ save'.key \in DOMAIN settled'
            => TrueOf(history', since', save',
                      settled'[save'.key].code, settled'[save'.key].version)
    BY <1>1, <2>1 DEF VerdictsTrue
  <2> QED
    BY <2>2, <2>3, <2>4 DEF VerdictsTrue
<1>9. CommitIsTold'
  BY <1>1 DEF CommitIsTold
<1> QED
  BY <1>4, <1>5, <1>6, <1>7, <1>8, <1>9 DEF Calm

\* The console asks, with nothing of its own left unanswered.
LEMMA CalmAsked ==
    ASSUME StepContext, pc' \in {"begin", "declare", "end"},
           ControlRequests = {}, Working = {}, ControlReplies' = {},
           NEW c, NEW S, Emit(S), c \in S, c.kind = Expected(pc'),
           \A d \in S : d = c \/ d.kind = "chunk",
           \A d \in S : d.of \in {save', Whole(save')},
           \A d \in DOMAIN requests : d.of \in {save', Whole(save')},
           UNCHANGED <<task, settled, history>>,
           pc' = "declare" => save'.key \notin DOMAIN settled,
           pc' = "end" /\ save'.key \in DOMAIN settled
               => TrueOf(history, since', save',
                         settled[save'.key].code, settled[save'.key].version),
           mishaps'["receipt"] = 0 /\ mishaps'["server"] = 0 => ~ CallCommitted'
    PROVE  Calm'
<1>1. DOMAIN requests' = DOMAIN requests \cup S
  <2>1. requests' = requests (+) SetToBag(S)
    BY DEF Emit
  <2>2. DOMAIN requests' = DOMAIN requests \cup DOMAIN SetToBag(S)
    BY <2>1, MembersAdded
  <2> QED
    BY <2>2, MembersOfSet
<1>2. c \notin DOMAIN requests /\ c.kind # "chunk"
  BY DEF Expected, ControlRequests
<1>3. ControlRequests' = {c} /\ requests'[c] = 1
  <2>1. ControlRequests' = {c}
    BY <1>1, <1>2 DEF ControlRequests
  <2>2. requests'[c] = 1
    BY <1>2, ContextTypes, AddedCopies DEF Emit, RequestTypes
  <2> QED
    BY <2>1, <2>2
<1>4. Working' = {}
  BY DEF Working
<1>5. OfTheSave' /\ InStep' /\ OneExchange'
  BY <1>1, <1>3, <1>4 DEF OfTheSave, InStep, OneExchange
<1>6. VerdictForgotten' /\ VerdictsTrue' /\ CommitIsTold'
  BY <1>4 DEF VerdictForgotten, VerdictsTrue, CommitIsTold
<1> QED
  BY <1>5, <1>6 DEF Calm

\* The server answers the one request there was.
LEMMA CalmAnswered ==
    ASSUME CallContext, UNCHANGED console,
           DOMAIN requests' \subseteq DOMAIN requests,
           ControlRequests' = {}, Working' = {}, ControlReplies = {},
           NEW S, replies' = replies (+) SetToBag(S),
           \A r \in S : r.to # "chunk" /\ r.to = Expected(pc) /\ (r.code # "missing" => S = {r}),
           \A r \in S : r.to = "end" => TrueOf(history', since, save, r.code, r.version),
           pc = "declare" \/ (pc = "begin" /\ \E r \in S : r.code = "ack")
               => save.key \notin DOMAIN settled',
           pc \in {"end", "gaps"} /\ save.key \in DOMAIN settled'
               => TrueOf(history', since, save,
                         settled'[save.key].code, settled'[save.key].version),
           mishaps'["receipt"] = 0 /\ mishaps'["server"] = 0 /\ CallCommitted'
               => \E r \in S : r.to = "end" /\ r.code = "ack"
    PROVE  Calm'
<1>1. UNCHANGED <<pc, save, since>>
  BY DEF console
<1>2. /\ IInv /\ IInv' /\ OfTheSave /\ VerdictsTrue /\ AnswerTypes
  BY CallFacts
<1>3. ControlReplies' = S
  <2>1. ControlReplies' = ControlReplies \cup {r \in S : r.to # "chunk"}
    BY <1>2, ReplyAdded
  <2> QED
    BY <2>1
<1>4. \A r \in S : replies'[r] = 1
  <2>1. \A r \in S \ DOMAIN replies : replies'[r] = 1
    BY <1>2, ReplyAdded
  <2> QED
    BY <2>1 DEF ControlReplies
<1>5. OfTheSave' /\ InStep' /\ OneExchange'
  BY <1>1, <1>2, <1>3, <1>4 DEF OfTheSave, InStep, OneExchange
<1>6. VerdictsTrue' /\ VerdictForgotten'
  BY <1>1, <1>3 DEF VerdictsTrue, VerdictForgotten
<1>7. CommitIsTold'
  <2>1. \A r \in S : r.to = "end" /\ r.code = "ack" => BeingTold'
    BY <1>3 DEF BeingTold
  <2> QED
    BY <2>1 DEF CommitIsTold
<1> QED
  BY <1>5, <1>6, <1>7 DEF Calm

\* A handler works on the one request there was.
LEMMA CalmAtWork ==
    ASSUME CallContext, Grows, UNCHANGED console, UNCHANGED <<replies, settled>>,
           DOMAIN requests' \subseteq DOMAIN requests,
           ControlRequests' = {}, ControlReplies = {},
           NEW t, Working' = {t}, task'[t].attempt \in {save, Whole(save)},
           Expected(pc) = IF task'[t].at = "seed" THEN "begin" ELSE "end",
           task'[t].at = "settle" => TrueOf(history', since, save, task'[t].code, task'[t].version),
           mishaps'["receipt"] = 0 /\ mishaps'["server"] = 0 /\ CallCommitted'
               => task'[t].at = "settle" /\ task'[t].code = "ack"
    PROVE  Calm'
<1>1. UNCHANGED <<pc, save, since>>
  BY DEF console
<1>2. /\ IInv /\ IInv' /\ OfTheSave /\ VerdictsTrue /\ AnswerTypes
  BY CallFacts
<1>3. ControlReplies' = {}
  BY DEF ControlReplies
<1>4. OfTheSave' /\ InStep' /\ OneExchange'
  BY <1>1, <1>2, <1>3 DEF OfTheSave, InStep, OneExchange
<1>5. VerdictsTrue'
  <2>1. \A code, version : TrueOf(history, since, save, code, version)
                             => TrueOf(history', since, save, code, version)
    BY <1>2, TrueLasts
  <2>2. pc \in {"end", "gaps"} /\ save.key \in DOMAIN settled
            => TrueOf(history', since, save, settled[save.key].code, settled[save.key].version)
    BY <1>2, <2>1 DEF VerdictsTrue
  <2> QED
    BY <1>1, <1>3, <2>2 DEF VerdictsTrue
<1>6. VerdictForgotten'
  BY <1>1, <1>3 DEF VerdictForgotten, Expected
<1>7. CommitIsTold'
  <2>1. task'[t].at = "settle" /\ task'[t].code = "ack" => BeingTold'
    BY DEF BeingTold
  <2> QED
    BY <2>1 DEF CommitIsTold
<1> QED
  BY <1>4, <1>5, <1>6, <1>7 DEF Calm
\* A transfer begins, with nothing of the call left unanswered.
LEMMA CalmBegun ==
    ASSUME StepContext, NEW a \in Saves, NEW asDelta, NEW second, Begin(a, asDelta, second),
           ControlRequests = {}, Working = {}, ControlReplies' = {},
           \A d \in DOMAIN requests : d.of \in {a, Whole(a)},
           UNCHANGED <<task, settled, history>>,
           mishaps'["receipt"] = 0 /\ mishaps'["server"] = 0 => ~ CallCommitted'
    PROVE  Calm'
<1> DEFINE c == [kind |-> "begin", of |-> IF asDelta THEN a ELSE Whole(a), chunk |-> 0]
<1>1. c.kind = "begin" /\ c.of \in {a, Whole(a)}
  OBVIOUS
<1>2. Emit({c}) /\ pc' = "begin" /\ save' = a
  BY DEF Begin, Ask
<1> HIDE DEF c
<1>3. c.kind = Expected(pc') /\ \A d \in {c} : d = c \/ d.kind = "chunk"
  BY <1>1, <1>2 DEF Expected
<1> QED
  BY <1>1, <1>2, <1>3, CalmAsked

\* A round is sent, with nothing of the call left unanswered.
LEMMA CalmSent ==
    ASSUME StepContext, NEW chunks, NEW n, SendRound(chunks, n),
           ControlRequests = {}, Working = {}, ControlReplies' = {}, OfTheSave,
           UNCHANGED <<save, since, task, settled, history>>,
           save.key \in DOMAIN settled
               => TrueOf(history, since, save, settled[save.key].code, settled[save.key].version),
           mishaps'["receipt"] = 0 /\ mishaps'["server"] = 0 => ~ CallCommitted'
    PROVE  Calm'
<1> DEFINE c == Datagram("end", 0)
           S == {Datagram("chunk", i) : i \in chunks} \cup {Datagram("end", 0)}
<1>1. c.kind = "end" /\ c \in S /\ \A d \in S : d = c \/ d.kind = "chunk"
  BY DEF Datagram
<1>2. \A d \in S : d.of \in {save, Whole(save)}
  BY DEF Datagram, Current
<1>3. Emit(S) /\ pc' = "end"
  BY DEF SendRound
<1> HIDE DEF c, S
<1>4. c.kind = Expected(pc')
  BY <1>1, <1>3 DEF Expected
<1>5. \A d \in DOMAIN requests : d.of \in {save, Whole(save)}
  BY DEF OfTheSave
<1> QED
  BY <1>1, <1>2, <1>3, <1>4, <1>5, CalmAsked

\* A control message of the running push_once is sent, with nothing left unanswered.
LEMMA CalmRepeated ==
    ASSUME StepContext, NEW step \in {"begin", "declare"}, NEW i, NEW n,
           Ask(step, Datagram(Expected(step), i), n),
           ControlRequests = {}, Working = {}, ControlReplies' = {}, OfTheSave,
           UNCHANGED <<save, task, settled, history>>,
           step = "declare" => save.key \notin DOMAIN settled,
           mishaps'["receipt"] = 0 /\ mishaps'["server"] = 0 => ~ CallCommitted'
    PROVE  Calm'
<1> DEFINE c == Datagram(Expected(step), i)
<1>1. c.kind = Expected(step) /\ c.of \in {save, Whole(save)}
  BY DEF Datagram, Current
<1>2. Emit({c}) /\ pc' = step
  BY DEF Ask
<1> HIDE DEF c
<1>3. \A d \in DOMAIN requests : d.of \in {save, Whole(save)}
  BY DEF OfTheSave
<1>4. c \in {c} /\ \A d \in {c} : d = c \/ d.kind = "chunk"
  OBVIOUS
<1>5. \A d \in {c} : d.of \in {save', Whole(save')}
  BY <1>1
<1> QED
  BY <1>1, <1>2, <1>3, <1>4, <1>5, CalmAsked

\* The next window is declared, or the first round sent, of a transfer that is open.
LEMMA CalmOnward ==
    ASSUME StepContext, NEW undeclared, DeclareOrSend(undeclared),
           ControlRequests = {}, Working = {}, ControlReplies' = {}, OfTheSave,
           UNCHANGED <<save, since, task, settled, history>>, save.key \notin DOMAIN settled,
           mishaps'["receipt"] = 0 /\ mishaps'["server"] = 0 => ~ CallCommitted'
    PROVE  Calm'
<1>1. CASE SendRound(Owed, 1)
  BY <1>1, CalmSent
<1>2. ASSUME NEW i, Ask("declare", Datagram("delta", i), 1)
      PROVE  Calm'
  <2>1. Expected("declare") = "delta"
    BY DEF Expected
  <2> QED
    BY <1>2, <2>1, CalmRepeated
<1> QED
  BY <1>1, <1>2 DEF DeclareOrSend

\* push_once ends: the call returns, or begins once more.
LEMMA CalmFinished ==
    ASSUME CallContext, NEW code, NEW version, Finish(code, version),
           UNCHANGED <<since, task, settled, history>>,
           TrueOf(history, since, save, code, version),
           code \in {"checksum", "conflict"} =>
               /\ ControlRequests = {} /\ Working = {} /\ ControlReplies' = {}
               /\ mishaps'["receipt"] = 0 /\ mishaps'["server"] = 0 => ~ CallCommitted
    PROVE  Calm' /\ Rested'
<1>1. StepContext /\ save \in Saves /\ OfTheSave
  BY CallFacts, ContextTypes
<1>2. CASE code = "checksum" /\ Begin(save, FALSE, TRUE)
  <2>1. pc' = "begin" /\ save' = save
    BY <1>2 DEF Begin, Ask
  <2>2. CallCommitted' <=> CallCommitted
    BY <2>1 DEF CallCommitted, CommittedAfter
  <2>3. \A d \in DOMAIN requests : d.of \in {save, Whole(save)}
    BY <1>1 DEF OfTheSave
  <2>4. Calm'
    BY <1>1, <1>2, <2>2, <2>3, CalmBegun
  <2> QED
    BY <2>1, <2>4 DEF Rested
<1>3. CASE /\ result' = [code |-> code, version |-> version] /\ pc' = "idle"
           /\ UNCHANGED <<requests, save>>
  <2>1. CallCommitted' <=> CallCommitted
    BY <1>3 DEF CallCommitted, CommittedAfter
  <2>2. ControlRequests' = ControlRequests /\ Working' = Working
    BY <1>3 DEF ControlRequests, Working
  <2>3. result'.code = code /\ result'.version = version
    BY <1>3
  <2>4. Rested'
    BY <1>3, <2>1, <2>2, <2>3 DEF Rested
  <2> QED
    BY <1>3, <2>4 DEF Calm
<1> QED
  BY <1>2, <1>3 DEF Finish

\* A reply is heard: what there was besides.
LEMMA HeardAlone ==
    ASSUME CallContext, NEW r \in DOMAIN replies, replies' = replies (-) SetToBag({r})
    PROVE  /\ r.code \in AnswersTo[r.to]
           /\ r.to \in {"begin", "delta", "chunk", "end"}
           /\ r.to # "chunk" => r \in ControlReplies /\ r.to = Expected(pc)
           /\ r.to # "chunk" /\ r.code # "missing" =>
                 ControlRequests = {} /\ Working = {} /\ ControlReplies' = {}
           /\ /\ r.to # "chunk" /\ r.code # "missing" /\ ~ (r.to = "end" /\ r.code = "ack")
              /\ mishaps["receipt"] = 0 /\ mishaps["server"] = 0
              => ~ CallCommitted
<1>1. /\ InStep /\ OneExchange /\ CommitIsTold /\ AnswerTypes
      /\ AnswersFit
  BY CallFacts, ContextTypes
<1>2. r.code \in AnswersTo[r.to] /\ r.to \in {"begin", "delta", "chunk", "end"}
  BY <1>1 DEF AnswersFit, AnswerTypes, Replies
<1>3. r.to # "chunk" => r \in ControlReplies /\ r.to = Expected(pc)
  BY <1>1 DEF ControlReplies, InStep
<1>4. ASSUME r.to # "chunk", r.code # "missing"
      PROVE  /\ ControlRequests = {} /\ Working = {} /\ ControlReplies = {r}
             /\ ControlReplies' = {}
  <2>1. replies[r] = 1 /\ ControlReplies = {r} /\ ControlRequests = {} /\ Working = {}
    BY <1>1, <1>3, <1>4 DEF OneExchange
  <2>2. ControlReplies' = ControlReplies \ {r}
    BY <1>1, <2>1, ReplyTaken
  <2> QED
    BY <2>1, <2>2
<1>5. ASSUME r.to # "chunk", r.code # "missing", ~ (r.to = "end" /\ r.code = "ack"),
             mishaps["receipt"] = 0, mishaps["server"] = 0
      PROVE  ~ CallCommitted
  BY <1>1, <1>4, <1>5 DEF CommitIsTold, BeingTold
<1> QED
  BY <1>2, <1>3, <1>4, <1>5

\* The console hears an answer.
LEMMA HearCalm ==
    ASSUME CallContext, NEW r, Hear(r)
    PROVE  Calm' /\ Rested'
<1>1. /\ r \in DOMAIN replies /\ replies' = replies (-) SetToBag({r})
      /\ UNCHANGED <<staging, settled, task, history, since, mishaps>>
  BY DEF Hear, Drop, BagIn, BagToSet
<1>2. /\ StepContext /\ OfTheSave /\ VerdictForgotten /\ VerdictsTrue
      /\ save \in Saves /\ AnswerTypes
  BY CallFacts, ContextTypes
<1>3. /\ r.code \in AnswersTo[r.to]
      /\ r.to \in {"begin", "delta", "chunk", "end"}
      /\ r.to # "chunk" => r \in ControlReplies /\ r.to = Expected(pc)
      /\ r.to # "chunk" /\ r.code # "missing" =>
            ControlRequests = {} /\ Working = {} /\ ControlReplies' = {}
      /\ /\ r.to # "chunk" /\ r.code # "missing" /\ ~ (r.to = "end" /\ r.code = "ack")
         /\ mishaps'["receipt"] = 0 /\ mishaps'["server"] = 0
         => ~ CallCommitted
  BY <1>1, HeardAlone
<1>4. UNCHANGED save => (CallCommitted' <=> CallCommitted)
  BY <1>1 DEF CallCommitted, CommittedAfter
<1>5. r.to = "chunk" => r.code \in {"malformed", "staging_expired", "rate_limited"}
  BY <1>3 DEF AnswersTo
<1>6. CASE HearBegin(r)
  <2>1. pc = "begin" /\ (r.to # "chunk" => r.to = "begin")
    BY <1>3, <1>6 DEF HearBegin, Expected
  <2>2. r.code \in {"ack", "too_large", "malformed", "rate_limited", "delta_unavailable",
                    "staging_expired"}
    BY <1>3, <1>5, <2>1 DEF AnswersTo
  <2>3. CASE r.code = "ack"
    <3>1. PICK undeclared : DeclareOrSend(undeclared) /\ UNCHANGED save
      BY <1>6, <2>3 DEF HearBegin
    <3>2. r.to # "chunk" /\ save.key \notin DOMAIN settled
      BY <1>2, <1>3, <1>5, <2>1, <2>3 DEF VerdictForgotten
    <3>3. Calm'
      BY <1>1, <1>2, <1>3, <1>4, <2>1, <2>3, <3>1, <3>2, CalmOnward
    <3>4. pc' # "idle"
      BY <3>1 DEF DeclareOrSend, Ask, SendRound
    <3> QED
      BY <3>3, <3>4 DEF Rested
  <2>4. CASE r.code = "delta_unavailable" /\ Begin(save, FALSE, again)
    <3>1. r.to # "chunk" /\ UNCHANGED save /\ pc' = "begin"
      BY <1>5, <2>4 DEF Begin, Ask
    <3>2. \A d \in DOMAIN requests : d.of \in {save, Whole(save)}
      BY <1>2 DEF OfTheSave
    <3>3. Calm'
      BY <1>1, <1>2, <1>3, <1>4, <2>1, <2>4, <3>1, <3>2, CalmBegun
    <3> QED
      BY <3>1, <3>3 DEF Rested
  <2>5. CASE Finish(r.code, r.version) /\ r.code # "ack"
    <3>1. TrueOf(history, since, save, r.code, r.version) /\ r.code \notin {"checksum", "conflict"}
      BY <2>2, <2>5 DEF TrueOf
    <3> QED
      BY <1>1, <2>5, <3>1, CalmFinished
  <2> QED
    BY <1>6, <2>3, <2>4, <2>5 DEF HearBegin
<1>7. CASE HearDeclare(r)
  <2>1. pc = "declare" /\ (r.to # "chunk" => r.to = "delta")
    BY <1>3, <1>7 DEF HearDeclare, Expected
  <2>2. r.code \in {"ack", "malformed", "rate_limited", "staging_expired"}
    BY <1>3, <1>5, <2>1 DEF AnswersTo
  <2>3. CASE r.code = "ack"
    <3>1. PICK undeclared : DeclareOrSend(undeclared) /\ UNCHANGED save
      BY <1>7, <2>3 DEF HearDeclare
    <3>2. r.to # "chunk" /\ save.key \notin DOMAIN settled
      BY <1>2, <1>3, <1>5, <2>1, <2>3 DEF VerdictForgotten
    <3>3. Calm'
      BY <1>1, <1>2, <1>3, <1>4, <2>1, <2>3, <3>1, <3>2, CalmOnward
    <3>4. pc' # "idle"
      BY <3>1 DEF DeclareOrSend, Ask, SendRound
    <3> QED
      BY <3>3, <3>4 DEF Rested
  <2>4. CASE Finish(r.code, r.version) /\ r.code # "ack"
    <3>1. TrueOf(history, since, save, r.code, r.version) /\ r.code \notin {"checksum", "conflict"}
      BY <2>2, <2>4 DEF TrueOf
    <3> QED
      BY <1>1, <2>4, <3>1, CalmFinished
  <2> QED
    BY <1>7, <2>3, <2>4 DEF HearDeclare
<1>8. CASE HearVerdict(r)
  <2>1. pc \in {"end", "gaps"} /\ (r.to # "chunk" => r.to = "end")
    BY <1>3, <1>8 DEF HearVerdict, Expected
  <2>2. CASE r.code = "missing"
    <3>1. pc' = "gaps" /\ UNCHANGED <<requests, save>>
      BY <1>8, <2>2 DEF HearVerdict
    <3>2. /\ ControlReplies' \subseteq ControlReplies
          /\ \A q \in DOMAIN replies \ {r} : replies'[q] = replies[q]
      BY <1>1, <1>2, ReplyTaken
    <3>3. ControlRequests' = ControlRequests /\ Working' = Working /\ Grows
      BY <1>1, <1>2, <3>1, ContextTypes, UnchangedGrows DEF ControlRequests, Working
    <3>4. BeingTold => BeingTold'
      <4>1. \A q \in ControlReplies : q.code = "ack" => q \in ControlReplies'
        BY <1>1, <1>2, <2>2, ReplyTaken DEF ControlReplies
      <4> QED
        BY <1>1, <3>3, <4>1 DEF BeingTold
    <3>5. \A q \in ControlReplies' :
             q \in ControlReplies /\ (q.code # "missing" => replies'[q] = replies[q])
      BY <2>2, <3>2 DEF ControlReplies
    <3>6. Calm'
      BY <1>1, <1>4, <2>1, <3>1, <3>3, <3>4, <3>5, CalmKept
    <3> QED
      BY <3>1, <3>6 DEF Rested
  <2>3. CASE Finish(r.code, r.version) /\ r.code # "missing"
    <3>1. TrueOf(history, since, save, r.code, r.version)
      <4>1. CASE r.to = "chunk"
        BY <1>5, <4>1 DEF TrueOf
      <4>2. CASE r.to # "chunk"
        BY <1>2, <1>3, <2>1, <4>2 DEF VerdictsTrue
      <4> QED
        BY <4>1, <4>2
    <3> QED
      BY <1>1, <1>3, <1>5, <2>3, <3>1, CalmFinished
  <2> QED
    BY <1>8, <2>2, <2>3 DEF HearVerdict
<1> QED
  BY <1>6, <1>7, <1>8 DEF Hear

\* With nothing underway there is nothing to be told.
LEMMA NothingUnderway ==
    ASSUME ~ Underway
    PROVE  ControlRequests = {} /\ Working = {} /\ DOMAIN requests = {}
<1>1. DOMAIN requests = {}
  BY MembersOfSet DEF Underway, EmptyBag
<1> QED
  BY <1>1 DEF Underway, ControlRequests, Working

\* No timeout fires early, so a call that starts or repeats itself has nothing unanswered.
LEMMA NotLate ==
    ASSUME StepContext, Mishap("late")
    PROVE  FALSE
<1>1. mishaps \in [Kinds -> 0..MaxRounds] /\ "late" \in Kinds /\ mishaps'["late"] = 0
  BY ContextTypes DEF StepContext, Kinds
<1> QED
  BY <1>1, MishapTypes

\* Nothing is heard for long enough.
LEMMA TimeoutCalm ==
    ASSUME CallContext, Timeout
    PROVE  Calm' /\ Rested'
<1>1. /\ StepContext /\ OfTheSave /\ VerdictForgotten /\ VerdictsTrue /\ CommitIsTold
  BY CallFacts
<1>2. /\ ~ Busy /\ UNCHANGED <<mishaps, replies, since, staging, settled, task, history>>
      /\ AskAgain
  BY <1>1, NotLate DEF Timeout, Drop
<1>3. ControlRequests = {} /\ Working = {} /\ DOMAIN requests = {} /\ DOMAIN replies = {}
  BY <1>2, NothingUnderway, MembersOfSet DEF Busy, EmptyBag
<1>4. ControlReplies = {} /\ ControlReplies' = {}
  BY <1>2, <1>3 DEF ControlReplies
<1>5. mishaps'["receipt"] = 0 /\ mishaps'["server"] = 0 => ~ CallCommitted
  BY <1>1, <1>2, <1>3, <1>4 DEF CommitIsTold, BeingTold
<1>6. UNCHANGED save => (CallCommitted' <=> CallCommitted)
  BY <1>2 DEF CallCommitted, CommittedAfter
<1>7. Expected("begin") = "begin" /\ Expected("declare") = "delta"
  BY DEF Expected
<1>8. CASE Ask("begin", Datagram("begin", 0), tries + 1) /\ UNCHANGED save
  <2>1. Calm'
    BY <1>1, <1>2, <1>3, <1>4, <1>5, <1>6, <1>7, <1>8, CalmRepeated
  <2> QED
    BY <1>8, <2>1 DEF Rested, Ask
<1>9. ASSUME pc = "declare", NEW i, Ask("declare", Datagram("delta", i), tries + 1), UNCHANGED save
      PROVE  Calm' /\ Rested'
  <2>1. save.key \notin DOMAIN settled
    BY <1>1, <1>9 DEF VerdictForgotten
  <2>2. Calm'
    BY <1>1, <1>2, <1>3, <1>4, <1>5, <1>6, <1>7, <1>9, <2>1, CalmRepeated
  <2> QED
    BY <1>9, <2>2 DEF Rested, Ask
<1>10. CASE pc \in {"end", "gaps"} /\ SendRound(want, tries + 1) /\ UNCHANGED save
  <2>1. save.key \in DOMAIN settled
            => TrueOf(history, since, save, settled[save.key].code, settled[save.key].version)
    BY <1>1, <1>10 DEF VerdictsTrue
  <2>2. Calm'
    BY <1>1, <1>2, <1>3, <1>4, <1>5, <1>6, <1>10, <2>1, CalmSent
  <2> QED
    BY <1>10, <2>2 DEF Rested, SendRound
<1>11. CASE Finish("gave_up", 0)
  <2>1. TrueOf(history, since, save, "gave_up", 0)
    BY DEF TrueOf
  <2> QED
    BY <1>2, <1>11, <2>1, CalmFinished
<1> QED
  BY <1>2, <1>8, <1>9, <1>10, <1>11 DEF AskAgain

\* A call is made.
LEMMA StartCalm ==
    ASSUME StepContext, NEW a \in Saves, Start(a)
    PROVE  Calm' /\ Rested'
<1>1. ~ Underway /\ replies' = EmptyBag
  BY NotLate DEF Start
<1>2. ControlRequests = {} /\ Working = {} /\ DOMAIN requests = {} /\ DOMAIN replies' = {}
  BY <1>1, NothingUnderway, MembersOfSet DEF EmptyBag
<1>3. ControlReplies' = {}
  BY <1>2 DEF ControlReplies
<1>4. /\ Begin(a, a.delta, FALSE) /\ since' = Len(history)
      /\ UNCHANGED <<task, settled, history>>
  BY DEF Start, Drop
<1>5. ~ CallCommitted'
  <2>1. \A w \in DOMAIN history : ~ (w > Len(history))
    BY ContextTypes
  <2> QED
    BY <1>4, <2>1 DEF CallCommitted, CommittedAfter
<1>6. Calm'
  BY <1>2, <1>3, <1>4, <1>5, CalmBegun
<1> QED
  BY <1>4, <1>6 DEF Rested, Begin, Ask
----------------------------------------------------------------------------
(* How the steps of the network and the server leave a call calm.          *)

\* An answer that is no list of gaps is one datagram.
LEMMA OneAnswer ==
    ASSUME NEW kind, NEW a, NEW code, NEW version, NEW gaps, code # "missing",
           Say(kind, a, code, version, gaps), Respond
    PROVE  replies' = replies (+) SetToBag({[to |-> kind, code |-> code, version |-> version, gaps |-> {}]})
<1>1. /\ reply' # Silence /\ reply'.kind = kind /\ reply'.code = code /\ reply'.version = version
  BY DEF Say, Silence
<1>2. Outgoing(reply') = {[to |-> kind, code |-> code, version |-> version, gaps |-> {}]}
  BY <1>1 DEF Outgoing
<1> QED
  BY <1>2 DEF Respond

\* When no version is added, nothing is committed.
LEMMA NoCommit ==
    ASSUME UNCHANGED <<history, save, since>>
    PROVE  CallCommitted' <=> CallCommitted
BY DEF CallCommitted, CommittedAfter

\* The counters that tell whether a commit is told.
LEMMA TroubleCounted ==
    ASSUME StepContext, NEW kind \in Kinds, Mishap(kind)
    PROVE  /\ mishaps'[kind] > 0 /\ mishaps'[kind] # 0
           /\ \A k \in Kinds \ {kind} : mishaps'[k] = mishaps[k]
           /\ \A k \in Kinds : mishaps'[k] = 0 => mishaps[k] = 0
<1>1. mishaps \in [Kinds -> 0..MaxRounds] /\ mishaps' \in [Kinds -> 0..MaxRounds]
  BY TypesInParts DEF StepContext
<1> QED
  BY <1>1, MishapTypes

\* One control datagram on its way is all there is.
LEMMA OneRequest ==
    ASSUME CallContext, NEW d \in DOMAIN requests, d.kind # "chunk",
           requests' = requests (-) SetToBag({d})
    PROVE  /\ ControlRequests' = {} /\ Working = {} /\ ControlReplies = {}
           /\ d.kind = Expected(pc)
           /\ DOMAIN requests' \subseteq DOMAIN requests
           /\ mishaps["receipt"] = 0 /\ mishaps["server"] = 0 => ~ CallCommitted
<1>1. d \in ControlRequests
  BY DEF ControlRequests
<1>2. OneExchange /\ InStep /\ CommitIsTold /\ RequestTypes
  BY CallFacts
<1>3. /\ requests[d] = 1 /\ ControlRequests = {d} /\ Working = {} /\ ControlReplies = {}
      /\ d.kind = Expected(pc)
  BY <1>1, <1>2 DEF OneExchange, InStep
<1>4. ControlRequests' = {} /\ DOMAIN requests' \subseteq DOMAIN requests
  BY <1>2, <1>3, RequestTaken
<1>5. mishaps["receipt"] = 0 /\ mishaps["server"] = 0 => ~ CallCommitted
  BY <1>2, <1>3 DEF CommitIsTold, BeingTold
<1> QED
  BY <1>3, <1>4, <1>5

\* The server takes a PUSH_BEGIN.
LEMMA BeginDelivered ==
    ASSUME CallContext, Grows, NEW d \in DOMAIN requests, d.kind = "begin",
           requests' = requests (-) SetToBag({d}), UNCHANGED <<console, mishaps>>,
           NEW t \in Tasks, OnPushBegin(t, d.of), Respond
    PROVE  Calm'
<1> DEFINE a == d.of
<1>1. /\ ControlRequests' = {} /\ Working = {} /\ ControlReplies = {}
      /\ "begin" = Expected(pc)
      /\ DOMAIN requests' \subseteq DOMAIN requests
      /\ mishaps["receipt"] = 0 /\ mishaps["server"] = 0 => ~ CallCommitted
  BY OneRequest
<1>2. pc = "begin" /\ UNCHANGED <<pc, save, since>>
  BY <1>1 DEF Expected, console
<1>3. UNCHANGED history /\ (CallCommitted' <=> CallCommitted)
  BY <1>2, NoCommit DEF OnPushBegin
<1>4. a \in {save, Whole(save)} /\ save \in Saves /\ AnswerTypes
  BY CallFacts, ContextTypes DEF OfTheSave
<1>5. a.key = save.key
  BY <1>4, HalfTypes
<1>6. ASSUME NEW code, code # "missing", Echo("begin", a, code), UNCHANGED task,
             code = "ack" => save.key \notin DOMAIN settled'
      PROVE  Calm'
  <2> DEFINE r == [to |-> "begin", code |-> code, version |-> TransferId(a), gaps |-> {}]
  <2>1. replies' = replies (+) SetToBag({r})
    BY <1>6, OneAnswer DEF Echo
  <2>2. r.to = "begin" /\ r.code = code
    OBVIOUS
  <2>3. Working' = {}
    BY <1>1, <1>6 DEF Working
  <2> HIDE DEF r
  <2> QED
    BY <1>1, <1>2, <1>3, <1>6, <2>1, <2>2, <2>3, CalmAnswered
<1>7. ASSUME NEW seed, Open(a, seed), UNCHANGED task
      PROVE  Calm'
  <2>1. save.key \notin DOMAIN settled'
    <3>1. settled' = Without(settled, save.key)
      BY <1>5, <1>7 DEF Open
    <3>2. DOMAIN Without(settled, save.key) = DOMAIN settled \ {save.key}
      BY WithoutKey
    <3> QED
      BY <3>1, <3>2
  <2> QED
    BY <1>6, <1>7, <2>1 DEF Open
<1>8. ASSUME task' = [task EXCEPT ![t] = [at |-> "seed", attempt |-> a]],
             reply' = Silence, UNCHANGED <<staging, settled>>
      PROVE  Calm'
  <2>1. UNCHANGED replies
    BY <1>4, <1>8, SilentRespond
  <2>2. task'[t] = [at |-> "seed", attempt |-> a]
    BY <1>8, ContextTypes DEF CallContext, TaskTypes
  <2>3. \A u \in Tasks \ {t} : task'[u] = task[u]
    BY <1>8, ContextTypes DEF CallContext, TaskTypes
  <2>4. Working' = {t}
    BY <1>1, <2>2, <2>3 DEF Working, Idle
  <2>5. task'[t].at = "seed" /\ task'[t].attempt \in {save, Whole(save)}
    BY <1>4, <2>2
  <2> QED
    BY <1>1, <1>3, <1>8, <2>1, <2>4, <2>5, CalmAtWork
<1>9. ASSUME NEW code, code \in {"too_large", "malformed", "rate_limited", "delta_unavailable"},
             RefuseBegin(a, code)
      PROVE  Calm'
  BY <1>6, <1>9 DEF RefuseBegin
<1> QED
  BY <1>7, <1>8, <1>9 DEF OnPushBegin

\* The server takes a PUSH_DELTA.
LEMMA DeltaDelivered ==
    ASSUME CallContext, Grows, NEW d \in DOMAIN requests, d.kind = "delta",
           requests' = requests (-) SetToBag({d}), UNCHANGED <<console, mishaps>>,
           OnPushDelta(d.of, d.chunk), Respond
    PROVE  Calm'
<1>1. /\ ControlRequests' = {} /\ Working = {} /\ ControlReplies = {}
      /\ "delta" = Expected(pc)
      /\ DOMAIN requests' \subseteq DOMAIN requests
      /\ mishaps["receipt"] = 0 /\ mishaps["server"] = 0 => ~ CallCommitted
  BY OneRequest
<1>2. pc = "declare" /\ UNCHANGED <<pc, save, since>>
  BY <1>1, ContextTypes DEF Expected, console, CallContext, ConsoleTypes
<1>3. UNCHANGED <<history, settled, task>> /\ (CallCommitted' <=> CallCommitted)
  BY <1>2, NoCommit DEF OnPushDelta
<1>4. PICK code \in {"staging_expired", "malformed", "ack"} : Echo("delta", d.of, code)
  BY DEF OnPushDelta
<1> DEFINE r == [to |-> "delta", code |-> code, version |-> TransferId(d.of), gaps |-> {}]
<1>5. replies' = replies (+) SetToBag({r})
  BY <1>4, OneAnswer DEF Echo
<1>6. r.to = "delta" /\ r.code = code
  OBVIOUS
<1>7. Working' = {}
  BY <1>1, <1>3 DEF Working
<1>8. save.key \notin DOMAIN settled
  BY <1>2, CallFacts DEF VerdictForgotten
<1> HIDE DEF r
<1> QED
  BY <1>1, <1>2, <1>3, <1>4, <1>5, <1>6, <1>7, <1>8, CalmAnswered

\* The server takes a PUSH_CHUNK.
LEMMA ChunkDelivered ==
    ASSUME CallContext, Grows, NEW d \in DOMAIN requests, d.kind = "chunk",
           requests' = requests (-) SetToBag({d}), UNCHANGED <<console, mishaps>>,
           OnPushChunk(d.of, d.chunk), Respond
    PROVE  Calm'
<1>1. UNCHANGED <<pc, save, since>>
  BY DEF console
<1>2. UNCHANGED <<settled, task, history>>
  BY DEF OnPushChunk
<1>3. CallCommitted' <=> CallCommitted
  BY <1>1, <1>2, NoCommit
<1>4. RequestTypes /\ AnswerTypes
  BY CallFacts
<1>5. /\ DOMAIN requests' \subseteq DOMAIN requests /\ ControlRequests' = ControlRequests
      /\ \A e \in DOMAIN requests \ {d} : requests'[e] = requests[e]
  BY <1>4, RequestTaken
<1>6. \A e \in ControlRequests' : requests'[e] = requests[e]
  BY <1>5 DEF ControlRequests
<1>7. ControlReplies' = ControlReplies /\ \A r \in ControlReplies' : replies'[r] = replies[r]
  <2>1. CASE reply' = Silence
    <3>1. UNCHANGED replies
      BY <1>4, <2>1, SilentRespond
    <3> QED
      BY <3>1 DEF ControlReplies
  <2>2. ASSUME NEW code, code # "missing", Echo("chunk", d.of, code)
        PROVE  ControlReplies' = ControlReplies /\ \A r \in ControlReplies' : replies'[r] = replies[r]
    <3> DEFINE q == [to |-> "chunk", code |-> code, version |-> TransferId(d.of), gaps |-> {}]
    <3>1. replies' = replies (+) SetToBag({q})
      BY <2>2, OneAnswer DEF Echo
    <3>2. q.to = "chunk"
      OBVIOUS
    <3> HIDE DEF q
    <3>3. /\ ControlReplies' = ControlReplies \cup {r \in {q} : r.to # "chunk"}
          /\ \A r \in DOMAIN replies \ {q} : replies'[r] = replies[r]
      BY <1>4, <3>1, ReplyAdded
    <3> QED
      BY <3>2, <3>3 DEF ControlReplies
  <2> QED
    BY <2>1, <2>2 DEF OnPushChunk
<1>8. Working' = Working /\ \A t \in Working' : task'[t] = task[t]
  BY <1>2 DEF Working
<1>9. BeingTold => BeingTold'
  BY <1>2, <1>7, <1>8 DEF BeingTold
<1> QED
  BY <1>1, <1>2, <1>3, <1>5, <1>6, <1>7, <1>8, <1>9, CalmKept

\* The server takes a PUSH_END.
LEMMA EndDelivered ==
    ASSUME CallContext, Grows, NEW d \in DOMAIN requests, d.kind = "end",
           requests' = requests (-) SetToBag({d}), UNCHANGED console,
           UNCHANGED mishaps \/ Mishap("overtaken"),
           NEW t \in Tasks, OnPushEnd(t, d.of), Respond
    PROVE  Calm'
<1> DEFINE a == d.of
<1>1. /\ ControlRequests' = {} /\ Working = {} /\ ControlReplies = {}
      /\ "end" = Expected(pc)
      /\ DOMAIN requests' \subseteq DOMAIN requests
      /\ mishaps["receipt"] = 0 /\ mishaps["server"] = 0 => ~ CallCommitted
  BY OneRequest
<1>2. pc \in {"end", "gaps"} /\ UNCHANGED <<pc, save, since>>
  BY <1>1, ContextTypes DEF Expected, console, CallContext, ConsoleTypes
<1>3. UNCHANGED history /\ (CallCommitted' <=> CallCommitted)
  BY <1>2, NoCommit DEF OnPushEnd
<1>4. a \in {save, Whole(save)} /\ save \in Saves /\ AnswerTypes /\ VerdictsTrue /\ StepContext
  BY CallFacts, ContextTypes DEF OfTheSave
<1>5. a.key = save.key
  BY <1>4, HalfTypes
<1>6. mishaps'["receipt"] = mishaps["receipt"] /\ mishaps'["server"] = mishaps["server"]
  BY <1>4, TroubleCounted DEF Kinds
<1>7. ASSUME NEW code, code # "missing", NEW version, Say("end", a, code, version, {}),
             UNCHANGED task,
             TrueOf(history, since, save, code, version),
             save.key \in DOMAIN settled'
               => TrueOf(history, since, save, settled'[save.key].code, settled'[save.key].version)
      PROVE  Calm'
  <2> DEFINE r == [to |-> "end", code |-> code, version |-> version, gaps |-> {}]
  <2>1. replies' = replies (+) SetToBag({r})
    BY <1>7, OneAnswer
  <2>2. r.to = "end" /\ r.code = code /\ r.version = version
    OBVIOUS
  <2>3. Working' = {}
    BY <1>1, <1>7 DEF Working
  <2> HIDE DEF r
  <2> QED
    BY <1>1, <1>2, <1>3, <1>6, <1>7, <2>1, <2>2, <2>3, CalmAnswered
<1>8. CASE /\ a.key \in DOMAIN settled
           /\ Say("end", a, settled[a.key].code, settled[a.key].version, {})
           /\ UNCHANGED <<staging, settled, task>>
  <2>1. TrueOf(history, since, save, settled[save.key].code, settled[save.key].version)
    BY <1>2, <1>4, <1>5, <1>8 DEF VerdictsTrue
  <2>2. settled[save.key].code # "missing"
    BY <1>5, <1>8, ContextTypes, PartsMakeInv DEF CallContext, Parts, SettledTypes, Verdict
  <2> QED
    BY <1>5, <1>7, <1>8, <2>1, <2>2
<1>9. CASE Echo("end", a, "staging_expired") /\ UNCHANGED <<staging, settled, task>>
  <2>1. TrueOf(history, since, save, "staging_expired", TransferId(a))
    BY DEF TrueOf
  <2>2. save.key \in DOMAIN settled
               => TrueOf(history, since, save, settled[save.key].code, settled[save.key].version)
    BY <1>2, <1>4 DEF VerdictsTrue
  <2> QED
    BY <1>7, <1>9, <2>1, <2>2 DEF Echo
<1>10. ASSUME NEW gaps, Say("end", a, "missing", TransferId(a), gaps),
              UNCHANGED <<staging, settled, task>>
       PROVE  Calm'
  <2> DEFINE S == Outgoing(reply')
  <2>1. replies' = replies (+) SetToBag(S)
    BY DEF Respond
  <2>2. \A r \in S : r.to = "end" /\ r.code = "missing"
    BY <1>10 DEF Outgoing, Say, Silence
  <2>3. Working' = {}
    BY <1>1, <1>10 DEF Working
  <2> HIDE DEF S
  <2>4. \A r \in S : TrueOf(history', since, save, r.code, r.version)
    BY <2>2 DEF TrueOf
  <2>5. save.key \in DOMAIN settled
               => TrueOf(history', since, save, settled[save.key].code, settled[save.key].version)
    BY <1>2, <1>3, <1>4 DEF VerdictsTrue
  <2> QED
    BY <1>1, <1>2, <1>3, <1>6, <1>10, <2>1, <2>2, <2>3, <2>4, <2>5, CalmAnswered
<1>11. CASE Settle(a, "checksum", 0) /\ UNCHANGED task
  <2>1. TrueOf(history, since, save, "checksum", 0)
    BY DEF TrueOf
  <2>2. settled'[save.key].code = "checksum" /\ settled'[save.key].version = 0
    <3> DEFINE v == [code |-> "checksum", version |-> 0]
    <3>1. settled' = With(settled, save.key, v)
      BY <1>5, <1>11 DEF Settle
    <3> HIDE DEF v
    <3>2. With(settled, save.key, v)[save.key] = v
      BY DEF With
    <3>3. settled'[save.key] = v
      BY <3>1, <3>2
    <3> QED
      BY <3>3 DEF v
  <2> QED
    BY <1>7, <1>11, <2>1, <2>2 DEF Settle
<1>12. ASSUME NEW image, NEW parent, reply' = Silence, UNCHANGED <<staging, settled>>,
              task' = [task EXCEPT ![t] = [at |-> "push", attempt |-> a, image |-> image,
                                           parent |-> parent]]
       PROVE  Calm'
  <2>1. UNCHANGED replies
    BY <1>4, <1>12, SilentRespond
  <2>2. task'[t] = [at |-> "push", attempt |-> a, image |-> image, parent |-> parent]
    BY <1>4, <1>12, ContextTypes DEF TaskTypes
  <2>3. \A u \in Tasks \ {t} : task'[u] = task[u]
    BY <1>4, <1>12, ContextTypes DEF TaskTypes
  <2>4. task'[t].at = "push" /\ task'[t].attempt \in {save, Whole(save)}
    BY <1>4, <2>2
  <2>5. task'[t] # Idle
    BY <2>4 DEF Idle
  <2>6. Working' = {t}
    BY <1>1, <2>3, <2>5 DEF Working
  <2> QED
    BY <1>1, <1>3, <1>6, <1>12, <2>1, <2>4, <2>6, CalmAtWork
<1> QED
  BY <1>8, <1>9, <1>10, <1>11, <1>12 DEF OnPushEnd

\* One handler at work is all there is.
LEMMA OneHandler ==
    ASSUME CallContext, NEW t \in Tasks, task[t].at # "idle"
    PROVE  /\ ControlRequests = {} /\ Working = {t} /\ ControlReplies = {}
           /\ task[t].attempt \in {save, Whole(save)}
           /\ Expected(pc) = IF task[t].at = "seed" THEN "begin" ELSE "end"
           /\ task[t].at = "settle" => TrueOf(history, since, save, task[t].code, task[t].version)
           /\ mishaps["receipt"] = 0 /\ mishaps["server"] = 0 /\ CallCommitted
                 => task[t].at = "settle" /\ task[t].code = "ack"
<1>1. t \in Working
  BY DEF Working, Idle
<1>2. OneExchange /\ InStep /\ CommitIsTold /\ OfTheSave /\ VerdictsTrue
  BY CallFacts
<1>3. ControlRequests = {} /\ Working = {t} /\ ControlReplies = {}
  BY <1>1, <1>2 DEF OneExchange
<1> QED
  BY <1>1, <1>2, <1>3 DEF InStep, CommitIsTold, BeingTold, OfTheSave, VerdictsTrue

\* A handler has stopped working.
LEMMA HandlerDone ==
    ASSUME CallContext, NEW t \in Tasks, Working = {t}, task' = [task EXCEPT ![t] = Idle]
    PROVE  Working' = {}
<1>1. task \in [Tasks -> Task]
  BY ContextTypes DEF CallContext, TaskTypes
<1> QED
  BY <1>1 DEF Working

\* The parent has been read.
LEMMA SeedCalm ==
    ASSUME CallContext, Grows, NEW t \in Tasks, ResumeBegin(t), Respond,
           UNCHANGED <<requests, console, mishaps>>
    PROVE  Calm'
<1> DEFINE a == task[t].attempt
<1>1. task[t].at = "seed" /\ task' = [task EXCEPT ![t] = Idle] /\ UNCHANGED history
  BY DEF ResumeBegin
<1>2. /\ ControlRequests = {} /\ Working = {t} /\ ControlReplies = {}
      /\ a \in {save, Whole(save)} /\ Expected(pc) = "begin"
      /\ mishaps["receipt"] = 0 /\ mishaps["server"] = 0 => ~ CallCommitted
  BY <1>1, OneHandler
<1>3. pc = "begin" /\ UNCHANGED <<pc, save, since>>
  BY <1>2 DEF Expected, console
<1>4. Working' = {} /\ (CallCommitted' <=> CallCommitted) /\ ControlRequests' = {}
  BY <1>1, <1>2, <1>3, HandlerDone, NoCommit DEF ControlRequests
<1>5. a.key = save.key
  BY <1>2, ContextTypes, HalfTypes DEF CallContext
<1>6. ASSUME NEW code, code # "missing", Echo("begin", a, code),
             code = "ack" => save.key \notin DOMAIN settled'
      PROVE  Calm'
  <2> DEFINE r == [to |-> "begin", code |-> code, version |-> TransferId(a), gaps |-> {}]
  <2>1. replies' = replies (+) SetToBag({r})
    BY <1>6, OneAnswer DEF Echo
  <2>2. r.to = "begin" /\ r.code = code
    OBVIOUS
  <2> HIDE DEF r
  <2> QED
    BY <1>2, <1>3, <1>4, <1>6, <2>1, <2>2, CalmAnswered
<1>7. CASE Open(a, history[a.parent].image)
  <2>1. save.key \notin DOMAIN settled'
    <3>1. settled' = Without(settled, save.key)
      BY <1>5, <1>7 DEF Open
    <3>2. DOMAIN Without(settled, save.key) = DOMAIN settled \ {save.key}
      BY WithoutKey
    <3> QED
      BY <3>1, <3>2
  <2> QED
    BY <1>6, <1>7, <2>1 DEF Open
<1>8. CASE Echo("begin", a, "delta_unavailable")
  BY <1>6, <1>8
<1> QED
  BY <1>7, <1>8 DEF ResumeBegin

\* store.push decides.
LEMMA StoreCalm ==
    ASSUME CallContext, Grows, NEW t \in Tasks, StorePush(t), Respond,
           UNCHANGED <<requests, console, mishaps>>
    PROVE  Calm'
<1> DEFINE a == task[t].attempt
           image == task[t].image
           parent == task[t].parent
           head == Len(history)
<1>1. task[t].at = "push" /\ UNCHANGED settled /\ reply' = Silence
  BY DEF StorePush
<1>2. /\ ControlRequests = {} /\ Working = {t} /\ ControlReplies = {}
      /\ a \in {save, Whole(save)} /\ Expected(pc) = "end"
      /\ mishaps["receipt"] = 0 /\ mishaps["server"] = 0 => ~ CallCommitted
  BY <1>1, OneHandler
<1>3. /\ IInv /\ save \in Saves /\ AnswerTypes /\ HistoryTypes /\ TaskTypes
      /\ head \in Nat /\ DOMAIN history = 1..head /\ since \in Nat /\ since <= head
  BY ContextTypes DEF CallContext
<1>4. image = save.image /\ parent = save.parent /\ a.key = save.key /\ save.key \in Keys
  BY <1>1, <1>2, <1>3, HalfTypes, ChunkNumbers, PartsMakeInv DEF Parts, TasksHold
<1>5. UNCHANGED <<replies, pc, save, since>> /\ ControlRequests' = {}
  BY <1>1, <1>2, <1>3, SilentRespond DEF console, ControlRequests
<1>6. UNCHANGED history => (CallCommitted' <=> CallCommitted)
  BY <1>5, NoCommit
<1>7. ASSUME NEW code, NEW version, Answer(t, code, version),
             TrueOf(history', since, save, code, version), UNCHANGED history \/ code = "ack"
      PROVE  Calm'
  <2>1. /\ task'[t] = [at |-> "settle", attempt |-> a, code |-> code, version |-> version]
        /\ \A u \in Tasks \ {t} : task'[u] = task[u]
    BY <1>3, <1>7 DEF Answer, TaskTypes
  <2>2. /\ task'[t].at = "settle" /\ task'[t].attempt = a
        /\ task'[t].code = code /\ task'[t].version = version
    BY <2>1
  <2>3. task'[t] # Idle
    BY <2>2 DEF Idle
  <2>4. Working' = {t}
    BY <1>2, <2>1, <2>3 DEF Working
  <2> QED
    BY <1>1, <1>2, <1>5, <1>6, <1>7, <2>2, <2>4, CalmAtWork
<1>8. CASE Answer(t, "failed_validation", 0) /\ UNCHANGED history
  <2>1. TrueOf(history', since, save, "failed_validation", 0)
    BY DEF TrueOf
  <2> QED
    BY <1>7, <1>8, <2>1
<1>9. CASE HeadIs(image) /\ Answer(t, "ack", head) /\ UNCHANGED history
  <2>1. TrueOf(history', since, save, "ack", head)
    BY <1>3, <1>4, <1>9 DEF TrueOf, HeadIs, HistoryTypes
  <2> QED
    BY <1>7, <1>9, <2>1
<1>10. CASE parent # head /\ Answer(t, "conflict", head) /\ UNCHANGED history
  <2>1. TrueOf(history', since, save, "conflict", head)
    BY <1>3, <1>4, <1>10 DEF TrueOf
  <2> QED
    BY <1>7, <1>10, <2>1
<1>11. CASE /\ image \in ValidImages
            /\ Answer(t, "ack", head + 1)
            /\ history' = Append(history, Version(image, a.key))
  <2>1. history'[head + 1] = Version(image, a.key) /\ DOMAIN history' = DOMAIN history \cup {head + 1}
    BY <1>3, <1>4, <1>11, AppendGrows
  <2>2. TrueOf(history', since, save, "ack", head + 1)
    BY <1>3, <1>4, <2>1 DEF TrueOf, Version
  <2> QED
    BY <1>7, <1>11, <2>2
<1> QED
  BY <1>8, <1>9, <1>10, <1>11 DEF StorePush

\* The handler comes back with the verdict.
LEMMA SettleCalm ==
    ASSUME CallContext, Grows, NEW t \in Tasks, ResumeEnd(t), Respond,
           UNCHANGED <<requests, console, mishaps>>
    PROVE  Calm'
<1> DEFINE a == task[t].attempt
           code == task[t].code
           version == task[t].version
<1>1. task[t].at = "settle" /\ task' = [task EXCEPT ![t] = Idle] /\ UNCHANGED history
  BY DEF ResumeEnd
<1>2. /\ ControlRequests = {} /\ Working = {t} /\ ControlReplies = {}
      /\ a \in {save, Whole(save)} /\ Expected(pc) = "end"
      /\ TrueOf(history, since, save, code, version)
      /\ mishaps["receipt"] = 0 /\ mishaps["server"] = 0 /\ CallCommitted => code = "ack"
  BY <1>1, OneHandler
<1>3. pc \in {"end", "gaps"} /\ UNCHANGED <<pc, save, since>>
  BY <1>2, ContextTypes DEF Expected, console, CallContext, ConsoleTypes
<1>4. Working' = {} /\ (CallCommitted' <=> CallCommitted) /\ ControlRequests' = {}
  BY <1>1, <1>2, <1>3, HandlerDone, NoCommit DEF ControlRequests
<1>5. a.key = save.key
  BY <1>2, ContextTypes, HalfTypes DEF CallContext
<1>6. Settle(a, code, version)
  BY DEF ResumeEnd
<1>7. settled'[save.key].code = code /\ settled'[save.key].version = version
  <2> DEFINE v == [code |-> code, version |-> version]
  <2>1. settled' = With(settled, save.key, v)
    BY <1>5, <1>6 DEF Settle
  <2> HIDE DEF v
  <2>2. With(settled, save.key, v)[save.key] = v
    BY DEF With
  <2>3. settled'[save.key] = v
    BY <2>1, <2>2
  <2> QED
    BY <2>3 DEF v
<1>8. code # "missing"
  BY <1>1, ContextTypes DEF CallContext, TaskTypes, Task, Idle
<1> DEFINE r == [to |-> "end", code |-> code, version |-> version, gaps |-> {}]
<1>9. replies' = replies (+) SetToBag({r})
  BY <1>6, <1>8, OneAnswer DEF Settle
<1>10. r.to = "end" /\ r.code = code /\ r.version = version
  OBVIOUS
<1> HIDE DEF r, code, version
<1> QED
  BY <1>1, <1>2, <1>3, <1>4, <1>7, <1>8, <1>9, <1>10, CalmAnswered

----------------------------------------------------------------------------
(* What a call returns.                                                    *)

\* What goes on at the network and the server.
Elsewhere ==
    \/ Serve
    \/ \E d \in BagToSet(requests) : LoseRequest(d) \/ Throttle(d)
    \/ \E r \in BagToSet(replies) : LoseReply(r)
    \/ ServerTrouble
    \/ \E i \in OtherImages : OtherCommits(i)
    \/ UNCHANGED tvars

\* Mishaps are never forgotten.
LEMMA MishapsStay ==
    ASSUME mishaps \in [Kinds -> 0..MaxRounds], [TNext]_tvars
    PROVE  \A k \in Kinds : mishaps'[k] = 0 => mishaps[k] = 0
<1>1. ASSUME NEW kind \in Kinds, Mishap(kind)
      PROVE  \A k \in Kinds : mishaps'[k] = 0 => mishaps[k] = 0
  <2>1. mishaps'[kind] > 0 /\ \A k \in Kinds \ {kind} : mishaps'[k] = mishaps[k]
    BY <1>1, MishapTypes
  <2> QED
    BY <2>1
<1>2. {"lost", "overtaken", "receipt", "late", "server"} \subseteq Kinds
  BY DEF Kinds
<1>3. ASSUME NEW a, Start(a) PROVE UNCHANGED mishaps \/ Mishap("late")
  BY <1>3 DEF Start
<1>4. ASSUME NEW d, Deliver(d) PROVE UNCHANGED mishaps \/ Mishap("overtaken")
  BY <1>4 DEF Deliver
<1>5. ASSUME NEW r, LoseReply(r) PROVE Mishap("receipt") \/ Mishap("lost")
  BY <1>5 DEF LoseReply
<1>6. ASSUME NEW d, LoseRequest(d) \/ Throttle(d) PROVE Mishap("lost") \/ Mishap("server")
  BY <1>6 DEF LoseRequest, Throttle
<1> QED
  BY <1>1, <1>2, <1>3, <1>4, <1>5, <1>6
  DEF TNext, Listen, Serve, Timeout, Hear, ThreadDone, ServerTrouble, OtherCommits, tvars

\* The network loses a request.
LEMMA RequestLostCalm ==
    ASSUME CallContext, Grows, NEW d \in DOMAIN requests, LoseRequest(d)
    PROVE  Calm'
<1>1. /\ requests' = requests (-) SetToBag({d})
      /\ UNCHANGED <<settled, task, history, replies, pc, save, since>> /\ Mishap("lost")
  BY DEF LoseRequest, Drop, console
<1>2. RequestTypes /\ OneExchange /\ StepContext
  BY CallFacts
<1>3. /\ DOMAIN requests' \subseteq DOMAIN requests /\ ControlRequests' \subseteq ControlRequests
      /\ \A e \in DOMAIN requests \ {d} : requests'[e] = requests[e]
      /\ requests[d] = 1 => ControlRequests' = ControlRequests \ {d}
  BY <1>1, <1>2, RequestTaken
<1>4. \A e \in ControlRequests' : requests'[e] = requests[e]
  BY <1>2, <1>3 DEF ControlRequests, OneExchange
<1>5. mishaps'["receipt"] = mishaps["receipt"] /\ mishaps'["server"] = mishaps["server"]
  BY <1>1, <1>2, TroubleCounted DEF Kinds
<1>6. (CallCommitted' <=> CallCommitted) /\ (BeingTold' <=> BeingTold)
  BY <1>1, NoCommit DEF BeingTold, Working, ControlReplies
<1> QED
  BY <1>1, <1>3, <1>4, <1>5, <1>6, CalmKept DEF Working, ControlReplies

\* The network loses a reply.
LEMMA ReplyLostCalm ==
    ASSUME CallContext, Grows, NEW r \in DOMAIN replies, LoseReply(r)
    PROVE  Calm'
<1>1. /\ replies' = replies (-) SetToBag({r})
      /\ UNCHANGED <<settled, task, history, requests, pc, save, since>>
      /\ Mishap(IF r.to = "end" /\ r.code # "missing" THEN "receipt" ELSE "lost")
  BY DEF LoseReply, Drop, console
<1>2. AnswerTypes /\ OneExchange /\ StepContext
  BY CallFacts
<1>3. /\ ControlReplies' \subseteq ControlReplies
      /\ \A q \in DOMAIN replies \ {r} : q \in DOMAIN replies' /\ replies'[q] = replies[q]
      /\ replies[r] = 1 => r \notin DOMAIN replies'
  BY <1>1, <1>2, ReplyTaken
<1>4. \A q \in ControlReplies' :
         q \in ControlReplies /\ (q.code # "missing" => replies'[q] = replies[q])
  BY <1>2, <1>3 DEF ControlReplies, OneExchange
<1>5. \A k \in Kinds : mishaps'[k] = 0 => mishaps[k] = 0
  BY <1>1, <1>2, TroubleCounted DEF Kinds
<1>6. mishaps'["receipt"] = 0 => ~ (r.to = "end" /\ r.code # "missing")
  BY <1>1, <1>2, TroubleCounted DEF Kinds
<1>7. mishaps'["receipt"] = 0 /\ BeingTold => BeingTold'
  BY <1>1, <1>3, <1>6 DEF BeingTold, Working, ControlReplies
<1>8. CallCommitted' <=> CallCommitted
  BY <1>1, NoCommit
<1>9. mishaps'["receipt"] = 0 /\ mishaps'["server"] = 0 =>
         mishaps["receipt"] = 0 /\ mishaps["server"] = 0 /\ (BeingTold => BeingTold')
  BY <1>5, <1>7 DEF Kinds
<1> QED
  BY <1>1, <1>4, <1>8, <1>9, CalmKept DEF Working, ControlRequests

\* The rate limiter refuses a request.
LEMMA ThrottledCalm ==
    ASSUME CallContext, Grows, NEW d \in DOMAIN requests, Throttle(d)
    PROVE  Calm'
<1> DEFINE r == [to |-> d.kind, code |-> "rate_limited", version |-> 0, gaps |-> {}]
<1>1. /\ requests' = requests (-) SetToBag({d}) /\ UNCHANGED console
      /\ UNCHANGED <<settled, task, history, pc, save, since>> /\ Mishap("server")
      /\ replies' = replies (+) SetToBag({r})
  BY DEF Throttle, Drop, console
<1>2. r.to = d.kind /\ r.code = "rate_limited" /\ r.version = 0
  OBVIOUS
<1> HIDE DEF r
<1>3. RequestTypes /\ AnswerTypes /\ OneExchange /\ StepContext /\ VerdictForgotten /\ VerdictsTrue
  BY CallFacts
<1>4. mishaps'["server"] # 0
  BY <1>1, <1>3, TroubleCounted DEF Kinds
<1>5. CASE d.kind = "chunk"
  <2>1. /\ DOMAIN requests' \subseteq DOMAIN requests /\ ControlRequests' = ControlRequests
        /\ \A e \in DOMAIN requests \ {d} : requests'[e] = requests[e]
    BY <1>1, <1>3, <1>5, RequestTaken
  <2>2. \A e \in ControlRequests' : requests'[e] = requests[e]
    BY <1>5, <2>1 DEF ControlRequests
  <2>3. /\ ControlReplies' = ControlReplies \cup {q \in {r} : q.to # "chunk"}
        /\ \A q \in DOMAIN replies \ {r} : replies'[q] = replies[q]
    BY <1>1, <1>3, ReplyAdded
  <2>4. ControlReplies' = ControlReplies /\ \A q \in ControlReplies' : replies'[q] = replies[q]
    BY <1>2, <1>5, <2>3 DEF ControlReplies
  <2>5. CallCommitted' <=> CallCommitted
    BY <1>1, NoCommit
  <2> QED
    BY <1>1, <1>4, <2>1, <2>2, <2>4, <2>5, CalmKept DEF Working
<1>6. CASE d.kind # "chunk"
  <2>1. /\ ControlRequests' = {} /\ Working = {} /\ ControlReplies = {}
        /\ d.kind = Expected(pc) /\ DOMAIN requests' \subseteq DOMAIN requests
    BY <1>1, <1>6, OneRequest
  <2>2. Working' = {}
    BY <1>1, <2>1 DEF Working
  <2>3. TrueOf(history', since, save, r.code, r.version)
    BY <1>2 DEF TrueOf
  <2>4. pc = "declare" => save.key \notin DOMAIN settled'
    BY <1>1, <1>3 DEF VerdictForgotten
  <2>5. pc \in {"end", "gaps"} /\ save.key \in DOMAIN settled'
            => TrueOf(history', since, save, settled'[save.key].code, settled'[save.key].version)
    BY <1>1, <1>3 DEF VerdictsTrue
  <2> QED
    BY <1>1, <1>2, <1>4, <1>6, <2>1, <2>2, <2>3, <2>4, <2>5, CalmAnswered
<1> QED
  BY <1>5, <1>6

\* The server forgets, fails or is restarted.
LEMMA TroubleCalm ==
    ASSUME CallContext, Grows, ServerTrouble
    PROVE  Calm'
<1>1. Mishap("server") /\ Respond /\ UNCHANGED <<requests, pc, save, since>>
  BY DEF ServerTrouble, console
<1>2. AnswerTypes /\ StepContext /\ TaskTypes
  BY CallFacts, ContextTypes
<1>3. mishaps'["server"] # 0
  BY <1>1, <1>2, TroubleCounted DEF Kinds
<1>4. /\ reply' = Silence /\ UNCHANGED history
      /\ \A t \in Tasks : task'[t] = task[t] \/ task'[t] = Idle
      /\ \A k \in DOMAIN settled' : k \in DOMAIN settled /\ settled'[k] = settled[k]
  <2>1. CASE \E k \in Keys : SweepStaging(k)
    BY <2>1 DEF SweepStaging
  <2>2. ASSUME NEW k \in Keys, SweepSettled(k)
        PROVE  /\ reply' = Silence /\ UNCHANGED <<task, history>>
               /\ \A j \in DOMAIN settled' : j \in DOMAIN settled /\ settled'[j] = settled[j]
    BY <2>2, WithoutKey DEF SweepSettled
  <2>3. CASE \E t \in Tasks : StoreFails(t)
    BY <1>2, <2>3 DEF StoreFails, TaskTypes
  <2>4. CASE Restart
    BY <2>4 DEF Restart
  <2> QED
    BY <2>1, <2>2, <2>3, <2>4 DEF ServerTrouble
<1>5. UNCHANGED replies /\ (CallCommitted' <=> CallCommitted)
  BY <1>1, <1>2, <1>4, SilentRespond, NoCommit
<1>6. \A t \in Working' : t \in Working /\ task'[t] = task[t]
  BY <1>4 DEF Working
<1> QED
  BY <1>1, <1>3, <1>4, <1>5, <1>6, CalmKept DEF ControlRequests, ControlReplies

\* A version of another source is none that the call has committed.
LEMMA OthersCommitNothing ==
    ASSUME StepContext, NEW i \in OtherImages, OtherCommits(i)
    PROVE  CallCommitted' => CallCommitted
<1>1. /\ history' = Append(history, Version(i, "other")) /\ UNCHANGED <<save, since>>
  BY DEF OtherCommits, CommitElsewhere, console
<1>2. HistoryTypes /\ save.key \in Keys /\ Len(history) \in Nat
  BY ContextTypes, ChunkNumbers
<1>3. /\ DOMAIN history' = DOMAIN history \cup {Len(history) + 1}
      /\ history'[Len(history) + 1].source = "other"
      /\ \A w \in DOMAIN history : history'[w] = history[w]
  BY <1>1, <1>2 DEF HistoryTypes, Version
<1>4. save.key # "other"
  BY <1>2, ListenerAssumption
<1> QED
  BY <1>1, <1>3, <1>4 DEF CallCommitted, CommittedAfter

\* Whatever the network and the server do, the call stays calm.
LEMMA ElsewhereCalm ==
    ASSUME CallContext, Grows, Elsewhere
    PROVE  Calm'
<1>1. ASSUME NEW d \in BagToSet(requests), Deliver(d) PROVE Calm'
  <2>1. d \in DOMAIN requests /\ requests' = requests (-) SetToBag({d}) /\ Respond /\ UNCHANGED console
    BY <1>1 DEF Deliver, BagToSet
  <2>2. CASE d.kind = "end" /\ \E t \in Tasks : OnPushEnd(t, d.of)
    BY <1>1, <2>1, <2>2, EndDelivered DEF Deliver
  <2>3. CASE d.kind # "end"
    <3>1. UNCHANGED mishaps
      BY <1>1, <2>3 DEF Deliver
    <3> QED
      BY <1>1, <2>1, <2>3, <3>1, BeginDelivered, DeltaDelivered, ChunkDelivered DEF Deliver
  <2> QED
    BY <1>1, <2>2, <2>3 DEF Deliver
<1>2. ASSUME NEW t \in Tasks, ThreadDone(t) PROVE Calm'
  BY <1>2, SeedCalm, StoreCalm, SettleCalm DEF ThreadDone
<1>3. ASSUME NEW d \in BagToSet(requests), LoseRequest(d) \/ Throttle(d) PROVE Calm'
  BY <1>3, RequestLostCalm, ThrottledCalm DEF BagToSet
<1>4. ASSUME NEW r \in BagToSet(replies), LoseReply(r) PROVE Calm'
  BY <1>4, ReplyLostCalm DEF BagToSet
<1>5. CASE ServerTrouble
  BY <1>5, TroubleCalm
<1>6. ASSUME UNCHANGED <<requests, replies, pc, save, since, settled, task, mishaps>>,
             CallCommitted' => CallCommitted
      PROVE  Calm'
  <2>1. BeingTold' <=> BeingTold
    BY <1>6 DEF BeingTold, Working, ControlReplies
  <2> QED
    BY <1>6, <2>1, CalmKept DEF Working, ControlReplies, ControlRequests
<1>7. ASSUME NEW i \in OtherImages, OtherCommits(i) PROVE Calm'
  <2>1. CallCommitted' => CallCommitted
    BY <1>7, OthersCommitNothing, CallFacts
  <2> QED
    BY <1>6, <1>7, <2>1 DEF OtherCommits, CommitElsewhere, console
<1>8. CASE UNCHANGED tvars
  BY <1>6, <1>8, NoCommit DEF tvars, vars, console
<1> QED
  BY <1>1, <1>2, <1>3, <1>4, <1>5, <1>7, <1>8 DEF Elsewhere, Serve

\* When nothing but chunks is on its way, nothing of the call commits any more.
LEMMA NothingComes ==
    ASSUME StepContext, Elsewhere, ControlRequests = {}, Working = {}
    PROVE  ControlRequests' = {} /\ Working' = {} /\ (CallCommitted' => CallCommitted)
<1>1. RequestTypes /\ TaskTypes
  BY ContextTypes
<1>2. \A t \in Tasks : task[t] = Idle /\ task[t].at = "idle"
  BY DEF Working, Idle
<1>3. \A d \in DOMAIN requests : requests' = requests (-) SetToBag({d}) => ControlRequests' = {}
  BY <1>1, RequestTaken
<1>4. UNCHANGED requests => ControlRequests' = {}
  BY DEF ControlRequests
<1>5. UNCHANGED task => Working' = {}
  BY DEF Working
<1>6. UNCHANGED <<history, console>> => (CallCommitted' <=> CallCommitted)
  BY NoCommit DEF console
<1>7. ASSUME NEW d \in BagToSet(requests), Deliver(d)
      PROVE  ControlRequests' = {} /\ UNCHANGED <<task, history, console>>
  <2>1. d \in DOMAIN requests /\ d.kind = "chunk"
    BY <1>7 DEF BagToSet, ControlRequests
  <2>2. OnPushChunk(d.of, d.chunk) /\ requests' = requests (-) SetToBag({d}) /\ UNCHANGED console
    BY <1>7, <2>1 DEF Deliver
  <2> QED
    BY <1>3, <2>1, <2>2 DEF OnPushChunk
<1>8. ASSUME NEW t \in Tasks, ThreadDone(t) PROVE FALSE
  BY <1>2, <1>8 DEF ThreadDone, ResumeBegin, StorePush, ResumeEnd
<1>9. ASSUME NEW d \in BagToSet(requests), LoseRequest(d) \/ Throttle(d)
      PROVE  ControlRequests' = {} /\ UNCHANGED <<task, history, console>>
  BY <1>3, <1>9 DEF LoseRequest, Throttle, Drop, BagToSet
<1>10. ASSUME NEW r, LoseReply(r)
       PROVE  UNCHANGED <<requests, task, history, console>>
  BY <1>10 DEF LoseReply, Drop
<1>11. CASE ServerTrouble
  <2>1. UNCHANGED <<requests, console, history>>
    BY <1>2, <1>11
    DEF ServerTrouble, SweepStaging, SweepSettled, StoreFails, Restart
  <2>2. Working' = {}
    <3>1. CASE UNCHANGED task
      BY <1>5, <3>1
    <3>2. CASE Restart
      BY <3>2 DEF Restart, Working
    <3> QED
      BY <1>2, <1>11, <3>1, <3>2 DEF ServerTrouble, SweepStaging, SweepSettled, StoreFails
  <2> QED
    BY <1>4, <1>6, <2>1, <2>2
<1>12. ASSUME NEW i \in OtherImages, OtherCommits(i)
       PROVE  UNCHANGED <<requests, task>> /\ (CallCommitted' => CallCommitted)
  BY <1>12, OthersCommitNothing DEF OtherCommits, CommitElsewhere
<1>13. CASE UNCHANGED tvars
  BY <1>4, <1>5, <1>6, <1>13 DEF tvars, vars
<1> QED
  BY <1>4, <1>5, <1>6, <1>7, <1>8, <1>9, <1>10, <1>11, <1>12, <1>13 DEF Elsewhere, Serve

\* The network and the server leave the console as it is.
LEMMA ElsewhereFacts ==
    ASSUME Elsewhere
    PROVE  UNCHANGED console /\ [TNext]_tvars
BY DEF Elsewhere, Serve, Deliver, ThreadDone, LoseRequest, Throttle, LoseReply, ServerTrouble,
       OtherCommits, tvars, TNext

\* What has been returned stays true.
LEMMA ElsewhereRested ==
    ASSUME StepContext, Grows, Rested, Elsewhere
    PROVE  Rested'
<1> SUFFICES ASSUME pc' = "idle" PROVE Rested'
  BY DEF Rested
<1>1. UNCHANGED <<pc, save, result, since>> /\ [TNext]_tvars
  BY ElsewhereFacts DEF console
<1>2. \A k \in Kinds : mishaps'[k] = 0 => mishaps[k] = 0
  BY <1>1, MishapsStay, ContextTypes
<1>3. TrueOf(history', since, save, result.code, result.version)
  BY <1>1, TrueLasts, ContextTypes DEF Rested
<1>4. ASSUME result.code = "conflict"
      PROVE  /\ ControlRequests' = {} /\ Working' = {}
             /\ mishaps'["receipt"] = 0 /\ mishaps'["server"] = 0 => ~ CallCommitted'
  <2>1. /\ ControlRequests = {} /\ Working = {}
        /\ mishaps["receipt"] = 0 /\ mishaps["server"] = 0 => ~ CallCommitted
    BY <1>1, <1>4 DEF Rested
  <2>2. ControlRequests' = {} /\ Working' = {} /\ (CallCommitted' => CallCommitted)
    BY <2>1, NothingComes
  <2> QED
    BY <1>2, <2>1, <2>2 DEF Kinds
<1> QED
  BY <1>1, <1>3, <1>4 DEF Rested

\* Answers fit what they answer, and while no timeout has fired early a call is calm and
\* what has been returned is true.
Truthful == AnswersFit /\ (mishaps["late"] = 0 => Calm /\ Rested)

\* Every step keeps to the truth.
LEMMA TruthfulStep ==
    ASSUME IInv, IInv', Sound, TransferTypeOK, TransferTypeOK', Truthful, [TNext]_tvars
    PROVE  Truthful'
<1>1. AnswersFit /\ AnswersFit'
  BY AnswersFitStep DEF Truthful
<1> SUFFICES ASSUME mishaps'["late"] = 0 PROVE Calm' /\ Rested'
  BY <1>1 DEF Truthful
<1>2. StepContext
  BY <1>1 DEF StepContext
<1>3. Calm /\ Rested
  <2>1. mishaps["late"] = 0
    BY <1>2, MishapsStay, ContextTypes DEF Kinds
  <2> QED
    BY <2>1 DEF Truthful
<1>4. Grows
  BY StepIsListenerStep, HistoryGrows
<1>5. CASE \E a \in Saves : Start(a)
  BY <1>2, <1>5, StartCalm
<1>6. CASE Timeout
  <2>1. pc # "idle"
    BY <1>6 DEF Timeout, AskAgain
  <2> QED
    BY <1>2, <1>3, <1>6, <2>1, TimeoutCalm DEF CallContext
<1>7. ASSUME NEW r, Hear(r) PROVE Calm' /\ Rested'
  <2>1. pc # "idle"
    BY <1>7 DEF Hear, HearBegin, HearDeclare, HearVerdict
  <2> QED
    BY <1>2, <1>3, <1>7, <2>1, HearCalm DEF CallContext
<1>8. CASE Elsewhere
  <2>1. Rested'
    BY <1>2, <1>3, <1>4, <1>8, ElsewhereRested
  <2>2. CASE pc = "idle"
    <3>1. pc' = "idle"
      BY <1>8, <2>2, ElsewhereFacts DEF console
    <3> QED
      BY <2>1, <3>1 DEF Calm
  <2>3. CASE pc # "idle"
    BY <1>2, <1>3, <1>4, <1>8, <2>1, <2>3, ElsewhereCalm DEF CallContext
  <2> QED
    BY <2>2, <2>3, <2>1
<1> QED
  BY <1>5, <1>6, <1>7, <1>8 DEF TNext, Listen, Elsewhere

\* A call that has not been made has returned nothing.
LEMMA TruthfulAtFirst ==
    ASSUME TInit
    PROVE  Truthful
<1>1. DOMAIN replies = {}
  BY MembersOfSet DEF TInit, EmptyBag
<1>2. pc = "idle" /\ result.code = "none"
  BY DEF TInit, NoResult
<1> QED
  BY <1>1, <1>2 DEF Truthful, AnswersFit, Calm, Rested, TrueOf

\* What ss_push_delta returns is true as long as no timeout fires early, whatever is
\* lost, overtaken, refused or forgotten: it is true of a moment during the call. SS_OK
\* names a version that was the newest and holds the saved image; a conflict names one
\* that was the newest and that the save does not descend from, and unless a receipt
\* was lost or the server got in trouble, the call has not committed the save.
THEOREM ReturnsAreTrue == TransferSpec => []ResultHolds
<1>1. TInit => Init /\ Sound /\ Truthful
  BY SoundAtFirst, TruthfulAtFirst
<1>2. /\ IInv /\ IInv' /\ Sound /\ TransferTypeOK /\ TransferTypeOK' /\ Truthful /\ [TNext]_tvars
      => Truthful'
  BY TruthfulStep
<1>3. Truthful => ResultHolds
  BY DEF Truthful, Rested, TrueOf, ResultHolds, Returned, CallCommitted
<1> QED
  BY <1>1, <1>2, <1>3, SoundInv, TransferTypes, TransfersAreSafe, PTL DEF TransferSpec

----------------------------------------------------------------------------
(* Why a push survives few mishaps.                                        *)

Mishaps == mishaps["lost"] + mishaps["overtaken"]

\* The server takes the card at all.
Admissible == Len(save.image) \in 1..MaxChunks /\ MaxStaging > 0

Verdicts == {"ack", "conflict", "failed_validation"}

Refusals == {"too_large", "malformed", "rate_limited"}

\* The transfer has its buffer.
Opened ==
    /\ save.key \in DOMAIN staging
    /\ staging[save.key].delta = delta
    /\ DOMAIN staging[save.key].data = Chunks

Declared == staging[save.key].declared

\* The chunks that the server has yet to get.
Missed == Owed \ staging[save.key].received

\* A control message is on its way, or the server is at work or has decided.
Asked == ControlRequests # {}

Answering == Working # {} \/ \E r \in DOMAIN replies : r.code # "missing"

\* Nothing has been lost of what the console has sent last.
Intact ==
    \/ Answering
    \/ /\ Asked
       /\ pc \in {"end", "gaps"} => \A i \in Missed : Datagram("chunk", i) \in DOMAIN requests

\* The console is told what is missing, or will ask, or its next round has it.
Covered ==
    \/ pc \in {"begin", "declare"}
    \/ Asked
    \/ \A i \in Missed : \/ i \in want /\ (pc = "end" => DOMAIN replies = {})
                         \/ \E r \in DOMAIN replies : i \in r.gaps

\* Every emission but the first is paid for by a mishap, and what has been lost since
\* is a mishap more.
Progress ==
    /\ 1 <= tries /\ tries <= Mishaps + 1
    /\ Intact \/ tries <= Mishaps
    /\ Intact \/ Covered \/ tries < Mishaps

\* There is no other transfer, and no chunk is refused.
Alone ==
    /\ DOMAIN staging \subseteq {save.key}
    /\ \A r \in DOMAIN replies : r.to # "chunk"
    /\ pc # "idle" /\ delta => save.delta /\ ~ again

Resting ==
    /\ DOMAIN requests = {} /\ DOMAIN replies = {} /\ Working = {} /\ DOMAIN staging = {}
    /\ pushes > 0 /\ Admissible => result.code \in Verdicts

Beginning ==
    /\ \A d \in DOMAIN requests : d.kind = "begin" /\ d.of = Current
    /\ \A t \in Working : task[t].attempt = Current /\ delta /\ Admissible
    /\ ~ Admissible => DOMAIN staging = {} /\ \A r \in DOMAIN replies : r.code \in Refusals
    /\ Admissible => \A r \in DOMAIN replies :
          \/ /\ r.code = "ack" /\ Opened
             /\ staging[save.key].received = {} /\ Declared = {}
          \/ r.code = "delta_unavailable" /\ delta
    /\ Admissible => Progress

Declaring ==
    /\ Admissible /\ delta /\ Opened /\ Working = {}
    /\ want # {} /\ want \subseteq save.dirty
    /\ staging[save.key].received = {}
    /\ Declared \subseteq save.dirty /\ save.dirty \ want \subseteq Declared
    /\ \A d \in DOMAIN requests :
          d.kind = "delta" /\ d.of = Current /\ d.chunk \in want /\ \A j \in want : d.chunk <= j
    /\ \A r \in DOMAIN replies : r.code = "ack"
          /\ \A i \in want : (\A j \in want : i <= j) => Window(save, i) \subseteq Declared
    /\ Progress

\* What is on its way belongs to the round; before any mishap the server gets every
\* chunk once.
InRound ==
    /\ want \subseteq Owed
    /\ \A d \in DOMAIN requests :
          /\ d.of = Current
          /\ d.kind = "chunk" =>
                /\ d.chunk \in Owed
                /\ pc = "end" => d.chunk \in want
                /\ Mishaps = 0 => requests[d] = 1 /\ d.chunk \notin staging[save.key].received
    /\ \A t \in Working : task[t].attempt = Current
    /\ \A r \in DOMAIN replies : r.gaps \subseteq Owed
    /\ Working # {} => DOMAIN requests = {}
    /\ pc = "gaps" => ~ Asked

Sending ==
    /\ Admissible
    /\ InRound
    /\ \/ /\ \A r \in DOMAIN replies : r.code = "missing"
          /\ Opened
          /\ delta => Declared = Owed
          /\ \A i \in staging[save.key].received : staging[save.key].data[i] = save.image[i]
       \/ /\ \E r \in DOMAIN replies : r.code # "missing"
          /\ DOMAIN staging = {} /\ DOMAIN requests = {}
          /\ \A r \in DOMAIN replies : r.code \in Verdicts \/ (r.code = "checksum" /\ delta)
    /\ Progress

Recovers ==
    /\ Alone
    /\ pc = "idle" => Resting
    /\ pc = "begin" => Beginning
    /\ pc = "declare" => Declaring
    /\ pc \in {"end", "gaps"} => Sending

\* What the steps of a push with few mishaps go by.
LossContext == StepContext /\ Calm /\ Recovers /\ FewMishaps /\ FewMishaps'

\* Of the mishaps only a loss, or one overtaking as the first of all, leaves them few.
LEMMA FewCounted ==
    ASSUME mishaps \in [Kinds -> 0..MaxRounds], NEW kind \in Kinds, Mishap(kind), FewMishaps'
    PROVE  /\ FewMishaps
           /\ kind \in {"lost", "overtaken"}
           /\ Mishaps' = Mishaps + 1
           /\ kind = "overtaken" => Mishaps = 0
<1>1. /\ mishaps' \in [Kinds -> 0..MaxRounds]
      /\ mishaps'[kind] > 0
      /\ \A k \in Kinds \ {kind} : mishaps'[k] = mishaps[k]
      /\ mishaps[kind] < MaxRounds => mishaps'[kind] = mishaps[kind] + 1
      /\ \A k \in Kinds : mishaps'[k] >= mishaps[k]
  BY MishapTypes
<1>2. MaxRounds \in Nat /\ "lost" \in Kinds /\ "overtaken" \in Kinds
  BY TransferAssumption DEF Kinds
<1>3. kind \in {"lost", "overtaken"}
  BY <1>1 DEF FewMishaps
<1>4. /\ mishaps["lost"] \in Nat /\ mishaps["overtaken"] \in Nat
      /\ mishaps'["lost"] \in Nat /\ mishaps'["overtaken"] \in Nat
  BY <1>1, <1>2
<1>5. mishaps'["lost"] + mishaps'["overtaken"] < MaxRounds
  BY DEF FewMishaps
<1>6. mishaps[kind] < MaxRounds
  BY <1>1, <1>2, <1>3, <1>4, <1>5
<1>7. mishaps'["overtaken"] = 0 \/ mishaps'["lost"] + mishaps'["overtaken"] = 1
  BY DEF FewMishaps
<1>8. CASE kind = "lost"
  <2>1. mishaps'["lost"] = mishaps["lost"] + 1 /\ mishaps'["overtaken"] = mishaps["overtaken"]
    BY <1>1, <1>2, <1>6, <1>8
  <2>2. mishaps["overtaken"] = 0
    BY <1>4, <1>7, <2>1
  <2> QED
    BY <1>1, <1>2, <1>3, <1>4, <1>5, <1>8, <2>1, <2>2 DEF FewMishaps, Mishaps
<1>9. CASE kind = "overtaken"
  <2>1. mishaps'["overtaken"] = mishaps["overtaken"] + 1 /\ mishaps'["lost"] = mishaps["lost"]
    BY <1>1, <1>2, <1>6, <1>9
  <2>2. mishaps["overtaken"] = 0 /\ mishaps["lost"] = 0
    BY <1>4, <1>7, <2>1
  <2> QED
    BY <1>1, <1>2, <1>3, <1>4, <1>5, <1>9, <2>1, <2>2 DEF FewMishaps, Mishaps
<1> QED
  BY <1>3, <1>8, <1>9

\* Mishaps that are few have been few.
LEMMA FewBefore ==
    ASSUME mishaps \in [Kinds -> 0..MaxRounds], [TNext]_tvars, FewMishaps'
    PROVE  FewMishaps
<1>1. UNCHANGED mishaps \/ \E kind \in Kinds : Mishap(kind)
  <2>1. {"lost", "overtaken", "receipt", "late", "server"} \subseteq Kinds
    BY DEF Kinds
  <2> QED
    BY <2>1 DEF TNext, Listen, Serve, Start, Timeout, Hear, Deliver, ThreadDone, LoseRequest,
                Throttle, LoseReply, ServerTrouble, OtherCommits, tvars
<1>2. UNCHANGED mishaps => FewMishaps
  BY DEF FewMishaps
<1> QED
  BY <1>1, <1>2, FewCounted

\* What the numbers are.
LEMMA LossTypes ==
    ASSUME StepContext, FewMishaps
    PROVE  /\ Mishaps \in Nat /\ Mishaps < MaxRounds /\ MaxRounds \in Nat
           /\ tries \in Nat /\ tries' \in Nat
           /\ UNCHANGED mishaps => Mishaps' = Mishaps
<1>1. mishaps \in [Kinds -> 0..MaxRounds] /\ MaxRounds \in Nat
  BY ContextTypes, TransferAssumption
<1>2. mishaps["lost"] \in Nat /\ mishaps["overtaken"] \in Nat
  BY <1>1 DEF Kinds
<1>3. tries \in Nat /\ tries' \in Nat
  BY <1>1, ContextTypes DEF ConsoleTypes
<1> QED
  BY <1>1, <1>2, <1>3 DEF FewMishaps, Mishaps

\* A step that costs as much as it loses.
LEMMA ProgressKept ==
    ASSUME StepContext, FewMishaps, Progress, UNCHANGED tries,
           \/ Mishaps' = Mishaps /\ (Intact => Intact') /\ (Covered => Intact' \/ Covered')
           \/ Mishaps' = Mishaps + 1 /\ (Intact => Intact' \/ Covered')
    PROVE  Progress'
<1>1. Mishaps \in Nat /\ tries \in Nat
  BY LossTypes
<1>2. CASE Intact
  BY <1>1, <1>2 DEF Progress
<1>3. CASE ~ Intact /\ Covered
  BY <1>1, <1>3 DEF Progress
<1>4. CASE ~ Intact /\ ~ Covered
  BY <1>1, <1>4 DEF Progress
<1> QED
  BY <1>2, <1>3, <1>4

\* The first emission.
LEMMA ProgressFirst ==
    ASSUME StepContext, FewMishaps, UNCHANGED mishaps, tries' = 1, Intact'
    PROVE  Progress'
<1>1. Mishaps \in Nat /\ Mishaps' = Mishaps
  BY LossTypes
<1>2. 1 <= Mishaps + 1
  BY <1>1
<1> QED
  BY <1>1, <1>2 DEF Progress

\* One more emission is paid for, and there are emissions left.
LEMMA ProgressAgain ==
    ASSUME StepContext, FewMishaps, UNCHANGED mishaps, Progress, ~ Intact
    PROVE  /\ tries < MaxRounds /\ tries # MaxRounds /\ Mishaps # 0
           /\ tries' = tries + 1 /\ Covered' /\ (Covered => Intact') => Progress'
<1>1. /\ Mishaps \in Nat /\ Mishaps < MaxRounds /\ MaxRounds \in Nat
      /\ tries \in Nat /\ tries' \in Nat /\ Mishaps' = Mishaps
  BY LossTypes
<1>2. tries <= Mishaps /\ 1 <= tries /\ (~ Covered => tries < Mishaps)
  BY DEF Progress
<1>3. ASSUME tries' = tries + 1, Covered', Covered => Intact'
      PROVE  Progress'
  <2>1. CASE Covered
    BY <1>1, <1>2, <1>3, <2>1 DEF Progress
  <2>2. CASE ~ Covered
    BY <1>1, <1>2, <1>3, <2>2 DEF Progress
  <2> QED
    BY <2>1, <2>2
<1> QED
  BY <1>1, <1>2, <1>3

\* The console begins a transfer, with nothing of another one left.
LEMMA RecoversBegun ==
    ASSUME StepContext, FewMishaps, UNCHANGED <<mishaps, task, staging>>,
           NEW a \in Saves, NEW asDelta, NEW second, Begin(a, asDelta, second),
           asDelta => a.delta /\ ~ second,
           DOMAIN requests = {}, DOMAIN replies' = {}, Working = {},
           DOMAIN staging \subseteq {a.key},
           ~ (Len(a.image) \in 1..MaxChunks /\ MaxStaging > 0) => DOMAIN staging = {}
    PROVE  Recovers'
<1> DEFINE c == [kind |-> "begin", of |-> IF asDelta THEN a ELSE Whole(a), chunk |-> 0]
<1>1. /\ c.kind = "begin" /\ c.of = IF asDelta THEN a ELSE Whole(a)
  OBVIOUS
<1>2. /\ save' = a /\ delta' = asDelta /\ again' = second /\ pc' = "begin" /\ tries' = 1
      /\ requests' = requests (+) SetToBag({c})
  BY DEF Begin, Ask, Emit
<1> HIDE DEF c
<1>3. DOMAIN requests' = {c}
  <2>1. DOMAIN requests' = DOMAIN requests \cup DOMAIN SetToBag({c})
    BY <1>2, MembersAdded
  <2> QED
    BY <2>1, MembersOfSet
<1>4. Working' = {}
  BY DEF Working
<1>5. Intact'
  BY <1>1, <1>2, <1>3 DEF Intact, Asked, ControlRequests
<1>6. Progress'
  BY <1>2, <1>5, ProgressFirst
<1>7. Alone'
  BY <1>2 DEF Alone
<1>8. Beginning'
  <2>1. c.of = Current'
    BY <1>1, <1>2 DEF Current
  <2>2. ~ Admissible' => DOMAIN staging' = {}
    BY <1>2 DEF Admissible
  <2> QED
    BY <1>1, <1>3, <1>4, <1>6, <2>1, <2>2 DEF Beginning
<1> QED
  BY <1>2, <1>7, <1>8 DEF Recovers

\* The next emission of what is asked.
LEMMA AskedAlone ==
    ASSUME RequestTypes, NEW S, Emit(S), DOMAIN requests = {}
    PROVE  DOMAIN requests' = S /\ \A d \in S : requests'[d] = 1
<1>1. requests' = requests (+) SetToBag(S)
  BY DEF Emit
<1>2. DOMAIN requests' = DOMAIN requests \cup DOMAIN SetToBag(S)
  BY <1>1, MembersAdded
<1>3. \A d \in S : requests'[d] = 1
  BY <1>1, AddedCopies DEF RequestTypes
<1> QED
  BY <1>2, <1>3, MembersOfSet

\* The console declares the first window that it wants to.
LEMMA RecoversDeclared ==
    ASSUME StepContext, FewMishaps, UNCHANGED <<save, delta, again, task, staging>>,
           NEW i, NEW n, i \in want', \A j \in want' : i <= j,
           Ask("declare", Datagram("delta", i), n),
           DOMAIN requests = {}, DOMAIN replies' = {}, Working = {}, Alone, Admissible, Opened,
           pc # "idle", delta, want' \subseteq save.dirty, staging[save.key].received = {},
           Declared \subseteq save.dirty, save.dirty \ want' \subseteq Declared,
           Intact' => Progress'
    PROVE  Recovers'
<1> DEFINE c == Datagram("delta", i)
<1>1. c.kind = "delta" /\ c.of = Current /\ c.chunk = i
  BY DEF Datagram
<1>2. pc' = "declare" /\ Emit({c})
  BY DEF Ask
<1> HIDE DEF c
<1>3. DOMAIN requests' = {c}
  BY <1>2, AskedAlone, ContextTypes
<1>4. Intact'
  BY <1>1, <1>2, <1>3 DEF Intact, Asked, ControlRequests
<1>5. Working' = {} /\ Current' = Current
  BY DEF Working, Current
<1>6. Admissible' /\ Opened' /\ Declared' = Declared
  BY DEF Admissible, Opened, Declared, Chunks
<1>7. Declaring'
  BY <1>1, <1>3, <1>4, <1>5, <1>6 DEF Declaring
<1>8. Alone'
  BY DEF Alone
<1> QED
  BY <1>2, <1>7, <1>8 DEF Recovers

\* The console sends a round.
LEMMA RecoversSent ==
    ASSUME StepContext, FewMishaps, UNCHANGED <<save, delta, again, task, staging>>,
           NEW chunks, NEW n, SendRound(chunks, n),
           DOMAIN requests = {}, DOMAIN replies' = {}, Working = {}, Alone, Admissible, Opened,
           pc # "idle", delta => Declared = Owed,
           \A i \in staging[save.key].received : staging[save.key].data[i] = save.image[i],
           chunks \subseteq Owed,
           Mishaps' = 0 => chunks \cap staging[save.key].received = {},
           Covered' /\ (Missed \subseteq chunks => Intact') => Progress'
    PROVE  Recovers'
<1> DEFINE c == Datagram("end", 0)
           S == {Datagram("chunk", i) : i \in chunks} \cup {Datagram("end", 0)}
<1>1. /\ c.kind = "end" /\ c \in S
      /\ \A d \in S : d.of = Current /\ (d.kind # "chunk" => d = c)
      /\ \A d \in S : d.kind = "chunk" => d.chunk \in chunks
      /\ \A i \in chunks : Datagram("chunk", i) \in S
  BY DEF Datagram
<1>2. pc' = "end" /\ want' = chunks /\ Emit(S)
  BY DEF SendRound
<1>3. \A i : Datagram("chunk", i)' = Datagram("chunk", i)
  BY DEF Datagram, Current
<1> HIDE DEF c, S
<1>4. DOMAIN requests' = S /\ \A d \in S : requests'[d] = 1
  BY <1>2, AskedAlone, ContextTypes
<1>5. Working' = {} /\ Current' = Current /\ Owed' = Owed /\ Missed' = Missed
  BY DEF Working, Current, Owed, Missed, Chunks
<1>6. Admissible' /\ Opened' /\ Declared' = Declared
  BY DEF Admissible, Opened, Declared, Chunks
<1>7. Asked'
  BY <1>1, <1>4 DEF Asked, ControlRequests
<1>8. Missed \subseteq chunks => Intact'
  BY <1>1, <1>3, <1>4, <1>5, <1>7 DEF Intact
<1>9. Progress'
  BY <1>7, <1>8 DEF Covered
<1>10. InRound'
  BY <1>1, <1>2, <1>4, <1>5 DEF InRound
<1>11. Sending'
  BY <1>5, <1>6, <1>9, <1>10 DEF Sending
<1>12. Alone'
  BY DEF Alone
<1> QED
  BY <1>2, <1>11, <1>12 DEF Recovers

\* The console goes on to what it has still to declare, or to its first round.
LEMMA RecoversOnward ==
    ASSUME StepContext, FewMishaps, UNCHANGED <<save, delta, again, task, staging, mishaps>>,
           NEW undeclared \in SUBSET save.dirty, DeclareOrSend(undeclared),
           ~ delta => undeclared = {},
           DOMAIN requests = {}, DOMAIN replies' = {}, Working = {}, Alone, Admissible, Opened,
           pc # "idle", staging[save.key].received = {},
           delta => Declared \subseteq save.dirty /\ save.dirty \ undeclared \subseteq Declared
    PROVE  Recovers'
<1>1. CASE undeclared # {}
  <2>1. want' = undeclared /\ tries' = 1
    BY <1>1 DEF DeclareOrSend, Ask
  <2>2. PICK i \in undeclared : /\ \A j \in undeclared : i <= j
                                /\ Ask("declare", Datagram("delta", i), 1)
    BY <1>1 DEF DeclareOrSend
  <2>3. Intact' => Progress'
    BY <2>1, ProgressFirst
  <2> QED
    BY <1>1, <2>1, <2>2, <2>3, RecoversDeclared
<1>2. CASE undeclared = {}
  <2>1. SendRound(Owed, 1) /\ tries' = 1
    BY <1>2 DEF DeclareOrSend, SendRound
  <2>2. delta => Declared = Owed
    BY <1>2 DEF Owed
  <2>3. Missed \subseteq Owed
    BY DEF Missed
  <2>4. Intact' => Progress'
    BY <2>1, ProgressFirst
  <2> QED
    BY <2>1, <2>2, <2>3, <2>4, RecoversSent
<1> QED
  BY <1>1, <1>2

\* The call is over: it returns, or starts once more whole.
LEMMA RecoversFinished ==
    ASSUME StepContext, FewMishaps, UNCHANGED <<task, staging, mishaps>>, pc # "idle",
           NEW code, NEW version, Finish(code, version), Alone,
           DOMAIN requests = {}, DOMAIN replies' = {}, Working = {}, DOMAIN staging = {},
           Admissible => code \in Verdicts \/ (code = "checksum" /\ delta)
    PROVE  Recovers'
<1>1. CASE code = "checksum" /\ save.delta /\ ~ again /\ Begin(save, FALSE, TRUE)
  <2>1. save \in Saves
    BY ContextTypes
  <2> QED
    BY <1>1, <2>1, RecoversBegun
<1>2. CASE /\ ~ (code = "checksum" /\ save.delta /\ ~ again)
           /\ result' = [code |-> code, version |-> version]
           /\ pc' = "idle"
           /\ UNCHANGED <<requests, save, delta, again, tries, want>>
  <2>1. Admissible => code \in Verdicts
    BY <1>2 DEF Alone
  <2>2. Working' = {} /\ (Admissible' <=> Admissible) /\ result'.code = code
    BY <1>2 DEF Working, Admissible
  <2>3. Resting' /\ Alone'
    BY <1>2, <2>1, <2>2 DEF Resting, Alone
  <2> QED
    BY <1>2, <2>3 DEF Recovers
<1> QED
  BY <1>1, <1>2 DEF Finish

\* A call is made.
LEMMA StartRecovers ==
    ASSUME LossContext, NEW a \in Saves, Start(a)
    PROVE  Recovers'
<1>1. /\ StepContext /\ FewMishaps /\ mishaps \in [Kinds -> 0..MaxRounds]
      /\ DOMAIN requests = {} /\ DOMAIN replies = {} /\ Working = {} /\ DOMAIN staging = {}
  BY ContextTypes DEF LossContext, Recovers, Resting, Start
<1>2. ~ Mishap("late")
  BY <1>1, FewCounted DEF LossContext, Kinds
<1>3. replies' = EmptyBag /\ UNCHANGED <<mishaps, task, staging>> /\ Begin(a, a.delta, FALSE)
  BY <1>2 DEF Start, Drop
<1>4. DOMAIN replies' = {}
  BY <1>3, MembersOfSet DEF EmptyBag
<1> QED
  BY <1>1, <1>3, <1>4, RecoversBegun

\* What the console hears while it begins a transfer.
LEMMA HearBeginRecovers ==
    ASSUME LossContext, NEW r \in DOMAIN replies, replies' = replies (-) SetToBag({r}),
           HearBegin(r), UNCHANGED <<mishaps, task, staging>>
    PROVE  Recovers'
<1>1. pc = "begin" /\ pc # "idle"
  BY DEF HearBegin
<1>2. /\ StepContext /\ FewMishaps /\ CallContext /\ Alone /\ Beginning /\ save \in Saves
      /\ AnswerTypes
  BY <1>1, ContextTypes DEF LossContext, Recovers, CallContext
<1>3. r.to # "chunk" /\ r.to \in {"begin", "delta", "chunk", "end"}
  BY <1>2, HeardAlone DEF Alone
<1>4. r.to = "begin" /\ r.code \in AnswersTo[r.to]
  BY <1>1, <1>2, <1>3, HeardAlone DEF Expected
<1>5. r.code # "missing"
  BY <1>4 DEF AnswersTo
<1>6. ControlRequests = {} /\ Working = {} /\ ControlReplies' = {}
  BY <1>2, <1>3, <1>5, HeardAlone
<1>7. DOMAIN requests = {}
  BY <1>2, <1>6 DEF Beginning, ControlRequests
<1>8. DOMAIN replies' = {}
  <2>1. DOMAIN replies' \subseteq DOMAIN replies
    BY <1>2, ReplyTaken
  <2> QED
    BY <1>2, <1>6, <2>1 DEF Alone, ControlReplies
<1>9. DOMAIN staging \subseteq {save.key} /\ (~ Admissible => DOMAIN staging = {})
  BY <1>2 DEF Alone, Beginning
<1>10. CASE /\ r.code = "ack"
            /\ DeclareOrSend(IF delta THEN save.dirty ELSE {})
            /\ UNCHANGED <<save, delta, again, result>>
  <2>1. Admissible
    BY <1>2, <1>10 DEF Beginning, Refusals
  <2>2. Opened /\ staging[save.key].received = {} /\ Declared = {}
    BY <1>2, <1>10, <2>1 DEF Beginning
  <2> DEFINE undeclared == IF delta THEN save.dirty ELSE {}
  <2>3. /\ undeclared \in SUBSET save.dirty /\ (~ delta => undeclared = {})
        /\ delta => save.dirty \ undeclared \subseteq Declared
    OBVIOUS
  <2>4. DeclareOrSend(undeclared)
    BY <1>10
  <2> HIDE DEF undeclared
  <2> QED
    BY <1>1, <1>2, <1>6, <1>7, <1>8, <1>10, <2>1, <2>2, <2>3, <2>4, RecoversOnward
<1>11. CASE delta /\ Begin(save, FALSE, again)
  BY <1>2, <1>6, <1>7, <1>8, <1>9, <1>11, RecoversBegun DEF Admissible
<1>12. CASE /\ r.code # "ack" /\ ~ (r.code = "delta_unavailable" /\ delta)
            /\ Finish(r.code, r.version)
  <2>1. ~ Admissible
    BY <1>2, <1>12 DEF Beginning
  <2> QED
    BY <1>1, <1>2, <1>6, <1>7, <1>8, <1>9, <1>12, <2>1, RecoversFinished
<1> QED
  BY <1>10, <1>11, <1>12 DEF HearBegin

\* What the console hears while it declares a delta.
LEMMA HearDeclareRecovers ==
    ASSUME LossContext, NEW r \in DOMAIN replies, replies' = replies (-) SetToBag({r}),
           HearDeclare(r), UNCHANGED <<mishaps, task, staging>>
    PROVE  Recovers'
<1>1. pc = "declare" /\ pc # "idle"
  BY DEF HearDeclare
<1>2. /\ StepContext /\ FewMishaps /\ CallContext /\ Alone /\ Declaring /\ AnswerTypes
  BY <1>1, ContextTypes DEF LossContext, Recovers, CallContext
<1>3. r.to # "chunk" /\ r.code = "ack"
  BY <1>2 DEF Alone, Declaring
<1>4. ControlRequests = {} /\ Working = {} /\ ControlReplies' = {}
  BY <1>2, <1>3, HeardAlone
<1>5. DOMAIN requests = {}
  BY <1>2, <1>4 DEF Declaring, ControlRequests
<1>6. DOMAIN replies' = {}
  <2>1. DOMAIN replies' \subseteq DOMAIN replies
    BY <1>2, ReplyTaken
  <2> QED
    BY <1>2, <1>4, <2>1 DEF Alone, ControlReplies
<1>7. PICK i \in want : /\ \A j \in want : i <= j
                        /\ DeclareOrSend(want \ Window(save, i))
  BY <1>3 DEF HearDeclare
<1>8. /\ Admissible /\ delta /\ Opened /\ want \subseteq save.dirty
      /\ staging[save.key].received = {} /\ Declared \subseteq save.dirty
      /\ save.dirty \ want \subseteq Declared /\ Window(save, i) \subseteq Declared
  BY <1>2, <1>7 DEF Declaring
<1> DEFINE undeclared == want \ Window(save, i)
<1>9. undeclared \in SUBSET save.dirty /\ save.dirty \ undeclared \subseteq Declared
  BY <1>8
<1>10. DeclareOrSend(undeclared) /\ UNCHANGED <<save, delta, again>>
  BY <1>3, <1>7 DEF HearDeclare
<1> HIDE DEF undeclared
<1> QED
  BY <1>1, <1>2, <1>4, <1>5, <1>6, <1>8, <1>9, <1>10, RecoversOnward

\* What the console hears after a round.
LEMMA HearVerdictRecovers ==
    ASSUME LossContext, NEW r \in DOMAIN replies, replies' = replies (-) SetToBag({r}),
           HearVerdict(r), UNCHANGED <<mishaps, task, staging>>
    PROVE  Recovers'
<1>1. pc \in {"end", "gaps"} /\ pc # "idle"
  BY DEF HearVerdict
<1>2. /\ StepContext /\ FewMishaps /\ CallContext /\ Alone /\ Sending /\ AnswerTypes
      /\ OneExchange /\ save \in Saves
  BY <1>1, ContextTypes, CallFacts DEF LossContext, Recovers, CallContext
<1>3. /\ DOMAIN replies' \subseteq DOMAIN replies
      /\ \A q \in DOMAIN replies \ {r} : q \in DOMAIN replies'
  BY <1>2, ReplyTaken
<1>4. r \in ControlReplies
  BY <1>2 DEF Alone, ControlReplies
<1>5. CASE r.code # "missing" /\ Finish(r.code, r.version)
  <2>1. ControlRequests = {} /\ Working = {} /\ ControlReplies' = {}
    BY <1>2, <1>4, <1>5, HeardAlone DEF ControlReplies
  <2>2. DOMAIN replies' = {}
    BY <1>2, <1>3, <2>1 DEF Alone, ControlReplies
  <2>3. /\ DOMAIN staging = {} /\ DOMAIN requests = {}
        /\ r.code \in Verdicts \/ (r.code = "checksum" /\ delta)
    BY <1>2, <1>5 DEF Sending
  <2> QED
    BY <1>1, <1>2, <1>5, <2>1, <2>2, <2>3, RecoversFinished
<1>6. CASE /\ r.code = "missing"
           /\ pc' = "gaps"
           /\ want' = (r.gaps \cap Chunks) \cup (IF pc = "gaps" THEN want ELSE {})
           /\ UNCHANGED <<requests, save, delta, again, tries, result>>
  <2>1. ControlRequests = {} /\ Working = {}
    BY <1>2, <1>4 DEF OneExchange
  <2>2. \A q \in DOMAIN replies : q.code = "missing"
    <3>1. ASSUME NEW q \in DOMAIN replies, q.code # "missing" PROVE FALSE
      <4>1. q \in ControlReplies /\ ControlReplies = {q}
        BY <1>2, <3>1 DEF Alone, ControlReplies, OneExchange
      <4> QED
        BY <1>4, <1>6, <3>1, <4>1
    <3> QED
      BY <3>1
  <2>3. /\ Opened /\ (delta => Declared = Owed)
        /\ \A i \in staging[save.key].received : staging[save.key].data[i] = save.image[i]
        /\ Admissible /\ InRound /\ Progress
    BY <1>2, <2>2 DEF Sending
  <2>4. Owed \subseteq Chunks
    BY <1>2, SaveTypes DEF Owed, Chunks
  <2>5. /\ Working' = {} /\ ControlRequests' = {}
        /\ Current' = Current /\ Owed' = Owed /\ Missed' = Missed /\ Declared' = Declared
        /\ Admissible' /\ Opened' /\ Mishaps' = Mishaps
    <3>1. Working' = {} /\ ControlRequests' = {} /\ Mishaps' = Mishaps
      BY <1>6, <2>1 DEF Working, ControlRequests, Mishaps
    <3>2. Current' = Current /\ Owed' = Owed /\ Missed' = Missed /\ Declared' = Declared
      BY <1>6 DEF Current, Owed, Missed, Chunks, Declared
    <3>3. Admissible' /\ Opened'
      BY <1>6, <2>3 DEF Admissible, Opened, Chunks
    <3> QED
      BY <3>1, <3>2, <3>3
  <2>6. r.gaps \subseteq Owed /\ want' \subseteq Owed
        /\ r.gaps \subseteq want' /\ (pc = "gaps" => want \subseteq want')
    BY <1>6, <2>3, <2>4 DEF InRound
  <2>7. InRound'
    BY <1>3, <1>6, <2>3, <2>5, <2>6 DEF InRound, Asked
  <2>8. ~ Intact
    BY <2>1, <2>2 DEF Intact, Answering, Asked
  <2>9. Covered => Covered'
    <3>1. SUFFICES ASSUME Covered, NEW i \in Missed
                   PROVE  i \in want' \/ \E q \in DOMAIN replies' : i \in q.gaps
      BY <1>6, <2>5 DEF Covered
    <3>2. \/ i \in want /\ pc = "gaps"
          \/ \E q \in DOMAIN replies : i \in q.gaps
      BY <1>1, <2>1, <3>1 DEF Covered, Asked
    <3> QED
      BY <1>3, <2>6, <3>2
  <2>10. Progress'
    BY <1>2, <1>6, <2>3, <2>5, <2>8, <2>9, ProgressKept
  <2>11. Sending'
    <3>1. \A q \in DOMAIN replies' : q.code = "missing"
      BY <1>3, <2>2
    <3>2. \A i \in staging'[save'.key].received : staging'[save'.key].data[i] = save'.image[i]
      BY <1>6, <2>3
    <3>3. delta' => Declared' = Owed'
      BY <1>6, <2>3, <2>5
    <3> QED
      BY <2>5, <2>7, <2>10, <3>1, <3>2, <3>3 DEF Sending
  <2>12. Alone'
    BY <1>2, <1>3, <1>6, <1>1 DEF Alone
  <2> QED
    BY <1>6, <2>11, <2>12 DEF Recovers
<1> QED
  BY <1>5, <1>6 DEF HearVerdict

\* Whatever the console hears.
LEMMA HearRecovers ==
    ASSUME LossContext, NEW r, Hear(r)
    PROVE  Recovers'
<1>1. /\ r \in DOMAIN replies /\ replies' = replies (-) SetToBag({r})
      /\ UNCHANGED <<mishaps, task, staging>>
  BY DEF Hear, Drop, BagIn, BagToSet
<1> QED
  BY <1>1, HearBeginRecovers, HearDeclareRecovers, HearVerdictRecovers DEF Hear

\* Nothing is heard for long enough: the console has emissions left.
LEMMA TimeoutRecovers ==
    ASSUME LossContext, Timeout
    PROVE  Recovers'
<1>1. /\ StepContext /\ FewMishaps /\ mishaps \in [Kinds -> 0..MaxRounds] /\ RequestTypes
  BY ContextTypes DEF LossContext
<1>2. ~ Mishap("late")
  BY <1>1, FewCounted DEF LossContext, Kinds
<1>3. ~ Busy /\ UNCHANGED <<mishaps, task, staging, replies>> /\ AskAgain
  BY <1>2 DEF Timeout, Drop
<1>4. ControlRequests = {} /\ Working = {} /\ DOMAIN requests = {} /\ DOMAIN replies = {}
  BY <1>3, NothingUnderway, MembersOfSet DEF Busy, EmptyBag
<1>5. DOMAIN replies' = {}
  BY <1>3, <1>4
<1>6. ~ Answering /\ ~ Asked /\ ~ Intact
  BY <1>4 DEF Answering, Asked, Intact
<1>7. pc # "idle" /\ Alone
  BY <1>3 DEF AskAgain, LossContext, Recovers
<1>8. Progress => /\ tries < MaxRounds /\ tries # MaxRounds /\ Mishaps # 0
                  /\ tries' = tries + 1 /\ Covered' /\ (Covered => Intact') => Progress'
  BY <1>1, <1>3, <1>6, ProgressAgain
<1>9. CASE /\ pc = "begin" /\ Ask("begin", Datagram("begin", 0), tries + 1)
           /\ UNCHANGED <<save, delta, again, want, result>>
  <2> DEFINE c == Datagram("begin", 0)
  <2>1. c.kind = "begin" /\ c.of = Current
    BY DEF Datagram
  <2>2. pc' = "begin" /\ tries' = tries + 1 /\ Emit({c})
    BY <1>9 DEF Ask
  <2> HIDE DEF c
  <2>3. DOMAIN requests' = {c}
    BY <1>1, <1>4, <2>2, AskedAlone
  <2>4. Intact' /\ Covered'
    BY <2>1, <2>2, <2>3 DEF Intact, Covered, Asked, ControlRequests
  <2>5. Beginning
    BY <1>9 DEF LossContext, Recovers
  <2>6. /\ Working' = {} /\ Current' = Current /\ (Admissible' <=> Admissible)
    BY <1>3, <1>4, <1>9 DEF Working, Current, Admissible
  <2>7. Admissible => Progress'
    BY <1>8, <2>2, <2>4, <2>5 DEF Beginning
  <2>8. Beginning'
    BY <1>3, <1>5, <2>1, <2>3, <2>5, <2>6, <2>7 DEF Beginning
  <2>9. Alone'
    BY <1>3, <1>7, <1>9 DEF Alone
  <2> QED
    BY <2>2, <2>8, <2>9 DEF Recovers
<1>10. CASE /\ pc = "declare"
            /\ \E i \in want :
                  /\ \A j \in want : i <= j
                  /\ Ask("declare", Datagram("delta", i), tries + 1)
            /\ UNCHANGED <<save, delta, again, want, result>>
  <2>1. PICK i \in want : /\ \A j \in want : i <= j
                          /\ Ask("declare", Datagram("delta", i), tries + 1)
    BY <1>10
  <2>2. Declaring
    BY <1>10 DEF LossContext, Recovers
  <2>3. pc' = "declare" /\ tries' = tries + 1
    BY <2>1 DEF Ask
  <2>4. Intact' => Progress'
    BY <1>8, <2>2, <2>3 DEF Declaring, Covered
  <2> QED
    BY <1>1, <1>3, <1>4, <1>5, <1>7, <1>10, <2>1, <2>2, <2>4, RecoversDeclared DEF Declaring
<1>11. CASE /\ pc \in {"end", "gaps"} /\ SendRound(want, tries + 1)
            /\ UNCHANGED <<save, delta, again, result>>
  <2>1. Sending
    BY <1>11 DEF LossContext, Recovers
  <2>2. /\ Opened /\ (delta => Declared = Owed)
        /\ \A i \in staging[save.key].received : staging[save.key].data[i] = save.image[i]
        /\ Admissible /\ InRound /\ Progress
    BY <1>4, <2>1 DEF Sending
  <2>3. Mishaps' # 0 /\ tries' = tries + 1
    BY <1>1, <1>3, <1>8, <1>11, <2>2, LossTypes DEF SendRound
  <2>4. Covered => Missed \subseteq want
    BY <1>4, <1>6, <1>11 DEF Covered
  <2>5. Covered' /\ (Missed \subseteq want => Intact') => Progress'
    BY <1>8, <2>2, <2>3, <2>4
  <2>6. want \subseteq Owed
    BY <2>2 DEF InRound
  <2>7. UNCHANGED <<save, delta, again, task, staging>> /\ SendRound(want, tries + 1)
    BY <1>3, <1>11
  <2> QED
    BY <1>1, <1>4, <1>5, <1>7, <2>2, <2>3, <2>5, <2>6, <2>7, RecoversSent
<1>12. CASE tries = MaxRounds /\ Finish("gave_up", 0)
  <2>1. ~ Progress
    BY <1>8, <1>12
  <2>2. pc = "begin" /\ ~ Admissible
    <3>1. pc \in {"idle", "begin", "declare", "end", "gaps"}
      BY <1>1, ContextTypes DEF ConsoleTypes
    <3> QED
      BY <1>7, <2>1, <3>1 DEF LossContext, Recovers, Beginning, Declaring, Sending
  <2>3. DOMAIN staging = {}
    BY <2>2 DEF LossContext, Recovers, Beginning
  <2> QED
    BY <1>1, <1>3, <1>4, <1>5, <1>7, <1>12, <2>2, <2>3, RecoversFinished
<1> QED
  BY <1>3, <1>9, <1>10, <1>11, <1>12 DEF AskAgain

\* What depends on the save and on the buffer only.
LEMMA SameSave ==
    ASSUME UNCHANGED <<save, delta>>
    PROVE  /\ Current' = Current /\ Owed' = Owed /\ Chunks' = Chunks
           /\ Admissible' <=> Admissible
           /\ \A kind, i : Datagram(kind, i)' = Datagram(kind, i)
BY DEF Current, Owed, Chunks, Admissible, Datagram

\* See SameSave.
LEMMA SameTransfer ==
    ASSUME UNCHANGED <<save, delta, staging>>
    PROVE  /\ Missed' = Missed /\ Declared' = Declared
           /\ Opened' <=> Opened
<1>1. Owed' = Owed /\ Chunks' = Chunks
  BY SameSave
<1> QED
  BY <1>1 DEF Missed, Declared, Opened

\* What is pushed is the save.
LEMMA CurrentIs ==
    ASSUME save \in Saves, delta \in BOOLEAN, delta => save.delta
    PROVE  /\ Current \in Attempts /\ Current.delta = delta /\ Current.key = save.key
           /\ Current.image = save.image /\ Current.dirty = save.dirty
           /\ Current.parent = save.parent
           /\ Owed \subseteq Chunks /\ Chunks = 1..Len(save.image) /\ Len(save.image) \in Nat
           /\ Chunks \subseteq Nat /\ save.dirty \subseteq Chunks
<1>1. save \in Attempts /\ save \in Attempt
  BY SaveTypes, ListenerAssumption
<1>2. /\ Current \in Attempts /\ Current.image = save.image /\ Current.dirty = save.dirty
      /\ save.dirty \subseteq DOMAIN save.image
  BY CurrentTypes, SaveTypes
<1>3. Current.delta = delta /\ Current.key = save.key /\ Current.parent = save.parent
  BY <1>1 DEF Current, Whole, Attempt
<1>4. Chunks = 1..Len(save.image) /\ Len(save.image) \in Nat
  BY ChunkNumbers DEF Chunks
<1> QED
  BY <1>2, <1>3, <1>4 DEF Owed, Chunks

\* A push under way, and what is left of the last one.
LEMMA LossFacts ==
    ASSUME LossContext
    PROVE  /\ StepContext /\ FewMishaps /\ Alone /\ save \in Saves /\ delta \in BOOLEAN
           /\ RequestTypes /\ AnswerTypes /\ mishaps \in [Kinds -> 0..MaxRounds]
           /\ pc \in {"idle", "begin", "declare", "end", "gaps"}
           /\ DOMAIN requests # {} \/ DOMAIN replies # {} \/ Working # {} => pc # "idle"
           /\ pc # "idle" => CallContext /\ OneExchange /\ InStep /\ (delta => save.delta)
           /\ pc = "begin" => Beginning
           /\ pc = "declare" => Declaring
           /\ pc \in {"end", "gaps"} => Sending
           /\ ControlReplies = DOMAIN replies
<1>1. StepContext /\ FewMishaps /\ Recovers /\ Calm
  BY DEF LossContext
<1>2. /\ save \in Saves /\ RequestTypes /\ AnswerTypes /\ ConsoleTypes
      /\ mishaps \in [Kinds -> 0..MaxRounds]
  BY <1>1, ContextTypes
<1>3. ControlReplies = DOMAIN replies
  BY <1>1 DEF Recovers, Alone, ControlReplies
<1>4. pc # "idle" => CallContext /\ OneExchange /\ InStep
  BY <1>1, CallFacts DEF CallContext
<1>5. DOMAIN requests # {} \/ DOMAIN replies # {} \/ Working # {} => pc # "idle"
  BY <1>1 DEF Recovers, Resting
<1>6. /\ Alone /\ (pc # "idle" => (delta => save.delta))
      /\ (pc = "begin" => Beginning) /\ (pc = "declare" => Declaring)
      /\ (pc \in {"end", "gaps"} => Sending)
  BY <1>1 DEF Recovers, Alone
<1> QED
  BY <1>1, <1>2, <1>3, <1>4, <1>5, <1>6 DEF ConsoleTypes

\* The network loses a request.
LEMMA RequestLostRecovers ==
    ASSUME LossContext, NEW d \in DOMAIN requests, LoseRequest(d)
    PROVE  Recovers'
<1>1. /\ requests' = requests (-) SetToBag({d}) /\ Mishap("lost")
      /\ UNCHANGED <<replies, staging, task, pc, save, delta, again, tries, want, result, pushes>>
  BY DEF LoseRequest, Drop, console
<1>2. /\ StepContext /\ FewMishaps /\ Alone /\ RequestTypes /\ mishaps \in [Kinds -> 0..MaxRounds]
      /\ pc \in {"begin", "declare", "end", "gaps"} /\ OneExchange /\ ControlReplies = DOMAIN replies
  BY LossFacts
<1>3. Mishaps' = Mishaps + 1 /\ Mishaps \in Nat
  BY <1>1, <1>2, FewCounted, LossTypes DEF Kinds, LossContext
<1>4. /\ DOMAIN requests' \subseteq DOMAIN requests
      /\ ControlRequests' \subseteq ControlRequests
      /\ \A e \in DOMAIN requests \ {d} : e \in DOMAIN requests' /\ requests'[e] = requests[e]
      /\ d.kind = "chunk" => ControlRequests' = ControlRequests
  BY <1>1, <1>2, RequestTaken
<1>5. /\ Current' = Current /\ Owed' = Owed /\ (Admissible' <=> Admissible)
      /\ Missed' = Missed /\ Declared' = Declared /\ (Opened' <=> Opened)
      /\ \A kind, i : Datagram(kind, i)' = Datagram(kind, i)
  BY <1>1, SameSave, SameTransfer
<1>6. Working' = Working
  BY <1>1 DEF Working
<1>7. Alone'
  BY <1>1, <1>2 DEF Alone
<1>8. Progress /\ (Intact => Intact' \/ Covered') => Progress'
  BY <1>1, <1>2, <1>3, ProgressKept
<1>9. CASE pc = "begin"
  <2>1. Covered' /\ Beginning
    BY <1>1, <1>9, LossFacts DEF Covered
  <2>2. Admissible => Progress'
    BY <1>8, <2>1 DEF Beginning
  <2>3. Beginning'
    BY <1>1, <1>4, <1>5, <1>6, <2>1, <2>2 DEF Beginning
  <2> QED
    BY <1>1, <1>7, <1>9, <2>3 DEF Recovers
<1>10. CASE pc = "declare"
  <2>1. Covered' /\ Declaring
    BY <1>1, <1>10, LossFacts DEF Covered
  <2>2. Progress'
    BY <1>8, <2>1 DEF Declaring
  <2>3. Declaring'
    BY <1>1, <1>4, <1>5, <1>6, <2>1, <2>2 DEF Declaring
  <2> QED
    BY <1>1, <1>7, <1>10, <2>3 DEF Recovers
<1>11. CASE pc \in {"end", "gaps"}
  <2>1. Sending /\ InRound /\ Progress
    BY <1>11, LossFacts DEF Sending
  <2>2. Working = {} /\ \A r \in DOMAIN replies : r.code = "missing"
    BY <2>1 DEF Sending, InRound
  <2>3. Intact => Covered'
    <3>1. SUFFICES ASSUME Asked, \A i \in Missed : Datagram("chunk", i) \in DOMAIN requests
                   PROVE  Covered'
      BY <1>11, <2>2 DEF Intact, Answering
    <3>2. CASE d.kind = "chunk"
      BY <1>4, <3>1, <3>2 DEF Covered, Asked
    <3>3. CASE d.kind # "chunk"
      <4>1. pc = "end" /\ DOMAIN replies = {}
        BY <1>2, <1>11, <2>1, <3>1 DEF InRound, Asked, OneExchange
      <4>2. ASSUME NEW i \in Missed PROVE i \in want
        <5>1. Datagram("chunk", i) \in DOMAIN requests
          BY <3>1
        <5>2. Datagram("chunk", i).kind = "chunk" /\ Datagram("chunk", i).chunk = i
          BY DEF Datagram
        <5> QED
          BY <2>1, <4>1, <5>1, <5>2 DEF InRound
      <4> QED
        BY <1>1, <1>5, <4>1, <4>2 DEF Covered
    <3> QED
      BY <3>2, <3>3
  <2>4. Progress'
    BY <1>8, <2>1, <2>3
  <2>5. Mishaps' # 0
    BY <1>3
  <2>6. InRound'
    BY <1>1, <1>4, <1>5, <1>6, <2>1, <2>2, <2>5 DEF InRound, Asked
  <2>7. Sending'
    BY <1>1, <1>4, <1>5, <2>1, <2>4, <2>6 DEF Sending
  <2> QED
    BY <1>1, <1>7, <1>11, <2>7 DEF Recovers
<1> QED
  BY <1>2, <1>9, <1>10, <1>11

\* The network loses a reply, which is no verdict.
LEMMA ReplyLostRecovers ==
    ASSUME LossContext, NEW r \in DOMAIN replies, LoseReply(r)
    PROVE  Recovers'
<1>1. /\ replies' = replies (-) SetToBag({r})
      /\ Mishap(IF r.to = "end" /\ r.code # "missing" THEN "receipt" ELSE "lost")
      /\ UNCHANGED <<requests, staging, task, pc, save, delta, again, tries, want, result, pushes>>
  BY DEF LoseReply, Drop, console
<1>2. /\ StepContext /\ FewMishaps /\ Alone /\ AnswerTypes /\ mishaps \in [Kinds -> 0..MaxRounds]
      /\ pc \in {"begin", "declare", "end", "gaps"} /\ OneExchange /\ ControlReplies = DOMAIN replies
      /\ InStep
  BY LossFacts
<1>3. ~ (r.to = "end" /\ r.code # "missing") /\ Mishaps' = Mishaps + 1
  BY <1>1, <1>2, FewCounted DEF Kinds, LossContext
<1>4. DOMAIN replies' \subseteq DOMAIN replies
  BY <1>1, <1>2, ReplyTaken
<1>5. /\ Current' = Current /\ Owed' = Owed /\ (Admissible' <=> Admissible)
      /\ Missed' = Missed /\ Declared' = Declared /\ (Opened' <=> Opened)
  BY <1>1, SameSave, SameTransfer
<1>6. Working' = Working /\ ControlRequests' = ControlRequests
  BY <1>1 DEF Working, ControlRequests
<1>7. Alone'
  BY <1>1, <1>2, <1>4 DEF Alone
<1>8. Progress /\ (Intact => Covered') => Progress'
  BY <1>1, <1>2, <1>3, ProgressKept
<1>9. CASE pc = "begin"
  <2>1. Covered' /\ Beginning
    BY <1>1, <1>9, LossFacts DEF Covered
  <2>2. Admissible => Progress'
    BY <1>8, <2>1 DEF Beginning
  <2>3. Beginning'
    BY <1>1, <1>4, <1>5, <1>6, <2>1, <2>2 DEF Beginning
  <2> QED
    BY <1>1, <1>7, <1>9, <2>3 DEF Recovers
<1>10. CASE pc = "declare"
  <2>1. Covered' /\ Declaring
    BY <1>1, <1>10, LossFacts DEF Covered
  <2>2. Progress'
    BY <1>8, <2>1 DEF Declaring
  <2>3. Declaring'
    BY <1>1, <1>4, <1>5, <1>6, <2>1, <2>2 DEF Declaring
  <2> QED
    BY <1>1, <1>7, <1>10, <2>3 DEF Recovers
<1>11. CASE pc \in {"end", "gaps"}
  <2>1. Sending /\ InRound /\ Progress
    BY <1>11, LossFacts DEF Sending
  <2>2. r.to = "end" /\ r.code = "missing"
    BY <1>2, <1>3, <1>11 DEF InStep, Expected
  <2>3. ControlRequests = {} /\ Working = {}
    BY <1>2 DEF OneExchange
  <2>4. \A q \in DOMAIN replies : q.code = "missing"
    <3>1. ASSUME NEW q \in DOMAIN replies, q.code # "missing" PROVE FALSE
      <4>1. DOMAIN replies = {q}
        BY <1>2, <3>1 DEF OneExchange
      <4> QED
        BY <2>2, <3>1, <4>1
    <3> QED
      BY <3>1
  <2>5. ~ Intact
    BY <2>3, <2>4 DEF Intact, Answering, Asked
  <2>6. Progress'
    BY <1>8, <2>1, <2>5
  <2>7. Mishaps' # 0
    BY <1>2, <1>3, LossTypes
  <2>8. InRound'
    BY <1>1, <1>4, <1>5, <1>6, <2>1, <2>3, <2>7 DEF InRound, Asked
  <2>9. Sending'
    BY <1>1, <1>4, <1>5, <2>1, <2>4, <2>6, <2>8 DEF Sending
  <2> QED
    BY <1>1, <1>7, <1>11, <2>9 DEF Recovers
<1> QED
  BY <1>2, <1>9, <1>10, <1>11

\* Somebody else commits, or nothing happens.
LEMMA OthersRecover ==
    ASSUME Recovers,
           UNCHANGED <<requests, replies, staging, task, pc, save, delta, again, tries, want,
                       result, pushes, mishaps>>
    PROVE  Recovers'
<1>1. /\ Current' = Current /\ Owed' = Owed /\ (Admissible' <=> Admissible)
      /\ Missed' = Missed /\ Declared' = Declared /\ (Opened' <=> Opened)
      /\ \A kind, i : Datagram(kind, i)' = Datagram(kind, i)
  BY SameSave, SameTransfer
<1>2. Working' = Working /\ ControlRequests' = ControlRequests /\ Mishaps' = Mishaps
  BY DEF Working, ControlRequests, Mishaps
<1>3. (Intact' <=> Intact) /\ (Covered' <=> Covered)
  BY <1>1, <1>2 DEF Intact, Covered, Answering, Asked
<1>4. Progress' <=> Progress
  BY <1>2, <1>3 DEF Progress
<1>5. (Alone' <=> Alone) /\ (Resting' <=> Resting)
  BY <1>1, <1>2 DEF Alone, Resting
<1>6. (Beginning' <=> Beginning) /\ (Declaring' <=> Declaring)
  BY <1>1, <1>2, <1>4 DEF Beginning, Declaring
<1>7. InRound' <=> InRound
  BY <1>1, <1>2 DEF InRound, Asked
<1>8. Sending' <=> Sending
  BY <1>1, <1>4, <1>7 DEF Sending
<1> QED
  BY <1>5, <1>6, <1>8 DEF Recovers

----------------------------------------------------------------------------
(* How the server answers a push with few mishaps.                         *)

\* A transfer opened for the push.
LEMMA OpenedAnew ==
    ASSUME NEW a, NEW seed, Open(a, seed), a.key = save.key, a.delta = delta,
           DOMAIN seed = Chunks, UNCHANGED <<save, delta>>, DOMAIN staging \subseteq {save.key}
    PROVE  /\ Opened' /\ staging'[save.key].received = {} /\ Declared' = {}
           /\ DOMAIN staging' \subseteq {save.key}
<1> DEFINE b == [parent |-> a.parent, delta |-> a.delta, data |-> seed,
                 received |-> {}, declared |-> {}, count |-> 0, outstanding |-> 0]
<1>1. b.delta = delta /\ b.data = seed /\ b.received = {} /\ b.declared = {}
  OBVIOUS
<1>2. staging' = With(staging, save.key, b)
  BY DEF Open
<1> HIDE DEF b
<1>3. DOMAIN With(staging, save.key, b) = DOMAIN staging \cup {save.key}
  BY DEF With
<1>4. With(staging, save.key, b)[save.key] = b
  BY DEF With
<1>5. staging'[save.key] = b /\ DOMAIN staging' = DOMAIN staging \cup {save.key}
  BY <1>2, <1>3, <1>4
<1>6. Chunks' = Chunks
  BY SameSave
<1> QED
  BY <1>1, <1>5, <1>6 DEF Opened, Declared

\* The answer to a PUSH_BEGIN.
LEMMA BeginAnswered ==
    ASSUME LossContext, pc = "begin", UNCHANGED <<console, mishaps>>, Intact,
           DOMAIN requests' = {}, Working' = {}, DOMAIN replies = {},
           NEW a, NEW code, code # "missing", Echo("begin", a, code), Respond,
           DOMAIN staging' \subseteq {save.key},
           Admissible => \/ /\ code = "ack" /\ Opened'
                            /\ staging'[save.key].received = {} /\ Declared' = {}
                         \/ code = "delta_unavailable" /\ delta,
           ~ Admissible => DOMAIN staging' = {} /\ code \in Refusals
    PROVE  Recovers'
<1> DEFINE r == [to |-> "begin", code |-> code, version |-> TransferId(a), gaps |-> {}]
<1>1. replies' = replies (+) SetToBag({r})
  BY OneAnswer DEF Echo
<1>2. r.to = "begin" /\ r.code = code
  OBVIOUS
<1> HIDE DEF r
<1>3. /\ StepContext /\ FewMishaps /\ Alone /\ Beginning /\ AnswerTypes
      /\ UNCHANGED <<pc, save, delta, again, tries>>
  BY LossFacts DEF console
<1>4. DOMAIN replies' = {r}
  BY <1>1, <1>3, ReplyAdded
<1>5. Intact'
  BY <1>2, <1>4 DEF Intact, Answering
<1>6. Admissible' <=> Admissible
  BY <1>3, SameSave
<1>7. Admissible => Progress'
  BY <1>3, <1>5, LossTypes, ProgressKept DEF Beginning
<1>8. Beginning'
  BY <1>2, <1>3, <1>4, <1>6, <1>7 DEF Beginning
<1>9. Alone'
  BY <1>2, <1>3, <1>4 DEF Alone
<1> QED
  BY <1>3, <1>8, <1>9 DEF Recovers

\* The server takes a PUSH_BEGIN.
LEMMA BeginTaken ==
    ASSUME LossContext, NEW d \in DOMAIN requests, d.kind = "begin",
           requests' = requests (-) SetToBag({d}), UNCHANGED <<console, mishaps>>,
           NEW t \in Tasks, OnPushBegin(t, d.of), Respond
    PROVE  Recovers'
<1>1. pc # "idle" /\ CallContext
  BY LossFacts
<1>2. /\ ControlRequests' = {} /\ Working = {} /\ ControlReplies = {}
      /\ "begin" = Expected(pc) /\ DOMAIN requests' \subseteq DOMAIN requests
  BY <1>1, OneRequest
<1>3. pc = "begin" /\ Beginning
  BY <1>2, LossFacts DEF Expected
<1>4. /\ DOMAIN requests' = {} /\ DOMAIN replies = {} /\ Intact /\ d.of = Current
  <2>1. d \in ControlRequests
    BY DEF ControlRequests
  <2>2. Intact
    BY <1>3, <2>1 DEF Intact, Asked
  <2> QED
    BY <1>2, <1>3, <2>2, LossFacts DEF Beginning, ControlRequests
<1>5. /\ StepContext /\ FewMishaps /\ Alone /\ save \in Saves /\ delta \in BOOLEAN
      /\ (delta => save.delta) /\ AnswerTypes
      /\ UNCHANGED <<pc, save, delta, again, tries>>
  BY <1>1, LossFacts DEF console
<1>6. /\ Current.delta = delta /\ Current.key = save.key /\ Current.image = save.image
      /\ Chunks = DOMAIN save.image
  BY <1>5, CurrentIs DEF Chunks
<1>7. Len(save.image) \in 1..MaxChunks => (CapReached(Current) <=> ~ Admissible)
  <2>1. MaxStaging \in Nat /\ Cardinality({}) = 0
    BY ListenerAssumption, FS_EmptySet
  <2>2. ASSUME Len(save.image) \in 1..MaxChunks, Admissible PROVE ~ CapReached(Current)
    <3>1. save.key \notin DOMAIN staging => DOMAIN staging = {}
      BY <1>5 DEF Alone
    <3>2. MaxStaging > 0
      BY <2>2 DEF Admissible
    <3> QED
      BY <1>6, <2>1, <3>1, <3>2 DEF CapReached
  <2>3. ASSUME Len(save.image) \in 1..MaxChunks, ~ Admissible PROVE CapReached(Current)
    <3>1. DOMAIN staging = {}
      BY <1>3, <2>3 DEF Beginning
    <3>2. MaxStaging = 0
      BY <2>1, <2>3 DEF Admissible
    <3> QED
      BY <2>1, <3>1, <3>2 DEF CapReached
  <2> QED
    BY <2>2, <2>3
<1>8. ~ Admissible => DOMAIN staging = {}
  BY <1>3 DEF Beginning
<1>9. ASSUME NEW code \in {"too_large", "malformed", "rate_limited"},
             RefuseBegin(Current, code), ~ Admissible
      PROVE  Recovers'
  <2>1. Working' = {} /\ UNCHANGED staging /\ Echo("begin", Current, code)
    BY <1>2, <1>9 DEF RefuseBegin, Working
  <2>2. code \in Refusals /\ code # "missing"
    BY DEF Refusals
  <2>3. DOMAIN staging' = {}
    BY <1>8, <1>9, <2>1
  <2> QED
    BY <1>3, <1>4, <1>9, <2>1, <2>2, <2>3, BeginAnswered
<1>10. CASE /\ Open(Current, [i \in DOMAIN Current.image |-> Zero]) /\ UNCHANGED task
            /\ Len(Current.image) \in 1..MaxChunks /\ ~ CapReached(Current)
  <2>1. Admissible
    BY <1>6, <1>7, <1>10
  <2> DEFINE seed == [i \in DOMAIN Current.image |-> Zero]
  <2>2. DOMAIN seed = Chunks
    BY <1>6
  <2>3. Open(Current, seed)
    BY <1>10
  <2> HIDE DEF seed
  <2>4. /\ Opened' /\ staging'[save.key].received = {} /\ Declared' = {}
        /\ DOMAIN staging' \subseteq {save.key}
    BY <1>5, <1>6, <2>2, <2>3, OpenedAnew DEF Alone
  <2>5. Working' = {} /\ Echo("begin", Current, "ack")
    BY <1>2, <1>10 DEF Open, Working
  <2> QED
    BY <1>3, <1>4, <2>1, <2>4, <2>5, BeginAnswered
<1>11. CASE /\ RefuseBegin(Current, "delta_unavailable") /\ Current.delta
            /\ Len(Current.image) \in 1..MaxChunks /\ ~ CapReached(Current)
  <2>1. Admissible /\ delta
    BY <1>6, <1>7, <1>11
  <2>2. Working' = {} /\ UNCHANGED staging /\ Echo("begin", Current, "delta_unavailable")
    BY <1>2, <1>11 DEF RefuseBegin, Working
  <2>3. DOMAIN staging' \subseteq {save.key}
    BY <1>5, <2>2 DEF Alone
  <2> QED
    BY <1>3, <1>4, <2>1, <2>2, <2>3, BeginAnswered
<1>12. CASE /\ task' = [task EXCEPT ![t] = [at |-> "seed", attempt |-> Current]]
            /\ reply' = Silence /\ UNCHANGED <<staging, settled>> /\ Current.delta
            /\ Len(Current.image) \in 1..MaxChunks /\ ~ CapReached(Current)
  <2>1. Admissible /\ delta
    BY <1>6, <1>7, <1>12
  <2>2. UNCHANGED replies
    BY <1>5, <1>12, SilentRespond
  <2>3. /\ task'[t] = [at |-> "seed", attempt |-> Current]
        /\ \A u \in Tasks \ {t} : task'[u] = task[u]
    BY <1>5, <1>12, ContextTypes DEF TaskTypes
  <2>4. task'[t].attempt = Current /\ task'[t] # Idle
    <3>1. task'[t].at = "seed" /\ task'[t].attempt = Current
      BY <2>3
    <3> QED
      BY <3>1 DEF Idle
  <2>5. Working' = {t}
    BY <1>2, <2>3, <2>4 DEF Working
  <2>6. Intact'
    BY <2>5 DEF Intact, Answering
  <2>7. (Admissible' <=> Admissible) /\ Current' = Current
    BY <1>5, SameSave
  <2>8. Progress'
    BY <1>3, <1>5, <2>1, <2>6, LossTypes, ProgressKept DEF Beginning
  <2>9. Beginning'
    BY <1>4, <1>5, <2>1, <2>2, <2>4, <2>5, <2>7, <2>8 DEF Beginning
  <2>10. Alone'
    BY <1>5, <1>12, <2>2 DEF Alone
  <2> QED
    BY <1>3, <1>5, <2>9, <2>10 DEF Recovers
<1>13. CASE RefuseBegin(Current, "too_large") /\ Len(Current.image) > MaxChunks
  <2>1. ~ Admissible
    <3>1. MaxChunks \in Nat /\ Len(save.image) \in Nat
      BY <1>5, CurrentIs, ListenerAssumption
    <3> QED
      BY <1>6, <1>13, <3>1 DEF Admissible
  <2> QED
    BY <1>9, <1>13, <2>1
<1>14. CASE RefuseBegin(Current, "malformed") /\ Len(Current.image) = 0
  <2>1. ~ Admissible
    BY <1>6, <1>14 DEF Admissible
  <2> QED
    BY <1>9, <1>14, <2>1
<1>15. CASE /\ RefuseBegin(Current, "rate_limited") /\ CapReached(Current)
            /\ Len(Current.image) \in 1..MaxChunks
  BY <1>6, <1>7, <1>9, <1>15
<1>16. OnPushBegin(t, Current)
  BY <1>4
<1> QED
  BY <1>10, <1>11, <1>12, <1>13, <1>14, <1>15, <1>16 DEF OnPushBegin

\* The server takes a PUSH_DELTA.
LEMMA DeltaTaken ==
    ASSUME LossContext, NEW d \in DOMAIN requests, d.kind = "delta",
           requests' = requests (-) SetToBag({d}), UNCHANGED <<console, mishaps>>,
           OnPushDelta(d.of, d.chunk), Respond
    PROVE  Recovers'
<1>1. pc # "idle" /\ CallContext
  BY LossFacts
<1>2. /\ ControlRequests' = {} /\ Working = {} /\ ControlReplies = {}
      /\ "delta" = Expected(pc) /\ DOMAIN requests' \subseteq DOMAIN requests
  BY <1>1, OneRequest
<1>3. pc = "declare" /\ Declaring
  BY <1>2, LossFacts DEF Expected
<1>4. /\ StepContext /\ FewMishaps /\ Alone /\ save \in Saves /\ delta \in BOOLEAN
      /\ (delta => save.delta) /\ AnswerTypes /\ IInv
      /\ UNCHANGED <<pc, save, delta, again, tries, want>>
  BY <1>1, LossFacts, ContextTypes DEF console
<1>5. /\ DOMAIN requests' = {} /\ DOMAIN replies = {} /\ d.of = Current
      /\ d.chunk \in want /\ \A j \in want : d.chunk <= j
  BY <1>2, <1>3, LossFacts DEF Declaring, ControlRequests
<1>6. /\ Current.key = save.key /\ Current.dirty = save.dirty
      /\ save.dirty \subseteq Chunks /\ Chunks \subseteq Nat
  BY <1>4, CurrentIs
<1> DEFINE b == staging[save.key]
           named == Window(save, d.chunk)
<1>7. /\ save.key \in DOMAIN staging /\ b.delta /\ DOMAIN b.data = Chunks /\ b \in Buffer
  BY <1>3, <1>4, PartsMakeInv DEF Declaring, Opened, Parts, StagingTypes
<1>8. Window(Current, d.chunk) = named /\ named \subseteq save.dirty /\ named \subseteq DOMAIN b.data
  BY <1>6, <1>7 DEF Window
<1>9. staging' = [staging EXCEPT ![save.key] = Declare(b, named)] /\ Echo("delta", Current, "ack")
  <2>1. named \cap DOMAIN b.data = named
    BY <1>8
  <2> QED
    BY <1>5, <1>6, <1>7, <1>8, <2>1 DEF OnPushDelta
<1>10. /\ staging'[save.key] = Declare(b, named) /\ DOMAIN staging' = DOMAIN staging
  BY <1>7, <1>9
<1>11. /\ Declare(b, named).declared = b.declared \cup named
       /\ Declare(b, named).data = b.data /\ Declare(b, named).received = b.received
       /\ Declare(b, named).delta = b.delta
  BY <1>7 DEF Declare, Buffer
<1>12. /\ Declared' = Declared \cup named /\ Opened'
       /\ staging'[save.key].received = {} /\ Admissible' /\ Working' = {}
  <2>1. Chunks' = Chunks /\ Admissible'
    BY <1>3, <1>4, SameSave DEF Declaring
  <2>2. Declared' = Declared \cup named
    BY <1>4, <1>10, <1>11 DEF Declared
  <2>3. Opened'
    BY <1>3, <1>4, <1>7, <1>10, <1>11, <2>1 DEF Opened, Declaring
  <2>4. staging'[save.key].received = {}
    BY <1>3, <1>10, <1>11 DEF Declaring
  <2>5. Working' = {}
    BY <1>2 DEF Working, OnPushDelta
  <2> QED
    BY <2>1, <2>2, <2>3, <2>4, <2>5
<1> HIDE DEF b
<1> DEFINE r == [to |-> "delta", code |-> "ack", version |-> TransferId(Current), gaps |-> {}]
<1>13. replies' = replies (+) SetToBag({r})
  BY <1>9, OneAnswer DEF Echo
<1>14. r.to = "delta" /\ r.code = "ack"
  OBVIOUS
<1> HIDE DEF r
<1>15. DOMAIN replies' = {r}
  BY <1>4, <1>5, <1>13, ReplyAdded
<1>16. Intact'
  BY <1>14, <1>15 DEF Intact, Answering
<1>17. Progress'
  BY <1>3, <1>4, <1>16, LossTypes, ProgressKept DEF Declaring
<1>18. \A i \in want : (\A j \in want : i <= j) => Window(save, i) \subseteq Declared'
  <2>1. SUFFICES ASSUME NEW i \in want, \A j \in want : i <= j
                 PROVE  Window(save, i) \subseteq Declared'
    OBVIOUS
  <2>2. want \subseteq Nat
    BY <1>3, <1>6 DEF Declaring
  <2>3. i = d.chunk
    BY <1>5, <2>1, <2>2
  <2> QED
    BY <1>12, <2>3
<1>19. /\ Declared' \subseteq save.dirty /\ save.dirty \ want \subseteq Declared'
  BY <1>3, <1>8, <1>12 DEF Declaring
<1>20. Declaring'
  BY <1>3, <1>4, <1>5, <1>12, <1>14, <1>15, <1>17, <1>18, <1>19 DEF Declaring
<1>21. Alone'
  BY <1>4, <1>10, <1>14, <1>15 DEF Alone
<1> QED
  BY <1>3, <1>4, <1>20, <1>21 DEF Recovers

\* What a round meets: the open transfer.
LEMMA RoundFacts ==
    ASSUME LossContext, pc \in {"end", "gaps"}, \A r \in DOMAIN replies : r.code = "missing"
    PROVE  /\ StepContext /\ FewMishaps /\ Alone /\ save \in Saves /\ IInv
           /\ delta \in BOOLEAN /\ (delta => save.delta) /\ AnswerTypes /\ RequestTypes
           /\ InRound /\ Progress /\ Admissible /\ Opened /\ (delta => Declared = Owed)
           /\ \A i \in staging[save.key].received : staging[save.key].data[i] = save.image[i]
           /\ staging[save.key] \in Buffer /\ staging[save.key].delta = delta
           /\ save.key \in DOMAIN staging /\ DOMAIN staging[save.key].data = Chunks
           /\ Current.delta = delta /\ Current.key = save.key /\ Current.image = save.image
           /\ Owed \subseteq Chunks /\ Chunks = DOMAIN save.image
<1>1. /\ StepContext /\ FewMishaps /\ Alone /\ save \in Saves /\ Sending /\ delta \in BOOLEAN
      /\ AnswerTypes /\ RequestTypes /\ (delta => save.delta)
  BY LossFacts
<1>2. /\ InRound /\ Progress /\ Admissible /\ Opened /\ (delta => Declared = Owed)
      /\ \A i \in staging[save.key].received : staging[save.key].data[i] = save.image[i]
  BY <1>1 DEF Sending
<1>3. IInv
  BY <1>1, ContextTypes
<1>4. /\ staging[save.key].delta = delta /\ save.key \in DOMAIN staging
      /\ DOMAIN staging[save.key].data = Chunks
  BY <1>2 DEF Opened
<1>5. staging[save.key] \in Buffer
  BY <1>3, <1>4, PartsMakeInv DEF Parts, StagingTypes
<1>6. /\ Current.delta = delta /\ Current.key = save.key /\ Current.image = save.image
      /\ Owed \subseteq Chunks
  BY <1>1, CurrentIs
<1> QED
  BY <1>1, <1>2, <1>3, <1>4, <1>5, <1>6 DEF Chunks

\* The server takes a PUSH_CHUNK.
LEMMA ChunkTaken ==
    ASSUME LossContext, NEW d \in DOMAIN requests, d.kind = "chunk",
           requests' = requests (-) SetToBag({d}), UNCHANGED <<console, mishaps>>,
           OnPushChunk(d.of, d.chunk), Respond
    PROVE  Recovers'
<1>1. /\ pc \in {"end", "gaps"} /\ \A r \in DOMAIN replies : r.code = "missing"
  BY LossFacts DEF Beginning, Declaring, Sending
<1>2. /\ StepContext /\ FewMishaps /\ Alone /\ AnswerTypes /\ RequestTypes
      /\ InRound /\ Progress /\ Admissible /\ Opened /\ (delta => Declared = Owed)
  BY <1>1, RoundFacts
<1>3. UNCHANGED <<pc, save, delta, again, tries, want>>
  BY DEF console
<1>4. /\ DOMAIN requests' \subseteq DOMAIN requests
      /\ \A e \in DOMAIN requests \ {d} : e \in DOMAIN requests' /\ requests'[e] = requests[e]
      /\ ControlRequests' = ControlRequests
      /\ requests[d] = 1 => d \notin DOMAIN requests'
  BY <1>2, RequestTaken
<1> DEFINE b == staging[save.key]
           i == d.chunk
           n == StoreChunk(b, i, save.image[i])
<1>5. d.of = Current /\ i \in Owed /\ i \in Chunks /\ Working = {}
  BY <1>1, <1>2, RoundFacts DEF InRound
<1>6. /\ b \in Buffer /\ save.key \in DOMAIN staging /\ DOMAIN b.data = Chunks
      /\ Current.key = save.key /\ Current.image = save.image /\ b.delta = delta
      /\ \A j \in b.received : b.data[j] = save.image[j]
  BY <1>1, RoundFacts
<1>7. /\ staging' = [staging EXCEPT ![save.key] = n] /\ reply' = Silence /\ UNCHANGED task
  BY <1>5, <1>6 DEF OnPushChunk
<1>8. /\ n.declared = b.declared /\ n.received = b.received \cup {i}
      /\ n.data = [b.data EXCEPT ![i] = save.image[i]] /\ n.delta = b.delta
  BY <1>6 DEF StoreChunk, Buffer
<1>9. staging'[save.key] = n /\ DOMAIN staging' = DOMAIN staging
  BY <1>6, <1>7
<1> HIDE DEF n
<1>10. /\ UNCHANGED replies /\ Working' = {}
  BY <1>2, <1>5, <1>7, SilentRespond DEF Working
<1>11. /\ Current' = Current /\ Owed' = Owed /\ Chunks' = Chunks /\ Admissible'
       /\ \A kind, j : Datagram(kind, j)' = Datagram(kind, j)
  BY <1>2, <1>3, SameSave
<1>12. /\ Missed' = Missed \ {i} /\ Declared' = Declared /\ Opened'
       /\ staging'[save'.key].received = b.received \cup {i}
  <2>1. staging'[save'.key] = n
    BY <1>3, <1>9
  <2>2. Missed' = Missed \ {i}
    BY <1>8, <1>11, <2>1 DEF Missed
  <2>3. Declared' = Declared
    BY <1>8, <2>1 DEF Declared
  <2>4. Opened'
    BY <1>3, <1>6, <1>8, <1>9, <1>11, <2>1 DEF Opened
  <2> QED
    BY <1>8, <2>1, <2>2, <2>3, <2>4
<1>13. \A j \in staging'[save'.key].received : staging'[save'.key].data[j] = save'.image[j]
  <2>1. \A j \in b.received \cup {i} : n.data[j] = save.image[j]
    BY <1>5, <1>6, <1>8
  <2> QED
    BY <1>3, <1>9, <1>12, <2>1
<1> HIDE DEF b, i
<1>14. Intact => Intact'
  <2>1. SUFFICES ASSUME Asked, \A j \in Missed : Datagram("chunk", j) \in DOMAIN requests
                 PROVE  Intact'
    BY <1>1, <1>5 DEF Intact, Answering
  <2>2. Asked'
    BY <1>4, <2>1 DEF Asked
  <2>3. ASSUME NEW j \in Missed' PROVE Datagram("chunk", j)' \in DOMAIN requests'
    <3>1. j \in Missed /\ j # d.chunk
      BY <1>12, <2>3 DEF i
    <3>2. Datagram("chunk", j) \in DOMAIN requests /\ Datagram("chunk", j).chunk = j
      BY <2>1, <3>1 DEF Datagram
    <3> QED
      BY <1>4, <1>11, <3>1, <3>2
  <2> QED
    BY <2>2, <2>3 DEF Intact
<1>15. Covered => Covered'
  BY <1>1, <1>3, <1>4, <1>10, <1>12 DEF Covered, Asked
<1>16. Progress'
  BY <1>2, <1>3, <1>14, <1>15, LossTypes, ProgressKept
<1>17. Mishaps' = Mishaps
  BY <1>2, LossTypes
<1>18. ASSUME NEW e \in DOMAIN requests', e.kind = "chunk", Mishaps = 0
       PROVE  requests'[e] = 1 /\ e.chunk \notin staging'[save'.key].received
  <2>1. /\ e \in DOMAIN requests /\ requests[e] = 1 /\ requests[d] = 1
        /\ e.of = Current /\ e.chunk \notin b.received
    BY <1>2, <1>4, <1>18 DEF InRound, b
  <2>2. e # d
    BY <1>4, <1>18, <2>1
  <2>3. e \in Datagrams /\ d \in Datagrams
    BY <1>2, <2>1 DEF RequestTypes
  <2>4. e.chunk # d.chunk
    BY <1>5, <1>18, <2>1, <2>2, <2>3 DEF Datagrams
  <2> QED
    BY <1>4, <1>12, <2>1, <2>2, <2>4 DEF i
<1>19. InRound'
  <2>1. want' \subseteq Owed' /\ (pc' = "gaps" => ~ Asked')
    BY <1>2, <1>3, <1>4, <1>11 DEF InRound, Asked
  <2>2. \A e \in DOMAIN requests' :
          /\ e.of = Current'
          /\ e.kind = "chunk" => e.chunk \in Owed' /\ (pc' = "end" => e.chunk \in want')
    BY <1>2, <1>3, <1>4, <1>11 DEF InRound
  <2>3. \A q \in DOMAIN replies' : q.gaps \subseteq Owed'
    BY <1>2, <1>10, <1>11 DEF InRound
  <2> QED
    BY <1>10, <1>17, <1>18, <2>1, <2>2, <2>3 DEF InRound
<1>20. Sending'
  BY <1>1, <1>2, <1>3, <1>10, <1>11, <1>12, <1>13, <1>16, <1>19 DEF Sending
<1>21. Alone'
  BY <1>2, <1>3, <1>9, <1>10 DEF Alone
<1> QED
  BY <1>1, <1>3, <1>20, <1>21 DEF Recovers

\* A complete transfer owes nothing.
LEMMA CompleteOwesNothing ==
    ASSUME NEW b \in Buffer, Complete(b),
           b.received \cup b.declared \subseteq DOMAIN b.data,
           b.count = Cardinality(b.received),
           b.outstanding = IF b.delta THEN Cardinality(b.declared \ b.received) ELSE 0
    PROVE  Missing(b) = {}
<1>1. IsFiniteSet(b.declared \ b.received)
  BY BitmapsFinite
<1>2. CASE b.delta
  <2>1. Cardinality(b.declared \ b.received) = 0
    BY <1>2 DEF Complete
  <2> QED
    BY <1>1, <1>2, <2>1, FS_EmptySet DEF Missing
<1>3. CASE ~ b.delta
  <2>1. /\ IsFiniteSet(DOMAIN b.data) /\ Cardinality(DOMAIN b.data) = Len(b.data)
        /\ Len(b.data) \in Nat
    BY ImageShape DEF Buffer
  <2>2. b.received \in SUBSET DOMAIN b.data
    OBVIOUS
  <2>3. /\ IsFiniteSet(b.received)
        /\ Cardinality(b.received) <= Cardinality(DOMAIN b.data)
        /\ Cardinality(DOMAIN b.data) = Cardinality(b.received) => DOMAIN b.data = b.received
    BY <2>1, <2>2, FS_Subset
  <2>4. Cardinality(b.received) \in Nat
    BY <2>3, FS_CardinalityType
  <2>5. b.count >= Len(b.data)
    BY <1>3 DEF Complete
  <2>6. DOMAIN b.data = b.received
    BY <2>1, <2>3, <2>4, <2>5
  <2> QED
    BY <1>3, <2>6 DEF Missing
<1> QED
  BY <1>2, <1>3

\* What the server finds missing is what is missed.
LEMMA MissingIsMissed ==
    ASSUME LossContext, pc \in {"end", "gaps"}, \A r \in DOMAIN replies : r.code = "missing"
    PROVE  /\ Missing(staging[save.key]) = Missed
           /\ Complete(staging[save.key]) <=> Missed = {}
<1> DEFINE b == staging[save.key]
<1>1. /\ b \in Buffer /\ b.delta = delta /\ save.key \in DOMAIN staging
      /\ DOMAIN b.data = Chunks /\ IInv /\ (delta => b.declared = Owed)
  BY RoundFacts DEF Declared
<1>2. /\ b.received \cup b.declared \subseteq DOMAIN b.data
      /\ b.count = Cardinality(b.received)
      /\ b.outstanding = IF b.delta THEN Cardinality(b.declared \ b.received) ELSE 0
  BY <1>1 DEF IInv, CountersAgree
<1>3. Missing(b) = Missed
  BY <1>1 DEF Missing, Missed, Owed
<1>4. Complete(b) => Missing(b) = {}
  BY <1>1, <1>2, CompleteOwesNothing
<1>5. ~ Complete(b) => Missing(b) # {}
  <2> HIDE DEF b
  <2>1. ~ Complete(b) => GapsOwed(b, Missing(b))
    BY <1>1, <1>2, IncompleteOwes
  <2> QED
    BY <2>1 DEF GapsOwed
<1> QED
  BY <1>3, <1>4, <1>5

\* The verdict on a push, or on its delta.
LEMMA VerdictGiven ==
    ASSUME LossContext, pc \in {"end", "gaps"}, \A r \in DOMAIN replies : r.code = "missing",
           UNCHANGED console, Mishaps' = Mishaps \/ Mishaps' = Mishaps + 1,
           DOMAIN requests' = {}, Working' = {}, DOMAIN replies = {},
           NEW a, a.key = save.key, NEW code, NEW version, Settle(a, code, version), Respond,
           code \in Verdicts \/ (code = "checksum" /\ delta)
    PROVE  Recovers'
<1>1. /\ StepContext /\ FewMishaps /\ Alone /\ AnswerTypes /\ InRound /\ Progress /\ Admissible
      /\ UNCHANGED <<pc, save, delta, again, tries, want>>
  BY RoundFacts DEF console
<1> DEFINE r == [to |-> "end", code |-> code, version |-> version, gaps |-> {}]
<1>2. code # "missing"
  BY DEF Verdicts
<1>3. replies' = replies (+) SetToBag({r})
  BY <1>2, OneAnswer DEF Settle
<1>4. r.to = "end" /\ r.code = code /\ r.gaps = {}
  OBVIOUS
<1> HIDE DEF r
<1>5. DOMAIN replies' = {r}
  BY <1>1, <1>3, ReplyAdded
<1>6. DOMAIN staging' = {}
  <2>1. staging' = Without(staging, save.key)
    BY DEF Settle
  <2>2. DOMAIN Without(staging, save.key) = DOMAIN staging \ {save.key}
    BY WithoutKey
  <2> QED
    BY <1>1, <2>1, <2>2 DEF Alone
<1>7. Intact'
  BY <1>2, <1>4, <1>5 DEF Intact, Answering
<1>8. Progress'
  BY <1>1, <1>7, ProgressKept
<1>9. Owed' = Owed /\ Admissible'
  BY <1>1, SameSave
<1>10. InRound'
  <2>1. want' \subseteq Owed' /\ ~ Asked'
    BY <1>1, <1>9 DEF InRound, Asked, ControlRequests
  <2> QED
    BY <1>4, <1>5, <2>1 DEF InRound
<1>11. Sending'
  BY <1>1, <1>2, <1>4, <1>5, <1>6, <1>8, <1>9, <1>10 DEF Sending
<1>12. Alone'
  BY <1>1, <1>4, <1>5, <1>6 DEF Alone
<1> QED
  BY <1>1, <1>11, <1>12 DEF Recovers

\* The lists of gaps name every chunk missed, and only those.
LEMMA GapsListed ==
    ASSUME NEW a, NEW version, NEW gaps \in SUBSET Nat, Say("end", a, "missing", version, gaps)
    PROVE  /\ \A r \in Outgoing(reply') : r.to = "end" /\ r.code = "missing" /\ r.gaps \subseteq gaps
           /\ \A i \in gaps : \E r \in Outgoing(reply') : i \in r.gaps
<1> DEFINE list(i) == [to |-> "end", code |-> "missing", version |-> version,
                       gaps |-> {j \in gaps : (j - 1) \div WindowSize = (i - 1) \div WindowSize}]
<1>1. /\ reply' # Silence /\ reply'.kind = "end" /\ reply'.code = "missing"
      /\ reply'.version = version /\ reply'.gaps = gaps
  BY DEF Say, Silence
<1>2. Outgoing(reply') = {list(i) : i \in gaps}
  BY <1>1 DEF Outgoing
<1>3. \A i \in gaps : list(i).to = "end" /\ list(i).code = "missing" /\ list(i).gaps \subseteq gaps
                      /\ i \in list(i).gaps
  OBVIOUS
<1> HIDE DEF list
<1> QED
  BY <1>2, <1>3

\* The server takes a PUSH_END.
LEMMA EndTaken ==
    ASSUME LossContext, NEW d \in DOMAIN requests, d.kind = "end",
           requests' = requests (-) SetToBag({d}), UNCHANGED console,
           IF requests # SetToBag({d}) THEN Mishap("overtaken") ELSE UNCHANGED mishaps,
           NEW t \in Tasks, OnPushEnd(t, d.of), Respond
    PROVE  Recovers'
<1>1. pc # "idle" /\ CallContext
  BY LossFacts
<1>2. /\ ControlRequests' = {} /\ Working = {} /\ ControlReplies = {}
      /\ "end" = Expected(pc) /\ DOMAIN requests' \subseteq DOMAIN requests
  BY <1>1, OneRequest
<1>3. DOMAIN replies = {} /\ d \in ControlRequests /\ Asked
  BY <1>2, LossFacts DEF ControlRequests, Asked
<1>4. pc = "end"
  <2>1. pc \in {"end", "gaps"}
    BY <1>1, <1>2, LossFacts DEF Expected
  <2> QED
    BY <1>3, <2>1, LossFacts DEF Sending, InRound
<1>5. pc \in {"end", "gaps"} /\ \A r \in DOMAIN replies : r.code = "missing"
  BY <1>3, <1>4
<1>6. /\ StepContext /\ FewMishaps /\ Alone /\ save \in Saves /\ IInv
      /\ AnswerTypes /\ RequestTypes
      /\ InRound /\ Progress /\ Admissible /\ Opened /\ (delta => Declared = Owed)
      /\ Owed \subseteq Chunks /\ Chunks = DOMAIN save.image
  BY <1>5, RoundFacts
<1>7. UNCHANGED <<pc, save, delta, again, tries, want>>
  BY DEF console
<1> DEFINE b == staging[save.key]
<1>8. /\ b \in Buffer /\ save.key \in DOMAIN staging /\ DOMAIN b.data = Chunks
      /\ Current.key = save.key /\ Current.image = save.image
      /\ \A j \in b.received : b.data[j] = save.image[j]
  BY <1>5, RoundFacts
<1>9. Missing(b) = Missed /\ (Complete(b) <=> Missed = {})
  BY <1>5, MissingIsMissed
<1>10. d.of = Current
  BY <1>6 DEF InRound
<1>11. \/ Mishaps' = Mishaps + 1 /\ Mishaps = 0
       \/ Mishaps' = Mishaps /\ DOMAIN requests' = {} /\ DOMAIN requests = {d}
  <2>1. CASE Mishap("overtaken")
    <3>1. mishaps \in [Kinds -> 0..MaxRounds] /\ FewMishaps'
      BY LossFacts DEF LossContext
    <3> QED
      BY <2>1, <3>1, FewCounted DEF Kinds
  <2>2. CASE requests = SetToBag({d}) /\ UNCHANGED mishaps
    <3>1. DOMAIN requests = {d}
      BY <2>2, MembersOfSet
    <3>2. requests[d] = 1
      BY <1>3, LossFacts DEF OneExchange
    <3>3. DOMAIN requests' = {}
      BY <1>6, <3>1, <3>2, RequestTaken
    <3> QED
      BY <1>6, <2>2, <3>1, <3>3, LossTypes
  <2> QED
    BY <2>1, <2>2
<1>12. Mishaps' = Mishaps \/ Mishaps' = Mishaps + 1
  BY <1>11
<1>13. Missed = {} => DOMAIN requests' = {}
  <2>1. SUFFICES ASSUME Missed = {}, NEW e \in DOMAIN requests', Mishaps = 0 PROVE FALSE
    BY <1>11
  <2>2. e.kind = "chunk" /\ e \in DOMAIN requests
    BY <1>2, <2>1 DEF ControlRequests
  <2>3. e.chunk \in Missed
    BY <1>6, <2>1, <2>2 DEF InRound, Missed
  <2> QED
    BY <2>1, <2>3
<1>14. (UNCHANGED staging => Missed' = Missed /\ Declared' = Declared /\ Opened')
       /\ Owed' = Owed /\ Current' = Current /\ Admissible'
  BY <1>6, <1>7, SameSave, SameTransfer
<1>15. CASE /\ ~ Complete(b) /\ UNCHANGED <<staging, settled, task>>
            /\ Say("end", Current, "missing", TransferId(Current), Missing(b))
  <2>1. Missed # {} /\ Missed \subseteq Nat /\ Missed \subseteq Owed
    <3>1. Owed \subseteq Nat
      BY <1>6, ChunkNumbers DEF Chunks
    <3> QED
      BY <1>9, <1>15, <3>1 DEF Missed
  <2> DEFINE S == Outgoing(reply')
  <2>2. replies' = replies (+) SetToBag(S)
    BY DEF Respond
  <2>3. /\ \A r \in S : r.to = "end" /\ r.code = "missing" /\ r.gaps \subseteq Missed
        /\ \A i \in Missed : \E r \in S : i \in r.gaps
    BY <1>9, <1>15, <2>1, GapsListed
  <2> HIDE DEF S
  <2>4. DOMAIN replies' = S
    BY <1>3, <1>6, <2>2, ReplyAdded
  <2>5. Covered'
    BY <1>14, <1>15, <2>3, <2>4 DEF Covered
  <2>6. Mishaps' = Mishaps => ~ Intact
    <3>1. SUFFICES ASSUME DOMAIN requests = {d}, Intact PROVE FALSE
      <4>1. Mishaps \in Nat
        BY <1>6, LossTypes
      <4> QED
        BY <1>11, <3>1, <4>1
    <3>2. PICK i \in Missed : Datagram("chunk", i) \in DOMAIN requests
      BY <1>2, <1>3, <1>4, <2>1, <3>1 DEF Intact, Answering
    <3> QED
      BY <3>1, <3>2 DEF Datagram
  <2>7. Progress'
    BY <1>6, <1>7, <1>12, <2>5, <2>6, ProgressKept
  <2>8. Working' = {}
    BY <1>2, <1>15 DEF Working
  <2>9. Mishaps' = 0 => DOMAIN requests' = {}
    <3>1. Mishaps \in Nat
      BY <1>6, LossTypes
    <3> QED
      BY <1>11, <3>1
  <2>10. InRound'
    <3>1. want' \subseteq Owed' /\ pc' # "gaps"
      BY <1>4, <1>6, <1>7, <1>14 DEF InRound
    <3>2. \A e \in DOMAIN requests' :
            /\ e.of = Current'
            /\ e.kind = "chunk" => e.chunk \in Owed' /\ (pc' = "end" => e.chunk \in want')
      BY <1>2, <1>6, <1>7, <1>14 DEF InRound
    <3>3. \A q \in DOMAIN replies' : q.gaps \subseteq Owed'
      BY <1>14, <2>1, <2>3, <2>4
    <3> QED
      BY <2>8, <2>9, <3>1, <3>2, <3>3 DEF InRound
  <2>11. \A i \in staging'[save'.key].received : staging'[save'.key].data[i] = save'.image[i]
    BY <1>7, <1>8, <1>15
  <2>12. Sending'
    BY <1>6, <1>7, <1>14, <1>15, <2>3, <2>4, <2>7, <2>10, <2>11 DEF Sending
  <2>13. Alone'
    BY <1>6, <1>7, <1>15, <2>3, <2>4 DEF Alone
  <2> QED
    BY <1>4, <1>7, <2>12, <2>13 DEF Recovers
<1>16. CASE /\ Complete(b) /\ ~ DigestMatches(b, Current)
            /\ Settle(Current, "checksum", 0) /\ UNCHANGED task
  <2>1. Missed = {}
    BY <1>9, <1>16
  <2>2. delta
    <3>1. SUFFICES ASSUME ~ delta PROVE b.data = save.image
      BY <1>8, <1>16 DEF DigestMatches
    <3>2. \A i \in DOMAIN b.data : b.data[i] = save.image[i]
      BY <1>8, <2>1, <3>1 DEF Missed, Owed
    <3>3. b.data \in Seq(Contents) /\ save.image \in Seq(Contents)
      BY <1>6, <1>8, ImageShape, ChunkNumbers DEF Buffer
    <3>4. DOMAIN b.data = DOMAIN save.image
      BY <1>6, <1>8
    <3>5. /\ b.data = [i \in DOMAIN b.data |-> b.data[i]]
          /\ save.image = [i \in DOMAIN save.image |-> save.image[i]]
      BY <3>3
    <3> QED
      BY <3>2, <3>4, <3>5
  <2>3. Working' = {} /\ DOMAIN requests' = {}
    BY <1>2, <1>13, <1>16, <2>1 DEF Working
  <2> QED
    BY <1>3, <1>5, <1>8, <1>12, <1>16, <2>2, <2>3, VerdictGiven
<1>17. ASSUME Complete(b), reply' = Silence, UNCHANGED <<staging, settled>>,
              task' = [task EXCEPT ![t] =
                         [at |-> "push", attempt |-> Current, image |-> b.data, parent |-> b.parent]]
       PROVE  Recovers'
  <2>1. UNCHANGED replies
    BY <1>6, <1>17, SilentRespond
  <2>2. /\ task'[t] = [at |-> "push", attempt |-> Current, image |-> b.data, parent |-> b.parent]
        /\ \A u \in Tasks \ {t} : task'[u] = task[u]
    BY <1>6, <1>17, ContextTypes DEF TaskTypes
  <2>3. task'[t].attempt = Current /\ task'[t].at = "push"
    BY <2>2
  <2>4. task'[t] # Idle
    BY <2>3 DEF Idle
  <2>5. Working' = {t}
    BY <1>2, <2>2, <2>4 DEF Working
  <2>6. DOMAIN requests' = {}
    BY <1>9, <1>13, <1>17
  <2>7. Intact'
    BY <2>5 DEF Intact, Answering
  <2>8. Progress'
    BY <1>6, <1>7, <1>12, <2>7, ProgressKept
  <2>9. InRound'
    <3>1. want' \subseteq Owed' /\ ~ Asked'
      BY <1>6, <1>7, <1>14, <2>6 DEF InRound, Asked, ControlRequests
    <3> QED
      BY <1>3, <1>14, <2>1, <2>3, <2>5, <2>6, <3>1 DEF InRound
  <2>10. \A i \in staging'[save'.key].received : staging'[save'.key].data[i] = save'.image[i]
    BY <1>7, <1>8, <1>17
  <2>11. Sending'
    BY <1>3, <1>6, <1>7, <1>14, <1>17, <2>1, <2>8, <2>9, <2>10 DEF Sending
  <2>12. Alone'
    BY <1>6, <1>7, <1>17, <2>1 DEF Alone
  <2> QED
    BY <1>4, <1>7, <2>11, <2>12 DEF Recovers
<1>18. OnPushEnd(t, Current)
  BY <1>10
<1> HIDE DEF b
<1> QED
  BY <1>8, <1>15, <1>16, <1>17, <1>18 DEF OnPushEnd, b

\* A handler of the server comes back with the parent of a delta.
LEMMA SeedRead ==
    ASSUME LossContext, NEW t \in Tasks, ResumeBegin(t), Respond,
           UNCHANGED <<requests, console, mishaps>>
    PROVE  Recovers'
<1> DEFINE a == task[t].attempt
<1>1. task[t].at = "seed" /\ task' = [task EXCEPT ![t] = Idle] /\ task[t].at # "idle"
  BY DEF ResumeBegin
<1>2. pc # "idle" /\ CallContext /\ t \in Working
  <2>1. t \in Working
    BY <1>1 DEF Working, Idle
  <2> QED
    BY <2>1, LossFacts
<1>3. /\ ControlRequests = {} /\ Working = {t} /\ ControlReplies = {} /\ Expected(pc) = "begin"
  BY <1>1, <1>2, OneHandler
<1>4. pc = "begin" /\ Beginning /\ Working' = {}
  BY <1>1, <1>2, <1>3, LossFacts, HandlerDone DEF Expected
<1>5. /\ DOMAIN requests' = {} /\ DOMAIN replies = {} /\ Intact
      /\ a = Current /\ delta /\ Admissible
  <2>1. DOMAIN requests = {} /\ DOMAIN replies = {}
    BY <1>3, <1>4, LossFacts DEF Beginning, ControlRequests
  <2>2. Intact
    BY <1>3 DEF Intact, Answering
  <2>3. a = Current /\ delta /\ Admissible
    BY <1>2, <1>4 DEF Beginning
  <2> QED
    BY <2>1, <2>2, <2>3
<1>6. /\ StepContext /\ Alone /\ save \in Saves /\ delta \in BOOLEAN /\ (delta => save.delta)
      /\ UNCHANGED <<save, delta>> /\ IInv /\ HistoryTypes
  BY <1>2, LossFacts, ContextTypes DEF console
<1>7. /\ a.delta = delta /\ a.key = save.key /\ a.image = save.image
      /\ Chunks = 1..Len(save.image)
  BY <1>5, <1>6, CurrentIs
<1>8. CASE Len(history[a.parent].image) = Len(a.image) /\ Open(a, history[a.parent].image)
  <2>1. a.parent \in DOMAIN history
    BY <1>1, <1>6 DEF IInv, TasksHold
  <2>2. history[a.parent].image \in Images
    <3>1. history[a.parent].image \in ValidImages
      BY <1>6, <2>1, VersionTypes
    <3> QED
      BY <3>1, ListenerAssumption
  <2> DEFINE seed == history[a.parent].image
  <2>3. DOMAIN seed = Chunks
    BY <1>7, <1>8, <2>2, ImageShape
  <2>4. Open(a, seed)
    BY <1>8
  <2> HIDE DEF seed, a
  <2>5. /\ Opened' /\ staging'[save.key].received = {} /\ Declared' = {}
        /\ DOMAIN staging' \subseteq {save.key} /\ Echo("begin", a, "ack")
    BY <1>6, <1>7, <2>3, <2>4, OpenedAnew DEF Alone, Open
  <2> QED
    BY <1>4, <1>5, <2>5, BeginAnswered
<1>9. CASE Echo("begin", a, "delta_unavailable") /\ UNCHANGED staging
  <2> HIDE DEF a
  <2>1. DOMAIN staging' \subseteq {save.key}
    BY <1>6, <1>9 DEF Alone
  <2> QED
    BY <1>4, <1>5, <1>9, <2>1, BeginAnswered
<1> QED
  BY <1>8, <1>9 DEF ResumeBegin

\* What a handler that decides a push goes by.
LEMMA DecidingFacts ==
    ASSUME LossContext, NEW t \in Tasks, task[t].at \in {"push", "settle"}
    PROVE  /\ pc \in {"end", "gaps"} /\ CallContext /\ Working = {t}
           /\ DOMAIN requests = {} /\ DOMAIN replies = {}
           /\ task[t].attempt = Current
<1>1. task[t].at # "idle" /\ task[t].at # "seed"
  OBVIOUS
<1>2. t \in Working
  BY <1>1 DEF Working, Idle
<1>3. pc # "idle" /\ CallContext
  BY <1>2, LossFacts
<1>4. Working = {t} /\ ControlReplies = {} /\ Expected(pc) = "end"
  BY <1>1, <1>3, OneHandler
<1>5. pc \in {"end", "gaps"} /\ DOMAIN replies = {}
  BY <1>3, <1>4, LossFacts DEF Expected
<1>6. InRound
  BY <1>5, RoundFacts
<1> QED
  BY <1>2, <1>3, <1>4, <1>5, <1>6 DEF InRound

\* store.push decides.
LEMMA PushDecided ==
    ASSUME LossContext, NEW t \in Tasks, StorePush(t), Respond,
           UNCHANGED <<requests, console, mishaps>>
    PROVE  Recovers'
<1>1. task[t].at \in {"push", "settle"} /\ UNCHANGED staging /\ reply' = Silence
  BY DEF StorePush
<1>2. /\ pc \in {"end", "gaps"} /\ CallContext /\ Working = {t}
      /\ DOMAIN requests = {} /\ DOMAIN replies = {} /\ task[t].attempt = Current
  BY <1>1, DecidingFacts
<1>3. /\ StepContext /\ FewMishaps /\ Alone /\ AnswerTypes /\ InRound /\ Progress /\ Admissible
      /\ Opened /\ (delta => Declared = Owed)
      /\ \A i \in staging[save.key].received : staging[save.key].data[i] = save.image[i]
      /\ UNCHANGED <<pc, save, delta, again, tries, want>>
  BY <1>2, RoundFacts DEF console
<1>4. PICK code, version : Answer(t, code, version)
  BY DEF StorePush
<1>5. /\ task'[t] = [at |-> "settle", attempt |-> Current, code |-> code, version |-> version]
      /\ \A u \in Tasks \ {t} : task'[u] = task[u]
  BY <1>2, <1>3, <1>4, ContextTypes DEF Answer, TaskTypes
<1>6. task'[t].attempt = Current /\ task'[t].at = "settle"
  BY <1>5
<1>7. task'[t] # Idle
  BY <1>6 DEF Idle
<1>8. Working' = {t}
  BY <1>2, <1>5, <1>7 DEF Working
<1>9. UNCHANGED replies
  BY <1>1, <1>3, SilentRespond
<1>10. Intact'
  BY <1>8 DEF Intact, Answering
<1>11. Progress'
  BY <1>3, <1>10, LossTypes, ProgressKept
<1>12. /\ Owed' = Owed /\ Current' = Current /\ Admissible' /\ Declared' = Declared /\ Opened'
  BY <1>1, <1>3, SameSave, SameTransfer
<1>13. InRound'
  <2>1. want' \subseteq Owed' /\ ~ Asked' /\ DOMAIN requests' = {}
    BY <1>2, <1>3, <1>12 DEF InRound, Asked, ControlRequests
  <2>2. DOMAIN replies' = {}
    BY <1>2, <1>9
  <2> QED
    BY <1>6, <1>8, <1>12, <2>1, <2>2 DEF InRound
<1>14. \A i \in staging'[save'.key].received : staging'[save'.key].data[i] = save'.image[i]
  BY <1>1, <1>3
<1>15. Sending'
  BY <1>2, <1>3, <1>9, <1>11, <1>12, <1>13, <1>14 DEF Sending
<1>16. Alone'
  BY <1>1, <1>3, <1>9 DEF Alone
<1> QED
  BY <1>2, <1>3, <1>15, <1>16 DEF Recovers

\* The handler comes back with the verdict.
LEMMA PushSettled ==
    ASSUME LossContext, NEW t \in Tasks, ResumeEnd(t), Respond,
           UNCHANGED <<requests, console, mishaps>>
    PROVE  Recovers'
<1> DEFINE code == task[t].code
           version == task[t].version
<1>1. task[t].at = "settle" /\ task' = [task EXCEPT ![t] = Idle]
  BY DEF ResumeEnd
<1>2. /\ pc \in {"end", "gaps"} /\ CallContext /\ Working = {t}
      /\ DOMAIN requests = {} /\ DOMAIN replies = {} /\ task[t].attempt = Current
  BY <1>1, DecidingFacts
<1>3. Settle(Current, code, version)
  BY <1>2 DEF ResumeEnd
<1>4. Current.key = save.key /\ StepContext /\ FewMishaps
  BY <1>2, RoundFacts
<1>5. code \in Verdicts
  BY <1>1, <1>4, ContextTypes DEF TaskTypes, Task, Idle, Verdicts
<1>6. DOMAIN requests' = {} /\ Working' = {} /\ Mishaps' = Mishaps
  BY <1>1, <1>2, <1>4, HandlerDone, LossTypes
<1> HIDE DEF code, version
<1> QED
  BY <1>2, <1>3, <1>4, <1>5, <1>6, VerdictGiven

\* The push gets on as long as the mishaps are few.
LEMMA RecoversStep ==
    ASSUME IInv, IInv', Sound, TransferTypeOK, TransferTypeOK', Truthful, [TNext]_tvars,
           FewMishaps => Recovers, FewMishaps'
    PROVE  Recovers'
<1>1. mishaps \in [Kinds -> 0..MaxRounds]
  BY TypesInParts
<1>2. FewMishaps /\ Recovers
  BY <1>1, FewBefore
<1>3. mishaps["late"] = 0 /\ mishaps'["late"] = 0
  BY <1>2 DEF FewMishaps, Kinds
<1>4. LossContext
  BY <1>2, <1>3 DEF LossContext, StepContext, Truthful
<1>5. ASSUME NEW a \in Saves, Start(a) PROVE Recovers'
  BY <1>4, <1>5, StartRecovers
<1>6. CASE Timeout
  BY <1>4, <1>6, TimeoutRecovers
<1>7. ASSUME NEW r, Hear(r) PROVE Recovers'
  BY <1>4, <1>7, HearRecovers
<1>8. ASSUME NEW d \in BagToSet(requests), Deliver(d) PROVE Recovers'
  <2>1. /\ d \in DOMAIN requests /\ requests' = requests (-) SetToBag({d}) /\ Respond
        /\ UNCHANGED console
    BY <1>8 DEF Deliver, BagToSet
  <2>2. CASE d.kind = "begin" /\ \E t \in Tasks : OnPushBegin(t, d.of)
    <3>1. UNCHANGED mishaps
      BY <1>8, <2>2 DEF Deliver
    <3> QED
      BY <1>4, <2>1, <2>2, <3>1, BeginTaken
  <2>3. CASE d.kind = "delta" /\ OnPushDelta(d.of, d.chunk)
    <3>1. UNCHANGED mishaps
      BY <1>8, <2>3 DEF Deliver
    <3> QED
      BY <1>4, <2>1, <2>3, <3>1, DeltaTaken
  <2>4. CASE d.kind = "chunk" /\ OnPushChunk(d.of, d.chunk)
    <3>1. UNCHANGED mishaps
      BY <1>8, <2>4 DEF Deliver
    <3> QED
      BY <1>4, <2>1, <2>4, <3>1, ChunkTaken
  <2>5. CASE d.kind = "end" /\ \E t \in Tasks : OnPushEnd(t, d.of)
    <3>1. IF requests # SetToBag({d}) THEN Mishap("overtaken") ELSE UNCHANGED mishaps
      BY <1>8, <2>5 DEF Deliver
    <3> QED
      BY <1>4, <2>1, <2>5, <3>1, EndTaken
  <2> QED
    BY <1>8, <2>2, <2>3, <2>4, <2>5 DEF Deliver
<1>9. ASSUME NEW t \in Tasks, ThreadDone(t) PROVE Recovers'
  BY <1>4, <1>9, SeedRead, PushDecided, PushSettled DEF ThreadDone
<1>10. ASSUME NEW d \in BagToSet(requests), LoseRequest(d) PROVE Recovers'
  BY <1>4, <1>10, RequestLostRecovers DEF BagToSet
<1>11. ASSUME NEW r \in BagToSet(replies), LoseReply(r) PROVE Recovers'
  BY <1>4, <1>11, ReplyLostRecovers DEF BagToSet
<1>12. ~ Mishap("server")
  BY <1>1, FewCounted DEF Kinds
<1>13. CASE (\E i \in OtherImages : OtherCommits(i)) \/ UNCHANGED tvars
  <2>1. UNCHANGED <<requests, replies, staging, task, mishaps>> /\ UNCHANGED console
    BY <1>13 DEF OtherCommits, CommitElsewhere, tvars, vars
  <2> QED
    BY <1>2, <2>1, OthersRecover DEF console
<1> QED
  BY <1>5, <1>6, <1>7, <1>8, <1>9, <1>10, <1>11, <1>12, <1>13
  DEF TNext, Listen, Serve, Throttle, ServerTrouble

\* At the start the console rests.
LEMMA RecoversAtFirst ==
    ASSUME TInit
    PROVE  Recovers
<1>1. DOMAIN requests = {} /\ DOMAIN replies = {}
  BY MembersOfSet DEF TInit, EmptyBag
<1>2. Working = {} /\ DOMAIN staging = {}
  BY DEF TInit, Init, Working
<1>3. pc = "idle" /\ ~ (pushes > 0)
  BY DEF TInit
<1> QED
  BY <1>1, <1>2, <1>3 DEF Recovers, Alone, Resting

\* A push survives fewer losses than it has rounds, or one overtaking as the only mishap:
\* a card that the server takes at all ends with a verdict on the saved image, whatever is
\* dirty, whatever order the chunks arrive in, and through the fallbacks from a delta that
\* the server cannot seed or that assembles into something else.
THEOREM PushSurvivesFewMishaps == TransferSpec => []LossIsRecovered
<1>1. TInit => Init /\ Sound /\ Truthful /\ (FewMishaps => Recovers)
  BY SoundAtFirst, TruthfulAtFirst, RecoversAtFirst
<1>2. /\ IInv /\ IInv' /\ Sound /\ TransferTypeOK /\ TransferTypeOK' /\ Truthful /\ [TNext]_tvars
      => Truthful'
  BY TruthfulStep
<1>3. /\ IInv /\ IInv' /\ Sound /\ TransferTypeOK /\ TransferTypeOK' /\ Truthful /\ [TNext]_tvars
      /\ (FewMishaps => Recovers)
      => (FewMishaps => Recovers)'
  BY RecoversStep
<1>4. (FewMishaps => Recovers) => LossIsRecovered
  BY DEF LossIsRecovered, Recovers, Resting, Returned, Admissible, Verdicts
<1> QED
  BY <1>1, <1>2, <1>3, <1>4, SoundInv, TransferTypes, TransfersAreSafe, PTL DEF TransferSpec
=============================================================================
