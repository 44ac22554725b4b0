-------------------------- MODULE DolphinSyncProofs --------------------------
(***************************************************************************)
(* Proofs about DolphinSync, for any number of contents, versions,         *)
(* commands and lost answers.                                              *)
(***************************************************************************)
EXTENDS DolphinSync, TLAPS, SequenceTheorems

USE DEF Places

\* Whoever is at work on the card.
AtWork ==
    {"detail", "guard", "digest", "compare", "fetch", "write", "remember", "push", "post", "answer"}

\* What the sidecar says, in any copy of it.
Copies == {sidecar, Unknown} \cup {state[p] : p \in Processes}

\* What descends from a content descends from all that it descends from.
CardsInv ==
    \A c \in Contents :
        /\ c \in cards[c] /\ cards[c] \subseteq Contents
        /\ \A b \in cards[c] : cards[b] \subseteq cards[c]

\* A version and a content that the server has, or none.
OnRecord(a) == a.version \in 0..HeadVersion /\ a.card \in OnServer \cup {None}

IsVersion(a) == a.version \in 1..HeadVersion /\ a.card = history[a.version]

\* A pull that knows the head.
Pulling == {"guard", "digest", "compare", "fetch"}

\* What a process has in hand, whoever else is at work.
InHand(p) ==
    /\ OnRecord(head[p])
    /\ image[p].version \in 0..HeadVersion /\ image[p].card \in Contents \cup {None}
    /\ pc[p] \in Pulling => IsVersion(head[p])
    /\ pc[p] \in {"write", "remember"} => IsVersion(image[p])
    /\ pc[p] = "post" => image[p].card # None

RecordInv == OnRecord(sidecar) /\ \A p \in Processes : OnRecord(state[p]) /\ InHand(p)

\* A card with this content may be pushed on top of this version: if that is the head, it
\* descends from it.
MayFollow(version, content) ==
    version = HeadVersion /\ version # 0 /\ content # None => HeadCard \in cards[content]

\* The card on disk descends from what any process may name as its parent, and the card in
\* Dolphin from that on disk.
ParentInv ==
    /\ MayFollow(sidecar.version, file)
    /\ \A p \in Processes : MayFollow(state[p].version, file)
    /\ running => file # None /\ file \in cards[memory]

\* One process at a time is at work on the card.
Alone == \A p, q \in Processes : pc[p] \in AtWork /\ pc[q] \in AtWork => p = q

\* How what it has in hand relates to the card on disk.
HandInv(p) ==
    /\ pc[p] \in {"compare", "fetch", "write"} => file \in OnServer \cup {None}
    /\ pc[p] = "write" =>
         /\ sidecar.version <= image[p].version
         /\ \A q \in Processes : state[q].version <= image[p].version
    /\ pc[p] \in {"remember", "post", "answer"} => file # None /\ image[p].card \in cards[file]
    /\ pc[p] = "post" => MayFollow(image[p].version, image[p].card)
    /\ pc[p] = "answer" => IsVersion(Agreement(head[p].version, image[p].card))

BaseInv == TypeOK /\ CardsInv /\ RecordInv

IInv == BaseInv /\ (~ raced => Alone /\ ParentInv /\ \A p \in Processes : HandInv(p))

----------------------------------------------------------------------------
(* The server only grows.                                                  *)

Grows ==
    /\ cards' \in Seq(SUBSET (1..MaxCards)) /\ Len(cards') <= MaxCards
    /\ history' \in Seq(Contents') /\ Len(history') <= MaxVersion
    /\ CardsInv'
    /\ Contents \subseteq Contents' /\ \A c \in Contents : cards'[c] = cards[c]
    /\ \/ history' = history
       \/ Len(history') = Len(history) + 1
          /\ \A v \in 1..Len(history) : history'[v] = history[v]

\* A content that is made descends from itself and from what it was made of.
LEMMA MadeDescends ==
    ASSUME TypeOK, CardsInv, NEW from \in SUBSET Contents, Make(from),
           \A b \in from : cards[b] \subseteq from
    PROVE  /\ cards' \in Seq(SUBSET (1..MaxCards)) /\ Len(cards') <= MaxCards
           /\ Len(cards') = Len(cards) + 1
           /\ Contents \subseteq Contents' /\ Len(cards') \in Contents'
           /\ \A c \in Contents : cards'[c] = cards[c]
           /\ cards'[Len(cards')] = from \cup {Len(cards')}
           /\ CardsInv'
<1> DEFINE n == Len(cards) + 1
           S == SUBSET (1..MaxCards)
<1>1. /\ cards \in Seq(S) /\ Len(cards) \in Nat /\ Len(cards) < MaxCards /\ MaxCards \in Nat
      /\ cards' = Append(cards, from \cup {n})
  BY DolphinAssumption, LenProperties DEF TypeOK, Make
<1>2. from \cup {n} \in S
  <2>1. Contents \subseteq 1..MaxCards /\ n \in 1..MaxCards
    BY <1>1 DEF Contents
  <2> QED
    BY <2>1
<1>3. /\ cards' \in Seq(S) /\ Len(cards') = n
      /\ \A c \in 1..Len(cards) : cards'[c] = cards[c]
      /\ cards'[n] = from \cup {n}
  BY <1>1, <1>2, AppendProperties
<1>4. Contents' = Contents \cup {n} /\ n \notin Contents
  BY <1>1, <1>3 DEF Contents
<1>5. \A c \in Contents' :
        /\ c \in cards'[c] /\ cards'[c] \subseteq Contents'
        /\ \A b \in cards'[c] : cards'[b] \subseteq cards'[c]
  <2> SUFFICES ASSUME NEW c \in Contents'
               PROVE  /\ c \in cards'[c] /\ cards'[c] \subseteq Contents'
                      /\ \A b \in cards'[c] : cards'[b] \subseteq cards'[c]
    OBVIOUS
  <2>1. CASE c = n
    <3>1. cards'[c] = from \cup {n} /\ from \subseteq Contents
      BY <1>3, <2>1
    <3>2. \A b \in from : cards'[b] = cards[b]
      BY <1>3, <3>1 DEF Contents
    <3> QED
      BY <1>3, <1>4, <2>1, <3>1, <3>2
  <2>2. CASE c \in Contents
    <3>1. cards'[c] = cards[c] /\ c \in cards[c] /\ cards[c] \subseteq Contents
          /\ \A b \in cards[c] : cards[b] \subseteq cards[c]
      BY <1>3, <2>2 DEF CardsInv, Contents
    <3>2. \A b \in cards[c] : cards'[b] = cards[b]
      BY <1>3, <3>1 DEF Contents
    <3> QED
      BY <1>4, <3>1, <3>2
  <2> QED
    BY <1>4, <2>1, <2>2
<1>6. Len(cards') <= MaxCards /\ n \in Contents'
  BY <1>1, <1>3, <1>4
<1>7. \A c \in Contents : cards'[c] = cards[c]
  BY <1>3 DEF Contents
<1>8. CardsInv'
  BY <1>5 DEF CardsInv
<1> QED
  BY <1>3, <1>4, <1>6, <1>7, <1>8

\* Whoever pushes adds a version of a card that there is, and takes none away.
LEMMA VersionAdded ==
    ASSUME TypeOK, NEW content \in Contents', Contents \subseteq Contents',
           history' = Append(history, content)
    PROVE  /\ history' \in Seq(Contents') /\ Len(history') = Len(history) + 1
           /\ \A v \in 1..Len(history) : history'[v] = history[v]
           /\ history'[Len(history')] = content
<1>1. history \in Seq(Contents')
  BY SeqMonotonic DEF TypeOK
<1> QED
  BY <1>1, AppendProperties

\* The head is the last of the versions, if there is one.
LEMMA HeadIsOnServer ==
    ASSUME TypeOK
    PROVE  /\ HeadVersion \in 0..MaxVersion /\ HeadCard \in OnServer \cup {None}
           /\ history = <<>> <=> HeadVersion = 0
           /\ history # <<>> => HeadCard = history[HeadVersion]
           /\ OnServer \subseteq Contents /\ HeadCard \in Contents \cup {None}
           /\ DOMAIN history = 1..HeadVersion
<1>1. /\ history \in Seq(Contents) /\ HeadVersion \in Nat /\ HeadVersion <= MaxVersion
      /\ DOMAIN history = 1..HeadVersion /\ MaxVersion \in Nat
  BY DolphinAssumption, LenProperties DEF TypeOK, HeadVersion
<1>2. history = <<>> <=> HeadVersion = 0
  BY <1>1, EmptySeq DEF HeadVersion
<1>3. \A v \in 1..HeadVersion : history[v] \in Contents
  BY <1>1, ElementOfSeq DEF HeadVersion
<1> QED
  BY <1>1, <1>2, <1>3 DEF HeadCard, OnServer

\* What a step that leaves the server alone keeps.
LEMMA ServerAlone ==
    ASSUME TypeOK, CardsInv, UNCHANGED server
    PROVE  Grows
<1>1. UNCHANGED <<cards, history, Contents>>
  BY DEF server, Contents
<1> QED
  BY <1>1 DEF Grows, TypeOK, CardsInv

\* What the others do, and what a push does, only adds to the server.
LEMMA ServerGrows ==
    ASSUME BaseInv, [Next]_vars
    PROVE  Grows
<1> USE DEF BaseInv
<1>1. ASSUME NEW content \in Contents', history' = Append(history, content),
             Len(history) < MaxVersion, Contents \subseteq Contents',
             cards' \in Seq(SUBSET (1..MaxCards)), Len(cards') <= MaxCards, CardsInv',
             \A c \in Contents : cards'[c] = cards[c]
      PROVE  Grows
  <2>1. /\ history' \in Seq(Contents') /\ Len(history') = Len(history) + 1
        /\ \A v \in 1..Len(history) : history'[v] = history[v]
    BY <1>1, VersionAdded
  <2>2. Len(history') <= MaxVersion
    BY <1>1, <2>1, HeadIsOnServer, DolphinAssumption DEF HeadVersion
  <2> QED
    BY <1>1, <2>1, <2>2 DEF Grows
<1>2. ASSUME UNCHANGED cards
      PROVE  /\ UNCHANGED Contents /\ CardsInv'
             /\ cards' \in Seq(SUBSET (1..MaxCards)) /\ Len(cards') <= MaxCards
  <2>1. UNCHANGED Contents
    BY <1>2 DEF Contents
  <2> QED
    BY <1>2, <2>1 DEF TypeOK, CardsInv
<1>3. CASE Save
  <2>1. memory \in Contents /\ Make(cards[memory]) /\ UNCHANGED history
    BY <1>3 DEF Save, TypeOK
  <2>2. cards[memory] \in SUBSET Contents /\ \A b \in cards[memory] : cards[b] \subseteq cards[memory]
    BY <2>1 DEF CardsInv
  <2>3. /\ cards' \in Seq(SUBSET (1..MaxCards)) /\ Len(cards') <= MaxCards /\ CardsInv'
        /\ Contents \subseteq Contents' /\ \A c \in Contents : cards'[c] = cards[c]
    BY <2>1, <2>2, MadeDescends
  <2>4. history' \in Seq(Contents') /\ Len(history') <= MaxVersion
    BY <2>1, <2>3, SeqMonotonic DEF TypeOK
  <2> QED
    BY <2>1, <2>3, <2>4 DEF Grows
<1>4. CASE OtherCommits
  <2>0. Len(history) < MaxVersion
    BY <1>4 DEF OtherCommits, HeadVersion
  <2>1. CASE Make(IF history = <<>> THEN {} ELSE cards[HeadCard])
             /\ history' = Append(history, Len(cards'))
    <3> DEFINE from == IF history = <<>> THEN {} ELSE cards[HeadCard]
    <3>0. history # <<>> => HeadCard \in Contents
      BY HeadIsOnServer DEF OnServer
    <3>1. from \in SUBSET Contents /\ \A b \in from : cards[b] \subseteq from
      BY <3>0 DEF CardsInv
    <3>2. /\ cards' \in Seq(SUBSET (1..MaxCards)) /\ Len(cards') <= MaxCards /\ CardsInv'
          /\ Contents \subseteq Contents' /\ Len(cards') \in Contents'
          /\ \A c \in Contents : cards'[c] = cards[c]
      BY <2>1, <3>1, MadeDescends
    <3> QED
      BY <1>1, <2>0, <2>1, <3>2
  <2>2. CASE \E card \in OnServer \ {HeadCard} : history' = Append(history, card) /\ UNCHANGED cards
    <3>1. PICK card \in OnServer : history' = Append(history, card) /\ UNCHANGED cards
      BY <2>2
    <3> QED
      BY <1>1, <1>2, <2>0, <3>1, HeadIsOnServer
  <2> QED
    BY <1>4, <2>1, <2>2 DEF OtherCommits
<1>5. ASSUME NEW p \in Processes, Detail(p)
      PROVE  Grows
  <2>1. CASE UNCHANGED server
    BY <2>1, ServerAlone
  <2>2. CASE history = <<>> /\ Make({}) /\ history' = <<Len(cards')>>
    <3>1. /\ cards' \in Seq(SUBSET (1..MaxCards)) /\ Len(cards') <= MaxCards /\ CardsInv'
          /\ Contents \subseteq Contents' /\ Len(cards') \in Contents'
          /\ \A c \in Contents : cards'[c] = cards[c]
      BY <2>2, MadeDescends
    <3>2. history' = Append(history, Len(cards'))
      BY <2>2
    <3>3. Len(history) < MaxVersion
      BY <2>2, DolphinAssumption
    <3> QED
      BY <1>1, <3>1, <3>2, <3>3
  <2> QED
    BY <1>5, <2>1, <2>2 DEF Detail
<1>6. ASSUME NEW p \in Processes, Post(p)
      PROVE  Grows
  <2>1. CASE UNCHANGED history
    BY <1>6, <2>1, ServerAlone DEF Post, server
  <2>2. CASE pc[p] = "post" /\ HeadVersion < MaxVersion /\ history' = Append(history, image[p].card)
             /\ UNCHANGED cards
    <3>1. image[p].card \in Contents /\ Len(history) < MaxVersion
      BY <2>2 DEF RecordInv, InHand, HeadVersion
    <3> QED
      BY <1>1, <1>2, <2>2, <3>1
  <2> QED
    BY <1>6, <2>1, <2>2 DEF Post
<1>7. CASE UNCHANGED server
  BY <1>7, ServerAlone
<1> QED
  BY <1>3, <1>4, <1>5, <1>6, <1>7
     DEF Next, vars, OpenDolphin, Flush, CloseDolphin, StartCommand, WatchOnce, PullIdleCards, Popen,
         Point, DolphinReturns, Kill, RememberAnother, Guard, Digest, Compare, Fetch, Write, RememberPulled, ReadCard, Answer

\* What is on record stays so.
LEMMA RecordGrows ==
    ASSUME TypeOK, Grows, NEW a
    PROVE  /\ OnRecord(a) => a.version \in 0..Len(history') /\ a.card \in OnServer' \cup {None}
           /\ IsVersion(a) => a.version \in 1..Len(history') /\ a.card = history'[a.version]
           /\ Contents \subseteq Contents' /\ HeadVersion \in 0..HeadVersion'
           /\ HeadVersion' \in 0..MaxVersion /\ OnServer \subseteq OnServer'
<1>1. /\ Len(history) \in Nat /\ Len(history') \in Nat /\ Len(history') <= MaxVersion
      /\ DOMAIN history = 1..Len(history) /\ DOMAIN history' = 1..Len(history')
      /\ Len(history) <= Len(history')
      /\ \A v \in 1..Len(history) : history'[v] = history[v]
  BY LenProperties DEF TypeOK, Grows
<1>2. OnServer \subseteq OnServer'
  BY <1>1 DEF OnServer
<1>3. MaxVersion \in Nat /\ HeadVersion = Len(history) /\ HeadVersion' = Len(history')
  BY DolphinAssumption DEF HeadVersion
<1>4. OnRecord(a) => a.version \in 0..Len(history') /\ a.card \in OnServer' \cup {None}
  BY <1>1, <1>2, <1>3 DEF OnRecord
<1>5. IsVersion(a) => a.version \in 1..Len(history') /\ a.card = history'[a.version]
  BY <1>1, <1>3 DEF IsVersion
<1>6. HeadVersion \in 0..HeadVersion' /\ HeadVersion' \in 0..MaxVersion
  BY <1>1, <1>3
<1> QED
  BY <1>2, <1>4, <1>5, <1>6 DEF Grows

\* What a process has in hand, it still has if it goes on to something that does not rest on it.
LEMMA InHandKept ==
    ASSUME BaseInv, Grows, NEW p \in Processes, head'[p] = head[p], image'[p] = image[p],
           \/ pc'[p] = pc[p]
           \/ pc[p] \in Pulling /\ pc'[p] \in Pulling
           \/ pc[p] = "write" /\ pc'[p] = "remember"
           \/ pc'[p] \notin Pulling \cup {"write", "remember", "post"}
    PROVE  InHand(p)'
<1>1. /\ OnRecord(head[p]) /\ image[p].version \in 0..HeadVersion
      /\ image[p].card \in Contents \cup {None}
      /\ pc[p] \in Pulling => IsVersion(head[p])
      /\ pc[p] \in {"write", "remember"} => IsVersion(image[p])
      /\ pc[p] = "post" => image[p].card # None
  BY DEF BaseInv, RecordInv, InHand
<1>2. OnRecord(head[p])'
  BY <1>1, RecordGrows DEF BaseInv, OnRecord, HeadVersion
<1>3. image'[p].version \in 0..HeadVersion' /\ image'[p].card \in Contents' \cup {None}
  BY <1>1, RecordGrows, HeadIsOnServer DEF BaseInv
<1>4. pc'[p] \in Pulling => IsVersion(head[p])'
  BY <1>1, RecordGrows DEF BaseInv, IsVersion, HeadVersion, Pulling
<1>5. pc'[p] \in {"write", "remember"} => IsVersion(image[p])'
  BY <1>1, RecordGrows DEF BaseInv, IsVersion, HeadVersion, Pulling
<1>6. pc'[p] = "post" => image'[p].card # None
  BY <1>1 DEF Pulling
<1> QED
  BY <1>2, <1>3, <1>4, <1>5, <1>6 DEF InHand

\* The sidecar, and what a process takes it to say, where a step only copies one to another.
LEMMA RecordKept ==
    ASSUME BaseInv, Grows
    PROVE  /\ sidecar' \in Copies => OnRecord(sidecar)'
           /\ \A p \in Processes : state'[p] \in Copies => OnRecord(state[p])'
<1>1. OnRecord(Unknown)
  BY HeadIsOnServer DEF BaseInv, Unknown, Agreement, OnRecord
<1>2. \A a \in Copies : OnRecord(a)
  BY <1>1 DEF BaseInv, RecordInv, Copies
<1>3. sidecar' \in Copies => OnRecord(sidecar)'
  BY <1>2, RecordGrows DEF BaseInv, OnRecord, HeadVersion
<1>4. \A p \in Processes : state'[p] \in Copies => OnRecord(state[p])'
  BY <1>2, RecordGrows DEF BaseInv, OnRecord, HeadVersion
<1> QED
  BY <1>3, <1>4

----------------------------------------------------------------------------
(* Types, and what is on record.                                           *)

FileOK == file \in Contents \cup {None} /\ sidecar \in Agreements

DolphinOK ==
    /\ running \in BOOLEAN /\ unsaved \in BOOLEAN
    /\ running => memory \in Contents
    /\ ~ running => memory = None

ProcessOK ==
    /\ state \in [Processes -> Agreements]
    /\ command \in [Processes -> Commands \cup {"watch", "none"}]
    /\ pc \in [Processes -> Places]
    /\ head \in [Processes -> Agreements] /\ image \in [Processes -> Agreements]

GhostOK == raced \in BOOLEAN /\ runs \in 0..MaxRuns /\ failures \in 0..MaxFailures

\* The types in groups: a step seldom touches more than two.
LEMMA TypesInGroups ==
    TypeOK <=> /\ cards \in Seq(SUBSET (1..MaxCards)) /\ Len(cards) <= MaxCards
               /\ history \in Seq(Contents) /\ Len(history) <= MaxVersion
               /\ FileOK /\ DolphinOK /\ ProcessOK /\ GhostOK
BY DEF TypeOK, FileOK, DolphinOK, ProcessOK, GhostOK

\* A group that a step leaves alone keeps its types.
LEMMA GroupsKept ==
    ASSUME FileOK, DolphinOK, ProcessOK, GhostOK, Contents \subseteq Contents'
    PROVE  /\ UNCHANGED <<file, sidecar>> => FileOK'
           /\ UNCHANGED dolphin => DolphinOK'
           /\ UNCHANGED process => ProcessOK'
           /\ UNCHANGED ghosts => GhostOK'
BY DEF FileOK, DolphinOK, ProcessOK, GhostOK, dolphin, process, ghosts

\* What an unreadable sidecar is taken to say.
LEMMA UnknownFits ==
    Unknown \in Agreements /\ Unknown.version = 0 /\ Unknown.card = None
BY DolphinAssumption DEF Unknown, Agreement, Agreements, None

\* Types, action by action.
LEMMA TypesKept ==
    ASSUME BaseInv, [Next]_vars
    PROVE  TypeOK'
<1>1. FileOK /\ DolphinOK /\ ProcessOK /\ GhostOK
  BY TypesInGroups DEF BaseInv
<1>2. /\ Contents \subseteq Contents' /\ HeadVersion \in 0..MaxVersion /\ HeadVersion' \in 0..MaxVersion
      /\ HeadCard \in Contents \cup {None} /\ Contents \cup {None} \subseteq 0..MaxCards
      /\ MaxFailures \in Nat /\ MaxRuns \in Nat
      /\ \A p \in Processes : image[p].card \in Contents \cup {None}
  <2>1. Contents \cup {None} \subseteq 0..MaxCards
    BY DolphinAssumption, LenProperties DEF BaseInv, TypeOK, Contents, None
  <2>2. Contents \subseteq Contents' /\ HeadVersion' \in 0..MaxVersion
    BY ServerGrows, RecordGrows DEF BaseInv
  <2>3. \A p \in Processes : image[p].card \in Contents \cup {None}
    BY DEF BaseInv, RecordInv, InHand
  <2> QED
    BY <2>1, <2>2, <2>3, DolphinAssumption, HeadIsOnServer DEF BaseInv
<1>3. "watch" \in Processes /\ "cli" \in Processes
  BY DEF Processes
<1>4. FileOK' /\ DolphinOK' /\ ProcessOK' /\ GhostOK' => TypeOK'
  BY ServerGrows DEF Grows, TypeOK, FileOK, DolphinOK, ProcessOK, GhostOK
<1>5. CASE OpenDolphin
  <2>1. UNCHANGED <<file, sidecar, process, ghosts>>
    BY <1>5 DEF OpenDolphin, StartDolphin, process, ghosts
  <2>2. DolphinOK'
    BY <1>1, <1>2, <1>3, <1>5 DEF DolphinOK, OpenDolphin, StartDolphin, dolphin, FileOK
  <2> QED
    BY <1>1, <1>2, <1>4, GroupsKept, <2>1, <2>2
<1>6. CASE Save
  <2>1. UNCHANGED <<file, sidecar, process, ghosts>>
    BY <1>6 DEF Save, Make, process, ghosts
  <2>2. DolphinOK'
    <3>1. running' /\ memory' = Len(cards') /\ unsaved' = TRUE /\ memory \in Contents
      BY <1>1, <1>6 DEF DolphinOK, Save
    <3>2. Len(cards') \in Contents'
      BY <1>2, <3>1, ServerGrows, LenProperties DEF Contents, Grows
    <3> QED
      BY <1>1, <1>6, <3>1, <3>2 DEF DolphinOK, Save
  <2> QED
    BY <1>1, <1>2, <1>4, GroupsKept, <2>1, <2>2
<1>7. CASE Flush
  <2>1. UNCHANGED <<process>>
    BY <1>7 DEF Flush, process
  <2>2. FileOK'
    BY <1>1, <1>2, <1>7 DEF FileOK, Flush, DolphinOK
  <2>3. DolphinOK'
    BY <1>1, <1>2, <1>3, <1>7 DEF DolphinOK, Flush, dolphin, FileOK
  <2>4. GhostOK'
    BY <1>1, <1>2, <1>3, <1>7 DEF GhostOK, Flush, ghosts
  <2> QED
    BY <1>1, <1>2, <1>4, GroupsKept, <2>1, <2>2, <2>3, <2>4
<1>8. CASE CloseDolphin
  <2>1. UNCHANGED <<file, sidecar, process, ghosts>>
    BY <1>8 DEF CloseDolphin, process, ghosts
  <2>2. DolphinOK'
    BY <1>1, <1>2, <1>3, <1>8 DEF DolphinOK, CloseDolphin, dolphin, FileOK
  <2> QED
    BY <1>1, <1>2, <1>4, GroupsKept, <2>1, <2>2
<1>9. CASE OtherCommits
  <2>1. UNCHANGED <<file, sidecar, dolphin, process, ghosts>>
    BY <1>9 DEF OtherCommits, dolphin, process, ghosts
  <2> QED
    BY <1>1, <1>2, <1>4, GroupsKept, <2>1
<1>10. ASSUME NEW c \in Commands, StartCommand(c)
      PROVE  TypeOK'
  <2>1. UNCHANGED <<file, sidecar, dolphin>>
    BY <1>10 DEF StartCommand, dolphin
  <2>2. ProcessOK'
    <3>1. PICK a \in Agreements : state' = [state EXCEPT !["cli"] = a]
      BY <1>1, <1>10, UnknownFits DEF StartCommand, Load, FileOK
    <3> QED
      BY <1>1, <1>3, <1>10, <3>1 DEF ProcessOK, StartCommand, Goes
  <2>3. GhostOK'
    BY <1>1, <1>2, <1>3, <1>10 DEF GhostOK, StartCommand, ghosts
  <2> QED
    BY <1>1, <1>2, <1>4, GroupsKept, <2>1, <2>2, <2>3
<1>11. CASE WatchOnce
  <2>1. UNCHANGED <<file, sidecar, dolphin>>
    BY <1>11 DEF WatchOnce, Goes, dolphin
  <2>2. ProcessOK'
    BY <1>1, <1>2, <1>3, <1>11 DEF ProcessOK, WatchOnce, Goes, Agreements, process, FileOK
  <2>3. GhostOK'
    BY <1>1, <1>2, <1>3, <1>11 DEF GhostOK, WatchOnce, ghosts
  <2> QED
    BY <1>1, <1>2, <1>4, GroupsKept, <2>1, <2>2, <2>3
<1>12. CASE PullIdleCards
  <2>1. UNCHANGED <<file, sidecar, dolphin>>
    BY <1>12 DEF PullIdleCards, Goes, dolphin
  <2>2. ProcessOK'
    BY <1>1, <1>2, <1>3, <1>12 DEF ProcessOK, PullIdleCards, Goes, Agreements, process, FileOK
  <2>3. GhostOK'
    BY <1>1, <1>2, <1>3, <1>12 DEF GhostOK, PullIdleCards, ghosts
  <2> QED
    BY <1>1, <1>2, <1>4, GroupsKept, <2>1, <2>2, <2>3
<1>13. CASE Popen
  <2>1. UNCHANGED <<file, sidecar, ghosts>>
    BY <1>13 DEF Popen, StartDolphin, Ends, After, Goes, ghosts
  <2>2. DolphinOK'
    <3>1. CASE StartDolphin
      BY <1>1, <1>2, <3>1 DEF DolphinOK, StartDolphin, FileOK
    <3>2. CASE UNCHANGED dolphin
      BY <1>1, <1>2, <3>2, GroupsKept
    <3> QED
      BY <1>13, <3>1, <3>2 DEF Popen
  <2>3. ProcessOK'
    BY <1>1, <1>2, <1>3, <1>13 DEF ProcessOK, Popen, Ends, After, Goes, Agreements, process, FileOK
  <2> QED
    BY <1>1, <1>2, <1>4, GroupsKept, <2>1, <2>2, <2>3
<1>14. CASE Point
  <2>1. UNCHANGED <<file, sidecar, ghosts>>
    BY <1>14 DEF Point, StartDolphin, Ends, After, Goes, ghosts
  <2>2. DolphinOK'
    BY <1>1, <1>2, <1>3, <1>14 DEF DolphinOK, Point, StartDolphin, dolphin, FileOK
  <2>3. ProcessOK'
    BY <1>1, <1>2, <1>3, <1>14 DEF ProcessOK, Point, Ends, After, Goes, Agreements, process, FileOK
  <2> QED
    BY <1>1, <1>2, <1>4, GroupsKept, <2>1, <2>2, <2>3
<1>15. CASE DolphinReturns
  <2>1. UNCHANGED <<file, sidecar, dolphin>>
    BY <1>15 DEF DolphinReturns, Goes, dolphin
  <2>2. ProcessOK'
    BY <1>1, <1>2, <1>3, <1>15 DEF ProcessOK, DolphinReturns, Goes, Agreements, process, FileOK
  <2>3. GhostOK'
    BY <1>1, <1>2, <1>3, <1>15 DEF GhostOK, DolphinReturns, ghosts
  <2> QED
    BY <1>1, <1>2, <1>4, GroupsKept, <2>1, <2>2, <2>3
<1>16. ASSUME NEW p \in Processes, Kill(p)
      PROVE  TypeOK'
  <2>1. UNCHANGED <<file, sidecar, dolphin>>
    BY <1>16 DEF Kill, dolphin
  <2>2. ProcessOK'
    <3>1. UNCHANGED state \/ \E a \in Agreements : state' = [state EXCEPT ![p] = a]
      BY <1>1, <1>16, UnknownFits DEF Kill, Load, FileOK
    <3> QED
      BY <1>1, <1>3, <1>16, <3>1 DEF ProcessOK, Kill, Ends, After, Goes
  <2>3. GhostOK'
    BY <1>1, <1>2, <1>3, <1>16 DEF GhostOK, Kill, ghosts
  <2> QED
    BY <1>1, <1>2, <1>4, GroupsKept, <2>1, <2>2, <2>3
<1>17. ASSUME NEW p \in Processes, Detail(p)
      PROVE  TypeOK'
  <2>1. UNCHANGED <<file, sidecar, dolphin>>
    BY <1>17 DEF Detail, Lost, Agreement, Ends, After, Goes, dolphin
  <2>2. ProcessOK'
    <3>1. /\ UNCHANGED command
          /\ pc' \in [Processes -> Places]
      BY <1>1, <1>17 DEF ProcessOK, Detail, Ends, After, Goes
    <3>0. Agreement(HeadVersion, HeadCard) \in Agreements
      BY <1>2 DEF Agreement, Agreements
    <3>2. UNCHANGED <<state, image>> /\ head' \in [Processes -> Agreements]
      BY <1>1, <1>17, <3>0 DEF ProcessOK, Detail
    <3> QED
      BY <1>1, <3>1, <3>2 DEF ProcessOK
  <2>3. GhostOK'
    BY <1>1, <1>2, <1>3, <1>17 DEF GhostOK, Detail, Lost, ghosts
  <2> QED
    BY <1>1, <1>2, <1>4, GroupsKept, <2>1, <2>2, <2>3
<1>18. ASSUME NEW p \in Processes, Guard(p) \/ Digest(p)
      PROVE  TypeOK'
  <2>1. UNCHANGED <<file, sidecar, dolphin, ghosts>>
    BY <1>18 DEF Guard, Digest, dolphin, ghosts
  <2>2. ProcessOK'
    BY <1>1, <1>18 DEF ProcessOK, Guard, Digest, Ends, After, Goes
  <2> QED
    BY <1>1, <1>2, <1>4, GroupsKept, <2>1, <2>2
<1>19. ASSUME NEW p \in Processes, Fetch(p)
      PROVE  TypeOK'
  <2>1. UNCHANGED <<file, sidecar, dolphin>>
    BY <1>19 DEF Fetch, Lost, Agreement, Ends, After, Goes, dolphin
  <2>2. ProcessOK'
    <3>1. /\ UNCHANGED command
          /\ pc' \in [Processes -> Places]
      BY <1>1, <1>19 DEF ProcessOK, Fetch, Ends, After, Goes
    <3>2. UNCHANGED <<state, head>> /\ image' \in [Processes -> Agreements]
      BY <1>1, <1>2, <1>19 DEF ProcessOK, Fetch, Agreement, Agreements
    <3> QED
      BY <1>1, <3>1, <3>2 DEF ProcessOK
  <2>3. GhostOK'
    BY <1>1, <1>2, <1>3, <1>19 DEF GhostOK, Fetch, Lost, ghosts
  <2> QED
    BY <1>1, <1>2, <1>4, GroupsKept, <2>1, <2>2, <2>3
<1>20. ASSUME NEW p \in Processes, Write(p)
      PROVE  TypeOK'
  <2>1. UNCHANGED <<dolphin>>
    BY <1>20 DEF Write, Goes, dolphin
  <2>2. FileOK'
    BY <1>1, <1>2, <1>3, <1>20 DEF FileOK, Write, Agreements, ProcessOK
  <2>3. ProcessOK'
    BY <1>1, <1>2, <1>3, <1>20 DEF ProcessOK, Write, Goes, Agreements, process, FileOK
  <2>4. GhostOK'
    BY <1>1, <1>2, <1>3, <1>20 DEF GhostOK, Write, ghosts
  <2> QED
    BY <1>1, <1>2, <1>4, GroupsKept, <2>1, <2>2, <2>3, <2>4
<1>21. ASSUME NEW p \in Processes, RememberPulled(p)
      PROVE  TypeOK'
  <2>1. UNCHANGED <<dolphin, ghosts>>
    BY <1>21 DEF RememberPulled, Remember, Pulled, Ends, After, Goes, dolphin, ghosts
  <2>2. FileOK'
    BY <1>1, <1>2, <1>3, <1>21 DEF FileOK, RememberPulled, Remember, Agreements, ProcessOK
  <2>3. ProcessOK'
    BY <1>1, <1>2, <1>3, <1>21
       DEF ProcessOK, RememberPulled, Remember, Pulled, Ends, After, Goes, Agreements, process,
           FileOK
  <2> QED
    BY <1>1, <1>2, <1>4, GroupsKept, <2>1, <2>2, <2>3
<1>22. ASSUME NEW p \in Processes, ReadCard(p)
      PROVE  TypeOK'
  <2>1. UNCHANGED <<file, sidecar, dolphin, ghosts>>
    BY <1>22 DEF ReadCard, Agreement, Ends, After, Goes, dolphin, ghosts
  <2>2. ProcessOK'
    BY <1>1, <1>2, <1>3, <1>22
       DEF ProcessOK, ReadCard, Agreement, Ends, After, Goes, Agreements, process, FileOK
  <2> QED
    BY <1>1, <1>2, <1>4, GroupsKept, <2>1, <2>2
<1>23. ASSUME NEW p \in Processes, Post(p)
      PROVE  TypeOK'
  <2>1. UNCHANGED <<file, sidecar, dolphin>>
    BY <1>23 DEF Post, Lost, Agreement, Ends, After, Goes, dolphin
  <2>2. ProcessOK'
    <3>1. /\ UNCHANGED command
          /\ pc' \in [Processes -> Places]
      BY <1>1, <1>23 DEF ProcessOK, Post, Ends, After, Goes
    <3>0. Agreement(HeadVersion, None) \in Agreements /\ Agreement(HeadVersion', None) \in Agreements
      BY <1>2 DEF Agreement, Agreements
    <3>2. UNCHANGED <<state, image>> /\ head' \in [Processes -> Agreements]
      BY <1>1, <1>23, <3>0 DEF ProcessOK, Post
    <3> QED
      BY <1>1, <3>1, <3>2 DEF ProcessOK
  <2>3. GhostOK'
    BY <1>1, <1>2, <1>3, <1>23 DEF GhostOK, Post, Lost, ghosts
  <2> QED
    BY <1>1, <1>2, <1>4, GroupsKept, <2>1, <2>2, <2>3
<1>24. ASSUME NEW p \in Processes, Answer(p)
      PROVE  TypeOK'
  <2>1. UNCHANGED <<dolphin>>
    BY <1>24 DEF Answer, Remember, Lost, Agreement, Ends, After, Goes, dolphin
  <2>2. FileOK'
    BY <1>1, <1>2, <1>3, <1>24 DEF FileOK, Answer, Remember, Agreement, Agreements, ProcessOK
  <2>3. ProcessOK'
    BY <1>1, <1>2, <1>3, <1>24
       DEF ProcessOK, Answer, Remember, Agreement, Ends, After, Goes, Agreements, process, FileOK
  <2>4. GhostOK'
    BY <1>1, <1>2, <1>3, <1>24 DEF GhostOK, Answer, Lost, ghosts
  <2> QED
    BY <1>1, <1>2, <1>4, GroupsKept, <2>1, <2>2, <2>3, <2>4
<1>25. CASE UNCHANGED vars
  BY <1>1, <1>2, <1>4, <1>25, GroupsKept DEF vars
<1>26. ASSUME NEW p \in Processes, Compare(p)
      PROVE  TypeOK'
  <2>1. UNCHANGED <<dolphin, ghosts>>
    BY <1>26 DEF Compare, dolphin, ghosts
  <2>2. FileOK'
    BY <1>1, <1>2, <1>3, <1>26 DEF FileOK, Compare, Remember, Agreements, ProcessOK
  <2>3. ProcessOK'
    <3>1. UNCHANGED command /\ pc' \in [Processes -> Places]
      BY <1>1, <1>26 DEF ProcessOK, Compare, Pulled, Ends, After, Goes
    <3>2. UNCHANGED <<head, image>> /\ state' \in [Processes -> Agreements]
      BY <1>1, <1>26 DEF ProcessOK, Compare, Remember
    <3> QED
      BY <1>1, <3>1, <3>2 DEF ProcessOK
  <2> QED
    BY <1>1, <1>2, <1>4, GroupsKept, <2>1, <2>2, <2>3
<1>27. ASSUME NEW p \in Processes, RememberAnother(p)
      PROVE  TypeOK'
  <2>1. UNCHANGED <<dolphin, ghosts>>
    BY <1>27 DEF RememberAnother, dolphin, ghosts
  <2>2. FileOK'
    BY <1>1, <1>2, <1>27 DEF FileOK, RememberAnother, ProcessOK
  <2>3. ProcessOK'
    BY <1>1, <1>27 DEF ProcessOK, RememberAnother, Ends, After, Goes
  <2> QED
    BY <1>1, <1>2, <1>4, GroupsKept, <2>1, <2>2, <2>3
<1> QED
  BY <1>5, <1>6, <1>7, <1>8, <1>9, <1>10, <1>11, <1>12, <1>13, <1>14, <1>15, <1>16, <1>17,
     <1>18, <1>19, <1>20, <1>21, <1>22, <1>23, <1>24, <1>25, <1>26, <1>27 DEF Next

\* What is on record, and what each process has in hand, by the step that changes it.
LEMMA RecordsKept ==
    ASSUME BaseInv, [Next]_vars
    PROVE  RecordInv'
<1>1. Grows /\ TypeOK
  BY ServerGrows DEF BaseInv
<1>2. /\ pc \in [Processes -> Places]
      /\ DOMAIN state = Processes /\ DOMAIN head = Processes /\ DOMAIN image = Processes
      /\ "watch" \in Processes /\ "cli" \in Processes
  BY <1>1 DEF TypeOK, Processes
<1>3. \A p \in Processes : OnRecord(state[p]) /\ InHand(p)
  BY DEF BaseInv, RecordInv
<1>4. HeadVersion' \in Nat /\ HeadVersion \in 0..HeadVersion' /\ OnServer \subseteq OnServer'
      /\ Contents \subseteq Contents'
  BY <1>1, RecordGrows
<1> DEFINE Plain ==
        /\ UNCHANGED <<head, image>> /\ sidecar' \in Copies
        /\ \A q \in Processes :
            /\ state'[q] \in Copies
            /\ \/ pc'[q] = pc[q]
               \/ pc[q] \in Pulling /\ pc'[q] \in Pulling
               \/ pc[q] = "write" /\ pc'[q] = "remember"
               \/ pc'[q] \notin Pulling \cup {"write", "remember", "post"}
<1>5. ASSUME Plain
      PROVE  RecordInv'
  <2>1. \A q \in Processes : InHand(q)'
    BY <1>1, <1>5, InHandKept DEF Pulling
  <2>2. OnRecord(sidecar)' /\ \A q \in Processes : OnRecord(state[q])'
    BY <1>1, <1>5, RecordKept DEF Copies
  <2> QED
    BY <2>1, <2>2 DEF RecordInv
<1> HIDE DEF Plain
<1>6. CASE OpenDolphin \/ Save \/ Flush \/ CloseDolphin \/ OtherCommits \/ UNCHANGED vars
  <2>1. UNCHANGED <<sidecar, state, pc, head, image>>
    BY <1>6 DEF OpenDolphin, Save, Flush, CloseDolphin, OtherCommits, process, vars
  <2> QED
    BY <1>5, <2>1 DEF Plain, Copies, Pulling
<1>7. ASSUME NEW c \in Commands, StartCommand(c)
      PROVE  RecordInv'
  <2>1. UNCHANGED <<sidecar, head, image>>
        /\ (\E a \in {sidecar, Unknown} : state' = [state EXCEPT !["cli"] = a])
        /\ \E next \in {"push", "another", "detail"} : pc' = [pc EXCEPT !["cli"] = next]
    BY <1>7 DEF StartCommand, Load, Goes
  <2> QED
    BY <1>2, <1>5, <2>1 DEF Plain, Copies, Pulling
<1>8. CASE WatchOnce \/ PullIdleCards
  <2>1. UNCHANGED <<sidecar, state, head, image>>
        /\ \E next \in {"push", "detail"} : pc' = [pc EXCEPT !["watch"] = next]
    BY <1>8 DEF WatchOnce, PullIdleCards, Goes
  <2> QED
    BY <1>2, <1>5, <2>1 DEF Plain, Copies, Pulling
<1>9. CASE Popen \/ Point \/ DolphinReturns
  <2>1. UNCHANGED <<sidecar, state, head, image>>
        /\ \E next \in {"ended", "run", "push"} : pc' = [pc EXCEPT !["cli"] = next]
    BY <1>9 DEF Popen, Point, DolphinReturns, Goes, Ends, After
  <2> QED
    BY <1>2, <1>5, <2>1 DEF Plain, Copies, Pulling
<1>10. ASSUME NEW p \in Processes, Kill(p) \/ Write(p)
       PROVE  RecordInv'
  <2>1. UNCHANGED <<sidecar, head, image>>
        /\ (UNCHANGED state \/ \E a \in {sidecar, Unknown} : state' = [state EXCEPT ![p] = a])
        /\ \/ \E next \in {"idle", "ended"} : pc' = [pc EXCEPT ![p] = next]
           \/ pc[p] = "write" /\ pc' = [pc EXCEPT ![p] = "remember"]
    BY <1>10 DEF Kill, Write, Load, Goes, Ends, After
  <2> QED
    BY <1>2, <1>5, <2>1 DEF Plain, Copies, Pulling
<1>11. ASSUME NEW p \in Processes, Detail(p)
       PROVE  RecordInv'
  <2>1. UNCHANGED <<sidecar, state, image>>
    BY <1>11 DEF Detail
  <2>2. CASE UNCHANGED head /\ \E next \in {pc[p], "idle", "ended"} : pc' = [pc EXCEPT ![p] = next]
    BY <1>2, <1>5, <2>1, <2>2 DEF Plain, Copies, Pulling
  <2>3. CASE /\ history # <<>> /\ UNCHANGED history
             /\ head' = [head EXCEPT ![p] = Agreement(HeadVersion, HeadCard)]
             /\ pc' = [pc EXCEPT ![p] = "guard"]
    <3>1. \A q \in Processes \ {p} : InHand(q)'
      BY <1>1, <1>2, <2>1, <2>3, InHandKept DEF Pulling
    <3>2. head'[p].version = HeadVersion' /\ head'[p].card = HeadCard' /\ pc'[p] = "guard"
      BY <1>2, <2>3 DEF Agreement, HeadVersion, HeadCard
    <3>3. IsVersion(head[p])' /\ OnRecord(head[p])'
      BY <1>1, <2>3, <3>2, HeadIsOnServer DEF IsVersion, OnRecord, HeadVersion, HeadCard, OnServer
    <3>4. image'[p].version \in 0..HeadVersion' /\ image'[p].card \in Contents' \cup {None}
      BY <1>3, <1>4, <2>1 DEF InHand
    <3> QED
      BY <1>1, <2>1, <3>1, <3>2, <3>3, <3>4, RecordKept DEF InHand, RecordInv, Copies, Pulling
  <2> QED
    BY <1>2, <1>11, <2>2, <2>3 DEF Detail, Goes, Ends, After, server
<1>12. ASSUME NEW p \in Processes, Compare(p)
       PROVE  RecordInv'
  <2>1. UNCHANGED <<head, image>>
        /\ \E next \in {"fetch", "popen", "point", "idle", "ended"} :
              pc[p] = "compare" /\ pc' = [pc EXCEPT ![p] = next]
    BY <1>12 DEF Compare, Pulled, Goes, Ends, After
  <2>2. \A q \in Processes : InHand(q)'
    BY <1>1, <1>2, <2>1, InHandKept DEF Pulling
  <2>3. CASE UNCHANGED <<state, sidecar>>
    BY <1>1, <2>2, <2>3, RecordKept DEF RecordInv, Copies
  <2>4. CASE state' = [state EXCEPT ![p] = head[p]] /\ sidecar' = head[p]
    <3>1. OnRecord(head[p])'
      BY <2>2 DEF InHand
    <3>2. OnRecord(sidecar)' /\ OnRecord(state[p])'
      BY <1>2, <2>1, <2>4, <3>1 DEF OnRecord
    <3>3. \A q \in Processes \ {p} : OnRecord(state[q])'
      BY <1>1, <1>2, <2>4, RecordKept DEF Copies
    <3> QED
      BY <2>2, <3>2, <3>3 DEF RecordInv
  <2> QED
    BY <1>12, <2>3, <2>4 DEF Compare, Remember
<1>13. ASSUME NEW p \in Processes, Fetch(p)
       PROVE  RecordInv'
  <2>1. UNCHANGED <<sidecar, state, head, history>> /\ pc[p] = "fetch"
    BY <1>13 DEF Fetch, server
  <2>2. CASE UNCHANGED image /\ \E next \in {"idle", "ended"} : pc' = [pc EXCEPT ![p] = next]
    BY <1>2, <1>5, <2>1, <2>2 DEF Plain, Copies, Pulling
  <2>3. CASE /\ HeadCard = head[p].card /\ pc' = [pc EXCEPT ![p] = "write"]
             /\ image' = [image EXCEPT ![p] = Agreement(HeadVersion, HeadCard)]
    <3>1. \A q \in Processes \ {p} : InHand(q)'
      BY <1>1, <1>2, <2>1, <2>3, InHandKept DEF Pulling
    <3>2. image'[p].version = HeadVersion' /\ image'[p].card = HeadCard' /\ pc'[p] = "write"
      BY <1>2, <2>1, <2>3 DEF Agreement, HeadVersion, HeadCard
    <3>3. HeadVersion # 0
      BY <1>3, <2>1, <1>1, HeadIsOnServer DEF InHand, IsVersion, Pulling
    <3>4. IsVersion(image[p])' /\ image'[p].version \in 0..HeadVersion'
      BY <1>1, <1>4, <2>1, <3>2, <3>3, HeadIsOnServer DEF IsVersion, HeadVersion, HeadCard
    <3>5. image'[p].card \in Contents' \cup {None}
      BY <1>1, <1>4, <2>1, <3>2, HeadIsOnServer DEF HeadCard, HeadVersion
    <3>6. OnRecord(head[p])'
      BY <1>1, <1>3, <2>1, RecordGrows DEF InHand, OnRecord, HeadVersion
    <3> QED
      BY <1>1, <2>1, <3>1, <3>2, <3>4, <3>5, <3>6, RecordKept DEF InHand, RecordInv, Copies, Pulling
  <2> QED
    BY <1>13, <2>2, <2>3 DEF Fetch, Goes, Ends, After
<1>14. ASSUME NEW p \in Processes, RememberPulled(p)
       PROVE  RecordInv'
  <2>1. UNCHANGED <<head, image, history>> /\ pc[p] = "remember"
        /\ \E next \in {"popen", "point", "idle", "ended"} : pc' = [pc EXCEPT ![p] = next]
        /\ state' = [state EXCEPT ![p] = image[p]] /\ sidecar' = image[p]
    BY <1>14 DEF RememberPulled, Remember, Pulled, Goes, Ends, After, server
  <2>2. \A q \in Processes : InHand(q)'
    BY <1>1, <1>2, <2>1, InHandKept DEF Pulling
  <2>3. IsVersion(image[p])
    BY <1>3, <2>1 DEF InHand, Pulling
  <2>4. OnRecord(image[p])
    BY <1>1, <2>3, HeadIsOnServer DEF IsVersion, OnRecord, OnServer
  <2>5. OnRecord(sidecar)' /\ OnRecord(state[p])'
    BY <1>1, <1>2, <2>1, <2>4, RecordGrows DEF OnRecord, HeadVersion
  <2>6. \A q \in Processes \ {p} : OnRecord(state[q])'
    BY <1>1, <1>2, <2>1, RecordKept DEF Copies
  <2> QED
    BY <2>2, <2>5, <2>6 DEF RecordInv
<1>15. ASSUME NEW p \in Processes, ReadCard(p)
       PROVE  RecordInv'
  <2>1. UNCHANGED <<sidecar, state, head, server>>
        /\ image' = [image EXCEPT ![p] = Agreement(state[p].version, file)]
        /\ \E next \in {"post", "idle", "ended"} :
              pc' = [pc EXCEPT ![p] = next] /\ (next = "post" => file # None)
    BY <1>15 DEF ReadCard, HasLocalChanges, Goes, Ends, After
  <2>2. \A q \in Processes \ {p} : InHand(q)'
    BY <1>1, <1>2, <2>1, InHandKept DEF Pulling
  <2>3. image'[p].version = state[p].version /\ image'[p].card = file
        /\ pc'[p] \in {"post", "idle", "ended"} /\ (pc'[p] = "post" => file # None)
    BY <1>2, <2>1 DEF Agreement
  <2>4. image'[p].version \in 0..HeadVersion' /\ image'[p].card \in Contents' \cup {None}
    BY <1>1, <1>3, <1>4, <2>3 DEF TypeOK, OnRecord
  <2>5. OnRecord(head[p])'
    BY <1>1, <1>3, <2>1, RecordGrows DEF InHand, OnRecord, HeadVersion
  <2> QED
    BY <1>1, <2>1, <2>2, <2>3, <2>4, <2>5, RecordKept DEF InHand, RecordInv, Copies, Pulling
<1>16. ASSUME NEW p \in Processes, Post(p)
       PROVE  RecordInv'
  <2>1. UNCHANGED <<sidecar, state, image>>
    BY <1>16 DEF Post
  <2>2. CASE UNCHANGED head /\ \E next \in {"idle", "ended"} : pc' = [pc EXCEPT ![p] = next]
    BY <1>2, <1>5, <2>1, <2>2 DEF Plain, Copies, Pulling
  <2>3. CASE \E v \in {HeadVersion, HeadVersion'} :
             /\ head' = [head EXCEPT ![p] = Agreement(v, None)]
             /\ pc' = [pc EXCEPT ![p] = "answer"]
    <3>1. \A q \in Processes \ {p} : InHand(q)'
      BY <1>1, <1>2, <2>1, <2>3, InHandKept DEF Pulling
    <3>2. head'[p].version \in 0..HeadVersion' /\ head'[p].card = None /\ pc'[p] = "answer"
      BY <1>2, <1>4, <2>3 DEF Agreement
    <3>3. image'[p].version \in 0..HeadVersion' /\ image'[p].card \in Contents' \cup {None}
      BY <1>3, <1>4, <2>1 DEF InHand
    <3>4. OnRecord(head[p])'
      BY <3>2 DEF OnRecord
    <3> QED
      BY <1>1, <2>1, <3>1, <3>2, <3>3, <3>4, RecordKept DEF InHand, RecordInv, Copies, Pulling
  <2> QED
    BY <1>16, <2>2, <2>3 DEF Post, Goes, Ends, After
<1>17. ASSUME NEW p \in Processes, Answer(p)
       PROVE  RecordInv'
  <2>1. UNCHANGED <<head, image, history>>
        /\ \E next \in {"idle", "ended"} : pc' = [pc EXCEPT ![p] = next]
    BY <1>17 DEF Answer, Goes, Ends, After, server
  <2>2. CASE UNCHANGED <<state, sidecar>>
    BY <1>2, <1>5, <2>1, <2>2 DEF Plain, Copies, Pulling
  <2>3. CASE LET a == Agreement(head[p].version, HeadCard) IN
             state' = [state EXCEPT ![p] = a] /\ sidecar' = a
    <3>1. \A q \in Processes : InHand(q)'
      BY <1>1, <1>2, <2>1, InHandKept DEF Pulling
    <3> DEFINE a == Agreement(head[p].version, HeadCard)
    <3>2. a.version = head[p].version /\ a.card = HeadCard
      BY DEF Agreement
    <3>3. OnRecord(a)
      BY <1>1, <1>3, <3>2, HeadIsOnServer DEF InHand, OnRecord
    <3> HIDE DEF a
    <3>4. sidecar' = a /\ state'[p] = a
      BY <1>2, <2>3 DEF a
    <3>5. OnRecord(sidecar)' /\ OnRecord(state[p])'
      BY <1>1, <3>3, <3>4, RecordGrows DEF OnRecord, HeadVersion
    <3>6. \A q \in Processes \ {p} : OnRecord(state[q])'
      BY <1>1, <1>2, <2>3, RecordKept DEF Copies
    <3> QED
      BY <3>1, <3>5, <3>6 DEF RecordInv
  <2> QED
    BY <1>17, <2>2, <2>3 DEF Answer, Remember
<1>18. ASSUME NEW p \in Processes, Guard(p) \/ Digest(p)
       PROVE  RecordInv'
  <2>1. /\ UNCHANGED <<sidecar, state, head, image>>
        /\ \E next \in {"digest", "compare", "idle", "ended"} :
              pc[p] \in Pulling /\ pc' = [pc EXCEPT ![p] = next]
    BY <1>18 DEF Guard, Digest, Goes, Ends, After, Pulling
  <2> QED
    BY <1>2, <1>5, <2>1 DEF Plain, Copies, Pulling
<1>19. ASSUME NEW p \in Processes, RememberAnother(p)
       PROVE  RecordInv'
  <2>1. /\ UNCHANGED <<state, head, image>> /\ sidecar' = state[p]
        /\ \E next \in {"idle", "ended"} : pc' = [pc EXCEPT ![p] = next]
    BY <1>19 DEF RememberAnother, Goes, Ends, After
  <2> QED
    BY <1>2, <1>5, <2>1 DEF Plain, Copies, Pulling
<1> QED
  BY <1>6, <1>7, <1>8, <1>9, <1>10, <1>11, <1>12, <1>13, <1>14, <1>15, <1>16, <1>17,
     <1>18, <1>19 DEF Next

----------------------------------------------------------------------------
(* What the card on disk descends from.                                    *)

\* Once set, raced stays.
LEMMA RacedStays ==
    ASSUME TypeOK, [Next]_vars, ~ raced'
    PROVE  ~ raced
BY DEF TypeOK, Next, vars, ghosts, OpenDolphin, Save, Flush, CloseDolphin, OtherCommits, StartCommand,
       WatchOnce, PullIdleCards, Popen, Point, DolphinReturns, Kill, RememberAnother, Detail, Guard,
       Digest, Compare, Fetch, Write, RememberPulled, ReadCard, Post, Answer

\* A content still descends from what it did.
LEMMA DescentKept ==
    ASSUME Grows, NEW c \in Contents, NEW b \in cards[c]
    PROVE  b \in cards'[c]
BY DEF Grows

\* A version that may not be the head any more may be followed by anything.
LEMMA FollowKept ==
    ASSUME BaseInv, Grows, NEW v \in 0..HeadVersion, NEW content \in Contents \cup {None},
           MayFollow(v, content)
    PROVE  MayFollow(v, content)'
<1>1. HeadVersion \in Nat
  BY HeadIsOnServer DEF BaseInv
<1>2. CASE history' = history
  BY <1>2, DescentKept DEF MayFollow, HeadVersion, HeadCard
<1>3. CASE Len(history') = Len(history) + 1
  BY <1>1, <1>3 DEF MayFollow, HeadVersion
<1> QED
  BY <1>2, <1>3 DEF Grows

\* A card that descends from a version may be pushed on top of it.
LEMMA Follows ==
    ASSUME BaseInv, NEW a, IsVersion(a), NEW content \in Contents, a.card \in cards[content]
    PROVE  MayFollow(a.version, content)
BY HeadIsOnServer DEF BaseInv, IsVersion, MayFollow

\* Where the card stays and the sidecar is only copied, the card descends from what it did.
LEMMA ParentKept ==
    ASSUME BaseInv, Grows, ParentInv, UNCHANGED file, sidecar' \in Copies,
           \A q \in Processes : state'[q] \in Copies
    PROVE  /\ MayFollow(sidecar.version, file)'
           /\ \A q \in Processes : MayFollow(state[q].version, file)'
           /\ UNCHANGED dolphin => (running => file # None /\ file \in cards[memory])'
<1>1. /\ sidecar.version \in 0..HeadVersion /\ file \in Contents \cup {None}
      /\ \A q \in Processes : state[q].version \in 0..HeadVersion
      /\ running => memory \in Contents
  BY DEF BaseInv, RecordInv, OnRecord, TypeOK
<1>5. ASSUME NEW a \in Copies
      PROVE  a.version \in 0..HeadVersion /\ MayFollow(a.version, file)
  <2>1. CASE a = Unknown
    BY <2>1, UnknownFits, HeadIsOnServer DEF BaseInv, MayFollow
  <2>2. CASE a = sidecar
    BY <1>1, <2>2 DEF ParentInv
  <2>3. ASSUME NEW q \in Processes, a = state[q]
        PROVE  a.version \in 0..HeadVersion /\ MayFollow(a.version, file)
    BY <1>1, <2>3 DEF ParentInv
  <2> QED
    BY <1>5, <2>1, <2>2, <2>3 DEF Copies
<1>6. ASSUME NEW a \in Copies
      PROVE  MayFollow(a.version, file)'
  BY <1>1, <1>5, <1>6, FollowKept DEF MayFollow
<1>2. MayFollow(sidecar.version, file)'
  BY <1>6 DEF MayFollow
<1>3. ASSUME NEW q \in Processes
      PROVE  MayFollow(state[q].version, file)'
  BY <1>3, <1>6 DEF MayFollow
<1>4. UNCHANGED dolphin => (running => file # None /\ file \in cards[memory])'
  BY <1>1, DescentKept DEF ParentInv, dolphin
<1> QED
  BY <1>2, <1>3, <1>4

\* What a process that goes on, or stops, has in hand.
LEMMA HandKept ==
    ASSUME BaseInv, Grows, NEW p \in Processes, HandInv(p), UNCHANGED file, sidecar' \in Copies,
           head'[p] = head[p], image'[p] = image[p], pc'[p] \in AtWork => pc'[p] = pc[p],
           \A q \in Processes : state'[q] \in Copies
    PROVE  HandInv(p)'
<1>1. /\ file \in Contents \cup {None} /\ InHand(p)
  BY DEF BaseInv, RecordInv, TypeOK
<1>2. (pc[p] \in {"compare", "fetch", "write"} => file \in OnServer \cup {None})'
  BY RecordGrows DEF HandInv, AtWork, BaseInv
<1>3. (pc[p] = "write" => /\ sidecar.version <= image[p].version
                          /\ \A q \in Processes : state[q].version <= image[p].version)'
  <2>1. pc[p] = "write" => \A a \in Copies : a.version <= image[p].version
    BY <1>1, UnknownFits, HeadIsOnServer DEF BaseInv, HandInv, InHand, Copies
  <2> QED
    BY <2>1 DEF AtWork
<1>4. (pc[p] \in {"remember", "post", "answer"} => file # None /\ image[p].card \in cards[file])'
  BY <1>1, DescentKept DEF HandInv, AtWork
<1>5. (pc[p] = "post" => MayFollow(image[p].version, image[p].card))'
  <2> SUFFICES ASSUME pc'[p] = "post"
               PROVE  MayFollow(image[p].version, image[p].card)'
    OBVIOUS
  <2>1. MayFollow(image[p].version, image[p].card)
    BY DEF HandInv, AtWork
  <2> QED
    BY <1>1, <2>1, FollowKept DEF InHand, MayFollow
<1>6. (pc[p] = "answer" => IsVersion(Agreement(head[p].version, image[p].card)))'
  <2> SUFFICES ASSUME pc'[p] = "answer"
               PROVE  IsVersion(Agreement(head[p].version, image[p].card))'
    OBVIOUS
  <2>1. IsVersion(Agreement(head[p].version, image[p].card))
    BY DEF HandInv, AtWork
  <2> QED
    BY <2>1, RecordGrows DEF BaseInv, IsVersion, Agreement, HeadVersion
<1> QED
  BY <1>2, <1>3, <1>4, <1>5, <1>6 DEF HandInv

\* Who is not at work has nothing in hand.
LEMMA IdleHand ==
    ASSUME NEW p \in Processes, pc'[p] \notin AtWork \/ pc'[p] \in {"detail", "guard", "digest", "push"}
    PROVE  HandInv(p)'
BY DEF HandInv, AtWork

\* Whoever sets to work beside another is a race.
LEMMA AloneKept ==
    ASSUME TypeOK, Alone, [Next]_vars, ~ raced'
    PROVE  Alone'
<1>1. /\ pc \in [Processes -> Places]
      /\ "watch" \in Processes /\ "cli" \in Processes
  BY DEF TypeOK, Processes
<1>2. ASSUME \A q \in Processes : pc'[q] \in AtWork => pc[q] \in AtWork
      PROVE  Alone'
  BY <1>2 DEF Alone
<1>3. ASSUME NEW p \in Processes, NEW next, pc' = [pc EXCEPT ![p] = next],
             pc[p] \in AtWork \/ next \notin AtWork
      PROVE  Alone'
  BY <1>1, <1>2, <1>3
<1>4. ASSUME NEW p \in Processes, NEW next, pc' = [pc EXCEPT ![p] = next], ~ Busy(p)
      PROVE  Alone'
  <2>1. \A q \in Processes \ {p} : pc'[q] = pc[q] /\ pc[q] \notin AtWork
    BY <1>1, <1>4 DEF Busy, AtWork
  <2> QED
    BY <2>1 DEF Alone
<1>5. CASE UNCHANGED pc
  BY <1>2, <1>5
<1>6. ASSUME NEW c \in Commands, StartCommand(c)
      PROVE  Alone'
  <2>1. CASE c = "other"
    BY <1>1, <1>3, <1>6, <2>1 DEF StartCommand, Goes, AtWork
  <2>2. CASE c # "other"
    BY <1>1, <1>4, <1>6, <2>2 DEF StartCommand, Goes
  <2> QED
    BY <2>1, <2>2
<1>7. CASE WatchOnce \/ PullIdleCards
  BY <1>1, <1>4, <1>7 DEF WatchOnce, PullIdleCards, Goes
<1>8. CASE DolphinReturns
  BY <1>1, <1>4, <1>8 DEF DolphinReturns, Goes
<1>9. CASE Popen \/ Point
  BY <1>1, <1>3, <1>9 DEF Popen, Point, Ends, After, Goes, AtWork
<1>10. ASSUME NEW p \in Processes, Kill(p) \/ RememberAnother(p)
       PROVE  Alone'
  BY <1>3, <1>10 DEF Kill, RememberAnother, Ends, After, Goes, AtWork
<1>11. ASSUME NEW p \in Processes,
              \/ Detail(p) \/ Guard(p) \/ Digest(p) \/ Compare(p) \/ Fetch(p) \/ Write(p) \/ RememberPulled(p)
              \/ ReadCard(p) \/ Post(p) \/ Answer(p)
       PROVE  Alone'
  <2>1. pc[p] \in AtWork
    BY <1>11
       DEF Detail, Guard, Digest, Compare, Fetch, Write, RememberPulled, ReadCard, Post, Answer, AtWork
  <2>2. UNCHANGED pc \/ \E next : pc' = [pc EXCEPT ![p] = next]
    BY <1>11
       DEF Detail, Guard, Digest, Compare, Fetch, Write, RememberPulled, ReadCard, Post, Answer,
           Pulled, Ends, Goes
  <2> QED
    BY <1>3, <1>5, <2>1, <2>2
<1>12. CASE OpenDolphin \/ Save \/ Flush \/ CloseDolphin \/ OtherCommits \/ UNCHANGED vars
  BY <1>5, <1>12 DEF OpenDolphin, Save, Flush, CloseDolphin, OtherCommits, process, vars
<1> QED
  BY <1>6, <1>7, <1>8, <1>9, <1>10, <1>11, <1>12 DEF Next

\* Nothing that is pushed or pulled loses play, by the step that could.
LEMMA DescentInvKept ==
    ASSUME IInv, [Next]_vars, ~ raced'
    PROVE  ParentInv' /\ \A p \in Processes : HandInv(p)'
<1>1. /\ BaseInv /\ Grows /\ TypeOK /\ CardsInv /\ Alone /\ ParentInv
      /\ \A p \in Processes : HandInv(p) /\ InHand(p) /\ OnRecord(state[p])
  BY RacedStays, ServerGrows DEF IInv, BaseInv, RecordInv
<1>2. /\ pc \in [Processes -> Places]
      /\ DOMAIN state = Processes /\ DOMAIN head = Processes /\ DOMAIN image = Processes
      /\ "watch" \in Processes /\ "cli" \in Processes
  BY <1>1 DEF TypeOK, Processes
<1>3. BaseInv' /\ Alone'
  BY <1>1, TypesKept, RecordsKept, AloneKept DEF BaseInv, Grows
<1>4. /\ file \in Contents \cup {None} /\ (running => memory \in Contents)
      /\ HeadVersion \in Nat /\ (history = <<>> <=> HeadVersion = 0)
      /\ HeadCard \in Contents \cup {None} /\ Contents \subseteq Contents'
      /\ \A c \in Contents : c \in cards[c] /\ c # None
  BY <1>1, HeadIsOnServer DEF TypeOK, CardsInv, Grows, Contents, None
\* A process at work, and no other.
<1>5. ASSUME NEW p \in Processes, pc[p] \in AtWork, NEW next, pc' = [pc EXCEPT ![p] = next],
             HandInv(p)'
      PROVE  \A q \in Processes : HandInv(q)'
  <2>1. \A q \in Processes \ {p} : pc'[q] = pc[q] /\ pc[q] \notin AtWork
    BY <1>1, <1>2, <1>5 DEF Alone
  <2> QED
    BY <1>5, <2>1, IdleHand
\* A process that is not at work, and leaves the card alone.
<1>6. ASSUME NEW p \in Processes, NEW next, pc' = [pc EXCEPT ![p] = next],
             next \notin AtWork \/ next \in {"detail", "push"},
             UNCHANGED <<file, head, image>>, sidecar' \in Copies,
             UNCHANGED state \/ \E a \in {sidecar, Unknown} : state' = [state EXCEPT ![p] = a],
             UNCHANGED dolphin \/ StartDolphin
      PROVE  ParentInv' /\ \A q \in Processes : HandInv(q)'
  <2>1. \A q \in Processes : state'[q] \in Copies
    BY <1>2, <1>6 DEF Copies
  <2>2. HandInv(p)'
    BY <1>2, <1>6, IdleHand
  <2>3. \A q \in Processes \ {p} : HandInv(q)'
    BY <1>1, <1>2, <1>6, <2>1, HandKept
  <2>4. (running => file # None /\ file \in cards[memory])'
    <3>1. CASE UNCHANGED dolphin
      BY <1>1, <1>6, <2>1, <3>1, ParentKept
    <3>2. CASE StartDolphin
      BY <1>1, <1>4, <1>6, <3>2, DescentKept DEF StartDolphin
    <3> QED
      BY <1>6, <3>1, <3>2
  <2> QED
    BY <1>1, <1>6, <2>1, <2>2, <2>3, <2>4, ParentKept DEF ParentInv
\* A process whose step leaves the card, the sidecar and Dolphin alone.
<1>7. ASSUME NEW p \in Processes, UNCHANGED <<file, sidecar, state, dolphin>>, pc[p] \in AtWork,
             NEW next, pc' = [pc EXCEPT ![p] = next], HandInv(p)'
      PROVE  ParentInv' /\ \A q \in Processes : HandInv(q)'
  BY <1>1, <1>5, <1>7, ParentKept DEF ParentInv, Copies
<1>8. CASE UNCHANGED <<file, sidecar, dolphin, process>>
  <2>1. \A q \in Processes : HandInv(q)'
    BY <1>1, <1>8, HandKept DEF process, Copies
  <2> QED
    BY <1>1, <1>8, <2>1, ParentKept DEF ParentInv, process, Copies
<1>9. CASE OtherCommits \/ UNCHANGED vars
  BY <1>8, <1>9 DEF OtherCommits, vars
<1>10. CASE OpenDolphin \/ Save \/ CloseDolphin
  <2>1. UNCHANGED <<file, sidecar, process>>
    BY <1>10 DEF OpenDolphin, Save, CloseDolphin
  <2>2. \A q \in Processes : HandInv(q)'
    BY <1>1, <2>1, HandKept DEF process, Copies
  <2>3. (running => file # None /\ file \in cards[memory])'
    <3>1. CASE OpenDolphin
      BY <1>1, <1>4, <3>1, DescentKept DEF OpenDolphin, StartDolphin
    <3>2. CASE Save
      <4>1. /\ running /\ file # None /\ file \in cards[memory] /\ memory' = Len(cards')
            /\ cards[memory] \subseteq Contents /\ Make(cards[memory])
            /\ \A b \in cards[memory] : cards[b] \subseteq cards[memory]
        BY <1>1, <1>4, <3>2 DEF Save, ParentInv, CardsInv
      <4>2. cards'[Len(cards')] = cards[memory] \cup {Len(cards')}
        BY <1>1, <4>1, MadeDescends
      <4> QED
        BY <2>1, <4>1, <4>2
    <3>3. CASE CloseDolphin
      BY <3>3 DEF CloseDolphin
    <3> QED
      BY <1>10, <3>1, <3>2, <3>3
  <2> QED
    BY <1>1, <2>1, <2>2, <2>3, ParentKept DEF ParentInv, process, Copies
<1>11. CASE Flush
  <2>1. /\ running /\ file' = memory /\ UNCHANGED <<server, sidecar, running, memory, process>>
        /\ file # None /\ file \in cards[memory] /\ memory \in Contents
        /\ \A p \in Processes : pc[p] \notin {"compare", "fetch", "write"}
    BY <1>1, <1>4, <1>11 DEF Flush, ParentInv
  <2>2. cards[file] \subseteq cards[memory] /\ memory # None
    BY <1>1, <1>4, <2>1 DEF CardsInv
  <2>3. \A v : MayFollow(v, file) => MayFollow(v, file)'
    BY <2>1, <2>2 DEF MayFollow, HeadVersion, HeadCard, server
  <2>4. MayFollow(sidecar.version, file)' /\ \A p \in Processes : MayFollow(state[p].version, file)'
    BY <1>1, <2>1, <2>3 DEF ParentInv, process, MayFollow
  <2>5. (running => file # None /\ file \in cards[memory])'
    BY <1>4, <2>1, <2>2 DEF server
  <2>6. ASSUME NEW p \in Processes
        PROVE  HandInv(p)'
    <3>1. (pc[p] = "post" => MayFollow(image[p].version, image[p].card))'
      BY <1>1, <2>1 DEF HandInv, MayFollow, HeadVersion, HeadCard, server, process
    <3>2. (pc[p] = "answer" => IsVersion(Agreement(head[p].version, image[p].card)))'
      BY <1>1, <2>1 DEF HandInv, IsVersion, HeadVersion, server, process
    <3>3. (pc[p] \in {"remember", "post", "answer"} => file # None /\ image[p].card \in cards[file])'
      BY <1>1, <2>1, <2>2 DEF HandInv, server, process
    <3>4. pc'[p] \notin {"compare", "fetch", "write"}
      BY <2>1 DEF process
    <3> QED
      BY <3>1, <3>2, <3>3, <3>4 DEF HandInv
  <2> QED
    BY <2>4, <2>5, <2>6 DEF ParentInv
<1>12. ASSUME NEW c \in Commands, StartCommand(c)
       PROVE  ParentInv' /\ \A q \in Processes : HandInv(q)'
  BY <1>2, <1>6, <1>12 DEF StartCommand, Load, Goes, AtWork, Copies
<1>13. CASE WatchOnce \/ PullIdleCards
  BY <1>2, <1>6, <1>13 DEF WatchOnce, PullIdleCards, Goes, Copies
<1>14. CASE Popen
  BY <1>2, <1>6, <1>14 DEF Popen, Ends, After, Goes, AtWork, Copies
<1>15. CASE Point
  BY <1>2, <1>6, <1>15 DEF Point, Ends, After, Goes, AtWork, Copies
<1>16. CASE DolphinReturns
  BY <1>2, <1>6, <1>16 DEF DolphinReturns, Goes, Copies
<1>17. ASSUME NEW p \in Processes, Kill(p) \/ RememberAnother(p)
       PROVE  ParentInv' /\ \A q \in Processes : HandInv(q)'
  BY <1>6, <1>17 DEF Kill, RememberAnother, Load, Ends, After, Goes, AtWork, Copies
<1>18. ASSUME NEW p \in Processes, Detail(p)
       PROVE  ParentInv' /\ \A q \in Processes : HandInv(q)'
  <2>1. UNCHANGED <<file, sidecar, state, dolphin, image>> /\ pc[p] = "detail"
    BY <1>18 DEF Detail
  <2>2. CASE UNCHANGED pc
    <3>1. pc' = [pc EXCEPT ![p] = "detail"]
      BY <1>2, <2>1, <2>2
    <3>2. HandInv(p)'
      BY <2>1, <2>2, IdleHand
    <3> QED
      BY <1>7, <2>1, <3>1, <3>2 DEF AtWork
  <2>3. CASE \E next \in {"guard", "idle", "ended"} : pc' = [pc EXCEPT ![p] = next]
    <3>1. PICK next \in {"guard", "idle", "ended"} : pc' = [pc EXCEPT ![p] = next]
      BY <2>3
    <3>2. HandInv(p)'
      BY <1>2, <3>1, IdleHand DEF AtWork
    <3> QED
      BY <1>7, <2>1, <3>1, <3>2 DEF AtWork
  <2> QED
    BY <1>18, <2>2, <2>3 DEF Detail, Goes, Ends, After
<1>19. ASSUME NEW p \in Processes, Compare(p)
       PROVE  ParentInv' /\ \A q \in Processes : HandInv(q)'
  <2>1. /\ UNCHANGED <<server, file, dolphin, head, image>> /\ pc[p] = "compare" /\ pc[p] \in AtWork
        /\ IsVersion(head[p])
    BY <1>1, <1>19 DEF Compare, InHand, AtWork, Pulling
  <2>3. CASE file = head[p].card /\ Remember(p, head[p]) /\ Pulled(p)
    <3>1. PICK next \in {"popen", "point", "idle", "ended"} : pc' = [pc EXCEPT ![p] = next]
      BY <2>3 DEF Pulled, Ends, After, Goes
    <3>2. HandInv(p)'
      BY <1>2, <3>1, IdleHand DEF AtWork
    <3>3. file \in Contents
      BY <1>1, <2>1, <2>3, HeadIsOnServer DEF IsVersion, OnServer
    <3>4. MayFollow(head[p].version, file)
      BY <1>1, <1>4, <2>1, <2>3, <3>3, Follows
    <3>5. MayFollow(sidecar.version, file)' /\ MayFollow(state[p].version, file)'
      BY <1>2, <2>1, <2>3, <3>4 DEF Remember, MayFollow, HeadVersion, HeadCard, server
    <3>6. \A q \in Processes \ {p} : MayFollow(state[q].version, file)'
      BY <1>1, <1>2, <2>1, <2>3 DEF ParentInv, Remember, MayFollow, HeadVersion, HeadCard, server
    <3>7. (running => file # None /\ file \in cards[memory])'
      BY <1>1, <2>1 DEF ParentInv, dolphin, server
    <3> QED
      BY <1>5, <2>1, <3>1, <3>2, <3>5, <3>6, <3>7 DEF ParentInv
  <2>4. CASE file # head[p].card /\ Goes(p, "fetch") /\ UNCHANGED <<state, sidecar>>
    <3>1. pc' = [pc EXCEPT ![p] = "fetch"] /\ pc'[p] = "fetch"
      BY <1>2, <2>4 DEF Goes
    <3>2. HandInv(p)'
      BY <1>1, <2>1, <3>1 DEF HandInv, OnServer, server
    <3> QED
      BY <1>7, <2>1, <2>4, <3>1, <3>2
  <2> QED
    BY <1>19, <2>3, <2>4 DEF Compare
<1>20. ASSUME NEW p \in Processes, Fetch(p)
       PROVE  ParentInv' /\ \A q \in Processes : HandInv(q)'
  <2>1. UNCHANGED <<server, file, sidecar, state, dolphin>> /\ pc[p] = "fetch" /\ pc[p] \in AtWork
    BY <1>20 DEF Fetch, AtWork
  <2>2. CASE Ends(p)
    <3>1. PICK next \in {"idle", "ended"} : pc' = [pc EXCEPT ![p] = next]
      BY <2>2 DEF Ends, After, Goes
    <3>2. HandInv(p)'
      BY <1>2, <3>1, IdleHand DEF AtWork
    <3> QED
      BY <1>7, <2>1, <3>1, <3>2
  <2>3. CASE /\ image' = [image EXCEPT ![p] = Agreement(HeadVersion, HeadCard)]
             /\ Goes(p, "write")
    <3>1. pc' = [pc EXCEPT ![p] = "write"] /\ pc'[p] = "write"
      BY <1>2, <2>3 DEF Goes
    <3>2. image'[p].version = HeadVersion
      BY <1>2, <2>3 DEF Agreement
    <3>3. sidecar.version <= HeadVersion /\ \A q \in Processes : state[q].version <= HeadVersion
      BY <1>1, <1>4 DEF BaseInv, RecordInv, OnRecord
    <3>4. file \in OnServer \cup {None}
      BY <1>1, <2>1 DEF HandInv
    <3>5. HandInv(p)'
      BY <2>1, <3>1, <3>2, <3>3, <3>4 DEF HandInv, OnServer, server
    <3> QED
      BY <1>7, <2>1, <3>1, <3>5
  <2> QED
    BY <1>20, <2>2, <2>3 DEF Fetch
<1>21. ASSUME NEW p \in Processes, Write(p)
       PROVE  ParentInv' /\ \A q \in Processes : HandInv(q)'
  <2>1. /\ UNCHANGED <<server, sidecar, state, dolphin, image, head>> /\ file' = image[p].card
        /\ pc[p] = "write" /\ pc[p] \in AtWork /\ ~ running
        /\ pc' = [pc EXCEPT ![p] = "remember"] /\ pc'[p] = "remember"
    BY <1>2, <1>21 DEF Write, Goes, AtWork
  <2>2. /\ IsVersion(image[p]) /\ sidecar.version <= image[p].version
        /\ \A q \in Processes : state[q].version <= image[p].version
    BY <1>1, <2>1 DEF InHand, HandInv
  <2>3. image[p].card \in Contents
    BY <1>1, <2>2, HeadIsOnServer DEF IsVersion, OnServer
  <2>4. MayFollow(image[p].version, image[p].card)
    BY <1>1, <1>4, <2>2, <2>3, Follows
  <2>5. ASSUME NEW v \in 0..HeadVersion, v <= image[p].version
        PROVE  MayFollow(v, image[p].card)
    BY <1>4, <2>2, <2>4, <2>5 DEF MayFollow, IsVersion
  <2>6. MayFollow(sidecar.version, file)'
    BY <1>1, <2>1, <2>2, <2>5
       DEF BaseInv, RecordInv, OnRecord, MayFollow, HeadVersion, HeadCard, server
  <2>7. ASSUME NEW q \in Processes
        PROVE  MayFollow(state[q].version, file)'
    BY <1>1, <2>1, <2>2, <2>5, <2>7 DEF OnRecord, MayFollow, HeadVersion, HeadCard, server
  <2>8. HandInv(p)'
    BY <1>4, <2>1, <2>3 DEF HandInv, server
  <2> QED
    BY <1>5, <2>1, <2>6, <2>7, <2>8 DEF ParentInv, dolphin
<1>22. ASSUME NEW p \in Processes, RememberPulled(p)
       PROVE  ParentInv' /\ \A q \in Processes : HandInv(q)'
  <2>1. /\ UNCHANGED <<server, file, dolphin, head, image>> /\ pc[p] = "remember"
        /\ pc[p] \in AtWork /\ state' = [state EXCEPT ![p] = image[p]] /\ sidecar' = image[p]
        /\ IsVersion(image[p]) /\ file # None /\ image[p].card \in cards[file]
    BY <1>1, <1>22 DEF RememberPulled, Remember, InHand, HandInv, AtWork
  <2>2. PICK next \in {"popen", "point", "idle", "ended"} : pc' = [pc EXCEPT ![p] = next]
    BY <1>22 DEF RememberPulled, Pulled, Ends, After, Goes
  <2>3. HandInv(p)'
    BY <1>2, <2>2, IdleHand DEF AtWork
  <2>4. MayFollow(image[p].version, file)
    BY <1>1, <1>4, <2>1, Follows
  <2>5. MayFollow(sidecar.version, file)' /\ MayFollow(state[p].version, file)'
    BY <1>2, <2>1, <2>4 DEF MayFollow, HeadVersion, HeadCard, server
  <2>6. \A q \in Processes \ {p} : MayFollow(state[q].version, file)'
    BY <1>1, <1>2, <2>1 DEF ParentInv, MayFollow, HeadVersion, HeadCard, server
  <2>7. (running => file # None /\ file \in cards[memory])'
    BY <1>1, <2>1 DEF ParentInv, dolphin, server
  <2> QED
    BY <1>5, <2>1, <2>2, <2>3, <2>5, <2>6, <2>7 DEF ParentInv
<1>23. ASSUME NEW p \in Processes, ReadCard(p)
       PROVE  ParentInv' /\ \A q \in Processes : HandInv(q)'
  <2>1. UNCHANGED <<server, file, sidecar, dolphin, state, head>> /\ pc[p] = "push" /\ pc[p] \in AtWork
        /\ image' = [image EXCEPT ![p] = Agreement(state[p].version, file)]
    BY <1>23 DEF ReadCard, AtWork
  <2>2. CASE Ends(p)
    <3>1. PICK next \in {"idle", "ended"} : pc' = [pc EXCEPT ![p] = next]
      BY <2>2 DEF Ends, After, Goes
    <3>2. HandInv(p)'
      BY <1>2, <3>1, IdleHand DEF AtWork
    <3> QED
      BY <1>7, <2>1, <3>1, <3>2
  <2>3. CASE HasLocalChanges(p) /\ Goes(p, "post")
    <3>1. pc' = [pc EXCEPT ![p] = "post"] /\ pc'[p] = "post" /\ file # None
      BY <1>2, <2>3 DEF Goes, HasLocalChanges
    <3>2. image'[p].version = state[p].version /\ image'[p].card = file
      BY <1>2, <2>1 DEF Agreement
    <3>3. MayFollow(image[p].version, image[p].card)'
      BY <1>1, <2>1, <3>2 DEF ParentInv, MayFollow, HeadVersion, HeadCard, server
    <3>4. (file # None /\ image[p].card \in cards[file])'
      BY <1>4, <2>1, <3>1, <3>2 DEF server
    <3>5. HandInv(p)'
      BY <3>1, <3>3, <3>4 DEF HandInv
    <3> QED
      BY <1>7, <2>1, <3>1, <3>5
  <2> QED
    BY <1>23, <2>2, <2>3 DEF ReadCard
<1>24. ASSUME NEW p \in Processes, Post(p)
       PROVE  ParentInv' /\ \A q \in Processes : HandInv(q)'
  <2>1. /\ UNCHANGED <<cards, file, sidecar, dolphin, state, image>> /\ pc[p] = "post"
        /\ pc[p] \in AtWork /\ file # None /\ image[p].card \in cards[file]
        /\ image[p].card \in Contents /\ image[p].card # None
    BY <1>1, <1>24 DEF Post, AtWork, HandInv, InHand
  <2>2. CASE Ends(p)
    <3>1. PICK next \in {"idle", "ended"} : pc' = [pc EXCEPT ![p] = next]
      BY <2>2 DEF Ends, After, Goes
    <3>2. HandInv(p)'
      BY <1>2, <3>1, IdleHand DEF AtWork
    <3> QED
      BY <1>7, <2>1, <3>1, <3>2
  <2>3. CASE /\ \/ HeadCard = image[p].card /\ UNCHANGED history
                \/ history' = Append(history, image[p].card)
             /\ head' = [head EXCEPT ![p] = Agreement(HeadVersion', None)]
             /\ Goes(p, "answer")
    <3>1. pc' = [pc EXCEPT ![p] = "answer"] /\ pc'[p] = "answer"
      BY <1>2, <2>3 DEF Goes
    <3>2. head'[p].version = HeadVersion'
      BY <1>2, <2>3 DEF Agreement
    <3>3. HeadVersion' \in 1..HeadVersion' /\ image[p].card = history'[HeadVersion']
      <4>1. CASE HeadCard = image[p].card /\ UNCHANGED history
        BY <1>4, <2>1, <4>1 DEF HeadCard, HeadVersion
      <4>2. CASE history' = Append(history, image[p].card)
        <5>1. Len(history') = Len(history) + 1 /\ history'[Len(history')] = image[p].card
          BY <1>1, <1>4, <2>1, <4>2, VersionAdded
        <5> QED
          BY <1>4, <5>1 DEF HeadVersion
      <4> QED
        BY <2>3, <4>1, <4>2
    <3>4. IsVersion(Agreement(head[p].version, image[p].card))'
      BY <2>1, <3>2, <3>3 DEF IsVersion, Agreement
    <3>5. HandInv(p)'
      BY <2>1, <3>1, <3>4 DEF HandInv
    <3> QED
      BY <1>7, <2>1, <3>1, <3>5
  <2>4. CASE UNCHANGED history
    BY <1>24, <2>2, <2>3, <2>4 DEF Post, HeadVersion
  <2> QED
    BY <1>24, <2>2, <2>3, <2>4 DEF Post, HeadVersion
<1>25. ASSUME NEW p \in Processes, Answer(p)
       PROVE  ParentInv' /\ \A q \in Processes : HandInv(q)'
  <2>1. /\ UNCHANGED <<server, file, dolphin, head, image>> /\ pc[p] = "answer" /\ pc[p] \in AtWork
        /\ file # None /\ image[p].card \in cards[file]
        /\ IsVersion(Agreement(head[p].version, image[p].card))
    BY <1>1, <1>25 DEF Answer, HandInv, AtWork
  <2>2. PICK next \in {"idle", "ended"} : pc' = [pc EXCEPT ![p] = next]
    BY <1>25 DEF Answer, Ends, After, Goes
  <2>3. HandInv(p)'
    BY <1>2, <2>2, IdleHand DEF AtWork
  <2>4. CASE UNCHANGED <<state, sidecar>>
    BY <1>7, <2>1, <2>2, <2>3, <2>4
  <2>5. CASE Remember(p, Agreement(head[p].version, HeadCard))
    <3>1. sidecar'.version = head[p].version /\ state'[p].version = head[p].version
      BY <1>2, <2>5 DEF Remember, Agreement
    <3>2. MayFollow(head[p].version, file)
      <4> DEFINE a == Agreement(head[p].version, image[p].card)
      <4>1. a.version = head[p].version /\ a.card = image[p].card
        BY DEF Agreement
      <4> HIDE DEF a
      <4> QED
        BY <1>1, <1>4, <2>1, <4>1, Follows DEF a
    <3>3. MayFollow(sidecar.version, file)' /\ MayFollow(state[p].version, file)'
      BY <2>1, <3>1, <3>2 DEF MayFollow, HeadVersion, HeadCard, server
    <3>4. \A q \in Processes \ {p} : MayFollow(state[q].version, file)'
      BY <1>1, <1>2, <2>1, <2>5 DEF ParentInv, Remember, MayFollow, HeadVersion, HeadCard, server
    <3>5. (running => file # None /\ file \in cards[memory])'
      BY <1>1, <2>1 DEF ParentInv, dolphin, server
    <3> QED
      BY <1>5, <2>1, <2>2, <2>3, <3>3, <3>4, <3>5 DEF ParentInv
  <2> QED
    BY <1>25, <2>4, <2>5 DEF Answer
<1>26. ASSUME NEW p \in Processes, Guard(p) \/ Digest(p)
       PROVE  ParentInv' /\ \A q \in Processes : HandInv(q)'
  <2>1. /\ UNCHANGED <<server, file, sidecar, state, dolphin, head, image>>
        /\ pc[p] \in {"guard", "digest"} /\ pc[p] \in AtWork /\ IsVersion(head[p])
    BY <1>1, <1>26 DEF Guard, Digest, InHand, AtWork, Pulling
  <2>2. PICK next \in {"digest", "compare", "idle", "ended"} :
           /\ pc' = [pc EXCEPT ![p] = next]
           /\ next = "compare" => ~ HasLocalChanges(p) \/ file = head[p].card
    BY <1>26 DEF Guard, Digest, Differs, Ends, After, Goes
  <2>3. pc'[p] = next
    BY <1>2, <2>2
  <2>4. next = "compare" => file \in OnServer \cup {None}
    BY <1>1, <2>1, <2>2, HeadIsOnServer DEF HasLocalChanges, OnRecord, IsVersion, OnServer
  <2>5. HandInv(p)'
    BY <2>1, <2>3, <2>4 DEF HandInv, OnServer, server
  <2> QED
    BY <1>7, <2>1, <2>2, <2>5
<1> QED
  BY <1>9, <1>10, <1>11, <1>12, <1>13, <1>14, <1>15, <1>16, <1>17, <1>18, <1>19, <1>20, <1>21,
     <1>22, <1>23, <1>24, <1>25, <1>26 DEF Next

\* It all starts with one card, that nobody has played on since it was pushed.
LEMMA InitHolds ==
    ASSUME Init
    PROVE  IInv
<1>1. /\ cards = <<{1}>> /\ Len(cards) = 1 /\ Contents = {1} /\ cards[1] = {1}
      /\ MaxCards \in Nat /\ 1 <= MaxCards /\ MaxVersion \in Nat /\ 1 <= MaxVersion
      /\ MaxRuns \in Nat /\ MaxFailures \in Nat /\ None = 0
  BY DolphinAssumption DEF Init, Contents, None
<1>2. /\ \/ history = <<>> /\ HeadVersion = 0 /\ HeadCard = None /\ OnServer = {}
         \/ history = <<1>> /\ HeadVersion = 1 /\ HeadCard = 1 /\ OnServer = {1}
      /\ file \in {None, HeadCard}
      /\ sidecar = (IF file = None THEN Unknown ELSE Agreement(1, 1))
  BY DEF Init, HeadVersion, HeadCard, OnServer
<1>3. cards \in Seq(SUBSET (1..MaxCards)) /\ history \in Seq(Contents)
  <2>1. {1} \in SUBSET (1..MaxCards) /\ 1 \in Contents
    BY <1>1
  <2>2. <<{1}>> \in Seq(SUBSET (1..MaxCards))
    BY <2>1
  <2>3. <<>> \in Seq(Contents) /\ <<1>> \in Seq(Contents)
    BY <2>1
  <2> QED
    BY <1>1, <1>2, <2>2, <2>3
<1>4. /\ sidecar \in Agreements /\ OnRecord(sidecar) /\ Unknown \in Agreements /\ OnRecord(Unknown)
      /\ Unknown.card = None /\ Unknown.version = 0
  BY <1>1, <1>2 DEF Unknown, Agreement, Agreements, OnRecord
<1>5. TypeOK
  <2>1. Len(cards) <= MaxCards /\ Len(history) <= MaxVersion
    BY <1>1, <1>2 DEF HeadVersion
  <2>2. FileOK
    BY <1>1, <1>2, <1>4 DEF FileOK
  <2>4. DolphinOK
    BY DEF Init, DolphinOK
  <2>5. GhostOK
    <3>1. raced \in BOOLEAN
      BY DEF Init
    <3>2. runs \in 0..MaxRuns /\ failures \in 0..MaxFailures
      BY <1>1 DEF Init
    <3> QED
      BY <3>1, <3>2 DEF GhostOK
  <2>3. ProcessOK
    BY <1>4 DEF Init, ProcessOK
  <2> QED
    BY <1>3, <2>1, <2>2, <2>3, <2>4, <2>5, TypesInGroups
<1>6. CardsInv
  BY <1>1 DEF CardsInv
<1>7. RecordInv
  BY <1>1, <1>2, <1>4 DEF Init, RecordInv, InHand, Processes, Pulling
<1>8. Alone /\ \A p \in Processes : HandInv(p)
  BY DEF Init, Alone, HandInv, AtWork
<1>9. \A v : MayFollow(v, file)
  BY <1>1, <1>2 DEF MayFollow
<1>10. ParentInv
  BY <1>9 DEF Init, ParentInv
<1> QED
  BY <1>5, <1>6, <1>7, <1>8, <1>10 DEF IInv, BaseInv

----------------------------------------------------------------------------
(* Theorems.                                                               *)

\* Whatever happens, everything that is remembered is on record, and as long as there was no
\* race what may be pushed descends from what it is pushed on.
THEOREM DolphinInvariance == Spec => []IInv
<1>1. IInv /\ [Next]_vars => IInv'
  <2> SUFFICES ASSUME IInv, [Next]_vars
               PROVE  IInv'
    OBVIOUS
  <2>1. BaseInv'
    BY TypesKept, RecordsKept, ServerGrows DEF IInv, BaseInv, Grows
  <2>2. ASSUME ~ raced'
        PROVE  (Alone /\ ParentInv /\ \A p \in Processes : HandInv(p))'
    BY <2>2, RacedStays, AloneKept, DescentInvKept DEF IInv, BaseInv
  <2> QED
    BY <2>1, <2>2 DEF IInv
<1> QED
  BY InitHolds, <1>1, PTL DEF Spec

\* Every variable keeps its type: no content, version or digest is made up.
THEOREM DolphinTypes == Spec => []TypeOK
<1>1. IInv => TypeOK
  BY DEF IInv, BaseInv
<1> QED
  BY <1>1, DolphinInvariance, PTL

\* Unless a pull met Dolphin or another process, no push overwrites a version that it does not
\* descend from, and no pull play that the server has not got.
THEOREM PlayIsNotLost == Spec => NothingOverwritten
<1>1. IInv /\ [Next]_vars => [~ raced' => \A p \in Processes : Descends(p) /\ KeepsPlay(p)]_vars
  <2> SUFFICES ASSUME IInv, [Next]_vars, ~ raced', NEW p \in Processes
               PROVE  Descends(p) /\ KeepsPlay(p)
    OBVIOUS
  <2>1. HandInv(p) /\ InHand(p) /\ BaseInv /\ TypeOK
    BY RacedStays DEF IInv, BaseInv, RecordInv
  <2>2. KeepsPlay(p)
    BY <2>1 DEF KeepsPlay, HandInv
  <2>3. ASSUME pc[p] = "post", pc'[p] # "post", history' # history, history # <<>>
        PROVE  HeadCard \in cards[image[p].card]
    <3>1. Post(p)
      BY <2>1, <2>3 DEF TypeOK, Next, vars, server, process, OpenDolphin, Save, Flush, CloseDolphin,
         OtherCommits, StartCommand, WatchOnce, PullIdleCards, Popen, Point, DolphinReturns, Kill,
         RememberAnother, Detail, Guard, Digest, Compare, Fetch, Write, RememberPulled, ReadCard, Post,
         Answer, Goes, Ends
    <3>2. image[p].version = HeadVersion
      BY <2>3, <3>1 DEF Post
    <3> QED
      BY <2>1, <2>3, <3>2, HeadIsOnServer DEF HandInv, InHand, MayFollow
  <2> QED
    BY <2>2, <2>3 DEF Descends
<1> QED
  BY <1>1, DolphinInvariance, PTL DEF Spec, NothingOverwritten
=============================================================================
