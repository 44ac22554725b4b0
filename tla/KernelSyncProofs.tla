-------------------------- MODULE KernelSyncProofs --------------------------
(***************************************************************************)
(* Proofs about KernelSync: no save is swallowed, no version of others is  *)
(* written over and the handoff is owed until it is written, for every     *)
(* size of card, number of writes and failures, and whatever others push.  *)
(***************************************************************************)
EXTENDS KernelSync, TLAPS, FiniteSetTheorems, SequenceTheorems

----------------------------------------------------------------------------
(* Histories only grow.                                                    *)

\* What Append does to a history.
LEMMA Appended ==
    ASSUME VersionTypes, NEW i \in Image
    PROVE  /\ Append(history, i) \in Seq(Image)
           /\ Len(history) \in Nat
           /\ Len(Append(history, i)) = Len(history) + 1
           /\ DOMAIN Append(history, i) = 1..Len(history) + 1
           /\ DOMAIN history = 1..Len(history)
           /\ Append(history, i)[Len(history) + 1] = i
           /\ \A v \in DOMAIN history : Append(history, i)[v] = history[v]
BY DEF VersionTypes

\* Others append an image too.
LEMMA OtherImage ==
    ASSUME VersionTypes, OtherCommits
    PROVE  \E i \in Image : history' = Append(history, i)
<1>1. [b \in Blocks |-> -10 - Len(history)] \in Image
  BY DEF VersionTypes, Image
<1>2. \A v \in 1..Len(history) - 1 : history[v] \in Image
  BY DEF VersionTypes
<1>3. CASE history' = Append(history, [b \in Blocks |-> -10 - Len(history)])
  BY <1>1, <1>3
<1>4. CASE \E v \in 1..Len(history) - 1 : history' = Append(history, history[v])
  BY <1>2, <1>4
<1> QED
  BY <1>3, <1>4 DEF OtherCommits

\* Whatever is appended, a version that was there is there, and the same.
LEMMA Grows ==
    ASSUME VersionTypes, NEW i \in Image, history' = Append(history, i)
    PROVE  /\ history' \in Seq(Image)
           /\ Len(history) \in Nat
           /\ Len(history') = Len(history) + 1
           /\ DOMAIN history = 1..Len(history)
           /\ DOMAIN history' = 1..Len(history) + 1
           /\ history'[Len(history) + 1] = i
           /\ \A v \in DOMAIN history : history'[v] = history[v]
BY Appended

\* The three outcomes of a decision.
Refused(head) ==
    /\ answer' \in {[code |-> "checksum", version |-> 0], [code |-> "conflict", version |-> head]}
    /\ UNCHANGED <<history, ours, parent, runtime>>

Repeated(head) ==
    /\ head \in DOMAIN history /\ history[head] = digest
    /\ answer' = [code |-> "ok", version |-> head]
    /\ ours' = ours \cup {head}
    /\ UNCHANGED <<history, parent, runtime>>

Committed ==
    /\ digest \in Image
    /\ parent = Len(history)
    /\ history' = Append(history, digest)
    /\ answer' = [code |-> "ok", version |-> Len(history) + 1]
    /\ ours' = ours \cup {Len(history) + 1}
    /\ UNCHANGED <<parent, runtime>>

\* A decision has one of these outcomes.
LEMMA Decisions ==
    ASSUME TypeOK, Decide
    PROVE  Refused(Len(history)) \/ Repeated(Len(history)) \/ Committed
<1>1. digest \in Image
  BY DEF TypeOK, PushTypes, Image
<1>2. history # <<>> => Len(history) \in DOMAIN history
  BY DEF TypeOK, VersionTypes
<1> QED
  BY <1>1, <1>2 DEF Decide, Answer, Refused, Repeated, Committed, slot, handoff

----------------------------------------------------------------------------
(* Types.                                                                  *)

\* A failure is counted within its bound.
LEMMA FailsTypes ==
    ASSUME CardTypes, Fails
    PROVE  failures' \in 0..MaxFailures
BY KernelAssumption DEF CardTypes, Fails

\* The locals of a push that returns have their types.
LEMMA ReturnTypes ==
    ASSUME Return
    PROVE  /\ pc' = "poll"
           /\ at' \in 1..N + 1 /\ marked' \subseteq Blocks /\ left' \subseteq Blocks
           /\ digest' \in [Blocks -> Int] /\ buffer' \in [Blocks -> Int]
           /\ \A n \in Nat : answer' \in [code : Codes, version : 0..n]
BY KernelAssumption DEF Return, Image, NoImage, NoAnswer, Codes, Blocks

\* The head is a number.
LEMMA HeadIsNat ==
    ASSUME VersionTypes
    PROVE  Len(history) \in Nat
BY DEF VersionTypes

\* Versions stay versions of the server.
LEMMA VersionTypesKept ==
    ASSUME TypeOK, PushedHolds, AnswerHolds, Next
    PROVE  VersionTypes'
<1> USE DEF TypeOK, card, slot, handoff, push
<1>1. ASSUME EstablishLineage PROVE VersionTypes'
  <2>1. Len(history) \in Nat /\ 0 \in 0..Len(history)
    BY DEF VersionTypes
  <2> QED
    BY <1>1, <2>1 DEF EstablishLineage, VersionTypes, Begin
<1>2. ASSUME Decide PROVE VersionTypes'
  <2>1. Len(history) \in Nat /\ 0 \in 0..Len(history) /\ Len(history) \in 0..Len(history)
    BY DEF VersionTypes
  <2>2. CASE Refused(Len(history))
    <3>1. answer'.code \in Codes /\ answer'.version \in 0..Len(history)
      BY <2>1, <2>2 DEF Refused, Codes
    <3> QED
      BY <2>2, <3>1 DEF Refused, VersionTypes
  <2>3. CASE Repeated(Len(history))
    <3>1. answer' \in [code : Codes, version : 0..Len(history)]
      BY <2>1, <2>3 DEF Repeated, Codes
    <3> QED
      BY <2>1, <2>3, <3>1 DEF Repeated, VersionTypes
  <2>4. CASE Committed
    <3>1. /\ history' \in Seq(Image)
          /\ Len(history') = Len(history) + 1
      BY <2>4, Grows DEF Committed
    <3>2. ours' \subseteq 0..Len(history')
      <4>1. ours \subseteq 0..Len(history) /\ ours' = ours \cup {Len(history) + 1}
        BY <2>4 DEF Committed, VersionTypes
      <4>2. \A v \in ours' : v \in 0..Len(history) + 1
        BY <2>1, <4>1
      <4> QED
        BY <3>1, <4>2
    <3>3. answer' \in [code : Codes, version : 0..Len(history')]
      BY <2>1, <2>4, <3>1 DEF Committed, Codes
    <3>4. parent' \in 0..Len(history') /\ runtime' \in {None} \cup 1..Len(history')
      BY <2>1, <2>4, <3>1 DEF Committed, VersionTypes
    <3> QED
      BY <3>1, <3>2, <3>3, <3>4 DEF VersionTypes
  <2> QED
    BY <1>2, <2>2, <2>3, <2>4, Decisions
<1>3. ASSUME AskHead PROVE VersionTypes'
  <2>1. Len(history) \in Nat /\ DOMAIN history = 1..Len(history)
    BY DEF VersionTypes
  <2>2. CASE Return
    BY <1>3, <2>1, <2>2, ReturnTypes DEF AskHead, VersionTypes, Answer, Codes
  <2>3. ASSUME Len(history) = parent + 1, Answer("ok", Len(history)),
               ours' = ours \/ ours' = ours \cup {parent + 1}
        PROVE  VersionTypes'
    <3>1. ours' \subseteq 0..Len(history)
      <4>1. ours \subseteq 0..Len(history) /\ parent + 1 \in 0..Len(history)
        BY <2>1, <2>3 DEF VersionTypes
      <4> QED
        BY <2>3, <4>1
    <3>2. answer' \in [code : Codes, version : 0..Len(history)]
      BY <2>1, <2>3 DEF Answer, Codes
    <3>3. UNCHANGED <<history, parent, runtime>>
      BY <1>3 DEF AskHead
    <3> QED
      BY <3>1, <3>2, <3>3 DEF VersionTypes
  <2> QED
    BY <1>3, <2>2, <2>3 DEF AskHead
<1>4. ASSUME Owe PROVE VersionTypes'
  BY <1>4, ReturnTypes DEF Owe, VersionTypes
<1>5. ASSUME OtherCommits PROVE VersionTypes'
  <2>1. PICK i \in Image : history' = Append(history, i)
    BY <1>5, OtherImage
  <2>2. UNCHANGED <<ours, parent, runtime, answer>>
    BY <1>5 DEF OtherCommits
  <2> QED
    BY <2>1, <2>2, Grows DEF VersionTypes
<1>6. ASSUME NEW b \in Blocks, GameWrite(b) PROVE VersionTypes'
  BY <1>6 DEF VersionTypes, TypeOK, PushTypes, PushedHolds, AnswerHolds, Codes, GameWrite,
     Playing
<1>7. ASSUME StartPush PROVE VersionTypes'
  BY <1>7 DEF VersionTypes, TypeOK, PushTypes, PushedHolds, AnswerHolds, Codes, StartPush,
     Begin, ClearDirty, ShouldPush
<1>8. ASSUME NEW b \in Blocks, SendBlock(b) PROVE VersionTypes'
  BY <1>8 DEF VersionTypes, TypeOK, PushTypes, PushedHolds, AnswerHolds, Codes, SendBlock
<1>9. ASSUME Settle PROVE VersionTypes'
  BY <1>9 DEF VersionTypes, TypeOK, PushTypes, PushedHolds, AnswerHolds, Codes, Settle,
     SettleOn
<1>10. ASSUME CardSaved PROVE VersionTypes'
  BY <1>10 DEF VersionTypes, TypeOK, PushTypes, PushedHolds, AnswerHolds, Codes,
     CardSaved, TakeHandoff, workerRunning
<1>11. ASSUME Poll PROVE VersionTypes'
  BY <1>11 DEF VersionTypes, TypeOK, PushTypes, PushedHolds, AnswerHolds, Codes, Poll,
     TakeHandoff
<1>12. ASSUME WriteHandoff PROVE VersionTypes'
  BY <1>12 DEF VersionTypes, TypeOK, PushTypes, PushedHolds, AnswerHolds, Codes,
     WriteHandoff
<1>13. ASSUME CloseHandoff PROVE VersionTypes'
  BY <1>13 DEF VersionTypes, TypeOK, PushTypes, PushedHolds, AnswerHolds, Codes,
     CloseHandoff, Close
<1>14. ASSUME ScanBlock PROVE VersionTypes'
  BY <1>14 DEF VersionTypes, TypeOK, PushTypes, PushedHolds, AnswerHolds, Codes, ScanBlock
<1>15. ASSUME EndScan PROVE VersionTypes'
  BY <1>15, ReturnTypes, HeadIsNat DEF EndScan, VersionTypes, Halt, Rearm
<1>16. ASSUME HashBlock PROVE VersionTypes'
  BY <1>16 DEF VersionTypes, TypeOK, PushTypes, PushedHolds, AnswerHolds, Codes, HashBlock
<1>17. ASSUME OpenTransfer PROVE VersionTypes'
  BY <1>17 DEF VersionTypes, TypeOK, PushTypes, PushedHolds, AnswerHolds, Codes,
     OpenTransfer
<1>18. ASSUME Receive PROVE VersionTypes'
  BY <1>18, ReturnTypes, HeadIsNat DEF Receive, VersionTypes, Halt, Rearm
<1>19. ASSUME Fail PROVE VersionTypes'
  BY <1>19, ReturnTypes, HeadIsNat DEF Fail, VersionTypes, Halt, Rearm
<1>20. ASSUME Shutdown \/ FinishShutdown \/ SwitchOff \/ Connect \/ EndWorker PROVE VersionTypes'
  BY <1>20 DEF VersionTypes, Shutdown, FinishShutdown, TakeHandoff, SwitchOff, Connect,
     EndWorker
<1> QED
  BY <1>1, <1>2, <1>3, <1>4, <1>5, <1>6, <1>7, <1>8, <1>9, <1>10, <1>11, <1>12, <1>13,
     <1>14, <1>15, <1>16, <1>17, <1>18, <1>19, <1>20 DEF Next, Worker

\* The card stays a card, and flags stay flags.
LEMMA CardTypesKept ==
    ASSUME TypeOK, Next
    PROVE  CardTypes'
<1> USE DEF TypeOK, card, slot, handoff, push
<1>1. ASSUME NEW b \in Blocks, GameWrite(b) PROVE CardTypes'
  <2>1. Cardinality(past) \in Int
    BY FS_CardinalityType DEF CardTypes
  <2>2. ram' \in Image
    BY <1>1, <2>1 DEF GameWrite, CardTypes, Image
  <2>3. IsFiniteSet(past')
    BY <1>1, FS_AddElement DEF GameWrite, CardTypes
  <2> QED
    BY <1>1, <2>2, <2>3 DEF GameWrite, CardTypes
<1>2. ASSUME EstablishLineage PROVE CardTypes'
  BY <1>2, FailsTypes DEF EstablishLineage, CardTypes, Begin, ClearDirty
<1>3. ASSUME EndScan PROVE CardTypes'
  BY <1>3, FailsTypes DEF EndScan, CardTypes, Return, Rearm
<1>4. ASSUME Fail PROVE CardTypes'
  BY <1>4, FailsTypes DEF Fail, CardTypes, Return, Rearm
<1>5. ASSUME AskHead PROVE CardTypes'
  BY <1>5, FailsTypes DEF AskHead, CardTypes, Return, Rearm
<1>6. ASSUME StartPush PROVE CardTypes'
  BY <1>6 DEF CardTypes, StartPush, Begin, ClearDirty, ShouldPush
<1>7. ASSUME NEW b \in Blocks, SendBlock(b) PROVE CardTypes'
  BY <1>7 DEF CardTypes, SendBlock
<1>8. ASSUME Decide PROVE CardTypes'
  BY <1>8 DEF CardTypes, Decide, Answer
<1>9. ASSUME Receive PROVE CardTypes'
  BY <1>9 DEF CardTypes, Receive, Halt, Return, Rearm
<1>10. ASSUME OtherCommits PROVE CardTypes'
  BY <1>10 DEF CardTypes, OtherCommits
<1>11. ASSUME CardSaved \/ Poll \/ WriteHandoff \/ CloseHandoff PROVE CardTypes'
  BY <1>11, FailsTypes DEF CardTypes, CardSaved, TakeHandoff, workerRunning, Poll, WriteHandoff,
     CloseHandoff, Close
<1>12. ASSUME Shutdown \/ FinishShutdown \/ SwitchOff \/ Connect \/ EndWorker PROVE CardTypes'
  BY <1>12, FailsTypes DEF CardTypes, Shutdown, FinishShutdown, TakeHandoff, SwitchOff, Connect,
     EndWorker
<1>13. ASSUME ScanBlock \/ HashBlock \/ OpenTransfer PROVE CardTypes'
  BY <1>13 DEF CardTypes, ScanBlock, HashBlock, OpenTransfer
<1>14. ASSUME Settle \/ Owe PROVE CardTypes'
  BY <1>14 DEF CardTypes, Settle, SettleOn, Owe, Return
<1> QED
  BY <1>1, <1>2, <1>3, <1>4, <1>5, <1>6, <1>7, <1>8, <1>9, <1>10, <1>11, <1>12, <1>13,
     <1>14 DEF Next, Worker

\* The locals of a push keep their types.
LEMMA PushTypesKept ==
    ASSUME TypeOK, PushedHolds, Next
    PROVE  PushTypes'
<1> USE DEF TypeOK, card, slot, handoff, push
<1>1. ASSUME ScanBlock PROVE PushTypes'
  <2>1. at \in Blocks /\ at + 1 \in 1..N + 1 /\ ram \in [Blocks -> Int]
    BY <1>1, KernelAssumption DEF ScanBlock, PushTypes, Blocks, CardTypes, Image
  <2>2. table' \in [Blocks -> Int]
    BY <1>1, <2>1 DEF ScanBlock, PushTypes
  <2>3. marked' \subseteq Blocks
    BY <1>1, <2>1 DEF ScanBlock, PushTypes
  <2> QED
    BY <1>1, <2>1, <2>2, <2>3 DEF ScanBlock, PushTypes
<1>2. ASSUME EndScan PROVE PushTypes'
  <2>1. 1 \in 1..N + 1
    BY KernelAssumption
  <2>2. CASE Return
    BY <1>2, <2>2, ReturnTypes DEF EndScan, PushTypes
  <2>3. CASE pc' = "digest" /\ at' = 1 /\ UNCHANGED <<marked, digest, buffer, left>>
    BY <1>2, <2>1, <2>3 DEF EndScan, PushTypes
  <2> QED
    BY <1>2, <2>2, <2>3 DEF EndScan
<1>3. ASSUME HashBlock PROVE PushTypes'
  <2>1. at \in Blocks /\ at + 1 \in 1..N + 1 /\ ram \in [Blocks -> Int]
    BY <1>3, KernelAssumption DEF HashBlock, PushTypes, Blocks, CardTypes, Image
  <2>2. digest' \in [Blocks -> Int]
    BY <1>3, <2>1 DEF HashBlock, PushTypes
  <2> QED
    BY <1>3, <2>1, <2>2 DEF HashBlock, PushTypes
<1>4. ASSUME OpenTransfer PROVE PushTypes'
  <2>1. NoImage \in [Blocks -> Int]
    BY DEF NoImage
  <2>2. delta => history[parent] \in [Blocks -> Int]
    BY <1>4 DEF OpenTransfer, PushedHolds, VersionTypes, Image
  <2> QED
    BY <1>4, <2>1, <2>2 DEF OpenTransfer, PushTypes
<1>5. ASSUME NEW b \in Blocks, SendBlock(b) PROVE PushTypes'
  BY <1>5 DEF SendBlock, PushTypes, CardTypes, Image
<1>6. ASSUME Receive PROVE PushTypes'
  <2>1. 1 \in 1..N + 1
    BY KernelAssumption
  <2>2. CASE Return
    BY <1>6, <2>2, ReturnTypes DEF Receive, PushTypes
  <2>3. CASE pc' = "settle" /\ UNCHANGED push
    BY <1>6, <2>3 DEF Receive, PushTypes
  <2>4. CASE pc' = "digest" /\ at' = 1 /\ UNCHANGED <<marked, digest, buffer, left>>
    BY <1>6, <2>1, <2>4 DEF Receive, PushTypes
  <2> QED
    BY <1>6, <2>2, <2>3, <2>4 DEF Receive
<1>7. ASSUME Fail PROVE PushTypes'
  BY <1>7, ReturnTypes DEF Fail, PushTypes, workerBusy
<1>8. ASSUME AskHead PROVE PushTypes'
  BY <1>8, ReturnTypes DEF AskHead, PushTypes
<1>9. ASSUME NEW b \in Blocks, GameWrite(b) PROVE PushTypes'
  BY <1>9 DEF PushTypes, GameWrite, Playing
<1>10. ASSUME Decide PROVE PushTypes'
  BY <1>10 DEF PushTypes, Decide, Answer
<1>11. ASSUME OtherCommits PROVE PushTypes'
  BY <1>11 DEF PushTypes, OtherCommits
<1>12. ASSUME Settle PROVE PushTypes'
  BY <1>12 DEF PushTypes, Settle, SettleOn
<1>13. ASSUME Owe PROVE PushTypes'
  BY <1>13, ReturnTypes DEF Owe, PushTypes
<1>14. ASSUME CardSaved \/ Poll \/ WriteHandoff \/ CloseHandoff PROVE PushTypes'
  BY <1>14 DEF PushTypes, CardSaved, TakeHandoff, workerRunning, Poll, WriteHandoff,
     CloseHandoff, Close
<1>15. ASSUME Shutdown \/ FinishShutdown \/ SwitchOff \/ Connect \/ EndWorker PROVE PushTypes'
  BY <1>15 DEF PushTypes, Shutdown, FinishShutdown, TakeHandoff, SwitchOff, Connect,
     EndWorker
<1>16. ASSUME EstablishLineage \/ StartPush PROVE PushTypes'
  BY <1>16 DEF PushTypes, EstablishLineage, Begin, ClearDirty, StartPush, ShouldPush
<1> QED
  BY <1>1, <1>2, <1>3, <1>4, <1>5, <1>6, <1>7, <1>8, <1>9, <1>10, <1>11, <1>12, <1>13,
     <1>14, <1>15, <1>16 DEF Next, Worker

----------------------------------------------------------------------------
(* The parts of the invariant.                                             *)

\* Nothing becomes owed, nor a delta possible, but by a confirmed push or the state file.
LEMMA PushedKept ==
    ASSUME TypeOK, PushedHolds, AnswerHolds, Next
    PROVE  PushedHolds'
<1> USE DEF card, slot, handoff, push
<1>1. ASSUME Settle PROVE PushedHolds'
  <2>1. answer.version \in DOMAIN history
    BY <1>1 DEF Settle, SettleOn, AnswerHolds
  <2>2. lineage'
    BY <1>1 DEF Settle, SettleOn, TypeOK, PushTypes
  <2> QED
    BY <1>1, <2>1, <2>2 DEF Settle, SettleOn, PushedHolds
<1>2. ASSUME Decide PROVE PushedHolds'
  BY <1>2, Decisions, Grows DEF Decide, PushedHolds, TypeOK, Committed, Repeated, Refused
<1>3. ASSUME OtherCommits PROVE PushedHolds'
  BY <1>3, OtherImage, Grows DEF OtherCommits, PushedHolds, TypeOK
<1>4. ASSUME EstablishLineage PROVE PushedHolds'
  BY <1>4 DEF EstablishLineage, PushedHolds, Begin
<1>5. ASSUME EndScan PROVE PushedHolds'
  BY <1>5 DEF EndScan, PushedHolds, Return
<1>6. ASSUME Receive PROVE PushedHolds'
  BY <1>6 DEF Receive, PushedHolds, Return, Halt
<1>7. ASSUME AskHead PROVE PushedHolds'
  BY <1>7 DEF AskHead, PushedHolds, Return
<1>8. ASSUME Owe PROVE PushedHolds'
  BY <1>8 DEF Owe, PushedHolds, Return
<1>9. ASSUME Fail PROVE PushedHolds'
  BY <1>9 DEF Fail, PushedHolds, Return
<1>10. ASSUME NEW b \in Blocks, GameWrite(b) PROVE PushedHolds'
  BY <1>10 DEF PushedHolds, GameWrite, Playing
<1>11. ASSUME StartPush PROVE PushedHolds'
  BY <1>11 DEF PushedHolds, StartPush, Begin, ClearDirty, ShouldPush
<1>12. ASSUME NEW b \in Blocks, SendBlock(b) PROVE PushedHolds'
  BY <1>12 DEF PushedHolds, SendBlock
<1>13. ASSUME CardSaved \/ Poll \/ WriteHandoff \/ CloseHandoff PROVE PushedHolds'
  BY <1>13 DEF PushedHolds, CardSaved, TakeHandoff, workerRunning, Poll, WriteHandoff,
     CloseHandoff, Close
<1>14. ASSUME Shutdown \/ FinishShutdown \/ SwitchOff \/ Connect \/ EndWorker PROVE PushedHolds'
  BY <1>14 DEF PushedHolds, Shutdown, FinishShutdown, TakeHandoff, SwitchOff, Connect,
     EndWorker
<1>15. ASSUME ScanBlock \/ HashBlock \/ OpenTransfer PROVE PushedHolds'
  BY <1>15 DEF PushedHolds, ScanBlock, HashBlock, OpenTransfer
<1> QED
  BY <1>1, <1>2, <1>3, <1>4, <1>5, <1>6, <1>7, <1>8, <1>9, <1>10, <1>11, <1>12, <1>13,
     <1>14, <1>15 DEF Next, Worker

\* The game changes the card under the worker only with a save to come.
LEMMA ReadKept ==
    ASSUME TypeOK, ReadHolds, Next
    PROVE  ReadHolds'
<1> USE DEF card, slot, handoff, push
<1>1. ASSUME EndScan PROVE ReadHolds'
  <2>1. CASE pc' = "poll"
    BY <2>1 DEF ReadHolds
  <2>2. CASE pc' = "digest" /\ at' = 1
    BY <2>2 DEF ReadHolds, Blocks
  <2> QED
    BY <1>1, <2>1, <2>2 DEF EndScan, Return
<1>2. ASSUME HashBlock PROVE ReadHolds'
  <2>1. at \in Blocks /\ pc = "digest" /\ pc' = "digest" /\ at' = at + 1
    BY <1>2, KernelAssumption DEF HashBlock, TypeOK, PushTypes, Blocks
  <2>2. \A b \in Blocks : b < at + 1 => b < at \/ b = at
    BY <2>1 DEF Blocks
  <2>3. digest' = [digest EXCEPT ![at] = ram[at]] /\ digest \in [Blocks -> Int]
    BY <1>2 DEF HashBlock, TypeOK, PushTypes
  <2>4. ASSUME ~ Owed, NEW b \in Blocks, b < at + 1 PROVE digest'[b] = ram[b]
    <3>1. CASE b = at
      BY <2>1, <2>3, <3>1
    <3>2. CASE b # at /\ b < at
      BY <2>1, <2>3, <2>4, <3>2 DEF ReadHolds
    <3> QED
      BY <2>2, <2>4, <3>1, <3>2
  <2> QED
    BY <1>2, <2>1, <2>4 DEF HashBlock, ReadHolds, Owed
<1>3. ASSUME OpenTransfer PROVE ReadHolds'
  <2>1. ASSUME ~ Owed PROVE digest = ram
    <3>1. \A b \in Blocks : b < at
      BY <1>3, KernelAssumption DEF OpenTransfer, TypeOK, PushTypes, Blocks
    <3>2. digest \in [Blocks -> Int] /\ ram \in [Blocks -> Int]
      BY DEF TypeOK, PushTypes, CardTypes, Image
    <3> QED
      BY <1>3, <2>1, <3>1, <3>2 DEF OpenTransfer, ReadHolds
  <2> QED
    BY <1>3, <2>1 DEF OpenTransfer, ReadHolds, Owed
<1>4. ASSUME Receive PROVE ReadHolds'
  <2>1. CASE pc' = "poll"
    BY <2>1 DEF ReadHolds
  <2>2. CASE pc' = "digest" /\ at' = 1
    BY <2>2 DEF ReadHolds, Blocks
  <2>3. CASE pc' = "settle" /\ UNCHANGED <<dirty, digest>>
    BY <1>4, <2>3 DEF Receive, ReadHolds, Owed
  <2> QED
    BY <1>4, <2>1, <2>2, <2>3 DEF Receive, Return
<1>5. ASSUME NEW b \in Blocks, GameWrite(b) PROVE ReadHolds'
  BY <1>5 DEF ReadHolds, Owed, GameWrite, Playing
<1>6. ASSUME ScanBlock PROVE ReadHolds'
  BY <1>6 DEF ReadHolds, Owed, ScanBlock
<1>7. ASSUME NEW b \in Blocks, SendBlock(b) PROVE ReadHolds'
  BY <1>7 DEF ReadHolds, Owed, SendBlock
<1>8. ASSUME Decide PROVE ReadHolds'
  BY <1>8 DEF ReadHolds, Owed, Decide, Answer
<1>9. ASSUME Fail PROVE ReadHolds'
  BY <1>9 DEF ReadHolds, Owed, Fail, workerBusy, Return, Rearm
<1>10. ASSUME AskHead PROVE ReadHolds'
  BY <1>10 DEF ReadHolds, Owed, AskHead, Return, Rearm, Answer
<1>11. ASSUME OtherCommits PROVE ReadHolds'
  BY <1>11 DEF ReadHolds, Owed, OtherCommits
<1>12. ASSUME CardSaved \/ Poll \/ WriteHandoff \/ CloseHandoff PROVE ReadHolds'
  BY <1>12 DEF ReadHolds, Owed, CardSaved, TakeHandoff, workerRunning, Poll, WriteHandoff,
     CloseHandoff, Close
<1>13. ASSUME Shutdown \/ FinishShutdown \/ SwitchOff \/ Connect \/ EndWorker PROVE ReadHolds'
  BY <1>13 DEF ReadHolds, Owed, Shutdown, FinishShutdown, TakeHandoff, SwitchOff, Connect,
     EndWorker
<1>14. ASSUME EstablishLineage \/ StartPush PROVE ReadHolds'
  BY <1>14 DEF ReadHolds, Owed, EstablishLineage, Begin, ClearDirty, StartPush, ShouldPush
<1>15. ASSUME Settle \/ Owe PROVE ReadHolds'
  BY <1>15 DEF ReadHolds, Owed, Settle, SettleOn, Owe, Return
<1> QED
  BY <1>1, <1>2, <1>3, <1>4, <1>5, <1>6, <1>7, <1>8, <1>9, <1>10, <1>11, <1>12, <1>13,
     <1>14, <1>15 DEF Next, Worker

\* An answer stays true while others push.
LEMMA AnswerKept ==
    ASSUME TypeOK, PushedHolds, AnswerHolds, Next
    PROVE  AnswerHolds'
<1> USE DEF card, slot, handoff, push
<1>1. ASSUME Decide PROVE AnswerHolds'
  <2>1. pc = "send" /\ pc' = "answer" /\ UNCHANGED <<digest, guessed>>
    BY <1>1 DEF Decide
  <2>2. CASE Refused(Len(history))
    BY <2>1, <2>2 DEF Refused, AnswerHolds
  <2>3. CASE Repeated(Len(history))
    BY <2>1, <2>3 DEF Repeated, AnswerHolds
  <2>4. CASE Committed
    <3>1. Len(history) + 1 \in DOMAIN history' /\ history'[Len(history) + 1] = digest
      BY <2>4, Grows DEF Committed, TypeOK
    <3> QED
      BY <2>1, <2>4, <3>1 DEF Committed, AnswerHolds
  <2> QED
    BY <1>1, <2>2, <2>3, <2>4, Decisions
<1>2. ASSUME AskHead PROVE AnswerHolds'
  <2>1. CASE Return
    BY <2>1 DEF Return, AnswerHolds
  <2>2. CASE /\ Len(history) = parent + 1 /\ pc' = "settle" /\ Answer("ok", Len(history))
             /\ IF history[parent + 1] = digest
                THEN ours' = ours \cup {parent + 1} /\ UNCHANGED guessed
                ELSE guessed' = TRUE /\ UNCHANGED ours
             /\ UNCHANGED digest
    <3>1. Len(history) \in DOMAIN history /\ UNCHANGED history
      BY <1>2, <2>2 DEF AskHead, TypeOK, VersionTypes
    <3> QED
      BY <2>2, <3>1 DEF Answer, AnswerHolds
  <2> QED
    BY <1>2, <2>1, <2>2 DEF AskHead
<1>3. ASSUME OtherCommits PROVE AnswerHolds'
  <2>1. PICK i \in Image : history' = Append(history, i)
    BY <1>3, OtherImage DEF TypeOK
  <2>2. UNCHANGED <<ours, parent, pc, digest, answer, guessed>>
    BY <1>3 DEF OtherCommits
  <2>3. \A v \in DOMAIN history : v \in DOMAIN history' /\ history'[v] = history[v]
    BY <2>1, Grows DEF TypeOK
  <2>4. pc = "settled" => parent \in DOMAIN history
    BY DEF PushedHolds
  <2> QED
    BY <2>2, <2>3, <2>4 DEF AnswerHolds
<1>4. ASSUME NEW b \in Blocks, GameWrite(b) PROVE AnswerHolds'
  BY <1>4 DEF AnswerHolds, GameWrite, Playing
<1>5. ASSUME NEW b \in Blocks, SendBlock(b) PROVE AnswerHolds'
  BY <1>5 DEF AnswerHolds, SendBlock
<1>6. ASSUME CardSaved \/ Poll \/ WriteHandoff \/ CloseHandoff PROVE AnswerHolds'
  BY <1>6 DEF AnswerHolds, CardSaved, TakeHandoff, workerRunning, Poll, WriteHandoff,
     CloseHandoff, Close
<1>7. ASSUME Shutdown \/ FinishShutdown \/ SwitchOff \/ Connect \/ EndWorker PROVE AnswerHolds'
  BY <1>7 DEF AnswerHolds, Shutdown, FinishShutdown, TakeHandoff, SwitchOff, Connect,
     EndWorker
<1>8. ASSUME EstablishLineage \/ StartPush PROVE AnswerHolds'
  BY <1>8 DEF AnswerHolds, EstablishLineage, Begin, ClearDirty, StartPush, ShouldPush
<1>9. ASSUME ScanBlock \/ EndScan \/ HashBlock \/ OpenTransfer PROVE AnswerHolds'
  BY <1>9 DEF AnswerHolds, ScanBlock, EndScan, Return, Rearm, HashBlock, OpenTransfer
<1>10. ASSUME Receive \/ Fail PROVE AnswerHolds'
  BY <1>10 DEF AnswerHolds, Receive, Halt, Return, Rearm, Fail, workerBusy
<1>11. ASSUME Settle \/ Owe PROVE AnswerHolds'
  BY <1>11 DEF AnswerHolds, Settle, SettleOn, Owe, Return
<1> QED
  BY <1>1, <1>2, <1>3, <1>4, <1>5, <1>6, <1>7, <1>8, <1>9, <1>10, <1>11 DEF Next,
     Worker

\* The parent moves only to versions that this card went into.
LEMMA LineageKept ==
    ASSUME TypeOK, PushedHolds, AnswerHolds, LineageIsOurs, Next
    PROVE  LineageIsOurs'
<1> USE DEF card, slot, handoff, push
<1>1. ASSUME NEW b \in Blocks, GameWrite(b) PROVE LineageIsOurs'
  BY <1>1 DEF LineageIsOurs, AnswerHolds, PushedHolds, GameWrite, Playing
<1>2. ASSUME NEW b \in Blocks, SendBlock(b) PROVE LineageIsOurs'
  BY <1>2 DEF LineageIsOurs, AnswerHolds, PushedHolds, SendBlock
<1>3. ASSUME Decide PROVE LineageIsOurs'
  BY <1>3 DEF LineageIsOurs, AnswerHolds, PushedHolds, Decide, Answer
<1>4. ASSUME AskHead PROVE LineageIsOurs'
  BY <1>4 DEF LineageIsOurs, AnswerHolds, PushedHolds, AskHead, Return, Rearm, Answer
<1>5. ASSUME OtherCommits PROVE LineageIsOurs'
  BY <1>5 DEF LineageIsOurs, AnswerHolds, PushedHolds, OtherCommits
<1>6. ASSUME CardSaved PROVE LineageIsOurs'
  BY <1>6 DEF LineageIsOurs, AnswerHolds, PushedHolds, CardSaved, TakeHandoff,
     workerRunning
<1>7. ASSUME Poll PROVE LineageIsOurs'
  BY <1>7 DEF LineageIsOurs, AnswerHolds, PushedHolds, Poll, TakeHandoff
<1>8. ASSUME WriteHandoff PROVE LineageIsOurs'
  BY <1>8 DEF LineageIsOurs, AnswerHolds, PushedHolds, WriteHandoff
<1>9. ASSUME CloseHandoff PROVE LineageIsOurs'
  BY <1>9 DEF LineageIsOurs, AnswerHolds, PushedHolds, CloseHandoff, Close
<1>10. ASSUME Shutdown PROVE LineageIsOurs'
  BY <1>10 DEF LineageIsOurs, AnswerHolds, PushedHolds, Shutdown
<1>11. ASSUME FinishShutdown PROVE LineageIsOurs'
  BY <1>11 DEF LineageIsOurs, AnswerHolds, PushedHolds, FinishShutdown, TakeHandoff
<1>12. ASSUME SwitchOff PROVE LineageIsOurs'
  BY <1>12 DEF LineageIsOurs, AnswerHolds, PushedHolds, SwitchOff
<1>13. ASSUME Connect PROVE LineageIsOurs'
  BY <1>13 DEF LineageIsOurs, AnswerHolds, PushedHolds, Connect
<1>14. ASSUME EndWorker PROVE LineageIsOurs'
  BY <1>14 DEF LineageIsOurs, AnswerHolds, PushedHolds, EndWorker
<1>15. ASSUME EstablishLineage PROVE LineageIsOurs'
  BY <1>15 DEF LineageIsOurs, AnswerHolds, PushedHolds, EstablishLineage, Begin,
     ClearDirty
<1>16. ASSUME StartPush PROVE LineageIsOurs'
  BY <1>16 DEF LineageIsOurs, AnswerHolds, PushedHolds, StartPush, Begin, ClearDirty,
     ShouldPush
<1>17. ASSUME ScanBlock PROVE LineageIsOurs'
  BY <1>17 DEF LineageIsOurs, AnswerHolds, PushedHolds, ScanBlock
<1>18. ASSUME EndScan PROVE LineageIsOurs'
  BY <1>18 DEF LineageIsOurs, AnswerHolds, PushedHolds, EndScan, Return, Rearm
<1>19. ASSUME HashBlock PROVE LineageIsOurs'
  BY <1>19 DEF LineageIsOurs, AnswerHolds, PushedHolds, HashBlock
<1>20. ASSUME OpenTransfer PROVE LineageIsOurs'
  BY <1>20 DEF LineageIsOurs, AnswerHolds, PushedHolds, OpenTransfer
<1>21. ASSUME Receive PROVE LineageIsOurs'
  BY <1>21 DEF LineageIsOurs, AnswerHolds, PushedHolds, Receive, Halt, Return, Rearm
<1>22. ASSUME Fail PROVE LineageIsOurs'
  BY <1>22 DEF LineageIsOurs, AnswerHolds, PushedHolds, Fail, workerBusy, Return, Rearm
<1>23. ASSUME Settle PROVE LineageIsOurs'
  BY <1>23 DEF LineageIsOurs, AnswerHolds, PushedHolds, Settle, SettleOn
<1>24. ASSUME Owe PROVE LineageIsOurs'
  BY <1>24 DEF LineageIsOurs, AnswerHolds, PushedHolds, Owe, Return
<1> QED
  BY <1>1, <1>2, <1>3, <1>4, <1>5, <1>6, <1>7, <1>8, <1>9, <1>10, <1>11, <1>12,
     <1>13, <1>14, <1>15, <1>16, <1>17, <1>18, <1>19, <1>20, <1>21, <1>22, <1>23, <1>24
     DEF Next, Worker

\* A push that is settled leaves a card that is the server's, or a save to come.
LEMMA SavesKept ==
    ASSUME TypeOK, PushedHolds, ReadHolds, AnswerHolds, SavesArePushed, Next
    PROVE  SavesArePushed'
<1> USE DEF card, slot, handoff, push
<1>1. ASSUME OtherCommits PROVE SavesArePushed'
  <2>1. PICK i \in Image : history' = Append(history, i)
    BY <1>1, OtherImage DEF TypeOK
  <2>2. UNCHANGED <<ram, changed, dirty, halted, parent, pushedAny, pc, guessed>>
    BY <1>1 DEF OtherCommits
  <2>3. \A v \in DOMAIN history : v \in DOMAIN history' /\ history'[v] = history[v]
    BY <2>1, Grows DEF TypeOK
  <2> QED
    BY <2>2, <2>3 DEF SavesArePushed
<1>2. ASSUME NEW b \in Blocks, GameWrite(b) PROVE SavesArePushed'
  BY <1>2 DEF SavesArePushed, ReadHolds, AnswerHolds, PushedHolds, Owed, GameWrite,
     Playing
<1>3. ASSUME NEW b \in Blocks, SendBlock(b) PROVE SavesArePushed'
  BY <1>3 DEF SavesArePushed, ReadHolds, AnswerHolds, PushedHolds, Owed, SendBlock
<1>4. ASSUME Decide PROVE SavesArePushed'
  BY <1>4 DEF SavesArePushed, ReadHolds, AnswerHolds, PushedHolds, Owed, Decide, Answer
<1>5. ASSUME AskHead PROVE SavesArePushed'
  BY <1>5 DEF SavesArePushed, ReadHolds, AnswerHolds, PushedHolds, Owed, AskHead, Return,
     Rearm, Answer
<1>6. ASSUME CardSaved \/ Poll \/ WriteHandoff \/ CloseHandoff PROVE SavesArePushed'
  BY <1>6 DEF SavesArePushed, Owed, CardSaved, TakeHandoff, workerRunning, Poll,
     WriteHandoff, CloseHandoff, Close
<1>7. ASSUME Shutdown \/ FinishShutdown \/ SwitchOff \/ Connect \/ EndWorker PROVE SavesArePushed'
  BY <1>7 DEF SavesArePushed, Shutdown, FinishShutdown, TakeHandoff, SwitchOff, Connect,
     EndWorker
<1>8. ASSUME EstablishLineage \/ StartPush PROVE SavesArePushed'
  BY <1>8 DEF SavesArePushed, EstablishLineage, Begin, ClearDirty, StartPush, ShouldPush
<1>9. ASSUME ScanBlock \/ EndScan \/ HashBlock \/ OpenTransfer PROVE SavesArePushed'
  BY <1>9 DEF SavesArePushed, ScanBlock, EndScan, Return, Rearm, HashBlock, OpenTransfer
<1>10. ASSUME Receive \/ Fail PROVE SavesArePushed'
  BY <1>10 DEF SavesArePushed, Receive, Halt, Return, Rearm, Fail, workerBusy
<1>11. ASSUME Settle \/ Owe PROVE SavesArePushed'
  BY <1>11 DEF SavesArePushed, Owed, ReadHolds, AnswerHolds, PushedHolds, Settle,
     SettleOn, Owe, Return
<1> QED
  BY <1>1, <1>2, <1>3, <1>4, <1>5, <1>6, <1>7, <1>8, <1>9, <1>10, <1>11 DEF Next,
     Worker

\* The flag is up, or the file is being written, or it is up to date, or it could not be
\* written.
LEMMA HandoffKept ==
    ASSUME PushedHolds, HandoffIsOwed, Next
    PROVE  HandoffIsOwed'
<1> USE DEF card, slot, handoff, push
<1>1. ASSUME NEW b \in Blocks, GameWrite(b) PROVE HandoffIsOwed'
  BY <1>1 DEF HandoffIsOwed, PushedHolds, GameWrite, Playing
<1>2. ASSUME NEW b \in Blocks, SendBlock(b) PROVE HandoffIsOwed'
  BY <1>2 DEF HandoffIsOwed, PushedHolds, SendBlock
<1>3. ASSUME Decide PROVE HandoffIsOwed'
  BY <1>3 DEF HandoffIsOwed, PushedHolds, Decide, Answer
<1>4. ASSUME AskHead PROVE HandoffIsOwed'
  BY <1>4 DEF HandoffIsOwed, PushedHolds, AskHead, Return, Rearm, Answer
<1>5. ASSUME OtherCommits PROVE HandoffIsOwed'
  BY <1>5 DEF HandoffIsOwed, PushedHolds, OtherCommits
<1>6. ASSUME CardSaved PROVE HandoffIsOwed'
  BY <1>6 DEF HandoffIsOwed, PushedHolds, CardSaved, TakeHandoff, workerRunning
<1>7. ASSUME Poll PROVE HandoffIsOwed'
  BY <1>7 DEF HandoffIsOwed, PushedHolds, Poll, TakeHandoff
<1>8. ASSUME WriteHandoff PROVE HandoffIsOwed'
  BY <1>8 DEF HandoffIsOwed, PushedHolds, WriteHandoff
<1>9. ASSUME CloseHandoff PROVE HandoffIsOwed'
  BY <1>9 DEF HandoffIsOwed, PushedHolds, CloseHandoff, Close
<1>10. ASSUME Shutdown \/ FinishShutdown \/ SwitchOff \/ Connect \/ EndWorker PROVE HandoffIsOwed'
  BY <1>10 DEF HandoffIsOwed, Shutdown, FinishShutdown, TakeHandoff, SwitchOff, Connect,
     EndWorker
<1>11. ASSUME EstablishLineage \/ StartPush PROVE HandoffIsOwed'
  BY <1>11 DEF HandoffIsOwed, PushedHolds, EstablishLineage, Begin, ClearDirty,
     StartPush, ShouldPush
<1>12. ASSUME ScanBlock \/ EndScan \/ HashBlock \/ OpenTransfer PROVE HandoffIsOwed'
  BY <1>12 DEF HandoffIsOwed, ScanBlock, EndScan, Return, Rearm, HashBlock, OpenTransfer
<1>13. ASSUME Receive \/ Fail PROVE HandoffIsOwed'
  BY <1>13 DEF HandoffIsOwed, Receive, Halt, Return, Rearm, Fail, workerBusy
<1>14. ASSUME Settle \/ Owe PROVE HandoffIsOwed'
  BY <1>14 DEF HandoffIsOwed, PushedHolds, Settle, SettleOn, Owe, Return
<1> QED
  BY <1>1, <1>2, <1>3, <1>4, <1>5, <1>6, <1>7, <1>8, <1>9, <1>10, <1>11, <1>12,
     <1>13, <1>14 DEF Next, Worker

----------------------------------------------------------------------------
(* The theorems.                                                           *)

\* When the game starts nothing has been read and nothing is owed.
LEMMA InitHolds ==
    ASSUME Init
    PROVE  IInv
<1>1. history \in Seq(Image) /\ ram \in Image
  BY KernelAssumption DEF Init
<1>2. VersionTypes
  BY <1>1 DEF Init, VersionTypes, NoAnswer, Codes
<1>3. lineage \in BOOLEAN /\ fpValid \in BOOLEAN
  BY DEF Init
<1>4. fpValid => lineage /\ parent \in DOMAIN history
  <2>1. fpValid => parent # 0
    BY DEF Init
  <2>2. parent # 0 => lineage
    BY DEF Init
  <2> QED
    BY <1>2, <2>1, <2>2 DEF VersionTypes
<1>5. CardTypes
  <2>1. past = {ram} /\ IsFiniteSet({ram})
    BY FS_Singleton DEF Init
  <2>2. 0 \in 0..MaxFailures
    BY KernelAssumption
  <2> QED
    BY <1>1, <1>3, <2>1, <2>2 DEF Init, CardTypes
<1>6. PushTypes
  <2>1. NoImage \in [Blocks -> Int]
    BY DEF NoImage
  <2>3. table \in [Blocks -> Int]
    BY <1>1, <1>4, <2>1 DEF Init, Image
  <2>4. at \in 1..N + 1
    BY KernelAssumption DEF Init
  <2> QED
    BY <2>1, <2>3, <2>4 DEF Init, PushTypes
<1>7. PushedHolds
  BY <1>4 DEF Init, PushedHolds
<1>8. ReadHolds /\ AnswerHolds /\ LineageIsOurs /\ SavesArePushed /\ HandoffIsOwed
  BY DEF Init, ReadHolds, AnswerHolds, LineageIsOurs, SavesArePushed, HandoffIsOwed
<1> QED
  BY <1>2, <1>5, <1>6, <1>7, <1>8 DEF IInv, TypeOK

\* Every step keeps the invariant.
LEMMA StepKeeps ==
    ASSUME IInv, [Next]_vars
    PROVE  IInv'
<1>1. CASE Next
  BY <1>1, VersionTypesKept, CardTypesKept, PushTypesKept, PushedKept, ReadKept, AnswerKept,
     LineageKept, SavesKept, HandoffKept DEF IInv, TypeOK
<1>2. CASE UNCHANGED vars
  <2>1. TypeOK'
    BY <1>2 DEF IInv, TypeOK, VersionTypes, CardTypes, PushTypes, vars, card, slot, handoff, push
  <2>2. PushedHolds' /\ ReadHolds' /\ AnswerHolds'
    BY <1>2 DEF IInv, PushedHolds, ReadHolds, AnswerHolds, Owed, vars, card, slot, handoff, push
  <2>3. LineageIsOurs' /\ SavesArePushed' /\ HandoffIsOwed'
    BY <1>2 DEF IInv, LineageIsOurs, SavesArePushed, HandoffIsOwed, vars, card, slot, handoff,
       push
  <2> QED
    BY <2>1, <2>2, <2>3 DEF IInv
<1> QED
  BY <1>1, <1>2

\* Whatever the game, the network and the others do, what the worker has read and what it
\* believes of the server stay consistent.
THEOREM KernelInvariance == Spec => []IInv
<1> QED
  BY InitHolds, StepKeeps, PTL DEF Spec

\* Every variable has its type, for every card, history and bound.
THEOREM KernelTypes == Spec => []TypeOK
<1>1. IInv => TypeOK
  BY DEF IInv
<1> QED
  BY <1>1, KernelInvariance, PTL

\* When nothing is to be pushed any more, the card is the version the console says it is,
\* although it was hashed and sent block by block from memory that the game writes.
THEOREM NoSaveIsSwallowed == Spec => []SavesArePushed
<1>1. IInv => SavesArePushed
  BY DEF IInv
<1> QED
  BY <1>1, KernelInvariance, PTL

\* The launcher is owed the version a push has reached until it is in the handoff file, or
\* the SD card has failed the attempt to put it there.
THEOREM HandoffReachesTheFile == Spec => []HandoffIsOwed
<1>1. IInv => HandoffIsOwed
  BY DEF IInv
<1> QED
  BY <1>1, KernelInvariance, PTL

\* What a console commits replaces a version its card descends from.
THEOREM KernelOverwritesNothing == Spec => OverwritesNothing
<1>1. ASSUME IInv, Next, Decide, history' # history, ~ guessed
      PROVE  Len(history) \in ours
  <2>1. parent = Len(history) /\ pc = "send"
    BY <1>1 DEF Decide
  <2>2. lineage
    BY <1>1, <2>1 DEF IInv, TypeOK, PushTypes
  <2> QED
    BY <1>1, <2>1, <2>2 DEF IInv, LineageIsOurs
<1>2. IInv /\ [Next]_vars
      => [Decide /\ history' # history /\ ~ guessed => Len(history) \in ours]_vars
  BY <1>1
<1> QED
  BY <1>2, KernelInvariance, PTL DEF Spec, OverwritesNothing
=============================================================================
