-------------------------- MODULE CardStoreProofs --------------------------
(***************************************************************************)
(* Proofs about CardStore, for every set of callers, cards and images.     *)
(***************************************************************************)
EXTENDS CardStore, SequenceTheorems, TLAPS

\* The initial state satisfies the inductive invariant: no card, no call.
LEMMA InitInv == Init => IInv
<1> SUFFICES ASSUME Init PROVE IInv
  OBVIOUS
<1> USE CallsAssumption, StoreAssumption DEF Init
<1>1. TypeOK
  BY DEF TypeOK, Steps, InTransaction, Answers, Answer, NoAnswer, Outcomes
<1>2. LockHeld /\ CallFits /\ DecisionStands /\ BlobsWhole /\ AnswerWhenDone
  BY DEF LockHeld, CallFits, DecisionStands, BlobsWhole, AnswerWhenDone, InTransaction, Answered
<1>3. FastForwardOnly /\ EveryVersionReadable /\ RetriesAreFree
  BY DEF FastForwardOnly, EveryVersionReadable, RetriesAreFree
<1>4. AnswersHold
  BY DEF AnswersHold, Answered
<1> QED
  BY <1>1, <1>2, <1>3, <1>4 DEF IInv

\* The four parts of the invariant about the disk alone survive a step that
\* leaves the disk as it is.
LEMMA DiskUnchanged ==
    ASSUME IInv, UNCHANGED disk
    PROVE  BlobsWhole' /\ FastForwardOnly' /\ EveryVersionReadable' /\ RetriesAreFree'
BY DEF IInv, disk, BlobsWhole, FastForwardOnly, EveryVersionReadable, RetriesAreFree

\* What the fields of a call are.
LEMMA CallTypes ==
    ASSUME NEW r \in Calls
    PROVE  /\ r.op \in {"push", "format", "rollback"}
           /\ r.card \in Cards
           /\ r.image \in Images
           /\ r.parent \in Nat
           /\ r.op = "format" => r.parent = 0
<1> USE CallsAssumption
<1>1. CASE r \in PushCalls
  BY <1>1 DEF PushCalls
<1>2. CASE r \in FormatCalls
  BY <1>2 DEF FormatCalls
<1>3. CASE r \in RollbackCalls
  BY <1>3 DEF RollbackCalls
<1> QED
  BY <1>1, <1>2, <1>3 DEF Calls

\* Giving a caller an answer keeps the types.
LEMMA ReturnTypes ==
    ASSUME TypeOK, NEW p \in Callers, NEW o \in Outcomes, NEW v \in Nat,
           Return(p, Answer(o, v))
    PROVE  pc' \in [Callers -> Steps] /\ answer' \in [Callers -> Answers]
BY DEF TypeOK, Return, Answer, Answers, Steps

\* The digest of a head is that of an image, or None.
LEMMA HeadShaType ==
    ASSUME IInv, NEW c \in Cards
    PROVE  /\ head[c] \in Nat
           /\ HeadSha(c) \in Images \cup {None}
           /\ HeadSha(c) # None => /\ head[c] \in DOMAIN versions[c]
                                   /\ HeadSha(c) = versions[c][head[c]].sha
BY CallsAssumption DEF IInv, TypeOK, FastForwardOnly, HeadSha, Row

\* Answers given earlier to other callers hold on while the disk stays as it is.
LEMMA OthersKeepAnswers ==
    ASSUME IInv, UNCHANGED disk, NEW p \in Callers,
           \A q \in Callers \ {p} : /\ pc'[q] = pc[q] /\ call'[q] = call[q]
                                    /\ answer'[q] = answer[q] /\ body'[q] = body[q],
           Answered(p)' => AnswerHolds(p)'
    PROVE  AnswersHold'
BY DEF IInv, AnswersHold, Answered, AnswerHolds, disk

\* A caller that starts has no answer yet and holds no lock.
LEMMA AcceptInv ==
    ASSUME IInv, NEW p \in Callers, NEW r \in Calls, Accept(p, r)
    PROVE  IInv'
<1> USE CallsAssumption, StoreAssumption DEF Accept, disk, IInv, TypeOK
<1>s. PICK s \in Start(r) : pc' = [pc EXCEPT ![p] = s]
  OBVIOUS
<1>start. /\ s \in {"touch", "validate", "check", "begin"}
          /\ s # "begin" => r.op \in {"push", "format"}
          /\ s = "begin" => r.op = "rollback"
          /\ s = "check" => r.op = "format"
  BY DEF Start, Calls, PushCalls, FormatCalls, RollbackCalls
<1>1. TypeOK'
  BY <1>s, <1>start DEF Steps
<1>2. LockHeld'
  BY <1>s, <1>start DEF LockHeld, InTransaction
<1>3. CallFits'
  BY <1>s, <1>start DEF CallFits, InTransaction
<1>4. DecisionStands'
  BY <1>s, <1>start DEF DecisionStands, HeadSha, NewImage, Card
<1>5. AnswerWhenDone'
  BY <1>s, <1>start DEF AnswerWhenDone, Answered
<1>6. AnswersHold'
  BY <1>s, <1>start, OthersKeepAnswers DEF Answered
<1> QED
  BY <1>1, <1>2, <1>3, <1>4, <1>5, <1>6, DiskUnchanged DEF IInv

\* Recording the device changes nothing but where the caller is.
LEMMA TouchDeviceInv ==
    ASSUME IInv, NEW p \in Callers, TouchDevice(p)
    PROVE  IInv'
<1> USE CallsAssumption, StoreAssumption DEF TouchDevice, Goto, disk, IInv
<1>0. pc[p] # "idle" /\ call[p] \in Calls /\ Card(p) \in Cards
  BY CallTypes DEF CallFits, Card, InTransaction
<1>1. TypeOK'
  BY <1>0, HeadShaType DEF TypeOK, Steps, InTransaction, Outcomes, Answers, NoAnswer, Answer
<1>2. LockHeld'
  BY DEF TypeOK, LockHeld, InTransaction
<1>3. CallFits'
  BY DEF TypeOK, CallFits, InTransaction
<1>4. DecisionStands'
  BY <1>0, CallTypes DEF TypeOK, DecisionStands, CallFits, BlobsWhole, EveryVersionReadable, HeadSha, NewImage, Card
<1>5. AnswerWhenDone'
  BY DEF TypeOK, AnswerWhenDone, Answered, Answer, NoAnswer, InTransaction
<1>6. AnswersHold'
  <2>1. Answered(p)' => AnswerHolds(p)'
    BY <1>0, CallTypes, HeadShaType
    DEF TypeOK, AnswersHold, AnswerHolds, Answered, AnswerWhenDone, FastForwardOnly, Answer, NoAnswer, Card, NewImage, CallFits, InTransaction
  <2> QED
    BY <2>1, OthersKeepAnswers DEF TypeOK
<1> QED
  BY <1>1, <1>2, <1>3, <1>4, <1>5, <1>6, DiskUnchanged

\* Past the parser, an image is a valid one; short of it, the answer is invalid.
LEMMA ValidateInv ==
    ASSUME IInv, NEW p \in Callers, Validate(p)
    PROVE  IInv'
<1> USE CallsAssumption, StoreAssumption DEF Validate, Goto, disk, IInv
<1>0. pc[p] # "idle" /\ call[p] \in Calls /\ Card(p) \in Cards
  BY CallTypes DEF CallFits, Card, InTransaction
<1>1. TypeOK'
  BY <1>0, ReturnTypes, HeadShaType DEF TypeOK, Steps, InTransaction, Outcomes, Answers, NoAnswer, Answer
<1>2. LockHeld'
  BY DEF TypeOK, LockHeld, InTransaction, Return
<1>3. CallFits'
  BY DEF TypeOK, CallFits, InTransaction, Return
<1>4. DecisionStands'
  BY <1>0, CallTypes DEF TypeOK, DecisionStands, CallFits, BlobsWhole, EveryVersionReadable, HeadSha, NewImage, Card, Return
<1>5. AnswerWhenDone'
  BY DEF TypeOK, AnswerWhenDone, Answered, Answer, NoAnswer, InTransaction, Return
<1>6. AnswersHold'
  <2>1. Answered(p)' => AnswerHolds(p)'
    BY <1>0, CallTypes, HeadShaType
    DEF TypeOK, AnswersHold, AnswerHolds, Answered, AnswerWhenDone, FastForwardOnly, Answer, NoAnswer, Card, NewImage, CallFits, InTransaction, Return
  <2> QED
    BY <2>1, OthersKeepAnswers DEF TypeOK, Return
<1> QED
  BY <1>1, <1>2, <1>3, <1>4, <1>5, <1>6, DiskUnchanged

\* A format is refused with the head it saw, or goes on.
LEMMA CheckAbsentInv ==
    ASSUME IInv, NEW p \in Callers, CheckAbsent(p)
    PROVE  IInv'
<1> USE CallsAssumption, StoreAssumption DEF CheckAbsent, Goto, disk, IInv
<1>0. pc[p] # "idle" /\ call[p] \in Calls /\ Card(p) \in Cards
  BY CallTypes DEF CallFits, Card, InTransaction
<1>1. TypeOK'
  BY <1>0, ReturnTypes, HeadShaType DEF TypeOK, Steps, InTransaction, Outcomes, Answers, NoAnswer, Answer
<1>2. LockHeld'
  BY DEF TypeOK, LockHeld, InTransaction, Return
<1>3. CallFits'
  BY DEF TypeOK, CallFits, InTransaction, Return
<1>4. DecisionStands'
  BY <1>0, CallTypes DEF TypeOK, DecisionStands, CallFits, BlobsWhole, EveryVersionReadable, HeadSha, NewImage, Card, Return
<1>5. AnswerWhenDone'
  BY DEF TypeOK, AnswerWhenDone, Answered, Answer, NoAnswer, InTransaction, Return
<1>6. AnswersHold'
  <2>1. Answered(p)' => AnswerHolds(p)'
    BY <1>0, CallTypes, HeadShaType
    DEF TypeOK, AnswersHold, AnswerHolds, Answered, AnswerWhenDone, FastForwardOnly, Answer, NoAnswer, Card, NewImage, CallFits, InTransaction, Return
  <2> QED
    BY <2>1, OthersKeepAnswers DEF TypeOK, Return
<1> QED
  BY <1>1, <1>2, <1>3, <1>4, <1>5, <1>6, DiskUnchanged

\* The lock goes to one caller, and only when nobody has it.
LEMMA BeginImmediateInv ==
    ASSUME IInv, NEW p \in Callers, BeginImmediate(p)
    PROVE  IInv'
<1> USE CallsAssumption, StoreAssumption DEF BeginImmediate, Goto, disk, IInv
<1>0. pc[p] # "idle" /\ call[p] \in Calls /\ Card(p) \in Cards
  BY CallTypes DEF CallFits, Card, InTransaction
<1>1. TypeOK'
  BY <1>0, HeadShaType DEF TypeOK, Steps, InTransaction, Outcomes, Answers, NoAnswer, Answer
<1>2. LockHeld'
  BY DEF TypeOK, LockHeld, InTransaction
<1>3. CallFits'
  BY DEF TypeOK, CallFits, InTransaction
<1>4. DecisionStands'
  BY <1>0, CallTypes DEF TypeOK, DecisionStands, CallFits, BlobsWhole, EveryVersionReadable, HeadSha, NewImage, Card
<1>5. AnswerWhenDone'
  BY DEF TypeOK, AnswerWhenDone, Answered, Answer, NoAnswer, InTransaction
<1>6. AnswersHold'
  <2>1. Answered(p)' => AnswerHolds(p)'
    BY <1>0, CallTypes, HeadShaType
    DEF TypeOK, AnswersHold, AnswerHolds, Answered, AnswerWhenDone, FastForwardOnly, Answer, NoAnswer, Card, NewImage, CallFits, InTransaction
  <2> QED
    BY <2>1, OthersKeepAnswers DEF TypeOK
<1> QED
  BY <1>1, <1>2, <1>3, <1>4, <1>5, <1>6, DiskUnchanged

\* A caller that waited too long holds no lock and is told nothing.
LEMMA LockTimeoutInv ==
    ASSUME IInv, NEW p \in Callers, LockTimeout(p)
    PROVE  IInv'
<1> USE CallsAssumption, StoreAssumption DEF LockTimeout, disk, IInv
<1>0. pc[p] # "idle" /\ call[p] \in Calls /\ Card(p) \in Cards
  BY CallTypes DEF CallFits, Card, InTransaction
<1>1. TypeOK'
  BY <1>0, ReturnTypes, HeadShaType DEF TypeOK, Steps, InTransaction, Outcomes, Answers, NoAnswer, Answer
<1>2. LockHeld'
  BY DEF TypeOK, LockHeld, InTransaction, Return
<1>3. CallFits'
  BY DEF TypeOK, CallFits, InTransaction, Return
<1>4. DecisionStands'
  BY <1>0, CallTypes DEF TypeOK, DecisionStands, CallFits, BlobsWhole, EveryVersionReadable, HeadSha, NewImage, Card, Return
<1>5. AnswerWhenDone'
  BY DEF TypeOK, AnswerWhenDone, Answered, Answer, NoAnswer, InTransaction, Return
<1>6. AnswersHold'
  <2>1. Answered(p)' => AnswerHolds(p)'
    BY <1>0, CallTypes, HeadShaType
    DEF TypeOK, AnswersHold, AnswerHolds, Answered, AnswerWhenDone, FastForwardOnly, Answer, NoAnswer, Card, NewImage, CallFits, InTransaction, Return
  <2> QED
    BY <2>1, OthersKeepAnswers DEF TypeOK, Return
<1> QED
  BY <1>1, <1>2, <1>3, <1>4, <1>5, <1>6, DiskUnchanged

\* A push leaves with an answer that holds, or goes on with the head it read.
LEMMA DecidePushInv ==
    ASSUME IInv, NEW p \in Callers, DecidePush(p)
    PROVE  IInv'
<1> USE CallsAssumption, StoreAssumption DEF DecidePush, EndWith, Proceed, Goto, disk, IInv
<1>0. pc[p] # "idle" /\ call[p] \in Calls /\ Card(p) \in Cards
  BY CallTypes DEF CallFits, Card, InTransaction
<1>1. TypeOK'
  BY <1>0, ReturnTypes, HeadShaType DEF TypeOK, Steps, InTransaction, Outcomes, Answers, NoAnswer, Answer
<1>2. LockHeld'
  BY DEF TypeOK, LockHeld, InTransaction, Return
<1>3. CallFits'
  BY DEF TypeOK, CallFits, InTransaction, Return
<1>4. DecisionStands'
  BY <1>0, CallTypes DEF TypeOK, DecisionStands, CallFits, BlobsWhole, EveryVersionReadable, HeadSha, NewImage, Card, Return
<1>5. AnswerWhenDone'
  BY DEF TypeOK, AnswerWhenDone, Answered, Answer, NoAnswer, InTransaction, Return
<1>6. AnswersHold'
  <2>1. Answered(p)' => AnswerHolds(p)'
    BY <1>0, CallTypes, HeadShaType
    DEF TypeOK, AnswersHold, AnswerHolds, Answered, AnswerWhenDone, FastForwardOnly, Answer, NoAnswer, Card, NewImage, CallFits, InTransaction, Return
  <2> QED
    BY <2>1, OthersKeepAnswers DEF TypeOK, Return
<1> QED
  BY <1>1, <1>2, <1>3, <1>4, <1>5, <1>6, DiskUnchanged

\* A rollback leaves with an answer that holds, or goes on with its target.
LEMMA DecideRollbackInv ==
    ASSUME IInv, NEW p \in Callers, DecideRollback(p)
    PROVE  IInv'
<1> USE CallsAssumption, StoreAssumption DEF DecideRollback, EndWith, Proceed, Goto, disk, IInv
<1>0. pc[p] # "idle" /\ call[p] \in Calls /\ Card(p) \in Cards
  BY CallTypes DEF CallFits, Card, InTransaction
<1>1. TypeOK'
  BY <1>0, ReturnTypes, HeadShaType DEF TypeOK, Steps, InTransaction, Outcomes, Answers, NoAnswer, Answer
<1>2. LockHeld'
  BY DEF TypeOK, LockHeld, InTransaction, Return
<1>3. CallFits'
  BY DEF TypeOK, CallFits, InTransaction, Return
<1>4. DecisionStands'
  BY <1>0, CallTypes DEF TypeOK, DecisionStands, CallFits, BlobsWhole, EveryVersionReadable, HeadSha, NewImage, Card, Return
<1>5. AnswerWhenDone'
  BY DEF TypeOK, AnswerWhenDone, Answered, Answer, NoAnswer, InTransaction, Return
<1>6. AnswersHold'
  <2>1. Answered(p)' => AnswerHolds(p)'
    <3>1. CASE answer'[p].outcome = "unchanged"
      <4>1. /\ call[p].target \in DOMAIN versions[Card(p)]
            /\ HeadSha(Card(p)) = versions[Card(p)][call[p].target].sha
            /\ answer'[p].version = head[Card(p)]
            /\ body'[p] = None
        BY <1>0, <3>1 DEF TypeOK, AnswerWhenDone, Answered, NoAnswer, Return, Answer, NewImage
      <4>2. HeadSha(Card(p)) # None
        BY <1>0, <4>1 DEF TypeOK, Row
      <4> QED
        BY <1>0, <3>1, <4>1, <4>2, HeadShaType DEF AnswerHolds, Card
    <3>2. CASE answer'[p].outcome = "notfound"
      BY <3>2 DEF TypeOK, AnswerHolds, AnswerWhenDone, Answered, Return, Answer
    <3>3. CASE pc'[p] = "commit"
      BY <3>3 DEF TypeOK, Answered
    <3> QED
      BY <3>1, <3>2, <3>3 DEF TypeOK, Return, Answer
  <2> QED
    BY <2>1, OthersKeepAnswers DEF TypeOK, Return
<1> QED
  BY <1>1, <1>2, <1>3, <1>4, <1>5, <1>6, DiskUnchanged

\* A caller goes on to COMMIT past the blobs only when the file is there.
LEMMA WriteTempInv ==
    ASSUME IInv, NEW p \in Callers, WriteTemp(p)
    PROVE  IInv'
<1> USE CallsAssumption, StoreAssumption DEF WriteTemp, Goto, disk, IInv
<1>0. pc[p] # "idle" /\ call[p] \in Calls /\ Card(p) \in Cards
  BY CallTypes DEF CallFits, Card, InTransaction
<1>1. TypeOK'
  BY <1>0, HeadShaType DEF TypeOK, Steps, InTransaction, Outcomes, Answers, NoAnswer, Answer
<1>2. LockHeld'
  BY DEF TypeOK, LockHeld, InTransaction
<1>3. CallFits'
  BY DEF TypeOK, CallFits, InTransaction
<1>4. DecisionStands'
  BY <1>0, CallTypes DEF TypeOK, DecisionStands, CallFits, BlobsWhole, EveryVersionReadable, HeadSha, NewImage, Card
<1>5. AnswerWhenDone'
  BY DEF TypeOK, AnswerWhenDone, Answered, Answer, NoAnswer, InTransaction
<1>6. AnswersHold'
  <2>1. Answered(p)' => AnswerHolds(p)'
    BY <1>0, CallTypes, HeadShaType
    DEF TypeOK, AnswersHold, AnswerHolds, Answered, AnswerWhenDone, FastForwardOnly, Answer, NoAnswer, Card, NewImage, CallFits, InTransaction
  <2> QED
    BY <2>1, OthersKeepAnswers DEF TypeOK
<1> QED
  BY <1>1, <1>2, <1>3, <1>4, <1>5, <1>6, DiskUnchanged

\* A transaction that is rolled back leaves the disk as it was.
LEMMA RollbackInv ==
    ASSUME IInv, NEW p \in Callers, Rollback(p)
    PROVE  IInv'
<1> USE CallsAssumption, StoreAssumption DEF Rollback, EndWith, disk, IInv
<1>0. pc[p] # "idle" /\ call[p] \in Calls /\ Card(p) \in Cards
  BY CallTypes DEF CallFits, Card, InTransaction
<1>1. TypeOK'
  BY <1>0, ReturnTypes, HeadShaType DEF TypeOK, Steps, InTransaction, Outcomes, Answers, NoAnswer, Answer
<1>2. LockHeld'
  BY DEF TypeOK, LockHeld, InTransaction, Return
<1>3. CallFits'
  BY DEF TypeOK, CallFits, InTransaction, Return
<1>4. DecisionStands'
  BY <1>0, CallTypes DEF TypeOK, DecisionStands, CallFits, BlobsWhole, EveryVersionReadable, HeadSha, NewImage, Card, Return
<1>5. AnswerWhenDone'
  BY DEF TypeOK, AnswerWhenDone, Answered, Answer, NoAnswer, InTransaction, Return
<1>6. AnswersHold'
  <2>1. Answered(p)' => AnswerHolds(p)'
    BY <1>0, CallTypes, HeadShaType
    DEF TypeOK, AnswersHold, AnswerHolds, Answered, AnswerWhenDone, FastForwardOnly, Answer, NoAnswer, Card, NewImage, CallFits, InTransaction, Return
  <2> QED
    BY <2>1, OthersKeepAnswers DEF TypeOK, Return
<1> QED
  BY <1>1, <1>2, <1>3, <1>4, <1>5, <1>6, DiskUnchanged

\* The digest read for the body is that of the answered version or a later one, if it is read.
LEMMA RespondInv ==
    ASSUME IInv, NEW p \in Callers, Respond(p)
    PROVE  IInv'
<1> USE CallsAssumption, StoreAssumption DEF Respond, Goto, disk, IInv
<1>0. pc[p] # "idle" /\ call[p] \in Calls /\ Card(p) \in Cards
  BY CallTypes DEF CallFits, Card, InTransaction
<1>1. TypeOK'
  BY <1>0, HeadShaType DEF TypeOK, Steps, InTransaction, Outcomes, Answers, NoAnswer, Answer
<1>2. LockHeld'
  BY DEF TypeOK, LockHeld, InTransaction
<1>3. CallFits'
  BY DEF TypeOK, CallFits, InTransaction
<1>4. DecisionStands'
  BY <1>0, CallTypes DEF TypeOK, DecisionStands, CallFits, BlobsWhole, EveryVersionReadable, HeadSha, NewImage, Card
<1>5. AnswerWhenDone'
  BY DEF TypeOK, AnswerWhenDone, Answered, Answer, NoAnswer, InTransaction
<1>6. AnswersHold'
  <2>1. Answered(p)' => AnswerHolds(p)'
    <3>1. /\ answer[p].version \in 1..head[Card(p)]
          /\ answer[p].outcome \in {"created", "unchanged"}
      BY <1>0 DEF TypeOK, AnswersHold, AnswerHolds, Answered, AnswerWhenDone, FastForwardOnly, Card
    <3>2. body'[p] # None =>
            \E w \in answer[p].version..head[Card(p)] : versions[Card(p)][w].sha = body'[p]
      <4>1. CASE UNCHANGED body
        BY <1>0, <4>1 DEF AnswerWhenDone
      <4>2. CASE body' = [body EXCEPT ![p] = HeadSha(Card(p))]
        BY <1>0, <3>1, <4>2, HeadShaType DEF TypeOK, HeadSha, FastForwardOnly
      <4> QED
        BY <4>1, <4>2
    <3> QED
      BY <1>0, <3>1, <3>2 DEF TypeOK, AnswersHold, AnswerHolds, Answered, Card
  <2> QED
    BY <2>1, OthersKeepAnswers DEF TypeOK
<1> QED
  BY <1>1, <1>2, <1>3, <1>4, <1>5, <1>6, DiskUnchanged

\* A caller that leaves takes its answer with it.
LEMMA LeaveInv ==
    ASSUME IInv, NEW p \in Callers, Leave(p)
    PROVE  IInv'
<1> USE CallsAssumption, StoreAssumption DEF Leave, disk, IInv
<1>0. pc[p] # "idle" /\ call[p] \in Calls /\ Card(p) \in Cards
  BY CallTypes DEF CallFits, Card, InTransaction
<1>1. TypeOK'
  BY <1>0, HeadShaType DEF TypeOK, Steps, InTransaction, Outcomes, Answers, NoAnswer, Answer
<1>2. LockHeld'
  BY DEF TypeOK, LockHeld, InTransaction
<1>3. CallFits'
  BY DEF TypeOK, CallFits, InTransaction
<1>4. DecisionStands'
  BY <1>0, CallTypes DEF TypeOK, DecisionStands, CallFits, BlobsWhole, EveryVersionReadable, HeadSha, NewImage, Card
<1>5. AnswerWhenDone'
  BY DEF TypeOK, AnswerWhenDone, Answered, Answer, NoAnswer, InTransaction
<1>6. AnswersHold'
  <2>1. Answered(p)' => AnswerHolds(p)'
    BY <1>0, CallTypes, HeadShaType
    DEF TypeOK, AnswersHold, AnswerHolds, Answered, AnswerWhenDone, FastForwardOnly, Answer, NoAnswer, Card, NewImage, CallFits, InTransaction
  <2> QED
    BY <2>1, OthersKeepAnswers DEF TypeOK
<1> QED
  BY <1>1, <1>2, <1>3, <1>4, <1>5, <1>6, DiskUnchanged

\* A crash keeps the disk and forgets every caller.
LEMMA CrashInv ==
    ASSUME IInv, Crash
    PROVE  IInv'
<1> USE CallsAssumption, StoreAssumption DEF Crash, disk, IInv
<1>1. TypeOK'
  BY DEF TypeOK, Steps, Answers, Answer, NoAnswer, Outcomes
<1>2. LockHeld' /\ CallFits' /\ DecisionStands' /\ AnswerWhenDone'
  BY DEF LockHeld, CallFits, DecisionStands, AnswerWhenDone, Answered, InTransaction
<1>3. AnswersHold'
  BY DEF AnswersHold, Answered
<1> QED
  BY <1>1, <1>2, <1>3, DiskUnchanged

\* A finished blob only makes more versions readable.
LEMMA ReplaceBlobInv ==
    ASSUME IInv, NEW p \in Callers, ReplaceBlob(p)
    PROVE  IInv'
<1> USE CallsAssumption, StoreAssumption DEF ReplaceBlob, Goto, IInv
<1>0. /\ pc[p] = "replace" /\ call[p] \in Calls /\ NewImage(p) \in Images
      /\ call[p].op # "rollback"
  BY CallTypes DEF CallFits, NewImage
<1>1. TypeOK'
  BY <1>0 DEF TypeOK, Steps, InTransaction
<1>2. LockHeld' /\ CallFits' /\ AnswerWhenDone'
  BY DEF TypeOK, LockHeld, CallFits, AnswerWhenDone, Answered, InTransaction
<1>3. BlobsWhole' /\ EveryVersionReadable'
  BY DEF TypeOK, BlobsWhole, EveryVersionReadable
<1>4. FastForwardOnly' /\ RetriesAreFree'
  BY DEF FastForwardOnly, RetriesAreFree
<1>5. DecisionStands'
  <2> SUFFICES ASSUME NEW q \in Callers, pc'[q] \in {"write", "replace", "commit"}
               PROVE  /\ base[q] = head[Card(q)]
                      /\ HeadSha(Card(q)) # NewImage(q)
                      /\ call[q].op = "rollback" => call[q].target \in DOMAIN versions[Card(q)]
                      /\ call[q].op # "rollback" => call[q].parent = base[q]
                      /\ pc'[q] = "commit" => blobs'[NewImage(q)] = "whole"
    BY DEF DecisionStands, Card, HeadSha, NewImage
  <2>1. CASE q = p
    BY <1>0, <2>1 DEF TypeOK, DecisionStands
  <2>2. CASE q # p
    <3>1. pc[q] = pc'[q]
      BY <2>2 DEF TypeOK
    <3> QED
      BY <1>0, <2>2, <3>1 DEF LockHeld, InTransaction
  <2> QED
    BY <2>1, <2>2
<1>6. AnswersHold'
  BY <1>0 DEF TypeOK, AnswersHold, AnswerHolds, Answered
<1> QED
  BY <1>1, <1>2, <1>3, <1>4, <1>5, <1>6

\* What a COMMIT does to the tables: one row on top of the head of one card.
LEMMA CommitGrows ==
    ASSUME IInv, NEW p \in Callers, CommitVersion(p)
    PROVE  LET c == Card(p)
               v == head[c] + 1 IN
           /\ c \in Cards
           /\ NewImage(p) \in ValidImages
           /\ DOMAIN versions' = Cards
           /\ DOMAIN versions'[c] = 1..v
           /\ versions'[c][v] = [sha |-> NewImage(p), parent |-> head[c]]
           /\ \A w \in 1..head[c] : versions'[c][w] = versions[c][w]
           /\ \A d \in Cards \ {c} : versions'[d] = versions[d]
           /\ head' = [head EXCEPT ![c] = v]
           /\ base[p] = head[c]
           /\ pc[p] = "commit"
           /\ call[p] \in Calls
<1> USE CallsAssumption DEF IInv
<1>1. /\ pc[p] = "commit" /\ call[p] \in Calls /\ Card(p) \in Cards
      /\ base[p] = head[Card(p)] /\ head[Card(p)] \in Nat
  BY CallTypes DEF CommitVersion, CallFits, Card, DecisionStands, TypeOK
<1>2. NewImage(p) \in ValidImages
  BY <1>1 DEF NewImage, CallFits, DecisionStands, InTransaction, TypeOK, Row, Card
<1>3. /\ DOMAIN versions = Cards
      /\ DOMAIN versions[Card(p)] = 1..head[Card(p)]
  BY <1>1 DEF TypeOK, FastForwardOnly
<1> DEFINE c == Card(p)
           v == head[c] + 1
           row == [sha |-> NewImage(p), parent |-> head[c]]
           grown == [w \in DOMAIN versions[c] \cup {v} |->
                        IF w \in DOMAIN versions[c] THEN versions[c][w] ELSE row]
<1>4. versions' = [versions EXCEPT ![c] = grown] /\ head' = [head EXCEPT ![c] = v]
  BY <1>1 DEF CommitVersion, WithRow
<1>5. versions'[c] = grown /\ DOMAIN versions' = Cards
      /\ \A d \in Cards \ {c} : versions'[d] = versions[d]
  BY <1>1, <1>3, <1>4
<1>6. DOMAIN grown = 1..v
  BY <1>1, <1>3
<1>7. grown[v] = row /\ \A w \in 1..head[c] : grown[w] = versions[c][w]
  BY <1>1, <1>3
<1> HIDE DEF grown
<1> QED
  BY <1>1, <1>2, <1>4, <1>5, <1>6, <1>7

\* A COMMIT extends one card's chain by one version and keeps every answer true.
LEMMA CommitVersionInv ==
    ASSUME IInv, NEW p \in Callers, CommitVersion(p)
    PROVE  IInv'
<1> USE CallsAssumption, StoreAssumption
<1> DEFINE c == Card(p)
           v == head[c] + 1
<1>0. /\ c \in Cards /\ NewImage(p) \in ValidImages /\ pc[p] = "commit"
      /\ DOMAIN versions' = Cards
      /\ DOMAIN versions'[c] = 1..v
      /\ versions'[c][v] = [sha |-> NewImage(p), parent |-> head[c]]
      /\ \A w \in 1..head[c] : versions'[c][w] = versions[c][w]
      /\ \A d \in Cards \ {c} : versions'[d] = versions[d]
      /\ head' = [head EXCEPT ![c] = v]
      /\ base[p] = head[c] /\ call[p] \in Calls
  BY CommitGrows
<1>t. /\ head \in [Cards -> Nat] /\ head[c] \in Nat /\ v \in Nat
      /\ pc \in [Callers -> Steps] /\ answer \in [Callers -> Answers]
  BY <1>0 DEF IInv, TypeOK
<1>step. /\ lock' = NoOne /\ UNCHANGED <<blobs, call, base, body>>
         /\ Return(p, Answer("created", v))
  BY <1>0 DEF CommitVersion
<1>q. \A q \in Callers \ {p} : pc'[q] = pc[q] /\ pc[q] \notin InTransaction /\ answer'[q] = answer[q]
  BY <1>0, <1>t, <1>step DEF IInv, LockHeld, InTransaction, Return
<1>p. pc'[p] \in {"respond", "done"} /\ answer'[p] = Answer("created", v)
      /\ (pc'[p] = "respond" => answer'[p].outcome = "created")
  BY <1>t, <1>step DEF Return, Answer
<1>old. \A d \in Cards : /\ head[d] \in Nat
                         /\ DOMAIN versions[d] = 1..head[d]
                         /\ DOMAIN versions'[d] = 1..head'[d]
                         /\ head[d] <= head'[d]
                         /\ \A w \in 1..head[d] : versions'[d][w] = versions[d][w]
  BY <1>0, <1>t DEF IInv, FastForwardOnly
<1> HIDE DEF c, v
<1>1. TypeOK'
  <2>1. pc' \in [Callers -> Steps] /\ answer' \in [Callers -> Answers]
    BY <1>t, <1>step, ReturnTypes DEF IInv, Outcomes
  <2>2. head' \in [Cards -> Nat]
    BY <1>0, <1>t
  <2>3. \A d \in Cards : DOMAIN versions'[d] \subseteq Nat
    BY <1>old, <2>2
  <2>4. \A d \in Cards : \A w \in DOMAIN versions'[d] : versions'[d][w] \in Row
    <3> SUFFICES ASSUME NEW d \in Cards, NEW w \in DOMAIN versions'[d]
                 PROVE  versions'[d][w] \in Row
      OBVIOUS
    <3>1. CASE w \in 1..head[d]
      BY <1>old, <3>1 DEF IInv, TypeOK
    <3>2. CASE w \notin 1..head[d]
      <4>1. d = c /\ w = v
        BY <1>0, <1>t, <1>old, <3>2 DEF v
      <4> QED
        BY <1>0, <1>t, <4>1 DEF Row
    <3> QED
      BY <3>1, <3>2
  <2> QED
    BY <1>0, <1>step, <2>1, <2>2, <2>3, <2>4 DEF IInv, TypeOK
<1>2. LockHeld'
  BY <1>q, <1>p, <1>step DEF LockHeld, InTransaction
<1>3. CallFits'
  BY <1>0, <1>q, <1>p, <1>step DEF IInv, CallFits, InTransaction
<1>4. DecisionStands'
  BY <1>q, <1>p DEF DecisionStands, InTransaction
<1>5. AnswerWhenDone'
  BY <1>0, <1>q, <1>p, <1>step DEF IInv, AnswerWhenDone, Answered, Answer
<1>6. BlobsWhole'
  BY <1>step DEF IInv, BlobsWhole
<1>7. FastForwardOnly'
  <2> SUFFICES ASSUME NEW d \in Cards, NEW w \in 1..head'[d]
               PROVE  versions'[d][w].parent = w - 1
    BY <1>old DEF FastForwardOnly
  <2>1. CASE w \in 1..head[d]
    BY <1>old, <2>1 DEF IInv, FastForwardOnly
  <2>2. CASE w \notin 1..head[d]
    <3>1. d = c /\ w = v
      BY <1>0, <1>t, <1>old, <2>2 DEF v
    <3> QED
      BY <1>0, <1>t, <3>1 DEF v
  <2> QED
    BY <2>1, <2>2
<1>8. EveryVersionReadable'
  <2> SUFFICES ASSUME NEW d \in Cards, NEW w \in 1..head'[d]
               PROVE  blobs[versions'[d][w].sha] = "whole"
    BY <1>old, <1>step DEF EveryVersionReadable
  <2>1. CASE w \in 1..head[d]
    BY <1>old, <2>1 DEF IInv, EveryVersionReadable
  <2>2. CASE w \notin 1..head[d]
    <3>1. d = c /\ w = v
      BY <1>0, <1>t, <1>old, <2>2 DEF v
    <3> QED
      BY <1>0, <1>t, <3>1 DEF IInv, DecisionStands
  <2> QED
    BY <2>1, <2>2
<1>9. RetriesAreFree'
  <2> SUFFICES ASSUME NEW d \in Cards, NEW w \in 2..head'[d]
               PROVE  versions'[d][w].sha # versions'[d][w - 1].sha
    BY DEF RetriesAreFree
  <2>1. CASE w \in 2..head[d]
    <3>1. w \in 1..head[d] /\ w - 1 \in 1..head[d]
      BY <1>old, <2>1
    <3> QED
      BY <1>old, <2>1, <3>1 DEF IInv, RetriesAreFree
  <2>2. CASE w \notin 2..head[d]
    <3>1. d = c /\ w = v /\ w - 1 = head[c] /\ head[c] \in 1..head[c]
      BY <1>0, <1>t, <1>old, <2>2 DEF v
    <3>2. versions[c][head[c]].sha # NewImage(p)
      BY <1>0, <1>t, <3>1 DEF IInv, DecisionStands, HeadSha, c
    <3> QED
      BY <1>0, <1>t, <1>old, <3>1, <3>2
  <2> QED
    BY <2>1, <2>2
<1>10. AnswersHold'
  <2> SUFFICES ASSUME NEW q \in Callers, Answered(q)'
               PROVE  AnswerHolds(q)'
    BY DEF AnswersHold
  <2>1. CASE q = p
    <3>1. body[p] = None
      BY <1>0 DEF IInv, AnswerWhenDone
    <3>2. /\ call[p].op = "rollback" => /\ call[p].target \in 1..head[c]
                                        /\ NewImage(p) = versions[c][call[p].target].sha
          /\ call[p].op # "rollback" => /\ call[p].parent = head[c]
                                        /\ NewImage(p) = call[p].image
      BY <1>0, <1>old DEF IInv, DecisionStands, NewImage, c
    <3>3. v \in 1..v /\ call[p].card = c
      BY <1>t DEF v, c, Card
    <3>4. call[p].op = "rollback" => /\ call[p].target \in 1..v
                                     /\ versions'[c][call[p].target] = versions[c][call[p].target]
      BY <1>0, <1>t, <1>old, <3>2 DEF v
    <3> QED
      BY <1>0, <1>p, <1>step, <2>1, <3>1, <3>2, <3>3, <3>4 DEF AnswerHolds, Answer
  <2>2. CASE q # p
    <3>1. Answered(q) /\ AnswerHolds(q) /\ answer'[q] = answer[q] /\ call[q] \in Calls
          /\ answer[q].version \in Nat
      BY <1>q, <1>t, <2>2 DEF IInv, AnswersHold, Answered, CallFits, Answers
    <3>2. call[q].card \in Cards
      BY <3>1, CallTypes
    <3>3. body[q] # None => answer[q].outcome \in {"created", "unchanged"}
      BY DEF IInv, AnswerWhenDone
    <3> DEFINE d == call[q].card
    <3>4. /\ head[d] \in Nat /\ head'[d] \in Nat /\ head[d] <= head'[d]
          /\ DOMAIN versions[d] = 1..head[d]
          /\ DOMAIN versions'[d] = 1..head'[d]
          /\ \A w \in 1..head[d] : versions'[d][w] = versions[d][w] /\ w \in 1..head'[d]
      BY <1>0, <1>t, <1>1, <1>old, <3>2 DEF TypeOK
    <3>5. body[q] # None => \E w \in answer[q].version..head'[d] : versions'[d][w].sha = body[q]
      <4> SUFFICES ASSUME body[q] # None
                   PROVE  \E w \in answer[q].version..head'[d] : versions'[d][w].sha = body[q]
        OBVIOUS
      <4>1. answer[q].version \in 1..head[d]
        BY <3>1, <3>3, <3>4 DEF AnswerHolds
      <4>2. PICK w \in answer[q].version..head[d] : versions[d][w].sha = body[q]
        BY <3>1 DEF AnswerHolds
      <4>3. w \in 1..head[d] /\ w \in answer[q].version..head'[d]
        BY <3>4, <4>1, <4>2
      <4> QED
        BY <3>4, <4>2, <4>3
    <3>6. answer[q].outcome = "conflict" =>
             answer[q].version \in 0..head'[d] /\ call[q].parent # answer[q].version
      BY <3>1, <3>4 DEF AnswerHolds
    <3> QED
      BY <1>step, <3>1, <3>4, <3>5, <3>6 DEF AnswerHolds
  <2> QED
    BY <2>1, <2>2
<1> QED
  BY <1>1, <1>2, <1>3, <1>4, <1>5, <1>6, <1>7, <1>8, <1>9, <1>10 DEF IInv

\* The invariant is inductive.
LEMMA NextInv == IInv /\ [Next]_vars => IInv'
<1> SUFFICES ASSUME IInv, [Next]_vars PROVE IInv'
  OBVIOUS
<1>1. ASSUME NEW p \in Callers, NEW r \in Calls, Accept(p, r) PROVE IInv'
  BY <1>1, AcceptInv
<1>2. ASSUME NEW p \in Callers, Serve(p) PROVE IInv'
  BY <1>2, TouchDeviceInv, ValidateInv, CheckAbsentInv, BeginImmediateInv, LockTimeoutInv,
     DecidePushInv, DecideRollbackInv, WriteTempInv, ReplaceBlobInv, CommitVersionInv,
     RespondInv, LeaveInv
  DEF Serve
<1>3. ASSUME NEW p \in Callers, Rollback(p) PROVE IInv'
  BY <1>3, RollbackInv
<1>4. CASE Crash
  BY <1>4, CrashInv
<1>5. CASE UNCHANGED vars
  <2> USE <1>5 DEF vars, IInv
  <2>1. TypeOK' /\ LockHeld' /\ CallFits' /\ AnswerWhenDone'
    BY DEF TypeOK, LockHeld, CallFits, AnswerWhenDone, Answered
  <2>2. DecisionStands'
    BY DEF DecisionStands, HeadSha, NewImage, Card
  <2>3. AnswersHold'
    BY DEF AnswersHold, AnswerHolds, Answered
  <2> QED
    BY <2>1, <2>2, <2>3, DiskUnchanged DEF disk
<1> QED
  BY <1>1, <1>2, <1>3, <1>4, <1>5 DEF Next

\* The inductive invariant holds in every reachable state.
THEOREM Invariance == Spec => []IInv
<1>1. Init => IInv
  BY InitInv
<1>2. IInv /\ [Next]_vars => IInv'
  BY NextInv
<1> QED
  BY <1>1, <1>2, PTL DEF Spec

\* Every variable keeps its type, and no image the parser refused is ever stored.
THEOREM TypeCorrect == Spec => []TypeOK
BY Invariance, PTL DEF IInv

\* The history of a card is one chain without gaps, however many threads push,
\* roll back and format at once, and wherever the process dies.
THEOREM HistoryIsOneChain == Spec => []FastForwardOnly
BY Invariance, PTL DEF IInv

\* Every version in the database has its whole blob on disk.
THEOREM VersionsStayReadable == Spec => []EveryVersionReadable
BY Invariance, PTL DEF IInv

\* No version repeats the image it follows, so a retried push never makes one.
THEOREM RetriesMakeNoVersion == Spec => []RetriesAreFree
BY Invariance, PTL DEF IInv

\* Whatever a caller has been answered is true and stays true.
THEOREM AnswersStayTrue == Spec => []AnswersHold
BY Invariance, PTL DEF IInv

\* Nothing in a card's history is ever changed, removed or passed over.
THEOREM HistoryIsAppendOnly == Spec => AppendOnly
<1> DEFINE Kept == \A c \in Cards :
              /\ head'[c] >= head[c]
              /\ \A v \in DOMAIN versions[c] :
                    v \in DOMAIN versions'[c] /\ versions'[c][v] = versions[c][v]
<1>1. ASSUME IInv, UNCHANGED disk PROVE Kept
  BY <1>1 DEF disk, IInv, TypeOK
<1>2. ASSUME IInv, NEW p \in Callers, ReplaceBlob(p) PROVE Kept
  BY <1>2 DEF ReplaceBlob, IInv, TypeOK
<1>3. ASSUME IInv, NEW p \in Callers, CommitVersion(p) PROVE Kept
  <2>1. PICK d \in Cards :
           /\ head' = [head EXCEPT ![d] = head[d] + 1]
           /\ DOMAIN versions'[d] = 1..head[d] + 1
           /\ \A w \in 1..head[d] : versions'[d][w] = versions[d][w]
           /\ \A e \in Cards \ {d} : versions'[e] = versions[e]
    BY <1>3, CommitGrows
  <2>2. head \in [Cards -> Nat] /\ DOMAIN versions[d] = 1..head[d]
    BY <1>3 DEF IInv, TypeOK, FastForwardOnly
  <2> QED
    BY <2>1, <2>2
<1>4. IInv /\ [Next]_vars => [Kept]_vars
  <2> SUFFICES ASSUME IInv, Next PROVE Kept
    OBVIOUS
  <2>1. ASSUME NEW p \in Callers, NEW r \in Calls, Accept(p, r) PROVE Kept
    BY <1>1, <2>1 DEF Accept
  <2>2. ASSUME NEW p \in Callers, Serve(p) PROVE Kept
    BY <1>1, <1>2, <1>3, <2>2 DEF Serve, TouchDevice, Validate, CheckAbsent, BeginImmediate,
       LockTimeout, DecidePush, DecideRollback, WriteTemp, Respond, Leave, EndWith, Proceed
  <2>3. ASSUME NEW p \in Callers, Rollback(p) PROVE Kept
    BY <1>1, <2>3 DEF Rollback, EndWith
  <2>4. CASE Crash
    BY <1>1, <2>4 DEF Crash
  <2> QED
    BY <2>1, <2>2, <2>3, <2>4 DEF Next
<1> QED
  BY Invariance, <1>4, PTL DEF Spec, AppendOnly

----------------------------------------------------------------------------
(* The store implements CardHistory.                                       *)

\* The rows of a card, read as a sequence of images.
LEMMA HistoryIsSequence ==
    ASSUME IInv, NEW c \in Cards
    PROVE  /\ HistoryOf(c) \in Seq(Images)
           /\ Len(HistoryOf(c)) = head[c]
           /\ DOMAIN HistoryOf(c) = DOMAIN versions[c]
           /\ \A v \in DOMAIN versions[c] : HistoryOf(c)[v] = versions[c][v].sha
<1>1. head[c] \in Nat /\ DOMAIN versions[c] = 1..head[c]
  BY DEF IInv, TypeOK, FastForwardOnly
<1>2. \A v \in 1..head[c] : versions[c][v].sha \in Images
  BY <1>1, CallsAssumption DEF IInv, TypeOK, Row
<1> QED
  BY <1>1, <1>2 DEF HistoryOf

\* The store reads the head of a card as the abstract history does.
LEMMA HeadAgrees ==
    ASSUME IInv, NEW c \in Cards, NEW i \in Images
    PROVE  (HeadSha(c) = i) <=> (HistoryOf(c) # <<>> /\ HistoryOf(c)[Len(HistoryOf(c))] = i)
<1>1. /\ head[c] \in Nat /\ DOMAIN versions[c] = 1..head[c]
      /\ Len(HistoryOf(c)) = head[c] /\ HistoryOf(c) \in Seq(Images)
      /\ \A v \in 1..head[c] : HistoryOf(c)[v] = versions[c][v].sha
  BY HistoryIsSequence DEF IInv, TypeOK, FastForwardOnly
<1>2. CASE head[c] = 0
  BY <1>1, <1>2, CallsAssumption DEF HeadSha
<1>3. CASE head[c] # 0
  BY <1>1, <1>3 DEF HeadSha
<1> QED
  BY <1>2, <1>3

\* A COMMIT appends the new image to the history of its card and to no other.
LEMMA CommitAppends ==
    ASSUME IInv, IInv', NEW p \in Callers, CommitVersion(p)
    PROVE  [c \in Cards |-> HistoryOf(c)]' =
              [[c \in Cards |-> HistoryOf(c)] EXCEPT ![Card(p)] = Append(@, NewImage(p))]
<1>0. PICK c \in Cards :
         /\ c = Card(p)
         /\ NewImage(p) \in Images
         /\ versions'[c][head[c] + 1] = [sha |-> NewImage(p), parent |-> head[c]]
         /\ \A w \in 1..head[c] : versions'[c][w] = versions[c][w]
         /\ \A d \in Cards \ {c} : versions'[d] = versions[d]
         /\ head' = [head EXCEPT ![c] = head[c] + 1]
  BY CommitGrows, CallsAssumption
<1>1. head \in [Cards -> Nat] /\ head[c] \in Nat /\ head'[c] = head[c] + 1
  BY <1>0 DEF IInv, TypeOK
<1>2. \A d \in Cards \ {c} : HistoryOf(d)' = HistoryOf(d)
  BY <1>0, <1>1 DEF HistoryOf
<1>3. HistoryOf(c)' = Append(HistoryOf(c), NewImage(p))
  <2>1. HistoryOf(c) \in Seq(Images) /\ Len(HistoryOf(c)) = head[c]
        /\ \A w \in 1..head[c] : HistoryOf(c)[w] = versions[c][w].sha
    BY <1>0, <1>1, HistoryIsSequence DEF HistoryOf
  <2>2. HistoryOf(c)' \in Seq(Images)
    <3>1. \A w \in 1..head'[c] : versions'[c][w].sha \in Images
      BY <1>0, <1>1, CallsAssumption DEF IInv, TypeOK, FastForwardOnly, Row
    <3> QED
      BY <1>1, <3>1 DEF HistoryOf
  <2>3. Len(HistoryOf(c)') = head[c] + 1
    BY <1>1 DEF HistoryOf
  <2>4. \A w \in 1..head[c] + 1 : HistoryOf(c)'[w] = versions'[c][w].sha
    BY <1>1 DEF HistoryOf
  <2>5. /\ Append(HistoryOf(c), NewImage(p)) \in Seq(Images)
        /\ Len(Append(HistoryOf(c), NewImage(p))) = head[c] + 1
        /\ \A w \in 1..head[c] : Append(HistoryOf(c), NewImage(p))[w] = HistoryOf(c)[w]
        /\ Append(HistoryOf(c), NewImage(p))[head[c] + 1] = NewImage(p)
    BY <1>0, <2>1, AppendProperties
  <2>6. \A w \in 1..head[c] + 1 : HistoryOf(c)'[w] = Append(HistoryOf(c), NewImage(p))[w]
    <3> SUFFICES ASSUME NEW w \in 1..head[c] + 1
                 PROVE  versions'[c][w].sha = Append(HistoryOf(c), NewImage(p))[w]
      BY <2>4
    <3>1. w \in 1..head[c] \/ w = head[c] + 1
      BY <1>1
    <3> QED
      BY <1>0, <2>1, <2>5, <3>1
  <2> QED
    BY <2>2, <2>3, <2>5, <2>6, SeqEqual
<1>4. [d \in Cards |-> HistoryOf(d)]' = [d \in Cards |-> HistoryOf(d)']
  OBVIOUS
<1> QED
  BY <1>0, <1>2, <1>3, <1>4

\* A step that leaves the disk alone leaves the history alone.
LEMMA HistoryUnchanged ==
    ASSUME UNCHANGED disk
    PROVE  [c \in Cards |-> HistoryOf(c)]' = [c \in Cards |-> HistoryOf(c)]
BY DEF disk, HistoryOf

\* Giving an answer is the abstract Reply.
LEMMA ReturnIsReply ==
    ASSUME IInv, NEW p \in Callers, NEW a, pc[p] \notin {"idle", "respond", "done"},
           Return(p, a), UNCHANGED call
    PROVE  History!Reply(p, a)
<1>1. pc \in [Callers -> Steps]
  BY DEF IInv, TypeOK
<1>2. PhaseOf(p) = "asked" /\ PhaseOf(p)' = "answered"
  BY <1>1 DEF PhaseOf, Answered, Return
<1>3. \A q \in Callers \ {p} : PhaseOf(q)' = PhaseOf(q)
  BY <1>1 DEF PhaseOf, Answered, Return
<1>4. [q \in Callers |-> PhaseOf(q)]' = [[q \in Callers |-> PhaseOf(q)] EXCEPT ![p] = "answered"]
  BY <1>2, <1>3
<1> QED
  BY <1>2, <1>4 DEF History!Reply, Return

\* A step between being asked and being answered, or between being answered and
\* leaving, is invisible.
LEMMA GotoIsStutter ==
    ASSUME IInv, NEW p \in Callers, NEW s \in Steps, pc[p] # "idle", s # "idle",
           Goto(p, s), pc[p] \in {"respond", "done"} <=> s \in {"respond", "done"},
           UNCHANGED call, [c \in Cards |-> HistoryOf(c)]' = [c \in Cards |-> HistoryOf(c)]
    PROVE  UNCHANGED History!vars
<1>1. pc \in [Callers -> Steps]
  BY DEF IInv, TypeOK
<1>2. \A q \in Callers : PhaseOf(q)' = PhaseOf(q)
  BY <1>1 DEF PhaseOf, Answered, Goto
<1>3. [q \in Callers |-> PhaseOf(q)]' = [q \in Callers |-> PhaseOf(q)]
  BY <1>2
<1> QED
  BY <1>3 DEF History!vars, Goto

\* A call that is accepted is a call that is asked.
LEMMA AcceptIsAsk ==
    ASSUME IInv, NEW p \in Callers, NEW r \in Calls, Accept(p, r)
    PROVE  History!Ask(p, r)
<1>1. PICK s \in Start(r) : pc' = [pc EXCEPT ![p] = s]
  BY DEF Accept
<1>2. s \in {"touch", "validate", "check", "begin"}
  BY CallTypes DEF Start, Calls, PushCalls, FormatCalls, RollbackCalls
<1>3. pc \in [Callers -> Steps] /\ pc[p] = "idle"
  BY DEF IInv, TypeOK, Accept
<1>4. PhaseOf(p) = "idle" /\ PhaseOf(p)' = "asked"
      /\ \A q \in Callers \ {p} : PhaseOf(q)' = PhaseOf(q)
  BY <1>1, <1>2, <1>3 DEF PhaseOf, Answered
<1>5. [q \in Callers |-> PhaseOf(q)]' = [[q \in Callers |-> PhaseOf(q)] EXCEPT ![p] = "asked"]
  BY <1>4
<1> QED
  BY <1>4, <1>5, HistoryUnchanged DEF History!Ask, Accept

\* Every refusal or error is the abstract Fail.
LEMMA EndIsFail ==
    ASSUME IInv, NEW p \in Callers, NEW o \in {"invalid", "error"},
           pc[p] \notin {"idle", "respond", "done"}, Return(p, Answer(o, 0)),
           UNCHANGED call, UNCHANGED disk
    PROVE  History!Fail(p)
<1>1. History!Reply(p, History!Answer(o, 0))
  BY ReturnIsReply DEF History!Answer, Answer
<1> QED
  BY <1>1, HistoryUnchanged DEF History!Fail

\* What the decision of a call is based on, in the terms of the abstract history.
LEMMA DecisionAgrees ==
    ASSUME IInv, NEW p \in Callers, pc[p] \in InTransaction \cup {"check"}
    PROVE  LET h == [c \in Cards |-> HistoryOf(c)] IN
           /\ call[p] \in Calls /\ Card(p) \in Cards /\ h[Card(p)] = HistoryOf(Card(p))
           /\ Len(h[Card(p)]) = head[Card(p)]
           /\ DOMAIN h[Card(p)] = DOMAIN versions[Card(p)]
           /\ \A v \in DOMAIN versions[Card(p)] : /\ h[Card(p)][v] = versions[Card(p)][v].sha
                                                  /\ h[Card(p)][v] \in Images
           /\ \A i \in Images : HeadSha(Card(p)) = i <=> History!HeadIs(Card(p), i)
<1>1. call[p] \in Calls /\ Card(p) \in Cards
  BY CallTypes DEF IInv, CallFits, Card, InTransaction
<1>2. \A v \in DOMAIN versions[Card(p)] : versions[Card(p)][v].sha \in Images
  BY <1>1, CallsAssumption DEF IInv, TypeOK, Row
<1>3. \A i \in Images : HeadSha(Card(p)) = i <=> History!HeadIs(Card(p), i)
  BY <1>1, HeadAgrees DEF History!HeadIs
<1> QED
  BY <1>1, <1>2, <1>3, HistoryIsSequence

\* The store decides a push as CardHistory does, or has not decided it yet.
LEMMA DecidePushRefines ==
    ASSUME IInv, NEW p \in Callers, DecidePush(p)
    PROVE  History!DecidePush(p) \/ UNCHANGED History!vars
<1> DEFINE h == head[Card(p)]
<1>0. pc[p] = "decide" /\ call[p].op \in {"push", "format"}
  BY DEF DecidePush
<1>1. call[p] \in Calls /\ call[p].image \in Images
  BY <1>0, DecisionAgrees, CallTypes DEF InTransaction
<1>2. CASE HeadSha(Card(p)) = call[p].image /\ EndWith(p, Answer("unchanged", h))
  <2>1. History!Reply(p, Answer("unchanged", h))
    BY <1>0, <1>2, ReturnIsReply DEF EndWith
  <2> QED
    BY <1>0, <1>1, <1>2, <2>1, DecisionAgrees, HistoryUnchanged
    DEF History!DecidePush, History!Answer, Answer, EndWith, Card, InTransaction
<1>3. CASE /\ HeadSha(Card(p)) # call[p].image
           /\ call[p].parent # h
           /\ EndWith(p, Answer("conflict", h))
  <2>1. History!Reply(p, Answer("conflict", h))
    BY <1>0, <1>3, ReturnIsReply DEF EndWith
  <2> QED
    BY <1>0, <1>1, <1>3, <2>1, DecisionAgrees, HistoryUnchanged
    DEF History!DecidePush, History!Answer, Answer, EndWith, Card, InTransaction
<1>4. CASE Proceed(p, "write")
  BY <1>0, <1>4, GotoIsStutter, HistoryUnchanged DEF Proceed, Steps, InTransaction
<1> QED
  BY <1>2, <1>3, <1>4 DEF DecidePush

\* The store decides a rollback as CardHistory does, or has not decided it yet.
LEMMA DecideRollbackRefines ==
    ASSUME IInv, NEW p \in Callers, DecideRollback(p)
    PROVE  History!DecideRollback(p) \/ UNCHANGED History!vars
<1> DEFINE h == head[Card(p)]
           found == call[p].target \in DOMAIN versions[Card(p)]
<1>0. pc[p] = "decide" /\ call[p].op = "rollback"
  BY DEF DecideRollback
<1>1. CASE ~ found /\ EndWith(p, Answer("notfound", 0))
  <2>1. History!Reply(p, Answer("notfound", 0))
    BY <1>0, <1>1, ReturnIsReply DEF EndWith
  <2> QED
    BY <1>0, <1>1, <2>1, DecisionAgrees, HistoryUnchanged
    DEF History!DecideRollback, History!Answer, Answer, EndWith, Card, InTransaction
<1>2. CASE found /\ HeadSha(Card(p)) = NewImage(p) /\ EndWith(p, Answer("unchanged", h))
  <2>1. History!Reply(p, Answer("unchanged", h))
    BY <1>0, <1>2, ReturnIsReply DEF EndWith
  <2>2. NewImage(p) = HistoryOf(Card(p))[call[p].target] /\ NewImage(p) \in Images
    BY <1>0, <1>2, DecisionAgrees DEF NewImage, InTransaction
  <2> QED
    BY <1>0, <1>2, <2>1, <2>2, DecisionAgrees, HistoryUnchanged
    DEF History!DecideRollback, History!Answer, Answer, EndWith, Card, InTransaction
<1>3. CASE Proceed(p, "commit")
  BY <1>0, <1>3, GotoIsStutter, HistoryUnchanged DEF Proceed, Steps, InTransaction
<1> QED
  BY <1>1, <1>2, <1>3 DEF DecideRollback

\* The COMMIT is the instant at which a call that changes the history is decided.
LEMMA CommitRefines ==
    ASSUME IInv, IInv', NEW p \in Callers, CommitVersion(p)
    PROVE  History!DecidePush(p) \/ History!DecideRollback(p)
<1> DEFINE c == Card(p)
           v == head[c] + 1
<1>0. pc[p] = "commit" /\ base[p] = head[c] /\ UNCHANGED call
      /\ Return(p, Answer("created", v)) /\ NewImage(p) \in ValidImages
  BY CommitGrows DEF CommitVersion
<1>1. History!Reply(p, History!Answer("created", v))
  BY <1>0, ReturnIsReply DEF History!Answer, Answer
<1>2. ~ History!HeadIs(c, NewImage(p)) /\ NewImage(p) \in Images
  BY <1>0, DecisionAgrees, CallsAssumption DEF IInv, DecisionStands, InTransaction
<1>3. History!Append1(p, NewImage(p))
  BY <1>0, <1>1, DecisionAgrees, CommitAppends
  DEF History!Append1, History!Answer, Card, InTransaction
<1>4. CASE call[p].op = "rollback"
  <2>1. /\ call[p].target \in DOMAIN HistoryOf(c)
        /\ HistoryOf(c)[call[p].target] = NewImage(p)
    BY <1>0, <1>4, DecisionAgrees DEF IInv, DecisionStands, NewImage, InTransaction
  <2> QED
    BY <1>0, <1>2, <1>3, <1>4, <2>1, DecisionAgrees DEF History!DecideRollback, Card, InTransaction
<1>5. CASE call[p].op # "rollback"
  <2>1. /\ call[p].parent = head[c] /\ NewImage(p) = call[p].image
        /\ call[p].op \in {"push", "format"}
    BY <1>0, <1>5, DecisionAgrees, CallTypes DEF IInv, DecisionStands, NewImage, InTransaction
  <2> QED
    BY <1>0, <1>2, <1>3, <2>1, DecisionAgrees DEF History!DecidePush, Card, InTransaction
<1> QED
  BY <1>4, <1>5

\* A format refused before its transaction is one CardHistory refuses.
LEMMA CheckAbsentRefines ==
    ASSUME IInv, NEW p \in Callers, CheckAbsent(p)
    PROVE  History!RefuseFormat(p) \/ UNCHANGED History!vars
<1>0. pc[p] = "check" /\ call[p].op = "format"
  BY DEF CheckAbsent, IInv, CallFits
<1>1. CASE Goto(p, "validate")
  BY <1>0, <1>1, GotoIsStutter, HistoryUnchanged DEF CheckAbsent, Steps
<1>2. CASE head[Card(p)] # 0 /\ Return(p, Answer("conflict", head[Card(p)]))
  <2>1. History!Reply(p, Answer("conflict", head[Card(p)]))
    BY <1>0, <1>2, ReturnIsReply DEF CheckAbsent
  <2>2. HistoryOf(Card(p)) # <<>> /\ Len(HistoryOf(Card(p))) = head[Card(p)]
    BY <1>0, <1>2, DecisionAgrees
  <2> QED
    BY <1>0, <2>1, <2>2, DecisionAgrees, HistoryUnchanged
    DEF History!RefuseFormat, History!Answer, Answer, CheckAbsent, Card
<1> QED
  BY <1>1, <1>2 DEF CheckAbsent

\* Every step of the store is a step of the abstract history, or invisible in it.
LEMMA StepRefines ==
    ASSUME IInv, IInv', [Next]_vars
    PROVE  [History!Next]_History!vars
<1>1. ASSUME NEW p \in Callers, NEW r \in Calls, Accept(p, r) PROVE History!Next
  <2>1. History!Ask(p, r)
    BY <1>1, AcceptIsAsk
  <2> QED
    BY <2>1 DEF History!Next, Calls, History!Calls, PushCalls, History!PushCalls,
       FormatCalls, History!FormatCalls, RollbackCalls, History!RollbackCalls
<1>2. ASSUME NEW p \in Callers, Serve(p) PROVE [History!Next]_History!vars
  <2>1. CASE TouchDevice(p)
    BY <2>1, GotoIsStutter, HistoryUnchanged DEF TouchDevice, Steps, InTransaction
  <2>2. CASE Validate(p)
    <3>1. CASE Goto(p, "begin")
      BY <2>2, <3>1, GotoIsStutter, HistoryUnchanged DEF Validate, Steps, InTransaction
    <3>2. CASE Return(p, Answer("invalid", 0))
      BY <2>2, <3>2, EndIsFail DEF Validate, History!Next
    <3> QED
      BY <2>2, <3>1, <3>2 DEF Validate
  <2>3. CASE CheckAbsent(p)
    BY <2>3, CheckAbsentRefines DEF History!Next
  <2>4. CASE BeginImmediate(p)
    BY <2>4, GotoIsStutter, HistoryUnchanged DEF BeginImmediate, Steps, InTransaction
  <2>5. CASE LockTimeout(p)
    BY <2>5, EndIsFail DEF LockTimeout, History!Next
  <2>6. CASE DecidePush(p)
    BY <2>6, DecidePushRefines DEF History!Next
  <2>7. CASE DecideRollback(p)
    BY <2>7, DecideRollbackRefines DEF History!Next
  <2>8. CASE WriteTemp(p)
    BY <2>8, GotoIsStutter, HistoryUnchanged DEF WriteTemp, Steps, InTransaction
  <2>9. CASE ReplaceBlob(p)
    <3>1. [c \in Cards |-> HistoryOf(c)]' = [c \in Cards |-> HistoryOf(c)]
      BY <2>9 DEF ReplaceBlob, HistoryOf
    <3> QED
      BY <2>9, <3>1, GotoIsStutter DEF ReplaceBlob, Steps, InTransaction
  <2>10. CASE CommitVersion(p)
    BY <2>10, CommitRefines DEF History!Next
  <2>11. CASE Respond(p)
    BY <2>11, GotoIsStutter, HistoryUnchanged DEF Respond, Steps
  <2>12. CASE Leave(p)
    <3>1. pc \in [Callers -> Steps] /\ pc[p] = "done" /\ pc' = [pc EXCEPT ![p] = "idle"]
      BY <2>12 DEF IInv, TypeOK, Leave
    <3>2. PhaseOf(p) = "answered" /\ PhaseOf(p)' = "idle"
          /\ \A q \in Callers \ {p} : PhaseOf(q)' = PhaseOf(q)
      BY <3>1 DEF PhaseOf, Answered
    <3>3. History!Leave(p)
      BY <2>12, <3>2, HistoryUnchanged
      DEF Leave, History!Leave, History!NoCall, NoCall, History!NoAnswer, NoAnswer, History!Answer, Answer
    <3> QED
      BY <3>3 DEF History!Next
  <2> QED
    BY <1>2, <2>1, <2>2, <2>3, <2>4, <2>5, <2>6, <2>7, <2>8, <2>9, <2>10, <2>11, <2>12 DEF Serve
<1>3. ASSUME NEW p \in Callers, Rollback(p) PROVE History!Next
  BY <1>3, EndIsFail DEF Rollback, EndWith, InTransaction, History!Next
<1>4. ASSUME Crash PROVE History!Next
  <2>1. [p \in Callers |-> PhaseOf(p)]' = [p \in Callers |-> "idle"]
    BY <1>4 DEF Crash, PhaseOf
  <2>2. History!Crash
    BY <1>4, <2>1, HistoryUnchanged
    DEF Crash, History!Crash, History!NoCall, NoCall, History!NoAnswer, NoAnswer, History!Answer, Answer
  <2> QED
    BY <2>2 DEF History!Next
<1>5. ASSUME UNCHANGED vars PROVE UNCHANGED History!vars
  BY <1>5 DEF vars, History!vars, HistoryOf, PhaseOf, Answered
<1> QED
  BY <1>1, <1>2, <1>3, <1>4, <1>5 DEF Next

\* The store implements the abstract history: concurrent callers, crashes and all,
\* each call takes effect at one instant, by the rules of CardHistory, or not at all.
THEOREM StoreImplementsHistory == Spec => ImplementsHistory
<1>1. Init => History!Init
  <2> SUFFICES ASSUME Init PROVE History!Init
    OBVIOUS
  <2>1. \A c \in Cards : HistoryOf(c) = <<>>
    <3> SUFFICES ASSUME NEW c \in Cards PROVE HistoryOf(c) = <<>>
      OBVIOUS
    <3>1. HistoryOf(c) \in Seq(Images) /\ Len(HistoryOf(c)) = head[c]
      BY InitInv, HistoryIsSequence
    <3>2. head[c] = 0
      BY DEF Init
    <3> QED
      BY <3>1, <3>2, EmptySeq
  <2>2. \A p \in Callers : PhaseOf(p) = "idle"
    BY DEF Init, PhaseOf
  <2> QED
    BY <2>1, <2>2 DEF Init, History!Init, History!NoCall, NoCall, History!NoAnswer, NoAnswer,
       History!Answer, Answer
<1>2. IInv /\ IInv' /\ [Next]_vars => [History!Next]_History!vars
  BY StepRefines
<1> QED
  BY <1>1, <1>2, Invariance, PTL DEF Spec, ImplementsHistory, History!Spec
=============================================================================
