----------------------------- MODULE KernelSync -----------------------------
(***************************************************************************)
(* Runtime sync inside Nintendont: SlotSync.c, for one card slot.          *)
(*                                                                         *)
(* The game writes blocks of the card in RAM at any time. The main thread  *)
(* saves the card to the SD card and notifies, and writes the handoff      *)
(* file; the worker scans the card against its fingerprints, hashes it and *)
(* sends it, all from live memory and one block after the other. Others    *)
(* push meanwhile. The session ends with an exit or with the power.        *)
(*                                                                         *)
(* Time is abstracted: the card may have been quiet for long enough, and   *)
(* the cooldown be over, at any moment. A push is one attempt of           *)
(* PushTransfer: its answer is true, or it is lost.                        *)
(***************************************************************************)
EXTENDS Integers, Sequences, FiniteSets

CONSTANTS
    N,            \* blocks of the card
    Cards,        \* what may be on the card when the game starts
    Stored,       \* the histories the server may have by then
    MaxWrites,    \* bound: blocks written by the game
    MaxVersion,   \* bound: nobody else commits on top of this many versions
    MaxFailures   \* bound: what the network and the SD card let fail

Blocks == 1..N

\* Contents are numbers, and a fingerprint or a digest is taken to be injective: it is
\* the content. A table that was never filled holds zeros.
Image == [Blocks -> Int]

NoImage == [b \in Blocks |-> 0]

ASSUME KernelAssumption ==
    /\ N \in Nat \ {0}
    /\ Cards \subseteq Image
    /\ Stored \subseteq Seq(Image)
    /\ MaxWrites \in Nat /\ MaxVersion \in Nat /\ MaxFailures \in Nat

VARIABLES
    history,         \* the versions on the server
    ours,            \* the ones that the bytes in RAM descend from
    ram,             \* the card
    past,            \* the images the card has been
    changed,         \* the game has written since the card was last saved
    main,            \* the main thread
    runtime,         \* the version in runtime.txt
    handoffPending,  \* a push moved the card on and runtime.txt is owed
    missed,          \* history: the SD card failed the last handoff taken
    dirty,           \* a save has landed since the last push
    halted,          \* a conflict: this card is left alone
    lineage,         \* `parent` is known
    parent,          \* the version that the card descends from
    pushedAny,       \* whether `parent` came from the worker
    fpValid,         \* whether `table` describes `parent`
    table,           \* fingerprints
    connected,       \* netConnected
    workerStop,
    pc,              \* the worker
    at,              \* the next block it reads
    marked,          \* dirtyMap, in blocks
    delta,           \* useDelta
    digest,          \* what it hashed, which stands for the digest
    buffer,          \* the server's staging buffer
    left,            \* the blocks still to be sent
    answer,          \* what the server has decided
    guessed,         \* the worker took another version for the one it was pushing
    failures         \* failures so far

card == <<ram, past, changed>>
slot == <<dirty, halted, lineage, parent, pushedAny, fpValid>>
handoff == <<runtime, handoffPending, missed>>
push == <<at, marked, delta, digest, buffer, left, answer>>
vars == <<history, ours, card, main, handoff, slot, table, connected, workerStop, pc, push,
          guessed, failures>>

\* No such file.
None == -1

NoAnswer == [code |-> "none", version |-> 0]

Init ==
    /\ history \in Stored
    /\ ram \in Cards
    /\ past = {ram}
    /\ changed = FALSE
    /\ main = "run"
    /\ runtime = None
    /\ handoffPending = FALSE
    /\ missed = FALSE
    /\ dirty = FALSE
    /\ halted = FALSE
    /\ lineage \in BOOLEAN
    /\ parent \in IF lineage THEN 0..Len(history) ELSE {0}
    /\ ours = IF lineage THEN {parent} ELSE {}
    /\ pushedAny = FALSE
    /\ fpValid \in IF parent = 0 THEN {FALSE} ELSE BOOLEAN
    /\ table = IF fpValid THEN history[parent] ELSE NoImage
    /\ connected = FALSE
    /\ workerStop = FALSE
    /\ pc = "poll"
    /\ at = 1 /\ marked = {} /\ delta = FALSE
    /\ digest = NoImage /\ buffer = NoImage /\ left = {}
    /\ answer = NoAnswer
    /\ guessed = FALSE
    /\ failures = 0

----------------------------------------------------------------------------
(* The game and the main thread.                                           *)

Playing == main \in {"run", "handing", "closing"} /\ ~ workerStop

workerRunning == pc # "ended"

workerBusy == pc \in {"digest", "send", "answer"}

GameWrite(b) ==
    /\ Playing
    /\ Cardinality(past) <= MaxWrites
    /\ ram' = [ram EXCEPT ![b] = Cardinality(past)]
    /\ past' = past \cup {ram'}
    /\ changed' = TRUE
    /\ UNCHANGED <<history, ours, main, handoff, slot, table, connected, workerStop, pc, push,
                   guessed, failures>>

Fails == failures < MaxFailures /\ failures' = failures + 1

\* If a handoff is owed, the flag goes down first and the file is opened, which empties
\* it. If it cannot be opened nothing is written, and the flag stays down.
TakeHandoff ==
    \/ /\ ~ handoffPending
       /\ UNCHANGED <<main, handoff, failures>>
    \/ /\ handoffPending
       /\ handoffPending' = FALSE
       /\ \/ /\ main' = "handing"
             /\ runtime' = None
             /\ missed' = FALSE
             /\ UNCHANGED failures
          \/ /\ Fails
             /\ main' = "closing"
             /\ missed' = TRUE
             /\ UNCHANGED runtime

\* GCNCard_Save, which ends in SlotSync_NotifyCardSaved: while the game runs, and once
\* more when it has been left.
CardSaved ==
    /\ main \in {"run", "leaving"}
    /\ changed
    /\ changed' = FALSE
    /\ IF workerRunning
       THEN dirty' = TRUE /\ TakeHandoff
       ELSE UNCHANGED <<dirty, main, handoff, failures>>
    /\ UNCHANGED <<history, ours, ram, past, halted, lineage, parent, pushedAny, fpValid, table,
                   connected, workerStop, pc, push, guessed>>

\* SlotSync_Poll.
Poll ==
    /\ main = "run"
    /\ workerRunning /\ ~ workerBusy /\ handoffPending
    /\ TakeHandoff
    /\ UNCHANGED <<history, ours, card, slot, table, connected, workerStop, pc, push, guessed>>

\* The versions are read and written. What f_write and f_close return is not looked at: if
\* one of them fails the file stays empty.
WriteHandoff ==
    /\ main = "handing"
    /\ main' = "closing"
    /\ \/ /\ runtime' = parent
          /\ UNCHANGED <<missed, failures>>
       \/ /\ Fails
          /\ missed' = TRUE
          /\ UNCHANGED runtime
    /\ UNCHANGED <<history, ours, card, handoffPending, slot, table, connected, workerStop, pc,
                   push, guessed>>

Close(pending) ==
    /\ main = "closing"
    /\ handoffPending' = pending
    /\ main' = IF workerStop THEN "leaving" ELSE "run"
    /\ UNCHANGED <<history, ours, card, runtime, missed, slot, table, connected, workerStop, pc,
                   push, guessed, failures>>

\* Mutant: the flag goes down when the file has been written.
CloseAndClear == Close(FALSE)

\* The fingerprints follow, the files are closed, and the main thread goes on.
CloseHandoff == Close(handoffPending)

\* SlotSync_Shutdown: the worker is told, and given a while.
Shutdown ==
    /\ main = "run"
    /\ workerRunning
    /\ workerStop' = TRUE
    /\ main' = "stopping"
    /\ UNCHANGED <<history, ours, card, handoff, slot, table, connected, pc, push, guessed,
                   failures>>

\* It has ended, or the while is over.
FinishShutdown ==
    /\ main = "stopping"
    /\ \/ handoffPending /\ TakeHandoff
       \/ ~ handoffPending /\ main' = "leaving" /\ UNCHANGED <<handoff, failures>>
    /\ UNCHANGED <<history, ours, card, slot, table, connected, workerStop, pc, push, guessed>>

\* The last save is done, or the power goes.
SwitchOff ==
    /\ main # "off"
    /\ main' = "off"
    /\ UNCHANGED <<history, ours, card, handoff, slot, table, connected, workerStop, pc, push,
                   guessed, failures>>

----------------------------------------------------------------------------
(* The worker.                                                             *)

On == main # "off"

Connect ==
    /\ On /\ pc = "poll" /\ ~ workerStop
    /\ ~ connected
    /\ connected' = TRUE
    /\ UNCHANGED <<history, ours, card, main, handoff, slot, table, workerStop, pc, push, guessed,
                   failures>>

EndWorker ==
    /\ On /\ pc = "poll" /\ workerStop
    /\ pc' = "ended"
    /\ connected' = FALSE
    /\ UNCHANGED <<history, ours, card, main, handoff, slot, table, workerStop, push, guessed,
                   failures>>

ShouldPush ==
    /\ On /\ pc = "poll" /\ ~ workerStop
    /\ connected
    /\ dirty /\ ~ halted

\* The flag goes down before the card is read.
ClearDirty == dirty' = FALSE

\* The head of ss_push_slot.
Begin ==
    /\ ClearDirty
    /\ pc' = "scan"
    /\ UNCHANGED push

\* ss_push_slot returns, and its locals are no more.
Return ==
    /\ pc' = "poll"
    /\ at' = 1 /\ marked' = {} /\ delta' = FALSE
    /\ digest' = NoImage /\ buffer' = NoImage /\ left' = {}
    /\ answer' = NoAnswer

StartPush ==
    /\ ShouldPush
    /\ lineage
    /\ Begin
    /\ UNCHANGED <<history, ours, card, main, handoff, halted, lineage, parent, pushedAny, fpValid,
                   table, connected, workerStop, guessed, failures>>

\* ss_establish_lineage: only a server that has never seen the card says what to name.
EstablishLineage ==
    /\ ShouldPush
    /\ ~ lineage
    /\ \/ /\ history = <<>>
          /\ lineage' = TRUE
          /\ parent' = 0
          /\ ours' = {0}
          /\ Begin
          /\ UNCHANGED <<halted, failures>>
       \/ /\ history # <<>>
          /\ halted' = TRUE
          /\ UNCHANGED <<dirty, lineage, parent, ours, pc, push, failures>>
       \/ /\ Fails
          /\ UNCHANGED <<dirty, lineage, parent, ours, pc, push, halted>>
    /\ UNCHANGED <<history, card, main, handoff, pushedAny, fpValid, table, connected, workerStop,
                   guessed>>

\* ss_fp_scan, one block: it compares and overwrites.
ScanBlock ==
    /\ On /\ pc = "scan" /\ at <= N
    /\ marked' = IF table[at] = ram[at] THEN marked ELSE marked \cup {at}
    /\ table' = [table EXCEPT ![at] = ram[at]]
    /\ at' = at + 1
    /\ UNCHANGED <<history, ours, card, main, handoff, slot, connected, workerStop, pc, delta,
                   digest, buffer, left, answer, guessed, failures>>

worthwhile == 2 * Cardinality(marked) < N

\* Mutant: a failed push is not marked to be made again.
LeaveClear == UNCHANGED dirty

Rearm == dirty' = TRUE

\* The table is not to be used until the push is confirmed; then a socket of its own.
EndScan ==
    /\ On /\ pc = "scan" /\ at > N
    /\ fpValid' = FALSE
    /\ \/ /\ pc' = "digest"
          /\ connected' = TRUE
          /\ delta' = (fpValid /\ worthwhile)
          /\ at' = 1
          /\ UNCHANGED <<dirty, marked, digest, buffer, left, answer, failures>>
       \/ /\ Fails
          /\ Rearm
          /\ Return
          /\ connected' = FALSE
    /\ UNCHANGED <<history, ours, card, main, handoff, halted, lineage, parent, pushedAny, table,
                   workerStop, guessed>>

\* push_once hashes the card.
HashBlock ==
    /\ On /\ pc = "digest" /\ at <= N
    /\ digest' = [digest EXCEPT ![at] = ram[at]]
    /\ at' = at + 1
    /\ UNCHANGED <<history, ours, card, main, handoff, slot, table, connected, workerStop, pc,
                   marked, delta, buffer, left, answer, guessed, failures>>

\* The server opens its buffer: the parent's bytes, or none.
OpenTransfer ==
    /\ On /\ pc = "digest" /\ at > N
    /\ pc' = "send"
    /\ buffer' = IF delta THEN history[parent] ELSE NoImage
    /\ left' = IF delta THEN marked ELSE Blocks
    /\ UNCHANGED <<history, ours, card, main, handoff, slot, table, connected, workerStop, at,
                   marked, delta, digest, answer, guessed, failures>>

\* A block is read when it is sent for the time it arrives.
SendBlock(b) ==
    /\ On /\ pc = "send" /\ b \in left
    /\ buffer' = [buffer EXCEPT ![b] = ram[b]]
    /\ left' = left \ {b}
    /\ UNCHANGED <<history, ours, card, main, handoff, slot, table, connected, workerStop, pc, at,
                   marked, delta, digest, answer, guessed, failures>>

Answer(code, version) == answer' = [code |-> code, version |-> version]

\* PUSH_END: the digest is checked, then the rules of the store.
Decide ==
    /\ On /\ pc = "send" /\ left = {}
    /\ pc' = "answer"
    /\ \/ /\ buffer # digest
          /\ Answer("checksum", 0)
          /\ UNCHANGED <<history, ours>>
       \/ /\ buffer = digest
          /\ history # <<>> /\ history[Len(history)] = digest
          /\ Answer("ok", Len(history))
          /\ ours' = ours \cup {Len(history)}
          /\ UNCHANGED history
       \/ /\ buffer = digest
          /\ history # <<>> => history[Len(history)] # digest
          /\ parent # Len(history)
          /\ Answer("conflict", Len(history))
          /\ UNCHANGED <<history, ours>>
       \/ /\ buffer = digest
          /\ history # <<>> => history[Len(history)] # digest
          /\ parent = Len(history)
          /\ history' = Append(history, digest)
          /\ Answer("ok", Len(history) + 1)
          /\ ours' = ours \cup {Len(history) + 1}
    /\ UNCHANGED <<card, main, handoff, slot, table, connected, workerStop, at, marked, delta,
                   digest, buffer, left, guessed, failures>>

\* Mutant: the head that a conflict tells becomes the parent, and the card is pushed again.
HaltLater ==
    /\ parent' = answer.version
    /\ Rearm
    /\ UNCHANGED halted

\* Never retried with the server's head as the parent.
Halt ==
    /\ halted' = TRUE
    /\ UNCHANGED <<dirty, parent>>

\* What ss_push_delta and ss_push_slot do with the answer.
Receive ==
    /\ On /\ pc = "answer"
    /\ \/ /\ answer.code = "ok"
          /\ pc' = "settle"
          /\ UNCHANGED <<dirty, halted, parent, push>>
       \/ /\ answer.code = "conflict"
          /\ Halt
          /\ Return
       \/ /\ answer.code = "checksum" /\ delta
          /\ pc' = "digest"
          /\ delta' = FALSE
          /\ at' = 1
          /\ UNCHANGED <<dirty, halted, parent, marked, digest, buffer, left, answer>>
       \/ /\ answer.code = "checksum" /\ ~ delta
          /\ Rearm
          /\ Return
          /\ UNCHANGED <<halted, parent>>
    /\ UNCHANGED <<history, ours, card, main, handoff, lineage, pushedAny, fpValid, table,
                   connected, workerStop, guessed, failures>>

\* No answer, or a refusal: the buffer expired, or anything else.
Fail ==
    /\ On /\ workerBusy
    /\ Fails
    /\ \/ pc # "digest" /\ pc' = "asking" /\ UNCHANGED <<dirty, push>>
       \/ Rearm /\ Return
    /\ UNCHANGED <<history, ours, card, main, handoff, halted, lineage, parent, pushedAny, fpValid,
                   table, connected, workerStop, guessed>>

\* After STAGING_EXPIRED: a head one above the parent is taken for this push.
AskHead ==
    /\ On /\ pc = "asking"
    /\ \/ /\ Len(history) = parent + 1
          /\ pc' = "settle"
          /\ Answer("ok", Len(history))
          /\ IF history[parent + 1] = digest
             THEN ours' = ours \cup {parent + 1} /\ UNCHANGED guessed
             ELSE guessed' = TRUE /\ UNCHANGED ours
          /\ UNCHANGED <<dirty, failures, at, marked, delta, digest, buffer, left>>
       \/ /\ (Len(history) # parent + 1 /\ UNCHANGED failures) \/ Fails
          /\ Rearm
          /\ Return
          /\ UNCHANGED <<ours, guessed>>
    /\ UNCHANGED <<history, card, main, handoff, halted, lineage, parent, pushedAny, fpValid,
                   table, connected, workerStop>>

SettleOn(version, d) ==
    /\ On /\ pc = "settle"
    /\ parent' = version
    /\ dirty' = d
    /\ pushedAny' = TRUE
    /\ pc' = "settled"
    /\ UNCHANGED <<history, ours, card, main, handoff, halted, lineage, fpValid, table, connected,
                   workerStop, push, guessed, failures>>

\* Mutant: the flag goes down when the push is confirmed.
SettleAndClear == SettleOn(answer.version, FALSE)

\* Mutant: the version is the transfer's, and not the one the server assigned.
SettleOnTransfer == SettleOn(parent + 1, dirty)

\* The push is confirmed. The handoff becomes owed after the version has moved.
Settle == SettleOn(answer.version, dirty)

Owe ==
    /\ On /\ pc = "settled"
    /\ fpValid' = TRUE
    /\ handoffPending' = TRUE
    /\ Return
    /\ UNCHANGED <<history, ours, card, main, runtime, missed, dirty, halted, lineage, parent,
                   pushedAny, table, connected, workerStop, guessed, failures>>

Worker ==
    \/ Connect \/ EndWorker
    \/ EstablishLineage \/ StartPush
    \/ ScanBlock \/ EndScan
    \/ HashBlock \/ OpenTransfer
    \/ \E b \in Blocks : SendBlock(b)
    \/ Decide \/ Receive \/ Fail \/ AskHead
    \/ Settle \/ Owe

----------------------------------------------------------------------------

\* Another console pushes, or somebody rolls the card back.
OtherCommits ==
    /\ Len(history) < MaxVersion
    /\ \/ history' = Append(history, [b \in Blocks |-> -10 - Len(history)])
       \/ \E v \in 1..Len(history) - 1 :
             /\ history[v] # history[Len(history)]
             /\ history' = Append(history, history[v])
    /\ UNCHANGED <<ours, card, main, handoff, slot, table, connected, workerStop, pc, push, guessed,
                   failures>>

Next ==
    \/ \E b \in Blocks : GameWrite(b)
    \/ CardSaved \/ Poll \/ WriteHandoff \/ CloseHandoff
    \/ Shutdown \/ FinishShutdown \/ SwitchOff
    \/ Worker
    \/ OtherCommits

Spec ==
    /\ Init /\ [][Next]_vars
    /\ WF_vars(CardSaved) /\ WF_vars(WriteHandoff \/ CloseHandoff) /\ WF_vars(Worker)

----------------------------------------------------------------------------
(* What must hold.                                                         *)

Codes == {"none", "ok", "conflict", "checksum"}

\* What names a version names one that the server has.
VersionTypes ==
    /\ history \in Seq(Image)
    /\ ours \subseteq 0..Len(history)
    /\ parent \in 0..Len(history)
    /\ runtime \in {None} \cup 1..Len(history)
    /\ answer \in [code : Codes, version : 0..Len(history)]

CardTypes ==
    /\ ram \in past /\ past \subseteq Image /\ IsFiniteSet(past)
    /\ {changed, handoffPending, missed, dirty, halted, lineage, pushedAny, fpValid}
          \subseteq BOOLEAN
    /\ {connected, workerStop, delta, guessed} \subseteq BOOLEAN
    /\ main \in {"run", "handing", "closing", "stopping", "leaving", "off"}
    /\ failures \in 0..MaxFailures

PushTypes ==
    /\ pc \in {"poll", "scan", "digest", "send", "answer", "asking", "settle", "settled", "ended"}
    /\ pc \notin {"poll", "ended"} => lineage
    /\ at \in 1..N + 1
    /\ marked \subseteq Blocks /\ left \subseteq Blocks
    /\ table \in [Blocks -> Int] /\ digest \in [Blocks -> Int] /\ buffer \in [Blocks -> Int]

\* Every variable has its type, and a card whose parent is not known is not pushed.
TypeOK == VersionTypes /\ CardTypes /\ PushTypes

\* A console never writes over a version it did not have: what it commits replaces a
\* version that its card descends from, however long it played, whatever others pushed
\* meanwhile and whatever it was told, unless it guessed.
OverwritesNothing ==
    [][Decide /\ history' # history /\ ~ guessed => Len(history) \in ours]_vars

\* No save is swallowed: when nothing is to be pushed any more, the card is the version
\* the console says it is, though it was read block by block while the game wrote.
SavesArePushed ==
    pc = "poll" /\ pushedAny /\ ~ (changed \/ dirty \/ halted \/ guessed)
    => parent \in DOMAIN history /\ history[parent] = ram

\* As long as the console is on, the launcher will be told where the last push left the
\* card: it is in runtime.txt, or about to be read for it, or still owed. Only a failure of
\* the SD card in the handoff itself is excepted, until a later handoff is written: the
\* flag is down by then, and nothing tries again.
HandoffIsOwed ==
    pushedAny /\ main # "off" /\ pc # "settled"
    => handoffPending \/ main = "handing" \/ runtime = parent \/ missed

\* A save arrives, through torn reads and failed pushes: the server gets what is on the
\* card, unless somebody else has moved the card on or the session ends.
EverySaveArrives ==
    changed \/ dirty ~>
        \/ halted \/ guessed \/ ~ Playing
        \/ parent \in DOMAIN history /\ history[parent] = ram

----------------------------------------------------------------------------
(* The inductive invariant behind them.                                    *)

Owed == changed \/ dirty

\* What is handed over comes from a push that was confirmed; that, and what a delta is
\* made against, is a version of the server.
PushedHolds ==
    /\ pushedAny \/ fpValid \/ delta => lineage /\ parent \in DOMAIN history
    /\ handoffPending \/ main = "handing" \/ pc = "settled" => pushedAny

\* What has been hashed is the card, or a save will say that it has changed.
ReadHolds ==
    ~ Owed =>
        /\ pc = "digest" => \A b \in Blocks : b < at => digest[b] = ram[b]
        /\ pc \in {"send", "answer", "asking", "settle", "settled"} => digest = ram

\* A version that an answer names holds what was hashed.
AnswerHolds ==
    /\ pc = "settle" => answer.code = "ok"
    /\ pc \in {"answer", "settle"} /\ answer.code = "ok" =>
          /\ answer.version \in DOMAIN history
          /\ pc = "answer" \/ ~ guessed =>
                history[answer.version] = digest /\ answer.version \in ours
    /\ pc = "settled" /\ ~ guessed => history[parent] = digest

LineageIsOurs == lineage /\ ~ guessed => parent \in ours

IInv ==
    /\ TypeOK
    /\ PushedHolds /\ ReadHolds /\ AnswerHolds /\ LineageIsOurs
    /\ SavesArePushed /\ HandoffIsOwed

----------------------------------------------------------------------------
(* What the comments say and the code does not keep.                       *)

\* SlotSync.c: a head "exactly where this push would have put it" holds "almost certainly"
\* what was sent, but "in a house with two consoles". With one, no save is swallowed.
NoneIsSwallowed ==
    pc = "poll" /\ pushedAny /\ ~ (changed \/ dirty \/ halted)
    => parent \in DOMAIN history /\ history[parent] = ram

\* SlotSync.c: the handoff "still goes out, because that one matters", and doing it in the
\* middle of the game "is what makes both files survive a reset". Nothing is lost to the
\* SD card.
HandoffOutlivesFailure ==
    pushedAny /\ main # "off" /\ pc # "settled"
    => handoffPending \/ main = "handing" \/ runtime = parent

\* SlotSync.h: "A save landing mid-push tears the image; the whole-card digest catches
\* that, the server refuses it". What a console commits was the card at some moment.
TornIsRefused ==
    [][Decide /\ history' # history => digest \in past]_vars
=============================================================================
