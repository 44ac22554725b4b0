---------------------------- MODULE LauncherSync ----------------------------
(***************************************************************************)
(* The launcher on the console's SD card: main.c, wii_saves.c and          *)
(* wii_fingerprint.c, for one memory card, from one run to the next.       *)
(*                                                                         *)
(* A run merges what the kernel handed over, pushes the card, pulls it     *)
(* when the server is ahead, records what was agreed, and boots            *)
(* Nintendont, where the game plays on and the kernel pushes. Every step   *)
(* on the SD card is a step here, and the power may go between any two.    *)
(* Others push and roll back meanwhile.                                    *)
(*                                                                         *)
(* An image is the set of the saves in it. A transfer is an attempt of     *)
(* PushTransfer or CardPull: its answer is true, or it is lost. The kernel *)
(* is KernelSync without its own steps, torn reads and guesses: its worker *)
(* has an answer at once, and one that comes while the handoff is written  *)
(* leaves the table being written whole.                                   *)
(***************************************************************************)
EXTENDS Integers, Sequences, FiniteSets

CONSTANTS
    MaxSaves,     \* bound: saves that anybody makes
    MaxVersion,   \* bound: versions on the server
    MaxOthers,    \* bound: of those, versions of others
    MaxCuts,      \* bound: times the power goes
    MaxFailures   \* bound: requests and writes that fail

ASSUME LauncherAssumption ==
    {MaxSaves, MaxVersion, MaxOthers, MaxCuts, MaxFailures} \subseteq Nat

Saves == 1..MaxSaves

Image == SUBSET Saves

\* No image holds save 0: what stands for a file that is not there, and for a digest
\* that is zero or cut off.
NoFile == {0}

File == Image \cup {NoFile}

NoEntry == [known |-> FALSE, version |-> 0, digest |-> NoFile]

\* A record of a fingerprint store: the image whose table it holds, and what it says of it.
NoTable == [version |-> 0, digest |-> NoFile, of |-> NoFile]

VARIABLES
    history,        \* the versions on the server
    saves,          \* the saves made so far
    others,         \* the versions that others made
    card,           \* GAMEID.raw
    temp,           \* GAMEID.raw.tmp
    bak,            \* GAMEID.raw.bak
    state,          \* its line in state.txt
    runtime,        \* the version in runtime.txt; 0 when there is no such file
    store,          \* its record in fingerprints.bin
    runtimeFp,      \* and in runtime-fp.bin
    pc,             \* what the console is doing
    entry,          \* the launcher's wii_card_state
    image,          \* its card buffer
    serverVersion,  \* server_version
    unknown,        \* the last NACK of its session said UNKNOWN_CARD
    asked,          \* the head when this run of the launcher started
    outcome,        \* what sync_one has come to
    ram,            \* the card of the game
    parent,         \* the kernel's slot: the version it descends from
    lineage,        \* whether that is known
    dirty,          \* a save has landed since the last push
    halted,         \* why the kernel leaves the card alone, if it does
    owed,           \* a push moved the card on and runtime.txt is owed
    pushed,         \* the image that its fingerprints are of, when they are valid
    handing,        \* how far the handoff has come that is being written
    ramOnly,        \* saves that were not on the SD card when the power went
    cuts,           \* times the power has gone
    failures        \* failures so far

server == <<history, saves, others>>
files == <<card, temp, bak>>
texts == <<state, runtime>>
tables == <<store, runtimeFp>>
sd == <<files, texts, tables>>
launcher == <<entry, image, serverVersion, unknown, asked, outcome>>
kernel == <<ram, parent, lineage, dirty, halted, owed, pushed, handing>>
faults == <<ramOnly, cuts, failures>>
vars == <<server, sd, pc, launcher, kernel, faults>>

Init ==
    /\ history = <<>> /\ saves = 0 /\ others = 0
    /\ card = NoFile /\ temp = NoFile /\ bak = NoFile
    /\ state = NoEntry /\ runtime = 0
    /\ store = NoTable /\ runtimeFp = NoTable
    /\ pc = "off"
    /\ entry = NoEntry /\ image = NoFile
    /\ serverVersion = 0 /\ unknown = FALSE /\ asked = 0 /\ outcome = "none"
    /\ ram = NoFile /\ parent = 0 /\ lineage = FALSE
    /\ dirty = FALSE /\ halted = "no"
    /\ owed = FALSE /\ pushed = NoFile /\ handing = "no"
    /\ ramOnly = {} /\ cuts = 0 /\ failures = 0

HeadVersion == Len(history)

HeadImage == IF history = <<>> THEN NoFile ELSE history[HeadVersion]

Fails == failures < MaxFailures /\ failures' = failures + 1

----------------------------------------------------------------------------
(* The end of a run: Nintendont boots.                                     *)

\* SlotSync_Init: the parent is read from state.txt, and from nowhere else.
Boot ==
    /\ pc' = "game"
    /\ card' = IF card = NoFile THEN {} ELSE card
    /\ ram' = card'
    /\ lineage' = state.known
    /\ parent' = state.version
    /\ halted' = IF ram' = {} THEN "blank" ELSE "no"
    /\ dirty' = FALSE /\ owed' = FALSE /\ pushed' = NoFile /\ handing' = "no"

----------------------------------------------------------------------------
(* The launcher.                                                           *)

\* wii_state_load: what is cut off of a digest is zero.
LoadState == entry' = state

\* HELLO is answered, and state.txt is read; or it is not, and Nintendont boots.
\* Another card of this run may be one that the server has never seen.
Launch ==
    /\ pc = "off"
    /\ \/ /\ pc' = "merge"
          /\ LoadState
          /\ unknown' \in BOOLEAN
          /\ asked' = HeadVersion
          /\ image' = NoFile /\ serverVersion' = 0 /\ outcome' = "none"
          /\ UNCHANGED <<card, kernel, failures>>
       \/ /\ Fails
          /\ Boot
          /\ UNCHANGED launcher
    /\ UNCHANGED <<server, temp, bak, texts, tables, ramOnly, cuts>>

\* Mutant: the digest is brought up to date with the version.
TakeOver(version) == entry' = [known |-> TRUE, version |-> version, digest |-> card]

\* Mutant: the version is the one after it.
CountOn(version) == entry' = [entry EXCEPT !.known = TRUE, !.version = version + 1]

\* Mutant: what was handed over is thrown away.
Forget(version) == UNCHANGED entry

\* The version moves and the digest stays, so that the card is pushed once.
Adopt(version) == entry' = [entry EXCEPT !.known = TRUE, !.version = version]

IsForward(version) == version # 0 /\ (entry.known => version > entry.version)

\* wii_state_merge_runtime: only ever forward. The file goes before the state is saved.
MergeRuntime ==
    /\ pc = "merge"
    /\ \/ /\ IsForward(runtime)
          /\ Adopt(runtime)
          /\ pc' = "merged"
       \/ /\ ~ IsForward(runtime)
          /\ pc' = "tables"
          /\ UNCHANGED entry
    /\ runtime' = 0
    /\ UNCHANGED <<server, files, state, tables, image, serverVersion, unknown, asked, outcome,
                   kernel, faults>>

\* The line that goes into state.txt: an entry that was only looked up is written too, as
\* version 0.
Line == [entry EXCEPT !.known = @ \/ outcome \notin {"none", "skipped"}]

\* wii_state_save empties the file and then writes it; the line may be there already when its
\* digest is not. Nobody looks at what it returns, so the run goes on when it cannot.
EmptyState ==
    /\ pc \in {"merged", "synced"}
    /\ \/ /\ state' \in {NoEntry, [Line EXCEPT !.digest = NoFile]}
          /\ pc' = IF pc = "merged" THEN "rewrite" ELSE "record"
          /\ UNCHANGED failures
       \/ /\ Fails
          /\ pc' = IF pc = "merged" THEN "tables" ELSE "done"
          /\ UNCHANGED state
    /\ UNCHANGED <<server, files, runtime, tables, launcher, kernel, ramOnly, cuts>>

WriteState ==
    /\ pc \in {"rewrite", "record"}
    /\ pc' = IF pc = "rewrite" THEN "tables" ELSE "done"
    /\ \/ state' = Line /\ UNCHANGED failures
       \/ Fails /\ UNCHANGED state
    /\ UNCHANGED <<server, files, runtime, tables, launcher, kernel, ramOnly, cuts>>

\* wii_fp_merge_runtime, then the cards: one that is not there is not found.
MergeTables ==
    /\ pc = "tables"
    /\ pc' = IF runtimeFp # NoTable THEN "putting" ELSE "sync"
    /\ UNCHANGED <<server, sd, launcher, kernel, faults>>

\* save_fingerprints: the card has just been agreed with the server.
Fingerprints == [version |-> entry.version, digest |-> entry.digest, of |-> image]

\* wii_fp_store_put: the new file is complete, the old one goes, the new one gets its name.
RemoveStore ==
    /\ pc \in {"putting", "recording"}
    /\ store' = NoTable
    /\ pc' = IF pc = "putting" THEN "put" ELSE "recorded"
    /\ UNCHANGED <<server, files, texts, runtimeFp, launcher, kernel, faults>>

RenameStore ==
    /\ pc \in {"put", "recorded"}
    /\ pc' = IF pc = "put" THEN "drop" ELSE "pull"
    /\ \/ /\ store' = IF pc = "put" THEN runtimeFp ELSE Fingerprints
          /\ UNCHANGED failures
       \/ Fails /\ UNCHANGED store
    /\ UNCHANGED <<server, files, texts, runtimeFp, launcher, kernel, ramOnly, cuts>>

RemoveRuntimeFp ==
    /\ pc = "drop"
    /\ runtimeFp' = NoTable
    /\ pc' = "sync"
    /\ UNCHANGED <<server, files, texts, store, launcher, kernel, faults>>

\* sync_one returns, and sync_all saves the state.
EndWith(result) ==
    /\ outcome' = result
    /\ pc' = "synced"

\* What is on the SD card is not what was last agreed.
Changed == entry.known => entry.digest # image'

\* wii_saves_scan finds it, and wii_saves_game_id finds a save on it: the four characters of
\* the file names that Nintendont plays do not name the game by themselves.
Found == card # NoFile

Identified == card # {}

\* The card is read and the head is asked for. The last NACK is asked about even when
\* this question was answered with none.
AskHead ==
    /\ pc = "sync"
    /\ image' = card
    /\ \/ /\ ~ Found
          /\ pc' = "done"
          /\ UNCHANGED <<serverVersion, unknown, outcome, failures>>
       \/ /\ ~ Identified
          /\ EndWith("skipped")
          /\ UNCHANGED <<serverVersion, unknown, failures>>
       \/ /\ Found /\ Identified
          /\ \/ /\ serverVersion' = HeadVersion
                /\ unknown' = (unknown \/ history = <<>>)
                /\ UNCHANGED failures
             \/ /\ Fails
                /\ unknown
                /\ UNCHANGED <<serverVersion, unknown>>
          /\ pc' = IF Changed THEN "push" ELSE "pull"
          /\ UNCHANGED outcome
       \/ /\ Found /\ Identified
          /\ Fails
          /\ ~ unknown
          /\ EndWith("failed")
          /\ UNCHANGED <<serverVersion, unknown>>
    /\ UNCHANGED <<server, sd, entry, asked, kernel, ramOnly, cuts>>

\* Mutant: the version of a table is not looked at.
UsableByDigest(e) == store # NoTable /\ store.digest = e.digest

\* wii_fp_usable: the version and the digest are both those of the entry.
Usable(e) == store.version = e.version /\ store.digest = e.digest /\ store # NoTable

\* The rules of the store for a push of this image.
Unchanged == history # <<>> /\ HeadImage = image

Commits(p) == ~ Unchanged /\ p = HeadVersion

Conflicts(p) == ~ Unchanged /\ p # HeadVersion

Commit(img) ==
    /\ Len(history) < MaxVersion
    /\ history' = Append(history, img)

\* The card is agreed to be this version.
Agree(version) == entry' = [known |-> TRUE, version |-> version, digest |-> image]

\* ss_push_delta. Whatever the table said, the server has the whole card at the end,
\* for the digest of it is checked. An attempt may fail, and its answer be lost.
Push ==
    /\ pc = "push"
    /\ \/ /\ Unchanged
          /\ Agree(HeadVersion)
          /\ serverVersion' = HeadVersion
          /\ pc' = "recording"
          /\ UNCHANGED <<history, outcome, failures>>
       \/ /\ Commits(entry.version)
          /\ Commit(image)
          /\ Agree(HeadVersion + 1)
          /\ serverVersion' = HeadVersion + 1
          /\ pc' = "recording"
          /\ UNCHANGED <<outcome, failures>>
       \/ /\ Conflicts(entry.version)
          /\ serverVersion' = HeadVersion
          /\ pc' = "ask"
          /\ UNCHANGED <<history, entry, outcome, failures>>
       \/ /\ Fails
          /\ (Commits(entry.version) /\ Commit(image)) \/ UNCHANGED history
          /\ EndWith("failed")
          /\ UNCHANGED <<entry, serverVersion>>
    /\ UNCHANGED <<saves, others, sd, image, unknown, asked, kernel, ramOnly, cuts>>

\* Mutant: the card is kept, and the head it lost to becomes its parent.
KeepOnTop ==
    /\ pc = "ask"
    /\ EndWith("kept")
    /\ entry' = [entry EXCEPT !.version = serverVersion]
    /\ UNCHANGED <<server, sd, image, serverVersion, unknown, asked, kernel, faults>>

\* B, or nobody answered in time.
Keep ==
    /\ pc = "ask"
    /\ EndWith("kept")
    /\ UNCHANGED <<server, sd, entry, image, serverVersion, unknown, asked, kernel, faults>>

\* HOME: exit(0), with nothing saved.
ExitAtPrompt ==
    /\ pc = "ask"
    /\ pc' = "off"
    /\ UNCHANGED <<server, sd, launcher, kernel, faults>>

\* Mutant: the card is not copied aside.
TakeTheirs ==
    /\ pc = "ask"
    /\ pc' = "pull"
    /\ UNCHANGED <<server, sd, launcher, kernel, faults>>

\* A: wii_saves_backup empties the old copy.
OpenBackup ==
    /\ pc = "ask"
    /\ bak' = NoFile
    /\ pc' = "backup"
    /\ UNCHANGED <<server, card, temp, texts, tables, launcher, kernel, faults>>

\* It is written, or removed again, and then the card is kept.
WriteBackup ==
    /\ pc = "backup"
    /\ \/ bak' = image /\ pc' = "pull" /\ UNCHANGED <<outcome, failures>>
       \/ Fails /\ EndWith("kept") /\ UNCHANGED bak
    /\ UNCHANGED <<server, card, temp, texts, tables, entry, image, serverVersion, unknown, asked,
                   kernel, ramOnly, cuts>>

\* The server is ahead.
Ahead == serverVersion > entry.version

\* ss_pull asks for the head, whatever it is by now.
Pull ==
    /\ pc = "pull"
    /\ \/ /\ ~ Ahead
          /\ EndWith("ok")
          /\ UNCHANGED <<image, serverVersion, failures>>
       \/ /\ Ahead
          /\ image' = HeadImage
          /\ serverVersion' = HeadVersion
          /\ pc' = "write"
          /\ UNCHANGED <<outcome, failures>>
       \/ /\ Ahead
          /\ Fails
          /\ EndWith("failed")
          /\ UNCHANGED <<image, serverVersion>>
    /\ UNCHANGED <<server, sd, entry, unknown, asked, kernel, ramOnly, cuts>>

\* wii_saves_write: a temporary file first, and it is removed when that fails.
WriteTemp ==
    /\ pc = "write"
    /\ \/ temp' = image /\ pc' = "written" /\ UNCHANGED <<outcome, failures>>
       \/ Fails /\ temp' = NoFile /\ EndWith("failed")
    /\ UNCHANGED <<server, card, bak, texts, tables, entry, image, serverVersion, unknown, asked,
                   kernel, ramOnly, cuts>>

\* Then the old card goes.
RemoveCard ==
    /\ pc = "written"
    /\ card' = NoFile
    /\ pc' = "removed"
    /\ UNCHANGED <<server, temp, bak, texts, tables, launcher, kernel, faults>>

\* And the new one gets its name, or goes as well.
RenameCard ==
    /\ pc = "removed"
    /\ temp' = NoFile
    /\ \/ /\ card' = temp
          /\ Agree(serverVersion)
          /\ pc' = "recording"
          /\ UNCHANGED <<outcome, failures>>
       \/ /\ Fails
          /\ EndWith("failed")
          /\ UNCHANGED <<card, entry>>
    /\ UNCHANGED <<server, bak, texts, tables, image, serverVersion, unknown, asked, kernel,
                   ramOnly, cuts>>

\* The launcher hands over, or HOME leaves it.
Finish ==
    /\ pc = "done"
    /\ \/ Boot
       \/ pc' = "off" /\ UNCHANGED <<card, kernel>>
    /\ UNCHANGED <<server, temp, bak, texts, tables, launcher, faults>>

Launcher ==
    \/ MergeRuntime \/ EmptyState \/ WriteState
    \/ MergeTables \/ RemoveStore \/ RenameStore \/ RemoveRuntimeFp
    \/ AskHead \/ Push \/ Keep \/ ExitAtPrompt \/ OpenBackup \/ WriteBackup
    \/ Pull \/ WriteTemp \/ RemoveCard \/ RenameCard
    \/ Finish

----------------------------------------------------------------------------
(* The game, and the kernel under it.                                      *)

Play ==
    /\ pc = "game"
    /\ saves < MaxSaves
    /\ saves' = saves + 1
    /\ ram' = ram \cup {saves'}
    /\ UNCHANGED <<history, others, sd, pc, launcher, parent, lineage, dirty, halted, owed, pushed,
                   handing, faults>>

\* GCNCard_Save and SlotSync_NotifyCardSaved, on the thread that writes the handoff.
SaveCard ==
    /\ pc = "game" /\ handing = "no"
    /\ card # ram
    /\ card' = ram
    /\ dirty' = TRUE
    /\ UNCHANGED <<server, temp, bak, texts, tables, pc, launcher, ram, parent, lineage, halted,
                   owed, pushed, handing, faults>>

KernelUnchanged == history # <<>> /\ HeadImage = ram

\* ss_push_slot sends what is in RAM, on the SD card or not; ss_establish_lineage before
\* it, when state.txt had no line for the card. Its fingerprints are valid when it succeeds.
KernelPush ==
    /\ pc = "game"
    /\ dirty /\ halted = "no"
    /\ \/ /\ ~ lineage /\ history # <<>>
          /\ halted' = "unknown"
          /\ UNCHANGED <<history, parent, lineage, dirty, owed, pushed, failures>>
       \/ /\ lineage \/ history = <<>>
          /\ ~ KernelUnchanged /\ parent # HeadVersion
          /\ halted' = "conflict"
          /\ dirty' = FALSE /\ pushed' = NoFile
          /\ UNCHANGED <<history, parent, lineage, owed, failures>>
       \/ /\ lineage \/ history = <<>>
          /\ \/ KernelUnchanged /\ parent' = HeadVersion /\ UNCHANGED history
             \/ ~ KernelUnchanged /\ parent = HeadVersion /\ Commit(ram) /\ parent' = HeadVersion + 1
          /\ lineage' = TRUE /\ dirty' = FALSE /\ owed' = TRUE /\ pushed' = ram
          /\ UNCHANGED <<halted, failures>>
       \/ /\ lineage \/ history = <<>>
          /\ Fails
          /\ (~ KernelUnchanged /\ parent = HeadVersion /\ Commit(ram)) \/ UNCHANGED history
          /\ lineage' = TRUE /\ pushed' = NoFile
          /\ UNCHANGED <<parent, dirty, halted, owed>>
    /\ UNCHANGED <<saves, others, sd, pc, launcher, ram, handing, ramOnly, cuts>>

\* From SlotSync_Poll, NotifyCardSaved or Shutdown: what is owed is taken, and then
\* ss_write_handoff opens runtime.txt, which empties it, or does not.
OpenHandoff ==
    /\ pc = "game"
    /\ owed /\ handing = "no"
    /\ owed' = FALSE
    /\ \/ runtime' = 0 /\ handing' = "version" /\ UNCHANGED failures
       \/ Fails /\ handing' = "tables" /\ UNCHANGED runtime
    /\ UNCHANGED <<server, files, state, tables, pc, launcher, ram, parent, lineage, dirty, halted,
                   pushed, ramOnly, cuts>>

\* The version is written, or it is not, and nobody looks.
WriteVersion ==
    /\ pc = "game"
    /\ handing = "version"
    /\ handing' = "tables"
    /\ \/ runtime' = parent /\ UNCHANGED failures
       \/ Fails /\ UNCHANGED runtime
    /\ UNCHANGED <<server, files, state, tables, pc, launcher, ram, parent, lineage, dirty, halted,
                   owed, pushed, ramOnly, cuts>>

\* ss_write_fp_handoff: the same for runtime-fp.bin, of a table that is valid.
OpenTable ==
    /\ pc = "game"
    /\ handing = "tables"
    /\ \/ pushed # NoFile /\ runtimeFp' = NoTable /\ handing' = "table" /\ UNCHANGED failures
       \/ pushed # NoFile /\ Fails /\ handing' = "no" /\ UNCHANGED runtimeFp
       \/ pushed = NoFile /\ handing' = "no" /\ UNCHANGED <<runtimeFp, failures>>
    /\ UNCHANGED <<server, files, texts, store, pc, launcher, ram, parent, lineage, dirty, halted,
                   owed, pushed, ramOnly, cuts>>

HandOver == runtimeFp' = [version |-> parent, digest |-> pushed, of |-> pushed]

\* A table that is no longer valid is left out, and so is one that cannot be written.
WriteTable ==
    /\ pc = "game"
    /\ handing = "table"
    /\ handing' = "no"
    /\ \/ pushed # NoFile /\ HandOver /\ UNCHANGED failures
       \/ pushed = NoFile /\ UNCHANGED <<runtimeFp, failures>>
       \/ Fails /\ UNCHANGED runtimeFp
    /\ UNCHANGED <<server, files, texts, store, pc, launcher, ram, parent, lineage, dirty, halted,
                   owed, pushed, ramOnly, cuts>>

Handoff == OpenHandoff \/ WriteVersion \/ OpenTable \/ WriteTable

\* The game is left: the card is on the SD card, and nothing is owed.
Leave ==
    /\ pc = "game"
    /\ card = ram /\ ~ owed /\ handing = "no"
    /\ pc' = "off"
    /\ UNCHANGED <<server, sd, launcher, kernel, faults>>

----------------------------------------------------------------------------

\* The power goes, or the console is reset.
Cut ==
    /\ pc # "off"
    /\ cuts < MaxCuts
    /\ cuts' = cuts + 1
    /\ pc' = "off"
    /\ ramOnly' = IF pc = "game" THEN ramOnly \cup (ram \ card) ELSE ramOnly
    /\ UNCHANGED <<server, sd, launcher, kernel, failures>>

\* Another device pushes on top of the head, or somebody rolls the card back.
OtherCommits ==
    /\ others < MaxOthers
    /\ others' = others + 1
    /\ \/ /\ saves < MaxSaves
          /\ saves' = saves + 1
          /\ Commit((HeadImage \ NoFile) \cup {saves'})
       \/ /\ \E v \in 1..HeadVersion - 1 : history[v] # HeadImage /\ Commit(history[v])
          /\ UNCHANGED saves
    /\ UNCHANGED <<sd, pc, launcher, kernel, faults>>

Next ==
    \/ Launch \/ Launcher
    \/ Play \/ SaveCard \/ KernelPush \/ Handoff \/ Leave
    \/ Cut \/ OtherCommits

Spec == Init /\ [][Next]_vars

----------------------------------------------------------------------------
(* What must hold.                                                         *)

Entries == [known : BOOLEAN, version : 0..HeadVersion, digest : File]

Tables == {NoTable} \cup [version : 1..HeadVersion, digest : File, of : Image]

Steps == {"off", "game", "merge", "merged", "rewrite", "tables", "putting", "put", "drop", "sync",
          "push", "recording", "recorded", "ask", "backup", "pull", "write", "written", "removed",
          "synced", "record", "done"}

ServerTypes ==
    /\ history \in Seq(Image) /\ HeadVersion <= MaxVersion
    /\ saves \in 0..MaxSaves /\ others \in 0..MaxOthers

SdTypes ==
    /\ card \in File /\ temp \in File /\ bak \in File
    /\ state \in Entries /\ runtime \in 0..HeadVersion
    /\ store \in Tables /\ runtimeFp \in Tables

LauncherTypes ==
    /\ pc \in Steps
    /\ entry \in Entries /\ image \in File
    /\ serverVersion \in 0..HeadVersion /\ asked \in 0..HeadVersion
    /\ unknown \in BOOLEAN
    /\ outcome \in {"none", "skipped", "failed", "kept", "ok"}

KernelTypes ==
    /\ ram \in File /\ parent \in 0..HeadVersion /\ lineage \in BOOLEAN
    /\ dirty \in BOOLEAN /\ halted \in {"no", "blank", "unknown", "conflict"}
    /\ owed \in BOOLEAN /\ pushed \in File
    /\ handing \in {"no", "version", "tables", "table"}
    /\ ramOnly \subseteq Saves
    /\ cuts \in 0..MaxCuts /\ failures \in 0..MaxFailures

\* Every variable has its type, and whatever names a version names one the server has: in
\* memory, in state.txt, in the handoff and in the stores.
TypeOK == ServerTypes /\ SdTypes /\ LauncherTypes /\ KernelTypes

Versions == {history[v] : v \in 1..HeadVersion}

\* The card that a console has is replaced or removed only when its saves are in the new
\* one, in a version of the server, or in the copy aside.
KeepsSaves ==
    [][card # card' /\ card # NoFile => card \subseteq card' \/ card \in Versions \/ bak = card]_vars

\* What this console commits, the launcher or the kernel, has every save of the version
\* it replaces, whatever was handed over, rolled back or interrupted; but for those that
\* were never on its SD card because the power went.
CommitsDescend ==
    [][/\ Push /\ history' # history => HeadImage \subseteq NoFile \cup image \cup ramOnly
       /\ KernelPush /\ history' # history => HeadImage \subseteq NoFile \cup ram \cup ramOnly]_vars

\* A console that nobody else pushes for never meets a conflict, over any number of
\* sessions and of runs of the launcher, as long as nothing fails.
NoConflictAlone ==
    others = 0 /\ cuts = 0 /\ failures = 0 =>
        pc # "ask" /\ halted \notin {"unknown", "conflict"}

\* A run that ends without a complaint has brought the card to a version of the server
\* that is not behind the one it had when the run started, and has the saves of that
\* version and no others; but for those that were never on its SD card because the power
\* went. A run that was never told a version promises nothing.
SyncedIsAgreed ==
    pc = "done" /\ outcome = "ok" /\ serverVersion # 0 =>
        /\ entry.version >= asked
        /\ card \subseteq history[entry.version]
        /\ history[entry.version] \subseteq card \cup ramOnly

\* The kernel's test of a record, at its next start: a digest of zeros is no digest.
KernelUsable ==
    /\ state.known /\ state.version # 0 /\ store.version = state.version
    /\ state.digest \in {NoFile, store.digest}

\* A table that is used, by the launcher or by the kernel, is of the image that the server
\* has as the parent: the delta names every chunk that differs.
DeltaIsAgainstParent ==
    /\ pc = "push" /\ entry.known /\ Usable(entry) => store.of = history[entry.version]
    /\ pc \in {"done", "off"} /\ KernelUsable => store.of = history[state.version]

----------------------------------------------------------------------------
(* What the comments say and the code does not keep.                       *)

\* SlotSync.c:752-754, of a reset: the launcher then "is told 409 -- which is a refusal,
\* not a loss".
ResetLosesNothing ==
    [][Push /\ history' # history => HeadImage \subseteq NoFile \cup image]_vars
=============================================================================
