------------------------- MODULE LauncherSyncProofs -------------------------
(***************************************************************************)
(* Proofs about LauncherSync: the card is never lost, what a console       *)
(* commits has every save of the version it replaces, and a delta is       *)
(* against its parent, for any number of saves, versions, failures and     *)
(* power cuts, and whatever others push.                                   *)
(***************************************************************************)
EXTENDS LauncherSync, TLAPS, SequenceTheorems

----------------------------------------------------------------------------
(* The inductive invariant.                                                *)

\* What the console has in hand, step by step.
HandInv ==
    /\ pc \in {"push", "ask", "backup"} => image = card /\ card \in Image
    /\ pc \in {"write", "written", "removed"} =>
         /\ serverVersion \in 1..HeadVersion
         /\ image = history[serverVersion]
         /\ entry.version < serverVersion
    /\ pc \in {"written", "removed"} => temp = image
    /\ pc = "removed" => card = NoFile
    /\ pc \in {"recording", "recorded"} =>
         image = card /\ entry.version >= 1 /\ card = history[entry.version]
    /\ pc = "game" => ram \in Image /\ card \in Image /\ card \subseteq ram
    /\ pushed # NoFile => parent >= 1 /\ pushed = history[parent]

\* A digest on record is that of a version, and no card is to be replaced that is not one or
\* was not copied aside.
KeepInv ==
    /\ entry.digest \in Versions \cup {NoFile}
    /\ state.digest \in Versions \cup {NoFile}
    /\ pc \in {"pull", "write", "written"} => card \in Versions \/ bak = card

\* A card with this image may be pushed on top of version v: if v is the head, the card has all
\* of its saves.
Descends(v, img) == v = HeadVersion => HeadImage \subseteq NoFile \cup img \cup ramOnly

\* Every version that may ever be named as the parent is one the card descends from.
ParentInv ==
    /\ Descends(state.version, card)
    /\ pc # "game" => Descends(runtime, card)
    /\ pc = "game" => Descends(runtime, ram) /\ Descends(parent, ram)
    /\ pc \notin {"off", "game"} => Descends(entry.version, card) /\ state.version <= entry.version
    /\ pc \notin {"off", "game", "merge"} => runtime = 0
    /\ ~ entry.known => entry.version = 0
    /\ ~ state.known => state.version = 0

\* A table on record is that of the version it names.
TableInv ==
    \A table \in {store, runtimeFp} :
        table # NoTable => table.version \in 1..HeadVersion /\ table.of = history[table.version]

IInv == TypeOK /\ HandInv /\ KeepInv /\ ParentInv /\ TableInv

----------------------------------------------------------------------------
(* The server's history.                                                   *)

\* The constants are numbers.
LEMMA Numbers ==
    /\ MaxSaves \in Nat /\ MaxVersion \in Nat /\ MaxOthers \in Nat
    /\ MaxCuts \in Nat /\ MaxFailures \in Nat
<1>1. \A n \in {MaxSaves, MaxVersion, MaxOthers, MaxCuts, MaxFailures} : n \in Nat
  BY LauncherAssumption
<1> QED
  BY <1>1

\* The head, and what there is before the first version.
LEMMA TheHead ==
    ASSUME ServerTypes
    PROVE  /\ HeadVersion \in Nat
           /\ history = <<>> <=> HeadVersion = 0
           /\ history # <<>> => HeadVersion \in 1..HeadVersion /\ HeadImage = history[HeadVersion]
           /\ HeadVersion = 0 => HeadImage = NoFile
           /\ \A v \in 1..HeadVersion : history[v] \in Versions /\ history[v] \in Image
           /\ Versions \subseteq Image
<1>1. history \in Seq(Image) /\ HeadVersion = Len(history) /\ Len(history) \in Nat
  BY DEF ServerTypes, HeadVersion
<1>2. history = <<>> <=> HeadVersion = 0
  BY <1>1
<1>3. \A v \in 1..HeadVersion : history[v] \in Image
  BY <1>1
<1> QED
  BY <1>1, <1>2, <1>3 DEF HeadImage, Versions

\* The history stays as it is, or somebody appends to it.
Moves == history' = history \/ \E img \in Image : Commit(img)

\* What that leaves as it was.
HistoryGrows ==
    /\ history' \in Seq(Image)
    /\ HeadVersion \in Nat /\ HeadVersion' \in Nat
    /\ HeadVersion <= HeadVersion' /\ HeadVersion' <= MaxVersion
    /\ \A v \in 1..HeadVersion : history'[v] = history[v]
    /\ HeadVersion' = HeadVersion => HeadImage' = HeadImage
    /\ Entries \subseteq Entries' /\ Tables \subseteq Tables' /\ Versions \subseteq Versions'

\* What Commit does.
LEMMA Committed ==
    ASSUME ServerTypes, NEW img \in Image, Commit(img)
    PROVE  /\ history' \in Seq(Image)
           /\ HeadVersion \in Nat
           /\ HeadVersion' = HeadVersion + 1 /\ HeadVersion' <= MaxVersion
           /\ \A v \in 1..HeadVersion : history'[v] = history[v]
           /\ HeadImage' = img /\ img \in Versions' /\ history'[HeadVersion + 1] = img
<1>1. history \in Seq(Image) /\ HeadVersion = Len(history) /\ Len(history) \in Nat
  BY DEF ServerTypes, HeadVersion
<1>2. history' = Append(history, img) /\ Len(history) < MaxVersion
  BY DEF Commit
<1>3. /\ history' \in Seq(Image) /\ Len(history') = Len(history) + 1
      /\ history'[Len(history) + 1] = img
      /\ \A v \in 1..Len(history) : history'[v] = history[v]
  BY <1>1, <1>2
<1>4. HeadVersion' = HeadVersion + 1 /\ HeadVersion' <= MaxVersion
  BY <1>1, <1>2, <1>3, Numbers DEF HeadVersion
<1>5. history' # <<>> /\ HeadVersion' \in 1..HeadVersion'
  BY <1>1, <1>3, <1>4
<1> QED
  BY <1>1, <1>3, <1>4, <1>5 DEF HeadImage, Versions

\* A version stays a version.
LEMMA VersionsStay ==
    ASSUME HeadVersion \in Nat, HeadVersion' \in Nat, HeadVersion <= HeadVersion',
           \A v \in 1..HeadVersion : history'[v] = history[v]
    PROVE  Entries \subseteq Entries' /\ Tables \subseteq Tables' /\ Versions \subseteq Versions'
<1>1. 0..HeadVersion \subseteq 0..HeadVersion' /\ 1..HeadVersion \subseteq 1..HeadVersion'
  OBVIOUS
<1>2. Entries \subseteq Entries'
  BY <1>1 DEF Entries
<1>3. Tables \subseteq Tables'
  BY <1>1 DEF Tables
<1>4. Versions \subseteq Versions'
  BY <1>1 DEF Versions
<1> QED
  BY <1>2, <1>3, <1>4

LEMMA Grows ==
    ASSUME ServerTypes, Moves
    PROVE  HistoryGrows
<1>1. CASE history' = history
  <2>1. HeadVersion' = HeadVersion /\ HeadImage' = HeadImage
    BY <1>1 DEF HeadVersion, HeadImage
  <2> QED
    BY <1>1, <2>1, TheHead, VersionsStay DEF HistoryGrows, ServerTypes
<1>2. CASE \E img \in Image : Commit(img)
  <2>1. PICK img \in Image : Commit(img)
    BY <1>2
  <2>2. HeadVersion' \in Nat /\ HeadVersion <= HeadVersion' /\ HeadVersion' # HeadVersion
    BY <2>1, Committed
  <2> QED
    BY <2>1, <2>2, Committed, VersionsStay DEF HistoryGrows
<1> QED
  BY <1>1, <1>2 DEF Moves

\* A failure is counted within its bound.
LEMMA FailsTypes ==
    ASSUME failures \in 0..MaxFailures, Fails
    PROVE  failures' \in 0..MaxFailures
BY Numbers DEF Fails

\* What a run may put on record.
LEMMA Records ==
    ASSUME ServerTypes
    PROVE  /\ NoEntry \in Entries /\ NoTable \in Tables /\ NoFile \in File
           /\ \A v \in 0..HeadVersion, f \in File :
                [known |-> TRUE, version |-> v, digest |-> f] \in Entries
           /\ \A v \in 1..HeadVersion, f \in File, i \in Image :
                [version |-> v, digest |-> f, of |-> i] \in Tables
BY TheHead DEF NoEntry, NoTable, Entries, Tables, File

\* What a step that leaves the history alone leaves with it.
Stays ==
    /\ history' = history /\ HeadVersion \in Nat /\ HeadVersion' = HeadVersion
    /\ HeadImage' = HeadImage /\ Versions' = Versions
    /\ Entries' = Entries /\ Tables' = Tables

LEMMA Unmoved ==
    ASSUME ServerTypes, history' = history
    PROVE  Stays
BY TheHead DEF Stays, HeadVersion, HeadImage, Versions, Entries, Tables

\* A step that leaves the versions on record and the card as they are.
LEMMA DescendsStays ==
    ASSUME HistoryGrows, NEW v \in 0..HeadVersion, NEW img, NEW new, img \subseteq new,
           Descends(v, img), ramOnly \subseteq ramOnly'
    PROVE  (v = HeadVersion' => HeadImage' \subseteq NoFile \cup new \cup ramOnly')
BY DEF HistoryGrows, Descends

\* The head is an image of the card, or there is no version.
LEMMA HeadTypes ==
    ASSUME ServerTypes
    PROVE  HeadImage \in File /\ (HeadVersion >= 1 => HeadImage \in Versions)
BY TheHead DEF File

\* Before there is a version, anything descends from it.
LEMMA FromZero ==
    ASSUME ServerTypes, NEW img
    PROVE  Descends(0, img)
BY TheHead DEF Descends

\* The versions that the console names.
LEMMA Named ==
    ASSUME TypeOK
    PROVE  /\ HeadVersion \in Nat
           /\ state.version \in Nat /\ state.version <= HeadVersion
           /\ entry.version \in Nat /\ entry.version <= HeadVersion
           /\ runtime \in Nat /\ runtime <= HeadVersion
           /\ parent \in Nat /\ parent <= HeadVersion
           /\ serverVersion \in Nat /\ serverVersion <= HeadVersion
           /\ state.digest \in File /\ entry.digest \in File
           /\ state.known \in BOOLEAN /\ entry.known \in BOOLEAN
<1>1. HeadVersion \in Nat
  BY TheHead DEF TypeOK
<1>2. /\ state.version \in 0..HeadVersion /\ entry.version \in 0..HeadVersion
      /\ state.digest \in File /\ entry.digest \in File
      /\ state.known \in BOOLEAN /\ entry.known \in BOOLEAN
  BY DEF TypeOK, SdTypes, LauncherTypes, Entries
<1>3. /\ runtime \in 0..HeadVersion /\ parent \in 0..HeadVersion
      /\ serverVersion \in 0..HeadVersion
  BY DEF TypeOK, SdTypes, LauncherTypes, KernelTypes
<1> QED
  BY <1>1, <1>2, <1>3

\* What Boot leaves: the card, which is blank when there was none, and a kernel that knows
\* what state.txt says.
BootLeaves ==
    /\ pc' = "game" /\ card' \in Image /\ ram' = card' /\ owed' = FALSE
    /\ parent' = state.version /\ parent' \in 0..HeadVersion /\ lineage' \in BOOLEAN
    /\ dirty' \in BOOLEAN /\ halted' \in {"no", "blank", "unknown", "conflict"}
    /\ pushed' = NoFile /\ handing' = "no"
    /\ Descends(state.version, card)'
    /\ Descends(runtime, card) => Descends(runtime, card)'

LEMMA Booted ==
    ASSUME IInv, Boot, history' = history, UNCHANGED <<state, runtime, ramOnly>>
    PROVE  BootLeaves
<1> USE DEF IInv, TypeOK
<1>0. Stays
  BY Unmoved
<1>1. card \in Image \/ card = NoFile
  BY DEF SdTypes, File
<1>2. card' \in Image /\ card \subseteq NoFile \cup card'
  BY <1>1 DEF Boot, Image
<1>3. /\ pc' = "game" /\ ram' = card' /\ owed' = FALSE /\ parent' = state.version
      /\ lineage' = state.known /\ dirty' = FALSE /\ pushed' = NoFile /\ handing' = "no"
      /\ halted' = IF ram' = {} THEN "blank" ELSE "no"
  BY DEF Boot
<1>4. /\ Descends(state.version, card)'
      /\ Descends(runtime, card) => Descends(runtime, card)'
  BY <1>0, <1>2 DEF ParentInv, Descends, Stays
<1>5. parent' \in 0..HeadVersion /\ lineage' \in BOOLEAN
  BY <1>3, Named
<1>6. halted' \in {"no", "blank", "unknown", "conflict"} /\ dirty' \in BOOLEAN
  BY <1>3
<1> QED
  BY <1>2, <1>3, <1>4, <1>5, <1>6 DEF BootLeaves

----------------------------------------------------------------------------
(* The steps.                                                              *)

\* The invariant is kept when the tables handed over are looked for.
LEMMA MergeTablesKept ==
    ASSUME IInv, MergeTables
    PROVE  IInv'
<1> USE DEF IInv, TypeOK
<1>0. Stays
  BY Unmoved DEF MergeTables, server
<1>1. ServerTypes'
  BY <1>0 DEF MergeTables, server, Stays, ServerTypes
<1>2. SdTypes'
  BY <1>0, Records DEF MergeTables, server, files, texts, tables, sd, Stays, SdTypes
<1>3. LauncherTypes'
  BY <1>0, Records, FailsTypes DEF MergeTables, launcher, Steps, Stays, LauncherTypes
<1>4. KernelTypes'
  BY <1>0, FailsTypes DEF MergeTables, launcher, kernel, faults, Stays, KernelTypes
<1>5. HandInv'
  BY <1>0 DEF MergeTables, sd, files, launcher, kernel, Stays, HandInv
<1>6. KeepInv'
  BY <1>0 DEF MergeTables, sd, files, texts, launcher, Stays, KeepInv
<1>7. ParentInv'
  BY <1>0 DEF MergeTables, sd, files, texts, launcher, kernel, faults, Stays, Descends,
     ParentInv
<1>8. TableInv'
  BY <1>0 DEF MergeTables, sd, tables, Stays, TableInv
<1> QED
  BY <1>1, <1>2, <1>3, <1>4, <1>5, <1>6, <1>7, <1>8

\* The invariant is kept when runtime-fp.bin is removed.
LEMMA RemoveRuntimeFpKept ==
    ASSUME IInv, RemoveRuntimeFp
    PROVE  IInv'
<1> USE DEF IInv, TypeOK
<1>0. Stays
  BY Unmoved DEF RemoveRuntimeFp, server
<1>1. ServerTypes'
  BY <1>0 DEF RemoveRuntimeFp, server, Stays, ServerTypes
<1>2. SdTypes'
  BY <1>0, Records DEF RemoveRuntimeFp, server, files, texts, tables, sd, Stays, SdTypes
<1>3. LauncherTypes'
  BY <1>0, Records, FailsTypes DEF RemoveRuntimeFp, launcher, Steps, Stays, LauncherTypes
<1>4. KernelTypes'
  BY <1>0, FailsTypes DEF RemoveRuntimeFp, launcher, kernel, faults, Stays, KernelTypes
<1>5. HandInv'
  BY <1>0 DEF RemoveRuntimeFp, sd, files, launcher, kernel, Stays, HandInv
<1>6. KeepInv'
  BY <1>0 DEF RemoveRuntimeFp, sd, files, texts, launcher, Stays, KeepInv
<1>7. ParentInv'
  BY <1>0 DEF RemoveRuntimeFp, sd, files, texts, launcher, kernel, faults, Stays, Descends,
     ParentInv
<1>8. TableInv'
  BY <1>0 DEF RemoveRuntimeFp, sd, tables, Stays, TableInv
<1> QED
  BY <1>1, <1>2, <1>3, <1>4, <1>5, <1>6, <1>7, <1>8

\* The invariant is kept when state.txt is emptied.
LEMMA EmptyStateKept ==
    ASSUME IInv, EmptyState
    PROVE  IInv'
<1> USE DEF IInv, TypeOK
<1>0. Stays
  BY Unmoved DEF EmptyState, server
<1>a. Line \in Entries /\ Line.version = entry.version /\ (~ Line.known => ~ entry.known)
  BY DEF Line, LauncherTypes, Entries
<1>b. \/ state' \in {state, NoEntry}
      \/ /\ state'.version = entry.version /\ state'.digest = NoFile
         /\ state'.known = Line.known /\ state' \in Entries
  BY <1>a, Records DEF EmptyState, Entries
<1>1. ServerTypes'
  BY <1>0 DEF EmptyState, server, Stays, ServerTypes
<1>2. SdTypes'
  BY <1>0, <1>b, Records DEF EmptyState, files, tables, Stays, SdTypes
<1>3. LauncherTypes'
  BY <1>0, Records, FailsTypes DEF EmptyState, launcher, Steps, Stays, LauncherTypes
<1>4. KernelTypes'
  BY <1>0, FailsTypes DEF EmptyState, launcher, kernel, faults, Stays, KernelTypes
<1>5. HandInv'
  BY <1>0 DEF EmptyState, sd, files, launcher, kernel, Stays, HandInv
<1>6. KeepInv'
  BY <1>0, <1>b DEF EmptyState, NoEntry, files, launcher, Stays, KeepInv
<1>7. ParentInv'
  <2>1. Descends(0, card) /\ 0 <= entry.version /\ entry.version <= entry.version
    BY FromZero, Named
  <2> QED
    BY <1>0, <1>a, <1>b, <2>1 DEF EmptyState, NoEntry, files, launcher, kernel, faults, Stays,
       Descends, ParentInv
<1>8. TableInv'
  BY <1>0 DEF EmptyState, sd, tables, Stays, TableInv
<1> QED
  BY <1>1, <1>2, <1>3, <1>4, <1>5, <1>6, <1>7, <1>8

\* The invariant is kept when the old store is removed.
LEMMA RemoveStoreKept ==
    ASSUME IInv, RemoveStore
    PROVE  IInv'
<1> USE DEF IInv, TypeOK
<1>0. Stays
  BY Unmoved DEF RemoveStore, server
<1>1. ServerTypes'
  BY <1>0 DEF RemoveStore, server, Stays, ServerTypes
<1>2. SdTypes'
  BY <1>0, Records DEF RemoveStore, server, files, texts, tables, sd, Stays, SdTypes
<1>3. LauncherTypes'
  BY <1>0, Records, FailsTypes DEF RemoveStore, launcher, Steps, Stays, LauncherTypes
<1>4. KernelTypes'
  BY <1>0, FailsTypes DEF RemoveStore, launcher, kernel, faults, Stays, KernelTypes
<1>5. HandInv'
  BY <1>0 DEF RemoveStore, sd, files, launcher, kernel, Stays, HandInv
<1>6. KeepInv'
  BY <1>0 DEF RemoveStore, sd, files, texts, launcher, Stays, KeepInv
<1>7. ParentInv'
  BY <1>0 DEF RemoveStore, sd, files, texts, launcher, kernel, faults, Stays, Descends,
     ParentInv
<1>8. TableInv'
  BY <1>0 DEF RemoveStore, sd, tables, Stays, TableInv
<1> QED
  BY <1>1, <1>2, <1>3, <1>4, <1>5, <1>6, <1>7, <1>8

\* The invariant is kept when the new one gets its name.
LEMMA RenameStoreKept ==
    ASSUME IInv, RenameStore
    PROVE  IInv'
<1> USE DEF IInv, TypeOK
<1>0. Stays
  BY Unmoved DEF RenameStore, server
<1>a. pc = "recorded" =>
        /\ entry.version \in 1..HeadVersion /\ image = history[entry.version]
        /\ image \in Image /\ card \in Versions
  BY TheHead, Named DEF HandInv
<1>1. ServerTypes'
  BY <1>0 DEF RenameStore, Fingerprints, server, Stays, ServerTypes
<1>2. SdTypes'
  <2>1. pc = "recorded" => Fingerprints \in Tables
    BY <1>a, Records DEF Fingerprints, LauncherTypes, Entries
  <2> QED
    BY <1>0, <2>1 DEF RenameStore, files, texts, Stays, SdTypes
<1>3. LauncherTypes'
  BY <1>0, Records, FailsTypes DEF RenameStore, Fingerprints, launcher, Steps, Stays,
     LauncherTypes
<1>4. KernelTypes'
  BY <1>0, FailsTypes DEF RenameStore, Fingerprints, launcher, kernel, faults, Stays,
     KernelTypes
<1>5. HandInv'
  BY <1>0 DEF RenameStore, Fingerprints, sd, files, launcher, kernel, Stays, HandInv
<1>6. KeepInv'
  BY <1>0, <1>a DEF RenameStore, Fingerprints, files, texts, launcher, Stays, HandInv, KeepInv
<1>7. ParentInv'
  BY <1>0 DEF RenameStore, Fingerprints, sd, files, texts, launcher, kernel, faults, Stays,
     Descends, ParentInv
<1>8. TableInv'
  <2>1. /\ runtimeFp' = runtimeFp
        /\ store' \in {store, runtimeFp} \/ (pc = "recorded" /\ store' = Fingerprints)
    BY DEF RenameStore
  <2>2. pc = "recorded" =>
          Fingerprints.version \in 1..HeadVersion /\ Fingerprints.of = history[Fingerprints.version]
    BY <1>a DEF Fingerprints
  <2> QED
    BY <1>0, <2>1, <2>2 DEF Stays, TableInv
<1> QED
  BY <1>1, <1>2, <1>3, <1>4, <1>5, <1>6, <1>7, <1>8

\* The invariant is kept when the card is kept.
LEMMA KeepKept ==
    ASSUME IInv, Keep
    PROVE  IInv'
<1> USE DEF IInv, TypeOK
<1>0. Stays
  BY Unmoved DEF Keep, server
<1>1. ServerTypes'
  BY <1>0 DEF Keep, EndWith, server, Stays, ServerTypes
<1>2. SdTypes'
  BY <1>0, Records DEF Keep, EndWith, server, files, texts, tables, sd, Stays, SdTypes
<1>3. LauncherTypes'
  BY <1>0, Records, FailsTypes DEF Keep, EndWith, launcher, Steps, Stays, LauncherTypes
<1>4. KernelTypes'
  BY <1>0, FailsTypes DEF Keep, EndWith, launcher, kernel, faults, Stays, KernelTypes
<1>5. HandInv'
  BY <1>0 DEF Keep, EndWith, sd, files, launcher, kernel, Stays, HandInv
<1>6. KeepInv'
  BY <1>0 DEF Keep, EndWith, sd, files, texts, launcher, Stays, KeepInv
<1>7. ParentInv'
  BY <1>0 DEF Keep, EndWith, sd, files, texts, launcher, kernel, faults, Stays, Descends,
     ParentInv
<1>8. TableInv'
  BY <1>0 DEF Keep, EndWith, sd, tables, Stays, TableInv
<1> QED
  BY <1>1, <1>2, <1>3, <1>4, <1>5, <1>6, <1>7, <1>8

\* The invariant is kept when the launcher is left at the question.
LEMMA ExitAtPromptKept ==
    ASSUME IInv, ExitAtPrompt
    PROVE  IInv'
<1> USE DEF IInv, TypeOK
<1>0. Stays
  BY Unmoved DEF ExitAtPrompt, server
<1>1. ServerTypes'
  BY <1>0 DEF ExitAtPrompt, server, Stays, ServerTypes
<1>2. SdTypes'
  BY <1>0, Records DEF ExitAtPrompt, server, files, texts, tables, sd, Stays, SdTypes
<1>3. LauncherTypes'
  BY <1>0, Records, FailsTypes DEF ExitAtPrompt, launcher, Steps, Stays, LauncherTypes
<1>4. KernelTypes'
  BY <1>0, FailsTypes DEF ExitAtPrompt, launcher, kernel, faults, Stays, KernelTypes
<1>5. HandInv'
  BY <1>0 DEF ExitAtPrompt, sd, files, launcher, kernel, Stays, HandInv
<1>6. KeepInv'
  BY <1>0 DEF ExitAtPrompt, sd, files, texts, launcher, Stays, KeepInv
<1>7. ParentInv'
  BY <1>0 DEF ExitAtPrompt, sd, files, texts, launcher, kernel, faults, Stays, Descends,
     ParentInv
<1>8. TableInv'
  BY <1>0 DEF ExitAtPrompt, sd, tables, Stays, TableInv
<1> QED
  BY <1>1, <1>2, <1>3, <1>4, <1>5, <1>6, <1>7, <1>8

\* The invariant is kept when the old copy is emptied.
LEMMA OpenBackupKept ==
    ASSUME IInv, OpenBackup
    PROVE  IInv'
<1> USE DEF IInv, TypeOK
<1>0. Stays
  BY Unmoved DEF OpenBackup, server
<1>1. ServerTypes'
  BY <1>0 DEF OpenBackup, server, Stays, ServerTypes
<1>2. SdTypes'
  BY <1>0, Records DEF OpenBackup, server, files, texts, tables, sd, Stays, SdTypes
<1>3. LauncherTypes'
  BY <1>0, Records, FailsTypes DEF OpenBackup, launcher, Steps, Stays, LauncherTypes
<1>4. KernelTypes'
  BY <1>0, FailsTypes DEF OpenBackup, launcher, kernel, faults, Stays, KernelTypes
<1>5. HandInv'
  BY <1>0 DEF OpenBackup, sd, files, launcher, kernel, Stays, HandInv
<1>6. KeepInv'
  BY <1>0 DEF OpenBackup, sd, files, texts, launcher, Stays, KeepInv
<1>7. ParentInv'
  BY <1>0 DEF OpenBackup, sd, files, texts, launcher, kernel, faults, Stays, Descends,
     ParentInv
<1>8. TableInv'
  BY <1>0 DEF OpenBackup, sd, tables, Stays, TableInv
<1> QED
  BY <1>1, <1>2, <1>3, <1>4, <1>5, <1>6, <1>7, <1>8

\* The invariant is kept when the card is copied aside, or not.
LEMMA WriteBackupKept ==
    ASSUME IInv, WriteBackup
    PROVE  IInv'
<1> USE DEF IInv, TypeOK
<1>0. Stays
  BY Unmoved DEF WriteBackup, server
<1>1. ServerTypes'
  BY <1>0 DEF WriteBackup, EndWith, server, Stays, ServerTypes
<1>2. SdTypes'
  BY <1>0 DEF WriteBackup, EndWith, texts, tables, Stays, SdTypes, LauncherTypes
<1>3. LauncherTypes'
  BY <1>0, Records, FailsTypes DEF WriteBackup, EndWith, launcher, Steps, Stays, LauncherTypes
<1>4. KernelTypes'
  BY <1>0, FailsTypes DEF WriteBackup, EndWith, launcher, kernel, faults, Stays, KernelTypes
<1>5. HandInv'
  BY <1>0 DEF WriteBackup, EndWith, sd, files, launcher, kernel, Stays, HandInv
<1>6. KeepInv'
  BY <1>0 DEF WriteBackup, EndWith, texts, tables, Stays, HandInv, KeepInv
<1>7. ParentInv'
  BY <1>0 DEF WriteBackup, EndWith, sd, files, texts, launcher, kernel, faults, Stays,
     Descends, ParentInv
<1>8. TableInv'
  BY <1>0 DEF WriteBackup, EndWith, sd, tables, Stays, TableInv
<1> QED
  BY <1>1, <1>2, <1>3, <1>4, <1>5, <1>6, <1>7, <1>8

\* The invariant is kept when the card is pulled, or not.
LEMMA PullKept ==
    ASSUME IInv, Pull
    PROVE  IInv'
<1> USE DEF IInv, TypeOK
<1>0. Stays
  BY Unmoved DEF Pull, server
<1>1. ServerTypes'
  BY <1>0 DEF Pull, EndWith, Ahead, server, Stays, ServerTypes
<1>2. SdTypes'
  BY <1>0, Records DEF Pull, EndWith, Ahead, server, files, texts, tables, sd, Stays, SdTypes
<1>3. LauncherTypes'
  BY <1>0, HeadTypes, Named, FailsTypes DEF Pull, EndWith, Ahead, launcher, Steps, Stays,
     LauncherTypes
<1>4. KernelTypes'
  BY <1>0, FailsTypes DEF Pull, EndWith, Ahead, launcher, kernel, faults, Stays, KernelTypes
<1>5. HandInv'
  <2>1. Ahead => HeadVersion \in 1..HeadVersion /\ entry.version < HeadVersion /\ history # <<>>
    BY Named, TheHead DEF Ahead
  <2>2. Ahead => HeadImage = history[HeadVersion]
    BY <2>1, TheHead
  <2> QED
    BY <1>0, <2>1, <2>2 DEF Pull, EndWith, sd, files, kernel, Stays, HandInv
<1>6. KeepInv'
  BY <1>0 DEF Pull, EndWith, Ahead, sd, files, texts, launcher, Stays, KeepInv
<1>7. ParentInv'
  BY <1>0 DEF Pull, EndWith, Ahead, sd, files, texts, launcher, kernel, faults, Stays,
     Descends, ParentInv
<1>8. TableInv'
  BY <1>0 DEF Pull, EndWith, Ahead, sd, tables, Stays, TableInv
<1> QED
  BY <1>1, <1>2, <1>3, <1>4, <1>5, <1>6, <1>7, <1>8

\* The invariant is kept when the pulled card is written.
LEMMA WriteTempKept ==
    ASSUME IInv, WriteTemp
    PROVE  IInv'
<1> USE DEF IInv, TypeOK
<1>0. Stays
  BY Unmoved DEF WriteTemp, server
<1>1. ServerTypes'
  BY <1>0 DEF WriteTemp, EndWith, server, Stays, ServerTypes
<1>2. SdTypes'
  BY <1>0, Records DEF WriteTemp, EndWith, texts, tables, Stays, SdTypes, LauncherTypes
<1>3. LauncherTypes'
  BY <1>0, Records, FailsTypes DEF WriteTemp, EndWith, launcher, Steps, Stays, LauncherTypes
<1>4. KernelTypes'
  BY <1>0, FailsTypes DEF WriteTemp, EndWith, launcher, kernel, faults, Stays, KernelTypes
<1>5. HandInv'
  BY <1>0 DEF WriteTemp, EndWith, sd, files, launcher, kernel, Stays, HandInv
<1>6. KeepInv'
  BY <1>0 DEF WriteTemp, EndWith, sd, files, texts, launcher, Stays, KeepInv
<1>7. ParentInv'
  BY <1>0 DEF WriteTemp, EndWith, sd, files, texts, launcher, kernel, faults, Stays, Descends,
     ParentInv
<1>8. TableInv'
  BY <1>0 DEF WriteTemp, EndWith, sd, tables, Stays, TableInv
<1> QED
  BY <1>1, <1>2, <1>3, <1>4, <1>5, <1>6, <1>7, <1>8

\* The invariant is kept when the old card is removed.
LEMMA RemoveCardKept ==
    ASSUME IInv, RemoveCard
    PROVE  IInv'
<1> USE DEF IInv, TypeOK
<1>0. Stays
  BY Unmoved DEF RemoveCard, server
<1>1. ServerTypes'
  BY <1>0 DEF RemoveCard, server, Stays, ServerTypes
<1>2. SdTypes'
  BY <1>0, Records DEF RemoveCard, server, files, texts, tables, sd, Stays, SdTypes
<1>3. LauncherTypes'
  BY <1>0, Records, FailsTypes DEF RemoveCard, launcher, Steps, Stays, LauncherTypes
<1>4. KernelTypes'
  BY <1>0, FailsTypes DEF RemoveCard, launcher, kernel, faults, Stays, KernelTypes
<1>5. HandInv'
  BY <1>0 DEF RemoveCard, sd, files, launcher, kernel, Stays, HandInv
<1>6. KeepInv'
  BY <1>0 DEF RemoveCard, sd, files, texts, launcher, Stays, KeepInv
<1>7. ParentInv'
  <2>1. state.version <= entry.version /\ entry.version < HeadVersion /\ runtime = 0
    BY Named DEF RemoveCard, HandInv, ParentInv
  <2>2. state.version # HeadVersion /\ entry.version # HeadVersion
    BY <2>1, Named
  <2>3. Descends(0, NoFile)
    BY FromZero
  <2> QED
    BY <1>0, <2>1, <2>2, <2>3 DEF RemoveCard, texts, launcher, kernel, faults, Stays, Descends,
       ParentInv
<1>8. TableInv'
  BY <1>0 DEF RemoveCard, sd, tables, Stays, TableInv
<1> QED
  BY <1>1, <1>2, <1>3, <1>4, <1>5, <1>6, <1>7, <1>8

\* The invariant is kept when the new one gets its name.
LEMMA RenameCardKept ==
    ASSUME IInv, RenameCard
    PROVE  IInv'
<1> USE DEF IInv, TypeOK
<1>0. Stays
  BY Unmoved DEF RenameCard, server
<1>1. ServerTypes'
  BY <1>0 DEF RenameCard, EndWith, Agree, server, Stays, ServerTypes
<1>2. SdTypes'
  BY <1>0, Records DEF RenameCard, EndWith, Agree, server, files, texts, tables, sd, Stays,
     SdTypes
<1>3. LauncherTypes'
  BY <1>0, Records, FailsTypes DEF RenameCard, EndWith, Agree, launcher, Steps, Stays,
     LauncherTypes
<1>4. KernelTypes'
  BY <1>0, FailsTypes DEF RenameCard, EndWith, Agree, launcher, kernel, faults, Stays,
     KernelTypes
<1>5. HandInv'
  <2>1. pc = "removed" => temp = image /\ image \in Versions /\ serverVersion >= 1
    BY TheHead, Named DEF HandInv
  <2> QED
    BY <1>0, <2>1 DEF RenameCard, EndWith, Agree, kernel, Stays, HandInv
<1>6. KeepInv'
  <2>1. pc = "removed" => image \in Versions
    BY TheHead DEF HandInv
  <2> QED
    BY <1>0, <2>1 DEF RenameCard, EndWith, Agree, texts, Stays, KeepInv
<1>7. ParentInv'
  <2>1. /\ temp = image /\ image = history[serverVersion] /\ card = NoFile /\ runtime = 0
        /\ state.version <= entry.version /\ entry.version < serverVersion
        /\ serverVersion \in 1..HeadVersion
    BY DEF RenameCard, HandInv, ParentInv
  <2>2. /\ state.version <= serverVersion /\ state.version # HeadVersion
        /\ serverVersion = HeadVersion => HeadImage = image
    BY <2>1, Named, TheHead
  <2>3. Descends(serverVersion, image) /\ Descends(0, image)
    BY <2>2, FromZero DEF Descends
  <2>4. CASE card' = temp /\ Agree(serverVersion)
    <3>1. /\ entry'.version = serverVersion /\ entry'.known = TRUE /\ card' = image
          /\ pc' # "game" /\ state' = state /\ runtime' = 0 /\ ramOnly' = ramOnly
      BY <2>1, <2>4 DEF RenameCard, Agree, EndWith, texts
    <3> QED
      BY <1>0, <2>2, <2>3, <3>1 DEF Descends, ParentInv, Stays
  <2>5. CASE EndWith("failed") /\ UNCHANGED <<card, entry>>
    BY <1>0, <2>5 DEF RenameCard, EndWith, texts, kernel, Stays, Descends, ParentInv
  <2> QED
    BY <2>4, <2>5 DEF RenameCard
<1>8. TableInv'
  BY <1>0 DEF RenameCard, EndWith, Agree, sd, tables, Stays, TableInv
<1> QED
  BY <1>1, <1>2, <1>3, <1>4, <1>5, <1>6, <1>7, <1>8

\* The invariant is kept when state.txt is written.
LEMMA WriteStateKept ==
    ASSUME IInv, WriteState
    PROVE  IInv'
<1> USE DEF IInv, TypeOK
<1>0. Stays
  BY Unmoved DEF WriteState, server
<1>a. state' \in {state, Line} /\ Line \in Entries
  BY DEF WriteState, Line, LauncherTypes, Entries
<1>1. ServerTypes'
  BY <1>0 DEF WriteState, Line, server, Stays, ServerTypes
<1>2. SdTypes'
  <2>1. state' \in Entries
    BY <1>a DEF SdTypes
  <2> QED
    BY <1>0, <2>1 DEF WriteState, files, tables, Stays, SdTypes
<1>3. LauncherTypes'
  BY <1>0, Records, FailsTypes DEF WriteState, Line, launcher, Steps, Stays, LauncherTypes
<1>4. KernelTypes'
  BY <1>0, FailsTypes DEF WriteState, Line, launcher, kernel, faults, Stays, KernelTypes
<1>5. HandInv'
  BY <1>0 DEF WriteState, Line, sd, files, launcher, kernel, Stays, HandInv
<1>6. KeepInv'
  <2>1. Line.digest = entry.digest
    BY DEF Line, LauncherTypes, Entries
  <2> QED
    BY <1>0, <1>a, <2>1 DEF WriteState, files, launcher, Stays, KeepInv
<1>7. ParentInv'
  <2>1. state' = state \/ (state'.version = entry.version /\ (~ state'.known => ~ entry.known))
    BY <1>a DEF Line, LauncherTypes, Entries
  <2> QED
    BY <1>0, <2>1, Named DEF WriteState, files, launcher, kernel, faults, Stays, Descends, ParentInv
<1>8. TableInv'
  BY <1>0 DEF WriteState, Line, sd, tables, Stays, TableInv
<1> QED
  BY <1>1, <1>2, <1>3, <1>4, <1>5, <1>6, <1>7, <1>8

\* The invariant is kept when the handoff is merged.
LEMMA MergeRuntimeKept ==
    ASSUME IInv, MergeRuntime
    PROVE  IInv'
<1> USE DEF IInv, TypeOK
<1>0. Stays
  BY Unmoved DEF MergeRuntime, server
<1>1. ServerTypes'
  BY <1>0 DEF MergeRuntime, Adopt, IsForward, server, Stays, ServerTypes
<1>2. SdTypes'
  BY <1>0, Records DEF MergeRuntime, Adopt, IsForward, server, files, texts, tables, sd,
     Stays, SdTypes
<1>3. LauncherTypes'
  <2>1. entry' \in Entries
    BY DEF MergeRuntime, Adopt, SdTypes, LauncherTypes, Entries
  <2> QED
    BY <1>0, <2>1 DEF MergeRuntime, Steps, Stays, LauncherTypes
<1>4. KernelTypes'
  BY <1>0, FailsTypes DEF MergeRuntime, Adopt, IsForward, launcher, kernel, faults, Stays,
     KernelTypes
<1>5. HandInv'
  BY <1>0 DEF MergeRuntime, Adopt, IsForward, sd, files, launcher, kernel, Stays, HandInv
<1>6. KeepInv'
  <2>1. entry'.digest = entry.digest
    BY DEF MergeRuntime, Adopt, LauncherTypes, Entries
  <2> QED
    BY <1>0, <2>1 DEF MergeRuntime, files, Stays, KeepInv
<1>7. ParentInv'
  <2>1. Descends(0, card)
    BY FromZero
  <2>2. CASE IsForward(runtime) /\ Adopt(runtime)
    <3>1. entry'.version = runtime /\ entry'.known = TRUE
      BY <2>2 DEF Adopt, LauncherTypes, Entries
    <3>2. state.version <= runtime
      BY <2>2, Named DEF MergeRuntime, IsForward, ParentInv
    <3> QED
      BY <1>0, <2>1, <3>1, <3>2 DEF MergeRuntime, files, kernel, faults, Stays, Descends, ParentInv
  <2>3. CASE UNCHANGED entry
    BY <1>0, <2>1, <2>3 DEF MergeRuntime, files, kernel, faults, Stays, Descends, ParentInv
  <2> QED
    BY <2>2, <2>3 DEF MergeRuntime
<1>8. TableInv'
  BY <1>0 DEF MergeRuntime, Adopt, IsForward, sd, tables, Stays, TableInv
<1> QED
  BY <1>1, <1>2, <1>3, <1>4, <1>5, <1>6, <1>7, <1>8

\* The invariant is kept when the card is read.
LEMMA AskHeadKept ==
    ASSUME IInv, AskHead
    PROVE  IInv'
<1> USE DEF IInv, TypeOK
<1>0. Stays
  BY Unmoved DEF AskHead, server
<1>1. ServerTypes'
  BY <1>0 DEF AskHead, EndWith, Changed, Found, Identified, server, Stays, ServerTypes
<1>2. SdTypes'
  BY <1>0, Records DEF AskHead, EndWith, Changed, Found, Identified, server, files, texts,
     tables, sd, Stays, SdTypes
<1>3. LauncherTypes'
  <2>1. serverVersion' \in 0..HeadVersion
    BY Named DEF AskHead
  <2>2. unknown' \in BOOLEAN
    BY Zenon DEF AskHead, EndWith, LauncherTypes
  <2> QED
    BY <1>0, <2>1, <2>2 DEF AskHead, EndWith, sd, files, Steps, Stays, SdTypes, LauncherTypes
<1>4. KernelTypes'
  BY <1>0, FailsTypes DEF AskHead, EndWith, Changed, Found, Identified, launcher, kernel,
     faults, Stays, KernelTypes
<1>5. HandInv'
  <2>1. Found => card \in Image
    BY DEF Found, SdTypes, File
  <2> QED
    BY <1>0, <2>1 DEF AskHead, EndWith, sd, files, kernel, Stays, HandInv
<1>6. KeepInv'
  BY <1>0 DEF AskHead, EndWith, Changed, Found, Identified, sd, files, texts, launcher, Stays,
     KeepInv
<1>7. ParentInv'
  BY <1>0 DEF AskHead, EndWith, Changed, Found, Identified, sd, files, texts, launcher,
     kernel, faults, Stays, Descends, ParentInv
<1>8. TableInv'
  BY <1>0 DEF AskHead, EndWith, Changed, Found, Identified, sd, tables, Stays, TableInv
<1> QED
  BY <1>1, <1>2, <1>3, <1>4, <1>5, <1>6, <1>7, <1>8

\* The invariant is kept when the launcher pushes.
LEMMA PushKept ==
    ASSUME IInv, Push
    PROVE  IInv'
<1> USE DEF IInv, TypeOK
<1>a. card \in Image /\ image = card
  BY DEF Push, HandInv
<1>0. HistoryGrows
  <2>1. Moves
    BY <1>a DEF Push, Moves, EndWith
  <2> QED
    BY <2>1, Grows
<1>b. \/ /\ UNCHANGED <<history, outcome, failures>>
         /\ entry' = [known |-> TRUE, version |-> HeadVersion, digest |-> image]
         /\ HeadVersion >= 1 /\ HeadImage = image
         /\ serverVersion' = HeadVersion /\ pc' = "recording"
      \/ /\ Commit(image) /\ UNCHANGED <<outcome, failures>>
         /\ entry' = [known |-> TRUE, version |-> HeadVersion + 1, digest |-> image]
         /\ serverVersion' = HeadVersion + 1 /\ pc' = "recording"
      \/ /\ UNCHANGED <<history, entry, outcome, failures>>
         /\ serverVersion' = HeadVersion /\ pc' = "ask"
      \/ /\ Commit(image) \/ UNCHANGED history
         /\ UNCHANGED <<entry, serverVersion>>
         /\ Fails /\ outcome' = "failed" /\ pc' = "synced"
  <2>1. history # <<>> => HeadVersion >= 1
    BY TheHead
  <2> QED
    BY <2>1 DEF Push, Unchanged, Agree, EndWith
<1>c. UNCHANGED history => HeadVersion' = HeadVersion /\ HeadImage' = HeadImage
  BY DEF HeadVersion, HeadImage
<1>d. Commit(image) => HeadVersion' = HeadVersion + 1 /\ HeadImage' = image /\ image \in Versions'
  BY <1>a, Committed
<1>e. HeadVersion >= 1 => HeadImage \in Versions /\ HeadImage = history[HeadVersion]
  BY HeadTypes, TheHead
<1>f. Commit(image) => history'[HeadVersion + 1] = image
  BY <1>a, Committed, TheHead
<1>1. ServerTypes'
  BY <1>0 DEF Push, EndWith, Agree, Unchanged, Commits, Conflicts, server, HistoryGrows,
     ServerTypes
<1>2. SdTypes'
  BY <1>0, Records DEF Push, EndWith, Agree, Unchanged, Commits, Conflicts, server, files,
     texts, tables, sd, HistoryGrows, SdTypes
<1>3. LauncherTypes'
  <2>1. serverVersion' \in 0..HeadVersion'
    BY <1>0, <1>b, <1>c, <1>d, Named DEF HistoryGrows
  <2>2. asked' \in 0..HeadVersion'
    BY <1>0 DEF Push, HistoryGrows, LauncherTypes
  <2>3. entry' \in Entries'
    <3>1. entry' = entry \/ entry'= [known |-> TRUE, version |-> HeadVersion', digest |-> image]
      BY <1>b, <1>c, <1>d
    <3>2. [known |-> TRUE, version |-> HeadVersion', digest |-> image] \in Entries'
      BY <1>0, <1>a DEF HistoryGrows, Entries, File
    <3> QED
      BY <1>0, <3>1, <3>2 DEF HistoryGrows, LauncherTypes
  <2>4. pc' \in Steps /\ outcome' \in {"none", "skipped", "failed", "kept", "ok"}
    BY <1>b DEF Steps, LauncherTypes
  <2> QED
    BY <2>1, <2>2, <2>3, <2>4 DEF Push, LauncherTypes
<1>4. KernelTypes'
  BY <1>0, FailsTypes DEF Push, EndWith, Agree, Unchanged, Commits, Conflicts, launcher,
     kernel, faults, HistoryGrows, KernelTypes
<1>5. HandInv'
  <2>1. pc' = "recording" => image = history'[entry'.version] /\ entry'.version >= 1
    BY <1>0, <1>b, <1>e, <1>f DEF HistoryGrows
  <2>2. pushed' = pushed /\ parent' = parent
    BY DEF Push, kernel
  <2>3. pushed # NoFile => parent \in 1..HeadVersion
    BY Named DEF HandInv
  <2>4. pushed' # NoFile => parent' >= 1 /\ pushed' = history'[parent']
    BY <1>0, <2>2, <2>3 DEF HandInv, HistoryGrows
  <2> QED
    BY <1>a, <1>b, <2>1, <2>4 DEF Push, sd, files, HandInv
<1>6. KeepInv'
  <2>1. pc' = "recording" => entry'.digest = image /\ image \in Versions'
    BY <1>0, <1>b, <1>c, <1>d, <1>e DEF HistoryGrows
  <2>2. pc' # "recording" => entry' = entry
    BY <1>b
  <2>3. pc' \notin {"pull", "write", "written"}
    BY <1>b
  <2> QED
    BY <1>0, <2>1, <2>2, <2>3 DEF Push, sd, files, texts, HistoryGrows, KeepInv
<1>7. ParentInv'
  <2>1. /\ Descends(state.version, card) /\ Descends(0, card) /\ Descends(entry.version, card)
        /\ state.version <= entry.version /\ runtime = 0
        /\ ~ entry.known => entry.version = 0
        /\ ~ state.known => state.version = 0
    BY FromZero DEF Push, ParentInv
  <2>2. /\ card' = card /\ state' = state /\ runtime' = runtime /\ ramOnly' = ramOnly
        /\ pc' \notin {"off", "game", "merge"}
    BY <1>b DEF Push, sd, files, texts
  <2>3. \/ HeadVersion' = HeadVersion /\ HeadImage' = HeadImage
        \/ HeadVersion' = HeadVersion + 1 /\ HeadImage' = image
    BY <1>b, <1>c, <1>d
  <2>4. /\ Descends(state.version, card)' /\ Descends(0, card)'
        /\ entry' = entry => Descends(entry.version, card)'
    BY <2>1, <2>2, <2>3, Named DEF Descends
  <2>5. entry' # entry =>
          /\ entry'.known = TRUE /\ entry'.version = HeadVersion'
          /\ HeadImage' = card /\ HeadVersion <= HeadVersion'
    BY <1>a, <1>b, <1>c, <1>d, Named
  <2>6. state.version <= entry'.version
    BY <1>0, <2>1, <2>5, Named DEF HistoryGrows
  <2>7. entry' # entry => Descends(entry.version, card)'
    BY <2>2, <2>5 DEF Descends
  <2> QED
    BY <2>1, <2>2, <2>4, <2>5, <2>6, <2>7 DEF ParentInv
<1>8. TableInv'
  BY <1>0 DEF Push, sd, tables, HistoryGrows, TableInv
<1> QED
  BY <1>1, <1>2, <1>3, <1>4, <1>5, <1>6, <1>7, <1>8

\* The invariant is kept when the launcher starts.
LEMMA LaunchKept ==
    ASSUME IInv, Launch
    PROVE  IInv'
<1> USE DEF IInv, TypeOK
<1>0. Stays
  BY Unmoved DEF Launch, server
<1>a. Boot => BootLeaves
  BY Booted DEF Launch, server, texts
<1>b. \/ Boot /\ Fails /\ UNCHANGED launcher
      \/ /\ pc' = "merge" /\ entry' = state /\ unknown' \in BOOLEAN /\ asked' = HeadVersion
         /\ image' = NoFile /\ serverVersion' = 0 /\ outcome' = "none"
         /\ UNCHANGED <<card, kernel, failures>>
  BY DEF Launch, LoadState
<1>1. ServerTypes'
  BY <1>0 DEF Launch, LoadState, Boot, server, Stays, ServerTypes
<1>2. SdTypes'
  BY <1>0, <1>a, <1>b DEF Launch, BootLeaves, File, texts, tables, Stays, SdTypes
<1>3. LauncherTypes'
  BY <1>0, <1>a, <1>b, Named DEF BootLeaves, launcher, Steps, File, SdTypes, Stays,
     LauncherTypes
<1>4. KernelTypes'
  BY <1>0, <1>a, <1>b, FailsTypes DEF Launch, BootLeaves, kernel, File, Stays, KernelTypes
<1>5. HandInv'
  BY <1>0, <1>a, <1>b DEF Launch, BootLeaves, kernel, Stays, HandInv
<1>6. KeepInv'
  BY <1>0, <1>a, <1>b DEF Launch, BootLeaves, texts, launcher, Stays, KeepInv
<1>7. ParentInv'
  <2>1. CASE Boot /\ Fails /\ UNCHANGED launcher
    BY <1>0, <1>a, <2>1 DEF Launch, BootLeaves, launcher, texts, Stays, Descends, ParentInv
  <2>2. CASE pc' = "merge" /\ entry' = state /\ UNCHANGED <<card, kernel, failures>>
    BY <1>0, <2>2, Named DEF Launch, kernel, texts, Stays, Descends, ParentInv
  <2> QED
    BY <1>b, <2>1, <2>2
<1>8. TableInv'
  BY <1>0 DEF Launch, LoadState, Boot, sd, tables, Stays, TableInv
<1> QED
  BY <1>1, <1>2, <1>3, <1>4, <1>5, <1>6, <1>7, <1>8

\* The invariant is kept when Nintendont boots.
LEMMA FinishKept ==
    ASSUME IInv, Finish
    PROVE  IInv'
<1> USE DEF IInv, TypeOK
<1>0. Stays
  BY Unmoved DEF Finish, server
<1>a. Boot => BootLeaves
  BY Booted DEF Finish, server, texts, faults
<1>b. Boot \/ (pc' = "off" /\ UNCHANGED <<card, kernel>>)
  BY DEF Finish
<1>1. ServerTypes'
  BY <1>0 DEF Finish, Boot, server, Stays, ServerTypes
<1>2. SdTypes'
  BY <1>0, <1>a, <1>b DEF Finish, BootLeaves, File, texts, tables, Stays, SdTypes
<1>3. LauncherTypes'
  BY <1>0, <1>a, <1>b DEF Finish, BootLeaves, launcher, Steps, Stays, LauncherTypes
<1>4. KernelTypes'
  BY <1>0, <1>a, <1>b DEF Finish, BootLeaves, kernel, faults, File, Stays, KernelTypes
<1>5. HandInv'
  BY <1>0, <1>a, <1>b DEF Finish, BootLeaves, kernel, Stays, HandInv
<1>6. KeepInv'
  BY <1>0, <1>a, <1>b DEF Finish, BootLeaves, texts, launcher, Stays, KeepInv
<1>7. ParentInv'
  <2>1. CASE Boot
    BY <1>0, <1>a, <2>1 DEF Finish, BootLeaves, texts, launcher, faults, Stays, Descends, ParentInv
  <2>2. CASE pc' = "off" /\ UNCHANGED <<card, kernel>>
    BY <1>0, <2>2 DEF Finish, kernel, texts, launcher, faults, Stays, Descends, ParentInv
  <2> QED
    BY <1>b, <2>1, <2>2
<1>8. TableInv'
  BY <1>0 DEF Finish, Boot, sd, tables, Stays, TableInv
<1> QED
  BY <1>1, <1>2, <1>3, <1>4, <1>5, <1>6, <1>7, <1>8

\* The invariant is kept when the game is played.
LEMMA PlayKept ==
    ASSUME IInv, Play
    PROVE  IInv'
<1> USE DEF IInv, TypeOK
<1>0. Stays
  BY Unmoved DEF Play, server
<1>1. ServerTypes'
  BY <1>0, Numbers DEF Play, Stays, ServerTypes
<1>2. SdTypes'
  BY <1>0, Records DEF Play, server, files, texts, tables, sd, Stays, SdTypes
<1>3. LauncherTypes'
  BY <1>0, Records, FailsTypes DEF Play, launcher, Steps, Stays, LauncherTypes
<1>4. KernelTypes'
  <2>1. ram' \in File
    BY Numbers DEF Play, HandInv, ServerTypes, Image, File, Saves
  <2> QED
    BY <1>0, <2>1 DEF Play, kernel, faults, Stays, KernelTypes
<1>5. HandInv'
  <2>1. ram' \in Image /\ ram \subseteq ram'
    BY Numbers DEF Play, HandInv, ServerTypes, Image, Saves
  <2> QED
    BY <1>0, <2>1 DEF Play, sd, files, launcher, Stays, HandInv
<1>6. KeepInv'
  BY <1>0 DEF Play, sd, files, texts, launcher, Stays, KeepInv
<1>7. ParentInv'
  BY <1>0 DEF Play, sd, files, texts, launcher, kernel, faults, Stays, Descends, ParentInv
<1>8. TableInv'
  BY <1>0 DEF Play, sd, tables, Stays, TableInv
<1> QED
  BY <1>1, <1>2, <1>3, <1>4, <1>5, <1>6, <1>7, <1>8

\* The invariant is kept when the card goes to the SD card.
LEMMA SaveCardKept ==
    ASSUME IInv, SaveCard
    PROVE  IInv'
<1> USE DEF IInv, TypeOK
<1>0. Stays
  BY Unmoved DEF SaveCard, server
<1>1. ServerTypes'
  BY <1>0 DEF SaveCard, server, Stays, ServerTypes
<1>2. SdTypes'
  BY <1>0 DEF SaveCard, texts, tables, Stays, SdTypes, KernelTypes
<1>3. LauncherTypes'
  BY <1>0, Records, FailsTypes DEF SaveCard, launcher, Steps, Stays, LauncherTypes
<1>4. KernelTypes'
  BY <1>0, FailsTypes DEF SaveCard, launcher, kernel, faults, Stays, KernelTypes
<1>5. HandInv'
  BY <1>0 DEF SaveCard, sd, files, launcher, kernel, Stays, HandInv
<1>6. KeepInv'
  BY <1>0 DEF SaveCard, sd, files, texts, launcher, Stays, KeepInv
<1>7. ParentInv'
  <2>1. card \subseteq ram
    BY DEF SaveCard, HandInv
  <2> QED
    BY <1>0, <2>1 DEF SaveCard, texts, launcher, faults, Stays, Descends, ParentInv
<1>8. TableInv'
  BY <1>0 DEF SaveCard, sd, tables, Stays, TableInv
<1> QED
  BY <1>1, <1>2, <1>3, <1>4, <1>5, <1>6, <1>7, <1>8

\* The invariant is kept when the kernel pushes.
LEMMA KernelPushKept ==
    ASSUME IInv, KernelPush
    PROVE  IInv'
<1> USE DEF IInv, TypeOK
<1>a. ram \in Image
  BY DEF KernelPush, HandInv
<1>0. HistoryGrows
  <2>1. Moves
    BY <1>a DEF KernelPush, Moves
  <2> QED
    BY <2>1, Grows
<1>b. \/ /\ UNCHANGED <<history, parent, owed, failures>>
         /\ UNCHANGED pushed \/ pushed' = NoFile
         /\ UNCHANGED lineage
         /\ UNCHANGED dirty \/ dirty' = FALSE
         /\ halted' \in {"unknown", "conflict"}
      \/ /\ HeadVersion >= 1 /\ HeadImage = ram /\ parent' = HeadVersion /\ UNCHANGED history
         /\ lineage' = TRUE /\ dirty' = FALSE /\ owed' = TRUE /\ pushed' = ram
         /\ UNCHANGED <<halted, failures>>
      \/ /\ Commit(ram) /\ parent' = HeadVersion + 1
         /\ lineage' = TRUE /\ dirty' = FALSE /\ owed' = TRUE /\ pushed' = ram
         /\ UNCHANGED <<halted, failures>>
      \/ /\ Commit(ram) \/ UNCHANGED history
         /\ Fails /\ lineage' = TRUE /\ pushed' = NoFile
         /\ UNCHANGED <<parent, dirty, halted, owed>>
  <2>1. history # <<>> => HeadVersion >= 1
    BY TheHead
  <2>2. KernelUnchanged => HeadVersion >= 1 /\ HeadImage = ram
    BY <2>1 DEF KernelUnchanged
  <2> QED
    BY <2>2, Zenon DEF KernelPush
<1>c. UNCHANGED history => HeadVersion' = HeadVersion /\ HeadImage' = HeadImage
  BY DEF HeadVersion, HeadImage
<1>d. Commit(ram) => HeadVersion' = HeadVersion + 1 /\ HeadImage' = ram
  BY <1>a, Committed
<1>e. HeadVersion >= 1 => HeadImage = history[HeadVersion]
  BY TheHead
<1>f. Commit(ram) => ram = history'[HeadVersion + 1]
  BY <1>a, Committed
<1>1. ServerTypes'
  BY <1>0 DEF KernelPush, KernelUnchanged, server, HistoryGrows, ServerTypes
<1>2. SdTypes'
  BY <1>0, Records DEF KernelPush, KernelUnchanged, server, files, texts, tables, sd,
     HistoryGrows, SdTypes
<1>3. LauncherTypes'
  BY <1>0, Records, FailsTypes DEF KernelPush, KernelUnchanged, launcher, Steps, HistoryGrows,
     LauncherTypes
<1>4. KernelTypes'
  <2>1. parent' \in 0..HeadVersion'
    BY <1>0, <1>b, <1>c, <1>d, Named DEF HistoryGrows
  <2>2. failures' \in 0..MaxFailures
    BY <1>b, FailsTypes DEF KernelTypes
  <2>3. pushed' \in File
    BY <1>a, <1>b DEF KernelTypes, File
  <2>4. lineage' \in BOOLEAN /\ dirty' \in BOOLEAN /\ owed' \in BOOLEAN
    BY <1>b DEF KernelTypes
  <2>5. halted' \in {"no", "blank", "unknown", "conflict"}
    BY <1>b DEF KernelTypes
  <2> QED
    BY <2>1, <2>2, <2>3, <2>4, <2>5 DEF KernelPush, KernelTypes
<1>5. HandInv'
  <2>1. \/ UNCHANGED <<parent, pushed>>
        \/ pushed' = NoFile
        \/ pushed' = ram /\ parent' >= 1 /\ ram = history'[parent']
    BY <1>b, <1>e, <1>f, Named
  <2>2. ASSUME pushed' # NoFile
        PROVE  parent' >= 1 /\ pushed' = history'[parent']
    <3>1. CASE UNCHANGED <<parent, pushed>>
      <4>1. pushed # NoFile
        BY <2>2, <3>1
      <4>2. parent \in 1..HeadVersion /\ pushed = history[parent]
        BY <4>1, Named DEF HandInv
      <4> QED
        BY <1>0, <3>1, <4>2 DEF HistoryGrows
    <3>2. CASE pushed' = ram /\ parent' >= 1 /\ ram = history'[parent']
      BY <3>2
    <3> QED
      BY <2>1, <2>2, <3>1, <3>2
  <2> QED
    BY <1>0, <2>2 DEF KernelPush, sd, files, launcher, HistoryGrows, HandInv
<1>6. KeepInv'
  BY <1>0 DEF KernelPush, KernelUnchanged, sd, files, texts, launcher, HistoryGrows, KeepInv
<1>7. ParentInv'
  <2>1. /\ Descends(state.version, card) /\ Descends(runtime, ram) /\ Descends(parent, ram)
        /\ ~ entry.known => entry.version = 0
        /\ ~ state.known => state.version = 0
    BY DEF KernelPush, ParentInv
  <2>2. /\ card' = card /\ state' = state /\ runtime' = runtime /\ ramOnly' = ramOnly
        /\ ram' = ram /\ entry' = entry /\ pc' = "game"
    BY DEF KernelPush, sd, files, texts, launcher
  <2>3. \/ HeadVersion' = HeadVersion /\ HeadImage' = HeadImage
        \/ HeadVersion' = HeadVersion + 1 /\ HeadImage' = ram
    BY <1>b, <1>c, <1>d
  <2>4. Descends(state.version, card)' /\ Descends(runtime, ram)'
    BY <2>1, <2>2, <2>3, Named DEF Descends
  <2>5. parent' = parent => Descends(parent, ram)'
    BY <2>1, <2>2, <2>3, Named DEF Descends
  <2>6. parent' # parent => HeadImage' = ram
    BY <1>b, <1>c, <1>d
  <2>7. Descends(parent, ram)'
    BY <2>2, <2>5, <2>6 DEF Descends
  <2> QED
    BY <2>1, <2>2, <2>4, <2>7 DEF ParentInv
<1>8. TableInv'
  BY <1>0 DEF KernelPush, KernelUnchanged, sd, tables, HistoryGrows, TableInv
<1> QED
  BY <1>1, <1>2, <1>3, <1>4, <1>5, <1>6, <1>7, <1>8

\* The invariant is kept as the handoff is written.
LEMMA HandoffKept ==
    ASSUME IInv, Handoff
    PROVE  IInv'
<1> USE DEF IInv, TypeOK
<1>a. /\ UNCHANGED <<server, files, state, store, pc, launcher, ram, parent, lineage, dirty, halted,
                      pushed, ramOnly, cuts>>
      /\ pc = "game"
      /\ owed' \in {owed, FALSE} /\ handing' \in {"no", "version", "tables", "table"}
      /\ runtime' \in {runtime, 0, parent}
      /\ runtimeFp' \in {runtimeFp, NoTable} \/ (pushed # NoFile /\ HandOver)
      /\ failures' = failures \/ Fails
  BY DEF Handoff, OpenHandoff, WriteVersion, OpenTable, WriteTable, texts, tables
<1>0. Stays
  BY <1>a, Unmoved DEF server
<1>1. ServerTypes'
  BY <1>0, <1>a DEF server, Stays, ServerTypes
<1>2. SdTypes'
  <2>1. pushed # NoFile /\ HandOver => runtimeFp' \in Tables
    BY Named, Records, TheHead DEF HandOver, HandInv, KernelTypes, File
  <2>2. runtime' \in 0..HeadVersion
    BY <1>a, Named DEF SdTypes, KernelTypes
  <2> QED
    BY <1>0, <1>a, <2>1, <2>2, Records DEF files, Stays, SdTypes
<1>3. LauncherTypes'
  BY <1>0, <1>a DEF launcher, Steps, Stays, LauncherTypes
<1>4. KernelTypes'
  BY <1>0, <1>a, FailsTypes DEF Stays, KernelTypes
<1>5. HandInv'
  BY <1>0, <1>a DEF files, launcher, Stays, HandInv
<1>6. KeepInv'
  BY <1>0, <1>a DEF files, launcher, Stays, KeepInv
<1>7. ParentInv'
  <2>1. Descends(0, ram) /\ Descends(parent, ram) /\ Descends(runtime, ram)
    BY <1>a, FromZero DEF ParentInv
  <2> QED
    BY <1>0, <1>a, <2>1 DEF files, launcher, Stays, Descends, ParentInv
<1>8. TableInv'
  <2>1. pushed # NoFile /\ HandOver =>
          runtimeFp'.version \in 1..HeadVersion /\ runtimeFp'.of = history[runtimeFp'.version]
    BY Named DEF HandOver, HandInv
  <2> QED
    BY <1>0, <1>a, <2>1 DEF Stays, TableInv
<1> QED
  BY <1>1, <1>2, <1>3, <1>4, <1>5, <1>6, <1>7, <1>8

\* The invariant is kept when the game is left.
LEMMA LeaveKept ==
    ASSUME IInv, Leave
    PROVE  IInv'
<1> USE DEF IInv, TypeOK
<1>0. Stays
  BY Unmoved DEF Leave, server
<1>1. ServerTypes'
  BY <1>0 DEF Leave, server, Stays, ServerTypes
<1>2. SdTypes'
  BY <1>0, Records DEF Leave, server, files, texts, tables, sd, Stays, SdTypes
<1>3. LauncherTypes'
  BY <1>0, Records, FailsTypes DEF Leave, launcher, Steps, Stays, LauncherTypes
<1>4. KernelTypes'
  BY <1>0, FailsTypes DEF Leave, launcher, kernel, faults, Stays, KernelTypes
<1>5. HandInv'
  BY <1>0 DEF Leave, sd, files, launcher, kernel, Stays, HandInv
<1>6. KeepInv'
  BY <1>0 DEF Leave, sd, files, texts, launcher, Stays, KeepInv
<1>7. ParentInv'
  BY <1>0 DEF Leave, sd, files, texts, launcher, kernel, faults, Stays, Descends, ParentInv
<1>8. TableInv'
  BY <1>0 DEF Leave, sd, tables, Stays, TableInv
<1> QED
  BY <1>1, <1>2, <1>3, <1>4, <1>5, <1>6, <1>7, <1>8

\* The invariant is kept when the power goes.
LEMMA CutKept ==
    ASSUME IInv, Cut
    PROVE  IInv'
<1> USE DEF IInv, TypeOK
<1>0. Stays
  BY Unmoved DEF Cut, server
<1>1. ServerTypes'
  BY <1>0 DEF Cut, server, Stays, ServerTypes
<1>2. SdTypes'
  BY <1>0, Records DEF Cut, server, files, texts, tables, sd, Stays, SdTypes
<1>3. LauncherTypes'
  BY <1>0, Records, FailsTypes DEF Cut, launcher, Steps, Stays, LauncherTypes
<1>4. KernelTypes'
  <2>1. ramOnly' \subseteq Saves
    BY DEF Cut, HandInv, KernelTypes, Image
  <2>2. cuts' \in 0..MaxCuts
    BY Numbers DEF Cut, KernelTypes
  <2> QED
    BY <1>0, <2>1, <2>2 DEF Cut, kernel, Stays, KernelTypes
<1>5. HandInv'
  BY <1>0 DEF Cut, sd, files, launcher, kernel, Stays, HandInv
<1>6. KeepInv'
  BY <1>0 DEF Cut, sd, files, texts, launcher, Stays, KeepInv
<1>7. ParentInv'
  BY <1>0 DEF Cut, sd, files, texts, launcher, kernel, faults, Stays, Descends, ParentInv
<1>8. TableInv'
  BY <1>0 DEF Cut, sd, tables, Stays, TableInv
<1> QED
  BY <1>1, <1>2, <1>3, <1>4, <1>5, <1>6, <1>7, <1>8

\* What somebody else commits is an image.
LEMMA OtherGrows ==
    ASSUME TypeOK, OtherCommits
    PROVE  HistoryGrows /\ HeadVersion' = HeadVersion + 1
<1> USE DEF TypeOK
<1>a. \E img \in Image : Commit(img)
  <2>1. CASE saves < MaxSaves /\ saves' = saves + 1 /\ Commit((HeadImage \ NoFile) \cup {saves'})
    <3>1. saves' \in Saves
      BY <2>1, Numbers DEF ServerTypes, Saves
    <3>2. HeadImage \ NoFile \subseteq Saves
      BY HeadTypes DEF File, Image
    <3> QED
      BY <2>1, <3>1, <3>2 DEF Image
  <2>2. CASE \E v \in 1..HeadVersion - 1 : history[v] # HeadImage /\ Commit(history[v])
    <3>1. PICK v \in 1..HeadVersion - 1 : Commit(history[v])
      BY <2>2
    <3>2. v \in 1..HeadVersion
      BY <3>1, Named
    <3> QED
      BY <3>1, <3>2, TheHead
  <2> QED
    BY <2>1, <2>2 DEF OtherCommits
<1> QED
  BY <1>a, Grows, Committed DEF Moves

\* The invariant is kept when somebody else commits.
LEMMA OtherCommitsKept ==
    ASSUME IInv, OtherCommits
    PROVE  IInv'
<1> USE DEF IInv, TypeOK
<1>0. HistoryGrows /\ HeadVersion' = HeadVersion + 1
  BY OtherGrows DEF IInv, TypeOK
<1>1. ServerTypes'
  <2>1. saves' \in 0..MaxSaves /\ others' \in 0..MaxOthers
    BY Numbers DEF OtherCommits, ServerTypes
  <2> QED
    BY <1>0, <2>1 DEF HistoryGrows, ServerTypes
<1>2. SdTypes'
  BY <1>0, Records DEF OtherCommits, server, files, texts, tables, sd, HistoryGrows, SdTypes
<1>3. LauncherTypes'
  BY <1>0, Records, FailsTypes DEF OtherCommits, launcher, Steps, HistoryGrows, LauncherTypes
<1>4. KernelTypes'
  BY <1>0, FailsTypes DEF OtherCommits, launcher, kernel, faults, HistoryGrows, KernelTypes
<1>5. HandInv'
  <2>1. pushed # NoFile => parent \in 1..HeadVersion
    BY Named DEF HandInv
  <2>2. pc \in {"recording", "recorded"} => entry.version \in 1..HeadVersion
    BY Named DEF HandInv
  <2>3. /\ pushed' = pushed /\ parent' = parent /\ ram' = ram /\ card' = card
        /\ temp' = temp /\ pc' = pc /\ entry' = entry /\ image' = image
        /\ serverVersion' = serverVersion
    BY DEF OtherCommits, sd, files, launcher, kernel
  <2>4. pushed' # NoFile => parent' >= 1 /\ pushed' = history'[parent']
    BY <1>0, <2>1, <2>3 DEF HandInv, HistoryGrows
  <2>5. pc' \in {"recording", "recorded"} =>
          image' = card' /\ entry'.version >= 1 /\ card' = history'[entry'.version]
    BY <1>0, <2>2, <2>3 DEF HandInv, HistoryGrows
  <2>6. pc' \in {"write", "written", "removed"} =>
          /\ serverVersion' \in 1..HeadVersion' /\ image' = history'[serverVersion']
          /\ entry'.version < serverVersion'
    BY <1>0, <2>3 DEF HandInv, HistoryGrows
  <2> QED
    BY <2>3, <2>4, <2>5, <2>6 DEF HandInv
<1>6. KeepInv'
  BY <1>0 DEF OtherCommits, sd, files, texts, launcher, HistoryGrows, KeepInv
<1>7. ParentInv'
  <2>1. \A v \in {state.version, runtime, parent, entry.version} : v # HeadVersion'
    BY <1>0, Named
  <2> QED
    BY <2>1 DEF OtherCommits, sd, texts, launcher, kernel, faults, Descends, ParentInv
<1>8. TableInv'
  BY <1>0 DEF OtherCommits, sd, tables, HistoryGrows, TableInv
<1> QED
  BY <1>1, <1>2, <1>3, <1>4, <1>5, <1>6, <1>7, <1>8

\* The launcher's own steps.
LEMMA LauncherKept ==
    ASSUME IInv, Launcher
    PROVE  IInv'
BY MergeRuntimeKept, EmptyStateKept, WriteStateKept, MergeTablesKept, RemoveStoreKept,
   RenameStoreKept, RemoveRuntimeFpKept, AskHeadKept, PushKept, KeepKept, ExitAtPromptKept,
   OpenBackupKept, WriteBackupKept, PullKept, WriteTempKept, RemoveCardKept, RenameCardKept,
   FinishKept
   DEF Launcher

\* A step that changes nothing.
LEMMA StutterKept ==
    ASSUME IInv, UNCHANGED vars
    PROVE  IInv'
<1> USE DEF IInv, TypeOK
<1>0. Stays
  BY Unmoved DEF vars, server
<1>1. ServerTypes'
  BY <1>0 DEF vars, server, Stays, ServerTypes
<1>2. SdTypes'
  BY <1>0 DEF vars, sd, files, texts, tables, Stays, SdTypes
<1>3. LauncherTypes'
  BY <1>0 DEF vars, launcher, Stays, LauncherTypes
<1>4. KernelTypes'
  BY <1>0 DEF vars, kernel, faults, Stays, KernelTypes
<1>5. HandInv'
  BY <1>0 DEF vars, sd, files, launcher, kernel, Stays, HandInv
<1>6. KeepInv'
  BY <1>0 DEF vars, sd, files, texts, launcher, Stays, KeepInv
<1>7. ParentInv'
  BY <1>0 DEF vars, sd, files, texts, launcher, kernel, faults, Stays, Descends, ParentInv
<1>8. TableInv'
  BY <1>0 DEF vars, sd, tables, Stays, TableInv
<1> QED
  BY <1>1, <1>2, <1>3, <1>4, <1>5, <1>6, <1>7, <1>8

\* The invariant holds at first.
LEMMA Starts ==
    ASSUME Init
    PROVE  IInv
<1>1. history = <<>> /\ HeadVersion = 0 /\ ServerTypes
  BY Numbers DEF Init, HeadVersion, ServerTypes
<1>2. NoEntry \in Entries /\ NoTable \in Tables /\ NoFile \in File
  BY <1>1, Records
<1>9. 0 \in 0..HeadVersion /\ 0 \in 0..MaxCuts /\ 0 \in 0..MaxFailures
  BY <1>1, Numbers
<1>3. SdTypes
  BY <1>1, <1>2 DEF Init, SdTypes
<1>4. LauncherTypes
  BY <1>2, <1>9 DEF Init, LauncherTypes, Steps
<1>5. KernelTypes
  BY <1>2, <1>9 DEF Init, KernelTypes
<1>6. HandInv
  BY DEF Init, HandInv
<1>7. KeepInv
  BY DEF Init, KeepInv, NoEntry
<1>8. ParentInv
  <2>1. Descends(0, card)
    BY <1>1, FromZero
  <2> QED
    BY <2>1 DEF Init, ParentInv, NoEntry
<1>10. TableInv
  BY DEF Init, TableInv
<1> QED
  BY <1>1, <1>3, <1>4, <1>5, <1>6, <1>7, <1>8, <1>10 DEF IInv, TypeOK

\* In every state: what the console has in hand, what may be replaced, and what may be named
\* as a parent, are as the invariant says.
THEOREM LauncherInvariance == Spec => []IInv
<1>1. ASSUME IInv, [Next]_vars
      PROVE  IInv'
  BY <1>1, LaunchKept, LauncherKept, PlayKept, SaveCardKept, KernelPushKept, HandoffKept,
     LeaveKept, CutKept, OtherCommitsKept, StutterKept
     DEF Next
<1> QED
  BY <1>1, Starts, PTL DEF Spec

----------------------------------------------------------------------------
(* What follows from it.                                                   *)

\* The type invariant, for any number of saves, versions and failures: whatever a file or the
\* console's memory names as a version is one that the server has.
THEOREM LauncherTypeInvariance == Spec => []TypeOK
<1>1. IInv => TypeOK
  BY DEF IInv
<1> QED
  BY <1>1, LauncherInvariance, PTL

\* The card of a console is replaced or removed only when its saves are in the new one, in a
\* version of the server, or in the copy aside: whatever fails, and wherever the power goes
\* (wii_saves_write, sync_one, GCNCard_Save).
THEOREM CardIsKept == Spec => KeepsSaves
<1>1. ASSUME IInv, [Next]_vars
      PROVE  [card # card' /\ card # NoFile =>
                card \subseteq card' \/ card \in Versions \/ bak = card]_vars
  <2>1. CASE RemoveCard
    BY <1>1, <2>1 DEF IInv, KeepInv, RemoveCard
  <2>2. CASE SaveCard
    BY <1>1, <2>2 DEF IInv, HandInv, SaveCard
  <2>3. CASE RenameCard
    BY <1>1, <2>3 DEF IInv, HandInv, RenameCard
  <2>4. CASE Launch
    BY <2>4 DEF Launch, Boot
  <2>5. CASE Launcher /\ ~ RemoveCard /\ ~ RenameCard
    BY <2>5 DEF Launcher, MergeRuntime, EmptyState, WriteState, MergeTables, RemoveStore,
       RenameStore, RemoveRuntimeFp, AskHead, Push, Keep, ExitAtPrompt, OpenBackup, WriteBackup,
       Pull, WriteTemp, Finish, Boot, sd, files
  <2>6. CASE Play \/ KernelPush \/ Handoff \/ Leave \/ Cut \/ OtherCommits
    BY <2>6 DEF Play, KernelPush, Handoff, OpenHandoff, WriteVersion, OpenTable, WriteTable, Leave,
       Cut, OtherCommits, sd, files
  <2> QED
    BY <1>1, <2>1, <2>2, <2>3, <2>4, <2>5, <2>6 DEF Next
<1> QED
  BY <1>1, LauncherInvariance, PTL DEF Spec, KeepsSaves

\* What a console commits has every save of the version it replaces, but for those that were
\* never on its SD card: after any handoffs, merges, rollbacks and power cuts (Push and
\* ss_push_slot name a parent from which the card descends).
THEOREM CommitsDescendFrom == Spec => CommitsDescend
<1>1. ASSUME IInv
      PROVE  /\ Push /\ history' # history => HeadImage \subseteq NoFile \cup image \cup ramOnly
             /\ KernelPush /\ history' # history => HeadImage \subseteq NoFile \cup ram \cup ramOnly
  <2>1. ASSUME Push, history' # history
        PROVE  HeadImage \subseteq NoFile \cup image \cup ramOnly
    <3>1. Commits(entry.version) /\ image = card /\ Descends(entry.version, card)
      BY <1>1, <2>1 DEF IInv, HandInv, ParentInv, Push
    <3> QED
      BY <3>1 DEF Commits, Descends
  <2>2. ASSUME KernelPush, history' # history
        PROVE  HeadImage \subseteq NoFile \cup ram \cup ramOnly
    <3>1. parent = HeadVersion /\ Descends(parent, ram)
      BY <1>1, <2>2 DEF IInv, ParentInv, KernelPush
    <3> QED
      BY <3>1 DEF Descends
  <2> QED
    BY <2>1, <2>2
<1> QED
  BY <1>1, LauncherInvariance, PTL DEF CommitsDescend

\* A table that is used, by the launcher or by the kernel at its next start, is of the image
\* that the server has as the parent (wii_fp_usable, ss_load_fingerprints).
THEOREM DeltasNameTheirParent == Spec => []DeltaIsAgainstParent
<1>1. IInv => DeltaIsAgainstParent
  <2>1. TableInv /\ Usable(entry) => store.of = history[entry.version]
    BY DEF TableInv, Usable
  <2>2. TableInv /\ KernelUsable => store.of = history[state.version]
    BY DEF TableInv, KernelUsable, NoTable
  <2> QED
    BY <2>1, <2>2 DEF IInv, DeltaIsAgainstParent
<1> QED
  BY <1>1, LauncherInvariance, PTL

----------------------------------------------------------------------------
(* A console that is alone.                                                *)

Alone == others = 0 /\ cuts = 0 /\ failures = 0

\* The later of two versions is the head.
Latest(v, w) == IF v > w THEN v = HeadVersion ELSE w = HeadVersion

\* The head is what the kernel or the launcher goes by, or it waits in runtime.txt.
AloneInv == Alone =>
    /\ pc \notin {"ask", "backup", "write", "written", "removed"}
    /\ halted \notin {"unknown", "conflict"}
    /\ pc \in {"off", "merge"} => Latest(runtime, state.version)
    /\ pc = "merge" => entry = state
    /\ pc \notin {"off", "merge", "game"} => entry.version = HeadVersion
    /\ pc \in {"tables", "putting", "put", "drop", "sync", "done"} => state.version = HeadVersion
    /\ pc = "game" =>
         /\ parent = HeadVersion
         /\ ~ lineage => parent = 0
         /\ owed \/ handing = "version" \/ Latest(runtime, state.version)

\* Whoever is alone at the end of a step was so at its beginning.
LEMMA AloneBefore ==
    ASSUME TypeOK, Alone', [Next]_vars
    PROVE  Alone /\ ~ Fails /\ ~ Cut /\ ~ OtherCommits
<1>1. others \in Nat /\ cuts \in Nat /\ failures \in Nat
  BY Numbers DEF TypeOK, ServerTypes, KernelTypes
<1>2. Fails => failures' # 0
  BY <1>1 DEF Fails
<1>3. Cut => cuts' # 0
  BY <1>1 DEF Cut
<1>4. OtherCommits => others' # 0
  BY <1>1 DEF OtherCommits
<1>5. ~ Fails /\ ~ Cut /\ ~ OtherCommits
  BY <1>2, <1>3, <1>4 DEF Alone
<1>6. CASE Launch \/ Play \/ SaveCard \/ KernelPush \/ Handoff \/ Leave \/ UNCHANGED vars
  BY <1>5, <1>6 DEF Launch, Play, SaveCard, KernelPush, Handoff, OpenHandoff,
     WriteVersion, OpenTable, WriteTable, Leave, vars, server, faults, Alone
<1>7. CASE Launcher
  BY <1>5, <1>7 DEF Launcher, MergeRuntime, EmptyState, WriteState, MergeTables, RemoveStore,
     RenameStore, RemoveRuntimeFp, AskHead, Push, Keep, ExitAtPrompt, OpenBackup, WriteBackup,
     Pull, WriteTemp, RemoveCard, RenameCard, Finish, server, faults, Alone
<1> QED
  BY <1>5, <1>6, <1>7 DEF Next

\* Every step of a console that is alone keeps it so.
LEMMA AloneKept ==
    ASSUME IInv, AloneInv, [Next]_vars
    PROVE  AloneInv'
<1> SUFFICES ASSUME Alone'
             PROVE  AloneInv'
  BY DEF AloneInv
<1>a. Alone /\ ~ Fails /\ ~ Cut /\ ~ OtherCommits
  BY AloneBefore DEF IInv
<1>b. TypeOK /\ ServerTypes /\ HandInv /\ ParentInv
  BY DEF IInv, TypeOK
<1>c. history' = history => HeadVersion' = HeadVersion
  BY DEF HeadVersion
<1>d. AloneInv
  OBVIOUS
<1>e. history = <<>> <=> HeadVersion = 0
  BY <1>b, TheHead
<1>1. CASE Launch
  BY <1>a, <1>b, <1>c, <1>1, Named DEF Launch, LoadState, Boot, server, sd, files, texts,
     tables, launcher, kernel, faults, AloneInv, Latest, ParentInv
<1>2. CASE MergeRuntime
  <2>1. entry \in Entries
    BY <1>b DEF TypeOK, LauncherTypes
  <2>2. entry'.version = IF IsForward(runtime) THEN runtime ELSE entry.version
    BY <1>2, <2>1 DEF MergeRuntime, Adopt, Entries
  <2>3. entry = state /\ Latest(runtime, state.version)
    BY <1>a, <1>2 DEF AloneInv, MergeRuntime
  <2>4. entry'.version = HeadVersion
    BY <1>b, <2>2, <2>3, Named DEF IsForward, Latest, ParentInv
  <2>5. pc' = "tables" => state.version = HeadVersion
    BY <1>b, <1>2, <2>3, Named DEF MergeRuntime, IsForward, Latest, ParentInv
  <2>6. HeadVersion' = HeadVersion
    BY <1>c, <1>2 DEF MergeRuntime, server
  <2> QED
    BY <1>a, <1>2, <2>4, <2>5, <2>6 DEF AloneInv, MergeRuntime, kernel
<1>3. CASE EmptyState
  BY <1>a, <1>b, <1>c, <1>3, Named DEF EmptyState, server, sd, files, texts, tables, launcher,
     kernel, faults, AloneInv, Latest, ParentInv
<1>4. CASE WriteState
  <2>1. entry \in Entries
    BY <1>b DEF TypeOK, LauncherTypes
  <2>2. state' = Line
    BY <1>a, <1>4 DEF WriteState
  <2>3. state'.version = entry.version
    BY <2>1, <2>2 DEF Line, Entries
  <2> QED
    BY <1>a, <1>c, <1>4, <2>3 DEF WriteState, server, launcher, kernel, AloneInv
<1>5. CASE MergeTables
  BY <1>a, <1>b, <1>c, <1>5, Named DEF MergeTables, server, sd, files, texts, tables,
     launcher, kernel, faults, AloneInv, Latest, ParentInv
<1>6. CASE RemoveStore
  BY <1>a, <1>b, <1>c, <1>6, Named DEF RemoveStore, server, sd, files, texts, tables,
     launcher, kernel, faults, AloneInv, Latest, ParentInv
<1>7. CASE RenameStore
  BY <1>a, <1>b, <1>c, <1>7, Named DEF RenameStore, Fingerprints, server, sd, files, texts,
     tables, launcher, kernel, faults, AloneInv, Latest, ParentInv
<1>8. CASE RemoveRuntimeFp
  BY <1>a, <1>b, <1>c, <1>8, Named DEF RemoveRuntimeFp, server, sd, files, texts, tables,
     launcher, kernel, faults, AloneInv, Latest, ParentInv
<1>9. CASE AskHead
  BY <1>a, <1>b, <1>c, <1>9, Named DEF AskHead, EndWith, Changed, Found, Identified, server,
     sd, files, texts, tables, launcher, kernel, faults, AloneInv, Latest, ParentInv
<1>10. CASE Push
  <2>1. card \in Image /\ image = card
    BY <1>b, <1>10 DEF HandInv, Push
  <2>2. Commit(image) => HeadVersion' = HeadVersion + 1
    BY <1>b, <2>1, Committed
  <2>3. entry.version = HeadVersion
    BY <1>a, <1>10 DEF AloneInv, Push
  <2>4. ~ Conflicts(entry.version)
    BY <2>3 DEF Conflicts
  <2>5. entry'.version = HeadVersion' /\ pc' = "recording"
    BY <1>a, <1>c, <1>10, <2>2, <2>4 DEF Push, Agree
  <2> QED
    BY <1>a, <1>10, <2>5 DEF AloneInv, Push, kernel
<1>11. CASE Keep
  BY <1>a, <1>b, <1>c, <1>11, Named DEF Keep, EndWith, server, sd, files, texts, tables,
     launcher, kernel, faults, AloneInv, Latest, ParentInv
<1>12. CASE ExitAtPrompt
  BY <1>a, <1>b, <1>c, <1>12, Named DEF ExitAtPrompt, server, sd, files, texts, tables,
     launcher, kernel, faults, AloneInv, Latest, ParentInv
<1>13. CASE OpenBackup
  BY <1>a, <1>b, <1>c, <1>13, Named DEF OpenBackup, server, sd, files, texts, tables,
     launcher, kernel, faults, AloneInv, Latest, ParentInv
<1>14. CASE WriteBackup
  BY <1>a, <1>b, <1>c, <1>14, Named DEF WriteBackup, EndWith, server, sd, files, texts,
     tables, launcher, kernel, faults, AloneInv, Latest, ParentInv
<1>15. CASE Pull
  BY <1>a, <1>b, <1>c, <1>15, Named DEF Pull, EndWith, Ahead, server, sd, files, texts,
     tables, launcher, kernel, faults, AloneInv, Latest, ParentInv
<1>16. CASE WriteTemp
  BY <1>a, <1>b, <1>c, <1>16, Named DEF WriteTemp, EndWith, server, sd, files, texts, tables,
     launcher, kernel, faults, AloneInv, Latest, ParentInv
<1>17. CASE RemoveCard
  BY <1>a, <1>b, <1>c, <1>17, Named DEF RemoveCard, server, sd, files, texts, tables,
     launcher, kernel, faults, AloneInv, Latest, ParentInv
<1>18. CASE RenameCard
  BY <1>a, <1>b, <1>c, <1>18, Named DEF RenameCard, EndWith, Agree, server, sd, files, texts,
     tables, launcher, kernel, faults, AloneInv, Latest, ParentInv
<1>19. CASE Finish
  BY <1>a, <1>b, <1>c, <1>19, Named DEF Finish, Boot, server, sd, files, texts, tables,
     launcher, kernel, faults, AloneInv, Latest, ParentInv
<1>20. CASE Play
  BY <1>a, <1>b, <1>c, <1>20, Named DEF Play, server, sd, files, texts, tables, launcher,
     kernel, faults, AloneInv, Latest, ParentInv
<1>21. CASE SaveCard
  BY <1>a, <1>b, <1>c, <1>21, Named DEF SaveCard, server, sd, files, texts, tables, launcher,
     kernel, faults, AloneInv, Latest, ParentInv
<1>22. CASE KernelPush
  <2>1. Commit(ram) => HeadVersion' = HeadVersion + 1
    BY <1>b, <1>22, Committed DEF HandInv, KernelPush
  <2>2. parent = HeadVersion /\ (~ lineage => parent = 0)
    BY <1>a, <1>22 DEF AloneInv, KernelPush
  <2>3. /\ parent' = HeadVersion' /\ lineage' = TRUE /\ owed' = TRUE
        /\ UNCHANGED <<pc, halted>>
    BY <1>a, <1>c, <1>e, <1>22, <2>1, <2>2 DEF KernelPush
  <2> QED
    BY <1>a, <1>22, <2>3 DEF AloneInv, KernelPush
<1>23. CASE Handoff
  BY <1>a, <1>b, <1>c, <1>23, Named DEF Handoff, OpenHandoff, WriteVersion, OpenTable, WriteTable,
     HandOver, server, sd, files, texts, tables, launcher, kernel, faults, AloneInv, Latest,
     ParentInv
<1>24. CASE Leave
  BY <1>a, <1>b, <1>c, <1>24, Named DEF Leave, server, sd, files, texts, tables, launcher,
     kernel, faults, AloneInv, Latest, ParentInv
<1>25. CASE UNCHANGED vars
  BY <1>a, <1>b, <1>c, <1>25 DEF vars, server, sd, texts, launcher, kernel, faults, AloneInv,
     Latest
<1> QED
  BY <1>a, <1>1, <1>2, <1>3, <1>4, <1>5, <1>6, <1>7, <1>8, <1>9, <1>10, <1>11, <1>12, <1>13,
     <1>14, <1>15, <1>16, <1>17, <1>18, <1>19, <1>20, <1>21, <1>22, <1>23, <1>24, <1>25 DEF
     Next, Launcher

\* A console that nobody else pushes for meets no conflict, as long as nothing fails: what it
\* goes by next is the head, or the head waits in runtime.txt (wii_state_merge_runtime).
THEOREM AloneMeetsNoConflict == Spec => []NoConflictAlone
<1>1. ASSUME Init
      PROVE  AloneInv
  BY <1>1 DEF Init, AloneInv, Latest, HeadVersion, NoEntry
<1>2. AloneInv => NoConflictAlone
  BY DEF AloneInv, Alone, NoConflictAlone
<1>3. IInv /\ AloneInv /\ [Next]_vars => AloneInv'
  BY AloneKept
<1> QED
  BY <1>1, <1>2, <1>3, LauncherInvariance, PTL DEF Spec

----------------------------------------------------------------------------
(* A run that ends well.                                                   *)

\* No image holds a save that was not made yet.
SavesInv ==
    /\ \A v \in 1..HeadVersion : history[v] \subseteq 1..saves
    /\ card # NoFile => card \subseteq 1..saves
    /\ pc = "game" => ram \subseteq 1..saves

\* If this version is the head and the card has the digest on record, the head has its saves.
Covers(version, digest, img) ==
    version = HeadVersion /\ version # 0 /\ digest = img /\ img # NoFile => img \subseteq HeadImage

CoverInv ==
    /\ Covers(state.version, state.digest, card)
    /\ pc \notin {"off", "game"} => Covers(entry.version, entry.digest, card)
    /\ pc \in {"off", "merge"} => Covers(runtime, state.digest, card)
    /\ pc = "merge" => entry = state
    /\ pc = "game" =>
         \A img \in {card, ram} : \A v \in {state.version, runtime, parent} :
            Covers(v, state.digest, img)

\* The card is that version's, which is not behind what the server had when the run started.
Agreed ==
    /\ entry.version >= 1 /\ entry.version >= asked
    /\ card \subseteq history[entry.version]
    /\ history[entry.version] \subseteq card \cup ramOnly

\* What the launcher was told of the server leads to that.
AgreedInv ==
    /\ pc \in {"merge", "merged", "rewrite", "tables", "putting", "put", "drop", "sync"} =>
         serverVersion = 0 /\ outcome = "none"
    /\ pc \in {"ask", "backup"} => serverVersion > entry.version
    /\ pc \in {"write", "written", "removed"} => serverVersion >= asked
    /\ pc \in {"recording", "recorded"} => entry.version >= asked
    /\ pc = "pull" /\ serverVersion # 0 /\ serverVersion <= entry.version => Agreed
    /\ pc \in {"synced", "record", "done"} /\ outcome = "ok" /\ serverVersion # 0 => Agreed

\* Every image is of saves that were made.
LEMMA SavesKept ==
    ASSUME IInv, SavesInv, [Next]_vars
    PROVE  SavesInv'
<1>a. TypeOK /\ ServerTypes /\ HandInv /\ KeepInv /\ ParentInv
  BY DEF IInv, TypeOK
<1>b. HeadVersion \in Nat /\ saves \in Nat
  BY <1>a, TheHead, Numbers DEF ServerTypes
<1>c. history' = history => HeadVersion' = HeadVersion /\ HeadImage' = HeadImage
  BY DEF HeadVersion, HeadImage
<1>1. CASE Launch
  BY <1>a, <1>b, <1>c, <1>1 DEF Launch, LoadState, Boot, server, sd, files, texts, tables,
     launcher, kernel, faults, SavesInv
<1>2. CASE MergeRuntime
  BY <1>a, <1>b, <1>c, <1>2 DEF MergeRuntime, Adopt, IsForward, server, sd, files, texts,
     tables, launcher, kernel, faults, SavesInv
<1>3. CASE EmptyState
  BY <1>a, <1>b, <1>c, <1>3 DEF EmptyState, server, sd, files, texts, tables, launcher,
     kernel, faults, SavesInv
<1>4. CASE WriteState
  BY <1>a, <1>b, <1>c, <1>4 DEF WriteState, server, sd, files, texts, tables, launcher,
     kernel, faults, SavesInv
<1>5. CASE MergeTables
  BY <1>a, <1>b, <1>c, <1>5 DEF MergeTables, server, sd, files, texts, tables, launcher,
     kernel, faults, SavesInv
<1>6. CASE RemoveStore
  BY <1>a, <1>b, <1>c, <1>6 DEF RemoveStore, server, sd, files, texts, tables, launcher,
     kernel, faults, SavesInv
<1>7. CASE RenameStore
  BY <1>a, <1>b, <1>c, <1>7 DEF RenameStore, server, sd, files, texts, tables, launcher,
     kernel, faults, SavesInv
<1>8. CASE RemoveRuntimeFp
  BY <1>a, <1>b, <1>c, <1>8 DEF RemoveRuntimeFp, server, sd, files, texts, tables, launcher,
     kernel, faults, SavesInv
<1>9. CASE AskHead
  BY <1>a, <1>b, <1>c, <1>9 DEF AskHead, EndWith, Changed, Found, Identified, server, sd,
     files, texts, tables, launcher, kernel, faults, SavesInv
<1>10. CASE Push
  <2>1. card \in Image /\ image = card
    BY <1>a, <1>10 DEF HandInv, Push
  <2>2. card # NoFile
    BY <2>1 DEF Image, Saves, NoFile
  <2>3. \/ history' = history
        \/ /\ HeadVersion' = HeadVersion + 1 /\ history'[HeadVersion + 1] = card
           /\ \A v \in 1..HeadVersion : history'[v] = history[v]
    BY <1>a, <2>1, <1>10, Committed DEF Push
  <2> QED
    BY <1>b, <1>c, <2>2, <2>3, <1>10 DEF Push, EndWith, server, sd, files, kernel, SavesInv
<1>11. CASE Keep
  BY <1>a, <1>b, <1>c, <1>11 DEF Keep, EndWith, server, sd, files, texts, tables, launcher,
     kernel, faults, SavesInv
<1>12. CASE ExitAtPrompt
  BY <1>a, <1>b, <1>c, <1>12 DEF ExitAtPrompt, server, sd, files, texts, tables, launcher,
     kernel, faults, SavesInv
<1>13. CASE OpenBackup
  BY <1>a, <1>b, <1>c, <1>13 DEF OpenBackup, server, sd, files, texts, tables, launcher,
     kernel, faults, SavesInv
<1>14. CASE WriteBackup
  BY <1>a, <1>b, <1>c, <1>14 DEF WriteBackup, EndWith, server, sd, files, texts, tables,
     launcher, kernel, faults, SavesInv
<1>15. CASE Pull
  BY <1>a, <1>b, <1>c, <1>15 DEF Pull, EndWith, Ahead, server, sd, files, texts, tables,
     launcher, kernel, faults, SavesInv
<1>16. CASE WriteTemp
  BY <1>a, <1>b, <1>c, <1>16 DEF WriteTemp, EndWith, server, sd, files, texts, tables,
     launcher, kernel, faults, SavesInv
<1>17. CASE RemoveCard
  BY <1>a, <1>b, <1>c, <1>17 DEF RemoveCard, server, sd, files, texts, tables, launcher,
     kernel, faults, SavesInv
<1>18. CASE RenameCard
  <2>1. temp = history[serverVersion] /\ serverVersion \in 1..HeadVersion
    BY <1>a, <1>18 DEF HandInv, RenameCard
  <2> QED
    BY <1>b, <1>c, <2>1, <1>18 DEF RenameCard, EndWith, server, kernel, SavesInv
<1>19. CASE Finish
  BY <1>a, <1>b, <1>c, <1>19 DEF Finish, Boot, server, sd, files, texts, tables, launcher,
     kernel, faults, SavesInv
<1>20. CASE Play
  BY <1>a, <1>b, <1>c, <1>20 DEF Play, server, sd, files, texts, tables, launcher, kernel,
     faults, SavesInv
<1>21. CASE SaveCard
  BY <1>a, <1>b, <1>c, <1>21 DEF SaveCard, server, sd, files, texts, tables, launcher, kernel,
     faults, SavesInv
<1>22. CASE KernelPush
  <2>1. ram \in Image
    BY <1>a, <1>22 DEF HandInv, KernelPush
  <2>3. \/ history' = history
        \/ /\ HeadVersion' = HeadVersion + 1 /\ history'[HeadVersion + 1] = ram
           /\ \A v \in 1..HeadVersion : history'[v] = history[v]
    BY <1>a, <2>1, <1>22, Committed DEF KernelPush
  <2> QED
    BY <1>b, <1>c, <2>3, <1>22 DEF KernelPush, sd, files, SavesInv
<1>23. CASE Handoff
  BY <1>a, <1>b, <1>c, <1>23 DEF Handoff, OpenHandoff, WriteVersion, OpenTable, WriteTable, server,
     sd, files, texts, tables, launcher, kernel, faults, SavesInv
<1>24. CASE Leave
  BY <1>a, <1>b, <1>c, <1>24 DEF Leave, server, sd, files, texts, tables, launcher, kernel,
     faults, SavesInv
<1>25. CASE Cut
  BY <1>a, <1>b, <1>c, <1>25 DEF Cut, server, sd, files, texts, tables, launcher, kernel,
     faults, SavesInv
<1>26. CASE OtherCommits
  <2>1. \/ /\ saves' = saves + 1
           /\ Commit((HeadImage \ NoFile) \cup {saves'})
           /\ (HeadImage \ NoFile) \cup {saves'} \in Image
        \/ /\ saves' = saves
           /\ \E v \in 1..HeadVersion : Commit(history[v]) /\ history[v] \in Image
    <3>1. HeadImage \ NoFile \subseteq Saves
      BY <1>a, HeadTypes DEF File, Image
    <3>2. saves < MaxSaves /\ saves' = saves + 1 => saves' \in Saves
      BY <1>b, Numbers DEF Saves
    <3>3. \A v \in 1..HeadVersion - 1 : v \in 1..HeadVersion /\ history[v] \in Image
      BY <1>a, <1>b, TheHead
    <3> QED
      BY <3>1, <3>2, <3>3, <1>26 DEF OtherCommits, Image
  <2>2. HeadImage \ NoFile \subseteq 1..saves
    BY <1>a, <1>b, TheHead DEF SavesInv
  <2>3. PICK img \in Image : Commit(img) /\ img \subseteq 1..saves'
    BY <1>b, <2>1, <2>2 DEF SavesInv
  <2>4. /\ HeadVersion' = HeadVersion + 1 /\ history'[HeadVersion + 1] = img
        /\ \A v \in 1..HeadVersion : history'[v] = history[v]
    BY <1>a, <2>3, Committed
  <2>5. 1..saves \subseteq 1..saves'
    BY <1>b, <2>1
  <2>6. card' = card /\ ram' = ram /\ pc' = pc
    BY <1>26 DEF OtherCommits, sd, files, kernel
  <2>7. \A v \in 1..HeadVersion' : history'[v] \subseteq 1..saves'
    <3> TAKE v \in 1..HeadVersion'
    <3>1. CASE v = HeadVersion + 1
      BY <2>3, <2>4, <3>1
    <3>2. CASE v \in 1..HeadVersion
      BY <2>4, <2>5, <3>2 DEF SavesInv
    <3> QED
      BY <1>b, <2>4, <3>1, <3>2
  <2> QED
    BY <2>5, <2>6, <2>7 DEF SavesInv
<1>27. CASE UNCHANGED vars
  BY <1>a, <1>b, <1>c, <1>27 DEF vars, server, sd, files, texts, launcher, kernel, faults,
     SavesInv
<1> QED
  BY <1>1, <1>2, <1>3, <1>4, <1>5, <1>6, <1>7, <1>8, <1>9, <1>10, <1>11, <1>12, <1>13, <1>14,
     <1>15, <1>16, <1>17, <1>18, <1>19, <1>20, <1>21, <1>22, <1>23, <1>24, <1>25, <1>26, <1>27
     DEF Next, Launcher

\* A card that is taken for agreed has nothing that the head lacks.
LEMMA CoverKept ==
    ASSUME IInv, SavesInv, CoverInv, [Next]_vars
    PROVE  CoverInv'
<1>a. TypeOK /\ ServerTypes /\ HandInv /\ KeepInv /\ ParentInv
  BY DEF IInv, TypeOK
<1>b. HeadVersion \in Nat /\ saves \in Nat
  BY <1>a, TheHead, Numbers DEF ServerTypes
<1>c. history' = history => HeadVersion' = HeadVersion /\ HeadImage' = HeadImage
  BY DEF HeadVersion, HeadImage
<1>d. state.digest # NoFile => state.digest \subseteq 1..saves
  BY <1>a DEF KeepInv, SavesInv, Versions
<1>e. state.version \in 0..HeadVersion /\ entry.version \in 0..HeadVersion
      /\ runtime \in 0..HeadVersion /\ parent \in 0..HeadVersion
  BY <1>a, Named
<1>1. CASE Launch
  <2>1. /\ UNCHANGED <<history, state, runtime>>
        /\ \/ pc' = "merge" /\ entry' = state /\ card' = card
           \/ /\ pc' = "game" /\ ram' = card' /\ parent' = state.version
              /\ card' = card \/ card' = {}
    BY <1>1 DEF Launch, LoadState, Boot, server, texts
  <2> QED
    BY <1>c, <2>1, <1>1 DEF Launch, Covers, CoverInv
<1>2. CASE MergeRuntime
  <2>1. entry \in Entries
    BY <1>a DEF TypeOK, LauncherTypes
  <2>2. entry' = entry \/ (entry'.version = runtime /\ entry'.digest = entry.digest)
    BY <1>2, <2>1 DEF MergeRuntime, Adopt, Entries
  <2>3. UNCHANGED <<history, state, card>> /\ pc' \in {"merged", "tables"}
    BY <1>2 DEF MergeRuntime, server, files
  <2> QED
    BY <1>c, <2>2, <2>3, <1>2 DEF MergeRuntime, Covers, CoverInv
<1>3. CASE EmptyState
  <2>1. Line \in Entries
    BY <1>a DEF TypeOK, LauncherTypes, Line, Entries
  <2>2. state' = state \/ state'.digest = NoFile
    BY <1>3, <2>1 DEF EmptyState, NoEntry, Entries
  <2>3. UNCHANGED <<history, entry, card>> /\ pc' \in {"rewrite", "record", "tables", "done"}
    BY <1>3 DEF EmptyState, server, files, launcher
  <2> QED
    BY <1>c, <2>2, <2>3, <1>3 DEF EmptyState, Covers, CoverInv
<1>4. CASE WriteState
  <2>1. entry \in Entries
    BY <1>a DEF TypeOK, LauncherTypes
  <2>2. state' = state \/ (state'.digest = entry.digest /\ state'.version = entry.version)
    BY <1>4, <2>1 DEF WriteState, Line, Entries
  <2>3. UNCHANGED <<history, entry, card>> /\ pc' \in {"tables", "done"}
    BY <1>4 DEF WriteState, server, files, launcher
  <2> QED
    BY <1>c, <2>2, <2>3, <1>4 DEF WriteState, Covers, CoverInv
<1>5. CASE MergeTables
  BY <1>c, <1>5 DEF MergeTables, server, sd, files, texts, tables, launcher, kernel, faults,
     Covers, CoverInv
<1>6. CASE RemoveStore
  BY <1>c, <1>6 DEF RemoveStore, server, sd, files, texts, tables, launcher, kernel, faults,
     Covers, CoverInv
<1>7. CASE RenameStore
  BY <1>c, <1>7 DEF RenameStore, server, sd, files, texts, tables, launcher, kernel, faults,
     Covers, CoverInv
<1>8. CASE RemoveRuntimeFp
  BY <1>c, <1>8 DEF RemoveRuntimeFp, server, sd, files, texts, tables, launcher, kernel,
     faults, Covers, CoverInv
<1>9. CASE AskHead
  BY <1>c, <1>9 DEF AskHead, EndWith, Changed, Found, Identified, server, sd, files, texts,
     tables, launcher, kernel, faults, Covers, CoverInv
<1>10. CASE Push
  <2>1. card \in Image /\ image = card
    BY <1>a, <1>10 DEF HandInv, Push
  <2>2. Commit(image) => HeadVersion' = HeadVersion + 1 /\ HeadImage' = image
    BY <1>a, <2>1, Committed
  <2>3. \/ UNCHANGED <<history, entry>>
        \/ UNCHANGED history /\ HeadImage = image
        \/ Commit(image)
    BY <1>10 DEF Push, Unchanged
  <2>4. UNCHANGED <<state, card>> /\ pc = "push" /\ pc' \notin {"off", "merge", "game"}
    BY <1>10 DEF Push, EndWith, sd, files, texts
  <2>5. CASE Commit(image)
    BY <1>b, <1>e, <2>1, <2>2, <2>4, <2>5 DEF Covers, CoverInv
  <2>6. CASE UNCHANGED history
    <3>1. entry' = entry \/ card \subseteq HeadImage
      BY <1>b, <1>c, <2>1, <2>2, <2>3, <2>6
    <3> QED
      BY <1>c, <2>4, <2>6, <3>1 DEF Covers, CoverInv
  <2> QED
    BY <2>3, <2>5, <2>6
<1>11. CASE Keep
  BY <1>c, <1>11 DEF Keep, EndWith, server, sd, files, texts, tables, launcher, kernel,
     faults, Covers, CoverInv
<1>12. CASE ExitAtPrompt
  <2>1. UNCHANGED <<history, state, card, runtime>> /\ runtime = 0 /\ pc' = "off"
    BY <1>a, <1>12 DEF ExitAtPrompt, server, sd, files, texts, ParentInv
  <2> QED
    BY <1>c, <2>1 DEF Covers, CoverInv
<1>13. CASE OpenBackup
  BY <1>c, <1>13 DEF OpenBackup, server, sd, files, texts, tables, launcher, kernel, faults,
     Covers, CoverInv
<1>14. CASE WriteBackup
  BY <1>c, <1>14 DEF WriteBackup, EndWith, server, sd, files, texts, tables, launcher, kernel,
     faults, Covers, CoverInv
<1>15. CASE Pull
  BY <1>c, <1>15 DEF Pull, EndWith, Ahead, server, sd, files, texts, tables, launcher, kernel,
     faults, Covers, CoverInv
<1>16. CASE WriteTemp
  BY <1>c, <1>16 DEF WriteTemp, EndWith, server, sd, files, texts, tables, launcher, kernel,
     faults, Covers, CoverInv
<1>17. CASE RemoveCard
  BY <1>c, <1>17 DEF RemoveCard, server, sd, files, texts, tables, launcher, kernel, faults,
     Covers, CoverInv
<1>18. CASE RenameCard
  <2>1. /\ temp = history[serverVersion] /\ serverVersion \in 1..HeadVersion
        /\ image = temp
        /\ entry.version < serverVersion /\ state.version <= entry.version
    BY <1>a, <1>18 DEF HandInv, ParentInv, RenameCard
  <2>2. state.version # HeadVersion
    BY <1>b, <1>e, <2>1
  <2>3. UNCHANGED <<history, state>> /\ pc' \in {"recording", "synced"}
    BY <1>18 DEF RenameCard, EndWith, server, texts
  <2>4. CASE card' = temp /\ Agree(serverVersion)
    <3>1. serverVersion = HeadVersion => HeadImage = temp
      BY <1>a, <1>b, <2>1, TheHead
    <3> QED
      <4>1. entry'.version = serverVersion /\ card' = temp
        BY <2>4 DEF Agree
      <4>2. Covers(entry.version, entry.digest, card)'
        BY <1>c, <2>3, <3>1, <4>1 DEF Covers
      <4>3. Covers(state.version, state.digest, card)'
        BY <1>c, <2>2, <2>3, <4>1 DEF Covers
      <4> QED
        BY <2>3, <4>2, <4>3 DEF CoverInv
  <2>5. CASE UNCHANGED <<card, entry>>
    BY <1>c, <2>3, <2>5, <1>18 DEF RenameCard, Covers, CoverInv
  <2> QED
    BY <2>4, <2>5, <1>18 DEF RenameCard
<1>19. CASE Finish
  <2>1. /\ UNCHANGED <<history, state, runtime>> /\ runtime = 0
        /\ \/ pc' = "off" /\ card' = card
           \/ /\ pc' = "game" /\ ram' = card' /\ parent' = state.version
              /\ card' = card \/ card' = {}
    BY <1>a, <1>19 DEF Finish, Boot, server, texts, ParentInv
  <2> QED
    BY <1>c, <2>1, <1>19 DEF Finish, Covers, CoverInv
<1>20. CASE Play
  <2>1. saves + 1 \notin 1..saves /\ saves + 1 \in ram' /\ saves + 1 # 0
    BY <1>b, <1>20 DEF Play
  <2>2. state.digest # ram'
    BY <1>d, <2>1 DEF NoFile
  <2>3. UNCHANGED <<history, state, card, runtime, parent, pc>>
    BY <1>20 DEF Play, sd, files, texts
  <2> QED
    BY <1>c, <2>2, <2>3, <1>20 DEF Play, Covers, CoverInv
<1>21. CASE SaveCard
  <2>1. UNCHANGED <<history, state, ram, runtime, parent, pc>> /\ card' = ram
    BY <1>21 DEF SaveCard, server, texts
  <2> QED
    BY <1>c, <2>1, <1>21 DEF SaveCard, Covers, CoverInv
<1>22. CASE KernelPush
  <2>1. ram \in Image /\ card \subseteq ram
    BY <1>a, <1>22 DEF HandInv, KernelPush
  <2>2. Commit(ram) => HeadVersion' = HeadVersion + 1 /\ HeadImage' = ram
    BY <1>a, <2>1, Committed
  <2>3. \/ UNCHANGED <<history, parent>>
        \/ UNCHANGED history /\ HeadImage = ram
        \/ Commit(ram)
    BY <1>22 DEF KernelPush, KernelUnchanged
  <2>4. UNCHANGED <<state, card, runtime, ram, pc>>
    BY <1>22 DEF KernelPush, sd, files, texts
  <2>7. Commit(ram) => history' # history
    BY <1>b, <1>c, <2>2
  <2>5. CASE Commit(ram)
    BY <1>b, <1>e, <2>1, <2>2, <2>4, <2>5, <1>22 DEF KernelPush, Covers, CoverInv
  <2>6. CASE UNCHANGED history
    <3>1. parent' = parent \/ (card \subseteq HeadImage /\ ram \subseteq HeadImage)
      BY <2>1, <2>3, <2>6, <2>7
    <3>2. pc = "game"
      BY <1>22 DEF KernelPush
    <3> QED
      BY <1>c, <2>4, <2>6, <3>1, <3>2 DEF Covers, CoverInv
  <2> QED
    BY <2>3, <2>5, <2>6
<1>23. CASE Handoff
  <2>1. /\ UNCHANGED <<history, state, card, ram, parent, pc>> /\ pc = "game"
        /\ runtime' \in {runtime, 0, parent}
    BY <1>23 DEF Handoff, OpenHandoff, WriteVersion, OpenTable, WriteTable, server, files, texts
  <2>2. \A img \in {card, ram} : Covers(0, state.digest, img)
    BY DEF Covers
  <2>3. \A img \in {card, ram} : \A v \in {state.version, runtime', parent} :
          Covers(v, state.digest, img)
    BY <2>1, <2>2 DEF CoverInv
  <2>4. \A img, v : Covers(v, state.digest, img) => Covers(v, state.digest, img)'
    BY <1>c, <2>1 DEF Covers
  <2> QED
    BY <2>1, <2>3, <2>4 DEF CoverInv
<1>24. CASE Leave
  BY <1>c, <1>24 DEF Leave, server, sd, files, texts, tables, launcher, kernel, faults,
     Covers, CoverInv
<1>25. CASE Cut
  <2>1. UNCHANGED <<history, state, card, runtime>> /\ pc' = "off" /\ pc # "off"
    BY <1>25 DEF Cut, server, sd, files, texts
  <2>2. pc \notin {"merge", "game"} => runtime = 0
    BY <1>a, <2>1 DEF ParentInv
  <2> QED
    BY <1>c, <2>1, <2>2 DEF Covers, CoverInv
<1>26. CASE OtherCommits
  <2>1. HeadVersion' = HeadVersion + 1
    BY <1>b, <1>26 DEF OtherCommits, Commit, HeadVersion
  <2>2. UNCHANGED <<state, entry, card, runtime, ram, parent, pc>>
    BY <1>26 DEF OtherCommits, sd, files, texts, launcher, kernel
  <2> QED
    BY <1>b, <1>e, <2>1, <2>2 DEF Covers, CoverInv
<1>27. CASE UNCHANGED vars
  BY <1>c, <1>27 DEF vars, server, sd, files, texts, launcher, kernel, faults, Covers,
     CoverInv
<1> QED
  BY <1>1, <1>2, <1>3, <1>4, <1>5, <1>6, <1>7, <1>8, <1>9, <1>10, <1>11, <1>12, <1>13, <1>14,
     <1>15, <1>16, <1>17, <1>18, <1>19, <1>20, <1>21, <1>22, <1>23, <1>24, <1>25, <1>26, <1>27
     DEF Next, Launcher

\* What the launcher was told stays so to the end of the run.
LEMMA AgreedKept ==
    ASSUME IInv, CoverInv, AgreedInv, [Next]_vars
    PROVE  AgreedInv'
<1>a. TypeOK /\ ServerTypes /\ HandInv /\ KeepInv /\ ParentInv
  BY DEF IInv, TypeOK
<1>b. HeadVersion \in Nat /\ saves \in Nat
  BY <1>a, TheHead, Numbers DEF ServerTypes
<1>c. history' = history => HeadVersion' = HeadVersion /\ HeadImage' = HeadImage
  BY DEF HeadVersion, HeadImage
<1>d. /\ entry.version \in 0..HeadVersion /\ serverVersion \in 0..HeadVersion
      /\ asked \in 0..HeadVersion
  BY <1>a, Named DEF TypeOK, LauncherTypes
<1>e. history' = history /\ UNCHANGED <<entry, asked, card, ramOnly>> => Agreed' = Agreed
  BY DEF Agreed
<1>1. CASE Launch
  BY <1>a, <1>d, <1>e, <1>1 DEF Launch, LoadState, Boot, server, sd, files, texts, tables,
     launcher, kernel, faults, AgreedInv
<1>2. CASE MergeRuntime
  <2>1. UNCHANGED <<serverVersion, outcome>> /\ pc = "merge" /\ pc' \in {"merged", "tables"}
    BY <1>2 DEF MergeRuntime
  <2> QED
    BY <2>1 DEF AgreedInv
<1>3. CASE EmptyState
  BY <1>a, <1>d, <1>e, <1>3 DEF EmptyState, server, sd, files, texts, tables, launcher,
     kernel, faults, AgreedInv
<1>4. CASE WriteState
  BY <1>a, <1>d, <1>e, <1>4 DEF WriteState, server, sd, files, texts, tables, launcher,
     kernel, faults, AgreedInv
<1>5. CASE MergeTables
  BY <1>a, <1>d, <1>e, <1>5 DEF MergeTables, server, sd, files, texts, tables, launcher,
     kernel, faults, AgreedInv
<1>6. CASE RemoveStore
  BY <1>a, <1>d, <1>e, <1>6 DEF RemoveStore, server, sd, files, texts, tables, launcher,
     kernel, faults, AgreedInv
<1>7. CASE RenameStore
  <2>1. UNCHANGED <<history, entry, asked, serverVersion, outcome, card, ramOnly>>
    BY <1>7 DEF RenameStore, server, files, launcher, faults
  <2>2. pc = "recorded" => Agreed
    BY <1>a DEF HandInv, AgreedInv, Agreed
  <2> QED
    BY <1>e, <2>1, <2>2, <1>7 DEF RenameStore, AgreedInv
<1>8. CASE RemoveRuntimeFp
  BY <1>a, <1>d, <1>e, <1>8 DEF RemoveRuntimeFp, server, sd, files, texts, tables, launcher,
     kernel, faults, AgreedInv
<1>9. CASE AskHead
  <2>1. CASE pc' = "pull" /\ serverVersion' # 0 /\ serverVersion' <= entry.version
    <3>1. serverVersion' = HeadVersion /\ Found /\ image' = card /\ ~ Changed
      BY <1>9, <2>1 DEF AskHead, AgreedInv, EndWith
    <3>2. entry.version = HeadVersion /\ HeadVersion >= 1
      BY <1>b, <1>d, <2>1, <3>1
    <3>3. entry.digest = card /\ card # NoFile
      BY <3>1 DEF Changed, Found
    <3>4. card \subseteq HeadImage
      BY <3>2, <3>3, <1>9 DEF AskHead, CoverInv, Covers
    <3>5. HeadImage = history[HeadVersion] /\ HeadImage \in Image
      BY <1>a, <3>2, TheHead
    <3>6. HeadImage \subseteq NoFile \cup card \cup ramOnly
      BY <1>a, <3>2, <1>9 DEF AskHead, ParentInv, Descends
    <3>7. HeadImage \subseteq card \cup ramOnly
      BY <3>5, <3>6 DEF Image, Saves, NoFile
    <3>8. Agreed
      BY <1>b, <1>d, <3>2, <3>4, <3>5, <3>7 DEF Agreed
    <3>9. Agreed'
      BY <1>e, <3>8, <1>9 DEF AskHead, server, sd, files
    <3> QED
      BY <2>1, <3>9 DEF AgreedInv
  <2>2. /\ pc' \in {"done", "synced", "push", "pull"}
        /\ pc' = "done" => outcome' = "none"
        /\ pc' = "synced" => outcome' # "ok"
        /\ UNCHANGED entry
    BY <1>9 DEF AskHead, EndWith, AgreedInv
  <2> QED
    BY <2>1, <2>2 DEF AgreedInv
<1>10. CASE Push
  <2>1. card \in Image /\ image = card
    BY <1>a, <1>10 DEF HandInv, Push
  <2>2. Commit(image) => HeadVersion' = HeadVersion + 1
    BY <1>a, <2>1, Committed
  <2>3. pc' = "recording" => entry'.version >= asked
    BY <1>b, <1>d, <1>10 DEF Push, Agree, EndWith
  <2>4. pc' = "ask" => serverVersion' > entry'.version
    BY <1>b, <1>d, <1>10 DEF Push, Conflicts, EndWith
  <2>5. /\ pc' \in {"recording", "ask", "synced"} /\ asked' = asked
        /\ pc' = "synced" => outcome' = "failed"
    BY <1>10 DEF Push, EndWith
  <2> QED
    BY <2>3, <2>4, <2>5 DEF AgreedInv
<1>11. CASE Keep
  BY <1>a, <1>d, <1>e, <1>11 DEF Keep, EndWith, server, sd, files, texts, tables, launcher,
     kernel, faults, AgreedInv
<1>12. CASE ExitAtPrompt
  BY <1>a, <1>d, <1>e, <1>12 DEF ExitAtPrompt, server, sd, files, texts, tables, launcher,
     kernel, faults, AgreedInv
<1>13. CASE OpenBackup
  BY <1>a, <1>d, <1>e, <1>13 DEF OpenBackup, server, sd, files, texts, tables, launcher,
     kernel, faults, AgreedInv
<1>14. CASE WriteBackup
  BY <1>a, <1>d, <1>e, <1>14 DEF WriteBackup, EndWith, server, sd, files, texts, tables,
     launcher, kernel, faults, AgreedInv
<1>15. CASE Pull
  <2>1. UNCHANGED <<history, entry, asked, card, ramOnly>>
    BY <1>15 DEF Pull, server, sd, files
  <2> QED
    BY <1>b, <1>d, <1>e, <2>1, <1>15 DEF Pull, Ahead, EndWith, AgreedInv
<1>16. CASE WriteTemp
  BY <1>a, <1>d, <1>e, <1>16 DEF WriteTemp, EndWith, server, sd, files, texts, tables,
     launcher, kernel, faults, AgreedInv
<1>17. CASE RemoveCard
  BY <1>a, <1>d, <1>e, <1>17 DEF RemoveCard, server, sd, files, texts, tables, launcher,
     kernel, faults, AgreedInv
<1>18. CASE RenameCard
  <2>1. /\ pc = "removed" /\ asked' = asked
        /\ \/ pc' = "recording" /\ entry'.version = serverVersion
           \/ pc' = "synced" /\ outcome' = "failed"
    BY <1>18 DEF RenameCard, Agree, EndWith
  <2> QED
    BY <2>1 DEF AgreedInv
<1>19. CASE Finish
  BY <1>a, <1>d, <1>e, <1>19 DEF Finish, Boot, server, sd, files, texts, tables, launcher,
     kernel, faults, AgreedInv
<1>20. CASE Play
  BY <1>a, <1>d, <1>e, <1>20 DEF Play, server, sd, files, texts, tables, launcher, kernel,
     faults, AgreedInv
<1>21. CASE SaveCard
  BY <1>a, <1>d, <1>e, <1>21 DEF SaveCard, server, sd, files, texts, tables, launcher, kernel,
     faults, AgreedInv
<1>22. CASE KernelPush
  BY <1>a, <1>d, <1>e, <1>22 DEF KernelPush, KernelUnchanged, server, sd, files, texts,
     tables, launcher, kernel, faults, AgreedInv
<1>23. CASE Handoff
  BY <1>a, <1>d, <1>e, <1>23 DEF Handoff, OpenHandoff, WriteVersion, OpenTable, WriteTable, server,
     sd, files, texts, tables, launcher, kernel, faults, AgreedInv
<1>24. CASE Leave
  BY <1>a, <1>d, <1>e, <1>24 DEF Leave, server, sd, files, texts, tables, launcher, kernel,
     faults, AgreedInv
<1>25. CASE Cut
  BY <1>a, <1>d, <1>e, <1>25 DEF Cut, server, sd, files, texts, tables, launcher, kernel,
     faults, AgreedInv
<1>26. CASE OtherCommits
  <2>1. UNCHANGED <<pc, entry, asked, serverVersion, outcome, card, ramOnly>>
    BY <1>26 DEF OtherCommits, sd, files, launcher, faults
  <2>2. \A v \in 1..HeadVersion : history'[v] = history[v]
    BY <1>a, OtherGrows, <1>26 DEF HistoryGrows
  <2>3. Agreed => Agreed'
    BY <1>b, <1>d, <2>1, <2>2 DEF Agreed
  <2> QED
    BY <2>1, <2>3 DEF AgreedInv
<1>27. CASE UNCHANGED vars
  BY <1>a, <1>d, <1>e, <1>27 DEF vars, server, sd, files, texts, launcher, kernel, faults,
     AgreedInv
<1> QED
  BY <1>1, <1>2, <1>3, <1>4, <1>5, <1>6, <1>7, <1>8, <1>9, <1>10, <1>11, <1>12, <1>13, <1>14,
     <1>15, <1>16, <1>17, <1>18, <1>19, <1>20, <1>21, <1>22, <1>23, <1>24, <1>25, <1>26, <1>27
     DEF Next, Launcher

\* What a run that ends well is about to say of the card, in every state.
LEMMA AgreedInvariance == Spec => [](SavesInv /\ CoverInv /\ AgreedInv)
<1>1. ASSUME Init
      PROVE  SavesInv /\ CoverInv /\ AgreedInv
  <2>1. HeadVersion = 0 /\ card = NoFile /\ pc = "off"
    BY <1>1 DEF Init, HeadVersion
  <2>2. SavesInv
    BY <2>1 DEF SavesInv
  <2>3. CoverInv
    BY <1>1, <2>1 DEF Init, CoverInv, Covers
  <2>4. AgreedInv
    BY <2>1 DEF AgreedInv
  <2> QED
    BY <2>2, <2>3, <2>4
<1>2. IInv /\ SavesInv /\ [Next]_vars => SavesInv'
  BY SavesKept
<1>3. IInv /\ SavesInv /\ CoverInv /\ [Next]_vars => CoverInv'
  BY CoverKept
<1>4. IInv /\ CoverInv /\ AgreedInv /\ [Next]_vars => AgreedInv'
  BY AgreedKept
<1> QED
  BY <1>1, <1>2, <1>3, <1>4, LauncherInvariance, PTL DEF Spec

\* A run of the launcher that ends without a complaint leaves the card with the saves of a
\* version that is not behind what the server had when the run started, and no others; but for
\* saves that a reset kept off the SD card (sync_one, wii_state_save).
THEOREM RunsEndAgreed == Spec => []SyncedIsAgreed
<1>1. AgreedInv => SyncedIsAgreed
  BY DEF AgreedInv, Agreed, SyncedIsAgreed
<1> QED
  BY <1>1, AgreedInvariance, PTL

=============================================================================
