----------------------------- MODULE DolphinSync -----------------------------
(***************************************************************************)
(* The PC side: sync.py, cards.py and client.py of slotsync_dolphin, for   *)
(* one card, with the emulator it serves.                                  *)
(*                                                                         *)
(* The watcher and a command run side by side, each with a copy of the     *)
(* sidecar that it read when it was started. Dolphin keeps the card in     *)
(* memory and writes it back when the game saves. Others push, and answers *)
(* of the server get lost.                                                 *)
(*                                                                         *)
(* Dolphin.ini is left out: the card is the one that Dolphin opens.        *)
(***************************************************************************)
EXTENDS Naturals, Sequences

CONSTANTS
    MaxCards,     \* bound: contents that the card ever has
    MaxVersion,   \* bound: versions on the server
    MaxRuns,      \* bound: commands and restarts of the watcher
    MaxFailures   \* bound: answers that are lost

ASSUME DolphinAssumption ==
    {MaxCards, MaxVersion} \subseteq Nat \ {0} /\ {MaxRuns, MaxFailures} \subseteq Nat

VARIABLES
    cards,     \* what the card has been: for each content, those that it descends from
    history,   \* the versions on the server
    file,      \* the card on disk
    sidecar,   \* .slotsync.json
    running,   \* Dolphin is
    memory,    \* the card in Dolphin
    unsaved,   \* the game has saved and Dolphin has not yet written the card
    state,     \* what each process takes the sidecar to say
    command,   \* what each process was told to do
    pc,        \* where each process is
    head,      \* the head that it was told of
    image,     \* the card that it pulled, or is pushing
    raced,     \* a pull has met Dolphin, or another process
    runs,      \* processes started so far
    failures   \* answers lost so far

server == <<cards, history>>
dolphin == <<running, memory, unsaved>>
process == <<state, command, pc, head, image>>
ghosts == <<raced, runs, failures>>
vars == <<server, file, sidecar, dolphin, process, ghosts>>

\* The watcher, and a command that someone types or clicks on.
Processes == {"watch", "cli"}

\* "other" is any command for another card, which is in the same sidecar.
Commands == {"pull", "push", "launch", "play", "other"}

None == 0

Contents == 1..Len(cards)

HeadVersion == Len(history)

HeadCard == IF history = <<>> THEN None ELSE history[HeadVersion]

\* A version and the digest of its content; the digest stands for the content.
Agreement(version, content) == [version |-> version, card |-> content]

Unknown == Agreement(0, None)

OnServer == {history[v] : v \in DOMAIN history}

Init ==
    /\ cards = <<{1}>>
    /\ history \in {<<>>, <<1>>}
    /\ file \in {None, HeadCard}
    /\ sidecar = IF file = None THEN Unknown ELSE Agreement(1, 1)
    /\ running = FALSE /\ memory = None /\ unsaved = FALSE
    /\ state = [p \in Processes |-> sidecar]
    /\ command = [p \in Processes |-> IF p = "watch" THEN "watch" ELSE "none"]
    /\ pc = [p \in Processes |-> IF p = "watch" THEN "idle" ELSE "ended"]
    /\ head = [p \in Processes |-> Unknown]
    /\ image = [p \in Processes |-> Unknown]
    /\ raced = FALSE /\ runs = 0 /\ failures = 0

----------------------------------------------------------------------------
(* Dolphin, and the others.                                                *)

StartDolphin ==
    /\ ~ running /\ file # None
    /\ running' = TRUE
    /\ memory' = file
    /\ unsaved' = FALSE

OpenDolphin ==
    /\ StartDolphin
    /\ UNCHANGED <<server, file, sidecar, process, ghosts>>

\* A content that descends from `from`.
Make(from) ==
    /\ Len(cards) < MaxCards
    /\ cards' = Append(cards, from \cup {Len(cards) + 1})

Save ==
    /\ running
    /\ Make(cards[memory])
    /\ memory' = Len(cards')
    /\ unsaved' = TRUE
    /\ UNCHANGED <<history, file, sidecar, running, process, ghosts>>

\* The whole card goes back to the disk.
Flush ==
    /\ running /\ unsaved
    /\ file' = memory
    /\ unsaved' = FALSE
    /\ raced' = (raced \/ \E p \in Processes : pc[p] \in {"compare", "fetch", "write"})
    /\ UNCHANGED <<server, sidecar, running, memory, process, runs, failures>>

CloseDolphin ==
    /\ running /\ ~ unsaved
    /\ running' = FALSE
    /\ memory' = None
    /\ UNCHANGED <<server, file, sidecar, unsaved, process, ghosts>>

\* Another device pushes on top of the head, or the web UI rolls back to an old version.
OtherCommits ==
    /\ HeadVersion < MaxVersion
    /\ \/ /\ Make(IF history = <<>> THEN {} ELSE cards[HeadCard])
          /\ history' = Append(history, Len(cards'))
       \/ /\ \E card \in OnServer \ {HeadCard} : history' = Append(history, card)
          /\ UNCHANGED cards
    /\ UNCHANGED <<file, sidecar, dolphin, process, ghosts>>

Lost == failures < MaxFailures /\ failures' = failures + 1

----------------------------------------------------------------------------
(* The processes.                                                          *)

Goes(p, next) == pc' = [pc EXCEPT ![p] = next]

\* The command has returned, or it has raised; the watcher goes on.
After(p) == IF p = "watch" THEN "idle" ELSE "ended"

Ends(p) == Goes(p, After(p))

\* What follows a pull.
Pulled(p) ==
    CASE command[p] = "launch" -> Goes(p, "popen")
      [] command[p] = "play" -> Goes(p, "point")
      [] OTHER -> Ends(p)

\* CardDirectory._load. A sidecar that cannot be read is an empty one.
Load(p) == \E a \in {sidecar, Unknown} : state' = [state EXCEPT ![p] = a]

\* Another process is at work on the card.
Busy(p) ==
    \E q \in Processes \ {p} : pc[q] \notin {"idle", "ended", "another", "point", "popen", "run"}

\* A command: launch does not start while Dolphin runs, and play asks after its pull.
StartCommand(c) ==
    /\ pc["cli"] = "ended"
    /\ runs < MaxRuns
    /\ runs' = runs + 1
    /\ c = "launch" => ~ running
    /\ Load("cli")
    /\ command' = [command EXCEPT !["cli"] = c]
    /\ Goes("cli", CASE c = "push" -> "push" [] c = "other" -> "another" [] OTHER -> "detail")
    /\ raced' = (raced \/ (c # "other" /\ Busy("cli")))
    /\ UNCHANGED <<server, file, sidecar, dolphin, head, image, failures>>

\* What is remembered of another card is saved with what this process takes to be so of this
\* one: the watcher may do so whenever it is not at work here.
RememberAnother(p) ==
    /\ pc[p] \in {"idle", "another"}
    /\ sidecar' = state[p]
    /\ Ends(p)
    /\ UNCHANGED <<server, file, dolphin, state, command, head, image, ghosts>>

\* Killed, at any point; the watcher is started again.
Kill(p) ==
    /\ pc[p] # "ended"
    /\ runs < MaxRuns
    /\ runs' = runs + 1
    /\ IF p = "watch" THEN Load(p) ELSE UNCHANGED state
    /\ Ends(p)
    /\ UNCHANGED <<server, file, sidecar, dolphin, command, head, image, raced, failures>>

HasLocalChanges(p) == file # None /\ file # state[p].card

\* watch_once. A card that has not settled is left for the next time.
WatchOnce ==
    /\ pc["watch"] = "idle"
    /\ HasLocalChanges("watch")
    /\ Goes("watch", "push")
    /\ raced' = (raced \/ Busy("watch"))
    /\ UNCHANGED <<server, file, sidecar, dolphin, state, command, head, image, runs, failures>>

\* pull_idle_cards, for a card that is on disk. Dolphin is looked for once, before anything is
\* asked of the server.
PullIdleCards ==
    /\ pc["watch"] = "idle"
    /\ ~ running /\ file # None
    /\ HeadVersion > state["watch"].version
    /\ Goes("watch", "detail")
    /\ raced' = (raced \/ Busy("watch"))
    /\ UNCHANGED <<server, file, sidecar, dolphin, state, command, head, image, runs, failures>>

\* pull asks what the head is. A card that the server has never seen is formatted.
Detail(p) ==
    /\ pc[p] = "detail"
    /\ \/ /\ history # <<>>
          /\ head' = [head EXCEPT ![p] = Agreement(HeadVersion, HeadCard)]
          /\ Goes(p, "guard")
          /\ UNCHANGED <<server, failures>>
       \/ /\ history = <<>> /\ p = "cli"
          /\ Make({})
          /\ history' = <<Len(cards')>>
          /\ UNCHANGED <<head, pc, failures>>
       \/ /\ Lost \/ (history = <<>> /\ UNCHANGED failures)
          /\ Ends(p)
          /\ UNCHANGED <<server, head>>
    /\ UNCHANGED <<file, sidecar, dolphin, state, command, image, raced, runs>>

\* Mutant: the version that the next push will be.
RememberNext(p, a) ==
    /\ state' = [state EXCEPT ![p] = Agreement(a.version + 1, a.card)]
    /\ sidecar' = state'[p]

\* CardDirectory.remember: the file has what this process takes to be so.
Remember(p, a) == state' = [state EXCEPT ![p] = a] /\ sidecar' = a

\* pull reads the file three times: whether there is play on disk that was not agreed,
Guard(p) ==
    /\ pc[p] = "guard"
    /\ Goes(p, IF HasLocalChanges(p) THEN "digest" ELSE "compare")
    /\ UNCHANGED <<server, file, sidecar, dolphin, state, command, head, image, ghosts>>

\* Mutant: a head that is newer is pulled over whatever is on disk.
OnlyNewer(p) == head[p].version <= state[p].version

\* What is on disk is not the head.
Differs(p) == file # head[p].card

\* whether, then, the server has it all the same,
Digest(p) ==
    /\ pc[p] = "digest"
    /\ IF Differs(p) THEN Ends(p) ELSE Goes(p, "compare")
    /\ UNCHANGED <<server, file, sidecar, dolphin, state, command, head, image, ghosts>>

\* and whether there is anything to fetch.
Compare(p) ==
    /\ pc[p] = "compare"
    /\ \/ file = head[p].card /\ Remember(p, head[p]) /\ Pulled(p)
       \/ file # head[p].card /\ Goes(p, "fetch") /\ UNCHANGED <<state, sidecar>>
    /\ UNCHANGED <<server, file, dolphin, command, head, image, ghosts>>

\* latest.raw: the head may be another one by now, which the digest gives away.
Fetch(p) ==
    /\ pc[p] = "fetch"
    /\ \/ /\ HeadCard = head[p].card
          /\ image' = [image EXCEPT ![p] = Agreement(HeadVersion, HeadCard)]
          /\ Goes(p, "write")
          /\ UNCHANGED failures
       \/ /\ Lost \/ (HeadCard # head[p].card /\ UNCHANGED failures)
          /\ Ends(p)
          /\ UNCHANGED image
    /\ UNCHANGED <<server, file, sidecar, dolphin, state, command, head, raced, runs>>

\* CardDirectory.write: complete, or not at all. Nobody looks for Dolphin again.
Write(p) ==
    /\ pc[p] = "write"
    /\ file' = image[p].card
    /\ raced' = (raced \/ running)
    /\ Goes(p, "remember")
    /\ UNCHANGED <<server, sidecar, dolphin, state, command, head, image, runs, failures>>

RememberPulled(p) ==
    /\ pc[p] = "remember"
    /\ Remember(p, image[p])
    /\ Pulled(p)
    /\ UNCHANGED <<server, file, dolphin, command, head, image, ghosts>>

\* launch starts Dolphin and returns.
Popen ==
    /\ pc["cli"] = "popen"
    /\ StartDolphin \/ (running /\ UNCHANGED dolphin)
    /\ Ends("cli")
    /\ UNCHANGED <<server, file, sidecar, state, command, head, image, ghosts>>

\* play refuses to point a Dolphin that is running at the card, and then waits for its own.
Point ==
    /\ pc["cli"] = "point"
    /\ \/ running /\ Ends("cli") /\ UNCHANGED dolphin
       \/ StartDolphin /\ Goes("cli", "run")
    /\ UNCHANGED <<server, file, sidecar, state, command, head, image, ghosts>>

DolphinReturns ==
    /\ pc["cli"] = "run"
    /\ ~ running
    /\ Goes("cli", "push")
    /\ raced' = (raced \/ Busy("cli"))
    /\ UNCHANGED <<server, file, sidecar, dolphin, state, command, head, image, runs, failures>>

\* push reads the card, and leaves it if nothing has changed.
ReadCard(p) ==
    /\ pc[p] = "push"
    /\ image' = [image EXCEPT ![p] = Agreement(state[p].version, file)]
    /\ IF HasLocalChanges(p) THEN Goes(p, "post") ELSE Ends(p)
    /\ UNCHANGED <<server, file, sidecar, dolphin, state, command, head, ghosts>>

\* Store.push, and the answer, whose digest is that of the head a moment later.
Post(p) ==
    /\ pc[p] = "post"
    /\ LET unchanged == HeadCard = image[p].card
           commits == ~ unchanged /\ image[p].version = HeadVersion IN
       \/ /\ unchanged
          /\ head' = [head EXCEPT ![p] = Agreement(HeadVersion, None)]
          /\ Goes(p, "answer")
          /\ UNCHANGED <<history, failures>>
       \/ /\ commits /\ HeadVersion < MaxVersion
          /\ history' = Append(history, image[p].card)
          /\ \/ head' = [head EXCEPT ![p] = Agreement(HeadVersion', None)]
                /\ Goes(p, "answer")
                /\ UNCHANGED failures
             \/ Lost /\ Ends(p) /\ UNCHANGED head
       \/ /\ Lost \/ (~ unchanged /\ ~ commits /\ UNCHANGED failures)
          /\ Ends(p)
          /\ UNCHANGED <<history, head>>
    /\ UNCHANGED <<cards, file, sidecar, dolphin, state, command, image, raced, runs>>

Answer(p) ==
    /\ pc[p] = "answer"
    /\ \/ /\ Remember(p, Agreement(head[p].version, HeadCard))
          /\ UNCHANGED failures
       \/ Lost /\ UNCHANGED <<state, sidecar>>
    /\ Ends(p)
    /\ UNCHANGED <<server, file, dolphin, command, head, image, raced, runs>>

Next ==
    \/ OpenDolphin \/ Save \/ Flush \/ CloseDolphin \/ OtherCommits
    \/ \E c \in Commands : StartCommand(c)
    \/ WatchOnce \/ PullIdleCards
    \/ Popen \/ Point \/ DolphinReturns
    \/ \E p \in Processes :
        \/ Kill(p) \/ RememberAnother(p)
        \/ Detail(p) \/ Guard(p) \/ Digest(p) \/ Compare(p) \/ Fetch(p) \/ Write(p) \/ RememberPulled(p)
        \/ ReadCard(p) \/ Post(p) \/ Answer(p)

Spec == Init /\ [][Next]_vars

----------------------------------------------------------------------------
(* Properties.                                                             *)

Agreements == [version : 0..MaxVersion, card : 0..MaxCards]

Places == {"idle", "ended", "another", "detail", "guard", "digest", "compare", "fetch", "write",
           "remember", "popen", "point", "run", "push", "post", "answer"}

TypeOK ==
    /\ cards \in Seq(SUBSET (1..MaxCards)) /\ Len(cards) <= MaxCards
    /\ history \in Seq(Contents) /\ Len(history) <= MaxVersion
    /\ file \in Contents \cup {None}
    /\ sidecar \in Agreements
    /\ running \in BOOLEAN /\ unsaved \in BOOLEAN
    /\ memory \in IF running THEN Contents ELSE {None}
    /\ state \in [Processes -> Agreements]
    /\ command \in [Processes -> Commands \cup {"watch", "none"}]
    /\ pc \in [Processes -> Places]
    /\ head \in [Processes -> Agreements] /\ image \in [Processes -> Agreements]
    /\ raced \in BOOLEAN /\ runs \in 0..MaxRuns /\ failures \in 0..MaxFailures

\* What this PC pushes descends from the version that it is pushed on top of.
Descends(p) ==
    pc[p] = "post" /\ pc'[p] # "post" /\ history' # history /\ history # <<>> =>
        HeadCard \in cards[image[p].card]

\* What a pull replaces on disk is on the server.
KeepsPlay(p) == pc[p] = "write" /\ pc'[p] # "write" /\ file' # file => file \in OnServer \cup {None}

\* As long as no pull has met an open Dolphin or another process at work on the card, no version
\* is overwritten by one that does not descend from it, and no play on disk by a pull: whatever
\* is killed, lost or remembered wrongly in between.
NothingOverwritten == [][~ raced' => \A p \in Processes : Descends(p) /\ KeepsPlay(p)]_vars

\* What the README says of the watcher: "It never overwrites. If another device moved the card
\* on while you were playing, the push is refused as a conflict".
NeverOverwrites == [][\A p \in Processes : Descends(p)]_vars

=============================================================================
