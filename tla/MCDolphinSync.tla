---------------------------- MODULE MCDolphinSync ----------------------------
(* Instances of DolphinSync for TLC: DolphinSync.cfg, DolphinOverwrites.cfg. *)
EXTENDS DolphinSync

\* What a process holds only where it will be read again: a command that has ended reads the
\* sidecar anew, and the head and the card in hand are set before they are used.
Live(places, held) == [p \in Processes |-> IF pc[p] \in places THEN held[p] ELSE Unknown]

\* The state as far as any step or property can tell it apart.
LiveView ==
    <<server, file, sidecar, dolphin, pc, ghosts,
      Live(Places \ {"ended", "point", "popen"}, state),
      Live({"guard", "digest", "compare", "fetch", "answer"}, head),
      Live({"write", "remember", "post", "answer"}, image),
      IF pc["cli"] \in {"detail", "guard", "digest", "compare", "fetch", "write", "remember"}
      THEN command["cli"] ELSE "none">>
=============================================================================
