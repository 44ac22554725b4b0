---------------------------- MODULE CardHistory ----------------------------
(***************************************************************************)
(* What the card store promises its callers: every card has one history of *)
(* images that only ever grows, and each call is decided at one instant    *)
(* between the moment it was asked and the moment it is answered, by the   *)
(* three rules at the top of store.py. A call may also fail, which changes *)
(* nothing, and a crash forgets every call that is being served.           *)
(***************************************************************************)
EXTENDS CardCalls, Sequences

CONSTANT Callers

VARIABLES
    history,  \* per card, its images, version 1 first
    phase,    \* per caller: "idle", "asked" or "answered"
    call,     \* per caller, the call it is making
    answer    \* per caller, the answer to it

vars == <<history, phase, call, answer>>

Init ==
    /\ history = [c \in Cards |-> <<>>]
    /\ phase = [p \in Callers |-> "idle"]
    /\ call = [p \in Callers |-> NoCall]
    /\ answer = [p \in Callers |-> NoAnswer]

Ask(p, r) ==
    /\ phase[p] = "idle"
    /\ phase' = [phase EXCEPT ![p] = "asked"]
    /\ call' = [call EXCEPT ![p] = r]
    /\ UNCHANGED <<history, answer>>

Reply(p, a) ==
    /\ phase[p] = "asked"
    /\ phase' = [phase EXCEPT ![p] = "answered"]
    /\ answer' = [answer EXCEPT ![p] = a]
    /\ UNCHANGED call

\* The call of p adds an image to the history of its card.
Append1(p, image) ==
    LET c == call[p].card IN
    /\ Reply(p, Answer("created", Len(history[c]) + 1))
    /\ history' = [history EXCEPT ![c] = Append(@, image)]

HeadIs(c, image) == history[c] # <<>> /\ history[c][Len(history[c])] = image

\* A push, or the push a format ends in.
DecidePush(p) ==
    LET r == call[p]
        h == history[r.card] IN
    /\ r.op \in {"push", "format"}
    /\ \/ /\ HeadIs(r.card, r.image)
          /\ Reply(p, Answer("unchanged", Len(h)))
          /\ UNCHANGED history
       \/ /\ ~ HeadIs(r.card, r.image)
          /\ r.parent # Len(h)
          /\ Reply(p, Answer("conflict", Len(h)))
          /\ UNCHANGED history
       \/ /\ ~ HeadIs(r.card, r.image)
          /\ r.parent = Len(h)
          /\ r.image \in ValidImages
          /\ Append1(p, r.image)

\* A format of a card that exists is refused whatever its head is.
RefuseFormat(p) ==
    /\ call[p].op = "format"
    /\ history[call[p].card] # <<>>
    /\ Reply(p, Answer("conflict", Len(history[call[p].card])))
    /\ UNCHANGED history

DecideRollback(p) ==
    LET r == call[p]
        h == history[r.card] IN
    /\ r.op = "rollback"
    /\ \/ /\ r.target \notin DOMAIN h
          /\ Reply(p, Answer("notfound", 0))
          /\ UNCHANGED history
       \/ /\ r.target \in DOMAIN h
          /\ HeadIs(r.card, h[r.target])
          /\ Reply(p, Answer("unchanged", Len(h)))
          /\ UNCHANGED history
       \/ /\ r.target \in DOMAIN h
          /\ ~ HeadIs(r.card, h[r.target])
          /\ Append1(p, h[r.target])

\* Refused before it reached the history, or lost to an error: no effect.
Fail(p) ==
    /\ \E o \in {"invalid", "error"} : Reply(p, Answer(o, 0))
    /\ UNCHANGED history

Leave(p) ==
    /\ phase[p] = "answered"
    /\ phase' = [phase EXCEPT ![p] = "idle"]
    /\ call' = [call EXCEPT ![p] = NoCall]
    /\ answer' = [answer EXCEPT ![p] = NoAnswer]
    /\ UNCHANGED history

\* The server process dies: no call is being served any more.
Crash ==
    /\ phase' = [p \in Callers |-> "idle"]
    /\ call' = [p \in Callers |-> NoCall]
    /\ answer' = [p \in Callers |-> NoAnswer]
    /\ UNCHANGED history

Next ==
    \/ \E p \in Callers :
          \/ \E r \in Calls : Ask(p, r)
          \/ DecidePush(p)
          \/ RefuseFormat(p)
          \/ DecideRollback(p)
          \/ Fail(p)
          \/ Leave(p)
    \/ Crash

Spec == Init /\ [][Next]_vars
=============================================================================
