--------------------------- MODULE MCPushListener ---------------------------
(* One card of one or two chunks, and the attempts of two consoles at it.    *)
EXTENDS PushListener, TLC

CONSTANTS k1, k2, zeros, ones, twos, t1, t2

\* The first console's delta over version 1, and its next save, pushed whole
\* under the same transfer id after the delta was given up.
Delta == [key |-> k1, parent |-> 1, delta |-> TRUE, image |-> <<twos, twos>>, dirty |-> {1, 2}]
NextSave == [key |-> k1, parent |-> 1, delta |-> FALSE, image |-> <<twos>>, dirty |-> {}]

\* The second console's first push, which the parser refuses, and what it tries
\* next: a good card, one past the cap, an empty one.
Damaged == [key |-> k2, parent |-> 0, delta |-> FALSE, image |-> <<zeros>>, dirty |-> {}]
First == [Damaged EXCEPT !.image = <<ones>>]
TooBig == [Damaged EXCEPT !.image = <<ones, ones, ones>>]
Empty == [Damaged EXCEPT !.image = <<>>]

MCAttempts == {Delta, NextSave, Damaged, First, TooBig, Empty}
MCValidImages == {<<ones, ones>>, <<twos, ones>>, <<twos, twos>>, <<ones>>, <<twos>>}
MCOtherImages == {<<ones, ones>>, <<ones>>}

\* For the run on a transfer decided twice: one attempt.
OneAttempt == {First}

\* For the run on the staging cap: two consoles push deltas over version 1.
OtherDelta == [Delta EXCEPT !.key = k2]
TwoDeltas == {Delta, OtherDelta}

TaskSymmetry == Permutations({t1, t2})
=============================================================================
