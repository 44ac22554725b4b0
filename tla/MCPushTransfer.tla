--------------------------- MODULE MCPushTransfer ---------------------------
(* A console's first push, its next save as a delta, and another console.    *)
EXTENDS PushTransfer

CONSTANTS k1, k2, zeros, ones, twos, t1, t2

\* A card the server has never seen, pushed whole.
First == [key |-> k1, parent |-> 0, delta |-> FALSE, image |-> <<ones, twos>>, dirty |-> {}]

\* The save after it: one chunk has changed since version 1.
Next1 == [key |-> k2, parent |-> 1, delta |-> TRUE, image |-> <<twos, twos>>, dirty |-> {1}]

MCSaves == {First, Next1}
MCAttempts == MCSaves \cup {Whole(Next1)}
MCValidImages == {<<ones, twos>>, <<twos, twos>>, <<ones, ones>>}

\* What another console may have made of version 1: other bytes under the delta, or
\* the very card that is about to be pushed.
MCOtherImages == {<<ones, ones>>, <<twos, twos>>}
=============================================================================
