---------------------------- MODULE MCKernelSync ----------------------------
(* A card of three blocks, with a server that has seen it or not: the smallest *)
(* on which one block of change is worth a delta.                              *)
EXTENDS KernelSync

First == [b \in Blocks |-> -1]

MCCards == {First}
MCStored == {<<>>, <<First>>}
MCNothing == {<<>>}
=============================================================================
