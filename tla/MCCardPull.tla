----------------------------- MODULE MCCardPull -----------------------------
(* A card that others keep pushing to, or that nobody has pushed yet.        *)
EXTENDS CardPull

CONSTANTS g1, before, after

\* Two versions that differ in every chunk, and one the console has no room for.
Old == <<before, before, before>>
New == <<after, after, after>>
Large == <<after, after, after, after>>

MCImages == {Old, New, Large}
MCStored == {[g \in {g1} |-> h] : h \in {<<>>, <<Old>>}}
=============================================================================
