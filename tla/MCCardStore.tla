---------------------------- MODULE MCCardStore ----------------------------
(***************************************************************************)
(* Two threads on one card: two images the parser takes, one it refuses,   *)
(* and claims that reach one past the bound on versions.                   *)
(***************************************************************************)
EXTENDS CardStore

CONSTANTS p1, p2, c1, blank, played, torn

MCCallers == {p1, p2}
MCCards == {c1}
MCImages == {blank, played, torn}
MCValidImages == {blank, played}
MCClaims == 0..2
=============================================================================
