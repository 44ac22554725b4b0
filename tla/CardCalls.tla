----------------------------- MODULE CardCalls -----------------------------
(***************************************************************************)
(* The calls a caller makes of the card store and the answers it can get,  *)
(* shared by the abstract history and by the store that implements it.     *)
(*                                                                         *)
(* An image stands for its bytes and for their SHA-256 at once: the store  *)
(* only ever compares digests, and two images of one digest do not happen. *)
(***************************************************************************)
EXTENDS Naturals

CONSTANTS
    Cards,        \* the (game_id, slot) pairs in play
    Images,       \* whole card images, identified by their digest
    ValidImages,  \* the images the memory card parser and the size cap accept
    Blank,        \* what format_card produces
    Claims,       \* version numbers a caller may name as parent or target
    None          \* no image

ASSUME CallsAssumption ==
    /\ ValidImages \subseteq Images
    /\ Blank \in ValidImages
    /\ Claims \subseteq Nat
    /\ None \notin Images

\* Store.push as reached from the two transports: `parent` is the version the
\* image was derived from. An API push runs on the event loop itself.
PushCalls == [op : {"push"}, via : {"api", "udp"}, card : Cards, image : Images,
              parent : Claims, target : {0}]

\* The format endpoint pushes a blank card with parent 0, after a check.
FormatCalls == [op : {"format"}, via : {"pool"}, card : Cards, image : {Blank},
                parent : {0}, target : {0}]

\* Store.rollback: `target` is the version to make head again.
RollbackCalls == [op : {"rollback"}, via : {"pool"}, card : Cards, image : {Blank},
                  parent : {0}, target : Claims]

Calls == PushCalls \cup FormatCalls \cup RollbackCalls

\* A caller that is not making a call.
NoCall == [op |-> "none"]

Outcomes == {"none", "created", "unchanged", "conflict", "notfound", "invalid", "error"}

\* `version` is the committed version, or the head a conflict reports.
Answer(outcome, version) == [outcome |-> outcome, version |-> version]

Answers == [outcome : Outcomes, version : Nat]

NoAnswer == Answer("none", 0)
=============================================================================
