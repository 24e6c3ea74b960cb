------------------------------ MODULE Custody -------------------------------
(***************************************************************************)
(* What the post promises about the goods entrusted to it.  Every piece is *)
(* with one character, in the post, or gone.  A character parts with a     *)
(* piece by posting it or by using it up; the post hands it to one of the  *)
(* two parties of the letter, sender or addressee, or loses it.  Nothing   *)
(* that is gone comes back.                                                *)
(***************************************************************************)
CONSTANTS Pieces, Persons, Start

VARIABLES
    holder,         \* a person, "post" or "gone"
    parties         \* of a piece in the post: those of sender and addressee who may get it

Init == holder = Start /\ parties = [s \in Pieces |-> {}]

Stays(s) == holder'[s] = holder[s] /\ parties'[s] \subseteq parties[s]
Posted(s) == holder[s] \in Persons /\ holder'[s] = "post" /\ holder[s] \in parties'[s]
Delivered(s) == holder[s] = "post" /\ holder'[s] \in parties[s] \cap Persons
Vanishes(s) == holder'[s] = "gone"

Next ==
    /\ holder' \in [Pieces -> Persons \cup {"post", "gone"}]
    /\ \A s \in Pieces : Stays(s) \/ Posted(s) \/ Delivered(s) \/ Vanishes(s)

Spec == Init /\ [][Next]_<<holder, parties>>
=============================================================================
