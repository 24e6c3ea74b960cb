------------------------------- MODULE MCMail -------------------------------
(* Two characters; the first writes and has an item and an amount of zeny.  *)
EXTENDS Mail
CONSTANTS First
MCStart == [s \in Pieces |-> First]
=============================================================================
