------------------------------ MODULE MCLogin ------------------------------
(* Instances of LoginSystem for TLC.                                       *)
EXTENDS LoginSystem

MCAccounts == {<<0, 1>>}
MCTwoAccounts == {<<0, 1>>, <<1, 0>>}
MCNoLists == {<< >>}
MCLists == {<< >>, <<<<0, 1>>>>}
=============================================================================
