------------------------------ MODULE MCParty -------------------------------
(* Two players, two map-servers, one party that has room for both and for  *)
(* one that should not be there.                                           *)
EXTENDS Party
=============================================================================
