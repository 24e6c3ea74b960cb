--------------------------- MODULE MCGuildStorage ---------------------------
(* Two members; one has a piece that is bound to the guild.                 *)
EXTENDS GuildStorage
CONSTANTS First, Second, sword
MCStart == [s \in Pieces |-> IF s = sword THEN First ELSE Second]
=============================================================================
