---------------------------- MODULE MCGraphSession ----------------------------
(***************************************************************************)
(* An instance of GraphSession for TLC: two pages, one of which may import *)
(* the other, and a collection entry.                                     *)
(***************************************************************************)
EXTENDS GraphSession

CONSTANTS home, post, entry, island
=============================================================================
