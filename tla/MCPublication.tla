---------------------------- MODULE MCPublication ----------------------------
(***************************************************************************)
(* Instances of Publication for TLC: two islands builds that share a       *)
(* companion, one client script and two documents.                         *)
(***************************************************************************)
EXTENDS Publication

CONSTANTS b1, b2, shared, first, second, order, home, post

MCNames == [b \in Builds |-> IF b = b1 THEN {shared, first} ELSE {shared, second}]

Islandic(b) == [islands |-> b, scripts |-> {}]
Scripted(b) == [islands |-> b, scripts |-> {order}]
AllSites    == {Islandic(b) : b \in Builds \cup {None}} \cup {Scripted(b1)}
OneIsland   == {Islandic(b) : b \in Builds \cup {None}}

PageEdits   == {[NoPlan EXCEPT !.pages = TRUE, !.eager = e] : e \in {{}, Docs}}
IslandEdits == {[p EXCEPT !.islands = TRUE] : p \in PageEdits}
PostGone    == [NoPlan EXCEPT !.pages = TRUE, !.gone = {post}]
ScriptEdit  == [NoPlan EXCEPT !.scripts = TRUE]
ServerEdit  == [NoPlan EXCEPT !.ssr = TRUE]
NewPage     == [NoPlan EXCEPT !.pages = TRUE, !.discover = TRUE, !.eager = {home}]
NewFile     == [NoPlan EXCEPT !.discover = TRUE]
StyleEdit   == NoPlan

AllBatches  == PageEdits \cup IslandEdits
                 \cup {PostGone, ScriptEdit, ServerEdit, NewPage, NewFile, StyleEdit}
RaceBatches == PageEdits \cup IslandEdits \cup {NewPage}
=============================================================================
