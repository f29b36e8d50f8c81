------------------------------- MODULE Importers -------------------------------
(***************************************************************************)
(* What the dependency graph promises, without its indexes: it knows the   *)
(* dependencies of each page, a resolve replaces those of some pages, and  *)
(* removing a file names every page that depended on it and forgets it on  *)
(* both sides.                                                             *)
(***************************************************************************)
CONSTANTS Paths, Kinds

VARIABLES deps,     \* the edges of each page
          affected  \* what the last removal named

vars == <<deps, affected>>

Nothing == [p \in Paths |-> {}]

DependsOn(p, x) == \E d \in deps[p] : d[1] = x

Init == deps = Nothing /\ affected = {}

\* Some pages are resolved again.  Whatever was found, a page depends on itself.
Resolve ==
  /\ deps' \in [Paths -> SUBSET (Paths \X Kinds)]
  /\ \A p \in Paths : deps'[p] # deps[p] => \E d \in deps'[p] : d[1] = p
  /\ UNCHANGED affected

Remove(x) ==
  /\ affected' = {p \in Paths : DependsOn(p, x)}
  /\ deps' = [p \in Paths |-> IF p = x THEN {} ELSE {d \in deps[p] : d[1] # x}]

Restart == deps' = Nothing /\ affected' = {}

Next == Resolve \/ Restart \/ \E x \in Paths : Remove(x)

Spec == Init /\ [][Next]_vars
=============================================================================
